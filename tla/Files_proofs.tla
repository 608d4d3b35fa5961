---------------------------- MODULE Files_proofs ----------------------------
(***************************************************************************)
(* Theorems about the two components whose processes share files: the      *)
(* cache of images, for any processes, URLs, trees, sizes and caps; and    *)
(* the settings file, for any helpers, endpoints and saves.                *)
(***************************************************************************)
EXTENDS PreferencesFile, MediaCache, FiniteSums

-----------------------------------------------------------------------------
(* Counting the files of a set                                             *)

\* All the program ever asks of a set of files to count it.
Countable(files) == IsFiniteSet(files) /\ \A f \in files : f.size \in Nat

LEMMA BytesTake ==
    ASSUME NEW files, Countable(files), NEW f \in files
    PROVE  /\ Bytes(files) \in Nat /\ Bytes(files \ {f}) \in Nat
           /\ Bytes(files) = f.size + Bytes(files \ {f})
<1> DEFINE w == [g \in files |-> g.size]
           v == [g \in files \ {f} |-> g.size]
<1>1. w \in [files -> Nat] /\ v \in [files \ {f} -> Nat] /\ w[f] = f.size
  BY DEF Countable
<1>2. \A g \in files \ {f} : v[g] = w[g]
  OBVIOUS
<1> HIDE DEF w, v
<1>3. /\ SumFunction(w) \in Nat /\ SumFunction(v) \in Nat
      /\ SumFunction(w) = w[f] + SumFunction(v)
  BY <1>1, <1>2, SumTakes DEF Countable
<1> QED BY <1>1, <1>3 DEF Bytes, w, v

LEMMA BytesNat ==
    ASSUME NEW files, Countable(files)
    PROVE  Bytes(files) \in Nat
<1> DEFINE w == [g \in files |-> g.size]
<1>1. w \in [files -> Nat]
  BY DEF Countable
<1> HIDE DEF w
<1>2. SumFunction(w) \in Nat
  BY <1>1, SumNat DEF Countable
<1> QED BY <1>2 DEF Bytes, w

LEMMA BytesOfPart ==
    ASSUME NEW files, Countable(files), NEW part \in SUBSET files
    PROVE  Bytes(part) <= Bytes(files)
<1> DEFINE w == [g \in files |-> g.size]
           v == [g \in part |-> g.size]
<1>1. w \in [files -> Nat] /\ v \in [part -> Nat] /\ \A g \in part : v[g] = w[g]
  BY DEF Countable
<1> HIDE DEF w, v
<1>2. SumFunction(v) <= SumFunction(w)
  BY <1>1, SumOfPart DEF Countable
<1> QED BY <1>2 DEF Bytes, w, v

\* One more file, whether or not it was counted already.
LEMMA BytesAdd ==
    ASSUME NEW files, Countable(files), NEW f, f.size \in Nat
    PROVE  /\ Countable(files \cup {f})
           /\ Bytes(files \cup {f}) <= Bytes(files) + f.size
           /\ Cardinality(files \cup {f}) <= Cardinality(files) + 1
<1> DEFINE more == files \cup {f}
<1>1. Countable(more)
  BY FS_AddElement DEF Countable
<1>2. /\ Bytes(more) \in Nat /\ Bytes(more \ {f}) \in Nat
      /\ Bytes(more) = f.size + Bytes(more \ {f})
  <2>1. f \in more
    OBVIOUS
  <2> HIDE DEF more
  <2> QED BY <1>1, <2>1, BytesTake
<1>3. Bytes(more \ {f}) <= Bytes(files) /\ Bytes(files) \in Nat
  <2>1. more \ {f} \in SUBSET files
    OBVIOUS
  <2> HIDE DEF more
  <2> QED BY <2>1, BytesOfPart, BytesNat
<1>4. Cardinality(more) <= Cardinality(files) + 1
  <2>1. Cardinality(files) \in Nat /\ Cardinality(more) =
            IF f \in files THEN Cardinality(files) ELSE Cardinality(files) + 1
    BY FS_AddElement, FS_CardinalityType DEF Countable
  <2> HIDE DEF more
  <2> QED BY <2>1
<1> HIDE DEF more
<1>5. Bytes(more) <= Bytes(files) + f.size
  BY <1>2, <1>3
<1> QED BY <1>1, <1>4, <1>5 DEF more

\* Room for n more bytes in a set of files is room in every part of it.
LEMMA RoomInPart ==
    ASSUME NEW files, Countable(files), NEW part \in SUBSET files, NEW n \in Nat,
           ~ Full(files, n)
    PROVE  Countable(part) /\ ~ Full(part, n)
<1>1. Countable(part)
  BY FS_Subset DEF Countable
<1>2. /\ Cardinality(part) \in Nat /\ Cardinality(files) \in Nat
      /\ Cardinality(part) <= Cardinality(files)
  BY <1>1, FS_Subset, FS_CardinalityType DEF Countable
<1>3. /\ Bytes(part) \in Nat /\ Bytes(files) \in Nat
      /\ Bytes(part) <= Bytes(files)
  BY <1>1, BytesNat, BytesOfPart
<1> QED BY <1>1, <1>2, <1>3, CacheAssumption DEF Full

-----------------------------------------------------------------------------
(* The invariant                                                           *)

CacheFiles == [tree : Trees, url : Urls, name : {"payload", "staging"}, size : Nat,
          good : BOOLEAN, whole : BOOLEAN, ino : Nat]

Readings == [at : {"reading", "shown"}, tree : Trees, url : Urls, open : CacheFiles]
Fetches == [at : {"fetch"}, tree : Trees, url : Urls]
Bodies == [at : {"lock", "survey"}, tree : Trees, url : Urls, size : 1 .. MaxBytes,
           good : BOOLEAN]
Plans == [at : {"evict", "stage"}, tree : Trees, url : Urls, size : 1 .. MaxBytes,
          good : BOOLEAN, other : SUBSET CacheFiles, prev : SUBSET CacheFiles,
          ents : SUBSET CacheFiles]
Drafts == [at : {"write", "rename"}, tree : Trees, url : Urls,
           size : 1 .. MaxBytes, prev : SUBSET CacheFiles, tmp : CacheFiles]
States == {Resting} \cup Readings \cup Fetches \cup Bodies \cup Plans \cup Drafts

CacheTypeOK ==
    /\ disk \in SUBSET CacheFiles /\ IsFiniteSet(disk)
    /\ inodes \in Nat
    /\ owner \in Helpers \cup {Nobody}
    /\ fetcher \in [Helpers -> States]

\* Only whole decodable bodies have a final name.
PayloadsGood == \A f \in Payloads : f.whole /\ f.good

PayloadsFit == Cardinality(Payloads) <= MaxEntries /\ Bytes(Payloads) <= MaxBytes

\* What an open entry shows is what the name stood for.
OpenTrue(q) ==
    q.at \in {"reading", "shown"} =>
        q.open.whole /\ q.open.good /\ q.open.url = q.url /\ q.open.tree = q.tree

Locked == {"survey", "evict", "stage", "write", "rename"}

\* The admission of one helper: under the lock nobody else changes the disk, so
\* the survey stays true, and from "stage" on the new file fits.
Admitting(p) ==
    LET q == fetcher[p]
    IN  /\ q.at \in Locked => owner = p
        /\ q.at \in {"lock", "survey", "evict", "stage"} => q.good
        /\ q.at = "evict" =>
             /\ IsFiniteSet(q.other) /\ IsFiniteSet(q.ents)
             /\ ~ Full(q.other, q.size)
             /\ disk \ q.prev \subseteq q.other \cup q.ents
        /\ q.at = "stage" => ~ Full(disk \ q.prev, q.size)
        /\ q.at \in {"write", "rename"} =>
             /\ q.tmp.good /\ ~ IsPayload(q.tmp)
             /\ ~ Full(disk \ ({q.tmp} \cup q.prev), q.size)
        /\ q.at = "rename" => q.tmp.whole /\ q.tmp.size = q.size

CacheInv ==
    /\ CacheTypeOK /\ PayloadsGood /\ PayloadsFit
    /\ \A p \in Helpers : OpenTrue(fetcher[p]) /\ Admitting(p)

LEMMA StateOf ==
    ASSUME NEW q \in States
    PROVE  /\ q.at \in {"reading", "shown"} => q \in Readings
           /\ q.at = "fetch" => q \in Fetches
           /\ q.at \in {"lock", "survey"} => q \in Bodies
           /\ q.at \in {"evict", "stage"} => q \in Plans
           /\ q.at \in {"write", "rename"} => q \in Drafts
BY DEF States, Resting, Readings, Fetches, Bodies, Plans, Drafts

LEMMA FilesCountable ==
    ASSUME NEW files \in SUBSET CacheFiles, IsFiniteSet(files)
    PROVE  Countable(files)
BY DEF Countable, CacheFiles

LEMMA PutFact ==
    ASSUME fetcher \in [Helpers -> States], NEW p \in Helpers, NEW s \in States,
           Put(p, s)
    PROVE  /\ fetcher' \in [Helpers -> States] /\ fetcher'[p] = s
           /\ \A r \in Helpers \ {p} : fetcher'[r] = fetcher[r]
<1> HIDE DEF States
<1> QED BY DEF Put

\* Nobody else is inside while one helper holds the lock or nobody does.
LEMMA OthersOut ==
    ASSUME CacheInv, NEW p \in Helpers, owner \in {p, Nobody}
    PROVE  \A r \in Helpers \ {p} : fetcher[r].at \notin Locked
<1> SUFFICES ASSUME NEW r \in Helpers \ {p}, fetcher[r].at \in Locked PROVE FALSE
  OBVIOUS
<1>1. owner = r
  BY DEF CacheInv, Admitting
<1> QED BY <1>1, CacheAssumption

\* What a step of one helper has to show.
LEMMA Assemble ==
    ASSUME CacheInv, NEW p \in Helpers, CacheTypeOK', PayloadsGood', PayloadsFit',
           OpenTrue(fetcher'[p]), Admitting(p)',
           \A r \in Helpers \ {p} : fetcher'[r] = fetcher[r],
           owner \in {p, Nobody} \/ UNCHANGED <<disk, owner>>
    PROVE  CacheInv'
<1>1. ASSUME NEW r \in Helpers \ {p} PROVE OpenTrue(fetcher'[r]) /\ Admitting(r)'
  <2>1. OpenTrue(fetcher[r]) /\ Admitting(r) /\ fetcher'[r] = fetcher[r]
    BY DEF CacheInv
  <2>2. CASE UNCHANGED <<disk, owner>>
    BY <2>1, <2>2 DEF Admitting
  <2>3. CASE owner \in {p, Nobody}
    <3>1. fetcher[r].at \notin Locked
      BY <2>3, OthersOut
    <3> QED BY <2>1, <3>1 DEF Admitting, Locked
  <2> QED BY <2>2, <2>3
<1> QED BY <1>1 DEF CacheInv

\* A step that leaves the disk alone.
LEMMA AssembleQuiet ==
    ASSUME CacheInv, NEW p \in Helpers, NEW s \in States, Put(p, s),
           UNCHANGED <<disk, inodes>>, owner' \in Helpers \cup {Nobody},
           OpenTrue(s), Admitting(p)',
           owner \in {p, Nobody} \/ UNCHANGED owner
    PROVE  CacheInv'
<1>1. /\ fetcher' \in [Helpers -> States] /\ fetcher'[p] = s
      /\ \A r \in Helpers \ {p} : fetcher'[r] = fetcher[r]
  BY PutFact DEF CacheInv, CacheTypeOK
<1>2. CacheTypeOK'
  BY <1>1 DEF CacheInv, CacheTypeOK
<1>3. PayloadsGood' /\ PayloadsFit'
  BY DEF CacheInv, PayloadsGood, PayloadsFit, Payloads
<1> QED BY <1>1, <1>2, <1>3, Assemble

LEMMA InitCache == CacheInit => CacheInv
<1> SUFFICES ASSUME CacheInit PROVE CacheInv
  OBVIOUS
<1>1. CacheTypeOK
  BY FS_EmptySet DEF CacheInit, CacheTypeOK, States
<1>2. Payloads = {}
  BY DEF CacheInit, Payloads
<1>3. Cardinality(Payloads) = 0 /\ Bytes(Payloads) = 0
  <2>1. Bytes({}) = 0
    <3> DEFINE w == [f \in {} |-> f.size]
    <3>1. DOMAIN w = {}
      OBVIOUS
    <3> HIDE DEF w
    <3>2. SumFunction(w) = 0
      BY <3>1, SumNothing
    <3> QED BY <3>2 DEF Bytes, w
  <2> QED BY <1>2, <2>1, FS_EmptySet
<1>4. PayloadsGood /\ PayloadsFit
  BY <1>2, <1>3, CacheAssumption DEF PayloadsGood, PayloadsFit
<1>5. ASSUME NEW p \in Helpers PROVE OpenTrue(fetcher[p]) /\ Admitting(p)
  BY DEF CacheInit, Resting, OpenTrue, Admitting, Locked
<1> QED BY <1>1, <1>4, <1>5 DEF CacheInv

-----------------------------------------------------------------------------
(* birc_mf_remote                                                          *)

LEMMA LookupStep ==
    ASSUME CacheInv, NEW p \in Helpers, Lookup(p)
    PROVE  CacheInv'
<1>1. PICK tree \in Trees, url \in Urls :
        IF EntryOf(tree, url) = {}
        THEN Put(p, [at |-> "fetch", tree |-> tree, url |-> url])
        ELSE \E f \in EntryOf(tree, url) :
               Put(p, [at |-> "reading", tree |-> tree, url |-> url, open |-> f])
  BY DEF Lookup
<1>2. PICK s : /\ Put(p, s)
               /\ \/ s = [at |-> "fetch", tree |-> tree, url |-> url]
                  \/ \E f \in EntryOf(tree, url) :
                       s = [at |-> "reading", tree |-> tree, url |-> url, open |-> f]
  BY <1>1
<1>3. s \in States /\ OpenTrue(s) /\ s.at \in {"fetch", "reading"}
  <2>1. CASE s = [at |-> "fetch", tree |-> tree, url |-> url]
    <3>1. s \in Fetches
      BY <2>1 DEF Fetches
    <3> QED BY <2>1, <3>1 DEF States, OpenTrue
  <2>2. ASSUME NEW f \in EntryOf(tree, url),
               s = [at |-> "reading", tree |-> tree, url |-> url, open |-> f]
        PROVE  s \in States /\ OpenTrue(s) /\ s.at = "reading"
    <3>1. f \in CacheFiles /\ f.tree = tree /\ f.url = url /\ f.whole /\ f.good
      BY DEF CacheInv, CacheTypeOK, PayloadsGood, EntryOf, Payloads
    <3>2. s \in Readings
      BY <2>2, <3>1 DEF Readings
    <3> QED BY <2>2, <3>1, <3>2 DEF States, OpenTrue
  <2> QED BY <1>2, <2>1, <2>2
<1>4. UNCHANGED <<disk, inodes, owner>> /\ owner \in Helpers \cup {Nobody}
  BY DEF Lookup, CacheInv, CacheTypeOK
<1>5. fetcher'[p] = s
  BY <1>2, <1>3, PutFact DEF CacheInv, CacheTypeOK
<1>6. Admitting(p)'
  BY <1>3, <1>5 DEF Admitting, Locked
<1> QED BY <1>2, <1>3, <1>4, <1>6, AssembleQuiet

\* Going to rest needs nothing but the lock to be given up, if it was held.
LEMMA RestStep ==
    ASSUME CacheInv, NEW p \in Helpers, Put(p, Resting), UNCHANGED <<disk, inodes>>,
           owner' = owner \/ (owner = p /\ owner' = Nobody)
    PROVE  CacheInv'
<1>1. Resting \in States /\ OpenTrue(Resting)
  BY DEF States, OpenTrue, Resting
<1>2. fetcher'[p] = Resting
  BY <1>1, PutFact DEF CacheInv, CacheTypeOK
<1>3. Admitting(p)'
  BY <1>2 DEF Admitting, Resting, Locked
<1>4. owner' \in Helpers \cup {Nobody} /\ (owner \in {p, Nobody} \/ UNCHANGED owner)
  BY DEF CacheInv, CacheTypeOK
<1> QED BY <1>1, <1>3, <1>4, AssembleQuiet

LEMMA ReadCachedStep ==
    ASSUME CacheInv, NEW p \in Helpers, ReadCached(p)
    PROVE  CacheInv'
<1> DEFINE q == fetcher[p]
<1>1. q \in States /\ OpenTrue(q) /\ q.at = "reading"
  BY DEF CacheInv, CacheTypeOK, ReadCached
<1>2. q \in Readings
  BY <1>1, StateOf
<1>3. PICK s : /\ Put(p, s)
               /\ \/ s = [at |-> "shown", open |-> q.open, tree |-> q.tree,
                          url |-> q.url]
                  \/ s = [at |-> "fetch", tree |-> q.tree, url |-> q.url]
  BY DEF ReadCached
<1>4. q.open \in CacheFiles /\ q.tree \in Trees /\ q.url \in Urls
  BY <1>2 DEF Readings
<1> HIDE DEF q
<1>5. s \in States /\ OpenTrue(s) /\ s.at \in {"shown", "fetch"}
  <2>1. CASE s = [at |-> "fetch", tree |-> q.tree, url |-> q.url]
    <3>1. s \in Fetches
      BY <1>4, <2>1 DEF Fetches
    <3> QED BY <2>1, <3>1 DEF States, OpenTrue
  <2>2. CASE s = [at |-> "shown", open |-> q.open, tree |-> q.tree, url |-> q.url]
    <3>1. s \in Readings
      BY <1>4, <2>2 DEF Readings
    <3> QED BY <1>1, <2>2, <3>1 DEF States, OpenTrue
  <2> QED BY <1>3, <2>1, <2>2
<1>6. UNCHANGED <<disk, inodes, owner>> /\ owner \in Helpers \cup {Nobody}
  BY DEF ReadCached, CacheInv, CacheTypeOK
<1>7. fetcher'[p] = s
  BY <1>3, <1>5, PutFact DEF CacheInv, CacheTypeOK
<1>8. Admitting(p)'
  BY <1>5, <1>7 DEF Admitting, Locked
<1> QED BY <1>3, <1>5, <1>6, <1>8, AssembleQuiet

LEMMA FetchStep ==
    ASSUME CacheInv, NEW p \in Helpers, Fetch(p)
    PROVE  CacheInv'
<1> DEFINE q == fetcher[p]
<1>1. q \in Fetches
  BY StateOf DEF CacheInv, CacheTypeOK, Fetch
<1>2. UNCHANGED <<disk, inodes, owner>> /\ owner \in Helpers \cup {Nobody}
  BY DEF Fetch, CacheInv, CacheTypeOK
<1>3. CASE Put(p, Resting)
  BY <1>2, <1>3, RestStep
<1>4. ASSUME NEW n \in Sizes, NEW good \in BOOLEAN, good,
             Put(p, [at |-> "lock", tree |-> q.tree, url |-> q.url,
                     size |-> n, good |-> good])
      PROVE  CacheInv'
  <2> DEFINE s == [at |-> "lock", tree |-> q.tree, url |-> q.url, size |-> n,
                   good |-> good]
  <2>1. q.tree \in Trees /\ q.url \in Urls /\ n \in 1 .. MaxBytes
    BY <1>1, CacheAssumption DEF Fetches
  <2>2. s \in Bodies
    BY <2>1 DEF Bodies
  <2>3. s \in States /\ OpenTrue(s) /\ s.at = "lock" /\ s.good
    BY <1>4, <2>2 DEF States, OpenTrue
  <2> HIDE DEF s, q
  <2>4. Put(p, s)
    BY <1>4 DEF s
  <2>5. fetcher'[p] = s
    BY <2>3, <2>4, PutFact DEF CacheInv, CacheTypeOK
  <2>6. Admitting(p)'
    BY <2>3, <2>5 DEF Admitting, Locked
  <2> QED BY <1>2, <2>3, <2>4, <2>6, AssembleQuiet
<1>5. \/ Put(p, Resting)
      \/ \E n \in Sizes, good \in BOOLEAN :
           /\ good
           /\ Put(p, [at |-> "lock", tree |-> q.tree, url |-> q.url,
                      size |-> n, good |-> good])
  BY DEF Fetch, Admit
<1> QED BY <1>3, <1>4, <1>5

-----------------------------------------------------------------------------
(* birc_mf_cache_write                                                     *)

LEMMA TakeLockStep ==
    ASSUME CacheInv, NEW p \in Helpers, TakeLock(p)
    PROVE  CacheInv'
<1> DEFINE q == fetcher[p]
           s == [q EXCEPT !.at = "survey"]
<1>1. q \in Bodies /\ q.good /\ UNCHANGED <<disk, inodes>>
  <2>1. q \in States /\ q.at = "lock" /\ Admitting(p)
    BY DEF CacheInv, CacheTypeOK, TakeLock
  <2> QED BY <2>1, StateOf DEF Admitting, TakeLock
<1>2. CASE Put(p, Resting) /\ UNCHANGED owner
  BY <1>1, <1>2, RestStep
<1>3. CASE owner = Nobody /\ owner' = p /\ Put(p, s)
  <2>1. s \in Bodies /\ s.at = "survey" /\ s.good
    BY <1>1 DEF Bodies
  <2>2. s \in States /\ OpenTrue(s)
    BY <2>1 DEF States, OpenTrue
  <2> HIDE DEF s
  <2>3. fetcher'[p] = s
    BY <1>3, <2>2, PutFact DEF CacheInv, CacheTypeOK
  <2>4. Admitting(p)'
    BY <1>3, <2>1, <2>3 DEF Admitting, Locked
  <2> QED BY <1>1, <1>3, <2>2, <2>4, AssembleQuiet
<1> QED BY <1>2, <1>3 DEF TakeLock, Lock

LEMMA SurveyStep ==
    ASSUME CacheInv, NEW p \in Helpers, Survey(p)
    PROVE  CacheInv'
<1> DEFINE q == fetcher[p]
           prev == EntryOf(q.tree, q.url)
           other == Others(q.tree)
           ents == Listed(q.tree) \ prev
           s == [at |-> "evict", tree |-> q.tree, url |-> q.url, size |-> q.size,
                 good |-> q.good, other |-> other, prev |-> prev, ents |-> ents]
<1>1. q \in Bodies /\ q.good /\ owner = p /\ UNCHANGED <<disk, inodes>>
  <2>1. q \in States /\ q.at = "survey" /\ Admitting(p)
    BY DEF CacheInv, CacheTypeOK, Survey
  <2> QED BY <2>1, StateOf DEF Admitting, Locked, Survey
<1>2. CASE owner' = Nobody /\ Put(p, Resting)
  BY <1>1, <1>2, RestStep
<1>3. CASE ~ Full(other, q.size) /\ UNCHANGED owner /\ Put(p, s)
  <2>1. /\ other \in SUBSET CacheFiles /\ prev \in SUBSET CacheFiles /\ ents \in SUBSET CacheFiles
        /\ IsFiniteSet(other) /\ IsFiniteSet(ents)
        /\ disk \ prev \subseteq other \cup ents
    <3>1. other \in SUBSET disk /\ prev \in SUBSET disk /\ ents \in SUBSET disk
      BY DEF Others, EntryOf, Payloads, Listed
    <3>2. disk \ prev \subseteq other \cup ents
      BY DEF Others, Listed
    <3>3. disk \in SUBSET CacheFiles /\ IsFiniteSet(disk)
      BY DEF CacheInv, CacheTypeOK
    <3> HIDE DEF other, prev, ents
    <3> QED BY <3>1, <3>2, <3>3, FS_Subset
  <2> HIDE DEF other, prev, ents
  <2>2. s \in Plans
    BY <1>1, <2>1 DEF Bodies, Plans
  <2>3. s \in States /\ OpenTrue(s)
    BY <2>2 DEF States, OpenTrue
  <2>4. /\ s.at = "evict" /\ s.good = q.good /\ s.other = other /\ s.ents = ents
        /\ s.prev = prev /\ s.size = q.size
    OBVIOUS
  <2> HIDE DEF s
  <2>5. fetcher'[p] = s
    BY <1>3, <2>3, PutFact DEF CacheInv, CacheTypeOK
  <2>6. Admitting(p)'
    BY <1>1, <1>3, <2>1, <2>4, <2>5 DEF Admitting, Full
  <2> QED BY <1>1, <1>3, <2>3, <2>6, AssembleQuiet
<1> QED BY <1>2, <1>3 DEF Survey

\* Payloads stay good and within the caps while none is added.
LEMMA FewerPayloads ==
    ASSUME CacheInv, Payloads' \subseteq Payloads
    PROVE  PayloadsGood' /\ PayloadsFit'
<1>1. Payloads \in SUBSET CacheFiles /\ IsFiniteSet(Payloads)
  <2>1. Payloads \in SUBSET disk /\ disk \in SUBSET CacheFiles /\ IsFiniteSet(disk)
    BY DEF CacheInv, CacheTypeOK, Payloads
  <2> QED BY <2>1, FS_Subset
<1>2. Countable(Payloads)
  BY <1>1, FilesCountable
<1>3. Bytes(Payloads') <= Bytes(Payloads) /\ Countable(Payloads')
  BY <1>2, BytesOfPart, FS_Subset DEF Countable
<1>4. Cardinality(Payloads') <= Cardinality(Payloads)
  BY <1>1, FS_Subset
<1>5. /\ Bytes(Payloads) \in Nat /\ Bytes(Payloads') \in Nat
      /\ Cardinality(Payloads) \in Nat /\ Cardinality(Payloads') \in Nat
  BY <1>2, <1>3, BytesNat, FS_CardinalityType DEF Countable
<1>6. PayloadsFit'
  BY <1>3, <1>4, <1>5, CacheAssumption DEF CacheInv, PayloadsFit
<1>7. PayloadsGood'
  BY DEF CacheInv, PayloadsGood
<1> QED BY <1>6, <1>7

LEMMA EvictStep ==
    ASSUME CacheInv, NEW p \in Helpers, Evict(p)
    PROVE  CacheInv'
<1> DEFINE q == fetcher[p]
<1>1. q \in Plans /\ q.at = "evict" /\ owner = p /\ Admitting(p)
  <2>1. q \in States /\ q.at = "evict" /\ Admitting(p)
    BY DEF CacheInv, CacheTypeOK, Evict
  <2> QED BY <2>1, StateOf DEF Admitting, Locked
<1>2. /\ IsFiniteSet(q.other) /\ IsFiniteSet(q.ents) /\ ~ Full(q.other, q.size)
      /\ disk \ q.prev \subseteq q.other \cup q.ents /\ q.good
  BY <1>1 DEF Admitting
<1>3. /\ q.other \in SUBSET CacheFiles /\ q.ents \in SUBSET CacheFiles /\ q.prev \in SUBSET CacheFiles
      /\ q.tree \in Trees /\ q.url \in Urls /\ q.size \in 1 .. MaxBytes
      /\ q.good \in BOOLEAN
  BY <1>1 DEF Plans
<1>4. UNCHANGED <<inodes, owner>> /\ owner \in Helpers \cup {Nobody}
  BY DEF Evict, CacheInv, CacheTypeOK
<1>5. ASSUME NEW old, disk' = disk \ {old}, Put(p, [q EXCEPT !.ents = @ \ {old}])
      PROVE  CacheInv'
  <2> DEFINE s == [q EXCEPT !.ents = @ \ {old}]
  <2>1. s \in Plans
    BY <1>1, <1>3 DEF Plans
  <2>2. /\ s.at = "evict" /\ s.good = q.good /\ s.other = q.other /\ s.prev = q.prev
        /\ s.ents = q.ents \ {old} /\ s.size = q.size
    BY <1>1 DEF Plans
  <2>3. s \in States /\ OpenTrue(s)
    BY <2>1, <2>2 DEF States, OpenTrue
  <2> HIDE DEF s, q
  <2>4. /\ fetcher' \in [Helpers -> States] /\ fetcher'[p] = s
        /\ \A r \in Helpers \ {p} : fetcher'[r] = fetcher[r]
    <3>1. Put(p, s)
      BY <1>5 DEF s, q
    <3> QED BY <2>3, <3>1, PutFact DEF CacheInv, CacheTypeOK
  <2>5. CacheTypeOK'
    BY <1>4, <1>5, <2>4, FS_Subset DEF CacheInv, CacheTypeOK
  <2>6. PayloadsGood' /\ PayloadsFit'
    <3>1. Payloads' \subseteq Payloads
      BY <1>5 DEF Payloads, IsPayload
    <3> QED BY <3>1, FewerPayloads
  <2>7. IsFiniteSet(s.ents)
    BY <1>2, <2>2, FS_Subset
  <2>8. disk' \ s.prev \subseteq s.other \cup s.ents
    BY <1>2, <1>5, <2>2
  <2>9. Admitting(p)'
    <3>1. owner' = p /\ ~ Full(s.other, s.size) /\ IsFiniteSet(s.other) /\ s.good
      BY <1>1, <1>2, <1>4, <2>2
    <3> QED BY <2>2, <2>4, <2>7, <2>8, <3>1 DEF Admitting
  <2>10. OpenTrue(fetcher'[p])
    BY <2>3, <2>4
  <2> QED BY <1>1, <2>4, <2>5, <2>6, <2>9, <2>10, Assemble
<1>6. ASSUME ~ (q.ents # {} /\ Full(q.other \cup q.ents, q.size)),
             UNCHANGED disk, Put(p, [q EXCEPT !.at = "stage"])
      PROVE  CacheInv'
  <2> DEFINE s == [q EXCEPT !.at = "stage"]
             both == q.other \cup q.ents
  <2>1. s \in Plans
    BY <1>1, <1>3 DEF Plans
  <2>2. s.at = "stage" /\ s.good = q.good /\ s.prev = q.prev /\ s.size = q.size
    BY <1>1 DEF Plans
  <2>3. s \in States /\ OpenTrue(s)
    BY <2>1, <2>2 DEF States, OpenTrue
  <2>4. ~ Full(both, q.size)
    <3>1. CASE q.ents = {}
      <4>1. both = q.other
        BY <3>1
      <4> QED BY <1>2, <4>1
    <3>2. CASE q.ents # {}
      BY <1>6, <3>2
    <3> QED BY <3>1, <3>2
  <2>5. Countable(both)
    <3>1. both \in SUBSET CacheFiles /\ IsFiniteSet(both)
      BY <1>2, <1>3, FS_Union
    <3> HIDE DEF both
    <3> QED BY <3>1, FilesCountable
  <2>6. ~ Full(disk \ q.prev, q.size)
    <3>1. disk \ q.prev \in SUBSET both /\ q.size \in Nat
      BY <1>2, <1>3, CacheAssumption
    <3> HIDE DEF both, q
    <3> QED BY <2>4, <2>5, <3>1, RoomInPart
  <2> HIDE DEF s, both, q
  <2>7. Put(p, s)
    BY <1>6 DEF s, q
  <2>8. fetcher'[p] = s
    BY <2>3, <2>7, PutFact DEF CacheInv, CacheTypeOK
  <2>9. Admitting(p)'
    <3>1. owner' = p /\ disk' = disk /\ s.good /\ ~ Full(disk \ s.prev, s.size)
      BY <1>1, <1>2, <1>4, <1>6, <2>2, <2>6
    <3> QED BY <2>2, <2>8, <3>1 DEF Admitting
  <2> QED BY <1>4, <1>6, <2>3, <2>7, <2>9, AssembleQuiet
<1> QED BY <1>5, <1>6 DEF Evict

LEMMA CreateStep ==
    ASSUME CacheInv, NEW p \in Helpers, Create(p)
    PROVE  CacheInv'
<1> DEFINE q == fetcher[p]
           tmp == Created(p)
           s == [at |-> "write", tree |-> q.tree, url |-> q.url, size |-> q.size,
                 prev |-> q.prev, tmp |-> tmp]
<1>1. q \in Plans /\ owner = p /\ q.good /\ ~ Full(disk \ q.prev, q.size)
  <2>1. q \in States /\ q.at = "stage" /\ Admitting(p)
    BY DEF CacheInv, CacheTypeOK, Create
  <2> QED BY <2>1, StateOf DEF Admitting, Locked
<1>2. inodes \in Nat /\ inodes' = inodes + 1 /\ owner' = owner
      /\ disk' = disk \cup {tmp} /\ Put(p, s)
  BY DEF CacheInv, CacheTypeOK, Create
<1>3. /\ q.prev \in SUBSET CacheFiles /\ q.tree \in Trees /\ q.url \in Urls
      /\ q.size \in 1 .. MaxBytes /\ q.good \in BOOLEAN
  BY <1>1 DEF Plans
<1>4. tmp \in CacheFiles /\ tmp.name = "staging" /\ tmp.good
  BY <1>1, <1>2, <1>3 DEF Created, NewFile, CacheFiles
<1> HIDE DEF tmp, q
<1>5. s \in Drafts
  BY <1>3, <1>4 DEF Drafts
<1>6. /\ s.at = "write" /\ s.prev = q.prev /\ s.size = q.size /\ s.tmp = tmp
  OBVIOUS
<1>7. s \in States /\ OpenTrue(s)
  BY <1>5, <1>6 DEF States, OpenTrue
<1> HIDE DEF s
<1>8. /\ fetcher' \in [Helpers -> States] /\ fetcher'[p] = s
      /\ \A r \in Helpers \ {p} : fetcher'[r] = fetcher[r]
  BY <1>2, <1>7, PutFact DEF CacheInv, CacheTypeOK
<1>9. disk \in SUBSET CacheFiles /\ IsFiniteSet(disk)
  BY DEF CacheInv, CacheTypeOK
<1>10. CacheTypeOK'
  <2>1. IsFiniteSet(disk')
    BY <1>2, <1>9, FS_AddElement
  <2> QED BY <1>2, <1>4, <1>8, <2>1 DEF CacheInv, CacheTypeOK
<1>11. PayloadsGood' /\ PayloadsFit'
  <2>1. Payloads' \subseteq Payloads
    BY <1>2, <1>4 DEF Payloads, IsPayload
  <2> QED BY <2>1, FewerPayloads
<1>12. ~ Full(disk' \ ({tmp} \cup q.prev), q.size)
  <2>1. /\ disk' \ ({tmp} \cup q.prev) \in SUBSET (disk \ q.prev)
        /\ disk \ q.prev \in SUBSET CacheFiles /\ q.size \in Nat
    BY <1>2, <1>3, <1>9, CacheAssumption
  <2>2. Countable(disk \ q.prev)
    BY <1>9, <2>1, FS_Subset, FilesCountable
  <2> QED BY <1>1, <2>1, <2>2, RoomInPart
<1>13. Admitting(p)'
  BY <1>1, <1>2, <1>4, <1>6, <1>8, <1>12 DEF Admitting, IsPayload
<1>14. OpenTrue(fetcher'[p])
  BY <1>7, <1>8
<1> QED BY <1>1, <1>8, <1>10, <1>11, <1>13, <1>14, Assemble


\* A file that goes, on the way back to rest.
LEMMA DropStep ==
    ASSUME CacheInv, NEW p \in Helpers, NEW f, disk' = disk \ {f}, owner = p,
           owner' = Nobody, Put(p, Resting), UNCHANGED inodes
    PROVE  CacheInv'
<1>1. Resting \in States /\ OpenTrue(Resting)
  BY DEF States, OpenTrue, Resting
<1>2. /\ fetcher' \in [Helpers -> States] /\ fetcher'[p] = Resting
      /\ \A r \in Helpers \ {p} : fetcher'[r] = fetcher[r]
  BY <1>1, PutFact DEF CacheInv, CacheTypeOK
<1>3. CacheTypeOK'
  BY <1>2, FS_Subset DEF CacheInv, CacheTypeOK
<1>4. Payloads' \subseteq Payloads
  BY DEF Payloads, IsPayload
<1>5. PayloadsGood' /\ PayloadsFit'
  BY <1>4, FewerPayloads
<1>6. Admitting(p)'
  BY <1>2 DEF Admitting, Resting, Locked
<1>7. OpenTrue(fetcher'[p])
  BY <1>1, <1>2
<1> QED BY <1>2, <1>3, <1>5, <1>6, <1>7, Assemble

LEMMA WriteStep ==
    ASSUME CacheInv, NEW p \in Helpers, Write(p)
    PROVE  CacheInv'
<1> DEFINE q == fetcher[p]
           full == [q.tmp EXCEPT !.size = q.size, !.whole = TRUE]
           s == [q EXCEPT !.at = "rename", !.tmp = full]
<1>1. /\ q \in Drafts /\ owner = p /\ q.tmp.good /\ ~ IsPayload(q.tmp)
      /\ ~ Full(disk \ ({q.tmp} \cup q.prev), q.size)
  <2>1. q \in States /\ q.at = "write" /\ Admitting(p)
    BY DEF CacheInv, CacheTypeOK, Write
  <2> QED BY <2>1, StateOf DEF Admitting, Locked
<1>2. CASE disk' = disk \ {q.tmp} /\ Put(p, Resting) /\ owner' = Nobody
  BY <1>1, <1>2, DropStep DEF Write
<1>3. CASE /\ disk' = (disk \ {q.tmp}) \cup {full} /\ Put(p, s)
           /\ UNCHANGED owner
  <2>1. /\ q.prev \in SUBSET CacheFiles /\ q.tree \in Trees /\ q.url \in Urls
        /\ q.size \in 1 .. MaxBytes /\ q.size \in Nat /\ q.tmp \in CacheFiles
    BY <1>1, CacheAssumption DEF Drafts
  <2>2. /\ full \in CacheFiles /\ full.good = q.tmp.good /\ full.name = q.tmp.name
        /\ full.whole /\ full.size = q.size
    BY <2>1 DEF CacheFiles
  <2> HIDE DEF full
  <2>3. s \in Drafts /\ s.at = "rename" /\ s.tmp = full /\ s.prev = q.prev
        /\ s.size = q.size
    BY <1>1, <2>1, <2>2 DEF Drafts
  <2>4. s \in States /\ OpenTrue(s)
    BY <2>3 DEF States, OpenTrue
  <2> HIDE DEF s, q
  <2>5. /\ fetcher' \in [Helpers -> States] /\ fetcher'[p] = s
        /\ \A r \in Helpers \ {p} : fetcher'[r] = fetcher[r]
    BY <1>3, <2>4, PutFact DEF CacheInv, CacheTypeOK
  <2>6. disk \in SUBSET CacheFiles /\ IsFiniteSet(disk)
    BY DEF CacheInv, CacheTypeOK
  <2>7. CacheTypeOK'
    <3>1. IsFiniteSet(disk \ {q.tmp})
      BY <2>6, FS_Subset
    <3>2. IsFiniteSet(disk')
      BY <1>3, <3>1, FS_AddElement
    <3> QED BY <1>3, <2>2, <2>5, <2>6, <3>2 DEF CacheInv, CacheTypeOK, Write
  <2>8. PayloadsGood' /\ PayloadsFit'
    <3>1. Payloads' \subseteq Payloads
      BY <1>1, <1>3, <2>2 DEF Payloads, IsPayload
    <3> QED BY <3>1, FewerPayloads
  <2>9. ~ Full(disk' \ ({full} \cup q.prev), q.size)
    <3> DEFINE rest == disk \ ({q.tmp} \cup q.prev)
    <3>1. disk' \ ({full} \cup q.prev) \in SUBSET rest
      BY <1>3
    <3>2. Countable(rest)
      BY <2>6, FS_Subset, FilesCountable
    <3>3. ~ Full(rest, q.size)
      BY <1>1
    <3> HIDE DEF rest
    <3> QED BY <2>1, <3>1, <3>2, <3>3, RoomInPart
  <2>10. Admitting(p)'
    <3>1. owner' = p /\ full.good /\ ~ IsPayload(full)
      BY <1>1, <1>3, <2>2 DEF IsPayload
    <3> QED BY <2>2, <2>3, <2>5, <2>9, <3>1 DEF Admitting
  <2>11. OpenTrue(fetcher'[p])
    BY <2>4, <2>5
  <2> QED BY <1>1, <2>5, <2>7, <2>8, <2>10, <2>11, Assemble
<1> QED BY <1>2, <1>3 DEF Write

\* The entry a commit leaves is whole, and everything fits with it.
LEMMA CommitFits ==
    ASSUME CacheInv, NEW p \in Helpers, Commit(p)
    PROVE  /\ CacheInv'
           /\ disk' \ disk # {} =>
                Cardinality(disk') <= MaxEntries /\ Bytes(disk') <= MaxBytes
<1> DEFINE q == fetcher[p]
           final == [q.tmp EXCEPT !.name = "payload"]
           rest == disk \ ({q.tmp} \cup q.prev)
<1>1. /\ q \in Drafts /\ owner = p /\ q.tmp.good /\ q.tmp.whole
      /\ q.tmp.size = q.size /\ ~ Full(rest, q.size)
  <2>1. q \in States /\ q.at = "rename" /\ Admitting(p)
    BY DEF CacheInv, CacheTypeOK, Commit
  <2> QED BY <2>1, StateOf DEF Admitting, Locked
<1>2. Put(p, Resting) /\ owner' = Nobody /\ UNCHANGED inodes
  BY DEF Commit
<1>3. CASE disk' = disk \ {q.tmp}
  <2>1. CacheInv'
    BY <1>1, <1>2, <1>3, DropStep
  <2> QED BY <1>3, <2>1
<1>4. CASE disk' = rest \cup {final}
  <2>1. q.size \in Nat /\ q.tmp \in CacheFiles
    BY <1>1, CacheAssumption DEF Drafts
  <2>2. final \in CacheFiles /\ final.good /\ final.whole /\ final.size = q.size
    BY <1>1, <2>1 DEF CacheFiles
  <2> HIDE DEF final
  <2>3. disk \in SUBSET CacheFiles /\ IsFiniteSet(disk)
    BY DEF CacheInv, CacheTypeOK
  <2>4. rest \in SUBSET CacheFiles /\ IsFiniteSet(rest) /\ Countable(rest)
    BY <2>3, FS_Subset, FilesCountable
  <2>5. rest \subseteq disk
    OBVIOUS
  <2> HIDE DEF rest, q
  <2>6. /\ Countable(disk') /\ Bytes(disk') <= Bytes(rest) + final.size
        /\ Cardinality(disk') <= Cardinality(rest) + 1
    BY <1>4, <2>1, <2>2, <2>4, BytesAdd
  <2>7. Bytes(disk') <= MaxBytes /\ Cardinality(disk') <= MaxEntries
    <3>1. /\ Bytes(rest) \in Nat /\ Bytes(disk') \in Nat
          /\ Cardinality(rest) \in Nat /\ Cardinality(disk') \in Nat
      BY <2>4, <2>6, BytesNat, FS_CardinalityType DEF Countable
    <3>2. Cardinality(rest) + 1 <= MaxEntries /\ Bytes(rest) + q.size <= MaxBytes
      BY <1>1, <2>1, <3>1, CacheAssumption DEF Full
    <3> QED BY <2>1, <2>2, <2>6, <3>1, <3>2, CacheAssumption
  <2>8. Resting \in States /\ OpenTrue(Resting)
    BY DEF States, OpenTrue, Resting
  <2>9. /\ fetcher' \in [Helpers -> States] /\ fetcher'[p] = Resting
        /\ \A r \in Helpers \ {p} : fetcher'[r] = fetcher[r]
    BY <1>2, <2>8, PutFact DEF CacheInv, CacheTypeOK
  <2>10. CacheTypeOK'
    BY <1>2, <1>4, <2>2, <2>4, <2>6, <2>9 DEF CacheInv, CacheTypeOK, Countable
  <2>11. PayloadsGood'
    BY <1>4, <2>2, <2>5 DEF CacheInv, PayloadsGood, Payloads, IsPayload
  <2>12. PayloadsFit'
    <3>1. Payloads' \in SUBSET disk'
      BY DEF Payloads
    <3>2. /\ Bytes(Payloads') <= Bytes(disk') /\ Countable(Payloads')
          /\ Cardinality(Payloads') <= Cardinality(disk')
      BY <2>6, <3>1, BytesOfPart, FS_Subset DEF Countable
    <3>3. /\ Bytes(Payloads') \in Nat /\ Bytes(disk') \in Nat
          /\ Cardinality(Payloads') \in Nat /\ Cardinality(disk') \in Nat
      BY <2>6, <3>2, BytesNat, FS_CardinalityType DEF Countable
    <3> QED BY <2>7, <3>2, <3>3, CacheAssumption DEF PayloadsFit
  <2>13. Admitting(p)'
    BY <2>9 DEF Admitting, Resting, Locked
  <2>14. OpenTrue(fetcher'[p])
    BY <2>8, <2>9
  <2>15. CacheInv'
    BY <1>1, <2>9, <2>10, <2>11, <2>12, <2>13, <2>14, Assemble DEF q
  <2> QED BY <2>7, <2>15
<1> QED BY <1>3, <1>4 DEF Commit

\* Every step of the cache keeps the invariant.
LEMMA NextCache == CacheInv /\ [CacheNext]_cacheVars => CacheInv'
<1> SUFFICES ASSUME CacheInv, [CacheNext]_cacheVars PROVE CacheInv'
  OBVIOUS
<1>1. CASE UNCHANGED cacheVars
  BY <1>1 DEF cacheVars, CacheInv, CacheTypeOK, PayloadsGood, PayloadsFit, Payloads,
              Admitting
<1>2. CASE CacheNext
  <2> SUFFICES ASSUME NEW p \in Helpers,
                      \/ Lookup(p) \/ ReadCached(p) \/ Shown(p) \/ Fetch(p)
                      \/ TakeLock(p) \/ Survey(p) \/ Evict(p)
                      \/ Create(p) \/ Write(p) \/ Commit(p) \/ Crash(p)
               PROVE  CacheInv'
    BY <1>2 DEF CacheNext
  <2>1. CASE Shown(p)
    BY <2>1, RestStep DEF Shown
  <2>2. CASE Crash(p)
    BY <2>2, RestStep DEF Crash
  <2> QED BY <2>1, <2>2, LookupStep, ReadCachedStep, FetchStep, TakeLockStep,
             SurveyStep, EvictStep, CreateStep, WriteStep, CommitFits
<1> QED BY <1>1, <1>2

\* The invariant holds throughout: the shape of the state, whole bodies under
\* every final name, the caps, and what an admission knows under the lock.
THEOREM CacheInvariance == CacheSpec => []CacheInv
<1>1. CacheInit => CacheInv
  BY InitCache
<1> QED BY <1>1, NextCache, PTL DEF CacheSpec

\* What a helper shows from the cache is the whole decodable body of the URL it
\* asked for, although birc_mf_read_cached takes no lock.
THEOREM ReadsAreWhole == CacheSpec => []ShowsWhole
<1>1. CacheInv => ShowsWhole
  BY DEF CacheInv, OpenTrue, ShowsWhole
<1> QED BY <1>1, CacheInvariance, PTL

\* Right after an admission everything on disk fits.
AdmissionFits ==
    \A p \in Helpers :
        fetcher[p].at = "rename" /\ fetcher'[p] = Resting /\ disk' \ disk # {}
          => Cardinality(disk') <= MaxEntries /\ Bytes(disk') <= MaxBytes

\* The caps on entries and bytes hold at all times for what is stored, and for
\* the staging files too right after an admission (birc_mf_usage).
THEOREM CapsHold == CacheSpec => WithinCaps
<1>1. CacheInv => Cardinality(Payloads) <= MaxEntries /\ Bytes(Payloads) <= MaxBytes
  BY DEF CacheInv, PayloadsFit
<1>2. CacheInv /\ [CacheNext]_cacheVars => [AdmissionFits]_cacheVars
  <2> SUFFICES ASSUME CacheInv, CacheNext, NEW p \in Helpers,
                      fetcher[p].at = "rename", fetcher'[p] = Resting,
                      disk' \ disk # {}
               PROVE  Cardinality(disk') <= MaxEntries /\ Bytes(disk') <= MaxBytes
    BY DEF AdmissionFits, cacheVars
  <2>1. PICK r \in Helpers :
          \/ Lookup(r) \/ ReadCached(r) \/ Shown(r) \/ Fetch(r)
          \/ TakeLock(r) \/ Survey(r) \/ Evict(r)
          \/ Create(r) \/ Write(r) \/ Commit(r) \/ Crash(r)
    BY DEF CacheNext
  <2>2. disk' # disk
    OBVIOUS
  <2>3. r = p
    <3> SUFFICES ASSUME r # p PROVE FALSE
      OBVIOUS
    <3>1. \E s : Put(r, s)
      <4>1. CASE Lookup(r)
        BY <4>1, <2>2 DEF Lookup
      <4> QED BY <2>1, <2>2, <4>1 DEF ReadCached, Shown, Fetch, TakeLock, Survey, Evict,
                 Create, Write, Commit, Crash
    <3>2. fetcher'[p] = fetcher[p]
      BY <3>1 DEF Put, CacheInv, CacheTypeOK
    <3> QED BY <3>2 DEF Resting
  <2>4. Commit(p)
    BY <2>1, <2>2, <2>3 DEF Lookup, ReadCached, Shown, Fetch, TakeLock, Survey, Evict,
                            Create, Write, Crash, Put, Resting
  <2> QED BY <2>4, CommitFits
<1>3. CacheSpec => []CacheInv
  BY CacheInvariance
<1>4. CacheSpec => []CacheInv /\ [][AdmissionFits]_cacheVars
  BY <1>2, <1>3, PTL DEF CacheSpec
<1> QED BY <1>1, <1>4, PTL DEF WithinCaps, AdmissionFits

-----------------------------------------------------------------------------
(* The settings file: a save reported done stays in the file, and no call    *)
(* builds on a document the file never held.                                 *)

Steps == {"idle", "open", "half", "read", "have", "staged", "synced", "same", "renamed"}

\* A call that edits a document, before the name means it.
Builds == {"half", "read", "have", "staged", "synced", "same"}
Patches == {"staged", "synced", "same", "renamed"}

Calls == [at : Steps, op : {"read", "write"}, host : Endpoints \cup {None},
          save : Saves \cup {None}, prev : Nat \cup {None},
          doc : Docs \cup {Torn, None}]

SettingsTypeOK ==
    /\ proc \in [Procs -> Calls]
    /\ cur \in Files \cup {None}
    /\ older \subseteq Files \cup {None}
    /\ ids \in Nat
    /\ hopes \in [Endpoints -> SUBSET (Saves \cup {None})]
    /\ held \subseteq Docs

\* What a step of a call has in hand.
InHand(c) ==
    /\ c.op = "write" /\ c.at # "idle" => c.host \in Endpoints /\ c.save \in Saves
    /\ c.at \in {"half", "read"} => c.doc \in Docs \cup {Torn} /\ c.prev \in Nat
    /\ c.at \in {"have"} \cup Patches => c.doc \in Docs
    /\ c.at \in Patches => c.op = "write" /\ c.doc.entries[c.host] = c.save
    /\ c.at = "renamed" => c.prev \in Nat

Typed == \A p \in Procs : InHand(proc[p])

\* The lock is held once.
OneWriter == \A p, q \in Procs : Locks(p) /\ Locks(q) => p = q

\* No identity is ahead of the last one given out.
Numbered ==
    /\ \A p \in Procs : proc[p].prev \in Nat => proc[p].prev <= ids
    /\ \A f \in older \cup {cur} :
         f # None => f.id <= ids /\ f.doc \in held \cup {Torn}

\* A call that read the file there is holds its document, and the file a save
\* renamed is the one it built.
Same(c) ==
    cur # None /\ cur.id = c.prev =>
      /\ c.at \in {"half", "read"} => c.doc = cur.doc
      /\ c.at = "renamed" => c.doc = cur.doc /\ cur.safe

Reading == \A p \in Procs : Same(proc[p])

\* What a save builds keeps every other endpoint's promise.
Keeps(c) ==
    c.op = "write" /\ c.at \in Builds /\ c.doc # Torn =>
      \A h \in Endpoints :
        h # c.host /\ hopes[h] # {} => c.doc.entries[h] \in hopes[h]

Building == \A p \in Procs : Keeps(proc[p])

\* So does every file the name may mean after a power cut.
Safe(f, h) ==
    hopes[h] # {} =>
      IF f = None THEN None \in hopes[h]
      ELSE f.safe /\ f.doc # Torn /\ f.doc.entries[h] \in hopes[h]

Covered == \A h \in Endpoints : \A f \in older \cup {cur} : Safe(f, h)

Unmixed == Empty \in held /\ ReadsUnmixed

SettingsInv ==
    /\ SettingsTypeOK /\ Typed /\ OneWriter /\ Numbered
    /\ Reading /\ Building /\ Covered /\ Unmixed

-----------------------------------------------------------------------------
(* The calls *)

LEMMA EmptyDoc == Empty \in Docs /\ \A h \in Endpoints : Empty.entries[h] = None
BY DEF Empty, Docs

LEMMA FileFacts ==
    ASSUME PreferencesFileAssumption,
           NEW id \in Nat, NEW doc \in Docs \cup {Torn}, NEW safe \in BOOLEAN
    PROVE  /\ File(id, doc, safe) \in Files /\ File(id, doc, safe) # None
           /\ File(id, doc, safe).id = id /\ File(id, doc, safe).doc = doc
           /\ File(id, doc, safe).safe = safe
<1>1. File(id, doc, safe) \in Files
  BY DEF File, Files
<1> QED BY <1>1 DEF File, PreferencesFileAssumption

\* A step of one call that leaves the file alone keeps the invariant if the
\* call it makes is in order.
LEMMA CallStep ==
    ASSUME PreferencesFileAssumption, SettingsInv, NEW p \in Procs, NEW c \in Calls,
           Call(p, c), FileSame,
           InHand(c), Same(c), Keeps(c),
           c.prev \in Nat => c.prev <= ids,
           c.op = "write" /\ c.at # "idle" => Locks(p) \/ Free(p),
           c.at = "have" => c.doc \in held
    PROVE  SettingsInv'
<1> USE DEF SettingsInv, FileSame
<1>1. /\ proc' = [proc EXCEPT ![p] = c] /\ proc \in [Procs -> Calls]
      /\ proc'[p] = c
      /\ \A q \in Procs : q # p => proc'[q] = proc[q]
  BY DEF Call, SettingsTypeOK
<1>2. SettingsTypeOK'
  BY <1>1 DEF SettingsTypeOK
<1>3. Typed'
  BY <1>1 DEF Typed, InHand
<1>4. OneWriter'
  <2> SUFFICES ASSUME NEW q \in Procs, NEW r \in Procs, Locks(q)', Locks(r)'
               PROVE  q = r
    BY DEF OneWriter
  <2>1. \A s \in Procs : Locks(s)' /\ s # p => Locks(s)
    BY <1>1 DEF Locks
  <2>2. Locks(p)' => Locks(p) \/ Free(p)
    BY <1>1 DEF Locks
  <2> QED BY <2>1, <2>2 DEF OneWriter, Free
<1>5. Numbered'
  BY <1>1 DEF Numbered
<1>6. Reading'
  BY <1>1 DEF Reading, Same
<1>7. Building'
  BY <1>1 DEF Building, Keeps
<1>8. Covered'
  BY DEF Covered, Safe
<1>9. Unmixed'
  BY <1>1 DEF Unmixed, ReadsUnmixed
<1> QED BY <1>2, <1>3, <1>4, <1>5, <1>6, <1>7, <1>8, <1>9

LEMMA NoCallFits ==
    /\ NoCall \in Calls /\ InHand(NoCall)
    /\ Same(NoCall) /\ Keeps(NoCall)
    /\ NoCall.at = "idle" /\ NoCall.prev = None
BY DEF NoCall, Calls, Steps, InHand, Same, Keeps, Builds, Patches

LEMMA EndsInv ==
    ASSUME PreferencesFileAssumption, SettingsInv, NEW p \in Procs, Ends(p), FileSame
    PROVE  SettingsInv'
<1>1. NoCall.prev \in Nat => FALSE
  BY NoCallFits DEF PreferencesFileAssumption
<1> QED BY CallStep, NoCallFits, <1>1 DEF Ends

LEMMA StartReadInv ==
    ASSUME PreferencesFileAssumption, SettingsInv,
           NEW p \in Procs, NEW h \in Endpoints, StartRead(p, h)
    PROVE  SettingsInv'
<1> DEFINE c == [NoCall EXCEPT !.at = "open", !.host = h]
<1>1. c \in Calls /\ c.at = "open" /\ c.op = "read" /\ c.prev = None
  BY DEF NoCall, Calls, Steps
<1>2. InHand(c) /\ Same(c) /\ Keeps(c)
  BY <1>1 DEF InHand, Same, Keeps, Builds, Patches
<1>3. c.prev \notin Nat
  BY <1>1 DEF PreferencesFileAssumption
<1>4. Call(p, c) /\ FileSame
  BY DEF StartRead
<1> HIDE DEF c
<1> QED BY CallStep, <1>1, <1>2, <1>3, <1>4

LEMMA StartSaveInv ==
    ASSUME PreferencesFileAssumption, SettingsInv,
           NEW p \in Procs, NEW h \in Endpoints, NEW s \in Saves, StartSave(p, h, s)
    PROVE  SettingsInv'
<1> DEFINE c == [NoCall EXCEPT !.at = "open", !.op = "write", !.host = h, !.save = s]
<1>1. /\ c \in Calls /\ c.at = "open" /\ c.prev = None
      /\ c.host \in Endpoints /\ c.save \in Saves
  BY DEF NoCall, Calls, Steps
<1>2. InHand(c) /\ Same(c) /\ Keeps(c)
  BY <1>1 DEF InHand, Same, Keeps, Builds, Patches
<1>3. c.prev \notin Nat
  BY <1>1 DEF PreferencesFileAssumption
<1>4. Call(p, c) /\ FileSame /\ Free(p)
  BY DEF StartSave
<1> HIDE DEF c
<1> QED BY CallStep, <1>1, <1>2, <1>3, <1>4

\* A save that finds no file starts from the empty document, which is what
\* every promise then allows.
LEMMA OpenAbsentInv ==
    ASSUME PreferencesFileAssumption, SettingsInv, NEW p \in Procs, OpenAbsent(p)
    PROVE  SettingsInv'
<1>1. CASE proc[p].op = "read"
  BY <1>1, EndsInv DEF OpenAbsent
<1>2. CASE proc[p].op # "read"
  <2> DEFINE c == [proc[p] EXCEPT !.at = "have", !.doc = Empty]
  <2>1. /\ proc[p] \in Calls /\ proc[p].at = "open" /\ cur = None
        /\ Call(p, c) /\ FileSame
    BY <1>2 DEF OpenAbsent, SettingsInv, SettingsTypeOK
  <2>2. /\ c \in Calls /\ c.at = "have" /\ c.doc = Empty /\ c.prev = proc[p].prev
        /\ c.op = "write" /\ c.host = proc[p].host /\ c.save = proc[p].save
    BY <1>2, <2>1, EmptyDoc DEF Calls, Steps
  <2>3. Locks(p)
    BY <2>1, <2>2, <1>2 DEF Locks, Calls
  <2>4. InHand(c)
    BY <2>1, <2>2, <2>3, EmptyDoc DEF SettingsInv, Typed, InHand, Patches, Locks
  <2>5. Same(c)
    BY <2>1 DEF Same
  <2>6. Keeps(c)
    BY <2>1, <2>2, EmptyDoc DEF Keeps, SettingsInv, Covered, Safe
  <2>7. (c.prev \in Nat => c.prev <= ids) /\ c.doc \in held
    BY <2>2 DEF SettingsInv, Numbered, Unmixed
  <2> HIDE DEF c
  <2> QED BY CallStep, <2>1, <2>2, <2>3, <2>4, <2>5, <2>6, <2>7
<1> QED BY <1>1, <1>2

LEMMA ReadStartInv ==
    ASSUME PreferencesFileAssumption, SettingsInv, NEW p \in Procs, ReadStart(p)
    PROVE  SettingsInv'
<1> DEFINE c == [proc[p] EXCEPT !.at = "half", !.prev = cur.id, !.doc = cur.doc]
<1>1. /\ proc[p] \in Calls /\ proc[p].at = "open" /\ cur # None /\ cur \in Files
      /\ Call(p, c) /\ FileSame
  BY DEF ReadStart, SettingsInv, SettingsTypeOK
<1>2. cur.id \in Nat /\ cur.doc \in Docs \cup {Torn}
  BY <1>1 DEF Files
<1>3. /\ c \in Calls /\ c.at = "half" /\ c.doc = cur.doc /\ c.prev = cur.id
      /\ c.op = proc[p].op /\ c.host = proc[p].host /\ c.save = proc[p].save
  BY <1>1, <1>2 DEF Calls, Steps
<1>4. InHand(c)
  BY <1>1, <1>2, <1>3 DEF SettingsInv, Typed, InHand, Patches
<1>5. Same(c)
  BY <1>3 DEF Same
<1>6. Keeps(c)
  BY <1>1, <1>3 DEF Keeps, SettingsInv, Covered, Safe
<1>7. c.prev <= ids
  BY <1>1, <1>3 DEF SettingsInv, Numbered
<1>8. c.op = "write" => Locks(p)
  BY <1>1, <1>3 DEF Locks
<1> HIDE DEF c
<1> QED BY CallStep, <1>1, <1>3, <1>4, <1>5, <1>6, <1>7, <1>8

\* The end of another version gives a mixed document, which no later step
\* takes; while the file is the one opened the document is still its own.
LEMMA ReadRestInv ==
    ASSUME PreferencesFileAssumption, SettingsInv, NEW p \in Procs, ReadRest(p)
    PROVE  SettingsInv'
<1> DEFINE rest == IF cur = None THEN proc[p].doc ELSE cur.doc
           d == IF Torn \in {proc[p].doc, rest} THEN Torn
                ELSE [proc[p].doc EXCEPT !.entries = rest.entries]
           c == [proc[p] EXCEPT !.at = "read", !.doc = d]
<1>1. /\ proc[p] \in Calls /\ proc[p].at = "half"
      /\ Call(p, c) /\ FileSame
  BY DEF ReadRest, SettingsInv, SettingsTypeOK
<1>2. /\ proc[p].doc \in Docs \cup {Torn} /\ proc[p].prev \in Nat
      /\ rest \in Docs \cup {Torn}
  BY <1>1 DEF SettingsInv, Typed, InHand, SettingsTypeOK, Files
<1>3. d \in Docs \cup {Torn} /\ (d # Torn => d.entries = rest.entries)
  BY <1>2 DEF Docs
<1>4. /\ c \in Calls /\ c.at = "read" /\ c.doc = d /\ c.prev = proc[p].prev
      /\ c.op = proc[p].op /\ c.host = proc[p].host /\ c.save = proc[p].save
  BY <1>1, <1>3 DEF Calls, Steps
<1>5. InHand(c)
  <2> HIDE DEF d
  <2> QED BY <1>1, <1>2, <1>3, <1>4 DEF SettingsInv, Typed, InHand, Patches
<1>6. Same(c)
  <2>1. CASE cur # None /\ cur.id = proc[p].prev
    <3>1. proc[p].doc = cur.doc
      BY <1>1, <2>1 DEF SettingsInv, Reading, Same
    <3>2. d = cur.doc
      BY <1>2, <2>1, <3>1 DEF Docs
    <3> QED BY <1>4, <3>2 DEF Same
  <2> QED BY <1>4, <2>1 DEF Same
<1>7. Keeps(c)
  <2> SUFFICES ASSUME c.op = "write", c.doc # Torn, NEW h \in Endpoints,
                      h # c.host, hopes[h] # {}
               PROVE  c.doc.entries[h] \in hopes[h]
    BY DEF Keeps
  <2>1. d # Torn /\ d.entries = rest.entries /\ proc[p].doc # Torn
    BY <1>3, <1>4
  <2>2. CASE cur = None
    BY <1>1, <1>4, <2>1, <2>2 DEF SettingsInv, Building, Keeps, Builds
  <2>3. CASE cur # None
    BY <1>1, <1>4, <2>1, <2>3 DEF SettingsInv, Covered, Safe
  <2> QED BY <2>2, <2>3
<1>8. (c.prev \in Nat => c.prev <= ids) /\ (c.op = "write" => Locks(p))
  BY <1>1, <1>4 DEF SettingsInv, Numbered, Locks
<1> HIDE DEF c
<1> QED BY CallStep, <1>1, <1>4, <1>5, <1>6, <1>7, <1>8

\* A document passes the comparison only if the file is the one it was read
\* from, and is then one of those the file held.
LEMMA RecheckInv ==
    ASSUME PreferencesFileAssumption, SettingsInv, NEW p \in Procs, Recheck(p)
    PROVE  SettingsInv'
<1>1. CASE SameFile(proc[p].prev) /\ proc[p].doc # Torn
  <2> DEFINE c == [proc[p] EXCEPT !.at = "have"]
  <2>1. /\ proc[p] \in Calls /\ proc[p].at = "read"
        /\ Call(p, c) /\ FileSame
    BY <1>1 DEF Recheck, SettingsInv, SettingsTypeOK
  <2>2. /\ c \in Calls /\ c.at = "have" /\ c.doc = proc[p].doc /\ c.prev = proc[p].prev
        /\ c.op = proc[p].op /\ c.host = proc[p].host /\ c.save = proc[p].save
    BY <2>1 DEF Calls, Steps
  <2>3. proc[p].prev \in Nat /\ proc[p].doc \in Docs
    BY <1>1, <2>1 DEF SettingsInv, Typed, InHand
  <2>4. cur # None /\ cur.id = proc[p].prev
    BY <1>1, <2>3 DEF SameFile, PreferencesFileAssumption
  <2>5. c.doc = cur.doc /\ cur.doc \in held
    BY <1>1, <2>1, <2>2, <2>4 DEF SettingsInv, Reading, Same, Numbered
  <2>6. InHand(c)
    BY <2>1, <2>2, <2>3 DEF SettingsInv, Typed, InHand, Patches
  <2>7. Same(c)
    BY <2>2 DEF Same
  <2>8. Keeps(c)
    BY <2>1, <2>2 DEF SettingsInv, Building, Keeps, Builds
  <2>9. (c.prev \in Nat => c.prev <= ids) /\ (c.op = "write" => Locks(p))
    BY <2>1, <2>2 DEF SettingsInv, Numbered, Locks
  <2> HIDE DEF c
  <2> QED BY CallStep, <2>1, <2>2, <2>5, <2>6, <2>7, <2>8, <2>9
<1>2. CASE ~(SameFile(proc[p].prev) /\ proc[p].doc # Torn)
  BY <1>2, EndsInv DEF Recheck
<1> QED BY <1>1, <1>2

LEMMA StageInv ==
    ASSUME PreferencesFileAssumption, SettingsInv, NEW p \in Procs, StageDoc(p)
    PROVE  SettingsInv'
<1> DEFINE next == Patched(proc[p].doc, proc[p].host, proc[p].save)
           c == [proc[p] EXCEPT !.at = "staged", !.doc = next]
<1>1. CASE Cardinality(Known(next)) > MaxServers
  BY <1>1, EndsInv DEF StageDoc
<1>2. CASE ~(Cardinality(Known(next)) > MaxServers)
  <2>1. /\ proc[p] \in Calls /\ proc[p].at = "have" /\ proc[p].op = "write"
        /\ Call(p, c) /\ FileSame
    BY <1>2 DEF StageDoc, SettingsInv, SettingsTypeOK
  <2>2. /\ proc[p].host \in Endpoints /\ proc[p].save \in Saves
        /\ proc[p].doc \in Docs
    BY <2>1 DEF SettingsInv, Typed, InHand
  <2>3. /\ next \in Docs /\ next.entries[proc[p].host] = proc[p].save
        /\ \A h \in Endpoints :
             h # proc[p].host => next.entries[h] = proc[p].doc.entries[h]
    BY <2>2 DEF Patched, Docs
  <2> HIDE DEF next
  <2>4. /\ c \in Calls /\ c.at = "staged" /\ c.doc = next /\ c.prev = proc[p].prev
        /\ c.op = "write" /\ c.host = proc[p].host /\ c.save = proc[p].save
    BY <2>1, <2>3 DEF Calls, Steps
  <2>5. InHand(c)
    BY <2>2, <2>3, <2>4 DEF InHand, Patches
  <2>6. Same(c)
    BY <2>4 DEF Same
  <2>7. proc[p].doc # Torn
    BY <2>2 DEF PreferencesFileAssumption
  <2>8. Keeps(c)
    BY <2>1, <2>3, <2>4, <2>7 DEF SettingsInv, Building, Keeps, Builds
  <2>9. (c.prev \in Nat => c.prev <= ids) /\ Locks(p)
    BY <2>1, <2>4 DEF SettingsInv, Numbered, Locks
  <2> HIDE DEF c
  <2> QED BY CallStep, <2>1, <2>4, <2>5, <2>6, <2>8, <2>9
<1> QED BY <1>1, <1>2

\* The two steps between the staging file and the rename only move on.
LEMMA MovesOn ==
    ASSUME PreferencesFileAssumption, SettingsInv, NEW p \in Procs,
           NEW from \in {"staged", "synced"}, NEW to \in {"synced", "same"},
           proc[p].at = from,
           Call(p, [proc[p] EXCEPT !.at = to]), FileSame
    PROVE  SettingsInv'
<1> DEFINE c == [proc[p] EXCEPT !.at = to]
<1>1. proc[p] \in Calls
  BY DEF SettingsInv, SettingsTypeOK
<1>2. /\ c \in Calls /\ c.at = to /\ c.doc = proc[p].doc /\ c.prev = proc[p].prev
      /\ c.op = proc[p].op /\ c.host = proc[p].host /\ c.save = proc[p].save
  BY <1>1 DEF Calls, Steps
<1>3. InHand(c) /\ c.op = "write"
  BY <1>1, <1>2 DEF SettingsInv, Typed, InHand, Patches
<1>4. Same(c)
  BY <1>2 DEF Same
<1>5. Keeps(c)
  BY <1>2 DEF SettingsInv, Building, Keeps, Builds
<1>6. (c.prev \in Nat => c.prev <= ids) /\ Locks(p)
  BY <1>2, <1>3 DEF SettingsInv, Numbered, Locks
<1>7. Call(p, c)
  OBVIOUS
<1> HIDE DEF c
<1> QED BY CallStep, <1>2, <1>3, <1>4, <1>5, <1>6, <1>7

LEMMA CompareInv ==
    ASSUME PreferencesFileAssumption, SettingsInv, NEW p \in Procs,
           SyncStaging(p) \/ Compare(p)
    PROVE  SettingsInv'
<1>1. CASE SyncStaging(p)
  BY <1>1, MovesOn DEF SyncStaging
<1>2. CASE Compare(p) /\ SameFile(proc[p].prev)
  BY <1>2, MovesOn DEF Compare
<1>3. CASE Compare(p) /\ ~SameFile(proc[p].prev)
  BY <1>3, EndsInv DEF Compare
<1> QED BY <1>1, <1>2, <1>3

-----------------------------------------------------------------------------
(* The file *)

\* The name gets the document: it keeps the promises of the other endpoints,
\* and this endpoint may from now on be what it was or what is saved.
LEMMA RenameInv ==
    ASSUME PreferencesFileAssumption, SettingsInv, NEW p \in Procs, Rename(p)
    PROVE  SettingsInv'
<1> DEFINE me == proc[p]
           c == [me EXCEPT !.at = "renamed", !.prev = ids']
           hope == IF hopes[me.host] = {} THEN {} ELSE hopes[me.host] \cup {me.save}
<1>1. me \in Calls /\ me.at = "same"
  BY DEF Rename, SettingsInv, SettingsTypeOK
<1>2. /\ me.op = "write" /\ me.host \in Endpoints /\ me.save \in Saves
      /\ me.doc \in Docs /\ me.doc # Torn /\ me.doc.entries[me.host] = me.save
  BY <1>1 DEF SettingsInv, Typed, InHand, Patches, PreferencesFileAssumption
<1>3. /\ ids \in Nat /\ ids' = ids + 1 /\ ids' \in Nat
      /\ cur' \in Files /\ cur' # None
      /\ cur'.id = ids' /\ cur'.doc = me.doc /\ cur'.safe
  <2>1. ids' = ids + 1 /\ ids \in Nat /\ cur' = File(ids', me.doc, TRUE)
    BY DEF Rename, SettingsInv, SettingsTypeOK
  <2>2. ids' \in Nat /\ me.doc \in Docs \cup {Torn} /\ TRUE \in BOOLEAN
    BY <1>2, <2>1
  <2> HIDE DEF me
  <2> QED BY <2>1, <2>2, FileFacts
<1>4. older' = older \cup {cur} /\ held' = held \cup {me.doc}
  BY DEF Rename
<1>5. /\ proc' = [proc EXCEPT ![p] = c] /\ c \in Calls
      /\ c.at = "renamed" /\ c.prev = ids' /\ c.doc = me.doc
      /\ c.op = "write" /\ c.host = me.host /\ c.save = me.save
  BY <1>1, <1>2, <1>3 DEF Rename, Call, Calls, Steps
<1>6. /\ hopes' = [hopes EXCEPT ![me.host] = hope]
      /\ hopes \in [Endpoints -> SUBSET (Saves \cup {None})]
  BY DEF Rename, SettingsInv, SettingsTypeOK
<1>7. /\ hopes'[me.host] = hope
      /\ \A h \in Endpoints : h # me.host => hopes'[h] = hopes[h]
      /\ \A h \in Endpoints : hopes'[h] # {} => hopes[h] # {} /\ hopes[h] \subseteq hopes'[h]
  BY <1>2, <1>6
<1>8. /\ proc \in [Procs -> Calls] /\ proc'[p] = c
      /\ \A q \in Procs : q # p => proc'[q] = proc[q]
      /\ \A q \in Procs : q # p => ~Locks(q)
  <2>1. Locks(p)
    BY <1>1, <1>2 DEF Locks
  <2> QED BY <1>5, <2>1 DEF SettingsInv, SettingsTypeOK, OneWriter
<1> HIDE DEF c, me
<1>9. SettingsTypeOK'
  <2>1. hope \in SUBSET (Saves \cup {None})
    BY <1>2, <1>6
  <2>2. hopes' \in [Endpoints -> SUBSET (Saves \cup {None})]
    BY <1>6, <2>1
  <2> QED BY <1>2, <1>3, <1>4, <1>5, <1>8, <2>2 DEF SettingsInv, SettingsTypeOK
<1> HIDE DEF hope
<1>10. Typed'
  BY <1>2, <1>3, <1>5, <1>8 DEF SettingsInv, Typed, InHand
<1>11. OneWriter'
  BY <1>8 DEF OneWriter, Locks
<1>12. Numbered'
  <2>1. \A q \in Procs : proc'[q].prev \in Nat => proc'[q].prev <= ids'
    BY <1>3, <1>5, <1>8 DEF SettingsInv, Numbered
  <2>2. \A f \in older \cup {cur} :
          f # None => f.id \in Nat /\ f.id <= ids /\ f.doc \in held \cup {Torn}
    BY DEF SettingsInv, Numbered, SettingsTypeOK, Files
  <2>3. \A f \in older' \cup {cur'} :
          f # None => f.id <= ids' /\ f.doc \in held' \cup {Torn}
    BY <1>3, <1>4, <2>2
  <2> QED BY <2>1, <2>3 DEF Numbered
<1>13. Reading'
  <2>1. \A q \in Procs : q # p => proc[q].prev # ids'
    BY <1>3 DEF SettingsInv, Numbered
  <2> QED BY <1>3, <1>5, <1>8, <2>1 DEF Reading, Same
<1>14. Building'
  BY <1>5, <1>8 DEF Building, Keeps, Builds, Locks
<1>15. Covered'
  <2> SUFFICES ASSUME NEW h \in Endpoints, NEW f \in older' \cup {cur'},
                      hopes'[h] # {}
               PROVE  IF f = None THEN None \in hopes'[h]
                      ELSE f.safe /\ f.doc # Torn /\ f.doc.entries[h] \in hopes'[h]
    BY DEF Covered, Safe
  <2>1. CASE f \in older \cup {cur}
    BY <1>7, <2>1 DEF SettingsInv, Covered, Safe
  <2>2. CASE f = cur' /\ h = me.host
    BY <1>2, <1>3, <1>7, <2>2 DEF hope
  <2>3. CASE f = cur' /\ h # me.host
    <3>1. me.doc.entries[h] \in hopes[h]
      BY <1>1, <1>2, <1>7, <2>3 DEF me, SettingsInv, Building, Keeps, Builds
    <3> QED BY <1>2, <1>3, <1>7, <2>3, <3>1
  <2> QED BY <1>4, <2>1, <2>2, <2>3
<1>16. Unmixed'
  BY <1>4, <1>5, <1>8 DEF SettingsInv, Unmixed, ReadsUnmixed
<1> QED BY <1>9, <1>10, <1>11, <1>12, <1>13, <1>14, <1>15, <1>16 DEF SettingsInv

\* Only the file of this save is left, unless somebody edited it since.
LEMMA SyncParentInv ==
    ASSUME PreferencesFileAssumption, SettingsInv, NEW p \in Procs, SyncParent(p)
    PROVE  SettingsInv'
<1> DEFINE me == proc[p]
<1>1. me \in Calls /\ me.at = "renamed" /\ older' = {}
  BY DEF SyncParent, SettingsInv, SettingsTypeOK
<1>2. /\ me.op = "write" /\ me.host \in Endpoints /\ me.save \in Saves
      /\ me.doc \in Docs /\ me.doc # Torn /\ me.doc.entries[me.host] = me.save
      /\ me.prev \in Nat
  BY <1>1 DEF SettingsInv, Typed, InHand, Patches, PreferencesFileAssumption
<1>3. /\ proc \in [Procs -> Calls] /\ proc'[p] = NoCall
      /\ \A q \in Procs : q # p => proc'[q] = proc[q]
      /\ \A q \in Procs : q # p => ~Locks(q)
      /\ proc' \in [Procs -> Calls]
  <2>1. Locks(p)
    BY <1>1, <1>2 DEF Locks
  <2> QED BY <2>1, NoCallFits DEF SyncParent, Ends, Call, SettingsInv, SettingsTypeOK, OneWriter
<1>4. UNCHANGED <<cur, ids, held>> /\ cur \in Files \cup {None}
  BY DEF SyncParent, SettingsInv, SettingsTypeOK
<1>5. /\ hopes' = IF SameFile(me.prev)
                  THEN [hopes EXCEPT ![me.host] = {me.save}] ELSE hopes
      /\ hopes \in [Endpoints -> SUBSET (Saves \cup {None})]
  BY DEF SyncParent, SettingsInv, SettingsTypeOK
<1>6. SameFile(me.prev) => cur # None /\ cur.doc = me.doc /\ cur.safe
  <2>1. SameFile(me.prev) => cur # None /\ cur.id = me.prev
    BY <1>2 DEF SameFile, PreferencesFileAssumption
  <2> QED BY <1>1, <2>1 DEF SettingsInv, Reading, Same
<1> HIDE DEF me
<1>7. SettingsTypeOK'
  BY <1>1, <1>2, <1>3, <1>4, <1>5 DEF SettingsInv, SettingsTypeOK
<1>8. Typed'
  BY <1>3, NoCallFits DEF SettingsInv, Typed, InHand, Patches
<1>9. OneWriter'
  BY <1>3, NoCallFits DEF OneWriter, Locks
<1>10. Numbered'
  BY <1>1, <1>3, <1>4, NoCallFits DEF SettingsInv, Numbered, PreferencesFileAssumption
<1>11. Reading'
  BY <1>3, <1>4, NoCallFits DEF SettingsInv, Reading, Same
<1>12. Building'
  BY <1>3, NoCallFits DEF Building, Keeps, Builds, Locks
<1>13. Covered'
  <2> SUFFICES ASSUME NEW h \in Endpoints, hopes'[h] # {}
               PROVE  IF cur = None THEN None \in hopes'[h]
                      ELSE cur.safe /\ cur.doc # Torn /\ cur.doc.entries[h] \in hopes'[h]
    BY <1>1, <1>4 DEF Covered, Safe
  <2>1. CASE SameFile(me.prev) /\ h = me.host
    BY <1>2, <1>5, <1>6, <2>1
  <2>2. CASE ~(SameFile(me.prev) /\ h = me.host)
    <3>1. hopes'[h] = hopes[h]
      BY <1>2, <1>5, <2>2
    <3> QED BY <3>1 DEF SettingsInv, Covered, Safe
  <2> QED BY <2>1, <2>2
<1>14. Unmixed'
  BY <1>3, <1>4, NoCallFits DEF SettingsInv, Unmixed, ReadsUnmixed
<1> QED BY <1>7, <1>8, <1>9, <1>10, <1>11, <1>12, <1>13, <1>14 DEF SettingsInv

\* An edit gives the file another identity and ends every promise.
LEMMA EditInv ==
    ASSUME PreferencesFileAssumption, SettingsInv, NEW d \in Docs \cup {Torn},
           ids' = ids + 1, cur' = File(ids', d, FALSE), hopes' = Forgotten,
           held' = held \cup ({d} \ {Torn}), UNCHANGED <<proc, older>>
    PROVE  SettingsInv'
<1>1. /\ ids \in Nat /\ ids' \in Nat /\ cur' \in Files /\ cur' # None
      /\ cur'.id = ids' /\ cur'.doc = d
  <2>1. ids \in Nat /\ ids' \in Nat
    BY DEF SettingsInv, SettingsTypeOK
  <2> QED BY <2>1, FileFacts
<1>2. \A h \in Endpoints : hopes'[h] = {}
  BY DEF Forgotten
<1>3. SettingsTypeOK'
  BY <1>1 DEF SettingsInv, SettingsTypeOK, Forgotten
<1>4. Typed' /\ OneWriter'
  BY DEF SettingsInv, Typed, OneWriter, Locks
<1>5. Numbered'
  <2>1. \A q \in Procs : proc[q].prev \in Nat => proc[q].prev <= ids'
    BY <1>1 DEF SettingsInv, Numbered
  <2>2. \A f \in older : f # None => f.id <= ids' /\ f.doc \in held' \cup {Torn}
    BY <1>1 DEF SettingsInv, Numbered, SettingsTypeOK, Files
  <2>3. \A f \in older' \cup {cur'} : f # None => f.id <= ids' /\ f.doc \in held' \cup {Torn}
    <3>1. ids' <= ids' /\ d \in held' \cup {Torn}
      <4>1. d \in held' \cup {Torn}
        BY Zenon
      <4> QED BY <1>1, <4>1
    <3> QED BY <1>1, <2>2, <3>1
  <2> QED BY <2>1, <2>3 DEF Numbered
<1>6. Reading'
  <2>1. \A q \in Procs : proc[q].prev # ids'
    BY <1>1 DEF SettingsInv, Numbered
  <2> QED BY <1>1, <2>1 DEF Reading, Same
<1>7. Building' /\ Covered'
  BY <1>2 DEF Building, Keeps, Covered, Safe
<1>8. Unmixed'
  BY DEF SettingsInv, Unmixed, ReadsUnmixed
<1> QED BY <1>3, <1>4, <1>5, <1>6, <1>7, <1>8 DEF SettingsInv

LEMMA EditsInv ==
    ASSUME PreferencesFileAssumption, SettingsInv, NEW s \in Saves, EditStart \/ EditEnd(s)
    PROVE  SettingsInv'
<1>1. CASE EditStart
  BY <1>1, EditInv DEF EditStart
<1>2. CASE EditEnd(s)
  <2> DEFINE d == [Empty EXCEPT !.settings = s]
  <2>1. d \in Docs /\ d # Torn
    BY DEF Empty, Docs, PreferencesFileAssumption
  <2>2. /\ ids' = ids + 1 /\ cur' = File(ids', d, FALSE) /\ hopes' = Forgotten
        /\ held' = held \cup {cur'.doc} /\ UNCHANGED <<proc, older>>
    BY <1>2 DEF EditEnd
  <2>3. held' = held \cup ({d} \ {Torn})
    BY <2>1, <2>2 DEF File
  <2> HIDE DEF d
  <2> QED BY <2>1, <2>2, <2>3, EditInv
<1> QED BY <1>1, <1>2

\* After a power cut the name means one of the files it could mean; one that
\* carries a promise was made safe.
LEMMA PowerCutInv ==
    ASSUME PreferencesFileAssumption, SettingsInv, PowerCut
    PROVE  SettingsInv'
<1>1. PICK f \in older \cup {cur} :
        cur' \in {f} \cup IF f = None \/ f.safe THEN {} ELSE {File(f.id, Torn, TRUE)}
  BY DEF PowerCut
<1>2. /\ proc' = [p \in Procs |-> NoCall] /\ older' = {}
      /\ UNCHANGED <<ids, hopes, held>>
  BY DEF PowerCut
<1>3. f \in Files \cup {None}
  BY <1>1 DEF SettingsInv, SettingsTypeOK
<1>4. \/ cur' = f
      \/ f # None /\ f \in Files /\ ~f.safe /\ cur' = File(f.id, Torn, TRUE)
  BY <1>1, <1>3
<1>5. \A q \in Procs : proc'[q] = NoCall
  BY <1>2
<1>6. cur' \in Files \cup {None}
  <2>1. CASE cur' = f
    BY <1>3, <2>1
  <2>2. CASE f \in Files /\ cur' = File(f.id, Torn, TRUE)
    <3>1. f.id \in Nat /\ Torn \in Docs \cup {Torn}
      BY <2>2 DEF Files
    <3>2. File(f.id, Torn, TRUE) \in Files
      BY <3>1, FileFacts
    <3> QED BY <2>2, <3>2
  <2> QED BY <1>4, <2>1, <2>2
<1>7. SettingsTypeOK'
  BY <1>2, <1>6, NoCallFits DEF SettingsInv, SettingsTypeOK
<1>8. Typed' /\ OneWriter' /\ Building'
  BY <1>5, NoCallFits DEF Typed, InHand, Patches, OneWriter, Locks, Building, Keeps, Builds
<1>9. Numbered'
  <2>1. cur' # None => cur'.id <= ids /\ cur'.doc \in held \cup {Torn}
    BY <1>1, <1>4 DEF SettingsInv, Numbered, File
  <2> QED BY <1>2, <1>5, <2>1, NoCallFits DEF Numbered, PreferencesFileAssumption
<1>10. Reading'
  BY <1>5, NoCallFits DEF Reading, Same
<1>11. Covered'
  <2> SUFFICES ASSUME NEW h \in Endpoints, hopes[h] # {}
               PROVE  IF cur' = None THEN None \in hopes[h]
                      ELSE cur'.safe /\ cur'.doc # Torn /\ cur'.doc.entries[h] \in hopes[h]
    BY <1>2 DEF Covered, Safe
  <2>1. IF f = None THEN None \in hopes[h]
        ELSE f.safe /\ f.doc # Torn /\ f.doc.entries[h] \in hopes[h]
    BY <1>1 DEF SettingsInv, Covered, Safe
  <2> QED BY <1>4, <2>1
<1>12. Unmixed'
  BY <1>2, <1>5, NoCallFits DEF SettingsInv, Unmixed, ReadsUnmixed
<1> QED BY <1>7, <1>8, <1>9, <1>10, <1>11, <1>12 DEF SettingsInv

-----------------------------------------------------------------------------
(* The theorems *)

LEMMA InitInv ==
    ASSUME PreferencesFileAssumption, FileInit
    PROVE  SettingsInv
<1>1. /\ proc = [p \in Procs |-> NoCall] /\ older = {} /\ ids = 0
      /\ hopes = [h \in Endpoints |-> {None}] /\ held = {Empty}
      /\ cur = None \/ cur = [id |-> 0, doc |-> Empty, safe |-> TRUE]
  BY DEF FileInit, File
<1>2. \A q \in Procs : proc[q] = NoCall
  BY <1>1
<1>3. cur # None => cur.id = 0 /\ cur.doc = Empty /\ cur.safe
  BY <1>1
<1>4. SettingsTypeOK
  <2>1. cur \in Files \cup {None}
    <3>1. File(0, Empty, TRUE) \in Files
      BY EmptyDoc, FileFacts
    <3> QED BY <3>1 DEF FileInit
  <2> QED BY <1>1, <2>1, NoCallFits, EmptyDoc DEF SettingsTypeOK
<1>5. Typed /\ OneWriter /\ Building /\ Reading
  BY <1>2, NoCallFits DEF Typed, OneWriter, Locks, Building, Reading
<1>6. Numbered
  BY <1>1, <1>2, <1>3, NoCallFits DEF Numbered, PreferencesFileAssumption
<1>7. Covered
  <2>1. Empty # Torn
    BY EmptyDoc DEF PreferencesFileAssumption
  <2> QED BY <1>1, <1>3, <2>1, EmptyDoc DEF Covered, Safe
<1>8. Unmixed
  BY <1>1, <1>2, NoCallFits DEF Unmixed, ReadsUnmixed
<1> QED BY <1>4, <1>5, <1>6, <1>7, <1>8 DEF SettingsInv

LEMMA StepInv ==
    ASSUME PreferencesFileAssumption, SettingsInv, [FileNext]_fileVars
    PROVE  SettingsInv'
<1>1. CASE UNCHANGED fileVars
  BY <1>1 DEF fileVars, SettingsInv, SettingsTypeOK, Typed, OneWriter, Locks, Numbered, Reading,
              Same, Building, Keeps, Covered, Safe, Unmixed, ReadsUnmixed
<1>2. ASSUME NEW p \in Procs,
             \/ \E h \in Endpoints : StartRead(p, h) \/ \E s \in Saves : StartSave(p, h, s)
             \/ OpenAbsent(p) \/ ReadStart(p) \/ ReadRest(p)
      PROVE  SettingsInv'
  BY <1>2, StartReadInv, StartSaveInv, OpenAbsentInv, ReadStartInv, ReadRestInv
<1>3. ASSUME NEW p \in Procs,
             \/ Recheck(p) \/ Answer(p) \/ StageDoc(p) \/ SyncStaging(p) \/ Compare(p)
             \/ Rename(p) \/ SyncParent(p) \/ Fails(p)
      PROVE  SettingsInv'
  <2>1. CASE Answer(p) \/ Fails(p)
    BY <2>1, EndsInv DEF Answer, Fails
  <2> QED BY <1>3, <2>1, RecheckInv, StageInv, CompareInv, RenameInv, SyncParentInv
<1>4. CASE EditStart
  BY <1>4, EditInv DEF EditStart
<1>5. CASE \E s \in Saves : EditEnd(s)
  BY <1>5, EditsInv
<1>6. CASE PowerCut
  BY <1>6, PowerCutInv
<1> QED BY <1>1, <1>2, <1>3, <1>4, <1>5, <1>6 DEF FileNext

LEMMA SettingsInvariance == ASSUME PreferencesFileAssumption PROVE FileSpec => []SettingsInv
BY InitInv, StepInv, PTL DEF FileSpec

\* A save that was reported done stays in the file through other endpoints'
\* saves, killed helpers and power cuts, until its endpoint is saved again or
\* somebody edits the file (preferences_ffi.c birc_prefs_write, _commit).
THEOREM SavesLast ==
    ASSUME PreferencesFileAssumption
    PROVE  FileSpec => []SavesKept
<1>1. SettingsInv => SavesKept
  BY DEF SettingsInv, Covered, Safe, SavesKept, Entry
<1> QED BY <1>1, SettingsInvariance, PTL

\* What a read answers and what a save builds on is a document the file held
\* as a whole (preferences_ffi.c birc_prefs_snapshot).
THEOREM ReadsWhole ==
    ASSUME PreferencesFileAssumption
    PROVE  FileSpec => []ReadsUnmixed
<1>1. SettingsInv => ReadsUnmixed
  BY DEF SettingsInv, Unmixed
<1> QED BY <1>1, SettingsInvariance, PTL
=============================================================================
