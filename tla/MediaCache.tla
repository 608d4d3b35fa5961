----------------------------- MODULE MediaCache -----------------------------
(***************************************************************************)
(* The image and link-card cache on disk (src/ffi/media_fetch_ffi.c):      *)
(* birc_mf_remote looks a URL up, fetches and decodes it on a miss, and    *)
(* birc_mf_cache_write admits it.  Several birc processes, each with an    *)
(* image and a card helper, share the two trees (.img files in the root,   *)
(* .card files under cards/); only admission takes the lock, and any       *)
(* process may die at any point.                                           *)
(***************************************************************************)
EXTENDS Naturals, FiniteSets, Functions

CONSTANTS
    Helpers,     \* the helpers of all running processes
    Urls,
    Trees,       \* "img" and "card"
    Sizes,       \* sizes of a body, at most MaxBytes
    MaxEntries,  \* BIRC_MF_MAX_CACHE_ENTRIES
    MaxBytes,    \* BIRC_MF_MAX_CACHE_BYTES
    MaxFiles     \* bound: files ever created

\* Who holds the lock when nobody does.
Nobody == "nobody"

ASSUME CacheAssumption ==
    /\ Nobody \notin Helpers
    /\ MaxEntries \in Nat \ {0} /\ MaxBytes \in Nat \ {0} /\ MaxFiles \in Nat
    /\ Sizes \subseteq 1 .. MaxBytes

VARIABLES
    disk,    \* files: [tree, url, name, size, good, whole, ino]
    inodes,  \* files created so far; an inode number is also a modification time
    owner,   \* who holds flock(.lock)
    fetcher  \* what each helper is doing

cacheVars == <<disk, inodes, owner, fetcher>>

Resting == [at |-> "idle"]

\* A payload has the name of its URL, a staging file (.write-*.tmp) a random one.
IsPayload(f) == f.name = "payload"
Payloads == {f \in disk : IsPayload(f)}
Bytes(files) == SumFunction([f \in files |-> f.size])
EntryOf(tree, url) == {f \in Payloads : f.tree = tree /\ f.url = url}

Put(p, state) == fetcher' = [fetcher EXCEPT ![p] = state]

CacheInit ==
    /\ disk = {} /\ inodes = 0 /\ owner = Nobody
    /\ fetcher = [p \in Helpers |-> Resting]

-----------------------------------------------------------------------------
(* birc_mf_remote                                                          *)

\* The URL is looked up; birc_mf_read_cached opens its entry.
Lookup(p) ==
    /\ fetcher[p] = Resting
    /\ \E tree \in Trees, url \in Urls :
         IF EntryOf(tree, url) = {}
         THEN Put(p, [at |-> "fetch", tree |-> tree, url |-> url])
         ELSE \E f \in EntryOf(tree, url) :
                Put(p, [at |-> "reading", tree |-> tree, url |-> url, open |-> f])
    /\ UNCHANGED <<disk, inodes, owner>>

\* After the last byte the open file and the name must still be one file.
Verified(q) == q.open \in disk

\* The bytes read are decoded and shown, or the URL is fetched after all: also
\* when another reader's fchmod has moved the change time of the same file.
ReadCached(p) ==
    LET q == fetcher[p]
    IN  /\ q.at = "reading"
        /\ \/ /\ Verified(q)
              /\ Put(p, [at |-> "shown", open |-> q.open, tree |-> q.tree, url |-> q.url])
           \/ Put(p, [at |-> "fetch", tree |-> q.tree, url |-> q.url])
        /\ UNCHANGED <<disk, inodes, owner>>

Shown(p) ==
    /\ fetcher[p].at = "shown"
    /\ Put(p, Resting)
    /\ UNCHANGED <<disk, inodes, owner>>

\* rc == 0: only a body that decodes is admitted.
Admit(good) == good

\* birc_mf_fetch answers or fails; the answer is decoded.
Fetch(p) ==
    LET q == fetcher[p]
    IN  /\ q.at = "fetch"
        /\ \/ Put(p, Resting)
           \/ \E n \in Sizes, good \in BOOLEAN :
                Put(p, IF Admit(good)
                       THEN [at |-> "lock", tree |-> q.tree, url |-> q.url,
                             size |-> n, good |-> good]
                       ELSE Resting)
        /\ UNCHANGED <<disk, inodes, owner>>

-----------------------------------------------------------------------------
(* birc_mf_cache_write                                                     *)

\* Faulty: the lock is taken for granted.
LockAlways(p) == TRUE

\* flock(LOCK_EX | LOCK_NB)
Lock(p) == owner = Nobody

\* The lock or nothing: a busy cache is not waited for.
TakeLock(p) ==
    LET q == fetcher[p]
    IN  /\ q.at = "lock"
        /\ IF Lock(p)
           THEN owner' = p /\ Put(p, [q EXCEPT !.at = "survey"])
           ELSE UNCHANGED owner /\ Put(p, Resting)
        /\ UNCHANGED <<disk, inodes>>

\* birc_mf_usage: payloads and staging files of the other tree count too.
Others(tree) == {f \in disk : f.tree # tree}

Full(files, n) ==
    Cardinality(files) + 1 > MaxEntries \/ Bytes(files) + n > MaxBytes

\* Faulty: staging files are not listed for eviction.
ListedPayloads(tree) == {f \in Payloads : f.tree = tree}

\* What may be evicted: payloads, and staging files whoever left them.
Listed(tree) == {f \in disk : f.tree = tree}

\* The other tree is measured and this one listed, without the entry that is to
\* be replaced.
Survey(p) ==
    LET q == fetcher[p]
        prev == EntryOf(q.tree, q.url)
        other == Others(q.tree)
    IN  /\ q.at = "survey"
        /\ IF Full(other, q.size)
           THEN owner' = Nobody /\ Put(p, Resting)
           ELSE /\ UNCHANGED owner
                /\ Put(p, [at |-> "evict", tree |-> q.tree, url |-> q.url,
                           size |-> q.size, good |-> q.good, other |-> other,
                           prev |-> prev, ents |-> Listed(q.tree) \ prev])
        /\ UNCHANGED <<disk, inodes>>

Oldest(files) == CHOOSE f \in files : \A g \in files : f.ino <= g.ino

\* One unlinkat at a time, oldest first, until the new file fits.
Evict(p) ==
    LET q == fetcher[p]
    IN  /\ q.at = "evict"
        /\ IF q.ents # {} /\ Full(q.other \cup q.ents, q.size)
           THEN LET old == Oldest(q.ents)
                IN  disk' = disk \ {old} /\ Put(p, [q EXCEPT !.ents = @ \ {old}])
           ELSE UNCHANGED disk /\ Put(p, [q EXCEPT !.at = "stage"])
        /\ UNCHANGED <<inodes, owner>>

NewFile(p) ==
    LET q == fetcher[p]
    IN  [tree |-> q.tree, url |-> q.url, name |-> "staging", size |-> 0,
         good |-> q.good, whole |-> FALSE, ino |-> inodes + 1]

\* Faulty: the body is written under its final name.
CreatedInPlace(p) == [NewFile(p) EXCEPT !.name = "payload"]

Created(p) == NewFile(p)

\* birc_mf_commit creates the staging file.
Create(p) ==
    LET q == fetcher[p]
    IN  /\ q.at = "stage" /\ inodes < MaxFiles
        /\ inodes' = inodes + 1
        /\ disk' = disk \cup {Created(p)}
        /\ Put(p, [at |-> "write", tree |-> q.tree, url |-> q.url,
                   size |-> q.size, prev |-> q.prev, tmp |-> Created(p)])
        /\ UNCHANGED owner

\* The body is written, or the write fails and the file is unlinked again.
Write(p) ==
    LET q == fetcher[p]
        full == [q.tmp EXCEPT !.size = q.size, !.whole = TRUE]
    IN  /\ q.at = "write"
        /\ \/ /\ disk' = (disk \ {q.tmp}) \cup {full}
              /\ Put(p, [q EXCEPT !.at = "rename", !.tmp = full])
              /\ UNCHANGED owner
           \/ /\ disk' = disk \ {q.tmp}
              /\ Put(p, Resting) /\ owner' = Nobody
        /\ UNCHANGED inodes

\* renameat, if the entry is still the one the survey saw; refused also when a
\* reader's fchmod has moved its change time.
Commit(p) ==
    LET q == fetcher[p]
        final == [q.tmp EXCEPT !.name = "payload"]
    IN  /\ q.at = "rename"
        /\ \/ /\ EntryOf(q.tree, q.url) = q.prev
              /\ disk' = (disk \ ({q.tmp} \cup q.prev)) \cup {final}
           \/ disk' = disk \ {q.tmp}
        /\ Put(p, Resting) /\ owner' = Nobody
        /\ UNCHANGED inodes

\* The process dies, or a step before the staging file fails: the lock is
\* dropped, the files stay as they are.
Crash(p) ==
    /\ fetcher[p] # Resting
    /\ Put(p, Resting)
    /\ owner' = IF owner = p THEN Nobody ELSE owner
    /\ UNCHANGED <<disk, inodes>>

CacheNext ==
    \E p \in Helpers :
        \/ Lookup(p) \/ ReadCached(p) \/ Shown(p) \/ Fetch(p)
        \/ TakeLock(p) \/ Survey(p) \/ Evict(p)
        \/ Create(p) \/ Write(p) \/ Commit(p) \/ Crash(p)

CacheSpec == CacheInit /\ [][CacheNext]_cacheVars

-----------------------------------------------------------------------------

\* What is stored never exceeds the caps on entries and bytes, counted over
\* both trees ("Both caps count the other tree"), whoever writes to which tree
\* at the same time and whatever a crash left behind.  The staging files of dead
\* processes are reclaimed: right after an admission everything in both trees
\* fits the caps, not only the payloads.
WithinCaps ==
    /\ [](Cardinality(Payloads) <= MaxEntries /\ Bytes(Payloads) <= MaxBytes)
    /\ [][\A p \in Helpers :
          fetcher[p].at = "rename" /\ fetcher'[p] = Resting /\ disk' \ disk # {}
            => Cardinality(disk') <= MaxEntries /\ Bytes(disk') <= MaxBytes]_cacheVars

\* What a helper shows from the cache is the whole decodable body of the URL it
\* asked for, although it reads without the lock.
ShowsWhole ==
    \A p \in Helpers : fetcher[p].at = "shown" =>
        LET q == fetcher[p]
        IN  q.open.whole /\ q.open.good /\ q.open.url = q.url /\ q.open.tree = q.tree

=============================================================================
