----------------------------- MODULE Upload_proofs -----------------------------
(***************************************************************************)
(* For any targets, paths, sizes and rewrites of the file: an upload runs  *)
(* only for a warning the user saw, its URL is posted only if the target   *)
(* stayed, and the request is completed only with one version of the file. *)
(***************************************************************************)
EXTENDS Upload, TLAPS

Request(st) ==
    [st : {st}, n : Nat, scope : Targets, path : Paths, rest : Seq(Paths)]

Running ==
    [st : {"busy"}, n : Nat, scope : Targets, path : Paths, rest : Seq(Paths),
     allowed : BOOLEAN]

Consents == {Idle} \cup Request("confirm") \cup Running

Focuses == [scope : Targets, online : BOOLEAN]
Files == [version : Nat, size : Nat]
Seen == [staged : Nat, painted : SUBSET Nat, left : BOOLEAN, posted : Nat]

Answers == Outputs \cup {NoOutput, "url"}

Opened == [at : {"open"}, n : Nat, scope : Targets, path : Paths]
Sending ==
    [at : {"send", "check", "footer", "reply"}, scope : Targets, path : Paths,
     sent : SUBSET Nat, stamp : Files, left : Nat, pos : Nat]
Done == [at : {"done"}, scope : Targets, path : Paths, code : Nat, out : Answers]
Helpers == {Off} \cup Opened \cup Sending \cup Done

TypeOK ==
    /\ consent \in Consents
    /\ presented \in BOOLEAN
    /\ focus \in Focuses
    /\ helper \in Helpers
    /\ file \in Files
    /\ seen \in Seen

\* A helper runs for the request the session waits on, and only then.
Owned ==
    /\ helper.at # "off" <=> consent.st = "busy"
    /\ consent.st = "busy" =>
         consent.scope = helper.scope /\ consent.path = helper.path

\* What is presented is a warning that was painted.
Warned == presented => consent.st = "confirm" /\ consent.n \in seen.painted

\* A request that was broken has lost its permission.
Revoked == seen.left => consent.st = "busy" /\ ~consent.allowed

\* What was sent came from the versions since the stamp, and the stamp still
\* describes the file unless it has been rewritten.
Stamped ==
    /\ helper.at \in {"send", "check"} =>
         /\ helper.stamp.size > 0
         /\ helper.pos + helper.left = helper.stamp.size
         /\ helper.stamp.version <= file.version
         /\ helper.stamp.version = file.version => helper.stamp = file
         /\ \A v \in helper.sent :
              helper.stamp.version <= v /\ v <= file.version
         /\ helper.pos > 0 => helper.sent # {}
         /\ helper.at = "check" => helper.left = 0
    /\ WholeVersion

IInv == TypeOK /\ Owned /\ Warned /\ Revoked /\ Stamped

-----------------------------------------------------------------------------
(* The stage after every event *)

\* retain keeps a request whole, takes its permission, or drops it.
LEMMA RetainFacts ==
    ASSUME NEW c \in Consents \cup Request("armed"), NEW f \in Focuses
    PROVE  LET kept == Retain(c, f)
           IN  /\ Holds(c, f) => kept = c
               /\ ~Holds(c, f) /\ c.st # "busy" => kept = Idle
               /\ c.st = "busy" =>
                    /\ kept \in Running /\ kept.scope = c.scope /\ kept.path = c.path
                    /\ ~Holds(c, f) => ~kept.allowed
                    /\ ~c.allowed => ~kept.allowed
<1>1. CASE Holds(c, f)
  <2>1. Retain(c, f) = c
    BY <1>1 DEF Retain
  <2> QED BY <1>1, <2>1 DEF Consents, Request, Idle, Running
<1>2. CASE ~Holds(c, f) /\ c.st = "busy"
  <2>1. Retain(c, f) = [c EXCEPT !.rest = << >>, !.allowed = FALSE]
    BY <1>2 DEF Retain
  <2>2. c \in Running
    BY <1>2 DEF Consents, Request, Idle, Running
  <2>3. << >> \in Seq(Paths)
    OBVIOUS
  <2> QED BY <1>2, <2>1, <2>2, <2>3 DEF Running
<1>3. CASE ~Holds(c, f) /\ c.st # "busy"
  BY <1>3 DEF Retain
<1> QED BY <1>1, <1>2, <1>3

LEMMA KeptFacts ==
    ASSUME NEW p \in BOOLEAN, NEW a, NEW b
    PROVE  /\ Kept(p, a, b) \in BOOLEAN
           /\ Kept(p, a, b) => p /\ SameWarning(a, b)
BY DEF Kept

\* What the stage makes of the consent an event left: an armed request that
\* still holds starts its helper, nothing else does.
LEMMA StageFacts ==
    ASSUME NEW c \in Consents \cup Request("armed"), NEW p \in BOOLEAN,
           NEW f \in Focuses, NEW h \in Helpers, Stage(c, p, f, h)
    PROVE  /\ consent' \in Consents /\ presented' \in BOOLEAN
           /\ focus' = f /\ helper' \in Helpers
           /\ c.st = "busy" =>
                /\ consent'.st = "busy" /\ ~presented' /\ helper' = h
                /\ consent'.scope = c.scope /\ consent'.path = c.path
                /\ (~Holds(c, f) \/ ~c.allowed) => ~consent'.allowed
           /\ c.st # "busy" /\ consent'.st = "busy" =>
                /\ c.st = "armed" /\ ~presented'
                /\ helper'.at = "open" /\ helper'.n = c.n
                /\ consent'.scope = helper'.scope /\ consent'.path = helper'.path
           /\ c.st # "busy" /\ consent'.st # "busy" => helper' = h
           /\ presented' => p /\ consent' = c /\ c.st = "confirm"
<1> DEFINE kept == Retain(c, f)
<1>1. /\ consent' = Staged(c, f) /\ presented' = Kept(p, c, consent')
      /\ focus' = f
      /\ helper' = IF Started(kept)
                   THEN [at |-> "open", n |-> kept.n, scope |-> kept.scope,
                         path |-> kept.path]
                   ELSE h
  BY DEF Stage
<1>2. /\ Holds(c, f) => kept = c
      /\ ~Holds(c, f) /\ c.st # "busy" => kept = Idle
      /\ c.st = "busy" =>
           /\ kept \in Running /\ kept.scope = c.scope /\ kept.path = c.path
           /\ ~Holds(c, f) => ~kept.allowed
           /\ ~c.allowed => ~kept.allowed
  BY RetainFacts
<1>3. CASE kept.st = "armed"
  <2>1. kept = c /\ c \in Request("armed")
    BY <1>2, <1>3 DEF Idle, Running, Consents, Request
  <2>2. /\ consent' = [st |-> "busy", n |-> c.n, scope |-> c.scope, path |-> c.path,
                       rest |-> c.rest, allowed |-> TRUE]
        /\ helper' = [at |-> "open", n |-> c.n, scope |-> c.scope, path |-> c.path]
    BY <1>1, <1>3, <2>1 DEF Staged, Started
  <2>3. ~presented' /\ presented' \in BOOLEAN
    BY <1>1, <2>2, KeptFacts DEF SameWarning
  <2>4. consent' \in Consents /\ helper' \in Helpers
    BY <2>1, <2>2 DEF Consents, Running, Request, Helpers, Opened
  <2> QED BY <1>1, <2>1, <2>2, <2>3, <2>4 DEF Request
<1>4. CASE kept.st # "armed"
  <2>1. consent' = kept /\ helper' = h
    BY <1>1, <1>4 DEF Staged, Started
  <2>2. CASE c.st = "busy"
    BY <1>1, <1>2, <2>1, <2>2, KeptFacts DEF Consents, Running, SameWarning
  <2>3. CASE c.st # "busy" /\ Holds(c, f)
    <3>1. consent' = c /\ c \in Consents
      BY <1>2, <1>4, <2>1, <2>3 DEF Request
    <3> QED BY <1>1, <2>1, <2>3, <3>1, KeptFacts DEF SameWarning
  <2>4. CASE c.st # "busy" /\ ~Holds(c, f)
    BY <1>1, <1>2, <2>1, <2>4, KeptFacts DEF Consents, Idle, SameWarning
  <2> QED BY <2>2, <2>3, <2>4
<1> QED BY <1>3, <1>4

\* An event hands the stage a consent whose helper is the one that runs, a
\* mark and an armed request that stand for a painted warning, and a request
\* that has lost its permission if it was broken.
Sound(c, p, f, h) ==
    /\ h \in {helper, Off} /\ file' \in Files
    /\ h # Off => UNCHANGED file
    /\ h.at # "off" <=> c.st = "busy"
    /\ c.st = "busy" => c.scope = h.scope /\ c.path = h.path
    /\ seen' \in Seen
    /\ p /\ c.st = "confirm" => c.n \in seen'.painted
    /\ c.st = "armed" => c.n \in seen.painted /\ helper.at = "off"
    /\ seen'.left => c.st = "busy" /\ (~c.allowed \/ ~Holds(c, f))

LEMMA StageIInv ==
    ASSUME IInv,
           NEW c \in Consents \cup Request("armed"), NEW p \in BOOLEAN,
           NEW f \in Focuses, NEW h \in Helpers,
           Stage(c, p, f, h), Sound(c, p, f, h)
    PROVE  IInv'
<1> USE DEF Sound
<1>1. /\ consent' \in Consents /\ presented' \in BOOLEAN
      /\ focus' = f /\ helper' \in Helpers
      /\ c.st = "busy" =>
           /\ consent'.st = "busy" /\ ~presented' /\ helper' = h
           /\ consent'.scope = c.scope /\ consent'.path = c.path
           /\ (~Holds(c, f) \/ ~c.allowed) => ~consent'.allowed
      /\ c.st # "busy" /\ consent'.st = "busy" =>
           /\ c.st = "armed" /\ ~presented'
           /\ helper'.at = "open" /\ helper'.n = c.n
           /\ consent'.scope = helper'.scope /\ consent'.path = helper'.path
      /\ c.st # "busy" /\ consent'.st # "busy" => helper' = h
      /\ presented' => p /\ consent' = c /\ c.st = "confirm"
  BY StageFacts
<1>2. TypeOK'
  BY <1>1 DEF TypeOK
<1>3. Owned'
  BY <1>1 DEF Owned
<1>4. Warned'
  BY <1>1 DEF Warned
<1>5. Revoked'
  BY <1>1 DEF Revoked
<1>6. Stamped'
  <2>1. CASE helper'.at = "open"
    BY <2>1 DEF Stamped, WholeVersion
  <2>2. CASE helper' = h /\ h = Off
    BY <2>2 DEF Stamped, WholeVersion, Off
  <2>3. CASE helper' = h /\ h # Off
    <3>1. UNCHANGED <<helper, file>>
      BY <2>3
    <3> QED BY <3>1 DEF IInv, Stamped, WholeVersion
  <2> QED BY <1>1, <2>1, <2>2, <2>3
<1> QED BY <1>2, <1>3, <1>4, <1>5, <1>6 DEF IInv

-----------------------------------------------------------------------------
(* Events *)

\* A key arms what is presented, and takes or drops a running request's
\* permission; it never makes another request of it.
LEMMA KeyedFacts ==
    ASSUME NEW c \in Consents, NEW p \in BOOLEAN, NEW key,
           p => c.st = "confirm"
    PROVE  LET keyed == Keyed(c, p, key)
           IN  /\ keyed \in Consents \cup Request("armed")
               /\ keyed.st = "busy" <=> c.st = "busy"
               /\ c.st = "busy" =>
                    /\ keyed.scope = c.scope /\ keyed.path = c.path
                    /\ ~c.allowed \/ key = "escape" => ~keyed.allowed
               /\ keyed.st = "confirm" => keyed = c
               /\ keyed.st = "armed" => p /\ keyed.n = c.n
               /\ key = "enter" => keyed = c
<1>1. CASE key = "escape" /\ c.st = "busy"
  <2>1. Keyed(c, p, key) = [c EXCEPT !.rest = << >>, !.allowed = FALSE]
    BY <1>1 DEF Keyed, Cancel
  <2>2. c \in Running /\ << >> \in Seq(Paths)
    BY <1>1 DEF Consents, Idle, Request
  <2> QED BY <1>1, <2>1, <2>2 DEF Running, Consents
<1>2. CASE key = "escape" /\ c.st \notin {"idle", "busy"}
  <2>1. Keyed(c, p, key) = Idle
    BY <1>2 DEF Keyed, Cancel
  <2> QED BY <1>2, <2>1 DEF Idle, Consents
<1>3. CASE key = "F8" /\ Pending(c) /\ p
  <2>1. Keyed(c, p, key) = [c EXCEPT !.st = "armed"]
    BY <1>3 DEF Keyed
  <2>2. c \in Request("confirm")
    BY <1>3 DEF Consents, Idle, Running
  <2> QED BY <1>3, <2>1, <2>2 DEF Request
<1>4. CASE ~(key = "escape" /\ c.st # "idle") /\ ~(key = "F8" /\ Pending(c) /\ p)
  <2>1. Keyed(c, p, key) = c
    BY <1>4 DEF Keyed
  <2> QED BY <1>4, <2>1 DEF Consents, Idle, Request, Running
<1> QED BY <1>1, <1>2, <1>3, <1>4

\* A batch of paths becomes the warning of its first.
LEMMA ConfirmType ==
    ASSUME NEW n \in Nat, NEW scope \in Targets, NEW paths \in Seq(Paths),
           paths # << >>
    PROVE  /\ Confirm(n, scope, paths) \in Request("confirm")
           /\ Confirm(n, scope, paths).n = n
           /\ Confirm(n, scope, paths).scope = scope
<1>1. Head(paths) \in Paths /\ Tail(paths) \in Seq(Paths)
  OBVIOUS
<1> QED BY <1>1 DEF Confirm, Request

\* A frame arms only what was presented, and the warning it offers is a new
\* one: the same words for another target are another warning.
LEMMA FrameFacts ==
    ASSUME IInv, Frame
    PROVE  \E c \in Consents \cup Request("armed"), p \in BOOLEAN, f \in Focuses :
             Stage(c, p, f, helper) /\ Sound(c, p, f, helper)
             /\ seen'.posted = seen.posted
<1>1. PICK key \in {"escape", "F8", "enter", "other"}, scope \in Targets :
        LET f == [focus EXCEPT !.scope = scope]
            kept == Retain(consent, focus)
            keyed == Keyed(kept, Kept(presented, consent, kept), key)
            offers == key = "enter" /\ keyed.st = "idle" /\ focus.online
            done(c) ==
              /\ Stage(c, Sealed(consent, c), f, helper)
              /\ seen' = [seen EXCEPT
                   !.painted = IF consent.st = "confirm" THEN @ \cup {consent.n} ELSE @,
                   !.left = @ \/ Broken(c, f) \/ (key = "escape" /\ c.st = "busy"),
                   !.staged = IF offers THEN @ + 1 ELSE @]
        IN  /\ key # "other" => scope = focus.scope
            /\ IF offers
               THEN /\ seen.staged < Warnings
                    /\ \E k \in 1 .. BatchMax : \E paths \in [1 .. k -> Paths] :
                         done(Confirm(seen.staged + 1, focus.scope, paths))
               ELSE done(keyed)
            /\ UNCHANGED <<file, native>>
  BY Zenon DEF Frame
<1> DEFINE f == [focus EXCEPT !.scope = scope]
           kept == Retain(consent, focus)
           keyed == Keyed(kept, Kept(presented, consent, kept), key)
           offers == key = "enter" /\ keyed.st = "idle" /\ focus.online
           painted == IF consent.st = "confirm" THEN seen.painted \cup {consent.n}
                                               ELSE seen.painted
           left(c) == seen.left \/ Broken(c, f) \/ (key = "escape" /\ c.st = "busy")
           staged == IF offers THEN seen.staged + 1 ELSE seen.staged
<1>2. /\ consent \in Consents /\ presented \in BOOLEAN /\ focus \in Focuses
      /\ helper \in Helpers /\ file \in Files /\ seen \in Seen
  BY DEF IInv, TypeOK
<1>3. f \in Focuses /\ f.online = focus.online /\ f.scope = scope
  BY <1>2 DEF Focuses
<1>4. /\ kept \in Consents
      /\ kept.st = "busy" <=> consent.st = "busy"
      /\ consent.st = "busy" =>
           /\ kept.scope = consent.scope /\ kept.path = consent.path
           /\ ~consent.allowed => ~kept.allowed
      /\ kept.st = "confirm" => kept = consent
      /\ consent.st = "confirm" /\ kept.st = "idle" => ~Holds(consent, focus)
  <2>1. /\ Holds(consent, focus) => kept = consent
        /\ ~Holds(consent, focus) /\ consent.st # "busy" => kept = Idle
        /\ consent.st = "busy" =>
             /\ kept \in Running /\ kept.scope = consent.scope
             /\ kept.path = consent.path /\ (~consent.allowed => ~kept.allowed)
    BY <1>2, RetainFacts
  <2> HIDE DEF kept
  <2> QED BY <1>2, <2>1 DEF Consents, Idle, Running
<1> HIDE DEF kept
<1>5. /\ keyed \in Consents \cup Request("armed")
      /\ keyed.st = "busy" <=> consent.st = "busy"
      /\ consent.st = "busy" =>
           /\ keyed.scope = consent.scope /\ keyed.path = consent.path
           /\ ~consent.allowed \/ key = "escape" => ~keyed.allowed
      /\ keyed.st = "confirm" => keyed = consent
      /\ keyed.st = "armed" => keyed.n \in seen.painted /\ consent.st = "confirm"
      /\ key = "enter" => keyed = kept
  <2>1. /\ Kept(presented, consent, kept) \in BOOLEAN
        /\ Kept(presented, consent, kept) =>
             presented /\ consent.st = "confirm" /\ kept.st = "confirm"
    BY <1>2, KeptFacts DEF SameWarning
  <2>2. presented => consent.n \in seen.painted
    BY DEF IInv, Warned
  <2> QED BY <1>4, <2>1, <2>2, KeyedFacts
<1> HIDE DEF keyed
<1>6. /\ key # "other" => scope = focus.scope
      /\ UNCHANGED file
  BY <1>1 DEF kept, keyed
<1>7. PICK c :
        /\ Stage(c, Sealed(consent, c), f, helper)
        /\ seen' = [seen EXCEPT !.painted = painted, !.left = left(c), !.staged = staged]
        /\ \/ c = keyed
           \/ /\ offers
              /\ \E k \in 1 .. BatchMax : \E paths \in [1 .. k -> Paths] :
                   c = Confirm(seen.staged + 1, focus.scope, paths)
  <2>1. CASE offers
    BY <1>1, <2>1 DEF kept, keyed
  <2>2. CASE ~offers
    BY <1>1, <2>2 DEF kept, keyed
  <2> QED BY <2>1, <2>2
<1>8. /\ c \in Consents \cup Request("armed")
      /\ c # keyed => offers /\ c.st = "confirm" /\ c.scope = focus.scope
  <2>1. ASSUME NEW k \in 1 .. BatchMax, NEW paths \in [1 .. k -> Paths],
               c = Confirm(seen.staged + 1, focus.scope, paths)
        PROVE  c \in Request("confirm") /\ c.scope = focus.scope
    <3>1. paths \in Seq(Paths) /\ paths # << >>
      OBVIOUS
    <3>2. seen.staged + 1 \in Nat /\ focus.scope \in Targets
      BY <1>2 DEF Seen, Focuses
    <3> QED BY <2>1, <3>1, <3>2, ConfirmType
  <2> QED BY <1>5, <1>7, <2>1 DEF Request, Consents
<1>9. seen' \in Seen /\ seen'.posted = seen.posted
      /\ seen'.painted = painted /\ seen'.left = left(c)
  <2>1. painted \in SUBSET Nat
    <3>1. consent.st = "confirm" => consent.n \in Nat
      BY <1>2 DEF Consents, Idle, Request, Running
    <3> QED BY <1>2, <3>1 DEF Seen
  <2>2. left(c) \in BOOLEAN
    BY <1>2 DEF Seen, Broken
  <2>3. staged \in Nat
    BY <1>2 DEF Seen
  <2> HIDE DEF painted, left, staged
  <2> QED BY <1>2, <1>7, <2>1, <2>2, <2>3 DEF Seen
<1>10. Sealed(consent, c) \in BOOLEAN
  BY DEF Sealed, SameWarning
<1>11. Sealed(consent, c) /\ c.st = "confirm" => c.n \in painted
  <2> SUFFICES ASSUME Sealed(consent, c) PROVE c.n \in painted
    OBVIOUS
  <2>1. consent.st = "confirm" /\ c.st = "confirm" /\ consent.scope = c.scope
    BY DEF Sealed, SameWarning
  <2>2. CASE c = keyed
    BY <1>5, <2>1, <2>2
  <2>3. CASE c # keyed
    <3>1. ~Holds(consent, focus)
      BY <1>4, <1>5, <1>8, <2>1, <2>3
    <3> QED BY <1>8, <2>1, <2>3, <3>1 DEF Holds
  <2> QED BY <2>2, <2>3
<1>12. /\ helper.at # "off" <=> c.st = "busy"
       /\ c.st = "busy" => c.scope = helper.scope /\ c.path = helper.path
       /\ c.st = "armed" => c.n \in seen.painted /\ helper.at = "off"
  <2>1. /\ helper.at # "off" <=> consent.st = "busy"
        /\ consent.st = "busy" =>
             consent.scope = helper.scope /\ consent.path = helper.path
    BY DEF IInv, Owned
  <2>2. CASE c = keyed
    BY <1>5, <2>1, <2>2
  <2>3. CASE c # keyed
    BY <1>5, <1>8, <2>1, <2>3
  <2> QED BY <2>2, <2>3
<1>13. left(c) => c.st = "busy" /\ (~c.allowed \/ ~Holds(c, f))
  <2>1. CASE seen.left
    <3>1. consent.st = "busy" /\ ~consent.allowed
      BY <2>1 DEF IInv, Revoked
    <3> QED BY <1>5, <1>8, <3>1
  <2>2. CASE Broken(c, f)
    BY <2>2 DEF Broken, Holds
  <2>3. CASE key = "escape" /\ c.st = "busy"
    BY <1>5, <1>8, <2>3
  <2> QED BY <2>1, <2>2, <2>3
<1>14. Sound(c, Sealed(consent, c), f, helper)
  BY <1>2, <1>6, <1>9, <1>11, <1>12, <1>13 DEF Sound
<1> QED BY <1>3, <1>7, <1>8, <1>9, <1>10, <1>14

LEMMA EventFacts ==
    ASSUME IInv, Event
    PROVE  \E c \in Consents, p \in BOOLEAN, f \in Focuses :
             Stage(c, p, f, helper) /\ Sound(c, p, f, helper)
             /\ seen'.posted = seen.posted
<1>1. PICK f \in Focuses :
        /\ Stage(consent, presented, f, helper)
        /\ seen' = [seen EXCEPT !.left = @ \/ Broken(consent, f)]
        /\ UNCHANGED <<file, native>>
  BY DEF Event, Focuses
<1>2. /\ consent \in Consents /\ presented \in BOOLEAN
      /\ file \in Files /\ seen \in Seen
  BY DEF IInv, TypeOK
<1>3. /\ seen' \in Seen /\ seen'.posted = seen.posted
      /\ seen'.painted = seen.painted
      /\ seen'.left = (seen.left \/ Broken(consent, f))
  BY <1>1, <1>2 DEF Seen
<1>4. seen'.left => consent.st = "busy" /\ (~consent.allowed \/ ~Holds(consent, f))
  BY <1>3 DEF IInv, Revoked, Broken, Holds
<1>5. consent.st # "armed"
  BY <1>2 DEF Consents, Idle, Request, Running
<1>6. Sound(consent, presented, f, helper)
  BY <1>1, <1>2, <1>3, <1>4, <1>5 DEF Sound, IInv, Owned, Warned
<1> QED BY <1>1, <1>2, <1>3, <1>6

\* The answer of the helper belongs to the running request; what follows is
\* the warning for the next file, or nothing.
LEMMA FetchedFacts ==
    ASSUME UploadAssumption, IInv, Fetched
    PROVE  /\ consent.st = "busy" /\ consent.scope = helper.scope
           /\ \E c \in Consents :
                 /\ Stage(c, FALSE, focus, Off)
                 /\ Sound(c, FALSE, focus, Off)
           /\ seen'.posted > seen.posted => Eligible(consent, focus)
<1> DEFINE kept == Retain(consent, focus)
           after == NextFile(kept, seen.staged)
<1>1. /\ consent \in Consents /\ presented \in BOOLEAN /\ focus \in Focuses
      /\ file \in Files /\ seen \in Seen
  BY DEF IInv, TypeOK
<1>2. /\ helper.at = "done" /\ consent.st = "busy"
      /\ consent.scope = helper.scope /\ consent.path = helper.path
  BY DEF Fetched, IInv, Owned
<1>3. /\ Stage(after, Kept(presented, consent, after), focus, Off)
      /\ file' = [version |-> 0, size |-> FileMax]
      /\ seen' = [seen EXCEPT
           !.posted = IF (IF Eligible(consent, focus) /\ helper.code = 0
                          THEN Response(helper.out) ELSE NoOutput) # NoOutput
                      THEN @ + 1 ELSE @,
           !.left = FALSE,
           !.staged = IF after.st = "confirm" THEN @ + 1 ELSE @]
  BY <1>2 DEF Fetched
<1>4. kept \in Running
  BY <1>1, <1>2, RetainFacts
<1>5. after \in Consents /\ after.st \in {"idle", "confirm"}
  <2>1. CASE kept.allowed /\ kept.rest # << >>
    <3>1. after = Confirm(seen.staged + 1, kept.scope, kept.rest)
      BY <2>1 DEF NextFile
    <3>2. /\ seen.staged + 1 \in Nat /\ kept.scope \in Targets
          /\ kept.rest \in Seq(Paths)
      BY <1>1, <1>4 DEF Seen, Running
    <3>3. after \in Request("confirm")
      BY <2>1, <3>1, <3>2, ConfirmType
    <3> QED BY <3>3 DEF Consents, Request
  <2>2. CASE ~(kept.allowed /\ kept.rest # << >>)
    BY <2>2 DEF NextFile, Consents, Idle
  <2> QED BY <2>1, <2>2
<1> HIDE DEF after
<1>6. Kept(presented, consent, after) = FALSE
  BY <1>2 DEF Kept, SameWarning
<1>7. file' \in Files
  BY <1>3 DEF UploadAssumption, Files
<1>8. seen' \in Seen /\ ~seen'.left
      /\ (~Eligible(consent, focus) => seen'.posted = seen.posted)
  <2>1. PICK n \in {seen.posted, seen.posted + 1}, m \in {seen.staged, seen.staged + 1} :
          /\ seen' = [seen EXCEPT !.posted = n, !.left = FALSE, !.staged = m]
          /\ ~Eligible(consent, focus) => n = seen.posted
    BY <1>3
  <2>2. n \in Nat /\ m \in Nat
    BY <1>1 DEF Seen
  <2> QED BY <1>1, <2>1, <2>2 DEF Seen
<1>9. Sound(after, FALSE, focus, Off)
  BY <1>2, <1>5, <1>7, <1>8 DEF Sound, Off
<1>10. seen'.posted > seen.posted => Eligible(consent, focus)
  BY <1>1, <1>8 DEF Seen
<1> QED BY <1>2, <1>3, <1>5, <1>6, <1>9, <1>10

-----------------------------------------------------------------------------
(* The helper *)

\* A step of the helper keeps the request it runs for, and its own record.
LEMMA HelperIInv ==
    ASSUME IInv, HelperNext
    PROVE  IInv'
<1>1. /\ helper \in Helpers /\ file \in Files
      /\ UNCHANGED <<consent, presented, focus, file, native, seen>>
  BY DEF IInv, TypeOK, HelperNext, OtherHelper, HelperFail, HelperOpen, HelperSend,
         HelperCheck, HelperFooter, HelperReply
<1>2. SUFFICES /\ helper' \in Helpers /\ Stamped'
               /\ helper.at # "off" /\ helper'.at # "off"
               /\ helper'.scope = helper.scope /\ helper'.path = helper.path
  BY <1>1 DEF IInv, TypeOK, Owned, Warned, Revoked
<1>3. ASSUME NEW code \in Nat, NEW out \in Answers, helper.at # "off",
             helper' = Answered(helper, code, out)
      PROVE  /\ helper' \in Helpers /\ Stamped'
             /\ helper.at # "off" /\ helper'.at # "off"
             /\ helper'.scope = helper.scope /\ helper'.path = helper.path
  <2>1. helper.scope \in Targets /\ helper.path \in Paths
    BY <1>1, <1>3 DEF Helpers, Off, Opened, Sending, Done
  <2>2. helper' \in Done
    BY <1>3, <2>1 DEF Answered, Done
  <2> QED BY <1>3, <2>2 DEF Answered, Helpers, Done, Stamped, WholeVersion
<1>4. CASE OtherHelper \/ HelperFail
  BY <1>3, <1>4 DEF OtherHelper, HelperFail, Answers
<1>5. CASE HelperOpen
  <2>1. helper \in Opened
    BY <1>1, <1>5 DEF HelperOpen, Helpers, Off, Sending, Done
  <2>2. CASE file.size = 0
    BY <1>3, <1>5, <2>2 DEF HelperOpen, Answers
  <2>3. CASE file.size # 0
    <3>1. helper' = [at |-> "send", scope |-> helper.scope, path |-> helper.path,
                     sent |-> {}, stamp |-> file, left |-> file.size, pos |-> 0]
      BY <1>5, <2>3 DEF HelperOpen
    <3>2. helper' \in Sending
      BY <1>1, <2>1, <3>1 DEF Opened, Sending, Files
    <3> QED BY <1>1, <1>5, <2>3, <3>1, <3>2
            DEF HelperOpen, Helpers, Stamped, WholeVersion, Files
  <2> QED BY <2>2, <2>3
<1>6. ASSUME helper.at \in {"send", "check", "footer", "reply"}
      PROVE  helper \in Sending
  BY <1>1, <1>6 DEF Helpers, Off, Opened, Done
<1>7. CASE HelperSend
  <2>0. helper \in Sending /\ helper.at = "send"
    BY <1>6, <1>7 DEF HelperSend
  <2>1. CASE helper.left = 0
    <3>1. helper' = [helper EXCEPT !.at = "check"]
      BY <1>7, <2>1 DEF HelperSend
    <3> QED BY <1>1, <2>0, <2>1, <3>1
            DEF IInv, Helpers, Sending, Stamped, WholeVersion
  <2>2. CASE helper.left # 0 /\ helper.pos >= file.size
    BY <1>3, <1>7, <2>2 DEF HelperSend, Answers
  <2>3. CASE helper.left # 0 /\ ~(helper.pos >= file.size)
    <3>1. helper' = [helper EXCEPT !.left = @ - 1, !.pos = @ + 1,
                                   !.sent = @ \cup {file.version}]
      BY <1>7, <2>3 DEF HelperSend
    <3>4. helper.left - 1 \in Nat /\ helper.pos + 1 \in Nat
          /\ helper.sent \cup {file.version} \in SUBSET Nat
      BY <1>1, <2>0, <2>3 DEF Sending, Files
    <3>2. /\ helper' \in Sending /\ helper'.at = "send"
          /\ helper'.stamp = helper.stamp
          /\ helper'.scope = helper.scope /\ helper'.path = helper.path
          /\ helper'.left = helper.left - 1 /\ helper'.pos = helper.pos + 1
          /\ helper'.sent = helper.sent \cup {file.version}
      BY <2>0, <3>1, <3>4 DEF Sending
    <3>3. Stamped'
      BY <1>1, <2>0, <2>3, <3>2 DEF IInv, Stamped, WholeVersion, Sending, Files
    <3> QED BY <2>0, <3>2, <3>3 DEF Helpers
  <2> QED BY <2>1, <2>2, <2>3
<1>8. CASE HelperCheck
  <2>0. helper \in Sending /\ helper.at = "check"
    BY <1>6, <1>8 DEF HelperCheck
  <2>1. CASE helper.pos < file.size \/ ~StampEq(helper.stamp, file)
    BY <1>3, <1>8, <2>1 DEF HelperCheck, Answers
  <2>2. CASE ~(helper.pos < file.size \/ ~StampEq(helper.stamp, file))
    <3>1. helper' = [helper EXCEPT !.at = "footer"] /\ helper.stamp = file
      BY <1>8, <2>2 DEF HelperCheck, StampEq
    <3>2. /\ helper.left = 0 /\ helper.stamp.size > 0
          /\ helper.pos + helper.left = helper.stamp.size
          /\ \A v \in helper.sent :
               helper.stamp.version <= v /\ v <= file.version
          /\ helper.pos > 0 => helper.sent # {}
      BY <2>0 DEF IInv, Stamped
    <3>3. helper.pos = helper.stamp.size /\ helper.sent = {helper.stamp.version}
      <4>1. helper.pos \in Nat /\ helper.stamp \in Files /\ helper.sent \subseteq Nat
        BY <2>0 DEF Sending
      <4>2. helper.pos = helper.stamp.size /\ helper.sent # {}
        BY <3>2, <4>1 DEF Files
      <4>3. \A v \in helper.sent : v = helper.stamp.version
        BY <3>1, <3>2, <4>1 DEF Files
      <4> QED BY <4>2, <4>3
    <3>4. /\ helper' \in Sending /\ helper'.at = "footer"
          /\ helper'.scope = helper.scope /\ helper'.path = helper.path
          /\ helper'.sent = helper.sent /\ helper'.pos = helper.pos
          /\ helper'.stamp = helper.stamp
      BY <2>0, <3>1 DEF Sending
    <3> QED BY <2>0, <3>3, <3>4 DEF Helpers, Stamped, WholeVersion
  <2> QED BY <2>1, <2>2
<1>9. CASE HelperFooter
  <2>0. helper \in Sending /\ helper.at = "footer"
    BY <1>6, <1>9 DEF HelperFooter
  <2>1. helper' = [helper EXCEPT !.at = "reply"]
    BY <1>9 DEF HelperFooter
  <2> QED BY <2>0, <2>1 DEF IInv, Helpers, Sending, Stamped, WholeVersion
<1>10. CASE HelperReply
  <2>1. PICK body \in {"url", "url\n", "url\r\n", "other"} :
          helper' = IF CheckedUrl(body) = NoOutput THEN Answered(helper, 5, NoOutput)
                    ELSE Answered(helper, 0, CheckedUrl(body))
    BY <1>10 DEF HelperReply
  <2>2. CheckedUrl(body) \in Answers /\ NoOutput \in Answers /\ helper.at # "off"
    BY <1>10 DEF CheckedUrl, HelperReply, Answers
  <2> QED BY <1>3, <2>1, <2>2
<1> QED BY <1>4, <1>5, <1>7, <1>8, <1>9, <1>10 DEF HelperNext

\* A helper that runs is past its start.
LEMMA NeverReopened ==
    ASSUME helper \in Helpers, HelperNext
    PROVE  helper'.at # "open"
<1>1. ASSUME NEW code, NEW out, helper' = Answered(helper, code, out)
      PROVE  helper'.at # "open"
  BY <1>1 DEF Answered
<1>2. ASSUME NEW at \in {"check", "footer", "reply"}, helper \in Sending,
             helper' = [helper EXCEPT !.at = at]
      PROVE  helper'.at # "open"
  BY <1>2 DEF Sending
<1>3. helper.at \in {"send", "check", "footer"} => helper \in Sending
  BY DEF Helpers, Off, Opened, Done
<1>4. CASE OtherHelper \/ HelperFail \/ HelperReply
  BY <1>1, <1>4 DEF OtherHelper, HelperFail, HelperReply
<1>5. CASE HelperOpen
  BY <1>1, <1>5 DEF HelperOpen
<1>6. CASE HelperSend
  BY <1>1, <1>2, <1>3, <1>6 DEF HelperSend, Sending
<1>7. CASE HelperCheck \/ HelperFooter
  BY <1>1, <1>2, <1>3, <1>7 DEF HelperCheck, HelperFooter
<1> QED BY <1>4, <1>5, <1>6, <1>7 DEF HelperNext

\* A rewrite makes a newer version: the stamp no longer describes the file.
LEMMA RewriteIInv ==
    ASSUME UploadAssumption, IInv, Rewrite
    PROVE  IInv'
<1>1. PICK size \in 0 .. FileMax :
        file' = [version |-> file.version + 1, size |-> size]
  BY DEF Rewrite
<1>2. UNCHANGED <<consent, presented, focus, helper, native, seen>>
  BY DEF Rewrite
<1>3. /\ file \in Files /\ file' \in Files /\ file'.version = file.version + 1
      /\ helper \in Helpers
  BY <1>1 DEF IInv, TypeOK, Files, UploadAssumption
<1>4. Stamped'
  <2>1. CASE helper.at \in {"send", "check"}
    <3>1. helper \in Sending
      BY <1>3, <2>1 DEF Helpers, Off, Opened, Done
    <3>2. /\ helper.stamp.version \in Nat /\ file.version \in Nat
          /\ helper.sent \subseteq Nat
      BY <1>3, <3>1 DEF Sending, Files
    <3>3. /\ helper.stamp.version <= file.version
          /\ \A v \in helper.sent :
               helper.stamp.version <= v /\ v <= file.version
      BY <2>1 DEF IInv, Stamped
    <3>4. /\ helper.stamp.version < file'.version
          /\ \A v \in helper.sent :
               helper.stamp.version <= v /\ v <= file'.version
      BY <1>3, <3>2, <3>3
    <3>5. /\ helper.stamp.size > 0
          /\ helper.pos + helper.left = helper.stamp.size
          /\ helper.pos > 0 => helper.sent # {}
          /\ helper.at = "check" => helper.left = 0
      BY <2>1 DEF IInv, Stamped
    <3>6. helper.stamp.version # file'.version
      BY <1>3, <3>2, <3>4
    <3>7. WholeVersion'
      BY <1>2 DEF IInv, Stamped, WholeVersion
    <3> QED BY <1>2, <3>4, <3>5, <3>6, <3>7, <3>2, <1>3 DEF Stamped
  <2>2. CASE helper.at \notin {"send", "check"}
    BY <1>2, <2>2 DEF IInv, Stamped, WholeVersion
  <2> QED BY <2>1, <2>2
<1> QED BY <1>2, <1>3, <1>4 DEF IInv, TypeOK, Owned, Warned, Revoked

-----------------------------------------------------------------------------
(* The theorems *)

LEMMA NextIInv ==
    ASSUME UploadAssumption, IInv, [Next]_uploadVars
    PROVE  IInv'
<1>1. ASSUME NEW c \in Consents \cup Request("armed"), NEW p \in BOOLEAN,
             NEW f \in Focuses, Stage(c, p, f, helper), Sound(c, p, f, helper)
      PROVE  IInv'
  BY <1>1, StageIInv DEF IInv, TypeOK
<1>2. CASE Frame
  BY <1>1, <1>2, FrameFacts
<1>3. CASE Event
  BY <1>1, <1>3, EventFacts
<1>4. CASE Fetched
  <2>1. PICK c \in Consents : Stage(c, FALSE, focus, Off) /\ Sound(c, FALSE, focus, Off)
    BY <1>4, FetchedFacts
  <2>2. focus \in Focuses /\ Off \in Helpers
    BY DEF IInv, TypeOK, Helpers
  <2> QED BY <2>1, <2>2, StageIInv
<1>5. CASE HelperNext
  BY <1>5, HelperIInv
<1>6. CASE Rewrite
  BY <1>6, RewriteIInv
<1>7. CASE UNCHANGED uploadVars
  BY <1>7 DEF uploadVars, IInv, TypeOK, Owned, Warned, Revoked, Stamped, WholeVersion
<1> QED BY <1>2, <1>3, <1>4, <1>5, <1>6, <1>7 DEF Next

LEMMA Invariance ==
    ASSUME UploadAssumption
    PROVE  Spec => []IInv
<1>1. Init => IInv
  <2> SUFFICES ASSUME Init PROVE IInv
    OBVIOUS
  <2>1. focus \in Focuses
    BY DEF Init, Focuses
  <2>2. TypeOK
    BY <2>1 DEF Init, TypeOK, Consents, Helpers, Files, Seen, UploadAssumption
  <2>3. Owned /\ Warned /\ Revoked /\ Stamped
    BY DEF Init, Owned, Warned, Revoked, Stamped, WholeVersion, Idle, Off
  <2> QED BY <2>2, <2>3 DEF IInv
<1>2. IInv /\ [Next]_uploadVars => IInv'
  BY NextIInv
<1> QED BY <1>1, <1>2, PTL DEF Spec

\* For any rewrites of the file at any moment: a request is completed only
\* with as many bytes as it announced, all of the version that was opened
\* (upload_ffi.c birc_upload_run).
THEOREM OneVersion ==
    ASSUME UploadAssumption
    PROVE  Spec => []WholeVersion
<1>1. IInv => WholeVersion
  BY DEF IInv, Stamped
<1> QED BY <1>1, Invariance, PTL

\* Whatever the user types and the server does: every helper was started by a
\* key pressed over a warning that a completed frame had painted, and none
\* while another runs (session.bend session_upload_key, session_upload_take).
THEOREM StartsWarned ==
    ASSUME UploadAssumption
    PROVE  Spec => StartWarned
<1>1. ASSUME NEW c \in Consents \cup Request("armed"), NEW p \in BOOLEAN,
             NEW f \in Focuses, NEW h \in Helpers,
             Stage(c, p, f, h), Sound(c, p, f, h)
      PROVE  helper'.at = "open" /\ helper'.at # helper.at =>
               helper.at = "off" /\ helper'.n \in seen.painted
  <2>1. /\ c.st = "busy" => helper' = h
        /\ c.st # "busy" /\ consent'.st = "busy" =>
             c.st = "armed" /\ helper'.n = c.n
        /\ c.st # "busy" /\ consent'.st # "busy" => helper' = h
    BY <1>1, StageFacts
  <2> QED BY <1>1, <2>1 DEF Sound, Off
<1>2. IInv /\ [Next]_uploadVars =>
        [helper'.at = "open" /\ helper'.at # helper.at =>
           /\ helper.at = "off"
           /\ helper'.n \in seen.painted]_uploadVars
  <2> SUFFICES ASSUME IInv, Next
               PROVE  helper'.at = "open" /\ helper'.at # helper.at =>
                        helper.at = "off" /\ helper'.n \in seen.painted
    OBVIOUS
  <2>1. helper \in Helpers /\ Off \in Helpers /\ focus \in Focuses
    BY DEF IInv, TypeOK, Helpers
  <2>2. CASE Frame
    BY <1>1, <2>1, <2>2, FrameFacts
  <2>3. CASE Event
    BY <1>1, <2>1, <2>3, EventFacts
  <2>4. CASE Fetched
    BY <1>1, <2>1, <2>4, FetchedFacts
  <2>5. CASE HelperNext
    <3>1. helper'.at # "open"
      BY <2>1, <2>5, NeverReopened
    <3> QED BY <3>1
  <2>6. CASE Rewrite
    BY <2>6 DEF Rewrite
  <2> QED BY <2>2, <2>3, <2>4, <2>5, <2>6 DEF Next
<1> QED BY <1>2, Invariance, PTL DEF Spec, StartWarned

\* A URL is posted only if the target of its request stayed focused and online
\* and the user did not press Escape, from the start of the helper to its
\* answer (upload.bend retain, eligible).
THEOREM PostsUnbroken ==
    ASSUME UploadAssumption
    PROVE  Spec => PostedUnbroken
<1>1. IInv /\ [Next]_uploadVars =>
        [seen'.posted > seen.posted =>
           ~seen.left /\ helper.scope = focus.scope]_uploadVars
  <2> SUFFICES ASSUME IInv, Next, seen'.posted > seen.posted
               PROVE  ~seen.left /\ helper.scope = focus.scope
    OBVIOUS
  <2>1. seen.posted \in Nat
    BY DEF IInv, TypeOK, Seen
  <2>2. ~Frame /\ ~Event
    BY <2>1, FrameFacts, EventFacts
  <2>3. ~HelperNext /\ ~Rewrite
    BY <2>1 DEF HelperNext, OtherHelper, HelperFail, HelperOpen, HelperSend,
                HelperCheck, HelperFooter, HelperReply, Rewrite
  <2>4. Fetched
    BY <2>2, <2>3 DEF Next
  <2> QED BY <2>4, FetchedFacts DEF Eligible, IInv, Revoked
<1> QED BY <1>1, Invariance, PTL DEF Spec, PostedUnbroken
=============================================================================
