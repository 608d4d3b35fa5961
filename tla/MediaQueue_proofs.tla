-------------------------- MODULE MediaQueue_proofs --------------------------
(***************************************************************************)
(* For any servers, images, bounds and capacity: one image helper runs at  *)
(* a time, and it, the lease and the one active request agree.             *)
(***************************************************************************)
EXTENDS MediaQueue, FiniteSums

-----------------------------------------------------------------------------
(* What becomes of a queue's active request                                  *)

\* A queue has a field for its active request.
Shaped(q) == "active" \in DOMAIN q

\* r is what q becomes while it waits for the same request.
SameActive(q, r) == Shaped(r) /\ r.active = q.active

LEMMA EnqueueKeeps ==
    ASSUME NEW q, Shaped(q), NEW image
    PROVE  SameActive(q, Enqueue(q, image))
<1> DEFINE req == [kind |-> "work", image |-> image,
                   generation |-> q.generation, ticket |-> q.ticket]
           pending == PendingBound(Append(q.pending, req))
           ready == IF IsManual(image) THEN ReadyWithout(q.ready, image) ELSE q.ready
<1>1. CASE ~Wanted(q, image)
  BY <1>1 DEF SameActive, Enqueue
<1>2. CASE Wanted(q, image)
  <2>1. Enqueue(q, image) =
          [q EXCEPT !.ticket = @ + 1, !.pending = pending, !.ready = ready]
    BY <1>2 DEF Enqueue
  <2> HIDE DEF pending, ready
  <2> QED BY <2>1 DEF SameActive, Shaped
<1> QED BY <1>1, <1>2

-----------------------------------------------------------------------------
(* Enqueue folded over what is on screen                                     *)

\* The places before the last one.
Fewer(s) == s \ {Max(s)}

\* g[s] is the queue after the images at the places s of seq, in their order.
Enqueues(g, q, seq, S) ==
    g = [s \in SUBSET S |->
            IF s = {} THEN q ELSE Enqueue(g[Fewer(s)], seq[Max(s)])]

\* Places in a sequence.
Places(s) == \E n \in Nat : s \subseteq 1 .. n

\* A nonempty set of places has a last one.
LEMMA LastPlace ==
    ASSUME NEW s, s # {}, Places(s)
    PROVE  Max(s) \in s /\ Fewer(s) \subseteq s /\ Fewer(s) # s
<1>1. PICK n \in Nat : s \subseteq 1 .. n
  BY DEF Places
<1> DEFINE gaps == {n - k : k \in s}
<1>2. gaps \subseteq Nat /\ gaps # {}
  <2>1. \A k \in s : n - k \in Nat
    BY <1>1
  <2>2. PICK k \in s : TRUE
    OBVIOUS
  <2>3. n - k \in gaps
    OBVIOUS
  <2> QED BY <2>1, <2>3
<1>3. PICK g \in gaps : \A h \in gaps : ~(<<h, g>> \in OpToRel(<, Nat))
  <2> HIDE DEF gaps
  <2> QED BY <1>2, NatLessThanWellFounded, WFMin
<1>4. PICK k \in s : g = n - k
  OBVIOUS
<1>5. ASSUME NEW j \in s PROVE k >= j
  <2>1. n - j \in gaps /\ n - j \in Nat /\ g \in Nat
    BY <1>2
  <2>2. ~(n - j < g)
    <3> HIDE DEF gaps
    <3> QED BY <1>3, <2>1 DEF OpToRel
  <2> QED BY <1>1, <1>4, <2>2
<1>6. Max(s) \in s
  BY <1>5 DEF Max
<1> QED BY <1>6 DEF Fewer
LEMMA EnqueuesStep ==
    ASSUME NEW g, NEW q, NEW seq, NEW S, Enqueues(g, q, seq, S)
    PROVE  /\ g[{}] = q
           /\ \A s \in SUBSET S : s # {} => g[s] = Enqueue(g[Fewer(s)], seq[Max(s)])
BY DEF Enqueues

LEMMA PlacesFinite ==
    ASSUME NEW s, Places(s), NEW t, t \subseteq s
    PROVE  Places(t) /\ IsFiniteSet(t)
<1>1. PICK n \in Nat : s \subseteq 1 .. n
  BY DEF Places
<1>2. IsFiniteSet(1 .. n) /\ t \subseteq 1 .. n
  BY <1>1, FS_Interval
<1> QED BY <1>2, FS_Subset DEF Places

\* Two such functions agree where both are defined.
LEMMA EnqueuesAgree ==
    ASSUME NEW q, NEW seq, NEW S, Places(S), NEW U, U \subseteq S,
           NEW g, NEW h, Enqueues(g, q, seq, S), Enqueues(h, q, seq, U)
    PROVE  g[U] = h[U]
<1> DEFINE Bad == {s \in SUBSET U : g[s] # h[s]}
<1>1. SUFFICES ASSUME Bad # {} PROVE FALSE
  OBVIOUS
<1>2. \A s \in Bad : IsFiniteSet(s)
  BY PlacesFinite
<1>3. PICK s \in Bad : \A t \in Bad : ~(t \subseteq s /\ t # s)
  <2> HIDE DEF Bad
  <2> QED BY <1>1, <1>2, SmallestSet
<1>4. s \in SUBSET S /\ s \in SUBSET U /\ Places(s) /\ g[s] # h[s]
  BY PlacesFinite
<1>5. s # {}
  <2>1. g[{}] = q /\ h[{}] = q
    BY EnqueuesStep
  <2> QED BY <1>4, <2>1
<1>6. Fewer(s) \subseteq s /\ Fewer(s) # s
  BY <1>4, <1>5, LastPlace
<1>7. g[Fewer(s)] = h[Fewer(s)]
  <2>1. Fewer(s) \notin Bad
    <3> HIDE DEF Bad
    <3> QED BY <1>3, <1>6
  <2> QED BY <1>4, <1>6, <2>1
<1>8. /\ g[s] = Enqueue(g[Fewer(s)], seq[Max(s)])
      /\ h[s] = Enqueue(h[Fewer(s)], seq[Max(s)])
  <2>1. g[s] = Enqueue(g[Fewer(s)], seq[Max(s)])
    BY <1>4, <1>5 DEF Enqueues
  <2>2. h[s] = Enqueue(h[Fewer(s)], seq[Max(s)])
    BY <1>4, <1>5 DEF Enqueues
  <2> QED BY <2>1, <2>2
<1> QED BY <1>4, <1>7, <1>8

\* Such a function exists for any finite set of places.
LEMMA EnqueuesExist ==
    ASSUME NEW q, NEW seq, NEW S, Places(S)
    PROVE  \E g : Enqueues(g, q, seq, S)
<1> DEFINE Bad == {T \in SUBSET S : ~ \E g : Enqueues(g, q, seq, T)}
<1>1. SUFFICES ASSUME Bad # {} PROVE FALSE
  OBVIOUS
<1>2. \A s \in Bad : IsFiniteSet(s)
  BY PlacesFinite
<1>3. PICK T \in Bad : \A U \in Bad : ~(U \subseteq T /\ U # T)
  <2> HIDE DEF Bad
  <2> QED BY <1>1, <1>2, SmallestSet
<1>4. T \in SUBSET S /\ Places(T)
  BY PlacesFinite
<1> DEFINE fold(U) == CHOOSE g : Enqueues(g, q, seq, U)
           at(s) == IF s = {} THEN q
                    ELSE Enqueue(fold(Fewer(s))[Fewer(s)], seq[Max(s)])
           f == [s \in SUBSET T |-> at(s)]
<1>5. ASSUME NEW U \in SUBSET T, U # T PROVE Enqueues(fold(U), q, seq, U)
  BY <1>3, <1>5
<1>6. ASSUME NEW s \in SUBSET T, s # T PROVE fold(s)[s] = at(s)
  <2>1. Enqueues(fold(s), q, seq, s)
    BY <1>5, <1>6
  <2> HIDE DEF fold
  <2>2. fold(s)[{}] = q
    BY <2>1, EnqueuesStep
  <2>3. ASSUME s # {} PROVE fold(s)[s] = Enqueue(fold(s)[Fewer(s)], seq[Max(s)])
    <3> DEFINE g == fold(s)
    <3>1. Enqueues(g, q, seq, s)
      BY <2>1
    <3> HIDE DEF g
    <3>2. \A t \in SUBSET s : t # {} => g[t] = Enqueue(g[Fewer(t)], seq[Max(t)])
      BY <3>1, EnqueuesStep
    <3>3. g[s] = Enqueue(g[Fewer(s)], seq[Max(s)])
      BY <2>3, <3>2
    <3> QED BY <3>3 DEF g
  <2>4. ASSUME s # {} PROVE fold(s)[Fewer(s)] = fold(Fewer(s))[Fewer(s)]
    <3>1. Places(s) /\ Fewer(s) \subseteq s /\ Fewer(s) # s
      BY <1>4, <2>4, LastPlace, PlacesFinite
    <3>2. Enqueues(fold(Fewer(s)), q, seq, Fewer(s))
      BY <1>5, <1>6, <3>1
    <3> DEFINE g == fold(s)
               h == fold(Fewer(s))
               U == Fewer(s)
    <3>3. /\ Enqueues(g, q, seq, s) /\ Enqueues(h, q, seq, U)
          /\ Places(s) /\ U \subseteq s
      BY <2>1, <3>1, <3>2
    <3> HIDE DEF g, h, U, f, at, Bad
    <3>4. g[U] = h[U]
      BY <3>3, EnqueuesAgree
    <3> QED BY <3>4 DEF g, h, U
  <2> QED BY <2>2, <2>3, <2>4
<1>7. Enqueues(f, q, seq, T)
  <2>1. ASSUME NEW s \in SUBSET T
        PROVE  at(s) = IF s = {} THEN q ELSE Enqueue(f[Fewer(s)], seq[Max(s)])
    <3>1. CASE s = {}
      BY <3>1
    <3>2. CASE s # {}
      <4>1. Fewer(s) \in SUBSET T /\ Fewer(s) # T
        BY <1>4, <3>2, LastPlace, PlacesFinite
      <4>2. f[Fewer(s)] = at(Fewer(s))
        BY <4>1
      <4>3. at(Fewer(s)) = fold(Fewer(s))[Fewer(s)]
        BY <1>6, <4>1
      <4> HIDE DEF fold
      <4>4. at(s) = Enqueue(fold(Fewer(s))[Fewer(s)], seq[Max(s)])
        BY <3>2
      <4> HIDE DEF at, f
      <4> QED BY <3>2, <4>2, <4>3, <4>4
    <3> QED BY <3>1, <3>2
  <2> DEFINE e(s) == IF s = {} THEN q ELSE Enqueue(f[Fewer(s)], seq[Max(s)])
  <2>2. [s \in SUBSET T |-> at(s)] = [s \in SUBSET T |-> e(s)]
    <3>1. \A s \in SUBSET T : at(s) = e(s)
      BY <2>1
    <3> HIDE DEF at, e
    <3> QED BY <3>1
  <2>3. f = [s \in SUBSET T |-> e(s)]
    <3> HIDE DEF e, at
    <3> QED BY <2>2 DEF f
  <2> HIDE DEF f
  <2> QED BY <2>3 DEF e, Enqueues
<1> HIDE DEF f
<1> QED BY <1>3, <1>7

\* The fold keeps what a queue waits for.
LEMMA FoldKeeps ==
    ASSUME NEW q, Shaped(q), NEW seq, Places(DOMAIN seq)
    PROVE  SameActive(q, FoldLeft(Enqueue, q, seq))
<1> DEFINE S == DOMAIN seq
           g == CHOOSE h : Enqueues(h, q, seq, S)
<1>1. Places(S)
  OBVIOUS
<1>2. Enqueues(g, q, seq, S)
  <2>1. \E h : Enqueues(h, q, seq, S)
    BY <1>1, EnqueuesExist
  <2> QED BY <2>1
<1>3. FoldLeft(Enqueue, q, seq) = g[S]
  BY DEF FoldLeft, MapThenFoldSet, Enqueues, Fewer
<1> HIDE DEF S, g
<1> DEFINE Bad == {s \in SUBSET S : ~SameActive(q, g[s])}
<1>4. SUFFICES Bad = {}
  BY <1>3
<1>5. SUFFICES ASSUME Bad # {} PROVE FALSE
  OBVIOUS
<1>6. \A s \in Bad : IsFiniteSet(s)
  BY <1>1, PlacesFinite
<1>7. PICK s \in Bad : \A t \in Bad : ~(t \subseteq s /\ t # s)
  <2> HIDE DEF Bad
  <2> QED BY <1>5, <1>6, SmallestSet
<1>8. s \in SUBSET S /\ Places(s) /\ ~SameActive(q, g[s])
  BY <1>1, PlacesFinite
<1>9. s # {}
  <2>1. g[{}] = q
    BY <1>2, EnqueuesStep
  <2> QED BY <1>8, <2>1 DEF SameActive
<1>10. Fewer(s) \subseteq s /\ Fewer(s) # s
  BY <1>1, <1>8, <1>9, LastPlace
<1>11. SameActive(q, g[Fewer(s)])
  <2>1. Fewer(s) \notin Bad
    <3> HIDE DEF Bad
    <3> QED BY <1>7, <1>10
  <2> QED BY <1>8, <1>10, <2>1
<1>12. g[s] = Enqueue(g[Fewer(s)], seq[Max(s)])
  <2>1. \A t \in SUBSET S : t # {} => g[t] = Enqueue(g[Fewer(t)], seq[Max(t)])
    BY <1>2, EnqueuesStep
  <2> QED BY <1>8, <1>9, <2>1
<1>13. SameActive(g[Fewer(s)], g[s])
  BY <1>11, <1>12, EnqueueKeeps DEF SameActive
<1> QED BY <1>8, <1>11, <1>13 DEF SameActive

-----------------------------------------------------------------------------
(* The steps of a queue that leave its request alone                         *)

LEMMA ListsChange ==
    ASSUME NEW q, Shaped(q), NEW pending, NEW ready
    PROVE  SameActive(q, [q EXCEPT !.pending = pending, !.ready = ready])
BY DEF SameActive, Shaped

LEMMA MaintainKeeps ==
    ASSUME NEW q, Shaped(q), NEW v
    PROVE  SameActive(q, Maintain(q, v))
<1> DEFINE pending == SelectSeq(q.pending, LAMBDA r :
                          Alive(v, r.image) /\ (IsWork(r) => r.generation = q.generation))
           ready == SelectSeq(q.ready, LAMBDA e : Alive(v, e.image))
<1>1. Maintain(q, v) = [q EXCEPT !.pending = pending, !.ready = ready]
  BY DEF Maintain
<1> HIDE DEF pending, ready
<1>2. SameActive(q, [q EXCEPT !.pending = pending, !.ready = ready])
  BY ListsChange
<1> QED BY <1>1, <1>2

LEMMA CandidatesKeep ==
    ASSUME NEW q, Shaped(q), NEW chosen, Places(DOMAIN chosen)
    PROVE  SameActive(q, EnqueueCandidates(q, chosen))
<1> DEFINE images == Range(chosen)
           Preferred(e) == e.image \in images
           pending == SelectSeq(q.pending, LAMBDA r : r.kind # "soft" \/ r.image \notin images)
           ready == SelectSeq(q.ready, Preferred) \o SelectSeq(q.ready, LAMBDA e : ~Preferred(e))
           lifted == [q EXCEPT !.pending = pending, !.ready = ready]
<1>1. EnqueueCandidates(q, chosen) = FoldLeft(Enqueue, lifted, chosen)
  BY DEF EnqueueCandidates
<1>2. SameActive(q, lifted)
  <2> HIDE DEF pending, ready
  <2> QED BY ListsChange
<1> HIDE DEF lifted
<1>3. SameActive(lifted, FoldLeft(Enqueue, lifted, chosen))
  BY <1>2, FoldKeeps DEF SameActive
<1> QED BY <1>1, <1>2, <1>3 DEF SameActive

LEMMA ObserveKeeps ==
    ASSUME MediaAssumption, NEW q, Shaped(q), NEW v
    PROVE  SameActive(q, Observe(q, v))
<1> DEFINE kept == Maintain(q, v)
           chosen == Selected(kept, v.shown)
<1>1. SameActive(q, kept)
  BY MaintainKeeps
<1>2. Places(DOMAIN chosen)
  <2>1. DOMAIN chosen = {k \in 1 .. Cap : k <= Cardinality(v.shown)}
    BY DEF Selected
  <2>2. DOMAIN chosen \subseteq 1 .. Cap /\ Cap \in Nat
    BY <2>1 DEF MediaAssumption
  <2> QED BY <2>2 DEF Places
<1>3. Observe(q, v) = IF q.enabled THEN EnqueueCandidates(kept, chosen) ELSE kept
  BY DEF Observe
<1> HIDE DEF kept, chosen
<1>4. SameActive(kept, EnqueueCandidates(kept, chosen))
  BY <1>1, <1>2, CandidatesKeep DEF SameActive
<1> QED BY <1>1, <1>3, <1>4 DEF SameActive

LEMMA ResetKeeps ==
    ASSUME NEW q, Shaped(q)
    PROVE  SameActive(q, Reset(q)) /\ SameActive(q, [Reset(q) EXCEPT !.enabled = ~@])
<1>1. SameActive(q, Reset(q))
  <2> DEFINE r == [q EXCEPT !.pending = <<>>, !.ready = <<>>]
             g == q.generation + 1
  <2>1. SameActive(q, r) /\ Reset(q) = [r EXCEPT !.generation = g]
    BY ListsChange DEF Reset, Shaped
  <2> HIDE DEF r, g
  <2> QED BY <2>1 DEF SameActive, Shaped
<1>2. SameActive(Reset(q), [Reset(q) EXCEPT !.enabled = ~@])
  BY <1>1 DEF SameActive, Shaped
<1> QED BY <1>1, <1>2 DEF SameActive

-----------------------------------------------------------------------------
(* The invariant                                                             *)

JobOf(l, fresh) ==
    [part |-> l.part, generation |-> l.req.generation, ticket |-> l.req.ticket,
     fresh |-> fresh]

\* Every queue of m waits for nothing but the request of the lease l.
Waits(m, l) ==
    /\ m = [p \in Servers |-> m[p]]
    /\ \A p \in Servers : /\ Shaped(m[p])
                        /\ m[p].active = IF l.part = p THEN l.req ELSE NoRequest

\* The helpers of j are the one that the lease is for.
Runs(l, j) ==
    \/ l = NoLease /\ j = {}
    \/ /\ l.part \in Servers /\ IsWork(l.req)
       /\ \E fresh : j = {JobOf(l, fresh)}

OneHelper == cur \in Servers /\ Waits(media, lease) /\ Runs(lease, fetches)

LEMMA LeaseTaken ==
    ASSUME MediaAssumption, NEW l
    PROVE  /\ l.part \in Servers => l # NoLease
           /\ \A p \in Servers : NoLease.part # p
           /\ ~IsWork(NoRequest)
BY DEF MediaAssumption, NoLease, NoRequest, Fence, IsWork

\* A queue that waits for what it waited for may take the place of another.
LEMMA WaitsPut ==
    ASSUME NEW m, NEW l, Waits(m, l), NEW p \in Servers, NEW q, SameActive(m[p], q)
    PROVE  Waits([m EXCEPT ![p] = q], l)
<1> DEFINE n == [m EXCEPT ![p] = q]
<1>1. n[p] = q /\ \A r \in Servers \ {p} : n[r] = m[r]
  BY DEF Waits
<1>2. n = [r \in Servers |-> n[r]]
  BY DEF Waits
<1> HIDE DEF n
<1> QED BY <1>1, <1>2 DEF Waits, SameActive, n

\* What a stage makes of queues, a lease and helpers that agree, agrees.
LEMMA StageOwned ==
    ASSUME MediaAssumption, cur' \in Servers,
           NEW m, NEW l, NEW j, Waits(m, l), Runs(l, j), Stage(m, l, j)
    PROVE  OneHelper'
<1> DEFINE v == view'[cur']
<1>1. PICK q : /\ q = Maintain(Observe(m[cur'], v), v)
               /\ IF l = NoLease /\ ~IsWork(q.active) /\ IsWork(NextWork(q))
                  THEN /\ media' = [m EXCEPT ![cur'] = TakeJob(q)]
                       /\ lease' = [part |-> cur', slot |-> slot'[cur'].gen,
                                    req |-> NextWork(q)]
                       /\ fetches' = j \cup {[part |-> cur',
                                           generation |-> NextWork(q).generation,
                                           ticket |-> NextWork(q).ticket, fresh |-> TRUE]}
                  ELSE media' = [m EXCEPT ![cur'] = q] /\ lease' = l /\ fetches' = j
  BY DEF Stage
<1>2. SameActive(m[cur'], q)
  <2> DEFINE o == Observe(m[cur'], v)
  <2>1. SameActive(m[cur'], o)
    BY ObserveKeeps DEF Waits
  <2> HIDE DEF o
  <2>2. SameActive(o, Maintain(o, v))
    BY <2>1, MaintainKeeps DEF SameActive
  <2> QED BY <1>1, <2>1, <2>2 DEF SameActive, o
<1> HIDE DEF v
<1>3. CASE l = NoLease /\ ~IsWork(q.active) /\ IsWork(NextWork(q))
  <2> DEFINE req == NextWork(q)
             n == [m EXCEPT ![cur'] = TakeJob(q)]
             pending == RemoveFirst(q.pending, req)
  <2>1. lease'.part = cur' /\ lease'.req = req
    BY <1>1, <1>3
  <2>2. j = {}
    BY <1>3, LeaseTaken DEF Runs
  <2>3. Runs(lease', fetches')
    <3>1. fetches' = {JobOf(lease', TRUE)}
      BY <1>1, <1>3, <2>1, <2>2 DEF JobOf
    <3> QED BY <1>3, <2>1, <3>1 DEF Runs
  <2>4. Shaped(TakeJob(q)) /\ TakeJob(q).active = req
    <3>1. TakeJob(q) = [q EXCEPT !.active = req, !.pending = pending]
      BY DEF TakeJob
    <3> HIDE DEF req, pending
    <3> QED BY <1>2, <3>1 DEF SameActive, Shaped
  <2>5. media' = n
    BY <1>1, <1>3
  <2>6. \A p \in Servers : m[p].active = NoRequest
    BY <1>3, LeaseTaken DEF Waits
  <2>7. n = [p \in Servers |-> n[p]]
    BY DEF Waits
  <2>8. n[cur'] = TakeJob(q) /\ \A p \in Servers \ {cur'} : n[p] = m[p]
    BY DEF Waits
  <2> HIDE DEF req, n
  <2>9. Waits(media', lease')
    BY <2>1, <2>4, <2>5, <2>6, <2>7, <2>8 DEF Waits
  <2> QED BY <2>3, <2>9 DEF OneHelper, Waits, Runs, JobOf, Shaped
<1>4. CASE ~(l = NoLease /\ ~IsWork(q.active) /\ IsWork(NextWork(q)))
  <2>1. media' = [m EXCEPT ![cur'] = q] /\ lease' = l /\ fetches' = j
    BY <1>1, <1>4
  <2>2. Waits(media', lease')
    BY <1>2, <2>1, WaitsPut
  <2>3. Runs(lease', fetches')
    BY <2>1
  <2> QED BY <2>2, <2>3 DEF OneHelper, Waits, Runs, JobOf, Shaped
<1> QED BY <1>3, <1>4

-----------------------------------------------------------------------------
(* The steps                                                                 *)

LEMMA InitOwned ==
    ASSUME MediaAssumption, MediaInit
    PROVE  OneHelper
<1>1. Waits(media, lease)
  <2>1. media = [p \in Servers |-> EmptyQueue] /\ lease = NoLease
    BY DEF MediaInit
  <2>2. Shaped(EmptyQueue) /\ EmptyQueue.active = NoRequest
    BY DEF Shaped, EmptyQueue
  <2>3. \A p \in Servers : media[p] = EmptyQueue /\ lease.part # p
    BY <2>1, LeaseTaken
  <2>4. media = [p \in Servers |-> media[p]]
    BY <2>1
  <2> QED BY <2>2, <2>3, <2>4 DEF Waits
<1>2. Runs(lease, fetches) /\ cur \in Servers
  BY DEF MediaInit, Runs
<1> QED BY <1>1, <1>2 DEF OneHelper

LEMMA PostOwned ==
    ASSUME MediaAssumption, OneHelper, cur' \in Servers,
           NEW p \in Servers, NEW q, SameActive(media[p], q), Post(p, q)
    PROVE  OneHelper'
<1> DEFINE m == [media EXCEPT ![p] = q]
<1>1. Waits(m, lease) /\ Runs(lease, fetches)
  BY WaitsPut DEF OneHelper
<1>2. Stage(m, lease, fetches)
  BY DEF Post
<1> HIDE DEF m
<1> QED BY <1>1, <1>2, StageOwned

\* A queue that was cleared still waits for the helper that runs on.
LEMMA PostClearedOwned ==
    ASSUME MediaAssumption, OneHelper, cur' \in Servers,
           NEW p \in Servers, NEW q, SameActive(media[p], q), PostCleared(p, q)
    PROVE  OneHelper'
<1> DEFINE m == [media EXCEPT ![p] = q]
           Cleared(j) == [j EXCEPT !.fresh = @ /\ j.part # p]
           stale == {Cleared(j) : j \in fetches}
<1>1. Waits(m, lease)
  BY WaitsPut DEF OneHelper
<1>2. Runs(lease, stale)
  <2>1. CASE lease = NoLease /\ fetches = {}
    BY <2>1 DEF Runs
  <2>2. ASSUME NEW fresh, fetches = {JobOf(lease, fresh)}
        PROVE  \E now : stale = {JobOf(lease, now)}
    <3> DEFINE now == fresh /\ lease.part # p
    <3>1. Cleared(JobOf(lease, fresh)) = JobOf(lease, now)
      BY DEF JobOf
    <3> HIDE DEF Cleared, now
    <3> QED BY <2>2, <3>1
  <2> HIDE DEF stale
  <2> QED BY <2>1, <2>2 DEF OneHelper, Runs
<1>3. Stage(m, lease, stale)
  BY DEF PostCleared
<1> HIDE DEF m, stale
<1> QED BY <1>1, <1>2, <1>3, StageOwned

\* A queue that gives up its request gives back the lease and the helper.
LEMMA Released ==
    ASSUME MediaAssumption, OneHelper, NEW job \in fetches
    PROVE  /\ job.part \in Servers /\ lease.part = job.part
           /\ Owns(media[job.part], job)
           /\ Runs(NoLease, fetches \ {job})
           /\ \A q : Shaped(q) /\ q.active = NoRequest =>
                       Waits([media EXCEPT ![job.part] = q], NoLease)
<1>1. PICK fresh : /\ lease.part \in Servers /\ IsWork(lease.req)
                   /\ fetches = {JobOf(lease, fresh)}
  BY DEF OneHelper, Runs
<1>2. /\ job.part = lease.part /\ job.generation = lease.req.generation
      /\ job.ticket = lease.req.ticket
  BY <1>1 DEF JobOf
<1>3. media[job.part].active = lease.req
  BY <1>1, <1>2 DEF OneHelper, Waits
<1>4. Owns(media[job.part], job)
  BY <1>1, <1>2, <1>3 DEF Owns
<1>5. Runs(NoLease, fetches \ {job})
  BY <1>1 DEF Runs
<1>6. ASSUME NEW q, Shaped(q), q.active = NoRequest
      PROVE  Waits([media EXCEPT ![job.part] = q], NoLease)
  <2> DEFINE n == [media EXCEPT ![job.part] = q]
  <2>1. n = [p \in Servers |-> n[p]]
    BY DEF OneHelper, Waits
  <2>2. n[job.part] = q /\ \A p \in Servers \ {job.part} : n[p] = media[p]
    BY <1>1, <1>2 DEF OneHelper, Waits
  <2>3. \A p \in Servers \ {job.part} : Shaped(media[p]) /\ media[p].active = NoRequest
    BY <1>2 DEF OneHelper, Waits
  <2> HIDE DEF n
  <2>4. Waits(n, NoLease)
    BY <1>6, <2>1, <2>2, <2>3, LeaseTaken DEF Waits
  <2> QED BY <2>4 DEF n
<1> QED BY <1>1, <1>2, <1>4, <1>5, <1>6

\* What an answer leaves of the queue that waited for it.
LEMMA AnswerReleases ==
    ASSUME NEW q, Shaped(q), NEW job, Owns(q, job), NEW t
    PROVE  /\ Shaped(Complete(q, t)) /\ Complete(q, t).active = NoRequest
           /\ Shaped(Reject(q, job)) /\ Reject(q, job).active = NoRequest
           /\ Shaped(RejectFull(q)) /\ RejectFull(q).active = NoRequest
<1>1. ASSUME NEW pending, NEW ready
      PROVE  LET r == [q EXCEPT !.active = NoRequest, !.pending = pending, !.ready = ready]
             IN Shaped(r) /\ r.active = NoRequest
  BY DEF Shaped
<1>2. Shaped(Complete(q, t)) /\ Complete(q, t).active = NoRequest
  <2> DEFINE ready == CompleteReady(q.ready, q.active.image, t)
  <2>1. Complete(q, t) = [q EXCEPT !.active = NoRequest, !.ready = ready]
    BY DEF Complete
  <2> HIDE DEF ready
  <2> QED BY <2>1 DEF Shaped
<1>3. Shaped(Reject(q, job)) /\ Reject(q, job).active = NoRequest
  <2> DEFINE pending == PendingBound(<<Fence("soft", q.active.image)>>
                                         \o Without(q.pending, "soft", q.active.image))
  <2>1. Reject(q, job) = [q EXCEPT !.active = NoRequest, !.pending = pending]
    BY DEF Reject
  <2> HIDE DEF pending
  <2> QED BY <2>1 DEF Shaped
<1>4. Shaped(RejectFull(q)) /\ RejectFull(q).active = NoRequest
  <2> DEFINE image == q.active.image
             room == Room(ReadyWithout(q.ready, image))
             others == Without(q.pending, "sticky", image)
             shown == <<Entry(image, 0)>> \o room
             fenced == PendingBound(<<Fence("sticky", image)>> \o others)
  <2>1. \/ RejectFull(q) =
             [q EXCEPT !.active = NoRequest, !.pending = others, !.ready = shown]
        \/ RejectFull(q) =
             [q EXCEPT !.active = NoRequest, !.ready = room, !.pending = fenced]
    BY DEF RejectFull
  <2> HIDE DEF room, others, shown, fenced
  <2> QED BY <2>1 DEF Shaped
<1> QED BY <1>2, <1>3, <1>4

LEMMA ResultOwned ==
    ASSUME MediaAssumption, OneHelper, NEW job \in fetches,
           StaleResult(job) \/ LiveResult(job)
    PROVE  OneHelper'
<1> DEFINE p == job.part
           q == media[p]
<1>1. /\ p \in Servers /\ Owns(q, job) /\ Shaped(q) /\ Runs(NoLease, fetches \ {job})
      /\ \A r : Shaped(r) /\ r.active = NoRequest => Waits([media EXCEPT ![p] = r], NoLease)
  BY Released DEF OneHelper, Waits
<1>2. cur' \in Servers
  BY DEF OneHelper, StaleResult, LiveResult
<1>3. CASE StaleResult(job)
  <2>1. /\ media' = [media EXCEPT ![p] = Reject(q, job)]
        /\ lease' = NoLease /\ fetches' = fetches \ {job}
    BY <1>3 DEF StaleResult
  <2>2. Shaped(Reject(q, job)) /\ Reject(q, job).active = NoRequest
    BY <1>1, AnswerReleases
  <2> HIDE DEF p, q
  <2>3. Waits(media', lease')
    BY <1>1, <2>1, <2>2
  <2>4. Runs(lease', fetches')
    BY <1>1, <2>1
  <2> QED BY <1>2, <2>3, <2>4 DEF OneHelper, Waits, Runs, JobOf, Shaped
<1>4. CASE LiveResult(job)
  <2> DEFINE Freed(r) == Shaped(r) /\ r.active = NoRequest
  <2>1. \E r : Freed(r) /\ Stage([media EXCEPT ![p] = r], NoLease, fetches \ {job})
    <3>1. CASE Admitted(job)
      <4>1. PICK t : Stage([media EXCEPT ![p] = Complete(q, t)], NoLease, fetches \ {job})
        BY <3>1 DEF Admitted
      <4>2. Freed(Complete(q, t))
        BY <1>1, AnswerReleases
      <4> QED BY <4>1, <4>2
    <3>2. ASSUME NEW r, r \in {Reject(q, job), RejectFull(q)}, Declined(job, r)
          PROVE  Freed(r) /\ Stage([media EXCEPT ![p] = r], NoLease, fetches \ {job})
      <4>1. Freed(r)
        BY <1>1, <3>2, AnswerReleases
      <4> QED BY <3>2, <4>1 DEF Declined
    <3> QED BY <1>4, <3>1, <3>2 DEF LiveResult
  <2> HIDE DEF p, q
  <2> QED BY <1>1, <1>2, <2>1, StageOwned
<1> QED BY <1>3, <1>4

LEMMA NextOwned ==
    ASSUME MediaAssumption, OneHelper, [MediaNext]_mediaVars
    PROVE  OneHelper'
<1>1. ASSUME NEW p \in Servers, NEW v, Shows(p, v), UNCHANGED cur
      PROVE  OneHelper'
  <2>1. Post(p, Maintain(media[p], v))
    BY <1>1 DEF Shows
  <2>2. SameActive(media[p], Maintain(media[p], v))
    BY MaintainKeeps DEF OneHelper, Waits
  <2> QED BY <1>1, <2>1, <2>2, PostOwned DEF OneHelper
<1>2. \A p \in Servers : /\ SameActive(media[p], media[p])
                       /\ SameActive(media[p], Reset(media[p]))
                       /\ SameActive(media[p], [Reset(media[p]) EXCEPT !.enabled = ~@])
  <2>1. \A p \in Servers : Shaped(media[p])
    BY DEF OneHelper, Waits
  <2> QED BY <2>1, ResetKeeps DEF SameActive
<1>3. cur \in Servers
  BY DEF OneHelper
<1>4. CASE UNCHANGED mediaVars
  BY <1>4 DEF mediaVars, OneHelper, Waits, Runs, JobOf, Shaped
<1>5. ASSUME NEW p \in Servers, LineArrives(p) PROVE OneHelper'
  <2>1. \E v : Shows(p, v)
    BY <1>5 DEF LineArrives
  <2> QED BY <1>1, <1>5, <2>1 DEF LineArrives
<1>6. ASSUME NEW p \in Servers, LineGoes(p) PROVE OneHelper'
  <2>1. \E v : Shows(p, v)
    BY <1>6 DEF LineGoes
  <2> QED BY <1>1, <1>6, <2>1 DEF LineGoes
<1>7. ASSUME NEW p \in Servers, Lost(p) PROVE OneHelper'
  BY <1>2, <1>3, <1>7, PostClearedOwned DEF Lost
<1>8. ASSUME NEW p \in Servers, Redial(p) PROVE OneHelper'
  BY <1>2, <1>3, <1>8, PostOwned DEF Redial
<1>9. CASE Scroll
  <2>1. \E v : Shows(cur, v)
    BY <1>9 DEF Scroll
  <2> QED BY <1>1, <1>3, <1>9, <2>1 DEF Scroll
<1>10. CASE Preview
  <2>1. PICK source, v : Post(cur, Maintain(Enqueue(Maintain(media[cur], v), source), v))
    BY <1>10 DEF Preview
  <2> DEFINE a == Maintain(media[cur], v)
             b == Enqueue(a, source)
             c == Maintain(b, v)
  <2>2. SameActive(media[cur], a)
    BY <1>2, <1>3, MaintainKeeps DEF SameActive
  <2>3. SameActive(a, b)
    BY <2>2, EnqueueKeeps DEF SameActive
  <2>4. SameActive(b, c)
    BY <2>3, MaintainKeeps DEF SameActive
  <2>5. Post(cur, c) /\ cur' \in Servers
    BY <1>3, <1>10, <2>1 DEF Preview
  <2> HIDE DEF a, b, c
  <2>6. SameActive(media[cur], c)
    BY <2>2, <2>3, <2>4 DEF SameActive
  <2> QED BY <1>3, <2>5, <2>6, PostOwned
<1>11. CASE Images
  BY <1>2, <1>3, <1>11, PostClearedOwned DEF Images
<1>12. CASE Switch
  BY <1>2, <1>3, <1>12, PostOwned DEF Switch
<1>13. CASE DialCurrent
  BY <1>2, <1>3, <1>13, PostClearedOwned DEF DialCurrent
<1>14. ASSUME NEW job \in fetches, StaleResult(job) \/ LiveResult(job) PROVE OneHelper'
  BY <1>14, ResultOwned
<1> QED BY <1>4, <1>5, <1>6, <1>7, <1>8, <1>9, <1>10, <1>11, <1>12, <1>13, <1>14 DEF MediaNext

\* One helper runs at a time, and it, the lease and the one request a queue
\* waits for agree, through every order of resets, redials, switches of server
\* and answers: no result is lost on the queue that waits for it, and no queue
\* waits for a result that cannot come (wsnet.bend, ws_media.got).
THEOREM OneHelperOwned ==
    ASSUME MediaAssumption
    PROVE  MediaSpec => []HelperOwned
<1>1. MediaInit => OneHelper
  BY InitOwned
<1>2. OneHelper /\ [MediaNext]_mediaVars => OneHelper'
  BY NextOwned
<1>3. OneHelper => HelperOwned
  <2> SUFFICES ASSUME OneHelper PROVE HelperOwned
    OBVIOUS
  <2>1. \A p \in Servers : media[p].active = IF lease.part = p THEN lease.req ELSE NoRequest
    BY DEF OneHelper, Waits
  <2>2. CASE lease = NoLease /\ fetches = {}
    BY <2>1, <2>2, FS_EmptySet DEF HelperOwned
  <2>3. ASSUME lease.part \in Servers, NEW fresh, fetches = {JobOf(lease, fresh)}
        PROVE  HelperOwned
    <3>1. lease # NoLease
      BY <2>3, LeaseTaken
    <3>2. Cardinality(fetches) = 1
      BY <2>3, FS_Singleton
    <3>3. \A job \in fetches : LeaseExact(job)
      BY <2>3, <3>1 DEF LeaseExact, JobOf
    <3> QED BY <2>1, <3>1, <3>2, <3>3 DEF HelperOwned
  <2> QED BY <2>2, <2>3 DEF OneHelper, Runs
<1> QED BY <1>1, <1>2, <1>3, PTL DEF MediaSpec
=============================================================================
