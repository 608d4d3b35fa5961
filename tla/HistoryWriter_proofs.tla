------------------------- MODULE HistoryWriter_proofs -------------------------
(***************************************************************************)
(* Theorems about the history save path, for every number of servers,      *)
(* rows, channel slots and failures.                                       *)
(***************************************************************************)
EXTENDS HistoryWriter, FiniteSums

-----------------------------------------------------------------------------
(* Finite sets of numbers                                                  *)

LEMMA FiniteMax ==
    ASSUME NEW S \in SUBSET Nat, IsFiniteSet(S), S # {}
    PROVE  \E m \in S : \A k \in S : m >= k
<1> DEFINE Above(m) == {x \in S : x > m}
           C == {Above(m) : m \in S}
<1>1. \A B \in C : IsFiniteSet(B)
  BY FS_Subset
<1>2. C # {}
  OBVIOUS
<1>3. PICK B \in C : \A A \in C : ~(A \subseteq B /\ A # B)
  <2> HIDE DEF C
  <2> QED BY <1>1, <1>2, SmallestSet
<1>4. PICK m \in S : B = Above(m)
  OBVIOUS
<1>5. ASSUME NEW k \in S, k > m PROVE FALSE
  <2>1. Above(k) \subseteq Above(m) /\ k \in Above(m) /\ k \notin Above(k)
    <3>1. \A x \in S : x \in Nat
      OBVIOUS
    <3>2. \A x \in S : x > k => x > m
      BY <1>5, <3>1
    <3>3. Above(k) \subseteq Above(m)
      BY <3>2
    <3>4. k \in Above(m)
      BY <1>5
    <3>5. ~(k > k)
      BY <3>1
    <3>6. k \notin Above(k)
      BY <3>5
    <3> QED BY <3>3, <3>4, <3>6
  <2>2. Above(k) \in C
    OBVIOUS
  <2> HIDE DEF Above, C
  <2> QED BY <1>3, <1>4, <2>1, <2>2
<1> QED BY <1>5

\* The image of a finite set is finite.
LEMMA FiniteImage ==
    ASSUME NEW S, IsFiniteSet(S), NEW f, f \in [S -> {f[x] : x \in S}]
    PROVE  IsFiniteSet({f[x] : x \in S})
<1> DEFINE T == {f[x] : x \in S}
<1>1. f \in Surjection(S, T)
  BY DEF Surjection
<1> QED BY <1>1, FS_Surjection

\* The highest id of a part: not below its floor, nor any row it stores.
LEMMA TopIsMax ==
    ASSUME NEW p \in Parts, log[p] \in Nat, IsFiniteSet(rows[p]),
           \A row \in rows[p] : IdOf(row) \in Nat
    PROVE  /\ Top(p) \in Nat /\ Top(p) >= log[p]
           /\ \A row \in rows[p] : Top(p) >= IdOf(row)
           /\ Top(p) = log[p] \/ \E row \in rows[p] : Top(p) = IdOf(row)
<1> DEFINE Ids == {IdOf(row) : row \in rows[p]}
           S == {log[p]} \cup Ids
           f == [row \in rows[p] |-> IdOf(row)]
<1>1. IsFiniteSet(Ids)
  <2>1. f \in [rows[p] -> {f[x] : x \in rows[p]}] /\ {f[x] : x \in rows[p]} = Ids
    OBVIOUS
  <2> HIDE DEF f, Ids
  <2> QED BY <2>1, FiniteImage
<1>2. IsFiniteSet(S) /\ S \in SUBSET Nat /\ S # {}
  <2>1. IsFiniteSet({log[p]})
    BY FS_Singleton
  <2> QED BY <1>1, <2>1, FS_Union
<1>3. \E m \in S : \A k \in S : m >= k
  <2> HIDE DEF S
  <2> QED BY <1>2, FiniteMax
<1>4. Top(p) \in S /\ \A k \in S : Top(p) >= k
  BY <1>3 DEF Top, Max
<1> QED BY <1>2, <1>4

-----------------------------------------------------------------------------
(* Extraction                                                              *)

\* ById lists every row of a finite set whose ids differ, by ascending id.
LEMMA ByIdLists ==
    ASSUME NEW set, IsFiniteSet(set), \A row \in set : IdOf(row) \in Nat,
           \A a, b \in set : IdOf(a) = IdOf(b) => a = b
    PROVE  /\ ById(set) \in Seq(set)
           /\ \A row \in set : \E k \in DOMAIN ById(set) : ById(set)[k] = row
           /\ \A i, j \in DOMAIN ById(set) :
                  i < j => IdOf(ById(set)[i]) < IdOf(ById(set)[j])
<1> DEFINE n == Cardinality(set)
           UpTo(row) == {r \in set : IdOf(r) <= IdOf(row)}
           rank == [row \in set |-> Cardinality(UpTo(row))]
           s == ById(set)
<1>1. \A row \in set : IsFiniteSet(UpTo(row)) /\ UpTo(row) \subseteq set
  BY FS_Subset
<1>2. n \in Nat /\ \A row \in set : rank[row] \in 1 .. n
  <2>1. n \in Nat
    BY FS_CardinalityType
  <2>2. ASSUME NEW row \in set PROVE rank[row] \in 1 .. n
    <3>1. row \in UpTo(row)
      OBVIOUS
    <3>2. rank[row] = Cardinality(UpTo(row)) /\ rank[row] \in Nat /\ rank[row] <= n
      BY <1>1, FS_CardinalityType, FS_Subset
    <3>3. rank[row] # 0
      <4> HIDE DEF UpTo
      <4> QED BY <1>1, <3>1, <3>2, FS_EmptySet
    <3> QED BY <2>1, <3>2, <3>3
  <2> QED BY <2>1, <2>2
<1>3. ASSUME NEW a \in set, NEW b \in set, IdOf(a) < IdOf(b)
      PROVE  rank[a] < rank[b]
  <2>1. UpTo(a) \subseteq UpTo(b) /\ b \in UpTo(b) /\ b \notin UpTo(a)
    BY <1>3
  <2>2. Cardinality(UpTo(a)) <= Cardinality(UpTo(b))
        /\ Cardinality(UpTo(a)) # Cardinality(UpTo(b))
    <3> HIDE DEF UpTo
    <3> QED BY <1>1, <2>1, FS_Subset
  <2>3. Cardinality(UpTo(a)) \in Nat /\ Cardinality(UpTo(b)) \in Nat
    BY <1>1, FS_CardinalityType
  <2> HIDE DEF UpTo
  <2> QED BY <2>2, <2>3
<1>4. \A a, b \in set : rank[a] = rank[b] => a = b
  <2> SUFFICES ASSUME NEW a \in set, NEW b \in set, rank[a] = rank[b] PROVE a = b
    OBVIOUS
  <2>1. ~(IdOf(a) < IdOf(b)) /\ ~(IdOf(b) < IdOf(a))
    <3> HIDE DEF rank
    <3> QED BY <1>2, <1>3
  <2> QED BY <2>1
<1> HIDE DEF rank
<1>5. rank \in Surjection(set, 1 .. n)
  <2>1. rank \in Injection(set, 1 .. n)
    <3>1. rank \in [set -> 1 .. n]
      BY <1>2 DEF rank
    <3> QED BY <1>4, <3>1 DEF Injection, IsInjective
  <2>2. IsFiniteSet(1 .. n) /\ Cardinality(1 .. n) = n
    BY <1>2, FS_Interval
  <2> QED BY <2>1, <2>2, FS_Injection
<1>6. \A k \in 1 .. n : \E row \in set : rank[row] = k
  BY <1>5 DEF Surjection
<1>7. DOMAIN s = 1 .. n /\ \A k \in 1 .. n : s[k] \in set /\ rank[s[k]] = k
  <2>1. s = [k \in 1 .. n |-> CHOOSE row \in set : Cardinality(UpTo(row)) = k]
    BY DEF ById
  <2>2. \A k \in 1 .. n : \E row \in set : Cardinality(UpTo(row)) = k
    BY <1>6 DEF rank
  <2> HIDE DEF UpTo, s, n
  <2>3. ASSUME NEW k \in 1 .. n
        PROVE  s[k] \in set /\ Cardinality(UpTo(s[k])) = k
    BY <2>1, <2>2, <2>3
  <2> QED BY <2>1, <2>3 DEF rank
<1> HIDE DEF s, n
<1>8. s \in Seq(set)
  <2>1. s = [k \in 1 .. n |-> s[k]]
    BY DEF s, n, ById
  <2> QED BY <1>2, <1>7, <2>1
<1>9. \A row \in set : s[rank[row]] = row
  BY <1>2, <1>4, <1>7
<1>10. \A i, j \in 1 .. n : i < j => IdOf(s[i]) < IdOf(s[j])
  <2> SUFFICES ASSUME NEW i \in 1 .. n, NEW j \in 1 .. n, i < j
               PROVE  IdOf(s[i]) < IdOf(s[j])
    OBVIOUS
  <2>1. s[i] \in set /\ s[j] \in set /\ rank[s[i]] = i /\ rank[s[j]] = j
    BY <1>7
  <2>2. ~(IdOf(s[j]) < IdOf(s[i]))
    BY <1>2, <1>3, <2>1
  <2>3. IdOf(s[i]) # IdOf(s[j])
    BY <2>1
  <2> QED BY <2>1, <2>2, <2>3
<1> QED BY <1>2, <1>7, <1>8, <1>9, <1>10 DEF s

-----------------------------------------------------------------------------
(* The invariant                                                           *)

Rows == Nat \X Nat
IdRange(p) == IdBase(p) .. IdCeiling(p) - 1
Marked(r) == r.base \in IdRange(r.part) /\ r.seq \in IdRange(r.part)

Pends == [rows : Seq(Rows), part : Parts, base : Nat, seq : Nat]
Saves == [kind : {"job"}, rows : Seq(Rows), part : Parts, base : Nat, seq : Nat]
JobSet == Saves \cup {Stop, Barrier}
Acks == [kind : {"ack"}, part : Parts, seq : Nat]
Diags == [kind : {"diag"}, rows : Seq(Rows), part : Parts, base : Nat, seq : Nat]
Msgs == Acks \cup Diags \cup {[kind |-> "done"], [kind |-> "net"]}

Dialing == {"flush", "barrier", "fence", "append"}
UiSet ==
    [pc : {"loop", "end", "expired"}]
    \cup [pc : Dialing, part : Parts, rows : SUBSET Rows, seq : Nat,
          hold : Nat, data : Seq(Rows)]
    \cup [pc : {"drain"}, left : Seq(JobSet)]
WorkerSet == [pc : {"recv", "gone"}] \cup [pc : {"report"}, msg : Msgs]

\* What a client stores: finitely many rows of its own range, under ids that differ.
Stored(set, p) ==
    /\ set \in SUBSET Rows /\ IsFiniteSet(set)
    /\ \A row \in set : InRange(row, p)
    /\ \A a, b \in set : IdOf(a) = IdOf(b) => a = b

MsgMarked(m) ==
    /\ m.kind = "ack" => m.seq \in IdRange(m.part)
    /\ m.kind = "diag" => Marked(m)

TypeInv ==
    /\ log \in [Parts -> Nat] /\ \A p \in Parts : log[p] \in IdRange(p)
    /\ rows \in [Parts -> SUBSET Rows] /\ \A p \in Parts : Stored(rows[p], p)
    /\ ep \in [Parts -> Nat] /\ hold \in Nat /\ fails \in Nat
    /\ pend \in Pends /\ Marked(pend)
    /\ jobs \in Seq(JobSet)
    /\ \A i \in DOMAIN jobs : jobs[i].kind = "job" => Marked(jobs[i])
    /\ main \in Seq(Msgs) /\ \A i \in DOMAIN main : MsgMarked(main[i])
    /\ worker \in WorkerSet /\ (worker.pc = "report" => MsgMarked(worker.msg))
    /\ ui \in UiSet
    /\ ui.pc \in Dialing => /\ Stored(ui.rows, ui.part)
                            /\ ui.seq \in IdRange(ui.part)
    /\ file \in Seq(Rows)

\* The stop is the last job there is, and the worker's end the last of it.
NoStop ==
    /\ \A i \in DOMAIN jobs : jobs[i].kind # "stop"
    /\ worker.pc # "gone"
    /\ worker.pc = "report" => worker.msg.kind # "done"

StopInv ==
    /\ ui.pc \notin {"drain", "end", "expired"} => NoStop
    /\ ui.pc = "drain" =>
           /\ ui.left \in {<<>>, <<Stop>>, <<Job(pend), Stop>>}
           /\ ui.left # <<>> => NoStop
    /\ \A i \in DOMAIN jobs : jobs[i].kind = "stop" => i = Len(jobs)
    /\ worker.pc = "gone" => jobs = <<>>
    /\ (worker.pc = "report" /\ worker.msg.kind = "done") => jobs = <<>>
    /\ (\E i \in DOMAIN main : main[i].kind = "done") => worker.pc = "gone"
    /\ ui.pc = "end" => worker.pc = "gone"

\* While the loop waits for its barrier nothing is queued behind it.
FenceInv ==
    /\ \A i \in DOMAIN jobs :
           jobs[i].kind = "barrier" => i = Len(jobs) /\ ui.pc = "fence"
    /\ ui.pc = "fence" => jobs # <<>> /\ jobs[Len(jobs)].kind = "barrier"
    /\ ui.pc = "append" => jobs = <<>>

\* Without a failure no report carries rows, and none runs ahead of its floor.
ReportFits(m) ==
    /\ m.kind # "diag"
    /\ m.kind = "ack" => m.seq <= log[m.part]

ReportInv ==
    /\ \A i \in DOMAIN main : ReportFits(main[i])
    /\ worker.pc = "report" => ReportFits(worker.msg)

\* The floors: of everything that was sent off, and of the one hold.
Saved == ToSet(file) \cup Queued
FloorInv ==
    /\ \A p \in Parts : HoldIn(hold, p) <= log[p]
    /\ pend.seq <= log[pend.part]
    /\ \A j \in ToSet(jobs) : j.kind = "job" => j.seq <= log[j.part]
    /\ \A row \in Saved \cup ToSet(pend.rows), p \in Parts :
           InRange(row, p) => IdOf(row) <= log[p]

\* What was sent off is in order, and what waits comes after it.
Owned(r) == \A row \in ToSet(r.rows) : InRange(row, r.part)
AllBefore(A, B) == \A a \in A, b \in B : Before(a, b)
Waiting == ui.pc \in {"loop", "flush"} \/ (ui.pc = "drain" /\ Len(ui.left) = 2)

QueueInOrder(queue, stored) ==
    /\ \A i \in DOMAIN queue :
           queue[i].kind = "job" => Owned(queue[i]) /\ Ordered(queue[i].rows)
    /\ \A i, j \in DOMAIN queue :
           (i < j /\ queue[i].kind = "job" /\ queue[j].kind = "job") =>
               AllBefore(ToSet(queue[i].rows), ToSet(queue[j].rows))
    /\ AllBefore(ToSet(stored), RowsIn(queue, "job"))
    /\ Ordered(stored)

JobsInv == QueueInOrder(jobs, file)

PendInv ==
    /\ Len(pend.rows) <= OverCap
    /\ Owned(pend) /\ Ordered(pend.rows)
    /\ Waiting => AllBefore(Saved, ToSet(pend.rows))
    /\ (~Waiting /\ ui.pc # "expired") => ToSet(pend.rows) \subseteq Saved

\* The transition of an endpoint change lies above everything of its part.
DialInv ==
    ui.pc \in Dialing =>
        /\ Ordered(ui.data) /\ log[ui.part] <= ui.seq
        /\ \A row \in ToSet(ui.data) :
               InRange(row, ui.part) /\ IdOf(row) \in log[ui.part] + 1 .. ui.seq

\* Until an endpoint changes, a stored row below the floor was sent off.
KeptInv ==
    /\ \A p \in Parts : \A row \in rows[p] :
           IdOf(row) <= log[p] => row \in Saved \cup ToSet(pend.rows)
    /\ \A row \in made :
           \/ \E p \in Parts : row \in rows[p]
           \/ row \in Transition

QuietInv ==
    fails = 0 => /\ ReportInv /\ FloorInv /\ JobsInv /\ PendInv /\ DialInv
                 /\ (\A p \in DOMAIN ep : ep[p] = 0) => KeptInv

IInv == TypeInv /\ StopInv /\ FenceInv /\ QuietInv

-----------------------------------------------------------------------------
(* Values                                                                  *)

LEMMA ConstantsTyped ==
    /\ Parts \subseteq Nat /\ 0 \in Parts
    /\ Range44 \in Nat /\ FirstId \in Nat /\ MaxRows \in Nat
    /\ FirstId + MaxRows + 1 < Range44
    /\ OverCap \in Nat /\ OverCap > 0
    /\ \A p \in Parts : IdBase(p) \in Nat /\ IdCeiling(p) \in Nat
                        /\ IdCeiling(p) = IdBase(p) + Range44
<1>1. Parts \subseteq Nat /\ 0 \in Parts
  <2>1. Cardinality(Parts) \in Nat /\ Parts = 0 .. Cardinality(Parts) - 1 /\ Parts # {}
    BY HistoryAssumption, FS_CardinalityType
  <2> QED BY <2>1
<1>2. Range44 \in Nat /\ FirstId \in Nat /\ MaxRows \in Nat
      /\ FirstId + MaxRows + 1 < Range44 /\ OverCap \in Nat /\ OverCap > 0
  BY HistoryAssumption
<1>3. ASSUME NEW p \in Parts
      PROVE  IdBase(p) \in Nat /\ IdCeiling(p) \in Nat
             /\ IdCeiling(p) = IdBase(p) + Range44
  <2>1. IdBase(p) \in Nat
    BY <1>1, <1>2 DEF IdBase
  <2> QED BY <1>2, <2>1 DEF IdCeiling
<1> QED BY <1>1, <1>2, <1>3

\* The ranges of two parts share no id.
LEMMA RangesApart ==
    ASSUME NEW p \in Parts, NEW q \in Parts, NEW id \in Nat,
           id \in IdRange(p), id \in IdRange(q)
    PROVE  p = q
<1>1. ASSUME NEW a \in Nat, NEW b \in Nat, NEW r \in Nat, a < b
      PROVE  a * r + r <= b * r
  <2>1. PICK d \in Nat : b = a + 1 + d
    <3>1. b - a - 1 \in Nat /\ b = a + 1 + (b - a - 1)
      BY <1>1
    <3> QED BY <3>1
  <2>2. b * r = a * r + r + d * r /\ d * r \in Nat /\ a * r \in Nat
    BY <2>1
  <2> QED BY <2>2
<1>2. \A a, b \in Parts : a < b => IdBase(a) + Range44 <= IdBase(b)
  BY <1>1, ConstantsTyped DEF IdBase
<1>3. p \in Nat /\ q \in Nat
  BY ConstantsTyped
<1>4. ~(p < q) /\ ~(q < p)
  BY <1>2, ConstantsTyped DEF IdRange
<1> QED BY <1>3, <1>4

LEMMA PendFields ==
    ASSUME NEW p \in Pends
    PROVE  /\ p.rows \in Seq(Rows) /\ p.part \in Parts
           /\ p.base \in Nat /\ p.seq \in Nat
           /\ p = [rows |-> p.rows, part |-> p.part, base |-> p.base, seq |-> p.seq]
           /\ Job(p) \in Saves /\ Job(p).kind = "job"
           /\ Job(p).rows = p.rows /\ Job(p).part = p.part
           /\ Job(p).base = p.base /\ Job(p).seq = p.seq
           /\ Marked(p) => Marked(Job(p))
BY DEF Pends, Saves, Job, Marked

LEMMA PendTyped ==
    ASSUME NEW r \in Seq(Rows), NEW p \in Parts, NEW b \in IdRange(p), NEW q \in IdRange(p)
    PROVE  /\ [rows |-> r, part |-> p, base |-> b, seq |-> q] \in Pends
           /\ Marked([rows |-> r, part |-> p, base |-> b, seq |-> q])
<1>1. b \in Nat /\ q \in Nat
  BY ConstantsTyped DEF IdRange
<1> QED BY <1>1 DEF Pends, Marked

LEMMA NoPendTyped ==
    /\ NoPend \in Pends /\ Marked(NoPend) /\ NoPend.rows = <<>>
    /\ NoPend.part \in Parts /\ NoPend.seq = 0
<1>1. 0 \in IdRange(0) /\ 0 \in Parts
  BY ConstantsTyped DEF IdRange, IdBase
<1>2. <<>> \in Seq(Rows)
  OBVIOUS
<1> QED BY <1>1, <1>2, PendTyped DEF NoPend

LEMMA JobFields ==
    ASSUME NEW j \in JobSet
    PROVE  /\ j.kind \in {"job", "stop", "barrier"}
           /\ j.kind = "stop" => j = Stop
           /\ j.kind = "barrier" => j = Barrier
           /\ j.kind = "job" =>
                  /\ j \in Saves /\ j.rows \in Seq(Rows) /\ j.part \in Parts
                  /\ j.base \in Nat /\ j.seq \in Nat
                  /\ [j EXCEPT !.kind = "diag"] \in Diags
                  /\ [j EXCEPT !.kind = "diag"].kind = "diag"
                  /\ [j EXCEPT !.kind = "diag"].part = j.part
                  /\ [j EXCEPT !.kind = "diag"].base = j.base
                  /\ [j EXCEPT !.kind = "diag"].seq = j.seq
                  /\ [kind |-> "ack", part |-> j.part, seq |-> j.seq] \in Acks
<1>1. CASE j \in Saves
  BY <1>1 DEF Saves, Diags, Acks
<1>2. CASE j \in {Stop, Barrier}
  BY <1>2 DEF Stop, Barrier
<1> QED BY <1>1, <1>2 DEF JobSet

LEMMA MsgFields ==
    ASSUME NEW m \in Msgs
    PROVE  /\ m.kind \in {"ack", "diag", "done", "net"}
           /\ m.kind = "ack" => m.part \in Parts /\ m.seq \in Nat
           /\ m.kind = "diag" =>
                  /\ m.rows \in Seq(Rows) /\ m.part \in Parts
                  /\ m.base \in Nat /\ m.seq \in Nat
BY DEF Msgs, Acks, Diags

LEMMA UiFields ==
    ASSUME ui \in UiSet
    PROVE  /\ ui.pc \in {"loop", "end", "expired", "drain"} \cup Dialing
           /\ ui.pc \in Dialing =>
                  /\ ui.part \in Parts /\ ui.rows \in SUBSET Rows
                  /\ ui.seq \in Nat /\ ui.hold \in Nat /\ ui.data \in Seq(Rows)
                  /\ \A pc \in Dialing :
                        LET u == [ui EXCEPT !.pc = pc]
                        IN  /\ u \in UiSet /\ u.pc = pc /\ u.part = ui.part
                            /\ u.rows = ui.rows /\ u.seq = ui.seq
                            /\ u.hold = ui.hold /\ u.data = ui.data
           /\ ui.pc = "drain" =>
                  /\ ui.left \in Seq(JobSet)
                  /\ \A l \in Seq(JobSet) :
                        LET u == [ui EXCEPT !.left = l]
                        IN  u \in UiSet /\ u.pc = "drain" /\ u.left = l
<1>1. CASE ui \in [pc : {"loop", "end", "expired"}]
  BY <1>1 DEF Dialing
<1>2. CASE ui \in [pc : Dialing, part : Parts, rows : SUBSET Rows, seq : Nat,
                   hold : Nat, data : Seq(Rows)]
  BY <1>2 DEF Dialing, UiSet
<1>3. CASE ui \in [pc : {"drain"}, left : Seq(JobSet)]
  BY <1>3 DEF Dialing, UiSet
<1> QED BY <1>1, <1>2, <1>3 DEF UiSet

LEMMA WorkerFields ==
    /\ \A pc \in {"recv", "gone"} : [pc |-> pc] \in WorkerSet
    /\ \A m \in Msgs : /\ Report(m) \in WorkerSet
                       /\ Report(m).pc = "report" /\ Report(m).msg = m
    /\ worker \in WorkerSet =>
           /\ worker.pc \in {"recv", "gone", "report"}
           /\ worker.pc = "report" => worker.msg \in Msgs
BY DEF WorkerSet, Report

-----------------------------------------------------------------------------
(* Sequences                                                               *)

LEMMA CatSets ==
    ASSUME NEW S, NEW s \in Seq(S), NEW t \in Seq(S)
    PROVE  /\ s \o t \in Seq(S)
           /\ ToSet(s \o t) = ToSet(s) \cup ToSet(t)
           /\ ToSet(s) \subseteq S
<1>1. s \o t \in Seq(S) /\ Len(s \o t) = Len(s) + Len(t)
  OBVIOUS
<1>2. ASSUME NEW i \in DOMAIN s PROVE s[i] \in ToSet(s \o t)
  BY <1>1 DEF ToSet
<1>3. ASSUME NEW j \in DOMAIN t PROVE t[j] \in ToSet(s \o t)
  <2>1. Len(s) + j \in DOMAIN (s \o t) /\ (s \o t)[Len(s) + j] = t[j]
    OBVIOUS
  <2> QED BY <2>1 DEF ToSet
<1>4. ASSUME NEW k \in DOMAIN (s \o t)
      PROVE  (s \o t)[k] \in ToSet(s) \cup ToSet(t)
  <2>1. CASE k <= Len(s)
    BY <2>1 DEF ToSet
  <2>2. CASE k > Len(s)
    <3>1. k - Len(s) \in DOMAIN t /\ (s \o t)[k] = t[k - Len(s)]
      BY <2>2
    <3> QED BY <3>1 DEF ToSet
  <2> QED BY <2>1, <2>2
<1> QED BY <1>1, <1>2, <1>3, <1>4 DEF ToSet

LEMMA OrderedCat ==
    ASSUME NEW s \in Seq(Rows), NEW t \in Seq(Rows), Ordered(s), Ordered(t),
           AllBefore(ToSet(s), ToSet(t))
    PROVE  Ordered(s \o t)
<1> SUFFICES ASSUME NEW i \in DOMAIN (s \o t), NEW j \in DOMAIN (s \o t), i < j
             PROVE  Before((s \o t)[i], (s \o t)[j])
  BY DEF Ordered
<1>1. CASE j <= Len(s)
  <2>1. i \in DOMAIN s /\ j \in DOMAIN s /\ (s \o t)[i] = s[i] /\ (s \o t)[j] = s[j]
    BY <1>1
  <2> QED BY <2>1 DEF Ordered
<1>2. CASE j > Len(s) /\ i <= Len(s)
  <2>1. /\ i \in DOMAIN s /\ j - Len(s) \in DOMAIN t
        /\ (s \o t)[i] = s[i] /\ (s \o t)[j] = t[j - Len(s)]
    BY <1>2
  <2> QED BY <2>1 DEF AllBefore, ToSet
<1>3. CASE i > Len(s)
  <2>1. /\ i - Len(s) \in DOMAIN t /\ j - Len(s) \in DOMAIN t
        /\ (s \o t)[i] = t[i - Len(s)] /\ (s \o t)[j] = t[j - Len(s)]
        /\ i - Len(s) < j - Len(s)
    BY <1>3
  <2> QED BY <2>1 DEF Ordered
<1> QED BY <1>1, <1>2, <1>3

LEMMA EmptyOrdered == ToSet(<<>>) = {} /\ Ordered(<<>>)
BY DEF ToSet, Ordered

\* The rows a queue carries, one job more or one job less.
LEMMA QueueAppend ==
    ASSUME NEW S, NEW q \in Seq(S), NEW j \in S, NEW kind
    PROVE  /\ Append(q, j) \in Seq(S) /\ Len(Append(q, j)) = Len(q) + 1
           /\ DOMAIN Append(q, j) = DOMAIN q \cup {Len(q) + 1}
           /\ \A i \in DOMAIN q : Append(q, j)[i] = q[i] /\ i <= Len(q)
           /\ Append(q, j)[Len(q) + 1] = j
           /\ j.kind = kind => RowsIn(Append(q, j), kind) = RowsIn(q, kind) \cup ToSet(j.rows)
           /\ j.kind # kind => RowsIn(Append(q, j), kind) = RowsIn(q, kind)
<1> DEFINE a == Append(q, j)
<1>1. /\ a \in Seq(S) /\ Len(a) = Len(q) + 1
      /\ DOMAIN a = DOMAIN q \cup {Len(q) + 1}
      /\ \A i \in DOMAIN q : a[i] = q[i] /\ i <= Len(q)
      /\ a[Len(q) + 1] = j
  OBVIOUS
<1> HIDE DEF a
<1>2. ASSUME j.kind = kind
      PROVE  RowsIn(a, kind) = RowsIn(q, kind) \cup ToSet(j.rows)
  <2>1. {i \in DOMAIN a : a[i].kind = kind} = {i \in DOMAIN q : q[i].kind = kind} \cup {Len(q) + 1}
    BY <1>1, <1>2
  <2> QED BY <1>1, <2>1 DEF RowsIn
<1>3. ASSUME j.kind # kind
      PROVE  RowsIn(a, kind) = RowsIn(q, kind)
  <2>1. {i \in DOMAIN a : a[i].kind = kind} = {i \in DOMAIN q : q[i].kind = kind}
    BY <1>1, <1>3
  <2> QED BY <1>1, <2>1 DEF RowsIn
<1> QED BY <1>1, <1>2, <1>3 DEF a

LEMMA QueueTail ==
    ASSUME NEW S, NEW q \in Seq(S), q # <<>>, NEW kind
    PROVE  /\ Tail(q) \in Seq(S) /\ Head(q) \in S /\ Head(q) = q[1]
           /\ Len(Tail(q)) = Len(q) - 1 /\ Len(q) \in Nat /\ Len(q) > 0
           /\ 1 \in DOMAIN q
           /\ \A i \in DOMAIN Tail(q) : i + 1 \in DOMAIN q /\ Tail(q)[i] = q[i + 1] /\ i \in Nat
           /\ Head(q).kind = kind => RowsIn(q, kind) = ToSet(Head(q).rows) \cup RowsIn(Tail(q), kind)
           /\ Head(q).kind # kind => RowsIn(q, kind) = RowsIn(Tail(q), kind)
           /\ Tail(q) = <<>> <=> Len(q) = 1
<1> DEFINE t == Tail(q)
<1>1. /\ t \in Seq(S) /\ Head(q) \in S /\ Head(q) = q[1]
      /\ Len(t) = Len(q) - 1 /\ Len(q) \in Nat /\ Len(q) > 0
      /\ 1 \in DOMAIN q
      /\ \A i \in DOMAIN t : i + 1 \in DOMAIN q /\ t[i] = q[i + 1] /\ i \in Nat
      /\ \A i \in DOMAIN q : i = 1 \/ (i - 1 \in DOMAIN t /\ q[i] = t[i - 1])
  OBVIOUS
<1>6. t = <<>> <=> Len(q) = 1
  <2>1. t \in Seq(S) /\ Len(t) = Len(q) - 1
    BY <1>1
  <2>2. t = <<>> <=> Len(t) = 0
    <3> HIDE DEF t
    <3> QED BY <2>1
  <2> QED BY <1>1, <2>2
<1> HIDE DEF t
<1>2. RowsIn(t, kind) \subseteq RowsIn(q, kind)
  BY <1>1 DEF RowsIn
<1>3. Head(q).kind = kind => ToSet(Head(q).rows) \subseteq RowsIn(q, kind)
  BY <1>1 DEF RowsIn
<1>4. ASSUME NEW i \in DOMAIN q, q[i].kind = kind, NEW row \in ToSet(q[i].rows)
      PROVE  \/ Head(q).kind = kind /\ row \in ToSet(Head(q).rows)
             \/ row \in RowsIn(t, kind)
  <2>1. CASE i = 1
    BY <1>1, <1>4, <2>1
  <2>2. CASE i - 1 \in DOMAIN t /\ q[i] = t[i - 1]
    BY <1>4, <2>2 DEF RowsIn
  <2> QED BY <1>1, <2>1, <2>2
<1>5. ASSUME NEW row \in RowsIn(q, kind)
      PROVE  \/ Head(q).kind = kind /\ row \in ToSet(Head(q).rows)
             \/ row \in RowsIn(t, kind)
  <2>1. PICK i \in DOMAIN q : q[i].kind = kind /\ row \in ToSet(q[i].rows)
    BY <1>5 DEF RowsIn
  <2> QED BY <1>4, <2>1
<1> QED BY <1>1, <1>2, <1>3, <1>5, <1>6 DEF t

LEMMA QueueEmpty == \A kind : RowsIn(<<>>, kind) = {}
BY DEF RowsIn

LEMMA QueueHas ==
    ASSUME NEW q, NEW kind, NEW row
    PROVE  row \in RowsIn(q, kind)
               <=> \E i \in DOMAIN q : q[i].kind = kind /\ row \in ToSet(q[i].rows)
BY DEF RowsIn

-----------------------------------------------------------------------------
(* What the operators return                                               *)

LEMMA HoldInRange ==
    ASSUME NEW h \in Nat, NEW p \in Parts
    PROVE  /\ HoldIn(h, p) \in Nat
           /\ HoldIn(h, p) = 0 \/ (HoldIn(h, p) = h /\ h \in IdRange(p))
           /\ h \in IdRange(p) => HoldIn(h, p) = h
BY ConstantsTyped DEF HoldIn, IdRange

\* The rows of a part that lie above a floor, in the order of their ids.
LEMMA Extracted ==
    ASSUME NEW p \in Parts, NEW kept, Stored(kept, p), NEW floor \in Nat
    PROVE  LET s == Extract(kept, floor)
           IN  /\ s \in Seq(Rows)
               /\ ToSet(s) = {row \in kept : IdOf(row) > floor}
               /\ Ordered(s)
<1> DEFINE above == {row \in kept : IdOf(row) > floor}
           s == Extract(kept, floor)
<1>1. IsFiniteSet(above) /\ above \subseteq Rows /\ above \subseteq kept
  BY FS_Subset DEF Stored
<1>2. \A row \in above : IdOf(row) \in Nat
  BY <1>1 DEF Rows, IdOf
<1>3. s = ById(above)
  BY DEF Extract
<1> HIDE DEF above, s
<1>4. /\ s \in Seq(above)
      /\ \A row \in above : \E k \in DOMAIN s : s[k] = row
      /\ \A i, j \in DOMAIN s : i < j => IdOf(s[i]) < IdOf(s[j])
  <2>1. \A a, b \in above : IdOf(a) = IdOf(b) => a = b
    BY <1>1 DEF Stored
  <2> QED BY <1>1, <1>2, <1>3, <2>1, ByIdLists
<1>5. s \in Seq(Rows)
  BY <1>1, <1>4
<1>6. ToSet(s) = above
  BY <1>4 DEF ToSet
<1>7. Ordered(s)
  BY <1>4 DEF Ordered, Before
<1> QED BY <1>5, <1>6, <1>7 DEF above, s

\* The rows a step adds lie right above everything its part stores.
LEMMA NewRowsStored ==
    ASSUME NEW p \in Parts, NEW e \in Nat, NEW n \in Nat,
           log[p] \in IdRange(p), Stored(rows[p], p),
           Top(p) + n <= IdBase(p) + FirstId + MaxRows
    PROVE  LET fresh == NewRows(p, e, n)
               seq == Top(p) + n
           IN  /\ Stored(fresh, p) /\ Stored(rows[p] \cup fresh, p)
               /\ \A row \in fresh : IdOf(row) > Top(p) /\ IdOf(row) <= seq
                                     /\ IdOf(row) > log[p]
               /\ \A row \in rows[p] : IdOf(row) <= seq /\ IdOf(row) <= Top(p)
               /\ seq \in IdRange(p) /\ seq >= log[p] /\ Top(p) \in Nat
               /\ n > 0 => \E row \in fresh : IdOf(row) = seq
<1> DEFINE fresh == NewRows(p, e, n)
           ids == Top(p) + 1 .. Top(p) + n
           f == [id \in ids |-> <<e, id>>]
<1>1. /\ Top(p) \in Nat /\ Top(p) >= log[p]
      /\ \A row \in rows[p] : Top(p) >= IdOf(row) /\ IdOf(row) \in Nat
  <2>1. log[p] \in Nat /\ IsFiniteSet(rows[p]) /\ \A row \in rows[p] : IdOf(row) \in Nat
    BY ConstantsTyped DEF IdRange, Stored, Rows, IdOf
  <2> QED BY <2>1, TopIsMax
<1>2. \A row \in fresh : row \in Rows /\ IdOf(row) \in ids
  BY <1>1 DEF NewRows, Rows, IdOf
<1>3. IsFiniteSet(fresh)
  <2>1. f \in [ids -> {f[x] : x \in ids}] /\ {f[x] : x \in ids} = fresh
    BY DEF NewRows
  <2>2. IsFiniteSet(ids)
    BY <1>1, FS_Interval
  <2> HIDE DEF f, fresh, ids
  <2> QED BY <2>1, <2>2, FiniteImage
<1>4. \A a, b \in fresh : IdOf(a) = IdOf(b) => a = b
  BY DEF NewRows, IdOf
<1>5. Top(p) + n \in IdRange(p) /\ log[p] \in Nat /\ log[p] >= IdBase(p)
  BY <1>1, ConstantsTyped DEF IdRange
<1>6. \A row \in fresh : InRange(row, p)
  BY <1>1, <1>2, <1>5, ConstantsTyped DEF InRange, IdRange
<1>7. Stored(fresh, p)
  BY <1>2, <1>3, <1>4, <1>6 DEF Stored
<1>8. Stored(rows[p] \cup fresh, p)
  <2>1. IsFiniteSet(rows[p] \cup fresh)
    BY <1>7, FS_Union DEF Stored
  <2>2. \A a \in rows[p], b \in fresh : IdOf(a) # IdOf(b)
    BY <1>1, <1>2
  <2> HIDE DEF fresh
  <2> QED BY <1>7, <2>1, <2>2 DEF Stored
<1>9. n > 0 => \E row \in fresh : IdOf(row) = Top(p) + n
  <2>1. n > 0 => Top(p) + n \in ids
    BY <1>1
  <2>2. n > 0 => <<e, Top(p) + n>> \in fresh
    BY <2>1 DEF NewRows
  <2>3. IdOf(<<e, Top(p) + n>>) = Top(p) + n
    BY DEF IdOf
  <2> HIDE DEF fresh, ids
  <2> QED BY <2>2, <2>3
<1>10. \A row \in fresh : IdOf(row) > Top(p) /\ IdOf(row) <= Top(p) + n /\ IdOf(row) > log[p]
  BY <1>1, <1>2, <1>5
<1>11. \A row \in rows[p] : IdOf(row) <= Top(p) + n /\ IdOf(row) <= Top(p)
  BY <1>1
<1> HIDE DEF fresh
<1> QED BY <1>1, <1>5, <1>7, <1>8, <1>9, <1>10, <1>11 DEF fresh

\* A save of part p either leaves the queue as it is or puts one job behind it,
\* and every record it makes carries marks of its own part.
LEMMA WriteTyped ==
    ASSUME NEW stored \in Pends, Marked(stored), NEW offered \in Pends, Marked(offered),
           NEW queue \in Seq(JobSet)
    PROVE  LET got == Write(stored, offered, queue)
           IN  /\ got.pend \in Pends /\ Marked(got.pend)
               /\ got.durable \in BOOLEAN /\ got.notice \in BOOLEAN
               /\ \/ got.jobs = queue
                  \/ \E p \in Pends : Marked(p) /\ got.jobs = Append(queue, Job(p))
<1> DEFINE got == Write(stored, offered, queue)
           cut == [offered EXCEPT !.rows = SubSeq(@, Len(stored.rows) + 1, Len(@))]
           Good(g) == /\ g.pend \in Pends /\ Marked(g.pend)
                      /\ g.durable \in BOOLEAN /\ g.notice \in BOOLEAN
                      /\ \/ g.jobs = queue
                         \/ \E p \in Pends : Marked(p) /\ g.jobs = Append(queue, Job(p))
<1> SUFFICES Good(got)
  OBVIOUS
<1>1. /\ stored.rows \in Seq(Rows) /\ offered.rows \in Seq(Rows)
      /\ cut \in Pends /\ Marked(cut)
  <2>1. stored.rows \in Seq(Rows) /\ offered.rows \in Seq(Rows)
    BY PendFields
  <2>2. SubSeq(offered.rows, Len(stored.rows) + 1, Len(offered.rows)) \in Seq(Rows)
    BY <2>1
  <2> QED BY <2>1, <2>2 DEF Pends, Marked
<1>2. \A p \in {stored, offered} :
          /\ Rest(p, queue) \in Pends /\ Marked(Rest(p, queue))
          /\ Send(p, queue) = queue \/ Send(p, queue) = Append(queue, Job(p))
  BY NoPendTyped DEF Rest, Send
<1>3. CASE offered.rows = <<>>
  <2>0. ~Over(offered)
    BY <1>3, ConstantsTyped DEF Over
  <2>1. got = [pend |-> stored, jobs |-> queue, durable |-> TRUE, notice |-> FALSE]
    BY <1>3, <2>0 DEF Write
  <2> HIDE DEF got
  <2> QED BY <2>1
<1>4. CASE offered.rows # <<>> /\ ~Over(offered)
  <2>1. got = [pend |-> Rest(offered, queue), jobs |-> Send(offered, queue),
               durable |-> FALSE, notice |-> FALSE]
    BY <1>4 DEF Write
  <2> HIDE DEF got
  <2> QED BY <1>2, <2>1
<1>5. CASE offered.rows # <<>> /\ Over(offered) /\ Over(stored)
  <2>1. got = [pend |-> IF ~Taken(stored, queue) THEN offered
                        ELSE IF Len(offered.rows) > Len(stored.rows) THEN cut ELSE NoPend,
               jobs |-> Send(stored, queue), durable |-> FALSE, notice |-> FALSE]
    BY <1>5 DEF Write
  <2> HIDE DEF got, cut
  <2> QED BY <1>1, <1>2, <2>1, NoPendTyped, SMTT(30)
<1>6. CASE offered.rows # <<>> /\ Over(offered) /\ ~Over(stored)
  <2>1. got = [pend |-> stored, jobs |-> queue, durable |-> FALSE, notice |-> TRUE]
    BY <1>6 DEF Write
  <2> HIDE DEF got
  <2> QED BY <2>1
<1> HIDE DEF got, Good
<1> QED BY <1>3, <1>4, <1>5, <1>6

\* While pending is within its cap: the queue takes what is offered, or pending
\* keeps it, or nothing changes and the save is refused.
LEMMA WriteQuiet ==
    ASSUME NEW stored \in Pends, NEW offered \in Pends, NEW queue,
           offered.rows # <<>>, ~Over(stored)
    PROVE  LET got == Write(stored, offered, queue)
           IN  /\ ~got.durable
               /\ \/ /\ ~got.notice /\ got.pend = NoPend
                     /\ got.jobs = Append(queue, Job(offered))
                  \/ /\ ~got.notice /\ got.pend = offered /\ ~Over(offered)
                     /\ got.jobs = queue
                  \/ got.notice /\ got.pend = stored /\ got.jobs = queue
BY DEF Write, Rest, Send, Taken

LEMMA OfferTyped ==
    ASSUME NEW stored \in Pends, Marked(stored), NEW data \in Seq(Rows), NEW p \in Parts,
           NEW base \in IdRange(p), NEW seq \in IdRange(p), OfferAccepted(stored, p)
    PROVE  LET o == Offer(stored, data, p, base, seq)
           IN  /\ o \in Pends /\ Marked(o) /\ o.part = p
               /\ o.rows = stored.rows \o data
               /\ o.seq <= Larger(stored.seq, seq)
               /\ o.seq = seq \/ (o.seq = stored.seq /\ stored.part = p)
<1>1. base \in Nat /\ seq \in Nat /\ stored.rows \in Seq(Rows) /\ stored.seq \in Nat
      /\ stored.part \in Parts
  <2>1. base \in Nat /\ seq \in Nat
    BY ConstantsTyped DEF IdRange
  <2> QED BY <2>1, PendFields
<1>2. CASE stored.rows = <<>>
  <2>1. Offer(stored, data, p, base, seq) = [rows |-> data, part |-> p, base |-> base, seq |-> seq]
    BY <1>2 DEF Offer
  <2>2. stored.rows \o data = data
    BY <1>2
  <2> QED BY <1>1, <2>1, <2>2, PendTyped DEF Larger
<1>3. CASE stored.rows # <<>>
  <2>1. stored.part = p
    BY <1>3 DEF OfferAccepted
  <2>2. Offer(stored, data, p, base, seq)
            = [stored EXCEPT !.rows = stored.rows \o data, !.seq = Larger(stored.seq, seq)]
    BY <1>3 DEF Offer
  <2>3. stored.rows \o data \in Seq(Rows)
    BY <1>1
  <2>4. Larger(stored.seq, seq) \in {stored.seq, seq}
    BY DEF Larger
  <2>5. Larger(stored.seq, seq) \in Nat /\ Larger(stored.seq, seq) \in IdRange(p)
    BY <1>1, <2>1, <2>4 DEF Marked
  <2> DEFINE o == Offer(stored, data, p, base, seq)
  <2>6. /\ o.rows = stored.rows \o data /\ o.part = p
        /\ o.base = stored.base /\ o.seq = Larger(stored.seq, seq)
    BY <1>1, <2>1, <2>2 DEF Pends
  <2>7. o \in Pends
    BY <1>1, <2>2, <2>3, <2>5 DEF Pends
  <2>8. Marked(o)
    BY <2>1, <2>5, <2>6 DEF Marked
  <2> HIDE DEF o
  <2> QED BY <1>1, <2>1, <2>4, <2>5, <2>6, <2>7, <2>8 DEF o
<1> QED BY <1>2, <1>3

LEMMA RetriedTyped ==
    ASSUME NEW stored \in Pends, Marked(stored), NEW d \in Msgs, d.kind = "diag", Marked(d)
    PROVE  Retried(stored, d) \in Pends /\ Marked(Retried(stored, d))
<1>1. d.rows \in Seq(Rows) /\ d.part \in Parts /\ d.base \in Nat /\ d.seq \in Nat
  BY MsgFields
<1>2. stored.rows \in Seq(Rows)
  BY PendFields
<1>3. d.rows \o stored.rows \in Seq(Rows)
  BY <1>1, <1>2
<1>4. CASE stored.rows = <<>>
  BY <1>1, <1>4, PendTyped DEF Retried, Marked
<1>5. CASE stored.rows # <<>>
  BY <1>3, <1>5 DEF Retried, Pends, Marked
<1> QED BY <1>4, <1>5

-----------------------------------------------------------------------------
(* The types                                                               *)

\* What the invariant says of a job of the queue, and of one that is added.
LEMMA JobsMarked ==
    ASSUME NEW q \in Seq(JobSet), \A i \in DOMAIN q : q[i].kind = "job" => Marked(q[i]),
           NEW j \in JobSet, j.kind = "job" => Marked(j)
    PROVE  /\ Append(q, j) \in Seq(JobSet)
           /\ \A i \in DOMAIN Append(q, j) :
                  Append(q, j)[i].kind = "job" => Marked(Append(q, j)[i])
<1> DEFINE a == Append(q, j)
<1>1. /\ a \in Seq(JobSet) /\ DOMAIN a = DOMAIN q \cup {Len(q) + 1}
      /\ \A i \in DOMAIN q : a[i] = q[i]
      /\ a[Len(q) + 1] = j
  BY QueueAppend
<1> HIDE DEF a
<1> QED BY <1>1 DEF a

LEMMA TailMarked ==
    ASSUME NEW q \in Seq(JobSet), \A i \in DOMAIN q : q[i].kind = "job" => Marked(q[i]),
           q # <<>>
    PROVE  /\ Tail(q) \in Seq(JobSet) /\ Head(q) \in JobSet
           /\ Head(q).kind = "job" => Marked(Head(q))
           /\ \A i \in DOMAIN Tail(q) : Tail(q)[i].kind = "job" => Marked(Tail(q)[i])
<1> DEFINE t == Tail(q)
<1>1. /\ t \in Seq(JobSet) /\ Head(q) \in JobSet /\ Head(q) = q[1] /\ 1 \in DOMAIN q
      /\ \A i \in DOMAIN t : i + 1 \in DOMAIN q /\ t[i] = q[i + 1]
  BY QueueTail
<1> HIDE DEF t
<1> QED BY <1>1 DEF t

LEMMA TailMsgMarked ==
    ASSUME NEW q \in Seq(Msgs), \A i \in DOMAIN q : MsgMarked(q[i]), q # <<>>
    PROVE  /\ Tail(q) \in Seq(Msgs) /\ Head(q) \in Msgs /\ MsgMarked(Head(q))
           /\ \A i \in DOMAIN Tail(q) : MsgMarked(Tail(q)[i])
<1> DEFINE t == Tail(q)
<1>1. /\ t \in Seq(Msgs) /\ Head(q) \in Msgs /\ Head(q) = q[1] /\ 1 \in DOMAIN q
      /\ \A i \in DOMAIN t : i + 1 \in DOMAIN q /\ t[i] = q[i + 1]
  BY QueueTail
<1> HIDE DEF t
<1> QED BY <1>1 DEF t

LEMMA AppendMsgMarked ==
    ASSUME NEW q \in Seq(Msgs), \A i \in DOMAIN q : MsgMarked(q[i]),
           NEW m \in Msgs, MsgMarked(m)
    PROVE  /\ Append(q, m) \in Seq(Msgs)
           /\ \A i \in DOMAIN Append(q, m) : MsgMarked(Append(q, m)[i])
<1> DEFINE a == Append(q, m)
<1>1. /\ a \in Seq(Msgs) /\ DOMAIN a = DOMAIN q \cup {Len(q) + 1}
      /\ \A i \in DOMAIN q : a[i] = q[i]
      /\ a[Len(q) + 1] = m
  BY QueueAppend
<1> HIDE DEF a
<1> QED BY <1>1 DEF a

\* The facts a step begins with.
LEMMA TypeFacts ==
    ASSUME TypeInv
    PROVE  /\ \A p \in Parts : /\ log[p] \in IdRange(p) /\ log[p] \in Nat
                               /\ Stored(rows[p], p) /\ ep[p] \in Nat
           /\ pend \in Pends /\ Marked(pend) /\ jobs \in Seq(JobSet)
           /\ main \in Seq(Msgs) /\ file \in Seq(Rows) /\ hold \in Nat
           /\ worker \in WorkerSet /\ ui \in UiSet /\ fails \in Nat
BY DEF TypeInv

\* What a step of part p saves: its new rows, under marks of its own.
SavedBy(p, n) ==
    LET fresh == NewRows(p, ep[p], n)
        data == Extract(rows[p] \cup fresh, Larger(log[p], HoldIn(hold, p)))
    IN  IF OfferAccepted(pend, p)
          THEN Write(pend, Offer(pend, data, p, log[p], Top(p) + n), jobs)
          ELSE Refused(pend, jobs)

LEMMA SavedTyped ==
    ASSUME TypeInv, NEW p \in Parts, NEW n \in Nat,
           Top(p) + n <= IdBase(p) + FirstId + MaxRows
    PROVE  LET kept == rows[p] \cup NewRows(p, ep[p], n)
               floor == Larger(log[p], HoldIn(hold, p))
               data == Extract(kept, floor)
               got == SavedBy(p, n)
           IN  /\ Stored(kept, p) /\ floor \in Nat
               /\ Top(p) + n \in IdRange(p) /\ Top(p) + n \in Nat
               /\ data \in Seq(Rows) /\ Ordered(data)
               /\ ToSet(data) = {row \in kept : IdOf(row) > floor}
               /\ got.pend \in Pends /\ Marked(got.pend)
               /\ got.jobs \in Seq(JobSet)
               /\ got.jobs = jobs \/ \E j \in JobSet : j.kind = "job" /\ got.jobs = Append(jobs, j)
               /\ \A i \in DOMAIN got.jobs : got.jobs[i].kind = "job" => Marked(got.jobs[i])
<1> DEFINE kept == rows[p] \cup NewRows(p, ep[p], n)
           floor == Larger(log[p], HoldIn(hold, p))
           data == Extract(kept, floor)
           offered == Offer(pend, data, p, log[p], Top(p) + n)
           got == SavedBy(p, n)
<1>1. Stored(kept, p) /\ Top(p) + n \in IdRange(p)
  BY NewRowsStored, TypeFacts
<1>2. floor \in Nat /\ Top(p) + n \in Nat
  <2>1. HoldIn(hold, p) \in Nat /\ log[p] \in Nat
    BY HoldInRange, TypeFacts
  <2>2. Top(p) + n \in Nat
    BY <1>1, ConstantsTyped DEF IdRange
  <2> QED BY <2>1, <2>2 DEF Larger
<1>3. data \in Seq(Rows) /\ Ordered(data) /\ ToSet(data) = {row \in kept : IdOf(row) > floor}
  <2> HIDE DEF kept, floor
  <2> QED BY <1>1, <1>2, Extracted
<1>4. /\ got.pend \in Pends /\ Marked(got.pend)
      /\ got.jobs = jobs \/ \E r \in Pends : Marked(r) /\ got.jobs = Append(jobs, Job(r))
  <2>1. CASE OfferAccepted(pend, p)
    <3>1. offered \in Pends /\ Marked(offered)
      <4> HIDE DEF data
      <4> QED BY <1>1, <1>3, <2>1, OfferTyped, TypeFacts
    <3>2. got = Write(pend, offered, jobs)
      BY <2>1 DEF SavedBy
    <3> HIDE DEF offered, got
    <3> QED BY <3>1, <3>2, WriteTyped, TypeFacts
  <2>2. CASE ~OfferAccepted(pend, p)
    <3>1. got = Refused(pend, jobs)
      BY <2>2 DEF SavedBy
    <3> QED BY <3>1, TypeFacts DEF Refused
  <2> QED BY <2>1, <2>2
<1>5. got.jobs = jobs \/ \E j \in JobSet : j.kind = "job" /\ Marked(j) /\ got.jobs = Append(jobs, j)
  <2> HIDE DEF got
  <2> QED BY <1>4, PendFields DEF JobSet
<1>6. /\ got.jobs \in Seq(JobSet)
      /\ \A i \in DOMAIN got.jobs : got.jobs[i].kind = "job" => Marked(got.jobs[i])
  <2> HIDE DEF got
  <2>1. CASE got.jobs = jobs
    BY <2>1 DEF TypeInv
  <2>2. ASSUME NEW j \in JobSet, Marked(j), got.jobs = Append(jobs, j)
        PROVE  /\ got.jobs \in Seq(JobSet)
               /\ \A i \in DOMAIN got.jobs : got.jobs[i].kind = "job" => Marked(got.jobs[i])
    BY <2>2, JobsMarked DEF TypeInv
  <2> QED BY <1>5, <2>1, <2>2
<1> HIDE DEF kept, floor, data, got
<1> QED BY <1>1, <1>2, <1>3, <1>4, <1>5, <1>6 DEF kept, floor, data, got

\* Step, told with what it saves.
LEMMA StepSaves ==
    ASSUME NEW p \in Parts, NEW n \in Nat, Step(p, n)
    PROVE  LET got == SavedBy(p, n)
               fresh == NewRows(p, ep[p], n)
               seq == Top(p) + n
           IN  /\ ui.pc = "loop" /\ seq <= IdBase(p) + FirstId + MaxRows
               /\ rows' = [rows EXCEPT ![p] = rows[p] \cup fresh]
               /\ made' = made \cup fresh
               /\ pend' = got.pend /\ jobs' = got.jobs
               /\ log' = [log EXCEPT ![p] = IF got.notice THEN log[p] ELSE seq]
               /\ hold' = CASE got.notice -> 0
                            [] ~got.notice /\ got.durable -> hold
                            [] ~got.notice /\ ~got.durable -> Larger(hold, seq)
               /\ UNCHANGED <<ep, worker, main, ui, file, fails>>
BY DEF Step, SavedBy

LEMMA InitTyped == Init => TypeInv
<1> SUFFICES ASSUME Init PROVE TypeInv
  OBVIOUS
<1>1. \A p \in Parts : IdBase(p) + FirstId \in IdRange(p) /\ IdBase(p) + FirstId \in Nat
  BY ConstantsTyped DEF IdRange
<1>2. log \in [Parts -> Nat] /\ \A p \in Parts : log[p] \in IdRange(p)
  BY <1>1 DEF Init
<1>3. rows \in [Parts -> SUBSET Rows] /\ \A p \in Parts : Stored(rows[p], p)
  BY FS_EmptySet DEF Init, Stored
<1>4. ep \in [Parts -> Nat] /\ hold \in Nat /\ fails \in Nat
  BY DEF Init
<1>5. pend \in Pends /\ Marked(pend)
  BY NoPendTyped DEF Init
<1>6. /\ jobs \in Seq(JobSet) /\ \A i \in DOMAIN jobs : jobs[i].kind = "job" => Marked(jobs[i])
      /\ main \in Seq(Msgs) /\ \A i \in DOMAIN main : MsgMarked(main[i])
      /\ file \in Seq(Rows)
  BY DEF Init
<1>7. worker \in WorkerSet /\ (worker.pc = "report" => MsgMarked(worker.msg))
  BY DEF Init, WorkerSet
<1>8. ui \in UiSet /\ ui.pc = "loop"
  BY DEF Init, UiSet
<1> QED BY <1>2, <1>3, <1>4, <1>5, <1>6, <1>7, <1>8 DEF TypeInv, Dialing

LEMMA TypeStep ==
    ASSUME TypeInv, StopInv, FenceInv, [Next]_vars
    PROVE  TypeInv'
<1> USE TypeFacts
<1>1. ASSUME NEW p \in Parts, NEW n \in 1 .. 2, Step(p, n) PROVE TypeInv'
  <2> DEFINE got == SavedBy(p, n)
             kept == rows[p] \cup NewRows(p, ep[p], n)
             seq == Top(p) + n
  <2>0. n \in Nat
    OBVIOUS
  <2>1. /\ ui.pc = "loop" /\ seq <= IdBase(p) + FirstId + MaxRows
        /\ rows' = [rows EXCEPT ![p] = kept]
        /\ pend' = got.pend /\ jobs' = got.jobs
        /\ log' = [log EXCEPT ![p] = IF got.notice THEN log[p] ELSE seq]
        /\ hold' = CASE got.notice -> 0
                     [] ~got.notice /\ got.durable -> hold
                     [] ~got.notice /\ ~got.durable -> Larger(hold, seq)
        /\ UNCHANGED <<ep, worker, main, ui, file, fails>>
    BY <1>1, <2>0, StepSaves
  <2>2. /\ Stored(kept, p) /\ seq \in IdRange(p) /\ seq \in Nat
        /\ got.pend \in Pends /\ Marked(got.pend) /\ got.jobs \in Seq(JobSet)
        /\ \A i \in DOMAIN got.jobs : got.jobs[i].kind = "job" => Marked(got.jobs[i])
    BY <2>0, <2>1, SavedTyped
  <2> HIDE DEF got, kept, seq
  <2>3. log' \in [Parts -> Nat] /\ \A q \in Parts : log'[q] \in IdRange(q)
    BY <2>1, <2>2 DEF TypeInv
  <2>4. rows' \in [Parts -> SUBSET Rows] /\ \A q \in Parts : Stored(rows'[q], q)
    BY <2>1, <2>2 DEF TypeInv, Stored
  <2>5. hold' \in Nat
    BY <2>1, <2>2 DEF Larger
  <2> QED BY <2>1, <2>2, <2>3, <2>4, <2>5 DEF TypeInv, Dialing
<1>2. ASSUME NEW p \in Parts, NEW n \in 0 .. 1, Dial(p, n) PROVE TypeInv'
  <2> DEFINE seq == Top(p) + n
             kept == NewRows(p, ep[p] + 1, n)
             floor == Larger(log[p], HoldIn(hold, p))
             data == Extract(kept, floor)
  <2>0. n \in Nat /\ ep[p] \in Nat /\ ep[p] + 1 \in Nat
    BY DEF TypeInv
  <2>1. /\ seq <= IdBase(p) + FirstId + MaxRows
        /\ ui' = [pc |-> "flush", part |-> p, rows |-> kept,
                  seq |-> IF n = 0 THEN log[p] ELSE seq, hold |-> hold, data |-> data]
        /\ UNCHANGED <<log, rows, ep, hold, pend, jobs, worker, main, file, fails>>
    BY <1>2 DEF Dial
  <2>2. Stored(kept, p) /\ seq \in IdRange(p)
    BY <2>0, <2>1, NewRowsStored
  <2>3. floor \in Nat
    <3>1. HoldIn(hold, p) \in Nat
      BY HoldInRange
    <3> QED BY <3>1 DEF Larger
  <2>4. data \in Seq(Rows)
    <3> HIDE DEF kept, floor
    <3> QED BY <2>2, <2>3, Extracted
  <2>5. seq \in Nat /\ kept \in SUBSET Rows
    BY <2>2, ConstantsTyped DEF IdRange, Stored
  <2> HIDE DEF seq, kept, floor, data
  <2>6. /\ ui' \in UiSet /\ ui'.part = p /\ ui'.rows = kept
        /\ ui'.seq \in {log[p], seq}
    BY <2>1, <2>4, <2>5 DEF UiSet, Dialing
  <2> QED BY <2>1, <2>2, <2>6 DEF TypeInv
<1>3. CASE FlushPending
  <2>1. /\ ui.pc = "flush" /\ ui' = [ui EXCEPT !.pc = "barrier"]
        /\ jobs' = IF pend.rows = <<>> THEN jobs ELSE Append(jobs, Job(pend))
        /\ UNCHANGED <<log, rows, ep, hold, pend, worker, main, file, fails>>
    BY <1>3 DEF FlushPending
  <2>2. jobs' \in Seq(JobSet) /\ \A i \in DOMAIN jobs' : jobs'[i].kind = "job" => Marked(jobs'[i])
    <3>1. Job(pend) \in JobSet /\ Marked(Job(pend))
      BY PendFields DEF JobSet
    <3> QED BY <2>1, <3>1, JobsMarked DEF TypeInv
  <2>3. /\ ui' \in UiSet /\ ui'.part = ui.part /\ ui'.rows = ui.rows /\ ui'.seq = ui.seq
    BY <2>1, UiFields DEF Dialing
  <2> QED BY <2>1, <2>2, <2>3 DEF TypeInv, Dialing
<1>4. CASE FlushBarrier
  <2>1. /\ ui.pc = "barrier" /\ ui' = [ui EXCEPT !.pc = "fence"]
        /\ jobs' = Append(jobs, Barrier)
        /\ UNCHANGED <<log, rows, ep, hold, pend, worker, main, file, fails>>
    BY <1>4 DEF FlushBarrier
  <2>2. jobs' \in Seq(JobSet) /\ \A i \in DOMAIN jobs' : jobs'[i].kind = "job" => Marked(jobs'[i])
    <3>1. Barrier \in JobSet /\ Barrier.kind # "job"
      BY DEF JobSet, Barrier
    <3> QED BY <2>1, <3>1, JobsMarked DEF TypeInv
  <2>3. /\ ui' \in UiSet /\ ui'.part = ui.part /\ ui'.rows = ui.rows /\ ui'.seq = ui.seq
    BY <2>1, UiFields DEF Dialing
  <2> QED BY <2>1, <2>2, <2>3 DEF TypeInv, Dialing
<1>5. ASSUME NEW ok \in BOOLEAN, FlushAppend(ok) PROVE TypeInv'
  <2> DEFINE p == ui.part
  <2>1. /\ ui.pc = "append"
        /\ fails' = IF ok THEN fails ELSE fails + 1
        /\ file' = IF ok THEN file \o ui.data ELSE file
        /\ pend' = NoPend /\ hold' = 0
        /\ rows' = [rows EXCEPT ![p] = ui.rows]
        /\ ep' = [ep EXCEPT ![p] = ep[p] + 1]
        /\ log' = [log EXCEPT ![p] = IF ok THEN ui.seq
                                     ELSE Larger(log[p], HoldIn(ui.hold, p))]
        /\ ui' = [pc |-> "loop"]
        /\ UNCHANGED <<jobs, worker, main>>
    BY <1>5 DEF FlushAppend
  <2>2. /\ p \in Parts /\ ui.rows \in SUBSET Rows /\ ui.seq \in Nat /\ ui.hold \in Nat
        /\ ui.data \in Seq(Rows)
    BY <2>1, UiFields DEF Dialing
  <2>3. Stored(ui.rows, p) /\ ui.seq \in IdRange(p)
    BY <2>1 DEF TypeInv, Dialing
  <2> HIDE DEF p
  <2>4. Larger(log[p], HoldIn(ui.hold, p)) \in IdRange(p)
    <3>1. HoldIn(ui.hold, p) \in Nat /\ (HoldIn(ui.hold, p) = 0 \/ HoldIn(ui.hold, p) \in IdRange(p))
      BY <2>2, HoldInRange
    <3>2. log[p] \in Nat /\ log[p] \in IdRange(p)
      BY <2>2
    <3> QED BY <3>1, <3>2 DEF Larger
  <2>5. log' \in [Parts -> Nat] /\ \A q \in Parts : log'[q] \in IdRange(q)
    <3>1. \A x \in IdRange(p) : x \in Nat
      BY <2>2, ConstantsTyped DEF IdRange
    <3> QED BY <2>1, <2>2, <2>3, <2>4, <3>1 DEF TypeInv
  <2>6. rows' \in [Parts -> SUBSET Rows] /\ \A q \in Parts : Stored(rows'[q], q)
    BY <2>1, <2>2, <2>3 DEF TypeInv
  <2>7. ep' \in [Parts -> Nat] /\ fails' \in Nat /\ hold' \in Nat
    BY <2>1, <2>2 DEF TypeInv
  <2>8. file' \in Seq(Rows)
    BY <2>1, <2>2
  <2>9. ui' \in UiSet /\ ui'.pc = "loop"
    BY <2>1 DEF UiSet
  <2> QED BY <2>1, <2>5, <2>6, <2>7, <2>8, <2>9, NoPendTyped DEF TypeInv, Dialing
<1>6. ASSUME NEW ok \in BOOLEAN, WorkerJob(ok) PROVE TypeInv'
  <2> DEFINE job == Head(jobs)
  <2>1. /\ jobs # <<>> /\ job.kind = "job"
        /\ fails' = IF ok THEN fails ELSE fails + 1
        /\ file' = IF ok THEN file \o job.rows ELSE file
        /\ worker' = Report(IF ok THEN [kind |-> "ack", part |-> job.part, seq |-> job.seq]
                                  ELSE [job EXCEPT !.kind = "diag"])
        /\ jobs' = Tail(jobs)
        /\ UNCHANGED <<log, rows, ep, hold, pend, main, ui>>
    BY <1>6 DEF WorkerJob
  <2>2. /\ Tail(jobs) \in Seq(JobSet) /\ job \in JobSet /\ Marked(job)
        /\ \A i \in DOMAIN Tail(jobs) : Tail(jobs)[i].kind = "job" => Marked(Tail(jobs)[i])
    BY <2>1, TailMarked DEF TypeInv
  <2> HIDE DEF job
  <2>3. /\ job.rows \in Seq(Rows)
        /\ [job EXCEPT !.kind = "diag"] \in Msgs
        /\ [kind |-> "ack", part |-> job.part, seq |-> job.seq] \in Msgs
        /\ MsgMarked([job EXCEPT !.kind = "diag"])
        /\ MsgMarked([kind |-> "ack", part |-> job.part, seq |-> job.seq])
    BY <2>1, <2>2, JobFields DEF Msgs, MsgMarked, Marked
  <2>4. worker' \in WorkerSet /\ MsgMarked(worker'.msg)
    BY <2>1, <2>3, WorkerFields
  <2>5. file' \in Seq(Rows) /\ fails' \in Nat
    BY <2>1, <2>3
  <2> QED BY <2>1, <2>2, <2>4, <2>5 DEF TypeInv
<1>7. CASE WorkerBarrier
  <2>1. /\ jobs # <<>> /\ Head(jobs).kind = "barrier" /\ jobs' = Tail(jobs)
        /\ ui' = [ui EXCEPT !.pc = "append"]
        /\ UNCHANGED <<log, rows, ep, hold, pend, worker, main, file, fails>>
    BY <1>7 DEF WorkerBarrier
  <2>2. ui.pc = "fence"
    <3>1. 1 \in DOMAIN jobs /\ jobs[1] = Head(jobs)
      BY <2>1, QueueTail
    <3> QED BY <2>1, <3>1 DEF FenceInv
  <2>3. /\ ui' \in UiSet /\ ui'.part = ui.part /\ ui'.rows = ui.rows /\ ui'.seq = ui.seq
    BY <2>1, <2>2, UiFields DEF Dialing
  <2> QED BY <2>1, <2>2, <2>3, TailMarked DEF TypeInv, Dialing
<1>8. CASE WorkerStop
  <2>1. /\ jobs # <<>> /\ jobs' = Tail(jobs) /\ worker' = Report([kind |-> "done"])
        /\ UNCHANGED <<log, rows, ep, hold, pend, main, ui, file, fails>>
    BY <1>8 DEF WorkerStop
  <2>2. [kind |-> "done"] \in Msgs /\ MsgMarked([kind |-> "done"])
    BY DEF Msgs, MsgMarked
  <2>3. worker' \in WorkerSet /\ MsgMarked(worker'.msg)
    BY <2>1, <2>2, WorkerFields
  <2> QED BY <2>1, <2>3, TailMarked DEF TypeInv
<1>9. CASE WorkerReport
  <2>1. /\ worker.pc = "report" /\ main' = Append(main, worker.msg)
        /\ worker' = [pc |-> IF worker.msg.kind = "done" THEN "gone" ELSE "recv"]
        /\ UNCHANGED <<log, rows, ep, hold, pend, jobs, ui, file, fails>>
    BY <1>9 DEF WorkerReport
  <2>2. worker.msg \in Msgs /\ MsgMarked(worker.msg)
    BY <2>1, WorkerFields DEF TypeInv
  <2>3. worker' \in WorkerSet /\ worker'.pc # "report"
    BY <2>1, WorkerFields
  <2> QED BY <2>1, <2>2, <2>3, AppendMsgMarked DEF TypeInv
<1>10. CASE Forward
  <2>1. main' = Append(main, [kind |-> "net"])
        /\ UNCHANGED <<log, rows, ep, hold, pend, jobs, worker, ui, file, fails>>
    BY <1>10 DEF Forward
  <2>2. [kind |-> "net"] \in Msgs /\ MsgMarked([kind |-> "net"])
    BY DEF Msgs, MsgMarked
  <2> QED BY <2>1, <2>2, AppendMsgMarked DEF TypeInv
<1>11. CASE UiNet
  <2>1. /\ main # <<>> /\ main' = Tail(main)
        /\ UNCHANGED <<log, rows, ep, hold, pend, jobs, worker, ui, file, fails>>
    BY <1>11 DEF UiNet, Received
  <2> QED BY <2>1, TailMsgMarked DEF TypeInv
<1>12. CASE UiAck
  <2> DEFINE p == Head(main).part
  <2>1. /\ main # <<>> /\ main' = Tail(main) /\ Head(main).kind = "ack"
        /\ log' = [log EXCEPT ![p] = Larger(log[p], Head(main).seq)]
        /\ hold' \in {hold, 0}
        /\ UNCHANGED <<rows, ep, pend, jobs, worker, ui, file, fails>>
    BY <1>12 DEF UiAck, Received
  <2>2. Head(main) \in Msgs /\ MsgMarked(Head(main))
    BY <2>1, TailMsgMarked DEF TypeInv
  <2>3. p \in Parts /\ Head(main).seq \in Nat /\ Head(main).seq \in IdRange(p)
    BY <2>1, <2>2, MsgFields DEF MsgMarked
  <2> HIDE DEF p
  <2>4. Larger(log[p], Head(main).seq) \in {log[p], Head(main).seq}
    BY DEF Larger
  <2>5. log' \in [Parts -> Nat] /\ \A q \in Parts : log'[q] \in IdRange(q)
    BY <2>1, <2>3, <2>4 DEF TypeInv
  <2> QED BY <2>1, <2>5, TailMsgMarked DEF TypeInv
<1>13. CASE UiDiag
  <2> DEFINE d == Head(main)
             newer == HoldIn(hold, d.part) > d.seq
  <2>1. /\ main # <<>> /\ main' = Tail(main) /\ d.kind = "diag"
        /\ pend' = IF newer THEN Retried(pend, d) ELSE pend
        /\ hold' = IF newer THEN hold ELSE 0
        /\ log' = IF newer THEN log ELSE [log EXCEPT ![d.part] = Rewound(log[d.part], d.base)]
        /\ UNCHANGED <<rows, ep, jobs, worker, ui, file, fails>>
    BY <1>13 DEF UiDiag, Received
  <2>2. d \in Msgs /\ MsgMarked(d)
    BY <2>1, TailMsgMarked DEF TypeInv
  <2>3. d.part \in Parts /\ d.base \in Nat /\ Marked(d)
    BY <2>1, <2>2, MsgFields DEF MsgMarked
  <2> HIDE DEF d, newer
  <2>4. Rewound(log[d.part], d.base) \in {log[d.part], d.base}
    BY DEF Rewound
  <2>5. log' \in [Parts -> Nat] /\ \A q \in Parts : log'[q] \in IdRange(q)
    BY <2>1, <2>3, <2>4 DEF TypeInv, Marked
  <2>6. pend' \in Pends /\ Marked(pend')
    BY <2>1, <2>2, <2>3, RetriedTyped
  <2> QED BY <2>1, <2>5, <2>6, TailMsgMarked DEF TypeInv
<1>14. CASE Quit
  <2>1. /\ ui' = [pc |-> "drain", left |-> IF pend.rows = <<>> THEN <<Stop>> ELSE <<Job(pend), Stop>>]
        /\ UNCHANGED <<log, rows, ep, hold, pend, jobs, worker, main, file, fails>>
    BY <1>14 DEF Quit
  <2>2. Stop \in JobSet /\ Job(pend) \in JobSet
    BY PendFields DEF JobSet
  <2>3. <<Stop>> \in Seq(JobSet) /\ <<Job(pend), Stop>> \in Seq(JobSet)
    BY <2>2
  <2>4. ui' \in UiSet /\ ui'.pc = "drain"
    BY <2>1, <2>3 DEF UiSet
  <2> QED BY <2>1, <2>4 DEF TypeInv, Dialing
<1>15. CASE DrainSend
  <2>1. /\ ui.pc = "drain" /\ ui.left # <<>> /\ jobs' = Append(jobs, Head(ui.left))
        /\ ui' = [ui EXCEPT !.left = Tail(ui.left)]
        /\ UNCHANGED <<log, rows, ep, hold, pend, worker, main, file, fails>>
    BY <1>15 DEF DrainSend
  <2>2. Head(ui.left) \in {Stop, Job(pend)}
    BY <2>1 DEF StopInv
  <2>3. Head(ui.left) \in JobSet /\ (Head(ui.left).kind = "job" => Marked(Head(ui.left)))
    BY <2>2, PendFields DEF JobSet, Stop
  <2>4. ui.left \in Seq(JobSet)
    BY <2>1, UiFields
  <2>5. Tail(ui.left) \in Seq(JobSet)
    BY <2>1, <2>4
  <2>6. ui' \in UiSet /\ ui'.pc = "drain"
    BY <2>1, <2>5, UiFields
  <2> QED BY <2>1, <2>3, <2>6, JobsMarked DEF TypeInv, Dialing
<1>16. CASE DrainReceive
  <2>1. /\ ui.pc = "drain" /\ main # <<>> /\ main' = Tail(main) /\ ui' \in {[pc |-> "end"], ui}
        /\ UNCHANGED <<log, rows, ep, hold, pend, jobs, worker, file, fails>>
    BY <1>16 DEF DrainReceive
  <2>2. ui' \in UiSet /\ ui'.pc \in {"end", "drain"}
    BY <2>1 DEF UiSet
  <2> QED BY <2>1, <2>2, TailMsgMarked DEF TypeInv, Dialing
<1>17. CASE DrainExpire
  <2>1. ui' = [pc |-> "expired"]
        /\ UNCHANGED <<log, rows, ep, hold, pend, jobs, worker, main, file, fails>>
    BY <1>17 DEF DrainExpire
  <2>2. ui' \in UiSet /\ ui'.pc = "expired"
    BY <2>1 DEF UiSet
  <2> QED BY <2>1, <2>2 DEF TypeInv, Dialing
<1>18. CASE UNCHANGED vars
  BY <1>18 DEF vars, TypeInv
<1> QED
  BY <1>1, <1>2, <1>3, <1>4, <1>5, <1>6, <1>7, <1>8, <1>9, <1>10, <1>11, <1>12, <1>13,
     <1>14, <1>15, <1>16, <1>17, <1>18 DEF Next, UiNext, WorkerNext, Ended

-----------------------------------------------------------------------------
(* The stop and the fence                                                  *)

Quitting == {"drain", "end", "expired"}

\* A step of the running loop that sends no stop and posts no end.
LEMMA StopKept ==
    ASSUME TypeInv, StopInv, ui.pc \notin Quitting, ui'.pc \notin Quitting,
           worker' = worker,
           \A i \in DOMAIN main' : \E k \in DOMAIN main : main'[i] = main[k],
           jobs' = jobs \/ \E j \in JobSet : j.kind # "stop" /\ jobs' = Append(jobs, j)
    PROVE  StopInv'
<1>1. NoStop /\ jobs \in Seq(JobSet)
  BY DEF StopInv, Quitting, TypeInv
<1>2. \A i \in DOMAIN jobs' : jobs'[i].kind # "stop"
  <2>1. CASE jobs' = jobs
    BY <1>1, <2>1 DEF NoStop
  <2>2. ASSUME NEW j \in JobSet, j.kind # "stop", jobs' = Append(jobs, j)
        PROVE  \A i \in DOMAIN jobs' : jobs'[i].kind # "stop"
    <3>1. /\ DOMAIN jobs' = DOMAIN jobs \cup {Len(jobs) + 1}
          /\ \A i \in DOMAIN jobs : jobs'[i] = jobs[i]
          /\ jobs'[Len(jobs) + 1] = j
      BY <1>1, <2>2, QueueAppend
    <3> QED BY <1>1, <2>2, <3>1 DEF NoStop
  <2> QED BY <2>1, <2>2
<1>3. \A i \in DOMAIN main' : main'[i].kind # "done"
  BY <1>1 DEF NoStop, StopInv
<1> QED BY <1>1, <1>2, <1>3 DEF StopInv, NoStop, Quitting

LEMMA StopStep ==
    ASSUME TypeInv, StopInv, FenceInv, [Next]_vars
    PROVE  StopInv'
<1> USE TypeFacts
<1>q. ui.pc \notin Quitting => NoStop
  BY DEF StopInv, Quitting
<1>t. main # <<>> => \A i \in DOMAIN Tail(main) : \E k \in DOMAIN main : Tail(main)[i] = main[k]
  BY QueueTail
<1>1. ASSUME NEW p \in Parts, NEW n \in 1 .. 2, Step(p, n) PROVE StopInv'
  <2> DEFINE got == SavedBy(p, n)
  <2>0. n \in Nat
    OBVIOUS
  <2>1. /\ ui.pc = "loop" /\ Top(p) + n <= IdBase(p) + FirstId + MaxRows
        /\ jobs' = got.jobs /\ UNCHANGED <<worker, main, ui>>
    BY <1>1, <2>0, StepSaves
  <2>2. got.jobs = jobs \/ \E j \in JobSet : j.kind = "job" /\ got.jobs = Append(jobs, j)
    BY <2>0, <2>1, SavedTyped
  <2> HIDE DEF got
  <2> QED BY <2>1, <2>2, StopKept DEF Quitting
<1>2. ASSUME NEW p \in Parts, NEW n \in 0 .. 1, Dial(p, n) PROVE StopInv'
  <2>1. ui.pc = "loop" /\ ui'.pc = "flush" /\ UNCHANGED <<jobs, worker, main>>
    BY <1>2 DEF Dial
  <2> QED BY <2>1, StopKept DEF Quitting
<1>3. CASE FlushPending
  <2>1. /\ ui.pc = "flush" /\ ui' = [ui EXCEPT !.pc = "barrier"]
        /\ jobs' = jobs \/ jobs' = Append(jobs, Job(pend))
        /\ UNCHANGED <<worker, main>>
    BY <1>3 DEF FlushPending
  <2>2. ui'.pc = "barrier"
    BY <2>1, UiFields DEF Dialing
  <2>3. Job(pend) \in JobSet /\ Job(pend).kind = "job"
    BY PendFields DEF JobSet
  <2> QED BY <2>1, <2>2, <2>3, StopKept DEF Quitting
<1>4. CASE FlushBarrier
  <2>1. /\ ui.pc = "barrier" /\ ui' = [ui EXCEPT !.pc = "fence"]
        /\ jobs' = Append(jobs, Barrier) /\ UNCHANGED <<worker, main>>
    BY <1>4 DEF FlushBarrier
  <2>2. ui'.pc = "fence"
    BY <2>1, UiFields DEF Dialing
  <2>3. Barrier \in JobSet /\ Barrier.kind # "stop"
    BY DEF JobSet, Barrier
  <2> QED BY <2>1, <2>2, <2>3, StopKept DEF Quitting
<1>5. ASSUME NEW ok \in BOOLEAN, FlushAppend(ok) PROVE StopInv'
  <2>1. ui.pc = "append" /\ ui'.pc = "loop" /\ UNCHANGED <<jobs, worker, main>>
    BY <1>5 DEF FlushAppend
  <2> QED BY <2>1, StopKept DEF Quitting
<1>6. ASSUME NEW ok \in BOOLEAN, WorkerJob(ok) PROVE StopInv'
  <2>1. /\ worker.pc = "recv" /\ jobs # <<>> /\ Head(jobs) \in JobSet /\ Head(jobs).kind = "job"
        /\ worker' = Report(IF ok THEN [kind |-> "ack", part |-> Head(jobs).part, seq |-> Head(jobs).seq]
                                  ELSE [Head(jobs) EXCEPT !.kind = "diag"])
        /\ jobs' = Tail(jobs) /\ UNCHANGED <<pend, main, ui>>
    BY <1>6, QueueTail DEF WorkerJob
  <2>2. worker'.pc = "report" /\ worker'.msg.kind \in {"ack", "diag"}
    BY <2>1, JobFields DEF Report
  <2>3. \A i \in DOMAIN main : main[i].kind # "done"
    BY <2>1 DEF StopInv
  <2>4. /\ Len(jobs') = Len(jobs) - 1 /\ Len(jobs) \in Nat
        /\ \A i \in DOMAIN jobs' : i + 1 \in DOMAIN jobs /\ jobs'[i] = jobs[i + 1] /\ i \in Nat
    BY <2>1, QueueTail
  <2>5. \A i \in DOMAIN jobs' : jobs'[i].kind = "stop" => i = Len(jobs')
    BY <2>4 DEF StopInv
  <2>6. NoStop => NoStop'
    BY <2>2, <2>4 DEF NoStop
  <2>7. Job(pend)' = Job(pend)
    BY <2>1 DEF Job
  <2> QED BY <2>1, <2>2, <2>3, <2>5, <2>6, <2>7 DEF StopInv
<1>7. CASE WorkerBarrier
  <2>1. /\ worker.pc = "recv" /\ jobs # <<>> /\ Head(jobs).kind = "barrier" /\ jobs' = Tail(jobs)
        /\ ui' = [ui EXCEPT !.pc = "append"] /\ UNCHANGED <<worker, main>>
    BY <1>7 DEF WorkerBarrier
  <2>2. ui.pc = "fence"
    <3>1. 1 \in DOMAIN jobs /\ jobs[1] = Head(jobs)
      BY <2>1, QueueTail
    <3> QED BY <2>1, <3>1 DEF FenceInv
  <2>3. ui'.pc = "append"
    BY <2>1, <2>2, UiFields DEF Dialing
  <2>4. NoStop
    BY <1>q, <2>2 DEF Quitting
  <2>5. \A i \in DOMAIN jobs' : jobs'[i].kind # "stop"
    BY <2>1, <2>4, QueueTail DEF NoStop
  <2>6. \A i \in DOMAIN main' : main'[i].kind # "done"
    BY <2>1, <2>4 DEF NoStop, StopInv
  <2> QED BY <2>1, <2>3, <2>4, <2>5, <2>6 DEF StopInv, NoStop
<1>8. CASE WorkerStop
  <2>1. /\ worker.pc = "recv" /\ jobs # <<>> /\ Head(jobs).kind = "stop" /\ jobs' = Tail(jobs)
        /\ worker' = Report([kind |-> "done"]) /\ UNCHANGED <<pend, main, ui>>
    BY <1>8 DEF WorkerStop
  <2>2. 1 \in DOMAIN jobs /\ jobs[1] = Head(jobs)
    BY <2>1, QueueTail
  <2>3. jobs' = <<>>
    BY <2>1, <2>2, QueueTail DEF StopInv
  <2>4. ~NoStop
    BY <2>1, <2>2 DEF NoStop
  <2>5. worker'.pc = "report" /\ \A i \in DOMAIN main : main[i].kind # "done"
    BY <2>1 DEF Report, StopInv
  <2>6. Job(pend)' = Job(pend)
    BY <2>1 DEF Job
  <2> QED BY <2>1, <2>3, <2>4, <2>5, <2>6 DEF StopInv
<1>9. CASE WorkerReport
  <2>1. /\ worker.pc = "report" /\ main' = Append(main, worker.msg)
        /\ worker' = [pc |-> IF worker.msg.kind = "done" THEN "gone" ELSE "recv"]
        /\ UNCHANGED <<pend, jobs, ui>>
    BY <1>9 DEF WorkerReport
  <2>2. \A i \in DOMAIN main : main[i].kind # "done"
    BY <2>1 DEF StopInv
  <2>3. worker.msg \in Msgs
    BY <2>1, WorkerFields
  <2>4. /\ DOMAIN main' = DOMAIN main \cup {Len(main) + 1}
        /\ \A i \in DOMAIN main : main'[i] = main[i]
        /\ main'[Len(main) + 1] = worker.msg
    BY <2>1, <2>3, QueueAppend
  <2>5. (\E i \in DOMAIN main' : main'[i].kind = "done") => worker.msg.kind = "done"
    BY <2>2, <2>4
  <2>6. Job(pend)' = Job(pend)
    BY <2>1 DEF Job
  <2>7. NoStop => NoStop'
    BY <2>1 DEF NoStop
  <2> QED BY <2>1, <2>5, <2>6, <2>7 DEF StopInv
<1>10. CASE Forward
  <2>1. main' = Append(main, [kind |-> "net"]) /\ UNCHANGED <<pend, jobs, worker, ui>>
    BY <1>10 DEF Forward
  <2>2. [kind |-> "net"] \in Msgs
    BY DEF Msgs
  <2>3. /\ DOMAIN main' = DOMAIN main \cup {Len(main) + 1}
        /\ \A i \in DOMAIN main : main'[i] = main[i]
        /\ main'[Len(main) + 1] = [kind |-> "net"]
    BY <2>1, <2>2, QueueAppend
  <2>4. (\E i \in DOMAIN main' : main'[i].kind = "done")
            => \E i \in DOMAIN main : main[i].kind = "done"
    BY <2>3
  <2>5. Job(pend)' = Job(pend)
    BY <2>1 DEF Job
  <2>6. NoStop => NoStop'
    BY <2>1 DEF NoStop
  <2> QED BY <2>1, <2>4, <2>5, <2>6 DEF StopInv
<1>11. CASE UiNet
  <2>1. /\ ui.pc = "loop" /\ main # <<>> /\ main' = Tail(main) /\ UNCHANGED <<jobs, worker, ui>>
    BY <1>11 DEF UiNet, Received
  <2> QED BY <1>t, <2>1, StopKept DEF Quitting
<1>12. CASE UiAck
  <2>1. /\ ui.pc = "loop" /\ main # <<>> /\ main' = Tail(main) /\ UNCHANGED <<jobs, worker, ui>>
    BY <1>12 DEF UiAck, Received
  <2> QED BY <1>t, <2>1, StopKept DEF Quitting
<1>13. CASE UiDiag
  <2>1. /\ ui.pc = "loop" /\ main # <<>> /\ main' = Tail(main) /\ UNCHANGED <<jobs, worker, ui>>
    BY <1>13 DEF UiDiag, Received
  <2> QED BY <1>t, <2>1, StopKept DEF Quitting
<1>14. CASE Quit
  <2>1. /\ ui.pc = "loop" /\ ui'.pc = "drain"
        /\ ui'.left = IF pend.rows = <<>> THEN <<Stop>> ELSE <<Job(pend), Stop>>
        /\ UNCHANGED <<pend, jobs, worker, main>>
    BY <1>14 DEF Quit
  <2>2. NoStop /\ NoStop' /\ Job(pend)' = Job(pend) /\ Stop' = Stop
    BY <1>q, <2>1 DEF NoStop, Job, Stop, Quitting
  <2> QED BY <2>1, <2>2 DEF StopInv, NoStop
<1>15. CASE DrainSend
  <2>1. /\ ui.pc = "drain" /\ ui.left # <<>> /\ jobs' = Append(jobs, Head(ui.left))
        /\ ui' = [ui EXCEPT !.left = Tail(ui.left)]
        /\ UNCHANGED <<pend, worker, main>>
    BY <1>15 DEF DrainSend
  <2>2. NoStop /\ ui.left \in {<<Stop>>, <<Job(pend), Stop>>}
    BY <2>1 DEF StopInv
  <2>3. ui.left \in Seq(JobSet) /\ Tail(ui.left) \in Seq(JobSet) /\ Head(ui.left) \in JobSet
    BY <2>1, UiFields
  <2>4. ui'.pc = "drain" /\ ui'.left = Tail(ui.left)
    BY <2>1, <2>3, UiFields
  <2>5. /\ DOMAIN jobs' = DOMAIN jobs \cup {Len(jobs) + 1} /\ Len(jobs') = Len(jobs) + 1
        /\ \A i \in DOMAIN jobs : jobs'[i] = jobs[i]
        /\ jobs'[Len(jobs) + 1] = Head(ui.left)
    BY <2>1, <2>3, QueueAppend
  <2>6. Job(pend)' = Job(pend) /\ Stop' = Stop /\ Job(pend).kind = "job"
    BY <2>1 DEF Job, Stop
  <2>7. \A i \in DOMAIN main' : main'[i].kind # "done"
    BY <2>1, <2>2 DEF NoStop, StopInv
  <2>8. CASE ui.left = <<Stop>>
    <3>1. Tail(ui.left) = <<>>
      BY <2>8
    <3>2. \A i \in DOMAIN jobs' : jobs'[i].kind = "stop" => i = Len(jobs')
      BY <2>2, <2>5 DEF NoStop
    <3> QED BY <2>1, <2>2, <2>4, <2>7, <3>1, <3>2 DEF StopInv, NoStop
  <2>9. CASE ui.left = <<Job(pend), Stop>>
    <3>1. Tail(ui.left) = <<Stop>> /\ Head(ui.left) = Job(pend)
      BY <2>9
    <3>2. \A i \in DOMAIN jobs' : jobs'[i].kind # "stop"
      BY <2>2, <2>5, <2>6, <3>1 DEF NoStop
    <3> QED BY <2>1, <2>2, <2>4, <2>6, <2>7, <3>1, <3>2 DEF StopInv, NoStop
  <2> QED BY <2>2, <2>8, <2>9
<1>16. CASE DrainReceive
  <2>1. /\ ui.pc = "drain" /\ main # <<>> /\ main' = Tail(main)
        /\ ui' = IF Head(main).kind = "done" THEN [pc |-> "end"] ELSE ui
        /\ UNCHANGED <<pend, jobs, worker>>
    BY <1>16 DEF DrainReceive
  <2>2. Head(main).kind = "done" => worker.pc = "gone"
    BY <2>1, QueueTail DEF StopInv
  <2>3. (\E i \in DOMAIN main' : main'[i].kind = "done") => worker.pc = "gone"
    BY <1>t, <2>1 DEF StopInv
  <2>4. Job(pend)' = Job(pend) /\ Stop' = Stop /\ (NoStop => NoStop')
    BY <2>1 DEF Job, Stop, NoStop
  <2> QED BY <2>1, <2>2, <2>3, <2>4 DEF StopInv
<1>17. CASE DrainExpire
  <2>1. ui'.pc = "expired" /\ UNCHANGED <<jobs, worker, main>>
    BY <1>17 DEF DrainExpire
  <2> QED BY <2>1 DEF StopInv
<1>18. CASE UNCHANGED vars
  <2>1. UNCHANGED <<pend, jobs, worker, main, ui>>
    BY <1>18 DEF vars
  <2> QED BY <2>1 DEF StopInv, NoStop, Job, Stop
<1> QED
  BY <1>1, <1>2, <1>3, <1>4, <1>5, <1>6, <1>7, <1>8, <1>9, <1>10, <1>11, <1>12, <1>13,
     <1>14, <1>15, <1>16, <1>17, <1>18 DEF Next, UiNext, WorkerNext, Ended

\* A step that leaves the fence alone and sends no barrier.
LEMMA FenceKept ==
    ASSUME TypeInv, FenceInv, ui.pc \notin {"fence", "append"}, ui'.pc \notin {"fence", "append"},
           jobs' = jobs \/ \E j \in JobSet : j.kind # "barrier" /\ jobs' = Append(jobs, j)
    PROVE  FenceInv'
<1>1. jobs \in Seq(JobSet) /\ \A i \in DOMAIN jobs : jobs[i].kind # "barrier"
  BY DEF FenceInv, TypeInv
<1>2. CASE jobs' = jobs
  BY <1>1, <1>2 DEF FenceInv
<1>3. ASSUME NEW j \in JobSet, j.kind # "barrier", jobs' = Append(jobs, j) PROVE FenceInv'
  <2>1. /\ DOMAIN jobs' = DOMAIN jobs \cup {Len(jobs) + 1}
        /\ \A i \in DOMAIN jobs : jobs'[i] = jobs[i]
        /\ jobs'[Len(jobs) + 1] = j
    BY <1>1, <1>3, QueueAppend
  <2> QED BY <1>1, <1>3, <2>1 DEF FenceInv
<1> QED BY <1>2, <1>3

\* The worker takes a job that is not the barrier.
LEMMA FenceTail ==
    ASSUME TypeInv, StopInv, FenceInv, jobs # <<>>, Head(jobs).kind # "barrier",
           jobs' = Tail(jobs), ui' = ui
    PROVE  FenceInv'
<1>1. /\ jobs \in Seq(JobSet) /\ Len(jobs') = Len(jobs) - 1 /\ Len(jobs) \in Nat /\ Len(jobs) > 0
      /\ 1 \in DOMAIN jobs /\ jobs[1] = Head(jobs) /\ jobs' \in Seq(JobSet)
      /\ \A i \in DOMAIN jobs' : i + 1 \in DOMAIN jobs /\ jobs'[i] = jobs[i + 1] /\ i \in Nat
      /\ jobs' = <<>> <=> Len(jobs) = 1
  BY QueueTail DEF TypeInv
<1>2. \A i \in DOMAIN jobs' : jobs'[i].kind = "barrier" => i = Len(jobs') /\ ui.pc = "fence"
  BY <1>1 DEF FenceInv
<1>3. ASSUME ui.pc = "fence" PROVE jobs' # <<>> /\ jobs'[Len(jobs')].kind = "barrier"
  <2>1. Len(jobs) # 1
    BY <1>1, <1>3 DEF FenceInv
  <2>2. Len(jobs) - 1 \in DOMAIN jobs'
    BY <1>1, <2>1
  <2>3. jobs'[Len(jobs')] = jobs[Len(jobs)]
    BY <1>1, <2>2
  <2> QED BY <1>1, <1>3, <2>1, <2>3 DEF FenceInv
<1>4. ui.pc # "append"
  BY DEF FenceInv
<1> QED BY <1>2, <1>3, <1>4 DEF FenceInv

LEMMA FenceStep ==
    ASSUME TypeInv, StopInv, FenceInv, [Next]_vars
    PROVE  FenceInv'
<1> USE TypeFacts
<1>1. ASSUME NEW p \in Parts, NEW n \in 1 .. 2, Step(p, n) PROVE FenceInv'
  <2> DEFINE got == SavedBy(p, n)
  <2>0. n \in Nat
    OBVIOUS
  <2>1. /\ ui.pc = "loop" /\ Top(p) + n <= IdBase(p) + FirstId + MaxRows
        /\ jobs' = got.jobs /\ ui' = ui
    BY <1>1, <2>0, StepSaves
  <2>2. got.jobs = jobs \/ \E j \in JobSet : j.kind = "job" /\ got.jobs = Append(jobs, j)
    BY <2>0, <2>1, SavedTyped
  <2> HIDE DEF got
  <2> QED BY <2>1, <2>2, FenceKept
<1>2. ASSUME NEW p \in Parts, NEW n \in 0 .. 1, Dial(p, n) PROVE FenceInv'
  <2>1. ui.pc = "loop" /\ ui'.pc = "flush" /\ jobs' = jobs
    BY <1>2 DEF Dial
  <2> QED BY <2>1, FenceKept
<1>3. CASE FlushPending
  <2>1. /\ ui.pc = "flush" /\ ui' = [ui EXCEPT !.pc = "barrier"]
        /\ jobs' = jobs \/ jobs' = Append(jobs, Job(pend))
    BY <1>3 DEF FlushPending
  <2>2. ui'.pc = "barrier"
    BY <2>1, UiFields DEF Dialing
  <2>3. Job(pend) \in JobSet /\ Job(pend).kind = "job"
    BY PendFields DEF JobSet
  <2> QED BY <2>1, <2>2, <2>3, FenceKept
<1>4. CASE FlushBarrier
  <2>1. /\ ui.pc = "barrier" /\ ui' = [ui EXCEPT !.pc = "fence"] /\ jobs' = Append(jobs, Barrier)
    BY <1>4 DEF FlushBarrier
  <2>2. ui'.pc = "fence"
    BY <2>1, UiFields DEF Dialing
  <2>3. Barrier \in JobSet /\ Barrier.kind = "barrier"
    BY DEF JobSet, Barrier
  <2>4. /\ DOMAIN jobs' = DOMAIN jobs \cup {Len(jobs) + 1} /\ Len(jobs') = Len(jobs) + 1
        /\ \A i \in DOMAIN jobs : jobs'[i] = jobs[i]
        /\ jobs'[Len(jobs) + 1] = Barrier
    BY <2>1, <2>3, QueueAppend
  <2>5. \A i \in DOMAIN jobs : jobs[i].kind # "barrier"
    BY <2>1 DEF FenceInv
  <2>6. jobs' # <<>>
    BY <2>1
  <2> QED BY <2>2, <2>3, <2>4, <2>5, <2>6 DEF FenceInv
<1>5. ASSUME NEW ok \in BOOLEAN, FlushAppend(ok) PROVE FenceInv'
  <2>1. ui.pc = "append" /\ ui'.pc = "loop" /\ jobs' = jobs
    BY <1>5 DEF FlushAppend
  <2>2. \A i \in DOMAIN jobs' : FALSE
    BY <2>1 DEF FenceInv
  <2> QED BY <2>1, <2>2 DEF FenceInv
<1>6. ASSUME NEW ok \in BOOLEAN, WorkerJob(ok) PROVE FenceInv'
  BY <1>6, FenceTail DEF WorkerJob
<1>7. CASE WorkerBarrier
  <2>1. /\ jobs # <<>> /\ Head(jobs).kind = "barrier" /\ jobs' = Tail(jobs)
        /\ ui' = [ui EXCEPT !.pc = "append"]
    BY <1>7 DEF WorkerBarrier
  <2>2. 1 \in DOMAIN jobs /\ jobs[1] = Head(jobs)
    BY <2>1, QueueTail
  <2>3. ui.pc = "fence" /\ Len(jobs) = 1
    BY <2>1, <2>2 DEF FenceInv
  <2>4. ui'.pc = "append"
    BY <2>1, <2>3, UiFields DEF Dialing
  <2>5. jobs' = <<>>
    BY <2>1, <2>3, QueueTail
  <2> QED BY <2>4, <2>5 DEF FenceInv
<1>8. CASE WorkerStop
  BY <1>8, FenceTail DEF WorkerStop
<1>9. CASE WorkerReport
  BY <1>9 DEF WorkerReport, FenceInv
<1>10. CASE Forward
  BY <1>10 DEF Forward, FenceInv
<1>11. CASE UiNet
  BY <1>11 DEF UiNet, FenceInv
<1>12. CASE UiAck
  BY <1>12 DEF UiAck, FenceInv
<1>13. CASE UiDiag
  BY <1>13 DEF UiDiag, FenceInv
<1>14. CASE Quit
  <2>1. ui.pc = "loop" /\ ui'.pc = "drain" /\ jobs' = jobs
    BY <1>14 DEF Quit
  <2> QED BY <2>1, FenceKept
<1>15. CASE DrainSend
  <2>1. /\ ui.pc = "drain" /\ ui.left # <<>> /\ jobs' = Append(jobs, Head(ui.left))
        /\ ui' = [ui EXCEPT !.left = Tail(ui.left)]
    BY <1>15 DEF DrainSend
  <2>2. ui.left \in {<<Stop>>, <<Job(pend), Stop>>}
    BY <2>1 DEF StopInv
  <2>3. ui.left \in Seq(JobSet) /\ Tail(ui.left) \in Seq(JobSet) /\ Head(ui.left) \in JobSet
    BY <2>1, UiFields
  <2>4. ui'.pc = "drain"
    BY <2>1, <2>3, UiFields
  <2>5. Stop.kind = "stop" /\ Job(pend).kind = "job"
    BY DEF Stop, Job
  <2>6. Head(ui.left).kind # "barrier"
    BY <2>2, <2>5
  <2> QED BY <2>1, <2>3, <2>4, <2>6, FenceKept
<1>16. CASE DrainReceive
  <2>1. ui.pc = "drain" /\ ui'.pc \in {"drain", "end"} /\ jobs' = jobs
    BY <1>16 DEF DrainReceive
  <2> QED BY <2>1, FenceKept
<1>17. CASE DrainExpire
  <2>1. ui.pc = "drain" /\ ui'.pc = "expired" /\ jobs' = jobs
    BY <1>17 DEF DrainExpire
  <2> QED BY <2>1, FenceKept
<1>18. CASE UNCHANGED vars
  BY <1>18 DEF vars, FenceInv
<1> QED
  BY <1>1, <1>2, <1>3, <1>4, <1>5, <1>6, <1>7, <1>8, <1>9, <1>10, <1>11, <1>12, <1>13,
     <1>14, <1>15, <1>16, <1>17, <1>18 DEF Next, UiNext, WorkerNext, Ended

-----------------------------------------------------------------------------
(* The order of the queue and of the file                                  *)

LEMMA QueueSets ==
    ASSUME NEW S, NEW q \in Seq(S), NEW j \in S
    PROVE  /\ ToSet(Append(q, j)) = ToSet(q) \cup {j}
           /\ q # <<>> => ToSet(Tail(q)) \subseteq ToSet(q) /\ Head(q) \in ToSet(q)
<1>1. ToSet(Append(q, j)) = ToSet(q) \cup {j}
  <2> DEFINE a == Append(q, j)
  <2>1. /\ DOMAIN a = DOMAIN q \cup {Len(q) + 1} /\ \A i \in DOMAIN q : a[i] = q[i]
        /\ a[Len(q) + 1] = j
    BY QueueAppend
  <2> HIDE DEF a
  <2> QED BY <2>1 DEF ToSet, a
<1>2. ASSUME q # <<>> PROVE ToSet(Tail(q)) \subseteq ToSet(q) /\ Head(q) \in ToSet(q)
  BY <1>2, QueueTail DEF ToSet
<1> QED BY <1>1, <1>2

\* One more job: its rows come after everything that was sent off before.
LEMMA InOrderAppend ==
    ASSUME NEW q \in Seq(JobSet), NEW f, QueueInOrder(q, f), NEW j \in JobSet,
           j.kind = "job" => /\ Owned(j) /\ Ordered(j.rows)
                             /\ AllBefore(ToSet(f) \cup RowsIn(q, "job"), ToSet(j.rows))
    PROVE  QueueInOrder(Append(q, j), f)
<1> DEFINE a == Append(q, j)
<1>1. /\ DOMAIN a = DOMAIN q \cup {Len(q) + 1} /\ DOMAIN q = 1 .. Len(q) /\ Len(q) \in Nat
      /\ \A i \in DOMAIN q : a[i] = q[i] /\ i <= Len(q)
      /\ a[Len(q) + 1] = j
      /\ j.kind = "job" => RowsIn(a, "job") = RowsIn(q, "job") \cup ToSet(j.rows)
      /\ j.kind # "job" => RowsIn(a, "job") = RowsIn(q, "job")
  <2>1. DOMAIN q = 1 .. Len(q) /\ Len(q) \in Nat
    OBVIOUS
  <2> QED BY <2>1, QueueAppend
<1> HIDE DEF a
<1>2. \A i \in DOMAIN a : a[i].kind = "job" => Owned(a[i]) /\ Ordered(a[i].rows)
  BY <1>1 DEF QueueInOrder
<1>3. ASSUME NEW i \in DOMAIN a, NEW k \in DOMAIN a, i < k, a[i].kind = "job", a[k].kind = "job"
      PROVE  AllBefore(ToSet(a[i].rows), ToSet(a[k].rows))
  <2>1. i \in DOMAIN q
    BY <1>1, <1>3
  <2>2. CASE k \in DOMAIN q
    BY <1>1, <1>3, <2>1, <2>2 DEF QueueInOrder
  <2>3. CASE k = Len(q) + 1
    <3>1. ToSet(q[i].rows) \subseteq RowsIn(q, "job")
      BY <1>1, <1>3, <2>1 DEF RowsIn
    <3> QED BY <1>1, <1>3, <2>1, <2>3, <3>1 DEF AllBefore
  <2> QED BY <1>1, <2>2, <2>3
<1>4. AllBefore(ToSet(f), RowsIn(a, "job")) /\ Ordered(f)
  BY <1>1 DEF QueueInOrder, AllBefore
<1> QED BY <1>2, <1>3, <1>4 DEF QueueInOrder, a

\* One job less: its rows, if it has any, go behind the file's.
LEMMA InOrderTail ==
    ASSUME NEW q \in Seq(JobSet), q # <<>>, NEW f \in Seq(Rows), QueueInOrder(q, f)
    PROVE  /\ Head(q).kind # "job" => QueueInOrder(Tail(q), f)
           /\ Head(q).kind = "job" => QueueInOrder(Tail(q), f \o Head(q).rows)
<1> DEFINE t == Tail(q)
<1>1. /\ Head(q) = q[1] /\ 1 \in DOMAIN q /\ Head(q) \in JobSet
      /\ \A i \in DOMAIN t : i + 1 \in DOMAIN q /\ t[i] = q[i + 1] /\ i \in Nat
      /\ Head(q).kind = "job" => RowsIn(q, "job") = ToSet(Head(q).rows) \cup RowsIn(t, "job")
      /\ Head(q).kind # "job" => RowsIn(q, "job") = RowsIn(t, "job")
      /\ t \in Seq(JobSet)
  BY QueueTail
<1> HIDE DEF t
<1>0. \A i \in DOMAIN t : i > 0
  <2>1. t \in Seq(JobSet)
    BY <1>1
  <2> QED BY <2>1
<1>2. /\ \A i \in DOMAIN t : t[i].kind = "job" => Owned(t[i]) /\ Ordered(t[i].rows)
      /\ \A i, k \in DOMAIN t :
             (i < k /\ t[i].kind = "job" /\ t[k].kind = "job") =>
                 AllBefore(ToSet(t[i].rows), ToSet(t[k].rows))
  BY <1>1 DEF QueueInOrder
<1>3. Head(q).kind # "job" => QueueInOrder(t, f)
  BY <1>1, <1>2 DEF QueueInOrder
<1>4. ASSUME Head(q).kind = "job" PROVE QueueInOrder(t, f \o Head(q).rows)
  <2>1. Head(q).rows \in Seq(Rows)
    BY <1>1, <1>4, JobFields
  <2>2. /\ Ordered(f) /\ Ordered(Head(q).rows)
        /\ AllBefore(ToSet(f), ToSet(Head(q).rows)) /\ AllBefore(ToSet(f), RowsIn(t, "job"))
    BY <1>1, <1>4 DEF QueueInOrder, AllBefore
  <2>3. Ordered(f \o Head(q).rows)
    BY <2>1, <2>2, OrderedCat
  <2>4. ToSet(f \o Head(q).rows) = ToSet(f) \cup ToSet(Head(q).rows)
    BY <2>1, CatSets
  <2>5. AllBefore(ToSet(Head(q).rows), RowsIn(t, "job"))
    <3> SUFFICES ASSUME NEW i \in DOMAIN t, t[i].kind = "job"
                 PROVE  AllBefore(ToSet(Head(q).rows), ToSet(t[i].rows))
      BY DEF RowsIn, AllBefore
    <3> QED BY <1>0, <1>1, <1>4 DEF QueueInOrder
  <2> QED BY <1>2, <2>2, <2>3, <2>4, <2>5 DEF QueueInOrder, AllBefore
<1> QED BY <1>3, <1>4 DEF t

\* Rows of one part above an id come after all its rows up to that id.
LEMMA AboveAll ==
    ASSUME NEW A \in SUBSET Rows, NEW B \in SUBSET Rows, NEW p \in Parts, NEW floor \in Nat,
           \A a \in A : InRange(a, p) => IdOf(a) <= floor,
           \A b \in B : InRange(b, p) /\ IdOf(b) > floor
    PROVE  AllBefore(A, B)
<1> SUFFICES ASSUME NEW a \in A, NEW b \in B, NEW q \in Parts, InRange(a, q), InRange(b, q)
             PROVE  IdOf(a) < IdOf(b)
  BY DEF AllBefore, Before
<1>1. IdOf(a) \in Nat /\ IdOf(b) \in Nat
  BY DEF Rows, IdOf
<1>2. p = q
  BY <1>1, RangesApart DEF InRange, IdRange
<1> QED BY <1>1, <1>2

\* Everything that was sent off is a row.
LEMMA SavedRows ==
    ASSUME TypeInv
    PROVE  /\ ToSet(file) \in SUBSET Rows /\ Queued \in SUBSET Rows /\ Saved \in SUBSET Rows
           /\ ToSet(pend.rows) \in SUBSET Rows
<1>1. ASSUME NEW row \in Queued PROVE row \in Rows
  <2>1. PICK i \in DOMAIN jobs : jobs[i].kind = "job" /\ row \in ToSet(jobs[i].rows)
    BY <1>1, QueueHas DEF Queued
  <2>2. jobs[i] \in JobSet
    BY TypeFacts
  <2>3. jobs[i].rows \in Seq(Rows)
    BY <2>1, <2>2, JobFields
  <2> QED BY <2>1, <2>3, CatSets
<1>2. ToSet(file) \subseteq Rows /\ ToSet(pend.rows) \subseteq Rows
  <2>1. file \in Seq(Rows) /\ pend.rows \in Seq(Rows)
    BY TypeFacts, PendFields
  <2> QED BY <2>1, CatSets
<1> QED BY <1>1, <1>2 DEF Saved

-----------------------------------------------------------------------------
(* The rows                                                                *)

LEMMA QuietFacts ==
    ASSUME IInv, fails = 0
    PROVE  /\ TypeInv /\ StopInv /\ FenceInv
           /\ ReportInv /\ FloorInv /\ JobsInv /\ PendInv /\ DialInv
           /\ (\A p \in DOMAIN ep : ep[p] = 0) => KeptInv
BY DEF IInv, QuietInv

\* The rows on their way stay where they are.
LEMMA RowsStay ==
    ASSUME IInv, fails = 0, UNCHANGED <<log, hold, pend, file, rows, ep>>,
           Queued' = Queued,
           \A j \in ToSet(jobs') : j.kind = "job" => j \in ToSet(jobs)
    PROVE  /\ Saved' = Saved /\ FloorInv'
           /\ (Waiting' => Waiting) /\ (~Waiting' /\ ui'.pc # "expired" => ~Waiting /\ ui.pc # "expired")
                  => PendInv'
           /\ (ui'.pc \in Dialing => /\ ui.pc \in Dialing /\ ui'.part = ui.part
                                     /\ ui'.seq = ui.seq /\ ui'.data = ui.data)
                  => DialInv'
           /\ (Transition \subseteq Transition' /\ made' = made)
                  => ((\A p \in DOMAIN ep' : ep'[p] = 0) => KeptInv')
<1>1. Saved' = Saved
  BY DEF Saved
<1>2. FloorInv'
  BY <1>1, QuietFacts DEF FloorInv
<1>3. (Waiting' => Waiting) /\ (~Waiting' /\ ui'.pc # "expired" => ~Waiting /\ ui.pc # "expired")
          => PendInv'
  BY <1>1, QuietFacts DEF PendInv
<1>4. ASSUME ui'.pc \in Dialing => /\ ui.pc \in Dialing /\ ui'.part = ui.part
                                   /\ ui'.seq = ui.seq /\ ui'.data = ui.data
      PROVE  DialInv'
  BY <1>4, QuietFacts DEF DialInv
<1>5. ASSUME Transition \subseteq Transition', made' = made, \A p \in DOMAIN ep' : ep'[p] = 0
      PROVE  KeptInv'
  <2>1. KeptInv
    BY <1>5, QuietFacts
  <2> QED BY <1>1, <1>5, <2>1 DEF KeptInv
<1> QED BY <1>1, <1>2, <1>3, <1>4, <1>5

\* The steps that touch neither floor, file, overflow nor client.
LEMMA ReportStays ==
    ASSUME IInv, fails = 0, log' = log, UNCHANGED worker,
           \A i \in DOMAIN main' : \/ \E k \in DOMAIN main : main'[i] = main[k]
                                   \/ main'[i].kind \in {"net", "done"}
    PROVE  ReportInv'
BY QuietFacts DEF ReportInv, ReportFits

LEMMA QuietBarrier ==
    ASSUME IInv, fails = 0, FlushBarrier PROVE QuietInv'
<1>1. /\ ui.pc = "barrier" /\ ui' = [ui EXCEPT !.pc = "fence"] /\ jobs' = Append(jobs, Barrier)
      /\ UNCHANGED <<log, rows, ep, hold, pend, worker, main, file, made, fails>>
  BY DEF FlushBarrier
<1>2. Barrier \in JobSet /\ Barrier.kind = "barrier" /\ jobs \in Seq(JobSet) /\ ui \in UiSet
  BY QuietFacts, TypeFacts DEF JobSet, Barrier
<1>3. Queued' = Queued
  BY <1>1, <1>2, QueueAppend DEF Queued
<1>4. \A j \in ToSet(jobs') : j.kind = "job" => j \in ToSet(jobs)
  BY <1>1, <1>2, QueueSets
<1>5. ui'.pc = "fence" /\ ui'.part = ui.part /\ ui'.seq = ui.seq /\ ui'.data = ui.data
  BY <1>1, <1>2, UiFields DEF Dialing
<1>6. JobsInv'
  BY <1>1, <1>2, QuietFacts, InOrderAppend DEF JobsInv
<1>7. ReportInv'
  BY <1>1, ReportStays
<1>8. Transition' = Transition
  BY <1>1, <1>5 DEF Transition
<1>9. PendInv' /\ FloorInv' /\ DialInv' /\ ((\A p \in DOMAIN ep' : ep'[p] = 0) => KeptInv')
  BY <1>1, <1>3, <1>4, <1>5, <1>8, RowsStay DEF Waiting, Dialing
<1> QED BY <1>6, <1>7, <1>9 DEF QuietInv

LEMMA QuietTaken ==
    ASSUME IInv, fails = 0, WorkerBarrier \/ WorkerStop PROVE QuietInv'
<1>1. /\ jobs # <<>> /\ Head(jobs).kind \in {"barrier", "stop"} /\ jobs' = Tail(jobs)
      /\ UNCHANGED <<log, rows, ep, hold, pend, main, file, made, fails>>
  BY DEF WorkerBarrier, WorkerStop
<1>2. jobs \in Seq(JobSet) /\ file \in Seq(Rows) /\ ui \in UiSet
  BY QuietFacts, TypeFacts
<1>3. Queued' = Queued
  BY <1>1, <1>2, QueueTail DEF Queued
<1>4. \A j \in ToSet(jobs') : j.kind = "job" => j \in ToSet(jobs)
  <2>1. Head(jobs) \in JobSet
    BY <1>1, <1>2, QueueTail
  <2>2. ToSet(Tail(jobs)) \subseteq ToSet(jobs)
    BY <1>1, <1>2, <2>1, QueueSets
  <2> QED BY <1>1, <2>2
<1>5. JobsInv'
  BY <1>1, <1>2, QuietFacts, InOrderTail DEF JobsInv
<1>6. CASE WorkerBarrier
  <2>1. Head(jobs).kind = "barrier" /\ worker' = worker /\ ui' = [ui EXCEPT !.pc = "append"]
    BY <1>6 DEF WorkerBarrier
  <2>2. ui.pc = "fence"
    <3>1. 1 \in DOMAIN jobs /\ jobs[1] = Head(jobs)
      BY <1>1, <1>2, QueueTail
    <3> QED BY <2>1, <3>1, QuietFacts DEF FenceInv
  <2>3. ui'.pc = "append" /\ ui'.part = ui.part /\ ui'.seq = ui.seq /\ ui'.data = ui.data
    BY <1>2, <2>1, <2>2, UiFields DEF Dialing
  <2>4. Transition' = Transition
    BY <2>2, <2>3 DEF Transition
  <2>5. PendInv' /\ FloorInv' /\ DialInv' /\ ((\A p \in DOMAIN ep' : ep'[p] = 0) => KeptInv')
    BY <1>1, <1>3, <1>4, <2>2, <2>3, <2>4, RowsStay DEF Waiting, Dialing
  <2>6. ReportInv'
    BY <1>1, <2>1, ReportStays
  <2> QED BY <1>5, <2>5, <2>6 DEF QuietInv
<1>7. CASE WorkerStop
  <2>1. worker' = Report([kind |-> "done"]) /\ ui' = ui
    BY <1>7 DEF WorkerStop
  <2>2. Transition' = Transition
    BY <2>1 DEF Transition
  <2>3. PendInv' /\ FloorInv' /\ DialInv' /\ ((\A p \in DOMAIN ep' : ep'[p] = 0) => KeptInv')
    BY <1>1, <1>3, <1>4, <2>1, <2>2, RowsStay DEF Waiting
  <2>4. ReportInv'
    <3>1. worker'.msg.kind = "done"
      BY <2>1 DEF Report
    <3> QED BY <1>1, <2>1, <3>1, QuietFacts DEF ReportInv, ReportFits
  <2> QED BY <1>5, <2>3, <2>4 DEF QuietInv
<1> QED BY <1>6, <1>7

\* Reports and the loop's receives, until the quit.
LEMMA QuietMain ==
    ASSUME IInv, fails = 0, WorkerReport \/ Forward \/ UiNet \/ DrainReceive \/ DrainExpire \/ Quit
    PROVE  QuietInv'
<1>1. UNCHANGED <<log, rows, ep, hold, pend, jobs, file, made, fails>>
  BY DEF WorkerReport, Forward, UiNet, DrainReceive, DrainExpire, Quit
<1>2. main \in Seq(Msgs) /\ worker \in WorkerSet
  BY QuietFacts, TypeFacts
<1>3. Queued' = Queued /\ JobsInv'
  BY <1>1, QuietFacts DEF Queued, JobsInv
<1>4. Saved' = Saved /\ FloorInv'
  BY <1>1, <1>3, RowsStay
<1>5. DialInv' /\ Transition' = Transition
  <2>1. ui' = ui \/ (ui.pc \notin Dialing /\ ui'.pc \notin Dialing)
    BY DEF WorkerReport, Forward, UiNet, DrainReceive, DrainExpire, Quit, Dialing
  <2> QED BY <1>1, <1>3, <2>1, RowsStay DEF Transition, Dialing
<1>6. (\A p \in DOMAIN ep' : ep'[p] = 0) => KeptInv'
  BY <1>1, <1>3, <1>5, RowsStay
<1>7. ReportInv'
  <2>1. CASE WorkerReport
    <3>1. worker.pc = "report" /\ main' = Append(main, worker.msg) /\ worker'.pc # "report"
      BY <2>1 DEF WorkerReport
    <3>2. ReportFits(worker.msg) /\ worker.msg \in Msgs
      BY <1>2, <3>1, QuietFacts, WorkerFields DEF ReportInv
    <3>3. /\ DOMAIN main' = DOMAIN main \cup {Len(main) + 1}
          /\ \A i \in DOMAIN main : main'[i] = main[i]
          /\ main'[Len(main) + 1] = worker.msg
      BY <1>2, <3>1, <3>2, QueueAppend
    <3> QED BY <1>1, <3>1, <3>2, <3>3, QuietFacts DEF ReportInv, ReportFits
  <2>2. CASE Forward
    <3>1. main' = Append(main, [kind |-> "net"]) /\ worker' = worker /\ [kind |-> "net"] \in Msgs
      BY <2>2 DEF Forward, Msgs
    <3>2. /\ DOMAIN main' = DOMAIN main \cup {Len(main) + 1}
          /\ \A i \in DOMAIN main : main'[i] = main[i]
          /\ main'[Len(main) + 1] = [kind |-> "net"]
      BY <1>2, <3>1, QueueAppend
    <3> QED BY <1>1, <3>1, <3>2, ReportStays
  <2>3. CASE UiNet \/ DrainReceive
    <3>1. main # <<>> /\ main' = Tail(main) /\ worker' = worker
      BY <2>3 DEF UiNet, DrainReceive, Received
    <3>2. \A i \in DOMAIN main' : \E k \in DOMAIN main : main'[i] = main[k]
      BY <1>2, <3>1, QueueTail
    <3> QED BY <1>1, <3>1, <3>2, ReportStays
  <2>4. CASE DrainExpire \/ Quit
    <3>1. main' = main /\ worker' = worker
      BY <2>4 DEF DrainExpire, Quit
    <3> QED BY <1>1, <3>1, ReportStays
  <2> QED BY <2>1, <2>2, <2>3, <2>4
<1>8. PendInv'
  <2>1. CASE ui' = ui
    BY <1>1, <1>3, <2>1, RowsStay DEF Waiting
  <2>2. CASE DrainReceive /\ ui' # ui
    <3>1. ui.pc = "drain" /\ main # <<>> /\ Head(main).kind = "done" /\ ui'.pc = "end"
      BY <2>2 DEF DrainReceive
    <3>2. worker.pc = "gone"
      BY <1>2, <3>1, QuietFacts, QueueTail DEF StopInv
    <3>3. ui.left = <<>>
      BY <3>1, <3>2, QuietFacts DEF StopInv, NoStop
    <3>4. ~Waiting
      BY <3>1, <3>3 DEF Waiting
    <3> QED BY <1>1, <1>3, <3>1, <3>4, RowsStay DEF Waiting
  <2>3. CASE DrainExpire
    <3>1. ui'.pc = "expired"
      BY <2>3 DEF DrainExpire
    <3> QED BY <1>1, <1>4, <3>1, QuietFacts DEF PendInv, Waiting
  <2>4. CASE Quit
    <3>1. /\ ui.pc = "loop" /\ ui'.pc = "drain"
          /\ ui'.left = IF pend.rows = <<>> THEN <<Stop>> ELSE <<Job(pend), Stop>>
      BY <2>4 DEF Quit
    <3>2. pend.rows # <<>> => Waiting /\ Waiting'
      BY <3>1 DEF Waiting
    <3>3. pend.rows = <<>> => ToSet(pend.rows) = {}
      BY EmptyOrdered
    <3> QED BY <1>1, <1>4, <3>2, <3>3, QuietFacts DEF PendInv, AllBefore
  <2> QED BY <2>1, <2>2, <2>3, <2>4 DEF WorkerReport, Forward, UiNet
<1> QED BY <1>3, <1>4, <1>5, <1>6, <1>7, <1>8 DEF QuietInv

\* The worker writes a job: its rows go from the queue to the file.
LEMMA QuietJob ==
    ASSUME IInv, fails = 0, fails' = 0, NEW ok \in BOOLEAN, WorkerJob(ok)
    PROVE  QuietInv'
<1>1. /\ jobs # <<>> /\ Head(jobs).kind = "job" /\ jobs' = Tail(jobs)
      /\ file' = file \o Head(jobs).rows
      /\ worker' = Report([kind |-> "ack", part |-> Head(jobs).part, seq |-> Head(jobs).seq])
      /\ UNCHANGED <<log, rows, ep, hold, pend, main, ui, made>>
  BY DEF WorkerJob
<1>2. jobs \in Seq(JobSet) /\ file \in Seq(Rows) /\ Head(jobs) \in JobSet
  BY <1>1, QuietFacts, TypeFacts, QueueTail
<1>3. Head(jobs).rows \in Seq(Rows)
  BY <1>1, <1>2, JobFields
<1>4. Queued = ToSet(Head(jobs).rows) \cup Queued'
  BY <1>1, <1>2, QueueTail DEF Queued
<1>5. ToSet(file') = ToSet(file) \cup ToSet(Head(jobs).rows)
  BY <1>1, <1>2, <1>3, CatSets
<1>6. Saved' = Saved
  BY <1>4, <1>5 DEF Saved
<1>7. ToSet(jobs') \subseteq ToSet(jobs) /\ Head(jobs) \in ToSet(jobs)
  BY <1>1, <1>2, QueueSets
<1>8. JobsInv'
  BY <1>1, <1>2, QuietFacts, InOrderTail DEF JobsInv
<1>9. FloorInv'
  BY <1>1, <1>6, <1>7, QuietFacts DEF FloorInv
<1>10. ReportInv'
  <2>1. Head(jobs).seq <= log[Head(jobs).part]
    BY <1>1, <1>7, QuietFacts DEF FloorInv
  <2>2. ReportFits(worker.msg)'
    BY <1>1, <2>1 DEF Report, ReportFits
  <2> QED BY <1>1, <2>2, QuietFacts DEF ReportInv, ReportFits
<1>11. PendInv' /\ DialInv'
  BY <1>1, <1>6, QuietFacts DEF PendInv, DialInv, Waiting
<1>12. ASSUME \A p \in DOMAIN ep' : ep'[p] = 0 PROVE KeptInv'
  <2>1. Transition' = Transition
    BY <1>1 DEF Transition
  <2> QED BY <1>1, <1>6, <1>12, <2>1, QuietFacts DEF KeptInv
<1> QED BY <1>8, <1>9, <1>10, <1>11, <1>12 DEF QuietInv

\* What pending kept goes behind the queue, before a fence or at the quit.
LEMMA QuietSent ==
    ASSUME IInv, fails = 0, Waiting, ~Waiting', jobs' = Append(jobs, Job(pend)),
           UNCHANGED <<log, rows, ep, hold, pend, worker, main, file, made, fails>>,
           DialInv', Transition' = Transition
    PROVE  QuietInv'
<1>1. jobs \in Seq(JobSet) /\ Job(pend) \in JobSet /\ Job(pend).kind = "job" /\ pend \in Pends
      /\ Job(pend).rows = pend.rows /\ Job(pend).part = pend.part /\ Job(pend).seq = pend.seq
  BY QuietFacts, TypeFacts, PendFields DEF JobSet
<1>2. Queued' = Queued \cup ToSet(pend.rows) /\ ToSet(jobs') = ToSet(jobs) \cup {Job(pend)}
  BY <1>1, QueueAppend, QueueSets DEF Queued
<1>3. Saved' = Saved \cup ToSet(pend.rows)
  BY <1>2 DEF Saved
<1>4. JobsInv'
  <2>1. /\ Owned(Job(pend)) /\ Ordered(Job(pend).rows)
        /\ AllBefore(ToSet(file) \cup RowsIn(jobs, "job"), ToSet(Job(pend).rows))
    BY <1>1, QuietFacts DEF PendInv, Owned, Saved, Queued
  <2> QED BY <1>1, <2>1, QuietFacts, InOrderAppend DEF JobsInv
<1>5. FloorInv'
  BY <1>1, <1>2, <1>3, QuietFacts DEF FloorInv
<1>6. ReportInv'
  BY QuietFacts DEF ReportInv, ReportFits
<1>7. Len(pend.rows) <= OverCap /\ Owned(pend) /\ Ordered(pend.rows)
  BY QuietFacts DEF PendInv
<1>8. ASSUME \A p \in DOMAIN ep' : ep'[p] = 0 PROVE KeptInv'
  BY <1>3, <1>8, QuietFacts DEF KeptInv
<1> QED BY <1>3, <1>4, <1>5, <1>6, <1>7, <1>8 DEF QuietInv, PendInv

LEMMA QuietFlush ==
    ASSUME IInv, fails = 0, FlushPending PROVE QuietInv'
<1>1. /\ ui.pc = "flush" /\ ui' = [ui EXCEPT !.pc = "barrier"]
      /\ jobs' = IF pend.rows = <<>> THEN jobs ELSE Append(jobs, Job(pend))
      /\ UNCHANGED <<log, rows, ep, hold, pend, worker, main, file, made, fails>>
  BY DEF FlushPending
<1>2. ui'.pc = "barrier" /\ ui'.part = ui.part /\ ui'.seq = ui.seq /\ ui'.data = ui.data
  <2>1. ui \in UiSet
    BY QuietFacts, TypeFacts
  <2> QED BY <1>1, <2>1, UiFields DEF Dialing
<1>3. Transition' = Transition /\ Waiting /\ ~Waiting'
  BY <1>1, <1>2 DEF Transition, Waiting
<1>4. DialInv'
  BY <1>1, <1>2, QuietFacts DEF DialInv, Dialing
<1>5. CASE pend.rows # <<>>
  BY <1>1, <1>3, <1>4, <1>5, QuietSent
<1>6. CASE pend.rows = <<>>
  <2>1. jobs' = jobs /\ Queued' = Queued
    BY <1>1, <1>6 DEF Queued
  <2>2. FloorInv' /\ ((\A p \in DOMAIN ep' : ep'[p] = 0) => KeptInv')
    BY <1>1, <1>3, <2>1, RowsStay
  <2>3. PendInv'
    <3>1. ToSet(pend.rows) = {}
      BY <1>6, EmptyOrdered
    <3> QED BY <1>1, <1>3, <3>1, QuietFacts DEF PendInv
  <2>4. JobsInv' /\ ReportInv'
    BY <1>1, <2>1, QuietFacts DEF JobsInv, ReportInv, ReportFits
  <2> QED BY <1>4, <2>2, <2>3, <2>4 DEF QuietInv
<1> QED BY <1>5, <1>6

LEMMA QuietDrain ==
    ASSUME IInv, fails = 0, DrainSend PROVE QuietInv'
<1>1. /\ ui.pc = "drain" /\ ui.left # <<>> /\ jobs' = Append(jobs, Head(ui.left))
      /\ ui' = [ui EXCEPT !.left = Tail(ui.left)]
      /\ UNCHANGED <<log, rows, ep, hold, pend, worker, main, file, made, fails>>
  BY DEF DrainSend
<1>2. ui.left \in {<<Stop>>, <<Job(pend), Stop>>}
  BY <1>1, QuietFacts DEF StopInv
<1>3. ui.left \in Seq(JobSet) /\ ui'.pc = "drain" /\ ui'.left = Tail(ui.left)
  <2>1. ui \in UiSet
    BY QuietFacts, TypeFacts
  <2>2. ui.left \in Seq(JobSet)
    BY <1>1, <2>1, UiFields
  <2>3. Tail(ui.left) \in Seq(JobSet)
    BY <1>1, <2>2
  <2> QED BY <1>1, <2>1, <2>2, <2>3, UiFields
<1>4. DialInv' /\ Transition' = Transition
  BY <1>1, <1>3 DEF DialInv, Transition, Dialing
<1>5. CASE ui.left = <<Job(pend), Stop>>
  <2>1. Head(ui.left) = Job(pend) /\ Len(ui.left) = 2 /\ Len(Tail(ui.left)) = 1
    BY <1>5
  <2>2. Waiting /\ ~Waiting'
    <3>1. ui.pc = "drain" /\ ui'.pc = "drain" /\ Len(ui'.left) = 1
      BY <1>1, <1>3, <2>1
    <3>2. ~(Len(ui'.left) = 2)
      BY <3>1
    <3> QED BY <2>1, <3>1, <3>2 DEF Waiting
  <2> QED BY <1>1, <1>4, <2>1, <2>2, QuietSent
<1>6. CASE ui.left = <<Stop>>
  <2>1. Head(ui.left) = Stop /\ Len(ui.left) = 1 /\ Len(Tail(ui.left)) = 0
    BY <1>6
  <2>2. Stop \in JobSet /\ Stop.kind = "stop" /\ jobs \in Seq(JobSet)
    BY QuietFacts, TypeFacts DEF JobSet, Stop
  <2>3. Queued' = Queued
    BY <1>1, <2>1, <2>2, QueueAppend DEF Queued
  <2>4. \A j \in ToSet(jobs') : j.kind = "job" => j \in ToSet(jobs)
    BY <1>1, <2>1, <2>2, QueueSets
  <2>5. ~Waiting /\ ~Waiting' /\ ui.pc # "expired"
    <3>1. ui.pc = "drain" /\ ui'.pc = "drain" /\ Len(ui'.left) = 0
      BY <1>1, <1>3, <2>1
    <3>2. ~(Len(ui'.left) = 2) /\ ~(Len(ui.left) = 2)
      BY <2>1, <3>1
    <3> QED BY <3>1, <3>2 DEF Waiting
  <2>6. FloorInv' /\ PendInv' /\ ((\A p \in DOMAIN ep' : ep'[p] = 0) => KeptInv')
    BY <1>1, <1>4, <2>3, <2>4, <2>5, RowsStay
  <2>7. JobsInv'
    BY <1>1, <2>1, <2>2, QuietFacts, InOrderAppend DEF JobsInv
  <2>8. ReportInv'
    BY <1>1, ReportStays
  <2> QED BY <1>4, <2>6, <2>7, <2>8 DEF QuietInv
<1> QED BY <1>2, <1>5, <1>6

\* An acknowledgement comes after its floor, and no failure was reported.
LEMMA QuietReport ==
    ASSUME IInv, fails = 0, UiAck \/ UiDiag PROVE QuietInv'
<1>1. main # <<>> /\ main \in Seq(Msgs) /\ Head(main) = main[1] /\ 1 \in DOMAIN main
      /\ Head(main) \in Msgs /\ main' = Tail(main)
      /\ \A i \in DOMAIN Tail(main) : i + 1 \in DOMAIN main /\ Tail(main)[i] = main[i + 1]
  <2>1. main # <<>> /\ main \in Seq(Msgs) /\ main' = Tail(main)
    BY QuietFacts, TypeFacts DEF UiAck, UiDiag, Received
  <2> QED BY <2>1, QueueTail
<1>2. ReportFits(Head(main))
  BY <1>1, QuietFacts DEF ReportInv
<1>3. ~UiDiag
  BY <1>2 DEF UiDiag, Received, ReportFits
<1> DEFINE p == Head(main).part
<1>4. /\ Head(main).kind = "ack" /\ hold' \in {hold, 0}
      /\ log' = [log EXCEPT ![p] = Larger(log[p], Head(main).seq)]
      /\ UNCHANGED <<rows, ep, pend, jobs, worker, ui, file, made, fails>>
  BY <1>3 DEF UiAck, Received
<1>5. log' = log
  <2>1. Head(main).seq <= log[p] /\ Head(main).seq \in Nat /\ p \in Parts /\ log[p] \in Nat
    <3>1. p \in Parts /\ Head(main).seq \in Nat
      BY <1>1, <1>4, MsgFields
    <3> QED BY <1>2, <1>4, <3>1, QuietFacts, TypeFacts DEF ReportFits
  <2>2. Larger(log[p], Head(main).seq) = log[p]
    BY <2>1 DEF Larger
  <2>3. log \in [Parts -> Nat]
    BY QuietFacts DEF TypeInv
  <2> HIDE DEF p
  <2> QED BY <1>4, <2>2, <2>3
<1>6. \A q \in Parts : HoldIn(hold', q) <= log'[q]
  <2> SUFFICES ASSUME NEW q \in Parts PROVE HoldIn(hold', q) <= log'[q]
    OBVIOUS
  <2>1. HoldIn(0, q) = 0 /\ log[q] \in Nat
    BY QuietFacts, TypeFacts DEF HoldIn
  <2>2. HoldIn(hold, q) <= log[q]
    BY QuietFacts DEF FloorInv
  <2> QED BY <1>4, <1>5, <2>1, <2>2
<1>7. Queued' = Queued /\ Saved' = Saved /\ Transition' = Transition
  BY <1>4 DEF Queued, Saved, Transition
<1>8. FloorInv'
  BY <1>4, <1>5, <1>6, <1>7, QuietFacts DEF FloorInv
<1>9. ReportInv'
  BY <1>1, <1>4, <1>5, QuietFacts DEF ReportInv, ReportFits
<1>10. JobsInv' /\ PendInv' /\ DialInv'
  BY <1>4, <1>5, <1>7, QuietFacts DEF JobsInv, PendInv, DialInv, Waiting
<1>11. ASSUME \A q \in DOMAIN ep' : ep'[q] = 0 PROVE KeptInv'
  BY <1>4, <1>5, <1>7, <1>11, QuietFacts DEF KeptInv
<1> QED BY <1>8, <1>9, <1>10, <1>11 DEF QuietInv

LEMMA HoldBelow ==
    ASSUME IInv, fails = 0, NEW p \in Parts
    PROVE  Larger(log[p], HoldIn(hold, p)) = log[p]
<1>1. HoldIn(hold, p) \in Nat /\ log[p] \in Nat /\ HoldIn(hold, p) <= log[p]
  BY QuietFacts, TypeFacts, HoldInRange DEF FloorInv
<1> QED BY <1>1 DEF Larger

LEMMA QuietDial ==
    ASSUME IInv, fails = 0, NEW p \in Parts, NEW n \in 0 .. 1, Dial(p, n)
    PROVE  QuietInv'
<1> DEFINE seq == Top(p) + n
           kept == NewRows(p, ep[p] + 1, n)
           data == Extract(kept, log[p])
<1>0. n \in Nat /\ (n = 0 \/ n = 1) /\ ep[p] \in Nat /\ ep[p] + 1 \in Nat
  BY QuietFacts, TypeFacts
<1>1. /\ ui.pc = "loop" /\ seq <= IdBase(p) + FirstId + MaxRows
      /\ made' = made \cup kept
      /\ ui' = [pc |-> "flush", part |-> p, rows |-> kept,
                seq |-> IF n = 0 THEN log[p] ELSE seq, hold |-> hold,
                data |-> Extract(kept, Larger(log[p], HoldIn(hold, p)))]
      /\ UNCHANGED <<log, rows, ep, hold, pend, jobs, worker, main, file, fails>>
  BY DEF Dial
<1>2. Larger(log[p], HoldIn(hold, p)) = log[p]
  BY HoldBelow
<1>3. /\ Stored(kept, p) /\ seq >= log[p] /\ log[p] \in Nat /\ Top(p) \in Nat
      /\ \A row \in kept : IdOf(row) <= seq /\ IdOf(row) > log[p]
  BY <1>0, <1>1, QuietFacts, TypeFacts, NewRowsStored
<1>4. data \in Seq(Rows) /\ ToSet(data) = {row \in kept : IdOf(row) > log[p]} /\ Ordered(data)
  <2> HIDE DEF kept
  <2> QED BY <1>3, Extracted
<1>5. ToSet(data) = kept
  <2> HIDE DEF kept, data
  <2> QED BY <1>3, <1>4
<1>6. n = 0 => kept = {}
  <2>1. n = 0 => Top(p) + 1 .. Top(p) + n = {}
    BY <1>3
  <2> QED BY <2>1 DEF NewRows
<1> HIDE DEF seq, kept, data
<1>7. /\ ui'.pc = "flush" /\ ui'.part = p /\ ui'.data = data
      /\ ui'.seq = IF n = 0 THEN log[p] ELSE seq
  BY <1>1, <1>2 DEF data
<1>8. \A row \in ToSet(data) : InRange(row, p) /\ IdOf(row) \in log[p] + 1 .. seq
                               /\ IdOf(row) \in Nat
  <2>1. seq \in Nat
    BY <1>0, <1>3 DEF seq
  <2>2. \A row \in kept : InRange(row, p) /\ IdOf(row) \in Nat
    BY <1>3 DEF Stored, Rows, IdOf
  <2> QED BY <1>3, <1>5, <2>1, <2>2
<1>9. DialInv'
  <2>1. Ordered(ui'.data) /\ log[p] <= ui'.seq
    BY <1>3, <1>4, <1>7
  <2>2. \A row \in ToSet(ui'.data) : InRange(row, p) /\ IdOf(row) \in log[p] + 1 .. ui'.seq
    <3>1. CASE n = 0
      BY <1>5, <1>6, <1>7, <3>1
    <3>2. CASE n # 0
      BY <1>7, <1>8, <3>2
    <3> QED BY <3>1, <3>2
  <2> QED BY <1>1, <1>7, <2>1, <2>2 DEF DialInv
<1>10. Queued' = Queued /\ Saved' = Saved
  BY <1>1 DEF Queued, Saved
<1>11. FloorInv' /\ PendInv'
  BY <1>1, <1>7, <1>10, RowsStay DEF Waiting
<1>12. JobsInv' /\ ReportInv'
  BY <1>1, QuietFacts DEF JobsInv, ReportInv, ReportFits
<1>13. ASSUME \A q \in DOMAIN ep' : ep'[q] = 0 PROVE KeptInv'
  <2>1. KeptInv
    BY <1>1, <1>13, QuietFacts
  <2>2. Transition = {} /\ Transition' = kept
    BY <1>1, <1>5, <1>7 DEF Transition
  <2> QED BY <1>1, <1>10, <2>1, <2>2 DEF KeptInv
<1> QED BY <1>9, <1>11, <1>12, <1>13 DEF QuietInv

\* The transition goes behind the file, with nothing queued before it.
LEMMA QuietAppend ==
    ASSUME IInv, TypeInv', fails = 0, fails' = 0, NEW ok \in BOOLEAN, FlushAppend(ok)
    PROVE  QuietInv'
<1> DEFINE p == ui.part
<1>1. /\ ui.pc = "append" /\ file' = file \o ui.data
      /\ pend' = NoPend /\ hold' = 0 /\ ep' = [ep EXCEPT ![p] = ep[p] + 1]
      /\ log' = [log EXCEPT ![p] = ui.seq] /\ ui' = [pc |-> "loop"]
      /\ UNCHANGED <<jobs, worker, main, made>>
  <2>1. ok
    BY DEF FlushAppend
  <2> QED BY <2>1 DEF FlushAppend
<1>2. /\ p \in Parts /\ ui.seq \in Nat /\ ui.data \in Seq(Rows) /\ file \in Seq(Rows)
      /\ log \in [Parts -> Nat] /\ ep \in [Parts -> Nat]
  <2>1. ui \in UiSet /\ ui.pc \in Dialing
    BY <1>1, QuietFacts, TypeFacts DEF Dialing
  <2> QED BY <2>1, UiFields, QuietFacts DEF TypeInv
<1>3. /\ Ordered(ui.data) /\ log[p] <= ui.seq
      /\ \A row \in ToSet(ui.data) : InRange(row, p) /\ IdOf(row) \in log[p] + 1 .. ui.seq
  BY <1>1, QuietFacts DEF DialInv, Dialing
<1> HIDE DEF p
<1>4. \A q \in Parts : log[q] <= log'[q] /\ log[q] \in Nat /\ log'[q] \in Nat
  BY <1>1, <1>2, <1>3
<1>5. jobs = <<>> /\ jobs' = <<>> /\ Queued = {} /\ Queued' = {}
  BY <1>1, QuietFacts, QueueEmpty DEF FenceInv, Queued
<1>6. /\ ToSet(file') = ToSet(file) \cup ToSet(ui.data)
      /\ ToSet(ui.data) \subseteq Rows /\ ToSet(file) \subseteq Rows
  BY <1>1, <1>2, CatSets
<1>7. \A row \in ToSet(file), q \in Parts : InRange(row, q) => IdOf(row) <= log[q]
  BY QuietFacts DEF FloorInv, Saved
<1>8. AllBefore(ToSet(file), ToSet(ui.data))
  <2>1. \A row \in ToSet(ui.data) : InRange(row, p) /\ IdOf(row) > log[p]
    <3>1. log[p] \in Nat /\ ui.seq \in Nat
      BY <1>2, <1>4
    <3>2. ASSUME NEW k \in log[p] + 1 .. ui.seq PROVE k > log[p]
      BY <3>1
    <3> SUFFICES ASSUME NEW row \in ToSet(ui.data) PROVE InRange(row, p) /\ IdOf(row) > log[p]
      OBVIOUS
    <3>3. InRange(row, p) /\ IdOf(row) \in log[p] + 1 .. ui.seq
      BY <1>3
    <3> QED BY <3>2, <3>3
  <2>2. p \in Parts /\ log[p] \in Nat /\ ToSet(file) \in SUBSET Rows /\ ToSet(ui.data) \in SUBSET Rows
    BY <1>2, <1>4, <1>6
  <2>3. \A row \in ToSet(file) : InRange(row, p) => IdOf(row) <= log[p]
    BY <1>7, <2>2
  <2> QED BY <2>1, <2>2, <2>3, AboveAll
<1>9. JobsInv'
  <2>1. Ordered(file')
    BY <1>1, <1>2, <1>3, <1>8, QuietFacts, OrderedCat DEF JobsInv, QueueInOrder
  <2> QED BY <1>5, <2>1, QueueEmpty DEF JobsInv, QueueInOrder, AllBefore
<1>10. NoPend.rows = <<>> /\ ToSet(NoPend.rows) = {} /\ Ordered(<<>>) /\ NoPend.seq = 0 /\ NoPend.part \in Parts
  BY NoPendTyped, EmptyOrdered
<1>11. PendInv'
  <2>1. Len(NoPend.rows) = 0 /\ 0 <= OverCap
    BY <1>10, ConstantsTyped
  <2>2. Owned(NoPend)
    BY <1>10 DEF Owned
  <2> QED BY <1>1, <1>10, <2>1, <2>2 DEF PendInv, AllBefore, Waiting
<1>12. FloorInv'
  <2>1. \A q \in Parts : HoldIn(hold', q) <= log'[q]
    <3>1. \A q \in Parts : HoldIn(0, q) = 0
      BY DEF HoldIn
    <3> QED BY <1>1, <1>4, <3>1
  <2>2. pend'.seq <= log'[pend'.part]
    BY <1>1, <1>4, <1>10
  <2>3. ToSet(jobs') = {}
    BY <1>5, EmptyOrdered
  <2>4. \A row \in ToSet(file'), q \in Parts : InRange(row, q) => IdOf(row) <= log'[q]
    <3> SUFFICES ASSUME NEW row \in ToSet(file'), NEW q \in Parts, InRange(row, q)
                 PROVE  IdOf(row) <= log'[q]
      OBVIOUS
    <3>0. IdOf(row) \in Nat
      BY <1>6 DEF Rows, IdOf
    <3>1. CASE row \in ToSet(file)
      BY <1>4, <1>7, <3>0, <3>1
    <3>2. CASE row \in ToSet(ui.data)
      <4>1. InRange(row, p) /\ IdOf(row) <= ui.seq
        BY <1>2, <1>3, <1>4, <3>0, <3>2
      <4>2. p = q
        BY <1>2, <3>0, <4>1, RangesApart DEF InRange, IdRange
      <4> QED BY <1>1, <1>2, <4>1, <4>2
    <3> QED BY <1>6, <3>1, <3>2
  <2>5. (Saved \cup ToSet(pend.rows))' = ToSet(file')
    BY <1>1, <1>5, <1>10 DEF Saved
  <2> QED BY <2>1, <2>2, <2>3, <2>4, <2>5 DEF FloorInv
<1>13. ReportInv'
  <2>1. \A m \in Msgs : ReportFits(m) => ReportFits(m)'
    <3> SUFFICES ASSUME NEW m \in Msgs, ReportFits(m) PROVE ReportFits(m)'
      OBVIOUS
    <3>1. m.kind = "ack" => m.part \in Parts /\ m.seq \in Nat
      BY MsgFields
    <3> QED BY <1>4, <3>1 DEF ReportFits
  <2>2. main \in Seq(Msgs) /\ (worker.pc = "report" => worker.msg \in Msgs)
    BY QuietFacts, TypeFacts, WorkerFields
  <2>3. \A i \in DOMAIN main : main[i] \in Msgs
    BY <2>2
  <2> QED BY <1>1, <2>1, <2>2, <2>3, QuietFacts DEF ReportInv
<1>14. DialInv' /\ ep'[p] # 0
  BY <1>1, <1>2 DEF DialInv, Dialing
<1>15. ~(\A q \in DOMAIN ep' : ep'[q] = 0)
  BY <1>1, <1>2, <1>14
<1> QED BY <1>9, <1>11, <1>12, <1>13, <1>14, <1>15 DEF QuietInv

(* What a save of part p offers, while no append has failed: its rows come *)
(* after everything sent off or waiting, and it is taken, kept or refused. *)
LEMMA SaveOffers ==
    ASSUME IInv, fails = 0, ui.pc = "loop", NEW p \in Parts, NEW n \in Nat, n > 0,
           Top(p) + n <= IdBase(p) + FirstId + MaxRows
    PROVE  LET got == SavedBy(p, n)
               seq == Top(p) + n
               data == Extract(rows[p] \cup NewRows(p, ep[p], n), log[p])
           IN  /\ \/ got.notice /\ got.pend = pend /\ got.jobs = jobs
                  \/ \E o \in Pends :
                        /\ ~got.notice /\ ~got.durable
                        /\ o.part = p /\ o.seq <= seq /\ o.rows = pend.rows \o data
                        /\ Ordered(o.rows) /\ Owned(o)
                        /\ ToSet(o.rows) = ToSet(pend.rows) \cup ToSet(data)
                        /\ AllBefore(Saved, ToSet(o.rows))
                        /\ \/ got.pend = NoPend /\ got.jobs = Append(jobs, Job(o))
                           \/ got.pend = o /\ Len(o.rows) <= OverCap /\ got.jobs = jobs
<1> DEFINE got == SavedBy(p, n)
           seq == Top(p) + n
           kept == rows[p] \cup NewRows(p, ep[p], n)
           data == Extract(kept, log[p])
           o == Offer(pend, data, p, log[p], seq)
<1>1. Larger(log[p], HoldIn(hold, p)) = log[p]
  BY HoldBelow
<1>2. /\ Stored(kept, p) /\ seq \in Nat /\ seq \in IdRange(p)
      /\ data \in Seq(Rows) /\ Ordered(data)
      /\ ToSet(data) = {row \in kept : IdOf(row) > log[p]}
  BY <1>1, QuietFacts, SavedTyped
<1>3. /\ seq >= log[p]
      /\ \E row \in NewRows(p, ep[p], n) : IdOf(row) = seq
      /\ \A row \in NewRows(p, ep[p], n) : IdOf(row) > log[p]
  BY QuietFacts, TypeFacts, NewRowsStored
<1>4. log[p] \in Nat /\ log[p] \in IdRange(p) /\ pend \in Pends /\ Marked(pend)
  BY QuietFacts, TypeFacts
<1>5. got = IF OfferAccepted(pend, p) THEN Write(pend, o, jobs) ELSE Refused(pend, jobs)
  BY <1>1 DEF SavedBy
<1> HIDE DEF got, o, seq, kept
<1>6. CASE ~OfferAccepted(pend, p)
  <2>1. got = Refused(pend, jobs)
    BY <1>5, <1>6
  <2> QED BY <2>1 DEF Refused, got, kept
<1>7. CASE OfferAccepted(pend, p)
  <2>1. /\ o \in Pends /\ o.part = p /\ o.rows = pend.rows \o data
        /\ o.seq = seq \/ (o.seq = pend.seq /\ pend.part = p)
    <3> HIDE DEF data
    <3> QED BY <1>2, <1>4, <1>7, OfferTyped DEF o
  <2>2. got = Write(pend, o, jobs)
    BY <1>5, <1>7
  <2>3. ToSet(data) # {}
    <3> HIDE DEF data
    <3>1. PICK row \in NewRows(p, ep[p], n) : IdOf(row) > log[p]
      BY <1>3
    <3>2. row \in kept
      BY DEF kept
    <3> QED BY <1>2, <3>1, <3>2
  <2> HIDE DEF data
  <2>4. pend.rows \in Seq(Rows) /\ ToSet(pend.rows) \subseteq Rows /\ ToSet(data) \subseteq Rows
        /\ ToSet(o.rows) = ToSet(pend.rows) \cup ToSet(data)
    BY <1>2, <1>4, <2>1, PendFields, CatSets
  <2>5. o.rows # <<>>
    <3>1. ToSet(o.rows) # {}
      BY <2>3, <2>4
    <3> QED BY <3>1, EmptyOrdered
  <2>6. o.seq <= seq
    <3>1. pend.seq <= log[pend.part] /\ pend.seq \in Nat
      BY <1>4, QuietFacts, PendFields DEF FloorInv
    <3> QED BY <1>2, <1>3, <1>4, <2>1, <3>1
  <2>7. \A row \in ToSet(data) : InRange(row, p) /\ IdOf(row) > log[p]
    BY <1>2 DEF Stored
  <2>8. AllBefore(Saved \cup ToSet(pend.rows), ToSet(data))
    <3>1. Saved \in SUBSET Rows
      BY QuietFacts, SavedRows
    <3>2. \A row \in Saved \cup ToSet(pend.rows) : InRange(row, p) => IdOf(row) <= log[p]
      BY QuietFacts DEF FloorInv
    <3>3. Saved \cup ToSet(pend.rows) \in SUBSET Rows
      BY <2>4, <3>1
    <3> HIDE DEF Saved
    <3> QED BY <1>4, <2>4, <2>7, <3>2, <3>3, AboveAll
  <2>9. AllBefore(Saved, ToSet(pend.rows)) /\ Ordered(pend.rows) /\ Owned(pend)
        /\ Len(pend.rows) <= OverCap
    BY QuietFacts DEF PendInv, Waiting
  <2>10. AllBefore(Saved, ToSet(o.rows)) /\ Ordered(o.rows)
    <3>1. AllBefore(Saved, ToSet(data)) /\ AllBefore(ToSet(pend.rows), ToSet(data))
      BY <2>8 DEF AllBefore
    <3>2. Ordered(o.rows)
      BY <1>2, <2>1, <2>4, <2>9, <3>1, OrderedCat
    <3>3. AllBefore(Saved, ToSet(o.rows))
      BY <2>4, <2>9, <3>1 DEF AllBefore
    <3> QED BY <3>2, <3>3
  <2>11. Owned(o)
    <3>1. ToSet(pend.rows) # {} => pend.part = p
      BY <1>7, EmptyOrdered DEF OfferAccepted
    <3> QED BY <2>1, <2>4, <2>7, <2>9, <3>1 DEF Owned
  <2>12. ~Over(pend)
    <3>1. Len(pend.rows) \in Nat
      BY <2>4
    <3> QED BY <2>9, <3>1, ConstantsTyped DEF Over
  <2>13. ~Over(o) => Len(o.rows) <= OverCap
    <3>1. o.rows \in Seq(Rows)
      BY <2>1, PendFields
    <3>2. Len(o.rows) \in Nat
      BY <3>1
    <3> QED BY <3>2, ConstantsTyped DEF Over
  <2>14. /\ ~got.durable
         /\ \/ ~got.notice /\ got.pend = NoPend /\ got.jobs = Append(jobs, Job(o))
            \/ ~got.notice /\ got.pend = o /\ ~Over(o) /\ got.jobs = jobs
            \/ got.notice /\ got.pend = pend /\ got.jobs = jobs
    <3> DEFINE w == Write(pend, o, jobs)
    <3>0. o \in Pends /\ pend \in Pends
      BY <1>4, <2>1
    <3>1. /\ ~w.durable
          /\ \/ ~w.notice /\ w.pend = NoPend /\ w.jobs = Append(jobs, Job(o))
             \/ ~w.notice /\ w.pend = o /\ ~Over(o) /\ w.jobs = jobs
             \/ w.notice /\ w.pend = pend /\ w.jobs = jobs
      BY <2>5, <2>12, <3>0, WriteQuiet
    <3>2. got = w
      BY <2>2
    <3> HIDE DEF w
    <3> QED BY <3>1, <3>2
  <2> QED BY <2>1, <2>4, <2>6, <2>10, <2>11, <2>13, <2>14 DEF got, seq, kept, data
<1> QED BY <1>6, <1>7

LEMMA QuietSave ==
    ASSUME IInv, fails = 0, NEW p \in Parts, NEW n \in 1 .. 2, Step(p, n)
    PROVE  QuietInv'
<1> DEFINE got == SavedBy(p, n)
           seq == Top(p) + n
           fresh == NewRows(p, ep[p], n)
           kept == rows[p] \cup fresh
           data == Extract(kept, log[p])
<1>0. n \in Nat /\ n > 0
  OBVIOUS
<1>1. /\ ui.pc = "loop" /\ seq <= IdBase(p) + FirstId + MaxRows
      /\ rows' = [rows EXCEPT ![p] = kept]
      /\ made' = made \cup fresh
      /\ pend' = got.pend /\ jobs' = got.jobs
      /\ log' = [log EXCEPT ![p] = IF got.notice THEN log[p] ELSE seq]
      /\ hold' = CASE got.notice -> 0
                   [] ~got.notice /\ got.durable -> hold
                   [] ~got.notice /\ ~got.durable -> Larger(hold, seq)
      /\ UNCHANGED <<ep, worker, main, ui, file, fails>>
  BY <1>0, StepSaves
<1>2. /\ log \in [Parts -> Nat] /\ rows \in [Parts -> SUBSET Rows]
      /\ jobs \in Seq(JobSet) /\ pend \in Pends /\ hold \in Nat
      /\ \A q \in Parts : log[q] \in Nat /\ log[q] \in IdRange(q)
  BY QuietFacts, TypeFacts DEF TypeInv
<1>3. /\ seq >= log[p] /\ seq \in IdRange(p)
      /\ \A row \in fresh : IdOf(row) > log[p] /\ IdOf(row) <= seq
      /\ \A row \in rows[p] : IdOf(row) <= seq
  BY <1>0, <1>1, QuietFacts, TypeFacts, NewRowsStored
<1>4. /\ Stored(kept, p) /\ seq \in Nat
      /\ data \in Seq(Rows) /\ ToSet(data) = {row \in kept : IdOf(row) > log[p]}
  BY <1>0, <1>1, HoldBelow, QuietFacts, SavedTyped
<1>5. \/ got.notice /\ got.pend = pend /\ got.jobs = jobs
      \/ \E o \in Pends :
            /\ ~got.notice /\ ~got.durable
            /\ o.part = p /\ o.seq <= seq /\ o.rows = pend.rows \o data
            /\ Ordered(o.rows) /\ Owned(o)
            /\ ToSet(o.rows) = ToSet(pend.rows) \cup ToSet(data)
            /\ AllBefore(Saved, ToSet(o.rows))
            /\ \/ got.pend = NoPend /\ got.jobs = Append(jobs, Job(o))
               \/ got.pend = o /\ Len(o.rows) <= OverCap /\ got.jobs = jobs
  BY <1>0, <1>1, SaveOffers
<1> HIDE DEF got, seq, fresh, kept, data
<1>6. \A q \in Parts : log'[q] \in Nat /\ log[q] <= log'[q]
  BY <1>1, <1>2, <1>3, <1>4
<1>7. ReportInv'
  <2>1. \A m \in Msgs : ReportFits(m) => ReportFits(m)'
    <3> SUFFICES ASSUME NEW m \in Msgs, ReportFits(m) PROVE ReportFits(m)'
      OBVIOUS
    <3>1. m.kind = "ack" => m.part \in Parts /\ m.seq \in Nat
      BY MsgFields
    <3> QED BY <1>2, <1>6, <3>1 DEF ReportFits
  <2>2. main \in Seq(Msgs) /\ (worker.pc = "report" => worker.msg \in Msgs)
    BY QuietFacts, TypeFacts, WorkerFields
  <2>3. \A i \in DOMAIN main : main[i] \in Msgs
    BY <2>2
  <2> QED BY <1>1, <2>1, <2>2, <2>3, QuietFacts DEF ReportInv
<1>8. DialInv' /\ Transition' = Transition /\ Waiting'
  BY <1>1 DEF DialInv, Dialing, Transition, Waiting
<1>9. /\ HoldIn(0, p) = 0 /\ \A q \in Parts : HoldIn(0, q) = 0
      /\ \A q \in Parts : HoldIn(hold, q) <= log[q] /\ HoldIn(hold, q) \in Nat
  BY <1>2, HoldInRange, QuietFacts DEF HoldIn, FloorInv
<1>10. CASE got.notice /\ got.pend = pend /\ got.jobs = jobs
  <2>1. pend' = pend /\ jobs' = jobs /\ log' = log /\ hold' = 0
    BY <1>1, <1>2, <1>10
  <2>2. Queued' = Queued /\ Saved' = Saved
    BY <1>1, <2>1 DEF Queued, Saved
  <2>3. FloorInv'
    BY <1>1, <1>2, <1>9, <2>1, <2>2, QuietFacts DEF FloorInv
  <2>4. JobsInv' /\ PendInv'
    BY <1>1, <2>1, <2>2, QuietFacts DEF JobsInv, PendInv, Waiting
  <2>5. ASSUME \A q \in DOMAIN ep' : ep'[q] = 0 PROVE KeptInv'
    <3>1. KeptInv
      BY <1>1, <2>5, QuietFacts
    <3>2. \A row \in fresh : ~(IdOf(row) <= log[p])
      BY <1>2, <1>3, <1>4 DEF kept, Stored, Rows, IdOf
    <3>3. \A q \in Parts : \A row \in rows'[q] : row \in rows[q] \/ (q = p /\ row \in fresh)
      BY <1>1, <1>2 DEF kept
    <3>4. \A row \in made' : row \in made \/ row \in rows'[p]
      BY <1>1, <1>2 DEF kept
    <3>5. \A q \in Parts : rows[q] \subseteq rows'[q]
      BY <1>1, <1>2 DEF kept
    <3> QED BY <1>8, <2>1, <2>2, <3>1, <3>2, <3>3, <3>4, <3>5 DEF KeptInv
  <2> QED BY <1>7, <1>8, <2>3, <2>4, <2>5 DEF QuietInv
<1>11. ASSUME NEW o \in Pends,
              ~got.notice /\ ~got.durable,
              o.part = p /\ o.seq <= seq /\ o.rows = pend.rows \o data,
              Ordered(o.rows) /\ Owned(o),
              ToSet(o.rows) = ToSet(pend.rows) \cup ToSet(data),
              AllBefore(Saved, ToSet(o.rows)),
              \/ got.pend = NoPend /\ got.jobs = Append(jobs, Job(o))
              \/ got.pend = o /\ Len(o.rows) <= OverCap /\ got.jobs = jobs
       PROVE  QuietInv'
  <2>1. /\ log' = [log EXCEPT ![p] = seq] /\ hold' = Larger(hold, seq)
        /\ pend' = got.pend /\ jobs' = got.jobs /\ file' = file
    BY <1>1, <1>11
  <2>2. /\ Job(o) \in JobSet /\ Job(o).kind = "job" /\ Job(o).rows = o.rows
        /\ Job(o).part = o.part /\ Job(o).seq = o.seq /\ o.seq \in Nat
    BY PendFields DEF JobSet
  <2>3. NoPend.rows = <<>> /\ ToSet(NoPend.rows) = {} /\ Ordered(NoPend.rows)
        /\ NoPend.seq = 0 /\ NoPend.part \in Parts
    BY NoPendTyped, EmptyOrdered
  <2>4. /\ Saved \subseteq Saved'
        /\ (Saved \cup ToSet(pend.rows))' = Saved \cup ToSet(pend.rows) \cup ToSet(data)
        /\ \A j \in ToSet(jobs') : j \in ToSet(jobs) \/ j = Job(o)
        /\ JobsInv'
    <3>1. CASE got.pend = NoPend /\ got.jobs = Append(jobs, Job(o))
      <4>1. Queued' = Queued \cup ToSet(o.rows) /\ ToSet(jobs') = ToSet(jobs) \cup {Job(o)}
        <5>1. jobs' = Append(jobs, Job(o))
          BY <2>1, <3>1
        <5>2. RowsIn(Append(jobs, Job(o)), "job") = RowsIn(jobs, "job") \cup ToSet(o.rows)
          BY <1>2, <2>2, QueueAppend
        <5>3. ToSet(Append(jobs, Job(o))) = ToSet(jobs) \cup {Job(o)}
          BY <1>2, <2>2, QueueSets
        <5> QED BY <5>1, <5>2, <5>3 DEF Queued
      <4>2. ToSet(pend'.rows) = {}
        BY <2>1, <2>3, <3>1
      <4>3. JobsInv'
        <5>1. Owned(Job(o)) /\ Ordered(Job(o).rows)
              /\ AllBefore(ToSet(file) \cup RowsIn(jobs, "job"), ToSet(Job(o).rows))
          BY <1>11, <2>2 DEF Owned, Saved, Queued
        <5> QED BY <1>2, <2>1, <2>2, <3>1, <5>1, QuietFacts, InOrderAppend DEF JobsInv
      <4> QED BY <1>11, <2>1, <4>1, <4>2, <4>3 DEF Saved
    <3>2. CASE got.pend = o /\ Len(o.rows) <= OverCap /\ got.jobs = jobs
      <4>1. jobs' = jobs /\ pend' = o /\ Queued' = Queued
        BY <2>1, <3>2 DEF Queued
      <4> QED BY <1>11, <2>1, <4>1, QuietFacts DEF Saved, JobsInv
    <3> QED BY <1>11, <3>1, <3>2
  <2>5. \A row \in ToSet(data) : InRange(row, p) /\ IdOf(row) \in Nat /\ IdOf(row) <= seq
    BY <1>2, <1>3, <1>4 DEF kept, Stored, Rows, IdOf
  <2>6. \A q \in Parts : HoldIn(hold', q) <= log'[q]
    <3> SUFFICES ASSUME NEW q \in Parts PROVE HoldIn(hold', q) <= log'[q]
      OBVIOUS
    <3>1. CASE hold' = hold
      BY <1>2, <1>6, <1>9, <3>1
    <3>2. CASE hold' = seq
      <4>1. HoldIn(seq, q) = 0 \/ (HoldIn(seq, q) = seq /\ seq \in IdRange(q))
        BY <1>4, HoldInRange
      <4>2. seq \in IdRange(q) => p = q
        BY <1>3, <1>4, RangesApart
      <4> QED BY <1>2, <1>4, <1>6, <2>1, <3>2, <4>1, <4>2
    <3> QED BY <2>1, <3>1, <3>2 DEF Larger
  <2>7. pend'.seq <= log'[pend'.part]
    BY <1>2, <1>6, <1>11, <2>1, <2>3
  <2>8. \A j \in ToSet(jobs') : j.kind = "job" => j.seq <= log'[j.part]
    <3> SUFFICES ASSUME NEW j \in ToSet(jobs'), j.kind = "job" PROVE j.seq <= log'[j.part]
      OBVIOUS
    <3>1. CASE j = Job(o)
      BY <1>2, <1>11, <2>1, <2>2, <3>1
    <3>2. CASE j \in ToSet(jobs)
      <4>1. j.seq <= log[j.part]
        BY <3>2, QuietFacts DEF FloorInv
      <4>2. j \in JobSet
        BY <1>2, <3>2, CatSets
      <4>3. j.part \in Parts /\ j.seq \in Nat
        BY <4>2, JobFields
      <4> QED BY <1>2, <1>6, <4>1, <4>3
    <3> QED BY <2>4, <3>1, <3>2
  <2>9. \A row \in (Saved \cup ToSet(pend.rows))', q \in Parts : InRange(row, q) => IdOf(row) <= log'[q]
    <3> SUFFICES ASSUME NEW row \in (Saved \cup ToSet(pend.rows))', NEW q \in Parts, InRange(row, q)
                 PROVE  IdOf(row) <= log'[q]
      OBVIOUS
    <3>1. CASE row \in Saved \cup ToSet(pend.rows)
      <4>1. IdOf(row) <= log[q]
        BY <3>1, QuietFacts DEF FloorInv
      <4>2. IdOf(row) \in Nat
        BY <3>1, QuietFacts, SavedRows DEF Rows, IdOf
      <4> QED BY <1>2, <1>6, <4>1, <4>2
    <3>2. CASE row \in ToSet(data)
      <4>1. p = q
        BY <2>5, <3>2, RangesApart DEF InRange, IdRange
      <4> QED BY <1>2, <2>1, <2>5, <3>2, <4>1
    <3> QED BY <2>4, <3>1, <3>2
  <2>10. FloorInv'
    BY <2>6, <2>7, <2>8, <2>9 DEF FloorInv
  <2>11. PendInv'
    <3>1. CASE pend' = NoPend
      <4>1. Len(NoPend.rows) = 0 /\ 0 <= OverCap /\ Owned(NoPend)
        BY <2>3, ConstantsTyped DEF Owned
      <4> QED BY <1>8, <2>3, <3>1, <4>1 DEF PendInv, AllBefore
    <3>2. CASE pend' = o /\ Len(o.rows) <= OverCap /\ jobs' = jobs
      <4>1. Saved' = Saved
        BY <2>1, <3>2 DEF Saved, Queued
      <4> QED BY <1>8, <1>11, <3>2, <4>1 DEF PendInv
    <3> QED BY <1>11, <2>1, <3>1, <3>2
  <2>12. ASSUME \A q \in DOMAIN ep' : ep'[q] = 0 PROVE KeptInv'
    <3>1. KeptInv
      BY <1>1, <2>12, QuietFacts
    <3>2. \A q \in Parts : \A row \in rows'[q] :
              IdOf(row) <= log'[q] => row \in (Saved \cup ToSet(pend.rows))'
      <4> SUFFICES ASSUME NEW q \in Parts, NEW row \in rows'[q], IdOf(row) <= log'[q]
                   PROVE  row \in Saved \cup ToSet(pend.rows) \cup ToSet(data)
        BY <2>4
      <4>1. CASE q # p
        BY <1>1, <1>2, <2>1, <3>1, <4>1 DEF KeptInv
      <4>2. CASE q = p
        <5>1. row \in kept /\ IdOf(row) \in Nat
          BY <1>1, <1>2, <1>4, <4>2 DEF Stored, Rows, IdOf
        <5>2. CASE IdOf(row) > log[p]
          BY <1>4, <5>1, <5>2
        <5>3. CASE IdOf(row) <= log[p]
          <6>1. row \in rows[p]
            BY <1>2, <1>3, <5>1, <5>3 DEF kept
          <6> QED BY <3>1, <5>3, <6>1 DEF KeptInv
        <5> QED BY <1>2, <5>1, <5>2, <5>3
      <4> QED BY <4>1, <4>2
    <3>3. \A row \in made' : row \in made \/ row \in rows'[p]
      BY <1>1, <1>2 DEF kept
    <3>4. \A q \in Parts : rows[q] \subseteq rows'[q]
      BY <1>1, <1>2 DEF kept
    <3> QED BY <1>8, <3>1, <3>2, <3>3, <3>4 DEF KeptInv
  <2> QED BY <1>7, <1>8, <2>4, <2>10, <2>11, <2>12 DEF QuietInv
<1> QED BY <1>5, <1>10, <1>11

LEMMA QuietStep ==
    ASSUME IInv, TypeInv', [Next]_vars
    PROVE  QuietInv'
<1> SUFFICES ASSUME fails' = 0 PROVE QuietInv'
  BY DEF QuietInv
<1>1. fails = 0
  <2> DEFINE Counts == fails' = fails \/ fails' = fails + 1
  <2>1. \A p \in Parts : /\ \A n \in 1 .. 2 : Step(p, n) => Counts
                         /\ \A n \in 0 .. 1 : Dial(p, n) => Counts
    BY DEF Step, Dial
  <2>2. FlushPending \/ FlushBarrier \/ (\E ok \in BOOLEAN : FlushAppend(ok)) => Counts
    BY DEF FlushPending, FlushBarrier, FlushAppend
  <2>3. UiNet \/ UiAck \/ UiDiag \/ Quit \/ DrainReceive \/ DrainExpire => Counts
    BY DEF UiNet, UiAck, UiDiag, Quit, DrainReceive, DrainExpire
  <2>4. WorkerNext \/ DrainSend \/ Forward \/ UNCHANGED vars => Counts
    BY DEF WorkerNext, WorkerJob, WorkerBarrier, WorkerStop, WorkerReport, DrainSend,
       Forward, vars
  <2>5. Counts
    <3> HIDE DEF Counts
    <3> QED BY <2>1, <2>2, <2>3, <2>4 DEF Next, UiNext, Ended
  <2>6. fails \in Nat
    BY DEF IInv, TypeInv
  <2> QED BY <2>5, <2>6
<1>2. ASSUME NEW p \in Parts, NEW n \in 1 .. 2, Step(p, n) PROVE QuietInv'
  BY <1>1, <1>2, QuietSave
<1>3. ASSUME NEW p \in Parts, NEW n \in 0 .. 1, Dial(p, n) PROVE QuietInv'
  BY <1>1, <1>3, QuietDial
<1>4. ASSUME NEW ok \in BOOLEAN, FlushAppend(ok) PROVE QuietInv'
  BY <1>1, <1>4, QuietAppend
<1>5. ASSUME NEW ok \in BOOLEAN, WorkerJob(ok) PROVE QuietInv'
  BY <1>1, <1>5, QuietJob
<1>6. CASE FlushPending
  BY <1>1, <1>6, QuietFlush
<1>7. CASE FlushBarrier
  BY <1>1, <1>7, QuietBarrier
<1>8. CASE WorkerBarrier \/ WorkerStop
  BY <1>1, <1>8, QuietTaken
<1>9. CASE WorkerReport \/ Forward \/ UiNet \/ DrainReceive \/ DrainExpire \/ Quit
  BY <1>1, <1>9, QuietMain
<1>10. CASE UiAck \/ UiDiag
  BY <1>1, <1>10, QuietReport
<1>11. CASE DrainSend
  BY <1>1, <1>11, QuietDrain
<1>12. CASE UNCHANGED vars
  <2>1. UNCHANGED <<log, rows, ep, hold, pend, jobs, worker, main, ui, file, made, fails>>
    BY <1>12 DEF vars
  <2>2. Queued' = Queued /\ Transition' = Transition
    BY <2>1 DEF Queued, Transition
  <2>3. FloorInv' /\ PendInv' /\ DialInv' /\ ((\A p \in DOMAIN ep' : ep'[p] = 0) => KeptInv')
    BY <1>1, <2>1, <2>2, RowsStay DEF Waiting
  <2>4. JobsInv' /\ ReportInv'
    BY <1>1, <2>1, QuietFacts DEF JobsInv, ReportInv, ReportFits
  <2> QED BY <2>3, <2>4 DEF QuietInv
<1> QED
  BY <1>2, <1>3, <1>4, <1>5, <1>6, <1>7, <1>8, <1>9, <1>10, <1>11, <1>12
  DEF Next, UiNext, WorkerNext, Ended

LEMMA InitInv == Init => IInv
<1> SUFFICES ASSUME Init PROVE IInv
  OBVIOUS
<1>1. TypeInv
  BY InitTyped
<1>2. /\ jobs = <<>> /\ main = <<>> /\ file = <<>> /\ ui.pc = "loop" /\ worker.pc = "recv"
      /\ pend = NoPend /\ hold = 0 /\ made = {} /\ \A p \in Parts : rows[p] = {}
  BY DEF Init
<1>3. StopInv /\ FenceInv
  BY <1>2 DEF StopInv, FenceInv, NoStop
<1>4. /\ NoPend.rows = <<>> /\ ToSet(NoPend.rows) = {} /\ Ordered(<<>>) /\ NoPend.seq = 0
      /\ NoPend.part \in Parts /\ ToSet(<<>>) = {} /\ Queued = {}
  BY <1>2, NoPendTyped, EmptyOrdered, QueueEmpty DEF Queued
<1>5. ReportInv /\ DialInv
  BY <1>2 DEF ReportInv, DialInv, Dialing
<1>6. \A p \in Parts : log[p] \in Nat /\ HoldIn(hold, p) = 0
  BY <1>1, <1>2, TypeFacts DEF HoldIn
<1>7. FloorInv
  BY <1>2, <1>4, <1>6 DEF FloorInv, Saved
<1>8. JobsInv
  BY <1>2, <1>4, QueueEmpty DEF JobsInv, QueueInOrder, AllBefore
<1>9. PendInv
  <2>1. Len(NoPend.rows) = 0 /\ 0 <= OverCap /\ Owned(NoPend)
    BY <1>4, ConstantsTyped DEF Owned
  <2> QED BY <1>2, <1>4, <2>1 DEF PendInv, AllBefore, Waiting
<1>10. KeptInv
  BY <1>2 DEF KeptInv
<1> QED BY <1>1, <1>3, <1>5, <1>7, <1>8, <1>9, <1>10 DEF IInv, QuietInv

LEMMA NextInv == IInv /\ [Next]_vars => IInv'
<1> SUFFICES ASSUME IInv, [Next]_vars PROVE IInv'
  OBVIOUS
<1>1. TypeInv /\ StopInv /\ FenceInv
  BY DEF IInv
<1>2. TypeInv'
  BY <1>1, TypeStep
<1>3. StopInv' /\ FenceInv'
  BY <1>1, StopStep, FenceStep
<1>4. QuietInv'
  BY <1>2, QuietStep
<1> QED BY <1>2, <1>3, <1>4 DEF IInv

-----------------------------------------------------------------------------
(* What the save path promises                                             *)

\* Every behaviour of the save path keeps the inductive invariant.
THEOREM Invariance == Spec => []IInv
<1>1. Init => IInv
  BY InitInv
<1>2. IInv /\ [Next]_vars => IInv'
  BY NextInv
<1> QED BY <1>1, <1>2, PTL DEF Spec

(* Until an append fails or a server's endpoint changes, no row a step     *)
(* added is forgotten: ws_history_save finds every row above the floor     *)
(* again, and every row below it is in the file, in the channel or in      *)
(* `pending`, whatever the servers save and however full the channel is.   *)
THEOREM RowsAreKept == Spec => []RowsKept
<1>1. IInv => RowsKept
  <2> SUFFICES ASSUME IInv, fails = 0, \A p \in DOMAIN ep : ep[p] = 0, NEW row \in made
               PROVE  row \in ToSet(file) \cup Queued \cup ToSet(pend.rows) \cup Returned
                              \cup Transition \cup Recut
    BY DEF RowsKept, NoRowLost
  <2>1. KeptInv
    BY QuietFacts
  <2>2. CASE row \in Transition
    BY <2>2
  <2>3. ASSUME NEW p \in Parts, row \in rows[p]
        PROVE  row \in Saved \cup ToSet(pend.rows) \cup Recut
    <3>1. IdOf(row) \in Nat /\ log[p] \in Nat
      BY <2>3, QuietFacts, TypeFacts DEF Stored, Rows, IdOf
    <3>2. CASE IdOf(row) <= log[p]
      BY <2>1, <2>3, <3>2 DEF KeptInv
    <3>3. CASE IdOf(row) > log[p]
      <4>1. IdOf(row) > Larger(log[p], HoldIn(hold, p))
        BY <3>3, HoldBelow
      <4>2. p \in DOMAIN rows
        BY QuietFacts DEF TypeInv
      <4> QED BY <2>3, <4>1, <4>2 DEF Recut
    <3> QED BY <3>1, <3>2, <3>3
  <2> QED BY <2>1, <2>2, <2>3 DEF KeptInv, Saved
<1> QED BY <1>1, Invariance, PTL

(* As long as no append fails, a part's rows reach the history file in the *)
(* order their client stamped them and none of them twice, whichever way   *)
(* (channel, `pending`, transition of an endpoint change) each one took.   *)
THEOREM FileStaysInOrder == Spec => []FileInOrder
<1>1. IInv => FileInOrder
  BY QuietFacts DEF FileInOrder, JobsInv, QueueInOrder
<1> QED BY <1>1, Invariance, PTL

(* changed_append writes an endpoint change's rows only when everything    *)
(* queued before the fence is in the file, as long as no append failed.    *)
LEMMA FenceFact == IInv => FenceDurable
<1> SUFFICES ASSUME IInv, ui.pc = "append", fails = 0
             PROVE  Queued \cup ToSet(pend.rows) \cup Returned \subseteq ToSet(file)
  BY DEF FenceDurable
<1>1. Queued = {}
  BY QuietFacts, QueueEmpty DEF FenceInv, Queued
<1>2. ToSet(pend.rows) \subseteq ToSet(file)
  BY <1>1, QuietFacts DEF PendInv, Waiting, Saved
<1>3. Returned = {}
  <2>1. main \in Seq(Msgs) /\ worker \in WorkerSet
    BY QuietFacts, TypeFacts
  <2>2. \A i \in DOMAIN main : main[i].kind # "diag"
    BY QuietFacts DEF ReportInv, ReportFits
  <2>3. RowsIn(main, "diag") = {}
    BY <2>2 DEF RowsIn
  <2>4. ASSUME worker.pc = "report" PROVE RowsIn(Append(main, worker.msg), "diag") = {}
    <3>1. worker.msg \in Msgs /\ worker.msg.kind # "diag"
      BY <2>1, <2>4, WorkerFields, QuietFacts DEF ReportInv, ReportFits
    <3> QED BY <2>1, <2>3, <3>1, QueueAppend
  <2> QED BY <2>3, <2>4 DEF Returned
<1> QED BY <1>1, <1>2, <1>3

(* A clean end of the drain (WsHistDone) finds the worker gone and the     *)
(* channel without a row, and, unless an append failed, everything that    *)
(* `pending` had kept in the file.                                         *)
LEMMA EndFact == IInv => CleanEnd
<1> SUFFICES ASSUME IInv, ui.pc = "end"
             PROVE  /\ Queued = {} /\ worker.pc = "gone"
                    /\ fails = 0 => ToSet(pend.rows) \subseteq ToSet(file)
  BY DEF CleanEnd
<1>1. worker.pc = "gone" /\ jobs = <<>>
  BY DEF IInv, StopInv
<1>2. Queued = {}
  BY <1>1, QueueEmpty DEF Queued
<1>3. fails = 0 => ToSet(pend.rows) \subseteq ToSet(file)
  BY <1>2, QuietFacts DEF PendInv, Waiting, Saved
<1> QED BY <1>1, <1>2, <1>3

(* The barrier of an endpoint change and WsHistDone of a quit are answered *)
(* only when everything handed over before has left the queue, the         *)
(* overflow and, unless an append failed, the worker for the file.         *)
THEOREM WaitsAreDurable == Spec => []WaitsDurable
<1>1. IInv => WaitsDurable
  BY FenceFact, EndFact DEF WaitsDurable
<1> QED BY <1>1, Invariance, PTL
=============================================================================
