--------------------------- MODULE NetActor_proofs ---------------------------
(***************************************************************************)
(* Facts about the outbound rules and the writer record, and theorems      *)
(* about the network actor that uses them, for every value of the          *)
(* constants: every capacity, every number of generations, endpoints and   *)
(* lines.                                                                  *)
(***************************************************************************)
EXTENDS NetActor, SequenceTheorems, TLAPS

-----------------------------------------------------------------------------
(* Splitting *)

\* split_at and split_at_u32 keep every element, in order.
LEMMA SplitKeepsAll ==
    ASSUME NEW S, NEW xs \in Seq(S), NEW n \in Nat
    PROVE  /\ SplitNow(xs, n) \in Seq(S)
           /\ SplitLater(xs, n) \in Seq(S)
           /\ Len(SplitNow(xs, n)) = Least(n, Len(xs))
           /\ Len(SplitLater(xs, n)) = Len(xs) - Least(n, Len(xs))
           /\ SplitNow(xs, n) \o SplitLater(xs, n) = xs
<1> DEFINE k == Least(n, Len(xs))
<1>1. k \in 0 .. Len(xs) /\ Len(xs) \in Nat
  BY DEF Least
<1>2. SplitNow(xs, n) \in Seq(S) /\ Len(SplitNow(xs, n)) = k
  BY <1>1 DEF SplitNow
<1>3. SplitLater(xs, n) \in Seq(S) /\ Len(SplitLater(xs, n)) = Len(xs) - k
  BY <1>1 DEF SplitLater
<1>4. SubSeq(xs, 1, k) \o SubSeq(xs, k + 1, Len(xs)) = SubSeq(xs, 1, Len(xs))
  <2>1. /\ 1 \in 1 .. Len(xs) + 1
        /\ k \in 1 - 1 .. Len(xs)
        /\ Len(xs) \in k .. Len(xs)
    BY <1>1
  <2> HIDE DEF k
  <2> QED BY <2>1, ConcatAdjacentSubSeq
<1>5. SplitNow(xs, n) \o SplitLater(xs, n) = xs
  BY <1>4, SubSeqFull DEF SplitNow, SplitLater
<1> QED BY <1>2, <1>3, <1>5

-----------------------------------------------------------------------------
(* The budget *)

\* budget_ready and budget_cap: the batch size never exceeds SEND_CAP, nor
\* the credit of a limited budget, and an open budget grants a line.
LEMMA ReadyCap ==
    ASSUME NEW b \in Budget
    PROVE  /\ BudgetReady(b) \in Budget
           /\ BudgetCap(BudgetReady(b)) \in 0 .. SEND_CAP
           /\ b.limited => BudgetCap(BudgetReady(b)) <= BudgetReady(b).credit
           /\ BudgetOpen(b) => BudgetCap(BudgetReady(b)) >= 1
<1>1. SEND_CAP \in 1 .. Word - 1 /\ Word \in Nat
  BY OutboundAssumption
<1>2. b.limited \in BOOLEAN /\ b.turns \in U32 /\ b.credit \in U32
  BY DEF Budget
<1>3. CASE b.limited /\ b.credit = 0 /\ b.turns # 0
  <2>1. BudgetReady(b) = [limited |-> TRUE, turns |-> b.turns - 1,
                          credit |-> SEND_CAP]
    BY <1>3 DEF BudgetReady, Budget
  <2>2. b.turns - 1 \in U32 /\ SEND_CAP \in U32
    BY <1>1, <1>2, <1>3 DEF U32
  <2>3. BudgetCap(BudgetReady(b)) = SEND_CAP
    BY <1>1, <2>1 DEF BudgetCap
  <2>4. BudgetReady(b) \in Budget
    BY <2>1, <2>2 DEF Budget
  <2> QED BY <1>1, <2>1, <2>3, <2>4
<1>4. CASE ~(b.limited /\ b.credit = 0 /\ b.turns # 0)
  <2>1. BudgetReady(b) = b
    BY <1>4 DEF BudgetReady
  <2>2. /\ BudgetCap(b) \in 0 .. SEND_CAP
        /\ b.limited => BudgetCap(b) <= b.credit
        /\ BudgetOpen(b) => BudgetCap(b) >= 1
    BY <1>1, <1>2, <1>4 DEF BudgetCap, BudgetOpen, U32
  <2> QED BY <2>1, <2>2
<1> QED BY <1>3, <1>4

\* Refilling moves lines from the turns to the credit and makes none.
LEMMA ReadyKeepsGrant ==
    ASSUME NEW b \in Budget
    PROVE  BudgetReady(b).turns * SEND_CAP + BudgetReady(b).credit
             = b.turns * SEND_CAP + b.credit
<1> DEFINE r == BudgetReady(b)
<1>1. SEND_CAP \in Nat /\ b.turns \in Nat /\ b.credit \in Nat
  BY OutboundAssumption DEF Budget, U32
<1>2. CASE b.limited /\ b.credit = 0 /\ b.turns # 0
  <2>1. r.turns = b.turns - 1 /\ r.credit = SEND_CAP
    BY <1>2 DEF BudgetReady, Budget
  <2>2. (b.turns - 1) * SEND_CAP + SEND_CAP = b.turns * SEND_CAP
    BY <1>1
  <2> QED BY <1>1, <1>2, <2>1, <2>2
<1>3. CASE ~(b.limited /\ b.credit = 0 /\ b.turns # 0)
  BY <1>3 DEF BudgetReady
<1> QED BY <1>2, <1>3

-----------------------------------------------------------------------------
(* The batch *)

\* One turn of the writer splits its queue without loss, sends no more than
\* SEND_CAP lines, and sends at least one while the budget is open.
THEOREM BatchSplits ==
    ASSUME NEW S, NEW xs \in Seq(S), NEW b \in Budget
    PROVE  LET p == Batch(xs, b) IN
           /\ p.now \in Seq(S) /\ p.later \in Seq(S)
           /\ p.now \o p.later = xs
           /\ Len(p.now) <= SEND_CAP
           /\ BudgetOpen(b) /\ xs # <<>> => Len(p.now) >= 1
           /\ p.budget \in Budget
<1> DEFINE r == BudgetReady(b)
           n == BudgetCap(r)
           now == SplitNow(xs, n)
<1>1. /\ r \in Budget /\ n \in 0 .. SEND_CAP /\ n \in Nat /\ SEND_CAP \in Nat
      /\ b.limited => n <= r.credit
      /\ BudgetOpen(b) => n >= 1
      /\ r.limited = b.limited
  <2>1. r.limited = b.limited
    BY DEF BudgetReady, Budget
  <2>2. r \in Budget /\ n \in 0 .. SEND_CAP /\ (BudgetOpen(b) => n >= 1)
        /\ (b.limited => n <= r.credit)
    BY ReadyCap
  <2> HIDE DEF r, n
  <2> QED BY <2>1, <2>2, OutboundAssumption
<1>2. /\ now \in Seq(S) /\ SplitLater(xs, n) \in Seq(S)
      /\ Len(now) = Least(n, Len(xs))
      /\ now \o SplitLater(xs, n) = xs
  <2> HIDE DEF n
  <2> QED BY <1>1, SplitKeepsAll
<1>3. /\ Len(now) \in 0 .. n
      /\ xs # <<>> /\ n >= 1 => Len(now) >= 1
  <2>1. Len(xs) \in Nat /\ (xs # <<>> => Len(xs) >= 1)
    BY EmptySeq
  <2> HIDE DEF n, now
  <2> QED BY <1>1, <1>2, <2>1 DEF Least
<1>4. BudgetAfter(r, Len(now)) \in Budget
  <2> HIDE DEF n, r, now
  <2>1. CASE ~r.limited
    BY <1>1, <2>1 DEF BudgetAfter
  <2>2. CASE r.limited
    <3>1. BudgetAfter(r, Len(now)) = [r EXCEPT !.credit = r.credit - Len(now)]
      BY <2>2 DEF BudgetAfter
    <3>2. r.credit \in U32
      BY <1>1 DEF Budget
    <3>3. n <= r.credit
      BY <1>1, <2>2
    <3>4. r.credit - Len(now) \in U32
      BY <1>1, <1>3, <3>2, <3>3, OutboundAssumption DEF U32
    <3> QED BY <1>1, <3>1, <3>4 DEF Budget
  <2> QED BY <2>1, <2>2
<1>5. /\ Batch(xs, b).now = now
      /\ Batch(xs, b).later = SplitLater(xs, n)
      /\ Batch(xs, b).budget = BudgetAfter(r, Len(now))
  BY DEF Batch
<1> HIDE DEF n, r, now
<1> QED BY <1>1, <1>2, <1>3, <1>4, <1>5

\* What a limited budget grants shrinks by exactly the lines of the batch:
\* no turn is lost and no line is sent on credit.
THEOREM BatchSpends ==
    ASSUME NEW S, NEW xs \in Seq(S), NEW b \in Budget, b.limited
    PROVE  LET p == Batch(xs, b) IN
           p.budget.turns * SEND_CAP + p.budget.credit + Len(p.now)
             = b.turns * SEND_CAP + b.credit
<1> DEFINE r == BudgetReady(b)
           len == Len(SplitNow(xs, BudgetCap(r)))
<1>1. r \in Budget /\ r.limited
  BY ReadyCap DEF BudgetReady, Budget
<1>2. len \in Nat
  <2>1. BudgetCap(r) \in Nat
    BY ReadyCap, OutboundAssumption
  <2> QED BY <2>1, SplitKeepsAll
<1>3. /\ BudgetAfter(r, len).turns = r.turns
      /\ BudgetAfter(r, len).credit = r.credit - len
  <2> HIDE DEF r, len
  <2> QED BY <1>1 DEF BudgetAfter, Budget
<1>4. Batch(xs, b).budget = BudgetAfter(r, len) /\ Len(Batch(xs, b).now) = len
  BY DEF Batch
<1>5. r.turns * SEND_CAP + r.credit = b.turns * SEND_CAP + b.credit
  BY ReadyKeepsGrant
<1>6. r.turns * SEND_CAP \in Nat /\ r.credit \in Nat
  BY <1>1, OutboundAssumption DEF Budget, U32
<1> HIDE DEF r, len
<1> QED BY <1>2, <1>3, <1>4, <1>5, <1>6

-----------------------------------------------------------------------------
(* Transaction IDs *)

\* The ranges of two generations never meet, and none reaches below the PONG
\* space or past the word: a request ID names its generation.
THEOREM PongRangesApart ==
    ASSUME NEW g \in 0 .. PongGens - 1, NEW h \in 0 .. PongGens - 1
    PROVE  /\ PongFirst(g) \in PongTxn .. PongLast(g)
           /\ PongLast(g) < Word
           /\ g < h => PongLast(g) < PongFirst(h)
<1>1. /\ g \in Nat /\ h \in Nat /\ PongStride \in Nat /\ PongStride > 0
      /\ PongTxn \in Nat /\ PongGens \in Nat /\ Word \in Nat
      /\ PongTxn + PongGens * PongStride <= Word
      /\ g < PongGens /\ h < PongGens
  BY OutboundAssumption
<1>2. /\ PongFirst(g) = PongTxn + g * PongStride
      /\ PongFirst(h) = PongTxn + h * PongStride
      /\ PongLast(g) = PongTxn + g * PongStride + (PongStride - 1)
  BY <1>1 DEF PongFirst, PongLast
<1>3. ASSUME NEW i \in Nat, NEW j \in Nat, i < j
      PROVE  i * PongStride + PongStride <= j * PongStride
  <2>1. (i + 1) * PongStride <= j * PongStride
    BY <1>1, <1>3
  <2>2. (i + 1) * PongStride = i * PongStride + PongStride
    BY <1>1
  <2> QED BY <2>1, <2>2
<1>4. g * PongStride \in Nat /\ h * PongStride \in Nat
      /\ PongGens * PongStride \in Nat
  BY <1>1
<1>5. /\ g * PongStride + PongStride <= PongGens * PongStride
      /\ g < h => g * PongStride + PongStride <= h * PongStride
  BY <1>1, <1>3
<1> QED BY <1>1, <1>2, <1>4, <1>5

\* The next request ID of a reader is the successor inside the range of its
\* own generation, and 0 ("no more") after the last ID of the range.
THEOREM PongTxnStays ==
    ASSUME NEW g \in 0 .. PongGens - 1,
           NEW cur \in PongFirst(g) .. PongLast(g)
    PROVE  IF cur = PongLast(g) THEN NextPongTxn(cur) = 0
                                ELSE NextPongTxn(cur) = cur + 1
<1>1. /\ g \in Nat /\ g < PongGens /\ PongStride \in Nat /\ PongStride > 0
      /\ PongTxn \in Nat /\ PongTxn > 1 /\ Word \in Nat
  BY OutboundAssumption
<1>2. /\ PongFirst(g) = PongTxn + g * PongStride
      /\ PongLast(g) = PongFirst(g) + (PongStride - 1)
      /\ g * PongStride \in Nat
      /\ PongLast(g) < Word
  BY <1>1, PongRangesApart DEF PongFirst, PongLast
<1>3. PICK k \in 0 .. PongStride - 1 : cur = PongTxn + g * PongStride + k
  <2>1. cur - PongFirst(g) \in 0 .. PongStride - 1
    BY <1>1, <1>2
  <2> QED BY <1>1, <1>2, <2>1
<1>4. (cur - PongTxn) \div PongStride = g
  <2>1. cur - PongTxn = g * PongStride + k /\ cur - PongTxn \in Nat
    BY <1>1, <1>2, <1>3
  <2>2. (g * PongStride + k) \div PongStride = g
    BY <1>1, <1>3
  <2> QED BY <2>1, <2>2
<1>5. CASE cur = PongLast(g)
  BY <1>4, <1>5 DEF NextPongTxn
<1>6. CASE cur # PongLast(g)
  <2>1. cur + 1 \in 0 .. Word - 1 /\ cur # 0 /\ ~(cur < PongTxn)
    BY <1>1, <1>2, <1>3, <1>6
  <2>2. (cur + 1) % Word = cur + 1
    BY <1>1, <2>1
  <2> QED BY <1>4, <1>6, <2>1, <2>2 DEF NextPongTxn
<1> QED BY <1>5, <1>6

\* Cont batch IDs wrap inside 1 .. PongTxn - 1: they are never 0, which means
\* "unidentified", and never a request ID.
THEOREM BatchTxnApart ==
    ASSUME NEW cur \in U32
    PROVE  NextBatchTxn(cur) \in 1 .. PongTxn - 1
<1>1. (cur + 1) % Word \in 0 .. Word - 1
  BY OutboundAssumption DEF U32
<1> QED BY <1>1, OutboundAssumption DEF NextBatchTxn

-----------------------------------------------------------------------------
(* The writer record: what the operators of Writer return.                 *)

\* The fields of a writer.
LEMMA WriterFields ==
    ASSUME NEW wr \in Writers
    PROVE  /\ wr.sock \in BOOLEAN /\ wr.sched \in BOOLEAN
           /\ wr.gen \in Gens /\ wr.ntxn \in U32 /\ wr.budget \in Budget
           /\ wr.pending \in Seq(Line) /\ wr.ptxn \in Seq(U32)
BY DEF Writers

LEMMA SocketlessTyped ==
    ASSUME NEW g \in Gens, NEW n \in U32, NEW b \in Budget
    PROVE  /\ Adopted(g, n, b) \in Writers
           /\ Socketless(g, n, b) \in Writers
           /\ ~Socketless(g, n, b).sock /\ ~Socketless(g, n, b).sched
           /\ Socketless(g, n, b).pending = <<>>
           /\ Socketless(g, n, b).gen = g
           /\ Adopted(g, n, b).gen = g
           /\ ~Adopted(g, n, b).sched /\ Adopted(g, n, b).pending = <<>>
<1>1. <<>> \in Seq(Line) /\ <<>> \in Seq(U32)
  OBVIOUS
<1>2. Adopted(g, n, b) \in Writers
  BY <1>1 DEF Adopted, Writers
<1>3. Adopted(g, n, b) = [sock |-> TRUE, gen |-> g, pending |-> <<>>,
                          ptxn |-> <<>>, ntxn |-> n, budget |-> b,
                          sched |-> FALSE]
  BY DEF Adopted
<1>4. Socketless(g, n, b) = [Adopted(g, n, b) EXCEPT !.sock = FALSE]
  BY DEF Socketless
<1>5. Socketless(g, n, b) \in Writers
  BY <1>2, <1>4 DEF Writers
<1>6. /\ ~Socketless(g, n, b).sock /\ ~Socketless(g, n, b).sched
      /\ Socketless(g, n, b).pending = <<>>
      /\ Socketless(g, n, b).gen = g
  BY <1>3, <1>4
<1> QED BY <1>2, <1>3, <1>5, <1>6

LEMMA EmptiedTyped ==
    ASSUME NEW wr \in Writers
    PROVE  /\ Emptied(wr) \in Writers
           /\ ~Emptied(wr).sock /\ ~Emptied(wr).sched
           /\ Emptied(wr).pending = <<>>
           /\ Emptied(wr).gen = wr.gen
BY WriterFields, SocketlessTyped DEF Emptied

\* Line i of a batch is sent as itself.
LEMMA StampTyped ==
    ASSUME NEW lines \in Seq(Line), NEW txns \in Seq(U32)
    PROVE  /\ Stamp(lines, txns) \in Seq(Sent)
           /\ Len(Stamp(lines, txns)) = Len(lines)
<1> DEFINE e(i) == [line |-> lines[i],
                    txn |-> IF i <= Len(txns) THEN txns[i] ELSE 0]
<1>1. ASSUME NEW i \in 1 .. Len(lines)
      PROVE  e(i) \in Sent
  <2>1. lines[i] \in Line
    OBVIOUS
  <2>2. (IF i <= Len(txns) THEN txns[i] ELSE 0) \in U32
    BY OutboundAssumption DEF U32
  <2> QED BY <2>1, <2>2 DEF Sent
<1>2. Len(lines) \in Nat
  OBVIOUS
<1>3. [i \in 1 .. Len(lines) |-> e(i)] \in Seq(Sent)
  <2> HIDE DEF e
  <2> QED BY <1>1, <1>2, IsASeq
<1>4. Len([i \in 1 .. Len(lines) |-> e(i)]) = Len(lines)
  BY <1>2
<1> QED BY <1>3, <1>4 DEF Stamp

LEMMA SendBatchTyped ==
    ASSUME NEW lines \in Seq(Line), NEW txns \in Seq(U32),
           NEW r \in SendBatch(lines, txns)
    PROVE  r.wire \in Seq(Sent) /\ r.ok \in BOOLEAN
<1>1. CASE r = [wire |-> Stamp(lines, txns), ok |-> TRUE]
  BY <1>1, StampTyped
<1>2. ASSUME NEW n \in 1 .. Len(lines),
             r = [wire |-> SubSeq(Stamp(lines, txns), 1, n), ok |-> FALSE]
      PROVE  r.wire \in Seq(Sent) /\ r.ok \in BOOLEAN
  <2>1. SubSeq(Stamp(lines, txns), 1, n) \in Seq(Sent)
    <3> DEFINE st == Stamp(lines, txns)
    <3>1. st \in Seq(Sent) /\ Len(st) = Len(lines)
      BY StampTyped
    <3>2. SubSeq(st, 1, n) \in Seq(Sent)
      <4> HIDE DEF st
      <4> QED BY <1>2, <3>1
    <3> QED BY <3>2
  <2> QED BY <1>2, <2>1
<1> QED BY <1>1, <1>2 DEF SendBatch

LEMMA RepeatTyped ==
    ASSUME NEW txn \in U32, NEW n \in Nat
    PROVE  RepeatTxn(txn, n) \in Seq(U32)
BY DEF RepeatTxn

-----------------------------------------------------------------------------
(* writer_queue *)

\* A failed or a socketless outcome leaves nothing queued; otherwise the
\* flag is set for every rest the budget still allows, and a flag that was
\* not set before comes with a pump.
QueueOutcome(wr, r) ==
    /\ r.w \in Writers /\ r.w.gen = wr.gen
    /\ r.wire \in Seq(Sent) /\ r.ok \in BOOLEAN /\ r.pump \in BOOLEAN
    /\ ~r.w.sock => ~r.w.sched /\ r.w.pending = <<>>
    /\ r.w.sock => wr.sock
    /\ r.w.sched => wr.sched \/ r.pump
    /\ r.w.pending # <<>> /\ BudgetOpen(r.w.budget) => r.w.sched

LEMMA WriterQueueOutcome ==
    ASSUME NEW wr \in Writers, NEW outs \in Seq(Line), NEW txn \in U32,
           NEW r \in WriterQueue(wr, outs, txn)
    PROVE  QueueOutcome(wr, r)
<1>1. CASE ~wr.sock
  <2>1. r = [w |-> Emptied(wr), wire |-> <<>>, ok |-> TRUE, pump |-> FALSE]
    BY <1>1 DEF WriterQueue
  <2>2. <<>> \in Seq(Sent)
    OBVIOUS
  <2> QED BY <1>1, <2>1, <2>2, EmptiedTyped DEF QueueOutcome
<1>2. CASE wr.sock
  <2> DEFINE all    == wr.pending \o outs
             allTxn == wr.ptxn \o RepeatTxn(txn, Len(outs))
             plan   == Batch(all, wr.budget)
             sent   == Len(plan.now)
             ntxn   == IF outs = <<>> THEN wr.ntxn ELSE NextBatchTxn(wr.ntxn)
             need   == ~wr.sched /\ plan.later # <<>> /\ BudgetOpen(plan.budget)
             queued == [wr EXCEPT !.pending = plan.later,
                                 !.ptxn    = SplitLater(allTxn, sent),
                                 !.ntxn    = ntxn,
                                 !.budget  = plan.budget,
                                 !.sched   = @ \/ need]
  <2>1. all \in Seq(Line) /\ wr.budget \in Budget
    BY WriterFields
  <2>2. allTxn \in Seq(U32)
    <3>1. RepeatTxn(txn, Len(outs)) \in Seq(U32)
      BY RepeatTyped
    <3> QED BY <3>1, WriterFields
  <2>3. plan.now \in Seq(Line) /\ plan.later \in Seq(Line) /\ plan.budget \in Budget
    <3> HIDE DEF all
    <3> QED BY <2>1, BatchSplits
  <2>4. sent \in Nat
    <3> HIDE DEF plan
    <3> QED BY <2>3
  <2>5. SplitNow(allTxn, sent) \in Seq(U32) /\ SplitLater(allTxn, sent) \in Seq(U32)
    <3> HIDE DEF allTxn, sent
    <3> QED BY <2>2, <2>4, SplitKeepsAll
  <2>6. ntxn \in U32
    <3>1. wr.ntxn \in U32
      BY WriterFields
    <3>2. NextBatchTxn(wr.ntxn) \in 1 .. PongTxn - 1
      BY <3>1, BatchTxnApart
    <3>3. PongTxn <= Word
      <4>1. PongGens * PongStride \in Nat
        BY OutboundAssumption
      <4> QED BY <4>1, OutboundAssumption
    <3>4. NextBatchTxn(wr.ntxn) \in U32
      BY <3>2, <3>3, OutboundAssumption DEF U32
    <3> QED BY <3>1, <3>4
  <2>7. /\ queued \in Writers /\ queued.gen = wr.gen /\ queued.sock = wr.sock
        /\ queued.pending = plan.later /\ queued.budget = plan.budget
        /\ queued.sched = (wr.sched \/ need)
    <3> HIDE DEF plan, ntxn, sent, allTxn
    <3> QED BY <2>3, <2>5, <2>6 DEF Writers
  <2>8. PICK b \in SendBatch(plan.now, SplitNow(allTxn, sent)) :
            r = [w    |-> IF b.ok THEN queued ELSE Emptied(queued),
                 wire |-> b.wire,
                 ok   |-> b.ok,
                 pump |-> b.ok /\ need]
    BY <1>2 DEF WriterQueue
  <2>9. b.wire \in Seq(Sent) /\ b.ok \in BOOLEAN
    <3> HIDE DEF plan, sent, allTxn
    <3> QED BY <2>3, <2>5, <2>8, SendBatchTyped
  <2>10. need \in BOOLEAN
    BY DEF BudgetOpen
  <2>11. /\ Emptied(queued) \in Writers /\ Emptied(queued).gen = wr.gen
         /\ ~Emptied(queued).sock /\ ~Emptied(queued).sched
         /\ Emptied(queued).pending = <<>>
    <3> HIDE DEF queued
    <3> QED BY <2>7, EmptiedTyped
  <2>12. plan.later # <<>> /\ BudgetOpen(plan.budget) => wr.sched \/ need
    OBVIOUS
  <2> HIDE DEF queued, need, plan
  <2>13. CASE b.ok
    BY <1>2, <2>7, <2>8, <2>9, <2>10, <2>12, <2>13 DEF QueueOutcome
  <2>14. CASE ~b.ok
    BY <1>2, <2>8, <2>9, <2>11, <2>14 DEF QueueOutcome
  <2> QED BY <2>13, <2>14
<1> QED BY <1>1, <1>2

\* A writer at rest: no socket, nothing queued; and what is queued and may
\* still be sent has its flag set.
WriterRests(wr) ==
    /\ wr \in Writers
    /\ ~wr.sock => ~wr.sched /\ wr.pending = <<>>
    /\ wr.pending # <<>> /\ BudgetOpen(wr.budget) => wr.sched

LEMMA EmptiedRests ==
    ASSUME NEW wr \in Writers
    PROVE  WriterRests(Emptied(wr))
BY EmptiedTyped DEF WriterRests

LEMMA UnmovedOutcome ==
    ASSUME NEW wr, WriterRests(wr), NEW r \in Unmoved(wr)
    PROVE  QueueOutcome(wr, r)
<1>1. r = [w |-> wr, wire |-> <<>>, ok |-> TRUE, pump |-> FALSE]
  BY DEF Unmoved
<1>2. <<>> \in Seq(Sent)
  OBVIOUS
<1> QED BY <1>1, <1>2 DEF WriterRests, QueueOutcome

LEMMA ContOutcome ==
    ASSUME NEW wr, WriterRests(wr), NEW lines \in Seq(Line),
           NEW r \in WriterCont(wr, lines)
    PROVE  QueueOutcome(wr, r)
BY WriterQueueOutcome, WriterFields DEF WriterCont, WriterRests

LEMMA PongOutcome ==
    ASSUME NEW wr, WriterRests(wr), NEW g \in Gens, NEW lines \in Seq(Line),
           NEW txn \in U32, NEW r \in WriterPong(wr, g, lines, txn)
    PROVE  QueueOutcome(wr, r)
BY WriterQueueOutcome, UnmovedOutcome DEF WriterPong, WriterRests

\* The pump of the writer's own generation took the flag with it: a flag that
\* is set afterwards belongs to a new pump.
LEMMA PumpOutcome ==
    ASSUME NEW wr, WriterRests(wr), NEW g \in Gens, NEW r \in WriterPump(wr, g)
    PROVE  /\ QueueOutcome(wr, r)
           /\ g = wr.gen => (r.w.sched => r.pump)
<1>1. CASE g = wr.gen
  <2> DEFINE v == [wr EXCEPT !.sched = FALSE]
  <2>1. /\ v \in Writers /\ ~v.sched /\ v.sock = wr.sock /\ v.gen = wr.gen
    BY DEF WriterRests, Writers
  <2>2. r \in WriterQueue(v, <<>>, 0)
    BY <1>1 DEF WriterPump
  <2>3. <<>> \in Seq(Line) /\ 0 \in U32
    BY OutboundAssumption DEF U32
  <2>4. QueueOutcome(v, r)
    <3> HIDE DEF v
    <3> QED BY <2>1, <2>2, <2>3, WriterQueueOutcome
  <2> HIDE DEF v
  <2> QED BY <2>1, <2>4 DEF QueueOutcome
<1>2. CASE g # wr.gen
  BY <1>2, UnmovedOutcome DEF WriterPump
<1> QED BY <1>1, <1>2

\* After any outcome the writer is at rest again.
LEMMA OutcomeRests ==
    ASSUME NEW wr, NEW r, QueueOutcome(wr, r)
    PROVE  WriterRests(r.w)
BY DEF QueueOutcome, WriterRests

\* An orderly end puts lines of the queue on the wire.
LEMMA FlushTyped ==
    ASSUME NEW wr \in Writers, NEW r \in Flush(wr)
    PROVE  r.wire \in Seq(Sent) /\ r.ok \in BOOLEAN
BY WriterFields, SendBatchTyped DEF Flush

-----------------------------------------------------------------------------
(* Values *)

LEMMA GensTyped == 0 \in Gens /\ 1 \in Gens /\ Gens \subseteq Nat
BY WriterAssumption

\* The fields of a command.
LEMMA CommandFields ==
    ASSUME NEW c \in Commands
    PROVE  /\ c.k \in {"Cont", "Pong", "Dial", "Pump", "Begin", "Drop", "Hangup"}
           /\ c.k = "Cont" => c.lines \in Seq(Line)
           /\ c.k = "Pong" => c.gen \in Gens /\ c.lines \in Seq(Line) /\ c.req \in U32
           /\ c.k = "Dial" => c.gen \in Gens /\ c.ep \in Endpoints
           /\ c.k \in {"Pump", "Begin"} => c.gen \in Gens
           /\ c.k = "Pump" => c = Pump(c.gen)
           /\ c.k = "Dial" => c = Dial(c.gen, c.ep)
BY DEF Commands, Pump, Dial

LEMMA CommandTyped ==
    ASSUME NEW g \in Gens, NEW e \in Endpoints, NEW l \in Seq(Line),
           NEW req \in U32
    PROVE  /\ Cont(l) \in Commands /\ Pong(g, l, req) \in Commands
           /\ Dial(g, e) \in Commands /\ Pump(g) \in Commands
           /\ Begin(g) \in Commands /\ Drop \in Commands /\ Hangup \in Commands
BY DEF Commands, Cont, Pong, Dial, Pump, Begin, Drop, Hangup

LEMMA SetupTyped ==
    ASSUME NEW g \in Gens, NEW e \in Endpoints, NEW live \in BOOLEAN,
           NEW redial \in BOOLEAN, NEW kept \in Seq(Commands)
    PROVE  Setup(g, e, live, redial, kept) \in Setups
<1>1. <<>> \in Seq([gen : Gens, ep : Endpoints])
  OBVIOUS
<1> QED BY <1>1 DEF Setup, Setups

LEMMA NoSetupTyped == NoSetup \in Setups
<1>1. <<>> \in Seq(Commands)
  OBVIOUS
<1>2. Setup(0, Launch, FALSE, FALSE, <<>>) \in Setups
  BY <1>1, SetupTyped, GensTyped, NetActorAssumption
<1> QED BY <1>2 DEF NoSetup, Setups

\* Admission touches the Dials seen, the commands kept and one flag.
LEMMA AdmitTyped ==
    ASSUME NEW st \in Setups, NEW c \in Commands
    PROVE  /\ Admit(st, c) \in Setups
           /\ Admit(st, c).gen = st.gen /\ Admit(st, c).fuel = st.fuel
           /\ Admit(st, c).dials =
                IF c.k = "Dial"
                THEN Append(st.dials, [gen |-> c.gen, ep |-> c.ep])
                ELSE st.dials
<1>1. CASE c.k = "Dial"
  <2>1. Admit(st, c) = [st EXCEPT !.dials = Append(@, [gen |-> c.gen, ep |-> c.ep]),
                                  !.kept = <<>>, !.dropped = FALSE]
    BY <1>1 DEF Admit
  <2>2. /\ Append(st.dials, [gen |-> c.gen, ep |-> c.ep])
             \in Seq([gen : Gens, ep : Endpoints])
        /\ <<>> \in Seq(Commands)
    BY <1>1, CommandFields DEF Setups
  <2> QED BY <1>1, <2>1, <2>2 DEF Setups
<1>2. CASE c.k \in {"Drop", "Hangup"}
  <2>1. Admit(st, c) = [st EXCEPT !.kept = Append(@, c), !.dropped = TRUE]
    BY <1>2 DEF Admit
  <2>2. Append(st.kept, c) \in Seq(Commands)
    BY DEF Setups
  <2>3. Admit(st, c) \in Setups
    BY <2>1, <2>2 DEF Setups
  <2> QED BY <1>2, <2>1, <2>3 DEF Setups
<1>3. CASE c.k \in {"Cont", "Pong"}
  <2>1. Admit(st, c) = [st EXCEPT !.kept = Append(@, c)]
    BY <1>3 DEF Admit
  <2>2. Append(st.kept, c) \in Seq(Commands)
    BY DEF Setups
  <2>3. Admit(st, c) \in Setups
    BY <2>1, <2>2 DEF Setups
  <2> QED BY <1>3, <2>1, <2>3 DEF Setups
<1>4. CASE c.k \in {"Pump", "Begin"}
  BY <1>4 DEF Admit
<1> QED BY <1>1, <1>2, <1>3, <1>4, CommandFields

-----------------------------------------------------------------------------
(* Type correctness *)

\* Types alone are not inductive: a line's identity stays in range because no
\* generation has more lines than were submitted in all and no reader answers
\* before it has read a PING; a drain in progress has rounds left; and what a
\* command does to the writer is typed because the writer is at rest between
\* commands.
PongsCounted == \A g \in Gens : reader[g].pc = "pong" => reader[g].pings > 0

TypeInv ==
    /\ TypeOK
    /\ WriterRests(w)
    /\ \A g \in Gens : ui.typed[g] <= ui.lines
    /\ pc = "drain" => s.fuel > 0
    /\ PongsCounted

\* The outcome of a queue command that waits in cmd or in kept.
LEMMA QueueOutcomesOK ==
    ASSUME WriterRests(w), NEW c \in Commands, NEW r \in QueueOutcomes(c)
    PROVE  /\ QueueOutcome(w, r)
           /\ c = Pump(w.gen) => (r.w.sched => r.pump)
<1>1. CASE c.k = "Cont"
  <2>1. r \in WriterCont(w, c.lines) /\ c # Pump(w.gen)
    BY <1>1 DEF QueueOutcomes, Pump
  <2> QED BY <1>1, <2>1, ContOutcome, CommandFields
<1>2. CASE c.k = "Pong"
  <2>1. r \in WriterPong(w, c.gen, c.lines, c.req) /\ c # Pump(w.gen)
    BY <1>2 DEF QueueOutcomes, Pump
  <2> QED BY <1>2, <2>1, PongOutcome, CommandFields
<1>3. CASE c.k = "Pump"
  <2>1. r \in WriterPump(w, c.gen)
    BY <1>3 DEF QueueOutcomes
  <2>2. c = Pump(w.gen) => c.gen = w.gen
    BY DEF Pump
  <2> QED BY <1>3, <2>1, <2>2, PumpOutcome, CommandFields
<1>4. CASE c.k \notin {"Cont", "Pong", "Pump"}
  <2>1. r \in Unmoved(w) /\ c # Pump(w.gen)
    BY <1>4 DEF QueueOutcomes, Pump
  <2> QED BY <2>1, UnmovedOutcome
<1> QED BY <1>1, <1>2, <1>3, <1>4

\* Sending touches the writer, one connection and the spawned tasks.
LEMMA SendingTyped ==
    ASSUME TypeInv, NEW g \in Gens, NEW r, QueueOutcome(w, r), Sending(r, g)
    PROVE  /\ w' \in Writers /\ WriterRests(w)' /\ w'.gen = w.gen
           /\ conn' \in [Gens -> Conns]
           /\ fails' \in [Gens -> Nat] /\ pumps' \in [Gens -> Nat]
<1>1. w' \in Writers /\ WriterRests(w)' /\ w'.gen = w.gen
  BY OutcomeRests DEF Sending, QueueOutcome, WriterRests
<1>2. conn' \in [Gens -> Conns]
  <2>1. conn[g] \in Conns /\ conn \in [Gens -> Conns]
    BY DEF TypeInv, TypeOK
  <2>2. conn[g].wire \o r.wire \in Seq(Sent)
    BY <2>1 DEF QueueOutcome, Conns
  <2>3. (IF r.ok THEN conn[g].st ELSE "failed") \in
            {"none", "raw", "up", "live", "abandoned", "flushed", "dropped",
             "failed"}
    BY <2>1 DEF Conns
  <2> QED BY <2>1, <2>2, <2>3 DEF Sending, Conns
<1>3. fails' \in [Gens -> Nat] /\ pumps' \in [Gens -> Nat]
  BY DEF Sending, TypeInv, TypeOK
<1> QED BY <1>1, <1>2, <1>3

LEMMA FlushAndCloseTyped ==
    ASSUME TypeInv, NEW report \in BOOLEAN, FlushAndClose(report)
    PROVE  conn' \in [Gens -> Conns] /\ fails' \in [Gens -> Nat]
<1>1. w \in Writers /\ w.gen \in Gens
  BY WriterFields DEF TypeInv, TypeOK
<1>2. conn[w.gen] \in Conns /\ conn \in [Gens -> Conns] /\ fails \in [Gens -> Nat]
  BY <1>1 DEF TypeInv, TypeOK
<1>3. CASE ~w.sock
  BY <1>2, <1>3 DEF FlushAndClose
<1>4. CASE w.sock
  <2>1. PICK r \in Flush(w) :
            /\ conn' = [conn EXCEPT
                            ![w.gen].wire = @ \o r.wire,
                            ![w.gen].extra = @ + Len(r.wire),
                            ![w.gen].st = IF r.ok THEN "flushed" ELSE "failed"]
            /\ fails' = IF report /\ ~r.ok
                        THEN [fails EXCEPT ![w.gen] = @ + 1] ELSE fails
    BY <1>4 DEF FlushAndClose
  <2>2. /\ conn[w.gen].wire \o r.wire \in Seq(Sent)
        /\ conn[w.gen].extra + Len(r.wire) \in Nat
    BY <1>1, <1>2, FlushTyped DEF Conns
  <2>3. conn' \in [Gens -> Conns]
    BY <1>1, <1>2, <2>1, <2>2 DEF Conns
  <2> QED BY <1>1, <1>2, <2>1, <2>3
<1> QED BY <1>3, <1>4

LEMMA TypeInit == Init => TypeInv
<1> SUFFICES ASSUME Init PROVE TypeInv
  OBVIOUS
<1> USE GensTyped, NetActorAssumption
<1>1. PICK start \in Starts : InitStart(start)
  BY DEF Init
<1>2. start \in {"boot", "idle", "deferred"}
  OBVIOUS
<1>3. w \in Writers /\ WriterRests(w)
  <2>1. BudgetFrames(Frames) \in Budget
    BY OutboundAssumption DEF BudgetFrames, Unlimited, Budget, U32
  <2>2. 1 \in U32
    BY OutboundAssumption DEF U32
  <2> QED BY <2>1, <2>2, SocketlessTyped DEF Init, WriterRests
<1>4. pc \in Phases /\ pc # "drain"
  BY <1>1, <1>2 DEF InitStart, Phases, Setting
<1>5. s \in Setups
  <2>1. <<>> \in Seq(Commands) /\ (start = "boot") \in BOOLEAN
    OBVIOUS
  <2>2. Setup(1, Launch, start = "boot", FALSE, <<>>) \in Setups
    BY <2>1, SetupTyped
  <2> QED BY <1>1, <2>2, NoSetupTyped DEF InitStart
<1>6. scope \in Scopes
  BY <1>1, <1>2 DEF InitStart, InitScope, Scopes
<1>7. ui \in Uis /\ \A g \in Gens : ui.typed[g] <= ui.lines
  <2>1. [g \in Gens |-> 0] \in [Gens -> 0 .. MaxLines]
    OBVIOUS
  <2> QED BY <1>1, <1>2, <2>1 DEF InitStart, InitUi, Uis
<1>8. conn \in [Gens -> Conns]
  <2>1. NoConn \in Conns
    BY DEF NoConn, Conns
  <2> QED BY <2>1 DEF Init
<1>9. reader \in [Gens -> Readers] /\ PongsCounted
  BY OutboundAssumption, WriterAssumption DEF Init, Readers, U32, PongsCounted
<1>10. /\ cmd \in Seq(Commands) /\ cmdOpen \in BOOLEAN /\ evt \in Seq(Events)
       /\ boot \in Seq({"Booted", "Down"})
       /\ pumps \in [Gens -> Nat] /\ fails \in [Gens -> Nat]
  BY DEF Init
<1> QED BY <1>3, <1>4, <1>5, <1>6, <1>7, <1>8, <1>9, <1>10 DEF TypeInv, TypeOK

\* Before Begin.
LEMMA TypeDeferred ==
    ASSUME TypeInv, DeferredCommand \/ DeferredEnded
    PROVE  TypeInv'
<1>1. s \in Setups /\ w \in Writers /\ scope \in Scopes /\ cmd \in Seq(Commands)
      /\ pc = "deferred"
  BY DEF TypeInv, TypeOK, PongsCounted, DeferredCommand, DeferredEnded
<1>2. /\ [w EXCEPT !.gen = s.gen] \in Writers
      /\ WriterRests([w EXCEPT !.gen = s.gen])
  BY <1>1 DEF Writers, Setups, WriterRests, TypeInv
<1>3. CASE DeferredCommand
  <2>1. Head(cmd) \in Commands /\ cmd' \in Seq(Commands)
    BY <1>1, <1>3 DEF DeferredCommand
  <2>2. s' \in Setups
    <3>1. CASE Head(cmd).k = "Dial"
      <4>1. s' = Setup(Head(cmd).gen, Head(cmd).ep, FALSE, FALSE, <<>>)
        BY <1>3, <3>1 DEF DeferredCommand
      <4>2. <<>> \in Seq(Commands)
        OBVIOUS
      <4> QED BY <2>1, <3>1, <4>1, <4>2, CommandFields, SetupTyped
    <3>2. [s EXCEPT !.none = TRUE] \in Setups
      BY <1>1 DEF Setups
    <3>3. [s EXCEPT !.live = (s.gen = 1)] \in Setups
      BY <1>1 DEF Setups
    <3>4. CASE Head(cmd).k # "Dial"
      BY <1>1, <1>3, <3>2, <3>3, <3>4, NoSetupTyped DEF DeferredCommand
    <3> QED BY <3>1, <3>4
  <2>3. w' \in Writers /\ WriterRests(w)'
    BY <1>1, <1>2, <1>3 DEF DeferredCommand, TypeInv, WriterRests
  <2>4. scope' \in Scopes
    BY <1>1, <1>3 DEF DeferredCommand, AuthScopeDial, Scopes
  <2>5. pc' \in Phases /\ pc' # "drain"
    BY <1>1, <1>3 DEF DeferredCommand, Phases, Setting
  <2> QED BY <1>3, <2>1, <2>2, <2>3, <2>4, <2>5 DEF DeferredCommand, TypeInv, TypeOK, PongsCounted
<1>4. CASE DeferredEnded
  BY <1>1, <1>2, <1>4 DEF DeferredEnded, TypeInv, TypeOK, PongsCounted, Phases, WriterRests
<1> QED BY <1>3, <1>4

\* What every setup that gives up does.
LEMMA TypeLeaves ==
    ASSUME TypeInv, LeaveIdle
    PROVE  /\ pc' \in Phases /\ pc' # "drain"
           /\ w' \in Writers /\ WriterRests(w)' /\ s' \in Setups
<1>1. /\ s.gen \in Gens /\ w.ntxn \in U32 /\ w.budget \in Budget
  BY WriterFields DEF TypeInv, TypeOK, PongsCounted, Setups
<1> QED BY <1>1, SocketlessTyped, NoSetupTyped DEF LeaveIdle, Phases, WriterRests

LEMMA TypeReports ==
    ASSUME TypeInv, ReportFailure \/ (ReportCancel /\ UNCHANGED fails)
    PROVE  boot' \in Seq({"Booted", "Down"}) /\ fails' \in [Gens -> Nat]
<1>1. s.gen \in Gens /\ fails \in [Gens -> Nat] /\ boot \in Seq({"Booted", "Down"})
  BY DEF TypeInv, TypeOK, PongsCounted, Setups
<1>2. [fails EXCEPT ![s.gen] = @ + 1] \in [Gens -> Nat]
  BY <1>1
<1>3. Append(boot, "Down") \in Seq({"Booted", "Down"})
  BY <1>1
<1> QED BY <1>1, <1>2, <1>3 DEF ReportFailure, ReportCancel

LEMMA AdmitScopeTyped ==
    ASSUME NEW sc \in Scopes, NEW dials
    PROVE  AdmitScope(sc, dials) \in Scopes
BY DEF AdmitScope, Scopes

LEMMA CloseConnTyped ==
    ASSUME TypeInv, CloseConn("abandoned")
    PROVE  conn' \in [Gens -> Conns]
<1>1. s.gen \in Gens /\ conn \in [Gens -> Conns] /\ conn[s.gen] \in Conns
  BY DEF TypeInv, TypeOK, PongsCounted, Setups
<1>2. [conn[s.gen] EXCEPT !.st = "abandoned"] \in Conns
  BY <1>1 DEF Conns
<1> QED BY <1>1, <1>2 DEF CloseConn

LEMMA SetupFuel ==
    ASSUME NEW st \in Setups, NEW n \in Nat, NEW c \in BOOLEAN
    PROVE  /\ [st EXCEPT !.fuel = n] \in Setups
           /\ [st EXCEPT !.fuel = n].fuel = n
           /\ [st EXCEPT !.fuel = n, !.closed = c] \in Setups
           /\ [st EXCEPT !.fuel = n, !.closed = c].fuel = n
BY DEF Setups

\* From the dial to the verdict.
LEMMA TypeSetup ==
    ASSUME TypeInv,
           \/ DialFailed \/ DialConnected \/ PeekCommand \/ PeekEnd
           \/ SetupCancel \/ SetupRetry \/ SetupUpgrade
           \/ UpgradeFailed \/ UpgradeDone \/ DrainCommand \/ DrainEnded
    PROVE  TypeInv'
<1>1. /\ s \in Setups /\ s.gen \in Gens /\ s.fuel \in Nat /\ s.ep \in Endpoints
      /\ w \in Writers /\ WriterRests(w) /\ scope \in Scopes
      /\ cmd \in Seq(Commands) /\ conn \in [Gens -> Conns]
      /\ pc \in Phases /\ (pc = "drain" => s.fuel > 0)
      /\ ui.want \in Gens
  BY DEF TypeInv, TypeOK, PongsCounted, Setups, Uis
<1>2. PeekCap \in Nat \ {0} /\ DrainCap \in Nat \ {0}
  BY NetActorAssumption
<1>3. CASE DialFailed
  <2>1. /\ pc' \in Phases /\ pc' # "drain"
        /\ w' \in Writers /\ WriterRests(w)' /\ s' \in Setups
        /\ reader' = reader /\ pumps' = pumps
    BY <1>3, TypeLeaves DEF DialFailed, LeaveIdle
  <2>2. boot' \in Seq({"Booted", "Down"}) /\ fails' \in [Gens -> Nat]
    BY <1>3, TypeReports DEF DialFailed
  <2>3. UNCHANGED <<scope, cmd, cmdOpen, evt, conn, ui>>
    BY <1>3 DEF DialFailed
  <2> QED BY <2>1, <2>2, <2>3 DEF TypeInv, TypeOK, PongsCounted
<1>4. CASE DialConnected
  <2>1. s' \in Setups
    BY <1>1, <1>2, <1>4, SetupFuel DEF DialConnected
  <2>2. [NoConn EXCEPT !.st = "raw", !.ep = s.ep] \in Conns
    BY <1>1, GensTyped DEF NoConn, Conns
  <2>3. conn' \in [Gens -> Conns]
    BY <1>1, <1>4, <2>2 DEF DialConnected
  <2> QED BY <1>1, <1>4, <2>1, <2>3
      DEF DialConnected, TypeInv, TypeOK, PongsCounted, Phases, Setting, WriterRests
<1>5. CASE PeekCommand
  <2>1. Head(cmd) \in Commands /\ cmd' \in Seq(Commands)
    BY <1>1, <1>5 DEF PeekCommand
  <2>2. s' \in Setups
    <3>1. Admit(s, Head(cmd)) \in Setups /\ Admit(s, Head(cmd)).fuel = s.fuel
      BY <1>1, <2>1, AdmitTyped
    <3>2. s.fuel > 0 /\ s' = [Admit(s, Head(cmd)) EXCEPT !.fuel = @ - 1]
      BY <1>5 DEF PeekCommand
    <3>3. s.fuel - 1 \in Nat
      BY <1>1, <3>2
    <3> QED BY <3>1, <3>2, <3>3, SetupFuel
  <2> QED BY <1>1, <1>5, <2>1, <2>2
      DEF PeekCommand, TypeInv, TypeOK, PongsCounted, Phases, Setting, WriterRests
<1>6. CASE PeekEnd
  <2>1. (s.closed \/ (s.fuel > 0 /\ CmdEnded)) \in BOOLEAN
    BY <1>1 DEF CmdEnded, Setups
  <2>2. s' \in Setups
    BY <1>1, <1>6, <2>1 DEF PeekEnd, Setups
  <2> QED BY <1>1, <1>6, <2>2
      DEF PeekEnd, TypeInv, TypeOK, PongsCounted, Phases, Setting, WriterRests
<1>7. CASE SetupCancel
  <2>1. /\ pc' \in Phases /\ pc' # "drain"
        /\ w' \in Writers /\ WriterRests(w)' /\ s' \in Setups
        /\ reader' = reader /\ pumps' = pumps
    BY <1>7, TypeLeaves DEF SetupCancel, LeaveIdle
  <2>2. boot' \in Seq({"Booted", "Down"}) /\ fails' \in [Gens -> Nat]
    BY <1>7, TypeReports DEF SetupCancel
  <2>3. scope' \in Scopes /\ conn' \in [Gens -> Conns]
    BY <1>1, <1>7, AdmitScopeTyped, CloseConnTyped DEF SetupCancel
  <2>4. UNCHANGED <<cmd, cmdOpen, evt, ui>>
    BY <1>7 DEF SetupCancel
  <2> QED BY <2>1, <2>2, <2>3, <2>4 DEF TypeInv, TypeOK, PongsCounted
<1>8. CASE SetupRetry
  <2> DEFINE d == s.dials[Len(s.dials)]
  <2>1. d.gen \in Gens /\ d.ep \in Endpoints
    <3>1. s.dials \in Seq([gen : Gens, ep : Endpoints]) /\ s.dials # <<>>
      BY <1>1, <1>8 DEF SetupRetry, Superseded, Setups
    <3>2. Len(s.dials) \in 1 .. Len(s.dials)
      BY <3>1, EmptySeq
    <3>3. s.dials[Len(s.dials)] \in [gen : Gens, ep : Endpoints]
      BY <3>1, <3>2, ElementOfSeq
    <3> QED BY <3>3
  <2>2. s' = Setup(d.gen, d.ep, s.live, s.redial, s.kept)
    BY <1>8 DEF SetupRetry
  <2>3. s.live \in BOOLEAN /\ s.redial \in BOOLEAN /\ s.kept \in Seq(Commands)
    BY <1>1 DEF Setups
  <2>4. s' \in Setups
    <3> HIDE DEF d
    <3> QED BY <2>1, <2>2, <2>3, SetupTyped
  <2>5. scope' \in Scopes /\ conn' \in [Gens -> Conns]
    BY <1>1, <1>8, AdmitScopeTyped, CloseConnTyped DEF SetupRetry
  <2>6. pc' = "dial" /\ UNCHANGED <<w, cmd, cmdOpen, evt, boot, pumps, fails, reader, ui>>
    BY <1>8 DEF SetupRetry
  <2> QED BY <1>1, <2>4, <2>5, <2>6
      DEF TypeInv, TypeOK, PongsCounted, Phases, Setting, WriterRests
<1>9. CASE SetupUpgrade
  BY <1>1, <1>9 DEF SetupUpgrade, TypeInv, TypeOK, PongsCounted, Phases, Setting, WriterRests
<1>10. CASE UpgradeFailed
  <2>1. /\ pc' \in Phases /\ pc' # "drain"
        /\ w' \in Writers /\ WriterRests(w)' /\ s' \in Setups
        /\ reader' = reader /\ pumps' = pumps
    BY <1>10, TypeLeaves DEF UpgradeFailed, LeaveIdle
  <2>2. boot' \in Seq({"Booted", "Down"}) /\ fails' \in [Gens -> Nat]
    BY <1>10, TypeReports DEF UpgradeFailed
  <2>3. conn' \in [Gens -> Conns]
    BY <1>10, CloseConnTyped DEF UpgradeFailed
  <2>4. UNCHANGED <<scope, cmd, cmdOpen, evt, ui>>
    BY <1>10 DEF UpgradeFailed
  <2> QED BY <2>1, <2>2, <2>3, <2>4 DEF TypeInv, TypeOK, PongsCounted
<1>11. CASE UpgradeDone
  <2>1. s' \in Setups /\ s'.fuel > 0
    <3>1. s' = [s EXCEPT !.fuel = DrainCap]
      BY <1>11 DEF UpgradeDone
    <3>2. [s EXCEPT !.fuel = DrainCap] \in Setups
      BY <1>1, <1>2 DEF Setups
    <3>3. s'.fuel = DrainCap /\ DrainCap > 0
      BY <1>1, <1>2, <3>1 DEF Setups
    <3> QED BY <3>1, <3>2, <3>3
  <2>2. [conn[s.gen] EXCEPT !.st = "up",
                            !.wanted = IF cmdOpen THEN ui.want ELSE 0] \in Conns
    <3> DEFINE x == IF cmdOpen THEN ui.want ELSE 0
    <3>1. x \in Gens
      BY <1>1, GensTyped DEF Uis
    <3>2. conn[s.gen] \in Conns
      BY <1>1
    <3> HIDE DEF x
    <3>3. [conn[s.gen] EXCEPT !.st = "up", !.wanted = x] \in Conns
      BY <3>1, <3>2 DEF Conns
    <3> QED BY <3>3 DEF x
  <2>3. conn' \in [Gens -> Conns]
    BY <1>1, <1>11, <2>2 DEF UpgradeDone
  <2>4. pumps' \in [Gens -> Nat]
    BY <1>1, <1>11 DEF UpgradeDone, TypeInv, TypeOK, PongsCounted
  <2> QED BY <1>1, <1>11, <2>1, <2>3, <2>4
      DEF UpgradeDone, TypeInv, TypeOK, PongsCounted, Phases, Setting, WriterRests
<1>12. CASE DrainCommand
  <2>1. Head(cmd) \in Commands /\ cmd' \in Seq(Commands)
    BY <1>1, <1>12 DEF DrainCommand
  <2> DEFINE stop == Sentinel(s, Head(cmd))
             a == Admit(s, Head(cmd))
             full == a.closed \/ (~stop /\ s.fuel = 1)
  <2>2. a \in Setups /\ a.fuel = s.fuel
    BY <1>1, <2>1, AdmitTyped
  <2>3. s' = [a EXCEPT !.fuel = @ - 1, !.closed = full] /\ s.fuel > 0
    BY <1>1, <1>12 DEF DrainCommand
  <2>4. full \in BOOLEAN
    <3> HIDE DEF a
    <3> QED BY <2>2 DEF Sentinel, Setups
  <2>5. s' \in Setups /\ s'.fuel = s.fuel - 1
    <3> HIDE DEF a, full
    <3>1. s.fuel - 1 \in Nat
      BY <1>1, <2>3
    <3>2. s' = [a EXCEPT !.fuel = s.fuel - 1, !.closed = full]
      BY <2>2, <2>3
    <3> QED BY <2>2, <2>4, <3>1, <3>2, SetupFuel
  <2>6. pc' \in Phases /\ (pc' = "drain" => s.fuel # 1)
    BY <1>1, <1>12 DEF DrainCommand, Phases, Setting
  <2>7. UNCHANGED <<w, scope, cmdOpen, evt, boot, pumps, fails, conn, reader, ui>>
    BY <1>12 DEF DrainCommand
  <2> QED BY <1>1, <2>1, <2>3, <2>5, <2>6, <2>7 DEF TypeInv, TypeOK, PongsCounted, WriterRests
<1>13. CASE DrainEnded
  <2>1. s' \in Setups
    BY <1>1, <1>13 DEF DrainEnded, Setups
  <2> QED BY <1>1, <1>13, <2>1
      DEF DrainEnded, TypeInv, TypeOK, PongsCounted, Phases, Setting, WriterRests
<1> QED BY <1>3, <1>4, <1>5, <1>6, <1>7, <1>8, <1>9, <1>10, <1>11, <1>12, <1>13

\* Registration, replay and adoption.
LEMMA TypeAdoption ==
    ASSUME TypeInv,
           Register \/ RegisterFailed \/ Replay \/ ArmBoot \/ ArmRedial
    PROVE  TypeInv'
<1>1. /\ s \in Setups /\ s.gen \in Gens
      /\ s.kept \in Seq(Commands)
      /\ w \in Writers /\ WriterRests(w) /\ w.gen \in Gens
      /\ w.ntxn \in U32 /\ w.budget \in Budget
      /\ conn \in [Gens -> Conns] /\ conn[s.gen] \in Conns
      /\ reader \in [Gens -> Readers]
  BY WriterFields DEF TypeInv, TypeOK, PongsCounted, Setups
<1>2. (IF scope.on THEN "sasl" ELSE "plain") \in {"none", "plain", "sasl"}
  OBVIOUS
<1>3. CASE Register
  <2>1. w' \in Writers /\ WriterRests(w)'
    BY <1>1, <1>3, SocketlessTyped DEF Register, WriterRests, Adopted
  <2>2. [conn[s.gen] EXCEPT !.st = "live",
                            !.reg = IF scope.on THEN "sasl" ELSE "plain"] \in Conns
    BY <1>1, <1>2 DEF Conns
  <2>3. conn' \in [Gens -> Conns]
    BY <1>1, <1>3, <2>2 DEF Register
  <2>4. pc' = "replay" /\ UNCHANGED <<scope, s, cmd, cmdOpen, evt, boot, pumps, fails, reader, ui>>
    BY <1>3 DEF Register
  <2> QED BY <2>1, <2>3, <2>4 DEF TypeInv, TypeOK, PongsCounted, Phases
<1>4. CASE RegisterFailed
  <2>1. /\ pc' \in Phases /\ pc' # "drain"
        /\ w' \in Writers /\ WriterRests(w)' /\ s' \in Setups
        /\ reader' = reader /\ pumps' = pumps
    BY <1>4, TypeLeaves DEF RegisterFailed, LeaveIdle
  <2>2. boot' \in Seq({"Booted", "Down"}) /\ fails' \in [Gens -> Nat]
    BY <1>4, TypeReports DEF RegisterFailed
  <2>3. [conn[s.gen] EXCEPT !.st = "abandoned",
                            !.reg = IF scope.on THEN "sasl" ELSE "plain"] \in Conns
    BY <1>1, <1>2 DEF Conns
  <2>4. conn' \in [Gens -> Conns]
    BY <1>1, <1>4, <2>3 DEF RegisterFailed
  <2>5. UNCHANGED <<scope, cmd, cmdOpen, evt, ui>>
    BY <1>4 DEF RegisterFailed
  <2> QED BY <2>1, <2>2, <2>4, <2>5 DEF TypeInv, TypeOK, PongsCounted
<1>5. CASE Replay
  <2>1. Head(s.kept) \in Commands /\ Tail(s.kept) \in Seq(Commands)
    BY <1>1, <1>5 DEF Replay
  <2>2. PICK r \in QueueOutcomes(Head(s.kept)) : Sending(r, w.gen)
    BY <1>5 DEF Replay
  <2>3. QueueOutcome(w, r)
    BY <1>1, <2>1, <2>2, QueueOutcomesOK
  <2>4. /\ w' \in Writers /\ WriterRests(w)' /\ conn' \in [Gens -> Conns]
        /\ fails' \in [Gens -> Nat] /\ pumps' \in [Gens -> Nat]
    BY <1>1, <2>2, <2>3, SendingTyped
  <2>5. s' \in Setups /\ pc' = "replay"
    BY <1>1, <1>5, <2>1 DEF Replay, Setups
  <2>6. UNCHANGED <<pc, scope, cmd, cmdOpen, evt, boot, reader, ui>>
    BY <1>5 DEF Replay
  <2> QED BY <2>4, <2>5, <2>6 DEF TypeInv, TypeOK, PongsCounted, Phases
<1>6. ASSUME StartReader(w.gen)
      PROVE  reader' \in [Gens -> Readers] /\ PongsCounted'
  <2>1. PongFirst(w.gen) \in U32
    <3>1. CASE w.gen \in 0 .. PongGens - 1
      <4>1. PongFirst(w.gen) \in PongTxn .. PongLast(w.gen) /\ PongLast(w.gen) < Word
        BY <3>1, PongRangesApart
      <4>2. PongFirst(w.gen) \in Nat /\ PongLast(w.gen) \in Nat
        <5>1. w.gen * PongStride \in Nat
          BY <1>1, GensTyped, OutboundAssumption
        <5> QED BY <5>1, OutboundAssumption DEF PongFirst, PongLast
      <4> QED BY <4>1, <4>2, OutboundAssumption DEF U32
    <3>2. CASE w.gen \notin 0 .. PongGens - 1
      <4>1. w.gen >= PongGens
        <5>1. w.gen \in Nat /\ PongGens \in Nat
          BY <1>1, GensTyped, OutboundAssumption
        <5> QED BY <3>2, <5>1
      <4> QED BY <4>1, OutboundAssumption DEF PongFirst, U32
    <3> QED BY <3>1, <3>2
  <2>2. [reader[w.gen] EXCEPT !.pc = "up", !.req = PongFirst(w.gen)] \in Readers
    BY <1>1, <2>1 DEF Readers
  <2>3. PongsCounted'
    BY <1>1, <1>6 DEF StartReader, TypeInv, PongsCounted, Readers
  <2> QED BY <1>1, <1>6, <2>2, <2>3 DEF StartReader
<1>7. CASE ArmBoot
  <2>1. boot' \in Seq({"Booted", "Down"})
    BY <1>7 DEF ArmBoot, TypeInv, TypeOK, PongsCounted
  <2>2. reader' \in [Gens -> Readers] /\ PongsCounted' /\ s' \in Setups /\ pc' = "loop"
    BY <1>6, <1>7, NoSetupTyped DEF ArmBoot
  <2>3. UNCHANGED <<w, scope, cmd, cmdOpen, evt, pumps, fails, conn, ui>>
    BY <1>7 DEF ArmBoot
  <2> QED BY <2>1, <2>2, <2>3 DEF TypeInv, TypeOK, PongsCounted, Phases, WriterRests
<1>8. CASE ArmRedial
  <2>1. PICK r \in WriterPump(w, w.gen) : Sending(r, w.gen)
    BY <1>8 DEF ArmRedial
  <2>2. QueueOutcome(w, r)
    BY <1>1, <2>1, PumpOutcome
  <2>3. /\ w' \in Writers /\ WriterRests(w)' /\ conn' \in [Gens -> Conns]
        /\ fails' \in [Gens -> Nat] /\ pumps' \in [Gens -> Nat]
    BY <1>1, <2>1, <2>2, SendingTyped
  <2>4. reader' \in [Gens -> Readers] /\ PongsCounted' /\ s' \in Setups /\ pc' = "loop"
    BY <1>6, <1>8, NoSetupTyped DEF ArmRedial
  <2>5. UNCHANGED <<scope, cmd, cmdOpen, evt, boot, ui>>
    BY <1>8 DEF ArmRedial
  <2> QED BY <2>3, <2>4, <2>5 DEF TypeInv, TypeOK, PongsCounted, Phases
<1> QED BY <1>3, <1>4, <1>5, <1>7, <1>8

\* The writer loop.
LEMMA TypeLoop ==
    ASSUME TypeInv,
           \/ WriterSend \/ WriterDrop \/ WriterHangup \/ WriterDial
           \/ WriterFinish \/ WriterEof \/ WriterDone
    PROVE  TypeInv'
<1>1. /\ w \in Writers /\ WriterRests(w) /\ w.gen \in Gens
      /\ Emptied(w) \in Writers /\ WriterRests(Emptied(w))
      /\ cmd \in Seq(Commands) /\ conn \in [Gens -> Conns]
      /\ scope \in Scopes
  BY WriterFields, EmptiedTyped, EmptiedRests DEF TypeInv, TypeOK, PongsCounted
<1>2. ASSUME NEW k, TakeCommand(k)
      PROVE  Head(cmd) \in Commands /\ cmd' \in Seq(Commands) /\ pc = "loop"
  BY <1>1, <1>2 DEF TakeCommand
<1>3. CASE WriterSend
  <2>1. Head(cmd) \in Commands /\ cmd' \in Seq(Commands) /\ pc = "loop"
    BY <1>2, <1>3 DEF WriterSend
  <2>2. PICK r \in QueueOutcomes(Head(cmd)) : Sending(r, w.gen)
    BY <1>3 DEF WriterSend
  <2>3. QueueOutcome(w, r)
    BY <1>1, <2>1, <2>2, QueueOutcomesOK
  <2>4. /\ w' \in Writers /\ WriterRests(w)' /\ conn' \in [Gens -> Conns]
        /\ fails' \in [Gens -> Nat] /\ pumps' \in [Gens -> Nat]
    BY <1>1, <2>2, <2>3, SendingTyped
  <2>5. UNCHANGED <<pc, scope, s, cmdOpen, evt, boot, reader, ui>>
    BY <1>3 DEF WriterSend
  <2> QED BY <2>1, <2>4, <2>5 DEF TypeInv, TypeOK, PongsCounted
<1>4. CASE WriterDrop
  <2>1. conn' \in [Gens -> Conns]
    <3>1. conn[w.gen] \in Conns
      BY <1>1
    <3>2. [conn[w.gen] EXCEPT !.st = "dropped"] \in Conns
      BY <3>1 DEF Conns
    <3> QED BY <1>1, <1>4, <3>2 DEF WriterDrop
  <2>2. cmd' \in Seq(Commands) /\ pc = "loop"
    BY <1>2, <1>4 DEF WriterDrop
  <2>3. /\ w' = Emptied(w)
        /\ UNCHANGED <<pc, scope, s, cmdOpen, evt, boot, pumps, fails, reader, ui>>
    BY <1>4 DEF WriterDrop
  <2> QED BY <1>1, <2>1, <2>2, <2>3 DEF TypeInv, TypeOK, PongsCounted
<1>5. CASE WriterHangup
  <2>1. conn' \in [Gens -> Conns] /\ fails' \in [Gens -> Nat]
    BY <1>5, FlushAndCloseTyped DEF WriterHangup
  <2>2. cmd' \in Seq(Commands) /\ pc = "loop"
    BY <1>2, <1>5 DEF WriterHangup
  <2>3. /\ w' = Emptied(w)
        /\ UNCHANGED <<pc, scope, s, cmdOpen, evt, boot, pumps, reader, ui>>
    BY <1>5 DEF WriterHangup
  <2> QED BY <1>1, <2>1, <2>2, <2>3 DEF TypeInv, TypeOK, PongsCounted
<1>6. CASE WriterDial
  <2>1. conn' \in [Gens -> Conns] /\ fails' \in [Gens -> Nat]
    BY <1>6, FlushAndCloseTyped DEF WriterDial
  <2>2. cmd' \in Seq(Commands) /\ Head(cmd) \in Commands
    BY <1>2, <1>6 DEF WriterDial
  <2>3. Head(cmd).gen \in Gens /\ Head(cmd).ep \in Endpoints
    BY <1>6, <2>2, CommandFields DEF WriterDial, TakeCommand
  <2>4. <<>> \in Seq(Commands)
    OBVIOUS
  <2>5. s' \in Setups
    BY <1>6, <2>3, <2>4, SetupTyped DEF WriterDial
  <2>6. scope' \in Scopes
    BY <1>1, <1>6 DEF WriterDial, AuthScopeDial, Scopes
  <2>7. /\ w' = Emptied(w) /\ pc' = "dial"
        /\ UNCHANGED <<cmdOpen, evt, boot, pumps, reader, ui>>
    BY <1>6 DEF WriterDial
  <2> QED BY <1>1, <2>1, <2>2, <2>5, <2>6, <2>7
      DEF TypeInv, TypeOK, PongsCounted, Phases, Setting
<1>8. CASE WriterFinish
  <2>1. conn' \in [Gens -> Conns] /\ fails' \in [Gens -> Nat]
    BY <1>8, FlushAndCloseTyped DEF WriterFinish
  <2>2. /\ w' = Emptied(w) /\ pc' = "eof"
        /\ UNCHANGED <<scope, s, cmd, cmdOpen, evt, boot, pumps, reader, ui>>
    BY <1>8 DEF WriterFinish
  <2> QED BY <1>1, <2>1, <2>2 DEF TypeInv, TypeOK, PongsCounted, Phases
<1>9. CASE WriterEof
  <2>1. evt' \in Seq(Events)
    BY <1>1, <1>9 DEF WriterEof, Post, Event, Events, TypeInv, TypeOK, PongsCounted
  <2> QED BY <1>9, <2>1 DEF WriterEof, TypeInv, TypeOK, PongsCounted, Phases, WriterRests
<1>10. CASE WriterDone
  <2>1. evt' \in Seq(Events)
    BY <1>1, <1>10 DEF WriterDone, Post, Event, Events, TypeInv, TypeOK, PongsCounted
  <2> QED BY <1>10, <2>1 DEF WriterDone, TypeInv, TypeOK, PongsCounted, Phases, WriterRests
<1> QED BY <1>3, <1>4, <1>5, <1>6, <1>8, <1>9, <1>10

\* The spawned tasks, the readers and the UI.
LEMMA TypeOthers ==
    ASSUME TypeInv, NEW g \in Gens,
           PumpSend(g) \/ FailPost(g) \/ ReaderStep(g) \/ UiCommand \/ UiTake
    PROVE  TypeInv'
<1>1. /\ cmd \in Seq(Commands) /\ evt \in Seq(Events) /\ cmdOpen \in BOOLEAN
      /\ reader \in [Gens -> Readers] /\ reader[g] \in Readers
      /\ pumps \in [Gens -> Nat] /\ fails \in [Gens -> Nat]
      /\ ui \in Uis /\ \A h \in Gens : ui.typed[h] <= ui.lines
  BY DEF TypeInv, TypeOK
<1>2. ASSUME NEW c \in Commands, PostCmd(c)
      PROVE  cmd' \in Seq(Commands)
  BY <1>1, <1>2 DEF PostCmd
<1>3. ASSUME NEW e \in {"Up", "Chunk", "Eof", "NetFail", "WriterDone"}, Post(e, g)
      PROVE  evt' \in Seq(Events)
  BY <1>1, <1>3 DEF Post, Event, Events
<1>4. ASSUME NEW to \in {"recv", "chunk", "eof", "fail", "gone"}, ReaderGo(g, to)
      PROVE  reader' \in [Gens -> Readers] /\ PongsCounted'
  <2>1. [reader[g] EXCEPT !.pc = to] \in Readers
    BY <1>1 DEF Readers
  <2>2. PongsCounted'
    BY <1>1, <1>4 DEF ReaderGo, TypeInv, PongsCounted, Readers
  <2> QED BY <1>1, <1>4, <2>1, <2>2 DEF ReaderGo
<1>5. CASE PumpSend(g)
  <2>1. Pump(g) \in Commands
    BY DEF Pump, Commands
  <2>2. cmd' \in Seq(Commands) /\ pumps' \in [Gens -> Nat]
    BY <1>1, <1>2, <1>5, <2>1 DEF PumpSend
  <2> QED BY <1>5, <2>2 DEF PumpSend, TypeInv, TypeOK, WriterRests, PongsCounted
<1>6. CASE FailPost(g)
  <2>1. evt' \in Seq(Events) /\ fails' \in [Gens -> Nat]
    BY <1>1, <1>3, <1>6 DEF FailPost
  <2> QED BY <1>6, <2>1 DEF FailPost, TypeInv, TypeOK, WriterRests, PongsCounted
<1>7. CASE ReaderUp(g)
  <2>1. evt' \in Seq(Events) /\ reader' \in [Gens -> Readers] /\ PongsCounted'
    BY <1>3, <1>4, <1>7 DEF ReaderUp
  <2> QED BY <1>7, <2>1 DEF ReaderUp, TypeInv, TypeOK, WriterRests
<1>8. CASE ReaderRecv(g)
  <2>1. CASE /\ reader[g].pings < MaxPings
             /\ reader' = [reader EXCEPT ![g].pc = "pong", ![g].pings = @ + 1]
    <3>1. reader[g].pings + 1 \in 0 .. MaxId
      <4>1. MaxPings \in 0 .. MaxId /\ MaxId \in Nat /\ reader[g].pings \in 0 .. MaxId
        BY <1>1, NetActorAssumption, WriterAssumption DEF Readers
      <4> QED BY <2>1, <4>1
    <3>2. [reader[g] EXCEPT !.pc = "pong", !.pings = @ + 1] \in Readers
      BY <1>1, <3>1 DEF Readers
    <3>3. reader' \in [Gens -> Readers] /\ PongsCounted'
      BY <1>1, <2>1, <3>2 DEF TypeInv, PongsCounted, Readers
    <3> QED BY <1>8, <3>3 DEF ReaderRecv, TypeInv, TypeOK, WriterRests
  <2>2. CASE ReaderGo(g, "chunk") \/ ReaderGo(g, "eof") \/ ReaderGo(g, "fail")
    <3>1. reader' \in [Gens -> Readers] /\ PongsCounted'
      BY <1>4, <2>2
    <3> QED BY <1>8, <3>1 DEF ReaderRecv, TypeInv, TypeOK, WriterRests
  <2> QED BY <1>8, <2>1, <2>2 DEF ReaderRecv
<1>9. CASE ReaderPong(g)
  <2> DEFINE lines == <<[from |-> "pong", gen |-> g, id |-> reader[g].pings]>>
  <2>1. reader[g].pings \in 1 .. MaxId
    BY <1>1, <1>9, WriterAssumption
       DEF ReaderPong, ReaderAt, TypeInv, PongsCounted, Readers
  <2>2. lines \in Seq(Line)
    BY <2>1 DEF Line
  <2>3. Pong(g, lines, reader[g].req) \in Commands
    BY <1>1, <2>2 DEF Pong, Commands, Readers
  <2>4. cmd' \in Seq(Commands)
    BY <1>2, <1>9, <2>3 DEF ReaderPong
  <2>5. NextPongTxn(reader[g].req) \in U32
    <3>1. reader[g].req \in Nat /\ Word \in Nat \ {0}
      BY <1>1, OutboundAssumption DEF Readers, U32
    <3>2. (reader[g].req + 1) % Word \in U32 /\ 0 \in U32
      BY <3>1 DEF U32
    <3> QED BY <3>2 DEF NextPongTxn
  <2>6. [reader[g] EXCEPT !.pc = "chunk", !.req = NextPongTxn(@)] \in Readers
    BY <1>1, <2>5 DEF Readers
  <2>7. reader' = [reader EXCEPT ![g].pc = "chunk", ![g].req = NextPongTxn(@)]
    BY <1>9 DEF ReaderPong
  <2>8. reader' \in [Gens -> Readers] /\ PongsCounted'
    BY <1>1, <2>6, <2>7 DEF TypeInv, PongsCounted, Readers
  <2> QED BY <1>9, <2>4, <2>8 DEF ReaderPong, TypeInv, TypeOK, WriterRests
<1>10. CASE ReaderChunk(g)
  <2>1. evt' \in Seq(Events) /\ reader' \in [Gens -> Readers] /\ PongsCounted'
    BY <1>3, <1>4, <1>10 DEF ReaderChunk
  <2> QED BY <1>10, <2>1 DEF ReaderChunk, TypeInv, TypeOK, WriterRests
<1>11. CASE ReaderStop(g)
  <2>1. evt' \in Seq(Events) /\ reader' \in [Gens -> Readers] /\ PongsCounted'
    BY <1>3, <1>4, <1>11 DEF ReaderStop
  <2> QED BY <1>11, <2>1 DEF ReaderStop, TypeInv, TypeOK, WriterRests
<1>12. CASE UiCommand
  <2>1. ASSUME NEW c \in Commands, UiSend(c)
        PROVE  /\ cmd' \in Seq(Commands)
               /\ UNCHANGED <<actorVars, cmdOpen, evt>>
    BY <1>1, <2>1 DEF UiSend
  <2>2. ASSUME NEW n \in 1 .. MaxBatch, UiCont(n)
        PROVE  TypeInv'
    <3>1. /\ Owner \in Gens /\ MaxLines \in 0 .. MaxId /\ MaxId \in Nat
          /\ ui.lines \in 0 .. MaxLines /\ ui.typed \in [Gens -> 0 .. MaxLines]
          /\ ui.lines + n <= MaxLines /\ n \in Nat
      <4>1. Owner \in Gens
        BY <1>1, GensTyped DEF Owner, Uis
      <4>2. MaxLines \in 0 .. MaxId /\ MaxId \in Nat /\ MaxBatch \in Nat
        BY NetActorAssumption, WriterAssumption
      <4>3. ui.lines \in 0 .. MaxLines /\ ui.typed \in [Gens -> 0 .. MaxLines]
        BY <1>1 DEF Uis
      <4>4. ui.lines + n <= MaxLines /\ n \in Nat
        BY <2>2, <4>2 DEF UiCont
      <4> QED BY <4>1, <4>2, <4>3, <4>4
    <3>2. ui.typed[Owner] + n <= MaxLines /\ ui.typed[Owner] \in Nat
      BY <1>1, <3>1
    <3>3. NewLines(Owner, n) \in Seq(Line)
      <4> DEFINE e(i) == [from |-> "ui", gen |-> Owner, id |-> ui.typed[Owner] + i]
      <4>1. ASSUME NEW i \in 1 .. n
            PROVE  e(i) \in Line
        <5>1. ui.typed[Owner] + i \in 1 .. MaxId
          BY <3>1, <3>2
        <5> QED BY <3>1, <5>1 DEF Line
      <4>2. [i \in 1 .. n |-> e(i)] \in Seq(Line)
        <5> HIDE DEF e
        <5> QED BY <3>1, <4>1, IsASeq
      <4> QED BY <4>2 DEF NewLines
    <3>4. Cont(NewLines(Owner, n)) \in Commands
      BY <3>3 DEF Cont, Commands
    <3>5. cmd' \in Seq(Commands) /\ UNCHANGED <<actorVars, cmdOpen, evt>>
      BY <2>1, <2>2, <3>4 DEF UiCont
    <3>6. ui' = [ui EXCEPT !.typed[Owner] = @ + n, !.lines = @ + n]
      BY <2>2 DEF UiCont
    <3>7. /\ ui'.typed = [ui.typed EXCEPT ![Owner] = @ + n]
          /\ ui'.lines = ui.lines + n
          /\ ui'.gen = ui.gen /\ ui'.want = ui.want /\ ui'.begun = ui.begun
          /\ ui'.dialed = ui.dialed
          /\ ui' = [gen |-> ui'.gen, want |-> ui'.want, begun |-> ui'.begun,
                    typed |-> ui'.typed, lines |-> ui'.lines,
                    dialed |-> ui'.dialed]
      BY <1>1, <3>6 DEF Uis
    <3>8. ui' \in Uis
      <4>1. ui'.typed \in [Gens -> 0 .. MaxLines] /\ ui'.lines \in 0 .. MaxLines
        BY <3>1, <3>2, <3>7
      <4> QED BY <1>1, <3>7, <4>1 DEF Uis
    <3>9. \A h \in Gens : ui'.typed[h] <= ui'.lines
      BY <1>1, <3>1, <3>7, SMTT(30)
    <3> QED BY <3>5, <3>8, <3>9
        DEF TypeInv, TypeOK, WriterRests, PongsCounted, actorVars
  <2>3. ASSUME NEW ep \in Endpoints, UiDial(ep)
        PROVE  TypeInv'
    <3>1. ui.gen + 1 \in Gens
      BY <2>3 DEF UiDial
    <3>2. Dial(ui.gen + 1, ep) \in Commands
      BY <3>1 DEF Dial, Commands
    <3>3. cmd' \in Seq(Commands) /\ UNCHANGED <<actorVars, cmdOpen, evt>>
      BY <2>1, <2>3, <3>2 DEF UiDial
    <3>4. [ui.dialed EXCEPT ![ui.gen + 1] = ep] \in [Gens -> Endpoints \cup {NoEndpoint}]
      BY <1>1, <3>1 DEF Uis
    <3>5. /\ ui' = [ui EXCEPT !.gen = @ + 1, !.want = ui.gen + 1,
                               !.dialed = [@ EXCEPT ![ui.gen + 1] = ep]]
          /\ ui'.typed = ui.typed /\ ui'.lines = ui.lines
      BY <1>1, <2>3 DEF UiDial, Uis
    <3>6. ui' \in Uis
      BY <1>1, <3>1, <3>4, <3>5 DEF Uis
    <3> QED BY <1>1, <3>3, <3>5, <3>6
        DEF TypeInv, TypeOK, WriterRests, PongsCounted, actorVars
  <2>4. CASE UiCut
    <3>1. Drop \in Commands /\ Hangup \in Commands
      BY DEF Drop, Hangup, Commands
    <3>2. cmd' \in Seq(Commands) /\ UNCHANGED <<actorVars, cmdOpen, evt>>
      BY <2>1, <2>4, <3>1 DEF UiCut
    <3>3. /\ ui' = [ui EXCEPT !.want = 0]
          /\ ui'.typed = ui.typed /\ ui'.lines = ui.lines
      BY <1>1, <2>4 DEF UiCut, Uis
    <3>4. ui' \in Uis
      BY <1>1, <3>3, GensTyped DEF Uis
    <3> QED BY <1>1, <3>2, <3>3, <3>4
        DEF TypeInv, TypeOK, WriterRests, PongsCounted, actorVars
  <2>5. CASE UiBegin
    <3>1. Begin(ui.gen) \in Commands
      BY <1>1 DEF Begin, Commands, Uis
    <3>2. cmd' \in Seq(Commands) /\ UNCHANGED <<actorVars, cmdOpen, evt>>
      BY <2>1, <2>5, <3>1 DEF UiBegin
    <3>3. /\ ui' = [ui EXCEPT !.begun = TRUE]
          /\ ui'.typed = ui.typed /\ ui'.lines = ui.lines
      BY <1>1, <2>5 DEF UiBegin, Uis
    <3>4. ui' \in Uis
      BY <1>1, <3>3 DEF Uis
    <3> QED BY <1>1, <3>2, <3>3, <3>4
        DEF TypeInv, TypeOK, WriterRests, PongsCounted, actorVars
  <2>6. CASE UiClose
    BY <2>6 DEF UiClose, TypeInv, TypeOK, WriterRests, PongsCounted, actorVars
  <2> QED BY <1>12, <2>2, <2>3, <2>4, <2>5, <2>6 DEF UiCommand
<1>13. CASE UiTake
  <2>1. evt' \in Seq(Events)
    BY <1>1, <1>13 DEF UiTake
  <2> QED BY <1>13, <2>1
      DEF UiTake, TypeInv, TypeOK, WriterRests, PongsCounted, actorVars
<1> QED BY <1>5, <1>6, <1>7, <1>8, <1>9, <1>10, <1>11, <1>12, <1>13 DEF ReaderStep

LEMMA TypeStep == TypeInv /\ [Next]_vars => TypeInv'
<1> SUFFICES ASSUME TypeInv, [Next]_vars PROVE TypeInv'
  OBVIOUS
<1>1. CASE WriterStep
  BY <1>1, TypeDeferred, TypeSetup, TypeAdoption, TypeLoop DEF WriterStep
<1>2. ASSUME NEW g \in Gens, PumpSend(g) \/ FailPost(g) \/ ReaderStep(g)
      PROVE  TypeInv'
  BY <1>2, TypeOthers
<1>3. CASE UiCommand \/ UiTake
  BY <1>3, TypeOthers, GensTyped
<1>4. CASE UNCHANGED vars
  BY <1>4 DEF vars, TypeInv, TypeOK, WriterRests, PongsCounted
<1> QED BY <1>1, <1>2, <1>3, <1>4 DEF Next, Stopped

LEMMA TypeAlways == Spec => []TypeInv
BY TypeInit, TypeStep, PTL DEF Spec

\* Every variable keeps its type, whatever the capacities, the generations
\* and the order of the handlers: the budget and the transaction IDs stay
\* words, the queue and the wire stay sequences of lines.
THEOREM TypeCorrect == Spec => []TypeOK
<1>1. TypeInv => TypeOK
  BY DEF TypeInv
<1> QED BY <1>1, TypeAlways, PTL

-----------------------------------------------------------------------------
(* No lost wakeup *)

\* The flag of the writer's queue stands for a pump: one that was spawned or
\* one that waits in cmd.  It is inductive because only the writer that owns
\* a socket has the flag set, so the drains of a setup, which swallow pumps,
\* never swallow one the flag stands for.
WakeInv ==
    /\ pc \notin {"replay", "loop"} => ~w.sock
    /\ cmdOpen /\ w.sched => PumpComing(w.gen)

LEMMA WakeInit == Init => WakeInv
<1> SUFFICES ASSUME Init PROVE WakeInv
  OBVIOUS
<1>1. ~w.sock /\ ~w.sched
  BY DEF Init, Socketless, Adopted
<1> QED BY <1>1 DEF WakeInv

\* A pump in cmd survives the removal of any other command.
LEMMA PumpSurvivesTail ==
    ASSUME cmd \in Seq(Commands), cmd # <<>>, cmd' = Tail(cmd),
           NEW g \in Gens, pumps'[g] >= pumps[g], pumps[g] \in Nat,
           pumps'[g] \in Nat,
           PumpComing(g), Head(cmd) # Pump(g)
    PROVE  PumpComing(g)'
<1>1. CASE pumps[g] > 0
  BY <1>1 DEF PumpComing
<1>2. ASSUME NEW i \in DOMAIN cmd, cmd[i] = Pump(g)
      PROVE  PumpComing(g)'
  <2>1. i \in 1 .. Len(cmd) /\ i # 1
    BY <1>2
  <2>2. i - 1 \in 1 .. Len(Tail(cmd)) /\ Tail(cmd)[i - 1] = cmd[i]
    BY <2>1, HeadTailProperties
  <2>3. Tail(cmd) \in Seq(Commands)
    BY HeadTailProperties
  <2>4. i - 1 \in DOMAIN cmd' /\ cmd'[i - 1] = Pump(g)
    BY <1>2, <2>2, <2>3
  <2>5. Pump(g)' = Pump(g)
    BY DEF Pump
  <2> QED BY <2>4, <2>5 DEF PumpComing
<1> QED BY <1>1, <1>2 DEF PumpComing

\* And it survives whatever else is sent.
LEMMA PumpSurvivesAppend ==
    ASSUME cmd \in Seq(Commands), NEW c \in Commands, cmd' = Append(cmd, c),
           NEW g \in Gens, PumpComing(g), pumps'[g] = pumps[g]
    PROVE  PumpComing(g)'
<1>1. CASE pumps[g] > 0
  BY <1>1 DEF PumpComing
<1>2. ASSUME NEW i \in DOMAIN cmd, cmd[i] = Pump(g)
      PROVE  PumpComing(g)'
  <2>1. i \in DOMAIN cmd' /\ cmd'[i] = cmd[i]
    BY AppendProperties
  <2>2. Pump(g)' = Pump(g)
    BY DEF Pump
  <2> QED BY <1>2, <2>1, <2>2 DEF PumpComing
<1> QED BY <1>1, <1>2 DEF PumpComing

\* Without a socket there is no flag.
LEMMA WakeSocketless ==
    ASSUME TypeInv', ~w'.sock
    PROVE  WakeInv'
BY DEF TypeInv, WriterRests, WakeInv

\* A send leaves the flag of a pump that still comes, or spawns one.
LEMMA WakeSending ==
    ASSUME TypeInv, WakeInv, pc' \in {"replay", "loop"}, cmdOpen' = cmdOpen,
           NEW r, QueueOutcome(w, r), Sending(r, w.gen),
           cmdOpen /\ w.sched /\ ~r.pump /\ r.w.sched => PumpComing(w.gen)'
    PROVE  WakeInv'
<1>1. /\ w' = r.w /\ w'.gen = w.gen /\ r.pump \in BOOLEAN /\ w.gen \in Gens
      /\ pumps \in [Gens -> Nat]
      /\ pumps' = IF r.pump THEN [pumps EXCEPT ![w.gen] = @ + 1] ELSE pumps
  BY WriterFields DEF Sending, QueueOutcome, TypeInv, TypeOK
<1>2. CASE r.pump
  <2>1. pumps'[w.gen] > 0
    BY <1>1, <1>2
  <2> QED BY <1>1, <2>1 DEF WakeInv, PumpComing
<1>3. CASE ~r.pump
  <2>1. r.w.sched => w.sched
    BY <1>3 DEF QueueOutcome
  <2>2. cmdOpen' /\ w'.sched => PumpComing(w.gen)'
    BY <1>1, <1>3, <2>1
  <2> QED BY <2>2 DEF WakeInv
<1> QED BY <1>1, <1>2, <1>3

LEMMA WakeStep == TypeInv /\ TypeInv' /\ WakeInv /\ [Next]_vars => WakeInv'
<1> SUFFICES ASSUME TypeInv, TypeInv', WakeInv, [Next]_vars
             PROVE  WakeInv'
  OBVIOUS
<1>1. /\ w \in Writers /\ WriterRests(w) /\ w.gen \in Gens
      /\ cmd \in Seq(Commands) /\ pumps \in [Gens -> Nat]
      /\ s.kept \in Seq(Commands)
  BY WriterFields DEF TypeInv, TypeOK, Setups
<1>2. CASE \/ DeferredCommand \/ DeferredEnded
           \/ DialFailed \/ DialConnected \/ PeekCommand \/ PeekEnd
           \/ SetupCancel \/ SetupRetry \/ SetupUpgrade
           \/ UpgradeFailed \/ UpgradeDone \/ DrainCommand \/ DrainEnded
           \/ RegisterFailed \/ WriterEof \/ WriterDone
  <2>1. ~w.sock
    BY <1>2 DEF WakeInv, DeferredCommand, DeferredEnded, DialFailed,
       DialConnected, PeekCommand, PeekEnd, SetupCancel, SetupRetry,
       SetupUpgrade, UpgradeFailed, UpgradeDone, DrainCommand, DrainEnded,
       RegisterFailed, WriterEof, WriterDone
  <2>2. CASE UNCHANGED w
    BY <2>1, <2>2, WakeSocketless
  <2>3. CASE w' = [w EXCEPT !.gen = s.gen]
    <3>1. ~w'.sock
      BY <1>1, <2>1, <2>3 DEF Writers
    <3> QED BY <3>1, WakeSocketless
  <2>4. CASE LeaveIdle
    <3>1. ~w'.sock
      BY <2>4 DEF LeaveIdle, Socketless, Adopted
    <3> QED BY <3>1, WakeSocketless
  <2> QED BY <1>2, <2>2, <2>3, <2>4
      DEF DeferredCommand, DeferredEnded, DialFailed,
       DialConnected, PeekCommand, PeekEnd, SetupCancel, SetupRetry,
       SetupUpgrade, UpgradeFailed, UpgradeDone, DrainCommand, DrainEnded,
       RegisterFailed, WriterEof, WriterDone
<1>3. CASE WriterDrop \/ WriterHangup \/ WriterDial \/ WriterFinish
  <2>1. w' = Emptied(w)
    BY <1>3 DEF WriterDrop, WriterHangup, WriterDial, WriterFinish
  <2>2. ~w'.sock
    BY <1>1, <2>1, EmptiedTyped
  <2> QED BY <2>2, WakeSocketless
<1>4. CASE Register
  <2>1. ~w'.sched /\ pc' = "replay"
    BY <1>4 DEF Register, Adopted
  <2> QED BY <2>1 DEF WakeInv
<1>5. CASE Replay
  <2>1. PICK r \in QueueOutcomes(Head(s.kept)) : Sending(r, w.gen)
    BY <1>5 DEF Replay
  <2>2. Head(s.kept) \in Commands
    BY <1>1, <1>5 DEF Replay
  <2>3. QueueOutcome(w, r)
    BY <1>1, <2>1, <2>2, QueueOutcomesOK
  <2>4. pc' = "replay" /\ cmd' = cmd /\ cmdOpen' = cmdOpen
    BY <1>5 DEF Replay
  <2>5. ASSUME cmdOpen, w.sched, ~r.pump
        PROVE  PumpComing(w.gen)'
    <3>1. pumps' = pumps /\ w'.gen = w.gen
      BY <2>1, <2>3, <2>5 DEF Sending, QueueOutcome
    <3> QED BY <2>4, <2>5, <3>1 DEF WakeInv, PumpComing, Pump
  <2> QED BY <2>1, <2>3, <2>4, <2>5, WakeSending
<1>6. CASE ArmBoot
  BY <1>6 DEF ArmBoot, WakeInv, PumpComing, Pump
<1>7. CASE ArmRedial
  <2>1. PICK r \in WriterPump(w, w.gen) : Sending(r, w.gen)
    BY <1>7 DEF ArmRedial
  <2>2. QueueOutcome(w, r) /\ (r.w.sched => r.pump)
    BY <1>1, <2>1, PumpOutcome
  <2>3. pc' = "loop" /\ cmdOpen' = cmdOpen
    BY <1>7 DEF ArmRedial
  <2> QED BY <2>1, <2>2, <2>3, WakeSending
<1>8. CASE WriterSend
  <2>1. /\ cmd # <<>> /\ cmd' = Tail(cmd) /\ cmdOpen' = cmdOpen /\ pc' = "loop"
        /\ Head(cmd) \in Commands
    BY <1>1, <1>8 DEF WriterSend, TakeCommand
  <2>2. PICK r \in QueueOutcomes(Head(cmd)) : Sending(r, w.gen)
    BY <1>8 DEF WriterSend
  <2>3. /\ QueueOutcome(w, r)
        /\ Head(cmd) = Pump(w.gen) => (r.w.sched => r.pump)
    BY <1>1, <2>1, <2>2, QueueOutcomesOK
  <2>4. ASSUME cmdOpen, w.sched, ~r.pump, r.w.sched
        PROVE  PumpComing(w.gen)'
    <3>1. Head(cmd) # Pump(w.gen) /\ pumps' = pumps /\ w'.gen = w.gen
      BY <2>2, <2>3, <2>4 DEF Sending, QueueOutcome
    <3>2. PumpComing(w.gen)
      BY <2>4 DEF WakeInv
    <3>3. ASSUME NEW g \in Gens, g = w.gen PROVE PumpComing(g)'
      BY <1>1, <2>1, <3>1, <3>2, <3>3, PumpSurvivesTail
    <3> QED BY <1>1, <3>1, <3>3
  <2> QED BY <2>1, <2>2, <2>3, <2>4, WakeSending
<1>10. ASSUME UNCHANGED <<pc, w, cmdOpen, pumps>>,
              \/ UNCHANGED cmd
              \/ \E c \in Commands : cmd' = Append(cmd, c)
       PROVE  WakeInv'
  <2>1. ASSUME PumpComing(w.gen), NEW g \in Gens, g = w.gen
        PROVE  PumpComing(g)'
    <3>1. CASE UNCHANGED cmd
      BY <1>10, <2>1, <3>1 DEF PumpComing, Pump
    <3>2. CASE \E c \in Commands : cmd' = Append(cmd, c)
      BY <1>1, <1>10, <2>1, <3>2, PumpSurvivesAppend
    <3> QED BY <1>10, <3>1, <3>2
  <2> QED BY <1>1, <1>10, <2>1 DEF WakeInv
<1>11. ASSUME NEW g \in Gens, PumpSend(g)
       PROVE  WakeInv'
  <2>1. /\ UNCHANGED <<pc, w, cmdOpen>>
        /\ pumps' = [pumps EXCEPT ![g] = @ - 1]
        /\ cmdOpen => cmd' = Append(cmd, Pump(g))
    BY <1>11 DEF PumpSend, PostCmd
  <2>2. Pump(g) \in Commands
    BY DEF Pump, Commands
  <2>3. ASSUME cmdOpen, w.sched, NEW h \in Gens, h = w.gen
        PROVE  PumpComing(h)'
    <3>1. CASE g = h
      <4>1. /\ Len(cmd) + 1 \in DOMAIN cmd'
            /\ cmd'[Len(cmd) + 1] = Pump(g)
        BY <1>1, <2>1, <2>2, <2>3, AppendProperties
      <4> QED BY <3>1, <4>1 DEF PumpComing, Pump
    <3>2. CASE g # h
      <4>1. pumps'[h] = pumps[h]
        BY <1>1, <2>1, <3>2
      <4>2. PumpComing(h)
        BY <2>3 DEF WakeInv
      <4> QED BY <1>1, <2>1, <2>2, <2>3, <4>1, <4>2, PumpSurvivesAppend
    <3> QED BY <3>1, <3>2
  <2> QED BY <1>1, <2>1, <2>3 DEF WakeInv
<1>12. ASSUME NEW g \in Gens, FailPost(g) \/ ReaderStep(g)
       PROVE  WakeInv'
  <2>1. CASE ReaderPong(g)
    <3>1. \E c : PostCmd(c) /\ UNCHANGED <<pc, w, cmdOpen, pumps>>
      BY <2>1 DEF ReaderPong
    <3>2. cmd' \in Seq(Commands)
      BY DEF TypeInv, TypeOK
    <3>3. UNCHANGED cmd \/ \E c \in Commands : cmd' = Append(cmd, c)
      BY <1>1, <3>1, <3>2 DEF PostCmd
    <3> QED BY <1>10, <3>1, <3>3
  <2>2. CASE ~ReaderPong(g)
    BY <1>10, <1>12, <2>2
       DEF FailPost, ReaderStep, ReaderUp, ReaderRecv, ReaderChunk, ReaderStop
  <2> QED BY <2>1, <2>2
<1>13. CASE UiTake
  BY <1>10, <1>13 DEF UiTake, actorVars
<1>14. CASE UiClose
  BY <1>14 DEF UiClose, actorVars, WakeInv
<1>15. CASE UiCommand /\ ~UiClose
  <2>1. \E c : UiSend(c)
    BY <1>15 DEF UiCommand, UiCont, UiDial, UiCut, UiBegin
  <2>2. PICK c : cmd' = Append(cmd, c) /\ UNCHANGED <<pc, w, cmdOpen, pumps>>
    BY <2>1 DEF UiSend, actorVars
  <2>3. cmd' \in Seq(Commands)
    BY DEF TypeInv, TypeOK
  <2>4. c \in Commands
    <3>1. Len(cmd') = Len(cmd) + 1 /\ cmd'[Len(cmd) + 1] = c
      BY <1>1, <2>2
    <3> QED BY <1>1, <2>3, <3>1, ElementOfSeq
  <2> QED BY <1>10, <2>2, <2>4
<1>16. CASE UNCHANGED vars
  BY <1>10, <1>16 DEF vars
<1> QED BY <1>2, <1>3, <1>4, <1>5, <1>6, <1>7, <1>8, <1>11, <1>12, <1>13,
        <1>14, <1>15, <1>16 DEF Next, WriterStep, Stopped

LEMMA WakeAlways == Spec => []WakeInv
BY TypeAlways, WakeInit, WakeStep, PTL DEF Spec

\* Lines the budget still allows never wait in the queue without a pump that
\* will come to send them: for every batch size, queue, number of generations
\* and interleaving of readers, pumps, redials and failed sends.
THEOREM NeverStranded == Spec => []NoLostWakeup
<1>1. TypeInv /\ WakeInv => NoLostWakeup
  BY DEF TypeInv, WriterRests, WakeInv, NoLostWakeup
<1> QED BY <1>1, TypeAlways, WakeAlways, PTL

-----------------------------------------------------------------------------
(* The order of the Dials *)

\* Where the elements of a shortened and of an extended channel come from.
LEMMA TailIndex ==
    ASSUME NEW q \in Seq(Commands), q # <<>>
    PROVE  /\ \A i \in DOMAIN Tail(q) : i + 1 \in DOMAIN q /\ Tail(q)[i] = q[i + 1]
           /\ \A i \in DOMAIN q :
                \/ i = 1 /\ q[i] = Head(q)
                \/ i - 1 \in DOMAIN Tail(q) /\ Tail(q)[i - 1] = q[i]
           /\ 1 \in DOMAIN q /\ q[1] = Head(q)
           /\ DOMAIN q \subseteq Nat /\ DOMAIN Tail(q) \subseteq Nat
<1>1. /\ Tail(q) \in Seq(Commands) /\ Len(Tail(q)) = Len(q) - 1
      /\ \A i \in 1 .. Len(Tail(q)) : Tail(q)[i] = q[i + 1]
      /\ Len(q) \in Nat \ {0}
  BY HeadTailProperties, EmptySeq
<1>2. DOMAIN q = 1 .. Len(q) /\ DOMAIN Tail(q) = 1 .. Len(q) - 1
  BY <1>1
<1>3. q[1] = Head(q)
  OBVIOUS
<1> QED BY <1>1, <1>2, <1>3

LEMMA AppendIndex ==
    ASSUME NEW S, NEW q \in Seq(S), NEW c \in S
    PROVE  \A i \in DOMAIN Append(q, c) :
                \/ i \in DOMAIN q /\ Append(q, c)[i] = q[i]
                \/ i = Len(q) + 1 /\ Append(q, c)[i] = c
<1>1. DOMAIN Append(q, c) = 1 .. Len(q) + 1 /\ DOMAIN q = 1 .. Len(q)
  BY AppendProperties
<1> QED BY <1>1, AppendProperties

\* Every Dial in q belongs to a generation in (above, ui.gen], asks for what
\* the UI dialled, and is newer than the Dials in front of it.
Queued(q, above) ==
    /\ \A i \in DOMAIN q : q[i].k = "Dial" =>
        /\ above < q[i].gen /\ q[i].gen <= ui.gen
        /\ q[i].ep = ui.dialed[q[i].gen]
    /\ \A i, j \in DOMAIN q :
        i < j /\ q[i].k = "Dial" /\ q[j].k = "Dial" => q[i].gen < q[j].gen

LEMMA QueuedTail ==
    ASSUME NEW q \in Seq(Commands), q # <<>>, NEW n \in Nat, Queued(q, n)
    PROVE  /\ Queued(Tail(q), n)
           /\ Head(q).k = "Dial" => Queued(Tail(q), Head(q).gen)
           /\ Head(q).k = "Dial" =>
                /\ n < Head(q).gen /\ Head(q).gen <= ui.gen
                /\ Head(q).ep = ui.dialed[Head(q).gen]
<1>1. /\ \A i \in DOMAIN Tail(q) : i + 1 \in DOMAIN q /\ Tail(q)[i] = q[i + 1]
      /\ 1 \in DOMAIN q /\ q[1] = Head(q)
      /\ DOMAIN Tail(q) \subseteq Nat
      /\ \A i \in DOMAIN Tail(q) : i > 0
  BY TailIndex, HeadTailProperties
<1>2. Queued(Tail(q), n)
  <2>1. ASSUME NEW i \in DOMAIN Tail(q), NEW j \in DOMAIN Tail(q), i < j,
               Tail(q)[i].k = "Dial", Tail(q)[j].k = "Dial"
        PROVE  Tail(q)[i].gen < Tail(q)[j].gen
    BY <1>1, <2>1 DEF Queued
  <2>2. ASSUME NEW i \in DOMAIN Tail(q), Tail(q)[i].k = "Dial"
        PROVE  /\ n < Tail(q)[i].gen /\ Tail(q)[i].gen <= ui.gen
               /\ Tail(q)[i].ep = ui.dialed[Tail(q)[i].gen]
    BY <1>1, <2>2 DEF Queued
  <2> QED BY <2>1, <2>2 DEF Queued
<1>3. ASSUME Head(q).k = "Dial"
      PROVE  Queued(Tail(q), Head(q).gen)
  <2>1. ASSUME NEW i \in DOMAIN Tail(q), Tail(q)[i].k = "Dial"
        PROVE  Head(q).gen < Tail(q)[i].gen
    BY <1>1, <1>3, <2>1 DEF Queued
  <2> QED BY <1>2, <2>1 DEF Queued
<1>4. Head(q).k = "Dial" =>
        /\ n < Head(q).gen /\ Head(q).gen <= ui.gen
        /\ Head(q).ep = ui.dialed[Head(q).gen]
  BY <1>1 DEF Queued
<1> QED BY <1>2, <1>3, <1>4

\* The setup that may hold newer Dials in s.dials.
Drains == {"peek", "raw", "drain", "decide"}

\* The Dials ahead of the writer are newer than anything it works on, and
\* those a drain has seen are newer than the setup they overtake.  What a
\* setup works on is what the UI dialled.
DialInv ==
    /\ Queued(cmd, s.gen) /\ Queued(cmd, w.gen)
    /\ \A j \in DOMAIN s.dials :
        /\ Queued(cmd, s.dials[j].gen)
        /\ s.gen < s.dials[j].gen /\ s.dials[j].gen <= ui.gen
        /\ s.dials[j].ep = ui.dialed[s.dials[j].gen]
    /\ s.gen <= ui.gen /\ w.gen <= ui.gen
    /\ pc \in Setting \cup {"deferred"} => s.ep = ui.dialed[s.gen]
    /\ pc \notin Drains => s.dials = <<>>
    /\ pc \in Setting \ {"dial"} => conn[s.gen].ep = s.ep

\* What TypeInv says of the variables DialInv relates.
LEMMA StateTyped ==
    ASSUME TypeInv
    PROVE  /\ cmd \in Seq(Commands) /\ s \in Setups /\ w \in Writers
           /\ \A i \in DOMAIN cmd : cmd[i] \in Commands
           /\ s.gen \in Gens /\ w.gen \in Gens /\ ui.gen \in Gens
           /\ s.gen \in Nat /\ w.gen \in Nat /\ ui.gen \in Nat
           /\ s.dials \in Seq([gen : Gens, ep : Endpoints])
           /\ \A j \in DOMAIN s.dials :
                /\ s.dials[j] \in [gen : Gens, ep : Endpoints]
                /\ s.dials[j].gen \in Gens /\ s.dials[j].gen \in Nat
           /\ ui.dialed \in [Gens -> Endpoints \cup {NoEndpoint}]
<1>1. cmd \in Seq(Commands) /\ s \in Setups /\ w \in Writers /\ ui \in Uis
  BY DEF TypeInv, TypeOK
<1>2. \A i \in DOMAIN cmd : cmd[i] \in Commands
  <2>1. DOMAIN cmd = 1 .. Len(cmd)
    BY <1>1
  <2> QED BY <1>1, <2>1, ElementOfSeq
<1>3. s.gen \in Gens /\ w.gen \in Gens /\ ui.gen \in Gens
      /\ ui.dialed \in [Gens -> Endpoints \cup {NoEndpoint}]
  BY <1>1 DEF Setups, Writers, Uis
<1>4. s.dials \in Seq([gen : Gens, ep : Endpoints])
  BY <1>1 DEF Setups
<1>5. \A j \in DOMAIN s.dials : s.dials[j] \in [gen : Gens, ep : Endpoints]
  <2>1. DOMAIN s.dials = 1 .. Len(s.dials)
    BY <1>4, LenProperties
  <2> QED BY <1>4, <2>1, ElementOfSeq
<1>6. \A j \in DOMAIN s.dials : s.dials[j].gen \in Gens
  BY <1>5
<1> QED BY <1>1, <1>2, <1>3, <1>4, <1>5, <1>6, GensTyped

LEMMA DialInit == Init => DialInv
<1> SUFFICES ASSUME Init PROVE DialInv
  OBVIOUS
<1>1. PICK start \in Starts : InitStart(start)
  BY DEF Init
<1>2. start \in {"boot", "idle", "deferred"}
  BY NetActorAssumption
<1>3. cmd = <<>> /\ w.gen = 0
  BY DEF Init, Socketless, Adopted
<1>4. CASE start = "idle"
  <2>1. s.gen = 0 /\ s.dials = <<>> /\ ui.gen = 0 /\ pc = "loop"
    BY <1>1, <1>4 DEF InitStart, InitUi, NoSetup, Setup
  <2> QED BY <1>3, <2>1 DEF DialInv, Queued, Setting, Drains
<1>5. CASE start # "idle"
  <2>1. /\ s.gen = 1 /\ s.dials = <<>> /\ ui.gen = 1 /\ pc \in {"dial", "deferred"}
        /\ s.ep = Launch
    BY <1>1, <1>2, <1>5 DEF InitStart, InitUi, Setup
  <2>2. ui.dialed[1] = Launch
    BY <1>1, <1>2, <1>5, GensTyped DEF InitStart, InitUi
  <2> QED BY <1>3, <2>1, <2>2 DEF DialInv, Queued, Setting, Drains
<1> QED BY <1>4, <1>5

LEMMA SetupFields ==
    ASSUME NEW g, NEW e, NEW live, NEW redial, NEW kept
    PROVE  /\ Setup(g, e, live, redial, kept).gen = g
           /\ Setup(g, e, live, redial, kept).ep = e
           /\ Setup(g, e, live, redial, kept).dials = <<>>
           /\ NoSetup.gen = 0 /\ NoSetup.dials = <<>>
BY DEF Setup, NoSetup

\* The end of a setup, whatever it leaves behind.
LEMMA DialSettles ==
    ASSUME TypeInv, DialInv, s' = NoSetup, pc' = "loop",
           w'.gen \in {s.gen, w.gen}, UNCHANGED ui,
           cmd' = cmd \/ (cmd # <<>> /\ cmd' = Tail(cmd))
    PROVE  DialInv'
<1>1. s'.gen = 0 /\ s'.dials = <<>>
  BY SetupFields
<1>2. Queued(cmd, s.gen) /\ Queued(cmd, w.gen) /\ s.gen <= ui.gen /\ w.gen <= ui.gen
  BY DEF DialInv
<1>3. Queued(cmd, 0)
  <2>1. ASSUME NEW i \in DOMAIN cmd, cmd[i].k = "Dial"
        PROVE  0 < cmd[i].gen
    <3>1. cmd[i].gen \in Nat
      BY <2>1, CommandFields, StateTyped, GensTyped
    <3>2. s.gen < cmd[i].gen /\ s.gen \in Nat
      BY <1>2, <2>1, StateTyped DEF Queued
    <3> QED BY <3>1, <3>2
  <2> QED BY <1>2, <2>1 DEF Queued
<1>4. ASSUME NEW n \in Nat, Queued(cmd, n)
      PROVE  Queued(cmd, n)'
  <2>1. CASE cmd' = cmd
    BY <1>4, <2>1 DEF Queued
  <2>2. CASE cmd # <<>> /\ cmd' = Tail(cmd)
    <3>1. Queued(Tail(cmd), n)
      BY <1>4, <2>2, StateTyped, QueuedTail
    <3> QED BY <2>2, <3>1 DEF Queued
  <2> QED BY <2>1, <2>2
<1>5. Queued(cmd, s.gen)' /\ Queued(cmd, w.gen)'
  <2>1. Queued(cmd, 0)'
    BY <1>3, <1>4
  <2>2. ASSUME NEW n \in Nat, n \in {s.gen, w.gen}
        PROVE  Queued(cmd, n)'
    BY <1>2, <1>4, <2>2
  <2>3. w'.gen \in Nat /\ w'.gen \in {s.gen, w.gen}
    BY StateTyped
  <2>4. Queued(cmd, s.gen)'
    BY <1>1, <2>1
  <2>5. Queued(cmd, w.gen)'
    BY <2>2, <2>3
  <2> QED BY <2>4, <2>5
<1> QED BY <1>1, <1>2, <1>5, StateTyped DEF DialInv, Setting, Drains

\* Nothing that DialInv speaks of changes.
LEMMA DialFrame ==
    ASSUME TypeInv, DialInv, UNCHANGED <<cmd, ui>>, w'.gen \in {w.gen, s.gen},
           s'.gen = s.gen, s'.ep = s.ep, s'.dials = s.dials,
           pc' \in Setting \cup {"deferred"} => pc \in Setting \cup {"deferred"},
           pc' \notin Drains => s.dials = <<>>,
           pc' \in Setting \ {"dial"} => conn'[s.gen].ep = s.ep
    PROVE  DialInv'
<1>1. Queued(cmd, s.gen)' /\ Queued(cmd, w.gen)'
  BY DEF DialInv, Queued
<1>2. \A j \in DOMAIN s'.dials :
        /\ Queued(cmd, s.dials[j].gen)'
        /\ s'.gen < s'.dials[j].gen /\ s'.dials[j].gen <= ui'.gen
        /\ s'.dials[j].ep = ui'.dialed[s'.dials[j].gen]
  BY DEF DialInv, Queued
<1> QED BY <1>1, <1>2 DEF DialInv

\* A command that is not a Dial leaves the channel.
LEMMA DialTaken ==
    ASSUME TypeInv, DialInv, cmd # <<>>, cmd' = Tail(cmd), UNCHANGED ui,
           w'.gen \in {w.gen, s.gen},
           s'.gen = s.gen, s'.ep = s.ep, s'.dials = s.dials,
           pc' \in Setting \cup {"deferred"} => pc \in Setting \cup {"deferred"},
           pc' \notin Drains => s.dials = <<>>,
           pc' \in Setting \ {"dial"} => conn'[s.gen].ep = s.ep
    PROVE  DialInv'
<1>1. cmd \in Seq(Commands) /\ s.gen \in Nat /\ w.gen \in Nat
      /\ \A j \in DOMAIN s.dials : s.dials[j].gen \in Nat
  BY StateTyped
<1>2. Queued(Tail(cmd), s.gen) /\ Queued(Tail(cmd), w.gen)
  BY <1>1, QueuedTail DEF DialInv
<1>3. \A j \in DOMAIN s.dials : Queued(Tail(cmd), s.dials[j].gen)
  BY <1>1, QueuedTail DEF DialInv
<1>4. Queued(cmd, s.gen)' /\ Queued(cmd, w.gen)'
  BY <1>2 DEF Queued
<1>5. \A j \in DOMAIN s'.dials :
        /\ Queued(cmd, s.dials[j].gen)'
        /\ s'.gen < s'.dials[j].gen /\ s'.dials[j].gen <= ui'.gen
        /\ s'.dials[j].ep = ui'.dialed[s'.dials[j].gen]
  BY <1>3 DEF DialInv, Queued
<1> QED BY <1>4, <1>5 DEF DialInv

\* A drain takes a command and remembers it if it is a Dial.
LEMMA DialAdmitted ==
    ASSUME TypeInv, DialInv, cmd # <<>>, cmd' = Tail(cmd), UNCHANGED <<ui, w, conn>>,
           pc \in Drains, pc' \in Drains,
           s'.gen = s.gen, s'.ep = s.ep, s'.dials = Admit(s, Head(cmd)).dials
    PROVE  DialInv'
<1>1. /\ cmd \in Seq(Commands) /\ Head(cmd) \in Commands /\ s \in Setups
      /\ s.gen \in Nat /\ w.gen \in Nat
      /\ s.dials \in Seq([gen : Gens, ep : Endpoints])
  <2>1. Head(cmd) \in Commands
    BY StateTyped, HeadTailProperties
  <2> QED BY <2>1, StateTyped
<1>2. conn'[s.gen].ep = s.ep
  BY DEF DialInv, Drains, Setting
<1>3. CASE Head(cmd).k # "Dial"
  <2>1. s'.dials = s.dials
    BY <1>1, <1>3, AdmitTyped
  <2> QED BY <1>2, <2>1, DialTaken DEF Drains, Setting
<1>4. CASE Head(cmd).k = "Dial"
  <2> DEFINE d == [gen |-> Head(cmd).gen, ep |-> Head(cmd).ep]
  <2>1. s'.dials = Append(s.dials, d)
    BY <1>1, <1>4, AdmitTyped
  <2>2. d.gen \in Nat /\ d \in [gen : Gens, ep : Endpoints]
    BY <1>1, <1>4, CommandFields, GensTyped
  <2>3. /\ Queued(Tail(cmd), s.gen) /\ Queued(Tail(cmd), w.gen)
        /\ Queued(Tail(cmd), d.gen)
        /\ s.gen < d.gen /\ d.gen <= ui.gen /\ d.ep = ui.dialed[d.gen]
    BY <1>1, <1>4, QueuedTail DEF DialInv
  <2>4. ASSUME NEW j \in DOMAIN s.dials
        PROVE  Queued(Tail(cmd), s.dials[j].gen)
    <3>1. s.dials[j].gen \in Nat
      BY StateTyped
    <3> QED BY <1>1, <3>1, QueuedTail DEF DialInv
  <2>5. ASSUME NEW j \in DOMAIN s'.dials
        PROVE  \/ j \in DOMAIN s.dials /\ s'.dials[j] = s.dials[j]
               \/ s'.dials[j] = d
    <3> HIDE DEF d
    <3>1. \A i \in DOMAIN Append(s.dials, d) :
            \/ i \in DOMAIN s.dials /\ Append(s.dials, d)[i] = s.dials[i]
            \/ i = Len(s.dials) + 1 /\ Append(s.dials, d)[i] = d
      BY <1>1, <2>2, AppendIndex
    <3> QED BY <2>1, <2>5, <3>1
  <2>6. \A j \in DOMAIN s'.dials :
          /\ Queued(cmd, s.dials[j].gen)'
          /\ s'.gen < s'.dials[j].gen /\ s'.dials[j].gen <= ui'.gen
          /\ s'.dials[j].ep = ui'.dialed[s'.dials[j].gen]
    <3> HIDE DEF d
    <3> QED BY <2>3, <2>4, <2>5 DEF DialInv, Queued
  <2>7. Queued(cmd, s.gen)' /\ Queued(cmd, w.gen)'
    BY <2>3 DEF Queued
  <2>8. pc \in Setting /\ s'.ep = ui'.dialed[s'.gen] /\ s'.gen <= ui'.gen /\ w'.gen <= ui'.gen
    BY DEF DialInv, Drains, Setting
  <2> QED BY <1>2, <2>6, <2>7, <2>8 DEF DialInv
<1> QED BY <1>3, <1>4

\* A new setup takes the place of the old: its Dial came from the front of
\* cmd, or from the last place of s.dials.
LEMMA DialBegins ==
    ASSUME TypeInv, DialInv, UNCHANGED ui, w'.gen = w.gen,
           pc' \in {"dial", "deferred"}, NEW d \in [gen : Gens, ep : Endpoints],
           s'.gen = d.gen, s'.ep = d.ep, s'.dials = <<>>,
           \/ /\ cmd # <<>> /\ cmd' = Tail(cmd) /\ Head(cmd).k = "Dial"
              /\ d.gen = Head(cmd).gen /\ d.ep = Head(cmd).ep
           \/ /\ cmd' = cmd
              /\ \E j \in DOMAIN s.dials : d = s.dials[j]
    PROVE  DialInv'
<1>1. /\ cmd \in Seq(Commands) /\ s.gen \in Nat /\ w.gen \in Nat /\ d.gen \in Nat
  BY StateTyped, GensTyped
<1>2. CASE /\ cmd # <<>> /\ cmd' = Tail(cmd) /\ Head(cmd).k = "Dial"
           /\ d.gen = Head(cmd).gen /\ d.ep = Head(cmd).ep
  <2>1. /\ Queued(Tail(cmd), w.gen) /\ Queued(Tail(cmd), d.gen)
        /\ d.gen <= ui.gen /\ d.ep = ui.dialed[d.gen]
    BY <1>1, <1>2, QueuedTail DEF DialInv
  <2>2. Queued(cmd, s.gen)' /\ Queued(cmd, w.gen)'
    BY <1>2, <2>1 DEF Queued
  <2> QED BY <2>1, <2>2 DEF DialInv, Setting, Drains
<1>3. CASE cmd' = cmd /\ \E j \in DOMAIN s.dials : d = s.dials[j]
  <2>1. /\ Queued(cmd, w.gen) /\ Queued(cmd, d.gen)
        /\ d.gen <= ui.gen /\ d.ep = ui.dialed[d.gen]
    BY <1>3 DEF DialInv
  <2>2. Queued(cmd, s.gen)' /\ Queued(cmd, w.gen)'
    BY <1>3, <2>1 DEF Queued
  <2> QED BY <2>1, <2>2 DEF DialInv, Setting, Drains
<1> QED BY <1>2, <1>3

\* The UI sends a command; a Dial is newer than every other.
LEMMA DialSent ==
    ASSUME TypeInv, DialInv, UNCHANGED <<pc, w, s, conn>>, NEW c \in Commands,
           cmd' = Append(cmd, c),
           \/ c.k # "Dial" /\ ui'.gen = ui.gen /\ ui'.dialed = ui.dialed
           \/ \E ep \in Endpoints :
                /\ c = Dial(ui.gen + 1, ep) /\ ui.gen + 1 \in Gens
                /\ ui'.gen = ui.gen + 1
                /\ ui'.dialed = [ui.dialed EXCEPT ![ui.gen + 1] = ep]
    PROVE  DialInv'
<1>1. /\ cmd \in Seq(Commands) /\ s.gen \in Nat /\ w.gen \in Nat /\ ui.gen \in Nat
      /\ s.gen \in Gens /\ s.dials \in Seq([gen : Gens, ep : Endpoints])
      /\ ui.dialed \in [Gens -> Endpoints \cup {NoEndpoint}]
  BY StateTyped
<1>2. \A i \in DOMAIN cmd' :
        \/ i \in DOMAIN cmd /\ cmd'[i] = cmd[i] /\ cmd[i] \in Commands
        \/ i = Len(cmd) + 1 /\ cmd'[i] = c
  BY <1>1, AppendIndex, StateTyped
<1>3. DOMAIN cmd = 1 .. Len(cmd) /\ Len(cmd) \in Nat
  BY <1>1
<1>4. ASSUME NEW g \in Gens, g <= ui.gen
      PROVE  ui'.dialed[g] = ui.dialed[g]
  <2>1. g # ui.gen + 1
    BY <1>1, <1>4, GensTyped
  <2> QED BY <1>1, <1>4, <2>1
<1>5. ASSUME NEW n \in Nat, n <= ui.gen, Queued(cmd, n)
      PROVE  Queued(cmd, n)'
  <2>1. ASSUME NEW i \in DOMAIN cmd', cmd'[i].k = "Dial"
        PROVE  /\ n < cmd'[i].gen /\ cmd'[i].gen <= ui'.gen
               /\ cmd'[i].ep = ui'.dialed[cmd'[i].gen]
    <3>1. CASE i \in DOMAIN cmd /\ cmd'[i] = cmd[i] /\ cmd[i] \in Commands
      <4>1. /\ n < cmd[i].gen /\ cmd[i].gen <= ui.gen /\ cmd[i].gen \in Gens
            /\ cmd[i].ep = ui.dialed[cmd[i].gen]
        BY <1>5, <2>1, <3>1, CommandFields DEF Queued
      <4>2. cmd[i].gen <= ui'.gen
        <5>1. ui'.gen \in {ui.gen, ui.gen + 1}
          OBVIOUS
        <5>2. cmd[i].gen \in Nat
          BY <4>1, GensTyped
        <5> QED BY <1>1, <4>1, <5>1, <5>2
      <4>3. ui'.dialed[cmd[i].gen] = ui.dialed[cmd[i].gen]
        BY <1>4, <4>1
      <4> QED BY <3>1, <4>1, <4>2, <4>3
    <3>2. CASE cmd'[i] = c
      <4>1. PICK ep \in Endpoints :
                /\ c = Dial(ui.gen + 1, ep) /\ ui.gen + 1 \in Gens
                /\ ui'.gen = ui.gen + 1
                /\ ui'.dialed = [ui.dialed EXCEPT ![ui.gen + 1] = ep]
        BY <2>1, <3>2
      <4>2. c.gen = ui.gen + 1 /\ c.ep = ep
        BY <4>1 DEF Dial
      <4>3. ui'.dialed[ui.gen + 1] = ep
        BY <1>1, <4>1
      <4> QED BY <1>1, <1>5, <3>2, <4>1, <4>2, <4>3
    <3> QED BY <1>2, <2>1, <3>1, <3>2
  <2>2. ASSUME NEW i \in DOMAIN cmd', NEW j \in DOMAIN cmd', i < j,
               cmd'[i].k = "Dial", cmd'[j].k = "Dial"
        PROVE  cmd'[i].gen < cmd'[j].gen
    <3>1. i \in DOMAIN cmd /\ cmd'[i] = cmd[i] /\ cmd[i] \in Commands
      <4>1. DOMAIN cmd' = 1 .. Len(cmd) + 1
        BY <1>1
      <4> QED BY <1>2, <1>3, <2>2, <4>1
    <3>2. CASE j \in DOMAIN cmd /\ cmd'[j] = cmd[j]
      BY <1>5, <2>2, <3>1, <3>2 DEF Queued
    <3>3. CASE cmd'[j] = c
      <4>1. cmd[i].gen <= ui.gen /\ cmd[i].gen \in Nat
        BY <1>5, <2>2, <3>1, CommandFields, GensTyped DEF Queued
      <4>2. cmd'[j].gen = ui.gen + 1
        <5>1. c.k = "Dial"
          BY <2>2, <3>3
        <5>2. PICK ep \in Endpoints : c = Dial(ui.gen + 1, ep)
          BY <5>1
        <5> QED BY <3>3, <5>2 DEF Dial
      <4> QED BY <1>1, <3>1, <4>1, <4>2
    <3> QED BY <1>2, <2>2, <3>2, <3>3
  <2> QED BY <2>1, <2>2 DEF Queued
<1>6. Queued(cmd, s.gen)' /\ Queued(cmd, w.gen)' /\ s.gen <= ui'.gen /\ w.gen <= ui'.gen
  <2>1. ASSUME NEW n \in Nat, n \in {s.gen, w.gen}
        PROVE  Queued(cmd, n)'
    BY <1>5, <2>1 DEF DialInv
  <2>2. Queued(cmd, s.gen)' /\ Queued(cmd, w.gen)'
    BY <1>1, <2>1
  <2>3. ui'.gen \in {ui.gen, ui.gen + 1} /\ s.gen <= ui.gen /\ w.gen <= ui.gen
    BY DEF DialInv
  <2>4. s.gen <= ui'.gen /\ w.gen <= ui'.gen
    BY <1>1, <2>3
  <2> QED BY <2>2, <2>4
<1>7. ASSUME NEW j \in DOMAIN s.dials
      PROVE  /\ Queued(cmd, s.dials[j].gen)'
             /\ s.gen < s.dials[j].gen /\ s.dials[j].gen <= ui'.gen
             /\ s.dials[j].ep = ui'.dialed[s.dials[j].gen]
  <2>1. s.dials[j].gen \in Gens /\ s.dials[j].gen \in Nat
    BY <1>7, StateTyped
  <2>2. /\ Queued(cmd, s.dials[j].gen) /\ s.dials[j].gen <= ui.gen
        /\ s.gen < s.dials[j].gen /\ s.dials[j].ep = ui.dialed[s.dials[j].gen]
    BY DEF DialInv
  <2>3. ASSUME NEW n \in Nat, n = s.dials[j].gen PROVE Queued(cmd, n)'
    BY <1>5, <2>2, <2>3
  <2>4. Queued(cmd, s.dials[j].gen)'
    BY <2>1, <2>3
  <2>5. ui'.dialed[s.dials[j].gen] = ui.dialed[s.dials[j].gen]
    BY <1>4, <2>1, <2>2
  <2>6. s.dials[j].gen <= ui'.gen
    <3>1. ui'.gen \in {ui.gen, ui.gen + 1}
      OBVIOUS
    <3> QED BY <1>1, <2>1, <2>2, <3>1
  <2> QED BY <2>2, <2>4, <2>5, <2>6
<1>8. pc \in Setting \cup {"deferred"} => s.ep = ui'.dialed[s.gen]
  BY <1>1, <1>4 DEF DialInv
<1> QED BY <1>6, <1>7, <1>8 DEF DialInv

\* No send, flush or close renames a connection or registers it anew.
LEMMA ConnKept ==
    ASSUME TypeInv,
           \/ \E g \in Gens : \E r : Sending(r, g)
           \/ \E report \in BOOLEAN : FlushAndClose(report)
           \/ \E how : CloseConn(how)
    PROVE  \A g \in Gens : conn'[g].ep = conn[g].ep /\ conn'[g].reg = conn[g].reg
<1>1. conn \in [Gens -> Conns] /\ \A g \in Gens : conn[g] \in Conns
  BY DEF TypeInv, TypeOK
<1>2. CASE \E g \in Gens : \E r : Sending(r, g)
  <2>1. PICK g \in Gens : \E r : Sending(r, g)
    BY <1>2
  <2>2. PICK r :
            conn' = [conn EXCEPT ![g].wire = @ \o r.wire,
                                 ![g].st = IF r.ok THEN @ ELSE "failed"]
    BY <2>1 DEF Sending
  <2> QED BY <1>1, <2>2 DEF Conns
<1>3. CASE \E report \in BOOLEAN : FlushAndClose(report)
  <2>1. CASE UNCHANGED conn
    BY <2>1
  <2>2. CASE ~UNCHANGED conn
    <3>1. PICK g, wire, extra, st :
              conn' = [conn EXCEPT ![g].wire = wire, ![g].extra = extra, ![g].st = st]
      BY <1>3, <2>2 DEF FlushAndClose
    <3> QED BY <1>1, <3>1 DEF Conns
  <2> QED BY <2>1, <2>2
<1>4. CASE \E how : CloseConn(how)
  BY <1>1, <1>4 DEF CloseConn, Conns
<1> QED BY <1>2, <1>3, <1>4

LEMMA DialStep == TypeInv /\ TypeInv' /\ DialInv /\ [Next]_vars => DialInv'
<1> SUFFICES ASSUME TypeInv, TypeInv', DialInv, [Next]_vars
             PROVE  DialInv'
  OBVIOUS
<1>1. /\ s \in Setups /\ w \in Writers /\ s.gen \in Gens /\ w.gen \in Gens
      /\ conn \in [Gens -> Conns] /\ cmd \in Seq(Commands)
      /\ \A g \in Gens : conn[g] \in Conns
  BY StateTyped DEF TypeInv, TypeOK
<1>2. /\ pc \notin Drains => s.dials = <<>>
      /\ pc \in Setting \ {"dial"} => conn[s.gen].ep = s.ep
  BY DEF DialInv
<1>3. CASE DeferredCommand
  <2>1. /\ cmd # <<>> /\ cmd' = Tail(cmd) /\ UNCHANGED ui /\ pc = "deferred"
        /\ Head(cmd) \in Commands
    BY <1>1, <1>3 DEF DeferredCommand
  <2>2. CASE Head(cmd).k = "Dial"
    <3> DEFINE d == [gen |-> Head(cmd).gen, ep |-> Head(cmd).ep]
    <3>1. d \in [gen : Gens, ep : Endpoints]
      BY <2>1, <2>2, CommandFields
    <3>2. /\ s' = Setup(d.gen, d.ep, FALSE, FALSE, <<>>)
          /\ w' = w /\ pc' = "deferred"
      BY <1>3, <2>1, <2>2 DEF DeferredCommand
    <3>3. d.gen = Head(cmd).gen /\ d.ep = Head(cmd).ep
      OBVIOUS
    <3>4. s'.gen = d.gen /\ s'.ep = d.ep /\ s'.dials = <<>>
      <4> HIDE DEF d
      <4> QED BY <3>2 DEF Setup
    <3> HIDE DEF d
    <3> QED BY <2>1, <2>2, <3>1, <3>2, <3>3, <3>4, DialBegins
  <2>3. CASE Head(cmd).k # "Dial"
    <3>1. w'.gen \in {w.gen, s.gen}
      BY <1>1, <1>3, <2>3 DEF DeferredCommand, Writers
    <3>2. CASE pc' = "loop"
      <4>1. s' = NoSetup
        BY <1>3, <2>1, <2>3, <3>2 DEF DeferredCommand
      <4> QED BY <2>1, <3>1, <3>2, <4>1, DialSettles
    <3>3. CASE pc' # "loop"
      <4>1. /\ s'.gen = s.gen /\ s'.ep = s.ep /\ s'.dials = s.dials
            /\ pc' \in {"deferred", "dial"}
        BY <1>1, <1>3, <2>1, <2>3, <3>3 DEF DeferredCommand, Setups
      <4> QED BY <1>2, <2>1, <3>1, <4>1, DialTaken DEF Setting, Drains
    <3> QED BY <3>2, <3>3
  <2> QED BY <2>2, <2>3
<1>4. CASE DeferredEnded
  <2>1. w'.gen \in {w.gen, s.gen}
    BY <1>1, <1>4 DEF DeferredEnded, Writers
  <2>2. /\ UNCHANGED <<s, cmd, ui, conn>> /\ pc = "deferred" /\ pc' = "eof"
    BY <1>4 DEF DeferredEnded
  <2> QED BY <1>2, <2>1, <2>2, DialFrame DEF Setting, Drains
<1>5. CASE DialFailed \/ SetupCancel \/ UpgradeFailed \/ RegisterFailed
  <2>1. LeaveIdle /\ UNCHANGED <<cmd, ui>>
    BY <1>5 DEF DialFailed, SetupCancel, UpgradeFailed, RegisterFailed
  <2>2. w'.gen = s.gen
    BY <1>1, <2>1 DEF LeaveIdle, Socketless, Adopted
  <2> QED BY <2>1, <2>2, DialSettles DEF LeaveIdle
<1>6. CASE DialConnected
  <2>1. /\ UNCHANGED <<w, cmd, ui>> /\ pc = "dial" /\ pc' = "peek"
        /\ s' = [s EXCEPT !.fuel = PeekCap]
        /\ conn' = [conn EXCEPT ![s.gen] = [NoConn EXCEPT !.st = "raw", !.ep = s.ep]]
    BY <1>6 DEF DialConnected
  <2>2. s'.gen = s.gen /\ s'.ep = s.ep /\ s'.dials = s.dials
    BY <1>1, <2>1 DEF Setups
  <2>3. conn'[s.gen].ep = s.ep
    BY <1>1, <2>1 DEF NoConn
  <2> QED BY <1>2, <2>1, <2>2, <2>3, DialFrame DEF Setting, Drains
<1>7. CASE PeekCommand \/ DrainCommand
  <2>1. /\ cmd # <<>> /\ cmd' = Tail(cmd) /\ UNCHANGED <<ui, w, conn>>
        /\ pc \in Drains /\ pc' \in Drains
    BY <1>7 DEF PeekCommand, DrainCommand, Drains
  <2>2. Admit(s, Head(cmd)) \in Setups /\ Admit(s, Head(cmd)).gen = s.gen
    BY <1>1, <2>1, AdmitTyped, HeadTailProperties
  <2>3. Admit(s, Head(cmd)).ep = s.ep
    BY <1>1 DEF Admit, Setups
  <2>4. /\ s'.gen = s.gen /\ s'.ep = s.ep
        /\ s'.dials = Admit(s, Head(cmd)).dials
    BY <1>7, <2>2, <2>3 DEF PeekCommand, DrainCommand, Setups
  <2> QED BY <2>1, <2>4, DialAdmitted
<1>8. CASE PeekEnd \/ SetupUpgrade \/ UpgradeDone \/ DrainEnded
  <2>1. /\ UNCHANGED <<w, cmd, ui>>
        /\ pc \in Setting \ {"dial"} /\ pc' \in Setting \ {"dial"}
    BY <1>8 DEF PeekEnd, SetupUpgrade, UpgradeDone, DrainEnded, Setting
  <2>2. s'.gen = s.gen /\ s'.ep = s.ep /\ s'.dials = s.dials
    BY <1>1, <1>8 DEF PeekEnd, SetupUpgrade, UpgradeDone, DrainEnded, Setups
  <2>3. conn'[s.gen].ep = conn[s.gen].ep
    BY <1>1, <1>8 DEF PeekEnd, SetupUpgrade, UpgradeDone, DrainEnded, Conns
  <2>4. pc' \notin Drains => s.dials = <<>>
    BY <1>8 DEF PeekEnd, SetupUpgrade, UpgradeDone, DrainEnded, Drains,
       Superseded
  <2> QED BY <1>2, <2>1, <2>2, <2>3, <2>4, DialFrame
<1>9. CASE SetupRetry
  <2> DEFINE d == s.dials[Len(s.dials)]
  <2>1. Len(s.dials) \in DOMAIN s.dials
    <3>1. s.dials # <<>> /\ s.dials \in Seq([gen : Gens, ep : Endpoints])
      BY <1>9, StateTyped DEF SetupRetry, Superseded
    <3> QED BY <3>1, EmptySeq
  <2>2. d \in [gen : Gens, ep : Endpoints]
    BY <2>1, StateTyped
  <2>3. /\ s' = Setup(d.gen, d.ep, s.live, s.redial, s.kept)
        /\ pc' = "dial" /\ UNCHANGED <<w, cmd, ui>>
    BY <1>9 DEF SetupRetry
  <2>4. \E j \in DOMAIN s.dials : d = s.dials[j]
    BY <2>1
  <2> HIDE DEF d
  <2> QED BY <2>2, <2>3, <2>4, SetupFields, DialBegins
<1>10. CASE Register
  <2>1. /\ UNCHANGED <<s, cmd, ui>> /\ pc' = "replay" /\ w'.gen = s.gen
        /\ s.dials = <<>>
    BY <1>10 DEF Register, Superseded, Adopted
  <2> QED BY <2>1, DialFrame DEF Setting
<1>11. CASE Replay
  <2>1. /\ pc = "replay" /\ pc' = pc /\ UNCHANGED <<cmd, ui>>
        /\ s' = [s EXCEPT !.kept = Tail(@)]
        /\ s.kept # <<>>
    BY <1>11 DEF Replay
  <2>2. s'.gen = s.gen /\ s'.ep = s.ep /\ s'.dials = s.dials
    BY <1>1, <2>1 DEF Setups
  <2>3. w'.gen = w.gen
    <3>1. PICK r \in QueueOutcomes(Head(s.kept)) : Sending(r, w.gen)
      BY <1>11 DEF Replay
    <3>2. Head(s.kept) \in Commands /\ WriterRests(w)
      BY <1>1, <2>1 DEF Setups, TypeInv
    <3>3. QueueOutcome(w, r)
      BY <3>1, <3>2, QueueOutcomesOK
    <3> QED BY <3>1, <3>3 DEF Sending, QueueOutcome
  <2> QED BY <1>2, <2>1, <2>2, <2>3, DialFrame DEF Setting, Drains
<1>12. CASE ArmBoot \/ ArmRedial
  <2>1. /\ s' = NoSetup /\ pc' = "loop" /\ UNCHANGED <<cmd, ui>>
    BY <1>12 DEF ArmBoot, ArmRedial
  <2>2. w'.gen = w.gen
    <3>1. CASE ArmBoot
      BY <3>1 DEF ArmBoot
    <3>2. CASE ArmRedial
      <4>1. PICK r \in WriterPump(w, w.gen) : Sending(r, w.gen)
        BY <3>2 DEF ArmRedial
      <4>2. QueueOutcome(w, r)
        BY <1>1, <4>1, PumpOutcome DEF TypeInv
      <4> QED BY <4>1, <4>2 DEF Sending, QueueOutcome
    <3> QED BY <1>12, <3>1, <3>2
  <2> QED BY <2>1, <2>2, DialSettles
<1>13. CASE WriterSend \/ WriterDrop \/ WriterHangup
  <2>1. /\ cmd # <<>> /\ cmd' = Tail(cmd) /\ UNCHANGED <<pc, ui, s>> /\ pc = "loop"
        /\ Head(cmd) \in Commands
    <3>1. /\ cmd # <<>> /\ cmd' = Tail(cmd) /\ UNCHANGED <<pc, ui, s>> /\ pc = "loop"
      BY <1>13 DEF WriterSend, WriterDrop, WriterHangup, TakeCommand
    <3> QED BY <1>1, <3>1, HeadTailProperties
  <2>2. w'.gen = w.gen
    <3>1. CASE WriterSend
      <4>1. PICK r \in QueueOutcomes(Head(cmd)) : Sending(r, w.gen)
        BY <3>1 DEF WriterSend
      <4>2. QueueOutcome(w, r)
        BY <2>1, <4>1, QueueOutcomesOK DEF TypeInv
      <4> QED BY <4>1, <4>2 DEF Sending, QueueOutcome
    <3>2. CASE ~WriterSend
      BY <1>1, <1>13, <3>2, EmptiedTyped DEF WriterDrop, WriterHangup
    <3> QED BY <3>1, <3>2
  <2> QED BY <1>2, <2>1, <2>2, DialTaken DEF Setting, Drains
<1>14. CASE WriterDial
  <2> DEFINE d == [gen |-> Head(cmd).gen, ep |-> Head(cmd).ep]
  <2>1. /\ cmd # <<>> /\ cmd' = Tail(cmd) /\ UNCHANGED ui
        /\ Head(cmd).k = "Dial" /\ Head(cmd) \in Commands
        /\ w' = Emptied(w) /\ pc' = "dial"
        /\ s' = Setup(d.gen, d.ep, FALSE, TRUE, <<>>)
    BY <1>1, <1>14 DEF WriterDial, TakeCommand
  <2>2. d \in [gen : Gens, ep : Endpoints] /\ w'.gen = w.gen
    BY <1>1, <2>1, CommandFields, EmptiedTyped
  <2>3. d.gen = Head(cmd).gen /\ d.ep = Head(cmd).ep
    OBVIOUS
  <2>4. s'.gen = d.gen /\ s'.ep = d.ep /\ s'.dials = <<>>
    <3> HIDE DEF d
    <3> QED BY <2>1 DEF Setup
  <2> HIDE DEF d
  <2> QED BY <2>1, <2>2, <2>3, <2>4, DialBegins
<1>15. CASE WriterFinish \/ WriterEof \/ WriterDone
  <2>1. /\ UNCHANGED <<cmd, ui, s>> /\ pc \in {"loop", "eof", "done"}
        /\ pc' \in {"eof", "done", "stopped"} /\ w'.gen = w.gen
    BY <1>1, <1>15, EmptiedTyped DEF WriterFinish, WriterEof, WriterDone
  <2> QED BY <1>2, <2>1, DialFrame DEF Setting, Drains
<1>16. ASSUME UNCHANGED <<pc, w, s, ui, conn, cmd>>
       PROVE  DialInv'
  BY <1>2, <1>16, DialFrame
<1>17. ASSUME NEW c \in Commands, c.k # "Dial", cmd' = Append(cmd, c),
              UNCHANGED <<pc, w, s, conn>>, ui'.gen = ui.gen, ui'.dialed = ui.dialed
       PROVE  DialInv'
  BY <1>17, DialSent
<1>18. ASSUME NEW g \in Gens, PumpSend(g) \/ FailPost(g) \/ ReaderStep(g)
       PROVE  DialInv'
  <2>1. UNCHANGED <<pc, w, s, ui, conn>>
    BY <1>18 DEF PumpSend, FailPost, ReaderStep, ReaderUp, ReaderRecv,
       ReaderPong, ReaderChunk, ReaderStop
  <2>2. CASE UNCHANGED cmd
    BY <1>16, <2>1, <2>2
  <2>3. CASE PumpSend(g) /\ ~UNCHANGED cmd
    <3>1. cmd' = Append(cmd, Pump(g)) /\ Pump(g) \in Commands /\ Pump(g).k # "Dial"
      BY <2>3 DEF PumpSend, PostCmd, Pump, Commands
    <3> QED BY <1>17, <2>1, <3>1
  <2>4. CASE ReaderPong(g) /\ ~UNCHANGED cmd
    <3>1. PICK l, req : cmd' = Append(cmd, Pong(g, l, req))
      BY <2>4 DEF ReaderPong, PostCmd
    <3>2. cmd' \in Seq(Commands)
      BY DEF TypeInv, TypeOK
    <3>3. Pong(g, l, req) \in Commands
      <4>1. Len(cmd') = Len(cmd) + 1 /\ cmd'[Len(cmd) + 1] = Pong(g, l, req)
        BY <1>1, <3>1
      <4> QED BY <1>1, <3>2, <4>1, ElementOfSeq
    <3>4. Pong(g, l, req).k # "Dial"
      BY DEF Pong
    <3> QED BY <1>17, <2>1, <3>1, <3>3, <3>4
  <2> QED BY <1>18, <2>2, <2>3, <2>4
      DEF FailPost, ReaderStep, ReaderUp, ReaderRecv, ReaderChunk, ReaderStop
<1>19. CASE UiTake \/ UiClose
  BY <1>16, <1>19 DEF UiTake, UiClose, actorVars
<1>20. CASE UiCommand /\ ~UiClose
  <2>1. ui \in Uis
    BY DEF TypeInv, TypeOK
  <2>2. PICK c : UiSend(c) /\ (\/ c.k # "Dial" /\ ui'.gen = ui.gen /\ ui'.dialed = ui.dialed
                              \/ \E ep \in Endpoints :
                                    /\ c = Dial(ui.gen + 1, ep) /\ ui.gen + 1 \in Gens
                                    /\ ui'.gen = ui.gen + 1
                                    /\ ui'.dialed = [ui.dialed EXCEPT ![ui.gen + 1] = ep])
    <3>1. ASSUME NEW n \in 1 .. MaxBatch, UiCont(n)
          PROVE  \E c : UiSend(c) /\ c.k # "Dial" /\ ui'.gen = ui.gen /\ ui'.dialed = ui.dialed
      BY <2>1, <3>1 DEF UiCont, Cont, Uis
    <3>2. ASSUME NEW ep \in Endpoints, UiDial(ep)
          PROVE  /\ UiSend(Dial(ui.gen + 1, ep)) /\ ui.gen + 1 \in Gens
                 /\ ui'.gen = ui.gen + 1
                 /\ ui'.dialed = [ui.dialed EXCEPT ![ui.gen + 1] = ep]
      BY <2>1, <3>2 DEF UiDial, Uis
    <3>3. CASE UiCut \/ UiBegin
      BY <2>1, <3>3 DEF UiCut, UiBegin, Drop, Hangup, Begin, Uis
    <3> QED BY <1>20, <3>1, <3>2, <3>3 DEF UiCommand
  <2>3. cmd' = Append(cmd, c) /\ UNCHANGED <<pc, w, s, conn>>
    BY <2>2 DEF UiSend, actorVars
  <2>4. c \in Commands
    <3>1. Len(cmd') = Len(cmd) + 1 /\ cmd'[Len(cmd) + 1] = c /\ cmd' \in Seq(Commands)
      BY <1>1, <2>3 DEF TypeInv, TypeOK
    <3> QED BY <1>1, <3>1, ElementOfSeq
  <2> QED BY <2>2, <2>3, <2>4, DialSent
<1>21. CASE UNCHANGED vars
  BY <1>16, <1>21 DEF vars
<1> QED BY <1>3, <1>4, <1>5, <1>6, <1>7, <1>8, <1>9, <1>10, <1>11, <1>12,
        <1>13, <1>14, <1>15, <1>18, <1>19, <1>20, <1>21
        DEF Next, WriterStep, Stopped

-----------------------------------------------------------------------------
(* The credential scope *)

\* Generations dialled away from the launch endpoint.
Elsewhere(h) == ui.dialed[h] \notin {Launch, NoEndpoint}

\* The Dial of generation h has not been considered yet.
Ahead(h) ==
    \/ \E i \in DOMAIN cmd : cmd[i].k = "Dial" /\ cmd[i].gen = h
    \/ \E j \in DOMAIN s.dials : s.dials[j].gen = h

\* While SASL is still on offer, any Dial that left the launch endpoint lies
\* ahead: it has reached neither the writer nor the end of a drain.
CredInv ==
    /\ scope.on => /\ HasSasl /\ scope.ep = Launch
                   /\ \A h \in Gens : Elsewhere(h) => Ahead(h)
    /\ \A g \in Gens : conn[g].reg = "sasl" =>
        /\ HasSasl /\ conn[g].ep = Launch /\ g <= ui.gen
        /\ \A h \in Gens : h <= g => ~Elsewhere(h)

LEMMA CredInit == Init => CredInv
<1> SUFFICES ASSUME Init PROVE CredInv
  OBVIOUS
<1>1. PICK start \in Starts : InitStart(start)
  BY DEF Init
<1>2. scope.on => HasSasl /\ scope.ep = Launch
  BY <1>1, NetActorAssumption DEF InitStart, InitScope
<1>3. \A h \in Gens : ~Elsewhere(h)
  BY <1>1 DEF InitStart, InitUi, Elsewhere
<1>4. \A g \in Gens : conn[g].reg = "none"
  BY DEF Init, NoConn
<1> QED BY <1>2, <1>3, <1>4 DEF CredInv

\* A command leaves the channel: the Dials ahead stay ahead, but for the one
\* that leaves.
LEMMA AheadTail ==
    ASSUME cmd \in Seq(Commands), NEW h \in Gens, Ahead(h),
           \/ cmd' = cmd
           \/ /\ cmd # <<>> /\ cmd' = Tail(cmd)
              /\ Head(cmd).k = "Dial" => Head(cmd).gen # h,
           s'.dials = s.dials
    PROVE  Ahead(h)'
<1>1. CASE \E j \in DOMAIN s.dials : s.dials[j].gen = h
  BY <1>1 DEF Ahead
<1>2. ASSUME NEW i \in DOMAIN cmd, cmd[i].k = "Dial", cmd[i].gen = h
      PROVE  Ahead(h)'
  <2>1. CASE cmd' = cmd
    BY <1>2, <2>1 DEF Ahead
  <2>2. CASE /\ cmd # <<>> /\ cmd' = Tail(cmd)
             /\ Head(cmd).k = "Dial" => Head(cmd).gen # h
    <3>1. \/ i = 1 /\ cmd[i] = Head(cmd)
          \/ i - 1 \in DOMAIN Tail(cmd) /\ Tail(cmd)[i - 1] = cmd[i]
      BY <1>2, <2>2, TailIndex
    <3>2. i - 1 \in DOMAIN cmd' /\ cmd'[i - 1] = cmd[i]
      BY <1>2, <2>2, <3>1
    <3> QED BY <1>2, <3>2 DEF Ahead
  <2>3. \/ cmd' = cmd
        \/ /\ cmd # <<>> /\ cmd' = Tail(cmd)
           /\ Head(cmd).k = "Dial" => Head(cmd).gen # h
    OBVIOUS
  <2> QED BY <2>1, <2>2, <2>3
<1>3. \/ \E i \in DOMAIN cmd : cmd[i].k = "Dial" /\ cmd[i].gen = h
      \/ \E j \in DOMAIN s.dials : s.dials[j].gen = h
  BY DEF Ahead
<1> QED BY <1>1, <1>2, <1>3

\* Most steps leave the scope alone and no Dial behind.
LEMMA CredFrame ==
    ASSUME TypeInv, CredInv, UNCHANGED <<scope, ui>>, s'.dials = s.dials,
           \/ cmd' = cmd
           \/ cmd # <<>> /\ cmd' = Tail(cmd) /\ Head(cmd).k # "Dial",
           \A g \in Gens : conn'[g].reg = "sasl" =>
                conn[g].reg = "sasl" /\ conn'[g].ep = conn[g].ep
    PROVE  CredInv'
<1>1. \A h \in Gens : Elsewhere(h)' = Elsewhere(h)
  BY DEF Elsewhere
<1>2. \A h \in Gens : Ahead(h) => Ahead(h)'
  BY AheadTail, StateTyped
<1>3. scope'.on => /\ HasSasl /\ scope'.ep = Launch
                   /\ \A h \in Gens : Elsewhere(h)' => Ahead(h)'
  BY <1>1, <1>2 DEF CredInv
<1>4. ASSUME NEW g \in Gens, conn'[g].reg = "sasl"
      PROVE  /\ HasSasl /\ conn'[g].ep = Launch /\ g <= ui'.gen
             /\ \A h \in Gens : h <= g => ~Elsewhere(h)'
  BY <1>1, <1>4 DEF CredInv
<1> QED BY <1>3, <1>4 DEF CredInv

\* Where no setup drains, the scope has counted every Dial that left cmd.
LEMMA CredCounts ==
    ASSUME TypeInv, DialInv, CredInv, scope'.on => scope.on,
           scope'.ep = scope.ep, UNCHANGED ui,
           s'.dials = <<>>,
           \A g \in Gens : conn'[g].reg = "sasl" =>
                conn[g].reg = "sasl" /\ conn'[g].ep = conn[g].ep,
           \/ /\ cmd' = cmd
              /\ scope'.on => \A j \in DOMAIN s.dials : s.dials[j].ep = scope.ep
           \/ /\ cmd # <<>> /\ cmd' = Tail(cmd) /\ Head(cmd).k = "Dial"
              /\ s.dials = <<>>
              /\ scope'.on => Head(cmd).ep = scope.ep
    PROVE  CredInv'
<1>1. \A h \in Gens : Elsewhere(h)' = Elsewhere(h)
  BY DEF Elsewhere
<1>2. ASSUME NEW g \in Gens, conn'[g].reg = "sasl"
      PROVE  /\ HasSasl /\ conn'[g].ep = Launch /\ g <= ui'.gen
             /\ \A h \in Gens : h <= g => ~Elsewhere(h)'
  BY <1>1, <1>2 DEF CredInv
<1>3. ASSUME scope'.on, NEW h \in Gens, Elsewhere(h)
      PROVE  Ahead(h)'
  <2>1. Ahead(h) /\ scope.ep = Launch
    BY <1>3 DEF CredInv
  <2>2. CASE /\ cmd' = cmd
             /\ \A j \in DOMAIN s.dials : s.dials[j].ep = scope.ep
    <3>1. \A j \in DOMAIN s.dials : s.dials[j].gen # h
      BY <1>3, <2>1, <2>2 DEF DialInv, Elsewhere
    <3> QED BY <2>1, <2>2, <3>1 DEF Ahead
  <2>3. CASE /\ cmd # <<>> /\ cmd' = Tail(cmd) /\ Head(cmd).k = "Dial"
             /\ s.dials = <<>> /\ Head(cmd).ep = scope.ep
    <3>1. Head(cmd).ep = ui.dialed[Head(cmd).gen]
      BY <2>3, QueuedTail, StateTyped DEF DialInv
    <3>2. Head(cmd).gen # h
      BY <1>3, <2>1, <2>3, <3>1 DEF Elsewhere
    <3> QED BY <2>1, <2>3, <3>2, AheadTail, StateTyped
  <2> QED BY <1>3, <2>2, <2>3
<1> QED BY <1>1, <1>2, <1>3 DEF CredInv

\* A drain moves a Dial from the channel to what it has seen.
LEMMA CredAdmitted ==
    ASSUME TypeInv, DialInv, CredInv, UNCHANGED <<scope, ui, conn>>,
           cmd # <<>>, cmd' = Tail(cmd),
           s'.dials = Admit(s, Head(cmd)).dials
    PROVE  CredInv'
<1>1. /\ cmd \in Seq(Commands) /\ Head(cmd) \in Commands /\ s \in Setups
      /\ s.dials \in Seq([gen : Gens, ep : Endpoints])
  BY StateTyped, HeadTailProperties
<1>2. CASE Head(cmd).k # "Dial"
  <2>1. s'.dials = s.dials
    BY <1>1, <1>2, AdmitTyped
  <2> QED BY <1>2, <2>1, CredFrame
<1>3. CASE Head(cmd).k = "Dial"
  <2> DEFINE d == [gen |-> Head(cmd).gen, ep |-> Head(cmd).ep]
  <2>1. s'.dials = Append(s.dials, d)
    BY <1>1, <1>3, AdmitTyped
  <2>2. d \in [gen : Gens, ep : Endpoints] /\ d.gen = Head(cmd).gen
    BY <1>1, <1>3, CommandFields
  <2> HIDE DEF d
  <2>3. /\ DOMAIN s.dials = 1 .. Len(s.dials) /\ Len(s.dials) \in Nat
        /\ DOMAIN s'.dials = 1 .. Len(s.dials) + 1
        /\ s'.dials[Len(s.dials) + 1] = d
        /\ \A j \in DOMAIN s.dials : s'.dials[j] = s.dials[j]
    <3>1. /\ DOMAIN s.dials = 1 .. Len(s.dials) /\ Len(s.dials) \in Nat
      BY <1>1, LenProperties
    <3>2. /\ Append(s.dials, d) \in Seq([gen : Gens, ep : Endpoints])
          /\ Len(Append(s.dials, d)) = Len(s.dials) + 1
          /\ \A j \in 1 .. Len(s.dials) : Append(s.dials, d)[j] = s.dials[j]
          /\ Append(s.dials, d)[Len(s.dials) + 1] = d
      BY <1>1, <2>2, AppendProperties
    <3>3. DOMAIN Append(s.dials, d) = 1 .. Len(s.dials) + 1
      BY <3>2, LenProperties
    <3> QED BY <2>1, <3>1, <3>2, <3>3
  <2>4. ASSUME NEW h \in Gens, Ahead(h)
        PROVE  Ahead(h)'
    <3>1. CASE \E j \in DOMAIN s.dials : s.dials[j].gen = h
      BY <2>3, <3>1 DEF Ahead
    <3>2. CASE \E i \in DOMAIN cmd : cmd[i].k = "Dial" /\ cmd[i].gen = h
      <4>1. PICK i \in DOMAIN cmd : cmd[i].k = "Dial" /\ cmd[i].gen = h
        BY <3>2
      <4>2. \/ i = 1 /\ cmd[i] = Head(cmd)
            \/ i - 1 \in DOMAIN Tail(cmd) /\ Tail(cmd)[i - 1] = cmd[i]
        BY <1>1, <4>1, TailIndex
      <4>3. CASE cmd[i] = Head(cmd)
        <5>1. /\ Len(s.dials) + 1 \in DOMAIN s'.dials
              /\ s'.dials[Len(s.dials) + 1].gen = h
          BY <2>2, <2>3, <4>1, <4>3
        <5> QED BY <5>1 DEF Ahead
      <4>4. CASE i - 1 \in DOMAIN Tail(cmd) /\ Tail(cmd)[i - 1] = cmd[i]
        <5>1. /\ i - 1 \in DOMAIN cmd'
              /\ cmd'[i - 1].k = "Dial" /\ cmd'[i - 1].gen = h
          BY <4>1, <4>4
        <5> QED BY <5>1 DEF Ahead
      <4> QED BY <4>2, <4>3, <4>4
    <3> QED BY <2>4, <3>1, <3>2 DEF Ahead
  <2>5. \A h \in Gens : Elsewhere(h)' = Elsewhere(h)
    BY DEF Elsewhere
  <2> QED BY <2>4, <2>5 DEF CredInv
<1> QED BY <1>2, <1>3

\* The UI, a reader or a pump sends a command.
LEMMA CredSent ==
    ASSUME TypeInv, CredInv, UNCHANGED <<scope, s, conn>>, NEW c \in Commands,
           cmd' = Append(cmd, c),
           \/ ui'.gen = ui.gen /\ ui'.dialed = ui.dialed
           \/ \E ep \in Endpoints :
                /\ c = Dial(ui.gen + 1, ep) /\ ui.gen + 1 \in Gens
                /\ ui'.gen = ui.gen + 1
                /\ ui'.dialed = [ui.dialed EXCEPT ![ui.gen + 1] = ep]
    PROVE  CredInv'
<1>1. /\ cmd \in Seq(Commands) /\ ui.gen \in Nat
      /\ ui.dialed \in [Gens -> Endpoints \cup {NoEndpoint}]
  BY StateTyped
<1>2. /\ DOMAIN cmd = 1 .. Len(cmd) /\ Len(cmd) \in Nat
      /\ DOMAIN cmd' = 1 .. Len(cmd) + 1
      /\ cmd'[Len(cmd) + 1] = c
      /\ \A i \in DOMAIN cmd : cmd'[i] = cmd[i]
  BY <1>1, AppendProperties
<1>3. \A h \in Gens : Ahead(h) => Ahead(h)'
  BY <1>2 DEF Ahead
<1>4. CASE ui'.gen = ui.gen /\ ui'.dialed = ui.dialed
  <2>1. \A h \in Gens : Elsewhere(h)' = Elsewhere(h)
    BY <1>4 DEF Elsewhere
  <2> QED BY <1>3, <1>4, <2>1 DEF CredInv
<1>5. ASSUME NEW ep \in Endpoints,
             c = Dial(ui.gen + 1, ep), ui.gen + 1 \in Gens,
             ui'.gen = ui.gen + 1,
             ui'.dialed = [ui.dialed EXCEPT ![ui.gen + 1] = ep]
      PROVE  CredInv'
  <2>1. ASSUME NEW h \in Gens, h = ui.gen + 1
        PROVE  Ahead(h)'
    <3>1. c.k = "Dial" /\ c.gen = ui.gen + 1
      BY <1>5 DEF Dial
    <3>2. Len(cmd) + 1 \in DOMAIN cmd'
      BY <1>2
    <3> QED BY <1>2, <2>1, <3>1, <3>2 DEF Ahead
  <2>2. \A h \in Gens : h # ui.gen + 1 => Elsewhere(h)' = Elsewhere(h)
    BY <1>1, <1>5 DEF Elsewhere
  <2>3. scope'.on => /\ HasSasl /\ scope'.ep = Launch
                     /\ \A h \in Gens : Elsewhere(h)' => Ahead(h)'
    BY <1>3, <2>1, <2>2 DEF CredInv
  <2>4. ASSUME NEW g \in Gens, conn'[g].reg = "sasl"
        PROVE  /\ HasSasl /\ conn'[g].ep = Launch /\ g <= ui'.gen
               /\ \A h \in Gens : h <= g => ~Elsewhere(h)'
    <3>1. /\ HasSasl /\ conn[g].ep = Launch /\ g <= ui.gen
          /\ \A h \in Gens : h <= g => ~Elsewhere(h)
      BY <2>4 DEF CredInv
    <3>2. ASSUME NEW h \in Gens, h <= g PROVE h # ui.gen + 1
      <4>1. h \in Nat /\ g \in Nat
        BY GensTyped
      <4> QED BY <1>1, <3>1, <3>2, <4>1
    <3>3. g <= ui'.gen
      BY <1>1, <1>5, <3>1, GensTyped
    <3> QED BY <2>2, <2>4, <3>1, <3>2, <3>3
  <2> QED BY <2>3, <2>4 DEF CredInv
<1> QED BY <1>4, <1>5

\* With no newer Dial seen, an offer at this setup keeps within the scope.
LEMMA CredOffered ==
    ASSUME TypeInv, DialInv, CredInv, pc = "decide", s.dials = <<>>, scope.on
    PROVE  /\ HasSasl /\ s.ep = Launch /\ conn[s.gen].ep = Launch
           /\ s.gen <= ui.gen
           /\ \A h \in Gens : h <= s.gen => ~Elsewhere(h)
<1>1. /\ s.gen \in Gens /\ s.ep \in Endpoints /\ s \in Setups
  BY StateTyped DEF Setups
<1>2. /\ s.ep = ui.dialed[s.gen] /\ conn[s.gen].ep = s.ep /\ s.gen <= ui.gen
  BY DEF DialInv, Setting
<1>3. ASSUME NEW h \in Gens, h <= s.gen
      PROVE  ~Elsewhere(h)
  <2>1. SUFFICES ASSUME Ahead(h) PROVE FALSE
    BY DEF CredInv
  <2>2. PICK i \in DOMAIN cmd : cmd[i].k = "Dial" /\ cmd[i].gen = h
    <3>1. DOMAIN s.dials = {}
      BY EmptySeq
    <3> QED BY <2>1, <3>1 DEF Ahead
  <2>3. s.gen < h
    BY <2>2 DEF DialInv, Queued
  <2>4. h \in Nat /\ s.gen \in Nat
    BY StateTyped, GensTyped
  <2>5. h <= s.gen
    BY <1>3
  <2> QED BY <2>3, <2>4, <2>5
<1>4. s.ep = Launch
  <2>1. ~Elsewhere(s.gen)
    BY <1>1, <1>3, GensTyped
  <2> QED BY <1>1, <1>2, <2>1, NetActorAssumption DEF Elsewhere
<1> QED BY <1>2, <1>3, <1>4 DEF CredInv

LEMMA CredStep ==
    TypeInv /\ TypeInv' /\ DialInv /\ CredInv /\ [Next]_vars => CredInv'
<1> SUFFICES ASSUME TypeInv, TypeInv', DialInv, CredInv, [Next]_vars
             PROVE  CredInv'
  OBVIOUS
<1>1. /\ s \in Setups /\ w \in Writers /\ s.gen \in Gens /\ w.gen \in Gens
      /\ conn \in [Gens -> Conns] /\ cmd \in Seq(Commands)
      /\ \A g \in Gens : conn[g] \in Conns
  BY StateTyped DEF TypeInv, TypeOK
<1>2. pc \notin Drains => s.dials = <<>>
  BY DEF DialInv
<1>3. ASSUME UNCHANGED <<scope, ui, conn>>, s'.dials = s.dials,
             \/ cmd' = cmd
             \/ cmd # <<>> /\ cmd' = Tail(cmd) /\ Head(cmd).k # "Dial"
      PROVE  CredInv'
  BY <1>3, CredFrame
<1>4. CASE DeferredCommand
  <2>1. /\ cmd # <<>> /\ cmd' = Tail(cmd) /\ UNCHANGED <<ui, conn>>
        /\ s.dials = <<>> /\ Head(cmd) \in Commands
    BY <1>1, <1>2, <1>4 DEF DeferredCommand, Drains
  <2>2. CASE Head(cmd).k = "Dial"
    <3>1. /\ s' = Setup(Head(cmd).gen, Head(cmd).ep, FALSE, FALSE, <<>>)
          /\ scope' = AuthScopeDial(scope, Head(cmd).ep)
      BY <1>4, <2>2 DEF DeferredCommand
    <3>2. /\ s'.dials = <<>> /\ scope'.ep = scope.ep
          /\ scope'.on => scope.on /\ Head(cmd).ep = scope.ep
      <4>1. scope \in Scopes
        BY DEF TypeInv, TypeOK
      <4> QED BY <3>1, <4>1 DEF Setup, AuthScopeDial, Scopes
    <3> QED BY <2>1, <2>2, <3>2, CredCounts
  <2>3. CASE Head(cmd).k # "Dial"
    <3>1. UNCHANGED scope /\ s'.dials = <<>>
      BY <1>1, <1>4, <2>1, <2>3 DEF DeferredCommand, Setups, NoSetup, Setup
    <3> QED BY <1>3, <2>1, <2>3, <3>1
  <2> QED BY <2>2, <2>3
<1>5. CASE DeferredEnded \/ DialFailed
  <2>1. UNCHANGED <<scope, cmd, ui, conn>> /\ s.dials = <<>> /\ s'.dials = <<>>
    BY <1>2, <1>5, SetupFields DEF DeferredEnded, DialFailed, LeaveIdle, Drains
  <2> QED BY <1>3, <2>1
<1>6. CASE DialConnected
  <2>1. /\ UNCHANGED <<scope, cmd, ui>>
        /\ s' = [s EXCEPT !.fuel = PeekCap]
        /\ conn' = [conn EXCEPT ![s.gen] = [NoConn EXCEPT !.st = "raw", !.ep = s.ep]]
    BY <1>6 DEF DialConnected
  <2>2. s'.dials = s.dials
    BY <1>1, <2>1 DEF Setups
  <2>3. \A g \in Gens : conn'[g].reg = "sasl" => conn'[g] = conn[g]
    BY <1>1, <2>1 DEF NoConn
  <2> QED BY <2>1, <2>2, <2>3, CredFrame
<1>7. CASE PeekCommand \/ DrainCommand
  <2>1. /\ cmd # <<>> /\ cmd' = Tail(cmd) /\ UNCHANGED <<scope, ui, conn>>
    BY <1>7 DEF PeekCommand, DrainCommand
  <2>2. Admit(s, Head(cmd)) \in Setups
    BY <1>1, <2>1, AdmitTyped, HeadTailProperties
  <2>3. s'.dials = Admit(s, Head(cmd)).dials
    BY <1>7, <2>2 DEF PeekCommand, DrainCommand, Setups
  <2> QED BY <2>1, <2>3, CredAdmitted
<1>8. CASE PeekEnd \/ SetupUpgrade \/ DrainEnded
  <2>1. UNCHANGED <<scope, cmd, ui, conn>>
    BY <1>8 DEF PeekEnd, SetupUpgrade, DrainEnded
  <2>2. s'.dials = s.dials
    BY <1>1, <1>8 DEF PeekEnd, SetupUpgrade, DrainEnded, Setups
  <2> QED BY <1>3, <2>1, <2>2
<1>9. CASE UpgradeDone
  <2>1. UNCHANGED <<scope, cmd, ui>> /\ s'.dials = s.dials
    BY <1>1, <1>9 DEF UpgradeDone, Setups
  <2>2. \A g \in Gens : conn'[g].reg = conn[g].reg /\ conn'[g].ep = conn[g].ep
    BY <1>1, <1>9 DEF UpgradeDone, Conns
  <2> QED BY <2>1, <2>2, CredFrame
<1>10. CASE SetupCancel \/ SetupRetry
  <2>1. /\ UNCHANGED <<cmd, ui>> /\ scope' = AdmitScope(scope, s.dials)
        /\ CloseConn("abandoned")
    BY <1>10 DEF SetupCancel, SetupRetry
  <2>2. s'.dials = <<>>
    BY <1>10, SetupFields DEF SetupCancel, SetupRetry, LeaveIdle
  <2>3. /\ scope'.ep = scope.ep
        /\ scope'.on => /\ scope.on
                        /\ \A j \in DOMAIN s.dials : s.dials[j].ep = scope.ep
    <3>1. scope \in Scopes
      BY DEF TypeInv, TypeOK
    <3> QED BY <2>1, <3>1 DEF AdmitScope, Scopes
  <2>4. \A g \in Gens : conn'[g].reg = conn[g].reg /\ conn'[g].ep = conn[g].ep
    BY <2>1, ConnKept
  <2> QED BY <2>1, <2>2, <2>3, <2>4, CredCounts
<1>11. CASE UpgradeFailed
  <2>1. UNCHANGED <<scope, cmd, ui>> /\ CloseConn("abandoned") /\ s'.dials = s.dials
    BY <1>2, <1>11, SetupFields DEF UpgradeFailed, LeaveIdle, Drains
  <2>2. \A g \in Gens : conn'[g].reg = conn[g].reg /\ conn'[g].ep = conn[g].ep
    BY <2>1, ConnKept
  <2> QED BY <2>1, <2>2, CredFrame
<1>12. CASE Register \/ RegisterFailed
  <2>1. /\ UNCHANGED <<scope, cmd, ui>> /\ s.dials = <<>> /\ s'.dials = <<>>
        /\ pc = "decide"
    BY <1>12, SetupFields DEF Register, RegisterFailed, LeaveIdle, Superseded
  <2>2. /\ \A g \in Gens : conn'[g].ep = conn[g].ep
        /\ \A g \in Gens : conn'[g].reg = "sasl" =>
                conn[g].reg = "sasl" \/ (g = s.gen /\ scope.on)
    <3>1. PICK st, a : /\ a \in {"plain", "sasl"} /\ (a = "sasl" => scope.on)
                       /\ conn' = [conn EXCEPT ![s.gen].st = st, ![s.gen].reg = a]
      <4>1. ASSUME NEW st, conn' = [conn EXCEPT ![s.gen].st = st,
                       ![s.gen].reg = IF scope.on THEN "sasl" ELSE "plain"]
            PROVE  \E a : /\ a \in {"plain", "sasl"} /\ (a = "sasl" => scope.on)
                          /\ conn' = [conn EXCEPT ![s.gen].st = st, ![s.gen].reg = a]
        BY <4>1
      <4> QED BY <1>12, <4>1 DEF Register, RegisterFailed
    <3>2. ASSUME NEW g \in Gens
          PROVE  /\ conn'[g].ep = conn[g].ep
                 /\ conn'[g].reg = IF g = s.gen THEN a ELSE conn[g].reg
      BY <1>1, <3>1 DEF Conns
    <3> QED BY <3>1, <3>2
  <2>3. \A h \in Gens : Elsewhere(h)' = Elsewhere(h)
    BY <2>1 DEF Elsewhere
  <2>4. \A h \in Gens : Ahead(h) => Ahead(h)'
    BY <2>1, AheadTail, StateTyped
  <2>5. ASSUME NEW g \in Gens, conn'[g].reg = "sasl"
        PROVE  /\ HasSasl /\ conn'[g].ep = Launch /\ g <= ui'.gen
               /\ \A h \in Gens : h <= g => ~Elsewhere(h)'
    <3>1. CASE conn[g].reg = "sasl"
      BY <2>1, <2>2, <2>3, <3>1 DEF CredInv
    <3>2. CASE g = s.gen /\ scope.on
      BY <2>1, <2>2, <2>3, <3>2, CredOffered
    <3> QED BY <2>2, <2>5, <3>1, <3>2
  <2> QED BY <2>1, <2>3, <2>4, <2>5 DEF CredInv
<1>13. CASE Replay \/ ArmBoot \/ ArmRedial
  <2>1. UNCHANGED <<scope, cmd, ui>> /\ s.dials = <<>>
    BY <1>2, <1>13 DEF Replay, ArmBoot, ArmRedial, Drains
  <2>2. s'.dials = s.dials
    BY <1>1, <1>13, <2>1, SetupFields DEF Replay, ArmBoot, ArmRedial, Setups
  <2>3. \A g \in Gens : conn'[g].reg = conn[g].reg /\ conn'[g].ep = conn[g].ep
    <3>1. CASE ArmBoot
      BY <3>1 DEF ArmBoot
    <3>2. CASE ~ArmBoot
      <4>1. \E r : Sending(r, w.gen)
        BY <1>13, <3>2 DEF Replay, ArmRedial
      <4> QED BY <1>1, <4>1, ConnKept
    <3> QED BY <3>1, <3>2
  <2> QED BY <2>1, <2>2, <2>3, CredFrame
<1>14. CASE WriterSend \/ WriterDrop \/ WriterHangup
  <2>1. /\ cmd # <<>> /\ cmd' = Tail(cmd) /\ Head(cmd).k # "Dial"
        /\ UNCHANGED <<scope, s, ui>>
    <3>1. /\ cmd # <<>> /\ cmd' = Tail(cmd) /\ UNCHANGED <<scope, s, ui>>
          /\ Head(cmd).k = "Dial" => Head(cmd).gen = w.gen
      BY <1>14 DEF WriterSend, WriterDrop, WriterHangup, TakeCommand, DialSuperseded
    <3>2. Head(cmd).k = "Dial" => w.gen < Head(cmd).gen
      BY <1>1, <3>1, StateTyped, QueuedTail DEF DialInv
    <3> QED BY <3>1, <3>2, StateTyped
  <2>2. \A g \in Gens : conn'[g].reg = conn[g].reg /\ conn'[g].ep = conn[g].ep
    <3>1. CASE WriterDrop
      BY <1>1, <3>1 DEF WriterDrop, Conns
    <3>2. CASE ~WriterDrop
      <4>1. (\E r : Sending(r, w.gen)) \/ FlushAndClose(TRUE)
        BY <1>14, <3>2 DEF WriterSend, WriterHangup
      <4> QED BY <1>1, <4>1, ConnKept
    <3> QED BY <3>1, <3>2
  <2> QED BY <2>1, <2>2, CredFrame
<1>16. CASE WriterDial
  <2>1. /\ cmd # <<>> /\ cmd' = Tail(cmd) /\ UNCHANGED ui
        /\ Head(cmd).k = "Dial" /\ FlushAndClose(TRUE)
        /\ scope' = AuthScopeDial(scope, Head(cmd).ep)
        /\ s' = Setup(Head(cmd).gen, Head(cmd).ep, FALSE, TRUE, <<>>)
        /\ s.dials = <<>>
    BY <1>2, <1>16 DEF WriterDial, TakeCommand, Drains
  <2>2. /\ s'.dials = <<>> /\ scope'.ep = scope.ep
        /\ scope'.on => scope.on /\ Head(cmd).ep = scope.ep
    <3>1. scope \in Scopes
      BY DEF TypeInv, TypeOK
    <3> QED BY <2>1, <3>1 DEF Setup, AuthScopeDial, Scopes
  <2>3. \A g \in Gens : conn'[g].reg = conn[g].reg /\ conn'[g].ep = conn[g].ep
    BY <2>1, ConnKept
  <2> QED BY <2>1, <2>2, <2>3, CredCounts
<1>17. CASE WriterFinish \/ WriterEof \/ WriterDone
  <2>1. UNCHANGED <<scope, cmd, ui, s>>
    BY <1>17 DEF WriterFinish, WriterEof, WriterDone
  <2>2. \A g \in Gens : conn'[g].reg = conn[g].reg /\ conn'[g].ep = conn[g].ep
    <3>1. CASE WriterFinish
      BY <3>1, ConnKept DEF WriterFinish
    <3>2. CASE ~WriterFinish
      BY <1>17, <3>2 DEF WriterEof, WriterDone
    <3> QED BY <3>1, <3>2
  <2> QED BY <2>1, <2>2, CredFrame
<1>18. ASSUME NEW c, cmd' = Append(cmd, c), UNCHANGED <<scope, s, conn>>,
              \/ ui'.gen = ui.gen /\ ui'.dialed = ui.dialed
              \/ \E ep \in Endpoints :
                   /\ c = Dial(ui.gen + 1, ep) /\ ui.gen + 1 \in Gens
                   /\ ui'.gen = ui.gen + 1
                   /\ ui'.dialed = [ui.dialed EXCEPT ![ui.gen + 1] = ep]
       PROVE  CredInv'
  <2>1. c \in Commands
    <3>1. cmd' \in Seq(Commands)
      BY DEF TypeInv, TypeOK
    <3>2. Len(cmd') = Len(cmd) + 1 /\ cmd'[Len(cmd) + 1] = c
      BY <1>1, <1>18
    <3> QED BY <1>1, <3>1, <3>2, ElementOfSeq
  <2> QED BY <1>18, <2>1, CredSent
<1>19. ASSUME NEW g \in Gens, PumpSend(g) \/ FailPost(g) \/ ReaderStep(g)
       PROVE  CredInv'
  <2>1. UNCHANGED <<scope, s, ui, conn>>
    BY <1>19 DEF PumpSend, FailPost, ReaderStep, ReaderUp, ReaderRecv,
       ReaderPong, ReaderChunk, ReaderStop
  <2>2. CASE UNCHANGED cmd
    BY <1>3, <2>1, <2>2
  <2>3. CASE ~UNCHANGED cmd
    <3>1. PICK c : cmd' = Append(cmd, c)
      BY <1>19, <2>3 DEF PumpSend, PostCmd, FailPost, ReaderStep, ReaderUp,
         ReaderRecv, ReaderPong, ReaderChunk, ReaderStop
    <3> QED BY <1>18, <2>1, <3>1
  <2> QED BY <2>2, <2>3
<1>20. CASE UiTake \/ UiClose
  BY <1>3, <1>20 DEF UiTake, UiClose, actorVars
<1>21. CASE UiCommand /\ ~UiClose
  <2>1. ui \in Uis
    BY DEF TypeInv, TypeOK
  <2>2. ASSUME NEW n \in 1 .. MaxBatch, UiCont(n)
        PROVE  CredInv'
    <3>1. ui'.gen = ui.gen /\ ui'.dialed = ui.dialed
      BY <2>1, <2>2 DEF UiCont, Uis
    <3> QED BY <1>18, <2>2, <3>1 DEF UiCont, UiSend, actorVars
  <2>3. ASSUME NEW ep \in Endpoints, UiDial(ep)
        PROVE  CredInv'
    <3>1. /\ cmd' = Append(cmd, Dial(ui.gen + 1, ep)) /\ ui.gen + 1 \in Gens
          /\ UNCHANGED <<scope, s, conn>>
      BY <2>3 DEF UiDial, UiSend, actorVars
    <3>2. /\ ui'.gen = ui.gen + 1
          /\ ui'.dialed = [ui.dialed EXCEPT ![ui.gen + 1] = ep]
      BY <2>1, <2>3 DEF UiDial, Uis
    <3> QED BY <1>18, <3>1, <3>2
  <2>4. CASE UiCut \/ UiBegin
    <3>1. ui'.gen = ui.gen /\ ui'.dialed = ui.dialed
      BY <2>1, <2>4 DEF UiCut, UiBegin, Uis
    <3> QED BY <1>18, <2>4, <3>1 DEF UiCut, UiBegin, UiSend, actorVars
  <2> QED BY <1>21, <2>2, <2>3, <2>4 DEF UiCommand
<1>22. CASE UNCHANGED vars
  BY <1>3, <1>22 DEF vars
<1> QED BY <1>4, <1>5, <1>6, <1>7, <1>8, <1>9, <1>10, <1>11, <1>12, <1>13,
        <1>14, <1>16, <1>17, <1>19, <1>20, <1>21, <1>22
        DEF Next, WriterStep, Stopped

LEMMA CredAlways == Spec => [](DialInv /\ CredInv)
<1>1. DialInv /\ CredInv /\ TypeInv /\ TypeInv' /\ [Next]_vars
        => DialInv' /\ CredInv'
  BY DialStep, CredStep
<1> QED BY <1>1, DialInit, CredInit, TypeAlways, PTL DEF Spec

\* The Dials waiting in cmd are newer than the writer's connection and than the
\* setup under way, and newer than one another in their order.
DialsNewer ==
    /\ \A i \in DOMAIN cmd :
        cmd[i].k = "Dial" => w.gen < cmd[i].gen /\ s.gen < cmd[i].gen
    /\ \A i, j \in DOMAIN cmd :
        i < j /\ cmd[i].k = "Dial" /\ cmd[j].k = "Dial"
            => cmd[i].gen < cmd[j].gen

\* A Dial never meets its own or a newer generation in the writer: the guard
\* dial_superseded is only a precaution while the UI numbers its Dials, as the
\* comment above it says.
THEOREM DialsRise == Spec => []DialsNewer
<1>1. TypeInv /\ DialInv => DialsNewer
  BY DEF DialInv, Queued, DialsNewer
<1> QED BY <1>1, CredAlways, TypeAlways, PTL

\* SASL is offered to the launch endpoint only, and to no one once a Dial has
\* left it: also to none of the losers of an admission drain, whatever the
\* number of endpoints, Dials and commands in flight (AuthScope, auth_scope_dial
\* and writer_admit_scope).
THEOREM CredentialSafe == Spec => []CredentialScope
<1>1. TypeInv /\ CredInv => CredentialScope
  BY DEF CredInv, CredentialScope, Elsewhere
<1> QED BY <1>1, CredAlways, TypeAlways, PTL

-----------------------------------------------------------------------------
(* The admission drain *)

\* The commands that change what the UI wants, and what it wants after one.
Steers(c) == c.k \in {"Dial", "Drop", "Hangup"}
Target(c) == IF c.k = "Dial" THEN c.gen ELSE 0

Quiet(q) == \A i \in DOMAIN q : ~Steers(q[i])
Unpumped(q, g) == \A i \in DOMAIN q : q[i] # Pump(g)

\* The last steering command of q says what the UI wants.
LastWanted(q, want) ==
    \A i \in DOMAIN q :
        Steers(q[i]) /\ (\A j \in DOMAIN q : j > i => ~Steers(q[j]))
            => want = Target(q[i])

\* A steering command lies in front of the sentinel of generation g.
Steered(q, g) ==
    \E i \in DOMAIN q :
        Steers(q[i]) /\ \A j \in DOMAIN q : j < i => q[j] # Pump(g)

LEMMA SteerTail ==
    ASSUME NEW q \in Seq(Commands), q # <<>>, NEW n, NEW g
    PROVE  /\ LastWanted(q, n) => LastWanted(Tail(q), n)
           /\ LastWanted(q, n) /\ Steers(Head(q)) /\ Quiet(Tail(q))
                => n = Target(Head(q))
           /\ ~Steers(Head(q)) /\ Quiet(Tail(q)) => Quiet(q)
           /\ Steered(q, g) =>
                \/ Steers(Head(q))
                \/ Head(q) # Pump(g) /\ Steered(Tail(q), g)
           /\ Unpumped(q, g) => Unpumped(Tail(q), g) /\ Head(q) # Pump(g)
<1> DEFINE t == Tail(q)
<1>1. /\ \A i \in DOMAIN t : i \in Nat /\ i + 1 \in DOMAIN q /\ t[i] = q[i + 1]
      /\ \A i \in DOMAIN q :
           /\ i \in Nat /\ i >= 1
           /\ i # 1 => i - 1 \in DOMAIN t /\ t[i - 1] = q[i]
      /\ 1 \in DOMAIN q /\ q[1] = Head(q)
  <2>1. DOMAIN q = 1 .. Len(q)
    OBVIOUS
  <2> QED BY <2>1, TailIndex
<1> HIDE DEF t
<1>2. LastWanted(q, n) => LastWanted(t, n)
  <2> SUFFICES ASSUME LastWanted(q, n), NEW i \in DOMAIN t, Steers(t[i]),
                      \A j \in DOMAIN t : j > i => ~Steers(t[j])
               PROVE  n = Target(t[i])
    BY DEF LastWanted
  <2>1. ASSUME NEW j \in DOMAIN q, j > i + 1
        PROVE  ~Steers(q[j])
    <3>1. j - 1 \in DOMAIN t /\ t[j - 1] = q[j] /\ j - 1 > i
      BY <1>1, <2>1
    <3> QED BY <3>1
  <2> QED BY <1>1, <2>1 DEF LastWanted
<1>3. LastWanted(q, n) /\ Steers(Head(q)) /\ Quiet(t) => n = Target(Head(q))
  <2> SUFFICES ASSUME LastWanted(q, n), Steers(Head(q)), Quiet(t)
               PROVE  n = Target(Head(q))
    OBVIOUS
  <2>1. ASSUME NEW j \in DOMAIN q, j > 1
        PROVE  ~Steers(q[j])
    <3>1. j - 1 \in DOMAIN t /\ t[j - 1] = q[j]
      BY <1>1, <2>1
    <3> QED BY <3>1 DEF Quiet
  <2> QED BY <1>1, <2>1 DEF LastWanted
<1>4. ~Steers(Head(q)) /\ Quiet(t) => Quiet(q)
  <2> SUFFICES ASSUME ~Steers(Head(q)), Quiet(t), NEW i \in DOMAIN q
               PROVE  ~Steers(q[i])
    BY DEF Quiet
  <2> QED BY <1>1 DEF Quiet
<1>5. ASSUME Steered(q, g), ~Steers(Head(q))
      PROVE  Head(q) # Pump(g) /\ Steered(t, g)
  <2>1. PICK i \in DOMAIN q : Steers(q[i]) /\ \A j \in DOMAIN q : j < i => q[j] # Pump(g)
    BY <1>5 DEF Steered
  <2>2. i # 1 /\ i - 1 \in DOMAIN t /\ t[i - 1] = q[i]
    BY <1>1, <1>5, <2>1
  <2>3. Head(q) # Pump(g)
    BY <1>1, <2>1, <2>2
  <2>4. ASSUME NEW j \in DOMAIN t, j < i - 1
        PROVE  t[j] # Pump(g)
    <3>1. j + 1 \in DOMAIN q /\ j + 1 < i /\ t[j] = q[j + 1]
      BY <1>1, <2>4
    <3> QED BY <2>1, <3>1
  <2> QED BY <2>1, <2>2, <2>3, <2>4 DEF Steered
<1>6. Unpumped(q, g) => Unpumped(t, g) /\ Head(q) # Pump(g)
  BY <1>1 DEF Unpumped
<1> QED BY <1>2, <1>3, <1>4, <1>5, <1>6 DEF t

LEMMA SteerAppend ==
    ASSUME NEW q \in Seq(Commands), NEW c \in Commands, NEW n, NEW g
    PROVE  /\ LastWanted(q, n) /\ ~Steers(c) => LastWanted(Append(q, c), n)
           /\ Steers(c) => LastWanted(Append(q, c), Target(c))
           /\ Quiet(Append(q, c)) => Quiet(q) /\ ~Steers(c)
           /\ Steered(q, g) => Steered(Append(q, c), g)
<1> DEFINE a == Append(q, c)
           n1 == Len(q) + 1
<1>1. /\ \A i \in DOMAIN q : i \in DOMAIN a /\ a[i] = q[i] /\ i < n1 /\ i \in Nat
      /\ n1 \in DOMAIN a /\ a[n1] = c
      /\ \A i \in DOMAIN a : i \in DOMAIN q \/ i = n1
      /\ n1 \in Nat
  BY AppendProperties
<1> HIDE DEF a, n1
<1>2. LastWanted(q, n) /\ ~Steers(c) => LastWanted(a, n)
  BY <1>1 DEF LastWanted
<1>3. Steers(c) => LastWanted(a, Target(c))
  <2> SUFFICES ASSUME Steers(c), NEW i \in DOMAIN a,
                      \A j \in DOMAIN a : j > i => ~Steers(a[j])
               PROVE  Target(c) = Target(a[i])
    BY DEF LastWanted
  <2>1. i = n1
    BY <1>1
  <2> QED BY <1>1, <2>1
<1>4. Quiet(a) => Quiet(q) /\ ~Steers(c)
  BY <1>1 DEF Quiet
<1>5. Steered(q, g) => Steered(a, g)
  <2> SUFFICES ASSUME NEW i \in DOMAIN q, Steers(q[i]),
                      \A j \in DOMAIN q : j < i => q[j] # Pump(g)
               PROVE  Steered(a, g)
    BY DEF Steered
  <2>1. ASSUME NEW j \in DOMAIN a, j < i
        PROVE  a[j] # Pump(g)
    BY <1>1, <2>1
  <2> QED BY <1>1, <2>1 DEF Steered
<1> QED BY <1>2, <1>3, <1>4, <1>5 DEF a

\* A generation the writer or the setup has left behind.
Behind(g) == IF pc \in Setting \cup {"deferred"} THEN g < s.gen ELSE g <= w.gen

\* The drain of the setup has met, or will meet before its sentinel, a command
\* that overtakes it.
Overtaken ==
    \/ Cancelled(s) \/ s.dials # <<>>
    \/ /\ pc = "drain"
       /\ Steered(cmd, s.gen) \/ (~cmdOpen /\ Unpumped(cmd, s.gen))

\* With no steering command waiting, a setup works towards what the UI wants.
Aimed ==
    /\ pc \in Setting /\ ~Cancelled(s) /\ Quiet(cmd) => ui.want = KeptFor
    /\ pc = "deferred" /\ ~s.none /\ Quiet(cmd) => ui.want = s.gen
    /\ pc = "deferred" => ~Cancelled(s)

\* What the UI wanted when the transport came up was this setup, or the drain
\* finds out.
Noticed ==
    pc \in {"drain", "decide"} => conn[s.gen].wanted = s.gen \/ Overtaken

\* Sentinels and registrations belong to generations the setup has left
\* behind; the setup's own sentinel exists once the drain has begun.
PumpsBehind ==
    \A g \in Gens :
        PumpComing(g) => Behind(g) \/ (pc \in {"drain", "decide"} /\ g = s.gen)

RegisteredBehind == \A g \in Gens : conn[g].reg # "none" => Behind(g)

WantInv ==
    /\ LastWanted(cmd, ui.want)
    /\ Aimed /\ Noticed /\ PumpsBehind /\ RegisteredBehind
    /\ RegisteredWanted

LEMMA WantInit == Init => WantInv
<1> SUFFICES ASSUME Init PROVE WantInv
  OBVIOUS
<1>1. PICK start \in Starts : InitStart(start)
  BY DEF Init
<1>2. start \in {"boot", "idle", "deferred"}
  BY NetActorAssumption
<1>3. /\ cmd = <<>> /\ \A g \in Gens : pumps[g] = 0 /\ conn[g].reg = "none"
  BY DEF Init, NoConn
<1>4. LastWanted(cmd, ui.want) /\ RegisteredBehind /\ RegisteredWanted
  BY <1>3 DEF LastWanted, RegisteredBehind, RegisteredWanted
<1>5. PumpsBehind
  BY <1>3 DEF PumpsBehind, PumpComing
<1>6. CASE start = "idle"
  <2>1. pc = "loop"
    BY <1>1, <1>6 DEF InitStart
  <2>2. Aimed /\ Noticed
    BY <2>1 DEF Aimed, Noticed, Setting
  <2> QED BY <1>4, <1>5, <2>2 DEF WantInv
<1>7. CASE start # "idle"
  <2>1. /\ pc \in {"dial", "deferred"} /\ s.gen = 1 /\ ui.want = 1 /\ s.dials = <<>>
        /\ ~s.closed /\ ~s.dropped
    BY <1>1, <1>2, <1>7 DEF InitStart, InitUi, Setup
  <2>2. Aimed /\ Noticed
    BY <2>1 DEF Aimed, Noticed, KeptFor, Cancelled
  <2> QED BY <1>4, <1>5, <2>2 DEF WantInv
<1> QED BY <1>6, <1>7

\* Where a pump comes from when nothing new is spawned.
LEMMA PumpFrom ==
    ASSUME cmd \in Seq(Commands), NEW g \in Gens, PumpComing(g)',
           pumps'[g] > 0 => pumps[g] > 0,
           \/ cmd' = cmd
           \/ cmd # <<>> /\ cmd' = Tail(cmd)
           \/ \E c \in Commands : cmd' = Append(cmd, c) /\ c # Pump(g)
    PROVE  PumpComing(g)
<1>0. Pump(g)' = Pump(g)
  BY DEF Pump
<1>1. CASE pumps'[g] > 0
  BY <1>1 DEF PumpComing
<1>2. CASE ~(pumps'[g] > 0)
  <2>1. PICK i \in DOMAIN cmd' : cmd'[i] = Pump(g)
    BY <1>0, <1>2 DEF PumpComing
  <2>2. \E j \in DOMAIN cmd : cmd[j] = Pump(g)
    <3>1. CASE cmd' = cmd
      BY <2>1, <3>1
    <3>2. CASE cmd # <<>> /\ cmd' = Tail(cmd)
      BY <2>1, <3>2, TailIndex
    <3>3. CASE \E c \in Commands : cmd' = Append(cmd, c) /\ c # Pump(g)
      BY <2>1, <3>3, AppendIndex
    <3> QED BY <3>1, <3>2, <3>3
  <2> QED BY <2>2 DEF PumpComing
<1> QED BY <1>1, <1>2

\* What a step outside a setup does: the writer keeps its generation, and only
\* that generation is pumped.
LEMMA WantOutside ==
    ASSUME TypeInv, WantInv,
           pc \notin Setting \cup {"deferred"}, pc' \notin Setting \cup {"deferred"},
           w'.gen = w.gen, ui'.want = ui.want,
           cmd' = cmd \/ (cmd # <<>> /\ cmd' = Tail(cmd)),
           \A g \in Gens : g # w.gen => pumps'[g] = pumps[g],
           \A g \in Gens : conn'[g].reg = conn[g].reg /\ conn'[g].wanted = conn[g].wanted
    PROVE  WantInv'
<1>1. cmd \in Seq(Commands) /\ w.gen \in Nat
  BY StateTyped
<1>2. LastWanted(cmd', ui'.want)
  BY <1>1, SteerTail DEF WantInv
<1>3. Aimed' /\ Noticed'
  BY DEF Aimed, Noticed, Setting
<1>4. PumpsBehind'
  <2> SUFFICES ASSUME NEW g \in Gens, PumpComing(g)'
               PROVE  g <= w.gen
    BY DEF PumpsBehind, Behind
  <2>1. CASE g = w.gen
    BY <1>1, <2>1
  <2>2. CASE g # w.gen
    <3>1. PumpComing(g)
      BY <1>1, <2>2, PumpFrom
    <3> QED BY <3>1 DEF WantInv, PumpsBehind, Behind, Setting
  <2> QED BY <2>1, <2>2
<1>5. RegisteredBehind' /\ RegisteredWanted'
  BY DEF WantInv, RegisteredBehind, RegisteredWanted, Behind
<1> QED BY <1>2, <1>3, <1>4, <1>5 DEF WantInv, LastWanted

\* The end of a setup: its generation becomes the writer's.
LEMMA WantSettles ==
    ASSUME TypeInv, WantInv,
           pc \in Setting \cup {"deferred"}, pc' \notin Setting \cup {"deferred"},
           w'.gen = s.gen, ui'.want = ui.want,
           cmd' = cmd \/ (cmd # <<>> /\ cmd' = Tail(cmd)),
           \A g \in Gens : pumps'[g] = pumps[g],
           \A g \in Gens :
             /\ conn'[g].reg = conn[g].reg \/ (g = s.gen /\ conn[g].wanted = g)
             /\ conn'[g].wanted = conn[g].wanted
    PROVE  WantInv'
<1>1. cmd \in Seq(Commands) /\ s.gen \in Nat
  BY StateTyped
<1>2. LastWanted(cmd', ui'.want)
  BY <1>1, SteerTail DEF WantInv
<1>3. Aimed' /\ Noticed'
  BY DEF Aimed, Noticed, Setting
<1>4. \A g \in Gens : Behind(g) \/ g = s.gen => Behind(g)'
  BY <1>1, GensTyped DEF Behind
<1>5. PumpsBehind'
  <2> SUFFICES ASSUME NEW g \in Gens, PumpComing(g)'
               PROVE  Behind(g)'
    BY DEF PumpsBehind
  <2>1. PumpComing(g)
    BY <1>1, PumpFrom
  <2> QED BY <1>4, <2>1 DEF WantInv, PumpsBehind
<1>6. RegisteredBehind' /\ RegisteredWanted'
  BY <1>4 DEF WantInv, RegisteredBehind, RegisteredWanted
<1> QED BY <1>2, <1>3, <1>5, <1>6 DEF WantInv, LastWanted

\* A setup begins for a newer generation, the one the UI wants unless a command
\* that waits says otherwise.
LEMMA WantBegins ==
    ASSUME TypeInv, WantInv,
           pc' \in {"dial", "deferred"},
           s'.dials = <<>>, ~s'.closed, ~s'.dropped,
           s'.gen \in Gens,
           \A g \in Gens :
             Behind(g) \/ (pc \in {"drain", "decide"} /\ g = s.gen) => g < s'.gen,
           Quiet(cmd') /\ (pc' = "deferred" => ~s'.none) => ui'.want = s'.gen,
           ui'.want = ui.want,
           cmd' = cmd \/ (cmd # <<>> /\ cmd' = Tail(cmd)),
           \A g \in Gens : pumps'[g] = pumps[g],
           \A g \in Gens : conn'[g].reg = conn[g].reg /\ conn'[g].wanted = conn[g].wanted
    PROVE  WantInv'
<1>1. cmd \in Seq(Commands)
  BY StateTyped
<1>2. LastWanted(cmd', ui'.want)
  BY <1>1, SteerTail DEF WantInv
<1>3. Aimed' /\ Noticed'
  BY DEF Aimed, Noticed, Setting, Cancelled, KeptFor
<1>4. \A g \in Gens :
        Behind(g) \/ (pc \in {"drain", "decide"} /\ g = s.gen) => Behind(g)'
  BY DEF Behind, Setting
<1>5. PumpsBehind'
  <2> SUFFICES ASSUME NEW g \in Gens, PumpComing(g)'
               PROVE  Behind(g)'
    BY DEF PumpsBehind
  <2>1. PumpComing(g)
    BY <1>1, PumpFrom
  <2> QED BY <1>4, <2>1 DEF WantInv, PumpsBehind
<1>6. RegisteredBehind' /\ RegisteredWanted'
  BY <1>4 DEF WantInv, RegisteredBehind, RegisteredWanted
<1> QED BY <1>2, <1>3, <1>5, <1>6 DEF WantInv, LastWanted

\* A step within a setup that takes no command.
LEMMA WantWithin ==
    ASSUME TypeInv, WantInv,
           pc \in Setting, pc' \in Setting,
           s'.gen = s.gen, s'.dials = s.dials, s'.dropped = s.dropped,
           s.closed => s'.closed,
           ui'.want = ui.want, cmd' = cmd, cmdOpen' = cmdOpen,
           \A g \in Gens : g # s.gen \/ pc' # "drain" => pumps'[g] = pumps[g],
           \A g \in Gens : conn'[g].reg # "none" =>
              conn'[g].reg = conn[g].reg /\ (g # s.gen => conn'[g].wanted = conn[g].wanted),
           pc \in {"drain", "decide"} => pc' = "decide" /\ s'.closed,
           pc' = "decide" => pc = "drain",
           pc' = "drain" =>
             conn'[s.gen].wanted = IF cmdOpen THEN ui.want ELSE 0
    PROVE  WantInv'
<1>1. cmd \in Seq(Commands) /\ s.gen \in Gens /\ s.gen \in Nat
  BY StateTyped
<1>2. LastWanted(cmd', ui'.want)
  BY DEF WantInv
<1>3. Aimed'
  BY DEF WantInv, Aimed, Setting, Cancelled, KeptFor
<1>4. Noticed'
  <2>1. CASE pc' = "decide"
    BY <2>1 DEF Noticed, Overtaken, Cancelled
  <2>2. CASE pc' = "drain"
    <3>1. pc \notin {"drain", "decide"}
      BY <2>2
    <3>2. Unpumped(cmd, s.gen)
      <4>1. ~PumpComing(s.gen)
        BY <1>1, <3>1 DEF WantInv, PumpsBehind, Behind
      <4> QED BY <4>1 DEF PumpComing, Unpumped
    <3>3. CASE ~cmdOpen
      BY <2>2, <3>2, <3>3 DEF Noticed, Overtaken, Unpumped, Pump
    <3>4. CASE cmdOpen /\ Quiet(cmd)
      BY <2>2, <3>4 DEF WantInv, Aimed, Noticed, Overtaken, Cancelled, KeptFor
    <3>5. CASE cmdOpen /\ ~Quiet(cmd)
      <4>1. Steered(cmd, s.gen)
        BY <3>2, <3>5 DEF Quiet, Steered, Unpumped
      <4> QED BY <2>2, <4>1 DEF Noticed, Overtaken, Steered, Pump
    <3> QED BY <3>3, <3>4, <3>5
  <2> QED BY <2>1, <2>2 DEF Noticed
<1>5. \A g \in Gens : Behind(g)' = Behind(g)
  BY DEF Behind, Setting
<1>6. PumpsBehind'
  <2> SUFFICES ASSUME NEW g \in Gens, PumpComing(g)'
               PROVE  Behind(g)' \/ (pc' \in {"drain", "decide"} /\ g = s.gen)
    BY DEF PumpsBehind
  <2>1. CASE g = s.gen /\ pc' = "drain"
    BY <2>1
  <2>2. CASE ~(g = s.gen /\ pc' = "drain")
    <3>1. PumpComing(g)
      BY <1>1, <2>2, PumpFrom
    <3> QED BY <1>5, <2>2, <3>1 DEF WantInv, PumpsBehind
  <2> QED BY <2>1, <2>2
<1>7. RegisteredBehind'
  BY <1>5 DEF WantInv, RegisteredBehind
<1>8. RegisteredWanted'
  <2> SUFFICES ASSUME NEW g \in Gens, conn'[g].reg # "none"
               PROVE  conn'[g].wanted = g
    BY DEF RegisteredWanted
  <2>1. conn[g].reg # "none" /\ Behind(g)
    BY DEF WantInv, RegisteredBehind
  <2>2. g # s.gen
    BY <1>1, <2>1 DEF Behind
  <2> QED BY <2>1, <2>2 DEF WantInv, RegisteredWanted
<1> QED BY <1>2, <1>3, <1>4, <1>6, <1>7, <1>8 DEF WantInv, LastWanted

\* What a peek or a drain makes of one command.
LEMMA AdmitFlags ==
    ASSUME NEW st \in Setups, NEW c \in Commands
    PROVE  /\ Admit(st, c).closed = st.closed
           /\ c.k \in {"Drop", "Hangup"} => Admit(st, c).dropped
           /\ ~Steers(c) =>
                Admit(st, c).dropped = st.dropped /\ Admit(st, c).dials = st.dials
           /\ c.k = "Dial" =>
                /\ Admit(st, c).dials # <<>>
                /\ Admit(st, c).dials[Len(Admit(st, c).dials)].gen = c.gen
<1>1. CASE c.k = "Dial"
  <2> DEFINE d == [gen |-> c.gen, ep |-> c.ep]
  <2>1. /\ Admit(st, c).dials = Append(st.dials, d)
        /\ Admit(st, c).closed = st.closed
    BY <1>1, AdmitTyped DEF Admit, Setups
  <2>2. d \in [gen : Gens, ep : Endpoints] /\ d.gen = c.gen
    BY <1>1, CommandFields
  <2>3. st.dials \in Seq([gen : Gens, ep : Endpoints])
    BY DEF Setups
  <2> HIDE DEF d
  <2>4. /\ Append(st.dials, d) # <<>>
        /\ Append(st.dials, d)[Len(Append(st.dials, d))] = d
    BY <2>2, <2>3, AppendProperties
  <2> QED BY <1>1, <2>1, <2>2, <2>4 DEF Steers
<1>2. CASE c.k \in {"Drop", "Hangup"}
  BY <1>2 DEF Admit, Setups, Steers
<1>3. CASE c.k \in {"Cont", "Pong"}
  BY <1>3 DEF Admit, Setups, Steers
<1>4. CASE c.k \in {"Pump", "Begin"}
  BY <1>4 DEF Admit, Steers
<1> QED BY <1>1, <1>2, <1>3, <1>4, CommandFields

LEMMA WantAdmitted ==
    ASSUME TypeInv, DialInv, WantInv, PeekCommand \/ DrainCommand
    PROVE  WantInv'
<1> DEFINE c == Head(cmd)
<1>1. /\ cmd \in Seq(Commands) /\ cmd # <<>> /\ cmd' = Tail(cmd) /\ c \in Commands
      /\ s \in Setups /\ s.gen \in Gens /\ s.gen \in Nat
      /\ UNCHANGED <<w, ui, conn, cmdOpen, pumps>>
  BY StateTyped, HeadTailProperties DEF PeekCommand, DrainCommand, TypeInv, TypeOK
<1>2. /\ PeekCommand => pc = "peek" /\ pc' \in {"peek", "raw"}
      /\ DrainCommand =>
           /\ pc = "drain" /\ pc' \in {"drain", "decide"}
           /\ pc' = "decide" => Sentinel(s, c) \/ s'.closed
  <2>1. Admit(s, c) \in Setups
    BY <1>1, AdmitTyped
  <2>2. DrainCommand /\ pc' = "decide" => Sentinel(s, c) \/ s'.closed
    BY <2>1 DEF DrainCommand, Setups
  <2> QED BY <2>2 DEF PeekCommand, DrainCommand
<1>3. /\ s'.gen = s.gen /\ s'.dials = Admit(s, c).dials
      /\ s'.dropped = Admit(s, c).dropped
      /\ s.closed => s'.closed
  <2>1. /\ Admit(s, c) \in Setups /\ Admit(s, c).gen = s.gen
        /\ Admit(s, c).closed = s.closed
    BY <1>1, AdmitTyped, AdmitFlags
  <2> QED BY <2>1 DEF PeekCommand, DrainCommand, Setups
<1>4. /\ c.k \in {"Drop", "Hangup"} => s'.dropped
      /\ ~Steers(c) => s'.dropped = s.dropped /\ s'.dials = s.dials
      /\ c.k = "Dial" => s'.dials # <<>> /\ s'.dials[Len(s'.dials)].gen = c.gen
  BY <1>1, <1>3, AdmitFlags
<1>5. /\ LastWanted(cmd', ui.want)
      /\ Steers(c) /\ Quiet(cmd') => ui.want = Target(c)
      /\ ~Steers(c) /\ Quiet(cmd') => Quiet(cmd)
      /\ Steered(cmd, s.gen) => Steers(c) \/ (c # Pump(s.gen) /\ Steered(cmd', s.gen))
      /\ Unpumped(cmd, s.gen) => Unpumped(cmd', s.gen) /\ c # Pump(s.gen)
  BY <1>1, SteerTail DEF WantInv
<1> HIDE DEF c
<1>6. pc \in Setting /\ pc' \in Setting
  BY <1>2 DEF Setting
<1>7. Aimed'
  <2> SUFFICES ASSUME ~Cancelled(s'), Quiet(cmd')
               PROVE  ui.want = KeptFor'
    BY <1>1, <1>6 DEF Aimed, Setting, Cancelled
  <2>1. CASE c.k = "Dial"
    BY <1>4, <1>5, <2>1 DEF KeptFor, Steers, Target
  <2>2. CASE c.k \in {"Drop", "Hangup"}
    BY <1>4, <2>2 DEF Cancelled
  <2>3. CASE ~Steers(c)
    <3>1. ~Cancelled(s) /\ Quiet(cmd)
      BY <1>3, <1>4, <1>5, <2>3 DEF Cancelled
    <3>2. ui.want = KeptFor
      BY <1>6, <3>1 DEF WantInv, Aimed
    <3> QED BY <1>3, <1>4, <2>3, <3>2 DEF KeptFor
  <2> QED BY <2>1, <2>2, <2>3 DEF Steers
<1>8. Noticed'
  <2> SUFFICES ASSUME pc' \in {"drain", "decide"}, conn[s.gen].wanted # s.gen
               PROVE  Overtaken'
    BY <1>1, <1>3 DEF Noticed
  <2>1. DrainCommand /\ pc = "drain"
    BY <1>2
  <2>2. Overtaken
    BY <2>1 DEF WantInv, Noticed
  <2>3. CASE Steers(c)
    BY <1>4, <2>3 DEF Steers, Overtaken, Cancelled
  <2>4. CASE ~Steers(c) /\ (Cancelled(s) \/ s.dials # <<>>)
    BY <1>3, <1>4, <2>4 DEF Overtaken, Cancelled
  <2>5. CASE ~Steers(c) /\ ~(Cancelled(s) \/ s.dials # <<>>)
    <3>1. /\ c # Pump(s.gen)
          /\ Steered(cmd', s.gen) \/ (~cmdOpen /\ Unpumped(cmd', s.gen))
      BY <1>5, <2>2, <2>5 DEF Overtaken
    <3>2. ~Sentinel(s, c)
      BY <1>1, <3>1, CommandFields DEF Sentinel, c
    <3>3. CASE pc' = "decide"
      BY <1>2, <2>1, <3>2, <3>3 DEF Overtaken, Cancelled
    <3>4. CASE pc' = "drain"
      BY <1>1, <1>3, <3>1, <3>4 DEF Overtaken, Steered, Unpumped, Pump
    <3> QED BY <3>3, <3>4
  <2> QED BY <2>3, <2>4, <2>5
<1>9. \A g \in Gens : Behind(g)' = Behind(g)
  BY <1>3, <1>6 DEF Behind
<1>10. PumpsBehind'
  <2> SUFFICES ASSUME NEW g \in Gens, PumpComing(g)'
               PROVE  Behind(g)' \/ (pc' \in {"drain", "decide"} /\ g = s.gen)
    BY <1>3 DEF PumpsBehind
  <2>1. PumpComing(g)
    BY <1>1, PumpFrom
  <2> QED BY <1>2, <1>9, <2>1 DEF WantInv, PumpsBehind
<1>11. RegisteredBehind' /\ RegisteredWanted'
  BY <1>1, <1>9 DEF WantInv, RegisteredBehind, RegisteredWanted
<1> QED BY <1>1, <1>5, <1>7, <1>8, <1>10, <1>11 DEF WantInv, LastWanted

\* The other tasks and the UI.
LEMMA WantSent ==
    ASSUME TypeInv, WantInv, NEW c \in Commands,
           cmd' = Append(cmd, c), UNCHANGED <<pc, w, s, conn, cmdOpen>>,
           cmdOpen,
           ui'.want = IF Steers(c) THEN Target(c) ELSE ui.want,
           \A g \in Gens : pumps'[g] > 0 \/ c = Pump(g) => pumps[g] > 0
    PROVE  WantInv'
<1>1. cmd \in Seq(Commands) /\ s.gen \in Gens
  BY StateTyped
<1>2. /\ LastWanted(cmd', ui'.want)
      /\ Quiet(cmd') => Quiet(cmd) /\ ~Steers(c)
      /\ Steered(cmd, s.gen) => Steered(cmd', s.gen)
  BY <1>1, SteerAppend DEF WantInv
<1>3. Aimed'
  BY <1>2 DEF WantInv, Aimed, KeptFor, Quiet
<1>4. Noticed'
  BY <1>2 DEF WantInv, Noticed, Overtaken, Steered, Pump
<1>5. \A g \in Gens : Behind(g)' = Behind(g)
  BY DEF Behind
<1>6. PumpsBehind'
  <2> SUFFICES ASSUME NEW g \in Gens, PumpComing(g)'
               PROVE  PumpComing(g)
    BY <1>5 DEF WantInv, PumpsBehind
  <2>1. CASE c = Pump(g)
    BY <2>1 DEF PumpComing
  <2>2. CASE c # Pump(g)
    BY <1>1, <2>2, PumpFrom
  <2> QED BY <2>1, <2>2
<1>7. RegisteredBehind' /\ RegisteredWanted'
  BY <1>5 DEF WantInv, RegisteredBehind, RegisteredWanted
<1> QED BY <1>2, <1>3, <1>4, <1>6, <1>7 DEF WantInv, LastWanted

\* Nothing is sent; the channel may be closed, and a closed channel loses what
\* a task sends.
LEMMA WantUnsent ==
    ASSUME TypeInv, WantInv,
           UNCHANGED <<pc, w, s, conn, cmd>>, ui'.want = ui.want,
           cmdOpen' => cmdOpen,
           \A g \in Gens : pumps'[g] > 0 => pumps[g] > 0
    PROVE  WantInv'
<1>1. cmd \in Seq(Commands)
  BY StateTyped
<1>2. Aimed' /\ Noticed'
  BY DEF WantInv, Aimed, KeptFor, Quiet, Noticed, Overtaken, Steered, Unpumped, Pump
<1>3. \A g \in Gens : Behind(g)' = Behind(g)
  BY DEF Behind
<1>4. PumpsBehind'
  BY <1>1, <1>3, PumpFrom DEF WantInv, PumpsBehind
<1>5. RegisteredBehind' /\ RegisteredWanted'
  BY <1>3 DEF WantInv, RegisteredBehind, RegisteredWanted
<1> QED BY <1>2, <1>4, <1>5 DEF WantInv, LastWanted

\* No send, flush or close changes what the UI wanted.
LEMMA WantedKept ==
    ASSUME TypeInv,
           \/ \E g \in Gens : \E r : Sending(r, g)
           \/ \E report \in BOOLEAN : FlushAndClose(report)
           \/ \E how : CloseConn(how)
    PROVE  \A g \in Gens : conn'[g].wanted = conn[g].wanted
<1>1. conn \in [Gens -> Conns] /\ \A g \in Gens : conn[g] \in Conns
  BY DEF TypeInv, TypeOK
<1>2. CASE \E g \in Gens : \E r : Sending(r, g)
  <2>1. PICK g \in Gens : \E r : Sending(r, g)
    BY <1>2
  <2>2. PICK r :
            conn' = [conn EXCEPT ![g].wire = @ \o r.wire,
                                 ![g].st = IF r.ok THEN @ ELSE "failed"]
    BY <2>1 DEF Sending
  <2> QED BY <1>1, <2>2 DEF Conns
<1>3. CASE \E report \in BOOLEAN : FlushAndClose(report)
  <2>1. CASE UNCHANGED conn
    BY <2>1
  <2>2. CASE ~UNCHANGED conn
    <3>1. PICK g, wire, extra, st :
              conn' = [conn EXCEPT ![g].wire = wire, ![g].extra = extra, ![g].st = st]
      BY <1>3, <2>2 DEF FlushAndClose
    <3> QED BY <1>1, <3>1 DEF Conns
  <2> QED BY <2>1, <2>2
<1>4. CASE \E how : CloseConn(how)
  BY <1>1, <1>4 DEF CloseConn, Conns
<1> QED BY <1>2, <1>3, <1>4

LEMMA WantStep ==
    TypeInv /\ TypeInv' /\ DialInv /\ WantInv /\ [Next]_vars => WantInv'
<1> SUFFICES ASSUME TypeInv, TypeInv', DialInv, WantInv, [Next]_vars
             PROVE  WantInv'
  OBVIOUS
<1>1. /\ s \in Setups /\ w \in Writers /\ s.gen \in Gens /\ w.gen \in Gens
      /\ conn \in [Gens -> Conns] /\ cmd \in Seq(Commands) /\ pumps \in [Gens -> Nat]
      /\ \A g \in Gens : conn[g] \in Conns
      /\ \A g \in Gens : g \in Nat
  BY StateTyped, GensTyped DEF TypeInv, TypeOK
<1>2. ASSUME cmd # <<>>, cmd' = Tail(cmd)
      PROVE  /\ Head(cmd) \in Commands
             /\ Steers(Head(cmd)) /\ Quiet(cmd') => ui.want = Target(Head(cmd))
             /\ ~Steers(Head(cmd)) /\ Quiet(cmd') => Quiet(cmd)
  BY <1>1, <1>2, SteerTail, HeadTailProperties DEF WantInv
<1>3. CASE DeferredCommand
  <2>1. /\ cmd # <<>> /\ cmd' = Tail(cmd) /\ UNCHANGED <<ui, conn, pumps>>
        /\ pc = "deferred" /\ s.dials = <<>> /\ Head(cmd) \in Commands
    BY <1>1, <1>3, HeadTailProperties DEF DeferredCommand, DialInv, Drains
  <2>2. ~s.closed /\ ~s.dropped
    BY <2>1 DEF WantInv, Aimed, Cancelled
  <2>3. \A g \in Gens :
          Behind(g) \/ (pc \in {"drain", "decide"} /\ g = s.gen) => g < s.gen
    BY <2>1 DEF Behind
  <2>4. CASE Head(cmd).k = "Dial"
    <3>1. /\ s' = Setup(Head(cmd).gen, Head(cmd).ep, FALSE, FALSE, <<>>)
          /\ pc' = "deferred" /\ Head(cmd).gen \in Gens
      BY <1>3, <2>1, <2>4, CommandFields DEF DeferredCommand
    <3>2. /\ s'.gen = Head(cmd).gen /\ s'.dials = <<>> /\ ~s'.closed /\ ~s'.dropped
      BY <3>1 DEF Setup
    <3>3. s.gen < Head(cmd).gen
      BY <1>1, <2>1, <2>4, QueuedTail DEF DialInv
    <3>4. Quiet(cmd') => ui.want = s'.gen
      BY <1>2, <2>1, <2>4, <3>2 DEF Steers, Target
    <3>5. \A g \in Gens :
            Behind(g) \/ (pc \in {"drain", "decide"} /\ g = s.gen) => g < s'.gen
      <4>1. s.gen \in Nat /\ Head(cmd).gen \in Nat /\ \A g \in Gens : g \in Nat
        BY <1>1, <3>1 DEF Setups
      <4>2. \A g \in Gens : g < s.gen => g < Head(cmd).gen
        BY <3>3, <4>1
      <4> QED BY <2>3, <3>2, <4>2
    <3> QED BY <2>1, <3>1, <3>2, <3>4, <3>5, WantBegins
  <2>5. CASE Head(cmd).k \in {"Drop", "Hangup"}
    <3>1. s' = [s EXCEPT !.none = TRUE] /\ pc' = "deferred"
      BY <1>3, <2>1, <2>5 DEF DeferredCommand
    <3>2. /\ s'.gen = s.gen /\ s'.dials = <<>> /\ ~s'.closed /\ ~s'.dropped /\ s'.none
      BY <1>1, <2>1, <2>2, <3>1 DEF Setups
    <3> QED BY <1>1, <2>1, <2>3, <3>1, <3>2, WantBegins
  <2>6. CASE ~Steers(Head(cmd))
    <3>1. Quiet(cmd') => Quiet(cmd)
      BY <1>2, <2>1, <2>6
    <3>2. CASE pc' = "loop"
      <4>1. w'.gen = s.gen
        BY <1>1, <1>3, <2>1, <2>6, <3>2 DEF DeferredCommand, Writers, Steers
      <4> QED BY <2>1, <3>2, <4>1, WantSettles DEF Setting
    <3>3. CASE pc' # "loop"
      <4>1. /\ s'.gen = s.gen /\ s'.dials = s.dials /\ s'.closed = s.closed
            /\ s'.dropped = s.dropped /\ s'.none = s.none
            /\ pc' \in {"deferred", "dial"}
            /\ pc' = "dial" => ~s.none
        BY <1>1, <1>3, <2>1, <2>6, <3>3 DEF DeferredCommand, Setups, Steers
      <4>2. Quiet(cmd') /\ (pc' = "deferred" => ~s'.none) => ui.want = s'.gen
        BY <2>1, <3>1, <4>1 DEF WantInv, Aimed
      <4> QED BY <1>1, <2>1, <2>2, <2>3, <4>1, <4>2, WantBegins
    <3> QED BY <3>2, <3>3
  <2> QED BY <2>4, <2>5, <2>6 DEF Steers
<1>4. CASE DeferredEnded
  <2>1. /\ pc = "deferred" /\ pc' = "eof" /\ UNCHANGED <<cmd, ui, conn, pumps>>
        /\ w'.gen = s.gen
    BY <1>1, <1>4 DEF DeferredEnded, Writers
  <2> QED BY <2>1, WantSettles DEF Setting
<1>5. CASE DialFailed \/ SetupCancel \/ UpgradeFailed
  <2>1. LeaveIdle /\ UNCHANGED <<cmd, ui>> /\ pc \in Setting
    BY <1>5 DEF DialFailed, SetupCancel, UpgradeFailed, Setting
  <2>2. w'.gen = s.gen /\ pc' = "loop" /\ UNCHANGED pumps
    BY <2>1 DEF LeaveIdle, Socketless, Adopted
  <2>3. \A g \in Gens : conn'[g].reg = conn[g].reg /\ conn'[g].wanted = conn[g].wanted
    <3>1. CASE DialFailed
      BY <3>1 DEF DialFailed
    <3>2. CASE ~DialFailed
      <4>1. CloseConn("abandoned")
        BY <1>5, <3>2 DEF SetupCancel, UpgradeFailed
      <4> QED BY <4>1, ConnKept, WantedKept
    <3> QED BY <3>1, <3>2
  <2> QED BY <2>1, <2>2, <2>3, WantSettles DEF Setting
<1>6. CASE RegisterFailed \/ Register
  <2>1. /\ pc = "decide" /\ UNCHANGED <<cmd, ui, pumps>> /\ w'.gen = s.gen
        /\ pc' \in {"loop", "replay"}
    BY <1>6 DEF RegisterFailed, Register, LeaveIdle, Socketless, Adopted
  <2>2. conn[s.gen].wanted = s.gen
    <3>1. ~Overtaken
      BY <1>6, <2>1 DEF RegisterFailed, Register, Superseded, Overtaken
    <3> QED BY <2>1, <3>1 DEF WantInv, Noticed
  <2>3. \A g \in Gens :
          /\ conn'[g].reg = conn[g].reg \/ (g = s.gen /\ conn[g].wanted = g)
          /\ conn'[g].wanted = conn[g].wanted
    <3>1. PICK st, a : conn' = [conn EXCEPT ![s.gen].st = st, ![s.gen].reg = a]
      BY <1>6 DEF RegisterFailed, Register
    <3> QED BY <1>1, <2>2, <3>1 DEF Conns
  <2> QED BY <2>1, <2>3, WantSettles DEF Setting
<1>7. CASE DialConnected
  <2>1. /\ UNCHANGED <<w, cmd, cmdOpen, ui, pumps>> /\ pc = "dial" /\ pc' = "peek"
        /\ s' = [s EXCEPT !.fuel = PeekCap]
        /\ conn' = [conn EXCEPT ![s.gen] = [NoConn EXCEPT !.st = "raw", !.ep = s.ep]]
    BY <1>7 DEF DialConnected
  <2>2. /\ s'.gen = s.gen /\ s'.dials = s.dials /\ s'.dropped = s.dropped
        /\ s'.closed = s.closed
    BY <1>1, <2>1 DEF Setups
  <2>3. ASSUME NEW g \in Gens, conn'[g].reg # "none"
        PROVE  conn'[g].reg = conn[g].reg /\ conn'[g].wanted = conn[g].wanted
    BY <1>1, <2>1, <2>3 DEF NoConn
  <2> QED BY <2>1, <2>2, <2>3, WantWithin DEF Setting
<1>8. CASE PeekEnd \/ SetupUpgrade \/ DrainEnded
  <2>1. /\ UNCHANGED <<w, cmd, cmdOpen, ui, pumps, conn>>
        /\ \/ pc = "peek" /\ pc' = "raw"
           \/ pc = "raw" /\ pc' = "upgrade"
           \/ pc = "drain" /\ pc' = "decide" /\ s'.closed
    BY <1>1, <1>8 DEF PeekEnd, SetupUpgrade, DrainEnded, Setups
  <2>2. /\ s'.gen = s.gen /\ s'.dials = s.dials /\ s'.dropped = s.dropped
        /\ s.closed => s'.closed
    BY <1>1, <1>8 DEF PeekEnd, SetupUpgrade, DrainEnded, Setups
  <2> QED BY <2>1, <2>2, WantWithin DEF Setting
<1>9. CASE UpgradeDone
  <2>1. /\ UNCHANGED <<w, cmd, cmdOpen, ui>> /\ pc = "upgrade" /\ pc' = "drain"
        /\ s' = [s EXCEPT !.fuel = DrainCap]
        /\ pumps' = [pumps EXCEPT ![s.gen] = @ + 1]
        /\ conn' = [conn EXCEPT ![s.gen].st = "up",
                                ![s.gen].wanted = IF cmdOpen THEN ui.want ELSE 0]
    BY <1>9 DEF UpgradeDone
  <2>2. /\ s'.gen = s.gen /\ s'.dials = s.dials /\ s'.dropped = s.dropped
        /\ s'.closed = s.closed
    BY <1>1, <2>1 DEF Setups
  <2>3. /\ conn'[s.gen].wanted = IF cmdOpen THEN ui.want ELSE 0
        /\ \A g \in Gens : conn'[g].reg = conn[g].reg
        /\ \A g \in Gens : g # s.gen => conn'[g].wanted = conn[g].wanted
    BY <1>1, <2>1 DEF Conns
  <2>4. \A g \in Gens : g # s.gen => pumps'[g] = pumps[g]
    BY <1>1, <2>1
  <2> QED BY <2>1, <2>2, <2>3, <2>4, WantWithin DEF Setting
<1>10. CASE PeekCommand \/ DrainCommand
  BY <1>10, WantAdmitted
<1>11. CASE SetupRetry
  <2> DEFINE d == s.dials[Len(s.dials)]
  <2>1. Len(s.dials) \in DOMAIN s.dials
    <3>1. s.dials # <<>> /\ s.dials \in Seq([gen : Gens, ep : Endpoints])
      BY <1>11, StateTyped DEF SetupRetry, Superseded
    <3> QED BY <3>1, EmptySeq
  <2>2. d \in [gen : Gens, ep : Endpoints] /\ s.gen < d.gen
    BY <2>1, StateTyped DEF DialInv
  <2>3. /\ s' = Setup(d.gen, d.ep, s.live, s.redial, s.kept)
        /\ pc' = "dial" /\ pc \in {"raw", "decide"} /\ UNCHANGED <<w, cmd, ui, pumps>>
        /\ ~Cancelled(s) /\ s.dials # <<>> /\ CloseConn("abandoned")
    BY <1>11 DEF SetupRetry, Superseded
  <2>4. Quiet(cmd) => ui.want = d.gen
    BY <2>3 DEF WantInv, Aimed, KeptFor, Setting
  <2> HIDE DEF d
  <2>5. s'.gen = d.gen /\ s'.dials = <<>> /\ ~s'.closed /\ ~s'.dropped
    BY <2>3 DEF Setup
  <2>6. \A g \in Gens :
          Behind(g) \/ (pc \in {"drain", "decide"} /\ g = s.gen) => g < s'.gen
    BY <1>1, <2>2, <2>3, <2>5 DEF Behind, Setting
  <2>7. \A g \in Gens : conn'[g].reg = conn[g].reg /\ conn'[g].wanted = conn[g].wanted
    BY <2>3, ConnKept, WantedKept
  <2> QED BY <2>2, <2>3, <2>4, <2>5, <2>6, <2>7, WantBegins
<1>12. CASE Replay \/ ArmBoot \/ ArmRedial
  <2>1. UNCHANGED <<cmd, ui>> /\ pc = "replay" /\ pc' \in {"replay", "loop"}
    BY <1>12 DEF Replay, ArmBoot, ArmRedial
  <2>2. CASE ArmBoot
    BY <2>1, <2>2, WantOutside DEF ArmBoot, Setting
  <2>3. CASE ~ArmBoot
    <3>1. PICK r : Sending(r, w.gen) /\ QueueOutcome(w, r)
      <4>1. CASE Replay
        <5>1. Head(s.kept) \in Commands
          BY <1>1, <4>1 DEF Replay, Setups
        <5> QED BY <4>1, <5>1, QueueOutcomesOK DEF Replay, TypeInv
      <4>2. CASE ArmRedial
        BY <1>1, <4>2, PumpOutcome DEF ArmRedial, TypeInv
      <4> QED BY <1>12, <2>3, <4>1, <4>2
    <3>2. w'.gen = w.gen /\ \A g \in Gens : g # w.gen => pumps'[g] = pumps[g]
      BY <1>1, <3>1 DEF Sending, QueueOutcome
    <3>3. \A g \in Gens : conn'[g].reg = conn[g].reg /\ conn'[g].wanted = conn[g].wanted
      BY <1>1, <3>1, ConnKept, WantedKept
    <3> QED BY <2>1, <3>2, <3>3, WantOutside DEF Setting
  <2> QED BY <2>2, <2>3
<1>13. CASE WriterSend
  <2>1. /\ cmd # <<>> /\ cmd' = Tail(cmd) /\ UNCHANGED <<pc, ui>> /\ pc = "loop"
    BY <1>13 DEF WriterSend, TakeCommand
  <2>2. PICK r \in QueueOutcomes(Head(cmd)) : Sending(r, w.gen)
    BY <1>13 DEF WriterSend
  <2>3. QueueOutcome(w, r)
    BY <1>2, <2>1, <2>2, QueueOutcomesOK DEF TypeInv
  <2>4. w'.gen = w.gen /\ \A g \in Gens : g # w.gen => pumps'[g] = pumps[g]
    BY <1>1, <2>2, <2>3 DEF Sending, QueueOutcome
  <2>5. \A g \in Gens : conn'[g].reg = conn[g].reg /\ conn'[g].wanted = conn[g].wanted
    BY <1>1, <2>2, ConnKept, WantedKept
  <2> QED BY <2>1, <2>4, <2>5, WantOutside DEF Setting
<1>14. CASE WriterDrop \/ WriterHangup \/ WriterFinish \/ WriterEof \/ WriterDone
  <2>1. /\ cmd' = cmd \/ (cmd # <<>> /\ cmd' = Tail(cmd))
        /\ UNCHANGED <<ui, pumps>> /\ w'.gen = w.gen
        /\ pc \in {"loop", "eof", "done"} /\ pc' \in {"loop", "eof", "done", "stopped"}
    BY <1>1, <1>14, EmptiedTyped
       DEF WriterDrop, WriterHangup, WriterFinish, WriterEof, WriterDone, TakeCommand
  <2>2. \A g \in Gens : conn'[g].reg = conn[g].reg /\ conn'[g].wanted = conn[g].wanted
    <3>1. CASE WriterDrop
      BY <1>1, <3>1 DEF WriterDrop, Conns
    <3>2. CASE WriterHangup \/ WriterFinish
      BY <3>2, ConnKept, WantedKept DEF WriterHangup, WriterFinish
    <3>3. CASE WriterEof \/ WriterDone
      BY <3>3 DEF WriterEof, WriterDone
    <3> QED BY <1>14, <3>1, <3>2, <3>3
  <2> QED BY <2>1, <2>2, WantOutside DEF Setting
<1>15. CASE WriterDial
  <2> DEFINE c == Head(cmd)
  <2>1. /\ cmd # <<>> /\ cmd' = Tail(cmd) /\ UNCHANGED <<ui, pumps>> /\ pc = "loop"
        /\ c.k = "Dial" /\ c \in Commands /\ pc' = "dial" /\ FlushAndClose(TRUE)
        /\ s' = Setup(c.gen, c.ep, FALSE, TRUE, <<>>)
    BY <1>1, <1>15, HeadTailProperties DEF WriterDial, TakeCommand
  <2>2. c.gen \in Gens /\ w.gen < c.gen
    BY <1>1, <2>1, CommandFields, QueuedTail DEF DialInv
  <2>3. Quiet(cmd') => ui.want = c.gen
    BY <1>2, <2>1 DEF Steers, Target
  <2> HIDE DEF c
  <2>4. s'.gen = c.gen /\ s'.dials = <<>> /\ ~s'.closed /\ ~s'.dropped
    BY <2>1 DEF Setup
  <2>5. \A g \in Gens :
          Behind(g) \/ (pc \in {"drain", "decide"} /\ g = s.gen) => g < s'.gen
    <3>1. w.gen \in Nat /\ c.gen \in Nat /\ \A g \in Gens : g \in Nat
      BY <1>1, <2>2 DEF Writers
    <3>2. \A g \in Gens : g <= w.gen => g < c.gen
      BY <2>2, <3>1
    <3>3. \A g \in Gens : Behind(g) => g <= w.gen
      BY <2>1 DEF Behind, Setting
    <3> QED BY <2>1, <2>4, <3>2, <3>3
  <2>6. \A g \in Gens : conn'[g].reg = conn[g].reg /\ conn'[g].wanted = conn[g].wanted
    BY <2>1, ConnKept, WantedKept
  <2> QED BY <2>1, <2>2, <2>3, <2>4, <2>5, <2>6, WantBegins
<1>16. ASSUME NEW g \in Gens, PumpSend(g)
       PROVE  WantInv'
  <2>1. /\ UNCHANGED <<pc, w, s, conn, ui, cmdOpen>> /\ pumps[g] > 0
        /\ pumps' = [pumps EXCEPT ![g] = @ - 1]
        /\ cmd' = IF cmdOpen THEN Append(cmd, Pump(g)) ELSE cmd
    BY <1>16 DEF PumpSend, PostCmd
  <2>2. \A h \in Gens : pumps'[h] > 0 \/ Pump(g) = Pump(h) => pumps[h] > 0
    <3>1. \A h \in Gens : Pump(g) = Pump(h) => g = h
      BY DEF Pump
    <3>2. \A h \in Gens : pumps'[h] > 0 => pumps[h] > 0
      BY <1>1, <2>1
    <3> QED BY <2>1, <3>1, <3>2
  <2>3. Pump(g) \in Commands /\ ~Steers(Pump(g))
    BY DEF Pump, Commands, Steers
  <2>4. CASE cmdOpen
    BY <2>1, <2>2, <2>3, <2>4, WantSent
  <2>5. CASE ~cmdOpen
    BY <2>1, <2>2, <2>5, WantUnsent
  <2> QED BY <2>4, <2>5
<1>17. ASSUME NEW g \in Gens, ReaderPong(g)
       PROVE  WantInv'
  <2>1. PICK l, req : cmd' = IF cmdOpen THEN Append(cmd, Pong(g, l, req)) ELSE cmd
    BY <1>17 DEF ReaderPong, PostCmd
  <2>2. UNCHANGED <<pc, w, s, conn, ui, cmdOpen, pumps>>
    BY <1>17 DEF ReaderPong
  <2>3. CASE cmdOpen
    <3>1. Pong(g, l, req) \in Commands
      <4>1. Len(cmd') = Len(cmd) + 1 /\ cmd'[Len(cmd) + 1] = Pong(g, l, req)
        BY <1>1, <2>1, <2>3
      <4>2. cmd' \in Seq(Commands)
        BY DEF TypeInv, TypeOK
      <4> QED BY <1>1, <4>1, <4>2, ElementOfSeq
    <3>2. ~Steers(Pong(g, l, req)) /\ \A h : Pong(g, l, req) # Pump(h)
      BY DEF Pong, Pump, Steers
    <3> QED BY <2>1, <2>2, <2>3, <3>1, <3>2, WantSent
  <2>4. CASE ~cmdOpen
    BY <2>1, <2>2, <2>4, WantUnsent
  <2> QED BY <2>3, <2>4
<1>18. ASSUME NEW g \in Gens, FailPost(g) \/ ReaderUp(g) \/ ReaderRecv(g)
                              \/ ReaderChunk(g) \/ ReaderStop(g)
       PROVE  WantInv'
  BY <1>18, WantUnsent DEF FailPost, ReaderUp, ReaderRecv, ReaderChunk, ReaderStop
<1>19. CASE UiTake \/ UiClose
  BY <1>19, WantUnsent DEF UiTake, UiClose, actorVars
<1>20. CASE UiCommand /\ ~UiClose
  <2>1. ui \in Uis
    BY DEF TypeInv, TypeOK
  <2>2. ASSUME NEW c, UiSend(c), \A g \in Gens : c # Pump(g),
               ui'.want = IF Steers(c) THEN Target(c) ELSE ui.want
        PROVE  WantInv'
    <3>1. cmdOpen /\ cmd' = Append(cmd, c) /\ UNCHANGED <<pc, w, s, conn, cmdOpen, pumps>>
      BY <2>2 DEF UiSend, actorVars
    <3>2. c \in Commands
      <4>1. Len(cmd') = Len(cmd) + 1 /\ cmd'[Len(cmd) + 1] = c /\ cmd' \in Seq(Commands)
        BY <1>1, <3>1 DEF TypeInv, TypeOK
      <4> QED BY <1>1, <4>1, ElementOfSeq
    <3> QED BY <2>2, <3>1, <3>2, WantSent
  <2>3. ASSUME NEW n \in 1 .. MaxBatch, UiCont(n)
        PROVE  WantInv'
    <3>1. PICK l : UiSend(Cont(l)) /\ ui'.want = ui.want
      BY <2>1, <2>3 DEF UiCont, Uis
    <3>2. ~Steers(Cont(l)) /\ \A g \in Gens : Cont(l) # Pump(g)
      BY DEF Cont, Pump, Steers
    <3> QED BY <2>2, <3>1, <3>2
  <2>4. ASSUME NEW ep \in Endpoints, UiDial(ep)
        PROVE  WantInv'
    <3>1. UiSend(Dial(ui.gen + 1, ep)) /\ ui'.want = ui.gen + 1
      BY <2>1, <2>4 DEF UiDial, Uis
    <3>2. /\ Steers(Dial(ui.gen + 1, ep)) /\ Target(Dial(ui.gen + 1, ep)) = ui.gen + 1
          /\ \A g \in Gens : Dial(ui.gen + 1, ep) # Pump(g)
      BY DEF Dial, Pump, Steers, Target
    <3> QED BY <2>2, <3>1, <3>2
  <2>5. CASE UiCut
    <3>1. /\ UiSend(Drop) \/ UiSend(Hangup)
          /\ ui'.want = 0
      BY <2>1, <2>5 DEF UiCut, Uis
    <3>2. /\ Steers(Drop) /\ Steers(Hangup) /\ Target(Drop) = 0 /\ Target(Hangup) = 0
          /\ \A g \in Gens : Drop # Pump(g) /\ Hangup # Pump(g)
      BY DEF Drop, Hangup, Pump, Steers, Target
    <3> QED BY <2>2, <3>1, <3>2
  <2>6. CASE UiBegin
    <3>1. UiSend(Begin(ui.gen)) /\ ui'.want = ui.want
      BY <2>1, <2>6 DEF UiBegin, Uis
    <3>2. ~Steers(Begin(ui.gen)) /\ \A g \in Gens : Begin(ui.gen) # Pump(g)
      BY DEF Begin, Pump, Steers
    <3> QED BY <2>2, <3>1, <3>2
  <2> QED BY <1>20, <2>3, <2>4, <2>5, <2>6 DEF UiCommand
<1>21. CASE UNCHANGED vars
  BY <1>21, WantUnsent DEF vars
<1> QED BY <1>3, <1>4, <1>5, <1>6, <1>7, <1>8, <1>9, <1>10, <1>11, <1>12,
        <1>13, <1>14, <1>15, <1>16, <1>17, <1>18, <1>19, <1>20, <1>21
        DEF Next, WriterStep, ReaderStep, Stopped

\* Registration reaches a server only if its Dial was still what the UI wanted
\* when the transport came up, for any number of commands, endpoints and
\* generations and any interleaving of the sentinel with the UI's commands
\* (writer_peek, writer_drain, admit_consider).
THEOREM WantedRegistered == Spec => []RegisteredWanted
<1>1. WantInv => RegisteredWanted
  BY DEF WantInv
<1>2. DialInv /\ WantInv /\ TypeInv /\ TypeInv' /\ [Next]_vars => WantInv'
  BY WantStep
<1> QED BY <1>1, <1>2, WantInit, CredAlways, TypeAlways, PTL DEF Spec
=============================================================================
