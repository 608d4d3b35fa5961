------------------------------ MODULE Outbound ------------------------------
(***************************************************************************)
(* The pure outbound rules of src/bend/outbound.bend: the line budget, the *)
(* batch an actor turn may send, and the two transaction-ID spaces.        *)
(*                                                                         *)
(* A budget is one record; "limited" tells the two constructors apart and  *)
(* an unlimited budget keeps turns = credit = 0.                           *)
(***************************************************************************)
EXTENDS Naturals, Sequences

CONSTANTS
    SEND_CAP,      \* lines one batch may carry (8 in the code)
    PongTxn,       \* first PONG-space ID (2^31)
    PongStride,    \* IDs owned by one generation (2^20)
    PongGens,      \* generations that own a range (2048)
    Word           \* U32 modulus (2^32)

\* The code's numbers satisfy the last conjunct with equality.
ASSUME OutboundAssumption ==
    /\ SEND_CAP \in Nat \ {0}
    /\ PongTxn \in Nat /\ PongTxn > 1
    /\ PongStride \in Nat \ {0}
    /\ PongGens \in Nat \ {0}
    /\ Word \in Nat
    /\ SEND_CAP < Word
    /\ PongTxn + PongGens * PongStride <= Word

U32 == 0 .. Word - 1

-----------------------------------------------------------------------------
(* Budget and batch *)

Budget == [limited : BOOLEAN, turns : U32, credit : U32]

Unlimited == [limited |-> FALSE, turns |-> 0, credit |-> 0]

\* Zero frames means unlimited.
BudgetFrames(frames) ==
    IF frames = 0 THEN Unlimited
    ELSE [limited |-> TRUE, turns |-> frames, credit |-> 0]

\* Faulty: every turn refills.
BudgetReadyAlways(b) ==
    IF b.limited /\ b.turns # 0
    THEN [b EXCEPT !.turns = @ - 1, !.credit = SEND_CAP]
    ELSE b

\* A spent credit is refilled from the turns that are left.
BudgetReady(b) ==
    IF b.limited /\ b.credit = 0 /\ b.turns # 0
    THEN [b EXCEPT !.turns = @ - 1, !.credit = SEND_CAP]
    ELSE b

\* Faulty: a turn sends a full batch on less credit.
BudgetCapFull(b) == SEND_CAP

BudgetCap(b) ==
    IF ~b.limited \/ b.credit > SEND_CAP THEN SEND_CAP ELSE b.credit

BudgetAfter(b, used) ==
    IF b.limited THEN [b EXCEPT !.credit = @ - used] ELSE b

BudgetOpen(b) == ~b.limited \/ b.turns # 0 \/ b.credit # 0

Least(a, b) == IF a <= b THEN a ELSE b

\* split_at and split_at_u32: the first n elements, and the rest.
SplitNow(xs, n)   == SubSeq(xs, 1, Least(n, Len(xs)))
SplitLater(xs, n) == SubSeq(xs, Least(n, Len(xs)) + 1, Len(xs))

\* One batch: what is sent now, what stays queued, the budget afterwards.
Batch(xs, b) ==
    LET ready == BudgetReady(b)
        now   == SplitNow(xs, BudgetCap(ready))
    IN  [now    |-> now,
         later  |-> SplitLater(xs, BudgetCap(ready)),
         budget |-> BudgetAfter(ready, Len(now))]

-----------------------------------------------------------------------------
(* Transaction IDs.  0 is "unidentified". *)

\* The first and last ID of a generation's PONG range, 0 past the last range.
PongFirst(gen) == IF gen >= PongGens THEN 0 ELSE PongTxn + gen * PongStride
PongLast(gen)  ==
    IF gen >= PongGens THEN 0 ELSE PongFirst(gen) + (PongStride - 1)

\* The next request ID of a reader; it fails closed at the end of the range.
NextPongTxn(cur) ==
    IF \/ cur = 0
       \/ cur < PongTxn
       \/ cur = PongLast((cur - PongTxn) \div PongStride)
    THEN 0
    ELSE (cur + 1) % Word

\* Faulty: one ID for the command instead of one for each of its lines.
RepeatTxnOnce(txn, n) == <<txn>>

RepeatTxn(txn, n) == [i \in 1 .. n |-> txn]

\* The next Cont batch ID wraps inside 1 .. PongTxn - 1.
NextBatchTxn(cur) ==
    LET nxt == (cur + 1) % Word
    IN  IF nxt = 0 \/ nxt >= PongTxn THEN 1 ELSE nxt
=============================================================================
