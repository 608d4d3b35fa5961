------------------------------- MODULE Writer -------------------------------
(***************************************************************************)
(* The writer record of src/bend/actor.bend and the operators its handlers *)
(* are built from.  The record owns at most one socket, the one of its own *)
(* generation, so "sock" is a Boolean.                                     *)
(*                                                                         *)
(* Sending is where the outside decides: each operator that sends returns  *)
(* the SET of its outcomes, one per number of lines the socket took, and   *)
(* an action of NetActor picks one.                                        *)
(***************************************************************************)
EXTENDS Outbound

CONSTANTS
    Gens,          \* generations, 0 .. the last one
    MaxId          \* bound on the identities of the lines of one generation

ASSUME WriterAssumption ==
    /\ Gens \subseteq Nat
    /\ {0, 1} \subseteq Gens
    /\ MaxId \in Nat

\* A line is who produced it, for which generation, and its position among
\* the lines that producer made for that generation (an identity the code
\* does not have: it tells equal texts apart).
Line == [from : {"ui", "pong"}, gen : Gens, id : 1 .. MaxId]

\* What reached a socket: the line and the trace ID it was sent under.
Sent == [line : Line, txn : U32]

Writers ==
    [sock : BOOLEAN, gen : Gens, pending : Seq(Line), ptxn : Seq(U32),
     ntxn : U32, budget : Budget, sched : BOOLEAN]

\* A writer adopting a connection, and one that owns no socket.
Adopted(gen, ntxn, budget) ==
    [sock |-> TRUE, gen |-> gen, pending |-> <<>>, ptxn |-> <<>>,
     ntxn |-> ntxn, budget |-> budget, sched |-> FALSE]

Socketless(gen, ntxn, budget) ==
    [Adopted(gen, ntxn, budget) EXCEPT !.sock = FALSE]

\* The same writer after its socket is gone: nothing stays queued.
Emptied(w) == Socketless(w.gen, w.ntxn, w.budget)

-----------------------------------------------------------------------------
(* Sending *)

\* Line i goes out under txn i, and under 0 once the IDs run out.
Stamp(lines, txns) ==
    [i \in 1 .. Len(lines) |->
        [line |-> lines[i], txn |-> IF i <= Len(txns) THEN txns[i] ELSE 0]]

\* send_batch stops at the first failing line and counts that attempt too.
SendBatch(lines, txns) ==
    {[wire |-> Stamp(lines, txns), ok |-> TRUE]} \cup
    {[wire |-> SubSeq(Stamp(lines, txns), 1, n), ok |-> FALSE] :
        n \in 1 .. Len(lines)}

\* Faulty: the queue is forgotten when the socket goes.
FlushNothing(w) == SendBatch(<<>>, <<>>)

\* The whole FIFO, outside the budget: writer_finish, writer_hangup and the
\* flush in front of a Dial.
Flush(w) == SendBatch(w.pending, w.ptxn)

\* writer_queue: append, send one batch, keep the rest and ask for a pump.
\* A failed batch drops the socket and everything still queued.
WriterQueue(w, outs, txn) ==
    IF ~w.sock
    THEN {[w |-> Emptied(w), wire |-> <<>>, ok |-> TRUE, pump |-> FALSE]}
    ELSE
    LET all     == w.pending \o outs
        allTxn  == w.ptxn \o RepeatTxn(txn, Len(outs))
        plan    == Batch(all, w.budget)
        sent    == Len(plan.now)
        ntxn    == IF outs = <<>> THEN w.ntxn ELSE NextBatchTxn(w.ntxn)
        need    == ~w.sched /\ plan.later # <<>> /\ BudgetOpen(plan.budget)
        queued  == [w EXCEPT !.pending = plan.later,
                             !.ptxn    = SplitLater(allTxn, sent),
                             !.ntxn    = ntxn,
                             !.budget  = plan.budget,
                             !.sched   = @ \/ need]
    IN  {[w    |-> IF r.ok THEN queued ELSE Emptied(queued),
          wire |-> r.wire,
          ok   |-> r.ok,
          pump |-> r.ok /\ need] :
            r \in SendBatch(plan.now, SplitNow(allTxn, sent))}

\* The three commands that feed the queue.  A stale Pong or Pump (another
\* generation's) leaves the writer alone.
Unmoved(w) == {[w |-> w, wire |-> <<>>, ok |-> TRUE, pump |-> FALSE]}

WriterCont(w, outs) == WriterQueue(w, outs, w.ntxn)

WriterPong(w, gen, pongs, req) ==
    IF gen = w.gen THEN WriterQueue(w, pongs, req) ELSE Unmoved(w)

\* Faulty: the flag of the pump that arrived stays set.
WriterPumpKeepsFlag(w, gen) ==
    IF gen = w.gen THEN WriterQueue(w, <<>>, 0) ELSE Unmoved(w)

WriterPump(w, gen) ==
    IF gen = w.gen
    THEN WriterQueue([w EXCEPT !.sched = FALSE], <<>>, 0)
    ELSE Unmoved(w)
=============================================================================
