---------------------------- MODULE HistoryWriter ----------------------------
(***************************************************************************)
(* The history save path of the multi-server loop (src/bend/wsnet.bend):   *)
(* the UI fiber cuts the rows a step added out of the client, offers them  *)
(* to a worker through a bounded channel, coalesces what the channel does  *)
(* not take into one `pending` record, and keeps one `hold`, the highest   *)
(* id queued but not yet known to be in the file.  The worker appends and  *)
(* reports back on the loop's own channel, which the servers' events also  *)
(* fill.  A row is <<endpoint, id>>; each part stamps its ids from its own *)
(* range.                                                                  *)
(***************************************************************************)
EXTENDS Integers, Sequences, FiniteSets, SequencesExt

CONSTANTS
    Parts,      \* the servers, 0 .. n-1
    Range44,    \* ids of one part (2^44 in the code)
    MaxRows,    \* bound: rows one part may stamp
    FirstId,    \* rows stamped (and saved) before the loop starts
    ChanCap,    \* capacity of the job channel (8)
    MainCap,    \* capacity of the loop's channel (64)
    OverCap,    \* rows `pending` may hold (64 KiB)
    MaxFails,   \* bound: appends that fail
    MaxDials,   \* bound: endpoint changes
    Traffic     \* whether the servers post events to the loop

ASSUME HistoryAssumption ==
    /\ IsFiniteSet(Parts) /\ Parts # {} /\ Parts = 0 .. Cardinality(Parts) - 1
    /\ Range44 \in Nat /\ MaxRows \in Nat /\ FirstId \in Nat
    /\ FirstId + MaxRows + 1 < Range44
    /\ ChanCap \in Nat \ {0} /\ MainCap \in Nat \ {0}
    /\ OverCap \in Nat \ {0} /\ MaxFails \in Nat /\ MaxDials \in Nat
    /\ Traffic \in BOOLEAN

VARIABLES
    log,    \* [Parts -> id]: log_seq of each part's client, its saved floor
    rows,   \* [Parts -> set of rows]: the rows the client still stores
    ep,     \* [Parts -> Nat]: the endpoint the part talks to
    hold,   \* WsHot.hold
    pend,   \* WsHot.pending: a WsPend
    jobs,   \* the job channel
    worker, \* the history worker
    main,   \* the loop's channel
    ui,     \* what the UI fiber is doing
    file,   \* the rows in the history file, in order
    made,   \* every row any step added (history variable)
    fails   \* appends that have failed (bound)

vars == <<log, rows, ep, hold, pend, jobs, worker, main, ui, file, made, fails>>

-----------------------------------------------------------------------------
IdBase(p) == p * Range44
IdCeiling(p) == IdBase(p) + Range44
IdOf(row) == row[2]
Larger(a, b) == IF a > b THEN a ELSE b
Top(p) == Max({log[p]} \cup {IdOf(row) : row \in rows[p]})

NoPend == [rows |-> <<>>, part |-> 0, base |-> 0, seq |-> 0]
Job(p) == [kind |-> "job", rows |-> p.rows, part |-> p.part,
           base |-> p.base, seq |-> p.seq]
Stop == [kind |-> "stop"]
Barrier == [kind |-> "barrier"]

\* hold_in: a hold from another part's range counts as none.
HoldIn(h, p) == IF h >= IdBase(p) /\ h < IdCeiling(p) THEN h ELSE 0

\* extract_new_history_for_except: the client's rows above the floor, by id;
\* the k-th is the one with k ids up to its own.
ById(set) ==
    [k \in 1 .. Cardinality(set) |->
        CHOOSE row \in set : Cardinality({r \in set : IdOf(r) <= IdOf(row)}) = k]
Extract(kept, floor) == ById({row \in kept : IdOf(row) > floor})

\* Faulty: the new bytes go in front of the ones that wait.
OfferInFront(p, data, part, base, seq) ==
    IF p.rows = <<>>
      THEN [rows |-> data, part |-> part, base |-> base, seq |-> seq]
      ELSE [p EXCEPT !.rows = data \o @, !.seq = Larger(@, seq)]

\* ws_pend.offer: another part's bytes are refused.
OfferAccepted(p, part) == p.rows = <<>> \/ p.part = part
Offer(p, data, part, base, seq) ==
    IF p.rows = <<>>
      THEN [rows |-> data, part |-> part, base |-> base, seq |-> seq]
      ELSE [p EXCEPT !.rows = @ \o data, !.seq = Larger(@, seq)]

\* try_send: the channel took the job, or nothing happened.
Taken(p, queue) == Len(queue) < ChanCap
Send(p, queue) == IF Taken(p, queue) THEN Append(queue, Job(p)) ELSE queue
\* Faulty: a full channel counts as an accept.
RestDropped(p, queue) == NoPend

Rest(p, queue) == IF Taken(p, queue) THEN NoPend ELSE p

Over(p) == Len(p.rows) > OverCap

(* write_chan: what becomes of the offered record.  `durable` is reached   *)
(* only with nothing to write, `notice` when the bytes were refused.       *)
Write(stored, offered, queue) ==
    CASE offered.rows = <<>> ->
             [pend |-> stored, jobs |-> queue, durable |-> TRUE, notice |-> FALSE]
      [] offered.rows # <<>> /\ ~Over(offered) ->
             [pend |-> Rest(offered, queue), jobs |-> Send(offered, queue),
              durable |-> FALSE, notice |-> FALSE]
      [] Over(offered) /\ Over(stored) ->      \* drain the stuck record first
             [pend |-> IF ~Taken(stored, queue) THEN offered
                       ELSE IF Len(offered.rows) > Len(stored.rows)
                         THEN [offered EXCEPT !.rows =
                                 SubSeq(@, Len(stored.rows) + 1, Len(@))]
                         ELSE NoPend,
              jobs |-> Send(stored, queue), durable |-> FALSE, notice |-> FALSE]
      [] Over(offered) /\ ~Over(stored) ->
             [pend |-> stored, jobs |-> queue, durable |-> FALSE, notice |-> TRUE]

Refused(stored, queue) ==
    [pend |-> stored, jobs |-> queue, durable |-> FALSE, notice |-> TRUE]

-----------------------------------------------------------------------------
Init ==
    /\ log = [p \in Parts |-> IdBase(p) + FirstId]
    /\ rows = [p \in Parts |-> {}]
    /\ ep = [p \in Parts |-> 0]
    /\ hold = 0 /\ pend = NoPend /\ jobs = <<>>
    /\ worker = [pc |-> "recv"]
    /\ main = <<>>
    /\ ui = [pc |-> "loop"]
    /\ file = <<>> /\ made = {} /\ fails = 0

(* A step of part p adds n rows; ws_history_save cuts everything above the *)
(* floor out of the new client and offers it (async_go, async_marked).     *)
NewRows(p, e, n) == {<<e, id>> : id \in Top(p) + 1 .. Top(p) + n}

Step(p, n) ==
    LET fresh == NewRows(p, ep[p], n)
        kept == rows[p] \cup fresh
        seq == Top(p) + n
        data == Extract(kept, Larger(log[p], HoldIn(hold, p)))
        got == IF OfferAccepted(pend, p)
                 THEN Write(pend, Offer(pend, data, p, log[p], seq), jobs)
                 ELSE Refused(pend, jobs)
    IN  /\ ui.pc = "loop"
        /\ seq <= IdBase(p) + FirstId + MaxRows
        /\ rows' = [rows EXCEPT ![p] = kept]
        /\ made' = made \cup fresh
        /\ pend' = got.pend /\ jobs' = got.jobs
        /\ log' = [log EXCEPT ![p] = IF got.notice THEN @ ELSE seq]
        /\ hold' = CASE got.notice -> 0
                     [] ~got.notice /\ got.durable -> hold
                     [] ~got.notice /\ ~got.durable -> Larger(hold, seq)
        /\ UNCHANGED <<ep, worker, main, ui, file, fails>>

(* The part dials another endpoint: its chat buffers are replaced, and the *)
(* step waits for the queue before it appends the transition itself.       *)
Dial(p, n) ==
    LET seq == Top(p) + n
        kept == NewRows(p, ep[p] + 1, n)
    IN  /\ ui.pc = "loop" /\ ep[p] < MaxDials
        /\ seq <= IdBase(p) + FirstId + MaxRows
        /\ made' = made \cup kept
        /\ ui' = [pc |-> "flush", part |-> p, rows |-> kept,
                  seq |-> IF n = 0 THEN log[p] ELSE seq, hold |-> hold,
                  data |-> Extract(kept, Larger(log[p], HoldIn(hold, p)))]
        /\ UNCHANGED <<log, rows, ep, hold, pend, jobs, worker, main, file, fails>>

\* flush_pending: a blocking send of the overflow.
FlushPending ==
    /\ ui.pc = "flush"
    /\ pend.rows # <<>> => Len(jobs) < ChanCap
    /\ jobs' = IF pend.rows = <<>> THEN jobs ELSE Append(jobs, Job(pend))
    /\ ui' = [ui EXCEPT !.pc = "barrier"]
    /\ UNCHANGED <<log, rows, ep, hold, pend, worker, main, file, made, fails>>

\* Faulty: the wait for the queue is skipped.
FlushUnfenced ==
    /\ ui.pc = "barrier"
    /\ ui' = [ui EXCEPT !.pc = "append"]
    /\ UNCHANGED <<log, rows, ep, hold, pend, jobs, worker, main, file, made, fails>>

\* fence.go: a blocking send of the barrier, then the wait for its ack.
FlushBarrier ==
    /\ ui.pc = "barrier" /\ Len(jobs) < ChanCap
    /\ jobs' = Append(jobs, Barrier)
    /\ ui' = [ui EXCEPT !.pc = "fence"]
    /\ UNCHANGED <<log, rows, ep, hold, pend, worker, main, file, made, fails>>

(* changed_append: the transition's rows go to the file at once.  Nothing  *)
(* to write is a Skip; a failed write keeps the checkpoint, raised to the  *)
(* hold this part had when the step began.                                 *)
FlushAppend(ok) ==
    LET p == ui.part
    IN  /\ ui.pc = "append"
        /\ ok \/ (ui.data # <<>> /\ fails < MaxFails)
        /\ fails' = IF ok THEN fails ELSE fails + 1
        /\ file' = IF ok THEN file \o ui.data ELSE file
        /\ pend' = NoPend /\ hold' = 0
        /\ rows' = [rows EXCEPT ![p] = ui.rows]
        /\ ep' = [ep EXCEPT ![p] = @ + 1]
        /\ log' = [log EXCEPT ![p] = IF ok THEN ui.seq
                                     ELSE Larger(@, HoldIn(ui.hold, p))]
        /\ ui' = [pc |-> "loop"]
        /\ UNCHANGED <<jobs, worker, main, made>>

-----------------------------------------------------------------------------
(* The worker: one job at a time, and its report is a blocking send.       *)
Report(m) == [pc |-> "report", msg |-> m]

WorkerJob(ok) ==
    LET job == Head(jobs)
    IN  /\ worker.pc = "recv" /\ jobs # <<>> /\ Head(jobs).kind = "job"
        /\ ok \/ fails < MaxFails
        /\ fails' = IF ok THEN fails ELSE fails + 1
        /\ file' = IF ok THEN file \o job.rows ELSE file
        /\ worker' = Report(IF ok THEN [kind |-> "ack", part |-> job.part, seq |-> job.seq]
                                  ELSE [job EXCEPT !.kind = "diag"])
        /\ jobs' = Tail(jobs)
        /\ UNCHANGED <<log, rows, ep, hold, pend, main, ui, made>>

WorkerBarrier ==
    /\ worker.pc = "recv" /\ jobs # <<>> /\ Head(jobs).kind = "barrier"
    /\ jobs' = Tail(jobs)
    /\ ui' = [ui EXCEPT !.pc = "append"]
    /\ UNCHANGED <<log, rows, ep, hold, pend, worker, main, file, made, fails>>

\* Faulty: the worker ends without a word.
WorkerStopSilent ==
    /\ worker.pc = "recv" /\ jobs # <<>> /\ Head(jobs).kind = "stop"
    /\ jobs' = Tail(jobs)
    /\ worker' = [pc |-> "gone"]
    /\ UNCHANGED <<log, rows, ep, hold, pend, main, ui, file, made, fails>>

WorkerStop ==
    /\ worker.pc = "recv" /\ jobs # <<>> /\ Head(jobs).kind = "stop"
    /\ jobs' = Tail(jobs)
    /\ worker' = Report([kind |-> "done"])
    /\ UNCHANGED <<log, rows, ep, hold, pend, main, ui, file, made, fails>>

WorkerReport ==
    /\ worker.pc = "report" /\ Len(main) < MainCap
    /\ main' = Append(main, worker.msg)
    /\ worker' = [pc |-> IF worker.msg.kind = "done" THEN "gone" ELSE "recv"]
    /\ UNCHANGED <<log, rows, ep, hold, pend, jobs, ui, file, made, fails>>

\* A server's forwarder posts an event to the loop.
Forward ==
    /\ Traffic /\ Len(main) < MainCap
    /\ main' = Append(main, [kind |-> "net"])
    /\ UNCHANGED <<log, rows, ep, hold, pend, jobs, worker, ui, file, made, fails>>

-----------------------------------------------------------------------------
(* The loop's own receives.                                                *)
Received(kind) ==
    /\ ui.pc = "loop" /\ main # <<>> /\ Head(main).kind = kind
    /\ main' = Tail(main)

UiNet ==
    /\ Received("net")
    /\ UNCHANGED <<log, rows, ep, hold, pend, jobs, worker, ui, file, made, fails>>

\* on_ack: the floor is raised, and the hold dropped once all of it is saved.
UiAck ==
    LET p == Head(main).part
        mine == HoldIn(hold, p)
    IN  /\ Received("ack")
        /\ log' = [log EXCEPT ![p] = Larger(@, Head(main).seq)]
        /\ hold' = IF mine = 0 \/ mine > Head(main).seq THEN hold ELSE 0
        /\ UNCHANGED <<rows, ep, pend, jobs, worker, ui, file, made, fails>>

\* on_fail: a newer job is queued, so the failed bytes go in front of pending;
\* otherwise the floor falls back to the failed job's base.
Retried(p, diag) ==
    IF p.rows = <<>>
      THEN [rows |-> diag.rows, part |-> diag.part, base |-> diag.base, seq |-> diag.seq]
      ELSE [p EXCEPT !.rows = diag.rows \o @]

\* Faulty: the floor stays where it is.
RewoundNever(cur, base) == cur

Rewound(cur, base) == IF base # 0 /\ cur > base THEN base ELSE cur

UiDiag ==
    LET diag == Head(main)
        newer == HoldIn(hold, diag.part) > diag.seq
    IN  /\ Received("diag")
        /\ pend' = IF newer THEN Retried(pend, diag) ELSE pend
        /\ hold' = IF newer THEN hold ELSE 0
        /\ log' = IF newer THEN log
                  ELSE [log EXCEPT ![diag.part] = Rewound(@, diag.base)]
        /\ UNCHANGED <<rows, ep, jobs, worker, ui, file, made, fails>>

(* Quit: a fiber of its own sends pending and HistStop, while the UI only  *)
(* receives, until WsHistDone or the drain budget ends the wait.           *)
Quit ==
    /\ ui.pc = "loop"
    /\ ui' = [pc |-> "drain", left |-> IF pend.rows = <<>> THEN <<Stop>> ELSE <<Job(pend), Stop>>]
    /\ UNCHANGED <<log, rows, ep, hold, pend, jobs, worker, main, file, made, fails>>

\* Faulty: the stop overtakes the overflow.
DrainStopFirst ==
    /\ ui.pc = "drain" /\ ui.left # <<>> /\ Len(jobs) < ChanCap
    /\ jobs' = Append(jobs, Last(ui.left))
    /\ ui' = [ui EXCEPT !.left = Front(@)]
    /\ UNCHANGED <<log, rows, ep, hold, pend, worker, main, file, made, fails>>

DrainSend ==
    /\ ui.pc = "drain" /\ ui.left # <<>> /\ Len(jobs) < ChanCap
    /\ jobs' = Append(jobs, Head(ui.left))
    /\ ui' = [ui EXCEPT !.left = Tail(@)]
    /\ UNCHANGED <<log, rows, ep, hold, pend, worker, main, file, made, fails>>

DrainReceive ==
    /\ ui.pc = "drain" /\ main # <<>>
    /\ main' = Tail(main)
    /\ ui' = IF Head(main).kind = "done" THEN [pc |-> "end"] ELSE ui
    /\ UNCHANGED <<log, rows, ep, hold, pend, jobs, worker, file, made, fails>>

DrainExpire ==
    /\ ui.pc = "drain"
    /\ ui' = [pc |-> "expired"]
    /\ UNCHANGED <<log, rows, ep, hold, pend, jobs, worker, main, file, made, fails>>

Ended == ui.pc \in {"end", "expired"} /\ UNCHANGED vars

UiNext ==
    \/ \E p \in Parts, n \in 1 .. 2 : Step(p, n)
    \/ \E p \in Parts, n \in 0 .. 1 : Dial(p, n)
    \/ FlushPending \/ FlushBarrier \/ \E ok \in BOOLEAN : FlushAppend(ok)
    \/ UiNet \/ UiAck \/ UiDiag \/ Quit \/ DrainReceive \/ DrainExpire \/ Ended

WorkerNext ==
    \/ \E ok \in BOOLEAN : WorkerJob(ok)
    \/ WorkerBarrier \/ WorkerStop \/ WorkerReport

Next == UiNext \/ WorkerNext \/ DrainSend \/ Forward

Spec == Init /\ [][Next]_vars

(* Fairness: every fiber is scheduled by the runtime, a blocking send or   *)
(* receive that can complete completes, and the loop keeps receiving.  A   *)
(* step, a dial, a quit and the expiry of the budget need never happen.    *)
Fairness ==
    /\ WF_vars(FlushPending) /\ WF_vars(FlushBarrier)
    /\ WF_vars(\E ok \in BOOLEAN : FlushAppend(ok))
    /\ WF_vars(UiNet \/ UiAck \/ UiDiag) /\ WF_vars(DrainReceive)
    /\ WF_vars(WorkerNext) /\ WF_vars(DrainSend)

FairSpec == Spec /\ Fairness

-----------------------------------------------------------------------------
RowsIn(items, kind) ==
    UNION {ToSet(items[i].rows) : i \in {j \in DOMAIN items : items[j].kind = kind}}
Queued == RowsIn(jobs, "job")
\* Failed jobs whose report the loop has not read.
Returned ==
    RowsIn(IF worker.pc = "report" THEN Append(main, worker.msg) ELSE main, "diag")
Transition == IF ui.pc \in {"flush", "barrier", "fence", "append"} THEN ToSet(ui.data) ELSE {}
\* The rows the next save of their part will cut out again.
Recut == UNION {{row \in rows[p] : IdOf(row) > Larger(log[p], HoldIn(hold, p))} : p \in DOMAIN rows}

TypeOK ==
    /\ \A p \in Parts : log[p] \in IdBase(p) .. IdCeiling(p) - 1
    /\ \A p \in Parts : \A row \in rows[p] : row \in made
    /\ ep \in [Parts -> 0 .. MaxDials]
    /\ hold \in Nat /\ Len(jobs) <= ChanCap /\ Len(main) <= MainCap
    /\ pend.part \in Parts /\ ToSet(pend.rows) \subseteq made
    /\ ToSet(file) \subseteq made
    /\ worker.pc \in {"recv", "report", "gone"}
    /\ ui.pc \in {"loop", "flush", "barrier", "fence", "append", "drain", "end", "expired"}

(* A row that a step added is never forgotten: it is in the file, on its   *)
(* way there, or above the floor, where the next save finds it again.      *)
NoRowLost ==
    ui.pc \notin {"drain", "end", "expired"} =>
        made \subseteq ToSet(file) \cup Queued \cup ToSet(pend.rows) \cup Returned
                       \cup Transition \cup Recut

(* So it is until an append fails or an endpoint changes: whatever the      *)
(* servers save, however the channel, the overflow and its cap interleave  *)
(* with the worker.  Across a change, and with two servers or a cleared    *)
(* hold across a failure, rows are lost (HistoryDialRows.cfg,              *)
(* HistoryFailRows.cfg).                                                   *)
RowsKept == (fails = 0 /\ \A p \in DOMAIN ep : ep[p] = 0) => NoRowLost

(* As long as no append fails, a part's rows reach the file in the order   *)
(* the client stamped them and none twice, whichever way (channel,         *)
(* overflow, transition) each of them took.                                *)
InRange(row, p) == IdOf(row) \in IdBase(p) .. IdCeiling(p) - 1
Before(a, b) == (\E p \in Parts : InRange(a, p) /\ InRange(b, p)) => IdOf(a) < IdOf(b)
Ordered(s) == \A i, j \in DOMAIN s : i < j => Before(s[i], s[j])
FileInOrder == fails = 0 => Ordered(file)

(* The transition of an endpoint change is appended only once everything   *)
(* queued before it is in the file (wsnet.bend, flush_before), as long as  *)
(* no append fails: the barrier is answered after a failed job too.        *)
FenceDurable ==
    (ui.pc = "append" /\ fails = 0) =>
        Queued \cup ToSet(pend.rows) \cup Returned \subseteq ToSet(file)

(* A clean end of the program (WsHistDone, not the expired budget) leaves  *)
(* nothing queued, pending or held by the worker behind.                   *)
CleanEnd ==
    ui.pc = "end" => /\ Queued = {} /\ worker.pc = "gone"
                     /\ fails = 0 => ToSet(pend.rows) \subseteq ToSet(file)

(* The two waits of the loop, for the barrier and for WsHistDone, end with *)
(* nothing that was handed over before left on its way.                    *)
WaitsDurable == FenceDurable /\ CleanEnd

\* A quit ends, even when the drain budget never expires.
QuitEnds == ui.pc = "drain" ~> ui.pc \in {"end", "expired"}
=============================================================================
