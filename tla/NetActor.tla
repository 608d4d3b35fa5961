------------------------------ MODULE NetActor ------------------------------
(***************************************************************************)
(* The network actor of one server (src/bend/actor.bend): the writer task  *)
(* that owns the socket, the reader task of each adopted connection, the   *)
(* one-shot tasks both spawn, and the bounded channels between them and    *)
(* the UI.                                                                 *)
(*                                                                         *)
(* The UI is open here: it may send any command at any time, with the one  *)
(* discipline every UI loop keeps, a fresh generation per Dial.  DNS, TCP, *)
(* TLS and the server are open too: every connect, upgrade and send may    *)
(* fail, and a server may answer, close or stay silent.                    *)
(*                                                                         *)
(* A connection is named by the generation that dialled it.                *)
(***************************************************************************)
EXTENDS Writer, FiniteSets, Functions

CONSTANTS
    Endpoints,     \* host and port pairs
    Launch,        \* the endpoint of the command line
    NoEndpoint,    \* the empty scope of an actor started idle
    HasSasl,       \* whether the launch enabled SASL
    Frames,        \* the line budget; 0 is unlimited
    Starts,        \* how the actor may be started: boot, idle, deferred
    CmdCap,        \* capacity of the cmd channel (64)
    EvtCap,        \* capacity of the evt channel (64)
    PeekCap,       \* commands looked at before the TLS upgrade (65)
    MaxBatch,      \* bound: lines of one Cont
    MaxLines,      \* bound: lines the UI submits in all
    MaxPings,      \* bound: PINGs one reader reads
    DrainCap       \* commands drained before registration (32 rounds of 65)

ASSUME NetActorAssumption ==
    /\ Launch \in Endpoints
    /\ NoEndpoint \notin Endpoints
    /\ HasSasl \in BOOLEAN
    /\ Frames \in U32
    /\ IsFiniteSet(Gens)
    /\ Starts \subseteq {"boot", "idle", "deferred"}
    /\ CmdCap \in Nat \ {0} /\ EvtCap \in Nat \ {0}
    /\ MaxBatch \in Nat /\ MaxLines \in 0 .. MaxId /\ MaxPings \in 0 .. MaxId
    /\ PeekCap \in Nat \ {0} /\ DrainCap \in Nat \ {0}

VARIABLES
    pc,        \* where the writer task is
    w,         \* its Writer record
    scope,     \* its AuthScope
    s,         \* the setup under way (or the deferred Dial)
    cmd,       \* channel UI, readers and pumps -> writer
    cmdOpen,   \* FALSE once the UI closed it
    evt,       \* channel actor -> UI
    boot,      \* the one-slot channel of the initial setup
    pumps,     \* spawned pump_send tasks not yet in cmd, per generation
    fails,     \* spawned writer_fail tasks not yet in evt, per generation
    conn,      \* connections, per generation
    reader,    \* reader tasks, per generation
    ui         \* what the open UI has sent so far

actorVars == <<pc, w, scope, s, boot, pumps, fails, conn, reader>>
vars == <<pc, w, scope, s, cmd, cmdOpen, evt, boot, pumps, fails, conn,
          reader, ui>>

-----------------------------------------------------------------------------
(* Values *)

Cont(lines)      == [k |-> "Cont", lines |-> lines]
Pong(g, l, req)  == [k |-> "Pong", gen |-> g, lines |-> l, req |-> req]
Dial(g, e)       == [k |-> "Dial", gen |-> g, ep |-> e]
Pump(g)          == [k |-> "Pump", gen |-> g]
Begin(g)         == [k |-> "Begin", gen |-> g]
Drop             == [k |-> "Drop"]
Hangup           == [k |-> "Hangup"]

Commands ==
    [k : {"Cont"}, lines : Seq(Line)] \cup
    [k : {"Pong"}, gen : Gens, lines : Seq(Line), req : U32] \cup
    [k : {"Dial"}, gen : Gens, ep : Endpoints] \cup
    [k : {"Pump", "Begin"}, gen : Gens] \cup
    [k : {"Drop", "Hangup"}]

Event(e, g) == [e |-> e, gen |-> g]
\* What the actor posts, and what the tasks around it do: the outcome of a
\* failed launch and the reconnect timers (module Live).
Events ==
    [e : {"Up", "Chunk", "Eof", "NetFail", "WriterDone", "InitialFail",
          "Reconnect"}, gen : Gens]

Scopes == [ep : Endpoints \cup {NoEndpoint}, on : BOOLEAN]

\* A setup: its Dial, whether it is the launch's (live), whether a running
\* writer started it (redial), and AdmitAcc: the newer Dials seen, the
\* commands kept for replay, and the two cancel flags.  "none" is the empty
\* pending Dial of a deferred start.
Setups ==
    [gen : Gens, ep : Endpoints, none : BOOLEAN, live : BOOLEAN,
     redial : BOOLEAN, dials : Seq([gen : Gens, ep : Endpoints]),
     kept : Seq(Commands), closed : BOOLEAN, dropped : BOOLEAN, fuel : Nat]

Setup(gen, ep, live, redial, kept) ==
    [gen |-> gen, ep |-> ep, none |-> FALSE, live |-> live,
     redial |-> redial, dials |-> <<>>, kept |-> kept, closed |-> FALSE,
     dropped |-> FALSE, fuel |-> 0]

\* No setup under way.
NoSetup == [Setup(0, Launch, FALSE, FALSE, <<>>) EXCEPT !.none = TRUE]

\* st: the socket's life.  reg: what registration it was sent.  wanted: the
\* generation the UI wanted when the setup finished (history).  extra: how
\* many lines of the wire its end flushed past the budget (history).
Conns ==
    [st : {"none", "raw", "up", "live", "abandoned", "flushed", "dropped",
           "failed"},
     ep : Endpoints, reg : {"none", "plain", "sasl"}, wire : Seq(Sent),
     wanted : Gens, extra : Nat]

NoConn == [st |-> "none", ep |-> Launch, reg |-> "none", wire |-> <<>>,
           wanted |-> 0, extra |-> 0]

Readers ==
    [pc : {"none", "up", "recv", "pong", "chunk", "eof", "fail", "gone"},
     req : U32, pings : 0 .. MaxId]

\* wants: the generation of the last Dial, 0 after a Drop or Hangup.
\* typed: how many lines were submitted per generation.  dialed: the
\* endpoints asked for.  All but gen are history.
Uis ==
    [gen : Gens, want : Gens, begun : BOOLEAN, typed : [Gens -> 0 .. MaxLines],
     lines : 0 .. MaxLines, dialed : [Gens -> Endpoints \cup {NoEndpoint}]]

Setting == {"dial", "peek", "raw", "upgrade", "drain", "decide"}
Phases  == Setting \cup {"deferred", "replay", "loop", "eof", "done", "stopped"}

-----------------------------------------------------------------------------
(* Initial states: one per way of starting the actor *)

InitScope(start) ==
    IF start = "idle" THEN [ep |-> NoEndpoint, on |-> FALSE]
                      ELSE [ep |-> Launch, on |-> HasSasl]

InitUi(start) ==
    [gen    |-> IF start = "idle" THEN 0 ELSE 1,
     want   |-> IF start = "idle" THEN 0 ELSE 1,
     begun  |-> start # "deferred",
     typed  |-> [g \in Gens |-> 0],
     lines  |-> 0,
     dialed |-> [g \in Gens |->
                    IF g = 1 /\ start # "idle" THEN Launch ELSE NoEndpoint]]

InitStart(start) ==
    /\ pc = CASE start = "boot"     -> "dial"
              [] start = "idle"     -> "loop"
              [] start = "deferred" -> "deferred"
    /\ s = IF start = "idle" THEN NoSetup
           ELSE Setup(1, Launch, start = "boot", FALSE, <<>>)
    /\ scope = InitScope(start)
    /\ ui = InitUi(start)

Init ==
    /\ \E start \in Starts : InitStart(start)
    /\ w = Socketless(0, 1, BudgetFrames(Frames))
    /\ cmd = <<>>
    /\ cmdOpen = TRUE
    /\ evt = <<>>
    /\ boot = <<>>
    /\ pumps = [g \in Gens |-> 0]
    /\ fails = [g \in Gens |-> 0]
    /\ conn = [g \in Gens |-> NoConn]
    /\ reader = [g \in Gens |-> [pc |-> "none", req |-> 0, pings |-> 0]]

-----------------------------------------------------------------------------
(* Channels *)

\* A sender of cmd parks while it is full; a send on a closed channel fails
\* at once and the command is lost.
CmdRoom == Len(cmd) < CmdCap
PostCmd(c) == cmd' = IF cmdOpen THEN Append(cmd, c) ELSE cmd
CanPostCmd == cmdOpen => CmdRoom

CanPost == Len(evt) < EvtCap
Post(e, g) == CanPost /\ evt' = Append(evt, Event(e, g))

\* recv yields nothing only on a closed channel that is drained.
CmdEnded == cmd = <<>> /\ ~cmdOpen

AuthScopeDial(sc, ep) == [sc EXCEPT !.on = @ /\ ep = sc.ep]

\* Faulty: the losers of an admission do not count.
AdmitScopeKept(sc, dials) == sc

\* writer_admit_scope: every Dial drained counts, the losers too.
AdmitScope(sc, dials) ==
    [sc EXCEPT !.on = @ /\ \A i \in DOMAIN dials : dials[i].ep = sc.ep]

-----------------------------------------------------------------------------
(* Deferred start: nothing reaches the network before Begin *)

DeferredCommand ==
    /\ pc = "deferred"
    /\ cmd # <<>>
    /\ cmd' = Tail(cmd)
    /\ LET c == Head(cmd) IN
       \/ /\ c.k = "Dial"
          /\ s' = Setup(c.gen, c.ep, FALSE, FALSE, <<>>)
          /\ scope' = AuthScopeDial(scope, c.ep)
          /\ UNCHANGED <<pc, w>>
       \/ /\ c.k \in {"Drop", "Hangup"}
          /\ s' = [s EXCEPT !.none = TRUE]
          /\ UNCHANGED <<pc, w, scope>>
       \/ /\ c.k = "Begin" /\ c.gen = s.gen
          /\ pc' = IF s.none THEN "loop" ELSE "dial"
          /\ w' = [w EXCEPT !.gen = s.gen]
          /\ s' = IF s.none THEN NoSetup ELSE [s EXCEPT !.live = (s.gen = 1)]
          /\ UNCHANGED scope
       \/ /\ \/ c.k \in {"Cont", "Pong", "Pump"}
             \/ c.k = "Begin" /\ c.gen # s.gen
          /\ UNCHANGED <<pc, w, scope, s>>
    /\ UNCHANGED <<cmdOpen, evt, boot, pumps, fails, conn, reader, ui>>

DeferredEnded ==
    /\ pc = "deferred"
    /\ CmdEnded
    /\ pc' = "eof"
    /\ w' = [w EXCEPT !.gen = s.gen]
    /\ UNCHANGED <<scope, s, cmd, cmdOpen, evt, boot, pumps, fails, conn,
                   reader, ui>>

-----------------------------------------------------------------------------
(* Setup *)

\* How a setup that gives up is reported: the launch's through boot, any
\* other as a spawned NetFail.
ReportFailure ==
    IF s.live
    THEN /\ boot = <<>>
         /\ boot' = Append(boot, "Down")
         /\ UNCHANGED fails
    ELSE /\ fails' = [fails EXCEPT ![s.gen] = @ + 1]
         /\ UNCHANGED boot

\* Faulty: a cancelled launch leaves the boot channel empty.
ReportCancelSilent == UNCHANGED boot

\* arm_cancel: a cancelled setup tells no one but the boot channel.
ReportCancel ==
    IF s.live THEN boot = <<>> /\ boot' = Append(boot, "Down")
              ELSE UNCHANGED boot

\* Faulty: the writer keeps the generation it had before the setup.
LeaveIdleOldGen ==
    /\ pc' = "loop"
    /\ w' = Socketless(w.gen, w.ntxn, w.budget)
    /\ s' = NoSetup
    /\ UNCHANGED <<reader, pumps>>

\* The setup ends with no socket: the loop goes on with an empty writer.
\* Kept commands are lost (boot) or replayed on no socket (redial), which
\* comes to the same: WriterQueue without a socket keeps nothing.
LeaveIdle ==
    /\ pc' = "loop"
    /\ w' = Socketless(s.gen, w.ntxn, w.budget)
    /\ s' = NoSetup
    /\ UNCHANGED <<reader, pumps>>

CloseConn(how) == conn' = [conn EXCEPT ![s.gen].st = how]

DialFailed ==
    /\ pc = "dial"
    /\ ReportFailure
    /\ LeaveIdle
    /\ UNCHANGED <<scope, cmd, cmdOpen, evt, conn, ui>>

DialConnected ==
    /\ pc = "dial"
    /\ pc' = "peek"
    /\ s' = [s EXCEPT !.fuel = PeekCap]
    /\ conn' = [conn EXCEPT ![s.gen] = [NoConn EXCEPT !.st = "raw",
                                                      !.ep = s.ep]]
    /\ UNCHANGED <<w, scope, cmd, cmdOpen, evt, boot, pumps, fails, reader, ui>>

\* Faulty: commands queued before the newer Dial follow it to the winner.
AdmitMigrates(st, c) ==
    CASE c.k = "Dial" ->
            [st EXCEPT !.dials = Append(@, [gen |-> c.gen, ep |-> c.ep]),
                       !.dropped = FALSE]
      [] c.k \in {"Drop", "Hangup"} ->
            [st EXCEPT !.kept = Append(@, c), !.dropped = TRUE]
      [] c.k \in {"Cont", "Pong"} ->
            [st EXCEPT !.kept = Append(@, c)]
      [] OTHER -> st

\* admit_consider: what one drained command does to the accumulator.
Admit(st, c) ==
    CASE c.k = "Dial" ->
            [st EXCEPT !.dials = Append(@, [gen |-> c.gen, ep |-> c.ep]),
                       !.kept = <<>>, !.dropped = FALSE]
      [] c.k \in {"Drop", "Hangup"} ->
            [st EXCEPT !.kept = Append(@, c), !.dropped = TRUE]
      [] c.k \in {"Cont", "Pong"} ->
            [st EXCEPT !.kept = Append(@, c)]
      [] OTHER -> st

\* Faulty: any pump ends the drain, a stale one included.
SentinelAny(st, c) == c.k = "Pump"

\* Only the setup's own sentinel ends a drain.
Sentinel(st, c) == c.k = "Pump" /\ c.gen = st.gen

\* writer_peek: what is queued already, without waiting for more.
PeekCommand ==
    /\ pc = "peek"
    /\ s.fuel > 0
    /\ cmd # <<>>
    /\ cmd' = Tail(cmd)
    /\ s' = [Admit(s, Head(cmd)) EXCEPT !.fuel = @ - 1]
    /\ pc' = IF Sentinel(s, Head(cmd)) THEN "raw" ELSE pc
    /\ UNCHANGED <<w, scope, cmdOpen, evt, boot, pumps, fails, conn, reader, ui>>

PeekEnd ==
    /\ pc = "peek"
    /\ s.fuel = 0 \/ cmd = <<>>
    /\ pc' = "raw"
    /\ s' = [s EXCEPT !.closed = @ \/ (s.fuel > 0 /\ CmdEnded)]
    /\ UNCHANGED <<w, scope, cmd, cmdOpen, evt, boot, pumps, fails, conn,
                   reader, ui>>

\* Cmd-close beats Drop, Drop beats a newer Dial, a newer Dial beats this
\* setup.  The same verdict is taken before the upgrade and before
\* registration.
Cancelled(st)  == st.closed \/ st.dropped
Superseded(st) == ~Cancelled(st) /\ st.dials # <<>>

\* The socket is closed without a byte and, for the launch, boot hears of it.
SetupCancel ==
    /\ pc \in {"raw", "decide"}
    /\ Cancelled(s)
    /\ LeaveIdle
    /\ scope' = AdmitScope(scope, s.dials)
    /\ CloseConn("abandoned")
    /\ ReportCancel
    /\ UNCHANGED <<cmd, cmdOpen, evt, fails, ui>>

\* The newest Dial takes over with the commands that followed it.
SetupRetry ==
    /\ pc \in {"raw", "decide"}
    /\ Superseded(s)
    /\ LET d == s.dials[Len(s.dials)]
       IN  s' = Setup(d.gen, d.ep, s.live, s.redial, s.kept)
    /\ pc' = "dial"
    /\ scope' = AdmitScope(scope, s.dials)
    /\ CloseConn("abandoned")
    /\ UNCHANGED <<w, cmd, cmdOpen, evt, boot, pumps, fails, reader, ui>>

SetupUpgrade ==
    /\ pc = "raw"
    /\ ~Cancelled(s) /\ ~Superseded(s)
    /\ pc' = "upgrade"
    /\ UNCHANGED <<w, scope, s, cmd, cmdOpen, evt, boot, pumps, fails, conn,
                   reader, ui>>

UpgradeFailed ==
    /\ pc = "upgrade"
    /\ ReportFailure
    /\ LeaveIdle
    /\ CloseConn("abandoned")
    /\ UNCHANGED <<scope, cmd, cmdOpen, evt, ui>>

\* The sentinel is sent by a task of its own; the drain starts at once.
UpgradeDone ==
    /\ pc = "upgrade"
    /\ pc' = "drain"
    /\ s' = [s EXCEPT !.fuel = DrainCap]
    /\ pumps' = [pumps EXCEPT ![s.gen] = @ + 1]
    /\ conn' = [conn EXCEPT ![s.gen].st = "up",
                            ![s.gen].wanted = IF cmdOpen THEN ui.want ELSE 0]
    /\ UNCHANGED <<w, scope, cmd, cmdOpen, evt, boot, fails, reader, ui>>

\* writer_drain: up to the sentinel.  Out of rounds, it fails closed.
DrainCommand ==
    /\ pc = "drain"
    /\ cmd # <<>>
    /\ cmd' = Tail(cmd)
    /\ LET stop == Sentinel(s, Head(cmd)) IN
       /\ s' = [Admit(s, Head(cmd)) EXCEPT
                    !.fuel = @ - 1,
                    !.closed = @ \/ (~stop /\ s.fuel = 1)]
       /\ pc' = IF stop \/ s.fuel = 1 THEN "decide" ELSE pc
    /\ UNCHANGED <<w, scope, cmdOpen, evt, boot, pumps, fails, conn, reader, ui>>

\* Faulty: the drain waits on for a sentinel that a closed channel lost.
DrainWaits ==
    /\ pc = "drain"
    /\ CmdEnded
    /\ s' = [s EXCEPT !.closed = TRUE]
    /\ UNCHANGED <<pc, w, scope, cmd, cmdOpen, evt, boot, pumps, fails, conn,
                   reader, ui>>

DrainEnded ==
    /\ pc = "drain"
    /\ CmdEnded
    /\ pc' = "decide"
    /\ s' = [s EXCEPT !.closed = TRUE]
    /\ UNCHANGED <<w, scope, cmd, cmdOpen, evt, boot, pumps, fails, conn,
                   reader, ui>>

-----------------------------------------------------------------------------
(* Registration and adoption *)

Register ==
    /\ pc = "decide"
    /\ ~Cancelled(s) /\ ~Superseded(s)
    /\ pc' = "replay"
    /\ w' = Adopted(s.gen, w.ntxn, w.budget)
    /\ conn' = [conn EXCEPT ![s.gen].st = "live",
                            ![s.gen].reg = IF scope.on THEN "sasl" ELSE "plain"]
    /\ UNCHANGED <<scope, s, cmd, cmdOpen, evt, boot, pumps, fails, reader, ui>>

\* The handshake may fail part-way, and so may the reader's descriptor.
RegisterFailed ==
    /\ pc = "decide"
    /\ ~Cancelled(s) /\ ~Superseded(s)
    /\ ReportFailure
    /\ LeaveIdle
    /\ conn' = [conn EXCEPT ![s.gen].st = "abandoned",
                            ![s.gen].reg = IF scope.on THEN "sasl" ELSE "plain"]
    /\ UNCHANGED <<scope, cmd, cmdOpen, evt, ui>>

\* What one outcome of WriterQueue does outside the writer record.
Sending(r, g) ==
    /\ w' = r.w
    /\ conn' = [conn EXCEPT
                    ![g].wire = @ \o r.wire,
                    ![g].st = IF r.ok THEN @ ELSE "failed"]
    /\ fails' = IF r.ok THEN fails ELSE [fails EXCEPT ![g] = @ + 1]
    /\ pumps' = IF r.pump THEN [pumps EXCEPT ![g] = @ + 1] ELSE pumps

\* The outcomes of a queue command on the writer.
QueueOutcomes(c) ==
    CASE c.k = "Cont" -> WriterCont(w, c.lines)
      [] c.k = "Pong" -> WriterPong(w, c.gen, c.lines, c.req)
      [] c.k = "Pump" -> WriterPump(w, c.gen)
      [] OTHER        -> Unmoved(w)

\* writer_kept: the commands that followed the Dial, in order, before the
\* connection is announced.
Replay ==
    /\ pc = "replay"
    /\ s.kept # <<>>
    /\ s' = [s EXCEPT !.kept = Tail(@)]
    /\ \E r \in QueueOutcomes(Head(s.kept)) : Sending(r, w.gen)
    /\ UNCHANGED <<pc, scope, cmd, cmdOpen, evt, boot, reader, ui>>

StartReader(g) ==
    reader' = [reader EXCEPT ![g].pc = "up", ![g].req = PongFirst(g)]

\* arm_reader: the launch hears Booted, then the reader starts.
ArmBoot ==
    /\ pc = "replay"
    /\ s.kept = <<>>
    /\ ~s.redial
    /\ IF s.live THEN boot = <<>> /\ boot' = Append(boot, "Booted")
                 ELSE UNCHANGED boot
    /\ StartReader(w.gen)
    /\ pc' = "loop"
    /\ s' = NoSetup
    /\ UNCHANGED <<w, scope, cmd, cmdOpen, evt, pumps, fails, conn, ui>>

\* writer_admit_dup_ok: a running writer starts the reader, then pumps once.
ArmRedial ==
    /\ pc = "replay"
    /\ s.kept = <<>>
    /\ s.redial
    /\ StartReader(w.gen)
    /\ \E r \in WriterPump(w, w.gen) : Sending(r, w.gen)
    /\ pc' = "loop"
    /\ s' = NoSetup
    /\ UNCHANGED <<scope, cmd, cmdOpen, evt, boot, ui>>

-----------------------------------------------------------------------------
(* The writer loop *)

TakeCommand(k) ==
    /\ pc = "loop"
    /\ cmd # <<>>
    /\ Head(cmd).k \in k
    /\ cmd' = Tail(cmd)

\* dial_superseded: a Dial of the generation already connected is ignored.
DialSuperseded(c) == w.sock /\ c.gen = w.gen

\* The commands that leave the loop where it is: those that feed the queue, a
\* second Begin, a superseded Dial.
WriterSend ==
    /\ TakeCommand({"Cont", "Pong", "Pump", "Begin", "Dial"})
    /\ Head(cmd).k = "Dial" => DialSuperseded(Head(cmd))
    /\ \E r \in QueueOutcomes(Head(cmd)) : Sending(r, w.gen)
    /\ UNCHANGED <<pc, scope, s, cmdOpen, evt, boot, reader, ui>>

\* Drop discards what is queued.
WriterDrop ==
    /\ TakeCommand({"Drop"})
    /\ w' = Emptied(w)
    /\ conn' = IF w.sock THEN [conn EXCEPT ![w.gen].st = "dropped"] ELSE conn
    /\ UNCHANGED <<pc, scope, s, cmdOpen, evt, boot, pumps, fails, reader, ui>>

\* A flush of the whole FIFO and the end of the socket, reported if it failed.
FlushAndClose(report) ==
    IF ~w.sock THEN UNCHANGED <<conn, fails>>
    ELSE \E r \in Flush(w) :
            /\ conn' = [conn EXCEPT
                            ![w.gen].wire = @ \o r.wire,
                            ![w.gen].extra = @ + Len(r.wire),
                            ![w.gen].st = IF r.ok THEN "flushed" ELSE "failed"]
            /\ fails' = IF report /\ ~r.ok
                        THEN [fails EXCEPT ![w.gen] = @ + 1] ELSE fails

WriterHangup ==
    /\ TakeCommand({"Hangup"})
    /\ FlushAndClose(TRUE)
    /\ w' = Emptied(w)
    /\ UNCHANGED <<pc, scope, s, cmdOpen, evt, boot, pumps, reader, ui>>

WriterDial ==
    /\ TakeCommand({"Dial"})
    /\ ~DialSuperseded(Head(cmd))
    /\ FlushAndClose(TRUE)
    /\ w' = Emptied(w)
    /\ scope' = AuthScopeDial(scope, Head(cmd).ep)
    /\ s' = Setup(Head(cmd).gen, Head(cmd).ep, FALSE, TRUE, <<>>)
    /\ pc' = "dial"
    /\ UNCHANGED <<cmdOpen, evt, boot, pumps, reader, ui>>

\* writer_finish: cmd-close flushes, then Eof, then WriterDone.
WriterFinish ==
    /\ pc = "loop"
    /\ CmdEnded
    /\ FlushAndClose(FALSE)
    /\ w' = Emptied(w)
    /\ pc' = "eof"
    /\ UNCHANGED <<scope, s, cmd, cmdOpen, evt, boot, pumps, reader, ui>>

WriterEof ==
    /\ pc = "eof"
    /\ Post("Eof", w.gen)
    /\ pc' = "done"
    /\ UNCHANGED <<w, scope, s, cmd, cmdOpen, boot, pumps, fails, conn, reader, ui>>

WriterDone ==
    /\ pc = "done"
    /\ Post("WriterDone", w.gen)
    /\ pc' = "stopped"
    /\ UNCHANGED <<w, scope, s, cmd, cmdOpen, boot, pumps, fails, conn, reader, ui>>

-----------------------------------------------------------------------------
(* Spawned one-shot tasks *)

PumpSend(g) ==
    /\ pumps[g] > 0
    /\ CanPostCmd
    /\ pumps' = [pumps EXCEPT ![g] = @ - 1]
    /\ PostCmd(Pump(g))
    /\ UNCHANGED <<pc, w, scope, s, cmdOpen, evt, boot, fails, conn, reader, ui>>

FailPost(g) ==
    /\ fails[g] > 0
    /\ Post("NetFail", g)
    /\ fails' = [fails EXCEPT ![g] = @ - 1]
    /\ UNCHANGED <<pc, w, scope, s, cmd, cmdOpen, boot, pumps, conn, reader, ui>>

-----------------------------------------------------------------------------
(* The reader of generation g *)

ReaderAt(g, at) == reader[g].pc = at
ReaderGo(g, to) == reader' = [reader EXCEPT ![g].pc = to]

ReaderUp(g) ==
    /\ ReaderAt(g, "up")
    /\ Post("Up", g)
    /\ ReaderGo(g, "recv")
    /\ UNCHANGED <<pc, w, scope, s, cmd, cmdOpen, boot, pumps, fails, conn, ui>>

\* A read with a PING, one without, the end of the stream, or an error.
\* A shut-down socket ends; what was buffered before may still be read.
ReaderRecv(g) ==
    /\ ReaderAt(g, "recv")
    /\ \/ /\ reader[g].pings < MaxPings
          /\ reader' = [reader EXCEPT ![g].pc = "pong", ![g].pings = @ + 1]
       \/ ReaderGo(g, "chunk")
       \/ ReaderGo(g, "eof")
       \/ ReaderGo(g, "fail")
    /\ UNCHANGED <<pc, w, scope, s, cmd, cmdOpen, evt, boot, pumps, fails,
                   conn, ui>>

\* The reply goes to the writer before the chunk goes to the UI.
ReaderPong(g) ==
    /\ ReaderAt(g, "pong")
    /\ CanPostCmd
    /\ PostCmd(Pong(g, <<[from |-> "pong", gen |-> g, id |-> reader[g].pings]>>,
                    reader[g].req))
    /\ reader' = [reader EXCEPT ![g].pc = "chunk",
                                ![g].req = NextPongTxn(@)]
    /\ UNCHANGED <<pc, w, scope, s, cmdOpen, evt, boot, pumps, fails, conn, ui>>

ReaderChunk(g) ==
    /\ ReaderAt(g, "chunk")
    /\ Post("Chunk", g)
    /\ ReaderGo(g, "recv")
    /\ UNCHANGED <<pc, w, scope, s, cmd, cmdOpen, boot, pumps, fails, conn, ui>>

ReaderStop(g) ==
    /\ \/ ReaderAt(g, "eof") /\ Post("Eof", g)
       \/ ReaderAt(g, "fail") /\ Post("NetFail", g)
    /\ ReaderGo(g, "gone")
    /\ UNCHANGED <<pc, w, scope, s, cmd, cmdOpen, boot, pumps, fails, conn, ui>>

-----------------------------------------------------------------------------
(* The open UI *)

\* The generation a line submitted now belongs to: none before Begin, and
\* none after a Drop or Hangup.
Owner == IF ui.begun THEN ui.want ELSE 0

NewLines(g, n) ==
    [i \in 1 .. n |-> [from |-> "ui", gen |-> g, id |-> ui.typed[g] + i]]

UiSend(c) ==
    /\ cmdOpen
    /\ CmdRoom
    /\ cmd' = Append(cmd, c)
    /\ UNCHANGED <<actorVars, cmdOpen, evt>>

UiCont(n) ==
    /\ ui.lines + n <= MaxLines
    /\ UiSend(Cont(NewLines(Owner, n)))
    /\ ui' = [ui EXCEPT !.typed[Owner] = @ + n, !.lines = @ + n]

UiDial(ep) ==
    /\ ui.gen + 1 \in Gens
    /\ UiSend(Dial(ui.gen + 1, ep))
    /\ ui' = [ui EXCEPT !.gen = @ + 1, !.want = ui.gen + 1,
                        !.dialed[ui.gen + 1] = ep]

UiCut ==
    /\ UiSend(Drop) \/ UiSend(Hangup)
    /\ ui' = [ui EXCEPT !.want = 0]

UiBegin ==
    /\ ~ui.begun
    /\ UiSend(Begin(ui.gen))
    /\ ui' = [ui EXCEPT !.begun = TRUE]

UiClose ==
    /\ cmdOpen
    /\ cmdOpen' = FALSE
    /\ UNCHANGED <<actorVars, cmd, evt, ui>>

UiTake ==
    /\ evt # <<>>
    /\ evt' = Tail(evt)
    /\ UNCHANGED <<actorVars, cmd, cmdOpen, ui>>

-----------------------------------------------------------------------------
(* The specification *)

\* The outcomes of the network that no one can wait for are split from the
\* steps the actor takes by itself.
WriterStep ==
    \/ DeferredCommand \/ DeferredEnded
    \/ DialFailed \/ DialConnected
    \/ PeekCommand \/ PeekEnd
    \/ SetupCancel \/ SetupRetry \/ SetupUpgrade
    \/ UpgradeFailed \/ UpgradeDone
    \/ DrainCommand \/ DrainEnded
    \/ Register \/ RegisterFailed \/ Replay \/ ArmBoot \/ ArmRedial
    \/ WriterSend \/ WriterDrop \/ WriterHangup \/ WriterDial
    \/ WriterFinish \/ WriterEof \/ WriterDone

ReaderStep(g) ==
    ReaderUp(g) \/ ReaderRecv(g) \/ ReaderPong(g) \/ ReaderChunk(g)
    \/ ReaderStop(g)

UiCommand ==
    \/ \E n \in 1 .. MaxBatch : UiCont(n)
    \/ \E ep \in Endpoints : UiDial(ep)
    \/ UiCut \/ UiBegin \/ UiClose

\* The actor has stopped and every task it spawned is gone or is waiting for
\* the server: the process may exit.
Stopped == pc = "stopped" /\ UNCHANGED vars

Next ==
    \/ WriterStep
    \/ \E g \in Gens : PumpSend(g) \/ FailPost(g) \/ ReaderStep(g)
    \/ UiCommand \/ UiTake
    \/ Stopped

Spec == Init /\ [][Next]_vars

\* The runtime schedules the writer and the tasks it spawns, a task parked on
\* a channel is served in turn (hence strong fairness: another sender may take
\* the room first), the UI drains its events, and DNS, connect, TLS and sends
\* end by their deadlines.  Nothing is asked of the server, so nothing of the
\* readers.
Fairness ==
    /\ SF_vars(WriterStep)
    /\ SF_vars(\E g \in Gens : PumpSend(g))
    /\ WF_vars(UiTake)

FairSpec == Spec /\ Fairness

-----------------------------------------------------------------------------
(* Properties *)

\* Type correctness.
TypeOK ==
    /\ pc \in Phases
    /\ w \in Writers
    /\ scope \in Scopes
    /\ s \in Setups
    /\ cmd \in Seq(Commands)
    /\ cmdOpen \in BOOLEAN
    /\ evt \in Seq(Events)
    /\ boot \in Seq({"Booted", "Down"})
    /\ pumps \in [Gens -> Nat]
    /\ fails \in [Gens -> Nat]
    /\ conn \in [Gens -> Conns]
    /\ reader \in [Gens -> Readers]
    /\ ui \in Uis

\* The lines of one producer and generation in a row of batches: their
\* identities, and that they lie in the order they were made, none twice.
Of(line, from, g) == line.from = from /\ line.gen = g

IdsOf(batches, from, g) ==
    {n \in 1 .. MaxId : \E b \in DOMAIN batches : \E i \in DOMAIN batches[b] :
        Of(batches[b][i], from, g) /\ batches[b][i].id = n}

Rising(batches, from, g) ==
    \A b, c \in DOMAIN batches :
        \A i \in DOMAIN batches[b], j \in DOMAIN batches[c] :
            /\ b < c \/ (b = c /\ i < j)
            /\ Of(batches[b][i], from, g) /\ Of(batches[c][j], from, g)
            => batches[b][i].id < batches[c][j].id

\* All of the first n; the first ones, however many.
Numbered(batches, from, g, n) ==
    Rising(batches, from, g) /\ IdsOf(batches, from, g) = 1 .. n

Gapless(batches, from, g) ==
    /\ Rising(batches, from, g)
    /\ \A n \in IdsOf(batches, from, g) : 1 .. n \subseteq IdsOf(batches, from, g)

WireLines(g) == [i \in 1 .. Len(conn[g].wire) |-> conn[g].wire[i].line]

\* A socket carries only lines submitted for its own generation, each at most
\* once, in order and without a gap, UI lines and replies alike: nothing is
\* replayed after a failed send, a line typed before a Dial never migrates to
\* the winner, a stale reader's reply never reaches a newer connection.
WireInOrder ==
    \A g \in Gens :
        /\ \A i \in DOMAIN WireLines(g) : WireLines(g)[i].gen = g
        /\ \A from \in {"ui", "pong"} : Gapless(<<WireLines(g)>>, from, g)

\* The request ID the reader of g mints for its n-th reply.
ReplyTxn(g, n) ==
    IF n <= PongStride /\ g < PongGens THEN PongFirst(g) + n - 1 ELSE 0

\* Every reply is sent under the request ID its reader minted for it, and
\* every UI line under a batch ID below the PONG space: the two parallel
\* lists of the queue never slip against each other.
TraceIdsAligned ==
    \A g \in Gens : \A i \in DOMAIN conn[g].wire :
        LET m == conn[g].wire[i] IN
        IF m.line.from = "pong" THEN m.txn = ReplyTxn(g, m.line.id)
                                ELSE m.txn \in 1 .. PongTxn - 1

\* The batches that commands carry to the writer.
Carried(c) == IF c.k \in {"Cont", "Pong"} THEN c.lines ELSE <<>>
Load(commands) == [i \in DOMAIN commands |-> Carried(commands[i])]

\* The generation the kept commands belong to.
KeptFor == IF s.dials = <<>> THEN s.gen ELSE s.dials[Len(s.dials)].gen

\* A generation whose connection is being set up or is up and healthy.
InPlay(g) ==
    \/ pc \in {"replay", "loop"} /\ w.sock /\ w.gen = g
    \/ pc \in Setting /\ KeptFor = g /\ ~Cancelled(s)

\* What was submitted for generation g and not dropped: on its socket, queued
\* in the writer, kept by a setup, and on its way.
Path(g) ==
    <<WireLines(g)>> \o <<w.pending>>
        \o Load(IF pc \in Setting \cup {"replay"} THEN s.kept ELSE <<>>)
        \o Load(cmd)

\* While a generation is in play, none of its UI lines is lost, duplicated or
\* out of order anywhere between the UI and the socket; and an orderly end
\* (Hangup, a newer Dial, cmd-close) leaves every line on the wire.
NothingLost ==
    \A g \in Gens \ {0} :
        /\ InPlay(g) => Numbered(Path(g), "ui", g, ui.typed[g])
        /\ conn[g].st = "flushed" =>
             Numbered(<<WireLines(g)>>, "ui", g, ui.typed[g])

\* Registration reaches a server only if its Dial was still what the UI
\* wanted when the transport came up: any Dial, Drop, Hangup or close queued
\* by then wins (the admission drain).
RegisteredWanted ==
    \A g \in Gens : conn[g].reg # "none" => conn[g].wanted = g

\* SASL is offered to the launch endpoint only, and to no one any more once a
\* Dial has left it.
CredentialScope ==
    \A g \in Gens : conn[g].reg = "sasl" =>
        /\ HasSasl /\ conn[g].ep = Launch
        /\ \A h \in Gens : h <= g => ui.dialed[h] \in {Launch, NoEndpoint}

\* A pump of generation g is on its way to the writer.
PumpComing(g) == pumps[g] > 0 \/ \E i \in DOMAIN cmd : cmd[i] = Pump(g)

\* No lost wakeup: lines the budget still allows never wait without a pump
\* that will come to send them.
NoLostWakeup ==
    /\ cmdOpen
    /\ w.pending # <<>>
    /\ BudgetOpen(w.budget)
    => PumpComing(w.gen)

\* The lines a connection took from the budget and put on its wire.
Taken == [g \in Gens |-> Len(conn[g].wire) - conn[g].extra]

\* The connections that ended in the middle of a send.
Broken == {g \in Gens : conn[g].st = "failed"}

\* A limited budget is spent line by line, over all connections together: the
\* lines sent and what is left never exceed SEND_CAP for each frame, and fall
\* short of it only by what failed sends took and lost, less than a batch
\* each.  The lines an orderly end flushes are outside the budget.
FrameBudget ==
    w.budget.limited =>
        LET all   == Frames * SEND_CAP
            known == SumFunction(Taken) + w.budget.turns * SEND_CAP + w.budget.credit
        IN  known <= all /\ all <= known + Cardinality(Broken) * (SEND_CAP - 1)

\* The pumps of generation g on their way to the writer.
PumpsOf(g) ==
    pumps[g] + Cardinality({i \in DOMAIN cmd : cmd[i] = Pump(g)})

\* "One scheduled flag permits at most one outstanding pump for this
\* generation" (the comment above writer_schedule).
OneOutstandingPump ==
    pc = "loop" /\ w.sock => PumpsOf(w.gen) <= 1

\* Closing the command channel ends the actor with its acknowledgement.
StopsWhenClosed == ~cmdOpen ~> pc = "stopped"

\* The launch always learns how its setup ended, whatever it was overtaken by.
LaunchAnswered == s.live => <>(boot # <<>>)

\* Whatever is queued is sent, or the connection ends.
PendingSent ==
    (w.pending # <<>> /\ BudgetOpen(w.budget))
        ~> (w.pending = <<>> \/ ~BudgetOpen(w.budget))
=============================================================================
