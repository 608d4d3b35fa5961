-------------------------------- MODULE Live --------------------------------
(***************************************************************************)
(* The single-server UI loop (net.bend) closed over the network actor: the *)
(* session's connection state, automatic reconnection by timers, /connect, *)
(* the blocking send on cmd, the heartbeat and the shutdown wait.          *)
(*                                                                         *)
(* The actor's actions are NetActor's; its open UI is replaced by this     *)
(* loop.  The loop is one fiber: while a command waits for room in cmd it  *)
(* reads no event.  Reconnect timers and the boot watcher answer through   *)
(* evt like the actor does.                                                *)
(***************************************************************************)
EXTENDS NetActor

CONSTANTS
    MaxBeats       \* bound: heartbeats sent

VARIABLES
    net,       \* the session's NetState
    auto,      \* its autoreconnect setting
    out,       \* commands of the UI's current step, not yet in cmd
    timers,    \* running reconnect_watch tasks, per generation
    heard,     \* whether boot_watch has read the boot channel
    beats,     \* heartbeats sent
    quit       \* the loop: run, leaving, wait (for WriterDone), done

liveVars == <<net, auto, out, timers, heard, beats, quit>>
allVars == <<vars, liveVars>>

Dialing == {"Connecting", "Reconnecting"}

LoopInit ==
    /\ net = "Connecting"
    /\ auto \in BOOLEAN
    /\ out = <<>>
    /\ timers = [g \in Gens |-> 0]
    /\ heard = FALSE
    /\ beats = 0
    /\ quit = "run"

LiveInit == Init /\ LoopInit

\* What the loop leaves alone when it only changes its own state.
ActorKept == UNCHANGED <<actorVars, cmd, cmdOpen>>

-----------------------------------------------------------------------------
(* One step of the loop *)

Ready == quit = "run" /\ out = <<>>

\* emit_cmd of a Dial numbers it with the next generation.
Dials(ep) ==
    /\ ui.gen + 1 \in Gens
    /\ out' = <<Dial(ui.gen + 1, ep)>>
    /\ ui' = [ui EXCEPT !.gen = @ + 1, !.dialed[ui.gen + 1] = ep]

\* What the loop asks of the actor once c is in cmd.
Wanting(c) ==
    CASE c.k = "Dial"              -> c.gen
      [] c.k \in {"Drop", "Hangup"} -> 0
      [] OTHER                      -> ui.want

\* A blocked send: the loop goes on when cmd has room.  A reconnect_watch is
\* spawned after its Hangup is in.
SendOut ==
    /\ out # <<>>
    /\ UiSend(Head(out))
    /\ out' = Tail(out)
    /\ timers' = IF Head(out).k = "Hangup"
                 THEN [timers EXCEPT ![ui.gen] = @ + 1] ELSE timers
    /\ ui' = [ui EXCEPT !.want = Wanting(Head(out))]
    /\ UNCHANGED <<net, auto, heard, beats, quit>>

\* Faulty: a second failure starts no timer while any timer runs.
LostOnce ==
    /\ net' = IF auto THEN "Reconnecting" ELSE "Offline"
    /\ out' = IF ~auto THEN <<Drop>>
              ELSE IF \A g \in Gens : timers[g] = 0 THEN <<Hangup>> ELSE <<>>
    /\ UNCHANGED ui

\* session_fail and session_autoreconnect: the dead socket is flushed and
\* closed and a timer started, or what is queued is dropped.
Lost ==
    /\ net' = IF auto THEN "Reconnecting" ELSE "Offline"
    /\ out' = <<IF auto THEN Hangup ELSE Drop>>
    /\ UNCHANGED ui

Current(e) == e.gen = ui.gen

\* Faulty: a timer of an earlier generation redials too.
ElapsedAny(e) ==
    \/ auto /\ Dials(ui.dialed[e.gen]) /\ UNCHANGED net
    \/ ~auto /\ net' = "Offline" /\ UNCHANGED <<out, ui>>

\* on_reconnect: only the timer of the current generation counts, and only
\* while autoreconnect is still on.
Elapsed(e) ==
    \/ ~Current(e) /\ UNCHANGED <<net, out, ui>>
    \/ Current(e) /\ auto /\ Dials(ui.dialed[e.gen]) /\ UNCHANGED net
    \/ Current(e) /\ ~auto /\ net' = "Offline" /\ UNCHANGED <<out, ui>>

\* on_evt, for events of the current generation.
Noticed(e) ==
    \/ e.e = "Up" /\ net' = "Online" /\ UNCHANGED <<out, ui>>
    \/ e.e \in {"Eof", "NetFail"} /\ Lost
    \/ e.e \in {"Chunk", "WriterDone"} /\ UNCHANGED <<net, out, ui>>

TakeEvent ==
    /\ Ready
    /\ evt # <<>>
    /\ evt' = Tail(evt)
    /\ LET e == Head(evt) IN
       \/ e.e = "Reconnect" /\ Elapsed(e)
       \/ e.e # "Reconnect" /\ ~Current(e) /\ UNCHANGED <<net, out, ui>>
       \/ e.e \notin {"Reconnect", "InitialFail"} /\ Current(e) /\ Noticed(e)
    /\ ActorKept
    /\ UNCHANGED <<auto, timers, heard, beats, quit>>

\* A failed launch ends the program.
TakeInitialFail ==
    /\ Ready
    /\ evt # <<>>
    /\ Head(evt).e = "InitialFail" /\ Current(Head(evt))
    /\ evt' = Tail(evt)
    /\ cmdOpen' = FALSE
    /\ quit' = "done"
    /\ UNCHANGED <<actorVars, cmd, ui, net, auto, out, timers, heard, beats>>

\* /connect and /reconnect: refused while a dial is under way.
Connect(ep) ==
    /\ Ready
    /\ net \notin Dialing
    /\ Dials(ep)
    /\ net' = IF ep = ui.dialed[ui.gen] THEN "Reconnecting" ELSE "Connecting"
    /\ ActorKept
    /\ UNCHANGED <<evt, auto, timers, heard, beats, quit>>

\* The autoreconnect setting, by command or from loaded preferences.
SetAuto ==
    /\ Ready
    /\ auto' = ~auto
    /\ ActorKept
    /\ UNCHANGED <<evt, ui, net, out, timers, heard, beats, quit>>

\* history.install: the settings and the archive are in, the launch may dial.
StartDial ==
    /\ Ready
    /\ ~ui.begun
    /\ out' = <<Begin(ui.gen)>>
    /\ ui' = [ui EXCEPT !.begun = TRUE]
    /\ ActorKept
    /\ UNCHANGED <<evt, net, auto, timers, heard, beats, quit>>

-----------------------------------------------------------------------------
(* Shutdown *)

Beat == <<[from |-> "ui", gen |-> 0, id |-> 1]>>

\* QUIT goes out only while online.
Quit ==
    /\ Ready
    /\ quit' = "leaving"
    /\ out' = IF net = "Online" THEN <<Cont(Beat)>> ELSE <<>>
    /\ ActorKept
    /\ UNCHANGED <<evt, ui, net, auto, timers, heard, beats>>

\* shutdown_waits: a dial parked inside connect is not waited for.
ShutdownWaits == net \notin Dialing

Close ==
    /\ quit = "leaving"
    /\ out = <<>>
    /\ cmdOpen' = FALSE
    /\ quit' = IF ShutdownWaits THEN "wait" ELSE "done"
    /\ UNCHANGED <<actorVars, cmd, evt, ui, net, auto, out, timers, heard, beats>>

\* Only WriterDone of the current generation releases the loop.
ShutdownTake ==
    /\ quit = "wait"
    /\ evt # <<>>
    /\ evt' = Tail(evt)
    /\ quit' = IF Head(evt) = Event("WriterDone", ui.gen) THEN "done" ELSE quit
    /\ ActorKept
    /\ UNCHANGED <<ui, net, auto, out, timers, heard, beats>>

-----------------------------------------------------------------------------
(* The other tasks *)

\* reconnect_watch: two seconds later it posts.
TimerFire(g) ==
    /\ timers[g] > 0
    /\ Post("Reconnect", g)
    /\ timers' = [timers EXCEPT ![g] = @ - 1]
    /\ ActorKept
    /\ UNCHANGED <<ui, net, auto, out, heard, beats, quit>>

\* boot_watch: only Down is passed on, as generation 1's InitialFail.
BootWatch ==
    /\ ~heard
    /\ boot # <<>>
    /\ IF Head(boot) = "Down" THEN Post("InitialFail", 1) ELSE UNCHANGED evt
    /\ heard' = TRUE
    /\ ActorKept
    /\ UNCHANGED <<ui, net, auto, out, timers, beats, quit>>

\* The heartbeat writes to cmd from a task of its own, online or not.
Heartbeat ==
    /\ beats < MaxBeats
    /\ UiSend(Cont(Beat))
    /\ beats' = beats + 1
    /\ UNCHANGED <<ui, net, auto, out, timers, heard, quit>>

ActorTasks ==
    \E g \in Gens : PumpSend(g) \/ FailPost(g) \/ ReaderStep(g)

ActorTurn ==
    /\ WriterStep \/ ActorTasks
    /\ UNCHANGED liveVars

LoopStep == SendOut \/ TakeEvent \/ TakeInitialFail \/ Close \/ ShutdownTake

LiveNext ==
    \/ quit # "done" /\
        \/ ActorTurn \/ LoopStep
        \/ \E ep \in Endpoints : Connect(ep)
        \/ SetAuto \/ StartDial \/ Quit
        \/ \E g \in Gens : TimerFire(g)
        \/ BootWatch \/ Heartbeat
    \/ quit = "done" /\ UNCHANGED allVars

\* As NetActor's, with the loop itself in the place of its open UI: a task
\* parked on a channel is served in turn, a timer fires.
LiveFairness ==
    /\ SF_allVars(quit # "done" /\ WriterStep /\ UNCHANGED liveVars)
    /\ SF_allVars(quit # "done" /\ (\E g \in Gens : PumpSend(g)) /\ UNCHANGED liveVars)
    /\ SF_allVars(LoopStep)

LiveSpec == LiveInit /\ [][LiveNext]_allVars /\ LiveFairness

-----------------------------------------------------------------------------
(* Properties *)

\* An event of generation g that changes what the session believes.
Telling(g) ==
    \E i \in DOMAIN evt : evt[i].gen = g
        /\ evt[i].e \in {"Up", "Eof", "NetFail", "Reconnect", "InitialFail"}

\* The Dial of generation g is queued or being set up, uncancelled.
DialComing(g) ==
    \/ \E i \in DOMAIN out : out[i].k = "Dial"
    \/ \E i \in DOMAIN cmd : cmd[i].k = "Dial" /\ cmd[i].gen = g
    \/ pc \in Setting /\ KeptFor = g /\ ~Cancelled(s)
    \/ pc = "deferred" /\ s.gen = g /\ ~s.none

\* A session that shows "connecting" is never forgotten: its dial is under
\* way, its outcome is on its way to the loop, or its timer runs.  Otherwise
\* it would stay so for ever, since /connect is refused meanwhile.
NeverOrphaned ==
    (net \in Dialing /\ quit = "run") =>
        LET g == ui.gen IN
        \/ DialComing(g)
        \/ pc = "replay" /\ w.gen = g
        \/ Telling(g)
        \/ timers[g] > 0 \/ out = <<Hangup>>
        \/ fails[g] > 0
        \/ reader[g].pc \in {"up", "eof", "fail"}
        \/ ~heard /\ boot = <<"Down">> /\ g = 1

\* A timer dials only for a connection that has failed: it never overtakes a
\* newer dial, by hand or by another timer, nor cuts a healthy connection.
RedialOnlyDead ==
    [][(evt # <<>> /\ Head(evt).e = "Reconnect" /\ evt' = Tail(evt)
        /\ ui'.gen # ui.gen)
       => /\ ~DialComing(ui.gen)
          /\ \/ conn[ui.gen].st \notin {"up", "live"}
             \/ reader[ui.gen].pc \in {"eof", "fail", "gone"}]_allVars

\* The loop's send on a full cmd always completes although the loop takes no
\* event meanwhile, and a quit that waits always gets its acknowledgement.
LoopMovesOn ==
    /\ out # <<>> ~> out = <<>>
    /\ quit = "wait" ~> quit = "done"
=============================================================================
