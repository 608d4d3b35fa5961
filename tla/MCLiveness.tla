----------------------------- MODULE MCLiveness -----------------------------
(***************************************************************************)
(* Three scenarios for liveness, under the fairness of the runtime:        *)
(*   redials: three generations of the actor, every command, from the      *)
(*            launch on                                                    *)
(*   lines:   the launch's connection, three lines and a PING              *)
(*   loop:    the actor closed by the single-server UI loop, three         *)
(*            generations                                                  *)
(* with one slot in either channel.  What only the loop uses rests in the  *)
(* other two.                                                              *)
(***************************************************************************)
EXTENDS Live

VARIABLE scenario
suiteVars == <<allVars, scenario>>

MCGens == 0 .. 2

Redials == INSTANCE NetActor WITH
    Starts <- {"boot"}, MaxLines <- 0, MaxPings <- 0

Lines == INSTANCE NetActor WITH Starts <- {"boot"}

Loop == INSTANCE Live WITH
    Starts <- {"boot", "deferred"}, MaxLines <- 0, MaxPings <- 0

\* The loop at rest, as after its end.
Parked ==
    /\ net = "Offline" /\ auto = FALSE /\ out = <<>>
    /\ timers = [g \in Gens |-> 0]
    /\ heard = FALSE /\ beats = 0 /\ quit = "done"

SuiteInit ==
    \/ scenario = "redials" /\ Redials!Init /\ Parked
    \/ scenario = "lines" /\ Lines!Init /\ Parked
    \/ scenario = "loop" /\ Loop!LiveInit

In(name) == scenario = name /\ UNCHANGED scenario
Resting == UNCHANGED liveVars

RedialsStep == In("redials") /\ Redials!Next /\ Resting

\* Bound: one Dial.
LinesStep == In("lines") /\ Lines!Next /\ ui'.gen <= 1 /\ Resting

LoopsStep == In("loop") /\ Loop!LiveNext

\* The tasks of the process, which ends with its loop.
Running == scenario = "loop" => quit # "done"
WriterTurn == Running /\ WriterStep /\ Resting /\ UNCHANGED scenario
PumpTurn ==
    Running /\ (\E g \in Gens : PumpSend(g)) /\ Resting /\ UNCHANGED scenario
TakeTurn == scenario # "loop" /\ UiTake /\ Resting /\ UNCHANGED scenario
LoopTurn == In("loop") /\ LoopStep

SuiteSpec ==
    /\ SuiteInit /\ [][RedialsStep \/ LinesStep \/ LoopsStep]_suiteVars
    /\ SF_suiteVars(WriterTurn) /\ SF_suiteVars(PumpTurn)
    /\ WF_suiteVars(TakeTurn) /\ SF_suiteVars(LoopTurn)

-----------------------------------------------------------------------------
(* The actor's promises, to a UI that goes on taking events.               *)

\* Closing the command channel ends the actor with its acknowledgement, from
\* every phase (StopsWhenClosed).
CloseAcknowledged == scenario # "loop" => StopsWhenClosed

\* The launch always learns how its setup ended (LaunchAnswered).
BootAnswered == scenario # "loop" => LaunchAnswered

\* Whatever is queued is sent, or the connection ends (PendingSent).
QueueDrains == scenario # "loop" => PendingSent
=============================================================================
