---------------------------- MODULE MCAdmission ----------------------------
(***************************************************************************)
(* Four scenarios, each an instance with its own bounds; a behaviour stays *)
(* in the one its initial state picks.                                     *)
(*   queue:     one connection, a budget of three frames of two lines,     *)
(*              seven lines, or two and PINGs past the end of their IDs    *)
(*   redials:   two connections in a row that share such a budget, three   *)
(*              lines over both                                            *)
(*   admission: two endpoints, two generations, every way of starting      *)
(*   loop:      the actor closed by the single-server UI loop, three       *)
(*              generations                                                *)
(* What only the loop uses rests in the others.                            *)
(***************************************************************************)
EXTENDS Live

VARIABLE scenario
suiteVars == <<allVars, scenario>>

MCGens == 0 .. 3

Admission == INSTANCE NetActor WITH
    Frames <- 0, MaxBatch <- 1, MaxLines <- 0, MaxPings <- 0

Redials == INSTANCE NetActor WITH
    CmdCap <- 1, MaxPings <- 0, MaxBatch <- 2, MaxLines <- 3, Endpoints <- {Launch}

Loop == INSTANCE Live WITH
    Frames <- 0, CmdCap <- 1, MaxPings <- 0, Endpoints <- {Launch},
    Starts <- {"deferred"}

\* The loop at rest, as after its end.
Parked ==
    /\ net = "Offline" /\ auto = FALSE /\ out = <<>>
    /\ timers = [g \in Gens |-> 0]
    /\ heard = FALSE /\ beats = 0 /\ quit = "done"

\* What the runs tell states apart by: the events waiting in evt are never
\* read back by the actor, only their number is; the loop reads them.
SuiteView ==
    <<pc, w, scope, s, cmd, cmdOpen, boot, pumps, fails, conn, reader, ui,
      liveVars, scenario, IF scenario = "loop" THEN evt ELSE <<Len(evt)>> >>

SuiteInit ==
    \/ scenario = "queue" /\ Init /\ pc = "loop" /\ Parked
    \/ scenario = "redials" /\ Redials!Init /\ pc = "loop" /\ Parked
    \/ scenario = "admission" /\ Admission!Init /\ Parked
    \/ scenario = "loop" /\ Loop!LiveInit

\* Bound: one Dial, to the launch endpoint, and PINGs with at most two lines.
QueueStep ==
    /\ scenario = "queue" /\ UNCHANGED <<liveVars, scenario>>
    /\ Next
    /\ ui'.gen <= 1 /\ ui'.dialed[1] \in {Launch, NoEndpoint}
    /\ reader'[1].pings = 0 \/ ui'.lines <= 2

\* Bound: two Dials, no Drop or Hangup.
RedialsStep ==
    /\ scenario = "redials" /\ UNCHANGED <<liveVars, scenario>>
    /\ Redials!Next
    /\ ui'.gen <= 2 /\ ui'.want = ui'.gen

\* Bound: two Dials.
AdmissionStep ==
    /\ scenario = "admission" /\ UNCHANGED <<liveVars, scenario>>
    /\ Admission!Next
    /\ ui'.gen <= 2

\* Bound: the third generation is dialled and never connects.
LoopsStep ==
    /\ scenario = "loop" /\ UNCHANGED scenario
    /\ Loop!LiveNext
    /\ conn'[3].st = "none"

SuiteSpec ==
    SuiteInit /\ [][QueueStep \/ RedialsStep \/ AdmissionStep \/ LoopsStep]_suiteVars
=============================================================================
