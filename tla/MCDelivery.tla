----------------------------- MODULE MCDelivery -----------------------------
(***************************************************************************)
(* Two scenarios of the network actor with three generations:              *)
(*   lines:   batches of UI lines, from the launch on                      *)
(*   replies: PINGs answered by each generation's reader                   *)
(***************************************************************************)
EXTENDS NetActor

VARIABLE scenario
suiteVars == <<vars, scenario>>

MCGens == 0 .. 2

Replies == INSTANCE NetActor WITH
    Starts <- {"idle"}, MaxLines <- 0, MaxPings <- 1

ActorView == <<pc, w, scope, s, cmd, cmdOpen, Len(evt), boot, pumps, fails,
               conn, reader, ui, scenario>>

SuiteInit ==
    \/ scenario = "lines" /\ Init
    \/ scenario = "replies" /\ Replies!Init

LinesStep   == scenario = "lines" /\ Next /\ UNCHANGED scenario
RepliesStep == scenario = "replies" /\ Replies!Next /\ UNCHANGED scenario

SuiteSpec == SuiteInit /\ [][LinesStep \/ RepliesStep]_suiteVars
=============================================================================
