----------------------------- MODULE MCNetActor -----------------------------
EXTENDS NetActor

\* What the safety runs tell states apart by: the events waiting in evt are
\* never read back by the actor, only their number is.
ActorView == <<pc, w, scope, s, cmd, cmdOpen, Len(evt), boot, pumps, fails,
               conn, reader, ui>>

\* The launch and one redial.
MCGens == 0 .. 1
=============================================================================
