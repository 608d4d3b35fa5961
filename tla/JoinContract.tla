---------------------------- MODULE JoinContract ----------------------------
(***************************************************************************)
(* What src/bend/join_plan.bend promises of a connection, with none of how *)
(* it keeps it: the desired channels are joined once per connection, after *)
(* the server welcomed us on it, after this connection's own proof of      *)
(* identity when the launch asked for one, and never while the endpoint's  *)
(* saved settings are still being read.                                    *)
(***************************************************************************)

VARIABLES
    stage,         \* how far this connection got
    proof,         \* this connection's proof of identity
    settings       \* the saved settings of this endpoint

contractVars == <<stage, proof, settings>>

Stages == {"down", "registering", "welcomed", "recovered"}
Proofs == {"unneeded", "awaited", "given"}
Settings == {"loading", "loaded"}

CInit ==
    /\ stage = "down" /\ proof = "unneeded"
    /\ settings \in Settings

\* Losing or replacing the connection; another endpoint's settings load anew.
CDown ==
    /\ stage' = "down" /\ proof' = "unneeded"
    /\ settings' \in Settings

CUp ==
    /\ stage = "down" /\ stage' = "registering"
    /\ proof' \in {"unneeded", "awaited"}
    /\ UNCHANGED settings

CWelcome ==
    /\ stage = "registering" /\ stage' = "welcomed"
    /\ UNCHANGED <<proof, settings>>

CProve ==
    /\ stage # "down" /\ proof = "awaited" /\ proof' = "given"
    /\ UNCHANGED <<stage, settings>>

CLoaded ==
    /\ settings = "loading" /\ settings' = "loaded"
    /\ UNCHANGED <<stage, proof>>

\* The line or result that completes the conditions may be the one that
\* sends the JOINs.
CRecover ==
    /\ stage = "welcomed" /\ stage' = "recovered"
    /\ \/ proof = "awaited" /\ proof' = "given"
       \/ proof # "awaited" /\ proof' = proof
    /\ settings' = "loaded"

CNext == CDown \/ CUp \/ CWelcome \/ CProve \/ CLoaded \/ CRecover

CSpec == CInit /\ [][CNext]_contractVars
=============================================================================
