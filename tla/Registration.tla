---------------------------- MODULE Registration ----------------------------
(***************************************************************************)
(* One session's connection from the handshake to the recovery JOINs: the  *)
(* authentication exchange (auth.bend), the end of capability negotiation  *)
(* (cap_notify.bend) and the desired channels (join_plan.bend), as         *)
(* session.bend drives them.  Every line the server sends goes through the *)
(* authentication step, then the join plan, then a flush of the plan; the  *)
(* user, the dialer and the settings worker interleave with the lines.     *)
(*                                                                         *)
(* A line is what the admission checks of auth.bend make of it: a line     *)
(* from the wrong source, or for another nickname, changes nothing here.   *)
(***************************************************************************)
EXTENDS Naturals, FiniteSets

CONSTANTS
    Hosts,         \* endpoints the user dials
    Home,          \* the one the launch named, in its exact spelling
    Respelled,     \* Home in other letter case
    Channels,
    Launch,        \* channels named at launch
    MaxDesired,    \* Channels.MAX_CHANNELS
    Policies,      \* what a server's 005 may admit: sets of channels
    MaxRevision, MaxConns    \* bounds: user edits, connections

ASSUME RegistrationAssumption ==
    /\ Home \in Hosts /\ Respelled \in Hosts /\ Home # Respelled
    /\ Launch \subseteq Channels
    /\ Policies \subseteq SUBSET Channels
    /\ MaxDesired \in Nat /\ MaxRevision \in Nat /\ MaxConns \in Nat

VARIABLES
    net,           \* "dialing", "up" or "down"
    host,          \* the endpoint of the session
    auth,          \* the client's profile and phase
    wins,          \* auth_success_seq
    scope,         \* the writer's AuthScope is still enabled
    plan,          \* JoinPlan.State
    policy,        \* the channels Isupport.join_admit accepts
    reading,       \* the settings read that holds the JOINs, if any, whether
                   \* it has begun, the revision it began at, and whether
                   \* the user edited the channels since then (history)
    wire,          \* what this connection carried (history)
    conns          \* connections so far (bound)

regVars == <<net, host, auth, wins, scope, plan, policy, reading, wire, conns>>

Modes == {"off", "sasl", "nickserv", "sasl-nickserv"}
Negotiating == {"cap", "challenge", "result"}
Phases == Negotiating \cup {"idle", "done", "nickwait", "nickprobe", "nickresult"}

Wire ==
    [ends : Nat, secrets : Nat, won : BOOLEAN, room : SUBSET Channels]

RegTypeOK ==
    /\ net \in {"dialing", "up", "down"}
    /\ host \in Hosts
    /\ auth \in [mode : Modes, phase : Phases, held : BOOLEAN, fits : BOOLEAN]
    /\ wins \in Nat
    /\ scope \in BOOLEAN
    /\ plan \in [desired : SUBSET Channels, welcome : BOOLEAN, sent : BOOLEAN,
                 need : BOOLEAN, base : Nat, held : BOOLEAN, revision : Nat,
                 motd : BOOLEAN]
    /\ policy \subseteq Channels
    /\ reading \in [on : BOOLEAN, begun : BOOLEAN, base : Nat, edited : BOOLEAN]
    /\ wire \in Wire
    /\ conns \in Nat

SameEndpoint(h) == h = host \/ {h, host} = {Home, Respelled}

-----------------------------------------------------------------------------
(* The authentication step: phase, CAP END, credentials *)

InitialPhase(mode) ==
    CASE mode = "off" -> "idle"
      [] mode = "nickserv" -> "nickwait"
      [] OTHER -> "cap"

UsesSasl(mode) == mode \in {"sasl", "sasl-nickserv"}

\* NickServ takes over only from an exchange registration has not overtaken.
FallsBack(a, e) ==
    /\ a.mode = "sasl-nickserv" /\ a.phase = "cap" /\ ~a.held
    /\ e \in {"nak", "cap421"}

Fitting(a, phase) == IF a.fits THEN phase ELSE "done"

AuthPhase(a, e) ==
    CASE FallsBack(a, e) -> "nickwait"
      [] a.phase = "cap" /\ e = "ack" -> "challenge"
      [] a.phase = "cap" /\ e = "nak" /\ ~FallsBack(a, e) -> "done"
      [] a.phase = "challenge" /\ e = "plus" -> "result"
      [] a.phase \in {"challenge", "result"} /\ e = "failure" -> "done"
      [] a.phase = "result" /\ e = "success" -> "done"
      [] a.phase = "nickwait" /\ e = "welcome" -> Fitting(a, "nickprobe")
      [] a.phase = "nickprobe" /\ e \in {"service", "confirm"} ->
            Fitting(a, "nickresult")
      [] a.phase = "nickresult" /\ e = "confirm" -> "done"
      [] OTHER -> a.phase

\* A welcome that comes before the exchange ends holds the phase as it is.
AuthStep(a, e) ==
    [a EXCEPT !.phase = AuthPhase(a, e),
              !.held = /\ AuthPhase(a, e) = a.phase
                       /\ \/ a.held
                          \/ a.phase \in Negotiating /\ e = "welcome"]

\* Faulty: falling back to NickServ forgets to end the negotiation.
CapEndDoneOnly(before, after) == before \in Negotiating /\ after = "done"

\* cap_end_due: the phase leaves the negotiation, in either direction.
CapEndDue(before, after) ==
    before \in Negotiating /\ after \in {"done", "nickwait"}

SecretSent(before, after) ==
    <<before, after>> \in {<<"challenge", "result">>, <<"nickprobe", "nickresult">>}

Proved(before, after, e) ==
    <<before, after, e>> \in {<<"result", "done", "success">>,
                              <<"nickresult", "done", "confirm">>}

-----------------------------------------------------------------------------
(* The join plan *)

Reset(p, needs, seq) ==
    [p EXCEPT !.welcome = FALSE, !.sent = FALSE, !.motd = FALSE,
              !.need = needs, !.base = IF needs THEN seq ELSE 0]

Remember(p, c) ==
    IF c \in p.desired \/ Cardinality(p.desired) < MaxDesired
    THEN [p EXCEPT !.desired = @ \cup {c}] ELSE p

\* Faulty: an edit leaves the revision alone.
BumpNothing(p) == p

Bump(p) == [p EXCEPT !.revision = @ + 1]

Forget(p, c) == [p EXCEPT !.desired = @ \ {c}]

EditingOpen(p) == p.sent /\ ~p.held

\* Faulty: a KICK of us does not cancel the intent.
ReceivedKickKept(p, e, kicked) ==
    CASE e = "welcome" -> [p EXCEPT !.welcome = TRUE]
      [] e = "motdend" -> [p EXCEPT !.motd = p.welcome]
      [] OTHER -> p

\* A MOTD end counts only after the welcome; a KICK of us cancels the intent.
Received(p, e, kicked) ==
    CASE e = "welcome" -> [p EXCEPT !.welcome = TRUE]
      [] e = "motdend" -> [p EXCEPT !.motd = p.welcome]
      [] e = "kick" /\ kicked \in p.desired -> Bump(Forget(p, kicked))
      [] OTHER -> p

\* Faulty: a success of an earlier connection satisfies the barrier.
ReadyEver(p, seq) == p.need => seq > 0

\* Faulty: one success too many is waited for.
ReadyLate(p, seq) == p.need => seq > p.base + 1

Ready(p, seq) == p.need => seq > p.base

FlushDue(p, seq) ==
    p.welcome /\ ~p.sent /\ ~p.held /\ Ready(p, seq) /\ p.motd

\* The flush drops what the server's own limits refuse.
Flush(p, seq, admits) ==
    IF FlushDue(p, seq)
    THEN [p EXCEPT !.sent = TRUE, !.desired = @ \cap admits] ELSE p

\* The JOINs a flush adds to what the connection asked for.
Rejoined(room, before, after) ==
    IF ~before.sent /\ after.sent THEN room \cup after.desired ELSE room

-----------------------------------------------------------------------------
(* Lines from the server *)

Line(e, kicked) ==
    LET a == AuthStep(auth, e)
        seq == IF Proved(auth.phase, a.phase, e) THEN wins + 1 ELSE wins
        p == Flush(Received(plan, e, kicked), seq, policy)
    IN  /\ net = "up"
        /\ auth' = a /\ wins' = seq /\ plan' = p
        /\ wire' =
            [ends |-> wire.ends + (IF CapEndDue(auth.phase, a.phase) THEN 1 ELSE 0),
             secrets |-> wire.secrets
                         + (IF SecretSent(auth.phase, a.phase) THEN 1 ELSE 0),
             won |-> wire.won \/ Proved(auth.phase, a.phase, e),
             room |-> Rejoined(wire.room \ (IF e = "kick" THEN {kicked} ELSE {}),
                               plan, p)]
        /\ UNCHANGED <<net, host, scope, policy, reading, conns>>

Replies == {"ack", "nak", "plus", "success", "failure", "cap421", "welcome",
            "motdend", "service", "confirm"}

ServerReply == \E e \in Replies : Line(e, "")

\* The server removes us from a channel.
ServerKick ==
    /\ plan.revision < MaxRevision
    /\ \E c \in Channels : Line("kick", c)

\* A 005 narrows or widens what the server admits; the flush follows.
ServerLimits ==
    /\ net = "up"
    /\ policy' \in Policies
    /\ plan' = Flush(plan, wins, policy')
    /\ wire' = [wire EXCEPT !.room = Rejoined(@, plan, plan')]
    /\ UNCHANGED <<net, host, auth, wins, scope, reading, conns>>

-----------------------------------------------------------------------------
(* The user *)

\* The user said something about the channels (history): what was said
\* before the read began is no edit to it.
Edited(r) == [r EXCEPT !.edited = r.begun]

\* A JOIN before the flush is remembered and its line withheld: the flush
\* will send it.  One past the limits changes nothing.
UserJoin(c) ==
    /\ net = "up" /\ plan.revision < MaxRevision
    /\ c \in policy
    /\ c \in plan.desired \/ Cardinality(plan.desired) < MaxDesired
    /\ plan' = Bump(Remember(plan, c))
    /\ wire' = [wire EXCEPT !.room =
                  IF EditingOpen(plan) THEN @ \cup {c} ELSE @]
    /\ reading' = Edited(reading)
    /\ UNCHANGED <<net, host, auth, wins, scope, policy, conns>>

UserPart(c) ==
    /\ plan.revision < MaxRevision
    /\ plan' = Bump(Forget(plan, c))
    /\ wire' = [wire EXCEPT !.room = IF net = "up" THEN @ \ {c} ELSE @]
    /\ reading' = Edited(reading)
    /\ UNCHANGED <<net, host, auth, wins, scope, policy, conns>>

\* JOIN 0 leaves every channel, and passes at once.
UserLeaveAll ==
    /\ net = "up" /\ plan.revision < MaxRevision
    /\ plan' = Bump([plan EXCEPT !.desired = {}])
    /\ wire' = [wire EXCEPT !.room = {}]
    /\ reading' = Edited(reading)
    /\ UNCHANGED <<net, host, auth, wins, scope, policy, conns>>

-----------------------------------------------------------------------------
(* Connections *)

Unsaid == [ends |-> 0, secrets |-> 0, won |-> FALSE, room |-> {}]

\* Faulty: credentials follow the session to any endpoint.
ScopedNowhere(h) == auth

\* Credentials are bound to the exact spelling of their endpoint.
ScopedAuth(h) ==
    IF h = Home /\ auth.mode # "off" THEN auth
    ELSE [auth EXCEPT !.mode = "off", !.phase = "idle", !.held = FALSE]

\* Dialing the same spelling keeps the desired channels and a read that is
\* out.  Any other spelling has settings of its own: the channels are those
\* kept, those of the launch or the unsaved ones the settings queue holds for
\* it, and the JOINs wait for its settings.  Their read begins with the dial
\* when it can be queued; while a write for the endpoint is out, or with the
\* queue full, none is asked for yet.  The server's limits stay with the
\* endpoint, however it is spelled.
Dial(h) ==
    LET needs == h = Home /\ auth.mode # "off"
        fresh == [plan EXCEPT !.held = TRUE]
    IN  /\ conns < MaxConns
        /\ net' = "dialing" /\ host' = h
        /\ auth' = ScopedAuth(h)
        /\ scope' = (scope /\ h = Home)
        /\ wire' = Unsaid
        /\ policy' = IF SameEndpoint(h) THEN policy ELSE Channels
        /\ IF h = host
           THEN plan' = Reset(plan, needs, wins) /\ UNCHANGED reading
           ELSE /\ \E names \in SUBSET Channels :
                      plan' = Reset([fresh EXCEPT !.desired = names], needs, wins)
                /\ \E begun \in BOOLEAN :
                      reading' = [on |-> TRUE, begun |-> begun,
                                  base |-> plan.revision, edited |-> FALSE]
        /\ UNCHANGED <<wins, conns>>

\* The connection fails; with autoreconnect the plan is reset for the redial.
Lost(again) ==
    /\ net # "down"
    /\ net' = IF again THEN "dialing" ELSE "down"
    /\ plan' = IF again THEN Reset(plan, auth.mode # "off" /\ host = Home, wins)
                        ELSE plan
    /\ wire' = Unsaid
    /\ UNCHANGED <<host, auth, wins, scope, policy, reading, conns>>

\* The writer has sent the handshake under its own scope; the session resets
\* its phase and its plan.
Up ==
    LET needs == auth.mode # "off" /\ host = Home
    IN  /\ net = "dialing" /\ conns < MaxConns
        /\ net' = "up" /\ conns' = conns + 1
        /\ auth' = [auth EXCEPT !.phase = InitialPhase(auth.mode), !.held = FALSE]
        /\ plan' = Reset(plan, needs, wins)
        /\ wire' = [Unsaid EXCEPT !.ends = IF scope THEN 0 ELSE 1]
        /\ UNCHANGED <<host, wins, scope, policy, reading>>

\* take.read: the jobs ahead are done and the read begins, at the revision
\* the plan has by now: the edits made meanwhile are not told apart.
ReadStarts ==
    /\ reading.on /\ ~reading.begun
    /\ reading' = [reading EXCEPT !.begun = TRUE, !.base = plan.revision]
    /\ UNCHANGED <<net, host, auth, wins, scope, plan, policy, wire, conns>>

\* The settings of this endpoint arrive: their channels replace the desired
\* ones only if those were not edited since the read began.
SettingsRead ==
    /\ reading.on /\ reading.begun
    /\ \E known \in BOOLEAN, names \in SUBSET Channels :
        LET seeded == IF known /\ plan.revision = reading.base
                      THEN [plan EXCEPT !.desired = names] ELSE plan
            open == [seeded EXCEPT !.held = FALSE]
        IN  plan' = Flush(open, wins, policy)
    /\ reading' = [on |-> FALSE, begun |-> FALSE, base |-> 0, edited |-> FALSE]
    /\ wire' = [wire EXCEPT !.room = Rejoined(@, plan, plan')]
    /\ UNCHANGED <<net, host, auth, wins, scope, policy, conns>>

-----------------------------------------------------------------------------

RegInit ==
    /\ net = "dialing" /\ host = Home
    /\ \E mode \in Modes, fits \in BOOLEAN :
        /\ auth = [mode |-> mode, phase |-> InitialPhase(mode),
                   held |-> FALSE, fits |-> fits]
        /\ scope = UsesSasl(mode)
        /\ \E waits \in BOOLEAN :
            /\ reading = [on |-> waits, begun |-> waits, base |-> 0, edited |-> FALSE]
            /\ plan = [desired |-> Launch, welcome |-> FALSE, sent |-> FALSE,
                       need |-> mode # "off", base |-> 0, held |-> waits,
                       revision |-> 0, motd |-> FALSE]
    /\ wins = 0
    /\ policy = Channels
    /\ wire = Unsaid
    /\ conns = 0

RegNext ==
    \/ ServerReply
    \/ ServerKick
    \/ ServerLimits
    \/ \E c \in Channels : UserJoin(c) \/ UserPart(c)
    \/ UserLeaveAll
    \/ \E h \in Hosts : Dial(h)
    \/ \E again \in BOOLEAN : Lost(again)
    \/ Up
    \/ ReadStarts
    \/ SettingsRead

RegSpec == RegInit /\ [][RegNext]_regVars

-----------------------------------------------------------------------------
(* Properties *)

\* A connection's negotiation is open exactly as long as authentication is
\* running, and is ended exactly once: by the handshake when the writer
\* asked for no SASL, else by the step that finishes it.  The writer and the
\* session decide whether SASL is in use each from its own record.
EndOnce ==
    net = "up" =>
        wire.ends = IF auth.phase \in Negotiating THEN 0 ELSE 1

\* Credentials cross a connection at most once, and only one to Home.
SecretOnce ==
    /\ wire.secrets <= 1
    /\ wire.secrets > 0 => host = Home

\* Once the plan is open for editing, what the connection asked for is what
\* is desired: no JOIN withheld while registration or settings were pending
\* is forgotten as long as it is desired, and no channel left or kicked from
\* comes back.
RoomIsDesired ==
    net = "up" /\ EditingOpen(plan) => wire.room = plan.desired

\* Nothing more will trigger the JOINs once the last condition is met, so
\* they never stay behind.
JoinsNotForgotten ==
    net = "up" /\ plan.welcome /\ plan.motd /\ ~reading.on
        /\ (plan.need => wire.won) => plan.sent

\* Settings that arrive late never undo what the user did since their read
\* began: of the channels they take away at most those the server refuses.
\* An edit made before that, while the read waited for an earlier job, is not
\* protected: EditsKept of Preferences says which edits are.
LateSettings ==
    SettingsRead /\ reading.edited
        => plan'.desired \in {plan.desired, plan.desired \cap policy}

LateSettingsKept == [][LateSettings]_regVars

\* How far the connection got, in the terms of the contract.
Stage ==
    IF net # "up" THEN "down"
    ELSE IF plan.sent THEN "recovered"
    ELSE IF plan.welcome THEN "welcomed" ELSE "registering"

ProofState ==
    IF net # "up" \/ ~plan.need THEN "unneeded"
    ELSE IF wire.won THEN "given" ELSE "awaited"

SettingsState == IF reading.on THEN "loading" ELSE "loaded"

Contract ==
    INSTANCE JoinContract WITH
        stage <- Stage, proof <- ProofState, settings <- SettingsState

\* The JOINs of a connection follow the contract of the join plan: after
\* this connection's welcome and proof, once, with the settings read.
KeepsContract == Contract!CSpec
=============================================================================
