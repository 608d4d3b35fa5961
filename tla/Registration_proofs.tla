------------------------- MODULE Registration_proofs -------------------------
(***************************************************************************)
(* For any endpoints, channels and number of connections: the negotiation  *)
(* of a connection ends exactly once, its JOINs keep the contract of       *)
(* JoinContract, and they are sent as soon as nothing more is awaited.     *)
(***************************************************************************)
EXTENDS Registration, TLAPS

\* What ties the plan's barrier and hold to the connection they belong to.
Linked ==
    /\ net = "up" /\ plan.need => (wire.won <=> wins > plan.base)
    /\ plan.base <= wins
    /\ plan.held <=> reading.on
    /\ plan.motd => plan.welcome
    /\ scope <=> UsesSasl(auth.mode)

IInv == RegTypeOK /\ Linked /\ EndOnce

\* The states of the settings read.
ReadStates == [on : BOOLEAN, begun : BOOLEAN, base : Nat, edited : BOOLEAN]

-----------------------------------------------------------------------------
(* Operators *)

\* The authentication step returns an auth record, keeps the profile, and
\* leaves the negotiation only to "done" or "nickwait", never entering it.
LEMMA AuthStepFacts ==
    ASSUME NEW a \in [mode : Modes, phase : Phases, held : BOOLEAN, fits : BOOLEAN],
           NEW e
    PROVE  /\ AuthStep(a, e) \in [mode : Modes, phase : Phases,
                                  held : BOOLEAN, fits : BOOLEAN]
           /\ AuthStep(a, e).mode = a.mode
           /\ a.phase \notin Negotiating => AuthStep(a, e).phase \notin Negotiating
           /\ a.phase \in Negotiating =>
                AuthStep(a, e).phase \in Negotiating \cup {"done", "nickwait"}
<1>1. /\ AuthPhase(a, e) \in Phases
      /\ a.phase \notin Negotiating => AuthPhase(a, e) \notin Negotiating
      /\ a.phase \in Negotiating =>
           AuthPhase(a, e) \in Negotiating \cup {"done", "nickwait"}
  BY DEF AuthPhase, FallsBack, Fitting, Phases, Negotiating
<1>2. (AuthPhase(a, e) = a.phase /\ (a.held \/ (a.phase \in Negotiating /\ e = "welcome")))
        \in BOOLEAN
  OBVIOUS
<1> QED BY <1>1, <1>2 DEF AuthStep

LEMMA ProvedBool ==
    ASSUME NEW x, NEW y, NEW e
    PROVE  /\ Proved(x, y, e) \in BOOLEAN
           /\ SecretSent(x, y) \in BOOLEAN
           /\ CapEndDue(x, y) \in BOOLEAN
BY DEF Proved, SecretSent, CapEndDue

\* A counted success is one more, or the counter stays.
LEMMA CountFacts ==
    ASSUME NEW seq \in Nat, NEW won \in BOOLEAN
    PROVE  LET n == IF won THEN seq + 1 ELSE seq
           IN  n \in Nat /\ n >= seq /\ (won => n = seq + 1) /\ (~won => n = seq)
OBVIOUS

\* A barrier "more than base successes" stays in step with "one happened
\* here" when both count the same success.
LEMMA BarrierFacts ==
    ASSUME NEW seq \in Nat, NEW base \in Nat, NEW need \in BOOLEAN,
           NEW here \in BOOLEAN, NEW won \in BOOLEAN,
           base <= seq, need => (here <=> seq > base),
           NEW n, n = IF won THEN seq + 1 ELSE seq
    PROVE  base <= n /\ (need => ((here \/ won) <=> n > base))
<1>1. CASE won
  BY <1>1
<1>2. CASE ~won
  BY <1>2
<1> QED BY <1>1, <1>2

LEMMA FlagFacts ==
    ASSUME NEW n \in Nat, NEW flag \in BOOLEAN
    PROVE  LET m == n + (IF flag THEN 1 ELSE 0)
           IN  m \in Nat /\ (flag => m = n + 1) /\ (~flag => m = n)
OBVIOUS

LEMMA EndFacts ==
    ASSUME NEW before \in BOOLEAN, NEW after \in BOOLEAN, NEW due \in BOOLEAN,
           ~before => ~after, due <=> (before /\ ~after),
           NEW ends, ends = IF before THEN 0 ELSE 1
    PROVE  ends + (IF due THEN 1 ELSE 0) = IF after THEN 0 ELSE 1
OBVIOUS

Plans == [desired : SUBSET Channels, welcome : BOOLEAN, sent : BOOLEAN,
          need : BOOLEAN, base : Nat, held : BOOLEAN, revision : Nat,
          motd : BOOLEAN]

\* What a line does to a plan: the barrier and the hold stay, a MOTD end
\* needs a welcome, and only a welcome sets the welcome.
LEMMA ReceivedFacts ==
    ASSUME NEW p \in Plans, NEW e, NEW kicked, p.motd => p.welcome
    PROVE  LET q == Received(p, e, kicked)
           IN  /\ q \in Plans
               /\ q.need = p.need /\ q.base = p.base /\ q.held = p.held
               /\ q.sent = p.sent
               /\ q.motd => q.welcome
               /\ e # "welcome" => q.welcome = p.welcome
               /\ e = "welcome" => q.welcome /\ q.motd = p.motd
<1>1. CASE e = "welcome"
  <2>1. Received(p, e, kicked) = [p EXCEPT !.welcome = TRUE]
    BY <1>1 DEF Received
  <2> QED BY <1>1, <2>1 DEF Plans
<1>2. CASE e = "motdend"
  <2>1. Received(p, e, kicked) = [p EXCEPT !.motd = p.welcome]
    BY <1>2 DEF Received
  <2> QED BY <1>2, <2>1 DEF Plans
<1>3. CASE e = "kick" /\ kicked \in p.desired
  <2>1. Received(p, e, kicked) = Bump(Forget(p, kicked))
    BY <1>3 DEF Received
  <2>2. Bump(Forget(p, kicked)) =
          [p EXCEPT !.desired = @ \ {kicked}, !.revision = @ + 1]
    BY DEF Bump, Forget, Plans
  <2>3. p.revision + 1 \in Nat /\ p.desired \ {kicked} \in SUBSET Channels
    BY DEF Plans
  <2> QED BY <1>3, <2>1, <2>2, <2>3 DEF Plans
<1>4. CASE e \notin {"welcome", "motdend"} /\ ~(e = "kick" /\ kicked \in p.desired)
  <2>1. Received(p, e, kicked) = p
    BY <1>4 DEF Received
  <2> QED BY <1>4, <2>1
<1> QED BY <1>1, <1>2, <1>3, <1>4

\* What a flush does to a plan: it may only send, and then every condition
\* holds.
LEMMA FlushFacts ==
    ASSUME NEW p \in Plans, NEW seq \in Nat, NEW admits
    PROVE  LET q == Flush(p, seq, admits)
           IN  /\ q \in Plans
               /\ q.need = p.need /\ q.base = p.base /\ q.held = p.held
               /\ q.motd = p.motd /\ q.welcome = p.welcome
               /\ q.sent # p.sent => ~p.sent /\ q.sent /\ FlushDue(p, seq)
BY DEF Flush, FlushDue, Ready, Plans

\* The same of a plan known to be the flushed one.
LEMMA FlushedFacts ==
    ASSUME NEW p \in Plans, NEW seq \in Nat, NEW admits,
           NEW q, q = Flush(p, seq, admits)
    PROVE  /\ q \in Plans
           /\ q.need = p.need /\ q.base = p.base /\ q.held = p.held
           /\ q.motd = p.motd /\ q.welcome = p.welcome
           /\ q.sent # p.sent => ~p.sent /\ q.sent /\ FlushDue(p, seq)
BY FlushFacts

LEMMA ResetFacts ==
    ASSUME NEW p \in Plans, NEW needs \in BOOLEAN, NEW seq \in Nat
    PROVE  LET q == Reset(p, needs, seq)
           IN  /\ q \in Plans
               /\ q.need = needs /\ q.held = p.held
               /\ needs => q.base = seq
               /\ q.base <= seq
               /\ ~q.sent /\ ~q.welcome /\ ~q.motd
<1> DEFINE base == IF needs THEN seq ELSE 0
<1>1. base \in Nat /\ base <= seq /\ (needs => base = seq)
  OBVIOUS
<1>2. Reset(p, needs, seq) =
        [p EXCEPT !.welcome = FALSE, !.sent = FALSE, !.motd = FALSE,
                  !.need = needs, !.base = base]
  BY DEF Reset
<1> HIDE DEF base
<1> QED BY <1>1, <1>2 DEF Plans

LEMMA RejoinedType ==
    ASSUME NEW p \in Plans, NEW q \in Plans, NEW room \in SUBSET Channels
    PROVE  Rejoined(room, p, q) \in SUBSET Channels
BY DEF Rejoined, Plans

-----------------------------------------------------------------------------
(* The invariant *)

LEMMA InitIInv == RegInit => IInv
<1> SUFFICES ASSUME RegInit PROVE IInv
  OBVIOUS
<1> PICK mode \in Modes, fits \in BOOLEAN, waits \in BOOLEAN :
      /\ auth = [mode |-> mode, phase |-> InitialPhase(mode),
                 held |-> FALSE, fits |-> fits]
      /\ scope = UsesSasl(mode)
      /\ reading = [on |-> waits, begun |-> waits, base |-> 0, edited |-> FALSE]
      /\ plan = [desired |-> Launch, welcome |-> FALSE, sent |-> FALSE,
                 need |-> mode # "off", base |-> 0, held |-> waits,
                 revision |-> 0, motd |-> FALSE]
  BY DEF RegInit
<1>1. InitialPhase(mode) \in Phases
  BY DEF InitialPhase, Phases, Negotiating, Modes
<1>2. RegTypeOK
  BY <1>1, RegistrationAssumption
  DEF RegInit, RegTypeOK, Wire, Unsaid, UsesSasl
<1>3. Linked /\ EndOnce
  BY DEF RegInit, Linked, EndOnce
<1> QED BY <1>2, <1>3 DEF IInv

\* A line keeps the invariant: the authentication step ends the negotiation
\* if it leaves it, and counts a success on the connection and the session.
LEMMA LineIInv ==
    ASSUME IInv, NEW e, NEW kicked \in Channels \cup {""}, Line(e, kicked)
    PROVE  IInv'
<1> DEFINE a == AuthStep(auth, e)
           seq == IF Proved(auth.phase, a.phase, e) THEN wins + 1 ELSE wins
           r == Received(plan, e, kicked)
           p == Flush(r, seq, policy)
           room == wire.room \ (IF e = "kick" THEN {kicked} ELSE {})
<1> USE DEF IInv
<1>1. /\ auth' = a /\ wins' = seq /\ plan' = p
      /\ wire' =
            [ends |-> wire.ends + (IF CapEndDue(auth.phase, a.phase) THEN 1 ELSE 0),
             secrets |-> wire.secrets
                         + (IF SecretSent(auth.phase, a.phase) THEN 1 ELSE 0),
             won |-> wire.won \/ Proved(auth.phase, a.phase, e),
             room |-> Rejoined(room, plan, p)]
      /\ net = "up"
      /\ UNCHANGED <<net, host, scope, policy, reading, conns>>
  BY DEF Line
<1>2. /\ a \in [mode : Modes, phase : Phases, held : BOOLEAN, fits : BOOLEAN]
      /\ a.mode = auth.mode
      /\ auth.phase \notin Negotiating => a.phase \notin Negotiating
      /\ auth.phase \in Negotiating =>
           a.phase \in Negotiating \cup {"done", "nickwait"}
  BY AuthStepFacts DEF RegTypeOK
<1> DEFINE won == Proved(auth.phase, a.phase, e)
<1>3. /\ wins \in Nat /\ won \in BOOLEAN /\ seq \in Nat /\ seq >= wins
      /\ won => seq = wins + 1
      /\ ~won => seq = wins
  <2>1. wins \in Nat
    BY DEF RegTypeOK
  <2>2. won \in BOOLEAN
    BY ProvedBool
  <2> HIDE DEF won, a
  <2>3. seq = IF won THEN wins + 1 ELSE wins
    BY DEF won
  <2> HIDE DEF seq
  <2> QED BY <2>1, <2>2, <2>3, CountFacts
<1>4. /\ plan \in Plans /\ (plan.motd => plan.welcome)
  BY DEF RegTypeOK, Linked, Plans
<1>5. /\ r \in Plans /\ (r.motd => r.welcome)
      /\ r.need = plan.need /\ r.base = plan.base /\ r.held = plan.held
  <2> HIDE DEF IInv
  <2> QED BY <1>4, ReceivedFacts, ZenonT(40)
<1>6. /\ p \in Plans /\ (p.motd => p.welcome)
      /\ p.need = plan.need /\ p.base = plan.base /\ p.held = plan.held
  <2> HIDE DEF r, seq
  <2> QED BY <1>3, <1>5, FlushFacts
<1>7. Rejoined(room, plan, p) \in SUBSET Channels
  <2>1. room \in SUBSET Channels
    BY DEF RegTypeOK, Wire
  <2> HIDE DEF room, p
  <2> QED BY <1>4, <1>6, <2>1, RejoinedType
<1>8. RegTypeOK'
  <2> HIDE DEF a, seq, p, room
  <2> HIDE DEF won
  <2>1. wire' \in Wire
    <3>1. wire \in Wire
      BY DEF RegTypeOK
    <3>2. wire.ends \in Nat /\ wire.secrets \in Nat /\ wire.won \in BOOLEAN
      BY <3>1 DEF Wire
    <3>3. /\ wire.ends + (IF CapEndDue(auth.phase, a.phase) THEN 1 ELSE 0) \in Nat
          /\ wire.secrets + (IF SecretSent(auth.phase, a.phase) THEN 1 ELSE 0) \in Nat
      <4>1. /\ CapEndDue(auth.phase, a.phase) \in BOOLEAN
            /\ SecretSent(auth.phase, a.phase) \in BOOLEAN
        BY ProvedBool
      <4> QED BY <3>2, <4>1, FlagFacts
    <3> QED BY <1>1, <1>3, <1>7, <3>2, <3>3 DEF Wire, won
  <2> QED BY <1>1, <1>2, <1>3, <1>6, <2>1 DEF RegTypeOK, Plans
<1>9. Linked'
  <2>1. wire'.won = (wire.won \/ won)
    BY <1>1
  <2>2. wire.won \in BOOLEAN /\ plan.base \in Nat
    BY DEF RegTypeOK, Wire
  <2>3. /\ plan.need => (wire.won <=> wins > plan.base)
        /\ plan.base <= wins
    BY <1>1 DEF Linked
  <2>5. wins' = seq
    BY <1>1
  <2> HIDE DEF a, won, seq, p, room
  <2>4. /\ plan.need => (wire'.won <=> wins' > plan.base)
        /\ plan.base <= wins'
    <3>1. plan.need \in BOOLEAN
      BY DEF RegTypeOK
    <3>2. seq = IF won THEN wins + 1 ELSE wins
      BY DEF seq, won
    <3> HIDE DEF IInv
    <3> QED BY <1>3, <2>1, <2>2, <2>3, <2>5, <3>1, <3>2, BarrierFacts, Zenon
  <2> QED BY <1>1, <1>2, <1>6, <2>4 DEF Linked
<1>10. EndOnce'
  <2>1. /\ wire'.ends = wire.ends + (IF CapEndDue(auth.phase, a.phase) THEN 1 ELSE 0)
        /\ wire.ends = IF auth.phase \in Negotiating THEN 0 ELSE 1
    BY <1>1 DEF EndOnce
  <2> HIDE DEF a, seq, p, room
  <2>3. CapEndDue(auth.phase, a.phase) <=>
          (auth.phase \in Negotiating /\ a.phase \notin Negotiating)
    BY <1>2 DEF CapEndDue, Negotiating
  <2>4. CapEndDue(auth.phase, a.phase) \in BOOLEAN
    BY ProvedBool
  <2>5. wire.ends \in Nat
    BY DEF RegTypeOK, Wire
  <2> HIDE DEF IInv
  <2>6. /\ CapEndDue(auth.phase, a.phase) => wire'.ends = wire.ends + 1
        /\ ~CapEndDue(auth.phase, a.phase) => wire'.ends = wire.ends
    BY <2>1, <2>4, <2>5, FlagFacts
  <2>2. wire'.ends = IF a.phase \in Negotiating THEN 0 ELSE 1
    BY <1>2, <2>1, <2>3, <2>4, <2>5, EndFacts
  <2> QED BY <1>1, <2>2 DEF EndOnce
<1> QED BY <1>8, <1>9, <1>10

\* A connection that is down or being dialled carries nothing yet, and its
\* plan waits for the next welcome.
LEMMA FreshPlan ==
    ASSUME RegTypeOK, NEW needs \in BOOLEAN, NEW p \in Plans,
           NEW q, q = Reset(p, needs, wins)
    PROVE  /\ q \in Plans /\ q.need = needs /\ q.held = p.held
           /\ q.base <= wins /\ (needs => q.base = wins)
           /\ ~q.sent /\ ~q.welcome /\ ~q.motd
<1>1. wins \in Nat
  BY DEF RegTypeOK
<1> QED BY <1>1, ResetFacts

LEMMA DialIInv ==
    ASSUME IInv, NEW h \in Hosts, Dial(h)
    PROVE  IInv'
<1> DEFINE needs == h = Home /\ auth.mode # "off"
<1>1. net' = "dialing" /\ host' = h /\ UNCHANGED <<wins, conns>>
      /\ wire' = Unsaid /\ auth' = ScopedAuth(h) /\ scope' = (scope /\ h = Home)
  BY DEF Dial
<1>2. PICK p \in Plans : /\ plan' = Reset(p, needs, wins)
                         /\ p.held <=> reading'.on
  <2>1. CASE h = host
    BY <2>1 DEF Dial, IInv, RegTypeOK, Linked, Plans
  <2>2. CASE h # host
    <3>1. PICK names \in SUBSET Channels :
            plan' = Reset([[plan EXCEPT !.held = TRUE] EXCEPT !.desired = names],
                          needs, wins)
      BY <2>2 DEF Dial
    <3>2. \E begun \in BOOLEAN :
            reading' = [on |-> TRUE, begun |-> begun, base |-> plan.revision,
                        edited |-> FALSE]
      BY <2>2 DEF Dial
    <3>3. [[plan EXCEPT !.held = TRUE] EXCEPT !.desired = names] \in Plans
      BY DEF IInv, RegTypeOK, Plans
    <3>4. [[plan EXCEPT !.held = TRUE] EXCEPT !.desired = names].held
      BY DEF IInv, RegTypeOK, Plans
    <3>5. reading'.on
      BY <3>2
    <3> QED BY <3>1, <3>3, <3>4, <3>5
  <2> QED BY <2>1, <2>2
<1>3. /\ plan' \in Plans /\ plan'.held = p.held /\ plan'.base <= wins
      /\ ~plan'.motd
  BY <1>2, FreshPlan DEF IInv
<1>4. /\ auth' \in [mode : Modes, phase : Phases, held : BOOLEAN, fits : BOOLEAN]
      /\ scope' <=> UsesSasl(auth'.mode)
  BY <1>1 DEF ScopedAuth, IInv, RegTypeOK, Linked, UsesSasl, Modes, Phases
<1>5. /\ policy' \subseteq Channels
      /\ reading' \in ReadStates
  <2>0. policy' \subseteq Channels
    BY DEF Dial, IInv, RegTypeOK
  <2>1. CASE h = host
    BY <2>1 DEF Dial, IInv, RegTypeOK, ReadStates
  <2>2. CASE h # host
    <3>1. PICK begun \in BOOLEAN :
            reading' = [on |-> TRUE, begun |-> begun, base |-> plan.revision,
                        edited |-> FALSE]
      BY <2>2 DEF Dial
    <3>2. plan.revision \in Nat
      BY DEF IInv, RegTypeOK
    <3> QED BY <2>0, <3>1, <3>2 DEF ReadStates
  <2> QED BY <2>0, <2>1, <2>2
<1>6. RegTypeOK'
  BY <1>1, <1>3, <1>4, <1>5 DEF IInv, RegTypeOK, Unsaid, Wire, Plans, ReadStates
<1>7. Linked' /\ EndOnce'
  BY <1>1, <1>2, <1>3, <1>4 DEF Linked, EndOnce
<1> QED BY <1>6, <1>7 DEF IInv

LEMMA LostIInv ==
    ASSUME IInv, NEW again \in BOOLEAN, Lost(again)
    PROVE  IInv'
<1>1. /\ net' # "up" /\ net' \in {"dialing", "down"} /\ wire' = Unsaid
      /\ UNCHANGED <<host, auth, wins, scope, policy, reading, conns>>
  BY DEF Lost
<1>2. plan \in Plans
  BY DEF IInv, RegTypeOK, Plans
<1>3. /\ plan' \in Plans /\ plan'.held = plan.held /\ plan'.base <= wins
      /\ plan'.motd => plan'.welcome
  <2>1. CASE again
    BY <1>2, <2>1, FreshPlan DEF Lost, IInv
  <2>2. CASE ~again
    BY <1>2, <2>2 DEF Lost, IInv, Linked
  <2> QED BY <2>1, <2>2
<1>4. RegTypeOK'
  BY <1>1, <1>3 DEF IInv, RegTypeOK, Unsaid, Wire, Plans
<1>5. Linked' /\ EndOnce'
  BY <1>1, <1>3 DEF IInv, Linked, EndOnce
<1> QED BY <1>4, <1>5 DEF IInv

LEMMA UpIInv ==
    ASSUME IInv, Up
    PROVE  IInv'
<1>1. /\ net' = "up" /\ conns' = conns + 1
      /\ auth' = [auth EXCEPT !.phase = InitialPhase(auth.mode), !.held = FALSE]
      /\ plan' = Reset(plan, auth.mode # "off" /\ host = Home, wins)
      /\ wire' = [Unsaid EXCEPT !.ends = IF scope THEN 0 ELSE 1]
      /\ UNCHANGED <<host, wins, scope, policy, reading>>
  BY DEF Up
<1>2. plan \in Plans
  BY DEF IInv, RegTypeOK, Plans
<1>3. /\ plan' \in Plans /\ plan'.held = plan.held /\ plan'.base <= wins
      /\ plan'.need => plan'.base = wins
      /\ ~plan'.motd
  BY <1>1, <1>2, FreshPlan DEF IInv
<1>4. /\ InitialPhase(auth.mode) \in Phases
      /\ InitialPhase(auth.mode) \in Negotiating <=> UsesSasl(auth.mode)
  BY DEF InitialPhase, UsesSasl, IInv, RegTypeOK, Modes, Phases, Negotiating
<1>5. /\ auth' \in [mode : Modes, phase : Phases, held : BOOLEAN, fits : BOOLEAN]
      /\ auth'.mode = auth.mode /\ auth'.phase = InitialPhase(auth.mode)
  BY <1>1, <1>4 DEF IInv, RegTypeOK
<1>6. /\ wire' \in Wire /\ ~wire'.won
      /\ wire'.ends = IF scope THEN 0 ELSE 1
  BY <1>1 DEF Unsaid, Wire
<1>7. RegTypeOK'
  BY <1>1, <1>3, <1>5, <1>6 DEF IInv, RegTypeOK, Plans
<1>8. Linked'
  BY <1>1, <1>3, <1>5, <1>6 DEF IInv, Linked, RegTypeOK
<1>9. EndOnce'
  BY <1>1, <1>4, <1>5, <1>6 DEF IInv, Linked, EndOnce
<1> QED BY <1>7, <1>8, <1>9 DEF IInv

\* A flush of the plan as it stands, on this connection, keeps the invariant.
LEMMA FlushIInv ==
    ASSUME IInv, NEW p \in Plans,
           p.need = plan.need, p.base = plan.base,
           p.motd => p.welcome, p.held <=> reading'.on,
           plan' = Flush(p, wins, policy'), policy' \subseteq Channels,
           reading' \in ReadStates,
           wire' = [wire EXCEPT !.room = Rejoined(@, plan, plan')],
           UNCHANGED <<net, host, auth, wins, scope, conns>>
    PROVE  IInv'
<1>1. wins \in Nat /\ plan \in Plans /\ wire \in Wire
  BY DEF IInv, RegTypeOK, Plans
<1>2. /\ plan' \in Plans /\ plan'.need = p.need /\ plan'.base = p.base
      /\ plan'.held = p.held /\ plan'.motd = p.motd
      /\ plan'.welcome = p.welcome
  BY <1>1, FlushFacts
<1>3. Rejoined(wire.room, plan, plan') \in SUBSET Channels
  BY <1>1, <1>2, RejoinedType DEF Wire
<1>4. wire' \in Wire /\ wire'.won = wire.won /\ wire'.ends = wire.ends
  BY <1>1, <1>3 DEF Wire
<1>5. RegTypeOK'
  BY <1>2, <1>4 DEF IInv, RegTypeOK, Plans, ReadStates
<1>6. Linked'
  BY <1>2, <1>4 DEF IInv, Linked
<1>7. EndOnce'
  BY <1>4 DEF IInv, EndOnce
<1> QED BY <1>5, <1>6, <1>7 DEF IInv

LEMMA LimitsIInv ==
    ASSUME IInv, ServerLimits
    PROVE  IInv'
<1>1. plan \in Plans
  BY DEF IInv, RegTypeOK, Plans
<1>2. policy' \subseteq Channels
  BY RegistrationAssumption DEF ServerLimits
<1>3. /\ plan.motd => plan.welcome
      /\ plan.held <=> reading'.on
      /\ reading' \in ReadStates
  BY DEF IInv, Linked, RegTypeOK, ServerLimits, ReadStates
<1>4. /\ plan' = Flush(plan, wins, policy')
      /\ wire' = [wire EXCEPT !.room = Rejoined(@, plan, plan')]
      /\ UNCHANGED <<net, host, auth, wins, scope, conns>>
  BY DEF ServerLimits
<1> QED BY <1>1, <1>2, <1>3, <1>4, FlushIInv

\* What the settings leave in the plan before it is flushed.
LEMMA SettingsFacts ==
    ASSUME IInv, SettingsRead
    PROVE  \E p \in Plans :
             /\ plan' = Flush(p, wins, policy)
             /\ p.need = plan.need /\ p.base = plan.base /\ ~p.held
             /\ p.welcome = plan.welcome /\ p.motd = plan.motd
             /\ p.sent = plan.sent
<1> DEFINE seeded(known, names) ==
             IF known /\ plan.revision = reading.base
             THEN [plan EXCEPT !.desired = names] ELSE plan
           open(known, names) == [seeded(known, names) EXCEPT !.held = FALSE]
<1>1. PICK known \in BOOLEAN, names \in SUBSET Channels :
        plan' = Flush(open(known, names), wins, policy)
  BY DEF SettingsRead
<1>2. plan \in Plans
  BY DEF IInv, RegTypeOK, Plans
<1>3. /\ open(known, names) \in Plans
      /\ open(known, names).need = plan.need
      /\ open(known, names).base = plan.base
      /\ ~open(known, names).held
      /\ open(known, names).welcome = plan.welcome
      /\ open(known, names).motd = plan.motd
      /\ open(known, names).sent = plan.sent
  <2>1. CASE known /\ plan.revision = reading.base
    BY <1>2, <2>1 DEF Plans
  <2>2. CASE ~(known /\ plan.revision = reading.base)
    BY <1>2, <2>2 DEF Plans
  <2> QED BY <2>1, <2>2
<1> HIDE DEF open
<1> QED BY <1>1, <1>3

LEMMA SettingsIInv ==
    ASSUME IInv, SettingsRead
    PROVE  IInv'
<1>1. PICK p \in Plans :
        /\ plan' = Flush(p, wins, policy)
        /\ p.need = plan.need /\ p.base = plan.base /\ ~p.held
        /\ p.welcome = plan.welcome /\ p.motd = plan.motd
        /\ p.sent = plan.sent
  BY SettingsFacts
<1>2. reading' \in ReadStates /\ ~reading'.on
  BY DEF SettingsRead, ReadStates
<1>3. /\ wire' = [wire EXCEPT !.room = Rejoined(@, plan, plan')]
      /\ UNCHANGED <<net, host, auth, wins, scope, policy, conns>>
  BY DEF SettingsRead
<1>4. p.motd => p.welcome
  BY <1>1 DEF IInv, Linked
<1>5. policy' \subseteq Channels /\ policy' = policy
  BY <1>3 DEF IInv, RegTypeOK
<1> QED BY <1>1, <1>2, <1>3, <1>4, <1>5, FlushIInv

\* An edit changes the desired channels and the revision, and nothing else
\* the invariant reads.
LEMMA EditIInv ==
    ASSUME IInv, NEW desired \in SUBSET Channels, NEW room \in SUBSET Channels,
           plan' = [plan EXCEPT !.desired = desired, !.revision = @ + 1],
           wire' = [wire EXCEPT !.room = room], reading' = Edited(reading),
           UNCHANGED <<net, host, auth, wins, scope, policy, conns>>
    PROVE  IInv'
<1>1. plan \in Plans /\ wire \in Wire
  BY DEF IInv, RegTypeOK, Plans
<1>2. plan.revision + 1 \in Nat
  BY <1>1 DEF Plans
<1>3. /\ plan' \in Plans /\ plan'.need = plan.need /\ plan'.base = plan.base
      /\ plan'.held = plan.held /\ plan'.motd = plan.motd
      /\ plan'.welcome = plan.welcome
  BY <1>1, <1>2 DEF Plans
<1>4. wire' \in Wire /\ wire'.won = wire.won /\ wire'.ends = wire.ends
  BY <1>1 DEF Wire
<1>5. /\ reading' \in ReadStates
      /\ reading'.on = reading.on
  BY DEF IInv, RegTypeOK, Edited, ReadStates
<1>6. RegTypeOK'
  BY <1>3, <1>4, <1>5 DEF IInv, RegTypeOK, Plans, ReadStates
<1>7. Linked'
  BY <1>3, <1>4, <1>5 DEF IInv, Linked
<1>8. EndOnce'
  BY <1>4 DEF IInv, EndOnce
<1> QED BY <1>6, <1>7, <1>8 DEF IInv

\* A JOIN and a PART by the user, as one shape.
LEMMA UserEdits ==
    ASSUME IInv, NEW c \in Channels, UserJoin(c) \/ UserPart(c)
    PROVE  /\ \E desired \in SUBSET Channels, room \in SUBSET Channels :
                /\ plan' = [plan EXCEPT !.desired = desired, !.revision = @ + 1]
                /\ wire' = [wire EXCEPT !.room = room]
           /\ reading' = Edited(reading)
           /\ UNCHANGED <<net, host, auth, wins, scope, policy, conns>>
<1>1. plan \in Plans /\ wire \in Wire
  BY DEF IInv, RegTypeOK, Plans
<1>2. /\ reading' = Edited(reading)
      /\ UNCHANGED <<net, host, auth, wins, scope, policy, conns>>
  BY DEF UserJoin, UserPart
<1>3. CASE UserJoin(c)
  <2> DEFINE desired == plan.desired \cup {c}
             room == IF EditingOpen(plan) THEN wire.room \cup {c} ELSE wire.room
  <2>1. plan' = [plan EXCEPT !.desired = desired, !.revision = @ + 1]
    BY <1>1, <1>3 DEF UserJoin, Bump, Remember, Plans
  <2>2. wire' = [wire EXCEPT !.room = room]
    BY <1>3 DEF UserJoin
  <2>3. desired \in SUBSET Channels /\ room \in SUBSET Channels
    BY <1>1 DEF Plans, Wire
  <2> QED BY <1>2, <2>1, <2>2, <2>3
<1>4. CASE UserPart(c)
  <2> DEFINE desired == plan.desired \ {c}
             room == IF net = "up" THEN wire.room \ {c} ELSE wire.room
  <2>1. plan' = [plan EXCEPT !.desired = desired, !.revision = @ + 1]
    BY <1>1, <1>4 DEF UserPart, Bump, Forget, Plans
  <2>2. wire' = [wire EXCEPT !.room = room]
    BY <1>4 DEF UserPart
  <2>3. desired \in SUBSET Channels /\ room \in SUBSET Channels
    BY <1>1 DEF Plans, Wire
  <2> QED BY <1>2, <2>1, <2>2, <2>3
<1> QED BY <1>3, <1>4

LEMMA LeaveAllIInv ==
    ASSUME IInv, UserLeaveAll
    PROVE  IInv'
<1>1. plan \in Plans
  BY DEF IInv, RegTypeOK, Plans
<1>2. /\ plan' = [plan EXCEPT !.desired = {}, !.revision = @ + 1]
      /\ wire' = [wire EXCEPT !.room = {}]
      /\ reading' = Edited(reading)
      /\ UNCHANGED <<net, host, auth, wins, scope, policy, conns>>
  BY <1>1 DEF UserLeaveAll, Bump, Plans
<1>3. {} \in SUBSET Channels
  OBVIOUS
<1> QED BY <1>2, <1>3, EditIInv, Zenon

\* The read begins while nothing but the read changes.
LEMMA StartsIInv ==
    ASSUME IInv, ReadStarts
    PROVE  IInv'
<1>1. /\ reading' = [reading EXCEPT !.begun = TRUE, !.base = plan.revision]
      /\ UNCHANGED <<net, host, auth, wins, scope, plan, policy, wire, conns>>
  BY DEF ReadStarts
<1>2. reading \in ReadStates /\ plan.revision \in Nat
  BY DEF IInv, RegTypeOK, ReadStates
<1>3. reading' \in ReadStates /\ reading'.on = reading.on
  BY <1>1, <1>2 DEF ReadStates
<1> QED BY <1>1, <1>3 DEF IInv, RegTypeOK, Linked, EndOnce, ReadStates

LEMMA NextIInv ==
    ASSUME IInv, [RegNext]_regVars
    PROVE  IInv'
<1>1. CASE ServerReply
  BY <1>1, LineIInv DEF ServerReply
<1>2. CASE ServerKick
  BY <1>2, LineIInv DEF ServerKick
<1>3. CASE ServerLimits
  BY <1>3, LimitsIInv
<1>4. ASSUME NEW c \in Channels, UserJoin(c) \/ UserPart(c)
      PROVE  IInv'
  BY <1>4, UserEdits, EditIInv
<1>5. CASE UserLeaveAll
  BY <1>5, LeaveAllIInv
<1>6. ASSUME NEW h \in Hosts, Dial(h)
      PROVE  IInv'
  BY <1>6, DialIInv
<1>7. ASSUME NEW again \in BOOLEAN, Lost(again)
      PROVE  IInv'
  BY <1>7, LostIInv
<1>8. CASE Up
  BY <1>8, UpIInv
<1>9. CASE SettingsRead
  BY <1>9, SettingsIInv
<1>10. CASE ReadStarts
  BY <1>10, StartsIInv
<1>11. CASE UNCHANGED regVars
  BY <1>11 DEF regVars, IInv, RegTypeOK, Linked, EndOnce
<1> QED BY <1>1, <1>2, <1>3, <1>4, <1>5, <1>6, <1>7, <1>8, <1>9, <1>10, <1>11
        DEF RegNext

LEMMA Invariance == RegSpec => []IInv
<1>1. RegInit => IInv
  BY InitIInv
<1>2. IInv /\ [RegNext]_regVars => IInv'
  BY NextIInv
<1> QED BY <1>1, <1>2, PTL DEF RegSpec

\* Every state of the session, for any endpoints, channels and bounds, has
\* its type: phases stay phases and the desired channels stay channels.
THEOREM RegistrationTypeCorrect == RegSpec => []RegTypeOK
<1>1. IInv => RegTypeOK
  BY DEF IInv
<1> QED BY <1>1, Invariance, PTL

\* The negotiation of every connection is open as long as authentication
\* runs (cap_notify.bend cap_end_due, net.bend live_registered_with) and is
\* ended exactly once, however many connections, dials and fallbacks came
\* before.
THEOREM NegotiationEndsOnce == RegSpec => []EndOnce
<1>1. IInv => EndOnce
  BY DEF IInv
<1> QED BY <1>1, Invariance, PTL

-----------------------------------------------------------------------------
(* The contract *)

\* A flush in the terms of the contract: it moves a welcomed connection
\* whose proof is given to "recovered", or changes nothing there.
LEMMA FlushStage ==
    ASSUME IInv, net = "up", NEW p \in Plans, NEW admits, NEW n \in Nat,
           plan' = Flush(p, n, admits),
           p.sent = plan.sent, p.need = plan.need, p.base = plan.base,
           p.motd /\ ~p.sent => plan.welcome,
           p.welcome = plan.welcome, UNCHANGED net
    PROVE  \/ Stage' = Stage
           \/ /\ Stage = "welcomed" /\ Stage' = "recovered"
              /\ ~p.held /\ (plan.need => n > plan.base)
<1>1. /\ plan' \in Plans /\ plan'.welcome = p.welcome
      /\ plan'.sent # p.sent => ~p.sent /\ plan'.sent /\ FlushDue(p, n)
  BY FlushFacts
<1>2. plan.sent \in BOOLEAN /\ plan'.sent \in BOOLEAN
  BY <1>1 DEF IInv, RegTypeOK, Plans
<1>3. CASE plan'.sent = p.sent
  BY <1>1, <1>2, <1>3 DEF Stage
<1>4. CASE plan'.sent # p.sent
  BY <1>1, <1>2, <1>4 DEF Stage, FlushDue, Ready
<1> QED BY <1>3, <1>4

\* A step that leaves the connection and the barrier as they are keeps the
\* proof of identity; no flush changes it.
LEMMA LimitsContract ==
    ASSUME IInv, ServerLimits
    PROVE  [Contract!CNext]_(Contract!contractVars)
<1>1. /\ plan \in Plans /\ wins \in Nat /\ net = "up" /\ UNCHANGED net
      /\ plan' = Flush(plan, wins, policy')
      /\ UNCHANGED <<reading, wins>>
  BY DEF IInv, RegTypeOK, Plans, ServerLimits
<1>2. plan'.need = plan.need /\ wire'.won = wire.won
  <2>1. wire \in Wire /\ wire' = [wire EXCEPT !.room = Rejoined(@, plan, plan')]
    BY DEF IInv, RegTypeOK, ServerLimits
  <2> QED BY <1>1, <2>1, FlushFacts DEF Wire
<1>3. UNCHANGED <<ProofState, SettingsState>>
  BY <1>1, <1>2 DEF ProofState, SettingsState
<1>4. \/ Stage' = Stage
      \/ /\ Stage = "welcomed" /\ Stage' = "recovered"
         /\ ~plan.held /\ (plan.need => wins > plan.base)
  BY <1>1, FlushStage DEF IInv, Linked
<1>5. CASE Stage' = Stage
  BY <1>3, <1>5 DEF Contract!contractVars
<1>6. CASE /\ Stage = "welcomed" /\ Stage' = "recovered"
           /\ ~plan.held /\ (plan.need => wins > plan.base)
  <2>1. SettingsState' = "loaded"
    BY <1>1, <1>6 DEF IInv, Linked, SettingsState
  <2>2. ProofState # "awaited" /\ ProofState' = ProofState
    BY <1>1, <1>3, <1>6 DEF IInv, Linked, ProofState
  <2> QED BY <1>6, <2>1, <2>2 DEF Contract!CNext, Contract!CRecover
<1> QED BY <1>4, <1>5, <1>6

LEMMA SettingsContract ==
    ASSUME IInv, SettingsRead
    PROVE  [Contract!CNext]_(Contract!contractVars)
<1>1. PICK p \in Plans :
        /\ plan' = Flush(p, wins, policy)
        /\ p.need = plan.need /\ p.base = plan.base /\ ~p.held
        /\ p.welcome = plan.welcome /\ p.motd = plan.motd
        /\ p.sent = plan.sent
  BY SettingsFacts
<1>2. /\ wins \in Nat /\ UNCHANGED <<net, wins>>
      /\ reading.on /\ ~reading'.on
  BY DEF IInv, RegTypeOK, SettingsRead
<1>3. plan'.need = plan.need /\ wire'.won = wire.won
  <2>1. wire \in Wire /\ wire' = [wire EXCEPT !.room = Rejoined(@, plan, plan')]
    BY DEF IInv, RegTypeOK, SettingsRead
  <2> QED BY <1>1, <1>2, <2>1, FlushFacts DEF Wire
<1>4. /\ ProofState' = ProofState
      /\ SettingsState = "loading" /\ SettingsState' = "loaded"
  BY <1>2, <1>3 DEF ProofState, SettingsState
<1>5. \/ Stage' = Stage
      \/ /\ net = "up" /\ Stage = "welcomed" /\ Stage' = "recovered"
         /\ (plan.need => wins > plan.base)
  <2>1. CASE net = "up"
    BY <1>1, <1>2, <2>1, FlushStage DEF IInv, Linked
  <2>2. CASE net # "up"
    BY <1>2, <2>2 DEF Stage
  <2> QED BY <2>1, <2>2
<1>6. CASE Stage' = Stage
  BY <1>4, <1>6 DEF Contract!CNext, Contract!CLoaded
<1>7. CASE /\ net = "up" /\ Stage = "welcomed" /\ Stage' = "recovered"
           /\ (plan.need => wins > plan.base)
  <2>1. ProofState # "awaited"
    BY <1>7 DEF IInv, Linked, ProofState
  <2> QED BY <1>4, <1>7, <2>1 DEF Contract!CNext, Contract!CRecover
<1> QED BY <1>5, <1>6, <1>7

\* A line either welcomes, or proves, or completes the conditions and sends
\* the JOINs, or says nothing the contract hears.
LEMMA LineContract ==
    ASSUME IInv, NEW e, NEW kicked \in Channels \cup {""}, Line(e, kicked)
    PROVE  [Contract!CNext]_(Contract!contractVars)
<1> DEFINE won == Proved(auth.phase, AuthStep(auth, e).phase, e)
           seq == IF won THEN wins + 1 ELSE wins
           r == Received(plan, e, kicked)
<1>1. /\ net = "up" /\ UNCHANGED <<net, reading>>
      /\ plan' = Flush(r, seq, policy) /\ wins' = seq
      /\ wire'.won = (wire.won \/ won)
  BY DEF Line
<1>2. wire.won \in BOOLEAN /\ won \in BOOLEAN
  BY ProvedBool DEF IInv, RegTypeOK, Wire
<1>0. wins \in Nat
  BY DEF IInv, RegTypeOK
<1>3. won => e \in {"success", "confirm"}
  BY DEF Proved
<1>4. /\ r \in Plans
      /\ r.need = plan.need /\ r.base = plan.base /\ r.held = plan.held
      /\ r.sent = plan.sent
      /\ r.motd => r.welcome
      /\ e # "welcome" => r.welcome = plan.welcome
      /\ e = "welcome" => r.welcome /\ r.motd = plan.motd
  <2>1. plan \in Plans /\ (plan.motd => plan.welcome)
    BY DEF IInv, Linked, RegTypeOK, Plans
  <2> QED BY <2>1, ReceivedFacts
<1>5. seq \in Nat /\ IInv'
  <2>1. seq \in Nat
    <3> HIDE DEF won
    <3>1. seq = IF won THEN wins + 1 ELSE wins
      OBVIOUS
    <3>2. won \in BOOLEAN
      BY <1>2
    <3> HIDE DEF seq
    <3> QED BY <1>0, <3>1, <3>2, CountFacts
  <2> QED BY <2>1, LineIInv
<1> HIDE DEF won, seq, r
<1>6. /\ plan' \in Plans /\ plan'.need = plan.need /\ plan'.base = plan.base
      /\ plan'.held = plan.held /\ plan'.welcome = r.welcome
      /\ plan'.sent # plan.sent => ~plan.sent /\ plan'.sent /\ FlushDue(r, seq)
  <2>1. plan' = Flush(r, seq, policy) /\ seq \in Nat /\ r \in Plans
    BY <1>1, <1>4, <1>5
  <2>2. /\ plan' \in Plans /\ plan'.need = r.need /\ plan'.base = r.base
        /\ plan'.held = r.held /\ plan'.welcome = r.welcome
    BY <2>1, FlushedFacts
  <2>3. plan'.sent # r.sent => ~r.sent /\ plan'.sent
    BY <2>1, FlushedFacts
  <2>4. plan'.sent # r.sent => FlushDue(r, seq)
    BY <2>1 DEF Flush
  <2> QED BY <1>4, <2>2, <2>3, <2>4
<1>7. SettingsState' = SettingsState
  BY <1>1 DEF SettingsState
<1>8. /\ plan'.need => (wire'.won <=> wins' > plan'.base)
      /\ plan.held <=> reading.on
  BY <1>1, <1>5 DEF IInv, Linked
<1>9. CASE plan'.sent # plan.sent
  <2>1. /\ r.welcome /\ r.motd /\ ~r.held /\ (r.need => seq > r.base)
        /\ ~plan.sent /\ plan'.sent
    BY <1>6, <1>9 DEF FlushDue, Ready
  <2>2. plan.welcome
    <3>1. plan.motd => plan.welcome
      BY DEF IInv, Linked
    <3>2. e = "welcome" => plan.motd
      BY <1>4, <2>1
    <3>3. e # "welcome" => plan.welcome
      BY <1>4, <2>1
    <3> QED BY <3>1, <3>2, <3>3
  <2>3. Stage = "welcomed" /\ Stage' = "recovered"
    BY <1>1, <2>1, <2>2 DEF Stage
  <2>4. SettingsState' = "loaded"
    BY <1>1, <1>4, <1>8, <2>1 DEF SettingsState
  <2>5. plan'.need => wire'.won
    BY <1>1, <1>4, <1>6, <1>8, <2>1
  <2>6. \/ ProofState = "awaited" /\ ProofState' = "given"
        \/ ProofState # "awaited" /\ ProofState' = ProofState
    BY <1>1, <1>2, <1>6, <2>5 DEF ProofState
  <2> QED BY <2>3, <2>4, <2>6 DEF Contract!CNext, Contract!CRecover
<1>10. CASE plan'.sent = plan.sent /\ e = "welcome"
  <2>1. wire'.won = wire.won
    BY <1>1, <1>2, <1>3, <1>10
  <2>2. ProofState' = ProofState
    BY <1>1, <1>6, <2>1 DEF ProofState
  <2>3. \/ Stage' = Stage
        \/ Stage = "registering" /\ Stage' = "welcomed"
    BY <1>1, <1>4, <1>6, <1>10 DEF Stage
  <2> QED BY <1>7, <2>2, <2>3
          DEF Contract!CNext, Contract!CWelcome, Contract!contractVars
<1>11. CASE plan'.sent = plan.sent /\ e # "welcome"
  <2>1. Stage' = Stage /\ Stage # "down"
    BY <1>1, <1>4, <1>6, <1>11 DEF Stage
  <2>2. \/ ProofState = "awaited" /\ ProofState' = "given"
        \/ ProofState' = ProofState
    BY <1>1, <1>2, <1>6 DEF ProofState
  <2> QED BY <1>7, <2>1, <2>2
          DEF Contract!CNext, Contract!CProve, Contract!contractVars
<1> QED BY <1>9, <1>10, <1>11

LEMMA DialContract ==
    ASSUME IInv, NEW h \in Hosts, Dial(h)
    PROVE  [Contract!CNext]_(Contract!contractVars)
<1>1. net' = "dialing"
  BY DEF Dial
<1>2. Stage' = "down" /\ ProofState' = "unneeded"
      /\ SettingsState' \in {"loading", "loaded"}
  BY <1>1 DEF Stage, ProofState, SettingsState
<1> QED BY <1>2 DEF Contract!CNext, Contract!CDown, Contract!Settings

LEMMA LostContract ==
    ASSUME IInv, NEW again \in BOOLEAN, Lost(again)
    PROVE  [Contract!CNext]_(Contract!contractVars)
<1>1. net' # "up"
  BY DEF Lost
<1>2. Stage' = "down" /\ ProofState' = "unneeded"
      /\ SettingsState' \in {"loading", "loaded"}
  BY <1>1 DEF Stage, ProofState, SettingsState
<1> QED BY <1>2 DEF Contract!CNext, Contract!CDown, Contract!Settings

LEMMA UpContract ==
    ASSUME IInv, Up
    PROVE  [Contract!CNext]_(Contract!contractVars)
<1>1. /\ net # "up" /\ net' = "up" /\ UNCHANGED reading
      /\ plan' = Reset(plan, auth.mode # "off" /\ host = Home, wins)
      /\ wire' = [Unsaid EXCEPT !.ends = IF scope THEN 0 ELSE 1]
  BY DEF Up
<1>2. plan \in Plans
  BY DEF IInv, RegTypeOK, Plans
<1>3. /\ plan' \in Plans /\ ~plan'.sent /\ ~plan'.welcome
  BY <1>1, <1>2, FreshPlan DEF IInv
<1>4. ~wire'.won
  BY <1>1 DEF Unsaid
<1>5. Stage = "down" /\ Stage' = "registering"
  BY <1>1, <1>3 DEF Stage
<1>6. ProofState' \in {"unneeded", "awaited"} /\ SettingsState' = SettingsState
  BY <1>1, <1>4 DEF ProofState, SettingsState
<1> QED BY <1>5, <1>6 DEF Contract!CNext, Contract!CUp

\* The user's edits are no business of the contract.
LEMMA EditContract ==
    ASSUME IInv, NEW desired \in SUBSET Channels, NEW room \in SUBSET Channels,
           plan' = [plan EXCEPT !.desired = desired, !.revision = @ + 1],
           wire' = [wire EXCEPT !.room = room], reading' = Edited(reading),
           UNCHANGED <<net, host, auth, wins, scope, policy, conns>>
    PROVE  [Contract!CNext]_(Contract!contractVars)
<1>1. plan \in Plans /\ wire \in Wire
  BY DEF IInv, RegTypeOK, Plans
<1>2. /\ plan'.need = plan.need /\ plan'.welcome = plan.welcome
      /\ plan'.sent = plan.sent /\ wire'.won = wire.won
  BY <1>1 DEF Plans, Wire
<1>3. reading'.on = reading.on
  BY DEF IInv, RegTypeOK, Edited
<1> QED BY <1>2, <1>3
        DEF Contract!contractVars, Stage, ProofState, SettingsState

LEMMA NextContract ==
    ASSUME IInv, [RegNext]_regVars
    PROVE  [Contract!CNext]_(Contract!contractVars)
<1>1. CASE ServerReply
  BY <1>1, LineContract DEF ServerReply
<1>2. CASE ServerKick
  BY <1>2, LineContract DEF ServerKick
<1>3. CASE ServerLimits
  BY <1>3, LimitsContract
<1>4. ASSUME NEW c \in Channels, UserJoin(c) \/ UserPart(c)
      PROVE  [Contract!CNext]_(Contract!contractVars)
  BY <1>4, UserEdits, EditContract
<1>5. CASE UserLeaveAll
  <2>1. plan \in Plans
    BY DEF IInv, RegTypeOK, Plans
  <2>2. /\ plan' = [plan EXCEPT !.desired = {}, !.revision = @ + 1]
        /\ wire' = [wire EXCEPT !.room = {}]
        /\ reading' = Edited(reading)
        /\ UNCHANGED <<net, host, auth, wins, scope, policy, conns>>
    BY <1>5, <2>1 DEF UserLeaveAll, Bump, Plans
  <2>3. {} \in SUBSET Channels
    OBVIOUS
  <2> QED BY <2>2, <2>3, EditContract, Zenon
<1>6. ASSUME NEW h \in Hosts, Dial(h)
      PROVE  [Contract!CNext]_(Contract!contractVars)
  BY <1>6, DialContract
<1>7. ASSUME NEW again \in BOOLEAN, Lost(again)
      PROVE  [Contract!CNext]_(Contract!contractVars)
  BY <1>7, LostContract
<1>8. CASE Up
  BY <1>8, UpContract
<1>9. CASE SettingsRead
  BY <1>9, SettingsContract
<1>10. CASE ReadStarts
  <2>1. reading'.on = reading.on /\ UNCHANGED <<net, plan, wire>>
    BY <1>10 DEF ReadStarts, IInv, RegTypeOK
  <2> QED BY <2>1 DEF Contract!contractVars, Stage, ProofState, SettingsState
<1>11. CASE UNCHANGED regVars
  BY <1>11
  DEF regVars, Contract!contractVars, Stage, ProofState, SettingsState
<1> QED BY <1>1, <1>2, <1>3, <1>4, <1>5, <1>6, <1>7, <1>8, <1>9, <1>10, <1>11
        DEF RegNext

\* Every session keeps the contract of the recovery JOINs: once per
\* connection, after its own welcome, after its own proof when the launch
\* asked for one, and with the endpoint's settings read.
THEOREM JoinsKeepContract == RegSpec => KeepsContract
<1>1. RegInit => Contract!CInit
  BY DEF RegInit, Contract!CInit, Contract!Settings, Stage, ProofState,
         SettingsState
<1>2. IInv /\ [RegNext]_regVars => [Contract!CNext]_(Contract!contractVars)
  BY NextContract
<1> QED BY <1>1, <1>2, Invariance, PTL
        DEF RegSpec, KeepsContract, Contract!CSpec

-----------------------------------------------------------------------------
(* Nothing is left behind *)

\* A plan that was just flushed is not due.
LEMMA FlushedNotDue ==
    ASSUME NEW p \in Plans, NEW n \in Nat, NEW admits
    PROVE  ~FlushDue(Flush(p, n, admits), n)
<1>1. CASE FlushDue(p, n)
  BY <1>1 DEF Flush, FlushDue, Plans
<1>2. CASE ~FlushDue(p, n)
  BY <1>2 DEF Flush
<1> QED BY <1>1, <1>2

Settled == net = "up" => ~FlushDue(plan, wins)

LEMMA NextSettled ==
    ASSUME IInv, Settled, [RegNext]_regVars
    PROVE  Settled'
<1>0. plan \in Plans /\ wins \in Nat
  BY DEF IInv, RegTypeOK, Plans
<1>1. ASSUME NEW e, NEW kicked \in Channels \cup {""}, Line(e, kicked)
      PROVE  Settled'
  <2> DEFINE r == Received(plan, e, kicked)
  <2>1. plan' = Flush(r, wins', policy)
    BY <1>1 DEF Line
  <2>2. wins' \in Nat
    BY <1>1, LineIInv DEF IInv, RegTypeOK
  <2>3. plan.motd => plan.welcome
    BY DEF IInv, Linked
  <2>4. r \in Plans
    BY <1>0, <2>3, ReceivedFacts
  <2> HIDE DEF r
  <2> QED BY <2>1, <2>2, <2>4, FlushedNotDue DEF Settled
<1>2. CASE ServerReply
  BY <1>1, <1>2 DEF ServerReply
<1>3. CASE ServerKick
  BY <1>1, <1>3 DEF ServerKick
<1>4. CASE ServerLimits
  <2>1. plan' = Flush(plan, wins, policy') /\ wins' = wins
    BY <1>4 DEF ServerLimits
  <2> QED BY <1>0, <2>1, FlushedNotDue DEF Settled
<1>5. ASSUME NEW c \in Channels, UserJoin(c) \/ UserPart(c)
      PROVE  Settled'
  <2>1. PICK desired \in SUBSET Channels :
          plan' = [plan EXCEPT !.desired = desired, !.revision = @ + 1]
    BY <1>5, UserEdits
  <2>2. UNCHANGED <<net, wins>>
    BY <1>5 DEF UserJoin, UserPart
  <2> QED BY <1>0, <2>1, <2>2 DEF Settled, FlushDue, Ready, Plans
<1>6. CASE UserLeaveAll
  <2>1. /\ plan' = [plan EXCEPT !.desired = {}, !.revision = @ + 1]
        /\ UNCHANGED <<net, wins>>
    BY <1>0, <1>6 DEF UserLeaveAll, Bump, Plans
  <2> QED BY <1>0, <2>1 DEF Settled, FlushDue, Ready, Plans
<1>7. ASSUME NEW h \in Hosts, Dial(h)
      PROVE  Settled'
  BY <1>7 DEF Dial, Settled
<1>8. ASSUME NEW again \in BOOLEAN, Lost(again)
      PROVE  Settled'
  BY <1>8 DEF Lost, Settled
<1>9. CASE Up
  <2>1. plan' = Reset(plan, auth.mode # "off" /\ host = Home, wins)
    BY <1>9 DEF Up
  <2>2. ~plan'.welcome
    BY <1>0, <2>1, ResetFacts
  <2> QED BY <2>2 DEF Settled, FlushDue
<1>10. CASE SettingsRead
  <2>1. PICK p \in Plans : plan' = Flush(p, wins, policy)
    BY <1>10, SettingsFacts
  <2>2. wins' = wins
    BY <1>10 DEF SettingsRead
  <2> QED BY <1>0, <2>1, <2>2, FlushedNotDue DEF Settled
<1>11. CASE ReadStarts
  BY <1>11 DEF ReadStarts, Settled
<1>12. CASE UNCHANGED regVars
  BY <1>12 DEF regVars, Settled
<1> QED BY <1>2, <1>3, <1>4, <1>5, <1>6, <1>7, <1>8, <1>9, <1>10, <1>11, <1>12
        DEF RegNext

\* Once the welcome, the end of the MOTD, this connection's proof and the
\* settings have all come, in any order, the JOINs have been sent: no event
\* is left that they would have to wait for (join_plan.bend flush_iso).
THEOREM RecoveryNotForgotten == RegSpec => []JoinsNotForgotten
<1>1. RegInit => Settled
  BY DEF RegInit, Settled
<1>2. IInv /\ Settled /\ [RegNext]_regVars => Settled'
  BY NextSettled
<1>3. IInv /\ Settled => JoinsNotForgotten
  <2> SUFFICES ASSUME IInv, Settled, net = "up", plan.welcome, plan.motd,
                      ~reading.on, plan.need => wire.won, ~plan.sent
               PROVE  FALSE
    BY DEF JoinsNotForgotten
  <2>1. ~plan.held /\ (plan.need => wins > plan.base)
    BY DEF IInv, Linked
  <2> QED BY <2>1 DEF Settled, FlushDue, Ready
<1> QED BY <1>1, <1>2, <1>3, Invariance, PTL DEF RegSpec

-----------------------------------------------------------------------------
(* Credentials *)

\* The phases in which the connection has not carried a secret.
Unspent == {"idle", "cap", "challenge", "nickwait", "nickprobe"}

\* A secret moves the connection out of Unspent for good, and a session whose
\* profile is not for this endpoint stays idle.
Spending ==
    /\ net # "up" => wire.secrets = 0
    /\ wire.secrets <= 1
    /\ auth.phase \in Unspent => wire.secrets = 0
    /\ wire.secrets > 0 => host = Home
    /\ host = Home \/ (auth.mode = "off" /\ auth.phase = "idle")

\* A step sends a secret only out of Unspent, and none leads back into it.
LEMMA SecretStep ==
    ASSUME NEW a \in [mode : Modes, phase : Phases, held : BOOLEAN, fits : BOOLEAN],
           NEW e
    PROVE  LET after == AuthStep(a, e).phase
           IN  /\ SecretSent(a.phase, after) =>
                    a.phase \in Unspent \ {"idle"} /\ after \notin Unspent
               /\ after \in Unspent => a.phase \in Unspent
               /\ a.phase = "idle" => after = "idle"
<1>1. AuthStep(a, e).phase = AuthPhase(a, e)
  BY DEF AuthStep
<1>2. /\ AuthPhase(a, e) \in Unspent => a.phase \in Unspent
      /\ a.phase = "idle" => AuthPhase(a, e) = "idle"
  BY DEF AuthPhase, FallsBack, Fitting, Phases, Negotiating, Unspent
<1>3. SecretSent(a.phase, AuthPhase(a, e)) =>
        a.phase \in Unspent \ {"idle"} /\ AuthPhase(a, e) \notin Unspent
  BY DEF SecretSent, Unspent
<1> QED BY <1>1, <1>2, <1>3

LEMMA LineSpending ==
    ASSUME IInv, Spending, NEW e, NEW kicked, Line(e, kicked)
    PROVE  Spending'
<1> DEFINE sent == SecretSent(auth.phase, auth'.phase)
<1>1. /\ net = "up" /\ auth' = AuthStep(auth, e) /\ UNCHANGED <<net, host>>
      /\ wire'.secrets = wire.secrets + (IF sent THEN 1 ELSE 0)
  BY DEF Line
<1>2. auth \in [mode : Modes, phase : Phases, held : BOOLEAN, fits : BOOLEAN]
      /\ wire.secrets \in Nat
  BY DEF IInv, RegTypeOK, Wire
<1>3. /\ sent => auth.phase \in Unspent \ {"idle"} /\ auth'.phase \notin Unspent
      /\ auth'.phase \in Unspent => auth.phase \in Unspent
      /\ auth.phase = "idle" => auth'.phase = "idle"
      /\ auth'.mode = auth.mode
  BY <1>1, <1>2, SecretStep, AuthStepFacts
<1>4. sent \in BOOLEAN
  BY ProvedBool
<1> HIDE DEF sent
<1>5. /\ sent => wire'.secrets = wire.secrets + 1
      /\ ~sent => wire'.secrets = wire.secrets
  BY <1>1, <1>2, <1>4
<1>6. CASE sent
  BY <1>1, <1>3, <1>5, <1>6 DEF Spending
<1>7. CASE ~sent
  BY <1>1, <1>3, <1>5, <1>7 DEF Spending
<1> QED BY <1>4, <1>6, <1>7

\* A step that keeps the connection and what it carried keeps Spending.
LEMMA SameSpending ==
    ASSUME Spending, UNCHANGED <<net, host, auth>>, wire'.secrets = wire.secrets
    PROVE  Spending'
BY DEF Spending

LEMMA NextSpending ==
    ASSUME IInv, Spending, [RegNext]_regVars
    PROVE  Spending'
<1>0. wire \in Wire
  BY DEF IInv, RegTypeOK
<1>1. CASE ServerReply \/ ServerKick
  BY <1>1, LineSpending DEF ServerReply, ServerKick
<1>2. CASE ServerLimits \/ SettingsRead
  <2>1. wire' = [wire EXCEPT !.room = Rejoined(@, plan, plan')]
        /\ UNCHANGED <<net, host, auth>>
    BY <1>2 DEF ServerLimits, SettingsRead
  <2>2. wire'.secrets = wire.secrets
    BY <1>0, <2>1 DEF Wire
  <2> QED BY <2>1, <2>2, SameSpending
<1>3. ASSUME NEW c \in Channels, UserJoin(c) \/ UserPart(c)
      PROVE  Spending'
  <2>1. /\ \E room \in SUBSET Channels : wire' = [wire EXCEPT !.room = room]
        /\ UNCHANGED <<net, host, auth>>
    BY <1>3, UserEdits
  <2> QED BY <1>0, <2>1, SameSpending DEF Wire
<1>4. CASE UserLeaveAll
  BY <1>0, <1>4, SameSpending DEF UserLeaveAll, Wire
<1>5. ASSUME NEW h \in Hosts, Dial(h)
      PROVE  Spending'
  <2>1. net' = "dialing" /\ host' = h /\ auth' = ScopedAuth(h) /\ wire'.secrets = 0
    BY <1>5 DEF Dial, Unsaid
  <2>2. h = Home \/ (auth'.mode = "off" /\ auth'.phase = "idle")
    BY <2>1 DEF ScopedAuth, IInv, RegTypeOK
  <2> QED BY <2>1, <2>2 DEF Spending
<1>6. ASSUME NEW again \in BOOLEAN, Lost(again)
      PROVE  Spending'
  BY <1>6 DEF Lost, Unsaid, Spending
<1>7. CASE Up
  <2>1. /\ UNCHANGED host /\ wire'.secrets = 0
        /\ auth' = [auth EXCEPT !.phase = InitialPhase(auth.mode), !.held = FALSE]
    BY <1>7 DEF Up, Unsaid
  <2>2. auth'.mode = auth.mode /\ auth'.phase = InitialPhase(auth.mode)
    BY <2>1 DEF IInv, RegTypeOK
  <2> QED BY <2>1, <2>2 DEF Spending, InitialPhase
<1>8. CASE ReadStarts
  BY <1>8, SameSpending DEF ReadStarts
<1>9. CASE UNCHANGED regVars
  BY <1>9, SameSpending DEF regVars
<1> QED BY <1>1, <1>2, <1>3, <1>4, <1>5, <1>6, <1>7, <1>8, <1>9 DEF RegNext

\* Through any dials, redials, respellings and fallbacks: a connection
\* carries at most one secret, and none to an endpoint but the one the launch
\* named (client.bend client_scope, auth.bend auth_step).
THEOREM SecretsScoped == RegSpec => []SecretOnce
<1>1. RegInit => Spending
  BY DEF RegInit, Unsaid, Spending
<1>2. IInv /\ Spending /\ [RegNext]_regVars => Spending'
  BY NextSpending
<1>3. Spending => SecretOnce
  BY DEF Spending, SecretOnce
<1> QED BY <1>1, <1>2, <1>3, Invariance, PTL DEF RegSpec

-----------------------------------------------------------------------------
(* What the connection asked for *)

\* Before the flush the connection has asked for nothing; after it nothing
\* holds the plan and the two agree.
Agrees(p, room) ==
    IF p.sent THEN ~p.held /\ room = p.desired ELSE room = {}

Rooms == net = "up" => Agrees(plan, wire.room)

\* A flush keeps the two in agreement.
LEMMA FlushAgrees ==
    ASSUME NEW before, NEW p \in Plans, NEW n, NEW admits, NEW room,
           before.sent = p.sent, Agrees(p, room),
           NEW q, q = Flush(p, n, admits)
    PROVE  Agrees(q, Rejoined(room, before, q))
<1>1. CASE FlushDue(p, n)
  <2>1. q = [p EXCEPT !.sent = TRUE, !.desired = @ \cap admits]
    BY <1>1 DEF Flush
  <2>2. q.sent /\ ~q.held /\ ~before.sent /\ room = {}
    BY <1>1, <2>1 DEF FlushDue, Agrees, Plans
  <2> QED BY <2>2 DEF Agrees, Rejoined
<1>2. CASE ~FlushDue(p, n)
  <2>1. q = p
    BY <1>2 DEF Flush
  <2> QED BY <2>1 DEF Agrees, Rejoined
<1> QED BY <1>1, <1>2

\* A line takes out of the desired channels the one we are kicked from.
LEMMA ReceivedDesired ==
    ASSUME NEW p \in Plans, NEW e, NEW kicked
    PROVE  LET q == Received(p, e, kicked)
           IN  /\ e = "kick" => q.desired = p.desired \ {kicked}
               /\ e # "kick" => q.desired = p.desired
               /\ q.sent = p.sent /\ q.held = p.held
<1> DEFINE q == Received(p, e, kicked)
<1>1. CASE e = "kick" /\ kicked \in p.desired
  <2>1. q = [p EXCEPT !.desired = @ \ {kicked}, !.revision = @ + 1]
    BY <1>1 DEF Received, Bump, Forget, Plans
  <2> QED BY <1>1, <2>1 DEF Plans
<1>2. CASE e = "kick" /\ kicked \notin p.desired
  BY <1>2 DEF Received
<1>3. CASE e # "kick"
  BY <1>3 DEF Received, Plans
<1> QED BY <1>1, <1>2, <1>3

LEMMA LineRooms ==
    ASSUME IInv, Rooms, NEW e, NEW kicked, Line(e, kicked)
    PROVE  Rooms'
<1> DEFINE r == Received(plan, e, kicked)
           room == wire.room \ (IF e = "kick" THEN {kicked} ELSE {})
<1>1. /\ net = "up" /\ plan' = Flush(r, wins', policy)
      /\ wire'.room = Rejoined(room, plan, plan')
  BY DEF Line
<1>2. plan \in Plans /\ (plan.motd => plan.welcome)
  BY DEF IInv, RegTypeOK, Plans, Linked
<1>3. /\ r \in Plans /\ r.sent = plan.sent /\ r.held = plan.held
      /\ e = "kick" => r.desired = plan.desired \ {kicked}
      /\ e # "kick" => r.desired = plan.desired
  BY <1>2, ReceivedFacts, ReceivedDesired
<1>4. Agrees(r, room)
  <2>1. Agrees(plan, wire.room)
    BY <1>1 DEF Rooms
  <2>2. /\ e = "kick" => room = wire.room \ {kicked}
        /\ e # "kick" => room = wire.room
    OBVIOUS
  <2> HIDE DEF r, room
  <2> QED BY <1>3, <2>1, <2>2 DEF Agrees
<1>5. plan.sent = r.sent /\ r \in Plans
  BY <1>3
<1> HIDE DEF r, room
<1>6. Agrees(plan', Rejoined(room, plan, plan'))
  BY <1>1, <1>2, <1>4, <1>5, FlushAgrees
<1> QED BY <1>1, <1>6 DEF Rooms

LEMMA NextRooms ==
    ASSUME IInv, Rooms, [RegNext]_regVars
    PROVE  Rooms'
<1>0. plan \in Plans /\ wire \in Wire /\ wins \in Nat
  BY DEF IInv, RegTypeOK, Plans
<1>1. CASE ServerReply \/ ServerKick
  BY <1>1, LineRooms DEF ServerReply, ServerKick
<1>2. CASE ServerLimits
  <2>1. /\ net = "up" /\ UNCHANGED net /\ plan' = Flush(plan, wins, policy')
        /\ wire' = [wire EXCEPT !.room = Rejoined(@, plan, plan')]
    BY <1>2 DEF ServerLimits
  <2>2. Agrees(plan', Rejoined(wire.room, plan, plan'))
    BY <1>0, <2>1, FlushAgrees DEF Rooms
  <2> QED BY <1>0, <2>1, <2>2 DEF Rooms, Wire
<1>3. ASSUME NEW c \in Channels, UserJoin(c)
      PROVE  Rooms'
  <2>1. plan' = [plan EXCEPT !.desired = @ \cup {c}, !.revision = @ + 1]
    BY <1>0, <1>3 DEF UserJoin, Bump, Remember, Plans
  <2>2. /\ UNCHANGED net
        /\ wire'.room = IF EditingOpen(plan) THEN wire.room \cup {c} ELSE wire.room
    BY <1>0, <1>3 DEF UserJoin, Wire
  <2>3. /\ plan'.desired = plan.desired \cup {c}
        /\ plan'.sent = plan.sent /\ plan'.held = plan.held
    BY <1>0, <2>1 DEF Plans
  <2> QED BY <2>2, <2>3 DEF Rooms, Agrees, EditingOpen
<1>4. ASSUME NEW c \in Channels, UserPart(c)
      PROVE  Rooms'
  <2>1. plan' = [plan EXCEPT !.desired = @ \ {c}, !.revision = @ + 1]
    BY <1>0, <1>4 DEF UserPart, Bump, Forget, Plans
  <2>2. /\ UNCHANGED net
        /\ wire'.room = IF net = "up" THEN wire.room \ {c} ELSE wire.room
    BY <1>0, <1>4 DEF UserPart, Wire
  <2>3. /\ plan'.desired = plan.desired \ {c}
        /\ plan'.sent = plan.sent /\ plan'.held = plan.held
    BY <1>0, <2>1 DEF Plans
  <2> QED BY <2>2, <2>3 DEF Rooms, Agrees
<1>5. CASE UserLeaveAll
  <2>1. /\ plan' = [plan EXCEPT !.desired = {}, !.revision = @ + 1]
        /\ wire' = [wire EXCEPT !.room = {}] /\ UNCHANGED net
    BY <1>0, <1>5 DEF UserLeaveAll, Bump, Plans
  <2> QED BY <1>0, <2>1 DEF Rooms, Agrees, Plans, Wire
<1>6. ASSUME NEW h \in Hosts, Dial(h)
      PROVE  Rooms'
  BY <1>6 DEF Dial, Rooms
<1>7. ASSUME NEW again \in BOOLEAN, Lost(again)
      PROVE  Rooms'
  BY <1>7 DEF Lost, Rooms
<1>8. CASE Up
  <2>1. /\ plan' = Reset(plan, auth.mode # "off" /\ host = Home, wins)
        /\ wire'.room = {}
    BY <1>8 DEF Up, Unsaid
  <2>2. ~plan'.sent
    BY <1>0, <2>1, FreshPlan DEF IInv
  <2> QED BY <2>1, <2>2 DEF Rooms, Agrees
<1>9. CASE SettingsRead
  <2> SUFFICES ASSUME net' = "up" PROVE Agrees(plan', wire'.room)
    BY DEF Rooms
  <2>1. PICK p \in Plans : /\ plan' = Flush(p, wins, policy)
                           /\ p.sent = plan.sent
    BY <1>9, SettingsFacts
  <2>2. /\ net = "up" /\ wire'.room = Rejoined(wire.room, plan, plan')
    BY <1>0, <1>9 DEF SettingsRead, Wire
  <2>3. ~plan.sent /\ wire.room = {}
    BY <1>9, <2>2 DEF SettingsRead, IInv, Linked, Rooms, Agrees
  <2>4. Agrees(p, wire.room)
    BY <2>1, <2>3 DEF Agrees
  <2> QED BY <1>0, <2>1, <2>2, <2>4, FlushAgrees
<1>10. CASE ReadStarts
  BY <1>10 DEF ReadStarts, Rooms
<1>11. CASE UNCHANGED regVars
  BY <1>11 DEF regVars, Rooms
<1> QED BY <1>1, <1>2, <1>3, <1>4, <1>5, <1>6, <1>7, <1>8, <1>9, <1>10, <1>11
        DEF RegNext

\* Whatever the user, the server and the settings did before the flush and
\* since: once the plan is open for editing, the connection has asked for
\* exactly the desired channels (join_plan.bend flush_iso, session.bend).
THEOREM RoomsAsDesired == RegSpec => []RoomIsDesired
<1>1. RegInit => Rooms
  BY DEF RegInit, Rooms
<1>2. IInv /\ Rooms /\ [RegNext]_regVars => Rooms'
  BY NextRooms
<1>3. Rooms => RoomIsDesired
  BY DEF Rooms, Agrees, RoomIsDesired, EditingOpen
<1> QED BY <1>1, <1>2, <1>3, Invariance, PTL DEF RegSpec

-----------------------------------------------------------------------------
(* Late settings *)

\* Every edit since the read began shows in the plan's revision, and one is
\* counted only once the read has begun.
Reads ==
    /\ reading.begun => reading.base <= plan.revision
    /\ reading.edited => reading.begun /\ reading.base < plan.revision

\* A step that keeps the read, or marks it edited as the revision rises.
LEMMA SameReads ==
    ASSUME IInv, Reads, UNCHANGED reading, plan'.revision \in Nat,
           plan'.revision >= plan.revision
    PROVE  Reads'
BY DEF IInv, RegTypeOK, Reads

LEMMA EditReads ==
    ASSUME IInv, Reads, reading' = Edited(reading),
           plan'.revision = plan.revision + 1
    PROVE  Reads'
<1>1. /\ reading.base \in Nat /\ plan.revision \in Nat
      /\ reading'.base = reading.base /\ reading'.begun = reading.begun
      /\ reading'.edited = reading.begun
  BY DEF IInv, RegTypeOK, Edited
<1> QED BY <1>1 DEF Reads

\* A flush leaves the revision; a line raises it by a KICK at most.
LEMMA RevisionFacts ==
    ASSUME NEW p \in Plans, NEW e, NEW kicked, NEW n, NEW admits, NEW needs
    PROVE  /\ Received(p, e, kicked).revision \in {p.revision, p.revision + 1}
           /\ Flush(p, n, admits).revision = p.revision
           /\ Reset(p, needs, n).revision = p.revision
<1>1. Flush(p, n, admits).revision = p.revision
  BY DEF Flush, Plans
<1>2. Reset(p, needs, n).revision = p.revision
  BY DEF Reset, Plans
<1>3. CASE e = "kick" /\ kicked \in p.desired
  <2>1. Received(p, e, kicked) =
          [p EXCEPT !.desired = @ \ {kicked}, !.revision = @ + 1]
    BY <1>3 DEF Received, Bump, Forget, Plans
  <2> QED BY <1>1, <1>2, <2>1 DEF Plans
<1>4. CASE ~(e = "kick" /\ kicked \in p.desired)
  BY <1>1, <1>2, <1>4 DEF Received, Plans
<1> QED BY <1>3, <1>4

LEMMA LineReads ==
    ASSUME IInv, Reads, NEW e, NEW kicked, Line(e, kicked)
    PROVE  Reads'
<1> DEFINE r == Received(plan, e, kicked)
<1>1. plan' = Flush(r, wins', policy) /\ UNCHANGED reading
  BY DEF Line
<1>2. plan \in Plans /\ (plan.motd => plan.welcome)
  BY DEF IInv, RegTypeOK, Plans, Linked
<1>3. r \in Plans
  BY <1>2, ReceivedFacts
<1>4. r.revision \in {plan.revision, plan.revision + 1}
  BY <1>2, RevisionFacts
<1> HIDE DEF r
<1>5. plan'.revision = r.revision
  BY <1>1, <1>3, RevisionFacts
<1>6. plan.revision \in Nat
  BY <1>2 DEF Plans
<1> QED BY <1>1, <1>4, <1>5, <1>6, SameReads

LEMMA NextReads ==
    ASSUME IInv, Reads, [RegNext]_regVars
    PROVE  Reads'
<1>0. plan \in Plans /\ plan.revision \in Nat
  BY DEF IInv, RegTypeOK, Plans
<1>1. CASE ServerReply \/ ServerKick
  BY <1>1, LineReads DEF ServerReply, ServerKick
<1>2. CASE ServerLimits
  BY <1>0, <1>2, RevisionFacts, SameReads DEF ServerLimits
<1>3. ASSUME NEW c \in Channels, UserJoin(c) \/ UserPart(c)
      PROVE  Reads'
  <2>1. PICK desired \in SUBSET Channels :
          plan' = [plan EXCEPT !.desired = desired, !.revision = @ + 1]
    BY <1>3, UserEdits
  <2>2. reading' = Edited(reading)
    BY <1>3, UserEdits
  <2> QED BY <1>0, <2>1, <2>2, EditReads DEF Plans
<1>4. CASE UserLeaveAll
  <2>1. /\ plan' = [plan EXCEPT !.desired = {}, !.revision = @ + 1]
        /\ reading' = Edited(reading)
    BY <1>0, <1>4 DEF UserLeaveAll, Bump, Plans
  <2> QED BY <1>0, <2>1, EditReads DEF Plans
<1>5. ASSUME NEW h \in Hosts, Dial(h)
      PROVE  Reads'
  <2> DEFINE needs == h = Home /\ auth.mode # "off"
  <2>1. CASE h = host
    <3>1. plan' = Reset(plan, needs, wins) /\ UNCHANGED reading
      BY <1>5, <2>1 DEF Dial
    <3> QED BY <1>0, <3>1, RevisionFacts, SameReads
  <2>2. CASE h # host
    <3>1. PICK names \in SUBSET Channels :
            plan' = Reset([[plan EXCEPT !.held = TRUE] EXCEPT !.desired = names],
                          needs, wins)
      BY <1>5, <2>2 DEF Dial
    <3>2. \E begun \in BOOLEAN :
            reading' = [on |-> TRUE, begun |-> begun, base |-> plan.revision,
                        edited |-> FALSE]
      BY <1>5, <2>2 DEF Dial
    <3>3. [[plan EXCEPT !.held = TRUE] EXCEPT !.desired = names] \in Plans
      BY <1>0 DEF Plans
    <3>4. plan'.revision = plan.revision
      BY <1>0, <3>1, <3>3, RevisionFacts, ZenonT(40) DEF Plans
    <3> QED BY <1>0, <3>2, <3>4 DEF Reads
  <2> QED BY <2>1, <2>2
<1>6. ASSUME NEW again \in BOOLEAN, Lost(again)
      PROVE  Reads'
  <2>1. plan'.revision = plan.revision /\ UNCHANGED reading
    BY <1>0, <1>6, RevisionFacts DEF Lost
  <2> QED BY <1>0, <2>1, SameReads
<1>7. CASE Up
  <2>1. plan'.revision = plan.revision /\ UNCHANGED reading
    BY <1>0, <1>7, RevisionFacts DEF Up
  <2> QED BY <1>0, <2>1, SameReads
<1>8. CASE SettingsRead
  BY <1>8 DEF SettingsRead, Reads
<1>9. CASE ReadStarts
  <2>1. reading'.base = plan.revision /\ plan' = plan
    BY <1>9 DEF ReadStarts, IInv, RegTypeOK
  <2>2. reading'.edited = reading.edited /\ ~reading.begun
    BY <1>9 DEF ReadStarts, IInv, RegTypeOK
  <2> QED BY <1>0, <2>1, <2>2 DEF Reads
<1>10. CASE UNCHANGED regVars
  BY <1>10 DEF regVars, Reads
<1> QED BY <1>1, <1>2, <1>3, <1>4, <1>5, <1>6, <1>7, <1>8, <1>9, <1>10
        DEF RegNext

\* A read the user edited under leaves the desired channels, but for those
\* the server's limits refuse at the flush.
LEMMA ReadKeeps ==
    ASSUME IInv, Reads
    PROVE  LateSettings
<1> SUFFICES ASSUME SettingsRead, reading.edited
             PROVE  plan'.desired \in {plan.desired, plan.desired \cap policy}
  BY DEF LateSettings
<1>1. plan \in Plans /\ plan.revision \in Nat /\ reading.base \in Nat
  BY DEF IInv, RegTypeOK, Plans
<1>2. plan.revision # reading.base
  BY <1>1 DEF Reads
<1> DEFINE open == [plan EXCEPT !.held = FALSE]
<1>3. plan' = Flush(open, wins, policy)
  BY <1>2 DEF SettingsRead
<1>4. open \in Plans /\ open.desired = plan.desired
  BY <1>1 DEF Plans
<1> HIDE DEF open
<1> QED BY <1>3, <1>4 DEF Flush, Plans

\* Settings whose read had begun before an edit of the user leave the desired
\* channels alone when they arrive, through any number of dials, redials,
\* kicks and lines between; of an edit made before the read began, while an
\* earlier job held it up, the theorem says nothing (preferences_runtime.bend
\* take.read and loaded.present, join_plan.bend seed_channels).
THEOREM LateReadKeeps == RegSpec => LateSettingsKept
<1>1. RegInit => Reads
  BY DEF RegInit, Reads
<1>2. IInv /\ Reads /\ [RegNext]_regVars => Reads'
  BY NextReads
<1>3. IInv /\ Reads => LateSettings
  BY ReadKeeps
<1> QED BY <1>1, <1>2, <1>3, Invariance, PTL DEF RegSpec, LateSettingsKept
=============================================================================
