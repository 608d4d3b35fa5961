---------------------------- MODULE Delivery_proofs ----------------------------
(***************************************************************************)
(* What the sockets of the network actor carry, for every value of the     *)
(* constants: the shape of the state, the kinds of step, that every line   *)
(* goes out under the request ID that was given to it, and that no line of *)
(* a generation in play is lost, duplicated or out of order between the UI *)
(* and the socket, and that no line is sent outside the budget.            *)
(***************************************************************************)
EXTENDS NetActor_proofs, FiniteSums

\* Where the elements of a concatenation come from.
LEMMA ConcatIndex ==
    ASSUME NEW S, NEW a \in Seq(S), NEW b \in Seq(S)
    PROVE  /\ a \o b \in Seq(S)
           /\ Len(a) \in Nat
           /\ \A i \in DOMAIN a : /\ i \in DOMAIN (a \o b) /\ (a \o b)[i] = a[i]
                                  /\ i \in Nat /\ i <= Len(a)
           /\ \A i \in DOMAIN b :
                /\ i \in Nat /\ i >= 1
                /\ Len(a) + i \in DOMAIN (a \o b) /\ (a \o b)[Len(a) + i] = b[i]
           /\ \A i \in DOMAIN (a \o b) :
                \/ i \in DOMAIN a
                \/ i - Len(a) \in DOMAIN b /\ i > Len(a) /\ i \in Nat
<1>1. /\ a \o b \in Seq(S) /\ Len(a \o b) = Len(a) + Len(b)
      /\ \A i \in 1 .. Len(a) + Len(b) :
           (a \o b)[i] = IF i <= Len(a) THEN a[i] ELSE b[i - Len(a)]
      /\ Len(a) \in Nat /\ Len(b) \in Nat
  BY ConcatProperties
<1>2. /\ DOMAIN a = 1 .. Len(a) /\ DOMAIN b = 1 .. Len(b)
      /\ DOMAIN (a \o b) = 1 .. Len(a) + Len(b)
  BY <1>1
<1> QED BY <1>1, <1>2

-----------------------------------------------------------------------------
(* The setup, the readers and the commands *)

\* A writer has a socket only in its loop or in a replay, and a replay has
\* just adopted the setup's.
Sockets ==
    /\ w.sock => /\ pc \in {"replay", "loop"} /\ w.gen # 0
                 /\ conn[w.gen].reg # "none" /\ conn[w.gen].st = "live"
    /\ pc = "replay" => /\ w.gen = s.gen /\ ~Cancelled(s) /\ s.dials = <<>>
                        /\ conn[s.gen].reg # "none" /\ reader[s.gen].pc = "none"
    /\ pc \in Setting \cup {"deferred", "replay"} => s.gen # 0
    /\ pc = "deferred" => s.kept = <<>>

\* A connection that was never registered has carried nothing.
Untouched ==
    \A g \in Gens :
        /\ conn[g].reg = "none" =>
             conn[g].wire = <<>> /\ conn[g].st # "flushed" /\ reader[g].pc = "none"
        /\ reader[g].pc = "none" => reader[g].pings = 0

\* A reply is its reader's, under the request ID minted for it.
Made(rd, c) ==
    /\ c.k = "Cont" => \A n \in DOMAIN c.lines : c.lines[n].from = "ui"
    /\ c.k = "Pong" =>
         /\ c.gen \in Gens /\ rd[c.gen].pc # "none" /\ Len(c.lines) = 1
         /\ c.lines[1].from = "pong" /\ c.lines[1].gen = c.gen
         /\ c.req = ReplyTxn(c.gen, c.lines[1].id)

AllMade ==
    /\ \A i \in DOMAIN cmd : Made(reader, cmd[i])
    /\ \A i \in DOMAIN s.kept : Made(reader, s.kept[i])

\* The replies the reader of g has handed over, and the ID of its next one.
Ponged(g) == IF reader[g].pc = "pong" THEN reader[g].pings - 1 ELSE reader[g].pings

Minted ==
    \A g \in Gens :
        reader[g].pc # "none" => reader[g].req = ReplyTxn(g, Ponged(g) + 1)

\* One Begin is sent in all.
BeginOnce ==
    /\ ~ui.begun => \A i \in DOMAIN cmd : cmd[i].k # "Begin"
    /\ \A i, j \in DOMAIN cmd : cmd[i].k = "Begin" /\ cmd[j].k = "Begin" => i = j
    /\ ~ui.begun /\ cmdOpen => pc = "deferred"

ShapeInv == Sockets /\ Untouched /\ AllMade /\ Minted /\ BeginOnce

-----------------------------------------------------------------------------
(* The steps, told apart by what they do to lines *)

WiresKept ==
    \A g \in Gens :
        /\ conn'[g].wire = conn[g].wire
        /\ conn'[g].st = "flushed" => conn[g].st = "flushed"
        /\ conn[g].reg # "none" => conn'[g].reg # "none"

ReadersKept ==
    \A g \in Gens :
        /\ reader'[g].pc = "none" <=> reader[g].pc = "none"
        /\ reader'[g].req = reader[g].req /\ Ponged(g)' = Ponged(g)
        /\ reader[g].pc = "none" => reader'[g].pings = reader[g].pings

\* No line moves, and a setup under way keeps what it keeps.
Stays ==
    /\ UNCHANGED <<w, cmd, cmdOpen, ui>>
    /\ WiresKept /\ ReadersKept
    /\ w.sock => UNCHANGED conn
    /\ \A g \in Gens : conn'[g].reg = conn[g].reg
    /\ \/ UNCHANGED <<pc, s>>
       \/ /\ pc \in Setting /\ pc' \in Setting /\ s'.gen # 0
          /\ s'.kept = s.kept /\ KeptFor' = KeptFor
          /\ Cancelled(s) => Cancelled(s')
       \/ pc \in {"eof", "done"} /\ pc' \in {"done", "stopped"} /\ s' = s

\* A setup, or the wait for Begin, ends without a socket.
Leaves ==
    /\ pc \in Setting \cup {"deferred"} /\ pc' \in {"loop", "eof"}
    /\ UNCHANGED <<cmd, cmdOpen, ui, reader>>
    /\ WiresKept
    /\ ~w'.sock /\ w'.pending = <<>> /\ w'.ntxn = w.ntxn
    /\ w'.ptxn \in {<<>>, w.ptxn} /\ s'.kept = <<>>

\* A generation the setup has not reached has no connection.
LEMMA Unregistered ==
    ASSUME TypeInv, WantInv, Untouched, NEW g \in Gens, ~Behind(g)
    PROVE  /\ conn[g].reg = "none" /\ conn[g].wire = <<>> /\ conn[g].st # "flushed"
           /\ reader[g].pc = "none" /\ reader[g].pings = 0 /\ Ponged(g) = 0
BY DEF WantInv, RegisteredBehind, Untouched, Ponged

LEMMA ConnTyped ==
    ASSUME TypeInv
    PROVE  /\ conn \in [Gens -> Conns] /\ \A g \in Gens : conn[g] \in Conns
           /\ reader \in [Gens -> Readers] /\ \A g \in Gens : reader[g] \in Readers
           /\ ui \in Uis /\ pc \in Phases /\ cmdOpen \in BOOLEAN
BY DEF TypeInv, TypeOK

LEMMA StaysWithin ==
    ASSUME TypeInv, DialInv, WantInv, ShapeInv,
           \/ DialConnected \/ PeekEnd \/ SetupUpgrade \/ UpgradeDone \/ DrainEnded
           \/ SetupRetry
    PROVE  Stays
<1>1. /\ s \in Setups /\ s.gen \in Gens /\ conn \in [Gens -> Conns]
      /\ \A g \in Gens : conn[g] \in Conns
      /\ pc \in Setting /\ pc' \in Setting
  BY StateTyped, ConnTyped
     DEF DialConnected, PeekEnd, SetupUpgrade, UpgradeDone, DrainEnded, SetupRetry, Setting
<1>2. /\ conn[s.gen].reg = "none" /\ conn[s.gen].wire = <<>> /\ conn[s.gen].st # "flushed"
  <2>1. s.gen \in Nat /\ pc \in Setting \cup {"deferred"}
    BY <1>1, StateTyped
  <2>2. ~(s.gen < s.gen)
    BY <2>1
  <2>3. ~Behind(s.gen)
    BY <2>1, <2>2 DEF Behind
  <2> QED BY <1>1, <2>3, Unregistered DEF ShapeInv
<1>3. UNCHANGED <<w, cmd, cmdOpen, ui, reader>>
  BY DEF DialConnected, PeekEnd, SetupUpgrade, UpgradeDone, DrainEnded, SetupRetry
<1>4. ~w.sock /\ s.gen # 0
  BY <1>1 DEF ShapeInv, Sockets, Setting
<1>5. ReadersKept
  BY <1>3 DEF ReadersKept, Ponged
<1>6. WiresKept /\ \A g \in Gens : conn'[g].reg = conn[g].reg
  <2>1. CASE DialConnected
    <3>1. conn' = [conn EXCEPT ![s.gen] = [NoConn EXCEPT !.st = "raw", !.ep = s.ep]]
      BY <2>1 DEF DialConnected
    <3>2. /\ \A g \in Gens : g # s.gen => conn'[g] = conn[g]
          /\ conn'[s.gen].st = "raw" /\ conn'[s.gen].wire = <<>>
          /\ conn'[s.gen].reg = "none"
      BY <1>1, <3>1 DEF NoConn
    <3> QED BY <1>2, <3>2 DEF WiresKept
  <2>2. CASE PeekEnd \/ SetupUpgrade \/ DrainEnded
    BY <2>2 DEF PeekEnd, SetupUpgrade, DrainEnded, WiresKept
  <2>3. CASE UpgradeDone
    <3>1. PICK x : conn' = [conn EXCEPT ![s.gen].st = "up", ![s.gen].wanted = x]
      BY <2>3 DEF UpgradeDone
    <3>2. /\ \A g \in Gens : g # s.gen => conn'[g] = conn[g]
          /\ conn'[s.gen].st = "up" /\ conn'[s.gen].wire = conn[s.gen].wire
          /\ conn'[s.gen].reg = conn[s.gen].reg
      BY <1>1, <3>1 DEF Conns
    <3> QED BY <3>2 DEF WiresKept
  <2>4. CASE SetupRetry
    <3>1. conn' = [conn EXCEPT ![s.gen].st = "abandoned"]
      BY <2>4 DEF SetupRetry, CloseConn
    <3>2. /\ \A g \in Gens : g # s.gen => conn'[g] = conn[g]
          /\ conn'[s.gen].st = "abandoned" /\ conn'[s.gen].wire = conn[s.gen].wire
          /\ conn'[s.gen].reg = conn[s.gen].reg
      BY <1>1, <3>1 DEF Conns
    <3> QED BY <3>2 DEF WiresKept
  <2> QED BY <2>1, <2>2, <2>3, <2>4
<1>7. /\ s'.gen # 0 /\ s'.kept = s.kept /\ KeptFor' = KeptFor
      /\ Cancelled(s) => Cancelled(s')
  <2>1. CASE DialConnected \/ PeekEnd \/ SetupUpgrade \/ UpgradeDone \/ DrainEnded
    <3>1. /\ s'.gen = s.gen /\ s'.kept = s.kept /\ s'.dials = s.dials
          /\ s'.dropped = s.dropped /\ (s.closed => s'.closed)
      BY <1>1, <2>1
         DEF Setups, DialConnected, PeekEnd, SetupUpgrade, UpgradeDone, DrainEnded
    <3> QED BY <1>4, <3>1 DEF KeptFor, Cancelled
  <2>2. CASE SetupRetry
    <3> DEFINE d == s.dials[Len(s.dials)]
    <3>1. s' = Setup(d.gen, d.ep, s.live, s.redial, s.kept)
      BY <2>2 DEF SetupRetry
    <3>2. s.dials # <<>> /\ ~Cancelled(s)
      BY <2>2 DEF SetupRetry, Superseded
    <3>3. Len(s.dials) \in DOMAIN s.dials
      BY <3>2, StateTyped
    <3>4. d.gen \in Nat /\ s.gen < d.gen
      BY <3>3, StateTyped DEF DialInv
    <3>5. d.gen # 0
      BY <3>4, StateTyped
    <3> HIDE DEF d
    <3>6. s'.gen = d.gen /\ s'.dials = <<>> /\ s'.kept = s.kept
      BY <3>1 DEF Setup
    <3> QED BY <3>2, <3>5, <3>6 DEF KeptFor, d
  <2> QED BY <2>1, <2>2
<1> QED BY <1>1, <1>3, <1>4, <1>5, <1>6, <1>7 DEF Stays

LEMMA StaysOutside ==
    ASSUME TypeInv,
           \/ WriterEof \/ WriterDone \/ UiTake \/ UNCHANGED vars
           \/ \E g \in Gens : FailPost(g) \/ ReaderUp(g) \/ ReaderRecv(g)
                              \/ ReaderChunk(g) \/ ReaderStop(g)
           \/ \E g \in Gens : PumpSend(g) /\ ~cmdOpen
    PROVE  Stays
<1>1. reader \in [Gens -> Readers] /\ \A g \in Gens : reader[g] \in Readers
  BY ConnTyped
<1>2. /\ UNCHANGED <<w, cmd, cmdOpen, ui, conn, s>>
      /\ pc' = pc \/ (pc \in {"eof", "done"} /\ pc' \in {"done", "stopped"})
  BY DEF WriterEof, WriterDone, UiTake, vars, actorVars, FailPost, ReaderUp,
         ReaderRecv, ReaderChunk, ReaderStop, PumpSend, PostCmd
<1>3. ReadersKept
  <2>1. CASE UNCHANGED reader
    BY <2>1 DEF ReadersKept, Ponged
  <2>2. CASE ~UNCHANGED reader
    <3>1. PICK g \in Gens :
              ReaderUp(g) \/ ReaderRecv(g) \/ ReaderChunk(g) \/ ReaderStop(g)
      BY <2>2 DEF WriterEof, WriterDone, UiTake, vars, actorVars, FailPost, PumpSend
    <3>2. /\ \A h \in Gens : h # g => reader'[h] = reader[h]
          /\ reader'[g].pc # "none" /\ reader[g].pc # "none" /\ reader[g].pc # "pong"
          /\ reader'[g].req = reader[g].req
          /\ \/ reader'[g].pc # "pong" /\ reader'[g].pings = reader[g].pings
             \/ reader'[g].pc = "pong" /\ reader'[g].pings = reader[g].pings + 1
      BY <1>1, <3>1
         DEF ReaderUp, ReaderRecv, ReaderChunk, ReaderStop, ReaderGo, ReaderAt, Readers
    <3>3. Ponged(g)' = Ponged(g)
      <4>1. reader[g].pings \in Nat
        BY <1>1 DEF Readers
      <4> QED BY <3>2, <4>1 DEF Ponged
    <3>4. \A h \in Gens : h # g => Ponged(h)' = Ponged(h)
      BY <3>2 DEF Ponged
    <3> QED BY <3>2, <3>3, <3>4 DEF ReadersKept
  <2> QED BY <2>1, <2>2
<1> QED BY <1>2, <1>3 DEF Stays, WiresKept

LEMMA LeavesEnds ==
    ASSUME TypeInv, DialInv, WantInv, ShapeInv,
           \/ DialFailed \/ SetupCancel \/ UpgradeFailed \/ RegisterFailed
           \/ DeferredEnded
    PROVE  Leaves
<1>1. /\ s \in Setups /\ s.gen \in Gens /\ conn \in [Gens -> Conns]
      /\ \A g \in Gens : conn[g] \in Conns /\ w \in Writers
      /\ pc \in Setting \cup {"deferred"} /\ pc' \in {"loop", "eof"}
  BY StateTyped, ConnTyped
     DEF DialFailed, SetupCancel, UpgradeFailed, RegisterFailed, DeferredEnded,
         LeaveIdle, Setting
<1>2. ~w.sock /\ w.pending = <<>>
  BY <1>1 DEF ShapeInv, Sockets, Setting, TypeInv, WriterRests
<1>3. UNCHANGED <<cmd, cmdOpen, ui, reader>>
  BY DEF DialFailed, SetupCancel, UpgradeFailed, RegisterFailed, DeferredEnded, LeaveIdle
<1>4. WiresKept
  <2>1. CASE UNCHANGED conn
    BY <2>1 DEF WiresKept
  <2>2. CASE SetupCancel \/ UpgradeFailed
    <3>1. conn' = [conn EXCEPT ![s.gen].st = "abandoned"]
      BY <2>2 DEF SetupCancel, UpgradeFailed, CloseConn
    <3> QED BY <1>1, <3>1 DEF WiresKept, Conns
  <2>3. CASE RegisterFailed
    <3> DEFINE x == IF scope.on THEN "sasl" ELSE "plain"
    <3>1. conn' = [conn EXCEPT ![s.gen].st = "abandoned", ![s.gen].reg = x] /\ x # "none"
      BY <2>3 DEF RegisterFailed
    <3> HIDE DEF x
    <3>2. /\ \A g \in Gens : g # s.gen => conn'[g] = conn[g]
          /\ conn'[s.gen].st = "abandoned" /\ conn'[s.gen].wire = conn[s.gen].wire
          /\ conn'[s.gen].reg # "none"
      BY <1>1, <3>1 DEF Conns
    <3> QED BY <3>2 DEF WiresKept
  <2> QED BY <2>1, <2>2, <2>3 DEF DialFailed, DeferredEnded
<1>5. /\ ~w'.sock /\ w'.pending = <<>> /\ w'.ntxn = w.ntxn
      /\ w'.ptxn \in {<<>>, w.ptxn} /\ s'.kept = <<>>
  <2>1. CASE DeferredEnded
    <3>1. w' = [w EXCEPT !.gen = s.gen] /\ s' = s /\ s.kept = <<>>
      BY <2>1 DEF DeferredEnded, ShapeInv, Sockets
    <3> QED BY <1>1, <1>2, <3>1 DEF Writers
  <2>2. CASE ~DeferredEnded
    <3>1. w' = Socketless(s.gen, w.ntxn, w.budget) /\ s' = NoSetup
      BY <2>2 DEF DialFailed, SetupCancel, UpgradeFailed, RegisterFailed, LeaveIdle
    <3> QED BY <3>1 DEF Socketless, Adopted, NoSetup, Setup
  <2> QED BY <2>1, <2>2
<1> QED BY <1>1, <1>3, <1>4, <1>5 DEF Leaves

-----------------------------------------------------------------------------
(* What a batch does to the lines and to their request IDs *)

Lines(wire) == [i \in 1 .. Len(wire) |-> wire[i].line]

Stamped(line, txn) ==
    IF line.from = "pong" THEN txn = ReplyTxn(line.gen, line.id)
                          ELSE txn \in 1 .. PongTxn - 1

AllStamped(wire) == \A i \in DOMAIN wire : Stamped(wire[i].line, wire[i].txn)

\* The two lists of the queue.
Aligned(lines, txns) ==
    /\ Len(txns) = Len(lines)
    /\ \A i \in 1 .. Len(lines) : Stamped(lines[i], txns[i])

LEMMA Regroup ==
    ASSUME NEW S, NEW a \in Seq(S), NEW b \in Seq(S), NEW c \in Seq(S)
    PROVE  (a \o b) \o c = a \o (b \o c)
OBVIOUS

LEMMA LinesTyped ==
    ASSUME NEW wire \in Seq(Sent)
    PROVE  /\ Lines(wire) \in Seq(Line) /\ Len(Lines(wire)) = Len(wire)
           /\ \A i \in 1 .. Len(wire) : Lines(wire)[i] = wire[i].line
<1>1. \A i \in 1 .. Len(wire) : wire[i].line \in Line
  <2>1. \A i \in 1 .. Len(wire) : wire[i] \in Sent
    BY ElementOfSeq
  <2> QED BY <2>1 DEF Sent
<1> QED BY <1>1, IsASeq DEF Lines

LEMMA LinesConcat ==
    ASSUME NEW a \in Seq(Sent), NEW b \in Seq(Sent)
    PROVE  Lines(a \o b) = Lines(a) \o Lines(b)
<1> DEFINE c == a \o b
           x == Lines(a)
           y == Lines(b)
<1>1. /\ c \in Seq(Sent) /\ Len(c) = Len(a) + Len(b)
      /\ \A i \in 1 .. Len(a) + Len(b) : c[i] = IF i <= Len(a) THEN a[i] ELSE b[i - Len(a)]
      /\ Len(a) \in Nat /\ Len(b) \in Nat
  BY ConcatProperties
<1>2. /\ x \in Seq(Line) /\ Len(x) = Len(a) /\ \A i \in 1 .. Len(a) : x[i] = a[i].line
      /\ y \in Seq(Line) /\ Len(y) = Len(b) /\ \A i \in 1 .. Len(b) : y[i] = b[i].line
  BY LinesTyped
<1>3. /\ Lines(c) \in Seq(Line) /\ Len(Lines(c)) = Len(a) + Len(b)
      /\ \A i \in 1 .. Len(a) + Len(b) : Lines(c)[i] = c[i].line
  BY <1>1, LinesTyped
<1> HIDE DEF c, x, y
<1>4. /\ x \o y \in Seq(Line) /\ Len(x \o y) = Len(a) + Len(b)
      /\ \A i \in 1 .. Len(a) + Len(b) :
           (x \o y)[i] = IF i <= Len(a) THEN x[i] ELSE y[i - Len(a)]
  <2>1. /\ x \o y \in Seq(Line) /\ Len(x \o y) = Len(x) + Len(y)
        /\ \A i \in 1 .. Len(x) + Len(y) :
             (x \o y)[i] = IF i <= Len(x) THEN x[i] ELSE y[i - Len(x)]
    <3>1. x \in Seq(Line) /\ y \in Seq(Line)
      BY <1>2
    <3> QED BY ONLY <3>1, ConcatProperties
  <2> QED BY <1>2, <2>1
<1>5. ASSUME NEW i \in 1 .. Len(a) + Len(b)
      PROVE  (x \o y)[i] = Lines(c)[i]
  <2>1. CASE i <= Len(a)
    <3>1. i \in 1 .. Len(a)
      BY <1>1, <2>1
    <3> QED BY <1>1, <1>2, <1>3, <1>4, <2>1, <3>1
  <2>2. CASE ~(i <= Len(a))
    <3>1. i - Len(a) \in 1 .. Len(b)
      BY <1>1, <2>2
    <3> QED BY <1>1, <1>2, <1>3, <1>4, <2>2, <3>1
  <2> QED BY <2>1, <2>2
<1>6. x \o y = Lines(c)
  BY <1>3, <1>4, <1>5, SeqEqual
<1> QED BY <1>6 DEF c, x, y

\* What follows the first n elements.
LEMMA Prefixed ==
    ASSUME NEW S, NEW xs \in Seq(S), NEW n \in 0 .. Len(xs)
    PROVE  \E rest \in Seq(S) : xs = SubSeq(xs, 1, n) \o rest
<1>1. SplitNow(xs, n) \o SplitLater(xs, n) = xs /\ SplitLater(xs, n) \in Seq(S)
  BY SplitKeepsAll
<1>2. SplitNow(xs, n) = SubSeq(xs, 1, n)
  BY DEF SplitNow, Least
<1> QED BY <1>1, <1>2

\* A send takes a first part of the batch, all of it when it succeeds, each
\* line under the request ID that stands beside it.
LEMMA SendBatchMoves ==
    ASSUME NEW lines \in Seq(Line), NEW txns \in Seq(U32),
           NEW b \in SendBatch(lines, txns)
    PROVE  /\ \E rest \in Seq(Line) :
                lines = Lines(b.wire) \o rest /\ (b.ok => rest = <<>>)
           /\ Aligned(lines, txns) => AllStamped(b.wire)
<1> DEFINE all == Stamp(lines, txns)
<1>1. /\ all \in Seq(Sent) /\ Len(all) = Len(lines) /\ Len(lines) \in Nat
      /\ \A i \in 1 .. Len(lines) :
           /\ all[i].line = lines[i]
           /\ Len(txns) = Len(lines) => all[i].txn = txns[i]
  BY StampTyped DEF Stamp
<1> HIDE DEF all
<1>2. CASE b.wire = all /\ b.ok
  <2>1. /\ Lines(all) \in Seq(Line) /\ Len(Lines(all)) = Len(lines)
        /\ \A i \in 1 .. Len(lines) : Lines(all)[i] = lines[i]
    BY <1>1, LinesTyped
  <2>2. Lines(all) = lines
    BY <2>1, SeqEqual
  <2>3. lines \o <<>> = lines /\ <<>> \in Seq(Line)
    OBVIOUS
  <2>4. DOMAIN all = 1 .. Len(lines)
    BY <1>1
  <2> QED BY <1>1, <1>2, <2>2, <2>3, <2>4 DEF Aligned, AllStamped
<1>3. ASSUME NEW n \in 1 .. Len(lines), b.wire = SubSeq(all, 1, n), ~b.ok
      PROVE  /\ \E rest \in Seq(Line) : lines = Lines(b.wire) \o rest
             /\ Aligned(lines, txns) => AllStamped(b.wire)
  <2>1. /\ n \in Nat /\ n <= Len(lines)
        /\ SubSeq(all, 1, n) \in Seq(Sent) /\ Len(SubSeq(all, 1, n)) = n
        /\ \A i \in 1 .. n : SubSeq(all, 1, n)[i] = all[i]
    BY <1>1
  <2>2. /\ SubSeq(lines, 1, n) \in Seq(Line) /\ Len(SubSeq(lines, 1, n)) = n
        /\ \A i \in 1 .. n : SubSeq(lines, 1, n)[i] = lines[i]
    BY <1>1
  <2>3. /\ Lines(b.wire) \in Seq(Line) /\ Len(Lines(b.wire)) = n
        /\ \A i \in 1 .. n : Lines(b.wire)[i] = lines[i]
    <3>1. \A i \in 1 .. n : i \in 1 .. Len(lines)
      BY <1>1, <2>1
    <3>2. /\ Lines(b.wire) \in Seq(Line) /\ Len(Lines(b.wire)) = n
          /\ \A i \in 1 .. n : Lines(b.wire)[i] = b.wire[i].line
      BY <1>3, <2>1, LinesTyped
    <3>3. \A i \in 1 .. n : b.wire[i] = all[i]
      BY <1>3, <2>1
    <3> QED BY <1>1, <3>1, <3>2, <3>3
  <2>4. Lines(b.wire) = SubSeq(lines, 1, n)
    BY <2>2, <2>3, SeqEqual
  <2>5. \E rest \in Seq(Line) : lines = SubSeq(lines, 1, n) \o rest
    <3>1. n \in 0 .. Len(lines)
      BY <1>1, <2>1
    <3> QED BY <3>1, Prefixed
  <2>6. DOMAIN b.wire = 1 .. n /\ \A i \in 1 .. n : b.wire[i] = all[i]
    BY <1>3, <2>1
  <2>7. Aligned(lines, txns) => AllStamped(b.wire)
    BY <1>1, <2>1, <2>6 DEF Aligned, AllStamped
  <2> QED BY <2>4, <2>5, <2>7
<1>4. \/ b.wire = all /\ b.ok
      \/ ~b.ok /\ \E n \in 1 .. Len(lines) : b.wire = SubSeq(all, 1, n)
  BY DEF SendBatch, all
<1> QED BY <1>2, <1>3, <1>4

LEMMA AlignedSplit ==
    ASSUME NEW xs \in Seq(Line), NEW ts \in Seq(U32), Aligned(xs, ts), NEW n \in Nat
    PROVE  /\ Aligned(SplitNow(xs, n), SplitNow(ts, Len(SplitNow(xs, n))))
           /\ Aligned(SplitLater(xs, n), SplitLater(ts, Len(SplitNow(xs, n))))
<1> DEFINE k == Least(n, Len(xs))
<1>1. Len(xs) \in Nat /\ Len(ts) = Len(xs) /\ k \in Nat /\ k <= Len(xs)
      /\ Least(k, Len(xs)) = k
  BY DEF Least, Aligned
<1>2. Len(SplitNow(xs, n)) = k
  BY SplitKeepsAll
<1> HIDE DEF k
<1>3. /\ SplitNow(xs, n) = SubSeq(xs, 1, k) /\ SplitNow(ts, k) = SubSeq(ts, 1, k)
      /\ SplitLater(xs, n) = SubSeq(xs, k + 1, Len(xs))
      /\ SplitLater(ts, k) = SubSeq(ts, k + 1, Len(xs))
  BY <1>1 DEF SplitNow, SplitLater, k
<1>4. /\ Len(SubSeq(xs, 1, k)) = k /\ Len(SubSeq(ts, 1, k)) = k
      /\ \A i \in 1 .. k : SubSeq(xs, 1, k)[i] = xs[i] /\ SubSeq(ts, 1, k)[i] = ts[i]
  BY <1>1
<1>5. /\ Len(SubSeq(xs, k + 1, Len(xs))) = Len(xs) - k
      /\ Len(SubSeq(ts, k + 1, Len(xs))) = Len(xs) - k
      /\ \A i \in 1 .. Len(xs) - k :
           /\ SubSeq(xs, k + 1, Len(xs))[i] = xs[k + i]
           /\ SubSeq(ts, k + 1, Len(xs))[i] = ts[k + i]
           /\ k + i \in 1 .. Len(xs)
  BY <1>1
<1>6. Aligned(SubSeq(xs, 1, k), SubSeq(ts, 1, k))
  BY <1>1, <1>4 DEF Aligned
<1>7. Aligned(SubSeq(xs, k + 1, Len(xs)), SubSeq(ts, k + 1, Len(xs)))
  BY <1>1, <1>5 DEF Aligned
<1> QED BY <1>2, <1>3, <1>6, <1>7

LEMMA AlignedConcat ==
    ASSUME NEW xs \in Seq(Line), NEW ts \in Seq(U32), Aligned(xs, ts),
           NEW ys \in Seq(Line), NEW us \in Seq(U32), Aligned(ys, us)
    PROVE  Aligned(xs \o ys, ts \o us)
<1>1. /\ Len(xs) \in Nat /\ Len(ys) \in Nat /\ Len(ts) = Len(xs) /\ Len(us) = Len(ys)
      /\ Len(xs \o ys) = Len(xs) + Len(ys) /\ Len(ts \o us) = Len(xs) + Len(ys)
      /\ \A i \in 1 .. Len(xs) + Len(ys) :
           /\ (xs \o ys)[i] = IF i <= Len(xs) THEN xs[i] ELSE ys[i - Len(xs)]
           /\ (ts \o us)[i] = IF i <= Len(xs) THEN ts[i] ELSE us[i - Len(xs)]
  <2>1. Len(xs) \in Nat /\ Len(ys) \in Nat /\ Len(ts) = Len(xs) /\ Len(us) = Len(ys)
    BY DEF Aligned
  <2>2. /\ Len(xs \o ys) = Len(xs) + Len(ys)
        /\ \A i \in 1 .. Len(xs) + Len(ys) :
             (xs \o ys)[i] = IF i <= Len(xs) THEN xs[i] ELSE ys[i - Len(xs)]
    BY ConcatProperties
  <2>3. /\ Len(ts \o us) = Len(ts) + Len(us)
        /\ \A i \in 1 .. Len(ts) + Len(us) :
             (ts \o us)[i] = IF i <= Len(ts) THEN ts[i] ELSE us[i - Len(ts)]
    BY ConcatProperties
  <2> QED BY <2>1, <2>2, <2>3
<1>2. ASSUME NEW i \in 1 .. Len(xs) + Len(ys)
      PROVE  Stamped((xs \o ys)[i], (ts \o us)[i])
  <2>1. CASE i <= Len(xs)
    BY <1>1, <1>2, <2>1 DEF Aligned
  <2>2. CASE i > Len(xs)
    <3>1. i - Len(xs) \in 1 .. Len(ys)
      BY <1>1, <1>2, <2>2
    <3>2. /\ (xs \o ys)[i] = ys[i - Len(xs)]
          /\ (ts \o us)[i] = us[i - Len(xs)]
      BY <1>1, <1>2, <2>2
    <3>3. Stamped(ys[i - Len(xs)], us[i - Len(xs)])
      BY <3>1 DEF Aligned
    <3> QED BY <3>2, <3>3
  <2> QED BY <1>1, <2>1, <2>2
<1> QED BY <1>1, <1>2 DEF Aligned

\* What a queue command does: the lines it takes from the front of the queue
\* reach the wire, what is left stays queued or, when the send failed, is
\* gone with the socket.
Moved(v, outs, r) ==
    /\ ~v.sock => r.wire = <<>> /\ r.ok /\ ~r.w.sock
    /\ v.sock =>
         /\ r.ok <=> r.w.sock
         /\ \E rest \in Seq(Line) :
              v.pending \o outs = Lines(r.wire) \o rest /\ (r.ok => r.w.pending = rest)

\* The same of the request IDs.
Traced(v, r) ==
    /\ r.w.ntxn \in {v.ntxn, NextBatchTxn(v.ntxn)}
    /\ AllStamped(r.wire) /\ Aligned(r.w.pending, r.w.ptxn)

LEMMA AlignedEmpty == Aligned(<<>>, <<>>) /\ AllStamped(<<>>)
<1>1. Len(<<>>) = 0 /\ DOMAIN <<>> = {}
  OBVIOUS
<1> QED BY <1>1 DEF Aligned, AllStamped

LEMMA EmptiedFields ==
    ASSUME NEW v \in Writers
    PROVE  /\ ~Emptied(v).sock /\ Emptied(v).pending = <<>> /\ Emptied(v).ptxn = <<>>
           /\ Emptied(v).ntxn = v.ntxn /\ Emptied(v).gen = v.gen
BY DEF Emptied, Socketless, Adopted

LEMMA WriterQueueMoves ==
    ASSUME NEW v \in Writers, NEW outs \in Seq(Line), NEW txn \in U32,
           NEW r \in WriterQueue(v, outs, txn)
    PROVE  /\ Moved(v, outs, r)
           /\ /\ Aligned(v.pending, v.ptxn)
              /\ Aligned(outs, RepeatTxn(txn, Len(outs)))
              => Traced(v, r)
<1>1. CASE ~v.sock
  <2>1. r = [w |-> Emptied(v), wire |-> <<>>, ok |-> TRUE, pump |-> FALSE]
    BY <1>1 DEF WriterQueue
  <2> QED BY <1>1, <2>1, EmptiedFields, AlignedEmpty DEF Moved, Traced
<1>2. CASE v.sock
  <2> DEFINE all    == v.pending \o outs
             allTxn == v.ptxn \o RepeatTxn(txn, Len(outs))
             plan   == Batch(all, v.budget)
             sent   == Len(plan.now)
             ntxn   == IF outs = <<>> THEN v.ntxn ELSE NextBatchTxn(v.ntxn)
             need   == ~v.sched /\ plan.later # <<>> /\ BudgetOpen(plan.budget)
             queued == [v EXCEPT !.pending = plan.later,
                                 !.ptxn    = SplitLater(allTxn, sent),
                                 !.ntxn    = ntxn,
                                 !.budget  = plan.budget,
                                 !.sched   = @ \/ need]
  <2>1. all \in Seq(Line) /\ v.budget \in Budget /\ v.ptxn \in Seq(U32) /\ v.pending \in Seq(Line)
    BY WriterFields
  <2>2. RepeatTxn(txn, Len(outs)) \in Seq(U32)
    BY RepeatTyped
  <2>3. allTxn \in Seq(U32)
    BY <2>1, <2>2
  <2>4. plan.now \in Seq(Line) /\ plan.later \in Seq(Line) /\ plan.now \o plan.later = all
    <3> HIDE DEF all
    <3> QED BY <2>1, BatchSplits
  <2>5. \E n \in Nat : plan.now = SplitNow(all, n) /\ plan.later = SplitLater(all, n)
    <3>1. BudgetCap(BudgetReady(v.budget)) \in Nat
      BY <2>1, ReadyCap, OutboundAssumption
    <3> QED BY <3>1 DEF Batch
  <2>6. PICK b \in SendBatch(plan.now, SplitNow(allTxn, sent)) :
            r = [w    |-> IF b.ok THEN queued ELSE Emptied(queued),
                 wire |-> b.wire,
                 ok   |-> b.ok,
                 pump |-> b.ok /\ need]
    BY <1>2 DEF WriterQueue
  <2>7. /\ queued.sock /\ queued.pending = plan.later
        /\ queued.ptxn = SplitLater(allTxn, sent) /\ queued.ntxn = ntxn
        /\ queued \in [sock : BOOLEAN, gen : Gens, pending : {plan.later},
                       ptxn : {queued.ptxn}, ntxn : {ntxn}, budget : {plan.budget},
                       sched : {v.sched \/ need}]
    <3> HIDE DEF plan, ntxn, need, allTxn, sent
    <3> QED BY <1>2 DEF Writers
  <2>8. /\ ~Emptied(queued).sock /\ Emptied(queued).pending = <<>>
        /\ Emptied(queued).ptxn = <<>> /\ Emptied(queued).ntxn = ntxn
    BY <2>7 DEF Emptied, Socketless, Adopted
  <2>9. ntxn \in {v.ntxn, NextBatchTxn(v.ntxn)}
    OBVIOUS
  <2>10. sent \in Nat
    <3> HIDE DEF plan
    <3> QED BY <2>4
  <2>11. SplitNow(allTxn, sent) \in Seq(U32)
    <3> HIDE DEF allTxn, sent
    <3> QED BY <2>3, <2>10, SplitKeepsAll
  <2> HIDE DEF queued, need, plan, ntxn, all, allTxn, sent
  <2>12. /\ \E rest \in Seq(Line) : plan.now = Lines(b.wire) \o rest /\ (b.ok => rest = <<>>)
         /\ Aligned(plan.now, SplitNow(allTxn, sent)) => AllStamped(b.wire)
    BY <2>4, <2>6, <2>11, SendBatchMoves
  <2>13. r.w = (IF b.ok THEN queued ELSE Emptied(queued)) /\ r.wire = b.wire /\ r.ok = b.ok
    BY <2>6
  <2>14. b.wire \in Seq(Sent) /\ b.ok \in BOOLEAN
    BY <2>4, <2>6, <2>11, SendBatchTyped
  <2>15. Moved(v, outs, r)
    <3>1. PICK rest \in Seq(Line) : plan.now = Lines(b.wire) \o rest /\ (b.ok => rest = <<>>)
      BY <2>12
    <3>2. Lines(b.wire) \in Seq(Line)
      BY <2>14, LinesTyped
    <3>3. all = Lines(b.wire) \o (rest \o plan.later) /\ rest \o plan.later \in Seq(Line)
      <4>1. rest \in Seq(Line) /\ plan.later \in Seq(Line) /\ rest \o plan.later \in Seq(Line)
        BY <2>4, <3>1
      <4> DEFINE x == Lines(b.wire)
                 z == plan.later
      <4>2. x \in Seq(Line) /\ z \in Seq(Line)
        BY <3>2, <4>1
      <4> HIDE DEF x, z
      <4>3. (x \o rest) \o z = x \o (rest \o z)
        BY ONLY <4>1, <4>2, Regroup
      <4> QED BY <2>4, <3>1, <4>1, <4>3 DEF x, z
    <3>4. b.ok => rest \o plan.later = plan.later
      BY <2>4, <3>1
    <3>5. b.ok <=> r.w.sock
      BY <2>7, <2>8, <2>13
    <3>6. b.ok => r.w.pending = plan.later
      BY <2>7, <2>13
    <3>7. v.pending \o outs = all
      BY DEF all
    <3> QED BY <1>2, <2>13, <3>3, <3>4, <3>5, <3>6, <3>7 DEF Moved
  <2>16. ASSUME Aligned(v.pending, v.ptxn), Aligned(outs, RepeatTxn(txn, Len(outs)))
         PROVE  Traced(v, r)
    <3>1. Aligned(all, allTxn)
      BY <2>1, <2>2, <2>16, AlignedConcat DEF all, allTxn
    <3>2. /\ Aligned(plan.now, SplitNow(allTxn, sent))
          /\ Aligned(plan.later, SplitLater(allTxn, sent))
      <4>1. PICK n \in Nat : plan.now = SplitNow(all, n) /\ plan.later = SplitLater(all, n)
        BY <2>5
      <4> QED BY <2>1, <2>3, <3>1, <4>1, AlignedSplit DEF sent
    <3>3. r.w.ntxn = ntxn
      BY <2>7, <2>8, <2>13, <2>14
    <3>4. Aligned(r.w.pending, r.w.ptxn)
      BY <2>7, <2>8, <2>13, <2>14, <3>2, AlignedEmpty
    <3> QED BY <2>9, <2>12, <2>13, <3>2, <3>3, <3>4 DEF Traced
  <2> QED BY <2>15, <2>16
<1> QED BY <1>1, <1>2

\* The lines a queue command adds to the FIFO: a stale reply adds none.
Outs(c) == IF c.k = "Cont" \/ (c.k = "Pong" /\ c.gen = w.gen) THEN c.lines ELSE <<>>

LEMMA UnmovedMoves ==
    ASSUME NEW v \in Writers, NEW r \in Unmoved(v)
    PROVE  /\ Moved(v, <<>>, r)
           /\ Aligned(v.pending, v.ptxn) => Traced(v, r)
<1>1. r = [w |-> v, wire |-> <<>>, ok |-> TRUE, pump |-> FALSE]
  BY DEF Unmoved
<1>2. Lines(<<>>) = <<>>
  BY DEF Lines
<1>3. v.pending \in Seq(Line)
  BY WriterFields
<1>4. v.pending \o <<>> = <<>> \o v.pending
  BY <1>3
<1>5. v.pending \o <<>> = Lines(r.wire) \o v.pending
  BY <1>1, <1>2, <1>4
<1> QED BY <1>1, <1>3, <1>5, AlignedEmpty DEF Moved, Traced

\* A reply and the lines of a batch stand beside their request IDs.
LEMMA MadeAligned ==
    ASSUME NEW c \in Commands, NEW rd, Made(rd, c), NEW n \in 1 .. PongTxn - 1
    PROVE  /\ c.k = "Cont" => Aligned(c.lines, RepeatTxn(n, Len(c.lines)))
           /\ c.k = "Pong" => Aligned(c.lines, RepeatTxn(c.req, Len(c.lines)))
<1>1. c.k \in {"Cont", "Pong"} => Len(c.lines) \in Nat
  BY CommandFields
<1>2. CASE c.k = "Cont"
  <2>1. DOMAIN c.lines = 1 .. Len(c.lines)
    BY <1>2, CommandFields
  <2>2. \A i \in 1 .. Len(c.lines) : Stamped(c.lines[i], n)
    BY <1>2, <2>1 DEF Made, Stamped
  <2>3. /\ Len(RepeatTxn(n, Len(c.lines))) = Len(c.lines)
        /\ \A i \in 1 .. Len(c.lines) : RepeatTxn(n, Len(c.lines))[i] = n
    BY <1>1, <1>2 DEF RepeatTxn
  <2> QED BY <1>2, <2>2, <2>3 DEF Aligned
<1>3. CASE c.k = "Pong"
  <2>1. Len(c.lines) = 1 /\ Stamped(c.lines[1], c.req)
    BY <1>3 DEF Made, Stamped
  <2>2. Len(RepeatTxn(c.req, 1)) = 1 /\ RepeatTxn(c.req, 1)[1] = c.req
    BY DEF RepeatTxn
  <2> QED BY <1>3, <2>1, <2>2 DEF Aligned
<1> QED BY <1>2, <1>3

LEMMA OutcomeMoves ==
    ASSUME TypeInv, NEW c \in Commands, NEW r \in QueueOutcomes(c)
    PROVE  /\ Outs(c) \in Seq(Line) /\ Moved(w, Outs(c), r)
           /\ /\ Aligned(w.pending, w.ptxn) /\ w.ntxn \in 1 .. PongTxn - 1
              /\ Made(reader, c)
              => Traced(w, r)
<1>1. w \in Writers /\ w.ntxn \in U32 /\ w.gen \in Gens
  BY StateTyped, WriterFields
<1>2. 0 \in U32 /\ <<>> \in Seq(Line)
  BY OutboundAssumption DEF U32
<1>3. Aligned(<<>>, RepeatTxn(0, Len(<<>>)))
  <2>1. Len(<<>>) = 0 /\ Len(RepeatTxn(0, 0)) = 0
    BY DEF RepeatTxn
  <2> QED BY <2>1 DEF Aligned
<1>4. CASE c.k = "Cont"
  <2>1. c.lines \in Seq(Line) /\ Outs(c) = c.lines /\ r \in WriterQueue(w, c.lines, w.ntxn)
    BY <1>4, CommandFields DEF Outs, QueueOutcomes, WriterCont
  <2>2. Moved(w, c.lines, r) /\ (/\ Aligned(w.pending, w.ptxn)
                                 /\ Aligned(c.lines, RepeatTxn(w.ntxn, Len(c.lines)))
                                 => Traced(w, r))
    BY <1>1, <2>1, WriterQueueMoves
  <2> QED BY <1>4, <2>1, <2>2, MadeAligned
<1>5. CASE c.k = "Pong" /\ c.gen = w.gen
  <2>1. /\ c.lines \in Seq(Line) /\ c.req \in U32 /\ Outs(c) = c.lines
        /\ r \in WriterQueue(w, c.lines, c.req)
    BY <1>5, CommandFields DEF Outs, QueueOutcomes, WriterPong
  <2>2. Moved(w, c.lines, r) /\ (/\ Aligned(w.pending, w.ptxn)
                                 /\ Aligned(c.lines, RepeatTxn(c.req, Len(c.lines)))
                                 => Traced(w, r))
    BY <1>1, <2>1, WriterQueueMoves
  <2> QED BY <1>5, <2>1, <2>2, MadeAligned
<1>6. CASE c.k = "Pump" /\ c.gen = w.gen
  <2> DEFINE v == [w EXCEPT !.sched = FALSE]
  <2>1. /\ v \in Writers /\ v.pending = w.pending /\ v.ptxn = w.ptxn /\ v.sock = w.sock
        /\ v.ntxn = w.ntxn
    BY <1>1 DEF Writers
  <2>2. Outs(c) = <<>> /\ r \in WriterQueue(v, <<>>, 0)
    BY <1>6 DEF Outs, QueueOutcomes, WriterPump
  <2> HIDE DEF v
  <2>3. Moved(v, <<>>, r) /\ (Aligned(v.pending, v.ptxn) => Traced(v, r))
    BY <1>2, <1>3, <2>1, <2>2, WriterQueueMoves
  <2>4. Moved(w, <<>>, r) /\ (Aligned(w.pending, w.ptxn) => Traced(w, r))
    BY <2>1, <2>3 DEF Moved, Traced
  <2> QED BY <1>2, <2>2, <2>4
<1>7. CASE c.k \notin {"Cont", "Pong", "Pump"}
           \/ (c.k \in {"Pong", "Pump"} /\ c.gen # w.gen)
  <2>1. Outs(c) = <<>> /\ r \in Unmoved(w)
    BY <1>7 DEF Outs, QueueOutcomes, WriterPong, WriterPump
  <2> QED BY <1>1, <1>2, <2>1, UnmovedMoves
<1> QED BY <1>4, <1>5, <1>6, <1>7

-----------------------------------------------------------------------------
(* The shape of the state is kept *)

\* Commands are taken from cmd and from kept, or are new.
LEMMA MadeKept ==
    ASSUME AllMade, \A g \in Gens : reader[g].pc # "none" => reader'[g].pc # "none",
           \A i \in DOMAIN cmd' :
              (\E j \in DOMAIN cmd : cmd'[i] = cmd[j]) \/ Made(reader', cmd'[i]),
           \A i \in DOMAIN s'.kept :
              \/ \E j \in DOMAIN s.kept : s'.kept[i] = s.kept[j]
              \/ \E j \in DOMAIN cmd : s'.kept[i] = cmd[j]
    PROVE  AllMade'
<1>1. \A c : Made(reader, c) => Made(reader', c)
  BY DEF Made
<1>2. \A i \in DOMAIN cmd : Made(reader', cmd[i])
  BY <1>1 DEF AllMade
<1>3. \A i \in DOMAIN s.kept : Made(reader', s.kept[i])
  BY <1>1 DEF AllMade
<1>4. \A i \in DOMAIN cmd' : Made(reader', cmd'[i])
  BY <1>2
<1>5. \A i \in DOMAIN s'.kept : Made(reader', s'.kept[i])
  BY <1>2, <1>3
<1> QED BY <1>4, <1>5 DEF AllMade

LEMMA NoneKept == \A i \in DOMAIN <<>> : FALSE
OBVIOUS

\* What is left of a channel, and what a drain does to what is kept.
LEMMA TakenCmd ==
    ASSUME TypeInv, cmd # <<>>, cmd' = Tail(cmd)
    PROVE  /\ Head(cmd) \in Commands /\ \E j \in DOMAIN cmd : Head(cmd) = cmd[j]
           /\ \A i \in DOMAIN cmd' : \E j \in DOMAIN cmd : cmd'[i] = cmd[j]
<1>1. cmd \in Seq(Commands)
  BY StateTyped
<1> QED BY <1>1, TailIndex, StateTyped

LEMMA KeptTyped ==
    ASSUME TypeInv
    PROVE  s.kept \in Seq(Commands) /\ \A i \in DOMAIN s.kept : s.kept[i] \in Commands
<1>1. s.kept \in Seq(Commands)
  BY StateTyped DEF Setups
<1>2. DOMAIN s.kept = 1 .. Len(s.kept)
  BY <1>1
<1> QED BY <1>1, <1>2, ElementOfSeq

LEMMA AdmittedKept ==
    ASSUME NEW st \in Setups, NEW c \in Commands
    PROVE  \A i \in DOMAIN Admit(st, c).kept :
              (\E j \in DOMAIN st.kept : Admit(st, c).kept[i] = st.kept[j])
                \/ Admit(st, c).kept[i] = c
<1>1. st.kept \in Seq(Commands)
  BY DEF Setups
<1>2. Admit(st, c).kept \in {st.kept, <<>>, Append(st.kept, c)}
  <2>1. /\ c.k = "Dial" => Admit(st, c).kept = <<>>
        /\ c.k \in {"Cont", "Pong", "Drop", "Hangup"} =>
             Admit(st, c).kept = Append(st.kept, c)
        /\ c.k \in {"Pump", "Begin"} => Admit(st, c) = st
    BY DEF Admit, Setups
  <2> QED BY <2>1, CommandFields
<1>3. \A i \in DOMAIN Append(st.kept, c) :
        (\E j \in DOMAIN st.kept : Append(st.kept, c)[i] = st.kept[j])
          \/ Append(st.kept, c)[i] = c
  BY <1>1, AppendIndex
<1> QED BY <1>2, <1>3, NoneKept

\* The parts that only conn and reader speak of.
LEMMA UntouchedKept ==
    ASSUME Untouched, WiresKept, UNCHANGED reader
    PROVE  Untouched'
BY DEF Untouched, WiresKept

LEMMA MintedKept ==
    ASSUME Minted, UNCHANGED reader
    PROVE  Minted'
BY DEF Minted, Ponged

\* No Begin is sent.
LEMMA BeginKept ==
    ASSUME TypeInv, BeginOnce, ui'.begun = ui.begun, cmdOpen' => cmdOpen,
           cmd' = cmd \/ (cmd # <<>> /\ cmd' = Tail(cmd)),
           pc = "deferred" => pc' = "deferred" \/ ui.begun \/ ~cmdOpen
    PROVE  BeginOnce'
<1>1. CASE cmd' = cmd
  BY <1>1 DEF BeginOnce
<1>2. CASE cmd # <<>> /\ cmd' = Tail(cmd)
  <2>1. cmd \in Seq(Commands)
    BY StateTyped
  <2>2. \A i \in DOMAIN cmd' : i + 1 \in DOMAIN cmd /\ cmd'[i] = cmd[i + 1] /\ i \in Nat
    BY <1>2, <2>1, TailIndex
  <2>3. ~ui'.begun => \A i \in DOMAIN cmd' : cmd'[i].k # "Begin"
    BY <2>2 DEF BeginOnce
  <2>4. ASSUME NEW i \in DOMAIN cmd', NEW j \in DOMAIN cmd',
               cmd'[i].k = "Begin", cmd'[j].k = "Begin"
        PROVE  i = j
    <3>1. i + 1 = j + 1
      BY <2>2, <2>4 DEF BeginOnce
    <3> QED BY <2>2, <3>1
  <2> QED BY <2>3, <2>4 DEF BeginOnce
<1> QED BY <1>1, <1>2

LEMMA ShapeStays ==
    ASSUME TypeInv, ShapeInv, Stays
    PROVE  ShapeInv'
<1>1. Sockets'
  <2>1. s.gen \in Gens /\ w.gen \in Gens
    BY StateTyped
  <2>2. pc \in {"eof", "done"} \/ pc \in Setting => ~w.sock
    BY DEF ShapeInv, Sockets, Setting
  <2> QED BY <2>1, <2>2 DEF ShapeInv, Sockets, Stays, WiresKept, ReadersKept, Setting
<1>2. Untouched'
  BY DEF ShapeInv, Untouched, Stays, WiresKept, ReadersKept
<1>3. AllMade'
  <2>1. \A i \in DOMAIN s'.kept : \E j \in DOMAIN s.kept : s'.kept[i] = s.kept[j]
    BY DEF Stays
  <2> QED BY <2>1, MadeKept DEF ShapeInv, Stays, ReadersKept
<1>4. Minted'
  BY DEF ShapeInv, Minted, Stays, ReadersKept
<1>5. BeginOnce'
  BY BeginKept DEF ShapeInv, Stays, Setting
<1> QED BY <1>1, <1>2, <1>3, <1>4, <1>5 DEF ShapeInv

LEMMA ShapeLeaves ==
    ASSUME TypeInv, ShapeInv, Leaves, pc = "deferred" => ~cmdOpen
    PROVE  ShapeInv'
<1>1. Sockets'
  BY DEF Sockets, Leaves, Setting
<1>2. Untouched'
  BY UntouchedKept DEF ShapeInv, Leaves
<1>3. AllMade'
  BY MadeKept, NoneKept DEF ShapeInv, Leaves
<1>4. Minted'
  BY MintedKept DEF ShapeInv, Leaves
<1>5. BeginOnce'
  BY BeginKept DEF ShapeInv, Leaves
<1> QED BY <1>1, <1>2, <1>3, <1>4, <1>5 DEF ShapeInv

LEMMA ShapeDeferred ==
    ASSUME TypeInv, DialInv, ShapeInv, DeferredCommand
    PROVE  ShapeInv'
<1>1. /\ pc = "deferred" /\ cmd # <<>> /\ cmd' = Tail(cmd)
      /\ UNCHANGED <<cmdOpen, conn, reader, ui>> /\ ~w.sock /\ w \in Writers /\ s \in Setups
  BY StateTyped DEF DeferredCommand, ShapeInv, Sockets
<1>2. Head(cmd).k = "Dial" => Head(cmd).gen > s.gen /\ Head(cmd).gen \in Nat /\ s.gen \in Nat
  <2>1. cmd \in Seq(Commands)
    BY StateTyped
  <2>2. Head(cmd).k = "Dial" => s.gen < Head(cmd).gen
    BY <1>1, <2>1, QueuedTail, StateTyped DEF DialInv
  <2> QED BY <1>1, <2>2, TakenCmd, CommandFields, StateTyped, GensTyped
<1>3. /\ pc' \in {"deferred", "loop", "dial"} /\ ~w'.sock
      /\ pc' = "deferred" => s'.gen # 0 /\ s'.kept = <<>>
      /\ pc' = "dial" => s'.gen # 0
      /\ s'.kept = <<>>
      /\ pc' # "deferred" => Head(cmd).k = "Begin"
  <2> DEFINE c == Head(cmd)
  <2>1. \/ c.k = "Dial" /\ s' = Setup(c.gen, c.ep, FALSE, FALSE, <<>>) /\ UNCHANGED <<pc, w>>
        \/ c.k # "Dial" /\ s' = [s EXCEPT !.none = TRUE] /\ UNCHANGED <<pc, w>>
        \/ /\ c.k = "Begin" /\ pc' = (IF s.none THEN "loop" ELSE "dial")
           /\ w' = [w EXCEPT !.gen = s.gen]
           /\ s' = IF s.none THEN NoSetup ELSE [s EXCEPT !.live = (s.gen = 1)]
        \/ UNCHANGED <<pc, w, s>>
    BY DEF DeferredCommand
  <2>2. s.gen # 0 /\ s.kept = <<>>
    BY <1>1 DEF ShapeInv, Sockets
  <2>3. CASE c.k = "Dial" /\ s' = Setup(c.gen, c.ep, FALSE, FALSE, <<>>) /\ UNCHANGED <<pc, w>>
    <3>1. s'.gen = c.gen /\ s'.kept = <<>> /\ c.gen # 0
      BY <1>2, <2>3 DEF Setup
    <3> QED BY <1>1, <2>3, <3>1
  <2>4. CASE s' = [s EXCEPT !.none = TRUE] /\ UNCHANGED <<pc, w>>
    BY <1>1, <2>2, <2>4 DEF Setups
  <2>5. CASE /\ c.k = "Begin" /\ pc' = (IF s.none THEN "loop" ELSE "dial")
             /\ w' = [w EXCEPT !.gen = s.gen]
             /\ s' = IF s.none THEN NoSetup ELSE [s EXCEPT !.live = (s.gen = 1)]
    <3>1. ~w'.sock
      BY <1>1, <2>5 DEF Writers
    <3>2. s.none => pc' = "loop" /\ s'.kept = <<>>
      BY <2>5 DEF NoSetup, Setup
    <3>3. ~s.none => pc' = "dial" /\ s'.kept = <<>> /\ s'.gen # 0
      BY <1>1, <2>2, <2>5 DEF Setups
    <3> QED BY <2>5, <3>1, <3>2, <3>3
  <2>6. CASE UNCHANGED <<pc, w, s>>
    BY <1>1, <2>2, <2>6
  <2> QED BY <2>1, <2>3, <2>4, <2>5, <2>6
<1>4. Sockets'
  BY <1>3 DEF Sockets, Setting
<1>5. Untouched' /\ Minted'
  BY <1>1, MintedKept DEF ShapeInv, Untouched
<1>6. AllMade'
  BY <1>1, <1>3, TakenCmd, MadeKept, NoneKept DEF ShapeInv
<1>7. BeginOnce'
  <2>1. Head(cmd).k = "Begin" => ui.begun
    BY <1>1, TakenCmd DEF ShapeInv, BeginOnce
  <2> QED BY <1>1, <1>3, <2>1, BeginKept DEF ShapeInv
<1> QED BY <1>4, <1>5, <1>6, <1>7 DEF ShapeInv

\* One command is drained before registration.
Drained ==
    /\ pc \in {"peek", "drain"} /\ pc' \in Setting
    /\ cmd # <<>> /\ cmd' = Tail(cmd)
    /\ s'.gen = s.gen /\ s'.dials = Admit(s, Head(cmd)).dials
    /\ s'.kept = Admit(s, Head(cmd)).kept
    /\ s'.dropped = Admit(s, Head(cmd)).dropped /\ (s.closed => s'.closed)
    /\ UNCHANGED <<w, cmdOpen, conn, reader, ui>>

LEMMA DrainedSteps ==
    ASSUME TypeInv, PeekCommand \/ DrainCommand
    PROVE  Drained
<1>1. s \in Setups /\ Head(cmd) \in Commands
  BY StateTyped, TakenCmd DEF PeekCommand, DrainCommand
<1> DEFINE a == Admit(s, Head(cmd))
<1>2. a \in Setups /\ a.gen = s.gen /\ a.closed = s.closed
  <2>1. a \in Setups /\ a.gen = s.gen
    BY <1>1, AdmitTyped
  <2>2. a.closed = s.closed
    BY <1>1 DEF Admit, Setups
  <2> QED BY <2>1, <2>2
<1>3. CASE PeekCommand
  <2>1. s' = [a EXCEPT !.fuel = @ - 1]
    BY <1>3 DEF PeekCommand
  <2> HIDE DEF a
  <2>2. /\ s'.gen = s.gen /\ s'.dials = a.dials /\ s'.kept = a.kept
        /\ s'.dropped = a.dropped /\ (s.closed => s'.closed)
    BY <1>2, <2>1 DEF Setups
  <2> QED BY <1>3, <2>2 DEF PeekCommand, Drained, Setting, a
<1>4. CASE DrainCommand
  <2>1. PICK stop \in BOOLEAN :
            s' = [a EXCEPT !.fuel = @ - 1, !.closed = @ \/ (~stop /\ s.fuel = 1)]
    BY <1>4 DEF DrainCommand, Sentinel
  <2> HIDE DEF a
  <2>2. /\ s'.gen = s.gen /\ s'.dials = a.dials /\ s'.kept = a.kept
        /\ s'.dropped = a.dropped /\ (s.closed => s'.closed)
    BY <1>2, <2>1 DEF Setups
  <2> QED BY <1>4, <2>2 DEF DrainCommand, Drained, Setting, a
<1> QED BY <1>3, <1>4

LEMMA ShapeDrained ==
    ASSUME TypeInv, ShapeInv, Drained
    PROVE  ShapeInv'
<1>1. Sockets'
  BY DEF ShapeInv, Sockets, Drained, Setting
<1>2. Untouched' /\ Minted'
  BY MintedKept DEF ShapeInv, Untouched, Drained
<1>3. AllMade'
  <2>1. s \in Setups /\ Head(cmd) \in Commands /\ \E j \in DOMAIN cmd : Head(cmd) = cmd[j]
    BY StateTyped, TakenCmd DEF Drained
  <2>2. \A i \in DOMAIN s'.kept :
          (\E j \in DOMAIN s.kept : s'.kept[i] = s.kept[j]) \/ s'.kept[i] = Head(cmd)
    BY <2>1, AdmittedKept DEF Drained
  <2>3. \A i \in DOMAIN cmd' : \E j \in DOMAIN cmd : cmd'[i] = cmd[j]
    BY TakenCmd DEF Drained
  <2> QED BY <2>1, <2>2, <2>3, MadeKept DEF ShapeInv, Drained
<1>4. BeginOnce'
  BY BeginKept DEF ShapeInv, Drained
<1> QED BY <1>1, <1>2, <1>3, <1>4 DEF ShapeInv

LEMMA RegisterFacts ==
    ASSUME TypeInv, WantInv, ShapeInv, Register
    PROVE  /\ pc = "decide" /\ pc' = "replay" /\ ~Cancelled(s) /\ s.dials = <<>>
           /\ s.gen \in Gens /\ s.gen # 0 /\ ~w.sock
           /\ w'.sock /\ w'.gen = s.gen /\ w'.pending = <<>> /\ w'.ptxn = <<>>
           /\ w'.ntxn = w.ntxn
           /\ conn'[s.gen].st = "live" /\ conn'[s.gen].reg # "none"
           /\ conn'[s.gen].wire = <<>> /\ conn[s.gen].wire = <<>>
           /\ \A g \in Gens : g # s.gen => conn'[g] = conn[g]
           /\ reader[s.gen].pc = "none" /\ reader[s.gen].pings = 0 /\ Ponged(s.gen) = 0
           /\ UNCHANGED <<s, cmd, cmdOpen, reader, ui>>
<1>1. /\ s.gen \in Gens /\ s.gen \in Nat /\ conn \in [Gens -> Conns] /\ conn[s.gen] \in Conns
  BY StateTyped, ConnTyped
<1>2. pc = "decide" /\ pc \in Setting /\ ~Cancelled(s) /\ s.dials = <<>>
  BY DEF Register, Superseded, Setting
<1>3. ~w.sock /\ s.gen # 0
  BY <1>2 DEF ShapeInv, Sockets
<1>4. /\ conn[s.gen].wire = <<>> /\ reader[s.gen].pc = "none" /\ reader[s.gen].pings = 0
      /\ Ponged(s.gen) = 0
  <2>1. ~(s.gen < s.gen)
    BY <1>1
  <2>2. ~Behind(s.gen)
    BY <1>2, <2>1 DEF Behind
  <2> QED BY <1>1, <2>2, Unregistered DEF ShapeInv
<1>5. /\ conn'[s.gen].st = "live" /\ conn'[s.gen].reg # "none"
      /\ conn'[s.gen].wire = conn[s.gen].wire
      /\ \A g \in Gens : g # s.gen => conn'[g] = conn[g]
  <2> DEFINE x == IF scope.on THEN "sasl" ELSE "plain"
  <2>1. conn' = [conn EXCEPT ![s.gen].st = "live", ![s.gen].reg = x] /\ x # "none"
    BY DEF Register
  <2> HIDE DEF x
  <2> QED BY <1>1, <2>1 DEF Conns
<1>6. /\ w'.sock /\ w'.gen = s.gen /\ w'.pending = <<>> /\ w'.ptxn = <<>>
      /\ w'.ntxn = w.ntxn
  BY DEF Register, Adopted
<1> QED BY <1>1, <1>2, <1>3, <1>4, <1>5, <1>6 DEF Register

LEMMA ShapeRegister ==
    ASSUME TypeInv, WantInv, ShapeInv, Register
    PROVE  ShapeInv'
<1>1. Sockets'
  BY RegisterFacts DEF Sockets, Cancelled, Setting
<1>2. Untouched'
  BY RegisterFacts DEF ShapeInv, Untouched
<1>3. AllMade'
  BY RegisterFacts, MadeKept DEF ShapeInv
<1>4. Minted'
  BY RegisterFacts, MintedKept DEF ShapeInv
<1>5. BeginOnce'
  BY RegisterFacts, BeginKept DEF ShapeInv
<1> QED BY <1>1, <1>2, <1>3, <1>4, <1>5 DEF ShapeInv

\* A queue command of the writer, from cmd, from kept or the setup's pump.
SendStep(c, r) ==
    /\ c \in Commands /\ r \in QueueOutcomes(c) /\ Sending(r, w.gen)
    /\ pc \in {"replay", "loop"}

LEMMA SendFacts ==
    ASSUME TypeInv, NEW c, NEW r, SendStep(c, r)
    PROVE  /\ w' = r.w /\ w'.gen = w.gen /\ w.gen \in Gens /\ r.wire \in Seq(Sent)
           /\ \A g \in Gens :
                /\ conn'[g].reg = conn[g].reg
                /\ conn'[g].st = "flushed" => conn[g].st = "flushed"
                /\ g # w.gen => conn'[g] = conn[g]
           /\ conn'[w.gen].wire = conn[w.gen].wire \o r.wire
           /\ w'.sock => w.sock /\ r.ok /\ conn'[w.gen].st = conn[w.gen].st
           /\ ~w.sock => /\ ~w'.sock /\ w'.pending = <<>> /\ r.wire = <<>>
                         /\ \A g \in Gens : conn'[g].wire = conn[g].wire
<1>1. /\ w.gen \in Gens /\ conn \in [Gens -> Conns] /\ conn[w.gen] \in Conns
  BY StateTyped, ConnTyped
<1>2. QueueOutcome(w, r) /\ Moved(w, Outs(c), r)
  BY QueueOutcomesOK, OutcomeMoves DEF SendStep, TypeInv
<1>3. /\ r.w.gen = w.gen /\ r.wire \in Seq(Sent) /\ (r.w.sock => w.sock /\ r.ok)
      /\ ~w.sock => r.wire = <<>> /\ r.ok /\ ~r.w.sock /\ r.w.pending = <<>>
  BY <1>2 DEF QueueOutcome, Moved
<1>4. conn[w.gen].wire \in Seq(Sent)
  BY <1>1 DEF Conns
<1> DEFINE x == conn[w.gen].wire \o r.wire
           y == IF r.ok THEN conn[w.gen].st ELSE "failed"
<1>5. conn' = [conn EXCEPT ![w.gen].wire = x, ![w.gen].st = y] /\ w' = r.w
  <2>1. conn' = [conn EXCEPT ![w.gen].wire = @ \o r.wire,
                             ![w.gen].st = IF r.ok THEN @ ELSE "failed"]
    BY DEF SendStep, Sending
  <2>2. w' = r.w
    BY DEF SendStep, Sending
  <2> QED BY <1>1, <2>1, <2>2 DEF Conns
<1>6. ~w.sock => x = conn[w.gen].wire
  <2>1. \A q \in Seq(Sent) : q \o <<>> = q
    OBVIOUS
  <2> QED BY <1>3, <1>4, <2>1
<1>7. y = "flushed" => conn[w.gen].st = "flushed"
  OBVIOUS
<1>8. w'.sock => y = conn[w.gen].st
  BY <1>3, <1>5
<1> HIDE DEF x, y
<1>9. /\ conn'[w.gen].wire = x /\ conn'[w.gen].st = y /\ conn'[w.gen].reg = conn[w.gen].reg
      /\ \A g \in Gens : g # w.gen => conn'[g] = conn[g]
  BY <1>1, <1>5 DEF Conns
<1> QED BY <1>1, <1>3, <1>5, <1>6, <1>7, <1>8, <1>9 DEF x

\* The reader of the adopted connection starts, or no reader moves.
LEMMA StartFacts ==
    ASSUME TypeInv, ShapeInv, pc = "replay", StartReader(w.gen)
    PROVE  /\ \A g \in Gens : g # w.gen => reader'[g] = reader[g]
           /\ reader'[w.gen].pc = "up" /\ reader'[w.gen].pings = 0
           /\ reader'[w.gen].req = PongFirst(w.gen)
           /\ \A g \in Gens : Ponged(g)' = Ponged(g)
           /\ Untouched => \A g \in Gens : reader'[g].pc = "none" => reader[g].pc = "none"
           /\ Minted'
<1>1. w.gen \in Gens /\ w.gen \in Nat /\ reader \in [Gens -> Readers]
      /\ reader[w.gen] \in Readers
  BY StateTyped, ConnTyped
<1>2. reader[w.gen].pc = "none" /\ reader[w.gen].pings = 0
  <2>1. w.gen = s.gen /\ reader[s.gen].pc = "none"
    BY DEF ShapeInv, Sockets
  <2> QED BY <1>1, <2>1 DEF ShapeInv, Untouched
<1>3. /\ \A g \in Gens : g # w.gen => reader'[g] = reader[g]
      /\ reader'[w.gen].pc = "up" /\ reader'[w.gen].pings = 0
      /\ reader'[w.gen].req = PongFirst(w.gen)
  BY <1>1, <1>2 DEF StartReader, Readers
<1>4. \A g \in Gens : Ponged(g)' = Ponged(g)
  BY <1>2, <1>3 DEF Ponged
<1>5. PongFirst(w.gen) = ReplyTxn(w.gen, 0 + 1)
  BY <1>1, OutboundAssumption DEF ReplyTxn, PongFirst
<1>6. Minted'
  <2> SUFFICES ASSUME NEW g \in Gens, reader'[g].pc # "none"
               PROVE  reader'[g].req = ReplyTxn(g, Ponged(g)' + 1)
    BY DEF Minted
  <2>1. CASE g = w.gen
    <3>1. Ponged(g)' = 0
      BY <1>3, <2>1 DEF Ponged
    <3> QED BY <1>3, <1>5, <2>1, <3>1
  <2>2. CASE g # w.gen
    BY <1>3, <1>4, <2>2 DEF ShapeInv, Minted
  <2> QED BY <2>1, <2>2
<1> QED BY <1>2, <1>3, <1>4, <1>6

\* The steps of the writer that send.
Sends ==
    \E c, r :
      /\ SendStep(c, r) /\ UNCHANGED <<cmdOpen, ui>>
      /\ \/ /\ pc = "replay" /\ pc' = "replay" /\ s.kept # <<>> /\ c = Head(s.kept)
            /\ s' = [s EXCEPT !.kept = Tail(@)] /\ UNCHANGED <<cmd, reader>>
         \/ /\ pc = "replay" /\ pc' = "loop" /\ s.kept = <<>> /\ c = Pump(w.gen)
            /\ s' = NoSetup /\ StartReader(w.gen) /\ UNCHANGED cmd
         \/ /\ pc = "loop" /\ pc' = "loop" /\ cmd # <<>> /\ c = Head(cmd)
            /\ c.k \notin {"Drop", "Hangup"} /\ (c.k = "Dial" => DialSuperseded(c))
            /\ cmd' = Tail(cmd) /\ UNCHANGED <<s, reader>>

LEMMA SendsSteps ==
    ASSUME TypeInv, Replay \/ ArmRedial \/ WriterSend
    PROVE  Sends
<1>1. CASE Replay
  <2>1. s.kept \in Seq(Commands) /\ s.kept # <<>>
    BY <1>1, KeptTyped DEF Replay
  <2>2. Head(s.kept) \in Commands
    BY <2>1
  <2>3. PICK r \in QueueOutcomes(Head(s.kept)) : Sending(r, w.gen)
    BY <1>1 DEF Replay
  <2>4. SendStep(Head(s.kept), r)
    BY <1>1, <2>2, <2>3 DEF Replay, SendStep
  <2> QED BY <1>1, <2>4 DEF Replay, Sends
<1>2. CASE ArmRedial
  <2>1. Pump(w.gen) \in Commands
    BY StateTyped, ConnTyped DEF Pump, Commands
  <2>2. PICK r \in WriterPump(w, w.gen) : Sending(r, w.gen)
    BY <1>2 DEF ArmRedial
  <2>3. r \in QueueOutcomes(Pump(w.gen))
    BY <2>2 DEF QueueOutcomes, Pump
  <2>4. SendStep(Pump(w.gen), r)
    BY <1>2, <2>1, <2>2, <2>3 DEF ArmRedial, SendStep
  <2> QED BY <1>2, <2>4 DEF ArmRedial, Sends
<1>3. CASE WriterSend
  <2>1. /\ pc = "loop" /\ cmd # <<>> /\ cmd' = Tail(cmd)
        /\ Head(cmd).k \in {"Cont", "Pong", "Pump", "Begin", "Dial"}
        /\ Head(cmd).k = "Dial" => DialSuperseded(Head(cmd))
        /\ UNCHANGED <<pc, s, cmdOpen, reader, ui>>
    BY <1>3 DEF WriterSend, TakeCommand
  <2>2. PICK r \in QueueOutcomes(Head(cmd)) : Sending(r, w.gen)
    BY <1>3 DEF WriterSend
  <2>3. SendStep(Head(cmd), r)
    BY <2>1, <2>2, TakenCmd DEF SendStep
  <2> QED BY <2>1, <2>3 DEF Sends
<1> QED BY <1>1, <1>2, <1>3

LEMMA ShapeSends ==
    ASSUME TypeInv, ShapeInv, Sends
    PROVE  ShapeInv'
<1>1. PICK c, r :
        /\ SendStep(c, r) /\ UNCHANGED <<cmdOpen, ui>>
        /\ \/ /\ pc = "replay" /\ pc' = "replay" /\ s.kept # <<>> /\ c = Head(s.kept)
              /\ s' = [s EXCEPT !.kept = Tail(@)] /\ UNCHANGED <<cmd, reader>>
           \/ /\ pc = "replay" /\ pc' = "loop" /\ s.kept = <<>> /\ c = Pump(w.gen)
              /\ s' = NoSetup /\ StartReader(w.gen) /\ UNCHANGED cmd
           \/ /\ pc = "loop" /\ pc' = "loop" /\ cmd # <<>> /\ c = Head(cmd)
              /\ c.k \notin {"Drop", "Hangup"} /\ (c.k = "Dial" => DialSuperseded(c))
              /\ cmd' = Tail(cmd) /\ UNCHANGED <<s, reader>>
  BY DEF Sends
<1>2. s \in Setups /\ s.gen \in Gens /\ s.kept \in Seq(Commands)
  BY StateTyped, KeptTyped
<1>3. /\ w'.gen = w.gen /\ w.gen \in Gens
      /\ \A g \in Gens :
           /\ conn'[g].reg = conn[g].reg
           /\ conn'[g].st = "flushed" => conn[g].st = "flushed"
           /\ g # w.gen => conn'[g] = conn[g]
      /\ w'.sock => w.sock /\ conn'[w.gen].st = conn[w.gen].st
      /\ ~w.sock => \A g \in Gens : conn'[g].wire = conn[g].wire
  BY <1>1, SendFacts
<1>4. w.sock => conn[w.gen].reg # "none" /\ w.gen # 0 /\ conn[w.gen].st = "live"
  BY DEF ShapeInv, Sockets
<1>5. w'.sock => w'.gen # 0 /\ conn'[w'.gen].reg # "none" /\ conn'[w'.gen].st = "live"
  BY <1>3, <1>4
<1>6. \/ UNCHANGED reader
      \/ pc = "replay" /\ pc' = "loop" /\ StartReader(w.gen)
  BY <1>1
<1>7. \A g \in Gens :
        /\ reader'[g].pc = "none" => reader[g].pc = "none"
        /\ reader'[g].pc = "none" => reader'[g].pings = reader[g].pings
        /\ g # w.gen => reader'[g] = reader[g]
  BY <1>6, StartFacts DEF ShapeInv
<1>8. Sockets'
  <2>1. CASE pc' = "loop"
    BY <1>5, <2>1 DEF Sockets, Setting
  <2>2. CASE pc' = "replay"
    <3>1. pc = "replay" /\ UNCHANGED reader /\ s' = [s EXCEPT !.kept = Tail(@)]
      BY <1>1, <2>2
    <3>2. s'.gen = s.gen /\ s'.dials = s.dials /\ Cancelled(s') = Cancelled(s)
      BY <1>2, <3>1 DEF Setups, Cancelled
    <3> QED BY <1>2, <1>3, <1>5, <2>2, <3>1, <3>2 DEF ShapeInv, Sockets, Setting
  <2> QED BY <1>1, <2>1, <2>2
<1>9. Untouched'
  <2>1. reader'[w.gen].pc = "none" => UNCHANGED reader
    BY <1>6, StartFacts DEF ShapeInv
  <2>2. pc = "replay" => conn[w.gen].reg # "none"
    BY DEF ShapeInv, Sockets
  <2> QED BY <1>3, <1>4, <1>6, <1>7, <2>1, <2>2 DEF ShapeInv, Untouched
<1>10. AllMade'
  <2>1. \A i \in DOMAIN cmd' : \E j \in DOMAIN cmd : cmd'[i] = cmd[j]
    BY <1>1, TakenCmd
  <2>2. \A i \in DOMAIN s'.kept : \E j \in DOMAIN s.kept : s'.kept[i] = s.kept[j]
    <3>1. CASE s.kept # <<>> /\ s' = [s EXCEPT !.kept = Tail(@)]
      <4>1. s'.kept = Tail(s.kept)
        BY <1>2, <3>1 DEF Setups
      <4> QED BY <1>2, <3>1, <4>1, TailIndex
    <3>2. CASE s' = NoSetup
      BY <3>2, NoneKept DEF NoSetup, Setup
    <3>3. CASE s' = s
      BY <3>3
    <3> QED BY <1>1, <3>1, <3>2, <3>3
  <2> QED BY <1>7, <2>1, <2>2, MadeKept DEF ShapeInv
<1>11. Minted'
  BY <1>6, StartFacts, MintedKept DEF ShapeInv
<1>12. BeginOnce'
  BY <1>1, BeginKept DEF ShapeInv
<1> QED BY <1>8, <1>9, <1>10, <1>11, <1>12 DEF ShapeInv

\* The launch's setup has no pump of its own.
LEMMA ShapeArmBoot ==
    ASSUME TypeInv, ShapeInv, ArmBoot
    PROVE  ShapeInv'
<1>1. /\ pc = "replay" /\ pc' = "loop" /\ StartReader(w.gen) /\ s' = NoSetup
      /\ UNCHANGED <<w, cmd, cmdOpen, conn, ui>> /\ w.gen \in Gens
  BY StateTyped DEF ArmBoot
<1>2. Sockets'
  BY <1>1 DEF ShapeInv, Sockets, Setting
<1>3. Untouched'
  <2>1. conn[w.gen].reg # "none"
    BY <1>1 DEF ShapeInv, Sockets
  <2> QED BY <1>1, <2>1, StartFacts DEF ShapeInv, Untouched
<1>4. AllMade'
  <2>1. s'.kept = <<>>
    BY <1>1 DEF NoSetup, Setup
  <2> QED BY <1>1, <2>1, MadeKept, NoneKept, StartFacts DEF ShapeInv
<1>5. Minted'
  BY <1>1, StartFacts
<1>6. BeginOnce'
  BY <1>1, BeginKept DEF ShapeInv
<1> QED BY <1>2, <1>3, <1>4, <1>5, <1>6 DEF ShapeInv

\* The steps of the loop that give the socket up: wire and how tell what
\* becomes of it.
Closing(report, wire, how) ==
    /\ pc = "loop" /\ w' = Emptied(w) /\ UNCHANGED <<cmdOpen, reader, ui>>
    /\ wire \in Seq(Sent)
    /\ ~w.sock => UNCHANGED conn
    /\ w.sock => conn' = [conn EXCEPT ![w.gen].wire = @ \o wire,
                                      ![w.gen].extra = @ + Len(wire),
                                      ![w.gen].st = how]
    /\ \/ /\ cmd # <<>> /\ cmd' = Tail(cmd) /\ pc' = "loop" /\ s' = s
          /\ Head(cmd).k \in {"Drop", "Hangup"}
       \/ /\ cmd # <<>> /\ cmd' = Tail(cmd) /\ pc' = "dial"
          /\ s' = Setup(Head(cmd).gen, Head(cmd).ep, FALSE, TRUE, <<>>)
          /\ Head(cmd).k = "Dial" /\ ~DialSuperseded(Head(cmd)) /\ how # "dropped"
       \/ cmd = <<>> /\ ~cmdOpen /\ cmd' = cmd /\ pc' = "eof" /\ s' = s

\* What the flush took, whole if it succeeded.
Flushing(wire, how) ==
    \/ how = "dropped" /\ wire = <<>>
    \/ /\ how \in {"flushed", "failed"} /\ \E b \in Flush(w) : wire = b.wire /\ (how = "flushed" => b.ok)

Closes == \E report, wire, how : Closing(report, wire, how) /\ Flushing(wire, how)

LEMMA FlushFacts ==
    ASSUME TypeInv, NEW report \in BOOLEAN, FlushAndClose(report)
    PROVE  \E wire, how :
             /\ wire \in Seq(Sent) /\ how # "dropped" /\ Flushing(wire, how)
             /\ ~w.sock => UNCHANGED conn
             /\ w.sock => conn' = [conn EXCEPT ![w.gen].wire = @ \o wire,
                                               ![w.gen].extra = @ + Len(wire),
                                               ![w.gen].st = how]
<1>1. w \in Writers /\ w.pending \in Seq(Line) /\ w.ptxn \in Seq(U32)
  BY StateTyped, WriterFields
<1>2. CASE w.sock
  <2>1. PICK b \in Flush(w) :
            conn' = [conn EXCEPT ![w.gen].wire = @ \o b.wire,
                                 ![w.gen].extra = @ + Len(b.wire),
                                 ![w.gen].st = IF b.ok THEN "flushed" ELSE "failed"]
    BY <1>2 DEF FlushAndClose
  <2>2. b.wire \in Seq(Sent) /\ b.ok \in BOOLEAN
    BY <1>1, FlushTyped
  <2> DEFINE how == IF b.ok THEN "flushed" ELSE "failed"
  <2>3. Flushing(b.wire, how) /\ how # "dropped"
    BY DEF Flushing
  <2> HIDE DEF how
  <2>4. conn' = [conn EXCEPT ![w.gen].wire = @ \o b.wire,
                             ![w.gen].extra = @ + Len(b.wire), ![w.gen].st = how]
    BY <2>1 DEF how
  <2> QED BY <1>2, <2>2, <2>3, <2>4
<1>3. CASE ~w.sock
  <2>1. \E b \in Flush(w) : TRUE
    BY DEF Flush, SendBatch
  <2>2. PICK b \in Flush(w) : TRUE
    BY <2>1
  <2>3. b.wire \in Seq(Sent) /\ Flushing(b.wire, "failed") /\ UNCHANGED conn
    BY <1>1, <1>3, <2>2, FlushTyped DEF Flushing, FlushAndClose
  <2> QED BY <1>3, <2>3
<1> QED BY <1>2, <1>3

LEMMA ClosesSteps ==
    ASSUME TypeInv, WriterDrop \/ WriterHangup \/ WriterDial \/ WriterFinish
    PROVE  Closes
<1>1. CASE WriterDrop
  <2>1. /\ <<>> \in Seq(Sent) /\ w.gen \in Gens /\ conn \in [Gens -> Conns]
        /\ conn[w.gen].wire \in Seq(Sent) /\ conn[w.gen].extra \in Nat
    BY StateTyped, ConnTyped DEF Conns
  <2>2. /\ conn[w.gen].wire \o <<>> = conn[w.gen].wire
        /\ conn[w.gen].extra + Len(<<>>) = conn[w.gen].extra
    <3>1. \A q \in Seq(Sent) : q \o <<>> = q
      OBVIOUS
    <3>2. Len(<<>>) = 0
      OBVIOUS
    <3> QED BY <2>1, <3>1, <3>2
  <2>3. w.sock => conn' = [conn EXCEPT ![w.gen].wire = @ \o <<>>,
                                       ![w.gen].extra = @ + Len(<<>>),
                                       ![w.gen].st = "dropped"]
    <3> SUFFICES ASSUME w.sock
                 PROVE  conn' = [conn EXCEPT ![w.gen].wire = @ \o <<>>,
                                             ![w.gen].extra = @ + Len(<<>>),
                                             ![w.gen].st = "dropped"]
      OBVIOUS
    <3>1. conn' = [conn EXCEPT ![w.gen].st = "dropped"]
      BY <1>1 DEF WriterDrop
    <3>2. [conn[w.gen] EXCEPT !.st = "dropped"]
            = [conn[w.gen] EXCEPT !.wire = @ \o <<>>, !.extra = @ + Len(<<>>),
                                  !.st = "dropped"]
      BY <2>1, <2>2, ConnTyped DEF Conns
    <3> QED BY <2>1, <2>2, <3>1, <3>2
  <2>4. ~w.sock => UNCHANGED conn
    BY <1>1 DEF WriterDrop
  <2>5. Closing(FALSE, <<>>, "dropped")
    BY <1>1, <2>1, <2>3, <2>4 DEF WriterDrop, TakeCommand, Closing
  <2>6. Flushing(<<>>, "dropped")
    BY DEF Flushing
  <2> QED BY <2>5, <2>6 DEF Closes
<1>2. CASE WriterHangup \/ WriterDial \/ WriterFinish
  <2>1. PICK report \in BOOLEAN : FlushAndClose(report)
    BY <1>2 DEF WriterHangup, WriterDial, WriterFinish
  <2>2. PICK wire, how :
             /\ wire \in Seq(Sent) /\ how # "dropped" /\ Flushing(wire, how)
             /\ ~w.sock => UNCHANGED conn
             /\ w.sock => conn' = [conn EXCEPT ![w.gen].wire = @ \o wire,
                                               ![w.gen].extra = @ + Len(wire),
                                               ![w.gen].st = how]
    BY <2>1, FlushFacts
  <2>3. Closing(report, wire, how)
    BY <1>2, <2>2
       DEF WriterHangup, WriterDial, WriterFinish, TakeCommand, Closing, CmdEnded
  <2> QED BY <2>2, <2>3 DEF Closes
<1> QED BY <1>1, <1>2

LEMMA ClosingFacts ==
    ASSUME TypeInv, DialInv, NEW report, NEW wire, NEW how, Closing(report, wire, how)
    PROVE  /\ w.gen \in Gens /\ ~w'.sock /\ w'.pending = <<>> /\ w'.ptxn = <<>>
           /\ w'.ntxn = w.ntxn /\ w'.gen = w.gen
           /\ \A g \in Gens : /\ conn'[g].reg = conn[g].reg
                              /\ g # w.gen \/ ~w.sock => conn'[g] = conn[g]
           /\ w.sock => /\ conn'[w.gen].wire = conn[w.gen].wire \o wire
                        /\ conn'[w.gen].extra = conn[w.gen].extra + Len(wire)
                        /\ conn'[w.gen].st = how
           /\ pc' = "dial" => s'.gen # 0 /\ s'.kept = <<>> /\ s'.gen = Head(cmd).gen
                              /\ s'.dials = <<>> /\ ~Cancelled(s')
           /\ cmd' = cmd \/ (cmd # <<>> /\ cmd' = Tail(cmd))
<1>1. /\ w.gen \in Gens /\ conn \in [Gens -> Conns] /\ conn[w.gen] \in Conns /\ w \in Writers
  BY StateTyped, ConnTyped
<1>2. /\ ~w'.sock /\ w'.pending = <<>> /\ w'.ptxn = <<>> /\ w'.ntxn = w.ntxn
      /\ w'.gen = w.gen
  BY <1>1, EmptiedFields DEF Closing
<1>3. /\ \A g \in Gens : /\ conn'[g].reg = conn[g].reg
                         /\ g # w.gen \/ ~w.sock => conn'[g] = conn[g]
      /\ w.sock => /\ conn'[w.gen].wire = conn[w.gen].wire \o wire
                   /\ conn'[w.gen].extra = conn[w.gen].extra + Len(wire)
                   /\ conn'[w.gen].st = how
  <2>1. CASE w.sock
    <3> DEFINE x == conn[w.gen].wire \o wire
               y == conn[w.gen].extra + Len(wire)
    <3>1. conn' = [conn EXCEPT ![w.gen].wire = x, ![w.gen].extra = y, ![w.gen].st = how]
      BY <1>1, <2>1 DEF Closing
    <3> HIDE DEF x, y
    <3>2. /\ conn'[w.gen].wire = x /\ conn'[w.gen].extra = y /\ conn'[w.gen].st = how
          /\ conn'[w.gen].reg = conn[w.gen].reg
          /\ \A g \in Gens : g # w.gen => conn'[g] = conn[g]
      BY <1>1, <3>1 DEF Conns
    <3> QED BY <2>1, <3>2 DEF x, y
  <2>2. CASE ~w.sock
    BY <2>2 DEF Closing
  <2> QED BY <2>1, <2>2
<1>5. pc' = "dial" => s'.gen # 0 /\ s'.kept = <<>> /\ s'.gen = Head(cmd).gen
                      /\ s'.dials = <<>> /\ ~Cancelled(s')
  <2> SUFFICES ASSUME pc' = "dial"
               PROVE  s'.gen # 0 /\ s'.kept = <<>> /\ s'.gen = Head(cmd).gen
                      /\ s'.dials = <<>> /\ ~Cancelled(s')
    OBVIOUS
  <2>1. /\ cmd # <<>> /\ cmd' = Tail(cmd) /\ Head(cmd).k = "Dial"
        /\ s' = Setup(Head(cmd).gen, Head(cmd).ep, FALSE, TRUE, <<>>)
    BY DEF Closing
  <2>2. cmd \in Seq(Commands) /\ w.gen \in Nat
    BY StateTyped
  <2>3. w.gen < Head(cmd).gen
    BY <2>1, <2>2, QueuedTail DEF DialInv
  <2>4. Head(cmd).gen \in Nat /\ Head(cmd).gen # 0
    <3>1. Head(cmd).gen \in Nat
      BY <2>1, TakenCmd, CommandFields, GensTyped
    <3> QED BY <2>2, <2>3, <3>1
  <2> QED BY <2>1, <2>4 DEF Setup, Cancelled
<1> QED BY <1>1, <1>2, <1>3, <1>5 DEF Closing

LEMMA ShapeCloses ==
    ASSUME TypeInv, DialInv, ShapeInv, Closes
    PROVE  ShapeInv'
<1>1. PICK report, wire, how : Closing(report, wire, how)
  BY DEF Closes
<1>2. pc = "loop" /\ pc' \in {"loop", "dial", "eof"} /\ UNCHANGED <<cmdOpen, reader, ui>>
      /\ (pc' # "dial" => s' = s)
  BY <1>1 DEF Closing
<1>3. Sockets'
  BY <1>1, <1>2, ClosingFacts DEF Sockets, Setting
<1>4. Untouched'
  <2>1. w.sock => conn[w.gen].reg # "none"
    BY DEF ShapeInv, Sockets
  <2> QED BY <1>1, <1>2, <2>1, ClosingFacts DEF ShapeInv, Untouched
<1>5. AllMade'
  <2>1. \A i \in DOMAIN cmd' : \E j \in DOMAIN cmd : cmd'[i] = cmd[j]
    BY <1>1, ClosingFacts, TakenCmd
  <2>2. s'.kept \in {s.kept, <<>>}
    BY <1>1, <1>2, ClosingFacts
  <2> QED BY <1>2, <2>1, <2>2, MadeKept, NoneKept DEF ShapeInv
<1>6. Minted'
  BY <1>2, MintedKept DEF ShapeInv
<1>7. BeginOnce'
  BY <1>1, <1>2, ClosingFacts, BeginKept DEF ShapeInv
<1> QED BY <1>3, <1>4, <1>5, <1>6, <1>7 DEF ShapeInv

\* The ID after the one of the n-th reply.
LEMMA MintNext ==
    ASSUME NEW g \in Gens, NEW n \in Nat \ {0}
    PROVE  NextPongTxn(ReplyTxn(g, n)) = ReplyTxn(g, n + 1)
<1>1. /\ g \in Nat /\ PongStride \in Nat \ {0} /\ PongGens \in Nat \ {0} /\ PongTxn \in Nat
  BY GensTyped, OutboundAssumption
<1>2. CASE n <= PongStride /\ g < PongGens
  <2>1. ReplyTxn(g, n) = PongFirst(g) + n - 1 /\ PongLast(g) = PongFirst(g) + PongStride - 1
        /\ PongFirst(g) \in Nat /\ g \in 0 .. PongGens - 1
    <3>1. PongFirst(g) = PongTxn + g * PongStride /\ g * PongStride \in Nat
      BY <1>1, <1>2 DEF PongFirst
    <3>2. PongFirst(g) \in Nat
      BY <1>1, <3>1
    <3>3. PongLast(g) = PongFirst(g) + (PongStride - 1)
      BY <1>1, <1>2 DEF PongLast
    <3> QED BY <1>1, <1>2, <3>2, <3>3 DEF ReplyTxn
  <2>2. ReplyTxn(g, n) \in PongFirst(g) .. PongLast(g)
    BY <1>1, <1>2, <2>1
  <2>3. IF ReplyTxn(g, n) = PongLast(g) THEN NextPongTxn(ReplyTxn(g, n)) = 0
                                        ELSE NextPongTxn(ReplyTxn(g, n)) = ReplyTxn(g, n) + 1
    BY <2>1, <2>2, PongTxnStays
  <2>4. ReplyTxn(g, n) = PongLast(g) <=> n = PongStride
    BY <1>1, <2>1
  <2>5. ReplyTxn(g, n + 1) = IF n = PongStride THEN 0 ELSE PongFirst(g) + (n + 1) - 1
    BY <1>1, <1>2 DEF ReplyTxn
  <2> QED BY <1>1, <2>1, <2>3, <2>4, <2>5
<1>3. CASE ~(n <= PongStride /\ g < PongGens)
  <2>1. ReplyTxn(g, n) = 0 /\ ReplyTxn(g, n + 1) = 0
    BY <1>1, <1>3 DEF ReplyTxn
  <2> QED BY <2>1 DEF NextPongTxn
<1> QED BY <1>2, <1>3

\* One more command in cmd.
LEMMA ShapeAppends ==
    ASSUME TypeInv, ShapeInv, NEW c \in Commands, cmd' = Append(cmd, c),
           UNCHANGED <<pc, w, s, cmdOpen, conn>>, Made(reader', c), Minted',
           \A g \in Gens : /\ reader'[g].pc = "none" <=> reader[g].pc = "none"
                           /\ reader'[g].pings = reader[g].pings,
           \/ c.k = "Begin" /\ ~ui.begun /\ ui'.begun
           \/ c.k # "Begin" /\ ui'.begun = ui.begun
    PROVE  ShapeInv'
<1>1. cmd \in Seq(Commands) /\ s.gen \in Gens /\ w.gen \in Gens
  BY StateTyped
<1>2. \A i \in DOMAIN cmd' : (i \in DOMAIN cmd /\ cmd'[i] = cmd[i])
                              \/ (i = Len(cmd) + 1 /\ cmd'[i] = c)
  BY <1>1, AppendIndex
<1>3. Sockets'
  BY <1>1 DEF ShapeInv, Sockets, Cancelled
<1>4. Untouched'
  BY DEF ShapeInv, Untouched
<1>5. AllMade'
  BY <1>2, MadeKept DEF ShapeInv
<1>6. BeginOnce'
  BY <1>2 DEF ShapeInv, BeginOnce
<1> QED BY <1>3, <1>4, <1>5, <1>6 DEF ShapeInv

\* What the UI and the spawned pumps send.
UiSends(c) ==
    /\ c \in Commands /\ c.k # "Pong" /\ cmdOpen /\ cmd' = Append(cmd, c)
    /\ UNCHANGED <<pc, w, s, cmdOpen, conn, reader>>
    /\ \/ /\ c.k = "Cont" /\ \E n \in 1 .. MaxBatch : c = Cont(NewLines(Owner, n))
             /\ ui.typed[Owner] + n <= MaxLines /\ ui' = [ui EXCEPT !.typed[Owner] = @ + n, !.lines = @ + n]
       \/ /\ c.k = "Dial" /\ c.gen = ui.gen + 1
          /\ ui'.gen = ui.gen + 1 /\ ui'.want = ui.gen + 1 /\ ui'.typed = ui.typed
          /\ ui'.begun = ui.begun
       \/ c.k \in {"Drop", "Hangup"} /\ ui' = [ui EXCEPT !.want = 0]
       \/ c.k = "Begin" /\ ~ui.begun /\ c.gen = ui.gen /\ ui' = [ui EXCEPT !.begun = TRUE]
       \/ c.k = "Pump" /\ ui' = ui

NewLinesFacts ==
    \A g \in Gens, n \in Nat :
        ui.typed[g] + n <= MaxLines =>
          /\ NewLines(g, n) \in Seq(Line) /\ Len(NewLines(g, n)) = n
          /\ \A i \in 1 .. n : NewLines(g, n)[i] = [from |-> "ui", gen |-> g, id |-> ui.typed[g] + i]

LEMMA LinesNew ==
    ASSUME TypeInv
    PROVE  NewLinesFacts /\ \A g \in Gens : ui.typed[g] \in Nat /\ ui.typed[g] <= ui.lines
           /\ ui.typed[g] \in 0 .. MaxLines /\ ui.lines \in Nat /\ MaxLines \in Nat
           /\ MaxLines <= MaxId
<1>1. ui \in Uis /\ MaxLines \in 0 .. MaxId /\ MaxId \in Nat
  BY ConnTyped, NetActorAssumption, WriterAssumption
<1>2. \A g \in Gens : ui.typed[g] \in 0 .. MaxLines /\ ui.lines \in 0 .. MaxLines
                      /\ ui.typed[g] <= ui.lines
  BY <1>1 DEF Uis, TypeInv
<1>3. ASSUME NEW g \in Gens, NEW n \in Nat, ui.typed[g] + n <= MaxLines
      PROVE  /\ NewLines(g, n) \in Seq(Line) /\ Len(NewLines(g, n)) = n
             /\ \A i \in 1 .. n : NewLines(g, n)[i] = [from |-> "ui", gen |-> g, id |-> ui.typed[g] + i]
  <2>1. \A i \in 1 .. n : [from |-> "ui", gen |-> g, id |-> ui.typed[g] + i] \in Line
    <3>1. \A i \in 1 .. n : ui.typed[g] + i \in 1 .. MaxId
      BY <1>1, <1>2, <1>3
    <3> QED BY <3>1 DEF Line
  <2> DEFINE x == [i \in 1 .. n |-> [from |-> "ui", gen |-> g, id |-> ui.typed[g] + i]]
  <2>2. x \in [1 .. n -> Line]
    BY <2>1
  <2>3. \A i \in 1 .. n : x[i] = [from |-> "ui", gen |-> g, id |-> ui.typed[g] + i]
    OBVIOUS
  <2>4. NewLines(g, n) = x
    BY DEF NewLines
  <2> HIDE DEF x
  <2>5. x \in Seq(Line) /\ Len(x) = n
    BY <2>2
  <2> QED BY <2>3, <2>4, <2>5
<1> QED BY <1>1, <1>2, <1>3 DEF NewLinesFacts

LEMMA UiSendsSteps ==
    ASSUME TypeInv,
           \/ \E n \in 1 .. MaxBatch : UiCont(n)
           \/ \E ep \in Endpoints : UiDial(ep)
           \/ UiCut \/ UiBegin
           \/ \E g \in Gens : PumpSend(g) /\ cmdOpen
    PROVE  \E c : UiSends(c)
<1>1. /\ ui \in Uis /\ ui.gen \in Gens /\ Owner \in Gens /\ MaxBatch \in Nat
  BY ConnTyped, GensTyped, NetActorAssumption DEF Uis, Owner
<1>2. ASSUME NEW n \in 1 .. MaxBatch, UiCont(n)
      PROVE  UiSends(Cont(NewLines(Owner, n)))
  <2>1. ui.lines + n <= MaxLines /\ n \in Nat
    <3>1. n \in Nat
      BY <1>1, <1>2
    <3>2. ui.lines + n <= MaxLines
      BY <1>2 DEF UiCont
    <3> QED BY <3>1, <3>2
  <2>2. ui.typed[Owner] + n <= MaxLines
    BY <1>1, <2>1, LinesNew
  <2>3. NewLines(Owner, n) \in Seq(Line)
    BY <1>1, <2>1, <2>2, LinesNew DEF NewLinesFacts
  <2>4. Cont(NewLines(Owner, n)) \in Commands /\ Cont(NewLines(Owner, n)).k = "Cont"
    BY <2>3 DEF Cont, Commands
  <2> HIDE DEF Owner
  <2> QED BY <1>2, <2>2, <2>4 DEF UiCont, UiSend, UiSends, actorVars
<1>3. ASSUME NEW ep \in Endpoints, UiDial(ep)
      PROVE  UiSends(Dial(ui.gen + 1, ep))
  <2>1. Dial(ui.gen + 1, ep) \in Commands /\ Dial(ui.gen + 1, ep).k = "Dial"
        /\ Dial(ui.gen + 1, ep).gen = ui.gen + 1
    BY <1>3 DEF Dial, Commands, UiDial
  <2>2. ui' = [ui EXCEPT !.gen = @ + 1, !.want = ui.gen + 1, !.dialed[ui.gen + 1] = ep]
    BY <1>3 DEF UiDial
  <2>3. ui'.gen = ui.gen + 1 /\ ui'.want = ui.gen + 1 /\ ui'.typed = ui.typed
        /\ ui'.begun = ui.begun
    BY <1>1, <2>2 DEF Uis
  <2>4. cmdOpen /\ cmd' = Append(cmd, Dial(ui.gen + 1, ep))
        /\ UNCHANGED <<pc, w, s, cmdOpen, conn, reader>>
    BY <1>3 DEF UiDial, UiSend, actorVars
  <2> HIDE DEF Dial
  <2> QED BY <2>1, <2>3, <2>4 DEF UiSends
<1>4. CASE UiCut
  <2>1. PICK c \in {Drop, Hangup} : UiSend(c)
    BY <1>4 DEF UiCut
  <2>2. c \in Commands /\ c.k \in {"Drop", "Hangup"}
    BY <2>1 DEF Drop, Hangup, Commands
  <2> QED BY <1>4, <2>1, <2>2 DEF UiCut, UiSend, UiSends, actorVars
<1>5. CASE UiBegin
  <2>1. Begin(ui.gen) \in Commands /\ Begin(ui.gen).k = "Begin" /\ Begin(ui.gen).gen = ui.gen
    BY <1>1 DEF Begin, Commands
  <2>2. UiSends(Begin(ui.gen))
    BY <1>5, <2>1 DEF UiBegin, UiSend, UiSends, actorVars
  <2> QED BY <2>2
<1>6. ASSUME NEW g \in Gens, PumpSend(g), cmdOpen
      PROVE  UiSends(Pump(g))
  <2>1. Pump(g) \in Commands /\ Pump(g).k = "Pump"
    BY DEF Pump, Commands
  <2> QED BY <1>6, <2>1 DEF PumpSend, PostCmd, UiSends
<1> QED BY <1>2, <1>3, <1>4, <1>5, <1>6

LEMMA UiSendsMade ==
    ASSUME TypeInv, NEW c, UiSends(c)
    PROVE  /\ Made(reader, c)
           /\ \/ c.k = "Begin" /\ ~ui.begun /\ ui'.begun
              \/ c.k # "Begin" /\ ui'.begun = ui.begun
<1>1. ui \in Uis /\ Owner \in Gens /\ MaxBatch \in Nat
  BY ConnTyped, GensTyped, NetActorAssumption DEF Uis, Owner
<1>2. Made(reader, c)
  <2>1. CASE c.k = "Cont"
    <3>1. PICK n \in 1 .. MaxBatch : c = Cont(NewLines(Owner, n))
      BY <2>1 DEF UiSends
    <3>2. \A i \in DOMAIN c.lines : c.lines[i].from = "ui"
      BY <3>1 DEF Cont, NewLines
    <3> QED BY <2>1, <3>2 DEF Made
  <2>2. CASE c.k # "Cont"
    BY <2>2 DEF UiSends, Made
  <2> QED BY <2>1, <2>2
<1>3. \/ c.k = "Begin" /\ ~ui.begun /\ ui'.begun
      \/ c.k # "Begin" /\ ui'.begun = ui.begun
  BY <1>1 DEF UiSends, Uis
<1> QED BY <1>2, <1>3

LEMMA ShapeUiSends ==
    ASSUME TypeInv, ShapeInv, NEW c, UiSends(c)
    PROVE  ShapeInv'
<1>1. /\ c \in Commands /\ cmd' = Append(cmd, c)
      /\ UNCHANGED <<pc, w, s, cmdOpen, conn, reader>>
  BY DEF UiSends
<1>2. Minted'
  BY <1>1, MintedKept DEF ShapeInv
<1>3. Made(reader', c)
  BY <1>1, UiSendsMade
<1> QED BY <1>1, <1>2, <1>3, UiSendsMade, ShapeAppends

\* A reply, which a closed channel loses.
Reply(g) == Pong(g, <<[from |-> "pong", gen |-> g, id |-> reader[g].pings]>>, reader[g].req)

LEMMA PongFacts ==
    ASSUME TypeInv, ShapeInv, NEW g \in Gens, ReaderPong(g)
    PROVE  /\ Reply(g) \in Commands /\ Reply(g).k = "Pong" /\ Reply(g).gen = g
           /\ Reply(g).lines = <<[from |-> "pong", gen |-> g, id |-> reader[g].pings]>>
           /\ Made(reader', Reply(g)) /\ Minted'
           /\ cmdOpen => cmd' = Append(cmd, Reply(g))
           /\ ~cmdOpen => cmd' = cmd
           /\ UNCHANGED <<pc, w, s, cmdOpen, conn, ui>>
           /\ \A h \in Gens : h # g => reader'[h] = reader[h]
           /\ reader[g].pc = "pong" /\ reader'[g].pc = "chunk"
           /\ reader'[g].pings = reader[g].pings
           /\ reader[g].pings \in 1 .. MaxId /\ Ponged(g) = reader[g].pings - 1
           /\ Ponged(g)' = reader[g].pings
           /\ \A h \in Gens : h # g => Ponged(h)' = Ponged(h)
<1>1. /\ reader \in [Gens -> Readers] /\ reader[g] \in Readers
      /\ reader[g].pc = "pong" /\ reader[g].pings > 0 /\ MaxId \in Nat
  BY ConnTyped, WriterAssumption DEF ReaderPong, ReaderAt, TypeInv, PongsCounted
<1> DEFINE n == reader[g].pings
           line == [from |-> "pong", gen |-> g, id |-> n]
<1>2. n \in 1 .. MaxId /\ n \in Nat /\ reader[g].req \in U32
  BY <1>1 DEF Readers
<1>3. line \in Line
  BY <1>2 DEF Line
<1>4. <<line>> \in Seq(Line)
  BY <1>3
<1>5. /\ Reply(g) \in Commands /\ Reply(g).k = "Pong" /\ Reply(g).gen = g
      /\ Reply(g).lines = <<line>> /\ Reply(g).req = reader[g].req
  <2> HIDE DEF line
  <2>1. Pong(g, <<line>>, reader[g].req) \in Commands
    BY <1>2, <1>4, CommandTyped, ConnTyped DEF Pong, Commands
  <2> QED BY <2>1 DEF Reply, Pong, line
<1>6. /\ \A h \in Gens : h # g => reader'[h] = reader[h]
      /\ reader'[g].pc = "chunk" /\ reader'[g].pings = n
      /\ reader'[g].req = NextPongTxn(reader[g].req)
  BY <1>1 DEF ReaderPong, Readers
<1>7. Ponged(g) = n - 1 /\ Ponged(g)' = n /\ \A h \in Gens : h # g => Ponged(h)' = Ponged(h)
  BY <1>1, <1>6 DEF Ponged
<1>8. reader[g].req = ReplyTxn(g, n)
  <2>1. reader[g].req = ReplyTxn(g, Ponged(g) + 1)
    BY <1>1 DEF ShapeInv, Minted
  <2> QED BY <1>2, <1>7, <2>1
<1>9. reader'[g].req = ReplyTxn(g, n + 1)
  BY <1>2, <1>6, <1>8, MintNext
<1>10. Minted'
  <2> HIDE DEF n
  <2> SUFFICES ASSUME NEW h \in Gens, reader'[h].pc # "none"
               PROVE  reader'[h].req = ReplyTxn(h, Ponged(h)' + 1)
    BY DEF Minted
  <2>1. CASE h = g
    BY <1>7, <1>9, <2>1
  <2>2. CASE h # g
    BY <1>6, <1>7, <2>2 DEF ShapeInv, Minted
  <2> QED BY <2>1, <2>2
<1>11. Made(reader', Reply(g))
  <2>1. Len(<<line>>) = 1 /\ <<line>>[1] = line /\ line.from = "pong" /\ line.gen = g
        /\ line.id = n
    OBVIOUS
  <2> HIDE DEF line, n
  <2> QED BY <1>5, <1>6, <1>8, <2>1 DEF Made
<1>12. /\ cmdOpen => cmd' = Append(cmd, Reply(g))
       /\ ~cmdOpen => cmd' = cmd
       /\ UNCHANGED <<pc, w, s, cmdOpen, conn, ui>>
  BY DEF ReaderPong, PostCmd, Reply
<1> QED BY <1>1, <1>2, <1>5, <1>6, <1>7, <1>10, <1>11, <1>12

LEMMA ShapePong ==
    ASSUME TypeInv, ShapeInv, NEW g \in Gens, ReaderPong(g)
    PROVE  ShapeInv'
<1>1. \A h \in Gens : /\ reader'[h].pc = "none" <=> reader[h].pc = "none"
                      /\ reader'[h].pings = reader[h].pings
  BY PongFacts
<1>2. CASE cmdOpen
  BY <1>1, <1>2, PongFacts, ShapeAppends
<1>3. CASE ~cmdOpen
  <2>1. /\ UNCHANGED <<pc, w, s, cmd, cmdOpen, conn, ui>> /\ Minted'
        /\ s.gen \in Gens /\ w.gen \in Gens
    BY <1>3, PongFacts, StateTyped
  <2>2. Sockets'
    <3>1. Cancelled(s)' = Cancelled(s)
      BY <2>1 DEF Cancelled
    <3> QED BY ONLY <1>1, <2>1, <3>1, ShapeInv DEF ShapeInv, Sockets
  <2>3. Untouched'
    BY ONLY <1>1, <2>1, ShapeInv DEF ShapeInv, Untouched
  <2>4. AllMade'
    BY <1>1, <2>1, MadeKept DEF ShapeInv
  <2>5. BeginOnce'
    BY <2>1, BeginKept DEF ShapeInv
  <2> QED BY <2>1, <2>2, <2>3, <2>4, <2>5 DEF ShapeInv
<1> QED BY <1>2, <1>3

LEMMA ShapeClose ==
    ASSUME TypeInv, ShapeInv, UiClose
    PROVE  ShapeInv'
<1>1. UNCHANGED <<pc, w, s, cmd, conn, reader, ui>> /\ ~cmdOpen'
  BY DEF UiClose, actorVars
<1> QED BY <1>1 DEF ShapeInv, Sockets, Untouched, AllMade, Minted, BeginOnce, Ponged, Cancelled

\* Every step is of one of these kinds.
Kinds ==
    \/ Stays \/ Drained \/ Register \/ Sends \/ ArmBoot \/ Closes
    \/ Leaves /\ (pc = "deferred" => cmd = <<>> /\ ~cmdOpen)
    \/ DeferredCommand \/ UiClose
    \/ \E c : UiSends(c)
    \/ \E g \in Gens : ReaderPong(g)

LEMMA StepKinds ==
    ASSUME TypeInv, DialInv, WantInv, ShapeInv, [Next]_vars
    PROVE  Kinds
<1>1. CASE \/ DialConnected \/ PeekEnd \/ SetupUpgrade \/ UpgradeDone \/ DrainEnded
           \/ SetupRetry
  BY <1>1, StaysWithin DEF Kinds
<1>2. CASE \/ WriterEof \/ WriterDone \/ UiTake \/ UNCHANGED vars
           \/ \E g \in Gens : FailPost(g) \/ ReaderUp(g) \/ ReaderRecv(g)
                              \/ ReaderChunk(g) \/ ReaderStop(g)
           \/ \E g \in Gens : PumpSend(g) /\ ~cmdOpen
  BY <1>2, StaysOutside DEF Kinds
<1>3. CASE \/ DialFailed \/ SetupCancel \/ UpgradeFailed \/ RegisterFailed
           \/ DeferredEnded
  <2>1. Leaves
    BY <1>3, LeavesEnds
  <2>2. pc = "deferred" => cmd = <<>> /\ ~cmdOpen
    BY <1>3 DEF DialFailed, SetupCancel, UpgradeFailed, RegisterFailed, DeferredEnded, CmdEnded
  <2> QED BY <2>1, <2>2 DEF Kinds
<1>4. CASE DeferredCommand \/ ArmBoot \/ Register
  BY <1>4 DEF Kinds
<1>5. CASE PeekCommand \/ DrainCommand
  BY <1>5, DrainedSteps DEF Kinds
<1>6. CASE Replay \/ ArmRedial \/ WriterSend
  BY <1>6, SendsSteps DEF Kinds
<1>7. CASE WriterDrop \/ WriterHangup \/ WriterDial \/ WriterFinish
  BY <1>7, ClosesSteps DEF Kinds
<1>8. CASE \/ \E n \in 1 .. MaxBatch : UiCont(n)
           \/ \E ep \in Endpoints : UiDial(ep)
           \/ UiCut \/ UiBegin
           \/ \E g \in Gens : PumpSend(g) /\ cmdOpen
  BY <1>8, UiSendsSteps DEF Kinds
<1>9. CASE UiClose
  BY <1>9 DEF Kinds
<1>10. CASE \E g \in Gens : ReaderPong(g)
  BY <1>10 DEF Kinds
<1>11. CASE UiCommand
  BY <1>8, <1>9, <1>11 DEF UiCommand
<1>12. CASE WriterStep
  BY <1>1, <1>2, <1>3, <1>4, <1>5, <1>6, <1>7, <1>12 DEF WriterStep
<1>13. CASE \E g \in Gens : PumpSend(g) \/ FailPost(g) \/ ReaderStep(g)
  BY <1>2, <1>8, <1>10, <1>13 DEF ReaderStep
<1>14. CASE Stopped
  BY <1>2, <1>14 DEF Stopped
<1> QED BY <1>2, <1>11, <1>12, <1>13, <1>14 DEF Next

LEMMA ShapeInit == Init => ShapeInv
<1> SUFFICES ASSUME Init PROVE ShapeInv
  OBVIOUS
<1>1. PICK start \in Starts : InitStart(start)
  BY DEF Init
<1>2. start \in {"boot", "idle", "deferred"}
  BY <1>1, NetActorAssumption
<1>3. /\ pc = "deferred" <=> start = "deferred"
      /\ pc \in {"dial", "loop", "deferred"}
      /\ pc # "loop" => s.gen = 1
      /\ s.kept = <<>>
  BY <1>1, <1>2 DEF InitStart, Setup, NoSetup
<1>4. ~w.sock /\ cmd = <<>>
  BY DEF Init, Socketless, Adopted
<1>5. \A g \in Gens : conn[g] = NoConn /\ reader[g].pc = "none" /\ reader[g].pings = 0
  BY DEF Init
<1>6. Sockets
  BY <1>3, <1>4 DEF Sockets, Setting
<1>7. Untouched
  BY <1>5 DEF Untouched, NoConn
<1>8. AllMade
  BY <1>3, <1>4, NoneKept DEF AllMade
<1>9. Minted
  BY <1>5 DEF Minted
<1>10. BeginOnce
  <2>1. ui.begun = (start # "deferred")
    BY <1>1 DEF InitStart, InitUi
  <2> QED BY <1>3, <1>4, <2>1, NoneKept DEF BeginOnce
<1> QED BY <1>6, <1>7, <1>8, <1>9, <1>10 DEF ShapeInv

LEMMA ShapeStep ==
    TypeInv /\ DialInv /\ WantInv /\ ShapeInv /\ [Next]_vars => ShapeInv'
<1> SUFFICES ASSUME TypeInv, DialInv, WantInv, ShapeInv, [Next]_vars
             PROVE  ShapeInv'
  OBVIOUS
<1> QED BY StepKinds, ShapeStays, ShapeDrained, ShapeRegister, ShapeSends, ShapeArmBoot,
        ShapeCloses, ShapeLeaves, ShapeDeferred, ShapeClose, ShapeUiSends, ShapePong DEF Kinds

LEMMA WantAlways == Spec => []WantInv
<1>1. DialInv /\ WantInv /\ TypeInv /\ TypeInv' /\ [Next]_vars => WantInv'
  BY WantStep
<1> QED BY <1>1, WantInit, CredAlways, TypeAlways, PTL DEF Spec

LEMMA ShapeAlways == Spec => []ShapeInv
BY ShapeInit, ShapeStep, WantAlways, CredAlways, TypeAlways, PTL DEF Spec

-----------------------------------------------------------------------------
(* The request IDs *)

\* The two lists of the queue stand side by side, and whatever reached a
\* socket did so under its own request ID.
TraceInv ==
    /\ Aligned(w.pending, w.ptxn)
    /\ w.ntxn \in 1 .. PongTxn - 1
    /\ \A g \in Gens : AllStamped(conn[g].wire)

LEMMA TraceInit == Init => TraceInv
<1> SUFFICES ASSUME Init PROVE TraceInv
  OBVIOUS
<1>1. w.pending = <<>> /\ w.ptxn = <<>> /\ w.ntxn = 1
  BY DEF Init, Socketless, Adopted
<1>2. \A g \in Gens : conn[g].wire = <<>>
  BY DEF Init, NoConn
<1>3. 1 \in 1 .. PongTxn - 1
  BY OutboundAssumption
<1> QED BY <1>1, <1>2, <1>3, AlignedEmpty DEF TraceInv

LEMMA StampedConcat ==
    ASSUME NEW a \in Seq(Sent), NEW b \in Seq(Sent), AllStamped(a), AllStamped(b)
    PROVE  AllStamped(a \o b)
<1>1. \A i \in DOMAIN (a \o b) :
        \/ i \in DOMAIN a
        \/ i - Len(a) \in DOMAIN b /\ i > Len(a) /\ i \in Nat
  BY ConcatIndex
<1>2. /\ \A i \in DOMAIN a : (a \o b)[i] = a[i]
      /\ \A i \in DOMAIN b : (a \o b)[Len(a) + i] = b[i]
      /\ Len(a) \in Nat
  BY ConcatIndex
<1> SUFFICES ASSUME NEW i \in DOMAIN (a \o b)
             PROVE  Stamped((a \o b)[i].line, (a \o b)[i].txn)
  BY DEF AllStamped
<1>3. CASE i \in DOMAIN a
  BY <1>2, <1>3 DEF AllStamped
<1>4. CASE i - Len(a) \in DOMAIN b /\ i \in Nat
  <2>1. Len(a) + (i - Len(a)) = i
    BY <1>2, <1>4
  <2>2. (a \o b)[i] = b[i - Len(a)]
    BY <1>2, <1>4, <2>1
  <2> QED BY <1>4, <2>2 DEF AllStamped
<1> QED BY <1>1, <1>3, <1>4

\* The commands a send takes are made as their senders make them.
LEMMA SendMade ==
    ASSUME TypeInv, ShapeInv, NEW c,
           \/ s.kept # <<>> /\ c = Head(s.kept)
           \/ c = Pump(w.gen)
           \/ cmd # <<>> /\ c = Head(cmd)
    PROVE  Made(reader, c)
<1>1. CASE s.kept # <<>> /\ c = Head(s.kept)
  <2>1. 1 \in DOMAIN s.kept /\ Head(s.kept) = s.kept[1]
    BY <1>1, KeptTyped, TailIndex
  <2> QED BY <1>1, <2>1 DEF ShapeInv, AllMade
<1>2. CASE c = Pump(w.gen)
  BY <1>2 DEF Made, Pump
<1>3. CASE cmd # <<>> /\ c = Head(cmd)
  <2>1. cmd \in Seq(Commands)
    BY StateTyped
  <2>2. 1 \in DOMAIN cmd /\ Head(cmd) = cmd[1]
    BY <1>3, <2>1, TailIndex
  <2> QED BY <1>3, <2>2 DEF ShapeInv, AllMade
<1> QED BY <1>1, <1>2, <1>3

LEMMA TraceSends ==
    ASSUME TypeInv, ShapeInv, TraceInv, Sends
    PROVE  TraceInv'
<1>1. PICK c, r : SendStep(c, r) /\ \/ s.kept # <<>> /\ c = Head(s.kept)
                                    \/ c = Pump(w.gen)
                                    \/ cmd # <<>> /\ c = Head(cmd)
  BY DEF Sends
<1>2. Made(reader, c)
  BY <1>1, SendMade
<1>3. Traced(w, r)
  BY <1>1, <1>2, OutcomeMoves DEF TraceInv, SendStep
<1>4. /\ w' = r.w /\ w.gen \in Gens /\ r.wire \in Seq(Sent)
      /\ \A g \in Gens : g # w.gen => conn'[g] = conn[g]
      /\ conn'[w.gen].wire = conn[w.gen].wire \o r.wire
  BY <1>1, SendFacts
<1>5. w'.ntxn \in 1 .. PongTxn - 1
  <2>1. w.ntxn \in U32
    BY StateTyped, WriterFields
  <2>2. NextBatchTxn(w.ntxn) \in 1 .. PongTxn - 1
    BY <2>1, BatchTxnApart
  <2> QED BY <1>3, <1>4, <2>2 DEF Traced, TraceInv
<1>6. AllStamped(conn'[w.gen].wire)
  <2>1. conn[w.gen].wire \in Seq(Sent)
    BY <1>4, ConnTyped DEF Conns
  <2> QED BY <1>3, <1>4, <2>1, StampedConcat DEF Traced, TraceInv
<1>7. \A g \in Gens : AllStamped(conn'[g].wire)
  BY <1>4, <1>6 DEF TraceInv
<1> QED BY <1>3, <1>4, <1>5, <1>7 DEF Traced, TraceInv

LEMMA TraceCloses ==
    ASSUME TypeInv, DialInv, TraceInv, Closes
    PROVE  TraceInv'
<1>1. PICK report, wire, how : Closing(report, wire, how) /\ Flushing(wire, how)
  BY DEF Closes
<1>2. wire \in Seq(Sent) /\ w.gen \in Gens
  BY <1>1, StateTyped DEF Closing
<1>3. AllStamped(wire)
  <2>1. CASE wire = <<>>
    BY <2>1, AlignedEmpty
  <2>2. CASE \E b \in Flush(w) : wire = b.wire
    <3>1. PICK b \in SendBatch(w.pending, w.ptxn) : wire = b.wire
      BY <2>2 DEF Flush
    <3>2. w.pending \in Seq(Line) /\ w.ptxn \in Seq(U32)
      BY StateTyped, WriterFields
    <3> QED BY <3>1, <3>2, SendBatchMoves DEF TraceInv
  <2> QED BY <1>1, <2>1, <2>2 DEF Flushing
<1>4. \A g \in Gens : AllStamped(conn'[g].wire)
  <2> SUFFICES ASSUME NEW g \in Gens
               PROVE  AllStamped(conn'[g].wire)
    OBVIOUS
  <2>1. CASE g # w.gen \/ ~w.sock
    <3>1. conn'[g] = conn[g]
      BY <1>1, <2>1, ClosingFacts
    <3> QED BY <3>1 DEF TraceInv
  <2>2. CASE g = w.gen /\ w.sock
    <3>1. conn'[g].wire = conn[g].wire \o wire
      BY <1>1, <2>2, ClosingFacts
    <3>2. conn[g].wire \in Seq(Sent)
      BY ConnTyped DEF Conns
    <3> QED BY <1>2, <1>3, <3>1, <3>2, StampedConcat DEF TraceInv
  <2> QED BY <2>1, <2>2
<1>5. w'.pending = <<>> /\ w'.ptxn = <<>> /\ w'.ntxn = w.ntxn
  BY <1>1, ClosingFacts
<1> QED BY <1>4, <1>5, AlignedEmpty DEF TraceInv

LEMMA TraceStep ==
    TypeInv /\ DialInv /\ WantInv /\ ShapeInv /\ TraceInv /\ [Next]_vars => TraceInv'
<1> SUFFICES ASSUME TypeInv, DialInv, WantInv, ShapeInv, TraceInv, [Next]_vars
             PROVE  TraceInv'
  OBVIOUS
<1>1. CASE UNCHANGED <<w, conn>>
  BY <1>1 DEF TraceInv
<1>2. CASE Stays
  BY <1>2 DEF Stays, WiresKept, TraceInv
<1>3. CASE Leaves
  <2>1. w'.pending = <<>> /\ w'.ptxn \in {<<>>, w.ptxn} /\ w'.ntxn = w.ntxn
    BY <1>3 DEF Leaves
  <2>2. ~w.sock
    BY <1>3 DEF Leaves, ShapeInv, Sockets, Setting
  <2>3. w.pending = <<>>
    BY <2>2 DEF TypeInv, WriterRests
  <2>4. Aligned(w'.pending, w'.ptxn)
    BY <2>1, <2>3, AlignedEmpty DEF TraceInv
  <2> QED BY <1>3, <2>1, <2>4 DEF Leaves, WiresKept, TraceInv
<1>4. CASE DeferredCommand
  <2>1. w \in Writers /\ UNCHANGED conn
    BY <1>4, StateTyped DEF DeferredCommand
  <2>2. w' = w \/ w' = [w EXCEPT !.gen = s.gen]
    BY <1>4 DEF DeferredCommand
  <2>3. w'.pending = w.pending /\ w'.ptxn = w.ptxn /\ w'.ntxn = w.ntxn
    BY <2>1, <2>2 DEF Writers
  <2> QED BY <2>1, <2>3 DEF TraceInv
<1>5. CASE Register
  <2>1. \A g \in Gens : AllStamped(conn'[g].wire)
    BY <1>5, RegisterFacts, AlignedEmpty DEF TraceInv
  <2> QED BY <1>5, <2>1, RegisterFacts, AlignedEmpty DEF TraceInv
<1>6. CASE Drained \/ ArmBoot \/ UiClose \/ (\E c : UiSends(c)) \/ \E g \in Gens : ReaderPong(g)
  BY <1>1, <1>6 DEF Drained, ArmBoot, UiClose, actorVars, UiSends, ReaderPong
<1>7. CASE Sends
  BY <1>7, TraceSends
<1>8. CASE Closes
  BY <1>8, TraceCloses
<1> QED BY <1>2, <1>3, <1>4, <1>5, <1>6, <1>7, <1>8, StepKinds DEF Kinds

LEMMA TraceAlways == Spec => []TraceInv
BY TraceInit, TraceStep, ShapeAlways, WantAlways, CredAlways, TypeAlways, PTL DEF Spec

-----------------------------------------------------------------------------
(* Whose lines a socket carries *)

\* The lines of one producer, as a queue holds them, are all of generation g.
Hers(lines, from, g) == \A i \in DOMAIN lines : lines[i].from = from => lines[i].gen = g

\* The queue and every socket carry lines of their own generation only.
Kin(from) ==
    /\ Hers(w.pending, from, w.gen)
    /\ \A g \in Gens : Hers(Lines(conn[g].wire), from, g)

LEMMA HersConcat ==
    ASSUME NEW a \in Seq(Line), NEW b \in Seq(Line), NEW from, NEW g
    PROVE  Hers(a \o b, from, g) <=> Hers(a, from, g) /\ Hers(b, from, g)
<1>1. /\ \A i \in DOMAIN a : i \in DOMAIN (a \o b) /\ (a \o b)[i] = a[i]
      /\ \A i \in DOMAIN b :
           Len(a) + i \in DOMAIN (a \o b) /\ (a \o b)[Len(a) + i] = b[i]
      /\ \A i \in DOMAIN (a \o b) :
           i \in DOMAIN a \/ (i - Len(a) \in DOMAIN b /\ i \in Nat)
      /\ Len(a) \in Nat
  BY ConcatIndex
<1>2. ASSUME Hers(a \o b, from, g)
      PROVE  Hers(a, from, g) /\ Hers(b, from, g)
  BY <1>1, <1>2, ZenonT(40) DEF Hers
<1>3. ASSUME Hers(a, from, g), Hers(b, from, g), NEW i \in DOMAIN (a \o b),
             (a \o b)[i].from = from
      PROVE  (a \o b)[i].gen = g
  <2>1. CASE i \in DOMAIN a
    BY <1>1, <1>3, <2>1 DEF Hers
  <2>2. CASE i - Len(a) \in DOMAIN b /\ i \in Nat
    <3>1. Len(a) + (i - Len(a)) = i
      BY <1>1, <2>2
    <3>2. (a \o b)[i] = b[i - Len(a)]
      BY <1>1, <2>2, <3>1
    <3> QED BY <1>3, <2>2, <3>2 DEF Hers
  <2> QED BY <1>1, <2>1, <2>2
<1> QED BY <1>2, <1>3 DEF Hers

LEMMA HersEmpty == \A from, g : Hers(<<>>, from, g) /\ Lines(<<>>) = <<>>
<1>1. Lines(<<>>) = <<>>
  BY DEF Lines
<1> QED BY <1>1 DEF Hers

\* A wire that grows by w1, lines of generation g.
LEMMA HersGrows ==
    ASSUME TypeInv, NEW g \in Gens, NEW more \in Seq(Sent), NEW from,
           Hers(Lines(conn[g].wire), from, g), Hers(Lines(more), from, g)
    PROVE  Hers(Lines(conn[g].wire \o more), from, g)
<1>1. conn[g].wire \in Seq(Sent)
  BY ConnTyped DEF Conns
<1>2. Lines(conn[g].wire \o more) = Lines(conn[g].wire) \o Lines(more)
  BY <1>1, LinesConcat
<1>3. Lines(conn[g].wire) \in Seq(Line) /\ Lines(more) \in Seq(Line)
  BY <1>1, LinesTyped
<1> QED BY <1>2, <1>3, HersConcat

LEMMA KinSends ==
    ASSUME TypeInv, NEW c, NEW r, SendStep(c, r), NEW from, Kin(from),
           w.sock => Hers(Outs(c), from, w.gen)
    PROVE  Kin(from)'
<1>1. /\ Outs(c) \in Seq(Line) /\ Moved(w, Outs(c), r)
  BY OutcomeMoves DEF SendStep
<1>2. /\ w' = r.w /\ w'.gen = w.gen /\ w.gen \in Gens /\ r.wire \in Seq(Sent)
      /\ \A g \in Gens : g # w.gen => conn'[g] = conn[g]
      /\ conn'[w.gen].wire = conn[w.gen].wire \o r.wire
      /\ w'.sock => w.sock /\ r.ok
      /\ ~w.sock => w'.pending = <<>> /\ \A g \in Gens : conn'[g].wire = conn[g].wire
  BY SendFacts
<1>3. w.pending \in Seq(Line) /\ QueueOutcome(w, r)
  BY StateTyped, WriterFields, QueueOutcomesOK DEF SendStep, TypeInv
<1>4. CASE ~w.sock
  BY <1>2, <1>4, HersEmpty DEF Kin
<1>5. CASE w.sock
  <2>1. PICK rest \in Seq(Line) :
            w.pending \o Outs(c) = Lines(r.wire) \o rest /\ (r.ok => r.w.pending = rest)
    BY <1>1, <1>5 DEF Moved
  <2>2. Lines(r.wire) \in Seq(Line)
    BY <1>2, LinesTyped
  <2>3. Hers(w.pending \o Outs(c), from, w.gen)
    BY <1>1, <1>3, <1>5, HersConcat DEF Kin
  <2>4. Hers(Lines(r.wire) \o rest, from, w.gen)
    BY <2>1, <2>3
  <2>5. Hers(Lines(r.wire), from, w.gen) /\ Hers(rest, from, w.gen)
    BY <2>2, <2>4, HersConcat
  <2>6. Hers(w'.pending, from, w.gen)
    <3>1. CASE r.w.sock
      BY <1>2, <2>1, <2>5, <3>1
    <3>2. CASE ~r.w.sock
      <4>1. r.w.pending = <<>>
        BY <1>3, <3>2 DEF QueueOutcome
      <4> QED BY <1>2, <4>1, HersEmpty
    <3> QED BY <3>1, <3>2
  <2>7. Hers(Lines(conn'[w.gen].wire), from, w.gen)
    BY <1>2, <2>5, HersGrows DEF Kin
  <2> QED BY <1>2, <2>6, <2>7 DEF Kin
<1> QED BY <1>4, <1>5

LEMMA KinCloses ==
    ASSUME TypeInv, DialInv, Closes, NEW from, Kin(from)
    PROVE  Kin(from)'
<1>1. PICK report, wire, how : Closing(report, wire, how) /\ Flushing(wire, how)
  BY DEF Closes
<1>2. wire \in Seq(Sent) /\ w.gen \in Gens /\ w.pending \in Seq(Line)
  BY <1>1, StateTyped, WriterFields DEF Closing
<1>3. Hers(Lines(wire), from, w.gen)
  <2>1. CASE wire = <<>>
    BY <2>1, HersEmpty
  <2>2. CASE \E b \in Flush(w) : wire = b.wire
    <3>1. PICK b \in SendBatch(w.pending, w.ptxn) : wire = b.wire
      BY <2>2 DEF Flush
    <3>2. w.ptxn \in Seq(U32)
      BY StateTyped, WriterFields
    <3>3. PICK rest \in Seq(Line) : w.pending = Lines(wire) \o rest
      BY <1>2, <3>1, <3>2, SendBatchMoves
    <3>4. Lines(wire) \in Seq(Line)
      BY <1>2, LinesTyped
    <3>5. Hers(Lines(wire) \o rest, from, w.gen)
      BY <3>3 DEF Kin
    <3> QED BY <3>4, <3>5, HersConcat
  <2> QED BY <1>1, <2>1, <2>2 DEF Flushing
<1>4. ASSUME NEW g \in Gens
      PROVE  Hers(Lines(conn'[g].wire), from, g)
  <2>1. CASE g # w.gen \/ ~w.sock
    <3>1. conn'[g] = conn[g]
      BY <1>1, <2>1, ClosingFacts
    <3> QED BY <3>1 DEF Kin
  <2>2. CASE g = w.gen /\ w.sock
    <3>1. conn'[g].wire = conn[g].wire \o wire
      BY <1>1, <2>2, ClosingFacts
    <3> QED BY <1>2, <1>3, <2>2, <3>1, HersGrows DEF Kin
  <2> QED BY <2>1, <2>2
<1>5. w'.pending = <<>>
  BY <1>1, ClosingFacts
<1> QED BY <1>4, <1>5, HersEmpty DEF Kin

\* Every step but a send keeps them.
LEMMA KinOthers ==
    ASSUME TypeInv, DialInv, WantInv, ShapeInv, [Next]_vars, ~Sends, NEW from, Kin(from)
    PROVE  Kin(from)'
<1>1. CASE UNCHANGED <<w, conn>>
  BY <1>1 DEF Kin
<1>2. CASE Stays
  BY <1>2 DEF Stays, WiresKept, Kin
<1>3. CASE Leaves
  <2>1. w'.pending = <<>>
    BY <1>3 DEF Leaves
  <2> QED BY <1>3, <2>1, HersEmpty DEF Leaves, WiresKept, Kin
<1>4. CASE DeferredCommand
  <2>1. w \in Writers /\ UNCHANGED conn /\ ~w.sock
    BY <1>4, StateTyped DEF DeferredCommand, ShapeInv, Sockets
  <2>2. w' = w \/ w' = [w EXCEPT !.gen = s.gen]
    BY <1>4 DEF DeferredCommand
  <2>3. w'.pending = <<>>
    BY <2>1, <2>2 DEF Writers, TypeInv, WriterRests
  <2> QED BY <2>1, <2>3, HersEmpty DEF Kin
<1>5. CASE Register
  <2>1. \A g \in Gens : Hers(Lines(conn'[g].wire), from, g)
    BY <1>5, RegisterFacts, HersEmpty DEF Kin
  <2> QED BY <1>5, <2>1, RegisterFacts, HersEmpty DEF Kin
<1>6. CASE Drained \/ ArmBoot \/ UiClose \/ (\E c : UiSends(c)) \/ \E g \in Gens : ReaderPong(g)
  BY <1>1, <1>6 DEF Drained, ArmBoot, UiClose, actorVars, UiSends, ReaderPong
<1>8. CASE Closes
  BY <1>8, KinCloses
<1> QED BY <1>2, <1>3, <1>4, <1>5, <1>6, <1>8, StepKinds DEF Kinds

LEMMA KinInit == Init => \A from : Kin(from)
<1> SUFFICES ASSUME Init, NEW from PROVE Kin(from)
  OBVIOUS
<1>1. w.pending = <<>>
  BY DEF Init, Socketless, Adopted
<1>2. \A g \in Gens : conn[g].wire = <<>>
  BY DEF Init, NoConn
<1> QED BY <1>1, <1>2, HersEmpty DEF Kin

\* A stale reader's reply never enters the queue of a newer connection.
LEMMA RepliesStep ==
    TypeInv /\ DialInv /\ WantInv /\ ShapeInv /\ Kin("pong") /\ [Next]_vars => Kin("pong")'
<1> SUFFICES ASSUME TypeInv, DialInv, WantInv, ShapeInv, Kin("pong"), [Next]_vars
             PROVE  Kin("pong")'
  OBVIOUS
<1>1. CASE Sends
  <2>1. PICK c, r : SendStep(c, r) /\ \/ s.kept # <<>> /\ c = Head(s.kept)
                                      \/ c = Pump(w.gen)
                                      \/ cmd # <<>> /\ c = Head(cmd)
    BY <1>1 DEF Sends
  <2>2. Made(reader, c) /\ c \in Commands
    BY <2>1, SendMade DEF SendStep
  <2>3. Hers(Outs(c), "pong", w.gen)
    <3>1. CASE c.k = "Cont"
      BY <2>2, <3>1 DEF Outs, Hers, Made
    <3>2. CASE c.k = "Pong" /\ c.gen = w.gen
      <4>1. DOMAIN c.lines = 1 .. Len(c.lines) /\ Len(c.lines) = 1 /\ c.lines[1].gen = c.gen
        BY <2>2, <3>2, CommandFields DEF Made
      <4>2. \A i \in DOMAIN c.lines : i = 1
        BY <4>1
      <4> QED BY <3>2, <4>1, <4>2 DEF Outs, Hers
    <3>3. CASE c.k # "Cont" /\ ~(c.k = "Pong" /\ c.gen = w.gen)
      BY <3>3, HersEmpty DEF Outs
    <3> QED BY <3>1, <3>2, <3>3
  <2> QED BY <2>1, <2>3, KinSends
<1>2. CASE ~Sends
  BY <1>2, KinOthers
<1> QED BY <1>1, <1>2

LEMMA RepliesAlways == Spec => []Kin("pong")
<1>1. Init => Kin("pong")
  BY KinInit
<1> QED BY <1>1, RepliesStep, ShapeAlways, WantAlways, CredAlways, TypeAlways, PTL DEF Spec

\* Every reply is sent under the request ID its reader minted for it, every UI
\* line under a batch ID below the PONG space, however batches are split and
\* sends fail (writer_queue, writer_split, pong_trace_next): the two parallel
\* lists of the queue never slip.
THEOREM TraceAligned == Spec => []TraceIdsAligned
<1>1. TypeInv /\ Kin("pong") /\ TraceInv => TraceIdsAligned
  <2> SUFFICES ASSUME TypeInv, Kin("pong"), TraceInv, NEW g \in Gens,
                      NEW i \in DOMAIN conn[g].wire
               PROVE  IF conn[g].wire[i].line.from = "pong"
                      THEN conn[g].wire[i].txn = ReplyTxn(g, conn[g].wire[i].line.id)
                      ELSE conn[g].wire[i].txn \in 1 .. PongTxn - 1
    BY DEF TraceIdsAligned
  <2>1. conn[g].wire \in Seq(Sent)
    BY ConnTyped DEF Conns
  <2>2. Lines(conn[g].wire)[i] = conn[g].wire[i].line /\ i \in DOMAIN Lines(conn[g].wire)
    <3>1. DOMAIN conn[g].wire = 1 .. Len(conn[g].wire)
      BY <2>1
    <3> QED BY <2>1, <3>1, LinesTyped
  <2>3. conn[g].wire[i].line.from = "pong" => conn[g].wire[i].line.gen = g
    BY <2>2 DEF Kin, Hers
  <2>4. Stamped(conn[g].wire[i].line, conn[g].wire[i].txn)
    BY DEF TraceInv, AllStamped
  <2> QED BY <2>3, <2>4 DEF Stamped
<1> QED BY <1>1, RepliesAlways, TraceAlways, TypeAlways, PTL

-----------------------------------------------------------------------------
(* Batches *)

Batches == Seq(Seq(Line))

Less(A, B) == \A x \in A, y \in B : x < y

LEMMA LineIds ==
    /\ \A line \in Line : line.id \in 1 .. MaxId /\ line.gen \in Gens
                          /\ line.from \in {"ui", "pong"}
    /\ MaxId \in Nat
BY WriterAssumption DEF Line

LEMMA IdsTyped ==
    ASSUME NEW b, NEW from, NEW g
    PROVE  IdsOf(b, from, g) \subseteq 1 .. MaxId /\ IdsOf(b, from, g) \subseteq Nat
BY LineIds DEF IdsOf

LEMMA BatchLines ==
    ASSUME NEW b \in Batches, NEW i \in DOMAIN b
    PROVE  /\ b[i] \in Seq(Line)
           /\ \A n \in DOMAIN b[i] : b[i][n] \in Line
<1>1. b[i] \in Seq(Line)
  <2>1. DOMAIN b = 1 .. Len(b)
    BY DEF Batches
  <2> QED BY <2>1, ElementOfSeq DEF Batches
<1>2. DOMAIN b[i] = 1 .. Len(b[i])
  BY <1>1
<1> QED BY <1>1, <1>2, ElementOfSeq

LEMMA IdMember ==
    ASSUME NEW b \in Batches, NEW from, NEW g, NEW i \in DOMAIN b,
           NEW n \in DOMAIN b[i], Of(b[i][n], from, g)
    PROVE  b[i][n].id \in IdsOf(b, from, g)
BY BatchLines, LineIds DEF IdsOf

LEMMA Concat ==
    ASSUME NEW a \in Batches, NEW b \in Batches, NEW from, NEW g
    PROVE  /\ a \o b \in Batches
           /\ IdsOf(a \o b, from, g) = IdsOf(a, from, g) \cup IdsOf(b, from, g)
           /\ Rising(a \o b, from, g)
                <=> /\ Rising(a, from, g) /\ Rising(b, from, g)
                    /\ Less(IdsOf(a, from, g), IdsOf(b, from, g))
<1> DEFINE c == a \o b
           k == Len(a)
<1>1. /\ c \in Batches /\ k \in Nat
      /\ \A i \in DOMAIN a : i \in DOMAIN c /\ c[i] = a[i] /\ i \in Nat /\ i <= k
      /\ \A i \in DOMAIN b : /\ i \in Nat /\ i >= 1
                             /\ k + i \in DOMAIN c /\ c[k + i] = b[i]
      /\ \A i \in DOMAIN c : \/ i \in DOMAIN a
                             \/ i - k \in DOMAIN b /\ i > k /\ i \in Nat
  BY ConcatIndex DEF Batches
<1>2. \A i \in DOMAIN c : i \in DOMAIN a \/ \E j \in DOMAIN b : i = k + j
  <2> SUFFICES ASSUME NEW i \in DOMAIN c, i \notin DOMAIN a
               PROVE  \E j \in DOMAIN b : i = k + j
    OBVIOUS
  <2>1. i - k \in DOMAIN b /\ i \in Nat
    BY <1>1
  <2> QED BY <1>1, <2>1
<1> HIDE DEF c, k
<1>3. IdsOf(c, from, g) = IdsOf(a, from, g) \cup IdsOf(b, from, g)
  <2>1. ASSUME NEW n \in IdsOf(c, from, g)
        PROVE  n \in IdsOf(a, from, g) \cup IdsOf(b, from, g)
    <3>1. PICK i \in DOMAIN c : \E m \in DOMAIN c[i] : Of(c[i][m], from, g) /\ c[i][m].id = n
      BY DEF IdsOf
    <3>2. CASE i \in DOMAIN a
      BY <1>1, <3>1, <3>2 DEF IdsOf
    <3>3. CASE \E j \in DOMAIN b : i = k + j
      BY <1>1, <3>1, <3>3 DEF IdsOf
    <3> QED BY <1>2, <3>2, <3>3
  <2>2. ASSUME NEW n \in IdsOf(a, from, g)
        PROVE  n \in IdsOf(c, from, g)
    BY <1>1 DEF IdsOf
  <2>3. ASSUME NEW n \in IdsOf(b, from, g)
        PROVE  n \in IdsOf(c, from, g)
    BY <1>1 DEF IdsOf
  <2> QED BY <2>1, <2>2, <2>3
<1>4. ASSUME Rising(c, from, g)
      PROVE  /\ Rising(a, from, g) /\ Rising(b, from, g)
             /\ Less(IdsOf(a, from, g), IdsOf(b, from, g))
  <2>1. Rising(a, from, g)
    BY <1>1, <1>4 DEF Rising
  <2>2. Rising(b, from, g)
    <3> SUFFICES ASSUME NEW i \in DOMAIN b, NEW j \in DOMAIN b,
                        NEW m \in DOMAIN b[i], NEW n \in DOMAIN b[j],
                        i < j \/ (i = j /\ m < n),
                        Of(b[i][m], from, g), Of(b[j][n], from, g)
                 PROVE  b[i][m].id < b[j][n].id
      BY DEF Rising
    <3>1. /\ k + i \in DOMAIN c /\ c[k + i] = b[i] /\ k + j \in DOMAIN c /\ c[k + j] = b[j]
          /\ k + i < k + j \/ (k + i = k + j /\ m < n)
      BY <1>1
    <3> QED BY <1>4, <3>1 DEF Rising
  <2>3. Less(IdsOf(a, from, g), IdsOf(b, from, g))
    <3> SUFFICES ASSUME NEW x \in IdsOf(a, from, g), NEW y \in IdsOf(b, from, g)
                 PROVE  x < y
      BY DEF Less
    <3>1. PICK i \in DOMAIN a : \E m \in DOMAIN a[i] : Of(a[i][m], from, g) /\ a[i][m].id = x
      BY DEF IdsOf
    <3>2. PICK j \in DOMAIN b : \E n \in DOMAIN b[j] : Of(b[j][n], from, g) /\ b[j][n].id = y
      BY DEF IdsOf
    <3>3. /\ i \in DOMAIN c /\ c[i] = a[i] /\ k + j \in DOMAIN c /\ c[k + j] = b[j]
          /\ i < k + j
      BY <1>1
    <3> QED BY <1>4, <3>1, <3>2, <3>3 DEF Rising
  <2> QED BY <2>1, <2>2, <2>3
<1>5. ASSUME Rising(a, from, g), Rising(b, from, g),
             Less(IdsOf(a, from, g), IdsOf(b, from, g))
      PROVE  Rising(c, from, g)
  <2> SUFFICES ASSUME NEW i \in DOMAIN c, NEW j \in DOMAIN c,
                      NEW m \in DOMAIN c[i], NEW n \in DOMAIN c[j],
                      i < j \/ (i = j /\ m < n),
                      Of(c[i][m], from, g), Of(c[j][n], from, g)
               PROVE  c[i][m].id < c[j][n].id
    BY DEF Rising
  <2>1. CASE i \in DOMAIN a /\ j \in DOMAIN a
    BY <1>1, <1>5, <2>1 DEF Rising
  <2>2. CASE i \in DOMAIN a /\ \E l \in DOMAIN b : j = k + l
    <3>1. PICK l \in DOMAIN b : j = k + l
      BY <2>2
    <3>2. c[i] = a[i] /\ c[j] = b[l]
      BY <1>1, <2>2, <3>1
    <3>3. c[i][m].id \in IdsOf(a, from, g) /\ c[j][n].id \in IdsOf(b, from, g)
      BY <2>2, <3>2, IdMember
    <3> QED BY <1>5, <3>3 DEF Less
  <2>3. CASE (\E l \in DOMAIN b : i = k + l) /\ j \in DOMAIN a
    BY <1>1, <2>3
  <2>4. CASE (\E l \in DOMAIN b : i = k + l) /\ \E l \in DOMAIN b : j = k + l
    <3>1. PICK x \in DOMAIN b : i = k + x
      BY <2>4
    <3>2. PICK y \in DOMAIN b : j = k + y
      BY <2>4
    <3>3. c[i] = b[x] /\ c[j] = b[y] /\ (x < y \/ (x = y /\ m < n))
      BY <1>1, <3>1, <3>2
    <3> QED BY <1>5, <3>3 DEF Rising
  <2> QED BY <1>2, <2>1, <2>2, <2>3, <2>4
<1> QED BY <1>1, <1>3, <1>4, <1>5 DEF c

\* One batch, line by line.
LEMMA Single ==
    ASSUME NEW x \in Seq(Line), NEW from, NEW g
    PROVE  /\ <<x>> \in Batches
           /\ \A n : n \in IdsOf(<<x>>, from, g)
                       <=> \E i \in DOMAIN x : Of(x[i], from, g) /\ x[i].id = n
           /\ Rising(<<x>>, from, g)
                <=> \A i, j \in DOMAIN x :
                      i < j /\ Of(x[i], from, g) /\ Of(x[j], from, g)
                        => x[i].id < x[j].id
<1>1. DOMAIN <<x>> = {1} /\ <<x>>[1] = x /\ <<x>> \in Batches
  BY DEF Batches
<1>2. \A i \in DOMAIN x : x[i].id \in 1 .. MaxId
  BY LineIds
<1>3. \A n : n \in IdsOf(<<x>>, from, g)
               <=> \E i \in DOMAIN x : Of(x[i], from, g) /\ x[i].id = n
  BY <1>1, <1>2 DEF IdsOf
<1>4. Rising(<<x>>, from, g)
        <=> \A i, j \in DOMAIN x :
              i < j /\ Of(x[i], from, g) /\ Of(x[j], from, g) => x[i].id < x[j].id
  BY <1>1 DEF Rising
<1> QED BY <1>1, <1>3, <1>4

LEMMA Joined ==
    ASSUME NEW x \in Seq(Line), NEW y \in Seq(Line), NEW from, NEW g
    PROVE  /\ IdsOf(<<x \o y>>, from, g)
                = IdsOf(<<x>>, from, g) \cup IdsOf(<<y>>, from, g)
           /\ Rising(<<x \o y>>, from, g)
                <=> /\ Rising(<<x>>, from, g) /\ Rising(<<y>>, from, g)
                    /\ Less(IdsOf(<<x>>, from, g), IdsOf(<<y>>, from, g))
<1> DEFINE c == x \o y
           k == Len(x)
           O(l) == Of(l, from, g)
<1>1. /\ c \in Seq(Line) /\ k \in Nat
      /\ \A i \in DOMAIN x : i \in DOMAIN c /\ c[i] = x[i] /\ i \in Nat /\ i <= k
      /\ \A i \in DOMAIN y : /\ i \in Nat /\ i >= 1
                             /\ k + i \in DOMAIN c /\ c[k + i] = y[i]
      /\ \A i \in DOMAIN c : \/ i \in DOMAIN x
                             \/ i - k \in DOMAIN y /\ i > k /\ i \in Nat
  BY ConcatIndex
<1>2. \A i \in DOMAIN c : i \in DOMAIN x \/ \E j \in DOMAIN y : i = k + j
  <2> SUFFICES ASSUME NEW i \in DOMAIN c, i \notin DOMAIN x
               PROVE  \E j \in DOMAIN y : i = k + j
    OBVIOUS
  <2>1. i - k \in DOMAIN y /\ i \in Nat
    BY <1>1
  <2> QED BY <1>1, <2>1
<1> HIDE DEF c, k
<1>3. /\ \A n : n \in IdsOf(<<x>>, from, g) <=> \E i \in DOMAIN x : O(x[i]) /\ x[i].id = n
      /\ \A n : n \in IdsOf(<<y>>, from, g) <=> \E i \in DOMAIN y : O(y[i]) /\ y[i].id = n
      /\ \A n : n \in IdsOf(<<c>>, from, g) <=> \E i \in DOMAIN c : O(c[i]) /\ c[i].id = n
  <2>1. \A n : n \in IdsOf(<<x>>, from, g) <=> \E i \in DOMAIN x : O(x[i]) /\ x[i].id = n
    BY Single
  <2>2. \A n : n \in IdsOf(<<y>>, from, g) <=> \E i \in DOMAIN y : O(y[i]) /\ y[i].id = n
    BY Single
  <2>3. \A n : n \in IdsOf(<<c>>, from, g) <=> \E i \in DOMAIN c : O(c[i]) /\ c[i].id = n
    BY <1>1, Single
  <2> QED BY <2>1, <2>2, <2>3
<1>4. /\ Rising(<<x>>, from, g) <=> \A i, j \in DOMAIN x :
             i < j /\ O(x[i]) /\ O(x[j]) => x[i].id < x[j].id
      /\ Rising(<<y>>, from, g) <=> \A i, j \in DOMAIN y :
             i < j /\ O(y[i]) /\ O(y[j]) => y[i].id < y[j].id
      /\ Rising(<<c>>, from, g) <=> \A i, j \in DOMAIN c :
             i < j /\ O(c[i]) /\ O(c[j]) => c[i].id < c[j].id
  BY <1>1, Single
<1> HIDE DEF O
<1>5. IdsOf(<<c>>, from, g) = IdsOf(<<x>>, from, g) \cup IdsOf(<<y>>, from, g)
  <2> DEFINE X == IdsOf(<<x>>, from, g)
             Y == IdsOf(<<y>>, from, g)
             C == IdsOf(<<c>>, from, g)
  <2>1. /\ \A n : n \in X <=> \E i \in DOMAIN x : O(x[i]) /\ x[i].id = n
        /\ \A n : n \in Y <=> \E i \in DOMAIN y : O(y[i]) /\ y[i].id = n
        /\ \A n : n \in C <=> \E i \in DOMAIN c : O(c[i]) /\ c[i].id = n
    BY <1>3
  <2> HIDE DEF X, Y, C
  <2>2. ASSUME NEW n \in C
        PROVE  n \in X \cup Y
    <3>1. PICK i \in DOMAIN c : O(c[i]) /\ c[i].id = n
      BY <2>1
    <3>2. CASE i \in DOMAIN x
      <4>1. c[i] = x[i]
        BY <1>1, <3>2
      <4> QED BY <2>1, <3>1, <3>2, <4>1
    <3>3. CASE \E j \in DOMAIN y : i = k + j
      <4>1. PICK j \in DOMAIN y : c[i] = y[j]
        BY <1>1, <3>3
      <4> QED BY <2>1, <3>1, <4>1
    <3> QED BY <1>2, <3>2, <3>3
  <2>3. ASSUME NEW n \in X
        PROVE  n \in C
    BY <1>1, <2>1
  <2>4. ASSUME NEW n \in Y
        PROVE  n \in C
    <3>1. PICK j \in DOMAIN y : O(y[j]) /\ y[j].id = n
      BY <2>1
    <3>2. k + j \in DOMAIN c /\ c[k + j] = y[j]
      BY <1>1
    <3> QED BY <2>1, <3>1, <3>2
  <2>5. C = X \cup Y
    BY <2>2, <2>3, <2>4
  <2> QED BY <2>5 DEF X, Y, C
<1>6. ASSUME Rising(<<c>>, from, g)
      PROVE  /\ Rising(<<x>>, from, g) /\ Rising(<<y>>, from, g)
             /\ Less(IdsOf(<<x>>, from, g), IdsOf(<<y>>, from, g))
  <2>1. Rising(<<x>>, from, g)
    BY <1>1, <1>4, <1>6
  <2>2. ASSUME NEW i \in DOMAIN y, NEW j \in DOMAIN y, i < j, O(y[i]), O(y[j])
        PROVE  y[i].id < y[j].id
    <3>1. k + i \in DOMAIN c /\ k + j \in DOMAIN c /\ k + i < k + j
      BY <1>1, <2>2
    <3> QED BY <1>1, <1>4, <1>6, <2>2, <3>1
  <2>3. ASSUME NEW i \in DOMAIN x, NEW j \in DOMAIN y, O(x[i]), O(y[j])
        PROVE  x[i].id < y[j].id
    <3>1. i \in DOMAIN c /\ k + j \in DOMAIN c /\ i < k + j
      BY <1>1
    <3> QED BY <1>1, <1>4, <1>6, <2>3, <3>1
  <2>4. Rising(<<y>>, from, g)
    BY <1>4, <2>2
  <2>5. ASSUME NEW p \in IdsOf(<<x>>, from, g), NEW q \in IdsOf(<<y>>, from, g)
        PROVE  p < q
    <3>1. PICK i \in DOMAIN x : O(x[i]) /\ x[i].id = p
      BY <1>3
    <3>2. PICK j \in DOMAIN y : O(y[j]) /\ y[j].id = q
      BY <1>3
    <3> QED BY <2>3, <3>1, <3>2
  <2> QED BY <2>1, <2>4, <2>5 DEF Less
<1>7. ASSUME Rising(<<x>>, from, g), Rising(<<y>>, from, g),
             Less(IdsOf(<<x>>, from, g), IdsOf(<<y>>, from, g))
      PROVE  Rising(<<c>>, from, g)
  <2> SUFFICES ASSUME NEW i \in DOMAIN c, NEW j \in DOMAIN c, i < j, O(c[i]), O(c[j])
               PROVE  c[i].id < c[j].id
    BY <1>4
  <2>1. CASE i \in DOMAIN x /\ j \in DOMAIN x
    BY <1>1, <1>4, <1>7, <2>1
  <2>2. CASE i \in DOMAIN x /\ \E l \in DOMAIN y : j = k + l
    <3>1. PICK l \in DOMAIN y : j = k + l
      BY <2>2
    <3>2. c[i] = x[i] /\ c[j] = y[l]
      BY <1>1, <2>2, <3>1
    <3>3. x[i].id \in IdsOf(<<x>>, from, g) /\ y[l].id \in IdsOf(<<y>>, from, g)
      BY <1>3, <2>2, <3>2
    <3> QED BY <1>7, <3>2, <3>3 DEF Less
  <2>3. CASE (\E l \in DOMAIN y : i = k + l) /\ j \in DOMAIN x
    BY <1>1, <2>3
  <2>4. CASE (\E l \in DOMAIN y : i = k + l) /\ \E l \in DOMAIN y : j = k + l
    <3>1. PICK p \in DOMAIN y : i = k + p
      BY <2>4
    <3>2. PICK q \in DOMAIN y : j = k + q
      BY <2>4
    <3>3. c[i] = y[p] /\ c[j] = y[q] /\ p < q
      BY <1>1, <3>1, <3>2
    <3> QED BY <1>4, <1>7, <3>3
  <2> QED BY <1>2, <2>1, <2>2, <2>3, <2>4
<1> QED BY <1>5, <1>6, <1>7 DEF c

\* The batches of a shortened and of an extended channel.
LEMMA LoadBatches ==
    ASSUME NEW q \in Seq(Commands)
    PROVE  /\ Load(q) \in Batches /\ DOMAIN Load(q) = DOMAIN q
           /\ Len(Load(q)) = Len(q)
           /\ \A i \in DOMAIN q : Load(q)[i] = Carried(q[i])
           /\ Load(<<>>) = <<>>
<1>1. \A c \in Commands : Carried(c) \in Seq(Line)
  <2> SUFFICES ASSUME NEW c \in Commands
               PROVE  Carried(c) \in Seq(Line)
    OBVIOUS
  <2>1. <<>> \in Seq(Line)
    OBVIOUS
  <2> QED BY <2>1, CommandFields DEF Carried
<1>2. DOMAIN q = 1 .. Len(q) /\ Len(q) \in Nat /\ \A i \in 1 .. Len(q) : q[i] \in Commands
  BY ElementOfSeq
<1>3. \A i \in 1 .. Len(q) : Carried(q[i]) \in Seq(Line)
  BY <1>1, <1>2
<1>4. [i \in 1 .. Len(q) |-> Carried(q[i])] \in Seq(Seq(Line))
  BY <1>2, <1>3, IsASeq
<1> QED BY <1>2, <1>4 DEF Load, Batches

LEMMA CarriedLines ==
    ASSUME NEW c \in Commands
    PROVE  /\ Carried(c) \in Seq(Line)
           /\ c.k \notin {"Cont", "Pong"} => Carried(c) = <<>>
           /\ c.k \in {"Cont", "Pong"} => Carried(c) = c.lines
BY CommandFields DEF Carried

LEMMA LoadTail ==
    ASSUME NEW q \in Seq(Commands), q # <<>>
    PROVE  Load(q) = <<Carried(Head(q))>> \o Load(Tail(q))
<1> DEFINE h == <<Carried(Head(q))>>
           t == Load(Tail(q))
<1>1. /\ Head(q) \in Commands /\ Tail(q) \in Seq(Commands) /\ Len(q) \in Nat \ {0}
      /\ Len(Tail(q)) = Len(q) - 1
      /\ \A i \in 1 .. Len(Tail(q)) : Tail(q)[i] = q[i + 1]
      /\ q[1] = Head(q) /\ DOMAIN q = 1 .. Len(q)
  BY HeadTailProperties, EmptySeq
<1>2. /\ t \in Batches /\ DOMAIN t = 1 .. Len(q) - 1 /\ Len(t) = Len(q) - 1
      /\ \A i \in 1 .. Len(q) - 1 : t[i] = Carried(q[i + 1])
  <2>1. t \in Batches /\ DOMAIN t = DOMAIN Tail(q)
        /\ \A i \in DOMAIN Tail(q) : t[i] = Carried(Tail(q)[i])
    BY <1>1, LoadBatches
  <2>2. DOMAIN Tail(q) = 1 .. Len(q) - 1
    BY <1>1
  <2>3. Len(t) = Len(q) - 1
    BY <1>1, LoadBatches
  <2> QED BY <1>1, <2>1, <2>2, <2>3
<1>3. /\ h \in Batches /\ Len(h) = 1 /\ h[1] = Carried(Head(q))
  BY <1>1, CarriedLines DEF Batches
<1>4. /\ Load(q) \in Batches /\ DOMAIN Load(q) = 1 .. Len(q) /\ Len(Load(q)) = Len(q)
      /\ \A i \in 1 .. Len(q) : Load(q)[i] = Carried(q[i])
  BY <1>1, LoadBatches DEF Batches
<1> HIDE DEF h, t
<1>5. /\ h \o t \in Batches /\ Len(h \o t) = Len(q)
      /\ \A i \in 1 .. Len(q) : (h \o t)[i] = IF i <= 1 THEN h[i] ELSE t[i - 1]
  <2>1. h \in Seq(Seq(Line)) /\ t \in Seq(Seq(Line)) /\ Len(h) + Len(t) = Len(q)
    BY <1>1, <1>2, <1>3 DEF Batches
  <2>2. /\ h \o t \in Seq(Seq(Line)) /\ Len(h \o t) = Len(h) + Len(t)
        /\ \A i \in 1 .. Len(h) + Len(t) :
             (h \o t)[i] = IF i <= Len(h) THEN h[i] ELSE t[i - Len(h)]
    BY <2>1, ConcatProperties
  <2> QED BY <1>3, <2>1, <2>2 DEF Batches
<1>6. \A i \in 1 .. Len(q) : (h \o t)[i] = Load(q)[i]
  BY <1>1, <1>2, <1>3, <1>4, <1>5
<1>7. h \o t = Load(q)
  <2>1. h \o t \in Seq(Seq(Line)) /\ Load(q) \in Seq(Seq(Line)) /\ Len(h \o t) = Len(Load(q))
    BY <1>4, <1>5 DEF Batches
  <2> QED BY <1>4, <1>6, <2>1, SeqEqual
<1> QED BY <1>7 DEF h, t

LEMMA LoadAppend ==
    ASSUME NEW q \in Seq(Commands), NEW c \in Commands
    PROVE  Load(Append(q, c)) = Load(q) \o <<Carried(c)>>
<1> DEFINE a == Load(q)
           b == <<Carried(c)>>
           n == Len(q)
<1>1. /\ Append(q, c) \in Seq(Commands) /\ n \in Nat /\ DOMAIN q = 1 .. n
      /\ DOMAIN Append(q, c) = 1 .. n + 1
      /\ \A i \in 1 .. n : Append(q, c)[i] = q[i]
      /\ Append(q, c)[n + 1] = c
  BY AppendProperties
<1>2. /\ a \in Batches /\ Len(a) = n /\ \A i \in 1 .. n : a[i] = Carried(q[i])
  BY <1>1, LoadBatches DEF Batches
<1>3. b \in Batches /\ Len(b) = 1 /\ b[1] = Carried(c)
  BY CarriedLines DEF Batches
<1>4. /\ Load(Append(q, c)) \in Batches /\ Len(Load(Append(q, c))) = n + 1
      /\ \A i \in 1 .. n + 1 : Load(Append(q, c))[i] = Carried(Append(q, c)[i])
  <2>1. /\ Load(Append(q, c)) \in Batches
        /\ DOMAIN Load(Append(q, c)) = DOMAIN Append(q, c)
        /\ \A i \in DOMAIN Append(q, c) : Load(Append(q, c))[i] = Carried(Append(q, c)[i])
    BY <1>1, LoadBatches
  <2> QED BY <1>1, <2>1, SMTT(30) DEF Batches
<1> HIDE DEF a, b, n
<1>5. /\ a \o b \in Batches /\ Len(a \o b) = n + 1
      /\ \A i \in 1 .. n + 1 : (a \o b)[i] = IF i <= n THEN a[i] ELSE b[i - n]
  <2>1. a \in Seq(Seq(Line)) /\ b \in Seq(Seq(Line)) /\ Len(a) + Len(b) = n + 1
    BY <1>1, <1>2, <1>3 DEF Batches
  <2>2. /\ a \o b \in Seq(Seq(Line)) /\ Len(a \o b) = Len(a) + Len(b)
        /\ \A i \in 1 .. Len(a) + Len(b) :
             (a \o b)[i] = IF i <= Len(a) THEN a[i] ELSE b[i - Len(a)]
    BY <2>1, ConcatProperties
  <2> QED BY <1>2, <2>1, <2>2 DEF Batches
<1>6. \A i \in 1 .. n + 1 : (a \o b)[i] = Load(Append(q, c))[i]
  BY <1>1, <1>2, <1>3, <1>4, <1>5
<1>7. a \o b = Load(Append(q, c))
  BY <1>4, <1>5, <1>6, SeqEqual DEF Batches
<1> QED BY <1>7 DEF a, b

\* The identities a channel carries are those of its commands.
LEMMA LoadIds ==
    ASSUME NEW q \in Seq(Commands), NEW from, NEW g, NEW n
    PROVE  n \in IdsOf(Load(q), from, g)
             <=> \E i \in DOMAIN q : n \in IdsOf(<<Carried(q[i])>>, from, g)
<1>1. /\ Load(q) \in Batches /\ DOMAIN Load(q) = DOMAIN q
      /\ \A i \in DOMAIN q : Load(q)[i] = Carried(q[i]) /\ Carried(q[i]) \in Seq(Line)
  <2>1. \A i \in DOMAIN q : q[i] \in Commands
    <3>1. DOMAIN q = 1 .. Len(q)
      OBVIOUS
    <3> QED BY <3>1, ElementOfSeq
  <2> QED BY <2>1, LoadBatches, CarriedLines
<1>2. ASSUME NEW i \in DOMAIN q
      PROVE  n \in IdsOf(<<Carried(q[i])>>, from, g)
               <=> \E m \in DOMAIN Carried(q[i]) :
                     Of(Carried(q[i])[m], from, g) /\ Carried(q[i])[m].id = n
  BY <1>1, Single
<1>3. n \in IdsOf(Load(q), from, g) =>
        \E i \in DOMAIN q : n \in IdsOf(<<Carried(q[i])>>, from, g)
  <2> SUFFICES ASSUME n \in IdsOf(Load(q), from, g)
               PROVE  \E i \in DOMAIN q : n \in IdsOf(<<Carried(q[i])>>, from, g)
    OBVIOUS
  <2>1. PICK i \in DOMAIN Load(q) : \E m \in DOMAIN Load(q)[i] :
            Of(Load(q)[i][m], from, g) /\ Load(q)[i][m].id = n
    BY DEF IdsOf
  <2>2. i \in DOMAIN q /\ Load(q)[i] = Carried(q[i])
    BY <1>1
  <2> QED BY <1>2, <2>1, <2>2
<1>4. ASSUME NEW i \in DOMAIN q, n \in IdsOf(<<Carried(q[i])>>, from, g)
      PROVE  n \in IdsOf(Load(q), from, g)
  <2>1. PICK m \in DOMAIN Carried(q[i]) :
            Of(Carried(q[i])[m], from, g) /\ Carried(q[i])[m].id = n
    BY <1>2, <1>4
  <2> QED BY <1>1, <2>1, IdMember
<1> QED BY <1>3, <1>4

-----------------------------------------------------------------------------
(* Whose lines wait in cmd *)

\* A deferred actor that its Begin will still start.
Deferring ==
    pc = "deferred" /\ (~ui.begun \/ \E i \in DOMAIN cmd : cmd[i].k = "Begin")

\* The generation whose lines are on their way to a socket of its own.
Carries(g) == InPlay(g) \/ (Deferring /\ ~s.none /\ g = s.gen)

\* A command submitted before Begin, its place in q being i.
Unbegun(q, begun, i) == ~begun /\ \A j \in DOMAIN q : j < i => q[j].k # "Begin"

\* Behind each command that steers, and in front of i, lies one that set the
\* course to h: the last one did.
SetBy(q, h, i) ==
    \A j \in DOMAIN q : j < i /\ Steers(q[j]) =>
        \E m \in DOMAIN q : j <= m /\ m < i /\ Steers(q[m]) /\ Target(q[m]) = h

Unsteered(q, i) == \A j \in DOMAIN q : j < i => ~Steers(q[j])

\* A line in q is of the generation the last steering command in front of it
\* set, of one of `heads` when there is none, and of no generation when it
\* was submitted before Begin.
OwnedIn(q, begun, heads) ==
    \A i \in DOMAIN q : q[i].k = "Cont" =>
        \A n \in DOMAIN q[i].lines :
            IF Unbegun(q, begun, i) THEN q[i].lines[n].gen = 0
            ELSE /\ SetBy(q, q[i].lines[n].gen, i)
                 /\ Unsteered(q, i) => q[i].lines[n].gen \in heads

Heads == {g \in Gens : \A h \in Gens : Carries(h) => h = g}

Owned == OwnedIn(cmd, ~Deferring, Heads)

\* What the UI wants is what the last steering command set.
Pointed == SetBy(cmd, ui.want, Len(cmd) + 1)

\* Lines are older than the Dials behind them.
Older ==
    /\ \A i \in DOMAIN cmd : cmd[i].k = "Cont" =>
         \A n \in DOMAIN cmd[i].lines :
            /\ cmd[i].lines[n].gen <= ui.gen
            /\ \A j \in DOMAIN cmd : i < j /\ cmd[j].k = "Dial" =>
                 cmd[i].lines[n].gen < cmd[j].gen
    /\ \A g \in Gens : g > ui.gen => ui.typed[g] = 0
    /\ ui.want <= ui.gen

Steady == w.sock /\ Quiet(cmd) => ui.want = w.gen

\* What a setup keeps is of the generation it works towards.
KeptOwn ==
    (pc \in Setting /\ ~Cancelled(s)) \/ pc = "replay" =>
        \A i \in DOMAIN s.kept : s.kept[i].k = "Cont" =>
            \A n \in DOMAIN s.kept[i].lines : s.kept[i].lines[n].gen = KeptFor

OwnInv == Owned /\ Pointed /\ Older /\ Steady /\ KeptOwn

LEMMA SetByTail ==
    ASSUME NEW q \in Seq(Commands), q # <<>>, NEW h, NEW i \in Nat, SetBy(q, h, i + 1)
    PROVE  /\ SetBy(Tail(q), h, i)
           /\ Steers(Head(q)) /\ Unsteered(Tail(q), i) /\ i > 0 => Target(Head(q)) = h
<1> DEFINE t == Tail(q)
<1>1. /\ \A j \in DOMAIN t : j \in Nat /\ j + 1 \in DOMAIN q /\ t[j] = q[j + 1] /\ j >= 1
      /\ \A j \in DOMAIN q :
           /\ j \in Nat /\ j >= 1
           /\ j = 1 \/ (j - 1 \in DOMAIN t /\ t[j - 1] = q[j])
      /\ 1 \in DOMAIN q /\ q[1] = Head(q)
  <2>1. DOMAIN q = 1 .. Len(q) /\ DOMAIN t = 1 .. Len(t)
    BY HeadTailProperties
  <2> QED BY <2>1, TailIndex
<1> HIDE DEF t
<1>2. SetBy(t, h, i)
  <2> SUFFICES ASSUME NEW j \in DOMAIN t, j < i, Steers(t[j])
               PROVE  \E m \in DOMAIN t : j <= m /\ m < i /\ Steers(t[m]) /\ Target(t[m]) = h
    BY DEF SetBy
  <2>1. PICK m \in DOMAIN q : j + 1 <= m /\ m < i + 1 /\ Steers(q[m]) /\ Target(q[m]) = h
    BY <1>1 DEF SetBy
  <2>2. m - 1 \in DOMAIN t /\ t[m - 1] = q[m] /\ j <= m - 1 /\ m - 1 < i
    BY <1>1, <2>1
  <2> QED BY <2>1, <2>2
<1>3. ASSUME Steers(Head(q)), Unsteered(t, i), i > 0
      PROVE  Target(Head(q)) = h
  <2>1. PICK m \in DOMAIN q : m < i + 1 /\ Steers(q[m]) /\ Target(q[m]) = h
    BY <1>1, <1>3 DEF SetBy
  <2>2. m = 1
    BY <1>1, <1>3, <2>1 DEF Unsteered
  <2> QED BY <1>1, <2>1, <2>2
<1> QED BY <1>2, <1>3 DEF t

LEMMA UnsteeredTail ==
    ASSUME NEW q \in Seq(Commands), q # <<>>, NEW i \in Nat,
           ~Steers(Head(q)), Unsteered(Tail(q), i)
    PROVE  Unsteered(q, i + 1)
<1> SUFFICES ASSUME NEW j \in DOMAIN q, j < i + 1
             PROVE  ~Steers(q[j])
  BY DEF Unsteered
<1>1. CASE j = 1 /\ q[j] = Head(q)
  BY <1>1
<1>2. CASE j - 1 \in DOMAIN Tail(q) /\ Tail(q)[j - 1] = q[j]
  <2>1. j \in Nat
    BY TailIndex
  <2> QED BY <1>2, <2>1 DEF Unsteered
<1> QED BY <1>1, <1>2, TailIndex

LEMMA UnbegunTail ==
    ASSUME NEW q \in Seq(Commands), q # <<>>, NEW i \in Nat \ {0}, NEW b \in BOOLEAN
    PROVE  /\ Unbegun(q, b, i + 1) => Head(q).k # "Begin" /\ Unbegun(Tail(q), b, i)
           /\ Head(q).k # "Begin" /\ Unbegun(Tail(q), b, i) => Unbegun(q, b, i + 1)
<1> DEFINE t == Tail(q)
<1>1. /\ \A j \in DOMAIN t : j \in Nat /\ j + 1 \in DOMAIN q /\ t[j] = q[j + 1]
      /\ \A j \in DOMAIN q : /\ j \in Nat
                             /\ \/ j = 1 /\ q[j] = Head(q)
                                \/ j - 1 \in DOMAIN t /\ t[j - 1] = q[j]
      /\ 1 \in DOMAIN q /\ q[1] = Head(q)
  BY TailIndex
<1> HIDE DEF t
<1>2. ASSUME Unbegun(q, b, i + 1)
      PROVE  Head(q).k # "Begin" /\ Unbegun(t, b, i)
  BY <1>1, <1>2 DEF Unbegun
<1>3. ASSUME Head(q).k # "Begin", Unbegun(t, b, i)
      PROVE  Unbegun(q, b, i + 1)
  <2> SUFFICES ASSUME NEW j \in DOMAIN q, j < i + 1
               PROVE  q[j].k # "Begin"
    BY <1>3 DEF Unbegun
  <2>1. CASE j = 1 /\ q[j] = Head(q)
    BY <1>3, <2>1
  <2>2. CASE j - 1 \in DOMAIN t /\ t[j - 1] = q[j]
    <3>1. j - 1 < i
      BY <1>1
    <3> QED BY <1>3, <2>2, <3>1 DEF Unbegun
  <2> QED BY <1>1, <2>1, <2>2
<1> QED BY <1>2, <1>3 DEF t

\* The front of a channel is taken: what it steered to is the head's.
LEMMA OwnedTail ==
    ASSUME NEW q \in Seq(Commands), q # <<>>, NEW b \in BOOLEAN, NEW b2 \in BOOLEAN,
           NEW heads, NEW heads2, OwnedIn(q, b, heads),
           IF Head(q).k = "Begin" THEN b2 ELSE b2 = b,
           IF Steers(Head(q)) THEN Target(Head(q)) \in heads2 ELSE heads \subseteq heads2
    PROVE  OwnedIn(Tail(q), b2, heads2)
<1> SUFFICES ASSUME NEW i \in DOMAIN Tail(q), Tail(q)[i].k = "Cont",
                    NEW n \in DOMAIN Tail(q)[i].lines
             PROVE  IF Unbegun(Tail(q), b2, i) THEN Tail(q)[i].lines[n].gen = 0
                    ELSE /\ SetBy(Tail(q), Tail(q)[i].lines[n].gen, i)
                         /\ Unsteered(Tail(q), i) => Tail(q)[i].lines[n].gen \in heads2
  BY DEF OwnedIn
<1>1. i + 1 \in DOMAIN q /\ Tail(q)[i] = q[i + 1] /\ i \in Nat \ {0}
  <2>1. DOMAIN Tail(q) = 1 .. Len(Tail(q))
    BY HeadTailProperties
  <2> QED BY <2>1, TailIndex
<1> DEFINE h == q[i + 1].lines[n].gen
<1>2. IF Unbegun(q, b, i + 1) THEN h = 0
      ELSE SetBy(q, h, i + 1) /\ (Unsteered(q, i + 1) => h \in heads)
  BY <1>1 DEF OwnedIn
<1> HIDE DEF h
<1>3. CASE Unbegun(Tail(q), b2, i)
  <2>1. Head(q).k # "Begin" /\ b2 = b
    BY <1>3 DEF Unbegun
  <2>2. Unbegun(q, b, i + 1)
    BY <1>1, <1>3, <2>1, UnbegunTail
  <2> QED BY <1>1, <1>2, <1>3, <2>2 DEF h
<1>4. CASE ~Unbegun(Tail(q), b2, i)
  <2>1. ~Unbegun(q, b, i + 1)
    BY <1>1, <1>4, UnbegunTail
  <2>2. SetBy(q, h, i + 1) /\ (Unsteered(q, i + 1) => h \in heads)
    BY <1>2, <2>1
  <2>3. SetBy(Tail(q), h, i)
    BY <1>1, <2>2, SetByTail
  <2>4. Unsteered(Tail(q), i) => h \in heads2
    <3>1. CASE Steers(Head(q))
      <4>1. Unsteered(Tail(q), i) /\ i > 0 => Target(Head(q)) = h
        BY <1>1, <2>2, <3>1, SetByTail
      <4> QED BY <1>1, <3>1, <4>1
    <3>2. CASE ~Steers(Head(q))
      BY <1>1, <2>2, <3>2, UnsteeredTail
    <3> QED BY <3>1, <3>2
  <2> QED BY <1>1, <1>4, <2>3, <2>4 DEF h
<1> QED BY <1>3, <1>4

\* One more command; a Cont is of generation 0 before Begin, and of the
\* generation the last steering command set, or of one of heads.
LEMMA AppendOwned ==
    ASSUME NEW q \in Seq(Commands), NEW c \in Commands, NEW b \in BOOLEAN,
           NEW heads, OwnedIn(q, b, heads),
           c.k = "Cont" => \A n \in DOMAIN c.lines :
               IF ~b /\ (\A j \in DOMAIN q : q[j].k # "Begin") THEN c.lines[n].gen = 0
               ELSE /\ SetBy(q, c.lines[n].gen, Len(q) + 1)
                    /\ Quiet(q) => c.lines[n].gen \in heads
    PROVE  OwnedIn(Append(q, c), b, heads)
<1> DEFINE a == Append(q, c)
           k == Len(q) + 1
<1>1. /\ \A i \in DOMAIN q : i \in DOMAIN a /\ a[i] = q[i] /\ i < k /\ i \in Nat
      /\ \A i \in DOMAIN a : (i \in DOMAIN q /\ a[i] = q[i]) \/ (i = k /\ a[i] = c)
      /\ k \in Nat
  BY AppendProperties, AppendIndex
<1> HIDE DEF a, k
<1>2. \A i \in DOMAIN q : \A h :
        /\ Unbegun(a, b, i) <=> Unbegun(q, b, i)
        /\ SetBy(q, h, i) => SetBy(a, h, i)
        /\ Unsteered(a, i) => Unsteered(q, i)
  <2> SUFFICES ASSUME NEW i \in DOMAIN q, NEW h
               PROVE  /\ Unbegun(a, b, i) <=> Unbegun(q, b, i)
                      /\ SetBy(q, h, i) => SetBy(a, h, i)
                      /\ Unsteered(a, i) => Unsteered(q, i)
    OBVIOUS
  <2>1. Unbegun(a, b, i) <=> Unbegun(q, b, i)
    BY <1>1 DEF Unbegun
  <2>2. SetBy(q, h, i) => SetBy(a, h, i)
    BY <1>1 DEF SetBy
  <2>3. Unsteered(a, i) => Unsteered(q, i)
    BY <1>1 DEF Unsteered
  <2> QED BY <2>1, <2>2, <2>3
<1>3. /\ Unbegun(a, b, k) <=> ~b /\ \A j \in DOMAIN q : q[j].k # "Begin"
      /\ \A h : SetBy(q, h, k) => SetBy(a, h, k)
      /\ Unsteered(a, k) => Quiet(q)
  <2>1. Unbegun(a, b, k) <=> ~b /\ \A j \in DOMAIN q : q[j].k # "Begin"
    BY <1>1 DEF Unbegun
  <2>2. \A h : SetBy(q, h, k) => SetBy(a, h, k)
    BY <1>1 DEF SetBy
  <2>3. Unsteered(a, k) => Quiet(q)
    BY <1>1 DEF Unsteered, Quiet
  <2> QED BY <2>1, <2>2, <2>3
<1>4. ASSUME NEW i \in DOMAIN a, a[i].k = "Cont", NEW n \in DOMAIN a[i].lines
      PROVE  IF Unbegun(a, b, i) THEN a[i].lines[n].gen = 0
             ELSE /\ SetBy(a, a[i].lines[n].gen, i)
                  /\ Unsteered(a, i) => a[i].lines[n].gen \in heads
  <2> DEFINE h == a[i].lines[n].gen
  <2>1. CASE i \in DOMAIN q /\ a[i] = q[i]
    <3>1. IF Unbegun(q, b, i) THEN h = 0
          ELSE SetBy(q, h, i) /\ (Unsteered(q, i) => h \in heads)
      BY <1>4, <2>1 DEF OwnedIn
    <3> HIDE DEF h
    <3>2. IF Unbegun(a, b, i) THEN h = 0
          ELSE SetBy(a, h, i) /\ (Unsteered(a, i) => h \in heads)
      BY <1>2, <2>1, <3>1
    <3> QED BY <3>2 DEF h
  <2>2. CASE i = k /\ a[i] = c
    <3>1. IF ~b /\ (\A j \in DOMAIN q : q[j].k # "Begin") THEN h = 0
          ELSE SetBy(q, h, k) /\ (Quiet(q) => h \in heads)
      BY <1>4, <2>2 DEF k
    <3> HIDE DEF h
    <3>2. IF Unbegun(a, b, i) THEN h = 0
          ELSE SetBy(a, h, i) /\ (Unsteered(a, i) => h \in heads)
      BY <1>3, <2>2, <3>1
    <3> QED BY <3>2 DEF h
  <2> QED BY <1>1, <2>1, <2>2
<1> QED BY <1>4 DEF OwnedIn, a

LEMMA OwnedWidens ==
    ASSUME NEW q, NEW b, NEW heads, NEW heads2, OwnedIn(q, b, heads), heads \subseteq heads2
    PROVE  OwnedIn(q, b, heads2)
BY DEF OwnedIn

\* The course after one more command.
LEMMA SetByAppend ==
    ASSUME NEW q \in Seq(Commands), NEW c \in Commands, NEW h
    PROVE  /\ Steers(c) => SetBy(Append(q, c), Target(c), Len(Append(q, c)) + 1)
           /\ ~Steers(c) /\ SetBy(q, h, Len(q) + 1)
                => SetBy(Append(q, c), h, Len(Append(q, c)) + 1)
<1> DEFINE a == Append(q, c)
           k == Len(q) + 1
<1>1. /\ \A i \in DOMAIN q : i \in DOMAIN a /\ a[i] = q[i] /\ i < k /\ i \in Nat
      /\ \A i \in DOMAIN a : (i \in DOMAIN q /\ a[i] = q[i]) \/ (i = k /\ a[i] = c)
      /\ k \in Nat /\ k \in DOMAIN a /\ a[k] = c /\ Len(a) = k
  BY AppendProperties, AppendIndex
<1> HIDE DEF a, k
<1>2. Steers(c) => SetBy(a, Target(c), k + 1)
  BY <1>1 DEF SetBy
<1>3. ASSUME ~Steers(c), SetBy(q, h, k)
      PROVE  SetBy(a, h, k + 1)
  <2> SUFFICES ASSUME NEW j \in DOMAIN a, Steers(a[j])
               PROVE  \E m \in DOMAIN a : j <= m /\ m < k + 1 /\ Steers(a[m]) /\ Target(a[m]) = h
    BY DEF SetBy
  <2>1. j \in DOMAIN q /\ Steers(q[j]) /\ j < k
    BY <1>1, <1>3
  <2>2. PICK m \in DOMAIN q : j <= m /\ m < k /\ Steers(q[m]) /\ Target(q[m]) = h
    BY <1>3, <2>1 DEF SetBy
  <2> QED BY <1>1, <2>2
<1> QED BY <1>1, <1>2, <1>3 DEF a, k

-----------------------------------------------------------------------------
(* Which generation is in play, step by step *)

LEMMA HeadsWiden ==
    ASSUME \A h \in Gens : Carries(h)' => Carries(h)
    PROVE  Heads \subseteq Heads'
BY DEF Heads

LEMMA HeadsSole ==
    ASSUME NEW d \in Gens, \A h \in Gens : Carries(h)' => h = d
    PROVE  d \in Heads'
BY DEF Heads

\* Whether a deferred actor will be started is changed by its Begin only.
LEMMA DeferKept ==
    ASSUME TypeInv, BeginOnce, cmd # <<>>, cmd' = Tail(cmd), UNCHANGED ui,
           pc = "deferred", pc' = "deferred"
    PROVE  /\ Head(cmd).k # "Begin" => (Deferring' <=> Deferring)
           /\ Head(cmd).k = "Begin" => ~Deferring' /\ Deferring
<1>1. cmd \in Seq(Commands)
  BY StateTyped
<1>2. /\ \A i \in DOMAIN cmd' : i + 1 \in DOMAIN cmd /\ cmd'[i] = cmd[i + 1] /\ i \in Nat
      /\ \A i \in DOMAIN cmd : /\ \/ i = 1 /\ cmd[i] = Head(cmd)
                                  \/ i - 1 \in DOMAIN cmd' /\ cmd'[i - 1] = cmd[i]
                               /\ i \in Nat
      /\ 1 \in DOMAIN cmd /\ cmd[1] = Head(cmd)
      /\ \A i \in DOMAIN cmd' : i > 0
  <2>1. DOMAIN Tail(cmd) = 1 .. Len(Tail(cmd))
    BY <1>1, HeadTailProperties
  <2> QED BY <1>1, <2>1, TailIndex
<1>3. ASSUME Head(cmd).k # "Begin"
      PROVE  (\E i \in DOMAIN cmd' : cmd'[i].k = "Begin")
               <=> \E i \in DOMAIN cmd : cmd[i].k = "Begin"
  <2>1. ASSUME NEW i \in DOMAIN cmd', cmd'[i].k = "Begin"
        PROVE  \E j \in DOMAIN cmd : cmd[j].k = "Begin"
    BY <1>2, <2>1
  <2>2. ASSUME NEW i \in DOMAIN cmd, cmd[i].k = "Begin"
        PROVE  \E j \in DOMAIN cmd' : cmd'[j].k = "Begin"
    BY <1>2, <1>3, <2>2
  <2> QED BY <2>1, <2>2
<1>4. ASSUME Head(cmd).k = "Begin"
      PROVE  ~Deferring' /\ Deferring
  <2>1. ui.begun
    BY <1>2, <1>4 DEF BeginOnce
  <2>2. ASSUME NEW i \in DOMAIN cmd', cmd'[i].k = "Begin"
        PROVE  FALSE
    <3>1. i + 1 \in DOMAIN cmd /\ cmd[i + 1].k = "Begin" /\ i + 1 # 1
      BY <1>2, <2>2
    <3> QED BY <1>2, <1>4, <3>1 DEF BeginOnce
  <2> QED BY <1>2, <1>4, <2>1, <2>2 DEF Deferring
<1> QED BY <1>3, <1>4 DEF Deferring

LEMMA CarriesStays ==
    ASSUME TypeInv, ShapeInv, Stays, NEW g \in Gens, Carries(g)'
    PROVE  Carries(g)
<1>1. UNCHANGED <<w, cmd, cmdOpen, ui>>
  BY DEF Stays
<1>2. CASE UNCHANGED <<pc, s>>
  BY <1>1, <1>2 DEF Carries, InPlay, Deferring, KeptFor, Cancelled
<1>3. CASE /\ pc \in Setting /\ pc' \in Setting /\ s'.gen # 0
           /\ s'.kept = s.kept /\ KeptFor' = KeptFor
           /\ Cancelled(s) => Cancelled(s')
  BY <1>1, <1>3 DEF Carries, InPlay, Deferring, Cancelled, Setting
<1>4. CASE pc \in {"eof", "done"} /\ pc' \in {"done", "stopped"} /\ s' = s
  BY <1>4 DEF Carries, InPlay, Deferring, Setting
<1> QED BY <1>2, <1>3, <1>4 DEF Stays

LEMMA CarriesDrained ==
    ASSUME TypeInv, ShapeInv, Drained, NEW g \in Gens, Carries(g)'
    PROVE  /\ ~Cancelled(s') /\ g = KeptFor' /\ Head(cmd).k \notin {"Drop", "Hangup"}
           /\ Head(cmd).k = "Dial" => g = Head(cmd).gen /\ s'.kept = <<>>
           /\ Head(cmd).k # "Dial" => ~Cancelled(s) /\ Carries(g) /\ g = KeptFor
           /\ Head(cmd).k \in {"Cont", "Pong"} => s'.kept = Append(s.kept, Head(cmd))
           /\ Head(cmd).k \in {"Pump", "Begin"} => s'.kept = s.kept
<1>1. s \in Setups /\ Head(cmd) \in Commands /\ s.dials \in Seq([gen : Gens, ep : Endpoints])
  BY StateTyped, TakenCmd DEF Drained
<1>2. pc \in Setting /\ pc' \in Setting
  BY DEF Drained, Setting
<1>3. ~Cancelled(s') /\ g = KeptFor'
  BY <1>2 DEF Carries, InPlay, Deferring, Setting, Cancelled
<1> DEFINE c == Head(cmd)
<1>4. CASE c.k \in {"Drop", "Hangup"}
  <2>1. Admit(s, c).dropped
    BY <1>1, <1>4 DEF Admit, Setups
  <2> QED BY <1>3, <2>1 DEF Drained, Cancelled
<1>5. CASE c.k = "Dial"
  <2>1. s'.kept = <<>> /\ s'.dials = Append(s.dials, [gen |-> c.gen, ep |-> c.ep])
    BY <1>1, <1>5 DEF Drained, Admit, Setups
  <2>2. /\ s'.dials # <<>> /\ s'.dials[Len(s'.dials)] = [gen |-> c.gen, ep |-> c.ep]
    <3>1. [gen |-> c.gen, ep |-> c.ep] \in [gen : Gens, ep : Endpoints]
      BY <1>1, <1>5, CommandFields
    <3> DEFINE S == [gen : Gens, ep : Endpoints]
               d == [gen |-> c.gen, ep |-> c.ep]
    <3>2. s.dials \in Seq(S) /\ d \in S
      BY <1>1, <3>1
    <3> HIDE DEF S, d
    <3>3. Append(s.dials, d) # <<>> /\ Append(s.dials, d)[Len(Append(s.dials, d))] = d
      BY <3>2, AppendProperties
    <3> QED BY <2>1, <3>3 DEF d
  <2>3. KeptFor' = c.gen
    BY <2>2 DEF KeptFor
  <2> QED BY <1>3, <1>5, <2>1, <2>3
<1>6. CASE c.k \in {"Cont", "Pong", "Pump", "Begin"}
  <2>1. /\ Admit(s, c).dials = s.dials /\ Admit(s, c).dropped = s.dropped
        /\ c.k \in {"Cont", "Pong"} => Admit(s, c).kept = Append(s.kept, c)
        /\ c.k \in {"Pump", "Begin"} => Admit(s, c).kept = s.kept
    BY <1>1, <1>6 DEF Admit, Setups
  <2>2. KeptFor' = KeptFor /\ ~Cancelled(s)
    BY <1>3, <2>1 DEF Drained, KeptFor, Cancelled
  <2>3. Carries(g)
    BY <1>2, <1>3, <2>2 DEF Carries, InPlay
  <2> QED BY <1>3, <1>6, <2>1, <2>2, <2>3 DEF Drained
<1> QED BY <1>1, <1>4, <1>5, <1>6, CommandFields

LEMMA CarriesRegister ==
    ASSUME TypeInv, WantInv, ShapeInv, Register, NEW g \in Gens
    PROVE  Carries(g)' <=> g = s.gen /\ Carries(g)
<1>1. /\ pc = "decide" /\ pc' = "replay" /\ ~Cancelled(s) /\ s.dials = <<>>
      /\ w'.sock /\ w'.gen = s.gen
  BY RegisterFacts
<1>2. Carries(g) <=> g = s.gen
  BY <1>1 DEF Carries, InPlay, Deferring, KeptFor, Setting
<1>3. Carries(g)' <=> g = s.gen
  BY <1>1 DEF Carries, InPlay, Deferring, Setting
<1> QED BY <1>2, <1>3

\* The writer with a socket carries its own generation.
LEMMA CarriesSock ==
    ASSUME TypeInv, ShapeInv, pc \in {"replay", "loop"}, NEW g \in Gens
    PROVE  Carries(g) <=> w.sock /\ g = w.gen
BY DEF Carries, InPlay, Deferring, Setting

LEMMA CarriesSends ==
    ASSUME TypeInv, ShapeInv, Sends, NEW g \in Gens, Carries(g)'
    PROVE  w'.sock /\ w.sock /\ g = w.gen /\ w'.gen = w.gen /\ Carries(g)
<1>1. PICK c, r : SendStep(c, r) /\ pc' \in {"replay", "loop"}
  BY DEF Sends
<1>2. w'.gen = w.gen /\ (w'.sock => w.sock)
  BY <1>1, SendFacts
<1>3. w'.sock /\ g = w'.gen
  BY <1>1 DEF Carries, InPlay, Deferring, Setting
<1>4. pc \in {"replay", "loop"}
  BY <1>1 DEF SendStep
<1> QED BY <1>2, <1>3, <1>4, CarriesSock

LEMMA CarriesCloses ==
    ASSUME TypeInv, DialInv, ShapeInv, Closes, NEW g \in Gens, Carries(g)'
    PROVE  /\ pc' = "dial" /\ cmd # <<>> /\ cmd' = Tail(cmd) /\ Head(cmd).k = "Dial"
           /\ g = Head(cmd).gen /\ s'.kept = <<>>
<1>1. PICK report, wire, how : Closing(report, wire, how)
  BY DEF Closes
<1>2. ~w'.sock /\ pc' \in {"loop", "dial", "eof"}
  BY <1>1, ClosingFacts DEF Closing
<1>3. pc' = "dial"
  BY <1>2 DEF Carries, InPlay, Deferring, Setting
<1>4. /\ cmd # <<>> /\ cmd' = Tail(cmd) /\ Head(cmd).k = "Dial"
      /\ s'.gen = Head(cmd).gen /\ s'.dials = <<>> /\ s'.kept = <<>>
  <2>1. cmd # <<>> /\ cmd' = Tail(cmd) /\ Head(cmd).k = "Dial"
    BY <1>1, <1>3 DEF Closing
  <2>2. s'.gen = Head(cmd).gen /\ s'.dials = <<>> /\ s'.kept = <<>>
    BY <1>1, <1>3, ClosingFacts
  <2> QED BY <2>1, <2>2
<1>5. g = s'.gen
  BY <1>2, <1>3, <1>4 DEF Carries, InPlay, Deferring, Setting, KeptFor
<1> QED BY <1>3, <1>4, <1>5

LEMMA CarriesLeaves ==
    ASSUME Leaves, NEW g \in Gens
    PROVE  ~Carries(g)'
BY DEF Leaves, Carries, InPlay, Deferring, Setting

\* The wait for Begin.
LEMMA CarriesDeferred ==
    ASSUME TypeInv, DialInv, ShapeInv, DeferredCommand, NEW g \in Gens, Carries(g)'
    PROVE  /\ Head(cmd).k \notin {"Drop", "Hangup"} /\ Deferring
           /\ Head(cmd).k = "Dial" => g = Head(cmd).gen
           /\ Head(cmd).k # "Dial" => ~s.none /\ g = s.gen /\ Carries(g)
           /\ Head(cmd).k # "Begin" => Deferring'
           /\ pc' \in {"deferred", "dial"} /\ s'.kept = <<>>
<1> DEFINE c == Head(cmd)
<1>1. /\ pc = "deferred" /\ cmd # <<>> /\ cmd' = Tail(cmd) /\ UNCHANGED ui
      /\ ~w.sock /\ w \in Writers /\ s \in Setups /\ c \in Commands /\ s.kept = <<>>
      /\ s.dials = <<>>
  BY StateTyped, TakenCmd DEF DeferredCommand, ShapeInv, Sockets, DialInv, Drains
<1>2. CASE c.k = "Dial" /\ s' = Setup(c.gen, c.ep, FALSE, FALSE, <<>>) /\ UNCHANGED <<pc, w>>
  <2>1. s'.gen = c.gen /\ s'.kept = <<>>
    BY <1>2 DEF Setup
  <2>2. Deferring' /\ g = s'.gen
    BY <1>1, <1>2 DEF Carries, InPlay, Setting
  <2>3. Deferring
    BY <1>1, <1>2, <2>2, DeferKept DEF ShapeInv
  <2> QED BY <1>1, <1>2, <2>1, <2>2, <2>3
<1>3. CASE c.k \in {"Drop", "Hangup"} /\ s' = [s EXCEPT !.none = TRUE] /\ UNCHANGED <<pc, w>>
  <2>1. s'.none
    BY <1>1, <1>3 DEF Setups
  <2> QED BY <1>1, <1>3, <2>1 DEF Carries, InPlay, Setting
<1>4. CASE /\ c.k = "Begin" /\ pc' = (IF s.none THEN "loop" ELSE "dial")
           /\ w' = [w EXCEPT !.gen = s.gen]
           /\ s' = IF s.none THEN NoSetup ELSE [s EXCEPT !.live = (s.gen = 1)]
  <2>1. ~w'.sock
    BY <1>1, <1>4 DEF Writers
  <2>2. ~s.none /\ pc' = "dial"
    BY <1>4, <2>1 DEF Carries, InPlay, Deferring, Setting
  <2>3. s'.gen = s.gen /\ s'.dials = s.dials /\ s'.kept = <<>>
    BY <1>1, <1>4, <2>2 DEF Setups
  <2>4. g = s.gen
    BY <1>1, <2>1, <2>2, <2>3 DEF Carries, InPlay, Deferring, Setting, KeptFor
  <2>5. Deferring
    <3>1. cmd \in Seq(Commands)
      BY StateTyped
    <3>2. 1 \in DOMAIN cmd /\ cmd[1].k = "Begin"
      BY <1>1, <1>4, <3>1, TailIndex
    <3> QED BY <1>1, <3>2 DEF Deferring
  <2>6. Carries(g)
    BY <2>2, <2>4, <2>5 DEF Carries
  <2> QED BY <1>4, <2>2, <2>3, <2>4, <2>5, <2>6
<1>5. CASE /\ c.k \in {"Cont", "Pong", "Pump"} \/ (c.k = "Begin" /\ c.gen # s.gen)
           /\ UNCHANGED <<pc, w, s>>
  <2>1. Deferring' /\ ~s.none /\ g = s.gen
    BY <1>1, <1>5 DEF Carries, InPlay, Setting
  <2>2. c.k # "Begin" /\ Deferring
    BY <1>1, <1>5, <2>1, DeferKept DEF ShapeInv
  <2> QED BY <1>1, <1>5, <2>1, <2>2 DEF Carries
<1> QED BY <1>2, <1>3, <1>4, <1>5 DEF DeferredCommand

\* A command more changes nothing of what is in play.
LEMMA CarriesAppends ==
    ASSUME TypeInv, ShapeInv, NEW c \in Commands, cmdOpen, cmd' = Append(cmd, c),
           UNCHANGED <<pc, w, s>>,
           \/ c.k = "Begin" /\ ~ui.begun /\ ui'.begun
           \/ c.k # "Begin" /\ ui'.begun = ui.begun
    PROVE  (Deferring' <=> Deferring) /\ \A g \in Gens : Carries(g)' <=> Carries(g)
<1>1. cmd \in Seq(Commands)
  BY StateTyped
<1>2. /\ \A i \in DOMAIN cmd : i \in DOMAIN cmd' /\ cmd'[i] = cmd[i]
      /\ \A i \in DOMAIN cmd' : (i \in DOMAIN cmd /\ cmd'[i] = cmd[i]) \/ cmd'[i] = c
      /\ Len(cmd) + 1 \in DOMAIN cmd' /\ cmd'[Len(cmd) + 1] = c
  BY <1>1, AppendProperties, AppendIndex
<1>3. Deferring' <=> Deferring
  <2>1. CASE c.k = "Begin" /\ ~ui.begun
    <3>1. pc = "deferred" /\ Deferring
      BY <2>1 DEF ShapeInv, BeginOnce, Deferring
    <3> QED BY <1>2, <2>1, <3>1 DEF Deferring
  <2>2. CASE c.k # "Begin" /\ ui'.begun = ui.begun
    BY <1>2, <2>2 DEF Deferring
  <2> QED BY <2>1, <2>2
<1> QED BY <1>3 DEF Carries, InPlay, KeptFor, Cancelled

-----------------------------------------------------------------------------
(* Every line is its generation's, step by step *)

LEMMA OwnInit == Init => OwnInv
<1> SUFFICES ASSUME Init
             PROVE  OwnInv
  OBVIOUS
<1>1. cmd = <<>> /\ ~w.sock
  BY DEF Init, Socketless, Adopted
<1>2. s.kept = <<>>
  BY DEF Init, InitStart, NoSetup, Setup
<1>3. Owned /\ Pointed
  BY <1>1 DEF Owned, OwnedIn, Pointed, SetBy
<1>4. Older
  BY <1>1, GensTyped DEF Older, Init, InitStart, InitUi
<1>5. Steady /\ KeptOwn
  BY <1>1, <1>2 DEF Steady, KeptOwn
<1> QED BY <1>3, <1>4, <1>5 DEF OwnInv

\* A command leaves the channel.
LEMMA OwnTaken ==
    ASSUME TypeInv, OwnInv, cmd # <<>>, cmd' = Tail(cmd), UNCHANGED ui,
           IF Head(cmd).k = "Begin" THEN ~Deferring' ELSE (Deferring' <=> Deferring),
           IF Steers(Head(cmd)) THEN Target(Head(cmd)) \in Heads' ELSE Heads \subseteq Heads'
    PROVE  Owned' /\ Pointed' /\ Older'
<1>1. cmd \in Seq(Commands) /\ Len(cmd) \in Nat /\ Len(Tail(cmd)) + 1 = Len(cmd)
  BY StateTyped, HeadTailProperties, EmptySeq
<1>2. Owned'
  <2>1. OwnedIn(cmd, ~Deferring, Heads)
    BY DEF OwnInv, Owned
  <2>2. OwnedIn(Tail(cmd), ~Deferring', Heads')
    BY <1>1, <2>1, OwnedTail
  <2> QED BY <2>2 DEF Owned
<1>3. Pointed'
  <2>1. SetBy(Tail(cmd), ui.want, Len(cmd))
    BY <1>1, SetByTail DEF OwnInv, Pointed
  <2> QED BY <1>1, <2>1 DEF Pointed
<1>4. Older'
  <2>1. \A i \in DOMAIN cmd' : i + 1 \in DOMAIN cmd /\ cmd'[i] = cmd[i + 1] /\ i \in Nat
    BY <1>1, TailIndex
  <2>2. Older
    BY DEF OwnInv
  <2>3. ASSUME NEW i \in DOMAIN cmd', cmd'[i].k = "Cont", NEW n \in DOMAIN cmd'[i].lines
        PROVE  /\ cmd'[i].lines[n].gen <= ui.gen
               /\ \A j \in DOMAIN cmd' : i < j /\ cmd'[j].k = "Dial" =>
                    cmd'[i].lines[n].gen < cmd'[j].gen
    <3>1. i + 1 \in DOMAIN cmd /\ cmd'[i] = cmd[i + 1]
      BY <2>1
    <3>2. cmd[i + 1].lines[n].gen <= ui.gen
      BY <2>2, <2>3, <3>1 DEF Older
    <3>3. ASSUME NEW j \in DOMAIN cmd', i < j, cmd'[j].k = "Dial"
          PROVE  cmd[i + 1].lines[n].gen < cmd'[j].gen
      <4>1. j + 1 \in DOMAIN cmd /\ cmd'[j] = cmd[j + 1] /\ i + 1 < j + 1
        BY <2>1, <3>3
      <4> QED BY <2>2, <2>3, <3>1, <3>3, <4>1 DEF Older
    <3> QED BY <3>1, <3>2, <3>3
  <2> QED BY <2>2, <2>3 DEF Older
<1> QED BY <1>2, <1>3, <1>4

LEMMA OwnUntaken ==
    ASSUME OwnInv, UNCHANGED <<cmd, ui>>,
           cmd = <<>> \/ ((Deferring' <=> Deferring) /\ Heads \subseteq Heads')
    PROVE  Owned' /\ Pointed' /\ Older'
<1>1. Owned'
  <2>1. CASE cmd = <<>>
    BY <2>1 DEF Owned, OwnedIn
  <2>2. CASE (Deferring' <=> Deferring) /\ Heads \subseteq Heads'
    <3>1. OwnedIn(cmd, ~Deferring', Heads)
      <4>1. CASE Deferring
        BY <2>2, <4>1 DEF OwnInv, Owned, OwnedIn, Unbegun
      <4>2. CASE ~Deferring
        BY <2>2, <4>2 DEF OwnInv, Owned, OwnedIn, Unbegun
      <4> QED BY <4>1, <4>2
    <3>2. OwnedIn(cmd, ~Deferring', Heads')
      BY <2>2, <3>1, OwnedWidens
    <3> QED BY <3>2 DEF Owned
  <2> QED BY <2>1, <2>2
<1>2. Pointed'
  BY DEF OwnInv, Pointed
<1>3. Older'
  BY DEF OwnInv, Older
<1> QED BY <1>1, <1>2, <1>3

\* The lines in front are those of the generation in play.
LEMMA HeadOwned ==
    ASSUME TypeInv, Owned, cmd # <<>>, Head(cmd).k = "Cont", ~Deferring,
           NEW g \in Gens, Carries(g), NEW n \in DOMAIN Head(cmd).lines
    PROVE  Head(cmd).lines[n].gen = g
<1>1. 1 \in DOMAIN cmd /\ cmd[1] = Head(cmd) /\ \A j \in DOMAIN cmd : j \in Nat /\ ~(j < 1)
  <2>1. cmd \in Seq(Commands)
    BY StateTyped
  <2>2. DOMAIN cmd = 1 .. Len(cmd)
    BY <2>1
  <2> QED BY <2>1, <2>2, TailIndex
<1>2. Unsteered(cmd, 1) /\ ~Unbegun(cmd, ~Deferring, 1)
  BY <1>1 DEF Unsteered, Unbegun
<1>3. Head(cmd).lines[n].gen \in Heads
  BY <1>1, <1>2 DEF Owned, OwnedIn
<1> QED BY <1>3 DEF Heads

LEMMA OwnStays ==
    ASSUME TypeInv, ShapeInv, OwnInv, Stays
    PROVE  OwnInv'
<1>1. UNCHANGED <<w, cmd, cmdOpen, ui>>
  BY DEF Stays
<1>2. Deferring' <=> Deferring
  BY <1>1 DEF Stays, Deferring, Setting
<1>3. Heads \subseteq Heads'
  BY CarriesStays, HeadsWiden
<1>4. Owned' /\ Pointed' /\ Older'
  BY <1>1, <1>2, <1>3, OwnUntaken
<1>5. Steady'
  BY <1>1 DEF OwnInv, Steady
<1>6. KeptOwn'
  <2>1. CASE UNCHANGED <<pc, s>>
    BY <2>1 DEF OwnInv, KeptOwn, KeptFor, Cancelled
  <2>2. CASE /\ pc \in Setting /\ pc' \in Setting
             /\ s'.kept = s.kept /\ KeptFor' = KeptFor
             /\ Cancelled(s) => Cancelled(s')
    <3>1. pc' # "replay"
      BY <2>2 DEF Setting
    <3> QED BY <2>2, <3>1 DEF OwnInv, KeptOwn, Cancelled
  <2>3. CASE pc' \in {"done", "stopped"}
    BY <2>3 DEF KeptOwn, Setting
  <2> QED BY <2>1, <2>2, <2>3 DEF Stays
<1> QED BY <1>4, <1>5, <1>6 DEF OwnInv

LEMMA OwnDrained ==
    ASSUME TypeInv, TypeInv', ShapeInv, OwnInv, Drained
    PROVE  OwnInv'
<1>1. /\ cmd # <<>> /\ cmd' = Tail(cmd) /\ UNCHANGED <<w, ui>> /\ Head(cmd) \in Commands
      /\ ~Deferring /\ ~Deferring' /\ pc \in Setting /\ pc' \in Setting
  BY TakenCmd DEF Drained, Deferring, Setting
<1>2. IF Steers(Head(cmd)) THEN Target(Head(cmd)) \in Heads' ELSE Heads \subseteq Heads'
  <2>1. CASE Head(cmd).k = "Dial"
    <3>1. Head(cmd).gen \in Gens
      BY <1>1, <2>1, CommandFields
    <3>2. Head(cmd).gen \in Heads'
      BY <2>1, <3>1, CarriesDrained, HeadsSole
    <3> QED BY <2>1, <3>2 DEF Steers, Target
  <2>2. CASE Head(cmd).k \in {"Drop", "Hangup"}
    <3>1. 0 \in Heads'
      BY <2>2, CarriesDrained, HeadsSole, GensTyped
    <3> QED BY <2>2, <3>1 DEF Steers, Target
  <2>3. CASE ~Steers(Head(cmd))
    <3>1. \A h \in Gens : Carries(h)' => Carries(h)
      BY <2>3, CarriesDrained DEF Steers
    <3> QED BY <2>3, <3>1, HeadsWiden
  <2> QED BY <2>1, <2>2, <2>3 DEF Steers
<1>3. Owned' /\ Pointed' /\ Older'
  BY <1>1, <1>2, OwnTaken
<1>4. Steady'
  BY <1>1 DEF Steady, ShapeInv, Sockets, Setting
<1>5. KeptOwn'
  <2> SUFFICES ASSUME ~Cancelled(s'), NEW i \in DOMAIN s'.kept, s'.kept[i].k = "Cont",
                      NEW n \in DOMAIN s'.kept[i].lines
               PROVE  s'.kept[i].lines[n].gen = KeptFor'
    BY <1>1 DEF KeptOwn, Setting, Cancelled
  <2>1. KeptFor' \in Gens
    <3>1. s' \in Setups
      BY DEF TypeInv, TypeOK
    <3>2. s'.dials \in Seq([gen : Gens, ep : Endpoints]) /\ s'.gen \in Gens
      BY <3>1 DEF Setups
    <3>3. CASE s'.dials = <<>>
      BY <3>2, <3>3 DEF KeptFor
    <3>4. CASE s'.dials # <<>>
      <4> DEFINE S == [gen : Gens, ep : Endpoints]
                 q == s'.dials
      <4>1. q \in Seq(S) /\ q # <<>>
        BY <3>2, <3>4
      <4> HIDE DEF S, q
      <4>2. q[Len(q)] \in S
        <5>1. Len(q) \in 1 .. Len(q)
          BY <4>1, EmptySeq
        <5> QED BY <4>1, <5>1, ElementOfSeq
      <4>3. s'.dials[Len(s'.dials)].gen \in Gens
        BY <4>2 DEF S, q
      <4> QED BY <3>4, <4>3 DEF KeptFor
    <3> QED BY <3>3, <3>4
  <2>2. PICK g \in Gens : g = KeptFor'
    BY <2>1
  <2>8. Carries(g)'
    BY <1>1, <2>2 DEF Carries, InPlay, Cancelled
  <2>3. /\ g = KeptFor'
        /\ Head(cmd).k \notin {"Drop", "Hangup"}
        /\ Head(cmd).k = "Dial" => s'.kept = <<>>
        /\ Head(cmd).k # "Dial" => ~Cancelled(s) /\ Carries(g) /\ g = KeptFor
        /\ Head(cmd).k \in {"Cont", "Pong"} => s'.kept = Append(s.kept, Head(cmd))
        /\ Head(cmd).k \in {"Pump", "Begin"} => s'.kept = s.kept
    BY <2>2, <2>8, CarriesDrained
  <2>4. Head(cmd).k # "Dial"
    BY <2>3
  <2>5. \A j \in DOMAIN s.kept : s.kept[j].k = "Cont" =>
            \A m \in DOMAIN s.kept[j].lines : s.kept[j].lines[m].gen = g
    BY <1>1, <2>3, <2>4 DEF OwnInv, KeptOwn
  <2>6. CASE s'.kept = s.kept
    BY <2>3, <2>5, <2>6
  <2>7. CASE Head(cmd).k \in {"Cont", "Pong"} /\ s'.kept = Append(s.kept, Head(cmd))
    <3>1. (i \in DOMAIN s.kept /\ s'.kept[i] = s.kept[i]) \/ s'.kept[i] = Head(cmd)
      BY <1>1, <2>7, KeptTyped, AppendIndex
    <3>2. CASE i \in DOMAIN s.kept /\ s'.kept[i] = s.kept[i]
      BY <2>3, <2>5, <3>2
    <3>3. CASE s'.kept[i] = Head(cmd)
      <4>1. g \in Gens /\ Carries(g) /\ Owned
        BY <2>2, <2>3, <2>4 DEF OwnInv
      <4> QED BY <1>1, <2>3, <3>3, <4>1, HeadOwned
    <3> QED BY <3>1, <3>2, <3>3
  <2> QED BY <1>1, <2>3, <2>4, <2>6, <2>7, CommandFields
<1> QED BY <1>3, <1>4, <1>5 DEF OwnInv

LEMMA OwnRegister ==
    ASSUME TypeInv, WantInv, ShapeInv, OwnInv, Register
    PROVE  OwnInv'
<1>1. /\ pc = "decide" /\ pc' = "replay" /\ ~Cancelled(s) /\ s.dials = <<>>
      /\ w'.gen = s.gen /\ UNCHANGED <<s, cmd, ui>>
  BY RegisterFacts
<1>2. ~Deferring /\ ~Deferring'
  BY <1>1 DEF Deferring
<1>3. Heads \subseteq Heads'
  BY CarriesRegister, HeadsWiden
<1>4. Owned' /\ Pointed' /\ Older'
  BY <1>1, <1>2, <1>3, OwnUntaken
<1>5. Steady'
  BY <1>1 DEF Steady, WantInv, Aimed, Setting, KeptFor
<1>6. KeptOwn'
  BY <1>1 DEF OwnInv, KeptOwn, KeptFor, Setting
<1> QED BY <1>4, <1>5, <1>6 DEF OwnInv

\* A Dial never reaches a writer of its own generation.
LEMMA NoSuperseded ==
    ASSUME TypeInv, DialInv, cmd # <<>>, Head(cmd).k = "Dial"
    PROVE  ~DialSuperseded(Head(cmd)) /\ w.gen < Head(cmd).gen /\ s.gen < Head(cmd).gen
<1>1. cmd \in Seq(Commands) /\ w.gen \in Nat /\ s.gen \in Nat
  BY StateTyped
<1>2. w.gen < Head(cmd).gen /\ s.gen < Head(cmd).gen
  BY <1>1, QueuedTail DEF DialInv
<1> QED BY <1>1, <1>2 DEF DialSuperseded

LEMMA OwnSends ==
    ASSUME TypeInv, DialInv, ShapeInv, OwnInv, Sends
    PROVE  OwnInv'
<1>1. PICK c, r :
        /\ SendStep(c, r) /\ UNCHANGED <<cmdOpen, ui>>
        /\ \/ /\ pc = "replay" /\ pc' = "replay" /\ s.kept # <<>> /\ c = Head(s.kept)
              /\ s' = [s EXCEPT !.kept = Tail(@)] /\ UNCHANGED <<cmd, reader>>
           \/ /\ pc = "replay" /\ pc' = "loop" /\ s.kept = <<>> /\ c = Pump(w.gen)
              /\ s' = NoSetup /\ StartReader(w.gen) /\ UNCHANGED cmd
           \/ /\ pc = "loop" /\ pc' = "loop" /\ cmd # <<>> /\ c = Head(cmd)
              /\ c.k \notin {"Drop", "Hangup"} /\ (c.k = "Dial" => DialSuperseded(c))
              /\ cmd' = Tail(cmd) /\ UNCHANGED <<s, reader>>
  BY Zenon DEF Sends
<1>2. ~Deferring /\ ~Deferring'
  BY <1>1 DEF Deferring
<1>3. Heads \subseteq Heads' /\ (w'.sock => w.sock /\ w'.gen = w.gen)
  BY <1>1, CarriesSends, HeadsWiden, SendFacts
<1>4. Owned' /\ Pointed' /\ Older' /\ Steady'
  <2>1. CASE UNCHANGED cmd
    <3>1. Steady'
      BY <1>1, <1>3, <2>1 DEF OwnInv, Steady
    <3> QED BY <1>1, <1>2, <1>3, <2>1, <3>1, OwnUntaken
  <2>2. CASE /\ cmd # <<>> /\ cmd' = Tail(cmd) /\ c = Head(cmd)
             /\ c.k \notin {"Drop", "Hangup"} /\ (c.k = "Dial" => DialSuperseded(c))
    <3>1. ~Steers(Head(cmd))
      BY <2>2, NoSuperseded DEF Steers
    <3>2. Quiet(cmd') => Quiet(cmd)
      BY <2>2, <3>1, SteerTail, StateTyped
    <3>3. Steady'
      BY <1>1, <1>3, <3>2 DEF OwnInv, Steady
    <3> QED BY <1>1, <1>2, <1>3, <2>2, <3>1, <3>3, OwnTaken
  <2> QED BY <1>1, <2>1, <2>2
<1>5. KeptOwn'
  <2>1. CASE pc' = "loop"
    BY <2>1 DEF KeptOwn, Setting
  <2>2. CASE pc = "replay" /\ s.kept # <<>> /\ s' = [s EXCEPT !.kept = Tail(@)]
    <3>1. s \in Setups /\ s.kept \in Seq(Commands)
      BY StateTyped, KeptTyped
    <3>2. s'.kept = Tail(s.kept) /\ s'.dials = s.dials /\ s'.gen = s.gen
      BY <2>2, <3>1 DEF Setups
    <3>3. KeptFor' = KeptFor
      BY <3>2 DEF KeptFor
    <3>4. \A i \in DOMAIN s'.kept : i + 1 \in DOMAIN s.kept /\ s'.kept[i] = s.kept[i + 1]
      BY <2>2, <3>1, <3>2, TailIndex
    <3> QED BY <2>2, <3>3, <3>4 DEF OwnInv, KeptOwn
  <2> QED BY <1>1, <2>1, <2>2
<1> QED BY <1>4, <1>5 DEF OwnInv

LEMMA OwnArmBoot ==
    ASSUME TypeInv, ShapeInv, OwnInv, ArmBoot
    PROVE  OwnInv'
<1>1. pc = "replay" /\ pc' = "loop" /\ UNCHANGED <<w, cmd, ui>>
  BY DEF ArmBoot
<1>2. ~Deferring /\ ~Deferring'
  BY <1>1 DEF Deferring
<1>3. \A h \in Gens : Carries(h)' => Carries(h)
  BY <1>1 DEF Carries, InPlay, Deferring, Setting
<1>4. Owned' /\ Pointed' /\ Older'
  BY <1>1, <1>2, <1>3, HeadsWiden, OwnUntaken
<1>5. Steady' /\ KeptOwn'
  BY <1>1 DEF OwnInv, Steady, KeptOwn, Setting
<1> QED BY <1>4, <1>5 DEF OwnInv

LEMMA OwnCloses ==
    ASSUME TypeInv, DialInv, ShapeInv, OwnInv, Closes
    PROVE  OwnInv'
<1>1. PICK report, wire, how : Closing(report, wire, how)
  BY DEF Closes
<1>2. /\ ~w'.sock /\ pc = "loop" /\ pc' \in {"loop", "dial", "eof"} /\ UNCHANGED ui
      /\ pc' = "dial" => s'.kept = <<>>
  <2>1. ~w'.sock /\ (pc' = "dial" => s'.kept = <<>>)
    BY <1>1, ClosingFacts
  <2>2. pc = "loop" /\ pc' \in {"loop", "dial", "eof"} /\ UNCHANGED ui
    BY <1>1 DEF Closing
  <2> QED BY <2>1, <2>2
<1>3. ~Deferring /\ ~Deferring'
  BY <1>2 DEF Deferring
<1>4. Owned' /\ Pointed' /\ Older'
  <2>1. CASE /\ cmd # <<>> /\ cmd' = Tail(cmd) /\ pc' = "loop"
             /\ Head(cmd).k \in {"Drop", "Hangup"}
    <3>1. 0 \in Heads'
      BY <2>1, CarriesCloses, HeadsSole, GensTyped
    <3>2. Steers(Head(cmd)) /\ Target(Head(cmd)) = 0 /\ Head(cmd).k # "Begin"
      BY <2>1 DEF Steers, Target
    <3> QED BY <1>2, <1>3, <2>1, <3>1, <3>2, OwnTaken
  <2>2. CASE cmd # <<>> /\ cmd' = Tail(cmd) /\ Head(cmd).k = "Dial"
    <3>1. Head(cmd).gen \in Gens
      BY <2>2, TakenCmd, CommandFields
    <3>2. Head(cmd).gen \in Heads'
      BY <3>1, CarriesCloses, HeadsSole
    <3>3. Steers(Head(cmd)) /\ Target(Head(cmd)) = Head(cmd).gen /\ Head(cmd).k # "Begin"
      BY <2>2 DEF Steers, Target
    <3> QED BY <1>2, <1>3, <2>2, <3>2, <3>3, OwnTaken
  <2>3. CASE cmd = <<>> /\ cmd' = cmd
    BY <1>2, <2>3, OwnUntaken
  <2> QED BY <1>1, <2>1, <2>2, <2>3 DEF Closing
<1>5. Steady' /\ KeptOwn'
  BY <1>2 DEF Steady, KeptOwn, Setting
<1> QED BY <1>4, <1>5 DEF OwnInv

LEMMA OwnLeaves ==
    ASSUME TypeInv, ShapeInv, OwnInv, Leaves, pc = "deferred" => cmd = <<>>
    PROVE  OwnInv'
<1>1. UNCHANGED <<cmd, ui>> /\ ~w'.sock /\ pc' \in {"loop", "eof"}
  BY DEF Leaves
<1>2. Heads \subseteq Heads'
  BY CarriesLeaves, HeadsWiden
<1>3. pc # "deferred" => ~Deferring /\ ~Deferring'
  BY <1>1 DEF Deferring
<1>4. Owned' /\ Pointed' /\ Older'
  BY <1>1, <1>2, <1>3, OwnUntaken
<1>5. Steady' /\ KeptOwn'
  BY <1>1 DEF Steady, KeptOwn, Setting
<1> QED BY <1>4, <1>5 DEF OwnInv

LEMMA OwnDeferred ==
    ASSUME TypeInv, DialInv, ShapeInv, OwnInv, DeferredCommand
    PROVE  OwnInv'
<1>1. /\ pc = "deferred" /\ cmd # <<>> /\ cmd' = Tail(cmd) /\ UNCHANGED ui
      /\ Head(cmd) \in Commands /\ w \in Writers /\ ~w.sock /\ s \in Setups /\ s.kept = <<>>
  BY StateTyped, TakenCmd DEF DeferredCommand, ShapeInv, Sockets
<1>2. /\ w' = w \/ w' = [w EXCEPT !.gen = s.gen]
      /\ pc' # "deferred" => Head(cmd).k = "Begin"
      /\ pc' \in {"deferred", "loop", "dial"}
      /\ pc' = "dial" => s' = [s EXCEPT !.live = (s.gen = 1)]
  BY <1>1 DEF DeferredCommand
<1>3. ~w'.sock
  BY <1>1, <1>2 DEF Writers
<1>4. IF Head(cmd).k = "Begin" THEN ~Deferring' ELSE (Deferring' <=> Deferring)
  <2>1. CASE pc' = "deferred"
    BY <1>1, <2>1, DeferKept DEF ShapeInv
  <2>2. CASE pc' # "deferred"
    BY <1>2, <2>2 DEF Deferring
  <2> QED BY <2>1, <2>2
<1>5. IF Steers(Head(cmd)) THEN Target(Head(cmd)) \in Heads' ELSE Heads \subseteq Heads'
  <2>1. CASE Head(cmd).k = "Dial"
    <3>1. Head(cmd).gen \in Gens
      BY <1>1, <2>1, CommandFields
    <3>2. Head(cmd).gen \in Heads'
      BY <2>1, <3>1, CarriesDeferred, HeadsSole
    <3> QED BY <2>1, <3>2 DEF Steers, Target
  <2>2. CASE Head(cmd).k \in {"Drop", "Hangup"}
    <3>1. 0 \in Heads'
      BY <2>2, CarriesDeferred, HeadsSole, GensTyped
    <3> QED BY <2>2, <3>1 DEF Steers, Target
  <2>3. CASE ~Steers(Head(cmd))
    <3>1. \A h \in Gens : Carries(h)' => Carries(h)
      BY <2>3, CarriesDeferred DEF Steers
    <3> QED BY <2>3, <3>1, HeadsWiden
  <2> QED BY <2>1, <2>2, <2>3 DEF Steers
<1>6. Owned' /\ Pointed' /\ Older'
  BY <1>1, <1>4, <1>5, OwnTaken
<1>7. Steady'
  BY <1>3 DEF Steady
<1>8. KeptOwn'
  <2>1. pc' = "dial" => s'.kept = <<>>
    BY <1>1, <1>2 DEF Setups
  <2> QED BY <1>2, <2>1 DEF KeptOwn, Setting
<1> QED BY <1>6, <1>7, <1>8 DEF OwnInv

\* A command more: a line is of the generation the UI wants.
LEMMA OwnAppends ==
    ASSUME TypeInv, WantInv, ShapeInv, OwnInv, NEW c \in Commands, cmdOpen,
           cmd' = Append(cmd, c), UNCHANGED <<pc, w, s>>,
           \/ c.k = "Begin" /\ ~ui.begun /\ ui'.begun
           \/ c.k # "Begin" /\ ui'.begun = ui.begun,
           c.k = "Cont" => \A n \in DOMAIN c.lines : c.lines[n].gen = Owner,
           c.k = "Dial" => c.gen = ui.gen + 1,
           ui'.want = IF Steers(c) THEN Target(c) ELSE ui.want,
           ui'.gen = IF c.k = "Dial" THEN ui.gen + 1 ELSE ui.gen,
           \A g \in Gens : g # Owner => ui'.typed[g] = ui.typed[g]
    PROVE  OwnInv'
<1>1. /\ cmd \in Seq(Commands) /\ ui.gen \in Nat /\ ui.want \in Gens /\ ui.want \in Nat
      /\ Owned /\ Pointed /\ Older /\ Steady /\ KeptOwn /\ ui.want <= ui.gen
      /\ Owner \in Nat /\ Owner <= ui.gen /\ Gens \subseteq Nat
  <2>1. /\ cmd \in Seq(Commands) /\ ui.gen \in Nat /\ ui.want \in Gens /\ Gens \subseteq Nat
        /\ 0 \in Gens
    BY StateTyped, ConnTyped, GensTyped DEF Uis
  <2>2. Owned /\ Pointed /\ Older /\ Steady /\ KeptOwn
    BY DEF OwnInv
  <2>3. ui.want <= ui.gen
    BY <2>2 DEF Older
  <2>4. Owner \in Nat /\ Owner <= ui.gen
    <3>1. ui.want \in Nat /\ 0 <= ui.gen
      <4>1. ui.want \in Nat /\ ui.gen \in Nat
        BY ONLY <2>1, Zenon
      <4> QED BY ONLY <4>1, SMT
    <3>2. CASE ui.begun
      BY <2>1, <2>3, <3>1, <3>2 DEF Owner
    <3>3. CASE ~ui.begun
      BY <3>1, <3>3 DEF Owner
    <3> QED BY <3>2, <3>3
  <2> QED BY <2>1, <2>2, <2>3, <2>4
<1>2. (Deferring' <=> Deferring) /\ \A g \in Gens : Carries(g)' <=> Carries(g)
  BY CarriesAppends
<1>3. Heads' = Heads
  BY <1>2 DEF Heads
<1>4. Owned'
  <2>1. ASSUME c.k = "Cont", NEW n \in DOMAIN c.lines
        PROVE  IF ~~Deferring /\ (\A j \in DOMAIN cmd : cmd[j].k # "Begin")
               THEN c.lines[n].gen = 0
               ELSE /\ SetBy(cmd, c.lines[n].gen, Len(cmd) + 1)
                    /\ Quiet(cmd) => c.lines[n].gen \in Heads
    <3>1. c.lines[n].gen = Owner
      BY <2>1
    <3>2. CASE Deferring /\ (\A j \in DOMAIN cmd : cmd[j].k # "Begin")
      BY <3>1, <3>2 DEF Deferring, Owner
    <3>3. CASE ~(Deferring /\ (\A j \in DOMAIN cmd : cmd[j].k # "Begin"))
      <4>1. ui.begun /\ Owner = ui.want
        BY <3>3 DEF ShapeInv, BeginOnce, Deferring, Owner
      <4>2. SetBy(cmd, Owner, Len(cmd) + 1)
        BY <1>1, <4>1 DEF Pointed
      <4>3. ASSUME Quiet(cmd), NEW h \in Gens, Carries(h)
            PROVE  h = ui.want
        <5>1. CASE pc \in {"replay", "loop"} /\ w.sock /\ w.gen = h
          BY <1>1, <4>3, <5>1 DEF Steady
        <5>2. CASE pc \in Setting /\ KeptFor = h /\ ~Cancelled(s)
          BY <4>3, <5>2 DEF WantInv, Aimed
        <5>3. CASE Deferring /\ ~s.none /\ h = s.gen
          BY <4>3, <5>3 DEF WantInv, Aimed, Deferring
        <5> QED BY <4>3, <5>1, <5>2, <5>3 DEF Carries, InPlay
      <4>4. Quiet(cmd) => Owner \in Heads
        BY <1>1, <4>1, <4>3 DEF Heads
      <4> QED BY <3>1, <3>3, <4>2, <4>4
    <3> QED BY <3>2, <3>3
  <2>2. OwnedIn(cmd, ~Deferring, Heads)
    BY <1>1 DEF Owned
  <2>3. OwnedIn(Append(cmd, c), ~Deferring, Heads)
    BY <1>1, <2>1, <2>2, AppendOwned
  <2>4. CASE Deferring
    BY <1>2, <1>3, <2>3, <2>4 DEF Owned, OwnedIn, Unbegun
  <2>5. CASE ~Deferring
    BY <1>2, <1>3, <2>3, <2>5 DEF Owned, OwnedIn, Unbegun
  <2> QED BY <2>4, <2>5
<1>5. Pointed'
  <2>1. SetBy(cmd', ui'.want, Len(cmd') + 1)
    BY <1>1, SetByAppend DEF Pointed
  <2> QED BY <2>1 DEF Pointed
<1>6. Older'
  <2>1. /\ \A i \in DOMAIN cmd' : /\ i \in Nat
                                  /\ \/ i \in DOMAIN cmd /\ cmd'[i] = cmd[i]
                                     \/ i = Len(cmd) + 1 /\ cmd'[i] = c
        /\ \A i \in DOMAIN cmd : i < Len(cmd) + 1
        /\ Len(cmd) \in Nat
    <3>1. DOMAIN cmd' = 1 .. Len(cmd) + 1 /\ DOMAIN cmd = 1 .. Len(cmd) /\ Len(cmd) \in Nat
      BY <1>1, AppendProperties
    <3> QED BY <1>1, <3>1, AppendIndex
  <2>2. ASSUME NEW i \in DOMAIN cmd', cmd'[i].k = "Cont", NEW n \in DOMAIN cmd'[i].lines
        PROVE  /\ cmd'[i].lines[n].gen <= ui'.gen
               /\ \A j \in DOMAIN cmd' : i < j /\ cmd'[j].k = "Dial" =>
                    cmd'[i].lines[n].gen < cmd'[j].gen
    <3>1. CASE i \in DOMAIN cmd /\ cmd'[i] = cmd[i]
      <4>1. cmd[i].lines[n].gen <= ui.gen /\ cmd[i].lines[n].gen \in Nat
        <5>1. cmd[i].lines \in Seq(Line)
          BY <2>2, <3>1, StateTyped, CommandFields
        <5>2. cmd[i].lines[n] \in Line
          BY <2>2, <3>1, <5>1, ElementOfSeq
        <5> QED BY <1>1, <2>2, <3>1, <5>2, LineIds DEF Older
      <4>2. ASSUME NEW j \in DOMAIN cmd', i < j, cmd'[j].k = "Dial"
            PROVE  cmd[i].lines[n].gen < cmd'[j].gen
        <5>1. CASE j \in DOMAIN cmd /\ cmd'[j] = cmd[j]
          BY <1>1, <2>2, <3>1, <4>2, <5>1 DEF Older
        <5>2. CASE cmd'[j] = c
          BY <1>1, <4>1, <4>2, <5>2
        <5> QED BY <2>1, <5>1, <5>2
      <4> QED BY <1>1, <3>1, <4>1, <4>2
    <3>2. CASE i = Len(cmd) + 1 /\ cmd'[i] = c
      <4>1. c.lines[n].gen = Owner /\ ui'.gen = ui.gen
        BY <2>2, <3>2
      <4>2. ASSUME NEW j \in DOMAIN cmd', i < j
            PROVE  FALSE
        BY <2>1, <3>2, <4>2
      <4> QED BY <1>1, <3>2, <4>1, <4>2
    <3> QED BY <2>1, <3>1, <3>2
  <2>3. \A g \in Gens : g > ui'.gen => ui'.typed[g] = 0
    <3> SUFFICES ASSUME NEW g \in Gens, g > ui'.gen
                 PROVE  ui'.typed[g] = 0
      OBVIOUS
    <3>1. g > ui.gen /\ g # Owner
      BY <1>1
    <3> QED BY <1>1, <3>1 DEF Older
  <2>4. ui'.want <= ui'.gen
    BY <1>1 DEF Target, Steers
  <2> QED BY <2>2, <2>3, <2>4 DEF Older
<1>7. Steady'
  <2>1. Quiet(cmd') => Quiet(cmd) /\ ~Steers(c)
    BY <1>1, SteerAppend
  <2> QED BY <1>1, <2>1 DEF Steady
<1>8. KeptOwn'
  BY <1>1 DEF KeptOwn, KeptFor, Cancelled
<1> QED BY <1>4, <1>5, <1>6, <1>7, <1>8 DEF OwnInv

LEMMA OwnUiSends ==
    ASSUME TypeInv, WantInv, ShapeInv, OwnInv, NEW c, UiSends(c)
    PROVE  OwnInv'
<1>1. /\ c \in Commands /\ cmdOpen /\ cmd' = Append(cmd, c) /\ UNCHANGED <<pc, w, s>>
      /\ \/ c.k = "Begin" /\ ~ui.begun /\ ui'.begun
         \/ c.k # "Begin" /\ ui'.begun = ui.begun
  BY UiSendsMade DEF UiSends
<1>2. /\ ui \in Uis /\ Owner \in Gens /\ ui.typed \in [Gens -> 0 .. MaxLines]
  BY ConnTyped, GensTyped DEF Uis, Owner
<1>3. c.k = "Cont" => \A n \in DOMAIN c.lines : c.lines[n].gen = Owner
  <2> SUFFICES ASSUME c.k = "Cont", NEW i \in DOMAIN c.lines
               PROVE  c.lines[i].gen = Owner
    OBVIOUS
  <2>1. PICK n \in 1 .. MaxBatch : c = Cont(NewLines(Owner, n))
    BY DEF UiSends
  <2>2. c.lines = NewLines(Owner, n)
    BY <2>1 DEF Cont
  <2> QED BY <2>1, <2>2 DEF NewLines
<1>4. /\ c.k = "Dial" => c.gen = ui.gen + 1
      /\ ui'.want = IF Steers(c) THEN Target(c) ELSE ui.want
      /\ ui'.gen = IF c.k = "Dial" THEN ui.gen + 1 ELSE ui.gen
      /\ \A g \in Gens : g # Owner => ui'.typed[g] = ui.typed[g]
  <2>1. CASE c.k = "Cont"
    BY <1>2, <2>1 DEF UiSends, Steers, Target, Uis
  <2>2. CASE c.k = "Dial"
    BY <1>2, <2>2 DEF UiSends, Steers, Target, Uis
  <2>3. CASE c.k \in {"Drop", "Hangup"}
    BY <1>2, <2>3 DEF UiSends, Steers, Target, Uis
  <2>4. CASE c.k = "Begin" \/ c.k = "Pump"
    BY <1>2, <2>4 DEF UiSends, Steers, Target, Uis
  <2> QED BY <2>1, <2>2, <2>3, <2>4 DEF UiSends
<1> QED BY <1>1, <1>3, <1>4, OwnAppends

LEMMA OwnPong ==
    ASSUME TypeInv, WantInv, ShapeInv, OwnInv, NEW g \in Gens, ReaderPong(g)
    PROVE  OwnInv'
<1>1. /\ Reply(g) \in Commands /\ Reply(g).k = "Pong" /\ UNCHANGED <<pc, w, s, ui>>
      /\ cmdOpen => cmd' = Append(cmd, Reply(g))
      /\ ~cmdOpen => cmd' = cmd
  BY PongFacts
<1>2. CASE cmdOpen
  <2>1. ~Steers(Reply(g))
    BY <1>1 DEF Steers
  <2>2. cmd' = Append(cmd, Reply(g))
    BY <1>1, <1>2
  <2> HIDE DEF Reply
  <2> QED BY <1>1, <1>2, <2>1, <2>2, OwnAppends
<1>3. CASE ~cmdOpen
  BY <1>1, <1>3 DEF OwnInv, Owned, OwnedIn, Unbegun, Deferring, Heads, Carries, InPlay,
                    KeptFor, Cancelled, Pointed, Older, Steady, KeptOwn
<1> QED BY <1>2, <1>3

LEMMA OwnStep ==
    TypeInv /\ TypeInv' /\ DialInv /\ WantInv /\ ShapeInv /\ OwnInv /\ [Next]_vars => OwnInv'
<1> SUFFICES ASSUME TypeInv, TypeInv', DialInv, WantInv, ShapeInv, OwnInv, [Next]_vars
             PROVE  OwnInv'
  OBVIOUS
<1>1. CASE UiClose
  <2>1. UNCHANGED <<pc, w, s, cmd, ui>>
    BY <1>1 DEF UiClose, actorVars
  <2> QED BY <2>1 DEF OwnInv, Owned, OwnedIn, Unbegun, Deferring, Heads, Carries, InPlay,
                    KeptFor, Cancelled, Pointed, Older, Steady, KeptOwn
<1>2. Kinds
  BY StepKinds
<1> QED BY <1>1, <1>2, OwnStays, OwnDrained, OwnRegister, OwnSends, OwnArmBoot, OwnCloses,
           OwnLeaves, OwnDeferred, OwnUiSends, OwnPong DEF Kinds

LEMMA OwnAlways == Spec => []OwnInv
BY OwnInit, OwnStep, ShapeAlways, WantAlways, CredAlways, TypeAlways, PTL DEF Spec

\* A line typed before a Dial never enters the queue of the winner.
LEMMA LinesOwnStep ==
    TypeInv /\ DialInv /\ WantInv /\ ShapeInv /\ OwnInv /\ Kin("ui") /\ [Next]_vars
        => Kin("ui")'
<1> SUFFICES ASSUME TypeInv, DialInv, WantInv, ShapeInv, OwnInv, Kin("ui"), [Next]_vars
             PROVE  Kin("ui")'
  OBVIOUS
<1>1. CASE Sends
  <2>1. PICK c, r :
          /\ SendStep(c, r)
          /\ \/ pc = "replay" /\ s.kept # <<>> /\ c = Head(s.kept)
             \/ c = Pump(w.gen)
             \/ pc = "loop" /\ cmd # <<>> /\ c = Head(cmd)
    BY <1>1 DEF Sends
  <2>2. Made(reader, c) /\ c \in Commands /\ pc \in {"replay", "loop"}
    BY <2>1, SendMade DEF SendStep
  <2>3. ASSUME w.sock
        PROVE  Hers(Outs(c), "ui", w.gen)
    <3>1. CASE c.k = "Cont" /\ pc = "replay" /\ s.kept # <<>> /\ c = Head(s.kept)
      <4>1. 1 \in DOMAIN s.kept /\ s.kept[1] = c
        BY <3>1, KeptTyped, TailIndex
      <4>2. KeptFor = w.gen
        BY <3>1 DEF KeptFor, ShapeInv, Sockets
      <4> QED BY <3>1, <4>1, <4>2 DEF OwnInv, KeptOwn, Outs, Hers
    <3>2. CASE c.k = "Cont" /\ pc = "loop" /\ cmd # <<>> /\ c = Head(cmd)
      <4>1. w.gen \in Gens /\ Carries(w.gen) /\ ~Deferring
        BY <2>3, <3>2, StateTyped, CarriesSock DEF Deferring
      <4> QED BY <3>2, <4>1, HeadOwned DEF OwnInv, Outs, Hers
    <3>3. CASE c.k = "Pong"
      <4>1. DOMAIN c.lines = 1 .. Len(c.lines) /\ Len(c.lines) = 1 /\ c.lines[1].from = "pong"
        BY <2>2, <3>3, CommandFields DEF Made
      <4>2. \A i \in DOMAIN c.lines : c.lines[i].from # "ui"
        BY <4>1
      <4> QED BY <3>3, <4>2, HersEmpty DEF Outs, Hers
    <3>4. CASE c.k \notin {"Cont", "Pong"}
      BY <3>4, HersEmpty DEF Outs
    <3> QED BY <2>1, <3>1, <3>2, <3>3, <3>4 DEF Pump
  <2> QED BY <2>1, <2>3, KinSends
<1>2. CASE ~Sends
  BY <1>2, KinOthers
<1> QED BY <1>1, <1>2

LEMMA LinesOwnAlways == Spec => []Kin("ui")
<1>1. Init => Kin("ui")
  BY KinInit
<1> QED BY <1>1, LinesOwnStep, OwnAlways, ShapeAlways, WantAlways, CredAlways, TypeAlways,
           PTL DEF Spec

-----------------------------------------------------------------------------
(* Rows of batches that hold the same lines in the same order *)

Alike(a, b, from, g) ==
    IdsOf(a, from, g) = IdsOf(b, from, g) /\ (Rising(a, from, g) <=> Rising(b, from, g))

\* No line of hers.
Without(x, from, g) == \A i \in DOMAIN x : ~Of(x[i], from, g)

LEMMA Rebracket ==
    ASSUME NEW a \in Batches, NEW b \in Batches, NEW c \in Batches
    PROVE  /\ a \o b \in Batches /\ (a \o b) \o c \in Batches
           /\ (a \o b) \o c = a \o (b \o c) /\ b \o c \in Batches
<1> DEFINE S == Seq(Line)
<1>1. a \in Seq(S) /\ b \in Seq(S) /\ c \in Seq(S)
  BY DEF Batches
<1> HIDE DEF S
<1>2. a \o b \in Seq(S) /\ b \o c \in Seq(S)
  BY <1>1, ConcatIndex
<1>3. (a \o b) \o c \in Seq(S) /\ (a \o b) \o c = a \o (b \o c)
  BY <1>1, <1>2, ConcatIndex, Regroup
<1> QED BY <1>2, <1>3 DEF S, Batches

\* The same, an equation at a time.
LEMMA BatchesRegroup ==
    ASSUME NEW a \in Batches, NEW b \in Batches, NEW c \in Batches
    PROVE  (a \o b) \o c = a \o (b \o c)
BY Rebracket

LEMMA LinesRegroup ==
    ASSUME NEW a \in Seq(Line), NEW b \in Seq(Line), NEW c \in Seq(Line)
    PROVE  (a \o b) \o c = a \o (b \o c)
BY Regroup

LEMMA EmptyBatch ==
    /\ <<>> \in Batches /\ <<>> \in Seq(Line)
    /\ \A a \in Batches : a \o <<>> = a /\ <<>> \o a = a
BY DEF Batches

LEMMA AlikeConcat ==
    ASSUME NEW a \in Batches, NEW b \in Batches, NEW c \in Batches, NEW d \in Batches,
           NEW from, NEW g, Alike(a, b, from, g), Alike(c, d, from, g)
    PROVE  Alike(a \o c, b \o d, from, g)
<1>1. /\ IdsOf(a \o c, from, g) = IdsOf(a, from, g) \cup IdsOf(c, from, g)
      /\ Rising(a \o c, from, g)
           <=> /\ Rising(a, from, g) /\ Rising(c, from, g)
               /\ Less(IdsOf(a, from, g), IdsOf(c, from, g))
  BY Concat
<1>2. /\ IdsOf(b \o d, from, g) = IdsOf(b, from, g) \cup IdsOf(d, from, g)
      /\ Rising(b \o d, from, g)
           <=> /\ Rising(b, from, g) /\ Rising(d, from, g)
               /\ Less(IdsOf(b, from, g), IdsOf(d, from, g))
  BY Concat
<1> QED BY <1>1, <1>2 DEF Alike

LEMMA WithoutIds ==
    ASSUME NEW x \in Seq(Line), NEW from, NEW g, Without(x, from, g)
    PROVE  /\ <<x>> \in Batches /\ IdsOf(<<x>>, from, g) = {} /\ Rising(<<x>>, from, g)
<1>1. \A n : n \notin IdsOf(<<x>>, from, g)
  BY Single DEF Without
<1>2. Rising(<<x>>, from, g)
  BY Single DEF Without
<1> QED BY <1>1, <1>2, Single

LEMMA AlikeWithout ==
    ASSUME NEW x \in Seq(Line), NEW from, NEW g, Without(x, from, g), NEW b \in Batches
    PROVE  Alike(<<x>> \o b, b, from, g) /\ Alike(b \o <<x>>, b, from, g)
<1>1. <<x>> \in Batches /\ IdsOf(<<x>>, from, g) = {} /\ Rising(<<x>>, from, g)
  BY WithoutIds
<1> DEFINE y == <<x>>
<1> HIDE DEF y
<1>2. /\ IdsOf(y \o b, from, g) = IdsOf(y, from, g) \cup IdsOf(b, from, g)
      /\ Rising(y \o b, from, g)
           <=> /\ Rising(y, from, g) /\ Rising(b, from, g)
               /\ Less(IdsOf(y, from, g), IdsOf(b, from, g))
  BY <1>1, Concat DEF y
<1>3. /\ IdsOf(b \o y, from, g) = IdsOf(b, from, g) \cup IdsOf(y, from, g)
      /\ Rising(b \o y, from, g)
           <=> /\ Rising(b, from, g) /\ Rising(y, from, g)
               /\ Less(IdsOf(b, from, g), IdsOf(y, from, g))
  BY <1>1, Concat DEF y
<1>4. IdsOf(y, from, g) = {} /\ Rising(y, from, g)
  BY <1>1 DEF y
<1>5. Less(IdsOf(y, from, g), IdsOf(b, from, g)) /\ Less(IdsOf(b, from, g), IdsOf(y, from, g))
  BY <1>4 DEF Less
<1>6. Alike(y \o b, b, from, g) /\ Alike(b \o y, b, from, g)
  BY <1>2, <1>3, <1>4, <1>5 DEF Alike
<1> QED BY <1>6 DEF y

\* Two batches and the one they make together.
LEMMA AlikeFuse ==
    ASSUME NEW x \in Seq(Line), NEW y \in Seq(Line), NEW from, NEW g
    PROVE  /\ <<x>> \in Batches /\ <<y>> \in Batches /\ <<x \o y>> \in Batches
           /\ x \o y \in Seq(Line)
           /\ Alike(<<x>> \o <<y>>, <<x \o y>>, from, g)
<1>1. x \o y \in Seq(Line)
  BY ConcatIndex
<1>2. <<x>> \in Batches /\ <<y>> \in Batches /\ <<x \o y>> \in Batches
  BY <1>1, Single
<1> DEFINE a == <<x>>
           b == <<y>>
           c == <<x \o y>>
<1>3. /\ IdsOf(c, from, g) = IdsOf(a, from, g) \cup IdsOf(b, from, g)
      /\ Rising(c, from, g)
           <=> /\ Rising(a, from, g) /\ Rising(b, from, g)
               /\ Less(IdsOf(a, from, g), IdsOf(b, from, g))
  BY Joined
<1> HIDE DEF a, b, c
<1>4. /\ IdsOf(a \o b, from, g) = IdsOf(a, from, g) \cup IdsOf(b, from, g)
      /\ Rising(a \o b, from, g)
           <=> /\ Rising(a, from, g) /\ Rising(b, from, g)
               /\ Less(IdsOf(a, from, g), IdsOf(b, from, g))
  BY <1>2, Concat DEF a, b
<1>5. Alike(a \o b, c, from, g)
  BY <1>3, <1>4 DEF Alike
<1> QED BY <1>1, <1>2, <1>5 DEF a, b, c

LEMMA AlikeHolds ==
    ASSUME NEW a, NEW b, NEW from, NEW g, Alike(a, b, from, g)
    PROVE  /\ Gapless(a, from, g) <=> Gapless(b, from, g)
           /\ \A n : Numbered(a, from, g, n) <=> Numbered(b, from, g, n)
           /\ Alike(b, a, from, g)
BY DEF Alike, Gapless, Numbered

\* A first part of what has no gap has none, and what is numbered has none.
LEMMA GaplessFront ==
    ASSUME NEW a \in Batches, NEW b \in Batches, NEW from, NEW g, Gapless(a \o b, from, g)
    PROVE  Gapless(a, from, g)
<1> DEFINE A == IdsOf(a, from, g)
           B == IdsOf(b, from, g)
<1>1. /\ IdsOf(a \o b, from, g) = A \cup B /\ Rising(a, from, g) /\ Less(A, B)
      /\ A \subseteq Nat /\ B \subseteq Nat
  BY Concat, IdsTyped DEF Gapless
<1>2. \A n \in A : 1 .. n \subseteq A \cup B
  BY <1>1 DEF Gapless
<1> HIDE DEF A, B
<1>3. ASSUME NEW n \in A, NEW m \in 1 .. n
      PROVE  m \in A
  <2>1. m \in A \/ m \in B
    BY <1>2
  <2>2. m \notin B
    BY <1>1 DEF Less
  <2> QED BY <2>1, <2>2
<1> QED BY <1>1, <1>3 DEF Gapless, A

LEMMA GaplessNumbered ==
    ASSUME NEW a, NEW from, NEW g, NEW n \in Nat, Numbered(a, from, g, n)
    PROVE  Gapless(a, from, g)
<1>1. \A m \in 1 .. n : 1 .. m \subseteq 1 .. n
  OBVIOUS
<1> QED BY <1>1 DEF Numbered, Gapless

\* The next lines go behind the last.
LEMMA NumberedGrows ==
    ASSUME NEW a \in Batches, NEW x \in Seq(Line), NEW from, NEW g,
           NEW k \in Nat, NEW n \in Nat, Numbered(a, from, g, k),
           Len(x) = n, \A i \in 1 .. n : Of(x[i], from, g) /\ x[i].id = k + i
    PROVE  Numbered(a \o <<x>>, from, g, k + n)
<1>1. <<x>> \in Batches /\ DOMAIN x = 1 .. n
  BY Single
<1> DEFINE y == <<x>>
<1>2. \A m : m \in IdsOf(y, from, g) <=> \E i \in DOMAIN x : Of(x[i], from, g) /\ x[i].id = m
  BY Single
<1>3. Rising(y, from, g)
  BY <1>1, Single
<1> HIDE DEF y
<1>4. IdsOf(y, from, g) = (k + 1) .. (k + n)
  <2>1. ASSUME NEW m \in IdsOf(y, from, g)
        PROVE  m \in (k + 1) .. (k + n)
    BY <1>1, <1>2
  <2>2. ASSUME NEW m \in (k + 1) .. (k + n)
        PROVE  m \in IdsOf(y, from, g)
    <3>1. m - k \in 1 .. n /\ k + (m - k) = m
      OBVIOUS
    <3>2. m - k \in DOMAIN x /\ Of(x[m - k], from, g) /\ x[m - k].id = m
      BY <1>1, <3>1
    <3> QED BY <1>2, <3>2
  <2> QED BY <2>1, <2>2
<1>5. /\ IdsOf(a \o y, from, g) = IdsOf(a, from, g) \cup IdsOf(y, from, g)
      /\ Rising(a \o y, from, g)
           <=> /\ Rising(a, from, g) /\ Rising(y, from, g)
               /\ Less(IdsOf(a, from, g), IdsOf(y, from, g))
  BY <1>1, Concat DEF y
<1>6. IdsOf(a, from, g) = 1 .. k /\ Rising(a, from, g)
  BY DEF Numbered
<1>7. Less(1 .. k, (k + 1) .. (k + n)) /\ (1 .. k) \cup ((k + 1) .. (k + n)) = 1 .. (k + n)
  BY DEF Less
<1>8. Numbered(a \o y, from, g, k + n)
  BY <1>3, <1>4, <1>5, <1>6, <1>7 DEF Numbered
<1> QED BY <1>8 DEF y

-----------------------------------------------------------------------------
(* The path of a generation *)

PathOf(wl, pending, kept, queued) == ((<<wl>> \o <<pending>>) \o kept) \o queued

KeptNow == IF pc \in Setting \cup {"replay"} THEN s.kept ELSE <<>>

LEMMA PathIs ==
    ASSUME NEW g \in Gens
    PROVE  /\ Path(g) = PathOf(Lines(conn[g].wire), w.pending, Load(KeptNow), Load(cmd))
           /\ Path(g)' = PathOf(Lines(conn'[g].wire), w'.pending, Load(KeptNow'), Load(cmd'))
           /\ WireLines(g) = Lines(conn[g].wire)
BY DEF Path, PathOf, WireLines, Lines, KeptNow

LEMMA PathTyped ==
    ASSUME TypeInv
    PROVE  /\ \A g \in Gens : conn[g].wire \in Seq(Sent) /\ Lines(conn[g].wire) \in Seq(Line)
           /\ w.pending \in Seq(Line) /\ KeptNow \in Seq(Commands) /\ cmd \in Seq(Commands)
           /\ Load(KeptNow) \in Batches /\ Load(cmd) \in Batches
<1>1. \A g \in Gens : conn[g].wire \in Seq(Sent)
  BY ConnTyped DEF Conns
<1>2. w.pending \in Seq(Line) /\ cmd \in Seq(Commands)
  BY StateTyped, WriterFields
<1>3. KeptNow \in Seq(Commands)
  BY KeptTyped DEF KeptNow
<1> QED BY <1>1, <1>2, <1>3, LinesTyped, LoadBatches

\* The queue as the continuation of the wire.
LEMMA PathFlat ==
    ASSUME NEW wl \in Seq(Line), NEW p \in Seq(Line), NEW k \in Batches, NEW d \in Batches,
           NEW from, NEW g
    PROVE  /\ PathOf(wl, p, k, d) \in Batches
           /\ wl \o p \in Seq(Line) /\ <<wl \o p>> \in Batches /\ k \o d \in Batches
           /\ Alike(PathOf(wl, p, k, d), <<wl \o p>> \o (k \o d), from, g)
<1> DEFINE a == <<wl>>
           b == <<p>>
           c == <<wl \o p>>
<1>1. /\ a \in Batches /\ b \in Batches /\ c \in Batches /\ Alike(a \o b, c, from, g)
      /\ wl \o p \in Seq(Line)
  BY AlikeFuse
<1> HIDE DEF a, b, c
<1> DEFINE e == a \o b
<1>2. e \in Batches
  BY <1>1, Rebracket
<1> HIDE DEF e
<1>3. (e \o k) \o d = e \o (k \o d) /\ (e \o k) \o d \in Batches /\ k \o d \in Batches
  BY <1>2, Rebracket
<1>4. Alike(e \o (k \o d), c \o (k \o d), from, g)
  <2>1. Alike(e, c, from, g) /\ Alike(k \o d, k \o d, from, g)
    BY <1>1 DEF Alike, e
  <2> QED BY <1>1, <1>2, <1>3, <2>1, AlikeConcat
<1> QED BY <1>1, <1>3, <1>4 DEF PathOf, a, b, c, e

\* One more batch on its way.
LEMMA PathGrows ==
    ASSUME NEW wl \in Seq(Line), NEW p \in Seq(Line), NEW k \in Batches, NEW d \in Batches,
           NEW x \in Batches
    PROVE  /\ PathOf(wl, p, k, d \o x) = PathOf(wl, p, k, d) \o x
           /\ PathOf(wl, p, k \o x, d) = PathOf(wl, p, k, x \o d)
<1> DEFINE a == <<wl>> \o <<p>>
<1>1. a \in Batches
  BY AlikeFuse, Rebracket
<1> HIDE DEF a
<1> DEFINE b == a \o k
<1>2. b \in Batches /\ a \o (k \o x) = b \o x
  BY <1>1, Rebracket
<1> HIDE DEF b
<1>3. b \o (d \o x) = (b \o d) \o x
  BY <1>2, Rebracket
<1>4. (b \o x) \o d = b \o (x \o d)
  BY <1>2, Rebracket
<1> QED BY <1>2, <1>3, <1>4 DEF PathOf, a, b

\* An adopted connection that has sent nothing.
LEMMA PathFresh ==
    ASSUME NEW d \in Batches, NEW from, NEW g
    PROVE  PathOf(<<>>, <<>>, <<>>, d) \in Batches /\ Alike(PathOf(<<>>, <<>>, <<>>, d), d, from, g)
<1> DEFINE e == <<>>
           q == <<e \o e>>
<1>1. e \in Seq(Line) /\ e \in Batches /\ e \o e = e /\ e \o d = d
  BY EmptyBatch
<1>2. Without(e, from, g)
  BY DEF Without
<1>3. Alike(<<e>> \o d, d, from, g)
  BY <1>1, <1>2, AlikeWithout
<1>4. /\ PathOf(e, e, e, d) \in Batches
      /\ Alike(PathOf(e, e, e, d), q \o (e \o d), from, g)
  BY <1>1, PathFlat
<1>5. q \o (e \o d) = <<e>> \o d
  BY <1>1
<1>6. Alike(PathOf(e, e, e, d), d, from, g)
  BY <1>3, <1>4, <1>5 DEF Alike
<1> QED BY <1>4, <1>6

-----------------------------------------------------------------------------
(* Nothing on the path is lost *)

\* All that was submitted for g and not dropped, and all replies handed over,
\* lie on the path p.
WholeOf(p, g, typed, open, ponged) ==
    /\ Numbered(p, "ui", g, typed)
    /\ Gapless(p, "pong", g)
    /\ open => IdsOf(p, "pong", g) = 1 .. ponged

Whole(g) == WholeOf(Path(g), g, ui.typed[g], cmdOpen, Ponged(g))

Chained == \A g \in Gens : Carries(g) => Whole(g)

\* A Dial on its way has the lines of its generation behind it.
Fresh ==
    \A i \in DOMAIN cmd : cmd[i].k = "Dial" =>
        Numbered(Load(cmd), "ui", cmd[i].gen, ui.typed[cmd[i].gen])

Ordered ==
    \A g \in Gens : \A from \in {"ui", "pong"} : Gapless(<<Lines(conn[g].wire)>>, from, g)

\* An orderly end, after which the UI has turned away from the generation.
Flushed ==
    \A g \in Gens : conn[g].st = "flushed" =>
        /\ Numbered(<<Lines(conn[g].wire)>>, "ui", g, ui.typed[g])
        /\ g # 0 /\ g <= ui.gen /\ (ui.want # g \/ ~cmdOpen)

PathInv == Chained /\ Fresh /\ Ordered /\ Flushed

LEMMA WholeSame ==
    ASSUME NEW p, NEW q, NEW g, NEW typed, NEW open, NEW ponged,
           \A from \in {"ui", "pong"} : Alike(p, q, from, g),
           WholeOf(p, g, typed, open, ponged)
    PROVE  WholeOf(q, g, typed, open, ponged)
<1>1. Alike(p, q, "ui", g) /\ Alike(p, q, "pong", g)
  OBVIOUS
<1>2. Numbered(q, "ui", g, typed) /\ Gapless(q, "pong", g)
  BY <1>1, AlikeHolds DEF WholeOf
<1> QED BY <1>1, <1>2 DEF WholeOf, Alike

\* The lines a command carries are of one producer.
LEMMA MadeWithout ==
    ASSUME NEW c \in Commands, NEW rd, Made(rd, c), NEW g
    PROVE  /\ Carried(c) \in Seq(Line)
           /\ c.k = "Cont" =>
                /\ Without(Carried(c), "pong", g)
                /\ (\A n \in DOMAIN c.lines : c.lines[n].gen # g)
                     => Without(Carried(c), "ui", g)
           /\ c.k = "Pong" =>
                /\ Without(Carried(c), "ui", g)
                /\ c.gen # g => Without(Carried(c), "pong", g)
           /\ c.k \notin {"Cont", "Pong"} => \A from : Without(Carried(c), from, g)
<1>1. Carried(c) \in Seq(Line)
  BY CarriedLines
<1>2. ASSUME c.k = "Cont"
      PROVE  /\ Without(Carried(c), "pong", g)
             /\ (\A n \in DOMAIN c.lines : c.lines[n].gen # g)
                  => Without(Carried(c), "ui", g)
  BY <1>2 DEF Carried, Without, Made, Of
<1>3. ASSUME c.k = "Pong"
      PROVE  /\ Without(Carried(c), "ui", g)
             /\ c.gen # g => Without(Carried(c), "pong", g)
  <2>1. Carried(c) = c.lines
    BY <1>3, CarriedLines
  <2>2. \A i \in DOMAIN c.lines : i = 1
    <3>1. DOMAIN c.lines = 1 .. 1
      BY <1>1, <1>3, <2>1 DEF Made
    <3> QED BY <3>1
  <2> QED BY <1>3, <2>1, <2>2 DEF Without, Made, Of
<1>4. ASSUME c.k \notin {"Cont", "Pong"}, NEW from
      PROVE  Without(Carried(c), from, g)
  BY <1>4, CarriedLines DEF Without
<1> QED BY <1>1, <1>2, <1>3, <1>4

\* Commands that carry none of g's lines.
LEMMA LoadWithout ==
    ASSUME NEW q \in Seq(Commands), NEW from, NEW g,
           \A i \in DOMAIN q : Without(Carried(q[i]), from, g)
    PROVE  IdsOf(Load(q), from, g) = {} /\ Rising(Load(q), from, g)
<1>1. \A i \in DOMAIN q : Carried(q[i]) \in Seq(Line)
  <2>1. \A i \in DOMAIN q : q[i] \in Commands
    OBVIOUS
  <2> QED BY <2>1, CarriedLines
<1>2. \A n : n \notin IdsOf(Load(q), from, g)
  BY <1>1, LoadIds, WithoutIds, ZenonT(40)
<1>3. Rising(Load(q), from, g)
  <2>1. Load(q) \in Batches /\ DOMAIN Load(q) = DOMAIN q
        /\ \A i \in DOMAIN q : Load(q)[i] = Carried(q[i])
    BY LoadBatches
  <2> QED BY <1>1, <2>1 DEF Rising, Without
<1> QED BY <1>2, <1>3

\* A reader that has not started has replied to nothing.
LEMMA NoReplies ==
    ASSUME TypeInv, AllMade, NEW g \in Gens, reader[g].pc = "none"
    PROVE  IdsOf(Load(cmd), "pong", g) = {} /\ Gapless(Load(cmd), "pong", g)
<1>1. \A i \in DOMAIN cmd : Without(Carried(cmd[i]), "pong", g)
  <2> SUFFICES ASSUME NEW i \in DOMAIN cmd
               PROVE  Without(Carried(cmd[i]), "pong", g)
    OBVIOUS
  <2>1. cmd[i] \in Commands /\ Made(reader, cmd[i])
    BY StateTyped DEF AllMade
  <2>2. cmd[i].k = "Pong" => cmd[i].gen # g
    BY <2>1 DEF Made
  <2> QED BY <2>1, <2>2, MadeWithout
<1> QED BY <1>1, StateTyped, LoadWithout DEF Gapless

\* The Dial in front takes the path of its generation over.
LEMMA FreshWhole ==
    ASSUME TypeInv, WantInv, ShapeInv, PathInv, cmd # <<>>, cmd' = Tail(cmd),
           NEW g \in Gens, Head(cmd).k = "Dial", g = Head(cmd).gen, ~Behind(g)
    PROVE  /\ WholeOf(PathOf(<<>>, <<>>, <<>>, Load(cmd')), g, ui.typed[g], cmdOpen, Ponged(g))
           /\ conn[g].wire = <<>>
<1>1. /\ conn[g].wire = <<>> /\ reader[g].pc = "none" /\ Ponged(g) = 0
  BY Unregistered DEF ShapeInv
<1>2. cmd \in Seq(Commands) /\ Head(cmd) \in Commands /\ cmd' \in Seq(Commands)
  BY StateTyped, TakenCmd, HeadTailProperties
<1>3. 1 \in DOMAIN cmd /\ cmd[1] = Head(cmd)
  BY <1>2, TailIndex
<1> DEFINE q == Load(cmd)
           d == Load(cmd')
           p == PathOf(<<>>, <<>>, <<>>, d)
<1>4. q = <<Carried(Head(cmd))>> \o d /\ d \in Batches
  BY <1>2, LoadTail, LoadBatches
<1>5. Carried(Head(cmd)) \in Seq(Line) /\ \A from : Without(Carried(Head(cmd)), from, g)
  <2>1. Made(reader, Head(cmd))
    BY <1>3 DEF ShapeInv, AllMade
  <2> QED BY <1>2, <2>1, MadeWithout
<1>6. Numbered(q, "ui", g, ui.typed[g])
  BY <1>3 DEF PathInv, Fresh
<1>7. Gapless(q, "pong", g) /\ IdsOf(q, "pong", g) = {}
  BY <1>1, NoReplies DEF ShapeInv
<1>8. WholeOf(q, g, ui.typed[g], cmdOpen, Ponged(g))
  <2>1. 1 .. Ponged(g) = {}
    BY <1>1
  <2> QED BY <1>6, <1>7, <2>1 DEF WholeOf
<1> HIDE DEF q, d, p
<1>9. \A from \in {"ui", "pong"} : Alike(q, p, from, g)
  <2> SUFFICES ASSUME NEW from \in {"ui", "pong"}
               PROVE  Alike(q, p, from, g)
    OBVIOUS
  <2>1. Alike(q, d, from, g)
    BY <1>4, <1>5, AlikeWithout
  <2>2. Alike(p, d, from, g)
    BY <1>4, PathFresh DEF p
  <2> QED BY <2>1, <2>2 DEF Alike
<1>10. WholeOf(p, g, ui.typed[g], cmdOpen, Ponged(g))
  BY <1>8, <1>9, WholeSame
<1> QED BY <1>1, <1>10 DEF p, d

\* A command that carries none of g's lines leaves the channel.
LEMMA PathDrops ==
    ASSUME TypeInv, cmd # <<>>, NEW g, NEW from, Without(Carried(Head(cmd)), from, g),
           NEW wl \in Seq(Line), NEW p \in Seq(Line), NEW k \in Batches
    PROVE  Alike(PathOf(wl, p, k, Load(cmd)), PathOf(wl, p, k, Load(Tail(cmd))), from, g)
<1>1. /\ cmd \in Seq(Commands) /\ Head(cmd) \in Commands /\ Tail(cmd) \in Seq(Commands)
      /\ Carried(Head(cmd)) \in Seq(Line)
  BY StateTyped, HeadTailProperties, CarriedLines
<1> DEFINE x == Carried(Head(cmd))
           d == Load(Tail(cmd))
           b == (<<wl>> \o <<p>>) \o k
<1>2. Load(cmd) = <<x>> \o d /\ d \in Batches /\ x \in Seq(Line)
  BY <1>1, LoadTail, LoadBatches
<1>3. <<wl>> \o <<p>> \in Batches
  BY AlikeFuse, Rebracket
<1>4. b \in Batches
  BY <1>3, Rebracket
<1>5. Without(x, from, g)
  OBVIOUS
<1> HIDE DEF x, d, b
<1>6. Alike(<<x>> \o d, d, from, g) /\ <<x>> \in Batches /\ <<x>> \o d \in Batches
  BY <1>2, <1>5, AlikeWithout, WithoutIds, Rebracket
<1>7. Alike(b \o (<<x>> \o d), b \o d, from, g)
  <2>1. Alike(b, b, from, g)
    BY DEF Alike
  <2> QED BY <1>2, <1>4, <1>6, <2>1, AlikeConcat
<1> QED BY <1>2, <1>7 DEF PathOf, b, d

-----------------------------------------------------------------------------
(* The path of what is in play, step by step *)

LEMMA WholeKept ==
    ASSUME NEW g \in Gens, Whole(g), ui'.typed[g] = ui.typed[g], cmdOpen' => cmdOpen,
           Ponged(g)' = Ponged(g),
           \A from \in {"ui", "pong"} : Alike(Path(g), Path(g)', from, g)
    PROVE  Whole(g)'
<1>1. WholeOf(Path(g)', g, ui.typed[g], cmdOpen, Ponged(g))
  BY WholeSame DEF Whole
<1> QED BY <1>1 DEF WholeOf, Whole

LEMMA SamePath ==
    ASSUME NEW g \in Gens, conn'[g].wire = conn[g].wire, w'.pending = w.pending,
           KeptNow' = KeptNow, cmd' = cmd
    PROVE  Path(g)' = Path(g) /\ \A from : Alike(Path(g), Path(g)', from, g)
<1>1. Path(g)' = Path(g)
  BY PathIs
<1> QED BY <1>1 DEF Alike

LEMMA ChainedStays ==
    ASSUME TypeInv, ShapeInv, PathInv, Stays, NEW g \in Gens, Carries(g)'
    PROVE  Whole(g)'
<1>1. /\ UNCHANGED <<w, cmd, cmdOpen, ui>>
      /\ conn'[g].wire = conn[g].wire /\ Ponged(g)' = Ponged(g)
  BY DEF Stays, WiresKept, ReadersKept
<1>2. KeptNow' = KeptNow
  <2>1. CASE UNCHANGED <<pc, s>>
    BY <2>1 DEF KeptNow
  <2>2. CASE pc \in Setting /\ pc' \in Setting /\ s'.kept = s.kept
    BY <2>2 DEF KeptNow
  <2>3. CASE pc \in {"eof", "done"} /\ pc' \in {"done", "stopped"}
    BY <2>3 DEF KeptNow, Setting
  <2> QED BY <2>1, <2>2, <2>3 DEF Stays
<1>3. Whole(g)
  BY CarriesStays DEF PathInv, Chained
<1> QED BY <1>1, <1>2, <1>3, SamePath, WholeKept

LEMMA ChainedDrained ==
    ASSUME TypeInv, DialInv, WantInv, ShapeInv, OwnInv, PathInv, Drained,
           NEW g \in Gens, Carries(g)'
    PROVE  Whole(g)'
<1>1. /\ cmd # <<>> /\ cmd' = Tail(cmd) /\ UNCHANGED <<w, cmdOpen, conn, reader, ui>>
      /\ Head(cmd) \in Commands /\ pc \in Setting /\ pc' \in Setting
      /\ cmd \in Seq(Commands) /\ cmd' \in Seq(Commands)
  BY TakenCmd, StateTyped, HeadTailProperties DEF Drained, Setting
<1>2. Ponged(g)' = Ponged(g)
  BY <1>1 DEF Ponged
<1>3. KeptNow = s.kept /\ KeptNow' = s'.kept
  BY <1>1 DEF KeptNow
<1> DEFINE wl == Lines(conn[g].wire)
           p == w.pending
           k == Load(s.kept)
           x == Carried(Head(cmd))
           d == Load(cmd')
<1>4. /\ Path(g) = PathOf(wl, p, k, Load(cmd))
      /\ Path(g)' = PathOf(wl, p, Load(s'.kept), d)
  BY <1>1, <1>3, PathIs
<1>5. /\ wl \in Seq(Line) /\ p \in Seq(Line) /\ k \in Batches /\ x \in Seq(Line)
      /\ <<x>> \in Batches /\ d \in Batches /\ Load(cmd) = <<x>> \o d
  BY <1>1, <1>3, PathTyped, CarriedLines, Single, LoadTail, LoadBatches
<1>6. Made(reader, Head(cmd))
  BY <1>1, TailIndex DEF ShapeInv, AllMade
<1>7. CASE Head(cmd).k = "Dial"
  <2>1. g = Head(cmd).gen /\ s'.kept = <<>>
    BY <1>7, CarriesDrained
  <2>2. ~Behind(g)
    <3>1. s.gen < g /\ s.gen \in Nat /\ g \in Nat
      BY <1>1, <1>7, <2>1, NoSuperseded, StateTyped, GensTyped
    <3>2. ~(g < s.gen)
      BY <3>1
    <3> QED BY <1>1, <3>2 DEF Behind
  <2>3. w.pending = <<>>
    <3>1. ~w.sock
      BY <1>1 DEF ShapeInv, Sockets, Setting
    <3> QED BY <3>1 DEF TypeInv, WriterRests
  <2>4. conn[g].wire = <<>>
        /\ WholeOf(PathOf(<<>>, <<>>, <<>>, d), g, ui.typed[g], cmdOpen, Ponged(g))
    BY <1>1, <1>7, <2>1, <2>2, FreshWhole
  <2>5. wl = <<>> /\ Load(s'.kept) = <<>>
    BY <2>1, <2>4, HersEmpty, LoadBatches, <1>1
  <2>6. Path(g)' = PathOf(<<>>, <<>>, <<>>, d)
    BY <1>4, <2>3, <2>5
  <2> QED BY <1>1, <1>2, <2>4, <2>6 DEF Whole
<1>8. CASE Head(cmd).k # "Dial"
  <2>1. /\ Carries(g)
        /\ Head(cmd).k \in {"Cont", "Pong", "Pump", "Begin"}
        /\ Head(cmd).k \in {"Cont", "Pong"} => s'.kept = Append(s.kept, Head(cmd))
        /\ Head(cmd).k \in {"Pump", "Begin"} => s'.kept = s.kept
    BY <1>1, <1>8, CarriesDrained, CommandFields
  <2>2. Whole(g)
    BY <2>1 DEF PathInv, Chained
  <2>3. ASSUME NEW from \in {"ui", "pong"}
        PROVE  Alike(Path(g), Path(g)', from, g)
    <3>1. CASE Head(cmd).k \in {"Cont", "Pong"}
      <4>1. Load(s'.kept) = k \o <<x>>
        BY <1>1, <2>1, <3>1, KeptTyped, LoadAppend
      <4> HIDE DEF wl, p, k, x, d
      <4>2. PathOf(wl, p, k \o <<x>>, d) = PathOf(wl, p, k, <<x>> \o d)
        BY <1>5, PathGrows
      <4>3. Path(g)' = Path(g)
        BY <1>4, <1>5, <4>1, <4>2
      <4> QED BY <4>3 DEF Alike
    <3>2. CASE Head(cmd).k \in {"Pump", "Begin"}
      <4>1. Without(Carried(Head(cmd)), from, g)
        BY <1>1, <1>6, <3>2, MadeWithout
      <4>2. Alike(PathOf(wl, p, k, Load(cmd)), PathOf(wl, p, k, Load(Tail(cmd))), from, g)
        BY <1>1, <1>5, <4>1, PathDrops
      <4> QED BY <1>1, <1>4, <2>1, <3>2, <4>2
    <3> QED BY <2>1, <3>1, <3>2
  <2> QED BY <1>1, <1>2, <2>2, <2>3, WholeKept
<1> QED BY <1>7, <1>8

LEMMA ChainedRegister ==
    ASSUME TypeInv, WantInv, ShapeInv, PathInv, Register, NEW g \in Gens, Carries(g)'
    PROVE  Whole(g)'
<1>1. /\ pc = "decide" /\ pc' = "replay" /\ ~w.sock /\ w'.pending = <<>>
      /\ conn'[s.gen].wire = conn[s.gen].wire
      /\ UNCHANGED <<s, cmd, cmdOpen, reader, ui>>
  BY RegisterFacts
<1>2. g = s.gen /\ Carries(g)
  BY CarriesRegister
<1>3. w.pending = <<>> /\ KeptNow' = KeptNow /\ Ponged(g)' = Ponged(g)
  BY <1>1 DEF TypeInv, WriterRests, KeptNow, Setting, Ponged
<1>4. Whole(g)
  BY <1>2 DEF PathInv, Chained
<1> QED BY <1>1, <1>2, <1>3, <1>4, SamePath, WholeKept

LEMMA ChainedArmBoot ==
    ASSUME TypeInv, ShapeInv, PathInv, ArmBoot, NEW g \in Gens, Carries(g)'
    PROVE  Whole(g)'
<1>1. /\ pc = "replay" /\ pc' = "loop" /\ s.kept = <<>> /\ StartReader(w.gen)
      /\ UNCHANGED <<w, conn, cmd, cmdOpen, ui>>
  BY DEF ArmBoot
<1>2. Carries(g)
  BY <1>1 DEF Carries, InPlay, Deferring, Setting
<1>3. KeptNow' = KeptNow /\ Ponged(g)' = Ponged(g)
  BY <1>1, StartFacts DEF KeptNow, Setting
<1>4. Whole(g)
  BY <1>2 DEF PathInv, Chained
<1> QED BY <1>1, <1>3, <1>4, SamePath, WholeKept

LEMMA ChainedCloses ==
    ASSUME TypeInv, DialInv, WantInv, ShapeInv, PathInv, Closes, NEW g \in Gens, Carries(g)'
    PROVE  Whole(g)'
<1>1. PICK report, wire, how : Closing(report, wire, how)
  BY DEF Closes
<1>2. /\ pc = "loop" /\ pc' = "dial" /\ cmd # <<>> /\ cmd' = Tail(cmd) /\ Head(cmd).k = "Dial"
      /\ g = Head(cmd).gen /\ s'.kept = <<>> /\ UNCHANGED <<cmdOpen, reader, ui>>
  BY <1>1, CarriesCloses DEF Closing
<1>3. w.gen < g /\ w.gen \in Nat /\ g \in Nat /\ ~Behind(g)
  BY <1>2, NoSuperseded, StateTyped, GensTyped DEF Behind, Setting
<1>4. w'.pending = <<>> /\ conn'[g] = conn[g]
  BY <1>1, <1>3, ClosingFacts
<1>5. /\ WholeOf(PathOf(<<>>, <<>>, <<>>, Load(cmd')), g, ui.typed[g], cmdOpen, Ponged(g))
      /\ conn[g].wire = <<>>
  BY <1>2, <1>3, FreshWhole
<1>6. Path(g)' = PathOf(<<>>, <<>>, <<>>, Load(cmd'))
  <2>1. KeptNow' = <<>>
    BY <1>2 DEF KeptNow
  <2>2. Load(<<>>) = <<>> /\ Lines(<<>>) = <<>>
    BY HersEmpty, LoadBatches, StateTyped
  <2> QED BY <1>4, <1>5, <2>1, <2>2, PathIs
<1>7. Ponged(g)' = Ponged(g)
  BY <1>2 DEF Ponged
<1> QED BY <1>2, <1>5, <1>6, <1>7 DEF Whole

LEMMA ChainedDeferred ==
    ASSUME TypeInv, DialInv, WantInv, ShapeInv, OwnInv, PathInv, DeferredCommand,
           NEW g \in Gens, Carries(g)'
    PROVE  Whole(g)'
<1>1. /\ pc = "deferred" /\ cmd # <<>> /\ cmd' = Tail(cmd)
      /\ UNCHANGED <<cmdOpen, conn, reader, ui>>
      /\ Head(cmd) \in Commands /\ w \in Writers /\ ~w.sock /\ s.kept = <<>> /\ s.gen # 0
      /\ w.pending = <<>>
  BY StateTyped, TakenCmd DEF DeferredCommand, ShapeInv, Sockets, TypeInv, WriterRests
<1>2. /\ pc' \in {"deferred", "dial"} /\ s'.kept = <<>> /\ Deferring
      /\ Head(cmd).k \notin {"Drop", "Hangup"}
      /\ Head(cmd).k = "Dial" => g = Head(cmd).gen
      /\ Head(cmd).k # "Dial" => g = s.gen /\ Carries(g)
      /\ Head(cmd).k # "Begin" => Deferring'
  BY CarriesDeferred
<1>3. w'.pending = <<>>
  <2>1. w' = w \/ w' = [w EXCEPT !.gen = s.gen]
    BY DEF DeferredCommand
  <2> QED BY <1>1, <2>1 DEF Writers
<1>4. KeptNow = <<>> /\ KeptNow' = <<>> /\ Load(<<>>) = <<>> /\ Ponged(g)' = Ponged(g)
  BY <1>1, <1>2, LoadBatches, StateTyped DEF KeptNow, Setting, Ponged
<1>5. /\ Path(g) = PathOf(Lines(conn[g].wire), <<>>, <<>>, Load(cmd))
      /\ Path(g)' = PathOf(Lines(conn[g].wire), <<>>, <<>>, Load(cmd'))
  BY <1>1, <1>3, <1>4, PathIs
<1>6. Made(reader, Head(cmd)) /\ 1 \in DOMAIN cmd /\ cmd[1] = Head(cmd)
  BY <1>1, StateTyped, TailIndex DEF ShapeInv, AllMade
<1>7. CASE Head(cmd).k = "Dial"
  <2>1. ~Behind(g)
    <3>1. s.gen < g /\ s.gen \in Nat /\ g \in Nat
      BY <1>1, <1>2, <1>7, NoSuperseded, StateTyped, GensTyped
    <3>2. ~(g < s.gen)
      BY <3>1
    <3> QED BY <1>1, <3>2 DEF Behind
  <2>2. /\ WholeOf(PathOf(<<>>, <<>>, <<>>, Load(cmd')), g, ui.typed[g], cmdOpen, Ponged(g))
        /\ conn[g].wire = <<>>
    BY <1>1, <1>2, <1>7, <2>1, FreshWhole
  <2>3. Path(g)' = PathOf(<<>>, <<>>, <<>>, Load(cmd'))
    BY <1>5, <2>2, HersEmpty
  <2> QED BY <1>1, <1>4, <2>2, <2>3 DEF Whole
<1>8. CASE Head(cmd).k # "Dial"
  <2>1. g = s.gen /\ Whole(g)
    BY <1>2, <1>8 DEF PathInv, Chained
  <2>2. ASSUME NEW from \in {"ui", "pong"}
        PROVE  Without(Carried(Head(cmd)), from, g)
    <3>1. CASE Head(cmd).k = "Cont"
      <4>1. \A n \in DOMAIN Head(cmd).lines : Head(cmd).lines[n].gen = 0
        <5>1. Unbegun(cmd, ~Deferring, 1)
          <6>1. DOMAIN cmd = 1 .. Len(cmd)
            BY StateTyped
          <6>2. \A j \in DOMAIN cmd : ~(j < 1)
            BY <6>1
          <6> QED BY <1>2, <6>2 DEF Unbegun
        <5> QED BY <1>6, <3>1, <5>1 DEF OwnInv, Owned, OwnedIn
      <4>2. \A n \in DOMAIN Head(cmd).lines : Head(cmd).lines[n].gen # g
        BY <1>1, <2>1, <4>1
      <4> QED BY <1>1, <1>6, <3>1, <4>2, MadeWithout
    <3>2. CASE Head(cmd).k = "Pong"
      <4>1. Head(cmd).gen # g
        <5>1. Head(cmd).gen \in Gens /\ reader[Head(cmd).gen].pc # "none"
          BY <1>6, <3>2 DEF Made
        <5>2. Behind(Head(cmd).gen)
          BY <5>1, Unregistered DEF ShapeInv
        <5> QED BY <1>1, <2>1, <5>2, StateTyped DEF Behind
      <4> QED BY <1>1, <1>6, <3>2, <4>1, MadeWithout
    <3>3. CASE Head(cmd).k \notin {"Cont", "Pong"}
      BY <1>1, <1>6, <3>3, MadeWithout
    <3> QED BY <3>1, <3>2, <3>3
  <2>3. ASSUME NEW from \in {"ui", "pong"}
        PROVE  Alike(Path(g), Path(g)', from, g)
    <3>1. Lines(conn[g].wire) \in Seq(Line)
      BY PathTyped
    <3> QED BY <1>1, <1>5, <2>2, <3>1, PathDrops, EmptyBatch
  <2> QED BY <1>1, <1>4, <2>1, <2>3, WholeKept
<1> QED BY <1>7, <1>8

\* The lines a queue command puts behind those queued.
LEMMA TookCommand ==
    ASSUME TypeInv, NEW c \in Commands, Made(reader, c), NEW from \in {"ui", "pong"}
    PROVE  /\ Outs(c) \in Seq(Line) /\ Carried(c) \in Seq(Line)
           /\ <<Outs(c)>> \in Batches /\ <<Carried(c)>> \in Batches
           /\ Alike(<<Carried(c)>>, <<Outs(c)>>, from, w.gen)
<1>1. Outs(c) \in Seq(Line) /\ Carried(c) \in Seq(Line)
  BY EmptyBatch, CommandFields, CarriedLines DEF Outs
<1>2. Outs(c) = Carried(c) \/ (Outs(c) = <<>> /\ Without(Carried(c), from, w.gen))
  <2>1. CASE c.k = "Pong" /\ c.gen # w.gen
    <3>1. Without(Carried(c), from, w.gen)
      BY <2>1, MadeWithout
    <3> QED BY <2>1, <3>1 DEF Outs
  <2>2. CASE ~(c.k = "Pong" /\ c.gen # w.gen)
    BY <2>2, CarriedLines DEF Outs
  <2> QED BY <2>1, <2>2
<1>3. CASE Outs(c) = Carried(c)
  BY <1>1, <1>3, Single DEF Alike
<1>4. CASE Outs(c) = <<>> /\ Without(Carried(c), from, w.gen)
  <2>1. Without(Outs(c), from, w.gen)
    BY <1>4 DEF Without
  <2>2. /\ IdsOf(<<Carried(c)>>, from, w.gen) = {} /\ Rising(<<Carried(c)>>, from, w.gen)
        /\ IdsOf(<<Outs(c)>>, from, w.gen) = {} /\ Rising(<<Outs(c)>>, from, w.gen)
    BY <1>1, <1>4, <2>1, WithoutIds
  <2> QED BY <1>1, <2>2, Single DEF Alike
<1> QED BY <1>2, <1>3, <1>4

\* What a send takes from the kept commands or from the channel.
LEMMA SendTakes ==
    ASSUME TypeInv, TypeInv', ShapeInv, NEW c, NEW r, SendStep(c, r),
           \/ /\ pc = "replay" /\ pc' = "replay" /\ s.kept # <<>> /\ c = Head(s.kept)
              /\ s' = [s EXCEPT !.kept = Tail(@)] /\ cmd' = cmd
           \/ /\ pc = "replay" /\ pc' = "loop" /\ s.kept = <<>> /\ c = Pump(w.gen)
              /\ cmd' = cmd
           \/ /\ pc = "loop" /\ pc' = "loop" /\ cmd # <<>> /\ c = Head(cmd)
              /\ cmd' = Tail(cmd),
           NEW from \in {"ui", "pong"}
    PROVE  LET x == Load(KeptNow) \o Load(cmd)
               t == Load(KeptNow') \o Load(cmd')
           IN  /\ x \in Batches /\ t \in Batches
               /\ <<Outs(c)>> \o t \in Batches
               /\ Alike(x, <<Outs(c)>> \o t, from, w.gen)
<1> DEFINE x == Load(KeptNow) \o Load(cmd)
           t == Load(KeptNow') \o Load(cmd')
           k == Load(KeptNow)
           k2 == Load(KeptNow')
           d == Load(cmd)
           d2 == Load(cmd')
           y == <<Carried(c)>>
           z == <<Outs(c)>>
<1>1. k \in Batches /\ d \in Batches /\ k2 \in Batches /\ d2 \in Batches
  <2>1. k \in Batches /\ d \in Batches
    BY PathTyped
  <2>2. KeptNow' \in Seq(Commands) /\ cmd' \in Seq(Commands)
    BY DEF KeptNow, TypeInv, TypeOK, Setups
  <2> QED BY <2>1, <2>2, LoadBatches
<1>2. c \in Commands /\ Made(reader, c)
  BY SendMade DEF SendStep
<1>3. z \in Batches /\ y \in Batches /\ Alike(y, z, from, w.gen) /\ Outs(c) \in Seq(Line)
  BY <1>2, TookCommand
<1>4. x \in Batches /\ t \in Batches
  BY <1>1, Rebracket
<1>5. z \o t \in Batches
  BY <1>3, <1>4, Rebracket
<1>6. x = y \o t \/ (x = t /\ Outs(c) = <<>>)
  <2>1. CASE /\ pc = "replay" /\ pc' = "replay" /\ s.kept # <<>> /\ c = Head(s.kept)
             /\ s' = [s EXCEPT !.kept = Tail(@)] /\ cmd' = cmd
    <3>1. KeptNow = s.kept /\ KeptNow' = Tail(s.kept) /\ s.kept \in Seq(Commands)
      BY <2>1, KeptTyped, StateTyped DEF KeptNow, Setups
    <3>2. k = y \o k2
      BY <2>1, <3>1, LoadTail
    <3> HIDE DEF k, k2, y, d
    <3>3. (y \o k2) \o d = y \o (k2 \o d)
      BY ONLY <1>1, <1>3, BatchesRegroup, ZenonT(40)
    <3>4. d2 = d
      BY <2>1 DEF d
    <3>5. k \o d = y \o (k2 \o d2)
      BY <3>2, <3>3, <3>4
    <3> QED BY <3>5 DEF k, k2, d
  <2>2. CASE pc = "replay" /\ pc' = "loop" /\ s.kept = <<>> /\ c = Pump(w.gen) /\ cmd' = cmd
    <3>1. KeptNow = <<>> /\ KeptNow' = <<>>
      BY <2>2 DEF KeptNow, Setting
    <3>2. Outs(c) = <<>>
      BY <2>2 DEF Outs, Pump
    <3> QED BY <2>2, <3>1, <3>2
  <2>3. CASE pc = "loop" /\ pc' = "loop" /\ cmd # <<>> /\ c = Head(cmd) /\ cmd' = Tail(cmd)
    <3>1. KeptNow = <<>> /\ KeptNow' = <<>>
      BY <2>3 DEF KeptNow, Setting
    <3>2. k = <<>> /\ k2 = <<>>
      BY <3>1, LoadBatches, StateTyped
    <3>3. d = y \o d2
      BY <2>3, LoadTail, StateTyped
    <3>4. k \o d = d /\ k2 \o d2 = d2
      <4> HIDE DEF k, k2, d, d2
      <4> QED BY <1>1, <3>2, EmptyBatch
    <3> QED BY <3>3, <3>4
  <2> QED BY <2>1, <2>2, <2>3
<1> HIDE DEF x, t, y, z
<1>7. Alike(x, z \o t, from, w.gen)
  <2>1. CASE x = y \o t
    <3>1. Alike(t, t, from, w.gen)
      BY DEF Alike
    <3> QED BY <1>3, <1>4, <2>1, <3>1, AlikeConcat
  <2>2. CASE x = t /\ Outs(c) = <<>>
    <3>1. Without(Outs(c), from, w.gen)
      BY <2>2 DEF Without
    <3>2. Alike(z \o t, t, from, w.gen)
      BY <1>3, <1>4, <3>1, AlikeWithout DEF z
    <3> QED BY <2>2, <3>2 DEF Alike
  <2> QED BY <1>6, <2>1, <2>2
<1> QED BY <1>4, <1>5, <1>7 DEF x, t, z

\* A send moves lines from the queue to the wire and none besides: the path
\* stays what it was, the wire being a first part of it.
LEMMA SendsPath ==
    ASSUME TypeInv, TypeInv', ShapeInv, Sends, w.sock, NEW from \in {"ui", "pong"},
           NEW g \in Gens, g = w.gen
    PROVE  \E rest \in Seq(Line), t \in Batches :
             LET wl == Lines(conn'[g].wire)
                 q  == <<wl \o rest>> \o t
             IN  /\ wl \in Seq(Line) /\ q \in Batches
                 /\ Alike(Path(g), q, from, g)
                 /\ w'.sock => Alike(Path(g)', q, from, g)
<1>1. PICK c, r :
        /\ SendStep(c, r) /\ UNCHANGED <<cmdOpen, ui>>
        /\ \/ /\ pc = "replay" /\ pc' = "replay" /\ s.kept # <<>> /\ c = Head(s.kept)
              /\ s' = [s EXCEPT !.kept = Tail(@)] /\ UNCHANGED <<cmd, reader>>
           \/ /\ pc = "replay" /\ pc' = "loop" /\ s.kept = <<>> /\ c = Pump(w.gen)
              /\ s' = NoSetup /\ StartReader(w.gen) /\ UNCHANGED cmd
           \/ /\ pc = "loop" /\ pc' = "loop" /\ cmd # <<>> /\ c = Head(cmd)
              /\ c.k \notin {"Drop", "Hangup"} /\ (c.k = "Dial" => DialSuperseded(c))
              /\ cmd' = Tail(cmd) /\ UNCHANGED <<s, reader>>
  BY Zenon DEF Sends
<1>2. g = w.gen
  OBVIOUS
<1> DEFINE x == Load(KeptNow) \o Load(cmd)
           t == Load(KeptNow') \o Load(cmd')
           o == Outs(c)
           wl == Lines(conn[g].wire)
           wl2 == Lines(conn'[g].wire)
           sent == Lines(r.wire)
           p == w.pending
<1>3. x \in Batches /\ t \in Batches /\ <<o>> \o t \in Batches /\ Alike(x, <<o>> \o t, from, g)
  BY <1>1, <1>2, SendTakes
<1>4. /\ o \in Seq(Line) /\ wl \in Seq(Line) /\ p \in Seq(Line) /\ sent \in Seq(Line)
      /\ wl2 = wl \o sent /\ wl2 \in Seq(Line)
  <2>1. /\ r.wire \in Seq(Sent) /\ conn'[g].wire = conn[g].wire \o r.wire
    BY <1>1, <1>2, SendFacts
  <2>2. conn[g].wire \in Seq(Sent) /\ wl \in Seq(Line) /\ p \in Seq(Line)
    BY PathTyped
  <2>3. o \in Seq(Line) /\ sent \in Seq(Line)
    BY <1>1, <2>1, OutcomeMoves, LinesTyped DEF SendStep
  <2>4. wl2 = wl \o sent
    BY <2>1, <2>2, LinesConcat
  <2>5. wl \o sent \in Seq(Line)
    <3> HIDE DEF wl, sent
    <3> QED BY <2>2, <2>3, ConcatIndex
  <2> QED BY <2>2, <2>3, <2>4, <2>5
<1>5. PICK rest \in Seq(Line) : p \o o = sent \o rest /\ (w'.sock => w'.pending = rest)
  <2>1. Moved(w, Outs(c), r) /\ w' = r.w
    BY <1>1, OutcomeMoves, SendFacts DEF SendStep
  <2> QED BY <2>1 DEF Moved
<1>6. (wl \o p) \o o = wl2 \o rest /\ wl \o p \in Seq(Line)
  <2> HIDE DEF wl, p, o, wl2, sent
  <2>1. (wl \o p) \o o = wl \o (p \o o)
    BY ONLY <1>4, LinesRegroup, ZenonT(40)
  <2>2. (wl \o sent) \o rest = wl \o (sent \o rest)
    BY <1>4, LinesRegroup
  <2>3. wl \o p \in Seq(Line)
    BY <1>4, ConcatIndex
  <2> QED BY <1>4, <1>5, <2>1, <2>2, <2>3
<1> DEFINE q == <<wl2 \o rest>> \o t
<1>7. q \in Batches /\ <<wl2 \o rest>> \in Batches
  <2> HIDE DEF wl2, t
  <2>1. <<wl2 \o rest>> \in Batches
    BY <1>4, AlikeFuse
  <2> QED BY <1>3, <2>1, Rebracket
<1>8. Alike(Path(g), q, from, g)
  <2>1. Alike(Path(g), <<wl \o p>> \o x, from, g) /\ <<wl \o p>> \in Batches
    <3>1. Path(g) = PathOf(wl, p, Load(KeptNow), Load(cmd))
      BY PathIs
    <3> DEFINE k == Load(KeptNow)
               d == Load(cmd)
    <3>2. k \in Batches /\ d \in Batches
      BY PathTyped
    <3> HIDE DEF k, d, wl, p
    <3>3. /\ <<wl \o p>> \in Batches
          /\ Alike(PathOf(wl, p, k, d), <<wl \o p>> \o (k \o d), from, g)
      BY ONLY <1>4, <3>2, PathFlat
    <3> QED BY <3>1, <3>3 DEF k, d
  <2> HIDE DEF x, t, o, wl, wl2, p
  <2> DEFINE a == <<wl \o p>>
             b == <<o>>
             e == <<(wl \o p) \o o>>
  <2>2. a \in Batches /\ b \in Batches /\ e \in Batches /\ Alike(a \o b, e, from, g)
    BY <1>4, <1>6, AlikeFuse
  <2>3. e = <<wl2 \o rest>>
    BY <1>6
  <2> HIDE DEF a, b, e
  <2>4. /\ a \o (b \o t) = (a \o b) \o t
        /\ a \o b \in Batches /\ b \o t \in Batches
    <3>1. a \o (b \o t) = (a \o b) \o t
      BY ONLY <1>3, <2>2, BatchesRegroup, ZenonT(40)
    <3>2. a \o b \in Batches /\ b \o t \in Batches
      BY <1>3, <2>2, Concat
    <3> QED BY <3>1, <3>2
  <2>5. Alike(a \o x, a \o (b \o t), from, g)
    <3>1. Alike(a, a, from, g) /\ Alike(x, b \o t, from, g)
      BY <1>3 DEF Alike, b
    <3> QED BY <1>3, <2>2, <2>4, <3>1, AlikeConcat
  <2>6. Alike((a \o b) \o t, e \o t, from, g)
    <3>1. Alike(t, t, from, g)
      BY DEF Alike
    <3> QED BY <1>3, <2>2, <2>4, <3>1, AlikeConcat
  <2>7. Alike(Path(g), a \o x, from, g)
    BY <2>1 DEF a
  <2> QED BY <2>3, <2>4, <2>5, <2>6, <2>7 DEF Alike
<1>9. ASSUME w'.sock
      PROVE  Alike(Path(g)', q, from, g)
  <2>1. Path(g)' = PathOf(wl2, rest, Load(KeptNow'), Load(cmd'))
    BY <1>5, <1>9, PathIs
  <2>2. Load(KeptNow') \in Batches /\ Load(cmd') \in Batches
    <3>1. KeptNow' \in Seq(Commands) /\ cmd' \in Seq(Commands)
      BY DEF KeptNow, TypeInv, TypeOK, Setups
    <3> QED BY <3>1, LoadBatches
  <2> DEFINE k == Load(KeptNow')
             d == Load(cmd')
  <2>3. k \in Batches /\ d \in Batches
    BY <2>2
  <2> HIDE DEF k, d, wl, wl2, p
  <2>4. Alike(PathOf(wl2, rest, k, d), <<wl2 \o rest>> \o (k \o d), from, g)
    BY ONLY <1>4, <1>5, <2>3, PathFlat
  <2> QED BY <2>1, <2>4 DEF k, d
<1> QED BY <1>3, <1>4, <1>7, <1>8, <1>9

LEMMA ChainedSends ==
    ASSUME TypeInv, TypeInv', ShapeInv, PathInv, Sends, NEW g \in Gens, Carries(g)'
    PROVE  Whole(g)'
<1>1. w'.sock /\ w.sock /\ g = w.gen /\ Carries(g)
  BY CarriesSends
<1>2. UNCHANGED <<cmdOpen, ui>> /\ Ponged(g)' = Ponged(g)
  <2>1. PICK c, r :
          /\ UNCHANGED <<cmdOpen, ui>>
          /\ \/ UNCHANGED reader
             \/ pc = "replay" /\ StartReader(w.gen)
    BY Zenon DEF Sends
  <2> QED BY <2>1, StartFacts DEF Ponged
<1>3. Whole(g)
  BY <1>1 DEF PathInv, Chained
<1>4. ASSUME NEW from \in {"ui", "pong"}
      PROVE  Alike(Path(g), Path(g)', from, g)
  <2>1. PICK rest \in Seq(Line), t \in Batches :
          LET wl == Lines(conn'[g].wire)
              q  == <<wl \o rest>> \o t
          IN  /\ wl \in Seq(Line) /\ q \in Batches
              /\ Alike(Path(g), q, from, g)
              /\ w'.sock => Alike(Path(g)', q, from, g)
    BY <1>1, SendsPath
  <2> DEFINE q == <<Lines(conn'[g].wire) \o rest>> \o t
  <2>2. Alike(Path(g), q, from, g) /\ Alike(Path(g)', q, from, g)
    BY <1>1, <2>1
  <2> QED BY <2>2 DEF Alike
<1> QED BY <1>2, <1>3, <1>4, WholeKept

\* One more command, one more batch.
LEMMA PathAppends ==
    ASSUME TypeInv, NEW c \in Commands, cmd' = Append(cmd, c), UNCHANGED <<pc, w, s, conn>>,
           NEW g \in Gens
    PROVE  /\ Path(g) \in Batches /\ Carried(c) \in Seq(Line) /\ <<Carried(c)>> \in Batches
           /\ Path(g)' = Path(g) \o <<Carried(c)>>
<1> DEFINE wl == Lines(conn[g].wire)
           p == w.pending
           k == Load(KeptNow)
           d == Load(cmd)
           x == <<Carried(c)>>
<1>1. /\ wl \in Seq(Line) /\ p \in Seq(Line) /\ k \in Batches /\ d \in Batches
      /\ cmd \in Seq(Commands)
  BY PathTyped
<1>2. Carried(c) \in Seq(Line) /\ x \in Batches
  BY CarriedLines, Single
<1>3. Load(cmd') = d \o x
  BY <1>1, LoadAppend
<1>4. /\ Path(g) = PathOf(wl, p, k, d)
      /\ Path(g)' = PathOf(wl, p, k, Load(cmd'))
  <2>1. KeptNow' = KeptNow
    BY DEF KeptNow
  <2> QED BY <2>1, PathIs
<1> DEFINE a == (<<wl>> \o <<p>>) \o k
<1>5. a \in Batches
  <2> HIDE DEF wl, p, k
  <2>1. <<wl>> \o <<p>> \in Batches
    BY <1>1, AlikeFuse, Concat
  <2> QED BY <1>1, <2>1, Concat
<1>6. Path(g) = a \o d /\ Path(g)' = a \o Load(cmd')
  BY <1>4 DEF PathOf
<1> HIDE DEF wl, p, k, d, x, a
<1>7. Path(g)' = a \o (d \o x)
  BY <1>3, <1>6
<1>8. (a \o d) \o x = a \o (d \o x)
  BY <1>1, <1>2, <1>5, BatchesRegroup
<1>9. a \o d \in Batches
  BY <1>1, <1>5, Concat
<1>10. Path(g)' = Path(g) \o x
  BY <1>6, <1>7, <1>8
<1> QED BY <1>2, <1>6, <1>9, <1>10 DEF x

LEMMA PathAppendsWithout ==
    ASSUME TypeInv, NEW c \in Commands, cmd' = Append(cmd, c), UNCHANGED <<pc, w, s, conn>>,
           NEW g \in Gens, NEW from, Without(Carried(c), from, g)
    PROVE  Alike(Path(g), Path(g)', from, g)
<1>1. /\ Path(g) \in Batches /\ Carried(c) \in Seq(Line)
      /\ Path(g)' = Path(g) \o <<Carried(c)>>
  BY PathAppends
<1>2. Alike(Path(g) \o <<Carried(c)>>, Path(g), from, g)
  BY <1>1, AlikeWithout
<1> QED BY <1>1, <1>2 DEF Alike

LEMMA OwnerTyped ==
    ASSUME TypeInv
    PROVE  Owner \in Gens /\ ui \in Uis
<1>1. ui \in Uis /\ ui.want \in Gens /\ 0 \in Gens
  BY ConnTyped, GensTyped DEF Uis
<1> QED BY <1>1 DEF Owner

\* The lines of a batch follow those its producer submitted before.
LEMMA UiGrows ==
    ASSUME TypeInv, NEW c, UiSends(c), NEW g \in Gens, NEW a \in Batches,
           Numbered(a, "ui", g, ui.typed[g])
    PROVE  Numbered(a \o <<Carried(c)>>, "ui", g, ui'.typed[g])
<1>1. c \in Commands /\ c.k # "Pong" /\ Made(reader, c)
  BY UiSendsMade DEF UiSends
<1>2. ui.typed \in [Gens -> 0 .. MaxLines] /\ ui \in Uis /\ Owner \in Gens
  BY ConnTyped, OwnerTyped DEF Uis
<1>3. CASE c.k = "Cont"
  <2>1. PICK n \in 1 .. MaxBatch :
          /\ c = Cont(NewLines(Owner, n)) /\ ui.typed[Owner] + n <= MaxLines
          /\ ui' = [ui EXCEPT !.typed[Owner] = @ + n, !.lines = @ + n]
    BY <1>3 DEF UiSends
  <2> DEFINE x == NewLines(Owner, n)
             k == ui.typed[Owner]
  <2>2. n \in Nat /\ k \in Nat /\ c.lines = x
    BY <2>1, <1>2, LinesNew, NetActorAssumption DEF Cont
  <2>3. /\ x \in Seq(Line) /\ Len(x) = n
        /\ \A i \in 1 .. n : x[i] = [from |-> "ui", gen |-> Owner, id |-> k + i]
    <3>1. NewLinesFacts
      BY LinesNew
    <3> QED BY <1>2, <2>1, <2>2, <3>1 DEF NewLinesFacts
  <2>4. Carried(c) = x
    BY <1>3, <2>2 DEF Carried
  <2>5. CASE g = Owner
    <3>1. ui'.typed[g] = k + n
      BY <1>2, <2>1, <2>5 DEF Uis
    <3>2. \A i \in 1 .. n : Of(x[i], "ui", g) /\ x[i].id = k + i
      BY <2>3, <2>5 DEF Of
    <3>3. Numbered(a, "ui", g, k)
      BY <2>5
    <3> HIDE DEF x, k
    <3>4. Numbered(a \o <<x>>, "ui", g, k + n)
      BY <2>2, <2>3, <3>2, <3>3, NumberedGrows
    <3> QED BY <2>4, <3>1, <3>4
  <2>6. CASE g # Owner
    <3>1. ui'.typed[g] = ui.typed[g]
      BY <1>2, <2>1, <2>6 DEF Uis
    <3>2. Without(x, "ui", g)
      <4>1. DOMAIN x = 1 .. n
        BY <2>3
      <4> QED BY <2>3, <2>6, <4>1 DEF Without, Of
    <3> HIDE DEF x
    <3>3. Alike(a \o <<x>>, a, "ui", g)
      BY <2>3, <3>2, AlikeWithout
    <3>4. Numbered(a \o <<x>>, "ui", g, ui.typed[g])
      BY <3>3, AlikeHolds
    <3> QED BY <2>4, <3>1, <3>4
  <2> QED BY <2>5, <2>6
<1>4. CASE c.k # "Cont"
  <2>1. ui'.typed[g] = ui.typed[g]
    BY <1>2, <1>4 DEF UiSends, Uis
  <2>2. Without(Carried(c), "ui", g) /\ Carried(c) \in Seq(Line)
    BY <1>1, <1>4, MadeWithout
  <2>3. Alike(a \o <<Carried(c)>>, a, "ui", g)
    BY <2>2, AlikeWithout
  <2>4. Numbered(a \o <<Carried(c)>>, "ui", g, ui.typed[g])
    BY <2>3, AlikeHolds
  <2> QED BY <2>1, <2>4
<1> QED BY <1>3, <1>4

LEMMA ChainedUiSends ==
    ASSUME TypeInv, ShapeInv, PathInv, NEW c, UiSends(c), NEW g \in Gens, Carries(g)'
    PROVE  Whole(g)'
<1>1. /\ c \in Commands /\ c.k # "Pong" /\ cmd' = Append(cmd, c) /\ cmdOpen
      /\ UNCHANGED <<pc, w, s, cmdOpen, conn, reader>> /\ Made(reader, c)
  BY UiSendsMade DEF UiSends
<1>2. Carries(g)
  BY <1>1, UiSendsMade, CarriesAppends
<1>3. Whole(g) /\ Ponged(g)' = Ponged(g)
  BY <1>1, <1>2 DEF PathInv, Chained, Ponged
<1>4. Alike(Path(g), Path(g)', "pong", g)
  <2>1. Without(Carried(c), "pong", g)
    BY <1>1, MadeWithout
  <2> QED BY <1>1, <2>1, PathAppendsWithout
<1>5. Numbered(Path(g)', "ui", g, ui'.typed[g])
  <2> DEFINE a == Path(g)
  <2>1. a \in Batches /\ Path(g)' = a \o <<Carried(c)>> /\ Numbered(a, "ui", g, ui.typed[g])
    BY <1>1, <1>3, PathAppends DEF Whole, WholeOf
  <2> HIDE DEF a
  <2>2. Numbered(a \o <<Carried(c)>>, "ui", g, ui'.typed[g])
    BY <2>1, UiGrows
  <2> QED BY <2>1, <2>2
<1>6. /\ Gapless(Path(g)', "pong", g)
      /\ cmdOpen' => IdsOf(Path(g)', "pong", g) = 1 .. Ponged(g)'
  BY <1>1, <1>3, <1>4, AlikeHolds DEF Whole, WholeOf, Alike
<1> QED BY <1>5, <1>6 DEF Whole, WholeOf

LEMMA ChainedPong ==
    ASSUME TypeInv, ShapeInv, PathInv, NEW h \in Gens, ReaderPong(h),
           NEW g \in Gens, Carries(g)'
    PROVE  Whole(g)'
<1>1. /\ Reply(h) \in Commands /\ Reply(h).k = "Pong" /\ Reply(h).gen = h
      /\ Reply(h).lines = <<[from |-> "pong", gen |-> h, id |-> reader[h].pings]>>
      /\ Made(reader', Reply(h))
      /\ cmdOpen => cmd' = Append(cmd, Reply(h))
      /\ ~cmdOpen => cmd' = cmd
      /\ UNCHANGED <<pc, w, s, cmdOpen, conn, ui>>
      /\ reader[h].pings \in 1 .. MaxId /\ Ponged(h) = reader[h].pings - 1
      /\ Ponged(h)' = reader[h].pings
      /\ g # h => Ponged(g)' = Ponged(g)
  BY PongFacts
<1>2. Carries(g)
  <2>1. CASE cmdOpen
    BY <1>1, <2>1, CarriesAppends
  <2>2. CASE ~cmdOpen
    BY <1>1, <2>2 DEF Carries, InPlay, Deferring, KeptFor
  <2> QED BY <2>1, <2>2
<1>3. Whole(g)
  BY <1>2 DEF PathInv, Chained
<1>4. CASE ~cmdOpen
  <2>1. Path(g)' = Path(g)
    <3>1. KeptNow' = KeptNow
      BY <1>1 DEF KeptNow
    <3> QED BY <1>1, <1>4, <3>1, SamePath
  <2>2. WholeOf(Path(g), g, ui.typed[g], FALSE, Ponged(g)')
    BY <1>3 DEF Whole, WholeOf
  <2>3. WholeOf(Path(g)', g, ui'.typed[g], cmdOpen', Ponged(g)')
    BY <1>1, <1>4, <2>1, <2>2 DEF WholeOf
  <2> QED BY <2>3 DEF Whole
<1>5. CASE cmdOpen
  <2>1. cmd' = Append(cmd, Reply(h)) /\ UNCHANGED <<pc, w, s, conn>>
    BY <1>1, <1>5
  <2>2. Alike(Path(g), Path(g)', "ui", g)
    <3>1. Without(Carried(Reply(h)), "ui", g)
      BY <1>1, MadeWithout
    <3> QED BY <1>1, <2>1, <3>1, PathAppendsWithout
  <2>3. Numbered(Path(g)', "ui", g, ui'.typed[g])
    BY <1>1, <1>3, <2>2, AlikeHolds DEF Whole, WholeOf
  <2>4. CASE g # h
    <3>1. Without(Carried(Reply(h)), "pong", g)
      BY <1>1, <2>4, MadeWithout
    <3>2. Alike(Path(g), Path(g)', "pong", g)
      BY <1>1, <2>1, <3>1, PathAppendsWithout
    <3> QED BY <1>1, <1>3, <2>2, <2>4, <3>2, WholeKept
  <2>5. CASE g = h
    <3>1. Numbered(Path(g), "pong", g, Ponged(g)) /\ Ponged(g) \in Nat
      <4>1. Rising(Path(g), "pong", g) /\ IdsOf(Path(g), "pong", g) = 1 .. Ponged(g)
        BY <1>3, <1>5 DEF Whole, WholeOf, Gapless
      <4>2. Ponged(g) \in Nat
        BY <1>1, <2>5, LineIds
      <4> QED BY <4>1, <4>2 DEF Numbered
    <3>2. /\ Path(g) \in Batches /\ Carried(Reply(h)) \in Seq(Line)
          /\ Path(g)' = Path(g) \o <<Carried(Reply(h))>>
      BY <1>1, <2>1, PathAppends
    <3>3. Carried(Reply(h)) = <<[from |-> "pong", gen |-> h, id |-> reader[h].pings]>>
      BY <1>1, CarriedLines
    <3> DEFINE a == Path(g)
               x == Carried(Reply(h))
               k == Ponged(g)
    <3>4. /\ Len(x) = 1
          /\ \A i \in 1 .. 1 : Of(x[i], "pong", g) /\ x[i].id = k + i
      <4>1. x[1] = [from |-> "pong", gen |-> h, id |-> reader[h].pings] /\ Len(x) = 1
        BY <3>3
      <4>2. x[1].id = k + 1 /\ Of(x[1], "pong", g)
        BY <1>1, <2>5, <4>1, LineIds DEF Of
      <4> QED BY <4>1, <4>2
    <3>5. Numbered(a \o <<x>>, "pong", g, k + 1)
      <4>1. a \in Batches /\ x \in Seq(Line) /\ k \in Nat /\ Numbered(a, "pong", g, k)
        BY <3>1, <3>2
      <4> HIDE DEF a, x, k
      <4> QED BY ONLY <3>4, <4>1, NumberedGrows
    <3>6. Numbered(Path(g)', "pong", g, Ponged(g)') /\ Ponged(g)' \in Nat
      <4>1. Ponged(g)' = k + 1 /\ Ponged(g)' \in Nat
        BY <1>1, <2>5, LineIds
      <4> QED BY <3>2, <3>5, <4>1
    <3>7. Gapless(Path(g)', "pong", g) /\ IdsOf(Path(g)', "pong", g) = 1 .. Ponged(g)'
      BY <3>6, GaplessNumbered DEF Numbered
    <3> QED BY <2>3, <3>7 DEF Whole, WholeOf
  <2> QED BY <2>4, <2>5
<1> QED BY <1>4, <1>5

LEMMA ChainedClose ==
    ASSUME PathInv, UiClose, NEW g \in Gens, Carries(g)'
    PROVE  Whole(g)'
<1>1. /\ UNCHANGED <<pc, w, s, cmd, conn, reader, ui>> /\ ~cmdOpen'
  BY DEF UiClose, actorVars
<1>2. Carries(g)
  BY <1>1 DEF Carries, InPlay, Deferring, KeptFor
<1>3. Whole(g) /\ KeptNow' = KeptNow /\ Ponged(g)' = Ponged(g)
  BY <1>1, <1>2 DEF PathInv, Chained, KeptNow, Ponged
<1> QED BY <1>1, <1>3, SamePath, WholeKept

LEMMA ChainedStep ==
    ASSUME TypeInv, TypeInv', DialInv, WantInv, ShapeInv, OwnInv, PathInv, [Next]_vars
    PROVE  Chained'
<1> SUFFICES ASSUME NEW g \in Gens, Carries(g)'
             PROVE  Whole(g)'
  BY DEF Chained
<1>1. Kinds
  BY StepKinds
<1>2. CASE Stays
  BY <1>2, ChainedStays
<1>3. CASE Drained
  BY <1>3, ChainedDrained
<1>4. CASE Register
  BY <1>4, ChainedRegister
<1>5. CASE Sends
  BY <1>5, ChainedSends
<1>6. CASE ArmBoot
  BY <1>6, ChainedArmBoot
<1>7. CASE Closes
  BY <1>7, ChainedCloses
<1>8. CASE Leaves
  BY <1>8, CarriesLeaves
<1>9. CASE DeferredCommand
  BY <1>9, ChainedDeferred
<1>10. CASE UiClose
  BY <1>10, ChainedClose
<1>11. CASE \E c : UiSends(c)
  BY <1>11, ChainedUiSends
<1>12. CASE \E h \in Gens : ReaderPong(h)
  BY <1>12, ChainedPong
<1> QED BY <1>1, <1>2, <1>3, <1>4, <1>5, <1>6, <1>7, <1>8, <1>9, <1>10, <1>11, <1>12 DEF Kinds

-----------------------------------------------------------------------------
(* What waits behind a Dial on its way *)

LEMMA FreshTail ==
    ASSUME TypeInv, ShapeInv, OwnInv, PathInv, cmd # <<>>, cmd' = Tail(cmd), UNCHANGED ui
    PROVE  Fresh'
<1> SUFFICES ASSUME NEW i \in DOMAIN cmd', cmd'[i].k = "Dial"
             PROVE  Numbered(Load(cmd'), "ui", cmd'[i].gen, ui.typed[cmd'[i].gen])
  BY DEF Fresh
<1>1. /\ i + 1 \in DOMAIN cmd /\ cmd'[i] = cmd[i + 1] /\ 1 \in DOMAIN cmd /\ cmd[1] = Head(cmd)
      /\ 1 < i + 1 /\ cmd \in Seq(Commands)
  BY StateTyped, TailIndex
<1> DEFINE d == cmd'[i].gen
           x == Carried(Head(cmd))
           b == Load(cmd')
<1>2. d \in Gens /\ Numbered(Load(cmd), "ui", d, ui.typed[d])
  <2>1. cmd[i + 1] \in Commands
    BY <1>1, StateTyped
  <2> QED BY <1>1, <2>1, CommandFields DEF PathInv, Fresh
<1>3. Load(cmd) = <<x>> \o b /\ b \in Batches
  <2>1. Tail(cmd) \in Seq(Commands)
    BY <1>1, HeadTailProperties
  <2> QED BY <1>1, <2>1, LoadTail, LoadBatches
<1>4. Without(x, "ui", d) /\ x \in Seq(Line)
  <2>1. Head(cmd) \in Commands /\ Made(reader, Head(cmd))
    BY <1>1, StateTyped, TakenCmd DEF ShapeInv, AllMade
  <2>2. CASE Head(cmd).k = "Cont"
    <3>1. \A n \in DOMAIN Head(cmd).lines : Head(cmd).lines[n].gen # d
      <4>1. \A n \in DOMAIN Head(cmd).lines : Head(cmd).lines[n].gen < d
        BY <1>1, <2>2 DEF OwnInv, Older
      <4>2. d \in Nat
        BY <1>2, GensTyped
      <4> QED BY <4>1, <4>2
    <3> QED BY <1>2, <2>1, <2>2, <3>1, MadeWithout
  <2>3. CASE Head(cmd).k # "Cont"
    BY <1>2, <2>1, <2>3, MadeWithout
  <2> QED BY <2>2, <2>3
<1> HIDE DEF d, x, b
<1>5. Alike(<<x>> \o b, b, "ui", d)
  BY <1>3, <1>4, AlikeWithout
<1>6. Numbered(b, "ui", d, ui.typed[d])
  BY <1>2, <1>3, <1>5, AlikeHolds
<1> QED BY <1>6 DEF b, d

\* A command that is no Dial comes last.
LEMMA FreshAppends ==
    ASSUME TypeInv, PathInv, NEW c \in Commands, c.k # "Dial", cmd' = Append(cmd, c),
           \A g \in Gens : \A a \in Batches :
             Numbered(a, "ui", g, ui.typed[g])
               => Numbered(a \o <<Carried(c)>>, "ui", g, ui'.typed[g])
    PROVE  Fresh'
<1> SUFFICES ASSUME NEW i \in DOMAIN cmd', cmd'[i].k = "Dial"
             PROVE  Numbered(Load(cmd'), "ui", cmd'[i].gen, ui'.typed[cmd'[i].gen])
  BY DEF Fresh
<1>1. cmd \in Seq(Commands)
  BY StateTyped
<1>2. i \in DOMAIN cmd /\ cmd'[i] = cmd[i]
  BY <1>1
<1>3. /\ cmd'[i].gen \in Gens
      /\ Numbered(Load(cmd), "ui", cmd'[i].gen, ui.typed[cmd'[i].gen])
  <2>1. cmd[i] \in Commands
    BY <1>2, StateTyped
  <2> QED BY <1>2, <2>1, CommandFields DEF PathInv, Fresh
<1>4. Load(cmd) \in Batches /\ Load(cmd') = Load(cmd) \o <<Carried(c)>>
  BY <1>1, LoadBatches, LoadAppend
<1> QED BY <1>3, <1>4

LEMMA FreshUiSends ==
    ASSUME TypeInv, ShapeInv, OwnInv, PathInv, NEW c, UiSends(c)
    PROVE  Fresh'
<1>1. c \in Commands /\ cmd' = Append(cmd, c) /\ cmd \in Seq(Commands)
  BY StateTyped DEF UiSends
<1>2. \A g \in Gens : \A a \in Batches :
        Numbered(a, "ui", g, ui.typed[g])
          => Numbered(a \o <<Carried(c)>>, "ui", g, ui'.typed[g])
  BY UiGrows
<1>3. CASE c.k # "Dial"
  BY <1>1, <1>2, <1>3, FreshAppends
<1>4. CASE c.k = "Dial"
  <2>1. c.gen = ui.gen + 1 /\ c.gen \in Gens /\ ui'.typed = ui.typed
    BY <1>1, <1>4, CommandFields DEF UiSends
  <2>2. ui.typed[c.gen] = 0 /\ \A i \in DOMAIN cmd : Without(Carried(cmd[i]), "ui", c.gen)
    <3>1. ui.gen \in Nat /\ c.gen > ui.gen
      <4>1. ui.gen \in Gens
        BY ConnTyped DEF Uis
      <4>2. ui.gen \in Nat
        BY <4>1, GensTyped
      <4>3. ui.gen + 1 > ui.gen
        BY <4>2
      <4> QED BY <2>1, <4>2, <4>3
    <3>2. ui.typed[c.gen] = 0
      BY <2>1, <3>1 DEF OwnInv, Older
    <3>3. ASSUME NEW i \in DOMAIN cmd
          PROVE  Without(Carried(cmd[i]), "ui", c.gen)
      <4>1. cmd[i] \in Commands /\ Made(reader, cmd[i])
        BY StateTyped DEF ShapeInv, AllMade
      <4>2. CASE cmd[i].k = "Cont"
        <5>1. \A n \in DOMAIN cmd[i].lines : cmd[i].lines[n].gen # c.gen
          <6>1. \A n \in DOMAIN cmd[i].lines : cmd[i].lines[n].gen <= ui.gen
            BY <4>2 DEF OwnInv, Older
          <6> QED BY <2>1, <3>1, <6>1
        <5> QED BY <2>1, <4>1, <4>2, <5>1, MadeWithout
      <4>3. CASE cmd[i].k # "Cont"
        BY <2>1, <4>1, <4>3, MadeWithout
      <4> QED BY <4>2, <4>3
    <3> QED BY <3>2, <3>3
  <2>3. Numbered(Load(cmd), "ui", c.gen, ui.typed[c.gen])
    <3>1. 1 .. 0 = {}
      OBVIOUS
    <3>2. IdsOf(Load(cmd), "ui", c.gen) = {} /\ Rising(Load(cmd), "ui", c.gen)
      BY <1>1, <2>2, LoadWithout
    <3> QED BY <2>2, <3>1, <3>2 DEF Numbered
  <2>4. Load(cmd) \in Batches /\ Load(cmd') = Load(cmd) \o <<Carried(c)>>
    BY <1>1, LoadBatches, LoadAppend
  <2> SUFFICES ASSUME NEW i \in DOMAIN cmd', cmd'[i].k = "Dial"
               PROVE  Numbered(Load(cmd'), "ui", cmd'[i].gen, ui'.typed[cmd'[i].gen])
    BY DEF Fresh
  <2>5. /\ cmd'[i].gen \in Gens
        /\ Numbered(Load(cmd), "ui", cmd'[i].gen, ui.typed[cmd'[i].gen])
    <3>1. CASE i \in DOMAIN cmd
      <4>1. cmd'[i] = cmd[i] /\ cmd[i] \in Commands
        BY <1>1, <3>1, StateTyped
      <4> QED BY <3>1, <4>1, CommandFields DEF PathInv, Fresh
    <3>2. CASE i \notin DOMAIN cmd
      <4>1. cmd'[i] = c
        BY <1>1, <3>2
      <4> QED BY <2>1, <2>3, <4>1
    <3> QED BY <3>1, <3>2
  <2> QED BY <1>2, <2>4, <2>5
<1> QED BY <1>3, <1>4

LEMMA FreshPong ==
    ASSUME TypeInv, ShapeInv, PathInv, NEW h \in Gens, ReaderPong(h)
    PROVE  Fresh'
<1>1. /\ Reply(h) \in Commands /\ Reply(h).k = "Pong" /\ Made(reader', Reply(h))
      /\ cmdOpen => cmd' = Append(cmd, Reply(h))
      /\ ~cmdOpen => cmd' = cmd
      /\ UNCHANGED ui
  BY PongFacts
<1>2. CASE ~cmdOpen
  BY <1>1, <1>2 DEF PathInv, Fresh
<1>3. CASE cmdOpen
  <2>1. ASSUME NEW g \in Gens, NEW a \in Batches, Numbered(a, "ui", g, ui.typed[g])
        PROVE  Numbered(a \o <<Carried(Reply(h))>>, "ui", g, ui'.typed[g])
    <3>1. Without(Carried(Reply(h)), "ui", g) /\ Carried(Reply(h)) \in Seq(Line)
      BY <1>1, MadeWithout
    <3>2. Alike(a \o <<Carried(Reply(h))>>, a, "ui", g)
      BY <3>1, AlikeWithout
    <3> QED BY <1>1, <2>1, <3>2, AlikeHolds
  <2> QED BY <1>1, <1>3, <2>1, FreshAppends
<1> QED BY <1>2, <1>3

LEMMA FreshStep ==
    ASSUME TypeInv, DialInv, WantInv, ShapeInv, OwnInv, PathInv, [Next]_vars
    PROVE  Fresh'
<1>1. Kinds
  BY StepKinds
<1>2. CASE UNCHANGED <<cmd, ui>>
  BY <1>2 DEF PathInv, Fresh
<1>3. CASE cmd # <<>> /\ cmd' = Tail(cmd) /\ UNCHANGED ui
  BY <1>3, FreshTail
<1>4. CASE Stays \/ Register \/ ArmBoot \/ Leaves \/ UiClose
  <2>1. UNCHANGED <<cmd, ui>>
    BY <1>4, RegisterFacts DEF Stays, ArmBoot, Leaves, UiClose, actorVars
  <2> QED BY <1>2, <2>1
<1>5. CASE Drained \/ DeferredCommand
  <2>1. cmd # <<>> /\ cmd' = Tail(cmd) /\ UNCHANGED ui
    BY <1>5 DEF Drained, DeferredCommand
  <2> QED BY <1>3, <2>1
<1>6. CASE Sends
  <2>1. UNCHANGED ui /\ (cmd' = cmd \/ (cmd # <<>> /\ cmd' = Tail(cmd)))
    BY <1>6 DEF Sends
  <2> QED BY <1>2, <1>3, <2>1
<1>7. CASE Closes
  <2>1. UNCHANGED ui /\ (cmd' = cmd \/ (cmd # <<>> /\ cmd' = Tail(cmd)))
    BY <1>7 DEF Closes, Closing
  <2> QED BY <1>2, <1>3, <2>1
<1>8. CASE \E c : UiSends(c)
  BY <1>8, FreshUiSends
<1>9. CASE \E h \in Gens : ReaderPong(h)
  BY <1>9, FreshPong
<1> QED BY <1>1, <1>4, <1>5, <1>6, <1>7, <1>8, <1>9 DEF Kinds

-----------------------------------------------------------------------------
(* What the sockets carry *)

LEMMA OrderedKept ==
    ASSUME PathInv, \A g \in Gens : conn'[g].wire = conn[g].wire
    PROVE  Ordered'
BY DEF PathInv, Ordered

\* The wire is a first part of the path.
LEMMA OrderedSends ==
    ASSUME TypeInv, TypeInv', ShapeInv, PathInv, Sends
    PROVE  Ordered'
<1> SUFFICES ASSUME NEW g \in Gens, NEW from \in {"ui", "pong"}
             PROVE  Gapless(<<Lines(conn'[g].wire)>>, from, g)
  BY DEF Ordered
<1>1. PICK c, r : SendStep(c, r)
  BY Zenon DEF Sends
<1>2. CASE conn'[g].wire = conn[g].wire
  BY <1>2 DEF PathInv, Ordered
<1>3. CASE conn'[g].wire # conn[g].wire
  <2>1. w.sock /\ g = w.gen /\ pc \in {"replay", "loop"}
    BY <1>1, <1>3, SendFacts DEF SendStep
  <2>2. Whole(g)
    BY <2>1, CarriesSock DEF PathInv, Chained
  <2>3. Gapless(Path(g), from, g)
    <3>1. ui.typed[g] \in Nat
      BY LinesNew
    <3> QED BY <2>2, <3>1, GaplessNumbered DEF Whole, WholeOf
  <2>4. PICK rest \in Seq(Line), t \in Batches :
          LET wl == Lines(conn'[g].wire)
              q  == <<wl \o rest>> \o t
          IN  /\ wl \in Seq(Line) /\ q \in Batches
              /\ Alike(Path(g), q, from, g)
              /\ w'.sock => Alike(Path(g)', q, from, g)
    BY <2>1, SendsPath
  <2> DEFINE wl == Lines(conn'[g].wire)
             a  == <<wl>>
             b  == <<rest>>
             e  == <<wl \o rest>>
  <2>5. wl \in Seq(Line) /\ Alike(Path(g), e \o t, from, g)
    BY <2>4
  <2>6. Gapless(e \o t, from, g)
    <3> HIDE DEF e
    <3> QED BY <2>3, <2>5, AlikeHolds
  <2>7. /\ a \in Batches /\ b \in Batches /\ e \in Batches
        /\ Alike(a \o b, e, from, g)
    BY <2>5, AlikeFuse
  <2> HIDE DEF a, b, e
  <2>8. Gapless(e, from, g)
    BY <2>6, <2>7, GaplessFront
  <2>9. Gapless(a \o b, from, g)
    BY <2>7, <2>8, AlikeHolds
  <2>10. Gapless(a, from, g)
    BY <2>7, <2>9, GaplessFront
  <2> QED BY <2>10 DEF a
<1> QED BY <1>2, <1>3

\* What a flush leaves on the wire, and what the rest of the queue is.
LEMMA ClosesPath ==
    ASSUME TypeInv, DialInv, ShapeInv, NEW report, NEW wire, NEW how,
           Closing(report, wire, how), Flushing(wire, how), w.sock,
           NEW g \in Gens, g = w.gen, NEW from \in {"ui", "pong"}
    PROVE  \E rest \in Seq(Line) :
             /\ Lines(conn'[g].wire) \in Seq(Line)
             /\ Load(cmd) \in Batches
             /\ Alike(Path(g), <<Lines(conn'[g].wire) \o rest>> \o Load(cmd), from, g)
             /\ how = "flushed" => rest = <<>>
<1> DEFINE wl == Lines(conn[g].wire)
           p == w.pending
           sent == Lines(wire)
           d == Load(cmd)
           wl2 == Lines(conn'[g].wire)
<1>1. /\ pc = "loop" /\ wire \in Seq(Sent) /\ conn'[g].wire = conn[g].wire \o wire
  BY ClosingFacts, ZenonT(40) DEF Closing
<1>2. /\ wl \in Seq(Line) /\ p \in Seq(Line) /\ d \in Batches /\ conn[g].wire \in Seq(Sent)
      /\ w.ptxn \in Seq(U32)
  BY PathTyped, WriterFields, StateTyped
<1>3. PICK rest \in Seq(Line) : p = sent \o rest /\ (how = "flushed" => rest = <<>>)
  <2>1. CASE how = "dropped" /\ wire = <<>>
    <3>1. sent = <<>> /\ sent \o p = p
      BY <1>2, <2>1, HersEmpty
    <3> QED BY <1>2, <2>1, <3>1
  <2>2. CASE ~(how = "dropped" /\ wire = <<>>)
    <3>1. PICK b \in SendBatch(w.pending, w.ptxn) :
            wire = b.wire /\ (how = "flushed" => b.ok)
      BY <2>2 DEF Flushing, Flush
    <3>2. \E rest \in Seq(Line) :
            w.pending = Lines(b.wire) \o rest /\ (b.ok => rest = <<>>)
      BY <1>2, SendBatchMoves
    <3> QED BY <3>1, <3>2
  <2> QED BY <2>1, <2>2
<1>4. sent \in Seq(Line) /\ wl2 = wl \o sent
  BY <1>1, <1>2, LinesTyped, LinesConcat
<1>5. Path(g) = PathOf(wl, p, <<>>, d)
  <2>1. KeptNow = <<>>
    BY <1>1 DEF KeptNow, Setting
  <2> QED BY <2>1, PathIs, LoadBatches, StateTyped
<1> HIDE DEF wl, p, sent, d, wl2
<1>6. wl \o p = wl2 \o rest /\ wl2 \in Seq(Line)
  <2>1. (wl \o sent) \o rest = wl \o (sent \o rest)
    BY <1>2, <1>4, LinesRegroup
  <2>2. wl \o sent \in Seq(Line)
    BY <1>2, <1>4, ConcatIndex
  <2> QED BY <1>3, <1>4, <2>1, <2>2
<1>7. Alike(PathOf(wl, p, <<>>, d), <<wl \o p>> \o d, from, g)
  <2> DEFINE k == <<>>
  <2>1. k \in Batches /\ k \o d = d
    BY <1>2, EmptyBatch
  <2>2. Alike(PathOf(wl, p, k, d), <<wl \o p>> \o (k \o d), from, g)
    <3> HIDE DEF k
    <3> QED BY ONLY <1>2, <2>1, PathFlat
  <2> QED BY <2>1, <2>2
<1> QED BY <1>2, <1>3, <1>5, <1>6, <1>7 DEF d, wl2

LEMMA OrderedCloses ==
    ASSUME TypeInv, DialInv, ShapeInv, PathInv, Closes
    PROVE  Ordered'
<1> SUFFICES ASSUME NEW g \in Gens, NEW from \in {"ui", "pong"}
             PROVE  Gapless(<<Lines(conn'[g].wire)>>, from, g)
  BY DEF Ordered
<1>1. PICK report, wire, how : Closing(report, wire, how) /\ Flushing(wire, how)
  BY DEF Closes
<1>2. CASE g # w.gen \/ ~w.sock
  BY <1>1, <1>2, ClosingFacts DEF PathInv, Ordered
<1>3. CASE g = w.gen /\ w.sock
  <2>1. pc = "loop"
    BY <1>1 DEF Closing
  <2>2. Whole(g)
    BY <1>3, <2>1, CarriesSock DEF PathInv, Chained
  <2>3. Gapless(Path(g), from, g)
    <3>1. ui.typed[g] \in Nat
      BY LinesNew
    <3> QED BY <2>2, <3>1, GaplessNumbered DEF Whole, WholeOf
  <2>4. PICK rest \in Seq(Line) :
          /\ Lines(conn'[g].wire) \in Seq(Line)
          /\ Load(cmd) \in Batches
          /\ Alike(Path(g), <<Lines(conn'[g].wire) \o rest>> \o Load(cmd), from, g)
    BY <1>1, <1>3, ClosesPath
  <2> DEFINE wl == Lines(conn'[g].wire)
             t  == Load(cmd)
             a  == <<wl>>
             b  == <<rest>>
             e  == <<wl \o rest>>
  <2>5. wl \in Seq(Line) /\ t \in Batches /\ Alike(Path(g), e \o t, from, g)
    BY <2>4
  <2>6. /\ a \in Batches /\ b \in Batches /\ e \in Batches
        /\ Alike(a \o b, e, from, g)
    BY <2>5, AlikeFuse
  <2> HIDE DEF a, b, e, t
  <2>7. Gapless(e \o t, from, g)
    BY <2>3, <2>5, AlikeHolds
  <2>8. Gapless(e, from, g)
    BY <2>5, <2>6, <2>7, GaplessFront
  <2>9. Gapless(a \o b, from, g)
    BY <2>6, <2>8, AlikeHolds
  <2>10. Gapless(a, from, g)
    BY <2>6, <2>9, GaplessFront
  <2> QED BY <2>10 DEF a
<1> QED BY <1>2, <1>3

LEMMA OrderedStep ==
    ASSUME TypeInv, TypeInv', DialInv, WantInv, ShapeInv, PathInv, [Next]_vars
    PROVE  Ordered'
<1>1. Kinds
  BY StepKinds
<1>2. CASE Stays \/ Leaves
  BY <1>2, OrderedKept DEF Stays, Leaves, WiresKept
<1>3. CASE Register
  <2>1. \A g \in Gens : conn'[g].wire = conn[g].wire
    BY <1>3, RegisterFacts
  <2> QED BY <2>1, OrderedKept
<1>4. CASE Drained \/ ArmBoot \/ DeferredCommand \/ UiClose
  <2>1. UNCHANGED conn
    BY <1>4 DEF Drained, ArmBoot, DeferredCommand, UiClose, actorVars
  <2> QED BY <2>1, OrderedKept
<1>5. CASE Sends
  BY <1>5, OrderedSends
<1>6. CASE Closes
  BY <1>6, OrderedCloses
<1>7. CASE \E c : UiSends(c)
  <2>1. UNCHANGED conn
    BY <1>7 DEF UiSends
  <2> QED BY <2>1, OrderedKept
<1>8. CASE \E h \in Gens : ReaderPong(h)
  <2>1. UNCHANGED conn
    BY <1>8, PongFacts
  <2> QED BY <2>1, OrderedKept
<1> QED BY <1>1, <1>2, <1>3, <1>4, <1>5, <1>6, <1>7, <1>8 DEF Kinds

-----------------------------------------------------------------------------
(* Orderly ends *)

\* Nothing flushed before is touched, nor spoken of any more.
LEMMA FlushedKept ==
    ASSUME PathInv, UNCHANGED ui, cmdOpen' => cmdOpen,
           \A g \in Gens : conn'[g].st = "flushed" =>
             conn[g].st = "flushed" /\ conn'[g].wire = conn[g].wire
    PROVE  Flushed'
BY DEF PathInv, Flushed

LEMMA FlushedUiSends ==
    ASSUME TypeInv, PathInv, NEW c, UiSends(c)
    PROVE  Flushed'
<1> SUFFICES ASSUME NEW g \in Gens, conn'[g].st = "flushed"
             PROVE  /\ Numbered(<<Lines(conn'[g].wire)>>, "ui", g, ui'.typed[g])
                    /\ g # 0 /\ g <= ui'.gen /\ ui'.want # g
  BY DEF Flushed
<1>1. /\ conn' = conn /\ Numbered(<<Lines(conn[g].wire)>>, "ui", g, ui.typed[g])
      /\ g # 0 /\ g <= ui.gen /\ ui.want # g
  BY DEF UiSends, PathInv, Flushed
<1>2. /\ ui.typed \in [Gens -> 0 .. MaxLines] /\ ui \in Uis /\ Owner \in Gens
      /\ ui.gen \in Nat /\ g \in Nat
  <2>1. ui.gen \in Gens
    BY ConnTyped DEF Uis
  <2> QED BY <2>1, ConnTyped, OwnerTyped, GensTyped DEF Uis
<1>3. Owner # g
  BY <1>1 DEF Owner
<1>4. CASE c.k = "Cont"
  <2>1. PICK n \in 1 .. MaxBatch : ui' = [ui EXCEPT !.typed[Owner] = @ + n, !.lines = @ + n]
    BY <1>4 DEF UiSends
  <2>2. ui'.typed[g] = ui.typed[g] /\ ui'.gen = ui.gen /\ ui'.want = ui.want
    BY <1>2, <1>3, <2>1 DEF Uis
  <2> QED BY <1>1, <2>2
<1>5. CASE c.k = "Dial"
  <2>1. ui'.typed = ui.typed /\ ui'.gen = ui.gen + 1 /\ ui'.want = ui.gen + 1
    BY <1>5 DEF UiSends
  <2>2. g <= ui.gen + 1 /\ g # ui.gen + 1
    BY <1>1, <1>2
  <2> QED BY <1>1, <2>1, <2>2
<1>6. CASE c.k \notin {"Cont", "Dial"}
  <2>1. ui'.typed = ui.typed /\ ui'.gen = ui.gen /\ ui'.want \in {0, ui.want}
    BY <1>2, <1>6 DEF UiSends, Uis
  <2> QED BY <1>1, <2>1
<1> QED BY <1>4, <1>5, <1>6

\* Behind a command that steers, the course is no longer the writer's.
LEMMA SteeredAway ==
    ASSUME TypeInv, DialInv, w.gen # 0, cmd # <<>>, Steers(Head(cmd)),
           NEW h, NEW i \in Nat, 1 < i, SetBy(cmd, h, i)
    PROVE  h # w.gen
<1>1. 1 \in DOMAIN cmd /\ cmd[1] = Head(cmd)
  BY StateTyped, TailIndex
<1>2. PICK m \in DOMAIN cmd : Steers(cmd[m]) /\ Target(cmd[m]) = h
  BY <1>1 DEF SetBy
<1>3. cmd[m].k = "Dial" => w.gen < cmd[m].gen /\ w.gen \in Nat /\ cmd[m].gen \in Nat
  <2>1. cmd[m] \in Commands /\ w.gen \in Gens
    BY StateTyped, WriterFields
  <2>2. cmd[m].k = "Dial" => cmd[m].gen \in Gens
    BY <2>1, CommandFields
  <2> QED BY <2>1, <2>2, GensTyped DEF DialInv, Queued
<1>4. CASE cmd[m].k = "Dial"
  BY <1>2, <1>3, <1>4 DEF Target
<1>5. CASE cmd[m].k # "Dial"
  BY <1>2, <1>5 DEF Target
<1> QED BY <1>4, <1>5

LEMMA FlushedCloses ==
    ASSUME TypeInv, DialInv, ShapeInv, OwnInv, PathInv, Closes
    PROVE  Flushed'
<1>1. PICK report, wire, how : Closing(report, wire, how) /\ Flushing(wire, how)
  BY DEF Closes
<1>2. pc = "loop" /\ UNCHANGED <<ui, cmdOpen>>
  BY <1>1 DEF Closing
<1> SUFFICES ASSUME NEW g \in Gens, conn'[g].st = "flushed"
             PROVE  /\ Numbered(<<Lines(conn'[g].wire)>>, "ui", g, ui.typed[g])
                    /\ g # 0 /\ g <= ui.gen /\ (ui.want # g \/ ~cmdOpen)
  BY <1>2 DEF Flushed
<1>3. CASE g # w.gen \/ ~w.sock
  <2>1. conn'[g] = conn[g]
    BY <1>1, <1>3, ClosingFacts
  <2> QED BY <2>1 DEF PathInv, Flushed
<1>4. CASE g = w.gen /\ w.sock
  <2>1. how = "flushed"
    BY <1>1, <1>4, ClosingFacts
  <2>2. g # 0 /\ g <= ui.gen
    BY <1>4 DEF ShapeInv, Sockets, DialInv
  <2>3. (cmd = <<>> /\ ~cmdOpen) \/ (cmd # <<>> /\ Steers(Head(cmd)))
    BY <1>1 DEF Closing, Steers
  <2>4. ui.want # g \/ ~cmdOpen
    <3>1. CASE cmd # <<>> /\ Steers(Head(cmd))
      <4>1. Len(cmd) + 1 \in Nat /\ 1 < Len(cmd) + 1
        BY <3>1, StateTyped, EmptySeq
      <4> QED BY <1>4, <2>2, <3>1, <4>1, SteeredAway DEF OwnInv, Pointed
    <3> QED BY <2>3, <3>1
  <2>5. \A i \in DOMAIN cmd : Without(Carried(cmd[i]), "ui", g)
    <3> SUFFICES ASSUME NEW i \in DOMAIN cmd
                 PROVE  Without(Carried(cmd[i]), "ui", g)
      OBVIOUS
    <3>1. cmd[i] \in Commands /\ Made(reader, cmd[i])
      BY StateTyped DEF ShapeInv, AllMade
    <3>2. CASE cmd[i].k = "Cont"
      <4>1. cmd # <<>> /\ Steers(Head(cmd))
        BY <2>3
      <4>2. i \in Nat /\ 1 < i
        <5>1. DOMAIN cmd = 1 .. Len(cmd) /\ cmd[1] = Head(cmd)
          BY <4>1, StateTyped, TailIndex
        <5>2. i # 1
          BY <3>2, <4>1, <5>1 DEF Steers
        <5> QED BY <5>1, <5>2
      <4>3. ASSUME NEW n \in DOMAIN cmd[i].lines
            PROVE  cmd[i].lines[n].gen # g
        <5>1. ~Unbegun(cmd, ~Deferring, i)
          BY <1>2 DEF Unbegun, Deferring
        <5>2. SetBy(cmd, cmd[i].lines[n].gen, i)
          BY <3>2, <5>1 DEF OwnInv, Owned, OwnedIn
        <5> QED BY <1>4, <2>2, <4>1, <4>2, <5>2, SteeredAway
      <4> QED BY <3>1, <3>2, <4>3, MadeWithout
    <3>3. CASE cmd[i].k # "Cont"
      BY <3>1, <3>3, MadeWithout
    <3> QED BY <3>2, <3>3
  <2>6. Numbered(Path(g), "ui", g, ui.typed[g])
    BY <1>2, <1>4, CarriesSock DEF PathInv, Chained, Whole, WholeOf
  <2>7. PICK rest \in Seq(Line) :
          /\ Lines(conn'[g].wire) \in Seq(Line)
          /\ Load(cmd) \in Batches
          /\ Alike(Path(g), <<Lines(conn'[g].wire) \o rest>> \o Load(cmd), "ui", g)
          /\ how = "flushed" => rest = <<>>
    BY <1>1, <1>4, ClosesPath
  <2> DEFINE a == <<Lines(conn'[g].wire)>>
             d == Load(cmd)
  <2>8. a \in Batches /\ d \in Batches /\ Alike(Path(g), a \o d, "ui", g)
    <3>1. Lines(conn'[g].wire) \o rest = Lines(conn'[g].wire)
      BY <2>1, <2>7
    <3> QED BY <2>7, <3>1, Single
  <2>9. IdsOf(d, "ui", g) = {}
    BY <2>5, StateTyped, LoadWithout
  <2> HIDE DEF a, d
  <2>10. Numbered(a \o d, "ui", g, ui.typed[g])
    BY <2>6, <2>8, AlikeHolds
  <2>11. /\ IdsOf(a \o d, "ui", g) = IdsOf(a, "ui", g) \cup IdsOf(d, "ui", g)
         /\ Rising(a \o d, "ui", g) => Rising(a, "ui", g)
    BY <2>8, Concat
  <2>12. Numbered(a, "ui", g, ui.typed[g])
    BY <2>9, <2>10, <2>11 DEF Numbered
  <2> QED BY <2>2, <2>4, <2>12 DEF a
<1> QED BY <1>3, <1>4

LEMMA FlushedStep ==
    ASSUME TypeInv, DialInv, WantInv, ShapeInv, OwnInv, PathInv, [Next]_vars
    PROVE  Flushed'
<1>1. Kinds
  BY StepKinds
<1>2. CASE Stays \/ Leaves
  BY <1>2, FlushedKept DEF Stays, Leaves, WiresKept
<1>3. CASE Register
  <2>1. \A g \in Gens : conn'[g].st = "flushed" =>
          conn[g].st = "flushed" /\ conn'[g].wire = conn[g].wire
    BY <1>3, RegisterFacts
  <2>2. UNCHANGED <<ui, cmdOpen>>
    BY <1>3, RegisterFacts
  <2> QED BY <2>1, <2>2, FlushedKept
<1>4. CASE Drained \/ ArmBoot \/ DeferredCommand \/ UiClose
  <2>1. UNCHANGED <<conn, ui>> /\ (cmdOpen' => cmdOpen)
    <3>1. CASE Drained
      BY <3>1 DEF Drained
    <3>2. CASE ArmBoot
      BY <3>2 DEF ArmBoot
    <3>3. CASE DeferredCommand
      BY <3>3 DEF DeferredCommand
    <3>4. CASE UiClose
      BY <3>4 DEF UiClose, actorVars
    <3> QED BY <1>4, <3>1, <3>2, <3>3, <3>4
  <2> QED BY <2>1, FlushedKept
<1>5. CASE Sends
  <2>1. PICK c, r : SendStep(c, r) /\ UNCHANGED <<cmdOpen, ui>>
    BY <1>5, Zenon DEF Sends
  <2>2. ASSUME NEW g \in Gens, conn'[g].st = "flushed"
        PROVE  conn[g].st = "flushed" /\ conn'[g].wire = conn[g].wire
    <3>1. conn[g].st = "flushed" /\ (g # w.gen \/ ~w.sock => conn'[g].wire = conn[g].wire)
      BY <2>1, <2>2, SendFacts
    <3>2. ~(g = w.gen /\ w.sock)
      BY <3>1 DEF ShapeInv, Sockets
    <3> QED BY <3>1, <3>2
  <2> QED BY <2>1, <2>2, FlushedKept
<1>6. CASE Closes
  BY <1>6, FlushedCloses
<1>7. CASE \E c : UiSends(c)
  BY <1>7, FlushedUiSends
<1>8. CASE \E h \in Gens : ReaderPong(h)
  <2>1. UNCHANGED <<conn, ui, cmdOpen>>
    BY <1>8, PongFacts
  <2> QED BY <2>1, FlushedKept
<1> QED BY <1>1, <1>2, <1>3, <1>4, <1>5, <1>6, <1>7, <1>8 DEF Kinds

-----------------------------------------------------------------------------
(* Nothing is lost *)

LEMMA PathInit == Init => PathInv
<1> SUFFICES ASSUME Init
             PROVE  PathInv
  OBVIOUS
<1>1. /\ cmd = <<>> /\ w.pending = <<>> /\ s.kept = <<>>
      /\ \A g \in Gens : /\ ui.typed[g] = 0 /\ conn[g] = NoConn
                         /\ reader[g].pc = "none" /\ reader[g].pings = 0
  BY DEF Init, InitStart, InitUi, Socketless, Adopted, NoSetup, Setup
<1>2. /\ Lines(<<>>) = <<>> /\ Load(<<>>) = <<>> /\ <<>> \in Batches /\ <<>> \in Seq(Line)
  BY HersEmpty, EmptyBatch DEF Load
<1>3. \A from, g : IdsOf(<<>>, from, g) = {} /\ Rising(<<>>, from, g)
  BY DEF IdsOf, Rising
<1>4. \A from, g : IdsOf(<< <<>> >>, from, g) = {} /\ Rising(<< <<>> >>, from, g)
  <2> DEFINE e == <<>>
  <2>1. e \in Seq(Line) /\ \A from, g : Without(e, from, g)
    BY DEF Without
  <2> HIDE DEF e
  <2>2. \A from, g : IdsOf(<<e>>, from, g) = {} /\ Rising(<<e>>, from, g)
    BY <2>1, WithoutIds
  <2> QED BY <2>2 DEF e
<1>5. \A g \in Gens : conn[g].wire = <<>> /\ conn[g].st # "flushed"
  BY <1>1 DEF NoConn
<1>6. Chained
  <2> SUFFICES ASSUME NEW g \in Gens
               PROVE  Whole(g)
    BY DEF Chained
  <2>1. Path(g) = PathOf(<<>>, <<>>, <<>>, <<>>)
    <3>1. KeptNow = <<>>
      BY <1>1 DEF KeptNow
    <3> QED BY <1>1, <1>2, <1>5, <3>1, PathIs
  <2>2. \A from : Alike(PathOf(<<>>, <<>>, <<>>, <<>>), <<>>, from, g)
    BY <1>2, PathFresh
  <2>3. \A from : IdsOf(Path(g), from, g) = {} /\ Rising(Path(g), from, g)
    BY <1>3, <2>1, <2>2 DEF Alike
  <2>4. ui.typed[g] = 0 /\ Ponged(g) = 0 /\ 1 .. 0 = {}
    BY <1>1 DEF Ponged
  <2>5. Numbered(Path(g), "ui", g, 0)
    BY <2>3, <2>4 DEF Numbered
  <2>6. Gapless(Path(g), "pong", g) /\ IdsOf(Path(g), "pong", g) = 1 .. 0
    BY <2>3, <2>4 DEF Gapless
  <2> QED BY <2>4, <2>5, <2>6 DEF Whole, WholeOf
<1>7. Fresh
  BY <1>1 DEF Fresh
<1>8. Ordered
  BY <1>2, <1>4, <1>5 DEF Ordered, Gapless
<1>9. Flushed
  BY <1>5 DEF Flushed
<1> QED BY <1>6, <1>7, <1>8, <1>9 DEF PathInv

LEMMA PathStep ==
    TypeInv /\ TypeInv' /\ DialInv /\ WantInv /\ ShapeInv /\ OwnInv /\ PathInv /\ [Next]_vars
        => PathInv'
BY ChainedStep, FreshStep, OrderedStep, FlushedStep DEF PathInv

LEMMA PathAlways == Spec => []PathInv
BY PathInit, PathStep, OwnAlways, ShapeAlways, WantAlways, CredAlways, TypeAlways, PTL
   DEF Spec

\* A socket carries only lines submitted for its own generation, each at most
\* once, in the order they were submitted and without a gap, UI lines and
\* replies alike: however batches are split, sends fail and Dials overtake each
\* other, nothing is replayed on a newer connection, no line typed before a
\* Dial migrates to the winner, and no stale reply reaches it (writer_queue,
\* writer_admit, admit_consider, writer_pong).
THEOREM WiresOrdered == Spec => []WireInOrder
<1>1. ASSUME TypeInv, Kin("ui"), Kin("pong"), PathInv
      PROVE  WireInOrder
  <2> SUFFICES ASSUME NEW g \in Gens
               PROVE  /\ \A i \in DOMAIN WireLines(g) : WireLines(g)[i].gen = g
                      /\ \A from \in {"ui", "pong"} : Gapless(<<WireLines(g)>>, from, g)
    BY DEF WireInOrder
  <2>1. WireLines(g) = Lines(conn[g].wire) /\ Lines(conn[g].wire) \in Seq(Line)
    BY <1>1, PathIs, PathTyped
  <2>2. \A from \in {"ui", "pong"} : Gapless(<<WireLines(g)>>, from, g)
    BY <1>1, <2>1 DEF PathInv, Ordered
  <2>3. ASSUME NEW i \in DOMAIN WireLines(g)
        PROVE  WireLines(g)[i].gen = g
    <3>1. WireLines(g)[i] \in Line
      BY <2>1
    <3>2. WireLines(g)[i].from \in {"ui", "pong"}
      BY <3>1, LineIds
    <3> QED BY <1>1, <2>1, <3>2 DEF Kin, Hers
  <2> QED BY <2>2, <2>3
<1> QED BY <1>1, LinesOwnAlways, RepliesAlways, PathAlways, TypeAlways, PTL

\* While a connection is set up or is up, none of the lines the UI submitted
\* for it is lost, duplicated or out of order on its way, wherever each of them
\* is: queued in cmd, kept by a setup, waiting in the writer or sent; and an
\* orderly end (Hangup, a newer Dial, cmd-close) leaves all of them on the wire
\* (writer_hangup, writer_dial, writer_finish, writer_kept).
THEOREM PathLossless == Spec => []NothingLost
<1>1. PathInv => NothingLost
  <2> SUFFICES ASSUME PathInv, NEW g \in Gens \ {0}
               PROVE  /\ InPlay(g) => Numbered(Path(g), "ui", g, ui.typed[g])
                      /\ conn[g].st = "flushed" =>
                           Numbered(<<WireLines(g)>>, "ui", g, ui.typed[g])
    BY DEF NothingLost
  <2>1. ASSUME InPlay(g)
        PROVE  Numbered(Path(g), "ui", g, ui.typed[g])
    BY <2>1 DEF PathInv, Chained, Carries, Whole, WholeOf
  <2>2. ASSUME conn[g].st = "flushed"
        PROVE  Numbered(<<WireLines(g)>>, "ui", g, ui.typed[g])
    BY <2>2, PathIs DEF PathInv, Flushed
  <2> QED BY <2>1, <2>2
<1> QED BY <1>1, PathAlways, PTL

-----------------------------------------------------------------------------
(* The line budget *)

\* What a budget still grants.
Grant(b) == b.turns * SEND_CAP + b.credit

\* What the failed sends may have lost.
Lost == Cardinality(Broken) * (SEND_CAP - 1)

BudgetInv ==
    /\ w.budget.limited <=> Frames # 0
    /\ \A g \in Gens : /\ conn[g].st = "failed" => conn[g].reg # "none"
                       /\ conn[g].extra <= Len(conn[g].wire)
    /\ Frames # 0 =>
         /\ SumFunction(Taken) + Grant(w.budget) <= Frames * SEND_CAP
         /\ Frames * SEND_CAP <= SumFunction(Taken) + Grant(w.budget) + Lost

\* No line is sent, nothing is taken from the budget and no send fails.
Unspent ==
    /\ w'.budget = w.budget
    /\ \A g \in Gens :
         /\ conn'[g].wire = conn[g].wire /\ conn'[g].extra = conn[g].extra
         /\ conn'[g] # conn[g] => conn[g].reg = "none" /\ conn'[g].st # "failed"

\* A queue command spends what it sends, and a failed one less than a batch more.
Spent(v, r) ==
    /\ r.w.budget.limited <=> v.budget.limited
    /\ v.budget.limited =>
         /\ Grant(r.w.budget) + Len(r.wire) <= Grant(v.budget)
         /\ Grant(v.budget)
              <= Grant(r.w.budget) + Len(r.wire) + (IF r.ok THEN 0 ELSE SEND_CAP - 1)

LEMMA GrantNat ==
    ASSUME NEW b \in Budget
    PROVE  Grant(b) \in Nat
<1>1. b.turns \in Nat /\ b.credit \in Nat /\ SEND_CAP \in Nat
  BY OutboundAssumption DEF Budget, U32
<1> QED BY <1>1 DEF Grant

\* What connections took from the budget, whatever they are.
TakenOf(c) == [g \in Gens |-> Len(c[g].wire) - c[g].extra]

LEMMA TakenTyped ==
    ASSUME NEW c \in [Gens -> Conns], \A g \in Gens : c[g].extra <= Len(c[g].wire)
    PROVE  /\ IsFiniteSet(Gens) /\ TakenOf(c) \in [Gens -> Nat]
           /\ SumFunction(TakenOf(c)) \in Nat
           /\ \A g \in Gens : TakenOf(c)[g] = Len(c[g].wire) - c[g].extra
<1>1. IsFiniteSet(Gens)
  BY NetActorAssumption
<1>2. \A g \in Gens : c[g].wire \in Seq(Sent) /\ c[g].extra \in Nat
  BY DEF Conns
<1>3. TakenOf(c) \in [Gens -> Nat] /\ \A g \in Gens : TakenOf(c)[g] = Len(c[g].wire) - c[g].extra
  BY <1>2 DEF TakenOf
<1> QED BY <1>1, <1>3, SumNat

LEMMA CountLost ==
    ASSUME NEW B \in SUBSET Gens
    PROVE  /\ Cardinality(B) * (SEND_CAP - 1) \in Nat
           /\ \A g \in Gens \ B :
                Cardinality(B \cup {g}) * (SEND_CAP - 1)
                  = Cardinality(B) * (SEND_CAP - 1) + (SEND_CAP - 1)
<1>1. IsFiniteSet(B) /\ Cardinality(B) \in Nat
  BY NetActorAssumption, FS_Subset, FS_CardinalityType
<1>2. SEND_CAP - 1 \in Nat
  BY OutboundAssumption
<1>3. \A n, k \in Nat : n * k \in Nat /\ (n + 1) * k = n * k + k
  OBVIOUS
<1>4. ASSUME NEW g \in Gens \ B
      PROVE  Cardinality(B \cup {g}) = Cardinality(B) + 1
  BY <1>1, FS_AddElement
<1> QED BY <1>1, <1>2, <1>3, <1>4

\* Writers that own no socket still own their budget.
LEMMA RestSpent ==
    ASSUME NEW v \in Writers, NEW r,
           \/ r = [w |-> Emptied(v), wire |-> <<>>, ok |-> TRUE, pump |-> FALSE]
           \/ r = [w |-> v, wire |-> <<>>, ok |-> TRUE, pump |-> FALSE]
    PROVE  Spent(v, r)
<1>1. r.w.budget = v.budget /\ r.wire = <<>>
  BY DEF Emptied, Socketless, Adopted
<1>2. Grant(v.budget) \in Nat
  BY WriterFields, GrantNat
<1>3. Len(<<>>) = 0
  OBVIOUS
<1>4. r.ok
  OBVIOUS
<1> QED BY <1>1, <1>2, <1>3, <1>4 DEF Spent

LEMMA QueueSpends ==
    ASSUME NEW v \in Writers, NEW outs \in Seq(Line), NEW txn \in U32,
           NEW r \in WriterQueue(v, outs, txn)
    PROVE  Spent(v, r)
<1>1. CASE ~v.sock
  BY <1>1, RestSpent DEF WriterQueue
<1>2. CASE v.sock
  <2> DEFINE all    == v.pending \o outs
             allTxn == v.ptxn \o RepeatTxn(txn, Len(outs))
             plan   == Batch(all, v.budget)
             sent   == Len(plan.now)
             ntxn   == IF outs = <<>> THEN v.ntxn ELSE NextBatchTxn(v.ntxn)
             need   == ~v.sched /\ plan.later # <<>> /\ BudgetOpen(plan.budget)
             queued == [v EXCEPT !.pending = plan.later,
                                 !.ptxn    = SplitLater(allTxn, sent),
                                 !.ntxn    = ntxn,
                                 !.budget  = plan.budget,
                                 !.sched   = @ \/ need]
  <2>1. all \in Seq(Line) /\ v.budget \in Budget
    BY WriterFields
  <2>2. SplitNow(allTxn, sent) \in Seq(U32)
    <3>1. allTxn \in Seq(U32)
      BY RepeatTyped, WriterFields
    <3>2. plan.now \in Seq(Line)
      <4> HIDE DEF all
      <4> QED BY <2>1, BatchSplits
    <3>3. sent \in Nat
      <4> HIDE DEF plan
      <4> QED BY <3>2
    <3> HIDE DEF allTxn, sent
    <3> QED BY <3>1, <3>3, SplitKeepsAll
  <2>3. /\ plan.now \in Seq(Line) /\ Len(plan.now) <= SEND_CAP /\ plan.budget \in Budget
        /\ v.budget.limited =>
             Grant(plan.budget) + Len(plan.now) = Grant(v.budget)
    <3> HIDE DEF all
    <3>1. /\ plan.now \in Seq(Line) /\ Len(plan.now) <= SEND_CAP
          /\ plan.budget \in Budget
      BY <2>1, BatchSplits
    <3>2. v.budget.limited =>
            plan.budget.turns * SEND_CAP + plan.budget.credit + Len(plan.now)
              = v.budget.turns * SEND_CAP + v.budget.credit
      BY <2>1, BatchSpends
    <3> QED BY <3>1, <3>2 DEF Grant
  <2>4. plan.budget.limited = v.budget.limited
    BY <2>1 DEF Batch, BudgetAfter, BudgetReady, Budget
  <2>5. queued.budget = plan.budget
    <3> HIDE DEF plan, ntxn, sent, allTxn
    <3> QED BY DEF Writers
  <2>6. Emptied(queued).budget = plan.budget
    BY <2>5 DEF Emptied, Socketless, Adopted
  <2>7. PICK b \in SendBatch(plan.now, SplitNow(allTxn, sent)) :
            r = [w    |-> IF b.ok THEN queued ELSE Emptied(queued),
                 wire |-> b.wire,
                 ok   |-> b.ok,
                 pump |-> b.ok /\ need]
    BY <1>2 DEF WriterQueue
  <2>8. /\ Len(b.wire) \in Nat /\ b.ok \in BOOLEAN
        /\ b.ok => Len(b.wire) = Len(plan.now)
        /\ ~b.ok => Len(b.wire) \in 1 .. Len(plan.now)
    <3> DEFINE sends == Stamp(plan.now, SplitNow(allTxn, sent))
    <3>1. sends \in Seq(Sent) /\ Len(sends) = Len(plan.now)
      <4> HIDE DEF plan, sent, allTxn
      <4> QED BY <2>2, <2>3, StampTyped
    <3>2. \/ b = [wire |-> sends, ok |-> TRUE]
          \/ \E n \in 1 .. Len(plan.now) : b = [wire |-> SubSeq(sends, 1, n), ok |-> FALSE]
      <4> HIDE DEF plan, sent, allTxn
      <4> QED BY <2>7 DEF SendBatch
    <3>3. \A n \in 1 .. Len(sends) : Len(SubSeq(sends, 1, n)) = n
      <4> HIDE DEF sends
      <4> QED BY <3>1
    <3>4. Len(plan.now) \in Nat
      <4> HIDE DEF plan
      <4> QED BY <2>3
    <3> HIDE DEF sends, plan
    <3>5. CASE b = [wire |-> sends, ok |-> TRUE]
      BY <3>1, <3>4, <3>5
    <3>6. ASSUME NEW n \in 1 .. Len(plan.now), b = [wire |-> SubSeq(sends, 1, n), ok |-> FALSE]
          PROVE  b.ok = FALSE /\ Len(b.wire) = n /\ n \in Nat
      <4>1. n \in 1 .. Len(sends) /\ n \in Nat
        BY <3>1, <3>4
      <4>2. b.ok = FALSE /\ b.wire = SubSeq(sends, 1, n)
        BY <3>6
      <4> QED BY <3>3, <4>1, <4>2
    <3> QED BY <3>2, <3>5, <3>6
  <2> HIDE DEF plan, queued
  <2>9. r.w.budget = plan.budget /\ r.ok = b.ok /\ r.wire = b.wire
    BY <2>5, <2>6, <2>7
  <2>10. Grant(plan.budget) \in Nat /\ Grant(v.budget) \in Nat /\ Len(plan.now) \in Nat
    BY <2>1, <2>3, GrantNat
  <2>11. SEND_CAP \in Nat
    BY OutboundAssumption
  <2>12. v.budget.limited =>
           /\ Grant(plan.budget) + Len(b.wire) <= Grant(v.budget)
           /\ Grant(v.budget)
                <= Grant(plan.budget) + Len(b.wire) + (IF b.ok THEN 0 ELSE SEND_CAP - 1)
    BY <2>3, <2>8, <2>10, <2>11
  <2> QED BY <2>4, <2>9, <2>12 DEF Spent
<1> QED BY <1>1, <1>2

LEMMA OutcomeSpends ==
    ASSUME TypeInv, NEW c \in Commands, NEW r \in QueueOutcomes(c)
    PROVE  Spent(w, r)
<1>1. w \in Writers /\ w.ntxn \in U32 /\ w.budget \in Budget
  BY StateTyped, WriterFields
<1>2. <<>> \in Seq(Line) /\ 0 \in U32
  BY OutboundAssumption DEF U32
<1>3. CASE c.k = "Cont"
  BY <1>1, <1>3, CommandFields, QueueSpends DEF QueueOutcomes, WriterCont
<1>4. CASE c.k = "Pong" /\ c.gen = w.gen
  BY <1>1, <1>4, CommandFields, QueueSpends DEF QueueOutcomes, WriterPong
<1>5. CASE c.k = "Pump" /\ c.gen = w.gen
  <2> DEFINE v == [w EXCEPT !.sched = FALSE]
  <2>1. v \in Writers /\ v.budget = w.budget
    BY <1>1 DEF Writers
  <2>2. r \in WriterQueue(v, <<>>, 0)
    BY <1>5 DEF QueueOutcomes, WriterPump
  <2> HIDE DEF v
  <2>3. Spent(v, r)
    BY <1>2, <2>1, <2>2, QueueSpends
  <2> QED BY <2>1, <2>3 DEF Spent
<1>6. CASE ~(c.k = "Cont" \/ (c.k \in {"Pong", "Pump"} /\ c.gen = w.gen))
  <2>1. r \in Unmoved(w)
    BY <1>6 DEF QueueOutcomes, WriterPong, WriterPump
  <2> QED BY <1>1, <2>1, RestSpent DEF Unmoved
<1> QED BY <1>3, <1>4, <1>5, <1>6

LEMMA BudgetUnspent ==
    ASSUME TypeInv, BudgetInv, Unspent
    PROVE  BudgetInv'
<1>1. Taken' = Taken
  BY DEF Unspent, Taken
<1>2. \A g \in Gens : conn'[g].st = "failed" <=> conn[g].st = "failed"
  BY DEF Unspent, BudgetInv
<1>3. Lost' = Lost
  <2>1. Broken' = Broken
    BY <1>2 DEF Broken
  <2> QED BY <2>1 DEF Lost
<1>4. \A g \in Gens : /\ conn'[g].st = "failed" => conn'[g].reg # "none"
                      /\ conn'[g].extra <= Len(conn'[g].wire)
  BY <1>2 DEF Unspent, BudgetInv
<1>5. w'.budget.limited = w.budget.limited /\ Grant(w.budget)' = Grant(w.budget)
  BY DEF Unspent, Grant
<1> QED BY <1>1, <1>3, <1>4, <1>5 DEF BudgetInv

\* A setup works on a connection that was never registered.
LEMMA SetupUnspent ==
    ASSUME TypeInv, WantInv, ShapeInv, BudgetInv,
           \/ DialConnected \/ SetupCancel \/ SetupRetry \/ UpgradeFailed
           \/ UpgradeDone \/ Register \/ RegisterFailed
    PROVE  Unspent
<1>1. /\ s \in Setups /\ s.gen \in Gens /\ s.gen \in Nat /\ w \in Writers
      /\ conn \in [Gens -> Conns] /\ conn[s.gen] \in Conns
  BY StateTyped, ConnTyped
<1>2. conn[s.gen].reg = "none" /\ conn[s.gen].wire = <<>> /\ conn[s.gen].extra = 0
  <2>1. pc \in Setting
    BY DEF DialConnected, SetupCancel, SetupRetry, UpgradeFailed, UpgradeDone,
           Register, RegisterFailed, Setting
  <2>2. ~(s.gen < s.gen)
    BY <1>1
  <2>3. ~Behind(s.gen)
    BY <2>1, <2>2 DEF Behind
  <2>4. conn[s.gen].reg = "none" /\ conn[s.gen].wire = <<>>
    BY <1>1, <2>3, Unregistered DEF ShapeInv
  <2>5. conn[s.gen].extra \in Nat /\ conn[s.gen].extra <= Len(<<>>) /\ Len(<<>>) = 0
    BY <1>1, <2>4 DEF BudgetInv, Conns
  <2> QED BY <2>4, <2>5
<1>3. w'.budget = w.budget
  BY DEF DialConnected, SetupCancel, SetupRetry, UpgradeFailed, UpgradeDone, Register,
         RegisterFailed, LeaveIdle, Socketless, Adopted
<1>4. /\ \A g \in Gens : g # s.gen => conn'[g] = conn[g]
      /\ conn'[s.gen].wire = conn[s.gen].wire /\ conn'[s.gen].extra = conn[s.gen].extra
      /\ conn'[s.gen].st # "failed"
  <2>1. CASE DialConnected
    <3>1. conn' = [conn EXCEPT ![s.gen] = [NoConn EXCEPT !.st = "raw", !.ep = s.ep]]
      BY <2>1 DEF DialConnected
    <3> QED BY <1>1, <1>2, <3>1 DEF NoConn
  <2>2. CASE SetupCancel \/ SetupRetry \/ UpgradeFailed
    <3>1. conn' = [conn EXCEPT ![s.gen].st = "abandoned"]
      BY <2>2 DEF SetupCancel, SetupRetry, UpgradeFailed, CloseConn
    <3> QED BY <1>1, <3>1 DEF Conns
  <2>3. CASE UpgradeDone
    <3> DEFINE x == IF cmdOpen THEN ui.want ELSE 0
    <3>1. conn' = [conn EXCEPT ![s.gen].st = "up", ![s.gen].wanted = x]
      BY <2>3 DEF UpgradeDone
    <3> HIDE DEF x
    <3> QED BY <1>1, <3>1 DEF Conns
  <2>4. CASE Register \/ RegisterFailed
    <3> DEFINE x == IF scope.on THEN "sasl" ELSE "plain"
               y == IF Register THEN "live" ELSE "abandoned"
    <3>1. PICK st \in {"live", "abandoned"} :
              conn' = [conn EXCEPT ![s.gen].st = st, ![s.gen].reg = x]
      BY <2>4 DEF Register, RegisterFailed
    <3> HIDE DEF x
    <3> QED BY <1>1, <3>1 DEF Conns
  <2> QED BY <2>1, <2>2, <2>3, <2>4
<1> QED BY <1>2, <1>3, <1>4 DEF Unspent

LEMMA OthersUnspent ==
    ASSUME TypeInv,
           \/ DeferredCommand \/ DeferredEnded \/ DialFailed \/ PeekCommand \/ PeekEnd
           \/ SetupUpgrade \/ DrainCommand \/ DrainEnded \/ ArmBoot
           \/ WriterEof \/ WriterDone \/ UiCommand \/ UiTake \/ UNCHANGED vars
           \/ \E g \in Gens : PumpSend(g) \/ FailPost(g) \/ ReaderStep(g)
    PROVE  Unspent
<1>1. UNCHANGED conn /\ w'.budget = w.budget
  <2>1. w \in Writers
    BY StateTyped
  <2>2. CASE DeferredCommand \/ DeferredEnded
    <3>1. w' = w \/ w' = [w EXCEPT !.gen = s.gen]
      BY <2>2 DEF DeferredCommand, DeferredEnded
    <3>2. UNCHANGED conn
      BY <2>2 DEF DeferredCommand, DeferredEnded
    <3> QED BY <2>1, <3>1, <3>2 DEF Writers
  <2>3. CASE DialFailed
    BY <2>3 DEF DialFailed, LeaveIdle, Socketless, Adopted
  <2>4. CASE \/ PeekCommand \/ PeekEnd \/ SetupUpgrade \/ DrainCommand \/ DrainEnded
             \/ ArmBoot \/ WriterEof \/ WriterDone \/ UiTake \/ UNCHANGED vars
    BY <2>4 DEF PeekCommand, PeekEnd, SetupUpgrade, DrainCommand, DrainEnded, ArmBoot,
                WriterEof, WriterDone, UiTake, actorVars, vars
  <2>5. CASE UiCommand
    BY <2>5 DEF UiCommand, UiCont, UiDial, UiCut, UiBegin, UiClose, UiSend, actorVars
  <2>6. CASE \E g \in Gens : PumpSend(g) \/ FailPost(g) \/ ReaderStep(g)
    BY <2>6 DEF PumpSend, FailPost, ReaderStep, ReaderUp, ReaderRecv, ReaderPong,
                ReaderChunk, ReaderStop
  <2> QED BY <2>2, <2>3, <2>4, <2>5, <2>6
<1> QED BY <1>1 DEF Unspent

LEMMA BudgetSends ==
    ASSUME TypeInv, TypeInv', ShapeInv, BudgetInv, Sends
    PROVE  BudgetInv'
<1>1. PICK c, r : SendStep(c, r)
  BY DEF Sends
<1>2. /\ w' = r.w /\ w.gen \in Gens /\ r.wire \in Seq(Sent)
      /\ \A g \in Gens : /\ conn'[g].reg = conn[g].reg
                         /\ g # w.gen => conn'[g] = conn[g]
      /\ conn'[w.gen].wire = conn[w.gen].wire \o r.wire
  BY <1>1, SendFacts
<1>3. Spent(w, r)
  BY <1>1, OutcomeSpends DEF SendStep
<1>4. r.ok \/ w.sock
  BY <1>1, OutcomeMoves DEF SendStep, Moved
<1>5. /\ conn'[w.gen].st = IF r.ok THEN conn[w.gen].st ELSE "failed"
      /\ conn'[w.gen].extra = conn[w.gen].extra
  <2>1. conn \in [Gens -> Conns] /\ conn[w.gen] \in Conns
    BY <1>2, ConnTyped
  <2> DEFINE x == conn[w.gen].wire \o r.wire
             y == IF r.ok THEN conn[w.gen].st ELSE "failed"
  <2>2. conn' = [conn EXCEPT ![w.gen].wire = x, ![w.gen].st = y]
    <3>1. conn' = [conn EXCEPT ![w.gen].wire = @ \o r.wire,
                               ![w.gen].st = IF r.ok THEN @ ELSE "failed"]
      BY <1>1 DEF SendStep, Sending
    <3> QED BY <1>2, <2>1, <3>1 DEF Conns
  <2> HIDE DEF x, y
  <2>3. conn'[w.gen].st = y /\ conn'[w.gen].extra = conn[w.gen].extra
    BY <1>2, <2>1, <2>2 DEF Conns
  <2> QED BY <2>3 DEF y
<1>6. w.sock => conn[w.gen].reg # "none" /\ conn[w.gen].st = "live"
  BY DEF ShapeInv, Sockets
<1>7. /\ conn \in [Gens -> Conns] /\ conn' \in [Gens -> Conns]
      /\ conn[w.gen].wire \in Seq(Sent) /\ conn[w.gen].extra \in Nat /\ Len(r.wire) \in Nat
      /\ Len(conn[w.gen].wire) \in Nat
      /\ Len(conn'[w.gen].wire) = Len(conn[w.gen].wire) + Len(r.wire)
  <2>1. conn \in [Gens -> Conns] /\ conn' \in [Gens -> Conns]
    BY DEF TypeInv, TypeOK
  <2>2. conn[w.gen].wire \in Seq(Sent) /\ conn[w.gen].extra \in Nat
    BY <1>2, <2>1 DEF Conns
  <2> QED BY <1>2, <2>1, <2>2, ConcatProperties
<1>8. \A g \in Gens : /\ conn'[g].st = "failed" => conn'[g].reg # "none"
                      /\ conn'[g].extra <= Len(conn'[g].wire)
  <2> SUFFICES ASSUME NEW g \in Gens
               PROVE  /\ conn'[g].st = "failed" => conn'[g].reg # "none"
                      /\ conn'[g].extra <= Len(conn'[g].wire)
    OBVIOUS
  <2>1. /\ conn[g].st = "failed" => conn[g].reg # "none"
        /\ conn[g].extra <= Len(conn[g].wire)
    BY DEF BudgetInv
  <2>2. CASE g # w.gen
    BY <1>2, <2>1, <2>2
  <2>3. CASE g = w.gen
    <3>1. conn'[g].st = "failed" => conn'[g].reg # "none"
      BY <1>2, <1>4, <1>5, <1>6, <2>1, <2>3
    <3>2. \A e, a, n \in Nat : e <= a => e <= a + n
      OBVIOUS
    <3>3. conn[w.gen].extra <= Len(conn[w.gen].wire) + Len(r.wire)
      BY <1>7, <2>1, <2>3, <3>2
    <3>4. conn'[w.gen].extra <= Len(conn'[w.gen].wire)
      BY <1>5, <1>7, <3>3
    <3> QED BY <2>3, <3>1, <3>4
  <2> QED BY <2>2, <2>3
<1>9. w'.budget.limited <=> Frames # 0
  BY <1>2, <1>3 DEF Spent, BudgetInv
<1>10. ASSUME Frames # 0
       PROVE  /\ SumFunction(Taken') + Grant(w'.budget) <= Frames * SEND_CAP
              /\ Frames * SEND_CAP <= SumFunction(Taken') + Grant(w'.budget) + Lost'
  <2>1. /\ SumFunction(Taken) + Grant(w.budget) <= Frames * SEND_CAP
        /\ Frames * SEND_CAP <= SumFunction(Taken) + Grant(w.budget) + Lost
    BY <1>10 DEF BudgetInv
  <2>2. /\ Grant(w'.budget) + Len(r.wire) <= Grant(w.budget)
        /\ Grant(w.budget)
             <= Grant(w'.budget) + Len(r.wire) + (IF r.ok THEN 0 ELSE SEND_CAP - 1)
    BY <1>2, <1>3, <1>10 DEF Spent, BudgetInv
  <2>3. /\ SumFunction(Taken) \in Nat /\ SumFunction(Taken') \in Nat
        /\ SumFunction(Taken') = SumFunction(Taken) + Len(r.wire)
    <3>1. Taken = TakenOf(conn) /\ Taken' = TakenOf(conn')
      BY DEF Taken, TakenOf
    <3>2. \A g \in Gens : conn[g].extra <= Len(conn[g].wire)
      BY DEF BudgetInv
    <3>3. /\ IsFiniteSet(Gens) /\ Taken \in [Gens -> Nat] /\ Taken' \in [Gens -> Nat]
          /\ \A g \in Gens : /\ Taken[g] = Len(conn[g].wire) - conn[g].extra
                             /\ Taken'[g] = Len(conn'[g].wire) - conn'[g].extra
      <4>1. /\ IsFiniteSet(Gens) /\ Taken \in [Gens -> Nat]
            /\ \A g \in Gens : Taken[g] = Len(conn[g].wire) - conn[g].extra
        BY <1>7, <3>1, <3>2, TakenTyped
      <4>2. \A g \in Gens : conn'[g].extra <= Len(conn'[g].wire)
        BY <1>8
      <4>3. /\ TakenOf(conn') \in [Gens -> Nat]
            /\ \A g \in Gens : TakenOf(conn')[g] = Len(conn'[g].wire) - conn'[g].extra
        BY <1>7, <4>2, TakenTyped
      <4> QED BY <3>1, <4>1, <4>3
    <3>4. \A g \in Gens \ {w.gen} : Taken'[g] = Taken[g]
      BY <1>2, <3>3
    <3>5. Taken'[w.gen] = Taken[w.gen] + Len(r.wire) /\ Taken[w.gen] \in Nat
      <4>1. \A e, a, n \in Nat : (a + n) - e = (a - e) + n
        OBVIOUS
      <4>2. /\ Taken[w.gen] = Len(conn[w.gen].wire) - conn[w.gen].extra
            /\ Taken'[w.gen] = (Len(conn[w.gen].wire) + Len(r.wire)) - conn[w.gen].extra
        <5>1. /\ Taken[w.gen] = Len(conn[w.gen].wire) - conn[w.gen].extra
              /\ Taken'[w.gen] = Len(conn'[w.gen].wire) - conn'[w.gen].extra
          BY <1>2, <3>3
        <5>2. Len(conn'[w.gen].wire) = Len(conn[w.gen].wire) + Len(r.wire)
          BY <1>7
        <5>3. conn'[w.gen].extra = conn[w.gen].extra
          BY <1>5
        <5> QED BY <5>1, <5>2, <5>3, Zenon
      <4>3. Taken[w.gen] \in Nat
        BY <1>2, <3>3
      <4>4. (Len(conn[w.gen].wire) + Len(r.wire)) - conn[w.gen].extra
              = (Len(conn[w.gen].wire) - conn[w.gen].extra) + Len(r.wire)
        BY <1>7, <4>1
      <4> QED BY <4>2, <4>3, <4>4, Zenon
    <3>6. /\ SumFunction(Taken) \in Nat /\ SumFunction(Taken') \in Nat
          /\ SumFunction(Taken') + Taken[w.gen] = SumFunction(Taken) + Taken'[w.gen]
      <4>1. IsFiniteSet(Gens) /\ Taken \in [Gens -> Nat] /\ Taken' \in [Gens -> Nat]
        BY <3>3
      <4>2. w.gen \in Gens
        BY <1>2
      <4> QED BY <3>4, <4>1, <4>2, SumChanges
    <3>7. SumFunction(Taken') + Taken[w.gen] = SumFunction(Taken) + (Taken[w.gen] + Len(r.wire))
      BY <3>5, <3>6, Zenon
    <3>8. Len(r.wire) \in Nat /\ Taken[w.gen] \in Nat
      BY <1>7, <3>5
    <3>9. SumFunction(Taken') = SumFunction(Taken) + Len(r.wire)
      <4> DEFINE after == SumFunction(Taken')
                 before == SumFunction(Taken)
                 own == Taken[w.gen]
                 more == Len(r.wire)
      <4>1. after \in Nat /\ before \in Nat /\ own \in Nat /\ more \in Nat
        BY <3>6, <3>8
      <4>2. after + own = before + (own + more)
        BY <3>7
      <4> HIDE DEF after, before, own, more
      <4>3. after = before + more
        BY <4>1, <4>2
      <4> QED BY <4>3 DEF after, before, more
    <3> QED BY <3>6, <3>9, Zenon
  <2>4. Grant(w.budget) \in Nat /\ Grant(w'.budget) \in Nat
    <3>1. w \in Writers /\ w' \in Writers
      BY DEF TypeInv, TypeOK
    <3> QED BY <3>1, WriterFields, GrantNat
  <2>5. Lost \in Nat /\ Lost' = Lost + (IF r.ok THEN 0 ELSE SEND_CAP - 1)
    <3>1. Broken \in SUBSET Gens
      BY DEF Broken
    <3>2. Lost \in Nat
      BY <3>1, CountLost DEF Lost
    <3>3. CASE r.ok
      <4>1. Broken' = Broken
        BY <1>2, <1>5, <3>3 DEF Broken
      <4> QED BY <3>2, <3>3, <4>1 DEF Lost
    <3>4. CASE ~r.ok
      <4>1. Broken' = Broken \cup {w.gen} /\ w.gen \in Gens \ Broken
        BY <1>2, <1>4, <1>5, <1>6, <3>4 DEF Broken
      <4>2. Cardinality(Broken') * (SEND_CAP - 1)
              = Cardinality(Broken) * (SEND_CAP - 1) + (SEND_CAP - 1)
        BY <3>1, <4>1, CountLost
      <4> QED BY <3>2, <3>4, <4>2 DEF Lost
    <3> QED BY <3>2, <3>3, <3>4
  <2>6. SEND_CAP \in Nat /\ Frames * SEND_CAP \in Nat
    <3>1. SEND_CAP \in Nat /\ Frames \in Nat
      BY NetActorAssumption, OutboundAssumption DEF U32
    <3> QED BY <3>1
  <2>7. SEND_CAP - 1 \in Nat
    BY OutboundAssumption
  <2> DEFINE k == IF r.ok THEN 0 ELSE SEND_CAP - 1
  <2>8. k \in Nat
    BY <2>7
  <2> HIDE DEF k
  <2>9. \A sum, left, old, n, lost, all \in Nat :
          sum + old <= all /\ left + n <= old => (sum + n) + left <= all
    OBVIOUS
  <2>10. \A sum, left, old, n, lost, all \in Nat :
           all <= sum + old + lost /\ old <= left + n + k
             => all <= (sum + n) + left + (lost + k)
    BY <2>8
  <2>11. Grant(w.budget) <= Grant(w'.budget) + Len(r.wire) + k /\ Lost' = Lost + k
    BY <2>2, <2>5 DEF k
  <2>12. Len(r.wire) \in Nat
    BY <1>7
  <2>13. SumFunction(Taken') + Grant(w'.budget) <= Frames * SEND_CAP
    BY <2>1, <2>2, <2>3, <2>4, <2>5, <2>6, <2>9, <2>12
  <2>14. Frames * SEND_CAP <= SumFunction(Taken') + Grant(w'.budget) + Lost'
    BY <2>1, <2>3, <2>4, <2>5, <2>6, <2>10, <2>11, <2>12
  <2> QED BY <2>13, <2>14
<1>11. Grant(w.budget)' = Grant(w'.budget) /\ SumFunction(Taken)' = SumFunction(Taken')
  BY DEF Grant
<1> QED BY <1>8, <1>9, <1>10, <1>11 DEF BudgetInv

\* What a close flushes is outside the budget, and its failure loses nothing.
LEMMA BudgetCloses ==
    ASSUME TypeInv, TypeInv', DialInv, ShapeInv, BudgetInv, Closes
    PROVE  BudgetInv'
<1>1. PICK report, wire, how : Closing(report, wire, how) /\ Flushing(wire, how)
  BY DEF Closes
<1>2. /\ w.gen \in Gens
      /\ \A g \in Gens : /\ conn'[g].reg = conn[g].reg
                         /\ g # w.gen \/ ~w.sock => conn'[g] = conn[g]
      /\ w.sock => /\ conn'[w.gen].wire = conn[w.gen].wire \o wire
                   /\ conn'[w.gen].extra = conn[w.gen].extra + Len(wire)
                   /\ conn'[w.gen].st = how
  BY <1>1, ClosingFacts
<1>3. w'.budget = w.budget /\ wire \in Seq(Sent)
  BY <1>1 DEF Closing, Emptied, Socketless, Adopted
<1>4. w.sock => conn[w.gen].reg # "none" /\ conn[w.gen].st = "live"
  BY DEF ShapeInv, Sockets
<1>5. /\ conn[w.gen].extra \in Nat /\ Len(conn[w.gen].wire) \in Nat /\ Len(wire) \in Nat
      /\ w.sock => Len(conn'[w.gen].wire) = Len(conn[w.gen].wire) + Len(wire)
  <2>1. conn[w.gen].wire \in Seq(Sent) /\ conn[w.gen].extra \in Nat
    BY <1>2, ConnTyped DEF Conns
  <2>2. Len(conn[w.gen].wire \o wire) = Len(conn[w.gen].wire) + Len(wire)
    BY <1>3, <2>1, ConcatProperties
  <2>3. Len(conn[w.gen].wire) \in Nat /\ Len(wire) \in Nat
    BY <1>3, <2>1
  <2> QED BY <1>2, <2>1, <2>2, <2>3
<1>6. ASSUME NEW g \in Gens
      PROVE  /\ conn'[g].st = "failed" => conn'[g].reg # "none"
             /\ conn'[g].extra <= Len(conn'[g].wire)
             /\ Len(conn'[g].wire) - conn'[g].extra = Len(conn[g].wire) - conn[g].extra
  <2>1. /\ conn[g].st = "failed" => conn[g].reg # "none"
        /\ conn[g].extra <= Len(conn[g].wire)
    BY DEF BudgetInv
  <2>2. CASE g # w.gen \/ ~w.sock
    BY <1>2, <2>1, <2>2
  <2>3. CASE g = w.gen /\ w.sock
    <3>1. conn'[w.gen].reg # "none"
      BY <1>2, <1>4, <2>3
    <3>2. \A e, a, n \in Nat :
            e <= a => e + n <= a + n /\ (a + n) - (e + n) = a - e
      OBVIOUS
    <3>3. /\ conn'[w.gen].extra = conn[w.gen].extra + Len(wire)
          /\ Len(conn'[w.gen].wire) = Len(conn[w.gen].wire) + Len(wire)
      BY <1>2, <1>5, <2>3
    <3>4. /\ conn[w.gen].extra + Len(wire) <= Len(conn[w.gen].wire) + Len(wire)
          /\ (Len(conn[w.gen].wire) + Len(wire)) - (conn[w.gen].extra + Len(wire))
               = Len(conn[w.gen].wire) - conn[w.gen].extra
      BY <1>5, <2>1, <2>3, <3>2
    <3> QED BY <2>3, <3>1, <3>3, <3>4
  <2> QED BY <2>2, <2>3
<1>7. Taken' = Taken
  BY <1>6 DEF Taken
<1>8. Lost \in Nat /\ Lost' \in Nat /\ Lost <= Lost'
  <2>1. Broken \in SUBSET Gens /\ Broken' \in SUBSET Gens
    BY DEF Broken
  <2>2. SEND_CAP - 1 \in Nat
    BY OutboundAssumption
  <2>3. Broken' = Broken \/ \E g \in Gens \ Broken : Broken' = Broken \cup {g}
    BY <1>2, <1>4 DEF Broken
  <2>4. /\ Cardinality(Broken) * (SEND_CAP - 1) \in Nat
        /\ Cardinality(Broken') * (SEND_CAP - 1) \in Nat
    BY <2>1, CountLost
  <2>5. \/ Broken' = Broken
        \/ Cardinality(Broken') * (SEND_CAP - 1)
             = Cardinality(Broken) * (SEND_CAP - 1) + (SEND_CAP - 1)
    BY <2>1, <2>3, CountLost
  <2>6. CASE Broken' = Broken
    BY <2>4, <2>6 DEF Lost
  <2>7. CASE Cardinality(Broken') * (SEND_CAP - 1)
               = Cardinality(Broken) * (SEND_CAP - 1) + (SEND_CAP - 1)
    BY <2>2, <2>4, <2>7 DEF Lost
  <2> QED BY <2>5, <2>6, <2>7
<1>9. Grant(w.budget)' = Grant(w.budget) /\ Grant(w.budget) \in Nat
  BY <1>3, StateTyped, WriterFields, GrantNat DEF Grant
<1>10. SumFunction(Taken) \in Nat
  <2>1. Taken = TakenOf(conn)
    BY DEF Taken, TakenOf
  <2> QED BY <2>1, ConnTyped, TakenTyped DEF BudgetInv
<1>11. Frames * SEND_CAP \in Nat
  <2>1. SEND_CAP \in Nat /\ Frames \in Nat
    BY NetActorAssumption, OutboundAssumption DEF U32
  <2> QED BY <2>1
<1>12. Frames # 0 =>
         /\ SumFunction(Taken) + Grant(w.budget) <= Frames * SEND_CAP
         /\ Frames * SEND_CAP <= SumFunction(Taken) + Grant(w.budget) + Lost'
  <2>1. Frames # 0 =>
          /\ SumFunction(Taken) + Grant(w.budget) <= Frames * SEND_CAP
          /\ Frames * SEND_CAP <= SumFunction(Taken) + Grant(w.budget) + Lost
    BY DEF BudgetInv
  <2> QED BY <1>8, <1>9, <1>10, <1>11, <2>1
<1>13. w'.budget.limited <=> Frames # 0
  BY <1>3 DEF BudgetInv
<1> QED BY <1>6, <1>7, <1>9, <1>12, <1>13 DEF BudgetInv

LEMMA BudgetInit == Init => BudgetInv
<1> SUFFICES ASSUME Init PROVE BudgetInv
  OBVIOUS
<1>1. conn = [g \in Gens |-> NoConn] /\ w = Socketless(0, 1, BudgetFrames(Frames))
  BY DEF Init
<1>2. \A g \in Gens : conn[g].st = "none" /\ conn[g].wire = <<>> /\ conn[g].extra = 0
  BY <1>1 DEF NoConn
<1>3. w.budget = BudgetFrames(Frames)
  BY <1>1 DEF Socketless, Adopted
<1>4. SumFunction(Taken) = 0
  <2>1. Taken \in [Gens -> Nat] /\ \A g \in Gens : Taken[g] = 0
    BY <1>2 DEF Taken
  <2> QED BY <2>1, SumZeros, NetActorAssumption
<1>5. Frames \in Nat /\ SEND_CAP \in Nat /\ Len(<<>>) = 0
  BY NetActorAssumption, OutboundAssumption DEF U32
<1>6. w.budget.limited <=> Frames # 0
  BY <1>3 DEF BudgetFrames, Unlimited
<1>7. Frames # 0 => Grant(w.budget) = Frames * SEND_CAP
  BY <1>3, <1>5 DEF BudgetFrames, Grant
<1>8. Lost \in Nat
  <2>1. Broken \in SUBSET Gens
    BY DEF Broken
  <2> QED BY <2>1, CountLost DEF Lost
<1>9. Frames * SEND_CAP \in Nat
  BY <1>5
<1> QED BY <1>2, <1>4, <1>5, <1>6, <1>7, <1>8, <1>9 DEF BudgetInv

LEMMA BudgetStep ==
    /\ TypeInv /\ TypeInv' /\ DialInv /\ WantInv /\ ShapeInv /\ BudgetInv /\ [Next]_vars
    => BudgetInv'
<1> SUFFICES ASSUME TypeInv, TypeInv', DialInv, WantInv, ShapeInv, BudgetInv, [Next]_vars
             PROVE  BudgetInv'
  OBVIOUS
<1>1. CASE \/ DialConnected \/ SetupCancel \/ SetupRetry \/ UpgradeFailed
           \/ UpgradeDone \/ Register \/ RegisterFailed
  BY <1>1, SetupUnspent, BudgetUnspent
<1>2. CASE \/ DeferredCommand \/ DeferredEnded \/ DialFailed \/ PeekCommand \/ PeekEnd
           \/ SetupUpgrade \/ DrainCommand \/ DrainEnded \/ ArmBoot
           \/ WriterEof \/ WriterDone \/ UiCommand \/ UiTake \/ UNCHANGED vars
           \/ \E g \in Gens : PumpSend(g) \/ FailPost(g) \/ ReaderStep(g)
  BY <1>2, OthersUnspent, BudgetUnspent
<1>3. CASE Replay \/ ArmRedial \/ WriterSend
  BY <1>3, SendsSteps, BudgetSends
<1>4. CASE WriterDrop \/ WriterHangup \/ WriterDial \/ WriterFinish
  BY <1>4, ClosesSteps, BudgetCloses
<1>5. CASE WriterStep
  BY <1>1, <1>2, <1>3, <1>4, <1>5 DEF WriterStep
<1>6. CASE Stopped
  BY <1>2, <1>6 DEF Stopped
<1> QED BY <1>2, <1>5, <1>6 DEF Next

\* The budget of the launch is shared by every connection the actor ever has:
\* through refills, redials, failed setups, sends that stop half-way and ends
\* that flush, the lines taken from it and what is left never exceed SEND_CAP for
\* each frame, and fall short of it only by what failed sends took and lost, less
\* than a batch each.  What an end flushes goes past the budget and is counted
\* apart (budget_ready, budget_after, writer_queue, adopt_after_setup,
\* writer_finish, writer_hangup).
THEOREM BudgetHolds == Spec => []FrameBudget
<1>1. TypeInv /\ BudgetInv => FrameBudget
  <2> SUFFICES ASSUME TypeInv, BudgetInv, w.budget.limited
               PROVE  LET all   == Frames * SEND_CAP
                          known == SumFunction(Taken) + w.budget.turns * SEND_CAP
                                     + w.budget.credit
                      IN  known <= all /\ all <= known + Cardinality(Broken) * (SEND_CAP - 1)
    BY DEF FrameBudget
  <2>1. /\ SumFunction(Taken) + Grant(w.budget) <= Frames * SEND_CAP
        /\ Frames * SEND_CAP <= SumFunction(Taken) + Grant(w.budget) + Lost
    BY DEF BudgetInv
  <2>2. SumFunction(Taken) \in Nat
    <3>1. Taken = TakenOf(conn)
      BY DEF Taken, TakenOf
    <3> QED BY <3>1, ConnTyped, TakenTyped DEF BudgetInv
  <2>3. w.budget.turns * SEND_CAP \in Nat /\ w.budget.credit \in Nat
    <3>1. w.budget \in Budget
      BY StateTyped, WriterFields
    <3>2. w.budget.turns \in Nat /\ w.budget.credit \in Nat /\ SEND_CAP \in Nat
      BY <3>1, OutboundAssumption DEF Budget, U32
    <3> QED BY <3>2
  <2>4. SumFunction(Taken) + w.budget.turns * SEND_CAP + w.budget.credit
          = SumFunction(Taken) + Grant(w.budget)
    BY <2>2, <2>3 DEF Grant
  <2> QED BY <2>1, <2>4 DEF Lost
<1> QED BY <1>1, BudgetInit, BudgetStep, ShapeAlways, WantAlways, CredAlways, TypeAlways,
        PTL DEF Spec
=============================================================================
