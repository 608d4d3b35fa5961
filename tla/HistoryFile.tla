---------------------------- MODULE HistoryFile ----------------------------
(***************************************************************************)
(* The history file as the native layer writes and reads it                *)
(* (src/ffi/history_ffi.c): one appender (birc_history_append, called by   *)
(* the history worker) and one reader (birc_hist_read, called for an       *)
(* archive reload) that run on threads of their own and share only the     *)
(* file.                                                                   *)
(*                                                                         *)
(* The file is a sequence of cells: two cells stand for the bytes of a     *)
(* record, NL for its newline.  A write may stop inside a record and a     *)
(* read may end anywhere.                                                  *)
(***************************************************************************)
EXTENDS Integers, FiniteSets, SequencesExt, Functions

CONSTANTS
    Server,      \* the target "*server*", which has a ring of its own
    NL,          \* the newline byte
    Kinds,       \* what a record may say: [to, mine, day, sod]
    Keep,        \* min(cap, BIRC_HIST_KEEP_MAX) lines per target
    AliveMax,    \* BIRC_HIST_ALIVE_MAX
    LineMax,     \* BIRC_HIST_LINE_MAX, in cells
    ChunkMax,    \* BIRC_HIST_CHUNK, in cells
    LastDay,     \* 9999-12-31
    MaxRecords,  \* bound: records in the file before the first append
    MaxAppends   \* bound: records appended

FileAssumption ==
    /\ {Keep, AliveMax, ChunkMax, LastDay} \subseteq Nat \ {0}
    /\ LineMax \in Nat /\ LineMax > 1
    /\ MaxRecords \in Nat /\ MaxAppends \in Nat

VARIABLES
    file,   \* the bytes on disk
    app,    \* the appender: bytes still to write and the records they hold
    acked,  \* records whose append returned stage 0
    scan    \* the reader: BircHistScan, its carry buffer and its result

vars == <<file, app, acked, scan>>

-----------------------------------------------------------------------------
(* Records and the bytes that spell them                                    *)

Bare == 0      \* a stamp HH:MM:SS without a date
NoDate == -1   \* a date that does not parse
NoClock == -1  \* a clock that does not parse

Cells(r) == << <<r, 1>>, <<r, 2>>, NL >>
Spelled(recs) == FlattenSeq([i \in DOMAIN recs |-> Cells(recs[i])])

\* birc_utf8_valid, split7, the BIRC2 tag, the endpoint and the kind: a line is
\* a record of this endpoint or it is passed over.
Records(line) ==
    IF Len(line) = 2 /\ line[1] # NL /\ line[2] # NL /\ line[1][1] = line[2][1]
          /\ line[1][2] = 1 /\ line[2][2] = 2 /\ line[1][1].mine
    THEN {line[1][1]} ELSE {}

-----------------------------------------------------------------------------
(* The calendar of a target                                                 *)

NoDay == [known |-> FALSE, d |-> 0, sod |-> NoClock]

NextDay(d) == IF d = LastDay THEN d ELSE d + 1

\* The day after a record: a date sets it, a bare clock that goes backwards
\* rolls it by one, anything else leaves it alone.
Carry(day, r) ==
    IF r.day > 0 THEN [known |-> TRUE, d |-> r.day, sod |-> r.sod]
    ELSE IF r.day = NoDate \/ ~day.known \/ r.sod = NoClock THEN day
    ELSE [known |-> TRUE, sod |-> r.sod,
          d |-> IF day.sod # NoClock /\ r.sod < day.sod
                THEN NextDay(day.d) ELSE day.d]

\* The date the stored line shows: a bare clock gets the carried day.
Shown(day, r) ==
    IF r.day # Bare THEN r.day
    ELSE IF day.known /\ r.sod # NoClock THEN Carry(day, r).d ELSE Bare

-----------------------------------------------------------------------------
(* The rings                                                                *)

EmptyRing == [spans |-> <<>>, next |-> 1]

RingPush(ring, span) ==
    IF Len(ring.spans) < Keep
    THEN [ring EXCEPT !.spans = Append(@, span)]
    ELSE [spans |-> [ring.spans EXCEPT ![ring.next] = span],
          next  |-> (ring.next % Keep) + 1]

\* slots: every target seen, with the day it carries; alive: the targets whose
\* ring is kept, in the order they were (re)opened.
FreshScan(size, day) ==
    [at |-> "read", left |-> size, pos |-> 0, carry |-> <<>>, dropping |-> FALSE,
     seq |-> 0, server |-> EmptyRing, serverDay |-> day, slots |-> <<>>,
     alive |-> <<>>, stage |-> 0, out |-> <<>>]

\* birc_hist_store: the carried line goes into the ring under the next seq.
Stored(slot, r, seq) ==
    [ring |-> RingPush(slot.ring, [r |-> r, shown |-> Shown(slot.day, r), seq |-> seq]),
     day  |-> Carry(slot.day, r),
     last |-> seq]

LastSeq(sc, t) == sc.slots[t].last

\* Faulty: the first target opened is evicted, however active it is.
OldestOpened(sc) == sc.alive[1]

\* The alive target whose last line is the oldest.
Oldest(sc) ==
    CHOOSE t \in ToSet(sc.alive) :
        \A u \in ToSet(sc.alive) : LastSeq(sc, t) <= LastSeq(sc, u)

\* Faulty: the evicted target forgets the day as well.
EvictForget(sc) ==
    [sc EXCEPT !.slots[Oldest(sc)] = [ring |-> EmptyRing, day |-> NoDay, last |-> 0],
               !.alive = SelectSeq(@, LAMBDA t : t # Oldest(sc))]

\* Its ring is freed, its day stays.
Evict(sc) ==
    [sc EXCEPT !.slots[Oldest(sc)] = [@ EXCEPT !.ring = EmptyRing, !.last = 0],
               !.alive = SelectSeq(@, LAMBDA t : t # Oldest(sc))]

Room(sc) == IF Len(sc.alive) >= AliveMax THEN Evict(sc) ELSE sc

\* A target that is not alive gets a slot (kept since it was first seen).
Opened(sc, t) ==
    IF t \in ToSet(sc.alive) THEN sc
    ELSE LET room == Room(sc)
             slot == IF t \in DOMAIN room.slots THEN room.slots[t]
                     ELSE [ring |-> EmptyRing, day |-> NoDay, last |-> 0]
         IN  [room EXCEPT !.slots = [u \in DOMAIN @ \cup {t} |->
                                        IF u = t THEN slot ELSE @[u]],
                          !.alive = Append(@, t)]

\* birc_hist_take for an accepted record.
Take(sc, r) ==
    IF r.to = Server
    THEN LET kept == Stored([ring |-> sc.server, day |-> sc.serverDay], r, sc.seq)
         IN  [sc EXCEPT !.server = kept.ring, !.serverDay = kept.day, !.seq = @ + 1]
    ELSE LET open == Opened(sc, r.to)
         IN  [open EXCEPT !.slots[r.to] = Stored(@, r, sc.seq), !.seq = @ + 1]

\* One byte of birc_hist_read's inner loop.
Feed(sc, cell) ==
    LET on == [sc EXCEPT !.pos = @ + 1]
    IN  IF cell = NL
        THEN FoldLeft(Take, [on EXCEPT !.carry = <<>>, !.dropping = FALSE],
                      SetToSeq(IF sc.dropping THEN {} ELSE Records(sc.carry)))
        ELSE IF sc.dropping \/ Len(sc.carry) >= LineMax
        THEN [on EXCEPT !.dropping = TRUE]
        ELSE [on EXCEPT !.carry = Append(@, cell)]

Spans(sc) ==
    ToSet(sc.server.spans)
        \cup UNION {ToSet(sc.slots[t].ring.spans) : t \in ToSet(sc.alive)}

\* birc_hist_collect: the rings of the server and of the alive targets, by seq.
Collect(sc) ==
    [sc EXCEPT !.at = "done", !.carry = <<>>,
               !.out = SetToSortSeq(Spans(sc), LAMBDA a, b : a.seq < b.seq)]

-----------------------------------------------------------------------------
(* The appender                                                             *)

NoAppend == [left |-> <<>>, recs |-> <<>>, busy |-> FALSE]

Written == {c[1].id : c \in ToSet(file) \ {NL}} \cup {r.id : r \in ToSet(app.recs)}
NextId == Cardinality(Written) + 1

\* The file of an earlier run; its last append may have been cut short.
Init ==
    /\ \E recs \in [1 .. MaxRecords -> Kinds], torn \in 0 .. 2 :
         LET all == Spelled([i \in DOMAIN recs |-> [id |-> i] @@ recs[i]])
         IN  file = SubSeq(all, 1, Len(all) - torn)
    /\ app = NoAppend
    /\ acked = {}
    /\ scan = [at |-> "idle"]

\* birc_history_append is called with the bytes of a job.
AppendStart ==
    /\ ~app.busy
    /\ \E ks \in SeqOf(Kinds, MaxAppends) \ {<<>>} :
         LET recs == [i \in DOMAIN ks |-> [id |-> NextId + i - 1] @@ ks[i]]
         IN  /\ NextId + Len(ks) - 1 <= MaxRecords + MaxAppends
             /\ app' = [left |-> Spelled(recs), recs |-> recs, busy |-> TRUE]
    /\ UNCHANGED <<file, acked, scan>>

\* write() takes a part of what is left.
AppendWrite ==
    /\ app.left # <<>>
    /\ \E n \in 1 .. Len(app.left) :
         /\ file' = file \o SubSeq(app.left, 1, n)
         /\ app' = [app EXCEPT !.left = SubSeq(@, n + 1, Len(@))]
    /\ UNCHANGED <<acked, scan>>

\* write() fails (or takes nothing): the bytes already written stay.
AppendFail ==
    /\ app.left # <<>>
    /\ app' = NoAppend
    /\ UNCHANGED <<file, acked, scan>>

\* Everything is written and close() succeeds: stage 0.
AppendEnd ==
    /\ app.busy /\ app.left = <<>>
    /\ app' = NoAppend
    /\ acked' = acked \cup {r.id : r \in ToSet(app.recs)}
    /\ UNCHANGED <<file, scan>>

-----------------------------------------------------------------------------
(* The reader                                                               *)

\* history_read_kept_call: the size at fstat bounds the scan.
ScanStart ==
    /\ scan.at = "idle"
    /\ scan' = FreshScan(Len(file), NoDay)
    /\ UNCHANGED <<file, app, acked>>

\* read() returns up to a chunk; every byte of it is fed.
ScanRead ==
    /\ scan.at = "read" /\ scan.left > 0
    /\ \E n \in 1 .. ChunkMax :
         /\ n <= scan.left
         /\ scan' = FoldLeft(Feed, [scan EXCEPT !.left = @ - n],
                             SubSeq(file, scan.pos + 1, scan.pos + n))
    /\ UNCHANGED <<file, app, acked>>

\* read() fails: stage 4, what was completed is still collected.
ScanFail ==
    /\ scan.at = "read" /\ scan.left > 0
    /\ scan' = Collect([scan EXCEPT !.stage = 4])
    /\ UNCHANGED <<file, app, acked>>

ScanEnd ==
    /\ scan.at = "read" /\ scan.left = 0
    /\ scan' = Collect(scan)
    /\ UNCHANGED <<file, app, acked>>

Next ==
    \/ AppendStart \/ AppendWrite \/ AppendFail \/ AppendEnd
    \/ ScanStart \/ ScanRead \/ ScanFail \/ ScanEnd

Spec == Init /\ [][Next]_vars

-----------------------------------------------------------------------------
(* What the reader promises                                                 *)

\* The records on whole lines of a stretch of the file, in file order.
Whole(cells) ==
    LET Ends == {i \in DOMAIN cells :
                    /\ cells[i] = NL
                    /\ i > 2 /\ Records(SubSeq(cells, i - 2, i - 1)) # {}
                    /\ i > 3 => cells[i - 3] = NL}
    IN  [j \in 1 .. Cardinality(Ends) |->
            cells[SetToSortSeq(Ends, <)[j] - 1][1]]

Between(recs, i, j) ==
    {recs[k].to : k \in (i + 1) .. (j - 1)} \ {Server, recs[i].to}

Of(recs, t) == {i \in DOMAIN recs : recs[i].to = t}

\* Record i is still in its target's ring: after it, its target was never
\* silent while AliveMax others spoke, and fewer than Keep records of its
\* target followed.
InRing(recs, i) ==
    LET mine == {j \in Of(recs, recs[i].to) : j >= i}
        next(j) == IF \E k \in mine : k > j
                   THEN CHOOSE k \in mine : k > j /\ \A l \in mine : l > j => k <= l
                   ELSE Len(recs) + 1
    IN  /\ Cardinality(mine) <= Keep
        /\ recs[i].to # Server =>
             \A j \in mine : Cardinality(Between(recs, j, next(j))) < AliveMax

KeptOf(recs) ==
    LET kept == {i \in DOMAIN recs : InRing(recs, i)}
    IN  [j \in 1 .. Cardinality(kept) |-> recs[SetToSortSeq(kept, <)[j]]]

\* The day of target t after record i, had no ring ever been dropped.
DayAfter(recs, i) ==
    FoldLeft(Carry, NoDay, SelectSeq(SubSeq(recs, 1, i), LAMBDA r : r.to = recs[i].to))

\* A finished scan, complete or cut short by a read error, returns exactly the
\* last Keep records of the AliveMax most recently used targets (and of the
\* server) among the whole lines it read, in file order, however the file was
\* cut into reads and whatever torn or overlong lines lie between
\* (history.bend:684, "only completed records were restored").  A target that
\* was evicted and revived goes on with the calendar it already saw: every line
\* is shown under the date an unbounded reader would give it ("A revived target
\* continues the calendar it already saw").
KeptExact ==
    scan.at = "done" =>
        LET recs == Whole(SubSeq(file, 1, scan.pos))
        IN  /\ [i \in DOMAIN scan.out |-> scan.out[i].r] = KeptOf(recs)
            /\ \A i \in DOMAIN scan.out :
                 LET j == CHOOSE k \in DOMAIN recs : recs[k] = scan.out[i].r
                 IN  recs[j].day = Bare /\ recs[j].sod # NoClock /\ DayAfter(recs, j).known
                       => scan.out[i].shown = DayAfter(recs, j).d

\* An append that returned success has put its records where the next reload
\* finds them: "Only Ok advances the durable ack claim" (wsnet.bend:1308).
AckedReadable ==
    \A id \in acked : \E i \in DOMAIN Whole(file) : Whole(file)[i].id = id
=============================================================================
