----------------------------- MODULE MediaQueue -----------------------------
(***************************************************************************)
(* The image queue of the multi-server loop: a queue per server            *)
(* (media.bend), one helper for all of them under a lease (wsnet.bend),    *)
(* and one table of decoded images (birc_media.h).  Every event of the     *)
(* loop ends in a stage of the current server's queue, which admits what   *)
(* is on screen and may start the helper; the helper's result arrives      *)
(* after any number of other events.                                       *)
(*                                                                         *)
(* An image is known by the line that shows it, one URL a line, or by the  *)
(* source of a /preview.                                                   *)
(***************************************************************************)
EXTENDS Integers, FiniteSets, FiniteSetsExt, SequencesExt

CONSTANTS
    Servers,     \* the servers of the workspace
    Sources,     \* sources a /preview names
    Nothing,
    Cap,         \* CAP: work, ready results, native slots
    MaxLines,    \* bound: lines a server receives
    MaxTickets,  \* bound: requests of all queues
    MaxClears    \* bound: times a queue is cleared; a server redialled

MediaAssumption ==
    /\ Cap \in Nat \ {0}
    /\ MaxLines \in Nat /\ MaxTickets \in Nat /\ MaxClears \in Nat
    /\ Sources \cap Int = {} /\ Nothing \notin Sources \cup Servers

VARIABLES
    media,   \* per server its queue
    view,    \* per server: lines received, kept and on screen; the *preview* source
    slot,    \* per server: its generation; whether an automatic redial is due
    cur,     \* the current server
    lease,   \* the server, slot generation and request of the helper
    fetches, \* helpers that run; fresh: its queue was not cleared since
    native,  \* tokens of the images in the table
    token    \* last token given out

mediaVars == <<media, view, slot, cur, lease, fetches, native, token>>

IsManual(image) == image \in Sources

Fence(kind, image) == [kind |-> kind, image |-> image]
NoRequest == Fence("none", Nothing)
NoLease == [part |-> Nothing, slot |-> 0, req |-> NoRequest]
EmptyQueue == [enabled |-> TRUE, generation |-> 1, ticket |-> 1,
               active |-> NoRequest, pending |-> <<>>, ready |-> <<>>]
EmptyView == [last |-> 0, lines |-> {}, shown |-> {}, preview |-> Nothing]

MediaInit ==
    /\ media = [p \in Servers |-> EmptyQueue]
    /\ view = [p \in Servers |-> EmptyView]
    /\ slot = [p \in Servers |-> [gen |-> 1, due |-> FALSE]]
    /\ cur \in Servers
    /\ lease = NoLease /\ fetches = {} /\ native = {} /\ token = 0

-----------------------------------------------------------------------------
(* Pending requests: work, and fences that keep an image from being asked   *)
(* for again: soft, until it is selected again, and sticky.                  *)

IsWork(req) == req.kind = "work"
Work(q) == SelectSeq(q.pending, IsWork)

Without(pending, kind, image) ==
    SelectSeq(pending, LAMBDA r : r.kind # kind \/ r.image # image)

HasFence(q, kind, image) == Fence(kind, image) \in Range(q.pending)

\* An insertion that exceeds the bound drops the oldest fence, which is the
\* last; the callers insert one request into a bounded list.
PendingBound(pending) ==
    LET fences == {k \in DOMAIN pending : ~IsWork(pending[k])}
    IN IF Len(pending) > 2 * Cap /\ fences # {}
       THEN RemoveAt(pending, Max(fences))
       ELSE pending

IsReady(q, image) == \E e \in Range(q.ready) : e.image = image
ReadyWithout(ready, image) == SelectSeq(ready, LAMBDA e : e.image # image)

InWork(q, image) ==
    \E r \in Range(Work(q)) \cup ({q.active} \ {NoRequest}) :
        r.image = image /\ r.generation = q.generation

Requested(q, image) == InWork(q, image) \/ HasFence(q, "sticky", image)

Wanted(q, image) ==
    /\ q.enabled \/ IsManual(image)
    /\ Len(Work(q)) < Cap
    /\ ~Requested(q, image)
    /\ IsManual(image) \/ ~(HasFence(q, "soft", image) \/ IsReady(q, image))

Enqueue(q, image) ==
    LET req == [kind |-> "work", image |-> image,
                generation |-> q.generation, ticket |-> q.ticket]
    IN IF ~Wanted(q, image) THEN q
       ELSE [q EXCEPT !.ticket = @ + 1,
                      !.pending = PendingBound(Append(@, req)),
                      !.ready = IF IsManual(image) THEN ReadyWithout(@, image) ELSE @]

-----------------------------------------------------------------------------
(* What is on screen: known images first, the newest of each kind first.     *)

Selected(q, shown) ==
    LET known == {i \in shown : IsReady(q, i) \/ Requested(q, i)}
        Before(j, i) == IF (j \in known) = (i \in known) THEN j > i ELSE j \in known
        Rank(i) == 1 + Cardinality({j \in shown : Before(j, i)})
    IN [k \in {k \in 1 .. Cap : k <= Cardinality(shown)} |->
            CHOOSE i \in shown : Rank(i) = k]

EnqueueCandidates(q, chosen) ==
    LET images == Range(chosen)
        Chosen(e) == e.image \in images
        lifted == [q EXCEPT
            !.pending = SelectSeq(@, LAMBDA r : r.kind # "soft" \/ r.image \notin images),
            !.ready = SelectSeq(@, Chosen) \o SelectSeq(@, LAMBDA e : ~Chosen(e))]
    IN FoldLeft(Enqueue, lifted, chosen)

Alive(v, image) == image \in v.lines \/ (IsManual(image) /\ image = v.preview)

\* Work of an earlier generation and everything whose line is gone.
Maintain(q, v) ==
    [q EXCEPT
        !.pending = SelectSeq(@, LAMBDA r :
            Alive(v, r.image) /\ (IsWork(r) => r.generation = q.generation)),
        !.ready = SelectSeq(@, LAMBDA e : Alive(v, e.image))]

Observe(q, v) ==
    LET kept == Maintain(q, v)
    IN IF q.enabled THEN EnqueueCandidates(kept, Selected(kept, v.shown)) ELSE kept

NextWork(q) == IF Work(q) = <<>> THEN NoRequest ELSE Head(Work(q))

TakeJob(q) ==
    [q EXCEPT !.active = NextWork(q), !.pending = RemoveFirst(@, NextWork(q))]

\* Faulty: the generation stays.
ResetSame(q) == [q EXCEPT !.pending = <<>>, !.ready = <<>>]

\* A new generation; the worker stays owned until its helper returns.
Reset(q) == [q EXCEPT !.generation = @ + 1, !.pending = <<>>, !.ready = <<>>]

-----------------------------------------------------------------------------
(* The result of the helper.                                                 *)

Owns(q, job) ==
    IsWork(q.active) /\ q.active.generation = job.generation /\ q.active.ticket = job.ticket

Accept(q, v, job) ==
    /\ Owns(q, job)
    /\ q.active.generation = q.generation
    /\ q.enabled \/ IsManual(q.active.image)
    /\ Alive(v, q.active.image)

\* A hidden result does not displace a cache full of visible ones.
VisibleAllowed(q, v) ==
    LET chosen == Range(Selected(q, v.shown))
    IN \/ Len(SelectSeq(q.ready, LAMBDA e : e.image \in chosen)) < Cap
       \/ IsManual(q.active.image) \/ q.active.image \in chosen

\* Room is made by the newest placeholder (token 0) before the oldest result.
Room(ready) ==
    LET zeros == {k \in DOMAIN ready : ready[k].token = 0}
    IN IF Len(ready) < Cap \/ zeros = {} THEN ready ELSE RemoveAt(ready, Min(zeros))

Entry(image, t) == [image |-> image, token |-> t]

\* Faulty: the oldest entry makes room, whatever it is.
CompleteFifo(ready, image, t) ==
    LET all == <<Entry(image, t)>> \o ReadyWithout(ready, image)
    IN SubSeq(all, 1, Min({Cap, Len(all)}))

CompleteReady(ready, image, t) ==
    LET all == <<Entry(image, t)>> \o Room(ReadyWithout(ready, image))
    IN SubSeq(all, 1, Min({Cap, Len(all)}))

Complete(q, t) ==
    [q EXCEPT !.active = NoRequest,
              !.ready = CompleteReady(@, q.active.image, t)]

Reject(q, job) ==
    IF ~Owns(q, job) THEN q
    ELSE [q EXCEPT !.active = NoRequest,
                   !.pending = PendingBound(<<Fence("soft", q.active.image)>>
                                   \o Without(@, "soft", q.active.image))]

\* The table is full: a placeholder, or a sticky fence when no entry gives way.
RejectFull(q) ==
    LET image == q.active.image
        room == Room(ReadyWithout(q.ready, image))
        others == Without(q.pending, "sticky", image)
    IN IF Len(room) < Cap
       THEN [q EXCEPT !.active = NoRequest, !.pending = others,
                      !.ready = <<Entry(image, 0)>> \o room]
       ELSE [q EXCEPT !.active = NoRequest, !.ready = room,
                      !.pending = PendingBound(<<Fence("sticky", image)>> \o others)]

Tokens(q) == {e.token : e \in Range(q.ready)} \ {0}
UnionTokens == UNION {Tokens(media[p]) : p \in Servers}

\* Faulty: only the images of the server that gets a new one are kept.
RetainedOwn(p) == Tokens(media[p])

\* What the table keeps when server p gets a new image.
Retained(p) == Tokens(media[p]) \cup UNION {Tokens(media[r]) : r \in Servers \ {p}}

\* The table frees what is not named; a payload that does not decode, and one
\* that finds no free slot, gets token 0.
TableRetain(tokens) == native \cap tokens
TableAdd(kept, good) == IF good /\ Cardinality(kept) < Cap THEN token + 1 ELSE 0

UnionRoom == MapThenSumSet(LAMBDA p : Cardinality(Tokens(media[p])), Servers) < Cap

-----------------------------------------------------------------------------
(* Every event ends here: the current queue takes what is on screen, and     *)
(* its first work if no helper runs anywhere.                                *)
Stage(queues, held, running) ==
    \E q \in {Maintain(Observe(queues[cur'], view'[cur']), view'[cur'])} :
    LET req == NextWork(q)
    IN IF held = NoLease /\ ~IsWork(q.active) /\ IsWork(req)
       THEN /\ media' = [queues EXCEPT ![cur'] = TakeJob(q)]
            /\ lease' = [part |-> cur', slot |-> slot'[cur'].gen, req |-> req]
            /\ fetches' = running \cup {[part |-> cur', generation |-> req.generation,
                                      ticket |-> req.ticket, fresh |-> TRUE]}
       ELSE /\ media' = [queues EXCEPT ![cur'] = q]
            /\ lease' = held /\ fetches' = running

WithinBounds ==
    /\ MapThenSumSet(LAMBDA p : media'[p].ticket - 1, Servers) <= MaxTickets
    /\ MapThenSumSet(LAMBDA p : media'[p].generation - 1, Servers) <= MaxClears

\* An event that gives server p the queue q.
Post(p, q) == Stage([media EXCEPT ![p] = q], lease, fetches) /\ WithinBounds

\* The same when q was cleared: a helper of p runs on for nothing.
PostCleared(p, q) ==
    /\ Stage([media EXCEPT ![p] = q], lease,
             {[j EXCEPT !.fresh = @ /\ j.part # p] : j \in fetches})
    /\ WithinBounds

\* What server p's buffers and screen become.
Shows(p, v) == view' = [view EXCEPT ![p] = v] /\ Post(p, Maintain(media[p], v))

\* A message with an image arrives, on screen or not.
LineArrives(p) ==
    LET v == view[p] IN
    /\ UNCHANGED <<slot, cur, native, token>>
    /\ v.last < MaxLines
    /\ \E seen \in BOOLEAN :
         Shows(p, [v EXCEPT !.last = @ + 1, !.lines = @ \cup {v.last + 1},
                            !.shown = IF seen THEN @ \cup {v.last + 1} ELSE @])

\* A buffer is closed or drops its oldest lines.
LineGoes(p) ==
    /\ UNCHANGED <<slot, cur, native, token>>
    /\ \E i \in view[p].lines :
         Shows(p, [view[p] EXCEPT !.lines = @ \ {i}, !.shown = @ \ {i}])

\* A key scrolls, splits or changes the buffer of the current server.
Scroll ==
    /\ UNCHANGED <<slot, cur, native, token>>
    /\ \E seen \in SUBSET view[cur].lines : Shows(cur, [view[cur] EXCEPT !.shown = seen])

\* /preview source: the buffer *preview* first gets it as its topic, and is
\* shown instead of another.
Preview ==
    /\ UNCHANGED <<slot, cur, native, token>>
    /\ \E source \in Sources, seen \in SUBSET view[cur].shown :
         LET v == [view[cur] EXCEPT !.preview = source, !.shown = seen]
             q == Enqueue(Maintain(media[cur], v), source)
         IN view' = [view EXCEPT ![cur] = v] /\ Post(cur, Maintain(q, v))

\* /images on or off.
Images ==
    /\ UNCHANGED <<view, slot, cur, native, token>>
    /\ PostCleared(cur, [Reset(media[cur]) EXCEPT !.enabled = ~@])

Switch ==
    /\ cur' \in Servers \ {cur}
    /\ UNCHANGED <<view, slot, native, token>>
    /\ Post(cur, media[cur])

\* The connection is lost and a redial scheduled; then it is made, or dropped
\* when automatic reconnection was switched off.
Lost(p) ==
    /\ ~slot[p].due
    /\ slot' = [slot EXCEPT ![p].due = TRUE]
    /\ UNCHANGED <<view, cur, native, token>>
    /\ PostCleared(p, Reset(media[p]))

Redial(p) ==
    /\ slot[p].due
    /\ \E gen \in {slot[p].gen, slot[p].gen + 1} :
         slot' = [slot EXCEPT ![p] = [gen |-> gen, due |-> FALSE]]
    /\ UNCHANGED <<view, cur, native, token>>
    /\ Post(p, media[p])

\* /connect or /server of the current server.
DialCurrent ==
    /\ ~slot[cur].due
    /\ slot' = [slot EXCEPT ![cur].gen = @ + 1]
    /\ UNCHANGED <<view, cur, native, token>>
    /\ PostCleared(cur, Reset(media[cur]))

\* The helper's result arrives; good: it holds an image that decodes.
LeaseExact(job) ==
    /\ lease # NoLease /\ lease.part = job.part
    /\ lease.req.generation = job.generation /\ lease.req.ticket = job.ticket

LeaseLive(job) == lease.slot = slot[job.part].gen

\* Faulty: only the lease is given back.
StaleResultKept(job) ==
    /\ LeaseExact(job) /\ ~LeaseLive(job)
    /\ lease' = NoLease /\ fetches' = fetches \ {job}
    /\ UNCHANGED <<media, view, slot, cur, native, token>>

\* The server was redialled meanwhile: only the worker is released.
StaleResult(job) ==
    /\ LeaseExact(job) /\ ~LeaseLive(job)
    /\ media' = [media EXCEPT ![job.part] = Reject(@, job)]
    /\ lease' = NoLease /\ fetches' = fetches \ {job}
    /\ UNCHANGED <<view, slot, cur, native, token>>

\* An accepted result with room in the table: what no server owns is freed,
\* and the image gets the next token.  Its rows, or the line that reports a
\* failure, may push lines off the screen.
Admitted(job) ==
    /\ UnionRoom
    /\ \E seen \in SUBSET view[job.part].shown :
         view' = [view EXCEPT ![job.part].shown = seen]
    /\ \E good \in BOOLEAN :
         LET kept == TableRetain(Retained(job.part))
             t == TableAdd(kept, good)
         IN /\ native' = kept \cup ({t} \ {0})
            /\ token' = Max({token, t})
            /\ Stage([media EXCEPT ![job.part] = Complete(@, t)], NoLease, fetches \ {job})

Declined(job, q) ==
    /\ UNCHANGED <<view, native, token>>
    /\ Stage([media EXCEPT ![job.part] = q], NoLease, fetches \ {job})

LiveResult(job) ==
    LET q == media[job.part]
        accepted == Accept(q, view[job.part], job) /\ VisibleAllowed(q, view[job.part])
    IN /\ LeaseExact(job) /\ LeaseLive(job)
       /\ UNCHANGED <<slot, cur>>
       /\ \/ accepted /\ Admitted(job)
          \/ accepted /\ ~UnionRoom /\ Declined(job, RejectFull(q))
          \/ ~accepted /\ Declined(job, Reject(q, job))
       /\ WithinBounds

MediaNext ==
    \/ \E p \in Servers : LineArrives(p) \/ LineGoes(p) \/ Lost(p) \/ Redial(p)
    \/ Scroll \/ Preview \/ Images \/ Switch \/ DialCurrent
    \/ \E job \in fetches : StaleResult(job) \/ LiveResult(job)

MediaSpec == MediaInit /\ [][MediaNext]_mediaVars

-----------------------------------------------------------------------------
(* What holds.                                                               *)

\* The lists stay bounded and name an image once through every order of
\* requests, declines and completions.
Bounded(q) ==
    /\ Len(Work(q)) <= Cap /\ Len(q.pending) <= 2 * Cap /\ Len(q.ready) <= Cap
    /\ \A j, k \in DOMAIN q.ready : q.ready[j].image = q.ready[k].image => j = k
    /\ \A j, k \in DOMAIN q.pending :
         /\ q.pending[j].image = q.pending[k].image
         /\ q.pending[j].kind = q.pending[k].kind
         => j = k

\* What any server shows is in the table, under a token of its own: an
\* admission for one server never frees the images of another.  No list of a
\* queue outgrows its bound.
TokensBacked ==
    /\ UnionTokens \subseteq native /\ Cardinality(native) <= Cap
    /\ \A p \in Servers :
         /\ Bounded(media[p])
         /\ Cardinality(Tokens(media[p]))
              = Len(SelectSeq(media[p].ready, LAMBDA e : e.token # 0))
         /\ \A r \in Servers \ {p} : Tokens(media[p]) \cap Tokens(media[r]) = {}

\* One helper runs at a time; it, the lease and the one active request agree
\* across resets, redials and switches, so that a result is never lost on the
\* queue that waits for it and no queue waits for a result that cannot come.
HelperOwned ==
    /\ Cardinality(fetches) = IF lease = NoLease THEN 0 ELSE 1
    /\ \A job \in fetches : LeaseExact(job)
    /\ \A p \in Servers : media[p].active =
         IF lease.part = p THEN lease.req ELSE NoRequest

\* An image shown is given up only when its line is gone, its queue was
\* cleared, or the user asked for it again.
GivenUp(p, e) ==
    \/ e.token = 0 \/ media'[p].generation # media[p].generation
    \/ ~Alive(view'[p], e.image)
    \/ IsManual(e.image) /\ InWork(media'[p], e.image)

\* A result enters a queue only if the queue was not cleared while its helper
\* ran, its line is still there, and images are on or it was asked for.
Awaited(p, e) ==
    /\ \E job \in fetches \ fetches' : job.part = p /\ job.fresh
    /\ Alive(view'[p], e.image)
    /\ media'[p].enabled \/ IsManual(e.image)

\* Images leave and enter a queue for these reasons only, whatever happened
\* while the helper ran and however full the lists are.
ImagesTrue ==
    [][\A p \in Servers :
        /\ \A e \in Range(media[p].ready) \ Range(media'[p].ready) : GivenUp(p, e)
        /\ \A e \in Range(media'[p].ready) \ Range(media[p].ready) : Awaited(p, e)
      ]_mediaVars

=============================================================================
