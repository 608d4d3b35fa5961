----------------------------- MODULE Preferences -----------------------------
(***************************************************************************)
(* The settings queue of src/bend/preferences_runtime.bend as the UI loop  *)
(* drives it (preferences_live.bend, preferences_worker.bend): one helper  *)
(* at a time reads or writes the settings of one endpoint, at most MaxJobs *)
(* endpoints wait for it, and the user keeps editing and dialing.          *)
(*                                                                         *)
(* The settings are one global value, which stands for each of the eleven  *)
(* the mask tells apart, and the channel names of an endpoint.  Every step *)
(* of the loop ends by observing the session and starting the next job.    *)
(* One job is out at a time and its result is the next the loop takes, so  *)
(* a ticket is the identity of the active job.                             *)
(***************************************************************************)
EXTENDS Naturals, Sequences, SequencesExt

CONSTANTS
    Endpoints,     \* endpoints in their exact spelling
    First,         \* the one dialed at launch
    Values,        \* values of the global setting
    Names,         \* channel names
    LaunchNames,   \* named at launch
    None,          \* no job, nothing stored, nothing asked
    MaxJobs,       \* queue.put's 16
    MaxRevision,   \* bound: channel edits
    MaxActs        \* bound: settings and dials

PreferencesAssumption ==
    /\ First \in Endpoints /\ LaunchNames \subseteq Names
    /\ MaxJobs \in Nat \ {0} /\ MaxRevision \in Nat /\ MaxActs \in Nat

VARIABLES
    queue,         \* preferences_runtime.State
    sess,          \* what the session holds of it
    run,           \* the helper's job and, once done, its outcome
    disk,          \* the settings file
    want,          \* what the user last asked for (history)
    acts           \* settings and dials so far (bound)

prefVars == <<queue, sess, run, disk, want, acts>>

-----------------------------------------------------------------------------
(* Jobs *)

Prefs(value, names) == [value |-> value, names |-> names]

Read(host, base, prefs, mask, rev, explicit, first, dirty) ==
    [kind |-> "read", host |-> host, base |-> base, prefs |-> prefs,
     mask |-> mask, rev |-> rev, explicit |-> explicit, first |-> first,
     dirty |-> dirty]

Write(host, prefs) == [kind |-> "write", host |-> host, prefs |-> prefs]

Reads(job, h) == job # None /\ job.kind = "read" /\ job.host = h
Writes(job, h) == job # None /\ job.kind = "write" /\ job.host = h

Has(jobs, h) == \E i \in DOMAIN jobs : jobs[i].host = h
WritesQueued(jobs, h) == \E i \in DOMAIN jobs : Writes(jobs[i], h)

\* The job carries an edit the user was told is accepted.
JobDirty(job) == job.kind = "write" \/ job.dirty \/ job.rev # job.base

\* Of the global value the stored one wins only where nothing marked it; of
\* the names the stored ones win unless kept.
Merge(global, keep, mask, current, stored) ==
    Prefs(IF global /\ ~mask THEN stored.value ELSE current.value,
          IF keep THEN current.names ELSE stored.names)

-----------------------------------------------------------------------------
(* The queue *)

\* A refused job is remembered as lost when it carried an edit.
Admit(q, ok, job, front) ==
    IF ~ok THEN [q EXCEPT !.lost = @ \/ JobDirty(job)]
    ELSE LET rest == SelectSeq(q.jobs, LAMBDA j : j.host # job.host)
         IN  [q EXCEPT !.jobs = IF front THEN <<job>> \o rest ELSE Append(rest, job)]

Put(q, job, front) ==
    Admit(q, Has(q.jobs, job.host) \/ Len(q.jobs) < MaxJobs, job, front)

\* The active job counts against the queue unless its endpoint is in it.
Limit(q) ==
    IF q.active = None \/ Has(q.jobs, q.active.host) THEN MaxJobs ELSE MaxJobs - 1

\* A change of the global value reaches every job that has not started, and
\* the read that has.
Rebased(job, prefs, mask, diff) ==
    IF job.kind = "write"
    THEN [job EXCEPT !.prefs.value = IF diff THEN prefs.value ELSE @]
    ELSE LET patch == diff \/ (mask /\ ~job.mask)
         IN  [job EXCEPT !.prefs.value = IF patch THEN prefs.value ELSE @,
                         !.mask = @ \/ mask, !.dirty = @ \/ patch]

RebasedActive(job, prefs, mask, diff) ==
    IF job # None /\ job.kind = "read" THEN Rebased(job, prefs, mask, diff) ELSE job

\* An unresolved read of this endpoint carries its edits along.
Deferred(job, q, prefs, mask, rev, change) ==
    IF Reads(job, q.host) /\ (change \/ rev # job.base)
    THEN [job EXCEPT !.prefs = prefs, !.mask = mask, !.rev = rev,
                     !.explicit = q.explicit, !.first = q.first, !.dirty = TRUE]
    ELSE job

Writable(q, h) == Writes(q.active, h) \/ WritesQueued(q.jobs, h)

\* observe.same
ObserveSame(q, prefs, rev) ==
    LET diff == q.snap.value # prefs.value
        mask == q.mask \/ diff
        change == q.dirty \/ q.snap # prefs
        jobs == [i \in DOMAIN q.jobs |->
                   Deferred(Rebased(q.jobs[i], prefs, mask, diff), q, prefs, mask,
                            rev, change)]
        now == [q EXCEPT !.active =
                            Deferred(RebasedActive(@, prefs, mask, diff), q, prefs,
                                     mask, rev, change),
                         !.jobs = jobs, !.snap = prefs, !.mask = mask, !.rev = rev,
                         !.dirty = change]
        put == IF (q.loaded \/ Writable(q, q.host)) /\ ~q.blocked /\ change
               THEN Put(now, Write(q.host, prefs), FALSE) ELSE now
    IN  [put EXCEPT !.lost = @ \/ (q.blocked /\ change)]

\* Faulty: returning to an endpoint also moves the baseline of names the user
\* has touched there.
ReenteredAlways(job, h, rev) ==
    IF Reads(job, h) /\ ~job.explicit
    THEN [job EXCEPT !.base = rev, !.rev = rev] ELSE job

\* Returning to an unresolved endpoint moves the baseline of its untouched
\* names: other endpoints' edits are no edits of this one.
Reentered(job, h, rev) ==
    IF Reads(job, h) /\ ~job.explicit /\ job.base = job.rev
    THEN [job EXCEPT !.base = rev, !.rev = rev] ELSE job

\* What the endpoint being left has not saved is queued: as a write if its
\* settings are known, else as a read that will reconcile it.
Retained(q) ==
    IF ~q.dirty THEN q
    ELSE IF q.loaded /\ ~q.blocked THEN Put(q, Write(q.host, q.snap), FALSE)
    ELSE IF q.loaded \/ q.blocked \/ Reads(q.active, q.host) \/ Has(q.jobs, q.host)
    THEN q
    ELSE Admit(q, Len(q.jobs) < Limit(q),
               Read(q.host, q.rev, q.snap, q.mask, q.rev, TRUE, q.first, TRUE), FALSE)

\* observe.changed
ObserveChanged(q, h, prefs, rev) ==
    LET kept == Retained(q)
        mask == q.mask \/ q.snap.value # prefs.value
        fresh == Read(h, rev, prefs, mask, rev, FALSE, q.first, FALSE)
        asked == IF Writable(q, h) \/ Reads(q.active, h) \/ Has(kept.jobs, h)
                 THEN kept
                 ELSE Admit(kept, Len(kept.jobs) < Limit(kept), fresh, FALSE)
    IN  [asked EXCEPT !.host = h, !.active = Reentered(@, h, rev),
                      !.jobs = [i \in DOMAIN @ |-> Reentered(@[i], h, rev)],
                      !.loaded = FALSE, !.blocked = FALSE, !.snap = prefs,
                      !.mask = mask, !.rev = rev, !.explicit = FALSE,
                      !.dirty = FALSE]

\* mark: a named setting counts as edited even if it keeps its value.
Marked(q, named) == IF named /\ ~q.mask THEN [q EXCEPT !.mask = TRUE, !.dirty = TRUE] ELSE q

Waiting(q) == ~q.loaded /\ ~q.blocked

\* The next job leaves the queue; a write of what is current settles it.
Started(q) ==
    LET job == Head(q.jobs)
    IN  [q EXCEPT !.active = job, !.jobs = Tail(@),
                  !.dirty = @ /\ ~(Writes(job, q.host) /\ job.prefs = q.snap)]

\* Faulty: an endpoint with nothing queued is never read.
TakeQueued(q) == IF q.active # None \/ q.jobs = <<>> THEN q ELSE Started(q)

\* take: the next job starts when none is out; an endpoint with nothing
\* queued is read.
Take(q) ==
    IF q.active # None THEN q
    ELSE IF q.jobs # <<>> THEN Started(q)
    ELSE IF Waiting(q)
    THEN [q EXCEPT !.active = Read(q.host, q.rev, q.snap, q.mask, q.rev,
                                   q.explicit \/ q.dirty, q.first, q.dirty)]
    ELSE q

Busy(q) == q.active # None \/ q.jobs # <<>> \/ Waiting(q)

\* R.clean: what a normal quit reports as everything saved.
Clean(q) == ~(q.lost \/ (q.blocked /\ q.dirty))

-----------------------------------------------------------------------------
(* Results *)

\* loaded.absent: nothing is stored, or the read failed.
LoadedAbsent(q, code) ==
    LET free == [q EXCEPT !.active = None]
        put == IF code = 0 /\ q.dirty THEN Put(free, Write(q.host, q.snap), TRUE)
                                      ELSE free
    IN  [put EXCEPT !.lost = @ \/ (code # 0 /\ q.dirty), !.loaded = TRUE,
                    !.blocked = code # 0, !.first = FALSE, !.dirty = FALSE]

\* The session's names stand when the user touched them since the read began.
Keep(q, stored, base) == q.explicit \/ ~stored.known \/ q.rev # base

Stored(got) == Prefs(got.value, got.names)

\* loaded.present
LoadedPresent(q, got, base) ==
    LET keep == Keep(q, got, base)
        merged == Merge(q.first, keep, q.mask, q.snap, Stored(got))
        free == [q EXCEPT !.active = None]
        put == IF q.dirty \/ merged # Stored(got)
               THEN Put(free, Write(q.host, merged), TRUE) ELSE free
    IN  [put EXCEPT !.loaded = TRUE, !.blocked = FALSE, !.first = FALSE,
                    !.snap = merged, !.dirty = FALSE]

\* The read of an endpoint the user has left: its edits become a write.
Reconciled(q, job, got, code) ==
    LET free == [q EXCEPT !.active = None]
    IN  IF ~JobDirty(job) THEN free
        ELSE IF code # 0 THEN [free EXCEPT !.lost = TRUE]
        ELSE Put(free,
                 Write(job.host,
                       IF got = None THEN job.prefs
                       ELSE Merge(job.first,
                                  job.explicit \/ ~got.known \/ job.rev # job.base,
                                  job.mask, job.prefs, Stored(got))),
                 TRUE)

\* saved_result: a failed write of the endpoint in front is tried again.
Saved(q, job, code) ==
    LET free == [q EXCEPT !.active = None, !.lost = @ \/ code # 0]
    IN  IF code # 0 /\ job.host = q.host
        THEN [free EXCEPT !.explicit = TRUE, !.dirty = TRUE] ELSE free

-----------------------------------------------------------------------------
(* The UI loop *)

Idle == [job |-> None, done |-> FALSE, got |-> None, code |-> 0]

Capture(s) == Prefs(s.value, s.names)

Observe(q, s) ==
    LET m == Marked(q, s.named)
    IN  IF s.host = q.host THEN ObserveSame(m, Capture(s), s.rev)
        ELSE ObserveChanged(m, s.host, Capture(s), s.rev)

\* Every step of the loop ends here: observe, hold the JOINs while the
\* settings are not known, start the helper.
Stage(q, s) ==
    \E seen \in {Observe(q, s)} : \E next \in {Take(seen)} :
        /\ queue' = next
        /\ sess' = [s EXCEPT !.held = @ \/ Waiting(seen)]
        /\ run' = IF next.active = None THEN Idle
                  ELSE IF q.active = None THEN [Idle EXCEPT !.job = next.active]
                  ELSE run

\* /set of the global value, also to the value it has.
UserSet(v) ==
    /\ acts < MaxActs /\ acts' = acts + 1
    /\ want' = [want EXCEPT !.value = v]
    /\ Stage(queue, [sess EXCEPT !.value = v, !.named = TRUE])
    /\ UNCHANGED disk

\* Something of the queue will answer for the names of this endpoint.
Carried(q, h) ==
    q.loaded \/ q.blocked \/ Has(q.jobs, h) \/ (q.active # None /\ q.active.host = h)

\* A JOIN or a PART of the user.
UserNames(names) ==
    /\ names # sess.names /\ sess.rev < MaxRevision
    /\ want' = [want EXCEPT !.names[sess.host] = names,
                            !.loose = IF Carried(queue, sess.host) THEN @ \ {sess.host}
                                      ELSE @ \cup {sess.host}]
    /\ Stage(queue, [sess EXCEPT !.names = names, !.rev = @ + 1])
    /\ UNCHANGED <<disk, acts>>

\* returning_channels: the names the queue still owes the endpoint.
Owes(job, h) ==
    \/ Writes(job, h)
    \/ Reads(job, h) /\ (job.explicit \/ job.rev # job.base)

Returning(q, h) ==
    LET owed == SelectSeq(q.jobs, LAMBDA j : Owes(j, h))
    IN  IF owed # <<>> THEN Head(owed).prefs.names
        ELSE IF Owes(q.active, h) THEN q.active.prefs.names ELSE LaunchNames

UserDial(h) ==
    /\ h # sess.host /\ acts < MaxActs /\ acts' = acts + 1
    /\ Stage(queue, [sess EXCEPT !.host = h, !.names = Returning(queue, h)])
    /\ UNCHANGED <<disk, want>>

\* What a read's outcome makes of the queue.
Resolved(q, job, got, code) ==
    IF job.host # q.host THEN Reconciled(q, job, got, code)
    ELSE LET dirty == [q EXCEPT !.dirty = @ \/ JobDirty(job)]
         IN  IF got = None THEN LoadedAbsent(dirty, code)
             ELSE LoadedPresent(dirty, got, job.base)

\* PreferencesLoaded: the session is observed first, and the settings of the
\* endpoint in front are applied to it.
OnLoaded ==
    /\ run.done /\ run.job.kind = "read"
    /\ \E seen \in {Observe(queue, sess)} :
       \E q \in {Resolved(seen, seen.active, run.got, run.code)} :
        LET base == seen.active.base
            current == run.job.host = seen.host
            applies == current /\ run.got # None
            seeds == applies /\ ~Keep(seen, run.got, base) /\ sess.rev = base
        IN  Stage(q, [sess EXCEPT !.value = IF applies THEN q.snap.value ELSE @,
                                  !.names = IF seeds THEN run.got.names ELSE @,
                                  !.held = @ /\ ~current])
    /\ UNCHANGED <<disk, want, acts>>

OnSaved ==
    /\ run.done /\ run.job.kind = "write"
    /\ \E q \in {Saved(queue, queue.active, run.code)} : Stage(q, sess)
    /\ UNCHANGED <<disk, want, acts>>

-----------------------------------------------------------------------------
(* The helper *)

HelperRead ==
    /\ run.job # None /\ ~run.done /\ run.job.kind = "read"
    /\ \/ run' = [run EXCEPT !.done = TRUE, !.code = 3]
       \/ run' = [run EXCEPT !.done = TRUE,
                             !.got = IF disk.present
                                     THEN [value |-> disk.value,
                                           names |-> disk.names[run.job.host],
                                           known |-> run.job.host \in disk.known]
                                     ELSE None]
    /\ UNCHANGED <<queue, sess, disk, want, acts>>

\* A failed write leaves the file; it may fail for ever.
HelperWrite ==
    /\ run.job # None /\ ~run.done /\ run.job.kind = "write"
    /\ \/ /\ run' = [run EXCEPT !.done = TRUE, !.code = 3]
          /\ UNCHANGED disk
       \/ /\ run' = [run EXCEPT !.done = TRUE]
          /\ disk' = [present |-> TRUE, value |-> run.job.prefs.value,
                      names |-> [disk.names EXCEPT ![run.job.host] = run.job.prefs.names],
                      known |-> disk.known \cup {run.job.host}]
    /\ UNCHANGED <<queue, sess, want, acts>>

-----------------------------------------------------------------------------

NoDisk(v) ==
    [present |-> FALSE, value |-> v, names |-> [h \in Endpoints |-> {}], known |-> {}]

PrefInit ==
    \E v \in Values, explicit \in BOOLEAN :
        LET s == [host |-> First, value |-> v, names |-> LaunchNames, rev |-> 0,
                  named |-> FALSE, held |-> TRUE]
            job == Read(First, 0, Capture(s), FALSE, 0, explicit, TRUE, FALSE)
        IN  /\ sess = s
            /\ queue = [host |-> First, active |-> job, jobs |-> <<>>, lost |-> FALSE,
                        loaded |-> FALSE, blocked |-> FALSE, first |-> TRUE,
                        snap |-> Capture(s), mask |-> FALSE, rev |-> 0,
                        explicit |-> explicit, dirty |-> FALSE]
            /\ run = [Idle EXCEPT !.job = job]
            /\ \/ disk = NoDisk(v)
               \/ \E w \in Values, names \in [Endpoints -> SUBSET Names] :
                     disk = [present |-> TRUE, value |-> w, names |-> names,
                             known |-> {h \in Endpoints : names[h] # {}}]
            /\ want = [value |-> None, names |-> [h \in Endpoints |-> None], loose |-> {}]
            /\ acts = 0

PrefNext ==
    \/ \E v \in Values : UserSet(v)
    \/ \E names \in SUBSET Names : UserNames(names)
    \/ \E h \in Endpoints : UserDial(h)
    \/ OnLoaded \/ OnSaved
    \/ HelperRead \/ HelperWrite

\* The helper has a deadline of its own, and the loop takes what it posts.
PrefSpec ==
    /\ PrefInit /\ [][PrefNext]_prefVars
    /\ WF_prefVars(OnLoaded \/ OnSaved)
    /\ WF_prefVars(HelperRead \/ HelperWrite)

-----------------------------------------------------------------------------
(* Properties *)

ValueSaved == want.value # None => disk.present /\ disk.value = want.value

NamesSaved(h) ==
    want.names[h] # None => h \in disk.known /\ disk.names[h] = want.names[h]

\* A quit reports success only when the edits the user made, at whatever
\* endpoint and however reads, writes, dials and failures interleaved, are in
\* the file; save for channel edits made when nothing of the queue would
\* answer for their endpoint.
CleanMeansSaved ==
    ~Busy(queue) /\ Clean(queue) =>
        ValueSaved /\ \A h \in Endpoints \ want.loose : NamesSaved(h)

\* Settings that arrive never give the session other names than the user last
\* asked for at that endpoint, however often it was left and returned to and
\* whatever was saved and read in between.  Not covered: names whose write
\* failed or was refused, which the program reports as lost, and edits made
\* when nothing of the queue would answer for the endpoint (loose).
SeedsWanted ==
    [][LET asked == want.names[sess.host]
       IN  /\ OnLoaded /\ sess'.names # sess.names
           /\ asked # None /\ ~queue.lost /\ sess.host \notin want.loose
           => sess'.names = asked]_prefVars

\* What the user asked for at an endpoint is lost neither from the file by a
\* quit that reports success nor from the session by settings that arrive
\* (preferences_runtime.bend: observe.*, take.*, loaded.*, saved.*).
EditsKept == []CleanMeansSaved /\ SeedsWanted

\* "Returning to an unresolved endpoint cannot erase its accepted edits."
ReturnKeepsEdits ==
    ~Busy(queue) /\ Clean(queue) => \A h \in Endpoints : NamesSaved(h)

\* The JOINs held for an endpoint's settings are released: the settings of
\* the endpoint in front are known or given up, whatever is queued before.
JoinsReleased == <>[](~sess.held)
=============================================================================
