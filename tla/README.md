# A TLA+ verification of birc

birc is a terminal IRC client written in Bend 2 with a C layer for files,
network helpers and the terminal. This directory holds TLA+ modules of its core
logic, TLC configurations that check them on small instances, and TLAPS proofs
of the results that hold for every size. Names like `actor.bend` are under
`src/bend/`, names ending in `.c` under `src/ffi/` of the repository.

## 1. Inventory

| component | code | state it keeps | hard behaviour | what makes it correct |
|---|---|---|---|---|
| outbound rules | `outbound.bend` | none (pure) | budget arithmetic in U32, two ID spaces, end of a range | batches split the queue, spend the budget exactly, IDs of two generations never meet |
| network actor | `actor.bend` | writer record, SASL scope, setup under way | one writer task, a reader task per connection, spawned pump and failure tasks, three bounded channels; Dials overtaken during connect, TLS and drain; partial sends; close at any point | only the wanted Dial registers; credentials stay with their endpoint; lines reach their own socket in order, without loss or replay; nothing queued is stranded; closing always ends |
| single-server UI loop | `net.bend` | generation, session, scheduled continuation | one task fills `cmd` and drains `evt`; timers carry a generation; quitting waits for `WriterDone` | no deadlock with the actor; a stale timer changes nothing; a dialling session is never forgotten; quit ends |
| startup gate | `live_context.bend` | gate, preference and archive tickets | settings, history import and `/connect` overlap before `Begin` | `Begin` once, never before the settings |
| session | `session.bend` | `NetState`, buffers, leases | states driven by late events | converges with the actor |
| registration and authentication | `cap_notify.bend`, `auth.bend`, `buffer.bend` | phase, credentials, success counter | answers in any order, NAK, fallback to NickServ, other endpoints | one `CAP END`; credentials once and only to their endpoint |
| join recovery | `join_plan.bend` | desired channels, barrier, hold | welcome, MOTD, authentication, settings and edits in any order | JOINs once, after the barrier; no edit forgotten |
| framer | `frame.bend` | open line, mode | CR, LF and overlong lines split over reads | independent of how the stream is cut |
| workspace, multi-server loop | `workspace.bend`, `wsnet.bend` | a part per server, slot epochs, pending history | forwarders into one channel; one history worker with acknowledgements; shutdown | events reach their incarnation; rows reach the file once, in order |
| history file | `history_ffi.c`, `history*.bend` | the archive; the scan's rings | torn and overlong lines, bounded targets, read errors | a scan returns exactly the last lines it promises |
| preferences queue | `preferences_runtime.bend`, `_live`, `_worker` | coalesced jobs, one active helper | edits, dials and results interleave | a clean quit means everything is saved; held JOINs are released |
| preferences file | `preferences_ffi.c` | the settings file and its lock | several processes, hand edits, killed helpers, power cuts | a reported save stays; a read is never a mixture |
| uploads | `upload.bend`, `session.bend`, `upload_ffi.c` | consent, batch, helper | coalesced keys, changed scope, file rewritten while sent | warned before started; sent from one version; posted only in scope |
| media fetch, cache | `media_fetch_ffi.c` | one fetch; cache of two trees | redirects, deadline, several helpers, crashes | the deadline bounds it; caps hold; only whole entries are shown |
| media queue | `media.bend`, `wsnet.bend`, `birc_media.h` | a queue per server, one helper's lease, one table of images | late results after a clear or a redial, full lists, a table shared by the servers | only a queue that still waits takes a result; what is shown stays in the table |
| link cards | `cards*.bend` | queue, one ticket | as the media queue | only the owned ticket completes |
| drafts | `drafts.bend`, `session_drafts.bend` | draft per buffer | renames, multiline sends | a draft stays with its buffer |
| typing, notifications | `typing.bend`, `notify.bend` | timers, seen events | refresh and expiry | at most one request per event |
| client state, text, rendering | `irc*.bend`, `client.bend`, `view*.bend`, ... | buffers | none beyond data | - |
| DNS, transport, adapters | `dns*.bend`, `tls.bend`, `tls_ffi.c`, ... | handles | I/O | - |

How they interact. The UI loop owns the session and sends `NetCmd`s (`Cont`,
`Dial`, `Drop`, `Hangup`, `Begin`, close) into the channel `cmd`; the actor's
writer is its only reader, while reader tasks send `Pong` and spawned tasks
`Pump` into it. The actor posts events, tagged with a generation, into `evt`;
reconnect timers, the boot watcher and every helper task answer through `evt`
too. Each server line runs through authentication, the join plan and a flush of
the plan; the settings queue holds that flush until an endpoint's settings are
known. The servers of a workspace share one image helper: the lease names the
server and request it works for, and its result is checked against the lease, the
server's slot and the queue before it reaches the table of images, which frees
whatever no server names. The multi-server loop sends rows to one history worker and hears its
acknowledgements in the same channel the servers fill. Files are shared with
other birc processes through a lock (settings, cache) or not at all (history:
`O_APPEND`).

## 2. Modules

| module | models | state and actions |
|---|---|---|
| `Outbound` | `outbound.bend` | operators: budget, batch, IDs |
| `Writer` | the `Writer` record of `actor.bend` | operators; a send returns the *set* of its outcomes |
| `NetActor` | the actor, with an open UI | `pc` is the writer's continuation; `w`, `scope`, `s` its record, AuthScope and setup; `cmd`, `evt`, `boot` the channels; `pumps`, `fails` spawned tasks; `conn`, `reader` per generation |
| `Live` | `net.bend` closed over `NetActor` | `net`, `auto` of the session; `out` the commands of the step under way (while one waits for room no event is taken); `timers`, `heard`, `beats` the other tasks; `quit` the shutdown |
| `Registration` | `auth.bend`, `cap_notify.bend`, `join_plan.bend` as `session.bend` drives them | `auth`, `wins`, `scope`, `plan`; `Line` is one server line through all three; `Dial`, `Lost`, `Up`, `ReadStarts`, `SettingsRead`, the user's edits |
| `JoinContract` | what `join_plan.bend` promises, without how | `stage`, `proof`, `settings` |
| `HistoryWriter` | the history path of `wsnet.bend` | rows per server, `pend`, the hold, the job channel, the worker, the loop's channel, fence and shutdown |
| `HistoryFile` | `history_ffi.c`: append and bounded scan | the file as cells, one append, one scan that may be cut anywhere |
| `Framer` | `frame.bend` | carry and mode; every stream in every cut |
| `Preferences` | `preferences_runtime.bend`, `_live`, `_worker` | `queue` is `State`; each loop step ends in observe and take (`Stage`) |
| `PreferencesFile` | `preferences_ffi.c` | calls of several processes in steps between system calls; hand edit and power cut |
| `HttpFetch` | `birc_mf_fetch` | one hop at a time, with a clock |
| `MediaCache` | `birc_mf_remote`, `birc_mf_cache_write`, `birc_mf_commit`, `birc_mf_read_cached` | files by inode, one helper each step between system calls, crash anywhere |
| `MediaQueue` | `media.bend`, the lease of `wsnet.bend`, the table of `birc_media.h` | `media` a queue per server, `view` its lines and what is on screen, `slot` its generation; `lease`, `fetches`, `native`; every event ends in `Stage` |
| `Upload` | `upload.bend`, `session.bend`, `upload_ffi.c` | consent, what is painted, the helper, the file, the answer |
| `NetActor_proofs` | - | theorems on the operators of `Outbound` and `Writer`, then on the actor: types, wakeups, credentials, admission |
| `Delivery_proofs` | - | theorems on the actor's lines: IDs, order and loss, budget |
| `Registration_proofs`, `Upload_proofs`, `HistoryWriter_proofs`, `MediaQueue_proofs` | - | theorems of those components |
| `Files_proofs` | - | theorems of `MediaCache` and `PreferencesFile`, whose processes share files |
| `FiniteSums` | - | lemmas on sums over finite sets, which the budget, the history and the cache need |
| `MC*` | instances and scenarios for TLC | - |

`NetActor` extends `Writer`, which extends `Outbound`; `Live` extends
`NetActor` and replaces its open UI. The proofs follow the same chain:
`Delivery_proofs` extends `NetActor_proofs`. `MCFiles` extends `Upload`,
`PreferencesFile` and `MediaCache`, `MCHistory` extends `HistoryWriter` and
`MediaQueue`; TLC evaluates their assumptions. A step of a model ends where the code can
be interleaved: at a channel operation, a spawn, a system call another process
can observe, or a call that waits for the network.

**The actor's actions against the code.**

| code | actions |
|---|---|
| `deferred_loop`, `deferred_command`, `deferred_begin` | `DeferredCommand`, `DeferredEnded` |
| `Dns.dial_dual` in `dial_begin`, `writer_admit_begin` | `DialFailed`, `DialConnected` |
| `writer_peek` | `PeekCommand`, `PeekEnd` |
| the verdict on what was drained | `SetupCancel`, `SetupRetry`, `SetupUpgrade`, `Register`, `RegisterFailed` |
| transport upgrade | `UpgradeFailed`, `UpgradeDone` (which spawns the sentinel `Pump`) |
| `writer_drain*` | `DrainCommand`, `DrainEnded` |
| `writer_kept*`, `arm_*`, `writer_admit_done` | `Replay`, `ArmBoot`, `ArmRedial` |
| `writer_command` | `WriterSend`, `WriterDrop`, `WriterHangup`, `WriterDial` |
| `writer_finish`, `writer_done` | `WriterFinish`, `WriterEof`, `WriterDone` |
| `pump_send`, `writer_fail` | `PumpSend`, `FailPost` |
| `reader_run` .. `reader_stop` | `ReaderUp`, `ReaderRecv`, `ReaderPong`, `ReaderChunk`, `ReaderStop` |

The launch (`dial_begin`) and a running writer (`writer_admit_begin`) take the
same decisions, so one set of actions models both; the fields `live` and
`redial` tell apart how each reports. Commands kept by a setup that ends without
a socket are not replayed (without one `writer_queue` keeps nothing), and the
handshake and the duplicated reader handle are one step, since nothing else may
run between them.

**Abstractions of data.** Lines and rows are records (producer, position), a
server line is what the admission checks make of it, a name, URL, host or
document is a model value, a body a size and whether it decodes. In
`Registration` an endpoint is its spelling: credentials are bound to the exact
one, the server's limits to the endpoint in any spelling. In `Preferences` the
eleven global settings are one value with its mask. In `MediaQueue` an image is the line that shows it,
one URL a line; what is on screen may be any set of kept lines, and an admitted
image or a reported failure may push lines off it. In `HistoryFile` a record is
two cells, so that a write can be torn inside it.

## 3. Runs

A run's module may hold several *scenarios*: components that do not meet, or
instances of one component with other bounds (`INSTANCE ... WITH` other
constants). The variable `scenario` is chosen in the initial state and never
changes; in each, the components not concerned rest. A property of a component
is restated in the suite under the same name, with its scenario as the premise
where it needs one.

| run | scenarios and bounds |
|---|---|
| `admission` | *queue*: one connection, a budget of three frames of two lines, seven lines, or two and three PINGs. *redials*: two connections in a row on such a budget, three lines over both. *admission*: endpoints `a` (launch) and `b`, generations 0..2, starts boot, idle, deferred. *loop*: `Live`, one endpoint, deferred start, three generations of which the third never connects, one heartbeat |
| `delivery` | *lines*: boot start, generations 0..2, two lines. *replies*: idle start, one PING per reader |
| `liveness` | *redials*: boot start, generations 0..2. *lines*: boot start, one connection, three lines, one PING. *loop*: `Live` with its fairness, generations 0..2, boot and deferred start. `cmd` and `evt` of one slot |
| `history` | *shared*: two servers, three rows each, one slot for jobs, pending cap of two. *dial*: one endpoint change. *retry*: one failing append with a full loop channel. *quit*: one slot in either channel. *archive*: three records of five kinds, two kept targets, two lines each, every torn write. *servers*: two servers with an image each, three requests and a `/preview`, one clear. *screen*: one server, three images, four requests, one clear; lists and table of two |
| `session` | *registration*: three spellings of two endpoints, two channels, three connections, three edits. *preferences*: two endpoints, two values, queue of two, three settings or dials, two edits. *fetch*: two redirects, two addresses, a deadline of eight ticks. *framer*: every stream of nine octets over CR, LF and text, chunks of up to three |
| `files` | *cache*: two helpers, two trees, two URLs, two entries, three bytes, four files. *settings*: two processes, two endpoints, one edit by hand, one power cut. *upload*: two targets, batches of two, one rewrite, four warnings. |

What they show.

- `TypeOK`, `FrameBudget`: no U32 subtraction wraps; lines sent and budget left
  never exceed what the launch granted, over all connections together, and fall
  short of it only by what failed sends took and lost, less than a batch each.
  What an end flushes goes past the budget (`extra` counts it apart).
- `RegisteredWanted`: a server sees a registration only if its Dial was still
  wanted when the transport came up: every newer Dial, Drop, Hangup and close
  is found by the drain, because its sentinel is queued after them.
- `CredentialScope`: SASL goes to the launch endpoint only, and never again
  after a Dial left it, even one that lost an admission.
- `NoLostWakeup`, `QueueDrains`: lines the budget allows never wait without a
  pump that will come, and are sent.
- `NeverOrphaned`: a session that shows "connecting" has its dial, its outcome
  or its timer under way; otherwise it would stay so, since `/connect` is
  refused meanwhile.
- `RedialOnlyDead`: a timer never overtakes a newer dial nor cuts a healthy
  connection.
- `WireInOrder`, `NothingLost`, `TraceIdsAligned`: a socket carries its own
  generation's lines, once, in order; while it lives nothing is lost, and
  Hangup, a newer Dial and close flush first; every reply has the ID its reader
  minted.
- `CloseAcknowledged`, `BootAnswered`: closing ends the writer from every phase;
  the launch always gets an answer.
- `LoopMovesOn`: the loop's blocking send on a full `cmd` always completes
  although it takes no event meanwhile, and a quit that waits is answered.
- `RowsKept`, `RetryKept`, `FileInOrder`, `WaitsDurable`, `FairQuitEnds`: rows refused, coalesced, drained or retried reach the file, in their server's
  order; an endpoint change appends only after what was queued before it; a
  clean quit leaves nothing behind, and a quit ends without its time budget.
- `KeptExact`: a scan returns exactly the last lines of the
  most recently used targets it read, wherever it is cut; an evicted target
  keeps its calendar.
- `EndOnce`, `SecretOnce`: negotiation is open as long as authentication runs
  and ended once, although writer and session decide separately; credentials
  cross a connection once, and only to their endpoint.
- `RoomIsDesired`, `JoinsNotForgotten`: no JOIN withheld is forgotten while it
  is desired and no channel left or kicked from comes back; the last condition
  met triggers the JOINs.
- `LateSettingsKept`: settings that arrive undo no edit made since their read
  began. A read begins with the dial, or, when a write for the endpoint is out
  or the queue is full, only after that job (`ReadStarts`), at the revision of
  then; of edits made before it began `EditsKept` says what holds: settings
  that arrive give the session no other names than the user last asked for
  there, unless a write failed or the edit is one of `preferences_return`.
- `KeepsContract`: refinement, `Registration` implements `JoinContract` under
  the mapping `Stage`, `ProofState`, `SettingsState`.
- `EditsKept` (`CleanMeansSaved` and `SeedsWanted`), `JoinsReleased`: a quit that
  reports success has every edit in the file, and settings that arrive undo none
  (one exception, below); held JOINs are released.
- `FetchBounded`: no step down from https, no private address; the
  one deadline bounds all hops.
- `LinesExact`: the lines handed on are the legal lines of the stream, whatever
  the cut; the reference splits the whole stream at once.
- `WithinCaps`, `ShowsWhole`: both trees together stay within
  the caps with two writers and crashes; dead staging files are reclaimed; what
  is shown is a whole body of the right URL although it is read without the lock.
- `SavesKept`, `ReadsUnmixed`: a reported save survives other processes, killed
  helpers and power cuts; an answer is never half of two documents.
- `HelperOwned`: one helper runs, and it, the lease and the one
  active request agree through clears, redials and switches, so a late result
  always releases what it holds.
- `TokensBacked`: an admission for one server frees no image another shows, and
  no list outgrows its bound or names an image twice.
- `ImagesTrue`: no result enters a queue that was cleared while its helper ran,
  and a full table or list turns the new image away instead of a shown one.
- `StartWarned`, `WholeVersion`, `PostedUnbroken`: a helper starts only for a
  warning already painted; it completes only with one version of the file; its
  URL is sent only if the scope held throughout.

**Bounds and why they are enough.** `SEND_CAP` is 1 (8 in the code), so two
lines need a second batch, and 2 in `admission`, so a send can fail inside a
batch; channels of one or two slots make senders park;
three generations give a launch, a redial that overtakes it and one that
overtakes that; `PeekCap` 2 and `DrainCap` 4 (65 and 2080) let the peek stop
with commands left and the drain run out; the ID space is two generations of
two IDs modulo 8, so ranges end and wrap. Channel, cache, queue and ring caps
are set so that they are reached: with two entries for the code's eight a third
line fills the image lists, and two servers fill the table; three connections give each kind of endpoint
change and a return. The actor's safety runs use a view: `evt` is never read
back by the actor, so only its length counts (the *loop* scenario keeps its
contents). `files` uses symmetry over helpers, URLs, processes and endpoints.
`session`, `files` and the runs of their parts stop when the bounds are used
up, so deadlock is not checked there; it is in all the others (in `history` the
scenarios of the archive and the images stutter where they end). Every property
has a mutant of the modelled code (the operators marked *Faulty*) that violates
it on the same instance.

**Fairness.** The writer, the spawned pumps and the UI loop are strongly fair:
the runtime serves tasks parked on a channel in turn, and DNS, connect, TLS and
sends have deadlines. `NetActor`'s open UI goes on taking events. The history
worker, its drain fiber and the loop are weakly fair: none competes for a step
with another. The settings helper is weakly fair because it has a deadline of
its own and its result is the next the loop takes; the fetch because each wait
ends at its deadline. Nothing is assumed of a server, a user or another process.

## 4. Where code and documentation disagree

Each of these has a run that TLC shows violated, listed under "findings".

- `pumps`: the comment above `writer_schedule` (`actor.bend:522`) allows one
  outstanding pump per generation; at the end of a redial `writer_admit_done`
  clears the flag while the replay's pump is on its way and schedules another.
  An extra pump sends one batch early; nothing is lost.
- `hist_dial_rows`: a row refused while another server's bytes were pending is
  lost when its server then changes endpoint (`wsnet.bend:1905`); the
  single-server loop saves them first.
- `hist_fail_rows`: with two servers one failed append loses rows. One `hold`
  serves all of them: once another server's save replaced it (or a refused save
  set it to 0), `on_fail` (`wsnet.bend:1722`) no longer sees that a later job of
  the same server is queued. It rewinds the floor, and the later job's
  acknowledgement raises it again over the failed rows. `RowsKept` therefore
  excepts failures, and `RetryKept` shows that one server alone retries.
- `acked_readable`: the first record appended after a torn one continues its
  line and is never read back, though acknowledged (`history_ffi.c:74`).
- `upload_line`: the native helper's answer has no newline and
  `upload.bend:325` requires one: no native upload is posted.
- `preferences_return`: a channel edit made after returning to an endpoint whose
  write is still out is overwritten by the read that follows
  (`preferences_runtime.bend:456`). `CleanMeansSaved` and `SeedsWanted` therefore
  except edits made when nothing of the queue would answer for their endpoint,
  and `LateSettingsKept` counts an edit only from the moment the read began.

Met while modelling, outside the bounds, premises or properties of the passing
runs:

- When the list of image results is full, a failure forgets the newest
  placeholder (`media.bend:610`), which may be that of another failing image on
  screen: the two are then fetched in turn for as long as the screen stays,
  although `media.bend:476` wants failures not to "cause retry loops".
- Two failed appends of the same rows lose them: a retry put in front of a newer
  pending record keeps that record's base, and the second failure rewinds only
  that far (`wsnet.bend:1719`). `retry` has one failure.
- A history barrier is answered although the job in front of it failed
  (`wsnet.bend:1327`); `WaitsDurable` therefore excepts failures.
- At an endpoint change the loop waits for the worker's barrier on its own
  fiber, while the worker may wait for room in the loop's channel
  (`wsnet.bend:1785`). `dial` has room for every message.
- A heartbeat whose send fails can post `NetFail` before the reader's `Up`; the
  session is then Online on a dead connection until the reader's `Eof`.
- Resolution of a name is not bounded by the fetch deadline; `FetchBounded`
  assumes the resolver answers.

## 5. Proofs

TLAPS proves the following for all values of the constants that satisfy
`OutboundAssumption`, `WriterAssumption`, `NetActorAssumption`,
`RegistrationAssumption`, `UploadAssumption`, `PreferencesFileAssumption`,
`HistoryAssumption`, `CacheAssumption` and `MediaAssumption`, which TLC evaluates in the runs. The code's numbers satisfy them: 8 < 2^32 and
2^31 + 2048 * 2^20 = 2^32. The bounds of the model (lines, PINGs, edits, ...) are
constants too, so what is proved holds for any number of them.

- `NetActor_proofs`:
  - of `Outbound`: `BatchSplits`, `BatchSpends`, `PongRangesApart`,
    `PongTxnStays`, `BatchTxnApart`; of `Writer`, as lemmas: what each queue
    operator returns, the flag after it, and that it leaves nothing pending
    without a socket.
  - `TypeCorrect` (`Spec => []TypeOK`). `TypeOK` is not inductive: that a
    `PONG` line's identity stays in range needs the count of PINGs a reader
    took, and that a queued line belongs to a generation needs the UI's.
    `TypeInv` adds these, and that a writer in a setup owns no socket.
  - `NeverStranded` (`Spec => []NoLostWakeup`). `WakeInv` says what the flag
    stands for: if it is set and `cmd` is open, a pump of this generation is
    spawned or queued; if lines are pending within the budget, it is set. A
    stale pump cannot clear it, and a closed `cmd` loses pumps only when the
    flush at close will take over.
  - `CredentialSafe` (`Spec => []CredentialScope`). `DialInv` says the
    generations of the Dials in flight rise, above the current one and at most
    the UI's; `CredInv` that once any Dial up to the one being set up left the
    launch endpoint, the scope is off.
  - `DialsRise` (`Spec => []DialsNewer`): that order by itself. The guard
    `dial_superseded` never bites while the UI numbers its Dials.
  - `WantedRegistered` (`Spec => []RegisteredWanted`). Each connection remembers
    what the UI wanted when its transport came up (`wanted`). `WantInv` says that
    if this was not the setup under way, its drain has met a command that overtakes
    it, or will before it meets the sentinel (`Noticed`); that with no steering
    command waiting the setup works towards what the UI wants (`LastWanted`,
    `Aimed`); and that sentinels and registrations of other generations are of ones
    left behind (`PumpsBehind`, `RegisteredBehind`).
- `Delivery_proofs`: `TraceAligned` (`Spec => []TraceIdsAligned`). Every step of the
  actor is one of eleven `Kinds`, each saying what it does to the queue, the wires, the
  readers and `cmd`; `ShapeInv` carries what the kinds rest on: which generation
  owns a socket, that what is not dialled is untouched, that a reader has minted
  as many IDs as it read PINGs, that `Begin` comes once. `TraceInv` then states the
  alignment on every place a reply passes. A stale reply never enters a newer
  generation's queue.
  Over the same kinds:
  - `WiresOrdered` (`Spec => []WireInOrder`) and `PathLossless`
    (`Spec => []NothingLost`). `OwnInv` says whose lines are where: a line in `cmd`
    belongs to the generation that the last steering command before it set, and a
    kept line to the setup's own. `PathInv` says that wire, queue, kept commands and
    `cmd`, read one after the other, hold the lines 1..n of a generation in play.
    It is seldom disturbed: most steps only move lines from one place to the
    next, which leaves that reading alike (`Alike`), wherever batches are cut.
    `NothingLost` is not inductive without `OwnInv` (an overtaken Dial's lines must
    be known to be another's when they are dropped) and without `Carries`, which
    follows the lines of a deferred start before any connection exists.
  - `BudgetHolds` (`Spec => []FrameBudget`), two inequalities that hold through
    refills, redials, failed setups, sends that stop half-way and ends that flush.
    `BudgetInv` adds that the budget is limited exactly if the launch has frames,
    that a connection flushed no more than it carried, and that a failed one was
    registered, so that no later setup can reopen it. A batch takes from the grant
    what it puts on one wire (`BatchSpends`), or less than a batch more if it fails;
    the sum over the wires of a finite set of generations grows by as much
    (`SumChanges`), and so does the count of failed connections (`CountLost`). All
    other steps leave both alone, also those that hand the budget to the next
    connection. Why not an equality: how many lines a failed send lost is not kept
    anywhere, neither in the code nor in the model.
- `Registration_proofs`:
  - `RegistrationTypeCorrect` (`RegSpec => []RegTypeOK`).
  - `NegotiationEndsOnce` (`RegSpec => []EndOnce`). The writer's scope and the
    session's mode are separate records; `Linked` says the scope is on exactly
    if the mode uses SASL, through every dial, loss and respelling.
  - `SecretsScoped` (`RegSpec => []SecretOnce`). `Spending`: a phase that may still
    send the secret has sent none on this connection, and the mode is only kept
    for the endpoint that the launch named.
  - `RecoveryNotForgotten` (`RegSpec => []JoinsNotForgotten`). `Linked` ties this
    connection's success to the counter and the plan's baseline, and the hold to
    the settings read; `Settled` says that no flush is due between two steps.
  - `RoomsAsDesired` (`RegSpec => []RoomIsDesired`). `Rooms`: what the wire has asked
    for agrees with the desired channels once the plan is open, and is empty before.
  - `LateReadKeeps` (`RegSpec => LateSettingsKept`), an action property. `Reads`: an
    edit made since the read began shows in the plan's revision. An edit made
    between the dial and `ReadStarts` is before the baseline and is not covered.
  - `JoinsKeepContract` (`RegSpec => KeepsContract`): initial states map to
    initial states, and each action to a step of `JoinContract` or a stutter.
- `Upload_proofs`: `OneVersion` (`Spec => []WholeVersion`), and the action properties
  `StartsWarned` and `PostsUnbroken`. `IInv` adds to the type that the running helper
  is the one the consent names (`Owned`), that the warning presented is one a frame
  painted (`Warned`), that a request whose scope was once left has lost its
  permission (`Revoked`), and that what was sent is of the versions since the
  helper's stamp, which still describes the file unless it was rewritten (`Stamped`).
- `HistoryWriter_proofs`: `RowsAreKept` (`Spec => []RowsKept`), `FileStaysInOrder`
  (`Spec => []FileInOrder`), `WaitsAreDurable` (`Spec => []WaitsDurable`). `StopInv` says that the stop is the last job there ever is
  and the worker's end the last of it, `FenceInv` that nothing is queued behind the
  barrier the loop waits for. The rest holds while no append failed: no report runs
  ahead of its part's floor (`ReportInv`); everything sent off, pending or held lies
  at or below the floors (`FloorInv`); the file and the queue are in order and the
  overflow comes after both (`JobsInv`, `PendInv`); a transition lies above all of
  its part (`DialInv`); and until an endpoint changes, a stored row at or below its
  floor was sent off (`KeptInv`). Without `FloorInv` and `KeptInv` a save might cut
  rows out twice, or a floor pass over rows that no job has. That an extract is
  sorted and complete is proved by well-foundedness of the finite sets it sorts
  (`SmallestSet`), where an induction over their size would be out of reach.
- `Files_proofs`:
  - of the cache: `ReadsAreWhole` (`CacheSpec => []ShowsWhole`) and `CapsHold`
    (`CacheSpec => WithinCaps`, an invariant and an action property). `CacheInv`: a
    payload is whole and decodes (`PayloadsGood`), the payloads fit the caps
    (`PayloadsFit`), a reader holds a body that was a payload of its URL (`OpenTrue`),
    and the helper that owns the lock knows the disk (`Admitting`): whatever is there is
    in its lists or is the entry it replaces, since nobody else changes the disk, so
    that when it stops evicting, the other tree, what is left of its own and the new
    file fit together. `ReadsAreWhole` needs none of the lock, only that a payload is never
    written in place.
  - of the settings file: `SavesLast` (`FileSpec => []SavesKept`), `ReadsWhole`
    (`FileSpec => []ReadsUnmixed`). `SettingsInv` says that one process holds the lock
    (`OneWriter`), identities name contents (`Numbered`), a snapshot whose identity
    did not change is the file (`Reading`), what a save builds keeps every other
    endpoint's promise (`Building`), and each file the name may still mean after a power cut covers what
    was reported (`Covered`).
- `MediaQueue_proofs`: `OneHelperOwned` (`Spec => []HelperOwned`). `OneHelper` says
  that the lease is free and no helper runs, or it names a server, a request for work
  and the one helper that was started for them (`Runs`), and that every queue waits for
  the lease's request or for none (`Waits`). A stage, which ends every event, passes
  the invariant on from any queues, lease and helpers that agree (`StageOwned`); a
  reset, an observation and the admission of what is on screen leave the active request
  alone (`SameActive`). For the admission, a fold over the images on screen, this is
  proved from the defining equation of the fold, which has a solution for every finite
  set of places (`EnqueuesExist`).
- `FiniteSums`: what the library's `SumFunction` returns for a finite set: that it
  is a natural number, is taken apart one weight at a time (`SumTakes`), is at least
  the sum of a part (`SumOfPart`), and changes by as much as one weight does
  (`SumChanges`). Where a counting argument would use induction, these use that
  strict inclusion of finite sets is well-founded: a smallest set for which the claim
  fails would have a smaller one.

The actor's delivery properties are stated with quantifiers over positions, not
with filtered sequences, so that they mean the same and can be reasoned about.

What `Registration` assumes: a KICK is not in flight against a JOIN that
follows it; credentials are valid ones; what the settings queue returns for an
endpoint may be any set of channels; whether the read of its settings begins
with the dial or after an earlier job is left open, the queue itself being
`Preferences`'.

**Only model-checked**:

- the liveness properties, out of the prover's reach;
- of `Live`: `NeverOrphaned` and `RedialOnlyDead`; the actor's theorems are about its
  open UI, not about this loop;
- the queues of `Preferences` and `MediaQueue` and the stages of `HttpFetch`
  (`EditsKept`, `TokensBacked`, `ImagesTrue`, ...): they speak of what is left
  of a list when some of it is taken out (`SelectSeq`), which the prover knows
  nothing about;
- `HistoryFile` and `Framer`: a scan and a framer are folds over sequences, and
  their results for every length need induction over sequences.

## 6. Not modelled

- Of the network: the bytes of a line in the actor, the registration's lines,
  trace output, `OpenUrl` and `Search`, timing within a deadline. Generations
  are bounded instead of wrapping at 2^32.
- Of the loop: painting and the media stages of a step; the settings stage is
  in `Preferences`, not in `Live`, so the drain of settings at a quit and the
  wait for `WriterDone` are not in one model.
- Workspace routing, drafts, typing, notifications, the link cards' queue,
  the startup gate's conditions, the startup import and disk search of history:
  planned.
- Of the image queue: a terminal without images, several URLs on a line, the
  single-server loop's stage (the same queue without a lease).
- ISUPPORT, parsing, buffers, rendering, text, DNS wire format: pure functions of
  data, covered by the laws in the repository.
- TLS, terminal, key chain, resolver and clock adapters: system calls.
- `timui.h` and `stb_image.h`: third-party headers. They are 41070 of the 53085
  lines of C in the tree, so the share of C that is mapped is small whatever is
  modelled; the program's own logic is the 81 Bend files.

## 7. Plan

Done: the actor with proofs of its types, wakeups, credentials, admission and
delivery; the closed loop; registration, authentication and join recovery with
contract and proofs; framer; preferences queue; the preferences file and uploads
with proofs; history worker with proofs, and file; fetch; cache with proofs; the image
queue with a proof about its helper.
Next:

1. Theorems: `TokensBacked` of `MediaQueue`, `EditsKept` of `Preferences`;
   then `NeverOrphaned` and `RedialOnlyDead` of `Live`.
2. `Workspace`: parts, generations, slot epochs and routing; every event and
   command reaches the incarnation it was made for. Proof of the isolation
   invariant.
3. The link cards' queue, and a ticket contract that it and `MediaQueue` implement.
4. The startup gate and the settings drain inside `Live`.
5. `Drafts`, `Typing`, notifications.
