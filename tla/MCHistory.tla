----------------------------- MODULE MCHistory -----------------------------
(***************************************************************************)
(* What the servers of the multi-server loop share, the history worker and *)
(* the image helper, and the archive; a behaviour stays in the scenario    *)
(* its initial state picks and the other components rest.                  *)
(*   shared:  two servers behind one worker, a full channel, a full        *)
(*            pending record                                               *)
(*   dial:    one server changes its endpoint                              *)
(*   retry:   one append fails while the servers fill the loop's channel   *)
(*   quit:    shutdown with one slot in either channel, fairly scheduled   *)
(*   archive: the native reader against the native appender                *)
(*   servers: two servers that share the image helper and the table        *)
(*   screen:  one server with more images than its lists hold              *)
(***************************************************************************)
EXTENDS HistoryWriter, MediaQueue

CONSTANTS Server, NL, Kinds, Keep, AliveMax, LineMax, ChunkMax, LastDay,
          MaxRecords, MaxAppends, Home

VARIABLES disk, app, acked, scan,   \* HistoryFile
          scenario

Archive == INSTANCE HistoryFile WITH file <- disk

ASSUME Archive!FileAssumption
ASSUME MediaAssumption

archiveVars == <<disk, app, acked, scan>>
restVars == <<archiveVars, mediaVars>>
suiteVars == <<vars, restVars, scenario>>

Dials == INSTANCE HistoryWriter WITH
    Parts <- {0}, MaxRows <- 4, OverCap <- 6, MaxDials <- 1
Retry == INSTANCE HistoryWriter WITH
    Parts <- {0}, MaxRows <- 5, ChanCap <- 2, MainCap <- 2, OverCap <- 6,
    MaxFails <- 1, Traffic <- TRUE
Quits == INSTANCE HistoryWriter WITH MaxRows <- 2, MainCap <- 1

\* Kinds of the archive; the literals are HistoryFile's Bare (0), NoDate and
\* NoClock (-1), which cannot be named in a value of one of its own constants.
MCKinds == {
    [to |-> "a", mine |-> TRUE, day |-> 1, sod |-> 1],
    [to |-> "a", mine |-> TRUE, day |-> 0, sod |-> 0],
    [to |-> "b", mine |-> TRUE, day |-> 0, sod |-> 1],
    [to |-> "c", mine |-> TRUE, day |-> -1, sod |-> 1],
    [to |-> Server, mine |-> TRUE, day |-> 2, sod |-> -1]}

ArchiveParked ==
    disk = <<>> /\ app = Archive!NoAppend /\ acked = {} /\ scan = [at |-> "idle"]

ImagesParked == MediaInit /\ cur = Home

SuiteInit ==
    /\ ImagesParked
    /\ \/ scenario = "shared" /\ Init /\ ArchiveParked
       \/ scenario \in {"dial", "retry"} /\ Dials!Init /\ ArchiveParked
       \/ scenario = "quit" /\ Quits!Init /\ ArchiveParked
       \/ scenario = "archive" /\ Init /\ Archive!Init
       \/ scenario \in {"servers", "screen"} /\ Init /\ ArchiveParked

In(name) == scenario = name /\ UNCHANGED scenario

SharedStep  == In("shared") /\ Next /\ UNCHANGED restVars
DialStep    == In("dial") /\ Dials!Next /\ UNCHANGED restVars
RetryStep   == In("retry") /\ Retry!Next /\ UNCHANGED restVars
QuitStep    == In("quit") /\ Quits!Next /\ UNCHANGED restVars
\* The archive's run ends when both sides have nothing left to do.
ArchiveStep ==
    /\ In("archive") /\ UNCHANGED <<vars, mediaVars>>
    /\ Archive!Next \/ UNCHANGED archiveVars

\* Bounds: a line for each server, three requests, a /preview at Home.  The
\* run of the images ends when the bounds are used up.
ServersStep ==
    /\ In("servers") /\ UNCHANGED <<vars, archiveVars>>
    /\ \/ /\ MediaNext
          /\ \A p \in Servers :
               view'[p].last <= 1 /\ (view'[p].preview # Nothing => p = Home)
          /\ MapThenSumSet(LAMBDA p : media'[p].ticket - 1, Servers) <= 3
       \/ UNCHANGED mediaVars

ScreenStep ==
    /\ In("screen") /\ UNCHANGED <<vars, archiveVars>>
    /\ \/ LineArrives(Home) \/ LineGoes(Home)
       \/ Scroll \/ Images \/ DialCurrent
       \/ Lost(Home) \/ Redial(Home)
       \/ \E job \in fetches : StaleResult(job) \/ LiveResult(job)
       \/ UNCHANGED mediaVars

\* The fairness of Quits!FairSpec, in the scenario that needs it.
QuitTurn(A) == In("quit") /\ UNCHANGED restVars /\ A

SuiteFairness ==
    /\ WF_suiteVars(QuitTurn(Quits!FlushPending))
    /\ WF_suiteVars(QuitTurn(Quits!FlushBarrier))
    /\ WF_suiteVars(QuitTurn(\E ok \in BOOLEAN : Quits!FlushAppend(ok)))
    /\ WF_suiteVars(QuitTurn(Quits!UiNet \/ Quits!UiAck \/ Quits!UiDiag))
    /\ WF_suiteVars(QuitTurn(Quits!DrainReceive))
    /\ WF_suiteVars(QuitTurn(Quits!WorkerNext))
    /\ WF_suiteVars(QuitTurn(Quits!DrainSend))

SuiteSpec ==
    /\ SuiteInit
    /\ [][\/ SharedStep \/ DialStep \/ RetryStep \/ QuitStep
          \/ ArchiveStep \/ ServersStep \/ ScreenStep]_suiteVars
    /\ SuiteFairness

\* One failed append loses no row of a lone server whose saves the cap never
\* refuses: the failed rows go in front of what waits, or the floor falls back.
RetryKept == scenario = "retry" => Retry!NoRowLost

\* QuitEnds where the fibers are scheduled fairly.
FairQuitEnds ==
    (scenario = "quit" /\ ui.pc = "drain") ~> ui.pc \in {"end", "expired"}

\* A finished scan, complete or cut short by a read error, returns exactly the
\* last records of the most recently used targets among the whole lines it
\* read, in file order and under the date an unbounded reader would give them,
\* whatever torn or overlong lines lie between.
KeptExact == Archive!KeptExact
=============================================================================
