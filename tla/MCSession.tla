----------------------------- MODULE MCSession -----------------------------
(***************************************************************************)
(* Four components of a session that do not meet, each a scenario of its   *)
(* own; a behaviour stays in the one its initial state picks and the       *)
(* others rest.                                                            *)
(*   registration: the handshake, the exchange and the recovery JOINs      *)
(*   preferences:  the settings queue and its helper                       *)
(*   fetch:        one GET for an image or a card, with its redirects      *)
(*   framer:       octets to lines                                         *)
(***************************************************************************)
EXTENDS Registration

CONSTANTS Endpoints, First, Values, Names, None, CR, LF, x

VARIABLES queue, sess, run, disk, want, acts,   \* Preferences
          hop, trail,                           \* HttpFetch
          kept, lines, stream,                  \* Framer
          scenario

Settings == INSTANCE Preferences WITH
    LaunchNames <- {}, MaxJobs <- 2, MaxRevision <- 2, MaxActs <- 3

Fetch == INSTANCE HttpFetch WITH
    Redirects <- 2, MaxBody <- 2, Deadline <- 8, MaxAddrs <- 2

Frames == INSTANCE Framer WITH
    Text <- {x}, LineMax <- 2, MaxOctets <- 9, MaxChunk <- 3

ASSUME Settings!PreferencesAssumption
ASSUME Fetch!FetchAssumption
ASSUME Frames!FramerAssumption

prefVars == <<queue, sess, run, disk, want, acts>>
fetchVars == <<hop, trail>>
framerVars == <<kept, lines, stream>>
suiteVars == <<regVars, prefVars, fetchVars, framerVars, scenario>>

-----------------------------------------------------------------------------
(* A component at rest is in one of its initial states. *)

RegParked ==
    RegInit /\ auth.mode = "off" /\ auth.fits /\ ~reading.on

PrefParked ==
    /\ Settings!PrefInit
    /\ sess.value = CHOOSE v \in Values : TRUE
    /\ ~queue.explicit /\ ~disk.present

SuiteInit ==
    /\ Fetch!Init /\ Frames!Init
    /\ \/ scenario = "registration" /\ RegInit /\ PrefParked
       \/ scenario = "preferences" /\ RegParked /\ Settings!PrefInit
       \/ scenario \in {"fetch", "framer"} /\ RegParked /\ PrefParked

In(name) == scenario = name /\ UNCHANGED scenario

RegistrationStep ==
    In("registration") /\ RegNext /\ UNCHANGED <<prefVars, fetchVars, framerVars>>
PreferencesStep ==
    /\ In("preferences") /\ UNCHANGED <<regVars, fetchVars, framerVars>>
    /\ Settings!PrefNext
FetchStep ==
    In("fetch") /\ Fetch!Next /\ UNCHANGED <<regVars, prefVars, framerVars>>
FramerStep ==
    In("framer") /\ Frames!Next /\ UNCHANGED <<regVars, prefVars, fetchVars>>

\* The fairness of the settings queue and of the fetch, as they state it.
LoopTurn ==
    /\ In("preferences") /\ UNCHANGED <<regVars, fetchVars, framerVars>>
    /\ Settings!OnLoaded \/ Settings!OnSaved
HelperTurn ==
    /\ In("preferences") /\ UNCHANGED <<regVars, fetchVars, framerVars>>
    /\ Settings!HelperRead \/ Settings!HelperWrite

SuiteSpec ==
    /\ SuiteInit
    /\ [][RegistrationStep \/ PreferencesStep \/ FetchStep \/ FramerStep]_suiteVars
    /\ WF_suiteVars(LoopTurn) /\ WF_suiteVars(HelperTurn)
    /\ WF_suiteVars(FetchStep)

-----------------------------------------------------------------------------
\* EditsKept of Preferences: a quit reports success only when the edits the
\* user made, at whatever endpoint and however reads, writes, dials and failures
\* interleaved, are in the file; and settings that arrive never give the session
\* other names than the user last asked for there.  Save for names reported as
\* lost and channel edits nothing of the queue would answer for.
EditsKept == Settings!EditsKept

\* However the stream is cut into chunks, the lines handed on are its legal
\* lines: one ends at an LF or a CRLF, holds no bare CR and at most LineMax
\* octets; any other is dropped as a whole and the next one still comes
\* through.  What is carried over stays bounded.
LinesExact == Frames!LinesExact

\* JoinsReleased of Preferences, where the helper is scheduled.
JoinsReleased == <>[](scenario = "preferences" => ~sess.held)

\* FetchEnds and HopsAllowed of HttpFetch, where the fetch is scheduled: once on
\* https no later hop is in the clear, a card never is, no hop is to a private
\* address, there are at most Redirects of them after the first, and the one
\* deadline ends them all.
FetchBounded ==
    /\ []Fetch!HopsAllowed
    /\ (scenario = "fetch" /\ hop.at = "resolve") ~> hop.at \in {"ok", "failed"}
=============================================================================
