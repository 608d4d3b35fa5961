---------------------------- MODULE PreferencesFile ----------------------------
(***************************************************************************)
(* The settings file of src/ffi/preferences_ffi.c: several birc processes  *)
(* read it and save into it one endpoint at a time, somebody edits it by   *)
(* hand, a helper is killed at its deadline and the machine loses power.   *)
(*                                                                         *)
(* A document is the settings and, per endpoint, its channel names; both   *)
(* are stood for by the save they come from.  The file has the identity    *)
(* birc_prefs_id compares: every change to it makes a new one.             *)
(***************************************************************************)
EXTENDS Naturals, FiniteSets

CONSTANTS
    Procs,         \* helpers
    Endpoints,
    Saves,         \* what a save may carry
    MaxServers,    \* BIRC_PREFS_MAX_SERVERS
    None,          \* no entry, no file
    Torn,          \* the content of a file that does not parse
    MaxIds,        \* bound: versions of the file
    MaxEdits,      \* bound: edits by hand
    MaxCuts        \* bound: power cuts

Docs == [settings : Saves \cup {None}, entries : [Endpoints -> Saves \cup {None}]]
Files == [id : Nat, doc : Docs \cup {Torn}, safe : BOOLEAN]

PreferencesFileAssumption ==
    /\ MaxServers \in Nat /\ MaxIds \in Nat /\ MaxEdits \in Nat /\ MaxCuts \in Nat
    /\ None \notin Nat /\ None \notin Files /\ Torn \notin Docs

VARIABLES
    proc,          \* the call of each helper
    cur,           \* the file under its name, or None
    older,         \* what the name may still mean after a power cut
    ids,           \* the last identity given out
    hopes,         \* what an endpoint may be in the file (history); {} is any
    held,          \* documents the file has held (history)
    edits, cuts    \* bounds

fileVars == <<proc, cur, older, ids, hopes, held, edits, cuts>>

-----------------------------------------------------------------------------

NoCall == [at |-> "idle", op |-> "read", host |-> None, save |-> None,
           prev |-> None, doc |-> None]

Empty == [settings |-> None, entries |-> [h \in Endpoints |-> None]]

File(id, doc, safe) == [id |-> id, doc |-> doc, safe |-> safe]

Known(doc) == {h \in Endpoints : doc.entries[h] # None}

\* The lock is an flock: it goes with the process that holds it.
Locks(p) == proc[p].op = "write" /\ proc[p].at # "idle"

\* Faulty: the lock is not taken.
FreeAlways(p) == TRUE

Free(p) == \A q \in Procs : ~Locks(q)

Call(p, fields) == proc' = [proc EXCEPT ![p] = fields]

Ends(p) == Call(p, NoCall)

FileSame == UNCHANGED <<cur, older, ids, hopes, held, edits, cuts>>

-----------------------------------------------------------------------------
(* birc_prefs_snapshot, for a read and for a save *)

StartRead(p, h) ==
    /\ proc[p].at = "idle"
    /\ Call(p, [NoCall EXCEPT !.at = "open", !.host = h])
    /\ FileSame

\* A lock that is held fails the save at once, which changes nothing.
StartSave(p, h, s) ==
    /\ proc[p].at = "idle" /\ Free(p)
    /\ Call(p, [NoCall EXCEPT !.at = "open", !.op = "write", !.host = h, !.save = s])
    /\ FileSame

\* No file: a read has nothing to tell, a save starts a new document.
OpenAbsent(p) ==
    /\ proc[p].at = "open" /\ cur = None
    /\ IF proc[p].op = "read" THEN Ends(p)
       ELSE Call(p, [proc[p] EXCEPT !.at = "have", !.doc = Empty])
    /\ FileSame

\* The file is read from its start to its end, and may change meanwhile.
ReadStart(p) ==
    /\ proc[p].at = "open" /\ cur # None
    /\ Call(p, [proc[p] EXCEPT !.at = "half", !.prev = cur.id, !.doc = cur.doc])
    /\ FileSame

ReadRest(p) ==
    LET rest == IF cur = None THEN proc[p].doc ELSE cur.doc
    IN  /\ proc[p].at = "half"
        /\ Call(p, [proc[p] EXCEPT
                      !.at = "read",
                      !.doc = IF Torn \in {proc[p].doc, rest} THEN Torn
                              ELSE [@ EXCEPT !.entries = rest.entries]])
        /\ FileSame

\* Faulty: the identity is not compared again after reading.
SameFileEver(prev) == TRUE

\* What is open and what the name means are still what was opened.
SameFile(prev) == IF cur = None THEN prev = None ELSE cur.id = prev

Recheck(p) ==
    /\ proc[p].at = "read"
    /\ IF SameFile(proc[p].prev) /\ proc[p].doc # Torn
       THEN Call(p, [proc[p] EXCEPT !.at = "have"])
       ELSE Ends(p)
    /\ FileSame

Answer(p) ==
    /\ proc[p].at = "have" /\ proc[p].op = "read"
    /\ Ends(p) /\ FileSame

-----------------------------------------------------------------------------
(* birc_prefs_write and birc_prefs_commit *)

Patched(doc, h, s) == [settings |-> s, entries |-> [doc.entries EXCEPT ![h] = s]]

\* The document with this endpoint's names in it goes to a staging file; one
\* endpoint too many is refused.
StageDoc(p) ==
    LET next == Patched(proc[p].doc, proc[p].host, proc[p].save)
    IN  /\ proc[p].at = "have" /\ proc[p].op = "write"
        /\ IF Cardinality(Known(next)) > MaxServers THEN Ends(p)
           ELSE Call(p, [proc[p] EXCEPT !.at = "staged", !.doc = next])
        /\ FileSame

SyncStaging(p) ==
    /\ proc[p].at = "staged"
    /\ Call(p, [proc[p] EXCEPT !.at = "synced"])
    /\ FileSame

\* The name must still mean what was read.
Compare(p) ==
    /\ proc[p].at = "synced"
    /\ IF SameFile(proc[p].prev) THEN Call(p, [proc[p] EXCEPT !.at = "same"])
       ELSE Ends(p)
    /\ FileSame

Rename(p) ==
    /\ proc[p].at = "same" /\ ids < MaxIds
    /\ ids' = ids + 1
    /\ Call(p, [proc[p] EXCEPT !.at = "renamed", !.prev = ids'])
    /\ cur' = File(ids', proc[p].doc, TRUE)
    /\ older' = older \cup {cur}
    /\ hopes' = [hopes EXCEPT ![proc[p].host] =
                   IF @ = {} THEN {} ELSE @ \cup {proc[p].save}]
    /\ held' = held \cup {proc[p].doc}
    /\ UNCHANGED <<edits, cuts>>

\* Only now is the save reported as done.
SyncParent(p) ==
    /\ proc[p].at = "renamed"
    /\ Ends(p)
    /\ older' = {}
    /\ hopes' = IF SameFile(proc[p].prev)
                THEN [hopes EXCEPT ![proc[p].host] = {proc[p].save}] ELSE hopes
    /\ UNCHANGED <<cur, ids, held, edits, cuts>>

\* A call fails, or its helper is killed.  A staging file may stay behind.
Fails(p) ==
    /\ proc[p].at # "idle"
    /\ Ends(p) /\ FileSame

-----------------------------------------------------------------------------
(* The rest of the machine *)

Forgotten == [h \in Endpoints |-> {}]

\* An editor rewrites the file in place: first it is cut short.
EditStart ==
    /\ edits < MaxEdits /\ ids < MaxIds /\ cur # None /\ cur.doc # Torn
    /\ edits' = edits + 1 /\ ids' = ids + 1
    /\ cur' = File(ids', Torn, FALSE)
    /\ hopes' = Forgotten
    /\ UNCHANGED <<proc, older, held, cuts>>

EditEnd(s) ==
    /\ edits > 0 /\ ids < MaxIds /\ cur # None /\ cur.doc = Torn
    /\ ids' = ids + 1
    /\ cur' = File(ids', [Empty EXCEPT !.settings = s], FALSE)
    /\ hopes' = Forgotten
    /\ held' = held \cup {cur'.doc}
    /\ UNCHANGED <<proc, older, edits, cuts>>

\* A power cut ends every call.  The name means what it did when its
\* directory was last made safe, or any file since; content that was not
\* made safe may be gone.
PowerCut ==
    /\ cuts < MaxCuts /\ cuts' = cuts + 1
    /\ proc' = [p \in Procs |-> NoCall]
    /\ \E f \in older \cup {cur} :
         cur' \in {f} \cup IF f = None \/ f.safe THEN {} ELSE {File(f.id, Torn, TRUE)}
    /\ older' = {}
    /\ UNCHANGED <<ids, hopes, held, edits>>

-----------------------------------------------------------------------------

FileInit ==
    /\ proc = [p \in Procs |-> NoCall]
    /\ cur \in {None, File(0, Empty, TRUE)}
    /\ older = {} /\ ids = 0
    /\ hopes = [h \in Endpoints |-> {None}]
    /\ held = {Empty}
    /\ edits = 0 /\ cuts = 0

FileNext ==
    \/ \E p \in Procs :
         \/ \E h \in Endpoints : StartRead(p, h) \/ \E s \in Saves : StartSave(p, h, s)
         \/ OpenAbsent(p) \/ ReadStart(p) \/ ReadRest(p) \/ Recheck(p) \/ Answer(p)
         \/ StageDoc(p) \/ SyncStaging(p) \/ Compare(p) \/ Rename(p) \/ SyncParent(p)
         \/ Fails(p)
    \/ EditStart \/ \E s \in Saves : EditEnd(s)
    \/ PowerCut

FileSpec == FileInit /\ [][FileNext]_fileVars

-----------------------------------------------------------------------------
(* Properties *)

Entry(h) == IF cur = None THEN None ELSE cur.doc.entries[h]

\* A save that was reported done stays in the file through the saves of other
\* endpoints by other processes, killed helpers and power cuts, until its
\* endpoint is saved again or the file is edited by hand.
SavesKept ==
    \A h \in Endpoints : hopes[h] # {} =>
        (cur # None => cur.doc # Torn) /\ Entry(h) \in hopes[h]

\* What a read answers and what a save builds on is a document the file held,
\* never the start of one and the end of another.
ReadsUnmixed ==
    \A p \in Procs : proc[p].at = "have" => proc[p].doc \in held
=============================================================================
