------------------------------ MODULE MCFiles ------------------------------
(***************************************************************************)
(* The components that work with helper processes and shared files, each a *)
(* scenario of its own; a behaviour stays in the one its initial state     *)
(* picks and the others rest.                                              *)
(*   cache:    two helpers, two trees, a cache of two entries              *)
(*   settings: two savers, one edit by hand, one power cut                 *)
(*   upload:   two targets, one rewrite of the file                        *)
(***************************************************************************)
EXTENDS Upload, PreferencesFile, MediaCache, TLC

ASSUME PreferencesFileAssumption
ASSUME UploadAssumption

VARIABLE scenario
suiteVars == <<cacheVars, fileVars, uploadVars, scenario>>

\* A component at rest is in one of its initial states.
SettingsParked == FileInit /\ cur = None
UploadParked == Init /\ native /\ focus.scope = CHOOSE t \in Targets : TRUE

SuiteInit ==
    /\ CacheInit
    /\ \/ scenario = "cache" /\ SettingsParked /\ UploadParked
       \/ scenario = "settings" /\ FileInit /\ UploadParked
       \/ scenario = "upload" /\ SettingsParked /\ Init

\* Processes, URLs and endpoints are told apart by nothing but their names.
FilesSymmetry ==
    Permutations(Helpers) \cup Permutations(Urls)
        \cup Permutations(Procs) \cup Permutations(Endpoints)

In(name) == scenario = name /\ UNCHANGED scenario

CacheStep ==
    In("cache") /\ CacheNext /\ UNCHANGED <<fileVars, uploadVars>>
SettingsStep ==
    In("settings") /\ FileNext /\ UNCHANGED <<cacheVars, uploadVars>>
UploadStep ==
    In("upload") /\ Next /\ UNCHANGED <<cacheVars, fileVars>>

SuiteSpec == SuiteInit /\ [][CacheStep \/ SettingsStep \/ UploadStep]_suiteVars
=============================================================================
