------------------------------- MODULE Upload -------------------------------
(***************************************************************************)
(* A confirmed upload, from the warning on the screen to the URL in the    *)
(* chat: the consent of one session (upload.bend and its callers), the     *)
(* helper that reads and posts the file (src/ffi/upload_ffi.c or the       *)
(* program BIRC_UPLOAD_HELPER names), and the file, which others may       *)
(* rewrite meanwhile.                                                      *)
(***************************************************************************)
EXTENDS Naturals, Sequences

CONSTANTS
    Targets,     \* scopes: server, port and active buffer
    Paths,       \* local files
    BatchMax,    \* bound: paths of one /upload
    FileMax,     \* bound: chunks of a file
    Rewrites,    \* bound: rewrites of the file
    Warnings     \* bound: confirmations staged

UploadAssumption ==
    {BatchMax, FileMax, Rewrites, Warnings} \subseteq Nat

VARIABLES
    consent,    \* Idle, Confirm, Armed or Busy, with its request
    presented,  \* CompUpload.presented
    focus,      \* session_upload_scope, and whether it is online
    helper,     \* the running upload_run
    file,       \* the file as the helper's descriptor shows it
    native,     \* BIRC_UPLOAD_HELPER is "native"
    seen        \* what happened so far, for the properties

uploadVars == <<consent, presented, focus, helper, file, native, seen>>

Idle == [st |-> "idle"]
\* The number tells one warning from another with the same request.
Confirm(n, scope, paths) ==
    [st |-> "confirm", n |-> n, scope |-> scope, path |-> Head(paths), rest |-> Tail(paths)]
Pending(c) == c.st \in {"confirm", "armed"}
Off == [at |-> "off"]
NoOutput == ""
\* What another helper may print: a line with a URL of the service, or not.
Outputs == {NoOutput, "url\n"}

Init ==
    /\ consent = Idle /\ presented = FALSE
    /\ focus \in [scope : Targets, online : {TRUE}]
    /\ helper = Off /\ file = [version |-> 0, size |-> FileMax]
    /\ native \in BOOLEAN
    /\ seen = [staged |-> 0, painted |-> {}, left |-> FALSE, posted |-> 0]

-----------------------------------------------------------------------------
\* Consent: one event of the loop, then upload_stage.

\* Nothing is pending, or its target is still focused and online.
Holds(c, f) == c.st = "idle" \/ (f.online /\ c.scope = f.scope)

\* Faulty: a running upload that lost its scope keeps its permission.
RetainBusy(c, f) == IF Holds(c, f) \/ c.st = "busy" THEN c ELSE Idle

\* retain: permission is lost for good, the ownership of the helper is not.
Retain(c, f) ==
    CASE Holds(c, f) -> c
      [] ~Holds(c, f) /\ c.st = "busy" -> [c EXCEPT !.rest = << >>, !.allowed = FALSE]
      [] OTHER -> Idle

\* comp_set_upload: only the same Confirm stays presented.
SameWarning(a, b) ==
    a.st = "confirm" /\ b.st = "confirm" /\ a.scope = b.scope /\ a.path = b.path
Kept(p, before, after) == p /\ SameWarning(before, after)

Cancel(c) ==
    IF c.st = "busy" THEN [c EXCEPT !.rest = << >>, !.allowed = FALSE] ELSE Idle

\* session_upload_key: Escape goes first, F8 needs a presented warning.
Keyed(c, p, key) ==
    CASE key = "escape" /\ c.st # "idle" -> Cancel(c)
      [] key = "F8" /\ Pending(c) /\ p -> [c EXCEPT !.st = "armed"]
      [] OTHER -> c

\* session_upload_take: what the stage after every event does with the state.
Staged(c, f) ==
    LET kept == Retain(c, f)
    IN  IF kept.st = "armed"
        THEN [st |-> "busy", n |-> kept.n, scope |-> kept.scope, path |-> kept.path,
              rest |-> kept.rest, allowed |-> TRUE]
        ELSE kept

Started(c) == c.st = "armed"

\* upload_stage, with the state and the mark the event left.
Stage(c, p, f, h) ==
    LET kept == Retain(c, f)
    IN  /\ consent' = Staged(c, f)
        /\ presented' = Kept(p, c, consent')
        /\ focus' = f
        /\ helper' = IF Started(kept)
                     THEN [at |-> "open", n |-> kept.n, scope |-> kept.scope,
                           path |-> kept.path]
                     ELSE h

\* Has the running request lost its scope, its connection or its permission?
Broken(c, f) == c.st = "busy" /\ (~f.online \/ f.scope # c.scope)

\* Faulty: whatever is pending after the keys counts as shown.
SealedAfter(before, after) == after.st = "confirm"

\* session_upload_present: it was there before the frame and still is.
Sealed(before, after) == SameWarning(before, after)

\* A frame: paint, then the keys, then Enter (suppressed when a key was used).
Frame ==
    \E key \in {"escape", "F8", "enter", "other"}, scope \in Targets :
      LET f == [focus EXCEPT !.scope = scope]
          kept == Retain(consent, focus)
          keyed == Keyed(kept, Kept(presented, consent, kept), key)
          offers == key = "enter" /\ keyed.st = "idle" /\ focus.online
          done(c) ==
            /\ Stage(c, Sealed(consent, c), f, helper)
            /\ seen' = [seen EXCEPT
                 !.painted = IF consent.st = "confirm" THEN @ \cup {consent.n} ELSE @,
                 !.left = @ \/ Broken(c, f) \/ (key = "escape" /\ c.st = "busy"),
                 !.staged = IF offers THEN @ + 1 ELSE @]
      IN  /\ key # "other" => scope = focus.scope
          /\ IF offers
             THEN /\ seen.staged < Warnings
                  /\ \E k \in 1 .. BatchMax : \E paths \in [1 .. k -> Paths] :
                       done(Confirm(seen.staged + 1, focus.scope, paths))
             ELSE done(keyed)
          /\ UNCHANGED <<file, native>>

\* The connection changes, or a message from the server moves the focus.
Event ==
    \E f \in [scope : Targets, online : BOOLEAN] :
      /\ f # focus
      /\ Stage(consent, presented, f, helper)
      /\ seen' = [seen EXCEPT !.left = @ \/ Broken(consent, f)]
      /\ UNCHANGED <<file, native>>

\* response: exactly one line with a URL of the service.
Response(out) == IF out = "url\n" THEN "url" ELSE NoOutput

\* next and finish: the next file of the batch asks for its own key.
NextFile(c, staged) ==
    IF c.allowed /\ c.rest # << >> THEN Confirm(staged + 1, c.scope, c.rest) ELSE Idle

Eligible(c, f) == c.st = "busy" /\ c.allowed /\ f.online /\ c.scope = f.scope

\* UploadFetched: on_upload.
Fetched ==
    LET owned == consent.st = "busy" /\ consent.scope = helper.scope
                                     /\ consent.path = helper.path
        kept == Retain(consent, focus)
        url == IF Eligible(consent, focus) /\ helper.code = 0
               THEN Response(helper.out) ELSE NoOutput
        after == IF owned THEN NextFile(kept, seen.staged) ELSE consent
    IN  /\ helper.at = "done" /\ seen.staged < Warnings
        /\ Stage(after, Kept(presented, consent, after), focus, Off)
        /\ file' = [version |-> 0, size |-> FileMax]
        /\ seen' = [seen EXCEPT
             !.posted = IF owned /\ url # NoOutput THEN @ + 1 ELSE @,
             !.left = FALSE,
             !.staged = IF after.st = "confirm" /\ owned THEN @ + 1 ELSE @]
        /\ UNCHANGED native

-----------------------------------------------------------------------------
\* The helper: birc_upload_run.

\* goto done
Answered(h, code, out) ==
    [at |-> "done", scope |-> h.scope, path |-> h.path, code |-> code, out |-> out]

\* A TIME, IO, REPLY or USAGE error may end any step but the first.
HelperFail ==
    /\ helper.at \in {"open", "send", "check", "footer", "reply"}
    /\ helper' = Answered(helper, 5, NoOutput)
    /\ UNCHANGED <<consent, presented, focus, file, native, seen>>

\* birc_up_open with its stamp, the connection and the request with its length.
HelperOpen ==
    /\ helper.at = "open"
    /\ helper' = IF file.size = 0 THEN Answered(helper, 2, NoOutput)
                 ELSE [at |-> "send", scope |-> helper.scope, path |-> helper.path,
                       sent |-> {}, stamp |-> file, left |-> file.size, pos |-> 0]
    /\ UNCHANGED <<consent, presented, focus, file, native, seen>>

\* One chunk: the end of the file before the announced length is a change.
HelperSend ==
    /\ helper.at = "send"
    /\ helper' = IF helper.left = 0 THEN [helper EXCEPT !.at = "check"]
                 ELSE IF helper.pos >= file.size THEN Answered(helper, 4, NoOutput)
                 ELSE [helper EXCEPT !.left = @ - 1, !.pos = @ + 1,
                                     !.sent = @ \cup {file.version}]
    /\ UNCHANGED <<consent, presented, focus, file, native, seen>>

\* Faulty: only the size is compared.
StampSize(a, b) == a.size = b.size

\* birc_up_stamp_eq: size, modification and change time.
StampEq(a, b) == a = b

\* Nothing may follow the last byte and the stamp must still be the same; only
\* then the footer that completes the request is sent.
HelperCheck ==
    /\ helper.at = "check"
    /\ helper' = IF helper.pos < file.size \/ ~StampEq(helper.stamp, file)
                 THEN Answered(helper, 4, NoOutput) ELSE [helper EXCEPT !.at = "footer"]
    /\ UNCHANGED <<consent, presented, focus, file, native, seen>>

HelperFooter ==
    /\ helper.at = "footer"
    /\ helper' = [helper EXCEPT !.at = "reply"]
    /\ UNCHANGED <<consent, presented, focus, file, native, seen>>

\* birc_upload_checked_url: the line end is cut off, the rest must be a URL.
CheckedUrl(body) == IF body \in {"url", "url\n", "url\r\n"} THEN "url" ELSE NoOutput

HelperReply ==
    /\ helper.at = "reply"
    /\ \E body \in {"url", "url\n", "url\r\n", "other"} :
         helper' = IF CheckedUrl(body) = NoOutput THEN Answered(helper, 5, NoOutput)
                   ELSE Answered(helper, 0, CheckedUrl(body))
    /\ UNCHANGED <<consent, presented, focus, file, native, seen>>

\* A program named by BIRC_UPLOAD_HELPER ends with a code and an output.
OtherHelper ==
    /\ ~native /\ helper.at = "open"
    /\ \E code \in {0, 5}, out \in Outputs : helper' = Answered(helper, code, out)
    /\ UNCHANGED <<consent, presented, focus, file, native, seen>>

\* Somebody rewrites, cuts or extends the file in place.
Rewrite ==
    /\ helper.at # "off" /\ file.version < Rewrites
    /\ \E size \in 0 .. FileMax : file' = [version |-> file.version + 1, size |-> size]
    /\ UNCHANGED <<consent, presented, focus, helper, native, seen>>

HelperNext ==
    \/ OtherHelper
    \/ /\ native
       /\ \/ HelperFail \/ HelperOpen \/ HelperSend \/ HelperCheck
          \/ HelperFooter \/ HelperReply

Next == Frame \/ Event \/ Fetched \/ HelperNext \/ Rewrite

Spec == Init /\ [][Next]_uploadVars

-----------------------------------------------------------------------------

\* A helper starts only for a warning that a completed frame had painted before
\* the frame with the key, one warning per file, and only while none runs.
StartWarned ==
    [][helper'.at = "open" /\ helper'.at # helper.at =>
         /\ helper.at = "off"
         /\ helper'.n \in seen.painted]_uploadVars

\* A URL is sent only for a request whose target stayed focused and online,
\* without Escape, from its start to its end.
PostedUnbroken ==
    [][seen'.posted > seen.posted => ~seen.left /\ helper.scope = focus.scope]_uploadVars

\* The request is completed only with the bytes of the one version of the file
\* that was opened.
WholeVersion ==
    helper.at \in {"footer", "reply"} =>
        helper.sent = {helper.stamp.version} /\ helper.pos = helper.stamp.size

\* README.md:528: "A successful URL is sent as ordinary IRC text".
SuccessPosted ==
    [][helper.at = "done" /\ helper'.at # "done" /\ helper.code = 0 /\ helper.out # NoOutput
         /\ Eligible(consent, focus) => seen'.posted > seen.posted]_uploadVars
=============================================================================
