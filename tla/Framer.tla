------------------------------- MODULE Framer -------------------------------
(***************************************************************************)
(* The CRLF framer (src/bend/frame.bend): the octets of a stream arrive in *)
(* chunks cut anywhere; between two chunks only the unfinished line and    *)
(* the drop flag are kept (actor.bend, ReadFr; session.bend, rem and       *)
(* drop).                                                                  *)
(***************************************************************************)
EXTENDS Naturals, SequencesExt

CONSTANTS
    CR, LF,
    Text,        \* the other octets
    LineMax,     \* LINE_OCTET_MAX (510)
    MaxOctets,   \* bound: octets of the stream
    MaxChunk     \* bound: octets of a chunk

FramerAssumption ==
    /\ CR # LF /\ {CR, LF} \cap Text = {}
    /\ {LineMax, MaxOctets, MaxChunk} \subseteq Nat

VARIABLES
    kept,        \* what is carried from chunk to chunk: rem and drop
    lines,       \* the lines handed on
    stream       \* every octet so far (history)

framerVars == <<kept, lines, stream>>

Octets == Text \cup {CR, LF}

-----------------------------------------------------------------------------
(* The walk over one chunk: FrSt *)

Emitted(st)  == [rem |-> <<>>, lines |-> Append(st.lines, st.rem), mode |-> "normal"]
Dropping(st) == [st EXCEPT !.rem = <<>>, !.mode = "drop"]

\* Faulty: the length is looked at before the CR.
StepOverFirst(st, b) ==
    CASE b = LF -> Emitted(st)
      [] b # LF /\ Len(st.rem) >= LineMax -> Dropping(st)
      [] b = CR /\ Len(st.rem) < LineMax -> [st EXCEPT !.mode = "aftercr"]
      [] OTHER -> [st EXCEPT !.rem = Append(@, b)]

\* step_normal: a held CR does not count against the length.
StepNormal(st, b) ==
    CASE b = LF -> Emitted(st)
      [] b = CR -> [st EXCEPT !.mode = "aftercr"]
      [] b \in Text /\ Len(st.rem) >= LineMax -> Dropping(st)
      [] OTHER -> [st EXCEPT !.rem = Append(@, b)]

StepAfter(st, b) == IF b = LF THEN Emitted(st) ELSE Dropping(st)

StepDropping(st, b) ==
    IF b = LF THEN [st EXCEPT !.mode = "normal"] ELSE st

Step(st, b) ==
    CASE st.mode = "normal"  -> StepNormal(st, b)
      [] st.mode = "aftercr" -> StepAfter(st, b)
      [] st.mode = "drop"    -> StepDropping(st, b)

Finish(st) ==
    [rem  |-> IF st.mode = "aftercr" THEN Append(st.rem, CR) ELSE st.rem,
     drop |-> st.mode = "drop"]

\* reopen: a CR at the end of the remainder waits for its LF.
Reopen(k) ==
    LET held == k.rem # <<>> /\ Last(k.rem) = CR
    IN  [rem   |-> IF held THEN Front(k.rem) ELSE k.rem,
         lines |-> <<>>,
         mode  |-> CASE k.drop -> "drop" [] ~k.drop /\ held -> "aftercr"
                     [] OTHER -> "normal"]

\* push_ex
Push(chunk) ==
    /\ Len(stream) + Len(chunk) <= MaxOctets
    /\ LET end == FoldLeft(Step, Reopen(kept), chunk)
       IN  kept' = Finish(end) /\ lines' = lines \o end.lines
    /\ stream' = stream \o chunk

Init == kept = [rem |-> <<>>, drop |-> FALSE] /\ lines = <<>> /\ stream = <<>>

Next == \E n \in 1 .. MaxChunk : \E chunk \in [1 .. n -> Octets] : Push(chunk)

FramerSpec == Init /\ [][Next]_framerVars

-----------------------------------------------------------------------------
(* What the framer promises *)

\* The pieces between the LFs of a stream, without what follows the last.
Pieces(octets) ==
    LET ends == SelectSeq([i \in DOMAIN octets |-> i], LAMBDA i : octets[i] = LF)
    IN  [i \in DOMAIN ends |->
            SubSeq(octets, IF i = 1 THEN 1 ELSE ends[i - 1] + 1, ends[i] - 1)]

\* A piece without the CR that ends it.
Payload(piece) ==
    IF piece # <<>> /\ Last(piece) = CR THEN Front(piece) ELSE piece

Legal(piece) ==
    CR \notin ToSet(Payload(piece)) /\ Len(Payload(piece)) <= LineMax

\* However the stream is cut into chunks, the lines handed on are its legal
\* lines: one ends at an LF or a CRLF, holds no bare CR and at most LineMax
\* octets; any other is dropped as a whole and the next one still comes
\* through.  What is carried over stays bounded.
LinesExact ==
    /\ LET legal == SelectSeq(Pieces(stream), Legal)
       IN  lines = [i \in DOMAIN legal |-> Payload(legal[i])]
    /\ Len(kept.rem) <= LineMax + 1
=============================================================================
