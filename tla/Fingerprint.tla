------------------------------ MODULE Fingerprint ------------------------------
(***************************************************************************)
(* fingerprint.py: what makes two errors the same.                         *)
(*                                                                         *)
(* A line of a stack trace is known by its kind:                           *)
(*   blank, preamble   as _PREAMBLE has them: "Traceback (most recent call *)
(*                     last)", "Caused by", "During handling of", ...      *)
(*   file              a Python frame, File "...", line n, in f            *)
(*   at                a frame of a runtime that prints the innermost one  *)
(*                     first                                               *)
(*   call              a source excerpt that reads as a frame: "  total()" *)
(*   header            the exception's type and message                    *)
(* by what it names, and by its detail: what differs from release to       *)
(* release in a frame (line numbers, build paths, addresses) and from      *)
(* occurrence to occurrence in a message (quoted values).  The digest is   *)
(* as good as its three inputs.                                            *)
(***************************************************************************)
EXTENDS Integers, Sequences, FiniteSetsExt

Text(kind, names, detail) == [kind |-> kind, names |-> names, detail |-> detail]

Nothing == "nothing"

\* The details a frame may have; a message's may be anything.  Normalization
\* of a frame drops them, but not what is quoted in a header.
NormalizeFrame(line) ==
    IF line.kind = "header" THEN line ELSE [line EXCEPT !.detail = Nothing]

NormalizeMessage(line) == [line EXCEPT !.detail = Nothing]

Lines(trace, kinds) == {k \in DOMAIN trace : trace[k].kind \in kinds}

Candidates(trace) == DOMAIN trace \ Lines(trace, {"blank", "preamble"})

\* A bug to be caught: version 1, the first frame whatever the runtime.
TopFrameOfV1(trace) ==
    LET frames == Lines(trace, {"file", "at", "call"})
    IN  trace[Min(IF frames # {} THEN frames ELSE Candidates(trace))]

\* The last File line; else the first line with any frame marker; else the
\* first line left.
TopFrame(trace) ==
    LET python == Lines(trace, {"file"})
        marked == Lines(trace, {"at", "call"})
    IN  IF python # {} THEN trace[Max(python)]
        ELSE IF marked # {} THEN trace[Min(marked)]
        ELSE trace[Min(Candidates(trace))]

\* fingerprint_parts; an event is [service, type, trace, message].
Parts(event) ==
    LET framed == Candidates(event.trace) # {}
    IN  [service |-> event.service,
         type    |-> event.type,
         mode    |-> IF framed THEN "frame" ELSE "message",
         site    |-> IF framed THEN NormalizeFrame(TopFrame(event.trace))
                     ELSE NormalizeMessage(event.message)]
=============================================================================
