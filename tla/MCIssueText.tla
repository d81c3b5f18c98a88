----------------------------- MODULE MCIssueText -----------------------------
(***************************************************************************)
(* IssueText on small instances for TLC: a short error, one that quotes    *)
(* Markdown with fences of its own, and one without a version that quotes  *)
(* a line no body has room for.                                            *)
(***************************************************************************)
EXTENDS IssueText

Quote(kind, val) == [kind |-> kind, val |-> val, quoted |-> TRUE]

Short == [version |-> 1, sections |-> << <<Quote("text", 0)>> >>]

Markdown ==
    [version |-> 2,
     sections |-> << <<Quote("info", 3), Quote("ticks", 3)>>, <<Quote("ticks", 4)>> >>]

Unversioned == [version |-> 0, sections |-> << <<Quote("text", 12)>> >>]

Errors == {Short, Markdown, Unversioned}

WorkerSymmetry == Permutations(Worker)
=============================================================================
