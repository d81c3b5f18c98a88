----------------------------- MODULE MCContext -----------------------------
(***************************************************************************)
(* Context on a small instance for TLC: each trace in an encoding of its   *)
(* own, lines outside of any trace, blank records, and an error in each of *)
(* the ways to be one.                                                     *)
(***************************************************************************)
EXTENDS Context

CONSTANTS t1, t2, t3

Line(t, form) ==
    [encoding |-> "json", trace |-> t, id |-> form, level |-> "info", severity |-> "number",
     exception |-> FALSE, body |-> "said"]

Json ==
    {Line(t1, "plain"), Line(t2, "upper"), Line(t3, "base64"), Line(Unset, "plain"),
     [Line(t2, "plain") EXCEPT !.body = "blank"],
     [Line(t3, "malformed") EXCEPT !.severity = "junk"],
     [Line(t1, "base64") EXCEPT !.level = "error", !.severity = "text"],
     [Line(t2, "plain") EXCEPT !.level = "error", !.severity = "name", !.body = "blank"],
     [Line(Unset, "plain") EXCEPT !.exception = TRUE]}

Protobuf ==
    {[Line(t, "plain") EXCEPT !.encoding = "protobuf"] : t \in {t1, t2, Unset}} \cup
    {[Line(t3, "plain") EXCEPT !.encoding = "protobuf", !.level = "error", !.severity = "text"]}

Records == Json \cup Protobuf
=============================================================================
