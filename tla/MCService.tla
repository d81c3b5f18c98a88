----------------------------- MODULE MCService -----------------------------
(***************************************************************************)
(* Service on small instances for TLC.  The collector exports one or two   *)
(* errors at a time, some of which cannot be fingerprinted, and once in a  *)
(* while what the service cannot read.                                     *)
(***************************************************************************)
EXTENDS Service

Exports ==
    [errors : UNION {[1..n -> Error] : n \in 1..2}, defect : {Sound}] \cup
    [errors : {<<CHOOSE f \in Routed : TRUE>>}, defect : {"malformed"}]
=============================================================================
