------------------------------ MODULE MCComments ------------------------------
(***************************************************************************)
(* CommentBudget on small instances for TLC.  Issues are interchangeable,  *)
(* and so are workers.                                                     *)
(***************************************************************************)
EXTENDS CommentBudget, TLC

Symmetry == Permutations(Fp) \cup Permutations(Worker)

\* The instance is meant to have a table that is large enough.
ASSUME LargeTable == TableLargeEnough
=============================================================================
