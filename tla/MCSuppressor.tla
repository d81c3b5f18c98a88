---------------------------- MODULE MCSuppressor ----------------------------
(***************************************************************************)
(* Suppressor on small instances for TLC.  Fingerprints are                *)
(* interchangeable.                                                        *)
(***************************************************************************)
EXTENDS Suppressor, TLC

FpSymmetry == Permutations(Fp)

\* The instance is meant to have tables that are large enough.
ASSUME LargeTables == TablesLargeEnough
=============================================================================
