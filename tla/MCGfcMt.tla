------------------------------ MODULE MCGfcMt -------------------------------
(* Instances of GfcMt for TLC.                                             *)
EXTENDS GfcMt, TLC

\* Callers and jobs are interchangeable (safety properties only).
Symmetry == Permutations(Callers) \cup Permutations(Jobs)
=============================================================================
