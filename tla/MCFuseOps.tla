----------------------------- MODULE MCFuseOps ------------------------------
(* Small instances of FuseOps for TLC.                                     *)
EXTENDS FuseOps, TLC

(* Names and versions are only compared, never ordered, and no run that    *)
(* uses this symmetry checks a liveness property.                          *)
Symmetry == Permutations(Name) \cup Permutations(Version)
=============================================================================
