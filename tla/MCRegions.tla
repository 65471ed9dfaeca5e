----------------------------- MODULE MCRegions -----------------------------
(***************************************************************************)
(* Instances of Regions for TLC.                                           *)
(***************************************************************************)
EXTENDS Regions, TLC

Symmetry == Permutations(Worker) \cup Permutations(Region)
=============================================================================
