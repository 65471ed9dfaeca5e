---------------------------- MODULE MCOpsUsers ----------------------------
(***************************************************************************)
(* Instances of OpsUsers for TLC.                                          *)
(***************************************************************************)
EXTENDS OpsUsers, TLC

CONSTANTS admin, operator

OneRoleEach == {{admin}, {operator}}

Symmetry == Permutations(Worker) \cup Permutations(Id \ {Seed})
=============================================================================
