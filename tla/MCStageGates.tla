---------------------------- MODULE MCStageGates ----------------------------
(***************************************************************************)
(* StageGates for TLC.  Request threads are alike, and no property tells   *)
(* one from another.                                                       *)
(***************************************************************************)
EXTENDS StageGates, TLC

ClientSymmetry == Permutations(Clients)
=============================================================================
