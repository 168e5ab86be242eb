--------------------------- MODULE MCBackendTests ---------------------------
(* Instances of BackendTests for TLC. *)
EXTENDS BackendTests

CONSTANTS t1, t2, j1
MCOwner == [j \in Jobs |-> IF j = j1 THEN t1 ELSE t2]
=============================================================================
