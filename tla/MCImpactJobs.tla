---------------------------- MODULE MCImpactJobs ----------------------------
(* The requests, and the ways an item is found, take the same steps.       *)
EXTENDS ImpactJobs, TLC

Interchangeable == Permutations(Requests) \cup Permutations(Ways)
=============================================================================
