---------------------------- MODULE MCConductor ----------------------------
(* The daily goal taken twice: test run and repair, and both again.        *)
EXTENDS Conductor

Daily == <<"run", "healing", "run", "healing">>
=============================================================================
