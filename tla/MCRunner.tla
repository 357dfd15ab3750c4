------------------------------ MODULE MCRunner ------------------------------
(* Model-checking instance of Runner. *)
EXTENDS Runner

CONSTANTS cmdA, cmdB, c1
=============================================================================
