---------------------------- MODULE MCNodeDrain ----------------------------
(* Model-checking instance of NodeDrain. *)
EXTENDS NodeDrain

CONSTANTS srv, agt
=============================================================================
