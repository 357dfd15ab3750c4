---------------------------- MODULE MCSyncClient ----------------------------
(* Model-checking instance of SyncClient, and of Store, which it extends. *)
EXTENDS SyncClient, TLC

CONSTANTS k1, k2, v1, v2, c1, c2, ui

Sym == Permutations({k1, k2}) \cup Permutations({v1, v2}) \cup Permutations({c1, c2})
=============================================================================
