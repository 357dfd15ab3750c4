----------------------------- MODULE MCFileStore -----------------------------
(* Model-checking instance of FileStore. *)
EXTENDS FileStore, TLC

CONSTANTS s1, s2, z, x, c1, r1

Sym == Permutations({s1, s2})
=============================================================================
