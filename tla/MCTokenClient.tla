--------------------------- MODULE MCTokenClient ---------------------------
(* TokenClient for TLC. *)
EXTENDS TokenClient, TLC

CONSTANTS c1, c2, t1, t2, t3, t4

(* No definition tells callers or tokens apart. *)
Symmetry == Permutations(Callers) \cup Permutations(Tokens)
=============================================================================
