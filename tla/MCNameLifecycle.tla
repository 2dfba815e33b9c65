-------------------------- MODULE MCNameLifecycle --------------------------
(* NameLifecycle for TLC: three configurations of two names. *)
EXTENDS NameLifecycle

CONSTANTS a, b, c, n1, n2

(* b is what enabling a mount for a gives: they differ in what only a tune *)
(* sets.  c points at the other name and has another type.                 *)
MCPathOf == [x \in {a, b, c} |-> IF x = c THEN n2 ELSE n1]
MCFixedOf == [x \in {a, b, c} |-> IF x = c THEN "secret" ELSE "auth"]
MCSeenOf == MCFixedOf
MCBareOf == [x \in {a, b, c} |-> IF x = a THEN b ELSE x]
=============================================================================
