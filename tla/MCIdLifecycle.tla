--------------------------- MODULE MCIdLifecycle ---------------------------
(* IdLifecycle for TLC. *)
EXTENDS IdLifecycle, TLC

(* IDs and configurations are only compared. *)
IdSymmetry == Permutations(Bindings) \cup Permutations(Configs)
=============================================================================
