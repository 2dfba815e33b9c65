------------------------- MODULE MCGroupMembership -------------------------
(* GroupMembership for TLC. *)
EXTENDS GroupMembership

CONSTANT target

MCFirstId == [t \in {target} |-> 1]
=============================================================================
