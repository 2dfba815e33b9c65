--------------------------- MODULE MCDesiredState ---------------------------
(* Instances of DesiredState for TLC. *)
EXTENDS DesiredState

MCAllKinds == DOMAIN Schema
MCSpecLists == {<<>>, <<0>>, <<1>>, <<2, 1>>, <<1, -1>>, <<2, 2>>}
MCBaoLists == {<<>>, <<1>>, <<2, 1>>}

=============================================================================
