------------------------ MODULE MCConnectionClients ------------------------
(* ConnectionClients for TLC. *)
EXTENDS ConnectionClients

(* A spec that is complete except for what sets it apart. *)
Base == [dynamic |-> TRUE, root |-> TRUE, bundled |-> TRUE, valid |-> TRUE]

MCSettings ==
    {Base, [Base EXCEPT !.dynamic = FALSE, !.bundled = FALSE],
     [Base EXCEPT !.root = FALSE, !.bundled = FALSE], [Base EXCEPT !.valid = FALSE]}
=============================================================================
