----------------------------- MODULE MCWakeups -----------------------------
(* Nets of resources for TLC. *)
EXTENDS Wakeups

None(n) == [o \in 1 .. n |-> {}]

(* A Secret that holds a token, its connection and a resource that only    *)
(* refers to a connection.  The other kinds of this sort have the same     *)
(* watches (WakeupsProofs!WatchesComplete).                                *)
Leaves == {[kind |-> <<"secret", "connection", "policy">>, refs |-> <<{}, {1}, {2}>>,
            into |-> <<0, 0, 0>>, lazy |-> None(3)]}

(* A Secret that is read to log in. *)
Logins == {[kind |-> <<"secret", "connection", "policy">>, refs |-> <<{}, {1}, {2}>>,
            into |-> <<0, 0, 0>>, lazy |-> <<{}, {1}, {}>>]}

(* An MFA method that waits for its own Secret, an alias of an entity and  *)
(* one of a group.                                                         *)
Aliases ==
    {[kind |-> <<"secret", "mfaMethod">>, refs |-> <<{}, {1}>>, into |-> <<0, 0>>, lazy |-> None(2)],
     [kind |-> <<"entity", "entityAlias">>, refs |-> <<{}, {1}>>, into |-> <<0, 0>>, lazy |-> None(2)],
     [kind |-> <<"group", "groupAlias">>, refs |-> <<{}, {1}>>, into |-> <<0, 0>>, lazy |-> None(2)]}

(* An entity, or a group, that a membership puts into a group. *)
Members ==
    {[kind |-> <<k, "group", "membership">>, refs |-> <<{}, {}, {1}>>, into |-> <<0, 0, 2>>,
      lazy |-> None(3)] : k \in {"entity", "group"}}

MCNets == Leaves \cup Logins \cup Aliases \cup Members

=============================================================================
