---------------------------- MODULE OwnedObject ----------------------------
(***************************************************************************)
(* What the operator promises to the user of a custom resource whose       *)
(* object in OpenBao has an ID (docs/reference/deletion-and-ownership.md,  *)
(* decision 0008), without caches, versions, workers, retries or faults:   *)
(*                                                                         *)
(*  - the finalizer is put on before deletion begins and comes off during  *)
(*    deletion only, if the policy is Delete after the recorded object is  *)
(*    gone;                                                                *)
(*  - the ID in status is that of an object that exists or has existed,    *)
(*    and is given up only when that object is gone;                       *)
(*  - a resource that is being deleted gets no other ID and no finalizer.  *)
(*                                                                         *)
(* Users write and delete the resource at any time, and objects come and   *)
(* go in OpenBao.                                                          *)
(***************************************************************************)
CONSTANTS
    Ids,
    NoId

VARIABLES
    exists, deleting,   \* the resource
    guarded,            \* it has the operator's finalizer
    removes,            \* its deletion policy is Delete
    id,                 \* the ID in status
    state               \* of each object: "unused", "live" or "deleted"

resource == <<exists, deleting, guarded, removes, id>>
vars == <<exists, deleting, guarded, removes, id, state>>

Gone(i) == i # NoId => state[i] = "deleted"

Absent == exists = FALSE /\ deleting = FALSE /\ guarded = FALSE /\ removes = FALSE /\ id = NoId

Init == Absent /\ state = [i \in Ids |-> "unused"]

----------------------------------------------------------------------------
(* The user *)

Declare ==
    /\ ~exists
    /\ exists' = TRUE /\ deleting' = FALSE /\ guarded' = FALSE /\ id' = NoId
    /\ removes' \in BOOLEAN
    /\ UNCHANGED state

Amend ==
    /\ exists
    /\ removes' \in BOOLEAN
    /\ UNCHANGED <<exists, deleting, guarded, id, state>>

Terminate ==
    /\ exists /\ ~deleting
    /\ \/ deleting' = TRUE /\ UNCHANGED <<exists, guarded, removes, id>>
       \/ ~guarded /\ Absent'
    /\ UNCHANGED state

(* Somebody else's finalizer was the last. *)
Vanish ==
    /\ exists /\ deleting /\ ~guarded
    /\ Absent'
    /\ UNCHANGED state

----------------------------------------------------------------------------
(* The operator *)

Guard ==
    /\ exists /\ ~deleting
    /\ guarded' = TRUE
    /\ UNCHANGED <<exists, deleting, removes, id, state>>

Record(i) ==
    /\ exists /\ ~deleting
    /\ Gone(id)
    /\ i # NoId => state[i] # "unused"
    /\ id' = i
    /\ UNCHANGED <<exists, deleting, guarded, removes, state>>

Release ==
    /\ exists /\ deleting /\ guarded
    /\ removes => Gone(id)
    /\ \/ guarded' = FALSE /\ UNCHANGED <<exists, deleting, removes, id>>
       \/ Absent'
    /\ UNCHANGED state

----------------------------------------------------------------------------
(* OpenBao: an ID is used once. *)

Make(i) ==
    /\ state[i] = "unused" /\ state' = [state EXCEPT ![i] = "live"]
    /\ UNCHANGED resource

Destroy(i) ==
    /\ state[i] = "live" /\ state' = [state EXCEPT ![i] = "deleted"]
    /\ UNCHANGED resource

Next ==
    \/ Declare \/ Amend \/ Terminate \/ Vanish
    \/ Guard \/ (\E i \in Ids \cup {NoId} : Record(i)) \/ Release
    \/ \E i \in Ids : Make(i) \/ Destroy(i)

Spec == Init /\ [][Next]_vars
=============================================================================
