---------------------------- MODULE IdLifecycle ----------------------------
(***************************************************************************)
(* The reconcilers whose resource is bound to an OpenBao object by a       *)
(* stable ID in status: OpenBaoEntity, OpenBaoEntityAlias, OpenBaoGroup,   *)
(* OpenBaoGroupAlias and OpenBaoPersona.  One resource of one kind, its    *)
(* worker with one step per OpenBao call, and the OpenBao store, in which  *)
(* other administrators work as well.                                      *)
(*                                                                         *)
(* Simplifications.                                                        *)
(*  - an object is its name ("own", the one the resource stands for, or    *)
(*    "other"), one configuration and the party that made it; an alias's   *)
(*    name stands for its name and mount accessor, a persona's for its     *)
(*    name, entity and mount accessor.                                     *)
(*  - listing and reading the candidates of an alias is one step.          *)
(*  - the memberships of a group are left to another module.               *)
(*  - an alias's configuration is the ID of its parent, which is taken to   *)
(*    change only with the spec.                                           *)
(*  - a parent group that is not external (InvalidGroupType) is a parent   *)
(*    that is not ready: both are reported and tried again.                *)
(*  - an object that OpenBao answers with has an ID.                       *)
(***************************************************************************)
EXTENDS ControllerRuntime

CONSTANTS
    Kinds         \* the kinds this instance explores

VARIABLES
    kind,         \* the kind of the resource, never changed
    store,        \* OpenBao's objects by ID
    foreignHit,   \* the operator has changed or deleted an object that it
                  \* did not make (history)
    raced,        \* a create met a name taken since the lookup and OpenBao
                  \* answered by updating its holder (history)
    applied       \* during this Reconcile the bound object has had the
                  \* desired configuration (history)

baoVars == <<store, foreignHit, raced>>
vars == <<rtVars, kind, store, foreignHit, raced, applied>>

(* The IDs OpenBao hands out. *)
Ids == Bindings
NoId == Unbound

KindNames == {"Entity", "EntityAlias", "Group", "GroupAlias", "Persona"}
ASSUME KindsAssumption == Kinds # {} /\ Kinds \subseteq KindNames

----------------------------------------------------------------------------
(* What sets the kinds apart.                                              *)
(*   unique      OpenBao keeps one object per name and finds it by name;   *)
(*               the others are found by a scan of all IDs                 *)
(*   ambiguity   the scan refuses several matches (else the first wins)    *)
(*   checksFirst a foreign name is refused before the update               *)
(*   checksLast  a foreign name is refused after the update                *)
(*   renames     the update carries the name                               *)
(*   rereads     the object is read again after an update                  *)
(*   parent      a ready parent resource is required                       *)

EntityTraits ==
    [unique |-> TRUE, ambiguity |-> FALSE, checksFirst |-> FALSE, checksLast |-> TRUE,
     renames |-> TRUE, rereads |-> TRUE, parent |-> FALSE]

EntityAliasTraits ==
    [unique |-> FALSE, ambiguity |-> TRUE, checksFirst |-> TRUE, checksLast |-> TRUE,
     renames |-> FALSE, rereads |-> TRUE, parent |-> TRUE]

GroupTraits ==
    [unique |-> TRUE, ambiguity |-> FALSE, checksFirst |-> TRUE, checksLast |-> FALSE,
     renames |-> TRUE, rereads |-> TRUE, parent |-> FALSE]

GroupAliasTraits ==
    [unique |-> FALSE, ambiguity |-> FALSE, checksFirst |-> TRUE, checksLast |-> FALSE,
     renames |-> TRUE, rereads |-> TRUE, parent |-> TRUE]

PersonaTraits ==
    [unique |-> FALSE, ambiguity |-> FALSE, checksFirst |-> FALSE, checksLast |-> FALSE,
     renames |-> TRUE, rereads |-> FALSE, parent |-> FALSE]

Traits ==
    CASE kind = "Entity" -> EntityTraits
      [] kind = "EntityAlias" -> EntityAliasTraits
      [] kind = "Group" -> GroupTraits
      [] kind = "GroupAlias" -> GroupAliasTraits
      [] kind = "Persona" -> PersonaTraits

----------------------------------------------------------------------------
(* OpenBao *)

Objects == [state : {"unused", "live", "deleted"}, name : {"own", "other"},
            cfg : Configs \cup {NoConfig}, maker : {"operator", "foreign"}]

Unused == [state |-> "unused", name |-> "other", cfg |-> NoConfig, maker |-> "foreign"]

Made(w, m) == [state |-> "live", name |-> "own", cfg |-> w, maker |-> m]
Destroyed(o) == [o EXCEPT !.state = "deleted"]
Configured(o, w) == [o EXCEPT !.cfg = w]
Renamed(o, n) == [o EXCEPT !.name = n]

Put(i, o) == store' = [store EXCEPT ![i] = o]

Live(i) == store[i].state = "live"

(* The live objects that carry the resource's name. *)
Named == {i \in Ids : Live(i) /\ store[i].name = "own"}

(* OpenBao lets an object take the name. *)
NameFree == Traits.unique => Named = {}

(* The object is what the resource asks for. *)
Matches(o, c) == o.name = "own" /\ o.cfg = c.want

(* A call of the operator changes or deletes object i. *)
Hit(i) == foreignHit' = (foreignHit \/ store[i].maker = "foreign")

(* OpenBao does not serve the request. *)
Unavailable == Spend /\ UNCHANGED <<kubeVars, baoVars, copy>>

TypeOK ==
    /\ RuntimeTypeOK
    /\ kind \in Kinds
    /\ store \in [Ids -> Objects]
    /\ foreignHit \in BOOLEAN
    /\ raced \in BOOLEAN
    /\ applied \in BOOLEAN

Init ==
    /\ RuntimeInit
    /\ kind \in Kinds
    /\ store = [i \in Ids |-> Unused]
    /\ foreignHit = FALSE
    /\ raced = FALSE
    /\ applied = FALSE

----------------------------------------------------------------------------
(* Reconcile of a resource that is not being deleted *)

DepsReady == deps = "ready" \/ (deps = "noParent" /\ ~Traits.parent)

(* resolveConnection, the parent, clientFor, and the branch acquire takes. *)
\* Mutant: the object is looked up by name although an ID is recorded.
ResolveByName ==
    /\ pc = "resolve"
    /\ \/ ~DepsReady /\ Fail("DependencyNotReady")
       \/ DepsReady /\ Goto("lookup")
    /\ UNCHANGED <<kubeVars, envVars, copy, kind, baoVars, applied>>
Resolve ==
    /\ pc = "resolve"
    /\ \/ ~DepsReady /\ Fail("DependencyNotReady")
       \/ DepsReady /\ copy.bind # NoId /\ Goto("getById")
       \/ DepsReady /\ copy.bind = NoId /\ Goto("lookup")
    /\ UNCHANGED <<kubeVars, envVars, copy, kind, baoVars, applied>>

(* The object with ID i was read: identity check and comparison. *)
\* Mutant: the comparison is skipped.
ObserveUnread(i) == applied' = applied /\ Goto("ready")
Observe(i) ==
    /\ applied' = (applied \/ store[i].cfg = copy.want)
    /\ \/ Traits.checksFirst /\ store[i].name # "own" /\ Fail("IdentityMismatch")
       \/ /\ ~(Traits.checksFirst /\ store[i].name # "own")
          /\ \/ Matches(store[i], copy) /\ Goto("ready")
             \/ ~Matches(store[i], copy) /\ Goto("update")

(* acquire, bound: read by ID; a missing object clears the ID. *)
GetById ==
    /\ pc = "getById"
    /\ \/ /\ Live(copy.bind) /\ Observe(copy.bind)
          /\ UNCHANGED <<kubeVars, baoVars, copy, budget>>
       \/ /\ ~Live(copy.bind)
          /\ copy' = WithBinding(copy, NoId)
          /\ Goto("lookup")
          /\ UNCHANGED <<kubeVars, baoVars, budget, applied>>
       \/ Unavailable /\ Fail("AcquireFailed") /\ UNCHANGED applied
    /\ UNCHANGED <<deps, creates, asked, kind>>

(* acquire, unbound: look for an object of that name and apply the          *)
(* creation policy.                                                         *)
Lookup ==
    /\ pc = "lookup"
    /\ \/ /\ Named = {}
          /\ IF AllowsCreation(copy.create) THEN Goto("create") ELSE Fail("NotAllowed")
          /\ UNCHANGED <<kubeVars, baoVars, copy, budget, applied>>
       \/ /\ Traits.ambiguity /\ Cardinality(Named) > 1
          /\ Fail("Ambiguous")
          /\ UNCHANGED <<kubeVars, baoVars, copy, budget, applied>>
       \/ /\ ~(Traits.ambiguity /\ Cardinality(Named) > 1)
          /\ Named # {} /\ ~AllowsAdoption(copy.create)
          /\ Fail("AlreadyExists")
          /\ UNCHANGED <<kubeVars, baoVars, copy, budget, applied>>
       \/ /\ ~(Traits.ambiguity /\ Cardinality(Named) > 1)
          /\ AllowsAdoption(copy.create)
          /\ \E i \in Named :
               /\ copy' = WithBinding(copy, i)
               /\ Observe(i)
          /\ UNCHANGED <<kubeVars, baoVars, budget>>
       \/ Unavailable /\ Fail("AcquireFailed") /\ UNCHANGED applied
    /\ UNCHANGED <<deps, creates, asked, kind>>

(* acquire: the create call.  Its answer may be lost after it took effect. *)
(* A name taken since the lookup makes OpenBao refuse, or update the       *)
(* holder of the name: nothing in the operator excludes either answer.     *)
Create ==
    /\ pc = "create"
    /\ \/ /\ NameFree
          /\ \E i \in Ids :
               /\ store[i].state = "unused"
               /\ Put(i, Made(copy.want, "operator"))
               /\ \/ /\ copy' = WithBinding(copy, i)
                     /\ Goto("readBack") /\ UNCHANGED budget
                  \/ Spend /\ Fail("AcquireFailed") /\ UNCHANGED copy
          /\ UNCHANGED <<kubeVars, foreignHit, raced, applied>>
       \/ /\ ~NameFree
          /\ Fail("CreateRefused")
          /\ UNCHANGED <<kubeVars, baoVars, copy, budget, applied>>
       \/ /\ ~NameFree /\ raced' = TRUE
          /\ \E i \in Named :
               /\ Put(i, Configured(store[i], copy.want))
               /\ Hit(i)
               /\ copy' = WithBinding(copy, i)
          /\ Goto("readBack")
          /\ UNCHANGED <<kubeVars, budget, applied>>
       \/ Unavailable /\ Fail("AcquireFailed") /\ UNCHANGED applied
    /\ UNCHANGED <<deps, creates, asked, kind>>

(* acquire: the read that follows a create. *)
ReadBack ==
    /\ pc = "readBack"
    /\ \/ /\ Live(copy.bind) /\ Observe(copy.bind)
          /\ UNCHANGED <<kubeVars, baoVars, copy, budget>>
       \/ /\ ~Live(copy.bind) /\ Fail("AcquireNotFound")
          /\ UNCHANGED <<kubeVars, baoVars, copy, budget, applied>>
       \/ Unavailable /\ Fail("AcquireFailed") /\ UNCHANGED applied
    /\ UNCHANGED <<deps, creates, asked, kind>>

(* The object as the update call leaves it. *)
Updated(o) == Configured(IF Traits.renames THEN Renamed(o, "own") ELSE o, copy.want)

(* OpenBao refuses an update that would give two objects one name. *)
UpdateRefused(i) == Traits.renames /\ Traits.unique /\ Named \ {i} # {}

(* The update call.  Its answer may be lost after it took effect. *)
Update ==
    /\ pc = "update"
    /\ LET i == copy.bind IN
       \/ /\ Live(i) /\ ~UpdateRefused(i)
          /\ Put(i, Updated(store[i]))
          /\ Hit(i) /\ UNCHANGED raced
          /\ applied' = TRUE
          /\ \/ /\ Goto(IF Traits.rereads THEN "reread" ELSE "ready")
                /\ UNCHANGED budget
             \/ Spend /\ Fail("UpdateFailed")
          /\ UNCHANGED <<kubeVars, copy>>
       \/ /\ Live(i) /\ UpdateRefused(i) /\ Fail("UpdateRefused")
          /\ UNCHANGED <<kubeVars, baoVars, copy, budget, applied>>
       \/ /\ ~Live(i) /\ Fail("UpdateNotFound")
          /\ UNCHANGED <<kubeVars, baoVars, copy, budget, applied>>
       \/ Unavailable /\ Fail("UpdateFailed") /\ UNCHANGED applied
    /\ UNCHANGED <<deps, creates, asked, kind>>

(* The read that follows an update, and the identity check after it. *)
Reread ==
    /\ pc = "reread"
    /\ \/ /\ Live(copy.bind)
          /\ IF Traits.checksLast /\ store[copy.bind].name # "own"
               THEN Fail("IdentityMismatch") ELSE Goto("ready")
          /\ UNCHANGED <<kubeVars, baoVars, copy, budget>>
       \/ /\ ~Live(copy.bind) /\ Fail("ReadNotFound")
          /\ UNCHANGED <<kubeVars, baoVars, copy, budget>>
       \/ Unavailable /\ Fail("ReadFailed")
    /\ UNCHANGED <<deps, creates, asked, kind, applied>>

----------------------------------------------------------------------------
(* reconcileDeletion *)

(* The policy and the binding decide whether anything is to be cleaned up, *)
(* then the connection is resolved and a client built.                     *)
\* Mutant: the finalizer is released when the connection is gone.
DecideDeletionGivesUp ==
    /\ pc = "delete"
    /\ \/ (~IsDelete(copy.del) \/ copy.bind = NoId \/ ~ClientAvailable) /\ Goto("unfinalize")
       \/ IsDelete(copy.del) /\ copy.bind # NoId /\ ClientAvailable /\ Goto("destroy")
    /\ UNCHANGED <<kubeVars, envVars, copy, kind, baoVars, applied>>
DecideDeletion ==
    /\ pc = "delete"
    /\ \/ (~IsDelete(copy.del) \/ copy.bind = NoId) /\ Goto("unfinalize")
       \/ /\ IsDelete(copy.del) /\ copy.bind # NoId
          /\ IF ClientAvailable
               THEN Goto("destroy")
               ELSE /\ pc' = "cleanup" /\ tag' = "CleanupDependencyUnavailable"
                    /\ UNCHANGED <<queued, before, fresh>>
    /\ UNCHANGED <<kubeVars, envVars, copy, kind, baoVars, applied>>

(* The delete call.  An absent object counts as deleted. *)
Destroy ==
    /\ pc = "destroy"
    /\ \/ /\ Live(copy.bind)
          /\ Put(copy.bind, Destroyed(store[copy.bind]))
          /\ Hit(copy.bind) /\ UNCHANGED raced
          /\ \/ Goto("unfinalize") /\ UNCHANGED budget
             \/ /\ Spend /\ pc' = "cleanup" /\ tag' = "CleanupFailed"
                /\ UNCHANGED <<queued, before, fresh>>
          /\ UNCHANGED <<kubeVars, copy>>
       \/ /\ ~Live(copy.bind) /\ Goto("unfinalize")
          /\ UNCHANGED <<kubeVars, baoVars, copy, budget>>
       \/ /\ Unavailable /\ pc' = "cleanup" /\ tag' = "CleanupFailed"
          /\ UNCHANGED <<queued, before, fresh>>
    /\ UNCHANGED <<deps, creates, asked, kind, applied>>

----------------------------------------------------------------------------
(* Other administrators of OpenBao *)

ForeignCreate ==
    /\ NameFree /\ Spend
    /\ \E i \in Ids, c \in Configs :
         /\ store[i].state = "unused"
         /\ Put(i, Made(c, "foreign"))
    /\ UNCHANGED <<kubeVars, queued, workerVars, deps, creates, asked, kind, foreignHit, raced, applied>>

ForeignChange ==
    /\ Spend
    /\ \E i \in Ids :
         /\ Live(i)
         /\ \/ Put(i, Destroyed(store[i]))
            \/ \E c \in Configs \ {store[i].cfg} : Put(i, Configured(store[i], c))
            \/ store[i].name = "own" /\ Put(i, Renamed(store[i], "other"))
            \/ store[i].name = "other" /\ NameFree /\ Put(i, Renamed(store[i], "own"))
    /\ UNCHANGED <<kubeVars, queued, workerVars, deps, creates, asked, kind, foreignHit, raced, applied>>

----------------------------------------------------------------------------
RestOfBao == <<kind, baoVars>>

Worker ==
    \/ Dequeue /\ applied' = FALSE /\ UNCHANGED RestOfBao
    \/ EnsureFinalizer /\ UNCHANGED <<RestOfBao, applied>>
    \/ Resolve \/ GetById \/ Lookup \/ Create \/ ReadBack \/ Update \/ Reread
    \/ RecordReady /\ applied' = FALSE /\ UNCHANGED RestOfBao
    \/ ReportFailure /\ applied' = FALSE /\ UNCHANGED RestOfBao
    \/ DecideDeletion \/ Destroy
    \/ RecordCleanupFailure /\ UNCHANGED <<RestOfBao, applied>>
    \/ RemoveFinalizer /\ UNCHANGED <<RestOfBao, applied>>

Environment ==
    \/ UserCreate /\ UNCHANGED <<RestOfBao, applied>>
    \/ UserEdit /\ UNCHANGED <<RestOfBao, applied>>
    \/ UserDelete /\ UNCHANGED <<RestOfBao, applied>>
    \/ ReleaseOther /\ UNCHANGED <<RestOfBao, applied>>
    \/ ChangeDeps /\ (deps' = "noParent" => Traits.parent) /\ UNCHANGED <<RestOfBao, applied>>
    \/ Crash /\ applied' = FALSE /\ UNCHANGED RestOfBao
    \/ ForeignCreate \/ ForeignChange

Next == Worker \/ Environment \/ (Sync /\ UNCHANGED <<RestOfBao, applied>>)

Spec == Init /\ [][Next]_vars

(* The worker goroutine and the watch keep running; users, administrators  *)
(* and faults owe nothing.                                                 *)
FairSpec ==
    /\ Spec
    /\ WF_vars(Worker)
    /\ WF_vars(Sync /\ UNCHANGED <<RestOfBao, applied>>)
----------------------------------------------------------------------------
(* Properties *)

(* Ownership (docs/reference/deletion-and-ownership.md:3-15): an object    *)
(* made by somebody else is never changed or deleted unless some version   *)
(* of the spec asked for adoption, whatever happened to the resource, to   *)
(* its ID and to the objects of that name before.  The one way around it   *)
(* is a name taken between the lookup and a create that OpenBao does not   *)
(* refuse.                                                                 *)
NoForeignMutation == foreignHit => asked \/ raced

(* ensureFinalizer comes first (deletion-and-ownership.md:34): when the    *)
(* worker is about to create or update an object for a Delete-policy       *)
(* resource, the API server holds the finalizer, however stale the copy.   *)
FinalizerBeforeMutation ==
    pc \in {"create", "update"} /\ IsDelete(copy.del) => server.exists /\ server.fin

(* The step takes the operator's finalizer off the stored resource. *)
Releases == server.exists /\ server.fin /\ ~(server'.exists /\ server'.fin)

(* reconcileDeletion, removeFinalizer: a Delete-policy resource that has   *)
(* recorded an ID gives up its finalizer only when no object has that ID   *)
(* any more, also when the connection, its credentials or answers were     *)
(* lost on the way.                                                        *)
CleanupBeforeRelease ==
    [][Releases /\ IsDelete(server.del) /\ server.bind # NoId
         => store'[server.bind].state # "live"]_vars

(* acquire: a recorded ID is dropped or replaced only when no object has   *)
(* it (docs/crds/openbao-entity.md:26-28), never because of an error, a    *)
(* rename or a replacement of the same name.                               *)
BindingIsStable ==
    [][server.exists /\ server'.exists /\ server.bind # NoId
         /\ server'.bind # server.bind => ~Live(server.bind)]_vars

(* markReady and updateStatusIfChanged (status-and-conditions.md:7): the   *)
(* status that says Reconciled for a generation is written only by a       *)
(* Reconcile in which the recorded object had that generation's            *)
(* configuration.                                                          *)
ReadyMeansApplied ==
    [][server'.exists /\ server'.ready.tag = "Reconciled"
         /\ <<server'.bind, server'.ready>> # <<server.bind, server.ready>>
         => /\ applied
            /\ server'.bind = copy.bind /\ server'.want = copy.want
            /\ server'.ready.gen = server'.gen]_vars

(* Decision 0008: once the connection can be used for good, a terminating  *)
(* resource loses its finalizer.                                           *)
CleanupCompletes ==
    <>[]ClientAvailable
      => (server.exists /\ server.deleting /\ server.fin) ~> ~(server.exists /\ server.fin)

(* What only a change of the spec or of OpenBao can resolve. *)
NeedsAttention == {"AlreadyExists", "NotAllowed", "Ambiguous", "CreateRefused",
                   "IdentityMismatch", "UpdateRefused"}

(* Reconcile retries: once the dependencies stay ready, a resource ends up *)
(* Ready for its current generation, or with a refusal that needs a        *)
(* decision; a transient error never sticks.                               *)
Converges ==
    <>[]DepsReady
      => <>[](server.exists /\ ~server.deleting
                => server.ready = [tag |-> "Reconciled", gen |-> server.gen]
                   \/ server.ready.tag \in NeedsAttention)

(* Drift detection: once the dependencies stay ready and others leave      *)
(* OpenBao alone, a Ready resource's object exists under its ID with the   *)
(* name and the configuration the spec asks for.                           *)
DriftIsRepaired ==
    <>[]DepsReady
      => <>[](server.exists /\ ~server.deleting
                /\ server.ready = [tag |-> "Reconciled", gen |-> server.gen]
                => Live(server.bind) /\ Matches(store[server.bind], server))

(* deletion-and-ownership.md:35: "The finalizer is removed only after      *)
(* OpenBao confirms deletion or the object is already absent."             *)
ReleaseProvesCleanup ==
    [][Releases /\ IsDelete(server.del)
         => \A i \in Ids : store'[i].maker = "operator" => store'[i].state # "live"]_vars

----------------------------------------------------------------------------
(* What is promised, as seen through the API server and OpenBao alone *)

Promise == INSTANCE OwnedObject WITH
    exists <- server.exists, deleting <- server.deleting, guarded <- server.fin,
    removes <- IsDelete(server.del), id <- server.bind,
    state <- [i \in Ids |-> store[i].state]

(* The reconcilers, with their stale copies, lost answers, refused writes, *)
(* retries and restarts, keep the promise of OwnedObject (the ownership    *)
(* contract of docs/reference/deletion-and-ownership.md).                  *)
ImplementsPromise == Promise!Spec

----------------------------------------------------------------------------
(* The inductive invariant behind the safety properties *)

BoundSteps == {"getById", "readBack", "update", "reread", "ready", "destroy"}

(* An ID in any copy of the resource belongs to an object that OpenBao has *)
(* had, made by the operator or adopted on request.                        *)
Known(c) ==
    /\ c.create # "Create" => asked
    /\ c.bind # NoId => store[c.bind].state # "unused"
    /\ c.bind # NoId => store[c.bind].maker = "operator" \/ asked \/ raced

BindingsInv == Known(server) /\ Known(cache) /\ Known(copy)

(* What each step of the worker may rely on. *)
ControlInv ==
    /\ WorkerInv
    /\ pc \in BoundSteps => copy.bind # NoId
    /\ pc \in {"lookup", "create"} => copy.bind = NoId
    /\ pc \in {"finalize", "resolve", "getById"} \cup DeleteSteps => copy.bind = before
    /\ pc \in {"reread", "ready"} => applied

(* An ID that the worker has given up, or cleaned up, names no object. *)
GoneInv ==
    /\ before # NoId /\ before # copy.bind => store[before].state = "deleted"
    /\ pc = "unfinalize" /\ IsDelete(copy.del) /\ copy.bind # NoId
         => store[copy.bind].state = "deleted"

IndInv ==
    /\ TypeOK /\ VersionsInv /\ BindingsInv /\ FinalizerInv /\ ControlInv /\ GoneInv
    /\ NoForeignMutation
=============================================================================
