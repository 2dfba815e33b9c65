--------------------------- MODULE NameLifecycle ---------------------------
(***************************************************************************)
(* The reconcilers whose resource is bound to an OpenBao object by name or *)
(* path: policies and roles, the OIDC resources, mounts and the other      *)
(* resources under sys/.  OpenBao keeps at most one object per name, a     *)
(* write replaces it, and status holds a marker (status.name, status.path, *)
(* status.configHash) instead of an ID.                                    *)
(*                                                                         *)
(* Simplifications.                                                        *)
(*  - the kinds are grouped by control flow, see the traits below.         *)
(*  - a configuration carries the object it points at: a name here stands  *)
(*    for a name or path and the OpenBao that spec.connectionRef leads to. *)
(*    A connection itself leads to the same OpenBao at all times.          *)
(*  - a mount is enabled without the settings that only a tune can make    *)
(*    (lease TTLs, listing visibility, headers) and then tuned; a tune of  *)
(*    a mount whose type differs leaves it different.  A tune is sent even *)
(*    when there is nothing to tune, and a blank type, which mountDesired  *)
(*    refuses like other kinds refuse what they cannot translate, is left  *)
(*    out.                                                                 *)
(***************************************************************************)
EXTENDS ControllerRuntime

CONSTANTS
    Kinds,        \* the kinds this instance explores
    Home,         \* the object of a resource that cannot point elsewhere
    PathOf,       \* the object of a configuration, for the other kinds
    FixedOf,      \* what no tune can change of a mount: type, options ...
    SeenOf,       \* what the comparison of a mount looks at
    BareOf,       \* what enabling a mount alone makes of a configuration
    Invalid       \* configurations that the reconciler cannot translate

VARIABLES
    kind,         \* the kind of the resource, never changed
    store,        \* OpenBao's objects by name
    vacant,       \* this Reconcile has found the name free (history)
    overwritten,  \* names of foreign objects that the operator has changed
                  \* although this Reconcile did not find them free (history)
    erased,       \* names of foreign objects that the operator has deleted
                  \* (history)
    owned,        \* names that status has recorded as acquired (history)
    gone,         \* the name whose absence OpenBao confirmed during this
                  \* deletion (history)
    applied       \* during this Reconcile the object has had the desired
                  \* configuration (history)

hitVars == <<overwritten, erased>>
reconcileVars == <<vacant, gone, applied>>
baoVars == <<store, hitVars>>
vars == <<rtVars, kind, store, vacant, overwritten, erased, owned, gone, applied>>

Names == Bindings

KindNames == {"Policy", "OIDC", "Mount", "System", "Quota", "Config", "Rotation", "MFAMethod"}

ASSUME KindsAssumption == Kinds # {} /\ Kinds \subseteq KindNames
ASSUME HomeAssumption == Home \in Names
ASSUME PathAssumption == PathOf \in [Configs -> Names]
ASSUME MountAssumption ==
    /\ BareOf \in [Configs -> Configs]
    /\ \A c \in Configs : SeenOf[BareOf[c]] = SeenOf[c]
    /\ \A c, d \in Configs : SeenOf[c] = SeenOf[d] => FixedOf[c] = FixedOf[d]
ASSUME InvalidAssumption == Invalid \subseteq Configs

----------------------------------------------------------------------------
(* What sets the kinds apart.                                              *)
(*   movable     spec.path or spec.connectionRef may be edited             *)
(*   recompares  the object is compared again after a create               *)
(*   tunes       an object is enabled and tuned, not replaced              *)
(*   marks       status records that the object was acquired               *)
(*   deletable   OpenBao has a delete call                                 *)
(*   validates   an invalid spec ends Reconcile before everything else     *)
(*   prepares    the spec is translated before the object is read          *)
(*   cautious    only an object that was acquired is deleted               *)

(* OpenBaoPolicy, PasswordPolicy, TokenRole, AppRole, KubernetesAuthRole *)
PolicyTraits ==
    [movable |-> FALSE, recompares |-> TRUE, tunes |-> FALSE,
     marks |-> TRUE, deletable |-> TRUE, validates |-> FALSE,
     prepares |-> FALSE, cautious |-> FALSE]

(* reconcileOIDCNamed: provider, client, key, role, scope, assignment *)
OIDCTraits ==
    [movable |-> FALSE, recompares |-> TRUE, tunes |-> FALSE,
     marks |-> TRUE, deletable |-> TRUE, validates |-> FALSE,
     prepares |-> FALSE, cautious |-> FALSE]

(* reconcileSystemNamed: auth methods and secret engines *)
MountTraits ==
    [movable |-> TRUE, recompares |-> FALSE, tunes |-> TRUE,
     marks |-> TRUE, deletable |-> TRUE, validates |-> FALSE,
     prepares |-> FALSE, cautious |-> FALSE]

(* namespaces, audit devices, workflows, plugins, headers, loggers *)
SystemTraits ==
    [movable |-> TRUE, recompares |-> FALSE, tunes |-> FALSE,
     marks |-> TRUE, deletable |-> TRUE, validates |-> FALSE,
     prepares |-> FALSE, cautious |-> FALSE]

(* rate-limit quotas, CORS: the connection may be edited *)
QuotaTraits ==
    [movable |-> TRUE, recompares |-> FALSE, tunes |-> FALSE,
     marks |-> TRUE, deletable |-> TRUE, validates |-> FALSE,
     prepares |-> FALSE, cautious |-> FALSE]

(* the global rate-limit quota configuration: likewise *)
ConfigTraits ==
    [movable |-> TRUE, recompares |-> FALSE, tunes |-> FALSE,
     marks |-> TRUE, deletable |-> FALSE, validates |-> FALSE,
     prepares |-> FALSE, cautious |-> FALSE]

(* key rotation: likewise; Acquired is constantly false, MarkAcquired does *)
(* nothing                                                                 *)
RotationTraits ==
    [movable |-> TRUE, recompares |-> FALSE, tunes |-> FALSE,
     marks |-> FALSE, deletable |-> FALSE, validates |-> TRUE,
     prepares |-> FALSE, cautious |-> FALSE]

(* OpenBaoMFAMethodReconciler; the method ID in the spec is immutable *)
MFAMethodTraits ==
    [movable |-> FALSE, recompares |-> FALSE, tunes |-> FALSE,
     marks |-> TRUE, deletable |-> TRUE, validates |-> FALSE,
     prepares |-> TRUE, cautious |-> TRUE]

Traits ==
    CASE kind = "Policy" -> PolicyTraits
      [] kind = "OIDC" -> OIDCTraits
      [] kind = "Mount" -> MountTraits
      [] kind = "System" -> SystemTraits
      [] kind = "Quota" -> QuotaTraits
      [] kind = "Config" -> ConfigTraits
      [] kind = "Rotation" -> RotationTraits
      [] kind = "MFAMethod" -> MFAMethodTraits

(* The name that Reconcile uses for resource c. *)
Path(c) == IF Traits.movable THEN PathOf[c.want] ELSE Home

(* status says that the object was acquired.                               *)
\* Mutant: any earlier status counts.
AcquiredByStatus(c) == Traits.marks /\ c.ready.tag # "None"
Acquired(c) == Traits.marks /\ c.bind # Unbound

\* Mutant: the marker takes the whole configuration.
MarkConfig(c) == IF Traits.marks THEN WithBinding(c, c.want) ELSE c
\* Mutant: the marker is not recorded.
MarkNothing(c) == c
MarkAcquired(c) == IF Traits.marks THEN WithBinding(c, Path(c)) ELSE c

----------------------------------------------------------------------------
(* OpenBao *)

Objects == [cfg : Configs \cup {NoConfig}, maker : {"operator", "foreign"}]

Absent == [cfg |-> NoConfig, maker |-> "foreign"]

Exists(n) == store[n].cfg # NoConfig

Put(n, o) == store' = [store EXCEPT ![n] = o]

(* The configuration that creating an object for w gives it. *)
Created(w) == IF Traits.tunes THEN BareOf[w] ELSE w

(* The configuration that writing w to an object of configuration c leaves *)
(* behind: all of w, except for a mount that a tune cannot make w.         *)
Written(c, w) == IF Traits.tunes /\ FixedOf[c] # FixedOf[w] THEN c ELSE w

(* The party that made the object at n, which the operator makes if need be. *)
Maker(n) == IF Exists(n) THEN store[n].maker ELSE "operator"

(* The desired fields equal the observed ones.  mountDesired leaves out    *)
(* what only a tune sets.                                                  *)
Matches(c, w) == IF Traits.tunes THEN SeenOf[c] = SeenOf[w] ELSE c = w

(* The spec of c has no translation; the tune of a mount is translated     *)
(* only when it is sent.                                                   *)
Untranslatable(c) == ~Traits.tunes /\ c.want \in Invalid

(* A write of the operator reaches n. *)
HitWrite(n) ==
    /\ overwritten' = IF Exists(n) /\ store[n].maker = "foreign" /\ ~vacant
                        THEN overwritten \cup {n} ELSE overwritten
    /\ UNCHANGED erased

(* A delete call of the operator reaches n. *)
HitDelete(n) ==
    /\ erased' = IF store[n].maker = "foreign" THEN erased \cup {n} ELSE erased
    /\ UNCHANGED overwritten

(* OpenBao does not serve the request. *)
Unavailable == Spend /\ UNCHANGED <<kubeVars, baoVars, copy, reconcileVars>>

TypeOK ==
    /\ RuntimeTypeOK
    /\ kind \in Kinds
    /\ store \in [Names -> Objects]
    /\ vacant \in BOOLEAN /\ applied \in BOOLEAN
    /\ overwritten \subseteq Names /\ erased \subseteq Names /\ owned \subseteq Names
    /\ gone \in Names \cup {Unbound}

Init ==
    /\ RuntimeInit
    /\ kind \in Kinds
    /\ store = [n \in Names |-> Absent]
    /\ vacant = FALSE /\ applied = FALSE
    /\ overwritten = {} /\ erased = {} /\ owned = {}
    /\ gone = Unbound

----------------------------------------------------------------------------
(* Reconcile of a resource that is not being deleted *)

DepsReady == deps = "ready"

Prepared == Traits.prepares => ~Untranslatable(copy)

Resolve ==
    /\ pc = "resolve"
    /\ \/ ~DepsReady /\ Fail("DependencyNotReady")
       \/ DepsReady /\ ~Prepared /\ Fail("InvalidSpec")
       \/ DepsReady /\ Prepared /\ Goto("lookup")
    /\ UNCHANGED <<kubeVars, envVars, copy, kind, baoVars, owned, reconcileVars>>

(* The object at n was read and may be managed: translate and compare. *)
\* Mutant: the comparison is skipped.
CompareNothing(n) ==
    copy' = MarkAcquired(copy) /\ Goto("ready") /\ UNCHANGED applied
Compare(n) ==
    /\ applied' = (applied \/ store[n].cfg = copy.want)
    /\ \/ Untranslatable(copy) /\ Fail("InvalidSpec") /\ UNCHANGED copy
       \/ /\ ~Untranslatable(copy) /\ Matches(store[n].cfg, copy.want)
          /\ copy' = MarkAcquired(copy) /\ Goto("ready")
       \/ /\ ~Untranslatable(copy) /\ ~Matches(store[n].cfg, copy.want)
          /\ Goto("update") /\ UNCHANGED copy

(* acquire: read by name and apply the creation policy. *)
Lookup ==
    /\ pc = "lookup"
    /\ LET n == Path(copy) IN
       \/ /\ ~Exists(n)
          /\ \/ ~AllowsCreation(copy.create) /\ Fail("NotAllowed") /\ UNCHANGED vacant
             \/ /\ AllowsCreation(copy.create) /\ Untranslatable(copy)
                /\ Fail("InvalidSpec") /\ UNCHANGED vacant
             \/ /\ AllowsCreation(copy.create) /\ ~Untranslatable(copy)
                /\ Goto("create") /\ vacant' = TRUE
          /\ UNCHANGED <<kubeVars, baoVars, copy, budget, gone, applied>>
       \/ /\ Exists(n) /\ ~Acquired(copy) /\ ~AllowsAdoption(copy.create)
          /\ Fail("AlreadyExists")
          /\ UNCHANGED <<kubeVars, baoVars, copy, budget, reconcileVars>>
       \/ /\ Exists(n) /\ (Acquired(copy) \/ AllowsAdoption(copy.create))
          /\ Compare(n)
          /\ UNCHANGED <<kubeVars, baoVars, budget, vacant, gone>>
       \/ Unavailable /\ Fail("AcquireFailed")
    /\ UNCHANGED <<deps, creates, asked, kind, owned>>

(* The write that creates the object.  Its answer may be lost after it     *)
(* took effect.  A name taken since the read is replaced; only a mount     *)
(* cannot be enabled twice.  The tune of a mount comes next.               *)
AfterCreate ==
    CASE Traits.tunes -> "update"
      [] ~Traits.tunes /\ Traits.recompares -> "readBack"
      [] ~Traits.tunes /\ ~Traits.recompares -> "reread"
Create ==
    /\ pc = "create"
    /\ LET n == Path(copy) IN
       \/ /\ ~(Traits.tunes /\ Exists(n))
          /\ Put(n, [cfg |-> Created(copy.want), maker |-> Maker(n)]) /\ HitWrite(n)
          /\ applied' = (applied \/ Created(copy.want) = copy.want)
          /\ \/ Goto(AfterCreate) /\ UNCHANGED budget
             \/ Spend /\ Fail("AcquireFailed")
          /\ UNCHANGED <<kubeVars, copy, vacant, gone>>
       \/ /\ Traits.tunes /\ Exists(n) /\ Fail("CreateRefused")
          /\ UNCHANGED <<kubeVars, baoVars, copy, budget, reconcileVars>>
       \/ Unavailable /\ Fail("AcquireFailed")
    /\ UNCHANGED <<deps, creates, asked, kind, owned>>

(* The read after a create, for the kinds that compare again. *)
ReadBack ==
    /\ pc = "readBack"
    /\ LET n == Path(copy) IN
       \/ /\ Exists(n) /\ Compare(n)
          /\ UNCHANGED <<kubeVars, baoVars, budget, vacant, gone>>
       \/ /\ ~Exists(n) /\ Fail("ReadNotFound")
          /\ UNCHANGED <<kubeVars, baoVars, copy, budget, reconcileVars>>
       \/ Unavailable /\ Fail("ReadFailed")
    /\ UNCHANGED <<deps, creates, asked, kind, owned>>

(* The write to an object that differs.  It makes the object when it has   *)
(* gone since; only a mount that has gone cannot be tuned.  A tune that    *)
(* cannot be translated fails before the call, after the enable.           *)
Update ==
    /\ pc = "update"
    /\ LET n == Path(copy) IN
       \/ /\ Traits.tunes => Exists(n) /\ copy.want \notin Invalid
          /\ Put(n, [cfg |-> Written(store[n].cfg, copy.want), maker |-> Maker(n)])
          /\ HitWrite(n)
          /\ applied' = (applied \/ Written(store[n].cfg, copy.want) = copy.want)
          /\ \/ Goto("reread") /\ UNCHANGED budget
             \/ Spend /\ Fail("UpdateFailed")
          /\ UNCHANGED <<kubeVars, copy, vacant, gone>>
       \/ /\ Traits.tunes /\ copy.want \in Invalid /\ Fail("UpdateRefused")
          /\ UNCHANGED <<kubeVars, baoVars, copy, budget, reconcileVars>>
       \/ /\ Traits.tunes /\ copy.want \notin Invalid /\ ~Exists(n)
          /\ Fail("UpdateNotFound")
          /\ UNCHANGED <<kubeVars, baoVars, copy, budget, reconcileVars>>
       \/ Unavailable /\ Fail("UpdateFailed")
    /\ UNCHANGED <<deps, creates, asked, kind, owned>>

(* The last read.  What it returns is recorded, not compared. *)
Reread ==
    /\ pc = "reread"
    /\ LET n == Path(copy) IN
       \/ /\ Exists(n)
          /\ copy' = MarkAcquired(copy) /\ Goto("ready")
          /\ UNCHANGED <<kubeVars, baoVars, budget, reconcileVars>>
       \/ /\ ~Exists(n) /\ Fail("ReadNotFound")
          /\ UNCHANGED <<kubeVars, baoVars, copy, budget, reconcileVars>>
       \/ Unavailable /\ Fail("ReadFailed")
    /\ UNCHANGED <<deps, creates, asked, kind, owned>>

----------------------------------------------------------------------------
(* Deletion *)

(* The policy decides whether anything is to be cleaned up; only for MFA   *)
(* methods does the marker matter as well.                                 *)
ToDelete(c) == IsDelete(c.del) /\ (Traits.cautious => Acquired(c))

\* Mutant: the finalizer is released when the connection is gone.
DecideDeletionGivesUp ==
    /\ pc = "delete"
    /\ \/ ~(ToDelete(copy) /\ ClientAvailable) /\ Goto("unfinalize")
       \/ ToDelete(copy) /\ ClientAvailable /\ Goto("destroy")
    /\ UNCHANGED <<kubeVars, envVars, copy, kind, baoVars, owned, reconcileVars>>
DecideDeletion ==
    /\ pc = "delete"
    /\ \/ ~ToDelete(copy) /\ Goto("unfinalize")
       \/ ToDelete(copy) /\ ClientAvailable /\ Goto("destroy")
       \/ /\ ToDelete(copy) /\ ~ClientAvailable
          /\ pc' = "cleanup" /\ tag' = "CleanupDependencyUnavailable"
          /\ UNCHANGED <<queued, before, fresh>>
    /\ UNCHANGED <<kubeVars, envVars, copy, kind, baoVars, owned, reconcileVars>>

CleanupFails ==
    /\ pc' = "cleanup" /\ tag' = "CleanupFailed"
    /\ UNCHANGED <<queued, before, fresh>>

(* The delete call.  An absent object counts as deleted; some kinds have   *)
(* no such call and always fail.                                           *)
Destroy ==
    /\ pc = "destroy"
    /\ LET n == Path(copy) IN
       \/ /\ Traits.deletable /\ Exists(n)
          /\ Put(n, Absent) /\ HitDelete(n)
          /\ \/ Goto("unfinalize") /\ gone' = n /\ UNCHANGED budget
             \/ Spend /\ CleanupFails /\ UNCHANGED gone
          /\ UNCHANGED <<kubeVars, copy, vacant, applied>>
       \/ /\ Traits.deletable /\ ~Exists(n)
          /\ Goto("unfinalize") /\ gone' = n
          /\ UNCHANGED <<kubeVars, baoVars, copy, budget, vacant, applied>>
       \/ /\ ~Traits.deletable /\ CleanupFails
          /\ UNCHANGED <<kubeVars, baoVars, copy, budget, reconcileVars>>
       \/ Unavailable /\ CleanupFails
    /\ UNCHANGED <<deps, creates, asked, kind, owned>>

----------------------------------------------------------------------------
(* Other administrators of OpenBao create, change and delete objects. *)
ForeignWrite ==
    /\ Spend
    /\ \E n \in Names, w \in Configs :
         /\ store[n].cfg # w
         /\ Put(n, [cfg |-> w, maker |-> IF Exists(n) THEN store[n].maker ELSE "foreign"])
    /\ UNCHANGED <<kubeVars, queued, workerVars, deps, creates, asked, kind, hitVars, owned, reconcileVars>>

ForeignDelete ==
    /\ Spend
    /\ \E n \in Names : Exists(n) /\ Put(n, Absent)
    /\ UNCHANGED <<kubeVars, queued, workerVars, deps, creates, asked, kind, hitVars, owned, reconcileVars>>

----------------------------------------------------------------------------
RestOfBao == <<kind, baoVars>>

(* What a Reconcile has seen ends with it. *)
Forget == vacant' = FALSE /\ gone' = Unbound /\ applied' = FALSE

(* The rotation reconcilers return the error of an invalid spec before     *)
(* they do anything else, so the key stays in the workqueue.               *)
Readable == ~(Traits.validates /\ cache.exists /\ cache.want \in Invalid)

Worker ==
    \/ Readable /\ Dequeue /\ UNCHANGED <<RestOfBao, owned, reconcileVars>>
    \/ EnsureFinalizer /\ UNCHANGED <<RestOfBao, owned, reconcileVars>>
    \/ Resolve \/ Lookup \/ Create \/ ReadBack \/ Update \/ Reread
    \/ /\ RecordReady
       /\ owned' = owned \cup ({server'.bind} \ {Unbound})
       /\ Forget /\ UNCHANGED RestOfBao
    \/ ReportFailure /\ Forget /\ UNCHANGED <<RestOfBao, owned>>
    \/ DecideDeletion \/ Destroy
    \/ RecordCleanupFailure /\ Forget /\ UNCHANGED <<RestOfBao, owned>>
    \/ RemoveFinalizer /\ Forget /\ UNCHANGED <<RestOfBao, owned>>

Environment ==
    \/ UserCreate /\ UNCHANGED <<RestOfBao, owned, reconcileVars>>
    \/ UserEdit /\ UNCHANGED <<RestOfBao, owned, reconcileVars>>
    \/ UserDelete /\ UNCHANGED <<RestOfBao, owned, reconcileVars>>
    \/ ReleaseOther /\ UNCHANGED <<RestOfBao, owned, reconcileVars>>
    \/ ChangeDeps /\ deps' # "noParent" /\ UNCHANGED <<RestOfBao, owned, reconcileVars>>
    \/ Crash /\ Forget /\ UNCHANGED <<RestOfBao, owned>>
    \/ ForeignWrite \/ ForeignDelete

Watch == Sync /\ UNCHANGED <<RestOfBao, owned, reconcileVars>>

Next == Worker \/ Environment \/ Watch

Spec == Init /\ [][Next]_vars

(* The worker goroutine and the watch keep running; users, administrators  *)
(* and faults owe nothing.                                                 *)
FairSpec == Spec /\ WF_vars(Worker) /\ WF_vars(Watch)

----------------------------------------------------------------------------
(* Properties *)

(* acquire (docs/reference/deletion-and-ownership.md:11-15, "Existing      *)
(* unacquired object"): the operator writes to an object that somebody     *)
(* else made only if it found the name free in the same Reconcile, had     *)
(* recorded it as acquired before, or some version of the spec allowed     *)
(* adoption.  A resource whose spec can point elsewhere may have recorded  *)
(* another object instead, see MarkerVouchesForItsObject; one that records *)
(* nothing has no such way.  Stale copies, lost answers, failed status     *)
(* writes and restarts do not open any other.                              *)
NoForeignOverwrite ==
    asked \/ overwritten \subseteq owned \/ (Traits.movable /\ owned # {})

(* ensureFinalizer comes first (deletion-and-ownership.md:34): when the    *)
(* worker is about to write an object for a Delete-policy resource, the    *)
(* API server holds the finalizer, however stale the copy.                 *)
FinalizerBeforeMutation ==
    pc \in {"create", "update"} /\ IsDelete(copy.del) => server.exists /\ server.fin

(* The step takes the operator's finalizer off the stored resource. *)
Releases == server.exists /\ server.fin /\ ~(server'.exists /\ server'.fin)

(* reconcileDeletion and the deletion branch of reconcileSystemNamed and   *)
(* reconcileOIDCNamed: a Delete-policy resource gives up its finalizer     *)
(* only in a Reconcile in which OpenBao confirmed that the name the stored *)
(* spec points at was deleted or absent, also when the spec was edited     *)
(* while the worker was busy.  An MFA method gives it up also when it was  *)
(* never acquired.                                                         *)
CleanupBeforeRelease ==
    [][Releases /\ ToDelete(server) => gone = Path(server)]_vars

(* markReady (status-and-conditions.md:7): for the kinds that replace an   *)
(* object, the status that says Reconciled for a generation is written     *)
(* only by a Reconcile in which the object had that generation's           *)
(* configuration.                                                          *)
ReadyMeansApplied ==
    [][~Traits.tunes /\ server'.exists /\ server'.ready.tag = "Reconciled"
         /\ <<server'.bind, server'.ready>> # <<server.bind, server.ready>>
         => applied /\ server'.want = copy.want /\ server'.ready.gen = server'.gen]_vars

(* The marker works (deletion-and-ownership.md:17-19): a resource that has *)
(* been Ready, or holds a marker, is never told that its object already    *)
(* exists, whatever failed in between.                                     *)
OwnObjectIsNeverRefused ==
    [][Traits.marks /\ (server.ready.tag = "Reconciled" \/ server.bind # Unbound)
         /\ server'.exists => server'.ready.tag # "AlreadyExists"]_vars

(* Decision 0008: once a client can be built for good, no terminating      *)
(* resource keeps its finalizer, unless OpenBao has no delete call for it  *)
(* or its spec cannot be read.                                             *)
Cleanable == ~IsDelete(server.del) \/ Traits.deletable
CleanupCompletes ==
    <>[]ClientAvailable
      => <>[](server.exists /\ server.deleting /\ server.fin
                => ~Cleanable \/ (Traits.validates /\ server.want \in Invalid))

(* What only a change of the spec or of OpenBao can resolve. *)
NeedsAttention == {"AlreadyExists", "NotAllowed"}

(* Reconcile retries: once the dependencies stay ready, a resource with a  *)
(* valid spec ends up Ready for its current generation, or with a refusal  *)
(* that needs a decision; a transient error never sticks.                  *)
Converges ==
    <>[]DepsReady
      => <>[](server.exists /\ ~server.deleting /\ server.want \notin Invalid
                => server.ready = [tag |-> "Reconciled", gen |-> server.gen]
                   \/ server.ready.tag \in NeedsAttention)

(* Drift detection: once the dependencies stay ready and others leave      *)
(* OpenBao alone, the object of a Ready resource has the configuration     *)
(* that the spec asks for, except for what a mount does not compare or     *)
(* cannot tune.                                                            *)
DriftIsRepaired ==
    <>[]DepsReady
      => <>[](server.exists /\ ~server.deleting
                /\ server.ready = [tag |-> "Reconciled", gen |-> server.gen]
                => Exists(Path(server))
                   /\ (store[Path(server)].cfg = server.want \/ Traits.tunes))

(* deletion-and-ownership.md:3-5: "The operator treats external OpenBao    *)
(* objects as shared infrastructure unless a resource explicitly claims    *)
(* ownership": only an acquired object is deleted.                         *)
NoForeignDeletion == erased \subseteq owned \/ asked

(* docs/crds/openbao-configuration.md:8: "All resources use an immutable,  *)
(* same-namespace `connectionRef`, explicit creation/adoption policy": the *)
(* marker of one object is never taken for the adoption of another.        *)
MarkerVouchesForItsObject == asked \/ overwritten \subseteq owned

(* status-and-conditions.md:7: "Ready=True means the latest desired state  *)
(* was applied successfully", for mounts as well.                          *)
MountReadyMeansApplied ==
    [][server'.exists /\ server'.ready.tag = "Reconciled" /\ server'.ready # server.ready
         => applied]_vars

----------------------------------------------------------------------------
(* The inductive invariant behind the safety properties *)

(* A recorded marker names an object that was Ready once. *)
Known(b) ==
    b # Unbound => b \in owned /\ Traits.marks /\ (~Traits.movable => b = Home)

(* The stored status: Ready comes with the marker, a refusal without it. *)
StatusInv ==
    Traits.marks => /\ server.ready.tag = "Reconciled" => server.bind # Unbound
                    /\ server.ready.tag = "AlreadyExists" => server.bind = Unbound

(* The resource has recorded the object that it writes to, or, when its    *)
(* spec can point elsewhere, some object.                                  *)
Vouched == IF Traits.movable THEN owned # {} ELSE Home \in owned

BindingsInv == Known(server.bind) /\ Known(cache.bind) /\ Known(before)

(* What each step of the worker may rely on: the marker is set by the last *)
(* step before the status is written, a create has found the name free,    *)
(* and a write to an object that was found is permitted.                   *)
ControlInv ==
    /\ pc # "ready" \/ ~Traits.marks => copy.bind = before
    /\ pc = "ready" /\ Traits.marks => copy.bind = Path(copy)
    /\ pc \in {"create", "readBack"} => vacant
    /\ pc = "update" => vacant \/ asked \/ Vouched
    /\ pc \in {"reread", "ready"} /\ ~Traits.tunes => applied
    /\ pc = "report" /\ tag = "AlreadyExists" /\ Traits.marks => copy.bind = Unbound
    /\ pc = "cleanup" => tag # "AlreadyExists"
    /\ pc = "unfinalize" /\ ToDelete(copy) => gone = Path(copy)

(* acquire, markReady, reconcileDeletion: what the copies of the resource, *)
(* the marker, the worker's step and OpenBao's answers have to do with     *)
(* each other.                                                             *)
IndInv ==
    /\ RuntimeInv /\ TypeOK /\ StatusInv /\ BindingsInv /\ ControlInv
    /\ NoForeignOverwrite
=============================================================================
