------------------------- MODULE ControllerRuntime -------------------------
(***************************************************************************)
(* What every reconciler of the operator shares: one custom resource in    *)
(* the API server, the informer's lagging copy of it, the workqueue key,   *)
(* the single worker that reconciles the key, and the helpers of           *)
(* internal/controller/openbao/common.go (finalizers, conditions,          *)
(* updateStatusIfChanged).  The modules that EXTEND this one add the       *)
(* OpenBao side: IdLifecycle for resources bound by a stable ID,           *)
(* NameLifecycle for resources bound by their name.                        *)
(*                                                                         *)
(* Simplifications.                                                        *)
(*  - resourceVersions are not counted: `synced' says whether the          *)
(*    informer holds the API server's version, `fresh' whether the         *)
(*    worker's copy carries it.  A write through a copy that is not        *)
(*    fresh is the API server's conflict.                                  *)
(*  - several watch events may reach the informer as one delivery.         *)
(*  - a condition is its reason and message (one tag) and its generation.  *)
(*    Stalled and CleanupRequired change only together with Ready and      *)
(*    observedGeneration is the generation of the Ready condition, so      *)
(*    none of them decides whether status is written; they are not kept.   *)
(*  - a CR's desired configuration is one member of Configs.               *)
(***************************************************************************)
EXTENDS Naturals, FiniteSets

CONSTANTS
    Bindings,     \* what status can record as the bound external object
    Unbound,      \* the empty status.id or status.name
    Configs,      \* configurations an external object can have
    NoConfig,     \* of a resource or an object that does not exist
    MaxGen,       \* bound on metadata.generation
    MaxCreates,   \* bound on how often the user creates the resource
    EnvBudget,    \* bound on edits, faults, crashes and foreign writes
    DriftChecks   \* driftDetectionInterval is not zero

VARIABLES
    server,       \* the custom resource as the API server stores it
    cache,        \* the informer's copy
    synced,       \* the informer's copy has the server's resourceVersion
    queued,       \* the key is in the workqueue, or a requeue timer is set
    pc,           \* the worker's next step
    copy,         \* the worker's in-memory object
    before,       \* the binding of the status snapshot taken by Reconcile
    fresh,        \* the copy has the server's resourceVersion
    tag,          \* reason and message of the failure being reported
    deps,         \* state of the OpenBaoConnection and of the parent
    budget,       \* environment events left
    creates,      \* how often the resource was created
    asked         \* some version of the spec allowed adoption (history)

kubeVars   == <<server, cache, synced>>
workerVars == <<pc, copy, before, fresh, tag>>
envVars    == <<deps, budget, creates, asked>>
rtVars     == <<kubeVars, queued, workerVars, envVars>>

ASSUME BoundsAssumption == MaxGen \in Nat /\ MaxCreates \in Nat /\ EnvBudget \in Nat
ASSUME ConfigsAssumption == NoConfig \notin Configs
ASSUME UnboundAssumption == Unbound \notin Bindings
ASSUME DriftAssumption == DriftChecks \in BOOLEAN

----------------------------------------------------------------------------
(* api/openbao/v1alpha1/common.go *)

CreationPolicies == {"Create", "Adopt", "CreateOrAdopt"}
DeletionPolicies == {"Orphan", "Delete"}

AllowsCreation(p) == p \in {"Create", "CreateOrAdopt"}

\* Mutant: adoption is the default.
AllowsAdoptionByDefault(p) == p \in {"Create", "Adopt", "CreateOrAdopt"}
AllowsAdoption(p) == p \in {"Adopt", "CreateOrAdopt"}

IsDelete(p) == p = "Delete"

(* The connection and, for aliases, the parent entity or group.             *)
(* "unready": the connection exists and a client can be built, Ready is     *)
(* not True.  "noCreds": no client can be built (Secret missing).           *)
DepStates == {"ready", "unready", "noParent", "noCreds", "absent"}

(* resolveConnection and clientFor succeed; readiness is not asked for. *)
ClientAvailable == deps \notin {"noCreds", "absent"}

Tags == {"None", "Reconciled", "DependencyNotReady", "AcquireFailed",
         "AcquireNotFound", "AlreadyExists", "NotAllowed", "Ambiguous",
         "CreateRefused", "IdentityMismatch", "InvalidSpec", "UpdateFailed",
         "UpdateNotFound", "UpdateRefused", "ReadFailed", "ReadNotFound",
         "CleanupDependencyUnavailable", "CleanupFailed"}

Conditions == [tag : Tags, gen : Nat]

CRs == [exists : BOOLEAN, create : CreationPolicies, del : DeletionPolicies,
        want : Configs \cup {NoConfig}, gen : Nat, deleting : BOOLEAN, fin : BOOLEAN,
        other : BOOLEAN, bind : Bindings \cup {Unbound}, ready : Conditions]

NoCR == [exists |-> FALSE, create |-> "Create", del |-> "Orphan",
         want |-> NoConfig, gen |-> 0, deleting |-> FALSE,
         fin |-> FALSE, other |-> FALSE, bind |-> Unbound,
         ready |-> [tag |-> "None", gen |-> 0]]

Steps == {"idle", "finalize", "resolve", "getById", "lookup", "create",
          "readBack", "update", "reread", "ready", "report", "delete",
          "destroy", "cleanup", "unfinalize"}

RuntimeTypeOK ==
    /\ server \in CRs /\ cache \in CRs /\ copy \in CRs
    /\ synced \in BOOLEAN /\ queued \in BOOLEAN /\ fresh \in BOOLEAN
    /\ pc \in Steps
    /\ before \in Bindings \cup {Unbound}
    /\ tag \in Tags
    /\ deps \in DepStates
    /\ budget \in 0 .. EnvBudget
    /\ creates \in 0 .. MaxCreates
    /\ asked \in BOOLEAN

RuntimeInit ==
    /\ server = NoCR /\ cache = NoCR /\ copy = NoCR
    /\ synced = TRUE /\ queued = FALSE /\ fresh = FALSE
    /\ pc = "idle" /\ before = Unbound /\ tag = "None"
    /\ deps = "ready"
    /\ budget = EnvBudget /\ creates = 0 /\ asked = FALSE

(* A condition set while reconciling c carries c's generation. *)
Condition(t, c) == [tag |-> t, gen |-> c.gen]

(* A resource with another finalizer state, binding, status or spec. *)
WithFinalizer(c, b) == [c EXCEPT !.fin = b]
WithBinding(c, b) == [c EXCEPT !.bind = b]
WithStatus(c, b, cond) == [c EXCEPT !.bind = b, !.ready = cond]
WithSpec(c, p, d, w) == [c EXCEPT !.create = p, !.del = d, !.want = w, !.gen = @ + 1]
Terminating(c, o) == [c EXCEPT !.deleting = TRUE, !.other = o]
NewResource(p, d, w) == [NoCR EXCEPT !.exists = TRUE, !.create = p, !.del = d, !.want = w, !.gen = 1]

(* One event of the bounded environment. *)
Spend == budget > 0 /\ budget' = budget - 1

----------------------------------------------------------------------------
(* The worker's common steps *)

(* Whether the result of a Reconcile brings the key back (an error or a    *)
(* RequeueAfter): after a success, a failure, a failed cleanup.            *)
\* Mutant: no drift requeue.
RequeueWhenReadyDropped == FALSE
RequeueWhenReady == DriftChecks
\* Mutant: the failure is reported and swallowed.
RequeueWhenFailedDropped == FALSE
RequeueWhenFailed == TRUE
\* Mutant: the cleanup failure is recorded and not retried.
RequeueForCleanupDropped == FALSE
RequeueForCleanup == TRUE

(* Reconcile returns. *)
Finish(requeue) ==
    /\ pc' = "idle"
    /\ queued' = (queued \/ requeue)
    /\ copy' = NoCR /\ before' = Unbound /\ fresh' = FALSE /\ tag' = "None"

(* Control moves on inside one Reconcile. *)
Goto(step) ==
    /\ pc' = step
    /\ UNCHANGED <<queued, before, fresh, tag>>

(* fail and dependencyFailure: the failure is reported by the next step. *)
Fail(t) ==
    /\ pc' = "report" /\ tag' = t
    /\ UNCHANGED <<queued, before, fresh>>

(* A write of the worker's object reaches the API server, which compares   *)
(* resourceVersions.                                                       *)
Accepted(c) ==
    /\ fresh
    /\ server' = c /\ synced' = FALSE
    /\ UNCHANGED <<cache, budget>>

(* The write fails: a conflict, a vanished object, or an API server error. *)
Rejected ==
    /\ \/ ~fresh /\ UNCHANGED budget
       \/ fresh /\ Spend
    /\ Finish(TRUE)
    /\ UNCHANGED kubeVars

(* Where Reconcile goes once it has read the object from the cache. *)
\* Mutant: external work starts without the finalizer.
AfterGetNoFinalizer(c) ==
    CASE ~c.exists -> "idle"
      [] c.exists /\ c.deleting -> "delete"
      [] c.exists /\ ~c.deleting -> "resolve"
AfterGet(c) ==
    CASE ~c.exists -> "idle"
      [] c.exists /\ c.deleting -> "delete"
      [] c.exists /\ ~c.deleting /\ IsDelete(c.del) /\ ~c.fin -> "finalize"
      [] c.exists /\ ~c.deleting /\ ~(IsDelete(c.del) /\ ~c.fin) -> "resolve"

(* The key leaves the workqueue and Reconcile reads the informer's copy. *)
Dequeue ==
    /\ pc = "idle" /\ queued
    /\ queued' = FALSE
    /\ pc' = AfterGet(cache)
    /\ IF cache.exists
         THEN copy' = cache /\ before' = cache.bind /\ fresh' = synced
         ELSE UNCHANGED <<copy, before, fresh>>
    /\ UNCHANGED <<kubeVars, tag, envVars>>

EnsureFinalizer ==
    /\ pc = "finalize"
    /\ \/ /\ Accepted(WithFinalizer(server, TRUE))
          /\ copy' = WithFinalizer(copy, TRUE)
          /\ Goto("resolve")
       \/ Rejected
    /\ UNCHANGED <<deps, creates, asked>>

(* fail, dependencyFailure: the status snapshot is taken here, after       *)
(* acquire has already changed copy.bind, so only a changed condition      *)
(* makes updateStatusIfChanged write (the same reason may come with        *)
(* another message, so a write is possible when the tag is the same).      *)
ReportFailure ==
    /\ pc = "report"
    /\ LET cond == Condition(tag, copy) IN
       \/ copy.ready = cond /\ Finish(RequeueWhenFailed) /\ UNCHANGED <<kubeVars, budget>>
       \/ Accepted(WithStatus(server, copy.bind, cond)) /\ Finish(RequeueWhenFailed)
       \/ Rejected
    /\ UNCHANGED <<deps, creates, asked>>

(* recordCleanupFailure: the finalizer stays, the key comes back. *)
RecordCleanupFailure ==
    /\ pc = "cleanup"
    /\ LET cond == Condition(tag, copy) IN
       \/ copy.ready = cond /\ Finish(RequeueForCleanup) /\ UNCHANGED <<kubeVars, budget>>
       \/ Accepted(WithStatus(server, server.bind, cond)) /\ Finish(RequeueForCleanup)
       \/ Rejected
    /\ UNCHANGED <<deps, creates, asked>>

(* observe...Status, markReady, updateStatusIfChanged against the snapshot *)
(* taken when Reconcile began, and the drift requeue.  The observed fields *)
(* of status that are not modelled may differ too, so a write is always    *)
(* possible.                                                               *)
RecordReady ==
    /\ pc = "ready"
    /\ LET cond == Condition("Reconciled", copy) IN
       \/ /\ copy.ready = cond /\ before = copy.bind
          /\ Finish(RequeueWhenReady)
          /\ UNCHANGED <<kubeVars, budget>>
       \/ Accepted(WithStatus(server, copy.bind, cond)) /\ Finish(RequeueWhenReady)
       \/ Rejected
    /\ UNCHANGED <<deps, creates, asked>>

(* removeFinalizer; the API server drops a terminating object when its     *)
(* last finalizer goes.                                                    *)
RemoveFinalizer ==
    /\ pc = "unfinalize"
    /\ \/ ~copy.fin /\ Finish(FALSE) /\ UNCHANGED <<kubeVars, budget>>
       \/ /\ copy.fin
          /\ \/ /\ Accepted(IF server.other THEN WithFinalizer(server, FALSE) ELSE NoCR)
                /\ Finish(FALSE)
             \/ Rejected
    /\ UNCHANGED <<deps, creates, asked>>

----------------------------------------------------------------------------
(* The user, the API server and the informer *)

(* Another party's write: neither the informer nor the worker has it. *)
ServerWrite(c) ==
    /\ server' = c
    /\ synced' = FALSE /\ fresh' = FALSE
    /\ UNCHANGED <<cache, queued, pc, copy, before, tag>>

UserCreate ==
    /\ ~server.exists
    /\ creates < MaxCreates
    /\ creates' = creates + 1
    /\ \E p \in CreationPolicies, d \in DeletionPolicies, c \in Configs :
         /\ ServerWrite(NewResource(p, d, c))
         /\ asked' = (asked \/ p # "Create")
    /\ UNCHANGED <<deps, budget>>

(* An edit of the spec bumps the generation, also while terminating. *)
UserEdit ==
    /\ server.exists
    /\ server.gen < MaxGen
    /\ Spend
    /\ \E p \in CreationPolicies, d \in DeletionPolicies, c \in Configs :
         /\ <<p, d, c>> # <<server.create, server.del, server.want>>
         /\ ServerWrite(WithSpec(server, p, d, c))
         /\ asked' = (asked \/ p # "Create")
    /\ UNCHANGED <<deps, creates>>

(* kubectl delete, possibly with another party's finalizer on the object   *)
(* (foreground deletion).                                                  *)
UserDelete ==
    /\ server.exists /\ ~server.deleting
    /\ \E o \in BOOLEAN :
         ServerWrite(IF server.fin \/ o THEN Terminating(server, o) ELSE NoCR)
    /\ UNCHANGED envVars

(* The other party releases its finalizer. *)
ReleaseOther ==
    /\ server.exists /\ server.deleting /\ server.other
    /\ ServerWrite(IF server.fin THEN Terminating(server, FALSE) ELSE NoCR)
    /\ UNCHANGED envVars

(* The watch catches up; the event enqueues the key. *)
Sync ==
    /\ ~synced
    /\ cache' = server /\ synced' = TRUE /\ queued' = TRUE
    /\ UNCHANGED <<server, workerVars, envVars>>

(* The connection, its credentials or the parent are lost or come back; a  *)
(* change of a watched object enqueues the key, a Secret does not.         *)
ChangeDeps ==
    /\ \/ deps # "ready" /\ deps' = "ready" /\ UNCHANGED budget
       \/ Spend /\ deps' \in DepStates \ {deps, "ready"}
    /\ queued' \in {queued, TRUE}
    /\ UNCHANGED <<kubeVars, workerVars, creates, asked>>

(* The operator stops and starts again: memory is lost, the informer       *)
(* lists, every listed key is enqueued.                                    *)
Crash ==
    /\ Spend
    /\ Finish(TRUE)
    /\ cache' = server /\ synced' = TRUE
    /\ UNCHANGED <<server, deps, creates, asked>>

----------------------------------------------------------------------------
(* What the safety properties of every kind rest on *)

WorkSteps   == {"resolve", "getById", "lookup", "create", "readBack", "update",
                "reread", "ready", "report"}
DeleteSteps == {"delete", "destroy", "cleanup", "unfinalize"}

(* c and d differ at most in the binding. *)
SameButBinding(c, d) ==
    /\ c.exists = d.exists /\ c.create = d.create /\ c.del = d.del
    /\ c.want = d.want /\ c.gen = d.gen /\ c.deleting = d.deleting
    /\ c.fin = d.fin /\ c.other = d.other /\ c.ready = d.ready

(* What a current resourceVersion is worth. *)
VersionsInv ==
    /\ synced => cache = server
    /\ fresh => SameButBinding(copy, server) /\ before = server.bind

(* The finalizer seen on any copy that is not terminating is still there. *)
FinalizerInv ==
    /\ server.fin => server.exists
    /\ cache.fin /\ ~cache.deleting => server.fin
    /\ copy.fin /\ ~copy.deleting => server.fin
    /\ fresh /\ copy.deleting => cache.deleting
    /\ pc \in WorkSteps /\ IsDelete(copy.del) => copy.fin

(* The worker's copy suits the branch of Reconcile that it is in. *)
WorkerInv ==
    /\ pc # "idle" => copy.exists
    /\ pc \in WorkSteps \cup {"finalize"} => ~copy.deleting
    /\ pc \in DeleteSteps => copy.deleting
    /\ pc = "report" => tag # "Reconciled"
    /\ pc = "cleanup" => tag # "Reconciled"

(* A resource that exists asks for a configuration; one that may adopt has *)
(* been asked to.                                                          *)
Specified(c) == (c.exists => c.want \in Configs) /\ (c.create # "Create" => asked)

RuntimeInv ==
    /\ RuntimeTypeOK /\ VersionsInv /\ FinalizerInv /\ WorkerInv
    /\ Specified(server) /\ Specified(cache) /\ Specified(copy)

(* What a resource that nobody is going to look at again has come to. *)
Settled ==
    server.exists =>
        IF server.deleting THEN ~server.fin
        ELSE ~DriftChecks /\ server.ready = Condition("Reconciled", server)

(* The results that Reconcile returns, conflicts and restarts included: a  *)
(* resource is out of the queue, with no event or timer to bring it back,  *)
(* only when it is Ready for its generation and drift detection is off, or *)
(* when it is terminating and its finalizer is gone.                       *)
NothingForgotten == synced /\ ~queued /\ pc = "idle" => Settled

(* A running Reconcile that nobody will repeat works on the current        *)
(* version.                                                                *)
QueueInv ==
    /\ NothingForgotten
    /\ synced /\ ~queued /\ pc # "idle" => fresh
=============================================================================
