---------------------- MODULE ControllerRuntimeProofs ----------------------
(***************************************************************************)
(* What holds of the resource, the informer and the worker whichever kind  *)
(* of OpenBao object is reconciled: the lemmas that the proofs about       *)
(* IdLifecycle and NameLifecycle share.                                    *)
(***************************************************************************)
EXTENDS ControllerRuntime, TLAPS

USE DEF kubeVars, workerVars, envVars

----------------------------------------------------------------------------
(* Records *)

Binds == Bindings \cup {Unbound}

(* The fields of a well-typed resource have their types. *)
LEMMA CRFields ==
  ASSUME NEW c \in CRs
  PROVE  /\ c.exists \in BOOLEAN /\ c.create \in CreationPolicies
         /\ c.del \in DeletionPolicies /\ c.want \in Configs \cup {NoConfig}
         /\ c.gen \in Nat /\ c.deleting \in BOOLEAN /\ c.fin \in BOOLEAN
         /\ c.other \in BOOLEAN /\ c.bind \in Binds /\ c.ready \in Conditions
  BY DEF CRs, Binds

(* The absent resource is a resource record. *)
LEMMA NoCRTyped == NoCR \in CRs
  BY DEF NoCR, CRs, Conditions, Tags, CreationPolicies, DeletionPolicies

(* What the absent resource holds. *)
LEMMA NoCRFields ==
  /\ NoCR.exists = FALSE /\ NoCR.create = "Create" /\ NoCR.del = "Orphan" /\ NoCR.deleting = FALSE
  /\ NoCR.fin = FALSE /\ NoCR.bind = Unbound /\ NoCR.ready.tag = "None"
  BY DEF NoCR

(* What the named updates of a resource do. *)
LEMMA FinalizerUpdate ==
  ASSUME NEW c \in CRs, NEW b \in BOOLEAN
  PROVE  /\ WithFinalizer(c, b) \in CRs
         /\ WithFinalizer(c, b).fin = b
         /\ WithFinalizer(c, b).bind = c.bind
         /\ WithFinalizer(c, b).exists = c.exists
         /\ WithFinalizer(c, b).create = c.create
         /\ WithFinalizer(c, b).del = c.del
         /\ WithFinalizer(c, b).want = c.want
         /\ WithFinalizer(c, b).gen = c.gen
         /\ WithFinalizer(c, b).deleting = c.deleting
         /\ WithFinalizer(c, b).other = c.other
         /\ WithFinalizer(c, b).ready = c.ready
  BY DEF CRs, WithFinalizer

(* acquire's change of the ID touches only the binding. *)
LEMMA BindingUpdate ==
  ASSUME NEW c \in CRs, NEW b \in Binds
  PROVE  /\ WithBinding(c, b) \in CRs
         /\ WithBinding(c, b).bind = b
         /\ SameButBinding(WithBinding(c, b), c)
  BY DEF CRs, Binds, SameButBinding, WithBinding

(* A status write touches only the binding and the condition. *)
LEMMA StatusUpdate ==
  ASSUME NEW c \in CRs, NEW b \in Binds, NEW cond \in Conditions
  PROVE  /\ WithStatus(c, b, cond) \in CRs
         /\ WithStatus(c, b, cond).bind = b
         /\ WithStatus(c, b, cond).ready = cond
         /\ WithStatus(c, b, cond).exists = c.exists
         /\ WithStatus(c, b, cond).create = c.create
         /\ WithStatus(c, b, cond).del = c.del
         /\ WithStatus(c, b, cond).want = c.want
         /\ WithStatus(c, b, cond).gen = c.gen
         /\ WithStatus(c, b, cond).deleting = c.deleting
         /\ WithStatus(c, b, cond).fin = c.fin
  BY DEF CRs, Binds, WithStatus

(* A user's edit touches only the spec and the generation. *)
LEMMA SpecUpdate ==
  ASSUME NEW c \in CRs, NEW p \in CreationPolicies, NEW d \in DeletionPolicies, NEW w \in Configs
  PROVE  /\ WithSpec(c, p, d, w) \in CRs
         /\ WithSpec(c, p, d, w).create = p
         /\ WithSpec(c, p, d, w).deleting = c.deleting
         /\ WithSpec(c, p, d, w).bind = c.bind
         /\ WithSpec(c, p, d, w).ready = c.ready
         /\ WithSpec(c, p, d, w).fin = c.fin
         /\ WithSpec(c, p, d, w).exists = c.exists
<1>1. c.gen + 1 \in Nat
  BY DEF CRs
<1> QED BY <1>1 DEF CRs, WithSpec

(* A delete request touches only the deletion mark and the other finalizer. *)
LEMMA TerminatingUpdate ==
  ASSUME NEW c \in CRs, NEW o \in BOOLEAN
  PROVE  /\ Terminating(c, o) \in CRs
         /\ Terminating(c, o).create = c.create
         /\ Terminating(c, o).del = c.del
         /\ Terminating(c, o).deleting = TRUE
         /\ Terminating(c, o).bind = c.bind
         /\ Terminating(c, o).ready = c.ready
         /\ Terminating(c, o).fin = c.fin
         /\ Terminating(c, o).exists = c.exists
  BY DEF CRs, Terminating

(* A new resource has no finalizer and no ID. *)
LEMMA NewResourceFields ==
  ASSUME NEW p \in CreationPolicies, NEW d \in DeletionPolicies, NEW w \in Configs
  PROVE  /\ NewResource(p, d, w) \in CRs
         /\ NewResource(p, d, w).create = p
         /\ NewResource(p, d, w).deleting = FALSE
         /\ NewResource(p, d, w).bind = Unbound
         /\ NewResource(p, d, w).ready.tag = "None"
         /\ NewResource(p, d, w).fin = FALSE
         /\ NewResource(p, d, w).exists = TRUE
<1>1. /\ NoCR \in CRs /\ NoCR.bind = Unbound /\ NoCR.ready.tag = "None" /\ NoCR.fin = FALSE
      /\ NoCR.deleting = FALSE
  BY NoCRTyped DEF NoCR
<1>2. NewResource(p, d, w) \in CRs
  BY <1>1 DEF CRs, NewResource
<1> QED BY <1>1, <1>2 DEF CRs, NewResource

(* A condition carries a tag and the generation of its resource. *)
LEMMA ConditionTyped ==
  ASSUME NEW c \in CRs, NEW t \in Tags
  PROVE  Condition(t, c) \in Conditions
  BY DEF CRs, Conditions, Condition

(* Reconcile's first branch leads to a step of the worker. *)
LEMMA AfterGetStep == ASSUME NEW c \in CRs PROVE AfterGet(c) \in Steps
  BY DEF CRs, AfterGet, Steps

----------------------------------------------------------------------------
(* Common sub-actions *)

(* finish leaves a well-typed worker and resource. *)
LEMMA FinishTyped ==
  ASSUME NEW r \in BOOLEAN, queued \in BOOLEAN, Finish(r)
  PROVE  /\ pc' \in Steps /\ queued' \in BOOLEAN /\ copy' \in CRs
         /\ before' \in Binds /\ fresh' \in BOOLEAN /\ tag' \in Tags
  BY NoCRTyped DEF Finish, Steps, Tags, Binds

(* Spending keeps the budget within its bound. *)
LEMMA SpendTyped ==
  ASSUME Spend, budget \in 0 .. EnvBudget
  PROVE  budget' \in 0 .. EnvBudget
  BY BoundsAssumption DEF Spend

(* A rejected write leaves everything well typed. *)
LEMMA RejectedTyped ==
  ASSUME RuntimeTypeOK, Rejected, UNCHANGED <<deps, creates, asked>>
  PROVE  RuntimeTypeOK'
  BY FinishTyped, SpendTyped DEF Rejected, RuntimeTypeOK, Binds

----------------------------------------------------------------------------
(* Type correctness *)

(* The worker's steps on the resource keep the types. *)
LEMMA RuntimeStepTyped ==
  ASSUME RuntimeTypeOK,
         Dequeue \/ EnsureFinalizer \/ ReportFailure \/ RecordCleanupFailure
         \/ RecordReady \/ RemoveFinalizer
  PROVE  RuntimeTypeOK'
<1>1. CASE Dequeue
  <2>1. pc' \in Steps
    BY <1>1, AfterGetStep DEF Dequeue, RuntimeTypeOK
  <2>2. copy' \in CRs /\ before' \in Binds
    BY <1>1, CRFields DEF Dequeue, RuntimeTypeOK, Binds
  <2>3. fresh' \in BOOLEAN /\ queued' \in BOOLEAN
    BY <1>1 DEF Dequeue, RuntimeTypeOK
  <2> QED BY <1>1, <2>1, <2>2, <2>3 DEF Dequeue, RuntimeTypeOK, Binds
<1>2. CASE EnsureFinalizer
  <2>1. CASE ~Rejected
    BY <1>2, <2>1, FinalizerUpdate DEF EnsureFinalizer, Accepted, Goto, RuntimeTypeOK, Steps
  <2> QED BY <1>2, <2>1, RejectedTyped DEF EnsureFinalizer
<1>3. CASE ReportFailure
  <2>1. CASE ~Rejected
    <3>1. Finish(TRUE) /\ UNCHANGED <<deps, creates, asked, cache, budget>>
      BY <1>3, <2>1 DEF ReportFailure, Accepted, RequeueWhenFailed
    <3>2. WithStatus(server, copy.bind, Condition(tag, copy)) \in CRs
      BY StatusUpdate, ConditionTyped, CRFields DEF RuntimeTypeOK
    <3>4. server' \in CRs /\ synced' \in BOOLEAN
      BY <1>3, <2>1, <3>2 DEF ReportFailure, Accepted, RuntimeTypeOK
    <3> QED BY <3>1, <3>4, FinishTyped DEF RuntimeTypeOK, Binds
  <2> QED BY <1>3, <2>1, RejectedTyped DEF ReportFailure
<1>4. CASE RecordCleanupFailure
  <2>1. CASE ~Rejected
    <3>1. Finish(TRUE) /\ UNCHANGED <<deps, creates, asked, cache, budget>>
      BY <1>4, <2>1 DEF RecordCleanupFailure, Accepted, RequeueForCleanup
    <3>2. WithStatus(server, server.bind, Condition(tag, copy)) \in CRs
      BY StatusUpdate, ConditionTyped, CRFields DEF RuntimeTypeOK
    <3>4. server' \in CRs /\ synced' \in BOOLEAN
      BY <1>4, <2>1, <3>2 DEF RecordCleanupFailure, Accepted, RuntimeTypeOK
    <3> QED BY <3>1, <3>4, FinishTyped DEF RuntimeTypeOK, Binds
  <2> QED BY <1>4, <2>1, RejectedTyped DEF RecordCleanupFailure
<1>5. CASE RecordReady
  <2>1. CASE ~Rejected
    <3>1. Finish(DriftChecks) /\ UNCHANGED <<deps, creates, asked, cache, budget>>
      BY <1>5, <2>1 DEF RecordReady, Accepted, RequeueWhenReady
    <3>2. "Reconciled" \in Tags
      BY DEF Tags
    <3>3. WithStatus(server, copy.bind, Condition("Reconciled", copy)) \in CRs
      BY <3>2, StatusUpdate, ConditionTyped, CRFields DEF RuntimeTypeOK
    <3>4. server' \in CRs /\ synced' \in BOOLEAN
      BY <1>5, <2>1, <3>3 DEF RecordReady, Accepted, RuntimeTypeOK
    <3> QED BY <3>1, <3>4, FinishTyped, DriftAssumption DEF RuntimeTypeOK, Binds
  <2> QED BY <1>5, <2>1, RejectedTyped DEF RecordReady
<1>6. CASE RemoveFinalizer
  <2>1. CASE ~Rejected
    <3>1. Finish(FALSE) /\ UNCHANGED <<deps, creates, asked, cache, budget>>
      BY <1>6, <2>1 DEF RemoveFinalizer, Accepted
    <3>2. server' \in CRs /\ synced' \in BOOLEAN
      BY <1>6, <2>1, FinalizerUpdate, NoCRTyped DEF RemoveFinalizer, Accepted, RuntimeTypeOK
    <3> QED BY <3>1, <3>2, FinishTyped DEF RuntimeTypeOK, Binds
  <2> QED BY <1>6, <2>1, RejectedTyped DEF RemoveFinalizer
<1> QED BY <1>1, <1>2, <1>3, <1>4, <1>5, <1>6

(* A step of the user, the informer or the runtime keeps its types. *)
LEMMA OutsideStepTyped ==
  ASSUME RuntimeTypeOK,
         UserCreate \/ UserEdit \/ UserDelete \/ ReleaseOther \/ ChangeDeps \/ Crash \/ Sync
  PROVE  RuntimeTypeOK'
<1>1. CASE UserCreate
  <2>1. server' \in CRs
    BY <1>1, NewResourceFields DEF UserCreate, ServerWrite
  <2>2. creates' \in 0 .. MaxCreates
    BY <1>1, BoundsAssumption DEF UserCreate, RuntimeTypeOK
  <2>3. asked' \in BOOLEAN
    BY <1>1 DEF UserCreate, RuntimeTypeOK
  <2> QED BY <1>1, <2>1, <2>2, <2>3 DEF UserCreate, ServerWrite, RuntimeTypeOK
<1>2. CASE UserEdit
  <2>1. server' \in CRs
    BY <1>2, SpecUpdate DEF UserEdit, ServerWrite, RuntimeTypeOK
  <2>2. asked' \in BOOLEAN
    BY <1>2 DEF UserEdit, RuntimeTypeOK
  <2> QED BY <1>2, <2>1, <2>2, SpendTyped DEF UserEdit, ServerWrite, RuntimeTypeOK
<1>3. CASE UserDelete
  <2>1. server' \in CRs
    BY <1>3, TerminatingUpdate, NoCRTyped DEF UserDelete, ServerWrite, RuntimeTypeOK
  <2> QED BY <1>3, <2>1 DEF UserDelete, ServerWrite, RuntimeTypeOK
<1>4. CASE ReleaseOther
  <2>1. server' \in CRs
    BY <1>4, TerminatingUpdate, NoCRTyped DEF ReleaseOther, ServerWrite, RuntimeTypeOK
  <2> QED BY <1>4, <2>1 DEF ReleaseOther, ServerWrite, RuntimeTypeOK
<1>5. CASE ChangeDeps
  BY <1>5, SpendTyped DEF ChangeDeps, DepStates, RuntimeTypeOK
<1>6. CASE Crash
  BY <1>6, FinishTyped, SpendTyped DEF Crash, RuntimeTypeOK, Binds
<1>7. CASE Sync
  BY <1>7 DEF Sync, RuntimeTypeOK
<1> QED BY <1>1, <1>2, <1>3, <1>4, <1>5, <1>6, <1>7

----------------------------------------------------------------------------
(* The invariant that every kind shares *)

(* The parts of RuntimeInv besides the types. *)
Rest ==
    /\ VersionsInv /\ FinalizerInv /\ WorkerInv
    /\ Specified(server) /\ Specified(cache) /\ Specified(copy)

(* It holds before anything has happened. *)
LEMMA RuntimeInitInv ==
  ASSUME RuntimeInit
  PROVE  RuntimeInv
<1>1. /\ server = NoCR /\ cache = NoCR /\ copy = NoCR /\ pc = "idle" /\ before = Unbound
      /\ fresh = FALSE
  BY DEF RuntimeInit
<1>2. RuntimeTypeOK
  <2>1. server \in CRs /\ cache \in CRs /\ copy \in CRs
    BY <1>1, NoCRTyped
  <2>2. budget \in 0 .. EnvBudget /\ creates \in 0 .. MaxCreates
    BY BoundsAssumption DEF RuntimeInit
  <2> QED BY <2>1, <2>2 DEF RuntimeInit, RuntimeTypeOK, Steps, Tags, DepStates
<1>3. VersionsInv /\ FinalizerInv /\ WorkerInv
  BY <1>1, NoCRFields DEF VersionsInv, FinalizerInv, WorkerInv, WorkSteps, DeleteSteps
<1>4. Specified(server) /\ Specified(cache) /\ Specified(copy)
  BY <1>1, NoCRFields DEF Specified
<1> QED BY <1>2, <1>3, <1>4 DEF RuntimeInv

(* Reconcile returns: nothing of it survives in memory. *)
LEMMA FinishForgets ==
  ASSUME NEW r, Finish(r)
  PROVE  /\ WorkerInv' /\ Specified(copy)' /\ pc' = "idle" /\ fresh' = FALSE
         /\ copy'.fin = FALSE /\ copy'.bind = Unbound /\ before' = Unbound
<1>1. pc' = "idle" /\ copy' = NoCR /\ before' = Unbound /\ fresh' = FALSE
  BY DEF Finish
<1> QED BY <1>1, NoCRFields DEF WorkerInv, Specified, WorkSteps, DeleteSteps

(* Reconcile returns after a write that keeps the spec, or none: the       *)
(* finalizer is kept, or the resource is known to be terminating.          *)
LEMMA ReturnKeeps ==
  ASSUME RuntimeInv, NEW r, Finish(r), UNCHANGED <<cache, asked>>,
         synced' => synced /\ server' = server,
         Specified(server)', server'.fin => server'.exists,
         server.fin => server'.fin \/ cache.deleting
  PROVE  Rest'
<1>1. VersionsInv' /\ FinalizerInv' /\ WorkerInv' /\ Specified(copy)'
  BY FinishForgets DEF RuntimeInv, VersionsInv, FinalizerInv, WorkSteps
<1>2. Specified(cache)'
  BY DEF RuntimeInv, Specified
<1> QED BY <1>1, <1>2 DEF Rest

(* Reconcile returns without having written. *)
LEMMA QuietReturnKeeps ==
  ASSUME RuntimeInv, NEW r, Finish(r), UNCHANGED <<kubeVars, asked>>
  PROVE  Rest'
<1>1. Specified(server)'
  BY DEF RuntimeInv, Specified
<1> QED BY <1>1, ReturnKeeps DEF RuntimeInv, FinalizerInv

(* Reconcile returns after a status write. *)
LEMMA StatusReturnKeeps ==
  ASSUME RuntimeInv, NEW r, Finish(r), asked' = asked, NEW b \in Binds, NEW cond \in Conditions,
         Accepted(WithStatus(server, b, cond))
  PROVE  Rest'
<1>1. server' = WithStatus(server, b, cond) /\ cache' = cache /\ synced' = FALSE /\ server \in CRs
  BY DEF Accepted, RuntimeInv, RuntimeTypeOK
<1>2. /\ server'.exists = server.exists /\ server'.create = server.create
      /\ server'.want = server.want /\ server'.fin = server.fin
  BY <1>1, StatusUpdate
<1>3. Specified(server)'
  BY <1>2 DEF RuntimeInv, Specified
<1> QED BY <1>1, <1>2, <1>3, ReturnKeeps DEF RuntimeInv, FinalizerInv

(* A call to OpenBao: the worker moves on inside Reconcile. *)
WorkerMoves ==
  /\ UNCHANGED <<server, cache, synced, queued, before, fresh, deps, creates, asked>>
  /\ budget' \in 0 .. EnvBudget
  /\ \/ pc \in WorkSteps /\ pc' \in WorkSteps
     \/ pc \in DeleteSteps /\ pc' \in DeleteSteps
  /\ tag' \in Tags
  /\ pc' \in {"report", "cleanup"} => tag' # "Reconciled"
  /\ copy' \in CRs /\ SameButBinding(copy', copy)

(* Such a call keeps the shared invariant. *)
LEMMA MovePreserves ==
  ASSUME RuntimeInv, WorkerMoves
  PROVE  RuntimeInv'
<1>1. RuntimeTypeOK'
  BY DEF WorkerMoves, RuntimeInv, RuntimeTypeOK, WorkSteps, DeleteSteps, Steps
<1>2. VersionsInv'
  BY DEF WorkerMoves, RuntimeInv, VersionsInv, SameButBinding
<1>3. FinalizerInv'
  BY DEF WorkerMoves, RuntimeInv, FinalizerInv, SameButBinding, WorkSteps, DeleteSteps
<1>4. WorkerInv'
  BY DEF WorkerMoves, RuntimeInv, WorkerInv, SameButBinding, WorkSteps, DeleteSteps
<1>5. Specified(server)' /\ Specified(cache)' /\ Specified(copy)'
  BY DEF WorkerMoves, RuntimeInv, Specified, SameButBinding
<1> QED BY <1>1, <1>2, <1>3, <1>4, <1>5 DEF RuntimeInv

(* The worker's steps on the resource keep the shared invariant. *)
LEMMA RuntimeStepPreserves ==
  ASSUME RuntimeInv,
         Dequeue \/ EnsureFinalizer \/ ReportFailure \/ RecordCleanupFailure
         \/ RecordReady \/ RemoveFinalizer
  PROVE  RuntimeInv'
<1>0. RuntimeTypeOK'
  BY RuntimeStepTyped DEF RuntimeInv
<1>t. /\ server \in CRs /\ copy \in CRs /\ cache \in CRs /\ server.bind \in Binds
      /\ copy.bind \in Binds /\ Condition(tag, copy) \in Conditions
      /\ Condition("Reconciled", copy) \in Conditions
  BY CRFields, ConditionTyped DEF RuntimeInv, RuntimeTypeOK, Tags
<1>1. CASE Dequeue
  <2>1. UNCHANGED <<kubeVars, tag, asked>> /\ pc = "idle" /\ pc' = AfterGet(cache)
    BY <1>1 DEF Dequeue
  <2>2. CASE ~cache.exists
    <3>1. pc' = "idle" /\ UNCHANGED <<copy, before, fresh>>
      BY <1>1, <2>1, <2>2 DEF Dequeue, AfterGet
    <3> QED BY <1>0, <2>1, <3>1
            DEF RuntimeInv, VersionsInv, FinalizerInv, WorkerInv, Specified, WorkSteps, DeleteSteps
  <2>3. CASE cache.exists
    <3>1. copy' = cache /\ before' = cache.bind /\ fresh' = synced
      BY <1>1, <2>3 DEF Dequeue
    <3>2. \/ pc' = "delete" /\ cache.deleting
          \/ pc' = "finalize" /\ ~cache.deleting
          \/ pc' = "resolve" /\ ~cache.deleting /\ (IsDelete(cache.del) => cache.fin)
      BY <1>t, <2>1, <2>3, CRFields DEF AfterGet
    <3>3. VersionsInv'
      BY <2>1, <3>1 DEF RuntimeInv, VersionsInv, SameButBinding
    <3>4. FinalizerInv'
      BY <2>1, <3>1, <3>2 DEF RuntimeInv, FinalizerInv, WorkSteps
    <3>5. WorkerInv'
      BY <2>3, <3>1, <3>2 DEF WorkerInv, WorkSteps, DeleteSteps
    <3>6. Specified(server)' /\ Specified(cache)' /\ Specified(copy)'
      BY <2>1, <3>1 DEF RuntimeInv, Specified
    <3> QED BY <1>0, <3>3, <3>4, <3>5, <3>6 DEF RuntimeInv
  <2> QED BY <2>2, <2>3
<1>2. CASE EnsureFinalizer
  <2>1. CASE Rejected
    BY <1>0, <1>2, <2>1, QuietReturnKeeps DEF EnsureFinalizer, Rejected, RuntimeInv, Rest
  <2>2. CASE ~Rejected
    <3>1. /\ pc = "finalize" /\ fresh /\ pc' = "resolve" /\ cache' = cache /\ synced' = FALSE
          /\ server' = WithFinalizer(server, TRUE) /\ copy' = WithFinalizer(copy, TRUE)
          /\ UNCHANGED <<before, fresh, tag, asked>>
      BY <1>2, <2>2 DEF EnsureFinalizer, Accepted, Goto
    <3>2. /\ server'.fin = TRUE /\ server'.bind = server.bind /\ server'.exists = server.exists
          /\ server'.create = server.create /\ server'.del = server.del
          /\ server'.want = server.want /\ server'.gen = server.gen
          /\ server'.deleting = server.deleting /\ server'.other = server.other
          /\ server'.ready = server.ready
      BY <1>t, <3>1, FinalizerUpdate
    <3>3. /\ copy'.fin = TRUE /\ copy'.bind = copy.bind /\ copy'.exists = copy.exists
          /\ copy'.create = copy.create /\ copy'.del = copy.del
          /\ copy'.want = copy.want /\ copy'.gen = copy.gen
          /\ copy'.deleting = copy.deleting /\ copy'.other = copy.other
          /\ copy'.ready = copy.ready
      BY <1>t, <3>1, FinalizerUpdate
    <3>4. /\ SameButBinding(copy, server) /\ before = server.bind
          /\ copy.exists /\ ~copy.deleting
      BY <3>1 DEF RuntimeInv, VersionsInv, WorkerInv
    <3>5. VersionsInv'
      BY <3>1, <3>2, <3>3, <3>4 DEF VersionsInv, SameButBinding
    <3>6. FinalizerInv'
      BY <3>1, <3>2, <3>3, <3>4 DEF RuntimeInv, FinalizerInv, SameButBinding
    <3>7. WorkerInv'
      BY <3>1, <3>3, <3>4 DEF WorkerInv, WorkSteps, DeleteSteps
    <3>8. Specified(server)' /\ Specified(cache)' /\ Specified(copy)'
      BY <3>1, <3>2, <3>3 DEF RuntimeInv, Specified
    <3> QED BY <1>0, <3>5, <3>6, <3>7, <3>8 DEF RuntimeInv
  <2> QED BY <2>1, <2>2
<1>3. CASE ReportFailure
  <2>1. CASE \E r \in BOOLEAN : Finish(r) /\ UNCHANGED kubeVars
    BY <1>0, <1>3, <2>1, QuietReturnKeeps DEF ReportFailure, RuntimeInv, Rest
  <2>2. CASE /\ Accepted(WithStatus(server, copy.bind, Condition(tag, copy)))
             /\ Finish(RequeueWhenFailed)
    BY <1>0, <1>t, <1>3, <2>2, StatusReturnKeeps DEF ReportFailure, RuntimeInv, Rest
  <2> QED BY <1>3, <2>1, <2>2 DEF ReportFailure, Rejected, RequeueWhenFailed
<1>4. CASE RecordCleanupFailure
  <2>1. CASE \E r \in BOOLEAN : Finish(r) /\ UNCHANGED kubeVars
    BY <1>0, <1>4, <2>1, QuietReturnKeeps DEF RecordCleanupFailure, RuntimeInv, Rest
  <2>2. CASE /\ Accepted(WithStatus(server, server.bind, Condition(tag, copy)))
             /\ Finish(RequeueForCleanup)
    BY <1>0, <1>t, <1>4, <2>2, StatusReturnKeeps DEF RecordCleanupFailure, RuntimeInv, Rest
  <2> QED BY <1>4, <2>1, <2>2 DEF RecordCleanupFailure, Rejected, RequeueForCleanup
<1>5. CASE RecordReady
  <2>1. CASE \E r \in BOOLEAN : Finish(r) /\ UNCHANGED kubeVars
    BY <1>0, <1>5, <2>1, QuietReturnKeeps DEF RecordReady, RuntimeInv, Rest
  <2>2. CASE /\ Accepted(WithStatus(server, copy.bind, Condition("Reconciled", copy)))
             /\ Finish(RequeueWhenReady)
    BY <1>0, <1>t, <1>5, <2>2, StatusReturnKeeps DEF RecordReady, RuntimeInv, Rest
  <2> QED BY <1>5, <2>1, <2>2, DriftAssumption DEF RecordReady, Rejected, RequeueWhenReady
<1>6. CASE RemoveFinalizer
  <2>1. CASE \E r \in BOOLEAN : Finish(r) /\ UNCHANGED kubeVars
    BY <1>0, <1>6, <2>1, QuietReturnKeeps DEF RemoveFinalizer, RuntimeInv, Rest
  <2>2. CASE /\ Accepted(IF server.other THEN WithFinalizer(server, FALSE) ELSE NoCR)
             /\ Finish(FALSE)
    <3>1. /\ pc = "unfinalize" /\ fresh /\ cache' = cache /\ synced' = FALSE /\ asked' = asked
          /\ server' = WithFinalizer(server, FALSE) \/ server' = NoCR
      BY <1>6, <2>2 DEF RemoveFinalizer, Accepted
    <3>2. /\ server'.fin = FALSE
          /\ \/ /\ server'.exists = server.exists /\ server'.create = server.create
                /\ server'.want = server.want
             \/ server'.exists = FALSE /\ server'.create = "Create"
      <4>1. /\ WithFinalizer(server, FALSE).fin = FALSE
            /\ WithFinalizer(server, FALSE).exists = server.exists
            /\ WithFinalizer(server, FALSE).create = server.create
            /\ WithFinalizer(server, FALSE).want = server.want
        BY <1>t, FinalizerUpdate
      <4> QED BY <3>1, <4>1, NoCRFields
    <3>3. cache.deleting
      BY <3>1 DEF RuntimeInv, WorkerInv, FinalizerInv, DeleteSteps
    <3>4. Specified(server)'
      BY <3>1, <3>2 DEF RuntimeInv, Specified
    <3> QED BY <1>0, <2>2, <3>1, <3>2, <3>3, <3>4, ReturnKeeps DEF RuntimeInv, Rest
  <2> QED BY <1>6, <2>1, <2>2 DEF RemoveFinalizer, Rejected
<1> QED BY <1>1, <1>2, <1>3, <1>4, <1>5, <1>6

(* Another party's write to the stored resource keeps the shared invariant *)
(* if it does not take the finalizer off.                                  *)
LEMMA ServerWriteKeeps ==
  ASSUME RuntimeInv, NEW c \in CRs, ServerWrite(c), asked => asked',
         c.exists => c.want \in Configs, c.create # "Create" => asked',
         c.fin => c.exists, server.fin => c.fin
  PROVE  Rest'
<1>1. /\ server' = c /\ synced' = FALSE /\ fresh' = FALSE
      /\ UNCHANGED <<cache, pc, copy, before, tag>>
  BY DEF ServerWrite
<1>2. VersionsInv' /\ FinalizerInv' /\ WorkerInv'
  BY <1>1 DEF RuntimeInv, VersionsInv, FinalizerInv, WorkerInv
<1>3. Specified(server)' /\ Specified(cache)' /\ Specified(copy)'
  BY <1>1 DEF RuntimeInv, Specified
<1> QED BY <1>2, <1>3 DEF Rest

(* The users, the informer, the dependencies and a restart keep it. *)
LEMMA OutsideStepPreserves ==
  ASSUME RuntimeInv,
         UserCreate \/ UserEdit \/ UserDelete \/ ReleaseOther \/ ChangeDeps \/ Crash \/ Sync
  PROVE  RuntimeInv'
<1>0. RuntimeTypeOK'
  BY OutsideStepTyped DEF RuntimeInv
<1>t. /\ server \in CRs /\ (server.fin => server.exists) /\ (server.create # "Create" => asked)
      /\ server.exists => server.want \in Configs
  BY DEF RuntimeInv, RuntimeTypeOK, FinalizerInv, Specified
<1>1. CASE UserCreate
  <2>1. PICK p \in CreationPolicies, d \in DeletionPolicies, w \in Configs :
          ServerWrite(NewResource(p, d, w)) /\ asked' = (asked \/ p # "Create")
    BY <1>1 DEF UserCreate
  <2>2. ~server.fin
    BY <1>t, <1>1 DEF UserCreate
  <2>3. NewResource(p, d, w).want = w
    BY DEF NewResource, NoCR
  <2> QED BY <1>0, <2>1, <2>2, <2>3, NewResourceFields, ServerWriteKeeps DEF RuntimeInv, Rest
<1>2. CASE UserEdit
  <2>1. PICK p \in CreationPolicies, d \in DeletionPolicies, w \in Configs :
          ServerWrite(WithSpec(server, p, d, w)) /\ asked' = (asked \/ p # "Create")
    BY <1>2 DEF UserEdit
  <2> DEFINE c == WithSpec(server, p, d, w)
  <2>2. /\ c \in CRs /\ c.create = p /\ c.bind = server.bind
        /\ c.fin = server.fin /\ c.exists = server.exists
    BY <1>t, SpecUpdate
  <2>3. c.want = w
    BY <1>t DEF WithSpec, CRs
  <2> HIDE DEF c
  <2>4. (asked => asked') /\ (c.create # "Create" => asked')
    BY <2>1, <2>2
  <2>5. Rest'
    BY <1>t, <2>1, <2>2, <2>3, <2>4, ServerWriteKeeps DEF c
  <2> QED BY <1>0, <2>5 DEF RuntimeInv, Rest
<1>3. CASE UserDelete \/ ReleaseOther
  <2>1. asked' = asked
    BY <1>3 DEF UserDelete, ReleaseOther
  <2>2. CASE \E o \in BOOLEAN : ServerWrite(Terminating(server, o))
    <3>1. PICK o \in BOOLEAN : ServerWrite(Terminating(server, o))
      BY <2>2
    <3>2. Terminating(server, o).want = server.want
      BY <1>t DEF Terminating, CRs
    <3>a. /\ Terminating(server, o) \in CRs /\ Terminating(server, o).create = server.create
          /\ Terminating(server, o).fin = server.fin
          /\ Terminating(server, o).exists = server.exists
      BY <1>t, TerminatingUpdate
    <3>3. Rest'
      BY <1>t, <2>1, <3>1, <3>2, <3>a, ServerWriteKeeps
    <3> QED BY <1>0, <3>3 DEF RuntimeInv, Rest
  <2>3. CASE ~server.fin /\ ServerWrite(NoCR)
    BY <1>0, <2>1, <2>3, NoCRTyped, NoCRFields, ServerWriteKeeps DEF RuntimeInv, Rest
  <2> QED BY <1>3, <2>2, <2>3 DEF UserDelete, ReleaseOther
<1>4. CASE ChangeDeps
  BY <1>0, <1>4 DEF ChangeDeps, RuntimeInv, VersionsInv, FinalizerInv, WorkerInv, Specified
<1>5. CASE Crash
  <2>1. Finish(TRUE) /\ cache' = server /\ synced' = TRUE /\ UNCHANGED <<server, asked>>
    BY <1>5 DEF Crash
  <2>2. VersionsInv' /\ FinalizerInv' /\ WorkerInv' /\ Specified(copy)'
    BY <2>1, FinishForgets DEF RuntimeInv, VersionsInv, FinalizerInv, WorkSteps
  <2>3. Specified(server)' /\ Specified(cache)'
    BY <2>1 DEF RuntimeInv, Specified
  <2> QED BY <1>0, <2>2, <2>3 DEF RuntimeInv
<1>6. CASE Sync
  <2>1. cache' = server /\ synced' = TRUE /\ UNCHANGED <<server, pc, copy, before, fresh, tag, asked>>
    BY <1>6 DEF Sync
  <2>2. VersionsInv' /\ WorkerInv'
    BY <2>1 DEF RuntimeInv, VersionsInv, WorkerInv
  <2>3. FinalizerInv'
    BY <2>1 DEF RuntimeInv, FinalizerInv, VersionsInv, SameButBinding
  <2>4. Specified(server)' /\ Specified(cache)' /\ Specified(copy)'
    BY <2>1 DEF RuntimeInv, Specified
  <2> QED BY <1>0, <2>2, <2>3, <2>4 DEF RuntimeInv
<1> QED BY <1>1, <1>2, <1>3, <1>4, <1>5, <1>6

----------------------------------------------------------------------------
(* Writes of the stored resource *)

(* The ways in which the stored resource changes. *)
ServerStep ==
  \/ server' = server
  \/ server' = WithFinalizer(server, TRUE)
  \/ pc = "report" /\ fresh /\ server' = WithStatus(server, copy.bind, Condition(tag, copy))
  \/ pc = "ready" /\ fresh /\ server' = WithStatus(server, copy.bind, Condition("Reconciled", copy))
  \/ pc = "cleanup" /\ fresh /\ server' = WithStatus(server, server.bind, Condition(tag, copy))
  \/ /\ pc = "unfinalize" /\ fresh
     /\ server' = WithFinalizer(server, FALSE) \/ server' = NoCR
  \/ /\ ~server.exists
     /\ \E p \in CreationPolicies, d \in DeletionPolicies, w \in Configs : server' = NewResource(p, d, w)
  \/ \E p \in CreationPolicies, d \in DeletionPolicies, w \in Configs : server' = WithSpec(server, p, d, w)
  \/ \E o \in BOOLEAN : server' = Terminating(server, o)
  \/ ~server.fin /\ server' = NoCR

(* Every step of the worker on the resource, and of the parties outside,   *)
(* changes it in one of these ways.                                        *)
LEMMA RuntimeServerSteps ==
  ASSUME \/ Dequeue \/ EnsureFinalizer \/ ReportFailure \/ RecordCleanupFailure
         \/ RecordReady \/ RemoveFinalizer
         \/ UserCreate \/ UserEdit \/ UserDelete \/ ReleaseOther \/ ChangeDeps \/ Crash \/ Sync
  PROVE  ServerStep
<1>1. CASE Dequeue \/ EnsureFinalizer
  BY <1>1 DEF Dequeue, EnsureFinalizer, Accepted, Rejected, ServerStep
<1>2. CASE RecordReady
  BY <1>2 DEF RecordReady, Accepted, Rejected, ServerStep
<1>3. CASE ReportFailure
  BY <1>3 DEF ReportFailure, Accepted, Rejected, ServerStep
<1>4. CASE RecordCleanupFailure
  BY <1>4 DEF RecordCleanupFailure, Accepted, Rejected, ServerStep
<1>5. CASE RemoveFinalizer
  BY <1>5 DEF RemoveFinalizer, Accepted, Rejected, ServerStep
<1>6. CASE UserCreate \/ UserEdit
  BY <1>6 DEF UserCreate, UserEdit, ServerWrite, ServerStep
<1>7. CASE UserDelete \/ ReleaseOther
  BY <1>7 DEF UserDelete, ReleaseOther, ServerWrite, ServerStep
<1>8. CASE ChangeDeps \/ Crash \/ Sync
  BY <1>8 DEF ChangeDeps, Crash, Sync, ServerStep
<1> QED BY <1>1, <1>2, <1>3, <1>4, <1>5, <1>6, <1>7, <1>8

(* The ways in which the status of a stored resource changes. *)
StatusStep ==
  \/ server'.bind = server.bind /\ server'.ready = server.ready
  \/ ~server.exists /\ server'.bind = Unbound /\ server'.ready.tag = "None"
  \/ /\ pc = "report" /\ fresh /\ server'.bind = copy.bind
     /\ server'.ready = Condition(tag, copy) /\ server'.ready.tag = tag
  \/ /\ pc = "cleanup" /\ fresh /\ server'.bind = server.bind
     /\ server'.ready = Condition(tag, copy) /\ server'.ready.tag = tag
  \/ /\ pc = "ready" /\ fresh /\ server'.bind = copy.bind
     /\ server'.ready = Condition("Reconciled", copy) /\ server'.ready.tag = "Reconciled"
     /\ server'.want = server.want /\ server'.gen = server.gen

(* The finalizer is lost only through removeFinalizer with a current copy, *)
(* and the status changes only through the three writers of conditions.    *)
LEMMA ServerStepFields ==
  ASSUME RuntimeTypeOK, ServerStep
  PROVE  /\ server.exists /\ server.fin /\ ~(server'.exists /\ server'.fin)
              => pc = "unfinalize" /\ fresh
         /\ server'.exists => StatusStep
<1>0. /\ server \in CRs /\ copy \in CRs /\ tag \in Tags /\ "Reconciled" \in Tags
      /\ copy.bind \in Binds /\ server.bind \in Binds
  BY CRFields DEF RuntimeTypeOK, Tags
<1>c. /\ Condition(tag, copy) \in Conditions /\ Condition("Reconciled", copy) \in Conditions
      /\ Condition(tag, copy).tag = tag /\ Condition("Reconciled", copy).tag = "Reconciled"
  BY <1>0, ConditionTyped DEF Condition
<1>1. CASE server' = server
  BY <1>1 DEF StatusStep
<1>2. CASE server' = WithFinalizer(server, TRUE)
  <2>1. /\ server'.fin = TRUE /\ server'.bind = server.bind
        /\ server'.exists = server.exists /\ server'.ready = server.ready
    BY <1>0, <1>2, FinalizerUpdate
  <2> QED BY <2>1 DEF StatusStep
<1>3. CASE pc = "report" /\ fresh /\ server' = WithStatus(server, copy.bind, Condition(tag, copy))
  <2>1. /\ server'.fin = server.fin /\ server'.bind = copy.bind
        /\ server'.exists = server.exists /\ server'.ready = Condition(tag, copy)
    BY <1>0, <1>c, <1>3, StatusUpdate
  <2> QED BY <1>3, <1>c, <2>1 DEF StatusStep
<1>4. CASE pc = "ready" /\ fresh /\ server' = WithStatus(server, copy.bind, Condition("Reconciled", copy))
  <2>1. /\ server'.fin = server.fin /\ server'.bind = copy.bind
        /\ server'.exists = server.exists /\ server'.ready = Condition("Reconciled", copy)
        /\ server'.want = server.want /\ server'.gen = server.gen
    BY <1>0, <1>c, <1>4, StatusUpdate
  <2> QED BY <1>4, <1>c, <2>1 DEF StatusStep
<1>5. CASE pc = "cleanup" /\ fresh /\ server' = WithStatus(server, server.bind, Condition(tag, copy))
  <2>1. /\ server'.fin = server.fin /\ server'.bind = server.bind
        /\ server'.exists = server.exists /\ server'.ready = Condition(tag, copy)
    BY <1>0, <1>c, <1>5, StatusUpdate
  <2> QED BY <1>5, <1>c, <2>1 DEF StatusStep
<1>6. CASE /\ pc = "unfinalize" /\ fresh
           /\ server' = WithFinalizer(server, FALSE) \/ server' = NoCR
  <2>1. /\ WithFinalizer(server, FALSE).bind = server.bind
        /\ WithFinalizer(server, FALSE).ready = server.ready
    BY <1>0, FinalizerUpdate
  <2> QED BY <1>6, <2>1, NoCRFields DEF StatusStep
<1>7. CASE /\ ~server.exists
           /\ \E p \in CreationPolicies, d \in DeletionPolicies, w \in Configs : server' = NewResource(p, d, w)
  <2>1. PICK p \in CreationPolicies, d \in DeletionPolicies, w \in Configs : server' = NewResource(p, d, w)
    BY <1>7
  <2>2. NewResource(p, d, w).ready.tag = "None" /\ NewResource(p, d, w).bind = Unbound
    BY NewResourceFields
  <2>3. server'.ready.tag = "None" /\ server'.bind = Unbound
    BY <2>1, <2>2
  <2> QED BY <1>7, <2>3 DEF StatusStep
<1>8. CASE \E p \in CreationPolicies, d \in DeletionPolicies, w \in Configs : server' = WithSpec(server, p, d, w)
  <2>1. /\ server'.fin = server.fin /\ server'.bind = server.bind
        /\ server'.exists = server.exists /\ server'.ready = server.ready
    BY <1>0, <1>8, SpecUpdate
  <2> QED BY <2>1 DEF StatusStep
<1>9. CASE \E o \in BOOLEAN : server' = Terminating(server, o)
  <2>0. PICK o \in BOOLEAN : server' = Terminating(server, o)
    BY <1>9
  <2>1. /\ server'.fin = server.fin /\ server'.bind = server.bind
        /\ server'.exists = server.exists /\ server'.ready = server.ready
    BY <1>0, <2>0, TerminatingUpdate
  <2> QED BY <2>1 DEF StatusStep
<1>10. CASE ~server.fin /\ server' = NoCR
  BY <1>10, NoCRFields
<1> QED BY <1>1, <1>2, <1>3, <1>4, <1>5, <1>6, <1>7, <1>8, <1>9, <1>10 DEF ServerStep

----------------------------------------------------------------------------
(* The queue *)

(* Nothing is queued, nothing under way, and there is no resource. *)
LEMMA QueueInit ==
  ASSUME RuntimeInit
  PROVE  QueueInv
  BY NoCRFields DEF RuntimeInit, QueueInv, NothingForgotten, Settled

(* A step within Reconcile, and one that concerns neither the queue, the   *)
(* informer nor the resource.                                              *)
LEMMA QueueMove ==
  ASSUME QueueInv, UNCHANGED <<synced, queued, fresh>>,
         (pc # "idle" /\ pc' # "idle") \/ UNCHANGED <<server, pc>>
  PROVE  QueueInv'
<1>1. CASE pc # "idle" /\ pc' # "idle"
  BY <1>1 DEF QueueInv, NothingForgotten
<1>2. CASE UNCHANGED <<server, pc>>
  BY <1>2 DEF QueueInv, NothingForgotten, Settled, Condition
<1> QED BY <1>1, <1>2

(* An event that has not arrived, or a queued key, is enough. *)
LEMMA QueueAwake ==
  ASSUME ~synced' \/ queued'
  PROVE  QueueInv'
  BY DEF QueueInv, NothingForgotten

(* Reconcile returns without a write: what it worked on was current, or    *)
(* its key or an event is on the way.                                      *)
LEMMA QueueReturn ==
  ASSUME VersionsInv, QueueInv, pc # "idle", NEW r \in BOOLEAN, Finish(r), UNCHANGED kubeVars,
         ~r => /\ ~copy.deleting => ~DriftChecks /\ copy.ready = Condition("Reconciled", copy)
               /\ copy.deleting => ~copy.fin
  PROVE  QueueInv'
<1>1. /\ pc' = "idle" /\ queued' = (queued \/ r) /\ server' = server /\ synced' = synced
  BY DEF Finish, kubeVars
<1>2. SUFFICES ASSUME synced, ~queued, ~r PROVE Settled'
  <2>1. SUFFICES ASSUME synced', ~queued' PROVE Settled'
    BY <1>1 DEF QueueInv, NothingForgotten
  <2>2. ~(queued \/ r)
    <3>1. ASSUME queued \/ r PROVE queued'
      BY <1>1, <3>1, Zenon
    <3> QED BY <2>1, <3>1
  <2>3. synced' = synced
    BY <1>1
  <2>4. synced
    BY <2>1, <2>3
  <2> QED BY <2>2, <2>4
<1>3. fresh
  BY <1>2 DEF QueueInv
<1>4. SameButBinding(copy, server)
  BY <1>3 DEF VersionsInv
<1>5. Settled
  BY <1>2, <1>4 DEF SameButBinding, Settled, Condition
<1> QED BY <1>1, <1>5 DEF Settled, Condition

(* The worker's steps that talk to the API server. *)
LEMMA QueueStep ==
  ASSUME VersionsInv, WorkerInv, QueueInv,
         \/ Dequeue \/ EnsureFinalizer \/ ReportFailure
         \/ RecordCleanupFailure \/ RecordReady \/ RemoveFinalizer
  PROVE  QueueInv'
<1>1. ASSUME Rejected PROVE QueueInv'
  <2>1. queued'
    BY <1>1 DEF Rejected, Finish
  <2> QED BY <2>1, QueueAwake
<1>2. ASSUME NEW c, Accepted(c) PROVE QueueInv'
  <2>1. ~synced'
    BY <1>2 DEF Accepted
  <2> QED BY <2>1, QueueAwake
<1>3. ASSUME Finish(TRUE) PROVE QueueInv'
  <2>1. queued'
    BY <1>3 DEF Finish
  <2> QED BY <2>1, QueueAwake
<1>4. CASE Dequeue
  <2>1. pc' = AfterGet(cache) /\ server' = server /\ synced' = synced /\ queued' = FALSE
    BY <1>4 DEF Dequeue, kubeVars
  <2>2. CASE cache.exists
    <3>1. fresh' = synced /\ pc' # "idle"
      BY <1>4, <2>1, <2>2 DEF Dequeue, AfterGet
    <3> QED BY <2>1, <3>1 DEF QueueInv, NothingForgotten
  <2>3. CASE ~cache.exists
    <3>1. pc' = "idle"
      BY <2>1, <2>3 DEF AfterGet
    <3>2. synced => ~server.exists
      BY <2>3 DEF VersionsInv
    <3> QED BY <2>1, <3>1, <3>2 DEF QueueInv, NothingForgotten, Settled
  <2> QED BY <2>2, <2>3
<1>5. CASE EnsureFinalizer
  BY <1>1, <1>2, <1>5 DEF EnsureFinalizer
<1>6. CASE ReportFailure
  BY <1>1, <1>2, <1>3, <1>6 DEF ReportFailure, RequeueWhenFailed
<1>7. CASE RecordCleanupFailure
  BY <1>1, <1>2, <1>3, <1>7 DEF RecordCleanupFailure, RequeueForCleanup
<1>8. CASE RecordReady
  <2>1. CASE copy.ready = Condition("Reconciled", copy) /\ Finish(RequeueWhenReady) /\ UNCHANGED kubeVars
    <3>1. pc # "idle" /\ ~copy.deleting /\ DriftChecks \in BOOLEAN
      BY <1>8, DriftAssumption DEF RecordReady, WorkerInv, WorkSteps
    <3> QED BY <2>1, <3>1, QueueReturn DEF RequeueWhenReady
  <2> QED BY <1>1, <1>2, <1>8, <2>1 DEF RecordReady
<1>9. CASE RemoveFinalizer
  <2>1. CASE ~copy.fin /\ Finish(FALSE) /\ UNCHANGED kubeVars
    <3>1. pc # "idle" /\ copy.deleting
      BY <1>9 DEF RemoveFinalizer, WorkerInv, DeleteSteps
    <3> QED BY <2>1, <3>1, QueueReturn
  <2> QED BY <1>1, <1>2, <1>9, <2>1 DEF RemoveFinalizer
<1> QED BY <1>4, <1>5, <1>6, <1>7, <1>8, <1>9

(* The user, the API server, the informer, the dependencies, restarts. *)
LEMMA QueueOutside ==
  ASSUME QueueInv,
         UserCreate \/ UserEdit \/ UserDelete \/ ReleaseOther \/ Sync \/ ChangeDeps \/ Crash
  PROVE  QueueInv'
<1>1. ASSUME NEW c, ServerWrite(c) PROVE QueueInv'
  <2>1. ~synced'
    BY <1>1 DEF ServerWrite
  <2> QED BY <2>1, QueueAwake
<1>2. CASE UserCreate \/ UserEdit \/ UserDelete \/ ReleaseOther
  BY <1>1, <1>2 DEF UserCreate, UserEdit, UserDelete, ReleaseOther
<1>3. CASE Sync
  BY <1>3, QueueAwake DEF Sync
<1>4. CASE ChangeDeps
  <2>1. UNCHANGED <<server, synced, pc, fresh>> /\ (queued' = queued \/ queued' = TRUE)
    BY <1>4 DEF ChangeDeps, kubeVars, workerVars
  <2>2. CASE queued' = queued
    BY <2>1, <2>2, QueueMove
  <2>3. CASE queued' = TRUE
    BY <2>3, QueueAwake
  <2> QED BY <2>1, <2>2, <2>3
<1>5. CASE Crash
  <2>1. queued'
    BY <1>5 DEF Crash, Finish
  <2> QED BY <2>1, QueueAwake
<1> QED BY <1>2, <1>3, <1>4, <1>5
=============================================================================
