------------------------ MODULE NameLifecycleProofs ------------------------
(***************************************************************************)
(* Proofs about NameLifecycle, for every set of names, configurations and  *)
(* kinds and every bound.  ControllerRuntimeProofs takes care of the       *)
(* resource, the informer and the finalizer; what is left is the marker,   *)
(* OpenBao's objects and the steps of the worker.                          *)
(***************************************************************************)
EXTENDS NameLifecycle, ControllerRuntimeProofs

USE DEF kubeVars, workerVars, envVars, baoVars, hitVars, reconcileVars, RestOfBao, Names

----------------------------------------------------------------------------
(* Kinds, names and objects *)

(* The traits are Boolean. *)
LEMMA TraitsFacts ==
  ASSUME kind \in Kinds
  PROVE  /\ Traits.movable \in BOOLEAN /\ Traits.recompares \in BOOLEAN
         /\ Traits.tunes \in BOOLEAN /\ Traits.marks \in BOOLEAN
  BY KindsAssumption
  DEF KindNames, Traits, PolicyTraits, OIDCTraits, MountTraits, SystemTraits, QuotaTraits,
      ConfigTraits, RotationTraits, MFAMethodTraits

(* A resource keeps its kind, and with it its traits. *)
LEMMA SameTraits ==
  ASSUME kind' = kind
  PROVE  Traits' = Traits
  BY DEF Traits

(* What is recorded as acquired stays so. *)
LEMMA StaysVouched ==
  ASSUME kind' = kind, owned \subseteq owned', Vouched
  PROVE  Vouched'
  BY SameTraits DEF Vouched

(* Reconcile works on a resource that has a name. *)
LEMMA PathTyped ==
  ASSUME IndInv, pc # "idle"
  PROVE  /\ copy \in CRs /\ copy.exists /\ copy.want \in Configs /\ Path(copy) \in Names
         /\ ~Traits.movable => Path(copy) = Home
         /\ store[Path(copy)] \in Objects
<1>1. copy \in CRs /\ copy.exists /\ copy.want \in Configs
  BY DEF IndInv, RuntimeInv, RuntimeTypeOK, WorkerInv, Specified
<1>2. Path(copy) \in Names
  BY <1>1, HomeAssumption, PathAssumption DEF Path
<1> QED BY <1>1, <1>2 DEF Path, IndInv, TypeOK

(* The name depends on the spec alone. *)
LEMMA SamePath ==
  ASSUME kind' = kind, SameButBinding(copy', copy)
  PROVE  Path(copy)' = Path(copy)
  BY SameTraits DEF Path, SameButBinding

(* The marker of an acquired object is its name. *)
LEMMA MarkFacts ==
  ASSUME IndInv, pc # "idle"
  PROVE  /\ MarkAcquired(copy) \in CRs
         /\ SameButBinding(MarkAcquired(copy), copy)
         /\ Traits.marks => MarkAcquired(copy).bind = Path(copy)
         /\ ~Traits.marks => MarkAcquired(copy).bind = copy.bind
<1>1. Path(copy) \in Binds /\ copy \in CRs
  BY PathTyped DEF Binds
<1>2. SameButBinding(copy, copy)
  BY DEF SameButBinding
<1> QED BY <1>1, <1>2, BindingUpdate DEF MarkAcquired

(* What a write of the operator leaves at the name is an object. *)
LEMMA WriteTyped ==
  ASSUME IndInv, pc # "idle", NEW w \in Configs \cup {NoConfig},
         Put(Path(copy), [cfg |-> w, maker |-> Maker(Path(copy))])
  PROVE  store' \in [Names -> Objects]
<1>1. [cfg |-> w, maker |-> Maker(Path(copy))] \in Objects
  BY PathTyped DEF Objects, Maker
<1> QED BY <1>1, PathTyped DEF Put, IndInv, TypeOK

(* Creating and writing give an object a configuration. *)
LEMMA ConfigTyped ==
  ASSUME IndInv, pc # "idle"
  PROVE  /\ Created(copy.want) \in Configs
         /\ Written(store[Path(copy)].cfg, copy.want) \in Configs \cup {NoConfig}
         /\ ~Traits.tunes => /\ Created(copy.want) = copy.want
                             /\ Written(store[Path(copy)].cfg, copy.want) = copy.want
  BY PathTyped, MountAssumption DEF Created, Written, Objects

----------------------------------------------------------------------------
(* The steps that call OpenBao *)

(* What such a step leaves alone, and what it has to establish. *)
CallOK ==
  /\ WorkerMoves /\ UNCHANGED <<kind, owned>>
  /\ store' \in [Names -> Objects] /\ vacant' \in BOOLEAN /\ applied' \in BOOLEAN
  /\ overwritten' \subseteq Names /\ erased' \subseteq Names /\ gone' \in Names \cup {Unbound}
  /\ ControlInv' /\ NoForeignOverwrite'

(* The types that a step may rely on. *)
LEMMA BaoTypes ==
  ASSUME IndInv
  PROVE  /\ store \in [Names -> Objects] /\ vacant \in BOOLEAN /\ applied \in BOOLEAN
         /\ overwritten \subseteq Names /\ erased \subseteq Names /\ owned \subseteq Names
         /\ gone \in Names \cup {Unbound} /\ kind \in Kinds
         /\ budget \in 0 .. EnvBudget /\ tag \in Tags /\ copy \in CRs
  BY DEF IndInv, TypeOK, RuntimeTypeOK

(* Overwriting nothing new is permitted. *)
LEMMA NoNewHit ==
  ASSUME IndInv, UNCHANGED <<kind, owned, asked, overwritten>>
  PROVE  NoForeignOverwrite'
  BY SameTraits DEF IndInv, NoForeignOverwrite

(* The failure of a step is reported. *)
LEMMA FailureOK ==
  ASSUME IndInv, pc \in WorkSteps \ {"ready"},
         NEW t \in Tags \ {"Reconciled"}, Fail(t),
         t = "AlreadyExists" /\ Traits.marks => copy.bind = Unbound,
         UNCHANGED <<server, cache, synced, copy, deps, creates, asked, kind, owned, gone>>,
         budget' \in 0 .. EnvBudget, store' \in [Names -> Objects], vacant' \in BOOLEAN,
         applied' \in BOOLEAN, overwritten' \subseteq Names, erased' = erased, NoForeignOverwrite'
  PROVE  CallOK
<1>1. pc' = "report" /\ tag' = t /\ UNCHANGED <<queued, before, fresh>>
  BY DEF Fail
<1>2. SameButBinding(copy', copy)
  BY DEF SameButBinding
<1>3. WorkerMoves
  BY <1>1, <1>2, BaoTypes DEF WorkerMoves, WorkSteps
<1>4. ControlInv'
  BY <1>1, SameTraits, StaysVouched DEF IndInv, ControlInv
<1> QED BY <1>3, <1>4, BaoTypes DEF CallOK

(* OpenBao is unreachable during a step that would have read or written. *)
LEMMA UnavailableOK ==
  ASSUME IndInv, pc \in WorkSteps \ {"ready"}, Unavailable,
         NEW t \in Tags \ {"Reconciled", "AlreadyExists"}, Fail(t),
         UNCHANGED <<deps, creates, asked, kind, owned>>
  PROVE  CallOK
<1>1. budget' \in 0 .. EnvBudget
  BY BaoTypes, SpendTyped DEF Unavailable
<1> QED BY <1>1, FailureOK, NoNewHit, BaoTypes DEF Unavailable

(* A refusal that nothing but the worker's step reflects. *)
LEMMA RefusalOK ==
  ASSUME IndInv, pc \in WorkSteps \ {"ready"}, NEW t \in Tags \ {"Reconciled"}, Fail(t),
         t = "AlreadyExists" /\ Traits.marks => copy.bind = Unbound,
         UNCHANGED <<kubeVars, envVars, copy, kind, baoVars, owned, reconcileVars>>
  PROVE  CallOK
  BY FailureOK, NoNewHit, BaoTypes

(* The worker goes on to another step without having written to OpenBao. *)
LEMMA MoveOK ==
  ASSUME IndInv, pc \in WorkSteps, pc' \in WorkSteps \ {"report"},
         UNCHANGED <<kubeVars, envVars, queued, before, fresh, tag, kind, baoVars, owned, gone>>,
         copy' \in CRs, SameButBinding(copy', copy), vacant' \in BOOLEAN, applied' \in BOOLEAN,
         ControlInv'
  PROVE  CallOK
<1>1. WorkerMoves
  BY BaoTypes DEF WorkerMoves, WorkSteps
<1> QED BY <1>1, NoNewHit, BaoTypes DEF CallOK

(* Resolving the dependencies keeps the invariant. *)
LEMMA ResolveOK ==
  ASSUME IndInv, Resolve
  PROVE  CallOK
<1>1. pc = "resolve" /\ UNCHANGED <<kubeVars, envVars, copy, kind, baoVars, owned, reconcileVars>>
  BY DEF Resolve
<1>2. CASE \E t \in {"DependencyNotReady", "InvalidSpec"} : Fail(t)
  BY <1>1, <1>2, RefusalOK DEF WorkSteps, Tags
<1>3. CASE Goto("lookup")
  <2>1. SameButBinding(copy', copy)
    BY <1>1 DEF SameButBinding
  <2>2. ControlInv'
    BY <1>1, <1>3, SameTraits, StaysVouched DEF IndInv, ControlInv, Goto
  <2> QED BY <1>1, <1>3, <2>1, <2>2, MoveOK, BaoTypes DEF Goto, WorkSteps
<1> QED BY <1>2, <1>3 DEF Resolve

(* What comparing the object that was read with the spec leads to; a write *)
(* to an object that was found needs a permission.                         *)
LEMMA CompareOK ==
  ASSUME IndInv, pc \in {"lookup", "readBack"}, Compare(Path(copy)),
         UNCHANGED <<kubeVars, baoVars, budget, vacant, gone, deps, creates, asked, kind, owned>>,
         vacant \/ asked \/ Vouched
  PROVE  CallOK
<1>0. applied' \in BOOLEAN /\ copy \in CRs /\ copy.bind = before
  BY BaoTypes DEF Compare, IndInv, ControlInv
<1>1. CASE Fail("InvalidSpec") /\ UNCHANGED copy
  BY <1>0, <1>1, FailureOK, NoNewHit, BaoTypes DEF WorkSteps, Tags
<1>2. CASE Matches(store[Path(copy)].cfg, copy.want) /\ copy' = MarkAcquired(copy) /\ Goto("ready")
  <2>1. /\ copy' \in CRs /\ SameButBinding(copy', copy)
        /\ Traits.marks => copy'.bind = Path(copy)
        /\ ~Traits.marks => copy'.bind = copy.bind
    BY <1>2, MarkFacts
  <2>2. Path(copy)' = Path(copy)
    BY <2>1, SamePath
  <2>3. ~Traits.tunes => applied'
    BY <1>2 DEF Compare, Matches
  <2>4. ControlInv'
    BY <1>0, <1>2, <2>1, <2>2, <2>3, SameTraits, StaysVouched DEF ControlInv, Goto
  <2> QED BY <1>0, <1>2, <2>1, <2>4, MoveOK, BaoTypes DEF Goto, WorkSteps
<1>3. CASE Goto("update") /\ UNCHANGED copy
  <2>1. SameButBinding(copy', copy)
    BY <1>3 DEF SameButBinding
  <2>2. ControlInv'
    BY <1>0, <1>3, SameTraits, StaysVouched DEF ControlInv, Goto
  <2> QED BY <1>0, <1>3, <2>1, <2>2, MoveOK, BaoTypes DEF Goto, WorkSteps
<1> QED BY <1>1, <1>2, <1>3 DEF Compare

(* Reading by name and applying the creation policy keeps the invariant. *)
LEMMA LookupOK ==
  ASSUME IndInv, Lookup
  PROVE  CallOK
<1> DEFINE n == Path(copy)
<1>0. pc = "lookup" /\ UNCHANGED <<deps, creates, asked, kind, owned>> /\ copy.bind = before
  BY DEF Lookup, IndInv, ControlInv
<1>1. CASE /\ \E t \in {"NotAllowed", "InvalidSpec"} : Fail(t)
           /\ UNCHANGED <<kubeVars, baoVars, copy, budget, reconcileVars>>
  BY <1>0, <1>1, RefusalOK DEF WorkSteps, Tags
<1>2. CASE /\ Goto("create") /\ vacant' = TRUE
           /\ UNCHANGED <<kubeVars, baoVars, copy, budget, gone, applied>>
  <2>1. SameButBinding(copy', copy)
    BY <1>2 DEF SameButBinding
  <2>2. ControlInv'
    BY <1>0, <1>2, SameTraits, StaysVouched DEF IndInv, ControlInv, Goto
  <2> QED BY <1>0, <1>2, <2>1, <2>2, MoveOK, BaoTypes DEF Goto, WorkSteps
<1>3. CASE /\ ~Acquired(copy) /\ Fail("AlreadyExists")
           /\ UNCHANGED <<kubeVars, baoVars, copy, budget, reconcileVars>>
  <2>1. Traits.marks => copy.bind = Unbound
    BY <1>3 DEF Acquired
  <2> QED BY <1>0, <1>3, <2>1, RefusalOK DEF WorkSteps, Tags
<1>4. CASE /\ Acquired(copy) \/ AllowsAdoption(copy.create)
           /\ Compare(n) /\ UNCHANGED <<kubeVars, baoVars, budget, vacant, gone>>
  <2>1. CASE Acquired(copy)
    <3>1. Vouched
      BY <1>0, <2>1 DEF Acquired, IndInv, BindingsInv, Known, Vouched
    <3> QED BY <1>0, <1>4, <3>1, CompareOK
  <2>2. CASE AllowsAdoption(copy.create)
    <3>1. asked
      BY <2>2 DEF AllowsAdoption, IndInv, RuntimeInv, Specified
    <3> QED BY <1>0, <1>4, <3>1, CompareOK
  <2> QED BY <1>4, <2>1, <2>2
<1>5. CASE Unavailable /\ Fail("AcquireFailed")
  BY <1>0, <1>5, UnavailableOK DEF WorkSteps, Tags
<1> QED BY <1>1, <1>2, <1>3, <1>4, <1>5 DEF Lookup

(* A write that is permitted overwrites nothing it may not. *)
LEMMA HitWriteOK ==
  ASSUME IndInv, pc # "idle", HitWrite(Path(copy)), UNCHANGED <<kind, owned, asked>>,
         vacant \/ asked \/ Vouched
  PROVE  overwritten' \subseteq Names /\ erased' = erased /\ NoForeignOverwrite'
<1>1. overwritten' \subseteq Names
  BY PathTyped, BaoTypes DEF HitWrite
<1>2. NoForeignOverwrite'
  BY PathTyped, SameTraits DEF HitWrite, IndInv, NoForeignOverwrite, Vouched
<1> QED BY <1>1, <1>2 DEF HitWrite

(* The create call keeps the invariant, whatever OpenBao answers. *)
LEMMA CreateOK ==
  ASSUME IndInv, Create
  PROVE  CallOK
<1> DEFINE n == Path(copy)
<1>0. /\ pc = "create" /\ UNCHANGED <<deps, creates, asked, kind, owned>>
      /\ copy.bind = before /\ vacant
  BY DEF Create, IndInv, ControlInv
<1>1. CASE /\ Put(n, [cfg |-> Created(copy.want), maker |-> Maker(n)]) /\ HitWrite(n)
           /\ applied' = (applied \/ Created(copy.want) = copy.want)
           /\ \/ Goto(AfterCreate) /\ UNCHANGED budget
              \/ Spend /\ Fail("AcquireFailed")
           /\ UNCHANGED <<kubeVars, copy, vacant, gone>>
  <2>1. store' \in [Names -> Objects]
    BY <1>0, <1>1, WriteTyped, ConfigTyped
  <2>2. overwritten' \subseteq Names /\ erased' = erased /\ NoForeignOverwrite'
    BY <1>0, <1>1, HitWriteOK
  <2>3. applied' \in BOOLEAN /\ (~Traits.tunes => applied')
    BY <1>0, <1>1, BaoTypes, ConfigTyped
  <2>4. CASE Spend /\ Fail("AcquireFailed")
    <3>1. budget' \in 0 .. EnvBudget
      BY <2>4, SpendTyped, BaoTypes
    <3> QED BY <1>0, <1>1, <2>1, <2>2, <2>3, <2>4, <3>1, FailureOK, BaoTypes DEF WorkSteps, Tags
  <2>5. CASE Goto(AfterCreate) /\ UNCHANGED budget
    <3>1. pc' \in {"update", "readBack", "reread"} /\ UNCHANGED <<queued, before, fresh, tag>>
      BY <2>5, TraitsFacts, BaoTypes DEF Goto, AfterCreate
    <3>2. SameButBinding(copy', copy)
      BY <1>1 DEF SameButBinding
    <3>3. WorkerMoves
      BY <1>0, <1>1, <2>5, <3>1, <3>2, BaoTypes DEF WorkerMoves, WorkSteps
    <3>4. ControlInv'
      BY <1>0, <1>1, <2>3, <3>1, SameTraits, StaysVouched DEF ControlInv
    <3> QED BY <1>0, <1>1, <2>1, <2>2, <2>3, <3>3, <3>4, BaoTypes DEF CallOK
  <2> QED BY <1>1, <2>4, <2>5
<1>2. CASE Fail("CreateRefused") /\ UNCHANGED <<kubeVars, baoVars, copy, budget, reconcileVars>>
  BY <1>0, <1>2, RefusalOK DEF WorkSteps, Tags
<1>3. CASE Unavailable /\ Fail("AcquireFailed")
  BY <1>0, <1>3, UnavailableOK DEF WorkSteps, Tags
<1> QED BY <1>1, <1>2, <1>3 DEF Create

(* The comparison after a create keeps the invariant. *)
LEMMA ReadBackOK ==
  ASSUME IndInv, ReadBack
  PROVE  CallOK
<1>0. pc = "readBack" /\ UNCHANGED <<deps, creates, asked, kind, owned>> /\ vacant
  BY DEF ReadBack, IndInv, ControlInv
<1>1. CASE Compare(Path(copy)) /\ UNCHANGED <<kubeVars, baoVars, budget, vacant, gone>>
  BY <1>0, <1>1, CompareOK
<1>2. CASE Fail("ReadNotFound") /\ UNCHANGED <<kubeVars, baoVars, copy, budget, reconcileVars>>
  BY <1>0, <1>2, RefusalOK DEF WorkSteps, Tags
<1>3. CASE Unavailable /\ Fail("ReadFailed")
  BY <1>0, <1>3, UnavailableOK DEF WorkSteps, Tags
<1> QED BY <1>1, <1>2, <1>3 DEF ReadBack

(* The write to an object that differs keeps the invariant. *)
LEMMA UpdateOK ==
  ASSUME IndInv, Update
  PROVE  CallOK
<1> DEFINE n == Path(copy)
<1>0. /\ pc = "update" /\ UNCHANGED <<deps, creates, asked, kind, owned>> /\ copy.bind = before
      /\ vacant \/ asked \/ Vouched
  BY DEF Update, IndInv, ControlInv
<1>1. CASE /\ Put(n, [cfg |-> Written(store[n].cfg, copy.want), maker |-> Maker(n)]) /\ HitWrite(n)
           /\ applied' = (applied \/ Written(store[n].cfg, copy.want) = copy.want)
           /\ \/ Goto("reread") /\ UNCHANGED budget
              \/ Spend /\ Fail("UpdateFailed")
           /\ UNCHANGED <<kubeVars, copy, vacant, gone>>
  <2>1. store' \in [Names -> Objects]
    BY <1>0, <1>1, WriteTyped, ConfigTyped
  <2>2. overwritten' \subseteq Names /\ erased' = erased /\ NoForeignOverwrite'
    BY <1>0, <1>1, HitWriteOK
  <2>3. applied' \in BOOLEAN /\ (~Traits.tunes => applied')
    BY <1>0, <1>1, BaoTypes, ConfigTyped
  <2>4. CASE Spend /\ Fail("UpdateFailed")
    <3>1. budget' \in 0 .. EnvBudget
      BY <2>4, SpendTyped, BaoTypes
    <3> QED BY <1>0, <1>1, <2>1, <2>2, <2>3, <2>4, <3>1, FailureOK, BaoTypes DEF WorkSteps, Tags
  <2>5. CASE Goto("reread") /\ UNCHANGED budget
    <3>1. pc' = "reread" /\ UNCHANGED <<queued, before, fresh, tag>>
      BY <2>5 DEF Goto
    <3>2. SameButBinding(copy', copy)
      BY <1>1 DEF SameButBinding
    <3>3. WorkerMoves
      BY <1>0, <1>1, <2>5, <3>1, <3>2, BaoTypes DEF WorkerMoves, WorkSteps
    <3>4. ControlInv'
      BY <1>0, <1>1, <2>3, <3>1, SameTraits, StaysVouched DEF ControlInv
    <3> QED BY <1>0, <1>1, <2>1, <2>2, <2>3, <3>3, <3>4, BaoTypes DEF CallOK
  <2> QED BY <1>1, <2>4, <2>5
<1>2. CASE /\ \E t \in {"UpdateRefused", "UpdateNotFound"} : Fail(t)
           /\ UNCHANGED <<kubeVars, baoVars, copy, budget, reconcileVars>>
  BY <1>0, <1>2, RefusalOK DEF WorkSteps, Tags
<1>3. CASE Unavailable /\ Fail("UpdateFailed")
  BY <1>0, <1>3, UnavailableOK DEF WorkSteps, Tags
<1> QED BY <1>1, <1>2, <1>3 DEF Update

(* The last read keeps the invariant. *)
LEMMA RereadOK ==
  ASSUME IndInv, Reread
  PROVE  CallOK
<1>0. pc = "reread" /\ UNCHANGED <<deps, creates, asked, kind, owned>> /\ copy.bind = before
  BY DEF Reread, IndInv, ControlInv
<1>1. CASE /\ copy' = MarkAcquired(copy) /\ Goto("ready")
           /\ UNCHANGED <<kubeVars, baoVars, budget, reconcileVars>>
  <2>1. /\ copy' \in CRs /\ SameButBinding(copy', copy)
        /\ Traits.marks => copy'.bind = Path(copy)
        /\ ~Traits.marks => copy'.bind = copy.bind
    BY <1>0, <1>1, MarkFacts
  <2>2. Path(copy)' = Path(copy)
    BY <1>0, <2>1, SamePath
  <2>3. ControlInv'
    BY <1>0, <1>1, <2>1, <2>2, SameTraits, StaysVouched DEF IndInv, ControlInv, Goto
  <2> QED BY <1>0, <1>1, <2>1, <2>3, MoveOK, BaoTypes DEF Goto, WorkSteps
<1>2. CASE Fail("ReadNotFound") /\ UNCHANGED <<kubeVars, baoVars, copy, budget, reconcileVars>>
  BY <1>0, <1>2, RefusalOK DEF WorkSteps, Tags
<1>3. CASE Unavailable /\ Fail("ReadFailed")
  BY <1>0, <1>3, UnavailableOK DEF WorkSteps, Tags
<1> QED BY <1>1, <1>2, <1>3 DEF Reread

(* The start of a deletion keeps the invariant. *)
LEMMA DecideDeletionOK ==
  ASSUME IndInv, DecideDeletion
  PROVE  CallOK
<1>1. /\ pc = "delete" /\ copy.bind = before
      /\ UNCHANGED <<kubeVars, envVars, copy, kind, baoVars, owned, reconcileVars,
                     queued, before, fresh>>
      /\ \/ pc' = "unfinalize" /\ tag' = tag /\ ~ToDelete(copy)
         \/ pc' = "destroy" /\ tag' = tag
         \/ pc' = "cleanup" /\ tag' = "CleanupDependencyUnavailable"
  BY DEF DecideDeletion, Goto, IndInv, ControlInv
<1>2. SameButBinding(copy', copy)
  BY <1>1 DEF SameButBinding
<1>3. WorkerMoves
  BY <1>1, <1>2, BaoTypes DEF WorkerMoves, DeleteSteps, Tags
<1>4. ToDelete(copy)' <=> ToDelete(copy)
  BY <1>1, SameTraits DEF ToDelete, Acquired
<1>5. ControlInv'
  BY <1>1, <1>4, SameTraits, StaysVouched DEF ControlInv
<1> QED BY <1>1, <1>3, <1>5, NoNewHit, BaoTypes DEF CallOK

(* The delete call keeps the invariant, whatever OpenBao answers. *)
LEMMA DestroyOK ==
  ASSUME IndInv, Destroy
  PROVE  CallOK
<1> DEFINE n == Path(copy)
<1>0. pc = "destroy" /\ UNCHANGED <<deps, creates, asked, kind, owned>> /\ copy.bind = before
  BY DEF Destroy, IndInv, ControlInv
<1>1. /\ UNCHANGED <<kubeVars, copy, vacant, applied, overwritten, queued, before, fresh>>
      /\ \/ pc' = "unfinalize" /\ tag' = tag /\ gone' = n
         \/ pc' = "cleanup" /\ tag' = "CleanupFailed" /\ gone' = gone
      /\ \/ Put(n, Absent) /\ HitDelete(n)
         \/ store' = store /\ erased' = erased
      /\ budget' = budget \/ Spend
  BY DEF Destroy, CleanupFails, Goto, HitDelete, Unavailable
<1>2. store' \in [Names -> Objects]
  <2>1. Absent \in Objects
    BY DEF Absent, Objects
  <2> QED BY <1>0, <1>1, <2>1, BaoTypes DEF Put
<1>3. erased' \subseteq Names /\ gone' \in Names \cup {Unbound}
  BY <1>0, <1>1, PathTyped, BaoTypes DEF HitDelete
<1>4. SameButBinding(copy', copy)
  BY <1>1 DEF SameButBinding
<1>5. budget' \in 0 .. EnvBudget
  BY <1>1, SpendTyped, BaoTypes
<1>6. WorkerMoves
  BY <1>0, <1>1, <1>4, <1>5, BaoTypes DEF WorkerMoves, DeleteSteps, Tags
<1>7. Path(copy)' = n
  BY <1>0, <1>4, SamePath
<1>8. ControlInv'
  BY <1>0, <1>1, <1>7, SameTraits, StaysVouched DEF ControlInv
<1> QED BY <1>0, <1>1, <1>2, <1>3, <1>6, <1>8, NoNewHit, BaoTypes DEF CallOK

(* A step that calls OpenBao preserves the invariant. *)
LEMMA CallPreserves ==
  ASSUME IndInv, CallOK
  PROVE  IndInv'
<1>1. RuntimeInv'
  BY MovePreserves DEF IndInv, CallOK
<1>2. TypeOK'
  BY <1>1, BaoTypes DEF RuntimeInv, CallOK, TypeOK
<1>3. StatusInv' /\ BindingsInv'
  BY SameTraits DEF IndInv, CallOK, WorkerMoves, StatusInv, BindingsInv, Known
<1> QED BY <1>1, <1>2, <1>3 DEF IndInv, CallOK

----------------------------------------------------------------------------
(* The steps that talk to the API server *)

(* Reconcile returns, having written a status that the marker bears out.   *)
LEMMA ReturnPreserves ==
  ASSUME IndInv, RuntimeInv', NEW r, Finish(r), Forget, UNCHANGED <<RestOfBao, asked>>,
         cache' \in {cache, server}, owned \subseteq owned', owned' \subseteq Names,
         Known(server.bind)', StatusInv'
  PROVE  IndInv'
<1>1. TypeOK'
  BY BaoTypes DEF RuntimeInv, TypeOK, Forget
<1>2. BindingsInv'
  BY FinishForgets, SameTraits DEF IndInv, BindingsInv, Known
<1>3. ControlInv'
  BY FinishForgets DEF ControlInv
<1>4. NoForeignOverwrite'
  BY SameTraits DEF IndInv, NoForeignOverwrite
<1> QED BY <1>1, <1>2, <1>3, <1>4 DEF IndInv

(* Reconcile returns without having written. *)
LEMMA QuietReturnPreserves ==
  ASSUME IndInv, RuntimeInv', NEW r, Finish(r), Forget, UNCHANGED <<RestOfBao, asked, server>>,
         cache' \in {cache, server}, owned \subseteq owned', owned' \subseteq Names
  PROVE  IndInv'
<1>1. Known(server.bind)' /\ StatusInv'
  BY SameTraits DEF IndInv, BindingsInv, Known, StatusInv
<1> QED BY <1>1, ReturnPreserves

(* When a status is written, the snapshot has the stored marker. *)
LEMMA FreshMarker ==
  ASSUME IndInv, fresh
  PROVE  /\ before = server.bind /\ server \in CRs /\ copy \in CRs /\ tag \in Tags
         /\ copy.bind \in Binds /\ server.bind \in Binds
         /\ Condition(tag, copy) \in Conditions /\ Condition(tag, copy).tag = tag
         /\ Condition("Reconciled", copy) \in Conditions
         /\ Condition("Reconciled", copy).tag = "Reconciled"
  BY CRFields, ConditionTyped DEF IndInv, RuntimeInv, RuntimeTypeOK, VersionsInv, Condition, Tags

(* Reporting a failure keeps the invariant. *)
LEMMA ReportFailurePreserves ==
  ASSUME IndInv, ReportFailure, Forget, UNCHANGED <<RestOfBao, owned>>
  PROVE  IndInv'
<1>0. RuntimeInv' /\ asked' = asked /\ owned' \subseteq Names
  BY RuntimeStepPreserves, BaoTypes DEF IndInv, ReportFailure
<1>1. CASE \E r \in BOOLEAN : Finish(r) /\ UNCHANGED kubeVars
  BY <1>0, <1>1, QuietReturnPreserves
<1>2. CASE /\ Accepted(WithStatus(server, copy.bind, Condition(tag, copy)))
           /\ Finish(RequeueWhenFailed)
  <2>1. fresh /\ server' = WithStatus(server, copy.bind, Condition(tag, copy)) /\ cache' = cache
    BY <1>2 DEF Accepted
  <2>2. server'.bind = copy.bind /\ server'.ready.tag = tag
    BY <2>1, FreshMarker, StatusUpdate
  <2>3. /\ copy.bind = server.bind /\ tag # "Reconciled"
        /\ tag = "AlreadyExists" /\ Traits.marks => copy.bind = Unbound
    BY <2>1, FreshMarker DEF ReportFailure, IndInv, ControlInv, RuntimeInv, WorkerInv
  <2>4. Known(server.bind)' /\ StatusInv'
    BY <2>2, <2>3, SameTraits DEF IndInv, BindingsInv, Known, StatusInv
  <2> QED BY <1>0, <1>2, <2>1, <2>4, ReturnPreserves
<1> QED BY <1>1, <1>2 DEF ReportFailure, Rejected, RequeueWhenFailed

(* Recording a cleanup failure keeps the invariant. *)
LEMMA RecordCleanupFailurePreserves ==
  ASSUME IndInv, RecordCleanupFailure, Forget, UNCHANGED <<RestOfBao, owned>>
  PROVE  IndInv'
<1>0. RuntimeInv' /\ asked' = asked /\ owned' \subseteq Names
  BY RuntimeStepPreserves, BaoTypes DEF IndInv, RecordCleanupFailure
<1>1. CASE \E r \in BOOLEAN : Finish(r) /\ UNCHANGED kubeVars
  BY <1>0, <1>1, QuietReturnPreserves
<1>2. CASE /\ Accepted(WithStatus(server, server.bind, Condition(tag, copy)))
           /\ Finish(RequeueForCleanup)
  <2>1. fresh /\ server' = WithStatus(server, server.bind, Condition(tag, copy)) /\ cache' = cache
    BY <1>2 DEF Accepted
  <2>2. server'.bind = server.bind /\ server'.ready.tag = tag
    BY <2>1, FreshMarker, StatusUpdate
  <2>3. tag \notin {"Reconciled", "AlreadyExists"}
    BY DEF RecordCleanupFailure, IndInv, ControlInv, RuntimeInv, WorkerInv
  <2>4. Known(server.bind)' /\ StatusInv'
    BY <2>2, <2>3, SameTraits DEF IndInv, BindingsInv, Known, StatusInv
  <2> QED BY <1>0, <1>2, <2>1, <2>4, ReturnPreserves
<1> QED BY <1>1, <1>2 DEF RecordCleanupFailure, Rejected, RequeueForCleanup

(* Recording Ready keeps the invariant: the marker is owned from now on. *)
LEMMA RecordReadyPreserves ==
  ASSUME IndInv, RecordReady, owned' = owned \cup ({server'.bind} \ {Unbound}), Forget,
         UNCHANGED RestOfBao
  PROVE  IndInv'
<1>0. RuntimeInv' /\ asked' = asked
  BY RuntimeStepPreserves DEF IndInv, RecordReady
<1>1. owned \subseteq owned' /\ owned' \subseteq Names
  <2>1. server'.bind \in Binds
    BY <1>0 DEF RuntimeInv, RuntimeTypeOK, CRs, Binds
  <2> QED BY <2>1, BaoTypes DEF Binds
<1>2. CASE \E r \in BOOLEAN : Finish(r) /\ UNCHANGED kubeVars
  BY <1>0, <1>1, <1>2, QuietReturnPreserves
<1>3. CASE /\ Accepted(WithStatus(server, copy.bind, Condition("Reconciled", copy)))
           /\ Finish(RequeueWhenReady)
  <2>1. /\ fresh /\ server' = WithStatus(server, copy.bind, Condition("Reconciled", copy))
        /\ cache' = cache /\ pc = "ready"
    BY <1>3 DEF Accepted, RecordReady
  <2>2. server'.bind = copy.bind /\ server'.ready.tag = "Reconciled"
    BY <2>1, FreshMarker, StatusUpdate
  <2>3. /\ Traits.marks => copy.bind = Path(copy)
        /\ ~Traits.marks => copy.bind = server.bind
        /\ Path(copy) \in Names /\ (~Traits.movable => Path(copy) = Home)
    BY <2>1, FreshMarker, PathTyped DEF IndInv, ControlInv
  <2>4. StatusInv'
    BY <2>2, <2>3, SameTraits, UnboundAssumption DEF StatusInv
  <2>5. CASE Traits.marks
    <3>1. server'.bind = Path(copy) /\ server'.bind \in owned'
      BY <2>2, <2>3, <2>5, UnboundAssumption
    <3>2. Known(server.bind)'
      BY <2>3, <2>5, <3>1, SameTraits DEF Known
    <3> QED BY <1>0, <1>1, <1>3, <2>1, <2>4, <3>2, ReturnPreserves
  <2>6. CASE ~Traits.marks
    <3>1. Known(server.bind)'
      BY <1>1, <2>2, <2>3, <2>6, SameTraits DEF IndInv, BindingsInv, Known
    <3> QED BY <1>0, <1>1, <1>3, <2>1, <2>4, <3>1, ReturnPreserves
  <2> QED BY <2>5, <2>6
<1> QED BY <1>2, <1>3, DriftAssumption DEF RecordReady, Rejected, RequeueWhenReady

(* Releasing the finalizer keeps the invariant. *)
LEMMA RemoveFinalizerPreserves ==
  ASSUME IndInv, RemoveFinalizer, Forget, UNCHANGED <<RestOfBao, owned>>
  PROVE  IndInv'
<1>0. RuntimeInv' /\ asked' = asked /\ owned' \subseteq Names
  BY RuntimeStepPreserves, BaoTypes DEF IndInv, RemoveFinalizer
<1>1. CASE \E r \in BOOLEAN : Finish(r) /\ UNCHANGED kubeVars
  BY <1>0, <1>1, QuietReturnPreserves
<1>2. CASE /\ Accepted(IF server.other THEN WithFinalizer(server, FALSE) ELSE NoCR)
           /\ Finish(FALSE)
  <2>1. /\ server' = WithFinalizer(server, FALSE) \/ server' = NoCR
        /\ cache' = cache /\ server \in CRs
    BY <1>2 DEF Accepted, IndInv, RuntimeInv, RuntimeTypeOK
  <2>2. /\ WithFinalizer(server, FALSE).bind = server.bind
        /\ WithFinalizer(server, FALSE).ready = server.ready
    BY <2>1, FinalizerUpdate
  <2>3. Known(server.bind)' /\ StatusInv'
    BY <2>1, <2>2, NoCRFields, SameTraits DEF IndInv, BindingsInv, Known, StatusInv
  <2> QED BY <1>0, <1>2, <2>1, <2>3, ReturnPreserves
<1> QED BY <1>1, <1>2 DEF RemoveFinalizer, Rejected

(* The start of a Reconcile keeps the invariant. *)
LEMMA DequeuePreserves ==
  ASSUME IndInv, Dequeue, UNCHANGED <<RestOfBao, owned, reconcileVars>>
  PROVE  IndInv'
<1>0. RuntimeInv'
  BY RuntimeStepPreserves DEF IndInv
<1>1. TypeOK'
  BY <1>0, BaoTypes DEF RuntimeInv, TypeOK
<1>2. UNCHANGED <<kubeVars, asked>> /\ pc = "idle" /\ pc' = AfterGet(cache)
  BY DEF Dequeue
<1>3. StatusInv' /\ NoForeignOverwrite'
  BY <1>2, SameTraits DEF IndInv, StatusInv, NoForeignOverwrite
<1>4. CASE ~cache.exists
  <2>1. pc' = "idle" /\ UNCHANGED <<copy, before>>
    BY <1>2, <1>4 DEF Dequeue, AfterGet
  <2>2. BindingsInv' /\ ControlInv'
    BY <1>2, <2>1, SameTraits DEF IndInv, BindingsInv, Known, ControlInv
  <2> QED BY <1>0, <1>1, <1>3, <2>2 DEF IndInv
<1>5. CASE cache.exists
  <2>1. copy' = cache /\ before' = cache.bind
    BY <1>5 DEF Dequeue
  <2>2. pc' \in {"delete", "finalize", "resolve"}
    BY <1>2, <1>5, CRFields DEF AfterGet, IndInv, RuntimeInv, RuntimeTypeOK
  <2>3. BindingsInv' /\ ControlInv'
    BY <1>2, <2>1, <2>2, SameTraits DEF IndInv, BindingsInv, Known, ControlInv
  <2> QED BY <1>0, <1>1, <1>3, <2>3 DEF IndInv
<1> QED BY <1>4, <1>5

(* Adding the finalizer keeps the invariant, also when the write fails and *)
(* Reconcile returns.                                                      *)
LEMMA EnsureFinalizerPreserves ==
  ASSUME IndInv, EnsureFinalizer, UNCHANGED <<RestOfBao, owned, reconcileVars>>
  PROVE  IndInv'
<1>0. RuntimeInv' /\ pc = "finalize" /\ asked' = asked
  BY RuntimeStepPreserves DEF IndInv, EnsureFinalizer
<1>1. TypeOK'
  BY <1>0, BaoTypes DEF RuntimeInv, TypeOK
<1>2. NoForeignOverwrite'
  BY <1>0, NoNewHit
<1>3. CASE Rejected
  <2>1. Finish(TRUE) /\ UNCHANGED kubeVars
    BY <1>3 DEF Rejected
  <2>2. BindingsInv' /\ ControlInv' /\ StatusInv'
    BY <2>1, FinishForgets, SameTraits DEF IndInv, BindingsInv, Known, ControlInv, StatusInv
  <2> QED BY <1>0, <1>1, <1>2, <2>2 DEF IndInv
<1>4. CASE ~Rejected
  <2>1. /\ server' = WithFinalizer(server, TRUE) /\ copy' = WithFinalizer(copy, TRUE)
        /\ cache' = cache /\ pc' = "resolve" /\ before' = before
        /\ server \in CRs /\ copy \in CRs
    BY <1>4 DEF EnsureFinalizer, Accepted, Goto, IndInv, RuntimeInv, RuntimeTypeOK
  <2>2. server'.bind = server.bind /\ server'.ready = server.ready /\ copy'.bind = copy.bind
    BY <2>1, FinalizerUpdate
  <2>3. copy.bind = before
    BY <1>0 DEF IndInv, ControlInv
  <2>4. BindingsInv' /\ ControlInv' /\ StatusInv'
    BY <2>1, <2>2, <2>3, SameTraits DEF IndInv, BindingsInv, Known, ControlInv, StatusInv
  <2> QED BY <1>0, <1>1, <1>2, <2>4 DEF IndInv
<1> QED BY <1>3, <1>4

----------------------------------------------------------------------------
(* The environment *)

(* A step that leaves the worker alone and takes nothing from the status.  *)
LEMMA OutsidePreserves ==
  ASSUME IndInv, RuntimeInv', asked => asked', store' \in [Names -> Objects],
         UNCHANGED <<pc, copy, before, tag, kind, hitVars, owned, reconcileVars>>,
         cache' \in {cache, server},
         \/ server'.bind = server.bind /\ server'.ready = server.ready
         \/ server'.bind = Unbound /\ server'.ready.tag = "None"
  PROVE  IndInv'
<1>1. TypeOK'
  BY BaoTypes DEF RuntimeInv, TypeOK
<1>2. BindingsInv' /\ StatusInv'
  BY SameTraits DEF IndInv, BindingsInv, Known, StatusInv
<1>3. Path(copy)' = Path(copy) /\ (ToDelete(copy)' <=> ToDelete(copy))
  BY SameTraits DEF Path, ToDelete, Acquired
<1>4. ControlInv'
  BY <1>3, SameTraits, StaysVouched DEF IndInv, ControlInv
<1>5. NoForeignOverwrite'
  BY SameTraits DEF IndInv, NoForeignOverwrite
<1> QED BY <1>1, <1>2, <1>4, <1>5 DEF IndInv

(* The user's writes keep the invariant. *)
LEMMA UserPreserves ==
  ASSUME IndInv, UserCreate \/ UserEdit \/ UserDelete \/ ReleaseOther,
         UNCHANGED <<RestOfBao, owned, reconcileVars>>
  PROVE  IndInv'
<1>0. RuntimeInv' /\ server \in CRs /\ store' \in [Names -> Objects]
  BY OutsideStepPreserves, BaoTypes DEF IndInv, RuntimeInv, RuntimeTypeOK
<1>1. /\ UNCHANGED <<pc, copy, before, tag>> /\ cache' = cache
      /\ asked => asked'
  <2>1. CASE UserCreate
    BY <2>1 DEF UserCreate, ServerWrite
  <2>2. CASE UserEdit
    BY <2>2 DEF UserEdit, ServerWrite
  <2>3. CASE UserDelete
    <3>1. asked' = asked
      BY <2>3 DEF UserDelete
    <3>2. PICK o \in BOOLEAN : ServerWrite(IF server.fin \/ o THEN Terminating(server, o) ELSE NoCR)
      BY <2>3 DEF UserDelete
    <3> QED BY <3>1, <3>2 DEF ServerWrite
  <2>4. CASE ReleaseOther
    <3>1. asked' = asked
      BY <2>4 DEF ReleaseOther
    <3> QED BY <2>4, <3>1 DEF ReleaseOther, ServerWrite
  <2> QED BY <2>1, <2>2, <2>3, <2>4
<1>2. \/ server'.bind = server.bind /\ server'.ready = server.ready
      \/ server'.bind = Unbound /\ server'.ready.tag = "None"
  <2>1. CASE UserCreate
    <3>1. PICK p \in CreationPolicies, d \in DeletionPolicies, w \in Configs :
            server' = NewResource(p, d, w)
      BY <2>1 DEF UserCreate, ServerWrite
    <3>2. NewResource(p, d, w).ready.tag = "None" /\ NewResource(p, d, w).bind = Unbound
      BY NewResourceFields
    <3> QED BY <3>1, <3>2
  <2>2. CASE UserEdit
    BY <1>0, <2>2, SpecUpdate DEF UserEdit, ServerWrite
  <2>3. CASE UserDelete \/ ReleaseOther
    <3>1. \/ \E o \in BOOLEAN : server' = Terminating(server, o)
          \/ server' = NoCR
      BY <2>3 DEF UserDelete, ReleaseOther, ServerWrite
    <3>2. ASSUME NEW o \in BOOLEAN, server' = Terminating(server, o)
          PROVE  server'.bind = server.bind /\ server'.ready = server.ready
      BY <1>0, <3>2, TerminatingUpdate
    <3> QED BY <3>1, <3>2, NoCRFields
  <2> QED BY <2>1, <2>2, <2>3
<1> QED BY <1>0, <1>1, <1>2, OutsidePreserves

(* The dependencies, the informer and other administrators keep it. *)
LEMMA QuietOutsidePreserves ==
  ASSUME IndInv, RuntimeInv', store' \in [Names -> Objects], cache' \in {cache, server},
         UNCHANGED <<server, pc, copy, before, tag, asked, kind, hitVars, owned, reconcileVars>>
  PROVE  IndInv'
  BY OutsidePreserves

(* A write of somebody else leaves objects, and the resource alone. *)
LEMMA ForeignPreserves ==
  ASSUME IndInv, ForeignWrite \/ ForeignDelete
  PROVE  IndInv'
<1>1. /\ UNCHANGED <<kubeVars, queued, workerVars, deps, creates, asked, kind, hitVars, owned,
                     reconcileVars>>
      /\ Spend
  BY DEF ForeignWrite, ForeignDelete
<1>2. store' \in [Names -> Objects]
  <2>1. CASE ForeignDelete
    <3>1. Absent \in Objects
      BY DEF Absent, Objects
    <3> QED BY <2>1, <3>1, BaoTypes DEF ForeignDelete, Put
  <2>2. CASE ForeignWrite
    <3>1. PICK n \in Names, w \in Configs :
            Put(n, [cfg |-> w, maker |-> IF Exists(n) THEN store[n].maker ELSE "foreign"])
      BY <2>2 DEF ForeignWrite
    <3>2. [cfg |-> w, maker |-> IF Exists(n) THEN store[n].maker ELSE "foreign"] \in Objects
      BY BaoTypes DEF Objects
    <3> QED BY <3>1, <3>2, BaoTypes DEF Put
  <2> QED BY <2>1, <2>2
<1>3. RuntimeInv'
  <2>1. budget' \in 0 .. EnvBudget
    BY <1>1, SpendTyped, BaoTypes
  <2> QED BY <1>1, <2>1
          DEF IndInv, RuntimeInv, RuntimeTypeOK, VersionsInv, FinalizerInv, WorkerInv, Specified
<1> QED BY <1>1, <1>2, <1>3, QuietOutsidePreserves

----------------------------------------------------------------------------
(* The invariant *)

(* The invariant holds at the start. *)
LEMMA InitEstablishes ==
  ASSUME Init
  PROVE  IndInv
<1>1. /\ server = NoCR /\ cache = NoCR /\ copy = NoCR /\ pc = "idle" /\ before = Unbound
  BY DEF Init, RuntimeInit
<1>2. RuntimeInv
  BY RuntimeInitInv DEF Init
<1>3. TypeOK
  <2>1. Absent \in Objects
    BY DEF Absent, Objects
  <2> QED BY <1>2, <2>1 DEF RuntimeInv, Init, TypeOK
<1>4. StatusInv /\ BindingsInv /\ ControlInv
  BY <1>1, NoCRFields DEF StatusInv, BindingsInv, Known, ControlInv
<1>5. NoForeignOverwrite
  BY DEF Init, NoForeignOverwrite
<1> QED BY <1>2, <1>3, <1>4, <1>5 DEF IndInv

(* Every step keeps the invariant. *)
LEMMA NextPreserves ==
  ASSUME IndInv, Next
  PROVE  IndInv'
<1>1. CASE Resolve \/ Lookup \/ Create \/ ReadBack \/ Update \/ Reread \/ DecideDeletion \/ Destroy
  BY <1>1, CallPreserves, ResolveOK, LookupOK, CreateOK, ReadBackOK, UpdateOK, RereadOK,
     DecideDeletionOK, DestroyOK
<1>2. CASE Dequeue /\ UNCHANGED <<RestOfBao, owned, reconcileVars>>
  BY <1>2, DequeuePreserves
<1>3. CASE EnsureFinalizer /\ UNCHANGED <<RestOfBao, owned, reconcileVars>>
  BY <1>3, EnsureFinalizerPreserves
<1>4. CASE /\ RecordReady /\ owned' = owned \cup ({server'.bind} \ {Unbound})
           /\ Forget /\ UNCHANGED RestOfBao
  BY <1>4, RecordReadyPreserves
<1>5. CASE ReportFailure /\ Forget /\ UNCHANGED <<RestOfBao, owned>>
  BY <1>5, ReportFailurePreserves
<1>6. CASE RecordCleanupFailure /\ Forget /\ UNCHANGED <<RestOfBao, owned>>
  BY <1>6, RecordCleanupFailurePreserves
<1>7. CASE RemoveFinalizer /\ Forget /\ UNCHANGED <<RestOfBao, owned>>
  BY <1>7, RemoveFinalizerPreserves
<1>8. CASE /\ UserCreate \/ UserEdit \/ UserDelete \/ ReleaseOther
           /\ UNCHANGED <<RestOfBao, owned, reconcileVars>>
  BY <1>8, UserPreserves
<1>9. CASE (ChangeDeps \/ Sync) /\ UNCHANGED <<RestOfBao, owned, reconcileVars>>
  <2>1. RuntimeInv' /\ store' \in [Names -> Objects]
    BY <1>9, OutsideStepPreserves, BaoTypes DEF IndInv
  <2> QED BY <1>9, <2>1, QuietOutsidePreserves DEF ChangeDeps, Sync
<1>10. CASE Crash /\ Forget /\ UNCHANGED <<RestOfBao, owned>>
  <2>1. RuntimeInv' /\ owned' \subseteq Names
    BY <1>10, OutsideStepPreserves, BaoTypes DEF IndInv
  <2> QED BY <1>10, <2>1, QuietReturnPreserves DEF Crash
<1>11. CASE ForeignWrite \/ ForeignDelete
  BY <1>11, ForeignPreserves
<1> QED BY <1>1, <1>2, <1>3, <1>4, <1>5, <1>6, <1>7, <1>8, <1>9, <1>10, <1>11
        DEF Next, Worker, Environment, Watch

(* A stuttering step keeps the invariant. *)
LEMMA StutterPreserves ==
  ASSUME IndInv, UNCHANGED vars
  PROVE  IndInv'
<1>1. RuntimeInv'
  BY DEF vars, rtVars, IndInv, RuntimeInv, RuntimeTypeOK, VersionsInv, FinalizerInv, WorkerInv,
         Specified
<1> QED BY <1>1, QuietOutsidePreserves, BaoTypes DEF vars, rtVars

(* IndInv holds in every reachable state, for every value of the constants. *)
THEOREM Invariance == Spec => []IndInv
<1>1. Init => IndInv
  BY InitEstablishes
<1>2. IndInv /\ [Next]_vars => IndInv'
  BY NextPreserves, StutterPreserves
<1> QED BY <1>1, <1>2, PTL DEF Spec

(* Ownership: whatever is lost, stale or repeated, the operator writes to  *)
(* somebody else's object only if it found the name free, was asked to     *)
(* adopt, or had acquired it, or acquired another when the spec can point  *)
(* elsewhere.                                                              *)
THEOREM Ownership == Spec => []NoForeignOverwrite
<1>1. IndInv => NoForeignOverwrite
  BY DEF IndInv
<1> QED BY <1>1, Invariance, PTL

(* The API server holds the finalizer whenever a Delete-policy resource is *)
(* about to write an object.                                               *)
THEOREM FinalizerFirst == Spec => []FinalizerBeforeMutation
<1>1. IndInv => FinalizerBeforeMutation
  BY DEF IndInv, RuntimeInv, FinalizerInv, WorkerInv, FinalizerBeforeMutation, WorkSteps
<1> QED BY <1>1, Invariance, PTL

----------------------------------------------------------------------------
(* Nothing is forgotten *)

(* A step keeps the queue's part of the invariant. *)
LEMMA QueuePreserves ==
  ASSUME IndInv, QueueInv, [Next]_vars
  PROVE  QueueInv'
<1>0. VersionsInv /\ WorkerInv
  BY DEF IndInv, RuntimeInv
<1>1. CASE Resolve \/ Lookup \/ Create \/ ReadBack \/ Update \/ Reread \/ DecideDeletion \/ Destroy
  <2>1. CallOK
    BY <1>1, ResolveOK, LookupOK, CreateOK, ReadBackOK, UpdateOK, RereadOK,
       DecideDeletionOK, DestroyOK
  <2>2. UNCHANGED <<synced, queued, fresh>> /\ pc # "idle" /\ pc' # "idle"
    BY <2>1 DEF CallOK, WorkerMoves, WorkSteps, DeleteSteps
  <2> QED BY <2>2, QueueMove
<1>2. CASE \/ Dequeue \/ EnsureFinalizer \/ ReportFailure
           \/ RecordCleanupFailure \/ RecordReady \/ RemoveFinalizer
  BY <1>0, <1>2, QueueStep
<1>3. CASE UserCreate \/ UserEdit \/ UserDelete \/ ReleaseOther \/ Sync \/ ChangeDeps \/ Crash
  BY <1>3, QueueOutside
<1>4. CASE ForeignWrite \/ ForeignDelete
  <2>1. UNCHANGED <<synced, queued, fresh>> /\ UNCHANGED <<server, pc>>
    BY <1>4 DEF ForeignWrite, ForeignDelete, kubeVars, workerVars
  <2> QED BY <2>1, QueueMove
<1>5. CASE UNCHANGED vars
  <2>1. UNCHANGED <<synced, queued, fresh>> /\ UNCHANGED <<server, pc>>
    BY <1>5 DEF vars, rtVars, kubeVars, workerVars
  <2> QED BY <2>1, QueueMove
<1> QED BY <1>1, <1>2, <1>3, <1>4, <1>5 DEF Next, Worker, Environment, Watch

(* Every result that Reconcile returns requeues the key, leaves an event   *)
(* on its way or has nothing left to do: a resource that nobody is going   *)
(* to look at again is Ready for its generation with drift detection off,  *)
(* or terminating without the finalizer.                                   *)
THEOREM NoneForgotten == Spec => []NothingForgotten
<1>1. Init => QueueInv
  BY QueueInit DEF Init
<1>2. IndInv /\ QueueInv /\ [Next]_vars => QueueInv'
  BY QueuePreserves
<1>3. QueueInv => NothingForgotten
  BY DEF QueueInv
<1> QED BY <1>1, <1>2, <1>3, Invariance, PTL DEF Spec

----------------------------------------------------------------------------
(* Action properties *)

(* The writes of the stored resource, by who makes them. *)
LEMMA ServerSteps ==
  ASSUME [Next]_vars
  PROVE  ServerStep
<1>1. CASE Resolve \/ Lookup \/ Create \/ ReadBack
  BY <1>1 DEF Resolve, Lookup, Create, ReadBack, Unavailable, ServerStep
<1>2. CASE Update \/ Reread \/ DecideDeletion \/ Destroy
  BY <1>2 DEF Update, Reread, DecideDeletion, Destroy, Unavailable, ServerStep
<1>3. CASE ForeignWrite \/ ForeignDelete
  BY <1>3 DEF ForeignWrite, ForeignDelete, ServerStep
<1>4. CASE UNCHANGED vars
  BY <1>4 DEF vars, rtVars, ServerStep
<1> QED BY <1>1, <1>2, <1>3, <1>4, RuntimeServerSteps DEF Next, Worker, Environment, Watch

(* What a step does to the finalizer and the status. *)
LEMMA StepFields ==
  ASSUME IndInv, [Next]_vars
  PROVE  /\ Releases => pc = "unfinalize" /\ fresh
         /\ server'.exists => StatusStep
<1>1. RuntimeTypeOK
  BY DEF IndInv, RuntimeInv
<1> QED BY <1>1, ServerSteps, ServerStepFields DEF Releases

(* With a current resourceVersion, the worker's copy and the stored        *)
(* resource point at the same object and have the same policy.             *)
LEMMA FreshCopy ==
  ASSUME IndInv, fresh
  PROVE  /\ copy.want = server.want /\ copy.gen = server.gen /\ copy.exists = server.exists
         /\ Path(copy) = Path(server)
         /\ copy.bind = before => copy.bind = server.bind /\ (ToDelete(copy) <=> ToDelete(server))
<1>1. SameButBinding(copy, server) /\ before = server.bind
  BY DEF IndInv, RuntimeInv, VersionsInv
<1> QED BY <1>1 DEF SameButBinding, Path, ToDelete, Acquired

(* The name is deleted or absent before the finalizer of its Delete-policy *)
(* resource goes.                                                          *)
THEOREM CleanupFirst == Spec => CleanupBeforeRelease
<1>1. ASSUME IndInv, [Next]_vars, Releases, ToDelete(server)
      PROVE  gone = Path(server)
  <2>1. pc = "unfinalize" /\ fresh
    BY <1>1, StepFields
  <2>2. copy.bind = before /\ (ToDelete(copy) => gone = Path(copy))
    BY <1>1, <2>1 DEF IndInv, ControlInv
  <2> QED BY <1>1, <2>1, <2>2, FreshCopy
<1>2. IndInv /\ [Next]_vars => [Releases /\ ToDelete(server) => gone = Path(server)]_vars
  BY <1>1
<1> QED BY <1>2, Invariance, PTL DEF Spec, CleanupBeforeRelease

(* Ready is recorded for a generation only by a Reconcile that has seen or *)
(* made the object so.                                                     *)
THEOREM HonestReady == Spec => ReadyMeansApplied
<1>1. ASSUME IndInv, [Next]_vars, ~Traits.tunes, server'.exists,
             server'.ready.tag = "Reconciled",
             <<server'.bind, server'.ready>> # <<server.bind, server.ready>>
      PROVE  applied /\ server'.want = copy.want /\ server'.ready.gen = server'.gen
  <2>1. (pc = "report" => tag # "Reconciled") /\ (pc = "cleanup" => tag # "Reconciled")
    BY <1>1 DEF IndInv, RuntimeInv, WorkerInv
  <2>2. /\ pc = "ready" /\ fresh /\ server'.ready = Condition("Reconciled", copy)
        /\ server'.want = server.want /\ server'.gen = server.gen
    BY <1>1, <2>1, StepFields DEF StatusStep
  <2>3. applied
    BY <1>1, <2>2 DEF IndInv, ControlInv
  <2> QED BY <1>1, <2>2, <2>3, FreshCopy DEF Condition
<1>2. IndInv /\ [Next]_vars
      => [~Traits.tunes /\ server'.exists /\ server'.ready.tag = "Reconciled"
            /\ <<server'.bind, server'.ready>> # <<server.bind, server.ready>>
            => applied /\ server'.want = copy.want /\ server'.ready.gen = server'.gen]_vars
  BY <1>1
<1> QED BY <1>2, Invariance, PTL DEF Spec, ReadyMeansApplied

(* A resource that has been Ready, or holds a marker, is never told that   *)
(* its object already exists.                                              *)
THEOREM MarkerWorks == Spec => OwnObjectIsNeverRefused
<1>1. ASSUME IndInv, [Next]_vars, Traits.marks, server'.exists,
             server.ready.tag = "Reconciled" \/ server.bind # Unbound
      PROVE  server'.ready.tag # "AlreadyExists"
  <2>1. server.bind # Unbound /\ server.ready.tag # "AlreadyExists"
    BY <1>1 DEF IndInv, StatusInv
  <2>2. ASSUME pc = "report", fresh PROVE tag # "AlreadyExists"
    BY <1>1, <2>1, <2>2, FreshCopy DEF IndInv, ControlInv
  <2>3. pc = "cleanup" => tag # "AlreadyExists"
    BY <1>1 DEF IndInv, ControlInv
  <2> QED BY <1>1, <2>1, <2>2, <2>3, StepFields DEF StatusStep
<1>2. IndInv /\ [Next]_vars
      => [Traits.marks /\ (server.ready.tag = "Reconciled" \/ server.bind # Unbound)
            /\ server'.exists => server'.ready.tag # "AlreadyExists"]_vars
  BY <1>1
<1> QED BY <1>2, Invariance, PTL DEF Spec, OwnObjectIsNeverRefused
=============================================================================
