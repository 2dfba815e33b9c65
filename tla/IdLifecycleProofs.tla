------------------------- MODULE IdLifecycleProofs -------------------------
(***************************************************************************)
(* Proofs about IdLifecycle, for every set of IDs, configurations and      *)
(* kinds and every bound: its invariants and action properties, and that   *)
(* it implements OwnedObject.                                              *)
(***************************************************************************)
EXTENDS IdLifecycle, ControllerRuntimeProofs

(* Abbreviations that are always expanded: tuples of variables, two names. *)
USE DEF kubeVars, workerVars, envVars, baoVars, RestOfBao, Ids, NoId

----------------------------------------------------------------------------
(* OpenBao's objects *)

(* What an object that the worker has just made looks like. *)
LEMMA MadeFacts ==
  ASSUME NEW w \in Configs \cup {NoConfig}, NEW m \in {"operator", "foreign"}
  PROVE  Made(w, m) \in Objects /\ Made(w, m).state = "live" /\ Made(w, m).maker = m
  BY DEF Made, Objects

(* What a deleted object keeps. *)
LEMMA DestroyedFacts ==
  ASSUME NEW o \in Objects
  PROVE  /\ Destroyed(o) \in Objects
         /\ Destroyed(o).state = "deleted" /\ Destroyed(o).maker = o.maker
  BY DEF Destroyed, Objects

(* What a reconfigured object keeps. *)
LEMMA ConfiguredFacts ==
  ASSUME NEW o \in Objects, NEW w \in Configs \cup {NoConfig}
  PROVE  /\ Configured(o, w) \in Objects
         /\ Configured(o, w).state = o.state /\ Configured(o, w).maker = o.maker
  BY DEF Configured, Objects

(* What a renamed object keeps. *)
LEMMA RenamedFacts ==
  ASSUME NEW o \in Objects, NEW n \in {"own", "other"}
  PROVE  /\ Renamed(o, n) \in Objects
         /\ Renamed(o, n).state = o.state /\ Renamed(o, n).maker = o.maker
  BY DEF Renamed, Objects

(* What an object updated by the operator keeps. *)
LEMMA UpdatedFacts ==
  ASSUME NEW o \in Objects, copy \in CRs
  PROVE  /\ Updated(o) \in Objects
         /\ Updated(o).state = o.state /\ Updated(o).maker = o.maker
  BY RenamedFacts, ConfiguredFacts, CRFields DEF Updated

(* An object once made keeps its maker; a deleted one stays deleted. *)
StoreGrows ==
  \A i \in Ids :
    /\ store[i].state # "unused" => store'[i].state # "unused" /\ store'[i].maker = store[i].maker
    /\ store[i].state = "deleted" => store'[i].state = "deleted"

(* Replacing an object by one of the same maker keeps OpenBao's history. *)
LEMMA PutGrows ==
  ASSUME store \in [Ids -> Objects], NEW i \in Ids, NEW o \in Objects, Put(i, o),
         o.state # "unused",
         store[i].state = "unused" \/ o.maker = store[i].maker,
         store[i].state = "deleted" => o.state = "deleted"
  PROVE  /\ store' \in [Ids -> Objects] /\ StoreGrows
         /\ store'[i] = o
         /\ \A j \in Ids \ {i} : store'[j] = store[j]
  BY DEF Put, StoreGrows

(* An unchanged store keeps OpenBao's history. *)
LEMMA SameStoreGrows ==
  ASSUME store' = store
  PROVE  StoreGrows
  BY DEF StoreGrows

(* What every call to OpenBao leaves alone, and where it may lead. *)
CallFrame ==
  /\ UNCHANGED <<server, cache, synced, queued, before, fresh, deps, creates, asked, kind>>
  /\ budget' \in 0 .. EnvBudget
  /\ \/ pc \in WorkSteps /\ pc' \in WorkSteps
     \/ pc \in DeleteSteps /\ pc' \in DeleteSteps
  /\ tag' \in Tags
  /\ pc' \in {"report", "cleanup"} => tag' # "Reconciled"
  /\ copy' \in CRs /\ SameButBinding(copy', copy)
  /\ foreignHit' \in BOOLEAN /\ raced' \in BOOLEAN /\ applied' \in BOOLEAN
  /\ raced => raced'

(* Comparing what was read leads to Ready, to an update or to a refusal. *)
LEMMA ObserveEffect ==
  ASSUME NEW i, Observe(i), applied \in BOOLEAN, tag \in Tags
  PROVE  /\ pc' \in {"report", "ready", "update"} /\ tag' \in Tags
         /\ pc' = "report" => tag' # "Reconciled"
         /\ pc' = "ready" => applied'
         /\ applied' \in BOOLEAN
         /\ UNCHANGED <<queued, before, fresh>>
<1>1. applied' \in BOOLEAN
  BY DEF Observe
<1>2. CASE Traits.checksFirst /\ store[i].name # "own"
  BY <1>1, <1>2 DEF Observe, Fail, Tags
<1>3. CASE ~(Traits.checksFirst /\ store[i].name # "own")
  BY <1>1, <1>3 DEF Observe, Goto, Matches
<1> QED BY <1>2, <1>3

----------------------------------------------------------------------------
(* The steps that call OpenBao *)

(* A copy differs from itself in nothing. *)
LEMMA SameCopy == SameButBinding(copy, copy)
  BY DEF SameButBinding

CallOK ==
  /\ CallFrame
  /\ store' \in [Ids -> Objects] /\ StoreGrows
  /\ Known(copy)' /\ ControlInv' /\ GoneInv' /\ NoForeignMutation'

(* A call that touches neither the store nor the copy. *)
LEMMA PlainCall ==
  ASSUME IndInv, CallFrame, UNCHANGED <<store, foreignHit, raced, copy>>
  PROVE  /\ store' \in [Ids -> Objects] /\ StoreGrows /\ Known(copy)' /\ NoForeignMutation'
         /\ before' # NoId /\ before' # copy'.bind => store'[before'].state = "deleted"
  BY SameStoreGrows DEF IndInv, TypeOK, BindingsInv, Known, GoneInv, NoForeignMutation, CallFrame

(* Resolving dependencies keeps the invariant. *)
LEMMA ResolveOK ==
  ASSUME IndInv, Resolve
  PROVE  CallOK
<1>1. CallFrame
  BY SameCopy DEF Resolve, Fail, Goto, IndInv, TypeOK, RuntimeTypeOK, CallFrame, WorkSteps, Tags
<1>2. ControlInv'
  BY DEF Resolve, Fail, Goto, IndInv, ControlInv, WorkerInv, WorkSteps, DeleteSteps, BoundSteps
<1>3. GoneInv'
  BY <1>1, PlainCall DEF Resolve, Fail, Goto, GoneInv
<1> QED BY <1>1, <1>2, <1>3, PlainCall DEF CallOK, Resolve

(* A call that failed without an effect. *)
LEMMA PlainFailure ==
  ASSUME IndInv, pc \in WorkSteps, NEW t \in Tags, t # "Reconciled", Fail(t),
         UNCHANGED <<kubeVars, baoVars, copy, budget, deps, creates, asked, kind, applied>>
  PROVE  CallOK
<1>1. CallFrame
  BY SameCopy DEF Fail, IndInv, TypeOK, RuntimeTypeOK, CallFrame, WorkSteps
<1>2. ControlInv'
  BY DEF Fail, IndInv, ControlInv, WorkerInv, WorkSteps, DeleteSteps, BoundSteps
<1>3. GoneInv'
  BY <1>1, PlainCall DEF Fail, GoneInv
<1> QED BY <1>1, <1>2, <1>3, PlainCall DEF CallOK

(* A request that OpenBao did not serve keeps the invariant. *)
LEMMA UnavailableFrame ==
  ASSUME IndInv, Unavailable, pc \in WorkSteps, NEW t \in Tags, t # "Reconciled", Fail(t),
         UNCHANGED <<deps, creates, asked, kind, applied>>
  PROVE  CallOK
<1>1. CallFrame
  BY SameCopy, SpendTyped
  DEF Unavailable, Fail, IndInv, TypeOK, RuntimeTypeOK, CallFrame, WorkSteps
<1>2. ControlInv'
  BY DEF Unavailable, Fail, IndInv, ControlInv, WorkerInv, WorkSteps, DeleteSteps, BoundSteps
<1>3. GoneInv'
  BY <1>1, PlainCall DEF Unavailable, Fail, GoneInv
<1> QED BY <1>1, <1>2, <1>3, PlainCall DEF CallOK, Unavailable

(* The read by ID keeps the invariant. *)
LEMMA GetByIdOK ==
  ASSUME IndInv, GetById
  PROVE  CallOK
<1> DEFINE i == copy.bind
<1>0. pc = "getById" /\ UNCHANGED <<deps, creates, asked, kind>>
  BY DEF GetById
<1>b. copy \in CRs /\ i \in Ids /\ i = before
  BY <1>0, CRFields DEF IndInv, TypeOK, RuntimeTypeOK, ControlInv, WorkerInv, BoundSteps, Binds
<1>1. CASE Live(i) /\ Observe(i) /\ UNCHANGED <<kubeVars, baoVars, copy, budget>>
  <2>1. CallFrame
    BY <1>0, <1>1, SameCopy, ObserveEffect
    DEF IndInv, TypeOK, RuntimeTypeOK, CallFrame, WorkSteps
  <2>2. ControlInv'
    BY <1>0, <1>1, ObserveEffect
    DEF IndInv, TypeOK, RuntimeTypeOK, ControlInv, WorkerInv, WorkSteps, DeleteSteps, BoundSteps
  <2>3. GoneInv'
    BY <1>1, <2>1, PlainCall, ObserveEffect DEF GoneInv, IndInv, TypeOK, RuntimeTypeOK
  <2> QED BY <1>1, <2>1, <2>2, <2>3, PlainCall DEF CallOK
<1>2. CASE /\ ~Live(i) /\ copy' = WithBinding(copy, NoId) /\ Goto("lookup")
           /\ UNCHANGED <<kubeVars, baoVars, budget, applied>>
  <2>1. copy' \in CRs /\ copy'.bind = NoId /\ SameButBinding(copy', copy)
    BY <1>b, <1>2, BindingUpdate DEF Binds
  <2>2. CallFrame
    BY <1>0, <1>2, <2>1 DEF Goto, IndInv, TypeOK, RuntimeTypeOK, CallFrame, WorkSteps
  <2>3. Known(copy)'
    BY <1>0, <2>1 DEF IndInv, BindingsInv, Known, SameButBinding
  <2>4. store[before].state = "deleted"
    BY <1>b, <1>2, UnboundAssumption DEF IndInv, BindingsInv, Known, Live, TypeOK, Objects
  <2>5. ControlInv'
    BY <1>0, <1>2, <2>1
    DEF Goto, IndInv, ControlInv, WorkerInv, WorkSteps, DeleteSteps, BoundSteps, SameButBinding
  <2>6. GoneInv'
    BY <1>2, <2>4 DEF Goto, GoneInv
  <2> QED BY <1>0, <1>2, <2>2, <2>3, <2>5, <2>6, SameStoreGrows
          DEF CallOK, IndInv, TypeOK, NoForeignMutation
<1>3. CASE Unavailable /\ Fail("AcquireFailed") /\ UNCHANGED applied
  BY <1>0, <1>3, UnavailableFrame DEF WorkSteps, Tags
<1> QED BY <1>1, <1>2, <1>3 DEF GetById

(* The lookup and the creation policy keep the invariant. *)
LEMMA LookupOK ==
  ASSUME IndInv, Lookup
  PROVE  CallOK
<1>0. pc = "lookup" /\ UNCHANGED <<deps, creates, asked, kind>> /\ copy \in CRs /\ copy.bind = NoId
  BY DEF Lookup, IndInv, TypeOK, RuntimeTypeOK, ControlInv, WorkerInv
<1>1. CASE /\ Named = {}
           /\ IF AllowsCreation(copy.create) THEN Goto("create") ELSE Fail("NotAllowed")
           /\ UNCHANGED <<kubeVars, baoVars, copy, budget, applied>>
  <2>1. /\ pc' \in {"create", "report"} /\ UNCHANGED <<queued, before, fresh>>
        /\ tag' \in Tags
        /\ pc' = "report" => tag' # "Reconciled"
    BY <1>1 DEF Goto, Fail, IndInv, TypeOK, RuntimeTypeOK, Tags
  <2>2. CallFrame
    BY <1>0, <1>1, <2>1, SameCopy DEF IndInv, TypeOK, RuntimeTypeOK, CallFrame, WorkSteps
  <2>3. ControlInv'
    BY <1>0, <1>1, <2>1 DEF IndInv, ControlInv, WorkerInv, WorkSteps, DeleteSteps, BoundSteps
  <2>4. GoneInv'
    BY <1>1, <2>1, <2>2, PlainCall DEF GoneInv
  <2> QED BY <1>1, <2>2, <2>3, <2>4, PlainCall DEF CallOK
<1>2. CASE \E t \in {"Ambiguous", "AlreadyExists"} :
             Fail(t) /\ UNCHANGED <<kubeVars, baoVars, copy, budget, applied>>
  BY <1>0, <1>2, PlainFailure DEF WorkSteps, Tags
<1>3. CASE /\ AllowsAdoption(copy.create)
           /\ \E i \in Named : copy' = WithBinding(copy, i) /\ Observe(i)
           /\ UNCHANGED <<kubeVars, baoVars, budget>>
  <2>1. PICK i \in Named : copy' = WithBinding(copy, i) /\ Observe(i)
    BY <1>3
  <2>2. i \in Ids /\ store[i].state = "live" /\ i # NoId
    BY UnboundAssumption DEF Named, Live
  <2>3. copy' \in CRs /\ copy'.bind = i /\ SameButBinding(copy', copy)
    BY <1>0, <2>1, <2>2, BindingUpdate DEF Binds
  <2>4. /\ pc' \in {"report", "ready", "update"} /\ tag' \in Tags
        /\ pc' = "report" => tag' # "Reconciled"
        /\ pc' = "ready" => applied'
        /\ applied' \in BOOLEAN
        /\ UNCHANGED <<queued, before, fresh>>
    BY <2>1, ObserveEffect DEF IndInv, TypeOK, RuntimeTypeOK
  <2>5. CallFrame
    BY <1>0, <1>3, <2>3, <2>4 DEF IndInv, TypeOK, RuntimeTypeOK, CallFrame, WorkSteps
  <2>6. asked
    BY <1>3 DEF AllowsAdoption, IndInv, BindingsInv, Known
  <2>7. Known(copy)'
    BY <1>0, <1>3, <2>2, <2>3, <2>6 DEF Known, SameButBinding
  <2>8. ControlInv'
    BY <1>0, <2>2, <2>3, <2>4
    DEF IndInv, ControlInv, WorkerInv, WorkSteps, DeleteSteps, BoundSteps, SameButBinding
  <2>9. GoneInv'
    BY <1>0, <1>3, <2>3, <2>4 DEF IndInv, GoneInv
  <2> QED BY <1>0, <1>3, <2>5, <2>7, <2>8, <2>9, SameStoreGrows
          DEF CallOK, IndInv, TypeOK, NoForeignMutation
<1>4. CASE Unavailable /\ Fail("AcquireFailed") /\ UNCHANGED applied
  BY <1>0, <1>4, UnavailableFrame DEF WorkSteps, Tags
<1> QED BY <1>1, <1>2, <1>3, <1>4 DEF Lookup

(* The read after a create keeps the invariant. *)
LEMMA ReadBackOK ==
  ASSUME IndInv, ReadBack
  PROVE  CallOK
<1>0. pc = "readBack" /\ UNCHANGED <<deps, creates, asked, kind>>
  BY DEF ReadBack
<1>1. CASE Observe(copy.bind) /\ UNCHANGED <<kubeVars, baoVars, copy, budget>>
  <2>1. CallFrame
    BY <1>0, <1>1, SameCopy, ObserveEffect
    DEF IndInv, TypeOK, RuntimeTypeOK, CallFrame, WorkSteps
  <2>2. ControlInv'
    BY <1>0, <1>1, ObserveEffect
    DEF IndInv, TypeOK, RuntimeTypeOK, ControlInv, WorkerInv, WorkSteps, DeleteSteps, BoundSteps
  <2>3. GoneInv'
    BY <1>1, <2>1, PlainCall, ObserveEffect DEF GoneInv, IndInv, TypeOK, RuntimeTypeOK
  <2> QED BY <1>1, <2>1, <2>2, <2>3, PlainCall DEF CallOK
<1>2. CASE Fail("AcquireNotFound") /\ UNCHANGED <<kubeVars, baoVars, copy, budget, applied>>
  BY <1>0, <1>2, PlainFailure DEF WorkSteps, Tags
<1>3. CASE Unavailable /\ Fail("AcquireFailed") /\ UNCHANGED applied
  BY <1>0, <1>3, UnavailableFrame DEF WorkSteps, Tags
<1> QED BY <1>1, <1>2, <1>3 DEF ReadBack

(* The create call keeps the invariant, whatever OpenBao answers. *)
LEMMA CreateOK ==
  ASSUME IndInv, Create
  PROVE  CallOK
<1>0. /\ pc = "create" /\ UNCHANGED <<deps, creates, asked, kind>>
      /\ copy \in CRs /\ copy.bind = NoId
  BY DEF Create, IndInv, TypeOK, RuntimeTypeOK, ControlInv, WorkerInv
<1>1. CASE /\ \E i \in Ids :
                /\ store[i].state = "unused"
                /\ Put(i, Made(copy.want, "operator"))
                /\ \/ copy' = WithBinding(copy, i) /\ Goto("readBack") /\ UNCHANGED budget
                   \/ Spend /\ Fail("AcquireFailed") /\ UNCHANGED copy
           /\ UNCHANGED <<kubeVars, foreignHit, raced, applied>>
  <2>1. PICK i \in Ids :
          /\ store[i].state = "unused"
          /\ Put(i, Made(copy.want, "operator"))
          /\ \/ copy' = WithBinding(copy, i) /\ Goto("readBack") /\ UNCHANGED budget
             \/ Spend /\ Fail("AcquireFailed") /\ UNCHANGED copy
    BY <1>1
  <2>2. /\ Made(copy.want, "operator") \in Objects
        /\ Made(copy.want, "operator").state = "live"
        /\ Made(copy.want, "operator").maker = "operator"
    BY <1>0, MadeFacts, CRFields
  <2>3. /\ store' \in [Ids -> Objects] /\ StoreGrows
        /\ store'[i].state = "live" /\ store'[i].maker = "operator"
    BY <2>1, <2>2, PutGrows DEF IndInv, TypeOK
  <2>4. /\ copy' \in CRs /\ SameButBinding(copy', copy)
        /\ \/ copy'.bind = i /\ pc' = "readBack" /\ tag' = tag
           \/ copy'.bind = NoId /\ pc' = "report" /\ tag' = "AcquireFailed"
        /\ UNCHANGED <<queued, before, fresh>>
    BY <1>0, <2>1, BindingUpdate, SameCopy DEF Goto, Fail, Binds
  <2>5. budget' \in 0 .. EnvBudget
    BY <2>1, SpendTyped DEF IndInv, TypeOK, RuntimeTypeOK
  <2>6. CallFrame
    BY <1>0, <1>1, <2>4, <2>5 DEF IndInv, TypeOK, RuntimeTypeOK, CallFrame, WorkSteps, Tags
  <2>7. Known(copy)'
    BY <1>0, <2>3, <2>4 DEF IndInv, BindingsInv, Known, SameButBinding
  <2>8. ControlInv'
    BY <1>0, <2>4, UnboundAssumption
    DEF IndInv, ControlInv, WorkerInv, WorkSteps, DeleteSteps, BoundSteps, SameButBinding
  <2>9. before' \in Binds
    BY <2>4 DEF IndInv, TypeOK, RuntimeTypeOK, Binds
  <2>10. GoneInv'
    BY <1>0, <2>3, <2>4, <2>9 DEF IndInv, GoneInv, StoreGrows, Binds
  <2> QED BY <1>0, <1>1, <2>3, <2>6, <2>7, <2>8, <2>10 DEF CallOK, IndInv, NoForeignMutation
<1>2. CASE Fail("CreateRefused") /\ UNCHANGED <<kubeVars, baoVars, copy, budget, applied>>
  BY <1>0, <1>2, PlainFailure DEF WorkSteps, Tags
<1>3. CASE /\ raced' = TRUE
           /\ \E i \in Named :
                /\ Put(i, Configured(store[i], copy.want))
                /\ Hit(i)
                /\ copy' = WithBinding(copy, i)
           /\ Goto("readBack")
           /\ UNCHANGED <<kubeVars, budget, applied>>
  <2>1. PICK i \in Named : Put(i, Configured(store[i], copy.want)) /\ Hit(i) /\ copy' = WithBinding(copy, i)
    BY <1>3
  <2>2. i \in Ids /\ store[i].state = "live" /\ store[i] \in Objects /\ i # NoId
    BY UnboundAssumption DEF Named, Live, IndInv, TypeOK
  <2>3. /\ Configured(store[i], copy.want) \in Objects
        /\ Configured(store[i], copy.want).state = "live"
        /\ Configured(store[i], copy.want).maker = store[i].maker
    BY <1>0, <2>2, ConfiguredFacts, CRFields
  <2>4. store' \in [Ids -> Objects] /\ StoreGrows /\ store'[i].state = "live"
    BY <2>1, <2>2, <2>3, PutGrows DEF IndInv, TypeOK
  <2>5. copy' \in CRs /\ copy'.bind = i /\ SameButBinding(copy', copy)
    BY <1>0, <2>1, <2>2, BindingUpdate DEF Binds
  <2>6. foreignHit' \in BOOLEAN /\ raced' \in BOOLEAN
    BY <1>3, <2>1 DEF Hit
  <2>7. CallFrame
    BY <1>0, <1>3, <2>5, <2>6 DEF Goto, IndInv, TypeOK, RuntimeTypeOK, CallFrame, WorkSteps
  <2>8. Known(copy)'
    BY <1>0, <1>3, <2>4, <2>5 DEF IndInv, BindingsInv, Known, SameButBinding
  <2>9. ControlInv'
    BY <1>0, <1>3, <2>2, <2>5
    DEF Goto, IndInv, ControlInv, WorkerInv, WorkSteps, DeleteSteps, BoundSteps, SameButBinding
  <2>10. before' = before /\ before \in Binds
    BY <1>3 DEF Goto, IndInv, TypeOK, RuntimeTypeOK, Binds
  <2>11. GoneInv'
    BY <1>0, <1>3, <2>4, <2>5, <2>10 DEF Goto, IndInv, GoneInv, StoreGrows, Binds
  <2> QED BY <1>3, <2>4, <2>7, <2>8, <2>9, <2>11 DEF CallOK, NoForeignMutation
<1>4. CASE Unavailable /\ Fail("AcquireFailed") /\ UNCHANGED applied
  BY <1>0, <1>4, UnavailableFrame DEF WorkSteps, Tags
<1> QED BY <1>1, <1>2, <1>3, <1>4 DEF Create

(* The object that an update or a delete call reaches is the operator's or *)
(* an adopted one.                                                         *)
LEMMA HitIsAllowed ==
  ASSUME IndInv, pc \in BoundSteps, Hit(copy.bind), UNCHANGED <<asked, raced>>
  PROVE  foreignHit' \in BOOLEAN /\ raced' \in BOOLEAN /\ NoForeignMutation'
<1>1. foreignHit' \in BOOLEAN /\ raced' \in BOOLEAN
  BY DEF Hit, IndInv, TypeOK
<1>2. store[copy.bind].maker = "operator" \/ asked \/ raced
  BY DEF IndInv, BindingsInv, Known, ControlInv, WorkerInv
<1> QED BY <1>1, <1>2 DEF Hit, IndInv, NoForeignMutation

(* The update call keeps the invariant, whatever OpenBao answers. *)
LEMMA UpdateOK ==
  ASSUME IndInv, Update
  PROVE  CallOK
<1> DEFINE i == copy.bind
<1>0. pc = "update" /\ UNCHANGED <<deps, creates, asked, kind>>
  BY DEF Update
<1>b. copy \in CRs /\ i \in Ids /\ i # NoId /\ store[i] \in Objects
  BY <1>0, CRFields DEF IndInv, TypeOK, RuntimeTypeOK, ControlInv, WorkerInv, BoundSteps, Binds
<1>1. CASE /\ Live(i) /\ Put(i, Updated(store[i])) /\ Hit(i) /\ UNCHANGED raced /\ applied' = TRUE
           /\ \/ /\ Goto(IF Traits.rereads THEN "reread" ELSE "ready")
                 /\ UNCHANGED budget
              \/ Spend /\ Fail("UpdateFailed")
           /\ UNCHANGED <<kubeVars, copy>>
  <2>1. /\ Updated(store[i]) \in Objects
        /\ Updated(store[i]).state = "live" /\ Updated(store[i]).maker = store[i].maker
    BY <1>b, <1>1, UpdatedFacts DEF Live
  <2>2. store' \in [Ids -> Objects] /\ StoreGrows
    BY <1>b, <1>1, <2>1, PutGrows DEF Live, IndInv, TypeOK
  <2>3. foreignHit' \in BOOLEAN /\ raced' \in BOOLEAN /\ NoForeignMutation'
    BY <1>0, <1>1, HitIsAllowed DEF BoundSteps
  <2>4. /\ \/ pc' \in {"reread", "ready"} /\ tag' = tag
           \/ pc' = "report" /\ tag' = "UpdateFailed"
        /\ UNCHANGED <<queued, before, fresh>>
    BY <1>1 DEF Goto, Fail
  <2>5. budget' \in 0 .. EnvBudget
    BY <1>1, SpendTyped DEF IndInv, TypeOK, RuntimeTypeOK
  <2>6. CallFrame
    BY <1>0, <1>b, <1>1, <2>3, <2>4, <2>5, SameCopy
    DEF IndInv, TypeOK, RuntimeTypeOK, CallFrame, WorkSteps, Tags
  <2>7. Known(copy)'
    BY <1>0, <1>b, <1>1, <2>2 DEF IndInv, BindingsInv, Known, StoreGrows
  <2>8. ControlInv'
    BY <1>0, <1>1, <2>4 DEF IndInv, ControlInv, WorkerInv, WorkSteps, DeleteSteps, BoundSteps
  <2>9. before \in Binds
    BY DEF IndInv, TypeOK, RuntimeTypeOK, Binds
  <2>10. GoneInv'
    BY <1>0, <1>1, <2>2, <2>4, <2>9 DEF IndInv, GoneInv, StoreGrows, Binds
  <2> QED BY <2>2, <2>3, <2>6, <2>7, <2>8, <2>10 DEF CallOK
<1>2. CASE \E t \in {"UpdateRefused", "UpdateNotFound"} :
             Fail(t) /\ UNCHANGED <<kubeVars, baoVars, copy, budget, applied>>
  BY <1>0, <1>2, PlainFailure DEF WorkSteps, Tags
<1>3. CASE Unavailable /\ Fail("UpdateFailed") /\ UNCHANGED applied
  BY <1>0, <1>3, UnavailableFrame DEF WorkSteps, Tags
<1> QED BY <1>1, <1>2, <1>3 DEF Update

(* The read after an update keeps the invariant. *)
LEMMA RereadOK ==
  ASSUME IndInv, Reread
  PROVE  CallOK
<1>0. pc = "reread" /\ UNCHANGED <<deps, creates, asked, kind, applied>>
  BY DEF Reread
<1>1. CASE Goto("ready") /\ UNCHANGED <<kubeVars, baoVars, copy, budget>>
  <2>1. CallFrame
    BY <1>0, <1>1, SameCopy DEF Goto, IndInv, TypeOK, RuntimeTypeOK, CallFrame, WorkSteps
  <2>2. ControlInv'
    BY <1>0, <1>1 DEF Goto, IndInv, ControlInv, WorkerInv, WorkSteps, DeleteSteps, BoundSteps
  <2>3. GoneInv'
    BY <1>1, <2>1, PlainCall DEF Goto, GoneInv
  <2> QED BY <1>1, <2>1, <2>2, <2>3, PlainCall DEF CallOK
<1>2. CASE \E t \in {"IdentityMismatch", "ReadNotFound"} :
             Fail(t) /\ UNCHANGED <<kubeVars, baoVars, copy, budget>>
  BY <1>0, <1>2, PlainFailure DEF WorkSteps, Tags
<1>3. CASE Unavailable /\ Fail("ReadFailed")
  BY <1>0, <1>3, UnavailableFrame DEF WorkSteps, Tags
<1> QED BY <1>1, <1>2, <1>3 DEF Reread

(* The start of reconcileDeletion keeps the invariant. *)
LEMMA DecideDeletionOK ==
  ASSUME IndInv, DecideDeletion
  PROVE  CallOK
<1>1. /\ pc = "delete"
      /\ UNCHANGED <<kubeVars, envVars, copy, kind, baoVars, applied, queued, before, fresh>>
      /\ \/ pc' = "unfinalize" /\ tag' = tag /\ (~IsDelete(copy.del) \/ copy.bind = NoId)
         \/ pc' = "destroy" /\ tag' = tag /\ copy.bind # NoId
         \/ pc' = "cleanup" /\ tag' = "CleanupDependencyUnavailable"
  BY DEF DecideDeletion, Goto
<1>2. CallFrame
  BY <1>1, SameCopy DEF IndInv, TypeOK, RuntimeTypeOK, CallFrame, WorkSteps, DeleteSteps, Tags
<1>3. ControlInv'
  BY <1>1 DEF IndInv, ControlInv, WorkerInv, WorkSteps, DeleteSteps, BoundSteps
<1>4. GoneInv'
  BY <1>1, <1>2, PlainCall DEF GoneInv
<1> QED BY <1>1, <1>2, <1>3, <1>4, PlainCall DEF CallOK

(* The delete call keeps the invariant, whatever OpenBao answers. *)
LEMMA DestroyOK ==
  ASSUME IndInv, Destroy
  PROVE  CallOK
<1> DEFINE i == copy.bind
<1>0. pc = "destroy" /\ UNCHANGED <<deps, creates, asked, kind, applied>>
  BY DEF Destroy
<1>b. copy \in CRs /\ i \in Ids /\ i # NoId /\ store[i] \in Objects
  BY <1>0, CRFields DEF IndInv, TypeOK, RuntimeTypeOK, ControlInv, WorkerInv, BoundSteps, Binds
<1>1. CASE /\ Live(i) /\ Put(i, Destroyed(store[i])) /\ Hit(i) /\ UNCHANGED raced
           /\ \/ Goto("unfinalize") /\ UNCHANGED budget
              \/ /\ Spend /\ pc' = "cleanup" /\ tag' = "CleanupFailed"
                 /\ UNCHANGED <<queued, before, fresh>>
           /\ UNCHANGED <<kubeVars, copy>>
  <2>1. /\ Destroyed(store[i]) \in Objects
        /\ Destroyed(store[i]).state = "deleted" /\ Destroyed(store[i]).maker = store[i].maker
    BY <1>b, DestroyedFacts
  <2>2. store' \in [Ids -> Objects] /\ StoreGrows /\ store'[i].state = "deleted"
    BY <1>b, <1>1, <2>1, PutGrows DEF Live, IndInv, TypeOK
  <2>3. foreignHit' \in BOOLEAN /\ raced' \in BOOLEAN /\ NoForeignMutation'
    BY <1>0, <1>1, HitIsAllowed DEF BoundSteps
  <2>4. /\ \/ pc' = "unfinalize" /\ tag' = tag
           \/ pc' = "cleanup" /\ tag' = "CleanupFailed"
        /\ UNCHANGED <<queued, before, fresh>>
    BY <1>1 DEF Goto
  <2>5. budget' \in 0 .. EnvBudget
    BY <1>1, SpendTyped DEF IndInv, TypeOK, RuntimeTypeOK
  <2>6. CallFrame
    BY <1>0, <1>b, <1>1, <2>3, <2>4, <2>5, SameCopy
    DEF IndInv, TypeOK, RuntimeTypeOK, CallFrame, WorkSteps, DeleteSteps, Tags
  <2>7. Known(copy)'
    BY <1>0, <1>b, <1>1, <2>2 DEF IndInv, BindingsInv, Known, StoreGrows
  <2>8. ControlInv'
    BY <1>0, <1>1, <2>4 DEF IndInv, ControlInv, WorkerInv, WorkSteps, DeleteSteps, BoundSteps
  <2>9. before \in Binds
    BY DEF IndInv, TypeOK, RuntimeTypeOK, Binds
  <2>10. GoneInv'
    BY <1>0, <1>1, <2>2, <2>4, <2>9 DEF IndInv, GoneInv, StoreGrows, Binds
  <2> QED BY <2>2, <2>3, <2>6, <2>7, <2>8, <2>10 DEF CallOK
<1>2. CASE ~Live(i) /\ Goto("unfinalize") /\ UNCHANGED <<kubeVars, baoVars, copy, budget>>
  <2>1. CallFrame
    BY <1>0, <1>2, SameCopy DEF Goto, IndInv, TypeOK, RuntimeTypeOK, CallFrame, WorkSteps, DeleteSteps
  <2>2. ControlInv'
    BY <1>0, <1>2 DEF Goto, IndInv, ControlInv, WorkerInv, WorkSteps, DeleteSteps, BoundSteps
  <2>3. store[i].state = "deleted"
    BY <1>b, <1>2 DEF Live, Objects, IndInv, BindingsInv, Known
  <2>4. GoneInv'
    BY <1>2, <2>1, <2>3, PlainCall DEF GoneInv
  <2> QED BY <1>2, <2>1, <2>2, <2>4, PlainCall DEF CallOK
<1>3. CASE Unavailable /\ pc' = "cleanup" /\ tag' = "CleanupFailed" /\ UNCHANGED <<queued, before, fresh>>
  <2>1. CallFrame
    BY <1>0, <1>3, SameCopy, SpendTyped
    DEF Unavailable, IndInv, TypeOK, RuntimeTypeOK, CallFrame, WorkSteps, DeleteSteps, Tags
  <2>2. ControlInv'
    BY <1>0, <1>3 DEF Unavailable, IndInv, ControlInv, WorkerInv, WorkSteps, DeleteSteps, BoundSteps
  <2>3. GoneInv'
    BY <1>3, <2>1, PlainCall DEF Unavailable, GoneInv
  <2> QED BY <1>3, <2>1, <2>2, <2>3, PlainCall DEF CallOK, Unavailable
<1> QED BY <1>1, <1>2, <1>3 DEF Destroy

(* A call to OpenBao preserves the invariant. *)
LEMMA CallPreserves ==
  ASSUME IndInv, CallOK
  PROVE  IndInv'
<1>1. TypeOK'
  BY DEF CallOK, CallFrame, IndInv, TypeOK, RuntimeTypeOK, WorkSteps, DeleteSteps, Steps
<1>2. VersionsInv'
  BY DEF CallOK, CallFrame, IndInv, VersionsInv, SameButBinding
<1>3. server.bind \in Binds /\ cache.bind \in Binds
  BY CRFields DEF IndInv, TypeOK, RuntimeTypeOK
<1>4. BindingsInv'
  BY <1>3 DEF CallOK, CallFrame, IndInv, BindingsInv, Known, StoreGrows, Binds
<1>5. FinalizerInv'
  BY DEF CallOK, CallFrame, IndInv, FinalizerInv, SameButBinding, WorkSteps, DeleteSteps
<1> QED BY <1>1, <1>2, <1>4, <1>5 DEF CallOK, IndInv

----------------------------------------------------------------------------
(* The steps that talk to the API server *)

(* Reconcile returns: nothing of it survives in memory. *)
LEMMA FinishPreserves ==
  ASSUME IndInv, NEW r, Finish(r), UNCHANGED <<store, foreignHit, raced, asked>>
  PROVE  /\ Known(copy)' /\ ControlInv' /\ GoneInv' /\ NoForeignMutation'
         /\ fresh' = FALSE /\ copy'.fin = FALSE /\ copy'.deleting = FALSE /\ pc' = "idle"
<1>1. /\ pc' = "idle" /\ copy' = NoCR /\ before' = Unbound /\ fresh' = FALSE
  BY DEF Finish
<1>2. Known(copy)'
  BY <1>1, NoCRFields DEF Known
<1>3. ControlInv'
  BY <1>1 DEF ControlInv, WorkerInv, WorkSteps, DeleteSteps, BoundSteps
<1>4. GoneInv'
  BY <1>1 DEF GoneInv
<1>5. NoForeignMutation'
  BY DEF IndInv, NoForeignMutation
<1> QED BY <1>1, <1>2, <1>3, <1>4, <1>5, NoCRFields

(* Reconcile returns without having written. *)
LEMMA QuietReturnPreserves ==
  ASSUME IndInv, TypeOK', NEW r, Finish(r), UNCHANGED <<kubeVars, store, foreignHit, raced, asked>>
  PROVE  IndInv'
<1>1. VersionsInv'
  BY FinishPreserves DEF IndInv, VersionsInv
<1>2. BindingsInv'
  BY FinishPreserves DEF IndInv, BindingsInv, Known
<1>3. FinalizerInv'
  BY FinishPreserves DEF IndInv, FinalizerInv, WorkSteps
<1> QED BY <1>1, <1>2, <1>3, FinishPreserves DEF IndInv

(* Reconcile returns after a status write of binding b. *)
LEMMA StatusWritePreserves ==
  ASSUME IndInv, TypeOK', NEW r, Finish(r), UNCHANGED <<store, foreignHit, raced, asked>>,
         NEW b \in Binds, NEW cond \in Conditions, Accepted(WithStatus(server, b, cond)),
         b = copy.bind \/ b = server.bind
  PROVE  IndInv'
<1>1. /\ server' = WithStatus(server, b, cond) /\ cache' = cache /\ synced' = FALSE
      /\ server \in CRs
  BY DEF Accepted, IndInv, TypeOK, RuntimeTypeOK
<1>2. /\ server'.bind = b /\ server'.exists = server.exists /\ server'.create = server.create
      /\ server'.fin = server.fin /\ server'.deleting = server.deleting
  BY <1>1, StatusUpdate
<1>3. VersionsInv'
  BY <1>1, FinishPreserves DEF VersionsInv
<1>4. BindingsInv'
  BY <1>1, <1>2, FinishPreserves DEF IndInv, BindingsInv, Known
<1>5. FinalizerInv'
  BY <1>1, <1>2, FinishPreserves DEF IndInv, FinalizerInv, WorkSteps
<1> QED BY <1>3, <1>4, <1>5, FinishPreserves DEF IndInv

(* Reporting a failure keeps the invariant. *)
LEMMA ReportFailurePreserves ==
  ASSUME IndInv, TypeOK', ReportFailure, UNCHANGED RestOfBao
  PROVE  IndInv'
<1>1. CASE Finish(RequeueWhenFailed) /\ UNCHANGED kubeVars
  BY <1>1, QuietReturnPreserves DEF ReportFailure
<1>2. CASE Accepted(WithStatus(server, copy.bind, Condition(tag, copy))) /\ Finish(RequeueWhenFailed)
  <2>1. Condition(tag, copy) \in Conditions /\ copy.bind \in Binds
    BY ConditionTyped, CRFields DEF IndInv, TypeOK, RuntimeTypeOK
  <2> QED BY <1>2, <2>1, StatusWritePreserves DEF ReportFailure
<1>3. CASE Rejected
  BY <1>3, QuietReturnPreserves DEF Rejected, ReportFailure
<1> QED BY <1>1, <1>2, <1>3 DEF ReportFailure

(* Recording a cleanup failure keeps the invariant. *)
LEMMA RecordCleanupFailurePreserves ==
  ASSUME IndInv, TypeOK', RecordCleanupFailure, UNCHANGED RestOfBao
  PROVE  IndInv'
<1>1. CASE Finish(RequeueForCleanup) /\ UNCHANGED kubeVars
  BY <1>1, QuietReturnPreserves DEF RecordCleanupFailure
<1>2. CASE Accepted(WithStatus(server, server.bind, Condition(tag, copy))) /\ Finish(RequeueForCleanup)
  <2>1. Condition(tag, copy) \in Conditions /\ server.bind \in Binds
    BY ConditionTyped, CRFields DEF IndInv, TypeOK, RuntimeTypeOK
  <2> QED BY <1>2, <2>1, StatusWritePreserves DEF RecordCleanupFailure
<1>3. CASE Rejected
  BY <1>3, QuietReturnPreserves DEF Rejected, RecordCleanupFailure
<1> QED BY <1>1, <1>2, <1>3 DEF RecordCleanupFailure

(* Recording Ready keeps the invariant. *)
LEMMA RecordReadyPreserves ==
  ASSUME IndInv, TypeOK', RecordReady, UNCHANGED RestOfBao
  PROVE  IndInv'
<1>1. CASE Finish(RequeueWhenReady) /\ UNCHANGED kubeVars
  BY <1>1, QuietReturnPreserves DEF RecordReady
<1>2. CASE Accepted(WithStatus(server, copy.bind, Condition("Reconciled", copy))) /\ Finish(RequeueWhenReady)
  <2>1. "Reconciled" \in Tags
    BY DEF Tags
  <2>2. Condition("Reconciled", copy) \in Conditions /\ copy.bind \in Binds
    BY <2>1, ConditionTyped, CRFields DEF IndInv, TypeOK, RuntimeTypeOK
  <2> QED BY <1>2, <2>2, StatusWritePreserves DEF RecordReady
<1>3. CASE Rejected
  BY <1>3, QuietReturnPreserves DEF Rejected, RecordReady
<1> QED BY <1>1, <1>2, <1>3 DEF RecordReady

(* Releasing the finalizer keeps the invariant. *)
LEMMA RemoveFinalizerPreserves ==
  ASSUME IndInv, TypeOK', RemoveFinalizer, UNCHANGED RestOfBao
  PROVE  IndInv'
<1>1. CASE Finish(FALSE) /\ UNCHANGED kubeVars
  BY <1>1, QuietReturnPreserves DEF RemoveFinalizer
<1>2. CASE /\ Accepted(IF server.other THEN WithFinalizer(server, FALSE) ELSE NoCR)
           /\ Finish(FALSE)
  <2>1. /\ fresh /\ cache' = cache /\ synced' = FALSE /\ server \in CRs
        /\ server' = WithFinalizer(server, FALSE) \/ server' = NoCR
        /\ UNCHANGED <<store, foreignHit, raced, asked>>
    BY <1>2 DEF Accepted, IndInv, TypeOK, RuntimeTypeOK, RemoveFinalizer
  <2>2. /\ server'.fin = FALSE
        /\ \/ server'.bind = server.bind /\ server'.create = server.create
           \/ server'.bind = NoId /\ server'.create = "Create"
    <3>1. /\ WithFinalizer(server, FALSE).fin = FALSE
          /\ WithFinalizer(server, FALSE).bind = server.bind
          /\ WithFinalizer(server, FALSE).create = server.create
      BY <2>1, FinalizerUpdate
    <3> QED BY <2>1, <3>1, NoCRFields
  <2>3. cache.deleting
    BY <2>1 DEF RemoveFinalizer, IndInv, ControlInv, WorkerInv, FinalizerInv, DeleteSteps
  <2>4. VersionsInv'
    BY <1>2, <2>1, FinishPreserves DEF VersionsInv
  <2>5. Known(server)' /\ Known(cache)'
    BY <2>1, <2>2 DEF IndInv, BindingsInv, Known
  <2>5a. BindingsInv'
    BY <1>2, <2>1, <2>5, FinishPreserves DEF BindingsInv
  <2>6. FinalizerInv'
    BY <1>2, <2>1, <2>2, <2>3, FinishPreserves DEF IndInv, FinalizerInv, WorkSteps
  <2> QED BY <1>2, <2>1, <2>4, <2>5a, <2>6, FinishPreserves DEF IndInv
<1>3. CASE Rejected
  BY <1>3, QuietReturnPreserves DEF Rejected, RemoveFinalizer
<1> QED BY <1>1, <1>2, <1>3 DEF RemoveFinalizer

(* The start of a Reconcile keeps the invariant. *)
LEMMA DequeuePreserves ==
  ASSUME IndInv, TypeOK', Dequeue, UNCHANGED RestOfBao
  PROVE  IndInv'
<1>1. UNCHANGED <<kubeVars, store, foreignHit, raced, asked>> /\ pc = "idle" /\ pc' = AfterGet(cache)
  BY DEF Dequeue
<1>2. CASE ~cache.exists
  <2>1. pc' = "idle" /\ UNCHANGED <<copy, before, fresh>>
    BY <1>1, <1>2 DEF Dequeue, AfterGet
  <2>2. VersionsInv' /\ BindingsInv' /\ NoForeignMutation'
    BY <1>1, <2>1 DEF IndInv, VersionsInv, BindingsInv, Known, NoForeignMutation
  <2>3. FinalizerInv' /\ ControlInv' /\ GoneInv'
    BY <1>1, <2>1
    DEF IndInv, FinalizerInv, ControlInv, WorkerInv, GoneInv, WorkSteps, DeleteSteps, BoundSteps
  <2> QED BY <2>2, <2>3 DEF IndInv
<1>3. CASE cache.exists
  <2>1. copy' = cache /\ before' = cache.bind /\ fresh' = synced
    BY <1>3 DEF Dequeue
  <2>2. \/ pc' = "delete" /\ cache.deleting
        \/ pc' = "finalize" /\ ~cache.deleting
        \/ pc' = "resolve" /\ ~cache.deleting /\ (IsDelete(cache.del) => cache.fin)
    BY <1>1, <1>3, CRFields DEF AfterGet, IndInv, TypeOK, RuntimeTypeOK
  <2>3. VersionsInv'
    BY <1>1, <2>1 DEF IndInv, VersionsInv, SameButBinding
  <2>4. BindingsInv' /\ NoForeignMutation'
    BY <1>1, <2>1 DEF IndInv, BindingsInv, Known, NoForeignMutation
  <2>5. FinalizerInv'
    BY <1>1, <2>1, <2>2 DEF IndInv, FinalizerInv, WorkSteps
  <2>6. ControlInv'
    BY <1>3, <2>1, <2>2 DEF ControlInv, WorkerInv, WorkSteps, DeleteSteps, BoundSteps
  <2>7. GoneInv'
    BY <2>1, <2>2 DEF GoneInv
  <2> QED BY <2>3, <2>4, <2>5, <2>6, <2>7 DEF IndInv
<1> QED BY <1>2, <1>3

(* Adding the finalizer keeps the invariant. *)
LEMMA EnsureFinalizerPreserves ==
  ASSUME IndInv, TypeOK', EnsureFinalizer, UNCHANGED <<RestOfBao, applied>>
  PROVE  IndInv'
<1>1. CASE /\ Accepted(WithFinalizer(server, TRUE))
           /\ copy' = WithFinalizer(copy, TRUE)
           /\ Goto("resolve")
  <2>1. /\ pc = "finalize" /\ fresh /\ server \in CRs /\ copy \in CRs
        /\ server' = WithFinalizer(server, TRUE) /\ copy' = WithFinalizer(copy, TRUE)
        /\ cache' = cache /\ synced' = FALSE /\ pc' = "resolve"
        /\ UNCHANGED <<before, fresh, store, foreignHit, raced, asked>>
    BY <1>1 DEF EnsureFinalizer, Accepted, Goto, IndInv, TypeOK, RuntimeTypeOK
  <2>2. SameButBinding(copy, server) /\ before = server.bind
    BY <2>1 DEF IndInv, VersionsInv
  <2>3. copy.exists /\ ~copy.deleting /\ copy.bind = before
    BY <2>1 DEF IndInv, ControlInv, WorkerInv, WorkSteps
  <2>4. /\ WithFinalizer(server, TRUE).fin = TRUE
        /\ WithFinalizer(server, TRUE).bind = server.bind
        /\ WithFinalizer(server, TRUE).create = server.create
        /\ WithFinalizer(server, TRUE).exists = server.exists
        /\ WithFinalizer(server, TRUE).del = server.del
        /\ WithFinalizer(server, TRUE).want = server.want
        /\ WithFinalizer(server, TRUE).gen = server.gen
        /\ WithFinalizer(server, TRUE).deleting = server.deleting
        /\ WithFinalizer(server, TRUE).other = server.other
        /\ WithFinalizer(server, TRUE).ready = server.ready
    BY <2>1, FinalizerUpdate
  <2>5. /\ WithFinalizer(copy, TRUE).fin = TRUE
        /\ WithFinalizer(copy, TRUE).bind = copy.bind
        /\ WithFinalizer(copy, TRUE).create = copy.create
        /\ WithFinalizer(copy, TRUE).exists = copy.exists
        /\ WithFinalizer(copy, TRUE).del = copy.del
        /\ WithFinalizer(copy, TRUE).want = copy.want
        /\ WithFinalizer(copy, TRUE).gen = copy.gen
        /\ WithFinalizer(copy, TRUE).deleting = copy.deleting
        /\ WithFinalizer(copy, TRUE).other = copy.other
        /\ WithFinalizer(copy, TRUE).ready = copy.ready
    BY <2>1, FinalizerUpdate
  <2>6. VersionsInv'
    BY <2>1, <2>2, <2>4, <2>5 DEF VersionsInv, SameButBinding
  <2>7. /\ server'.bind = server.bind /\ server'.create = server.create
        /\ copy'.bind = copy.bind /\ copy'.create = copy.create
        /\ UNCHANGED <<cache, store, foreignHit, raced, asked>>
    BY <2>1, <2>4, <2>5
  <2>n. BindingsInv' /\ NoForeignMutation'
    BY <2>7 DEF IndInv, BindingsInv, Known, NoForeignMutation
  <2>8. FinalizerInv'
    BY <2>1, <2>2, <2>3, <2>4, <2>5 DEF IndInv, FinalizerInv, SameButBinding
  <2>9. ControlInv'
    BY <2>1, <2>3, <2>5 DEF ControlInv, WorkerInv, WorkSteps, DeleteSteps, BoundSteps
  <2>10. GoneInv'
    BY <2>1, <2>3, <2>5 DEF GoneInv
  <2> QED BY <2>6, <2>n, <2>8, <2>9, <2>10 DEF IndInv
<1>2. CASE Rejected
  BY <1>2, QuietReturnPreserves DEF Rejected, EnsureFinalizer
<1> QED BY <1>1, <1>2 DEF EnsureFinalizer

----------------------------------------------------------------------------
(* The steps of users, administrators and the informer *)

(* Another party's write of resource c. *)
LEMMA ServerWritePreserves ==
  ASSUME IndInv, TypeOK', NEW c \in CRs, ServerWrite(c),
         UNCHANGED <<RestOfBao, applied>>, asked => asked',
         c.create # "Create" => asked',
         c.bind = server.bind \/ c.bind = NoId,
         c.fin => c.exists,
         server.fin => c.fin
  PROVE  IndInv'
<1>1. /\ server' = c /\ synced' = FALSE /\ fresh' = FALSE
      /\ UNCHANGED <<cache, pc, copy, before, tag, store, foreignHit, raced, applied>>
  BY DEF ServerWrite
<1>2. VersionsInv'
  BY <1>1 DEF VersionsInv
<1>3. BindingsInv'
  BY <1>1 DEF IndInv, BindingsInv, Known
<1>4. FinalizerInv'
  BY <1>1 DEF IndInv, FinalizerInv
<1>5. ControlInv' /\ GoneInv' /\ NoForeignMutation'
  BY <1>1 DEF IndInv, ControlInv, WorkerInv, GoneInv, NoForeignMutation
<1> QED BY <1>2, <1>3, <1>4, <1>5 DEF IndInv

(* The user's writes keep the invariant. *)
LEMMA UserPreserves ==
  ASSUME IndInv, TypeOK', UserCreate \/ UserEdit \/ UserDelete \/ ReleaseOther,
         UNCHANGED <<RestOfBao, applied>>
  PROVE  IndInv'
<1>0. server \in CRs /\ (server.fin => server.exists) /\ (server.create # "Create" => asked)
  BY DEF IndInv, TypeOK, RuntimeTypeOK, FinalizerInv, BindingsInv, Known
<1>1. CASE UserCreate
  <2>1. PICK p \in CreationPolicies, d \in DeletionPolicies, w \in Configs :
          ServerWrite(NewResource(p, d, w)) /\ asked' = (asked \/ p # "Create")
    BY <1>1 DEF UserCreate
  <2>2. ~server.fin
    BY <1>0, <1>1 DEF UserCreate
  <2> QED BY <2>1, <2>2, NewResourceFields, ServerWritePreserves
<1>2. CASE UserEdit
  <2>1. PICK p \in CreationPolicies, d \in DeletionPolicies, w \in Configs :
          ServerWrite(WithSpec(server, p, d, w)) /\ asked' = (asked \/ p # "Create")
    BY <1>2 DEF UserEdit
  <2> DEFINE c == WithSpec(server, p, d, w)
  <2>2. /\ c \in CRs /\ c.create = p /\ c.bind = server.bind
        /\ c.fin = server.fin /\ c.exists = server.exists
    BY <1>0, SpecUpdate
  <2> HIDE DEF c
  <2>3. (asked => asked') /\ (c.create # "Create" => asked')
    BY <2>1, <2>2
  <2> QED BY <1>0, <2>1, <2>2, <2>3, ServerWritePreserves DEF c
<1>3. CASE UserDelete
  <2>1. asked' = asked
    BY <1>3 DEF UserDelete
  <2>2. CASE \E o \in BOOLEAN : ServerWrite(Terminating(server, o))
    BY <1>0, <2>1, <2>2, TerminatingUpdate, ServerWritePreserves
  <2>3. CASE ~server.fin /\ ServerWrite(NoCR)
    BY <2>1, <2>3, NoCRTyped, NoCRFields, ServerWritePreserves
  <2> QED BY <1>3, <2>2, <2>3 DEF UserDelete
<1>4. CASE ReleaseOther
  <2>1. asked' = asked
    BY <1>4 DEF ReleaseOther
  <2>2. CASE ServerWrite(Terminating(server, FALSE))
    BY <1>0, <2>1, <2>2, TerminatingUpdate, ServerWritePreserves
  <2>3. CASE ~server.fin /\ ServerWrite(NoCR)
    BY <2>1, <2>3, NoCRTyped, NoCRFields, ServerWritePreserves
  <2> QED BY <1>4, <2>2, <2>3 DEF ReleaseOther
<1> QED BY <1>1, <1>2, <1>3, <1>4

(* The informer's catching up keeps the invariant. *)
LEMMA SyncPreserves ==
  ASSUME IndInv, TypeOK', Sync, UNCHANGED <<RestOfBao, applied>>
  PROVE  IndInv'
<1>1. /\ cache' = server /\ synced' = TRUE
      /\ UNCHANGED <<server, pc, copy, before, fresh, tag, asked, store, foreignHit, raced, applied>>
  BY DEF Sync
<1>2. VersionsInv' /\ BindingsInv' /\ NoForeignMutation'
  BY <1>1 DEF IndInv, VersionsInv, BindingsInv, Known, NoForeignMutation
<1>3. FinalizerInv'
  BY <1>1 DEF IndInv, FinalizerInv, VersionsInv, SameButBinding
<1>4. ControlInv' /\ GoneInv'
  BY <1>1 DEF IndInv, ControlInv, WorkerInv, GoneInv
<1> QED BY <1>2, <1>3, <1>4 DEF IndInv

(* A restart of the operator keeps the invariant. *)
LEMMA CrashPreserves ==
  ASSUME IndInv, TypeOK', Crash, UNCHANGED RestOfBao
  PROVE  IndInv'
<1>1. /\ Finish(TRUE) /\ cache' = server /\ synced' = TRUE
      /\ UNCHANGED <<server, asked, store, foreignHit, raced>>
  BY DEF Crash
<1>2. VersionsInv'
  BY <1>1, FinishPreserves DEF VersionsInv
<1>3. Known(server)' /\ Known(cache)'
  BY <1>1 DEF IndInv, BindingsInv, Known
<1>4. BindingsInv'
  BY <1>1, <1>3, FinishPreserves DEF BindingsInv
<1>5. FinalizerInv'
  BY <1>1, FinishPreserves DEF IndInv, FinalizerInv, WorkSteps
<1> QED BY <1>1, <1>2, <1>4, <1>5, FinishPreserves DEF IndInv

(* A step that only lets the store grow. *)
LEMMA GrowthPreserves ==
  ASSUME IndInv, TypeOK', StoreGrows,
         UNCHANGED <<server, cache, synced, pc, copy, before, fresh, tag, asked, foreignHit, raced, applied>>
  PROVE  IndInv'
<1>1. server.bind \in Binds /\ cache.bind \in Binds /\ copy.bind \in Binds /\ before \in Binds
  BY CRFields DEF IndInv, TypeOK, RuntimeTypeOK, Binds
<1>2. VersionsInv' /\ FinalizerInv' /\ ControlInv' /\ NoForeignMutation'
  BY DEF IndInv, VersionsInv, FinalizerInv, ControlInv, WorkerInv, NoForeignMutation
<1>3. BindingsInv'
  BY <1>1 DEF IndInv, BindingsInv, Known, StoreGrows, Binds
<1>4. GoneInv'
  BY <1>1 DEF IndInv, GoneInv, StoreGrows, Binds
<1> QED BY <1>2, <1>3, <1>4 DEF IndInv

(* Other administrators keep OpenBao's history. *)
LEMMA ForeignStoreGrows ==
  ASSUME TypeOK, ForeignCreate \/ ForeignChange
  PROVE  store' \in [Ids -> Objects] /\ StoreGrows
<1>0. store \in [Ids -> Objects]
  BY DEF TypeOK
<1>1. CASE ForeignCreate
  <2>1. PICK i \in Ids, w \in Configs : store[i].state = "unused" /\ Put(i, Made(w, "foreign"))
    BY <1>1 DEF ForeignCreate
  <2>2. Made(w, "foreign") \in Objects /\ Made(w, "foreign").state = "live"
    BY MadeFacts
  <2> QED BY <1>0, <2>1, <2>2, PutGrows
<1>2. CASE ForeignChange
  <2>1. PICK i \in Ids :
          /\ Live(i)
          /\ \/ Put(i, Destroyed(store[i]))
             \/ \E w \in Configs : Put(i, Configured(store[i], w))
             \/ \E n \in {"own", "other"} : Put(i, Renamed(store[i], n))
    BY <1>2 DEF ForeignChange
  <2>2. store[i] \in Objects /\ store[i].state = "live"
    BY <1>0, <2>1 DEF Live
  <2>3. CASE Put(i, Destroyed(store[i]))
    BY <1>0, <2>2, <2>3, DestroyedFacts, PutGrows
  <2>4. CASE \E w \in Configs : Put(i, Configured(store[i], w))
    <3>1. PICK w \in Configs : Put(i, Configured(store[i], w))
      BY <2>4
    <3>2. /\ Configured(store[i], w) \in Objects
          /\ Configured(store[i], w).state = "live"
          /\ Configured(store[i], w).maker = store[i].maker
      BY <2>2, ConfiguredFacts
    <3> QED BY <1>0, <2>2, <3>1, <3>2, PutGrows
  <2>5. CASE \E n \in {"own", "other"} : Put(i, Renamed(store[i], n))
    <3>1. PICK n \in {"own", "other"} : Put(i, Renamed(store[i], n))
      BY <2>5
    <3>2. /\ Renamed(store[i], n) \in Objects
          /\ Renamed(store[i], n).state = "live"
          /\ Renamed(store[i], n).maker = store[i].maker
      BY <2>2, RenamedFacts
    <3> QED BY <1>0, <2>2, <3>1, <3>2, PutGrows
  <2> QED BY <2>1, <2>3, <2>4, <2>5
<1> QED BY <1>1, <1>2

----------------------------------------------------------------------------
(* The invariant *)

(* The inductive invariant holds at the start. *)
LEMMA InitEstablishes ==
  ASSUME Init
  PROVE  IndInv
<1>1. /\ server = NoCR /\ cache = NoCR /\ copy = NoCR /\ pc = "idle" /\ before = Unbound
      /\ fresh = FALSE /\ foreignHit = FALSE /\ raced = FALSE
  BY DEF Init, RuntimeInit
<1>2. RuntimeTypeOK
  <2>1. server \in CRs /\ cache \in CRs /\ copy \in CRs
    BY <1>1, NoCRTyped
  <2>2. budget \in 0 .. EnvBudget /\ creates \in 0 .. MaxCreates
    BY BoundsAssumption DEF Init, RuntimeInit
  <2> QED BY <2>1, <2>2 DEF Init, RuntimeInit, RuntimeTypeOK, Steps, Tags, DepStates
<1>3. Unused \in Objects
  BY DEF Unused, Objects
<1>4. TypeOK
  BY <1>2, <1>3 DEF Init, TypeOK
<1>5. VersionsInv /\ BindingsInv /\ NoForeignMutation
  BY <1>1, NoCRFields DEF VersionsInv, BindingsInv, Known, NoForeignMutation
<1>6. FinalizerInv
  BY <1>1, NoCRFields DEF FinalizerInv, WorkSteps
<1>7. ControlInv /\ GoneInv
  BY <1>1 DEF ControlInv, WorkerInv, GoneInv, WorkSteps, DeleteSteps, BoundSteps
<1> QED BY <1>4, <1>5, <1>6, <1>7 DEF IndInv

(* Every step keeps the invariant. *)
LEMMA NextPreserves ==
  ASSUME IndInv, Next
  PROVE  IndInv'
<1>0. RuntimeTypeOK /\ kind \in Kinds /\ store \in [Ids -> Objects] /\ foreignHit \in BOOLEAN /\ raced \in BOOLEAN /\ applied \in BOOLEAN
  BY DEF IndInv, TypeOK
<1>1. CASE Resolve \/ GetById \/ Lookup \/ Create \/ ReadBack \/ Update \/ Reread \/ DecideDeletion \/ Destroy
  BY <1>1, CallPreserves, ResolveOK, GetByIdOK, LookupOK, CreateOK, ReadBackOK, UpdateOK,
     RereadOK, DecideDeletionOK, DestroyOK
<1>2. CASE Dequeue /\ applied' = FALSE /\ UNCHANGED RestOfBao
  BY <1>0, <1>2, RuntimeStepTyped, DequeuePreserves DEF TypeOK
<1>3. CASE EnsureFinalizer /\ UNCHANGED <<RestOfBao, applied>>
  BY <1>0, <1>3, RuntimeStepTyped, EnsureFinalizerPreserves DEF TypeOK
<1>4. CASE RecordReady /\ applied' = FALSE /\ UNCHANGED RestOfBao
  BY <1>0, <1>4, RuntimeStepTyped, RecordReadyPreserves DEF TypeOK
<1>5. CASE ReportFailure /\ applied' = FALSE /\ UNCHANGED RestOfBao
  BY <1>0, <1>5, RuntimeStepTyped, ReportFailurePreserves DEF TypeOK
<1>6. CASE RecordCleanupFailure /\ UNCHANGED <<RestOfBao, applied>>
  BY <1>0, <1>6, RuntimeStepTyped, RecordCleanupFailurePreserves DEF TypeOK
<1>7. CASE RemoveFinalizer /\ UNCHANGED <<RestOfBao, applied>>
  BY <1>0, <1>7, RuntimeStepTyped, RemoveFinalizerPreserves DEF TypeOK
<1>8. CASE (UserCreate \/ UserEdit \/ UserDelete \/ ReleaseOther) /\ UNCHANGED <<RestOfBao, applied>>
  BY <1>0, <1>8, OutsideStepTyped, UserPreserves DEF TypeOK
<1>9. CASE ChangeDeps /\ UNCHANGED <<RestOfBao, applied>>
  <2>1. TypeOK'
    BY <1>0, <1>9, OutsideStepTyped DEF TypeOK
  <2> QED BY <1>9, <2>1, SameStoreGrows, GrowthPreserves DEF ChangeDeps
<1>10. CASE Crash /\ applied' = FALSE /\ UNCHANGED RestOfBao
  BY <1>0, <1>10, OutsideStepTyped, CrashPreserves DEF TypeOK
<1>11. CASE ForeignCreate \/ ForeignChange
  <2>1. UNCHANGED <<kubeVars, queued, workerVars, deps, creates, asked, kind, foreignHit, raced, applied>> /\ Spend
    BY <1>11 DEF ForeignCreate, ForeignChange
  <2>2. store' \in [Ids -> Objects] /\ StoreGrows
    BY <1>11, ForeignStoreGrows DEF IndInv
  <2>3. TypeOK'
    BY <1>0, <2>1, <2>2, SpendTyped DEF TypeOK, RuntimeTypeOK
  <2> QED BY <2>1, <2>2, <2>3, GrowthPreserves
<1>12. CASE Sync /\ UNCHANGED <<RestOfBao, applied>>
  BY <1>0, <1>12, OutsideStepTyped, SyncPreserves DEF TypeOK
<1> QED BY <1>1, <1>2, <1>3, <1>4, <1>5, <1>6, <1>7, <1>8, <1>9, <1>10, <1>11, <1>12
        DEF Next, Worker, Environment

(* A stuttering step keeps the invariant. *)
LEMMA StutterPreserves ==
  ASSUME IndInv, UNCHANGED vars
  PROVE  IndInv'
<1>1. TypeOK'
  BY DEF vars, rtVars, IndInv, TypeOK, RuntimeTypeOK
<1> QED BY <1>1, SameStoreGrows, GrowthPreserves DEF vars, rtVars

(* IndInv holds in every reachable state, for every value of the constants. *)
THEOREM Invariance == Spec => []IndInv
<1>1. Init => IndInv
  BY InitEstablishes
<1>2. IndInv /\ [Next]_vars => IndInv'
  BY NextPreserves, StutterPreserves
<1> QED BY <1>1, <1>2, PTL DEF Spec

(* The type invariant of the resource, its worker and OpenBao's store. *)
THEOREM TypeCorrect == Spec => []TypeOK
<1>1. IndInv => TypeOK
  BY DEF IndInv
<1> QED BY <1>1, Invariance, PTL

(* Ownership: whatever is lost, stale or repeated, an object of somebody   *)
(* else is changed or deleted only if some version of the spec asked for   *)
(* adoption, or OpenBao lets a create take over a name.                    *)
THEOREM Ownership == Spec => []NoForeignMutation
<1>1. IndInv => NoForeignMutation
  BY DEF IndInv
<1> QED BY <1>1, Invariance, PTL

(* The API server holds the finalizer whenever a Delete-policy resource is *)
(* about to create or update an object.                                    *)
THEOREM FinalizerFirst == Spec => []FinalizerBeforeMutation
<1>1. IndInv => FinalizerBeforeMutation
  BY DEF IndInv, FinalizerInv, ControlInv, WorkerInv, FinalizerBeforeMutation, WorkSteps
<1> QED BY <1>1, Invariance, PTL

----------------------------------------------------------------------------
(* Nothing is forgotten *)

(* A step keeps the queue's part of the invariant. *)
LEMMA QueuePreserves ==
  ASSUME IndInv, QueueInv, [Next]_vars
  PROVE  QueueInv'
<1>0. VersionsInv /\ WorkerInv
  BY DEF IndInv, ControlInv
<1>1. CASE Resolve \/ GetById \/ Lookup \/ Create \/ ReadBack \/ Update \/ Reread \/ DecideDeletion \/ Destroy
  <2>1. CallOK
    BY <1>1, ResolveOK, GetByIdOK, LookupOK, CreateOK, ReadBackOK, UpdateOK,
       RereadOK, DecideDeletionOK, DestroyOK
  <2>2. UNCHANGED <<synced, queued, fresh>> /\ pc # "idle" /\ pc' # "idle"
    BY <2>1 DEF CallOK, CallFrame, WorkSteps, DeleteSteps
  <2> QED BY <2>2, QueueMove
<1>2. CASE \/ Dequeue \/ EnsureFinalizer \/ ReportFailure
           \/ RecordCleanupFailure \/ RecordReady \/ RemoveFinalizer
  BY <1>0, <1>2, QueueStep
<1>3. CASE UserCreate \/ UserEdit \/ UserDelete \/ ReleaseOther \/ Sync \/ ChangeDeps \/ Crash
  BY <1>3, QueueOutside
<1>4. CASE ForeignCreate \/ ForeignChange
  <2>1. UNCHANGED <<synced, queued, fresh>> /\ UNCHANGED <<server, pc>>
    BY <1>4 DEF ForeignCreate, ForeignChange, kubeVars, workerVars
  <2> QED BY <2>1, QueueMove
<1>5. CASE UNCHANGED vars
  <2>1. UNCHANGED <<synced, queued, fresh>> /\ UNCHANGED <<server, pc>>
    BY <1>5 DEF vars, rtVars, kubeVars, workerVars
  <2> QED BY <2>1, QueueMove
<1> QED BY <1>1, <1>2, <1>3, <1>4, <1>5 DEF Next, Worker, Environment

(* Every result that Reconcile returns requeues the key, leaves an event   *)
(* on its way or has nothing left to do: a resource that nobody is going   *)
(* to look at again is Ready for its generation with drift detection off,  *)
(* or terminating without the finalizer.                                   *)
THEOREM NoneForgotten == Spec => []NothingForgotten
<1>1. Init => QueueInv
  BY QueueInit DEF Init
<1>2. IndInv /\ QueueInv /\ [Next]_vars => QueueInv'
  BY QueuePreserves
<1>3. QueueInv => NothingForgotten
  BY DEF QueueInv
<1> QED BY <1>1, <1>2, <1>3, Invariance, PTL DEF Spec

----------------------------------------------------------------------------
(* Action properties *)

(* The writes of the stored resource, by who makes them. *)
LEMMA ServerSteps ==
  ASSUME [Next]_vars
  PROVE  ServerStep
<1>1. CASE Resolve \/ GetById \/ Lookup \/ Create \/ ReadBack
  BY <1>1 DEF Resolve, GetById, Lookup, Create, ReadBack, Unavailable, ServerStep
<1>2. CASE Update \/ Reread \/ DecideDeletion \/ Destroy
  BY <1>2 DEF Update, Reread, DecideDeletion, Destroy, Unavailable, ServerStep
<1>3. CASE ForeignCreate \/ ForeignChange
  BY <1>3 DEF ForeignCreate, ForeignChange, ServerStep
<1>4. CASE UNCHANGED vars
  BY <1>4 DEF vars, rtVars, ServerStep
<1> QED BY <1>1, <1>2, <1>3, <1>4, RuntimeServerSteps DEF Next, Worker, Environment

(* The step that releases the finalizer does not touch OpenBao. *)
LEMMA ReleaseKeepsStore ==
  ASSUME [Next]_vars, Releases
  PROVE  store' = store
<1>1. server' # server
  BY DEF Releases
<1>2. ~(Resolve \/ GetById \/ Lookup \/ Create \/ ReadBack)
  BY <1>1 DEF Resolve, GetById, Lookup, Create, ReadBack, Unavailable
<1>3. ~(Update \/ Reread \/ DecideDeletion \/ Destroy)
  BY <1>1 DEF Update, Reread, DecideDeletion, Destroy, Unavailable
<1>4. ~(ForeignCreate \/ ForeignChange)
  BY <1>1 DEF ForeignCreate, ForeignChange
<1>5. ~UNCHANGED vars
  BY <1>1 DEF vars, rtVars
<1> QED BY <1>2, <1>3, <1>4, <1>5 DEF Next, Worker, Environment

(* What a step does to the fields the properties are about. *)
LEMMA StepFields ==
  ASSUME IndInv, [Next]_vars
  PROVE  /\ Releases => pc = "unfinalize" /\ fresh /\ store' = store
         /\ server'.exists => StatusStep
<1>1. RuntimeTypeOK
  BY DEF IndInv, TypeOK
<1> QED BY <1>1, ServerSteps, ServerStepFields, ReleaseKeepsStore DEF Releases

(* A recorded object is gone before the finalizer of its Delete-policy     *)
(* resource is.                                                            *)
THEOREM CleanupFirst == Spec => CleanupBeforeRelease
<1>1. ASSUME IndInv, [Next]_vars, Releases, IsDelete(server.del), server.bind # NoId
      PROVE  store'[server.bind].state # "live"
  <2>1. pc = "unfinalize" /\ fresh /\ store' = store
    BY <1>1, StepFields
  <2>2. copy.del = server.del /\ copy.bind = server.bind
    BY <1>1, <2>1 DEF IndInv, VersionsInv, SameButBinding, ControlInv, WorkerInv, DeleteSteps
  <2> QED BY <1>1, <2>1, <2>2 DEF IndInv, GoneInv
<1>2. IndInv /\ [Next]_vars
      => [Releases /\ IsDelete(server.del) /\ server.bind # NoId
            => store'[server.bind].state # "live"]_vars
  BY <1>1
<1> QED BY <1>2, Invariance, PTL DEF Spec, CleanupBeforeRelease

(* A recorded ID is dropped or replaced only when no object has it. *)
THEOREM StableBinding == Spec => BindingIsStable
<1>1. ASSUME IndInv, [Next]_vars, server.exists, server'.exists, server.bind # NoId,
             server'.bind # server.bind
      PROVE  ~Live(server.bind)
  <2>1. fresh /\ server'.bind = copy.bind
    BY <1>1, StepFields DEF StatusStep
  <2>2. before = server.bind
    BY <1>1, <2>1 DEF IndInv, VersionsInv
  <2> QED BY <1>1, <2>1, <2>2 DEF IndInv, GoneInv, Live
<1>2. IndInv /\ [Next]_vars
      => [server.exists /\ server'.exists /\ server.bind # NoId
            /\ server'.bind # server.bind => ~Live(server.bind)]_vars
  BY <1>1
<1> QED BY <1>2, Invariance, PTL DEF Spec, BindingIsStable

(* Ready is recorded for a generation only by a Reconcile that has seen or *)
(* made the recorded object so.                                            *)
THEOREM HonestReady == Spec => ReadyMeansApplied
<1>1. ASSUME IndInv, [Next]_vars, server'.exists, server'.ready.tag = "Reconciled",
             <<server'.bind, server'.ready>> # <<server.bind, server.ready>>
      PROVE  /\ applied
             /\ server'.bind = copy.bind /\ server'.want = copy.want
             /\ server'.ready.gen = server'.gen
  <2>1. /\ pc = "ready" /\ fresh /\ server'.bind = copy.bind
        /\ server'.ready = Condition("Reconciled", copy)
        /\ server'.want = server.want /\ server'.gen = server.gen
    <3>1. (pc = "report" => tag # "Reconciled") /\ (pc = "cleanup" => tag # "Reconciled")
      BY <1>1 DEF IndInv, ControlInv, WorkerInv
    <3> QED BY <1>1, <3>1, StepFields DEF StatusStep
  <2>2. copy.want = server.want /\ copy.gen = server.gen
    BY <1>1, <2>1 DEF IndInv, VersionsInv, SameButBinding
  <2> QED BY <1>1, <2>1, <2>2 DEF IndInv, ControlInv, WorkerInv, Condition
<1>2. IndInv /\ [Next]_vars
      => [server'.exists /\ server'.ready.tag = "Reconciled"
            /\ <<server'.bind, server'.ready>> # <<server.bind, server.ready>>
            => /\ applied
               /\ server'.bind = copy.bind /\ server'.want = copy.want
               /\ server'.ready.gen = server'.gen]_vars
  BY <1>1
<1> QED BY <1>2, Invariance, PTL DEF Spec, ReadyMeansApplied

----------------------------------------------------------------------------
(* The promise.  IdLifecycle implements OwnedObject: every step of the     *)
(* reconcilers, of the users and of OpenBao is a step of the promise or    *)
(* leaves alone what the promise is about.  The inductive invariant is     *)
(* what makes a step that relies on an old copy of the resource a correct  *)
(* step of the stored one.                                                 *)

(* What the promise sees of OpenBao. *)
States == [i \in Ids |-> store[i].state]

(* Replacing an object shows as the change of its state alone. *)
LEMMA PutState ==
  ASSUME store \in [Ids -> Objects], NEW i \in Ids, NEW o \in Objects, Put(i, o)
  PROVE  States' = [States EXCEPT ![i] = o.state]
  BY DEF Put, States

(* A change that keeps the object's state does not show. *)
LEMMA PutSame ==
  ASSUME store \in [Ids -> Objects], NEW i \in Ids, NEW o \in Objects, Put(i, o),
         o.state = store[i].state
  PROVE  States' = States
  BY DEF Put, States

(* The operator's object is made, or a live one deleted, or neither. *)
StatesStep ==
  \/ States' = States
  \/ \E i \in Ids : store[i].state = "unused" /\ States' = [States EXCEPT ![i] = "live"]
  \/ \E i \in Ids : store[i].state = "live" /\ States' = [States EXCEPT ![i] = "deleted"]

(* A create, an update and a delete call, also when their answer is lost. *)
LEMMA CallStates ==
  ASSUME IndInv, Create \/ Update \/ Destroy
  PROVE  StatesStep
<1>0. /\ store \in [Ids -> Objects] /\ copy \in CRs
      /\ copy.bind \in Binds /\ copy.want \in Configs \cup {NoConfig}
  BY CRFields DEF IndInv, TypeOK, RuntimeTypeOK
<1>1. CASE Create
  <2>1. CASE \E i \in Ids : store[i].state = "unused" /\ Put(i, Made(copy.want, "operator"))
    <3>1. PICK i \in Ids : store[i].state = "unused" /\ Put(i, Made(copy.want, "operator"))
      BY <2>1
    <3>2. Made(copy.want, "operator") \in Objects /\ Made(copy.want, "operator").state = "live"
      BY <1>0, MadeFacts
    <3>3. States' = [States EXCEPT ![i] = "live"]
      BY <1>0, <3>1, <3>2, PutState
    <3> QED BY <3>1, <3>3 DEF StatesStep
  <2>2. CASE \E i \in Named : Put(i, Configured(store[i], copy.want))
    <3>1. PICK i \in Ids : Put(i, Configured(store[i], copy.want))
      BY <2>2 DEF Named
    <3>2. /\ Configured(store[i], copy.want) \in Objects
          /\ Configured(store[i], copy.want).state = store[i].state
      BY <1>0, ConfiguredFacts
    <3>3. States' = States
      BY <1>0, <3>1, <3>2, PutSame
    <3> QED BY <3>3 DEF StatesStep
  <2>3. CASE store' = store
    BY <2>3 DEF StatesStep, States
  <2> QED BY <1>1, <2>1, <2>2, <2>3 DEF Create, Unavailable
<1>2. CASE Update
  <2>0. copy.bind \in Ids
    BY <1>0, <1>2 DEF Update, IndInv, ControlInv, BoundSteps, Binds
  <2>1. CASE Put(copy.bind, Updated(store[copy.bind]))
    <3>1. /\ Updated(store[copy.bind]) \in Objects
          /\ Updated(store[copy.bind]).state = store[copy.bind].state
      BY <1>0, <2>0, UpdatedFacts
    <3>2. States' = States
      BY <1>0, <2>0, <2>1, <3>1, PutSame
    <3> QED BY <3>2 DEF StatesStep
  <2>2. CASE store' = store
    BY <2>2 DEF StatesStep, States
  <2> QED BY <1>2, <2>1, <2>2 DEF Update, Unavailable
<1>3. CASE Destroy
  <2>0. copy.bind \in Ids
    BY <1>0, <1>3 DEF Destroy, IndInv, ControlInv, BoundSteps, Binds
  <2>1. CASE Live(copy.bind) /\ Put(copy.bind, Destroyed(store[copy.bind]))
    <3>1. /\ Destroyed(store[copy.bind]) \in Objects
          /\ Destroyed(store[copy.bind]).state = "deleted"
      BY <1>0, <2>0, DestroyedFacts
    <3>2. States' = [States EXCEPT ![copy.bind] = "deleted"]
      BY <1>0, <2>0, <2>1, <3>1, PutState
    <3> QED BY <2>0, <2>1, <3>2 DEF StatesStep, Live
  <2>2. CASE store' = store
    BY <2>2 DEF StatesStep, States
  <2> QED BY <1>3, <2>1, <2>2 DEF Destroy, Unavailable
<1> QED BY <1>1, <1>2, <1>3

(* What other administrators do. *)
LEMMA ForeignStates ==
  ASSUME IndInv, ForeignCreate \/ ForeignChange
  PROVE  StatesStep
<1>0. store \in [Ids -> Objects]
  BY DEF IndInv, TypeOK
<1>1. CASE ForeignCreate
  <2>1. PICK i \in Ids, w \in Configs : store[i].state = "unused" /\ Put(i, Made(w, "foreign"))
    BY <1>1 DEF ForeignCreate
  <2>2. Made(w, "foreign") \in Objects /\ Made(w, "foreign").state = "live"
    BY MadeFacts
  <2>3. States' = [States EXCEPT ![i] = "live"]
    BY <1>0, <2>1, <2>2, PutState
  <2> QED BY <2>1, <2>3 DEF StatesStep
<1>2. CASE ForeignChange
  <2>1. PICK i \in Ids :
          /\ Live(i)
          /\ \/ Put(i, Destroyed(store[i]))
             \/ \E w \in Configs : Put(i, Configured(store[i], w))
             \/ \E n \in {"own", "other"} : Put(i, Renamed(store[i], n))
    BY <1>2 DEF ForeignChange
  <2>2. store[i] \in Objects
    BY <1>0
  <2>3. CASE Put(i, Destroyed(store[i]))
    <3>1. States' = [States EXCEPT ![i] = "deleted"]
      BY <1>0, <2>2, <2>3, DestroyedFacts, PutState
    <3> QED BY <2>1, <3>1 DEF StatesStep, Live
  <2>4. CASE \E w \in Configs : Put(i, Configured(store[i], w))
    <3>1. PICK w \in Configs : Put(i, Configured(store[i], w))
      BY <2>4
    <3>2. States' = States
      BY <1>0, <2>2, <3>1, ConfiguredFacts, PutSame
    <3> QED BY <3>2 DEF StatesStep
  <2>5. CASE \E n \in {"own", "other"} : Put(i, Renamed(store[i], n))
    <3>1. PICK n \in {"own", "other"} : Put(i, Renamed(store[i], n))
      BY <2>5
    <3>2. States' = States
      BY <1>0, <2>2, <3>1, RenamedFacts, PutSame
    <3> QED BY <3>2 DEF StatesStep
  <2> QED BY <2>1, <2>3, <2>4, <2>5
<1> QED BY <1>1, <1>2

----------------------------------------------------------------------------
(* Steps that leave the stored resource alone *)

PromiseStep == [Promise!Next]_(Promise!vars)

(* They are steps of OpenBao, or nothing. *)
LEMMA ObjectStep ==
  ASSUME server' = server, StatesStep
  PROVE  PromiseStep
<1>1. CASE States' = States
  BY <1>1 DEF PromiseStep, Promise!vars, States
<1>2. CASE \E i \in Ids : store[i].state = "unused" /\ States' = [States EXCEPT ![i] = "live"]
  <2>1. PICK i \in Ids : store[i].state = "unused" /\ States' = [States EXCEPT ![i] = "live"]
    BY <1>2
  <2>2. Promise!Make(i)
    BY <2>1 DEF Promise!Make, Promise!resource, States
  <2> QED BY <2>2 DEF PromiseStep, Promise!Next
<1>3. CASE \E i \in Ids : store[i].state = "live" /\ States' = [States EXCEPT ![i] = "deleted"]
  <2>1. PICK i \in Ids : store[i].state = "live" /\ States' = [States EXCEPT ![i] = "deleted"]
    BY <1>3
  <2>2. Promise!Destroy(i)
    BY <2>1 DEF Promise!Destroy, Promise!resource, States
  <2> QED BY <2>2 DEF PromiseStep, Promise!Next
<1> QED BY <1>1, <1>2, <1>3 DEF StatesStep

----------------------------------------------------------------------------
(* Steps that write the stored resource *)

(* The absent resource is absent in the promise. *)
LEMMA AbsentResource ==
  ASSUME server' = NoCR
  PROVE  Promise!Absent'
  BY NoCRFields DEF Promise!Absent, IsDelete

(* A write that is accepted during a Reconcile meets the resource that the *)
(* worker has a copy of.                                                   *)
LEMMA FreshCopy ==
  ASSUME IndInv, fresh, pc # "idle"
  PROVE  /\ server.exists /\ server.deleting = copy.deleting /\ server.fin = copy.fin
         /\ server.del = copy.del /\ before = server.bind
  BY DEF IndInv, VersionsInv, ControlInv, WorkerInv, SameButBinding

(* ensureFinalizer *)
LEMMA GuardStep ==
  ASSUME IndInv, EnsureFinalizer, UNCHANGED RestOfBao
  PROVE  PromiseStep
<1>0. server \in CRs
  BY DEF IndInv, TypeOK, RuntimeTypeOK
<1>1. CASE server' = server
  BY <1>1, ObjectStep DEF StatesStep, States
<1>2. CASE fresh /\ server' = WithFinalizer(server, TRUE)
  <2>1. server.exists /\ ~server.deleting
    BY <1>2, FreshCopy DEF EnsureFinalizer, IndInv, ControlInv, WorkerInv
  <2>2. /\ server'.fin = TRUE /\ server'.bind = server.bind /\ server'.exists = server.exists
        /\ server'.del = server.del /\ server'.deleting = server.deleting
    BY <1>0, <1>2, FinalizerUpdate
  <2>3. Promise!Guard
    BY <2>1, <2>2 DEF Promise!Guard
  <2> QED BY <2>3 DEF PromiseStep, Promise!Next
<1> QED BY <1>1, <1>2 DEF EnsureFinalizer, Accepted, Rejected

(* The status written by a Reconcile that was to apply the resource: the   *)
(* ID is the one the worker has learned.                                   *)
LEMMA RecordStep ==
  ASSUME IndInv, fresh, pc \in {"report", "ready"}, NEW cond \in Conditions,
         server' = WithStatus(server, copy.bind, cond), UNCHANGED RestOfBao
  PROVE  PromiseStep
<1>0. server \in CRs /\ copy \in CRs /\ copy.bind \in Binds
  BY CRFields DEF IndInv, TypeOK, RuntimeTypeOK
<1>1. server.exists /\ ~server.deleting /\ before = server.bind
  BY FreshCopy DEF IndInv, ControlInv, WorkerInv, WorkSteps
<1>2. /\ server'.fin = server.fin /\ server'.bind = copy.bind /\ server'.exists = server.exists
      /\ server'.del = server.del /\ server'.deleting = server.deleting
  BY <1>0, StatusUpdate
<1>3. CASE copy.bind = server.bind
  BY <1>2, <1>3 DEF PromiseStep, Promise!vars
<1>4. CASE copy.bind # server.bind
  <2>1. server.bind # NoId => store[server.bind].state = "deleted"
    BY <1>1, <1>4 DEF IndInv, GoneInv
  <2>2. copy.bind # NoId => store[copy.bind].state # "unused"
    BY DEF IndInv, BindingsInv, Known
  <2>3. server.bind \in Binds
    BY <1>0, CRFields
  <2>4. Promise!Record(copy.bind)
    BY <1>0, <1>1, <1>2, <2>1, <2>2, <2>3 DEF Promise!Record, Promise!Gone, Binds
  <2> QED BY <1>0, <2>4 DEF PromiseStep, Promise!Next, Binds
<1> QED BY <1>3, <1>4

(* fail, dependencyFailure and the end of a successful Reconcile *)
LEMMA RecordStatusStep ==
  ASSUME IndInv, ReportFailure \/ RecordReady, UNCHANGED RestOfBao
  PROVE  PromiseStep
<1>0. copy \in CRs /\ tag \in Tags /\ "Reconciled" \in Tags
  BY DEF IndInv, TypeOK, RuntimeTypeOK, Tags
<1>1. Condition(tag, copy) \in Conditions /\ Condition("Reconciled", copy) \in Conditions
  BY <1>0, ConditionTyped
<1>2. CASE server' = server
  BY <1>2, ObjectStep DEF StatesStep, States
<1>3. CASE fresh /\ server' = WithStatus(server, copy.bind, Condition(tag, copy)) /\ pc = "report"
  BY <1>1, <1>3, RecordStep
<1>4. CASE fresh /\ server' = WithStatus(server, copy.bind, Condition("Reconciled", copy)) /\ pc = "ready"
  BY <1>1, <1>4, RecordStep
<1> QED BY <1>2, <1>3, <1>4 DEF ReportFailure, RecordReady, Accepted, Rejected

(* recordCleanupFailure shows in the condition only. *)
LEMMA CleanupFailureStep ==
  ASSUME IndInv, RecordCleanupFailure, UNCHANGED RestOfBao
  PROVE  PromiseStep
<1>0. server \in CRs /\ copy \in CRs /\ tag \in Tags /\ server.bind \in Binds
  BY CRFields DEF IndInv, TypeOK, RuntimeTypeOK
<1>1. Condition(tag, copy) \in Conditions
  BY <1>0, ConditionTyped
<1>2. CASE server' = server
  BY <1>2, ObjectStep DEF StatesStep, States
<1>3. CASE server' = WithStatus(server, server.bind, Condition(tag, copy))
  <2>1. /\ server'.fin = server.fin /\ server'.bind = server.bind /\ server'.exists = server.exists
        /\ server'.del = server.del /\ server'.deleting = server.deleting
    BY <1>0, <1>1, <1>3, StatusUpdate
  <2> QED BY <2>1 DEF PromiseStep, Promise!vars
<1> QED BY <1>2, <1>3 DEF RecordCleanupFailure, Accepted, Rejected

(* removeFinalizer *)
LEMMA ReleaseStep ==
  ASSUME IndInv, RemoveFinalizer, UNCHANGED RestOfBao
  PROVE  PromiseStep
<1>0. server \in CRs /\ server.bind \in Binds
  BY CRFields DEF IndInv, TypeOK, RuntimeTypeOK
<1>1. CASE server' = server
  BY <1>1, ObjectStep DEF StatesStep, States
<1>2. CASE fresh /\ copy.fin /\ (server' = WithFinalizer(server, FALSE) \/ server' = NoCR)
  <2>0. pc = "unfinalize"
    BY DEF RemoveFinalizer
  <2>1. /\ server.exists /\ server.deleting /\ server.fin
        /\ copy.bind = server.bind /\ copy.del = server.del
    BY <1>2, <2>0, FreshCopy DEF IndInv, ControlInv, WorkerInv, DeleteSteps
  <2>2. IsDelete(server.del) /\ server.bind # NoId => store[server.bind].state = "deleted"
    BY <2>0, <2>1 DEF IndInv, GoneInv
  <2>3. IsDelete(server.del) => Promise!Gone(server.bind)
    BY <1>0, <2>2 DEF Promise!Gone, Binds
  <2>4. CASE server' = NoCR
    <3>1. Promise!Release
      BY <2>1, <2>3, <2>4, AbsentResource DEF Promise!Release
    <3> QED BY <3>1 DEF PromiseStep, Promise!Next
  <2>5. CASE server' = WithFinalizer(server, FALSE)
    <3>1. /\ server'.fin = FALSE /\ server'.bind = server.bind /\ server'.exists = server.exists
          /\ server'.del = server.del /\ server'.deleting = server.deleting
      BY <1>0, <2>5, FinalizerUpdate
    <3>2. Promise!Release
      BY <2>1, <2>3, <3>1 DEF Promise!Release
    <3> QED BY <3>2 DEF PromiseStep, Promise!Next
  <2> QED BY <1>2, <2>4, <2>5
<1> QED BY <1>1, <1>2 DEF RemoveFinalizer, Accepted, Rejected

(* What users and other parties do to the resource. *)
LEMMA UserStep ==
  ASSUME IndInv, UserCreate \/ UserEdit \/ UserDelete \/ ReleaseOther, UNCHANGED RestOfBao
  PROVE  PromiseStep
<1>0. server \in CRs
  BY DEF IndInv, TypeOK, RuntimeTypeOK
<1>1. CASE UserCreate
  <2>1. PICK p \in CreationPolicies, d \in DeletionPolicies, w \in Configs :
          ~server.exists /\ server' = NewResource(p, d, w)
    BY <1>1 DEF UserCreate, ServerWrite
  <2>2. /\ server'.exists = TRUE /\ server'.fin = FALSE /\ server'.bind = NoId
        /\ server'.deleting = FALSE
    BY <2>1, NewResourceFields
  <2>3. Promise!Declare
    BY <2>1, <2>2 DEF Promise!Declare, IsDelete
  <2> QED BY <2>3 DEF PromiseStep, Promise!Next
<1>2. CASE UserEdit
  <2>1. PICK p \in CreationPolicies, d \in DeletionPolicies, w \in Configs :
          server.exists /\ server' = WithSpec(server, p, d, w)
    BY <1>2 DEF UserEdit, ServerWrite
  <2>2. /\ server'.fin = server.fin /\ server'.bind = server.bind /\ server'.exists = server.exists
        /\ server'.deleting = server.deleting
    <3>1. /\ WithSpec(server, p, d, w).fin = server.fin
          /\ WithSpec(server, p, d, w).bind = server.bind
          /\ WithSpec(server, p, d, w).exists = server.exists
          /\ WithSpec(server, p, d, w).deleting = server.deleting
      BY <1>0, SpecUpdate, Zenon
    <3> QED BY <2>1, <3>1
  <2>3. Promise!Amend
    BY <2>1, <2>2 DEF Promise!Amend, IsDelete
  <2> QED BY <2>3 DEF PromiseStep, Promise!Next
<1>3. CASE UserDelete
  <2>1. server.exists /\ ~server.deleting
    BY <1>3 DEF UserDelete
  <2>2. CASE ~server.fin /\ server' = NoCR
    <3>1. Promise!Terminate
      BY <2>1, <2>2, AbsentResource DEF Promise!Terminate
    <3> QED BY <3>1 DEF PromiseStep, Promise!Next
  <2>3. CASE \E o \in BOOLEAN : server' = Terminating(server, o)
    <3>0. PICK o \in BOOLEAN : server' = Terminating(server, o)
      BY <2>3
    <3>1. /\ server'.fin = server.fin /\ server'.bind = server.bind /\ server'.exists = server.exists
          /\ server'.del = server.del /\ server'.deleting = TRUE
      BY <1>0, <3>0, TerminatingUpdate
    <3>2. Promise!Terminate
      BY <2>1, <3>1 DEF Promise!Terminate
    <3> QED BY <3>2 DEF PromiseStep, Promise!Next
  <2> QED BY <1>3, <2>2, <2>3 DEF UserDelete, ServerWrite
<1>4. CASE ReleaseOther
  <2>1. server.exists /\ server.deleting
    BY <1>4 DEF ReleaseOther
  <2>2. CASE ~server.fin /\ server' = NoCR
    <3>1. Promise!Vanish
      BY <2>1, <2>2, AbsentResource DEF Promise!Vanish
    <3> QED BY <3>1 DEF PromiseStep, Promise!Next
  <2>3. CASE server' = Terminating(server, FALSE)
    <3>1. /\ server'.fin = server.fin /\ server'.bind = server.bind /\ server'.exists = server.exists
          /\ server'.del = server.del /\ server'.deleting = TRUE
      BY <1>0, <2>3, TerminatingUpdate
    <3>2. server.deleting = TRUE
      BY <1>0, <2>1, CRFields
    <3> QED BY <3>1, <3>2 DEF PromiseStep, Promise!vars
  <2> QED BY <1>4, <2>2, <2>3 DEF ReleaseOther, ServerWrite
<1> QED BY <1>1, <1>2, <1>3, <1>4

----------------------------------------------------------------------------
(* The refinement *)

(* The initial states map to the initial state of the promise. *)
LEMMA PromiseInit ==
  ASSUME Init
  PROVE  Promise!Init
  BY NoCRFields
  DEF Init, RuntimeInit, Unused, Promise!Init, Promise!Absent, IsDelete

(* Every step maps to a step of the promise or to none. *)
LEMMA PromiseNext ==
  ASSUME IndInv, [Next]_vars
  PROVE  PromiseStep
<1>1. CASE Create \/ Update \/ Destroy
  <2>1. server' = server
    BY <1>1 DEF Create, Update, Destroy, Unavailable
  <2> QED BY <1>1, <2>1, CallStates, ObjectStep
<1>2. CASE ForeignCreate \/ ForeignChange
  <2>1. server' = server
    BY <1>2 DEF ForeignCreate, ForeignChange
  <2> QED BY <1>2, <2>1, ForeignStates, ObjectStep
<1>3. CASE Resolve \/ GetById \/ Lookup \/ ReadBack \/ Reread \/ DecideDeletion
  <2>1. server' = server /\ store' = store
    BY <1>3 DEF Resolve, GetById, Lookup, ReadBack, Reread, DecideDeletion, Unavailable
  <2> QED BY <2>1, ObjectStep DEF StatesStep, States
<1>4. CASE (Dequeue \/ Sync \/ ChangeDeps \/ Crash) /\ UNCHANGED RestOfBao
  <2>1. server' = server /\ store' = store
    BY <1>4 DEF Dequeue, Sync, ChangeDeps, Crash
  <2> QED BY <2>1, ObjectStep DEF StatesStep, States
<1>5. CASE UNCHANGED vars
  <2>1. server' = server /\ store' = store
    BY <1>5 DEF vars, rtVars
  <2> QED BY <2>1, ObjectStep DEF StatesStep, States
<1>6. CASE EnsureFinalizer /\ UNCHANGED RestOfBao
  BY <1>6, GuardStep
<1>7. CASE (ReportFailure \/ RecordReady) /\ UNCHANGED RestOfBao
  BY <1>7, RecordStatusStep
<1>8. CASE RecordCleanupFailure /\ UNCHANGED RestOfBao
  BY <1>8, CleanupFailureStep
<1>9. CASE RemoveFinalizer /\ UNCHANGED RestOfBao
  BY <1>9, ReleaseStep
<1>10. CASE (UserCreate \/ UserEdit \/ UserDelete \/ ReleaseOther) /\ UNCHANGED RestOfBao
  BY <1>10, UserStep
<1> QED BY <1>1, <1>2, <1>3, <1>4, <1>5, <1>6, <1>7, <1>8, <1>9, <1>10
        DEF Next, Worker, Environment

(* The reconcilers of entities, aliases, groups and personas keep the      *)
(* promise of OwnedObject.                                                 *)
THEOREM KeepsPromise == Spec => ImplementsPromise
<1>1. Init => Promise!Init
  BY PromiseInit
<1>2. IndInv /\ [Next]_vars => [Promise!Next]_(Promise!vars)
  BY PromiseNext DEF PromiseStep
<1> QED BY <1>1, <1>2, Invariance, PTL DEF Spec, ImplementsPromise, Promise!Spec
=============================================================================
