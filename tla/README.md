# Verification of the OpenBao entity operator

TLA+ models of the operator's reconcilers, TLC runs on small instances, and
TLAPS proofs for every instance.  Paths are relative to the repository
(`src/` prefix in `PROJECT.json`); `C/` stands for
`internal/controller/openbao/`.

## The system and its parts

The operator watches custom resources and makes OpenBao agree with them.  One
reconciler per kind runs in a single worker (leader election, one concurrent
reconcile per kind).  Its state is spread over four places that change
independently: the resource in the API server, the informer's lagging copy,
the worker's memory during one `Reconcile`, and OpenBao, in which other
administrators work as well.

| Component | State | Operations | Correct when | Modules |
| --- | --- | --- | --- | --- |
| Runtime helpers (`C/common.go`) | finalizer, conditions, `status` | `ensureFinalizer`, `removeFinalizer`, `updateStatusIfChanged`, `mark*` | finalizer precedes mutation; status never claims more than was done | `ControllerRuntime` |
| Policies (`api/.../common.go`) | `creationPolicy`, `deletionPolicy` | `AllowsCreation`, `AllowsAdoption`, `IsDelete` | nothing foreign is touched without adoption | `ControllerRuntime` |
| ID-bound kinds: entity, entity alias, group, group alias, persona | `status.id` | `Reconcile`, `acquire`, `reconcileDeletion`, `fail` | the ID stays bound to one object, cleanup precedes release, drift is repaired | `IdLifecycle`, `OwnedObject` |
| Name-bound kinds: policies, roles, OIDC, system, additional configuration, MFA | `status.name`, `status.path`, ... as acquisition marker | `Reconcile`, `acquire`, `reconcileDeletion`, `reconcileOIDCNamed`, `reconcileSystemNamed` | as above, with the name in place of the ID | `NameLifecycle` |
| Group memberships | claims, managed member IDs | `resolveMemberships`, `desiredGroupRequest`, `updateMembershipStatuses` | only claimed edges are added or removed | `GroupMembership` |
| Desired state and drift | Secret hash, Ready | `desired*`, `normalized*`, `*Matches` | Ready is honest, drift is real and repaired, writes end | `FieldSchema`, `DesiredState` |
| Connection and client cache | Ready condition; one client per connection | `Reconcile`, `ClientFor` | Ready was verified; no client for other settings; token leases are kept | `ConnectionClients` |
| HTTP client | token, lease, lock | `ensureToken`, `invalidateToken`, `doSegmentsQuery` | one retry with another token, renewal in time, no lock left behind | `TokenClient` |
| Watches | informers and queues of every kind | `SetupWithManager`, `map*` | readiness reaches every dependant | `Wakeups` |
| Namespace scope | none | `ParseWatchNamespaces` | pure function | not modelled |

Reconcilers call the client (HTTP), read each other's resources through the
cache (an alias reads its entity, a group its memberships) and are woken by
watches on them.  What is hard: a stale cache copy, an optimistic-concurrency
conflict after external calls were already made, answers lost after a call
took effect, restarts between two calls, the loss of connection or
credentials, several workers on one client, and foreign writes between a read
and a write.  `PROJECT.json` lists these hazards at their lines.

## Modules

| Module | Models |
| --- | --- |
| `ControllerRuntime` | one custom resource, its informer copy, the workqueue key, the worker's common steps, the user, restarts, dependencies |
| `IdLifecycle` | extends it: the five ID-bound reconcilers against an OpenBao store |
| `OwnedObject` | what the user of an ID-bound resource is promised; `IdLifecycle` implements it |
| `NameLifecycle` | extends `ControllerRuntime`: the name-bound reconcilers, grouped by control flow, against an OpenBao store |
| `GroupMembership` | memberships of one group and the group reconciler's merge |
| `TokenClient` | the token of one client that several callers share |
| `ConnectionClients` | one connection, its reconciler, and the client cache that other workers use with it |
| `FieldSchema` | per kind, how every field is checked, normalised, sent and compared |
| `DesiredState` | extends it: the loop of compare, write, read back and report for one field |
| `Wakeups` | informers, handlers, queues and workers of a net of resources |
| `MC*` | the above for TLC: symmetry and parameter values |
| `ControllerRuntimeProofs` | lemmas on the steps that all reconcilers share, for the two lifecycle proofs |
| `IdLifecycleProofs` | TLAPS proofs about `IdLifecycle`: safety, and that it implements `OwnedObject` |
| `NameLifecycleProofs`, `GroupMembershipProofs`, `TokenClientProofs`, `ConnectionClientsProofs`, `DesiredStateProofs`, `WakeupsProofs` | TLAPS proofs about the module of that name |

### ControllerRuntime

`server` is the stored resource, `cache` the informer's copy and `synced`
whether they agree; `copy` is the worker's object and `fresh` whether it still
has the server's resourceVersion.  `Accepted` is an API server write that
passes the resourceVersion check, `Rejected` a conflict or an error, which ends
the `Reconcile` with an error and a requeue.  `pc` names the next step, one
step per call to OpenBao or to the API server.  `before` is the binding in the
status snapshot that `Reconcile` takes first; `fail` takes its own snapshot
later, which is why `ReportFailure` looks at the condition only.  The
environment spends `budget` on edits, lost dependencies, restarts, API errors,
lost answers and foreign writes.  Creating and deleting the resource, the return
of a dependency, the informer's delays and conflicts are free.

### IdLifecycle and OwnedObject

`store` maps every ID to an object that is unused, live or deleted, with a name
("own" is the resource's), a configuration and a maker.  IDs are not reused.
The kinds differ in seven traits, read off their controllers.  Steps in the
order of the code: `Dequeue`, `EnsureFinalizer`, `Resolve`, then `acquire`
(`GetById`, `Lookup`, `Create`, `ReadBack`), `Observe` inside them, `Update`,
`Reread`, `RecordReady`; failures go through `ReportFailure`; deletion is
`DecideDeletion`, `Destroy`, `RecordCleanupFailure`, `RemoveFinalizer`.
`foreignHit`, `raced`, `asked` and `applied` are history variables.  A name
that was taken since the lookup makes the create either fail or update its
holder; nothing in the operator excludes either answer, so both happen.

`OwnedObject` states the ownership contract without caches, versions, workers
and faults: the finalizer comes before deletion begins and goes only when a
Delete-policy resource's recorded object is gone, and the recorded ID belongs
to an object that exists or existed and is given up only when that one is gone.
The mapping reads the stored resource and the state of each object, nothing of
the worker; every step of `IdLifecycle` is a step of the contract or a stutter.

### NameLifecycle

`store` maps every name to at most one object; a write replaces it.  Eight
groups of kinds differ in eight traits:

| Group | Kinds | What is special |
| --- | --- | --- |
| `Policy` | policy, password policy, token role, AppRole, Kubernetes auth role | after a create the object is read and compared again |
| `OIDC` | `reconcileOIDCNamed` (provider, client, key, role, scope, assignment) | as `Policy`, through the shared plan |
| `Mount` | auth method, secret engine | `spec.path` may be edited; enable, then tune; the comparison sees a part of the configuration only |
| `System` | namespace, audit device, workflow, plugin, headers, logger, MFA login enforcement | the name in `spec` may be edited |
| `Quota` | rate-limit quota, CORS | `spec.connectionRef` may be edited, which leads to the object of another OpenBao |
| `Config` | global rate-limit configuration | as `Quota`; OpenBao has no delete call |
| `Rotation` | encryption key and keyring rotation | as `Config`; never recorded as acquired; an invalid spec is returned before anything else; no delete call |
| `MFAMethod` | MFA method | the spec and its Secret are translated before the object is read; only an acquired object is deleted |

The binding in status is the acquisition marker (`status.name`, `status.path`,
`status.header`, `status.methodID` or `status.configHash`).  A configuration is
a member of `Configs`; `PathOf` is the object it points at (a name or path at
the OpenBao that `connectionRef` leads to), `FixedOf` what a tune
cannot change, `SeenOf` what a mount's comparison looks at (`mountDesired`),
`BareOf` what enabling without tuning gives (everything but the TTLs,
visibility, token type and headers of `mountTune`).  `Invalid` are the specs
that have no translation.  Two details of mounts are left out: the refusal of a
blank type, and that an empty tune is not sent.  Steps: `Resolve`, `Lookup`, `Create`, `ReadBack`,
`Compare` inside them, `Update` (for mounts, the tune), `Reread`,
`DecideDeletion`, `Destroy`.  `vacant`, `overwritten`, `erased`, `owned`, `gone`
and `applied` are history variables.

### GroupMembership

`claim` are the membership resources, `status` the group's status with the IDs
that it lists as managed, each with its informer's copy; `members` are the
members in OpenBao.  The worker's steps are those of `Reconcile`: `Begin`,
`Acquire` (its read of the arrays), `ListMemberships`, `Resolve`, `Refuse` (the
status of the first claim that cannot be resolved), `Update`, `Reread`,
`Record`, `RecordClaim` for each claim, `Report` for a failure.  Around them
users create and delete memberships, targets become ready, unready or get
another ID, other administrators add and remove members, and the operator
restarts.  How the group object itself is acquired and deleted is
`IdLifecycle`'s subject.

### TokenClient

`token`, `lease` and `tokenMu` are the fields of `Client`; each caller goes
through `Request`, `Ensure`, perhaps `Renew`, `Credentials` and `Login`, then
`Fetch`, `Send` and after a refusal once through `Invalidate` and again.  A
lease is what is left of it; `Tick` takes one unit from all leases, at the
client and at the server (`served`), so that an answer that takes time leaves
the client with a lease that is longer than the server's.  A renewal may also
take effect and its answer be lost: the server then counts the new, possibly
shorter lease and the client still the old one.  `refused`, `skew`, `delay`,
`emptied` and `altered` (tokens that were revoked, or renewed behind the
client's back) are history variables.

### ConnectionClients

`conn` is the connection with its generation and condition, `entry` what the
cache holds for it.  A worker reads the connection (`Read`), the CA bundle
(`ReadBundle`) and asks for a client (`ClientFor`, one step because the lock is
held throughout).  The connection's own worker then goes on to `CheckHealth`,
`LookupSelf` and `Record`; other workers use the client.  Edits of the
connection and its Secrets, outages, failing calls and restarts happen at any
time.

### FieldSchema and DesiredState

`FieldSchema` has two tables per kind: `...Spec` lists the fields of the
resource by Go type, `...Fields` says how the reconciler checks, normalises,
sends and compares each.  `DesiredState` follows one field of any shape in the
schema, against any `habit` of OpenBao: whether an omitted field keeps its
value, whether lists come back sorted, whether an empty collection comes back as
null.  `Read`, `Write`, `Reread` and `Record` are the reconcilers' loop, of which
the OIDC configuration is the plainest example (it has no acquisition and no
deletion), with the Secret hash of the MFA method.  An element of a list is a
number: 0 is the blank string and a negative number the same string with blanks
around it.  `SpecLists` are the lists that a spec may hold (for a field with
`listType=set` only those without repeats), `BaoLists` what somebody else may
put into the object.

### Wakeups

A net names resources, their kinds and references.  `Change` is a user's,
`Sync` brings one event into the informer of a kind, `Handle` runs a map
function on the caches of that moment, `Start`, `Look` and `Finish` are a
Reconcile that looks at the caches and reports later.

`Outcome` is what a Reconcile finds.  It waits while a resource that the spec
names is not Ready.  Then it builds a client, for which it reads the token or CA
Secret of the connection by itself (`Usable`), whatever the connection's Ready
condition says, and stalls when the Secret is missing.  `net.lazy` are the
Secrets that only a login reads (AppRole): a connection that has a token
(`tokens`) does without them until `Expire`.  The controllers of these resources
watch connections, not Secrets; what brings a stalled one back is `Timer`, the
`RequeueAfter` or back-off of its last result (`armed`, `Retries`).
`DriftCheck` is the requeue of a Reconcile that succeeded, which may be off.
A controller may be at several of its resources at once, never at one of them
twice; its single default worker takes them in one of these orders.

## Runs

| Run | Shows | Bounds |
| --- | --- | --- |
| `id_safety` | ownership, finalizer order, cleanup before release, stable binding, honest Ready, the inductive invariant, and the refinement of `OwnedObject` | entity and entity alias, 2 IDs, 2 configurations, 2 generations, 1 create, 2 environment events, symmetry on IDs and configurations |
| `id_liveness` | cleanup completes, reconciliation converges, drift is repaired | group, group alias and persona, 2 IDs, 2 configurations, 1 environment event, no symmetry |
| `name_kinds` | ownership, finalizer order, proven cleanup, honest Ready, a marker that is never forgotten, the inductive invariant; cleanup completes, reconciliation converges, drift is repaired | policy, mount, system, rotation and MFA method, 2 names, 3 configurations (one invalid, one at the other name), 2 generations, 1 create, 1 environment event |
| `group` | foreign members survive, a stalled claim costs no member, Ready memberships are members, claims converge, released members go, the inductive invariant | 2 claims, one target (with a second ID) or the group itself, 1 creation, 1 environment event |
| `token` | the lock, the retry, the margin of renewal, the reasons for a denial, the inductive invariant | 2 callers, 4 tokens, leases of 0 (never ends), 1 and 7 units where a minute is two, 1 fault, static token and AppRole, symmetry on callers and tokens |
| `connection` | right client (the inductive invariant `CacheInv`), verified Ready, a client that is kept, convergence | the reconciler and one other worker, 4 settings, 2 bundles, 2 edits, 1 fault |
| `drift` | honest Ready (the inductive invariant `StatusInv`), real drift, repaired drift, writes that settle | all fields of 31 kinds, six lists of up to 2 elements in specs (empty, blank, untrimmed, repeated, unsorted) and three at OpenBao, 1 edit, 1 foreign write, 1 fault |
| `wakeups` | readiness and its loss reach every dependant; no wake-up is lost and what is not Ready is retried (the inductive invariant) | a leaf behind a connection and its token or AppRole Secret, an MFA method with its Secret, both aliases, memberships of an entity and of a group; 2 changes (creations, deletions, expired tokens, drift checks) |
| `id_release` | violation: the finalizer goes while an object the operator made lives | 1 kind, no environment event needed |
| `name_delete` | violation: a resource that never acquired its name deletes the foreign object | policies, 1 event |
| `name_tune` | violation: Ready for a mount whose lease TTL was never tuned | mounts, 1 event |
| `name_move` | violation: after an edit of `connectionRef` a foreign object at the other OpenBao is overwritten without adoption | quotas, 2 events |

Two IDs let the operator make an object, lose it and make or meet a second one
of the same name.  Two environment events are enough for every pair of faults
(a lost answer and a restart, a foreign delete and a foreign create, a lost
dependency and an edit); the proofs cover every number of IDs and events and
all kinds, name-bound ones included.  Two names are what an edited path needs.  One resource
suffices because reconcilers of different resources share only OpenBao, where
another resource of the operator is no different from another administrator,
and the client and its cache, which have modules of their own.

OIDC objects have the traits of policies, quotas those of system objects, and
the global configuration differs from these in having no delete call, like
rotation: `name_kinds` leaves these three groups to the proofs, which cover all
eight.  Some traits are left out of a property on purpose.  `NoForeignOverwrite`
excepts a movable kind that has acquired some object, since its marker then
vouches for whatever an edited path or `connectionRef` leads to (`name_move`
shows it); for a movable kind that has acquired nothing it says what it says for
the others.  `ReadyMeansApplied` speaks of kinds that are not tuned; `name_tune`
shows what mounts do.  `OwnObjectIsNeverRefused` speaks of kinds that record a
marker.  `CleanupCompletes` excepts the kinds without a delete call and a
rotation spec that stays invalid.

A group needs two claims so that one can stall, or go, while the other stays;
a second ID lets a target be replaced under a resolved claim.  Two callers are
enough for one to invalidate, renew or log in while the other is anywhere in a
request, and a third would only repeat what the second does to the shared
token; four tokens keep one free while both callers hold an old one and a login
is under way.  Durations 1 and 7 fall on either side of where the margin
changes from a third of the lease to a minute (six units), and 0, which a login
or a renewal may answer, is taken for a lease that never ends; the proofs cover
all others.  With two edits a connection is
changed and changed back under a worker.  A field has no memory beyond its
value, hash and Ready, so one change of each kind reaches every combination; the
proofs cover lists of every length and any number of changes.
The nets are trees; the kinds that only refer to a connection have the same
watches and are represented by one of them.  Two changes let a Secret go and
return, or go and its token expire, around every step of the others.  The proofs
cover nets of every size and shape; a cycle of groups is in neither.

Fairness.  `IdLifecycle`, `NameLifecycle`, `GroupMembership`,
`ConnectionClients`, `DesiredState`: weak fairness of each worker (its goroutine
keeps running and every call returns, the HTTP client has a timeout) and of the
informers and handlers where they are modelled.  `DesiredState` takes the drift
interval not to be zero: with it off nobody looks again.  `Wakeups`: weak
fairness of informers and handlers, and per resource of its timer, of taking its
key and of the Reconcile.  controller-runtime fires every `RequeueAfter` and
back-off, and its queue is first in, first out, so that no key waits behind
others for ever.  Drift checks are not owed there.  Nothing is assumed of users,
administrators or faults.  `CleanupCompletes` assumes
that a client can be built from some time on, `Converges` and `DriftIsRepaired`
that the dependencies are ready from some time on, `ClaimsConverge` that the
targets are; the budgets make faults finite.  `TokenClient` has no liveness
property: a login can fail for as long as the credentials are wrong.  Deadlock
is not checked where the operator may rest: with drift detection off, no
resource, or an empty queue.

## Proofs

All theorems hold for every value of the constants: sets of any size, any
bounds.  What is assumed of the constants is in the named `ASSUME`s of the
modules: bounds are naturals, the values that stand for "none" are not among
the values, `Claims` is a finite set of numbers (claims are handled in the order
of their names) and `Ids` a set of numbers (a new ID is a larger one), lease
durations are naturals, a net holds the references that the specs can hold, and
the lists that OpenBao keeps are trimmed and without repeats
(`ListsAssumption`; nothing is assumed of the lists in specs).
The order and the induction over steps are the same everywhere: types first,
then what is inductive, with one lemma per action and one step per conjunct that
the action can disturb.

### The resource and its worker

`RuntimeInv` is the part of the invariant that both lifecycles share:
`VersionsInv` (a fresh copy equals the stored resource except for the binding
that acquire changes), `FinalizerInv` (a finalizer seen on a copy that is not
terminating is still on the server: only a worker on a terminating copy removes
it) and `WorkerInv` (what the common steps may rely on).
`ControllerRuntimeProofs` shows that the user, the informer, restarts and the
steps of `C/common.go` keep it, and classifies the steps that change the stored
resource (`RuntimeServerSteps`).

Both lifecycles prove `NoneForgotten`, the safety half of `CleanupCompletes` and
`Converges`: a resource whose key is not queued, of which no event is under way
and on which no worker works is Ready for its generation with drift detection
off, or terminating without the finalizer.  So no conflict, failed call, stale
copy or restart loses a resource that is not done.  `QueueInv` is the reason,
inductive together with `IndInv`: a Reconcile that nobody will repeat works on
the current version (`fresh`), so what it returns without a requeue is right for
what is stored (`QueueReturn`); every other result requeues, or its own write
brings an event.

### ID-bound kinds

`IdLifecycleProofs`: `TypeOK`, `NoForeignMutation`, `FinalizerBeforeMutation`,
`CleanupBeforeRelease`, `BindingIsStable` and `ReadyMeansApplied`.  None is
inductive.  `IndInv` adds `BindingsInv` (every ID in any copy belongs to an
object that exists or existed, made by the operator or adopted on request),
`ControlInv` (what each step may rely on) and `GoneInv` (an ID given up or
cleaned up names no live object).  Steps that call OpenBao share a frame
(`CallFrame`) and are proved one by one; steps that write the resource reduce to
`FinishPreserves` and `ServerWritePreserves`.  The action properties follow from
the invariant and the classification of the steps (`ServerSteps`).

`IdLifecycleProofs` also proves `KeepsPromise`: `Spec => Promise!Spec`.  A step that
leaves the stored resource alone changes the state of at most one object, from
unused to live or from live to deleted (`CallStates`, `ForeignStates`), which is
`Make`, `Destroy` or a stutter (`ObjectStep`).  Each step that writes the
resource is matched with one of the contract: `GuardStep`, `RecordStep`,
`RecordStatusStep`, `CleanupFailureStep`, `ReleaseStep`, and `UserStep` for the
user.  The invariant supplies what the contract demands of them: a fresh copy is
what the server has, a recorded ID is given up or released only when `GoneInv`
says that its object is gone.

### Name-bound kinds

`NameLifecycleProofs`, for all eight groups of kinds: `NoForeignOverwrite`,
`FinalizerBeforeMutation`, `CleanupBeforeRelease`, `ReadyMeansApplied` and
`OwnObjectIsNeverRefused`.  `IndInv` needs to know of the marker that it names
an object that was once Ready (`BindingsInv`; `Vouched` is what this allows an
update to rely on: for a fixed object that this one was recorded, for a movable
kind that some object was), that Ready is stored together
with it and a refusal without it (`StatusInv`), and of each step what it has
found out in this Reconcile (`ControlInv`): a create has seen the name free, an
update may be made, the finalizer goes after the name of the copy was confirmed
to be gone.  Of paths and comparisons only this is assumed: what tuning cannot
change is part of what a mount's comparison sees, and enabling gives a mount
that this comparison accepts.

### Group memberships

`GroupMembershipProofs`: `ForeignEdgesSurvive`, `StalledClaimsKeepTheirEdges`
and `MembershipReadyMeansMember`.  `ReadInv` says that between the read of the
arrays and the write only others change the members, and that whatever the
worker holds was read in this Reconcile.  `GivenInv` (managed and wanted IDs
have been given to some target) is what makes `ClaimsInv` inductive: when a
target gets another ID under a resolved claim, that ID is new and so not among
the managed ones that an update removes.

### The client and its token

`TokenClientProofs`: `LockHolderIsBusy`, `RetryUsesAnotherToken`,
`MarginCoversDelay` and `DeniedForAReason`, for every length of the margin and
every lease.  `RetryInv` keeps the refused token out of the client, the answer
under way and the retry's own hands; `LeaseInv` says by how much the client's
idea of a lease may exceed the server's (the time its answer took), `MarginInv`
what remains of that for a caller between finding the token good and sending it.
Both except `altered` tokens: with the renewal whose answer was lost, the client
cannot know better, and the proof fails without the exception.

### The client cache

`ConnectionClientsProofs`: `CacheInv` for any number of workers, and
`ReadyIsVerified`.  `ClientMatchesRead` (a worker's client has the settings and
the bundle that this worker read, whatever is in the cache by then) needs
`ProgressInv` (what a worker has at each step, and that the verdict Ready rests
on a check of its own client); `ReadyIsVerified` needs `VersionsInv` besides (a
status write that passes the resourceVersion check was made for what is stored).

### Wake-ups

`WakeupsProofs`: `Invariance` and `NoLostWakeup`, the safety half of
`ReadinessTravels`, for nets of every size and shape.  When no event, key or
worker is under way, every status agrees with the resources that the spec names,
and if the Secrets behind a connection make it wrong all the same, somebody is
going to notice (`Noticed`): the resource itself is armed, or it is Ready and
its connection, which goes on with the token of an earlier login, is armed.

`IndInv` has two parts, as the code has two means.  `Awake` is about events: a
resource whose status does not agree (`Agrees`) with the resources that it needs
is in its queue, or an event leads to it.  It rests on `WatchesComplete` (a
controller watches every kind that its specs refer to) and
`RequestsFindDependents` (the map functions lead back to every dependant that
the informer knows).  `Retried` is about results: whatever is not Ready, and
every connection, is queued, worked at or armed (`Due`).  Neither is enough
alone.  No event reaches a leaf whose Secret went and returned while its
connection stayed Ready; and a resource that is Ready, with drift checks off,
has no timer.  `OutcomeAgrees` ties the two to what a Reconcile finds.
`JobsInv` covers the Reconcile that reads one version and leaves Ready alone
while another is stored.

### Desired state and drift

`DesiredStateProofs`, for every field of all kinds, every habit of OpenBao and
lists of any length: `StatusInv`, whose point is that Ready is honest, and
`DriftIsReal`.  The argument has four layers.

- Sorting.  `Sorted` and `SortedSet` are defined by what they return; that such
  a list exists, keeps the elements and is the only one (`OrderExists`,
  `SortedFacts`, `SortedSetFacts`, `IncreasingUnique`) is shown by taking a
  smallest counterexample (`LeastNumber`), which needs no induction scheme.
- The tables.  Every row of `FieldSchema` is `WellShaped` (`SchemaOK`, from one
  lemma per table): a list that is compared as a typed value is normalised, only
  lists are checked for blanks, only maps compared deeply.  That is where a
  field that is sorted by the spec and compared raw would show up.
- Values.  Whatever is normalised, sent, stored and read back stays `Proper`,
  and a comparison that finds no difference means that the object holds what
  the spec asks for (`EqualHolds`, `ApplyHolds`).
- Steps.  `ProgressInv` says what a Reconcile relies on while it runs; it makes
  `ReadyIsHonest` inductive, one lemma per action.

`OneWriteIsEnough` is the safety half of `WritesSettle`: when a write was
answered and the spec has not changed since it was read, the next comparison of
a field that `Settles` finds no difference, and for a Secret as soon as its hash
is recorded.  The fields that do not settle are in the findings below.

### Only model-checked

Liveness (`CleanupCompletes`, `Converges`, `DriftIsRepaired`, `ClaimsConverge`,
`ReleasedEdgesGo`, `ClientIsRetained`, `ConnectionConverges`, `WritesSettle`,
`ReadinessTravels`), because fairness is beyond the prover.  `NoneForgotten`,
`OneWriteIsEnough` and `NoLostWakeup` are the safety halves of some of them.
Every invariant and every action property that a passing run checks is proved.

## Findings

Each violation run is a disagreement between the documentation and the code;
`findings` in `PROJECT.json` quotes both sides.

Reading and modelling the code showed more behaviour that is worth knowing.
The properties are stated around it, each exception in the definition itself:

- `fail` compares status with a snapshot taken after `acquire` has learned the
  ID, so an unchanged condition keeps the ID from being stored
  (`C/openbaoentity_controller.go:211`).
- An entity that was renamed in OpenBao is renamed back by the update rather
  than refused, because the names are compared after it
  (`C/openbaoentity_controller.go:101,115`).
- After an edit of `spec.path` the marker of the old path vouches for the new
  one (`C/openbaosystem_controller.go:373`); after an edit of `connectionRef`,
  which the schemas of quotas, CORS and the rotation and quota configurations
  allow, that of one OpenBao for the object of another (`name_move`;
  `docs/introduction/concepts.md:14` calls connection references immutable).
- A Secret that is rotated, or that goes and returns, while its connection stays
  Ready makes no event of the connection, and the other controllers watch no
  connection Secrets.  A resource that stalled on it comes back with its retry
  (`C/common.go:379`), a Ready one with its drift check, whereas
  `docs/introduction/concepts.md:24` says that a connection "changing
  credentials requeues dependents".
- An invalid rotation spec is refused before deletion is looked at, so that a
  terminating resource keeps its finalizer until the spec is repaired
  (`C/openbaoadditional_controller.go:431`).
- A rotation configuration is never recorded as acquired: under
  `creationPolicy: Create` the Reconcile after a successful one reports that
  the object already exists (`C/openbaoadditional_controller.go:429`).
- A group member that was written, but whose ID did not reach
  `status`, stays when its membership is deleted before the next successful
  Reconcile (`C/openbaogroup_controller.go:161`; `leaked` in `ReleasedEdgesGo`).
- OIDC lists and numbers are compared as `[]string` and `int64` with decoded
  JSON (`[]any`, `float64`), so such an object is written at every drift check
  (`C/openbaooidc_controller.go:190`; `Settles`).
- A list that is removed from a token role's spec is omitted from the request
  and compared all the same: an OpenBao that keeps omitted values is written at
  every drift check and never cleared (`C/openbaotokenrole_controller.go:274`;
  `Enforced`, `Settles`).
- A retry can be sent without a token when another caller invalidates between
  `ensureToken` and `currentToken` (`internal/openbaoclient/client.go:402`;
  `emptied` in `DeniedForAReason`).
- `docs/crds/openbao-connection.md` calls the authentication method and the
  credential references immutable; the schema keeps only the namespace
  unchanged, so `ConnectionClients` lets the others be edited.

## Plan

An ownership contract for the name-bound kinds, in the manner of `OwnedObject`,
and the refinement proof for `NameLifecycle`.

## Not modelled

HTTP paths and JSON texts, TLS, logging, metrics, events, RBAC, leader election
and flags; generated code, CRDs and the Helm chart.  `ParseWatchNamespaces`
splits and trims a string once at start-up.  The steps of two resources that
share one object in OpenBao are not composed: each sees the other as an
administrator.  Groups that are members of each other in a cycle over several
edges.  A CA bundle that is not PEM (`ConnectionClients` lets settings, not
bundles, be refused), the IDs that a membership's status holds beside its
condition, an alias that waits because its group is internal (it waits like one
whose group is not ready), and answers without an ID.  Informer lag of Secrets and of a membership's targets is left out of
`ConnectionClients` and `GroupMembership` and covered in `Wakeups`.
