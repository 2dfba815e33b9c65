------------------------- MODULE ConnectionClients -------------------------
(***************************************************************************)
(* An OpenBaoConnection, its reconciler                                    *)
(* (internal/controller/openbao/openbaoconnection_controller.go) and the   *)
(* cache of clients that the reconcilers of all other resources share      *)
(* (ConnectionClientCache, internal/controller/openbao/common.go).         *)
(*                                                                         *)
(* A worker reads the connection, then the Secret with the CA bundle, and  *)
(* then asks for a client under the cache's lock; the connection and the   *)
(* Secret may change in between, and other workers may be at older         *)
(* versions.                                                               *)
(*                                                                         *)
(* Simplifications.                                                        *)
(*  - one connection; entries of different connections do not interact.    *)
(*  - a client is what it was built from.  A new client differs from the   *)
(*    one that it replaces in its serial.                                  *)
(*  - Secrets are read without delay.                                      *)
(*  - what a worker does with the client is the subject of TokenClient and *)
(*    of the modules of the resources.                                     *)
(***************************************************************************)
EXTENDS Naturals

CONSTANTS
    Workers,     \* workers of the reconcilers of other resources
    Reconciler,  \* the worker of the connection's reconciler
    None,        \* no connection, no client
    Settings,    \* values of the connection's spec, as records
    Bundles,     \* contents of the Secret with the CA bundle
    NoBundle,    \* the Secret has no bundle, or no Secret is referenced
    EditBudget,  \* bound on edits of the connection and of the bundle
    FaultBudget  \* bound on crashes, outages and failing calls

(* dynamic: kubernetesAuth or appRole, not tokenSecretRef.  root: the root *)
(* namespace.  bundled: caBundleSecretRef is set.  valid: the constructors *)
(* accept address, namespace and mount path.  A bundle that is not PEM is  *)
(* refused like invalid settings, and is left out: Bundles are valid.      *)
SettingsType ==
    [dynamic : BOOLEAN, root : BOOLEAN, bundled : BOOLEAN, valid : BOOLEAN]

ASSUME SettingsAssumption == Settings \subseteq SettingsType
ASSUME BundlesAssumption == Bundles # {} /\ NoBundle \notin Bundles
ASSUME WorkersAssumption == Reconciler \notin Workers
ASSUME BudgetAssumption == EditBudget \in Nat /\ FaultBudget \in Nat

VARIABLES
    conn,        \* the connection in the API server
    connCache,   \* the informer's copy of it
    synced,      \* that copy is the latest
    current,     \* the reconciler's copy is the latest
    queued,      \* the connection's key is in the workqueue
    bundle,      \* what the CA bundle Secret has
    hasToken,    \* the token Secret has a token
    up,          \* OpenBao answers
    entry,       \* what the cache has for the connection
    pc, read, pem, client,
    edits, faults,
    checked      \* the client that LookupSelf succeeded with (history)

serverVars == <<conn, connCache, synced, current, queued>>
worldVars  == <<bundle, hasToken, up>>
workVars   == <<pc, read, pem, client>>
vars == <<serverVars, worldVars, entry, workVars, edits, faults, checked>>

Callers == Workers \cup {Reconciler}
Tags == {"None", "Ready", "Error", "Stalled"}
Generations == 1 .. EditBudget + 1
Connections == [gen : Generations, settings : Settings, tag : Tags, observed : 0 .. EditBudget + 1]
Clients == [settings : Settings, pem : Bundles \cup {NoBundle}]
Entries == [client : Clients \cup {None}, serial : {0, 1}]
ASSUME NoneAssumption == None \notin Clients /\ None \notin Connections

Steps == {"idle", "bundle", "client", "use", "health", "lookup", "Ready", "Error", "Stalled"}

TypeOK ==
    /\ conn \in Connections /\ connCache \in Connections
    /\ synced \in BOOLEAN /\ current \in BOOLEAN /\ queued \in BOOLEAN
    /\ bundle \in Bundles \cup {NoBundle} /\ hasToken \in BOOLEAN /\ up \in BOOLEAN
    /\ entry \in Entries
    /\ pc \in [Callers -> Steps]
    /\ read \in [Callers -> Connections \cup {None}]
    /\ pem \in [Callers -> Bundles \cup {NoBundle}]
    /\ client \in [Callers -> Clients \cup {None}]
    /\ edits \in 0 .. EditBudget /\ faults \in 0 .. FaultBudget
    /\ checked \in Clients \cup {None}

Init ==
    /\ \E s \in Settings : conn = [gen |-> 1, settings |-> s, tag |-> "None", observed |-> 0]
    /\ connCache = conn /\ synced = TRUE /\ current = FALSE /\ queued = TRUE
    /\ bundle = (CHOOSE b \in Bundles : TRUE) /\ hasToken = TRUE /\ up = TRUE
    /\ entry = [client |-> None, serial |-> 0]
    /\ pc = [w \in Callers |-> "idle"] /\ read = [w \in Callers |-> None]
    /\ pem = [w \in Callers |-> NoBundle] /\ client = [w \in Callers |-> None]
    /\ edits = EditBudget /\ faults = FaultBudget
    /\ checked = None

Edit == edits > 0 /\ edits' = edits - 1 /\ UNCHANGED faults
Fault == faults > 0 /\ faults' = faults - 1 /\ UNCHANGED edits

Goto(w, step) == pc' = [pc EXCEPT ![w] = step]

(* What worker w has read and the client it has are gone. *)
Drop(w) ==
    /\ pc' = [pc EXCEPT ![w] = "idle"] /\ read' = [read EXCEPT ![w] = None]
    /\ pem' = [pem EXCEPT ![w] = NoBundle] /\ client' = [client EXCEPT ![w] = None]
    /\ checked' = IF w = Reconciler THEN None ELSE checked
    /\ current' = (current /\ w # Reconciler)

----------------------------------------------------------------------------
(* Asking for a client *)

(* resolveConnection, or the Get of the connection's own Reconcile. *)
Read(w) ==
    /\ pc[w] = "idle"
    /\ IF w = Reconciler
         THEN queued /\ queued' = FALSE /\ current' = synced
         ELSE UNCHANGED <<queued, current>>
    /\ read' = [read EXCEPT ![w] = connCache]
    /\ Goto(w, "bundle")
    /\ UNCHANGED <<conn, connCache, synced, worldVars, entry, pem, client, edits, faults, checked>>

(* There is no client: a connection is marked as stalled, another resource *)
(* waits for its connection.                                               *)
NoClient(w) ==
    IF w = Reconciler
      THEN Goto(w, "Stalled") /\ UNCHANGED <<current, read, pem, client, checked>>
      ELSE Drop(w)

(* connectionCABundle *)
ReadBundle(w) ==
    /\ pc[w] = "bundle"
    /\ \/ /\ read[w].settings.bundled /\ bundle = NoBundle
          /\ NoClient(w)
       \/ /\ read[w].settings.bundled => bundle # NoBundle
          /\ pem' = [pem EXCEPT ![w] = IF read[w].settings.bundled THEN bundle ELSE NoBundle]
          /\ Goto(w, "client")
          /\ UNCHANGED <<current, read, client, checked>>
    /\ UNCHANGED <<conn, connCache, synced, queued, worldVars, entry, edits, faults>>

(* The client a worker asks for; for the cache it is also the key, a       *)
(* digest standing for the bundle.                                         *)
Asked(w) == [settings |-> read[w].settings, pem |-> pem[w]]

Got(w, c) ==
    /\ client' = [client EXCEPT ![w] = c]
    /\ Goto(w, IF w # Reconciler THEN "use"
               ELSE IF read[w].settings.root THEN "health" ELSE "lookup")
    /\ UNCHANGED <<current, read, pem, checked>>

(* connectionClientFor with a static token: a new client for every call. *)
StaticClient(w) ==
    /\ ~read[w].settings.dynamic
    /\ IF hasToken /\ read[w].settings.valid THEN Got(w, Asked(w)) ELSE NoClient(w)
    /\ UNCHANGED entry

(* ClientFor finds a client that was built from the same settings. *)
\* Mutant: the CA bundle is not part of the key.
SameKeyButCA(w) == entry.client # None /\ entry.client.settings = read[w].settings
\* Mutant: the cached client is never found.
NeverSameKey(w) == FALSE
SameKey(w) == entry.client = Asked(w)

CachedClient(w) ==
    /\ read[w].settings.dynamic /\ SameKey(w)
    /\ Got(w, entry.client)
    /\ UNCHANGED entry

(* ClientFor builds a client and replaces the cached one. *)
NewClient(w) ==
    /\ read[w].settings.dynamic /\ ~SameKey(w)
    /\ IF read[w].settings.valid
         THEN /\ entry' = [client |-> Asked(w), serial |-> 1 - entry.serial]
              /\ Got(w, Asked(w))
         ELSE NoClient(w) /\ UNCHANGED entry

ClientFor(w) ==
    /\ pc[w] = "client"
    /\ StaticClient(w) \/ CachedClient(w) \/ NewClient(w)
    /\ UNCHANGED <<conn, connCache, synced, queued, worldVars, edits, faults>>

(* A worker is done with its client. *)
Use(w) ==
    /\ pc[w] = "use" /\ Drop(w)
    /\ UNCHANGED <<conn, connCache, synced, queued, worldVars, entry, edits, faults>>

----------------------------------------------------------------------------
(* The connection's Reconcile *)

Answered == up /\ UNCHANGED <<edits, faults>>
Failed == \/ ~up /\ UNCHANGED <<edits, faults>>
          \/ up /\ Fault

(* CheckHealth, in the root namespace only. *)
CheckHealth ==
    /\ pc[Reconciler] = "health"
    /\ \/ Answered /\ Goto(Reconciler, "lookup")
       \/ Failed /\ Goto(Reconciler, "Error")
    /\ UNCHANGED <<serverVars, worldVars, entry, read, pem, client, checked>>

LookupSelf ==
    /\ pc[Reconciler] = "lookup"
    /\ \/ Answered /\ Goto(Reconciler, "Ready") /\ checked' = client[Reconciler]
       \/ Failed /\ Goto(Reconciler, "Error") /\ UNCHANGED checked
    /\ UNCHANGED <<serverVars, worldVars, entry, read, pem, client>>

(* Every Reconcile is followed by another: after defaultDriftCheck, after  *)
(* the workqueue's backoff, after dependencyRetry.                         *)
\* Mutant: a connection that is ready is not checked again.
RequeueUnlessReady(tag) == tag \in {"Error", "Stalled"}
Requeue(tag) == tag \in {"Ready", "Error", "Stalled"}

(* The API server takes a status only for the version that was read. *)
\* Mutant: it takes any.
AnyVersion == TRUE
SameVersion == current

(* updateStatusIfChanged and the end of the Reconcile. *)
Record ==
    LET seen == read[Reconciler]
        tag == pc[Reconciler]
        changed == seen.tag # tag \/ seen.observed # seen.gen
    IN
    /\ tag \in {"Ready", "Error", "Stalled"}
    /\ \/ ~changed /\ queued' = (queued \/ Requeue(tag)) /\ UNCHANGED <<conn, synced, edits, faults>>
       \/ /\ changed /\ SameVersion
          /\ conn' = [conn EXCEPT !.tag = tag, !.observed = seen.gen]
          /\ synced' = FALSE /\ queued' = (queued \/ Requeue(tag))
          /\ UNCHANGED <<edits, faults>>
       \/ /\ changed
          /\ IF SameVersion THEN Fault ELSE UNCHANGED <<edits, faults>>
          /\ queued' = TRUE /\ UNCHANGED <<conn, synced>>
    /\ Drop(Reconciler)
    /\ UNCHANGED <<connCache, worldVars, entry>>

----------------------------------------------------------------------------
(* Users, Secrets, the watches and OpenBao *)

(* The namespace is immutable, nothing else is. *)
UserEdit ==
    /\ Edit
    /\ \E s \in Settings :
         /\ s # conn.settings /\ s.root = conn.settings.root
         /\ conn' = [conn EXCEPT !.settings = s, !.gen = @ + 1]
    /\ synced' = FALSE /\ current' = FALSE
    /\ UNCHANGED <<connCache, queued, worldVars, entry, workVars, checked>>

Sync ==
    /\ ~synced
    /\ connCache' = conn /\ synced' = TRUE /\ queued' = TRUE
    /\ UNCHANGED <<conn, current, worldVars, entry, workVars, edits, faults, checked>>

(* mapSecretToConnections finds the connection if it refers to the Secret. *)
BundleChange ==
    /\ Edit
    /\ bundle' \in (Bundles \cup {NoBundle}) \ {bundle}
    /\ queued' = (queued \/ connCache.settings.bundled)
    /\ UNCHANGED <<conn, connCache, synced, current, hasToken, up, entry, workVars, checked>>

TokenChange ==
    /\ IF hasToken THEN Fault ELSE UNCHANGED <<edits, faults>>
    /\ hasToken' = ~hasToken
    /\ queued' = (queued \/ ~connCache.settings.dynamic)
    /\ UNCHANGED <<conn, connCache, synced, current, bundle, up, entry, workVars, checked>>

Outage ==
    /\ IF up THEN Fault ELSE UNCHANGED <<edits, faults>>
    /\ up' = ~up
    /\ UNCHANGED <<serverVars, bundle, hasToken, entry, workVars, checked>>

(* The manager is restarted. *)
Crash ==
    /\ Fault
    /\ pc' = [w \in Callers |-> "idle"] /\ read' = [w \in Callers |-> None]
    /\ pem' = [w \in Callers |-> NoBundle] /\ client' = [w \in Callers |-> None]
    /\ entry' = [client |-> None, serial |-> 0] /\ checked' = None
    /\ connCache' = conn /\ synced' = TRUE /\ current' = FALSE /\ queued' = TRUE
    /\ UNCHANGED <<conn, worldVars>>

----------------------------------------------------------------------------
Ask(w) == Read(w) \/ ReadBundle(w) \/ ClientFor(w)
Reconcile == Ask(Reconciler) \/ CheckHealth \/ LookupSelf \/ Record

Next ==
    \/ Reconcile
    \/ \E w \in Workers : Ask(w) \/ Use(w)
    \/ UserEdit \/ Sync \/ BundleChange \/ TokenChange \/ Outage \/ Crash

Spec == Init /\ [][Next]_vars

(* The goroutines of all controllers and the watch keep running. *)
FairSpec ==
    /\ Spec
    /\ WF_vars(Reconcile) /\ WF_vars(Sync)
    /\ \A w \in Workers : WF_vars(ReadBundle(w) \/ ClientFor(w) \/ Use(w))

----------------------------------------------------------------------------
(* Properties *)

(* common.go:261: "replacing clients when their config or CA bundle        *)
(* changes".  Whatever other workers ask the cache for in the meantime,    *)
(* the client that a worker gets was built from the connection and the CA  *)
(* bundle that this worker has read.                                       *)
ClientMatchesRead == \A w \in Callers : client[w] # None => client[w] = Asked(w)

(* What a current resourceVersion is worth; a generation counts edits. *)
VersionsInv ==
    /\ synced => connCache = conn
    /\ current => read[Reconciler] = conn
    /\ conn.gen + edits <= EditBudget + 1

(* What a worker holds at its step, and what the verdict Ready rests on. *)
ProgressInv ==
    /\ \A w \in Callers :
         /\ pc[w] # "idle" => read[w] # None
         /\ pc[w] \in {"idle", "bundle", "client"} => client[w] = None
         /\ pc[w] \in {"use", "health", "lookup", "Ready"} => client[w] # None
    /\ pc[Reconciler] = "Ready" => checked = client[Reconciler]

(* The variables have their types, every client is the right one, and what *)
(* a worker has in hand suits its step (ConnectionClientCache.ClientFor,   *)
(* connectionClientFor, Reconcile): an inductive invariant.                *)
CacheInv == TypeOK /\ ClientMatchesRead /\ VersionsInv /\ ProgressInv

(* Reconcile: a connection becomes Ready, for a generation, only after     *)
(* LookupSelf succeeded with a client for the settings of this generation, *)
(* also when the connection is edited during the Reconcile.                *)
ReadyIsVerified ==
    [][conn'.tag = "Ready" /\ (conn.tag # "Ready" \/ conn'.observed # conn.observed)
         => /\ checked # None /\ checked.settings = conn'.settings
            /\ conn'.observed = conn'.gen]_vars

(* common.go:261: "retaining dynamic-auth token leases across              *)
(* reconciliations".  Workers that read different versions may replace     *)
(* each other's clients, but once edits have ended the cache keeps one.    *)
ClientIsRetained == <>[][entry' = entry]_vars

(* docs/user-stories.md:15-16: the connection ends up Ready in its current *)
(* generation if OpenBao answers and the configuration is complete, and    *)
(* not Ready otherwise.                                                    *)
Complete ==
    /\ conn.settings.valid
    /\ conn.settings.bundled => bundle # NoBundle
    /\ conn.settings.dynamic \/ hasToken
ConnectionConverges ==
    /\ <>[](up /\ Complete) => <>[](conn.tag = "Ready" /\ conn.observed = conn.gen)
    /\ <>[](~up \/ ~Complete) => <>[](conn.tag # "Ready")
=============================================================================
