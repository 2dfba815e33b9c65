------------------------------ MODULE Wakeups ------------------------------
(***************************************************************************)
(* How the reconcilers of one namespace wake each other.  A resource is    *)
(* Ready only when everything it refers to is and the Secrets behind its   *)
(* connection give a client.  Its reconciler is called again when one of   *)
(* the resources it refers to changes, by the watches its SetupWithManager *)
(* declares and the map functions that turn an event into requests; for    *)
(* the Secrets of its connection it has no watch and relies on the retry   *)
(* (dependencyRetry, or the back-off after an error).  Every kind has one  *)
(* informer and every controller one queue; an event reaches the cache of  *)
(* its kind first and the handlers of the controllers that watch the kind  *)
(* after that, so handlers and workers read caches that differ in age.     *)
(*                                                                         *)
(* A net is a set of resources that refer to each other:                   *)
(*   kind   the kind of each                                               *)
(*   refs   the resources that its spec names; a membership names a member *)
(*   into   the group that a membership belongs to, 0 for other resources  *)
(*   lazy   the Secrets of a connection that are read only to log in (the  *)
(*          AppRole credentials); a token or CA bundle is always read      *)
(*                                                                         *)
(* Simplifications.                                                        *)
(*  - what a reconciler does in OpenBao succeeds once it has a client.     *)
(*  - references are not edited, and a Secret is there or not: an edit is  *)
(*    an event of the edited resource, like the ones that are modelled.    *)
(*  - a reconciler reads what it needs in one step.                        *)
(*  - a controller may be at several of its resources at a time, never at  *)
(*    one of them twice.  The single worker that it has by default takes   *)
(*    them one after another, which is among the orders that this allows.  *)
(***************************************************************************)
EXTENDS Integers, Sequences, FiniteSets

CONSTANTS
    Nets,        \* the nets to look at
    MaxChanges   \* bound on creations, deletions, lost tokens and drift checks

----------------------------------------------------------------------------
(* The watches of every controller, by file. *)

ConnectionWatches == {"secret"}
EntityWatches == {"connection"}
EntityAliasWatches == {"connection", "entity"}
GroupWatches == {"connection", "membership", "entity", "group"}
GroupAliasWatches == {"connection", "group"}
PersonaWatches == {"connection"}
PolicyWatches == {"connection"}
PasswordPolicyWatches == {"connection"}
TokenRoleWatches == {"connection"}
AppRoleWatches == {"connection"}
KubernetesAuthRoleWatches == {"connection"}
OIDCConfigWatches == {"connection"}
OIDCNamedWatches == {"connection"}    \* provider, client, key, role, scope, assignment
MountWatches == {"connection"}        \* auth method, secret engine
NamespaceWatches == {"connection"}
AuditDeviceWatches == {"connection"}
RateLimitQuotaWatches == {"connection"}
WorkflowWatches == {"connection"}
PluginWatches == {"connection"}
CORSWatches == {"connection"}
AuditRequestHeaderWatches == {"connection"}
UIHeaderWatches == {"connection"}
QuotaConfigurationWatches == {"connection"}
LoggerWatches == {"connection"}
EncryptionKeyWatches == {"connection"}
KeyringWatches == {"connection"}
MFALoginEnforcementWatches == {"connection"}
MFAMethodWatches == {"connection", "secret"}

(* The controllers that main registers. *)
Watches ==
    [connection |-> ConnectionWatches, entity |-> EntityWatches,
     entityAlias |-> EntityAliasWatches, group |-> GroupWatches,
     groupAlias |-> GroupAliasWatches, persona |-> PersonaWatches,
     policy |-> PolicyWatches, passwordPolicy |-> PasswordPolicyWatches,
     tokenRole |-> TokenRoleWatches, appRole |-> AppRoleWatches,
     kubernetesAuthRole |-> KubernetesAuthRoleWatches, oidcConfig |-> OIDCConfigWatches,
     oidcNamed |-> OIDCNamedWatches, mount |-> MountWatches, namespace |-> NamespaceWatches,
     auditDevice |-> AuditDeviceWatches, rateLimitQuota |-> RateLimitQuotaWatches,
     workflow |-> WorkflowWatches, plugin |-> PluginWatches, cors |-> CORSWatches,
     auditRequestHeader |-> AuditRequestHeaderWatches, uiHeader |-> UIHeaderWatches,
     quotaConfiguration |-> QuotaConfigurationWatches, logger |-> LoggerWatches,
     encryptionKey |-> EncryptionKeyWatches, keyring |-> KeyringWatches,
     mfaLoginEnforcement |-> MFALoginEnforcementWatches, mfaMethod |-> MFAMethodWatches]
Controllers == DOMAIN Watches
Kinds == Controllers \cup {"secret", "membership"}

(* The references that the spec of a kind may hold.  What is behind a      *)
(* connection is read as well, see Usable.                                 *)
RefKinds(k) ==
    CASE k = "secret" -> {}
      [] k = "connection" -> {"secret"}
      [] k = "entityAlias" -> {"connection", "entity"}
      [] k = "groupAlias" -> {"connection", "group"}
      [] k = "membership" -> {"entity", "group"}
      [] k = "mfaMethod" -> {"connection", "secret"}
      [] OTHER -> {"connection"}

(* The references of a net are the ones the resources can hold, and there  *)
(* is no cycle: OpenBao refuses a group that contains itself.              *)
ASSUME NetsAssumption ==
    \A n \in Nets :
        /\ n.kind \in Seq(Kinds)
        /\ n.refs \in [DOMAIN n.kind -> SUBSET DOMAIN n.kind]
        /\ n.into \in [DOMAIN n.kind -> DOMAIN n.kind \cup {0}]
        /\ n.lazy \in [DOMAIN n.kind -> SUBSET DOMAIN n.kind]
        /\ \A o \in DOMAIN n.kind :
              /\ \A d \in n.refs[o] : d < o /\ n.kind[d] \in RefKinds(n.kind[o])
              /\ n.lazy[o] \subseteq n.refs[o] /\ (n.lazy[o] # {} => n.kind[o] = "connection")
              /\ n.kind[o] = "membership" <=> n.into[o] > 0
              /\ n.into[o] > 0 => n.kind[n.into[o]] = "group" /\ \A d \in n.refs[o] : d < n.into[o]
ASSUME BoundAssumption == MaxChanges \in Nat

VARIABLES
    net,      \* the resources and how they refer to each other
    live,     \* each resource at the API server: [exists, tag]
    cache,    \* each resource in the cache of the informer of its kind
    synced,   \* the resources whose cached copy is the current one
    events,   \* <<controller, resource>>: a handler that has to run
    queue,    \* the resources in the queues of the controllers
    busy,     \* the resources the workers are at, by resource: its copy, whether
              \* that is the current one, and the status that they found
    armed,    \* the resources that are to be queued again after some time
    tokens,   \* the connections whose client has logged in and may go on
    changes

vars == <<net, live, cache, synced, events, queue, busy, armed, tokens, changes>>

Objects == DOMAIN net.kind
Kind(o) == net.kind[o]
Reconciled == {o \in Objects : Kind(o) \in Controllers}

(* The Ready condition: not set, False because something is not Ready,     *)
(* False because there is no client, True.                                 *)
Tags == {"None", "Waiting", "Stalled", "Ready"}
States == [exists : BOOLEAN, tag : Tags]
Jobs == [copy : States, current : BOOLEAN, found : {"unread"} \cup Tags]

Up(state) == state.exists /\ state.tag = "Ready"

(* Memberships through which others are members of group o, as seen. *)
Memberships(o, seen) == {x \in Objects : net.into[x] = o /\ seen[x].exists}

(* What has to be Ready before o is, and is watched for it. *)
Needs(o, seen) == net.refs[o] \cup UNION {net.refs[x] : x \in Memberships(o, seen)}
Sees(o, seen) == \A d \in Needs(o, seen) : Up(seen[d])

(* clientFor and the first request: the Secrets of connection c are there, *)
(* but for the ones that only a login reads when there has been one.       *)
Usable(c, seen) ==
    \A s \in net.refs[c] : Up(seen[s]) \/ (s \in net.lazy[c] /\ c \in tokens)

(* What the reconciler of o reports.  The resources that the spec names    *)
(* come first, then the client, then the Secrets of an MFA method and the  *)
(* members of a group.                                                     *)
Named(o) == {d \in net.refs[o] : Kind(d) # "secret"}
Connections(o) == {c \in net.refs[o] : Kind(c) = "connection"}
Outcome(o, seen) ==
    IF Kind(o) = "connection" THEN IF Usable(o, seen) THEN "Ready" ELSE "Waiting"
    ELSE IF \E d \in Named(o) : ~Up(seen[d]) THEN "Waiting"
    ELSE IF \E c \in Connections(o) : ~Usable(c, seen) THEN "Stalled"
    ELSE IF Sees(o, seen) THEN "Ready" ELSE "Waiting"

TypeOK ==
    /\ net \in Nets
    /\ live \in [Objects -> States]
    /\ cache \in [Objects -> States]
    /\ synced \subseteq Objects /\ \A o \in synced : cache[o] = live[o]
    /\ events \subseteq Controllers \X Objects
    /\ queue \subseteq Reconciled
    /\ DOMAIN busy \subseteq Reconciled /\ \A o \in DOMAIN busy : busy[o] \in Jobs
    /\ armed \subseteq Reconciled /\ tokens \subseteq Objects
    /\ changes \in 0 .. MaxChanges

(* The operator has just started: some resources exist, the informers have *)
(* listed them and every key is queued; no connection has logged in yet.   *)
Init ==
    /\ net \in Nets /\ tokens = {}
    /\ live \in [Objects -> States]
    /\ \A o \in Objects :
          live[o].tag = IF ~live[o].exists THEN "None"
                        ELSE IF o \in Reconciled THEN Outcome(o, live) ELSE "Ready"
    /\ cache = live /\ synced = Objects
    /\ events = {} /\ busy = <<>> /\ armed = {}
    /\ queue = {o \in Reconciled : live[o].exists}
    /\ changes = 0

----------------------------------------------------------------------------
(* Users and tokens *)

(* The API server stores a new version of o: older copies are out of date. *)
Store(o, state) ==
    /\ live' = [live EXCEPT ![o] = state]
    /\ synced' = synced \ {o}

Outdated(o) == [p \in DOMAIN busy |-> IF p = o THEN [busy[p] EXCEPT !.current = FALSE] ELSE busy[p]]

(* A Secret or membership is there at once; what has a controller has no   *)
(* status until it has been reconciled.  A deletion is one step here: what *)
(* a finalizer makes it wait for is the subject of the lifecycle modules.  *)
Change(o) ==
    /\ changes < MaxChanges /\ changes' = changes + 1
    /\ Store(o, [exists |-> ~live[o].exists,
                 tag |-> IF ~live[o].exists /\ o \notin Reconciled THEN "Ready" ELSE "None"])
    /\ busy' = Outdated(o)
    /\ UNCHANGED <<net, cache, events, queue, armed, tokens>>

(* The token of a connection cannot be used or renewed any more, or its    *)
(* client is replaced: the next request logs in.                           *)
Expire(c) ==
    /\ changes < MaxChanges /\ changes' = changes + 1
    /\ c \in tokens /\ tokens' = tokens \ {c}
    /\ UNCHANGED <<net, live, cache, synced, events, queue, busy, armed>>

----------------------------------------------------------------------------
(* Informers and handlers *)

(* External: the informer of the kind takes the change in, and notifies    *)
(* the controllers of that kind and those that watch it.  One without      *)
(* resources in the net has nothing to ask for.                            *)
Sync(o) ==
    /\ o \notin synced /\ synced' = synced \cup {o}
    /\ cache' = [cache EXCEPT ![o] = live[o]]
    /\ events' = events \cup {<<k, o>> : k \in {k \in {Kind(x) : x \in Reconciled} :
                                                   k = Kind(o) \/ Kind(o) \in Watches[k]}}
    /\ UNCHANGED <<net, live, queue, busy, armed, tokens, changes>>

(* Mutant: a membership is mapped to itself, not to its group. *)
RequestsForItself(k, o) ==
    IF k = "group" /\ Kind(o) = "membership" THEN {o}
    ELSE {x \in Reconciled : Kind(x) = k /\ cache[x].exists /\ o \in net.refs[x]}

(* The map functions.  Those of the group controller find the groups that  *)
(* a member belongs to by listing the memberships; all others list the     *)
(* resources of their own kind.                                            *)
Requests(k, o) ==
    IF k = "group" /\ Kind(o) = "membership" THEN {net.into[o]}
    ELSE IF k = "group" /\ Kind(o) \in {"entity", "group"}
    THEN {net.into[x] : x \in {x \in Objects : net.into[x] > 0 /\ cache[x].exists /\ o \in net.refs[x]}}
    ELSE {x \in Reconciled : Kind(x) = k /\ cache[x].exists /\ o \in net.refs[x]}

(* A controller handles an event of its own kind by asking for the         *)
(* resource itself; the group controller also maps groups to their parents.*)
Handle(k, o) ==
    /\ <<k, o>> \in events
    /\ events' = events \ {<<k, o>>}
    /\ queue' = queue \cup (IF k = Kind(o) THEN {o} ELSE {})
                      \cup (IF Kind(o) \in Watches[k] THEN Requests(k, o) ELSE {})
    /\ UNCHANGED <<net, live, cache, synced, busy, armed, tokens, changes>>

----------------------------------------------------------------------------
(* Reconcilers *)

Begin(o) ==
    IF ~cache[o].exists THEN busy
    ELSE [p \in DOMAIN busy \cup {o} |->
            IF p # o THEN busy[p]
            ELSE [copy |-> cache[o], current |-> o \in synced, found |-> "unread"]]

(* A worker takes a resource and reads its copy. *)
Start(o) ==
    /\ o \in queue \ DOMAIN busy
    /\ queue' = queue \ {o} /\ busy' = Begin(o)
    /\ UNCHANGED <<net, live, cache, synced, events, armed, tokens, changes>>

(* The connections that a Reconcile of o which finds t sends requests to.  *)
(* A group is read before its members are.                                 *)
Used(o, t) ==
    IF Kind(o) = "connection" THEN {c \in {o} : t = "Ready"}
    ELSE {c \in Connections(o) :
            t = "Ready" \/ (Kind(o) = "group" /\ Up(cache[c]) /\ Usable(c, cache))}

(* It reads what the resource needs, and logs in with the connection. *)
Look(o) ==
    /\ o \in DOMAIN busy /\ busy[o].found = "unread"
    /\ busy' = [busy EXCEPT ![o].found = Outcome(o, cache)]
    /\ tokens' = tokens \cup {c \in Used(o, Outcome(o, cache)) : net.lazy[c] # {}}
    /\ UNCHANGED <<net, live, cache, synced, events, queue, armed, changes>>

Free(o) == [p \in DOMAIN busy \ {o} |-> busy[p]]

(* The result of a Reconcile of o that found t has a RequeueAfter, or is   *)
(* an error.  A Ready connection is checked again, too; the drift checks   *)
(* of other resources may be off.                                          *)
\* Mutant: only connections are tried again.
RetriesConnections(o, t) == Kind(o) = "connection"
Retries(o, t) == t # "Ready" \/ Kind(o) = "connection"

(* Status is written when it differs from the copy.  The API server        *)
(* refuses it when the copy is not the current one; the error puts the     *)
(* resource back into the queue.                                           *)
Finish(o) ==
    /\ o \in DOMAIN busy /\ busy[o].found # "unread" /\ busy' = Free(o)
    /\ LET found == busy[o].found
       IN \/ /\ found = busy[o].copy.tag
             /\ armed' = armed \cup {x \in {o} : Retries(o, found)}
             /\ UNCHANGED <<live, synced, queue>>
          \/ /\ found # busy[o].copy.tag /\ busy[o].current
             /\ Store(o, [live[o] EXCEPT !.tag = found])
             /\ armed' = armed \cup {x \in {o} : Retries(o, found)}
             /\ UNCHANGED queue
          \/ /\ found # busy[o].copy.tag /\ ~busy[o].current
             /\ queue' = queue \cup {o}
             /\ UNCHANGED <<live, synced, armed>>
    /\ UNCHANGED <<net, cache, events, tokens, changes>>

(* External: the time after which o was to be queued again has passed. *)
Timer(o) ==
    /\ o \in armed /\ armed' = armed \ {o}
    /\ queue' = queue \cup {o}
    /\ UNCHANGED <<net, live, cache, synced, events, busy, tokens, changes>>

(* A drift check is due, if they are not off; bounded like the changes. *)
DriftCheck(o) ==
    /\ changes < MaxChanges /\ changes' = changes + 1
    /\ o \in Reconciled \ queue
    /\ Kind(o) # "connection" /\ Up(cache[o])
    /\ queue' = queue \cup {o}
    /\ UNCHANGED <<net, live, cache, synced, events, busy, armed, tokens>>

Notify(o) == \E e \in events : e[2] = o /\ Handle(e[1], o)
Work(o) == Start(o) \/ Look(o) \/ Finish(o) \/ Timer(o)

Next ==
    \E o \in Objects :
        \/ Change(o) \/ Expire(o)
        \/ Sync(o) \/ Notify(o)
        \/ Start(o) \/ Look(o) \/ Finish(o) \/ Timer(o)
        \/ DriftCheck(o)

Spec == Init /\ [][Next]_vars

(* Informers deliver, handlers run, timers fire, a Reconcile comes to its  *)
(* end, and a queue is served in the order in which it was filled, so that *)
(* every key in it is taken in the end.  Users and drift checks owe        *)
(* nothing.                                                                *)
Numbers == UNION {DOMAIN n.kind : n \in Nets}
FairSpec ==
    /\ Spec
    /\ WF_vars(\E o \in Objects : Sync(o) \/ Notify(o))
    /\ \A o \in Numbers : WF_vars(o \in Objects /\ Work(o))

----------------------------------------------------------------------------
(* Properties *)

(* Each resource reports what a reconciler would find. *)
Coherent ==
    \A o \in Reconciled : live[o].exists => live[o].tag = Outcome(o, live)

(* dependencyRetry, the watches and the map functions: Ready and its loss  *)
(* travel from a Secret through its connection to every resource that      *)
(* depends on it, also when the Secret comes back unnoticed by its         *)
(* connection while others have stalled on it, and when a connection goes  *)
(* on without its Secret until its token expires.  Drift checks may be off.*)
ReadinessTravels == <>[]Coherent

----------------------------------------------------------------------------
(* The inductive invariant: no wake-up is lost *)

(* What o depends on, as far as the informers know: the resources it needs *)
(* and, for a group, its memberships.                                      *)
Sources(o) == Needs(o, cache) \cup {x \in Objects : net.into[x] = o}

(* The controller of o is going to look at it again: the key is queued, or *)
(* an event that leads to it is on its way.                                *)
OwnEvent(o) == o \in queue \/ o \notin synced \/ <<Kind(o), o>> \in events
Stirred(o) ==
    OwnEvent(o) \/ \E d \in Sources(o) : d \notin synced \/ <<Kind(o), d>> \in events

(* What t says of the resources that o needs is true of them as seen.  A   *)
(* connection that has logged in may do without its Secret, and one that   *)
(* stalls says nothing of them.                                            *)
Agrees(o, t, seen) ==
    /\ t # "None"
    /\ t = "Waiting" => ~Sees(o, seen)
    /\ t = "Ready" => Sees(o, seen) \/ net.lazy[o] # {}

(* What the controller found last, or is about to find, is what the        *)
(* informers say now.                                                      *)
UpToDate(o) ==
    IF o \in DOMAIN busy
      THEN busy[o].found = "unread" \/ Agrees(o, busy[o].found, cache)
      ELSE Agrees(o, live[o].tag, cache)

Awake == \A o \in Reconciled : live[o].exists => Stirred(o) \/ UpToDate(o)

(* The key is queued, worked at, on its way or due some time. *)
Due(o) == OwnEvent(o) \/ o \in DOMAIN busy \/ o \in armed

(* What is not Ready, and every connection, is going to be looked at again.*)
Retried ==
    \A o \in Reconciled : live[o].exists /\ Retries(o, live[o].tag) => Due(o)

(* A copy is the stored resource, or a newer version leads to the key. *)
JobsInv ==
    \A o \in DOMAIN busy : IF busy[o].current THEN busy[o].copy = live[o] ELSE OwnEvent(o)

(* SetupWithManager, the map functions and the results of Reconcile:       *)
(* whatever arrives in whatever order, a resource whose status does not    *)
(* agree with the resources it needs is looked at again without a timer,   *)
(* and one that is not Ready in any case.                                  *)
IndInv == TypeOK /\ JobsInv /\ Awake /\ Retried

(* Nothing is under way. *)
Quiet == synced = Objects /\ events = {} /\ queue = {} /\ DOMAIN busy = {}

(* The status of o is what a reconciler would find, or that is going to be *)
(* noticed: by the retry of o, or by the next check of its connection,     *)
(* which goes on without the Secret of its next login.                     *)
Noticed(o) ==
    \/ live[o].tag = Outcome(o, live)
    \/ o \in armed
    \/ \E c \in Connections(o) : c \in armed /\ ~Usable(c, live) /\ net.lazy[c] # {}
=============================================================================
