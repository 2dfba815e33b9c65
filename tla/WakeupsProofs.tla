--------------------------- MODULE WakeupsProofs ---------------------------
(***************************************************************************)
(* Proofs about Wakeups, for nets of every size and shape: the watches and *)
(* the map functions of the controllers lose no wake-up, whatever the      *)
(* order in which informers, handlers and workers run.                     *)
(***************************************************************************)
EXTENDS Wakeups, TLAPS

----------------------------------------------------------------------------
(* Nets and watches *)

(* A controller watches every kind that its resources refer to, and the    *)
(* group controller the memberships and the kinds of their members: the    *)
(* table of the SetupWithManager functions is complete.                    *)
LEMMA WatchesComplete ==
  /\ \A k \in Controllers : RefKinds(k) \subseteq Watches[k]
  /\ "group" \in Controllers
  /\ {"membership", "entity", "group"} \subseteq Watches["group"]
  /\ RefKinds("group") = {"connection"}
  /\ RefKinds("membership") = {"entity", "group"}
  /\ "connection" \in Controllers /\ "membership" \notin Controllers
<1> USE DEF ConnectionWatches, EntityWatches, EntityAliasWatches, GroupWatches,
      GroupAliasWatches, PersonaWatches, PolicyWatches, PasswordPolicyWatches, TokenRoleWatches,
      AppRoleWatches, KubernetesAuthRoleWatches, OIDCConfigWatches, OIDCNamedWatches,
      MountWatches, NamespaceWatches, AuditDeviceWatches, RateLimitQuotaWatches,
      WorkflowWatches, PluginWatches, CORSWatches, AuditRequestHeaderWatches, UIHeaderWatches,
      QuotaConfigurationWatches, LoggerWatches, EncryptionKeyWatches, KeyringWatches,
      MFALoginEnforcementWatches, MFAMethodWatches
<1>1. Controllers \ {"connection"} = {"entity", "entityAlias", "group", "groupAlias", "persona",
        "policy", "passwordPolicy", "tokenRole", "appRole", "kubernetesAuthRole", "oidcConfig",
        "oidcNamed", "mount", "namespace", "auditDevice", "rateLimitQuota", "workflow",
        "plugin", "cors", "auditRequestHeader", "uiHeader", "quotaConfiguration", "logger",
        "encryptionKey", "keyring", "mfaLoginEnforcement", "mfaMethod"}
  BY DEF Controllers, Watches
<1>2. \A k \in Controllers \ {"connection"} : "connection" \in Watches[k]
  BY <1>1 DEF Watches
<1>3. /\ Watches["connection"] = {"secret"}
      /\ Watches["entityAlias"] = {"connection", "entity"}
      /\ Watches["groupAlias"] = {"connection", "group"}
      /\ Watches["mfaMethod"] = {"connection", "secret"}
      /\ Watches["group"] = {"connection", "membership", "entity", "group"}
  BY DEF Watches
<1>4. "group" \in Controllers /\ "membership" \notin Controllers /\ "secret" \notin Controllers
  BY <1>1
<1>5. \A k \in Controllers : RefKinds(k) \subseteq Watches[k]
  BY <1>2, <1>3, <1>4 DEF RefKinds
<1>6. "connection" \in Controllers
  BY DEF Controllers, Watches
<1> QED BY <1>3, <1>4, <1>5, <1>6 DEF RefKinds

(* What NetsAssumption says of the net under way. *)
LEMMA NetFacts ==
  ASSUME net \in Nets
  PROVE  /\ Objects \subseteq Nat \ {0}
         /\ \A o \in Objects : net.refs[o] \subseteq Objects
         /\ \A o \in Objects : net.into[o] \in Objects \cup {0}
         /\ \A o \in Objects : \A d \in net.refs[o] : Kind(d) \in RefKinds(Kind(o))
         /\ \A o \in Objects : net.into[o] \in Objects =>
               Kind(o) = "membership" /\ Kind(net.into[o]) = "group"
         /\ \A o \in Objects : net.lazy[o] # {} => Kind(o) = "connection"
         /\ \A o \in Objects : Kind(o) = "membership" => net.into[o] \in Objects
<1>1. net.kind \in Seq(Kinds)
  BY NetsAssumption
<1>2. Objects \subseteq Nat \ {0}
  BY <1>1 DEF Objects
<1> QED BY <1>2, NetsAssumption DEF Objects, Kind

(* The controller of a resource watches the kind of whatever the resource  *)
(* depends on.                                                             *)
LEMMA SourcesWatched ==
  ASSUME net \in Nets, NEW o \in Reconciled, NEW d \in Sources(o)
  PROVE  d \in Objects /\ Kind(d) \in Watches[Kind(o)]
<1>1. o \in Objects /\ Kind(o) \in Controllers
  BY DEF Reconciled
<1>2. CASE d \in net.refs[o]
  BY <1>1, <1>2, NetFacts, WatchesComplete
<1>3. CASE d \in Objects /\ net.into[d] = o
  BY <1>1, <1>3, NetFacts, WatchesComplete
<1>4. ASSUME NEW x \in Memberships(o, cache), d \in net.refs[x]
      PROVE  d \in Objects /\ Kind(d) \in Watches[Kind(o)]
  <2>1. x \in Objects /\ net.into[x] = o
    BY <1>4 DEF Memberships
  <2>2. Kind(x) = "membership" /\ Kind(o) = "group" /\ Kind(d) \in RefKinds(Kind(x))
    BY <1>1, <1>4, <2>1, NetFacts
  <2> QED BY <1>4, <2>1, <2>2, NetFacts, WatchesComplete
<1> QED BY <1>2, <1>3, <1>4 DEF Sources, Needs

(* The map functions lead from whatever a resource depends on back to the  *)
(* resource, if the informer of its kind knows it.                         *)
LEMMA RequestsFindDependents ==
  ASSUME net \in Nets, NEW o \in Reconciled, NEW d \in Sources(o), cache[o].exists
  PROVE  o \in Requests(Kind(o), d)
<1>1. o \in Objects /\ Kind(o) \in Controllers
  BY DEF Reconciled
<1>2. CASE d \in net.refs[o]
  <2>1. Kind(d) \in RefKinds(Kind(o))
    BY <1>1, <1>2, NetFacts
  <2>2. ~(Kind(o) = "group" /\ Kind(d) \in {"membership", "entity", "group"})
    BY <2>1, WatchesComplete
  <2> QED BY <1>2, <2>2 DEF Requests
<1>3. CASE d \in Objects /\ net.into[d] = o
  BY <1>1, <1>3, NetFacts DEF Requests
<1>4. ASSUME NEW x \in Memberships(o, cache), d \in net.refs[x]
      PROVE  o \in Requests(Kind(o), d)
  <2>1. x \in Objects /\ net.into[x] = o /\ cache[x].exists
    BY <1>4 DEF Memberships
  <2>2. Kind(x) = "membership" /\ Kind(o) = "group" /\ Kind(d) \in RefKinds(Kind(x))
    BY <1>1, <1>4, <2>1, NetFacts
  <2>3. Kind(d) \in {"entity", "group"} /\ net.into[x] > 0
    BY <1>1, <2>1, <2>2, NetFacts, WatchesComplete
  <2> QED BY <1>4, <2>1, <2>2, <2>3 DEF Requests
<1> QED BY <1>2, <1>3, <1>4 DEF Sources, Needs

(* The map functions ask only for resources that have a controller. *)
LEMMA RequestsTyped ==
  ASSUME net \in Nets, NEW k \in Controllers, NEW o \in Objects
  PROVE  Requests(k, o) \subseteq Reconciled
<1>1. ASSUME NEW x \in Objects, net.into[x] # 0
      PROVE  net.into[x] \in Reconciled
  BY <1>1, NetFacts, WatchesComplete DEF Reconciled
<1>2. \A x \in Objects : net.into[x] > 0 => net.into[x] # 0
  BY NetFacts
<1>3. Kind(o) = "membership" => net.into[o] # 0
  BY NetFacts
<1> QED BY <1>1, <1>2, <1>3 DEF Requests

(* As long as the net and the caches stay, so does what they say. *)
LEMMA SameCache ==
  ASSUME net' = net, cache' = cache
  PROVE  /\ Objects' = Objects /\ Reconciled' = Reconciled
         /\ \A o : Kind(o)' = Kind(o)
         /\ \A o : Sources(o)' = Sources(o)
         /\ \A o : Sees(o, cache)' <=> Sees(o, cache)
  BY DEF Objects, Reconciled, Kind, Sources, Needs, Memberships, Sees

(* What a reconciler reports of the resources that it has seen is true of  *)
(* them.                                                                   *)
LEMMA OutcomeAgrees ==
  ASSUME net \in Nets, NEW o \in Objects, NEW seen
  PROVE  Outcome(o, seen) \in Tags /\ Agrees(o, Outcome(o, seen), seen)
<1>1. Outcome(o, seen) \in Tags \ {"None"}
  BY DEF Outcome, Tags
<1>2. net.refs[o] \subseteq Needs(o, seen)
  BY DEF Needs
<1>3. CASE Kind(o) = "connection"
  <2>1. Memberships(o, seen) = {}
    BY <1>3, NetFacts DEF Memberships
  <2>2. Needs(o, seen) = net.refs[o]
    BY <2>1 DEF Needs
  <2>3. Usable(o, seen) => Sees(o, seen) \/ net.lazy[o] # {}
    BY <2>2 DEF Usable, Sees
  <2>4. ~Usable(o, seen) => ~Sees(o, seen)
    BY <2>2 DEF Usable, Sees
  <2> QED BY <1>1, <1>3, <2>3, <2>4 DEF Outcome, Agrees
<1>4. CASE Kind(o) # "connection"
  <2>1. Named(o) \subseteq Needs(o, seen)
    BY <1>2 DEF Named
  <2>2. (\E d \in Named(o) : ~Up(seen[d])) => ~Sees(o, seen)
    BY <2>1 DEF Sees
  <2> QED BY <1>1, <1>4, <2>2 DEF Outcome, Agrees
<1> QED BY <1>3, <1>4

----------------------------------------------------------------------------
(* Types *)

(* The type invariant as a list of facts about the next state. *)
LEMMA TypeMake ==
  ASSUME net' \in Nets, net' = net,
         live' \in [Objects -> States], cache' \in [Objects -> States],
         synced' \subseteq Objects, \A o \in synced' : cache'[o] = live'[o],
         events' \subseteq Controllers \X Objects,
         queue' \subseteq Reconciled,
         DOMAIN busy' \subseteq Reconciled, \A o \in DOMAIN busy' : busy'[o] \in Jobs,
         armed' \subseteq Reconciled, tokens' \subseteq Objects,
         changes' \in 0 .. MaxChanges
  PROVE  TypeOK'
<1>1. Objects' = Objects /\ Reconciled' = Reconciled /\ \A o : Kind(o)' = Kind(o)
  BY DEF Objects, Reconciled, Kind
<1> QED BY <1>1 DEF TypeOK

(* The first state: every key is queued. *)
LEMMA InitOK ==
  ASSUME Init
  PROVE  IndInv
<1>1. DOMAIN busy = {}
  BY DEF Init
<1>2. TypeOK
  BY <1>1, BoundAssumption DEF Init, TypeOK
<1>3. JobsInv
  BY <1>1 DEF JobsInv
<1>4. \A o \in Reconciled : live[o].exists => OwnEvent(o)
  BY DEF Init, OwnEvent
<1> QED BY <1>2, <1>3, <1>4 DEF IndInv, Awake, Retried, Stirred, Due

(* A change of o by its user. *)
LEMMA ChangeTyped ==
  ASSUME TypeOK, NEW o \in Objects, Change(o)
  PROVE  TypeOK'
<1>1. live' \in [Objects -> States]
  <2>1. [exists |-> ~live[o].exists,
         tag |-> IF ~live[o].exists /\ o \notin Reconciled THEN "Ready" ELSE "None"] \in States
    BY DEF States, Tags
  <2> QED BY <2>1 DEF TypeOK, Change, Store
<1>2. \A p \in synced' : cache'[p] = live'[p]
  BY DEF TypeOK, Change, Store
<1>3. DOMAIN busy' = DOMAIN busy /\ \A p \in DOMAIN busy : busy'[p] \in Jobs
  BY DEF TypeOK, Change, Outdated, Jobs
<1>4. changes' \in 0 .. MaxChanges
  BY BoundAssumption DEF TypeOK, Change
<1> QED BY <1>1, <1>2, <1>3, <1>4, TypeMake DEF TypeOK, Change, Store

(* The next request of connection c logs in. *)
LEMMA ExpireTyped ==
  ASSUME TypeOK, NEW c \in Objects, Expire(c)
  PROVE  TypeOK'
<1>1. changes' \in 0 .. MaxChanges /\ tokens' \subseteq Objects
  BY BoundAssumption DEF TypeOK, Expire
<1> QED BY <1>1, TypeMake DEF TypeOK, Expire

(* An informer takes o in. *)
LEMMA SyncTyped ==
  ASSUME TypeOK, NEW o \in Objects, Sync(o)
  PROVE  TypeOK'
<1>1. cache' \in [Objects -> States] /\ \A p \in synced' : cache'[p] = live'[p]
  BY DEF TypeOK, Sync
<1>2. events' \subseteq Controllers \X Objects
  BY DEF TypeOK, Sync, Reconciled
<1> QED BY <1>1, <1>2, TypeMake DEF TypeOK, Sync

(* A handler runs. *)
LEMMA HandleTyped ==
  ASSUME TypeOK, NEW k \in Controllers, NEW o \in Objects, Handle(k, o)
  PROVE  TypeOK'
<1>1. Requests(k, o) \subseteq Reconciled
  BY RequestsTyped DEF TypeOK
<1>2. queue' \subseteq Reconciled
  BY <1>1 DEF TypeOK, Handle, Reconciled
<1> QED BY <1>2, TypeMake DEF TypeOK, Handle

(* A worker takes o. *)
LEMMA StartTyped ==
  ASSUME TypeOK, NEW o \in Objects, Start(o)
  PROVE  TypeOK'
<1>1. o \in Reconciled /\ cache[o] \in States
  BY DEF TypeOK, Start
<1>2. /\ DOMAIN busy' \subseteq DOMAIN busy \cup {o}
      /\ \A p \in DOMAIN busy' : busy'[p] \in Jobs
  BY <1>1 DEF TypeOK, Start, Begin, Jobs
<1> QED BY <1>1, <1>2, TypeMake DEF TypeOK, Start

(* A worker reads what o needs. *)
LEMMA LookTyped ==
  ASSUME TypeOK, NEW o \in Objects, Look(o)
  PROVE  TypeOK'
<1>1. Outcome(o, cache) \in Tags
  BY OutcomeAgrees DEF TypeOK
<1>2. DOMAIN busy' = DOMAIN busy /\ \A p \in DOMAIN busy : busy'[p] \in Jobs
  BY <1>1 DEF TypeOK, Look, Jobs
<1>3. Used(o, Outcome(o, cache)) \subseteq Objects
  BY NetFacts DEF TypeOK, Used, Connections
<1> QED BY <1>2, <1>3, TypeMake DEF TypeOK, Look

(* A worker is done with o. *)
LEMMA FinishTyped ==
  ASSUME TypeOK, NEW o \in Objects, Finish(o)
  PROVE  TypeOK'
<1>1. live' \in [Objects -> States]
  <2>1. ASSUME NEW s \in States, NEW t \in Tags PROVE [s EXCEPT !.tag = t] \in States
    BY DEF States
  <2>2. busy[o].found \in Tags
    BY DEF TypeOK, Finish, Jobs
  <2>3. [live[o] EXCEPT !.tag = busy[o].found] \in States
    BY <2>1, <2>2 DEF TypeOK
  <2> QED BY <2>3 DEF TypeOK, Finish, Store
<1>2. synced' \subseteq synced /\ \A p \in synced' : cache'[p] = live'[p]
  BY DEF TypeOK, Finish, Store
<1>3. DOMAIN busy' = DOMAIN busy \ {o} /\ \A p \in DOMAIN busy' : busy'[p] = busy[p]
  BY DEF Finish, Free
<1>4. queue' \subseteq Reconciled /\ armed' \subseteq Reconciled
  BY DEF TypeOK, Finish
<1> QED BY <1>1, <1>2, <1>3, <1>4, TypeMake DEF TypeOK, Finish

(* A timer fires. *)
LEMMA TimerTyped ==
  ASSUME TypeOK, NEW o \in Objects, Timer(o)
  PROVE  TypeOK'
<1>1. armed' \subseteq Reconciled /\ queue' \subseteq Reconciled
  BY DEF TypeOK, Timer
<1> QED BY <1>1, TypeMake DEF TypeOK, Timer

(* A drift check is due. *)
LEMMA DriftCheckTyped ==
  ASSUME TypeOK, NEW o \in Objects, DriftCheck(o)
  PROVE  TypeOK'
<1>1. changes' \in 0 .. MaxChanges /\ queue' \subseteq Reconciled
  BY BoundAssumption DEF TypeOK, DriftCheck
<1> QED BY <1>1, TypeMake DEF TypeOK, DriftCheck

----------------------------------------------------------------------------
(* Wake-ups *)

(* A resource that is on its way to its controller stays so as long as     *)
(* nothing is delivered, handled or taken.                                 *)
LEMMA StirredStays ==
  ASSUME net' = net, cache' = cache, synced' \subseteq synced, events \subseteq events',
         NEW o, o \in queue => o \in queue'
  PROVE  /\ OwnEvent(o) => OwnEvent(o)'
         /\ Stirred(o) => Stirred(o)'
<1>1. Sources(o)' = Sources(o) /\ Kind(o)' = Kind(o)
  BY SameCache
<1>2. OwnEvent(o) => OwnEvent(o)'
  BY <1>1 DEF OwnEvent
<1> QED BY <1>1, <1>2 DEF Stirred

(* What is unknown to its informer has an event coming. *)
LEMMA UnknownIsStirred ==
  ASSUME TypeOK, NEW o \in Objects, live[o].exists, ~cache[o].exists
  PROVE  o \notin synced
  BY DEF TypeOK

(* A resource that is up to date stays so as long as nothing that this     *)
(* speaks of changes.                                                      *)
LEMMA UpToDateStays ==
  ASSUME net' = net, cache' = cache, NEW o,
         o \in DOMAIN busy' <=> o \in DOMAIN busy,
         o \in DOMAIN busy => busy'[o].found = busy[o].found,
         o \notin DOMAIN busy => live'[o] = live[o],
         UpToDate(o)
  PROVE  UpToDate(o)'
<1>1. Sees(o, cache)' <=> Sees(o, cache)
  BY SameCache
<1>2. CASE o \in DOMAIN busy
  BY <1>1, <1>2 DEF UpToDate, Agrees
<1>3. CASE o \notin DOMAIN busy
  BY <1>1, <1>3 DEF UpToDate, Agrees
<1> QED BY <1>2, <1>3

(* A resource that is due stays so as long as nothing is delivered,        *)
(* handled, taken or done.                                                 *)
LEMMA DueStays ==
  ASSUME net' = net, cache' = cache, synced' \subseteq synced, events \subseteq events',
         NEW o, o \in queue => o \in queue',
         o \in DOMAIN busy => o \in DOMAIN busy', o \in armed => o \in armed'
  PROVE  Due(o) => Due(o)'
  BY StirredStays DEF Due

(* A user's change leads to the key of whatever depends on it. *)
LEMMA ChangeAwake ==
  ASSUME IndInv, NEW o \in Objects, Change(o)
  PROVE  JobsInv' /\ Awake' /\ Retried'
<1>1. /\ net' = net /\ cache' = cache /\ events' = events /\ queue' = queue /\ armed' = armed
      /\ synced' = synced \ {o} /\ DOMAIN busy' = DOMAIN busy
      /\ \A p \in DOMAIN busy : busy'[p].found = busy[p].found /\ busy'[p].copy = busy[p].copy
      /\ \A p \in DOMAIN busy : IF p = o THEN ~busy'[p].current ELSE busy'[p].current = busy[p].current
      /\ \A p \in Objects \ {o} : live'[p] = live[p]
  BY DEF IndInv, TypeOK, Change, Store, Outdated, Jobs
<1>2. \A p : (OwnEvent(p) => OwnEvent(p)') /\ (Stirred(p) => Stirred(p)')
  BY <1>1, StirredStays
<1>3. OwnEvent(o)'
  BY <1>1 DEF OwnEvent
<1>4. JobsInv'
  <2>1. SUFFICES ASSUME NEW p \in DOMAIN busy
                 PROVE  IF busy'[p].current THEN busy'[p].copy = live'[p] ELSE OwnEvent(p)'
    BY <1>1 DEF JobsInv
  <2>2. p \in Objects
    BY DEF IndInv, TypeOK, Reconciled
  <2> QED BY <1>1, <1>2, <1>3, <2>2 DEF IndInv, JobsInv
<1>5. Awake'
  <2>1. SUFFICES ASSUME NEW p \in Reconciled, live'[p].exists
                 PROVE  Stirred(p)' \/ UpToDate(p)'
    BY <1>1, SameCache DEF Awake
  <2>2. CASE p = o
    BY <1>3, <2>2 DEF Stirred
  <2>3. CASE p # o
    <3>1. live'[p] = live[p]
      BY <1>1, <2>3 DEF Reconciled
    <3>2. Stirred(p) \/ UpToDate(p)
      BY <2>1, <3>1 DEF IndInv, Awake
    <3>3. UpToDate(p) => UpToDate(p)'
      BY <1>1, <3>1, UpToDateStays
    <3> QED BY <1>2, <3>2, <3>3
  <2> QED BY <2>2, <2>3
<1>6. Retried'
  <2>1. SUFFICES ASSUME NEW p \in Reconciled, live'[p].exists, Retries(p, live[p].tag)'
                 PROVE  Due(p)'
    BY <1>1, SameCache DEF Retried
  <2>2. CASE p = o
    BY <1>3, <2>2 DEF Due
  <2>3. CASE p # o
    <3>1. live'[p] = live[p]
      BY <1>1, <2>3 DEF Reconciled
    <3>2. Due(p)
      BY <1>1, <2>1, <3>1, SameCache DEF IndInv, Retried, Retries
    <3> QED BY <1>1, <3>2, DueStays
  <2> QED BY <2>2, <2>3
<1> QED BY <1>4, <1>5, <1>6

(* A delivery puts an event for everything that depends on o in the place  *)
(* of its being out of date; what does not depend on o finds what it found.*)
LEMMA SyncAwake ==
  ASSUME IndInv, NEW o \in Objects, Sync(o)
  PROVE  JobsInv' /\ Awake' /\ Retried'
<1>1. /\ net' = net /\ live' = live /\ queue' = queue /\ busy' = busy
      /\ armed' = armed
      /\ synced' = synced \cup {o} /\ events \subseteq events'
      /\ \A p \in Objects \ {o} : cache'[p] = cache[p]
      /\ net \in Nets
  BY DEF IndInv, TypeOK, Sync
<1>2. \A p \in Reconciled :
         Kind(p) = Kind(o) \/ Kind(o) \in Watches[Kind(p)] => <<Kind(p), o>> \in events'
  BY DEF Sync
<1>3. Objects' = Objects /\ Reconciled' = Reconciled /\ \A p : Kind(p)' = Kind(p)
  BY <1>1 DEF Objects, Reconciled, Kind
<1>4. ASSUME NEW p \in Reconciled, OwnEvent(p) PROVE OwnEvent(p)'
  <2>1. p = o => <<Kind(p), p>> \in events'
    BY <1>2
  <2> QED BY <1>1, <1>3, <1>4, <2>1 DEF OwnEvent
<1>5. JobsInv'
  BY <1>1, <1>4 DEF IndInv, TypeOK, JobsInv
<1>6. Awake'
  <2>1. SUFFICES ASSUME NEW p \in Reconciled, live[p].exists
                 PROVE  Stirred(p)' \/ UpToDate(p)'
    BY <1>1, <1>3 DEF Awake
  <2>2. Stirred(p) \/ UpToDate(p)
    BY <2>1 DEF IndInv, Awake
  <2>3. CASE net.into[o] = p
    <3>1. o \in Sources(p) /\ o \in Sources(p)'
      BY <1>1, <1>3, <2>3 DEF Sources
    <3>2. <<Kind(p), o>> \in events'
      BY <1>1, <1>2, <3>1, SourcesWatched
    <3> QED BY <1>3, <3>1, <3>2 DEF Stirred
  <2>4. CASE net.into[o] # p
    <3>1. Memberships(p, cache)' = Memberships(p, cache)
      BY <1>1, <1>3, <2>4 DEF Memberships
    <3>2. Sources(p)' = Sources(p) /\ Needs(p, cache)' = Needs(p, cache)
      BY <1>1, <1>3, <3>1 DEF Sources, Needs
    <3>3. CASE o \in Sources(p)
      <4>1. <<Kind(p), o>> \in events'
        BY <1>1, <1>2, <3>3, SourcesWatched
      <4> QED BY <1>3, <3>2, <3>3, <4>1 DEF Stirred
    <3>4. CASE o \notin Sources(p)
      <4>1. Stirred(p) => Stirred(p)'
        BY <1>1, <1>3, <1>4, <3>2, <3>4 DEF Stirred
      <4>2. \A d \in Needs(p, cache) : cache'[d] = cache[d]
        BY <1>1, <3>4, SourcesWatched DEF Sources
      <4>3. Sees(p, cache)' <=> Sees(p, cache)
        BY <3>2, <4>2 DEF Sees
      <4>4. UpToDate(p) => UpToDate(p)'
        BY <1>1, <4>3 DEF UpToDate, Agrees
      <4> QED BY <2>2, <4>1, <4>4
    <3> QED BY <3>3, <3>4
  <2> QED BY <2>3, <2>4
<1>7. Retried'
  <2>1. \A p \in Reconciled : Due(p) => Due(p)'
    BY <1>1, <1>4 DEF Due
  <2> QED BY <1>1, <1>3, <2>1 DEF IndInv, Retried, Retries
<1> QED BY <1>5, <1>6, <1>7

(* A handler queues the keys of everything that its event stood for. *)
LEMMA HandleAwake ==
  ASSUME IndInv, NEW k \in Controllers, NEW o \in Objects, Handle(k, o)
  PROVE  JobsInv' /\ Awake' /\ Retried'
<1>1. /\ net' = net /\ live' = live /\ cache' = cache /\ synced' = synced /\ busy' = busy
      /\ armed' = armed
      /\ events' = events \ {<<k, o>>} /\ queue \subseteq queue' /\ net \in Nets
      /\ k = Kind(o) => o \in queue'
      /\ Kind(o) \in Watches[k] => Requests(k, o) \subseteq queue'
  BY DEF IndInv, TypeOK, Handle
<1>2. /\ Objects' = Objects /\ Reconciled' = Reconciled
      /\ \A p : Kind(p)' = Kind(p) /\ Sources(p)' = Sources(p)
  BY <1>1, SameCache
<1>3. ASSUME NEW p \in Reconciled, OwnEvent(p) PROVE OwnEvent(p)'
  BY <1>1, <1>2, <1>3 DEF OwnEvent
<1>4. JobsInv'
  BY <1>1, <1>3 DEF IndInv, TypeOK, JobsInv
<1>5. Awake'
  <2>1. SUFFICES ASSUME NEW p \in Reconciled, live[p].exists
                 PROVE  Stirred(p)' \/ UpToDate(p)'
    BY <1>1, <1>2 DEF Awake
  <2>2. Stirred(p) \/ UpToDate(p)
    BY <2>1 DEF IndInv, Awake
  <2>3. UpToDate(p) => UpToDate(p)'
    BY <1>1, UpToDateStays
  <2>4. OwnEvent(p) => Stirred(p)'
    BY <1>3 DEF Stirred
  <2>5. ASSUME NEW d \in Sources(p), d \notin synced \/ <<Kind(p), d>> \in events
        PROVE  Stirred(p)'
    <3>1. CASE d \notin synced \/ <<Kind(p), d>> # <<k, o>>
      BY <1>1, <1>2, <2>5, <3>1 DEF Stirred
    <3>2. CASE <<Kind(p), d>> = <<k, o>>
      <4>1. Kind(p) = k /\ d = o /\ Kind(o) \in Watches[k]
        BY <1>1, <3>2, SourcesWatched
      <4>2. CASE cache[p].exists
        <5>1. p \in Requests(Kind(p), d)
          BY <1>1, <4>2, RequestsFindDependents
        <5> QED BY <1>1, <4>1, <5>1 DEF Stirred, OwnEvent
      <4>3. CASE ~cache[p].exists
        <5>1. p \notin synced
          BY <2>1, <4>3, UnknownIsStirred DEF IndInv, Reconciled
        <5> QED BY <1>1, <5>1 DEF Stirred, OwnEvent
      <4> QED BY <4>2, <4>3
    <3> QED BY <3>1, <3>2
  <2> QED BY <2>2, <2>3, <2>4, <2>5 DEF Stirred
<1>6. Retried'
  <2>1. \A p \in Reconciled : Due(p) => Due(p)'
    BY <1>1, <1>3 DEF Due
  <2> QED BY <1>1, <1>2, <2>1 DEF IndInv, Retried, Retries
<1> QED BY <1>4, <1>5, <1>6

(* A worker that takes a key is about to look at the resource; one that    *)
(* its informer does not know has an event of its own coming.              *)
LEMMA StartAwake ==
  ASSUME IndInv, NEW o \in Objects, Start(o)
  PROVE  JobsInv' /\ Awake' /\ Retried'
<1>1. /\ net' = net /\ live' = live /\ cache' = cache /\ synced' = synced /\ events' = events
      /\ armed' = armed /\ queue' = queue \ {o} /\ o \in Reconciled /\ o \notin DOMAIN busy
      /\ \A p \in Objects \ {o} : p \in DOMAIN busy' <=> p \in DOMAIN busy
      /\ \A p \in DOMAIN busy : busy'[p] = busy[p]
  BY DEF IndInv, TypeOK, Start, Begin
<1>2. cache[o].exists =>
        /\ o \in DOMAIN busy'
        /\ busy'[o] = [copy |-> cache[o], current |-> o \in synced, found |-> "unread"]
  BY DEF Start, Begin
<1>3. ~cache[o].exists => o \notin DOMAIN busy'
  BY <1>1 DEF Start, Begin
<1>4. /\ Objects' = Objects /\ Reconciled' = Reconciled
      /\ \A p : Kind(p)' = Kind(p) /\ Sources(p)' = Sources(p)
  BY <1>1, SameCache
<1>5. \A p : p # o => (OwnEvent(p) => OwnEvent(p)') /\ (Stirred(p) => Stirred(p)')
  BY <1>1, StirredStays
<1>6. JobsInv'
  <2>1. SUFFICES ASSUME NEW p \in DOMAIN busy'
                 PROVE  IF busy'[p].current THEN busy'[p].copy = live'[p] ELSE OwnEvent(p)'
    BY DEF JobsInv
  <2>2. CASE p = o
    <3>1. /\ busy'[o].copy = cache[o] /\ busy'[o].current = (o \in synced)
      BY <1>2, <1>3, <2>1, <2>2
    <3>2. o \in synced => cache[o] = live[o]
      BY DEF IndInv, TypeOK
    <3> QED BY <1>1, <2>2, <3>1, <3>2 DEF OwnEvent
  <2>3. CASE p # o
    <3>1. p \in DOMAIN busy /\ busy'[p] = busy[p]
      BY <1>1, <2>1, <2>3 DEF Start, Begin
    <3> QED BY <1>1, <1>5, <2>3, <3>1 DEF IndInv, JobsInv
  <2> QED BY <2>2, <2>3
<1>7. Awake'
  <2>1. SUFFICES ASSUME NEW p \in Reconciled, live[p].exists
                 PROVE  Stirred(p)' \/ UpToDate(p)'
    BY <1>1, <1>4 DEF Awake
  <2>2. CASE p = o /\ cache[o].exists
    BY <1>2, <2>2 DEF UpToDate
  <2>3. CASE p = o /\ ~cache[o].exists
    <3>1. o \notin synced
      BY <2>1, <2>3, UnknownIsStirred DEF IndInv
    <3> QED BY <1>1, <2>3, <3>1 DEF Stirred, OwnEvent
  <2>4. CASE p # o
    <3>1. Stirred(p) \/ UpToDate(p)
      BY <2>1 DEF IndInv, Awake
    <3>2. UpToDate(p) => UpToDate(p)'
      BY <1>1, <2>4, UpToDateStays DEF Reconciled
    <3> QED BY <1>5, <2>4, <3>1, <3>2
  <2> QED BY <2>2, <2>3, <2>4
<1>8. Retried'
  <2>1. SUFFICES ASSUME NEW p \in Reconciled, live[p].exists, Retries(p, live[p].tag)
                 PROVE  Due(p)'
    BY <1>1, <1>4 DEF Retried, Retries
  <2>2. CASE p = o /\ cache[o].exists
    BY <1>2, <2>2 DEF Due
  <2>3. CASE p = o /\ ~cache[o].exists
    <3>1. o \notin synced
      BY <2>1, <2>3, UnknownIsStirred DEF IndInv
    <3> QED BY <1>1, <2>3, <3>1 DEF Due, OwnEvent
  <2>4. CASE p # o
    <3>1. Due(p)
      BY <2>1 DEF IndInv, Retried
    <3> QED BY <1>1, <1>5, <2>4, <3>1 DEF Due, Reconciled
  <2> QED BY <2>2, <2>3, <2>4
<1> QED BY <1>6, <1>7, <1>8

(* What a worker finds is what the caches say at that moment. *)
LEMMA LookAwake ==
  ASSUME IndInv, NEW o \in Objects, Look(o)
  PROVE  JobsInv' /\ Awake' /\ Retried'
<1>1. /\ net' = net /\ live' = live /\ cache' = cache /\ synced' = synced /\ events' = events
      /\ queue' = queue /\ armed' = armed /\ o \in DOMAIN busy /\ DOMAIN busy' = DOMAIN busy
      /\ \A p \in DOMAIN busy \ {o} : busy'[p] = busy[p]
      /\ busy'[o].copy = busy[o].copy /\ busy'[o].current = busy[o].current
      /\ busy'[o].found = Outcome(o, cache)
  BY DEF IndInv, TypeOK, Look, Jobs
<1>2. \A p : (OwnEvent(p) => OwnEvent(p)') /\ (Stirred(p) => Stirred(p)')
  BY <1>1, StirredStays
<1>3. JobsInv'
  BY <1>1, <1>2 DEF IndInv, JobsInv
<1>4. Awake'
  <2>1. SUFFICES ASSUME NEW p \in Reconciled, live[p].exists
                 PROVE  Stirred(p)' \/ UpToDate(p)'
    BY <1>1, SameCache DEF Awake
  <2>2. CASE p = o
    <3>1. Sees(o, cache)' <=> Sees(o, cache)
      BY <1>1, SameCache
    <3>2. Agrees(o, busy'[o].found, cache)
      BY <1>1, OutcomeAgrees DEF IndInv, TypeOK
    <3> QED BY <1>1, <2>2, <3>1, <3>2 DEF UpToDate, Agrees
  <2>3. CASE p # o
    <3>1. Stirred(p) \/ UpToDate(p)
      BY <2>1 DEF IndInv, Awake
    <3>2. UpToDate(p) => UpToDate(p)'
      BY <1>1, <2>3, UpToDateStays
    <3> QED BY <1>2, <3>1, <3>2
  <2> QED BY <2>2, <2>3
<1>5. Retried'
  BY <1>1, SameCache, DueStays DEF IndInv, Retried, Retries
<1> QED BY <1>3, <1>4, <1>5

(* A worker that leaves Ready alone read a copy that still is the stored   *)
(* resource, or a newer version leads to the key; a write is an event, and *)
(* one that is refused a retry.                                            *)
LEMMA FinishAwake ==
  ASSUME IndInv, NEW o \in Objects, Finish(o)
  PROVE  JobsInv' /\ Awake' /\ Retried'
<1>1. /\ net' = net /\ cache' = cache /\ events' = events /\ o \in DOMAIN busy
      /\ busy[o].found # "unread"
      /\ DOMAIN busy' = DOMAIN busy \ {o} /\ \A p \in DOMAIN busy' : busy'[p] = busy[p]
      /\ synced' \subseteq synced /\ queue \subseteq queue' /\ armed \subseteq armed'
      /\ \A p \in Objects \ {o} : live'[p] = live[p]
  BY DEF IndInv, TypeOK, Finish, Store, Free
<1>2. \A p : (OwnEvent(p) => OwnEvent(p)') /\ (Stirred(p) => Stirred(p)')
  BY <1>1, StirredStays
<1>3. JobsInv'
  <2>1. SUFFICES ASSUME NEW p \in DOMAIN busy'
                 PROVE  IF busy'[p].current THEN busy'[p].copy = live'[p] ELSE OwnEvent(p)'
    BY DEF JobsInv
  <2>2. p \in DOMAIN busy /\ p \in Objects \ {o}
    BY <1>1 DEF IndInv, TypeOK, Reconciled
  <2> QED BY <1>1, <1>2, <2>2 DEF IndInv, JobsInv
<1>4. Awake'
  <2>1. SUFFICES ASSUME NEW p \in Reconciled, live'[p].exists
                 PROVE  Stirred(p)' \/ UpToDate(p)'
    BY <1>1, SameCache DEF Awake
  <2>2. CASE p # o
    <3>1. live'[p] = live[p]
      BY <1>1, <2>2 DEF Reconciled
    <3>2. Stirred(p) \/ UpToDate(p)
      BY <2>1, <3>1 DEF IndInv, Awake
    <3>3. UpToDate(p) => UpToDate(p)'
      BY <1>1, <2>2, <3>1, UpToDateStays
    <3> QED BY <1>2, <3>2, <3>3
  <2>3. CASE p = o /\ (o \notin synced' \/ o \in queue')
    BY <2>3 DEF Stirred, OwnEvent
  <2>4. CASE /\ p = o
             /\ busy[o].found = busy[o].copy.tag
             /\ UNCHANGED <<live, synced, queue>>
    <3>1. Stirred(o) \/ UpToDate(o)
      BY <2>1, <2>4 DEF IndInv, Awake
    <3>2. CASE Stirred(o)
      BY <1>2, <2>4, <3>2
    <3>3. CASE UpToDate(o) /\ ~busy[o].current
      BY <1>1, <1>2, <2>4, <3>3 DEF IndInv, JobsInv, Stirred
    <3>4. CASE UpToDate(o) /\ busy[o].current
      <4>1. Agrees(o, busy[o].found, cache)
        BY <1>1, <3>4 DEF UpToDate
      <4>2. busy[o].copy = live[o]
        BY <1>1, <3>4 DEF IndInv, JobsInv
      <4>3. Agrees(o, live'[o].tag, cache)
        BY <2>4, <4>1, <4>2
      <4>4. Sees(o, cache)' <=> Sees(o, cache)
        BY <1>1, SameCache
      <4> QED BY <1>1, <2>4, <4>3, <4>4 DEF UpToDate, Agrees
    <3> QED BY <3>1, <3>2, <3>3, <3>4
  <2> QED BY <2>2, <2>3, <2>4 DEF Finish, Store
<1>5. Retried'
  <2>1. SUFFICES ASSUME NEW p \in Reconciled, live'[p].exists, Retries(p, live[p].tag)'
                 PROVE  Due(p)'
    BY <1>1, SameCache DEF Retried
  <2>2. CASE p # o
    <3>1. live'[p] = live[p]
      BY <1>1, <2>2 DEF Reconciled
    <3>2. Due(p)
      BY <1>1, <2>1, <3>1, SameCache DEF IndInv, Retried, Retries
    <3> QED BY <1>1, <2>2, <3>2, DueStays
  <2>3. CASE p = o /\ (o \notin synced' \/ o \in queue')
    BY <2>3 DEF Due, OwnEvent
  <2>4. CASE /\ p = o
             /\ busy[o].found = busy[o].copy.tag
             /\ armed' = armed \cup {x \in {o} : Retries(o, busy[o].found)}
             /\ UNCHANGED <<live, synced, queue>>
    <3>1. CASE ~busy[o].current
      BY <1>1, <1>2, <2>4, <3>1 DEF IndInv, JobsInv, Due
    <3>2. CASE busy[o].current
      <4>1. busy[o].found = live'[o].tag
        BY <1>1, <2>4, <3>2 DEF IndInv, JobsInv
      <4>2. Retries(o, busy[o].found)
        BY <1>1, <2>1, <2>4, <4>1, SameCache DEF Retries
      <4> QED BY <2>4, <4>2 DEF Due
    <3> QED BY <3>1, <3>2
  <2> QED BY <2>2, <2>3, <2>4 DEF Finish, Store
<1> QED BY <1>3, <1>4, <1>5

(* A timer puts the key into the queue in its own place. *)
LEMMA TimerAwake ==
  ASSUME IndInv, NEW o \in Objects, Timer(o)
  PROVE  JobsInv' /\ Awake' /\ Retried'
<1>1. /\ net' = net /\ live' = live /\ cache' = cache /\ synced' = synced /\ events' = events
      /\ queue' = queue \cup {o} /\ busy' = busy /\ armed' = armed \ {o}
  BY DEF Timer
<1>2. \A p : (OwnEvent(p) => OwnEvent(p)') /\ (Stirred(p) => Stirred(p)')
  BY <1>1, StirredStays
<1>3. \A p : UpToDate(p) => UpToDate(p)'
  BY <1>1, UpToDateStays
<1>4. JobsInv' /\ Awake'
  BY <1>1, <1>2, <1>3, SameCache DEF IndInv, JobsInv, Awake
<1>5. \A p : Due(p) => Due(p)'
  <2>1. Due(o)'
    BY <1>1 DEF Due, OwnEvent
  <2> QED BY <1>1, <1>2, <2>1 DEF Due
<1>6. Retried'
  BY <1>1, <1>5, SameCache DEF IndInv, Retried, Retries
<1> QED BY <1>4, <1>6

(* A drift check and an expired token only add a key, or nothing. *)
LEMMA MoreKeysAwake ==
  ASSUME IndInv, net' = net, live' = live, cache' = cache, synced' = synced,
         events' = events, queue \subseteq queue', busy' = busy, armed' = armed
  PROVE  JobsInv' /\ Awake' /\ Retried'
<1>2. \A p : (OwnEvent(p) => OwnEvent(p)') /\ (Stirred(p) => Stirred(p)')
  BY StirredStays
<1>3. \A p : UpToDate(p) => UpToDate(p)'
  BY UpToDateStays
<1>4. JobsInv' /\ Awake'
  BY <1>2, <1>3, SameCache DEF IndInv, JobsInv, Awake
<1>5. \A p : Due(p) => Due(p)'
  BY DueStays
<1>6. Retried'
  BY <1>5, SameCache DEF IndInv, Retried, Retries
<1> QED BY <1>4, <1>6

----------------------------------------------------------------------------
(* Theorems *)

(* Every step keeps the invariant. *)
LEMMA NextOK ==
  ASSUME IndInv, [Next]_vars
  PROVE  IndInv'
<1>1. ASSUME NEW o \in Objects, Change(o) PROVE IndInv'
  BY <1>1, ChangeTyped, ChangeAwake DEF IndInv
<1>2. ASSUME NEW o \in Objects, Expire(o) PROVE IndInv'
  BY <1>2, ExpireTyped, MoreKeysAwake DEF IndInv, Expire
<1>3. ASSUME NEW o \in Objects, Sync(o) PROVE IndInv'
  BY <1>3, SyncTyped, SyncAwake DEF IndInv
<1>4. ASSUME NEW o \in Objects, Notify(o) PROVE IndInv'
  <2>1. PICK e \in events : e[2] = o /\ Handle(e[1], o)
    BY <1>4 DEF Notify
  <2>2. e[1] \in Controllers
    BY DEF IndInv, TypeOK
  <2> QED BY <2>1, <2>2, HandleTyped, HandleAwake DEF IndInv
<1>5. ASSUME NEW o \in Objects, Start(o) PROVE IndInv'
  BY <1>5, StartTyped, StartAwake DEF IndInv
<1>6. ASSUME NEW o \in Objects, Look(o) PROVE IndInv'
  BY <1>6, LookTyped, LookAwake DEF IndInv
<1>7. ASSUME NEW o \in Objects, Finish(o) PROVE IndInv'
  BY <1>7, FinishTyped, FinishAwake DEF IndInv
<1>8. ASSUME NEW o \in Objects, Timer(o) PROVE IndInv'
  BY <1>8, TimerTyped, TimerAwake DEF IndInv
<1>9. ASSUME NEW o \in Objects, DriftCheck(o) PROVE IndInv'
  BY <1>9, DriftCheckTyped, MoreKeysAwake DEF IndInv, DriftCheck
<1>10. ASSUME UNCHANGED vars PROVE IndInv'
  <2>1. /\ net' = net /\ live' = live /\ cache' = cache /\ synced' = synced
        /\ events' = events /\ queue' = queue /\ busy' = busy
        /\ armed' = armed /\ tokens' = tokens /\ changes' = changes
    BY <1>10 DEF vars
  <2>2. TypeOK'
    BY <2>1, TypeMake DEF IndInv, TypeOK
  <2> QED BY <2>1, <2>2, MoreKeysAwake DEF IndInv
<1> QED BY <1>1, <1>2, <1>3, <1>4, <1>5, <1>6, <1>7, <1>8, <1>9, <1>10 DEF Next

(* SetupWithManager, the map functions and the results of Reconcile, for   *)
(* every net: whatever informers, handlers, workers and users do in        *)
(* whatever order, a resource whose status does not agree with the         *)
(* resources that it needs has its key queued or an event under way that   *)
(* leads to it, and one that is not Ready, and every connection, is queued *)
(* again some time without that.                                           *)
THEOREM Invariance == Spec => []IndInv
<1>1. Init => IndInv
  BY InitOK
<1>2. IndInv /\ [Next]_vars => IndInv'
  BY NextOK
<1> QED BY <1>1, <1>2, PTL DEF Spec

(* What remains to be noticed when nothing is under way any more, for      *)
(* every net.  Status agrees with the resources that were needed, by the   *)
(* watches alone: what they report wrongly then can only be the Secrets    *)
(* behind a connection.  A resource whose status they make wrong is itself *)
(* to be retried after dependencyRetry or, when it is Ready, its           *)
(* connection is to be checked again, which is still Ready by the token of *)
(* an earlier login and cannot log in any more.                            *)
THEOREM NoLostWakeup ==
  Spec => [](Quiet => \A o \in Reconciled :
                         live[o].exists => Agrees(o, live[o].tag, live) /\ Noticed(o))
<1>1. ASSUME IndInv, Quiet, NEW o \in Reconciled, live[o].exists
      PROVE  Agrees(o, live[o].tag, live) /\ (Retries(o, live[o].tag) => o \in armed)
  <2>1. cache = live
    BY <1>1 DEF IndInv, TypeOK, Quiet
  <2>2. o \in Objects /\ \A d \in Sources(o) : d \in Objects
    BY <1>1, SourcesWatched DEF IndInv, TypeOK, Reconciled
  <2>3. ~Stirred(o) /\ ~OwnEvent(o)
    BY <1>1, <2>2 DEF Stirred, OwnEvent, Quiet
  <2>4. UpToDate(o) /\ (Retries(o, live[o].tag) => Due(o))
    BY <1>1, <2>3 DEF IndInv, Awake, Retried
  <2>5. Agrees(o, live[o].tag, live)
    BY <1>1, <2>1, <2>4 DEF UpToDate, Quiet
  <2> QED BY <1>1, <2>3, <2>4, <2>5 DEF Due, Quiet
<1>2. ASSUME IndInv, Quiet, NEW o \in Reconciled, live[o].exists
      PROVE  Noticed(o)
  <2>1. net \in Nets /\ o \in Objects
    BY <1>2 DEF IndInv, TypeOK, Reconciled
  <2>2. CASE Retries(o, live[o].tag)
    BY <1>1, <1>2, <2>2 DEF Noticed
  <2>3. CASE ~Retries(o, live[o].tag)
    <3>1. live[o].tag = "Ready" /\ Kind(o) # "connection"
      BY <2>3 DEF Retries
    <3>2. Sees(o, live)
      BY <1>1, <1>2, <2>1, <3>1, NetFacts DEF Agrees
    <3>3. net.refs[o] \subseteq Needs(o, live)
      BY DEF Needs
    <3>4. \A d \in Named(o) : Up(live[d])
      BY <3>2, <3>3 DEF Sees, Named
    <3>5. CASE \A c \in Connections(o) : Usable(c, live)
      BY <3>1, <3>2, <3>4, <3>5 DEF Noticed, Outcome
    <3>6. ASSUME NEW c \in Connections(o), ~Usable(c, live)
          PROVE  Noticed(o)
      <4>1. c \in net.refs[o] /\ Kind(c) = "connection"
        BY DEF Connections
      <4>2. c \in Reconciled
        BY <2>1, <4>1, NetFacts, WatchesComplete DEF Reconciled
      <4>3. live[c].exists /\ live[c].tag = "Ready"
        BY <3>2, <3>3, <4>1 DEF Sees, Up
      <4>4. c \in armed /\ Agrees(c, "Ready", live)
        BY <1>1, <1>2, <4>1, <4>2, <4>3 DEF Retries
      <4>5. ~Sees(c, live)
        BY <3>6 DEF Usable, Sees, Needs
      <4>6. net.lazy[c] # {}
        BY <4>4, <4>5 DEF Agrees
      <4> QED BY <3>6, <4>4, <4>6 DEF Noticed
    <3> QED BY <3>5, <3>6
  <2> QED BY <2>2, <2>3
<1>3. IndInv => (Quiet => \A o \in Reconciled :
                    live[o].exists => Agrees(o, live[o].tag, live) /\ Noticed(o))
  BY <1>1, <1>2
<1> QED BY <1>3, Invariance, PTL

=============================================================================
