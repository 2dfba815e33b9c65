---------------------- MODULE ConnectionClientsProofs ----------------------
(***************************************************************************)
(* Proofs about ConnectionClients, for every number of workers, all        *)
(* settings and bundles and every bound: CacheInv is an invariant, and a   *)
(* connection becomes Ready only when its present settings were verified.  *)
(***************************************************************************)
EXTENDS ConnectionClients, TLAPS

USE DEF serverVars, worldVars, workVars

----------------------------------------------------------------------------
(* Types *)

(* What a worker holds. *)
WorkTypes ==
  /\ current \in BOOLEAN
  /\ pc \in [Callers -> Steps]
  /\ read \in [Callers -> Connections \cup {None}]
  /\ pem \in [Callers -> Bundles \cup {NoBundle}]
  /\ client \in [Callers -> Clients \cup {None}]
  /\ checked \in Clients \cup {None}

(* What the API server, the informer and the Secrets hold. *)
WorldTypes ==
  /\ conn \in Connections /\ connCache \in Connections
  /\ synced \in BOOLEAN /\ queued \in BOOLEAN
  /\ bundle \in Bundles \cup {NoBundle} /\ hasToken \in BOOLEAN /\ up \in BOOLEAN
  /\ edits \in 0 .. EditBudget /\ faults \in 0 .. FaultBudget

(* TypeOK by parts. *)
LEMMA TypeParts == TypeOK <=> WorkTypes /\ WorldTypes /\ entry \in Entries
  BY DEF TypeOK, WorkTypes, WorldTypes

(* The fields of a connection. *)
LEMMA ConnectionFields ==
  ASSUME NEW c \in Connections
  PROVE  /\ c.gen \in Generations /\ c.settings \in Settings /\ c.tag \in Tags
         /\ c.observed \in 0 .. EditBudget + 1 /\ c.settings \in SettingsType
         /\ c.settings.bundled \in BOOLEAN /\ c.settings.dynamic \in BOOLEAN
         /\ c.settings.valid \in BOOLEAN /\ c.settings.root \in BOOLEAN
<1>1. /\ c.gen \in Generations /\ c.settings \in Settings /\ c.tag \in Tags
      /\ c.observed \in 0 .. EditBudget + 1
  BY DEF Connections
<1>2. c.settings \in SettingsType
  BY <1>1, SettingsAssumption
<1> QED BY <1>1, <1>2 DEF SettingsType

(* What a worker that has read the connection asks for is a client. *)
LEMMA AskedTyped ==
  ASSUME WorkTypes, NEW w \in Callers, read[w] # None
  PROVE  read[w] \in Connections /\ Asked(w) \in Clients /\ Asked(w) # None
<1>1. read[w] \in Connections /\ pem[w] \in Bundles \cup {NoBundle}
  BY DEF WorkTypes
<1>2. Asked(w) \in Clients
  BY <1>1, ConnectionFields DEF Asked, Clients
<1> QED BY <1>1, <1>2, NoneAssumption

(* Edits and faults stay within their budgets. *)
LEMMA BudgetTyped ==
  ASSUME WorldTypes, Edit \/ Fault \/ UNCHANGED <<edits, faults>>
  PROVE  edits' \in 0 .. EditBudget /\ faults' \in 0 .. FaultBudget /\ edits' <= edits
  BY BudgetAssumption DEF WorldTypes, Edit, Fault

----------------------------------------------------------------------------
(* One worker *)

(* What the invariant says about the worker w, given what it holds. *)
WorkerOK(w) ==
  /\ client[w] # None => client[w] = Asked(w)
  /\ pc[w] # "idle" => read[w] # None
  /\ pc[w] \in {"idle", "bundle", "client"} => client[w] = None
  /\ pc[w] \in {"use", "health", "lookup", "Ready"} => client[w] # None

(* The invariant about the workers is the one about each of them. *)
LEMMA ByWorker ==
  ClientMatchesRead /\ ProgressInv
  <=> /\ \A w \in Callers : WorkerOK(w)
      /\ pc[Reconciler] = "Ready" => checked = client[Reconciler]
  BY DEF ClientMatchesRead, ProgressInv, WorkerOK

(* The connection's reconciler is one of the workers. *)
LEMMA ReconcilerCalls == Reconciler \in Callers
  BY DEF Callers

(* The parts of the invariant that a step of a worker may touch. *)
WorkInv ==
  /\ WorkTypes /\ \A w \in Callers : WorkerOK(w)
  /\ pc[Reconciler] = "Ready" => checked = client[Reconciler]

(* The invariant by parts. *)
LEMMA InvParts == CacheInv <=> /\ WorkInv /\ WorldTypes /\ entry \in Entries /\ VersionsInv
  BY TypeParts, ByWorker DEF CacheInv, WorkInv

(* The parts make up the invariant after a step, too. *)
LEMMA PartsMake ==
  ASSUME WorkInv', WorldTypes', entry' \in Entries, VersionsInv'
  PROVE  CacheInv'
<1>1. TypeOK'
  BY DEF WorkInv, WorkTypes, WorldTypes, TypeOK
<1>2. ClientMatchesRead' /\ ProgressInv'
  BY DEF WorkInv, WorkerOK, ClientMatchesRead, ProgressInv
<1> QED BY <1>1, <1>2 DEF CacheInv

(* The others keep what they hold when w takes a step. *)
LEMMA OthersKeep ==
  ASSUME WorkInv, NEW w \in Callers, NEW p \in Steps, NEW r \in Connections \cup {None},
         NEW b \in Bundles \cup {NoBundle}, NEW c \in Clients \cup {None},
         pc' = [pc EXCEPT ![w] = p], read' = [read EXCEPT ![w] = r],
         pem' = [pem EXCEPT ![w] = b], client' = [client EXCEPT ![w] = c],
         checked' \in Clients \cup {None}, current' \in BOOLEAN,
         WorkerOK(w)', w # Reconciler => checked' = checked,
         w = Reconciler /\ p = "Ready" => checked' = c
  PROVE  /\ WorkInv'
         /\ w # Reconciler => read'[Reconciler] = read[Reconciler]
<1>1. WorkTypes'
  BY DEF WorkInv, WorkTypes
<1>2. ASSUME NEW v \in Callers, v # w
      PROVE  /\ pc'[v] = pc[v] /\ read'[v] = read[v] /\ pem'[v] = pem[v] /\ client'[v] = client[v]
             /\ WorkerOK(v)'
  <2>1. pc'[v] = pc[v] /\ read'[v] = read[v] /\ pem'[v] = pem[v] /\ client'[v] = client[v]
    BY <1>2 DEF WorkInv, WorkTypes
  <2>2. Asked(v)' = Asked(v)
    BY <2>1 DEF Asked
  <2> QED BY <2>1, <2>2 DEF WorkInv, WorkerOK
<1>3. pc'[w] = p /\ client'[w] = c
  BY DEF WorkInv, WorkTypes
<1>4. (pc[Reconciler] = "Ready" => checked = client[Reconciler])'
  BY <1>2, <1>3, ReconcilerCalls DEF WorkInv
<1> QED BY <1>1, <1>2, <1>4, ReconcilerCalls DEF WorkInv

(* A worker that lets go of everything. *)
LEMMA DropKeeps ==
  ASSUME WorkInv, NEW w \in Callers, Drop(w)
  PROVE  WorkInv' /\ (current' => current /\ read'[Reconciler] = read[Reconciler])
<1>1. /\ pc' = [pc EXCEPT ![w] = "idle"] /\ read' = [read EXCEPT ![w] = None]
      /\ pem' = [pem EXCEPT ![w] = NoBundle] /\ client' = [client EXCEPT ![w] = None]
  BY DEF Drop
<1>2. /\ checked' \in Clients \cup {None} /\ current' \in BOOLEAN
      /\ w # Reconciler => checked' = checked
      /\ current' => current /\ w # Reconciler
  BY DEF Drop, WorkInv, WorkTypes
<1>3. WorkerOK(w)'
  BY <1>1 DEF WorkInv, WorkTypes, WorkerOK
<1> QED BY <1>1, <1>2, <1>3, OthersKeep DEF Steps

(* A worker that moves on with what it has. *)
LEMMA MoveKeeps ==
  ASSUME WorkInv, NEW w \in Callers, NEW p \in Steps, Goto(w, p), pc[w] # "idle",
         p \in {"bundle", "client"} => client[w] = None,
         p \in {"use", "health", "lookup", "Ready"} => client[w] # None,
         p = "idle" => FALSE,
         UNCHANGED <<read, pem, client>>, current' \in BOOLEAN, checked' \in Clients \cup {None},
         w # Reconciler => checked' = checked,
         w = Reconciler /\ p = "Ready" => checked' = client[w]
  PROVE  WorkInv' /\ read'[Reconciler] = read[Reconciler]
<1>1. /\ pc' = [pc EXCEPT ![w] = p] /\ read' = [read EXCEPT ![w] = read[w]]
      /\ pem' = [pem EXCEPT ![w] = pem[w]] /\ client' = [client EXCEPT ![w] = client[w]]
  BY DEF Goto, WorkInv, WorkTypes
<1>2. /\ read[w] \in Connections \cup {None} /\ pem[w] \in Bundles \cup {NoBundle}
      /\ client[w] \in Clients \cup {None}
  BY DEF WorkInv, WorkTypes
<1>3. pc'[w] = p /\ Asked(w)' = Asked(w)
  BY <1>1 DEF WorkInv, WorkTypes, Asked
<1>4. WorkerOK(w)
  BY DEF WorkInv
<1>5. WorkerOK(w)'
  BY <1>3, <1>4 DEF WorkerOK
<1> QED BY <1>1, <1>2, <1>5, OthersKeep

----------------------------------------------------------------------------
(* Asking for a client *)

(* There is no client: the reconciler reports it, another worker lets go. *)
LEMMA NoClientKeeps ==
  ASSUME WorkInv, NEW w \in Callers, pc[w] # "idle", NoClient(w)
  PROVE  WorkInv' /\ (current' => current /\ read'[Reconciler] = read[Reconciler])
<1>1. CASE w = Reconciler
  <2>1. Goto(w, "Stalled") /\ UNCHANGED <<current, read, pem, client, checked>>
    BY <1>1 DEF NoClient
  <2>2. "Stalled" \in Steps /\ current' \in BOOLEAN /\ checked' \in Clients \cup {None}
    BY <2>1 DEF Steps, WorkInv, WorkTypes
  <2> QED BY <2>1, <2>2, MoveKeeps
<1>2. CASE w # Reconciler
  BY <1>2, DropKeeps DEF NoClient
<1> QED BY <1>1, <1>2

(* The client that was asked for arrives. *)
LEMMA GotKeeps ==
  ASSUME WorkInv, NEW w \in Callers, pc[w] = "client", Got(w, Asked(w))
  PROVE  WorkInv' /\ current' = current /\ read'[Reconciler] = read[Reconciler]
<1>1. WorkerOK(w) /\ WorkTypes
  BY DEF WorkInv
<1>2. read[w] \in Connections /\ Asked(w) \in Clients /\ Asked(w) # None
  BY <1>1, AskedTyped DEF WorkerOK
<1>3. /\ read' = [read EXCEPT ![w] = read[w]] /\ pem' = [pem EXCEPT ![w] = pem[w]]
      /\ client' = [client EXCEPT ![w] = Asked(w)]
      /\ UNCHANGED <<current, read, pem, checked>>
  BY <1>1 DEF Got, WorkTypes
<1>4. PICK p \in {"use", "health", "lookup"} : pc' = [pc EXCEPT ![w] = p]
  BY DEF Got, Goto
<1>5. pc'[w] = p /\ client'[w] = Asked(w) /\ read'[w] = read[w] /\ Asked(w)' = Asked(w)
  BY <1>1, <1>3, <1>4 DEF WorkTypes, Asked
<1>6. WorkerOK(w)'
  <2>1. client'[w] = Asked(w)' /\ client'[w] # None /\ read'[w] # None
    BY <1>2, <1>5, NoneAssumption
  <2> QED BY <1>4, <1>5, <2>1 DEF WorkerOK
<1>7. p \in Steps /\ pem[w] \in Bundles \cup {NoBundle} /\ current \in BOOLEAN
      /\ checked \in Clients \cup {None} /\ p # "Ready"
  BY <1>1, <1>4 DEF WorkTypes, Steps
<1>8. WorkInv'
  BY <1>2, <1>3, <1>4, <1>6, <1>7, OthersKeep
<1> QED BY <1>3, <1>8

(* What is left to show of a step that writes nothing to the API server. *)
LEMMA QuietStep ==
  ASSUME CacheInv, WorkInv', entry' \in Entries, queued' \in BOOLEAN,
         UNCHANGED <<conn, connCache, synced, worldVars>>,
         Edit \/ Fault \/ UNCHANGED <<edits, faults>>,
         current' => read'[Reconciler] = conn
  PROVE  CacheInv'
<1>1. WorldTypes /\ VersionsInv
  BY InvParts
<1>2. edits' \in 0 .. EditBudget /\ faults' \in 0 .. FaultBudget /\ edits' <= edits
  BY <1>1, BudgetTyped
<1>3. WorldTypes'
  BY <1>1, <1>2 DEF WorldTypes
<1>4. conn.gen \in Nat /\ edits \in Nat /\ edits' \in Nat
  BY <1>1, <1>3, ConnectionFields, BudgetAssumption DEF WorldTypes, Generations
<1>5. VersionsInv'
  BY <1>1, <1>2, <1>4, BudgetAssumption DEF VersionsInv
<1> QED BY <1>3, <1>5, PartsMake

(* Reading the connection, and for the reconciler taking its key. *)
LEMMA ReadPreserves ==
  ASSUME CacheInv, NEW w \in Callers, Read(w)
  PROVE  CacheInv'
<1>1. WorkInv /\ WorldTypes /\ VersionsInv /\ entry \in Entries
  BY InvParts
<1>2. /\ pc' = [pc EXCEPT ![w] = "bundle"] /\ read' = [read EXCEPT ![w] = connCache]
      /\ UNCHANGED <<pem, client, checked>> /\ pc[w] = "idle"
      /\ UNCHANGED <<conn, connCache, synced, worldVars, entry, edits, faults>>
      /\ w = Reconciler => queued' = FALSE /\ current' = synced
      /\ w # Reconciler => queued' = queued /\ current' = current
  BY DEF Read, Goto
<1>3. /\ WorkTypes /\ WorkerOK(w) /\ connCache \in Connections /\ client[w] = None
      /\ current' \in BOOLEAN /\ queued' \in BOOLEAN
  BY <1>1, <1>2 DEF WorkInv, WorkerOK, WorldTypes, WorkTypes
<1>4. pc'[w] = "bundle" /\ read'[w] = connCache /\ client'[w] = None
  BY <1>2, <1>3 DEF WorkTypes
<1>5. WorkerOK(w)'
  BY <1>3, <1>4, NoneAssumption DEF WorkerOK
<1>6. /\ pem' = [pem EXCEPT ![w] = pem[w]] /\ client' = [client EXCEPT ![w] = None]
      /\ pem[w] \in Bundles \cup {NoBundle} /\ checked' \in Clients \cup {None}
      /\ "bundle" \in Steps
  BY <1>2, <1>3 DEF WorkTypes, Steps
<1>7. WorkInv' /\ (w # Reconciler => read'[Reconciler] = read[Reconciler])
  BY <1>1, <1>2, <1>3, <1>5, <1>6, OthersKeep
<1>8. current' => read'[Reconciler] = conn
  BY <1>1, <1>2, <1>4, <1>7 DEF VersionsInv
<1> QED BY <1>1, <1>2, <1>3, <1>7, <1>8, QuietStep

(* Reading the Secret with the CA bundle. *)
LEMMA ReadBundlePreserves ==
  ASSUME CacheInv, NEW w \in Callers, ReadBundle(w)
  PROVE  CacheInv'
<1>1. WorkInv /\ WorldTypes /\ VersionsInv /\ entry \in Entries
  BY InvParts
<1>2. /\ pc[w] = "bundle"
      /\ UNCHANGED <<conn, connCache, synced, queued, worldVars, entry, edits, faults>>
  BY DEF ReadBundle
<1>3. WorkInv' /\ (current' => current /\ read'[Reconciler] = read[Reconciler])
  <2>1. CASE NoClient(w)
    BY <1>1, <1>2, <2>1, NoClientKeeps
  <2>2. CASE /\ pem' = [pem EXCEPT ![w] = IF read[w].settings.bundled THEN bundle ELSE NoBundle]
             /\ Goto(w, "client")
             /\ UNCHANGED <<current, read, client, checked>>
    <3>1. PICK b \in Bundles \cup {NoBundle} : pem' = [pem EXCEPT ![w] = b]
      BY <1>1, <2>2 DEF WorldTypes
    <3>2. WorkTypes /\ WorkerOK(w) /\ client[w] = None /\ read[w] # None
      BY <1>1, <1>2 DEF WorkInv, WorkerOK
    <3>3. /\ pc' = [pc EXCEPT ![w] = "client"] /\ read' = [read EXCEPT ![w] = read[w]]
          /\ client' = [client EXCEPT ![w] = client[w]] /\ read[w] \in Connections \cup {None}
          /\ client[w] \in Clients \cup {None} /\ checked' \in Clients \cup {None}
          /\ current' \in BOOLEAN /\ "client" \in Steps
          /\ pc'[w] = "client" /\ client'[w] = None /\ read'[w] # None
      BY <2>2, <3>2 DEF Goto, WorkTypes, Steps
    <3>4. WorkerOK(w)'
      BY <3>3 DEF WorkerOK
    <3>5. checked' = checked /\ current' = current /\ read' = read
      BY <2>2
    <3>6. WorkInv'
      <4> HIDE DEF WorkInv, WorkerOK
      <4> QED BY <1>1, <3>1, <3>3, <3>4, <3>5, OthersKeep
    <3> QED BY <3>5, <3>6
  <2> QED BY <2>1, <2>2 DEF ReadBundle
<1> QED BY <1>1, <1>2, <1>3, QuietStep DEF VersionsInv, WorldTypes

(* ClientFor and connectionClientFor. *)
LEMMA ClientForPreserves ==
  ASSUME CacheInv, NEW w \in Callers, ClientFor(w)
  PROVE  CacheInv'
<1>1. WorkInv /\ WorldTypes /\ VersionsInv /\ entry \in Entries
  BY InvParts
<1>2. /\ pc[w] = "client"
      /\ UNCHANGED <<conn, connCache, synced, queued, worldVars, edits, faults>>
  BY DEF ClientFor
<1>3. Asked(w) \in Clients
  BY <1>1, <1>2, AskedTyped DEF WorkInv, WorkerOK
<1>4. /\ NoClient(w) \/ Got(w, Asked(w))
      /\ entry' = entry \/ entry' = [client |-> Asked(w), serial |-> 1 - entry.serial]
  BY DEF ClientFor, StaticClient, CachedClient, NewClient, SameKey
<1>5. entry' \in Entries
  BY <1>1, <1>3, <1>4 DEF Entries
<1>6. WorkInv' /\ (current' => current /\ read'[Reconciler] = read[Reconciler])
  BY <1>1, <1>2, <1>4, NoClientKeeps, GotKeeps
<1> QED BY <1>1, <1>2, <1>5, <1>6, QuietStep DEF VersionsInv, WorldTypes

(* A worker is done. *)
LEMMA UsePreserves ==
  ASSUME CacheInv, NEW w \in Callers, Use(w)
  PROVE  CacheInv'
<1>1. WorkInv /\ WorldTypes /\ VersionsInv /\ entry \in Entries
  BY InvParts
<1>2. Drop(w) /\ UNCHANGED <<conn, connCache, synced, queued, worldVars, entry, edits, faults>>
  BY DEF Use
<1>3. WorkInv' /\ (current' => current /\ read'[Reconciler] = read[Reconciler])
  BY <1>1, <1>2, DropKeeps
<1> QED BY <1>1, <1>2, <1>3, QuietStep DEF VersionsInv, WorldTypes

----------------------------------------------------------------------------
(* The connection's Reconcile *)

(* CheckHealth and LookupSelf. *)
LEMMA VerifyPreserves ==
  ASSUME CacheInv, CheckHealth \/ LookupSelf
  PROVE  CacheInv'
<1>1. WorkInv /\ WorldTypes /\ VersionsInv /\ entry \in Entries
  BY InvParts
<1>2. /\ pc[Reconciler] \in {"health", "lookup"}
      /\ UNCHANGED <<serverVars, worldVars, entry, read, pem, client>>
      /\ Fault \/ UNCHANGED <<edits, faults>>
  BY DEF CheckHealth, LookupSelf, Answered, Failed
<1>3. \/ Goto(Reconciler, "lookup") /\ checked' = checked
      \/ Goto(Reconciler, "Error") /\ checked' = checked
      \/ Goto(Reconciler, "Ready") /\ checked' = client[Reconciler]
  BY DEF CheckHealth, LookupSelf
<1>4. /\ WorkTypes /\ WorkerOK(Reconciler) /\ client[Reconciler] # None
      /\ client[Reconciler] \in Clients \cup {None} /\ checked \in Clients \cup {None}
      /\ current \in BOOLEAN
  BY <1>1, <1>2, ReconcilerCalls DEF WorkInv, WorkerOK, WorkTypes
<1>5. WorkInv'
  BY <1>1, <1>2, <1>3, <1>4, MoveKeeps, ReconcilerCalls DEF Steps
<1> QED BY <1>1, <1>2, <1>5, QuietStep DEF VersionsInv, WorldTypes

(* Recording the outcome, which a conflict or an error may prevent. *)
LEMMA RecordPreserves ==
  ASSUME CacheInv, Record
  PROVE  CacheInv'
<1>1. WorkInv /\ WorldTypes /\ VersionsInv /\ entry \in Entries
  BY InvParts
<1>2. Drop(Reconciler) /\ UNCHANGED <<connCache, worldVars, entry>> /\ current' = FALSE
      /\ pc[Reconciler] \in {"Ready", "Error", "Stalled"}
  BY DEF Record, Drop
<1>3. WorkInv'
  BY <1>1, <1>2, DropKeeps, ReconcilerCalls
<1>4. CASE UNCHANGED <<conn, synced>>
  <2>1. queued' \in BOOLEAN /\ (Fault \/ UNCHANGED <<edits, faults>>)
    BY <1>1 DEF Record, Requeue, WorldTypes
  <2> QED BY <1>1, <1>2, <1>3, <1>4, <2>1, QuietStep
<1>5. CASE /\ conn' = [conn EXCEPT !.tag = pc[Reconciler], !.observed = read[Reconciler].gen]
           /\ synced' = FALSE /\ queued' = (queued \/ Requeue(pc[Reconciler]))
           /\ UNCHANGED <<edits, faults>> /\ SameVersion
  <2>1. /\ pc[Reconciler] \in Tags /\ read[Reconciler] = conn /\ conn \in Connections
        /\ conn.gen \in 0 .. EditBudget + 1 /\ conn.gen \in Generations
    BY <1>1, <1>2, <1>5, ConnectionFields, BudgetAssumption
       DEF Tags, VersionsInv, SameVersion, WorldTypes, Generations
  <2>2. conn' \in Connections /\ conn'.gen = conn.gen
    BY <1>5, <2>1 DEF Connections
  <2>3. WorldTypes'
    BY <1>1, <1>2, <1>5, <2>2 DEF WorldTypes, Requeue
  <2>4. VersionsInv'
    BY <1>1, <1>2, <1>5, <2>2 DEF VersionsInv
  <2> QED BY <1>1, <1>2, <1>3, <2>3, <2>4, PartsMake
<1> QED BY <1>4, <1>5 DEF Record

----------------------------------------------------------------------------
(* Users, Secrets, the watches and OpenBao *)

(* A step outside leaves the workers alone. *)
LEMMA OutsideKeeps ==
  ASSUME WorkInv, UNCHANGED <<workVars, checked>>, current' \in BOOLEAN
  PROVE  WorkInv'
  BY DEF WorkInv, WorkTypes, WorkerOK, Asked

(* An edit counts as a generation, and makes all copies old. *)
LEMMA UserEditPreserves ==
  ASSUME CacheInv, UserEdit
  PROVE  CacheInv'
<1>1. WorkInv /\ WorldTypes /\ VersionsInv /\ entry \in Entries
  BY InvParts
<1>2. PICK s \in Settings : conn' = [conn EXCEPT !.settings = s, !.gen = @ + 1]
  BY DEF UserEdit
<1>3. /\ edits > 0 /\ edits' = edits - 1 /\ faults' = faults /\ synced' = FALSE /\ current' = FALSE
      /\ UNCHANGED <<connCache, queued, worldVars, entry, workVars, checked>>
  BY DEF UserEdit, Edit
<1>4. conn \in Connections /\ conn.gen \in 1 .. EditBudget + 1 /\ edits \in 0 .. EditBudget
      /\ conn.gen + edits <= EditBudget + 1
  BY <1>1, ConnectionFields DEF WorldTypes, Generations, VersionsInv
<1>5. conn.gen + 1 \in Generations /\ edits' \in 0 .. EditBudget
      /\ (conn.gen + 1) + edits' <= EditBudget + 1
  BY <1>3, <1>4, BudgetAssumption DEF Generations
<1>6. conn' \in Connections /\ conn'.gen = conn.gen + 1
  BY <1>2, <1>4, <1>5 DEF Connections
<1>7. WorldTypes' /\ VersionsInv'
  BY <1>1, <1>3, <1>5, <1>6 DEF WorldTypes, VersionsInv
<1>8. WorkInv'
  BY <1>1, <1>3, OutsideKeeps
<1> QED BY <1>1, <1>3, <1>7, <1>8, PartsMake

(* The informer catches up. *)
LEMMA SyncPreserves ==
  ASSUME CacheInv, Sync
  PROVE  CacheInv'
<1>1. WorkInv /\ WorldTypes /\ VersionsInv /\ entry \in Entries
  BY InvParts
<1>2. WorkInv'
  BY <1>1, OutsideKeeps DEF Sync, WorkInv, WorkTypes
<1>3. WorldTypes' /\ VersionsInv'
  BY <1>1 DEF Sync, WorldTypes, VersionsInv
<1> QED BY <1>1, <1>2, <1>3, PartsMake DEF Sync

(* The Secrets and OpenBao change. *)
LEMMA WorldPreserves ==
  ASSUME CacheInv, BundleChange \/ TokenChange \/ Outage
  PROVE  CacheInv'
<1>1. WorkInv /\ WorldTypes /\ VersionsInv /\ entry \in Entries
  BY InvParts
<1>2. /\ UNCHANGED <<conn, connCache, synced, current, entry, workVars, checked>>
      /\ Edit \/ Fault \/ UNCHANGED <<edits, faults>>
  BY DEF BundleChange, TokenChange, Outage
<1>3. /\ queued' \in BOOLEAN /\ bundle' \in Bundles \cup {NoBundle}
      /\ hasToken' \in BOOLEAN /\ up' \in BOOLEAN
  BY <1>1, ConnectionFields DEF BundleChange, TokenChange, Outage, WorldTypes
<1>4. edits' \in 0 .. EditBudget /\ faults' \in 0 .. FaultBudget /\ edits' <= edits
  BY <1>1, <1>2, BudgetTyped
<1>5. WorldTypes'
  BY <1>1, <1>2, <1>3, <1>4 DEF WorldTypes
<1>6. conn.gen \in Nat /\ edits \in Nat /\ edits' \in Nat
  BY <1>1, <1>5, ConnectionFields, BudgetAssumption DEF WorldTypes, Generations
<1>7. VersionsInv'
  BY <1>1, <1>2, <1>4, <1>6, BudgetAssumption DEF VersionsInv
<1>8. WorkInv'
  BY <1>1, <1>2, OutsideKeeps DEF WorkInv, WorkTypes
<1> QED BY <1>1, <1>2, <1>5, <1>7, <1>8, PartsMake

(* Idle workers with empty hands satisfy the invariant. *)
LEMMA IdleWorkers ==
  ASSUME pc = [w \in Callers |-> "idle"], read = [w \in Callers |-> None],
         pem = [w \in Callers |-> NoBundle], client = [w \in Callers |-> None],
         checked = None, current = FALSE
  PROVE  WorkInv
<1>1. WorkTypes
  BY DEF WorkTypes, Steps
<1>2. \A w \in Callers : WorkerOK(w)
  BY DEF WorkerOK
<1> QED BY <1>1, <1>2, ReconcilerCalls DEF WorkInv

(* A restart empties the cache and the workers' hands. *)
LEMMA CrashPreserves ==
  ASSUME CacheInv, Crash
  PROVE  CacheInv'
<1>1. WorkInv /\ WorldTypes /\ VersionsInv /\ entry \in Entries
  BY InvParts
<1>2. WorkInv'
  <2>1. /\ pc' = [w \in Callers |-> "idle"] /\ read' = [w \in Callers |-> None]
        /\ pem' = [w \in Callers |-> NoBundle] /\ client' = [w \in Callers |-> None]
        /\ checked' = None /\ current' = FALSE
    BY DEF Crash
  <2>2. WorkTypes'
    BY <2>1 DEF WorkTypes, Steps
  <2>3. \A w \in Callers : WorkerOK(w)'
    BY <2>1 DEF WorkerOK
  <2> QED BY <2>1, <2>2, <2>3, ReconcilerCalls DEF WorkInv
<1>3. entry' \in Entries
  BY DEF Crash, Entries
<1>4. WorldTypes'
  BY <1>1, BudgetTyped DEF Crash, WorldTypes
<1>5. edits' = edits
  BY DEF Crash, Fault
<1>6. VersionsInv'
  BY <1>1, <1>5 DEF Crash, VersionsInv
<1> QED BY <1>2, <1>3, <1>4, <1>6, PartsMake

----------------------------------------------------------------------------
(* The invariant *)

(* The invariant holds at the start. *)
LEMMA InitEstablishes ==
  ASSUME Init
  PROVE  CacheInv
<1>1. WorkInv
  BY IdleWorkers DEF Init
<1>2. PICK s \in Settings : conn = [gen |-> 1, settings |-> s, tag |-> "None", observed |-> 0]
  BY DEF Init
<1>3. conn \in Connections /\ conn.gen = 1
  BY <1>2, BudgetAssumption DEF Connections, Generations, Tags
<1>4. bundle \in Bundles
  BY BundlesAssumption DEF Init
<1>5. WorldTypes /\ VersionsInv /\ entry \in Entries
  BY <1>3, <1>4, BudgetAssumption DEF Init, WorldTypes, VersionsInv, Entries
<1> QED BY <1>1, <1>5, InvParts

(* Every step keeps the invariant. *)
LEMMA NextPreserves ==
  ASSUME CacheInv, [Next]_vars
  PROVE  CacheInv'
<1>1. ASSUME NEW w \in Callers, Ask(w) \/ Use(w)
      PROVE  CacheInv'
  BY <1>1, ReadPreserves, ReadBundlePreserves, ClientForPreserves, UsePreserves DEF Ask
<1>2. CASE UNCHANGED vars
  <2>1. WorkInv /\ WorldTypes /\ VersionsInv /\ entry \in Entries
    BY InvParts
  <2>2. WorkInv'
    BY <1>2, <2>1, OutsideKeeps DEF vars, WorkInv, WorkTypes
  <2> QED BY <1>2, <2>1, <2>2, QuietStep DEF vars, WorldTypes, VersionsInv
<1> QED BY <1>1, <1>2, VerifyPreserves, RecordPreserves, UserEditPreserves, SyncPreserves,
          WorldPreserves, CrashPreserves, ReconcilerCalls
        DEF Next, Reconcile, Callers

(* CacheInv holds in every reachable state, for every value of the         *)
(* constants: whatever the other workers ask the cache for, a worker's     *)
(* client was built from what this worker has read.                        *)
THEOREM Invariance == Spec => []CacheInv
<1>1. Init => CacheInv
  BY InitEstablishes
<1>2. CacheInv /\ [Next]_vars => CacheInv'
  BY NextPreserves
<1> QED BY <1>1, <1>2, PTL DEF Spec

----------------------------------------------------------------------------
(* What Ready says *)

(* Only the end of the connection's Reconcile changes its verdict, and     *)
(* only through a current copy.                                            *)
VerdictStep ==
  \/ conn'.tag = conn.tag /\ conn'.observed = conn.observed
  \/ /\ current /\ conn'.tag = pc[Reconciler] /\ conn'.observed = read[Reconciler].gen
     /\ conn'.settings = conn.settings /\ conn'.gen = conn.gen

(* Every step changes the verdict in this way. *)
LEMMA VerdictSteps ==
  ASSUME CacheInv, [Next]_vars
  PROVE  VerdictStep
<1>0. conn \in Connections
  BY DEF CacheInv, TypeOK
<1>1. CASE conn' = conn
  BY <1>1 DEF VerdictStep
<1>2. CASE UserEdit
  <2>1. PICK s \in Settings : conn' = [conn EXCEPT !.settings = s, !.gen = @ + 1]
    BY <1>2 DEF UserEdit
  <2> QED BY <1>0, <2>1 DEF VerdictStep, Connections
<1>3. CASE Record
  <2>1. CASE current /\ conn' = [conn EXCEPT !.tag = pc[Reconciler], !.observed = read[Reconciler].gen]
    BY <1>0, <2>1 DEF VerdictStep, Connections
  <2> QED BY <1>1, <1>3, <2>1 DEF Record, SameVersion
<1>4. ASSUME NEW w \in Callers, Ask(w) \/ Use(w)
      PROVE  conn' = conn
  BY <1>4 DEF Ask, Read, ReadBundle, ClientFor, Use
<1>5. CASE CheckHealth \/ LookupSelf \/ Sync \/ BundleChange \/ TokenChange \/ Outage \/ Crash
           \/ UNCHANGED vars
  BY <1>1, <1>5 DEF CheckHealth, LookupSelf, Sync, BundleChange, TokenChange, Outage, Crash, vars
<1> QED BY <1>1, <1>2, <1>3, <1>4, <1>5, ReconcilerCalls DEF Next, Reconcile, Callers

(* Ready is recorded only for settings that LookupSelf succeeded with. *)
THEOREM VerifiedReady == Spec => ReadyIsVerified
<1>1. ASSUME CacheInv, [Next]_vars, conn'.tag = "Ready",
             conn.tag # "Ready" \/ conn'.observed # conn.observed
      PROVE  /\ checked # None /\ checked.settings = conn'.settings
             /\ conn'.observed = conn'.gen
  <2>1. /\ current /\ pc[Reconciler] = "Ready" /\ conn'.observed = read[Reconciler].gen
        /\ conn'.settings = conn.settings /\ conn'.gen = conn.gen
    BY <1>1, VerdictSteps DEF VerdictStep
  <2>2. read[Reconciler] = conn
    BY <1>1, <2>1 DEF CacheInv, VersionsInv
  <2>3. checked = client[Reconciler] /\ checked # None
    BY <1>1, <2>1, ReconcilerCalls DEF CacheInv, ProgressInv
  <2>4. checked = Asked(Reconciler)
    BY <1>1, <2>3, ReconcilerCalls DEF CacheInv, ClientMatchesRead
  <2> QED BY <2>1, <2>2, <2>3, <2>4 DEF Asked
<1>2. CacheInv /\ [Next]_vars
      => [conn'.tag = "Ready" /\ (conn.tag # "Ready" \/ conn'.observed # conn.observed)
            => /\ checked # None /\ checked.settings = conn'.settings
               /\ conn'.observed = conn'.gen]_vars
  BY <1>1
<1> QED BY <1>2, Invariance, PTL DEF Spec, ReadyIsVerified
=============================================================================
