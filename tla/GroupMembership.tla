-------------------------- MODULE GroupMembership --------------------------
(***************************************************************************)
(* OpenBaoGroupMembership resources and the group reconciler that applies  *)
(* them (internal/controller/openbao/openbaogroup_controller.go).  OpenBao *)
(* has no endpoint for one edge: the reconciler reads the group's member   *)
(* arrays, takes out the IDs that status lists as managed, puts in the IDs *)
(* of the current claims, and writes the arrays back as a whole.           *)
(*                                                                         *)
(* Simplifications.                                                        *)
(*  - the entity and the subgroup array are treated alike, so members are  *)
(*    one set of IDs.                                                      *)
(*  - how the group itself is acquired, updated and deleted is the subject *)
(*    of IdLifecycle; here it is bound and a failed read or update stands  *)
(*    for everything that can fail on the way.                             *)
(*  - the rest of the group's configuration may always differ, so an       *)
(*    update is possible also when the members match.                      *)
(*  - the informer's copies of entities and subgroups do not lag; an ID    *)
(*    that the worker has resolved may be outdated when it is used.        *)
(*  - a condition is one tag.  Beside it a membership's status holds the   *)
(*    IDs of the member and of the group, which are left out: a change of  *)
(*    an ID under the same condition is one more write of the same status. *)
(***************************************************************************)
EXTENDS Naturals, FiniteSets

CONSTANTS
    Claims,       \* names of OpenBaoGroupMembership resources, in order
    Initial,      \* those that may exist in the beginning
    Targets,      \* names of entities and subgroups
    Self,         \* the parent group as the target of its own membership
    Ids,          \* OpenBao IDs, in the order in which they are given out
    NoId,         \* a claim that the worker has not resolved
    FirstId,      \* the ID of each target in the beginning
    Group,        \* the OpenBaoGroup resource
    MaxCreates,   \* bound on how often memberships are created
    EnvBudget,    \* bound on faults, crashes, edits and foreign writes
    DriftChecks   \* driftDetectionInterval is not zero

ASSUME ClaimsAssumption == Claims \subseteq Nat /\ IsFiniteSet(Claims)
ASSUME TargetsAssumption == Self \notin Targets
ASSUME IdsAssumption == Ids \subseteq Nat /\ NoId \notin Ids /\ FirstId \in [Targets -> Ids]
ASSUME GroupAssumption == Group \notin Claims
ASSUME BoundsAssumption ==
    MaxCreates \in Nat /\ EnvBudget \in Nat /\ DriftChecks \in BOOLEAN

VARIABLES
    claim,        \* the membership resources in the API server
    claimCache,   \* the informer's copies of them
    status,       \* the group's status in the API server
    statusCache,  \* the informer's copy of it
    synced,       \* objects whose informer's copy is the latest
    queued,       \* the group's key is in the workqueue
    ready, idOf,  \* whether a target is Ready, and its ID
    external,     \* spec.type of the group
    members,      \* the members of the group in OpenBao
    pc,           \* the worker's next step
    mine,         \* the worker's copy of the group's status
    observed,     \* the members as the worker last read them
    list,         \* the membership resources as the worker listed them
    wanted,       \* the IDs the worker resolved for them
    todo,         \* claims whose status is still to be written
    current,      \* objects whose copy at the worker is the latest
    budget, creates,
    raced,        \* members that others changed since the worker's read (history)
    applied,      \* members that a read of this Reconcile returned (history)
    foreign,      \* members that others added, not recorded as managed since (history)
    leaked        \* members written for a claim and not recorded (history)

claimVars  == <<claim, claimCache>>
groupVars  == <<status, statusCache>>
targetVars == <<ready, idOf, external>>
workVars   == <<mine, observed, list, wanted, todo>>
boundVars  == <<budget, creates>>
histVars   == <<raced, applied, foreign, leaked>>
vars == <<claimVars, groupVars, synced, queued, targetVars, members, pc,
          workVars, current, boundVars, histVars>>

----------------------------------------------------------------------------
(* A claim's target is its immutable entityRef or memberGroupRef. *)
Absent == [exists |-> FALSE, to |-> Self, tag |-> "None"]
NewClaim(t) == [exists |-> TRUE, to |-> t, tag |-> "None"]
ClaimTags == {"None", "Ready", "NotApplied", "Stalled", "Rejected"}
ClaimRecords == [exists : BOOLEAN, to : Targets \cup {Self}, tag : ClaimTags]

GroupTags == {"None", "Ready", "Failed"}
GroupStatus == [managed : SUBSET Ids, tag : GroupTags]
NewGroup == [managed |-> {}, tag |-> "None"]

Steps == {"idle", "acquire", "list", "resolve", "refuse", "report",
          "update", "reread", "record", "claims"}

TypeOK ==
    /\ claim \in [Claims -> ClaimRecords] /\ claimCache \in [Claims -> ClaimRecords]
    /\ status \in GroupStatus /\ statusCache \in GroupStatus /\ mine \in GroupStatus
    /\ synced \subseteq Claims \cup {Group} /\ current \subseteq Claims \cup {Group}
    /\ queued \in BOOLEAN /\ external \in BOOLEAN
    /\ ready \in [Targets -> BOOLEAN] /\ idOf \in [Targets -> Ids]
    /\ members \subseteq Ids /\ observed \subseteq Ids
    /\ pc \in Steps
    /\ list \in [Claims -> ClaimRecords]
    /\ wanted \in [Claims -> Ids \cup {NoId}]
    /\ todo \subseteq Claims
    /\ budget \in 0 .. EnvBudget /\ creates \in 0 .. MaxCreates
    /\ raced \subseteq Ids /\ applied \subseteq Ids
    /\ foreign \subseteq Ids /\ leaked \subseteq Ids

NoList == [c \in Claims |-> Absent]
NothingWanted == [c \in Claims |-> NoId]

Init ==
    /\ claim \in {f \in [Claims -> {Absent} \cup {NewClaim(t) : t \in Targets \cup {Self}}] :
                    \A c \in Claims \ Initial : f[c] = Absent}
    /\ claimCache = claim
    /\ status = NewGroup /\ statusCache = NewGroup
    /\ synced = Claims \cup {Group} /\ queued = TRUE
    /\ ready = [t \in Targets |-> TRUE] /\ idOf = FirstId
    /\ external \in BOOLEAN
    /\ members = {}
    /\ pc = "idle" /\ mine = NewGroup /\ observed = {}
    /\ list = NoList /\ wanted = NothingWanted /\ todo = {}
    /\ current = {}
    /\ budget = EnvBudget /\ creates = 0
    /\ raced = {} /\ applied = {} /\ foreign = {} /\ leaked = {}

Spend == budget > 0 /\ budget' = budget - 1

(* Memberships are handled in the order of their names. *)
First(S) == CHOOSE c \in S : \A d \in S : c <= d

Listed == {c \in Claims : list[c].exists}
WantedIds == {wanted[c] : c \in Claims} \ {NoId}

(* Everything a Reconcile has learned ends with it. *)
Finish(requeue) ==
    /\ pc' = "idle" /\ queued' = (queued \/ requeue)
    /\ mine' = NewGroup /\ observed' = {} /\ current' = {}
    /\ list' = NoList /\ wanted' = NothingWanted /\ todo' = {}
    /\ raced' = {} /\ applied' = {}

Goto(step) == pc' = step /\ UNCHANGED queued

(* The Reconcile fails; only the group's status is still to be written. *)
GiveUp ==
    /\ Goto("report")
    /\ observed' = {} /\ list' = NoList /\ wanted' = NothingWanted /\ todo' = {}
    /\ current' = current \cap {Group}
    /\ raced' = {} /\ applied' = {}
    /\ UNCHANGED mine

----------------------------------------------------------------------------
(* Reading the group and its claims *)

Begin ==
    /\ pc = "idle" /\ queued
    /\ queued' = FALSE /\ pc' = "acquire"
    /\ mine' = statusCache /\ current' = synced \cap {Group}
    /\ UNCHANGED <<claimVars, groupVars, synced, targetVars, members, observed,
                   list, wanted, todo, boundVars, histVars>>

(* acquire returns the group as OpenBao has it. *)
Acquire ==
    /\ pc = "acquire"
    /\ \/ /\ observed' = members /\ applied' = members /\ raced' = {}
          /\ Goto("list") /\ UNCHANGED <<budget, mine, list, wanted, todo, current>>
       \/ Spend /\ GiveUp
    /\ UNCHANGED <<claimVars, groupVars, synced, targetVars, members, creates,
                   foreign, leaked>>

(* membershipsForGroup, and the refusal of every claim on an external group. *)
ListMemberships ==
    /\ pc = "list"
    /\ list' = claimCache
    /\ current' = current \cup (synced \cap Claims)
    /\ LET found == {c \in Claims : claimCache[c].exists} IN
       IF external /\ found # {}
         THEN todo' = found /\ Goto("refuse")
         ELSE UNCHANGED todo /\ Goto("resolve")
    /\ UNCHANGED <<claimVars, groupVars, synced, targetVars, members, mine,
                   observed, wanted, boundVars, histVars>>

(* The arrays that are written back: what was read, without what was       *)
(* managed, with what is claimed.                                          *)
\* Mutant: only the claims are written.
DesiredIsClaimed(claimed) == claimed
\* Mutant: released members are not taken out.
DesiredAccumulates(claimed) == observed \cup claimed
Desired(claimed) == (observed \ mine.managed) \cup claimed

(* resolveMemberships: a claim on the group itself is invalid, a target    *)
(* must be Ready with an ID.                                               *)
Resolvable(c) == list[c].to # Self /\ ready[list[c].to]

\* Mutant: a claim that cannot be resolved is skipped.
ResolveSkipping ==
    /\ pc = "resolve"
    /\ LET good == {c \in Listed : Resolvable(c)} IN
       /\ wanted' = [c \in Claims |-> IF c \in good THEN idOf[list[c].to] ELSE NoId]
       /\ UNCHANGED todo
       /\ Goto("update")
    /\ UNCHANGED <<claimVars, groupVars, synced, targetVars, members, mine,
                   observed, list, current, boundVars, histVars>>
Resolve ==
    /\ pc = "resolve"
    /\ LET bad == {c \in Listed : ~Resolvable(c)}
           claimed == {idOf[list[c].to] : c \in Listed}
       IN
       \/ /\ bad = {}
          /\ wanted' = [c \in Claims |-> IF c \in Listed THEN idOf[list[c].to] ELSE NoId]
          /\ UNCHANGED todo
          /\ \/ Goto("update")
             \/ Desired(claimed) = observed /\ Goto("record")
       \/ bad # {} /\ todo' = {First(bad)} /\ Goto("refuse") /\ UNCHANGED wanted
    /\ UNCHANGED <<claimVars, groupVars, synced, targetVars, members, mine,
                   observed, list, current, boundVars, histVars>>

----------------------------------------------------------------------------
(* Status of memberships *)

(* updateStatusIfChanged for membership c; "kept" when nothing changed. *)
ClaimUnchanged(c, t) == list[c].tag = t /\ UNCHANGED <<claim, synced, budget>>
ClaimWritten(c, t) ==
    /\ c \in current /\ list[c].tag # t
    /\ claim' = [claim EXCEPT ![c].tag = t]
    /\ synced' = synced \ {c}
    /\ UNCHANGED budget
ClaimRejected(c, t) ==
    /\ list[c].tag # t
    /\ \/ c \notin current /\ UNCHANGED budget
       \/ c \in current /\ Spend
    /\ UNCHANGED <<claim, synced>>

(* markMembershipError and markMembershipStalled; whether or not the       *)
(* status can be written, the group's Reconcile fails.                     *)
Refuse ==
    /\ pc = "refuse"
    /\ LET c == First(todo)
           t == IF external \/ list[c].to = Self THEN "Rejected" ELSE "Stalled"
       IN
       \/ /\ ClaimUnchanged(c, t) \/ ClaimWritten(c, t)
          /\ IF todo = {c}
               THEN GiveUp
               ELSE /\ todo' = todo \ {c}
                    /\ Goto("refuse")
                    /\ UNCHANGED <<mine, observed, list, wanted, current, raced, applied>>
       \/ ClaimRejected(c, t) /\ GiveUp
    /\ UNCHANGED <<claimCache, groupVars, targetVars, members, creates, foreign, leaked>>

(* updateMembershipStatuses, one claim after the other; the first status   *)
(* that cannot be written ends the Reconcile.                              *)
\* Mutant: a claim that was written is taken for applied.
ClaimTagAssumed(c) == "Ready"
ClaimTag(c) == IF wanted[c] \in observed THEN "Ready" ELSE "NotApplied"

RecordClaim ==
    /\ pc = "claims"
    /\ \/ todo = {} /\ Finish(DriftChecks) /\ UNCHANGED <<claim, synced, budget>>
       \/ /\ todo # {}
          /\ LET c == First(todo) IN
             \/ /\ ClaimUnchanged(c, ClaimTag(c)) \/ ClaimWritten(c, ClaimTag(c))
                /\ todo' = todo \ {c}
                /\ UNCHANGED <<pc, queued, mine, observed, list, wanted, current, raced, applied>>
             \/ ClaimRejected(c, ClaimTag(c)) /\ Finish(TRUE)
    /\ UNCHANGED <<claimCache, groupVars, targetVars, members, creates, foreign, leaked>>

----------------------------------------------------------------------------
(* The group's update and status *)

(* UpdateGroup replaces the arrays, whatever they are by now.  The answer  *)
(* may be lost.                                                            *)
Update ==
    /\ pc = "update"
    /\ \/ /\ members' = Desired(WantedIds)
          /\ foreign' = (foreign \cap members') \cup (members' \ (members \cup WantedIds \cup status.managed))
          /\ leaked' = (leaked \cup (WantedIds \ status.managed)) \cap members'
          /\ \/ /\ Goto("reread") /\ raced' = {}
                /\ UNCHANGED <<workVars, current, applied, budget>>
             \/ Spend /\ GiveUp
       \/ Spend /\ GiveUp /\ UNCHANGED <<members, foreign, leaked>>
    /\ UNCHANGED <<claimVars, groupVars, synced, targetVars, creates>>

Reread ==
    /\ pc = "reread"
    /\ \/ /\ observed' = members /\ applied' = applied \cup members
          /\ Goto("record")
          /\ UNCHANGED <<budget, mine, list, wanted, todo, current, raced>>
       \/ Spend /\ GiveUp
    /\ UNCHANGED <<claimVars, groupVars, synced, targetVars, members, creates,
                   foreign, leaked>>

(* A write of the group's status, or its rejection. *)
StatusWritten(s) ==
    /\ Group \in current
    /\ status' = s /\ synced' = synced \ {Group}
    /\ UNCHANGED <<statusCache, budget>>
\* Mutant: the error is swallowed.
StatusRejectedSilently ==
    /\ \/ Group \notin current /\ UNCHANGED budget
       \/ Group \in current /\ Spend
    /\ Finish(FALSE)
    /\ UNCHANGED <<groupVars, synced>>
StatusRejected ==
    /\ \/ Group \notin current /\ UNCHANGED budget
       \/ Group \in current /\ Spend
    /\ Finish(TRUE)
    /\ UNCHANGED <<groupVars, synced>>

(* observeGroupStatus: the managed IDs are those of the claims. *)
\* Mutant: the ID of a claim that was not resolved is recorded, too.
ManagedWithNone == {wanted[c] : c \in Claims}
Managed == WantedIds

Record ==
    /\ pc = "record"
    /\ LET s == [managed |-> Managed, tag |-> "Ready"] IN
       \/ /\ mine = s /\ UNCHANGED <<groupVars, synced, budget, foreign, leaked>>
          /\ todo' = Listed /\ Goto("claims")
          /\ UNCHANGED <<mine, observed, list, wanted, current, raced, applied>>
       \/ /\ StatusWritten(s)
          /\ mine' = s /\ todo' = Listed /\ Goto("claims")
          /\ foreign' = foreign \ Managed /\ leaked' = leaked \ Managed
          /\ UNCHANGED <<observed, list, wanted, current, raced, applied>>
       \/ StatusRejected /\ UNCHANGED <<foreign, leaked>>
    /\ UNCHANGED <<claimVars, targetVars, members, creates>>

(* fail and dependencyFailure: the managed IDs are left as they were. *)
Report ==
    /\ pc = "report"
    /\ LET s == [mine EXCEPT !.tag = "Failed"] IN
       \/ mine = s /\ Finish(TRUE) /\ UNCHANGED <<groupVars, synced, budget>>
       \/ StatusWritten(s) /\ Finish(TRUE)
       \/ StatusRejected
    /\ UNCHANGED <<claimVars, targetVars, members, creates, foreign, leaked>>

----------------------------------------------------------------------------
(* Users, the watches, targets and other administrators *)

IdsClaimed == {idOf[claim[c].to] : c \in {d \in Claims : claim[d].exists /\ claim[d].to # Self}}

(* Another party's write: nobody has the new version. *)
ClaimChanges(c, r) ==
    /\ claim' = [claim EXCEPT ![c] = r]
    /\ synced' = synced \ {c} /\ current' = current \ {c}
    /\ UNCHANGED <<claimCache, groupVars, queued, targetVars, members, pc, workVars,
                   budget, histVars>>

UserCreate ==
    /\ creates < MaxCreates /\ creates' = creates + 1
    /\ \E c \in Claims, t \in Targets \cup {Self} :
         ~claim[c].exists /\ ClaimChanges(c, NewClaim(t))

UserDelete ==
    /\ \E c \in Claims : claim[c].exists /\ ClaimChanges(c, Absent)
    /\ UNCHANGED creates

(* The watch of memberships, mapMembershipToGroup. *)
SyncClaim ==
    /\ \E c \in Claims \ synced :
         claimCache' = [claimCache EXCEPT ![c] = claim[c]] /\ synced' = synced \cup {c}
    /\ queued' = TRUE
    /\ UNCHANGED <<claim, groupVars, targetVars, members, pc, workVars, current,
                   boundVars, histVars>>

SyncGroup ==
    /\ Group \notin synced
    /\ statusCache' = status /\ synced' = synced \cup {Group} /\ queued' = TRUE
    /\ UNCHANGED <<claimVars, status, targetVars, members, pc, workVars, current,
                   boundVars, histVars>>

(* mapEntityToGroups and mapGroupToParentGroups look the claims up in the  *)
(* informer's list.                                                        *)
Notified(t) == \E c \in Claims : claimCache[c].exists /\ claimCache[c].to = t

TargetReadiness ==
    /\ \E t \in Targets :
         /\ \/ ready[t] /\ Spend
            \/ ~ready[t] /\ UNCHANGED budget
         /\ ready' = [ready EXCEPT ![t] = ~@]
         /\ queued' = (queued \/ Notified(t))
    /\ UNCHANGED <<claimVars, groupVars, synced, idOf, external, members, pc,
                   workVars, current, creates, histVars>>

(* The worker has read the members and may write them. *)
Between == pc \in {"list", "resolve", "update"}

(* The target is bound to a new object; OpenBao drops the old one from the *)
(* group when it is deleted.                                               *)
TargetReplaced ==
    /\ Spend
    /\ \E t \in Targets, i \in Ids :
         /\ \A u \in Targets : idOf[u] < i
         /\ idOf' = [idOf EXCEPT ![t] = i]
         /\ queued' = (queued \/ Notified(t))
         /\ \E dropped \in SUBSET {idOf[t]} :
              /\ members' = members \ dropped
              /\ raced' = IF Between THEN raced \cup dropped ELSE raced
              /\ foreign' = foreign \ dropped /\ leaked' = leaked \ dropped
    /\ UNCHANGED <<claimVars, groupVars, synced, ready, external, pc, workVars,
                   current, creates, applied>>

(* Somebody else adds or removes one member. *)
ForeignChange ==
    /\ Spend
    /\ \E i \in Ids :
         /\ raced' = IF Between THEN raced \cup {i} ELSE raced
         /\ \/ /\ i \notin members /\ members' = members \cup {i}
               /\ foreign' = foreign \cup {i}
            \/ /\ i \in members /\ members' = members \ {i}
               /\ foreign' = foreign \ {i}
         /\ leaked' = leaked \ {i}
    /\ UNCHANGED <<claimVars, groupVars, synced, queued, targetVars, pc, workVars,
                   current, creates, applied>>

Crash ==
    /\ Spend
    /\ Finish(TRUE)
    /\ claimCache' = claim /\ statusCache' = status /\ synced' = Claims \cup {Group}
    /\ UNCHANGED <<claim, status, targetVars, members, creates, foreign, leaked>>

----------------------------------------------------------------------------
Worker ==
    \/ Begin \/ Acquire \/ ListMemberships \/ Resolve \/ Refuse
    \/ Update \/ Reread \/ Record \/ RecordClaim \/ Report

Watch == SyncClaim \/ SyncGroup

Environment ==
    UserCreate \/ UserDelete \/ TargetReadiness \/ TargetReplaced \/ ForeignChange \/ Crash

Next == Worker \/ Watch \/ Environment

Spec == Init /\ [][Next]_vars

(* The worker goroutine and the watches keep running. *)
FairSpec == Spec /\ WF_vars(Worker) /\ WF_vars(SyncClaim) /\ WF_vars(SyncGroup)

----------------------------------------------------------------------------
(* Properties *)

(* docs/decisions/0002-group-membership-ownership.md: "retain remote       *)
(* member IDs that were never claimed".  A member that somebody else added *)
(* and that is not managed is lost in an update only if it came after the  *)
(* worker's read of the arrays, or if the worker began from an outdated    *)
(* status.                                                                 *)
ForeignEdgesSurvive ==
    [][pc = "update" /\ pc' \in {"reread", "report"}
         => \/ (members \cap foreign) \ members' \subseteq raced \cup status.managed
            \/ Group \notin current]_vars

(* resolveMemberships gives up as a whole: an update never takes the edge  *)
(* of a claim away because its target is not ready at the moment.          *)
StalledClaimsKeepTheirEdges ==
    [][pc = "update" /\ pc' \in {"reread", "report"}
         => \A c \in Listed : list[c].to # Self
              => idOf[list[c].to] \notin (members \ members') \ raced]_vars

(* updateMembershipStatuses: a membership is reported Ready only by a      *)
(* Reconcile in which a read of the group returned its member.             *)
MembershipReadyMeansMember ==
    [][\A c \in Claims : claim'[c].tag = "Ready" /\ claim[c].tag # "Ready"
         => list[c].exists /\ wanted[c] \in applied]_vars

(* Nothing that stops a group for good. *)
Unblocked == \A c \in Claims : claim[c].exists => ~external /\ claim[c].to # Self
AllReady == \A t \in Targets : ready[t]

(* docs/user-stories.md:85: once every target stays ready, each membership *)
(* of an internal group is a member in OpenBao and reported Ready, also    *)
(* after a target got another ID.  What stops a group is reported: every   *)
(* membership of an external group, a membership in the group itself.      *)
Exists(c) == claim[c].exists
ClaimsConverge ==
    <>[]AllReady
      => <>[](\/ /\ Unblocked
                 /\ \A c \in Claims : Exists(c)
                      => claim[c].tag = "Ready" /\ idOf[claim[c].to] \in members
              \/ external /\ \A c \in Claims : Exists(c) => claim[c].tag = "Rejected"
              \/ \E c \in Claims : Exists(c) /\ claim[c].to = Self /\ claim[c].tag = "Rejected")

(* docs/crds/openbao-group-membership.md:40-41: the edge of a deleted      *)
(* claim is removed, unless the operator wrote it and never got to record  *)
(* it as managed.                                                          *)
ReleasedEdgesGo ==
    <>[](AllReady /\ Unblocked) => <>[](members \subseteq IdsClaimed \cup foreign \cup leaked)

----------------------------------------------------------------------------
(* The inductive invariant behind the safety properties *)

(* What a current resourceVersion of the group is worth. *)
VersionsInv ==
    /\ Group \in synced => statusCache = status
    /\ Group \in current => mine = status

(* An ID that some target has or had: new ones are larger. *)
GivenOut(i) == \E t \in Targets : i <= idOf[t]

(* Only such IDs are recorded as managed, or wanted. *)
GivenInv ==
    /\ \A i \in status.managed \cup statusCache.managed \cup mine.managed : GivenOut(i)
    /\ \A c \in Claims : wanted[c] # NoId => GivenOut(wanted[c])

(* What the worker knows of the members: what it has read it has read in   *)
(* this Reconcile, and up to its write only the changes of others are new. *)
ReadInv ==
    /\ observed \subseteq applied
    /\ Between => members \ raced = observed \ raced

(* The claims the worker acts on: an ID that a target has got since the    *)
(* worker resolved it is not among the managed ones.                       *)
ClaimsInv ==
    /\ pc = "update"
         => \A c \in Listed :
              list[c].to # Self /\ idOf[list[c].to] \notin mine.managed \ {wanted[c]}
    /\ pc = "claims" => todo \subseteq Listed

(* acquire, resolveMemberships, UpdateGroup, observeGroupStatus and        *)
(* updateMembershipStatuses: what the copies of the status, the arrays and *)
(* the IDs that the worker holds have to do with the present ones.         *)
IndInv == TypeOK /\ VersionsInv /\ GivenInv /\ ReadInv /\ ClaimsInv
=============================================================================
