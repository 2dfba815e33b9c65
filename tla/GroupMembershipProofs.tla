----------------------- MODULE GroupMembershipProofs -----------------------
(***************************************************************************)
(* Proofs about GroupMembership, for all sets of claims, targets and IDs   *)
(* and every bound: the worker's arrays, built from copies that others     *)
(* change in the meantime, neither drop what is not theirs to drop nor     *)
(* report what was not read.                                               *)
(***************************************************************************)
EXTENDS GroupMembership, WellFoundedInduction, TLAPS

USE DEF claimVars, groupVars, targetVars, workVars, boundVars, histVars

----------------------------------------------------------------------------
(* Operators *)

(* The claim that is handled next is one of those to be handled. *)
LEMMA FirstIsMember ==
  ASSUME NEW S \in SUBSET Claims, S # {}
  PROVE  First(S) \in S
<1>1. \E c \in S : \A d \in S : ~(<<d, c>> \in OpToRel(<, Nat))
  BY NatLessThanWellFounded, WFMin, ClaimsAssumption
<1>2. PICK c \in S : \A d \in S : ~(<<d, c>> \in OpToRel(<, Nat))
  BY <1>1
<1>3. \A d \in S : c <= d
  <2>1. SUFFICES ASSUME NEW d \in S PROVE c <= d
    OBVIOUS
  <2>2. c \in Nat /\ d \in Nat
    BY ClaimsAssumption
  <2>3. ASSUME d < c PROVE <<d, c>> \in OpToRel(<, Nat)
    BY <2>2, <2>3 DEF OpToRel
  <2>4. ~(d < c)
    BY <1>2, <2>3, Zenon
  <2> QED BY <2>2, <2>4
<1> QED BY <1>3 DEF First

(* A resource with another condition is a resource. *)
LEMMA TagTyped ==
  ASSUME NEW f \in [Claims -> ClaimRecords], NEW c, NEW t \in ClaimTags
  PROVE  [f EXCEPT ![c].tag = t] \in [Claims -> ClaimRecords]
  BY DEF ClaimRecords

(* What a new claim, no claim and a new group are. *)
LEMMA NewTyped ==
  /\ Absent \in ClaimRecords /\ \A t \in Targets \cup {Self} : NewClaim(t) \in ClaimRecords
  /\ NoList \in [Claims -> ClaimRecords] /\ NothingWanted \in [Claims -> Ids \cup {NoId}]
  /\ NewGroup \in GroupStatus /\ NewGroup.managed = {}
  BY DEF Absent, NewClaim, ClaimRecords, ClaimTags, NoList, NothingWanted, NewGroup, GroupStatus,
         GroupTags

(* The budget stays within its bound. *)
LEMMA SpendTyped ==
  ASSUME budget \in 0 .. EnvBudget, Spend \/ budget' = budget
  PROVE  budget' \in 0 .. EnvBudget
  BY BoundsAssumption DEF Spend

(* The IDs that the worker has resolved. *)
LEMMA WantedTyped ==
  ASSUME TypeOK
  PROVE  WantedIds \subseteq Ids
  BY DEF TypeOK, WantedIds

----------------------------------------------------------------------------
(* The types of what the worker holds, and of the rest *)

WorkTypes ==
  /\ mine \in GroupStatus /\ observed \subseteq Ids
  /\ list \in [Claims -> ClaimRecords] /\ wanted \in [Claims -> Ids \cup {NoId}]
  /\ todo \subseteq Claims /\ pc \in Steps /\ queued \in BOOLEAN
  /\ current \subseteq Claims \cup {Group}
  /\ raced \subseteq Ids /\ applied \subseteq Ids

WorldTypes ==
  /\ claim \in [Claims -> ClaimRecords] /\ claimCache \in [Claims -> ClaimRecords]
  /\ status \in GroupStatus /\ statusCache \in GroupStatus
  /\ synced \subseteq Claims \cup {Group} /\ external \in BOOLEAN
  /\ ready \in [Targets -> BOOLEAN] /\ idOf \in [Targets -> Ids]
  /\ members \subseteq Ids /\ budget \in 0 .. EnvBudget /\ creates \in 0 .. MaxCreates
  /\ foreign \subseteq Ids /\ leaked \subseteq Ids

(* TypeOK by parts, before and after a step. *)
LEMMA TypeParts ==
  /\ TypeOK => WorkTypes /\ WorldTypes
  /\ WorkTypes' /\ WorldTypes' => TypeOK'
  BY DEF TypeOK, WorkTypes, WorldTypes

(* The worker after the end of a Reconcile. *)
LEMMA FinishTyped ==
  ASSUME NEW r \in BOOLEAN, queued \in BOOLEAN, Finish(r)
  PROVE  WorkTypes'
  BY NewTyped DEF Finish, WorkTypes, Steps

(* The worker once it has given up. *)
LEMMA GiveUpTyped ==
  ASSUME WorkTypes, GiveUp
  PROVE  WorkTypes'
  BY NewTyped DEF GiveUp, Goto, WorkTypes, Steps

----------------------------------------------------------------------------
(* The other parts of the invariant *)

Rest == VersionsInv /\ GivenInv /\ ReadInv /\ ClaimsInv

(* Reconcile returns: what is left is the stored status. *)
LEMMA ReturnKeeps ==
  ASSUME IndInv, NEW r, Finish(r), idOf' = idOf,
         Group \in synced' => statusCache' = status',
         \A i \in status'.managed \cup statusCache'.managed : GivenOut(i)
  PROVE  Rest'
<1>1. /\ pc' = "idle" /\ mine' = NewGroup /\ observed' = {} /\ current' = {}
      /\ wanted' = NothingWanted
  BY DEF Finish
<1>2. \A c \in Claims : wanted'[c] = NoId
  BY <1>1 DEF NothingWanted
<1>3. mine'.managed = {}
  BY <1>1, NewTyped
<1>4. \A i : GivenOut(i)' <=> GivenOut(i)
  BY DEF GivenOut
<1>5. GivenInv'
  BY <1>2, <1>3, <1>4 DEF GivenInv
<1> QED BY <1>1, <1>5 DEF Rest, VersionsInv, ReadInv, ClaimsInv, Between

(* The worker gives up: what is left is its copy of the status. *)
LEMMA GiveUpKeeps ==
  ASSUME IndInv, GiveUp, UNCHANGED <<groupVars, idOf>>, synced' \subseteq synced
  PROVE  Rest'
<1>1. /\ pc' = "report" /\ mine' = mine /\ observed' = {} /\ current' \subseteq current
      /\ wanted' = NothingWanted
  BY DEF GiveUp, Goto
<1>2. \A c \in Claims : wanted'[c] = NoId
  BY <1>1 DEF NothingWanted
<1>3. \A i : GivenOut(i)' <=> GivenOut(i)
  BY DEF GivenOut
<1>4. GivenInv'
  BY <1>1, <1>2, <1>3 DEF IndInv, GivenInv
<1>5. VersionsInv'
  BY <1>1 DEF IndInv, VersionsInv
<1> QED BY <1>1, <1>4, <1>5 DEF Rest, ReadInv, ClaimsInv, Between

(* The worker keeps what it holds: the two parts about the status. *)
LEMMA SameStatusKeeps ==
  ASSUME IndInv, UNCHANGED <<groupVars, idOf, mine, wanted>>,
         Group \in synced' => Group \in synced, Group \in current' => Group \in current
  PROVE  VersionsInv' /\ GivenInv'
<1>1. \A i : GivenOut(i)' <=> GivenOut(i)
  BY DEF GivenOut
<1> QED BY <1>1 DEF IndInv, VersionsInv, GivenInv

----------------------------------------------------------------------------
(* Reading the group and its claims *)

(* Begin keeps the invariant. *)
LEMMA BeginPreserves ==
  ASSUME IndInv, Begin
  PROVE  IndInv'
<1>1. WorkTypes /\ WorldTypes
  BY TypeParts DEF IndInv
<1>2. WorkTypes' /\ WorldTypes'
  BY <1>1 DEF Begin, WorkTypes, WorldTypes, Steps
<1>3. VersionsInv'
  BY DEF Begin, IndInv, VersionsInv
<1>4. \A i : GivenOut(i)' <=> GivenOut(i)
  BY DEF Begin, GivenOut
<1>5. GivenInv'
  BY <1>4 DEF Begin, IndInv, GivenInv
<1>6. ReadInv' /\ ClaimsInv'
  BY DEF Begin, IndInv, ReadInv, ClaimsInv, Between
<1> QED BY <1>2, <1>3, <1>5, <1>6, TypeParts DEF IndInv

(* acquire keeps the invariant. *)
LEMMA AcquirePreserves ==
  ASSUME IndInv, Acquire
  PROVE  IndInv'
<1>1. WorkTypes /\ WorldTypes
  BY TypeParts DEF IndInv
<1>2. WorldTypes'
  BY <1>1, SpendTyped DEF Acquire, WorldTypes
<1>3. CASE GiveUp
  <2>1. WorkTypes' /\ Rest'
    BY <1>1, <1>3, GiveUpTyped, GiveUpKeeps DEF Acquire
  <2> QED BY <1>2, <2>1, TypeParts DEF IndInv, Rest
<1>4. CASE /\ observed' = members /\ applied' = members /\ raced' = {}
           /\ Goto("list") /\ UNCHANGED <<budget, mine, list, wanted, todo, current>>
  <2>1. WorkTypes'
    BY <1>1, <1>4 DEF Goto, WorkTypes, WorldTypes, Steps
  <2>2. UNCHANGED <<groupVars, synced, targetVars, members>>
    BY DEF Acquire
  <2>3. VersionsInv' /\ GivenInv'
    BY <1>4, <2>2, SameStatusKeeps
  <2>4. ReadInv' /\ ClaimsInv'
    BY <1>4, <2>2 DEF Goto, ReadInv, ClaimsInv
  <2> QED BY <1>2, <2>1, <2>3, <2>4, TypeParts DEF IndInv
<1> QED BY <1>3, <1>4 DEF Acquire

(* membershipsForGroup keeps the invariant. *)
LEMMA ListPreserves ==
  ASSUME IndInv, ListMemberships
  PROVE  IndInv'
<1>1. WorkTypes /\ WorldTypes
  BY TypeParts DEF IndInv
<1>2. /\ pc = "list" /\ list' = claimCache /\ current' = current \cup (synced \cap Claims)
      /\ pc' \in {"refuse", "resolve"} /\ queued' = queued /\ todo' \subseteq Claims
      /\ UNCHANGED <<claimVars, groupVars, synced, targetVars, members, mine,
                     observed, wanted, boundVars, histVars>>
  BY <1>1 DEF ListMemberships, Goto, WorkTypes
<1>3. WorkTypes' /\ WorldTypes'
  BY <1>1, <1>2 DEF WorkTypes, WorldTypes, Steps
<1>4. VersionsInv' /\ GivenInv'
  BY <1>2, SameStatusKeeps, GroupAssumption
<1>5. ReadInv' /\ ClaimsInv'
  BY <1>2 DEF IndInv, ReadInv, ClaimsInv, Between
<1> QED BY <1>3, <1>4, <1>5, TypeParts DEF IndInv

(* resolveMemberships keeps the invariant. *)
LEMMA ResolvePreserves ==
  ASSUME IndInv, Resolve
  PROVE  IndInv'
<1>1. WorkTypes /\ WorldTypes
  BY TypeParts DEF IndInv
<1>2. /\ pc = "resolve" /\ queued' = queued
      /\ UNCHANGED <<claimVars, groupVars, synced, targetVars, members, mine,
                     observed, list, current, boundVars, histVars>>
  BY DEF Resolve, Goto
<1>3. WorldTypes'
  BY <1>1, <1>2 DEF WorldTypes
<1>4. \A i : GivenOut(i)' <=> GivenOut(i)
  BY <1>2 DEF GivenOut
<1>5. CASE {c \in Listed : ~Resolvable(c)} = {}
  <2>1. \A c \in Listed : list[c].to # Self /\ list[c].to \in Targets
    BY <1>1, <1>5 DEF Resolvable, Listed, WorkTypes, ClaimRecords
  <2>2. wanted' = [c \in Claims |-> IF c \in Listed THEN idOf[list[c].to] ELSE NoId]
        /\ todo' = todo /\ pc' \in {"update", "record"}
    BY <1>5 DEF Resolve, Goto
  <2>3. \A c \in Listed : wanted'[c] = idOf[list[c].to] /\ wanted'[c] \in Ids
    BY <1>1, <2>1, <2>2 DEF WorldTypes, Listed
  <2>4. \A c \in Claims \ Listed : wanted'[c] = NoId
    BY <2>2
  <2>5. wanted' \in [Claims -> Ids \cup {NoId}]
    BY <2>2, <2>3, <2>4
  <2>6. WorkTypes'
    BY <1>1, <1>2, <2>2, <2>5 DEF WorkTypes, Steps
  <2>7. ASSUME NEW c \in Listed PROVE GivenOut(wanted'[c])
    <3>1. list[c].to \in Targets /\ wanted'[c] = idOf[list[c].to] /\ wanted'[c] \in Nat
      BY <2>1, <2>3, <2>7, IdsAssumption
    <3>2. wanted'[c] <= idOf[list[c].to]
      BY <3>1
    <3> QED BY <3>1, <3>2 DEF GivenOut
  <2>8. GivenInv'
    BY <1>2, <1>4, <2>4, <2>7 DEF IndInv, GivenInv
  <2>9. VersionsInv' /\ ReadInv'
    BY <1>2 DEF IndInv, VersionsInv, ReadInv, Between
  <2>10. ClaimsInv'
    BY <1>2, <2>1, <2>2, <2>3 DEF ClaimsInv, Listed
  <2> QED BY <1>3, <2>6, <2>8, <2>9, <2>10, TypeParts DEF IndInv
<1>6. CASE {c \in Listed : ~Resolvable(c)} # {}
  <2>1. /\ todo' = {First({c \in Listed : ~Resolvable(c)})} /\ pc' = "refuse" /\ wanted' = wanted
    BY <1>6 DEF Resolve, Goto
  <2>2. {c \in Listed : ~Resolvable(c)} \in SUBSET Claims
    BY DEF Listed
  <2>3. todo' \subseteq Claims
    BY <1>6, <2>1, <2>2, FirstIsMember
  <2>4. WorkTypes'
    BY <1>1, <1>2, <2>1, <2>3 DEF WorkTypes, Steps
  <2>5. VersionsInv' /\ GivenInv'
    BY <1>2, <2>1, SameStatusKeeps
  <2>6. ReadInv' /\ ClaimsInv'
    BY <1>2, <2>1 DEF IndInv, ReadInv, ClaimsInv, Between
  <2> QED BY <1>3, <2>4, <2>5, <2>6, TypeParts DEF IndInv
<1> QED BY <1>5, <1>6

----------------------------------------------------------------------------
(* Status of memberships *)

(* What a write of a membership's status may change. *)
LEMMA ClaimStep ==
  ASSUME WorldTypes, NEW c, NEW t \in ClaimTags,
         ClaimUnchanged(c, t) \/ ClaimWritten(c, t) \/ ClaimRejected(c, t)
  PROVE  /\ claim' \in [Claims -> ClaimRecords] /\ synced' \subseteq synced
         /\ budget' \in 0 .. EnvBudget
<1>1. CASE ClaimUnchanged(c, t)
  BY <1>1 DEF ClaimUnchanged, WorldTypes
<1>2. CASE ClaimWritten(c, t)
  BY <1>2, TagTyped DEF ClaimWritten, WorldTypes
<1>3. CASE ClaimRejected(c, t)
  BY <1>3, SpendTyped DEF ClaimRejected, WorldTypes
<1> QED BY <1>1, <1>2, <1>3

(* markMembershipError and markMembershipStalled keep the invariant. *)
LEMMA RefusePreserves ==
  ASSUME IndInv, Refuse
  PROVE  IndInv'
<1>1. WorkTypes /\ WorldTypes
  BY TypeParts DEF IndInv
<1> DEFINE c == First(todo)
           t == IF external \/ list[c].to = Self THEN "Rejected" ELSE "Stalled"
<1>2. /\ UNCHANGED <<claimCache, groupVars, targetVars, members, creates, foreign, leaked>>
      /\ pc = "refuse" /\ t \in ClaimTags
  BY DEF Refuse, ClaimTags
<1>3. /\ ClaimUnchanged(c, t) \/ ClaimWritten(c, t) \/ ClaimRejected(c, t)
      /\ \/ GiveUp
         \/ /\ todo' = todo \ {c} /\ Goto("refuse")
            /\ UNCHANGED <<mine, observed, list, wanted, current, raced, applied>>
  BY DEF Refuse
<1> HIDE DEF c, t
<1>4. /\ claim' \in [Claims -> ClaimRecords] /\ synced' \subseteq synced
      /\ budget' \in 0 .. EnvBudget
  BY <1>1, <1>2, <1>3, ClaimStep
<1>5. WorldTypes'
  BY <1>1, <1>2, <1>4 DEF WorldTypes
<1>6. CASE GiveUp
  <2>1. WorkTypes' /\ Rest'
    BY <1>1, <1>2, <1>4, <1>6, GiveUpTyped, GiveUpKeeps
  <2> QED BY <1>5, <2>1, TypeParts DEF IndInv, Rest
<1>7. CASE /\ todo' = todo \ {c} /\ Goto("refuse")
           /\ UNCHANGED <<mine, observed, list, wanted, current, raced, applied>>
  <2>1. WorkTypes'
    BY <1>1, <1>7 DEF Goto, WorkTypes, Steps
  <2>2. VersionsInv' /\ GivenInv'
    BY <1>2, <1>4, <1>7, SameStatusKeeps
  <2>3. ReadInv' /\ ClaimsInv'
    BY <1>7 DEF IndInv, Goto, ReadInv, ClaimsInv, Between
  <2> QED BY <1>5, <2>1, <2>2, <2>3, TypeParts DEF IndInv
<1> QED BY <1>3, <1>6, <1>7

(* updateMembershipStatuses keeps the invariant. *)
LEMMA RecordClaimPreserves ==
  ASSUME IndInv, RecordClaim
  PROVE  IndInv'
<1>1. WorkTypes /\ WorldTypes
  BY TypeParts DEF IndInv
<1> DEFINE c == First(todo)
<1>2. /\ UNCHANGED <<claimCache, groupVars, targetVars, members, creates, foreign, leaked>>
      /\ pc = "claims" /\ ClaimTag(c) \in ClaimTags
  BY DEF RecordClaim, ClaimTag, ClaimTags
<1>3. /\ \/ UNCHANGED <<claim, synced, budget>>
         \/ ClaimUnchanged(c, ClaimTag(c)) \/ ClaimWritten(c, ClaimTag(c))
         \/ ClaimRejected(c, ClaimTag(c))
      /\ \/ Finish(DriftChecks) \/ Finish(TRUE)
         \/ /\ todo' = todo \ {c}
            /\ UNCHANGED <<pc, queued, mine, observed, list, wanted, current, raced, applied>>
  BY DEF RecordClaim
<1> HIDE DEF c
<1>4. /\ claim' \in [Claims -> ClaimRecords] /\ synced' \subseteq synced
      /\ budget' \in 0 .. EnvBudget
  <2>1. CASE UNCHANGED <<claim, synced, budget>>
    BY <1>1, <2>1 DEF WorldTypes
  <2> QED BY <1>1, <1>2, <1>3, <2>1, ClaimStep
<1>5. WorldTypes'
  BY <1>1, <1>2, <1>4 DEF WorldTypes
<1>6. ASSUME NEW r \in BOOLEAN, Finish(r) PROVE IndInv'
  <2>1. WorkTypes'
    BY <1>1, <1>6, FinishTyped DEF WorkTypes
  <2>2. Rest'
    BY <1>2, <1>4, <1>6, ReturnKeeps DEF IndInv, VersionsInv, GivenInv
  <2> QED BY <1>5, <2>1, <2>2, TypeParts DEF IndInv, Rest
<1>7. CASE /\ todo' = todo \ {c}
           /\ UNCHANGED <<pc, queued, mine, observed, list, wanted, current, raced, applied>>
  <2>1. WorkTypes'
    BY <1>1, <1>7 DEF WorkTypes
  <2>2. VersionsInv' /\ GivenInv'
    BY <1>2, <1>4, <1>7, SameStatusKeeps
  <2>3. ReadInv' /\ ClaimsInv'
    BY <1>2, <1>7 DEF IndInv, ReadInv, ClaimsInv, Between, Listed
  <2> QED BY <1>5, <2>1, <2>2, <2>3, TypeParts DEF IndInv
<1> QED BY <1>3, <1>6, <1>7, BoundsAssumption

----------------------------------------------------------------------------
(* The group's update and status *)

(* UpdateGroup keeps the invariant, also when its answer is lost. *)
LEMMA UpdatePreserves ==
  ASSUME IndInv, Update
  PROVE  IndInv'
<1>1. WorkTypes /\ WorldTypes /\ WantedIds \subseteq Ids
  BY TypeParts, WantedTyped DEF IndInv
<1>2. /\ UNCHANGED <<claimVars, groupVars, synced, targetVars, creates>>
      /\ budget' = budget \/ Spend
  BY DEF Update
<1>3. members' \subseteq Ids /\ foreign' \subseteq Ids /\ leaked' \subseteq Ids
  <2>1. Desired(WantedIds) \subseteq Ids
    BY <1>1 DEF Desired, WorkTypes
  <2> QED BY <1>1, <2>1 DEF Update, WorldTypes
<1>4. WorldTypes'
  BY <1>1, <1>2, <1>3, SpendTyped DEF WorldTypes
<1>5. CASE GiveUp
  <2>1. WorkTypes' /\ Rest'
    BY <1>1, <1>2, <1>5, GiveUpTyped, GiveUpKeeps
  <2> QED BY <1>4, <2>1, TypeParts DEF IndInv, Rest
<1>6. CASE Goto("reread") /\ raced' = {} /\ UNCHANGED <<workVars, current, applied, budget>>
  <2>1. WorkTypes'
    BY <1>1, <1>6 DEF Goto, WorkTypes, Steps
  <2>2. VersionsInv' /\ GivenInv'
    BY <1>2, <1>6, SameStatusKeeps
  <2>3. ReadInv' /\ ClaimsInv'
    BY <1>6 DEF IndInv, Goto, ReadInv, ClaimsInv, Between
  <2> QED BY <1>4, <2>1, <2>2, <2>3, TypeParts DEF IndInv
<1> QED BY <1>5, <1>6 DEF Update

(* The read after the update keeps the invariant. *)
LEMMA RereadPreserves ==
  ASSUME IndInv, Reread
  PROVE  IndInv'
<1>1. WorkTypes /\ WorldTypes
  BY TypeParts DEF IndInv
<1>2. /\ UNCHANGED <<claimVars, groupVars, synced, targetVars, members, creates, foreign, leaked>>
      /\ budget' = budget \/ Spend
  BY DEF Reread
<1>3. WorldTypes'
  BY <1>1, <1>2, SpendTyped DEF WorldTypes
<1>4. CASE GiveUp
  <2>1. WorkTypes' /\ Rest'
    BY <1>1, <1>2, <1>4, GiveUpTyped, GiveUpKeeps
  <2> QED BY <1>3, <2>1, TypeParts DEF IndInv, Rest
<1>5. CASE /\ observed' = members /\ applied' = applied \cup members
           /\ Goto("record")
           /\ UNCHANGED <<budget, mine, list, wanted, todo, current, raced>>
  <2>1. WorkTypes'
    BY <1>1, <1>5 DEF Goto, WorkTypes, WorldTypes, Steps
  <2>2. VersionsInv' /\ GivenInv'
    BY <1>2, <1>5, SameStatusKeeps
  <2>3. ReadInv' /\ ClaimsInv'
    BY <1>5 DEF Goto, ReadInv, ClaimsInv, Between
  <2> QED BY <1>3, <2>1, <2>2, <2>3, TypeParts DEF IndInv
<1> QED BY <1>4, <1>5 DEF Reread

(* A status that cannot be written ends the Reconcile. *)
LEMMA StatusRejectedPreserves ==
  ASSUME IndInv, StatusRejected,
         UNCHANGED <<claimVars, targetVars, members, creates, foreign, leaked>>
  PROVE  IndInv'
<1>1. WorkTypes /\ WorldTypes
  BY TypeParts DEF IndInv
<1>2. Finish(TRUE) /\ UNCHANGED <<groupVars, synced>> /\ (budget' = budget \/ Spend)
  BY DEF StatusRejected
<1>3. WorldTypes'
  BY <1>1, <1>2, SpendTyped DEF WorldTypes
<1>4. WorkTypes'
  BY <1>1, <1>2, FinishTyped DEF WorkTypes
<1>5. Rest'
  BY <1>2, ReturnKeeps DEF IndInv, VersionsInv, GivenInv
<1> QED BY <1>3, <1>4, <1>5, TypeParts DEF IndInv, Rest

(* A status with the IDs that the worker wants is a status. *)
LEMMA RecordedTyped ==
  ASSUME TypeOK, NEW t \in GroupTags
  PROVE  /\ [managed |-> Managed, tag |-> t] \in GroupStatus
         /\ [managed |-> Managed, tag |-> t].managed = WantedIds
  BY WantedTyped DEF GroupStatus, Managed

(* Recording the managed IDs keeps the invariant. *)
LEMMA RecordPreserves ==
  ASSUME IndInv, Record
  PROVE  IndInv'
<1>1. WorkTypes /\ WorldTypes /\ WantedIds \subseteq Ids
  BY TypeParts, WantedTyped DEF IndInv
<1> DEFINE s == [managed |-> Managed, tag |-> "Ready"]
<1>2. s \in GroupStatus /\ s.managed = WantedIds
  BY RecordedTyped DEF IndInv, GroupTags
<1>3. UNCHANGED <<claimVars, targetVars, members, creates>>
  BY DEF Record
<1>4. CASE StatusRejected /\ UNCHANGED <<foreign, leaked>>
  BY <1>3, <1>4, StatusRejectedPreserves
<1>5. CASE /\ \/ mine = s /\ mine' = mine /\ UNCHANGED <<groupVars, synced, budget, foreign, leaked>>
              \/ /\ StatusWritten(s) /\ mine' = s
                 /\ foreign' = foreign \ Managed /\ leaked' = leaked \ Managed
           /\ todo' = Listed /\ Goto("claims")
           /\ UNCHANGED <<observed, list, wanted, current, raced, applied>>
  <2>1. /\ mine' = s /\ status' \in {status, s} /\ statusCache' = statusCache
        /\ synced' \subseteq synced /\ budget' = budget
        /\ foreign' \subseteq foreign /\ leaked' \subseteq leaked
        /\ Group \in synced' => status' = status
        /\ Group \in current => status' = s \/ (mine = s /\ status' = status)
    BY <1>5 DEF StatusWritten
  <2> HIDE DEF s
  <2>2. WorldTypes'
    BY <1>1, <1>2, <1>3, <2>1 DEF WorldTypes
  <2>3. WorkTypes'
    BY <1>1, <1>2, <1>5, <2>1 DEF Goto, WorkTypes, Steps, Listed
  <2>4. VersionsInv'
    BY <1>5, <2>1 DEF IndInv, VersionsInv
  <2>5. \A i : GivenOut(i)' <=> GivenOut(i)
    BY <1>3 DEF GivenOut
  <2>6. \A i \in WantedIds : GivenOut(i)
    BY DEF IndInv, GivenInv, WantedIds
  <2>7. GivenInv'
    BY <1>2, <1>5, <2>1, <2>5, <2>6 DEF IndInv, GivenInv
  <2>8. ReadInv' /\ ClaimsInv'
    BY <1>5 DEF IndInv, Goto, ReadInv, ClaimsInv, Between, Listed
  <2> QED BY <2>2, <2>3, <2>4, <2>7, <2>8, TypeParts DEF IndInv
<1> QED BY <1>4, <1>5 DEF Record

(* Reporting a failure keeps the invariant. *)
LEMMA ReportPreserves ==
  ASSUME IndInv, Report
  PROVE  IndInv'
<1>1. WorkTypes /\ WorldTypes
  BY TypeParts DEF IndInv
<1> DEFINE s == [mine EXCEPT !.tag = "Failed"]
<1>2. s \in GroupStatus /\ s.managed = mine.managed
  BY <1>1 DEF WorkTypes, GroupStatus, GroupTags
<1>3. UNCHANGED <<claimVars, targetVars, members, creates, foreign, leaked>>
  BY DEF Report
<1>4. CASE StatusRejected
  BY <1>3, <1>4, StatusRejectedPreserves
<1>5. CASE /\ UNCHANGED <<groupVars, synced, budget>> \/ StatusWritten(s)
           /\ Finish(TRUE)
  <2>1. /\ status' \in {status, s} /\ statusCache' = statusCache
        /\ synced' \subseteq synced /\ budget' = budget
        /\ Group \in synced' => status' = status
    BY <1>5 DEF StatusWritten
  <2> HIDE DEF s
  <2>2. WorldTypes'
    BY <1>1, <1>2, <1>3, <2>1 DEF WorldTypes
  <2>3. WorkTypes'
    BY <1>1, <1>5, FinishTyped DEF WorkTypes
  <2>4. \A i \in status'.managed \cup statusCache'.managed : GivenOut(i)
    BY <1>2, <2>1 DEF IndInv, GivenInv
  <2>5. Group \in synced' => statusCache' = status'
    BY <2>1 DEF IndInv, VersionsInv
  <2>6. Rest'
    BY <1>3, <1>5, <2>4, <2>5, ReturnKeeps
  <2> QED BY <2>2, <2>3, <2>6, TypeParts DEF IndInv, Rest
<1> QED BY <1>4, <1>5 DEF Report

----------------------------------------------------------------------------
(* Users, the watches, targets and other administrators *)

(* The worker's part after a step that leaves it alone. *)
LEMMA SameWorkKeeps ==
  ASSUME IndInv, UNCHANGED <<pc, workVars, applied>>, queued' \in BOOLEAN,
         current' \subseteq current, raced' \subseteq Ids
  PROVE  WorkTypes'
<1>1. WorkTypes
  BY TypeParts DEF IndInv
<1> QED BY <1>1 DEF WorkTypes

(* Creating and deleting memberships keeps the invariant. *)
LEMMA UserPreserves ==
  ASSUME IndInv, UserCreate \/ UserDelete
  PROVE  IndInv'
<1>1. WorkTypes /\ WorldTypes
  BY TypeParts DEF IndInv
<1>2. creates' \in 0 .. MaxCreates
  BY <1>1, BoundsAssumption DEF UserCreate, UserDelete, WorldTypes
<1>3. PICK c \in Claims, r \in ClaimRecords : ClaimChanges(c, r)
  BY NewTyped DEF UserCreate, UserDelete
<1>4. /\ claim' = [claim EXCEPT ![c] = r]
      /\ synced' = synced \ {c} /\ current' = current \ {c}
      /\ UNCHANGED <<claimCache, groupVars, queued, targetVars, members, pc, workVars,
                     budget, histVars>>
  BY <1>3 DEF ClaimChanges
<1>5. WorldTypes'
  BY <1>1, <1>2, <1>4 DEF WorldTypes
<1>6. WorkTypes'
  BY <1>1, <1>4 DEF WorkTypes
<1>7. VersionsInv' /\ GivenInv'
  BY <1>4, SameStatusKeeps
<1>8. ReadInv' /\ ClaimsInv'
  BY <1>4 DEF IndInv, ReadInv, ClaimsInv, Between, Listed
<1> QED BY <1>5, <1>6, <1>7, <1>8, TypeParts DEF IndInv

(* The watches keep the invariant. *)
LEMMA WatchPreserves ==
  ASSUME IndInv, SyncClaim \/ SyncGroup
  PROVE  IndInv'
<1>1. WorkTypes /\ WorldTypes
  BY TypeParts DEF IndInv
<1>2. /\ queued' = TRUE
      /\ UNCHANGED <<claim, status, targetVars, members, pc, workVars, current,
                     boundVars, histVars>>
  BY DEF SyncClaim, SyncGroup
<1>3. WorkTypes'
  BY <1>1, <1>2 DEF WorkTypes
<1>4. ReadInv' /\ ClaimsInv'
  BY <1>2 DEF IndInv, ReadInv, ClaimsInv, Between, Listed
<1>5. CASE SyncClaim
  <2>1. PICK c \in Claims : /\ claimCache' = [claimCache EXCEPT ![c] = claim[c]]
                            /\ synced' = synced \cup {c}
    BY <1>5 DEF SyncClaim
  <2>2. statusCache' = statusCache
    BY <1>5 DEF SyncClaim
  <2>3. WorldTypes'
    BY <1>1, <1>2, <2>1, <2>2 DEF WorldTypes
  <2>4. VersionsInv' /\ GivenInv'
    BY <1>2, <2>1, <2>2, SameStatusKeeps, GroupAssumption
  <2> QED BY <1>3, <1>4, <2>3, <2>4, TypeParts DEF IndInv
<1>6. CASE SyncGroup
  <2>1. statusCache' = status /\ synced' = synced \cup {Group} /\ claimCache' = claimCache
    BY <1>6 DEF SyncGroup
  <2>2. WorldTypes'
    BY <1>1, <1>2, <2>1 DEF WorldTypes
  <2>3. \A i : GivenOut(i)' <=> GivenOut(i)
    BY <1>2 DEF GivenOut
  <2>4. VersionsInv' /\ GivenInv'
    BY <1>2, <2>1, <2>3 DEF IndInv, VersionsInv, GivenInv
  <2> QED BY <1>3, <1>4, <2>2, <2>4, TypeParts DEF IndInv
<1> QED BY <1>5, <1>6

(* A target becoming ready or not keeps the invariant. *)
LEMMA ReadinessPreserves ==
  ASSUME IndInv, TargetReadiness
  PROVE  IndInv'
<1>1. WorkTypes /\ WorldTypes
  BY TypeParts DEF IndInv
<1>2. PICK t \in Targets : /\ budget' = budget \/ Spend
                           /\ ready' = [ready EXCEPT ![t] = ~@]
                           /\ queued' = (queued \/ Notified(t))
  BY DEF TargetReadiness
<1>3. UNCHANGED <<claimVars, groupVars, synced, idOf, external, members, pc,
                  workVars, current, creates, histVars>>
  BY DEF TargetReadiness
<1>4. WorldTypes'
  BY <1>1, <1>2, <1>3, SpendTyped DEF WorldTypes
<1>5. Notified(t) \in BOOLEAN
  BY DEF Notified
<1>6. WorkTypes'
  BY <1>1, <1>2, <1>3, <1>5 DEF WorkTypes
<1>7. VersionsInv' /\ GivenInv'
  BY <1>3, SameStatusKeeps
<1>8. ReadInv' /\ ClaimsInv'
  BY <1>3 DEF IndInv, ReadInv, ClaimsInv, Between, Listed
<1> QED BY <1>4, <1>6, <1>7, <1>8, TypeParts DEF IndInv

(* A new ID is larger than all that were given out: it is neither managed  *)
(* nor wanted, and the others stay given out.                              *)
LEMMA NewIdIsNew ==
  ASSUME idOf \in [Targets -> Ids], NEW t \in Targets, NEW i \in Ids,
         \A u \in Targets : idOf[u] < i, idOf' = [idOf EXCEPT ![t] = i]
  PROVE  /\ ~GivenOut(i)
         /\ \A j \in Ids : GivenOut(j) => GivenOut(j)'
<1>1. \A u \in Targets : idOf[u] \in Nat /\ i \in Nat /\ idOf'[t] = i
  BY IdsAssumption
<1>2. ~GivenOut(i)
  BY <1>1 DEF GivenOut
<1>3. ASSUME NEW j \in Ids, GivenOut(j) PROVE GivenOut(j)'
  <2>1. PICK u \in Targets : j <= idOf[u]
    BY <1>3 DEF GivenOut
  <2>2. j \in Nat
    BY IdsAssumption
  <2>3. j <= idOf'[t]
    BY <1>1, <2>1, <2>2
  <2> QED BY <2>3 DEF GivenOut
<1> QED BY <1>2, <1>3

(* A target that gets another ID keeps the invariant. *)
LEMMA ReplacedPreserves ==
  ASSUME IndInv, TargetReplaced
  PROVE  IndInv'
<1>1. WorkTypes /\ WorldTypes
  BY TypeParts DEF IndInv
<1>2. PICK t \in Targets, i \in Ids, dropped \in SUBSET Ids :
         /\ \A u \in Targets : idOf[u] < i
         /\ idOf' = [idOf EXCEPT ![t] = i]
         /\ queued' = (queued \/ Notified(t))
         /\ members' = members \ dropped
         /\ raced' = IF Between THEN raced \cup dropped ELSE raced
         /\ foreign' = foreign \ dropped /\ leaked' = leaked \ dropped
  <2>1. \A t \in Targets : SUBSET {idOf[t]} \subseteq SUBSET Ids
    BY <1>1 DEF WorldTypes
  <2> QED BY <2>1 DEF TargetReplaced
<1>3. /\ UNCHANGED <<claimVars, groupVars, synced, ready, external, pc, workVars,
                     current, creates, applied>>
      /\ Spend
  BY DEF TargetReplaced
<1>4. dropped \subseteq Ids /\ Notified(t) \in BOOLEAN
  BY <1>1 DEF WorldTypes, Notified
<1>5. WorldTypes'
  BY <1>1, <1>2, <1>3, SpendTyped DEF WorldTypes
<1>6. WorkTypes'
  BY <1>1, <1>2, <1>3, <1>4 DEF WorkTypes
<1>7. ~GivenOut(i) /\ \A j \in Ids : GivenOut(j) => GivenOut(j)'
  BY <1>1, <1>2, NewIdIsNew DEF WorldTypes
<1>8. status.managed \cup statusCache.managed \cup mine.managed \subseteq Ids
  BY <1>1 DEF WorkTypes, WorldTypes, GroupStatus
<1>9. GivenInv'
  <2>1. \A j \in status.managed \cup statusCache.managed \cup mine.managed : GivenOut(j)'
    BY <1>7, <1>8 DEF IndInv, GivenInv
  <2>2. ASSUME NEW c \in Claims, wanted[c] # NoId
        PROVE  \E u \in Targets : wanted[c] <= idOf'[u]
    <3>1. PICK j \in Ids : j = wanted[c]
      BY <1>1, <2>2 DEF WorkTypes
    <3>2. GivenOut(j)
      BY <2>2, <3>1 DEF IndInv, GivenInv
    <3>3. GivenOut(j)'
      BY <1>7, <3>2
    <3> QED BY <3>1, <3>3 DEF GivenOut
  <2> QED BY <1>3, <2>1, <2>2 DEF GivenInv, GivenOut
<1>10. VersionsInv'
  BY <1>3 DEF IndInv, VersionsInv
<1>11. ReadInv'
  BY <1>2, <1>3 DEF IndInv, ReadInv, Between
<1>12. ClaimsInv'
  <2>1. i \notin mine.managed
    BY <1>7 DEF IndInv, GivenInv
  <2>2. \A u : u \in Targets => idOf'[u] = i \/ idOf'[u] = idOf[u]
    BY <1>1, <1>2 DEF WorldTypes
  <2>3. \A c \in Listed : list[c].to # Self => list[c].to \in Targets
    BY <1>1 DEF WorkTypes, Listed, ClaimRecords
  <2> QED BY <1>3, <2>1, <2>2, <2>3 DEF IndInv, ClaimsInv, Listed
<1> QED BY <1>5, <1>6, <1>9, <1>10, <1>11, <1>12, TypeParts DEF IndInv

(* A change of the members by somebody else keeps the invariant. *)
LEMMA ForeignPreserves ==
  ASSUME IndInv, ForeignChange
  PROVE  IndInv'
<1>1. WorkTypes /\ WorldTypes
  BY TypeParts DEF IndInv
<1>2. PICK i \in Ids :
         /\ raced' = IF Between THEN raced \cup {i} ELSE raced
         /\ members' \in {members \cup {i}, members \ {i}}
         /\ foreign' \in {foreign \cup {i}, foreign \ {i}}
         /\ leaked' = leaked \ {i}
  BY DEF ForeignChange
<1>3. /\ UNCHANGED <<claimVars, groupVars, synced, queued, targetVars, pc, workVars,
                     current, creates, applied>>
      /\ Spend
  BY DEF ForeignChange
<1>4. WorldTypes'
  BY <1>1, <1>2, <1>3, SpendTyped DEF WorldTypes
<1>5. WorkTypes'
  BY <1>1, <1>2, <1>3 DEF WorkTypes
<1>6. VersionsInv' /\ GivenInv'
  BY <1>3, SameStatusKeeps
<1>7. ReadInv'
  BY <1>2, <1>3 DEF IndInv, ReadInv, Between
<1>8. ClaimsInv'
  BY <1>3 DEF IndInv, ClaimsInv, Listed
<1> QED BY <1>4, <1>5, <1>6, <1>7, <1>8, TypeParts DEF IndInv

(* A restart keeps the invariant. *)
LEMMA CrashPreserves ==
  ASSUME IndInv, Crash
  PROVE  IndInv'
<1>1. WorkTypes /\ WorldTypes
  BY TypeParts DEF IndInv
<1>2. /\ Finish(TRUE) /\ claimCache' = claim /\ statusCache' = status
      /\ synced' = Claims \cup {Group} /\ Spend
      /\ UNCHANGED <<claim, status, targetVars, members, creates, foreign, leaked>>
  BY DEF Crash
<1>3. WorldTypes'
  BY <1>1, <1>2, SpendTyped DEF WorldTypes
<1>4. WorkTypes'
  BY <1>1, <1>2, FinishTyped DEF WorkTypes
<1>5. Rest'
  BY <1>2, ReturnKeeps DEF IndInv, GivenInv
<1> QED BY <1>3, <1>4, <1>5, TypeParts DEF IndInv, Rest

----------------------------------------------------------------------------
(* The invariant *)

(* The invariant holds at the start. *)
LEMMA InitEstablishes ==
  ASSUME Init
  PROVE  IndInv
<1>1. claim \in [Claims -> ClaimRecords]
  <2>1. claim \in [Claims -> {Absent} \cup {NewClaim(t) : t \in Targets \cup {Self}}]
    BY DEF Init
  <2>2. {Absent} \cup {NewClaim(t) : t \in Targets \cup {Self}} \subseteq ClaimRecords
    BY NewTyped
  <2> QED BY <2>1, <2>2
<1>2. TypeOK
  BY <1>1, NewTyped, IdsAssumption, BoundsAssumption DEF Init, TypeOK, Steps
<1>3. VersionsInv /\ ReadInv /\ ClaimsInv
  BY DEF Init, VersionsInv, ReadInv, ClaimsInv, Between
<1>4. GivenInv
  BY NewTyped DEF Init, GivenInv, NothingWanted
<1> QED BY <1>2, <1>3, <1>4 DEF IndInv

(* Every step keeps the invariant. *)
LEMMA NextPreserves ==
  ASSUME IndInv, [Next]_vars
  PROVE  IndInv'
<1>1. CASE Worker
  BY <1>1, BeginPreserves, AcquirePreserves, ListPreserves, ResolvePreserves, RefusePreserves,
     UpdatePreserves, RereadPreserves, RecordPreserves, RecordClaimPreserves, ReportPreserves
     DEF Worker
<1>2. CASE Watch
  BY <1>2, WatchPreserves DEF Watch
<1>3. CASE Environment
  BY <1>3, UserPreserves, ReadinessPreserves, ReplacedPreserves, ForeignPreserves, CrashPreserves
     DEF Environment
<1>4. CASE UNCHANGED vars
  <2>1. WorkTypes /\ WorldTypes
    BY TypeParts DEF IndInv
  <2>2. WorkTypes' /\ WorldTypes'
    BY <1>4, <2>1 DEF vars, WorkTypes, WorldTypes
  <2>3. VersionsInv' /\ GivenInv'
    BY <1>4, SameStatusKeeps DEF vars
  <2>4. ReadInv' /\ ClaimsInv'
    BY <1>4 DEF vars, IndInv, ReadInv, ClaimsInv, Between, Listed
  <2> QED BY <2>2, <2>3, <2>4, TypeParts DEF IndInv
<1> QED BY <1>1, <1>2, <1>3, <1>4 DEF Next

(* IndInv holds in every reachable state, for every value of the constants. *)
THEOREM Invariance == Spec => []IndInv
<1>1. Init => IndInv
  BY InitEstablishes
<1>2. IndInv /\ [Next]_vars => IndInv'
  BY NextPreserves
<1> QED BY <1>1, <1>2, PTL DEF Spec

----------------------------------------------------------------------------
(* Action properties *)

(* Only UpdateGroup leaves the step that writes the arrays, apart from a   *)
(* restart; it writes them, or fails.                                      *)
LEMMA UpdateSteps ==
  ASSUME [Next]_vars, pc = "update", pc' \in {"reread", "report"}
  PROVE  members' = Desired(WantedIds) \/ members' = members
<1>1. CASE Update
  BY <1>1 DEF Update
<1>2. CASE Begin \/ Acquire \/ ListMemberships \/ Resolve \/ Refuse \/ Reread \/ Record
           \/ RecordClaim \/ Report
  BY <1>2 DEF Begin, Acquire, ListMemberships, Resolve, Refuse, Reread, Record, RecordClaim, Report
<1>3. ~(Watch \/ Environment)
  BY DEF Watch, Environment, SyncClaim, SyncGroup, UserCreate, UserDelete, ClaimChanges,
         TargetReadiness, TargetReplaced, ForeignChange, Crash, Finish
<1>4. ~UNCHANGED vars
  BY DEF vars
<1> QED BY <1>1, <1>2, <1>3, <1>4 DEF Next, Worker

(* What the write takes away, apart from the changes of others, is managed *)
(* and not wanted any more.                                                *)
LEMMA UpdateTakesManaged ==
  ASSUME IndInv, [Next]_vars, pc = "update", pc' \in {"reread", "report"},
         NEW i \in (members \ members') \ raced
  PROVE  i \in mine.managed /\ i \notin WantedIds
<1>1. members \ raced = observed \ raced
  BY DEF IndInv, ReadInv, Between
<1>2. members' = Desired(WantedIds)
  BY UpdateSteps
<1> QED BY <1>1, <1>2 DEF Desired

(* Members that somebody else added survive the write of the arrays.       *)
THEOREM ForeignEdges == Spec => ForeignEdgesSurvive
<1>1. ASSUME IndInv, [Next]_vars, pc = "update", pc' \in {"reread", "report"}, Group \in current
      PROVE  (members \cap foreign) \ members' \subseteq raced \cup status.managed
  <2>1. mine = status
    BY <1>1 DEF IndInv, VersionsInv
  <2> QED BY <1>1, <2>1, UpdateTakesManaged
<1>2. IndInv /\ [Next]_vars
      => [pc = "update" /\ pc' \in {"reread", "report"}
            => \/ (members \cap foreign) \ members' \subseteq raced \cup status.managed
               \/ Group \notin current]_vars
  BY <1>1
<1> QED BY <1>2, Invariance, PTL DEF Spec, ForeignEdgesSurvive

(* The write of the arrays keeps the edge of every claim that was listed,  *)
(* also when its target got another ID after it was resolved.              *)
THEOREM ClaimedEdges == Spec => StalledClaimsKeepTheirEdges
<1>1. ASSUME IndInv, [Next]_vars, pc = "update", pc' \in {"reread", "report"},
             NEW c \in Listed, list[c].to # Self
      PROVE  idOf[list[c].to] \notin (members \ members') \ raced
  <2>1. idOf[list[c].to] \notin mine.managed \ {wanted[c]}
    BY <1>1 DEF IndInv, ClaimsInv
  <2>2. SUFFICES ASSUME idOf[list[c].to] \in (members \ members') \ raced PROVE FALSE
    OBVIOUS
  <2>3. idOf[list[c].to] \in mine.managed /\ idOf[list[c].to] \notin WantedIds
    BY <1>1, <2>2, UpdateTakesManaged
  <2>4. idOf[list[c].to] = wanted[c] /\ c \in Claims
    BY <2>1, <2>3 DEF Listed
  <2>5. idOf[list[c].to] \in Ids
    BY <1>1, <2>4 DEF IndInv, TypeOK, ClaimRecords
  <2> QED BY <2>3, <2>4, <2>5, IdsAssumption DEF WantedIds
<1>2. IndInv /\ [Next]_vars
      => [pc = "update" /\ pc' \in {"reread", "report"}
            => \A c \in Listed : list[c].to # Self
                 => idOf[list[c].to] \notin (members \ members') \ raced]_vars
  BY <1>1
<1> QED BY <1>2, Invariance, PTL DEF Spec, StalledClaimsKeepTheirEdges

(* The ways in which the status of a membership changes. *)
LEMMA TagSteps ==
  ASSUME IndInv, [Next]_vars, NEW c \in Claims, claim'[c].tag = "Ready", claim[c].tag # "Ready"
  PROVE  /\ pc = "claims" /\ todo # {} /\ c = First(todo)
         /\ ClaimWritten(c, ClaimTag(c)) /\ ClaimTag(c) = "Ready"
<1>0. claim \in [Claims -> ClaimRecords] /\ claim' # claim
  BY DEF IndInv, TypeOK
<1>1. CASE Begin \/ Acquire \/ ListMemberships \/ Resolve \/ Update \/ Reread \/ Record \/ Report
  BY <1>0, <1>1 DEF Begin, Acquire, ListMemberships, Resolve, Update, Reread, Record, Report
<1>2. CASE Refuse
  <2> DEFINE d == First(todo)
             t == IF external \/ list[d].to = Self THEN "Rejected" ELSE "Stalled"
  <2>1. /\ ClaimUnchanged(d, t) \/ ClaimWritten(d, t) \/ ClaimRejected(d, t)
        /\ t # "Ready"
    BY <1>2 DEF Refuse
  <2> HIDE DEF d, t
  <2>2. claim' = [claim EXCEPT ![d].tag = t]
    BY <1>0, <2>1 DEF ClaimUnchanged, ClaimWritten, ClaimRejected
  <2> QED BY <1>0, <2>1, <2>2 DEF ClaimRecords
<1>3. CASE RecordClaim
  <2>1. /\ pc = "claims" /\ todo # {}
        /\ ClaimWritten(First(todo), ClaimTag(First(todo)))
    BY <1>0, <1>3 DEF RecordClaim, ClaimUnchanged, ClaimRejected
  <2>2. claim' = [claim EXCEPT ![First(todo)].tag = ClaimTag(First(todo))]
    BY <2>1 DEF ClaimWritten
  <2>3. c = First(todo) /\ ClaimTag(First(todo)) = "Ready"
    BY <1>0, <2>2 DEF ClaimRecords
  <2> QED BY <2>1, <2>3
<1>4. CASE UserCreate \/ UserDelete
  <2>1. PICK d \in Claims, r \in {Absent} \cup {NewClaim(t) : t \in Targets \cup {Self}} :
          claim' = [claim EXCEPT ![d] = r]
    BY <1>4 DEF UserCreate, UserDelete, ClaimChanges
  <2>2. r.tag = "None"
    BY <2>1 DEF Absent, NewClaim
  <2> QED BY <1>0, <2>1, <2>2
<1>5. CASE SyncClaim \/ SyncGroup \/ TargetReadiness \/ TargetReplaced \/ ForeignChange \/ Crash
  BY <1>0, <1>5 DEF SyncClaim, SyncGroup, TargetReadiness, TargetReplaced, ForeignChange, Crash
<1>6. CASE UNCHANGED vars
  BY <1>0, <1>6 DEF vars
<1> QED BY <1>1, <1>2, <1>3, <1>4, <1>5, <1>6 DEF Next, Worker, Watch, Environment

(* A membership is reported Ready only when its Reconcile read its member. *)
THEOREM HonestMembership == Spec => MembershipReadyMeansMember
<1>1. ASSUME IndInv, [Next]_vars, NEW c \in Claims, claim'[c].tag = "Ready", claim[c].tag # "Ready"
      PROVE  list[c].exists /\ wanted[c] \in applied
  <2>1. pc = "claims" /\ todo # {} /\ c = First(todo) /\ ClaimTag(c) = "Ready"
    BY <1>1, TagSteps
  <2>2. todo \subseteq Listed /\ todo \in SUBSET Claims /\ observed \subseteq applied
    BY <1>1, <2>1 DEF IndInv, TypeOK, ClaimsInv, ReadInv
  <2>3. c \in Listed
    BY <2>1, <2>2, FirstIsMember
  <2>4. wanted[c] \in observed
    BY <2>1 DEF ClaimTag
  <2> QED BY <2>2, <2>3, <2>4 DEF Listed
<1>2. IndInv /\ [Next]_vars
      => [\A c \in Claims : claim'[c].tag = "Ready" /\ claim[c].tag # "Ready"
            => list[c].exists /\ wanted[c] \in applied]_vars
  BY <1>1
<1> QED BY <1>2, Invariance, PTL DEF Spec, MembershipReadyMeansMember
=============================================================================
