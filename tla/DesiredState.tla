---------------------------- MODULE DesiredState ----------------------------
(***************************************************************************)
(* Drift detection: how the reconcilers of every kind turn the spec of a   *)
(* resource into a request, decide whether the OpenBao object differs from *)
(* it, write it, read it back and report Ready.  The model follows one     *)
(* field of a managed object, of any shape that FieldSchema lists; the     *)
(* other fields may or may not differ whenever the object is compared, and *)
(* a difference in any field sends them all.  Acquiring and deleting the   *)
(* object is the subject of IdLifecycle and NameLifecycle.                 *)
(*                                                                         *)
(* A value is a sequence of integers: <<n>> for strings, maps, flags and   *)
(* numbers, the element names for a list.  Element 0 is blank, and -n is   *)
(* the name n with surrounding blanks.  A number -1 is not a whole number  *)
(* of seconds.  The empty sequence is the empty text, map, list or Secret. *)
(***************************************************************************)
EXTENDS Integers, Sequences, FiniteSets, FieldSchema

CONSTANTS
    Kinds,       \* the kinds of resource whose fields are followed
    SpecLists,   \* the lists that a user may write into a spec
    BaoLists,    \* the lists that others may write into OpenBao
    MaxEdits,    \* bound on the changes of the spec or of the Secret
    MaxForeign,  \* bound on the writes to OpenBao by others
    MaxFaults    \* bound on failing requests and status writes

ASSUME KindsAssumption == Kinds \subseteq DOMAIN Schema
ASSUME BoundsAssumption == MaxEdits \in Nat /\ MaxForeign \in Nat /\ MaxFaults \in Nat

VARIABLES
    field,    \* the shape of the field that is followed
    habit,    \* what this OpenBao does with requests: see Habits
    spec,     \* the field in the resource: [set, val]
    bao,      \* the field in OpenBao
    pc,       \* where the reconciler is
    want,     \* the field as the running Reconcile wants it: [set, val]
    drift,    \* the running Reconcile found this field to differ
    stale,    \* the resource or Secret changed since the running Reconcile read it
    ready,    \* Ready is true for the current generation
    hash,     \* status.secretHash, as the value that was hashed
    spoiled,  \* history: changed by others since it was compared or written
    budget

vars == <<field, habit, spec, bao, pc, want, drift, stale, ready, hash, spoiled, budget>>

Values == Seq(Int)
Zero(type) == IF type \in {"flag", "number", "duration"} THEN <<0>> ELSE <<>>
Off(type) == [set |-> FALSE, val |-> Zero(type)]

Names(seq) == {seq[i] : i \in DOMAIN seq}
Distinct(seq) == \A i, j \in DOMAIN seq : i # j => seq[i] # seq[j]
Trim(e) == IF e < 0 THEN -e ELSE e

(* External: OpenBao trims lists and drops their duplicates. *)
ASSUME ListsAssumption ==
    /\ SpecLists \subseteq Values /\ BaoLists \subseteq Seq(Nat)
    /\ \A l \in BaoLists : Distinct(l)

(* slices.Sort: the elements in another order, the smaller ones first. *)
Permuted(seq) ==
    LET D == DOMAIN seq
    IN  {[i \in D |-> seq[p[i]]] : p \in {p \in [D -> D] : \A i \in D : \E j \in D : p[j] = i}}
Sorted(seq) == CHOOSE t \in Permuted(seq) : \A i, j \in DOMAIN seq : i < j => t[i] <= t[j]

(* slices.Sort and slices.Compact: no element stays twice. *)
Increasing(t) == \A i, j \in DOMAIN t : i < j => t[i] < t[j]
SortedSet(S) == CHOOSE t \in [1 .. Cardinality(S) -> S] : Increasing(t)

(* External.  An OpenBao endpoint either keeps a field that the request    *)
(* leaves out or resets it; it may sort a list before storing it; it       *)
(* returns an empty map or list as {} and [] or as null.                   *)
Habits == [keeps : BOOLEAN, sorts : BOOLEAN, braces : BOOLEAN]

(* The values a user may give a field.  The lists that are compared as     *)
(* typed values are sets to the API server (listType=set).                 *)
Given(s) ==
    CASE s.type = "list" ->
            {l \in SpecLists :
                /\ s.by = "typed" => Distinct(l)
                /\ l = <<>> => s.sent = "given"
                /\ 0 \in Names(l) => "blank" \in s.check}
      [] s.type = "map" ->
            {<<1>>, <<2>>} \cup (IF s.sent \in {"given", "create"} THEN {<<>>} ELSE {})
      [] s.type = "flag" -> {<<0>>, <<1>>}
      [] s.type \in {"number", "duration"} ->
            {<<0>>, <<1>>} \cup (IF s.check = {} THEN {} ELSE {<<-1>>})
      [] OTHER -> {<<1>>, <<2>>}

SpecValues(s) ==
    {[set |-> TRUE, val |-> v] : v \in Given(s)}
      \cup (IF "required" \in s.check THEN {} ELSE {Off(s.type)})

(* The values others may give it in OpenBao. *)
BaoValues(s) ==
    CASE s.type = "list" -> BaoLists
      [] s.type \in {"flag", "number", "duration"} -> {<<0>>, <<1>>}
      [] OTHER -> {<<>>, <<1>>, <<2>>}

----------------------------------------------------------------------------
(* The request *)

(* What the operator accepts: durationSeconds, the checks for blank list   *)
(* elements, and the fields without which there is no request.             *)
Valid(s, v) ==
    /\ "blank" \in s.check => 0 \notin Names(v.val)
    /\ "whole" \in s.check => v.val # <<-1>>
    /\ "positive" \in s.check /\ v.set => v.val = <<1>>
    /\ "missing" \in s.check => v.set

(* Mutant: a list is compared and sent in the order it was given. *)
NormalizedAsGiven(s, val) == IF s.norm = "set" THEN [i \in DOMAIN val |-> Trim(val[i])] ELSE val

(* What happens to a list before it is sent or compared. *)
Normalized(s, val) ==
    CASE s.norm = "set" -> SortedSet({Trim(e) : e \in Names(val)})
      [] s.norm = "unique" -> SortedSet(Names(val))
      [] s.norm = "sorted" -> Sorted(val)
      [] OTHER -> val

(* The field of the request; set says that the request carries it. *)
Desired(s, v) ==
    [set |-> s.sent = "always" \/ (s.sent # "create" /\ v.set),
     val |-> IF s.type = "list" THEN Normalized(s, v.val) ELSE v.val]

(* External: what a request that carries d makes of the stored value. *)
Stored(s, d, old) ==
    IF s.sent = "create" THEN old
    ELSE IF d.set
         THEN IF s.type = "list" /\ habit.sorts THEN SortedSet(Names(d.val)) ELSE d.val
         ELSE IF habit.keeps THEN old ELSE Zero(s.type)

----------------------------------------------------------------------------
(* The comparison *)

(* An empty list or map is nil when it is not set or was copied onto nil. *)
IsNil(s, v) == ~v.set \/ s.norm = "copy"

(* reflectJSONEqual: the JSON texts are the same; null is not [] or {}. *)
JSONEqual(s, v, d, seen) ==
    /\ d.val = seen
    /\ s.type \in {"list", "map"} /\ seen = <<>> => IsNil(s, v) = ~habit.braces

(* Whether a field that is compared equals the observed one. *)
Equal(s, v, d, seen) ==
    CASE s.by = "typed" ->
            d.val = (IF s.type = "list" THEN Normalized(s, seen) ELSE seen)
      [] s.by = "json" -> JSONEqual(s, v, d, seen)
      [] s.by = "deep" -> JSONEqual(s, v, d, seen)
      [] s.by = "any" -> s.type \notin {"list", "number", "duration"} /\ d.val = seen
      [] s.by = "hash" -> d.val = hash
      [] OTHER -> FALSE

(* Whether it is compared at all. *)
Compared(s, v) == s.by = "hash" \/ s.seen = "always" \/ (s.seen = "ifset" /\ v.set)

Matches(s, v, d, seen) == Compared(s, v) => Equal(s, v, d, seen)

----------------------------------------------------------------------------

TypeOK ==
    /\ field \in Shapes /\ habit \in Habits
    /\ spec \in SpecValues(field)
    /\ bao \in Values /\ hash \in Values
    /\ pc \in {"idle", "write", "reread", "record"}
    /\ want \in [set : BOOLEAN, val : Values]
    /\ field.type \in {"number", "duration"} => want.val \in [1 .. 1 -> Nat]
    /\ "blank" \in field.check => 0 \notin Names(want.val)
    /\ drift \in BOOLEAN /\ stale \in BOOLEAN /\ ready \in BOOLEAN /\ spoiled \in BOOLEAN
    /\ budget \in [edits : 0 .. MaxEdits, foreign : 0 .. MaxForeign, faults : 0 .. MaxFaults]

(* A resource whose object has just been acquired. *)
Init ==
    /\ field \in UNION {{Schema[k][f] : f \in DOMAIN Schema[k]} : k \in Kinds}
    /\ habit \in Habits
    /\ spec \in SpecValues(field)
    /\ bao \in BaoValues(field)
    /\ pc = "idle" /\ want = Off(field.type)
    /\ drift = FALSE /\ stale = FALSE /\ ready = FALSE /\ spoiled = TRUE
    /\ hash = <<>>
    /\ budget = [edits |-> MaxEdits, foreign |-> MaxForeign, faults |-> MaxFaults]

Spend(b) == budget[b] > 0 /\ budget' = [budget EXCEPT ![b] = @ - 1]

(* The end of a Reconcile: its local state is gone. *)
Return == pc' = "idle" /\ want' = Off(field.type) /\ drift' = FALSE

(* An error: it reaches status unless that write fails as well. *)
Failed == Return /\ ready' \in {ready, FALSE}

(* Read the resource and the object, and compare them.  A spec that cannot *)
(* be sent is an error and nothing is written.                             *)
Read ==
    /\ pc = "idle"
    /\ stale' = FALSE
    /\ UNCHANGED <<field, habit, spec, bao, hash, budget>>
    /\ \/ /\ ~Valid(field, spec)
          /\ Failed
          /\ UNCHANGED spoiled
       \/ /\ Valid(field, spec)
          /\ want' = Desired(field, spec)
          /\ drift' = ~Matches(field, spec, want', bao)
          /\ spoiled' = (spoiled /\ (drift' \/ ~Compared(field, spec) \/ field.by = "hash"))
          /\ \E others \in BOOLEAN :
                pc' = IF drift' \/ others THEN "write" ELSE "record"
          /\ UNCHANGED ready

(* What a request that carries the field leaves behind.  It may carry the  *)
(* value of a Secret that has changed since.                               *)
Apply ==
    /\ bao' = Stored(field, want, bao)
    /\ spoiled' = (field.type = "secret" /\ stale)

(* Mutant: a request that fails is taken for one that succeeded. *)
WriteUnchecked ==
    /\ pc = "write" /\ pc' = "reread"
    /\ \/ Apply /\ UNCHANGED budget
       \/ Spend("faults") /\ UNCHANGED <<bao, spoiled>>
    /\ UNCHANGED <<field, habit, spec, want, drift, stale, ready, hash>>

(* Send every field.  When the answer is lost the write may have happened. *)
Write ==
    /\ pc = "write"
    /\ UNCHANGED <<field, habit, spec, stale, hash>>
    /\ \/ Apply /\ pc' = "reread" /\ UNCHANGED <<want, drift, ready, budget>>
       \/ Spend("faults") /\ Failed /\ (Apply \/ UNCHANGED <<bao, spoiled>>)

(* Read the object back for status; it is not compared again. *)
Reread ==
    /\ pc = "reread"
    /\ UNCHANGED <<field, habit, spec, bao, stale, hash, spoiled>>
    /\ \/ pc' = "record" /\ UNCHANGED <<want, drift, ready, budget>>
       \/ Spend("faults") /\ Failed

(* The API server refuses the status of a resource that has changed. *)
Refused == stale /\ field.type # "secret"

(* Mutant: the hash of the Secret that is current, not of the one sent. *)
RecordCurrent ==
    /\ pc = "record" /\ Return
    /\ IF Refused THEN UNCHANGED <<ready, hash>>
       ELSE ready' = TRUE /\ hash' = (IF field.by = "hash" THEN spec.val ELSE hash)
    /\ UNCHANGED <<field, habit, spec, bao, stale, spoiled, budget>>

(* Report Ready and the hash of the Secret that was sent. *)
Record ==
    /\ pc = "record" /\ Return
    /\ \/ /\ ~Refused
          /\ ready' = TRUE
          /\ hash' = IF field.by = "hash" THEN want.val ELSE hash
          /\ UNCHANGED budget
       \/ Refused /\ UNCHANGED <<ready, hash, budget>>
       \/ Spend("faults") /\ UNCHANGED <<ready, hash>>
    /\ UNCHANGED <<field, habit, spec, bao, stale, spoiled>>

(* The user edits the spec, which starts a new generation, or the Secret,  *)
(* which does not.                                                         *)
Edit ==
    /\ Spend("edits")
    /\ spec' \in SpecValues(field) \ {spec}
    /\ stale' = TRUE
    /\ IF field.type = "secret" THEN spoiled' = TRUE /\ UNCHANGED ready
                                ELSE ready' = FALSE /\ UNCHANGED spoiled
    /\ UNCHANGED <<field, habit, bao, pc, want, drift, hash>>

(* Somebody else writes the object in OpenBao. *)
Foreign ==
    /\ Spend("foreign")
    /\ bao' \in BaoValues(field) \ {bao}
    /\ spoiled' = TRUE
    /\ UNCHANGED <<field, habit, spec, pc, want, drift, stale, ready, hash>>

Reconciler == Read \/ Write \/ Reread \/ Record
Next == Reconciler \/ Edit \/ Foreign
Spec == Init /\ [][Next]_vars

(* The reconciler is called again after the drift interval and after every *)
(* error, and never waits within a call.  That is so as long as            *)
(* driftDetectionInterval is not zero; with zero, drift waits for an edit. *)
FairSpec == Spec /\ WF_vars(Reconciler)

----------------------------------------------------------------------------
(* Properties *)

(* The fields an update can set and a comparison can see: not those that   *)
(* only enabling a mount sends, nor those that are never compared.         *)
Enforced ==
    /\ field.sent # "create" /\ field.by # "absent"
    /\ field.seen # "never" \/ field.by = "hash"
    /\ spec.set \/ field.sent = "always"

(* OpenBao holds what the spec asks for, up to the order and the repeats   *)
(* of a list.                                                              *)
Holds == Names(bao) = Names(Desired(field, spec).val)

(* Ready is not reported for a field that nobody else has changed since    *)
(* and that OpenBao does not hold, whatever requests fail, answers are     *)
(* lost, or status writes are refused (markReady after the read-back).     *)
ReadyIsHonest == ready /\ ~spoiled /\ Enforced => Valid(field, spec) /\ Holds

(* What the tables of FieldSchema have in common. *)
WellShaped(s) ==
    /\ s \in Shapes
    /\ s.type = "secret" <=> s.by = "hash"
    /\ s.by = "hash" => s.sent = "always"
    /\ s.sent = "always" => s.seen = "always" \/ s.by = "hash"
    /\ s.type \in {"number", "duration"} => s.check = {} \/ {"whole", "positive"} \cap s.check # {}
    /\ "blank" \in s.check => s.type = "list"
    /\ s.type # "list" => s.norm = "raw"
    /\ s.norm = "sorted" => s.by = "typed"
    /\ s.by = "deep" => s.type = "map"
    /\ s.type = "list" /\ s.by = "typed" => s.norm \in {"set", "unique", "sorted"}

(* Values: what is no list has at most one element, a trimmed list no      *)
(* blanks and one that is only sorted no repeats.                          *)
Simple(s, val) == s.type # "list" => Len(val) <= 1
Proper(s, val) ==
    /\ Simple(s, val)
    /\ s.norm = "set" => \A e \in Names(val) : e >= 0
    /\ s.norm = "sorted" => Distinct(val)

(* What a Reconcile relies on while it runs: it wants what a spec that has *)
(* not changed since asks for, and after a write or a comparison the       *)
(* object has it; a Secret that was not changed since is what was sent.    *)
ProgressInv ==
    /\ pc # "idle" /\ ~stale => Valid(field, spec) /\ want = Desired(field, spec)
    /\ pc \in {"reread", "record"} /\ ~stale /\ ~spoiled /\ Enforced => Holds
    /\ stale /\ ready => field.type = "secret"
    /\ field.type = "secret" /\ ~spoiled => Valid(field, spec) /\ Holds

(* The variables have their types and Ready is honest (markReady), with    *)
(* what the worker relies on: an inductive invariant.                      *)
StatusInv ==
    /\ TypeOK /\ WellShaped(field)
    /\ Proper(field, bao) /\ Proper(field, want.val) /\ Simple(field, hash)
    /\ ReadyIsHonest /\ ProgressInv

(* A difference is only ever found where there is one: for the fields that *)
(* are compared as typed values, the order, the repeats and the blanks of  *)
(* a list are not drift (docs/architecture.md: "writes only when drift is  *)
(* present").                                                              *)
DriftIsReal ==
    [][drift' /\ ~drift /\ field.by \in {"typed", "hash"}
         => Names(want'.val) # Names(IF field.by = "hash" THEN hash ELSE bao)]_vars

(* Whatever others did to a field, and whatever failed on the way, it is   *)
(* what the spec asks for in the end (docs: "update it when it differs     *)
(* from the desired spec").  A secret cannot be read back, so it is only   *)
(* rewritten when the Kubernetes Secret changes.                           *)
DriftIsRepaired ==
    <>[](Enforced /\ Valid(field, spec) /\ (field.by = "hash" => budget.foreign = MaxForeign)
            => Holds)

(* The fields that the reconcilers stop writing once nobody changes them.  *)
(* The others are written at every drift check: OIDC lists and numbers;    *)
(* what only enabling a mount can set; a list or map that is not set, is   *)
(* compared all the same and cannot be cleared by a request that omits it; *)
(* an empty collection that OpenBao returns in the other notation; a list  *)
(* compared in order that OpenBao sorts.                                   *)
Settles ==
    /\ field.by # "absent" /\ field.sent # "create"
    /\ field.by = "any" => field.type \notin {"list", "number", "duration"}
    /\ field.seen = "always" => field.sent = "always" \/ spec.set
    /\ field.by \in {"json", "deep"} /\ Desired(field, spec).val = <<>>
         => IsNil(field, spec) = ~habit.braces
    /\ field.by = "json" /\ field.norm \in {"raw", "copy"} => ~(habit.sorts /\ field.type = "list")

(* Once nobody edits the spec or the object any more, the reconciler stops *)
(* finding differences in such a field and writing it.                     *)
WritesSettle == <>[]Settles => <>[](pc = "write" => ~drift)

=============================================================================
