------------------------- MODULE DesiredStateProofs -------------------------
(***************************************************************************)
(* Proofs about DesiredState: the tables of FieldSchema are well formed,   *)
(* sorting and compacting keep what a list names, and Ready is honest and  *)
(* drift real for every kind of resource and any number of edits, foreign  *)
(* writes and faults.                                                      *)
(***************************************************************************)
EXTENDS DesiredState, FiniteSetTheorems, WellFoundedInduction, TLAPS

----------------------------------------------------------------------------
(* Lists *)

(* Natural numbers with a property have a least one with it. *)
LEMMA LeastNumber ==
  ASSUME NEW S \in SUBSET Nat, S # {}
  PROVE  \E m \in S : \A n \in S : m <= n
<1>1. PICK m \in S : \A n \in S : ~(<<n, m>> \in OpToRel(<, Nat))
  BY NatLessThanWellFounded, WFMin
<1>2. ASSUME NEW n \in S PROVE m <= n
  <2>1. m \in Nat /\ n \in Nat
    OBVIOUS
  <2>2. ASSUME n < m PROVE <<n, m>> \in OpToRel(<, Nat)
    BY <2>1, <2>2 DEF OpToRel
  <2>3. ~(n < m)
    BY <1>1, <2>2, Zenon
  <2> QED BY <2>1, <2>3
<1> QED BY <1>2

(* A list that is not empty has a largest element. *)
LEMMA LargestElement ==
  ASSUME NEW n \in Nat, NEW s \in [1 .. n + 1 -> Int]
  PROVE  \E k \in 1 .. n + 1 : \A i \in 1 .. n + 1 : s[i] <= s[k]
<1> DEFINE Top(m) == \E k \in 1 .. m + 1 : \A i \in 1 .. m + 1 : s[i] <= s[k]
<1>1. Top(0)
  <2>1. 1 \in 1 .. 0 + 1 /\ \A i \in 1 .. 0 + 1 : i = 1 /\ s[i] \in Int
    OBVIOUS
  <2>2. \A i \in 1 .. 0 + 1 : s[i] <= s[1]
    BY <2>1
  <2> QED BY <2>1, <2>2
<1>2. ASSUME NEW m \in 1 .. n, Top(m - 1) PROVE Top(m)
  <2>1. m + 1 \in 1 .. n + 1 /\ 1 .. (m - 1) + 1 = 1 .. m /\ 1 .. m + 1 = (1 .. m) \cup {m + 1}
    OBVIOUS
  <2>2. PICK k \in 1 .. m : \A i \in 1 .. m : s[i] <= s[k]
    BY <1>2, <2>1
  <2>3. s[k] \in Int /\ s[m + 1] \in Int /\ \A i \in 1 .. m : s[i] \in Int
    BY <2>1, <2>2
  <2>4. CASE s[m + 1] <= s[k]
    BY <2>1, <2>2, <2>4
  <2>5. CASE s[k] < s[m + 1]
    <3>1. \A i \in 1 .. m + 1 : s[i] <= s[m + 1]
      BY <2>1, <2>2, <2>3, <2>5
    <3> QED BY <2>1, <3>1
  <2> QED BY <2>3, <2>4, <2>5
<1> HIDE DEF Top
<1> DEFINE Bad == {m \in 0 .. n : ~Top(m)}
<1>3. ASSUME Bad # {} PROVE FALSE
  <2>1. Bad \in SUBSET Nat
    OBVIOUS
  <2>2. PICK m \in Bad : \A l \in Bad : m <= l
    BY <1>3, <2>1, LeastNumber
  <2>3. m \in 1 .. n
    BY <1>1, <2>2
  <2>4. m - 1 \in 0 .. n /\ m - 1 \notin Bad
    BY <2>2, <2>3
  <2> QED BY <1>2, <2>2, <2>3, <2>4
<1>4. Top(n)
  BY <1>3
<1> QED BY <1>4 DEF Top

(* Permutations of n places. *)
Places(n) == {p \in [1 .. n -> 1 .. n] : \A i \in 1 .. n : \E j \in 1 .. n : p[j] = i}
Orders(p, s, n) == \A i, j \in 1 .. n : i < j => s[p[i]] <= s[p[j]]

(* One longer list can be ordered when all shorter ones can: the largest   *)
(* element goes to the end, and the last one takes its place.              *)
LEMMA OrderStep ==
  ASSUME NEW n \in Nat, NEW s \in [1 .. n + 1 -> Int],
         \A u \in [1 .. n -> Int] : \E q \in Places(n) : Orders(q, u, n)
  PROVE  \E p \in Places(n + 1) : Orders(p, s, n + 1)
<1>1. PICK k \in 1 .. n + 1 : \A i \in 1 .. n + 1 : s[i] <= s[k]
  BY LargestElement
<1> DEFINE u == [i \in 1 .. n |-> IF i = k THEN s[n + 1] ELSE s[i]]
<1>2. u \in [1 .. n -> Int]
  <2>1. \A i \in 1 .. n : i \in 1 .. n + 1
    OBVIOUS
  <2>2. n + 1 \in 1 .. n + 1
    OBVIOUS
  <2> QED BY <2>1, <2>2
<1>3. PICK q \in Places(n) : Orders(q, u, n)
  BY <1>2
<1> DEFINE p == [i \in 1 .. n + 1 |-> IF i = n + 1 THEN k ELSE IF q[i] = k THEN n + 1 ELSE q[i]]
<1>4. q \in [1 .. n -> 1 .. n] /\ \A i \in 1 .. n : \E j \in 1 .. n : q[j] = i
  BY <1>3 DEF Places
<1>5. p \in [1 .. n + 1 -> 1 .. n + 1]
  <2>1. ASSUME NEW i \in 1 .. n + 1 PROVE p[i] \in 1 .. n + 1
    <3>1. ASSUME i # n + 1 PROVE i \in 1 .. n /\ q[i] \in 1 .. n + 1
      <4>1. i \in 1 .. n
        BY <3>1
      <4>2. q[i] \in 1 .. n
        BY <1>4, <4>1
      <4> QED BY <4>1, <4>2
    <3>2. n + 1 \in 1 .. n + 1
      OBVIOUS
    <3> QED BY <3>1, <3>2
  <2> QED BY <2>1
<1>6. ASSUME NEW i \in 1 .. n + 1 PROVE \E j \in 1 .. n + 1 : p[j] = i
  <2>1. CASE i = k
    <3>1. n + 1 \in 1 .. n + 1 /\ p[n + 1] = k
      OBVIOUS
    <3> QED BY <2>1, <3>1
  <2>2. CASE i # k /\ i = n + 1
    <3>1. k \in 1 .. n
      BY <2>2
    <3>2. PICK j \in 1 .. n : q[j] = k
      BY <1>4, <3>1
    <3>3. j \in 1 .. n + 1 /\ p[j] = i
      BY <2>2, <3>2
    <3> QED BY <3>3
  <2>3. CASE i # k /\ i # n + 1
    <3>1. i \in 1 .. n
      BY <2>3
    <3>2. PICK j \in 1 .. n : q[j] = i
      BY <1>4, <3>1
    <3>3. j \in 1 .. n + 1 /\ p[j] = i
      BY <2>3, <3>2
    <3> QED BY <3>3
  <2> QED BY <2>1, <2>2, <2>3
<1>7. p \in Places(n + 1)
  BY <1>5, <1>6 DEF Places
<1>8. ASSUME NEW i \in 1 .. n PROVE s[p[i]] = u[q[i]]
  <2>1. i \in 1 .. n + 1 /\ i # n + 1 /\ q[i] \in 1 .. n
    BY <1>4
  <2> QED BY <2>1
<1>9. ASSUME NEW i \in 1 .. n + 1, NEW j \in 1 .. n + 1, i < j
      PROVE  s[p[i]] <= s[p[j]]
  <2>1. CASE j = n + 1
    <3>1. p[j] = k /\ p[i] \in 1 .. n + 1
      BY <1>5, <2>1
    <3> QED BY <1>1, <3>1
  <2>2. CASE j # n + 1
    <3>1. i \in 1 .. n /\ j \in 1 .. n
      BY <1>9, <2>2
    <3>2. u[q[i]] <= u[q[j]]
      BY <1>3, <1>9, <3>1 DEF Orders
    <3> QED BY <1>8, <3>1, <3>2
  <2> QED BY <2>1, <2>2
<1>10. Orders(p, s, n + 1)
  BY <1>9 DEF Orders
<1> QED BY <1>7, <1>10

(* Every list can be put in order. *)
LEMMA OrderExists ==
  ASSUME NEW n \in Nat, NEW s \in [1 .. n -> Int]
  PROVE  \E p \in Places(n) : Orders(p, s, n)
<1> DEFINE Fine(m) == \A u \in [1 .. m -> Int] : \E q \in Places(m) : Orders(q, u, m)
<1> DEFINE Bad == {m \in Nat : ~Fine(m)}
<1>1. SUFFICES ASSUME Bad # {} PROVE FALSE
  <2>1. Bad = {} => Fine(n)
    BY Zenon
  <2> QED BY <2>1
<1>2. Bad \in SUBSET Nat
  BY Zenon
<1>3. PICK m \in Bad : \A l \in Bad : m <= l
  <2> HIDE DEF Bad
  <2> QED BY <1>1, <1>2, LeastNumber
<1>4. m # 0
  <2>1. ASSUME NEW u \in [1 .. 0 -> Int] PROVE \E q \in Places(0) : Orders(q, u, 0)
    <3>1. [i \in 1 .. 0 |-> i] \in Places(0)
      BY DEF Places
    <3>2. Orders([i \in 1 .. 0 |-> i], u, 0)
      BY DEF Orders
    <3> QED BY <3>1, <3>2
  <2>2. Fine(0)
    BY <2>1
  <2> QED BY <1>3, <2>2
<1>5. m - 1 \in Nat /\ m - 1 \notin Bad /\ (m - 1) + 1 = m
  <2> HIDE DEF Bad
  <2> QED BY <1>2, <1>3, <1>4
<1>6. Fine(m - 1)
  BY <1>5
<1>7. ASSUME NEW u \in [1 .. m -> Int] PROVE \E q \in Places(m) : Orders(q, u, m)
  <2>1. \A v \in [1 .. m - 1 -> Int] : \E q \in Places(m - 1) : Orders(q, v, m - 1)
    BY <1>6
  <2> HIDE DEF Fine, Bad
  <2> DEFINE n1 == m - 1
  <2>2. n1 \in Nat /\ n1 + 1 = m
    BY <1>5
  <2>3. \A v \in [1 .. n1 -> Int] : \E q \in Places(n1) : Orders(q, v, n1)
    BY <2>1
  <2> HIDE DEF n1
  <2>4. \E p \in Places(n1 + 1) : Orders(p, u, n1 + 1)
    BY <2>2, <2>3, OrderStep
  <2> QED BY <2>2, <2>4
<1> QED BY <1>3, <1>7

(* A permutation sends no two places to one. *)
LEMMA PermutationInjective ==
  ASSUME NEW n \in Nat, NEW p \in [1 .. n -> 1 .. n],
         \A i \in 1 .. n : \E j \in 1 .. n : p[j] = i
  PROVE  \A i, j \in 1 .. n : p[i] = p[j] => i = j
<1>1. p \in Surjection(1 .. n, 1 .. n)
  BY DEF Surjection
<1>2. IsFiniteSet(1 .. n)
  BY FS_Interval
<1>3. p \in Injection(1 .. n, 1 .. n)
  BY <1>1, <1>2, FS_SurjSameCardinalityImpliesInj
<1> QED BY <1>3 DEF Injection, IsInjective

(* slices.Sort, for lists of every length: the same elements, in order. *)
LEMMA SortedFacts ==
  ASSUME NEW n \in Nat, NEW s \in [1 .. n -> Int]
  PROVE  /\ Sorted(s) \in [1 .. n -> Int]
         /\ \A i, j \in 1 .. n : i < j => Sorted(s)[i] <= Sorted(s)[j]
         /\ Names(Sorted(s)) = Names(s)
         /\ (\A i, j \in 1 .. n : i # j => s[i] # s[j]) => Increasing(Sorted(s))
<1> DEFINE Good(t) == \A i, j \in DOMAIN s : i < j => t[i] <= t[j]
<1>1. DOMAIN s = 1 .. n
  OBVIOUS
<1>2. Permuted(s) = {[i \in 1 .. n |-> s[p[i]]] : p \in Places(n)}
  BY <1>1 DEF Permuted, Places
<1>3. \E t \in Permuted(s) : Good(t)
  <2>1. PICK p \in Places(n) : Orders(p, s, n)
    BY OrderExists
  <2>2. Good([i \in 1 .. n |-> s[p[i]]])
    BY <1>1, <2>1 DEF Orders
  <2>3. [i \in 1 .. n |-> s[p[i]]] \in Permuted(s)
    BY <1>2
  <2> HIDE DEF Good
  <2> QED BY <2>2, <2>3
<1>4. Sorted(s) \in Permuted(s) /\ Good(Sorted(s))
  <2> HIDE DEF Good
  <2>1. Sorted(s) = CHOOSE t \in Permuted(s) : Good(t)
    BY Zenon DEF Sorted, Good
  <2> QED BY <1>3, <2>1
<1>5. PICK p \in Places(n) : Sorted(s) = [i \in 1 .. n |-> s[p[i]]]
  BY <1>2, <1>4
<1>6. p \in [1 .. n -> 1 .. n] /\ \A i \in 1 .. n : \E j \in 1 .. n : p[j] = i
  BY <1>5 DEF Places
<1>7. Sorted(s) \in [1 .. n -> Int] /\ Names(Sorted(s)) = Names(s)
  <2>1. Sorted(s) \in [1 .. n -> Int] /\ \A i \in 1 .. n : Sorted(s)[i] = s[p[i]]
    BY <1>5, <1>6
  <2>2. \A i \in 1 .. n : s[p[i]] \in Names(s)
    BY <1>1, <1>6 DEF Names
  <2>3. ASSUME NEW i \in 1 .. n PROVE s[i] \in Names(Sorted(s))
    <3>1. PICK j \in 1 .. n : p[j] = i
      BY <1>6
    <3> QED BY <2>1, <3>1 DEF Names
  <2>4. Names(Sorted(s)) \subseteq Names(s)
    <3>1. SUFFICES ASSUME NEW x \in Names(Sorted(s)) PROVE x \in Names(s)
      OBVIOUS
    <3>2. PICK i \in 1 .. n : x = Sorted(s)[i]
      BY <2>1 DEF Names
    <3> QED BY <2>1, <2>2, <3>2
  <2>5. Names(s) \subseteq Names(Sorted(s))
    BY <1>1, <2>3 DEF Names
  <2> QED BY <2>1, <2>4, <2>5
<1>8. \A i, j \in 1 .. n : i < j => Sorted(s)[i] <= Sorted(s)[j]
  BY <1>1, <1>4
<1>9. ASSUME \A i, j \in 1 .. n : i # j => s[i] # s[j] PROVE Increasing(Sorted(s))
  <2>1. \A i, j \in 1 .. n : p[i] = p[j] => i = j
    BY <1>6, PermutationInjective
  <2>2. \A i, j \in 1 .. n : i # j => Sorted(s)[i] # Sorted(s)[j]
    <3>1. SUFFICES ASSUME NEW i \in 1 .. n, NEW j \in 1 .. n, i # j
                   PROVE  Sorted(s)[i] # Sorted(s)[j]
      OBVIOUS
    <3>2. p[i] \in 1 .. n /\ p[j] \in 1 .. n /\ p[i] # p[j]
      BY <1>6, <2>1, <3>1
    <3>3. s[p[i]] # s[p[j]]
      BY <1>9, <3>2
    <3> QED BY <1>5, <3>3
  <2> QED BY <1>7, <1>8, <2>2 DEF Increasing
<1> QED BY <1>7, <1>8, <1>9

(* slices.Sort and slices.Compact, for every finite set of elements. *)
LEMMA SortedSetFacts ==
  ASSUME NEW S \in SUBSET Int, IsFiniteSet(S)
  PROVE  /\ SortedSet(S) \in Seq(Int)
         /\ Increasing(SortedSet(S))
         /\ Names(SortedSet(S)) = S
<1> DEFINE n == Cardinality(S)
<1>1. n \in Nat /\ ExistsBijection(1 .. n, S)
  BY FS_CardinalityType
<1> HIDE DEF n
<1>2. PICK b \in [1 .. n -> S] : \A i, j \in 1 .. n : b[i] = b[j] => i = j
  BY <1>1 DEF ExistsBijection, Bijection, Injection, IsInjective
<1>3. b \in [1 .. n -> Int]
  BY <1>2
<1>4. Sorted(b) \in [1 .. n -> Int] /\ Names(Sorted(b)) = Names(b) /\ Increasing(Sorted(b))
  BY <1>1, <1>2, <1>3, SortedFacts
<1>5. Sorted(b) \in [1 .. n -> S]
  <2>1. \A i \in 1 .. n : Sorted(b)[i] \in Names(b)
    BY <1>4 DEF Names
  <2> QED BY <1>2, <1>4, <2>1 DEF Names
<1>6. SortedSet(S) \in [1 .. n -> S] /\ Increasing(SortedSet(S))
  BY <1>4, <1>5 DEF SortedSet, n
<1>7. SortedSet(S) \in Injection(1 .. n, S)
  <2>1. ASSUME NEW i \in 1 .. n, NEW j \in 1 .. n, SortedSet(S)[i] = SortedSet(S)[j]
        PROVE  i = j
    <3>1. DOMAIN SortedSet(S) = 1 .. n /\ SortedSet(S)[i] \in Int
      BY <1>6
    <3>2. ~(i < j) /\ ~(j < i)
      BY <1>6, <2>1, <3>1 DEF Increasing
    <3> QED BY <1>1, <3>2
  <2> QED BY <1>6, <2>1 DEF Injection, IsInjective
<1>8. Cardinality(1 .. n) = Cardinality(S)
  BY <1>1, FS_Interval DEF n
<1>9. SortedSet(S) \in Surjection(1 .. n, S)
  BY <1>7, <1>8, FS_Injection
<1>10. Names(SortedSet(S)) = S
  BY <1>6, <1>9 DEF Surjection, Names
<1>11. SortedSet(S) \in [1 .. n -> Int]
  BY <1>6
<1> QED BY <1>1, <1>6, <1>10, <1>11

(* An increasing list is determined by the elements it has. *)
LEMMA IncreasingUnique ==
  ASSUME NEW t \in Seq(Int), NEW u \in Seq(Int), Increasing(t), Increasing(u),
         Names(t) = Names(u)
  PROVE  t = u
<1> DEFINE Prefix(x, y) == DOMAIN x \subseteq DOMAIN y /\ \A i \in DOMAIN x : x[i] = y[i]
<1>1. ASSUME NEW x \in Seq(Int), NEW y \in Seq(Int), Increasing(x), Increasing(y),
             Names(x) = Names(y)
      PROVE  Prefix(x, y)
  <2> DEFINE Bad == {i \in DOMAIN x : ~(i \in DOMAIN y /\ x[i] = y[i])}
  <2>1. SUFFICES ASSUME Bad # {} PROVE FALSE
    OBVIOUS
  <2>2. PICK i \in Bad : \A j \in Bad : i <= j
    <3>1. Bad \in SUBSET Nat
      BY <1>1
    <3> HIDE DEF Bad
    <3> QED BY <2>1, <3>1, LeastNumber
  <2>3. i \in 1 .. Len(x) /\ x[i] \in Int /\ i \in Nat
    BY <2>2
  <2>4. \A j \in 1 .. i - 1 : j \in DOMAIN x /\ j \in DOMAIN y /\ x[j] = y[j]
    BY <2>2, <2>3
  <2>5. PICK j \in DOMAIN y : y[j] = x[i]
    BY <1>1, <2>3 DEF Names
  <2>6. j \in 1 .. Len(y) /\ j \in Nat
    BY <2>5
  <2>7. CASE j < i
    <3>1. j \in 1 .. i - 1 /\ x[j] = x[i] /\ x[j] < x[i]
      BY <1>1, <2>3, <2>4, <2>5, <2>6, <2>7 DEF Increasing
    <3> QED BY <2>3, <3>1
  <2>8. CASE j = i
    BY <2>2, <2>5, <2>8
  <2>9. CASE i < j
    <3>1. i \in DOMAIN y /\ y[i] < y[j] /\ y[i] \in Int
      BY <1>1, <2>3, <2>6, <2>9 DEF Increasing
    <3>2. PICK k \in DOMAIN x : x[k] = y[i]
      BY <1>1, <3>1 DEF Names
    <3>3. k \in 1 .. Len(x) /\ k \in Nat /\ x[k] < x[i]
      BY <2>5, <3>1, <3>2
    <3>4. k < i
      <4>1. ~(i < k) /\ k # i
        BY <1>1, <2>3, <3>3 DEF Increasing
      <4> QED BY <2>3, <3>3, <4>1
    <3>5. k \in 1 .. i - 1 /\ y[k] = y[i] /\ y[k] < y[i]
      BY <1>1, <2>3, <2>4, <3>1, <3>2, <3>3, <3>4 DEF Increasing
    <3> QED BY <3>1, <3>5
  <2> QED BY <2>3, <2>6, <2>7, <2>8, <2>9
<1>2. Prefix(t, u) /\ Prefix(u, t)
  BY <1>1
<1> QED BY <1>2

----------------------------------------------------------------------------
(* The tables of FieldSchema *)

Rules ==
    [check : SUBSET Checks,
     norm : {"set", "sorted", "unique", "copy", "raw"},
     sent : {"always", "ifset", "given", "create"},
     seen : {"always", "ifset", "never"},
     by : {"typed", "json", "deep", "any", "hash", "absent"}]

(* A rule that suits the type of a field. *)
Suits(type, rule) ==
    /\ type \in Types /\ rule \in Rules
    /\ type = "secret" <=> rule.by = "hash"
    /\ rule.by = "hash" => rule.sent = "always"
    /\ rule.sent = "always" => rule.seen = "always" \/ rule.by = "hash"
    /\ type \in {"number", "duration"}
         => rule.check = {} \/ {"whole", "positive"} \cap rule.check # {}
    /\ "blank" \in rule.check => type = "list"
    /\ type # "list" => rule.norm = "raw"
    /\ rule.norm = "sorted" => rule.by = "typed"
    /\ rule.by = "deep" => type = "map"
    /\ type = "list" /\ rule.by = "typed" => rule.norm \in {"set", "unique", "sorted"}

TableOK(table) == \A f \in DOMAIN table : WellShaped(table[f])

(* A suitable rule makes a well-formed shape. *)
LEMMA FieldOK ==
  ASSUME NEW type, NEW rule, Suits(type, rule)
  PROVE  WellShaped(Field(type, rule))
<1> DEFINE s == Field(type, rule)
<1>1. rule \in Rules /\ type \in Types
  BY DEF Suits
<1>2. DOMAIN rule = {"check", "norm", "sent", "seen", "by"}
  BY <1>1 DEF Rules
<1>3. s = [type |-> type, check |-> rule.check, norm |-> rule.norm, sent |-> rule.sent,
           seen |-> rule.seen, by |-> rule.by]
  BY <1>2 DEF Field, ++
<1> HIDE DEF s
<1>4. s \in Shapes
  BY <1>1, <1>3 DEF Rules, Shapes
<1>5. /\ s.type = type /\ s.check = rule.check /\ s.norm = rule.norm /\ s.sent = rule.sent
      /\ s.seen = rule.seen /\ s.by = rule.by
  BY <1>3
<1>6. WellShaped(s)
  BY <1>4, <1>5 DEF WellShaped, Suits
<1> QED BY <1>6 DEF s

(* The tables that one rule per type makes of a Spec. *)
LEMMA ShapedOK ==
  ASSUME NEW spc, NEW rules, \A t \in DOMAIN spc : Suits(t, rules[t])
  PROVE  TableOK(Shaped(spc, rules))
<1>1. SUFFICES ASSUME NEW f \in DOMAIN Shaped(spc, rules)
               PROVE  WellShaped(Shaped(spc, rules)[f])
  BY DEF TableOK
<1>2. \E t \in DOMAIN spc : f \in spc[t]
  BY <1>1 DEF Shaped
<1>3. PICK t \in DOMAIN spc : Shaped(spc, rules)[f] = Field(t, rules[t])
  BY <1>1, <1>2 DEF Shaped
<1> QED BY <1>3, FieldOK

(* The tables in which some fields have one rule. *)
LEMMA EachOK ==
  ASSUME NEW names, NEW type, NEW rule, Suits(type, rule)
  PROVE  TableOK(Each(names, type, rule))
  BY FieldOK DEF TableOK, Each

(* Two tables in one. *)
LEMMA MergedOK ==
  ASSUME NEW f, NEW g, TableOK(f), TableOK(g)
  PROVE  TableOK(f ++ g)
  BY DEF TableOK, ++

(* The rule for optional fields suits every type of value that is no list  *)
(* compared as typed values, and no Secret.                                *)
LEMMA OptionalOK ==
  ASSUME NEW t \in Types \ {"secret"}, NEW by \in {"typed", "json", "any"},
         ~(t = "list" /\ by = "typed")
  PROVE  Suits(t, Optional(by)[t])
  BY DEF Optional, Treated, Suits, Types, Checks, Rules

(* Identity. *)
LEMMA IdentityOK ==
  /\ TableOK(EntityFields) /\ TableOK(GroupFields) /\ TableOK(EntityAliasFields)
  /\ TableOK(GroupAliasFields) /\ TableOK(PersonaFields) /\ TableOK(PolicyFields)
  /\ TableOK(PasswordPolicyFields)
<1> USE DEF Treated, Suits, Types, Checks, Rules, IdentityKey
<1>1. TableOK(EntityFields)
  BY ShapedOK DEF EntityFields, EntitySpec
<1>2. TableOK(GroupFields)
  BY ShapedOK DEF GroupFields, GroupSpec
<1>3. TableOK(EntityAliasFields)
  BY ShapedOK DEF EntityAliasFields, EntityAliasSpec
<1>4. TableOK(GroupAliasFields)
  BY ShapedOK DEF GroupAliasFields, GroupAliasSpec
<1>5. TableOK(PersonaFields)
  BY ShapedOK DEF PersonaFields, PersonaSpec
<1>6. TableOK(PolicyFields)
  BY ShapedOK DEF PolicyFields, PolicySpec
<1>7. TableOK(PasswordPolicyFields)
  BY ShapedOK DEF PasswordPolicyFields, PasswordPolicySpec
<1> QED BY <1>1, <1>2, <1>3, <1>4, <1>5, <1>6, <1>7

(* Roles. *)
LEMMA RolesOK ==
  TableOK(TokenRoleFields) /\ TableOK(AppRoleFields) /\ TableOK(KubernetesAuthRoleFields)
<1> USE DEF Suits, Types, Checks, Rules, Treated, ++
<1>1. TableOK(TokenRoleFields)
  BY ShapedOK DEF TokenRoleFields, TokenRoleSpec, Optional
<1>2. TableOK(AppRoleFields)
  BY ShapedOK DEF AppRoleFields, AppRoleSpec, Optional
<1>3. TableOK(KubernetesAuthRoleFields)
  <2> DEFINE a == Each({"boundServiceAccountNames", "boundServiceAccountNamespaces"}, "list",
                       Treated({"blank", "required"}, "set", "always", "always", "typed"))
             b == Each({"tokenPolicies"}, "list",
                       Treated({"blank"}, "set", "always", "always", "typed"))
             c == Each({"tokenTTL", "tokenMaxTTL", "tokenPeriod"}, "duration",
                       Treated({"whole"}, "raw", "always", "always", "typed"))
             d == Shaped(KubernetesAuthRoleSpec,
                         [list |-> Treated({}, "set", "ifset", "ifset", "typed")]
                           ++ Optional("typed"))
  <2>1. TableOK(a) /\ TableOK(b) /\ TableOK(c)
    BY EachOK
  <2>2. TableOK(d)
    BY ShapedOK DEF KubernetesAuthRoleSpec, Optional
  <2>3. KubernetesAuthRoleFields = a ++ b ++ c ++ d
    BY DEF KubernetesAuthRoleFields
  <2> HIDE DEF a, b, c, d, ++
  <2> QED BY <2>1, <2>2, <2>3, MergedOK
<1> QED BY <1>1, <1>2, <1>3

(* Mounts: what enabling and what tuning sends. *)
LEMMA MountOK == TableOK(MountFields ++ TuneFields)
<1> USE DEF Suits, Types, Checks, Rules, Treated, MountSpec
<1> DEFINE a == Each({"type"}, "key", Treated({"missing"}, "raw", "create", "always", "json"))
           b == Each({"pluginName"}, "text", Treated({}, "raw", "create", "ifset", "absent"))
           c == Each({"pluginVersion"}, "text", Treated({}, "raw", "create", "ifset", "json"))
           d == Each(MountSpec.flag, "flag", Treated({}, "raw", "create", "ifset", "json"))
           e == Each(MountSpec.map, "map", Treated({}, "raw", "create", "ifset", "json"))
           u == Each({"description"}, "text", Optional("json").text)
           v == Each({"listingVisibility", "tokenType"}, "text",
                     Treated({}, "raw", "ifset", "never", "json"))
           w == Each(MountSpec.duration, "duration",
                     Treated({"whole"}, "raw", "ifset", "never", "json"))
           x == Each(MountSpec.list, "list", Treated({}, "raw", "ifset", "never", "json"))
<1>1. TableOK(a) /\ TableOK(b) /\ TableOK(c) /\ TableOK(d) /\ TableOK(e)
  BY EachOK
<1>2. TableOK(u)
  BY EachOK, OptionalOK
<1>3. TableOK(v) /\ TableOK(w) /\ TableOK(x)
  BY EachOK
<1>4. MountFields = a ++ b ++ c ++ d ++ e /\ TuneFields = u ++ v ++ w ++ x
  BY DEF MountFields, TuneFields
<1> HIDE DEF a, b, c, d, e, u, v, w, x
<1>5. TableOK(MountFields) /\ TableOK(TuneFields)
  BY <1>1, <1>2, <1>3, <1>4, MergedOK
<1> QED BY <1>5, MergedOK

(* The other system resources. *)
LEMMA SystemOK ==
  /\ TableOK(NamespaceFields) /\ TableOK(AuditDeviceFields) /\ TableOK(RateLimitQuotaFields)
  /\ TableOK(WorkflowFields) /\ TableOK(PluginFields)
<1> USE DEF Suits, Types, Checks, Rules, Treated, Optional, Needed, ++
<1>1. TableOK(NamespaceFields)
  BY ShapedOK DEF NamespaceFields, NamespaceSpec
<1>2. TableOK(AuditDeviceFields)
  BY ShapedOK DEF AuditDeviceFields, AuditDeviceSpec
<1>3. TableOK(RateLimitQuotaFields)
  BY ShapedOK DEF RateLimitQuotaFields, RateLimitQuotaSpec
<1>4. TableOK(WorkflowFields)
  BY ShapedOK DEF WorkflowFields, WorkflowSpec
<1>5. TableOK(PluginFields)
  BY ShapedOK DEF PluginFields, PluginSpec
<1> QED BY <1>1, <1>2, <1>3, <1>4, <1>5

(* Additional configuration. *)
LEMMA AdditionalOK ==
  /\ TableOK(CORSFields) /\ TableOK(AuditRequestHeaderFields) /\ TableOK(UIHeaderFields)
  /\ TableOK(QuotaConfigurationFields) /\ TableOK(LoggerFields) /\ TableOK(RotationFields)
<1> USE DEF Suits, Types, Checks, Rules, Treated, Optional, Needed, CopiedLists, ++
<1>1. TableOK(CORSFields)
  BY ShapedOK DEF CORSFields, CORSSpec
<1>2. TableOK(AuditRequestHeaderFields)
  BY ShapedOK DEF AuditRequestHeaderFields, AuditRequestHeaderSpec
<1>3. TableOK(UIHeaderFields)
  BY ShapedOK DEF UIHeaderFields, UIHeaderSpec
<1>4. TableOK(QuotaConfigurationFields)
  BY ShapedOK DEF QuotaConfigurationFields, QuotaConfigurationSpec
<1>5. TableOK(LoggerFields)
  BY ShapedOK DEF LoggerFields, LoggerSpec
<1>6. TableOK(RotationFields)
  <2> DEFINE a == Each({"maxOperations"}, "number",
                       Treated({"whole"}, "raw", "ifset", "ifset", "json"))
             b == Shaped(RotationSpec, Optional("json"))
  <2>1. TableOK(a)
    BY EachOK
  <2>2. TableOK(b)
    BY ShapedOK DEF RotationSpec
  <2>3. RotationFields = a ++ b
    BY DEF RotationFields
  <2> HIDE DEF a, b, ++
  <2> QED BY <2>1, <2>2, <2>3, MergedOK
<1> QED BY <1>1, <1>2, <1>3, <1>4, <1>5, <1>6

(* Multi-factor authentication. *)
LEMMA MFAOK == TableOK(MFALoginEnforcementFields) /\ TableOK(MFAMethodFields)
<1> USE DEF Suits, Types, Checks, Rules, Treated, Optional, Needed, ++
<1>1. TableOK(MFALoginEnforcementFields)
  <2> DEFINE a == Each({"mfaMethodIDs"}, "list",
                       Treated({"blank", "missing"}, "set", "always", "always", "json"))
             b == Shaped(MFALoginEnforcementSpec,
                         [list |-> Treated({"blank"}, "set", "ifset", "ifset", "json")])
  <2>1. TableOK(a)
    BY EachOK
  <2>2. TableOK(b)
    BY ShapedOK DEF MFALoginEnforcementSpec
  <2>3. MFALoginEnforcementFields = a ++ b
    BY DEF MFALoginEnforcementFields
  <2> HIDE DEF a, b, ++
  <2> QED BY <2>1, <2>2, <2>3, MergedOK
<1>2. TableOK(MFAMethodFields)
  BY ShapedOK DEF MFAMethodFields, MFAMethodSpec
<1> QED BY <1>1, <1>2

(* OpenID Connect. *)
LEMMA OIDCOK ==
  /\ TableOK(OIDCConfigFields) /\ TableOK(OIDCProviderFields) /\ TableOK(OIDCClientFields)
  /\ TableOK(OIDCKeyFields) /\ TableOK(OIDCRoleFields) /\ TableOK(OIDCScopeFields)
  /\ TableOK(OIDCAssignmentFields)
<1> USE DEF Suits, Types, Checks, Rules, Treated, Optional, Needed, OIDCRules, ++
<1>1. TableOK(OIDCConfigFields)
  BY ShapedOK DEF OIDCConfigFields, OIDCConfigSpec
<1>2. TableOK(OIDCProviderFields)
  BY ShapedOK DEF OIDCProviderFields, OIDCProviderSpec
<1>3. TableOK(OIDCClientFields)
  BY ShapedOK DEF OIDCClientFields, OIDCClientSpec
<1>4. TableOK(OIDCKeyFields)
  BY ShapedOK DEF OIDCKeyFields, OIDCKeySpec
<1>5. TableOK(OIDCRoleFields)
  BY ShapedOK DEF OIDCRoleFields, OIDCRoleSpec
<1>6. TableOK(OIDCScopeFields)
  BY ShapedOK DEF OIDCScopeFields, OIDCScopeSpec
<1>7. TableOK(OIDCAssignmentFields)
  BY ShapedOK DEF OIDCAssignmentFields, OIDCAssignmentSpec
<1> QED BY <1>1, <1>2, <1>3, <1>4, <1>5, <1>6, <1>7

(* Every field of every kind of resource has a well-formed shape. *)
LEMMA SchemaOK ==
  \A k \in DOMAIN Schema : TableOK(Schema[k])
  BY IdentityOK, RolesOK, MountOK, SystemOK, AdditionalOK, MFAOK, OIDCOK DEF Schema

----------------------------------------------------------------------------
(* Values *)

(* A list names finitely many elements. *)
LEMMA NamesFinite ==
  ASSUME NEW val \in Seq(Int)
  PROVE  Names(val) \in SUBSET Int /\ IsFiniteSet(Names(val))
<1>1. val \in Surjection(1 .. Len(val), Names(val))
  BY DEF Surjection, Names
<1>2. IsFiniteSet(1 .. Len(val))
  BY FS_Interval
<1>3. IsFiniteSet(Names(val))
  BY <1>1, <1>2, FS_Surjection
<1>4. Names(val) \in SUBSET Int
  BY DEF Names
<1> QED BY <1>3, <1>4

(* Trimming the elements leaves finitely many, none of them with blanks. *)
LEMMA TrimmedFinite ==
  ASSUME NEW S \in SUBSET Int, IsFiniteSet(S)
  PROVE  {Trim(e) : e \in S} \in SUBSET Nat /\ IsFiniteSet({Trim(e) : e \in S})
<1> DEFINE T == {Trim(e) : e \in S}
<1>1. T \in SUBSET Nat
  BY DEF Trim
<1>2. [e \in S |-> Trim(e)] \in Surjection(S, T)
  BY DEF Surjection
<1>3. IsFiniteSet(T)
  BY <1>2, FS_Surjection
<1> QED BY <1>1, <1>3

(* What normalizing does to a list: it keeps the elements, trimmed where   *)
(* the kind trims them, and puts those that are compared as typed values   *)
(* into increasing order.                                                  *)
LEMMA NormalizedFacts ==
  ASSUME NEW s \in Shapes, NEW val \in Seq(Int)
  PROVE  /\ Normalized(s, val) \in Seq(Int)
         /\ s.norm # "set" => Names(Normalized(s, val)) = Names(val)
         /\ s.norm = "set" => Names(Normalized(s, val)) = {Trim(e) : e \in Names(val)}
         /\ s.norm \in {"set", "unique"} => Increasing(Normalized(s, val))
         /\ s.norm = "sorted" /\ Distinct(val) => Increasing(Normalized(s, val))
<1>1. Names(val) \in SUBSET Int /\ IsFiniteSet(Names(val))
  BY NamesFinite
<1>2. CASE s.norm = "set"
  <2> DEFINE T == {Trim(e) : e \in Names(val)}
  <2>1. T \in SUBSET Nat /\ IsFiniteSet(T)
    BY <1>1, TrimmedFinite
  <2>2. T \in SUBSET Int
    BY <2>1
  <2>3. Normalized(s, val) = SortedSet(T)
    BY <1>2 DEF Normalized
  <2> HIDE DEF T
  <2>4. SortedSet(T) \in Seq(Int) /\ Increasing(SortedSet(T)) /\ Names(SortedSet(T)) = T
    BY <2>1, <2>2, SortedSetFacts
  <2> QED BY <1>2, <2>3, <2>4 DEF T
<1>3. CASE s.norm = "unique"
  <2> DEFINE T == Names(val)
  <2>1. Normalized(s, val) = SortedSet(T)
    BY <1>3 DEF Normalized
  <2>2. T \in SUBSET Int /\ IsFiniteSet(T)
    BY <1>1
  <2> HIDE DEF T
  <2>3. SortedSet(T) \in Seq(Int) /\ Increasing(SortedSet(T)) /\ Names(SortedSet(T)) = T
    BY <2>2, SortedSetFacts
  <2> QED BY <1>3, <2>1, <2>3 DEF T
<1>4. CASE s.norm = "sorted"
  <2>1. Len(val) \in Nat /\ val \in [1 .. Len(val) -> Int] /\ DOMAIN val = 1 .. Len(val)
    OBVIOUS
  <2>2. Normalized(s, val) = Sorted(val)
    BY <1>4 DEF Normalized
  <2>3. /\ Sorted(val) \in [1 .. Len(val) -> Int]
        /\ Names(Sorted(val)) = Names(val)
        /\ Distinct(val) => Increasing(Sorted(val))
    BY <2>1, SortedFacts DEF Distinct
  <2>4. Sorted(val) \in Seq(Int)
    BY <2>1, <2>3
  <2> QED BY <1>4, <2>2, <2>3, <2>4
<1>5. CASE s.norm \notin {"set", "unique", "sorted"}
  BY <1>5 DEF Normalized
<1> QED BY <1>2, <1>3, <1>4, <1>5

(* An increasing list has no repeats. *)
LEMMA IncreasingDistinct ==
  ASSUME NEW t \in Seq(Int), Increasing(t)
  PROVE  Distinct(t)
<1>1. SUFFICES ASSUME NEW i \in DOMAIN t, NEW j \in DOMAIN t, i # j PROVE t[i] # t[j]
  BY DEF Distinct
<1>2. i \in Nat /\ j \in Nat /\ t[i] \in Int /\ t[j] \in Int
  OBVIOUS
<1>3. (i < j => t[i] < t[j]) /\ (j < i => t[j] < t[i])
  BY DEF Increasing
<1> QED BY <1>1, <1>2, <1>3

(* A value that is no list is determined by the elements it has. *)
LEMMA SimpleUnique ==
  ASSUME NEW t \in Seq(Int), NEW u \in Seq(Int), Len(t) <= 1, Len(u) <= 1,
         Names(t) = Names(u)
  PROVE  t = u
<1>1. Increasing(t) /\ Increasing(u)
  BY DEF Increasing
<1> QED BY <1>1, IncreasingUnique

(* The empty value. *)
LEMMA NoElement ==
  <<>> \in Seq(Int) /\ Len(<<>>) <= 1 /\ Distinct(<<>>) /\ Names(<<>>) = {}
<1>1. <<>> \in Seq(Int) /\ Len(<<>>) <= 1 /\ DOMAIN <<>> = {}
  OBVIOUS
<1> QED BY <1>1 DEF Distinct, Names

(* One element. *)
LEMMA OneElement ==
  ASSUME NEW a \in Int
  PROVE  <<a>> \in Seq(Int) /\ Len(<<a>>) <= 1 /\ Distinct(<<a>>) /\ Names(<<a>>) = {a}
<1>1. <<a>> \in Seq(Int) /\ Len(<<a>>) <= 1 /\ DOMAIN <<a>> = {1} /\ <<a>>[1] = a
  OBVIOUS
<1>2. Distinct(<<a>>)
  BY <1>1 DEF Distinct
<1>3. Names(<<a>>) = {a}
  BY <1>1 DEF Names
<1> QED BY <1>1, <1>2, <1>3

(* The empty value and the small numbers. *)
LEMMA SmallValues ==
  ASSUME NEW x \in {<<>>, << 0 >>, << 1 >>, << 2 >>}
  PROVE  /\ x \in Seq(Int) /\ Len(x) <= 1 /\ Distinct(x)
         /\ \A e \in Names(x) : e >= 0
<1>1. CASE x = <<>>
  BY <1>1, NoElement
<1>2. ASSUME NEW a \in Nat, x = <<a>>
      PROVE  x \in Seq(Int) /\ Len(x) <= 1 /\ Distinct(x) /\ \A e \in Names(x) : e >= 0
  <2>1. a \in Int /\ a >= 0
    OBVIOUS
  <2>2. x \in Seq(Int) /\ Len(x) <= 1 /\ Distinct(x) /\ Names(x) = {a}
    BY <1>2, <2>1, OneElement
  <2> QED BY <2>1, <2>2
<1>3. 0 \in Nat /\ 1 \in Nat /\ 2 \in Nat
  OBVIOUS
<1> QED BY <1>1, <1>2, <1>3

(* The values a spec may have: a Go value of the type of the field; one    *)
(* that the operator accepts is no fraction of a second.                   *)
LEMMA GivenFacts ==
  ASSUME NEW s, WellShaped(s), NEW v \in SpecValues(s)
  PROVE  /\ v = [set |-> v.set, val |-> v.val]
         /\ v.set \in BOOLEAN /\ v.val \in Seq(Int)
         /\ s.type # "list" => Len(v.val) <= 1
         /\ s.by = "typed" => Distinct(v.val)
         /\ Valid(s, v) /\ s.type \in {"number", "duration"} => v.val \in [1 .. 1 -> Nat]
<1>1. s \in Shapes
  BY DEF WellShaped
<1> DEFINE Small == {<<>>, <<0>>, <<1>>, <<2>>, <<-1>>}
           Lists == {l \in SpecLists : s.by = "typed" => Distinct(l)}
<1>2. \A val \in Small : val \in Seq(Int) /\ Len(val) <= 1 /\ Distinct(val)
  <2>1. <<-1>> \in Seq(Int) /\ Len(<<-1>>) <= 1 /\ Distinct(<<-1>>)
    <3>1. -1 \in Int
      OBVIOUS
    <3> QED BY <3>1, OneElement
  <2> QED BY <2>1, SmallValues
<1>3. \A val \in Lists : val \in Seq(Int) /\ (s.by = "typed" => Distinct(val))
  BY ListsAssumption DEF Values
<1>4. Zero(s.type) \in Small
  BY DEF Zero
<1>5. Given(s) \subseteq IF s.type = "list" THEN Lists ELSE Small
  <2>1. CASE s.type = "list"
    BY <2>1 DEF Given
  <2>2. CASE s.type = "map"
    BY <2>2 DEF Given
  <2>3. CASE s.type = "flag"
    BY <2>3 DEF Given
  <2>4. CASE s.type \in {"number", "duration"}
    BY <2>4 DEF Given
  <2>5. CASE s.type \notin {"list", "map", "flag", "number", "duration"}
    BY <2>5 DEF Given
  <2> QED BY <2>1, <2>2, <2>3, <2>4, <2>5
<1>6. /\ v = [set |-> v.set, val |-> v.val] /\ v.set \in BOOLEAN
      /\ v.set => v.val \in Given(s)
      /\ ~v.set => v.val = Zero(s.type)
  <2>1. CASE v \in {[set |-> TRUE, val |-> w] : w \in Given(s)}
    <3>1. PICK w \in Given(s) : v = [set |-> TRUE, val |-> w]
      BY <2>1, Zenon
    <3>2. v.set = TRUE /\ v.val = w
      BY <3>1
    <3> QED BY <3>1, <3>2
  <2>2. CASE v = [set |-> FALSE, val |-> Zero(s.type)]
    BY <2>2
  <2>3. (IF "required" \in s.check THEN {} ELSE {Off(s.type)})
          \subseteq {[set |-> FALSE, val |-> Zero(s.type)]}
    BY DEF Off
  <2> QED BY <2>1, <2>2, <2>3 DEF SpecValues
<1>7. v.val \in Small \/ (s.type = "list" /\ v.val \in Lists)
  BY <1>4, <1>5, <1>6
<1>8. /\ v.val \in Seq(Int) /\ (s.type # "list" => Len(v.val) <= 1)
      /\ s.by = "typed" => Distinct(v.val)
  <2> HIDE DEF Small, Lists
  <2> QED BY <1>2, <1>3, <1>7
<1>9. ASSUME Valid(s, v), s.type \in {"number", "duration"}
      PROVE  v.val \in [1 .. 1 -> Nat]
  <2>1. v.val \in {<<0>>, <<1>>} \/ (s.check # {} /\ v.set /\ v.val = <<-1>>)
    <3>1. Zero(s.type) = <<0>>
      BY <1>9 DEF Zero
    <3>2. Given(s) = {<<0>>, <<1>>} \cup (IF s.check = {} THEN {} ELSE {<<-1>>})
      <4>1. s.type # "list" /\ s.type # "map" /\ s.type # "flag"
        BY <1>9
      <4> QED BY <1>9, <4>1 DEF Given
    <3> QED BY <1>6, <3>1, <3>2
  <2>2. <<1>> # <<-1>>
    OBVIOUS
  <2>3. v.val # <<-1>> \/ ~v.set \/ s.check = {}
    <3>1. ASSUME s.check # {} PROVE "whole" \in s.check \/ "positive" \in s.check
      BY <1>9, <3>1 DEF WellShaped
    <3> QED BY <1>9, <2>2, <3>1 DEF Valid
  <2>4. v.val \in {<<0>>, <<1>>}
    BY <2>1, <2>3
  <2> QED BY <2>4
<1> QED BY <1>6, <1>8, <1>9

(* What a request asks for. *)
LEMMA DesiredFacts ==
  ASSUME NEW s, WellShaped(s), NEW v \in SpecValues(s)
  PROVE  /\ Desired(s, v) \in [set : BOOLEAN, val : Values]
         /\ Proper(s, Desired(s, v).val)
         /\ Valid(s, v) /\ s.type \in {"number", "duration"}
              => Desired(s, v).val \in [1 .. 1 -> Nat]
         /\ Valid(s, v) /\ "blank" \in s.check => 0 \notin Names(Desired(s, v).val)
<1> DEFINE d == Desired(s, v)
<1>1. s \in Shapes
  BY DEF WellShaped
<1>2. /\ v.set \in BOOLEAN /\ v.val \in Seq(Int)
      /\ s.type # "list" => Len(v.val) <= 1
      /\ s.norm = "sorted" => Distinct(v.val)
      /\ Valid(s, v) /\ s.type \in {"number", "duration"} => v.val \in [1 .. 1 -> Nat]
  BY GivenFacts DEF WellShaped
<1>3. /\ d \in [set : BOOLEAN, val : {d.val}]
      /\ d.val = IF s.type = "list" THEN Normalized(s, v.val) ELSE v.val
  BY <1>2 DEF Desired
<1> HIDE DEF d
<1>4. CASE s.type # "list"
  <2>1. d.val = v.val /\ s.norm = "raw" /\ "blank" \notin s.check
    BY <1>3, <1>4 DEF WellShaped
  <2>2. d \in [set : BOOLEAN, val : Values]
    BY <1>2, <1>3, <2>1 DEF Values
  <2>3. Proper(s, d.val)
    BY <1>2, <2>1 DEF Proper, Simple
  <2> QED BY <1>2, <2>1, <2>2, <2>3 DEF d
<1>5. CASE s.type = "list"
  <2> DEFINE n == Normalized(s, v.val)
  <2>1. /\ n \in Seq(Int)
        /\ s.norm # "set" => Names(n) = Names(v.val)
        /\ s.norm = "set" => Names(n) = {Trim(e) : e \in Names(v.val)}
        /\ s.norm \in {"set", "unique", "sorted"} => Increasing(n)
    BY <1>1, <1>2, NormalizedFacts
  <2>2. Names(v.val) \in SUBSET Int
    BY <1>2, NamesFinite
  <2> HIDE DEF n
  <2>3. s.norm = "set" => \A e \in Names(n) : e >= 0
    BY <2>1, <2>2 DEF Trim
  <2>4. s.norm = "sorted" => Distinct(n)
    BY <2>1, IncreasingDistinct
  <2>5. Proper(s, n)
    BY <1>5, <2>3, <2>4 DEF Proper, Simple
  <2>6. 0 \in Names(n) => 0 \in Names(v.val)
    <3>1. \A e \in Int : Trim(e) = 0 => e = 0
      BY DEF Trim
    <3> QED BY <2>1, <2>2, <3>1
  <2>7. Valid(s, v) /\ "blank" \in s.check => 0 \notin Names(n)
    BY <2>6 DEF Valid
  <2>8. d.val = n
    BY <1>3, <1>5 DEF n
  <2>9. d \in [set : BOOLEAN, val : Values]
    BY <1>3, <2>1, <2>8 DEF Values
  <2> QED BY <1>5, <2>5, <2>7, <2>8, <2>9 DEF d
<1> QED BY <1>4, <1>5

(* What others may put into OpenBao. *)
LEMMA BaoFacts ==
  ASSUME NEW s, WellShaped(s), NEW val \in BaoValues(s)
  PROVE  val \in Values /\ Proper(s, val)
<1> DEFINE Small == {<<>>, <<0>>, <<1>>, <<2>>}
<1>1. CASE s.type = "list"
  <2>1. val \in BaoLists
    BY <1>1 DEF BaoValues
  <2>2. val \in Seq(Nat) /\ Distinct(val)
    BY <2>1, ListsAssumption
  <2>3. Names(val) \subseteq Nat /\ val \in Seq(Int)
    BY <2>2 DEF Names
  <2>4. \A e \in Names(val) : e >= 0
    BY <2>3
  <2> QED BY <1>1, <2>2, <2>3, <2>4 DEF Values, Proper, Simple
<1>2. CASE s.type # "list"
  <2>1. val \in Small
    <3>1. CASE s.type \in {"flag", "number", "duration"}
      BY <1>2, <3>1 DEF BaoValues
    <3>2. CASE s.type \notin {"flag", "number", "duration"}
      BY <1>2, <3>2 DEF BaoValues
    <3> QED BY <3>1, <3>2
  <2>2. val \in Seq(Int) /\ Len(val) <= 1 /\ Distinct(val) /\ (\A e \in Names(val) : e >= 0)
    BY <2>1, SmallValues
  <2> QED BY <2>2 DEF Values, Proper, Simple
<1> QED BY <1>1, <1>2

(* The empty value of a type. *)
LEMMA ZeroFacts ==
  ASSUME NEW s, WellShaped(s)
  PROVE  /\ Off(s.type) \in [set : BOOLEAN, val : Values]
         /\ Off(s.type).val = Zero(s.type) /\ Zero(s.type) \in Values
         /\ Proper(s, Zero(s.type))
         /\ s.type \in {"number", "duration"} => Zero(s.type) \in [1 .. 1 -> Nat]
         /\ "blank" \in s.check => 0 \notin Names(Zero(s.type))
<1>1. Zero(s.type) \in {<<>>, <<0>>}
  BY DEF Zero
<1>2. \A x \in {<<>>, <<0>>} : x \in Seq(Int) /\ Len(x) <= 1 /\ Distinct(x)
                                 /\ \A e \in Names(x) : e >= 0
  BY SmallValues
<1>3. Zero(s.type) \in Values /\ Proper(s, Zero(s.type))
  BY <1>1, <1>2 DEF Values, Proper, Simple, Distinct
<1>4. s.type \in {"number", "duration"} => Zero(s.type) \in [1 .. 1 -> Nat]
  BY DEF Zero
<1>5. "blank" \in s.check => Zero(s.type) = <<>>
  BY DEF WellShaped, Zero
<1>6. 0 \notin Names(<<>>)
  BY DEF Names
<1> QED BY <1>3, <1>4, <1>5, <1>6 DEF Off

(* What a request leaves in OpenBao. *)
LEMMA StoredFacts ==
  ASSUME NEW s, WellShaped(s), NEW d \in [set : BOOLEAN, val : Values], NEW old \in Values,
         Proper(s, d.val), Proper(s, old)
  PROVE  /\ Stored(s, d, old) \in Values
         /\ Proper(s, Stored(s, d, old))
         /\ d.set /\ s.sent # "create" => Names(Stored(s, d, old)) = Names(d.val)
<1> DEFINE r == Stored(s, d, old)
<1>1. Zero(s.type) \in Values /\ Proper(s, Zero(s.type))
  BY ZeroFacts
<1>2. CASE s.sent = "create" \/ ~d.set
  BY <1>1, <1>2 DEF Stored
<1>3. CASE s.sent # "create" /\ d.set /\ ~(s.type = "list" /\ habit.sorts)
  BY <1>3 DEF Stored
<1>4. CASE s.sent # "create" /\ d.set /\ s.type = "list" /\ habit.sorts
  <2> DEFINE T == Names(d.val)
  <2>1. r = SortedSet(T)
    BY <1>4 DEF Stored
  <2>2. T \in SUBSET Int /\ IsFiniteSet(T)
    BY NamesFinite DEF Values
  <2>3. s.norm = "set" => \A e \in T : e >= 0
    BY DEF Proper
  <2> HIDE DEF T, r
  <2>4. r \in Seq(Int) /\ Increasing(r) /\ Names(r) = T
    BY <2>1, <2>2, SortedSetFacts
  <2>5. Distinct(r)
    BY <2>4, IncreasingDistinct
  <2>6. Proper(s, r)
    BY <1>4, <2>3, <2>4, <2>5 DEF Proper, Simple
  <2> QED BY <2>4, <2>6 DEF Values, T, r
<1> QED BY <1>2, <1>3, <1>4

----------------------------------------------------------------------------
(* The comparison *)

(* A field that was compared, other than by a hash, and found equal holds  *)
(* what the spec asks for.                                                 *)
LEMMA EqualHolds ==
  ASSUME TypeOK, WellShaped(field), Proper(field, bao), field.by # "hash",
         Compared(field, spec), Matches(field, spec, Desired(field, spec), bao)
  PROVE  Holds
<1> DEFINE d == Desired(field, spec)
<1>1. field \in Shapes /\ bao \in Seq(Int)
  BY DEF WellShaped, TypeOK, Values
<1>2. Equal(field, spec, d, bao)
  BY DEF Matches
<1>3. CASE field.by = "typed" /\ field.type = "list"
  <2>1. d.val = Normalized(field, bao)
    BY <1>2, <1>3 DEF Equal
  <2>2. Names(Normalized(field, bao)) = Names(bao)
    <3>1. CASE field.norm = "set"
      <4>1. Names(Normalized(field, bao)) = {Trim(e) : e \in Names(bao)}
        BY <1>1, <3>1, NormalizedFacts
      <4>2. Names(bao) \in SUBSET Int
        BY <1>1, NamesFinite
      <4>3. \A e \in Names(bao) : Trim(e) = e
        BY <3>1, <4>2 DEF Proper, Trim
      <4> QED BY <4>1, <4>3
    <3>2. CASE field.norm # "set"
      BY <1>1, <3>2, NormalizedFacts
    <3> QED BY <3>1, <3>2
  <2> QED BY <2>1, <2>2 DEF Holds
<1>4. CASE ~(field.by = "typed" /\ field.type = "list")
  <2>1. field.by \in {"typed", "json", "deep", "any", "absent"}
    BY <1>1 DEF Shapes
  <2>2. d.val = bao
    <3>1. CASE field.by = "typed"
      BY <1>2, <1>4, <3>1 DEF Equal
    <3>2. CASE field.by \in {"json", "deep"}
      BY <1>2, <3>2 DEF Equal, JSONEqual
    <3>3. CASE field.by = "any"
      BY <1>2, <3>3 DEF Equal
    <3>4. CASE field.by = "absent"
      BY <1>2, <3>4 DEF Equal
    <3> QED BY <2>1, <3>1, <3>2, <3>3, <3>4
  <2> QED BY <2>2 DEF Holds
<1> QED BY <1>3, <1>4

(* The fields that are enforced are compared. *)
LEMMA EnforcedCompared ==
  ASSUME WellShaped(field), Enforced, field.by # "hash"
  PROVE  Compared(field, spec)
<1>1. field.seen \in {"always", "ifset", "never"}
  BY DEF WellShaped, Shapes
<1> QED BY <1>1 DEF WellShaped, Enforced, Compared

(* A request that asks for what the spec asks for leaves it in OpenBao. *)
LEMMA ApplyHolds ==
  ASSUME StatusInv, Apply, UNCHANGED <<field, spec>>, want = Desired(field, spec),
         field.sent # "create", spec.set \/ field.sent = "always"
  PROVE  Holds'
<1>1. /\ WellShaped(field) /\ want \in [set : BOOLEAN, val : Values] /\ bao \in Values
      /\ Proper(field, want.val) /\ Proper(field, bao)
  BY DEF StatusInv, TypeOK
<1>2. want.set
  BY DEF Desired
<1>3. Names(Stored(field, want, bao)) = Names(want.val)
  BY <1>1, <1>2, StoredFacts
<1>4. Names(bao') = Names(want.val)
  BY <1>3 DEF Apply
<1> QED BY <1>4 DEF Holds

----------------------------------------------------------------------------
(* The invariant *)

(* The part that speaks of the values alone. *)
DataInv ==
    /\ TypeOK /\ WellShaped(field)
    /\ Proper(field, bao) /\ Proper(field, want.val) /\ Simple(field, hash)

(* What a wanted value must be. *)
Wanted(s, d) ==
    /\ d \in [set : BOOLEAN, val : Values]
    /\ Proper(s, d.val)
    /\ s.type \in {"number", "duration"} => d.val \in [1 .. 1 -> Nat]
    /\ "blank" \in s.check => 0 \notin Names(d.val)

(* Nothing is wanted between two calls of Reconcile. *)
LEMMA WantedOff ==
  ASSUME NEW s, WellShaped(s)
  PROVE  Wanted(s, Off(s.type))
  BY ZeroFacts DEF Wanted

(* What a valid spec asks for. *)
LEMMA WantedDesired ==
  ASSUME NEW s, WellShaped(s), NEW v \in SpecValues(s), Valid(s, v)
  PROVE  Wanted(s, Desired(s, v))
  BY DesiredFacts DEF Wanted

(* A step keeps the values proper when it changes each of them properly. *)
LEMMA DataStep ==
  ASSUME DataInv, UNCHANGED <<field, habit>>, spec' \in SpecValues(field),
         bao' \in Values /\ Proper(field, bao'), hash' \in Values /\ Simple(field, hash'),
         pc' \in {"idle", "write", "reread", "record"}, Wanted(field, want'),
         drift' \in BOOLEAN, stale' \in BOOLEAN, ready' \in BOOLEAN, spoiled' \in BOOLEAN,
         budget' \in [edits : 0 .. MaxEdits, foreign : 0 .. MaxForeign, faults : 0 .. MaxFaults]
  PROVE  DataInv'
<1>1. field' = field /\ habit' = habit
  OBVIOUS
<1>2. WellShaped(field)' /\ field \in Shapes /\ habit \in Habits
  BY <1>1 DEF DataInv, TypeOK
<1>3. TypeOK'
  BY <1>1, <1>2 DEF TypeOK, Wanted
<1> QED BY <1>1, <1>2, <1>3 DEF DataInv, Wanted

(* Spending keeps the budget. *)
LEMMA SpendType ==
  ASSUME TypeOK, NEW b \in {"edits", "foreign", "faults"}, Spend(b)
  PROVE  budget' \in [edits : 0 .. MaxEdits, foreign : 0 .. MaxForeign, faults : 0 .. MaxFaults]
<1>1. budget \in [edits : 0 .. MaxEdits, foreign : 0 .. MaxForeign, faults : 0 .. MaxFaults]
  BY DEF TypeOK
<1>2. budget[b] > 0 /\ budget' = [budget EXCEPT ![b] = @ - 1]
  BY DEF Spend
<1>3. CASE b = "edits"
  BY <1>1, <1>2, <1>3, BoundsAssumption
<1>4. CASE b = "foreign"
  BY <1>1, <1>2, <1>4, BoundsAssumption
<1>5. CASE b = "faults"
  BY <1>1, <1>2, <1>5, BoundsAssumption
<1> QED BY <1>3, <1>4, <1>5

(* Every step keeps the values proper. *)
LEMMA DataInductive ==
  ASSUME DataInv, [Next]_vars
  PROVE  DataInv'
<1> DEFINE Budgets == [edits : 0 .. MaxEdits, foreign : 0 .. MaxForeign, faults : 0 .. MaxFaults]
<1>1. /\ TypeOK /\ WellShaped(field) /\ spec \in SpecValues(field)
      /\ bao \in Values /\ Proper(field, bao) /\ hash \in Values /\ Simple(field, hash)
      /\ pc \in {"idle", "write", "reread", "record"} /\ Wanted(field, want)
      /\ drift \in BOOLEAN /\ stale \in BOOLEAN /\ ready \in BOOLEAN /\ spoiled \in BOOLEAN
      /\ budget \in Budgets
  BY DEF DataInv, TypeOK, Wanted
<1>2. Wanted(field, Off(field.type))
  BY <1>1, WantedOff
<1>3. ASSUME Spend("faults") PROVE budget' \in Budgets
  BY <1>1, <1>3, SpendType
<1>4. ASSUME Failed
      PROVE  pc' = "idle" /\ Wanted(field, want') /\ drift' \in BOOLEAN /\ ready' \in BOOLEAN
  BY <1>1, <1>2, <1>4 DEF Failed, Return
<1>5. ASSUME Apply
      PROVE  bao' \in Values /\ Proper(field, bao') /\ spoiled' \in BOOLEAN
  <2>1. want \in [set : BOOLEAN, val : Values] /\ Proper(field, want.val)
    BY <1>1 DEF Wanted
  <2>2. Stored(field, want, bao) \in Values /\ Proper(field, Stored(field, want, bao))
    BY <1>1, <2>1, StoredFacts
  <2> QED BY <1>5, <2>2 DEF Apply
<1> HIDE DEF Budgets
<1>6. CASE Read
  <2>1. UNCHANGED <<field, habit, spec, bao, hash, budget>> /\ stale' \in BOOLEAN
    BY <1>6 DEF Read
  <2>2. /\ pc' \in {"idle", "write", "reread", "record"} /\ Wanted(field, want')
        /\ drift' \in BOOLEAN /\ ready' \in BOOLEAN /\ spoiled' \in BOOLEAN
    <3>1. CASE ~Valid(field, spec)
      BY <1>1, <1>4, <1>6, <3>1 DEF Read
    <3>2. CASE Valid(field, spec)
      <4>1. Wanted(field, Desired(field, spec))
        BY <1>1, <3>2, WantedDesired
      <4> QED BY <1>1, <1>6, <3>2, <4>1 DEF Read
    <3> QED BY <3>1, <3>2
  <2> QED BY <1>1, <2>1, <2>2, DataStep DEF Budgets
<1>7. CASE Write
  <2>1. UNCHANGED <<field, habit, spec, stale, hash>>
    BY <1>7 DEF Write
  <2>2. CASE Apply /\ pc' = "reread" /\ UNCHANGED <<want, drift, ready, budget>>
    BY <1>1, <1>5, <2>1, <2>2, DataStep DEF Budgets
  <2>3. CASE Spend("faults") /\ Failed /\ (Apply \/ UNCHANGED <<bao, spoiled>>)
    <3>1. bao' \in Values /\ Proper(field, bao') /\ spoiled' \in BOOLEAN
      BY <1>1, <1>5, <2>3
    <3> QED BY <1>1, <1>3, <1>4, <2>1, <2>3, <3>1, DataStep DEF Budgets
  <2> QED BY <1>7, <2>2, <2>3 DEF Write
<1>8. CASE Reread
  <2>1. UNCHANGED <<field, habit, spec, bao, stale, hash, spoiled>>
    BY <1>8 DEF Reread
  <2>2. CASE pc' = "record" /\ UNCHANGED <<want, drift, ready, budget>>
    BY <1>1, <2>1, <2>2, DataStep DEF Budgets
  <2>3. CASE Spend("faults") /\ Failed
    BY <1>1, <1>3, <1>4, <2>1, <2>3, DataStep DEF Budgets
  <2> QED BY <1>8, <2>2, <2>3 DEF Reread
<1>9. CASE Record
  <2>1. UNCHANGED <<field, habit, spec, bao, stale, spoiled>> /\ Return
    BY <1>9 DEF Record
  <2>2. pc' = "idle" /\ Wanted(field, want') /\ drift' \in BOOLEAN
    BY <1>2, <2>1 DEF Return
  <2>3. budget' \in Budgets /\ ready' \in BOOLEAN
    BY <1>1, <1>3, <1>9 DEF Record
  <2>4. hash' \in Values /\ Simple(field, hash')
    <3>1. want.val \in Values /\ Simple(field, want.val)
      BY <1>1 DEF Wanted, Proper
    <3> QED BY <1>1, <1>9, <3>1 DEF Record
  <2> QED BY <1>1, <2>1, <2>2, <2>3, <2>4, DataStep DEF Budgets
<1>10. CASE Edit
  <2>1. UNCHANGED <<field, habit, bao, pc, want, drift, hash>> /\ stale' \in BOOLEAN
    BY <1>10 DEF Edit
  <2>2. spec' \in SpecValues(field) /\ ready' \in BOOLEAN /\ spoiled' \in BOOLEAN
    BY <1>1, <1>10 DEF Edit
  <2>3. budget' \in Budgets
    BY <1>1, <1>10, SpendType DEF Edit, Budgets
  <2> QED BY <1>1, <2>1, <2>2, <2>3, DataStep DEF Budgets
<1>11. CASE Foreign
  <2>1. UNCHANGED <<field, habit, spec, pc, want, drift, stale, ready, hash>>
    BY <1>11 DEF Foreign
  <2>2. bao' \in Values /\ Proper(field, bao') /\ spoiled' \in BOOLEAN
    BY <1>1, <1>11, BaoFacts DEF Foreign
  <2>3. budget' \in Budgets
    BY <1>1, <1>11, SpendType DEF Foreign, Budgets
  <2> QED BY <1>1, <2>1, <2>2, <2>3, DataStep DEF Budgets
<1>12. CASE UNCHANGED vars
  BY <1>1, <1>12, DataStep DEF vars, Budgets
<1> QED BY <1>6, <1>7, <1>8, <1>9, <1>10, <1>11, <1>12 DEF Next, Reconciler

(* A Reconcile that fails never makes a resource Ready. *)
LEMMA FailedFacts ==
  ASSUME Failed
  PROVE  pc' = "idle" /\ (ready' => ready)
<1>1. pc' = "idle" /\ (ready' = ready \/ ready' = FALSE)
  BY DEF Failed, Return
<1>2. CASE ready' = ready
  BY <1>1, <1>2
<1>3. CASE ready' = FALSE
  BY <1>1, <1>3
<1> QED BY <1>1, <1>2, <1>3

(* Reading and comparing: a spoiled field is trusted again only when it    *)
(* was compared, found equal and is no secret.                             *)
LEMMA ReadHonest ==
  ASSUME StatusInv, Read
  PROVE  ReadyIsHonest' /\ ProgressInv'
<1>1. /\ TypeOK /\ WellShaped(field) /\ Proper(field, bao) /\ ReadyIsHonest /\ ProgressInv
      /\ pc = "idle" /\ stale' = FALSE
      /\ UNCHANGED <<field, habit, spec, bao, hash, budget>>
  BY DEF StatusInv, Read
<1>2. Enforced' = Enforced /\ Holds' = Holds /\ Valid(field, spec)' = Valid(field, spec)
  BY <1>1 DEF Enforced, Holds
<1>3. CASE ~Valid(field, spec)
  <2>1. pc' = "idle" /\ (ready' => ready) /\ spoiled' = spoiled
    BY <1>3, FailedFacts DEF Read
  <2>2. ReadyIsHonest'
    BY <1>1, <1>2, <2>1 DEF ReadyIsHonest
  <2> QED BY <1>1, <1>2, <2>1, <2>2 DEF ProgressInv
<1>4. CASE Valid(field, spec)
  <2> DEFINE d == Desired(field, spec)
  <2>1. /\ want' = d /\ ready' = ready
        /\ drift' = ~Matches(field, spec, d, bao)
        /\ spoiled' = (spoiled /\ (drift' \/ ~Compared(field, spec) \/ field.by = "hash"))
        /\ pc' \in {"write", "record"} /\ (pc' = "record" => ~drift')
    BY <1>4 DEF Read
  <2>2. ASSUME ~spoiled', Enforced PROVE ~spoiled \/ Holds
    <3>1. ASSUME spoiled PROVE Holds
      <4>1. ~drift' /\ Compared(field, spec) /\ field.by # "hash"
        BY <2>1, <2>2, <3>1
      <4>2. Matches(field, spec, d, bao)
        BY <2>1, <4>1
      <4> QED BY <1>1, <4>1, <4>2, EqualHolds
    <3> QED BY <3>1
  <2>3. ReadyIsHonest'
    BY <1>1, <1>2, <1>4, <2>1, <2>2 DEF ReadyIsHonest
  <2>4. ASSUME pc' = "record", ~spoiled', Enforced PROVE Holds
    <3>1. CASE field.by = "hash"
      <4>1. field.type = "secret" /\ ~spoiled
        BY <1>1, <2>1, <2>4, <3>1 DEF WellShaped
      <4> QED BY <1>1, <4>1 DEF ProgressInv
    <3>2. CASE field.by # "hash"
      <4>1. Compared(field, spec)
        BY <1>1, <2>4, <3>2, EnforcedCompared
      <4>2. Matches(field, spec, d, bao)
        BY <2>1, <2>4
      <4> QED BY <1>1, <3>2, <4>1, <4>2, EqualHolds
    <3> QED BY <3>1, <3>2
  <2>5. ASSUME field.type = "secret", ~spoiled' PROVE Holds
    <3>1. ~spoiled
      BY <1>1, <2>1, <2>5 DEF WellShaped
    <3> QED BY <1>1, <2>5, <3>1 DEF ProgressInv
  <2>6. want' = Desired(field, spec)'
    BY <1>1, <2>1
  <2> HIDE DEF d
  <2> QED BY <1>1, <1>2, <1>4, <2>1, <2>3, <2>4, <2>5, <2>6 DEF ProgressInv
<1> QED BY <1>3, <1>4

(* Writing: a request that is not stale leaves what the spec asks for; a   *)
(* stale one belongs to a resource that is no longer Ready, or to a Secret *)
(* that was changed since.                                                 *)
LEMMA WriteHonest ==
  ASSUME StatusInv, Write
  PROVE  ReadyIsHonest' /\ ProgressInv'
<1>1. /\ TypeOK /\ WellShaped(field) /\ ReadyIsHonest /\ ProgressInv
      /\ pc = "write" /\ UNCHANGED <<field, habit, spec, stale, hash>>
  BY DEF StatusInv, Write
<1>2. Enforced' = Enforced /\ Valid(field, spec)' = Valid(field, spec)
  BY <1>1 DEF Enforced
<1>3. /\ pc' = "idle" \/ (pc' = "reread" /\ want' = want /\ Apply)
      /\ ready' => ready
  <2>1. CASE Apply /\ pc' = "reread" /\ UNCHANGED <<want, drift, ready, budget>>
    <3>1. ready' = ready /\ want' = want
      BY <2>1
    <3> QED BY <2>1, <3>1
  <2>2. CASE Failed
    BY <2>2, FailedFacts
  <2> QED BY <2>1, <2>2 DEF Write
<1>4. Desired(field, spec)' = Desired(field, spec)
  BY <1>1
<1>5. CASE Apply
  <2>1. ASSUME ~stale PROVE Valid(field, spec) /\ want = Desired(field, spec)
    BY <1>1, <2>1 DEF ProgressInv
  <2>2. ASSUME ~stale, Enforced PROVE Holds'
    BY <1>1, <1>5, <2>1, <2>2, ApplyHolds DEF Enforced
  <2>3. spoiled' = (field.type = "secret" /\ stale)
    BY <1>5 DEF Apply
  <2>4. stale /\ ready => field.type = "secret"
    BY <1>1 DEF ProgressInv
  <2>5. ReadyIsHonest'
    BY <1>1, <1>2, <1>3, <2>1, <2>2, <2>3, <2>4 DEF ReadyIsHonest
  <2>6. ASSUME field.type = "secret", ~stale PROVE Holds'
    <3>1. field.sent = "always" /\ field.sent # "create"
      BY <1>1, <2>6 DEF WellShaped
    <3> QED BY <1>1, <1>5, <2>1, <2>6, <3>1, ApplyHolds
  <2> QED BY <1>1, <1>2, <1>3, <1>4, <2>1, <2>2, <2>3, <2>4, <2>5, <2>6 DEF ProgressInv
<1>6. CASE UNCHANGED <<bao, spoiled>> /\ ~Apply
  <2>1. Holds' = Holds
    BY <1>1, <1>6 DEF Holds
  <2>2. ReadyIsHonest'
    BY <1>1, <1>2, <1>3, <1>6, <2>1 DEF ReadyIsHonest
  <2> QED BY <1>1, <1>2, <1>3, <1>6, <2>1, <2>2 DEF ProgressInv
<1> QED BY <1>5, <1>6 DEF Write

(* Reading back changes nothing that Ready is about. *)
LEMMA RereadHonest ==
  ASSUME StatusInv, Reread
  PROVE  ReadyIsHonest' /\ ProgressInv'
<1>1. /\ ReadyIsHonest /\ ProgressInv /\ pc = "reread"
      /\ UNCHANGED <<field, habit, spec, bao, stale, hash, spoiled>>
  BY DEF StatusInv, Reread
<1>2. /\ Enforced' = Enforced /\ Holds' = Holds /\ Valid(field, spec)' = Valid(field, spec)
      /\ Desired(field, spec)' = Desired(field, spec)
  BY <1>1 DEF Enforced, Holds
<1>3. (pc' = "idle" \/ (pc' = "record" /\ want' = want)) /\ (ready' => ready)
  <2>1. CASE pc' = "record" /\ UNCHANGED <<want, drift, ready, budget>>
    <3>1. ready' = ready /\ want' = want
      BY <2>1
    <3> QED BY <2>1, <3>1
  <2>2. CASE Failed
    BY <2>2, FailedFacts
  <2> QED BY <2>1, <2>2 DEF Reread
<1>4. ReadyIsHonest'
  BY <1>1, <1>2, <1>3 DEF ReadyIsHonest
<1> QED BY <1>1, <1>2, <1>3, <1>4 DEF ProgressInv

(* Reporting: what is not refused was read from the current spec, or is    *)
(* about a secret.                                                         *)
LEMMA RecordHonest ==
  ASSUME StatusInv, Record
  PROVE  ReadyIsHonest' /\ ProgressInv'
<1>1. /\ ReadyIsHonest /\ ProgressInv /\ pc = "record" /\ pc' = "idle"
      /\ UNCHANGED <<field, habit, spec, bao, stale, spoiled>>
  BY DEF StatusInv, Record, Return
<1>2. Enforced' = Enforced /\ Holds' = Holds /\ Valid(field, spec)' = Valid(field, spec)
  BY <1>1 DEF Enforced, Holds
<1>3. (~Refused /\ ready' = TRUE) \/ ready' = ready
  BY DEF Record
<1>4. CASE ~Refused /\ ready' = TRUE
  <2>1. stale => field.type = "secret"
    BY <1>4 DEF Refused
  <2>2. ASSUME ~spoiled, Enforced PROVE Valid(field, spec) /\ Holds
    BY <1>1, <2>1, <2>2 DEF ProgressInv
  <2>3. ReadyIsHonest'
    BY <1>1, <1>2, <2>2 DEF ReadyIsHonest
  <2> QED BY <1>1, <1>2, <2>1, <2>3 DEF ProgressInv
<1>5. CASE ready' = ready
  <2>1. ReadyIsHonest'
    BY <1>1, <1>2, <1>5 DEF ReadyIsHonest
  <2> QED BY <1>1, <1>2, <1>5, <2>1 DEF ProgressInv
<1> QED BY <1>3, <1>4, <1>5

(* An edit takes Ready away, or spoils the secret. *)
LEMMA EditHonest ==
  ASSUME StatusInv, Edit
  PROVE  ReadyIsHonest' /\ ProgressInv'
<1>1. stale' = TRUE /\ field' = field
  BY DEF Edit
<1>2. IF field.type = "secret" THEN spoiled' = TRUE ELSE ready' = FALSE
  BY DEF Edit
<1>3. ReadyIsHonest'
  <2>1. CASE field.type = "secret"
    BY <1>2, <2>1 DEF ReadyIsHonest
  <2>2. CASE field.type # "secret"
    BY <1>2, <2>2 DEF ReadyIsHonest
  <2> QED BY <2>1, <2>2
<1>4. ProgressInv'
  BY <1>1, <1>2 DEF ProgressInv
<1> QED BY <1>3, <1>4

(* What others write is spoiled. *)
LEMMA ForeignHonest ==
  ASSUME StatusInv, Foreign
  PROVE  ReadyIsHonest' /\ ProgressInv'
<1>1. /\ ProgressInv /\ spoiled' = TRUE
      /\ UNCHANGED <<field, habit, spec, pc, want, drift, stale, ready, hash>>
  BY DEF StatusInv, Foreign
<1>2. /\ Valid(field, spec)' = Valid(field, spec)
      /\ Desired(field, spec)' = Desired(field, spec)
  BY <1>1
<1>3. ReadyIsHonest'
  BY <1>1 DEF ReadyIsHonest
<1> QED BY <1>1, <1>2, <1>3 DEF ProgressInv

(* StatusInv is inductive. *)
LEMMA StatusInductive ==
  ASSUME StatusInv, [Next]_vars
  PROVE  StatusInv'
<1>1. DataInv
  BY DEF StatusInv, DataInv
<1>2. DataInv'
  BY <1>1, DataInductive
<1>3. ReadyIsHonest' /\ ProgressInv'
  <2>1. CASE UNCHANGED vars
    <3>1. /\ Enforced' = Enforced /\ Holds' = Holds
          /\ Valid(field, spec)' = Valid(field, spec)
          /\ Desired(field, spec)' = Desired(field, spec)
      BY <2>1 DEF vars, Enforced, Holds
    <3> QED BY <2>1, <3>1 DEF StatusInv, ReadyIsHonest, ProgressInv, vars
  <2> QED BY <2>1, ReadHonest, WriteHonest, RereadHonest, RecordHonest, EditHonest,
             ForeignHonest DEF Next, Reconciler
<1> QED BY <1>2, <1>3 DEF StatusInv, DataInv

(* It holds of a resource whose object has just been acquired. *)
LEMMA StatusInitial == Init => StatusInv
<1>1. SUFFICES ASSUME Init PROVE StatusInv
  OBVIOUS
<1>2. PICK k \in Kinds : \E f \in DOMAIN Schema[k] : field = Schema[k][f]
  BY <1>1 DEF Init
<1>3. WellShaped(field)
  BY <1>2, SchemaOK, KindsAssumption DEF TableOK
<1>4. field \in Shapes
  BY <1>3 DEF WellShaped
<1>5. bao \in Values /\ Proper(field, bao)
  BY <1>1, <1>3, BaoFacts DEF Init
<1>6. Wanted(field, want)
  BY <1>1, <1>3, WantedOff DEF Init
<1>7. hash \in Values /\ Simple(field, hash)
  BY <1>1, NoElement DEF Init, Values, Simple
<1>8. budget \in [edits : 0 .. MaxEdits, foreign : 0 .. MaxForeign, faults : 0 .. MaxFaults]
  BY <1>1, BoundsAssumption DEF Init
<1>9. TypeOK
  BY <1>1, <1>4, <1>5, <1>6, <1>7, <1>8 DEF Init, TypeOK, Wanted
<1>10. ReadyIsHonest /\ ProgressInv
  BY <1>1 DEF Init, ReadyIsHonest, ProgressInv
<1> QED BY <1>3, <1>5, <1>6, <1>7, <1>9, <1>10 DEF StatusInv, Wanted

(* For every kind of resource and field, and any number of edits, foreign  *)
(* writes and faults: Ready is never reported for a field that nobody else *)
(* changed and that OpenBao does not hold (markReady after the read-back). *)
THEOREM Invariance == Spec => []StatusInv
<1>1. Init => StatusInv
  BY StatusInitial
<1>2. StatusInv /\ [Next]_vars => StatusInv'
  BY StatusInductive
<1> QED BY <1>1, <1>2, PTL DEF Spec

----------------------------------------------------------------------------
(* Drift *)

(* Values that a comparison tells apart name different elements. *)
LEMMA UnequalDiffers ==
  ASSUME StatusInv, field.by \in {"typed", "hash"},
         ~Matches(field, spec, Desired(field, spec), bao)
  PROVE  Names(Desired(field, spec).val) # Names(IF field.by = "hash" THEN hash ELSE bao)
<1> DEFINE d == Desired(field, spec)
<1>1. /\ WellShaped(field) /\ field \in Shapes /\ spec \in SpecValues(field)
      /\ bao \in Seq(Int) /\ Proper(field, bao) /\ hash \in Seq(Int) /\ Simple(field, hash)
  BY DEF StatusInv, TypeOK, WellShaped, Values
<1>2. d.val \in Seq(Int) /\ Proper(field, d.val)
  BY <1>1, DesiredFacts DEF Values
<1>3. ~Equal(field, spec, d, bao)
  BY DEF Matches
<1>4. CASE field.type # "list"
  <2> DEFINE seen == IF field.by = "hash" THEN hash ELSE bao
  <2>1. d.val # seen
    BY <1>3, <1>4 DEF Equal
  <2>2. seen \in Seq(Int) /\ Len(seen) <= 1 /\ Len(d.val) <= 1
    BY <1>1, <1>2, <1>4 DEF Proper, Simple
  <2> HIDE DEF seen, d
  <2>3. Names(d.val) # Names(seen)
    BY <1>2, <2>1, <2>2, SimpleUnique
  <2> QED BY <2>3 DEF seen, d
<1>5. CASE field.type = "list"
  <2>1. field.by = "typed" /\ field.norm \in {"set", "unique", "sorted"}
    BY <1>1, <1>5 DEF WellShaped
  <2> DEFINE n == Normalized(field, spec.val)
             m == Normalized(field, bao)
  <2>2. d.val = n /\ n # m
    BY <1>3, <1>5, <2>1 DEF Equal, Desired
  <2>3. spec.val \in Seq(Int) /\ Distinct(spec.val)
    BY <1>1, <2>1, GivenFacts
  <2>4. n \in Seq(Int) /\ Increasing(n)
    BY <1>1, <2>1, <2>3, NormalizedFacts
  <2>5. m \in Seq(Int) /\ Increasing(m)
    <3>1. field.norm = "sorted" => Distinct(bao)
      BY <1>1 DEF Proper
    <3> QED BY <1>1, <2>1, <3>1, NormalizedFacts
  <2>6. Names(m) = Names(bao)
    <3>1. CASE field.norm = "set"
      <4>1. Names(m) = {Trim(e) : e \in Names(bao)}
        BY <1>1, <3>1, NormalizedFacts
      <4>2. Names(bao) \in SUBSET Int
        BY <1>1, NamesFinite
      <4>3. \A e \in Names(bao) : Trim(e) = e
        BY <1>1, <3>1, <4>2 DEF Proper, Trim
      <4> QED BY <4>1, <4>3
    <3>2. CASE field.norm # "set"
      BY <1>1, <3>2, NormalizedFacts
    <3> QED BY <3>1, <3>2
  <2> HIDE DEF n, m, d
  <2>7. Names(n) # Names(m)
    BY <2>2, <2>4, <2>5, IncreasingUnique
  <2> QED BY <2>1, <2>2, <2>6, <2>7 DEF d
<1> QED BY <1>4, <1>5

(* For lists of any length: a difference is only ever found where there is *)
(* one, in the fields compared as typed values and in the Secrets.         *)
THEOREM RealDrift == Spec => DriftIsReal
<1> DEFINE A == drift' /\ ~drift /\ field.by \in {"typed", "hash"}
                  => Names(want'.val) # Names(IF field.by = "hash" THEN hash ELSE bao)
<1>1. StatusInv /\ [Next]_vars => [A]_vars
  <2>1. SUFFICES ASSUME StatusInv, [Next]_vars, drift', ~drift, field.by \in {"typed", "hash"}
                 PROVE  Names(want'.val) # Names(IF field.by = "hash" THEN hash ELSE bao)
    BY DEF vars
  <2>2. Read
    <3>1. ~Write /\ ~Reread /\ ~Record
      BY <2>1 DEF Write, Reread, Record, Failed, Return
    <3>2. ~Edit /\ ~Foreign /\ ~UNCHANGED vars
      BY <2>1 DEF Edit, Foreign, vars
    <3> QED BY <2>1, <3>1, <3>2 DEF Next, Reconciler
  <2>3. Valid(field, spec)
    BY <2>1, <2>2 DEF Read, Failed, Return
  <2>4. want' = Desired(field, spec) /\ ~Matches(field, spec, want', bao)
    BY <2>1, <2>2, <2>3 DEF Read
  <2>5. ~Matches(field, spec, Desired(field, spec), bao)
    BY <2>4
  <2> QED BY <2>1, <2>4, <2>5, UnequalDiffers
<1> QED BY <1>1, Invariance, PTL DEF Spec, DriftIsReal

----------------------------------------------------------------------------
(* Writes *)

(* A normalized list is not changed by sorting, nor by normalizing it once *)
(* more, after OpenBao has stored it.                                      *)
LEMMA NormalizedStays ==
  ASSUME StatusInv, field.type = "list", field.norm \in {"set", "unique", "sorted"},
         NEW r \in Seq(Int), Names(r) = Names(Desired(field, spec).val), Distinct(r)
  PROVE  /\ SortedSet(Names(r)) = Desired(field, spec).val
         /\ Normalized(field, r) = Desired(field, spec).val
<1> DEFINE d == Desired(field, spec).val
<1>1. WellShaped(field) /\ field \in Shapes /\ spec \in SpecValues(field)
  BY DEF StatusInv, TypeOK, WellShaped
<1>2. /\ spec.val \in Seq(Int) /\ d = Normalized(field, spec.val)
      /\ field.norm = "sorted" => Distinct(spec.val)
  BY <1>1, GivenFacts DEF Desired, WellShaped
<1>3. d \in Seq(Int) /\ Increasing(d)
  BY <1>1, <1>2, NormalizedFacts
<1>4. Proper(field, d)
  BY <1>1, DesiredFacts
<1>5. Names(r) = Names(d) /\ Names(r) \in SUBSET Int /\ IsFiniteSet(Names(r))
  BY NamesFinite
<1> HIDE DEF d
<1>6. SortedSet(Names(r)) = d
  <2>1. /\ SortedSet(Names(r)) \in Seq(Int) /\ Increasing(SortedSet(Names(r)))
        /\ Names(SortedSet(Names(r))) = Names(d)
    BY <1>5, SortedSetFacts
  <2> QED BY <1>3, <2>1, IncreasingUnique
<1>7. Normalized(field, r) = d
  <2> DEFINE n == Normalized(field, r)
  <2>1. n \in Seq(Int) /\ Increasing(n)
    BY <1>1, NormalizedFacts
  <2>2. Names(n) = Names(d)
    <3>1. CASE field.norm = "set"
      <4>1. Names(n) = {Trim(e) : e \in Names(d)}
        BY <1>1, <1>5, <3>1, NormalizedFacts
      <4>2. \A e \in Names(d) : Trim(e) = e
        BY <1>4, <1>5, <3>1 DEF Proper, Trim
      <4> QED BY <4>1, <4>2
    <3>2. CASE field.norm # "set"
      BY <1>1, <1>5, <3>2, NormalizedFacts
    <3> QED BY <3>1, <3>2
  <2> HIDE DEF n
  <2>3. n = d
    BY <1>3, <2>1, <2>2, IncreasingUnique
  <2> QED BY <2>3 DEF n
<1> QED BY <1>6, <1>7 DEF d

(* What a request that asks for what the spec asks for leaves in OpenBao   *)
(* is found equal, for a field that settles.                               *)
LEMMA StoredMatches ==
  ASSUME StatusInv, Settles, field.by # "hash", want = Desired(field, spec)
  PROVE  Matches(field, spec, want, Stored(field, want, bao))
<1> DEFINE r == Stored(field, want, bao)
<1>1. SUFFICES ASSUME Compared(field, spec) PROVE Equal(field, spec, want, r)
  BY DEF Matches
<1>2. /\ WellShaped(field) /\ field \in Shapes /\ spec \in SpecValues(field)
      /\ want \in [set : BOOLEAN, val : Values]
  BY DEF StatusInv, TypeOK, WellShaped
<1>3. field.sent # "create" /\ field.by \in {"typed", "json", "deep", "any"}
  BY <1>2 DEF Settles, Shapes
<1>4. want.set
  BY <1>1, <1>3 DEF Settles, Compared, Desired
<1>5. r = IF field.type = "list" /\ habit.sorts THEN SortedSet(Names(want.val)) ELSE want.val
  BY <1>3, <1>4 DEF Stored
<1>6. ASSUME field.norm \in {"set", "unique", "sorted"}
      PROVE  r = want.val /\ Normalized(field, want.val) = want.val
  <2>1. field.type = "list"
    BY <1>2, <1>6 DEF WellShaped
  <2>2. want.val \in Seq(Int) /\ Increasing(want.val)
    <3>1. /\ spec.val \in Seq(Int) /\ want.val = Normalized(field, spec.val)
          /\ field.norm = "sorted" => Distinct(spec.val)
      BY <1>2, <2>1, GivenFacts DEF Desired, WellShaped
    <3> QED BY <1>2, <1>6, <3>1, NormalizedFacts
  <2>3. Distinct(want.val)
    BY <2>2, IncreasingDistinct
  <2> HIDE DEF r
  <2>4. SortedSet(Names(want.val)) = want.val /\ Normalized(field, want.val) = want.val
    BY <1>6, <2>1, <2>2, <2>3, NormalizedStays
  <2> QED BY <1>5, <2>4
<1> HIDE DEF r
<1>7. CASE field.by = "typed"
  <2>1. want.val = IF field.type = "list" THEN Normalized(field, r) ELSE r
    <3>1. CASE field.type = "list"
      <4>1. field.norm \in {"set", "unique", "sorted"}
        BY <1>2, <1>7, <3>1 DEF WellShaped
      <4> QED BY <1>6, <3>1, <4>1
    <3>2. CASE field.type # "list"
      BY <1>5, <3>2
    <3> QED BY <3>1, <3>2
  <2> QED BY <1>7, <2>1 DEF Equal
<1>8. CASE field.by \in {"json", "deep"}
  <2>1. r = want.val
    <3>1. CASE field.type # "list"
      BY <1>5, <3>1
    <3>2. CASE field.norm \in {"set", "unique", "sorted"}
      BY <1>6, <3>2
    <3>3. CASE field.type = "list" /\ field.norm \in {"raw", "copy"}
      <4>1. field.by = "json"
        BY <1>2, <1>8, <3>3 DEF WellShaped
      <4>2. ~habit.sorts
        BY <3>3, <4>1 DEF Settles
      <4> QED BY <1>5, <4>2
    <3>4. field.norm \in {"set", "sorted", "unique", "copy", "raw"}
      BY <1>2 DEF Shapes
    <3> QED BY <3>1, <3>2, <3>3, <3>4
  <2>2. r = <<>> => IsNil(field, spec) = ~habit.braces
    BY <1>8, <2>1 DEF Settles
  <2>3. JSONEqual(field, spec, want, r)
    BY <2>1, <2>2 DEF JSONEqual
  <2> QED BY <1>8, <2>3 DEF Equal
<1>9. CASE field.by = "any"
  <2>1. field.type \notin {"list", "number", "duration"}
    BY <1>9 DEF Settles
  <2>2. want.val = r
    BY <1>5, <2>1
  <2> QED BY <1>9, <2>1, <2>2 DEF Equal
<1> QED BY <1>3, <1>7, <1>8, <1>9

(* The safety half of WritesSettle: one write ends the difference that it  *)
(* was made for.  When a write is answered and the spec has not changed,   *)
(* the next comparison finds a field that settles equal, whatever OpenBao  *)
(* makes of the request; for a secret, when its hash is recorded.          *)
THEOREM OneWriteIsEnough ==
  Spec => [][/\ pc = "write" /\ pc' = "reread" /\ ~stale /\ Settles /\ field.by # "hash"
                  => Matches(field, spec, Desired(field, spec), bao)'
             /\ pc = "record" /\ hash' # hash /\ ~stale
                  => Matches(field, spec, Desired(field, spec), bao)']_vars
<1> DEFINE A == /\ pc = "write" /\ pc' = "reread" /\ ~stale /\ Settles /\ field.by # "hash"
                     => Matches(field, spec, Desired(field, spec), bao)'
                /\ pc = "record" /\ hash' # hash /\ ~stale
                     => Matches(field, spec, Desired(field, spec), bao)'
<1>1. ASSUME StatusInv, [Next]_vars, pc = "write", pc' = "reread", ~stale, Settles,
             field.by # "hash"
      PROVE  Matches(field, spec, Desired(field, spec), bao)'
  <2>1. Write
    BY <1>1 DEF Next, Reconciler, Read, Reread, Record, Edit, Foreign, vars
  <2>2. Apply /\ UNCHANGED <<field, habit, spec, hash>>
    BY <1>1, <2>1 DEF Write, Failed, Return
  <2>3. want = Desired(field, spec)
    BY <1>1 DEF StatusInv, ProgressInv
  <2>4. Matches(field, spec, Desired(field, spec), Stored(field, want, bao))
    BY <1>1, <2>3, StoredMatches
  <2>5. bao' = Stored(field, want, bao)
    BY <2>2 DEF Apply
  <2>6. Matches(field, spec, Desired(field, spec), bao')
    BY <2>4, <2>5
  <2> QED BY <2>2, <2>6 DEF Matches, Equal, JSONEqual, Compared
<1>2. ASSUME StatusInv, [Next]_vars, pc = "record", hash' # hash, ~stale
      PROVE  Matches(field, spec, Desired(field, spec), bao)'
  <2>1. Record
    BY <1>2 DEF Next, Reconciler, Read, Write, Reread, Edit, Foreign, vars
  <2>2. field.by = "hash" /\ hash' = want.val /\ UNCHANGED <<field, habit, spec>>
    BY <1>2, <2>1 DEF Record
  <2>3. want = Desired(field, spec)
    BY <1>2 DEF StatusInv, ProgressInv
  <2>4. Desired(field, spec)' = Desired(field, spec)
    BY <2>2
  <2> QED BY <2>2, <2>3, <2>4 DEF Matches, Equal
<1>3. StatusInv /\ [Next]_vars => [A]_vars
  BY <1>1, <1>2
<1> QED BY <1>3, Invariance, PTL DEF Spec

=============================================================================
