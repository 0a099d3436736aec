-------------------------- MODULE MergeListsProofs --------------------------
(***************************************************************************)
(* What merging does to the list of findings of a bucket, for lists of any *)
(* length and any scanners, feeds and documents: it is one record per id,  *)
(* attributed and ranked as it should be, and agrees with the function     *)
(* from ids that other modules use in its place.                           *)
(***************************************************************************)
EXTENDS MergeLists, FiniteSetTheorems, WellFoundedInduction, TLAPS

-----------------------------------------------------------------------------
(* Lists and sets of indices.  No theorem of the library says what a       *)
(* recursive function computes, but a least counterexample refutes itself. *)

LEMMA Least ==
  ASSUME NEW S \in SUBSET Nat, S # {}
  PROVE  \E n \in S : \A m \in S : n <= m
<1> DEFINE R == {p \in Nat \X Nat : p[1] < p[2]}
<1>1. IsWellFoundedOn(R, Nat)
  BY NatLessThanWellFounded DEF OpToRel
<1>2. PICK n \in S : \A m \in S : <<m, n>> \notin R
  BY <1>1, WFMin
<1>3. \A m \in S : ~(m < n)
  BY <1>2
<1> QED BY <1>3

LEMMA MaxIs ==
  ASSUME NEW n \in Nat, NEW S \in SUBSET (1..n), S # {}
  PROVE  Max(S) \in S
<1> DEFINE rest == {n - i : i \in S}
<1>1. rest \in SUBSET Nat /\ rest # {}
  <2>1. \A i \in S : n - i \in Nat
    OBVIOUS
  <2> QED BY <2>1
<1>2. PICK m \in rest : \A k \in rest : m <= k
  <2> HIDE DEF rest
  <2> QED BY <1>1, Least
<1>3. PICK i \in S : m = n - i
  OBVIOUS
<1>4. \A j \in S : i >= j
  BY <1>2, <1>3
<1> QED BY <1>4 DEF Max

\* A list of n.
Of(n, list) == DOMAIN list = 1..n /\ list = [i \in 1..n |-> list[i]]

Joint(s, t) == s \o t

LEMMA Joined ==
  ASSUME NEW n \in Nat, NEW s, Of(n, s), NEW m \in Nat, NEW t, Of(m, t)
  PROVE  /\ Of(n + m, Joint(s, t))
         /\ \A i \in 1..n : Joint(s, t)[i] = s[i]
         /\ \A i \in 1..m : Joint(s, t)[n + i] = t[i]
<1> DEFINE S == {s[i] : i \in 1..n} \cup {t[i] : i \in 1..m}
<1>1. s \in [1..n -> S] /\ t \in [1..m -> S]
  BY DEF Of
<1> HIDE DEF S
<1>2. s \in Seq(S) /\ t \in Seq(S) /\ Len(s) = n /\ Len(t) = m
  BY <1>1
<1>3. /\ s \o t \in Seq(S) /\ Len(s \o t) = n + m
      /\ \A i \in 1..(n + m) : (s \o t)[i] = IF i <= n THEN s[i] ELSE t[i - n]
  BY <1>2
<1>4. s \o t \in [1..(n + m) -> S]
  <2>1. \A q \in Seq(S) : q \in [1..Len(q) -> S]
    OBVIOUS
  <2> QED BY <1>3, <2>1
<1> QED BY SMTT(30), <1>3, <1>4 DEF Of, Joint

LEMMA Listed ==
  ASSUME NEW s, IsList(s)
  PROVE  \E n \in Nat : Of(n, s)
<1>1. s \in [1..Len(s) -> ToSet(s)] /\ Len(s) \in Nat
  BY DEF IsList
<1> QED BY <1>1 DEF Of

LEMMA InOrderIs ==
  ASSUME NEW n \in Nat, NEW S \in SUBSET (1..n)
  PROVE  /\ Cardinality(S) \in Nat
         /\ Of(Cardinality(S), InOrder(S))
         /\ \A k \in 1..Cardinality(S) : InOrder(S)[k] \in S
         /\ \A k, l \in 1..Cardinality(S) : InOrder(S)[k] = InOrder(S)[l] => k = l
         /\ \A i \in S : \E k \in 1..Cardinality(S) : InOrder(S)[k] = i
<1> DEFINE upTo(i) == {j \in S : j <= i}
           size == Cardinality(S)
           rank == [i \in S |-> Cardinality(upTo(i))]
<1>1. IsFiniteSet(S) /\ size \in Nat
  <2>1. IsFiniteSet(1..n)
    BY FS_Interval
  <2>2. IsFiniteSet(S)
    BY <2>1, FS_Subset
  <2> QED BY <2>2, FS_CardinalityType
<1>2. ASSUME NEW i \in S
      PROVE  /\ IsFiniteSet(upTo(i)) /\ Cardinality(upTo(i)) \in 1..size
             /\ Cardinality(upTo(i)) \in Nat
  <2>1. upTo(i) \in SUBSET S /\ upTo(i) # {}
    OBVIOUS
  <2> HIDE DEF upTo
  <2>2. IsFiniteSet(upTo(i)) /\ Cardinality(upTo(i)) <= size
    BY <1>1, <2>1, FS_Subset
  <2>3. Cardinality(upTo(i)) \in Nat /\ Cardinality(upTo(i)) # 0
    BY <2>1, <2>2, FS_CardinalityType, FS_EmptySet
  <2> QED BY <1>1, <2>2, <2>3
<1>3. ASSUME NEW i \in S, NEW j \in S, i < j PROVE rank[i] < rank[j]
  <2>1. upTo(i) \in SUBSET upTo(j) /\ upTo(i) # upTo(j)
    <3>1. j \in upTo(j) /\ j \notin upTo(i)
      BY <1>3
    <3>2. \A k \in upTo(i) : k \in upTo(j)
      BY <1>3
    <3> QED BY <3>1, <3>2
  <2> HIDE DEF upTo
  <2>2. /\ Cardinality(upTo(i)) <= Cardinality(upTo(j))
        /\ Cardinality(upTo(i)) # Cardinality(upTo(j))
    BY <1>2, <2>1, FS_Subset
  <2> QED BY <1>2, <2>2
<1>4. \A i, j \in S : rank[i] = rank[j] => i = j
  <2> SUFFICES ASSUME NEW i \in S, NEW j \in S, rank[i] = rank[j], i # j PROVE FALSE
    OBVIOUS
  <2>1. rank[i] \in Nat /\ rank[j] \in Nat
    BY <1>2
  <2>2. i < j \/ j < i
    OBVIOUS
  <2> HIDE DEF rank
  <2> QED BY <1>3, <2>1, <2>2
<1>5. rank \in Injection(S, 1..size)
  <2>1. rank \in [S -> 1..size]
    BY <1>2
  <2> HIDE DEF rank
  <2> QED BY <1>4, <2>1 DEF Injection, IsInjective
<1>6. \A k \in 1..size : \E i \in S : rank[i] = k
  <2>1. IsFiniteSet(1..size) /\ Cardinality(1..size) = size
    BY <1>1, FS_Interval
  <2>2. rank \in Surjection(S, 1..size)
    <3> HIDE DEF rank
    <3> QED BY <1>5, <2>1, FS_Injection
  <2> HIDE DEF rank
  <2> QED BY <2>2 DEF Surjection
<1>7. InOrder(S) = [k \in 1..size |-> CHOOSE i \in S : Cardinality(upTo(i)) = k]
  BY DEF InOrder
<1>8. \A k \in 1..size : InOrder(S)[k] \in S /\ rank[InOrder(S)[k]] = k
  <2>1. \A i \in S : rank[i] = Cardinality(upTo(i))
    OBVIOUS
  <2> SUFFICES ASSUME NEW k \in 1..size
               PROVE  InOrder(S)[k] \in S /\ rank[InOrder(S)[k]] = k
    OBVIOUS
  <2>2. InOrder(S)[k] = CHOOSE i \in S : Cardinality(upTo(i)) = k
    BY <1>7
  <2> HIDE DEF rank, upTo
  <2>3. \E i \in S : Cardinality(upTo(i)) = k
    BY <1>6, <2>1
  <2>4. InOrder(S)[k] \in S /\ Cardinality(upTo(InOrder(S)[k])) = k
    BY <2>2, <2>3, Zenon
  <2> QED BY <2>1, <2>4, Zenon
<1>9. ASSUME NEW i \in S PROVE \E k \in 1..size : InOrder(S)[k] = i
  <2>1. rank[i] \in 1..size
    BY <1>2
  <2> HIDE DEF rank
  <2> QED BY <1>4, <1>8, <2>1
<1>10. \A k, l \in 1..size : InOrder(S)[k] = InOrder(S)[l] => k = l
  <2> HIDE DEF rank
  <2> QED BY <1>8
<1>11. Of(size, InOrder(S))
  BY <1>7 DEF Of
<1> QED BY <1>1, <1>8, <1>9, <1>10, <1>11

\* Lists joined one after the other make a list of what they are made of.
LEMMA Flattened ==
  ASSUME NEW S, NEW n \in Nat \ {0}, NEW parts \in [1..n -> Seq(S)]
  PROVE  FlattenSeq(parts) \in Seq(S)
<1> DEFINE Joins(f, m) ==
             f = [i \in 1..m |-> IF i = 1 THEN parts[i] ELSE f[i - 1] \o parts[i]]
           flatten == CHOOSE f : Joins(f, n)
<1>1. \A m \in 1..n : \E f : Joins(f, m)
  <2> DEFINE bad == {m \in 1..n : ~\E f : Joins(f, m)}
  <2> HIDE DEF Joins
  <2> SUFFICES ASSUME bad # {} PROVE FALSE
    OBVIOUS
  <2>1. PICK m \in bad : \A k \in bad : m <= k
    <3>1. bad \in SUBSET Nat
      OBVIOUS
    <3> HIDE DEF bad
    <3> QED BY <3>1, Least
  <2>2. m # 1
    <3> SUFFICES ASSUME m = 1 PROVE FALSE
      OBVIOUS
    <3>1. Joins([i \in 1..1 |-> parts[i]], 1)
      BY DEF Joins
    <3> QED BY <2>1, <3>1
  <2>3. PICK f : Joins(f, m - 1)
    <3>1. m - 1 \in 1..n /\ ~(m <= m - 1)
      BY <2>1, <2>2
    <3>2. m - 1 \notin bad
      BY <2>1, <3>1
    <3> QED BY <3>1, <3>2
  <2> DEFINE g == [i \in 1..m |-> IF i = m THEN f[m - 1] \o parts[m] ELSE f[i]]
  <2>4. \A i \in 1..m : g[i] = IF i = 1 THEN parts[i] ELSE g[i - 1] \o parts[i]
    <3> SUFFICES ASSUME NEW i \in 1..m
                 PROVE  g[i] = IF i = 1 THEN parts[i] ELSE g[i - 1] \o parts[i]
      OBVIOUS
    <3>1. CASE i = m
      <4>1. m - 1 \in 1..m /\ m - 1 # m
        BY <2>1, <2>2
      <4>2. g[m] = f[m - 1] \o parts[m] /\ g[m - 1] = f[m - 1]
        BY SMTT(30), <2>1, <4>1
      <4> QED BY <2>2, <3>1, <4>2
    <3>2. CASE i # m
      <4>1. i \in 1..(m - 1) /\ (i # 1 => i - 1 \in 1..m /\ i - 1 # m)
        BY <3>2
      <4>2. g[i] = f[i] /\ (i # 1 => g[i - 1] = f[i - 1])
        BY <3>2, <4>1
      <4>3. f[i] = IF i = 1 THEN parts[i] ELSE f[i - 1] \o parts[i]
        BY <2>3, <4>1 DEF Joins
      <4> QED BY <4>2, <4>3
    <3> QED BY <3>1, <3>2
  <2>5. Joins(g, m)
    <3>1. g = [i \in 1..m |-> g[i]]
      OBVIOUS
    <3> HIDE DEF g
    <3> QED BY <2>4, <3>1 DEF Joins
  <2> QED BY <2>1, <2>5
<1>2. Joins(flatten, n)
  <2> HIDE DEF Joins
  <2>1. \E f : Joins(f, n)
    BY <1>1
  <2> QED BY <2>1
<1>3. FlattenSeq(parts) = flatten[n]
  <2>1. Len(parts) = n
    OBVIOUS
  <2>2. FlattenSeq(parts) =
          (CHOOSE f : f = [i \in 1..Len(parts) |->
                             IF i = 1 THEN parts[i] ELSE f[i - 1] \o parts[i]])[Len(parts)]
    BY <2>1 DEF FlattenSeq
  <2> QED BY <2>1, <2>2
<1> HIDE DEF flatten
<1>4. \A i \in 1..n : flatten[i] = IF i = 1 THEN parts[i] ELSE flatten[i - 1] \o parts[i]
  BY <1>2
<1>5. \A m \in 1..n : flatten[m] \in Seq(S)
  <2> DEFINE bad == {m \in 1..n : flatten[m] \notin Seq(S)}
  <2> SUFFICES ASSUME bad # {} PROVE FALSE
    OBVIOUS
  <2>1. PICK m \in bad : \A k \in bad : m <= k
    <3>1. bad \in SUBSET Nat
      OBVIOUS
    <3> HIDE DEF bad
    <3> QED BY <3>1, Least
  <2>2. CASE m = 1
    BY <1>4, <2>1, <2>2
  <2>3. CASE m # 1
    <3>1. m - 1 \in 1..n /\ m - 1 \notin bad
      BY <2>1, <2>3
    <3>2. flatten[m - 1] \in Seq(S) /\ parts[m] \in Seq(S)
      BY <3>1
    <3>3. flatten[m] = flatten[m - 1] \o parts[m]
      BY <1>4, <2>1, <2>3
    <3>4. flatten[m - 1] \o parts[m] \in Seq(S)
      BY <3>2
    <3> QED BY <2>1, <3>3, <3>4
  <2> QED BY <2>2, <2>3
<1> QED BY <1>3, <1>5

-----------------------------------------------------------------------------
(* The operations on lists of reports and of records.                      *)

Reports(n, list) == Of(n, list) /\ \A i \in 1..n : IsReport(list[i])

Fields == {"id", "title", "sources", "ranking", "life"}
Records(n, list) == Of(n, list) /\ \A i \in 1..n : DOMAIN list[i] = Fields /\ list[i].id \in Ids

Distinct(list) == \A i, j \in DOMAIN list : list[i].id = list[j].id => i = j

LEMMA LastOfIs ==
  ASSUME NEW n \in Nat, NEW list, Of(n, list), NEW id \in IdsOf(list)
  PROVE  \E j \in 1..n : list[j].id = id /\ LastOf(list, id) = list[j]
<1> DEFINE S == {i \in DOMAIN list : list[i].id = id}
<1>1. S \in SUBSET (1..n) /\ S # {}
  BY DEF Of, IdsOf
<1>2. Max(S) \in S
  <2> HIDE DEF S
  <2> QED BY <1>1, MaxIs
<1>3. LastOf(list, id) = list[Max(S)]
  BY DEF LastOf
<1> HIDE DEF S
<1>4. Max(S) \in 1..n
  BY <1>1, <1>2
<1>5. list[Max(S)].id = id
  BY <1>2 DEF S
<1> QED BY <1>3, <1>4, <1>5

\* Every scanner that reported an id is credited with the one report left.
LEMMA CoalesceIs ==
  ASSUME NEW n \in Nat, NEW list, Reports(n, list)
  PROVE  \E m \in Nat :
           /\ Reports(m, Coalesce(list)) /\ Distinct(Coalesce(list))
           /\ IdsOf(Coalesce(list)) = IdsOf(list)
           /\ \A k \in 1..m :
                /\ \E j \in 1..n : Coalesce(list)[k].ranking = list[j].ranking
                /\ Coalesce(list)[k].sources =
                     UNION {list[i].sources :
                              i \in {j \in DOMAIN list : list[j].id = Coalesce(list)[k].id}}
<1> DEFINE S == {i \in DOMAIN list : \A j \in 1..(i - 1) : list[j].id # list[i].id}
           m == Cardinality(S)
           order == InOrder(S)
           c == Coalesce(list)
           credit(id) == UNION {list[i].sources : i \in {j \in DOMAIN list : list[j].id = id}}
<1>1. DOMAIN list = 1..n /\ S \in SUBSET (1..n)
  BY DEF Reports, Of
<1>2. /\ m \in Nat /\ DOMAIN order = 1..m
      /\ \A k \in 1..m : order[k] \in S
      /\ \A k, l \in 1..m : order[k] = order[l] => k = l
      /\ \A i \in S : \E k \in 1..m : order[k] = i
  <2> HIDE DEF S
  <2> QED BY <1>1, InOrderIs DEF Of
<1>3. c = [k \in 1..m |-> [list[order[k]] EXCEPT !.sources = credit(list[order[k]].id)]]
  BY <1>2 DEF Coalesce, FirstIndices
<1>4. \A i \in 1..n : DOMAIN list[i] = {"id", "title", "sources", "ranking"} /\ list[i].id \in Ids
  BY DEF Reports, IsReport
<1>5. ASSUME NEW k \in 1..m
      PROVE  /\ order[k] \in 1..n /\ IsReport(c[k])
             /\ c[k].id = list[order[k]].id
             /\ c[k].ranking = list[order[k]].ranking
             /\ c[k].sources = credit(c[k].id)
  <2>1. order[k] \in 1..n
    BY <1>1, <1>2
  <2> HIDE DEF credit, order, m, S
  <2>2. c[k] = [list[order[k]] EXCEPT !.sources = credit(list[order[k]].id)]
    BY <1>3
  <2> HIDE DEF c
  <2> QED BY <1>4, <2>1, <2>2 DEF IsReport
<1>6. \A i, j \in S : list[i].id = list[j].id => i = j
  <2> SUFFICES ASSUME NEW i \in S, NEW j \in S, list[i].id = list[j].id, i # j PROVE FALSE
    OBVIOUS
  <2>1. i \in 1..n /\ j \in 1..n
    BY <1>1
  <2>2. i \in 1..(j - 1) \/ j \in 1..(i - 1)
    BY <2>1
  <2> QED BY <2>2
<1>7. Of(m, c)
  BY <1>3 DEF Of
<1>8. Distinct(c)
  <2> SUFFICES ASSUME NEW k \in 1..m, NEW l \in 1..m, c[k].id = c[l].id PROVE k = l
    BY <1>7 DEF Distinct, Of
  <2>1. order[k] \in S /\ order[l] \in S /\ list[order[k]].id = list[order[l]].id
    BY <1>2, <1>5
  <2> QED BY <1>2, <1>6, <2>1
<1>9. ASSUME NEW i \in 1..n PROVE \E k \in 1..m : c[k].id = list[i].id
  <2> DEFINE same == {j \in 1..n : list[j].id = list[i].id}
  <2>1. PICK first \in same : \A j \in same : first <= j
    <3>1. same \in SUBSET Nat /\ same # {}
      OBVIOUS
    <3> HIDE DEF same
    <3> QED BY <3>1, Least
  <2>2. \A j \in 1..(first - 1) : list[j].id # list[first].id
    <3> SUFFICES ASSUME NEW j \in 1..(first - 1), list[j].id = list[first].id PROVE FALSE
      OBVIOUS
    <3>1. j \in 1..n /\ ~(first <= j)
      BY <2>1
    <3>2. j \in same
      BY <2>1, <3>1
    <3> QED BY <2>1, <3>1, <3>2
  <2>3. first \in S
    BY <1>1, <2>1, <2>2
  <2>4. PICK k \in 1..m : order[k] = first
    BY <1>2, <2>3
  <2>5. c[k].id = list[first].id
    BY <1>5, <2>4
  <2> QED BY <2>1, <2>5
<1>10. IdsOf(c) = IdsOf(list)
  <2>1. \A id \in IdsOf(c) : id \in IdsOf(list)
    BY <1>1, <1>5, <1>7 DEF IdsOf, Of
  <2>2. \A id \in IdsOf(list) : id \in IdsOf(c)
    BY <1>1, <1>7, <1>9 DEF IdsOf, Of
  <2> QED BY <2>1, <2>2
<1>11. Reports(m, c)
  BY <1>5, <1>7 DEF Reports
<1>12. \A k \in 1..m : /\ \E j \in 1..n : c[k].ranking = list[j].ranking
                       /\ c[k].sources = credit(c[k].id)
  BY <1>5
<1>13. m \in Nat
  BY <1>2
<1> QED BY <1>8, <1>10, <1>11, <1>12, <1>13

LEMMA CarryIs ==
  ASSUME NEW existing, NEW m \in Nat, NEW list, Reports(m, list)
  PROVE  /\ Reports(m, CarrySources(existing, list))
         /\ \A i \in 1..m :
              /\ CarrySources(existing, list)[i].id = list[i].id
              /\ CarrySources(existing, list)[i].ranking = list[i].ranking
              /\ list[i].id \in IdsOf(existing) =>
                   LastOf(existing, list[i].id).sources
                     \subseteq CarrySources(existing, list)[i].sources
<1> DEFINE c == CarrySources(existing, list)
<1>1. DOMAIN c = 1..m /\ Of(m, c)
  BY DEF CarrySources, Reports, Of
<1>2. ASSUME NEW i \in 1..m
      PROVE  /\ IsReport(c[i]) /\ c[i].id = list[i].id /\ c[i].ranking = list[i].ranking
             /\ list[i].id \in IdsOf(existing) =>
                  LastOf(existing, list[i].id).sources \subseteq c[i].sources
  <2>1. DOMAIN list[i] = {"id", "title", "sources", "ranking"} /\ list[i].id \in Ids
    BY DEF Reports, IsReport
  <2>2. c[i] = IF list[i].id \in IdsOf(existing)
               THEN [list[i] EXCEPT !.sources = @ \cup LastOf(existing, list[i].id).sources]
               ELSE list[i]
    BY DEF CarrySources, Reports, Of
  <2> HIDE DEF c
  <2> QED BY <2>1, <2>2 DEF IsReport
<1> QED BY <1>1, <1>2 DEF Reports

LEMMA ApplyIs ==
  ASSUME NEW rows, NEW m \in Nat, NEW list, Reports(m, list),
         \A i \in 1..m : list[i].ranking = Unranked
  PROVE  /\ Reports(m, Apply(rows, list))
         /\ \A i \in 1..m :
              /\ Apply(rows, list)[i].id = list[i].id
              /\ Apply(rows, list)[i].sources = list[i].sources
              /\ Apply(rows, list)[i].ranking =
                   IF list[i].id \in CVEs THEN Stored(rows, list[i].id) ELSE Unranked
<1> DEFINE c == Apply(rows, list)
<1>1. DOMAIN c = 1..m /\ Of(m, c)
  BY DEF Apply, Reports, Of
<1>2. ASSUME NEW i \in 1..m
      PROVE  /\ IsReport(c[i]) /\ c[i].id = list[i].id /\ c[i].sources = list[i].sources
             /\ c[i].ranking = IF list[i].id \in CVEs THEN Stored(rows, list[i].id) ELSE Unranked
  <2>1. /\ DOMAIN list[i] = {"id", "title", "sources", "ranking"} /\ list[i].id \in Ids
        /\ list[i].ranking = Unranked
    BY DEF Reports, IsReport
  <2>2. c[i] = IF list[i].id \in CVEs /\ rows[list[i].id] # NoRow
               THEN [list[i] EXCEPT !.ranking = rows[list[i].id]]
               ELSE list[i]
    BY DEF Apply, Reports, Of
  <2> HIDE DEF c
  <2> QED BY <2>1, <2>2 DEF IsReport, Stored
<1> QED BY <1>1, <1>2 DEF Reports

\* What a merge makes of a record on file.
LEMMA MergedRecord ==
  ASSUME NEW record, DOMAIN record = Fields, NEW list, NEW now, NEW fix \in BOOLEAN, NEW vex
  PROVE  LET r == MergeRecord(record, list, now, fix, vex) IN
         /\ DOMAIN r = Fields /\ r.id = record.id
         /\ r.life = MergeRecorded(record.life, record.id \in IdsOf(list), now, fix,
                                   vex[record.id])
         /\ record.id \in IdsOf(list) => /\ r.sources = LastOf(list, record.id).sources
                                         /\ r.ranking = LastOf(list, record.id).ranking
         /\ record.id \notin IdsOf(list) => r.sources = record.sources
<1> DEFINE r == MergeRecord(record, list, now, fix, vex)
           about == IF record.id \in IdsOf(list) THEN LastOf(list, record.id) ELSE record
           life == MergeRecorded(record.life, record.id \in IdsOf(list), now, fix, vex[record.id])
<1>1. r = [record EXCEPT !.title = about.title, !.sources = about.sources,
                         !.ranking = about.ranking, !.life = life]
  BY DEF MergeRecord
<1> HIDE DEF r, life
<1>2. /\ DOMAIN r = Fields /\ r.id = record.id /\ r.life = life
      /\ r.sources = about.sources /\ r.ranking = about.ranking
  <2> HIDE DEF about
  <2> QED BY <1>1 DEF Fields
<1>3. /\ record.id \in IdsOf(list) => /\ r.sources = LastOf(list, record.id).sources
                                      /\ r.ranking = LastOf(list, record.id).ranking
      /\ record.id \notin IdsOf(list) => r.sources = record.sources
  BY <1>2
<1> QED BY <1>2, <1>3 DEF r, life

\* A merge keeps the records on file where they are, and adds one for every
\* report of an id that is not on file.
MergedFrom(b, n, existing, m, list, now, fix, vex) ==
  \E l \in Nat :
    /\ Of(n + l, b)
    /\ \A i \in 1..n : b[i] = MergeRecord(existing[i], list, now, fix, vex)
    /\ \A k \in 1..l : \E j \in 1..m : /\ list[j].id \notin IdsOf(existing)
                                       /\ b[n + k] = NewRecord(list[j], now, vex)
    /\ \A j \in 1..m : list[j].id \notin IdsOf(existing) =>
         \E k \in 1..l : b[n + k] = NewRecord(list[j], now, vex)
    /\ Distinct(list) => \A k, h \in 1..l : b[n + k].id = b[n + h].id => k = h

LEMMA MergeIs ==
  ASSUME NEW n \in Nat, NEW existing, Records(n, existing),
         NEW m \in Nat, NEW list, Reports(m, list), NEW now, NEW fix \in BOOLEAN, NEW vex,
         NEW b, b = Merge(existing, list, now, fix, vex)
  PROVE  MergedFrom(b, n, existing, m, list, now, fix, vex)
<1> DEFINE S == {i \in DOMAIN list : list[i].id \notin IdsOf(existing)}
           l == Cardinality(S)
           order == InOrder(S)
           kept == [i \in DOMAIN existing |-> MergeRecord(existing[i], list, now, fix, vex)]
           added == [k \in DOMAIN order |-> NewRecord(list[order[k]], now, vex)]
<1>1. DOMAIN list = 1..m /\ DOMAIN existing = 1..n /\ S \in SUBSET (1..m)
  BY DEF Reports, Records, Of
<1>2. /\ l \in Nat /\ DOMAIN order = 1..l
      /\ \A k \in 1..l : order[k] \in S
      /\ \A k, h \in 1..l : order[k] = order[h] => k = h
      /\ \A i \in S : \E k \in 1..l : order[k] = i
  <2> HIDE DEF S
  <2> QED BY <1>1, InOrderIs DEF Of
<1>3. b = Joint(kept, added)
  BY DEF Merge, Joint
<1>4. Of(n, kept) /\ Of(l, added)
  <2> HIDE DEF order
  <2> QED BY <1>1, <1>2 DEF Of
<1>5. /\ Of(n + l, b)
      /\ \A i \in 1..n : b[i] = kept[i]
      /\ \A k \in 1..l : b[n + k] = added[k]
  <2>1. l \in Nat
    BY <1>2
  <2> HIDE DEF kept, added, l
  <2>2. /\ Of(n + l, Joint(kept, added))
        /\ \A i \in 1..n : Joint(kept, added)[i] = kept[i]
        /\ \A k \in 1..l : Joint(kept, added)[n + k] = added[k]
    BY <1>4, <2>1, Joined
  <2> QED BY <1>3, <2>2
<1>6. \A i \in 1..n : b[i] = MergeRecord(existing[i], list, now, fix, vex)
  <2> QED BY <1>1, <1>5
<1>7. \A k \in 1..l : b[n + k] = NewRecord(list[order[k]], now, vex)
  <2> HIDE DEF order
  <2> QED BY <1>2, <1>5
<1>8. \A k \in 1..l : order[k] \in 1..m /\ list[order[k]].id \notin IdsOf(existing)
  <2> HIDE DEF order, l
  <2> QED BY <1>1, <1>2
<1>9. ASSUME NEW j \in 1..m, list[j].id \notin IdsOf(existing)
      PROVE  \E k \in 1..l : b[n + k] = NewRecord(list[j], now, vex)
  <2>1. j \in S
    BY <1>1, <1>9
  <2>2. PICK k \in 1..l : order[k] = j
    BY <1>2, <2>1
  <2> HIDE DEF order
  <2> QED BY <1>7, <2>2
<1>10. ASSUME Distinct(list), NEW k \in 1..l, NEW h \in 1..l, b[n + k].id = b[n + h].id
       PROVE  k = h
  <2> HIDE DEF order, l, S
  <2>0. /\ b[n + k].id = NewRecord(list[order[k]], now, vex).id
        /\ b[n + h].id = NewRecord(list[order[h]], now, vex).id
    BY <1>7
  <2>1. list[order[k]].id = list[order[h]].id
    BY <1>10, <2>0 DEF NewRecord
  <2>2. order[k] = order[h]
    BY <1>1, <1>8, <1>10, <2>1 DEF Distinct
  <2> QED BY <1>2, <2>2
<1>11. \A k \in 1..l : \E j \in 1..m : /\ list[j].id \notin IdsOf(existing)
                                       /\ b[n + k] = NewRecord(list[j], now, vex)
  <2> HIDE DEF order, l
  <2> QED BY <1>7, <1>8
<1> HIDE DEF l
<1> QED BY <1>2, <1>5, <1>6, <1>9, <1>10, <1>11 DEF MergedFrom

-----------------------------------------------------------------------------
(* The merge of one finding.                                               *)

LEMMA MergeType ==
  ASSUME NEW f \in Finding, NEW reported \in BOOLEAN, NEW now \in Nat,
         NEW fix \in BOOLEAN, NEW statement \in Assertions
  PROVE  /\ MergeNew(now, statement) \in Finding /\ Tracked(MergeNew(now, statement))
         /\ Tracked(f) => /\ MergeRecorded(f, reported, now, fix, statement) \in Finding
                          /\ Tracked(MergeRecorded(f, reported, now, fix, statement))
<1> USE DEF Finding, FindingStatuses, Unset, Tracked
<1>1. ASSUME NEW g \in Finding, statement \in Suppressing
      PROVE  ApplyVEX(g, statement, now) \in Finding /\ Tracked(ApplyVEX(g, statement, now))
  BY <1>1 DEF ApplyVEX, Suppressing
<1>2. /\ Reopened(f) \in Finding /\ Resolved(f, now) \in Finding /\ StillReported(f) \in Finding
      /\ Tracked(Reopened(f)) /\ Tracked(Resolved(f, now)) /\ Tracked(StillReported(f))
  BY DEF Reopened, Resolved, StillReported
<1>3. NewFinding(now) \in Finding /\ Tracked(NewFinding(now))
  BY DEF NewFinding, Untracked
<1>4. MergeNew(now, statement) \in Finding /\ Tracked(MergeNew(now, statement))
  BY <1>1, <1>3 DEF MergeNew
<1>5. Tracked(f) => /\ MergeRecorded(f, reported, now, fix, statement) \in Finding
                    /\ Tracked(MergeRecorded(f, reported, now, fix, statement))
  BY <1>1, <1>2 DEF MergeRecorded
<1> QED BY <1>4, <1>5

-----------------------------------------------------------------------------
(* The invariant.                                                          *)

\* The table of the feeds says what their last accepted copies say.
Mirrored ==
  \A id \in Ids :
    Stored(table, id) =
      [exploited |-> accepted.kev # NotFetched /\ id \in accepted.kev,
       score     |-> IF accepted.epss # NotFetched /\ id \in DOMAIN accepted.epss
                     THEN accepted.epss[id] ELSE 0]

Base == /\ \E n \in Nat : Records(n, bucket)
        /\ perId \in [Ids -> Finding] /\ clock \in Nat
        /\ DOMAIN table = Ids /\ Mirrored

IInv == Base /\ FollowsPerId /\ AttributionIsHonest /\ FlagsFollowFeeds

\* Every submission names each id once.
NamesOnce == \A reported \in Submissions : Distinct(reported)

OnePerId == Coalesced => Distinct(bucket)

Credit(reported, id) ==
  UNION {reported[i].sources : i \in {j \in DOMAIN reported : reported[j].id = id}}

\* What is merged, after what was reported.
Given(by, reported, merged) ==
  /\ \E m \in Nat : Reports(m, merged) /\ \A i \in 1..m : merged[i].ranking = Unranked
  /\ IdsOf(merged) = IdsOf(reported)
  /\ Coalesced /\ by = "full" =>
       \A i \in DOMAIN merged : merged[i].sources = Credit(reported, merged[i].id)
  /\ Coalesced /\ NamesOnce => Distinct(merged)
  /\ by = "sbom-only" =>
       /\ Coalesced
       /\ \A i \in DOMAIN merged : merged[i].id \in IdsOf(bucket) =>
            LastOf(bucket, merged[i].id).sources \subseteq merged[i].sources

\* A scanner's reports.
Raw == UNION {ToSet(output) : output \in UNION {Outputs[s] : s \in ToSet(Scanners)}}

LEMMA RawIs ==
  /\ \A r \in Raw : IsReport(r) /\ r.ranking = Unranked
  /\ \A s \in ToSet(Scanners) : \A output \in Outputs[s] : output \in Seq(Raw)
<1>1. ASSUME NEW r \in Raw PROVE IsReport(r) /\ r.ranking = Unranked
  BY ConstantsAssumption DEF Raw, ToSet
<1>2. ASSUME NEW s \in ToSet(Scanners), NEW output \in Outputs[s] PROVE output \in Seq(Raw)
  <2>1. IsList(output)
    BY ConstantsAssumption
  <2>2. PICK n \in Nat : Of(n, output)
    BY <2>1, Listed
  <2>3. \A i \in 1..n : output[i] \in Raw
    BY <2>2 DEF Of, Raw, ToSet
  <2>4. output \in [1..n -> Raw]
    BY <2>2, <2>3 DEF Of
  <2> QED BY <2>4
<1> QED BY <1>1, <1>2

LEMMA OfRaw ==
  ASSUME NEW list \in Seq(Raw)
  PROVE  \E n \in Nat : Reports(n, list) /\ \A i \in 1..n : list[i].ranking = Unranked
<1>1. list \in [1..Len(list) -> Raw] /\ Len(list) \in Nat
  OBVIOUS
<1>2. Of(Len(list), list)
  BY <1>1 DEF Of
<1> QED BY <1>1, <1>2, RawIs DEF Reports

LEMMA FullRoundGives ==
  ASSUME FullRound
  PROVE  \E reported, merged : \E fix \in BOOLEAN :
           MergeBucket("full", reported, merged, fix) /\ Given("full", reported, merged)
<1>1. PICK output \in [ToSet(Scanners) -> UNION {Outputs[s] : s \in ToSet(Scanners)}] :
        /\ \A s \in ToSet(Scanners) : output[s] \in Outputs[s]
        /\ LET reported == FlattenSeq([k \in DOMAIN Scanners |-> output[Scanners[k]]]) IN
           \E clean \in BOOLEAN :
             MergeBucket("full", reported,
                         IF Coalesced THEN Coalesce(reported) ELSE reported, clean)
  BY DEF FullRound
<1> DEFINE parts == [k \in DOMAIN Scanners |-> output[Scanners[k]]]
           reported == FlattenSeq(parts)
           merged == IF Coalesced THEN Coalesce(reported) ELSE reported
<1>2. PICK fix \in BOOLEAN : MergeBucket("full", reported, merged, fix)
  BY <1>1
<1>3. reported \in Seq(Raw)
  <2>1. IsList(Scanners) /\ Reeval \in ToSet(Scanners)
    BY ConstantsAssumption
  <2>2. PICK n \in Nat : Of(n, Scanners)
    BY <2>1, Listed
  <2>3. n # 0
    BY <2>1, <2>2 DEF Of, ToSet
  <2>4. \A k \in 1..n : output[Scanners[k]] \in Seq(Raw)
    <3> SUFFICES ASSUME NEW k \in 1..n PROVE output[Scanners[k]] \in Seq(Raw)
      OBVIOUS
    <3>1. Scanners[k] \in ToSet(Scanners)
      BY <2>2 DEF Of, ToSet
    <3> QED BY <1>1, <3>1, RawIs
  <2>5. parts \in [1..n -> Seq(Raw)]
    BY <2>2, <2>4 DEF Of
  <2> HIDE DEF parts
  <2> QED BY <2>3, <2>5, Flattened
<1> HIDE DEF reported
<1>4. PICK n \in Nat : Reports(n, reported) /\ \A i \in 1..n : reported[i].ranking = Unranked
  BY <1>3, OfRaw
<1>5. Given("full", reported, merged)
  <2>1. CASE ~Coalesced
    BY <1>4, <2>1 DEF Given
  <2>2. CASE Coalesced
    <3>1. PICK m \in Nat :
            /\ Reports(m, merged) /\ Distinct(merged) /\ IdsOf(merged) = IdsOf(reported)
            /\ \A k \in 1..m : /\ \E j \in 1..n : merged[k].ranking = reported[j].ranking
                               /\ merged[k].sources = Credit(reported, merged[k].id)
      BY <1>4, <2>2, CoalesceIs DEF Credit
    <3> HIDE DEF merged
    <3>2. DOMAIN merged = 1..m /\ \A k \in 1..m : merged[k].ranking = Unranked
      BY <1>4, <3>1 DEF Reports, Of
    <3> QED BY <3>1, <3>2 DEF Given
  <2> QED BY <2>1, <2>2
<1> QED BY <1>2, <1>5

LEMMA ReevaluationGives ==
  ASSUME Base, Reevaluation
  PROVE  \E reported, merged : \E fix \in BOOLEAN :
           MergeBucket("sbom-only", reported, merged, fix) /\ Given("sbom-only", reported, merged)
<1>1. PICK reported \in Outputs[Reeval] :
        MergeBucket("sbom-only", reported, CarrySources(bucket, Coalesce(reported)), FALSE)
  BY DEF Reevaluation
<1> DEFINE c == Coalesce(reported)
           merged == CarrySources(bucket, c)
<1>2. Coalesced /\ reported \in Seq(Raw)
  BY ConstantsAssumption, RawIs DEF Reevaluation
<1>3. PICK n \in Nat : Reports(n, reported) /\ \A i \in 1..n : reported[i].ranking = Unranked
  BY <1>2, OfRaw
<1>4. PICK m \in Nat :
        /\ Reports(m, c) /\ Distinct(c) /\ IdsOf(c) = IdsOf(reported)
        /\ \A k \in 1..m : \E j \in 1..n : c[k].ranking = reported[j].ranking
  BY <1>3, CoalesceIs
<1>5. \A k \in 1..m : c[k].ranking = Unranked
  BY <1>3, <1>4
<1> HIDE DEF c
<1>6. /\ Reports(m, merged)
      /\ \A i \in 1..m :
           /\ merged[i].id = c[i].id /\ merged[i].ranking = c[i].ranking
           /\ c[i].id \in IdsOf(bucket) =>
                LastOf(bucket, c[i].id).sources \subseteq merged[i].sources
  BY <1>4, CarryIs
<1>7. MergeBucket("sbom-only", reported, merged, FALSE)
  BY <1>1 DEF c
<1> HIDE DEF merged
<1>8. DOMAIN merged = 1..m /\ DOMAIN c = 1..m
  BY <1>4, <1>6 DEF Reports, Of
<1>9. IdsOf(merged) = IdsOf(c) /\ Distinct(merged)
  BY <1>4, <1>6, <1>8 DEF IdsOf, Distinct
<1>10. Given("sbom-only", reported, merged)
  BY <1>2, <1>4, <1>5, <1>6, <1>8, <1>9 DEF Given
<1> QED BY <1>7, <1>10

LEMMA SubmissionGives ==
  ASSUME Submission
  PROVE  \E reported, merged : \E fix \in BOOLEAN :
           MergeBucket("client", reported, merged, fix) /\ Given("client", reported, merged)
<1>1. PICK reported \in Submissions : MergeBucket("client", reported, Unclaimed(reported), TRUE)
  BY DEF Submission
<1> DEFINE merged == Unclaimed(reported)
<1>2. IsList(reported) /\ \A i \in DOMAIN reported : IsReport(reported[i])
  BY ConstantsAssumption
<1>3. PICK n \in Nat : Of(n, reported)
  BY <1>2, Listed
<1>4. Of(n, merged)
  BY <1>3 DEF Of, Unclaimed
<1>5. ASSUME NEW i \in 1..n
      PROVE  IsReport(merged[i]) /\ merged[i].id = reported[i].id /\ merged[i].ranking = Unranked
  <2>1. merged[i] = [reported[i] EXCEPT !.ranking = Unranked] /\ IsReport(reported[i])
    BY <1>2, <1>3 DEF Of, Unclaimed
  <2> HIDE DEF merged
  <2> QED BY <2>1 DEF IsReport
<1> HIDE DEF merged
<1>6. IdsOf(merged) = IdsOf(reported) /\ (Distinct(reported) => Distinct(merged))
  BY <1>3, <1>4, <1>5 DEF IdsOf, Distinct, Of
<1>7. Given("client", reported, merged)
  BY <1>4, <1>5, <1>6 DEF Given, Reports, NamesOnce
<1> QED BY <1>1, <1>7 DEF merged

LEMMA DocumentGives ==
  ASSUME Document
  PROVE  \E reported, merged : \E fix \in BOOLEAN :
           MergeBucket("document", reported, merged, fix) /\ Given("document", reported, merged)
<1>1. Reports(0, <<>>)
  BY DEF Reports, Of
<1>2. Given("document", <<>>, <<>>)
  BY <1>1 DEF Given, Distinct
<1> QED BY <1>2 DEF Document

-----------------------------------------------------------------------------
(* A merge.                                                                *)

\* The reports as they are merged, once the feeds have been looked at.
LEMMA LookedUp ==
  ASSUME Base, NEW by, NEW reported, NEW merged, Given(by, reported, merged),
         NEW looked \in BOOLEAN
  PROVE  LET list == IF looked THEN Apply(table, merged) ELSE merged IN
         \E m \in Nat :
           /\ Reports(m, list) /\ IdsOf(list) = IdsOf(reported)
           /\ DOMAIN merged = 1..m
           /\ \A i \in 1..m :
                /\ list[i].id = merged[i].id /\ list[i].sources = merged[i].sources
                /\ list[i].ranking =
                     IF looked THEN RankedBy(accepted.kev, accepted.epss, list[i].id)
                     ELSE Unranked
           /\ Distinct(merged) => Distinct(list)
<1> DEFINE list == IF looked THEN Apply(table, merged) ELSE merged
<1>1. PICK m \in Nat : Reports(m, merged) /\ \A i \in 1..m : merged[i].ranking = Unranked
  BY DEF Given
<1>2. CASE ~looked
  <2>1. list = merged
    BY <1>2
  <2>2. IdsOf(merged) = IdsOf(reported) /\ DOMAIN merged = 1..m
    BY <1>1 DEF Given, Reports, Of
  <2> QED BY <1>1, <1>2, <2>1, <2>2
<1>3. CASE looked
  <2>1. list = Apply(table, merged)
    BY <1>3
  <2> HIDE DEF list
  <2>2. /\ Reports(m, list)
        /\ \A i \in 1..m :
             /\ list[i].id = merged[i].id /\ list[i].sources = merged[i].sources
             /\ list[i].ranking = IF merged[i].id \in CVEs THEN Stored(table, merged[i].id)
                                  ELSE Unranked
    BY <1>1, <2>1, ApplyIs
  <2>3. DOMAIN list = 1..m /\ DOMAIN merged = 1..m
    BY <1>1, <2>2 DEF Reports, Of
  <2>4. IdsOf(list) = IdsOf(merged) /\ (Distinct(merged) => Distinct(list))
    BY <2>2, <2>3 DEF IdsOf, Distinct
  <2>5. \A i \in 1..m : list[i].ranking = RankedBy(accepted.kev, accepted.epss, list[i].id)
    <3> SUFFICES ASSUME NEW i \in 1..m
                 PROVE  list[i].ranking = RankedBy(accepted.kev, accepted.epss, list[i].id)
      OBVIOUS
    <3>1. list[i].id \in Ids
      BY <2>2 DEF Reports, IsReport
    <3>2. list[i].ranking = IF list[i].id \in CVEs THEN Stored(table, list[i].id) ELSE Unranked
      BY <2>2
    <3>3. CASE list[i].id \in CVEs
      BY <3>1, <3>2, <3>3 DEF RankedBy, Base, Mirrored
    <3>4. CASE list[i].id \notin CVEs
      BY <3>2, <3>4 DEF RankedBy
    <3> QED BY <3>3, <3>4
  <2>6. IdsOf(list) = IdsOf(reported)
    BY <2>4 DEF Given
  <2> QED BY <1>3, <2>2, <2>3, <2>4, <2>5, <2>6 DEF list
<1> QED BY <1>2, <1>3

\* A record that was reported says what the last report of its id says; one
\* that was not keeps its sources; and an id has one life.
Succeeds(b, lives, n, m, list) ==
  \E l \in Nat :
    /\ Records(n + l, b)
    /\ \A i \in 1..(n + l) : b[i].life = lives[b[i].id]
    /\ \A i \in 1..(n + l) : b[i].id \in IdsOf(list) =>
         \E j \in 1..m : /\ list[j].id = b[i].id
                         /\ b[i].sources = list[j].sources
                         /\ b[i].ranking = list[j].ranking
    /\ \A i \in 1..n : /\ b[i].id = bucket[i].id
                       /\ b[i].id \notin IdsOf(list) => b[i].sources = bucket[i].sources
    /\ lives \in [Ids -> Finding]
    /\ IdsOf(b) = {id \in Ids : Tracked(lives[id])}
    /\ Distinct(bucket) /\ Distinct(list) => Distinct(b)

LEMMA MergedBucket ==
  ASSUME NEW n \in Nat, Records(n, bucket), perId \in [Ids -> Finding], FollowsPerId,
         NEW m \in Nat, NEW list, Reports(m, list), NEW now \in Nat, NEW fix \in BOOLEAN,
         NEW vex \in [Ids -> Assertions],
         NEW b, b = Merge(bucket, list, now, fix, vex),
         NEW lives, lives = MergePartition(perId, Ids, IdsOf(list), now,
                                           IF fix THEN Ids ELSE {}, vex)
  PROVE  Succeeds(b, lives, n, m, list)
<1>1. PICK l \in Nat :
           /\ Of(n + l, b)
           /\ \A i \in 1..n : b[i] = MergeRecord(bucket[i], list, now, fix, vex)
           /\ \A k \in 1..l : \E j \in 1..m : /\ list[j].id \notin IdsOf(bucket)
                                              /\ b[n + k] = NewRecord(list[j], now, vex)
           /\ \A j \in 1..m : list[j].id \notin IdsOf(bucket) =>
                \E k \in 1..l : b[n + k] = NewRecord(list[j], now, vex)
           /\ Distinct(list) => \A k, h \in 1..l : b[n + k].id = b[n + h].id => k = h
  <2>1. MergedFrom(b, n, bucket, m, list, now, fix, vex)
    BY MergeIs
  <2> QED BY <2>1 DEF MergedFrom
<1>2. /\ DOMAIN bucket = 1..n /\ DOMAIN list = 1..m
      /\ \A i \in 1..n : /\ DOMAIN bucket[i] = Fields /\ bucket[i].id \in Ids
                         /\ bucket[i].id \in IdsOf(bucket)
                         /\ bucket[i].life = perId[bucket[i].id]
                         /\ Tracked(perId[bucket[i].id])
      /\ \A j \in 1..m : list[j].id \in Ids /\ list[j].id \in IdsOf(list)
  BY DEF Records, Reports, Of, IsReport, FollowsPerId, IdsOf
<1>3. ASSUME NEW id \in Ids
      PROVE  /\ lives[id] = MergeFinding(perId[id], id \in IdsOf(list), now, fix, vex[id])
             /\ Tracked(perId[id]) =>
                  /\ lives[id] = MergeRecorded(perId[id], id \in IdsOf(list), now, fix, vex[id])
                  /\ lives[id] \in Finding /\ Tracked(lives[id])
             /\ ~Tracked(perId[id]) /\ id \in IdsOf(list) =>
                  /\ lives[id] = MergeNew(now, vex[id])
                  /\ lives[id] \in Finding /\ Tracked(lives[id])
             /\ ~Tracked(perId[id]) /\ id \notin IdsOf(list) => lives[id] = perId[id]
  <2> DEFINE isIn == id \in IdsOf(list)
  <2>1. lives[id] = MergeFinding(perId[id], isIn, now, fix, vex[id])
    <3>1. CASE fix
      BY <3>1 DEF MergePartition, MergeFinding, MergeRecorded
    <3>2. CASE ~fix
      BY <3>2 DEF MergePartition, MergeFinding, MergeRecorded
    <3> QED BY <3>1, <3>2
  <2>2. perId[id] \in Finding /\ isIn \in BOOLEAN /\ vex[id] \in Assertions
    OBVIOUS
  <2>3. Tracked(perId[id]) =>
          /\ lives[id] = MergeRecorded(perId[id], isIn, now, fix, vex[id])
          /\ lives[id] \in Finding /\ Tracked(lives[id])
    <3> HIDE DEF isIn
    <3>1. Tracked(perId[id]) => lives[id] = MergeRecorded(perId[id], isIn, now, fix, vex[id])
      BY <2>1 DEF MergeFinding
    <3> QED BY <2>2, <3>1, MergeType
  <2>4. ~Tracked(perId[id]) /\ isIn =>
          /\ lives[id] = MergeNew(now, vex[id])
          /\ lives[id] \in Finding /\ Tracked(lives[id])
    <3> HIDE DEF isIn
    <3>1. ~Tracked(perId[id]) /\ isIn => lives[id] = MergeNew(now, vex[id])
      BY <2>1 DEF MergeFinding
    <3> QED BY <2>2, <3>1, MergeType
  <2>5. ~Tracked(perId[id]) /\ ~isIn => lives[id] = perId[id]
    BY <2>1 DEF MergeFinding
  <2> QED BY <2>1, <2>3, <2>4, <2>5
<1>4. lives \in [Ids -> Finding]
  <2>1. lives = [id \in Ids |-> lives[id]]
    BY DEF MergePartition
  <2>2. \A id \in Ids : lives[id] \in Finding
    BY <1>3
  <2> QED BY <2>1, <2>2
\* The records that were there,
<1>5. ASSUME NEW i \in 1..n
      PROVE  /\ DOMAIN b[i] = Fields /\ b[i].id = bucket[i].id
             /\ b[i].life = lives[b[i].id]
             /\ b[i].id \in IdsOf(list) =>
                  \E j \in 1..m : /\ list[j].id = b[i].id
                                  /\ b[i].sources = list[j].sources
                                  /\ b[i].ranking = list[j].ranking
             /\ b[i].id \notin IdsOf(list) => b[i].sources = bucket[i].sources
  <2> DEFINE record == bucket[i]
  <2>1. b[i] = MergeRecord(record, list, now, fix, vex) /\ DOMAIN record = Fields
    BY <1>1, <1>2
  <2>2. /\ DOMAIN b[i] = Fields /\ b[i].id = record.id
        /\ b[i].life = MergeRecorded(record.life, record.id \in IdsOf(list), now, fix,
                                     vex[record.id])
        /\ record.id \in IdsOf(list) => /\ b[i].sources = LastOf(list, record.id).sources
                                        /\ b[i].ranking = LastOf(list, record.id).ranking
        /\ record.id \notin IdsOf(list) => b[i].sources = record.sources
    <3> HIDE DEF record
    <3> QED BY <2>1, MergedRecord
  <2>3. b[i].life = lives[b[i].id]
    BY <1>2, <1>3, <2>2
  <2>4. b[i].id \in IdsOf(list) =>
          \E j \in 1..m : /\ list[j].id = b[i].id
                          /\ b[i].sources = list[j].sources
                          /\ b[i].ranking = list[j].ranking
    <3> SUFFICES ASSUME record.id \in IdsOf(list)
                 PROVE  \E j \in 1..m : /\ list[j].id = b[i].id
                                        /\ b[i].sources = list[j].sources
                                        /\ b[i].ranking = list[j].ranking
      BY <2>2
    <3>1. PICK j \in 1..m : list[j].id = record.id /\ LastOf(list, record.id) = list[j]
      BY LastOfIs DEF Reports
    <3> QED BY <2>2, <3>1
  <2> QED BY <2>2, <2>3, <2>4
\* and the new ones.
<1>6. ASSUME NEW k \in 1..l
      PROVE  \E j \in 1..m :
               /\ list[j].id \notin IdsOf(bucket)
               /\ DOMAIN b[n + k] = Fields /\ b[n + k].id = list[j].id
               /\ b[n + k].sources = list[j].sources /\ b[n + k].ranking = list[j].ranking
               /\ b[n + k].life = lives[b[n + k].id]
  <2>1. PICK j \in 1..m : /\ list[j].id \notin IdsOf(bucket)
                          /\ b[n + k] = NewRecord(list[j], now, vex)
    BY <1>1
  <2>2. /\ DOMAIN b[n + k] = Fields /\ b[n + k].id = list[j].id
        /\ b[n + k].sources = list[j].sources /\ b[n + k].ranking = list[j].ranking
        /\ b[n + k].life = MergeNew(now, vex[list[j].id])
    BY <2>1 DEF NewRecord, Fields
  <2>3. ~Tracked(perId[list[j].id])
    BY <1>2, <2>1 DEF FollowsPerId
  <2>4. lives[list[j].id] = MergeNew(now, vex[list[j].id])
    BY <1>2, <1>3, <2>3
  <2> QED BY <2>1, <2>2, <2>4
<1>7. \A i \in 1..(n + l) : i \in 1..n \/ \E k \in 1..l : i = n + k
  <2> SUFFICES ASSUME NEW i \in 1..(n + l), i \notin 1..n PROVE \E k \in 1..l : i = n + k
    OBVIOUS
  <2>1. i - n \in 1..l /\ i = n + (i - n)
    OBVIOUS
  <2> QED BY <2>1
<1>8. \A i \in 1..n : i \in 1..(n + l)
  OBVIOUS
<1>9. \A k \in 1..l : n + k \in 1..(n + l)
  OBVIOUS
<1>10. ASSUME NEW i \in 1..(n + l)
       PROVE  /\ DOMAIN b[i] = Fields /\ b[i].id \in Ids
              /\ b[i].life = lives[b[i].id]
              /\ b[i].id \in IdsOf(list) =>
                   \E j \in 1..m : /\ list[j].id = b[i].id
                                   /\ b[i].sources = list[j].sources
                                   /\ b[i].ranking = list[j].ranking
              /\ Tracked(lives[b[i].id])
  <2>1. CASE i \in 1..n
    BY <1>2, <1>3, <1>5, <2>1
  <2>2. CASE i \notin 1..n
    <3>1. PICK k \in 1..l : i = n + k
      BY <1>7, <2>2
    <3>2. PICK j \in 1..m :
               /\ list[j].id \notin IdsOf(bucket)
               /\ DOMAIN b[n + k] = Fields /\ b[n + k].id = list[j].id
               /\ b[n + k].sources = list[j].sources /\ b[n + k].ranking = list[j].ranking
               /\ b[n + k].life = lives[b[n + k].id]
      BY <1>6
    <3>3. list[j].id \in Ids /\ list[j].id \in IdsOf(list)
      BY <1>2
    <3>4. Tracked(lives[list[j].id])
      BY <1>3, <3>3
    <3> QED BY <3>1, <3>2, <3>3, <3>4
  <2> QED BY <2>1, <2>2
<1>11. Records(n + l, b)
  BY <1>1, <1>10 DEF Records
<1>12. DOMAIN b = 1..(n + l)
  BY <1>1 DEF Of
<1>13. IdsOf(b) = {id \in Ids : Tracked(lives[id])}
  <2>1. \A id \in IdsOf(b) : id \in Ids /\ Tracked(lives[id])
    BY <1>10, <1>12 DEF IdsOf
  <2>2. ASSUME NEW id \in Ids, Tracked(lives[id]) PROVE id \in IdsOf(b)
    <3>1. CASE Tracked(perId[id])
      <4>1. PICK i \in 1..n : bucket[i].id = id
        BY SMTT(30), <1>2, <3>1 DEF FollowsPerId, IdsOf
      <4>2. b[i].id = id /\ i \in DOMAIN b
        BY <1>5, <1>8, <1>12, <4>1
      <4> QED BY <4>2 DEF IdsOf
    <3>2. CASE ~Tracked(perId[id])
      <4>1. id \in IdsOf(list)
        BY <1>3, <2>2, <3>2
      <4>2. PICK j \in 1..m : list[j].id = id
        BY <1>2, <4>1 DEF IdsOf
      <4>3. id \notin IdsOf(bucket)
        BY <3>2 DEF FollowsPerId
      <4>4. PICK k \in 1..l : b[n + k] = NewRecord(list[j], now, vex)
        BY <1>1, <4>2, <4>3
      <4>5. b[n + k].id = id /\ n + k \in DOMAIN b
        BY <1>9, <1>12, <4>2, <4>4 DEF NewRecord
      <4> QED BY <4>5 DEF IdsOf
    <3> QED BY <3>1, <3>2
  <2> QED BY <2>1, <2>2
<1>14. ASSUME Distinct(bucket), Distinct(list), NEW i \in 1..(n + l), NEW j \in 1..(n + l),
              b[i].id = b[j].id
       PROVE  i = j
  <2>1. CASE i \in 1..n /\ j \in 1..n
    BY <1>2, <1>5, <1>14, <2>1 DEF Distinct
  <2>2. CASE i \notin 1..n /\ j \notin 1..n
    <3>1. PICK k \in 1..l, h \in 1..l : i = n + k /\ j = n + h
      BY <1>7, <2>2
    <3> QED BY <1>1, <1>14, <3>1
  <2>3. ASSUME NEW x \in 1..n, NEW y \in 1..(n + l), y \notin 1..n, b[x].id = b[y].id
        PROVE  FALSE
    <3>1. PICK k \in 1..l : y = n + k
      BY <1>7, <2>3
    <3>2. b[y].id \notin IdsOf(bucket)
      BY <1>6, <3>1
    <3>3. b[x].id \in IdsOf(bucket)
      BY <1>2, <1>5
    <3> QED BY <2>3, <3>2, <3>3
  <2> QED BY <1>14, <2>1, <2>2, <2>3
<1>15. Distinct(bucket) /\ Distinct(list) => Distinct(b)
  BY <1>12, <1>14 DEF Distinct
<1>16. \A i \in 1..n : /\ b[i].id = bucket[i].id
                       /\ b[i].id \notin IdsOf(list) => b[i].sources = bucket[i].sources
  BY <1>5
<1> QED BY <1>4, <1>10, <1>11, <1>13, <1>15, <1>16 DEF Succeeds

LEMMA MergeStep ==
  ASSUME Base, FollowsPerId, NEW by, NEW reported, NEW merged, NEW fix \in BOOLEAN,
         MergeBucket(by, reported, merged, fix), Given(by, reported, merged)
  PROVE  /\ Base' /\ FollowsPerId' /\ AttributionIsHonest' /\ FlagsFollowFeeds'
         /\ last'.by = by
         /\ NamesOnce /\ OnePerId => OnePerId'
         /\ NamesOnce /\ OnePerId /\ by = "sbom-only" =>
              \A i \in DOMAIN bucket : bucket[i].sources \subseteq bucket'[i].sources
<1>1. PICK vex \in Documents, looked \in BOOLEAN :
        /\ last' = [by |-> by, reported |-> reported, looked |-> looked]
        /\ bucket' = Merge(bucket, IF looked THEN Apply(table, merged) ELSE merged,
                           clock', fix, vex)
        /\ perId' = MergePartition(perId, Ids, IdsOf(reported), clock',
                                   IF fix THEN Ids ELSE {}, vex)
  BY DEF MergeBucket
<1> DEFINE list == IF looked THEN Apply(table, merged) ELSE merged
<1>2. /\ clock \in Nat /\ clock' = clock + 1 /\ table' = table /\ accepted' = accepted
      /\ perId \in [Ids -> Finding] /\ DOMAIN table = Ids /\ Mirrored
  BY DEF MergeBucket, feeds, Base
<1>3. PICK n \in Nat : Records(n, bucket)
  BY DEF Base
<1>4. PICK m \in Nat :
        /\ Reports(m, list) /\ IdsOf(list) = IdsOf(reported)
        /\ DOMAIN merged = 1..m
        /\ \A i \in 1..m :
             /\ list[i].id = merged[i].id /\ list[i].sources = merged[i].sources
             /\ list[i].ranking = IF looked THEN RankedBy(accepted.kev, accepted.epss, list[i].id)
                                  ELSE Unranked
        /\ Distinct(merged) => Distinct(list)
  BY LookedUp
<1>5. bucket' = Merge(bucket, list, clock', fix, vex)
  BY <1>1
<1> HIDE DEF list
<1>6. perId' = MergePartition(perId, Ids, IdsOf(list), clock', IF fix THEN Ids ELSE {}, vex)
  BY <1>1, <1>4
<1>7. clock' \in Nat /\ vex \in [Ids -> Assertions]
  BY <1>2, ConstantsAssumption
<1>8. PICK l \in Nat :
        /\ Records(n + l, bucket')
        /\ \A i \in 1..(n + l) : bucket'[i].life = perId'[bucket'[i].id]
        /\ \A i \in 1..(n + l) : bucket'[i].id \in IdsOf(list) =>
             \E j \in 1..m : /\ list[j].id = bucket'[i].id
                             /\ bucket'[i].sources = list[j].sources
                             /\ bucket'[i].ranking = list[j].ranking
        /\ \A i \in 1..n : /\ bucket'[i].id = bucket[i].id
                           /\ bucket'[i].id \notin IdsOf(list) =>
                                bucket'[i].sources = bucket[i].sources
        /\ perId' \in [Ids -> Finding]
        /\ IdsOf(bucket') = {id \in Ids : Tracked(perId'[id])}
        /\ Distinct(bucket) /\ Distinct(list) => Distinct(bucket')
  <2>1. Succeeds(bucket', perId', n, m, list)
    BY <1>2, <1>3, <1>4, <1>5, <1>6, <1>7, MergedBucket
  <2> QED BY <2>1 DEF Succeeds
<1>9. DOMAIN bucket = 1..n /\ DOMAIN bucket' = 1..(n + l) /\ n + l \in Nat
  BY <1>3, <1>8 DEF Records, Of
<1>10. last'.by = by /\ last'.reported = reported /\ last'.looked = looked
  BY <1>1
<1>11. Base'
  <2>1. Mirrored'
    BY <1>2 DEF Mirrored, Stored
  <2> QED BY <1>2, <1>7, <1>8, <1>9, <2>1 DEF Base
<1>12. FollowsPerId'
  BY <1>8, <1>9 DEF FollowsPerId
<1>13. ASSUME Coalesced, by = "full", NEW i \in DOMAIN bucket', bucket'[i].id \in IdsOf(reported)
       PROVE  bucket'[i].sources = Credit(reported, bucket'[i].id)
  <2>1. PICK j \in 1..m : list[j].id = bucket'[i].id /\ bucket'[i].sources = list[j].sources
    BY <1>4, <1>8, <1>9, <1>13
  <2>2. merged[j].sources = Credit(reported, merged[j].id)
    BY <1>4, <1>13 DEF Given
  <2> QED BY <1>4, <2>1, <2>2
<1>14. AttributionIsHonest'
  BY <1>10, <1>13 DEF AttributionIsHonest, Claimants, Credit
<1>15. FlagsFollowFeeds'
  <2> SUFFICES ASSUME NEW i \in DOMAIN bucket', bucket'[i].id \in IdsOf(reported)
               PROVE  bucket'[i].ranking =
                        IF looked THEN RankedBy(accepted.kev, accepted.epss, bucket'[i].id)
                        ELSE Unranked
    BY <1>2, <1>10 DEF FlagsFollowFeeds
  <2>1. PICK j \in 1..m : list[j].id = bucket'[i].id /\ bucket'[i].ranking = list[j].ranking
    BY <1>4, <1>8, <1>9
  <2> QED BY <1>4, <2>1
<1>16. ASSUME NamesOnce, OnePerId PROVE OnePerId'
  BY <1>4, <1>8, <1>16 DEF OnePerId, Given
<1>17. ASSUME NamesOnce, OnePerId, by = "sbom-only", NEW i \in DOMAIN bucket
       PROVE  bucket[i].sources \subseteq bucket'[i].sources
  <2>1. i \in 1..n /\ i \in 1..(n + l)
    BY <1>9
  <2>2. CASE bucket'[i].id \notin IdsOf(list)
    BY <1>8, <2>1, <2>2
  <2>3. CASE bucket'[i].id \in IdsOf(list)
    <3>1. PICK j \in 1..m : list[j].id = bucket'[i].id /\ bucket'[i].sources = list[j].sources
      BY <1>8, <2>1, <2>3
    <3>2. merged[j].id = bucket[i].id /\ bucket'[i].sources = merged[j].sources
      BY <1>4, <1>8, <2>1, <3>1
    <3>3. bucket[i].id \in IdsOf(bucket)
      BY DEF IdsOf
    <3>4. LastOf(bucket, bucket[i].id).sources \subseteq merged[j].sources /\ Distinct(bucket)
      BY <1>4, <1>17, <3>2, <3>3 DEF Given, OnePerId
    <3>5. PICK h \in 1..n : bucket[h].id = bucket[i].id /\ LastOf(bucket, bucket[i].id) = bucket[h]
      BY <1>3, <3>3, LastOfIs DEF Records
    <3>6. h = i
      BY <1>9, <3>4, <3>5 DEF Distinct
    <3> QED BY <3>2, <3>4, <3>5, <3>6
  <2> QED BY <2>2, <2>3
<1> QED BY <1>10, <1>11, <1>12, <1>14, <1>15, <1>16, <1>17

-----------------------------------------------------------------------------
(* The other steps.                                                        *)

LEMMA AcceptanceStep ==
  ASSUME IInv, NEW id \in Ids, NEW given \in BOOLEAN, SetAcceptance(id, given)
  PROVE  IInv' /\ (OnePerId => OnePerId')
<1>1. PICK n \in Nat : Records(n, bucket)
  BY DEF IInv, Base
<1>2. /\ DOMAIN bucket = 1..n /\ bucket = [i \in 1..n |-> bucket[i]]
      /\ \A i \in 1..n : /\ DOMAIN bucket[i] = Fields /\ bucket[i].id \in Ids
                         /\ bucket[i].life = perId[bucket[i].id]
      /\ perId \in [Ids -> Finding]
      /\ IdsOf(bucket) = {x \in Ids : Tracked(perId[x])}
  BY <1>1 DEF IInv, Base, Records, Of, FollowsPerId
<1>3. /\ bucket' = [i \in DOMAIN bucket |->
                      IF bucket[i].id = id THEN [bucket[i] EXCEPT !.life.accepted = given]
                                           ELSE bucket[i]]
      /\ perId' = [perId EXCEPT ![id].accepted = given]
      /\ last'.by = "accepter" /\ last'.reported = <<>>
      /\ clock' = clock /\ table' = table /\ accepted' = accepted
  BY DEF SetAcceptance, feeds
<1>4. DOMAIN bucket' = 1..n /\ Of(n, bucket')
  BY <1>2, <1>3 DEF Of
<1>5. perId' \in [Ids -> Finding] /\ \A x \in Ids : Tracked(perId'[x]) <=> Tracked(perId[x])
  BY ZenonT(30), <1>2, <1>3 DEF Finding, Tracked
<1>6. ASSUME NEW i \in 1..n
      PROVE  /\ DOMAIN bucket'[i] = Fields /\ bucket'[i].id = bucket[i].id
             /\ bucket'[i].life = perId'[bucket'[i].id]
  <2>1. bucket'[i] = IF bucket[i].id = id THEN [bucket[i] EXCEPT !.life.accepted = given]
                                          ELSE bucket[i]
    BY <1>2, <1>3
  <2>2. DOMAIN bucket[i] = Fields /\ bucket[i].life = perId[bucket[i].id] /\ bucket[i].id \in Ids
    BY <1>2
  <2>3. CASE bucket[i].id = id
    <3>1. bucket'[i] = [bucket[i] EXCEPT !.life = [bucket[i].life EXCEPT !.accepted = given]]
      BY <2>1, <2>3
    <3>2. /\ DOMAIN bucket'[i] = Fields /\ bucket'[i].id = bucket[i].id
          /\ bucket'[i].life = [bucket[i].life EXCEPT !.accepted = given]
      BY <2>2, <3>1 DEF Fields
    <3>3. perId'[id] = [perId[id] EXCEPT !.accepted = given]
      BY <1>2, <1>3
    <3> QED BY <2>2, <2>3, <3>2, <3>3
  <2>4. CASE bucket[i].id # id
    <3>1. perId'[bucket[i].id] = perId[bucket[i].id]
      BY <1>2, <1>3, <2>2, <2>4
    <3> QED BY <2>1, <2>2, <2>4, <3>1
  <2> QED BY <2>3, <2>4
<1>7. IdsOf(bucket') = IdsOf(bucket)
  BY <1>2, <1>4, <1>6 DEF IdsOf
<1>8. Records(n, bucket')
  BY <1>2, <1>4, <1>6 DEF Records
<1>9. Base'
  <2>1. Mirrored'
    BY <1>3 DEF IInv, Base, Mirrored, Stored
  <2> QED BY <1>3, <1>5, <1>8, <2>1 DEF IInv, Base
<1>10. FollowsPerId'
  BY <1>2, <1>4, <1>5, <1>6, <1>7 DEF FollowsPerId
<1>11. AttributionIsHonest' /\ FlagsFollowFeeds'
  BY <1>3 DEF AttributionIsHonest, FlagsFollowFeeds, IdsOf
<1>12. OnePerId => OnePerId'
  BY <1>2, <1>4, <1>6 DEF OnePerId, Distinct
<1> QED BY <1>9, <1>10, <1>11, <1>12 DEF IInv

LEMMA RefreshStep ==
  ASSUME IInv, Refresh
  PROVE  IInv' /\ (OnePerId => OnePerId')
<1>1. PICK kev \in KEVFeeds \cup {NotFetched}, epss \in EPSSFeeds \cup {NotFetched} :
        /\ table' = ReplaceEnrichment(table, kev, epss)
        /\ accepted' = [kev  |-> IF kev = NotFetched THEN accepted.kev ELSE kev,
                        epss |-> IF epss = NotFetched THEN accepted.epss ELSE epss]
        /\ last' = [by |-> "refresh", reported |-> <<>>, looked |-> FALSE]
        /\ bucket' = bucket /\ perId' = perId /\ clock' = clock
  BY DEF Refresh
<1>2. ASSUME NEW id \in Ids
      PROVE  Stored(table', id) =
               [exploited |-> accepted'.kev # NotFetched /\ id \in accepted'.kev,
                score     |-> IF accepted'.epss # NotFetched /\ id \in DOMAIN accepted'.epss
                              THEN accepted'.epss[id] ELSE 0]
  <2> DEFINE named == \/ epss # NotFetched /\ id \in DOMAIN epss
                      \/ kev # NotFetched /\ id \in kev
             old == Stored(table, id)
             row == [exploited |-> IF kev = NotFetched THEN old.exploited ELSE id \in kev,
                     score     |-> IF epss = NotFetched THEN old.score
                                   ELSE IF id \in DOMAIN epss THEN epss[id] ELSE 0]
  <2>1. table'[id] = IF table[id] = NoRow /\ ~named THEN NoRow ELSE row
    BY <1>1 DEF ReplaceEnrichment
  <2>2. row # NoRow
    <3>1. DOMAIN row = {"exploited", "score"} /\ DOMAIN NoRow = {"row"}
      BY DEF NoRow
    <3> QED BY <3>1
  <2>3. old = [exploited |-> accepted.kev # NotFetched /\ id \in accepted.kev,
               score     |-> IF accepted.epss # NotFetched /\ id \in DOMAIN accepted.epss
                             THEN accepted.epss[id] ELSE 0]
    BY DEF IInv, Base, Mirrored
  <2>4. /\ accepted'.kev = IF kev = NotFetched THEN accepted.kev ELSE kev
        /\ accepted'.epss = IF epss = NotFetched THEN accepted.epss ELSE epss
    BY <1>1
  <2>5. row = [exploited |-> accepted'.kev # NotFetched /\ id \in accepted'.kev,
               score     |-> IF accepted'.epss # NotFetched /\ id \in DOMAIN accepted'.epss
                             THEN accepted'.epss[id] ELSE 0]
    <3>1. (IF kev = NotFetched THEN old.exploited ELSE id \in kev)
            = (accepted'.kev # NotFetched /\ id \in accepted'.kev)
      <4> HIDE DEF old
      <4>1. old.exploited = (accepted.kev # NotFetched /\ id \in accepted.kev)
        BY <2>3
      <4> QED BY <2>4, <4>1
    <3>2. (IF epss = NotFetched THEN old.score
           ELSE IF id \in DOMAIN epss THEN epss[id] ELSE 0)
            = (IF accepted'.epss # NotFetched /\ id \in DOMAIN accepted'.epss
               THEN accepted'.epss[id] ELSE 0)
      <4> HIDE DEF old
      <4>1. old.score = IF accepted.epss # NotFetched /\ id \in DOMAIN accepted.epss
                        THEN accepted.epss[id] ELSE 0
        BY <2>3
      <4> QED BY <2>4, <4>1
    <3> QED BY <3>1, <3>2, Zenon
  <2>6. CASE table[id] = NoRow /\ ~named
    <3>1. Stored(table', id) = Unranked /\ old = Unranked
      BY <2>1, <2>6 DEF Stored
    <3>2. row = Unranked
      <4> HIDE DEF old
      <4>1. old.exploited = FALSE /\ old.score = 0
        BY <3>1 DEF Unranked
      <4>2. (IF kev = NotFetched THEN old.exploited ELSE id \in kev) = FALSE
        BY <2>6, <4>1
      <4>3. (IF epss = NotFetched THEN old.score
             ELSE IF id \in DOMAIN epss THEN epss[id] ELSE 0) = 0
        BY <2>6, <4>1
      <4> QED BY <4>2, <4>3, Zenon DEF Unranked
    <3> QED BY <2>5, <3>1, <3>2
  <2>7. CASE ~(table[id] = NoRow /\ ~named)
    <3> HIDE DEF row, named
    <3>1. Stored(table', id) = row
      BY <2>1, <2>2, <2>7 DEF Stored
    <3> QED BY <2>5, <3>1
  <2> QED BY <2>6, <2>7
<1>3. Base'
  <2>1. Mirrored'
    BY <1>2 DEF Mirrored
  <2>2. DOMAIN table' = Ids
    BY <1>1 DEF ReplaceEnrichment
  <2>3. (\E n \in Nat : Records(n, bucket))'
    BY <1>1 DEF IInv, Base
  <2> QED BY <1>1, <2>1, <2>2, <2>3 DEF IInv, Base
<1>4. FollowsPerId' /\ AttributionIsHonest' /\ FlagsFollowFeeds' /\ (OnePerId => OnePerId')
  BY <1>1 DEF IInv, FollowsPerId, AttributionIsHonest, FlagsFollowFeeds, IdsOf, OnePerId
<1> QED BY <1>3, <1>4 DEF IInv

-----------------------------------------------------------------------------
(* The theorems.                                                           *)

LEMMA InvInit ==
  ASSUME Init
  PROVE  IInv /\ OnePerId
<1>1. Records(0, bucket)
  BY DEF Init, Records, Of
<1>2. Untracked \in Finding /\ ~Tracked(Untracked)
  BY DEF Untracked, Finding, FindingStatuses, Unset, Tracked
<1>3. perId \in [Ids -> Finding] /\ \A id \in Ids : ~Tracked(perId[id])
  BY <1>2 DEF Init
<1>4. Mirrored
  BY DEF Init, Mirrored, Stored, Unranked
<1>5. Base
  BY <1>1, <1>3, <1>4 DEF Init, Base
<1>6. FollowsPerId /\ AttributionIsHonest /\ FlagsFollowFeeds /\ OnePerId
  BY <1>3 DEF Init, FollowsPerId, AttributionIsHonest, FlagsFollowFeeds, IdsOf, OnePerId, Distinct
<1> QED BY <1>5, <1>6 DEF IInv

\* What every step does.
LEMMA InvNext ==
  ASSUME IInv, Next
  PROVE  /\ IInv'
         /\ NamesOnce /\ OnePerId =>
              /\ OnePerId'
              /\ last'.by = "sbom-only" =>
                   \A i \in DOMAIN bucket : bucket[i].sources \subseteq bucket'[i].sources
<1> DEFINE Kept == \A i \in DOMAIN bucket : bucket[i].sources \subseteq bucket'[i].sources
<1>1. ASSUME NEW by, NEW reported, NEW merged, NEW fix \in BOOLEAN,
             MergeBucket(by, reported, merged, fix), Given(by, reported, merged)
      PROVE  IInv' /\ (NamesOnce /\ OnePerId => OnePerId' /\ (last'.by = "sbom-only" => Kept))
  BY <1>1, MergeStep DEF IInv
<1>2. CASE FullRound
  BY <1>1, <1>2, FullRoundGives
<1>3. CASE Reevaluation
  BY <1>1, <1>3, ReevaluationGives DEF IInv
<1>4. CASE Submission
  BY <1>1, <1>4, SubmissionGives
<1>5. CASE Document
  BY <1>1, <1>5, DocumentGives
<1>6. ASSUME NEW id \in Ids, NEW given \in BOOLEAN, SetAcceptance(id, given)
      PROVE  IInv' /\ (OnePerId => OnePerId') /\ last'.by # "sbom-only"
  BY <1>6, AcceptanceStep DEF SetAcceptance
<1>7. CASE Refresh
  <2>1. last'.by # "sbom-only"
    BY <1>7 DEF Refresh
  <2> QED BY <1>7, <2>1, RefreshStep
<1> QED BY <1>2, <1>3, <1>4, <1>5, <1>6, <1>7 DEF Next

LEMMA InvIdle ==
  ASSUME IInv, UNCHANGED vars
  PROVE  IInv' /\ (OnePerId => OnePerId')
BY DEF vars, merging, feeds, IInv, Base, Mirrored, Stored, FollowsPerId, AttributionIsHonest,
       FlagsFollowFeeds, Claimants, OnePerId

LEMMA Inductive ==
  Spec => []IInv
<1>1. Init => IInv
  BY InvInit
<1>2. IInv /\ [Next]_vars => IInv'
  BY InvNext, InvIdle
<1> QED BY <1>1, <1>2, PTL DEF Spec

\* The list and the function other modules use in its place agree: an id is
\* on the list exactly when it is tracked, and its records have its life,
\* whatever was merged, accepted or refreshed (MergeFindings, merge.go).
THEOREM ListFollowsFunction ==
  Spec => []FollowsPerId
<1>1. IInv => FollowsPerId
  BY DEF IInv
<1> QED BY <1>1, Inductive, PTL

\* After a full round a reported finding is attributed to exactly the
\* scanners that reported it (CoalesceSameIDSources, MergeFindings).
THEOREM AttributesHonestly ==
  Spec => []AttributionIsHonest
<1>1. IInv => AttributionIsHonest
  BY DEF IInv
<1> QED BY <1>1, Inductive, PTL

\* A reported finding ranks as the last accepted copies of the feeds say
\* where they were looked up, and as nothing where they were not: never as
\* a client claims (Apply, ReplaceEnrichment, submitFindings).
THEOREM RanksByTheFeeds ==
  Spec => []FlagsFollowFeeds
<1>1. IInv => FlagsFollowFeeds
  BY DEF IInv
<1> QED BY <1>1, Inductive, PTL

\* As long as every submission names each id once, the cve bucket never
\* holds two records of one id, however many scanners and packages report
\* it (CoalesceSameIDSources, MergeFindings).
THEOREM OneRecordEach ==
  ASSUME NamesOnce
  PROVE  Spec => []OneRecordPerId
<1> DEFINE Both == IInv /\ OnePerId
<1>1. Init => Both
  BY InvInit
<1>2. Both /\ [Next]_vars => Both'
  BY InvNext, InvIdle
<1>3. Both => OneRecordPerId
  <2> SUFFICES ASSUME Base, Coalesced, Distinct(bucket)
               PROVE  Cardinality(IdsOf(bucket)) = Len(bucket)
    BY DEF IInv, OnePerId, OneRecordPerId
  <2>1. PICK n \in Nat : Of(n, bucket)
    BY DEF Base, Records
  <2> DEFINE f == [i \in 1..n |-> bucket[i].id]
  <2>2. f \in Bijection(1..n, IdsOf(bucket))
    <3>1. DOMAIN bucket = 1..n /\ IdsOf(bucket) = {bucket[i].id : i \in 1..n}
      BY <2>1 DEF Of, IdsOf
    <3>2. f \in [1..n -> IdsOf(bucket)] /\ \A i \in 1..n : f[i] = bucket[i].id
      BY <3>1
    <3>3. \A i, j \in 1..n : f[i] = f[j] => i = j
      BY <3>1, <3>2 DEF Distinct
    <3>4. \A id \in IdsOf(bucket) : \E i \in 1..n : f[i] = id
      BY <3>1, <3>2
    <3> HIDE DEF f
    <3> QED BY <3>2, <3>3, <3>4 DEF Bijection, Injection, Surjection, IsInjective
  <2>3. Cardinality(IdsOf(bucket)) = n
    <3>1. IsFiniteSet(1..n) /\ Cardinality(1..n) = n
      BY <2>1, FS_Interval
    <3>2. ExistsBijection(1..n, IdsOf(bucket))
      BY <2>2 DEF ExistsBijection
    <3> QED BY <3>1, <3>2, FS_Bijection
  <2>4. Len(bucket) = n
    BY <2>1 DEF Of
  <2> QED BY <2>3, <2>4
<1> HIDE DEF Both
<1> QED BY <1>1, <1>2, <1>3, PTL DEF Spec

\* A re-evaluation takes no scanner's claim away, as long as every
\* submission names each id once (CarrySourcesForward, scan.go:727-740).
THEOREM KeepsCorroboration ==
  ASSUME NamesOnce
  PROVE  Spec => CorroborationKept
<1> DEFINE Both == IInv /\ OnePerId
           Kept == last'.by = "sbom-only" =>
                     \A i \in DOMAIN bucket : bucket[i].sources \subseteq bucket'[i].sources
<1>1. Init => Both
  BY InvInit
<1>2. Both /\ [Next]_vars => Both'
  BY InvNext, InvIdle
<1>3. Both /\ [Next]_vars => [Kept]_vars
  BY InvNext
<1>4. [][Kept]_vars => CorroborationKept
  BY DEF CorroborationKept
<1> HIDE DEF Both, Kept
<1> QED BY <1>1, <1>2, <1>3, <1>4, PTL DEF Spec
=============================================================================
