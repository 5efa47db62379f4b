------------------------------ MODULE JoinProofs ------------------------------
(***************************************************************************)
(* The proofs about module Join: the initiator's table stays a one to one  *)
(* assignment of indices, through searches, commits that are lost, sorting *)
(* and restarts of nodes, and what nodes conclude from it is true.         *)
(***************************************************************************)
EXTENDS Join, FiniteSetTheorems, WellFoundedInduction, TLAPS

(* The constants of the join service, as module ChaosApps assumes them. *)
JoinAssumption ==
  /\ NODE_LIST_LEN \in Nat \ {0}
  /\ MAX_NODE_COUNT \in Nat \ {0}

-----------------------------------------------------------------------------
(* A set of naturals that is not empty has a least element. *)
LEMMA LeastElement ==
  ASSUME NEW T \in SUBSET Nat, T # {}
  PROVE  \E x \in T : \A y \in T : x <= y
<1> DEFINE R == OpToRel(<, Nat)
<1>1. IsWellFoundedOn(R, Nat)
  BY NatLessThanWellFounded
<1>2. R = {pair \in Nat \X Nat : pair[1] < pair[2]}
  BY DEF OpToRel
<1> HIDE DEF R
<1>3. PICK x \in T : \A y \in T : ~ (<<y, x>> \in R)
  BY <1>1, WFMin
<1>4. \A y \in T : ~(y < x)
  BY <1>2, <1>3
<1>5. \A y \in T : x <= y
  BY <1>4
<1> QED  BY <1>5

(* Ranks in a finite set of ids are distinct, in order, and use up the
   positions of the set. *)
LEMMA RankOrder ==
  ASSUME NEW S \in SUBSET Nat, IsFiniteSet(S), NEW x \in S, NEW y \in S, x < y
  PROVE  Rank(S, x) \in Nat /\ Rank(S, y) \in Nat /\ Rank(S, x) < Rank(S, y)
<1> DEFINE A == {other \in S : other < x}
           B == {other \in S : other < y}
<1>1. IsFiniteSet(A) /\ IsFiniteSet(B)
  BY FS_Subset
<1>2. A \subseteq B /\ x \in B /\ x \notin A
  <2>1. x \in Nat /\ y \in Nat /\ \A z \in S : z \in Nat
    OBVIOUS
  <2>2. \A z \in S : z < x => z < y
    BY <2>1
  <2>3. ~(x < x)
    BY <2>1
  <2>4. A \subseteq B
    BY <2>2
  <2> QED  BY <2>3, <2>4
<1>3. Cardinality(A) \in Nat /\ Cardinality(B) \in Nat
  BY <1>1, FS_CardinalityType
<1>4. Cardinality(A) <= Cardinality(B) /\ Cardinality(A) # Cardinality(B)
  <2> HIDE DEF A, B
  <2> QED  BY <1>1, <1>2, FS_Subset
<1>5. Rank(S, x) = Cardinality(A) /\ Rank(S, y) = Cardinality(B)
  BY DEF Rank
<1> HIDE DEF A, B
<1> QED  BY <1>3, <1>4, <1>5

LEMMA RankBound ==
  ASSUME NEW S \in SUBSET Nat, IsFiniteSet(S), NEW x \in S
  PROVE  Rank(S, x) \in Nat /\ Rank(S, x) < Cardinality(S)
<1> DEFINE A == {other \in S : other < x}
<1>1. IsFiniteSet(A) /\ A \subseteq S /\ x \notin A
  BY FS_Subset
<1>2. Cardinality(A) \in Nat /\ Cardinality(S) \in Nat
  BY <1>1, FS_CardinalityType
<1>3. Cardinality(A) <= Cardinality(S) /\ Cardinality(A) # Cardinality(S)
  <2> HIDE DEF A
  <2> QED  BY <1>1, FS_Subset
<1>4. Rank(S, x) = Cardinality(A)
  BY DEF Rank
<1> HIDE DEF A
<1> QED  BY <1>2, <1>3, <1>4

LEMMA RankOnto ==
  ASSUME NEW S \in SUBSET Nat, IsFiniteSet(S), NEW k \in 1..Cardinality(S)
  PROVE  \E x \in S : Rank(S, x) = k - 1
<1> DEFINE N == Cardinality(S)
           f == [x \in S |-> Rank(S, x) + 1]
<1>1. N \in Nat
  BY FS_CardinalityType
<1>2. f \in [S -> 1..N]
  BY <1>1, RankBound
<1>3. \A x, y \in S : f[x] = f[y] => x = y
  <2> SUFFICES ASSUME NEW x \in S, NEW y \in S, x # y PROVE f[x] # f[y]
    OBVIOUS
  <2>1. x < y \/ y < x
    OBVIOUS
  <2> QED  BY <2>1, RankOrder
<1>4. f \in Injection(S, 1..N)
  BY <1>2, <1>3 DEF Injection, IsInjective
<1>5. IsFiniteSet(1..N) /\ Cardinality(1..N) = N
  BY <1>1, FS_Interval
<1>6. f \in Surjection(S, 1..N)
  <2> HIDE DEF f
  <2> QED  BY <1>4, <1>5, FS_Injection
<1>7. PICK x \in S : f[x] = k
  BY <1>6 DEF Surjection
<1>8. Rank(S, x) \in Nat /\ Rank(S, x) + 1 = k
  BY <1>7, RankBound
<1> QED  BY <1>8

(* Ascending lists a finite set of ids once and in order. *)
Lists(a, S) ==
  /\ a \in [1..Cardinality(S) -> S]
  /\ \A i, j \in 1..Cardinality(S) : i < j => a[i] < a[j]
  /\ \A x \in S : Rank(S, x) + 1 \in 1..Cardinality(S) /\ a[Rank(S, x) + 1] = x

LEMMA AscendingLists ==
  ASSUME NEW S \in SUBSET Nat, IsFiniteSet(S)
  PROVE  Lists(Ascending(S), S) /\ Cardinality(S) \in Nat
<1> DEFINE a == Ascending(S)
           N == Cardinality(S)
<1>0. N \in Nat
  BY FS_CardinalityType
<1>1. \A k \in 1..N : a[k] \in S /\ Rank(S, a[k]) = k - 1
  <2> TAKE k \in 1..N
  <2>1. \E x \in S : Rank(S, x) = k - 1
    BY RankOnto
  <2>2. a[k] = CHOOSE id \in S : Rank(S, id) = k - 1
    BY DEF Ascending
  <2> HIDE DEF a
  <2> QED  BY <2>1, <2>2
<1>2. a \in [1..N -> S]
  BY <1>1 DEF Ascending
<1> HIDE DEF a
<1>3. \A i, j \in 1..N : i < j => a[i] < a[j]
  <2> SUFFICES ASSUME NEW i \in 1..N, NEW j \in 1..N, i < j
               PROVE  a[i] < a[j]
    OBVIOUS
  <2>1. a[i] \in S /\ a[j] \in S /\ Rank(S, a[i]) = i - 1 /\ Rank(S, a[j]) = j - 1
    BY <1>1
  <2>0. i \in Int /\ j \in Int /\ a[i] \in Nat /\ a[j] \in Nat
    <3>1. i \in Int /\ j \in Int
      BY <1>0
    <3>2. a[i] \in Nat /\ a[j] \in Nat
      BY <2>1
    <3> QED  BY <3>1, <3>2
  <2>2. a[j] < a[i] => FALSE
    <3>1. a[j] < a[i] => Rank(S, a[j]) < Rank(S, a[i])
      BY <2>1, RankOrder
    <3> QED  BY <2>0, <2>1, <3>1
  <2>3. a[j] # a[i]
    BY <2>0, <2>1
  <2> QED  BY <2>0, <2>2, <2>3
<1>4. ASSUME NEW x \in S
      PROVE  Rank(S, x) + 1 \in 1..N /\ a[Rank(S, x) + 1] = x
  <2>1. Rank(S, x) \in Nat /\ Rank(S, x) < N
    BY RankBound
  <2> DEFINE k == Rank(S, x) + 1
  <2>2. k \in 1..N /\ k - 1 = Rank(S, x)
    BY <2>1, <1>0
  <2> HIDE DEF k
  <2>3. a[k] \in S /\ Rank(S, a[k]) = Rank(S, x)
    BY <2>2, <1>1
  <2>4. ~(a[k] < x)
    <3>1. a[k] < x => Rank(S, a[k]) < Rank(S, x)
      BY <2>3, RankOrder
    <3> QED  BY <2>1, <2>3, <3>1
  <2>5. ~(x < a[k])
    <3>1. x < a[k] => Rank(S, x) < Rank(S, a[k])
      BY <2>3, RankOrder
    <3> QED  BY <2>1, <2>3, <3>1
  <2>6. x \in Nat /\ a[k] \in Nat
    BY <2>3
  <2>7. a[k] = x
    BY <2>4, <2>5, <2>6
  <2> QED  BY <2>2, <2>7 DEF k
<1> QED  BY <1>0, <1>2, <1>3, <1>4 DEF Lists, a

-----------------------------------------------------------------------------
(* Tables.  An entry has an id and an index; a table has each id and each
   index once, and its indices are smaller than its length. *)
Indices == 0..(MAX_NODE_COUNT - 1)
Entries == [id : Nodes, idx : Indices]

Holds(map, n, idx) == \E i \in DOMAIN map : map[i] = [id |-> n, idx |-> idx]

IdsDiffer(map) ==
  \A i, j \in DOMAIN map : i # j => map[i].id # map[j].id

IdxDiffer(map) ==
  \A i, j \in DOMAIN map : i # j => map[i].idx # map[j].idx

TableOK(map) ==
  /\ map \in Seq(Entries) /\ Len(map) <= MAX_NODE_COUNT
  /\ IdsDiffer(map) /\ IdxDiffer(map)
  /\ \A i \in DOMAIN map : map[i].idx < Len(map)

InOrder(map) ==
  \A i, j \in DOMAIN map : i < j => map[i].id < map[j].id

(* Two tables of the same entries. *)
SameEntries(map, other) ==
  /\ Len(other) = Len(map)
  /\ \A i \in DOMAIN map : \E j \in DOMAIN other : other[j] = map[i]
  /\ \A j \in DOMAIN other : \E i \in DOMAIN map : other[j] = map[i]

(* As many ids as entries. *)
LEMMA IdsCount ==
  ASSUME NEW map \in Seq(Entries), IdsDiffer(map)
  PROVE  LET ids == {entry.id : entry \in Range(map)}
         IN /\ ids \subseteq Nodes /\ ids \subseteq Nat
            /\ IsFiniteSet(ids) /\ Cardinality(ids) = Len(map)
<1> DEFINE ids == {entry.id : entry \in Range(map)}
           f == [i \in 1..Len(map) |-> map[i].id]
<1>1. Len(map) \in Nat /\ DOMAIN map = 1..Len(map)
      /\ \A i \in 1..Len(map) : map[i] \in Entries
  OBVIOUS
<1>2. \A i \in 1..Len(map) : map[i].id \in Nodes
  BY <1>1 DEF Entries
<1>3. ids = {map[i].id : i \in 1..Len(map)}
  BY <1>1 DEF Range
<1>4. ids \subseteq Nodes /\ ids \subseteq Nat
  BY <1>2, <1>3, ChaosAssumption DEF ChaosAssumption
<1> HIDE DEF ids
<1>5. f \in [1..Len(map) -> ids]
  BY <1>3
<1>6. \A i, j \in 1..Len(map) : f[i] = f[j] => i = j
  BY <1>1 DEF IdsDiffer
<1>7. \A x \in ids : \E i \in 1..Len(map) : f[i] = x
  BY <1>3
<1> HIDE DEF f
<1>8. f \in Surjection(1..Len(map), ids) /\ f \in Injection(1..Len(map), ids)
  BY <1>5, <1>6, <1>7 DEF Surjection, Injection, IsInjective
<1>9. IsFiniteSet(1..Len(map)) /\ Cardinality(1..Len(map)) = Len(map)
  <2>1. \A n \in Nat : IsFiniteSet(1..n) /\ Cardinality(1..n) = n
    BY FS_Interval
  <2> QED  BY <1>1, <2>1
<1>10. IsFiniteSet(ids) /\ Cardinality(ids) = Cardinality(1..Len(map))
  BY <1>8, <1>9, FS_Surjection
<1> QED  BY <1>4, <1>9, <1>10 DEF ids

(* Sorted permutes a table and puts it in order. *)
LEMMA SortedTable ==
  ASSUME NEW map \in Seq(Entries), IdsDiffer(map)
  PROVE  /\ Sorted(map) \in Seq(Entries) /\ SameEntries(map, Sorted(map))
         /\ InOrder(Sorted(map)) /\ IdsDiffer(Sorted(map))
<1> DEFINE ids == {entry.id : entry \in Range(map)}
           a == Ascending(ids)
           t == Sorted(map)
           N == Len(map)
<1>1. ids \subseteq Nat /\ IsFiniteSet(ids) /\ Cardinality(ids) = N
  BY IdsCount
<1>2. N \in Nat /\ DOMAIN map = 1..N /\ \A i \in 1..N : map[i] \in Entries
  OBVIOUS
<1>3. /\ \A e \in Range(map) : e.id \in ids
      /\ \A x \in ids : \E e \in Range(map) : e.id = x
  OBVIOUS
<1>4. \A e \in Range(map) : e \in Entries /\ \E i \in 1..N : map[i] = e
  BY <1>2 DEF Range
<1>5. \A i \in 1..N : map[i] \in Range(map)
  BY <1>2 DEF Range
<1>6. t = [k \in 1..N |-> CHOOSE entry \in Range(map) : entry.id = a[k]]
  BY <1>2 DEF Sorted
<1> HIDE DEF ids
<1>7. Lists(a, ids)
  BY <1>1, AscendingLists
<1>8. /\ a \in [1..N -> ids]
      /\ \A i, j \in 1..N : i < j => a[i] < a[j]
      /\ \A x \in ids : \E k \in 1..N : a[k] = x
  BY <1>1, <1>7 DEF Lists
<1> HIDE DEF a, t, N
<1>9. \A k \in 1..N : t[k] \in Range(map) /\ t[k].id = a[k]
  BY <1>3, <1>6, <1>8
<1>10. t \in [1..N -> Entries]
  BY <1>4, <1>6, <1>9
<1>11. t \in Seq(Entries) /\ Len(t) = N /\ DOMAIN t = 1..N
  BY <1>2, <1>10
<1>12. InOrder(t)
  BY <1>8, <1>9, <1>11 DEF InOrder
<1>13. IdsDiffer(t)
  <2> SUFFICES ASSUME NEW i \in 1..N, NEW j \in 1..N, i # j
               PROVE  t[i].id # t[j].id
    BY <1>11 DEF IdsDiffer
  <2>1. a[i] \in Nat /\ a[j] \in Nat
    BY <1>1, <1>8
  <2>2. a[i] < a[j] \/ a[j] < a[i]
    <3>1. i < j \/ j < i
      BY <1>2
    <3> QED  BY <3>1, <1>8
  <2> QED  BY <1>9, <2>1, <2>2
<1>14. \A j \in 1..N : \E i \in 1..N : t[j] = map[i]
  BY <1>4, <1>9
<1>15. ASSUME NEW i \in 1..N
       PROVE  \E j \in 1..N : t[j] = map[i]
  <2>1. map[i].id \in ids
    BY <1>3, <1>5
  <2>2. PICK j \in 1..N : a[j] = map[i].id
    BY <1>8, <2>1
  <2>3. PICK k \in 1..N : t[j] = map[k]
    BY <1>14
  <2>4. map[k].id = map[i].id
    BY <1>9, <2>2, <2>3
  <2>5. k = i
    BY <1>2, <2>4 DEF IdsDiffer
  <2> QED  BY <2>3, <2>5
<1>16. SameEntries(map, t)
  BY <1>2, <1>11, <1>14, <1>15 DEF SameEntries, N
<1> QED  BY <1>11, <1>12, <1>13, <1>16 DEF t

(* A table sorted is the same table. *)
LEMMA SortedOK ==
  ASSUME NEW map, TableOK(map)
  PROVE  /\ TableOK(Sorted(map)) /\ InOrder(Sorted(map))
         /\ Len(Sorted(map)) = Len(map)
         /\ \A n, idx : Holds(map, n, idx) <=> Holds(Sorted(map), n, idx)
<1> DEFINE t == Sorted(map)
           N == Len(map)
<1>1. map \in Seq(Entries) /\ IdsDiffer(map)
  BY DEF TableOK
<1>2. t \in Seq(Entries) /\ SameEntries(map, t) /\ InOrder(t) /\ IdsDiffer(t)
  BY <1>1, SortedTable
<1> HIDE DEF t
<1>3. N \in Nat /\ DOMAIN map = 1..N /\ DOMAIN t = 1..N /\ Len(t) = N
  BY <1>1, <1>2 DEF SameEntries
<1>4. \A n, idx : Holds(map, n, idx) <=> Holds(t, n, idx)
  BY <1>2 DEF Holds, SameEntries
<1>5. \A j \in DOMAIN t : t[j].idx < Len(t)
  BY <1>2, <1>3 DEF SameEntries, TableOK
<1>6. IdxDiffer(t)
  <2> SUFFICES ASSUME NEW i \in 1..N, NEW j \in 1..N, i # j
               PROVE  t[i].idx # t[j].idx
    BY <1>3 DEF IdxDiffer
  <2>1. PICK k \in 1..N : t[i] = map[k]
    BY <1>2, <1>3 DEF SameEntries
  <2>2. PICK l \in 1..N : t[j] = map[l]
    BY <1>2, <1>3 DEF SameEntries
  <2>3. t[i].id # t[j].id
    BY <1>2, <1>3 DEF IdsDiffer
  <2>4. k # l
    BY <2>1, <2>2, <2>3
  <2> QED  BY <1>3, <2>1, <2>2, <2>4 DEF TableOK, IdxDiffer
<1>7. TableOK(t)
  BY <1>2, <1>3, <1>5, <1>6 DEF TableOK
<1> QED  BY <1>2, <1>3, <1>4, <1>7 DEF t

-----------------------------------------------------------------------------
(* The binary search.  Found is what it should return on the entries first to
   last: the index of the entry that has the id. *)
Found(map, id, first, last) ==
  IF \E k \in first..last : map[k + 1].id = id
  THEN map[(CHOOSE k \in first..last : map[k + 1].id = id) + 1].idx
  ELSE Missing

Bounds(size) == (0..size) \X (-1..(size - 1))

(* One call of the search, which goes on as the function search says. *)
SearchStep(map, id, search, r) ==
  LET middle == (r[1] + r[2]) \div 2
      entry == map[middle + 1]
  IN IF r[1] > r[2] THEN Missing
     ELSE IF entry.id = id THEN entry.idx
     ELSE IF entry.id < id THEN search[<<middle + 1, r[2]>>]
     ELSE search[<<r[1], middle - 1>>]

Searches(map, size, id, search) ==
  search = [r \in Bounds(size) |-> SearchStep(map, id, search, r)]

LEMMA SearchIs ==
  ASSUME NEW map, NEW size, NEW id
  PROVE  binary_search(map, size, id) =
           (CHOOSE search : Searches(map, size, id, search))[<<0, size - 1>>]
BY Zenon DEF binary_search, Searches, SearchStep, Bounds

(* Found is the only answer that an entry with the id leaves. *)
LEMMA FoundIs ==
  ASSUME NEW map \in Seq(Entries), IdsDiffer(map), NEW id,
         NEW first \in 0..Len(map), NEW last \in -1..(Len(map) - 1)
  PROVE  /\ \A k \in first..last :
              map[k + 1].id = id => Found(map, id, first, last) = map[k + 1].idx
         /\ (\A k \in first..last : map[k + 1].id # id) =>
              Found(map, id, first, last) = Missing
<1>1. Len(map) \in Nat /\ DOMAIN map = 1..Len(map)
  OBVIOUS
<1>2. ASSUME NEW k \in first..last, map[k + 1].id = id
      PROVE  Found(map, id, first, last) = map[k + 1].idx
  <2> DEFINE c == CHOOSE j \in first..last : map[j + 1].id = id
  <2>1. c \in first..last /\ map[c + 1].id = id
    BY <1>2
  <2>2. Found(map, id, first, last) = map[c + 1].idx
    BY <1>2 DEF Found
  <2> HIDE DEF c
  <2>3. c + 1 \in 1..Len(map) /\ k + 1 \in 1..Len(map) /\ c \in Int /\ k \in Int
    BY <1>1, <2>1
  <2>4. c + 1 = k + 1
    BY <1>1, <1>2, <2>1, <2>3 DEF IdsDiffer
  <2> QED  BY <2>2, <2>4
<1>3. (\A k \in first..last : map[k + 1].id # id) =>
        Found(map, id, first, last) = Missing
  BY DEF Found
<1> QED  BY <1>2, <1>3

(* On a table in order, half of the entries can be left out: what the search
   returns in one step from the right answers is the right answer. *)
LEMMA HalvesSuffice ==
  ASSUME NEW map \in Seq(Entries), IdsDiffer(map), InOrder(map), NEW id \in Nat,
         NEW first \in 0..Len(map), NEW last \in -1..(Len(map) - 1),
         first <= last
  PROVE  LET middle == (first + last) \div 2
         IN /\ middle \in first..last
            /\ <<middle + 1, last>> \in Bounds(Len(map))
            /\ <<first, middle - 1>> \in Bounds(Len(map))
            /\ map[middle + 1].id = id =>
                 Found(map, id, first, last) = map[middle + 1].idx
            /\ map[middle + 1].id < id =>
                 Found(map, id, first, last) = Found(map, id, middle + 1, last)
            /\ ~(map[middle + 1].id = id) /\ ~(map[middle + 1].id < id) =>
                 Found(map, id, first, last) = Found(map, id, first, middle - 1)
<1> DEFINE middle == (first + last) \div 2
           N == Len(map)
<1>1. N \in Nat /\ DOMAIN map = 1..N /\ \A i \in 1..N : map[i] \in Entries
  OBVIOUS
<1>2. \A i \in 1..N : map[i].id \in Nat
  BY <1>1, ChaosAssumption DEF Entries, ChaosAssumption
<1>3. middle \in first..last
  BY <1>1
<1> HIDE DEF middle
<1>4. /\ first \in Int /\ last \in Int /\ middle \in Int
      /\ middle + 1 \in 0..N /\ middle - 1 \in -1..(N - 1)
      /\ middle + 1 \in 1..N /\ first <= middle /\ middle <= last
      /\ 0 <= first /\ last <= N - 1
  BY <1>1, <1>3
<1>5. \A k \in first..last : k + 1 \in 1..N /\ k \in Int
  BY <1>1, <1>4
<1>6. /\ <<middle + 1, last>> \in Bounds(N)
      /\ <<first, middle - 1>> \in Bounds(N)
  BY <1>4 DEF Bounds
<1>7. map[middle + 1].id = id => Found(map, id, first, last) = map[middle + 1].idx
  BY <1>3, FoundIs
<1>8. ASSUME map[middle + 1].id < id
      PROVE  Found(map, id, first, last) = Found(map, id, middle + 1, last)
  <2>1. ASSUME NEW k \in first..last, map[k + 1].id = id
        PROVE  k \in (middle + 1)..last
    <3>1. k <= middle => map[k + 1].id <= map[middle + 1].id
      <4>1. k + 1 < middle + 1 => map[k + 1].id < map[middle + 1].id
        BY <1>1, <1>4, <1>5 DEF InOrder
      <4>2. map[k + 1].id \in Nat /\ map[middle + 1].id \in Nat
        BY <1>2, <1>4, <1>5
      <4>3. k \in Int
        BY <1>5
      <4>4. k = middle => map[k + 1].id <= map[middle + 1].id
        BY <4>2
      <4> QED  BY <4>1, <4>2, <4>3, <4>4, <1>4
    <3>2. map[k + 1].id \in Nat /\ map[middle + 1].id \in Nat /\ k \in Int
      BY <1>2, <1>4, <1>5
    <3>3. ~(k <= middle)
      BY <1>8, <2>1, <3>1, <3>2
    <3> QED  BY <3>2, <3>3, <1>4
  <2>2. \A k \in (middle + 1)..last : k \in first..last
    BY <1>4
  <2>3. CASE \E k \in first..last : map[k + 1].id = id
    <3>1. PICK k \in first..last : map[k + 1].id = id
      BY <2>3
    <3>2. Found(map, id, first, last) = map[k + 1].idx
      BY <3>1, FoundIs
    <3>3. k \in (middle + 1)..last
      BY <2>1, <3>1
    <3>4. Found(map, id, middle + 1, last) = map[k + 1].idx
      BY <3>1, <3>3, <1>4, FoundIs
    <3> QED  BY <3>2, <3>4
  <2>4. CASE ~ \E k \in first..last : map[k + 1].id = id
    <3>1. Found(map, id, first, last) = Missing
      BY <2>4, FoundIs
    <3>2. Found(map, id, middle + 1, last) = Missing
      BY <2>2, <2>4, <1>4, FoundIs
    <3> QED  BY <3>1, <3>2
  <2> QED  BY <2>3, <2>4
<1>9. ASSUME ~(map[middle + 1].id = id), ~(map[middle + 1].id < id)
      PROVE  Found(map, id, first, last) = Found(map, id, first, middle - 1)
  <2>1. ASSUME NEW k \in first..last, map[k + 1].id = id
        PROVE  k \in first..(middle - 1)
    <3>1. middle < k => map[middle + 1].id < map[k + 1].id
      <4>1. middle + 1 < k + 1 => map[middle + 1].id < map[k + 1].id
        BY <1>1, <1>4, <1>5 DEF InOrder
      <4>2. k \in Int
        BY <1>5
      <4> QED  BY <4>1, <4>2, <1>4
    <3>2. map[k + 1].id \in Nat /\ map[middle + 1].id \in Nat /\ k \in Int
      BY <1>2, <1>4, <1>5
    <3>3. ~(middle < k)
      BY <1>9, <2>1, <3>1, <3>2
    <3>4. k # middle
      BY <1>9, <2>1
    <3> QED  BY <3>2, <3>3, <3>4, <1>4
  <2>2. \A k \in first..(middle - 1) : k \in first..last
    BY <1>4
  <2>3. CASE \E k \in first..last : map[k + 1].id = id
    <3>1. PICK k \in first..last : map[k + 1].id = id
      BY <2>3
    <3>2. Found(map, id, first, last) = map[k + 1].idx
      BY <3>1, FoundIs
    <3>3. k \in first..(middle - 1)
      BY <2>1, <3>1
    <3>4. Found(map, id, first, middle - 1) = map[k + 1].idx
      BY <3>1, <3>3, <1>4, FoundIs
    <3> QED  BY <3>2, <3>4
  <2>4. CASE ~ \E k \in first..last : map[k + 1].id = id
    <3>1. Found(map, id, first, last) = Missing
      BY <2>4, FoundIs
    <3>2. Found(map, id, first, middle - 1) = Missing
      BY <2>2, <2>4, <1>4, FoundIs
    <3> QED  BY <3>1, <3>2
  <2> QED  BY <2>3, <2>4
<1> QED  BY <1>3, <1>6, <1>7, <1>8, <1>9 DEF middle

(* A function that searches finds, whatever interval it is asked about. *)
LEMMA SearchFinds ==
  ASSUME NEW map \in Seq(Entries), IdsDiffer(map), InOrder(map), NEW id \in Nat,
         NEW c, Searches(map, Len(map), id, c),
         NEW first \in 0..Len(map), NEW last \in -1..(Len(map) - 1)
  PROVE  c[<<first, last>>] = Found(map, id, first, last)
<1> DEFINE N == Len(map)
           Off(f, l) == c[<<f, l>>] # Found(map, id, f, l)
           T == {d \in Nat : \E f \in 0..N, l \in -1..(N - 1) :
                               l - f = d /\ Off(f, l)}
<1>1. N \in Nat
  OBVIOUS
<1>2. \A f \in 0..N, l \in -1..(N - 1) :
        c[<<f, l>>] = SearchStep(map, id, c, <<f, l>>)
  <2> TAKE f \in 0..N, l \in -1..(N - 1)
  <2>1. <<f, l>> \in Bounds(N)
    BY DEF Bounds
  <2>2. c = [r \in Bounds(N) |-> SearchStep(map, id, c, r)]
    BY DEF Searches
  <2> HIDE DEF N
  <2> QED  BY <2>1, <2>2
<1>3. ASSUME NEW f \in 0..N, NEW l \in -1..(N - 1), f > l
      PROVE  ~Off(f, l)
  <2>1. c[<<f, l>>] = Missing
    BY <1>2, <1>3 DEF SearchStep
  <2>2. \A k \in f..l : map[k + 1].id # id
    BY <1>1, <1>3
  <2>3. Found(map, id, f, l) = Missing
    BY <2>2, FoundIs
  <2> QED  BY <2>1, <2>3
<1>4. ASSUME T # {}
      PROVE  FALSE
  <2>1. PICK d \in T : \A e \in T : d <= e
    <3>1. T \in SUBSET Nat
      OBVIOUS
    <3> HIDE DEF T
    <3> QED  BY <1>4, <3>1, LeastElement
  <2>2. PICK f \in 0..N, l \in -1..(N - 1) : l - f = d /\ Off(f, l)
    BY <2>1
  <2>3. d \in Nat /\ f \in Int /\ l \in Int /\ f <= l
    BY <1>1, <2>1, <2>2
  <2>4. ASSUME NEW g \in 0..N, NEW m \in -1..(N - 1), m - g < d
        PROVE  ~Off(g, m)
    <3>1. g \in Int /\ m \in Int
      BY <1>1
    <3>2. CASE g > m
      BY <1>3, <3>2
    <3>3. CASE g <= m
      <4>1. m - g \in Nat
        BY <3>1, <3>3
      <4>2. Off(g, m) => m - g \in T
        BY <4>1
      <4>3. m - g \notin T
        <5> HIDE DEF T
        <5> QED  BY <2>1, <2>3, <2>4, <4>1
      <4> QED  BY <4>2, <4>3
    <3> QED  BY <3>1, <3>2, <3>3
  <2> DEFINE middle == (f + l) \div 2
  <2>5. /\ middle \in f..l
        /\ <<middle + 1, l>> \in Bounds(N) /\ <<f, middle - 1>> \in Bounds(N)
        /\ map[middle + 1].id = id =>
             Found(map, id, f, l) = map[middle + 1].idx
        /\ map[middle + 1].id < id =>
             Found(map, id, f, l) = Found(map, id, middle + 1, l)
        /\ ~(map[middle + 1].id = id) /\ ~(map[middle + 1].id < id) =>
             Found(map, id, f, l) = Found(map, id, f, middle - 1)
    BY <2>3, HalvesSuffice
  <2>6. c[<<f, l>>] = IF map[middle + 1].id = id THEN map[middle + 1].idx
                      ELSE IF map[middle + 1].id < id THEN c[<<middle + 1, l>>]
                      ELSE c[<<f, middle - 1>>]
    <3>1. ~(f > l)
      BY <2>3
    <3>2. c[<<f, l>>] = SearchStep(map, id, c, <<f, l>>)
      BY <1>2
    <3>3. <<f, l>>[1] = f /\ <<f, l>>[2] = l
      OBVIOUS
    <3> QED  BY <3>1, <3>2, <3>3, Zenon DEF SearchStep
  <2> HIDE DEF middle, Off
  <2>7. /\ middle + 1 \in 0..N /\ middle - 1 \in -1..(N - 1)
        /\ l - (middle + 1) < d /\ (middle - 1) - f < d
    <3>1. middle \in f..l /\ f \in 0..N /\ l \in -1..(N - 1) /\ l - f = d
      BY <2>2, <2>5
    <3> HIDE DEF N
    <3> QED  BY <1>1, <2>3, <3>1
  <2>8. ~Off(middle + 1, l) /\ ~Off(f, middle - 1)
    BY <2>4, <2>7
  <2> QED  BY <2>2, <2>5, <2>6, <2>8 DEF Off
<1>5. ASSUME Off(first, last)
      PROVE  FALSE
  <2>1. first <= last
    <3>1. first \in Int /\ last \in Int
      BY <1>1
    <3> QED  BY <1>3, <1>5, <3>1
  <2>2. last - first \in Nat
    BY <1>1, <2>1
  <2>3. last - first \in T
    BY <1>5, <2>2
  <2> HIDE DEF T
  <2> QED  BY <1>4, <2>3
<1> QED  BY <1>5

(* There is such a function: the one that knows the answers. *)
LEMMA SearchExists ==
  ASSUME NEW map \in Seq(Entries), IdsDiffer(map), InOrder(map), NEW id \in Nat
  PROVE  \E c : Searches(map, Len(map), id, c)
<1> DEFINE N == Len(map)
           c == [r \in Bounds(N) |-> Found(map, id, r[1], r[2])]
<1>1. N \in Nat
  OBVIOUS
<1>2. \A r \in Bounds(N) : r = <<r[1], r[2]>> /\ r[1] \in 0..N /\ r[2] \in -1..(N - 1)
  BY DEF Bounds
<1>3. \A f, l : <<f, l>> \in Bounds(N) => c[<<f, l>>] = Found(map, id, f, l)
  OBVIOUS
<1> HIDE DEF c
<1>4. ASSUME NEW r \in Bounds(N)
      PROVE  SearchStep(map, id, c, r) = Found(map, id, r[1], r[2])
  <2> DEFINE f == r[1]
             l == r[2]
             middle == (f + l) \div 2
  <2>1. f \in 0..N /\ l \in -1..(N - 1)
    BY <1>2
  <2>2. f \in Int /\ l \in Int
    BY <1>1, <2>1
  <2> HIDE DEF f, l
  <2>3. CASE f > l
    <3>1. \A k \in f..l : map[k + 1].id # id
      BY <2>2, <2>3
    <3>2. Found(map, id, f, l) = Missing
      BY <2>1, <3>1, FoundIs
    <3>3. SearchStep(map, id, c, r) = Missing
      BY <2>3 DEF SearchStep, f, l
    <3> QED  BY <3>2, <3>3 DEF f, l
  <2>4. CASE f <= l
    <3>1. /\ <<middle + 1, l>> \in Bounds(N) /\ <<f, middle - 1>> \in Bounds(N)
          /\ map[middle + 1].id = id =>
               Found(map, id, f, l) = map[middle + 1].idx
          /\ map[middle + 1].id < id =>
               Found(map, id, f, l) = Found(map, id, middle + 1, l)
          /\ ~(map[middle + 1].id = id) /\ ~(map[middle + 1].id < id) =>
               Found(map, id, f, l) = Found(map, id, f, middle - 1)
      BY <2>1, <2>4, HalvesSuffice
    <3>2. ~(f > l)
      BY <2>2, <2>4
    <3>3. SearchStep(map, id, c, r) =
            IF map[middle + 1].id = id THEN map[middle + 1].idx
            ELSE IF map[middle + 1].id < id THEN c[<<middle + 1, l>>]
            ELSE c[<<f, middle - 1>>]
      BY <3>2 DEF SearchStep, f, l
    <3> HIDE DEF middle
    <3>4. SearchStep(map, id, c, r) = Found(map, id, f, l)
      BY <1>3, <3>1, <3>3
    <3> QED  BY <3>4 DEF f, l
  <2> QED  BY <2>2, <2>3, <2>4
<1>5. c = [r \in Bounds(N) |-> SearchStep(map, id, c, r)]
  <2>1. \A r \in Bounds(N) : Found(map, id, r[1], r[2]) = SearchStep(map, id, c, r)
    BY <1>4
  <2>2. c = [r \in Bounds(N) |-> Found(map, id, r[1], r[2])]
    BY DEF c
  <2> HIDE DEF N
  <2> QED  BY <2>1, <2>2
<1> QED  BY <1>5 DEF Searches

(* The binary search (join.c:750) of a table in order returns the index of the
   entry of id, and reports a miss only if the table has no entry of it. *)
THEOREM SearchExact ==
  ASSUME NEW map \in Seq(Entries), IdsDiffer(map), InOrder(map), NEW id \in Nat
  PROVE  LET r == binary_search(map, Len(map), id)
         IN /\ r = Missing => \A i \in DOMAIN map : map[i].id # id
            /\ r # Missing => Holds(map, id, r)
<1> DEFINE N == Len(map)
           c == CHOOSE search : Searches(map, N, id, search)
           r == binary_search(map, N, id)
<1>1. N \in Nat /\ DOMAIN map = 1..N /\ \A i \in 1..N : map[i] \in Entries
  OBVIOUS
<1>2. Searches(map, N, id, c)
  BY SearchExists
<1>3. r = c[<<0, N - 1>>]
  BY SearchIs
<1> HIDE DEF c, r
<1>4. 0 \in 0..N /\ N - 1 \in -1..(N - 1)
  BY <1>1
<1>5. r = Found(map, id, 0, N - 1)
  BY <1>2, <1>3, <1>4, SearchFinds
<1>6. ASSUME NEW k \in 0..(N - 1), map[k + 1].id = id
      PROVE  r # Missing /\ Holds(map, id, r)
  <2>1. r = map[k + 1].idx
    BY <1>4, <1>5, <1>6, FoundIs
  <2>2. k + 1 \in 1..N
    BY <1>1
  <2>3. map[k + 1] \in Entries
    BY <1>1, <2>2
  <2>4. map[k + 1] = [id |-> id, idx |-> r] /\ r \in Indices
    BY <1>6, <2>1, <2>3 DEF Entries
  <2>5. r # Missing
    BY <2>4 DEF Indices, Missing
  <2> QED  BY <1>1, <2>2, <2>4, <2>5 DEF Holds
<1>7. ASSUME \A k \in 0..(N - 1) : map[k + 1].id # id
      PROVE  r = Missing /\ \A i \in DOMAIN map : map[i].id # id
  <2>1. r = Missing
    BY <1>4, <1>5, <1>7, FoundIs
  <2>2. ASSUME NEW i \in 1..N
        PROVE  map[i].id # id
    <3>1. i - 1 \in 0..(N - 1) /\ (i - 1) + 1 = i
      BY <1>1
    <3> QED  BY <1>7, <3>1
  <2> QED  BY <1>1, <2>1, <2>2
<1> QED  BY <1>6, <1>7 DEF r

-----------------------------------------------------------------------------
(* A list cut to its n smallest ids has at most n of them, and loses some
   exactly when it had more. *)
Cut(S, n) == {id \in S : Rank(S, id) < n}

LEMMA CutFits ==
  ASSUME NEW S \in SUBSET Nat, IsFiniteSet(S), NEW n \in Nat
  PROVE  /\ IsFiniteSet(Cut(S, n)) /\ Cardinality(Cut(S, n)) \in Nat
         /\ Cardinality(Cut(S, n)) <= n
<1> DEFINE C == Cut(S, n)
           f == [x \in C |-> Rank(S, x)]
<1>1. C \subseteq S /\ \A x \in C : Rank(S, x) < n
  BY DEF Cut
<1> HIDE DEF C
<1>2. \A x \in C : Rank(S, x) \in 0..(n - 1)
  <2> TAKE x \in C
  <2>1. Rank(S, x) \in Nat
    BY <1>1, RankBound
  <2> QED  BY <1>1, <2>1
<1>3. \A x, y \in C : f[x] = f[y] => x = y
  <2> SUFFICES ASSUME NEW x \in C, NEW y \in C, x # y PROVE Rank(S, x) # Rank(S, y)
    OBVIOUS
  <2>1. x \in S /\ y \in S /\ x \in Nat /\ y \in Nat
    BY <1>1
  <2>2. x < y \/ y < x
    BY <2>1
  <2>3. x < y => Rank(S, x) # Rank(S, y)
    BY <2>1, RankOrder
  <2>4. y < x => Rank(S, x) # Rank(S, y)
    BY <2>1, RankOrder
  <2> QED  BY <2>2, <2>3, <2>4
<1>4. f \in [C -> 0..(n - 1)]
  BY <1>2
<1> HIDE DEF f
<1>5. f \in Injection(C, 0..(n - 1))
  BY <1>3, <1>4 DEF Injection, IsInjective
<1>6. IsFiniteSet(0..(n - 1)) /\ Cardinality(0..(n - 1)) = n
  BY FS_Interval
<1>7. IsFiniteSet(C) /\ Cardinality(C) <= n
  BY <1>5, <1>6, FS_Injection
<1>8. Cardinality(C) \in Nat
  BY <1>7, FS_CardinalityType
<1> QED  BY <1>7, <1>8 DEF C

(* The whole network fits into the table. *)
Room == Cardinality(Nodes) <= MAX_NODE_COUNT

(* What a commit does to the table, and to the places in the list. *)
Extends(map, t) ==
  /\ TableOK(t) /\ Len(map) <= Len(t)
  /\ \A n, idx : Holds(map, n, idx) => Holds(t, n, idx)

Places(t, slot, index) ==
  /\ DOMAIN index = slot
  /\ \A id \in slot : index[id] \in Indices /\ (Room => Holds(t, id, index[id]))

(* The entries that a commit adds to a table. *)
Joined(map, new) ==
  [k \in 1..Cardinality(new) |->
     [id |-> Ascending(new)[k], idx |-> Len(map) + k - 1]]

(* New entries at the end of a table. *)
LEMMA TableGrows ==
  ASSUME JoinAssumption, NEW map, TableOK(map), NEW new \in SUBSET Nodes,
         \A i \in DOMAIN map : map[i].id \notin new,
         Len(map) + Cardinality(new) <= MAX_NODE_COUNT
  PROVE  /\ Extends(map, map \o Joined(map, new))
         /\ Len(map \o Joined(map, new)) = Len(map) + Cardinality(new)
         /\ \A id \in new :
              /\ Len(map) + Rank(new, id) \in Indices
              /\ Holds(map \o Joined(map, new), id, Len(map) + Rank(new, id))
<1> DEFINE N == Len(map)
           A == Cardinality(new)
           a == Ascending(new)
           entries == [k \in 1..A |-> [id |-> a[k], idx |-> N + k - 1]]
           t == map \o entries
<1>1. /\ map \in Seq(Entries) /\ N \in Nat /\ DOMAIN map = 1..N
      /\ \A i \in 1..N : map[i] \in Entries
  BY DEF TableOK
<1>2. new \in SUBSET Nat /\ IsFiniteSet(new)
  BY ChaosAssumption, FS_Subset DEF ChaosAssumption
<1>3. Lists(a, new) /\ A \in Nat
  BY <1>2, AscendingLists
<1>4. /\ a \in [1..A -> new]
      /\ \A i, j \in 1..A : i < j => a[i] < a[j]
      /\ \A x \in new : Rank(new, x) + 1 \in 1..A /\ a[Rank(new, x) + 1] = x
  BY <1>3 DEF Lists
<1>5. N + A <= MAX_NODE_COUNT /\ MAX_NODE_COUNT \in Nat
  BY DEF JoinAssumption
<1> HIDE DEF a, A, N
<1>6. \A k \in 1..A : N + k - 1 \in Indices /\ N + k - 1 >= N
  BY <1>1, <1>3, <1>5 DEF Indices
<1>7. /\ entries \in Seq(Entries) /\ Len(entries) = A
      /\ \A k \in 1..A : entries[k].id = a[k] /\ entries[k].idx = N + k - 1
      /\ \A k \in 1..A : entries[k] = [id |-> a[k], idx |-> N + k - 1]
  <2>1. \A k \in 1..A : entries[k] \in Entries
    BY <1>4, <1>6 DEF Entries
  <2> QED  BY <1>3, <2>1
<1> HIDE DEF entries
<1>8. /\ t \in Seq(Entries) /\ Len(t) = N + A /\ DOMAIN t = 1..(N + A)
      /\ \A i \in 1..N : t[i] = map[i]
      /\ \A k \in 1..A : t[N + k] = entries[k]
  <2>1. t \in Seq(Entries) /\ Len(t) = N + A /\ DOMAIN t = 1..(N + A)
    <3>1. t \in Seq(Entries)
      BY <1>1, <1>7
    <3>2. Len(t) = N + A
      <4>1. \A u, v \in Seq(Entries) : Len(u \o v) = Len(u) + Len(v)
        OBVIOUS
      <4>2. Len(t) = Len(map) + Len(entries)
        BY <1>1, <1>7, <4>1
      <4> QED  BY <1>7, <4>2 DEF N
    <3> HIDE DEF t
    <3>3. DOMAIN t = 1..Len(t)
      BY <3>1
    <3> QED  BY <3>1, <3>2, <3>3
  <2>2. \A i \in 1..N : t[i] = map[i]
    BY <1>1, <1>3, <1>7 DEF N
  <2>3. ASSUME NEW k \in 1..A
        PROVE  t[N + k] = entries[k]
    <3>1. N + k \in 1..(N + A) /\ N + k > N /\ (N + k) - N = k
      BY <1>1, <1>3
    <3>2. t[N + k] = entries[(N + k) - N]
      BY <1>1, <1>3, <1>7, <3>1 DEF N
    <3> QED  BY <3>1, <3>2
  <2> QED  BY <2>1, <2>2, <2>3
<1> HIDE DEF t
<1>9. \A i \in 1..(N + A) : i \in 1..N \/ \E k \in 1..A : i = N + k
  <2> SUFFICES ASSUME NEW i \in 1..(N + A), i \notin 1..N
               PROVE  \E k \in 1..A : i = N + k
    OBVIOUS
  <2>1. i - N \in 1..A /\ i = N + (i - N)
    BY <1>1, <1>3
  <2> QED  BY <2>1
<1>10. /\ \A i \in 1..N : t[i].id \in Nodes /\ t[i].id \notin new
       /\ \A i \in 1..N : t[i].idx \in Nat /\ t[i].idx < N
       /\ \A k \in 1..A : t[N + k].id = a[k] /\ t[N + k].id \in new
       /\ \A k \in 1..A : t[N + k].idx = N + k - 1
  <2>1. \A i \in 1..N : map[i].id \in Nodes /\ map[i].idx \in Nat
    BY <1>1 DEF Entries, Indices
  <2>2. \A i \in 1..N : map[i].idx < N
    BY <1>1 DEF TableOK, N
  <2>3. \A k \in 1..A : t[N + k].id = a[k] /\ t[N + k].id \in new
    <3> TAKE k \in 1..A
    <3>1. t[N + k] = entries[k] /\ entries[k].id = a[k] /\ a[k] \in new
      BY <1>4, <1>7, <1>8
    <3> HIDE DEF t
    <3> QED  BY <3>1
  <2>4. \A k \in 1..A : t[N + k].idx = N + k - 1
    BY <1>7, <1>8
  <2>5. \A i \in 1..N : map[i].id \notin new
    BY <1>1
  <2>6. \A i \in 1..N : t[i] = map[i]
    BY <1>8
  <2> QED  BY <2>1, <2>2, <2>3, <2>4, <2>5, <2>6
<1>11. \A k, l \in 1..A : k # l => a[k] # a[l]
  <2> TAKE k \in 1..A, l \in 1..A
  <2> HAVE k # l
  <2>1. k < l \/ l < k
    BY <1>3
  <2>2. a[k] \in Nat /\ a[l] \in Nat
    BY <1>2, <1>4
  <2>3. a[k] < a[l] \/ a[l] < a[k]
    BY <1>4, <2>1
  <2> QED  BY <2>2, <2>3
<1>12. ASSUME NEW i \in 1..(N + A), NEW j \in 1..(N + A), i # j
       PROVE  t[i].id # t[j].id /\ t[i].idx # t[j].idx
  <2>1. CASE i \in 1..N /\ j \in 1..N
    BY <1>1, <1>8, <1>12, <2>1 DEF TableOK, IdsDiffer, IdxDiffer
  <2>2. ASSUME NEW p \in 1..N, NEW k \in 1..A
        PROVE  t[p].id # t[N + k].id /\ t[p].idx # t[N + k].idx
    <3>1. t[p].id # t[N + k].id
      BY <1>10
    <3>2. t[p].idx \in Nat /\ t[p].idx < N /\ t[N + k].idx = N + k - 1
      BY <1>10
    <3>3. k \in Int /\ k >= 1
      BY <1>3
    <3>4. t[p].idx # t[N + k].idx
      BY <1>1, <3>2, <3>3
    <3> QED  BY <3>1, <3>4
  <2>3. ASSUME NEW k \in 1..A, NEW l \in 1..A, i = N + k, j = N + l
        PROVE  t[i].id # t[j].id /\ t[i].idx # t[j].idx
    <3>1. k # l
      BY <1>12, <2>3
    <3>2. t[i].id = a[k] /\ t[j].id = a[l]
      BY <1>10, <2>3
    <3>3. t[i].idx = N + k - 1 /\ t[j].idx = N + l - 1
      BY <1>10, <2>3
    <3>4. k \in Int /\ l \in Int
      BY <1>3
    <3>5. t[i].idx # t[j].idx
      BY <1>1, <3>1, <3>3, <3>4
    <3> QED  BY <1>11, <3>1, <3>2, <3>5
  <2>4. (i \in 1..N \/ \E k \in 1..A : i = N + k)
        /\ (j \in 1..N \/ \E k \in 1..A : j = N + k)
    BY <1>9
  <2> QED  BY <2>1, <2>2, <2>3, <2>4
<1>13. \A i \in 1..(N + A) : t[i].idx < N + A
  <2> TAKE i \in 1..(N + A)
  <2>1. CASE i \in 1..N
    <3>1. t[i].idx \in Nat /\ t[i].idx < N
      BY <1>10, <2>1
    <3> QED  BY <1>1, <1>3, <3>1
  <2>2. ASSUME NEW k \in 1..A, i = N + k PROVE t[i].idx < N + A
    <3>1. t[i].idx = N + k - 1
      BY <1>10, <2>2
    <3>2. k \in Int /\ k <= A
      BY <1>3
    <3> QED  BY <1>1, <1>3, <3>1, <3>2
  <2> QED  BY <1>9, <2>1, <2>2
<1>14. TableOK(t)
  BY <1>5, <1>8, <1>12, <1>13 DEF TableOK, IdsDiffer, IdxDiffer
<1>15. ASSUME NEW n, NEW idx, Holds(map, n, idx)
       PROVE  Holds(t, n, idx)
  <2>1. PICK i \in 1..N : map[i] = [id |-> n, idx |-> idx]
    BY <1>1, <1>15 DEF Holds
  <2>2. i \in 1..(N + A)
    BY <1>1, <1>3
  <2> QED  BY <1>8, <2>1, <2>2 DEF Holds
<1>16. ASSUME NEW id \in new
       PROVE  N + Rank(new, id) \in Indices /\ Holds(t, id, N + Rank(new, id))
  <2> DEFINE k == Rank(new, id) + 1
  <2>1. k \in 1..A /\ a[k] = id
    BY <1>4
  <2>2. Rank(new, id) \in Nat
    BY <1>2, RankBound
  <2>3. N + k - 1 = N + Rank(new, id)
    BY <1>1, <2>2
  <2> HIDE DEF k
  <2>4. t[N + k] = [id |-> id, idx |-> N + Rank(new, id)]
    BY <1>7, <1>8, <2>1, <2>3
  <2>5. N + k \in 1..(N + A)
    BY <1>1, <1>3, <2>1
  <2>6. N + Rank(new, id) \in Indices
    BY <1>6, <2>1, <2>3
  <2> QED  BY <1>8, <2>4, <2>5, <2>6 DEF Holds
<1>17. Len(map) <= Len(t)
  BY <1>1, <1>3, <1>8 DEF N
<1>18. Extends(map, t)
  BY <1>14, <1>15, <1>17 DEF Extends
<1>19. t = map \o Joined(map, new) /\ N = Len(map) /\ A = Cardinality(new)
  BY DEF Joined, t, entries, a, A, N
<1> QED  BY <1>8, <1>16, <1>18, <1>19

-----------------------------------------------------------------------------
(* The state of a node. *)
IndexLists == UNION {[S -> Indices] : S \in SUBSET Others}

JoinNode ==
  [has_index : BOOLEAN, own : Indices, node_count : 0..MAX_NODE_COUNT,
   pkt_count : 0..MAX_NODE_COUNT, map : Seq(Entries), slot : SUBSET Others,
   index : IndexLists, flags : SUBSET Indices, overflow : BOOLEAN,
   commit : BOOLEAN, complete : BOOLEAN,
   tx_count_complete : 0..N_TX_COMPLETE,
   invalid_rx_count : 0..CHAOS_RESTART_MAX,
   tx_timeout_enabled : BOOLEAN, state : {"TX", "RX", "OFF"}]

(* If the network fits into the table, a commit has space for all. *)
LEMMA RoomForAll ==
  ASSUME JoinAssumption, NEW map, TableOK(map), NEW fresh \in SUBSET Nodes,
         \A i \in DOMAIN map : map[i].id \notin fresh, Room
  PROVE  Len(map) + Cardinality(fresh) <= MAX_NODE_COUNT
<1> DEFINE ids == {entry.id : entry \in Range(map)}
<1>1. map \in Seq(Entries) /\ IdsDiffer(map) /\ Len(map) \in Nat
  BY DEF TableOK
<1>2. ids \subseteq Nodes /\ IsFiniteSet(ids) /\ Cardinality(ids) = Len(map)
  BY <1>1, IdsCount
<1>3. ids \cap fresh = {}
  BY DEF Range
<1> HIDE DEF ids
<1>4. IsFiniteSet(Nodes)
  BY ChaosAssumption DEF ChaosAssumption
<1>5. IsFiniteSet(fresh)
  BY <1>4, FS_Subset
<1>6. Cardinality(ids \cup fresh) =
        Cardinality(ids) + Cardinality(fresh) - Cardinality(ids \cap fresh)
  BY <1>2, <1>5, FS_Union
<1>7. Cardinality(ids \cap fresh) = 0
  BY <1>3, FS_EmptySet
<1>8. Cardinality(ids \cup fresh) <= Cardinality(Nodes)
  <2>1. ids \cup fresh \in SUBSET Nodes
    BY <1>2
  <2> QED  BY <1>4, <2>1, FS_Subset
<1>9. Cardinality(fresh) \in Nat /\ Cardinality(Nodes) \in Nat
  BY <1>4, <1>5, FS_CardinalityType
<1> QED  BY <1>1, <1>2, <1>6, <1>7, <1>8, <1>9 DEF Room, JoinAssumption

(* The commit of the initiator: the table grows, and the places in the list
   get the indices of their nodes. *)
Committed(s, t) ==
  /\ t \in JoinNode
  /\ Extends(s.map, t.map)
  /\ Places(t.map, s.slot, t.index)
  /\ t.node_count = Len(t.map) /\ t.pkt_count = Len(t.map)
  /\ t.commit /\ t.flags = {s.own}
  /\ t.complete => s.complete
  /\ t.slot = s.slot /\ t.own = s.own
  /\ t.has_index <=> s.has_index

LEMMA CommitEffect ==
  ASSUME JoinAssumption, NEW s \in JoinNode, TableOK(s.map), InOrder(s.map),
         s.node_count = Len(s.map)
  PROVE  Committed(s, commit(s))
<1> DEFINE map == s.map
           N == s.node_count
           found == [id \in s.slot |-> binary_search(map, N, id)]
           fresh == {id \in s.slot : found[id] = Missing}
           new == {id \in fresh : N + Rank(fresh, id) < MAX_NODE_COUNT}
           A == Cardinality(new)
           entries == [k \in 1..A |-> [id |-> Ascending(new)[k], idx |-> N + k - 1]]
           place(id) == IF id \notin fresh THEN found[id]
                        ELSE IF id \in new THEN N + Rank(new, id) ELSE 0
           index == [id \in s.slot |-> place(id)]
           full == s.overflow \/ new # fresh
           done == s.complete /\ s.slot = {}
           t == commit(s)
<1>1. t = [s EXCEPT !.map = map \o entries, !.node_count = N + A,
                    !.pkt_count = N + A, !.index = index, !.overflow = full,
                    !.commit = TRUE, !.flags = {s.own}, !.complete = done,
                    !.state = "TX", !.invalid_rx_count = 0]
  BY Zenon DEF commit
<1>2. /\ map \in Seq(Entries) /\ IdsDiffer(map) /\ N = Len(map) /\ N \in Nat
      /\ N <= MAX_NODE_COUNT /\ MAX_NODE_COUNT \in Nat
  BY DEF TableOK, JoinAssumption
<1>3. s.slot \subseteq Others /\ Others \subseteq Nodes /\ Nodes \subseteq Nat
      /\ IsFiniteSet(Nodes)
  BY ChaosAssumption DEF ChaosAssumption, JoinNode, Others
<1>4. ASSUME NEW id \in s.slot
      PROVE  /\ id \in fresh => \A i \in DOMAIN map : map[i].id # id
             /\ id \notin fresh => Holds(map, id, found[id])
  <2>1. id \in Nat
    BY <1>3
  <2>2. found[id] = binary_search(map, Len(map), id)
    BY <1>2
  <2>3. id \in fresh <=> found[id] = Missing
    OBVIOUS
  <2> HIDE DEF found, fresh
  <2> QED  BY <1>2, <2>1, <2>2, <2>3, SearchExact
<1>5. fresh \subseteq s.slot
  OBVIOUS
<1> HIDE DEF found, fresh
<1>6. fresh \in SUBSET Nat /\ IsFiniteSet(fresh) /\ fresh \in SUBSET Nodes
  BY <1>3, <1>5, FS_Subset
<1>7. new = Cut(fresh, MAX_NODE_COUNT - N)
  <2>1. ASSUME NEW id \in fresh
        PROVE  N + Rank(fresh, id) < MAX_NODE_COUNT
                 <=> Rank(fresh, id) < MAX_NODE_COUNT - N
    <3>1. Rank(fresh, id) \in Nat
      BY <1>6, RankBound
    <3> QED  BY <1>2, <3>1
  <2> QED  BY <2>1 DEF Cut
<1>8. new \subseteq fresh
  OBVIOUS
<1>9. Room => new = fresh
  <2> SUFFICES ASSUME Room PROVE \A id \in fresh : N + Rank(fresh, id) < MAX_NODE_COUNT
    BY <1>8
  <2> TAKE id \in fresh
  <2>1. Len(map) + Cardinality(fresh) <= MAX_NODE_COUNT
    <3>1. \A i \in DOMAIN map : map[i].id \notin fresh
      BY <1>4, <1>5
    <3> HIDE DEF map
    <3> QED  BY <1>6, <3>1, RoomForAll DEF map
  <2>2. Rank(fresh, id) \in Nat /\ Rank(fresh, id) < Cardinality(fresh)
    BY <1>6, RankBound
  <2>3. Cardinality(fresh) \in Nat
    BY <1>6, FS_CardinalityType
  <2> QED  BY <1>2, <2>1, <2>2, <2>3
<1> HIDE DEF new
<1>10. A \in Nat /\ N + A <= MAX_NODE_COUNT
  <2>1. MAX_NODE_COUNT - N \in Nat
    BY <1>2
  <2>2. A \in Nat /\ A <= MAX_NODE_COUNT - N
    BY <1>6, <1>7, <2>1, CutFits
  <2> QED  BY <1>2, <2>2
<1>11. /\ Extends(map, map \o entries) /\ Len(map \o entries) = N + A
       /\ \A id \in new : /\ N + Rank(new, id) \in Indices
                          /\ Holds(map \o entries, id, N + Rank(new, id))
  <2>1. new \in SUBSET Nodes
    BY <1>6, <1>8
  <2>2. \A i \in DOMAIN map : map[i].id \notin new
    BY <1>4, <1>5, <1>8
  <2>3. Len(map) + Cardinality(new) <= MAX_NODE_COUNT
    BY <1>2, <1>10
  <2>4. N = Len(map)
    BY <1>2
  <2>5. entries = Joined(map, new)
    BY <2>4 DEF Joined
  <2> HIDE DEF map, N, A, entries
  <2>6. TableOK(map) /\ A = Cardinality(new)
    BY DEF map, A
  <2> QED  BY <2>1, <2>2, <2>3, <2>4, <2>5, <2>6, TableGrows, Zenon
<1>12. ASSUME NEW id \in s.slot
       PROVE  index[id] \in Indices /\ (Room => Holds(map \o entries, id, index[id]))
  <2>1. index[id] = place(id)
    OBVIOUS
  <2>2. CASE id \notin fresh
    <3>1. index[id] = found[id] /\ Holds(map, id, found[id])
      BY <1>4, <2>1, <2>2
    <3>2. Holds(map \o entries, id, index[id])
      BY <1>11, <3>1 DEF Extends
    <3>3. found[id] \in Indices
      <4>1. PICK i \in DOMAIN map : map[i] = [id |-> id, idx |-> found[id]]
        BY <3>1 DEF Holds
      <4>2. map[i] \in Entries
        BY <1>2
      <4> QED  BY <4>1, <4>2 DEF Entries
    <3> QED  BY <3>1, <3>2, <3>3
  <2>3. CASE id \in new
    BY <1>8, <1>11, <2>1, <2>3
  <2>4. CASE id \in fresh /\ id \notin new
    <3>1. ~Room
      BY <1>9, <2>4
    <3>2. index[id] = 0
      BY <2>1, <2>4
    <3>3. 0 \in Indices
      BY <1>2 DEF Indices, JoinAssumption
    <3> QED  BY <3>1, <3>2, <3>3
  <2> QED  BY <2>2, <2>3, <2>4
<1>13. DOMAIN index = s.slot
  OBVIOUS
<1>14. index \in IndexLists
  <2>1. index \in [s.slot -> Indices]
    BY <1>12
  <2> HIDE DEF index
  <2> QED  BY <1>3, <2>1 DEF IndexLists
<1> HIDE DEF index, entries, A, full, done, t
<1>15. Places(map \o entries, s.slot, index)
  BY <1>12, <1>13 DEF Places
<1>16. map \o entries \in Seq(Entries)
  BY <1>11 DEF Extends, TableOK
<1>17. full \in BOOLEAN /\ done \in BOOLEAN /\ (done => s.complete)
  BY DEF full, done
<1>18. N + A \in 0..MAX_NODE_COUNT
  BY <1>2, <1>10
<1> DEFINE m == map \o entries
           c == N + A
<1> HIDE DEF m, c
<1>19. /\ t.map = m /\ t.node_count = c /\ t.pkt_count = c
       /\ t.index = index /\ t.commit /\ t.flags = {s.own}
       /\ t.slot = s.slot /\ t.own = s.own
  BY <1>1 DEF JoinNode, m, c
<1>20. t.complete = done /\ t.has_index = s.has_index
  BY <1>1 DEF JoinNode
<1>21. t \in JoinNode
  <2> DEFINE flags == {s.own}
  <2>1. flags \in SUBSET Indices
    BY DEF JoinNode
  <2>2. 0 \in 0..CHAOS_RESTART_MAX
    BY ChaosAssumption DEF ChaosAssumption
  <2>3. m \in Seq(Entries) /\ c \in 0..MAX_NODE_COUNT
    BY <1>16, <1>18 DEF m, c
  <2>4. t = [s EXCEPT !.map = m, !.node_count = c,
                      !.pkt_count = c, !.index = index, !.overflow = full,
                      !.commit = TRUE, !.flags = flags, !.complete = done,
                      !.state = "TX", !.invalid_rx_count = 0]
    BY <1>1, Zenon DEF m, c
  <2> HIDE DEF flags
  <2> QED  BY <1>14, <1>17, <2>1, <2>2, <2>3, <2>4 DEF JoinNode
<1>22. Extends(s.map, m) /\ Places(m, s.slot, index) /\ c = Len(m)
  BY <1>11, <1>15 DEF m, c
<1> QED  BY <1>17, <1>19, <1>20, <1>21, <1>22 DEF Committed, t

-----------------------------------------------------------------------------
(* What a reception does to a node. The table and the radio are left alone. *)
RadioSame(s, w) ==
  /\ w.state = s.state /\ w.map = s.map
  /\ w.tx_count_complete = s.tx_count_complete
  /\ w.invalid_rx_count = s.invalid_rx_count
  /\ w.tx_timeout_enabled <=> s.tx_timeout_enabled

Short(slot) == IsFiniteSet(slot) /\ Cardinality(slot) <= NODE_LIST_LEN

CountsUp(s, p, w) ==
  /\ w.pkt_count \in {s.pkt_count, p.pkt_count}
  /\ w.pkt_count >= s.pkt_count

OwnSame(s, w) == w.own = s.own /\ (w.has_index <=> s.has_index)

(* Nobody has committed: the lists are merged, or nothing is. *)
Gathers(n, s, p, w) ==
  /\ w \in JoinNode /\ RadioSame(s, w) /\ OwnSame(s, w) /\ CountsUp(s, p, w)
  /\ ~w.commit /\ (w.complete <=> s.complete) /\ w.node_count = s.node_count
  /\ n \in s.slot => n \in w.slot \/ w.overflow
  /\ s.overflow => w.overflow
  /\ Short(s.slot) => Short(w.slot)

(* The node takes over a commit. *)
Adopts(n, s, p, w) ==
  /\ w \in JoinNode /\ RadioSame(s, w)
  /\ w.commit /\ (w.complete <=> s.complete)
  /\ w.node_count = p.pkt_count /\ w.pkt_count = p.pkt_count
  /\ w.slot = p.slot /\ w.index = p.index
  /\ s.has_index => w.has_index /\ w.own = s.own
  /\ ~s.has_index /\ w.has_index => n \in p.slot /\ w.own = p.index[n]
  /\ ~w.has_index => w.overflow
  /\ \A f \in w.flags : f \in p.flags \/ (w.has_index /\ f = w.own)

(* The node has committed already. *)
Confirms(s, p, w) ==
  /\ w \in JoinNode /\ RadioSame(s, w) /\ OwnSame(s, w) /\ CountsUp(s, p, w)
  /\ w.commit /\ w.node_count = s.node_count
  /\ w.slot = s.slot /\ w.index = s.index
  /\ s.overflow => w.overflow
  /\ s.flags \subseteq w.flags
  /\ \A f \in w.flags : f \in s.flags \/ (p.commit /\ f \in p.flags)
  /\ w.complete => s.complete \/ (p.commit /\ 0..(p.pkt_count - 1) \subseteq w.flags)

LEMMA MaxOfTwo ==
  ASSUME NEW a \in Nat, NEW b \in Nat
  PROVE  Max({a, b}) \in {a, b} /\ Max({a, b}) >= a
<1>1. \E x \in {a, b} : \A y \in {a, b} : x >= y
  BY a >= b \/ b >= a
<1> QED  BY <1>1 DEF Max

(* The first lines of a reception, before the cases. *)
Heard(s, p, w) ==
  /\ w \in JoinNode /\ RadioSame(s, w) /\ OwnSame(s, w) /\ CountsUp(s, p, w)
  /\ (w.commit <=> s.commit) /\ (w.complete <=> s.complete)
  /\ w.node_count = s.node_count /\ w.slot = s.slot /\ w.index = s.index
  /\ w.flags = s.flags /\ (s.overflow => w.overflow)

LEMMA HeardEffect ==
  ASSUME JoinAssumption, NEW s \in JoinNode, NEW p \in JoinNode
  PROVE  Heard(s, p, [s EXCEPT !.overflow = @ \/ p.overflow,
                               !.pkt_count = Max({@, p.pkt_count})])
<1> DEFINE full == s.overflow \/ p.overflow
           c == Max({s.pkt_count, p.pkt_count})
           w == [s EXCEPT !.overflow = full, !.pkt_count = c]
<1>1. full \in BOOLEAN /\ (s.overflow => full)
  BY DEF JoinNode
<1>2. c \in {s.pkt_count, p.pkt_count} /\ c >= s.pkt_count
      /\ c \in 0..MAX_NODE_COUNT
  <2>1. s.pkt_count \in 0..MAX_NODE_COUNT /\ p.pkt_count \in 0..MAX_NODE_COUNT
    BY DEF JoinNode
  <2> HIDE DEF c
  <2>2. s.pkt_count \in Nat /\ p.pkt_count \in Nat
    BY <2>1 DEF JoinAssumption
  <2>3. c \in {s.pkt_count, p.pkt_count} /\ c >= s.pkt_count
    BY <2>2, MaxOfTwo DEF c
  <2> QED  BY <2>1, <2>3
<1> HIDE DEF full, c
<1>3. w \in JoinNode
  BY <1>1, <1>2 DEF JoinNode
<1>4. RadioSame(s, w)
  BY DEF JoinNode, RadioSame
<1>5. OwnSame(s, w)
  BY DEF JoinNode, OwnSame
<1>6. CountsUp(s, p, w)
  BY <1>2 DEF JoinNode, CountsUp
<1>7. (w.commit <=> s.commit) /\ (w.complete <=> s.complete)
  BY DEF JoinNode
<1>8. /\ w.node_count = s.node_count /\ w.slot = s.slot /\ w.index = s.index
      /\ w.flags = s.flags
  BY DEF JoinNode
<1>9. s.overflow => w.overflow
  BY <1>1 DEF JoinNode
<1>10. Heard(s, p, w)
  BY <1>3, <1>4, <1>5, <1>6, <1>7, <1>8, <1>9 DEF Heard
<1> QED  BY <1>10 DEF full, c

(* Flags and lists that are merged. *)
LEMMA MergeFlagsEffect ==
  ASSUME NEW s \in JoinNode, NEW p \in JoinNode
  PROVE  \E flags \in SUBSET Indices :
           /\ merge_flags(s, p) = [s EXCEPT !.flags = flags]
           /\ s.flags \subseteq flags /\ flags \subseteq s.flags \cup p.flags
<1>1. s.flags \in SUBSET Indices /\ p.flags \in SUBSET Indices
  BY DEF JoinNode
<1>2. CASE p.pkt_count > 0
  <2> DEFINE flags == s.flags \cup p.flags
  <2>1. merge_flags(s, p) = [s EXCEPT !.flags = flags]
    BY <1>2 DEF merge_flags
  <2> QED  BY <1>1, <2>1
<1>3. CASE ~(p.pkt_count > 0)
  <2> DEFINE flags == s.flags
  <2>1. s = [s EXCEPT !.flags = flags]
    BY DEF JoinNode
  <2>2. merge_flags(s, p) = [s EXCEPT !.flags = flags]
    BY <1>3, <2>1 DEF merge_flags
  <2> QED  BY <1>1, <2>2
<1> QED  BY <1>2, <1>3

LEMMA MergeListsEffect ==
  ASSUME JoinAssumption, NEW s \in JoinNode, NEW p \in JoinNode
  PROVE  \E slot \in SUBSET Others, full \in BOOLEAN :
           /\ merge_lists(s, p) = [s EXCEPT !.slot = slot, !.overflow = full]
           /\ Short(slot)
           /\ \A n \in s.slot : n \in slot \/ full
           /\ s.overflow => full
<1> DEFINE all == s.slot \cup p.slot
           slot == Cut(all, NODE_LIST_LEN)
           full == s.overflow \/ slot # all
<1>1. all \in SUBSET Others /\ all \in SUBSET Nat /\ IsFiniteSet(all)
  <2>1. all \in SUBSET Others
    BY DEF JoinNode
  <2>2. Others \in SUBSET Nodes /\ Nodes \in SUBSET Nat /\ IsFiniteSet(Nodes)
    BY ChaosAssumption DEF Others, ChaosAssumption
  <2> HIDE DEF all
  <2> QED  BY <2>1, <2>2, FS_Subset
<1>2. merge_lists(s, p) = [s EXCEPT !.slot = slot, !.overflow = full]
  BY Zenon DEF merge_lists, Cut
<1>3. Short(slot)
  <2> HIDE DEF all
  <2> QED  BY <1>1, CutFits DEF Short, JoinAssumption
<1>4. slot \in SUBSET Others
  BY <1>1 DEF Cut
<1>5. full \in BOOLEAN /\ (s.overflow => full)
  BY DEF JoinNode
<1>6. \A n \in s.slot : n \in slot \/ full
  OBVIOUS
<1> HIDE DEF slot, full
<1> QED  BY <1>2, <1>3, <1>4, <1>5, <1>6

LEMMA CollectEffect ==
  ASSUME JoinAssumption, NEW n, NEW s \in JoinNode, NEW p \in JoinNode,
         NEW w, Heard(s, p, w), ~s.commit, NEW delta, NEW second
  PROVE  Gathers(n, s, p, Collect(n, w, p, delta, second).s)
<1>0. w \in JoinNode
  BY DEF Heard
<1>1. CASE n = Initiator \/ ~second
  <2> DEFINE v == merge_flags(w, p)
  <2>1. PICK flags \in SUBSET Indices : v = [w EXCEPT !.flags = flags]
    BY <1>0, MergeFlagsEffect
  <2> HIDE DEF v
  <2>2. v \in JoinNode
    BY <1>0, <2>1 DEF JoinNode
  <2>3. PICK slot \in SUBSET Others, full \in BOOLEAN :
          /\ merge_lists(v, p) = [v EXCEPT !.slot = slot, !.overflow = full]
          /\ Short(slot)
          /\ \A m \in v.slot : m \in slot \/ full
          /\ v.overflow => full
    BY <2>2, MergeListsEffect
  <2> DEFINE u == merge_lists(v, p)
  <2>4. Collect(n, w, p, delta, second).s = u
    BY <1>1 DEF Collect, v
  <2> HIDE DEF u
  <2>5. u = [[w EXCEPT !.flags = flags] EXCEPT !.slot = slot, !.overflow = full]
    BY <2>1, <2>3 DEF u
  <2>6. u \in JoinNode
    BY <1>0, <2>5 DEF JoinNode
  <2>7. RadioSame(s, u)
    BY <1>0, <2>5 DEF Heard, RadioSame, JoinNode
  <2>8. OwnSame(s, u)
    BY <1>0, <2>5 DEF Heard, OwnSame, JoinNode
  <2>9. CountsUp(s, p, u) /\ u.node_count = s.node_count
    BY <1>0, <2>5 DEF Heard, CountsUp, JoinNode
  <2>10. ~u.commit
    BY <1>0, <2>5 DEF Heard, JoinNode
  <2>11. u.complete <=> s.complete
    BY <1>0, <2>5 DEF Heard, JoinNode
  <2>12. u.slot = slot /\ v.slot = s.slot
    BY <1>0, <2>1, <2>5 DEF Heard, JoinNode
  <2>13. u.overflow = full
    BY <1>0, <2>5 DEF JoinNode
  <2>14. s.overflow => v.overflow
    BY <1>0, <2>1 DEF Heard, JoinNode
  <2>15. Gathers(n, s, p, u)
    BY <2>3, <2>6, <2>7, <2>8, <2>9, <2>10, <2>11, <2>12, <2>13, <2>14
       DEF Gathers
  <2> QED  BY <2>4, <2>15
<1>2. CASE ~(n = Initiator \/ ~second)
  <2>1. Collect(n, w, p, delta, second).s = w
    BY <1>2 DEF Collect
  <2>2. Gathers(n, s, p, w)
    BY DEF Heard, Gathers
  <2> QED  BY <2>1, <2>2
<1> QED  BY <1>1, <1>2

LEMMA AdoptEffect ==
  ASSUME JoinAssumption, NEW n, NEW s \in JoinNode, NEW p \in JoinNode,
         NEW w, Heard(s, p, w), n \in p.slot => p.index[n] \in Indices
  PROVE  Adopts(n, s, p, Adopt(n, w, p))
<1> DEFINE listed == ~w.has_index /\ n \in p.slot
           own == IF listed THEN p.index[n] ELSE w.own
           has == w.has_index \/ listed
           flags == IF has THEN p.flags \cup {own} ELSE p.flags
           full == p.overflow \/ ~has
           u == Adopt(n, w, p)
<1>1. w \in JoinNode /\ w.own = s.own /\ (w.has_index <=> s.has_index)
  BY DEF Heard, OwnSame
<1>2. u = [w EXCEPT !.node_count = p.pkt_count, !.pkt_count = p.pkt_count,
                    !.slot = p.slot, !.index = p.index, !.commit = TRUE,
                    !.own = own, !.has_index = has, !.flags = flags,
                    !.overflow = full]
  BY Zenon DEF Adopt
<1>3. own \in Indices
  BY <1>1 DEF JoinNode
<1>4. has \in BOOLEAN
  BY <1>1 DEF JoinNode
<1>5. full \in BOOLEAN /\ (~has => full)
  BY DEF JoinNode
<1>6. flags \in SUBSET Indices
  BY <1>3 DEF JoinNode
<1>7. \A f \in flags : f \in p.flags \/ (has /\ f = own)
  OBVIOUS
<1>8. (s.has_index => has /\ own = s.own)
      /\ (~s.has_index /\ has => n \in p.slot /\ own = p.index[n])
  BY <1>1
<1> HIDE DEF own, has, full, flags, u
<1>9. u \in JoinNode
  BY <1>1, <1>2, <1>3, <1>4, <1>5, <1>6 DEF JoinNode
<1>10. RadioSame(s, u)
  BY <1>1, <1>2 DEF Heard, RadioSame, JoinNode
<1>11. u.commit
  BY <1>1, <1>2 DEF JoinNode
<1>12. u.complete <=> s.complete
  BY <1>1, <1>2 DEF Heard, JoinNode
<1>13. /\ u.node_count = p.pkt_count /\ u.pkt_count = p.pkt_count
       /\ u.slot = p.slot /\ u.index = p.index /\ u.own = own /\ u.flags = flags
  BY <1>1, <1>2 DEF JoinNode
<1>14. u.has_index = has /\ u.overflow = full
  BY <1>1, <1>2 DEF JoinNode
<1>15. Adopts(n, s, p, u)
  BY <1>5, <1>7, <1>8, <1>9, <1>10, <1>11, <1>12, <1>13, <1>14 DEF Adopts
<1> QED  BY <1>15 DEF u

LEMMA ConfirmEffect ==
  ASSUME JoinAssumption, NEW s \in JoinNode, NEW p \in JoinNode,
         NEW w, Heard(s, p, w), s.commit, p.commit, NEW delta
  PROVE  Confirms(s, p, Confirm(w, p, delta).s)
<1>0. w \in JoinNode
  BY DEF Heard
<1> DEFINE v == merge_flags(w, p)
<1>1. PICK flags \in SUBSET Indices :
        /\ v = [w EXCEPT !.flags = flags]
        /\ w.flags \subseteq flags /\ flags \subseteq w.flags \cup p.flags
  BY <1>0, MergeFlagsEffect
<1> DEFINE done == v.complete \/ 0..(p.pkt_count - 1) \subseteq v.flags
           u == Confirm(w, p, delta).s
<1>2. u = [v EXCEPT !.complete = done]
  BY DEF Confirm
<1>3. v.flags = flags
  BY <1>0, <1>1 DEF JoinNode
<1>4. v.complete <=> s.complete
  BY <1>0, <1>1 DEF Heard, JoinNode
<1> HIDE DEF v
<1>5. done \in BOOLEAN /\ (done => s.complete \/ 0..(p.pkt_count - 1) \subseteq flags)
  BY <1>3, <1>4
<1> HIDE DEF done, u
<1>6. u = [[w EXCEPT !.flags = flags] EXCEPT !.complete = done]
  BY <1>1, <1>2
<1>7. u \in JoinNode
  BY <1>0, <1>5, <1>6 DEF JoinNode
<1>8. RadioSame(s, u)
  BY <1>0, <1>6 DEF Heard, RadioSame, JoinNode
<1>9. OwnSame(s, u)
  BY <1>0, <1>6 DEF Heard, OwnSame, JoinNode
<1>10. CountsUp(s, p, u) /\ u.node_count = s.node_count
       /\ u.slot = s.slot /\ u.index = s.index /\ u.flags = flags
  BY <1>0, <1>6 DEF Heard, CountsUp, JoinNode
<1>11. u.commit
  BY <1>0, <1>6 DEF Heard, JoinNode
<1>12. s.overflow => u.overflow
  BY <1>0, <1>6 DEF Heard, JoinNode
<1>13. u.complete = done
  BY <1>0, <1>6 DEF JoinNode
<1>14. w.flags = s.flags
  BY DEF Heard
<1>15. Confirms(s, p, u)
  BY <1>1, <1>5, <1>7, <1>8, <1>9, <1>10, <1>11, <1>12, <1>13, <1>14
     DEF Confirms
<1> QED  BY <1>15 DEF u

(* A reception, by who has committed. *)
LEMMA ReceiveEffect ==
  ASSUME JoinAssumption, NEW n, NEW s \in JoinNode, NEW p \in JoinNode,
         NEW second, p.commit /\ n \in p.slot => p.index[n] \in Indices
  PROVE  /\ ~s.commit /\ ~p.commit => Gathers(n, s, p, Receive(n, s, p, second).s)
         /\ ~s.commit /\ p.commit => Adopts(n, s, p, Receive(n, s, p, second).s)
         /\ s.commit => Confirms(s, p, Receive(n, s, p, second).s)
<1> DEFINE w == [s EXCEPT !.overflow = @ \/ p.overflow,
                          !.pkt_count = Max({@, p.pkt_count})]
           delta == s.overflow # p.overflow
<1>1. Heard(s, p, w)
  BY HeardEffect
<1>2. Receive(n, s, p, second) =
        CASE ~s.commit /\ ~p.commit -> Collect(n, w, p, delta, second)
          [] ~s.commit /\ p.commit -> [s |-> Adopt(n, w, p), delta |-> TRUE]
          [] s.commit /\ p.commit -> Confirm(w, p, delta)
          [] s.commit /\ ~p.commit -> [s |-> w, delta |-> TRUE]
  BY Zenon DEF Receive
<1> HIDE DEF w, delta
<1>3. CASE ~s.commit /\ ~p.commit
  <2>1. Receive(n, s, p, second) = Collect(n, w, p, delta, second)
    BY <1>2, <1>3
  <2> QED  BY <1>1, <1>3, <2>1, CollectEffect
<1>4. CASE ~s.commit /\ p.commit
  <2>1. Receive(n, s, p, second) = [s |-> Adopt(n, w, p), delta |-> TRUE]
    BY <1>2, <1>4
  <2>2. Receive(n, s, p, second).s = Adopt(n, w, p)
    BY <2>1
  <2> QED  BY <1>1, <1>4, <2>2, AdoptEffect
<1>5. CASE s.commit /\ p.commit
  <2>1. Receive(n, s, p, second) = Confirm(w, p, delta)
    BY <1>2, <1>5
  <2> QED  BY <1>1, <1>5, <2>1, ConfirmEffect
<1>6. CASE s.commit /\ ~p.commit
  <2>1. Receive(n, s, p, second) = [s |-> w, delta |-> TRUE]
    BY <1>2, <1>6
  <2>2. Receive(n, s, p, second).s = w
    BY <2>1
  <2>3. w.commit /\ (w.complete <=> s.complete)
    BY <1>1, <1>6 DEF Heard
  <2>4. Confirms(s, p, w)
    BY <1>1, <1>6, <2>3 DEF Heard, Confirms
  <2> QED  BY <1>6, <2>2, <2>4
<1> QED  BY <1>3, <1>4, <1>5, <1>6

-----------------------------------------------------------------------------
(* The end of process(): the radio, and the table that is sorted when the
   radio goes off. *)
CoreSame(w, t) ==
  /\ OwnSame(w, t) /\ t.node_count = w.node_count /\ t.pkt_count = w.pkt_count
  /\ t.slot = w.slot /\ t.index = w.index /\ t.flags = w.flags
  /\ (t.overflow <=> w.overflow) /\ (t.commit <=> w.commit)
  /\ (t.complete <=> w.complete)

Moved(w, t) ==
  /\ t \in JoinNode /\ CoreSame(w, t)
  /\ t.map = w.map \/ t.map = Sorted(w.map)

(* Only fields of the radio change. *)
LEMMA RadioMoves ==
  ASSUME NEW w \in JoinNode, NEW state \in {"TX", "RX", "OFF"},
         NEW silent \in 0..CHAOS_RESTART_MAX, NEW count \in 0..N_TX_COMPLETE,
         NEW enabled \in BOOLEAN
  PROVE  Moved(w, [w EXCEPT !.invalid_rx_count = silent,
                            !.tx_timeout_enabled = enabled, !.state = state,
                            !.tx_count_complete = count])
<1> DEFINE t == [w EXCEPT !.invalid_rx_count = silent,
                          !.tx_timeout_enabled = enabled, !.state = state,
                          !.tx_count_complete = count]
<1>1. t \in JoinNode
  BY DEF JoinNode
<1>2. OwnSame(w, t)
  BY DEF JoinNode, OwnSame
<1>3. /\ t.node_count = w.node_count /\ t.pkt_count = w.pkt_count
      /\ t.slot = w.slot /\ t.index = w.index /\ t.flags = w.flags
      /\ t.map = w.map
  BY DEF JoinNode
<1>4. /\ (t.overflow <=> w.overflow) /\ (t.commit <=> w.commit)
      /\ (t.complete <=> w.complete)
  BY DEF JoinNode
<1> QED  BY <1>1, <1>2, <1>3, <1>4 DEF Moved, CoreSame

LEMMA StayMoves ==
  ASSUME NEW w \in JoinNode
  PROVE  Moved(w, w)
BY DEF Moved, CoreSame, OwnSame

LEMMA AfterRxEffect ==
  ASSUME NEW w \in JoinNode, NEW delta
  PROVE  Moved(w, AfterRx(w, delta))
<1> DEFINE tx == delta \/ w.complete \/ ~w.tx_timeout_enabled
           counted == IF delta THEN 0 ELSE w.tx_count_complete
           state == IF tx THEN "TX" ELSE "RX"
           count == IF w.complete /\ tx /\ counted < N_TX_COMPLETE
                    THEN counted + 1 ELSE counted
<1>1. AfterRx(w, delta) =
        [w EXCEPT !.invalid_rx_count = 0, !.tx_timeout_enabled = TRUE,
                  !.state = state, !.tx_count_complete = count]
  BY Zenon DEF AfterRx
<1>2. w.tx_count_complete \in 0..N_TX_COMPLETE
  BY DEF JoinNode
<1>3. N_TX_COMPLETE \in Nat /\ 0 \in 0..CHAOS_RESTART_MAX
  BY ChaosAssumption DEF ChaosAssumption
<1>4. counted \in 0..N_TX_COMPLETE
  BY <1>2, <1>3
<1>5. state \in {"TX", "RX", "OFF"}
  OBVIOUS
<1> HIDE DEF counted, tx
<1>6. count \in 0..N_TX_COMPLETE
  BY <1>3, <1>4
<1> HIDE DEF state, count
<1>7. \A enabled \in BOOLEAN :
        Moved(w, [w EXCEPT !.invalid_rx_count = 0,
                           !.tx_timeout_enabled = enabled, !.state = state,
                           !.tx_count_complete = count])
  BY <1>3, <1>5, <1>6, RadioMoves
<1>8. TRUE \in BOOLEAN
  OBVIOUS
<1> QED  BY <1>1, <1>7, <1>8, Zenon

LEMMA AfterSilenceEffect ==
  ASSUME NEW w \in JoinNode, NEW threshold \in Thresholds, w.state = "RX"
  PROVE  Moved(w, AfterSilence(w, threshold))
<1>1. /\ w.tx_count_complete \in 0..N_TX_COMPLETE
      /\ w.invalid_rx_count \in 0..CHAOS_RESTART_MAX
      /\ w.tx_timeout_enabled \in BOOLEAN
  BY DEF JoinNode
<1>2. /\ N_TX_COMPLETE \in Nat /\ CHAOS_RESTART_MAX \in Nat
      /\ threshold \in Int /\ threshold <= CHAOS_RESTART_MAX - 1
      /\ 0 \in 0..CHAOS_RESTART_MAX
  BY ChaosAssumption DEF ChaosAssumption, Thresholds
<1>3. CASE ~w.tx_timeout_enabled
  BY <1>3, StayMoves DEF AfterSilence
<1>4. CASE w.tx_timeout_enabled /\ w.invalid_rx_count >= threshold
  <2> DEFINE count == CountTx(w, N_TX_COMPLETE)
  <2>1. count \in 0..N_TX_COMPLETE
    BY <1>1, <1>2 DEF CountTx
  <2>2. AfterSilence(w, threshold) =
          [w EXCEPT !.state = "TX", !.invalid_rx_count = 0,
                    !.tx_count_complete = count]
    BY <1>4 DEF AfterSilence
  <2> HIDE DEF count
  <2>3. [w EXCEPT !.state = "TX", !.invalid_rx_count = 0,
                  !.tx_count_complete = count] =
        [w EXCEPT !.invalid_rx_count = 0,
                  !.tx_timeout_enabled = w.tx_timeout_enabled, !.state = "TX",
                  !.tx_count_complete = count]
    BY DEF JoinNode
  <2>4. Moved(w, [w EXCEPT !.invalid_rx_count = 0,
                  !.tx_timeout_enabled = w.tx_timeout_enabled, !.state = "TX",
                  !.tx_count_complete = count])
    BY <1>1, <1>2, <2>1, RadioMoves
  <2> QED  BY <2>2, <2>3, <2>4, Zenon
<1>5. CASE w.tx_timeout_enabled /\ ~(w.invalid_rx_count >= threshold)
  <2> DEFINE silent == w.invalid_rx_count + 1
  <2>1. silent \in 0..CHAOS_RESTART_MAX
    BY <1>1, <1>2, <1>5
  <2>2. AfterSilence(w, threshold) = [w EXCEPT !.invalid_rx_count = silent]
    BY <1>5 DEF AfterSilence
  <2> HIDE DEF silent
  <2>3. [w EXCEPT !.invalid_rx_count = silent] =
        [w EXCEPT !.invalid_rx_count = silent,
                  !.tx_timeout_enabled = w.tx_timeout_enabled,
                  !.state = w.state,
                  !.tx_count_complete = w.tx_count_complete]
    BY DEF JoinNode
  <2>4. Moved(w, [w EXCEPT !.invalid_rx_count = silent,
                  !.tx_timeout_enabled = w.tx_timeout_enabled,
                  !.state = w.state,
                  !.tx_count_complete = w.tx_count_complete])
    BY <1>1, <2>1, RadioMoves
  <2> QED  BY <2>2, <2>3, <2>4, Zenon
<1> QED  BY <1>3, <1>4, <1>5

LEMMA AfterTxEffect ==
  ASSUME NEW w \in JoinNode, IdsDiffer(w.map)
  PROVE  Moved(w, AfterTx(w))
<1>1. CASE w.complete /\ w.tx_count_complete >= N_TX_COMPLETE
  <2> DEFINE map == Sorted(w.map)
             t == [w EXCEPT !.state = "OFF", !.map = map]
  <2>1. AfterTx(w) = t
    BY <1>1 DEF AfterTx
  <2>2. map \in Seq(Entries)
    BY SortedTable DEF JoinNode
  <2> HIDE DEF map
  <2>3. t \in JoinNode
    BY <2>2 DEF JoinNode
  <2>4. OwnSame(w, t)
    BY DEF JoinNode, OwnSame
  <2>5. /\ t.node_count = w.node_count /\ t.pkt_count = w.pkt_count
        /\ t.slot = w.slot /\ t.index = w.index /\ t.flags = w.flags
        /\ t.map = map
    BY DEF JoinNode
  <2>6. /\ (t.overflow <=> w.overflow) /\ (t.commit <=> w.commit)
        /\ (t.complete <=> w.complete)
    BY DEF JoinNode
  <2> QED  BY <2>1, <2>3, <2>4, <2>5, <2>6 DEF Moved, CoreSame, map
<1>2. CASE ~(w.complete /\ w.tx_count_complete >= N_TX_COMPLETE)
  <2> DEFINE t == [w EXCEPT !.state = "RX"]
  <2>1. AfterTx(w) = t
    BY <1>2 DEF AfterTx
  <2>3. t \in JoinNode
    BY DEF JoinNode
  <2>4. OwnSame(w, t)
    BY DEF JoinNode, OwnSame
  <2>5. /\ t.node_count = w.node_count /\ t.pkt_count = w.pkt_count
        /\ t.slot = w.slot /\ t.index = w.index /\ t.flags = w.flags
        /\ t.map = w.map
    BY DEF JoinNode
  <2>6. /\ (t.overflow <=> w.overflow) /\ (t.commit <=> w.commit)
        /\ (t.complete <=> w.complete)
    BY DEF JoinNode
  <2> QED  BY <2>1, <2>3, <2>4, <2>5, <2>6 DEF Moved, CoreSame
<1> QED  BY <1>1, <1>2

-----------------------------------------------------------------------------
(* The inductive invariant. *)
Table == node[Initiator].map

Typed ==
  /\ node \in [Nodes -> JoinNode] /\ late \in BOOLEAN
  /\ \A n \in Nodes : Short(node[n].slot)

(* The initiator's table is a one to one assignment, in order until the
   commit of the round. *)
TableInv ==
  /\ TableOK(Table) /\ Holds(Table, Initiator, 0)
  /\ node[Initiator].node_count = Len(Table)
  /\ ~node[Initiator].commit => InOrder(Table)
  /\ node[Initiator].has_index /\ node[Initiator].own = 0
  /\ \A n \in Others : node[n].map = <<>>

(* A node that has committed has the initiator's list, and its count. *)
CommitInv ==
  \A n \in Nodes :
    /\ node[n].pkt_count <= Len(Table)
    /\ node[n].commit =>
         /\ node[Initiator].commit
         /\ node[n].pkt_count = Len(Table) /\ node[n].node_count = Len(Table)
         /\ node[n].slot = node[Initiator].slot
         /\ node[n].index = node[Initiator].index

(* The places of the list, and the indices that nodes use, are those of the
   table. *)
PlacesInv ==
  node[Initiator].commit =>
    Places(Table, node[Initiator].slot, node[Initiator].index)

OwnInv ==
  \A n \in Nodes : node[n].has_index /\ Room => Holds(Table, n, node[n].own)

(* A flag seen after the commit is that of a node that has committed. *)
Stands(f) ==
  \E m \in Nodes : node[m].has_index /\ node[m].commit /\ node[m].own = f

FlagsInv ==
  \A n \in Nodes : node[n].commit => \A f \in node[n].flags : Stands(f)

CompleteInv ==
  \A n \in Nodes : node[n].complete =>
    node[n].commit /\ 0..(Len(Table) - 1) \subseteq node[n].flags

JoinInv ==
  /\ Typed /\ TableInv /\ CommitInv /\ PlacesInv /\ OwnInv
  /\ FlagsInv /\ CompleteInv /\ NobodyForgotten

-----------------------------------------------------------------------------
(* The beginning of a round at a node. *)
Begins(n, s, t) ==
  /\ t \in JoinNode /\ Short(t.slot)
  /\ OwnSame(s, t) /\ t.node_count = s.node_count /\ t.map = s.map
  /\ ~t.commit /\ ~t.complete
  /\ t.pkt_count = 0 \/ (n = Initiator /\ t.pkt_count = s.node_count)
  /\ n = Initiator \/ t.has_index \/ n \in t.slot

LEMMA BeginEffect ==
  ASSUME JoinAssumption, NEW n \in Nodes, NEW s, s.has_index \in BOOLEAN,
         s.own \in Indices, s.node_count \in 0..MAX_NODE_COUNT,
         s.map \in Seq(Entries), s.invalid_rx_count \in 0..CHAOS_RESTART_MAX
  PROVE  Begins(n, s, RoundBegin(n, s))
<1> DEFINE first == n = Initiator
           known == first \/ s.has_index
           count == IF first THEN s.node_count ELSE 0
           slot == IF known THEN {} ELSE {n}
           flags == IF known THEN {s.own} ELSE {}
           silent == IF first THEN s.invalid_rx_count ELSE 0
           state == IF first THEN "TX" ELSE "RX"
           t == RoundBegin(n, s)
<1>1. t = [has_index |-> s.has_index, own |-> s.own,
           node_count |-> s.node_count, map |-> s.map, pkt_count |-> count,
           slot |-> slot, index |-> <<>>, flags |-> flags, overflow |-> FALSE,
           commit |-> FALSE, complete |-> FALSE, tx_count_complete |-> 0,
           invalid_rx_count |-> silent, tx_timeout_enabled |-> first,
           state |-> state]
  BY Zenon DEF RoundBegin
<1>2. count \in 0..MAX_NODE_COUNT
  BY DEF JoinAssumption
<1>3. slot \in SUBSET Others
  BY DEF Others
<1>4. Short(slot)
  <2>1. NODE_LIST_LEN \in Nat /\ NODE_LIST_LEN >= 1
    BY DEF JoinAssumption
  <2>2. slot = {} \/ slot = {n}
    OBVIOUS
  <2> HIDE DEF slot
  <2>3. slot = {} => Short(slot)
    BY <2>1, FS_EmptySet DEF Short
  <2>4. slot = {n} => Short(slot)
    BY <2>1, FS_Singleton DEF Short
  <2> QED  BY <2>2, <2>3, <2>4
<1>5. <<>> \in IndexLists
  <2>1. <<>> \in [{} -> Indices]
    OBVIOUS
  <2> QED  BY <2>1 DEF IndexLists
<1>6. flags \in SUBSET Indices
  OBVIOUS
<1>7. silent \in 0..CHAOS_RESTART_MAX
  BY ChaosAssumption DEF ChaosAssumption
<1>8. first \in BOOLEAN /\ state \in {"TX", "RX", "OFF"}
  OBVIOUS
<1>9. 0 \in 0..N_TX_COMPLETE
  BY ChaosAssumption DEF ChaosAssumption
<1>10. known \/ n \in slot
  OBVIOUS
<1>11. count = 0 \/ (n = Initiator /\ count = s.node_count)
  OBVIOUS
<1> DEFINE none == <<>>
<1>12. none \in IndexLists
  BY <1>5
<1>13. t = [has_index |-> s.has_index, own |-> s.own,
            node_count |-> s.node_count, map |-> s.map, pkt_count |-> count,
            slot |-> slot, index |-> none, flags |-> flags, overflow |-> FALSE,
            commit |-> FALSE, complete |-> FALSE, tx_count_complete |-> 0,
            invalid_rx_count |-> silent, tx_timeout_enabled |-> first,
            state |-> state]
  BY <1>1
<1> HIDE DEF none, count, slot, flags, silent, state, t, first
<1>14. t \in JoinNode
  BY <1>2, <1>3, <1>12, <1>6, <1>7, <1>8, <1>9, <1>13 DEF JoinNode
<1>15. /\ t.own = s.own /\ t.node_count = s.node_count /\ t.map = s.map
       /\ t.pkt_count = count /\ t.slot = slot
  BY <1>13
<1>16. t.has_index = s.has_index /\ t.commit = FALSE /\ t.complete = FALSE
  BY <1>13
<1>17. n = Initiator \/ t.has_index \/ n \in t.slot
  BY <1>10, <1>15, <1>16 DEF first
<1>18. OwnSame(s, t)
  BY <1>15, <1>16 DEF OwnSame
<1>19. Begins(n, s, t)
  BY <1>4, <1>11, <1>14, <1>15, <1>16, <1>17, <1>18 DEF Begins
<1> QED  BY <1>19 DEF t

(* The state of a node that starts. *)
LEMMA StartEffect ==
  ASSUME JoinAssumption, NEW n \in Nodes
  PROVE  LET s == join_init(n)
         IN /\ s.has_index \in BOOLEAN /\ s.own \in Indices
            /\ s.node_count \in 0..MAX_NODE_COUNT /\ s.map \in Seq(Entries)
            /\ s.invalid_rx_count \in 0..CHAOS_RESTART_MAX
            /\ s.has_index <=> n = Initiator
            /\ s.own = 0
            /\ s.node_count = IF n = Initiator THEN 1 ELSE 0
            /\ s.map = IF n = Initiator THEN <<[id |-> n, idx |-> 0]>> ELSE <<>>
<1> DEFINE first == n = Initiator
           one == <<[id |-> n, idx |-> 0]>>
           map == IF first THEN one ELSE <<>>
           count == IF first THEN 1 ELSE 0
           s == join_init(n)
<1>1. s = [has_index |-> first, own |-> 0, invalid_rx_count |-> 0,
           node_count |-> count, map |-> map]
  BY Zenon DEF join_init
<1>2. 0 \in Indices /\ count \in 0..MAX_NODE_COUNT
  BY DEF Indices, JoinAssumption
<1>3. [id |-> n, idx |-> 0] \in Entries
  BY <1>2 DEF Entries
<1>4. map \in Seq(Entries)
  <2> DEFINE e == [id |-> n, idx |-> 0]
  <2>1. e \in Entries
    BY <1>3
  <2> HIDE DEF e
  <2>2. <<e>> \in Seq(Entries) /\ <<>> \in Seq(Entries)
    BY <2>1
  <2> QED  BY <2>2 DEF e
<1>5. 0 \in 0..CHAOS_RESTART_MAX
  BY ChaosAssumption DEF ChaosAssumption
<1>6. first \in BOOLEAN
  OBVIOUS
<1> HIDE DEF map, count, first, s
<1>7. s.has_index = first /\ s.own = 0 /\ s.invalid_rx_count = 0
      /\ s.node_count = count /\ s.map = map
  BY <1>1
<1> QED  BY <1>2, <1>4, <1>5, <1>6, <1>7 DEF map, count, first, s

(* The table that the initiator starts with. *)
LEMMA FirstTable ==
  ASSUME JoinAssumption, NEW map, map = <<[id |-> Initiator, idx |-> 0]>>
  PROVE  /\ TableOK(map) /\ InOrder(map) /\ Holds(map, Initiator, 0)
         /\ Len(map) = 1
<1> DEFINE e == [id |-> Initiator, idx |-> 0]
<1>1. e \in Entries /\ e.idx = 0
  BY ChaosAssumption DEF Entries, Indices, JoinAssumption, ChaosAssumption
<1>2. map = <<e>>
  OBVIOUS
<1> HIDE DEF e
<1>3. map \in Seq(Entries) /\ Len(map) = 1 /\ DOMAIN map = {1} /\ map[1] = e
  BY <1>1, <1>2
<1>4. TableOK(map)
  BY <1>1, <1>3 DEF TableOK, IdsDiffer, IdxDiffer, JoinAssumption
<1>5. InOrder(map)
  BY <1>3 DEF InOrder
<1>6. Holds(map, Initiator, 0)
  BY <1>3 DEF Holds, e
<1> QED  BY <1>3, <1>4, <1>5, <1>6

-----------------------------------------------------------------------------
(* At the beginning of a round nobody has committed. *)
Fresh ==
  /\ Typed /\ TableInv /\ OwnInv
  /\ \A n \in Nodes :
       /\ ~node[n].commit /\ ~node[n].complete
       /\ node[n].pkt_count = 0
            \/ (n = Initiator /\ node[n].pkt_count = node[n].node_count)
       /\ n = Initiator \/ node[n].has_index \/ n \in node[n].slot

LEMMA FreshInv == Fresh => JoinInv
<1> SUFFICES ASSUME Fresh PROVE JoinInv
  OBVIOUS
<1>1. Initiator \in Nodes
  BY ChaosAssumption DEF ChaosAssumption
<1>2. Len(Table) \in Nat /\ node[Initiator].node_count = Len(Table)
  BY DEF Fresh, TableInv, TableOK
<1>3. CommitInv
  <2> SUFFICES ASSUME NEW n \in Nodes
               PROVE  node[n].pkt_count <= Len(Table) /\ ~node[n].commit
    BY DEF CommitInv
  <2>1. node[n].pkt_count = 0 \/ node[n].pkt_count = Len(Table)
    BY <1>2 DEF Fresh
  <2> QED  BY <1>2, <2>1 DEF Fresh
<1>4. PlacesInv /\ FlagsInv /\ CompleteInv
  BY <1>1 DEF Fresh, PlacesInv, FlagsInv, CompleteInv
<1>5. NobodyForgotten
  BY DEF Fresh, NobodyForgotten, Others
<1> QED  BY <1>3, <1>4, <1>5 DEF Fresh, JoinInv

LEMMA InitInv ==
  ASSUME JoinAssumption, Init
  PROVE  JoinInv
<1>1. ASSUME NEW n \in Nodes
      PROVE  /\ Begins(n, join_init(n), node[n])
             /\ node[n].has_index <=> n = Initiator
             /\ node[n].own = 0
             /\ node[n].node_count = IF n = Initiator THEN 1 ELSE 0
             /\ node[n].map = IF n = Initiator THEN <<[id |-> n, idx |-> 0]>>
                              ELSE <<>>
  <2> DEFINE s == join_init(n)
  <2>1. node[n] = RoundBegin(n, s)
    BY DEF Init
  <2>2. /\ s.has_index \in BOOLEAN /\ s.own \in Indices
        /\ s.node_count \in 0..MAX_NODE_COUNT /\ s.map \in Seq(Entries)
        /\ s.invalid_rx_count \in 0..CHAOS_RESTART_MAX
        /\ s.has_index <=> n = Initiator
        /\ s.own = 0
        /\ s.node_count = IF n = Initiator THEN 1 ELSE 0
        /\ s.map = IF n = Initiator THEN <<[id |-> n, idx |-> 0]>> ELSE <<>>
    BY StartEffect, Zenon
  <2> HIDE DEF s
  <2>3. Begins(n, s, RoundBegin(n, s))
    <3>1. /\ s.has_index \in BOOLEAN /\ s.own \in Indices
          /\ s.node_count \in 0..MAX_NODE_COUNT /\ s.map \in Seq(Entries)
          /\ s.invalid_rx_count \in 0..CHAOS_RESTART_MAX
      BY <2>2, Zenon
    <3> QED  BY <3>1, BeginEffect
  <2>4. Begins(n, s, node[n])
    BY <2>1, <2>3
  <2>5. node[n].has_index <=> s.has_index
    BY <2>4 DEF Begins, OwnSame
  <2>6. /\ node[n].own = s.own /\ node[n].node_count = s.node_count
        /\ node[n].map = s.map
    BY <2>4 DEF Begins, OwnSame
  <2> QED  BY <2>2, <2>4, <2>5, <2>6 DEF s
<1>2. Initiator \in Nodes
  BY ChaosAssumption DEF ChaosAssumption
<1>3. Typed
  <2>1. node \in [Nodes -> JoinNode]
    <3>1. node = [n \in Nodes |-> RoundBegin(n, join_init(n))]
      BY DEF Init
    <3>2. \A n \in Nodes : node[n] \in JoinNode
      BY <1>1 DEF Begins
    <3> QED  BY <3>1, <3>2
  <2>2. \A n \in Nodes : Short(node[n].slot)
    BY <1>1 DEF Begins
  <2> QED  BY <2>1, <2>2 DEF Init, Typed
<1>4. Table = <<[id |-> Initiator, idx |-> 0]>>
  BY <1>1, <1>2 DEF Table
<1>5. TableOK(Table) /\ InOrder(Table) /\ Holds(Table, Initiator, 0) /\ Len(Table) = 1
  BY <1>4, FirstTable
<1>6. TableInv
  <2>1. node[Initiator].node_count = 1 /\ node[Initiator].own = 0
    BY <1>1, <1>2
  <2>2. node[Initiator].has_index
    BY <1>1, <1>2
  <2>3. \A n \in Others : node[n].map = <<>>
    BY <1>1 DEF Others
  <2> QED  BY <1>5, <2>1, <2>2, <2>3 DEF TableInv
<1>7. OwnInv
  <2> SUFFICES ASSUME NEW n \in Nodes, node[n].has_index
               PROVE  Holds(Table, n, node[n].own)
    BY DEF OwnInv
  <2>1. n = Initiator /\ node[n].own = 0
    BY <1>1
  <2> QED  BY <1>5, <2>1
<1>8. ASSUME NEW n \in Nodes
      PROVE  /\ ~node[n].commit /\ ~node[n].complete
             /\ node[n].pkt_count = 0
                  \/ (n = Initiator /\ node[n].pkt_count = node[n].node_count)
             /\ n = Initiator \/ node[n].has_index \/ n \in node[n].slot
  <2>1. Begins(n, join_init(n), node[n])
    BY <1>1
  <2> QED  BY <2>1 DEF Begins
<1>9. Fresh
  BY <1>3, <1>6, <1>7, <1>8 DEF Fresh
<1> QED  BY <1>9, FreshInv

(* The next round: what lasts is the table, sorted, and the indices of the
   nodes that have not restarted. *)
LEMMA NextRoundInv ==
  ASSUME JoinAssumption, JoinInv, NextRound
  PROVE  JoinInv'
<1>1. PICK restarts \in SUBSET Others :
        node' = [n \in Nodes |->
                   LET s == [node[n] EXCEPT !.map = Sorted(@)]
                   IN RoundBegin(n, IF n \in restarts THEN join_init(n) ELSE s)]
  BY DEF NextRound
<1>2. /\ Typed /\ TableInv /\ OwnInv /\ late' = FALSE
      /\ Initiator \in Nodes /\ Initiator \notin restarts
  BY ChaosAssumption DEF JoinInv, NextRound, ChaosAssumption, Others
<1> DEFINE kept(n) == [node[n] EXCEPT !.map = Sorted(@)]
<1>3. ASSUME NEW n \in Nodes
      PROVE  IdsDiffer(node[n].map) /\ Sorted(node[n].map) \in Seq(Entries)
             /\ (n # Initiator => Sorted(node[n].map) = <<>>)
  <2>1. node[n].map \in Seq(Entries)
    BY <1>2 DEF Typed, JoinNode
  <2>2. CASE n = Initiator
    <3>1. IdsDiffer(node[n].map)
      BY <1>2, <2>2 DEF TableInv, TableOK, Table
    <3> QED  BY <2>1, <2>2, <3>1, SortedTable
  <2>3. CASE n # Initiator
    <3>1. node[n].map = <<>>
      BY <1>2, <2>3 DEF TableInv, Others
    <3>2. IdsDiffer(node[n].map)
      BY <3>1 DEF IdsDiffer
    <3>3. Sorted(node[n].map) \in Seq(Entries) /\ SameEntries(node[n].map, Sorted(node[n].map))
      BY <2>1, <3>2, SortedTable
    <3>4. Len(Sorted(node[n].map)) = 0
      BY <3>1, <3>3 DEF SameEntries
    <3>5. Sorted(node[n].map) = <<>>
      BY <3>3, <3>4
    <3> QED  BY <3>2, <3>3, <3>5
  <2> QED  BY <2>2, <2>3
<1>4. ASSUME NEW n \in Nodes \ restarts
      PROVE  /\ Begins(n, kept(n), node'[n])
             /\ kept(n).map = Sorted(node[n].map)
             /\ kept(n).own = node[n].own /\ kept(n).node_count = node[n].node_count
             /\ kept(n).has_index <=> node[n].has_index
  <2> DEFINE s == node[n]
             map == Sorted(s.map)
             k == [s EXCEPT !.map = map]
  <2>1. s \in JoinNode
    BY <1>2 DEF Typed
  <2>2. node'[n] = RoundBegin(n, k)
    BY <1>1, Zenon
  <2>3. map \in Seq(Entries)
    BY <1>3
  <2> HIDE DEF s, map
  <2>4. k.map = map /\ k.own = s.own /\ k.node_count = s.node_count
        /\ k.invalid_rx_count = s.invalid_rx_count
    BY <2>1 DEF JoinNode
  <2>5. k.has_index = s.has_index
    BY <2>1 DEF JoinNode
  <2>6. /\ k.has_index \in BOOLEAN /\ k.own \in Indices
        /\ k.node_count \in 0..MAX_NODE_COUNT /\ k.map \in Seq(Entries)
        /\ k.invalid_rx_count \in 0..CHAOS_RESTART_MAX
    BY <2>1, <2>3, <2>4, <2>5 DEF JoinNode
  <2>7. Begins(n, k, node'[n])
    <3> HIDE DEF k
    <3>1. Begins(n, k, RoundBegin(n, k))
      BY <2>6, BeginEffect
    <3> QED  BY <2>2, <3>1
  <2>8. kept(n) = k
    BY DEF s, map
  <2> HIDE DEF kept, k
  <2> QED  BY <2>4, <2>5, <2>7, <2>8 DEF s, map
<1>5. ASSUME NEW n \in restarts
      PROVE  /\ Begins(n, join_init(n), node'[n]) /\ ~node'[n].has_index
             /\ node'[n].map = <<>>
  <2> DEFINE s == join_init(n)
  <2>1. n \in Nodes /\ n # Initiator
    BY DEF Others
  <2>2. node'[n] = RoundBegin(n, s)
    BY <1>1, <2>1
  <2>3. /\ s.has_index \in BOOLEAN /\ s.own \in Indices
        /\ s.node_count \in 0..MAX_NODE_COUNT /\ s.map \in Seq(Entries)
        /\ s.invalid_rx_count \in 0..CHAOS_RESTART_MAX
        /\ s.has_index <=> n = Initiator
        /\ s.map = IF n = Initiator THEN <<[id |-> n, idx |-> 0]>> ELSE <<>>
    BY <2>1, StartEffect, Zenon
  <2> HIDE DEF s
  <2>4. Begins(n, s, RoundBegin(n, s))
    <3>1. /\ s.has_index \in BOOLEAN /\ s.own \in Indices
          /\ s.node_count \in 0..MAX_NODE_COUNT /\ s.map \in Seq(Entries)
          /\ s.invalid_rx_count \in 0..CHAOS_RESTART_MAX
      BY <2>3, Zenon
    <3> QED  BY <2>1, <3>1, BeginEffect
  <2>5. Begins(n, s, node'[n])
    BY <2>2, <2>4
  <2>6. ~node'[n].has_index
    BY <2>1, <2>3, <2>5 DEF Begins, OwnSame
  <2>7. node'[n].map = <<>>
    BY <2>1, <2>3, <2>5 DEF Begins
  <2> QED  BY <2>5, <2>6, <2>7 DEF s
<1> HIDE DEF kept
<1>6. \A n \in Nodes : \E s : Begins(n, s, node'[n])
  BY <1>4, <1>5
<1>7. Typed'
  <2>1. node' \in [Nodes -> JoinNode]
    <3>1. \A n \in Nodes : node'[n] \in JoinNode
      BY <1>6 DEF Begins
    <3>2. node' = [n \in Nodes |-> node'[n]]
      BY <1>1
    <3> QED  BY <3>1, <3>2
  <2>2. \A n \in Nodes : Short(node'[n].slot)
    BY <1>6 DEF Begins
  <2> QED  BY <1>2, <2>1, <2>2 DEF Typed
<1>8. /\ Table' = Sorted(Table) /\ TableOK(Table)
      /\ node'[Initiator].node_count = Len(Table)
      /\ node'[Initiator].own = 0 /\ node'[Initiator].has_index
  <2>1. Begins(Initiator, kept(Initiator), node'[Initiator])
    BY <1>2, <1>4
  <2>2. /\ kept(Initiator).map = Sorted(Table)
        /\ kept(Initiator).own = 0 /\ kept(Initiator).node_count = Len(Table)
    BY <1>2, <1>4 DEF TableInv, Table
  <2>3. kept(Initiator).has_index
    BY <1>2, <1>4 DEF TableInv
  <2>4. Table' = node'[Initiator].map
    BY DEF Table
  <2> QED  BY <1>2, <2>1, <2>2, <2>3, <2>4 DEF Begins, OwnSame, TableInv
<1>9. /\ TableOK(Table') /\ InOrder(Table') /\ Len(Table') = Len(Table)
      /\ \A n, idx : Holds(Table, n, idx) => Holds(Table', n, idx)
  <2> HIDE DEF Table
  <2> QED  BY <1>8, SortedOK
<1>10. TableInv'
  <2>1. Holds(Table', Initiator, 0)
    BY <1>2, <1>9 DEF TableInv
  <2>2. ASSUME NEW n \in Others
        PROVE  node'[n].map = <<>>
    <3>1. CASE n \in restarts
      BY <1>5, <3>1
    <3>2. CASE n \notin restarts
      <4>1. n \in Nodes \ restarts /\ n # Initiator
        BY <3>2 DEF Others
      <4>2. node'[n].map = kept(n).map
        BY <1>4, <4>1 DEF Begins
      <4>3. kept(n).map = <<>>
        BY <1>3, <1>4, <4>1
      <4> QED  BY <4>2, <4>3
    <3> QED  BY <3>1, <3>2
  <2> QED  BY <1>8, <1>9, <2>1, <2>2 DEF TableInv
<1>11. OwnInv'
  <2> SUFFICES ASSUME NEW n \in Nodes, node'[n].has_index, Room
               PROVE  Holds(Table', n, node'[n].own)
    BY DEF OwnInv, Room
  <2>1. n \in Nodes \ restarts
    BY <1>5
  <2>2. node[n].has_index /\ node'[n].own = node[n].own
    BY <1>4, <2>1 DEF Begins, OwnSame
  <2>3. Holds(Table, n, node[n].own)
    BY <1>2, <2>2 DEF OwnInv
  <2> QED  BY <1>9, <2>2, <2>3
<1>12. ASSUME NEW n \in Nodes
       PROVE  /\ ~node'[n].commit /\ ~node'[n].complete
              /\ node'[n].pkt_count = 0
                   \/ (n = Initiator /\ node'[n].pkt_count = node'[n].node_count)
              /\ n = Initiator \/ node'[n].has_index \/ n \in node'[n].slot
  <2>1. PICK s : Begins(n, s, node'[n])
    BY <1>6
  <2> QED  BY <2>1 DEF Begins
<1>13. Fresh'
  BY <1>7, <1>10, <1>11, <1>12 DEF Fresh
<1> QED  BY <1>13, FreshInv, PTL

-----------------------------------------------------------------------------
(* A slot at a node: it may hear a packet and then moves on, or, the initiator
   only, commits. *)
HeardFrom(n, s, p, w) ==
  \/ ~s.commit /\ ~p.commit /\ Gathers(n, s, p, w)
  \/ ~s.commit /\ p.commit /\ Adopts(n, s, p, w)
  \/ s.commit /\ Confirms(s, p, w)

Took(n, w) ==
  w = node[n] \/ \E m \in Nodes : HeardFrom(n, node[n], node[m], w)

Stepped(n, t) ==
  \E w \in JoinNode :
    /\ Took(n, w)
    /\ \/ Moved(w, t)
       \/ n = Initiator /\ ~w.commit /\ Committed(w, t)

(* A node that took something has the same table. *)
LEMMA TookKeeps ==
  ASSUME NEW n \in Nodes, Typed, NEW w, Took(n, w)
  PROVE  /\ w \in JoinNode /\ w.map = node[n].map
         /\ node[n].commit => w.commit
         /\ ~w.commit => w.node_count = node[n].node_count
<1>1. node[n] \in JoinNode
  BY DEF Typed
<1>2. CASE w = node[n]
  BY <1>1, <1>2
<1>3. ASSUME NEW m \in Nodes, HeardFrom(n, node[n], node[m], w)
      PROVE  /\ w \in JoinNode /\ w.map = node[n].map
             /\ node[n].commit => w.commit
             /\ ~w.commit => w.node_count = node[n].node_count
  BY <1>3 DEF HeardFrom, Gathers, Adopts, Confirms, RadioSame
<1> QED  BY <1>2, <1>3 DEF Took

LEMMA StepEffect ==
  ASSUME JoinAssumption, JoinInv, NEW n \in Nodes,
         NEW heard \in Receptions(node, Transmitters(node)),
         NEW threshold \in [Listeners(node) -> Thresholds],
         NEW second \in BOOLEAN, NEW quiet \in BOOLEAN
  PROVE  Stepped(n, Step(n, heard, threshold, second, quiet))
<1> DEFINE s == node[n]
           rx == s.state = "RX" /\ heard[n] # Silence
           r == IF rx THEN Receive(n, s, node[heard[n]], second)
                ELSE [s |-> s, delta |-> FALSE]
           w == r.s
           t == Step(n, heard, threshold, second, quiet)
<1>1. t = IF s.state = "OFF" THEN s
          ELSE IF CommitDue(n, r.s, r.delta, second, quiet) THEN commit(r.s)
          ELSE IF s.state = "TX" THEN AfterTx(s)
          ELSE IF rx THEN AfterRx(r.s, r.delta)
          ELSE AfterSilence(s, threshold[n])
  BY Zenon DEF Step
<1>2. Typed /\ TableInv /\ CommitInv /\ PlacesInv
  BY DEF JoinInv
<1>3. s \in JoinNode
  BY <1>2 DEF Typed
<1>4. rx => heard[n] \in Nodes
  BY DEF Receptions, Listeners, Transmitters, Silence
<1>5. Took(n, w)
  <2>1. CASE ~rx
    <3>1. w = s
      BY <2>1
    <3> QED  BY <3>1 DEF Took
  <2>2. CASE rx
    <3> DEFINE p == node[heard[n]]
    <3>1. p \in JoinNode /\ heard[n] \in Nodes
      BY <1>2, <1>4, <2>2 DEF Typed
    <3>2. p.commit /\ n \in p.slot => p.index[n] \in Indices
      BY <1>2, <3>1 DEF CommitInv, PlacesInv, Places
    <3>3. w = Receive(n, s, p, second).s
      BY <2>2
    <3>4. HeardFrom(n, s, p, w)
      <4> HIDE DEF p, s, w
      <4> QED  BY <1>3, <3>1, <3>2, <3>3, ReceiveEffect DEF HeardFrom
    <3> QED  BY <3>1, <3>4 DEF Took
  <2> QED  BY <2>1, <2>2
<1>6. /\ w \in JoinNode /\ w.map = s.map
      /\ ~w.commit => ~s.commit /\ w.node_count = s.node_count
  BY <1>2, <1>5, TookKeeps
<1>7. Took(n, s)
  BY DEF Took
<1>8. CASE s.state = "OFF"
  <2>1. t = s /\ Moved(s, s)
    BY <1>1, <1>3, <1>8, StayMoves
  <2> QED  BY <1>3, <1>7, <2>1 DEF Stepped
<1>9. CASE s.state # "OFF" /\ CommitDue(n, r.s, r.delta, second, quiet)
  <2>1. n = Initiator /\ ~w.commit
    BY <1>9 DEF CommitDue
  <2>2. TableOK(w.map) /\ InOrder(w.map) /\ w.node_count = Len(w.map)
    BY <1>2, <1>6, <2>1 DEF TableInv, Table
  <2>3. t = commit(w)
    BY <1>1, <1>9
  <2> HIDE DEF w
  <2>4. Committed(w, commit(w))
    BY <1>6, <2>2, CommitEffect
  <2> QED  BY <1>5, <1>6, <2>1, <2>3, <2>4 DEF Stepped
<1>10. CASE s.state = "TX" /\ ~CommitDue(n, r.s, r.delta, second, quiet)
  <2>1. t = AfterTx(s)
    BY <1>1, <1>10
  <2>2. IdsDiffer(s.map)
    <3>1. CASE n = Initiator
      BY <1>2, <3>1 DEF TableInv, TableOK, Table
    <3>2. CASE n # Initiator
      <4>1. s.map = <<>>
        BY <1>2, <3>2 DEF TableInv, Others
      <4> QED  BY <4>1 DEF IdsDiffer
    <3> QED  BY <3>1, <3>2
  <2>3. Moved(s, AfterTx(s))
    BY <1>3, <2>2, AfterTxEffect
  <2> QED  BY <1>3, <1>7, <2>1, <2>3 DEF Stepped
<1>11. CASE /\ s.state \notin {"OFF", "TX"} /\ rx
            /\ ~CommitDue(n, r.s, r.delta, second, quiet)
  <2>1. t = AfterRx(w, r.delta)
    BY <1>1, <1>11
  <2>2. Moved(w, AfterRx(w, r.delta))
    BY <1>6, AfterRxEffect
  <2> QED  BY <1>5, <1>6, <2>1, <2>2 DEF Stepped
<1>12. CASE /\ s.state \notin {"OFF", "TX"} /\ ~rx
            /\ ~CommitDue(n, r.s, r.delta, second, quiet)
  <2>1. t = AfterSilence(s, threshold[n])
    BY <1>1, <1>12
  <2>2. s.state = "RX"
    BY <1>3, <1>12 DEF JoinNode
  <2>3. threshold[n] \in Thresholds
    BY <2>2 DEF Listeners
  <2>4. Moved(s, AfterSilence(s, threshold[n]))
    BY <1>3, <2>2, <2>3, AfterSilenceEffect
  <2> QED  BY <1>3, <1>7, <2>1, <2>4 DEF Stepped
<1> QED  BY <1>8, <1>9, <1>10, <1>11, <1>12

(* What a slot without a commit of its own leaves at a node. *)
FollowOwn(n, t) ==
  /\ node[n].has_index => t.has_index /\ t.own = node[n].own
  /\ t.has_index /\ ~node[n].has_index =>
       /\ node[Initiator].commit /\ n \in node[Initiator].slot
       /\ t.own = node[Initiator].index[n]

FollowCommit(n, t) ==
  /\ node[n].commit => t.commit
  /\ t.pkt_count <= Len(Table)
  /\ t.commit => /\ node[Initiator].commit
                 /\ t.pkt_count = Len(Table) /\ t.node_count = Len(Table)
                 /\ t.slot = node[Initiator].slot
                 /\ t.index = node[Initiator].index
  /\ ~t.commit => t.node_count = node[n].node_count

FollowFlags(t) ==
  /\ t.commit => \A f \in t.flags : Stands(f) \/ (t.has_index /\ f = t.own)
  /\ t.complete => t.commit /\ 0..(Len(Table) - 1) \subseteq t.flags

Follow(n, t) ==
  /\ t \in JoinNode /\ Short(t.slot)
  /\ FollowOwn(n, t) /\ FollowCommit(n, t) /\ FollowFlags(t)
  /\ n \in Others => t.has_index \/ n \in t.slot \/ t.overflow

LEMMA StayFollows ==
  ASSUME JoinInv, NEW n \in Nodes
  PROVE  Follow(n, node[n])
<1>1. node[n] \in JoinNode /\ Short(node[n].slot)
  BY DEF JoinInv, Typed
<1>2. FollowOwn(n, node[n])
  BY DEF FollowOwn
<1>3. FollowCommit(n, node[n])
  BY DEF JoinInv, CommitInv, FollowCommit
<1>4. FollowFlags(node[n])
  BY DEF JoinInv, FlagsInv, CompleteInv, FollowFlags
<1>5. n \in Others => node[n].has_index \/ n \in node[n].slot \/ node[n].overflow
  BY DEF JoinInv, NobodyForgotten
<1> QED  BY <1>1, <1>2, <1>3, <1>4, <1>5 DEF Follow

LEMMA HearFollows ==
  ASSUME JoinInv, NEW n \in Nodes, NEW m \in Nodes, NEW w,
         HeardFrom(n, node[n], node[m], w)
  PROVE  Follow(n, w)
<1> DEFINE s == node[n]
           p == node[m]
           K == Len(Table)
<1>1. /\ s \in JoinNode /\ p \in JoinNode /\ Short(s.slot) /\ Short(p.slot)
      /\ K \in Nat /\ s.pkt_count \in Nat /\ p.pkt_count \in Nat
  <2>1. s \in JoinNode /\ p \in JoinNode /\ Short(s.slot) /\ Short(p.slot)
    BY DEF JoinInv, Typed
  <2>2. K \in Nat
    BY DEF JoinInv, TableInv, TableOK
  <2>3. s.pkt_count \in Nat /\ p.pkt_count \in Nat
    BY <2>1 DEF JoinNode
  <2> QED  BY <2>1, <2>2, <2>3
<1>2. /\ s.pkt_count <= K /\ p.pkt_count <= K
      /\ s.commit => /\ node[Initiator].commit /\ s.pkt_count = K
                     /\ s.node_count = K /\ s.slot = node[Initiator].slot
                     /\ s.index = node[Initiator].index
      /\ p.commit => /\ node[Initiator].commit /\ p.pkt_count = K
                     /\ p.slot = node[Initiator].slot
                     /\ p.index = node[Initiator].index
  BY DEF JoinInv, CommitInv
<1>3. /\ s.commit => \A f \in s.flags : Stands(f)
      /\ p.commit => \A f \in p.flags : Stands(f)
      /\ s.complete => s.commit /\ 0..(K - 1) \subseteq s.flags
  BY DEF JoinInv, FlagsInv, CompleteInv
<1>4. n \in Others => s.has_index \/ n \in s.slot \/ s.overflow
  BY DEF JoinInv, NobodyForgotten
<1> HIDE DEF s, p, K
<1>5. CASE ~s.commit /\ ~p.commit /\ Gathers(n, s, p, w)
  <2>1. w \in JoinNode /\ Short(w.slot) /\ OwnSame(s, w) /\ CountsUp(s, p, w)
    BY <1>1, <1>5 DEF Gathers
  <2>2. FollowOwn(n, w)
    BY <2>1 DEF FollowOwn, OwnSame, s
  <2>3. ~w.commit /\ w.node_count = s.node_count
    BY <1>5 DEF Gathers
  <2>4. w.pkt_count <= K
    BY <1>2, <2>1 DEF CountsUp
  <2>5. FollowCommit(n, w)
    BY <1>5, <2>3, <2>4 DEF FollowCommit, s, K
  <2>6. ~w.complete
    BY <1>3, <1>5 DEF Gathers
  <2>7. FollowFlags(w)
    BY <2>3, <2>6 DEF FollowFlags
  <2>8. n \in Others => w.has_index \/ n \in w.slot \/ w.overflow
    BY <1>4, <1>5 DEF Gathers, OwnSame
  <2> QED  BY <2>1, <2>2, <2>5, <2>7, <2>8 DEF Follow
<1>6. CASE ~s.commit /\ p.commit /\ Adopts(n, s, p, w)
  <2>1. w \in JoinNode /\ Short(w.slot) /\ w.commit
    BY <1>1, <1>6 DEF Adopts
  <2>2. FollowOwn(n, w)
    BY <1>2, <1>6 DEF FollowOwn, Adopts, s
  <2>3. w.pkt_count = K /\ w.node_count = K /\ w.slot = node[Initiator].slot
        /\ w.index = node[Initiator].index /\ node[Initiator].commit
    BY <1>2, <1>6 DEF Adopts
  <2>4. w.pkt_count <= K
    BY <1>1, <2>3
  <2>5. FollowCommit(n, w)
    BY <2>1, <2>3, <2>4 DEF FollowCommit, K
  <2>6. ~w.complete
    BY <1>3, <1>6 DEF Adopts
  <2>7. FollowFlags(w)
    BY <1>3, <1>6, <2>6 DEF FollowFlags, Adopts
  <2>8. w.has_index \/ w.overflow
    BY <1>6 DEF Adopts
  <2> QED  BY <2>1, <2>2, <2>5, <2>7, <2>8 DEF Follow
<1>7. CASE s.commit /\ Confirms(s, p, w)
  <2>1. w \in JoinNode /\ Short(w.slot) /\ OwnSame(s, w) /\ CountsUp(s, p, w)
        /\ w.commit
    BY <1>1, <1>7 DEF Confirms
  <2>2. FollowOwn(n, w)
    BY <2>1 DEF FollowOwn, OwnSame, s
  <2>3. w.pkt_count = K
    <3>1. w.pkt_count \in {s.pkt_count, p.pkt_count} /\ w.pkt_count >= s.pkt_count
          /\ s.pkt_count = K
      BY <1>2, <1>7, <2>1 DEF CountsUp
    <3> QED  BY <1>1, <1>2, <3>1
  <2>4. w.node_count = K /\ w.slot = node[Initiator].slot
        /\ w.index = node[Initiator].index /\ node[Initiator].commit
    BY <1>2, <1>7 DEF Confirms
  <2>5. w.pkt_count <= K
    BY <1>1, <2>3
  <2>6. FollowCommit(n, w)
    BY <2>1, <2>3, <2>4, <2>5 DEF FollowCommit, K
  <2>7. \A f \in w.flags : Stands(f)
    BY <1>3, <1>7 DEF Confirms
  <2>8. w.complete => 0..(K - 1) \subseteq w.flags
    <3>1. CASE s.complete
      BY <1>3, <1>7, <3>1 DEF Confirms
    <3>2. CASE ~s.complete
      BY <1>2, <1>7, <3>2 DEF Confirms
    <3> QED  BY <3>1, <3>2
  <2>9. FollowFlags(w)
    BY <2>1, <2>7, <2>8 DEF FollowFlags, K
  <2>10. n \in Others => w.has_index \/ n \in w.slot \/ w.overflow
    BY <1>4, <1>7 DEF Confirms, OwnSame
  <2> QED  BY <2>1, <2>2, <2>6, <2>9, <2>10 DEF Follow
<1> QED  BY <1>5, <1>6, <1>7 DEF HeardFrom, s, p

LEMMA TookFollows ==
  ASSUME JoinInv, NEW n \in Nodes, NEW w, Took(n, w)
  PROVE  Follow(n, w)
BY StayFollows, HearFollows DEF Took

LEMMA MovedFollows ==
  ASSUME NEW n \in Nodes, NEW w, Follow(n, w), NEW t, Moved(w, t)
  PROVE  Follow(n, t)
<1>1. t \in JoinNode /\ CoreSame(w, t)
  BY DEF Moved
<1>2. Short(t.slot)
  BY <1>1 DEF CoreSame, Follow
<1>3. FollowOwn(n, t)
  BY <1>1 DEF CoreSame, OwnSame, Follow, FollowOwn
<1>4. FollowCommit(n, t)
  BY <1>1 DEF CoreSame, Follow, FollowCommit
<1>5. FollowFlags(t)
  BY <1>1 DEF CoreSame, OwnSame, Follow, FollowFlags
<1>6. n \in Others => t.has_index \/ n \in t.slot \/ t.overflow
  BY <1>1 DEF CoreSame, OwnSame, Follow
<1> QED  BY <1>1, <1>2, <1>3, <1>4, <1>5, <1>6 DEF Follow

(* The initiator's own commit. *)
Lead(t) ==
  /\ ~node[Initiator].commit
  /\ \E w \in JoinNode :
       /\ Follow(Initiator, w) /\ ~w.commit /\ w.map = Table
       /\ Committed(w, t)

LEMMA SlotNodes ==
  ASSUME JoinAssumption, JoinInv, Slot
  PROVE  /\ late' \in BOOLEAN /\ DOMAIN node' = Nodes
         /\ node' = [n \in Nodes |-> node'[n]]
         /\ \A n \in Nodes :
              \/ /\ Follow(n, node'[n])
                 /\ node'[n].map = node[n].map \/ node'[n].map = Sorted(node[n].map)
              \/ n = Initiator /\ Lead(node'[n])
<1>1. PICK second \in {late, TRUE}, quiet \in BOOLEAN,
           heard \in Receptions(node, Transmitters(node)),
           threshold \in [Listeners(node) -> Thresholds] :
        /\ node' = [n \in Nodes |-> Step(n, heard, threshold, second, quiet)]
        /\ late' = second
  BY DEF Slot
<1>2. second \in BOOLEAN
  BY DEF JoinInv, Typed
<1>3. ASSUME NEW n \in Nodes
      PROVE  \/ /\ Follow(n, node'[n])
                /\ node'[n].map = node[n].map \/ node'[n].map = Sorted(node[n].map)
             \/ n = Initiator /\ Lead(node'[n])
  <2> DEFINE t == node'[n]
  <2>1. t = Step(n, heard, threshold, second, quiet)
    BY <1>1
  <2>2. Stepped(n, Step(n, heard, threshold, second, quiet))
    BY <1>2, StepEffect
  <2> HIDE DEF t
  <2>3. PICK w \in JoinNode :
          /\ Took(n, w)
          /\ \/ Moved(w, t)
             \/ n = Initiator /\ ~w.commit /\ Committed(w, t)
    BY <2>1, <2>2 DEF Stepped
  <2>4. Follow(n, w)
    BY <2>3, TookFollows
  <2>5. w.map = node[n].map /\ (~w.commit => ~node[n].commit)
    BY <2>3, TookKeeps DEF JoinInv
  <2>6. CASE Moved(w, t)
    <3>1. Follow(n, t)
      BY <2>4, <2>6, MovedFollows
    <3>2. t.map = node[n].map \/ t.map = Sorted(node[n].map)
      BY <2>5, <2>6 DEF Moved
    <3> QED  BY <3>1, <3>2 DEF t
  <2>7. CASE n = Initiator /\ ~w.commit /\ Committed(w, t)
    <3>1. Lead(t)
      BY <2>4, <2>5, <2>7 DEF Lead, Table
    <3> QED  BY <2>7, <3>1 DEF t
  <2> QED  BY <2>3, <2>6, <2>7
<1>4. late' \in BOOLEAN
  BY <1>1, <1>2
<1>5. DOMAIN node' = Nodes /\ node' = [n \in Nodes |-> node'[n]]
  BY <1>1
<1> QED  BY <1>3, <1>4, <1>5

(* What the slot does to the initiator and its table. *)
TableStep ==
  /\ TableOK(Table') /\ Len(Table) <= Len(Table')
  /\ \A n, idx : Holds(Table, n, idx) => Holds(Table', n, idx)
  /\ node[Initiator].commit =>
       /\ node'[Initiator].commit /\ Len(Table') = Len(Table)
       /\ node'[Initiator].slot = node[Initiator].slot
       /\ node'[Initiator].index = node[Initiator].index
  /\ ~node'[Initiator].commit => InOrder(Table')
  /\ node'[Initiator].node_count = Len(Table')
  /\ node'[Initiator].has_index /\ node'[Initiator].own = 0
  /\ node'[Initiator].pkt_count <= Len(Table')
  /\ node'[Initiator].commit =>
       /\ node'[Initiator].pkt_count = Len(Table')
       /\ Places(Table', node'[Initiator].slot, node'[Initiator].index)

LEMMA FollowTable ==
  ASSUME JoinInv, NEW t, Follow(Initiator, t), t = node'[Initiator],
         t.map = Table \/ t.map = Sorted(Table)
  PROVE  TableStep
<1> DEFINE i == node[Initiator]
<1>1. /\ TableInv /\ PlacesInv /\ CommitInv /\ Initiator \in Nodes
      /\ TableOK(Table) /\ Len(Table) \in Nat
  BY ChaosAssumption DEF JoinInv, ChaosAssumption, TableInv, TableOK
<1>2. Table' = t.map
  BY DEF Table
<1>3. /\ TableOK(Table') /\ Len(Table') = Len(Table)
      /\ \A n, idx : Holds(Table, n, idx) => Holds(Table', n, idx)
      /\ InOrder(Table) => InOrder(Table')
  <2> HIDE DEF Table
  <2> QED  BY <1>1, <1>2, SortedOK
<1>4. FollowOwn(Initiator, t) /\ FollowCommit(Initiator, t)
  BY DEF Follow
<1>5. t.has_index /\ t.own = 0
  BY <1>1, <1>4 DEF FollowOwn, TableInv
<1>6. ~t.commit => InOrder(Table') /\ t.node_count = Len(Table')
  BY <1>1, <1>3, <1>4 DEF FollowCommit, TableInv
<1>7. t.commit => i.commit /\ t.pkt_count = Len(Table') /\ t.node_count = Len(Table')
                  /\ t.slot = i.slot /\ t.index = i.index
  BY <1>3, <1>4 DEF FollowCommit
<1>8. i.commit => t.commit
  BY <1>4 DEF FollowCommit
<1>9. t.commit => Places(Table', t.slot, t.index)
  BY <1>1, <1>3, <1>7 DEF PlacesInv, Places
<1>10. t.pkt_count <= Len(Table')
  BY <1>3, <1>4 DEF FollowCommit
<1>11. Len(Table) <= Len(Table')
  BY <1>1, <1>3
<1> QED
  BY <1>3, <1>5, <1>6, <1>7, <1>8, <1>9, <1>10, <1>11 DEF TableStep

LEMMA LeadTable ==
  ASSUME JoinInv, NEW t, Lead(t), t = node'[Initiator]
  PROVE  TableStep
<1>1. PICK w \in JoinNode : /\ Follow(Initiator, w) /\ ~w.commit /\ w.map = Table
                            /\ Committed(w, t)
  BY DEF Lead
<1>2. TableInv /\ ~node[Initiator].commit
  BY DEF JoinInv, Lead
<1>3. Table' = t.map
  BY DEF Table
<1>4. /\ Extends(Table, Table') /\ Places(Table', t.slot, t.index)
      /\ t.node_count = Len(Table') /\ t.pkt_count = Len(Table')
      /\ t.commit /\ t.own = w.own /\ (t.has_index <=> w.has_index)
  BY <1>1, <1>3 DEF Committed
<1>5. t.has_index /\ t.own = 0
  BY <1>1, <1>2, <1>4 DEF Follow, FollowOwn, TableInv
<1>6. Len(Table') \in Nat
  BY <1>4 DEF Extends, TableOK
<1>7. t.pkt_count <= Len(Table')
  BY <1>4, <1>6
<1>8. /\ TableOK(Table') /\ Len(Table) <= Len(Table')
      /\ \A n, idx : Holds(Table, n, idx) => Holds(Table', n, idx)
  BY <1>4 DEF Extends
<1> QED  BY <1>2, <1>4, <1>5, <1>7, <1>8 DEF TableStep

LEMMA SortedEmpty == Sorted(<<>>) = <<>>
<1> DEFINE e == <<>>
<1>1. e \in Seq(Entries) /\ IdsDiffer(e) /\ Len(e) = 0
  BY DEF IdsDiffer
<1>2. Sorted(e) \in Seq(Entries) /\ Len(Sorted(e)) = 0
  <2> HIDE DEF e
  <2> QED  BY <1>1, SortedTable DEF SameEntries
<1> QED  BY <1>2

LEMMA SlotInv ==
  ASSUME JoinAssumption, JoinInv, Slot
  PROVE  JoinInv'
<1> DEFINE i == node[Initiator]
           j == node'[Initiator]
<1>1. /\ late' \in BOOLEAN /\ node' = [n \in Nodes |-> node'[n]]
      /\ Initiator \in Nodes
  BY SlotNodes, ChaosAssumption DEF ChaosAssumption
<1>2. ASSUME NEW n \in Nodes
      PROVE  \/ /\ Follow(n, node'[n])
                /\ node'[n].map = node[n].map \/ node'[n].map = Sorted(node[n].map)
             \/ n = Initiator /\ Lead(node'[n])
  BY SlotNodes
<1>3. TableStep
  <2>1. CASE /\ Follow(Initiator, j)
             /\ j.map = i.map \/ j.map = Sorted(i.map)
    <3>1. j.map = Table \/ j.map = Sorted(Table)
      BY <2>1 DEF Table
    <3> HIDE DEF j
    <3> QED  BY <2>1, <3>1, FollowTable DEF j
  <2>2. CASE Lead(j)
    <3> HIDE DEF j
    <3> QED  BY <2>2, LeadTable DEF j
  <2> QED  BY <1>1, <1>2, <2>1, <2>2
<1>4. /\ TableOK(Table') /\ Len(Table') \in Nat /\ Len(Table) \in Nat
      /\ Len(Table) <= Len(Table')
      /\ \A n, idx : Holds(Table, n, idx) => Holds(Table', n, idx)
  BY <1>3 DEF TableStep, TableOK, JoinInv, TableInv
<1>5. i.commit => /\ j.commit /\ Len(Table') = Len(Table)
                  /\ j.slot = i.slot /\ j.index = i.index
  BY <1>3 DEF TableStep
<1>6. ASSUME NEW n \in Nodes, n # Initiator
      PROVE  Follow(n, node'[n])
             /\ (node'[n].map = node[n].map \/ node'[n].map = Sorted(node[n].map))
  BY <1>2, <1>6
<1>7. Typed'
  <2>1. ASSUME NEW n \in Nodes
        PROVE  node'[n] \in JoinNode /\ Short(node'[n].slot)
    <3>1. CASE Follow(n, node'[n])
      BY <3>1 DEF Follow
    <3>2. CASE Lead(node'[n])
      <4>1. PICK w \in JoinNode : /\ Follow(Initiator, w) /\ Committed(w, node'[n])
        BY <3>2 DEF Lead
      <4> QED  BY <4>1 DEF Follow, Committed
    <3> QED  BY <1>2, <3>1, <3>2
  <2>2. node' \in [Nodes -> JoinNode]
    BY <1>1, <2>1
  <2> QED  BY <1>1, <2>1, <2>2 DEF Typed
<1>8. TableInv'
  <2>1. Holds(Table', Initiator, 0)
    BY <1>4 DEF JoinInv, TableInv
  <2>2. ASSUME NEW n \in Others
        PROVE  node'[n].map = <<>>
    <3>1. n \in Nodes /\ n # Initiator /\ node[n].map = <<>>
      BY DEF Others, JoinInv, TableInv
    <3> QED  BY <1>6, <3>1, SortedEmpty
  <2>3. /\ j.node_count = Len(Table') /\ j.own = 0
        /\ ~j.commit => InOrder(Table')
    BY <1>3 DEF TableStep
  <2>4. j.has_index
    BY <1>3 DEF TableStep
  <2> QED  BY <1>4, <2>1, <2>2, <2>3, <2>4 DEF TableInv
<1>9. CommitInv'
  <2> SUFFICES ASSUME NEW n \in Nodes
               PROVE  /\ node'[n].pkt_count <= Len(Table')
                      /\ node'[n].commit =>
                           /\ j.commit
                           /\ node'[n].pkt_count = Len(Table')
                           /\ node'[n].node_count = Len(Table')
                           /\ node'[n].slot = j.slot
                           /\ node'[n].index = j.index
    BY DEF CommitInv
  <2>1. CASE n = Initiator
    BY <1>3, <2>1 DEF TableStep
  <2>2. CASE n # Initiator
    <3> DEFINE t == node'[n]
    <3>1. FollowCommit(n, t) /\ t \in JoinNode
      BY <1>6, <2>2 DEF Follow
    <3> HIDE DEF t
    <3>2. t.pkt_count \in Nat
      BY <3>1 DEF JoinNode
    <3>3. t.pkt_count <= Len(Table')
      BY <1>4, <3>1, <3>2 DEF FollowCommit
    <3>4. t.commit => /\ j.commit
                      /\ t.pkt_count = Len(Table') /\ t.node_count = Len(Table')
                      /\ t.slot = j.slot /\ t.index = j.index
      BY <1>5, <3>1 DEF FollowCommit
    <3> QED  BY <3>3, <3>4 DEF t
  <2> QED  BY <2>1, <2>2
<1>10. PlacesInv'
  BY <1>3 DEF TableStep, PlacesInv
<1>11. OwnInv'
  <2> SUFFICES ASSUME NEW n \in Nodes, node'[n].has_index, Room
               PROVE  Holds(Table', n, node'[n].own)
    BY DEF OwnInv, Room
  <2>1. CASE n = Initiator
    <3>1. j.own = 0 /\ Holds(Table', Initiator, 0)
      BY <1>3, <1>4 DEF TableStep, JoinInv, TableInv
    <3> QED  BY <2>1, <3>1
  <2>2. CASE n # Initiator
    <3>1. FollowOwn(n, node'[n])
      BY <1>6, <2>2 DEF Follow
    <3>2. CASE node[n].has_index
      <4>1. node'[n].own = node[n].own /\ Holds(Table, n, node[n].own)
        BY <3>1, <3>2 DEF FollowOwn, JoinInv, OwnInv
      <4> QED  BY <1>4, <4>1
    <3>3. CASE ~node[n].has_index
      <4>1. i.commit /\ n \in i.slot /\ node'[n].own = i.index[n]
        BY <3>1, <3>3 DEF FollowOwn
      <4>2. Holds(Table, n, i.index[n])
        BY <4>1 DEF JoinInv, PlacesInv, Places
      <4> QED  BY <1>4, <4>1, <4>2
    <3> QED  BY <3>2, <3>3
  <2> QED  BY <2>1, <2>2
<1>12. ASSUME NEW f, Stands(f)
       PROVE  Stands(f)'
  <2>1. PICK m \in Nodes : node[m].has_index /\ node[m].commit /\ node[m].own = f
    BY <1>12 DEF Stands
  <2>2. Follow(m, node'[m])
    BY <1>2, <2>1 DEF Lead
  <2>3. node'[m].has_index /\ node'[m].commit /\ node'[m].own = f
    BY <2>1, <2>2 DEF Follow, FollowOwn, FollowCommit
  <2> QED  BY <2>3 DEF Stands
<1>13. FlagsInv'
  <2> SUFFICES ASSUME NEW n \in Nodes, node'[n].commit, NEW f \in node'[n].flags
               PROVE  Stands(f)'
    BY DEF FlagsInv
  <2>1. CASE Follow(n, node'[n])
    <3>1. Stands(f) \/ (node'[n].has_index /\ f = node'[n].own)
      BY <2>1 DEF Follow, FollowFlags
    <3>2. node'[n].has_index /\ f = node'[n].own => Stands(f)'
      BY DEF Stands
    <3> QED  BY <1>12, <3>1, <3>2
  <2>2. CASE n = Initiator /\ Lead(node'[n])
    <3>1. PICK w \in JoinNode : Committed(w, node'[n])
      BY <2>2 DEF Lead
    <3>2. f = node'[n].own
      BY <3>1 DEF Committed
    <3>3. node'[n].has_index
      BY <1>3, <2>2 DEF TableStep
    <3> QED  BY <3>2, <3>3 DEF Stands
  <2> QED  BY <1>2, <2>1, <2>2
<1>14. CompleteInv'
  <2> SUFFICES ASSUME NEW n \in Nodes, node'[n].complete
               PROVE  /\ node'[n].commit
                      /\ 0..(Len(Table') - 1) \subseteq node'[n].flags
    BY DEF CompleteInv
  <2>1. CASE Follow(n, node'[n])
    <3>1. node'[n].commit /\ 0..(Len(Table) - 1) \subseteq node'[n].flags
      BY <2>1 DEF Follow, FollowFlags
    <3>2. i.commit
      BY <2>1, <3>1 DEF Follow, FollowCommit
    <3> QED  BY <1>5, <3>1, <3>2
  <2>2. CASE Lead(node'[n])
    <3>1. PICK w \in JoinNode : /\ Follow(Initiator, w) /\ ~w.commit
                                /\ Committed(w, node'[n])
      BY <2>2 DEF Lead
    <3>2. w.complete
      BY <3>1 DEF Committed
    <3> QED  BY <3>1, <3>2 DEF Follow, FollowFlags
  <2> QED  BY <1>2, <2>1, <2>2
<1>15. NobodyForgotten'
  <2> SUFFICES ASSUME NEW n \in Others
               PROVE  node'[n].has_index \/ n \in node'[n].slot \/ node'[n].overflow
    BY DEF NobodyForgotten, Others
  <2>1. Follow(n, node'[n])
    BY <1>6 DEF Others
  <2> QED  BY <2>1 DEF Follow
<1> QED
  BY <1>7, <1>8, <1>9, <1>10, <1>11, <1>13, <1>14, <1>15 DEF JoinInv

(* The invariant is inductive. *)
LEMMA NextInv ==
  ASSUME JoinAssumption, JoinInv, Next
  PROVE  JoinInv'
BY SlotInv, NextRoundInv DEF Next

LEMMA StutterInv ==
  ASSUME JoinInv, UNCHANGED vars
  PROVE  JoinInv'
<1>1. node' = node /\ late' = late /\ Table' = Table
  BY DEF vars, Table
<1>2. \A f : Stands(f) => Stands(f)'
  BY <1>1 DEF Stands
<1>3. Typed' /\ TableInv' /\ CommitInv' /\ PlacesInv'
  BY <1>1 DEF JoinInv, Typed, TableInv, CommitInv, PlacesInv
<1>4. OwnInv' /\ CompleteInv' /\ NobodyForgotten'
  BY <1>1 DEF JoinInv, OwnInv, CompleteInv, NobodyForgotten
<1>5. FlagsInv'
  BY <1>1, <1>2 DEF JoinInv, FlagsInv
<1> QED  BY <1>3, <1>4, <1>5 DEF JoinInv

-----------------------------------------------------------------------------
(* What the invariant says. *)
LEMMA InvTypeOK == JoinAssumption /\ JoinInv => TypeOK
<1> SUFFICES ASSUME JoinAssumption, JoinInv PROVE TypeOK
  OBVIOUS
<1>1. node \in [Nodes -> JoinNode] /\ late \in BOOLEAN
      /\ \A n \in Nodes : Short(node[n].slot)
  BY DEF JoinInv, Typed
<1>2. ASSUME NEW n \in Nodes
      PROVE  Len(node[n].map) <= MAX_NODE_COUNT
  <2>1. CASE n = Initiator
    BY <2>1 DEF JoinInv, TableInv, TableOK, Table
  <2>2. CASE n # Initiator
    <3>1. node[n].map = <<>>
      BY <2>2 DEF JoinInv, TableInv, Others
    <3>2. Len(node[n].map) = 0
      BY <3>1
    <3> QED  BY <3>2 DEF JoinAssumption
  <2> QED  BY <2>1, <2>2
<1>3. ASSUME NEW n \in Nodes
      PROVE  NodeOK(node[n])
  <2> DEFINE s == node[n]
  <2>1. s \in JoinNode /\ Short(s.slot) /\ Len(s.map) <= MAX_NODE_COUNT
    BY <1>1, <1>2
  <2> HIDE DEF s
  <2> QED  BY <2>1 DEF JoinNode, Short, NodeOK, Indices, s
<1> QED  BY <1>1, <1>3 DEF TypeOK

LEMMA InvUnique == JoinInv /\ Room => IndexIsUnique
<1> SUFFICES ASSUME JoinInv, Room, NEW m \in Nodes, NEW n \in Nodes, m # n,
                    node[m].has_index, node[n].has_index
             PROVE  node[m].own # node[n].own
  BY DEF IndexIsUnique
<1>1. Holds(Table, m, node[m].own) /\ Holds(Table, n, node[n].own)
  BY DEF JoinInv, OwnInv
<1>2. PICK i \in DOMAIN Table : Table[i] = [id |-> m, idx |-> node[m].own]
  BY <1>1 DEF Holds
<1>3. PICK j \in DOMAIN Table : Table[j] = [id |-> n, idx |-> node[n].own]
  BY <1>1 DEF Holds
<1>4. i # j
  BY <1>2, <1>3
<1>5. Table[i].idx # Table[j].idx
  BY <1>4 DEF JoinInv, TableInv, TableOK, IdxDiffer
<1> QED  BY <1>2, <1>3, <1>5

LEMMA InvTable == JoinInv /\ Room => TableIsTrue
<1> SUFFICES ASSUME JoinInv, Room PROVE TableIsTrue
  OBVIOUS
<1>1. \A i, j \in DOMAIN Table :
        i # j => Table[i].id # Table[j].id /\ Table[i].idx # Table[j].idx
  BY DEF JoinInv, TableInv, TableOK, IdsDiffer, IdxDiffer
<1>2. \A n \in Nodes : node[n].has_index =>
        \E i \in DOMAIN Table : Table[i] = [id |-> n, idx |-> node[n].own]
  BY DEF JoinInv, OwnInv, Holds
<1> QED  BY <1>1, <1>2 DEF TableIsTrue, Table

LEMMA InvComplete == JoinInv /\ Room => CompleteIsReal
<1> SUFFICES ASSUME JoinInv, Room, NEW n \in Nodes, node[n].complete,
                    NEW i \in DOMAIN Table
             PROVE  LET m == Table[i].id
                    IN node[m].has_index /\ node[m].commit
                         /\ node[m].node_count = Len(Table)
  BY DEF CompleteIsReal, Table
<1>1. node[n].commit /\ 0..(Len(Table) - 1) \subseteq node[n].flags
  BY DEF JoinInv, CompleteInv
<1>2. Table[i].idx \in 0..(Len(Table) - 1)
  <2>1. TableOK(Table)
    BY DEF JoinInv, TableInv
  <2>2. Table[i].idx < Len(Table) /\ Table[i] \in Entries /\ Len(Table) \in Nat
    BY <2>1 DEF TableOK
  <2>3. Table[i].idx \in Nat
    BY <2>2 DEF Entries, Indices
  <2> QED  BY <2>2, <2>3
<1>3. Stands(Table[i].idx)
  BY <1>1, <1>2 DEF JoinInv, FlagsInv
<1>4. PICK m \in Nodes : /\ node[m].has_index /\ node[m].commit
                         /\ node[m].own = Table[i].idx
  BY <1>3 DEF Stands
<1>5. Holds(Table, m, node[m].own)
  BY <1>4 DEF JoinInv, OwnInv
<1>6. PICK j \in DOMAIN Table : Table[j] = [id |-> m, idx |-> node[m].own]
  BY <1>5 DEF Holds
<1>7. j = i
  BY <1>4, <1>6 DEF JoinInv, TableInv, TableOK, IdxDiffer
<1>8. Table[i].id = m
  BY <1>6, <1>7
<1>9. node[m].node_count = Len(Table)
  BY <1>4 DEF JoinInv, CommitInv
<1> QED  BY <1>4, <1>8, <1>9

LEMMA InvForgotten == JoinInv => NobodyForgotten
BY DEF JoinInv
===============================================================================
