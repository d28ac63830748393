--------------------------- MODULE ContourDB_proofs ---------------------------
(***************************************************************************)
(* Proofs about one layer of the contour-context database, for any number  *)
(* of buckets, any values, any keys a scan brings and any two ages.        *)
(***************************************************************************)
EXTENDS ContourDB, FiniteSetTheorems, FunctionTheorems, SequenceTheorems,
        WellFoundedInduction, TLAPS

-----------------------------------------------------------------------------
(* Least and greatest members, sizes of sets.                              *)

LEMMA MaxOfTwo ==
  ASSUME NEW a \in Int, NEW b \in Int
  PROVE  /\ Max({a, b}) = IF a >= b THEN a ELSE b
         /\ Min({a, b}) = IF a <= b THEN a ELSE b
BY DEF Max, Min

LEMMA LeastOf ==
  ASSUME NEW K \in SUBSET Nat, K # {}
  PROVE  Min(K) \in K /\ \A j \in K : Min(K) <= j
<1>1. PICK k \in K : \A j \in K : ~(<<j, k>> \in OpToRel(<, Nat))
  BY NatLessThanWellFounded, WFMin
<1>2. \A j \in K : k <= j
  <2>1. \A j \in Nat : j < k => <<j, k>> \in OpToRel(<, Nat)
    BY DEF OpToRel
  <2>2. ASSUME NEW j \in K PROVE k <= j
    <3>1. ~(j < k)
      BY <1>1, <2>1
    <3> QED
      BY <3>1
  <2> QED
    BY <2>2
<1> QED
  BY <1>2 DEF Min

LEMMA GreatestOf ==
  ASSUME NEW m \in Int, NEW n \in Int, NEW K \in SUBSET (m .. n), K # {}
  PROVE  Max(K) \in K /\ \A j \in K : j <= Max(K)
<1> DEFINE D == {n - k : k \in K}
<1>1. D \in SUBSET Nat /\ D # {}
  <2>1. \A k \in K : n - k \in Nat
    OBVIOUS
  <2>2. PICK k \in K : TRUE
    OBVIOUS
  <2>3. n - k \in D
    BY <2>2
  <2> QED
    BY <2>1, <2>3
<1>2. Min(D) \in D /\ \A d \in D : Min(D) <= d
  BY <1>1, LeastOf
<1>3. PICK k \in K : Min(D) = n - k
  BY <1>2
<1>4. ASSUME NEW j \in K PROVE k >= j
  <2>1. n - k <= n - j
    BY <1>2, <1>3
  <2> QED
    BY <2>1
<1> QED
  BY <1>4 DEF Max

LEMMA FewerMembers ==
  ASSUME NEW U, IsFiniteSet(U), NEW T \in SUBSET U, NEW x \in U, x \notin T
  PROVE  Cardinality(T) \in Nat /\ Cardinality(U) \in Nat /\ Cardinality(T) < Cardinality(U)
<1>1. Cardinality(T) <= Cardinality(U) /\ (Cardinality(U) = Cardinality(T) => U = T) /\ IsFiniteSet(T)
  BY FS_Subset
<1>2. U # T
  OBVIOUS
<1>3. Cardinality(T) \in Nat /\ Cardinality(U) \in Nat
  BY <1>1, FS_CardinalityType
<1> QED
  BY <1>1, <1>2, <1>3

LEMMA FiniteValues == Values \subseteq Int /\ IsFiniteSet(Values)
<1>1. 0 - MaxBucketVal \in Int /\ MaxBucketVal - 1 \in Int
  BY ConstantsAssumption
<1>2. IsFiniteSet(0 - MaxBucketVal .. MaxBucketVal - 1)
  BY <1>1, FS_Interval
<1>3. Values \in SUBSET (0 - MaxBucketVal .. MaxBucketVal - 1)
  BY ConstantsAssumption
<1>4. IsFiniteSet(Values)
  BY <1>2, <1>3, FS_Subset
<1>5. 0 - MaxBucketVal .. MaxBucketVal - 1 \subseteq Int
  OBVIOUS
<1> QED
  BY <1>3, <1>4, <1>5

-----------------------------------------------------------------------------
(* How many keys there are.                                                *)

Places(counts, S) == UNION {{x} \X (1 .. counts[x]) : x \in S}

\* A union of finitely many slices, one for every member of a finite set.
LEMMA FinitePlaces ==
  ASSUME NEW S, IsFiniteSet(S), NEW c, \A x \in S : c[x] \in Nat
  PROVE  IsFiniteSet(Places(c, S)) /\ Amount(c, S) = Cardinality(Places(c, S)) /\ Amount(c, S) \in Nat
<1> DEFINE R == {{x} \X (1 .. c[x]) : x \in S}
           g == [x \in S |-> {x} \X (1 .. c[x])]
<1>1. g \in Surjection(S, R)
  BY DEF Surjection
<1>2. ASSUME NEW x \in S PROVE IsFiniteSet({x} \X (1 .. c[x]))
  <2>1. c[x] \in Nat
    OBVIOUS
  <2>2. IsFiniteSet(1 .. c[x])
    BY <2>1, FS_Interval
  <2>3. IsFiniteSet({x})
    BY FS_Singleton
  <2> QED
    BY <2>2, <2>3, FS_Product
<1>3. \A T \in R : IsFiniteSet(T)
  BY <1>2
<1> HIDE DEF g
<1>4. IsFiniteSet(R)
  <2> HIDE DEF R
  <2> QED
    BY <1>1, FS_Surjection
<1>5. IsFiniteSet(Places(c, S))
  BY <1>3, <1>4, FS_UNION DEF Places
<1>6. Amount(c, S) = Cardinality(Places(c, S))
  BY DEF Amount, Places
<1> QED
  BY <1>5, <1>6, FS_CardinalityType

LEMMA AmountLeq ==
  ASSUME NEW S, IsFiniteSet(S), NEW T \in SUBSET S, NEW c, \A x \in S : c[x] \in Nat
  PROVE  IsFiniteSet(T) /\ Amount(c, T) \in Nat /\ Amount(c, S) \in Nat /\ Amount(c, T) <= Amount(c, S)
<1>1. IsFiniteSet(T)
  BY FS_Subset
<1>2. Places(c, T) \subseteq Places(c, S)
  BY DEF Places
<1> QED
  BY <1>1, <1>2, FinitePlaces, FS_Subset

LEMMA AmountAdd ==
  ASSUME NEW S, IsFiniteSet(S), NEW T, IsFiniteSet(T), S \cap T = {}, NEW c,
         \A x \in S \cup T : c[x] \in Nat
  PROVE  /\ Amount(c, S) \in Nat /\ Amount(c, T) \in Nat
         /\ Amount(c, S \cup T) = Amount(c, S) + Amount(c, T)
<1>1. Places(c, S \cup T) = Places(c, S) \cup Places(c, T)
  BY DEF Places
<1>2. Places(c, S) \cap Places(c, T) = {}
  BY DEF Places
<1>3. IsFiniteSet(S \cup T)
  BY FS_Union
<1>4. /\ IsFiniteSet(Places(c, S)) /\ Amount(c, S) = Cardinality(Places(c, S)) /\ Amount(c, S) \in Nat
      /\ IsFiniteSet(Places(c, T)) /\ Amount(c, T) = Cardinality(Places(c, T)) /\ Amount(c, T) \in Nat
      /\ Amount(c, S \cup T) = Cardinality(Places(c, S \cup T))
  BY <1>3, FinitePlaces
<1>5. Cardinality(Places(c, S) \cup Places(c, T))
        = Cardinality(Places(c, S)) + Cardinality(Places(c, T)) - Cardinality(Places(c, S) \cap Places(c, T))
  BY <1>4, FS_Union
<1>6. Cardinality(Places(c, S) \cap Places(c, T)) = 0
  BY <1>2, FS_EmptySet
<1>7. Amount(c, S \cup T) = Amount(c, S) + Amount(c, T) - 0
  BY <1>1, <1>4, <1>5, <1>6, Zenon
<1> HIDE DEF Places
<1>8. /\ Amount(c, S) \in Nat /\ Amount(c, T) \in Nat
  BY <1>4
<1> QED
  BY <1>7, <1>8

LEMMA AmountOne ==
  ASSUME NEW x, NEW c, c[x] \in Nat
  PROVE  Amount(c, {x}) = c[x]
<1>1. Places(c, {x}) = {x} \X (1 .. c[x])
  BY DEF Places
<1>2. IsFiniteSet(1 .. c[x]) /\ Cardinality(1 .. c[x]) = c[x]
  BY FS_Interval
<1>3. IsFiniteSet({x}) /\ Cardinality({x}) = 1
  BY FS_Singleton
<1>4. Cardinality({x} \X (1 .. c[x])) = c[x]
  <2>1. Cardinality({x} \X (1 .. c[x])) = Cardinality({x}) * Cardinality(1 .. c[x])
    BY <1>2, <1>3, FS_Product
  <2>2. Cardinality({x}) * Cardinality(1 .. c[x]) = c[x]
    BY <1>2, <1>3
  <2> QED
    BY <2>1, <2>2
<1>5. Amount(c, {x}) = Cardinality(Places(c, {x}))
  BY DEF Amount, Places
<1> QED
  BY <1>1, <1>4, <1>5

LEMMA AmountZero ==
  ASSUME NEW S, NEW c, \A x \in S : c[x] = 0
  PROVE  Amount(c, S) = 0
<1>1. Places(c, S) = {}
  BY DEF Places
<1>2. Amount(c, S) = Cardinality(Places(c, S))
  BY DEF Amount, Places
<1> QED
  BY <1>1, <1>2, FS_EmptySet

\* What is there is at some place.
LEMMA AmountSome ==
  ASSUME NEW S, NEW c, \A x \in S : c[x] \in Nat, Amount(c, S) # 0
  PROVE  \E x \in S : c[x] > 0
<1>1. PICK x \in S : c[x] # 0
  BY AmountZero
<1> QED
  BY <1>1

\* No fewer keys anywhere, no fewer keys in all.
LEMMA AmountMono ==
  ASSUME NEW S, IsFiniteSet(S), NEW c, NEW d, \A x \in S : c[x] \in Nat /\ d[x] \in Nat /\ c[x] <= d[x]
  PROVE  Amount(c, S) \in Nat /\ Amount(d, S) \in Nat /\ Amount(c, S) <= Amount(d, S)
<1>1. Places(c, S) \subseteq Places(d, S)
  <2>1. \A x \in S : 1 .. c[x] \subseteq 1 .. d[x]
    OBVIOUS
  <2> QED
    BY <2>1 DEF Places
<1>2. /\ Amount(c, S) = Cardinality(Places(c, S)) /\ Amount(c, S) \in Nat
      /\ IsFiniteSet(Places(d, S)) /\ Amount(d, S) = Cardinality(Places(d, S)) /\ Amount(d, S) \in Nat
  BY FinitePlaces
<1> QED
  BY <1>1, <1>2, FS_Subset

LEMMA AmountSame ==
  ASSUME NEW S, NEW c, NEW d, \A x \in S : c[x] = d[x]
  PROVE  Amount(c, S) = Amount(d, S)
<1>1. {{x} \X (1 .. c[x]) : x \in S} = {{x} \X (1 .. d[x]) : x \in S}
  OBVIOUS
<1> QED
  BY <1>1 DEF Amount

\* The same keys at other places.
LEMMA AmountMap ==
  ASSUME NEW D, NEW K, IsFiniteSet(K), NEW f \in Bijection(D, K), NEW c, NEW d,
         \A x \in K : c[x] \in Nat, \A x \in D : d[x] = c[f[x]]
  PROVE  Amount(d, D) = Amount(c, K)
<1>1. /\ f \in [D -> K] /\ \A x, y \in D : f[x] = f[y] => x = y
      /\ \A y \in K : \E x \in D : f[x] = y
  BY Fun_BijectionProperties
<1> DEFINE P == Places(d, D)
           Q == Places(c, K)
           g == [p \in P |-> <<f[p[1]], p[2]>>]
<1>2. ASSUME NEW p \in P PROVE p[1] \in D /\ p = <<p[1], p[2]>> /\ p[2] \in 1 .. c[f[p[1]]]
  <2>1. PICK x \in D : p \in {x} \X (1 .. d[x])
    BY DEF Places
  <2> QED
    BY <2>1
<1>3. \A x \in D : \A i \in 1 .. c[f[x]] : <<x, i>> \in P
  BY DEF Places
<1>4. ASSUME NEW q \in Q PROVE \E y \in K : \E i \in 1 .. c[y] : q = <<y, i>>
  BY DEF Places
<1>5. \A y \in K : \A i \in 1 .. c[y] : <<y, i>> \in Q
  BY DEF Places
<1> HIDE DEF P, Q
<1>6. g \in [P -> Q]
  BY <1>1, <1>2, <1>5
<1>7. ASSUME NEW p \in P, NEW q \in P, g[p] = g[q] PROVE p = q
  <2>1. f[p[1]] = f[q[1]] /\ p[2] = q[2]
    BY <1>7
  <2>2. p[1] = q[1]
    BY <1>1, <1>2, <2>1
  <2> QED
    BY <1>2, <2>1, <2>2
<1>8. ASSUME NEW q \in Q PROVE \E p \in P : g[p] = q
  <2>0. PICK y \in K : \E i \in 1 .. c[y] : q = <<y, i>>
    BY <1>4
  <2>1. PICK i \in 1 .. c[y] : q = <<y, i>>
    BY <2>0
  <2>2. PICK x \in D : f[x] = y
    BY <1>1
  <2>3. <<x, i>> \in P
    BY <1>3, <2>1, <2>2
  <2> QED
    BY <2>1, <2>2, <2>3
<1>9. g \in Bijection(P, Q)
  BY <1>6, <1>7, <1>8, Fun_IsBij
<1>10. IsFiniteSet(Q) /\ Amount(c, K) = Cardinality(Q)
  BY FinitePlaces DEF Q
<1>11. Cardinality(P) = Cardinality(Q)
  <2>1. ExistsBijection(Q, P)
    <3>1. Inverse(g, P, Q) \in Bijection(Q, P)
      BY <1>9, Fun_BijInverse
    <3> QED
      BY <3>1 DEF ExistsBijection
  <2> QED
    BY <1>10, <2>1, FS_Bijection
<1> QED
  BY <1>10, <1>11 DEF Amount, P, Places

-----------------------------------------------------------------------------
(* Sorting by rank.                                                        *)

LEMMA RankedIs ==
  ASSUME NEW K, IsFiniteSet(K), NEW rank \in [K -> 1 .. Cardinality(K)],
         \A i, j \in K : rank[i] = rank[j] => i = j
  PROVE  /\ Cardinality(K) \in Nat
         /\ Ranked(rank) \in Bijection(1 .. Cardinality(K), K)
         /\ \A k \in 1 .. Cardinality(K) : rank[Ranked(rank)[k]] = k
<1> DEFINE n == Cardinality(K)
           R == Ranked(rank)
<1>1. n \in Nat
  BY FS_CardinalityType
<1>2. IsFiniteSet(1 .. n) /\ Cardinality(1 .. n) = n
  BY <1>1, FS_Interval
<1>3. rank \in Injection(K, 1 .. n)
  BY Fun_IsInj
<1>4. rank \in Surjection(K, 1 .. n)
  BY <1>2, <1>3, FS_Injection
<1>5. \A k \in 1 .. n : \E i \in K : rank[i] = k
  BY <1>4, Fun_SurjectionProperties
<1>6. R = [k \in 1 .. n |-> CHOOSE x \in K : rank[x] = k]
  BY DEF Ranked
<1>7. \A k \in 1 .. n : R[k] \in K /\ rank[R[k]] = k
  BY <1>5, <1>6
<1>8. R \in [1 .. n -> K]
  BY <1>6, <1>7
<1> HIDE DEF R
<1>9. \A i \in K : rank[i] \in 1 .. n /\ R[rank[i]] = i
  BY <1>7
<1>10. \A k, l \in 1 .. n : R[k] = R[l] => k = l
  BY <1>7
<1>11. \A i \in K : \E k \in 1 .. n : R[k] = i
  BY <1>9
<1>12. R \in Bijection(1 .. n, K)
  BY <1>8, <1>10, <1>11, Fun_IsBij
<1> QED
  BY <1>1, <1>7, <1>12 DEF R

\* A rank that counts the members up to one is between 1 and their number.
LEMMA RankBounds ==
  ASSUME NEW K, IsFiniteSet(K), NEW T \in SUBSET K, NEW x \in T
  PROVE  Cardinality(T) \in 1 .. Cardinality(K)
<1>1. IsFiniteSet(T) /\ Cardinality(T) <= Cardinality(K)
  BY FS_Subset
<1>2. Cardinality(T) \in Nat /\ Cardinality(K) \in Nat
  BY <1>1, FS_CardinalityType
<1>3. Cardinality(T) # 0
  BY <1>1, FS_EmptySet
<1> QED
  BY <1>1, <1>2, <1>3

LEMMA AscendingIs ==
  ASSUME NEW S \in SUBSET Int, IsFiniteSet(S)
  PROVE  Cardinality(S) \in Nat /\ Ascending(S) \in Bijection(1 .. Cardinality(S), S)
<1> DEFINE UpThrough(v) == {w \in S : w <= v}
           rank == [v \in S |-> Cardinality(UpThrough(v))]
<1>1. \A v \in S : v \in UpThrough(v) /\ UpThrough(v) \subseteq S
  OBVIOUS
<1>2. ASSUME NEW v \in S, NEW w \in S, v < w PROVE rank[v] < rank[w]
  <2>0. \A x \in S : x \in Int
    OBVIOUS
  <2>1. UpThrough(v) \subseteq UpThrough(w) /\ w \in UpThrough(w) /\ w \notin UpThrough(v)
    <3>1. \A x \in S : x <= v => x <= w
      BY <1>2, <2>0
    <3>2. w <= w /\ ~(w <= v)
      BY <1>2, <2>0
    <3> QED
      BY <3>1, <3>2
  <2>2. IsFiniteSet(UpThrough(w))
    BY <1>1, FS_Subset
  <2> HIDE DEF UpThrough
  <2> QED
    BY <2>1, <2>2, FewerMembers
<1>3. rank \in [S -> 1 .. Cardinality(S)]
  <2> HIDE DEF UpThrough
  <2>1. \A v \in S : Cardinality(UpThrough(v)) \in 1 .. Cardinality(S)
    BY <1>1, RankBounds
  <2> QED
    BY <2>1
<1>4. Ascending(S) = Ranked(rank)
  BY DEF Ascending
<1> HIDE DEF rank
<1>5. \A v, w \in S : rank[v] = rank[w] => v = w
  <2>1. SUFFICES ASSUME NEW v \in S, NEW w \in S, rank[v] = rank[w], v # w PROVE FALSE
    OBVIOUS
  <2>2. (v < w \/ w < v) /\ rank[v] \in 1 .. Cardinality(S) /\ rank[w] \in 1 .. Cardinality(S)
    BY <1>3, <2>1
  <2> QED
    BY <1>2, <2>1, <2>2
<1>6. Cardinality(S) \in Nat /\ Ranked(rank) \in Bijection(1 .. Cardinality(S), S)
  BY <1>3, <1>5, RankedIs
<1> QED
  BY <1>4, <1>6

-----------------------------------------------------------------------------
(* Buffers.                                                                *)

Entry == [value : Values, ts : Nat, count : Nat \ {0}]

LEMMA EntryIs ==
  ASSUME NEW s \in Seq(Entry)
  PROVE  /\ Len(s) \in Nat /\ DOMAIN s = 1 .. Len(s) /\ IsFiniteSet(1 .. Len(s))
         /\ \A i \in 1 .. Len(s) : s[i] \in Entry /\ s[i].value \in Values /\ s[i].value \in Int
                                  /\ s[i].ts \in Nat /\ s[i].count \in Nat
<1>1. Len(s) \in Nat /\ DOMAIN s = 1 .. Len(s)
  BY LenProperties
<1>2. IsFiniteSet(1 .. Len(s))
  BY <1>1, FS_Interval
<1>3. \A i \in 1 .. Len(s) : s[i] \in Entry
  BY ElementOfSeq
<1> QED
  BY <1>1, <1>2, <1>3, FiniteValues DEF Entry

\* Entries sorted by their stamps are the same entries, and in order.
LEMMA SortedIs ==
  ASSUME NEW s \in Seq(Entry), NEW K \in SUBSET (1 .. Len(s)), NEW t, t = Sorted(s, K)
  PROVE  /\ IsFiniteSet(K) /\ t \in Seq(Entry) /\ Len(t) = Cardinality(K)
         /\ \E order \in Bijection(1 .. Len(t), K) : \A k \in 1 .. Len(t) : t[k] = s[order[k]]
         /\ \A k, l \in 1 .. Len(t) : k < l => t[k].ts <= t[l].ts
<1> DEFINE First(i) == {j \in K : s[j].ts < s[i].ts \/ (s[j].ts = s[i].ts /\ j <= i)}
           rank == [i \in K |-> Cardinality(First(i))]
           order == Ranked(rank)
           n == Cardinality(K)
<1>1. IsFiniteSet(K) /\ \A i \in K : i \in Int /\ s[i] \in Entry /\ s[i].ts \in Nat
  <2>1. IsFiniteSet(1 .. Len(s)) /\ \A i \in 1 .. Len(s) : s[i] \in Entry /\ s[i].ts \in Nat
    BY EntryIs
  <2>2. IsFiniteSet(K)
    BY <2>1, FS_Subset
  <2> QED
    BY <2>1, <2>2
<1>2. \A i \in K : i \in First(i) /\ First(i) \subseteq K
  BY <1>1
<1>3. ASSUME NEW i \in K, NEW j \in K, s[i].ts < s[j].ts \/ (s[i].ts = s[j].ts /\ i < j)
      PROVE  rank[i] < rank[j]
  <2>1. First(i) \subseteq First(j)
    <3>1. ASSUME NEW k \in First(i) PROVE k \in First(j)
      <4>1. k \in K /\ k \in Int /\ s[k].ts \in Nat /\ s[i].ts \in Nat /\ s[j].ts \in Nat /\ i \in Int /\ j \in Int
        BY <1>1
      <4>2. s[k].ts < s[i].ts \/ (s[k].ts = s[i].ts /\ k <= i)
        OBVIOUS
      <4>3. s[k].ts < s[j].ts \/ (s[k].ts = s[j].ts /\ k <= j)
        BY <1>3, <4>1, <4>2
      <4> QED
        BY <4>1, <4>3
    <3> QED
      BY <3>1
  <2>2. j \in First(j) /\ j \notin First(i)
    BY <1>1, <1>3
  <2>3. IsFiniteSet(First(j))
    BY <1>1, <1>2, FS_Subset
  <2> HIDE DEF First
  <2> QED
    BY <2>1, <2>2, <2>3, FewerMembers
<1>4. rank \in [K -> 1 .. n]
  <2> HIDE DEF First
  <2>1. \A i \in K : Cardinality(First(i)) \in 1 .. n
    BY <1>1, <1>2, RankBounds
  <2> QED
    BY <2>1
<1>5. t = [k \in DOMAIN order |-> s[order[k]]]
  BY DEF Sorted
<1> HIDE DEF rank, order
<1>6. \A i, j \in K : rank[i] = rank[j] => i = j
  <2>1. SUFFICES ASSUME NEW i \in K, NEW j \in K, rank[i] = rank[j], i # j PROVE FALSE
    OBVIOUS
  <2>2. rank[i] \in Int /\ rank[j] \in Int
    BY <1>4
  <2>3. \/ s[i].ts < s[j].ts \/ (s[i].ts = s[j].ts /\ i < j)
        \/ s[j].ts < s[i].ts \/ (s[j].ts = s[i].ts /\ j < i)
    BY <1>1, <2>1
  <2> QED
    BY <1>3, <2>1, <2>2, <2>3
<1>7. /\ n \in Nat /\ order \in Bijection(1 .. n, K)
      /\ \A k \in 1 .. n : rank[order[k]] = k
  BY <1>1, <1>4, <1>6, RankedIs DEF order
<1>8. order \in [1 .. n -> K]
  BY <1>7, Fun_BijectionProperties
<1>9. t = [k \in 1 .. n |-> s[order[k]]] /\ \A k \in 1 .. n : t[k] \in Entry
  BY <1>1, <1>5, <1>8
<1>10. t \in Seq(Entry) /\ Len(t) = n
  <2>1. t \in [1 .. n -> Entry]
    BY <1>9
  <2> QED
    BY <1>7, <2>1
<1>11. ASSUME NEW k \in 1 .. n, NEW l \in 1 .. n, k < l PROVE t[k].ts <= t[l].ts
  <2>1. /\ order[k] \in K /\ order[l] \in K /\ rank[order[k]] = k /\ rank[order[l]] = l
        /\ k \in Int /\ l \in Int
    BY <1>7, <1>8
  <2>2. ~(s[order[l]].ts < s[order[k]].ts)
    <3>1. SUFFICES ASSUME s[order[l]].ts < s[order[k]].ts PROVE FALSE
      OBVIOUS
    <3>2. rank[order[l]] < rank[order[k]]
      BY <1>3, <2>1, <3>1
    <3> QED
      BY <1>11, <2>1, <3>2
  <2>3. s[order[l]].ts \in Nat /\ s[order[k]].ts \in Nat
    BY <1>1, <2>1
  <2> QED
    BY <1>9, <2>2, <2>3
<1> QED
  BY <1>1, <1>7, <1>9, <1>10, <1>11

\* The number of keys of one value in a buffer.
Counts(s) == [i \in DOMAIN s |-> s[i].count]

LEMMA CountIs ==
  ASSUME NEW s \in Seq(Entry), NEW v
  PROVE  /\ CountOf(s, v) = Amount(Counts(s), {i \in 1 .. Len(s) : s[i].value = v})
         /\ CountOf(s, v) \in Nat
         /\ \A i \in 1 .. Len(s) : Counts(s)[i] = s[i].count /\ Counts(s)[i] \in Nat
         /\ \A K \in SUBSET (1 .. Len(s)) : IsFiniteSet(K) /\ Amount(Counts(s), K) \in Nat
<1>1. /\ DOMAIN s = 1 .. Len(s) /\ IsFiniteSet(1 .. Len(s))
      /\ \A i \in 1 .. Len(s) : s[i].count \in Nat
  BY EntryIs
<1>2. \A i \in 1 .. Len(s) : Counts(s)[i] = s[i].count /\ Counts(s)[i] \in Nat
  BY <1>1 DEF Counts
<1>3. ASSUME NEW K \in SUBSET (1 .. Len(s)) PROVE IsFiniteSet(K) /\ Amount(Counts(s), K) \in Nat
  BY <1>1, <1>2, AmountLeq
<1>4. CountOf(s, v) = Amount(Counts(s), {i \in 1 .. Len(s) : s[i].value = v})
  BY <1>1 DEF CountOf, Counts
<1> QED
  BY <1>2, <1>3, <1>4

\* Entries taken from places of a buffer.
LEMMA CountTaken ==
  ASSUME NEW s \in Seq(Entry), NEW t \in Seq(Entry), NEW K \in SUBSET (1 .. Len(s)),
         NEW order \in Bijection(1 .. Len(t), K), \A k \in 1 .. Len(t) : t[k] = s[order[k]], NEW v
  PROVE  CountOf(t, v) = Amount(Counts(s), {i \in K : s[i].value = v})
<1> DEFINE D == {k \in 1 .. Len(t) : t[k].value = v}
           L == {i \in K : s[i].value = v}
           f == [k \in D |-> order[k]]
<1>1. /\ order \in [1 .. Len(t) -> K] /\ \A k, l \in 1 .. Len(t) : order[k] = order[l] => k = l
      /\ \A i \in K : \E k \in 1 .. Len(t) : order[k] = i
  BY Fun_BijectionProperties
<1>2. f \in [D -> L] /\ \A k, l \in D : f[k] = f[l] => k = l
  BY <1>1
<1>3. ASSUME NEW i \in L PROVE \E k \in D : f[k] = i
  BY <1>1
<1>4. f \in Bijection(D, L)
  BY <1>2, <1>3, Fun_IsBij
<1>5. IsFiniteSet(L) /\ \A i \in L : Counts(s)[i] = s[i].count /\ Counts(s)[i] \in Nat
  BY CountIs
<1>6. \A k \in D : Counts(t)[k] = Counts(s)[f[k]]
  <2>1. \A k \in D : Counts(t)[k] = t[k].count /\ f[k] \in L /\ t[k] = s[f[k]]
    BY <1>2, CountIs
  <2> HIDE DEF D, L, f
  <2>2. ASSUME NEW k \in D PROVE Counts(t)[k] = Counts(s)[f[k]]
    <3>1. f[k] \in L /\ Counts(t)[k] = t[k].count /\ t[k] = s[f[k]]
      BY <2>1, Zenon
    <3>2. Counts(s)[f[k]] = s[f[k]].count
      BY <1>5, <3>1, Zenon
    <3> QED
      BY <3>1, <3>2, Zenon
  <2> QED
    BY <2>2
<1> HIDE DEF L, f
<1>7. CountOf(t, v) = Amount(Counts(t), D)
  BY CountIs
<1> HIDE DEF D
<1>8. Amount(Counts(t), D) = Amount(Counts(s), L)
  BY <1>4, <1>5, <1>6, AmountMap
<1> QED
  BY <1>7, <1>8 DEF L

LEMMA CountConcat ==
  ASSUME NEW s \in Seq(Entry), NEW t \in Seq(Entry), NEW v
  PROVE  s \o t \in Seq(Entry) /\ CountOf(s \o t, v) = CountOf(s, v) + CountOf(t, v)
<1> DEFINE u == s \o t
           m == Len(s)
           n == Len(t)
           first == {i \in 1 .. m : u[i].value = v}
           second == {i \in m + 1 .. m + n : u[i].value = v}
           keep == [i \in 1 .. m |-> i]
           shift == [i \in 1 .. n |-> i + m]
<1>1. m \in Nat /\ n \in Nat
  BY EntryIs
<1>2. /\ u \in Seq(Entry) /\ Len(u) = m + n
      /\ \A i \in 1 .. m + n : u[i] = IF i <= m THEN s[i] ELSE t[i - m]
  BY ConcatProperties
<1> HIDE DEF u
<1>3. CountOf(s, v) = Amount(Counts(u), first)
  <2>1. keep \in Bijection(1 .. Len(s), 1 .. Len(s))
    BY Fun_IsBij
  <2>2. \A k \in 1 .. Len(s) : s[k] = u[keep[k]]
    BY <1>1, <1>2
  <2> DEFINE K == 1 .. Len(s)
  <2>3. K \in SUBSET (1 .. Len(u))
    BY <1>1, <1>2
  <2>4. u \in Seq(Entry) /\ keep \in Bijection(1 .. Len(s), K)
    BY <1>2, <2>1
  <2> HIDE DEF keep, K, m, n
  <2>5. CountOf(s, v) = Amount(Counts(u), {i \in K : u[i].value = v})
    BY <2>2, <2>3, <2>4, CountTaken
  <2> QED
    BY <2>5 DEF K, m, n
<1>4. CountOf(t, v) = Amount(Counts(u), second)
  <2> DEFINE K == Len(s) + 1 .. Len(s) + Len(t)
  <2>1. shift \in Bijection(1 .. Len(t), K)
    <3>1. shift \in [1 .. Len(t) -> K] /\ \A i, j \in 1 .. Len(t) : shift[i] = shift[j] => i = j
      BY <1>1
    <3>2. ASSUME NEW j \in K PROVE \E i \in 1 .. Len(t) : shift[i] = j
      <4>1. j - m \in 1 .. Len(t) /\ shift[j - m] = j
        BY <1>1
      <4> QED
        BY <4>1
    <3> QED
      BY <3>1, <3>2, Fun_IsBij
  <2>2. \A k \in 1 .. Len(t) : t[k] = u[shift[k]]
    <3>1. \A k \in 1 .. n : shift[k] = k + m /\ k + m \in 1 .. m + n /\ ~(k + m <= m) /\ (k + m) - m = k
      BY <1>1
    <3> QED
      BY <1>2, <3>1
  <2>3. K \in SUBSET (1 .. Len(u))
    BY <1>1, <1>2
  <2>4. u \in Seq(Entry)
    BY <1>2
  <2> HIDE DEF shift, K, m, n
  <2>5. CountOf(t, v) = Amount(Counts(u), {i \in K : u[i].value = v})
    BY <2>1, <2>2, <2>3, <2>4, CountTaken
  <2> QED
    BY <2>5 DEF K, m, n
<1>5. {i \in 1 .. Len(u) : u[i].value = v} = first \cup second /\ first \cap second = {}
  BY <1>1, <1>2
<1>6. /\ IsFiniteSet(first) /\ IsFiniteSet(second)
      /\ \A i \in first \cup second : Counts(u)[i] \in Nat
      /\ CountOf(u, v) = Amount(Counts(u), {i \in 1 .. Len(u) : u[i].value = v})
  <2>1. first \in SUBSET (1 .. Len(u)) /\ second \in SUBSET (1 .. Len(u))
    BY <1>1, <1>2
  <2> HIDE DEF first, second
  <2> QED
    BY <1>2, <2>1, CountIs
<1> HIDE DEF first, second
<1>7. CountOf(u, v) = Amount(Counts(u), first) + Amount(Counts(u), second)
  BY <1>5, <1>6, AmountAdd
<1> QED
  BY <1>2, <1>3, <1>4, <1>7 DEF u

\* A buffer cut in two.
Due(s, g) == SubSeq(s, 1, g)
Rest(s, g) == SubSeq(s, g + 1, Len(s))

LEMMA CountSplit ==
  ASSUME NEW s \in Seq(Entry), NEW g \in 0 .. Len(s), NEW v
  PROVE  /\ Due(s, g) \in Seq(Entry) /\ Rest(s, g) \in Seq(Entry) /\ Len(Rest(s, g)) = Len(s) - g
         /\ \A i \in 1 .. Len(s) - g : Rest(s, g)[i] = s[i + g] /\ i + g \in 1 .. Len(s)
         /\ CountOf(s, v) = CountOf(Due(s, g), v) + CountOf(Rest(s, g), v)
<1> DEFINE p == SubSeq(s, 1, g)
           q == SubSeq(s, g + 1, Len(s))
<1>1. Len(s) \in Nat /\ g \in Nat /\ g <= Len(s) /\ \A i \in 1 .. Len(s) : s[i] \in Entry
  BY EntryIs
<1>2. /\ p \in Seq(Entry) /\ Len(p) = IF 1 <= g THEN g - 1 + 1 ELSE 0
      /\ \A i \in 1 .. g - 1 + 1 : p[i] = s[1 + i - 1]
  <2>1. \A i \in 1 .. g : s[i] \in Entry
    BY <1>1
  <2> QED
    BY <1>1, <2>1, SubSeqProperties
<1>3. /\ q \in Seq(Entry) /\ Len(q) = IF g + 1 <= Len(s) THEN Len(s) - (g + 1) + 1 ELSE 0
      /\ \A i \in 1 .. Len(s) - (g + 1) + 1 : q[i] = s[g + 1 + i - 1]
  <2>1. (\A i \in g + 1 .. Len(s) : s[i] \in Entry) /\ g + 1 \in Int /\ Len(s) \in Int
    BY <1>1
  <2> QED
    BY <2>1, SubSeqProperties
<1>5. /\ Len(q) = Len(s) - g
      /\ \A i \in 1 .. Len(s) - g : q[i] = s[i + g] /\ i + g \in 1 .. Len(s)
  <2>1. /\ Len(s) - (g + 1) + 1 = Len(s) - g
        /\ \A i \in 1 .. Len(s) - g : g + 1 + i - 1 = i + g /\ i + g \in 1 .. Len(s)
    BY <1>1
  <2>2. Len(q) = Len(s) - g
    BY <1>1, <1>3
  <2>3. \A i \in 1 .. Len(s) - g : q[i] = s[g + 1 + i - 1]
    BY <1>3, <2>1
  <2> QED
    BY <2>1, <2>2, <2>3
<1>6. p \o q = s
  <2>1. SubSeq(s, 1, g) \o SubSeq(s, g + 1, Len(s)) = SubSeq(s, 1, Len(s))
    <3>1. 1 \in 1 .. Len(s) + 1 /\ g \in 1 - 1 .. Len(s) /\ Len(s) \in g .. Len(s)
      BY <1>1
    <3> QED
      BY <3>1, ConcatAdjacentSubSeq
  <2> QED
    BY <2>1, SubSeqFull
<1> HIDE DEF p, q
<1>7. CountOf(p \o q, v) = CountOf(p, v) + CountOf(q, v)
  <2>1. \A a, b \in Seq(Entry) : CountOf(a \o b, v) = CountOf(a, v) + CountOf(b, v)
    BY CountConcat
  <2> QED
    BY <1>2, <1>3, <2>1, Zenon
<1> QED
  BY <1>2, <1>3, <1>5, <1>6, <1>7 DEF Due, Rest, p, q

\* The entries on one side of a boundary, sorted.
LEMMA CountParted ==
  ASSUME NEW s \in Seq(Entry), NEW split \in Int, NEW v \in Int
  PROVE  /\ CountOf(Sorted(s, {i \in DOMAIN s : s[i].value < split}), v)
              = IF v < split THEN CountOf(s, v) ELSE 0
         /\ CountOf(Sorted(s, {i \in DOMAIN s : s[i].value >= split}), v)
              = IF v >= split THEN CountOf(s, v) ELSE 0
<1> DEFINE below == {i \in 1 .. Len(s) : s[i].value < split}
           above == {i \in 1 .. Len(s) : s[i].value >= split}
<1>1. DOMAIN s = 1 .. Len(s)
  BY EntryIs
<1>2. ASSUME NEW K \in SUBSET (1 .. Len(s))
      PROVE  CountOf(Sorted(s, K), v) = Amount(Counts(s), {i \in K : s[i].value = v})
  <2> DEFINE t == Sorted(s, K)
  <2>1. /\ t \in Seq(Entry)
        /\ \E order \in Bijection(1 .. Len(t), K) : \A k \in 1 .. Len(t) : t[k] = s[order[k]]
    BY SortedIs
  <2> HIDE DEF t
  <2>2. CountOf(t, v) = Amount(Counts(s), {i \in K : s[i].value = v})
    BY <2>1, CountTaken
  <2> QED
    BY <2>2 DEF t
<1>3. CountOf(s, v) = Amount(Counts(s), {i \in 1 .. Len(s) : s[i].value = v})
  BY CountIs
<1>4. Amount(Counts(s), {}) = 0
  BY AmountZero
<1>5. /\ {i \in below : s[i].value = v} = IF v < split THEN {i \in 1 .. Len(s) : s[i].value = v} ELSE {}
      /\ {i \in above : s[i].value = v} = IF v >= split THEN {i \in 1 .. Len(s) : s[i].value = v} ELSE {}
  OBVIOUS
<1>6. /\ CountOf(Sorted(s, below), v) = IF v < split THEN CountOf(s, v) ELSE 0
      /\ CountOf(Sorted(s, above), v) = IF v >= split THEN CountOf(s, v) ELSE 0
  <2>1. /\ CountOf(Sorted(s, below), v) = Amount(Counts(s), {i \in below : s[i].value = v})
        /\ CountOf(Sorted(s, above), v) = Amount(Counts(s), {i \in above : s[i].value = v})
    BY <1>2
  <2> HIDE DEF below, above
  <2> QED
    BY <1>3, <1>4, <1>5, <2>1
<1> QED
  BY <1>1, <1>6

-----------------------------------------------------------------------------
(* Sorted trees and where they are cut.                                    *)

Tree == [Values -> Nat]
UpTo(v, fromTop) == Before(v, fromTop) \cup {v}

LEMMA NearerIs ==
  ASSUME NEW fromTop \in BOOLEAN, NEW v \in Int, NEW w \in Int
  PROVE  /\ ~Nearer(v, v, fromTop)
         /\ v = w \/ Nearer(v, w, fromTop) \/ Nearer(w, v, fromTop)
         /\ ~(Nearer(v, w, fromTop) /\ Nearer(w, v, fromTop))
         /\ \A x \in Int : Nearer(v, w, fromTop) /\ Nearer(w, x, fromTop) => Nearer(v, x, fromTop)
BY DEF Nearer

\* A set of values has a nearest and a farthest one.
LEMMA Extremes ==
  ASSUME NEW fromTop \in BOOLEAN, NEW K \in SUBSET Values, K # {}
  PROVE  /\ \E v \in K : \A w \in K : ~Nearer(w, v, fromTop)
         /\ \E v \in K : \A w \in K : ~Nearer(v, w, fromTop)
<1>1. MaxBucketVal \in Nat /\ K \subseteq Int /\ K \in SUBSET (0 - MaxBucketVal .. MaxBucketVal - 1)
  BY FiniteValues, ConstantsAssumption
<1>2. PICK hi \in K : \A w \in K : w <= hi
  <2>1. 0 - MaxBucketVal \in Int /\ MaxBucketVal - 1 \in Int
    BY <1>1
  <2>2. Max(K) \in K /\ \A w \in K : w <= Max(K)
    BY <1>1, <2>1, GreatestOf
  <2> QED
    BY <2>2
<1>3. PICK lo \in K : \A w \in K : lo <= w
  <2> DEFINE N == {0 - k : k \in K}
  <2>1. N \in SUBSET (1 - MaxBucketVal .. MaxBucketVal) /\ N # {}
    BY <1>1
  <2>2. Max(N) \in N /\ \A j \in N : j <= Max(N)
    <3>1. 1 - MaxBucketVal \in Int /\ MaxBucketVal \in Int
      BY <1>1
    <3> HIDE DEF N
    <3> QED
      BY <2>1, <3>1, GreatestOf
  <2>3. PICK k \in K : Max(N) = 0 - k
    BY <2>2
  <2>4. ASSUME NEW w \in K PROVE k <= w
    <3>1. 0 - w <= 0 - k
      BY <2>2, <2>3
    <3> QED
      BY <1>1, <3>1
  <2> QED
    BY <2>4
<1>4. \A w \in K : w \in Int /\ lo \in Int /\ hi \in Int /\ ~(w > hi) /\ ~(w < lo)
  BY <1>1, <1>2, <1>3
<1>5. CASE fromTop
  <2>1. \A w \in K : ~Nearer(w, hi, fromTop) /\ ~Nearer(lo, w, fromTop)
    BY <1>4, <1>5 DEF Nearer
  <2> QED
    BY <2>1
<1>6. CASE ~fromTop
  <2>1. \A w \in K : ~Nearer(w, lo, fromTop) /\ ~Nearer(hi, w, fromTop)
    BY <1>4, <1>6 DEF Nearer
  <2> QED
    BY <2>1
<1> QED
  BY <1>5, <1>6

LEMMA UpToIs ==
  ASSUME NEW fromTop \in BOOLEAN, NEW tree \in Tree, NEW v \in Values
  PROVE  /\ Amount(tree, Before(v, fromTop)) \in Nat /\ Amount(tree, UpTo(v, fromTop)) \in Nat
         /\ tree[v] \in Nat
         /\ Amount(tree, UpTo(v, fromTop)) = Amount(tree, Before(v, fromTop)) + tree[v]
         /\ \A w \in Values : Nearer(w, v, fromTop) =>
              Amount(tree, UpTo(w, fromTop)) <= Amount(tree, Before(v, fromTop))
<1>1. Before(v, fromTop) \in SUBSET Values /\ v \notin Before(v, fromTop) /\ v \in Int
  BY FiniteValues, NearerIs DEF Before
<1>2. IsFiniteSet(Before(v, fromTop)) /\ IsFiniteSet({v})
  BY <1>1, FiniteValues, FS_Subset, FS_Singleton
<1>3. \A w \in Values : tree[w] \in Nat
  BY DEF Tree
<1>4. /\ Amount(tree, Before(v, fromTop)) \in Nat
      /\ Amount(tree, Before(v, fromTop) \cup {v}) = Amount(tree, Before(v, fromTop)) + Amount(tree, {v})
  <2>1. Before(v, fromTop) \cap {v} = {} /\ \A w \in Before(v, fromTop) \cup {v} : tree[w] \in Nat
    BY <1>1, <1>3
  <2> QED
    BY <1>2, <2>1, AmountAdd
<1>5. Amount(tree, {v}) = tree[v]
  BY <1>3, AmountOne
<1>6. ASSUME NEW w \in Values, Nearer(w, v, fromTop)
      PROVE  Amount(tree, UpTo(w, fromTop)) <= Amount(tree, Before(v, fromTop))
  <2>1. UpTo(w, fromTop) \in SUBSET Before(v, fromTop)
    BY <1>6, FiniteValues, NearerIs DEF UpTo, Before
  <2>2. \A x \in Before(v, fromTop) : tree[x] \in Nat
    BY <1>1, <1>3
  <2> QED
    BY <1>2, <2>1, <2>2, AmountLeq
<1> QED
  BY <1>3, <1>4, <1>5, <1>6 DEF UpTo

LEMMA SizeNat ==
  ASSUME NEW tree \in Tree
  PROVE  Size(tree) \in Nat
BY FiniteValues, FinitePlaces DEF Tree, Size

LEMMA SizeMono ==
  ASSUME NEW c \in Tree, NEW d \in Tree, \A v \in Values : c[v] <= d[v]
  PROVE  Size(c) \in Nat /\ Size(d) \in Nat /\ Size(c) <= Size(d)
<1>1. \A v \in Values : c[v] \in Nat /\ d[v] \in Nat /\ c[v] <= d[v]
  BY DEF Tree
<1> QED
  BY <1>1, FiniteValues, AmountMono DEF Size

\* A tree of the keys of two trees that have no value in common.
LEMMA SizeAdd ==
  ASSUME NEW c \in Tree, NEW d \in Tree, NEW e \in Tree,
         \A v \in Values : e[v] = c[v] + d[v] /\ (c[v] = 0 \/ d[v] = 0)
  PROVE  Size(c) \in Nat /\ Size(d) \in Nat /\ Size(e) = Size(c) + Size(d)
<1> DEFINE M == {v \in Values : d[v] = 0}
           R == Values \ M
<1>1. \A v \in Values : c[v] \in Nat /\ d[v] \in Nat /\ e[v] \in Nat
  BY DEF Tree
<1>2. /\ M \cup R = Values /\ M \cap R = {} /\ M \in SUBSET Values /\ R \in SUBSET Values
      /\ \A v \in M : d[v] = 0 /\ e[v] = c[v]
      /\ \A v \in R : c[v] = 0 /\ e[v] = d[v]
  BY <1>1
<1> HIDE DEF M, R
<1>3. IsFiniteSet(M) /\ IsFiniteSet(R)
  BY <1>2, FiniteValues, FS_Subset
<1>4. ASSUME NEW t \in Tree
      PROVE  /\ Amount(t, M) \in Nat /\ Amount(t, R) \in Nat
             /\ Size(t) = Amount(t, M) + Amount(t, R)
  <2>1. \A v \in M \cup R : t[v] \in Nat
    BY <1>2 DEF Tree
  <2>2. /\ Amount(t, M) \in Nat /\ Amount(t, R) \in Nat
        /\ Amount(t, M \cup R) = Amount(t, M) + Amount(t, R)
    BY <1>2, <1>3, <2>1, AmountAdd
  <2>3. Size(t) = Amount(t, M \cup R)
    BY <1>2 DEF Size
  <2> QED
    BY <2>2, <2>3
<1>5. Amount(e, M) = Amount(c, M) /\ Amount(e, R) = Amount(d, R)
  BY <1>2, AmountSame
<1>6. Amount(d, M) = 0 /\ Amount(c, R) = 0
  BY <1>2, AmountZero
<1> QED
  BY <1>4, <1>5, <1>6

\* All keys of some values are taken out of a tree and put into one that has
\* none of these.
LEMMA SizeMoved ==
  ASSUME NEW from \in Tree, NEW to \in Tree, NEW moved \in Tree, NEW left \in Tree, NEW joined \in Tree,
         \A v \in Values : /\ left[v] = from[v] - moved[v] /\ joined[v] = to[v] + moved[v]
                           /\ moved[v] = 0 \/ moved[v] = from[v]
                           /\ from[v] = 0 \/ to[v] = 0
  PROVE  /\ Size(from) \in Nat /\ Size(to) \in Nat /\ Size(moved) \in Nat
         /\ Size(left) = Size(from) - Size(moved) /\ Size(joined) = Size(to) + Size(moved)
<1>1. \A v \in Values : /\ from[v] \in Nat /\ to[v] \in Nat /\ moved[v] \in Nat
                        /\ left[v] \in Nat /\ joined[v] \in Nat
  BY DEF Tree
<1>2. \A v \in Values : from[v] = left[v] + moved[v] /\ (left[v] = 0 \/ moved[v] = 0)
  BY <1>1
<1>3. \A v \in Values : joined[v] = to[v] + moved[v] /\ (to[v] = 0 \/ moved[v] = 0)
  BY <1>1
<1>4. Size(left) \in Nat /\ Size(moved) \in Nat /\ Size(from) = Size(left) + Size(moved)
  BY <1>2, SizeAdd
<1>5. Size(to) \in Nat /\ Size(joined) = Size(to) + Size(moved)
  BY <1>3, SizeAdd
<1> QED
  BY <1>4, <1>5

\* The n-th key is of the nearest value up to which there are n keys.
LEMMA NthIs ==
  ASSUME NEW fromTop \in BOOLEAN, NEW tree \in Tree, NEW n \in 1 .. Size(tree),
         NEW x, x = Nth(SortPermu(tree, fromTop), n, fromTop)
  PROVE  /\ x \in Values /\ tree[x] > 0 /\ Amount(tree, UpTo(x, fromTop)) >= n
         /\ \A w \in Values : tree[w] > 0 /\ Nearer(w, x, fromTop) =>
              Amount(tree, UpTo(w, fromTop)) < n
<1> DEFINE there == {v \in Values : tree[v] > 0}
           S == SortPermu(tree, fromTop)
           reached == {v \in DOMAIN S : S[v] >= n}
<1>1. \A v \in Values : tree[v] \in Nat
  BY DEF Tree
<1>2. Size(tree) \in Nat /\ n \in Nat /\ n >= 1 /\ n <= Size(tree)
  BY SizeNat
<1>3. DOMAIN S = there /\ \A v \in there : S[v] = Amount(tree, UpTo(v, fromTop))
  BY DEF SortPermu, UpTo
<1>4. \A v \in there : v \in Values /\ Amount(tree, UpTo(v, fromTop)) \in Nat
  BY UpToIs
<1>5. there # {}
  <2>1. Amount(tree, Values) # 0
    BY <1>2 DEF Size
  <2> QED
    BY <1>1, <2>1, AmountSome
<1>6. PICK z \in there : \A w \in there : ~Nearer(z, w, fromTop)
  BY <1>5, Extremes
<1>7. Amount(tree, UpTo(z, fromTop)) = Size(tree)
  <2> DEFINE U == UpTo(z, fromTop)
             R == Values \ U
  <2>1. U \subseteq Values /\ Values = U \cup R /\ U \cap R = {}
    BY DEF UpTo, Before
  <2>2. \A w \in R : tree[w] = 0
    <3>1. SUFFICES ASSUME NEW w \in Values, w \notin U, tree[w] # 0 PROVE FALSE
      OBVIOUS
    <3>2. w # z /\ ~Nearer(w, z, fromTop) /\ w \in Int /\ z \in Int
      BY <3>1, FiniteValues DEF UpTo, Before
    <3>3. Nearer(z, w, fromTop)
      BY <3>2, NearerIs
    <3>4. w \in there
      BY <1>1, <3>1
    <3> QED
      BY <1>6, <3>3, <3>4
  <2> HIDE DEF U, R
  <2>3. IsFiniteSet(U) /\ IsFiniteSet(R)
    <3>1. U \in SUBSET Values /\ R \in SUBSET Values
      BY <2>1
    <3> QED
      BY <3>1, FiniteValues, FS_Subset
  <2>4. /\ Amount(tree, U) \in Nat
        /\ Amount(tree, U \cup R) = Amount(tree, U) + Amount(tree, R)
    <3>1. \A w \in U \cup R : tree[w] \in Nat
      BY <1>1, <2>1
    <3> QED
      BY <2>1, <2>3, <3>1, AmountAdd
  <2>5. Amount(tree, R) = 0
    BY <2>2, AmountZero
  <2>6. Amount(tree, U) = Amount(tree, Values)
    BY <2>1, <2>4, <2>5
  <2> QED
    BY <2>6 DEF U, Size
<1>8. reached # {} /\ reached \in SUBSET Values /\ reached \subseteq there
  BY <1>2, <1>3, <1>6, <1>7
<1>9. x = CHOOSE v \in reached : \A w \in reached : ~Nearer(w, v, fromTop)
  BY <1>2, <1>8 DEF Nth
<1>10. x \in reached /\ \A w \in reached : ~Nearer(w, x, fromTop)
  <2> HIDE DEF reached
  <2>1. \E v \in reached : \A w \in reached : ~Nearer(w, v, fromTop)
    BY <1>8, Extremes
  <2> QED
    BY <1>9, <2>1
<1>11. x \in there /\ Amount(tree, UpTo(x, fromTop)) >= n
  BY <1>3, <1>10
<1>12. ASSUME NEW w \in Values, tree[w] > 0, Nearer(w, x, fromTop)
       PROVE  Amount(tree, UpTo(w, fromTop)) < n
  <2>1. w \in there /\ w \notin reached
    BY <1>10, <1>12
  <2>2. ~(S[w] >= n) /\ S[w] = Amount(tree, UpTo(w, fromTop))
    BY <1>3, <2>1
  <2>3. Amount(tree, UpTo(w, fromTop)) \in Nat
    BY <1>4, <2>1
  <2> QED
    BY <1>2, <2>2, <2>3
<1> QED
  BY <1>11, <1>12

\* The number of keys to move is 0 or a place where the value changes, and
\* each tree has no less than four ninths of the keys afterwards.
LEMMA NumIs ==
  ASSUME NEW fromTop \in BOOLEAN, NEW S, NEW large \in Nat, NEW small \in Nat, small <= large,
         NEW n, n = NumToMove(S, large, small, fromTop)
  PROVE  \/ n = 0
         \/ /\ n \in 1 .. large - 1 /\ Nth(S, n, fromTop) # Nth(S, n + 1, fromTop)
            /\ 9 * (large - n) >= 4 * (large + small)
            /\ large >= 9 => 9 * (small + n) >= 4 * (large + small)
<1> DEFINE maxMove == (5 * (large - small) + small) \div 9
           mid     == (large - small) \div 2
           minMove == Max({0, (5 * (large - small) - large) \div 9})
           strip   == Nth(S, mid, fromTop)
           fewer   == {i \in minMove + 1 .. mid - 1 : Nth(S, i, fromTop) # strip}
           more    == {i \in mid + 1 .. maxMove - 1 : Nth(S, i, fromTop) # strip}
<1>1. /\ mid \in Nat /\ (mid # 0 => mid <= large - 1)
      /\ maxMove \in Nat /\ maxMove <= large
      /\ 2 * mid <= large - small /\ 2 * mid >= large - small - 1
      /\ 9 * maxMove <= 5 * (large - small) + small
  OBVIOUS
<1>2. minMove \in Nat /\ 9 * (minMove + 1) > 5 * (large - small) - large
  <2> DEFINE k == (5 * (large - small) - large) \div 9
  <2>1. k \in Int /\ 9 * (k + 1) > 5 * (large - small) - large
    OBVIOUS
  <2> HIDE DEF k
  <2>2. Max({0, k}) = IF 0 >= k THEN 0 ELSE k
    BY <2>1, MaxOfTwo
  <2>3. minMove = IF 0 >= k THEN 0 ELSE k
    BY <2>2 DEF k
  <2> QED
    BY <2>1, <2>3
<1>3. n = CASE Nth(S, mid + 1, fromTop) # strip -> mid
            [] Nth(S, mid + 1, fromTop) = strip /\ fewer # {} -> Max(fewer)
            [] Nth(S, mid + 1, fromTop) = strip /\ fewer = {} /\ more # {} -> Min(more) - 1
            [] OTHER -> 0
  BY DEF NumToMove
<1>4. /\ fewer \in SUBSET (minMove + 1 .. mid - 1)
      /\ \A i \in minMove + 1 .. mid - 1 : i \in fewer <=> Nth(S, i, fromTop) # strip
      /\ more \in SUBSET (mid + 1 .. maxMove - 1)
      /\ \A i \in mid + 1 .. maxMove - 1 : i \in more <=> Nth(S, i, fromTop) # strip
  OBVIOUS
<1> HIDE DEF maxMove, minMove, fewer, more
<1>5. CASE Nth(S, mid + 1, fromTop) # strip
  BY <1>1, <1>3, <1>5
<1> HIDE DEF mid
<1>6. CASE Nth(S, mid + 1, fromTop) = strip /\ fewer # {}
  <2>1. n = Max(fewer)
    BY <1>3, <1>6
  <2>2. n \in fewer /\ \A j \in fewer : j <= n
    <3>1. minMove + 1 \in Int /\ mid - 1 \in Int
      BY <1>1, <1>2
    <3> QED
      BY <1>4, <1>6, <2>1, <3>1, GreatestOf
  <2>3. n \in 1 .. large - 1 /\ n + 1 <= mid /\ minMove + 1 <= n
    BY <1>1, <1>2, <1>4, <2>2
  <2>4. Nth(S, n, fromTop) # strip
    BY <1>4, <2>2
  <2>5. Nth(S, n + 1, fromTop) = strip
    <3>1. CASE n + 1 = mid
      BY <3>1
    <3>2. CASE n + 1 # mid
      <4>1. n + 1 \in minMove + 1 .. mid - 1 /\ ~(n + 1 <= n)
        BY <1>1, <1>2, <2>3, <3>2
      <4>2. n + 1 \notin fewer
        BY <2>2, <4>1
      <4> QED
        BY <1>4, <4>1, <4>2
    <3> QED
      BY <3>1, <3>2
  <2>6. 9 * (large - n) >= 4 * (large + small) /\ 9 * (small + n) >= 4 * (large + small)
    BY <1>1, <1>2, <2>3
  <2> QED
    BY <2>3, <2>4, <2>5, <2>6
<1>7. CASE Nth(S, mid + 1, fromTop) = strip /\ fewer = {} /\ more # {}
  <2> DEFINE i == Min(more)
  <2>1. n = i - 1
    BY <1>3, <1>7
  <2>2. i \in more /\ \A j \in more : i <= j
    <3>1. more \in SUBSET Nat
      BY <1>1, <1>4
    <3> QED
      BY <1>7, <3>1, LeastOf
  <2> HIDE DEF i
  <2>3. i \in mid + 1 .. maxMove - 1 /\ Nth(S, i, fromTop) # strip
    BY <1>4, <2>2
  <2>4. i # mid + 1
    BY <1>7, <2>3
  <2>5. n \in 1 .. large - 1 /\ n + 1 = i /\ n \in mid + 1 .. maxMove - 1 /\ ~(i <= n)
    BY <1>1, <2>1, <2>3, <2>4
  <2>6. Nth(S, n, fromTop) = strip
    BY <1>4, <2>2, <2>5
  <2>7. /\ 9 * (large - n) >= 4 * (large + small)
        /\ large >= 9 => 9 * (small + n) >= 4 * (large + small)
    BY <1>1, <2>5
  <2> QED
    BY <2>3, <2>5, <2>6, <2>7
<1>8. CASE Nth(S, mid + 1, fromTop) = strip /\ fewer = {} /\ more = {}
  BY <1>3, <1>8
<1> QED
  BY <1>5, <1>6, <1>7, <1>8

\* Where the value changes the sorted tree can be cut: the keys up to one
\* value are the n nearest, and the others are beyond it.
LEMMA CutPoint ==
  ASSUME NEW fromTop \in BOOLEAN, NEW tree \in Tree, NEW n \in 1 .. Size(tree) - 1,
         NEW x, x = Nth(SortPermu(tree, fromTop), n, fromTop),
         NEW y, y = Nth(SortPermu(tree, fromTop), n + 1, fromTop), x # y
  PROVE  /\ x \in Values /\ y \in Values /\ tree[x] > 0 /\ tree[y] > 0 /\ Nearer(x, y, fromTop)
         /\ \A v \in Values : tree[v] > 0 =>
              v = x \/ Nearer(v, x, fromTop) \/ v = y \/ Nearer(y, v, fromTop)
         /\ \A v \in Values :
              Given(tree, n, fromTop)[v] = IF v = x \/ Nearer(v, x, fromTop) THEN tree[v] ELSE 0
         /\ Size(Given(tree, n, fromTop)) = n
<1> DEFINE U(v) == Amount(tree, UpTo(v, fromTop))
           B(v) == Amount(tree, Before(v, fromTop))
<1>1. Size(tree) \in Nat /\ n \in Nat /\ n \in 1 .. Size(tree) /\ n + 1 \in 1 .. Size(tree)
  BY SizeNat
<1>2. /\ x \in Values /\ tree[x] > 0 /\ U(x) >= n
      /\ \A w \in Values : tree[w] > 0 /\ Nearer(w, x, fromTop) => U(w) < n
  BY <1>1, NthIs
<1>3. /\ y \in Values /\ tree[y] > 0 /\ U(y) >= n + 1
      /\ \A w \in Values : tree[w] > 0 /\ Nearer(w, y, fromTop) => U(w) < n + 1
  BY <1>1, NthIs
<1>4. \A v \in Values : /\ B(v) \in Nat /\ U(v) \in Nat /\ tree[v] \in Nat /\ v \in Int /\ U(v) = B(v) + tree[v]
                        /\ \A w \in Values : Nearer(w, v, fromTop) => U(w) <= B(v)
  BY UpToIs, FiniteValues
<1> HIDE DEF U, B
<1>5. Nearer(x, y, fromTop)
  <2>1. ~Nearer(y, x, fromTop)
    <3>1. ~(U(y) < n)
      BY <1>1, <1>3, <1>4
    <3> QED
      BY <1>2, <1>3, <3>1
  <2> QED
    BY <1>2, <1>3, <1>4, <2>1, NearerIs
<1>6. U(x) = n
  <2>1. U(x) < n + 1
    BY <1>2, <1>3, <1>5
  <2> QED
    BY <1>1, <1>2, <1>4, <2>1
<1>7. ASSUME NEW v \in Values, tree[v] > 0
      PROVE  v = x \/ Nearer(v, x, fromTop) \/ v = y \/ Nearer(y, v, fromTop)
  <2>1. SUFFICES ASSUME v # x, ~Nearer(v, x, fromTop), v # y, ~Nearer(y, v, fromTop) PROVE FALSE
    OBVIOUS
  <2>2. Nearer(x, v, fromTop) /\ Nearer(v, y, fromTop)
    BY <1>2, <1>3, <1>4, <2>1, NearerIs
  <2>3. U(v) < n + 1 /\ U(x) <= B(v)
    BY <1>2, <1>3, <1>4, <1>7, <2>2
  <2> QED
    BY <1>1, <1>4, <1>6, <1>7, <2>3
<1>8. ASSUME NEW v \in Values
      PROVE  Given(tree, n, fromTop)[v] = IF v = x \/ Nearer(v, x, fromTop) THEN tree[v] ELSE 0
  <2>1. Given(tree, n, fromTop)[v] = Max({0, Min({tree[v], n - B(v)})})
    BY DEF Given, B
  <2>2. B(v) \in Nat /\ tree[v] \in Nat /\ U(v) = B(v) + tree[v] /\ v \in Int
    BY <1>4
  <2>3. Min({tree[v], n - B(v)}) = IF tree[v] <= n - B(v) THEN tree[v] ELSE n - B(v)
    <3>1. tree[v] \in Int /\ n - B(v) \in Int
      BY <1>1, <2>2
    <3> QED
      BY <3>1, MaxOfTwo
  <2>4. CASE v = x \/ Nearer(v, x, fromTop)
    <3>1. U(v) <= n
      <4>1. CASE v = x
        BY <1>1, <1>6, <4>1
      <4>2. CASE Nearer(v, x, fromTop)
        <5>1. U(v) <= B(x) /\ B(x) <= U(x) /\ B(x) \in Nat /\ U(v) \in Nat
          BY <1>2, <1>4, <4>2
        <5> QED
          BY <1>1, <1>6, <5>1
      <4> QED
        BY <2>4, <4>1, <4>2
    <3>2. Min({tree[v], n - B(v)}) = tree[v]
      BY <1>1, <2>2, <2>3, <3>1
    <3>3. Max({0, tree[v]}) = tree[v]
      BY <2>2, MaxOfTwo
    <3> QED
      BY <2>1, <2>4, <3>2, <3>3
  <2>5. CASE ~(v = x \/ Nearer(v, x, fromTop))
    <3>1. Nearer(x, v, fromTop)
      BY <1>2, <1>4, <2>2, <2>5, NearerIs
    <3>2. n <= B(v)
      BY <1>2, <1>4, <1>6, <3>1
    <3>3. Min({tree[v], n - B(v)}) <= 0 /\ Min({tree[v], n - B(v)}) \in Int
      BY <1>1, <2>2, <2>3, <3>2
    <3> DEFINE least == Min({tree[v], n - B(v)})
    <3> HIDE DEF least
    <3>4. Max({0, least}) = 0
      <4>1. 0 \in Int /\ least \in Int /\ least <= 0
        BY <3>3 DEF least
      <4> QED
        BY <4>1, MaxOfTwo
    <3> QED
      BY <2>1, <2>5, <3>4 DEF least
  <2> QED
    BY <2>4, <2>5
<1>9. Size(Given(tree, n, fromTop)) = n
  <2> DEFINE given == Given(tree, n, fromTop)
             M == UpTo(x, fromTop)
  <2>1. M \in SUBSET Values /\ \A v \in Values : v \in M <=> v = x \/ Nearer(v, x, fromTop)
    BY <1>2 DEF UpTo, Before
  <2>2. \A v \in Values : given[v] = IF v \in M THEN tree[v] ELSE 0
    BY <1>8, <2>1
  <2> HIDE DEF given, M
  <2>3. Amount(given, M) = Amount(tree, M) /\ Amount(given, Values \ M) = 0
    <3>1. \A v \in M : given[v] = tree[v]
      BY <2>1, <2>2
    <3>2. \A v \in Values \ M : given[v] = 0
      BY <2>2
    <3> QED
      BY <3>1, <3>2, AmountSame, AmountZero
  <2>4. Amount(tree, M) = n
    BY <1>6 DEF U, M
  <2>5. Amount(given, M \cup (Values \ M)) = Amount(given, M) + Amount(given, Values \ M)
    <3>1. IsFiniteSet(M) /\ IsFiniteSet(Values \ M)
      BY <2>1, FiniteValues, FS_Subset
    <3>2. \A v \in M \cup (Values \ M) : given[v] \in Nat
      BY <1>4, <2>1, <2>2
    <3> QED
      BY <3>1, <3>2, AmountAdd
  <2>6. M \cup (Values \ M) = Values
    BY <2>1
  <2>7. Amount(given, Values) = n
    <3>1. Amount(given, Values) = Amount(given, M) + Amount(given, Values \ M)
      BY <2>5, <2>6, Zenon
    <3> QED
      BY <1>1, <2>3, <2>4, <3>1
  <2> QED
    BY <2>7 DEF Size, given
<1> QED
  BY <1>2, <1>3, <1>5, <1>7, <1>8, <1>9

-----------------------------------------------------------------------------
(* One bucket.                                                             *)

Bucket == [tree : Tree, index : {"none", "current", "stale"}, buffer : Seq(Entry)]

\* The stamps of a buffer ascend, up to now.
InOrder(buf, now) ==
  /\ \A i, j \in 1 .. Len(buf) : i < j => buf[i].ts <= buf[j].ts
  /\ \A i \in 1 .. Len(buf) : buf[i].ts <= now

\* No key of a buffer is older.
Since(buf, t) == \A i \in 1 .. Len(buf) : t <= buf[i].ts

Held(bk, v) == bk.tree[v] + CountOf(bk.buffer, v)

LEMMA BucketIs ==
  ASSUME NEW bk \in Bucket
  PROVE  /\ bk.tree \in Tree /\ bk.index \in {"none", "current", "stale"} /\ bk.buffer \in Seq(Entry)
         /\ Size(bk.tree) \in Nat
         /\ \A v \in Values : bk.tree[v] \in Nat /\ CountOf(bk.buffer, v) \in Nat /\ Held(bk, v) \in Nat
<1>1. bk.tree \in Tree /\ bk.index \in {"none", "current", "stale"} /\ bk.buffer \in Seq(Entry)
  BY DEF Bucket
<1>2. ASSUME NEW v \in Values
      PROVE  bk.tree[v] \in Nat /\ CountOf(bk.buffer, v) \in Nat /\ Held(bk, v) \in Nat
  <2>1. bk.tree[v] \in Nat /\ CountOf(bk.buffer, v) \in Nat
    BY <1>1, CountIs DEF Tree
  <2> QED
    BY <2>1 DEF Held
<1> QED
  BY <1>1, <1>2, SizeNat

\* Popping keeps the keys, and leaves young ones in the buffer.
LEMMA PoppedMax ==
  ASSUME NEW bk \in Bucket, NEW now \in Int, InOrder(bk.buffer, now), NEW p, p = PopBufferMax(bk, now)
  PROVE  /\ p \in Bucket /\ InOrder(p.buffer, now) /\ Since(p.buffer, now - MinElapse)
         /\ \A v \in Values : Held(p, v) = Held(bk, v)
         /\ Size(bk.tree) <= Size(p.tree)
<1> DEFINE buf   == bk.buffer
           n     == Len(buf)
           young == {i \in DOMAIN buf : buf[i].ts >= now - MinElapse}
           gap   == IF young = {} THEN Len(buf) ELSE Min(young) - 1
           rest  == Rest(buf, gap)
           due   == Due(buf, gap)
<1>1. /\ buf \in Seq(Entry) /\ n \in Nat /\ DOMAIN buf = 1 .. n
      /\ \A i \in 1 .. n : buf[i].ts \in Nat
      /\ \A i, j \in 1 .. n : i < j => buf[i].ts <= buf[j].ts
      /\ \A i \in 1 .. n : buf[i].ts <= now
  BY BucketIs, EntryIs DEF InOrder
<1>2. MinElapse \in Nat
  BY ConstantsAssumption
<1>3. gap \in 0 .. n /\ \A i \in 1 .. n : i > gap => now - MinElapse <= buf[i].ts
  <2>1. CASE young = {}
    BY <1>1, <2>1
  <2>2. CASE young # {}
    <3> DEFINE m == Min(young)
    <3>1. m \in young /\ \A j \in young : m <= j
      <4>1. young \in SUBSET Nat
        BY <1>1
      <4> HIDE DEF young
      <4> QED
        BY <2>2, <4>1, LeastOf
    <3> HIDE DEF m
    <3>2. m \in 1 .. n /\ buf[m].ts >= now - MinElapse /\ buf[m].ts \in Nat
      BY <1>1, <3>1
    <3>3. gap = m - 1
      BY <2>2 DEF m
    <3> HIDE DEF gap, young
    <3>4. ASSUME NEW i \in 1 .. n, i > gap PROVE now - MinElapse <= buf[i].ts
      <4>1. i = m \/ m < i
        BY <1>1, <3>2, <3>3, <3>4
      <4>2. buf[m].ts <= buf[i].ts /\ buf[i].ts \in Nat
        BY <1>1, <3>2, <4>1
      <4> QED
        BY <1>2, <3>2, <4>2
    <3> QED
      BY <1>1, <3>2, <3>3, <3>4
  <2> QED
    BY <2>1, <2>2
<1>4. p = IF gap = 0 THEN bk
          ELSE [tree   |-> [v \in Values |-> bk.tree[v] + CountOf(due, v)],
                index  |-> "current",
                buffer |-> rest]
  BY DEF PopBufferMax, Due, Rest
<1> HIDE DEF young, gap, due, rest
<1>5. CASE gap = 0
  <2>1. \A i \in 1 .. n : now - MinElapse <= buf[i].ts
    BY <1>1, <1>3, <1>5
  <2>2. p = bk
    BY <1>4, <1>5
  <2>3. Size(bk.tree) <= Size(p.tree)
    BY <2>2, BucketIs
  <2> QED
    BY <2>1, <2>2, <2>3 DEF Since
<1>6. CASE gap # 0
  <2>1. p = [tree   |-> [v \in Values |-> bk.tree[v] + CountOf(due, v)],
             index  |-> "current",
             buffer |-> rest]
    BY <1>4, <1>6
  <2>2. ASSUME NEW v
        PROVE  /\ due \in Seq(Entry)
               /\ rest \in Seq(Entry) /\ Len(rest) = n - gap
               /\ \A i \in 1 .. n - gap : rest[i] = buf[i + gap] /\ i + gap \in 1 .. n
               /\ CountOf(buf, v) = CountOf(due, v) + CountOf(rest, v)
    <3>1. buf \in Seq(Entry) /\ gap \in 0 .. Len(buf)
      BY <1>1, <1>3
    <3> HIDE DEF buf
    <3> QED
      BY <3>1, CountSplit DEF due, rest
  <2>3. \A v \in Values : bk.tree[v] \in Nat /\ CountOf(due, v) \in Nat /\ CountOf(rest, v) \in Nat
    BY <2>2, BucketIs, CountIs
  <2>4. p.tree \in Tree /\ p.index = "current" /\ p.buffer = rest
        /\ \A v \in Values : p.tree[v] = bk.tree[v] + CountOf(due, v)
    BY <2>1, <2>3 DEF Tree
  <2>5. p \in Bucket
    BY <2>1, <2>2, <2>4 DEF Bucket
  <2>6. ASSUME NEW v \in Values PROVE Held(p, v) = Held(bk, v)
    <3>1. /\ Held(p, v) = bk.tree[v] + CountOf(due, v) + CountOf(rest, v)
          /\ Held(bk, v) = bk.tree[v] + CountOf(buf, v)
      BY <2>4 DEF Held
    <3> QED
      BY <2>2, <2>3, <3>1
  <2>7. \A i \in 1 .. n - gap : i \in Int /\ gap \in Nat /\ i + gap > gap
    BY <1>1, <1>3
  <2>8. Since(rest, now - MinElapse)
    BY <1>3, <2>2, <2>7 DEF Since
  <2>9. InOrder(rest, now)
    <3>1. ASSUME NEW i \in 1 .. n - gap, NEW j \in 1 .. n - gap, i < j PROVE rest[i].ts <= rest[j].ts
      <4>1. i + gap < j + gap /\ i + gap \in 1 .. n /\ j + gap \in 1 .. n
        BY <2>2, <2>7, <3>1
      <4> QED
        BY <1>1, <2>2, <4>1
    <3>2. \A i \in 1 .. n - gap : rest[i].ts <= now
      BY <1>1, <2>2
    <3> QED
      BY <2>2, <3>1, <3>2 DEF InOrder
  <2>10. Size(bk.tree) <= Size(p.tree)
    <3>1. \A v \in Values : bk.tree[v] <= p.tree[v]
      BY <2>3, <2>4
    <3> QED
      BY <2>4, <3>1, BucketIs, SizeMono
  <2> QED
    BY <2>4, <2>5, <2>6, <2>8, <2>9, <2>10
<1> QED
  BY <1>5, <1>6

\* A bucket that is popped at least when it is due has no old keys.
LEMMA PoppedIf ==
  ASSUME NEW bk \in Bucket, NEW now \in Int, InOrder(bk.buffer, now),
         NEW need \in BOOLEAN, NeedPop(bk, now) => need
  PROVE  /\ PopIf(need, bk, now) \in Bucket /\ InOrder(PopIf(need, bk, now).buffer, now)
         /\ Since(PopIf(need, bk, now).buffer, now - MaxElapse)
         /\ \A v \in Values : Held(PopIf(need, bk, now), v) = Held(bk, v)
         /\ Size(bk.tree) <= Size(PopIf(need, bk, now).tree)
<1> DEFINE p == PopIf(need, bk, now)
<1>0. p = PopIf(need, bk, now)
  OBVIOUS
<1> HIDE DEF p
<1>1. MinElapse \in Nat /\ MaxElapse \in Nat /\ MinElapse <= MaxElapse
  BY ConstantsAssumption
<1>2. CASE need
  <2>1. p = PopBufferMax(bk, now)
    BY <1>0, <1>2 DEF PopIf
  <2>2. /\ p \in Bucket /\ InOrder(p.buffer, now) /\ Since(p.buffer, now - MinElapse)
        /\ \A v \in Values : Held(p, v) = Held(bk, v)
        /\ Size(bk.tree) <= Size(p.tree)
    BY <2>1, PoppedMax
  <2>3. \A i \in 1 .. Len(p.buffer) : p.buffer[i].ts \in Nat
    BY <2>2, BucketIs, EntryIs
  <2>4. Since(p.buffer, now - MaxElapse)
    <3>1. ASSUME NEW i \in 1 .. Len(p.buffer) PROVE now - MaxElapse <= p.buffer[i].ts
      <4>1. now - MinElapse <= p.buffer[i].ts /\ p.buffer[i].ts \in Nat
        BY <2>2, <2>3 DEF Since
      <4> QED
        BY <1>1, <4>1
    <3> QED
      BY <3>1 DEF Since
  <2> QED
    BY <2>2, <2>4 DEF p
<1>3. CASE ~need
  <2>1. p = bk /\ ~NeedPop(bk, now)
    BY <1>0, <1>3 DEF PopIf
  <2>2. /\ bk.buffer \in Seq(Entry) /\ Len(bk.buffer) \in Nat
        /\ \A i \in 1 .. Len(bk.buffer) : bk.buffer[i].ts \in Nat
    BY BucketIs, EntryIs
  <2>3. Since(bk.buffer, now - MaxElapse)
    <3>1. ASSUME NEW i \in 1 .. Len(bk.buffer) PROVE now - MaxElapse <= bk.buffer[i].ts
      <4>1. 1 \in 1 .. Len(bk.buffer) /\ bk.buffer # <<>>
        BY <2>2, EmptySeq
      <4>2. ~(bk.buffer[1].ts <= now - MaxElapse)
        BY <2>1, <4>1 DEF NeedPop
      <4>3. i = 1 \/ 1 < i
        BY <2>2
      <4>4. bk.buffer[1].ts <= bk.buffer[i].ts
        BY <2>2, <4>1, <4>3 DEF InOrder
      <4>5. bk.buffer[1].ts \in Nat /\ bk.buffer[i].ts \in Nat
        BY <2>2, <4>1
      <4> QED
        BY <1>1, <4>2, <4>4, <4>5
    <3> QED
      BY <3>1 DEF Since
  <2>4. Size(bk.tree) <= Size(p.tree)
    BY <2>1, BucketIs
  <2> QED
    BY <2>1, <2>3, <2>4 DEF p
<1> QED
  BY <1>2, <1>3 DEF p

-----------------------------------------------------------------------------
(* Two buckets.                                                            *)

Giver(low, high, fromTop) == IF fromTop THEN low.tree ELSE high.tree

\* The cut of the tree that gives, at a place where the value changes: a
\* value of a key of it, with the keys below for the lower tree and the
\* others for the upper one.
LEMMA SplitIs ==
  ASSUME NEW fromTop \in BOOLEAN, NEW tree \in Tree, NEW n \in 1 .. Size(tree) - 1,
         Nth(SortPermu(tree, fromTop), n, fromTop) # Nth(SortPermu(tree, fromTop), n + 1, fromTop),
         NEW split, split = SplitValue(SortPermu(tree, fromTop), n, fromTop)
  PROVE  /\ split \in Values /\ split \in Int /\ tree[split] > 0
         /\ \A v \in Values :
              Given(tree, n, fromTop)[v] = IF (v >= split <=> fromTop) THEN tree[v] ELSE 0
         /\ Size(Given(tree, n, fromTop)) = n
<1> DEFINE x == Nth(SortPermu(tree, fromTop), n, fromTop)
           y == Nth(SortPermu(tree, fromTop), n + 1, fromTop)
<1>1. /\ x \in Values /\ y \in Values /\ tree[x] > 0 /\ tree[y] > 0 /\ Nearer(x, y, fromTop)
      /\ \A v \in Values : tree[v] > 0 =>
           v = x \/ Nearer(v, x, fromTop) \/ v = y \/ Nearer(y, v, fromTop)
      /\ \A v \in Values :
           Given(tree, n, fromTop)[v] = IF v = x \/ Nearer(v, x, fromTop) THEN tree[v] ELSE 0
      /\ Size(Given(tree, n, fromTop)) = n
  BY CutPoint
<1>2. split = IF fromTop THEN x ELSE y
  BY DEF SplitValue
<1>3. \A v \in Values : v \in Int /\ tree[v] \in Nat
  BY FiniteValues DEF Tree
<1> HIDE DEF x, y
<1>4. ASSUME NEW v \in Values
      PROVE  Given(tree, n, fromTop)[v] = IF (v >= split <=> fromTop) THEN tree[v] ELSE 0
  <2>1. CASE fromTop
    <3>1. (v = x \/ Nearer(v, x, fromTop)) <=> v >= split
      BY <1>1, <1>2, <1>3, <2>1 DEF Nearer
    <3> QED
      BY <1>1, <2>1, <3>1
  <2>2. CASE ~fromTop
    <3>1. ~(v >= split) <=> v < y
      BY <1>1, <1>2, <1>3, <2>2
    <3>2. (v = x \/ Nearer(v, x, fromTop)) <=> v <= x
      BY <1>1, <1>3, <2>2 DEF Nearer
    <3>3. x < y /\ (tree[v] > 0 => v = x \/ v < x \/ v = y \/ y < v)
      BY <1>1, <2>2 DEF Nearer
    <3>4. tree[v] = 0 \/ (v <= x <=> v < y)
      BY <1>1, <1>3, <3>3
    <3>5. Given(tree, n, fromTop)[v] = IF v <= x THEN tree[v] ELSE 0
      BY <1>1, <3>2
    <3>6. Given(tree, n, fromTop)[v] = IF v < y THEN tree[v] ELSE 0
      BY <3>4, <3>5
    <3> QED
      BY <2>2, <3>1, <3>6
  <2> QED
    BY <2>1, <2>2
<1> QED
  BY <1>1, <1>2, <1>3, <1>4

\* Dividing two neighbours: every key is below the new boundary in the lower
\* bucket or not below it in the upper one.
LEMMA DividedIs ==
  ASSUME NEW low \in Bucket, NEW high \in Bucket, NEW now \in Int,
         InOrder(low.buffer, now), InOrder(high.buffer, now),
         NEW r \in Int, \A v \in Values : (v >= r => low.tree[v] = 0) /\ (v < r => high.tree[v] = 0),
         NEW fromTop \in BOOLEAN, NEW n \in 1 .. Size(Giver(low, high, fromTop)) - 1,
         Nth(SortPermu(Giver(low, high, fromTop), fromTop), n, fromTop)
           # Nth(SortPermu(Giver(low, high, fromTop), fromTop), n + 1, fromTop),
         NEW split, split = SplitValue(SortPermu(Giver(low, high, fromTop), fromTop), n, fromTop),
         NEW parts, parts = Divided(low, high, n, split, fromTop)
  PROVE  /\ split \in Values /\ Giver(low, high, fromTop)[split] > 0
         /\ parts.low \in Bucket /\ InOrder(parts.low.buffer, now)
         /\ parts.high \in Bucket /\ InOrder(parts.high.buffer, now)
         /\ \A v \in Values :
              /\ Held(parts.low, v) = IF v < split THEN Held(low, v) + Held(high, v) ELSE 0
              /\ Held(parts.high, v) = IF v >= split THEN Held(low, v) + Held(high, v) ELSE 0
         /\ Size(parts.low.tree) = IF fromTop THEN Size(low.tree) - n ELSE Size(low.tree) + n
         /\ Size(parts.high.tree) = IF fromTop THEN Size(high.tree) + n ELSE Size(high.tree) - n
<1> DEFINE tree == Giver(low, high, fromTop)
           moved == Given(tree, n, fromTop)
           toHigh == [v \in Values |-> IF fromTop THEN moved[v] ELSE 0 - moved[v]]
           all == low.buffer \o high.buffer
           below == {i \in DOMAIN all : all[i].value < split}
           above == {i \in DOMAIN all : all[i].value >= split}
<1>1. /\ low.tree \in Tree /\ high.tree \in Tree /\ tree \in Tree
      /\ low.buffer \in Seq(Entry) /\ high.buffer \in Seq(Entry)
      /\ low.index \in {"none", "current", "stale"} /\ high.index \in {"none", "current", "stale"}
      /\ \A v \in Values : low.tree[v] \in Nat /\ high.tree[v] \in Nat /\ v \in Int
      /\ \A v \in Values : CountOf(low.buffer, v) \in Nat /\ CountOf(high.buffer, v) \in Nat
  BY BucketIs, FiniteValues DEF Giver
<1>2. /\ split \in Values /\ split \in Int /\ tree[split] > 0
      /\ \A v \in Values : moved[v] = IF (v >= split <=> fromTop) THEN tree[v] ELSE 0
      /\ Size(moved) = n
  BY <1>1, SplitIs
<1>3. parts = [low  |-> [tree   |-> [v \in Values |-> low.tree[v] - toHigh[v]],
                         index  |-> Touched(low.index),
                         buffer |-> Sorted(all, below)],
               high |-> [tree   |-> [v \in Values |-> high.tree[v] + toHigh[v]],
                         index  |-> Touched(high.index),
                         buffer |-> Sorted(all, above)]]
  BY DEF Divided, Giver
<1>4. Touched(low.index) \in {"none", "current", "stale"} /\ Touched(high.index) \in {"none", "current", "stale"}
  BY <1>1 DEF Touched
<1>5. /\ all \in Seq(Entry) /\ \A v : CountOf(all, v) = CountOf(low.buffer, v) + CountOf(high.buffer, v)
  BY <1>1, CountConcat
<1>6. \A i \in 1 .. Len(all) : all[i].ts <= now
  <2>1. /\ Len(all) = Len(low.buffer) + Len(high.buffer)
        /\ \A i \in 1 .. Len(low.buffer) + Len(high.buffer) :
             all[i] = IF i <= Len(low.buffer) THEN low.buffer[i] ELSE high.buffer[i - Len(low.buffer)]
    BY <1>1, ConcatProperties
  <2>2. Len(low.buffer) \in Nat /\ Len(high.buffer) \in Nat
    BY <1>1, EntryIs
  <2>3. /\ \A i \in 1 .. Len(low.buffer) : low.buffer[i].ts <= now
        /\ \A i \in 1 .. Len(high.buffer) : high.buffer[i].ts <= now
    BY DEF InOrder
  <2>4. ASSUME NEW i \in 1 .. Len(all) PROVE all[i].ts <= now
    <3>1. CASE i <= Len(low.buffer)
      <4>1. i \in 1 .. Len(low.buffer) /\ all[i] = low.buffer[i]
        BY <2>1, <2>2, <3>1
      <4> QED
        BY <2>3, <4>1
    <3>2. CASE ~(i <= Len(low.buffer))
      <4>0. i - Len(low.buffer) \in 1 .. Len(high.buffer) /\ i \in 1 .. Len(low.buffer) + Len(high.buffer)
        <5>1. i \in 1 .. Len(low.buffer) + Len(high.buffer)
          BY <2>1
        <5>2. \A m, k \in Nat : \A l \in 1 .. m + k : ~(l <= m) => l - m \in 1 .. k
          OBVIOUS
        <5>3. i - Len(low.buffer) \in 1 .. Len(high.buffer)
          BY <2>2, <3>2, <5>1, <5>2, Zenon
        <5> QED
          BY <5>1, <5>3
      <4>1. i - Len(low.buffer) \in 1 .. Len(high.buffer) /\ all[i] = high.buffer[i - Len(low.buffer)]
        BY <2>1, <3>2, <4>0
      <4> QED
        BY <2>3, <4>1
    <3> QED
      BY <3>1, <3>2
  <2> QED
    BY <2>4
<1> HIDE DEF tree, moved, all
<1>7. below \in SUBSET (1 .. Len(all)) /\ above \in SUBSET (1 .. Len(all))
  BY <1>5, EntryIs
<1>8. ASSUME NEW K \in SUBSET (1 .. Len(all))
      PROVE  Sorted(all, K) \in Seq(Entry) /\ InOrder(Sorted(all, K), now)
  <2> DEFINE s == Sorted(all, K)
  <2>1. /\ s \in Seq(Entry)
        /\ \E order \in Bijection(1 .. Len(s), K) : \A k \in 1 .. Len(s) : s[k] = all[order[k]]
        /\ \A k, l \in 1 .. Len(s) : k < l => s[k].ts <= s[l].ts
    BY <1>5, SortedIs
  <2> HIDE DEF s
  <2>2. PICK order \in Bijection(1 .. Len(s), K) : \A k \in 1 .. Len(s) : s[k] = all[order[k]]
    BY <2>1
  <2>3. \A k \in 1 .. Len(s) : order[k] \in K
    BY Fun_BijectionProperties
  <2>4. \A k \in 1 .. Len(s) : s[k].ts <= now
    BY <1>6, <2>2, <2>3
  <2>5. s \in Seq(Entry) /\ InOrder(s, now)
    BY <2>1, <2>4 DEF InOrder
  <2> QED
    BY <2>5 DEF s
<1>9. ASSUME NEW v \in Values
      PROVE  /\ low.tree[v] - toHigh[v] = IF v < split THEN low.tree[v] + high.tree[v] ELSE 0
             /\ high.tree[v] + toHigh[v] = IF v >= split THEN low.tree[v] + high.tree[v] ELSE 0
  <2>1. /\ low.tree[v] \in Nat /\ high.tree[v] \in Nat /\ v \in Int /\ split \in Int
        /\ (v >= r => low.tree[v] = 0) /\ (v < r => high.tree[v] = 0)
    BY <1>1, <1>2
  <2>2. CASE fromTop
    <3>1. split < r
      <4>1. low.tree[split] > 0
        BY <1>2, <2>2 DEF tree, Giver
      <4> QED
        BY <1>1, <1>2, <4>1
    <3>2. toHigh[v] = IF v >= split THEN low.tree[v] ELSE 0
      BY <1>2, <2>2 DEF tree, Giver
    <3> QED
      BY <2>1, <3>1, <3>2
  <2>3. CASE ~fromTop
    <3>1. split >= r
      <4>1. high.tree[split] > 0
        BY <1>2, <2>3 DEF tree, Giver
      <4> QED
        BY <1>1, <1>2, <4>1
    <3>2. toHigh[v] = 0 - (IF ~(v >= split) THEN high.tree[v] ELSE 0)
      <4>1. moved[v] = IF ~(v >= split) THEN high.tree[v] ELSE 0
        BY <1>2, <2>3 DEF tree, Giver
      <4>2. toHigh[v] = 0 - moved[v]
        BY <2>3
      <4> QED
        BY <4>1, <4>2
    <3> QED
      BY <2>1, <3>1, <3>2
  <2> QED
    BY <2>2, <2>3
<1>0. ASSUME NEW v \in Values
      PROVE  toHigh[v] = IF fromTop THEN moved[v] ELSE 0 - moved[v]
  OBVIOUS
<1> HIDE DEF toHigh, below, above
<1>10. /\ parts.low.tree \in Tree /\ parts.low.index \in {"none", "current", "stale"}
       /\ parts.high.tree \in Tree /\ parts.high.index \in {"none", "current", "stale"}
       /\ parts.low.buffer = Sorted(all, below) /\ parts.high.buffer = Sorted(all, above)
       /\ \A v \in Values : parts.low.tree[v] = IF v < split THEN low.tree[v] + high.tree[v] ELSE 0
       /\ \A v \in Values : parts.high.tree[v] = IF v >= split THEN low.tree[v] + high.tree[v] ELSE 0
  <2>1. \A v \in Values : low.tree[v] - toHigh[v] \in Nat /\ high.tree[v] + toHigh[v] \in Nat
    BY <1>1, <1>9
  <2>2. /\ [v \in Values |-> low.tree[v] - toHigh[v]] \in Tree
        /\ [v \in Values |-> high.tree[v] + toHigh[v]] \in Tree
    BY <2>1 DEF Tree
  <2> QED
    BY <1>3, <1>4, <1>9, <2>2
<1>11. /\ parts.low \in Bucket /\ InOrder(parts.low.buffer, now)
       /\ parts.high \in Bucket /\ InOrder(parts.high.buffer, now)
  <2>1. /\ parts.low = [tree |-> parts.low.tree, index |-> parts.low.index, buffer |-> parts.low.buffer]
        /\ parts.high = [tree |-> parts.high.tree, index |-> parts.high.index, buffer |-> parts.high.buffer]
    BY <1>3
  <2>2. /\ Sorted(all, below) \in Seq(Entry) /\ InOrder(Sorted(all, below), now)
        /\ Sorted(all, above) \in Seq(Entry) /\ InOrder(Sorted(all, above), now)
    BY <1>7, <1>8
  <2>3. /\ [tree |-> parts.low.tree, index |-> parts.low.index, buffer |-> parts.low.buffer] \in Bucket
        /\ [tree |-> parts.high.tree, index |-> parts.high.index, buffer |-> parts.high.buffer] \in Bucket
    BY <1>10, <2>2 DEF Bucket
  <2>4. parts.low \in Bucket /\ parts.high \in Bucket
    BY <2>1, <2>3, Zenon
  <2>5. InOrder(parts.low.buffer, now) /\ InOrder(parts.high.buffer, now)
    BY <1>10, <2>2, Zenon
  <2> QED
    BY <2>4, <2>5
<1>12. ASSUME NEW v \in Values
       PROVE  /\ Held(parts.low, v) = IF v < split THEN Held(low, v) + Held(high, v) ELSE 0
              /\ Held(parts.high, v) = IF v >= split THEN Held(low, v) + Held(high, v) ELSE 0
  <2>1. /\ CountOf(parts.low.buffer, v) = IF v < split THEN CountOf(all, v) ELSE 0
        /\ CountOf(parts.high.buffer, v) = IF v >= split THEN CountOf(all, v) ELSE 0
    <3>1. v \in Int /\ split \in Int /\ all \in Seq(Entry)
      BY <1>1, <1>2, <1>5
    <3>2. /\ CountOf(Sorted(all, {i \in DOMAIN all : all[i].value < split}), v)
               = IF v < split THEN CountOf(all, v) ELSE 0
          /\ CountOf(Sorted(all, {i \in DOMAIN all : all[i].value >= split}), v)
               = IF v >= split THEN CountOf(all, v) ELSE 0
      BY <3>1, CountParted
    <3>3. parts.low.buffer = Sorted(all, below) /\ parts.high.buffer = Sorted(all, above)
      BY <1>10
    <3> QED
      BY <3>2, <3>3 DEF below, above
  <2>2. /\ low.tree[v] \in Nat /\ high.tree[v] \in Nat
        /\ CountOf(low.buffer, v) \in Nat /\ CountOf(high.buffer, v) \in Nat /\ v \in Int /\ split \in Int
    BY <1>1, <1>2
  <2> QED
    <3>1. CountOf(all, v) = CountOf(low.buffer, v) + CountOf(high.buffer, v)
      BY <1>5
    <3>2. /\ parts.low.tree[v] = IF v < split THEN low.tree[v] + high.tree[v] ELSE 0
          /\ parts.high.tree[v] = IF v >= split THEN low.tree[v] + high.tree[v] ELSE 0
      BY <1>10
    <3>3. CASE v < split
      <4>1. ~(v >= split)
        BY <2>2, <3>3
      <4>2. /\ Held(parts.low, v) = (low.tree[v] + high.tree[v]) + (CountOf(low.buffer, v) + CountOf(high.buffer, v))
            /\ Held(parts.high, v) = 0 + 0
        BY <2>1, <3>1, <3>2, <3>3, <4>1 DEF Held
      <4> QED
        BY <2>2, <3>3, <4>1, <4>2 DEF Held
    <3>4. CASE ~(v < split)
      <4>1. v >= split
        BY <2>2, <3>4
      <4>2. /\ Held(parts.high, v) = (low.tree[v] + high.tree[v]) + (CountOf(low.buffer, v) + CountOf(high.buffer, v))
            /\ Held(parts.low, v) = 0 + 0
        BY <2>1, <3>1, <3>2, <3>4, <4>1 DEF Held
      <4> QED
        BY <2>2, <3>4, <4>1, <4>2 DEF Held
    <3> QED
      BY <3>3, <3>4
<1>13. /\ Size(parts.low.tree) = IF fromTop THEN Size(low.tree) - n ELSE Size(low.tree) + n
       /\ Size(parts.high.tree) = IF fromTop THEN Size(high.tree) + n ELSE Size(high.tree) - n
  <2>1. moved \in Tree /\ n \in Int
    <3>1. moved = [v \in Values |-> moved[v]]
      BY DEF moved, Given
    <3>2. \A v \in Values : moved[v] \in Nat
      BY <1>1, <1>2 DEF Tree
    <3>3. n \in Int
      BY <1>1, SizeNat DEF tree
    <3> QED
      BY <3>1, <3>2, <3>3 DEF Tree
  <2>2. /\ \A v \in Values : parts.low.tree[v] = low.tree[v] - toHigh[v]
        /\ \A v \in Values : parts.high.tree[v] = high.tree[v] + toHigh[v]
    BY <1>3
  <2>3. CASE fromTop
    <3>1. ASSUME NEW v \in Values
          PROVE  /\ parts.low.tree[v] = low.tree[v] - moved[v] /\ parts.high.tree[v] = high.tree[v] + moved[v]
                 /\ moved[v] = 0 \/ moved[v] = low.tree[v]
                 /\ low.tree[v] = 0 \/ high.tree[v] = 0
      <4>1. toHigh[v] = moved[v] /\ tree[v] = low.tree[v]
        BY <1>0, <2>3 DEF tree, Giver
      <4>2. moved[v] = 0 \/ moved[v] = low.tree[v]
        BY <1>2, <4>1
      <4>3. moved[v] \in Nat /\ low.tree[v] \in Nat /\ high.tree[v] \in Nat
        BY <1>1, <2>1 DEF Tree
      <4>4. low.tree[v] = 0 \/ high.tree[v] = 0
        BY <1>1
      <4>5. parts.low.tree[v] = low.tree[v] - moved[v] /\ parts.high.tree[v] = high.tree[v] + moved[v]
        BY <2>2, <4>1, <4>3
      <4> QED
        BY <4>2, <4>4, <4>5
    <3>2. Size(parts.low.tree) = Size(low.tree) - Size(moved) /\ Size(parts.high.tree) = Size(high.tree) + Size(moved)
      <4> DEFINE from == low.tree
                 to == high.tree
                 left == parts.low.tree
                 joined == parts.high.tree
      <4>1. from \in Tree /\ to \in Tree /\ left \in Tree /\ joined \in Tree
        BY <1>1, <1>10
      <4>2. \A v \in Values : /\ left[v] = from[v] - moved[v] /\ joined[v] = to[v] + moved[v]
                              /\ moved[v] = 0 \/ moved[v] = from[v]
                              /\ from[v] = 0 \/ to[v] = 0
        BY <3>1
      <4> HIDE DEF from, to, left, joined
      <4>3. Size(left) = Size(from) - Size(moved) /\ Size(joined) = Size(to) + Size(moved)
        BY <2>1, <4>1, <4>2, SizeMoved
      <4> QED
        BY <4>3 DEF from, to, left, joined
    <3> QED
      BY <1>2, <2>3, <3>2, Zenon
  <2>4. CASE ~fromTop
    <3>1. ASSUME NEW v \in Values
          PROVE  /\ parts.high.tree[v] = high.tree[v] - moved[v] /\ parts.low.tree[v] = low.tree[v] + moved[v]
                 /\ moved[v] = 0 \/ moved[v] = high.tree[v]
                 /\ high.tree[v] = 0 \/ low.tree[v] = 0
      <4>1. toHigh[v] = 0 - moved[v] /\ tree[v] = high.tree[v]
        BY <1>0, <2>4 DEF tree, Giver
      <4>2. moved[v] = 0 \/ moved[v] = high.tree[v]
        BY <1>2, <4>1
      <4>3. moved[v] \in Nat /\ low.tree[v] \in Nat /\ high.tree[v] \in Nat
        BY <1>1, <2>1 DEF Tree
      <4>4. low.tree[v] = 0 \/ high.tree[v] = 0
        BY <1>1
      <4>5. parts.high.tree[v] = high.tree[v] - moved[v] /\ parts.low.tree[v] = low.tree[v] + moved[v]
        BY <2>2, <4>1, <4>3
      <4> QED
        BY <4>2, <4>4, <4>5
    <3>2. Size(parts.high.tree) = Size(high.tree) - Size(moved) /\ Size(parts.low.tree) = Size(low.tree) + Size(moved)
      <4> DEFINE from == high.tree
                 to == low.tree
                 left == parts.high.tree
                 joined == parts.low.tree
      <4>1. from \in Tree /\ to \in Tree /\ left \in Tree /\ joined \in Tree
        BY <1>1, <1>10
      <4>2. \A v \in Values : /\ left[v] = from[v] - moved[v] /\ joined[v] = to[v] + moved[v]
                              /\ moved[v] = 0 \/ moved[v] = from[v]
                              /\ from[v] = 0 \/ to[v] = 0
        BY <3>1
      <4> HIDE DEF from, to, left, joined
      <4>3. Size(left) = Size(from) - Size(moved) /\ Size(joined) = Size(to) + Size(moved)
        BY <2>1, <4>1, <4>2, SizeMoved
      <4> QED
        BY <4>3 DEF from, to, left, joined
    <3> QED
      BY <1>2, <2>4, <3>2, Zenon
  <2> QED
    BY <2>3, <2>4
<1> QED
  BY <1>2, <1>11, <1>12, <1>13 DEF tree

-----------------------------------------------------------------------------
(* A scan is added.                                                        *)

\* The entries a scan brings to a bucket: one for every value of its keys.
LEMMA NewEntries ==
  ASSUME NEW keys \in Tree, NEW S \in SUBSET Values, \A v \in S : keys[v] > 0, NEW ts \in Nat,
         NEW new, new = [i \in DOMAIN Ascending(S) |->
                           [value |-> Ascending(S)[i], ts |-> ts, count |-> keys[Ascending(S)[i]]]]
  PROVE  /\ new \in Seq(Entry) /\ \A i \in 1 .. Len(new) : new[i].ts = ts
         /\ \A v \in Values : CountOf(new, v) = IF v \in S THEN keys[v] ELSE 0
<1> DEFINE mine == Ascending(S)
           n == Cardinality(S)
<1>1. S \subseteq Int /\ IsFiniteSet(S)
  BY FiniteValues, FS_Subset
<1>2. n \in Nat /\ mine \in Bijection(1 .. n, S)
  BY <1>1, AscendingIs
<1> HIDE DEF mine, n
<1>3. /\ mine \in [1 .. n -> S] /\ \A i, j \in 1 .. n : mine[i] = mine[j] => i = j
      /\ \A v \in S : \E i \in 1 .. n : mine[i] = v
  BY <1>2, Fun_BijectionProperties
<1>4. new = [i \in 1 .. n |-> [value |-> mine[i], ts |-> ts, count |-> keys[mine[i]]]]
  BY <1>3 DEF mine
<1>5. \A i \in 1 .. n : mine[i] \in Values /\ keys[mine[i]] \in Nat \ {0}
  BY <1>3 DEF Tree
<1>6. \A i \in 1 .. n : /\ new[i] \in Entry
                        /\ new[i].value = mine[i] /\ new[i].ts = ts /\ new[i].count = keys[mine[i]]
  BY <1>4, <1>5 DEF Entry
<1>7. new \in Seq(Entry) /\ Len(new) = n
  <2>1. new \in [1 .. n -> Entry]
    BY <1>4, <1>6
  <2> QED
    BY <1>2, <2>1
<1>8. ASSUME NEW v \in Values PROVE CountOf(new, v) = IF v \in S THEN keys[v] ELSE 0
  <2> DEFINE D == {i \in 1 .. Len(new) : new[i].value = v}
  <2>1. CountOf(new, v) = Amount(Counts(new), D)
    BY <1>7, CountIs
  <2>2. CASE v \in S
    <3>1. PICK i \in 1 .. n : mine[i] = v
      BY <1>3, <2>2
    <3>2. D = {i}
      BY <1>3, <1>6, <1>7, <3>1
    <3>3. Counts(new)[i] = keys[v] /\ Counts(new)[i] \in Nat
      BY <1>5, <1>6, <1>7, <3>1, CountIs
    <3> HIDE DEF D
    <3> QED
      BY <2>1, <2>2, <3>2, <3>3, AmountOne
  <2>3. CASE v \notin S
    <3>1. D = {}
      BY <1>3, <1>6, <1>7, <2>3
    <3> HIDE DEF D
    <3>2. Amount(Counts(new), D) = 0
      BY <3>1, AmountZero
    <3> QED
      BY <2>1, <2>3, <3>2
  <2> QED
    BY <2>2, <2>3
<1> QED
  BY <1>6, <1>7, <1>8

LEMMA Appended ==
  ASSUME NEW buf \in Seq(Entry), NEW new \in Seq(Entry), NEW before \in Int, NEW now \in Nat,
         before <= now, InOrder(buf, before), \A i \in 1 .. Len(new) : new[i].ts = now
  PROVE  /\ InOrder(buf \o new, now)
         /\ \A t \in Int : t <= now /\ Since(buf, t) => Since(buf \o new, t)
<1> DEFINE m == Len(buf)
           n == Len(new)
           u == buf \o new
<1>1. m \in Nat /\ n \in Nat /\ \A i \in 1 .. m : buf[i].ts \in Nat
  BY EntryIs
<1>2. Len(u) = m + n /\ \A i \in 1 .. m + n : u[i] = IF i <= m THEN buf[i] ELSE new[i - m]
  BY ConcatProperties
<1> HIDE DEF m, n, u
<1>3. /\ \A i, j \in 1 .. m : i < j => buf[i].ts <= buf[j].ts
      /\ \A i \in 1 .. m : buf[i].ts <= before
      /\ \A i \in 1 .. n : new[i].ts = now
  BY DEF InOrder, m, n
<1>4. ASSUME NEW i \in 1 .. m + n
      PROVE  i \in Int /\ IF i <= m THEN i \in 1 .. m /\ u[i].ts = buf[i].ts ELSE u[i].ts = now
  <2>1. CASE i <= m
    BY <1>1, <1>2, <2>1
  <2>2. CASE ~(i <= m)
    <3>1. i - m \in 1 .. n
      BY <1>1, <2>2
    <3>2. u[i] = new[i - m]
      BY <1>2, <2>2
    <3> QED
      BY <1>3, <2>2, <3>1, <3>2
  <2> QED
    BY <2>1, <2>2
<1>5. \A i \in 1 .. m + n : u[i].ts <= now
  <2>1. ASSUME NEW i \in 1 .. m + n PROVE u[i].ts <= now
    <3>1. CASE i <= m
      <4>1. i \in 1 .. m /\ u[i].ts = buf[i].ts
        BY <1>4, <3>1
      <4>2. buf[i].ts \in Nat /\ buf[i].ts <= before
        BY <1>1, <1>3, <4>1
      <4> QED
        BY <4>1, <4>2
    <3>2. CASE ~(i <= m)
      BY <1>4, <3>2
    <3> QED
      BY <3>1, <3>2
  <2> QED
    BY <2>1
<1>6. ASSUME NEW i \in 1 .. m + n, NEW j \in 1 .. m + n, i < j PROVE u[i].ts <= u[j].ts
  <2>1. CASE j <= m
    <3>1. i <= m
      BY <1>1, <1>4, <1>6, <2>1
    <3>2. i \in 1 .. m /\ j \in 1 .. m /\ u[i].ts = buf[i].ts /\ u[j].ts = buf[j].ts
      BY <1>4, <2>1, <3>1
    <3> QED
      BY <1>3, <1>6, <3>2
  <2>2. CASE ~(j <= m)
    <3>1. u[j].ts = now
      BY <1>4, <2>2
    <3> QED
      BY <1>5, <3>1
  <2> QED
    BY <2>1, <2>2
<1>7. ASSUME NEW t \in Int, t <= now, Since(buf, t) PROVE Since(u, t)
  <2>1. \A i \in 1 .. m : t <= buf[i].ts
    BY <1>7 DEF Since, m
  <2>2. \A i \in 1 .. m + n : t <= u[i].ts
    BY <1>4, <1>7, <2>1
  <2> QED
    BY <1>2, <2>2 DEF Since
<1>8. InOrder(u, now)
  BY <1>2, <1>5, <1>6 DEF InOrder
<1> QED
  BY <1>7, <1>8 DEF u

\* The buckets, and their ranges.
Row == [Buckets -> Bucket]
Ranges == {rs \in [0 .. NumBuckets -> Lowest .. Highest] : \A b \in Buckets : rs[b] <= rs[b + 1]}

LEMMA PushedIs ==
  ASSUME NEW bs \in Row, NEW keys \in Tree, NEW before \in Int, NEW now \in Nat, before <= now,
         \A b \in Buckets : InOrder(bs[b].buffer, before),
         NEW pushed, pushed = Pushed(bs, keys, now)
  PROVE  /\ pushed \in Row
         /\ \A b \in Buckets :
              /\ InOrder(pushed[b].buffer, now)
              /\ \A t \in Int : t <= now /\ Since(bs[b].buffer, t) => Since(pushed[b].buffer, t)
              /\ \A v \in Values :
                   Held(pushed[b], v) = Held(bs[b], v) + IF Holds(ranges, b, v) THEN keys[v] ELSE 0
              /\ pushed[b].tree = bs[b].tree
<1> DEFINE mine(b) == {v \in Values : keys[v] > 0 /\ Holds(ranges, b, v)}
           new(b) == [i \in DOMAIN Ascending(mine(b)) |->
                        [value |-> Ascending(mine(b))[i], ts |-> now, count |-> keys[Ascending(mine(b))[i]]]]
<1>1. pushed = [b \in Buckets |-> [bs[b] EXCEPT !.buffer = bs[b].buffer \o new(b)]]
  BY DEF Pushed
<1>2. ASSUME NEW b \in Buckets
      PROVE  /\ new(b) \in Seq(Entry) /\ \A i \in 1 .. Len(new(b)) : new(b)[i].ts = now
             /\ \A v \in Values : CountOf(new(b), v) = IF v \in mine(b) THEN keys[v] ELSE 0
  <2>1. mine(b) \in SUBSET Values /\ \A v \in mine(b) : keys[v] > 0
    OBVIOUS
  <2> HIDE DEF mine
  <2> QED
    BY <2>1, NewEntries
<1>3. \A b \in Buckets : \A v \in Values : (v \in mine(b) <=> keys[v] > 0 /\ Holds(ranges, b, v)) /\ keys[v] \in Nat
  BY DEF Tree
<1> HIDE DEF mine, new
<1>4. ASSUME NEW b \in Buckets
      PROVE  /\ pushed[b] \in Bucket /\ InOrder(pushed[b].buffer, now)
             /\ \A t \in Int : t <= now /\ Since(bs[b].buffer, t) => Since(pushed[b].buffer, t)
             /\ \A v \in Values :
                  Held(pushed[b], v) = Held(bs[b], v) + IF Holds(ranges, b, v) THEN keys[v] ELSE 0
             /\ pushed[b].tree = bs[b].tree
  <2> DEFINE bk == bs[b]
             p == pushed[b]
  <2>1. bk \in Bucket /\ InOrder(bk.buffer, before)
    BY DEF Row
  <2>2. p = [bk EXCEPT !.buffer = bk.buffer \o new(b)]
    BY <1>1
  <2> HIDE DEF bk, p
  <2>3. /\ bk.tree \in Tree /\ bk.index \in {"none", "current", "stale"} /\ bk.buffer \in Seq(Entry)
        /\ \A v \in Values : bk.tree[v] \in Nat /\ CountOf(bk.buffer, v) \in Nat
    BY <2>1, BucketIs
  <2>4. /\ bk.buffer \o new(b) \in Seq(Entry)
        /\ \A v : CountOf(bk.buffer \o new(b), v) = CountOf(bk.buffer, v) + CountOf(new(b), v)
    BY <1>2, <2>3, CountConcat
  <2>5. p.tree = bk.tree /\ p.buffer = bk.buffer \o new(b) /\ p \in Bucket
    BY <2>1, <2>2, <2>4 DEF Bucket
  <2>6. /\ InOrder(bk.buffer \o new(b), now)
        /\ \A t \in Int : t <= now /\ Since(bk.buffer, t) => Since(bk.buffer \o new(b), t)
    BY <1>2, <2>1, <2>3, Appended
  <2>7. ASSUME NEW v \in Values
        PROVE  Held(p, v) = Held(bk, v) + IF Holds(ranges, b, v) THEN keys[v] ELSE 0
    <3>1. CountOf(new(b), v) = IF Holds(ranges, b, v) THEN keys[v] ELSE 0
      BY <1>2, <1>3
    <3>2. Held(p, v) = bk.tree[v] + (CountOf(bk.buffer, v) + CountOf(new(b), v))
      BY <2>4, <2>5 DEF Held
    <3>3. CountOf(new(b), v) \in Nat
      BY <1>3, <3>1
    <3>4. Held(p, v) = Held(bk, v) + CountOf(new(b), v)
      BY <2>3, <3>2, <3>3 DEF Held
    <3> QED
      BY <3>1, <3>4
  <2> QED
    BY <2>5, <2>6, <2>7 DEF bk, p
<1>5. pushed \in Row
  <2>1. pushed = [b \in Buckets |-> pushed[b]]
    BY <1>1
  <2> QED
    BY <1>4, <2>1 DEF Row
<1> QED
  BY <1>4, <1>5

-----------------------------------------------------------------------------
(* A row of buckets.                                                       *)

\* Every key is in the bucket whose range it falls into.
Placed(bs, rs, all) ==
  \A b \in Buckets : \A v \in Values : Held(bs[b], v) = IF Holds(rs, b, v) THEN all[v] ELSE 0

LEMMA BoundsOf ==
  ASSUME NEW rs \in Ranges, NEW b \in Buckets
  PROVE  /\ b \in Nat /\ b + 1 \in 0 .. NumBuckets /\ b \in 0 .. NumBuckets
         /\ rs[b] \in Int /\ rs[b + 1] \in Int /\ rs[b] <= rs[b + 1]
         /\ rs[b] \in Lowest .. Highest /\ rs[b + 1] \in Lowest .. Highest
<1>1. NumBuckets \in Nat /\ MaxBucketVal \in Nat
  BY ConstantsAssumption
<1>2. b \in Nat /\ b + 1 \in 0 .. NumBuckets /\ b \in 0 .. NumBuckets
  BY <1>1 DEF Buckets
<1>3. /\ rs[b] \in Lowest .. Highest /\ rs[b + 1] \in Lowest .. Highest
      /\ rs[b] <= rs[b + 1]
  BY <1>2 DEF Ranges
<1>4. Lowest \in Int /\ Highest \in Int
  BY <1>1 DEF Lowest, Highest
<1> QED
  BY <1>2, <1>3, <1>4

\* Two neighbours are replaced by two others.
Replace(bs, t, l, h) == [bs EXCEPT ![t] = l, ![t + 1] = h]

LEMMA Replaced ==
  ASSUME NEW bs \in Row, NEW t \in Buckets, t + 1 \in Buckets, NEW l \in Bucket, NEW h \in Bucket
  PROVE  /\ Replace(bs, t, l, h) \in Row /\ Replace(bs, t, l, h)[t] = l /\ Replace(bs, t, l, h)[t + 1] = h
         /\ \A b \in Buckets : b # t /\ b # t + 1 => Replace(bs, t, l, h)[b] = bs[b]
<1>1. t # t + 1 /\ DOMAIN bs = Buckets
  BY DEF Buckets, Row
<1> QED
  BY <1>1 DEF Row, Replace

\* The keys of two neighbours divided at a new boundary between them.
LEMMA PlacedAnew ==
  ASSUME NEW bs \in Row, NEW rs \in Ranges, NEW all \in Tree, Placed(bs, rs, all),
         NEW t \in Buckets, t + 1 \in Buckets,
         NEW split \in Values, rs[t] <= split, split <= rs[t + 1 + 1],
         NEW new \in Row, \A b \in Buckets : b # t /\ b # t + 1 => new[b] = bs[b],
         \A v \in Values :
           /\ Held(new[t], v) = IF v < split THEN Held(bs[t], v) + Held(bs[t + 1], v) ELSE 0
           /\ Held(new[t + 1], v) = IF v >= split THEN Held(bs[t], v) + Held(bs[t + 1], v) ELSE 0
  PROVE  /\ [rs EXCEPT ![t + 1] = split] \in Ranges
         /\ Placed(new, [rs EXCEPT ![t + 1] = split], all)
<1> DEFINE ns == [rs EXCEPT ![t + 1] = split]
           u == t + 1
<1>1. /\ t \in Nat /\ u \in Nat /\ u # t /\ u + 1 # u /\ t \in 0 .. NumBuckets
      /\ u \in 0 .. NumBuckets /\ u + 1 \in 0 .. NumBuckets /\ NumBuckets \in Nat
      /\ rs[t] \in Int /\ rs[u] \in Int /\ rs[u + 1] \in Int
      /\ rs[t] <= rs[u] /\ rs[u] <= rs[u + 1]
  BY BoundsOf, ConstantsAssumption
<1>2. split \in Int /\ split \in Lowest .. Highest
  <2>1. MaxBucketVal \in Nat /\ split \in 0 - MaxBucketVal .. MaxBucketVal - 1
    BY ConstantsAssumption
  <2> QED
    BY <2>1 DEF Lowest, Highest
<1>3. rs \in [0 .. NumBuckets -> Lowest .. Highest]
  BY DEF Ranges
<1>4. /\ ns \in [0 .. NumBuckets -> Lowest .. Highest]
      /\ ns[u] = split /\ ns[t] = rs[t] /\ ns[u + 1] = rs[u + 1]
      /\ \A i \in 0 .. NumBuckets : i # u => ns[i] = rs[i]
  BY <1>1, <1>2, <1>3
<1> HIDE DEF ns
<1>5. ASSUME NEW b \in Buckets, b # t, b # u
      PROVE  ns[b] = rs[b] /\ ns[b + 1] = rs[b + 1]
  <2>1. b \in 0 .. NumBuckets /\ b + 1 \in 0 .. NumBuckets /\ b \in Nat
    BY BoundsOf
  <2>2. b + 1 # u
    BY <1>5, <1>1, <2>1
  <2> QED
    BY <1>4, <1>5, <2>1, <2>2
<1>6. ns \in Ranges
  <2>1. ASSUME NEW b \in Buckets PROVE ns[b] <= ns[b + 1]
    <3>1. CASE b = t
      <4>1. b + 1 = u
        BY <3>1
      <4> QED
        BY <1>4, <3>1, <4>1
    <3>2. CASE b = u
      BY <1>4, <3>2
    <3>3. CASE b # t /\ b # u
      BY <1>5, <3>3, BoundsOf
    <3> QED
      BY <3>1, <3>2, <3>3
  <2> QED
    BY <1>4, <2>1 DEF Ranges
<1>7. ASSUME NEW b \in Buckets, NEW v \in Values
      PROVE  Held(new[b], v) = IF Holds(ns, b, v) THEN all[v] ELSE 0
  <2>1. /\ Held(bs[t], v) = IF Holds(rs, t, v) THEN all[v] ELSE 0
        /\ Held(bs[u], v) = IF Holds(rs, u, v) THEN all[v] ELSE 0
        /\ Held(bs[b], v) = IF Holds(rs, b, v) THEN all[v] ELSE 0
    BY DEF Placed
  <2>2. v \in Int /\ all[v] \in Nat
    BY FiniteValues DEF Tree
  <2>3. /\ Holds(rs, t, v) <=> rs[t] <= v /\ v < rs[u]
        /\ Holds(rs, u, v) <=> rs[u] <= v /\ v < rs[u + 1]
    BY DEF Holds
  <2>4. Held(bs[t], v) + Held(bs[u], v) = IF rs[t] <= v /\ v < rs[u + 1] THEN all[v] ELSE 0
    BY <1>1, <2>1, <2>2, <2>3
  <2>5. CASE b = t
    <3>1. Holds(ns, b, v) <=> rs[t] <= v /\ v < split
      BY <1>4, <2>5 DEF Holds
    <3>2. Held(new[b], v) = IF v < split THEN Held(bs[t], v) + Held(bs[u], v) ELSE 0
      BY <2>5
    <3>3. v < split => v < rs[u + 1]
      BY <1>1, <1>2, <2>2
    <3> QED
      BY <2>4, <3>1, <3>2, <3>3
  <2>6. CASE b = u
    <3>1. Holds(ns, b, v) <=> split <= v /\ v < rs[u + 1]
      BY <1>4, <2>6 DEF Holds
    <3>2. Held(new[b], v) = IF v >= split THEN Held(bs[t], v) + Held(bs[u], v) ELSE 0
      BY <2>6
    <3>3. v >= split => rs[t] <= v
      BY <1>1, <1>2, <2>2
    <3>4. v >= split <=> split <= v
      BY <1>2, <2>2
    <3> QED
      BY <2>4, <3>1, <3>2, <3>3, <3>4
  <2>7. CASE b # t /\ b # u
    <3>1. Holds(ns, b, v) <=> Holds(rs, b, v)
      BY <1>5, <2>7 DEF Holds
    <3>2. new[b] = bs[b]
      BY <2>7
    <3> QED
      BY <2>1, <3>1, <3>2
  <2> QED
    BY <2>5, <2>6, <2>7
<1> QED
  BY <1>6, <1>7 DEF ns, Placed

LEMMA SizesAre ==
  ASSUME NEW low \in Bucket, NEW high \in Bucket
  PROVE  /\ Larger(low, high) \in Nat /\ Smaller(low, high) \in Nat /\ Smaller(low, high) <= Larger(low, high)
         /\ Larger(low, high) = IF Size(low.tree) > Size(high.tree) THEN Size(low.tree) ELSE Size(high.tree)
         /\ Smaller(low, high) = IF Size(low.tree) > Size(high.tree) THEN Size(high.tree) ELSE Size(low.tree)
<1>1. Size(low.tree) \in Nat /\ Size(high.tree) \in Nat
  BY BucketIs
<1>2. /\ Larger(low, high) = IF Size(low.tree) >= Size(high.tree) THEN Size(low.tree) ELSE Size(high.tree)
      /\ Smaller(low, high) = IF Size(low.tree) <= Size(high.tree) THEN Size(low.tree) ELSE Size(high.tree)
  <2> DEFINE a == Size(low.tree)
             b == Size(high.tree)
  <2>1. a \in Int /\ b \in Int /\ Sizes(low, high) = {a, b}
    BY <1>1 DEF Sizes
  <2> HIDE DEF a, b
  <2>2. /\ Max({a, b}) = IF a >= b THEN a ELSE b
        /\ Min({a, b}) = IF a <= b THEN a ELSE b
    BY <2>1, MaxOfTwo
  <2> QED
    BY <2>1, <2>2 DEF Larger, Smaller, a, b
<1> QED
  BY <1>1, <1>2

\* What a rebuild does to the sizes of the two trees: they only grow, or they
\* are balanced and each has no less than four ninths of the keys.
Evened(bs, new, t) ==
  LET both == Size(bs[t].tree) + Size(bs[t + 1].tree)
  IN  /\ both <= Size(new[t].tree) + Size(new[t + 1].tree)
      /\ Size(bs[t].tree) >= 9 \/ Size(bs[t + 1].tree) >= 9 =>
           4 * both <= 9 * Size(new[t].tree) /\ 4 * both <= 9 * Size(new[t + 1].tree)

Resized(bs, after, t, now) ==
  \/ /\ after.ranges = ranges
     /\ \A b \in {t, t + 1} : Size(bs[b].tree) <= Size(after.buckets[b].tree)
  \/ /\ \E split \in Values : after.ranges = [ranges EXCEPT ![t + 1] = split]
     /\ Balances(NeedPop(bs[t], now), NeedPop(bs[t + 1], now),
                 Larger(bs[t], bs[t + 1]), Smaller(bs[t], bs[t + 1]))
     /\ Evened(bs, after.buckets, t)

\* A rebuild keeps every key in its place, the buffers in order, and leaves no
\* key in the two buffers that is older than MaxElapse.
LEMMA RebuiltIs ==
  ASSUME NEW bs \in Row, ranges \in Ranges, NEW all \in Tree, Placed(bs, ranges, all),
         NEW t \in Buckets, t + 1 \in Buckets, NEW now \in Int,
         \A b \in Buckets : InOrder(bs[b].buffer, now),
         NEW after, after = Rebuilt(bs, t, now)
  PROVE  /\ after.buckets \in Row /\ after.ranges \in Ranges
         /\ Placed(after.buckets, after.ranges, all)
         /\ \A b \in Buckets : InOrder(after.buckets[b].buffer, now)
         /\ Since(after.buckets[t].buffer, now - MaxElapse)
         /\ Since(after.buckets[t + 1].buffer, now - MaxElapse)
         /\ \A b \in Buckets : b # t /\ b # t + 1 => after.buckets[b] = bs[b]
         /\ Resized(bs, after, t, now)
<1> DEFINE u == t + 1
           low == bs[t]
           high == bs[u]
           popLow == NeedPop(low, now)
           popHigh == NeedPop(high, now)
           large == Larger(low, high)
           small == Smaller(low, high)
           balances == Balances(popLow, popHigh, large, small)
           lowGives == Size(low.tree) > Size(high.tree)
           giver == IF lowGives THEN low.tree ELSE high.tree
           sorted == SortPermu(giver, lowGives)
           num == NumToMove(sorted, large, small, lowGives)
           split == SplitValue(sorted, num, lowGives)
           parts == Divided(low, high, num, split, lowGives)
           Result(l, h, rs) == [buckets |-> [bs EXCEPT ![t] = l, ![u] = h], ranges |-> rs]
<1>1. after = CASE ~balances ->
                     Result(PopIf(popLow, low, now), PopIf(popHigh, high, now), ranges)
                [] balances /\ num = 0 ->
                     Result(PopIf(popLow \/ lowGives, low, now), PopIf(popHigh \/ ~lowGives, high, now), ranges)
                [] OTHER ->
                     Result(PopBufferMax(parts.low, now), PopBufferMax(parts.high, now),
                            [ranges EXCEPT ![u] = split])
  BY DEF Rebuilt
<1>2. low \in Bucket /\ high \in Bucket /\ InOrder(low.buffer, now) /\ InOrder(high.buffer, now)
  BY DEF Row
<1>3. /\ t \in Nat /\ u # t
      /\ ranges[t] \in Int /\ ranges[u] \in Int /\ ranges[u + 1] \in Int
      /\ ranges[t] <= ranges[u] /\ ranges[u] <= ranges[u + 1]
  BY BoundsOf
<1>4. MinElapse \in Nat /\ MaxElapse \in Nat /\ MinElapse <= MaxElapse
  BY ConstantsAssumption
\* One of the three outcomes, whatever the two new buckets are.
<1>5. ASSUME NEW l \in Bucket, NEW h \in Bucket, NEW rs, after = Result(l, h, rs),
             InOrder(l.buffer, now), InOrder(h.buffer, now)
      PROVE  /\ after.buckets \in Row /\ after.ranges = rs
             /\ after.buckets[t] = l /\ after.buckets[u] = h
             /\ \A b \in Buckets : InOrder(after.buckets[b].buffer, now)
             /\ \A b \in Buckets : b # t /\ b # u => after.buckets[b] = bs[b]
  <2> DEFINE new == Replace(bs, t, l, h)
  <2>1. /\ new \in Row /\ new[t] = l /\ new[u] = h
        /\ \A b \in Buckets : b # t /\ b # u => new[b] = bs[b]
    BY Replaced
  <2> HIDE DEF new
  <2>2. after.buckets = new /\ after.ranges = rs
    BY <1>5 DEF new, Replace
  <2>3. \A b \in Buckets : InOrder(new[b].buffer, now)
    BY <1>5, <2>1
  <2> QED
    BY <2>1, <2>2, <2>3
\* The trees are left as they are: a due buffer is popped, another may be.
<1>6. ASSUME NEW needLow \in BOOLEAN, popLow => needLow, NEW needHigh \in BOOLEAN, popHigh => needHigh,
             after = Result(PopIf(needLow, low, now), PopIf(needHigh, high, now), ranges)
      PROVE  /\ after.buckets \in Row /\ after.ranges \in Ranges
             /\ Placed(after.buckets, after.ranges, all)
             /\ \A b \in Buckets : InOrder(after.buckets[b].buffer, now)
             /\ Since(after.buckets[t].buffer, now - MaxElapse)
             /\ Since(after.buckets[u].buffer, now - MaxElapse)
             /\ \A b \in Buckets : b # t /\ b # u => after.buckets[b] = bs[b]
             /\ Resized(bs, after, t, now)
  <2> DEFINE l == PopIf(needLow, low, now)
             h == PopIf(needHigh, high, now)
  <2> HIDE DEF low, high
  <2>1. /\ l \in Bucket /\ InOrder(l.buffer, now) /\ Since(l.buffer, now - MaxElapse)
        /\ \A v \in Values : Held(l, v) = Held(low, v)
        /\ Size(low.tree) <= Size(l.tree)
    <3>1. NeedPop(low, now) => needLow
      BY <1>6
    <3> QED
      BY <1>2, <3>1, PoppedIf
  <2>2. /\ h \in Bucket /\ InOrder(h.buffer, now) /\ Since(h.buffer, now - MaxElapse)
        /\ \A v \in Values : Held(h, v) = Held(high, v)
        /\ Size(high.tree) <= Size(h.tree)
    <3>1. NeedPop(high, now) => needHigh
      BY <1>6
    <3> QED
      BY <1>2, <3>1, PoppedIf
  <2>3. after = Result(l, h, ranges)
    BY <1>6
  <2> HIDE DEF l, h, Result
  <2>4. /\ after.buckets \in Row /\ after.ranges = ranges
        /\ after.buckets[t] = l /\ after.buckets[u] = h
        /\ \A b \in Buckets : InOrder(after.buckets[b].buffer, now)
        /\ \A b \in Buckets : b # t /\ b # u => after.buckets[b] = bs[b]
    BY <1>5, <2>1, <2>2, <2>3
  <2>5. \A b \in Buckets : \A v \in Values : Held(after.buckets[b], v) = Held(bs[b], v)
    BY <2>1, <2>2, <2>4 DEF low, high
  <2>6. Placed(after.buckets, after.ranges, all)
    BY <2>4, <2>5 DEF Placed
  <2>7. Resized(bs, after, t, now)
    <3>1. \A b \in {t, t + 1} : Size(bs[b].tree) <= Size(after.buckets[b].tree)
      BY <2>1, <2>2, <2>4 DEF low, high
    <3> QED
      BY <2>4, <3>1 DEF Resized
  <2> QED
    BY <2>1, <2>2, <2>4, <2>6, <2>7
<1>7. CASE ~balances
  <2>1. after = Result(PopIf(popLow, low, now), PopIf(popHigh, high, now), ranges)
    BY <1>1, <1>7
  <2>2. popLow \in BOOLEAN /\ popHigh \in BOOLEAN
    BY DEF NeedPop
  <2> QED
    BY <1>6, <2>1, <2>2
<1>8. CASE balances /\ num = 0
  <2>1. after = Result(PopIf(popLow \/ lowGives, low, now), PopIf(popHigh \/ ~lowGives, high, now), ranges)
    BY <1>1, <1>8
  <2>2. (popLow \/ lowGives) \in BOOLEAN /\ (popHigh \/ ~lowGives) \in BOOLEAN
    OBVIOUS
  <2> HIDE DEF popLow, popHigh, lowGives
  <2> QED
    BY <1>6, <2>1, <2>2
<1>9. CASE balances /\ num # 0
  <2>1. after = Result(PopBufferMax(parts.low, now), PopBufferMax(parts.high, now), [ranges EXCEPT ![u] = split])
    BY <1>1, <1>9
  <2>2. /\ lowGives \in BOOLEAN /\ giver = Giver(low, high, lowGives)
        /\ giver \in Tree /\ Size(giver) = large /\ large \in Nat /\ small \in Nat /\ small <= large
    BY <1>2, BucketIs, SizesAre DEF Giver
  <2>0. /\ Size(low.tree) = IF lowGives THEN large ELSE small
        /\ Size(high.tree) = IF lowGives THEN small ELSE large
    BY <1>2, BucketIs, SizesAre
  <2> HIDE DEF low, high, lowGives, large, small, giver
  <2>3. /\ num \in 1 .. Size(giver) - 1 /\ Nth(sorted, num, lowGives) # Nth(sorted, num + 1, lowGives)
        /\ 9 * (large - num) >= 4 * (large + small)
        /\ large >= 9 => 9 * (small + num) >= 4 * (large + small)
    <3> HIDE DEF sorted
    <3> QED
      BY <1>9, <2>2, NumIs
  <2>4. \A v \in Values : /\ v >= ranges[u] => low.tree[v] = 0
                          /\ v < ranges[u] => high.tree[v] = 0
    <3>1. ASSUME NEW v \in Values
          PROVE  (v >= ranges[u] => low.tree[v] = 0) /\ (v < ranges[u] => high.tree[v] = 0)
      <4>1. /\ Held(low, v) = IF Holds(ranges, t, v) THEN all[v] ELSE 0
            /\ Held(high, v) = IF Holds(ranges, u, v) THEN all[v] ELSE 0
        BY DEF Placed, low, high
      <4>2. v \in Int
        BY FiniteValues
      <4>3. (v >= ranges[u] => ~Holds(ranges, t, v)) /\ (v < ranges[u] => ~Holds(ranges, u, v))
        BY <1>3, <4>2 DEF Holds
      <4>4. /\ low.tree[v] \in Nat /\ CountOf(low.buffer, v) \in Nat
            /\ high.tree[v] \in Nat /\ CountOf(high.buffer, v) \in Nat
        BY <1>2, BucketIs
      <4>5. Held(low, v) = 0 => low.tree[v] = 0
        BY <4>4 DEF Held
      <4>6. Held(high, v) = 0 => high.tree[v] = 0
        BY <4>4 DEF Held
      <4> QED
        BY <4>1, <4>3, <4>5, <4>6
    <3> QED
      BY <3>1
  <2> DEFINE l == PopBufferMax(parts.low, now)
             h == PopBufferMax(parts.high, now)
  <2>5. /\ split \in Values /\ giver[split] > 0
        /\ parts.low \in Bucket /\ InOrder(parts.low.buffer, now)
        /\ parts.high \in Bucket /\ InOrder(parts.high.buffer, now)
        /\ \A v \in Values :
             /\ Held(parts.low, v) = IF v < split THEN Held(low, v) + Held(high, v) ELSE 0
             /\ Held(parts.high, v) = IF v >= split THEN Held(low, v) + Held(high, v) ELSE 0
        /\ Size(parts.low.tree) = IF lowGives THEN Size(low.tree) - num ELSE Size(low.tree) + num
        /\ Size(parts.high.tree) = IF lowGives THEN Size(high.tree) + num ELSE Size(high.tree) - num
    <3> HIDE DEF num, u
    <3>1. /\ num \in 1 .. Size(Giver(low, high, lowGives)) - 1
          /\ sorted = SortPermu(Giver(low, high, lowGives), lowGives)
          /\ ranges[u] \in Int
      BY <1>3, <2>2, <2>3
    <3> HIDE DEF sorted
    <3>2. split = SplitValue(SortPermu(Giver(low, high, lowGives), lowGives), num, lowGives)
      BY <3>1
    <3> HIDE DEF split
    <3>3. /\ split \in Values /\ Giver(low, high, lowGives)[split] > 0
          /\ parts.low \in Bucket /\ InOrder(parts.low.buffer, now)
          /\ parts.high \in Bucket /\ InOrder(parts.high.buffer, now)
          /\ \A v \in Values :
               /\ Held(parts.low, v) = IF v < split THEN Held(low, v) + Held(high, v) ELSE 0
               /\ Held(parts.high, v) = IF v >= split THEN Held(low, v) + Held(high, v) ELSE 0
          /\ Size(parts.low.tree) = IF lowGives THEN Size(low.tree) - num ELSE Size(low.tree) + num
          /\ Size(parts.high.tree) = IF lowGives THEN Size(high.tree) + num ELSE Size(high.tree) - num
      BY <1>2, <2>2, <2>3, <2>4, <3>1, <3>2, DividedIs
    <3> QED
      BY <2>2, <3>3
  <2> HIDE DEF parts, split, num, sorted
  <2>6. /\ l \in Bucket /\ InOrder(l.buffer, now) /\ Since(l.buffer, now - MinElapse)
        /\ \A v \in Values : Held(l, v) = Held(parts.low, v)
        /\ Size(parts.low.tree) <= Size(l.tree)
    BY <2>5, PoppedMax
  <2>7. /\ h \in Bucket /\ InOrder(h.buffer, now) /\ Since(h.buffer, now - MinElapse)
        /\ \A v \in Values : Held(h, v) = Held(parts.high, v)
        /\ Size(parts.high.tree) <= Size(h.tree)
    BY <2>5, PoppedMax
  <2>8. after = Result(l, h, [ranges EXCEPT ![u] = split])
    BY <2>1
  <2> HIDE DEF l, h, Result
  <2>9. /\ after.buckets \in Row /\ after.ranges = [ranges EXCEPT ![u] = split]
        /\ after.buckets[t] = l /\ after.buckets[u] = h
        /\ \A b \in Buckets : InOrder(after.buckets[b].buffer, now)
        /\ \A b \in Buckets : b # t /\ b # u => after.buckets[b] = bs[b]
    BY <1>5, <2>6, <2>7, <2>8
  <2>10. ranges[t] <= split /\ split <= ranges[u + 1]
    <3>1. split \in Int /\ low.tree[split] \in Nat /\ high.tree[split] \in Nat
      BY <1>2, <2>5, FiniteValues, BucketIs
    <3>2. low.tree[split] > 0 \/ high.tree[split] > 0
      BY <2>5 DEF giver
    <3>3. Held(low, split) > 0 \/ Held(high, split) > 0
      <4>1. CountOf(low.buffer, split) \in Nat /\ CountOf(high.buffer, split) \in Nat
        BY <1>2, <2>5, BucketIs
      <4> QED
        BY <3>1, <3>2, <4>1 DEF Held
    <3>4. /\ Held(low, split) = IF Holds(ranges, t, split) THEN all[split] ELSE 0
          /\ Held(high, split) = IF Holds(ranges, u, split) THEN all[split] ELSE 0
      BY <2>5 DEF Placed, low, high
    <3>5. Holds(ranges, t, split) \/ Holds(ranges, u, split)
      BY <3>3, <3>4
    <3> QED
      BY <1>3, <3>1, <3>5 DEF Holds
  <2>11. after.ranges \in Ranges /\ Placed(after.buckets, after.ranges, all)
    <3> DEFINE new == after.buckets
    <3>1. \A v \in Values :
            /\ Held(new[t], v) = IF v < split THEN Held(bs[t], v) + Held(bs[t + 1], v) ELSE 0
            /\ Held(new[t + 1], v) = IF v >= split THEN Held(bs[t], v) + Held(bs[t + 1], v) ELSE 0
      BY <2>5, <2>6, <2>7, <2>9 DEF low, high
    <3>2. new \in Row /\ \A b \in Buckets : b # t /\ b # t + 1 => new[b] = bs[b]
      BY <2>9
    <3>3. split \in Values /\ ranges[t] <= split /\ split <= ranges[t + 1 + 1]
      BY <2>5, <2>10
    <3> HIDE DEF new, u
    <3>4. /\ [ranges EXCEPT ![t + 1] = split] \in Ranges
          /\ Placed(new, [ranges EXCEPT ![t + 1] = split], all)
      BY <3>1, <3>2, <3>3, PlacedAnew
    <3> QED
      BY <2>9, <3>4 DEF new, u
  <2>12. \A s \in {l.buffer, h.buffer} : Since(s, now - MaxElapse)
    <3>1. ASSUME NEW bk \in Bucket, Since(bk.buffer, now - MinElapse) PROVE Since(bk.buffer, now - MaxElapse)
      <4>1. \A i \in 1 .. Len(bk.buffer) : bk.buffer[i].ts \in Nat
        BY BucketIs, EntryIs
      <4>2. ASSUME NEW i \in 1 .. Len(bk.buffer) PROVE now - MaxElapse <= bk.buffer[i].ts
        <5>1. now - MinElapse <= bk.buffer[i].ts /\ bk.buffer[i].ts \in Nat
          BY <3>1, <4>1 DEF Since
        <5> QED
          BY <1>4, <5>1
      <4> QED
        BY <4>2 DEF Since
    <3> QED
      BY <2>6, <2>7, <3>1
  <2>13. Evened(bs, after.buckets, t)
    <3> DEFINE a == Size(low.tree)
               b == Size(high.tree)
               c == Size(l.tree)
               d == Size(h.tree)
               Even == /\ a + b <= c + d
                       /\ a >= 9 \/ b >= 9 => 4 * (a + b) <= 9 * c /\ 4 * (a + b) <= 9 * d
    <3>1. a \in Nat /\ b \in Nat /\ c \in Nat /\ d \in Nat /\ num \in Int
      BY <1>2, <2>2, <2>3, <2>6, <2>7, BucketIs
    <3> HIDE DEF a, b, c, d
    <3>2. ASSUME lowGives PROVE Even
      <4>1. a = large /\ b = small /\ large - num <= c /\ small + num <= d
        BY <2>0, <2>5, <2>6, <2>7, <3>2 DEF a, b, c, d
      <4> QED
        BY <2>2, <2>3, <3>1, <4>1
    <3>3. ASSUME ~lowGives PROVE Even
      <4>1. a = small /\ b = large /\ small + num <= c /\ large - num <= d
        BY <2>0, <2>5, <2>6, <2>7, <3>3 DEF a, b, c, d
      <4> QED
        BY <2>2, <2>3, <3>1, <4>1
    <3>4. Even
      BY <3>2, <3>3
    <3> QED
      BY <2>9, <3>4 DEF Evened, a, b, c, d, low, high
  <2>14. Resized(bs, after, t, now)
    <3>1. Balances(NeedPop(bs[t], now), NeedPop(bs[t + 1], now),
                   Larger(bs[t], bs[t + 1]), Smaller(bs[t], bs[t + 1]))
      BY <1>9 DEF low, high, large, small
    <3> QED
      BY <2>5, <2>9, <2>13, <3>1 DEF Resized
  <2> QED
    BY <2>9, <2>11, <2>12, <2>14
<1> QED
  BY <1>7, <1>8, <1>9

-----------------------------------------------------------------------------
(* The tour over the pairs.                                                *)

Tour == 2 * (NumBuckets - 2)

LEMMA TourIs == Tour \in Nat /\ Tour > 0 /\ NumBuckets - 1 <= Tour /\ NumBuckets \in Nat /\ NumBuckets > 2
BY ConstantsAssumption DEF Tour

LEMMA Remainder ==
  ASSUME NEW s \in Nat, NEW P \in Nat, P > 0
  PROVE  s % P \in 0 .. P - 1 /\ s \div P \in Int /\ s = P * (s \div P) + (s % P)
<1>1. s % P \in 0 .. P - 1
  OBVIOUS
<1>2. s \div P \in Int
  OBVIOUS
<1>3. s = P * (s \div P) + (s % P)
  OBVIOUS
<1> QED
  BY <1>1, <1>2, <1>3

\* A remainder is unique.
LEMMA OneRemainder ==
  ASSUME NEW P \in Nat, P > 0, NEW k \in Int, NEW d \in Int, NEW i \in 0 .. P - 1, NEW j \in 0 .. P - 1,
         i + P * k = j + P * d
  PROVE  i = j
<1>1. P * (k - d) = j - i /\ P * (d - k) = i - j
  OBVIOUS
<1>2. \A m \in Int : m >= 1 => P * m >= P
  OBVIOUS
<1>3. CASE k - d >= 1
  BY <1>1, <1>2, <1>3
<1>4. CASE d - k >= 1
  BY <1>1, <1>2, <1>4
<1>5. CASE k = d
  BY <1>1, <1>5
<1> QED
  BY <1>3, <1>4, <1>5

LEMMA PairIs ==
  ASSUME NEW s \in Nat
  PROVE  PairFor(s) \in Buckets /\ PairFor(s) + 1 \in Buckets
<1> DEFINE i == s % Tour
<1>1. i \in 0 .. Tour - 1
  BY TourIs, Remainder
<1>2. PairFor(s) = IF i > NumBuckets - 2 THEN Tour - i ELSE i
  BY DEF PairFor, Tour
<1> HIDE DEF i
<1>3. PairFor(s) \in 0 .. NumBuckets - 2
  BY <1>1, <1>2, TourIs DEF Tour
<1> QED
  BY <1>3, TourIs DEF Buckets

\* Every bucket is of one of the pairs of any tour.
LEMMA EveryTour ==
  ASSUME NEW n \in Nat, n >= Tour, NEW b \in Buckets
  PROVE  \E s \in Nat : s < n /\ s >= n - Tour /\ b \in {PairFor(s), PairFor(s) + 1}
<1> DEFINE i == IF b <= NumBuckets - 2 THEN b ELSE b - 1
           m == (n - 1 - i) % Tour
           k == (n - 1 - i) \div Tour
           s == n - 1 - m
<1>1. b \in 0 .. NumBuckets - 1 /\ i \in 0 .. NumBuckets - 2 /\ i \in 0 .. Tour - 1 /\ b \in {i, i + 1}
  BY TourIs DEF Buckets
<1> HIDE DEF i
<1>2. n - 1 - i \in Nat
  BY <1>1, TourIs
<1>3. m \in 0 .. Tour - 1 /\ k \in Int /\ n - 1 - i = Tour * k + m
  BY <1>2, TourIs, Remainder
<1> HIDE DEF m, k
<1>4. s \in Nat /\ s < n /\ s >= n - Tour
  BY <1>3, TourIs
<1>5. i + Tour * k = s
  <2>1. Tour * k \in Int
    BY <1>3, TourIs
  <2> HIDE DEF s
  <2>2. s = n - 1 - m
    BY DEF s
  <2> QED
    BY <1>1, <1>3, <2>1, <2>2
<1> HIDE DEF s
<1>6. s % Tour \in 0 .. Tour - 1 /\ s \div Tour \in Int /\ s = Tour * (s \div Tour) + (s % Tour)
  BY <1>4, TourIs, Remainder
<1>7. i = s % Tour
  <2> DEFINE j == s % Tour
             d == s \div Tour
  <2>1. j \in 0 .. Tour - 1 /\ d \in Int /\ s = Tour * d + j
    BY <1>6
  <2> HIDE DEF j, d
  <2>2. i + Tour * k = j + Tour * d
    <3>1. Tour * d \in Int /\ j \in Int
      BY <2>1, TourIs
    <3> QED
      BY <1>5, <2>1, <3>1
  <2>3. i = j
    BY <1>1, <1>3, <2>1, <2>2, TourIs, OneRemainder
  <2> QED
    BY <2>3 DEF j
<1>8. PairFor(s) = i
  <2>1. PairFor(s) = IF s % Tour > NumBuckets - 2 THEN Tour - (s % Tour) ELSE s % Tour
    BY DEF PairFor, Tour
  <2> QED
    BY <1>1, <1>7, <2>1, TourIs
<1> QED
  BY <1>1, <1>4, <1>8

LEMMA Weaker ==
  ASSUME NEW buf \in Seq(Entry), NEW t \in Int, NEW earlier \in Int, earlier <= t
  PROVE  /\ Since(buf, t) => Since(buf, earlier)
         /\ InOrder(buf, earlier) => InOrder(buf, t)
<1>1. \A i \in 1 .. Len(buf) : buf[i].ts \in Nat
  BY EntryIs
<1> QED
  BY <1>1 DEF Since, InOrder

-----------------------------------------------------------------------------
(* The sizes of the trees.                                                 *)

TreeSizes(bs) == [b \in Buckets |-> Size(bs[b].tree)]

\* The fewest keys m neighbours in use can have between them, for six buckets
\* at most.  A bucket balanced with its neighbour may lose keys, but then it
\* has four ninths of both: hence each number is at most five ninths of the
\* one before it and four ninths of the one after it.
Least(m) == <<0, 11, 25, 43, 66, 95, 132>>[m + 1]

InUse(rs) == {b \in Buckets : rs[b] < Highest}

Filled(x, rs) ==
  (\E b \in InUse(rs) : b > 0) =>
    \A i \in Buckets : \A j \in InUse(rs) : i <= j => Least(j - i + 1) <= Amount(x, i .. j)

LEMMA LeastIs ==
  /\ \A m \in 0 .. 6 : Least(m) \in Nat
  /\ Least(0) = 0 /\ Least(1) = 11
  /\ \A m \in 1 .. 5 : 9 * Least(m) <= 5 * Least(m - 1) + 4 * Least(m + 1)
  /\ \A m \in 1 .. 6 : Least(m) <= Least(m - 1) + 45
  /\ \A m \in 2 .. 6 : Least(m) <= Least(m - 2) + 100
<1>1. /\ Least(0) = 0 /\ Least(1) = 11 /\ Least(2) = 25 /\ Least(3) = 43
      /\ Least(4) = 66 /\ Least(5) = 95 /\ Least(6) = 132
  BY DEF Least
<1>2. \A m \in 0 .. 6 : m = 0 \/ m = 1 \/ m = 2 \/ m = 3 \/ m = 4 \/ m = 5 \/ m = 6
  OBVIOUS
<1>3. \A m \in 0 .. 6 : Least(m) \in Nat
  BY <1>1, <1>2
<1>4. \A m \in 1 .. 5 : 9 * Least(m) <= 5 * Least(m - 1) + 4 * Least(m + 1)
  <2> SUFFICES ASSUME NEW m \in 1 .. 5 PROVE 9 * Least(m) <= 5 * Least(m - 1) + 4 * Least(m + 1)
    OBVIOUS
  <2>1. m = 1 \/ m = 2 \/ m = 3 \/ m = 4 \/ m = 5
    OBVIOUS
  <2> QED
    BY <1>1, <2>1
<1>5. \A m \in 1 .. 6 : Least(m) <= Least(m - 1) + 45
  <2> SUFFICES ASSUME NEW m \in 1 .. 6 PROVE Least(m) <= Least(m - 1) + 45
    OBVIOUS
  <2>1. m = 1 \/ m = 2 \/ m = 3 \/ m = 4 \/ m = 5 \/ m = 6
    OBVIOUS
  <2> QED
    BY <1>1, <2>1
<1>6. \A m \in 2 .. 6 : Least(m) <= Least(m - 2) + 100
  <2> SUFFICES ASSUME NEW m \in 2 .. 6 PROVE Least(m) <= Least(m - 2) + 100
    OBVIOUS
  <2>1. m = 2 \/ m = 3 \/ m = 4 \/ m = 5 \/ m = 6
    OBVIOUS
  <2> QED
    BY <1>1, <2>1
<1> QED
  BY <1>1, <1>3, <1>4, <1>5, <1>6

LEMMA SumIs ==
  ASSUME NEW c \in [Buckets -> Nat], NEW i \in Nat, NEW k \in Int, NEW j \in Int,
         j < NumBuckets, i <= k + 1, k <= j
  PROVE  /\ Amount(c, i .. k) \in Nat /\ Amount(c, k + 1 .. j) \in Nat
         /\ Amount(c, i .. j) = Amount(c, i .. k) + Amount(c, k + 1 .. j)
<1>1. NumBuckets \in Nat
  BY TourIs
<1>2. IsFiniteSet(i .. k) /\ IsFiniteSet(k + 1 .. j)
  <2>1. i \in Int /\ k + 1 \in Int
    OBVIOUS
  <2> QED
    BY <2>1, FS_Interval
<1>3. (i .. k) \cap (k + 1 .. j) = {} /\ (i .. k) \cup (k + 1 .. j) = i .. j
  OBVIOUS
<1>4. \A b \in (i .. k) \cup (k + 1 .. j) : c[b] \in Nat
  BY <1>1, <1>3 DEF Buckets
<1>5. /\ Amount(c, i .. k) \in Nat /\ Amount(c, k + 1 .. j) \in Nat
      /\ Amount(c, (i .. k) \cup (k + 1 .. j)) = Amount(c, i .. k) + Amount(c, k + 1 .. j)
  BY <1>2, <1>3, <1>4, AmountAdd
<1> QED
  BY <1>3, <1>5, Zenon

LEMMA SumOfOne ==
  ASSUME NEW c \in [Buckets -> Nat], NEW b \in Buckets
  PROVE  b \in Nat /\ c[b] \in Nat /\ Amount(c, b .. b) = c[b]
<1>1. b \in Nat /\ c[b] \in Nat
  BY TourIs DEF Buckets
<1>2. b .. b = {b}
  BY <1>1
<1> QED
  BY <1>1, <1>2, AmountOne

LEMMA SumMono ==
  ASSUME NEW c \in [Buckets -> Nat], NEW d \in [Buckets -> Nat], NEW i \in Nat, NEW j \in Int, j < NumBuckets,
         \A b \in Buckets : i <= b /\ b <= j => c[b] <= d[b]
  PROVE  Amount(c, i .. j) \in Nat /\ Amount(d, i .. j) \in Nat /\ Amount(c, i .. j) <= Amount(d, i .. j)
<1>1. \A b \in i .. j : b \in Buckets /\ i <= b /\ b <= j
  BY TourIs DEF Buckets
<1>2. \A b \in i .. j : c[b] \in Nat /\ d[b] \in Nat /\ c[b] <= d[b]
  BY <1>1
<1>3. IsFiniteSet(i .. j)
  <2>1. i \in Int
    OBVIOUS
  <2> QED
    BY <2>1, FS_Interval
<1> QED
  BY <1>2, <1>3, AmountMono

\* Two balanced neighbours leave every row of buckets in use as full as it
\* has to be: if both were in use before, each has four ninths of their keys;
\* if not, the lower had a hundred keys and more.
LEMMA StillFilled ==
  ASSUME NumBuckets <= 6, NEW x \in [Buckets -> Nat], NEW y \in [Buckets -> Nat],
         NEW p \in Buckets, p + 1 \in Buckets, \A b \in Buckets : b # p /\ b # p + 1 => y[b] = x[b],
         NEW rs \in Ranges, NEW split \in Int, split < Highest, rs[p] < Highest, Filled(x, rs),
         x[p] + x[p + 1] <= y[p] + y[p + 1],
         x[p] >= 9 \/ x[p + 1] >= 9 =>
           4 * (x[p] + x[p + 1]) <= 9 * y[p] /\ 4 * (x[p] + x[p + 1]) <= 9 * y[p + 1],
         rs[p + 1] < Highest \/ (x[p + 1] = 0 /\ x[p] >= 100)
  PROVE  Filled(y, [rs EXCEPT ![p + 1] = split])
<1> DEFINE A(i, j) == Amount(x, i .. j)
           B(i, j) == Amount(y, i .. j)
           new == [rs EXCEPT ![p + 1] = split]
<1>1. /\ NumBuckets \in Nat /\ p \in Nat /\ p + 1 < NumBuckets /\ p + 1 <= 5
      /\ \A b : b \in Buckets <=> b \in Nat /\ b < NumBuckets
  BY TourIs DEF Buckets
<1>2. x[p] \in Nat /\ x[p + 1] \in Nat /\ y[p] \in Nat /\ y[p + 1] \in Nat
  OBVIOUS
<1>3. /\ Highest \in Int /\ \A b \in Buckets : rs[b] \in Int
      /\ \A b \in Buckets : b + 1 = p => rs[b] <= rs[p]
  <2>1. Highest \in Int
    BY ConstantsAssumption DEF Highest
  <2>2. \A b \in Buckets : rs[b] \in Int /\ rs[b] <= rs[b + 1]
    BY BoundsOf
  <2> QED
    BY <2>1, <2>2
<1>4. \A b \in InUse(new) : b \in InUse(rs) \/ b = p + 1
  <2>1. \A b \in Buckets : b # p + 1 => new[b] = rs[b]
    BY DEF Ranges
  <2> QED
    BY <2>1 DEF InUse
<1>5. p \in InUse(rs) /\ \A j \in InUse(rs) : j \in Buckets /\ j \in Nat
  BY <1>1 DEF InUse
\* What was full enough: everything, unless only the lowest bucket was used.
<1>6. ASSUME NEW i \in Buckets, NEW j \in InUse(rs), i <= j, j > 0 \/ p > 0
      PROVE  Least(j - i + 1) <= A(i, j)
  BY <1>5, <1>6 DEF Filled
\* Rows that have none or both of the two buckets.
<1>7. ASSUME NEW i \in Nat, NEW j \in Int, j < NumBuckets, i > p + 1 \/ j < p \/ (i <= p /\ p < j)
      PROVE  A(i, j) \in Nat /\ B(i, j) \in Nat /\ A(i, j) <= B(i, j)
  <2>1. CASE i > p + 1 \/ j < p
    <3>1. \A b \in Buckets : i <= b /\ b <= j => x[b] <= y[b]
      BY <1>1, <2>1
    <3> QED
      BY <1>7, <3>1, SumMono
  <2>2. CASE i <= p /\ p < j
    <3>1. \A b \in Buckets : i <= b /\ b <= p - 1 => x[b] <= y[b]
      BY <1>1
    <3>2. \A b \in Buckets : p + 2 <= b /\ b <= j => x[b] <= y[b]
      BY <1>1
    <3>3. /\ A(i, p - 1) \in Nat /\ B(i, p - 1) \in Nat /\ A(i, p - 1) <= B(i, p - 1)
          /\ A(p + 2, j) \in Nat /\ B(p + 2, j) \in Nat /\ A(p + 2, j) <= B(p + 2, j)
      <4>1. p - 1 \in Int /\ p - 1 < NumBuckets /\ p + 2 \in Nat
        BY <1>1
      <4> QED
        BY <1>7, <3>1, <3>2, <4>1, SumMono
    <3>4. ASSUME NEW c \in [Buckets -> Nat]
          PROVE  Amount(c, i .. j) = Amount(c, i .. p - 1) + c[p] + c[p + 1] + Amount(c, p + 2 .. j)
      <4>1. /\ Amount(c, i .. p) = Amount(c, i .. p - 1) + Amount(c, p .. p)
            /\ Amount(c, i .. p - 1) \in Nat /\ Amount(c, p .. p) \in Nat
        <5>1. p - 1 \in Int /\ p \in Int /\ p < NumBuckets /\ i <= (p - 1) + 1 /\ p - 1 <= p /\ (p - 1) + 1 = p
          BY <1>1, <2>2
        <5>2. /\ Amount(c, i .. p - 1) \in Nat /\ Amount(c, (p - 1) + 1 .. p) \in Nat
              /\ Amount(c, i .. p) = Amount(c, i .. p - 1) + Amount(c, (p - 1) + 1 .. p)
          BY <5>1, SumIs
        <5> QED
          BY <5>1, <5>2
      <4>2. /\ Amount(c, i .. p + 1) = Amount(c, i .. p) + Amount(c, p + 1 .. p + 1)
            /\ Amount(c, p + 1 .. p + 1) \in Nat
        <5>1. p \in Int /\ p + 1 \in Int /\ p + 1 < NumBuckets /\ i <= p + 1 /\ p <= p + 1
          BY <1>1, <2>2
        <5> QED
          BY <5>1, SumIs
      <4>3. /\ Amount(c, i .. j) = Amount(c, i .. p + 1) + Amount(c, p + 2 .. j)
            /\ Amount(c, p + 2 .. j) \in Nat
        <5>1. p + 1 \in Int /\ i <= (p + 1) + 1 /\ p + 1 <= j /\ (p + 1) + 1 = p + 2
          BY <1>1, <2>2
        <5>2. /\ Amount(c, i .. j) = Amount(c, i .. p + 1) + Amount(c, (p + 1) + 1 .. j)
              /\ Amount(c, (p + 1) + 1 .. j) \in Nat
          BY <1>7, <5>1, SumIs
        <5> QED
          BY <5>1, <5>2
      <4>4. Amount(c, p .. p) = c[p] /\ Amount(c, p + 1 .. p + 1) = c[p + 1]
        BY SumOfOne
      <4> QED
        BY <4>1, <4>2, <4>3, <4>4
    <3>5. /\ A(i, j) = A(i, p - 1) + x[p] + x[p + 1] + A(p + 2, j)
          /\ B(i, j) = B(i, p - 1) + y[p] + y[p + 1] + B(p + 2, j)
      BY <3>4
    <3> HIDE DEF A, B
    <3> QED
      BY <1>2, <3>3, <3>5
  <2> QED
    BY <1>7, <2>1, <2>2
\* Rows that end with the lower bucket.
<1>8. ASSUME NEW i \in Nat, i <= p
      PROVE  /\ A(i, p - 1) \in Nat /\ A(i, p - 1) + y[p] <= B(i, p) /\ B(i, p) \in Nat
             /\ A(i, p + 1) = A(i, p - 1) + x[p] + x[p + 1]
             /\ i = p => A(i, p - 1) = 0
  <2>1. A(i, p - 1) \in Nat /\ B(i, p - 1) \in Nat /\ A(i, p - 1) <= B(i, p - 1)
    <3>1. p - 1 \in Int /\ p - 1 < NumBuckets /\ p - 1 < p
      BY <1>1
    <3> QED
      BY <1>7, <3>1
  <2>2. ASSUME NEW c \in [Buckets -> Nat]
        PROVE  /\ Amount(c, i .. p) = Amount(c, i .. p - 1) + c[p]
               /\ Amount(c, i .. p + 1) = Amount(c, i .. p) + c[p + 1]
    <3>1. p - 1 \in Int /\ p \in Int /\ p < NumBuckets /\ i <= (p - 1) + 1 /\ p - 1 <= p /\ (p - 1) + 1 = p
      BY <1>1, <1>8
    <3>2. Amount(c, i .. p) = Amount(c, i .. p - 1) + Amount(c, (p - 1) + 1 .. p)
      BY <3>1, SumIs
    <3>3. p + 1 \in Int /\ p + 1 < NumBuckets /\ i <= p + 1 /\ p <= p + 1
      BY <1>1, <1>8
    <3>4. Amount(c, i .. p + 1) = Amount(c, i .. p) + Amount(c, p + 1 .. p + 1)
      BY <3>1, <3>3, SumIs
    <3>5. Amount(c, p .. p) = c[p] /\ Amount(c, p + 1 .. p + 1) = c[p + 1]
      BY SumOfOne
    <3> QED
      BY <3>1, <3>2, <3>4, <3>5
  <2>3. /\ A(i, p) = A(i, p - 1) + x[p] /\ A(i, p + 1) = A(i, p) + x[p + 1]
        /\ B(i, p) = B(i, p - 1) + y[p]
    BY <2>2
  <2>4. i = p => A(i, p - 1) = 0
    <3>1. i = p => i .. p - 1 = {}
      BY <1>1
    <3> QED
      BY <3>1, AmountZero
  <2> HIDE DEF A, B
  <2> QED
    BY <1>2, <2>1, <2>3, <2>4
\* Rows that begin with the upper bucket.
<1>9. ASSUME NEW j \in Nat, j < NumBuckets, p < j
      PROVE  /\ A(p + 2, j) \in Nat /\ y[p + 1] + A(p + 2, j) <= B(p + 1, j) /\ B(p + 1, j) \in Nat
             /\ A(p + 1, j) = x[p + 1] + A(p + 2, j)
             /\ A(p, j) = x[p] + A(p + 1, j)
             /\ j = p + 1 => A(p + 2, j) = 0
  <2>1. A(p + 2, j) \in Nat /\ B(p + 2, j) \in Nat /\ A(p + 2, j) <= B(p + 2, j)
    <3>1. p + 2 \in Nat /\ p + 2 > p + 1
      BY <1>1
    <3> QED
      BY <1>7, <1>9, <3>1
  <2>2. ASSUME NEW c \in [Buckets -> Nat]
        PROVE  /\ Amount(c, p .. j) = c[p] + Amount(c, p + 1 .. j)
               /\ Amount(c, p + 1 .. j) = c[p + 1] + Amount(c, p + 2 .. j)
    <3>1. p \in Nat /\ p \in Int /\ p <= p + 1 /\ p <= j /\ j \in Int
      BY <1>1, <1>9
    <3>2. Amount(c, p .. j) = Amount(c, p .. p) + Amount(c, p + 1 .. j)
      BY <1>9, <3>1, SumIs
    <3>3. p + 1 \in Nat /\ p + 1 \in Int /\ p + 1 <= (p + 1) + 1 /\ p + 1 <= j /\ (p + 1) + 1 = p + 2
      BY <1>1, <1>9
    <3>4. Amount(c, p + 1 .. j) = Amount(c, p + 1 .. p + 1) + Amount(c, (p + 1) + 1 .. j)
      BY <1>9, <3>1, <3>3, SumIs
    <3>5. Amount(c, p .. p) = c[p] /\ Amount(c, p + 1 .. p + 1) = c[p + 1]
      BY SumOfOne
    <3> QED
      BY <3>2, <3>3, <3>4, <3>5
  <2>3. /\ A(p, j) = x[p] + A(p + 1, j) /\ A(p + 1, j) = x[p + 1] + A(p + 2, j)
        /\ B(p + 1, j) = y[p + 1] + B(p + 2, j)
    BY <2>2
  <2>4. j = p + 1 => A(p + 2, j) = 0
    <3>1. j = p + 1 => p + 2 .. j = {}
      BY <1>1
    <3> QED
      BY <3>1, AmountZero
  <2> HIDE DEF A, B
  <2> QED
    BY <1>2, <2>1, <2>3, <2>4
<1> HIDE DEF A, B
\* The row below the two is full enough in either case.
<1>10. ASSUME NEW i \in Buckets, i <= p
       PROVE  i \in Nat /\ p - i \in 0 .. 4 /\ Least(p - i) <= A(i, p - 1)
  <2>1. i \in Nat /\ p - i \in 0 .. 4
    BY <1>1, <1>10
  <2>2. CASE i = p
    <3>1. p - i = 0 /\ A(i, p - 1) = 0
      BY <1>1, <1>8, <2>1, <2>2
    <3> QED
      BY <2>1, <3>1, LeastIs
  <2>3. CASE i < p
    <3>1. p - 1 \in Buckets /\ p - 1 \in Nat /\ (p - 1) + 1 = p
      BY <1>1, <2>1, <2>3
    <3>2. p - 1 \in InUse(rs)
      <4>1. rs[p - 1] <= rs[p] /\ rs[p - 1] \in Int /\ rs[p] \in Int
        BY <1>3, <3>1
      <4> QED
        BY <1>3, <3>1, <4>1 DEF InUse
    <3>3. i <= p - 1 /\ p > 0 /\ (p - 1) - i + 1 = p - i
      BY <1>1, <2>1, <2>3
    <3>4. Least((p - 1) - i + 1) <= A(i, p - 1)
      BY <1>6, <3>2, <3>3
    <3> QED
      BY <2>1, <3>3, <3>4
  <2> QED
    BY <1>1, <1>10, <2>1, <2>2, <2>3
<1>11. ASSUME NEW i \in Buckets, NEW j \in InUse(new), i <= j PROVE Least(j - i + 1) <= B(i, j)
  <2>1. i \in Nat /\ j \in Nat /\ j < NumBuckets /\ j - i + 1 \in 1 .. 6 /\ j \in Buckets
    BY <1>1, <1>11 DEF InUse
  <2>2. Least(j - i + 1) \in Nat
    BY <2>1, LeastIs
  \* The upper bucket was in use.
  <2>3. CASE rs[p + 1] < Highest
    <3>1. p + 1 \in InUse(rs) /\ j \in InUse(rs) /\ p + 1 \in Nat /\ p + 1 > 0 /\ p + 1 < NumBuckets
      BY <1>1, <1>4, <2>3 DEF InUse
    <3>2. ASSUME NEW k \in Buckets, NEW l \in InUse(rs), k <= l PROVE Least(l - k + 1) <= A(k, l)
      <4>1. \A m \in Buckets : \A n \in InUse(rs) : m <= n => Least(n - m + 1) <= Amount(x, m .. n)
        BY <3>1 DEF Filled
      <4> QED
        BY <3>2, <4>1 DEF A
    <3>3. 4 * (x[p] + x[p + 1]) <= 9 * y[p] /\ 4 * (x[p] + x[p + 1]) <= 9 * y[p + 1]
      <4>1. Least((p + 1) - (p + 1) + 1) <= A(p + 1, p + 1)
        BY <1>1, <3>1, <3>2
      <4>2. (p + 1) - (p + 1) + 1 = 1 /\ A(p + 1, p + 1) = x[p + 1]
        <5>1. /\ A(p + 1, p + 1) = x[p + 1] + A(p + 2, p + 1)
              /\ A(p + 2, p + 1) = 0
          BY <1>1, <1>9, <3>1
        <5> QED
          BY <1>1, <1>2, <5>1
      <4>3. x[p + 1] >= 11
        BY <1>2, <4>1, <4>2, LeastIs
      <4> QED
        BY <1>2, <4>3
    <3>4. CASE i > p + 1 \/ j < p \/ (i <= p /\ p < j)
      <4>1. A(i, j) \in Nat /\ B(i, j) \in Nat /\ A(i, j) <= B(i, j)
        BY <1>7, <2>1, <3>4
      <4>2. Least(j - i + 1) <= A(i, j)
        BY <1>11, <3>1, <3>2
      <4> QED
        BY <2>2, <4>1, <4>2
    <3>5. CASE j = p
      <4>1. /\ A(i, p - 1) \in Nat /\ A(i, p - 1) + y[p] <= B(i, p) /\ B(i, p) \in Nat
            /\ A(i, p + 1) = A(i, p - 1) + x[p] + x[p + 1]
        BY <1>8, <1>11, <2>1, <3>5
      <4>2. Least(p - i) <= A(i, p - 1)
        BY <1>10, <1>11, <3>5
      <4>3. Least((p + 1) - i + 1) <= A(i, p + 1)
        BY <1>1, <1>11, <2>1, <3>1, <3>2, <3>5
      <4> DEFINE m == j - i + 1
      <4>4. /\ m \in 1 .. 5 /\ p - i = m - 1 /\ (p + 1) - i + 1 = m + 1
            /\ m - 1 \in 0 .. 6 /\ m + 1 \in 0 .. 6 /\ m \in 0 .. 6
        BY <1>1, <1>11, <2>1, <3>5
      <4>5. Least(m - 1) <= A(i, p - 1) /\ Least(m + 1) <= A(i, p - 1) + x[p] + x[p + 1]
        BY <4>1, <4>2, <4>3, <4>4
      <4> HIDE DEF m
      <4>6. /\ 9 * Least(m) <= 5 * Least(m - 1) + 4 * Least(m + 1)
            /\ Least(m) \in Nat /\ Least(m - 1) \in Nat /\ Least(m + 1) \in Nat
        BY <4>4, LeastIs
      <4>7. Least(m) <= B(i, p)
        BY <1>2, <3>3, <4>1, <4>5, <4>6
      <4> QED
        BY <3>5, <4>7 DEF m
    <3>6. CASE i = p + 1
      <4>1. /\ A(p + 2, j) \in Nat /\ y[p + 1] + A(p + 2, j) <= B(p + 1, j) /\ B(p + 1, j) \in Nat
            /\ A(p, j) = x[p] + (x[p + 1] + A(p + 2, j))
            /\ j = p + 1 => A(p + 2, j) = 0
        BY <1>1, <1>9, <1>11, <2>1, <3>6
      <4> DEFINE m == j - i + 1
      <4>2. /\ m \in 1 .. 5 /\ j - p + 1 = m + 1 /\ j - (p + 2) + 1 = m - 1
            /\ m - 1 \in 0 .. 6 /\ m + 1 \in 0 .. 6 /\ m \in 0 .. 6 /\ p <= j
        BY <1>1, <1>11, <2>1, <3>6
      <4>3. Least(m + 1) <= A(p, j)
        <5>1. Least(j - p + 1) <= A(p, j)
          BY <3>1, <3>2, <4>2
        <5> QED
          BY <4>2, <5>1
      <4>4. Least(m - 1) <= A(p + 2, j)
        <5>1. CASE j = p + 1
          <6>1. m - 1 = 0
            BY <1>1, <3>6, <5>1
          <6> QED
            BY <4>1, <5>1, <6>1, LeastIs
        <5>2. CASE j # p + 1
          <6>1. p + 2 \in Buckets /\ p + 2 <= j
            BY <1>1, <1>11, <2>1, <3>6, <5>2
          <6>2. Least(j - (p + 2) + 1) <= A(p + 2, j)
            BY <3>1, <3>2, <6>1
          <6> QED
            BY <4>2, <6>2
        <5> QED
          BY <5>1, <5>2
      <4> HIDE DEF m
      <4>5. /\ 9 * Least(m) <= 5 * Least(m - 1) + 4 * Least(m + 1)
            /\ Least(m) \in Nat /\ Least(m - 1) \in Nat /\ Least(m + 1) \in Nat
        BY <4>2, LeastIs
      <4>6. Least(m) <= B(p + 1, j)
        BY <1>2, <3>3, <4>1, <4>3, <4>4, <4>5
      <4> QED
        BY <3>6, <4>6 DEF m
    <3> QED
      BY <1>1, <1>11, <2>1, <3>4, <3>5, <3>6
  \* The upper bucket is opened.
  <2>4. CASE ~(rs[p + 1] < Highest)
    <3>1. x[p + 1] = 0 /\ x[p] >= 100 /\ y[p] >= 45 /\ y[p + 1] >= 45
      <4>1. x[p + 1] = 0 /\ x[p] >= 100
        BY <2>4
      <4> QED
        BY <1>2, <4>1
    <3>2. CASE j \in InUse(rs) /\ (i > p + 1 \/ j < p \/ (i <= p /\ p < j))
      <4>1. A(i, j) \in Nat /\ B(i, j) \in Nat /\ A(i, j) <= B(i, j)
        BY <1>7, <2>1, <3>2
      <4>2. j > 0 \/ p > 0
        BY <1>1, <1>11, <2>1, <3>2
      <4>3. Least(j - i + 1) <= A(i, j)
        BY <1>6, <1>11, <3>2, <4>2
      <4> QED
        BY <2>2, <4>1, <4>3
    <3>3. CASE j = p
      <4>1. A(i, p - 1) \in Nat /\ A(i, p - 1) + y[p] <= B(i, p) /\ B(i, p) \in Nat
        BY <1>8, <1>11, <2>1, <3>3
      <4>2. Least(p - i) <= A(i, p - 1)
        BY <1>10, <1>11, <3>3
      <4> DEFINE m == j - i + 1
      <4>3. m \in 1 .. 6 /\ p - i = m - 1 /\ m - 1 \in 0 .. 6 /\ m \in 0 .. 6
        BY <1>1, <1>11, <2>1, <3>3
      <4>4. Least(m - 1) <= A(i, p - 1)
        BY <4>2, <4>3
      <4> HIDE DEF m
      <4>5. Least(m) <= Least(m - 1) + 45 /\ Least(m) \in Nat /\ Least(m - 1) \in Nat
        BY <4>3, LeastIs
      <4>6. Least(m) <= B(i, p)
        BY <1>2, <3>1, <4>1, <4>4, <4>5
      <4> QED
        BY <3>3, <4>6 DEF m
    <3>4. CASE j = p + 1 /\ i <= p
      <4>1. /\ A(i, p - 1) \in Nat
            /\ A(i, p + 1) = A(i, p - 1) + x[p] + x[p + 1]
        BY <1>8, <2>1, <3>4
      <4>2. A(i, j) <= B(i, j) /\ B(i, j) \in Nat
        BY <1>1, <1>7, <2>1, <3>4
      <4>3. Least(p - i) <= A(i, p - 1)
        BY <1>10, <3>4
      <4> DEFINE m == j - i + 1
      <4>4. m \in 2 .. 6 /\ p - i = m - 2 /\ m - 2 \in 0 .. 6 /\ m \in 0 .. 6
        BY <1>1, <1>11, <2>1, <3>4
      <4>5. Least(m - 2) <= A(i, p - 1)
        BY <4>3, <4>4
      <4> HIDE DEF m
      <4>6. Least(m) <= Least(m - 2) + 100 /\ Least(m) \in Nat /\ Least(m - 2) \in Nat
        BY <4>4, LeastIs
      <4>7. A(i, j) = A(i, p - 1) + x[p] + x[p + 1]
        BY <3>4, <4>1
      <4>8. Least(m) <= B(i, j)
        BY <1>2, <3>1, <4>1, <4>2, <4>5, <4>6, <4>7
      <4> QED
        BY <4>8 DEF m
    <3>5. CASE i = p + 1
      <4>1. /\ A(p + 2, j) \in Nat /\ y[p + 1] + A(p + 2, j) <= B(p + 1, j) /\ B(p + 1, j) \in Nat
            /\ A(p + 1, j) = x[p + 1] + A(p + 2, j)
        BY <1>1, <1>9, <1>11, <2>1, <3>5
      <4>2. CASE j = p + 1
        <5>1. j - i + 1 = 1
          BY <1>1, <3>5, <4>2
        <5>2. 11 <= B(p + 1, j)
          BY <1>2, <3>1, <4>1
        <5>3. Least(j - i + 1) = 11
          BY <5>1, LeastIs
        <5> QED
          BY <3>5, <5>2, <5>3
      <4>3. CASE j # p + 1
        <5>0. j \in InUse(rs)
          BY <1>4, <4>3
        <5>1. j > 0
          BY <1>1, <1>11, <2>1, <3>5
        <5>2. Least(j - i + 1) <= A(i, j)
          BY <1>6, <1>11, <5>0, <5>1
        <5>3. A(i, j) = A(p + 1, j) /\ B(i, j) = B(p + 1, j)
          BY <3>5
        <5> QED
          BY <1>2, <2>2, <3>1, <4>1, <5>2, <5>3
      <4> QED
        BY <4>2, <4>3
    <3>6. j \in InUse(rs) \/ j = p + 1
      BY <1>4
    <3> QED
      BY <1>1, <1>11, <2>1, <3>2, <3>3, <3>4, <3>5, <3>6
  <2> QED
    BY <2>3, <2>4
<1> QED
  BY <1>11 DEF Filled, A, B

\* A bucket that holds a key is in use.
LEMMA HolderInUse ==
  ASSUME NEW bs \in Row, NEW rs \in Ranges, NEW all \in Tree, Placed(bs, rs, all), NEW b \in Buckets,
         Size(bs[b].tree) # 0 \/ bs[b].buffer # <<>>
  PROVE  rs[b] < Highest
<1> DEFINE bk == bs[b]
<1>1. bk \in Bucket
  BY DEF Row
<1>2. \A v \in Values : Held(bk, v) = IF Holds(rs, b, v) THEN all[v] ELSE 0
  BY DEF Placed
<1>3. \A v \in Values : v \in Int /\ v < Highest
  BY FiniteValues, ConstantsAssumption DEF Highest
<1>4. rs[b] \in Int /\ Highest \in Int
  BY BoundsOf, ConstantsAssumption DEF Highest
<1> HIDE DEF bk
<1>5. \E v \in Values : Held(bk, v) # 0
  <2>1. /\ bk.tree \in Tree /\ bk.buffer \in Seq(Entry)
        /\ \A v \in Values : bk.tree[v] \in Nat /\ CountOf(bk.buffer, v) \in Nat
    BY <1>1, BucketIs
  <2>2. CASE Size(bk.tree) # 0
    <3>1. Amount(bk.tree, Values) # 0
      BY <2>2 DEF Size
    <3>2. PICK v \in Values : bk.tree[v] > 0
      BY <2>1, <3>1, AmountSome
    <3>3. Held(bk, v) # 0
      BY <2>1, <3>2 DEF Held
    <3> QED
      BY <3>3
  <2>3. CASE bk.buffer # <<>>
    <3> DEFINE s == bk.buffer
               v == s[1].value
               K == {i \in 1 .. Len(s) : s[i].value = v}
    <3>1. s \in Seq(Entry) /\ 1 \in 1 .. Len(s)
      BY <2>1, <2>3, EmptySeq, EntryIs
    <3>2. v \in Values /\ s[1] \in Entry
      BY <3>1, EntryIs
    <3>3. s[1].count \in Nat /\ s[1].count > 0
      BY <3>2 DEF Entry
    <3> HIDE DEF s, v
    <3>4. /\ CountOf(s, v) = Amount(Counts(s), K) /\ CountOf(s, v) \in Nat
          /\ \A i \in 1 .. Len(s) : Counts(s)[i] = s[i].count /\ Counts(s)[i] \in Nat
          /\ IsFiniteSet(K)
      BY <3>1, CountIs
    <3>5. {1} \in SUBSET K /\ \A i \in K : Counts(s)[i] \in Nat
      BY <3>1, <3>4 DEF v
    <3> HIDE DEF K
    <3>6. Amount(Counts(s), {1}) = s[1].count
      BY <3>1, <3>4, AmountOne
    <3>7. Amount(Counts(s), {1}) <= Amount(Counts(s), K)
      BY <3>4, <3>5, AmountLeq
    <3>8. CountOf(s, v) # 0
      BY <3>3, <3>4, <3>6, <3>7
    <3>9. Held(bk, v) # 0
      BY <2>1, <3>2, <3>8 DEF Held, s
    <3> QED
      BY <3>2, <3>9
  <2> QED
    BY <2>2, <2>3 DEF bk
<1>6. PICK v \in Values : Held(bk, v) # 0
  BY <1>5
<1>7. Holds(rs, b, v)
  BY <1>2, <1>6
<1> QED
  BY <1>3, <1>4, <1>7 DEF Holds

\* A rebuild leaves every row of buckets in use as full as it has to be.
LEMMA RebuiltFilled ==
  ASSUME NumBuckets <= 6,
         NEW bs \in Row, ranges \in Ranges, NEW all \in Tree, Placed(bs, ranges, all),
         NEW t \in Buckets, t + 1 \in Buckets, NEW now \in Int, NEW after, after.buckets \in Row,
         \A b \in Buckets : b # t /\ b # t + 1 => after.buckets[b] = bs[b],
         Resized(bs, after, t, now), Filled(TreeSizes(bs), ranges)
  PROVE  Filled(TreeSizes(after.buckets), after.ranges)
<1> DEFINE x == TreeSizes(bs)
           y == TreeSizes(after.buckets)
           u == t + 1
<1>1. /\ x \in [Buckets -> Nat] /\ y \in [Buckets -> Nat]
      /\ \A b \in Buckets : x[b] = Size(bs[b].tree) /\ y[b] = Size(after.buckets[b].tree)
  <2>1. ASSUME NEW b \in Buckets PROVE Size(bs[b].tree) \in Nat /\ Size(after.buckets[b].tree) \in Nat
    <3>1. bs[b] \in Bucket /\ after.buckets[b] \in Bucket
      BY DEF Row
    <3> QED
      BY <3>1, BucketIs
  <2> QED
    BY <2>1 DEF TreeSizes
<1>2. \A b \in Buckets : b # t /\ b # t + 1 => y[b] = x[b]
  BY <1>1
<1>3. /\ ranges[t] \in Int /\ ranges[u] \in Int /\ ranges[t] <= ranges[u]
      /\ Highest \in Int /\ \A v \in Values : v \in Int /\ v < Highest
  BY BoundsOf, FiniteValues, ConstantsAssumption DEF Highest
<1>4. Filled(x, ranges)
  OBVIOUS
<1>5. SUFFICES Filled(y, after.ranges)
  OBVIOUS
<1> HIDE DEF x, y
<1>6. CASE after.ranges = ranges /\ \A b \in {t, t + 1} : Size(bs[b].tree) <= Size(after.buckets[b].tree)
  <2>1. \A b \in Buckets : x[b] <= y[b]
    <3>1. ASSUME NEW b \in Buckets PROVE x[b] <= y[b]
      <4>1. x[b] \in Nat /\ y[b] \in Nat
        BY <1>1
      <4>2. CASE b = t \/ b = t + 1
        BY <1>1, <1>6, <4>2
      <4>3. CASE ~(b = t \/ b = t + 1)
        BY <1>2, <4>1, <4>3
      <4> QED
        BY <4>2, <4>3
    <3> QED
      BY <3>1
  <2>2. ASSUME NEW i \in Buckets, NEW j \in InUse(ranges), i <= j, \E b \in InUse(ranges) : b > 0
        PROVE  Least(j - i + 1) <= Amount(y, i .. j)
    <3>1. Least(j - i + 1) <= Amount(x, i .. j)
      BY <1>4, <2>2 DEF Filled
    <3>2. i \in Nat /\ j \in Nat /\ j < NumBuckets /\ NumBuckets \in Nat
      BY TourIs DEF InUse, Buckets
    <3>3. Amount(x, i .. j) \in Nat /\ Amount(y, i .. j) \in Nat /\ Amount(x, i .. j) <= Amount(y, i .. j)
      BY <1>1, <2>1, <3>2, SumMono
    <3>4. Least(j - i + 1) \in Nat
      <4>1. j - i + 1 \in 0 .. 6
        BY <2>2, <3>2
      <4> QED
        BY <4>1, LeastIs
    <3> QED
      BY <3>1, <3>3, <3>4
  <2> QED
    BY <1>6, <2>2 DEF Filled
<1>7. CASE /\ \E split \in Values : after.ranges = [ranges EXCEPT ![t + 1] = split]
           /\ Balances(NeedPop(bs[t], now), NeedPop(bs[t + 1], now),
                       Larger(bs[t], bs[t + 1]), Smaller(bs[t], bs[t + 1]))
           /\ Evened(bs, after.buckets, t)
  <2>1. PICK split \in Values : after.ranges = [ranges EXCEPT ![t + 1] = split]
    BY <1>7
  <2>2. split \in Int /\ split < Highest
    BY <1>3
  <2>3. /\ x[t] + x[t + 1] <= y[t] + y[t + 1]
        /\ x[t] >= 9 \/ x[t + 1] >= 9 =>
             4 * (x[t] + x[t + 1]) <= 9 * y[t] /\ 4 * (x[t] + x[t + 1]) <= 9 * y[t + 1]
    BY <1>1, <1>7 DEF Evened
  <2>4. ranges[u] < Highest \/ (x[u] = 0 /\ x[t] >= 100)
    <3> SUFFICES ASSUME ~(ranges[u] < Highest) PROVE x[u] = 0 /\ x[t] >= 100
      OBVIOUS
    <3>1. x[u] = 0 /\ bs[u].buffer = <<>>
      BY <1>1, HolderInUse
    <3> DEFINE popLow == NeedPop(bs[t], now)
               popHigh == NeedPop(bs[u], now)
               large == Larger(bs[t], bs[u])
               small == Smaller(bs[t], bs[u])
    <3>2. popLow \in BOOLEAN /\ popHigh = FALSE
      BY <3>1 DEF NeedPop
    <3>3. (popLow \/ popHigh) /\ ~(popLow # popHigh /\ Alike(large, small))
      BY <1>7 DEF Balances
    <3>4. large = IF x[t] > x[u] THEN x[t] ELSE x[u]
      <4>1. bs[t] \in Bucket /\ bs[u] \in Bucket
        BY DEF Row
      <4>2. large = IF Size(bs[t].tree) > Size(bs[u].tree) THEN Size(bs[t].tree) ELSE Size(bs[u].tree)
        BY <4>1, SizesAre
      <4> QED
        BY <1>1, <4>2
    <3> HIDE DEF popLow, popHigh, large, small
    <3>5. ~Alike(large, small)
      BY <3>2, <3>3, Zenon
    <3>6. ~(large < 100)
      BY <3>5 DEF Alike, MinElemSplit
    <3>7. x[t] \in Nat
      BY <1>1
    <3> QED
      BY <3>1, <3>4, <3>6, <3>7
  <2>5. ranges[t] < Highest
    <3>1. CASE ranges[u] < Highest
      BY <1>3, <3>1
    <3>2. CASE x[t] >= 100
      <4>1. Size(bs[t].tree) # 0
        BY <1>1, <3>2
      <4> QED
        BY <4>1, HolderInUse
    <3> QED
      BY <2>4, <3>1, <3>2
  <2> QED
    BY <1>1, <1>2, <1>4, <2>1, <2>2, <2>3, <2>4, <2>5, StillFilled
<1> QED
  BY <1>6, <1>7 DEF Resized

-----------------------------------------------------------------------------
(* The search.                                                             *)

\* The ranges cover all values.
Ends == ranges[0] = Lowest /\ ranges[NumBuckets] = Highest

\* The buckets are in the order of their ranges.
LEMMA RangesMonotone ==
  ASSUME NEW rs \in Ranges, NEW a \in 0 .. NumBuckets, NEW b \in 0 .. NumBuckets, a <= b
  PROVE  rs[a] \in Int /\ rs[b] \in Int /\ rs[a] <= rs[b]
<1> DEFINE K == {m \in a .. NumBuckets : rs[a] > rs[m]}
<1>1. NumBuckets \in Nat /\ a \in Nat /\ b \in a .. NumBuckets /\ K \in SUBSET Nat
  BY TourIs
<1>2. \A m \in 0 .. NumBuckets : rs[m] \in Int
  <2>1. Lowest \in Int /\ Highest \in Int
    BY ConstantsAssumption DEF Lowest, Highest
  <2> QED
    BY <2>1 DEF Ranges
<1>3. ASSUME K # {} PROVE FALSE
  <2> DEFINE m == Min(K)
  <2>1. m \in K /\ \A j \in K : m <= j
    BY <1>1, <1>3, LeastOf
  <2> HIDE DEF m
  <2>2. m \in a .. NumBuckets /\ rs[a] > rs[m]
    BY <2>1
  <2>3. m # a
    BY <1>2, <2>2
  <2>4. m - 1 \in Buckets /\ m - 1 \in a .. NumBuckets /\ (m - 1) + 1 = m
    BY <1>1, <2>2, <2>3 DEF Buckets
  <2>5. m - 1 \notin K
    BY <1>1, <2>1, <2>2
  <2>6. rs[m - 1] <= rs[m]
    <3>1. rs[m - 1] <= rs[(m - 1) + 1]
      BY <2>4 DEF Ranges
    <3> QED
      BY <2>4, <3>1
  <2>7. rs[a] \in Int /\ rs[m] \in Int /\ rs[m - 1] \in Int
    BY <1>1, <1>2, <2>2, <2>4
  <2> QED
    BY <2>2, <2>4, <2>5, <2>6, <2>7
<1>4. b \notin K
  BY <1>3
<1> QED
  BY <1>1, <1>2, <1>4

\* Every value is in the range of one bucket.
LEMMA OneHolder ==
  ASSUME NEW rs \in Ranges, NEW a \in Buckets, NEW b \in Buckets, NEW v \in Values,
         Holds(rs, a, v), Holds(rs, b, v)
  PROVE  a = b
<1>1. /\ v \in Int /\ a \in Nat /\ b \in Nat /\ a + 1 \in 0 .. NumBuckets /\ b + 1 \in 0 .. NumBuckets
      /\ a \in 0 .. NumBuckets /\ b \in 0 .. NumBuckets
  BY BoundsOf, FiniteValues
<1>2. ASSUME NEW c \in Buckets, NEW d \in Buckets, Holds(rs, c, v), Holds(rs, d, v), c < d
      PROVE  FALSE
  <2>1. c + 1 <= d /\ c + 1 \in 0 .. NumBuckets /\ d \in 0 .. NumBuckets
    BY <1>2, BoundsOf
  <2>2. rs[c + 1] <= rs[d] /\ rs[c + 1] \in Int /\ rs[d] \in Int
    BY <2>1, RangesMonotone
  <2>3. v < rs[c + 1] /\ rs[d] <= v
    BY <1>2 DEF Holds
  <2> QED
    BY <1>1, <2>2, <2>3
<1>3. ~(a < b) /\ ~(b < a)
  BY <1>2
<1> QED
  BY <1>1, <1>3

\* The range of some bucket holds the query.
LEMMA MidBucketIs ==
  ASSUME ranges \in Ranges, Ends, NEW q \in Values
  PROVE  MidBucket(q) \in Buckets /\ Holds(ranges, MidBucket(q), q)
<1> DEFINE K == {b \in Buckets : ranges[b] <= q}
           m == Max(K)
<1>1. /\ q \in Int /\ Lowest <= q /\ q < Highest /\ Lowest \in Int /\ Highest \in Int
      /\ NumBuckets \in Nat /\ NumBuckets > 2
  BY FiniteValues, ConstantsAssumption DEF Lowest, Highest
<1>2. 0 \in K
  BY <1>1 DEF Ends, Buckets
<1>3. m \in K /\ \A j \in K : j <= m
  <2>1. K \in SUBSET (0 .. NumBuckets - 1) /\ 0 \in Int /\ NumBuckets - 1 \in Int /\ K # {}
    BY <1>1, <1>2 DEF Buckets
  <2> HIDE DEF K
  <2> QED
    BY <2>1, GreatestOf
<1> HIDE DEF m
<1>4. m \in Buckets /\ m \in Nat /\ ranges[m] <= q /\ m + 1 \in 0 .. NumBuckets /\ ranges[m + 1] \in Int
  BY <1>3, BoundsOf
<1>5. q < ranges[m + 1]
  <2>1. CASE m + 1 = NumBuckets
    BY <1>1, <2>1 DEF Ends
  <2>2. CASE m + 1 # NumBuckets
    <3>1. m + 1 \in Buckets
      BY <1>1, <1>4, <2>2 DEF Buckets
    <3>2. m + 1 \notin K
      BY <1>3, <1>4
    <3> QED
      BY <1>1, <1>4, <3>1, <3>2
  <2> QED
    BY <2>1, <2>2
<1>6. \E b \in Buckets : Holds(ranges, b, q)
  BY <1>4, <1>5 DEF Holds
<1> QED
  BY <1>6 DEF MidBucket

LEMMA SquaresGrow ==
  ASSUME NEW x \in Nat, NEW y \in Nat, x <= y
  PROVE  x * x <= y * y
<1>1. PICK d \in Nat : y = x + d
  <2>1. y - x \in Nat /\ y = x + (y - x)
    OBVIOUS
  <2> QED
    BY <2>1
<1>2. y * y = x * x + (2 * (x * d) + d * d) /\ x * d \in Nat /\ d * d \in Nat /\ x * x \in Nat
  BY <1>1
<1> QED
  BY <1>2

LEMMA DistIs ==
  ASSUME NEW q \in Int, NEW v \in Int
  PROVE  DistSq(q, v) \in Nat
<1>1. CASE q >= v
  <2>1. q - v \in Nat
    BY <1>1
  <2> QED
    BY <2>1 DEF DistSq
<1>2. CASE q < v
  <2>1. PICK d \in Nat : q - v = 0 - d
    <3>1. v - q \in Nat /\ q - v = 0 - (v - q)
      BY <1>2
    <3> QED
      BY <3>1
  <2>2. (0 - d) * (0 - d) = d * d
    OBVIOUS
  <2> QED
    BY <2>1, <2>2 DEF DistSq
<1> QED
  BY <1>1, <1>2

\* What is on the other side of an edge is at least as far as the edge.
LEMMA Farther ==
  ASSUME NEW q \in Int, NEW e \in Int, NEW v \in Int, (v <= e /\ e <= q) \/ (q <= e /\ e <= v)
  PROVE  DistSq(q, e) <= DistSq(q, v)
<1>1. CASE v <= e /\ e <= q
  <2>1. q - e \in Nat /\ q - v \in Nat /\ q - e <= q - v
    BY <1>1
  <2> QED
    BY <2>1, SquaresGrow DEF DistSq
<1>2. CASE q <= e /\ e <= v
  <2>1. e - q \in Nat /\ v - q \in Nat /\ e - q <= v - q
    BY <1>2
  <2>2. (e - q) * (e - q) <= (v - q) * (v - q)
    BY <2>1, SquaresGrow
  <2>3. (e - q) * (e - q) = (q - e) * (q - e) /\ (v - q) * (v - q) = (q - v) * (q - v)
    OBVIOUS
  <2> QED
    BY <2>2, <2>3 DEF DistSq
<1> QED
  BY <1>1, <1>2

\* A bucket looked into is behind its near edge.
LEMMA BehindEdge ==
  ASSUME ranges \in Ranges, NEW q \in Values, NEW mid \in Buckets, Holds(ranges, mid, q),
         NEW i \in Buckets, i > 0, Looked(mid, i) \in Buckets
  PROVE  /\ NearEdge(mid, i) \in Int
         /\ \A v \in Values : Holds(ranges, Looked(mid, i), v) => DistSq(q, NearEdge(mid, i)) <= DistSq(q, v)
<1>1. /\ q \in Int /\ mid \in Nat /\ i \in Nat /\ NumBuckets \in Nat
      /\ mid < NumBuckets /\ i < NumBuckets
      /\ ranges[mid] <= q /\ q < ranges[mid + 1] /\ \A v \in Values : v \in Int
  BY FiniteValues, TourIs DEF Buckets, Holds
<1>2. CASE i <= mid
  <2>1. /\ Looked(mid, i) = mid - i /\ NearEdge(mid, i) = ranges[mid - i + 1]
        /\ mid - i + 1 \in 0 .. NumBuckets /\ mid \in 0 .. NumBuckets /\ mid - i + 1 <= mid
    BY <1>1, <1>2 DEF Looked, NearEdge
  <2>2. ranges[mid - i + 1] \in Int /\ ranges[mid] \in Int /\ ranges[mid - i + 1] <= ranges[mid]
    BY <2>1, RangesMonotone
  <2>3. NearEdge(mid, i) \in Int /\ NearEdge(mid, i) <= q
    BY <1>1, <2>1, <2>2
  <2>4. \A v \in Values : Holds(ranges, Looked(mid, i), v) => v <= NearEdge(mid, i)
    BY <1>1, <2>1, <2>3 DEF Holds
  <2> QED
    BY <1>1, <2>3, <2>4, Farther
<1>3. CASE ~(i <= mid)
  <2>1. Looked(mid, i) = mid + i /\ NearEdge(mid, i) = ranges[mid + i]
    BY <1>3 DEF Looked, NearEdge
  <2>2. mid + 1 \in 0 .. NumBuckets /\ mid + i \in 0 .. NumBuckets /\ mid + 1 <= mid + i
    BY <1>1, <2>1 DEF Buckets
  <2>3. ranges[mid + 1] \in Int /\ ranges[mid + i] \in Int /\ ranges[mid + 1] <= ranges[mid + i]
    BY <2>2, RangesMonotone
  <2>4. NearEdge(mid, i) \in Int /\ q <= NearEdge(mid, i)
    BY <1>1, <2>1, <2>3
  <2>5. \A v \in Values : Holds(ranges, Looked(mid, i), v) => NearEdge(mid, i) <= v
    BY <2>1 DEF Holds
  <2> QED
    BY <1>1, <2>4, <2>5, Farther
<1> QED
  BY <1>2, <1>3

\* The keys at places where one tree has none and the other may have some.
LEMMA SumApart ==
  ASSUME NEW S, IsFiniteSet(S), NEW c, NEW d, NEW e,
         \A x \in S : /\ c[x] \in Nat /\ d[x] \in Nat /\ e[x] = c[x] + d[x]
                      /\ c[x] = 0 \/ d[x] = 0
  PROVE  /\ Amount(c, S) \in Nat /\ Amount(d, S) \in Nat
         /\ Amount(e, S) = Amount(c, S) + Amount(d, S)
<1> DEFINE T == {x \in S : d[x] = 0}
           U == {x \in S : d[x] # 0}
<1>1. S = T \cup U /\ T \cap U = {} /\ T \in SUBSET S /\ U \in SUBSET S
  OBVIOUS
<1>2. /\ \A x \in T : d[x] = 0 /\ e[x] = c[x]
      /\ \A x \in U : c[x] = 0 /\ e[x] = d[x]
      /\ \A x \in S : c[x] \in Nat /\ d[x] \in Nat /\ e[x] \in Nat
  OBVIOUS
<1> HIDE DEF T, U
<1>3. IsFiniteSet(T) /\ IsFiniteSet(U)
  BY <1>1, FS_Subset
<1>4. /\ Amount(c, T) \in Nat /\ Amount(c, U) \in Nat /\ Amount(c, T \cup U) = Amount(c, T) + Amount(c, U)
      /\ Amount(d, T) \in Nat /\ Amount(d, U) \in Nat /\ Amount(d, T \cup U) = Amount(d, T) + Amount(d, U)
      /\ Amount(e, T \cup U) = Amount(e, T) + Amount(e, U)
  <2>1. \A x \in T \cup U : c[x] \in Nat /\ d[x] \in Nat /\ e[x] \in Nat
    BY <1>1, <1>2, Zenon
  <2>2. Amount(c, T) \in Nat /\ Amount(c, U) \in Nat /\ Amount(c, T \cup U) = Amount(c, T) + Amount(c, U)
    BY <1>1, <1>3, <2>1, AmountAdd
  <2>3. Amount(d, T) \in Nat /\ Amount(d, U) \in Nat /\ Amount(d, T \cup U) = Amount(d, T) + Amount(d, U)
    BY <1>1, <1>3, <2>1, AmountAdd
  <2>4. Amount(e, T \cup U) = Amount(e, T) + Amount(e, U)
    BY <1>1, <1>3, <2>1, AmountAdd
  <2> QED
    BY <2>2, <2>3, <2>4
<1>5. Amount(c, U) = 0 /\ Amount(d, T) = 0 /\ Amount(e, T) = Amount(c, T) /\ Amount(e, U) = Amount(d, U)
  BY <1>2, AmountZero, AmountSame
<1>6. /\ Amount(c, S) = Amount(c, T) + Amount(c, U) /\ Amount(d, S) = Amount(d, T) + Amount(d, U)
      /\ Amount(e, S) = Amount(e, T) + Amount(e, U)
  BY <1>1, <1>4, Zenon
<1> QED
  BY <1>4, <1>5, <1>6

Close(q, d, limit) == {v \in Values : DistSq(q, v) <= d /\ DistSq(q, v) < limit}
Cut(n) == IF n >= KNearest THEN KNearest ELSE n

\* The results not farther than a distance.
LEMMA NearestIs ==
  ASSUME NEW tree \in Tree, NEW q \in Values, NEW limit
  PROVE  /\ DOMAIN Nearest(tree, q, limit) = Distances(q)
         /\ \A d \in Distances(q) :
              /\ d \in Nat /\ d < MaxDistSq
              /\ IsFiniteSet(Close(q, d, limit)) /\ Amount(tree, Close(q, d, limit)) \in Nat
              /\ Nearest(tree, q, limit)[d] = Cut(Amount(tree, Close(q, d, limit)))
<1>1. IsFiniteSet(Values) /\ \A v \in Values : v \in Int /\ DistSq(q, v) \in Nat
  BY FiniteValues, DistIs
<1>2. ASSUME NEW d \in Distances(q)
      PROVE  /\ d \in Nat /\ d < MaxDistSq
             /\ IsFiniteSet(Close(q, d, limit)) /\ Amount(tree, Close(q, d, limit)) \in Nat
             /\ Nearest(tree, q, limit)[d] = Cut(Amount(tree, Close(q, d, limit)))
  <2>1. d \in Nat /\ d < MaxDistSq
    BY <1>1 DEF Distances
  <2>2. Close(q, d, limit) \in SUBSET Values /\ \A x \in Values : tree[x] \in Nat
    BY DEF Close, Tree
  <2>3. IsFiniteSet(Close(q, d, limit)) /\ Amount(tree, Close(q, d, limit)) \in Nat
    BY <1>1, <2>2, AmountLeq
  <2>4. Nearest(tree, q, limit)[d] = Min({KNearest, Amount(tree, Close(q, d, limit))})
    BY DEF Nearest, Close
  <2>5. KNearest \in Int /\ KNearest \in Nat
    BY ConstantsAssumption
  <2> DEFINE n == Amount(tree, Close(q, d, limit))
  <2>6. n \in Int /\ n \in Nat
    BY <2>3
  <2> HIDE DEF n
  <2>7. Min({KNearest, n}) = IF KNearest <= n THEN KNearest ELSE n
    BY <2>5, <2>6, MaxOfTwo
  <2>8. Min({KNearest, n}) = Cut(n)
    BY <2>5, <2>6, <2>7 DEF Cut
  <2> QED
    BY <2>1, <2>3, <2>4, <2>8 DEF n
<1> QED
  BY <1>2 DEF Nearest

LEMMA SameNearest ==
  ASSUME NEW a \in Tree, NEW q \in Values, NEW limit, NEW f, f = [d \in Distances(q) |-> f[d]],
         \A d \in Distances(q) : f[d] = Cut(Amount(a, Close(q, d, limit)))
  PROVE  f = Nearest(a, q, limit)
<1>1. Nearest(a, q, limit) = [d \in Distances(q) |-> Nearest(a, q, limit)[d]]
  BY DEF Nearest
<1>2. \A d \in Distances(q) : f[d] = Nearest(a, q, limit)[d]
  BY NearestIs
<1> HIDE DEF Nearest
<1>3. [d \in Distances(q) |-> f[d]] = [d \in Distances(q) |-> Nearest(a, q, limit)[d]]
  BY <1>2
<1> QED
  BY <1>1, <1>3

\* Of the results with the limit there are as many as are asked for.
LEMMA LimitIs ==
  ASSUME NEW a \in Tree, NEW q \in Values
  PROVE  LET limit == Limit(Nearest(a, q, MaxDistSq))
         IN  /\ limit \in Nat /\ limit <= MaxDistSq
             /\ \A d \in Distances(q) : d >= limit => Amount(a, Close(q, d, MaxDistSq)) >= KNearest
<1> DEFINE res == Nearest(a, q, MaxDistSq)
           full == {d \in DOMAIN res : res[d] = KNearest}
           n(d) == Amount(a, Close(q, d, MaxDistSq))
<1>1. /\ DOMAIN res = Distances(q)
      /\ \A d \in Distances(q) : d \in Nat /\ d < MaxDistSq /\ n(d) \in Nat /\ res[d] = Cut(n(d))
  BY NearestIs
<1>2. Limit(res) = IF full = {} THEN MaxDistSq ELSE Min(full)
  BY DEF Limit
<1>3. MaxDistSq \in Nat /\ KNearest \in Nat
  BY ConstantsAssumption
<1>4. \A d, e \in Distances(q) : d <= e => n(d) <= n(e)
  <2>1. SUFFICES ASSUME NEW d \in Distances(q), NEW e \in Distances(q), d <= e PROVE n(d) <= n(e)
    OBVIOUS
  <2>2. \A v \in Values : DistSq(q, v) \in Nat
    BY FiniteValues, DistIs
  <2>3. Close(q, d, MaxDistSq) \in SUBSET Close(q, e, MaxDistSq)
    <3>1. d \in Nat /\ e \in Nat
      BY <1>1
    <3> HIDE DEF res, n
    <3>2. \A v \in Values : DistSq(q, v) <= d => DistSq(q, v) <= e
      BY <2>1, <2>2, <3>1
    <3> QED
      BY <3>2 DEF Close
  <2>4. IsFiniteSet(Close(q, e, MaxDistSq))
    BY NearestIs
  <2>5. \A x \in Close(q, e, MaxDistSq) : a[x] \in Nat
    BY DEF Close, Tree
  <2> QED
    BY <2>3, <2>4, <2>5, AmountLeq
<1> HIDE DEF res, n
<1>5. \A d \in full : d \in Distances(q) /\ n(d) >= KNearest
  BY <1>1, <1>3 DEF Cut
<1>6. \A d \in Distances(q) : n(d) >= KNearest => d \in full
  BY <1>1 DEF Cut
<1> HIDE DEF full
<1>7. CASE full = {}
  BY <1>1, <1>2, <1>3, <1>7 DEF res, n
<1>8. CASE full # {}
  <2>1. full \in SUBSET Nat
    BY <1>1, <1>5
  <2>2. Min(full) \in full
    BY <1>8, <2>1, LeastOf
  <2>3. Limit(res) = Min(full)
    BY <1>2, <1>8
  <2> DEFINE m == Limit(res)
  <2>4. m \in Distances(q) /\ n(m) >= KNearest
    BY <1>5, <2>2, <2>3
  <2> HIDE DEF m
  <2>5. \A d \in Distances(q) : d >= m => n(d) >= KNearest
    <3>1. SUFFICES ASSUME NEW d \in Distances(q), d >= m PROVE n(d) >= KNearest
      OBVIOUS
    <3>2. d \in Nat /\ m \in Nat /\ n(d) \in Nat /\ n(m) \in Nat
      BY <1>1, <2>4
    <3>3. n(m) <= n(d)
      BY <1>4, <2>4, <3>1, <3>2
    <3> QED
      BY <1>3, <2>4, <3>2, <3>3
  <2>6. m \in Nat /\ m <= MaxDistSq
    <3>1. m \in Nat /\ m < MaxDistSq
      BY <1>1, <2>4
    <3> QED
      BY <1>3, <3>1
  <2> QED
    BY <2>5, <2>6 DEF m, res, n
<1> QED
  BY <1>7, <1>8

\* The keys of two trees in one, which have none in common.
Joined(a, b, both) ==
  \A v \in Values : both[v] = a[v] + b[v] /\ (a[v] = 0 \/ b[v] = 0)

LEMMA JoinedAmount ==
  ASSUME NEW a \in Tree, NEW b \in Tree, NEW both \in Tree, Joined(a, b, both), NEW V \in SUBSET Values
  PROVE  /\ Amount(a, V) \in Nat /\ Amount(b, V) \in Nat
         /\ Amount(both, V) = Amount(a, V) + Amount(b, V)
<1>1. IsFiniteSet(V)
  BY FiniteValues, FS_Subset
<1>2. \A x \in V : /\ a[x] \in Nat /\ b[x] \in Nat /\ both[x] = a[x] + b[x]
                   /\ a[x] = 0 \/ b[x] = 0
  BY DEF Tree, Joined
<1> QED
  BY <1>1, <1>2, SumApart

\* Results merged with the keys of another tree nearer than the limit.
LEMMA MergedIs ==
  ASSUME NEW a \in Tree, NEW b \in Tree, NEW both \in Tree, Joined(a, b, both), NEW q \in Values
  PROVE  Merged(Nearest(a, q, MaxDistSq), Nearest(b, q, Limit(Nearest(a, q, MaxDistSq))))
           = Nearest(both, q, MaxDistSq)
<1> DEFINE s == Nearest(a, q, MaxDistSq)
           L == Limit(s)
           t == Nearest(b, q, L)
           m == Merged(s, t)
<1>1. /\ L \in Nat /\ L <= MaxDistSq
      /\ \A d \in Distances(q) : d >= L => Amount(a, Close(q, d, MaxDistSq)) >= KNearest
  BY LimitIs
<1> HIDE DEF L
<1>2. KNearest \in Nat /\ KNearest \in Int /\ MaxDistSq \in Nat
  BY ConstantsAssumption
<1>3. /\ DOMAIN s = Distances(q)
      /\ \A d \in Distances(q) :
           /\ d \in Nat /\ d < MaxDistSq /\ Amount(a, Close(q, d, MaxDistSq)) \in Nat
           /\ s[d] = Cut(Amount(a, Close(q, d, MaxDistSq)))
  BY NearestIs
<1>4. \A d \in Distances(q) :
        /\ Amount(b, Close(q, d, L)) \in Nat
        /\ t[d] = Cut(Amount(b, Close(q, d, L)))
  BY NearestIs
<1>5. ASSUME NEW d \in Distances(q) PROVE m[d] = Cut(Amount(both, Close(q, d, MaxDistSq)))
  <2> DEFINE na == Amount(a, Close(q, d, MaxDistSq))
             nb == Amount(b, Close(q, d, MaxDistSq))
             nl == Amount(b, Close(q, d, L))
             nn == Amount(both, Close(q, d, MaxDistSq))
  <2>1. na \in Nat /\ nb \in Nat /\ nn = na + nb
    <3>1. Close(q, d, MaxDistSq) \in SUBSET Values
      BY DEF Close
    <3> QED
      BY <3>1, JoinedAmount
  <2>2. s[d] = Cut(na) /\ t[d] = Cut(nl) /\ nl \in Nat /\ d \in Nat /\ d < MaxDistSq
    BY <1>3, <1>4
  <2>3. m[d] = Min({KNearest, s[d] + t[d]})
    BY <1>3 DEF Merged
  <2>4. na >= KNearest \/ nl = nb
    <3>1. CASE d >= L
      BY <1>1, <3>1
    <3>2. CASE ~(d >= L)
      <4>1. \A v \in Values : DistSq(q, v) \in Nat
        BY FiniteValues, DistIs
      <4>2. \A v \in Values : DistSq(q, v) <= d => DistSq(q, v) < L /\ DistSq(q, v) < MaxDistSq
        BY <1>1, <1>2, <2>2, <3>2, <4>1
      <4>3. Close(q, d, L) = Close(q, d, MaxDistSq)
        BY <4>2 DEF Close
      <4> QED
        BY <4>3
    <3> QED
      BY <3>1, <3>2
  <2> HIDE DEF na, nb, nl, nn, m, s, t
  <2>5. Cut(na) \in Int /\ Cut(nl) \in Int
    BY <1>2, <2>1, <2>2 DEF Cut
  <2>6. Min({KNearest, Cut(na) + Cut(nl)}) = IF KNearest <= Cut(na) + Cut(nl) THEN KNearest ELSE Cut(na) + Cut(nl)
    <3>1. Cut(na) + Cut(nl) \in Int
      BY <2>5
    <3> QED
      BY <1>2, <3>1, MaxOfTwo
  <2>7. m[d] = IF KNearest <= Cut(na) + Cut(nl) THEN KNearest ELSE Cut(na) + Cut(nl)
    BY <2>2, <2>3, <2>6
  <2>8. m[d] = Cut(nn)
    BY <1>2, <2>1, <2>2, <2>4, <2>7 DEF Cut
  <2> QED
    BY <2>8 DEF nn
<1>6. m = [d \in Distances(q) |-> m[d]]
  BY <1>3 DEF Merged
<1> HIDE DEF m
<1>7. m = Nearest(both, q, MaxDistSq)
  BY <1>5, <1>6, SameNearest
<1> QED
  BY <1>7 DEF m, s, t, L

\* The keys of a tree farther than the limit are none of the results.
LEMMA SkippedIs ==
  ASSUME NEW a \in Tree, NEW b \in Tree, NEW both \in Tree, Joined(a, b, both), NEW q \in Values,
         NEW far \in Nat, far > Limit(Nearest(a, q, MaxDistSq)),
         \A v \in Values : b[v] # 0 => far <= DistSq(q, v)
  PROVE  Nearest(a, q, MaxDistSq) = Nearest(both, q, MaxDistSq)
<1> DEFINE s == Nearest(a, q, MaxDistSq)
           L == Limit(s)
<1>1. /\ L \in Nat /\ far > L
      /\ \A d \in Distances(q) : d >= L => Amount(a, Close(q, d, MaxDistSq)) >= KNearest
  BY LimitIs
<1> HIDE DEF L
<1>2. KNearest \in Nat
  BY ConstantsAssumption
<1>3. \A d \in Distances(q) :
           /\ d \in Nat /\ Amount(a, Close(q, d, MaxDistSq)) \in Nat
           /\ s[d] = Cut(Amount(a, Close(q, d, MaxDistSq)))
  BY NearestIs
<1>4. ASSUME NEW d \in Distances(q) PROVE s[d] = Cut(Amount(both, Close(q, d, MaxDistSq)))
  <2> DEFINE na == Amount(a, Close(q, d, MaxDistSq))
             nb == Amount(b, Close(q, d, MaxDistSq))
             nn == Amount(both, Close(q, d, MaxDistSq))
  <2>1. na \in Nat /\ nb \in Nat /\ nn = na + nb
    <3>1. Close(q, d, MaxDistSq) \in SUBSET Values
      BY DEF Close
    <3> QED
      BY <3>1, JoinedAmount
  <2>2. s[d] = Cut(na) /\ d \in Nat
    BY <1>3
  <2>3. na >= KNearest \/ nb = 0
    <3>1. CASE d >= L
      BY <1>1, <3>1
    <3>2. CASE ~(d >= L)
      <4>1. \A v \in Values : DistSq(q, v) \in Nat
        BY FiniteValues, DistIs
      <4>2. \A v \in Values : DistSq(q, v) <= d => ~(far <= DistSq(q, v))
        BY <1>1, <2>2, <3>2, <4>1
      <4>3. \A v \in Close(q, d, MaxDistSq) : b[v] = 0
        BY <4>2 DEF Close
      <4> QED
        BY <4>3, AmountZero
    <3> QED
      BY <3>1, <3>2
  <2> HIDE DEF na, nb, nn, s
  <2>4. s[d] = Cut(nn)
    BY <1>2, <2>1, <2>2, <2>3 DEF Cut
  <2> QED
    BY <2>4 DEF nn
<1>5. s = [d \in Distances(q) |-> s[d]]
  BY DEF Nearest
<1> HIDE DEF s
<1>6. s = Nearest(both, q, MaxDistSq)
  BY <1>4, <1>5, SameNearest
<1> QED
  BY <1>6 DEF s

\* The buckets looked into up to the i-th, and their keys.
Visited(mid, i) == {Looked(mid, k) : k \in 0 .. i} \cap Buckets

IndexedBy(S) == [v \in Values |-> Amount([b \in Buckets |-> Indexed(b)[v]], S)]

InRange == \A b \in Buckets : \A v \in Values : Indexed(b)[v] # 0 => Holds(ranges, b, v)

\* The keys in the index of a bucket are in its range.
LEMMA IndexedIs ==
  ASSUME buckets \in Row, Placed(buckets, ranges, added)
  PROVE  InRange /\ \A b \in Buckets : Indexed(b) \in Tree
<1> SUFFICES ASSUME NEW b \in Buckets
             PROVE  Indexed(b) \in Tree /\ \A v \in Values : Indexed(b)[v] # 0 => Holds(ranges, b, v)
  BY DEF InRange
<1>1. buckets[b].tree \in Tree /\ buckets[b].buffer \in Seq(Entry)
  BY BucketIs DEF Row
<1>2. NoKeys \in Tree /\ \A v \in Values : NoKeys[v] = 0
  BY DEF NoKeys, Tree
<1>3. ASSUME NEW v \in Values, buckets[b].tree[v] # 0 PROVE Holds(ranges, b, v)
  <2>1. CountOf(buckets[b].buffer, v) \in Nat /\ buckets[b].tree[v] \in Nat
    BY <1>1, CountIs DEF Tree
  <2>2. Held(buckets[b], v) # 0
    BY <1>3, <2>1 DEF Held
  <2> QED
    BY <2>2 DEF Placed
<1> QED
  BY <1>1, <1>2, <1>3 DEF Indexed

\* The keys of one more bucket are keys of other values.
LEMMA IndexedByIs ==
  ASSUME buckets \in Row, Placed(buckets, ranges, added), ranges \in Ranges, NEW S \in SUBSET Buckets
  PROVE  /\ IndexedBy(S) \in Tree
         /\ \A b \in Buckets : b \notin S => Joined(IndexedBy(S), Indexed(b), IndexedBy(S \cup {b}))
         /\ \A b \in Buckets : IndexedBy({b}) = Indexed(b)
<1> DEFINE c(v) == [b \in Buckets |-> Indexed(b)[v]]
<1>1. IsFiniteSet(Buckets) /\ IsFiniteSet(S)
  <2>1. IsFiniteSet(0 .. NumBuckets - 1)
    BY TourIs, FS_Interval
  <2> QED
    BY <2>1, FS_Subset DEF Buckets
<1>2. InRange /\ \A b \in Buckets : Indexed(b) \in Tree
  BY IndexedIs
<1>3. \A v \in Values : \A b \in Buckets : c(v)[b] = Indexed(b)[v] /\ c(v)[b] \in Nat
  BY <1>2 DEF Tree
<1>4. \A T \in SUBSET Buckets : \A v \in Values : IndexedBy(T)[v] = Amount(c(v), T)
  BY DEF IndexedBy
<1> HIDE DEF c
<1>5. ASSUME NEW T \in SUBSET Buckets PROVE IndexedBy(T) \in Tree
  <2>1. ASSUME NEW v \in Values PROVE IndexedBy(T)[v] \in Nat
    <3>1. \A b \in Buckets : c(v)[b] \in Nat
      BY <1>3
    <3>2. Amount(c(v), T) \in Nat
      BY <1>1, <3>1, AmountLeq
    <3> QED
      BY <1>4, <3>2
  <2> QED
    BY <2>1 DEF IndexedBy, Tree
<1>6. ASSUME NEW b \in Buckets, b \notin S, NEW v \in Values
      PROVE  /\ IndexedBy(S \cup {b})[v] = IndexedBy(S)[v] + Indexed(b)[v]
             /\ IndexedBy(S)[v] = 0 \/ Indexed(b)[v] = 0
  <2>1. IsFiniteSet({b}) /\ S \cap {b} = {} /\ \A x \in S \cup {b} : c(v)[x] \in Nat
    BY <1>3, <1>6, FS_Singleton
  <2>2. Amount(c(v), S \cup {b}) = Amount(c(v), S) + Amount(c(v), {b})
    BY <1>1, <2>1, AmountAdd
  <2>3. Amount(c(v), {b}) = Indexed(b)[v]
    BY <1>3, AmountOne
  <2>4. IndexedBy(S \cup {b})[v] = Amount(c(v), S \cup {b}) /\ IndexedBy(S)[v] = Amount(c(v), S)
    BY <1>4
  <2>5. ASSUME Indexed(b)[v] # 0 PROVE IndexedBy(S)[v] = 0
    <3>1. ASSUME NEW a \in S PROVE c(v)[a] = 0
      <4>1. a \in Buckets /\ a # b
        BY <1>6
      <4>2. ~Holds(ranges, a, v)
        BY <1>2, <2>5, <4>1, OneHolder DEF InRange
      <4> QED
        BY <1>2, <1>3, <4>1, <4>2 DEF InRange
    <3>2. Amount(c(v), S) = 0
      BY <3>1, AmountZero
    <3> QED
      BY <2>4, <3>2
  <2> QED
    BY <2>2, <2>3, <2>4, <2>5
<1>7. ASSUME NEW b \in Buckets PROVE IndexedBy({b}) = Indexed(b)
  <2>1. \A v \in Values : IndexedBy({b})[v] = Indexed(b)[v]
    BY <1>3, <1>4, AmountOne
  <2>2. IndexedBy({b}) \in Tree /\ Indexed(b) \in Tree
    BY <1>2, <1>5
  <2> QED
    BY <2>1, <2>2 DEF Tree
<1> QED
  BY <1>5, <1>6, <1>7 DEF Joined

\* The next bucket looked into was not looked into before.
LEMMA NextVisited ==
  ASSUME NEW mid \in Buckets, NEW i \in Buckets
  PROVE  /\ Visited(mid, 0) = {mid}
         /\ i > 0 /\ Looked(mid, i) \notin Buckets => Visited(mid, i) = Visited(mid, i - 1)
         /\ i > 0 /\ Looked(mid, i) \in Buckets =>
              /\ Looked(mid, i) \notin Visited(mid, i - 1)
              /\ Visited(mid, i) = Visited(mid, i - 1) \cup {Looked(mid, i)}
<1>1. mid \in Nat /\ i \in Nat
  BY TourIs DEF Buckets
<1>2. \A j, k \in Nat : Looked(mid, j) = Looked(mid, k) => j = k
  BY <1>1 DEF Looked
<1>3. Visited(mid, 0) = {mid}
  <2>1. Looked(mid, 0) = mid /\ 0 .. 0 = {0}
    BY <1>1 DEF Looked
  <2> QED
    BY <2>1 DEF Visited
<1>4. ASSUME i > 0
      PROVE  /\ {Looked(mid, k) : k \in 0 .. i} = {Looked(mid, k) : k \in 0 .. i - 1} \cup {Looked(mid, i)}
             /\ Looked(mid, i) \notin {Looked(mid, k) : k \in 0 .. i - 1}
  <2>1. 0 .. i = (0 .. i - 1) \cup {i} /\ \A k \in 0 .. i - 1 : k \in Nat /\ k # i
    BY <1>1, <1>4
  <2> QED
    BY <1>1, <1>2, <2>1
<1> QED
  BY <1>3, <1>4 DEF Visited

\* The search as a recursive function, and what its values are.
KnnFrom(q, mid, f) ==
  f = [i \in Buckets |->
         IF i = 0 THEN Nearest(Indexed(mid), q, MaxDistSq) ELSE KnnStep(q, mid, i, f[i - 1])]

Found(q, mid, i) == Nearest(IndexedBy(Visited(mid, i)), q, MaxDistSq)

LEMMA FoundNext ==
  ASSUME buckets \in Row, Placed(buckets, ranges, added), ranges \in Ranges,
         NEW q \in Values, NEW mid \in Buckets, Holds(ranges, mid, q), NEW i \in Buckets
  PROVE  /\ Found(q, mid, 0) = Nearest(Indexed(mid), q, MaxDistSq)
         /\ i > 0 => Found(q, mid, i) = KnnStep(q, mid, i, Found(q, mid, i - 1))
<1>1. Found(q, mid, 0) = Nearest(Indexed(mid), q, MaxDistSq)
  <2>1. IndexedBy({mid}) = Indexed(mid)
    <3>1. {} \in SUBSET Buckets
      OBVIOUS
    <3> QED
      BY <3>1, IndexedByIs
  <2> QED
    BY <2>1, NextVisited DEF Found
<1>2. ASSUME i > 0 PROVE Found(q, mid, i) = KnnStep(q, mid, i, Found(q, mid, i - 1))
  <2> DEFINE b == Looked(mid, i)
             S == Visited(mid, i - 1)
             a == IndexedBy(S)
             both == IndexedBy(S \cup {b})
             res == Found(q, mid, i - 1)
             far == DistSq(q, NearEdge(mid, i))
  <2>1. res = Nearest(a, q, MaxDistSq)
    BY DEF Found
  <2>2. CASE b \notin Buckets
    <3>1. Found(q, mid, i) = res
      BY <1>2, <2>2, NextVisited DEF Found
    <3> QED
      BY <2>2, <3>1 DEF KnnStep
  <2>3. CASE b \in Buckets
    <3>1. b \notin S /\ Visited(mid, i) = S \cup {b} /\ S \in SUBSET Buckets
      BY <1>2, <2>3, NextVisited DEF Visited
    <3>2. Found(q, mid, i) = Nearest(both, q, MaxDistSq)
      BY <3>1 DEF Found
    <3>3. a \in Tree /\ Indexed(b) \in Tree /\ both \in Tree /\ Joined(a, Indexed(b), both)
      <4>1. S \cup {b} \in SUBSET Buckets
        BY <2>3, <3>1
      <4> HIDE DEF S, b
      <4> QED
        BY <2>3, <3>1, <4>1, IndexedIs, IndexedByIs
    <3>4. \A v \in Values : Indexed(b)[v] # 0 => Holds(ranges, b, v)
      BY <2>3, IndexedIs DEF InRange
    <3>5. CASE far > Limit(res)
      <4>1. KnnStep(q, mid, i, res) = res
        BY <3>5 DEF KnnStep
      <4>2. far \in Nat /\ \A v \in Values : Indexed(b)[v] # 0 => far <= DistSq(q, v)
        <5>1. NearEdge(mid, i) \in Int /\ q \in Int
          BY <1>2, <2>3, BehindEdge, FiniteValues
        <5>2. far \in Nat
          BY <5>1, DistIs
        <5>3. \A v \in Values : Indexed(b)[v] # 0 => far <= DistSq(q, v)
          BY <1>2, <2>3, <3>4, BehindEdge
        <5> QED
          BY <5>2, <5>3
      <4> HIDE DEF a, b, both, res, far
      <4>3. far > Limit(Nearest(a, q, MaxDistSq))
        BY <2>1, <3>5
      <4>4. Nearest(a, q, MaxDistSq) = Nearest(both, q, MaxDistSq)
        BY <3>3, <4>2, <4>3, SkippedIs
      <4> QED
        BY <2>1, <3>2, <4>1, <4>4 DEF res
    <3>6. CASE ~(far > Limit(res))
      <4>1. KnnStep(q, mid, i, res) = Merged(res, Nearest(Indexed(b), q, Limit(res)))
        BY <2>3, <3>6 DEF KnnStep
      <4> HIDE DEF a, b, both
      <4>2. Merged(Nearest(a, q, MaxDistSq), Nearest(Indexed(b), q, Limit(Nearest(a, q, MaxDistSq))))
              = Nearest(both, q, MaxDistSq)
        BY <3>3, MergedIs
      <4> HIDE DEF res
      <4>3. Merged(res, Nearest(Indexed(b), q, Limit(res))) = Nearest(both, q, MaxDistSq)
        BY <2>1, <4>2, Zenon
      <4> QED
        BY <3>2, <4>1, <4>3 DEF res
    <3> QED
      BY <3>5, <3>6
  <2> QED
    BY <2>2, <2>3
<1> QED
  BY <1>1, <1>2

LEMMA KnnIs ==
  ASSUME buckets \in Row, Placed(buckets, ranges, added), ranges \in Ranges,
         NEW q \in Values, NEW mid \in Buckets, Holds(ranges, mid, q)
  PROVE  /\ \E f : KnnFrom(q, mid, f)
         /\ \A f : KnnFrom(q, mid, f) => \A i \in Buckets : f[i] = Found(q, mid, i)
<1>0. Buckets = 0 .. NumBuckets - 1 /\ NumBuckets \in Nat /\ NumBuckets > 2
  BY TourIs DEF Buckets
<1>1. /\ Found(q, mid, 0) = Nearest(Indexed(mid), q, MaxDistSq)
      /\ \A i \in Buckets : i > 0 => Found(q, mid, i) = KnnStep(q, mid, i, Found(q, mid, i - 1))
  <2>1. 0 \in Buckets
    BY <1>0
  <2> QED
    BY <2>1, FoundNext
<1> DEFINE g == [i \in Buckets |-> Found(q, mid, i)]
<1>2. KnnFrom(q, mid, g)
  <2>1. ASSUME NEW i \in Buckets
        PROVE  g[i] = IF i = 0 THEN Nearest(Indexed(mid), q, MaxDistSq) ELSE KnnStep(q, mid, i, g[i - 1])
    <3>1. CASE i = 0
      BY <1>1, <3>1
    <3>2. CASE i # 0
      <4>1. i > 0 /\ i - 1 \in Buckets
        BY <1>0, <3>2
      <4> QED
        BY <1>1, <3>2, <4>1
    <3> QED
      BY <3>1, <3>2
  <2>2. g = [i \in Buckets |-> g[i]]
    OBVIOUS
  <2> HIDE DEF g
  <2>3. [i \in Buckets |-> g[i]]
          = [i \in Buckets |->
               IF i = 0 THEN Nearest(Indexed(mid), q, MaxDistSq) ELSE KnnStep(q, mid, i, g[i - 1])]
    BY <2>1, Zenon
  <2> QED
    BY <2>2, <2>3, Zenon DEF KnnFrom
<1>3. ASSUME NEW f, KnnFrom(q, mid, f) PROVE \A i \in Buckets : f[i] = Found(q, mid, i)
  <2> DEFINE K == {i \in Buckets : f[i] # Found(q, mid, i)}
             m == Min(K)
  <2>1. f = [i \in Buckets |->
               IF i = 0 THEN Nearest(Indexed(mid), q, MaxDistSq) ELSE KnnStep(q, mid, i, f[i - 1])]
    BY <1>3, Zenon DEF KnnFrom
  <2>2. \A i \in Buckets :
          f[i] = IF i = 0 THEN Nearest(Indexed(mid), q, MaxDistSq) ELSE KnnStep(q, mid, i, f[i - 1])
    BY <2>1, Zenon
  <2>3. SUFFICES ASSUME K # {} PROVE FALSE
    OBVIOUS
  <2>4. m \in K /\ \A j \in K : m <= j
    <3>1. K \in SUBSET Nat
      BY <1>0
    <3> HIDE DEF K
    <3> QED
      BY <2>3, <3>1, LeastOf
  <2> HIDE DEF m
  <2>5. m \in Buckets /\ f[m] # Found(q, mid, m)
    BY <2>4
  <2>6. m # 0
    BY <1>1, <2>2, <2>5
  <2>7. m > 0 /\ m - 1 \in Buckets /\ ~(m <= m - 1)
    BY <1>0, <2>5, <2>6
  <2>8. f[m - 1] = Found(q, mid, m - 1)
    BY <2>4, <2>7
  <2>9. f[m] = KnnStep(q, mid, m, f[m - 1])
    BY <2>2, <2>5, <2>6, Zenon
  <2> QED
    BY <1>1, <2>5, <2>7, <2>8, <2>9, Zenon
<1> QED
  BY <1>2, <1>3

LEMMA LayerKnnIs ==
  ASSUME buckets \in Row, Placed(buckets, ranges, added), ranges \in Ranges, Ends, NEW q \in Values
  PROVE  LayerKnn(q) = Found(q, MidBucket(q), NumBuckets - 1)
<1> DEFINE mid == MidBucket(q)
           T == CHOOSE f : KnnFrom(q, mid, f)
<1>1. mid \in Buckets /\ Holds(ranges, mid, q)
  BY MidBucketIs
<1>2. LayerKnn(q) = T[NumBuckets - 1]
  BY DEF LayerKnn, KnnFrom
<1> HIDE DEF mid
<1>3. KnnFrom(q, mid, T)
  <2>1. \E f : KnnFrom(q, mid, f)
    BY <1>1, KnnIs
  <2> QED
    BY <2>1, Zenon
<1> HIDE DEF T
<1>4. NumBuckets - 1 \in Buckets
  BY TourIs DEF Buckets
<1>5. T[NumBuckets - 1] = Found(q, mid, NumBuckets - 1)
  BY <1>1, <1>3, <1>4, KnnIs
<1> QED
  BY <1>2, <1>5 DEF mid

-----------------------------------------------------------------------------
(* The inductive invariant: no buffer holds a key of the future, and after *)
(* its turn a buffer never again holds one that was old then; up to six    *)
(* buckets in use have enough keys each to be balanced.  The first and the *)
(* last boundary never move.                                               *)

Ages ==
  /\ \A b \in Buckets : InOrder(buckets[b].buffer, Stamp(scans))
  /\ \A s \in 0 .. scans - 1 :
       \A b \in {PairFor(s), PairFor(s) + 1} : Since(buckets[b].buffer, Stamp(s) - MaxElapse)

SharedOut == NumBuckets <= 6 => Filled(TreeSizes(buckets), ranges)

IInv == TypeOK /\ KeysInPlace /\ Ends /\ Ages /\ SharedOut

LEMMA TypeIs ==
  /\ TypeOK <=> buckets \in Row /\ ranges \in Ranges /\ scans \in 0 .. MaxScans /\ added \in Tree
  /\ KeysInPlace <=> Placed(buckets, ranges, added)
<1>1. TypeOK <=> buckets \in Row /\ ranges \in Ranges /\ scans \in 0 .. MaxScans /\ added \in Tree
  BY DEF TypeOK, Row, Bucket, Tree, Entry, Ranges
<1>2. KeysInPlace <=> Placed(buckets, ranges, added)
  BY DEF KeysInPlace, Placed, Held
<1> QED
  BY <1>1, <1>2

LEMMA InitIInv == Init => IInv
<1> SUFFICES ASSUME Init PROVE IInv
  OBVIOUS
<1> DEFINE first == [tree |-> NoKeys, index |-> "none", buffer |-> <<>>]
<1>1. buckets = [b \in Buckets |-> first] /\ scans = 0 /\ added = NoKeys
  BY DEF Init
<1>2. NoKeys \in Tree /\ \A v \in Values : NoKeys[v] = 0
  BY DEF NoKeys, Tree
<1>3. <<>> \in Seq(Entry) /\ Len(<<>>) = 0
  BY EmptySeq
<1>4. first \in Bucket /\ first.tree = NoKeys /\ first.buffer = <<>>
  BY <1>2, <1>3 DEF Bucket
<1> HIDE DEF first
<1>5. buckets \in Row /\ \A b \in Buckets : buckets[b] = first
  BY <1>1, <1>4 DEF Row
<1>6. ranges \in Ranges
  <2>1. ranges = [i \in 0 .. NumBuckets |-> IF i = 0 THEN Lowest ELSE Highest]
    BY DEF Init
  <2>2. Lowest \in Lowest .. Highest /\ Highest \in Lowest .. Highest /\ Lowest <= Highest /\ Highest <= Highest
    BY ConstantsAssumption DEF Lowest, Highest
  <2>3. ranges \in [0 .. NumBuckets -> Lowest .. Highest]
    BY <2>1, <2>2
  <2>4. ASSUME NEW b \in Buckets PROVE ranges[b] <= ranges[b + 1]
    <3>1. b \in 0 .. NumBuckets /\ b + 1 \in 0 .. NumBuckets /\ b + 1 # 0
      BY TourIs DEF Buckets
    <3> QED
      BY <2>1, <2>2, <3>1
  <2> QED
    BY <2>3, <2>4 DEF Ranges
<1>7. TypeOK
  BY <1>1, <1>2, <1>5, <1>6, TypeIs, ConstantsAssumption
<1>8. KeysInPlace
  <2>1. ASSUME NEW v \in Values PROVE Held(first, v) = 0 /\ added[v] = 0
    <3>1. CountOf(<<>>, v) = 0
      <4>1. {i \in DOMAIN <<>> : <<>>[i].value = v} = {}
        BY <1>3
      <4> QED
        BY <4>1, AmountZero DEF CountOf
    <3> QED
      BY <1>1, <1>2, <1>4, <3>1 DEF Held
  <2> QED
    BY <1>5, <2>1, TypeIs DEF Placed
<1>9. Ages
  <2>1. \A b \in Buckets : InOrder(buckets[b].buffer, Stamp(scans))
    BY <1>3, <1>4, <1>5 DEF InOrder
  <2>2. 0 .. scans - 1 = {}
    BY <1>1
  <2> QED
    BY <2>1, <2>2 DEF Ages
<1>10. SharedOut
  <2>1. ASSUME NEW b \in InUse(ranges) PROVE ~(b > 0)
    <3>1. b \in Buckets /\ ranges[b] < Highest /\ b \in 0 .. NumBuckets
      BY TourIs DEF InUse, Buckets
    <3>2. b # 0 => ranges[b] = Highest
      BY <3>1 DEF Init
    <3>3. Highest \in Int
      BY ConstantsAssumption DEF Highest
    <3> QED
      BY <3>1, <3>2, <3>3
  <2> QED
    BY <2>1 DEF SharedOut, Filled
<1>11. Ends
  BY TourIs DEF Init, Ends
<1> QED
  BY <1>7, <1>8, <1>9, <1>10, <1>11 DEF IInv

LEMMA StepIInv == IInv /\ [Next]_vars => IInv'
<1> SUFFICES ASSUME IInv, [Next]_vars PROVE IInv'
  OBVIOUS
<1>1. /\ buckets \in Row /\ ranges \in Ranges /\ scans \in 0 .. MaxScans /\ added \in Tree
      /\ Placed(buckets, ranges, added)
      /\ \A b \in Buckets : InOrder(buckets[b].buffer, Stamp(scans))
      /\ \A s \in 0 .. scans - 1 :
           \A b \in {PairFor(s), PairFor(s) + 1} : Since(buckets[b].buffer, Stamp(s) - MaxElapse)
      /\ NumBuckets <= 6 => Filled(TreeSizes(buckets), ranges)
  BY TypeIs DEF IInv, Ages, SharedOut
<1>2. CASE UNCHANGED vars
  BY <1>2 DEF IInv, TypeOK, KeysInPlace, Ends, Ages, SharedOut, vars
<1>3. ASSUME NEW keys \in ScanKeys, DetectLoop(keys) PROVE IInv'
  <2> DEFINE now == Stamp(scans)
             t == PairFor(scans)
             pushed == Pushed(buckets, keys, now)
             after == Rebuilt(pushed, t, now)
             all == [v \in Values |-> added[v] + keys[v]]
  <2>1. /\ scans < MaxScans /\ buckets' = after.buckets /\ ranges' = after.ranges
        /\ scans' = scans + 1 /\ added' = all
    BY <1>3 DEF DetectLoop
  <2>2. /\ scans \in Nat /\ now = 2 * scans /\ now \in Nat /\ now \in Int /\ scans' \in 0 .. MaxScans
        /\ MaxScans \in Nat /\ MaxElapse \in Nat
    BY <1>1, <2>1, ConstantsAssumption DEF Stamp
  <2>3. t \in Buckets /\ t + 1 \in Buckets
    BY <2>2, PairIs
  <2>4. keys \in Tree /\ all \in Tree
    BY <1>1, ConstantsAssumption DEF Tree
  <2> HIDE DEF now, t, pushed, after, all
  <2>5. /\ pushed \in Row
        /\ \A b \in Buckets :
             /\ InOrder(pushed[b].buffer, now)
             /\ \A c \in Int : c <= now /\ Since(buckets[b].buffer, c) => Since(pushed[b].buffer, c)
             /\ \A v \in Values :
                  Held(pushed[b], v) = Held(buckets[b], v) + IF Holds(ranges, b, v) THEN keys[v] ELSE 0
             /\ pushed[b].tree = buckets[b].tree
    <3>1. now <= now /\ \A b \in Buckets : InOrder(buckets[b].buffer, now)
      BY <1>1, <2>2 DEF now
    <3> QED
      BY <1>1, <2>2, <2>4, <3>1, PushedIs DEF pushed
  <2>6. Placed(pushed, ranges, all)
    <3>1. ASSUME NEW b \in Buckets, NEW v \in Values
          PROVE  Held(pushed[b], v) = IF Holds(ranges, b, v) THEN all[v] ELSE 0
      <4>1. /\ Held(buckets[b], v) = IF Holds(ranges, b, v) THEN added[v] ELSE 0
            /\ Held(pushed[b], v) = Held(buckets[b], v) + IF Holds(ranges, b, v) THEN keys[v] ELSE 0
        BY <1>1, <2>5 DEF Placed
      <4>2. all[v] = added[v] + keys[v]
        BY DEF all
      <4> QED
        BY <4>1, <4>2
    <3> QED
      BY <3>1 DEF Placed
  <2>7. /\ after.buckets \in Row /\ after.ranges \in Ranges
        /\ Placed(after.buckets, after.ranges, all)
        /\ \A b \in Buckets : InOrder(after.buckets[b].buffer, now)
        /\ Since(after.buckets[t].buffer, now - MaxElapse)
        /\ Since(after.buckets[t + 1].buffer, now - MaxElapse)
        /\ \A b \in Buckets : b # t /\ b # t + 1 => after.buckets[b] = pushed[b]
        /\ Resized(pushed, after, t, now)
    BY <1>1, <2>2, <2>3, <2>4, <2>5, <2>6, RebuiltIs DEF after
  <2>8. TypeOK' /\ KeysInPlace'
    <3>1. /\ TypeOK' <=> buckets' \in Row /\ ranges' \in Ranges /\ scans' \in 0 .. MaxScans /\ added' \in Tree
          /\ KeysInPlace' <=> Placed(buckets', ranges', added')
      <4>1. TypeOK' <=> buckets' \in Row /\ ranges' \in Ranges /\ scans' \in 0 .. MaxScans /\ added' \in Tree
        BY DEF TypeOK, Row, Bucket, Tree, Entry, Ranges
      <4>2. KeysInPlace' <=> Placed(buckets', ranges', added')
        BY DEF KeysInPlace, Placed, Held
      <4> QED
        BY <4>1, <4>2
    <3> QED
      BY <2>1, <2>2, <2>4, <2>7, <3>1
  <2>9. Ages'
    <3> DEFINE new == after.buckets
    <3>1. Stamp(scans') = now + 2
      BY <2>1, <2>2 DEF Stamp
    <3>2. ASSUME NEW b \in Buckets PROVE new[b].buffer \in Seq(Entry)
      BY <2>7, BucketIs DEF Row
    <3> HIDE DEF new
    <3>3. ASSUME NEW b \in Buckets PROVE InOrder(new[b].buffer, now + 2)
      BY <2>2, <2>7, <3>2, Weaker DEF new
    <3>4. ASSUME NEW s \in 0 .. scans, NEW b \in {PairFor(s), PairFor(s) + 1}
          PROVE  Since(new[b].buffer, Stamp(s) - MaxElapse)
      <4>1. /\ s \in Nat /\ Stamp(s) = 2 * s /\ Stamp(s) - MaxElapse \in Int
            /\ Stamp(s) - MaxElapse <= now - MaxElapse /\ Stamp(s) - MaxElapse <= now
            /\ now - MaxElapse \in Int
        BY <2>2 DEF Stamp
      <4>2. b \in Buckets
        BY <4>1, PairIs
      <4>3. CASE b = t \/ b = t + 1
        <5>1. Since(new[b].buffer, now - MaxElapse)
          BY <2>7, <4>3 DEF new
        <5> QED
          BY <3>2, <4>1, <4>2, <5>1, Weaker
      <4>4. CASE ~(b = t \/ b = t + 1)
        <5>1. s # scans
          BY <4>4 DEF t
        <5>2. s \in 0 .. scans - 1
          BY <2>2, <5>1
        <5>3. Since(buckets[b].buffer, Stamp(s) - MaxElapse)
          BY <1>1, <5>2
        <5>4. Since(pushed[b].buffer, Stamp(s) - MaxElapse)
          BY <2>5, <4>1, <4>2, <5>3
        <5>5. new[b] = pushed[b]
          BY <2>7, <4>2, <4>4 DEF new
        <5> QED
          BY <5>4, <5>5
      <4> QED
        BY <4>3, <4>4
    <3>5. 0 .. scans' - 1 = 0 .. scans
      BY <2>1, <2>2
    <3>6. /\ \A b \in Buckets : InOrder(buckets'[b].buffer, Stamp(scans'))
          /\ \A s \in 0 .. scans' - 1 :
               \A b \in {PairFor(s), PairFor(s) + 1} : Since(buckets'[b].buffer, Stamp(s) - MaxElapse)
      BY <2>1, <3>1, <3>3, <3>4, <3>5 DEF new
    <3> QED
      BY <3>6 DEF Ages
  <2>10. SharedOut'
    <3> SUFFICES ASSUME NumBuckets <= 6 PROVE Filled(TreeSizes(buckets'), ranges')
      BY DEF SharedOut
    <3>1. TreeSizes(pushed) = TreeSizes(buckets)
      BY <2>5 DEF TreeSizes
    <3>2. Filled(TreeSizes(pushed), ranges)
      BY <1>1, <3>1
    <3>3. Filled(TreeSizes(after.buckets), after.ranges)
      BY <1>1, <2>2, <2>3, <2>4, <2>5, <2>6, <2>7, <3>2, RebuiltFilled
    <3> QED
      BY <2>1, <3>3
  <2>11. Ends'
    <3>1. t + 1 # 0 /\ t + 1 # NumBuckets /\ ranges \in [0 .. NumBuckets -> Lowest .. Highest]
          /\ 0 \in 0 .. NumBuckets /\ NumBuckets \in 0 .. NumBuckets
      BY <1>1, <2>3, TourIs DEF Buckets, Ranges
    <3>2. after.ranges[0] = ranges[0] /\ after.ranges[NumBuckets] = ranges[NumBuckets]
      BY <2>7, <3>1 DEF Resized
    <3> QED
      BY <2>1, <3>2 DEF IInv, Ends
  <2> QED
    BY <2>8, <2>9, <2>10, <2>11 DEF IInv
<1> QED
  BY <1>2, <1>3 DEF Next

LEMMA AlwaysIInv == Spec => []IInv
BY InitIInv, StepIInv, PTL DEF Spec

\* The variables have the types their comments say, and the ranges of the
\* buckets follow each other.
THEOREM TypeCorrect == Spec => []TypeOK
<1>1. IInv => TypeOK
  BY DEF IInv
<1> QED
  BY <1>1, AlwaysIInv, PTL

\* However often the two trees of a pair are balanced, at whatever boundary,
\* and the buffers redistributed and popped, every key that was ever added is
\* held exactly once, by the bucket whose range it is in.
THEOREM NoKeyMisplaced == Spec => []KeysInPlace
<1>1. IInv => KeysInPlace
  BY DEF IInv
<1> QED
  BY <1>1, AlwaysIInv, PTL

\* Every buffer ascends in time, as needPopBuffer and popBufferMax take for
\* granted also after two buffers were merged and divided, and no key waits
\* in one for longer than MaxElapse and one tour of pushAndBalance.
THEOREM NoKeyForgotten == Spec => []KeysBecomeSearchable
<1>1. IInv => KeysBecomeSearchable
  <2> SUFFICES ASSUME IInv, NEW b \in Buckets
               PROVE  LET buf == buckets[b].buffer
                      IN  /\ \A i, j \in DOMAIN buf : i < j => buf[i].ts <= buf[j].ts
                          /\ \A i \in DOMAIN buf :
                               buf[i].ts >= Stamp(scans) - MaxElapse - Stamp(2 * (NumBuckets - 2))
    BY DEF KeysBecomeSearchable
  <2> DEFINE buf == buckets[b].buffer
  <2>1. /\ buf \in Seq(Entry) /\ InOrder(buf, Stamp(scans)) /\ scans \in Nat
        /\ \A s \in 0 .. scans - 1 :
             b \in {PairFor(s), PairFor(s) + 1} => Since(buf, Stamp(s) - MaxElapse)
    BY TypeIs, BucketIs DEF IInv, Ages, Row
  <2> HIDE DEF buf
  <2>2. DOMAIN buf = 1 .. Len(buf) /\ \A i \in 1 .. Len(buf) : buf[i].ts \in Nat
    BY <2>1, EntryIs
  <2>3. MaxElapse \in Nat /\ Tour \in Nat /\ Stamp(2 * (NumBuckets - 2)) = 2 * Tour /\ Stamp(scans) = 2 * scans
    BY ConstantsAssumption, TourIs DEF Stamp, Tour
  <2>4. ASSUME NEW i \in 1 .. Len(buf) PROVE buf[i].ts >= 2 * scans - MaxElapse - 2 * Tour
    <3>1. CASE scans < Tour
      BY <2>1, <2>2, <2>3, <3>1
    <3>2. CASE ~(scans < Tour)
      <4>1. scans >= Tour
        BY <2>1, <2>3, <3>2
      <4>2. PICK s \in Nat : s < scans /\ s >= scans - Tour /\ b \in {PairFor(s), PairFor(s) + 1}
        BY <2>1, <4>1, EveryTour
      <4>3. s \in 0 .. scans - 1
        BY <2>1, <4>2
      <4>4. 2 * s - MaxElapse <= buf[i].ts
        BY <2>1, <4>2, <4>3 DEF Since, Stamp
      <4> QED
        BY <2>1, <2>2, <2>3, <4>2, <4>4
    <3> QED
      BY <3>1, <3>2
  <2> QED
    BY <2>1, <2>2, <2>3, <2>4 DEF InOrder, buf
<1> QED
  BY <1>1, AlwaysIInv, PTL

\* Two trees that differ by less than two keys are only balanced if they are
\* of ten keys at most and both buffers are due.
LEMMA FewToSplit ==
  ASSUME NEW popLow \in BOOLEAN, NEW popHigh \in BOOLEAN, NEW large \in Nat, NEW small \in Nat,
         small <= large, large - small < 2, Balances(popLow, popHigh, large, small)
  PROVE  popLow /\ popHigh /\ large <= 10
<1>1. (popLow \/ popHigh) /\ ~(popLow # popHigh /\ Alike(large, small)) /\ 10 * (large - small) >= large
  BY DEF Balances
<1>2. large <= 10
  BY <1>1
<1>3. Alike(large, small)
  BY <1>2 DEF Alike, MinElemSplit
<1>4. popLow /\ popHigh
  BY <1>1, <1>3
<1> QED
  BY <1>2, <1>4

\* LayerDB::rebuild keeps every key in its place, and the keys it takes on both
\* sides of the middle of the difference of two trees (contour_db.cpp:122, 228)
\* are there, with the code's six buckets or fewer: a bucket whose buffer is due
\* beside another is in use, so it has keys enough.
THEOREM RebuildSafe ==
  ASSUME NumBuckets <= 6
  PROVE  Spec => []RebuildSound
<1>1. IInv => RebuildSound
  <2> SUFFICES ASSUME IInv PROVE RebuildSound
    OBVIOUS
  <2> DEFINE now == Stamp(scans)
             t == PairFor(scans)
             u == t + 1
             large == Larger(buckets[t], buckets[u])
             small == Smaller(buckets[t], buckets[u])
  <2>1. /\ buckets \in Row /\ ranges \in Ranges /\ scans \in Nat /\ added \in Tree
        /\ Placed(buckets, ranges, added) /\ Filled(TreeSizes(buckets), ranges)
        /\ \A b \in Buckets : InOrder(buckets[b].buffer, now)
    BY TypeIs DEF IInv, Ages, SharedOut
  <2>2. t \in Buckets /\ u \in Buckets /\ t \in Nat /\ buckets[t] \in Bucket /\ buckets[u] \in Bucket
    <3>1. t \in Buckets /\ u \in Buckets
      BY <2>1, PairIs
    <3> HIDE DEF t, u
    <3>2. t \in Nat
      BY <3>1, TourIs DEF Buckets
    <3> QED
      BY <2>1, <3>1, <3>2 DEF Row
  <2>3. large \in Nat /\ small \in Nat /\ small <= large /\ Size(buckets[u].tree) <= large
    BY <2>2, SizesAre, BucketIs
  \* If its buffer is not empty, the upper bucket has eleven keys.
  <2>4. ASSUME ranges[u] < Highest PROVE Size(buckets[u].tree) >= 11
    <3> DEFINE x == TreeSizes(buckets)
    <3>1. u \in InUse(ranges) /\ u > 0 /\ u <= u /\ u - u + 1 = 1
      BY <2>2, <2>4 DEF InUse
    <3>2. x[u] = Size(buckets[u].tree) /\ x \in [Buckets -> Nat]
      <4>1. \A b \in Buckets : Size(buckets[b].tree) \in Nat
        BY <2>1, BucketIs DEF Row
      <4> QED
        BY <2>2, <4>1 DEF TreeSizes
    <3> HIDE DEF x, u
    <3>3. Least(u - u + 1) <= Amount(x, u .. u)
      BY <2>1, <2>2, <3>1 DEF Filled, x
    <3>4. Amount(x, u .. u) = x[u] /\ x[u] \in Nat
      BY <2>2, <3>2, SumOfOne
    <3> QED
      BY <3>1, <3>2, <3>3, <3>4, LeastIs
  <2>5. ASSUME large - small < 2, NEW keys \in ScanKeys
        PROVE  LET bs == Pushed(buckets, keys, now)
               IN  ~Balances(NeedPop(bs[t], now), NeedPop(bs[u], now), large, small)
    <3> DEFINE bs == Pushed(buckets, keys, now)
               popLow == NeedPop(bs[t], now)
               popHigh == NeedPop(bs[u], now)
    <3> HIDE DEF large, small, now, t
    <3> SUFFICES ASSUME Balances(popLow, popHigh, large, small) PROVE FALSE
      OBVIOUS
    <3>1. popLow \in BOOLEAN /\ popHigh \in BOOLEAN
      BY DEF NeedPop
    <3>2. popHigh /\ large <= 10
      <4> HIDE DEF popLow, popHigh
      <4> QED
        BY <2>3, <2>5, <3>1, FewToSplit
    <3>3. bs[u].buffer # <<>>
      BY <3>2 DEF NeedPop
    <3>4. keys \in Tree /\ now \in Nat /\ now \in Int /\ now <= now
      BY <2>1, ConstantsAssumption DEF Tree, now, Stamp
    <3> DEFINE all == [v \in Values |-> added[v] + keys[v]]
    <3>5. all \in Tree
      BY <2>1, <3>4 DEF Tree
    <3> HIDE DEF bs, u
    <3>6. /\ bs \in Row
          /\ \A b \in Buckets : \A v \in Values :
               Held(bs[b], v) = Held(buckets[b], v) + IF Holds(ranges, b, v) THEN keys[v] ELSE 0
      BY <2>1, <3>4, PushedIs DEF bs
    <3>7. Placed(bs, ranges, all)
      <4>1. ASSUME NEW b \in Buckets, NEW v \in Values
            PROVE  Held(bs[b], v) = IF Holds(ranges, b, v) THEN all[v] ELSE 0
        <5>1. /\ Held(buckets[b], v) = IF Holds(ranges, b, v) THEN added[v] ELSE 0
              /\ Held(bs[b], v) = Held(buckets[b], v) + IF Holds(ranges, b, v) THEN keys[v] ELSE 0
          BY <2>1, <3>6 DEF Placed
        <5> QED
          BY <5>1
      <4> QED
        BY <4>1 DEF Placed
    <3> HIDE DEF all
    <3>8. ranges[u] < Highest
      BY <2>1, <2>2, <3>3, <3>5, <3>6, <3>7, HolderInUse
    <3>9. Size(buckets[u].tree) >= 11 /\ Size(buckets[u].tree) \in Nat
      BY <2>2, <2>4, <3>8, BucketIs
    <3> QED
      BY <2>3, <3>2, <3>9
  <2>6. SplitInBounds
    BY <2>5 DEF SplitInBounds
  <2> QED
    BY <2>6 DEF IInv, RebuildSound
<1> QED
  BY <1>1, AlwaysIInv, PTL

\* layerKNNSearch returns, of all keys indexed in the buckets it looks into, the
\* KNearest nearest to the query: no bucket it passes over because of its near
\* edge, and no key it leaves out because of the farthest result so far, holds
\* a nearer one.
THEOREM NearestFound == Spec => []KnnOfLookedAt
<1>1. IInv => KnnOfLookedAt
  <2> SUFFICES ASSUME IInv, NEW q \in Values
               PROVE  LET mid == MidBucket(q)
                          seen == {Looked(mid, i) : i \in Buckets} \cap Buckets
                          all == [v \in Values |-> Amount([b \in Buckets |-> Indexed(b)[v]], seen)]
                      IN  LayerKnn(q) = Nearest(all, q, MaxDistSq)
    BY DEF KnnOfLookedAt
  <2>1. LayerKnn(q) = Found(q, MidBucket(q), NumBuckets - 1)
    BY TypeIs, LayerKnnIs DEF IInv
  <2> QED
    BY <2>1 DEF Found, IndexedBy, Visited, Buckets
<1> QED
  BY <1>1, AlwaysIInv, PTL

=============================================================================
