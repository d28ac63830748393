--------------------------- MODULE IkdTree_proofs ---------------------------
(***************************************************************************)
(* Proofs about the ikd-Tree, for any points, boxes, clouds and queries,   *)
(* any number of neighbours and of operations: the tree stays in order,    *)
(* every search finds what it should, and the tree is a store of points.   *)
(*                                                                         *)
(* The operations are recursive functions of a tree.  That such a function *)
(* exists, and what it satisfies, is shown along the height of the trees,  *)
(* by well-founded induction over sets of numbers.                         *)
(***************************************************************************)
EXTENDS IkdTree, FiniteSetTheorems, FunctionTheorems, SequenceTheorems,
        WellFoundedInduction, TLAPS

-----------------------------------------------------------------------------
(* Least and greatest members.                                             *)

\* The least of two integers.
LEMMA MinOfTwo ==
  ASSUME NEW x \in Int, NEW y \in Int
  PROVE  Min({x, y}) = IF x <= y THEN x ELSE y
BY DEF Min

\* A set of numbers has a least member: the well-founded order the recursions rest on.
LEMMA LeastOf ==
  ASSUME NEW K \in SUBSET Nat, K # {}
  PROVE  \E k \in K : \A j \in K : k <= j
<1>1. PICK k \in K : \A j \in K : ~(<<j, k>> \in OpToRel(<, Nat))
  BY NatLessThanWellFounded, WFMin
<1>2. \A j \in Nat : j < k => <<j, k>> \in OpToRel(<, Nat)
  BY DEF OpToRel
<1>3. ASSUME NEW j \in K PROVE k <= j
  <2>1. ~(j < k)
    BY <1>1, <1>2
  <2> QED
    BY <2>1
<1> QED
  BY <1>3

\* What holds of 0 and, whenever it holds of a number up to a bound, of the next.
LEMMA Induction ==
  ASSUME NEW m \in Nat, NEW S, 0 \in S, \A k \in 0 .. m - 1 : k \in S => k + 1 \in S
  PROVE  \A k \in 0 .. m : k \in S
<1> SUFFICES ASSUME NEW l \in 0 .. m, l \notin S PROVE FALSE
  OBVIOUS
<1> DEFINE K == {k \in 0 .. m : k \notin S}
<1>1. PICK k \in K : \A j \in K : k <= j
  <2>1. K \in SUBSET Nat /\ K # {}
    OBVIOUS
  <2> QED
    BY <2>1, LeastOf
<1>2. k \in Nat /\ k # 0 /\ k <= m
  OBVIOUS
<1>3. k - 1 \in 0 .. m /\ ~(k <= k - 1) /\ k - 1 \in 0 .. m - 1 /\ (k - 1) + 1 = k
  BY <1>2
<1>4. k - 1 \in S
  BY <1>1, <1>3
<1> QED
  BY <1>3, <1>4

\* Induction over the numbers, from their least counterexample.
LEMMA AllNaturals ==
  ASSUME NEW S, 0 \in S, \A k \in Nat : k \in S => k + 1 \in S
  PROVE  \A k \in Nat : k \in S
<1> SUFFICES ASSUME NEW m \in Nat PROVE m \in S
  OBVIOUS
<1>1. \A k \in 0 .. m - 1 : k \in S => k + 1 \in S
  OBVIOUS
<1>2. \A k \in 0 .. m : k \in S
  BY <1>1, Induction
<1> QED
  BY <1>2

\* A finite set of integers has a least member, with no induction on its size.
LEMMA LeastInt ==
  ASSUME NEW K \in SUBSET Int, IsFiniteSet(K), K # {}
  PROVE  \E k \in K : \A j \in K : k <= j
<1> DEFINE Bad(T) == T # {} /\ ~\E k \in T : \A j \in T : k <= j
           N == {n \in Nat : \E T \in SUBSET K : Bad(T) /\ Cardinality(T) = n}
<1> SUFFICES ASSUME Bad(K) PROVE FALSE
  OBVIOUS
<1>1. \A T \in SUBSET K : IsFiniteSet(T) /\ Cardinality(T) \in Nat
  BY FS_Subset, FS_CardinalityType
<1>2. Cardinality(K) \in N
  BY <1>1
<1>3. PICK n \in N : \A j \in N : n <= j
  <2>1. N \in SUBSET Nat /\ N # {}
    BY <1>2
  <2> HIDE DEF N
  <2> QED
    BY <2>1, LeastOf
<1>4. PICK T \in SUBSET K : Bad(T) /\ Cardinality(T) = n
  OBVIOUS
<1>5. PICK x \in T : TRUE
  BY <1>4
<1>6. Cardinality(T \ {x}) = n - 1 /\ IsFiniteSet(T \ {x})
  <2>1. IsFiniteSet(T)
    BY <1>1
  <2> QED
    BY <2>1, <1>4, <1>5, FS_RemoveElement
<1>7. n - 1 \in Nat /\ n \in Nat
  <2>1. T \ {x} \in SUBSET K
    OBVIOUS
  <2>2. Cardinality(T \ {x}) \in Nat
    BY <1>1, <2>1
  <2> QED
    BY <1>6, <2>2
<1>8. ~Bad(T \ {x})
  <2>1. SUFFICES ASSUME Bad(T \ {x}) PROVE FALSE
    OBVIOUS
  <2>2. n - 1 \in N
    BY <1>6, <1>7, <2>1
  <2>3. n <= n - 1
    BY <1>3, <2>2
  <2> QED
    BY <1>7, <2>3
<1>9. CASE T \ {x} = {}
  <2>1. \A j \in T : j = x
    BY <1>9
  <2>2. \A j \in T : x <= j
    BY <2>1
  <2> QED
    BY <1>4, <1>5, <2>2
<1>10. CASE T \ {x} # {}
  <2>1. PICK k \in T \ {x} : \A j \in T \ {x} : k <= j
    BY <1>8, <1>10
  <2>2. CASE k <= x
    <3>1. \A j \in T : k <= j
      BY <2>1, <2>2
    <3> QED
      BY <1>4, <3>1
  <2>3. CASE ~(k <= x)
    <3>1. \A j \in T : x <= j
      BY <2>1, <2>3
    <3> QED
      BY <1>4, <1>5, <3>1
  <2> QED
    BY <2>2, <2>3
<1> QED
  BY <1>9, <1>10

\* Min and Max of Update's corners are corners, and bound them.
LEMMA ExtremesOf ==
  ASSUME NEW K \in SUBSET Int, IsFiniteSet(K), K # {}
  PROVE  /\ Min(K) \in K /\ \A j \in K : Min(K) <= j
         /\ Max(K) \in K /\ \A j \in K : j <= Max(K)
<1>1. Min(K) \in K /\ \A j \in K : Min(K) <= j
  <2>1. \E k \in K : \A j \in K : k <= j
    BY LeastInt
  <2> QED
    BY <2>1 DEF Min
<1>2. Max(K) \in K /\ \A j \in K : j <= Max(K)
  <2> DEFINE N == {0 - k : k \in K}
             g == [k \in K |-> 0 - k]
  <2>1. IsFiniteSet(N)
    <3>1. g \in [K -> N] /\ \A t \in N : \E s \in K : g[s] = t
      OBVIOUS
    <3>2. g \in Surjection(K, N)
      <4> HIDE DEF g, N
      <4> QED
        BY <3>1, Fun_IsSurj
    <3> HIDE DEF g, N
    <3> QED
      BY <3>2, FS_Surjection
  <2>2. N \in SUBSET Int /\ N # {}
    <3>1. PICK k \in K : TRUE
      OBVIOUS
    <3>2. 0 - k \in N
      OBVIOUS
    <3>3. \A j \in N : j \in Int
      OBVIOUS
    <3> QED
      BY <3>2, <3>3
  <2>3. PICK l \in N : \A j \in N : l <= j
    <3> HIDE DEF N
    <3> QED
      BY <2>1, <2>2, LeastInt
  <2>4. PICK k \in K : l = 0 - k
    OBVIOUS
  <2>5. ASSUME NEW j \in K PROVE k >= j
    <3>1. l <= 0 - j
      BY <2>3
    <3> QED
      BY <2>4, <3>1
  <2>6. \E x \in K : \A y \in K : x >= y
    BY <2>5
  <2>7. Max(K) \in K /\ \A y \in K : Max(K) >= y
    BY <2>6 DEF Max
  <2>8. ASSUME NEW j \in K PROVE j <= Max(K)
    BY <2>7
  <2> QED
    BY <2>7, <2>8
<1> QED
  BY <1>1, <1>2

\* The extremes of some corners along an axis.
LEMMA CornersOf ==
  ASSUME NEW S \in SUBSET [Axes -> Int], IsFiniteSet(S), S # {}, NEW x \in Axes
  PROVE  /\ Min({c[x] : c \in S}) \in Int /\ Max({c[x] : c \in S}) \in Int
         /\ \A c \in S : Min({d[x] : d \in S}) <= c[x] /\ c[x] <= Max({d[x] : d \in S})
         /\ \E c \in S : Min({d[x] : d \in S}) = c[x]
         /\ \E c \in S : Max({d[x] : d \in S}) = c[x]
<1> DEFINE K == {c[x] : c \in S}
           g == [c \in S |-> c[x]]
<1>1. IsFiniteSet(K)
  <2>1. g \in [S -> K]
    OBVIOUS
  <2> SUFFICES ASSUME \A t \in K : \E s \in S : g[s] = t PROVE IsFiniteSet(K)
    <3>1. ASSUME NEW t \in K PROVE \E s \in S : g[s] = t
      <4>1. PICK s \in S : t = s[x]
        OBVIOUS
      <4> QED
        BY <4>1
    <3> HIDE DEF g, K
    <3> QED
      BY <3>1
  <2>2. g \in Surjection(S, K)
    <3> HIDE DEF g, K
    <3> QED
      BY <2>1, Fun_IsSurj
  <2> HIDE DEF g, K
  <2> QED
    BY <2>2, FS_Surjection
<1>2. K \in SUBSET Int /\ K # {}
  OBVIOUS
<1>3. /\ Min(K) \in K /\ \A j \in K : Min(K) <= j
      /\ Max(K) \in K /\ \A j \in K : j <= Max(K)
  <2> HIDE DEF K
  <2> QED
    BY <1>1, <1>2, ExtremesOf
<1> QED
  BY <1>2, <1>3

-----------------------------------------------------------------------------
(* Recursion: a function on the union of rising levels D[k] is defined by  *)
(* what it is on the lowest and by its two values a level below.           *)

Founded(T, W, D, V, B, L, R, G) ==
  /\ D \in [Nat -> SUBSET T] /\ V \in [Nat -> SUBSET W]
  /\ \A x \in T : \E k \in Nat : x \in D[k]
  /\ \A k \in Nat : D[k] \subseteq D[k + 1] /\ V[k] \subseteq V[k + 1]
  /\ \A x \in D[0] : B[x] \in V[0]
  /\ \A k \in Nat : \A x \in D[k + 1] \ D[k] : L[x] \in D[k] /\ R[x] \in D[k]
  /\ \A k \in Nat : \A x \in D[k + 1] \ D[k] : \A v, w \in V[k] : G[<<x, v, w>>] \in V[k + 1]

\* Such a function exists, and its values keep to the sets V[k] of their levels.
LEMMA Recursion ==
  ASSUME NEW T, NEW W, NEW D, NEW V, NEW B, NEW L, NEW R, NEW G, Founded(T, W, D, V, B, L, R, G)
  PROVE  \E f \in [T -> W] :
           /\ \A x \in T : f[x] = IF x \in D[0] THEN B[x] ELSE G[<<x, f[L[x]], f[R[x]]>>]
           /\ \A k \in Nat : \A x \in D[k] : f[x] \in V[k]
<1> DEFINE Closed(C) ==
             /\ \A x \in D[0] : <<x, B[x]>> \in C
             /\ \A x \in T \ D[0] : \A v, w \in W :
                  <<L[x], v>> \in C /\ <<R[x], w>> \in C /\ G[<<x, v, w>>] \in W
                    => <<x, G[<<x, v, w>>]>> \in C
           Graph == {z \in T \X W : \A C \in SUBSET (T \X W) : Closed(C) => z \in C}
           One(x, v) == \A w \in W : <<x, w>> \in Graph <=> w = v
           S == {k \in Nat : \A x \in D[k] : \E v \in V[k] : One(x, v)}
<1> USE DEF Founded
<1>1. Closed(Graph)
  <2>1. ASSUME NEW x \in D[0] PROVE <<x, B[x]>> \in Graph
    <3>1. <<x, B[x]>> \in T \X W
      <4>1. D[0] \in SUBSET T /\ V[0] \in SUBSET W /\ B[x] \in V[0]
        OBVIOUS
      <4> QED
        BY <4>1
    <3>2. ASSUME NEW C \in SUBSET (T \X W), Closed(C) PROVE <<x, B[x]>> \in C
      BY <3>2
    <3> HIDE DEF Closed
    <3> QED
      BY <3>1, <3>2
  <2>2. ASSUME NEW x \in T \ D[0], NEW v \in W, NEW w \in W,
               <<L[x], v>> \in Graph, <<R[x], w>> \in Graph, G[<<x, v, w>>] \in W
        PROVE  <<x, G[<<x, v, w>>]>> \in Graph
    <3>1. <<x, G[<<x, v, w>>]>> \in T \X W
      BY <2>2
    <3>2. ASSUME NEW C \in SUBSET (T \X W), Closed(C) PROVE <<x, G[<<x, v, w>>]>> \in C
      <4>1. <<L[x], v>> \in C /\ <<R[x], w>> \in C
        <5> HIDE DEF Closed
        <5> QED
          BY <2>2, <3>2
      <4> HIDE DEF Graph
      <4> QED
        BY <2>2, <3>2, <4>1
    <3> HIDE DEF Closed
    <3> QED
      BY <3>1, <3>2
  <2> HIDE DEF Graph
  <2> QED
    BY <2>1, <2>2
<1>2. ASSUME NEW x \in T, NEW v \in W, NEW w \in W, <<x, w>> \in Graph, w # v,
             x \in D[0] => v = B[x],
             x \notin D[0] => \A t, u \in W : <<L[x], t>> \in Graph /\ <<R[x], u>> \in Graph
                                              => G[<<x, t, u>>] = v
      PROVE  FALSE
  <2> DEFINE C == Graph \ {<<x, w>>}
  <2>1. C \in SUBSET (T \X W)
    OBVIOUS
  <2>2. ASSUME NEW y \in D[0] PROVE <<y, B[y]>> \in C
    <3>1. <<y, B[y]>> \in Graph
      <4> HIDE DEF Graph
      <4> QED
        BY <1>1
    <3>2. <<y, B[y]>> # <<x, w>>
      BY <1>2
    <3> HIDE DEF Graph
    <3> QED
      BY <3>1, <3>2
  <2>3. ASSUME NEW y \in T \ D[0], NEW t \in W, NEW u \in W,
               <<L[y], t>> \in C, <<R[y], u>> \in C, G[<<y, t, u>>] \in W
        PROVE  <<y, G[<<y, t, u>>]>> \in C
    <3> HIDE DEF Graph
    <3>1. <<L[y], t>> \in Graph /\ <<R[y], u>> \in Graph
      BY <2>3
    <3>2. <<y, G[<<y, t, u>>]>> \in Graph
      BY <1>1, <2>3, <3>1
    <3>3. <<y, G[<<y, t, u>>]>> # <<x, w>>
      BY <1>2, <3>1
    <3> QED
      BY <3>2, <3>3
  <2>4. Closed(C)
    <3> HIDE DEF C
    <3> QED
      BY <2>2, <2>3
  <2>5. <<x, w>> \in C
    <3> HIDE DEF Closed, C
    <3> QED
      BY <1>2, <2>1, <2>4
  <2> QED
    BY <2>5
<1>3. 0 \in S
  <2> SUFFICES ASSUME NEW x \in D[0] PROVE \E v \in V[0] : One(x, v)
    OBVIOUS
  <2>1. x \in T /\ B[x] \in V[0] /\ B[x] \in W
    <3>1. D[0] \in SUBSET T /\ V[0] \in SUBSET W
      OBVIOUS
    <3> QED
      BY <3>1
  <2>2. <<x, B[x]>> \in Graph
    <3> HIDE DEF Graph
    <3> QED
      BY <1>1
  <2>3. ASSUME NEW w \in W, <<x, w>> \in Graph PROVE w = B[x]
    <3> HIDE DEF Graph
    <3> QED
      BY <1>2, <2>1, <2>3
  <2>4. One(x, B[x])
    <3> HIDE DEF Graph
    <3> QED
      BY <2>2, <2>3
  <2> HIDE DEF One
  <2> QED
    BY <2>1, <2>4
<1>4. ASSUME NEW k \in Nat, k \in S PROVE k + 1 \in S
  <2>0. k + 1 \in Nat
    OBVIOUS
  <2> SUFFICES ASSUME NEW x \in D[k + 1] PROVE \E v \in V[k + 1] : One(x, v)
    <3> HIDE DEF One
    <3> QED
      BY <2>0
  <2>1. x \in T /\ V[k] \in SUBSET W /\ V[k + 1] \in SUBSET W /\ D[k + 1] \in SUBSET T
    <3>1. k + 1 \in Nat
      OBVIOUS
    <3>2. D[k + 1] \in SUBSET T /\ V[k] \in SUBSET W /\ V[k + 1] \in SUBSET W
      BY <3>1
    <3> QED
      BY <3>2
  <2>2. CASE x \in D[0]
    <3>1. PICK v \in V[0] : One(x, v)
      BY <1>3, <2>2
    <3>2. <<x, B[x]>> \in Graph /\ B[x] \in V[0] /\ V[0] \in SUBSET W
      <4> HIDE DEF Graph
      <4> QED
        BY <1>1, <2>2
    <3>3. v = B[x]
      <4> HIDE DEF Graph
      <4> QED
        BY <3>1, <3>2
    <3>4. ASSUME NEW i \in Nat, V[0] \subseteq V[i] PROVE V[0] \subseteq V[i + 1]
      <4>1. V[i] \subseteq V[i + 1]
        OBVIOUS
      <4> QED
        BY <3>4, <4>1
    <3> DEFINE U == {i \in Nat : V[0] \subseteq V[i]}
    <3>5. 0 \in U /\ \A i \in Nat : i \in U => i + 1 \in U
      BY <3>4
    <3>6. \A i \in Nat : i \in U
      <4> HIDE DEF U
      <4> QED
        BY <3>5, AllNaturals
    <3>7. V[0] \subseteq V[k + 1]
      BY <3>6
    <3> HIDE DEF One
    <3> QED
      BY <3>1, <3>7
  <2>3. CASE x \in D[k]
    <3>1. V[k] \subseteq V[k + 1]
      OBVIOUS
    <3> HIDE DEF One
    <3> QED
      BY <1>4, <2>3, <3>1
  <2>4. CASE x \notin D[0] /\ x \notin D[k]
    <3>1. L[x] \in D[k] /\ R[x] \in D[k]
      BY <2>4
    <3>2. PICK t \in V[k] : One(L[x], t)
      BY <1>4, <3>1
    <3>3. PICK u \in V[k] : One(R[x], u)
      BY <1>4, <3>1
    <3> DEFINE v == G[<<x, t, u>>]
    <3>4. v \in V[k + 1] /\ v \in W /\ t \in W /\ u \in W
      BY <2>1, <2>4
    <3>5. <<x, v>> \in Graph
      <4>1. <<L[x], t>> \in Graph /\ <<R[x], u>> \in Graph
        <5> HIDE DEF Graph
        <5> QED
          BY <3>2, <3>3, <3>4
      <4> HIDE DEF Graph
      <4> QED
        BY <1>1, <2>1, <2>4, <3>4, <4>1
    <3>6. \A p, q \in W : <<L[x], p>> \in Graph /\ <<R[x], q>> \in Graph => G[<<x, p, q>>] = v
      <4> HIDE DEF Graph
      <4> QED
        BY <3>2, <3>3
    <3>7. ASSUME NEW w \in W, <<x, w>> \in Graph PROVE w = v
      <4> HIDE DEF Graph, v
      <4> QED
        BY <1>2, <2>1, <2>4, <3>4, <3>6, <3>7
    <3>8. One(x, v)
      <4> HIDE DEF Graph, v
      <4> QED
        BY <3>5, <3>7
    <3> HIDE DEF One, v
    <3> QED
      BY <3>4, <3>8
  <2> QED
    BY <2>2, <2>3, <2>4
<1>5. \A k \in Nat : k \in S
  <2> HIDE DEF S
  <2> QED
    BY <1>3, <1>4, AllNaturals
<1>6. \A k \in Nat : \A x \in D[k] : \E v \in V[k] : One(x, v)
  BY <1>5
<1> DEFINE f == [x \in T |-> CHOOSE v \in W : <<x, v>> \in Graph]
<1> HIDE DEF S, Graph
<1>7. ASSUME NEW k \in Nat, NEW x \in D[k] PROVE f[x] \in V[k] /\ One(x, f[x])
  <2>1. PICK v \in V[k] : One(x, v)
    BY <1>6
  <2>2. v \in W /\ x \in T
    <3>1. V[k] \in SUBSET W /\ D[k] \in SUBSET T
      OBVIOUS
    <3> QED
      BY <3>1
  <2>3. f[x] = v
    BY <2>1, <2>2
  <2> HIDE DEF f, One
  <2> QED
    BY <2>1, <2>3
<1>8. ASSUME NEW x \in T PROVE f[x] \in W /\ One(x, f[x])
  <2>1. PICK k \in Nat : x \in D[k]
    OBVIOUS
  <2>2. V[k] \in SUBSET W
    OBVIOUS
  <2> HIDE DEF f, One
  <2> QED
    BY <1>7, <2>1, <2>2
<1>9. f \in [T -> W]
  <2>1. \A x \in T : f[x] \in W
    <3> HIDE DEF f, One
    <3> QED
      BY <1>8
  <2> QED
    BY <2>1
<1>10. ASSUME NEW x \in T PROVE f[x] = IF x \in D[0] THEN B[x] ELSE G[<<x, f[L[x]], f[R[x]]>>]
  <2> HIDE DEF f
  <2>1. CASE x \in D[0]
    <3>1. <<x, B[x]>> \in Graph /\ B[x] \in W
      <4>1. B[x] \in V[0] /\ V[0] \in SUBSET W
        BY <2>1
      <4> QED
        BY <1>1, <2>1, <4>1
    <3> QED
      BY <1>8, <2>1, <3>1
  <2>2. CASE x \notin D[0]
    <3>1. PICK k \in Nat : x \in D[k + 1] \ D[k]
      <4> DEFINE N == {j \in Nat : x \in D[j]}
      <4>1. PICK j \in N : \A i \in N : j <= i
        <5>1. N \in SUBSET Nat /\ N # {}
          OBVIOUS
        <5> HIDE DEF N
        <5> QED
          BY <5>1, LeastOf
      <4>2. j # 0
        BY <2>2, <4>1
      <4>3. j - 1 \in Nat /\ (j - 1) + 1 = j /\ ~(j <= j - 1)
        BY <4>2
      <4>4. x \notin D[j - 1]
        BY <4>1, <4>3
      <4> QED
        BY <4>1, <4>3, <4>4
    <3>2. L[x] \in D[k] /\ R[x] \in D[k]
      BY <3>1
    <3>3. f[L[x]] \in V[k] /\ One(L[x], f[L[x]]) /\ f[R[x]] \in V[k] /\ One(R[x], f[R[x]])
      <4> HIDE DEF One
      <4> QED
        BY <1>7, <3>2
    <3>4. G[<<x, f[L[x]], f[R[x]]>>] \in V[k + 1] /\ V[k + 1] \in SUBSET W /\ V[k] \in SUBSET W
      <4>1. k + 1 \in Nat
        OBVIOUS
      <4> QED
        BY <3>1, <3>3, <4>1
    <3>5. <<L[x], f[L[x]]>> \in Graph /\ <<R[x], f[R[x]]>> \in Graph
      BY <3>3, <3>4
    <3>6. <<x, G[<<x, f[L[x]], f[R[x]]>>]>> \in Graph
      BY <1>1, <2>2, <3>3, <3>4, <3>5
    <3>7. G[<<x, f[L[x]], f[R[x]]>>] = f[x]
      BY <1>8, <3>4, <3>6
    <3> QED
      BY <2>2, <3>7
  <2> QED
    BY <2>1, <2>2
<1>11. \A k \in Nat : \A x \in D[k] : f[x] \in V[k]
  <2> HIDE DEF f, One
  <2> QED
    BY <1>7
<1> HIDE DEF f
<1> QED
  BY <1>9, <1>10, <1>11

-----------------------------------------------------------------------------
(* Trees by their height.                                                  *)

TreesUpTo(g, k) ==
  g = [h \in 0 .. k |-> IF h = 0 THEN {Null} ELSE {Null} \cup NodesOver(g[h - 1])]

TreesFrom(f) == f = [h \in Nat |-> IF h = 0 THEN {Null} ELSE {Null} \cup NodesOver(f[h - 1])]

\* The sets of trees up to a height exist ...
LEMMA TreesUpToExist ==
  ASSUME NEW k \in Nat
  PROVE  \E g : TreesUpTo(g, k)
<1> DEFINE S == {j \in Nat : \E g : TreesUpTo(g, j)}
<1>1. 0 \in S
  <2> DEFINE g == [h \in 0 .. 0 |-> {Null}]
  <2>1. g = [h \in 0 .. 0 |-> IF h = 0 THEN {Null} ELSE {Null} \cup NodesOver(g[h - 1])]
    OBVIOUS
  <2>2. TreesUpTo(g, 0)
    <3> HIDE DEF g
    <3> QED
      BY <2>1 DEF TreesUpTo
  <2> HIDE DEF g
  <2> QED
    BY <2>2
<1>2. ASSUME NEW j \in Nat, j \in S PROVE j + 1 \in S
  <2>1. PICK g : TreesUpTo(g, j)
    BY <1>2
  <2> DEFINE e == [h \in 0 .. j + 1 |-> IF h = j + 1 THEN {Null} \cup NodesOver(g[j]) ELSE g[h]]
             E == [h \in 0 .. j + 1 |-> IF h = 0 THEN {Null} ELSE {Null} \cup NodesOver(e[h - 1])]
  <2>2. ASSUME NEW h \in 0 .. j + 1 PROVE e[h] = E[h]
    <3>1. CASE h = j + 1
      <4>1. h # 0 /\ h - 1 = j /\ j \in 0 .. j + 1 /\ j # j + 1
        BY <3>1
      <4>2. e[j] = g[j]
        BY <4>1
      <4> QED
        BY <3>1, <4>1, <4>2
    <3>2. CASE h # j + 1
      <4>1. e[h] = g[h] /\ h \in 0 .. j
        BY <3>2
      <4>2. g[h] = IF h = 0 THEN {Null} ELSE {Null} \cup NodesOver(g[h - 1])
        BY <2>1, <4>1 DEF TreesUpTo
      <4>3. h # 0 => h - 1 \in 0 .. j + 1 /\ h - 1 # j + 1
        BY <4>1
      <4>4. h # 0 => e[h - 1] = g[h - 1]
        BY <4>3
      <4> QED
        BY <4>1, <4>2, <4>4
    <3> QED
      BY <3>1, <3>2
  <2>3. e = E
    BY <2>2
  <2>4. TreesUpTo(e, j + 1)
    <3> HIDE DEF e
    <3> QED
      BY <2>3 DEF TreesUpTo
  <2>5. j + 1 \in Nat
    OBVIOUS
  <2> HIDE DEF e, E
  <2> QED
    BY <2>4, <2>5
<1>3. \A j \in Nat : j \in S
  <2> HIDE DEF S
  <2> QED
    BY <1>1, <1>2, AllNaturals
<1> QED
  BY <1>3

\* ... and agree with those up to another.
LEMMA TreesUpToAgree ==
  ASSUME NEW k \in Nat, NEW l \in Nat, NEW g, TreesUpTo(g, k), NEW e, TreesUpTo(e, l),
         NEW m \in Nat, m <= k, m <= l
  PROVE  g[m] = e[m]
<1> DEFINE S == {h \in 0 .. m : g[h] = e[h]}
<1>1. ASSUME NEW h \in 0 .. m
      PROVE  /\ g[h] = IF h = 0 THEN {Null} ELSE {Null} \cup NodesOver(g[h - 1])
             /\ e[h] = IF h = 0 THEN {Null} ELSE {Null} \cup NodesOver(e[h - 1])
  <2>1. h \in 0 .. k /\ h \in 0 .. l
    OBVIOUS
  <2> QED
    BY <2>1 DEF TreesUpTo
<1>2. 0 \in S
  <2>1. 0 \in 0 .. m
    OBVIOUS
  <2> QED
    BY <1>1, <2>1
<1>3. ASSUME NEW h \in 0 .. m - 1, h \in S PROVE h + 1 \in S
  <2>1. h + 1 \in 0 .. m /\ h + 1 # 0 /\ (h + 1) - 1 = h
    OBVIOUS
  <2>2. g[h + 1] = {Null} \cup NodesOver(g[h]) /\ e[h + 1] = {Null} \cup NodesOver(e[h])
    BY <1>1, <2>1
  <2>3. g[h] = e[h]
    BY <1>3
  <2> QED
    BY <2>1, <2>2, <2>3
<1>4. \A h \in 0 .. m : h \in S
  <2> HIDE DEF S
  <2> QED
    BY <1>2, <1>3, Induction
<1> QED
  BY <1>4

\* So TreesTo is what its recursion says.
LEMMA TreesToIs ==
  ASSUME NEW k \in Nat
  PROVE  TreesTo[k] = IF k = 0 THEN {Null} ELSE {Null} \cup NodesOver(TreesTo[k - 1])
<1> DEFINE up(j) == CHOOSE g : TreesUpTo(g, j)
           F == [j \in Nat |-> up(j)[j]]
           E == [h \in Nat |-> IF h = 0 THEN {Null} ELSE {Null} \cup NodesOver(F[h - 1])]
<1>1. \A j \in Nat : TreesUpTo(up(j), j)
  BY TreesUpToExist
<1>2. ASSUME NEW h \in Nat PROVE F[h] = E[h]
  <2>1. h \in 0 .. h /\ TreesUpTo(up(h), h)
    BY <1>1
  <2>2. up(h)[h] = IF h = 0 THEN {Null} ELSE {Null} \cup NodesOver(up(h)[h - 1])
    <3> HIDE DEF up
    <3> QED
      BY <2>1 DEF TreesUpTo
  <2>3. h # 0 => up(h)[h - 1] = up(h - 1)[h - 1]
    <3>1. SUFFICES ASSUME h # 0 PROVE up(h)[h - 1] = up(h - 1)[h - 1]
      OBVIOUS
    <3>2. h - 1 \in Nat /\ h - 1 <= h /\ h - 1 <= h - 1
      BY <3>1
    <3>3. TreesUpTo(up(h), h) /\ TreesUpTo(up(h - 1), h - 1)
      BY <1>1, <3>2
    <3> HIDE DEF up
    <3> QED
      BY <3>2, <3>3, TreesUpToAgree
  <2>4. h # 0 => h - 1 \in Nat
    OBVIOUS
  <2> HIDE DEF up
  <2> QED
    BY <2>2, <2>3, <2>4
<1>3. F = E
  BY <1>2
<1>4. TreesFrom(F)
  <2> HIDE DEF F
  <2> QED
    BY <1>3 DEF TreesFrom
<1>5. TreesTo = CHOOSE f : TreesFrom(f)
  BY DEF TreesTo, TreesFrom
<1>6. TreesFrom(TreesTo)
  <2> HIDE DEF F
  <2> QED
    BY <1>4, <1>5
<1> QED
  BY <1>6 DEF TreesFrom

\* More sons, more nodes.
LEMMA NodesOverMore ==
  ASSUME NEW A, NEW B, A \subseteq B
  PROVE  NodesOver(A) \subseteq NodesOver(B)
BY DEF NodesOver

\* A tree of a height is one of the next.
LEMMA TreesRise ==
  ASSUME NEW h \in Nat
  PROVE  Null \in TreesTo[h] /\ TreesTo[h] \subseteq TreesTo[h + 1]
<1> DEFINE S == {k \in Nat : TreesTo[k] \subseteq TreesTo[k + 1]}
<1>1. ASSUME NEW k \in Nat
      PROVE  TreesTo[k + 1] = {Null} \cup NodesOver(TreesTo[k])
  <2>1. k + 1 \in Nat /\ k + 1 # 0 /\ (k + 1) - 1 = k
    OBVIOUS
  <2> QED
    BY <2>1, TreesToIs
<1>2. 0 \in S
  <2>1. TreesTo[0] = {Null} /\ TreesTo[0 + 1] = {Null} \cup NodesOver(TreesTo[0])
    BY <1>1, TreesToIs
  <2> QED
    BY <2>1
<1>3. ASSUME NEW k \in Nat, k \in S PROVE k + 1 \in S
  <2>1. TreesTo[k + 1] = {Null} \cup NodesOver(TreesTo[k])
    BY <1>1
  <2>2. TreesTo[(k + 1) + 1] = {Null} \cup NodesOver(TreesTo[k + 1])
    <3>1. k + 1 \in Nat
      OBVIOUS
    <3> QED
      BY <1>1, <3>1
  <2>3. NodesOver(TreesTo[k]) \subseteq NodesOver(TreesTo[k + 1])
    BY <1>3, NodesOverMore
  <2> QED
    BY <2>1, <2>2, <2>3
<1>4. \A k \in Nat : k \in S
  <2> HIDE DEF S
  <2> QED
    BY <1>2, <1>3, AllNaturals
<1> QED
  BY <1>4, TreesToIs

\* And of every greater one.
LEMMA TreesHigher ==
  ASSUME NEW h \in Nat, NEW k \in Nat, h <= k
  PROVE  TreesTo[h] \subseteq TreesTo[k]
<1> DEFINE S == {j \in Nat : TreesTo[h] \subseteq TreesTo[h + j]}
<1>1. 0 \in S
  OBVIOUS
<1>2. ASSUME NEW j \in Nat, j \in S PROVE j + 1 \in S
  <2>1. h + j \in Nat /\ (h + j) + 1 = h + (j + 1) /\ j + 1 \in Nat
    OBVIOUS
  <2>2. TreesTo[h + j] \subseteq TreesTo[(h + j) + 1]
    BY <2>1, TreesRise
  <2> QED
    BY <1>2, <2>1, <2>2
<1>3. \A j \in Nat : j \in S
  <2> HIDE DEF S
  <2> QED
    BY <1>1, <1>2, AllNaturals
<1>4. k - h \in Nat /\ h + (k - h) = k
  OBVIOUS
<1> QED
  BY <1>3, <1>4

\* A tree that is not Null is a node over lower trees.
LEMMA NodeIs ==
  ASSUME NEW h \in Nat, NEW n \in TreesTo[h], n # Null
  PROVE  h # 0 /\ h - 1 \in Nat /\ n \in NodesOver(TreesTo[h - 1])
<1>1. TreesTo[h] = IF h = 0 THEN {Null} ELSE {Null} \cup NodesOver(TreesTo[h - 1])
  BY TreesToIs
<1>2. h # 0
  BY <1>1
<1> QED
  BY <1>1, <1>2

\* A node over trees of a height is a tree of the next.
LEMMA NodeRise ==
  ASSUME NEW h \in Nat, NEW n \in NodesOver(TreesTo[h])
  PROVE  n \in TreesTo[h + 1]
<1>1. h + 1 \in Nat /\ h + 1 # 0 /\ (h + 1) - 1 = h
  OBVIOUS
<1> QED
  BY <1>1, TreesToIs

\* The trees of every height up to the bound are trees; no node is Null.
LEMMA HeightIs ==
  /\ MaxHeight \in Nat
  /\ Trees = TreesTo[MaxHeight] /\ Null \in Trees
  /\ \A h \in 0 .. MaxHeight : TreesTo[h] \subseteq Trees /\ Null \notin NodesOver(TreesTo[h])
<1>1. MaxHeight \in Nat
  BY ConstantsAssumption
<1>2. \A h \in 0 .. MaxHeight : TreesTo[h] \subseteq Trees
  BY <1>1, TreesHigher DEF Trees
<1>3. \A h \in 0 .. MaxHeight : Null \notin NodesOver(TreesTo[h])
  BY ConstantsAssumption
<1> QED
  BY <1>1, <1>2, <1>3, TreesRise DEF Trees

\* A tree of a height is Null or a node over lower ones.
LEMMA LevelIs ==
  ASSUME NEW h \in 0 .. MaxHeight, h # 0
  PROVE  TreesTo[h] = {Null} \cup NodesOver(TreesTo[h - 1]) /\ Null \notin NodesOver(TreesTo[h - 1])
<1>1. h \in Nat /\ h - 1 \in 0 .. MaxHeight
  BY HeightIs
<1>2. TreesTo[h] = IF h = 0 THEN {Null} ELSE {Null} \cup NodesOver(TreesTo[h - 1])
  BY <1>1, TreesToIs
<1>3. Null \notin NodesOver(TreesTo[h - 1])
  BY <1>1, HeightIs
<1> QED
  BY <1>2, <1>3

\* A node of any of the bounded heights.
Nodal == NodesOver(Trees)

\* A tree that is not Null is a node.
LEMMA NodalIs ==
  ASSUME NEW n \in Trees, n # Null
  PROVE  n \in Nodal /\ n.left \in Trees /\ n.right \in Trees
<1>1. MaxHeight # 0 /\ n \in NodesOver(TreesTo[MaxHeight - 1])
  BY HeightIs, NodeIs
<1>2. TreesTo[MaxHeight - 1] \subseteq Trees
  <2>1. MaxHeight - 1 \in 0 .. MaxHeight
    BY <1>1, HeightIs
  <2> QED
    BY <2>1, HeightIs
<1>3. n \in Nodal
  BY <1>1, <1>2, NodesOverMore DEF Nodal
<1> QED
  BY <1>3 DEF Nodal, NodesOver

\* Null has no fields.
LEMMA NullIsNoNode == Null \notin Nodal
<1>1. MaxHeight \in 0 .. MaxHeight
  BY HeightIs
<1> QED
  BY <1>1, HeightIs DEF Nodal

-----------------------------------------------------------------------------
(* Pushing down.                                                           *)

\* A deletion passed on leaves the point, the sons, the size and the range.
LEMMA PushedToIs ==
  ASSUME NEW X, NEW Y, NEW n \in NodesOver(X), NEW s \in NodesOver(Y)
  PROVE  /\ PushedTo(n, s) \in NodesOver(Y)
         /\ PushedTo(n, s).point = s.point /\ PushedTo(n, s).division_axis = s.division_axis
         /\ PushedTo(n, s).left = s.left /\ PushedTo(n, s).right = s.right
         /\ PushedTo(n, s).TreeSize = s.TreeSize
         /\ PushedTo(n, s).lo = s.lo /\ PushedTo(n, s).hi = s.hi
<1> DEFINE sampled == s.tree_downsample_deleted \/ n.tree_downsample_deleted
           pointSampled == s.point_downsample_deleted \/ n.tree_downsample_deleted
           deleted == n.tree_deleted \/ sampled
           gone == deleted \/ pointSampled
           sampledNum == IF n.tree_downsample_deleted THEN s.TreeSize ELSE s.down_del_num
           invalid == IF n.tree_deleted THEN s.TreeSize ELSE sampledNum
<1>1. sampled \in BOOLEAN /\ pointSampled \in BOOLEAN /\ deleted \in BOOLEAN /\ gone \in BOOLEAN
  OBVIOUS
<1>2. sampledNum \in Nat /\ invalid \in Nat
  BY DEF NodesOver
<1>3. PushedTo(n, s) =
        [s EXCEPT !.tree_downsample_deleted = sampled, !.point_downsample_deleted = pointSampled,
                  !.tree_deleted = deleted, !.point_deleted = gone,
                  !.down_del_num = sampledNum, !.invalid_point_num = invalid,
                  !.need_push_down_to_left = TRUE, !.need_push_down_to_right = TRUE]
  BY DEF PushedTo
<1> HIDE DEF sampled, pointSampled, deleted, gone, sampledNum, invalid
<1> QED
  BY <1>1, <1>2, <1>3 DEF NodesOver

\* The son a walk finds on either side.
LeftSon(n) == Push_Down(n).left
RightSon(n) == Push_Down(n).right

\* Push_Down with its conditions named.
LEMMA PushDownIs ==
  ASSUME NEW X, NEW n \in NodesOver(X)
  PROVE  Push_Down(n) =
           [n EXCEPT
              !.left = IF n.need_push_down_to_left /\ n.left # Null THEN PushedTo(n, n.left) ELSE n.left,
              !.need_push_down_to_left = n.need_push_down_to_left /\ n.left = Null,
              !.right = IF n.need_push_down_to_right /\ n.right # Null THEN PushedTo(n, n.right) ELSE n.right,
              !.need_push_down_to_right = n.need_push_down_to_right /\ n.right = Null]
<1>1. /\ (n.need_push_down_to_left /\ ~(n.need_push_down_to_left /\ n.left # Null))
           = (n.need_push_down_to_left /\ n.left = Null)
      /\ (n.need_push_down_to_right /\ ~(n.need_push_down_to_right /\ n.right # Null))
           = (n.need_push_down_to_right /\ n.right = Null)
  OBVIOUS
<1> QED
  BY <1>1 DEF Push_Down

\* What Push_Down does to every field.
LEMMA PushIs ==
  ASSUME NEW X, NEW n \in NodesOver(X)
  PROVE  /\ Push_Down(n).left = IF n.need_push_down_to_left /\ n.left # Null
                                THEN PushedTo(n, n.left) ELSE n.left
         /\ Push_Down(n).right = IF n.need_push_down_to_right /\ n.right # Null
                                 THEN PushedTo(n, n.right) ELSE n.right
         /\ Push_Down(n).need_push_down_to_left = (n.need_push_down_to_left /\ n.left = Null)
         /\ Push_Down(n).need_push_down_to_right = (n.need_push_down_to_right /\ n.right = Null)
         /\ Push_Down(n).point = n.point /\ Push_Down(n).division_axis = n.division_axis
         /\ Push_Down(n).TreeSize = n.TreeSize /\ Push_Down(n).invalid_point_num = n.invalid_point_num
         /\ Push_Down(n).down_del_num = n.down_del_num
         /\ Push_Down(n).point_deleted = n.point_deleted /\ Push_Down(n).tree_deleted = n.tree_deleted
         /\ Push_Down(n).point_downsample_deleted = n.point_downsample_deleted
         /\ Push_Down(n).tree_downsample_deleted = n.tree_downsample_deleted
         /\ Push_Down(n).lo = n.lo /\ Push_Down(n).hi = n.hi
<1> DEFINE l == IF n.need_push_down_to_left /\ n.left # Null THEN PushedTo(n, n.left) ELSE n.left
           r == IF n.need_push_down_to_right /\ n.right # Null THEN PushedTo(n, n.right) ELSE n.right
           dl == n.need_push_down_to_left /\ n.left = Null
           dr == n.need_push_down_to_right /\ n.right = Null
<1>1. Push_Down(n) = [n EXCEPT !.left = l, !.need_push_down_to_left = dl,
                               !.right = r, !.need_push_down_to_right = dr]
  BY PushDownIs
<1> HIDE DEF l, r, dl, dr
<1>2. /\ Push_Down(n).left = l /\ Push_Down(n).right = r
      /\ Push_Down(n).need_push_down_to_left = dl /\ Push_Down(n).need_push_down_to_right = dr
      /\ Push_Down(n).point = n.point /\ Push_Down(n).division_axis = n.division_axis
      /\ Push_Down(n).TreeSize = n.TreeSize /\ Push_Down(n).invalid_point_num = n.invalid_point_num
      /\ Push_Down(n).down_del_num = n.down_del_num
      /\ Push_Down(n).point_deleted = n.point_deleted /\ Push_Down(n).tree_deleted = n.tree_deleted
      /\ Push_Down(n).point_downsample_deleted = n.point_downsample_deleted
      /\ Push_Down(n).tree_downsample_deleted = n.tree_downsample_deleted
      /\ Push_Down(n).lo = n.lo /\ Push_Down(n).hi = n.hi
  BY <1>1 DEF NodesOver
<1> QED
  BY <1>2 DEF l, r, dl, dr

\* A node's height is not changed, nor whether it has a son.
LEMMA PushOver ==
  ASSUME NEW h \in 0 .. MaxHeight, NEW n \in NodesOver(TreesTo[h])
  PROVE  /\ Push_Down(n) \in NodesOver(TreesTo[h])
         /\ Push_Down(n).left \in TreesTo[h] /\ Push_Down(n).right \in TreesTo[h]
         /\ Push_Down(n).left = Null <=> n.left = Null
         /\ Push_Down(n).right = Null <=> n.right = Null
<1>1. ASSUME NEW s \in TreesTo[h], s # Null
      PROVE  PushedTo(n, s) \in TreesTo[h] /\ PushedTo(n, s) # Null
  <2>1. h # 0 /\ h - 1 \in 0 .. MaxHeight /\ s \in NodesOver(TreesTo[h - 1])
    BY <1>1, NodeIs, HeightIs
  <2>2. PushedTo(n, s) \in NodesOver(TreesTo[h - 1])
    BY <2>1, PushedToIs
  <2>3. TreesTo[h] = {Null} \cup NodesOver(TreesTo[h - 1]) /\ Null \notin NodesOver(TreesTo[h - 1])
    BY <2>1, LevelIs
  <2> QED
    BY <2>2, <2>3
<1>2. n.left \in TreesTo[h] /\ n.right \in TreesTo[h]
  BY DEF NodesOver
<1>3. /\ Push_Down(n).left \in TreesTo[h] /\ Push_Down(n).right \in TreesTo[h]
      /\ Push_Down(n).left = Null <=> n.left = Null
      /\ Push_Down(n).right = Null <=> n.right = Null
  BY <1>1, <1>2, PushIs
<1>4. Push_Down(n) \in NodesOver(TreesTo[h])
  <2> DEFINE l == IF n.need_push_down_to_left /\ n.left # Null THEN PushedTo(n, n.left) ELSE n.left
             r == IF n.need_push_down_to_right /\ n.right # Null THEN PushedTo(n, n.right) ELSE n.right
             dl == n.need_push_down_to_left /\ n.left = Null
             dr == n.need_push_down_to_right /\ n.right = Null
  <2>1. l \in TreesTo[h] /\ r \in TreesTo[h]
    BY <1>1, <1>2
  <2>2. dl \in BOOLEAN /\ dr \in BOOLEAN
    OBVIOUS
  <2>3. Push_Down(n) = [n EXCEPT !.left = l, !.need_push_down_to_left = dl,
                                 !.right = r, !.need_push_down_to_right = dr]
    BY PushDownIs
  <2> HIDE DEF l, r, dl, dr
  <2> QED
    BY <2>1, <2>2, <2>3 DEF NodesOver
<1> QED
  BY <1>3, <1>4

\* Pushing down keeps the height; the sons after it are as high as before.
LEMMA PushTree ==
  ASSUME NEW h \in 0 .. MaxHeight, NEW n \in TreesTo[h], n # Null
  PROVE  /\ h # 0 /\ h - 1 \in 0 .. MaxHeight
         /\ n \in NodesOver(TreesTo[h - 1]) /\ Push_Down(n) \in NodesOver(TreesTo[h - 1])
         /\ Push_Down(n) \in TreesTo[h] /\ Push_Down(n) # Null
         /\ LeftSon(n) \in TreesTo[h - 1] /\ RightSon(n) \in TreesTo[h - 1]
         /\ LeftSon(n) = Null <=> n.left = Null
         /\ RightSon(n) = Null <=> n.right = Null
<1>1. h # 0 /\ h - 1 \in 0 .. MaxHeight /\ n \in NodesOver(TreesTo[h - 1])
  BY NodeIs, HeightIs
<1>2. /\ Push_Down(n) \in NodesOver(TreesTo[h - 1])
      /\ Push_Down(n).left \in TreesTo[h - 1] /\ Push_Down(n).right \in TreesTo[h - 1]
      /\ Push_Down(n).left = Null <=> n.left = Null
      /\ Push_Down(n).right = Null <=> n.right = Null
  BY <1>1, PushOver
<1>3. TreesTo[h] = {Null} \cup NodesOver(TreesTo[h - 1]) /\ Null \notin NodesOver(TreesTo[h - 1])
  BY <1>1, LevelIs
<1> QED
  BY <1>1, <1>2, <1>3 DEF LeftSon, RightSon

\* A walk that comes again finds nothing to push.
LEMMA PushTwice ==
  ASSUME NEW X, NEW n \in NodesOver(X), Push_Down(n) \in NodesOver(X),
         Push_Down(n).left = Null <=> n.left = Null,
         Push_Down(n).right = Null <=> n.right = Null
  PROVE  Push_Down(Push_Down(n)) = Push_Down(n)
<1> DEFINE r == Push_Down(n)
           dl == r.need_push_down_to_left /\ r.left = Null
           dr == r.need_push_down_to_right /\ r.right = Null
<1>1. r \in NodesOver(X) /\ r.need_push_down_to_left \in BOOLEAN /\ r.need_push_down_to_right \in BOOLEAN
  BY DEF NodesOver
<1>2. (r.need_push_down_to_left => r.left = Null) /\ (r.need_push_down_to_right => r.right = Null)
  BY PushIs
<1> HIDE DEF r
<1>3. dl = r.need_push_down_to_left /\ dr = r.need_push_down_to_right
  BY <1>1, <1>2, Zenon
<1>4. Push_Down(r) = [r EXCEPT !.left = r.left, !.need_push_down_to_left = dl,
                               !.right = r.right, !.need_push_down_to_right = dr]
  <2>1. /\ (IF r.need_push_down_to_left /\ r.left # Null THEN PushedTo(r, r.left) ELSE r.left) = r.left
        /\ (IF r.need_push_down_to_right /\ r.right # Null THEN PushedTo(r, r.right) ELSE r.right) = r.right
    BY <1>2
  <2> QED
    BY <1>1, <2>1, PushDownIs
<1> HIDE DEF dl, dr
<1>5. Push_Down(r) = [r EXCEPT !.left = r.left, !.need_push_down_to_left = r.need_push_down_to_left,
                         !.right = r.right, !.need_push_down_to_right = r.need_push_down_to_right]
  BY <1>3, <1>4
<1>6. Push_Down(r) = r
  BY <1>1, <1>5 DEF NodesOver
<1> QED
  BY <1>6 DEF r

-----------------------------------------------------------------------------
(* Update.                                                                 *)

\* The fields of a node.
LEMMA FieldsOf ==
  ASSUME NEW X, NEW n \in NodesOver(X)
  PROVE  /\ n.point \in Points /\ n.division_axis \in Axes /\ n.left \in X /\ n.right \in X
         /\ n.TreeSize \in Nat /\ n.invalid_point_num \in Nat /\ n.down_del_num \in Nat
         /\ n.point_deleted \in BOOLEAN /\ n.tree_deleted \in BOOLEAN
         /\ n.point_downsample_deleted \in BOOLEAN /\ n.tree_downsample_deleted \in BOOLEAN
         /\ n.need_push_down_to_left \in BOOLEAN /\ n.need_push_down_to_right \in BOOLEAN
         /\ n.lo \in [Axes -> Int] /\ n.hi \in [Axes -> Int]
BY DEF NodesOver

\* And of a tree that is not Null.
LEMMA FieldsIn ==
  ASSUME NEW h \in Nat, NEW n \in TreesTo[h], n # Null
  PROVE  /\ n.point \in Points /\ n.division_axis \in Axes
         /\ n.TreeSize \in Nat /\ n.invalid_point_num \in Nat /\ n.down_del_num \in Nat
         /\ n.point_deleted \in BOOLEAN /\ n.tree_deleted \in BOOLEAN
         /\ n.point_downsample_deleted \in BOOLEAN /\ n.tree_downsample_deleted \in BOOLEAN
         /\ n.need_push_down_to_left \in BOOLEAN /\ n.need_push_down_to_right \in BOOLEAN
         /\ n.lo \in [Axes -> Int] /\ n.hi \in [Axes -> Int]
<1>1. h - 1 \in Nat /\ n \in NodesOver(TreesTo[h - 1])
  BY NodeIs
<1> QED
  BY <1>1, FieldsOf

Sons(n) == {n.left, n.right} \ {Null}
Dead(n) == n.point_deleted /\ \A s \in Sons(n) : s.tree_deleted
Corners(n) ==
  (IF n.point_deleted /\ ~Dead(n) THEN {} ELSE {n.point})
  \cup UNION {{s.lo, s.hi} : s \in {t \in Sons(n) : Dead(n) \/ ~t.tree_deleted}}
AllDown(n) == n.point_downsample_deleted /\ \A s \in Sons(n) : s.tree_downsample_deleted

\* Points have three integer coordinates.
LEMMA PointsAre ==
  Points \subseteq [Axes -> Int] /\ Queries \subseteq [Axes -> Int]
BY ConstantsAssumption

\* Update never takes the range of no corners.
LEMMA CornersAre ==
  ASSUME NEW h \in Nat, NEW n \in NodesOver(TreesTo[h])
  PROVE  Corners(n) \in SUBSET [Axes -> Int] /\ IsFiniteSet(Corners(n)) /\ Corners(n) # {}
<1>1. n.point \in [Axes -> Int] /\ n.left \in TreesTo[h] /\ n.right \in TreesTo[h]
  BY FieldsOf, PointsAre
<1>2. \A s \in Sons(n) : s \in TreesTo[h] /\ s # Null
  BY <1>1 DEF Sons
<1>3. \A s \in Sons(n) : s.lo \in [Axes -> Int] /\ s.hi \in [Axes -> Int] /\ s.tree_deleted \in BOOLEAN
  BY <1>2, FieldsIn
<1>4. Corners(n) \in SUBSET [Axes -> Int]
  BY <1>1, <1>3 DEF Corners
<1>5. IsFiniteSet(Corners(n))
  <2> DEFINE A == {n.point}
             B == A \cup {n.left.lo}
             C == B \cup {n.left.hi}
             D == C \cup {n.right.lo}
             E == D \cup {n.right.hi}
  <2>1. IsFiniteSet(A)
    BY FS_Singleton
  <2> HIDE DEF A
  <2>2. IsFiniteSet(B)
    BY <2>1, FS_AddElement
  <2> HIDE DEF B
  <2>3. IsFiniteSet(C)
    BY <2>2, FS_AddElement
  <2> HIDE DEF C
  <2>4. IsFiniteSet(D)
    BY <2>3, FS_AddElement
  <2> HIDE DEF D
  <2>5. IsFiniteSet(E)
    BY <2>4, FS_AddElement
  <2>6. Corners(n) \in SUBSET E
    BY DEF A, B, C, D, Corners, Sons
  <2> HIDE DEF E
  <2> QED
    BY <2>5, <2>6, FS_Subset
<1>6. Corners(n) # {}
  <2>1. CASE n.point_deleted /\ ~Dead(n)
    <3>1. PICK s \in Sons(n) : ~s.tree_deleted
      BY <2>1 DEF Dead
    <3>2. s.lo \in Corners(n)
      BY <3>1 DEF Corners
    <3> QED
      BY <3>2
  <2>2. CASE ~(n.point_deleted /\ ~Dead(n))
    <3>1. n.point \in Corners(n)
      BY <2>2 DEF Corners
    <3> QED
      BY <3>1
  <2> QED
    BY <2>1, <2>2
<1> QED
  BY <1>4, <1>5, <1>6

\* The sums Update reads of a son.
LEMMA SumsAre ==
  ASSUME NEW h \in Nat, NEW s \in TreesTo[h]
  PROVE  SizeOf(s) \in Nat /\ InvalidOf(s) \in Nat /\ DownDeletedOf(s) \in Nat
BY FieldsIn DEF SizeOf, InvalidOf, DownDeletedOf

\* What Update does to every field but the range and tree_downsample_deleted.
LEMMA UpdateIs ==
  ASSUME NEW h \in Nat, NEW n \in NodesOver(TreesTo[h])
  PROVE  /\ Update(n) \in NodesOver(TreesTo[h])
         /\ Update(n).point = n.point /\ Update(n).division_axis = n.division_axis
         /\ Update(n).left = n.left /\ Update(n).right = n.right
         /\ Update(n).point_deleted = n.point_deleted
         /\ Update(n).point_downsample_deleted = n.point_downsample_deleted
         /\ Update(n).need_push_down_to_left = n.need_push_down_to_left
         /\ Update(n).need_push_down_to_right = n.need_push_down_to_right
         /\ Update(n).TreeSize = SizeOf(n.left) + SizeOf(n.right) + 1
         /\ Update(n).invalid_point_num = InvalidOf(n.left) + InvalidOf(n.right) + Count(n.point_deleted)
         /\ Update(n).down_del_num
              = DownDeletedOf(n.left) + DownDeletedOf(n.right) + Count(n.point_downsample_deleted)
         /\ Update(n).tree_deleted = Dead(n)
         /\ Update(n).tree_downsample_deleted = AllDown(n)
         /\ \A x \in Axes : /\ Update(n).lo[x] = Min({c[x] : c \in Corners(n)})
                            /\ Update(n).hi[x] = Max({c[x] : c \in Corners(n)})
<1> DEFINE size == SizeOf(n.left) + SizeOf(n.right) + 1
           invalid == InvalidOf(n.left) + InvalidOf(n.right) + Count(n.point_deleted)
           down == DownDeletedOf(n.left) + DownDeletedOf(n.right) + Count(n.point_downsample_deleted)
           low == [x \in Axes |-> Min({c[x] : c \in Corners(n)})]
           high == [x \in Axes |-> Max({c[x] : c \in Corners(n)})]
<1>1. size \in Nat /\ invalid \in Nat /\ down \in Nat
  <2>1. n.left \in TreesTo[h] /\ n.right \in TreesTo[h]
    BY FieldsOf
  <2>2. /\ SizeOf(n.left) \in Nat /\ InvalidOf(n.left) \in Nat /\ DownDeletedOf(n.left) \in Nat
        /\ SizeOf(n.right) \in Nat /\ InvalidOf(n.right) \in Nat /\ DownDeletedOf(n.right) \in Nat
    BY <2>1, SumsAre
  <2>3. Count(n.point_deleted) \in Nat /\ Count(n.point_downsample_deleted) \in Nat
    BY DEF Count
  <2> QED
    BY <2>2, <2>3
<1>2. \A x \in Axes : /\ Min({c[x] : c \in Corners(n)}) \in Int
                      /\ Max({c[x] : c \in Corners(n)}) \in Int
  BY CornersAre, CornersOf
<1>3. low \in [Axes -> Int] /\ high \in [Axes -> Int]
  BY <1>2
<1>4. Dead(n) \in BOOLEAN /\ AllDown(n) \in BOOLEAN
  BY DEF Dead, AllDown
<1>5. Update(n) = [n EXCEPT !.TreeSize = size, !.invalid_point_num = invalid, !.down_del_num = down,
                            !.tree_downsample_deleted = AllDown(n), !.tree_deleted = Dead(n),
                            !.lo = low, !.hi = high]
  BY DEF Update, Dead, AllDown, Corners, Sons
<1>6. \A x \in Axes : low[x] = Min({c[x] : c \in Corners(n)}) /\ high[x] = Max({c[x] : c \in Corners(n)})
  OBVIOUS
<1> HIDE DEF size, invalid, down, low, high
<1>7. /\ Update(n) \in NodesOver(TreesTo[h])
      /\ Update(n).point = n.point /\ Update(n).division_axis = n.division_axis
      /\ Update(n).left = n.left /\ Update(n).right = n.right
      /\ Update(n).point_deleted = n.point_deleted
      /\ Update(n).point_downsample_deleted = n.point_downsample_deleted
      /\ Update(n).need_push_down_to_left = n.need_push_down_to_left
      /\ Update(n).need_push_down_to_right = n.need_push_down_to_right
      /\ Update(n).TreeSize = size /\ Update(n).invalid_point_num = invalid
      /\ Update(n).down_del_num = down
      /\ Update(n).tree_deleted = Dead(n) /\ Update(n).tree_downsample_deleted = AllDown(n)
      /\ Update(n).lo = low /\ Update(n).hi = high
  BY <1>1, <1>3, <1>4, <1>5 DEF NodesOver
<1> QED
  BY <1>6, <1>7 DEF size, invalid, down

-----------------------------------------------------------------------------
(* Recursion and induction over trees.                                     *)

\* What holds of Null, and of a node when of all lower trees, holds of every tree.
LEMMA TreeInduction ==
  ASSUME NEW m \in 0 .. MaxHeight, NEW S, Null \in S,
         \A h \in 0 .. m - 1 : TreesTo[h] \subseteq S => NodesOver(TreesTo[h]) \subseteq S
  PROVE  TreesTo[m] \subseteq S
<1> DEFINE K == {h \in 0 .. m : TreesTo[h] \subseteq S}
<1>1. m \in Nat
  BY HeightIs
<1>2. 0 \in K
  <2>1. TreesTo[0] = {Null}
    BY TreesToIs
  <2> QED
    BY <1>1, <2>1
<1>3. ASSUME NEW h \in 0 .. m - 1, h \in K PROVE h + 1 \in K
  <2>1. h + 1 \in 0 .. MaxHeight /\ h + 1 # 0 /\ (h + 1) - 1 = h /\ h + 1 \in 0 .. m
    BY <1>1, HeightIs
  <2>2. TreesTo[h + 1] = {Null} \cup NodesOver(TreesTo[h])
    BY <2>1, LevelIs
  <2> QED
    BY <1>3, <2>1, <2>2
<1>4. \A h \in 0 .. m : h \in K
  <2> HIDE DEF K
  <2> QED
    BY <1>1, <1>2, <1>3, Induction
<1> QED
  BY <1>1, <1>4

TreeFounded(m, W, V, z, G) ==
  /\ V \in [Nat -> SUBSET W] /\ z \in V[0]
  /\ \A k \in Nat : V[k] \subseteq V[k + 1]
  /\ \A k \in 0 .. m - 1 : \A n \in NodesOver(TreesTo[k]) : \A v, w \in V[k] :
       G[<<n, v, w>>] \in V[k + 1]

\* A function of a tree may be defined by its values at the two sons after Push_Down.
LEMMA TreeRecursion ==
  ASSUME NEW m \in 0 .. MaxHeight, NEW W, NEW V, NEW z, NEW G, TreeFounded(m, W, V, z, G)
  PROVE  \E f \in [TreesTo[m] -> W] :
           /\ \A n \in TreesTo[m] : f[n] = IF n = Null THEN z ELSE G[<<n, f[LeftSon(n)], f[RightSon(n)]>>]
           /\ \A k \in 0 .. m : \A n \in TreesTo[k] : f[n] \in V[k]
<1> DEFINE T == TreesTo[m]
           D == [k \in Nat |-> TreesTo[IF k <= m THEN k ELSE m]]
           B == [n \in T |-> z]
           L == [n \in T |-> LeftSon(n)]
           R == [n \in T |-> RightSon(n)]
<1> USE DEF TreeFounded
<1>1. m \in Nat /\ m <= MaxHeight /\ MaxHeight \in Nat
  BY HeightIs
<1>2. \A k \in 0 .. m : TreesTo[k] \subseteq T
  BY <1>1, TreesHigher
<1>3. D \in [Nat -> SUBSET T]
  <2>1. ASSUME NEW k \in Nat PROVE D[k] \subseteq T
    <3>1. (IF k <= m THEN k ELSE m) \in 0 .. m
      BY <1>1
    <3> QED
      BY <1>2, <3>1
  <2> HIDE DEF T
  <2> QED
    BY <2>1
<1>4. ASSUME NEW n \in T PROVE \E k \in Nat : n \in D[k]
  BY <1>1, <1>4
<1>5. ASSUME NEW k \in Nat PROVE D[k] \subseteq D[k + 1] /\ V[k] \subseteq V[k + 1]
  <2>1. CASE k + 1 <= m
    <3>1. D[k] = TreesTo[k] /\ D[k + 1] = TreesTo[k + 1]
      BY <1>1, <2>1
    <3> QED
      BY <3>1, TreesRise
  <2>2. CASE ~(k + 1 <= m)
    <3>1. D[k] = TreesTo[m] /\ D[k + 1] = TreesTo[m]
      BY <1>1, <2>2
    <3> QED
      BY <3>1
  <2> QED
    BY <2>1, <2>2
<1>6. D[0] = {Null}
  <2>1. D[0] = TreesTo[0]
    BY <1>1
  <2> QED
    BY <2>1, TreesToIs
<1>7. \A n \in D[0] : B[n] \in V[0]
  <2>1. Null \in T
    BY <1>1, TreesRise
  <2>2. B[Null] = z
    <3> HIDE DEF T
    <3> QED
      BY <2>1
  <2> HIDE DEF B, D
  <2> QED
    BY <1>6, <2>2
<1>8. ASSUME NEW k \in Nat, NEW n \in D[k + 1] \ D[k]
      PROVE  /\ k \in 0 .. m - 1 /\ n \in NodesOver(TreesTo[k]) /\ n \in T
             /\ L[n] \in D[k] /\ R[n] \in D[k]
  <2>1. k + 1 <= m
    <3>1. SUFFICES ASSUME ~(k + 1 <= m) PROVE FALSE
      OBVIOUS
    <3>2. D[k] = TreesTo[m] /\ D[k + 1] = TreesTo[m]
      BY <1>1, <3>1
    <3> QED
      BY <1>8, <3>2
  <2>2. k + 1 \in 0 .. MaxHeight /\ (k + 1) - 1 = k /\ k \in 0 .. m - 1 /\ k + 1 \in 0 .. m
    BY <1>1, <2>1
  <2>3. D[k] = TreesTo[k] /\ D[k + 1] = TreesTo[k + 1]
    BY <1>1, <2>1
  <2>4. n \in TreesTo[k + 1] /\ n # Null
    <3>1. Null \in TreesTo[k]
      BY TreesRise
    <3> HIDE DEF D
    <3> QED
      BY <2>3, <3>1
  <2>5. n \in NodesOver(TreesTo[k]) /\ LeftSon(n) \in TreesTo[k] /\ RightSon(n) \in TreesTo[k]
    BY <2>2, <2>4, PushTree
  <2>6. n \in T
    BY <1>2, <2>2, <2>4
  <2>7. L[n] = LeftSon(n) /\ R[n] = RightSon(n)
    <3> HIDE DEF T
    <3> QED
      BY <2>6
  <2> HIDE DEF L, R, D
  <2> QED
    BY <2>2, <2>3, <2>5, <2>6, <2>7
<1>9. \A k \in Nat : \A n \in D[k + 1] \ D[k] : \A v, w \in V[k] : G[<<n, v, w>>] \in V[k + 1]
  <2> HIDE DEF D, L, R, T
  <2> QED
    BY <1>8
<1>10. \E f \in [T -> W] :
         /\ \A n \in T : f[n] = IF n \in D[0] THEN B[n] ELSE G[<<n, f[L[n]], f[R[n]]>>]
         /\ \A k \in Nat : \A n \in D[k] : f[n] \in V[k]
  <2>1. \A k \in Nat : \A n \in D[k + 1] \ D[k] : L[n] \in D[k] /\ R[n] \in D[k]
    <3> HIDE DEF D, L, R, T
    <3> QED
      BY <1>8
  <2>2. \A k \in Nat : D[k] \subseteq D[k + 1] /\ V[k] \subseteq V[k + 1]
    <3> HIDE DEF D
    <3> QED
      BY <1>5
  <2>3. \A n \in T : \E k \in Nat : n \in D[k]
    <3> HIDE DEF D, T
    <3> QED
      BY <1>4
  <2> HIDE DEF D, L, R, T, B
  <2>4. Founded(T, W, D, V, B, L, R, G)
    BY <1>3, <1>7, <1>9, <2>1, <2>2, <2>3 DEF Founded
  <2> QED
    BY <2>4, Recursion
<1>11. PICK f \in [T -> W] :
         /\ \A n \in T : f[n] = IF n \in D[0] THEN B[n] ELSE G[<<n, f[L[n]], f[R[n]]>>]
         /\ \A k \in Nat : \A n \in D[k] : f[n] \in V[k]
  BY <1>10
<1>12. \A n \in T : f[n] = IF n = Null THEN z ELSE G[<<n, f[LeftSon(n)], f[RightSon(n)]>>]
  <2>1. \A n \in T : B[n] = z /\ L[n] = LeftSon(n) /\ R[n] = RightSon(n)
    <3> HIDE DEF T
    <3> QED
      OBVIOUS
  <2> HIDE DEF D, L, R, T, B
  <2> QED
    BY <1>6, <1>11, <2>1
<1>13. \A k \in 0 .. m : \A n \in TreesTo[k] : f[n] \in V[k]
  <2>1. \A k \in 0 .. m : k \in Nat /\ D[k] = TreesTo[k]
    BY <1>1
  <2> HIDE DEF D
  <2> QED
    BY <1>11, <2>1
<1> QED
  BY <1>12, <1>13

\* Two functions with the same recursion agree.
LEMMA SameOnTrees ==
  ASSUME NEW m \in 0 .. MaxHeight, NEW f, NEW g, f[Null] = g[Null],
         \A h \in 0 .. m - 1 : \A n \in NodesOver(TreesTo[h]) :
           f[LeftSon(n)] = g[LeftSon(n)] /\ f[RightSon(n)] = g[RightSon(n)] => f[n] = g[n]
  PROVE  \A n \in TreesTo[m] : f[n] = g[n]
<1> DEFINE S == {n \in TreesTo[m] : f[n] = g[n]}
<1>1. m \in Nat /\ m <= MaxHeight /\ MaxHeight \in Nat
  BY HeightIs
<1>2. Null \in S
  BY <1>1, TreesRise
<1>3. ASSUME NEW h \in 0 .. m - 1, TreesTo[h] \subseteq S, NEW n \in NodesOver(TreesTo[h]) PROVE n \in S
  <2>1. h \in 0 .. MaxHeight /\ h \in Nat /\ h + 1 \in Nat /\ h + 1 <= m
    BY <1>1
  <2>2. LeftSon(n) \in TreesTo[h] /\ RightSon(n) \in TreesTo[h]
    BY <2>1, PushOver DEF LeftSon, RightSon
  <2>3. f[n] = g[n]
    BY <1>3, <2>2
  <2>4. n \in TreesTo[h + 1] /\ TreesTo[h + 1] \subseteq TreesTo[m]
    BY <1>1, <2>1, NodeRise, TreesHigher
  <2> QED
    BY <2>3, <2>4
<1>4. TreesTo[m] \subseteq S
  <2> HIDE DEF S
  <2> QED
    BY <1>2, <1>3, TreeInduction
<1> QED
  BY <1>4

\* The number of nodes there is room for in a height.
Capacity == CHOOSE f \in [Nat -> Nat] : \A k \in Nat : f[k] = IF k = 0 THEN 0 ELSE 2 * f[k - 1] + 1

\* The number of nodes a tree of a height can have.
LEMMA CapacityIs ==
  /\ Capacity \in [Nat -> Nat]
  /\ \A k \in Nat : Capacity[k] = IF k = 0 THEN 0 ELSE 2 * Capacity[k - 1] + 1
<1> DEFINE D == [k \in Nat |-> 0 .. k]
           V == [k \in Nat |-> Nat]
           B == [k \in Nat |-> 0]
           L == [k \in Nat |-> IF k = 0 THEN 0 ELSE k - 1]
           G == [x \in Nat \X Nat \X Nat |-> 2 * x[2] + 1]
<1>1. /\ D \in [Nat -> SUBSET Nat] /\ V \in [Nat -> SUBSET Nat]
      /\ \A k \in Nat : D[k] \subseteq D[k + 1] /\ V[k] \subseteq V[k + 1]
      /\ \A x \in D[0] : B[x] \in V[0]
  OBVIOUS
<1>2. \A x \in Nat : x \in D[x]
  OBVIOUS
<1>3. \A k \in Nat : \A x \in D[k + 1] \ D[k] : L[x] \in D[k] /\ L[x] \in D[k]
  OBVIOUS
<1>4. ASSUME NEW k \in Nat, NEW x \in D[k + 1] \ D[k], NEW v \in V[k], NEW w \in V[k]
      PROVE  G[<<x, v, w>>] \in V[k + 1]
  <2>1. x \in Nat /\ v \in Nat /\ w \in Nat
    OBVIOUS
  <2>2. G[<<x, v, w>>] = 2 * v + 1
    BY <2>1
  <2>3. V[k + 1] = Nat
    OBVIOUS
  <2> HIDE DEF G, V
  <2> QED
    BY <2>1, <2>2, <2>3
<1>5. Founded(Nat, Nat, D, V, B, L, L, G)
  <2>1. \A k \in Nat : \A x \in D[k + 1] \ D[k] : \A v, w \in V[k] : G[<<x, v, w>>] \in V[k + 1]
    <3> HIDE DEF D, V, B, L, G
    <3> QED
      BY <1>4, Zenon
  <2>2. \A x \in Nat : \E k \in Nat : x \in D[k]
    <3> HIDE DEF D
    <3> QED
      BY <1>2
  <2> HIDE DEF D, V, B, L, G
  <2> QED
    BY <1>1, <1>3, <2>1, <2>2 DEF Founded
<1>6. PICK f \in [Nat -> Nat] :
        \A x \in Nat : f[x] = IF x \in D[0] THEN B[x] ELSE G[<<x, f[L[x]], f[L[x]]>>]
  <2> DEFINE N == Nat
  <2>1. Founded(N, N, D, V, B, L, L, G)
    BY <1>5
  <2> HIDE DEF D, V, B, L, G, N
  <2>2. PICK f \in [N -> N] :
          \A x \in N : f[x] = IF x \in D[0] THEN B[x] ELSE G[<<x, f[L[x]], f[L[x]]>>]
    BY <2>1, Recursion
  <2>3. N = Nat
    BY DEF N
  <2> QED
    BY <2>2, <2>3
<1>7. ASSUME NEW k \in Nat PROVE f[k] = IF k = 0 THEN 0 ELSE 2 * f[k - 1] + 1
  <2>1. k \in D[0] <=> k = 0
    OBVIOUS
  <2>2. CASE k = 0
    BY <1>6, <2>1, <2>2
  <2>3. CASE k # 0
    <3>1. L[k] = k - 1 /\ k - 1 \in Nat /\ f[k - 1] \in Nat
      BY <2>3
    <3>2. f[k] = G[<<k, f[k - 1], f[k - 1]>>]
      BY <1>6, <2>1, <2>3, <3>1
    <3>3. G[<<k, f[k - 1], f[k - 1]>>] = 2 * f[k - 1] + 1
      BY <3>1
    <3> QED
      BY <2>3, <3>2, <3>3
  <2> QED
    BY <2>2, <2>3
<1> HIDE DEF D, V, B, L, G
<1>8. \E c \in [Nat -> Nat] : \A k \in Nat : c[k] = IF k = 0 THEN 0 ELSE 2 * c[k - 1] + 1
  BY <1>6, <1>7
<1> QED
  BY <1>8 DEF Capacity

\* A higher tree can have more.
LEMMA CapacityRises ==
  ASSUME NEW k \in Nat
  PROVE  /\ Capacity[0] = 0 /\ Capacity[k] \in Nat /\ Capacity[k + 1] = 2 * Capacity[k] + 1
         /\ Capacity[k] <= Capacity[k + 1]
<1>1. k + 1 \in Nat /\ k + 1 # 0 /\ (k + 1) - 1 = k
  OBVIOUS
<1>2. Capacity[k + 1] = 2 * Capacity[k] + 1 /\ Capacity[k] \in Nat
  BY <1>1, CapacityIs
<1> QED
  BY <1>2, CapacityIs

-----------------------------------------------------------------------------
(* flatten.                                                                *)

Own(n) == IF n.point_deleted THEN <<>> ELSE <<n.point>>

FlattenFrom(f) ==
  f = [n \in Trees |-> IF n = Null THEN <<>>
                       ELSE LET r == Push_Down(n)
                            IN  (IF r.point_deleted THEN <<>> ELSE <<r.point>>) \o f[r.left] \o f[r.right]]

\* flatten, by the node a walk comes to.
LEMMA FlattenValue ==
  ASSUME NEW f, FlattenFrom(f)
  PROVE  \A n \in Trees : f[n] = IF n = Null THEN <<>>
                                 ELSE Own(Push_Down(n)) \o f[LeftSon(n)] \o f[RightSon(n)]
BY DEF FlattenFrom, Own, LeftSon, RightSon

Lists(k) == {s \in Seq(Points) : Len(s) <= Capacity[k]}

\* A node's own point, listed unless it is deleted.
LEMMA OwnIs ==
  ASSUME NEW X, NEW n \in NodesOver(X), NEW r \in NodesOver(X)
  PROVE  Own(r) \in Seq(Points) /\ Len(Own(r)) = Count(~r.point_deleted) /\ Len(Own(r)) <= 1
<1>1. r.point \in Points
  BY FieldsOf
<1> QED
  BY <1>1 DEF Own, Count

\* The lengths of three lists add up.
LEMMA ConcatThree ==
  ASSUME NEW X, NEW r \in Seq(X), NEW s \in Seq(X), NEW t \in Seq(X)
  PROVE  r \o s \o t \in Seq(X) /\ Len(r \o s \o t) = Len(r) + Len(s) + Len(t)
<1>1. r \o s \in Seq(X) /\ Len(r \o s) = Len(r) + Len(s)
  BY ConcatProperties
<1> QED
  BY <1>1, ConcatProperties

\* flatten is defined on every tree and lists points.
LEMMA FlattenExists ==
  \E f \in [Trees -> Seq(Points)] :
    /\ FlattenFrom(f)
    /\ \A k \in 0 .. MaxHeight : \A n \in TreesTo[k] : f[n] \in Lists(k)
<1> DEFINE W == Seq(Points)
           V == [k \in Nat |-> Lists(k)]
           G == [x \in Trees \X W \X W |-> Own(Push_Down(x[1])) \o x[2] \o x[3]]
<1>1. V \in [Nat -> SUBSET W]
  BY DEF Lists
<1>2. \A k \in Nat : V[k] \subseteq V[k + 1]
  <2> SUFFICES ASSUME NEW k \in Nat, NEW s \in Lists(k) PROVE s \in Lists(k + 1)
    OBVIOUS
  <2>1. Capacity[k] \in Nat /\ Capacity[k + 1] \in Nat /\ Capacity[k] <= Capacity[k + 1]
    BY CapacityRises
  <2>2. Len(s) \in Nat
    BY LenProperties DEF Lists
  <2> QED
    BY <2>1, <2>2 DEF Lists
<1>3. <<>> \in V[0]
  <2>1. <<>> \in Lists(0)
    BY EmptySeq, CapacityRises DEF Lists
  <2> QED
    BY <2>1
<1>4. MaxHeight \in 0 .. MaxHeight /\ MaxHeight \in Nat
  BY HeightIs
<1>5. ASSUME NEW k \in 0 .. MaxHeight - 1, NEW n \in NodesOver(TreesTo[k]), NEW v \in V[k], NEW w \in V[k]
      PROVE  G[<<n, v, w>>] \in V[k + 1]
  <2>1. k \in Nat /\ k \in 0 .. MaxHeight /\ k + 1 \in 0 .. MaxHeight /\ k + 1 \in Nat
    BY <1>4
  <2>2. n \in Trees
    <3>1. n \in TreesTo[k + 1]
      BY <2>1, NodeRise
    <3> QED
      BY <2>1, <3>1, HeightIs
  <2>3. v \in Lists(k) /\ w \in Lists(k) /\ v \in W /\ w \in W
    BY <2>1 DEF Lists
  <2>4. Own(Push_Down(n)) \in W /\ Len(Own(Push_Down(n))) <= 1 /\ Len(Own(Push_Down(n))) \in Nat
    <3>1. Push_Down(n) \in NodesOver(TreesTo[k])
      BY <2>1, PushOver
    <3> QED
      BY <3>1, OwnIs, LenProperties
  <2>5. G[<<n, v, w>>] = Own(Push_Down(n)) \o v \o w
    BY <2>2, <2>3
  <2>6. /\ Own(Push_Down(n)) \o v \o w \in W
        /\ Len(Own(Push_Down(n)) \o v \o w) = Len(Own(Push_Down(n))) + Len(v) + Len(w)
    BY <2>3, <2>4, ConcatThree
  <2>7. Capacity[k + 1] = 2 * Capacity[k] + 1 /\ Capacity[k] \in Nat
    BY <2>1, CapacityRises
  <2>8. Len(v) \in Nat /\ Len(w) \in Nat /\ Len(v) <= Capacity[k] /\ Len(w) <= Capacity[k]
    BY <2>3, LenProperties DEF Lists
  <2>9. Own(Push_Down(n)) \o v \o w \in Lists(k + 1)
    BY <2>4, <2>6, <2>7, <2>8 DEF Lists
  <2>10. V[k + 1] = Lists(k + 1)
    BY <2>1
  <2> HIDE DEF V, G
  <2> QED
    BY <2>5, <2>9, <2>10
<1>6. PICK f \in [Trees -> W] :
        /\ \A n \in Trees : f[n] = IF n = Null THEN <<>> ELSE G[<<n, f[LeftSon(n)], f[RightSon(n)]>>]
        /\ \A k \in 0 .. MaxHeight : \A n \in TreesTo[k] : f[n] \in V[k]
  <2> HIDE DEF V, G, W
  <2>1. \E f \in [TreesTo[MaxHeight] -> W] :
          /\ \A n \in TreesTo[MaxHeight] :
               f[n] = IF n = Null THEN <<>> ELSE G[<<n, f[LeftSon(n)], f[RightSon(n)]>>]
          /\ \A k \in 0 .. MaxHeight : \A n \in TreesTo[k] : f[n] \in V[k]
    <3>1. TreeFounded(MaxHeight, W, V, <<>>, G)
      BY <1>1, <1>2, <1>3, <1>5 DEF TreeFounded
    <3> QED
      BY <1>4, <3>1, TreeRecursion
  <2> QED
    BY <2>1 DEF Trees
<1>7. ASSUME NEW n \in Trees
      PROVE  f[n] = IF n = Null THEN <<>>
                    ELSE LET r == Push_Down(n)
                         IN  (IF r.point_deleted THEN <<>> ELSE <<r.point>>) \o f[r.left] \o f[r.right]
  <2>1. CASE n = Null
    BY <1>6, <2>1
  <2>2. CASE n # Null
    <3>1. LeftSon(n) \in Trees /\ RightSon(n) \in Trees
      <4>1. /\ MaxHeight - 1 \in 0 .. MaxHeight
            /\ LeftSon(n) \in TreesTo[MaxHeight - 1] /\ RightSon(n) \in TreesTo[MaxHeight - 1]
        BY <1>4, <2>2, PushTree DEF Trees
      <4> QED
        BY <4>1, HeightIs
    <3>2. f[LeftSon(n)] \in W /\ f[RightSon(n)] \in W
      BY <3>1
    <3>3. G[<<n, f[LeftSon(n)], f[RightSon(n)]>>] = Own(Push_Down(n)) \o f[LeftSon(n)] \o f[RightSon(n)]
      BY <3>2
    <3> HIDE DEF G, W
    <3> QED
      BY <1>6, <2>2, <3>3 DEF LeftSon, RightSon, Own
  <2> QED
    BY <2>1, <2>2
<1>8. FlattenFrom(f)
  BY <1>7 DEF FlattenFrom
<1>9. \A k \in 0 .. MaxHeight : \A n \in TreesTo[k] : f[n] \in Lists(k)
  BY <1>4, <1>6
<1> QED
  BY <1>8, <1>9

\* What flatten returns of a tree, by its father and its sons.
LEMMA FlattenIs ==
  /\ flatten[Null] = <<>>
  /\ \A n \in Trees : flatten[n] \in Seq(Points)
  /\ \A n \in Trees \ {Null} :
       flatten[n] = Own(Push_Down(n)) \o flatten[LeftSon(n)] \o flatten[RightSon(n)]
  /\ \A k \in 0 .. MaxHeight : \A n \in TreesTo[k] : flatten[n] \in Lists(k)
<1>1. PICK f \in [Trees -> Seq(Points)] :
        /\ FlattenFrom(f)
        /\ \A k \in 0 .. MaxHeight : \A n \in TreesTo[k] : f[n] \in Lists(k)
  BY FlattenExists
<1>2. flatten = CHOOSE g : FlattenFrom(g)
  BY DEF flatten, FlattenFrom
<1>3. FlattenFrom(flatten)
  BY <1>1, <1>2
<1>4. MaxHeight \in 0 .. MaxHeight /\ Null \in Trees
  BY HeightIs
<1>5. \A n \in Trees : flatten[n] = IF n = Null THEN <<>>
                                    ELSE Own(Push_Down(n)) \o flatten[LeftSon(n)] \o flatten[RightSon(n)]
  BY <1>3, FlattenValue
<1>6. \A n \in Trees : f[n] = IF n = Null THEN <<>>
                              ELSE Own(Push_Down(n)) \o f[LeftSon(n)] \o f[RightSon(n)]
  BY <1>1, FlattenValue
<1>7. ASSUME NEW h \in 0 .. MaxHeight - 1, NEW n \in NodesOver(TreesTo[h]),
             flatten[LeftSon(n)] = f[LeftSon(n)], flatten[RightSon(n)] = f[RightSon(n)]
      PROVE  flatten[n] = f[n]
  <2>1. h \in Nat /\ h + 1 \in 0 .. MaxHeight
    BY HeightIs
  <2>2. n \in Trees
    <3>1. n \in TreesTo[h + 1]
      BY <2>1, NodeRise
    <3> QED
      BY <2>1, <3>1, HeightIs
  <2> QED
    BY <1>5, <1>6, <1>7, <2>2
<1>8. \A n \in Trees : flatten[n] = f[n]
  <2>1. flatten[Null] = f[Null]
    BY <1>4, <1>5, <1>6
  <2>2. \A h \in 0 .. MaxHeight - 1 : \A n \in NodesOver(TreesTo[h]) :
          flatten[LeftSon(n)] = f[LeftSon(n)] /\ flatten[RightSon(n)] = f[RightSon(n)]
            => flatten[n] = f[n]
    BY <1>7
  <2>3. \A n \in TreesTo[MaxHeight] : flatten[n] = f[n]
    BY <1>4, <2>1, <2>2, SameOnTrees
  <2> QED
    BY <2>3 DEF Trees
<1>9. \A k \in 0 .. MaxHeight : \A n \in TreesTo[k] : n \in Trees
  BY HeightIs
<1> QED
  BY <1>1, <1>4, <1>5, <1>8, <1>9

\* A walk from a tree comes to trees.
LEMMA SonsInTrees ==
  ASSUME NEW n \in Trees, n # Null
  PROVE  /\ LeftSon(n) \in Trees /\ RightSon(n) \in Trees /\ Push_Down(n) \in Trees
         /\ Push_Down(n) # Null
<1>1. MaxHeight \in 0 .. MaxHeight
  BY HeightIs
<1>2. /\ MaxHeight - 1 \in 0 .. MaxHeight /\ Push_Down(n) # Null /\ Push_Down(n) \in TreesTo[MaxHeight]
      /\ LeftSon(n) \in TreesTo[MaxHeight - 1] /\ RightSon(n) \in TreesTo[MaxHeight - 1]
  BY <1>1, PushTree DEF Trees
<1> QED
  BY <1>2, HeightIs DEF Trees

\* And to lower ones.
LEMMA NodeInTrees ==
  ASSUME NEW k \in 0 .. MaxHeight - 1, NEW n \in NodesOver(TreesTo[k])
  PROVE  /\ k \in Nat /\ k \in 0 .. MaxHeight /\ k + 1 \in 0 .. MaxHeight
         /\ n \in TreesTo[k + 1] /\ n \in Trees /\ n # Null
         /\ Push_Down(n) \in NodesOver(TreesTo[k]) /\ Push_Down(n) \in Trees
         /\ LeftSon(n) \in TreesTo[k] /\ RightSon(n) \in TreesTo[k]
<1>1. k \in Nat /\ k \in 0 .. MaxHeight /\ k + 1 \in 0 .. MaxHeight
  BY HeightIs
<1>2. n \in TreesTo[k + 1] /\ Null \notin NodesOver(TreesTo[k])
  BY <1>1, NodeRise, HeightIs
<1>3. /\ Push_Down(n) \in NodesOver(TreesTo[k])
      /\ LeftSon(n) \in TreesTo[k] /\ RightSon(n) \in TreesTo[k]
  BY <1>1, PushOver DEF LeftSon, RightSon
<1>4. Push_Down(n) \in TreesTo[k + 1]
  BY <1>1, <1>3, NodeRise
<1>5. TreesTo[k + 1] \subseteq Trees
  BY <1>1, HeightIs
<1>6. n # Null
  BY <1>2
<1> QED
  BY <1>1, <1>2, <1>3, <1>4, <1>5, <1>6

AllTrees == UNION {TreesTo[k] : k \in Nat}

\* The trees of any height, which BuildTree ranges over.
LEMMA AllTreesIs ==
  /\ TreesTo \in [Nat -> SUBSET AllTrees]
  /\ \A k \in Nat : TreesTo[k] \subseteq TreesTo[k + 1]
  /\ \A k \in Nat : TreesTo[k] \subseteq AllTrees
<1>1. \A k \in Nat : TreesTo[k] \subseteq AllTrees
  BY DEF AllTrees
<1>2. TreesTo = [k \in Nat |-> TreesTo[k]]
  <2> DEFINE f == [k \in Nat |-> TreesTo[k]]
  <2>1. ASSUME NEW k \in Nat
        PROVE  f[k] = IF k = 0 THEN {Null} ELSE {Null} \cup NodesOver(f[k - 1])
    <3>1. k # 0 => k - 1 \in Nat
      OBVIOUS
    <3>2. k # 0 => f[k - 1] = TreesTo[k - 1]
      BY <3>1
    <3> QED
      BY <3>2, TreesToIs
  <2>2. f = [k \in Nat |-> f[k]]
    OBVIOUS
  <2>3. TreesFrom(f)
    <3> HIDE DEF f
    <3> QED
      BY <2>1, <2>2 DEF TreesFrom
  <2>4. TreesTo = CHOOSE g : TreesFrom(g)
    BY DEF TreesTo, TreesFrom
  <2>5. TreesFrom(TreesTo)
    <3> HIDE DEF f
    <3> QED
      BY <2>3, <2>4
  <2> QED
    BY <2>5 DEF TreesFrom
<1>3. \A k \in Nat : TreesTo[k] \in SUBSET AllTrees
  BY <1>1
<1>4. TreesTo \in [Nat -> SUBSET AllTrees]
  BY <1>2, <1>3, Zenon
<1> QED
  BY <1>1, <1>4, TreesRise

-----------------------------------------------------------------------------
(* PushedDown.                                                             *)

PushedDownFrom(f) ==
  f = [n \in Trees |-> IF n = Null THEN Null
                       ELSE LET r == Push_Down(n)
                            IN  [r EXCEPT !.left = f[@], !.right = f[@]]]

PushedNode(n, l, r) == [Push_Down(n) EXCEPT !.left = l, !.right = r]

\* PushedDown, by the node a walk comes to.
LEMMA PushedDownValue ==
  ASSUME NEW f, PushedDownFrom(f)
  PROVE  \A n \in Trees : f[n] = IF n = Null THEN Null ELSE PushedNode(n, f[LeftSon(n)], f[RightSon(n)])
<1> SUFFICES ASSUME NEW n \in Trees, n # Null
             PROVE  f[n] = PushedNode(n, f[LeftSon(n)], f[RightSon(n)])
  BY DEF PushedDownFrom
<1>1. f[n] = LET r == Push_Down(n) IN [r EXCEPT !.left = f[@], !.right = f[@]]
  BY DEF PushedDownFrom
<1> QED
  BY <1>1 DEF PushedNode, LeftSon, RightSon

\* A node given other sons after Push_Down.
LEMMA PushedNodeIs ==
  ASSUME NEW X, NEW n, NEW l \in X, NEW r \in X, NEW Y, Push_Down(n) \in NodesOver(Y)
  PROVE  /\ PushedNode(n, l, r) \in NodesOver(X)
         /\ PushedNode(n, l, r).left = l /\ PushedNode(n, l, r).right = r
BY DEF PushedNode, NodesOver

\* PushedDown is defined on every tree and keeps its height.
LEMMA PushedDownIs ==
  /\ PushedDown[Null] = Null
  /\ \A n \in Trees \ {Null} :
       PushedDown[n] = PushedNode(n, PushedDown[LeftSon(n)], PushedDown[RightSon(n)])
  /\ \A k \in 0 .. MaxHeight : \A n \in TreesTo[k] : PushedDown[n] \in TreesTo[k]
<1> DEFINE G == [x \in Trees \X AllTrees \X AllTrees |-> PushedNode(x[1], x[2], x[3])]
<1>1. MaxHeight \in 0 .. MaxHeight /\ MaxHeight \in Nat /\ Null \in Trees
  BY HeightIs
<1>2. ASSUME NEW k \in 0 .. MaxHeight - 1, NEW n \in NodesOver(TreesTo[k]),
             NEW v \in TreesTo[k], NEW w \in TreesTo[k]
      PROVE  /\ G[<<n, v, w>>] = PushedNode(n, v, w) /\ G[<<n, v, w>>] \in TreesTo[k + 1]
             /\ n \in Trees \ {Null} /\ LeftSon(n) \in TreesTo[k] /\ RightSon(n) \in TreesTo[k]
  <2>1. /\ k \in Nat /\ n \in Trees /\ n # Null /\ Push_Down(n) \in NodesOver(TreesTo[k])
        /\ LeftSon(n) \in TreesTo[k] /\ RightSon(n) \in TreesTo[k]
    BY NodeInTrees
  <2>2. v \in AllTrees /\ w \in AllTrees
    BY <2>1, AllTreesIs
  <2>3. PushedNode(n, v, w) \in NodesOver(TreesTo[k])
    BY <2>1, PushedNodeIs
  <2>4. PushedNode(n, v, w) \in TreesTo[k + 1]
    BY <2>1, <2>3, NodeRise
  <2> QED
    BY <2>1, <2>2, <2>4
<1>3. PICK f \in [Trees -> AllTrees] :
        /\ \A n \in Trees : f[n] = IF n = Null THEN Null ELSE G[<<n, f[LeftSon(n)], f[RightSon(n)]>>]
        /\ \A k \in 0 .. MaxHeight : \A n \in TreesTo[k] : f[n] \in TreesTo[k]
  <2> HIDE DEF G
  <2>1. Null \in TreesTo[0]
    BY TreesRise
  <2>2. \A k \in 0 .. MaxHeight - 1 : \A n \in NodesOver(TreesTo[k]) : \A v, w \in TreesTo[k] :
          G[<<n, v, w>>] \in TreesTo[k + 1]
    BY <1>2
  <2>3. TreeFounded(MaxHeight, AllTrees, TreesTo, Null, G)
    BY <2>1, <2>2, AllTreesIs DEF TreeFounded
  <2>4. \E f \in [TreesTo[MaxHeight] -> AllTrees] :
          /\ \A n \in TreesTo[MaxHeight] :
               f[n] = IF n = Null THEN Null ELSE G[<<n, f[LeftSon(n)], f[RightSon(n)]>>]
          /\ \A k \in 0 .. MaxHeight : \A n \in TreesTo[k] : f[n] \in TreesTo[k]
    BY <1>1, <2>3, TreeRecursion
  <2> QED
    BY <2>4 DEF Trees
<1>4. ASSUME NEW n \in Trees, n # Null
      PROVE  f[n] = PushedNode(n, f[LeftSon(n)], f[RightSon(n)])
  <2>1. f[LeftSon(n)] \in AllTrees /\ f[RightSon(n)] \in AllTrees
    BY <1>4, SonsInTrees
  <2>2. G[<<n, f[LeftSon(n)], f[RightSon(n)]>>] = PushedNode(n, f[LeftSon(n)], f[RightSon(n)])
    BY <2>1
  <2> HIDE DEF G
  <2> QED
    BY <1>3, <1>4, <2>2
<1>5. PushedDownFrom(f)
  <2>1. ASSUME NEW n \in Trees
        PROVE  f[n] = IF n = Null THEN Null
                      ELSE LET r == Push_Down(n)
                           IN  [r EXCEPT !.left = f[@], !.right = f[@]]
    BY <1>3, <1>4 DEF PushedNode, LeftSon, RightSon
  <2> QED
    BY <2>1 DEF PushedDownFrom
<1>6. PushedDownFrom(PushedDown)
  <2>1. PushedDown = CHOOSE g : PushedDownFrom(g)
    BY DEF PushedDown, PushedDownFrom
  <2> QED
    BY <1>5, <2>1
<1>7. \A n \in Trees : PushedDown[n] = IF n = Null THEN Null
                         ELSE PushedNode(n, PushedDown[LeftSon(n)], PushedDown[RightSon(n)])
  BY <1>6, PushedDownValue
<1>8. \A h \in 0 .. MaxHeight - 1 : \A n \in NodesOver(TreesTo[h]) :
        PushedDown[LeftSon(n)] = f[LeftSon(n)] /\ PushedDown[RightSon(n)] = f[RightSon(n)]
          => PushedDown[n] = f[n]
  <2> SUFFICES ASSUME NEW h \in 0 .. MaxHeight - 1, NEW n \in NodesOver(TreesTo[h]),
                      PushedDown[LeftSon(n)] = f[LeftSon(n)], PushedDown[RightSon(n)] = f[RightSon(n)]
               PROVE  PushedDown[n] = f[n]
    OBVIOUS
  <2>1. n \in Trees /\ n # Null
    BY NodeInTrees
  <2> QED
    BY <1>4, <1>7, <2>1
<1>9. PushedDown[Null] = f[Null] /\ f[Null] = Null
  BY <1>1, <1>3, <1>7
<1>10. \A n \in Trees : PushedDown[n] = f[n]
  <2>1. \A n \in TreesTo[MaxHeight] : PushedDown[n] = f[n]
    BY <1>1, <1>8, <1>9, SameOnTrees
  <2> QED
    BY <2>1 DEF Trees
<1>11. \A k \in 0 .. MaxHeight : \A n \in TreesTo[k] : n \in Trees
  BY HeightIs
<1> QED
  BY <1>3, <1>7, <1>9, <1>10, <1>11

-----------------------------------------------------------------------------
(* Nodes and their number.                                                 *)

NodesFrom(f) ==
  f = [n \in Trees |-> IF n = Null THEN {}
                       ELSE LET r == Push_Down(n) IN {r} \cup f[r.left] \cup f[r.right]]

\* The nodes of a tree, by its root.
LEMMA NodesAre ==
  /\ Nodes[Null] = {}
  /\ \A n \in Trees \ {Null} : Nodes[n] = {Push_Down(n)} \cup Nodes[LeftSon(n)] \cup Nodes[RightSon(n)]
<1> DEFINE W == SUBSET Trees
           V == [k \in Nat |-> W]
           G == [x \in Trees \X W \X W |-> {Push_Down(x[1])} \cup x[2] \cup x[3]]
<1>1. MaxHeight \in 0 .. MaxHeight /\ Null \in Trees
  BY HeightIs
<1>2. ASSUME NEW n \in Trees, n # Null, NEW v \in W, NEW w \in W
      PROVE  G[<<n, v, w>>] = {Push_Down(n)} \cup v \cup w /\ G[<<n, v, w>>] \in W
  <2>1. G[<<n, v, w>>] = {Push_Down(n)} \cup v \cup w
    OBVIOUS
  <2>2. Push_Down(n) \in Trees
    BY <1>2, SonsInTrees
  <2> HIDE DEF G
  <2> QED
    BY <2>1, <2>2
<1>3. PICK f \in [Trees -> W] :
        \A n \in Trees : f[n] = IF n = Null THEN {} ELSE G[<<n, f[LeftSon(n)], f[RightSon(n)]>>]
  <2>1. \A k \in 0 .. MaxHeight - 1 : \A n \in NodesOver(TreesTo[k]) : \A v, w \in V[k] :
          G[<<n, v, w>>] \in V[k + 1]
    <3> SUFFICES ASSUME NEW k \in 0 .. MaxHeight - 1, NEW n \in NodesOver(TreesTo[k]),
                        NEW v \in V[k], NEW w \in V[k]
                 PROVE  G[<<n, v, w>>] \in V[k + 1]
      OBVIOUS
    <3>1. n \in Trees /\ n # Null /\ k \in Nat /\ k + 1 \in Nat
      BY NodeInTrees
    <3>2. V[k + 1] = W /\ v \in W /\ w \in W
      BY <3>1
    <3> HIDE DEF G, V, W
    <3>3. G[<<n, v, w>>] \in W
      BY <1>2, <3>1, <3>2
    <3> QED
      BY <3>2, <3>3
  <2>2. V \in [Nat -> SUBSET W] /\ {} \in V[0] /\ \A k \in Nat : V[k] \subseteq V[k + 1]
    OBVIOUS
  <2> HIDE DEF V, G, W
  <2>3. TreeFounded(MaxHeight, W, V, {}, G)
    BY <2>1, <2>2 DEF TreeFounded
  <2>4. \E f \in [TreesTo[MaxHeight] -> W] :
          \A n \in TreesTo[MaxHeight] :
            f[n] = IF n = Null THEN {} ELSE G[<<n, f[LeftSon(n)], f[RightSon(n)]>>]
    BY <1>1, <2>3, TreeRecursion
  <2> QED
    BY <2>4 DEF Trees
<1>4. ASSUME NEW n \in Trees
      PROVE  f[n] = IF n = Null THEN {}
                    ELSE LET r == Push_Down(n) IN {r} \cup f[r.left] \cup f[r.right]
  <2>1. CASE n # Null
    <3>1. f[LeftSon(n)] \in W /\ f[RightSon(n)] \in W
      BY <2>1, SonsInTrees
    <3>2. f[n] = {Push_Down(n)} \cup f[LeftSon(n)] \cup f[RightSon(n)]
      <4>1. f[n] = G[<<n, f[LeftSon(n)], f[RightSon(n)]>>]
        BY <1>3, <2>1, Zenon
      <4>2. G[<<n, f[LeftSon(n)], f[RightSon(n)]>>]
              = {Push_Down(n)} \cup f[LeftSon(n)] \cup f[RightSon(n)]
        <5> DEFINE v == f[LeftSon(n)]
                   w == f[RightSon(n)]
        <5>1. v \in W /\ w \in W
          BY <3>1
        <5> HIDE DEF v, w
        <5>2. G[<<n, v, w>>] = {Push_Down(n)} \cup v \cup w
          BY <5>1
        <5> QED
          BY <5>2 DEF v, w
      <4> QED
        BY <4>1, <4>2, Zenon
    <3> QED
      BY <2>1, <3>2 DEF LeftSon, RightSon
  <2> QED
    BY <1>3, <2>1
<1>5. NodesFrom(f)
  BY <1>4 DEF NodesFrom
<1>6. NodesFrom(Nodes)
  <2>1. Nodes = CHOOSE g : NodesFrom(g)
    BY DEF Nodes, NodesFrom
  <2> QED
    BY <1>5, <2>1
<1> QED
  BY <1>1, <1>6 DEF NodesFrom, LeftSon, RightSon

TrueSizeFrom(f) ==
  f = [n \in Trees |-> IF n = Null THEN 0 ELSE LET r == Push_Down(n) IN 1 + f[r.left] + f[r.right]]

\* Their number, by its root.
LEMMA TrueSizeIs ==
  /\ TrueSize[Null] = 0
  /\ \A n \in Trees \ {Null} : TrueSize[n] = 1 + TrueSize[LeftSon(n)] + TrueSize[RightSon(n)]
<1> DEFINE W == Nat
           V == [k \in Nat |-> W]
           G == [x \in Trees \X W \X W |-> 1 + x[2] + x[3]]
<1>1. MaxHeight \in 0 .. MaxHeight /\ Null \in Trees
  BY HeightIs
<1>2. ASSUME NEW n \in Trees, NEW v \in W, NEW w \in W
      PROVE  G[<<n, v, w>>] = 1 + v + w /\ G[<<n, v, w>>] \in W
  OBVIOUS
<1>3. PICK f \in [Trees -> W] :
        \A n \in Trees : f[n] = IF n = Null THEN 0 ELSE G[<<n, f[LeftSon(n)], f[RightSon(n)]>>]
  <2>1. \A k \in 0 .. MaxHeight - 1 : \A n \in NodesOver(TreesTo[k]) : \A v, w \in V[k] :
          G[<<n, v, w>>] \in V[k + 1]
    <3> SUFFICES ASSUME NEW k \in 0 .. MaxHeight - 1, NEW n \in NodesOver(TreesTo[k]),
                        NEW v \in V[k], NEW w \in V[k]
                 PROVE  G[<<n, v, w>>] \in V[k + 1]
      OBVIOUS
    <3>1. n \in Trees /\ k \in Nat /\ k + 1 \in Nat
      BY NodeInTrees
    <3>2. V[k + 1] = W /\ v \in W /\ w \in W
      BY <3>1
    <3> HIDE DEF G, V, W
    <3>3. G[<<n, v, w>>] \in W
      BY <1>2, <3>1, <3>2
    <3> QED
      BY <3>2, <3>3
  <2>2. V \in [Nat -> SUBSET W] /\ 0 \in V[0] /\ \A k \in Nat : V[k] \subseteq V[k + 1]
    OBVIOUS
  <2> HIDE DEF V, G, W
  <2>3. TreeFounded(MaxHeight, W, V, 0, G)
    BY <2>1, <2>2 DEF TreeFounded
  <2>4. \E f \in [TreesTo[MaxHeight] -> W] :
          \A n \in TreesTo[MaxHeight] :
            f[n] = IF n = Null THEN 0 ELSE G[<<n, f[LeftSon(n)], f[RightSon(n)]>>]
    BY <1>1, <2>3, TreeRecursion
  <2> QED
    BY <2>4 DEF Trees
<1>4. ASSUME NEW n \in Trees
      PROVE  f[n] = IF n = Null THEN 0 ELSE LET r == Push_Down(n) IN 1 + f[r.left] + f[r.right]
  <2>1. CASE n # Null
    <3>1. f[LeftSon(n)] \in W /\ f[RightSon(n)] \in W
      BY <2>1, SonsInTrees
    <3>2. f[n] = 1 + f[LeftSon(n)] + f[RightSon(n)]
      <4> HIDE DEF G, W
      <4> QED
        BY <1>2, <1>3, <2>1, <3>1
    <3> QED
      BY <2>1, <3>2 DEF LeftSon, RightSon
  <2> QED
    BY <1>3, <2>1
<1>5. TrueSizeFrom(f)
  BY <1>4 DEF TrueSizeFrom
<1>6. TrueSizeFrom(TrueSize)
  <2>1. TrueSize = CHOOSE g : TrueSizeFrom(g)
    BY DEF TrueSize, TrueSizeFrom
  <2> QED
    BY <1>5, <2>1
<1> QED
  BY <1>1, <1>6 DEF TrueSizeFrom, LeftSon, RightSon

-----------------------------------------------------------------------------
(* Counting the members of a sequence that are in a set.                   *)

Places(s, S) == {i \in DOMAIN s : s[i] \in S}
CountIn(s, S) == Cardinality(Places(s, S))

\* The numbers up to n are n.
LEMMA UpToIs ==
  ASSUME NEW n \in Nat
  PROVE  IsFiniteSet(1 .. n) /\ Cardinality(1 .. n) = n
<1>1. /\ IsFiniteSet(1 .. n)
      /\ Cardinality(1 .. n) = IF 1 > n THEN 0 ELSE n - 1 + 1
  BY FS_Interval
<1> QED
  BY <1>1

\* The places of a set in a sequence.
LEMMA PlacesAre ==
  ASSUME NEW X, NEW s \in Seq(X), NEW S
  PROVE  /\ Len(s) \in Nat /\ DOMAIN s = 1 .. Len(s) /\ \A i \in 1 .. Len(s) : s[i] \in X
         /\ Places(s, S) \subseteq 1 .. Len(s) /\ IsFiniteSet(Places(s, S))
         /\ CountIn(s, S) \in 0 .. Len(s)
<1>1. Len(s) \in Nat /\ DOMAIN s = 1 .. Len(s) /\ \A i \in 1 .. Len(s) : s[i] \in X
  BY LenProperties, ElementOfSeq
<1>2. Places(s, S) \subseteq 1 .. Len(s)
  BY <1>1 DEF Places
<1>3. IsFiniteSet(1 .. Len(s)) /\ Cardinality(1 .. Len(s)) = Len(s)
  BY <1>1, UpToIs
<1>4. IsFiniteSet(Places(s, S)) /\ Cardinality(Places(s, S)) <= Len(s)
  BY <1>2, <1>3, FS_Subset
<1>5. Cardinality(Places(s, S)) \in Nat
  BY <1>4, FS_CardinalityType
<1>6. Cardinality(Places(s, S)) \in 0 .. Len(s)
  <2> DEFINE c == Cardinality(Places(s, S))
             l == Len(s)
  <2>1. c \in Nat /\ l \in Nat /\ c <= l
    BY <1>1, <1>4, <1>5
  <2> HIDE DEF c, l
  <2>2. c \in 0 .. l
    BY <2>1
  <2> QED
    BY <2>2 DEF c, l
<1> QED
  BY <1>1, <1>2, <1>4, <1>6 DEF CountIn

\* None are counted if none is in the set.
LEMMA CountNone ==
  ASSUME NEW X, NEW s \in Seq(X), NEW S
  PROVE  CountIn(s, S) = 0 <=> \A i \in 1 .. Len(s) : s[i] \notin S
<1>1. DOMAIN s = 1 .. Len(s) /\ IsFiniteSet(Places(s, S))
  BY PlacesAre
<1>2. Cardinality(Places(s, S)) = 0 <=> Places(s, S) = {}
  BY <1>1, FS_EmptySet
<1>3. Places(s, S) = {} <=> \A i \in 1 .. Len(s) : s[i] \notin S
  BY <1>1 DEF Places
<1> QED
  BY <1>2, <1>3 DEF CountIn

\* All are if all are.
LEMMA CountAll ==
  ASSUME NEW X, NEW s \in Seq(X), NEW S, \A i \in 1 .. Len(s) : s[i] \in S
  PROVE  CountIn(s, S) = Len(s)
<1>1. Len(s) \in Nat /\ DOMAIN s = 1 .. Len(s)
  BY PlacesAre
<1>2. Places(s, S) = 1 .. Len(s)
  BY <1>1 DEF Places
<1>3. Cardinality(1 .. Len(s)) = Len(s)
  BY <1>1, FS_Interval
<1> QED
  BY <1>2, <1>3 DEF CountIn

\* The empty sequence counts none.
LEMMA CountEmpty == \A S : CountIn(<<>>, S) = 0
<1>1. \A S : Places(<<>>, S) = {}
  BY DEF Places
<1>2. Cardinality({}) = 0
  BY FS_EmptySet
<1> QED
  BY <1>1, <1>2 DEF CountIn

\* A single member counts one or none.
LEMMA CountOne ==
  ASSUME NEW x, NEW S
  PROVE  CountIn(<<x>>, S) = Count(x \in S)
<1>1. CASE x \in S
  <2>1. Places(<<x>>, S) = {1}
    BY <1>1 DEF Places
  <2>2. Cardinality({1}) = 1
    BY FS_Singleton
  <2> QED
    BY <1>1, <2>1, <2>2 DEF CountIn, Count
<1>2. CASE x \notin S
  <2>1. Places(<<x>>, S) = {}
    BY <1>2 DEF Places
  <2>2. Cardinality({}) = 0
    BY FS_EmptySet
  <2> QED
    BY <1>2, <2>1, <2>2 DEF CountIn, Count
<1> QED
  BY <1>1, <1>2

\* A larger set counts no fewer.
LEMMA CountWithin ==
  ASSUME NEW X, NEW s \in Seq(X), NEW S, NEW T, S \cap X \subseteq T
  PROVE  CountIn(s, S) <= CountIn(s, T)
<1>1. Places(s, S) \subseteq Places(s, T)
  <2>1. \A i \in DOMAIN s : s[i] \in X
    BY PlacesAre
  <2> QED
    BY <2>1 DEF Places
<1>2. IsFiniteSet(Places(s, T))
  BY PlacesAre
<1> QED
  BY <1>1, <1>2, FS_Subset DEF CountIn

\* Disjoint sets add up.
LEMMA CountDisjoint ==
  ASSUME NEW X, NEW s \in Seq(X), NEW S, NEW T, S \cap T = {}
  PROVE  CountIn(s, S \cup T) = CountIn(s, S) + CountIn(s, T)
<1>1. Places(s, S \cup T) = Places(s, S) \cup Places(s, T) /\ Places(s, S) \cap Places(s, T) = {}
  BY DEF Places
<1>2. IsFiniteSet(Places(s, S)) /\ IsFiniteSet(Places(s, T))
  BY PlacesAre
<1>3. CountIn(s, S) \in Nat /\ CountIn(s, T) \in Nat
  BY PlacesAre
<1>4. Cardinality(Places(s, S) \cap Places(s, T)) = 0
  BY <1>1, FS_EmptySet
<1>5. Cardinality(Places(s, S) \cup Places(s, T))
        = Cardinality(Places(s, S)) + Cardinality(Places(s, T)) - Cardinality(Places(s, S) \cap Places(s, T))
  BY <1>2, FS_Union
<1>6. CountIn(s, S \cup T) = CountIn(s, S) + CountIn(s, T) - 0
  BY <1>1, <1>4, <1>5 DEF CountIn
<1> QED
  BY <1>3, <1>6

\* Members taken from places of a sequence, each place once.
LEMMA CountTaken ==
  ASSUME NEW X, NEW s \in Seq(X), NEW t \in Seq(X), NEW K \in SUBSET (1 .. Len(s)),
         NEW order \in Bijection(1 .. Len(t), K), \A k \in 1 .. Len(t) : t[k] = s[order[k]], NEW S
  PROVE  CountIn(t, S) = Cardinality({i \in K : s[i] \in S})
<1> DEFINE L == {i \in K : s[i] \in S}
           D == Places(t, S)
           f == [k \in D |-> order[k]]
<1>1. /\ order \in [1 .. Len(t) -> K] /\ \A k, l \in 1 .. Len(t) : order[k] = order[l] => k = l
      /\ \A i \in K : \E k \in 1 .. Len(t) : order[k] = i
  BY Fun_BijectionProperties
<1>2. DOMAIN t = 1 .. Len(t) /\ IsFiniteSet(D) /\ IsFiniteSet(1 .. Len(s))
  <2>1. Len(s) \in Nat
    BY PlacesAre
  <2> QED
    BY <2>1, PlacesAre, FS_Interval
<1>3. D = {k \in 1 .. Len(t) : t[k] \in S}
  BY <1>2 DEF Places
<1>4. f \in [D -> L] /\ (\A k, l \in D : f[k] = f[l] => k = l) /\ \A i \in L : \E k \in D : f[k] = i
  BY <1>1, <1>3
<1>5. f \in Bijection(D, L)
  BY <1>4, Fun_IsBij
<1>6. IsFiniteSet(L)
  <2>1. L \subseteq 1 .. Len(s)
    OBVIOUS
  <2> QED
    BY <1>2, <2>1, FS_Subset
<1> HIDE DEF D, L, f
<1>7. Cardinality(D) = Cardinality(L)
  <2>1. ExistsBijection(D, L)
    BY <1>5 DEF ExistsBijection
  <2> QED
    BY <1>2, <1>6, <2>1, FS_Bijection
<1> QED
  BY <1>7 DEF CountIn, D, L

\* The same members in another order.
LEMMA CountReordered ==
  ASSUME NEW X, NEW s \in Seq(X), NEW t \in Seq(X),
         NEW order \in Bijection(1 .. Len(t), 1 .. Len(s)), \A k \in 1 .. Len(t) : t[k] = s[order[k]],
         NEW S
  PROVE  CountIn(t, S) = CountIn(s, S)
<1> DEFINE K == 1 .. Len(s)
<1>1. DOMAIN s = 1 .. Len(s)
  BY PlacesAre
<1>2. K \in SUBSET (1 .. Len(s)) /\ order \in Bijection(1 .. Len(t), K)
  OBVIOUS
<1>3. CountIn(s, S) = Cardinality({i \in K : s[i] \in S})
  BY <1>1 DEF CountIn, Places
<1> HIDE DEF K
<1>4. CountIn(t, S) = Cardinality({i \in K : s[i] \in S})
  BY <1>2, CountTaken
<1> QED
  BY <1>3, <1>4

\* Concatenated sequences add up.
LEMMA CountConcat ==
  ASSUME NEW X, NEW s \in Seq(X), NEW t \in Seq(X), NEW S
  PROVE  s \o t \in Seq(X) /\ CountIn(s \o t, S) = CountIn(s, S) + CountIn(t, S)
<1> DEFINE u == s \o t
           m == Len(s)
           n == Len(t)
           first == {i \in 1 .. m : u[i] \in S}
           second == {i \in m + 1 .. m + n : u[i] \in S}
           keep == [i \in 1 .. m |-> i]
           shift == [i \in 1 .. n |-> i + m]
<1>1. m \in Nat /\ n \in Nat
  BY PlacesAre
<1>2. /\ u \in Seq(X) /\ Len(u) = m + n
      /\ \A i \in 1 .. m + n : u[i] = IF i <= m THEN s[i] ELSE t[i - m]
  BY ConcatProperties
<1> HIDE DEF u
<1>3. CountIn(s, S) = Cardinality(first)
  <2>1. keep \in Bijection(1 .. Len(s), 1 .. Len(s))
    BY Fun_IsBij
  <2>2. \A k \in 1 .. Len(s) : s[k] = u[keep[k]]
    BY <1>1, <1>2
  <2> DEFINE K == 1 .. Len(s)
  <2>3. K \in SUBSET (1 .. Len(u))
    BY <1>1, <1>2
  <2>4. u \in Seq(X) /\ keep \in Bijection(1 .. Len(s), K)
    BY <1>2, <2>1
  <2> HIDE DEF keep, K, m, n
  <2>5. CountIn(s, S) = Cardinality({i \in K : u[i] \in S})
    BY <2>2, <2>3, <2>4, CountTaken
  <2> QED
    BY <2>5 DEF K, m, n
<1>4. CountIn(t, S) = Cardinality(second)
  <2> DEFINE K == Len(s) + 1 .. Len(s) + Len(t)
  <2>1. shift \in Bijection(1 .. Len(t), K)
    <3>1. shift \in [1 .. Len(t) -> K] /\ \A i, j \in 1 .. Len(t) : shift[i] = shift[j] => i = j
      BY <1>1
    <3>2. ASSUME NEW j \in K PROVE \E i \in 1 .. Len(t) : shift[i] = j
      <4>1. j - m \in 1 .. Len(t) /\ shift[j - m] = j
        BY <1>1
      <4> QED
        BY <4>1
    <3> QED
      BY <3>1, <3>2, Fun_IsBij
  <2>2. \A k \in 1 .. Len(t) : t[k] = u[shift[k]]
    <3>1. \A k \in 1 .. n : shift[k] = k + m /\ k + m \in 1 .. m + n /\ ~(k + m <= m) /\ (k + m) - m = k
      BY <1>1
    <3> QED
      BY <1>2, <3>1
  <2>3. K \in SUBSET (1 .. Len(u))
    BY <1>1, <1>2
  <2>4. u \in Seq(X)
    BY <1>2
  <2> HIDE DEF shift, K, m, n
  <2>5. CountIn(t, S) = Cardinality({i \in K : u[i] \in S})
    BY <2>1, <2>2, <2>3, <2>4, CountTaken
  <2> QED
    BY <2>5 DEF K, m, n
<1>5. Places(u, S) = first \cup second /\ first \cap second = {}
  <2>1. DOMAIN u = 1 .. m + n
    BY <1>2, PlacesAre
  <2> QED
    BY <1>1, <2>1 DEF Places
<1>6. IsFiniteSet(first) /\ IsFiniteSet(second)
  <2>1. IsFiniteSet(Places(u, S)) /\ first \subseteq Places(u, S) /\ second \subseteq Places(u, S)
    BY <1>2, <1>5, PlacesAre
  <2> QED
    BY <2>1, FS_Subset
<1> HIDE DEF first, second
<1>7. Cardinality(first \cap second) = 0 /\ Cardinality(first) \in Nat /\ Cardinality(second) \in Nat
  BY <1>5, <1>6, FS_EmptySet, FS_CardinalityType
<1>8. Cardinality(first \cup second) = Cardinality(first) + Cardinality(second)
  <2>1. Cardinality(first \cup second) = Cardinality(first) + Cardinality(second) - Cardinality(first \cap second)
    BY <1>6, FS_Union
  <2> QED
    BY <1>7, <2>1
<1> QED
  BY <1>2, <1>3, <1>4, <1>5, <1>8 DEF u, CountIn

\* A sequence cut in two.
LEMMA CountCut ==
  ASSUME NEW X, NEW s \in Seq(X), NEW g \in 0 .. Len(s), NEW S
  PROVE  /\ SubSeq(s, 1, g) \in Seq(X) /\ Len(SubSeq(s, 1, g)) = g
         /\ \A i \in 1 .. g : SubSeq(s, 1, g)[i] = s[i]
         /\ SubSeq(s, g + 1, Len(s)) \in Seq(X) /\ Len(SubSeq(s, g + 1, Len(s))) = Len(s) - g
         /\ \A i \in 1 .. Len(s) - g : SubSeq(s, g + 1, Len(s))[i] = s[i + g]
         /\ CountIn(s, S) = CountIn(SubSeq(s, 1, g), S) + CountIn(SubSeq(s, g + 1, Len(s)), S)
<1> DEFINE p == SubSeq(s, 1, g)
           q == SubSeq(s, g + 1, Len(s))
<1>1. Len(s) \in Nat /\ g \in Nat /\ g <= Len(s) /\ \A i \in 1 .. Len(s) : s[i] \in X
  BY PlacesAre
<1>2. /\ p \in Seq(X) /\ Len(p) = IF 1 <= g THEN g - 1 + 1 ELSE 0
      /\ \A i \in 1 .. g - 1 + 1 : p[i] = s[1 + i - 1]
  <2>1. \A i \in 1 .. g : s[i] \in X
    BY <1>1
  <2> QED
    BY <1>1, <2>1, SubSeqProperties
<1>3. /\ q \in Seq(X) /\ Len(q) = IF g + 1 <= Len(s) THEN Len(s) - (g + 1) + 1 ELSE 0
      /\ \A i \in 1 .. Len(s) - (g + 1) + 1 : q[i] = s[g + 1 + i - 1]
  <2>1. (\A i \in g + 1 .. Len(s) : s[i] \in X) /\ g + 1 \in Int /\ Len(s) \in Int
    BY <1>1
  <2> QED
    BY <2>1, SubSeqProperties
<1>4. Len(p) = g /\ \A i \in 1 .. g : p[i] = s[i]
  <2>1. g - 1 + 1 = g /\ \A i \in 1 .. g : 1 + i - 1 = i
    BY <1>1
  <2> QED
    BY <1>1, <1>2, <2>1
<1>5. Len(q) = Len(s) - g /\ \A i \in 1 .. Len(s) - g : q[i] = s[i + g]
  <2>1. Len(s) - (g + 1) + 1 = Len(s) - g /\ \A i \in 1 .. Len(s) - g : g + 1 + i - 1 = i + g
    BY <1>1
  <2>2. Len(q) = Len(s) - g
    BY <1>1, <1>3
  <2>3. \A i \in 1 .. Len(s) - g : q[i] = s[g + 1 + i - 1]
    BY <1>3, <2>1
  <2> QED
    BY <2>1, <2>2, <2>3
<1>6. p \o q = s
  <2>1. SubSeq(s, 1, g) \o SubSeq(s, g + 1, Len(s)) = SubSeq(s, 1, Len(s))
    <3>1. 1 \in 1 .. Len(s) + 1 /\ g \in 1 - 1 .. Len(s) /\ Len(s) \in g .. Len(s)
      BY <1>1
    <3> QED
      BY <3>1, ConcatAdjacentSubSeq
  <2> QED
    BY <2>1, SubSeqFull
<1> HIDE DEF p, q
<1>7. CountIn(p \o q, S) = CountIn(p, S) + CountIn(q, S)
  BY <1>2, <1>3, CountConcat
<1>8. CountIn(s, S) = CountIn(p, S) + CountIn(q, S)
  BY <1>6, <1>7
<1> QED
  BY <1>2, <1>3, <1>4, <1>5, <1>8 DEF p, q

\* A sequence cut around one of its members.
LEMMA CountAround ==
  ASSUME NEW X, NEW s \in Seq(X), NEW m \in 1 .. Len(s), NEW S
  PROVE  /\ SubSeq(s, 1, m - 1) \in Seq(X) /\ Len(SubSeq(s, 1, m - 1)) = m - 1 /\ s[m] \in X
         /\ SubSeq(s, m + 1, Len(s)) \in Seq(X) /\ Len(SubSeq(s, m + 1, Len(s))) = Len(s) - m
         /\ CountIn(s, S) = Count(s[m] \in S) + CountIn(SubSeq(s, 1, m - 1), S)
                            + CountIn(SubSeq(s, m + 1, Len(s)), S)
<1>1. Len(s) \in Nat /\ s[m] \in X /\ m - 1 \in 0 .. Len(s) /\ m \in 0 .. Len(s)
  BY PlacesAre
<1> DEFINE p == SubSeq(s, 1, m)
           a == SubSeq(s, 1, m - 1)
           q == SubSeq(s, m + 1, Len(s))
<1>2. /\ p \in Seq(X) /\ Len(p) = m /\ q \in Seq(X) /\ Len(q) = Len(s) - m
      /\ CountIn(s, S) = CountIn(p, S) + CountIn(q, S)
      /\ \A i \in 1 .. m : p[i] = s[i]
  BY <1>1, CountCut
<1>3. a \in Seq(X) /\ Len(a) = m - 1 /\ \A i \in 1 .. m - 1 : a[i] = s[i]
  BY <1>1, CountCut
<1>4. p = a \o <<s[m]>>
  <2>1. <<s[m]>> \in Seq(X) /\ Len(<<s[m]>>) = 1 /\ <<s[m]>>[1] = s[m]
    BY <1>1
  <2> HIDE DEF p, a
  <2>2. /\ Len(a \o <<s[m]>>) = m - 1 + 1 /\ a \o <<s[m]>> \in Seq(X)
        /\ \A i \in 1 .. m - 1 + 1 : (a \o <<s[m]>>)[i] = IF i <= m - 1 THEN a[i] ELSE <<s[m]>>[i - (m - 1)]
    BY <1>3, <2>1, ConcatProperties
  <2>3. m - 1 + 1 = m /\ \A i \in 1 .. m : IF i <= m - 1 THEN i \in 1 .. m - 1 ELSE i = m /\ i - (m - 1) = 1
    OBVIOUS
  <2>4. \A i \in 1 .. m : (a \o <<s[m]>>)[i] = p[i]
    BY <1>2, <1>3, <2>1, <2>2, <2>3
  <2>5. p \in Seq(X) /\ a \o <<s[m]>> \in Seq(X) /\ Len(p) = Len(a \o <<s[m]>>) /\ Len(p) = m
    BY <1>2, <2>2, <2>3
  <2> QED
    BY <2>4, <2>5, SeqEqual
<1>5. <<s[m]>> \in Seq(X)
  BY <1>1
<1>6. CountIn(<<s[m]>>, S) = Count(s[m] \in S)
  BY CountOne
<1> HIDE DEF p, a, q
<1>7. CountIn(p, S) = CountIn(a, S) + CountIn(<<s[m]>>, S)
  <2>1. CountIn(a \o <<s[m]>>, S) = CountIn(a, S) + CountIn(<<s[m]>>, S)
    <3>1. \A t \in Seq(X) : CountIn(a \o t, S) = CountIn(a, S) + CountIn(t, S)
      BY <1>3, CountConcat
    <3> QED
      BY <1>5, <3>1, Zenon
  <2> QED
    BY <1>4, <2>1
<1>8. CountIn(a, S) \in Nat /\ CountIn(q, S) \in Nat /\ Count(s[m] \in S) \in Nat
  <2>1. CountIn(a, S) \in 0 .. Len(a) /\ CountIn(q, S) \in 0 .. Len(q)
    BY <1>2, <1>3, PlacesAre
  <2> QED
    BY <2>1 DEF Count
<1>9. CountIn(s, S) = Count(s[m] \in S) + CountIn(a, S) + CountIn(q, S)
  BY <1>2, <1>6, <1>7, <1>8
<1> QED
  BY <1>1, <1>2, <1>3, <1>9 DEF a, q

-----------------------------------------------------------------------------
(* The order of points, and sequences in that order.                       *)

\* point_cmp orders two points that differ, one way only ...
LEMMA CompareIs ==
  ASSUME NEW axis \in Axes, NEW tie \in Ties, NEW p \in [Axes -> Int], NEW q \in [Axes -> Int]
  PROVE  /\ p # q => point_cmp(axis, tie, p, q) \/ point_cmp(axis, tie, q, p)
         /\ point_cmp(axis, tie, p, q) => p # q /\ ~point_cmp(axis, tie, q, p)
<1> DEFINE next == (axis % 3) + 1
           last == (next % 3) + 1
<1>1. next \in Axes /\ last \in Axes /\ {axis, next, last} = Axes
  BY DEF Axes
<1>2. p[axis] \in Int /\ p[next] \in Int /\ p[last] \in Int
      /\ q[axis] \in Int /\ q[next] \in Int /\ q[last] \in Int
  BY <1>1
<1>3. \A x, y \in Int : (tie * x < tie * y \/ tie * y < tie * x) <=> x # y
  BY DEF Ties
<1>4. \A x, y \in Int : tie * x < tie * y => ~(tie * y < tie * x)
  BY DEF Ties
<1>5. point_cmp(axis, tie, p, q) <=>
        \/ p[axis] < q[axis]
        \/ p[axis] = q[axis] /\ tie * p[next] < tie * q[next]
        \/ p[axis] = q[axis] /\ p[next] = q[next] /\ tie * p[last] < tie * q[last]
  BY DEF point_cmp
<1>6. point_cmp(axis, tie, q, p) <=>
        \/ q[axis] < p[axis]
        \/ q[axis] = p[axis] /\ tie * q[next] < tie * p[next]
        \/ q[axis] = p[axis] /\ q[next] = p[next] /\ tie * q[last] < tie * p[last]
  BY DEF point_cmp
<1>7. p # q => p[axis] # q[axis] \/ p[next] # q[next] \/ p[last] # q[last]
  <2>1. p # q => \E x \in Axes : p[x] # q[x]
    OBVIOUS
  <2> QED
    BY <1>1, <2>1
<1> HIDE DEF next, last
<1> QED
  BY <1>2, <1>3, <1>4, <1>5, <1>6, <1>7

\* ... and transitively, so that nth_element has an order to split by.
LEMMA CompareThree ==
  ASSUME NEW axis \in Axes, NEW tie \in Ties, NEW p \in [Axes -> Int], NEW q \in [Axes -> Int],
         NEW r \in [Axes -> Int], point_cmp(axis, tie, p, q), point_cmp(axis, tie, q, r)
  PROVE  point_cmp(axis, tie, p, r)
<1> DEFINE next == (axis % 3) + 1
           last == (next % 3) + 1
<1>1. next \in Axes /\ last \in Axes
  BY DEF Axes
<1>2. /\ p[axis] \in Int /\ p[next] \in Int /\ p[last] \in Int
      /\ q[axis] \in Int /\ q[next] \in Int /\ q[last] \in Int
      /\ r[axis] \in Int /\ r[next] \in Int /\ r[last] \in Int
  BY <1>1
<1>3. \A x, y, z \in Int : tie * x < tie * y /\ tie * y < tie * z => tie * x < tie * z
  BY DEF Ties
<1>4. \/ p[axis] < q[axis]
      \/ p[axis] = q[axis] /\ tie * p[next] < tie * q[next]
      \/ p[axis] = q[axis] /\ p[next] = q[next] /\ tie * p[last] < tie * q[last]
  BY DEF point_cmp
<1>5. \/ q[axis] < r[axis]
      \/ q[axis] = r[axis] /\ tie * q[next] < tie * r[next]
      \/ q[axis] = r[axis] /\ q[next] = r[next] /\ tie * q[last] < tie * r[last]
  BY DEF point_cmp
<1>6. point_cmp(axis, tie, p, r) <=>
        \/ p[axis] < r[axis]
        \/ p[axis] = r[axis] /\ tie * p[next] < tie * r[next]
        \/ p[axis] = r[axis] /\ p[next] = r[next] /\ tie * p[last] < tie * r[last]
  BY DEF point_cmp
<1> HIDE DEF next, last
<1> QED
  BY <1>2, <1>3, <1>4, <1>5, <1>6

\* A proper subset is smaller.
LEMMA FewerMembers ==
  ASSUME NEW A, NEW B, IsFiniteSet(B), A \subseteq B, NEW x \in B, x \notin A
  PROVE  Cardinality(A) < Cardinality(B)
<1>1. IsFiniteSet(A) /\ Cardinality(A) <= Cardinality(B) /\ (Cardinality(A) = Cardinality(B) => A = B)
  BY FS_Subset
<1>2. Cardinality(A) \in Nat /\ Cardinality(B) \in Nat
  BY <1>1, FS_CardinalityType
<1> QED
  BY <1>1, <1>2

\* Distinct ranks up to their number are a bijection.
LEMMA RanksAre ==
  ASSUME NEW n \in Nat, NEW rank \in [1 .. n -> 1 .. n],
         \A i, j \in 1 .. n : rank[i] = rank[j] => i = j
  PROVE  [k \in 1 .. n |-> CHOOSE i \in 1 .. n : rank[i] = k] \in Bijection(1 .. n, 1 .. n)
<1> DEFINE K == 1 .. n
           place(k) == CHOOSE i \in K : rank[i] = k
           order == [k \in K |-> place(k)]
<1>1. IsFiniteSet(K)
  BY UpToIs
<1>2. rank \in [K -> K] /\ (\A i, j \in K : rank[i] = rank[j] => i = j)
  OBVIOUS
<1> HIDE DEF K
<1>4. rank \in Injection(K, K)
  BY <1>2, Fun_IsInj
<1>5. rank \in Surjection(K, K)
  BY <1>1, <1>4, FS_Injection
<1>6. \A k \in K : \E i \in K : rank[i] = k
  BY <1>5, Fun_SurjectionProperties
<1>7. \A k \in K : place(k) \in K /\ rank[place(k)] = k
  BY <1>6
<1> HIDE DEF place
<1>8. order \in [K -> K] /\ \A k \in K : order[k] \in K /\ rank[order[k]] = k
  BY <1>7
<1> HIDE DEF order
<1>9. \A i \in K : rank[i] \in K /\ order[rank[i]] = i
  BY <1>2, <1>8
<1>10. (\A k, l \in K : order[k] = order[l] => k = l) /\ \A i \in K : \E k \in K : order[k] = i
  BY <1>8, <1>9
<1>11. order \in Bijection(K, K)
  BY <1>8, <1>10, Fun_IsBij
<1> QED
  BY <1>11 DEF K, order, place

\* Sorting loses no point and doubles none.
LEMMA OrderedIs ==
  ASSUME NEW s \in Seq(Points), NEW axis \in Axes, NEW tie \in Ties
  PROVE  /\ Ordered(s, axis, tie) \in Seq(Points) /\ Len(Ordered(s, axis, tie)) = Len(s)
         /\ \A S : CountIn(Ordered(s, axis, tie), S) = CountIn(s, S)
<1> DEFINE n == Len(s)
           before(i) == {j \in 1 .. n : \/ point_cmp(axis, tie, s[j], s[i])
                                        \/ s[j] = s[i] /\ j <= i}
           rank == [i \in 1 .. n |-> Cardinality(before(i))]
           order == [k \in 1 .. n |-> CHOOSE i \in 1 .. n : rank[i] = k]
           t == Ordered(s, axis, tie)
<1>1. /\ n \in Nat /\ DOMAIN s = 1 .. n /\ IsFiniteSet(1 .. n) /\ Cardinality(1 .. n) = n
      /\ \A i \in 1 .. n : s[i] \in Points /\ s[i] \in [Axes -> Int]
  BY PlacesAre, UpToIs, PointsAre
<1>2. \A i \in 1 .. n : i \in before(i) /\ before(i) \subseteq 1 .. n
  OBVIOUS
<1>3. ASSUME NEW i \in 1 .. n
      PROVE  Cardinality(before(i)) \in 1 .. n
  <2>1. IsFiniteSet(before(i)) /\ Cardinality(before(i)) <= Cardinality(1 .. n)
    BY <1>1, <1>2, FS_Subset
  <2>2. Cardinality(before(i)) \in Nat
    BY <2>1, FS_CardinalityType
  <2>3. Cardinality(before(i)) # 0
    BY <1>2, <2>1, FS_EmptySet
  <2> HIDE DEF before
  <2>4. Cardinality(before(i)) <= n
    BY <1>1, <2>1
  <2> HIDE DEF n
  <2> QED
    BY <1>1, <2>2, <2>3, <2>4
<1>4. ASSUME NEW i \in 1 .. n, NEW j \in 1 .. n,
             point_cmp(axis, tie, s[i], s[j]) \/ (s[i] = s[j] /\ i < j)
      PROVE  Cardinality(before(i)) < Cardinality(before(j))
  <2>0. s[i] \in [Axes -> Int] /\ s[j] \in [Axes -> Int]
    BY <1>1
  <2>1. before(i) \subseteq before(j)
    <3>1. ASSUME NEW k \in 1 .. n, point_cmp(axis, tie, s[k], s[i]) \/ (s[k] = s[i] /\ k <= i)
          PROVE  point_cmp(axis, tie, s[k], s[j]) \/ (s[k] = s[j] /\ k <= j)
      <4>1. s[k] \in [Axes -> Int]
        BY <1>1
      <4>2. CASE point_cmp(axis, tie, s[k], s[i]) /\ point_cmp(axis, tie, s[i], s[j])
        BY <2>0, <4>1, <4>2, CompareThree
      <4>3. CASE s[k] = s[i] /\ k <= i /\ s[i] = s[j] /\ i < j
        BY <4>3
      <4>4. CASE s[k] = s[i] /\ point_cmp(axis, tie, s[i], s[j])
        BY <4>4
      <4>5. CASE point_cmp(axis, tie, s[k], s[i]) /\ s[i] = s[j]
        BY <4>5
      <4> QED
        BY <1>4, <3>1, <4>2, <4>3, <4>4, <4>5
    <3> QED
      BY <3>1
  <2>2. j \in before(j)
    BY <1>2
  <2>3. j \notin before(i)
    <3>1. CASE point_cmp(axis, tie, s[i], s[j])
      <4>1. s[i] # s[j] /\ ~point_cmp(axis, tie, s[j], s[i])
        BY <2>0, <3>1, CompareIs
      <4> QED
        BY <4>1
    <3>2. CASE s[i] = s[j] /\ i < j
      <4>1. ~point_cmp(axis, tie, s[j], s[i])
        BY <2>0, <3>2, CompareIs
      <4> QED
        BY <3>2, <4>1
    <3> QED
      BY <1>4, <3>1, <3>2
  <2>4. IsFiniteSet(before(j))
    BY <1>1, <1>2, FS_Subset
  <2> HIDE DEF before
  <2> QED
    BY <2>1, <2>2, <2>3, <2>4, FewerMembers
<1>5. \A i, j \in 1 .. n : rank[i] = rank[j] => i = j
  <2> SUFFICES ASSUME NEW i \in 1 .. n, NEW j \in 1 .. n, rank[i] = rank[j], i # j
               PROVE  FALSE
    OBVIOUS
  <2>1. s[i] \in [Axes -> Int] /\ s[j] \in [Axes -> Int]
    BY <1>1
  <2>2. \/ point_cmp(axis, tie, s[i], s[j]) \/ (s[i] = s[j] /\ i < j)
        \/ point_cmp(axis, tie, s[j], s[i]) \/ (s[j] = s[i] /\ j < i)
    BY <2>1, CompareIs
  <2>3. Cardinality(before(i)) = Cardinality(before(j))
    OBVIOUS
  <2>4. Cardinality(before(i)) \in Int
    BY <1>3
  <2> HIDE DEF before
  <2> QED
    BY <1>4, <2>2, <2>3, <2>4
<1>6. rank \in [1 .. n -> 1 .. n]
  BY <1>3
<1>7. t = [k \in 1 .. n |-> s[order[k]]]
  <2> DEFINE place(k) == CHOOSE i \in 1 .. n : Cardinality(before(i)) = k
  <2>1. t = [k \in 1 .. n |-> s[place(k)]]
    BY <1>1 DEF Ordered
  <2>2. \A i \in 1 .. n : Cardinality(before(i)) = rank[i]
    OBVIOUS
  <2>3. \A k \in 1 .. n : order[k] = CHOOSE i \in 1 .. n : rank[i] = k
    OBVIOUS
  <2> HIDE DEF rank, before, order
  <2>4. \A k \in 1 .. n : place(k) = CHOOSE i \in 1 .. n : rank[i] = k
    BY <2>2
  <2> HIDE DEF place
  <2>5. \A k \in 1 .. n : order[k] = place(k)
    BY <2>3, <2>4
  <2> QED
    BY <2>1, <2>5
<1> HIDE DEF rank
<1>8. order \in Bijection(1 .. n, 1 .. n)
  <2> HIDE DEF n
  <2> QED
    BY <1>1, <1>5, <1>6, RanksAre
<1> HIDE DEF order, t
<1>9. order \in [1 .. n -> 1 .. n]
  BY <1>8, Fun_BijectionProperties
<1>10. t \in Seq(Points) /\ Len(t) = n
  <2>1. t \in [1 .. n -> Points]
    BY <1>1, <1>7, <1>9
  <2> HIDE DEF n
  <2> QED
    BY <1>1, <2>1
<1>11. \A k \in 1 .. Len(t) : t[k] = s[order[k]]
  BY <1>7, <1>10
<1>12. order \in Bijection(1 .. Len(t), 1 .. Len(s))
  BY <1>8, <1>10
<1>13. \A S : CountIn(t, S) = CountIn(s, S)
  <2> SUFFICES ASSUME NEW S
               PROVE  CountIn(t, S) = CountIn(s, S)
    OBVIOUS
  <2>1. t \in Seq(Points)
    BY <1>10
  <2> HIDE DEF n
  <2>2. \A o \in Bijection(1 .. Len(t), 1 .. Len(s)) :
          (\A k \in 1 .. Len(t) : t[k] = s[o[k]]) => CountIn(t, S) = CountIn(s, S)
    BY <2>1, CountReordered
  <2> QED
    BY <1>11, <1>12, <2>2, Zenon
<1> QED
  BY <1>10, <1>13 DEF t

\* Some side of the points is the longest.
LEMMA DivisionIs ==
  ASSUME NEW S \in SUBSET Points, IsFiniteSet(S), S # {}
  PROVE  DivisionAxis(S) \in Axes
<1> DEFINE length(x) == Max({p[x] : p \in S}) - Min({p[x] : p \in S})
           Best(x) == \A y \in Axes : length(y) < length(x) \/ (length(y) = length(x) /\ x <= y)
<1>1. \A x \in Axes : length(x) \in Int
  BY PointsAre, CornersOf
<1>2. \E x \in Axes : Best(x)
  <2>1. length(1) \in Int /\ length(2) \in Int /\ length(3) \in Int
    BY <1>1 DEF Axes
  <2>2. \A y \in Axes : y = 1 \/ y = 2 \/ y = 3
    BY DEF Axes
  <2>3. 1 \in Axes /\ 2 \in Axes /\ 3 \in Axes
    BY DEF Axes
  <2> HIDE DEF length
  <2> QED
    BY <2>1, <2>2, <2>3
<1>3. DivisionAxis(S) = CHOOSE x \in Axes : Best(x)
  BY DEF DivisionAxis
<1> HIDE DEF Best
<1> QED
  BY <1>2, <1>3

-----------------------------------------------------------------------------
(* BuildTree.                                                              *)

NewNode(p, axis, l, r) == [InitTreeNode(p, axis) EXCEPT !.left = l, !.right = r]
AxisOf(s) == DivisionAxis({s[i] : i \in DOMAIN s})
SortedBy(s, tie) == Ordered(s, AxisOf(s), tie)
Middle(s) == (Len(s) + 1) \div 2
LowerHalf(s, tie) == SubSeq(SortedBy(s, tie), 1, Middle(s) - 1)
UpperHalf(s, tie) == SubSeq(SortedBy(s, tie), Middle(s) + 1, Len(s))
MiddlePoint(s, tie) == SortedBy(s, tie)[Middle(s)]
BuiltNode(s, tie, l, r) == Update(NewNode(MiddlePoint(s, tie), AxisOf(s), l, r))

\* The function BuildTree is the value of.
BuildFrom(f, tie) ==
  f = [s \in Seq(Points) |->
        IF s = <<>> THEN Null
        ELSE LET axis == DivisionAxis({s[i] : i \in DOMAIN s})
                 sorted == Ordered(s, axis, tie)
                 mid == (Len(s) + 1) \div 2
             IN  Update([InitTreeNode(sorted[mid], axis) EXCEPT
                           !.left = f[SubSeq(sorted, 1, mid - 1)],
                           !.right = f[SubSeq(sorted, mid + 1, Len(s))]])]

\* build, by the middle point and the halves.
LEMMA BuildValue ==
  ASSUME NEW tie, NEW f, BuildFrom(f, tie)
  PROVE  \A s \in Seq(Points) :
           f[s] = IF s = <<>> THEN Null
                  ELSE BuiltNode(s, tie, f[LowerHalf(s, tie)], f[UpperHalf(s, tie)])
<1> QED
  BY DEF BuildFrom, BuiltNode, NewNode, MiddlePoint, UpperHalf, LowerHalf, Middle, SortedBy, AxisOf

\* BuildTree is the function its LET chooses.
LEMMA BuildIs ==
  ASSUME NEW tie
  PROVE  \A s \in Seq(Points) : BuildTree(s, tie) = (CHOOSE f : BuildFrom(f, tie))[s]
<1> QED
  BY DEF BuildTree, BuildFrom

\* The halves differ by one at most, and with the middle they are all the points.
LEMMA HalvesAre ==
  ASSUME NEW tie \in Ties, NEW s \in Seq(Points), s # <<>>
  PROVE  /\ Len(s) \in Nat \ {0} /\ AxisOf(s) \in Axes /\ MiddlePoint(s, tie) \in Points
         /\ LowerHalf(s, tie) \in Seq(Points) /\ UpperHalf(s, tie) \in Seq(Points)
         /\ Len(s) = 1 + Len(LowerHalf(s, tie)) + Len(UpperHalf(s, tie))
         /\ Len(LowerHalf(s, tie)) \in {Len(UpperHalf(s, tie)) - 1, Len(UpperHalf(s, tie))}
         /\ \A S : CountIn(s, S) = Count(MiddlePoint(s, tie) \in S)
                                   + CountIn(LowerHalf(s, tie), S) + CountIn(UpperHalf(s, tie), S)
<1>1. Len(s) \in Nat \ {0} /\ \A i \in 1 .. Len(s) : s[i] \in Points
  BY EmptySeq, PlacesAre
<1>2. AxisOf(s) \in Axes
  <2> DEFINE S == {s[i] : i \in DOMAIN s}
  <2>1. DOMAIN s = 1 .. Len(s) /\ IsFiniteSet(1 .. Len(s))
    BY <1>1, PlacesAre, UpToIs
  <2>2. S \in SUBSET Points /\ s[1] \in S
    BY <1>1, <2>1
  <2>3. IsFiniteSet(S)
    <3>1. s \in [1 .. Len(s) -> S] /\ \A p \in S : \E i \in 1 .. Len(s) : s[i] = p
      BY <1>1, <2>1
    <3>2. s \in Surjection(1 .. Len(s), S)
      <4> HIDE DEF S
      <4> QED
        BY <3>1, Fun_IsSurj
    <3> QED
      BY <2>1, <3>2, FS_Surjection
  <2> QED
    BY <2>2, <2>3, DivisionIs DEF AxisOf
<1> DEFINE t == SortedBy(s, tie)
           m == Middle(s)
<1>3. t \in Seq(Points) /\ Len(t) = Len(s) /\ \A S : CountIn(t, S) = CountIn(s, S)
  BY <1>2, OrderedIs DEF SortedBy
<1>4. m \in 1 .. Len(s) /\ m - 1 \in {Len(s) - m - 1, Len(s) - m}
  <2> DEFINE l == Len(s)
  <2>1. l \in Nat \ {0} /\ m = (l + 1) \div 2
    BY <1>1 DEF Middle
  <2> HIDE DEF l, m
  <2>2. m \in 1 .. l /\ m - 1 \in {l - m - 1, l - m}
    BY <2>1
  <2> QED
    BY <2>2 DEF l
<1> HIDE DEF t, m
<1>5. /\ SubSeq(t, 1, m - 1) \in Seq(Points) /\ Len(SubSeq(t, 1, m - 1)) = m - 1 /\ t[m] \in Points
      /\ SubSeq(t, m + 1, Len(t)) \in Seq(Points) /\ Len(SubSeq(t, m + 1, Len(t))) = Len(t) - m
      /\ \A S : CountIn(t, S) = Count(t[m] \in S) + CountIn(SubSeq(t, 1, m - 1), S)
                            + CountIn(SubSeq(t, m + 1, Len(t)), S)
  BY <1>3, <1>4, CountAround
<1>6. /\ LowerHalf(s, tie) = SubSeq(t, 1, m - 1) /\ UpperHalf(s, tie) = SubSeq(t, m + 1, Len(t))
      /\ MiddlePoint(s, tie) = t[m]
  BY <1>3 DEF LowerHalf, UpperHalf, MiddlePoint, t, m
<1>7. /\ Len(LowerHalf(s, tie)) = m - 1 /\ Len(UpperHalf(s, tie)) = Len(s) - m
  BY <1>3, <1>5, <1>6
<1>8. /\ Len(s) = 1 + (m - 1) + (Len(s) - m) /\ m - 1 \in {(Len(s) - m) - 1, Len(s) - m}
  BY <1>1, <1>4
<1>9. \A S : CountIn(s, S) = Count(MiddlePoint(s, tie) \in S)
                            + CountIn(LowerHalf(s, tie), S) + CountIn(UpperHalf(s, tie), S)
  <2> SUFFICES ASSUME NEW S
               PROVE  CountIn(s, S) = Count(MiddlePoint(s, tie) \in S)
                            + CountIn(LowerHalf(s, tie), S) + CountIn(UpperHalf(s, tie), S)
    OBVIOUS
  <2>1. CountIn(t, S) = CountIn(s, S)
    BY <1>3
  <2> QED
    BY <1>5, <1>6, <2>1
<1>10. /\ LowerHalf(s, tie) \in Seq(Points) /\ UpperHalf(s, tie) \in Seq(Points)
       /\ MiddlePoint(s, tie) \in Points
  BY <1>5, <1>6
<1> QED
  BY <1>1, <1>2, <1>7, <1>8, <1>9, <1>10

\* A node as InitTreeNode makes it, given its sons.
LEMMA NewNodeIs ==
  ASSUME NEW X, NEW p \in Points, NEW axis \in Axes, NEW l \in X, NEW r \in X
  PROVE  /\ NewNode(p, axis, l, r) \in NodesOver(X)
         /\ NewNode(p, axis, l, r).point = p /\ NewNode(p, axis, l, r).division_axis = axis
         /\ NewNode(p, axis, l, r).left = l /\ NewNode(p, axis, l, r).right = r
         /\ ~NewNode(p, axis, l, r).point_deleted
         /\ ~NewNode(p, axis, l, r).point_downsample_deleted
         /\ ~NewNode(p, axis, l, r).need_push_down_to_left
         /\ ~NewNode(p, axis, l, r).need_push_down_to_right
<1>1. p \in [Axes -> Int]
  BY PointsAre
<1> DEFINE n == InitTreeNode(p, axis)
<1>2. /\ n \in NodesOver({Null}) /\ n.point = p /\ n.division_axis = axis
      /\ ~n.point_deleted /\ ~n.point_downsample_deleted
      /\ ~n.need_push_down_to_left /\ ~n.need_push_down_to_right
  BY <1>1 DEF NodesOver, InitTreeNode
<1>3. NewNode(p, axis, l, r) = [n EXCEPT !.left = l, !.right = r]
  BY DEF NewNode
<1> HIDE DEF n
<1> QED
  BY <1>2, <1>3 DEF NodesOver

\* One as BuildTree leaves it.
LEMMA BuiltNodeIs ==
  ASSUME NEW h \in Nat, NEW tie \in Ties, NEW s \in Seq(Points), s # <<>>,
         NEW l \in TreesTo[h], NEW r \in TreesTo[h]
  PROVE  BuiltNode(s, tie, l, r) \in NodesOver(TreesTo[h])
<1>1. NewNode(MiddlePoint(s, tie), AxisOf(s), l, r) \in NodesOver(TreesTo[h])
  BY HalvesAre, NewNodeIs
<1> QED
  BY <1>1, UpdateIs DEF BuiltNode

\* Room for more points than the height has levels.
LEMMA RoomFor ==
  \A k \in Nat : k <= Capacity[k]
<1> DEFINE S == {k \in Nat : k <= Capacity[k]}
<1>1. 0 \in S
  BY CapacityRises
<1>2. ASSUME NEW k \in Nat, k \in S PROVE k + 1 \in S
  BY <1>2, CapacityRises
<1>3. \A k \in Nat : k \in S
  <2> HIDE DEF S
  <2> QED
    BY <1>1, <1>2, AllNaturals
<1> QED
  BY <1>3

\* Halves are shorter: BuildTree ends.
LEMMA ListsAre ==
  /\ \A k \in Nat : Lists(k) \in SUBSET Seq(Points) /\ Lists(k) \subseteq Lists(k + 1)
  /\ \A s \in Seq(Points) : s \in Lists(Len(s))
  /\ \A s \in Seq(Points) : s \in Lists(0) <=> s = <<>>
  /\ \A k \in Nat : \A tie \in Ties : \A s \in Lists(k + 1) \ {<<>>} :
       LowerHalf(s, tie) \in Lists(k) /\ UpperHalf(s, tie) \in Lists(k)
<1>1. \A s \in Seq(Points) : Len(s) \in Nat
  BY PlacesAre
<1>2. ASSUME NEW k \in Nat PROVE Lists(k) \in SUBSET Seq(Points) /\ Lists(k) \subseteq Lists(k + 1)
  <2>1. Capacity[k] \in Nat /\ Capacity[k + 1] \in Nat /\ Capacity[k] <= Capacity[k + 1]
    BY CapacityRises
  <2>2. ASSUME NEW s \in Seq(Points), Len(s) <= Capacity[k] PROVE Len(s) <= Capacity[k + 1]
    BY <1>1, <2>1, <2>2
  <2> QED
    BY <2>2 DEF Lists
<1>3. \A s \in Seq(Points) : s \in Lists(Len(s))
  BY <1>1, RoomFor DEF Lists
<1>4. ASSUME NEW s \in Seq(Points) PROVE s \in Lists(0) <=> s = <<>>
  <2>1. Capacity[0] = 0
    BY CapacityRises
  <2>2. Len(s) \in Nat /\ (Len(s) = 0 <=> s = <<>>)
    BY <1>1, EmptySeq
  <2> QED
    BY <2>1, <2>2 DEF Lists
<1>5. ASSUME NEW k \in Nat, NEW tie \in Ties, NEW s \in Lists(k + 1) \ {<<>>}
      PROVE  LowerHalf(s, tie) \in Lists(k) /\ UpperHalf(s, tie) \in Lists(k)
  <2>1. s \in Seq(Points) /\ Len(s) <= Capacity[k + 1]
    BY DEF Lists
  <2>2. Capacity[k] \in Nat /\ Capacity[k + 1] = 2 * Capacity[k] + 1
    BY CapacityRises
  <2> DEFINE m == Len(LowerHalf(s, tie))
             n == Len(UpperHalf(s, tie))
  <2>3. /\ LowerHalf(s, tie) \in Seq(Points) /\ UpperHalf(s, tie) \in Seq(Points)
        /\ Len(s) = 1 + m + n /\ m \in {n - 1, n}
    BY <2>1, HalvesAre
  <2>4. m \in Nat /\ n \in Nat
    BY <2>3, <1>1
  <2> HIDE DEF m, n
  <2>5. m <= Capacity[k] /\ n <= Capacity[k]
    BY <2>1, <2>2, <2>3, <2>4
  <2> QED
    BY <2>3, <2>5 DEF Lists, m, n
<1> QED
  BY <1>2, <1>3, <1>4, <1>5

\* build exists, and a tree is no higher than the points are many.
LEMMA BuildExists ==
  ASSUME NEW tie \in Ties
  PROVE  \E f \in [Seq(Points) -> AllTrees] :
           BuildFrom(f, tie) /\ \A k \in Nat : \A s \in Lists(k) : f[s] \in TreesTo[k]
<1> DEFINE T == Seq(Points)
           W == AllTrees
           D == [k \in Nat |-> Lists(k)]
           V == TreesTo
           B == [s \in T |-> Null]
           L == [s \in T |-> LowerHalf(s, tie)]
           R == [s \in T |-> UpperHalf(s, tie)]
           G == [x \in T \X W \X W |-> BuiltNode(x[1], tie, x[2], x[3])]
<1>1. D \in [Nat -> SUBSET T] /\ V \in [Nat -> SUBSET W]
  BY ListsAre, AllTreesIs
<1>2. \A s \in T : \E k \in Nat : s \in D[k]
  BY ListsAre, PlacesAre
<1>3. \A k \in Nat : D[k] \subseteq D[k + 1] /\ V[k] \subseteq V[k + 1]
  BY ListsAre, AllTreesIs
<1>4. \A s \in D[0] : B[s] \in V[0]
  <2>1. \A s \in D[0] : B[s] = Null
    BY ListsAre
  <2> QED
    BY <2>1, TreesRise
<1>5. \A s \in T : s \in D[0] <=> s = <<>>
  BY ListsAre
<1>6. ASSUME NEW k \in Nat, NEW s \in D[k + 1] \ D[k]
      PROVE  s \in T /\ s # <<>> /\ L[s] \in D[k] /\ R[s] \in D[k]
  <2>1. s \in Lists(k + 1) /\ s \notin Lists(k) /\ s \in T
    BY ListsAre
  <2>2. s # <<>>
    <3>1. <<>> \in Lists(k)
      <4>1. <<>> \in Seq(Points) /\ Len(<<>>) = 0 /\ Capacity[k] \in Nat
        BY CapacityRises
      <4> QED
        BY <4>1 DEF Lists
    <3> QED
      BY <2>1, <3>1
  <2> QED
    BY <2>1, <2>2, ListsAre
<1>7. ASSUME NEW s \in T, NEW v \in W, NEW w \in W
      PROVE  G[<<s, v, w>>] = BuiltNode(s, tie, v, w)
  OBVIOUS
<1>8. ASSUME NEW k \in Nat, NEW s \in D[k + 1] \ D[k], NEW v \in V[k], NEW w \in V[k]
      PROVE  G[<<s, v, w>>] \in V[k + 1]
  <2>1. s \in T /\ s # <<>>
    BY <1>6
  <2>2. v \in W /\ w \in W /\ v \in TreesTo[k] /\ w \in TreesTo[k]
    BY AllTreesIs
  <2>3. BuiltNode(s, tie, v, w) \in NodesOver(TreesTo[k])
    BY <2>1, <2>2, BuiltNodeIs
  <2>4. BuiltNode(s, tie, v, w) \in TreesTo[k + 1]
    BY <2>3, NodeRise
  <2> QED
    BY <1>7, <2>1, <2>2, <2>4
<1>9. Founded(T, W, D, V, B, L, R, G)
  <2> HIDE DEF T, W, D, V, B, L, R, G
  <2> QED
    BY <1>1, <1>2, <1>3, <1>4, <1>6, <1>8 DEF Founded
<1>10. PICK f \in [T -> W] :
         /\ \A s \in T : f[s] = IF s \in D[0] THEN B[s] ELSE G[<<s, f[L[s]], f[R[s]]>>]
         /\ \A k \in Nat : \A s \in D[k] : f[s] \in V[k]
  <2> HIDE DEF T, W, D, V, B, L, R, G
  <2> QED
    BY <1>9, Recursion
<1>11. ASSUME NEW s \in T
       PROVE  f[s] = IF s = <<>> THEN Null
                     ELSE BuiltNode(s, tie, f[LowerHalf(s, tie)], f[UpperHalf(s, tie)])
  <2>1. CASE s = <<>>
    BY <1>5, <1>10, <2>1
  <2>2. CASE s # <<>>
    <3>1. f[s] = G[<<s, f[LowerHalf(s, tie)], f[UpperHalf(s, tie)]>>]
      <4>1. f[s] = G[<<s, f[L[s]], f[R[s]]>>]
        BY <1>5, <1>10, <2>2
      <4>2. L[s] = LowerHalf(s, tie) /\ R[s] = UpperHalf(s, tie)
        OBVIOUS
      <4> QED
        BY <4>1, <4>2
    <3>2. f[LowerHalf(s, tie)] \in W /\ f[UpperHalf(s, tie)] \in W
      BY <2>2, HalvesAre
    <3> DEFINE v == f[LowerHalf(s, tie)]
               w == f[UpperHalf(s, tie)]
    <3>3. v \in W /\ w \in W /\ f[s] = G[<<s, v, w>>]
      BY <3>1, <3>2
    <3> HIDE DEF v, w
    <3>4. f[s] = BuiltNode(s, tie, v, w)
      <4> HIDE DEF G, W, T
      <4> QED
        BY <1>7, <3>3
    <3> QED
      BY <2>2, <3>4 DEF v, w
  <2> QED
    BY <2>1, <2>2
<1>12. BuildFrom(f, tie)
  BY <1>11 DEF BuildFrom, BuiltNode, NewNode, MiddlePoint, UpperHalf, LowerHalf, Middle, SortedBy, AxisOf
<1>13. \A k \in Nat : \A s \in Lists(k) : f[s] \in TreesTo[k]
  BY <1>10
<1> QED
  BY <1>12, <1>13

\* A tree built from points, by the points before and after the middle.
LEMMA BuildTreeIs ==
  ASSUME NEW tie \in Ties
  PROVE  /\ BuildTree(<<>>, tie) = Null
         /\ \A s \in Seq(Points) \ {<<>>} :
              BuildTree(s, tie)
                = BuiltNode(s, tie, BuildTree(LowerHalf(s, tie), tie), BuildTree(UpperHalf(s, tie), tie))
         /\ \A k \in 0 .. MaxHeight : \A s \in Lists(k) : BuildTree(s, tie) \in TreesTo[k]
<1> DEFINE f == CHOOSE g : BuildFrom(g, tie)
<1>1. BuildFrom(f, tie)
  BY BuildExists
<1>2. \A s \in Seq(Points) : BuildTree(s, tie) = f[s]
  BY BuildIs
<1> HIDE DEF f
<1>3. \A s \in Seq(Points) :
        f[s] = IF s = <<>> THEN Null
               ELSE BuiltNode(s, tie, f[LowerHalf(s, tie)], f[UpperHalf(s, tie)])
  BY <1>1, BuildValue
<1>4. \A s \in Seq(Points) : BuildTree(s, tie) =
        IF s = <<>> THEN Null
        ELSE BuiltNode(s, tie, BuildTree(LowerHalf(s, tie), tie), BuildTree(UpperHalf(s, tie), tie))
  <2> SUFFICES ASSUME NEW s \in Seq(Points)
               PROVE  BuildTree(s, tie) =
                        IF s = <<>> THEN Null
                        ELSE BuiltNode(s, tie, BuildTree(LowerHalf(s, tie), tie), BuildTree(UpperHalf(s, tie), tie))
    OBVIOUS
  <2>1. CASE s = <<>>
    BY <1>2, <1>3, <2>1
  <2>2. CASE s # <<>>
    <3>1. LowerHalf(s, tie) \in Seq(Points) /\ UpperHalf(s, tie) \in Seq(Points)
      BY <2>2, HalvesAre
    <3>2. /\ BuildTree(LowerHalf(s, tie), tie) = f[LowerHalf(s, tie)]
          /\ BuildTree(UpperHalf(s, tie), tie) = f[UpperHalf(s, tie)]
          /\ BuildTree(s, tie) = f[s]
      BY <1>2, <3>1
    <3>3. f[s] = BuiltNode(s, tie, f[LowerHalf(s, tie)], f[UpperHalf(s, tie)])
      BY <1>3, <2>2
    <3> QED
      BY <2>2, <3>2, <3>3, Zenon
  <2> QED
    BY <2>1, <2>2
<1>5. BuildTree(<<>>, tie) = Null
  BY <1>4, EmptySeq
<1>6. \A k \in 0 .. MaxHeight : \A s \in Lists(k) : BuildTree(s, tie) \in TreesTo[k]
  <2> DEFINE S == {k \in Nat : \A s \in Lists(k) : BuildTree(s, tie) \in TreesTo[k]}
  <2>1. 0 \in S
    BY <1>5, ListsAre, TreesRise
  <2>2. ASSUME NEW k \in Nat, k \in S PROVE k + 1 \in S
    <3> SUFFICES ASSUME NEW s \in Lists(k + 1) PROVE BuildTree(s, tie) \in TreesTo[k + 1]
      OBVIOUS
    <3>1. CASE s = <<>>
      BY <1>5, <3>1, TreesRise
    <3>2. CASE s # <<>>
      <4>1. /\ s \in Seq(Points)
            /\ BuildTree(LowerHalf(s, tie), tie) \in TreesTo[k]
            /\ BuildTree(UpperHalf(s, tie), tie) \in TreesTo[k]
        BY <2>2, <3>2, ListsAre
      <4>2. BuildTree(s, tie) \in NodesOver(TreesTo[k])
        BY <1>4, <3>2, <4>1, BuiltNodeIs
      <4> QED
        BY <4>2, NodeRise
    <3> QED
      BY <3>1, <3>2
  <2>3. \A k \in Nat : k \in S
    <3> HIDE DEF S
    <3> QED
      BY <2>1, <2>2, AllNaturals
  <2> QED
    BY <2>3, HeightIs
<1>7. \A s \in Seq(Points) \ {<<>>} :
        BuildTree(s, tie)
          = BuiltNode(s, tie, BuildTree(LowerHalf(s, tie), tie), BuildTree(UpperHalf(s, tie), tie))
  BY <1>4
<1> QED
  BY <1>5, <1>6, <1>7

-----------------------------------------------------------------------------
(* The valid points of a tree.                                             *)

Num(n, S) == CountIn(flatten[n], S)
Valid(n) == Elements(flatten[n])
OwnValid(n) == IF n.point_deleted THEN {} ELSE {n.point}

\* The fields of a tree that is not Null.
LEMMA TreeFields ==
  ASSUME NEW n \in Trees, n # Null
  PROVE  /\ n.point \in Points /\ n.point \in [Axes -> Int] /\ n.division_axis \in Axes
         /\ n.left \in Trees /\ n.right \in Trees
         /\ n.TreeSize \in Nat /\ n.invalid_point_num \in Nat /\ n.down_del_num \in Nat
         /\ n.point_deleted \in BOOLEAN /\ n.tree_deleted \in BOOLEAN
         /\ n.point_downsample_deleted \in BOOLEAN /\ n.tree_downsample_deleted \in BOOLEAN
         /\ n.need_push_down_to_left \in BOOLEAN /\ n.need_push_down_to_right \in BOOLEAN
         /\ n.lo \in [Axes -> Int] /\ n.hi \in [Axes -> Int]
<1>1. n \in Nodal /\ n.left \in Trees /\ n.right \in Trees
  BY NodalIs
<1> QED
  BY <1>1, FieldsOf, PointsAre DEF Nodal

\* The points of a set a node itself lists.
LEMMA CountOwn ==
  ASSUME NEW X, NEW n \in NodesOver(X), NEW S
  PROVE  CountIn(Own(n), S) = Count(~n.point_deleted /\ n.point \in S)
<1>1. n.point_deleted \in BOOLEAN
  BY FieldsOf
<1>2. CASE n.point_deleted
  <2>1. Own(n) = <<>>
    BY <1>2 DEF Own
  <2>2. CountIn(<<>>, S) = 0
    BY CountEmpty
  <2> QED
    BY <1>2, <2>1, <2>2 DEF Count
<1>3. CASE ~n.point_deleted
  <2>1. Own(n) = <<n.point>>
    BY <1>3 DEF Own
  <2>2. CountIn(<<n.point>>, S) = Count(n.point \in S)
    BY CountOne
  <2> QED
    BY <1>3, <2>1, <2>2 DEF Count
<1> QED
  BY <1>1, <1>2, <1>3

\* Their number, by the node and its sons.
LEMMA NumIs ==
  /\ \A S : Num(Null, S) = 0
  /\ \A n \in Trees : \A S : Num(n, S) \in Nat /\ Num(n, S) <= Num(n, Points)
  /\ \A n \in Trees : Num(n, Points) = Len(flatten[n])
  /\ \A n \in Trees \ {Null} : \A S :
       Num(n, S) = Count(~n.point_deleted /\ n.point \in S) + Num(LeftSon(n), S) + Num(RightSon(n), S)
<1>1. \A S : Num(Null, S) = 0
  BY FlattenIs, CountEmpty DEF Num
<1>2. ASSUME NEW n \in Trees PROVE Num(n, Points) = Len(flatten[n])
  <2>1. flatten[n] \in Seq(Points)
    BY FlattenIs
  <2>2. \A i \in 1 .. Len(flatten[n]) : flatten[n][i] \in Points
    BY <2>1, PlacesAre
  <2> QED
    BY <2>1, <2>2, CountAll DEF Num
<1>3. ASSUME NEW n \in Trees, NEW S PROVE Num(n, S) \in Nat /\ Num(n, S) <= Num(n, Points)
  <2>1. flatten[n] \in Seq(Points)
    BY FlattenIs
  <2>2. Num(n, S) \in 0 .. Len(flatten[n]) /\ Len(flatten[n]) \in Nat
    BY <2>1, PlacesAre DEF Num
  <2> QED
    BY <1>2, <2>2
<1>4. ASSUME NEW n \in Trees \ {Null}, NEW S
      PROVE  Num(n, S) = Count(~n.point_deleted /\ n.point \in S) + Num(LeftSon(n), S) + Num(RightSon(n), S)
  <2> DEFINE r == Push_Down(n)
             u == Own(r)
             v == flatten[LeftSon(n)]
             w == flatten[RightSon(n)]
  <2>1. /\ n \in Nodal /\ r \in Trees /\ r # Null /\ r \in Nodal
        /\ LeftSon(n) \in Trees /\ RightSon(n) \in Trees
    BY NodalIs, SonsInTrees
  <2>2. r.point = n.point /\ r.point_deleted = n.point_deleted
    BY <2>1, PushIs DEF Nodal
  <2>3. flatten[n] = u \o v \o w
    BY FlattenIs
  <2>4. u \in Seq(Points) /\ v \in Seq(Points) /\ w \in Seq(Points)
    BY <2>1, FlattenIs, OwnIs DEF Nodal
  <2>5. CountIn(u, S) = Count(~n.point_deleted /\ n.point \in S)
    BY <2>1, <2>2, CountOwn DEF Nodal
  <2> HIDE DEF u, v, w, r
  <2>6. u \o v \in Seq(Points) /\ CountIn(u \o v, S) = CountIn(u, S) + CountIn(v, S)
    BY <2>4, CountConcat
  <2> DEFINE x == u \o v
  <2>7. CountIn(x \o w, S) = CountIn(x, S) + CountIn(w, S)
    <3> HIDE DEF x
    <3>1. x \in Seq(Points)
      BY <2>6 DEF x
    <3> QED
      BY <2>4, <3>1, CountConcat
  <2>8. CountIn(flatten[n], S) = CountIn(u, S) + CountIn(v, S) + CountIn(w, S)
    BY <2>3, <2>6, <2>7
  <2> QED
    BY <2>5, <2>8 DEF Num, v, w
<1> QED
  BY <1>1, <1>2, <1>3, <1>4

\* The members of a sequence are those it counts.
LEMMA ElementsAre ==
  ASSUME NEW X, NEW s \in Seq(X)
  PROVE  /\ Elements(s) \subseteq X
         /\ \A x : x \in Elements(s) <=> CountIn(s, {x}) # 0
         /\ Elements(s) = {} <=> Len(s) = 0
<1>1. DOMAIN s = 1 .. Len(s) /\ Len(s) \in Nat /\ \A i \in 1 .. Len(s) : s[i] \in X
  BY PlacesAre
<1>2. Elements(s) \subseteq X
  BY <1>1 DEF Elements
<1>3. ASSUME NEW x PROVE x \in Elements(s) <=> CountIn(s, {x}) # 0
  <2>1. CountIn(s, {x}) = 0 <=> \A i \in 1 .. Len(s) : s[i] \notin {x}
    BY CountNone
  <2>2. (\A i \in 1 .. Len(s) : s[i] \notin {x}) <=> ~\E i \in 1 .. Len(s) : s[i] = x
    OBVIOUS
  <2>3. x \in Elements(s) <=> \E i \in 1 .. Len(s) : s[i] = x
    BY <1>1 DEF Elements
  <2>4. CountIn(s, {x}) = 0 <=> x \notin Elements(s)
    BY <2>1, <2>2, <2>3, Zenon
  <2> QED
    BY <2>4, Zenon
<1>4. Elements(s) = {} <=> Len(s) = 0
  <2>1. CASE Len(s) = 0
    <3>1. DOMAIN s = {}
      BY <1>1, <2>1
    <3> QED
      BY <2>1, <3>1 DEF Elements
  <2>2. CASE Len(s) # 0
    <3>1. 1 \in DOMAIN s
      BY <1>1, <2>2
    <3>2. s[1] \in Elements(s)
      BY <3>1 DEF Elements
    <3> QED
      BY <2>2, <3>2
  <2> QED
    BY <2>1, <2>2
<1> QED
  BY <1>2, <1>3, <1>4

\* The valid points of a tree are those of its root and of its sons.
LEMMA ValidIs ==
  /\ Valid(Null) = {}
  /\ \A n \in Trees : /\ Valid(n) \subseteq Points
                      /\ \A x : x \in Valid(n) <=> Num(n, {x}) # 0
                      /\ Valid(n) = {} <=> Num(n, Points) = 0
  /\ \A n \in Trees \ {Null} : Valid(n) = OwnValid(n) \cup Valid(LeftSon(n)) \cup Valid(RightSon(n))
<1>1. ASSUME NEW n \in Trees
      PROVE  /\ Valid(n) \subseteq Points
             /\ \A x : x \in Valid(n) <=> Num(n, {x}) # 0
             /\ Valid(n) = {} <=> Num(n, Points) = 0
  <2>1. flatten[n] \in Seq(Points) /\ Num(n, Points) = Len(flatten[n])
    BY FlattenIs, NumIs
  <2> QED
    BY <2>1, ElementsAre DEF Valid, Num
<1>2. Valid(Null) = {}
  BY <1>1, NumIs, HeightIs
<1>3. ASSUME NEW n \in Trees \ {Null}
      PROVE  Valid(n) = OwnValid(n) \cup Valid(LeftSon(n)) \cup Valid(RightSon(n))
  <2>1. LeftSon(n) \in Trees /\ RightSon(n) \in Trees
    BY SonsInTrees
  <2>2. ASSUME NEW x
        PROVE  x \in Valid(n) <=> x \in OwnValid(n) \/ x \in Valid(LeftSon(n)) \/ x \in Valid(RightSon(n))
    <3>1. Num(n, {x}) = Count(~n.point_deleted /\ n.point \in {x})
                        + Num(LeftSon(n), {x}) + Num(RightSon(n), {x})
      BY NumIs
    <3>2. Num(LeftSon(n), {x}) \in Nat /\ Num(RightSon(n), {x}) \in Nat
      BY <2>1, NumIs
    <3>3. x \in OwnValid(n) <=> ~n.point_deleted /\ n.point \in {x}
      BY DEF OwnValid
    <3>4. Count(~n.point_deleted /\ n.point \in {x}) = IF x \in OwnValid(n) THEN 1 ELSE 0
      BY <3>3 DEF Count
    <3>5. /\ x \in Valid(n) <=> Num(n, {x}) # 0
          /\ x \in Valid(LeftSon(n)) <=> Num(LeftSon(n), {x}) # 0
          /\ x \in Valid(RightSon(n)) <=> Num(RightSon(n), {x}) # 0
      BY <1>1, <2>1
    <3> QED
      BY <3>1, <3>2, <3>4, <3>5
  <2> QED
    BY <2>2
<1> QED
  BY <1>1, <1>2, <1>3

-----------------------------------------------------------------------------
(* Trees whose sizes are right, as they are stored.                        *)

SizedOver(m) ==
  m.TreeSize = SizeOf(m.left) + SizeOf(m.right) + 1 /\ m.down_del_num <= m.TreeSize
SizedSet(S) == \A m \in S \ {Null} : SizedOver(m) /\ m.left \in S /\ m.right \in S
Sized == UNION {S \in SUBSET Trees : SizedSet(S)}

\* The sons of a tree whose sizes are right have right sizes.
LEMMA SizedIs ==
  /\ Sized \subseteq Trees /\ Null \in Sized
  /\ \A n \in Sized \ {Null} : SizedOver(n) /\ n.left \in Sized /\ n.right \in Sized
<1>1. Sized \subseteq Trees
  BY DEF Sized
<1>2. {Null} \in SUBSET Trees /\ SizedSet({Null})
  BY HeightIs DEF SizedSet
<1>3. ASSUME NEW n \in Sized, n # Null PROVE SizedOver(n) /\ n.left \in Sized /\ n.right \in Sized
  <2>1. PICK S \in SUBSET Trees : SizedSet(S) /\ n \in S
    BY DEF Sized
  <2>2. SizedOver(n) /\ n.left \in S /\ n.right \in S
    BY <1>3, <2>1 DEF SizedSet
  <2> QED
    BY <2>1, <2>2 DEF Sized
<1> QED
  BY <1>2, <1>3 DEF Sized

\* A node over two such trees, with the right size, is one.
LEMMA SizedFold ==
  ASSUME NEW n \in Trees, n # Null, SizedOver(n), n.left \in Sized, n.right \in Sized
  PROVE  n \in Sized
<1>1. PICK S \in SUBSET Trees : SizedSet(S) /\ n.left \in S
  BY DEF Sized
<1>2. PICK T \in SUBSET Trees : SizedSet(T) /\ n.right \in T
  BY DEF Sized
<1> DEFINE U == S \cup T \cup {n}
<1>3. U \in SUBSET Trees /\ n \in U
  OBVIOUS
<1>4. SizedSet(U)
  <2> SUFFICES ASSUME NEW m \in U, m # Null
               PROVE  SizedOver(m) /\ m.left \in U /\ m.right \in U
    BY DEF SizedSet
  <2>1. CASE m \in S
    BY <1>1, <2>1 DEF SizedSet
  <2>2. CASE m \in T
    BY <1>2, <2>2 DEF SizedSet
  <2>3. CASE m = n
    BY <1>1, <1>2, <2>3
  <2> QED
    BY <2>1, <2>2, <2>3
<1> HIDE DEF U
<1> QED
  BY <1>3, <1>4 DEF Sized

\* A deletion passed on from above changes no size.
LEMMA SizedPushed ==
  ASSUME NEW n \in Trees, n # Null, NEW s \in Sized, s # Null
  PROVE  PushedTo(n, s) \in Sized /\ PushedTo(n, s) \in Trees /\ PushedTo(n, s) # Null
<1>1. s \in Trees /\ SizedOver(s) /\ s.left \in Sized /\ s.right \in Sized
  BY SizedIs
<1>2. n \in Nodal /\ s \in Nodal
  BY <1>1, NodalIs
<1>3. PICK h \in 0 .. MaxHeight : h # 0 /\ s \in NodesOver(TreesTo[h - 1])
  <2>1. MaxHeight # 0 /\ s \in NodesOver(TreesTo[MaxHeight - 1])
    BY <1>1, HeightIs, NodeIs
  <2> QED
    BY <2>1, HeightIs
<1>4. /\ PushedTo(n, s) \in NodesOver(TreesTo[h - 1])
      /\ PushedTo(n, s).left = s.left /\ PushedTo(n, s).right = s.right
      /\ PushedTo(n, s).TreeSize = s.TreeSize
  BY <1>2, <1>3, PushedToIs DEF Nodal
<1>5. PushedTo(n, s) \in Trees /\ PushedTo(n, s) # Null
  <2>1. h - 1 \in 0 .. MaxHeight - 1
    BY <1>3, HeightIs
  <2> QED
    BY <1>4, <2>1, NodeInTrees
<1>6. PushedTo(n, s).down_del_num \in {s.TreeSize, s.down_del_num}
  BY <1>2 DEF PushedTo, Nodal, NodesOver
<1>7. s.TreeSize \in Nat
  BY <1>1, TreeFields
<1>8. SizedOver(PushedTo(n, s))
  BY <1>1, <1>4, <1>6, <1>7 DEF SizedOver
<1> QED
  BY <1>1, <1>4, <1>5, <1>8, SizedFold

-----------------------------------------------------------------------------
(* Trees in order: what holds of every node a walk comes to.               *)

Fresh(s) ==
  /\ s.left = Null /\ s.right = Null
  /\ ~s.point_deleted /\ ~s.tree_deleted
  /\ ~s.point_downsample_deleted /\ ~s.tree_downsample_deleted
  /\ s.TreeSize = 1 /\ s.invalid_point_num = 0 /\ s.down_del_num = 0
  /\ s.lo = s.point /\ s.hi = s.point

SumsRight(n) ==
  /\ n.invalid_point_num + Num(n, Points) = n.TreeSize
  /\ n.tree_deleted <=> Valid(n) = {}
Tight(n) ==
  Valid(n) # {} => \A x \in Axes : /\ \A p \in Valid(n) : n.lo[x] <= p[x] /\ p[x] <= n.hi[x]
                                   /\ \E p \in Valid(n) : p[x] = n.lo[x]
                                   /\ \E p \in Valid(n) : p[x] = n.hi[x]
FlagsRight(n) ==
  /\ n.tree_downsample_deleted => n.tree_deleted
  /\ n.point_downsample_deleted => n.point_deleted
\* A deletion is pending above a son only if it is one of the whole tree, or if the
\* son came after it was passed on to nobody.
PendingRight(n) ==
  /\ n.need_push_down_to_left /\ n.left # Null => n.tree_deleted \/ Fresh(n.left)
  /\ n.need_push_down_to_right /\ n.right # Null => n.tree_deleted \/ Fresh(n.right)
Balanced(n) == n.tree_deleted \/ ~Criterion_Check(n)

Local(n) ==
  /\ n \in Sized /\ SumsRight(n) /\ Tight(n) /\ FlagsRight(n) /\ PendingRight(n)
  /\ Balanced(n)

GoodSet(S) == \A m \in S \ {Null} : Local(m) /\ LeftSon(m) \in S /\ RightSon(m) \in S
Good == UNION {S \in SUBSET Trees : GoodSet(S)}

\* A tree in order, and the trees a walk from it comes to.
LEMMA GoodIs ==
  /\ Good \subseteq Trees /\ Null \in Good
  /\ \A n \in Good \ {Null} : Local(n) /\ LeftSon(n) \in Good /\ RightSon(n) \in Good
<1>1. Good \subseteq Trees
  BY DEF Good
<1>2. {Null} \in SUBSET Trees /\ GoodSet({Null})
  BY HeightIs DEF GoodSet
<1>3. ASSUME NEW n \in Good, n # Null PROVE Local(n) /\ LeftSon(n) \in Good /\ RightSon(n) \in Good
  <2>1. PICK S \in SUBSET Trees : GoodSet(S) /\ n \in S
    BY DEF Good
  <2>2. Local(n) /\ LeftSon(n) \in S /\ RightSon(n) \in S
    BY <1>3, <2>1 DEF GoodSet
  <2> QED
    BY <2>1, <2>2 DEF Good
<1>4. Null \in Good
  BY <1>2 DEF Good
<1> QED
  BY <1>1, <1>3, <1>4

\* Good is the largest set of trees that walks do not leave: it has every other in it.
LEMMA GoodSetIs ==
  ASSUME NEW S \in SUBSET Trees, GoodSet(S)
  PROVE  S \subseteq Good
<1> QED
  BY DEF Good

\* So a node that is right, over two trees in order, is in order.
LEMMA GoodFold ==
  ASSUME NEW n \in Trees, n # Null, Local(n), LeftSon(n) \in Good, RightSon(n) \in Good
  PROVE  n \in Good
<1>1. PICK S \in SUBSET Trees : GoodSet(S) /\ LeftSon(n) \in S
  BY DEF Good
<1>2. PICK T \in SUBSET Trees : GoodSet(T) /\ RightSon(n) \in T
  BY DEF Good
<1> DEFINE U == S \cup T \cup {n}
<1>3. U \in SUBSET Trees /\ n \in U
  OBVIOUS
<1>4. GoodSet(U)
  <2> SUFFICES ASSUME NEW m \in U, m # Null
               PROVE  Local(m) /\ LeftSon(m) \in U /\ RightSon(m) \in U
    BY DEF GoodSet
  <2>1. CASE m \in S
    BY <1>1, <2>1 DEF GoodSet
  <2>2. CASE m \in T
    BY <1>2, <2>2 DEF GoodSet
  <2>3. CASE m = n
    BY <1>1, <1>2, <2>3
  <2> QED
    BY <2>1, <2>2, <2>3
<1> HIDE DEF U
<1> QED
  BY <1>3, <1>4 DEF Good

\* The sizes of a tree in order are right.
LEMMA GoodSized == Good \subseteq Sized
<1> QED
  BY GoodIs, SizedIs DEF Local

\* Which son has points, whatever is passed on to it.
LEMMA SonsSame ==
  ASSUME NEW n \in Trees, n # Null
  PROVE  /\ LeftSon(n) = Null <=> n.left = Null
         /\ RightSon(n) = Null <=> n.right = Null
         /\ LeftSon(n) = IF n.need_push_down_to_left /\ n.left # Null THEN PushedTo(n, n.left) ELSE n.left
         /\ RightSon(n) = IF n.need_push_down_to_right /\ n.right # Null THEN PushedTo(n, n.right) ELSE n.right
         /\ SizeOf(LeftSon(n)) = SizeOf(n.left) /\ SizeOf(RightSon(n)) = SizeOf(n.right)
<1>1. MaxHeight \in 0 .. MaxHeight /\ n \in TreesTo[MaxHeight]
  BY HeightIs
<1>2. (LeftSon(n) = Null <=> n.left = Null) /\ (RightSon(n) = Null <=> n.right = Null)
  BY <1>1, PushTree
<1>3. n \in Nodal
  BY NodalIs
<1>4. /\ LeftSon(n) = IF n.need_push_down_to_left /\ n.left # Null THEN PushedTo(n, n.left) ELSE n.left
      /\ RightSon(n) = IF n.need_push_down_to_right /\ n.right # Null THEN PushedTo(n, n.right) ELSE n.right
  BY <1>3, PushIs DEF Nodal, LeftSon, RightSon
<1>5. ASSUME NEW s \in Trees, s # Null PROVE PushedTo(n, s).TreeSize = s.TreeSize
  BY <1>3, <1>5, NodalIs, PushedToIs DEF Nodal
<1>6. n.left \in Trees /\ n.right \in Trees
  BY NodalIs
<1>7. SizeOf(LeftSon(n)) = SizeOf(n.left)
  <2>1. CASE n.need_push_down_to_left /\ n.left # Null
    BY <1>2, <1>4, <1>5, <1>6, <2>1 DEF SizeOf
  <2>2. CASE ~(n.need_push_down_to_left /\ n.left # Null)
    BY <1>4, <2>2
  <2> QED
    BY <2>1, <2>2
<1>8. SizeOf(RightSon(n)) = SizeOf(n.right)
  <2>1. CASE n.need_push_down_to_right /\ n.right # Null
    BY <1>2, <1>4, <1>5, <1>6, <2>1 DEF SizeOf
  <2>2. CASE ~(n.need_push_down_to_right /\ n.right # Null)
    BY <1>4, <2>2
  <2> QED
    BY <2>1, <2>2
<1> QED
  BY <1>2, <1>4, <1>7, <1>8

-----------------------------------------------------------------------------
(* Trees a deletion of the whole was passed on to.                         *)

Wiped == {m \in Sized \ {Null} : /\ m.tree_deleted /\ m.point_deleted
                                 /\ m.need_push_down_to_left /\ m.need_push_down_to_right
                                 /\ m.invalid_point_num = m.TreeSize}

\* A son a deletion of the whole was passed on to.
LEMMA PushedDeleted ==
  ASSUME NEW n \in Trees, n # Null, n.tree_deleted, NEW s \in Sized, s # Null
  PROVE  PushedTo(n, s) \in Wiped
<1>1. PushedTo(n, s) \in Sized /\ PushedTo(n, s) # Null
  BY SizedPushed
<1>2. n \in Nodal /\ s \in Nodal
  BY SizedIs, NodalIs
<1>3. PushedTo(n, s).TreeSize = s.TreeSize
  BY <1>2, PushedToIs DEF Nodal
<1>4. PushedTo(n, s).tree_deleted /\ PushedTo(n, s).point_deleted
  BY <1>2 DEF PushedTo, Nodal, NodesOver
<1>5. PushedTo(n, s).need_push_down_to_left /\ PushedTo(n, s).need_push_down_to_right
  BY <1>2 DEF PushedTo, Nodal, NodesOver
<1>6. PushedTo(n, s).invalid_point_num = s.TreeSize
  BY <1>2 DEF PushedTo, Nodal, NodesOver
<1> QED
  BY <1>1, <1>3, <1>4, <1>5, <1>6 DEF Wiped

\* A walk passes the deletion on.
LEMMA WipedSons ==
  ASSUME NEW m \in Wiped
  PROVE  LeftSon(m) \in Wiped \cup {Null} /\ RightSon(m) \in Wiped \cup {Null}
<1>1. /\ m \in Sized /\ m \in Trees /\ m # Null /\ m.tree_deleted
      /\ m.need_push_down_to_left /\ m.need_push_down_to_right
  BY SizedIs DEF Wiped
<1>2. m.left \in Sized /\ m.right \in Sized
  BY <1>1, SizedIs
<1>3. LeftSon(m) = IF m.left # Null THEN PushedTo(m, m.left) ELSE Null
  BY <1>1, SonsSame
<1>4. RightSon(m) = IF m.right # Null THEN PushedTo(m, m.right) ELSE Null
  BY <1>1, SonsSame
<1>5. m.left # Null => PushedTo(m, m.left) \in Wiped
  BY <1>1, <1>2, PushedDeleted
<1>6. m.right # Null => PushedTo(m, m.right) \in Wiped
  BY <1>1, <1>2, PushedDeleted
<1> QED
  BY <1>3, <1>4, <1>5, <1>6

\* Nothing in such a tree is valid.
LEMMA WipedEmpty ==
  ASSUME NEW m \in Wiped
  PROVE  m \in Trees /\ m # Null /\ Valid(m) = {} /\ \A S : Num(m, S) = 0
<1> DEFINE E == {n \in Trees : n \in Wiped => Num(n, Points) = 0}
<1>1. Null \in E
  BY HeightIs, NumIs
<1>2. ASSUME NEW h \in 0 .. MaxHeight - 1, TreesTo[h] \subseteq E
      PROVE  NodesOver(TreesTo[h]) \subseteq E
  <2> SUFFICES ASSUME NEW n \in NodesOver(TreesTo[h]), n \in Wiped
               PROVE  n \in Trees /\ Num(n, Points) = 0
    BY NodeInTrees
  <2>1. n \in Trees /\ n # Null /\ LeftSon(n) \in TreesTo[h] /\ RightSon(n) \in TreesTo[h]
    BY NodeInTrees
  <2>2. LeftSon(n) \in Wiped \cup {Null} /\ RightSon(n) \in Wiped \cup {Null}
    BY WipedSons
  <2>3. Num(LeftSon(n), Points) = 0 /\ Num(RightSon(n), Points) = 0
    BY <1>2, <2>1, <2>2, NumIs
  <2>4. Num(n, Points) = Count(~n.point_deleted /\ n.point \in Points) + 0 + 0
    BY <2>1, <2>3, NumIs
  <2>5. Count(~n.point_deleted /\ n.point \in Points) = 0
    BY DEF Count, Wiped
  <2> QED
    BY <2>1, <2>4, <2>5
<1>3. TreesTo[MaxHeight] \subseteq E
  <2> HIDE DEF E
  <2>1. MaxHeight \in 0 .. MaxHeight
    BY HeightIs
  <2> QED
    BY <1>1, <1>2, <2>1, TreeInduction
<1>4. m \in Trees /\ m # Null
  BY SizedIs DEF Wiped
<1>5. Num(m, Points) = 0
  BY <1>3, <1>4, HeightIs
<1>6. \A S : Num(m, S) = 0
  <2> SUFFICES ASSUME NEW S PROVE Num(m, S) = 0
    OBVIOUS
  <2>1. Num(m, S) \in Nat /\ Num(m, S) <= Num(m, Points)
    BY <1>4, NumIs
  <2> QED
    BY <1>5, <2>1
<1>7. Valid(m) = {}
  BY <1>4, <1>5, ValidIs
<1> QED
  BY <1>4, <1>6, <1>7

\* It is in order.
LEMMA WipedGood == Wiped \subseteq Good
<1> DEFINE S == Wiped \cup {Null}
<1>1. S \in SUBSET Trees
  BY SizedIs DEF Wiped
<1>2. GoodSet(S)
  <2> SUFFICES ASSUME NEW m \in Wiped PROVE Local(m) /\ LeftSon(m) \in S /\ RightSon(m) \in S
    BY DEF GoodSet
  <2>1. m \in Trees /\ m # Null /\ Valid(m) = {} /\ Num(m, Points) = 0
    BY WipedEmpty
  <2>2. m.TreeSize \in Nat
    BY <2>1, TreeFields
  <2>3. m \in Sized /\ m.tree_deleted /\ m.point_deleted /\ m.invalid_point_num = m.TreeSize
    BY DEF Wiped
  <2>4. SumsRight(m) /\ Tight(m) /\ FlagsRight(m) /\ PendingRight(m) /\ Balanced(m)
    BY <2>1, <2>2, <2>3 DEF SumsRight, Tight, FlagsRight, PendingRight, Balanced
  <2> QED
    BY <2>3, <2>4, WipedSons DEF Local
<1> QED
  BY <1>1, <1>2, GoodSetIs

-----------------------------------------------------------------------------
(* A walk leaves a tree in order.                                          *)

\* Push_Down keeps a tree in order, its points and what the next walk finds.
LEMMA PushGood ==
  ASSUME NEW n \in Good, n # Null
  PROVE  /\ Push_Down(n) \in Good /\ Push_Down(n) # Null
         /\ flatten[Push_Down(n)] = flatten[n]
         /\ LeftSon(Push_Down(n)) = LeftSon(n) /\ RightSon(Push_Down(n)) = RightSon(n)
         /\ Push_Down(n).left = LeftSon(n) /\ Push_Down(n).right = RightSon(n)
         /\ LeftSon(n) \in Good /\ RightSon(n) \in Good
         /\ Push_Down(n).TreeSize = n.TreeSize
<1> DEFINE r == Push_Down(n)
<1>1. n \in Trees /\ Local(n) /\ LeftSon(n) \in Good /\ RightSon(n) \in Good /\ n \in Nodal
  BY GoodIs, NodalIs
<1>2. r \in Trees /\ r # Null /\ r \in Nodal
  BY <1>1, SonsInTrees, NodalIs
<1>3. r.left = LeftSon(n) /\ r.right = RightSon(n)
  BY DEF LeftSon, RightSon
<1>4. /\ r.need_push_down_to_left = (n.need_push_down_to_left /\ n.left = Null)
      /\ r.need_push_down_to_right = (n.need_push_down_to_right /\ n.right = Null)
      /\ r.point = n.point /\ r.division_axis = n.division_axis
      /\ r.TreeSize = n.TreeSize /\ r.invalid_point_num = n.invalid_point_num
      /\ r.down_del_num = n.down_del_num
      /\ r.point_deleted = n.point_deleted /\ r.tree_deleted = n.tree_deleted
      /\ r.point_downsample_deleted = n.point_downsample_deleted
      /\ r.tree_downsample_deleted = n.tree_downsample_deleted
      /\ r.lo = n.lo /\ r.hi = n.hi
  BY <1>1, PushIs DEF Nodal
<1>5. /\ LeftSon(n) = Null <=> n.left = Null
      /\ RightSon(n) = Null <=> n.right = Null
      /\ SizeOf(LeftSon(n)) = SizeOf(n.left) /\ SizeOf(RightSon(n)) = SizeOf(n.right)
  BY <1>1, SonsSame
<1>6. Push_Down(r) = r
  BY <1>1, <1>2, <1>3, <1>5, PushTwice DEF Nodal
<1>7. LeftSon(r) = LeftSon(n) /\ RightSon(r) = RightSon(n)
  BY <1>3, <1>6 DEF LeftSon, RightSon
<1> HIDE DEF r
<1>8. flatten[r] = flatten[n]
  <2>1. flatten[r] = Own(Push_Down(r)) \o flatten[LeftSon(r)] \o flatten[RightSon(r)]
    BY <1>2, FlattenIs
  <2>2. flatten[n] = Own(r) \o flatten[LeftSon(n)] \o flatten[RightSon(n)]
    BY <1>1, FlattenIs DEF r
  <2> QED
    BY <1>6, <1>7, <2>1, <2>2
<1>9. r \in Sized
  <2>1. SizedOver(n)
    BY <1>1, SizedIs DEF Local
  <2>2. SizedOver(r)
    BY <1>3, <1>4, <1>5, <2>1 DEF SizedOver
  <2>3. r.left \in Sized /\ r.right \in Sized
    BY <1>1, <1>3, GoodSized
  <2> QED
    BY <1>2, <2>2, <2>3, SizedFold
<1>10. SumsRight(r) /\ Tight(r) /\ FlagsRight(r)
  <2>1. Valid(r) = Valid(n) /\ Num(r, Points) = Num(n, Points)
    BY <1>8 DEF Valid, Num
  <2>2. SumsRight(n) /\ Tight(n) /\ FlagsRight(n)
    BY <1>1 DEF Local
  <2>3. SumsRight(r)
    BY <1>4, <2>1, <2>2 DEF SumsRight
  <2>4. Tight(r)
    BY <1>4, <2>1, <2>2 DEF Tight
  <2>5. FlagsRight(r)
    BY <1>4, <2>2 DEF FlagsRight
  <2> QED
    BY <2>3, <2>4, <2>5
<1>11. PendingRight(r)
  BY <1>3, <1>4, <1>5 DEF PendingRight
<1>12. Balanced(r)
  <2>1. Balanced(n)
    BY <1>1 DEF Local
  <2>2. Criterion_Check(r) = Criterion_Check(n)
    <3>1. CASE n.left = Null /\ n.right = Null
      BY <1>3, <1>4, <1>5, <3>1 DEF Criterion_Check
    <3>2. CASE n.left = Null /\ n.right # Null
      <4>1. r.right.TreeSize = n.right.TreeSize
        BY <1>3, <1>5, <3>2 DEF SizeOf
      <4> QED
        BY <1>3, <1>4, <1>5, <3>2, <4>1 DEF Criterion_Check
    <3>3. CASE n.left # Null
      <4>1. r.left.TreeSize = n.left.TreeSize
        BY <1>3, <1>5, <3>3 DEF SizeOf
      <4> QED
        BY <1>3, <1>4, <1>5, <3>3, <4>1 DEF Criterion_Check
    <3> QED
      BY <3>1, <3>2, <3>3
  <2> QED
    BY <1>4, <2>1, <2>2 DEF Balanced
<1>13. Local(r)
  BY <1>9, <1>10, <1>11, <1>12 DEF Local
<1>14. r \in Good
  BY <1>1, <1>2, <1>7, <1>13, GoodFold
<1> QED
  BY <1>1, <1>2, <1>3, <1>4, <1>7, <1>8, <1>14 DEF r

-----------------------------------------------------------------------------
(* Update puts a node over two trees in order in order itself, but for its *)
(* balance.                                                                *)

\* The limits of Criterion_Check.
LEMMA BalanceIs ==
  /\ MinimalUnbalanced \in Nat /\ MinimalUnbalanced >= 2
  /\ DeleteParam \in Nat /\ BalanceParam \in Int
  /\ (BalanceParam - 50) * MinimalUnbalanced >= 50
<1> QED
  BY ConstantsAssumption

\* A new leaf is in order and has its point.
LEMMA FreshGood ==
  ASSUME NEW s \in Trees, s # Null, Fresh(s)
  PROVE  s \in Good /\ \A S : Num(s, S) = Count(s.point \in S)
<1>1. s.left = Null /\ s.right = Null /\ ~s.point_deleted
  BY DEF Fresh
<1>2. LeftSon(s) = Null /\ RightSon(s) = Null
  BY <1>1, SonsSame
<1>3. \A S : Num(s, S) = Count(s.point \in S)
  <2> SUFFICES ASSUME NEW S PROVE Num(s, S) = Count(s.point \in S)
    OBVIOUS
  <2>1. Num(s, S) = Count(~s.point_deleted /\ s.point \in S) + 0 + 0
    BY <1>2, NumIs
  <2> QED
    BY <1>1, <2>1 DEF Count
<1>4. Valid(s) = {s.point}
  <2>1. Valid(s) = OwnValid(s) \cup Valid(Null) \cup Valid(Null)
    BY <1>2, ValidIs
  <2> QED
    BY <1>1, <2>1, ValidIs DEF OwnValid
<1>5. s.point \in Points /\ s.point \in [Axes -> Int]
  BY TreeFields
<1>6. s \in Sized
  <2>1. SizedOver(s)
    BY <1>1 DEF Fresh, SizedOver, SizeOf
  <2> QED
    BY <1>1, <2>1, SizedFold, SizedIs
<1>7. SumsRight(s)
  <2>1. Num(s, Points) = 1
    BY <1>3, <1>5 DEF Count
  <2> QED
    BY <1>4, <2>1 DEF SumsRight, Fresh
<1>8. Tight(s)
  BY <1>4, <1>5 DEF Tight, Fresh
<1>9. FlagsRight(s) /\ PendingRight(s)
  BY <1>1 DEF FlagsRight, PendingRight, Fresh
<1>10. Balanced(s)
  <2>1. s.TreeSize = 1
    BY DEF Fresh
  <2> QED
    BY <2>1, BalanceIs DEF Balanced, Criterion_Check
<1>11. Local(s)
  BY <1>6, <1>7, <1>8, <1>9, <1>10 DEF Local
<1> QED
  BY <1>2, <1>3, <1>11, GoodFold, GoodIs

\* And stays so when an old flag of its father reaches it, unless that is a deletion.
LEMMA FreshPushed ==
  ASSUME NEW n \in Trees, n # Null, ~n.tree_deleted, ~n.tree_downsample_deleted,
         NEW s \in Trees, s # Null, Fresh(s)
  PROVE  PushedTo(n, s) \in Good /\ \A S : Num(PushedTo(n, s), S) = Num(s, S)
<1>1. s \in Good /\ \A S : Num(s, S) = Count(s.point \in S)
  BY FreshGood
<1>2. PushedTo(n, s) \in Trees /\ PushedTo(n, s) # Null
  BY <1>1, GoodSized, SizedPushed
<1>3. n \in Nodal /\ s \in Nodal
  BY NodalIs
<1>4. /\ PushedTo(n, s).point = s.point /\ PushedTo(n, s).left = s.left /\ PushedTo(n, s).right = s.right
      /\ PushedTo(n, s).TreeSize = s.TreeSize
      /\ PushedTo(n, s).lo = s.lo /\ PushedTo(n, s).hi = s.hi
  BY <1>3, PushedToIs DEF Nodal
<1>5. /\ ~PushedTo(n, s).tree_deleted /\ ~PushedTo(n, s).point_deleted
      /\ ~PushedTo(n, s).tree_downsample_deleted /\ ~PushedTo(n, s).point_downsample_deleted
  BY <1>3 DEF PushedTo, Nodal, NodesOver, Fresh
<1>6. PushedTo(n, s).down_del_num = 0 /\ PushedTo(n, s).invalid_point_num = 0
  BY <1>3 DEF PushedTo, Nodal, NodesOver, Fresh
<1>7. Fresh(PushedTo(n, s))
  BY <1>4, <1>5, <1>6 DEF Fresh
<1>8. PushedTo(n, s) \in Good /\ \A S : Num(PushedTo(n, s), S) = Count(PushedTo(n, s).point \in S)
  BY <1>2, <1>7, FreshGood
<1> QED
  BY <1>1, <1>4, <1>8

Joined(m) ==
  /\ m.left \in Good /\ m.right \in Good
  /\ m.point_downsample_deleted => m.point_deleted
  /\ m.need_push_down_to_left /\ m.left # Null => Fresh(m.left)
  /\ m.need_push_down_to_right /\ m.right # Null => Fresh(m.right)

Ready(u) ==
  /\ u \in Trees /\ u # Null /\ u \in Sized
  /\ SumsRight(u) /\ Tight(u) /\ FlagsRight(u) /\ PendingRight(u)
  /\ LeftSon(u) \in Good /\ RightSon(u) \in Good

Total(m, S) == Count(~m.point_deleted /\ m.point \in S) + Num(m.left, S) + Num(m.right, S)

\* The sons a walk finds under an updated node.
LEMMA UpdateSons ==
  ASSUME NEW h \in 0 .. MaxHeight - 1, NEW m \in NodesOver(TreesTo[h]), Joined(m)
  PROVE  LET u == Update(m)
         IN  /\ u \in NodesOver(TreesTo[h]) /\ u \in TreesTo[h + 1] /\ u \in Trees /\ u # Null
             /\ LeftSon(u) \in Good /\ RightSon(u) \in Good
             /\ \A S : Num(LeftSon(u), S) = Num(m.left, S) /\ Num(RightSon(u), S) = Num(m.right, S)
             /\ \A S : Num(u, S) = Total(m, S)
<1> DEFINE u == Update(m)
<1>1. h \in Nat /\ m \in Trees /\ m # Null
  BY NodeInTrees
<1>2. /\ u \in NodesOver(TreesTo[h])
      /\ u.point = m.point /\ u.left = m.left /\ u.right = m.right
      /\ u.point_deleted = m.point_deleted
      /\ u.need_push_down_to_left = m.need_push_down_to_left
      /\ u.need_push_down_to_right = m.need_push_down_to_right
      /\ u.tree_deleted = Dead(m) /\ u.tree_downsample_deleted = AllDown(m)
  BY <1>1, UpdateIs
<1> HIDE DEF u
<1>3. u \in TreesTo[h + 1] /\ u \in Trees /\ u # Null
  BY <1>2, NodeInTrees
<1>4. m.left \in Good /\ m.right \in Good /\ m.left \in Trees /\ m.right \in Trees
  BY GoodIs DEF Joined
<1>5. ASSUME NEW s \in Sons(m), Fresh(s)
      PROVE  ~u.tree_deleted /\ ~u.tree_downsample_deleted
  BY <1>2, <1>5 DEF Fresh, Dead, AllDown
<1>6. /\ LeftSon(u) = IF m.need_push_down_to_left /\ m.left # Null THEN PushedTo(u, m.left) ELSE m.left
      /\ RightSon(u) = IF m.need_push_down_to_right /\ m.right # Null THEN PushedTo(u, m.right) ELSE m.right
  BY <1>2, <1>3, SonsSame
<1>7. LeftSon(u) \in Good /\ \A S : Num(LeftSon(u), S) = Num(m.left, S)
  <2>1. CASE m.need_push_down_to_left /\ m.left # Null
    <3>1. Fresh(m.left) /\ m.left \in Sons(m)
      BY <2>1 DEF Joined, Sons
    <3>2. ~u.tree_deleted /\ ~u.tree_downsample_deleted
      BY <1>5, <3>1
    <3> QED
      BY <1>3, <1>4, <1>6, <2>1, <3>1, <3>2, FreshPushed
  <2>2. CASE ~(m.need_push_down_to_left /\ m.left # Null)
    BY <1>4, <1>6, <2>2
  <2> QED
    BY <2>1, <2>2
<1>8. RightSon(u) \in Good /\ \A S : Num(RightSon(u), S) = Num(m.right, S)
  <2>1. CASE m.need_push_down_to_right /\ m.right # Null
    <3>1. Fresh(m.right) /\ m.right \in Sons(m)
      BY <2>1 DEF Joined, Sons
    <3>2. ~u.tree_deleted /\ ~u.tree_downsample_deleted
      BY <1>5, <3>1
    <3> QED
      BY <1>3, <1>4, <1>6, <2>1, <3>1, <3>2, FreshPushed
  <2>2. CASE ~(m.need_push_down_to_right /\ m.right # Null)
    BY <1>4, <1>6, <2>2
  <2> QED
    BY <2>1, <2>2
<1>9. \A S : Num(u, S) = Total(m, S)
  <2> SUFFICES ASSUME NEW S PROVE Num(u, S) = Total(m, S)
    OBVIOUS
  <2>1. Num(u, S) = Count(~u.point_deleted /\ u.point \in S) + Num(LeftSon(u), S) + Num(RightSon(u), S)
    BY <1>3, NumIs
  <2> QED
    BY <1>2, <1>7, <1>8, <2>1 DEF Total
<1> QED
  BY <1>2, <1>3, <1>7, <1>8, <1>9 DEF u

\* Count is one or none.
LEMMA CountIsOne == \A c \in BOOLEAN : Count(c) \in {0, 1} /\ (Count(c) = 0 <=> ~c) /\ Count(~c) = 1 - Count(c)
<1> QED
  BY DEF Count

\* The sums of a tree in order, Null or not.
LEMMA SumsOf ==
  ASSUME NEW s \in Good
  PROVE  /\ s \in Trees /\ SizeOf(s) \in Nat /\ InvalidOf(s) \in Nat /\ DownDeletedOf(s) \in Nat
         /\ InvalidOf(s) + Num(s, Points) = SizeOf(s) /\ DownDeletedOf(s) <= SizeOf(s)
         /\ Num(s, Points) \in Nat
         /\ s # Null => (s.tree_deleted <=> Valid(s) = {})
<1>1. s \in Trees /\ Num(s, Points) \in Nat
  BY GoodIs, NumIs
<1>2. CASE s = Null
  BY <1>1, <1>2, NumIs DEF SizeOf, InvalidOf, DownDeletedOf
<1>3. CASE s # Null
  <2>1. SumsRight(s) /\ SizedOver(s)
    BY <1>3, GoodIs, SizedIs DEF Local
  <2>2. s.TreeSize \in Nat /\ s.invalid_point_num \in Nat /\ s.down_del_num \in Nat
    BY <1>1, <1>3, TreeFields
  <2> QED
    BY <1>1, <1>3, <2>1, <2>2 DEF SizeOf, InvalidOf, DownDeletedOf, SumsRight, SizedOver
<1> QED
  BY <1>2, <1>3

\* Only the balance is left to see to, and the points are those of the parts.
LEMMA UpdateReady ==
  ASSUME NEW h \in 0 .. MaxHeight - 1, NEW m \in NodesOver(TreesTo[h]), Joined(m)
  PROVE  /\ Update(m) \in TreesTo[h + 1] /\ Ready(Update(m))
         /\ \A S : Num(Update(m), S) = Total(m, S)
<1> DEFINE u == Update(m)
           l == m.left
           r == m.right
<1>1. h \in Nat /\ m \in Trees /\ m # Null
  BY NodeInTrees
<1>2. /\ u.point = m.point /\ u.left = l /\ u.right = r
      /\ u.point_deleted = m.point_deleted
      /\ u.point_downsample_deleted = m.point_downsample_deleted
      /\ u.need_push_down_to_left = m.need_push_down_to_left
      /\ u.need_push_down_to_right = m.need_push_down_to_right
      /\ u.TreeSize = SizeOf(l) + SizeOf(r) + 1
      /\ u.invalid_point_num = InvalidOf(l) + InvalidOf(r) + Count(m.point_deleted)
      /\ u.down_del_num = DownDeletedOf(l) + DownDeletedOf(r) + Count(m.point_downsample_deleted)
      /\ u.tree_deleted = Dead(m) /\ u.tree_downsample_deleted = AllDown(m)
      /\ \A x \in Axes : /\ u.lo[x] = Min({c[x] : c \in Corners(m)})
                         /\ u.hi[x] = Max({c[x] : c \in Corners(m)})
  BY <1>1, UpdateIs
<1>3. /\ u \in TreesTo[h + 1] /\ u \in Trees /\ u # Null
      /\ LeftSon(u) \in Good /\ RightSon(u) \in Good
      /\ \A S : Num(u, S) = Total(m, S)
  BY UpdateSons
<1> HIDE DEF u
<1>4. /\ l \in Good /\ r \in Good /\ l \in Trees /\ r \in Trees
      /\ m.point_downsample_deleted => m.point_deleted
  BY GoodIs DEF Joined
<1>5. /\ m.point \in Points /\ m.point \in [Axes -> Int]
      /\ m.point_deleted \in BOOLEAN /\ m.point_downsample_deleted \in BOOLEAN
  BY <1>1, TreeFields
<1>6. /\ SizeOf(l) \in Nat /\ InvalidOf(l) \in Nat /\ DownDeletedOf(l) \in Nat
      /\ InvalidOf(l) + Num(l, Points) = SizeOf(l) /\ DownDeletedOf(l) <= SizeOf(l)
      /\ Num(l, Points) \in Nat /\ (l # Null => (l.tree_deleted <=> Valid(l) = {}))
  BY <1>4, SumsOf
<1>7. /\ SizeOf(r) \in Nat /\ InvalidOf(r) \in Nat /\ DownDeletedOf(r) \in Nat
      /\ InvalidOf(r) + Num(r, Points) = SizeOf(r) /\ DownDeletedOf(r) <= SizeOf(r)
      /\ Num(r, Points) \in Nat /\ (r # Null => (r.tree_deleted <=> Valid(r) = {}))
  BY <1>4, SumsOf
<1>8. Valid(u) = OwnValid(m) \cup Valid(l) \cup Valid(r)
  <2> SUFFICES ASSUME NEW x
               PROVE  x \in Valid(u) <=> x \in OwnValid(m) \/ x \in Valid(l) \/ x \in Valid(r)
    OBVIOUS
  <2>1. Num(u, {x}) = Count(~m.point_deleted /\ m.point \in {x}) + Num(l, {x}) + Num(r, {x})
    BY <1>3 DEF Total
  <2>2. Num(l, {x}) \in Nat /\ Num(r, {x}) \in Nat
    BY <1>4, NumIs
  <2>3. Count(~m.point_deleted /\ m.point \in {x}) = IF x \in OwnValid(m) THEN 1 ELSE 0
    BY DEF Count, OwnValid
  <2>4. /\ x \in Valid(u) <=> Num(u, {x}) # 0
        /\ x \in Valid(l) <=> Num(l, {x}) # 0
        /\ x \in Valid(r) <=> Num(r, {x}) # 0
    BY <1>3, <1>4, ValidIs
  <2> QED
    BY <2>1, <2>2, <2>3, <2>4
<1>9. Valid(Null) = {} /\ Valid(l) \subseteq Points /\ Valid(r) \subseteq Points
  BY <1>4, ValidIs
<1>10. Dead(m) <=> Valid(u) = {}
  <2>1. OwnValid(m) = {} <=> m.point_deleted
    BY DEF OwnValid
  <2>2. (\A s \in Sons(m) : s.tree_deleted) <=> Valid(l) = {} /\ Valid(r) = {}
    BY <1>6, <1>7, <1>9 DEF Sons
  <2> QED
    BY <1>8, <2>1, <2>2 DEF Dead
<1>11. SumsRight(u)
  <2>1. Num(u, Points) = Count(~m.point_deleted) + Num(l, Points) + Num(r, Points)
    BY <1>3, <1>5 DEF Total
  <2>2. Count(m.point_deleted) + Count(~m.point_deleted) = 1
    BY DEF Count
  <2>3. Count(m.point_deleted) \in Nat /\ Count(~m.point_deleted) \in Nat
    BY DEF Count
  <2>4. u.invalid_point_num + Num(u, Points) = u.TreeSize
    BY <1>2, <1>6, <1>7, <2>1, <2>2, <2>3
  <2> QED
    BY <1>2, <1>10, <2>4 DEF SumsRight
<1>12. u \in Sized
  <2>1. Count(m.point_downsample_deleted) \in {0, 1}
    BY DEF Count
  <2>2. u.down_del_num <= u.TreeSize
    BY <1>2, <1>6, <1>7, <2>1
  <2>3. SizedOver(u)
    BY <1>2, <2>2 DEF SizedOver
  <2> QED
    BY <1>2, <1>3, <1>4, <2>3, GoodSized, SizedFold
<1>13. FlagsRight(u)
  <2>1. ASSUME NEW s \in Sons(m), s.tree_downsample_deleted PROVE s.tree_deleted
    <3>1. s \in Good /\ s # Null
      BY <1>4 DEF Sons
    <3> QED
      BY <2>1, <3>1, GoodIs DEF Local, FlagsRight
  <2>2. AllDown(m) => Dead(m)
    BY <1>4, <2>1 DEF AllDown, Dead
  <2> QED
    BY <1>2, <1>4, <2>2 DEF FlagsRight
<1>14. PendingRight(u)
  BY <1>2 DEF PendingRight, Joined
<1>15. Tight(u)
  <2> SUFFICES ASSUME Valid(u) # {}, NEW x \in Axes
               PROVE  /\ \A p \in Valid(u) : u.lo[x] <= p[x] /\ p[x] <= u.hi[x]
                      /\ \E p \in Valid(u) : p[x] = u.lo[x]
                      /\ \E p \in Valid(u) : p[x] = u.hi[x]
    BY DEF Tight
  <2>1. ~Dead(m)
    BY <1>10
  <2>2. Corners(m) = OwnValid(m) \cup UNION {{s.lo, s.hi} : s \in {t \in Sons(m) : ~t.tree_deleted}}
    BY <2>1 DEF Corners, OwnValid
  <2>3. Corners(m) \in SUBSET [Axes -> Int] /\ IsFiniteSet(Corners(m)) /\ Corners(m) # {}
    BY <1>1, CornersAre
  <2>4. /\ u.lo[x] \in Int /\ u.hi[x] \in Int
        /\ \A c \in Corners(m) : u.lo[x] <= c[x] /\ c[x] <= u.hi[x]
        /\ \E c \in Corners(m) : u.lo[x] = c[x]
        /\ \E c \in Corners(m) : u.hi[x] = c[x]
    BY <1>2, <2>3, CornersOf
  <2>5. ASSUME NEW s \in Sons(m)
        PROVE  /\ s \in Good /\ s # Null /\ (s.tree_deleted <=> Valid(s) = {})
               /\ Valid(s) \subseteq Valid(u) /\ Valid(s) \subseteq Points
               /\ s.lo[x] \in Int /\ s.hi[x] \in Int
               /\ Valid(s) # {} => /\ \A p \in Valid(s) : s.lo[x] <= p[x] /\ p[x] <= s.hi[x]
                                   /\ \E p \in Valid(s) : p[x] = s.lo[x]
                                   /\ \E p \in Valid(s) : p[x] = s.hi[x]
    <3>1. s \in Good /\ s # Null /\ s \in {l, r}
      BY <1>4 DEF Sons
    <3>2. SumsRight(s) /\ Tight(s) /\ s \in Trees
      BY <3>1, GoodIs DEF Local
    <3>3. Valid(s) \subseteq Valid(u) /\ Valid(s) \subseteq Points
      BY <1>8, <1>9, <3>1
    <3>4. s.lo[x] \in Int /\ s.hi[x] \in Int
      BY <3>1, <3>2, TreeFields
    <3>5. s.tree_deleted <=> Valid(s) = {}
      BY <3>2 DEF SumsRight
    <3>6. Valid(s) # {} => /\ \A p \in Valid(s) : s.lo[x] <= p[x] /\ p[x] <= s.hi[x]
                           /\ \E p \in Valid(s) : p[x] = s.lo[x]
                           /\ \E p \in Valid(s) : p[x] = s.hi[x]
      BY <3>2 DEF Tight
    <3> QED
      BY <3>1, <3>3, <3>4, <3>5, <3>6
  <2>6. ASSUME NEW p \in Valid(u)
        PROVE  u.lo[x] <= p[x] /\ p[x] <= u.hi[x]
    <3>1. CASE p \in OwnValid(m)
      BY <2>2, <2>4, <3>1
    <3>2. ASSUME NEW s \in Sons(m), p \in Valid(s) PROVE u.lo[x] <= p[x] /\ p[x] <= u.hi[x]
      <4>1. ~s.tree_deleted /\ s.lo[x] <= p[x] /\ p[x] <= s.hi[x] /\ s.lo[x] \in Int /\ s.hi[x] \in Int
        BY <2>5, <3>2
      <4>2. s.lo \in Corners(m) /\ s.hi \in Corners(m)
        BY <2>2, <4>1
      <4>3. u.lo[x] <= s.lo[x] /\ s.hi[x] <= u.hi[x]
        BY <2>4, <4>2
      <4>4. p[x] \in Int
        <5>1. p \in Points
          BY <2>5, <3>2
        <5> QED
          BY <5>1, PointsAre
      <4> QED
        BY <2>4, <4>1, <4>3, <4>4
    <3>3. p \in OwnValid(m) \/ \E s \in Sons(m) : p \in Valid(s)
      BY <1>8, <1>9 DEF Sons
    <3> QED
      BY <3>1, <3>2, <3>3
  <2>7. ASSUME NEW c \in Corners(m)
        PROVE  \E p \in Valid(u) : p[x] = c[x]
    <3>1. CASE c \in OwnValid(m)
      BY <1>8, <3>1
    <3>2. ASSUME NEW s \in Sons(m), ~s.tree_deleted, c \in {s.lo, s.hi} PROVE \E p \in Valid(u) : p[x] = c[x]
      <4>1. /\ Valid(s) \subseteq Valid(u)
            /\ \E p \in Valid(s) : p[x] = s.lo[x]
            /\ \E p \in Valid(s) : p[x] = s.hi[x]
        BY <2>5, <3>2
      <4> QED
        BY <3>2, <4>1
    <3>3. c \in OwnValid(m) \/ \E s \in Sons(m) : ~s.tree_deleted /\ c \in {s.lo, s.hi}
      BY <2>2
    <3> QED
      BY <3>1, <3>2, <3>3
  <2>8. (\E p \in Valid(u) : p[x] = u.lo[x]) /\ (\E p \in Valid(u) : p[x] = u.hi[x])
    <3>1. PICK c \in Corners(m) : u.lo[x] = c[x]
      BY <2>4
    <3>2. PICK d \in Corners(m) : u.hi[x] = d[x]
      BY <2>4
    <3> QED
      BY <2>7, <3>1, <3>2
  <2> QED
    BY <2>6, <2>8
<1>16. Ready(u)
  BY <1>3, <1>11, <1>12, <1>13, <1>14, <1>15 DEF Ready
<1> QED
  BY <1>3, <1>16 DEF u

-----------------------------------------------------------------------------
(* What BuildTree builds is in order and in balance.                       *)

\* Halves as BuildTree makes them pass Criterion_Check: a rebuild ends the imbalance.
LEMMA HalvesBalance ==
  ASSUME NEW L \in Nat, NEW R \in Nat, L \in {R - 1, R}, 1 + L + R > MinimalUnbalanced
  PROVE  /\ L # 0
         /\ ~(100 * L > BalanceParam * (L + R))
         /\ ~(100 * L < (100 - BalanceParam) * (L + R))
<1> DEFINE D == BalanceParam - 50
           M == MinimalUnbalanced
           N == L + R
<1>1. D \in Int /\ M \in Nat /\ M >= 2 /\ D * M >= 50 /\ N \in Nat /\ N >= M
  BY BalanceIs
<1>2. BalanceParam = D + 50
  BY BalanceIs
<1>3. L # 0
  BY <1>1
<1>4. 2 * L <= N /\ N <= 2 * L + 1
  OBVIOUS
<1> HIDE DEF D, M, N
<1>5. D > 0
  <2>1. \A d \in Int : \A n \in Nat : d <= 0 => d * n <= 0
    OBVIOUS
  <2> QED
    BY <1>1, <2>1
<1>6. D * N >= 50
  <2>1. PICK e \in Nat : N = M + e
    <3>1. N - M \in Nat /\ N = M + (N - M)
      BY <1>1
    <3> QED
      BY <3>1
  <2>2. D * N = D * M + D * e
    BY <1>1, <2>1
  <2>3. D * e >= 0
    BY <1>1, <1>5, <2>1
  <2>4. D * M \in Int /\ D * e \in Int
    BY <1>1, <2>1
  <2> QED
    BY <1>1, <2>2, <2>3, <2>4
<1>7. D * N \in Int
  BY <1>1
<1>8. BalanceParam * N = D * N + 50 * N /\ (100 - BalanceParam) * N = 50 * N - D * N
  BY <1>1, <1>2
<1>9. ~(100 * L > BalanceParam * N) /\ ~(100 * L < (100 - BalanceParam) * N)
  BY <1>1, <1>4, <1>6, <1>7, <1>8
<1> QED
  BY <1>3, <1>9 DEF N

\* BuildTree's own promise of a sequence.
BuiltRight(s, tie, k) ==
  LET t == BuildTree(s, tie)
  IN  /\ t \in TreesTo[k] /\ t \in Good
      /\ \A S : Num(t, S) = CountIn(s, S)
      /\ SizeOf(t) = Len(s) /\ (t = Null <=> s = <<>>)

\* A tree over two rightly built halves is rightly built.
LEMMA BuildStep ==
  ASSUME NEW k \in 0 .. MaxHeight - 1, NEW tie \in Ties, NEW s \in Lists(k + 1), s # <<>>,
         BuiltRight(LowerHalf(s, tie), tie, k), BuiltRight(UpperHalf(s, tie), tie, k)
  PROVE  BuiltRight(s, tie, k + 1)
<1> DEFINE l == BuildTree(LowerHalf(s, tie), tie)
           r == BuildTree(UpperHalf(s, tie), tie)
           m == NewNode(MiddlePoint(s, tie), AxisOf(s), l, r)
           u == Update(m)
           L == Len(LowerHalf(s, tie))
           R == Len(UpperHalf(s, tie))
<1>1. s \in Seq(Points) /\ k \in Nat /\ k + 1 \in 0 .. MaxHeight
  BY NodeInTrees, HeightIs DEF Lists
<1>2. /\ AxisOf(s) \in Axes /\ MiddlePoint(s, tie) \in Points
      /\ LowerHalf(s, tie) \in Seq(Points) /\ UpperHalf(s, tie) \in Seq(Points)
      /\ Len(s) = 1 + L + R /\ L \in {R - 1, R}
      /\ \A S : CountIn(s, S) = Count(MiddlePoint(s, tie) \in S)
                                   + CountIn(LowerHalf(s, tie), S) + CountIn(UpperHalf(s, tie), S)
  BY <1>1, HalvesAre
<1>3. /\ l \in TreesTo[k] /\ l \in Good /\ \A S : Num(l, S) = CountIn(LowerHalf(s, tie), S)
      /\ SizeOf(l) = L /\ (l = Null <=> LowerHalf(s, tie) = <<>>)
  BY DEF BuiltRight
<1>4. /\ r \in TreesTo[k] /\ r \in Good /\ \A S : Num(r, S) = CountIn(UpperHalf(s, tie), S)
      /\ SizeOf(r) = R
  BY DEF BuiltRight
<1>5. BuildTree(s, tie) = u
  BY <1>1, BuildTreeIs DEF BuiltNode
<1>6. L \in Nat /\ R \in Nat /\ (l = Null <=> L = 0)
  BY <1>2, <1>3, PlacesAre, EmptySeq
<1> HIDE DEF l, r
<1>7. /\ m \in NodesOver(TreesTo[k]) /\ m.left = l /\ m.right = r /\ m.point = MiddlePoint(s, tie)
      /\ ~m.point_deleted /\ ~m.point_downsample_deleted
      /\ ~m.need_push_down_to_left /\ ~m.need_push_down_to_right
  BY <1>2, <1>3, <1>4, NewNodeIs
<1> HIDE DEF m
<1>8. Joined(m)
  BY <1>3, <1>4, <1>7 DEF Joined
<1>9. u \in TreesTo[k + 1] /\ Ready(u) /\ \A S : Num(u, S) = Total(m, S)
  BY <1>7, <1>8, UpdateReady
<1>10. u.left = l /\ u.right = r /\ u.TreeSize = SizeOf(l) + SizeOf(r) + 1
  BY <1>1, <1>7, UpdateIs
<1> HIDE DEF u
<1>11. ASSUME NEW S PROVE Num(u, S) = CountIn(s, S)
  <2>1. Num(u, S) = Count(~m.point_deleted /\ m.point \in S) + Num(l, S) + Num(r, S)
    BY <1>7, <1>9 DEF Total
  <2>2. Count(~m.point_deleted /\ m.point \in S) = Count(MiddlePoint(s, tie) \in S)
    BY <1>7 DEF Count
  <2>3. Num(u, S) = Count(MiddlePoint(s, tie) \in S) + Num(l, S) + Num(r, S)
    BY <2>1, <2>2
  <2>4. Num(l, S) = CountIn(LowerHalf(s, tie), S) /\ Num(r, S) = CountIn(UpperHalf(s, tie), S)
    BY <1>3, <1>4
  <2>5. CountIn(s, S) = Count(MiddlePoint(s, tie) \in S)
                        + CountIn(LowerHalf(s, tie), S) + CountIn(UpperHalf(s, tie), S)
    BY <1>2
  <2> QED
    BY <2>3, <2>4, <2>5, Zenon
<1>12. u.TreeSize = Len(s) /\ SizeOf(u) = Len(s) /\ Len(s) \in Nat
  <2>1. u.TreeSize = L + R + 1 /\ Len(s) = 1 + L + R
    BY <1>2, <1>3, <1>4, <1>10, Zenon
  <2>2. u # Null
    BY <1>9 DEF Ready
  <2> HIDE DEF L, R
  <2>3. u.TreeSize = Len(s) /\ Len(s) \in Nat
    BY <1>6, <2>1
  <2> QED
    BY <2>2, <2>3 DEF SizeOf
<1>13. u.invalid_point_num = 0
  <2>1. \A i \in 1 .. Len(s) : s[i] \in Points
    BY <1>1, PlacesAre
  <2>2. Num(u, Points) = Len(s)
    BY <1>1, <1>11, <2>1, CountAll
  <2>3. u.invalid_point_num + Num(u, Points) = u.TreeSize /\ u.invalid_point_num \in Nat
    BY <1>9, TreeFields DEF Ready, SumsRight
  <2> QED
    BY <1>12, <2>2, <2>3
<1>14. ~Criterion_Check(u)
  <2> SUFFICES ASSUME u.TreeSize > MinimalUnbalanced
               PROVE  ~Criterion_Check(u)
    BY DEF Criterion_Check
  <2>1. /\ L # 0
        /\ ~(100 * L > BalanceParam * (L + R))
        /\ ~(100 * L < (100 - BalanceParam) * (L + R))
    BY <1>2, <1>6, <1>12, HalvesBalance
  <2>2. u.left # Null /\ u.left.TreeSize = L
    BY <1>3, <1>6, <1>10, <2>1 DEF SizeOf
  <2>3. u.TreeSize - 1 = L + R
    BY <1>2, <1>6, <1>12
  <2>4. ~(100 * u.invalid_point_num > DeleteParam * u.TreeSize)
    BY <1>12, <1>13, BalanceIs
  <2> QED
    BY <2>1, <2>2, <2>3, <2>4 DEF Criterion_Check
<1>15. Local(u)
  BY <1>9, <1>14 DEF Local, Ready, Balanced
<1>16. u \in Good /\ u # Null
  BY <1>9, <1>15, GoodFold DEF Ready
<1> QED
  BY <1>5, <1>9, <1>11, <1>12, <1>16 DEF BuiltRight

\* So every list is built into a tree in order with its points.
LEMMA BuildGood ==
  ASSUME NEW tie \in Ties
  PROVE  \A k \in 0 .. MaxHeight : \A s \in Lists(k) : BuiltRight(s, tie, k)
<1> DEFINE S == {k \in 0 .. MaxHeight : \A s \in Lists(k) : BuiltRight(s, tie, k)}
<1>0. \A k \in Nat : BuiltRight(<<>>, tie, k)
  <2>1. BuildTree(<<>>, tie) = Null
    BY BuildTreeIs
  <2>2. Len(<<>>) = 0
    OBVIOUS
  <2> QED
    BY <2>1, <2>2, TreesRise, GoodIs, NumIs, CountEmpty DEF BuiltRight, SizeOf
<1>1. 0 \in S
  BY <1>0, ListsAre, HeightIs
<1>2. ASSUME NEW k \in 0 .. MaxHeight - 1, k \in S PROVE k + 1 \in S
  <2>1. k + 1 \in 0 .. MaxHeight /\ k \in Nat /\ k + 1 \in Nat
    BY HeightIs
  <2> SUFFICES ASSUME NEW s \in Lists(k + 1) PROVE BuiltRight(s, tie, k + 1)
    BY <2>1
  <2>2. CASE s = <<>>
    BY <1>0, <2>1, <2>2
  <2>3. CASE s # <<>>
    <3>1. LowerHalf(s, tie) \in Lists(k) /\ UpperHalf(s, tie) \in Lists(k)
      BY <2>1, <2>3, ListsAre
    <3>2. BuiltRight(LowerHalf(s, tie), tie, k) /\ BuiltRight(UpperHalf(s, tie), tie, k)
      BY <1>2, <3>1
    <3> QED
      BY <2>3, <3>2, BuildStep
  <2> QED
    BY <2>2, <2>3
<1>3. \A k \in 0 .. MaxHeight : k \in S
  <2> HIDE DEF S
  <2> QED
    BY <1>1, <1>2, HeightIs, Induction
<1> QED
  BY <1>3

\* The end of an operation: a tree in order over what it was put together from.
Settled(t, m, h) ==
  t \in TreesTo[h + 1] /\ t \in Good /\ \A S : Num(t, S) = Total(m, S)

\* Update with the rebuild when it is due: a tree in order with the same points.
LEMMA SettleIs ==
  ASSUME NEW h \in 0 .. MaxHeight - 1, NEW m \in NodesOver(TreesTo[h]), Joined(m), NEW tie \in Ties
  PROVE  Settled(Settle(m, tie), m, h)
<1> DEFINE u == Update(m)
<1>1. u \in TreesTo[h + 1] /\ Ready(u) /\ \A S : Num(u, S) = Total(m, S)
  BY UpdateReady
<1>2. Settle(m, tie) = IF Criterion_Check(u) THEN BuildTree(flatten[u], tie) ELSE u
  BY DEF Settle
<1>3. h + 1 \in 0 .. MaxHeight
  BY NodeInTrees
<1> HIDE DEF u
<1>4. CASE Criterion_Check(u)
  <2>1. flatten[u] \in Lists(h + 1)
    BY <1>1, <1>3, FlattenIs
  <2>2. BuiltRight(flatten[u], tie, h + 1)
    BY <1>3, <2>1, BuildGood
  <2>3. \A S : Num(BuildTree(flatten[u], tie), S) = Num(u, S)
    BY <2>2 DEF BuiltRight, Num
  <2> QED
    BY <1>1, <1>2, <1>4, <2>2, <2>3 DEF BuiltRight, Settled
<1>5. CASE ~Criterion_Check(u)
  <2>1. Local(u)
    BY <1>1, <1>5 DEF Local, Ready, Balanced
  <2>2. u \in Good
    BY <1>1, <2>1, GoodFold DEF Ready
  <2> QED
    BY <1>1, <1>2, <1>5, <2>2 DEF Settled
<1> QED
  BY <1>4, <1>5

-----------------------------------------------------------------------------
(* Trees with the same points, size and shape as far as a father sees.     *)

Alike(a, b) ==
  (a = Null <=> b = Null) /\ SizeOf(a) = SizeOf(b) /\ \A S : Num(a, S) = Num(b, S)

\* Equal counts, equal points.
LEMMA AlikeValid ==
  ASSUME NEW a \in Trees, NEW b \in Trees, \A S : Num(a, S) = Num(b, S)
  PROVE  Valid(a) = Valid(b)
<1>1. \A x : x \in Valid(a) <=> Num(a, {x}) # 0
  BY ValidIs
<1>2. \A x : x \in Valid(b) <=> Num(b, {x}) # 0
  BY ValidIs
<1>3. \A x : x \in Valid(a) <=> x \in Valid(b)
  BY <1>1, <1>2
<1> QED
  BY <1>3

\* A tree is like itself.
LEMMA AlikeSelf == \A a : Alike(a, a)
<1> QED
  BY DEF Alike

\* The sizes of its sons are all a criterion reads below a node.
LEMMA CriterionSame ==
  ASSUME NEW m \in Trees, m # Null, NEW n \in Trees, n # Null,
         m.left = Null <=> n.left = Null, m.right = Null <=> n.right = Null,
         SizeOf(m.left) = SizeOf(n.left), SizeOf(m.right) = SizeOf(n.right),
         m.TreeSize = n.TreeSize, m.invalid_point_num = n.invalid_point_num
  PROVE  Criterion_Check(m) = Criterion_Check(n)
<1>1. CASE n.left = Null /\ n.right = Null
  <2>1. m.left = n.left /\ m.right = n.right
    BY <1>1
  <2> QED
    BY <2>1 DEF Criterion_Check
<1>2. CASE n.left = Null /\ n.right # Null
  <2>1. m.right.TreeSize = n.right.TreeSize
    BY <1>2 DEF SizeOf
  <2> QED
    BY <1>2, <2>1 DEF Criterion_Check
<1>3. CASE n.left # Null
  <2>1. m.left.TreeSize = n.left.TreeSize
    BY <1>3 DEF SizeOf
  <2> QED
    BY <1>3, <2>1 DEF Criterion_Check
<1> QED
  BY <1>1, <1>2, <1>3

\* A node keeps its order when its sons are replaced by such trees.
LEMMA Regraft ==
  ASSUME NEW h \in 0 .. MaxHeight - 1, NEW n \in NodesOver(TreesTo[h]), n \in Good,
         NEW l \in TreesTo[h], l \in Good, Alike(l, LeftSon(n)),
         NEW r \in TreesTo[h], r \in Good, Alike(r, RightSon(n))
  PROVE  /\ PushedNode(n, l, r) \in TreesTo[h + 1] /\ PushedNode(n, l, r) # Null
         /\ PushedNode(n, l, r) \in Good /\ Alike(PushedNode(n, l, r), n)
<1> DEFINE d == Push_Down(n)
           t == PushedNode(n, l, r)
<1>1. /\ n \in Trees /\ n # Null /\ Local(n) /\ n \in NodesOver(TreesTo[h])
      /\ LeftSon(n) \in Good /\ RightSon(n) \in Good
      /\ d \in NodesOver(TreesTo[h]) /\ d \in Trees /\ d # Null
  BY NodeInTrees, GoodIs, SonsInTrees
<1>2. d \in Good /\ flatten[d] = flatten[n] /\ d.left = LeftSon(n) /\ d.right = RightSon(n)
      /\ d.TreeSize = n.TreeSize /\ LeftSon(d) = LeftSon(n) /\ RightSon(d) = RightSon(n)
  BY <1>1, PushGood
<1>3. /\ d.need_push_down_to_left = (n.need_push_down_to_left /\ n.left = Null)
      /\ d.need_push_down_to_right = (n.need_push_down_to_right /\ n.right = Null)
      /\ LeftSon(n) = Null <=> n.left = Null
      /\ RightSon(n) = Null <=> n.right = Null
  BY <1>1, PushIs, SonsSame
<1>4. t = [d EXCEPT !.left = l, !.right = r]
  BY DEF PushedNode
<1> HIDE DEF d, t
<1>5. /\ t \in NodesOver(TreesTo[h]) /\ t.left = l /\ t.right = r
      /\ t.need_push_down_to_left = d.need_push_down_to_left
      /\ t.need_push_down_to_right = d.need_push_down_to_right
      /\ t.point = d.point
      /\ t.TreeSize = d.TreeSize /\ t.invalid_point_num = d.invalid_point_num
      /\ t.down_del_num = d.down_del_num
      /\ t.point_deleted = d.point_deleted /\ t.tree_deleted = d.tree_deleted
      /\ t.point_downsample_deleted = d.point_downsample_deleted
      /\ t.tree_downsample_deleted = d.tree_downsample_deleted
      /\ t.lo = d.lo /\ t.hi = d.hi
  BY <1>1, <1>4 DEF NodesOver
<1>6. t \in TreesTo[h + 1] /\ t \in Trees /\ t # Null
  BY <1>5, NodeInTrees
<1>7. /\ l = Null <=> LeftSon(n) = Null
      /\ r = Null <=> RightSon(n) = Null
      /\ SizeOf(l) = SizeOf(LeftSon(n)) /\ SizeOf(r) = SizeOf(RightSon(n))
      /\ \A S : Num(l, S) = Num(LeftSon(n), S) /\ Num(r, S) = Num(RightSon(n), S)
  BY DEF Alike
<1>8. LeftSon(t) = l /\ RightSon(t) = r
  BY <1>3, <1>5, <1>6, <1>7, SonsSame
<1>9. ASSUME NEW S PROVE Num(t, S) = Num(n, S)
  <2>1. Num(d, S) = Count(~d.point_deleted /\ d.point \in S) + Num(LeftSon(n), S) + Num(RightSon(n), S)
    BY <1>1, <1>2, NumIs
  <2>2. Num(t, S) = Count(~t.point_deleted /\ t.point \in S) + Num(l, S) + Num(r, S)
    BY <1>6, <1>8, NumIs
  <2>3. Num(d, S) = Num(n, S)
    BY <1>2 DEF Num
  <2> QED
    BY <1>5, <1>7, <2>1, <2>2, <2>3
<1>10. Local(d)
  BY <1>1, <1>2, GoodIs
<1>11. t \in Sized
  <2>1. SizedOver(d)
    BY <1>1, <1>10, SizedIs DEF Local
  <2>2. SizedOver(t)
    BY <1>2, <1>5, <1>7, <2>1 DEF SizedOver
  <2> QED
    BY <1>5, <1>6, <2>2, GoodSized, SizedFold
<1>12. SumsRight(t) /\ Tight(t) /\ FlagsRight(t)
  <2>1. \A S : Num(t, S) = Num(d, S)
    BY <1>2, <1>9 DEF Num
  <2>2. Valid(t) = Valid(d)
    BY <1>1, <1>6, <2>1, AlikeValid
  <2>3. SumsRight(d) /\ Tight(d) /\ FlagsRight(d)
    BY <1>10 DEF Local
  <2>4. SumsRight(t)
    BY <1>5, <2>1, <2>2, <2>3 DEF SumsRight
  <2>5. Tight(t)
    BY <1>5, <2>2, <2>3 DEF Tight
  <2>6. FlagsRight(t)
    BY <1>5, <2>3 DEF FlagsRight
  <2> QED
    BY <2>4, <2>5, <2>6
<1>13. PendingRight(t)
  BY <1>3, <1>5, <1>7 DEF PendingRight
<1>14. Balanced(t)
  <2>1. Balanced(d)
    BY <1>10 DEF Local
  <2>2. Criterion_Check(t) = Criterion_Check(d)
    BY <1>1, <1>2, <1>5, <1>6, <1>7, CriterionSame
  <2> QED
    BY <1>5, <2>1, <2>2 DEF Balanced
<1>15. Local(t)
  BY <1>11, <1>12, <1>13, <1>14 DEF Local
<1>16. t \in Good
  BY <1>6, <1>8, <1>15, GoodFold
<1>17. Alike(t, n)
  BY <1>1, <1>2, <1>5, <1>6, <1>9 DEF Alike, SizeOf
<1> QED
  BY <1>6, <1>16, <1>17 DEF t

\* Push_Down makes a like tree.
LEMMA PushAlike ==
  ASSUME NEW h \in 0 .. MaxHeight - 1, NEW n \in NodesOver(TreesTo[h]), n \in Good
  PROVE  /\ Push_Down(n) \in NodesOver(TreesTo[h]) /\ Push_Down(n) \in TreesTo[h + 1]
         /\ Push_Down(n) \in Good /\ Push_Down(n) # Null /\ Alike(Push_Down(n), n)
<1>1. n \in Trees /\ n # Null /\ Push_Down(n) \in NodesOver(TreesTo[h]) /\ Push_Down(n) \in Trees
  BY NodeInTrees
<1>2. Push_Down(n) \in TreesTo[h + 1]
  BY <1>1, NodeInTrees
<1>3. /\ Push_Down(n) \in Good /\ Push_Down(n) # Null /\ flatten[Push_Down(n)] = flatten[n]
      /\ Push_Down(n).TreeSize = n.TreeSize
  BY <1>1, PushGood
<1>4. Alike(Push_Down(n), n)
  BY <1>1, <1>3 DEF Alike, SizeOf, Num
<1> QED
  BY <1>1, <1>2, <1>3, <1>4

\* The walk of the whole tree.
LEMMA PushedDownGood ==
  \A k \in 0 .. MaxHeight : \A n \in TreesTo[k] : n \in Good =>
    PushedDown[n] \in TreesTo[k] /\ PushedDown[n] \in Good /\ Alike(PushedDown[n], n)
<1> DEFINE E == {n \in Trees : n \in Good => PushedDown[n] \in Good /\ Alike(PushedDown[n], n)}
<1>1. Null \in E
  BY HeightIs, PushedDownIs, AlikeSelf
<1>2. ASSUME NEW h \in 0 .. MaxHeight - 1, TreesTo[h] \subseteq E
      PROVE  NodesOver(TreesTo[h]) \subseteq E
  <2> SUFFICES ASSUME NEW n \in NodesOver(TreesTo[h]), n \in Good
               PROVE  n \in Trees /\ PushedDown[n] \in Good /\ Alike(PushedDown[n], n)
    BY NodeInTrees
  <2>1. /\ n \in Trees /\ n # Null /\ LeftSon(n) \in TreesTo[h] /\ RightSon(n) \in TreesTo[h]
        /\ h \in 0 .. MaxHeight
    BY NodeInTrees
  <2>2. LeftSon(n) \in Good /\ RightSon(n) \in Good
    BY <2>1, GoodIs
  <2> DEFINE l == PushedDown[LeftSon(n)]
             r == PushedDown[RightSon(n)]
  <2>3. l \in Good /\ Alike(l, LeftSon(n)) /\ r \in Good /\ Alike(r, RightSon(n))
    BY <1>2, <2>1, <2>2
  <2>4. l \in TreesTo[h] /\ r \in TreesTo[h]
    BY <2>1, PushedDownIs
  <2>5. PushedDown[n] = PushedNode(n, l, r)
    BY <2>1, PushedDownIs
  <2> HIDE DEF l, r
  <2> QED
    BY <2>1, <2>3, <2>4, <2>5, Regraft
<1>3. TreesTo[MaxHeight] \subseteq E
  <2> HIDE DEF E
  <2>1. MaxHeight \in 0 .. MaxHeight
    BY HeightIs
  <2> QED
    BY <1>1, <1>2, <2>1, TreeInduction
<1>4. ASSUME NEW k \in 0 .. MaxHeight, NEW n \in TreesTo[k], n \in Good
      PROVE  PushedDown[n] \in TreesTo[k] /\ PushedDown[n] \in Good /\ Alike(PushedDown[n], n)
  <2>1. PushedDown[n] \in TreesTo[k] /\ n \in TreesTo[MaxHeight]
    BY HeightIs, PushedDownIs
  <2> QED
    BY <1>3, <1>4, <2>1
<1> QED
  BY <1>4

-----------------------------------------------------------------------------
(* The recursive operations, by a node and what they make of its sons.     *)

\* Settle keeps to the height of the node it is given: a rebuilt tree is no higher.
LEMMA SettleTyped ==
  ASSUME NEW h \in 0 .. MaxHeight - 1, NEW m \in NodesOver(TreesTo[h]), NEW tie \in Ties
  PROVE  Settle(m, tie) \in TreesTo[h + 1]
<1> DEFINE u == Update(m)
<1>1. h \in Nat /\ h + 1 \in 0 .. MaxHeight
  BY NodeInTrees
<1>2. u \in NodesOver(TreesTo[h])
  BY <1>1, UpdateIs
<1>3. u \in TreesTo[h + 1]
  BY <1>1, <1>2, NodeRise
<1>4. Settle(m, tie) = IF Criterion_Check(u) THEN BuildTree(flatten[u], tie) ELSE u
  BY DEF Settle
<1> HIDE DEF u
<1>5. BuildTree(flatten[u], tie) \in TreesTo[h + 1]
  <2>1. flatten[u] \in Lists(h + 1)
    BY <1>1, <1>3, FlattenIs
  <2> QED
    BY <1>1, <2>1, BuildTreeIs
<1> QED
  BY <1>3, <1>4, <1>5

\* Deletion.
Hit(m, box) == ~Push_Down(m).point_deleted /\ Inside(Push_Down(m).point, box)
AllGone(m, is_downsample) ==
  LET r == Push_Down(m)
  IN  [r EXCEPT
        !.tree_deleted = TRUE, !.point_deleted = TRUE,
        !.need_push_down_to_left = TRUE, !.need_push_down_to_right = TRUE,
        !.invalid_point_num = r.TreeSize,
        !.tree_downsample_deleted = @ \/ is_downsample,
        !.point_downsample_deleted = @ \/ is_downsample,
        !.down_del_num = IF is_downsample THEN r.TreeSize ELSE @]
PartGone(m, box, is_downsample, l, r) ==
  [Push_Down(m) EXCEPT
    !.point_deleted = @ \/ Hit(m, box),
    !.point_downsample_deleted = @ \/ (Hit(m, box) /\ is_downsample),
    !.left = l, !.right = r]
DeleteStep(m, box, is_downsample, tie, v, w) ==
  IF m.tree_deleted THEN [node |-> m, count |-> 0]
  ELSE IF Apart(box, Push_Down(m)) THEN [node |-> Push_Down(m), count |-> 0]
  ELSE IF Encloses(box, Push_Down(m))
  THEN [node |-> AllGone(m, is_downsample),
        count |-> Push_Down(m).TreeSize - Push_Down(m).invalid_point_num]
  ELSE [node |-> Settle(PartGone(m, box, is_downsample, v.node, w.node), tie),
        count |-> Count(Hit(m, box)) + v.count + w.count]
DeleteFrom(f, box, is_downsample, tie) ==
  f = [m \in Trees |->
        IF m = Null \/ m.tree_deleted THEN [node |-> m, count |-> 0]
        ELSE
          LET r == Push_Down(m)
              hit == ~r.point_deleted /\ Inside(r.point, box)
              onLeft == f[r.left]
              onRight == f[r.right]
          IN  IF Apart(box, r) THEN [node |-> r, count |-> 0]
              ELSE IF Encloses(box, r)
              THEN [node |-> [r EXCEPT
                      !.tree_deleted = TRUE, !.point_deleted = TRUE,
                      !.need_push_down_to_left = TRUE, !.need_push_down_to_right = TRUE,
                      !.invalid_point_num = r.TreeSize,
                      !.tree_downsample_deleted = @ \/ is_downsample,
                      !.point_downsample_deleted = @ \/ is_downsample,
                      !.down_del_num = IF is_downsample THEN r.TreeSize ELSE @],
                    count |-> r.TreeSize - r.invalid_point_num]
              ELSE [node |-> Settle([r EXCEPT
                      !.point_deleted = @ \/ hit,
                      !.point_downsample_deleted = @ \/ (hit /\ is_downsample),
                      !.left = onLeft.node, !.right = onRight.node], tie),
                    count |-> Count(hit) + onLeft.count + onRight.count]]

\* Delete_by_range, by what it makes of a node and of the results at the sons.
LEMMA DeleteBody ==
  ASSUME NEW box, NEW is_downsample, NEW tie, NEW f
  PROVE  DeleteFrom(f, box, is_downsample, tie) <=>
           f = [m \in Trees |->
                 IF m = Null THEN [node |-> m, count |-> 0]
                 ELSE DeleteStep(m, box, is_downsample, tie, f[LeftSon(m)], f[RightSon(m)])]
<1> QED
  BY Zenon DEF DeleteFrom, DeleteStep, PartGone, AllGone, Hit, LeftSon, RightSon

\* Delete_by_range is the function its LET chooses.
LEMMA DeleteChosen ==
  ASSUME NEW box, NEW is_downsample, NEW tie
  PROVE  \A n : Delete_by_range(n, box, is_downsample, tie)
                  = (CHOOSE f : DeleteFrom(f, box, is_downsample, tie))[n]
<1> QED
  BY DEF Delete_by_range, DeleteFrom
LEMMA AllGoneTyped ==
  ASSUME NEW h \in 0 .. MaxHeight - 1, NEW m \in NodesOver(TreesTo[h]), NEW is_downsample \in BOOLEAN
  PROVE  /\ AllGone(m, is_downsample) \in NodesOver(TreesTo[h])
         /\ AllGone(m, is_downsample).left = LeftSon(m) /\ AllGone(m, is_downsample).right = RightSon(m)
         /\ AllGone(m, is_downsample).tree_deleted /\ AllGone(m, is_downsample).point_deleted
         /\ AllGone(m, is_downsample).need_push_down_to_left
         /\ AllGone(m, is_downsample).need_push_down_to_right
         /\ AllGone(m, is_downsample).TreeSize = Push_Down(m).TreeSize
         /\ AllGone(m, is_downsample).invalid_point_num = Push_Down(m).TreeSize
         /\ AllGone(m, is_downsample).down_del_num \in {Push_Down(m).TreeSize, Push_Down(m).down_del_num}
<1> DEFINE r == Push_Down(m)
<1>1. r \in NodesOver(TreesTo[h]) /\ r.left = LeftSon(m) /\ r.right = RightSon(m)
  BY NodeInTrees DEF LeftSon, RightSon
<1>2. r.TreeSize \in Nat
  BY <1>1, FieldsOf
<1>3. AllGone(m, is_downsample) =
        [r EXCEPT
          !.tree_deleted = TRUE, !.point_deleted = TRUE,
          !.need_push_down_to_left = TRUE, !.need_push_down_to_right = TRUE,
          !.invalid_point_num = r.TreeSize,
          !.tree_downsample_deleted = @ \/ is_downsample,
          !.point_downsample_deleted = @ \/ is_downsample,
          !.down_del_num = IF is_downsample THEN r.TreeSize ELSE @]
  BY DEF AllGone
<1> HIDE DEF r
<1>4. AllGone(m, is_downsample) \in NodesOver(TreesTo[h])
  BY <1>1, <1>2, <1>3 DEF NodesOver
<1>5. /\ AllGone(m, is_downsample).left = r.left /\ AllGone(m, is_downsample).right = r.right
      /\ AllGone(m, is_downsample).tree_deleted /\ AllGone(m, is_downsample).point_deleted
      /\ AllGone(m, is_downsample).need_push_down_to_left
      /\ AllGone(m, is_downsample).need_push_down_to_right
      /\ AllGone(m, is_downsample).TreeSize = r.TreeSize
      /\ AllGone(m, is_downsample).invalid_point_num = r.TreeSize
      /\ AllGone(m, is_downsample).down_del_num \in {r.TreeSize, r.down_del_num}
  BY <1>1, <1>3 DEF NodesOver
<1> QED
  BY <1>1, <1>4, <1>5 DEF r

PartGoneRight(g, m, box, is_downsample, l, r, h) ==
  /\ Hit(m, box) \in BOOLEAN /\ g \in NodesOver(TreesTo[h])
  /\ g.left = l /\ g.right = r /\ g.point = m.point
  /\ g.point_deleted = (m.point_deleted \/ Hit(m, box))
  /\ g.point_downsample_deleted = (m.point_downsample_deleted \/ (Hit(m, box) /\ is_downsample))
  /\ g.need_push_down_to_left = (m.need_push_down_to_left /\ m.left = Null)
  /\ g.need_push_down_to_right = (m.need_push_down_to_right /\ m.right = Null)
  /\ Hit(m, box) <=> ~m.point_deleted /\ Inside(m.point, box)

\* A node whose sons were deleted from keeps its height.
LEMMA PartGoneTyped ==
  ASSUME NEW h \in 0 .. MaxHeight - 1, NEW m \in NodesOver(TreesTo[h]), NEW is_downsample \in BOOLEAN,
         NEW box, NEW l \in TreesTo[h], NEW r \in TreesTo[h]
  PROVE  PartGoneRight(PartGone(m, box, is_downsample, l, r), m, box, is_downsample, l, r, h)
<1> DEFINE d == Push_Down(m)
           hit == Hit(m, box)
           g == PartGone(m, box, is_downsample, l, r)
<1>1. /\ d \in NodesOver(TreesTo[h]) /\ d.point = m.point
      /\ d.point_deleted = m.point_deleted /\ d.point_downsample_deleted = m.point_downsample_deleted
      /\ d.need_push_down_to_left = (m.need_push_down_to_left /\ m.left = Null)
      /\ d.need_push_down_to_right = (m.need_push_down_to_right /\ m.right = Null)
  BY NodeInTrees, PushIs
<1>2. hit \in BOOLEAN /\ (hit <=> ~m.point_deleted /\ Inside(m.point, box))
  BY <1>1 DEF Hit, Inside
<1>3. g = [d EXCEPT
            !.point_deleted = @ \/ hit,
            !.point_downsample_deleted = @ \/ (hit /\ is_downsample),
            !.left = l, !.right = r]
  BY DEF PartGone
<1> HIDE DEF d, hit, g
<1>4. g = [d EXCEPT
            !.point_deleted = d.point_deleted \/ hit,
            !.point_downsample_deleted = d.point_downsample_deleted \/ (hit /\ is_downsample),
            !.left = l, !.right = r]
  BY <1>3
<1> DEFINE pd == d.point_deleted \/ hit
           ds == d.point_downsample_deleted \/ (hit /\ is_downsample)
<1>5. pd \in BOOLEAN /\ ds \in BOOLEAN
  BY <1>1, <1>2
<1>6. g = [d EXCEPT !.point_deleted = pd, !.point_downsample_deleted = ds, !.left = l, !.right = r]
  BY <1>4
<1>7. pd = (m.point_deleted \/ hit) /\ ds = (m.point_downsample_deleted \/ (hit /\ is_downsample))
  BY <1>1, Zenon
<1> HIDE DEF pd, ds
<1>8. /\ g \in NodesOver(TreesTo[h]) /\ g.left = l /\ g.right = r /\ g.point = d.point
      /\ g.point_deleted = pd /\ g.point_downsample_deleted = ds
      /\ g.need_push_down_to_left = d.need_push_down_to_left
      /\ g.need_push_down_to_right = d.need_push_down_to_right
  BY <1>1, <1>5, <1>6 DEF NodesOver
<1>9. /\ g.point_deleted = (m.point_deleted \/ hit)
      /\ g.point_downsample_deleted = (m.point_downsample_deleted \/ (hit /\ is_downsample))
      /\ g.need_push_down_to_left = (m.need_push_down_to_left /\ m.left = Null)
      /\ g.need_push_down_to_right = (m.need_push_down_to_right /\ m.right = Null)
  BY <1>1, <1>7, <1>8, Zenon
<1>10. g.point = m.point
  BY <1>1, <1>8
<1> QED
  BY <1>2, <1>8, <1>9, <1>10, Zenon DEF g, hit, PartGoneRight

\* That function exists.
LEMMA DeleteExists ==
  ASSUME NEW box, NEW is_downsample \in BOOLEAN, NEW tie \in Ties
  PROVE  \E f : DeleteFrom(f, box, is_downsample, tie)
<1> DEFINE W == [node : AllTrees, count : Int]
           V == [k \in Nat |-> [node : TreesTo[k], count : Int]]
           Step(m, v, w) == DeleteStep(m, box, is_downsample, tie, v, w)
           G == [x \in Trees \X W \X W |-> Step(x[1], x[2], x[3])]
           z == [node |-> Null, count |-> 0]
<1>1. MaxHeight \in 0 .. MaxHeight /\ Null \in Trees
  BY HeightIs
<1>2. ASSUME NEW m \in Trees, NEW v \in W, NEW w \in W
      PROVE  G[<<m, v, w>>] = Step(m, v, w)
  <2> HIDE DEF Step, W
  <2> QED
    OBVIOUS
<1>3. ASSUME NEW k \in 0 .. MaxHeight - 1, NEW n \in NodesOver(TreesTo[k]),
             NEW v \in V[k], NEW w \in V[k]
      PROVE  Step(n, v, w) \in V[k + 1]
  <2>1. k \in Nat /\ k + 1 \in Nat /\ n \in TreesTo[k + 1]
    BY NodeInTrees
  <2>2. /\ v.node \in TreesTo[k] /\ v.count \in Int /\ w.node \in TreesTo[k] /\ w.count \in Int
    BY <2>1
  <2>3. \A t \in TreesTo[k + 1] : \A c \in Int : [node |-> t, count |-> c] \in V[k + 1]
    BY <2>1
  <2>4. Push_Down(n) \in NodesOver(TreesTo[k]) /\ Push_Down(n) \in TreesTo[k + 1]
    BY <2>1, NodeInTrees, NodeRise
  <2>5. AllGone(n, is_downsample) \in TreesTo[k + 1]
    BY <2>1, AllGoneTyped, NodeRise
  <2>6. Push_Down(n).TreeSize - Push_Down(n).invalid_point_num \in Int
    BY <2>4, FieldsOf
  <2>7. Settle(PartGone(n, box, is_downsample, v.node, w.node), tie) \in TreesTo[k + 1]
    BY <2>2, PartGoneTyped, SettleTyped DEF PartGoneRight
  <2>8. Count(Hit(n, box)) + v.count + w.count \in Int /\ 0 \in Int
    BY <2>2 DEF Count
  <2> HIDE DEF V
  <2> QED
    BY <2>1, <2>3, <2>4, <2>5, <2>6, <2>7, <2>8 DEF DeleteStep
<1>4. TreeFounded(MaxHeight, W, V, z, G)
  <2>1. V \in [Nat -> SUBSET W] /\ z \in V[0] /\ \A k \in Nat : V[k] \subseteq V[k + 1]
    BY AllTreesIs, TreesRise
  <2>2. ASSUME NEW k \in 0 .. MaxHeight - 1, NEW n \in NodesOver(TreesTo[k]),
               NEW v \in V[k], NEW w \in V[k]
        PROVE  G[<<n, v, w>>] \in V[k + 1]
    <3>1. n \in Trees /\ k \in Nat
      BY NodeInTrees
    <3> HIDE DEF V, W, G, Step
    <3>2. v \in W /\ w \in W
      BY <2>1, <3>1
    <3> QED
      BY <1>2, <1>3, <3>1, <3>2
  <2> HIDE DEF V, W, G, Step, z
  <2> QED
    BY <2>1, <2>2 DEF TreeFounded
<1>5. PICK f \in [Trees -> W] :
        \A n \in Trees : f[n] = IF n = Null THEN z ELSE G[<<n, f[LeftSon(n)], f[RightSon(n)]>>]
  <2> HIDE DEF V, W, G, Step, z
  <2>1. \E f \in [TreesTo[MaxHeight] -> W] :
          \A n \in TreesTo[MaxHeight] :
            f[n] = IF n = Null THEN z ELSE G[<<n, f[LeftSon(n)], f[RightSon(n)]>>]
    BY <1>1, <1>4, TreeRecursion
  <2> QED
    BY <2>1 DEF Trees
<1>6. ASSUME NEW n \in Trees
      PROVE  f[n] = IF n = Null THEN [node |-> n, count |-> 0]
                    ELSE DeleteStep(n, box, is_downsample, tie, f[LeftSon(n)], f[RightSon(n)])
  <2>1. CASE n = Null
    BY <1>5, <2>1
  <2>2. CASE n # Null
    <3>1. LeftSon(n) \in Trees /\ RightSon(n) \in Trees
      BY <2>2, SonsInTrees
    <3> HIDE DEF W, G
    <3>2. f[LeftSon(n)] \in W /\ f[RightSon(n)] \in W
      BY <1>5, <3>1
    <3>3. f[n] = Step(n, f[LeftSon(n)], f[RightSon(n)])
      <4> HIDE DEF Step
      <4> QED
        BY <1>2, <1>5, <2>2, <3>2
    <3> QED
      BY <2>2, <3>3
  <2> QED
    BY <2>1, <2>2
<1>7. f = [m \in Trees |->
            IF m = Null THEN [node |-> m, count |-> 0]
            ELSE DeleteStep(m, box, is_downsample, tie, f[LeftSon(m)], f[RightSon(m)])]
  <2> HIDE DEF W
  <2> QED
    BY <1>6
<1> QED
  BY <1>7, DeleteBody

\* So Delete_by_range is what its recursion says.
LEMMA DeleteIs ==
  ASSUME NEW box, NEW is_downsample \in BOOLEAN, NEW tie \in Ties
  PROVE  /\ Delete_by_range(Null, box, is_downsample, tie) = [node |-> Null, count |-> 0]
         /\ \A n \in Trees \ {Null} :
              Delete_by_range(n, box, is_downsample, tie)
                = DeleteStep(n, box, is_downsample, tie,
                             Delete_by_range(LeftSon(n), box, is_downsample, tie),
                             Delete_by_range(RightSon(n), box, is_downsample, tie))
<1> DEFINE f == CHOOSE g : DeleteFrom(g, box, is_downsample, tie)
<1>1. DeleteFrom(f, box, is_downsample, tie)
  BY DeleteExists
<1>2. \A n : Delete_by_range(n, box, is_downsample, tie) = f[n]
  BY DeleteChosen
<1> HIDE DEF f
<1>3. f = [m \in Trees |->
            IF m = Null THEN [node |-> m, count |-> 0]
            ELSE DeleteStep(m, box, is_downsample, tie, f[LeftSon(m)], f[RightSon(m)])]
  BY <1>1, DeleteBody
<1>4. Null \in Trees
  BY HeightIs
<1>5. f[Null] = [node |-> Null, count |-> 0]
  BY <1>3, <1>4
<1>6. \A n \in Trees \ {Null} :
        f[n] = DeleteStep(n, box, is_downsample, tie, f[LeftSon(n)], f[RightSon(n)])
  BY <1>3
<1> QED
  BY <1>2, <1>5, <1>6

-----------------------------------------------------------------------------
(* Boxes and the points of a tree.                                         *)

IsBox(b) == b.vertex_min \in [Axes -> Int] /\ b.vertex_max \in [Axes -> Int]
In(b) == {p \in Points : Inside(p, b)}

\* The points in a set and out of it add up.
LEMMA NumSplit ==
  ASSUME NEW n \in Trees, NEW S, NEW B
  PROVE  Num(n, S) = Num(n, S \cap B) + Num(n, S \ B)
<1>1. flatten[n] \in Seq(Points)
  BY FlattenIs
<1>2. (S \cap B) \cap (S \ B) = {} /\ S = (S \cap B) \cup (S \ B)
  OBVIOUS
<1>3. CountIn(flatten[n], (S \cap B) \cup (S \ B)) = CountIn(flatten[n], S \cap B) + CountIn(flatten[n], S \ B)
  BY <1>1, <1>2, CountDisjoint
<1> QED
  BY <1>2, <1>3 DEF Num

\* None counted, none there.
LEMMA NumNone ==
  ASSUME NEW n \in Trees, NEW S
  PROVE  Num(n, S) = 0 <=> Valid(n) \cap S = {}
<1>1. flatten[n] \in Seq(Points)
  BY FlattenIs
<1>2. Num(n, S) = 0 <=> \A i \in 1 .. Len(flatten[n]) : flatten[n][i] \notin S
  BY <1>1, CountNone DEF Num
<1>3. DOMAIN flatten[n] = 1 .. Len(flatten[n])
  BY <1>1, PlacesAre
<1> QED
  BY <1>2, <1>3 DEF Valid, Elements

\* What the two tests of a box say of the valid points.
LEMMA BoxIs ==
  ASSUME NEW b, IsBox(b), NEW n \in Good, n # Null
  PROVE  /\ Apart(b, n) => Num(n, In(b)) = 0
         /\ Encloses(b, n) => \A S : Num(n, S \ In(b)) = 0
         /\ ~Encloses(b, n) /\ ~n.tree_deleted => Num(n, Points \ In(b)) # 0
<1>1. n \in Trees /\ Tight(n) /\ SumsRight(n)
  BY GoodIs DEF Local
<1>2. n.lo \in [Axes -> Int] /\ n.hi \in [Axes -> Int]
  BY <1>1, TreeFields
<1>3. Valid(n) \subseteq Points /\ \A p \in Valid(n) : p \in [Axes -> Int]
  BY <1>1, ValidIs, PointsAre
<1>4. b.vertex_min \in [Axes -> Int] /\ b.vertex_max \in [Axes -> Int]
  BY DEF IsBox
<1>5. ASSUME NEW p \in Valid(n)
      PROVE  \A x \in Axes : n.lo[x] <= p[x] /\ p[x] <= n.hi[x]
  BY <1>1 DEF Tight
<1>6. ASSUME Apart(b, n) PROVE Num(n, In(b)) = 0
  <2> SUFFICES ASSUME NEW p \in Valid(n), Inside(p, b) PROVE FALSE
    BY <1>1, NumNone DEF In
  <2>1. PICK x \in Axes : b.vertex_max[x] <= n.lo[x] \/ b.vertex_min[x] > n.hi[x]
    BY <1>6 DEF Apart
  <2>2. n.lo[x] <= p[x] /\ p[x] <= n.hi[x] /\ b.vertex_min[x] <= p[x] /\ p[x] < b.vertex_max[x]
    BY <1>5 DEF Inside
  <2>3. /\ n.lo[x] \in Int /\ n.hi[x] \in Int /\ p[x] \in Int
        /\ b.vertex_min[x] \in Int /\ b.vertex_max[x] \in Int
    BY <1>2, <1>3, <1>4
  <2> QED
    BY <2>1, <2>2, <2>3
<1>7. ASSUME Encloses(b, n), NEW S PROVE Num(n, S \ In(b)) = 0
  <2> SUFFICES ASSUME NEW p \in Valid(n) PROVE Inside(p, b)
    BY <1>1, <1>3, NumNone DEF In
  <2> SUFFICES ASSUME NEW x \in Axes PROVE b.vertex_min[x] <= p[x] /\ p[x] < b.vertex_max[x]
    BY DEF Inside
  <2>1. b.vertex_min[x] <= n.lo[x] /\ b.vertex_max[x] > n.hi[x]
    BY <1>7 DEF Encloses
  <2>2. n.lo[x] <= p[x] /\ p[x] <= n.hi[x]
    BY <1>5
  <2>3. /\ n.lo[x] \in Int /\ n.hi[x] \in Int /\ p[x] \in Int
        /\ b.vertex_min[x] \in Int /\ b.vertex_max[x] \in Int
    BY <1>2, <1>3, <1>4
  <2> QED
    BY <2>1, <2>2, <2>3
<1>8. ASSUME ~Encloses(b, n), ~n.tree_deleted PROVE Num(n, Points \ In(b)) # 0
  <2>1. PICK x \in Axes : ~(b.vertex_min[x] <= n.lo[x] /\ b.vertex_max[x] > n.hi[x])
    BY <1>8 DEF Encloses
  <2>2. Valid(n) # {}
    BY <1>1, <1>8 DEF SumsRight
  <2>3. PICK p \in Valid(n) : p[x] = n.lo[x]
    BY <1>1, <2>2 DEF Tight
  <2>4. PICK q \in Valid(n) : q[x] = n.hi[x]
    BY <1>1, <2>2 DEF Tight
  <2>5. /\ n.lo[x] \in Int /\ n.hi[x] \in Int
        /\ b.vertex_min[x] \in Int /\ b.vertex_max[x] \in Int
    BY <1>2, <1>4
  <2>6. ~Inside(p, b) \/ ~Inside(q, b)
    BY <2>1, <2>3, <2>4, <2>5 DEF Inside
  <2> QED
    BY <1>1, <1>3, <2>6, NumNone DEF In
<1> QED
  BY <1>6, <1>7, <1>8

\* What a deletion promises of a tree up to some height.
DeleteRight(n, b, is_downsample, tie, k) ==
  LET d == Delete_by_range(n, b, is_downsample, tie)
  IN  /\ d.node \in TreesTo[k] /\ d.node \in Good /\ d.count = Num(n, In(b))
      /\ \A S : Num(d.node, S) = Num(n, S \ In(b))
      /\ d.node = Null <=> n = Null

\* A subtree marked deleted as a whole is one a walk finds empty.
LEMMA AllGoneWiped ==
  ASSUME NEW h \in 0 .. MaxHeight - 1, NEW n \in NodesOver(TreesTo[h]), n \in Good,
         NEW is_downsample \in BOOLEAN
  PROVE  AllGone(n, is_downsample) \in Wiped
<1> DEFINE r == Push_Down(n)
           g == AllGone(n, is_downsample)
<1>1. /\ r \in NodesOver(TreesTo[h]) /\ r \in Good /\ r # Null /\ r.left = LeftSon(n) /\ r.right = RightSon(n)
  BY PushAlike DEF LeftSon, RightSon
<1>2. r \in Sized
  BY <1>1, GoodSized
<1>3. SizedOver(r) /\ r.left \in Sized /\ r.right \in Sized
  BY <1>1, <1>2, SizedIs
<1>4. /\ g \in NodesOver(TreesTo[h]) /\ g.left = LeftSon(n) /\ g.right = RightSon(n)
      /\ g.tree_deleted /\ g.point_deleted /\ g.need_push_down_to_left /\ g.need_push_down_to_right
      /\ g.TreeSize = r.TreeSize /\ g.invalid_point_num = r.TreeSize
      /\ g.down_del_num \in {r.TreeSize, r.down_del_num}
  BY AllGoneTyped
<1>5. r.TreeSize \in Nat
  BY <1>1, FieldsOf
<1>6. g \in Trees /\ g # Null
  BY <1>4, NodeInTrees
<1> HIDE DEF r, g
<1>7. SizedOver(g)
  BY <1>1, <1>3, <1>4, <1>5 DEF SizedOver
<1>8. g \in Sized
  BY <1>1, <1>3, <1>4, <1>6, <1>7, SizedFold
<1> QED
  BY <1>4, <1>6, <1>8 DEF Wiped, g

\* When the deletions from both sons are right, so is that from the node: the range tests
\* (738-742) neither pass over a point inside nor take one outside.
LEMMA DeleteStepRight ==
  ASSUME NEW b, IsBox(b), NEW is_downsample \in BOOLEAN, NEW tie \in Ties,
         NEW k \in 0 .. MaxHeight - 1, NEW n \in NodesOver(TreesTo[k]), n \in Good,
         DeleteRight(LeftSon(n), b, is_downsample, tie, k),
         DeleteRight(RightSon(n), b, is_downsample, tie, k)
  PROVE  DeleteRight(n, b, is_downsample, tie, k + 1)
<1> DEFINE r == Push_Down(n)
           v == Delete_by_range(LeftSon(n), b, is_downsample, tie)
           w == Delete_by_range(RightSon(n), b, is_downsample, tie)
           d == Delete_by_range(n, b, is_downsample, tie)
           m == PartGone(n, b, is_downsample, v.node, w.node)
           t == Settle(m, tie)
<1>1. n \in Trees /\ n # Null /\ Local(n) /\ k \in Nat /\ n \in TreesTo[k + 1]
  BY NodeInTrees, GoodIs
<1>2. /\ r \in NodesOver(TreesTo[k]) /\ r \in TreesTo[k + 1] /\ r \in Good /\ r # Null /\ r \in Trees
      /\ \A S : Num(r, S) = Num(n, S)
      /\ r.tree_deleted = n.tree_deleted
  BY PushAlike, PushIs, GoodIs DEF Alike
<1>3. SumsRight(r) /\ SumsRight(n) /\ FlagsRight(n)
  BY <1>1, <1>2, GoodIs DEF Local
<1>4. d = IF n.tree_deleted THEN [node |-> n, count |-> 0]
          ELSE IF Apart(b, r) THEN [node |-> r, count |-> 0]
          ELSE IF Encloses(b, r)
          THEN [node |-> AllGone(n, is_downsample), count |-> r.TreeSize - r.invalid_point_num]
          ELSE [node |-> t, count |-> Count(Hit(n, b)) + v.count + w.count]
  BY <1>1, DeleteIs DEF DeleteStep
<1>5. /\ v.node \in TreesTo[k] /\ v.node \in Good /\ v.count = Num(LeftSon(n), In(b))
      /\ \A S : Num(v.node, S) = Num(LeftSon(n), S \ In(b))
      /\ v.node = Null <=> LeftSon(n) = Null
      /\ w.node \in TreesTo[k] /\ w.node \in Good /\ w.count = Num(RightSon(n), In(b))
      /\ \A S : Num(w.node, S) = Num(RightSon(n), S \ In(b))
      /\ w.node = Null <=> RightSon(n) = Null
  BY DEF DeleteRight
<1> HIDE DEF r, d, v, w
<1>6. \A S : Num(n, S) \in Nat /\ Num(n, S) = Num(n, S \cap In(b)) + Num(n, S \ In(b))
  <2> SUFFICES ASSUME NEW S
               PROVE  Num(n, S) \in Nat /\ Num(n, S) = Num(n, S \cap In(b)) + Num(n, S \ In(b))
    OBVIOUS
  <2>1. Num(n, S) \in Nat
    BY <1>1, NumIs
  <2> QED
    BY <1>1, <2>1, NumSplit
<1> SUFFICES /\ d.node \in TreesTo[k + 1] /\ d.node \in Good /\ d.count = Num(n, In(b))
             /\ \A S : Num(d.node, S) = Num(n, S \ In(b))
             /\ d.node # Null
  BY <1>1, Zenon DEF DeleteRight, d
<1>7. CASE n.tree_deleted
  <2>1. Valid(n) = {}
    BY <1>3, <1>7 DEF SumsRight
  <2>2. \A S : Num(n, S) = 0
    BY <1>1, <2>1, NumNone
  <2>3. d.node = n /\ d.count = 0
    BY <1>4, <1>7
  <2> QED
    BY <1>1, <2>2, <2>3
<1>8. CASE ~n.tree_deleted /\ Apart(b, r)
  <2>1. d.node = r /\ d.count = 0
    BY <1>4, <1>8
  <2>2. Num(n, In(b)) = 0
    BY <1>2, <1>8, BoxIs
  <2>3. ASSUME NEW S PROVE Num(r, S) = Num(n, S \ In(b))
    <3>1. Valid(n) \cap In(b) = {}
      BY <1>1, <2>2, NumNone
    <3>2. Num(n, S \cap In(b)) = 0
      BY <1>1, <3>1, NumNone
    <3> QED
      BY <1>2, <1>6, <3>2
  <2> QED
    BY <1>2, <2>1, <2>2, <2>3
<1>9. CASE ~n.tree_deleted /\ ~Apart(b, r) /\ Encloses(b, r)
  <2>1. d.node = AllGone(n, is_downsample) /\ d.count = r.TreeSize - r.invalid_point_num
    BY <1>4, <1>9
  <2>2. AllGone(n, is_downsample) \in Wiped
    BY AllGoneWiped
  <2>3. d.node \in Good /\ d.node # Null /\ \A S : Num(d.node, S) = 0
    BY <2>1, <2>2, WipedGood, WipedEmpty
  <2>4. d.node \in TreesTo[k + 1]
    BY <1>1, <2>1, AllGoneTyped, NodeRise
  <2>5. \A S : Num(n, S \ In(b)) = 0
    BY <1>2, <1>9, BoxIs
  <2>6. Num(n, Points) = Num(n, In(b))
    <3>1. Points \cap In(b) = In(b)
      BY DEF In
    <3>2. Num(n, Points) = Num(n, Points \cap In(b)) + Num(n, Points \ In(b)) /\ Num(n, In(b)) \in Nat
      BY <1>6
    <3>3. Num(n, Points \ In(b)) = 0
      BY <2>5
    <3>4. Num(n, Points \cap In(b)) = Num(n, In(b))
      BY <3>1, Zenon
    <3>5. Num(n, Points) = Num(n, In(b)) + 0
      BY <3>2, <3>3, <3>4
    <3> QED
      BY <3>2, <3>5
  <2>7. r.TreeSize \in Nat /\ r.invalid_point_num \in Nat /\ Num(n, Points) \in Nat
    <3>1. r.TreeSize \in Nat /\ r.invalid_point_num \in Nat
      BY <1>2, FieldsOf
    <3> QED
      BY <1>6, <3>1
  <2>8. r.invalid_point_num + Num(n, Points) = r.TreeSize
    BY <1>2, <1>3 DEF SumsRight
  <2>9. d.count = Num(n, In(b))
    BY <2>1, <2>6, <2>7, <2>8
  <2> QED
    BY <2>3, <2>4, <2>5, <2>9
<1>10. CASE ~n.tree_deleted /\ ~Apart(b, r) /\ ~Encloses(b, r)
  <2>1. d.node = t /\ d.count = Count(Hit(n, b)) + v.count + w.count
    BY <1>4, <1>10
  <2>2. /\ Hit(n, b) \in BOOLEAN /\ m \in NodesOver(TreesTo[k])
        /\ m.left = v.node /\ m.right = w.node /\ m.point = n.point
        /\ m.point_deleted = (n.point_deleted \/ Hit(n, b))
        /\ m.point_downsample_deleted = (n.point_downsample_deleted \/ (Hit(n, b) /\ is_downsample))
        /\ m.need_push_down_to_left = (n.need_push_down_to_left /\ n.left = Null)
        /\ m.need_push_down_to_right = (n.need_push_down_to_right /\ n.right = Null)
        /\ Hit(n, b) <=> ~n.point_deleted /\ Inside(n.point, b)
    <3>1. v.node \in TreesTo[k] /\ w.node \in TreesTo[k]
      BY <1>5
    <3> QED
      <4>1. PartGoneRight(m, n, b, is_downsample, v.node, w.node, k)
        BY <3>1, PartGoneTyped
      <4> HIDE DEF m
      <4> QED
        BY <4>1, Zenon DEF PartGoneRight
  <2> HIDE DEF m
  <2>3. LeftSon(n) = Null <=> n.left = Null
    BY <1>1, SonsSame
  <2>4. RightSon(n) = Null <=> n.right = Null
    BY <1>1, SonsSame
  <2>5. n.point_downsample_deleted => n.point_deleted
    BY <1>3 DEF FlagsRight
  <2>6. Joined(m)
    BY <1>5, <2>2, <2>3, <2>4, <2>5, Zenon DEF Joined
  <2>7. Settled(t, m, k)
    BY <2>2, <2>6, SettleIs
  <2> HIDE DEF t
  <2>8. n.point \in Points /\ n.point_deleted \in BOOLEAN
    BY <1>1, TreeFields
  <2>9. \A S : Num(n, S) = Count(~n.point_deleted /\ n.point \in S) + Num(LeftSon(n), S) + Num(RightSon(n), S)
    BY <1>1, NumIs
  <2>10. ASSUME NEW S PROVE Num(t, S) = Num(n, S \ In(b))
    <3>1. Num(t, S) = Count(~m.point_deleted /\ m.point \in S) + Num(m.left, S) + Num(m.right, S)
      BY <2>7 DEF Settled, Total
    <3>2. (~m.point_deleted /\ m.point \in S) <=> (~n.point_deleted /\ n.point \in S \ In(b))
      BY <2>2, <2>8, Zenon DEF In
    <3>3. Count(~m.point_deleted /\ m.point \in S) = Count(~n.point_deleted /\ n.point \in S \ In(b))
      BY <3>2 DEF Count
    <3>4. Num(m.left, S) = Num(LeftSon(n), S \ In(b)) /\ Num(m.right, S) = Num(RightSon(n), S \ In(b))
      BY <1>5, <2>2
    <3> QED
      BY <2>9, <3>1, <3>3, <3>4
  <2>11. d.count = Num(n, In(b))
    <3>1. Hit(n, b) <=> (~n.point_deleted /\ n.point \in In(b))
      BY <2>2, <2>8, Zenon DEF In
    <3>2. Count(Hit(n, b)) = Count(~n.point_deleted /\ n.point \in In(b))
      BY <3>1 DEF Count
    <3> QED
      BY <1>5, <2>1, <2>9, <3>2
  <2>12. t # Null
    <3>1. Num(r, Points \ In(b)) # 0
      BY <1>2, <1>10, BoxIs
    <3>2. Num(t, Points) # 0
      BY <1>2, <2>10, <3>1
    <3> QED
      BY <3>2, NumIs
  <2> QED
    BY <2>1, <2>7, <2>10, <2>11, <2>12 DEF Settled
<1> QED
  BY <1>7, <1>8, <1>9, <1>10

\* A deletion takes the valid points inside the box, counts them and leaves a tree
\* in order that is no higher.
LEMMA DeleteGood ==
  ASSUME NEW b, IsBox(b), NEW is_downsample \in BOOLEAN, NEW tie \in Ties
  PROVE  \A k \in 0 .. MaxHeight : \A n \in TreesTo[k] :
           n \in Good => DeleteRight(n, b, is_downsample, tie, k)
<1> DEFINE E == {k \in 0 .. MaxHeight : \A n \in TreesTo[k] :
                   n \in Good => DeleteRight(n, b, is_downsample, tie, k)}
<1>0. \A k \in Nat : DeleteRight(Null, b, is_downsample, tie, k)
  BY DeleteIs, TreesRise, GoodIs, NumIs DEF DeleteRight
<1>1. 0 \in E
  <2>1. TreesTo[0] = {Null} /\ 0 \in 0 .. MaxHeight
    <3>1. TreesTo[0] = {Null}
      BY TreesToIs
    <3>2. 0 \in 0 .. MaxHeight
      BY HeightIs
    <3> QED
      BY <3>1, <3>2
  <2> QED
    BY <1>0, <2>1
<1>2. ASSUME NEW k \in 0 .. MaxHeight - 1, k \in E PROVE k + 1 \in E
  <2>1. k + 1 \in 0 .. MaxHeight /\ k \in 0 .. MaxHeight /\ k \in Nat /\ k + 1 \in Nat
    BY HeightIs
  <2> SUFFICES ASSUME NEW n \in TreesTo[k + 1], n \in Good
               PROVE  DeleteRight(n, b, is_downsample, tie, k + 1)
    BY <2>1
  <2>2. CASE n = Null
    BY <1>0, <2>1, <2>2
  <2>3. CASE n # Null
    <3>1. n \in NodesOver(TreesTo[k]) /\ LeftSon(n) \in TreesTo[k] /\ RightSon(n) \in TreesTo[k]
      BY <2>1, <2>3, PushTree
    <3>2. LeftSon(n) \in Good /\ RightSon(n) \in Good
      BY <2>3, GoodIs
    <3>3. /\ DeleteRight(LeftSon(n), b, is_downsample, tie, k)
          /\ DeleteRight(RightSon(n), b, is_downsample, tie, k)
      BY <1>2, <3>1, <3>2
    <3> QED
      BY <3>1, <3>3, DeleteStepRight
  <2> QED
    BY <2>2, <2>3
<1>3. \A k \in 0 .. MaxHeight : k \in E
  <2> HIDE DEF E
  <2> QED
    BY <1>1, <1>2, HeightIs, Induction
<1> QED
  BY <1>3

-----------------------------------------------------------------------------
(* Search_by_range.                                                        *)

OwnFound(m, box) == Inside(Push_Down(m).point, box) /\ ~Push_Down(m).point_deleted
OwnList(m, box) == IF OwnFound(m, box) THEN <<Push_Down(m).point>> ELSE <<>>
RangeStep(m, box, v, w) ==
  IF Apart(box, Push_Down(m)) THEN [node |-> Push_Down(m), found |-> <<>>]
  ELSE IF Encloses(box, Push_Down(m))
  THEN [node |-> PushedDown[Push_Down(m)], found |-> flatten[Push_Down(m)]]
  ELSE [node |-> PushedNode(m, v.node, w.node), found |-> OwnList(m, box) \o v.found \o w.found]
RangeFrom(f, box) ==
  f = [m \in Trees |->
        IF m = Null THEN [node |-> m, found |-> <<>>]
        ELSE
          LET r == Push_Down(m)
              onLeft == f[r.left]
              onRight == f[r.right]
              own == Inside(r.point, box) /\ ~r.point_deleted
          IN  IF Apart(box, r) THEN [node |-> r, found |-> <<>>]
              ELSE IF Encloses(box, r) THEN [node |-> PushedDown[r], found |-> flatten[r]]
              ELSE [node |-> [r EXCEPT !.left = onLeft.node, !.right = onRight.node],
                    found |-> (IF own THEN <<r.point>> ELSE <<>>)
                              \o onLeft.found \o onRight.found]]

\* Search_by_range, by what it makes of a node and of the results at the sons.
LEMMA RangeBody ==
  ASSUME NEW box, NEW f
  PROVE  RangeFrom(f, box) <=>
           f = [m \in Trees |->
                 IF m = Null THEN [node |-> m, found |-> <<>>]
                 ELSE RangeStep(m, box, f[LeftSon(m)], f[RightSon(m)])]
<1> QED
  BY Zenon DEF RangeFrom, RangeStep, PushedNode, OwnList, OwnFound, LeftSon, RightSon

\* Search_by_range is the function its LET chooses.
LEMMA RangeChosen ==
  ASSUME NEW box
  PROVE  \A n : Search_by_range(n, box) = (CHOOSE f : RangeFrom(f, box))[n]
<1> QED
  BY DEF Search_by_range, RangeFrom

\* A node's own point, found when it is inside and valid.
LEMMA OwnListIs ==
  ASSUME NEW h \in 0 .. MaxHeight - 1, NEW n \in NodesOver(TreesTo[h]), NEW b
  PROVE  /\ OwnList(n, b) \in Seq(Points)
         /\ \A S : CountIn(OwnList(n, b), S) = Count(~n.point_deleted /\ n.point \in S \cap In(b))
<1> DEFINE r == Push_Down(n)
<1>1. r.point = n.point /\ r.point_deleted = n.point_deleted /\ r \in NodesOver(TreesTo[h])
  BY PushIs, NodeInTrees
<1>2. n.point \in Points /\ n.point_deleted \in BOOLEAN
  BY FieldsOf
<1>3. OwnFound(n, b) <=> ~n.point_deleted /\ n.point \in In(b)
  BY <1>1, <1>2, Zenon DEF OwnFound, In
<1>4. OwnList(n, b) = IF OwnFound(n, b) THEN <<n.point>> ELSE <<>>
  BY <1>1 DEF OwnList
<1>5. <<n.point>> \in Seq(Points) /\ <<>> \in Seq(Points)
  BY <1>2
<1>6. ASSUME NEW S
      PROVE  CountIn(OwnList(n, b), S) = Count(~n.point_deleted /\ n.point \in S \cap In(b))
  <2>1. CASE OwnFound(n, b)
    <3>1. CountIn(OwnList(n, b), S) = Count(n.point \in S)
      BY <1>4, <2>1, CountOne
    <3>2. (n.point \in S) <=> (~n.point_deleted /\ n.point \in S \cap In(b))
      BY <1>3, <2>1
    <3> QED
      BY <3>1, <3>2 DEF Count
  <2>2. CASE ~OwnFound(n, b)
    <3>1. CountIn(OwnList(n, b), S) = 0
      BY <1>4, <2>2, CountEmpty
    <3>2. ~(~n.point_deleted /\ n.point \in S \cap In(b))
      BY <1>3, <2>2
    <3> QED
      BY <3>1, <3>2 DEF Count
  <2> QED
    BY <2>1, <2>2
<1> QED
  BY <1>4, <1>5, <1>6

\* That function exists.
LEMMA RangeExists ==
  ASSUME NEW box
  PROVE  \E f : RangeFrom(f, box)
<1> DEFINE W == [node : AllTrees, found : Seq(Points)]
           V == [k \in Nat |-> [node : TreesTo[k], found : Seq(Points)]]
           Step(m, v, w) == RangeStep(m, box, v, w)
           G == [x \in Trees \X W \X W |-> Step(x[1], x[2], x[3])]
           z == [node |-> Null, found |-> <<>>]
<1>1. MaxHeight \in 0 .. MaxHeight /\ Null \in Trees
  BY HeightIs
<1>2. ASSUME NEW m \in Trees, NEW v \in W, NEW w \in W
      PROVE  G[<<m, v, w>>] = Step(m, v, w)
  <2> HIDE DEF Step, W
  <2> QED
    OBVIOUS
<1>3. ASSUME NEW k \in 0 .. MaxHeight - 1, NEW n \in NodesOver(TreesTo[k]),
             NEW v \in V[k], NEW w \in V[k]
      PROVE  Step(n, v, w) \in V[k + 1]
  <2>1. k \in Nat /\ k + 1 \in Nat /\ n \in TreesTo[k + 1] /\ k + 1 \in 0 .. MaxHeight
    BY NodeInTrees
  <2>2. /\ v.node \in TreesTo[k] /\ v.found \in Seq(Points)
        /\ w.node \in TreesTo[k] /\ w.found \in Seq(Points)
    BY <2>1
  <2>3. \A t \in TreesTo[k + 1] : \A c \in Seq(Points) : [node |-> t, found |-> c] \in V[k + 1]
    BY <2>1
  <2>4. Push_Down(n) \in NodesOver(TreesTo[k]) /\ Push_Down(n) \in TreesTo[k + 1]
        /\ Push_Down(n) \in Trees
    BY <2>1, NodeInTrees, NodeRise
  <2>5. PushedDown[Push_Down(n)] \in TreesTo[k + 1]
    BY <2>1, <2>4, PushedDownIs
  <2>6. flatten[Push_Down(n)] \in Seq(Points)
    BY <2>4, FlattenIs
  <2>7. PushedNode(n, v.node, w.node) \in TreesTo[k + 1]
    <3>1. PushedNode(n, v.node, w.node) \in NodesOver(TreesTo[k])
      BY <2>2, <2>4, PushedNodeIs
    <3> QED
      BY <2>1, <3>1, NodeRise
  <2>8. OwnList(n, box) \o v.found \o w.found \in Seq(Points) /\ <<>> \in Seq(Points)
    <3>1. OwnList(n, box) \in Seq(Points)
      BY OwnListIs
    <3> QED
      BY <2>2, <3>1, ConcatThree
  <2> HIDE DEF V
  <2> QED
    BY <2>1, <2>3, <2>4, <2>5, <2>6, <2>7, <2>8 DEF RangeStep
<1>4. TreeFounded(MaxHeight, W, V, z, G)
  <2>1. V \in [Nat -> SUBSET W] /\ z \in V[0] /\ \A k \in Nat : V[k] \subseteq V[k + 1]
    BY AllTreesIs, TreesRise
  <2>2. ASSUME NEW k \in 0 .. MaxHeight - 1, NEW n \in NodesOver(TreesTo[k]),
               NEW v \in V[k], NEW w \in V[k]
        PROVE  G[<<n, v, w>>] \in V[k + 1]
    <3>1. n \in Trees /\ k \in Nat
      BY NodeInTrees
    <3> HIDE DEF V, W, G, Step
    <3>2. v \in W /\ w \in W
      BY <2>1, <3>1
    <3> QED
      BY <1>2, <1>3, <3>1, <3>2
  <2> HIDE DEF V, W, G, Step, z
  <2> QED
    BY <2>1, <2>2 DEF TreeFounded
<1>5. PICK f \in [Trees -> W] :
        \A n \in Trees : f[n] = IF n = Null THEN z ELSE G[<<n, f[LeftSon(n)], f[RightSon(n)]>>]
  <2> HIDE DEF V, W, G, Step, z
  <2>1. \E f \in [TreesTo[MaxHeight] -> W] :
          \A n \in TreesTo[MaxHeight] :
            f[n] = IF n = Null THEN z ELSE G[<<n, f[LeftSon(n)], f[RightSon(n)]>>]
    BY <1>1, <1>4, TreeRecursion
  <2> QED
    BY <2>1 DEF Trees
<1>6. ASSUME NEW n \in Trees
      PROVE  f[n] = IF n = Null THEN [node |-> n, found |-> <<>>]
                    ELSE RangeStep(n, box, f[LeftSon(n)], f[RightSon(n)])
  <2>1. CASE n = Null
    BY <1>5, <2>1
  <2>2. CASE n # Null
    <3>1. LeftSon(n) \in Trees /\ RightSon(n) \in Trees
      BY <2>2, SonsInTrees
    <3> HIDE DEF W, G
    <3>2. f[LeftSon(n)] \in W /\ f[RightSon(n)] \in W
      BY <1>5, <3>1
    <3>3. f[n] = Step(n, f[LeftSon(n)], f[RightSon(n)])
      <4> HIDE DEF Step
      <4> QED
        BY <1>2, <1>5, <2>2, <3>2
    <3> QED
      BY <2>2, <3>3
  <2> QED
    BY <2>1, <2>2
<1>7. f = [m \in Trees |->
            IF m = Null THEN [node |-> m, found |-> <<>>]
            ELSE RangeStep(m, box, f[LeftSon(m)], f[RightSon(m)])]
  <2> HIDE DEF W
  <2> QED
    BY <1>6
<1> QED
  BY <1>7, RangeBody

\* So Search_by_range is what its recursion says.
LEMMA RangeIs ==
  ASSUME NEW box
  PROVE  /\ Search_by_range(Null, box) = [node |-> Null, found |-> <<>>]
         /\ \A n \in Trees \ {Null} :
              Search_by_range(n, box)
                = RangeStep(n, box, Search_by_range(LeftSon(n), box), Search_by_range(RightSon(n), box))
<1> DEFINE f == CHOOSE g : RangeFrom(g, box)
<1>1. RangeFrom(f, box)
  BY RangeExists
<1>2. \A n : Search_by_range(n, box) = f[n]
  BY RangeChosen
<1> HIDE DEF f
<1>3. f = [m \in Trees |->
            IF m = Null THEN [node |-> m, found |-> <<>>]
            ELSE RangeStep(m, box, f[LeftSon(m)], f[RightSon(m)])]
  BY <1>1, RangeBody
<1>4. Null \in Trees
  BY HeightIs
<1>5. f[Null] = [node |-> Null, found |-> <<>>]
  BY <1>3, <1>4
<1>6. \A n \in Trees \ {Null} :
        f[n] = RangeStep(n, box, f[LeftSon(n)], f[RightSon(n)])
  BY <1>3
<1> QED
  BY <1>2, <1>5, <1>6

\* What a search of a box promises.
RangeRight(n, b, k) ==
  LET d == Search_by_range(n, b)
  IN  /\ d.node \in TreesTo[k] /\ d.node \in Good /\ Alike(d.node, n)
      /\ d.found \in Seq(Points)
      /\ \A S : CountIn(d.found, S) = Num(n, S \cap In(b))

\* When both sons are searched rightly, so is the node.
LEMMA RangeStepRight ==
  ASSUME NEW b, IsBox(b), NEW k \in 0 .. MaxHeight - 1, NEW n \in NodesOver(TreesTo[k]), n \in Good,
         RangeRight(LeftSon(n), b, k), RangeRight(RightSon(n), b, k)
  PROVE  RangeRight(n, b, k + 1)
<1> DEFINE r == Push_Down(n)
           v == Search_by_range(LeftSon(n), b)
           w == Search_by_range(RightSon(n), b)
           d == Search_by_range(n, b)
<1>1. /\ n \in Trees /\ n # Null /\ k \in Nat /\ k + 1 \in 0 .. MaxHeight
      /\ Push_Down(n) \in NodesOver(TreesTo[k])
  BY NodeInTrees
<1>2. /\ r \in TreesTo[k + 1] /\ r \in Good /\ r # Null /\ r \in Trees /\ Alike(r, n)
  BY PushAlike, GoodIs
<1>3. \A S : Num(r, S) = Num(n, S)
  BY <1>2 DEF Alike
<1>4. d = IF Apart(b, r) THEN [node |-> r, found |-> <<>>]
          ELSE IF Encloses(b, r) THEN [node |-> PushedDown[r], found |-> flatten[r]]
          ELSE [node |-> PushedNode(n, v.node, w.node), found |-> OwnList(n, b) \o v.found \o w.found]
  BY <1>1, RangeIs DEF RangeStep
<1>5. /\ v.node \in TreesTo[k] /\ v.node \in Good /\ Alike(v.node, LeftSon(n))
      /\ v.found \in Seq(Points)
      /\ \A S : CountIn(v.found, S) = Num(LeftSon(n), S \cap In(b))
      /\ w.node \in TreesTo[k] /\ w.node \in Good /\ Alike(w.node, RightSon(n))
      /\ w.found \in Seq(Points)
      /\ \A S : CountIn(w.found, S) = Num(RightSon(n), S \cap In(b))
  BY DEF RangeRight
<1> HIDE DEF r, d, v, w
<1>6. ASSUME NEW S
      PROVE Num(n, S) \in Nat /\ Num(n, S) = Num(n, S \cap In(b)) + Num(n, S \ In(b))
            /\ Num(n, S \cap In(b)) \in Nat
  <2>1. Num(n, S) \in Nat /\ Num(n, S \cap In(b)) \in Nat
    BY <1>1, NumIs
  <2> QED
    BY <1>1, <2>1, NumSplit
<1> SUFFICES /\ d.node \in TreesTo[k + 1] /\ d.node \in Good /\ Alike(d.node, n)
             /\ d.found \in Seq(Points)
             /\ \A S : CountIn(d.found, S) = Num(n, S \cap In(b))
  BY Zenon DEF RangeRight, d
<1>7. CASE Apart(b, r)
  <2>1. d.node = r /\ d.found = <<>>
    BY <1>4, <1>7
  <2>2. Num(n, In(b)) = 0
    BY <1>2, <1>3, <1>7, BoxIs
  <2>3. Valid(n) \cap In(b) = {}
    BY <1>1, <2>2, NumNone
  <2>4. \A S : Num(n, S \cap In(b)) = 0
    <3> TAKE S
    <3>1. Valid(n) \cap (S \cap In(b)) = {}
      BY <2>3
    <3> QED
      BY <1>1, <3>1, NumNone
  <2>5. <<>> \in Seq(Points) /\ \A S : CountIn(<<>>, S) = 0
    BY CountEmpty
  <2> QED
    BY <1>2, <2>1, <2>4, <2>5
<1>8. CASE ~Apart(b, r) /\ Encloses(b, r)
  <2>1. d.node = PushedDown[r] /\ d.found = flatten[r]
    BY <1>4, <1>8
  <2>2. PushedDown[r] \in TreesTo[k + 1] /\ PushedDown[r] \in Good /\ Alike(PushedDown[r], r)
    BY <1>1, <1>2, PushedDownGood
  <2>3. Alike(PushedDown[r], n)
    BY <1>2, <2>2 DEF Alike
  <2>4. \A S : Num(n, S \ In(b)) = 0
    BY <1>2, <1>3, <1>8, BoxIs
  <2>5. ASSUME NEW S PROVE CountIn(flatten[r], S) = Num(n, S \cap In(b))
    <3>1. CountIn(flatten[r], S) = Num(n, S)
      BY <1>3 DEF Num
    <3>2. Num(n, S \ In(b)) = 0
      BY <2>4
    <3>3. Num(n, S) = Num(n, S \cap In(b)) + 0 /\ Num(n, S \cap In(b)) \in Nat
      BY <1>6, <3>2
    <3>4. Num(n, S) = Num(n, S \cap In(b))
      BY <3>3
    <3> QED
      BY <3>1, <3>4, Zenon
  <2>6. flatten[r] \in Seq(Points)
    BY <1>2, FlattenIs
  <2> QED
    BY <2>1, <2>2, <2>3, <2>5, <2>6
<1>9. CASE ~Apart(b, r) /\ ~Encloses(b, r)
  <2>1. /\ d.node = PushedNode(n, v.node, w.node)
        /\ d.found = OwnList(n, b) \o v.found \o w.found
    BY <1>4, <1>9
  <2>2. d.node \in TreesTo[k + 1] /\ d.node \in Good /\ Alike(d.node, n)
    BY <1>5, <2>1, Regraft
  <2>3. /\ OwnList(n, b) \in Seq(Points)
        /\ \A S : CountIn(OwnList(n, b), S) = Count(~n.point_deleted /\ n.point \in S \cap In(b))
    BY OwnListIs
  <2>4. OwnList(n, b) \o v.found \in Seq(Points) /\ d.found \in Seq(Points)
    BY <1>5, <2>1, <2>3, ConcatThree, CountConcat
  <2>5. ASSUME NEW S PROVE CountIn(d.found, S) = Num(n, S \cap In(b))
    <3>1. CountIn(OwnList(n, b) \o v.found, S) = CountIn(OwnList(n, b), S) + CountIn(v.found, S)
      BY <1>5, <2>3, CountConcat
    <3>2. CountIn(d.found, S) = CountIn(OwnList(n, b) \o v.found, S) + CountIn(w.found, S)
      <4> DEFINE q == OwnList(n, b) \o v.found
      <4>1. q \in Seq(Points) /\ w.found \in Seq(Points) /\ d.found = q \o w.found
        BY <1>5, <2>1, <2>4
      <4> HIDE DEF q
      <4>2. CountIn(q \o w.found, S) = CountIn(q, S) + CountIn(w.found, S)
        BY <4>1, CountConcat
      <4>3. CountIn(d.found, S) = CountIn(q, S) + CountIn(w.found, S)
        BY <4>1, <4>2
      <4> QED
        BY <4>3 DEF q
    <3>3. Num(n, S \cap In(b)) = Count(~n.point_deleted /\ n.point \in S \cap In(b))
                                 + Num(LeftSon(n), S \cap In(b)) + Num(RightSon(n), S \cap In(b))
      BY <1>1, NumIs
    <3> QED
      BY <1>5, <2>3, <3>1, <3>2, <3>3
  <2> QED
    BY <2>2, <2>4, <2>5
<1> QED
  BY <1>7, <1>8, <1>9

\* A search of a box lists the valid points inside and leaves a tree in order with
\* the same points.
LEMMA RangeGood ==
  ASSUME NEW b, IsBox(b)
  PROVE  \A k \in 0 .. MaxHeight : \A n \in TreesTo[k] : n \in Good => RangeRight(n, b, k)
<1> DEFINE E == {k \in 0 .. MaxHeight : \A n \in TreesTo[k] : n \in Good => RangeRight(n, b, k)}
<1>0. \A k \in Nat : RangeRight(Null, b, k)
  <2>1. <<>> \in Seq(Points)
    OBVIOUS
  <2> DEFINE d == Search_by_range(Null, b)
  <2>2. d.node = Null /\ d.found = <<>>
    BY RangeIs
  <2>3. Alike(d.node, Null) /\ d.node \in Good
    BY <2>2, AlikeSelf, GoodIs
  <2>4. \A S : CountIn(<<>>, S) = 0
    BY CountEmpty
  <2>5. \A S : Num(Null, S) = 0
    BY NumIs
  <2>6. \A S : CountIn(d.found, S) = Num(Null, S \cap In(b))
    BY <2>2, <2>4, <2>5
  <2>7. \A k \in Nat : d.node \in TreesTo[k]
    BY <2>2, TreesRise
  <2>8. d.found \in Seq(Points)
    BY <2>1, <2>2
  <2> QED
    BY <2>3, <2>6, <2>7, <2>8, Zenon DEF RangeRight
<1>1. 0 \in E
  <2>1. TreesTo[0] = {Null}
    BY TreesToIs
  <2>2. 0 \in 0 .. MaxHeight
    BY HeightIs
  <2> QED
    BY <1>0, <2>1, <2>2
<1>2. ASSUME NEW k \in 0 .. MaxHeight - 1, k \in E PROVE k + 1 \in E
  <2>1. k + 1 \in 0 .. MaxHeight /\ k \in 0 .. MaxHeight /\ k \in Nat /\ k + 1 \in Nat
    BY HeightIs
  <2> SUFFICES ASSUME NEW n \in TreesTo[k + 1], n \in Good
               PROVE  RangeRight(n, b, k + 1)
    BY <2>1
  <2>2. CASE n = Null
    BY <1>0, <2>1, <2>2
  <2>3. CASE n # Null
    <3>1. n \in NodesOver(TreesTo[k]) /\ LeftSon(n) \in TreesTo[k] /\ RightSon(n) \in TreesTo[k]
      BY <2>1, <2>3, PushTree
    <3>2. LeftSon(n) \in Good /\ RightSon(n) \in Good
      BY <2>3, GoodIs
    <3>3. RangeRight(LeftSon(n), b, k) /\ RangeRight(RightSon(n), b, k)
      BY <1>2, <3>1, <3>2
    <3> QED
      BY <3>1, <3>3, RangeStepRight
  <2> QED
    BY <2>2, <2>3
<1>3. \A k \in 0 .. MaxHeight : k \in E
  <2> HIDE DEF E
  <2> QED
    BY <1>1, <1>2, HeightIs, Induction
<1> QED
  BY <1>3

-----------------------------------------------------------------------------
(* Add_by_point.                                                           *)

LeafBelow(m, p) == Leaf(p, Push_Down(m).division_axis)
Under(son, m, p, v) == IF son = Null THEN LeafBelow(m, p) ELSE v
GoesLeft(m, p) == p[Push_Down(m).division_axis] < Push_Down(m).point[Push_Down(m).division_axis]
AddStep(m, p, tie, v, w) ==
  IF GoesLeft(m, p)
  THEN Settle([Push_Down(m) EXCEPT !.left = Under(LeftSon(m), m, p, v)], tie)
  ELSE Settle([Push_Down(m) EXCEPT !.right = Under(RightSon(m), m, p, w)], tie)
AddFrom(f, p, tie) ==
  f = [m \in LowerTrees \ {Null} |->
        LET r == Push_Down(m)
            under(son) == IF son = Null THEN Leaf(p, r.division_axis) ELSE f[son]
        IN  IF p[r.division_axis] < r.point[r.division_axis]
            THEN Settle([r EXCEPT !.left = under(@)], tie)
            ELSE Settle([r EXCEPT !.right = under(@)], tie)]

\* Add_by_point, by what it makes of a node and of the results at the sons.
LEMMA AddBody ==
  ASSUME NEW p, NEW tie, NEW f
  PROVE  AddFrom(f, p, tie) <=>
           f = [m \in LowerTrees \ {Null} |-> AddStep(m, p, tie, f[LeftSon(m)], f[RightSon(m)])]
<1> QED
  BY Zenon DEF AddFrom, AddStep, Under, LeafBelow, GoesLeft, LeftSon, RightSon

\* Add_by_point is the function its LET chooses.
LEMMA AddChosen ==
  ASSUME NEW p, NEW tie
  PROVE  \A n : Add_by_point(n, p, tie) = (CHOOSE f : AddFrom(f, p, tie))[n]
<1> QED
  BY DEF Add_by_point, AddFrom

\* A new leaf.
LEMMA LeafIs ==
  ASSUME NEW p \in Points, NEW axis \in Axes
  PROVE  /\ Leaf(p, axis) \in TreesTo[1] /\ Leaf(p, axis) \in Good /\ Leaf(p, axis) # Null
         /\ Fresh(Leaf(p, axis)) /\ \A S : Num(Leaf(p, axis), S) = Count(p \in S)
<1> DEFINE next == (axis % 3) + 1
           n == InitTreeNode(p, next)
           u == Update(n)
<1>1. next \in Axes /\ axis \in 1 .. 3
  BY DEF Axes
<1> HIDE DEF next
<1>2. Null \in TreesTo[0] /\ 0 \in Nat
  BY TreesRise
<1>3. /\ n \in NodesOver(TreesTo[0]) /\ n.point = p /\ n.left = Null /\ n.right = Null
      /\ ~n.point_deleted /\ ~n.point_downsample_deleted
      /\ ~n.need_push_down_to_left /\ ~n.need_push_down_to_right
  BY <1>1, <1>2, PointsAre DEF InitTreeNode, NodesOver
<1>5. Leaf(p, axis) = u
  BY DEF Leaf, next
<1> HIDE DEF n, u
<1>6. Sons(n) = {}
  BY <1>3 DEF Sons
<1>7. n.point_deleted \in BOOLEAN /\ n.point_downsample_deleted \in BOOLEAN
  BY <1>3, FieldsOf
<1>8. Dead(n) = FALSE /\ AllDown(n) = FALSE
  BY <1>3, <1>6, <1>7 DEF Dead, AllDown
<1>9. Corners(n) = {p}
  BY <1>3, <1>6, <1>8 DEF Corners
<1>10. /\ u \in NodesOver(TreesTo[0]) /\ u.point = n.point /\ u.left = n.left /\ u.right = n.right
       /\ u.point_deleted = n.point_deleted /\ u.point_downsample_deleted = n.point_downsample_deleted
       /\ u.TreeSize = SizeOf(n.left) + SizeOf(n.right) + 1
       /\ u.invalid_point_num = InvalidOf(n.left) + InvalidOf(n.right) + Count(n.point_deleted)
       /\ u.down_del_num
            = DownDeletedOf(n.left) + DownDeletedOf(n.right) + Count(n.point_downsample_deleted)
       /\ u.tree_deleted = Dead(n) /\ u.tree_downsample_deleted = AllDown(n)
       /\ \A x \in Axes : /\ u.lo[x] = Min({c[x] : c \in Corners(n)})
                          /\ u.hi[x] = Max({c[x] : c \in Corners(n)})
  BY <1>2, <1>3, UpdateIs DEF u
<1>11. p \in [Axes -> Int] /\ u.lo \in [Axes -> Int] /\ u.hi \in [Axes -> Int]
  BY <1>10, FieldsOf, PointsAre
<1>12. ASSUME NEW x \in Axes PROVE u.lo[x] = p[x] /\ u.hi[x] = p[x]
  <2>1. {c[x] : c \in {p}} = {p[x]} /\ p[x] \in Int
    BY <1>11
  <2>2. Min({p[x]}) \in {p[x]} /\ Max({p[x]}) \in {p[x]}
    <3>1. {p[x]} \in SUBSET Int /\ {p[x]} # {} /\ IsFiniteSet({p[x]})
      BY <2>1, FS_Singleton
    <3> QED
      BY <3>1, ExtremesOf
  <2> QED
    BY <1>9, <1>10, <2>1, <2>2
<1>13. u.lo = p /\ u.hi = p
  BY <1>11, <1>12
<1>14. u.TreeSize = 1 /\ u.invalid_point_num = 0 /\ u.down_del_num = 0
  BY <1>3, <1>10 DEF SizeOf, InvalidOf, DownDeletedOf, Count
<1>15. Fresh(u)
  BY <1>3, <1>8, <1>10, <1>13, <1>14 DEF Fresh
<1>16. u \in TreesTo[1] /\ u \in Trees /\ u # Null
  <2>1. 0 \in 0 .. MaxHeight - 1 /\ 0 + 1 = 1
    BY ConstantsAssumption
  <2> QED
    BY <1>10, <2>1, NodeInTrees
<1>17. u \in Good /\ \A S : Num(u, S) = Count(u.point \in S)
  BY <1>15, <1>16, FreshGood
<1> QED
  BY <1>3, <1>5, <1>10, <1>15, <1>16, <1>17

\* A node of a tree in order with one son replaced by a higher one.
LEMMA Graft ==
  ASSUME NEW h \in 0 .. MaxHeight - 2, NEW n \in NodesOver(TreesTo[h]),
         NEW l \in TreesTo[h + 1], NEW r \in TreesTo[h + 1]
  PROVE  LET t == PushedNode(n, l, r)
         IN  /\ t \in NodesOver(TreesTo[h + 1]) /\ t.left = l /\ t.right = r /\ t.point = n.point
             /\ t.point_deleted = n.point_deleted
             /\ t.point_downsample_deleted = n.point_downsample_deleted
             /\ t.need_push_down_to_left = (n.need_push_down_to_left /\ n.left = Null)
             /\ t.need_push_down_to_right = (n.need_push_down_to_right /\ n.right = Null)
<1> DEFINE d == Push_Down(n)
           t == PushedNode(n, l, r)
<1>1. h \in 0 .. MaxHeight - 1
  BY HeightIs
<1>2. /\ d \in NodesOver(TreesTo[h]) /\ d.point = n.point
      /\ d.point_deleted = n.point_deleted /\ d.point_downsample_deleted = n.point_downsample_deleted
      /\ d.need_push_down_to_left = (n.need_push_down_to_left /\ n.left = Null)
      /\ d.need_push_down_to_right = (n.need_push_down_to_right /\ n.right = Null)
  BY <1>1, NodeInTrees, PushIs
<1>3. t = [d EXCEPT !.left = l, !.right = r]
  BY DEF PushedNode
<1> HIDE DEF d, t
<1>4. /\ t \in NodesOver(TreesTo[h + 1]) /\ t.left = l /\ t.right = r /\ t.point = d.point
      /\ t.point_deleted = d.point_deleted /\ t.point_downsample_deleted = d.point_downsample_deleted
      /\ t.need_push_down_to_left = d.need_push_down_to_left
      /\ t.need_push_down_to_right = d.need_push_down_to_right
  BY <1>2, <1>3 DEF NodesOver
<1> QED
  BY <1>2, <1>4, Zenon DEF t

\* A node in order over sons in order, or a new leaf where there was none, settles in
\* order with the points of all three.
LEMMA Grafted ==
  ASSUME NEW h \in 0 .. MaxHeight - 2, NEW n \in NodesOver(TreesTo[h]), n \in Good,
         NEW l \in TreesTo[h + 1], l \in Good, LeftSon(n) = Null => l = Null \/ Fresh(l),
         NEW r \in TreesTo[h + 1], r \in Good, RightSon(n) = Null => r = Null \/ Fresh(r),
         NEW tie \in Ties
  PROVE  /\ Settle(PushedNode(n, l, r), tie) \in TreesTo[(h + 1) + 1]
         /\ Settle(PushedNode(n, l, r), tie) \in Good
         /\ \A S : Num(Settle(PushedNode(n, l, r), tie), S)
                     = Count(~n.point_deleted /\ n.point \in S) + Num(l, S) + Num(r, S)
<1> DEFINE t == PushedNode(n, l, r)
<1>1. h + 1 \in 0 .. MaxHeight - 1 /\ h \in 0 .. MaxHeight - 1
  BY HeightIs
<1>2. n \in Trees /\ n # Null /\ FlagsRight(n)
  BY <1>1, NodeInTrees, GoodIs DEF Local
<1>3. /\ t \in NodesOver(TreesTo[h + 1]) /\ t.left = l /\ t.right = r /\ t.point = n.point
      /\ t.point_deleted = n.point_deleted
      /\ t.point_downsample_deleted = n.point_downsample_deleted
      /\ t.need_push_down_to_left = (n.need_push_down_to_left /\ n.left = Null)
      /\ t.need_push_down_to_right = (n.need_push_down_to_right /\ n.right = Null)
  BY Graft
<1>4. LeftSon(n) = Null <=> n.left = Null
  BY <1>2, SonsSame
<1>5. RightSon(n) = Null <=> n.right = Null
  BY <1>2, SonsSame
<1> HIDE DEF t
<1>6. Joined(t)
  BY <1>2, <1>3, <1>4, <1>5, Zenon DEF Joined, FlagsRight
<1>7. Settled(Settle(t, tie), t, h + 1)
  BY <1>1, <1>3, <1>6, SettleIs
<1>8. \A S : Total(t, S) = Count(~n.point_deleted /\ n.point \in S) + Num(l, S) + Num(r, S)
  BY <1>3 DEF Total
<1> QED
  BY <1>7, <1>8 DEF Settled, t

\* Add_by_point gives the node one other son.
LEMMA SidesAre ==
  ASSUME NEW h \in 0 .. MaxHeight - 1, NEW n \in NodesOver(TreesTo[h]), NEW l
  PROVE  /\ [Push_Down(n) EXCEPT !.left = l] = PushedNode(n, l, RightSon(n))
         /\ [Push_Down(n) EXCEPT !.right = l] = PushedNode(n, LeftSon(n), l)
<1> DEFINE d == Push_Down(n)
<1>1. d \in NodesOver(TreesTo[h])
  BY NodeInTrees
<1>2. PushedNode(n, l, d.right) = [d EXCEPT !.left = l, !.right = d.right]
  BY DEF PushedNode
<1>3. PushedNode(n, d.left, l) = [d EXCEPT !.left = d.left, !.right = l]
  BY DEF PushedNode
<1> HIDE DEF d
<1>4. [d EXCEPT !.left = l] = [d EXCEPT !.left = l, !.right = d.right]
  BY <1>1 DEF NodesOver
<1>5. [d EXCEPT !.right = l] = [d EXCEPT !.left = d.left, !.right = l]
  BY <1>1 DEF NodesOver
<1>6. [d EXCEPT !.left = l] = PushedNode(n, l, d.right)
  BY <1>2, <1>4
<1>7. [d EXCEPT !.right = l] = PushedNode(n, d.left, l)
  BY <1>3, <1>5
<1> QED
  BY <1>6, <1>7 DEF d, LeftSon, RightSon

\* The trees an insertion may make higher.
LEMMA LowerIs ==
  /\ MaxHeight - 1 \in 0 .. MaxHeight /\ MaxHeight - 1 \in Nat
  /\ LowerTrees = TreesTo[MaxHeight - 1] /\ LowerTrees \subseteq Trees
  /\ \A k \in 0 .. (MaxHeight - 1) - 1 :
       /\ k \in 0 .. MaxHeight - 1 /\ k \in 0 .. MaxHeight - 2 /\ k \in Nat
       /\ k + 1 \in 0 .. MaxHeight - 1
  /\ \A n \in LowerTrees \ {Null} :
       /\ n \in Trees /\ LeftSon(n) \in LowerTrees /\ RightSon(n) \in LowerTrees
       /\ \E h \in 0 .. MaxHeight - 2 : n \in NodesOver(TreesTo[h])
<1>1. MaxHeight \in Nat \ {0}
  BY ConstantsAssumption
<1>2. MaxHeight - 1 \in 0 .. MaxHeight /\ MaxHeight - 1 \in Nat
  BY <1>1
<1>3. LowerTrees = TreesTo[MaxHeight - 1] /\ LowerTrees \subseteq Trees
  BY <1>2, HeightIs DEF LowerTrees
<1>4. \A k \in 0 .. (MaxHeight - 1) - 1 :
        /\ k \in 0 .. MaxHeight - 1 /\ k \in 0 .. MaxHeight - 2 /\ k \in Nat
        /\ k + 1 \in 0 .. MaxHeight - 1
  BY <1>1
<1>5. ASSUME NEW n \in LowerTrees, n # Null
      PROVE  /\ n \in Trees /\ LeftSon(n) \in LowerTrees /\ RightSon(n) \in LowerTrees
             /\ \E h \in 0 .. MaxHeight - 2 : n \in NodesOver(TreesTo[h])
  <2> DEFINE m == MaxHeight - 1
  <2>1. m \in 0 .. MaxHeight /\ n \in TreesTo[m]
    BY <1>2, <1>3
  <2> HIDE DEF m
  <2>2. /\ m # 0 /\ m - 1 \in 0 .. MaxHeight /\ n \in NodesOver(TreesTo[m - 1])
        /\ LeftSon(n) \in TreesTo[m - 1] /\ RightSon(n) \in TreesTo[m - 1]
    BY <1>5, <2>1, PushTree
  <2>3. TreesTo[m - 1] \subseteq TreesTo[m]
    <3>1. m - 1 \in Nat /\ (m - 1) + 1 = m
      BY <1>1, <2>1, <2>2
    <3>2. TreesTo[m - 1] \subseteq TreesTo[(m - 1) + 1]
      BY <3>1, TreesRise
    <3> QED
      BY <3>1, <3>2
  <2>4. m - 1 \in 0 .. MaxHeight - 2
    BY <1>1, <2>2 DEF m
  <2>5. LeftSon(n) \in LowerTrees /\ RightSon(n) \in LowerTrees
    BY <1>3, <2>2, <2>3 DEF m
  <2> QED
    BY <1>3, <2>2, <2>4, <2>5
<1> QED
  BY <1>2, <1>3, <1>4, <1>5

\* That function exists.
LEMMA AddExists ==
  ASSUME NEW p \in Points, NEW tie \in Ties
  PROVE  \E f : AddFrom(f, p, tie)
<1> DEFINE W == AllTrees
           V == [k \in Nat |-> TreesTo[k + 1]]
           Step(m, v, w) == AddStep(m, p, tie, v, w)
           G == [x \in Trees \X W \X W |-> Step(x[1], x[2], x[3])]
           M == MaxHeight - 1
<1>1. /\ M \in 0 .. MaxHeight /\ LowerTrees = TreesTo[M]
      /\ \A k \in 0 .. M - 1 :
           /\ k \in 0 .. MaxHeight - 1 /\ k \in 0 .. MaxHeight - 2 /\ k \in Nat
           /\ k + 1 \in 0 .. MaxHeight - 1
  BY LowerIs
<1> HIDE DEF M
<1>2. ASSUME NEW m \in Trees, NEW v \in W, NEW w \in W
      PROVE  G[<<m, v, w>>] = Step(m, v, w)
  <2> HIDE DEF Step, W
  <2> QED
    OBVIOUS
<1>3. ASSUME NEW k \in 0 .. M - 1, NEW n \in NodesOver(TreesTo[k]),
             NEW v \in TreesTo[k + 1], NEW w \in TreesTo[k + 1]
      PROVE  Step(n, v, w) \in TreesTo[(k + 1) + 1]
  <2>1. k \in 0 .. MaxHeight - 1 /\ k \in 0 .. MaxHeight - 2 /\ k \in Nat /\ k + 1 \in 0 .. MaxHeight - 1
    BY <1>1
  <2>2. Push_Down(n) \in NodesOver(TreesTo[k]) /\ LeftSon(n) \in TreesTo[k] /\ RightSon(n) \in TreesTo[k]
    BY <2>1, NodeInTrees
  <2>3. TreesTo[k] \subseteq TreesTo[k + 1]
    BY <2>1, TreesRise
  <2>4. LeafBelow(n, p) \in TreesTo[k + 1]
    <3>1. Push_Down(n).division_axis \in Axes
      BY <2>2, FieldsOf
    <3>2. LeafBelow(n, p) \in TreesTo[1]
      BY <3>1, LeafIs DEF LeafBelow
    <3>3. 1 \in Nat /\ k + 1 \in Nat /\ 1 <= k + 1
      BY <2>1
    <3> QED
      BY <3>2, <3>3, TreesHigher
  <2>5. Under(LeftSon(n), n, p, v) \in TreesTo[k + 1] /\ Under(RightSon(n), n, p, w) \in TreesTo[k + 1]
    BY <2>4 DEF Under
  <2>6. ASSUME NEW l \in TreesTo[k + 1], NEW r \in TreesTo[k + 1]
        PROVE  Settle(PushedNode(n, l, r), tie) \in TreesTo[(k + 1) + 1]
    <3>1. PushedNode(n, l, r) \in NodesOver(TreesTo[k + 1])
      BY <2>2, PushedNodeIs
    <3> DEFINE j == k + 1
    <3>2. j \in 0 .. MaxHeight - 1 /\ PushedNode(n, l, r) \in NodesOver(TreesTo[j])
      BY <2>1, <3>1
    <3> HIDE DEF j
    <3>3. Settle(PushedNode(n, l, r), tie) \in TreesTo[j + 1]
      BY <3>2, SettleTyped
    <3> QED
      BY <3>3 DEF j
  <2>7. Settle(PushedNode(n, Under(LeftSon(n), n, p, v), RightSon(n)), tie) \in TreesTo[(k + 1) + 1]
    BY <2>2, <2>3, <2>5, <2>6
  <2>8. Settle(PushedNode(n, LeftSon(n), Under(RightSon(n), n, p, w)), tie) \in TreesTo[(k + 1) + 1]
    BY <2>2, <2>3, <2>5, <2>6
  <2>9. /\ \A s : [Push_Down(n) EXCEPT !.left = s] = PushedNode(n, s, RightSon(n))
        /\ \A s : [Push_Down(n) EXCEPT !.right = s] = PushedNode(n, LeftSon(n), s)
    BY <2>1, SidesAre
  <2> QED
    BY <2>7, <2>8, <2>9 DEF AddStep
<1>4. TreeFounded(M, W, V, Null, G)
  <2>1. V \in [Nat -> SUBSET W] /\ Null \in V[0] /\ \A k \in Nat : V[k] \subseteq V[k + 1]
    <3>1. \A k \in Nat : k + 1 \in Nat
      OBVIOUS
    <3>2. V \in [Nat -> SUBSET W]
      BY <3>1, AllTreesIs
    <3>3. Null \in V[0]
      BY TreesRise
    <3>4. \A k \in Nat : V[k] \subseteq V[k + 1]
      BY <3>1, AllTreesIs
    <3> QED
      BY <3>2, <3>3, <3>4
  <2>2. ASSUME NEW k \in 0 .. M - 1, NEW n \in NodesOver(TreesTo[k]),
               NEW v \in V[k], NEW w \in V[k]
        PROVE  G[<<n, v, w>>] \in V[k + 1]
    <3>1. n \in Trees /\ k \in Nat /\ k + 1 \in Nat
      BY <1>1, NodeInTrees
    <3>2. v \in TreesTo[k + 1] /\ w \in TreesTo[k + 1] /\ V[k + 1] = TreesTo[(k + 1) + 1]
      BY <3>1
    <3>3. v \in W /\ w \in W
      BY <3>1, <3>2, AllTreesIs
    <3> HIDE DEF V, W, G, Step
    <3>4. G[<<n, v, w>>] = Step(n, v, w)
      BY <1>2, <3>1, <3>3
    <3>5. Step(n, v, w) \in TreesTo[(k + 1) + 1]
      BY <1>3, <3>2
    <3> QED
      BY <3>2, <3>4, <3>5
  <2> HIDE DEF V, W, G, Step
  <2> QED
    BY <2>1, <2>2 DEF TreeFounded
<1>5. PICK f \in [LowerTrees -> W] :
        \A n \in LowerTrees : f[n] = IF n = Null THEN Null ELSE G[<<n, f[LeftSon(n)], f[RightSon(n)]>>]
  <2> HIDE DEF V, W, G, Step
  <2>1. \E f \in [TreesTo[M] -> W] :
          \A n \in TreesTo[M] :
            f[n] = IF n = Null THEN Null ELSE G[<<n, f[LeftSon(n)], f[RightSon(n)]>>]
    BY <1>1, <1>4, TreeRecursion
  <2> QED
    BY <1>1, <2>1
<1> DEFINE g == [m \in LowerTrees \ {Null} |-> f[m]]
<1>6. ASSUME NEW n \in LowerTrees, n # Null
      PROVE  f[n] = AddStep(n, p, tie, f[LeftSon(n)], f[RightSon(n)])
  <2>1. LeftSon(n) \in LowerTrees /\ RightSon(n) \in LowerTrees /\ n \in Trees
    BY <1>6, LowerIs
  <2> HIDE DEF W, G
  <2>2. f[LeftSon(n)] \in W /\ f[RightSon(n)] \in W
    BY <1>5, <2>1
  <2>3. f[n] = Step(n, f[LeftSon(n)], f[RightSon(n)])
    <3> HIDE DEF Step
    <3> QED
      BY <1>2, <1>5, <1>6, <2>1, <2>2
  <2> QED
    BY <2>3
<1>7. ASSUME NEW n \in LowerTrees, n # Null
      PROVE  g[n] = AddStep(n, p, tie, g[LeftSon(n)], g[RightSon(n)])
  <2>1. LeftSon(n) \in LowerTrees /\ RightSon(n) \in LowerTrees
    BY <1>7, LowerIs
  <2>2. Under(LeftSon(n), n, p, f[LeftSon(n)]) = Under(LeftSon(n), n, p, g[LeftSon(n)])
    BY <2>1 DEF Under
  <2>3. Under(RightSon(n), n, p, f[RightSon(n)]) = Under(RightSon(n), n, p, g[RightSon(n)])
    BY <2>1 DEF Under
  <2>4. g[n] = f[n]
    BY <1>7
  <2> HIDE DEF g
  <2> QED
    BY <1>6, <1>7, <2>2, <2>3, <2>4 DEF AddStep
<1>8. g = [m \in LowerTrees \ {Null} |-> AddStep(m, p, tie, g[LeftSon(m)], g[RightSon(m)])]
  <2>1. g = [m \in LowerTrees \ {Null} |-> g[m]]
    OBVIOUS
  <2> HIDE DEF g
  <2> QED
    BY <1>7, <2>1
<1> HIDE DEF g
<1> QED
  BY <1>8, AddBody

\* So Add_by_point is what its recursion says.
LEMMA AddIs ==
  ASSUME NEW p \in Points, NEW tie \in Ties
  PROVE  \A n \in LowerTrees \ {Null} :
           Add_by_point(n, p, tie)
             = AddStep(n, p, tie, Add_by_point(LeftSon(n), p, tie), Add_by_point(RightSon(n), p, tie))
<1> DEFINE f == CHOOSE g : AddFrom(g, p, tie)
<1>1. AddFrom(f, p, tie)
  BY AddExists
<1>2. \A n : Add_by_point(n, p, tie) = f[n]
  BY AddChosen
<1> HIDE DEF f
<1>3. f = [m \in LowerTrees \ {Null} |-> AddStep(m, p, tie, f[LeftSon(m)], f[RightSon(m)])]
  BY <1>1, AddBody
<1>4. \A n \in LowerTrees \ {Null} : f[n] = AddStep(n, p, tie, f[LeftSon(n)], f[RightSon(n)])
  BY <1>3
<1> QED
  BY <1>2, <1>4

\* What an insertion promises of a tree up to some height.
AddRight(n, p, tie, k) ==
  LET t == Add_by_point(n, p, tie)
  IN  /\ t \in TreesTo[k + 1] /\ t \in Good /\ t # Null
      /\ \A S : Num(t, S) = Num(n, S) + Count(p \in S)

\* When the insertion into either son is right, so is that into the node.
LEMMA AddStepRight ==
  ASSUME NEW p \in Points, NEW tie \in Ties,
         NEW k \in 0 .. MaxHeight - 2, NEW n \in NodesOver(TreesTo[k]), n \in Good,
         LeftSon(n) # Null => AddRight(LeftSon(n), p, tie, k),
         RightSon(n) # Null => AddRight(RightSon(n), p, tie, k)
  PROVE  AddRight(n, p, tie, k + 1)
<1> DEFINE v == Under(LeftSon(n), n, p, Add_by_point(LeftSon(n), p, tie))
           w == Under(RightSon(n), n, p, Add_by_point(RightSon(n), p, tie))
           t == Add_by_point(n, p, tie)
<1>1. k \in 0 .. MaxHeight - 1 /\ k \in Nat
  BY HeightIs
<1>2. /\ n \in Trees /\ n # Null /\ LeftSon(n) \in TreesTo[k] /\ RightSon(n) \in TreesTo[k]
      /\ Push_Down(n) \in NodesOver(TreesTo[k]) /\ n \in TreesTo[k + 1]
      /\ LeftSon(n) \in Good /\ RightSon(n) \in Good
  BY <1>1, NodeInTrees, GoodIs
<1>3. n \in LowerTrees
  <2>1. k + 1 \in Nat /\ MaxHeight - 1 \in Nat /\ k + 1 <= MaxHeight - 1
    BY HeightIs
  <2>2. TreesTo[k + 1] \subseteq TreesTo[MaxHeight - 1]
    BY <2>1, TreesHigher
  <2> QED
    BY <1>2, <2>2 DEF LowerTrees
<1>4. t = IF GoesLeft(n, p) THEN Settle(PushedNode(n, v, RightSon(n)), tie)
          ELSE Settle(PushedNode(n, LeftSon(n), w), tie)
  <2>1. /\ \A s : [Push_Down(n) EXCEPT !.left = s] = PushedNode(n, s, RightSon(n))
        /\ \A s : [Push_Down(n) EXCEPT !.right = s] = PushedNode(n, LeftSon(n), s)
    BY <1>1, SidesAre
  <2>2. t = AddStep(n, p, tie, Add_by_point(LeftSon(n), p, tie), Add_by_point(RightSon(n), p, tie))
    BY <1>2, <1>3, AddIs
  <2> QED
    BY <2>1, <2>2 DEF AddStep
<1>5. LET f == LeafBelow(n, p)
      IN  f \in TreesTo[k + 1] /\ f \in Good /\ f # Null /\ Fresh(f) /\ \A S : Num(f, S) = Count(p \in S)
  <2>1. Push_Down(n).division_axis \in Axes
    BY <1>2, FieldsOf
  <2>2. /\ LeafBelow(n, p) \in TreesTo[1] /\ LeafBelow(n, p) \in Good /\ LeafBelow(n, p) # Null
        /\ Fresh(LeafBelow(n, p)) /\ \A S : Num(LeafBelow(n, p), S) = Count(p \in S)
    BY <2>1, LeafIs DEF LeafBelow
  <2>3. 1 \in Nat /\ k + 1 \in Nat /\ 1 <= k + 1
    BY <1>1
  <2>4. LeafBelow(n, p) \in TreesTo[k + 1]
    BY <2>2, <2>3, TreesHigher
  <2> QED
    BY <2>2, <2>4
<1>6. /\ v \in TreesTo[k + 1] /\ v \in Good /\ v # Null
      /\ LeftSon(n) = Null => Fresh(v)
      /\ \A S : Num(v, S) = Num(LeftSon(n), S) + Count(p \in S)
  <2>1. CASE LeftSon(n) = Null
    <3>1. v = LeafBelow(n, p)
      BY <2>1 DEF Under
    <3>2. \A S : Num(LeftSon(n), S) = 0
      BY <2>1, NumIs
    <3>3. \A S : Num(v, S) = Num(LeftSon(n), S) + Count(p \in S)
      BY <1>5, <3>1, <3>2 DEF Count
    <3> QED
      BY <1>5, <3>1, <3>3
  <2>2. CASE LeftSon(n) # Null
    BY <2>2 DEF Under, AddRight
  <2> QED
    BY <2>1, <2>2
<1>7. /\ w \in TreesTo[k + 1] /\ w \in Good /\ w # Null
      /\ RightSon(n) = Null => Fresh(w)
      /\ \A S : Num(w, S) = Num(RightSon(n), S) + Count(p \in S)
  <2>1. CASE RightSon(n) = Null
    <3>1. w = LeafBelow(n, p)
      BY <2>1 DEF Under
    <3>2. \A S : Num(RightSon(n), S) = 0
      BY <2>1, NumIs
    <3>3. \A S : Num(w, S) = Num(RightSon(n), S) + Count(p \in S)
      BY <1>5, <3>1, <3>2 DEF Count
    <3> QED
      BY <1>5, <3>1, <3>3
  <2>2. CASE RightSon(n) # Null
    BY <2>2 DEF Under, AddRight
  <2> QED
    BY <2>1, <2>2
<1>8. /\ LeftSon(n) \in TreesTo[k + 1] /\ RightSon(n) \in TreesTo[k + 1]
      /\ \A S : /\ Num(n, S) = Count(~n.point_deleted /\ n.point \in S)
                               + Num(LeftSon(n), S) + Num(RightSon(n), S)
                /\ Num(LeftSon(n), S) \in Nat /\ Num(RightSon(n), S) \in Nat
  <2>1. \A S : Num(n, S) = Count(~n.point_deleted /\ n.point \in S)
                           + Num(LeftSon(n), S) + Num(RightSon(n), S)
    BY <1>2, NumIs
  <2>2. LeftSon(n) \in Trees /\ RightSon(n) \in Trees
    BY <1>2, SonsInTrees
  <2>3. \A S : Num(LeftSon(n), S) \in Nat /\ Num(RightSon(n), S) \in Nat
    BY <2>2, NumIs
  <2>4. TreesTo[k] \subseteq TreesTo[k + 1]
    BY <1>1, TreesRise
  <2> QED
    BY <1>2, <2>1, <2>3, <2>4
<1> HIDE DEF v, w, t
<1>9. /\ t \in TreesTo[(k + 1) + 1] /\ t \in Good
      /\ \A S : Num(t, S) = Num(n, S) + Count(p \in S)
  <2>1. CASE GoesLeft(n, p)
    <3>1. /\ t \in TreesTo[(k + 1) + 1] /\ t \in Good
          /\ \A S : Num(t, S) = Count(~n.point_deleted /\ n.point \in S) + Num(v, S) + Num(RightSon(n), S)
      BY <1>2, <1>4, <1>6, <1>8, <2>1, Grafted
    <3>2. \A S : Num(t, S) = Num(n, S) + Count(p \in S)
      BY <1>6, <1>8, <3>1 DEF Count
    <3> QED
      BY <3>1, <3>2
  <2>2. CASE ~GoesLeft(n, p)
    <3>1. /\ t \in TreesTo[(k + 1) + 1] /\ t \in Good
          /\ \A S : Num(t, S) = Count(~n.point_deleted /\ n.point \in S) + Num(LeftSon(n), S) + Num(w, S)
      BY <1>2, <1>4, <1>7, <1>8, <2>2, Grafted
    <3>2. \A S : Num(t, S) = Num(n, S) + Count(p \in S)
      BY <1>7, <1>8, <3>1 DEF Count
    <3> QED
      BY <3>1, <3>2
  <2> QED
    BY <2>1, <2>2
<1>10. t # Null
  <2>1. Num(t, Points) = Num(n, Points) + 1 /\ Num(n, Points) \in Nat
    BY <1>2, <1>9, NumIs DEF Count
  <2> QED
    BY <2>1, NumIs
<1> QED
  BY <1>9, <1>10 DEF AddRight, t

\* An insertion adds one valid point and leaves a tree in order that is at most one
\* higher.
LEMMA AddGood ==
  ASSUME NEW p \in Points, NEW tie \in Ties
  PROVE  \A k \in 0 .. MaxHeight - 1 : \A n \in TreesTo[k] :
           n \in Good /\ n # Null => AddRight(n, p, tie, k)
<1> DEFINE E == {k \in 0 .. MaxHeight - 1 : \A n \in TreesTo[k] :
                   n \in Good /\ n # Null => AddRight(n, p, tie, k)}
<1>1. 0 \in E
  <2>1. TreesTo[0] = {Null}
    BY TreesToIs
  <2>2. 0 \in 0 .. MaxHeight - 1
    BY ConstantsAssumption
  <2> QED
    BY <2>1, <2>2
<1>2. ASSUME NEW k \in 0 .. (MaxHeight - 1) - 1, k \in E PROVE k + 1 \in E
  <2>1. /\ k + 1 \in 0 .. MaxHeight - 1 /\ k \in 0 .. MaxHeight - 2 /\ k \in Nat
        /\ k + 1 \in 0 .. MaxHeight /\ k \in 0 .. MaxHeight - 1
    BY LowerIs, HeightIs
  <2> SUFFICES ASSUME NEW n \in TreesTo[k + 1], n \in Good, n # Null
               PROVE  AddRight(n, p, tie, k + 1)
    BY <2>1
  <2>2. n \in NodesOver(TreesTo[k]) /\ LeftSon(n) \in TreesTo[k] /\ RightSon(n) \in TreesTo[k]
    <3> DEFINE j == k + 1
    <3>1. j \in 0 .. MaxHeight /\ n \in TreesTo[j] /\ j - 1 = k
      BY <2>1
    <3> HIDE DEF j
    <3>2. n \in NodesOver(TreesTo[j - 1]) /\ LeftSon(n) \in TreesTo[j - 1] /\ RightSon(n) \in TreesTo[j - 1]
      BY <3>1, PushTree
    <3> QED
      BY <3>1, <3>2
  <2>3. LeftSon(n) \in Good /\ RightSon(n) \in Good
    BY GoodIs
  <2>4. /\ LeftSon(n) # Null => AddRight(LeftSon(n), p, tie, k)
        /\ RightSon(n) # Null => AddRight(RightSon(n), p, tie, k)
    BY <1>2, <2>2, <2>3
  <2> QED
    BY <2>1, <2>2, <2>4, AddStepRight
<1>3. \A k \in 0 .. MaxHeight - 1 : k \in E
  <2> HIDE DEF E
  <2>1. MaxHeight - 1 \in Nat
    BY LowerIs
  <2> QED
    BY <1>1, <1>2, <2>1, Induction
<1> QED
  BY <1>3

-----------------------------------------------------------------------------
(* The heap.                                                               *)

Entries == [point : Points, dist : Nat]

\* The entries of a heap.
LEMMA HeapIs ==
  /\ Heaps = Seq(Entries) /\ <<>> \in Heaps
  /\ \A h \in Heaps : /\ Len(h) \in Nat /\ DOMAIN h = 1 .. Len(h)
                      /\ \A i \in 1 .. Len(h) : /\ h[i] \in Entries /\ h[i].point \in Points
                                                /\ h[i].dist \in Nat
<1>1. Heaps = Seq(Entries) /\ <<>> \in Heaps
  BY DEF Heaps, Entries
<1>2. ASSUME NEW h \in Heaps
      PROVE  /\ Len(h) \in Nat /\ DOMAIN h = 1 .. Len(h)
             /\ \A i \in 1 .. Len(h) : h[i] \in Entries
  BY <1>1, PlacesAre
<1>3. \A c \in Entries : c.point \in Points /\ c.dist \in Nat
  BY DEF Entries
<1> QED
  BY <1>1, <1>2, <1>3

\* A swap keeps the entries.
LEMMA SwappedIs ==
  ASSUME NEW g \in Heaps, NEW i \in 1 .. Len(g), NEW j \in 1 .. Len(g)
  PROVE  /\ Swapped(g, i, j) \in Heaps /\ Len(Swapped(g, i, j)) = Len(g)
         /\ \A k \in 1 .. Len(g) :
              Swapped(g, i, j)[k] = IF k = j THEN g[i] ELSE IF k = i THEN g[j] ELSE g[k]
         /\ \A S : CountIn(Swapped(g, i, j), S) = CountIn(g, S)
<1> DEFINE s == Swapped(g, i, j)
           n == Len(g)
           o == [k \in 1 .. n |-> IF k = j THEN i ELSE IF k = i THEN j ELSE k]
<1>1. /\ n \in Nat /\ DOMAIN g = 1 .. n /\ g \in Seq(Entries)
      /\ \A k \in 1 .. n : g[k] \in Entries
  BY HeapIs
<1>2. s = [g EXCEPT ![i] = g[j], ![j] = g[i]]
  BY DEF Swapped
<1> HIDE DEF s
<1>3. /\ DOMAIN s = 1 .. n
      /\ \A k \in 1 .. n : s[k] = IF k = j THEN g[i] ELSE IF k = i THEN g[j] ELSE g[k]
  BY <1>1, <1>2
<1>4. s \in Seq(Entries) /\ Len(s) = n
  <2>1. s \in [1 .. n -> Entries]
    <3>1. s = [k \in 1 .. n |-> s[k]]
      BY <1>1, <1>2
    <3>2. \A k \in 1 .. n : s[k] \in Entries
      BY <1>1, <1>3
    <3> HIDE DEF n
    <3> QED
      BY <3>1, <3>2
  <2> HIDE DEF n
  <2> QED
    BY <1>1, <2>1
<1>5. o \in Bijection(1 .. n, 1 .. n)
  <2> HIDE DEF n
  <2>1. o \in [1 .. n -> 1 .. n] /\ i \in 1 .. n /\ j \in 1 .. n
    BY DEF n
  <2>2. \A a, b \in 1 .. n : o[a] = o[b] => a = b
    BY <2>1
  <2>3. \A a \in 1 .. n : o[o[a]] = a
    BY <2>1
  <2>4. \A b \in 1 .. n : \E a \in 1 .. n : o[a] = b
    BY <2>1, <2>3
  <2>5. o \in Injection(1 .. n, 1 .. n)
    BY <2>1, <2>2 DEF Injection, IsInjective
  <2>6. o \in Surjection(1 .. n, 1 .. n)
    BY <2>1, <2>4 DEF Surjection
  <2> QED
    BY <2>5, <2>6 DEF Bijection
<1>6. \A k \in 1 .. n : s[k] = g[o[k]]
  BY <1>3
<1>7. ASSUME NEW S PROVE CountIn(s, S) = CountIn(g, S)
  <2> HIDE DEF o
  <2> QED
    BY <1>1, <1>4, <1>5, <1>6, CountReordered
<1> QED
  BY <1>3, <1>4, <1>7, HeapIs DEF s

HeapPairs == Heaps \X Nat

\* A recursion on a heap and an index: either the heap is left as it is, or the
\* recursion goes on with another pair that is lower.
HeapFounded(D, Goes, L) ==
  /\ D \in [Nat -> SUBSET HeapPairs]
  /\ \A x \in HeapPairs : \E k \in Nat : x \in D[k]
  /\ \A k \in Nat : D[k] \subseteq D[k + 1]
  /\ \A x \in D[0] : x \notin Goes
  /\ \A k \in Nat : \A x \in D[k + 1] : x \in Goes => L[x] \in D[k]

\* FloatUp and MoveDown recurse on pairs of a heap and an index.
LEMMA HeapRecursion ==
  ASSUME NEW D, NEW Goes, NEW L, HeapFounded(D, Goes, L), \A x \in HeapPairs : <<x[1], 0>> \in D[0]
  PROVE  \E f \in [HeapPairs -> Heaps] :
           \A x \in HeapPairs : f[x] = IF x \in Goes THEN f[L[x]] ELSE x[1]
<1> DEFINE V == [k \in Nat |-> Heaps]
           B == [x \in HeapPairs |-> x[1]]
           K == [x \in HeapPairs |-> IF x \in Goes THEN L[x] ELSE <<x[1], 0>>]
           G == [y \in HeapPairs \X Heaps \X Heaps |-> IF y[1] \in Goes THEN y[2] ELSE y[1][1]]
<1>1. ASSUME NEW x \in HeapPairs, NEW v \in Heaps, NEW w \in Heaps
      PROVE  G[<<x, v, w>>] = (IF x \in Goes THEN v ELSE x[1]) /\ x[1] \in Heaps
  BY DEF HeapPairs
<1>2. V \in [Nat -> SUBSET Heaps] /\ (\A k \in Nat : V[k] = Heaps)
  OBVIOUS
<1>3. \A x \in HeapPairs : B[x] = x[1] /\ x[1] \in Heaps
                           /\ K[x] = IF x \in Goes THEN L[x] ELSE <<x[1], 0>>
  BY DEF HeapPairs
<1> HIDE DEF V, B, K, G
<1>4. ASSUME NEW k \in Nat PROVE D[0] \subseteq D[k]
  <2> DEFINE S == {i \in Nat : D[0] \subseteq D[i]}
  <2>1. 0 \in S
    OBVIOUS
  <2>2. \A i \in Nat : i \in S => i + 1 \in S
    BY DEF HeapFounded
  <2>3. \A i \in Nat : i \in S
    <3> HIDE DEF S
    <3> QED
      BY <2>1, <2>2, AllNaturals
  <2> QED
    BY <2>3
<1>5. ASSUME NEW k \in Nat, NEW x \in D[k + 1] PROVE K[x] \in D[k] /\ x \in HeapPairs
  <2>1. x \in HeapPairs
    BY DEF HeapFounded
  <2>2. <<x[1], 0>> \in D[k]
    BY <1>4, <2>1
  <2>3. x \in Goes => L[x] \in D[k]
    BY DEF HeapFounded
  <2> QED
    BY <1>3, <2>1, <2>2, <2>3
<1>6. Founded(HeapPairs, Heaps, D, V, B, K, K, G)
  <2>1. /\ D \in [Nat -> SUBSET HeapPairs] /\ \A x \in HeapPairs : \E k \in Nat : x \in D[k]
        /\ \A k \in Nat : D[k] \subseteq D[k + 1]
    BY DEF HeapFounded
  <2>2. \A k \in Nat : V[k] \subseteq V[k + 1]
    BY <1>2
  <2>3. \A x \in D[0] : B[x] \in V[0]
    BY <1>2, <1>3, <2>1
  <2>4. \A k \in Nat : \A x \in D[k + 1] \ D[k] : K[x] \in D[k]
    BY <1>5
  <2>5. \A k \in Nat : \A x \in D[k + 1] \ D[k] : \A v, w \in V[k] : G[<<x, v, w>>] \in V[k + 1]
    <3> SUFFICES ASSUME NEW k \in Nat, NEW x \in D[k + 1], NEW v \in V[k], NEW w \in V[k]
                 PROVE  G[<<x, v, w>>] \in V[k + 1]
      BY Zenon
    <3>1. k + 1 \in Nat
      OBVIOUS
    <3>2. v \in Heaps /\ w \in Heaps /\ V[k + 1] = Heaps
      BY <1>2, <3>1
    <3>3. x \in HeapPairs
      BY <1>5
    <3> QED
      BY <1>1, <3>2, <3>3
  <2> QED
    BY <1>2, <2>1, <2>2, <2>3, <2>4, <2>5, Zenon DEF Founded
<1>7. PICK f \in [HeapPairs -> Heaps] :
        \A x \in HeapPairs : f[x] = IF x \in D[0] THEN B[x] ELSE G[<<x, f[K[x]], f[K[x]]>>]
  BY <1>6, Recursion
<1>8. ASSUME NEW x \in HeapPairs PROVE f[x] = IF x \in Goes THEN f[L[x]] ELSE x[1]
  <2>1. CASE x \in D[0]
    BY <1>3, <1>7, <2>1 DEF HeapFounded
  <2>2. CASE x \notin D[0]
    <3>1. K[x] \in HeapPairs
      <4>1. PICK i \in Nat : x \in D[i]
        BY DEF HeapFounded
      <4>2. x \in D[i + 1]
        BY <4>1 DEF HeapFounded
      <4>3. K[x] \in D[i]
        BY <1>5, <4>2
      <4> QED
        BY <4>3 DEF HeapFounded
    <3>2. f[x] = IF x \in Goes THEN f[K[x]] ELSE x[1]
      <4>1. f[K[x]] \in Heaps
        BY <1>7, <3>1
      <4>2. f[x] = G[<<x, f[K[x]], f[K[x]]>>]
        BY <1>7, <2>2
      <4> QED
        BY <1>1, <4>1, <4>2
    <3> QED
      BY <1>3, <3>2
  <2> QED
    BY <2>1, <2>2
<1> QED
  BY <1>7, <1>8

\* Up: with the pair of the ancestor's index.
Rising == {x \in HeapPairs : x[2] \in 2 .. Len(x[1]) /\ Nearer(x[1][x[2] \div 2], x[1][x[2]])}
RiseTo == [x \in HeapPairs |-> <<Swapped(x[1], x[2], x[2] \div 2), x[2] \div 2>>]
FloatFrom(f) ==
  f = [at \in Heaps \X Nat |->
        LET g == at[1]
            j == at[2]
            ancestor == j \div 2
        IN  IF j \in 2 .. Len(g) /\ Nearer(g[ancestor], g[j])
            THEN f[<<Swapped(g, j, ancestor), ancestor>>]
            ELSE g]

\* Down: with the pair of the higher son's index.
HigherSon(g, j) == IF 2 * j < Len(g) /\ Nearer(g[2 * j], g[2 * j + 1]) THEN 2 * j + 1 ELSE 2 * j
Sinking == {x \in HeapPairs : /\ 2 * x[2] \in 2 .. Len(x[1])
                              /\ Nearer(x[1][x[2]], x[1][HigherSon(x[1], x[2])])}
SinkTo == [x \in HeapPairs |-> <<Swapped(x[1], x[2], HigherSon(x[1], x[2])), HigherSon(x[1], x[2])>>]
MoveFrom(f) ==
  f = [at \in Heaps \X Nat |->
        LET g == at[1]
            j == at[2]
            l == 2 * j
            son == IF l < Len(g) /\ Nearer(g[l], g[l + 1]) THEN l + 1 ELSE l
        IN  IF l \in 2 .. Len(g) /\ Nearer(g[j], g[son])
            THEN f[<<Swapped(g, j, son), son>>]
            ELSE g]

\* Such a pair.
LEMMA PairIs ==
  ASSUME NEW x \in HeapPairs
  PROVE  x[1] \in Heaps /\ x[2] \in Nat /\ x = <<x[1], x[2]>> /\ Len(x[1]) \in Nat
<1>1. x[1] \in Heaps /\ x[2] \in Nat /\ x = <<x[1], x[2]>>
  BY DEF HeapPairs
<1> QED
  BY <1>1, HeapIs

\* FloatUp, as such a recursion.
LEMMA FloatBody ==
  ASSUME NEW f
  PROVE  FloatFrom(f) <=> f = [x \in HeapPairs |-> IF x \in Rising THEN f[RiseTo[x]] ELSE x[1]]
<1> DEFINE A(x) == IF x[2] \in 2 .. Len(x[1]) /\ Nearer(x[1][x[2] \div 2], x[1][x[2]])
                   THEN f[<<Swapped(x[1], x[2], x[2] \div 2), x[2] \div 2>>]
                   ELSE x[1]
           C(x) == IF x \in Rising THEN f[RiseTo[x]] ELSE x[1]
<1>1. FloatFrom(f) <=> f = [x \in HeapPairs |-> A(x)]
  BY Zenon DEF FloatFrom, HeapPairs
<1>2. \A x \in HeapPairs : A(x) = C(x)
  BY Zenon DEF Rising, RiseTo
<1> HIDE DEF A, C
<1>3. [x \in HeapPairs |-> A(x)] = [x \in HeapPairs |-> C(x)]
  BY <1>2
<1>4. FloatFrom(f) <=> f = [x \in HeapPairs |-> C(x)]
  BY <1>1, <1>3
<1> QED
  BY <1>4 DEF C

\* MoveDown, as such a recursion.
LEMMA MoveBody ==
  ASSUME NEW f
  PROVE  MoveFrom(f) <=> f = [x \in HeapPairs |-> IF x \in Sinking THEN f[SinkTo[x]] ELSE x[1]]
<1> DEFINE A(x) == IF 2 * x[2] \in 2 .. Len(x[1]) /\ Nearer(x[1][x[2]], x[1][HigherSon(x[1], x[2])])
                   THEN f[<<Swapped(x[1], x[2], HigherSon(x[1], x[2])), HigherSon(x[1], x[2])>>]
                   ELSE x[1]
           C(x) == IF x \in Sinking THEN f[SinkTo[x]] ELSE x[1]
<1>1. MoveFrom(f) <=> f = [x \in HeapPairs |-> A(x)]
  BY Zenon DEF MoveFrom, HeapPairs, HigherSon
<1>2. \A x \in HeapPairs : A(x) = C(x)
  BY Zenon DEF Sinking, SinkTo
<1> HIDE DEF A, C
<1>3. [x \in HeapPairs |-> A(x)] = [x \in HeapPairs |-> C(x)]
  BY <1>2
<1>4. MoveFrom(f) <=> f = [x \in HeapPairs |-> C(x)]
  BY <1>1, <1>3
<1> QED
  BY <1>4 DEF C

\* FloatUp is the function its LET chooses.
LEMMA FloatChosen ==
  \A h, i : FloatUp(h, i) = (CHOOSE f : FloatFrom(f))[<<h, i>>]
<1> QED
  BY DEF FloatUp, FloatFrom

\* MoveDown is the function its LET chooses.
LEMMA MoveChosen ==
  \A h, i : MoveDown(h, i) = (CHOOSE f : MoveFrom(f))[<<h, i>>]
<1> QED
  BY DEF MoveDown, MoveFrom

\* An entry that rises goes to a smaller index.
LEMMA RisingIs ==
  ASSUME NEW x \in Rising
  PROVE  /\ x[1] \in Heaps /\ x[2] \in 2 .. Len(x[1]) /\ x[2] \div 2 \in 1 .. Len(x[1])
         /\ x[2] \div 2 < x[2] /\ RiseTo[x] = <<Swapped(x[1], x[2], x[2] \div 2), x[2] \div 2>>
         /\ RiseTo[x] \in HeapPairs
<1>1. x \in HeapPairs /\ x[2] \in 2 .. Len(x[1])
  BY DEF Rising
<1>2. x[1] \in Heaps /\ x[2] \in Nat /\ Len(x[1]) \in Nat
  BY <1>1, PairIs
<1>3. x[2] \div 2 \in 1 .. Len(x[1]) /\ x[2] \div 2 < x[2] /\ x[2] \div 2 \in Nat
  BY <1>1, <1>2
<1>4. RiseTo[x] = <<Swapped(x[1], x[2], x[2] \div 2), x[2] \div 2>>
  BY <1>1 DEF RiseTo
<1>5. x[2] \in 1 .. Len(x[1])
  BY <1>1, <1>2
<1>6. Swapped(x[1], x[2], x[2] \div 2) \in Heaps
  BY <1>2, <1>3, <1>5, SwappedIs
<1> QED
  BY <1>1, <1>2, <1>3, <1>4, <1>6 DEF HeapPairs

\* One that sinks goes to a larger index within the heap.
LEMMA SinkingIs ==
  ASSUME NEW x \in Sinking
  PROVE  LET son == HigherSon(x[1], x[2])
         IN  /\ x[1] \in Heaps /\ x[2] \in 1 .. Len(x[1]) /\ son \in 1 .. Len(x[1])
             /\ x[2] < son /\ SinkTo[x] = <<Swapped(x[1], x[2], son), son>>
             /\ SinkTo[x] \in HeapPairs /\ Len(SinkTo[x][1]) = Len(x[1])
<1> DEFINE son == HigherSon(x[1], x[2])
<1>1. x \in HeapPairs /\ 2 * x[2] \in 2 .. Len(x[1])
  BY DEF Sinking
<1>2. x[1] \in Heaps /\ x[2] \in Nat /\ Len(x[1]) \in Nat
  BY <1>1, PairIs
<1>3. son \in {2 * x[2], 2 * x[2] + 1} /\ son <= Len(x[1])
  BY <1>1, <1>2 DEF HigherSon
<1>4. SinkTo[x] = <<Swapped(x[1], x[2], son), son>>
  BY <1>1 DEF SinkTo
<1> HIDE DEF son
<1>5. x[2] \in 1 .. Len(x[1]) /\ son \in 1 .. Len(x[1]) /\ x[2] < son /\ son \in Nat
  BY <1>1, <1>2, <1>3
<1>6. Swapped(x[1], x[2], son) \in Heaps /\ Len(Swapped(x[1], x[2], son)) = Len(x[1])
  BY <1>2, <1>5, SwappedIs
<1> QED
  BY <1>2, <1>4, <1>5, <1>6 DEF HeapPairs, son

\* FloatUp ends.
LEMMA FloatExists == \E f : FloatFrom(f)
<1> DEFINE D == [k \in Nat |-> {x \in HeapPairs : x[2] <= k + 1}]
<1>1. \A x \in HeapPairs : x[1] \in Heaps /\ x[2] \in Nat
  BY PairIs
<1>2. HeapFounded(D, Rising, RiseTo)
  <2>1. D \in [Nat -> SUBSET HeapPairs] /\ \A k \in Nat : D[k] = {x \in HeapPairs : x[2] <= k + 1}
    OBVIOUS
  <2> HIDE DEF D
  <2>2. \A x \in HeapPairs : \E k \in Nat : x \in D[k]
    BY <1>1, <2>1
  <2>3. \A k \in Nat : D[k] \subseteq D[k + 1]
    BY <1>1, <2>1
  <2>4. \A x \in D[0] : x \notin Rising
    BY <1>1, <2>1, RisingIs
  <2>5. ASSUME NEW k \in Nat, NEW x \in D[k + 1], x \in Rising PROVE RiseTo[x] \in D[k]
    <3>1. x \in HeapPairs /\ x[2] <= (k + 1) + 1 /\ x[2] \in Nat
      BY <1>1, <2>1
    <3>2. RiseTo[x] \in HeapPairs /\ RiseTo[x][2] < x[2] /\ RiseTo[x][2] \in Nat
      BY <1>1, <2>5, RisingIs
    <3> QED
      BY <2>1, <3>1, <3>2
  <2> QED
    BY <2>1, <2>2, <2>3, <2>4, <2>5, Zenon DEF HeapFounded
<1>3. \A x \in HeapPairs : <<x[1], 0>> \in D[0]
  BY <1>1 DEF HeapPairs
<1> HIDE DEF D
<1>4. PICK f \in [HeapPairs -> Heaps] :
        \A x \in HeapPairs : f[x] = IF x \in Rising THEN f[RiseTo[x]] ELSE x[1]
  BY <1>2, <1>3, HeapRecursion
<1>5. f = [x \in HeapPairs |-> IF x \in Rising THEN f[RiseTo[x]] ELSE x[1]]
  BY <1>4
<1> QED
  BY <1>5, FloatBody

\* MoveDown ends.
LEMMA MoveExists == \E f : MoveFrom(f)
<1> DEFINE D == [k \in Nat |-> {x \in HeapPairs : Len(x[1]) <= k + x[2] \/ x[2] = 0}]
<1>1. \A x \in HeapPairs : x[1] \in Heaps /\ x[2] \in Nat /\ Len(x[1]) \in Nat
  BY PairIs
<1>2. HeapFounded(D, Sinking, SinkTo)
  <2>1. /\ D \in [Nat -> SUBSET HeapPairs]
        /\ \A k \in Nat : D[k] = {x \in HeapPairs : Len(x[1]) <= k + x[2] \/ x[2] = 0}
    OBVIOUS
  <2> HIDE DEF D
  <2>2. ASSUME NEW x \in HeapPairs PROVE \E k \in Nat : x \in D[k]
    <3>1. Len(x[1]) \in Nat /\ x \in D[Len(x[1])]
      BY <1>1, <2>1
    <3> QED
      BY <3>1
  <2>3. \A k \in Nat : D[k] \subseteq D[k + 1]
    BY <1>1, <2>1
  <2>4. \A x \in Sinking : /\ x \in HeapPairs /\ x[2] < SinkTo[x][2] /\ x[2] # 0 /\ SinkTo[x] \in HeapPairs
                           /\ Len(SinkTo[x][1]) = Len(x[1]) /\ SinkTo[x][2] <= Len(x[1])
    <3> SUFFICES ASSUME NEW x \in Sinking
                 PROVE  /\ x \in HeapPairs /\ x[2] < SinkTo[x][2] /\ x[2] # 0 /\ SinkTo[x] \in HeapPairs
                        /\ Len(SinkTo[x][1]) = Len(x[1]) /\ SinkTo[x][2] <= Len(x[1])
      OBVIOUS
    <3>1. x \in HeapPairs
      BY DEF Sinking
    <3> QED
      BY <1>1, <3>1, SinkingIs
  <2>5. \A x \in D[0] : x \notin Sinking
    BY <1>1, <2>1, <2>4
  <2>6. ASSUME NEW k \in Nat, NEW x \in D[k + 1], x \in Sinking PROVE SinkTo[x] \in D[k]
    <3>1. x \in HeapPairs /\ Len(x[1]) <= (k + 1) + x[2] /\ x[2] \in Nat /\ Len(x[1]) \in Nat
      BY <1>1, <2>1, <2>4, <2>6
    <3>2. /\ SinkTo[x] \in HeapPairs /\ x[2] < SinkTo[x][2] /\ SinkTo[x][2] \in Nat
          /\ Len(SinkTo[x][1]) = Len(x[1])
      BY <1>1, <2>4, <2>6
    <3> QED
      BY <2>1, <3>1, <3>2
  <2> QED
    BY <2>1, <2>2, <2>3, <2>5, <2>6, Zenon DEF HeapFounded
<1>3. \A x \in HeapPairs : <<x[1], 0>> \in D[0]
  BY <1>1 DEF HeapPairs
<1> HIDE DEF D
<1>4. PICK f \in [HeapPairs -> Heaps] :
        \A x \in HeapPairs : f[x] = IF x \in Sinking THEN f[SinkTo[x]] ELSE x[1]
  BY <1>2, <1>3, HeapRecursion
<1>5. f = [x \in HeapPairs |-> IF x \in Sinking THEN f[SinkTo[x]] ELSE x[1]]
  BY <1>4
<1> QED
  BY <1>5, MoveBody

\* So FloatUp is what its loop says ...
LEMMA FloatIs ==
  ASSUME NEW g \in Heaps, NEW j \in Nat
  PROVE  FloatUp(g, j) = IF j \in 2 .. Len(g) /\ Nearer(g[j \div 2], g[j])
                         THEN FloatUp(Swapped(g, j, j \div 2), j \div 2) ELSE g
<1> DEFINE f == CHOOSE e : FloatFrom(e)
<1>1. FloatFrom(f)
  BY FloatExists
<1>2. \A h, i : FloatUp(h, i) = f[<<h, i>>]
  BY FloatChosen
<1> HIDE DEF f
<1>3. f[<<g, j>>] = IF <<g, j>> \in Rising THEN f[RiseTo[<<g, j>>]] ELSE g
  BY <1>1, FloatBody DEF HeapPairs
<1>4. <<g, j>> \in Rising <=> j \in 2 .. Len(g) /\ Nearer(g[j \div 2], g[j])
  BY DEF Rising, HeapPairs
<1>5. RiseTo[<<g, j>>] = <<Swapped(g, j, j \div 2), j \div 2>>
  BY DEF RiseTo, HeapPairs
<1> QED
  BY <1>2, <1>3, <1>4, <1>5

\* ... and MoveDown what its loop says.
LEMMA MoveIs ==
  ASSUME NEW g \in Heaps, NEW j \in Nat
  PROVE  MoveDown(g, j) = IF 2 * j \in 2 .. Len(g) /\ Nearer(g[j], g[HigherSon(g, j)])
                          THEN MoveDown(Swapped(g, j, HigherSon(g, j)), HigherSon(g, j)) ELSE g
<1> DEFINE f == CHOOSE e : MoveFrom(e)
<1>1. MoveFrom(f)
  BY MoveExists
<1>2. \A h, i : MoveDown(h, i) = f[<<h, i>>]
  BY MoveChosen
<1> HIDE DEF f
<1>3. f[<<g, j>>] = IF <<g, j>> \in Sinking THEN f[SinkTo[<<g, j>>]] ELSE g
  BY <1>1, MoveBody DEF HeapPairs
<1>4. <<g, j>> \in Sinking <=> 2 * j \in 2 .. Len(g) /\ Nearer(g[j], g[HigherSon(g, j)])
  BY DEF Sinking, HeapPairs
<1>5. SinkTo[<<g, j>>] = <<Swapped(g, j, HigherSon(g, j)), HigherSon(g, j)>>
  BY DEF SinkTo, HeapPairs
<1> QED
  BY <1>2, <1>3, <1>4, <1>5

-----------------------------------------------------------------------------
(* The order of the heap: no son is farther than its ancestor.             *)

HeapOrder(g) == \A i \in 2 .. Len(g) : g[i].dist <= g[i \div 2].dist

\* All but one entry are in order, and the sons of that one with its ancestor.
OrderBut(g, j) ==
  /\ \A i \in 2 .. Len(g) : i # j => g[i].dist <= g[i \div 2].dist
  /\ \A i \in 2 .. Len(g) : i \div 2 = j /\ j >= 2 => g[i].dist <= g[j \div 2].dist
OrderAbove(g, j) ==
  /\ \A i \in 2 .. Len(g) : i \div 2 # j => g[i].dist <= g[i \div 2].dist
  /\ \A i \in 2 .. Len(g) : i \div 2 = j /\ j >= 2 => g[i].dist <= g[j \div 2].dist

SameEntries(g, h) == g \in Heaps /\ Len(g) = Len(h) /\ \A S : CountIn(g, S) = CountIn(h, S)

\* operator< agrees with the distances; ties are broken by the first coordinate.
LEMMA NearerIs ==
  \A c, d \in Entries : /\ Nearer(c, d) => c.dist <= d.dist
                        /\ ~Nearer(c, d) => d.dist <= c.dist
<1> QED
  BY DEF Entries, Nearer

\* The sons of j are 2j and 2j + 1.
LEMMA HalfIs ==
  \A i, j \in Nat : i \div 2 = j => i = 2 * j \/ i = 2 * j + 1
<1> QED
  OBVIOUS

\* Rising moves the one place out of order up.
LEMMA RiseStep ==
  ASSUME NEW g \in Heaps, NEW j \in 2 .. Len(g), OrderBut(g, j), g[j \div 2].dist <= g[j].dist
  PROVE  OrderBut(Swapped(g, j, j \div 2), j \div 2)
<1> DEFINE a == j \div 2
           s == Swapped(g, j, a)
<1>1. Len(g) \in Nat /\ \A k \in 1 .. Len(g) : g[k].dist \in Nat
  BY HeapIs
<1>2. a \in 1 .. Len(g) /\ j \in 1 .. Len(g) /\ a < j /\ a \in Nat
  BY <1>1
<1>3. /\ Len(s) = Len(g)
      /\ \A k \in 1 .. Len(g) : s[k] = IF k = a THEN g[j] ELSE IF k = j THEN g[a] ELSE g[k]
  BY <1>2, SwappedIs
<1>4. /\ \A i \in 2 .. Len(g) : i # j => g[i].dist <= g[i \div 2].dist
      /\ \A i \in 2 .. Len(g) : i \div 2 = j => g[i].dist <= g[a].dist
      /\ g[a].dist <= g[j].dist
  BY DEF OrderBut
<1>5. \A i \in 2 .. Len(g) : i \in 1 .. Len(g) /\ i \div 2 \in 1 .. Len(g) /\ i \div 2 < i
  BY <1>1
<1> HIDE DEF s
<1>6. ASSUME NEW i \in 2 .. Len(s), i # a PROVE s[i].dist <= s[i \div 2].dist
  <2>1. i \in 2 .. Len(g) /\ i \in 1 .. Len(g) /\ i \div 2 \in 1 .. Len(g)
    BY <1>3, <1>5
  <2> DEFINE b == i \div 2
  <2>2. b \in 1 .. Len(g)
    BY <2>1
  <2>3. CASE i = j
    BY <1>2, <1>3, <1>4, <2>3
  <2>4. CASE i # j /\ b = j
    <3>1. g[i].dist <= g[a].dist
      BY <1>4, <2>1, <2>4
    <3>2. s[i] = g[i] /\ s[b] = g[a]
      BY <1>2, <1>3, <1>6, <2>1, <2>2, <2>4
    <3> QED
      BY <3>1, <3>2
  <2>5. CASE i # j /\ b = a
    <3>1. g[i].dist <= g[a].dist
      BY <1>4, <2>1, <2>5
    <3>2. s[i] = g[i] /\ s[b] = g[j]
      BY <1>2, <1>3, <1>6, <2>1, <2>2, <2>5
    <3>3. g[i].dist \in Nat /\ g[a].dist \in Nat /\ g[j].dist \in Nat
      BY <1>1, <1>2, <2>1
    <3>4. g[i].dist <= g[j].dist
      BY <1>4, <3>1, <3>3
    <3> QED
      BY <3>2, <3>4
  <2>6. CASE i # j /\ b # j /\ b # a
    <3>1. s[i] = g[i] /\ s[b] = g[b]
      BY <1>2, <1>3, <1>6, <2>1, <2>2, <2>6
    <3>2. g[i].dist <= g[b].dist
      BY <1>4, <2>1, <2>6
    <3> QED
      BY <3>1, <3>2
  <2> QED
    BY <2>3, <2>4, <2>5, <2>6
<1>7. ASSUME NEW i \in 2 .. Len(s), i \div 2 = a, a >= 2 PROVE s[i].dist <= s[a \div 2].dist
  <2>1. i \in 2 .. Len(g) /\ i \in 1 .. Len(g) /\ a \in 2 .. Len(g)
    BY <1>2, <1>3, <1>5, <1>7
  <2> DEFINE c == a \div 2
  <2>2. c \in 1 .. Len(g) /\ c # a /\ c # j
    BY <1>2, <1>5, <2>1
  <2>3. s[c] = g[c]
    BY <1>3, <2>2
  <2>4. g[a].dist <= g[c].dist
    BY <1>2, <1>4, <2>1
  <2>5. g[a].dist \in Nat /\ g[c].dist \in Nat /\ g[i].dist \in Nat
    BY <1>1, <1>2, <2>1, <2>2
  <2> HIDE DEF c
  <2>6. CASE i = j
    <3>1. s[i] = g[a]
      BY <1>2, <1>3, <2>6
    <3> QED
      BY <2>3, <2>4, <3>1 DEF c
  <2>7. CASE i # j
    <3>1. i # a
      BY <1>5, <1>7, <2>1
    <3>2. s[i] = g[i] /\ g[i].dist <= g[a].dist
      BY <1>3, <1>4, <1>7, <2>1, <2>7, <3>1
    <3>3. s[i].dist <= s[c].dist
      BY <2>3, <2>4, <2>5, <3>2
    <3> QED
      BY <3>3 DEF c
  <2> QED
    BY <2>6, <2>7
<1> QED
  BY <1>6, <1>7 DEF OrderBut, s

\* The last entry of a heap goes up to where it is in order.
LEMMA FloatGood ==
  \A j \in Nat : \A g \in Heaps :
    j \in 1 .. Len(g) /\ OrderBut(g, j) => SameEntries(FloatUp(g, j), g) /\ HeapOrder(FloatUp(g, j))
<1> DEFINE Right(j) == \A g \in Heaps :
             j \in 1 .. Len(g) /\ OrderBut(g, j) => SameEntries(FloatUp(g, j), g) /\ HeapOrder(FloatUp(g, j))
           S == {k \in Nat : \A j \in 0 .. k : Right(j)}
<1>1. ASSUME NEW j \in Nat, \A i \in 0 .. j - 1 : Right(i) PROVE Right(j)
  <2> SUFFICES ASSUME NEW g \in Heaps, j \in 1 .. Len(g), OrderBut(g, j)
               PROVE  SameEntries(FloatUp(g, j), g) /\ HeapOrder(FloatUp(g, j))
    OBVIOUS
  <2>1. /\ Len(g) \in Nat
        /\ \A k \in 1 .. Len(g) : g[k] \in Entries /\ g[k].dist \in Nat
    BY HeapIs
  <2>2. FloatUp(g, j) = IF j \in 2 .. Len(g) /\ Nearer(g[j \div 2], g[j])
                        THEN FloatUp(Swapped(g, j, j \div 2), j \div 2) ELSE g
    BY FloatIs
  <2>3. CASE ~(j \in 2 .. Len(g) /\ Nearer(g[j \div 2], g[j]))
    <3>1. FloatUp(g, j) = g
      BY <2>2, <2>3
    <3>2. HeapOrder(g)
      <4> SUFFICES ASSUME NEW i \in 2 .. Len(g) PROVE g[i].dist <= g[i \div 2].dist
        BY DEF HeapOrder
      <4>1. CASE i # j
        BY <4>1 DEF OrderBut
      <4>2. CASE i = j
        <5>1. j \div 2 \in 1 .. Len(g) /\ ~Nearer(g[j \div 2], g[j])
          BY <2>1, <2>3, <4>2
        <5> QED
          BY <2>1, <4>2, <5>1, NearerIs
      <4> QED
        BY <4>1, <4>2
    <3> QED
      BY <3>1, <3>2 DEF SameEntries
  <2>4. CASE j \in 2 .. Len(g) /\ Nearer(g[j \div 2], g[j])
    <3> DEFINE a == j \div 2
               s == Swapped(g, j, a)
    <3>1. a \in 1 .. Len(g) /\ j \in 1 .. Len(g) /\ a \in 0 .. j - 1
      BY <2>1, <2>4
    <3>2. s \in Heaps /\ Len(s) = Len(g) /\ \A X : CountIn(s, X) = CountIn(g, X)
      BY <3>1, SwappedIs
    <3>3. g[a].dist <= g[j].dist
      BY <2>1, <2>4, <3>1, NearerIs
    <3>4. OrderBut(s, a)
      BY <2>4, <3>3, RiseStep
    <3>5. FloatUp(g, j) = FloatUp(s, a)
      BY <2>2, <2>4
    <3> HIDE DEF a, s
    <3>6. SameEntries(FloatUp(s, a), s) /\ HeapOrder(FloatUp(s, a))
      BY <1>1, <3>1, <3>2, <3>4
    <3> QED
      BY <3>2, <3>5, <3>6 DEF SameEntries
  <2> QED
    BY <2>3, <2>4
<1> HIDE DEF Right
<1>2. 0 \in S
  BY <1>1
<1>3. \A k \in Nat : k \in S => k + 1 \in S
  <2> SUFFICES ASSUME NEW k \in Nat, \A j \in 0 .. k : Right(j) PROVE \A j \in 0 .. k + 1 : Right(j)
    OBVIOUS
  <2>1. Right(k + 1)
    BY <1>1
  <2> QED
    BY <2>1
<1>4. \A k \in Nat : k \in S
  <2> HIDE DEF S
  <2> QED
    BY <1>2, <1>3, AllNaturals
<1>5. \A j \in Nat : Right(j)
  BY <1>4
<1> QED
  BY <1>5 DEF Right

\* Sinking, with the farther son, moves it down.
LEMMA SinkStep ==
  ASSUME NEW g \in Heaps, NEW j \in 1 .. Len(g), 2 * j \in 2 .. Len(g), OrderAbove(g, j),
         g[j].dist <= g[HigherSon(g, j)].dist
  PROVE  LET q == HigherSon(g, j)
         IN  /\ q \in 1 .. Len(g) /\ j < q /\ OrderAbove(Swapped(g, j, q), q)
<1> DEFINE q == HigherSon(g, j)
           s == Swapped(g, j, q)
<1>1. Len(g) \in Nat /\ \A k \in 1 .. Len(g) : g[k] \in Entries /\ g[k].dist \in Nat
  BY HeapIs
<1>2. q \in 1 .. Len(g) /\ j < q /\ q \div 2 = j
  BY <1>1 DEF HigherSon
<1>3. \A i \in 2 .. Len(g) : i \div 2 = j => g[i].dist <= g[q].dist
  <2> SUFFICES ASSUME NEW i \in 2 .. Len(g), i \div 2 = j PROVE g[i].dist <= g[q].dist
    OBVIOUS
  <2>1. i \in {2 * j, 2 * j + 1}
    <3>1. i \in Nat /\ j \in Nat
      BY <1>1
    <3> QED
      BY <3>1, HalfIs
  <2>2. CASE 2 * j < Len(g) /\ Nearer(g[2 * j], g[2 * j + 1])
    <3>1. q = 2 * j + 1 /\ 2 * j \in 1 .. Len(g) /\ 2 * j + 1 \in 1 .. Len(g)
      BY <1>1, <2>2 DEF HigherSon
    <3>2. g[2 * j].dist <= g[2 * j + 1].dist
      BY <1>1, <2>2, <3>1, NearerIs
    <3> QED
      BY <1>1, <2>1, <3>1, <3>2
  <2>3. CASE ~(2 * j < Len(g) /\ Nearer(g[2 * j], g[2 * j + 1]))
    <3>1. q = 2 * j /\ 2 * j \in 1 .. Len(g)
      BY <1>1, <2>3 DEF HigherSon
    <3>2. CASE i = 2 * j
      BY <1>1, <3>1, <3>2
    <3>3. CASE i = 2 * j + 1
      <4>1. 2 * j + 1 \in 1 .. Len(g) /\ ~Nearer(g[2 * j], g[2 * j + 1])
        <5>1. i = 2 * j + 1 /\ i \in 2 .. Len(g) /\ 2 * j \in 1 .. Len(g)
          BY <3>1, <3>3
        <5>2. 2 * j + 1 \in 1 .. Len(g)
          BY <1>1, <5>1
        <5>3. 2 * j < Len(g)
          BY <1>1, <5>1
        <5> QED
          BY <2>3, <5>2, <5>3, Zenon
      <4>2. g[2 * j + 1].dist <= g[2 * j].dist
        BY <1>1, <3>1, <4>1, NearerIs
      <4> QED
        BY <3>1, <3>3, <4>2
    <3> QED
      BY <2>1, <3>2, <3>3
  <2> QED
    BY <2>2, <2>3
<1> HIDE DEF q
<1>4. /\ Len(s) = Len(g)
      /\ \A k \in 1 .. Len(g) : s[k] = IF k = q THEN g[j] ELSE IF k = j THEN g[q] ELSE g[k]
  <2>1. q \in 1 .. Len(g) /\ j \in 1 .. Len(g)
    BY <1>2
  <2> QED
    BY <2>1, SwappedIs
<1>5. /\ \A i \in 2 .. Len(g) : i \div 2 # j => g[i].dist <= g[i \div 2].dist
      /\ \A i \in 2 .. Len(g) : i \div 2 = j /\ j >= 2 => g[i].dist <= g[j \div 2].dist
      /\ g[j].dist <= g[q].dist
  BY DEF OrderAbove, q
<1>6. \A i \in 2 .. Len(g) : i \in 1 .. Len(g) /\ i \div 2 \in 1 .. Len(g) /\ i \div 2 < i
  BY <1>1
<1> HIDE DEF s
<1>7. ASSUME NEW i \in 2 .. Len(s), i \div 2 # q PROVE s[i].dist <= s[i \div 2].dist
  <2> DEFINE b == i \div 2
  <2>1. i \in 2 .. Len(g) /\ i \in 1 .. Len(g) /\ b \in 1 .. Len(g) /\ b # q /\ b < i
    BY <1>4, <1>6, <1>7
  <2> HIDE DEF b
  <2>2. CASE i = q
    <3>1. b = j
      BY <1>2, <2>2 DEF b
    <3>2. s[i] = g[j] /\ s[b] = g[q]
      BY <1>2, <1>4, <2>1, <2>2, <3>1
    <3> QED
      BY <1>5, <3>2 DEF b
  <2>3. CASE i # q /\ b = j
    <3>1. s[i] = g[i] /\ s[b] = g[q]
      BY <1>2, <1>4, <2>1, <2>3
    <3>2. g[i].dist <= g[q].dist
      BY <1>3, <2>1, <2>3 DEF b
    <3> QED
      BY <3>1, <3>2 DEF b
  <2>4. CASE i = j
    <3>1. s[i] = g[q] /\ s[b] = g[b]
      BY <1>2, <1>4, <2>1, <2>4
    <3>2. g[q].dist <= g[b].dist
      <4>1. q \in 2 .. Len(g) /\ j >= 2
        BY <1>1, <1>2, <2>1, <2>4
      <4> QED
        BY <1>2, <1>5, <2>4, <4>1 DEF b
    <3> QED
      BY <3>1, <3>2 DEF b
  <2>5. CASE i # q /\ b # j /\ i # j
    <3>1. s[i] = g[i] /\ s[b] = g[b]
      BY <1>2, <1>4, <2>1, <2>5
    <3>2. g[i].dist <= g[b].dist
      BY <1>5, <2>1, <2>5 DEF b
    <3> QED
      BY <3>1, <3>2 DEF b
  <2> QED
    BY <2>2, <2>3, <2>4, <2>5
<1>8. ASSUME NEW i \in 2 .. Len(s), i \div 2 = q, q >= 2 PROVE s[i].dist <= s[q \div 2].dist
  <2>1. i \in 2 .. Len(g) /\ i \in 1 .. Len(g) /\ i # q /\ i # j
    BY <1>2, <1>4, <1>6, <1>8
  <2>2. s[i] = g[i] /\ s[q \div 2] = g[q]
    BY <1>2, <1>4, <2>1
  <2>3. g[i].dist <= g[i \div 2].dist
    BY <1>2, <1>5, <1>8, <2>1
  <2> QED
    BY <1>8, <2>2, <2>3
<1> QED
  BY <1>2, <1>7, <1>8 DEF OrderAbove, q, s

\* An entry put first goes down to where it is in order.
LEMMA MoveGood ==
  \A k \in Nat : \A g \in Heaps : \A j \in 1 .. Len(g) :
    Len(g) - j <= k /\ OrderAbove(g, j)
      => SameEntries(MoveDown(g, j), g) /\ HeapOrder(MoveDown(g, j))
<1> DEFINE Right(g, j) == SameEntries(MoveDown(g, j), g) /\ HeapOrder(MoveDown(g, j))
           S == {k \in Nat : \A g \in Heaps : \A j \in 1 .. Len(g) :
                               Len(g) - j <= k /\ OrderAbove(g, j) => Right(g, j)}
<1>1. ASSUME NEW g \in Heaps, NEW j \in 1 .. Len(g), OrderAbove(g, j),
             \A e \in Heaps : \A i \in j + 1 .. Len(e) :
               Len(e) = Len(g) /\ OrderAbove(e, i) => Right(e, i)
      PROVE  Right(g, j)
  <2>1. /\ Len(g) \in Nat
        /\ \A k \in 1 .. Len(g) : g[k] \in Entries /\ g[k].dist \in Nat
    BY HeapIs
  <2> DEFINE q == HigherSon(g, j)
             s == Swapped(g, j, q)
  <2>2. MoveDown(g, j) = IF 2 * j \in 2 .. Len(g) /\ Nearer(g[j], g[q]) THEN MoveDown(s, q) ELSE g
    <3>1. j \in Nat
      BY <2>1
    <3> QED
      BY <3>1, MoveIs
  <2>3. CASE ~(2 * j \in 2 .. Len(g) /\ Nearer(g[j], g[q]))
    <3>1. MoveDown(g, j) = g
      BY <2>2, <2>3
    <3>2. HeapOrder(g)
      <4> SUFFICES ASSUME NEW i \in 2 .. Len(g) PROVE g[i].dist <= g[i \div 2].dist
        BY DEF HeapOrder
      <4>1. CASE i \div 2 # j
        BY <1>1, <4>1 DEF OrderAbove
      <4>2. CASE i \div 2 = j
        <5>1. 2 * j \in 2 .. Len(g) /\ 2 * j \in 1 .. Len(g) /\ i \in {2 * j, 2 * j + 1}
          <6>1. i \in Nat /\ j \in Nat /\ j >= 1
            BY <2>1
          <6>2. i = 2 * j \/ i = 2 * j + 1
            BY <4>2, <6>1, HalfIs
          <6> QED
            BY <2>1, <6>1, <6>2
        <5>2. ~Nearer(g[j], g[q])
          BY <2>3, <5>1
        <5>3. CASE 2 * j < Len(g) /\ Nearer(g[2 * j], g[2 * j + 1])
          <6>1. q = 2 * j + 1 /\ 2 * j + 1 \in 1 .. Len(g)
            BY <2>1, <5>1, <5>3 DEF HigherSon
          <6>2. g[2 * j].dist <= g[2 * j + 1].dist /\ g[2 * j + 1].dist <= g[j].dist
            BY <2>1, <5>1, <5>2, <5>3, <6>1, NearerIs
          <6>3. g[j].dist \in Nat /\ g[2 * j].dist \in Nat /\ g[2 * j + 1].dist \in Nat
            BY <2>1, <5>1, <6>1
          <6> QED
            BY <4>2, <5>1, <6>2, <6>3
        <5>4. CASE ~(2 * j < Len(g) /\ Nearer(g[2 * j], g[2 * j + 1]))
          <6>1. q = 2 * j
            BY <5>4 DEF HigherSon
          <6>2. g[2 * j].dist <= g[j].dist
            BY <2>1, <5>1, <5>2, <6>1, NearerIs
          <6>3. CASE i = 2 * j
            BY <4>2, <6>2, <6>3
          <6>4. CASE i = 2 * j + 1
            <7>1. 2 * j + 1 \in 1 .. Len(g) /\ ~Nearer(g[2 * j], g[2 * j + 1])
              BY <2>1, <5>4, <6>4
            <7>2. g[2 * j + 1].dist <= g[2 * j].dist
              BY <2>1, <5>1, <7>1, NearerIs
            <7>3. g[j].dist \in Nat /\ g[2 * j].dist \in Nat /\ g[2 * j + 1].dist \in Nat
              BY <2>1, <5>1, <7>1
            <7> QED
              BY <4>2, <6>2, <6>4, <7>2, <7>3
          <6> QED
            BY <5>1, <6>3, <6>4
        <5> QED
          BY <5>3, <5>4
      <4> QED
        BY <4>1, <4>2
    <3> QED
      BY <3>1, <3>2 DEF SameEntries
  <2>4. CASE 2 * j \in 2 .. Len(g) /\ Nearer(g[j], g[q])
    <3>0. q \in 1 .. Len(g)
      BY <2>1, <2>4 DEF HigherSon
    <3>1. g[j].dist <= g[q].dist
      BY <2>1, <2>4, <3>0, NearerIs
    <3>2. q \in 1 .. Len(g) /\ j < q /\ OrderAbove(s, q)
      BY <1>1, <2>4, <3>1, SinkStep
    <3>3. s \in Heaps /\ Len(s) = Len(g) /\ \A X : CountIn(s, X) = CountIn(g, X)
      BY <3>2, SwappedIs
    <3>4. MoveDown(g, j) = MoveDown(s, q)
      BY <2>2, <2>4
    <3> HIDE DEF q, s
    <3>5. Right(s, q)
      BY <1>1, <2>1, <3>2, <3>3
    <3> QED
      BY <3>3, <3>4, <3>5 DEF SameEntries
  <2> QED
    BY <2>3, <2>4
<1> HIDE DEF Right
<1>2. \A g \in Heaps : Len(g) \in Nat
  BY HeapIs
<1>3. 0 \in S
  <2> SUFFICES ASSUME NEW g \in Heaps, NEW j \in 1 .. Len(g), Len(g) - j <= 0, OrderAbove(g, j)
               PROVE  Right(g, j)
    OBVIOUS
  <2>1. \A e \in Heaps : \A i \in j + 1 .. Len(e) : Len(e) # Len(g)
    BY <1>2
  <2> QED
    BY <1>1, <2>1
<1>4. \A k \in Nat : k \in S => k + 1 \in S
  <2> SUFFICES ASSUME NEW k \in Nat, k \in S, NEW g \in Heaps, NEW j \in 1 .. Len(g),
                      Len(g) - j <= k + 1, OrderAbove(g, j)
               PROVE  Right(g, j)
    OBVIOUS
  <2>1. \A e \in Heaps : \A i \in j + 1 .. Len(e) :
          Len(e) = Len(g) /\ OrderAbove(e, i) => i \in 1 .. Len(e) /\ Len(e) - i <= k
    BY <1>2
  <2>2. \A e \in Heaps : \A i \in j + 1 .. Len(e) :
          Len(e) = Len(g) /\ OrderAbove(e, i) => Right(e, i)
    BY <2>1
  <2> QED
    BY <1>1, <2>2
<1>5. \A k \in Nat : k \in S
  <2> HIDE DEF S
  <2> QED
    BY <1>3, <1>4, AllNaturals
<1> QED
  BY <1>5 DEF Right

\* The first entry of a heap in order is the farthest.
LEMMA FarthestFirst ==
  ASSUME NEW h \in Heaps, HeapOrder(h)
  PROVE  \A i \in 1 .. Len(h) : h[i].dist <= h[1].dist
<1> DEFINE S == {k \in Nat : \A i \in 1 .. Len(h) : i <= k => h[i].dist <= h[1].dist}
<1>1. Len(h) \in Nat /\ \A k \in 1 .. Len(h) : h[k].dist \in Nat
  BY HeapIs
<1>2. 0 \in S
  BY <1>1
<1>3. \A k \in Nat : k \in S => k + 1 \in S
  <2> SUFFICES ASSUME NEW k \in Nat, k \in S, k + 1 \in 1 .. Len(h)
               PROVE  h[k + 1].dist <= h[1].dist
    BY <1>1
  <2>1. CASE k = 0
    BY <1>1, <2>1
  <2>2. CASE k # 0
    <3> DEFINE j == k + 1
    <3>1. j \in 2 .. Len(h) /\ j \div 2 \in 1 .. Len(h) /\ j \div 2 <= k /\ j \in 1 .. Len(h)
      BY <1>1, <2>2
    <3>2. h[j].dist <= h[j \div 2].dist
      BY <3>1 DEF HeapOrder
    <3>3. h[j \div 2].dist <= h[1].dist
      BY <3>1
    <3>4. h[j].dist \in Nat /\ h[j \div 2].dist \in Nat /\ h[1].dist \in Nat
      BY <1>1, <3>1
    <3> QED
      BY <3>2, <3>3, <3>4
  <2> QED
    BY <2>1, <2>2
<1>4. \A k \in Nat : k \in S
  <2> HIDE DEF S
  <2> QED
    BY <1>2, <1>3, AllNaturals
<1>5. ASSUME NEW i \in 1 .. Len(h) PROVE h[i].dist <= h[1].dist
  <2>1. i \in Nat
    BY <1>1
  <2>2. i \in S
    BY <1>4, <2>1
  <2> QED
    BY <2>1, <2>2
<1> QED
  BY <1>5

\* push keeps the order and adds its entry.
LEMMA PushHeap ==
  ASSUME NEW h \in Heaps, HeapOrder(h), Len(h) < 2 * KNearest, NEW c \in Entries
  PROVE  /\ push(h, c) \in Heaps /\ HeapOrder(push(h, c)) /\ Len(push(h, c)) = Len(h) + 1
         /\ \A S : CountIn(push(h, c), S) = CountIn(h, S) + Count(c \in S)
<1> DEFINE n == Len(h)
           g == Append(h, c)
<1>1. /\ n \in Nat /\ h \in Seq(Entries) /\ \A k \in 1 .. n : h[k].dist \in Nat
      /\ KNearest \in Nat
  BY HeapIs, ConstantsAssumption
<1>2. g \in Seq(Entries) /\ Len(g) = n + 1 /\ \A k \in 1 .. n : g[k] = h[k]
  BY <1>1
<1>3. g \in Heaps
  BY <1>2, HeapIs
<1>4. push(h, c) = FloatUp(g, n + 1)
  BY <1>1 DEF push
<1>5. ASSUME NEW S PROVE CountIn(g, S) = CountIn(h, S) + Count(c \in S)
  <2>1. g = h \o <<c>> /\ <<c>> \in Seq(Entries)
    BY <1>1
  <2> QED
    <3> DEFINE q == <<c>>
    <3>1. CountIn(q, S) = Count(c \in S)
      BY CountOne
    <3>2. q \in Seq(Entries) /\ g = h \o q
      BY <2>1
    <3> HIDE DEF q
    <3>3. CountIn(h \o q, S) = CountIn(h, S) + CountIn(q, S)
      BY <1>1, <3>2, CountConcat
    <3> HIDE DEF g
    <3> QED
      BY <3>1, <3>2, <3>3
<1> HIDE DEF g
<1>6. OrderBut(g, n + 1)
  <2> SUFFICES ASSUME NEW i \in 2 .. n + 1
               PROVE  /\ i # n + 1 => g[i].dist <= g[i \div 2].dist
                      /\ i \div 2 # n + 1
    BY <1>2 DEF OrderBut
  <2>1. i \div 2 \in 1 .. n
    BY <1>1
  <2>2. ASSUME i # n + 1 PROVE g[i].dist <= g[i \div 2].dist
    <3>1. i \in 2 .. n /\ i \in 1 .. n
      BY <1>1, <2>2
    <3>2. h[i].dist <= h[i \div 2].dist
      BY <3>1 DEF HeapOrder
    <3> QED
      BY <1>2, <2>1, <3>1, <3>2
  <2> QED
    BY <1>1, <2>1, <2>2
<1>7. n + 1 \in Nat /\ n + 1 \in 1 .. Len(g)
  BY <1>1, <1>2
<1>8. SameEntries(FloatUp(g, n + 1), g) /\ HeapOrder(FloatUp(g, n + 1))
  BY <1>3, <1>6, <1>7, FloatGood
<1> QED
  BY <1>2, <1>4, <1>5, <1>8 DEF SameEntries

\* pop keeps the order and takes the first entry, no other.
LEMMA PopHeap ==
  ASSUME NEW h \in Heaps, HeapOrder(h), h # <<>>
  PROVE  /\ Len(h) \in Nat \ {0} /\ h[1] \in Entries
         /\ pop(h) \in Heaps /\ HeapOrder(pop(h)) /\ Len(pop(h)) = Len(h) - 1
         /\ \A S : CountIn(h, S) = CountIn(pop(h), S) + Count(h[1] \in S)
<1> DEFINE n == Len(h)
           e == [h EXCEPT ![1] = h[n]]
           g == SubSeq(e, 1, n - 1)
           s == Swapped(h, 1, n)
<1>1. /\ n \in Nat /\ h \in Seq(Entries) /\ DOMAIN h = 1 .. n
      /\ \A k \in 1 .. n : h[k] \in Entries /\ h[k].dist \in Nat
  BY HeapIs
<1>2. n # 0 /\ 1 \in 1 .. n /\ n \in 1 .. n
  BY <1>1, EmptySeq
<1>3. /\ s \in Heaps /\ Len(s) = n
      /\ \A k \in 1 .. n : s[k] = IF k = n THEN h[1] ELSE IF k = 1 THEN h[n] ELSE h[k]
      /\ \A S : CountIn(s, S) = CountIn(h, S)
  BY <1>2, SwappedIs
<1>4. CASE n = 1
  <2>1. pop(h) = <<>>
    BY <1>4 DEF pop
  <2>2. <<>> \in Heaps /\ HeapOrder(<<>>) /\ Len(<<>>) = 0
    BY HeapIs DEF HeapOrder
  <2>3. ASSUME NEW S PROVE CountIn(h, S) = Count(h[1] \in S)
    <3>1. h = <<h[1]>>
      BY <1>1, <1>4
    <3> QED
      BY <3>1, CountOne
  <2>4. \A S : CountIn(<<>>, S) = 0
    BY CountEmpty
  <2>5. \A S : CountIn(h, S) = CountIn(pop(h), S) + Count(h[1] \in S)
    BY <2>1, <2>3, <2>4 DEF Count
  <2> QED
    BY <1>1, <1>2, <1>4, <2>1, <2>2, <2>5
<1>5. CASE n # 1
  <2>1. pop(h) = MoveDown(g, 1)
    BY <1>1, <1>2, <1>5 DEF pop
  <2>2. e \in Seq(Entries) /\ Len(e) = n /\ \A k \in 1 .. n : e[k] = IF k = 1 THEN h[n] ELSE h[k]
    <3>1. h[n] \in Entries
      BY <1>1, <1>2
    <3>2. e \in Seq(Entries) /\ Len(e) = n
      BY <1>1, <1>2, <3>1, ExceptSeq
    <3> QED
      BY <1>1, <3>2
  <2> HIDE DEF e, s
  <2>3. n - 1 \in 0 .. n
    BY <1>1, <1>2
  <2>4. g \in Seq(Entries) /\ Len(g) = n - 1 /\ \A k \in 1 .. n - 1 : g[k] = e[k]
    <3>1. n - 1 \in 0 .. Len(e)
      BY <2>2, <2>3
    <3> HIDE DEF n
    <3> QED
      BY <2>2, <3>1, CountCut
  <2> DEFINE t == SubSeq(s, 1, n - 1)
  <2>5. /\ t \in Seq(Entries) /\ Len(t) = n - 1
        /\ \A S : CountIn(s, S) = Count(s[n] \in S) + CountIn(t, S)
    <3>1. s \in Seq(Entries) /\ n \in 1 .. Len(s)
      BY <1>2, <1>3, HeapIs
    <3>2. t \in Seq(Entries) /\ Len(t) = n - 1
      BY <3>1, CountAround
    <3>3. ASSUME NEW S PROVE CountIn(s, S) = Count(s[n] \in S) + CountIn(t, S)
      <4> DEFINE w == SubSeq(s, n + 1, Len(s))
      <4>1. /\ w \in Seq(Entries) /\ Len(w) = Len(s) - n
            /\ CountIn(s, S) = Count(s[n] \in S) + CountIn(t, S) + CountIn(w, S)
        BY <3>1, CountAround
      <4> HIDE DEF w
      <4>2. Len(w) = 0
        <5>1. Len(w) = Len(s) - n /\ Len(s) = n /\ n \in Nat
          BY <1>1, <1>3, <4>1
        <5> HIDE DEF n
        <5> QED
          BY <5>1
      <4>3. CountIn(w, S) \in 0 .. Len(w)
        BY <4>1, PlacesAre
      <4>4. CountIn(w, S) = 0
        BY <4>2, <4>3
      <4>5. CountIn(t, S) \in 0 .. Len(t)
        BY <3>2, PlacesAre
      <4>6. CountIn(t, S) \in Nat
        BY <1>1, <3>2, <4>5
      <4> QED
        BY <4>1, <4>4, <4>6 DEF Count
    <3> QED
      BY <3>2, <3>3
  <2>6. \A k \in 1 .. n - 1 : t[k] = s[k]
    <3>1. s \in Seq(Entries) /\ n - 1 \in 0 .. Len(s)
      BY <1>3, <2>3, HeapIs
    <3> HIDE DEF n
    <3> QED
      BY <3>1, CountCut
  <2>7. \A k \in 1 .. n - 1 : g[k] = t[k] /\ g[k] = IF k = 1 THEN h[n] ELSE h[k]
    <3> SUFFICES ASSUME NEW k \in 1 .. n - 1
                 PROVE  g[k] = t[k] /\ g[k] = IF k = 1 THEN h[n] ELSE h[k]
      OBVIOUS
    <3>1. k \in 1 .. n /\ k # n
      <4>1. n \in Nat
        BY <1>1
      <4> HIDE DEF n
      <4> QED
        BY <4>1
    <3>2. s[k] = IF k = 1 THEN h[n] ELSE h[k]
      BY <1>3, <3>1
    <3>3. e[k] = IF k = 1 THEN h[n] ELSE h[k]
      BY <2>2, <3>1
    <3> HIDE DEF n, t, g
    <3> QED
      BY <2>4, <2>6, <3>2, <3>3
  <2> HIDE DEF g, t
  <2>8. g = t
    <3>1. Len(g) = Len(t) /\ \A k \in 1 .. Len(g) : g[k] = t[k]
      BY <2>4, <2>5, <2>7
    <3> QED
      BY <2>4, <2>5, <3>1, SeqEqual
  <2>9. g \in Heaps /\ 1 \in 1 .. Len(g)
    BY <1>1, <1>2, <1>5, <2>4, HeapIs
  <2>10. OrderAbove(g, 1)
    <3> SUFFICES ASSUME NEW i \in 2 .. Len(g), i \div 2 # 1
                 PROVE  g[i].dist <= g[i \div 2].dist
      BY DEF OrderAbove
    <3>1. i \in 1 .. n - 1 /\ i \div 2 \in 1 .. n - 1 /\ i # 1 /\ i \in 2 .. n
      BY <1>1, <2>4
    <3>2. g[i] = h[i] /\ g[i \div 2] = h[i \div 2]
      BY <2>7, <3>1
    <3> QED
      BY <3>1, <3>2 DEF HeapOrder
  <2>11. SameEntries(MoveDown(g, 1), g) /\ HeapOrder(MoveDown(g, 1))
    <3>1. n - 2 \in Nat /\ Len(g) - 1 <= n - 2
      BY <1>1, <1>2, <1>5, <2>4
    <3> QED
      BY <2>9, <2>10, <3>1, MoveGood
  <2>12. ASSUME NEW S PROVE CountIn(h, S) = CountIn(pop(h), S) + Count(h[1] \in S)
    <3>1. CountIn(pop(h), S) = CountIn(t, S)
      BY <2>1, <2>8, <2>11 DEF SameEntries
    <3>2. CountIn(h, S) = Count(s[n] \in S) + CountIn(t, S) /\ s[n] = h[1]
      BY <1>2, <1>3, <2>5
    <3>3. CountIn(t, S) \in 0 .. Len(t)
      BY <2>5, PlacesAre
    <3>4. CountIn(t, S) \in Nat
      BY <1>1, <2>5, <3>3
    <3> QED
      BY <3>1, <3>2, <3>4 DEF Count
  <2> QED
    BY <1>1, <1>2, <2>1, <2>4, <2>11, <2>12 DEF SameEntries
<1> QED
  BY <1>4, <1>5

\* The empty heap is in order.
LEMMA EmptyHeap == <<>> \in Heaps /\ HeapOrder(<<>>) /\ Len(<<>>) = 0 /\ \A S : CountIn(<<>>, S) = 0
<1> QED
  BY HeapIs, CountEmpty DEF HeapOrder

\* Whatever the order of its entries, a heap stays one.
LEMMA FloatTyped ==
  \A j \in Nat : \A g \in Heaps : FloatUp(g, j) \in Heaps
<1> DEFINE S == {k \in Nat : \A j \in 0 .. k : \A g \in Heaps : FloatUp(g, j) \in Heaps}
<1>1. ASSUME NEW j \in Nat, \A i \in 0 .. j - 1 : \A g \in Heaps : FloatUp(g, i) \in Heaps,
             NEW g \in Heaps
      PROVE  FloatUp(g, j) \in Heaps
  <2>1. FloatUp(g, j) = IF j \in 2 .. Len(g) /\ Nearer(g[j \div 2], g[j])
                        THEN FloatUp(Swapped(g, j, j \div 2), j \div 2) ELSE g
    BY FloatIs
  <2>2. CASE j \in 2 .. Len(g)
    <3>1. Len(g) \in Nat
      BY HeapIs
    <3>2. j \div 2 \in 1 .. Len(g) /\ j \in 1 .. Len(g) /\ j \div 2 \in 0 .. j - 1
      BY <2>2, <3>1
    <3>3. Swapped(g, j, j \div 2) \in Heaps
      BY <3>2, SwappedIs
    <3> QED
      BY <1>1, <2>1, <3>2, <3>3
  <2> QED
    BY <2>1, <2>2
<1>2. 0 \in S
  BY <1>1
<1>3. \A k \in Nat : k \in S => k + 1 \in S
  <2> SUFFICES ASSUME NEW k \in Nat, k \in S, NEW g \in Heaps PROVE FloatUp(g, k + 1) \in Heaps
    OBVIOUS
  <2> QED
    BY <1>1
<1>4. \A k \in Nat : k \in S
  <2> HIDE DEF S
  <2> QED
    BY <1>2, <1>3, AllNaturals
<1> SUFFICES ASSUME NEW j \in Nat, NEW g \in Heaps PROVE FloatUp(g, j) \in Heaps
  OBVIOUS
<1>5. j \in S /\ j \in 0 .. j
  BY <1>4
<1> QED
  BY <1>5

\* The same for MoveDown.
LEMMA MoveTyped ==
  \A k \in Nat : \A g \in Heaps : \A j \in Nat :
    Len(g) - j <= k => MoveDown(g, j) \in Heaps /\ Len(MoveDown(g, j)) = Len(g)
<1> DEFINE Right(g, j) == MoveDown(g, j) \in Heaps /\ Len(MoveDown(g, j)) = Len(g)
           S == {k \in Nat : \A g \in Heaps : \A j \in Nat : Len(g) - j <= k => Right(g, j)}
<1>1. ASSUME NEW g \in Heaps, NEW j \in Nat,
             \A e \in Heaps : \A i \in j + 1 .. Len(e) : Len(e) = Len(g) => Right(e, i)
      PROVE  Right(g, j)
  <2> DEFINE q == HigherSon(g, j)
             s == Swapped(g, j, q)
  <2>1. MoveDown(g, j) = IF 2 * j \in 2 .. Len(g) /\ Nearer(g[j], g[q]) THEN MoveDown(s, q) ELSE g
    BY MoveIs
  <2>2. CASE ~(2 * j \in 2 .. Len(g) /\ Nearer(g[j], g[q]))
    <3>1. MoveDown(g, j) = g
      BY <2>1, <2>2
    <3> QED
      BY <3>1
  <2>3. CASE 2 * j \in 2 .. Len(g) /\ Nearer(g[j], g[q])
    <3>1. Len(g) \in Nat
      BY HeapIs
    <3>2. j \in 1 .. Len(g) /\ q \in 1 .. Len(g) /\ q \in j + 1 .. Len(g)
      BY <2>3, <3>1 DEF HigherSon
    <3>3. MoveDown(g, j) = MoveDown(s, q)
      BY <2>1, <2>3
    <3> HIDE DEF q
    <3>4. s \in Heaps /\ Len(s) = Len(g)
      BY <3>2, SwappedIs
    <3> HIDE DEF s
    <3>5. Right(s, q)
      <4> HIDE DEF Right
      <4> QED
        BY <1>1, <3>2, <3>4
    <3> QED
      BY <3>3, <3>4, <3>5
  <2> QED
    BY <2>2, <2>3
<1> HIDE DEF Right
<1>2. \A g \in Heaps : Len(g) \in Nat
  BY HeapIs
<1>3. 0 \in S
  <2> SUFFICES ASSUME NEW g \in Heaps, NEW j \in Nat, Len(g) - j <= 0 PROVE Right(g, j)
    OBVIOUS
  <2>1. \A e \in Heaps : \A i \in j + 1 .. Len(e) : Len(e) # Len(g)
    BY <1>2
  <2> QED
    BY <1>1, <2>1
<1>4. ASSUME NEW k \in Nat, k \in S PROVE k + 1 \in S
  <2> SUFFICES ASSUME NEW g \in Heaps, NEW j \in Nat, Len(g) - j <= k + 1
               PROVE  Right(g, j)
    OBVIOUS
  <2>1. \A e \in Heaps : \A i \in j + 1 .. Len(e) : Len(e) = Len(g) => i \in Nat /\ Len(e) - i <= k
    BY <1>2
  <2>2. \A e \in Heaps : \A i \in j + 1 .. Len(e) : Len(e) = Len(g) => Right(e, i)
    BY <1>4, <2>1
  <2> QED
    BY <1>1, <2>2
<1>5. \A k \in Nat : k \in S
  <2> HIDE DEF S
  <2> QED
    BY <1>3, <1>4, AllNaturals
<1> QED
  BY <1>5 DEF Right

\* And for push ...
LEMMA PushTyped ==
  ASSUME NEW h \in Heaps, NEW c \in Entries
  PROVE  push(h, c) \in Heaps
<1>1. Len(h) + 1 \in Nat /\ h \in Seq(Entries)
  BY HeapIs
<1>2. Append(h, c) \in Heaps
  BY <1>1, HeapIs
<1>3. FloatUp(Append(h, c), Len(h) + 1) \in Heaps
  BY <1>1, <1>2, FloatTyped
<1> QED
  BY <1>3 DEF push

\* ... and pop.
LEMMA PopTyped ==
  ASSUME NEW h \in Heaps
  PROVE  pop(h) \in Heaps /\ (h # <<>> => h[1] \in Entries /\ Len(h) \in Nat \ {0} /\ Len(pop(h)) = Len(h) - 1)
<1> DEFINE n == Len(h)
           e == [h EXCEPT ![1] = h[n]]
           g == SubSeq(e, 1, n - 1)
<1>1. n \in Nat /\ h \in Seq(Entries) /\ \A k \in 1 .. n : h[k] \in Entries
  BY HeapIs
<1>2. CASE n = 0
  <2>1. h = <<>>
    BY <1>1, <1>2
  <2>2. pop(h) = <<>>
    BY <1>2 DEF pop
  <2> QED
    BY <2>1, <2>2, HeapIs
<1>3. CASE n = 1
  <2>1. pop(h) = <<>> /\ Len(<<>>) = 0
    BY <1>3 DEF pop
  <2> QED
    BY <1>1, <1>3, <2>1, HeapIs
<1>4. CASE n # 0 /\ n # 1
  <2>1. pop(h) = MoveDown(g, 1)
    BY <1>1, <1>4 DEF pop
  <2>2. e \in Seq(Entries) /\ Len(e) = n
    <3>1. h[n] \in Entries /\ 1 \in 1 .. Len(h)
      BY <1>1, <1>4
    <3> QED
      BY <1>1, <3>1, ExceptSeq
  <2> HIDE DEF e
  <2>3. g \in Heaps /\ Len(g) = n - 1
    <3>1. n - 1 \in 0 .. Len(e)
      BY <1>1, <1>4, <2>2
    <3> HIDE DEF n
    <3> QED
      BY <2>2, <3>1, CountCut, HeapIs
  <2> HIDE DEF g
  <2>4. MoveDown(g, 1) \in Heaps /\ Len(MoveDown(g, 1)) = Len(g)
    <3>1. n - 2 \in Nat /\ Len(g) - 1 <= n - 2 /\ 1 \in Nat
      BY <1>1, <1>4, <2>3
    <3> HIDE DEF n
    <3> QED
      BY <2>3, <3>1, MoveTyped
  <2> QED
    BY <1>1, <1>4, <2>1, <2>3, <2>4
<1> QED
  BY <1>2, <1>3, <1>4

-----------------------------------------------------------------------------
(* Distances.                                                              *)

\* Squares are natural numbers.
LEMMA SquareIs == \A x \in Int : x * x \in Nat
<1> SUFFICES ASSUME NEW x \in Int PROVE x * x \in Nat
  OBVIOUS
<1>1. x * x \in Int
  OBVIOUS
<1>2. x * x >= 0
  OBVIOUS
<1> QED
  BY <1>1, <1>2

\* A larger side has a larger square.
LEMMA SquareRises ==
  \A x, y \in Int : 0 <= x /\ (x <= y \/ x <= -y) => x * x <= y * y
<1> SUFFICES ASSUME NEW x \in Int, NEW y \in Int, 0 <= x PROVE (x <= y \/ x <= -y) => x * x <= y * y
  OBVIOUS
<1>1. ASSUME NEW z \in Int, x <= z PROVE x * x <= z * z
  <2>1. x * x <= x * z
    BY <1>1
  <2>2. x * z <= z * z
    BY <1>1
  <2>3. x * x \in Int /\ x * z \in Int /\ z * z \in Int
    OBVIOUS
  <2> QED
    BY <2>1, <2>2, <2>3
<1>2. (-y) * (-y) = y * y /\ -y \in Int
  OBVIOUS
<1> QED
  BY <1>1, <1>2

\* calc_dist, summed.
LEMMA DistIs ==
  ASSUME NEW p \in [Axes -> Int], NEW q \in [Axes -> Int]
  PROVE  /\ calc_dist(p, q) \in Nat
         /\ calc_dist(p, q) = (p[1] - q[1]) * (p[1] - q[1]) + (p[2] - q[2]) * (p[2] - q[2])
                              + (p[3] - q[3]) * (p[3] - q[3])
<1>1. 1 \in Axes /\ 2 \in Axes /\ 3 \in Axes
  BY DEF Axes
<1>2. \A a \in Axes : p[a] - q[a] \in Int
  OBVIOUS
<1>3. \A a \in Axes : (p[a] - q[a]) * (p[a] - q[a]) \in Nat
  BY <1>2, SquareIs
<1> DEFINE sq(a) == (p[a] - q[a]) * (p[a] - q[a])
<1>4. calc_dist(p, q) = sq(1) + sq(2) + sq(3)
  BY <1>1 DEF calc_dist, SumOverAxes
<1>5. sq(1) \in Nat /\ sq(2) \in Nat /\ sq(3) \in Nat
  BY <1>1, <1>3
<1>6. calc_dist(p, q) \in Nat
  <2> HIDE DEF sq
  <2> QED
    BY <1>4, <1>5
<1> QED
  BY <1>4, <1>6

\* The distance of a node's range is at most that of each of its valid points.
LEMMA BoxDistIs ==
  ASSUME NEW n \in Good, n # Null, NEW p \in [Axes -> Int]
  PROVE  /\ calc_box_dist(n, p) \in Nat
         /\ \A q \in Valid(n) : calc_box_dist(n, p) <= calc_dist(p, q)
<1> DEFINE gap(a) == Max({n.lo[a] - p[a], p[a] - n.hi[a], 0})
<1>1. n \in Trees /\ Tight(n)
  BY GoodIs DEF Local
<1>2. n.lo \in [Axes -> Int] /\ n.hi \in [Axes -> Int]
  BY <1>1, TreeFields
<1>3. 1 \in Axes /\ 2 \in Axes /\ 3 \in Axes
  BY DEF Axes
<1>4. calc_box_dist(n, p) = gap(1) * gap(1) + gap(2) * gap(2) + gap(3) * gap(3)
  BY <1>3 DEF calc_box_dist, SumOverAxes
<1>5. ASSUME NEW a \in Axes
      PROVE  /\ gap(a) \in {n.lo[a] - p[a], p[a] - n.hi[a], 0}
             /\ 0 <= gap(a) /\ gap(a) \in Int
  <2> DEFINE K == {n.lo[a] - p[a], p[a] - n.hi[a], 0}
  <2>1. K \in SUBSET Int /\ K # {} /\ 0 \in K
    BY <1>2
  <2>2. IsFiniteSet(K)
    <3>1. IsFiniteSet({n.lo[a] - p[a]}) /\ IsFiniteSet({p[a] - n.hi[a]}) /\ IsFiniteSet({0})
      BY FS_Singleton
    <3>2. IsFiniteSet({n.lo[a] - p[a]} \cup {p[a] - n.hi[a]})
      BY <3>1, FS_Union
    <3> DEFINE two == {n.lo[a] - p[a]} \cup {p[a] - n.hi[a]}
    <3>3. K = two \cup {0}
      OBVIOUS
    <3> HIDE DEF K, two
    <3>4. IsFiniteSet(two)
      BY <3>2 DEF two
    <3> QED
      BY <3>1, <3>3, <3>4, FS_Union
  <2> HIDE DEF K
  <2>3. Max(K) \in K /\ \A j \in K : j <= Max(K)
    BY <2>1, <2>2, ExtremesOf
  <2> QED
    BY <2>1, <2>3 DEF K
<1> HIDE DEF gap
<1>6. ASSUME NEW q \in Valid(n), NEW a \in Axes
      PROVE  gap(a) * gap(a) <= (p[a] - q[a]) * (p[a] - q[a])
  <2>1. q \in [Axes -> Int]
    BY <1>1, ValidIs, PointsAre
  <2>2. n.lo[a] <= q[a] /\ q[a] <= n.hi[a]
    BY <1>1 DEF Tight
  <2>3. n.lo[a] \in Int /\ n.hi[a] \in Int /\ q[a] \in Int /\ p[a] \in Int /\ p[a] - q[a] \in Int
    BY <1>2, <2>1
  <2>4. 0 <= gap(a) /\ gap(a) \in Int /\ gap(a) \in {n.lo[a] - p[a], p[a] - n.hi[a], 0}
    BY <1>5
  <2>5. gap(a) <= p[a] - q[a] \/ gap(a) <= -(p[a] - q[a])
    BY <2>2, <2>3, <2>4
  <2> DEFINE d == p[a] - q[a]
  <2>6. d \in Int /\ (gap(a) <= d \/ gap(a) <= -d)
    BY <2>3, <2>5
  <2> HIDE DEF d
  <2>7. gap(a) * gap(a) <= d * d
    BY <2>4, <2>6, SquareRises
  <2> QED
    BY <2>7 DEF d
<1>7. \A a \in Axes : gap(a) * gap(a) \in Nat
  BY <1>5, SquareIs
<1>8. calc_box_dist(n, p) \in Nat
  <2> DEFINE g == [a \in Axes |-> gap(a) * gap(a)]
  <2>1. g[1] \in Nat /\ g[2] \in Nat /\ g[3] \in Nat /\ calc_box_dist(n, p) = g[1] + g[2] + g[3]
    BY <1>3, <1>4, <1>7
  <2> HIDE DEF g
  <2> QED
    BY <2>1
<1>9. ASSUME NEW q \in Valid(n) PROVE calc_box_dist(n, p) <= calc_dist(p, q)
  <2> DEFINE g == [a \in Axes |-> gap(a) * gap(a)]
             d == [a \in Axes |-> (p[a] - q[a]) * (p[a] - q[a])]
  <2>1. q \in [Axes -> Int]
    BY <1>1, ValidIs, PointsAre
  <2>2. calc_box_dist(n, p) = g[1] + g[2] + g[3]
    BY <1>3, <1>4
  <2>3. calc_dist(p, q) = d[1] + d[2] + d[3]
    BY DEF calc_dist, SumOverAxes
  <2>4. \A a \in Axes : g[a] <= d[a] /\ g[a] \in Nat /\ d[a] \in Nat
    <3> SUFFICES ASSUME NEW a \in Axes PROVE g[a] <= d[a] /\ g[a] \in Nat /\ d[a] \in Nat
      OBVIOUS
    <3>1. p[a] - q[a] \in Int
      BY <2>1
    <3>2. (p[a] - q[a]) * (p[a] - q[a]) \in Nat
      BY <3>1, SquareIs
    <3> QED
      BY <1>6, <1>7, <3>2
  <2> HIDE DEF g, d
  <2>5. g[1] <= d[1] /\ g[2] <= d[2] /\ g[3] <= d[3] /\ g[1] \in Nat /\ g[2] \in Nat /\ g[3] \in Nat
        /\ d[1] \in Nat /\ d[2] \in Nat /\ d[3] \in Nat
    BY <1>3, <2>4
  <2> QED
    BY <2>2, <2>3, <2>5
<1> QED
  BY <1>8, <1>9

-----------------------------------------------------------------------------
(* Search.                                                                 *)

OwnDist(m, p) == calc_dist(p, Push_Down(m).point)
TakenFrom(m, h, p, max) ==
  ~Push_Down(m).point_deleted /\ OwnDist(m, p) <= max /\ Within(h, OwnDist(m, p))
OwnEntry(m, p) == [point |-> Push_Down(m).point, dist |-> OwnDist(m, p)]
Mine(m, h, p, max) ==
  IF TakenFrom(m, h, p, max) THEN push(IF full(h) THEN pop(h) ELSE h, OwnEntry(m, p)) ELSE h
DistTo(s, p) == calc_box_dist(s, p)
Enter(v, s, d, g) == IF Within(g, d) THEN v[g] ELSE [node |-> s, heap |-> g]
RightFirst(m, g, p) ==
  /\ Within(g, DistTo(LeftSon(m), p)) /\ Within(g, DistTo(RightSon(m), p))
  /\ DistTo(RightSon(m), p) < DistTo(LeftSon(m), p)
ByRight(m, g, p, v, w) ==
  LET onRight == Enter(w, RightSon(m), DistTo(RightSon(m), p), g)
      onLeft == Enter(v, LeftSon(m), DistTo(LeftSon(m), p), onRight.heap)
  IN  [node |-> PushedNode(m, onLeft.node, onRight.node), heap |-> onLeft.heap]
ByLeft(m, g, p, v, w) ==
  LET onLeft == Enter(v, LeftSon(m), DistTo(LeftSon(m), p), g)
      onRight == Enter(w, RightSon(m), DistTo(RightSon(m), p), onLeft.heap)
  IN  [node |-> PushedNode(m, onLeft.node, onRight.node), heap |-> onRight.heap]
Stops(m, p, max) == m = Null \/ m.tree_deleted \/ calc_box_dist(m, p) > max * max
SearchStep(m, h, p, max, v, w) ==
  IF Stops(m, p, max) THEN [node |-> m, heap |-> h]
  ELSE IF RightFirst(m, Mine(m, h, p, max), p)
  THEN ByRight(m, Mine(m, h, p, max), p, v, w)
  ELSE ByLeft(m, Mine(m, h, p, max), p, v, w)

SearchFrom(f, p, max_dist) ==
  f = [m \in Trees |-> [h \in Heaps |->
        IF m = Null \/ m.tree_deleted \/ calc_box_dist(m, p) > max_dist * max_dist
        THEN [node |-> m, heap |-> h]
        ELSE
          LET r == Push_Down(m)
              dist == calc_dist(p, r.point)
              taken == ~r.point_deleted /\ dist <= max_dist /\ Within(h, dist)
              mine == IF taken
                      THEN push(IF full(h) THEN pop(h) ELSE h, [point |-> r.point, dist |-> dist])
                      ELSE h
              distLeft == calc_box_dist(r.left, p)
              distRight == calc_box_dist(r.right, p)
              enter(s, d, g) == IF Within(g, d) THEN f[s][g] ELSE [node |-> s, heap |-> g]
              rightFirst == Within(mine, distLeft) /\ Within(mine, distRight)
                            /\ distRight < distLeft
          IN  IF rightFirst
              THEN LET onRight == enter(r.right, distRight, mine)
                       onLeft == enter(r.left, distLeft, onRight.heap)
                   IN  [node |-> [r EXCEPT !.left = onLeft.node, !.right = onRight.node],
                        heap |-> onLeft.heap]
              ELSE LET onLeft == enter(r.left, distLeft, mine)
                       onRight == enter(r.right, distRight, onLeft.heap)
                   IN  [node |-> [r EXCEPT !.left = onLeft.node, !.right = onRight.node],
                        heap |-> onRight.heap]]]

\* Search, by what it makes of a node, a heap and the searches of the sons.
LEMMA SearchBody ==
  ASSUME NEW p, NEW max, NEW f
  PROVE  SearchFrom(f, p, max) <=>
           f = [m \in Trees |-> [h \in Heaps |->
                 SearchStep(m, h, p, max, f[LeftSon(m)], f[RightSon(m)])]]
<1> QED
  BY Zenon DEF SearchFrom, SearchStep, ByRight, ByLeft, RightFirst, Enter, DistTo, Mine, OwnEntry,
               TakenFrom, OwnDist, Stops, PushedNode, LeftSon, RightSon

\* Search is the function its LET chooses.
LEMMA SearchChosen ==
  ASSUME NEW p, NEW max
  PROVE  \A n, q : Search(n, p, max, q) = (CHOOSE f : SearchFrom(f, p, max))[n][q]
<1> QED
  BY DEF Search, SearchFrom

\* Asked without knowing the order of the heap: what is found is a heap.
LEMMA MineTyped ==
  ASSUME NEW m \in Trees, m # Null, NEW h \in Heaps, NEW p \in [Axes -> Int], NEW max
  PROVE  /\ Mine(m, h, p, max) \in Heaps /\ OwnEntry(m, p) \in Entries
         /\ OwnEntry(m, p).point = m.point /\ OwnEntry(m, p).dist = OwnDist(m, p)
         /\ OwnDist(m, p) = calc_dist(p, m.point) /\ OwnDist(m, p) \in Nat
<1>1. Push_Down(m).point = m.point /\ m.point \in Points /\ m.point \in [Axes -> Int]
  <2>1. m \in NodesOver(Trees)
    BY NodalIs DEF Nodal
  <2>2. Push_Down(m).point = m.point
    BY <2>1, PushIs
  <2> QED
    BY <2>2, TreeFields
<1>2. OwnDist(m, p) = calc_dist(p, m.point) /\ OwnDist(m, p) \in Nat
  BY <1>1, DistIs DEF OwnDist
<1>3. /\ OwnEntry(m, p) \in Entries
      /\ OwnEntry(m, p).point = m.point /\ OwnEntry(m, p).dist = OwnDist(m, p)
  BY <1>1, <1>2 DEF OwnEntry, Entries
<1>4. pop(h) \in Heaps
  BY PopTyped
<1>5. push(IF full(h) THEN pop(h) ELSE h, OwnEntry(m, p)) \in Heaps
  BY <1>3, <1>4, PushTyped
<1> QED
  BY <1>2, <1>3, <1>5 DEF Mine

Answers(k) == [node : TreesTo[k], heap : Heaps]

\* A son entered, or not, answers with a tree of its height and a heap.
LEMMA EnterTyped ==
  ASSUME NEW k \in Nat, NEW v \in [Heaps -> Answers(k)], NEW s \in TreesTo[k], NEW d, NEW g \in Heaps
  PROVE  Enter(v, s, d, g) \in Answers(k) /\ Enter(v, s, d, g).node \in TreesTo[k]
         /\ Enter(v, s, d, g).heap \in Heaps
<1>1. Enter(v, s, d, g) \in Answers(k)
  <2>1. v[g] \in Answers(k)
    OBVIOUS
  <2>2. [node |-> s, heap |-> g] \in Answers(k)
    BY DEF Answers
  <2> QED
    BY <2>1, <2>2 DEF Enter
<1> QED
  BY <1>1 DEF Answers

\* And so does a node.
LEMMA SearchStepTyped ==
  ASSUME NEW p \in [Axes -> Int], NEW max, NEW k \in 0 .. MaxHeight - 1, NEW n \in NodesOver(TreesTo[k]),
         NEW v \in [Heaps -> Answers(k)], NEW w \in [Heaps -> Answers(k)], NEW h \in Heaps
  PROVE  SearchStep(n, h, p, max, v, w) \in Answers(k + 1)
<1>1. k \in Nat /\ k + 1 \in Nat /\ n \in TreesTo[k + 1] /\ k + 1 \in 0 .. MaxHeight /\ n \in Trees
      /\ n # Null
  BY NodeInTrees
<1>2. LeftSon(n) \in TreesTo[k] /\ RightSon(n) \in TreesTo[k]
  <2>1. (k + 1) - 1 = k
    BY <1>1
  <2> QED
    BY <1>1, <2>1, PushTree
<1> DEFINE g == Mine(n, h, p, max)
<1>3. g \in Heaps
  BY <1>1, MineTyped
<1>4. ASSUME NEW l \in TreesTo[k], NEW r \in TreesTo[k], NEW e \in Heaps
      PROVE  [node |-> PushedNode(n, l, r), heap |-> e] \in Answers(k + 1)
  <2>1. PushedNode(n, l, r) \in NodesOver(TreesTo[k])
    <3>1. Push_Down(n) \in NodesOver(TreesTo[k])
      BY <1>1, NodeInTrees
    <3> QED
      BY <3>1, PushedNodeIs
  <2>2. PushedNode(n, l, r) \in TreesTo[k + 1]
    BY <1>1, <2>1, NodeRise
  <2> QED
    BY <2>2 DEF Answers
<1> HIDE DEF g
<1>5. ByRight(n, g, p, v, w) \in Answers(k + 1)
  <2> DEFINE onRight == Enter(w, RightSon(n), DistTo(RightSon(n), p), g)
             onLeft == Enter(v, LeftSon(n), DistTo(LeftSon(n), p), onRight.heap)
  <2>1. onRight.node \in TreesTo[k] /\ onRight.heap \in Heaps
    BY <1>1, <1>2, <1>3, EnterTyped
  <2>2. onLeft.node \in TreesTo[k] /\ onLeft.heap \in Heaps
    BY <1>1, <1>2, <2>1, EnterTyped
  <2>3. ByRight(n, g, p, v, w) = [node |-> PushedNode(n, onLeft.node, onRight.node), heap |-> onLeft.heap]
    BY Zenon DEF ByRight
  <2> HIDE DEF onLeft, onRight
  <2> QED
    BY <1>4, <2>1, <2>2, <2>3
<1>6. ByLeft(n, g, p, v, w) \in Answers(k + 1)
  <2> DEFINE onLeft == Enter(v, LeftSon(n), DistTo(LeftSon(n), p), g)
             onRight == Enter(w, RightSon(n), DistTo(RightSon(n), p), onLeft.heap)
  <2>1. onLeft.node \in TreesTo[k] /\ onLeft.heap \in Heaps
    BY <1>1, <1>2, <1>3, EnterTyped
  <2>2. onRight.node \in TreesTo[k] /\ onRight.heap \in Heaps
    BY <1>1, <1>2, <2>1, EnterTyped
  <2>3. ByLeft(n, g, p, v, w) = [node |-> PushedNode(n, onLeft.node, onRight.node), heap |-> onRight.heap]
    BY Zenon DEF ByLeft
  <2> HIDE DEF onLeft, onRight
  <2> QED
    BY <1>4, <2>1, <2>2, <2>3
<1>7. [node |-> n, heap |-> h] \in Answers(k + 1)
  BY <1>1 DEF Answers
<1>8. SearchStep(n, h, p, max, v, w)
        = IF Stops(n, p, max) THEN [node |-> n, heap |-> h]
          ELSE IF RightFirst(n, g, p) THEN ByRight(n, g, p, v, w) ELSE ByLeft(n, g, p, v, w)
  BY Zenon DEF SearchStep, g
<1> QED
  BY <1>5, <1>6, <1>7, <1>8

\* That function exists.
LEMMA SearchExists ==
  ASSUME NEW p \in [Axes -> Int], NEW max
  PROVE  \E f : SearchFrom(f, p, max)
<1> DEFINE W == [Heaps -> [node : AllTrees, heap : Heaps]]
           V == [k \in Nat |-> [Heaps -> Answers(k)]]
           Step(m, v, w) == [h \in Heaps |-> SearchStep(m, h, p, max, v, w)]
           G == [x \in Trees \X W \X W |-> Step(x[1], x[2], x[3])]
           z == [h \in Heaps |-> [node |-> Null, heap |-> h]]
<1>1. MaxHeight \in 0 .. MaxHeight /\ Null \in Trees
  BY HeightIs
<1>2. ASSUME NEW m \in Trees, NEW v \in W, NEW w \in W
      PROVE  G[<<m, v, w>>] = Step(m, v, w)
  <2> HIDE DEF Step, W
  <2> QED
    OBVIOUS
<1>3. ASSUME NEW k \in 0 .. MaxHeight - 1, NEW n \in NodesOver(TreesTo[k]),
             NEW v \in V[k], NEW w \in V[k]
      PROVE  Step(n, v, w) \in V[k + 1]
  <2>1. k \in Nat /\ k + 1 \in Nat
    BY NodeInTrees
  <2>2. v \in [Heaps -> Answers(k)] /\ w \in [Heaps -> Answers(k)]
    BY <2>1
  <2>3. \A h \in Heaps : SearchStep(n, h, p, max, v, w) \in Answers(k + 1)
    BY <2>2, SearchStepTyped
  <2>4. Step(n, v, w) \in [Heaps -> Answers(k + 1)]
    BY <2>3
  <2> HIDE DEF Step
  <2> QED
    BY <2>1, <2>4
<1>4. TreeFounded(MaxHeight, W, V, z, G)
  <2>1. \A k \in Nat : Answers(k) \subseteq Answers(k + 1) /\ Answers(k) \subseteq [node : AllTrees, heap : Heaps]
    BY AllTreesIs, TreesRise DEF Answers
  <2>2. \A k \in Nat : V[k] \subseteq V[k + 1] /\ V[k] \in SUBSET W
    BY <2>1
  <2>3. V \in [Nat -> SUBSET W]
    <3> HIDE DEF W
    <3> QED
      BY <2>2
  <2>4. z \in V[0]
    <3>1. Null \in TreesTo[0]
      BY TreesRise
    <3>2. \A h \in Heaps : [node |-> Null, heap |-> h] \in Answers(0)
      BY <3>1 DEF Answers
    <3>3. z \in [Heaps -> Answers(0)]
      BY <3>2
    <3> HIDE DEF z
    <3> QED
      BY <3>3
  <2>5. ASSUME NEW k \in 0 .. MaxHeight - 1, NEW n \in NodesOver(TreesTo[k]),
               NEW v \in V[k], NEW w \in V[k]
        PROVE  G[<<n, v, w>>] \in V[k + 1]
    <3>1. n \in Trees /\ k \in Nat
      BY NodeInTrees
    <3> HIDE DEF V, W, G, Step
    <3>2. v \in W /\ w \in W
      BY <2>2, <3>1
    <3> QED
      BY <1>2, <1>3, <3>1, <3>2
  <2> HIDE DEF V, W, G, Step, z
  <2> QED
    BY <2>2, <2>3, <2>4, <2>5 DEF TreeFounded
<1>5. PICK f \in [Trees -> W] :
        \A n \in Trees : f[n] = IF n = Null THEN z ELSE G[<<n, f[LeftSon(n)], f[RightSon(n)]>>]
  <2> HIDE DEF V, W, G, Step, z
  <2>1. \E f \in [TreesTo[MaxHeight] -> W] :
          \A n \in TreesTo[MaxHeight] :
            f[n] = IF n = Null THEN z ELSE G[<<n, f[LeftSon(n)], f[RightSon(n)]>>]
    BY <1>1, <1>4, TreeRecursion
  <2> QED
    BY <2>1 DEF Trees
<1>6. ASSUME NEW n \in Trees
      PROVE  f[n] = [h \in Heaps |-> SearchStep(n, h, p, max, f[LeftSon(n)], f[RightSon(n)])]
  <2>1. CASE n = Null
    <3>1. \A h \in Heaps : SearchStep(n, h, p, max, f[LeftSon(n)], f[RightSon(n)]) = [node |-> Null, heap |-> h]
      BY <2>1 DEF SearchStep, Stops
    <3> HIDE DEF W, G
    <3>2. f[n] = z
      BY <1>5, <2>1
    <3> QED
      BY <3>1, <3>2
  <2>2. CASE n # Null
    <3>1. LeftSon(n) \in Trees /\ RightSon(n) \in Trees
      BY <2>2, SonsInTrees
    <3> HIDE DEF W, G
    <3>2. f[LeftSon(n)] \in W /\ f[RightSon(n)] \in W
      BY <1>5, <3>1
    <3>3. f[n] = Step(n, f[LeftSon(n)], f[RightSon(n)])
      <4> HIDE DEF Step
      <4> QED
        BY <1>2, <1>5, <2>2, <3>2
    <3> QED
      BY <3>3
  <2> QED
    BY <2>1, <2>2
<1>7. f = [m \in Trees |-> [h \in Heaps |->
            SearchStep(m, h, p, max, f[LeftSon(m)], f[RightSon(m)])]]
  <2> HIDE DEF W
  <2> QED
    BY <1>6
<1> QED
  BY <1>7, SearchBody

\* A search of a node, by the searches of the sons a walk finds.
SearchSon(s, p, max) == [h \in Heaps |-> Search(s, p, max, h)]

\* So Search is what its recursion says.
LEMMA SearchIs ==
  ASSUME NEW p \in [Axes -> Int], NEW max
  PROVE  /\ \A h \in Heaps : Search(Null, p, max, h) = [node |-> Null, heap |-> h]
         /\ \A n \in Trees \ {Null} : \A h \in Heaps :
              Search(n, p, max, h)
                = SearchStep(n, h, p, max, SearchSon(LeftSon(n), p, max), SearchSon(RightSon(n), p, max))
<1> DEFINE f == CHOOSE g : SearchFrom(g, p, max)
<1>1. SearchFrom(f, p, max)
  BY SearchExists
<1>2. \A n, q : Search(n, p, max, q) = f[n][q]
  BY SearchChosen
<1> HIDE DEF f
<1>3. f = [m \in Trees |-> [h \in Heaps |->
            SearchStep(m, h, p, max, f[LeftSon(m)], f[RightSon(m)])]]
  BY <1>1, SearchBody
<1>4. Null \in Trees
  BY HeightIs
<1>5. \A n \in Trees : \A h \in Heaps :
        f[n][h] = SearchStep(n, h, p, max, f[LeftSon(n)], f[RightSon(n)])
  BY <1>3
<1>6. \A n \in Trees : f[n] = SearchSon(n, p, max)
  <2> SUFFICES ASSUME NEW n \in Trees PROVE f[n] = SearchSon(n, p, max)
    OBVIOUS
  <2>1. f[n] = [h \in Heaps |-> SearchStep(n, h, p, max, f[LeftSon(n)], f[RightSon(n)])]
    BY <1>3
  <2>2. f[n] = [h \in Heaps |-> f[n][h]]
    BY <2>1
  <2> QED
    BY <1>2, <2>2 DEF SearchSon
<1>7. \A h \in Heaps : Search(Null, p, max, h) = [node |-> Null, heap |-> h]
  BY <1>2, <1>4, <1>5 DEF SearchStep, Stops
<1>8. ASSUME NEW n \in Trees \ {Null}, NEW h \in Heaps
      PROVE  Search(n, p, max, h)
                = SearchStep(n, h, p, max, SearchSon(LeftSon(n), p, max), SearchSon(RightSon(n), p, max))
  <2>1. LeftSon(n) \in Trees /\ RightSon(n) \in Trees
    BY SonsInTrees
  <2> QED
    BY <1>2, <1>5, <1>6, <2>1
<1> QED
  BY <1>7, <1>8

-----------------------------------------------------------------------------
(* What a search gains: within every distance the heap has as many entries *)
(* as the points it had and those it was offered, up to KNearest.          *)

EntriesTo(D) == {c \in Entries : c.dist <= D}
Cnt(h, D) == CountIn(h, EntriesTo(D))
AtMost(x) == IF x <= KNearest THEN x ELSE KNearest
HeapOK(h) == h \in Heaps /\ HeapOrder(h) /\ Len(h) <= KNearest
Gains(g, h, C, T) ==
  /\ HeapOK(g)
  /\ \A D \in Nat : Cnt(g, D) = AtMost(Cnt(h, D) + C[D])
  /\ Elements(g) \subseteq Elements(h) \cup T

\* At least one neighbour is wanted.
LEMMA KNearestIs == KNearest \in Nat \ {0}
BY ConstantsAssumption

\* A full heap has KNearest entries, all within the distance of its first.
LEMMA HeapCounts ==
  ASSUME NEW h \in Heaps, HeapOK(h)
  PROVE  /\ Len(h) \in Nat /\ h \in Seq(Entries)
         /\ \A D \in Nat : Cnt(h, D) \in Nat /\ Cnt(h, D) <= Len(h)
         /\ full(h) => Len(h) = KNearest /\ h # <<>> /\ h[1] \in Entries /\ h[1].dist \in Nat
         /\ full(h) => \A D \in Nat : h[1].dist <= D => Cnt(h, D) = KNearest
<1>1. Len(h) \in Nat /\ h \in Seq(Entries) /\ \A i \in 1 .. Len(h) : h[i] \in Entries /\ h[i].dist \in Nat
  BY HeapIs
<1>2. \A D \in Nat : Cnt(h, D) \in Nat /\ Cnt(h, D) <= Len(h)
  <2> TAKE D \in Nat
  <2>1. CountIn(h, EntriesTo(D)) \in 0 .. Len(h)
    BY <1>1, PlacesAre
  <2> QED
    BY <1>1, <2>1 DEF Cnt
<1>3. ASSUME full(h) PROVE Len(h) = KNearest /\ h # <<>> /\ h[1] \in Entries /\ h[1].dist \in Nat
  <2>1. Len(h) = KNearest
    BY <1>1, <1>3, KNearestIs DEF full, HeapOK
  <2>2. 1 \in 1 .. Len(h) /\ h # <<>>
    BY <2>1, KNearestIs
  <2> QED
    BY <1>1, <2>1, <2>2
<1>4. ASSUME full(h), NEW D \in Nat, h[1].dist <= D PROVE Cnt(h, D) = KNearest
  <2>1. \A i \in 1 .. Len(h) : h[i].dist <= h[1].dist
    BY FarthestFirst DEF HeapOK
  <2>2. h[1].dist \in Nat /\ Len(h) = KNearest
    BY <1>3, <1>4
  <2>3. \A i \in 1 .. Len(h) : h[i] \in EntriesTo(D)
    BY <1>1, <1>4, <2>1, <2>2 DEF EntriesTo
  <2>4. CountIn(h, EntriesTo(D)) = Len(h)
    BY <1>1, <2>3, CountAll
  <2> QED
    BY <2>2, <2>4 DEF Cnt
<1> QED
  BY <1>1, <1>2, <1>3, <1>4

\* What is farther than all of a full heap adds nothing.
LEMMA GainsNothing ==
  ASSUME NEW h \in Heaps, HeapOK(h), NEW C \in [Nat -> Nat], NEW T,
         \A D \in Nat : C[D] = 0 \/ (full(h) /\ h[1].dist <= D)
  PROVE  Gains(h, h, C, T)
<1>1. \A D \in Nat : Cnt(h, D) = AtMost(Cnt(h, D) + C[D])
  <2> TAKE D \in Nat
  <2>1. Cnt(h, D) \in Nat /\ Cnt(h, D) <= Len(h) /\ Len(h) \in Nat /\ Len(h) <= KNearest
    BY HeapCounts DEF HeapOK
  <2>2. CASE C[D] = 0
    BY <2>1, <2>2, KNearestIs DEF AtMost
  <2>3. CASE full(h) /\ h[1].dist <= D
    <3>1. Cnt(h, D) = KNearest
      BY <2>3, HeapCounts
    <3>2. C[D] \in Nat
      OBVIOUS
    <3> QED
      BY <3>1, <3>2, KNearestIs DEF AtMost
  <2> QED
    BY <2>2, <2>3
<1> QED
  BY <1>1 DEF Gains

\* Two gains in a row are a gain of the sums.
LEMMA GainsBoth ==
  ASSUME NEW h \in Heaps, HeapOK(h), NEW g, NEW e,
         NEW C \in [Nat -> Nat], NEW B \in [Nat -> Nat], NEW A \in [Nat -> Nat],
         NEW T, NEW U, NEW V, T \cup U \subseteq V,
         Gains(g, h, C, T), Gains(e, g, B, U), \A D \in Nat : A[D] = C[D] + B[D]
  PROVE  Gains(e, h, A, V)
<1>1. ASSUME NEW D \in Nat PROVE Cnt(e, D) = AtMost(Cnt(h, D) + A[D])
  <2>1. Cnt(g, D) = AtMost(Cnt(h, D) + C[D]) /\ Cnt(e, D) = AtMost(Cnt(g, D) + B[D])
    BY DEF Gains
  <2>2. Cnt(h, D) \in Nat /\ C[D] \in Nat /\ B[D] \in Nat /\ A[D] = C[D] + B[D]
    BY HeapCounts
  <2>3. KNearest \in Nat
    BY KNearestIs
  <2> QED
    BY <2>1, <2>2, <2>3 DEF AtMost
<1>2. Elements(e) \subseteq Elements(h) \cup V
  BY DEF Gains
<1> QED
  BY <1>1, <1>2 DEF Gains

\* An entry nearer than the farthest displaces it and nothing else.
LEMMA GainsOne ==
  ASSUME NEW h \in Heaps, HeapOK(h), NEW c \in Entries, Within(h, c.dist),
         NEW C \in [Nat -> Nat], \A D \in Nat : C[D] = (IF c.dist <= D THEN 1 ELSE 0), NEW T, c \in T
  PROVE  Gains(push(IF full(h) THEN pop(h) ELSE h, c), h, C, T)
<1>0. KNearest \in Nat /\ KNearest # 0 /\ c.dist \in Nat
  BY KNearestIs DEF Entries
<1>1. /\ Len(h) \in Nat /\ h \in Seq(Entries)
      /\ \A D \in Nat : Cnt(h, D) \in Nat /\ Cnt(h, D) <= Len(h)
      /\ full(h) => Len(h) = KNearest /\ h # <<>> /\ h[1] \in Entries /\ h[1].dist \in Nat
      /\ full(h) => \A D \in Nat : h[1].dist <= D => Cnt(h, D) = KNearest
  BY HeapCounts
<1>2. \A D \in Nat : c \in EntriesTo(D) <=> c.dist <= D
  BY DEF EntriesTo
<1>3. CASE ~full(h)
  <2> DEFINE g == push(h, c)
  <2>1. Len(h) < KNearest /\ Len(h) < 2 * KNearest
    <3>1. ~(Len(h) >= KNearest)
      BY <1>3 DEF full
    <3>2. Len(h) \in Nat
      BY <1>1
    <3> QED
      BY <1>0, <3>1, <3>2
  <2>2. /\ g \in Heaps /\ HeapOrder(g) /\ Len(g) = Len(h) + 1
        /\ \A S : CountIn(g, S) = CountIn(h, S) + Count(c \in S)
    BY <2>1, PushHeap DEF HeapOK
  <2> HIDE DEF g
  <2>3. HeapOK(g)
    BY <1>0, <1>1, <2>1, <2>2 DEF HeapOK
  <2>4. ASSUME NEW D \in Nat PROVE Cnt(g, D) = AtMost(Cnt(h, D) + C[D])
    <3>1. CountIn(g, EntriesTo(D)) = CountIn(h, EntriesTo(D)) + Count(c \in EntriesTo(D))
      BY <2>2
    <3>2. Count(c \in EntriesTo(D)) = C[D]
      BY <1>2 DEF Count
    <3>3. Cnt(g, D) = Cnt(h, D) + C[D] /\ C[D] \in {0, 1}
      BY <3>1, <3>2 DEF Cnt, Count
    <3>4. Cnt(h, D) \in Nat /\ Cnt(h, D) <= Len(h)
      BY <1>1
    <3> DEFINE x == Cnt(h, D)
               y == C[D]
               l == Len(h)
    <3>a. x \in Nat /\ x <= l /\ l \in Nat /\ l < KNearest /\ y \in {0, 1}
      BY <1>1, <2>1, <3>3, <3>4
    <3> HIDE DEF x, y, l
    <3>5. x \in Nat /\ y \in {0, 1} /\ x + y <= KNearest
      BY <1>0, <3>a
    <3>6. AtMost(x + y) = x + y
      BY <3>5 DEF AtMost
    <3> QED
      BY <3>3, <3>6 DEF x, y
  <2>5. Elements(g) \subseteq Elements(h) \cup T
    <3> SUFFICES ASSUME NEW x \in Elements(g), x # c PROVE x \in Elements(h)
      OBVIOUS
    <3>1. CountIn(g, {x}) # 0
      <4>1. g \in Seq(Entries)
        BY <2>2, HeapIs
      <4> QED
        BY <4>1, ElementsAre
    <3>2. CountIn(g, {x}) = CountIn(h, {x}) + Count(c \in {x})
      BY <2>2
    <3>3. Count(c \in {x}) = 0
      BY DEF Count
    <3>4. CountIn(h, {x}) \in Nat
      <4>1. h \in Seq(Entries) /\ Len(h) \in Nat
        BY <1>1
      <4>2. CountIn(h, {x}) \in 0 .. Len(h)
        BY <4>1, PlacesAre
      <4> QED
        BY <4>1, <4>2
    <3>5. CountIn(g, {x}) = CountIn(h, {x}) + 0
      <4> DEFINE z == Count(c \in {x})
      <4>1. CountIn(g, {x}) = CountIn(h, {x}) + z /\ z = 0
        BY <3>2, <3>3, Zenon
      <4> HIDE DEF z
      <4> QED
        BY <4>1
    <3>6. CountIn(h, {x}) # 0
      BY <3>1, <3>4, <3>5
    <3> QED
      BY <1>1, <3>6, ElementsAre
  <2>6. Gains(g, h, C, T)
    BY <2>3, <2>4, <2>5 DEF Gains
  <2> QED
    BY <1>3, <2>6 DEF g
<1>4. CASE full(h)
  <2> DEFINE e == pop(h)
             g == push(e, c)
  <2>1. Len(h) = KNearest /\ h # <<>> /\ h[1].dist \in Nat /\ c.dist < h[1].dist
    BY <1>1, <1>4 DEF Within
  <2>2. /\ e \in Heaps /\ HeapOrder(e) /\ Len(e) = Len(h) - 1
        /\ \A S : CountIn(h, S) = CountIn(e, S) + Count(h[1] \in S)
    BY <2>1, PopHeap DEF HeapOK
  <2> HIDE DEF e
  <2>3. Len(e) \in Nat /\ Len(e) < KNearest /\ Len(e) < 2 * KNearest /\ Len(e) = KNearest - 1
    BY <1>0, <1>1, <2>1, <2>2
  <2>4. /\ g \in Heaps /\ HeapOrder(g) /\ Len(g) = Len(e) + 1
        /\ \A S : CountIn(g, S) = CountIn(e, S) + Count(c \in S)
    BY <2>2, <2>3, PushHeap
  <2> HIDE DEF g
  <2>5. HeapOK(g)
    BY <1>0, <2>3, <2>4 DEF HeapOK
  <2>6. e \in Seq(Entries) /\ g \in Seq(Entries)
    BY <2>2, <2>4, HeapIs
  <2>7. ASSUME NEW D \in Nat PROVE Cnt(g, D) = AtMost(Cnt(h, D) + C[D])
    <3>1. CountIn(g, EntriesTo(D)) = CountIn(e, EntriesTo(D)) + Count(c \in EntriesTo(D))
      BY <2>4
    <3>2. Count(c \in EntriesTo(D)) = C[D]
      BY <1>2 DEF Count
    <3>3. Cnt(g, D) = Cnt(e, D) + C[D] /\ C[D] \in {0, 1} /\ (C[D] = 1 <=> c.dist <= D)
      BY <3>1, <3>2 DEF Cnt, Count
    <3>4. CountIn(h, EntriesTo(D)) = CountIn(e, EntriesTo(D)) + Count(h[1] \in EntriesTo(D))
      BY <2>2
    <3>5. h[1] \in EntriesTo(D) <=> h[1].dist <= D
      BY <1>1, <1>4 DEF EntriesTo
    <3>6. Cnt(h, D) = Cnt(e, D) + Count(h[1].dist <= D)
      BY <3>4, <3>5 DEF Cnt, Count
    <3>7. Cnt(e, D) \in Nat /\ Cnt(e, D) <= Len(e)
      <4>1. CountIn(e, EntriesTo(D)) \in 0 .. Len(e)
        BY <2>6, PlacesAre
      <4> QED
        BY <2>3, <4>1 DEF Cnt
    <3>8. CASE h[1].dist <= D
      <4>1. Cnt(h, D) = KNearest /\ Cnt(h, D) = Cnt(e, D) + 1
        BY <1>1, <1>4, <3>6, <3>8 DEF Count
      <4>2. C[D] = 1
        BY <1>0, <2>1, <3>3, <3>8
      <4> QED
        BY <1>0, <3>3, <3>7, <4>1, <4>2 DEF AtMost
    <3>9. CASE ~(h[1].dist <= D)
      <4>1. Cnt(h, D) = Cnt(e, D)
        BY <3>6, <3>7, <3>9 DEF Count
      <4> DEFINE x == Cnt(e, D)
                 y == C[D]
                 l == Len(e)
      <4>a. x \in Nat /\ x <= l /\ l \in Nat /\ l < KNearest /\ y \in {0, 1}
        BY <2>3, <3>3, <3>7
      <4> HIDE DEF x, y, l
      <4>2. x \in Nat /\ y \in {0, 1} /\ x + y <= KNearest
        BY <1>0, <4>a
      <4>3. AtMost(x + y) = x + y
        BY <4>2 DEF AtMost
      <4> QED
        BY <3>3, <4>1, <4>3 DEF x, y
    <3> QED
      BY <3>8, <3>9
  <2>8. Elements(g) \subseteq Elements(h) \cup T
    <3> SUFFICES ASSUME NEW x \in Elements(g), x # c PROVE x \in Elements(h)
      OBVIOUS
    <3>1. CountIn(g, {x}) # 0
      BY <2>6, ElementsAre
    <3>2. CountIn(g, {x}) = CountIn(e, {x}) + Count(c \in {x})
      BY <2>4
    <3>3. Count(c \in {x}) = 0
      BY DEF Count
    <3>4. CountIn(e, {x}) \in Nat
      BY <2>6, PlacesAre
    <3>5. CountIn(h, {x}) = CountIn(e, {x}) + Count(h[1] \in {x})
      BY <2>2
    <3>6. CountIn(h, {x}) # 0
      BY <3>1, <3>2, <3>3, <3>4, <3>5 DEF Count
    <3> QED
      BY <1>1, <3>6, ElementsAre
  <2>9. Gains(g, h, C, T)
    BY <2>5, <2>7, <2>8 DEF Gains
  <2> QED
    BY <1>4, <2>9 DEF g, e
<1> QED
  BY <1>3, <1>4

-----------------------------------------------------------------------------
(* What a search of a subtree promises.                                    *)

Near(p, max, D) == {q \in Points : calc_dist(p, q) <= D /\ calc_dist(p, q) <= max}
NearIn(n, p, max) == [D \in Nat |-> Num(n, Near(p, max, D))]
Offered(n, p) == {c \in Entries : c.point \in Valid(n) /\ c.dist = calc_dist(p, c.point)}

SearchRight(n, p, max, k) ==
  \A h \in Heaps : HeapOK(h) =>
    LET d == Search(n, p, max, h)
    IN  /\ d.node \in TreesTo[k] /\ d.node \in Good /\ Alike(d.node, n)
        /\ Gains(d.heap, h, NearIn(n, p, max), Offered(n, p))

\* The valid points a subtree offers, by their distance.
LEMMA NearInIs ==
  ASSUME NEW n \in Trees, NEW p \in [Axes -> Int], NEW max \in Nat
  PROVE  /\ NearIn(n, p, max) \in [Nat -> Nat]
         /\ \A D \in Nat : NearIn(n, p, max)[D] # 0 =>
              \E q \in Valid(n) : /\ calc_dist(p, q) <= D /\ calc_dist(p, q) <= max
                                  /\ calc_dist(p, q) \in Nat
<1>1. \A D \in Nat : Num(n, Near(p, max, D)) \in Nat
  BY NumIs
<1>2. NearIn(n, p, max) \in [Nat -> Nat]
  BY <1>1 DEF NearIn
<1>3. ASSUME NEW D \in Nat, NearIn(n, p, max)[D] # 0
      PROVE  \E q \in Valid(n) : /\ calc_dist(p, q) <= D /\ calc_dist(p, q) <= max
                                 /\ calc_dist(p, q) \in Nat
  <2>1. Num(n, Near(p, max, D)) # 0
    BY <1>3 DEF NearIn
  <2>2. Valid(n) \cap Near(p, max, D) # {}
    BY <2>1, NumNone
  <2>3. PICK q \in Valid(n) : q \in Near(p, max, D)
    BY <2>2
  <2>4. q \in [Axes -> Int]
    BY <2>3, PointsAre DEF Near
  <2>5. calc_dist(p, q) \in Nat
    BY <2>4, DistIs
  <2> QED
    BY <2>3, <2>5 DEF Near
<1> QED
  BY <1>2, <1>3

\* A subtree is passed over only when none of its points would be taken.
LEMMA PassedOver ==
  ASSUME NEW s \in Good, NEW p \in [Axes -> Int], NEW max \in Nat, NEW h \in Heaps, HeapOK(h),
         ~Within(h, DistTo(s, p))
  PROVE  Gains(h, h, NearIn(s, p, max), Offered(s, p))
<1>1. s \in Trees
  BY GoodIs
<1> DEFINE C == NearIn(s, p, max)
<1>2. C \in [Nat -> Nat]
  BY <1>1, NearInIs
<1>3. full(h) /\ ~(DistTo(s, p) < h[1].dist) /\ h[1].dist \in Nat
  BY HeapCounts DEF Within
<1>4. ASSUME NEW D \in Nat, C[D] # 0 PROVE h[1].dist <= D
  <2>1. PICK q \in Valid(s) : calc_dist(p, q) <= D /\ calc_dist(p, q) \in Nat
    BY <1>1, <1>4, NearInIs
  <2>2. s # Null
    BY <2>1, ValidIs
  <2>3. DistTo(s, p) \in Nat /\ DistTo(s, p) <= calc_dist(p, q)
    BY <2>2, BoxDistIs DEF DistTo
  <2> QED
    BY <1>3, <2>1, <2>3
<1>5. \A D \in Nat : C[D] = 0 \/ (full(h) /\ h[1].dist <= D)
  BY <1>3, <1>4
<1> HIDE DEF C
<1>6. Gains(h, h, C, Offered(s, p))
  BY <1>2, <1>5, GainsNothing
<1> QED
  BY <1>6 DEF C

\* Nor one that has no point near enough.
LEMMA StoppedAt ==
  ASSUME NEW n \in Good, NEW p \in [Axes -> Int], NEW max \in Nat, NEW h \in Heaps, HeapOK(h),
         Stops(n, p, max)
  PROVE  Gains(h, h, NearIn(n, p, max), Offered(n, p))
<1>1. n \in Trees
  BY GoodIs
<1> DEFINE C == NearIn(n, p, max)
<1>2. C \in [Nat -> Nat]
  BY <1>1, NearInIs
<1>3. ASSUME NEW D \in Nat PROVE C[D] = 0
  <2> SUFFICES ASSUME C[D] # 0 PROVE FALSE
    OBVIOUS
  <2>1. PICK q \in Valid(n) : calc_dist(p, q) <= max /\ calc_dist(p, q) \in Nat
    BY <1>1, NearInIs
  <2>2. n # Null
    BY <2>1, ValidIs
  <2>3. ~n.tree_deleted
    BY <2>1, <2>2, GoodIs DEF Local, SumsRight
  <2>4. calc_box_dist(n, p) \in Nat /\ calc_box_dist(n, p) <= calc_dist(p, q)
    BY <2>1, <2>2, BoxDistIs
  <2>5. max <= max * max /\ max * max \in Nat
    <3>1. CASE max = 0
      BY <3>1
    <3>2. CASE max >= 1
      BY <3>2
    <3> QED
      BY <3>1, <3>2
  <2>6. calc_box_dist(n, p) > max * max
    BY <2>2, <2>3 DEF Stops
  <2> QED
    BY <2>1, <2>4, <2>5, <2>6
<1> HIDE DEF C
<1>4. Gains(h, h, C, Offered(n, p))
  BY <1>2, <1>3, GainsNothing
<1> QED
  BY <1>4 DEF C

OwnNear(n, p, max, D) == ~n.point_deleted /\ n.point \in Near(p, max, D)
OwnIn(n, p, max) == [D \in Nat |-> IF OwnNear(n, p, max, D) THEN 1 ELSE 0]

\* A node's own point is taken when it is near enough.
LEMMA MineGains ==
  ASSUME NEW n \in Trees, n # Null, NEW p \in [Axes -> Int], NEW max \in Nat, NEW h \in Heaps, HeapOK(h)
  PROVE  Gains(Mine(n, h, p, max), h, OwnIn(n, p, max), Offered(n, p))
<1> DEFINE c == OwnEntry(n, p)
           C == OwnIn(n, p, max)
<1>1. /\ c \in Entries /\ c.point = n.point /\ c.dist = OwnDist(n, p) /\ c.dist \in Nat
      /\ c.dist = calc_dist(p, n.point)
  BY MineTyped
<1>2. n.point \in Points /\ n.point_deleted \in BOOLEAN /\ Push_Down(n).point_deleted = n.point_deleted
  <2>1. n \in NodesOver(Trees)
    BY NodalIs DEF Nodal
  <2>2. Push_Down(n).point_deleted = n.point_deleted
    BY <2>1, PushIs
  <2> QED
    BY <2>2, TreeFields
<1>3. Mine(n, h, p, max) = IF TakenFrom(n, h, p, max) THEN push(IF full(h) THEN pop(h) ELSE h, c) ELSE h
  BY Zenon DEF Mine
<1>4. TakenFrom(n, h, p, max) <=> ~n.point_deleted /\ c.dist <= max /\ Within(h, c.dist)
  BY <1>1, <1>2, Zenon DEF TakenFrom
<1>5. \A D \in Nat : OwnNear(n, p, max, D) <=> ~n.point_deleted /\ c.dist <= D /\ c.dist <= max
  BY <1>1, <1>2, Zenon DEF OwnNear, Near
<1>6. C \in [Nat -> Nat] /\ \A D \in Nat : C[D] = IF OwnNear(n, p, max, D) THEN 1 ELSE 0
  BY DEF OwnIn
<1> HIDE DEF c, C
<1>7. CASE TakenFrom(n, h, p, max)
  <2>1. ~n.point_deleted /\ c.dist <= max /\ Within(h, c.dist)
    BY <1>4, <1>7
  <2>2. \A D \in Nat : C[D] = IF c.dist <= D THEN 1 ELSE 0
    BY <1>5, <1>6, <2>1
  <2>3. c \in Offered(n, p)
    <3>1. n.point \in Valid(n)
      BY <2>1, ValidIs DEF OwnValid
    <3> QED
      BY <1>1, <3>1 DEF Offered
  <2>4. Gains(push(IF full(h) THEN pop(h) ELSE h, c), h, C, Offered(n, p))
    BY <1>1, <1>6, <2>1, <2>2, <2>3, GainsOne
  <2> QED
    BY <1>3, <1>7, <2>4 DEF C
<1>8. CASE ~TakenFrom(n, h, p, max)
  <2>1. ASSUME NEW D \in Nat, C[D] # 0 PROVE full(h) /\ h[1].dist <= D
    <3>1. ~n.point_deleted /\ c.dist <= D /\ c.dist <= max
      BY <1>5, <1>6, <2>1
    <3>2. ~Within(h, c.dist)
      BY <1>4, <1>8, <3>1
    <3>3. full(h) /\ ~(c.dist < h[1].dist) /\ h[1].dist \in Nat
      BY <3>2, HeapCounts DEF Within
    <3> QED
      BY <1>1, <3>1, <3>3
  <2>2. Gains(h, h, C, Offered(n, p))
    BY <1>6, <2>1, GainsNothing
  <2> QED
    BY <1>3, <1>8, <2>2 DEF C
<1> QED
  BY <1>7, <1>8

EnterRight(d, s, g, p, max, k) ==
  /\ d.node \in TreesTo[k] /\ d.node \in Good /\ Alike(d.node, s)
  /\ Gains(d.heap, g, NearIn(s, p, max), Offered(s, p))
  /\ d.heap \in Heaps /\ HeapOK(d.heap)

\* A son passed over, by its range, could have gained nothing (1039-1171).
LEMMA EnterGains ==
  ASSUME NEW k \in 0 .. MaxHeight, NEW s \in TreesTo[k], s \in Good, NEW p \in [Axes -> Int],
         NEW max \in Nat, SearchRight(s, p, max, k), NEW g \in Heaps, HeapOK(g)
  PROVE  EnterRight(Enter(SearchSon(s, p, max), s, DistTo(s, p), g), s, g, p, max, k)
<1> DEFINE d == Enter(SearchSon(s, p, max), s, DistTo(s, p), g)
<1>1. CASE Within(g, DistTo(s, p))
  <2>1. d = Search(s, p, max, g)
    BY <1>1 DEF Enter, SearchSon
  <2>2. /\ d.node \in TreesTo[k] /\ d.node \in Good /\ Alike(d.node, s)
        /\ Gains(d.heap, g, NearIn(s, p, max), Offered(s, p))
    BY <2>1, Zenon DEF SearchRight
  <2> HIDE DEF d
  <2>3. d.heap \in Heaps /\ HeapOK(d.heap)
    BY <2>2 DEF Gains, HeapOK
  <2>4. EnterRight(d, s, g, p, max, k)
    BY <2>2, <2>3, Zenon DEF EnterRight
  <2> QED
    BY <2>4 DEF d
<1>2. CASE ~Within(g, DistTo(s, p))
  <2>1. d.node = s /\ d.heap = g
    BY <1>2 DEF Enter
  <2> HIDE DEF d
  <2>2. Gains(g, g, NearIn(s, p, max), Offered(s, p))
    BY <1>2, PassedOver
  <2>3. Alike(s, s)
    BY AlikeSelf
  <2>4. EnterRight(d, s, g, p, max, k)
    BY <2>1, <2>2, <2>3, Zenon DEF EnterRight
  <2> QED
    BY <2>4 DEF d
<1> QED
  BY <1>1, <1>2

\* Own point and sons, in either order of the sons.
LEMMA GainsAll ==
  ASSUME NEW n \in Trees, n # Null, NEW p \in [Axes -> Int], NEW max \in Nat,
         NEW a \in {LeftSon(n), RightSon(n)}, NEW b \in {LeftSon(n), RightSon(n)},
         {a, b} = {LeftSon(n), RightSon(n)}, a = b => LeftSon(n) = RightSon(n),
         NEW h \in Heaps, HeapOK(h),
         NEW e, Gains(e, h, OwnIn(n, p, max), Offered(n, p)),
         NEW f, Gains(f, e, NearIn(a, p, max), Offered(a, p)),
         NEW g, Gains(g, f, NearIn(b, p, max), Offered(b, p))
  PROVE  Gains(g, h, NearIn(n, p, max), Offered(n, p))
<1>1. a \in Trees /\ b \in Trees
  BY SonsInTrees
<1>2. /\ NearIn(a, p, max) \in [Nat -> Nat] /\ NearIn(b, p, max) \in [Nat -> Nat]
      /\ NearIn(n, p, max) \in [Nat -> Nat]
  BY <1>1, NearInIs
<1>3. OwnIn(n, p, max) \in [Nat -> Nat]
  BY DEF OwnIn
<1>4. Offered(a, p) \subseteq Offered(n, p) /\ Offered(b, p) \subseteq Offered(n, p)
  <2>1. Valid(a) \subseteq Valid(n) /\ Valid(b) \subseteq Valid(n)
    BY ValidIs
  <2> QED
    BY <2>1 DEF Offered
<1> DEFINE A == OwnIn(n, p, max)
           B == NearIn(a, p, max)
           C == NearIn(b, p, max)
           N == NearIn(n, p, max)
           M == [D \in Nat |-> A[D] + B[D]]
<1>5. ASSUME NEW D \in Nat PROVE N[D] = M[D] + C[D]
  <2>1. Num(n, Near(p, max, D)) = Count(~n.point_deleted /\ n.point \in Near(p, max, D))
          + Num(LeftSon(n), Near(p, max, D)) + Num(RightSon(n), Near(p, max, D))
    BY NumIs
  <2>2. Count(~n.point_deleted /\ n.point \in Near(p, max, D)) = A[D]
    BY DEF Count, OwnIn, OwnNear
  <2>3. /\ B[D] = Num(a, Near(p, max, D)) /\ C[D] = Num(b, Near(p, max, D))
        /\ N[D] = Num(n, Near(p, max, D)) /\ M[D] = A[D] + B[D]
    BY DEF NearIn
  <2>4. A[D] \in Nat /\ B[D] \in Nat /\ C[D] \in Nat
    BY <1>2, <1>3
  <2> HIDE DEF A, B, C, M, N
  <2>5. N[D] = A[D] + Num(LeftSon(n), Near(p, max, D)) + Num(RightSon(n), Near(p, max, D))
    BY <2>1, <2>2, <2>3, Zenon
  <2>6. CASE a = LeftSon(n) /\ b = RightSon(n)
    <3>1. N[D] = A[D] + B[D] + C[D]
      BY <2>3, <2>5, <2>6, Zenon
    <3> QED
      BY <2>3, <3>1
  <2>7. CASE a = RightSon(n) /\ b = LeftSon(n)
    <3>1. N[D] = A[D] + C[D] + B[D]
      BY <2>3, <2>5, <2>7, Zenon
    <3> QED
      BY <2>3, <2>4, <3>1
  <2> QED
    BY <2>6, <2>7
<1>6. M \in [Nat -> Nat] /\ \A D \in Nat : M[D] = A[D] + B[D]
  BY <1>2, <1>3
<1> HIDE DEF A, B, C, M, N
<1>7. Gains(f, h, M, Offered(n, p))
  BY <1>2, <1>3, <1>4, <1>6, GainsBoth DEF A, B
<1>8. Gains(g, h, N, Offered(n, p))
  BY <1>2, <1>4, <1>5, <1>6, <1>7, GainsBoth DEF C, N
<1> QED
  BY <1>8 DEF N

\* When both sons are searched rightly, in either order, so is the node.
LEMMA SearchStepRight ==
  ASSUME NEW p \in [Axes -> Int], NEW max \in Nat, NEW k \in 0 .. MaxHeight - 1,
         NEW n \in NodesOver(TreesTo[k]), n \in Good,
         SearchRight(LeftSon(n), p, max, k), SearchRight(RightSon(n), p, max, k)
  PROVE  SearchRight(n, p, max, k + 1)
<1>1. /\ n \in Trees /\ n # Null /\ k \in Nat /\ k \in 0 .. MaxHeight /\ k + 1 \in 0 .. MaxHeight
      /\ n \in TreesTo[k + 1] /\ LeftSon(n) \in TreesTo[k] /\ RightSon(n) \in TreesTo[k]
  BY NodeInTrees
<1>2. LeftSon(n) \in Good /\ RightSon(n) \in Good
  BY <1>1, GoodIs
<1> SUFFICES ASSUME NEW h \in Heaps, HeapOK(h)
             PROVE  LET d == Search(n, p, max, h)
                    IN  /\ d.node \in TreesTo[k + 1] /\ d.node \in Good /\ Alike(d.node, n)
                        /\ Gains(d.heap, h, NearIn(n, p, max), Offered(n, p))
  BY Zenon DEF SearchRight
<1> DEFINE d == Search(n, p, max, h)
           L == LeftSon(n)
           R == RightSon(n)
           v == SearchSon(L, p, max)
           w == SearchSon(R, p, max)
           m == Mine(n, h, p, max)
<1>3. d = IF Stops(n, p, max) THEN [node |-> n, heap |-> h]
          ELSE IF RightFirst(n, m, p) THEN ByRight(n, m, p, v, w) ELSE ByLeft(n, m, p, v, w)
  <2>1. d = SearchStep(n, h, p, max, v, w)
    BY <1>1, SearchIs
  <2> QED
    BY <2>1, Zenon DEF SearchStep
<1> HIDE DEF d
<1>4. Gains(m, h, OwnIn(n, p, max), Offered(n, p)) /\ m \in Heaps /\ HeapOK(m)
  <2>1. Gains(m, h, OwnIn(n, p, max), Offered(n, p))
    BY <1>1, MineGains
  <2> QED
    BY <2>1 DEF Gains, HeapOK
<1> HIDE DEF m
<1> SUFFICES /\ d.node \in TreesTo[k + 1] /\ d.node \in Good /\ Alike(d.node, n)
             /\ Gains(d.heap, h, NearIn(n, p, max), Offered(n, p))
  BY Zenon DEF d
<1>5. CASE Stops(n, p, max)
  <2>1. d.node = n /\ d.heap = h
    BY <1>3, <1>5
  <2>2. Gains(h, h, NearIn(n, p, max), Offered(n, p))
    BY <1>5, StoppedAt
  <2>3. Alike(n, n)
    BY AlikeSelf
  <2> QED
    BY <1>1, <2>1, <2>2, <2>3, Zenon
<1>6. CASE ~Stops(n, p, max) /\ RightFirst(n, m, p)
  <2> DEFINE onRight == Enter(w, R, DistTo(R, p), m)
             onLeft == Enter(v, L, DistTo(L, p), onRight.heap)
  <2>1. EnterRight(onRight, R, m, p, max, k)
    BY <1>1, <1>2, <1>4, EnterGains
  <2>2. onRight.heap \in Heaps /\ HeapOK(onRight.heap)
    BY <2>1, Zenon DEF EnterRight
  <2>3. EnterRight(onLeft, L, onRight.heap, p, max, k)
    <3> HIDE DEF onRight
    <3> QED
      BY <1>1, <1>2, <2>2, EnterGains
  <2>4. d = [node |-> PushedNode(n, onLeft.node, onRight.node), heap |-> onLeft.heap]
    BY <1>3, <1>6, Zenon DEF ByRight
  <2> HIDE DEF onLeft, onRight, v, w, L, R
  <2>5. /\ onRight.node \in TreesTo[k] /\ onRight.node \in Good /\ Alike(onRight.node, R)
        /\ onLeft.node \in TreesTo[k] /\ onLeft.node \in Good /\ Alike(onLeft.node, L)
    BY <2>1, <2>3, Zenon DEF EnterRight
  <2>6. d.node = PushedNode(n, onLeft.node, onRight.node) /\ d.heap = onLeft.heap
    BY <2>4
  <2>7. d.node \in TreesTo[k + 1] /\ d.node \in Good /\ Alike(d.node, n)
    BY <2>5, <2>6, Regraft DEF L, R
  <2>8. Gains(onRight.heap, m, NearIn(R, p, max), Offered(R, p))
        /\ Gains(onLeft.heap, onRight.heap, NearIn(L, p, max), Offered(L, p))
    BY <2>1, <2>3, Zenon DEF EnterRight
  <2>9. Gains(onLeft.heap, h, NearIn(n, p, max), Offered(n, p))
    BY <1>1, <1>4, <2>8, GainsAll DEF L, R
  <2> QED
    BY <2>6, <2>7, <2>9, Zenon
<1>7. CASE ~Stops(n, p, max) /\ ~RightFirst(n, m, p)
  <2> DEFINE onLeft == Enter(v, L, DistTo(L, p), m)
             onRight == Enter(w, R, DistTo(R, p), onLeft.heap)
  <2>1. EnterRight(onLeft, L, m, p, max, k)
    BY <1>1, <1>2, <1>4, EnterGains
  <2>2. onLeft.heap \in Heaps /\ HeapOK(onLeft.heap)
    BY <2>1, Zenon DEF EnterRight
  <2>3. EnterRight(onRight, R, onLeft.heap, p, max, k)
    <3> HIDE DEF onLeft
    <3> QED
      BY <1>1, <1>2, <2>2, EnterGains
  <2>4. d = [node |-> PushedNode(n, onLeft.node, onRight.node), heap |-> onRight.heap]
    BY <1>3, <1>7, Zenon DEF ByLeft
  <2> HIDE DEF onLeft, onRight, v, w, L, R
  <2>5. /\ onRight.node \in TreesTo[k] /\ onRight.node \in Good /\ Alike(onRight.node, R)
        /\ onLeft.node \in TreesTo[k] /\ onLeft.node \in Good /\ Alike(onLeft.node, L)
    BY <2>1, <2>3, Zenon DEF EnterRight
  <2>6. d.node = PushedNode(n, onLeft.node, onRight.node) /\ d.heap = onRight.heap
    BY <2>4
  <2>7. d.node \in TreesTo[k + 1] /\ d.node \in Good /\ Alike(d.node, n)
    BY <2>5, <2>6, Regraft DEF L, R
  <2>8. Gains(onLeft.heap, m, NearIn(L, p, max), Offered(L, p))
        /\ Gains(onRight.heap, onLeft.heap, NearIn(R, p, max), Offered(R, p))
    BY <2>1, <2>3, Zenon DEF EnterRight
  <2>9. Gains(onRight.heap, h, NearIn(n, p, max), Offered(n, p))
    BY <1>1, <1>4, <2>8, GainsAll DEF L, R
  <2> QED
    BY <2>6, <2>7, <2>9, Zenon
<1> QED
  BY <1>5, <1>6, <1>7

\* A search finds the nearest of the valid points and leaves a tree in order with
\* the same points.
LEMMA SearchGood ==
  ASSUME NEW p \in [Axes -> Int], NEW max \in Nat
  PROVE  \A k \in 0 .. MaxHeight : \A n \in TreesTo[k] : n \in Good => SearchRight(n, p, max, k)
<1> DEFINE E == {k \in 0 .. MaxHeight : \A n \in TreesTo[k] : n \in Good => SearchRight(n, p, max, k)}
<1>0. \A k \in Nat : SearchRight(Null, p, max, k)
  <2> SUFFICES ASSUME NEW k \in Nat, NEW h \in Heaps, HeapOK(h)
               PROVE  LET d == Search(Null, p, max, h)
                      IN  /\ d.node \in TreesTo[k] /\ d.node \in Good /\ Alike(d.node, Null)
                          /\ Gains(d.heap, h, NearIn(Null, p, max), Offered(Null, p))
    BY Zenon DEF SearchRight
  <2> DEFINE d == Search(Null, p, max, h)
  <2>1. d.node = Null /\ d.heap = h
    BY SearchIs
  <2>2. Null \in TreesTo[k] /\ Null \in Good /\ Alike(Null, Null)
    BY TreesRise, GoodIs, AlikeSelf
  <2>3. Gains(h, h, NearIn(Null, p, max), Offered(Null, p))
    <3>1. Stops(Null, p, max)
      BY DEF Stops
    <3> QED
      BY <2>2, <3>1, StoppedAt
  <2> QED
    BY <2>1, <2>2, <2>3, Zenon
<1>1. 0 \in E
  <2>1. TreesTo[0] = {Null}
    BY TreesToIs
  <2>2. 0 \in 0 .. MaxHeight
    BY HeightIs
  <2> QED
    BY <1>0, <2>1, <2>2
<1>2. ASSUME NEW k \in 0 .. MaxHeight - 1, k \in E PROVE k + 1 \in E
  <2>1. k + 1 \in 0 .. MaxHeight /\ k \in 0 .. MaxHeight /\ k \in Nat /\ k + 1 \in Nat
    BY HeightIs
  <2> SUFFICES ASSUME NEW n \in TreesTo[k + 1], n \in Good
               PROVE  SearchRight(n, p, max, k + 1)
    BY <2>1
  <2>2. CASE n = Null
    BY <1>0, <2>1, <2>2
  <2>3. CASE n # Null
    <3>1. n \in NodesOver(TreesTo[k]) /\ LeftSon(n) \in TreesTo[k] /\ RightSon(n) \in TreesTo[k]
      BY <2>1, <2>3, PushTree
    <3>2. LeftSon(n) \in Good /\ RightSon(n) \in Good
      BY <2>3, GoodIs
    <3>3. SearchRight(LeftSon(n), p, max, k) /\ SearchRight(RightSon(n), p, max, k)
      BY <1>2, <3>1, <3>2
    <3> QED
      BY <3>1, <3>3, SearchStepRight
  <2> QED
    BY <2>2, <2>3
<1>3. \A k \in 0 .. MaxHeight : k \in E
  <2> HIDE DEF E
  <2> QED
    BY <1>1, <1>2, HeightIs, Induction
<1> QED
  BY <1>3

-----------------------------------------------------------------------------
(* Nearest_Points.                                                         *)

NearestFrom(f) == f = [h \in Heaps |-> IF h = <<>> THEN <<>> ELSE Append(f[pop(h)], h[1])]

\* An entry appended is counted.
LEMMA CountAppend ==
  ASSUME NEW X, NEW s \in Seq(X), NEW c \in X
  PROVE  /\ Append(s, c) \in Seq(X) /\ Len(s) \in Nat /\ Len(Append(s, c)) = Len(s) + 1
         /\ \A i \in 1 .. Len(s) : Append(s, c)[i] = s[i]
         /\ Append(s, c)[Len(s) + 1] = c
         /\ \A S : CountIn(Append(s, c), S) = CountIn(s, S) + Count(c \in S)
<1>1. /\ Append(s, c) \in Seq(X) /\ Len(s) \in Nat /\ Len(Append(s, c)) = Len(s) + 1
      /\ \A i \in 1 .. Len(s) : Append(s, c)[i] = s[i]
      /\ Append(s, c)[Len(s) + 1] = c
  OBVIOUS
<1>2. ASSUME NEW S PROVE CountIn(Append(s, c), S) = CountIn(s, S) + Count(c \in S)
  <2> DEFINE g == Append(s, c)
             q == <<c>>
  <2>1. g = s \o q /\ q \in Seq(X)
    OBVIOUS
  <2>2. CountIn(q, S) = Count(c \in S)
    BY CountOne
  <2> HIDE DEF q, g
  <2>3. CountIn(s \o q, S) = CountIn(s, S) + CountIn(q, S)
    BY <2>1, CountConcat
  <2>4. CountIn(g, S) = CountIn(s, S) + Count(c \in S)
    BY <2>1, <2>2, <2>3, Zenon
  <2> QED
    BY <2>4 DEF g
<1> QED
  BY <1>1, <1>2

\* The loop that empties the heap ends.
LEMMA NearestExists == \E f \in [Heaps -> Heaps] : NearestFrom(f)
<1> DEFINE D == [k \in Nat |-> {h \in Heaps : Len(h) <= k}]
           V == [k \in Nat |-> Heaps]
           B == [h \in Heaps |-> <<>>]
           L == [h \in Heaps |-> pop(h)]
           G == [x \in Heaps \X Heaps \X Heaps |-> IF x[1] = <<>> THEN <<>> ELSE Append(x[2], x[1][1])]
<1>0. \A h \in Heaps : Len(h) \in Nat /\ (h = <<>> <=> Len(h) = 0)
  BY HeapIs
<1>1. /\ D \in [Nat -> SUBSET Heaps] /\ V \in [Nat -> SUBSET Heaps]
      /\ \A k \in Nat : V[k] = Heaps
      /\ \A k \in Nat : \A h \in Heaps : h \in D[k] <=> Len(h) <= k
      /\ \A h \in Heaps : B[h] = <<>> /\ L[h] = pop(h)
  OBVIOUS
<1>2. \A h, v, w \in Heaps : G[<<h, v, w>>] = IF h = <<>> THEN <<>> ELSE Append(v, h[1])
  OBVIOUS
<1> HIDE DEF D, V, B, L, G
<1>3. \A h \in Heaps : \E k \in Nat : h \in D[k]
  BY <1>0, <1>1
<1>4. \A k \in Nat : D[k] \subseteq D[k + 1] /\ V[k] \subseteq V[k + 1]
  <2> TAKE k \in Nat
  <2>1. k + 1 \in Nat /\ D[k] \subseteq Heaps /\ \A h \in Heaps : Len(h) <= k => Len(h) <= k + 1
    BY <1>0, <1>1
  <2> QED
    BY <1>1, <2>1
<1>5. \A h \in D[0] : B[h] \in V[0]
  BY <1>1, HeapIs
<1>6. ASSUME NEW k \in Nat, NEW h \in D[k + 1] \ D[k]
      PROVE  h \in Heaps /\ L[h] \in D[k] /\ h # <<>> /\ h[1] \in Entries
  <2>1. k + 1 \in Nat /\ h \in Heaps /\ Len(h) <= k + 1 /\ ~(Len(h) <= k)
    BY <1>1
  <2>2. h # <<>>
    BY <1>0, <2>1
  <2>3. pop(h) \in Heaps /\ h[1] \in Entries /\ Len(pop(h)) = Len(h) - 1
    BY <2>1, <2>2, PopTyped
  <2>4. Len(pop(h)) <= k
    BY <1>0, <2>1, <2>3
  <2> QED
    BY <1>1, <2>1, <2>2, <2>3, <2>4
<1>7. ASSUME NEW k \in Nat, NEW h \in D[k + 1] \ D[k], NEW v \in V[k], NEW w \in V[k]
      PROVE  G[<<h, v, w>>] \in V[k + 1]
  <2>1. h \in Heaps /\ h # <<>> /\ h[1] \in Entries
    BY <1>6
  <2>2. v \in Heaps /\ w \in Heaps /\ V[k + 1] = Heaps /\ Heaps = Seq(Entries)
    BY <1>1, HeapIs
  <2>3. Append(v, h[1]) \in Heaps
    BY <2>1, <2>2, CountAppend
  <2> QED
    BY <1>2, <2>1, <2>2, <2>3
<1>8. Founded(Heaps, Heaps, D, V, B, L, L, G)
  <2>1. \A k \in Nat : \A h \in D[k + 1] \ D[k] : L[h] \in D[k] /\ L[h] \in D[k]
    BY <1>6
  <2>2. \A k \in Nat : \A h \in D[k + 1] \ D[k] : \A v, w \in V[k] : G[<<h, v, w>>] \in V[k + 1]
    BY <1>7
  <2> QED
    BY <1>1, <1>3, <1>4, <1>5, <2>1, <2>2, Zenon DEF Founded
<1>9. PICK f \in [Heaps -> Heaps] :
        \A h \in Heaps : f[h] = IF h \in D[0] THEN B[h] ELSE G[<<h, f[L[h]], f[L[h]]>>]
  BY <1>8, Recursion
<1>10. ASSUME NEW h \in Heaps PROVE f[h] = IF h = <<>> THEN <<>> ELSE Append(f[pop(h)], h[1])
  <2>1. h \in D[0] <=> h = <<>>
    BY <1>0, <1>1
  <2>2. pop(h) \in Heaps
    BY PopTyped
  <2>3. f[pop(h)] \in Heaps /\ L[h] = pop(h) /\ B[h] = <<>>
    BY <1>1, <1>9, <2>2
  <2> DEFINE v == f[pop(h)]
  <2>4. f[h] = IF h = <<>> THEN <<>> ELSE G[<<h, v, v>>]
    BY <1>9, <2>1, <2>3
  <2>5. v \in Heaps
    BY <2>3
  <2> HIDE DEF v
  <2>6. G[<<h, v, v>>] = IF h = <<>> THEN <<>> ELSE Append(v, h[1])
    BY <1>2, <2>5
  <2>7. f[h] = IF h = <<>> THEN <<>> ELSE Append(v, h[1])
    BY <2>4, <2>6
  <2> QED
    BY <2>7 DEF v
<1>11. NearestFrom(f)
  BY <1>10 DEF NearestFrom
<1> QED
  BY <1>9, <1>11

\* So Nearest_Points is what its loop says.
LEMMA NearestIs ==
  \A h \in Heaps : Nearest_Points[h] = IF h = <<>> THEN <<>> ELSE Append(Nearest_Points[pop(h)], h[1])
<1>1. Nearest_Points = CHOOSE f : NearestFrom(f)
  BY Zenon DEF Nearest_Points, NearestFrom
<1>2. NearestFrom(Nearest_Points)
  BY <1>1, NearestExists, Zenon
<1> QED
  BY <1>2 DEF NearestFrom

Rises(s) == \A i, j \in 1 .. Len(s) : i <= j => s[i].dist <= s[j].dist

\* Taken from the heap one by one, the farthest first, the neighbours come sorted.
LEMMA NearestSorted ==
  ASSUME NEW h \in Heaps, HeapOrder(h)
  PROVE  /\ Nearest_Points[h] \in Heaps /\ Rises(Nearest_Points[h])
         /\ \A S : CountIn(Nearest_Points[h], S) = CountIn(h, S)
<1> DEFINE Sorted(g) == /\ Nearest_Points[g] \in Heaps /\ Rises(Nearest_Points[g])
                        /\ \A S : CountIn(Nearest_Points[g], S) = CountIn(g, S)
           E == {k \in Nat : \A g \in Heaps : HeapOrder(g) /\ Len(g) <= k => Sorted(g)}
<1>0. \A g \in Heaps : Len(g) \in Nat /\ (g = <<>> <=> Len(g) = 0)
  BY HeapIs
<1>1. Sorted(<<>>)
  <2>1. <<>> \in Heaps
    BY HeapIs
  <2>2. Nearest_Points[<<>>] = <<>>
    BY <2>1, NearestIs
  <2>3. Rises(<<>>)
    BY DEF Rises
  <2> QED
    BY <2>1, <2>2, <2>3
<1>2. ASSUME NEW g \in Heaps, HeapOrder(g), g # <<>>, Sorted(pop(g)) PROVE Sorted(g)
  <2> DEFINE t == Nearest_Points[pop(g)]
             s == Nearest_Points[g]
             c == g[1]
  <2>1. /\ c \in Entries /\ pop(g) \in Heaps
        /\ \A S : CountIn(g, S) = CountIn(pop(g), S) + Count(c \in S)
    BY <1>2, PopHeap
  <2>2. s = Append(t, c)
    BY <1>2, NearestIs
  <2>3. t \in Seq(Entries) /\ Rises(t) /\ \A S : CountIn(t, S) = CountIn(pop(g), S)
    BY <1>2, HeapIs
  <2> HIDE DEF t, c
  <2>4. /\ s \in Seq(Entries) /\ Len(t) \in Nat /\ Len(s) = Len(t) + 1
        /\ \A i \in 1 .. Len(t) : s[i] = t[i]
        /\ s[Len(t) + 1] = c
        /\ \A S : CountIn(s, S) = CountIn(t, S) + Count(c \in S)
    BY <2>1, <2>2, <2>3, CountAppend
  <2>5. \A S : CountIn(s, S) = CountIn(g, S)
    <3> TAKE S
    <3>1. CountIn(s, S) = CountIn(t, S) + Count(c \in S)
      BY <2>4
    <3>2. CountIn(t, S) = CountIn(pop(g), S) /\ CountIn(g, S) = CountIn(pop(g), S) + Count(c \in S)
      BY <2>1, <2>3
    <3> QED
      BY <3>1, <3>2, Zenon
  <2>6. ASSUME NEW i \in 1 .. Len(t) PROVE t[i].dist <= c.dist /\ t[i].dist \in Nat /\ c.dist \in Nat
    <3>1. t[i] \in Entries
      BY <2>3, PlacesAre
    <3> DEFINE x == t[i]
    <3>2. x \in Elements(t)
      BY <2>3, PlacesAre DEF Elements
    <3>3. CountIn(t, {x}) # 0
      BY <2>3, <3>2, ElementsAre
    <3> HIDE DEF x
    <3>4. pop(g) \in Seq(Entries) /\ g \in Seq(Entries)
      BY <2>1, HeapIs
    <3>5. CountIn(pop(g), {x}) # 0
      BY <2>3, <3>3
    <3>6. CountIn(g, {x}) = CountIn(pop(g), {x}) + Count(c \in {x})
      BY <2>1
    <3>7. CountIn(pop(g), {x}) \in 0 .. Len(pop(g)) /\ Len(pop(g)) \in Nat
      BY <3>4, PlacesAre
    <3>8. CountIn(g, {x}) # 0
      BY <3>5, <3>6, <3>7 DEF Count
    <3>9. x \in Elements(g)
      BY <3>4, <3>8, ElementsAre
    <3>10. PICK j \in 1 .. Len(g) : x = g[j]
      BY <3>4, <3>9, PlacesAre DEF Elements
    <3>11. g[j].dist <= c.dist
      BY <1>2, <3>10, FarthestFirst DEF c
    <3> QED
      BY <2>1, <3>1, <3>10, <3>11 DEF x, Entries
  <2>7. Rises(s)
    <3> SUFFICES ASSUME NEW i \in 1 .. Len(s), NEW j \in 1 .. Len(s), i <= j
                 PROVE  s[i].dist <= s[j].dist
      BY DEF Rises
    <3>1. CASE j \in 1 .. Len(t)
      <4>1. i \in 1 .. Len(t)
        BY <2>4, <3>1
      <4>2. t[i].dist <= t[j].dist
        BY <2>3, <3>1, <4>1 DEF Rises
      <4> QED
        BY <2>4, <3>1, <4>1, <4>2
    <3>2. CASE j \notin 1 .. Len(t)
      <4>1. j = Len(t) + 1
        BY <2>4, <3>2
      <4>2. CASE i \in 1 .. Len(t)
        <5>1. t[i].dist <= c.dist
          BY <2>6, <4>2
        <5> QED
          BY <2>4, <4>1, <4>2, <5>1
      <4>3. CASE i \notin 1 .. Len(t)
        <5>1. i = j
          BY <2>4, <4>1, <4>3
        <5>2. s[i].dist = c.dist /\ c.dist \in Nat
          BY <2>1, <2>4, <4>1, <5>1 DEF Entries
        <5> QED
          BY <5>1, <5>2
      <4> QED
        BY <4>2, <4>3
    <3> QED
      BY <3>1, <3>2
  <2> QED
    BY <2>4, <2>5, <2>7, HeapIs
<1> HIDE DEF Sorted
<1>3. 0 \in E
  <2> SUFFICES ASSUME NEW g \in Heaps, Len(g) <= 0 PROVE Sorted(g)
    OBVIOUS
  <2>1. g = <<>>
    BY <1>0
  <2> QED
    BY <1>1, <2>1
<1>4. ASSUME NEW k \in Nat, k \in E PROVE k + 1 \in E
  <2> SUFFICES ASSUME NEW g \in Heaps, HeapOrder(g), Len(g) <= k + 1 PROVE Sorted(g)
    OBVIOUS
  <2>1. CASE g = <<>>
    BY <1>1, <2>1
  <2>2. CASE g # <<>>
    <3>1. pop(g) \in Heaps /\ HeapOrder(pop(g)) /\ Len(pop(g)) = Len(g) - 1
      BY <2>2, PopHeap
    <3>2. Len(pop(g)) <= k
      BY <1>0, <3>1
    <3>3. Sorted(pop(g))
      BY <1>4, <3>1, <3>2
    <3> QED
      BY <1>2, <2>2, <3>3
  <2> QED
    BY <2>1, <2>2
<1>5. \A k \in Nat : k \in E
  <2> HIDE DEF E
  <2> QED
    BY <1>3, <1>4, AllNaturals
<1>6. Len(h) \in E /\ Len(h) <= Len(h)
  BY <1>0, <1>5
<1>7. Sorted(h)
  BY <1>6
<1> QED
  BY <1>7 DEF Sorted

-----------------------------------------------------------------------------
(* What the searches find, of a tree in order.                             *)

\* Counting the points of a tree at the places flatten lists them.
LEMMA NumPlaces ==
  ASSUME NEW n \in Trees, NEW S
  PROVE  /\ flatten[n] \in Seq(Points) /\ DOMAIN flatten[n] = 1 .. Len(flatten[n])
         /\ Len(flatten[n]) \in Nat
         /\ \A i \in DOMAIN flatten[n] : flatten[n][i] \in Points /\ flatten[n][i] \in [Axes -> Int]
         /\ Num(n, S) = Cardinality({i \in DOMAIN flatten[n] : flatten[n][i] \in S})
         /\ Num(n, S) \in Nat
<1>1. flatten[n] \in Seq(Points)
  BY FlattenIs
<1>2. /\ DOMAIN flatten[n] = 1 .. Len(flatten[n]) /\ Len(flatten[n]) \in Nat
      /\ \A i \in 1 .. Len(flatten[n]) : flatten[n][i] \in Points
  BY <1>1, PlacesAre
<1>3. Num(n, S) = Cardinality({i \in DOMAIN flatten[n] : flatten[n][i] \in S})
  BY Zenon DEF Num, CountIn, Places
<1>4. Num(n, S) \in Nat
  BY NumIs
<1> QED
  BY <1>1, <1>2, <1>3, <1>4, PointsAre

\* Nearest search of one point.
ExactFor(t, p, d) ==
  LET valid == flatten[t]
      found == Nearest_Points[Search(t, p, d, <<>>).heap]
      near(e) == {i \in DOMAIN valid : calc_dist(p, valid[i]) <= Min({d, e})}
  IN  /\ \A i \in DOMAIN found : /\ found[i].point \in Elements(valid)
                                 /\ found[i].dist = calc_dist(p, found[i].point)
      /\ \A i, j \in DOMAIN found : i <= j => found[i].dist <= found[j].dist
      /\ \A q \in Points :
           LET e == calc_dist(p, q)
           IN  Cardinality({i \in DOMAIN found : found[i].dist <= e})
                 = Min({KNearest, Cardinality(near(e))})

\* A nearest search of a tree in order skips no neighbour.
LEMMA NearestRight ==
  ASSUME NEW t \in Good, NEW p \in [Axes -> Int], NEW d \in Nat
  PROVE  ExactFor(t, p, d)
<1> DEFINE valid == flatten[t]
           g == Search(t, p, d, <<>>).heap
           found == Nearest_Points[g]
           near(e) == {i \in DOMAIN valid : calc_dist(p, valid[i]) <= Min({d, e})}
<1>1. t \in Trees
  BY GoodIs
<1>2. HeapOK(<<>>) /\ <<>> \in Heaps
  BY EmptyHeap, KNearestIs DEF HeapOK
<1>3. Gains(g, <<>>, NearIn(t, p, d), Offered(t, p))
  <2>1. SearchRight(t, p, d, MaxHeight)
    BY <1>1, SearchGood, HeightIs
  <2> QED
    BY <1>2, <2>1, Zenon DEF SearchRight
<1> HIDE DEF g
<1>4. g \in Heaps /\ HeapOrder(g) /\ Elements(g) \subseteq Offered(t, p)
  <2>1. Elements(<<>>) = {}
    BY DEF Elements
  <2>2. HeapOK(g) /\ Elements(g) \subseteq Elements(<<>>) \cup Offered(t, p)
    BY <1>3, Zenon DEF Gains
  <2> QED
    BY <2>1, <2>2 DEF HeapOK
<1>5. /\ found \in Heaps /\ Rises(found) /\ \A S : CountIn(found, S) = CountIn(g, S)
  BY <1>4, NearestSorted
<1> HIDE DEF found
<1>6. /\ found \in Seq(Entries) /\ g \in Seq(Entries)
      /\ DOMAIN found = 1 .. Len(found) /\ Len(found) \in Nat
      /\ \A i \in 1 .. Len(found) : found[i] \in Entries
  BY <1>4, <1>5, HeapIs
<1>7. ASSUME NEW i \in DOMAIN found
      PROVE  found[i].point \in Elements(valid) /\ found[i].dist = calc_dist(p, found[i].point)
  <2>1. found[i] \in Elements(found)
    BY DEF Elements
  <2>2. CountIn(found, {found[i]}) # 0
    BY <1>6, <2>1, ElementsAre
  <2>3. CountIn(g, {found[i]}) # 0
    BY <1>5, <2>2
  <2>4. found[i] \in Elements(g)
    BY <1>6, <2>3, ElementsAre
  <2> QED
    BY <1>4, <2>4 DEF Offered, Valid
<1>8. \A i, j \in DOMAIN found : i <= j => found[i].dist <= found[j].dist
  BY <1>5, <1>6 DEF Rises
<1>9. ASSUME NEW q \in Points
      PROVE  Cardinality({i \in DOMAIN found : found[i].dist <= calc_dist(p, q)})
               = Min({KNearest, Cardinality(near(calc_dist(p, q)))})
  <2> DEFINE e == calc_dist(p, q)
             few == {i \in DOMAIN found : found[i].dist <= e}
  <2>1. e \in Nat
    BY DistIs, PointsAre
  <2> HIDE DEF e
  <2>2. few = Places(found, EntriesTo(e))
    BY <1>6 DEF Places, EntriesTo
  <2>3. Cardinality(few) = CountIn(found, EntriesTo(e))
    BY <2>2, Zenon DEF CountIn
  <2>4. Cardinality(few) = Cnt(g, e)
    BY <1>5, <2>3, Zenon DEF Cnt
  <2>5. Cnt(g, e) = AtMost(Cnt(<<>>, e) + NearIn(t, p, d)[e])
    BY <1>3, <2>1 DEF Gains
  <2>6. Cnt(<<>>, e) = 0
    BY CountEmpty DEF Cnt
  <2>7. NearIn(t, p, d)[e] = Num(t, Near(p, d, e))
    BY <2>1 DEF NearIn
  <2>8. Num(t, Near(p, d, e)) = Cardinality(near(e)) /\ Num(t, Near(p, d, e)) \in Nat
    <3>1. \A i \in DOMAIN valid : valid[i] \in Points /\ valid[i] \in [Axes -> Int]
      BY <1>1, NumPlaces
    <3>2. \A i \in DOMAIN valid : calc_dist(p, valid[i]) \in Nat
      BY <3>1, DistIs
    <3>3. Min({d, e}) = IF d <= e THEN d ELSE e
      <4>1. d \in Int /\ e \in Int
        BY <2>1
      <4> QED
        BY <4>1, MinOfTwo
    <3>4. \A i \in DOMAIN valid : valid[i] \in Near(p, d, e) <=> calc_dist(p, valid[i]) <= Min({d, e})
      <4> TAKE i \in DOMAIN valid
      <4> DEFINE x == calc_dist(p, valid[i])
      <4>1. x \in Nat
        BY <3>2
      <4>2. valid[i] \in Near(p, d, e) <=> x <= e /\ x <= d
        BY <3>1 DEF Near
      <4> HIDE DEF x
      <4>3. x <= Min({d, e}) <=> x <= e /\ x <= d
        BY <2>1, <3>3, <4>1
      <4> QED
        BY <4>2, <4>3 DEF x
    <3>5. near(e) = {i \in DOMAIN valid : valid[i] \in Near(p, d, e)}
      BY <3>4
    <3> QED
      BY <1>1, <3>5, NumPlaces
  <2> DEFINE c == Cardinality(near(e))
             a == NearIn(t, p, d)[e]
  <2>9. Cardinality(few) = AtMost(0 + a) /\ a = c /\ c \in Nat
    BY <2>4, <2>5, <2>6, <2>7, <2>8, Zenon
  <2> HIDE DEF few, c, a
  <2>10. Cardinality(few) = AtMost(c)
    BY <2>9
  <2>11. Min({KNearest, c}) = IF KNearest <= c THEN KNearest ELSE c
    <3>1. KNearest \in Int /\ c \in Int
      BY <2>9, KNearestIs
    <3> QED
      BY <3>1, MinOfTwo
  <2>12. Cardinality(few) = Min({KNearest, c})
    <3>1. c \in Nat /\ KNearest \in Nat
      BY <2>9, KNearestIs
    <3> QED
      BY <2>10, <2>11, <3>1 DEF AtMost
  <2> QED
    BY <2>12 DEF few, c, e
<1>10. /\ \A i \in DOMAIN found : /\ found[i].point \in Elements(valid)
                                 /\ found[i].dist = calc_dist(p, found[i].point)
       /\ \A i, j \in DOMAIN found : i <= j => found[i].dist <= found[j].dist
       /\ \A q \in Points :
            Cardinality({i \in DOMAIN found : found[i].dist <= calc_dist(p, q)})
              = Min({KNearest, Cardinality(near(calc_dist(p, q)))})
  <2> HIDE DEF valid, near
  <2> QED
    BY <1>7, <1>8, <1>9
<1> QED
  BY <1>10, Zenon DEF ExactFor, found, g

\* Listing and deleting one box.
ExactIn(t, b) ==
  LET valid == flatten[t]
      inside == {i \in DOMAIN valid : Inside(valid[i], b)}
      found == Search_by_range(t, b).found
  IN  /\ Len(found) = Cardinality(inside)
      /\ Elements(found) = {valid[i] : i \in inside}
      /\ \A ds \in BOOLEAN, tie \in Ties :
           Delete_by_range(t, b, ds, tie).count = Cardinality(inside)

\* A box lists, and its deletion counts, the valid points inside.
LEMMA BoxRight ==
  ASSUME NEW t \in Good, NEW b, IsBox(b)
  PROVE  ExactIn(t, b)
<1> DEFINE valid == flatten[t]
           inside == {i \in DOMAIN valid : Inside(valid[i], b)}
           found == Search_by_range(t, b).found
<1>1. t \in Trees /\ MaxHeight \in 0 .. MaxHeight /\ t \in TreesTo[MaxHeight]
  BY GoodIs, HeightIs
<1>2. found \in Seq(Points) /\ \A S : CountIn(found, S) = Num(t, S \cap In(b))
  <2>1. RangeRight(t, b, MaxHeight)
    BY <1>1, RangeGood
  <2> QED
    BY <2>1, Zenon DEF RangeRight
<1> HIDE DEF found
<1>3. \A i \in DOMAIN valid : valid[i] \in Points
  BY <1>1, NumPlaces
<1>4. Num(t, In(b)) = Cardinality(inside)
  <2>1. inside = {i \in DOMAIN valid : valid[i] \in In(b)}
    BY <1>3 DEF In
  <2> QED
    BY <1>1, <2>1, NumPlaces
<1>5. Len(found) = Cardinality(inside)
  <2>1. \A i \in 1 .. Len(found) : found[i] \in Points
    BY <1>2, PlacesAre
  <2>2. CountIn(found, Points) = Len(found)
    BY <1>2, <2>1, CountAll
  <2>3. Points \cap In(b) = In(b)
    BY DEF In
  <2> QED
    BY <1>2, <1>4, <2>2, <2>3
<1>6. ASSUME NEW x PROVE x \in Elements(found) <=> x \in {valid[i] : i \in inside}
  <2>1. x \in Elements(found) <=> CountIn(found, {x}) # 0
    BY <1>2, ElementsAre
  <2>2. CountIn(found, {x}) = Num(t, {x} \cap In(b))
    BY <1>2
  <2>3. Num(t, {x} \cap In(b)) = 0 <=> Valid(t) \cap ({x} \cap In(b)) = {}
    BY <1>1, NumNone
  <2>4. Valid(t) \cap ({x} \cap In(b)) = {} <=> ~(x \in Valid(t) /\ x \in In(b))
    OBVIOUS
  <2>5. x \in Valid(t) /\ x \in In(b) <=> \E i \in DOMAIN valid : x = valid[i] /\ Inside(valid[i], b)
    BY <1>3 DEF In, Valid, Elements
  <2>6. x \in {valid[i] : i \in inside} <=> \E i \in DOMAIN valid : x = valid[i] /\ Inside(valid[i], b)
    OBVIOUS
  <2> QED
    BY <2>1, <2>2, <2>3, <2>4, <2>5, <2>6, Zenon
<1>7. Elements(found) = {valid[i] : i \in inside}
  BY <1>6
<1>8. ASSUME NEW ds \in BOOLEAN, NEW tie \in Ties
      PROVE  Delete_by_range(t, b, ds, tie).count = Cardinality(inside)
  <2>1. DeleteRight(t, b, ds, tie, MaxHeight)
    BY <1>1, DeleteGood
  <2>2. Delete_by_range(t, b, ds, tie).count = Num(t, In(b))
    BY <2>1, Zenon DEF DeleteRight
  <2> QED
    BY <1>4, <2>2, Zenon
<1> QED
  BY <1>5, <1>7, <1>8, Zenon DEF ExactIn, found

\* A point is in its cell.
LEMMA BoxOfPoint ==
  ASSUME NEW p \in Points
  PROVE  /\ IsBox(Box_of_Point(p)) /\ p \in In(Box_of_Point(p))
         /\ mid_point(Box_of_Point(p)) \in [Axes -> Int]
<1> DEFINE low == [a \in Axes |-> (p[a] \div CellSize) * CellSize]
<1>1. p \in [Axes -> Int] /\ CellSize \in Nat /\ CellSize > 0
  BY PointsAre, ConstantsAssumption
<1>2. ASSUME NEW a \in Axes
      PROVE  low[a] \in Int /\ low[a] <= p[a] /\ p[a] < low[a] + CellSize
  <2> DEFINE x == p[a]
             q == x \div CellSize
             r == x % CellSize
  <2>1. x \in Int
    BY <1>1
  <2>2. low[a] = q * CellSize
    OBVIOUS
  <2> HIDE DEF x, low
  <2>3. q \in Int /\ r \in 0 .. CellSize - 1 /\ x = CellSize * q + r
    BY <1>1, <2>1
  <2> HIDE DEF q, r
  <2>4. CellSize * q = q * CellSize /\ q * CellSize \in Int
    BY <1>1, <2>3
  <2>5. low[a] \in Int /\ low[a] <= x /\ x < low[a] + CellSize
    BY <1>1, <2>2, <2>3, <2>4
  <2> QED
    BY <2>5 DEF x
<1> HIDE DEF low
<1>3. /\ Box_of_Point(p).vertex_min = low
      /\ Box_of_Point(p).vertex_max = [a \in Axes |-> low[a] + CellSize]
  BY DEF Box_of_Point, low
<1>4. low \in [Axes -> Int]
  BY <1>2 DEF low
<1>5. [a \in Axes |-> low[a] + CellSize] \in [Axes -> Int]
  BY <1>1, <1>2
<1>6. IsBox(Box_of_Point(p))
  BY <1>3, <1>4, <1>5 DEF IsBox
<1>7. Inside(p, Box_of_Point(p))
  BY <1>2, <1>3 DEF Inside
<1>8. mid_point(Box_of_Point(p)) \in [Axes -> Int]
  <2>1. CellSize \div 2 \in Int
    BY <1>1
  <2> QED
    BY <1>2, <1>3, <2>1 DEF mid_point
<1> QED
  BY <1>6, <1>7, <1>8 DEF In

-----------------------------------------------------------------------------
(* The down-sampled insertion.                                             *)

MidDist(q, p) == calc_dist(q, mid_point(Box_of_Point(p)))

\* The distance to the middle of a cell.
LEMMA MidDistIs ==
  ASSUME NEW p \in Points, NEW q \in Points
  PROVE  MidDist(q, p) \in Nat
BY BoxOfPoint, PointsAre, DistIs DEF MidDist

\* The point kept is one of those there were, and none is nearer to the middle.
LEMMA ResultIs ==
  ASSUME NEW p \in Points, NEW s \in Seq(Points)
  PROVE  LET r == downsample_result(p, s)
         IN  /\ r \in Elements(s) \cup {p}
             /\ \A q \in Elements(s) \cup {p} : MidDist(r, p) <= MidDist(q, p)
<1> DEFINE dist(i) == MidDist(s[i], p)
           nearer == {i \in DOMAIN s : dist(i) < MidDist(p, p)}
           Best(i) == i \in nearer /\ \A j \in nearer : dist(i) < dist(j) \/ (dist(i) = dist(j) /\ i <= j)
           best == CHOOSE i \in nearer :
                     \A j \in nearer : dist(i) < dist(j) \/ (dist(i) = dist(j) /\ i <= j)
           r == downsample_result(p, s)
<1>1. DOMAIN s = 1 .. Len(s) /\ Len(s) \in Nat /\ \A i \in DOMAIN s : s[i] \in Points
  BY PlacesAre
<1>2. r = IF nearer = {} THEN p ELSE s[best]
  BY DEF downsample_result, MidDist
<1>3. MidDist(p, p) \in Nat /\ \A i \in DOMAIN s : dist(i) \in Nat
  BY <1>1, MidDistIs
<1> HIDE DEF dist, r
<1>4. nearer \in SUBSET Nat
  BY <1>1
<1>5. ASSUME nearer # {} PROVE \E i \in nearer : Best(i)
  <2> DEFINE K == {dist(i) : i \in nearer}
  <2>1. K \in SUBSET Nat /\ K # {}
    BY <1>3, <1>5
  <2> HIDE DEF K
  <2>2. PICK v \in K : \A w \in K : v <= w
    BY <2>1, LeastOf
  <2> DEFINE J == {i \in nearer : dist(i) = v}
  <2>3. J \in SUBSET Nat /\ J # {}
    BY <1>4, <2>2 DEF K
  <2> HIDE DEF J
  <2>4. PICK i \in J : \A j \in J : i <= j
    BY <2>3, LeastOf
  <2>5. i \in nearer /\ dist(i) = v
    BY <2>4 DEF J
  <2>6. ASSUME NEW j \in nearer PROVE dist(i) < dist(j) \/ (dist(i) = dist(j) /\ i <= j)
    <3>1. dist(j) \in K /\ v <= dist(j) /\ dist(j) \in Nat /\ v \in Nat
      BY <1>3, <2>1, <2>2 DEF K
    <3>2. CASE dist(j) = v
      <4>1. j \in J
        BY <3>2 DEF J
      <4> QED
        BY <2>4, <2>5, <3>2, <4>1
    <3>3. CASE dist(j) # v
      BY <2>5, <3>1, <3>3
    <3> QED
      BY <3>2, <3>3
  <2> QED
    BY <2>5, <2>6
<1>6. CASE nearer = {}
  <2>1. r = p
    BY <1>2, <1>6
  <2>2. \A i \in DOMAIN s : MidDist(p, p) <= dist(i)
    BY <1>3, <1>6
  <2>3. \A q \in Elements(s) \cup {p} : MidDist(p, p) <= MidDist(q, p)
    BY <1>3, <2>2 DEF Elements, dist
  <2> QED
    BY <2>1, <2>3 DEF r
<1>7. CASE nearer # {}
  <2>1. Best(best)
    BY <1>5, <1>7
  <2>2. r = s[best]
    BY <1>2, <1>7
  <2> HIDE DEF best
  <2>3. best \in DOMAIN s /\ dist(best) < MidDist(p, p) /\ dist(best) \in Nat
    BY <1>3, <2>1
  <2>4. ASSUME NEW i \in DOMAIN s PROVE dist(best) <= dist(i)
    <3>1. dist(i) \in Nat
      BY <1>3
    <3>2. CASE i \in nearer
      BY <2>1, <2>3, <3>1, <3>2
    <3>3. CASE i \notin nearer
      BY <1>3, <2>3, <3>1, <3>3
    <3> QED
      BY <3>2, <3>3
  <2>5. \A q \in Elements(s) \cup {p} : dist(best) <= MidDist(q, p)
    BY <1>3, <2>3, <2>4 DEF Elements, dist
  <2>6. r \in Elements(s) /\ MidDist(r, p) = dist(best)
    BY <2>2, <2>3 DEF Elements, dist
  <2> QED
    BY <2>5, <2>6 DEF r
<1> QED
  BY <1>6, <1>7

\* The points in a box and out of it add up.
LEMMA NumParts ==
  ASSUME NEW t \in Trees, NEW B
  PROVE  \A S : /\ Num(t, S) = Num(t, S \cap B) + Num(t, S \ B)
                /\ Num(t, S \ B) \in Nat /\ Num(t, S \cap B) \in Nat
<1> TAKE S
<1>1. Num(t, S) = Num(t, S \cap B) + Num(t, S \ B)
  BY NumSplit
<1>2. Num(t, S \ B) \in Nat /\ Num(t, S \cap B) \in Nat
  BY NumIs
<1> QED
  BY <1>1, <1>2, Zenon

\* What a down-sampled insertion promises: r stands for the points of its cell.
AddedRight(t, p, tie, k, r) ==
  LET after == AddedDownsampled(t, p, tie)
      b == Box_of_Point(p)
  IN  /\ after \in TreesTo[k + 1] /\ after \in Good /\ after # Null
      /\ \A S : Num(after, S) = Num(t, S \ In(b)) + Count(r \in S)
      /\ r \in In(b) /\ r \in Valid(t) \cup {p}
      /\ \A q \in (Valid(t) \cup {p}) \cap In(b) : MidDist(r, p) <= MidDist(q, p)

\* A down-sampled insertion keeps the tree in order and leaves one point in the cell.
LEMMA AddedGood ==
  ASSUME NEW k \in 0 .. MaxHeight - 1, NEW t \in TreesTo[k], t \in Good, t # Null,
         NEW p \in Points, NEW tie \in Ties
  PROVE  \E r : AddedRight(t, p, tie, k, r)
<1> DEFINE b == Box_of_Point(p)
           stored == Search_by_range(t, b)
           found == stored.found
           r == downsample_result(p, found)
           emptied == IF found = <<>> THEN stored.node
                      ELSE Delete_by_range(stored.node, b, TRUE, tie).node
           after == AddedDownsampled(t, p, tie)
<1>1. k \in Nat /\ k \in 0 .. MaxHeight /\ k + 1 \in 0 .. MaxHeight /\ t \in Trees
  BY HeightIs
<1>2. IsBox(b) /\ p \in In(b)
  BY BoxOfPoint
<1>3. after = IF Len(found) > 1 \/ p = r THEN Add_by_point(emptied, r, tie) ELSE stored.node
  BY Zenon DEF AddedDownsampled
<1> HIDE DEF b, after
<1>4. /\ stored.node \in TreesTo[k] /\ stored.node \in Good /\ Alike(stored.node, t)
      /\ found \in Seq(Points) /\ \A S : CountIn(found, S) = Num(t, S \cap In(b))
  <2>1. RangeRight(t, b, k)
    BY <1>1, <1>2, RangeGood
  <2> QED
    BY <2>1, Zenon DEF RangeRight
<1> HIDE DEF stored
<1>5. stored.node # Null /\ \A S : Num(stored.node, S) = Num(t, S)
  BY <1>4 DEF Alike
<1>6. /\ r \in Elements(found) \cup {p}
      /\ \A q \in Elements(found) \cup {p} : MidDist(r, p) <= MidDist(q, p)
  BY <1>4, ResultIs
<1> HIDE DEF r
<1>7. ASSUME NEW x PROVE x \in Elements(found) <=> x \in Valid(t) \cap In(b)
  <2>1. x \in Elements(found) <=> CountIn(found, {x}) # 0
    BY <1>4, ElementsAre
  <2>2. CountIn(found, {x}) = Num(t, {x} \cap In(b))
    BY <1>4
  <2>3. Num(t, {x} \cap In(b)) = 0 <=> Valid(t) \cap ({x} \cap In(b)) = {}
    BY <1>1, NumNone
  <2>4. Valid(t) \cap ({x} \cap In(b)) = {} <=> x \notin Valid(t) \cap In(b)
    OBVIOUS
  <2> QED
    BY <2>1, <2>2, <2>3, <2>4, Zenon
<1>8. /\ r \in In(b) /\ r \in Valid(t) \cup {p}
      /\ \A q \in (Valid(t) \cup {p}) \cap In(b) : MidDist(r, p) <= MidDist(q, p)
  BY <1>2, <1>6, <1>7
<1>9. r \in Points
  BY <1>8 DEF In
<1>10. /\ emptied \in TreesTo[k] /\ emptied \in Good /\ emptied # Null
       /\ \A S : Num(emptied, S) = Num(t, S \ In(b))
  <2>1. CASE found = <<>>
    <3>1. emptied = stored.node
      BY <2>1
    <3>2. ASSUME NEW S PROVE Num(t, S) = Num(t, S \ In(b))
      <4>1. CountIn(found, S) = 0
        BY <2>1, CountEmpty
      <4>2. Num(t, S \cap In(b)) = 0
        BY <1>4, <4>1
      <4>3. Num(t, S) = Num(t, S \cap In(b)) + Num(t, S \ In(b)) /\ Num(t, S \ In(b)) \in Nat
        BY <1>1, NumParts, Zenon
      <4> DEFINE x == Num(t, S \ In(b))
                 y == Num(t, S)
      <4>4. y = 0 + x /\ x \in Nat
        BY <4>2, <4>3, Zenon
      <4> HIDE DEF x, y
      <4>5. y = x
        BY <4>4
      <4> QED
        BY <4>5 DEF x, y
    <3> HIDE DEF emptied
    <3> QED
      BY <1>4, <1>5, <3>1, <3>2
  <2>2. CASE found # <<>>
    <3>1. emptied = Delete_by_range(stored.node, b, TRUE, tie).node
      BY <2>2
    <3>2. DeleteRight(stored.node, b, TRUE, tie, k)
      BY <1>1, <1>2, <1>4, DeleteGood
    <3> HIDE DEF emptied
    <3>3. /\ emptied \in TreesTo[k] /\ emptied \in Good
          /\ \A S : Num(emptied, S) = Num(stored.node, S \ In(b))
          /\ emptied = Null <=> stored.node = Null
      BY <3>1, <3>2, Zenon DEF DeleteRight
    <3> QED
      BY <1>5, <3>3
  <2> QED
    BY <2>1, <2>2
<1> HIDE DEF emptied
<1>11. /\ after \in TreesTo[k + 1] /\ after \in Good /\ after # Null
       /\ \A S : Num(after, S) = Num(t, S \ In(b)) + Count(r \in S)
  <2>1. CASE Len(found) > 1 \/ p = r
    <3>1. after = Add_by_point(emptied, r, tie)
      BY <1>3, <2>1
    <3>2. AddRight(emptied, r, tie, k)
      BY <1>9, <1>10, AddGood
    <3>3. /\ after \in TreesTo[k + 1] /\ after \in Good /\ after # Null
          /\ \A S : Num(after, S) = Num(emptied, S) + Count(r \in S)
      BY <3>1, <3>2, Zenon DEF AddRight
    <3>4. \A S : Num(after, S) = Num(t, S \ In(b)) + Count(r \in S)
      BY <1>10, <3>3, Zenon
    <3> QED
      BY <3>3, <3>4, Zenon
  <2>2. CASE ~(Len(found) > 1 \/ p = r)
    <3>1. after = stored.node
      BY <1>3, <2>2
    <3>2. DOMAIN found = 1 .. Len(found) /\ Len(found) \in Nat
      BY <1>4, PlacesAre
    <3>3. r \in Elements(found)
      BY <1>6, <2>2
    <3>4. Len(found) = 1 /\ found[1] = r
      <4>1. PICK i \in 1 .. Len(found) : found[i] = r
        BY <3>2, <3>3 DEF Elements
      <4>2. Len(found) = 1 /\ i = 1
        <5> DEFINE l == Len(found)
        <5>1. ~(l > 1) /\ l \in Nat /\ i \in 1 .. l
          BY <2>2, <3>2, <4>1
        <5> HIDE DEF l
        <5>2. l = 1 /\ i = 1
          BY <5>1
        <5> QED
          BY <5>2 DEF l
      <4> QED
        BY <4>1, <4>2
    <3>5. found = <<r>>
      BY <1>4, <1>9, <3>4
    <3>6. ASSUME NEW S PROVE Num(after, S) = Num(t, S \ In(b)) + Count(r \in S)
      <4>1. CountIn(<<r>>, S) = Count(r \in S)
        BY CountOne
      <4>2. Num(t, S \cap In(b)) = Count(r \in S)
        BY <1>4, <3>5, <4>1, Zenon
      <4>3. Num(t, S) = Num(t, S \cap In(b)) + Num(t, S \ In(b))
            /\ Num(t, S \ In(b)) \in Nat /\ Num(t, S \cap In(b)) \in Nat
        BY <1>1, NumParts, Zenon
      <4>4. Num(t, S) = Num(t, S \ In(b)) + Num(t, S \cap In(b))
        <5> DEFINE x == Num(t, S \ In(b))
                   y == Num(t, S)
                   z == Num(t, S \cap In(b))
        <5>1. y = z + x /\ x \in Nat /\ z \in Nat
          BY <4>3, Zenon
        <5> HIDE DEF x, y, z
        <5>2. y = x + z
          BY <5>1
        <5> QED
          BY <5>2 DEF x, y, z
      <4> QED
        BY <1>5, <3>1, <4>2, <4>4, Zenon
    <3>7. stored.node \in TreesTo[k + 1]
      BY <1>1, <1>4, TreesRise
    <3> QED
      BY <1>4, <1>5, <3>1, <3>6, <3>7
  <2> QED
    BY <2>1, <2>2
<1>12. AddedRight(t, p, tie, k, r)
  BY <1>8, <1>11, Zenon DEF AddedRight, b, after
<1> QED
  BY <1>12

\* The cell of one point.
KeptFor(t, p, tie) ==
  LET b == Box_of_Point(p)
      offered == {q \in Elements(flatten[t]) \cup {p} : Inside(q, b)}
      after == flatten[AddedDownsampled(t, p, tie)]
  IN  \E k \in DOMAIN after :
        /\ {i \in DOMAIN after : Inside(after[i], b)} = {k}
        /\ after[k] \in offered
        /\ \A q \in offered :
             calc_dist(after[k], mid_point(b)) <= calc_dist(q, mid_point(b))

\* And that one is the nearest to the middle.
LEMMA CellRight ==
  ASSUME NEW k \in 0 .. MaxHeight - 1, NEW t \in TreesTo[k], t \in Good, t # Null,
         NEW p \in Points, NEW tie \in Ties
  PROVE  KeptFor(t, p, tie)
<1> DEFINE b == Box_of_Point(p)
           offered == {q \in Elements(flatten[t]) \cup {p} : Inside(q, b)}
           u == AddedDownsampled(t, p, tie)
           after == flatten[u]
<1>1. PICK r : AddedRight(t, p, tie, k, r)
  BY AddedGood
<1>2. /\ u \in Good
      /\ \A S : Num(u, S) = Num(t, S \ In(b)) + Count(r \in S)
      /\ r \in In(b) /\ r \in Valid(t) \cup {p}
      /\ \A q \in (Valid(t) \cup {p}) \cap In(b) : MidDist(r, p) <= MidDist(q, p)
  BY <1>1, Zenon DEF AddedRight
<1>3. t \in Trees /\ Valid(t) \subseteq Points
  BY GoodIs, ValidIs
<1> HIDE DEF u, b
<1>4. u \in Trees
  BY <1>2, GoodIs
<1>5. offered = (Valid(t) \cup {p}) \cap In(b)
  BY <1>3 DEF In, Valid
<1>6. Num(u, In(b)) = 1
  <2>1. In(b) \ In(b) = {}
    OBVIOUS
  <2>2. Num(u, In(b)) = Num(t, {}) + Count(r \in In(b))
    BY <1>2, <2>1
  <2>3. Num(t, {}) = 0
    BY <1>3, NumNone
  <2>4. Count(r \in In(b)) = 1
    BY <1>2 DEF Count
  <2> DEFINE z == Count(r \in In(b))
  <2>5. Num(u, In(b)) = 0 + z /\ z = 1
    BY <2>2, <2>3, <2>4, Zenon
  <2> HIDE DEF z
  <2> QED
    BY <2>5
<1> DEFINE P == {i \in DOMAIN after : after[i] \in In(b)}
<1>7. Cardinality(P) = 1 /\ IsFiniteSet(P)
  <2>1. Num(u, In(b)) = Cardinality(P) /\ after \in Seq(Points)
    BY <1>4, NumPlaces
  <2>2. IsFiniteSet(P)
    <3> DEFINE s == flatten[u]
    <3>1. s \in Seq(Points)
      BY <2>1
    <3> HIDE DEF s
    <3>2. IsFiniteSet(Places(s, In(b)))
      BY <3>1, PlacesAre
    <3>3. P = Places(s, In(b))
      BY Zenon DEF Places, s
    <3> QED
      BY <3>2, <3>3, Zenon
  <2> QED
    BY <1>6, <2>1, <2>2
<1>8. PICK j : P = {j}
  <2> HIDE DEF P
  <2> QED
    BY <1>7, FS_Singleton
<1>9. r \in Valid(u)
  <2>1. Num(u, {r}) = Num(t, {r} \ In(b)) + Count(r \in {r})
    BY <1>2
  <2>2. Num(t, {r} \ In(b)) \in Nat
    BY <1>3, NumIs
  <2>3. Num(u, {r}) # 0
    BY <2>1, <2>2 DEF Count
  <2> QED
    BY <1>4, <2>3, ValidIs
<1>10. PICK i \in DOMAIN after : after[i] = r
  BY <1>9 DEF Valid, Elements
<1>11. i = j
  BY <1>2, <1>8, <1>10
<1>12. j \in DOMAIN after /\ after[j] = r
  BY <1>10, <1>11
<1>13. {x \in DOMAIN after : Inside(after[x], b)} = {j}
  <2>1. \A x \in DOMAIN after : after[x] \in Points
    BY <1>4, NumPlaces
  <2>2. {x \in DOMAIN after : Inside(after[x], b)} = P
    BY <2>1 DEF In
  <2> QED
    BY <1>8, <2>2
<1>14. after[j] \in offered
  BY <1>2, <1>5, <1>12
<1>15. \A q \in offered : calc_dist(after[j], mid_point(b)) <= calc_dist(q, mid_point(b))
  BY <1>2, <1>5, <1>12, Zenon DEF MidDist, b
<1> HIDE DEF offered
<1>16. \E x \in DOMAIN after :
         /\ {i_ \in DOMAIN after : Inside(after[i_], b)} = {x}
         /\ after[x] \in offered
         /\ \A q \in offered : calc_dist(after[x], mid_point(b)) <= calc_dist(q, mid_point(b))
  BY <1>12, <1>13, <1>14, <1>15, Zenon
<1> QED
  BY <1>16, Zenon DEF KeptFor, offered, u, b

-----------------------------------------------------------------------------
(* The invariant.                                                          *)

\* An insertion makes a tree at most one higher.
Level == (MaxHeight - 1 - MaxOps) + ops

\* The tree is in order: a set of trees the walks from which come only to nodes
\* whose sums, ranges and flags are right has it in it.
InOrder ==
  /\ tree \in Good /\ tree # Null
  /\ ops \in 0 .. MaxOps /\ MaxOps < MaxHeight
  /\ tree \in TreesTo[Level]
  /\ live = Valid(tree)

\* The bounds of the constants.
LEMMA BoundsAre ==
  /\ MaxOps \in Nat /\ MaxHeight \in Nat /\ MaxHeight # 0
  /\ \A b \in Boxes : IsBox(b)
  /\ MaxDists \subseteq Nat
  /\ \A c \in Clouds : c # <<>> /\ c \in Seq(Points) /\ Len(c) + MaxOps < MaxHeight
<1>1. /\ MaxOps \in Nat /\ MaxHeight \in Nat /\ MaxHeight # 0 /\ MaxDists \subseteq Nat
      /\ \A c \in Clouds : c # <<>> /\ c \in Seq(Points) /\ Len(c) + MaxOps < MaxHeight
  BY ConstantsAssumption
<1>2. \A b \in Boxes : {b.vertex_min, b.vertex_max} \subseteq [Axes -> Int]
  BY ConstantsAssumption, Zenon
<1>3. \A b \in Boxes : IsBox(b)
  BY <1>2, Zenon DEF IsBox
<1> QED
  BY <1>1, <1>3

\* There is room for the operations left.
LEMMA LevelIn ==
  ASSUME InOrder
  PROVE  /\ Level \in 0 .. MaxHeight - 1 /\ Level \in 0 .. MaxHeight /\ Level \in Nat
         /\ tree \in Trees /\ tree \in LowerTrees
         /\ ops < MaxOps => Level + 1 \in 0 .. MaxHeight - 1
<1>1. MaxOps \in Nat /\ MaxHeight \in Nat /\ ops \in 0 .. MaxOps /\ MaxOps < MaxHeight
  BY BoundsAre DEF InOrder
<1>2. /\ Level \in 0 .. MaxHeight - 1 /\ Level \in 0 .. MaxHeight /\ Level \in Nat
      /\ ops < MaxOps => Level + 1 \in 0 .. MaxHeight - 1
      /\ MaxHeight - 1 \in Nat /\ Level <= MaxHeight - 1
  BY <1>1 DEF Level
<1>3. tree \in TreesTo[MaxHeight - 1]
  <2>1. TreesTo[Level] \subseteq TreesTo[MaxHeight - 1]
    BY <1>2, TreesHigher
  <2> QED
    BY <2>1 DEF InOrder
<1> QED
  BY <1>2, <1>3, GoodIs DEF InOrder, LowerTrees

\* Every tree Build makes of a cloud.
LEMMA InitInOrder ==
  ASSUME Init
  PROVE  InOrder
<1>1. PICK c \in Clouds, tie \in Ties : tree = BuildTree(c, tie)
  BY DEF Init, Built
<1>2. /\ c # <<>> /\ c \in Seq(Points) /\ Len(c) + MaxOps < MaxHeight
      /\ MaxOps \in Nat /\ MaxHeight \in Nat
  BY BoundsAre
<1>3. Len(c) \in Nat /\ c \in Lists(Len(c))
  BY <1>2, PlacesAre, ListsAre
<1> DEFINE l == Len(c)
<1>4. /\ l \in Nat /\ l \in 0 .. MaxHeight /\ MaxHeight - 1 - MaxOps \in Nat
      /\ l <= MaxHeight - 1 - MaxOps /\ MaxOps < MaxHeight
  <2>1. l \in Nat /\ l + MaxOps < MaxHeight
    BY <1>2, <1>3
  <2> HIDE DEF l
  <2> QED
    BY <1>2, <2>1
<1>5. c \in Lists(l)
  BY <1>3
<1> HIDE DEF l
<1>6. BuiltRight(c, tie, l)
  BY <1>4, <1>5, BuildGood
<1>7. tree \in TreesTo[l] /\ tree \in Good /\ (tree = Null <=> c = <<>>)
  BY <1>1, <1>6, Zenon DEF BuiltRight
<1>8. ops = 0 /\ live = Valid(tree)
  BY DEF Init, Valid
<1>9. Level = MaxHeight - 1 - MaxOps /\ ops \in 0 .. MaxOps
  BY <1>2, <1>4, <1>8 DEF Level
<1>10. tree \in TreesTo[Level]
  BY <1>4, <1>7, <1>9, TreesHigher
<1> QED
  BY <1>2, <1>4, <1>7, <1>8, <1>9, <1>10 DEF InOrder

\* An operation that leaves a tree in order, at most one higher.
LEMMA ChangedInOrder ==
  ASSUME InOrder, NEW t, Changed(t), t \in Good, t # Null, t \in TreesTo[Level + 1]
  PROVE  InOrder'
<1>1. /\ ops < MaxOps /\ ops' = ops + 1 /\ tree' = t /\ live' = Elements(flatten[t])
  BY DEF Changed, Becomes
<1>2. MaxOps \in Nat /\ MaxHeight \in Nat /\ ops \in 0 .. MaxOps /\ MaxOps < MaxHeight
  BY BoundsAre DEF InOrder
<1>3. ops' \in 0 .. MaxOps /\ Level' = Level + 1
  BY <1>1, <1>2 DEF Level
<1>4. live' = Valid(tree')
  BY <1>1 DEF Valid
<1> QED
  BY <1>1, <1>2, <1>3, <1>4 DEF InOrder

\* A walk leaves a tree in order that is no higher.
LEMMA WalkedInOrder ==
  ASSUME InOrder, NEW t, Walked(t), t \in Good, t # Null, t \in TreesTo[Level]
  PROVE  InOrder'
<1>1. ops' = ops /\ tree' = t /\ live' = Elements(flatten[t])
  BY DEF Walked, Becomes
<1>2. Level' = Level
  BY <1>1 DEF Level
<1>3. live' = Valid(tree')
  BY <1>1 DEF Valid
<1> QED
  BY <1>1, <1>2, <1>3 DEF InOrder

-----------------------------------------------------------------------------
(* What each operation makes of a tree in order.                           *)

\* An insertion adds its point.
LEMMA AddMakes ==
  ASSUME InOrder, NEW p \in Points, NEW tie \in Ties
  PROVE  LET t == Add_by_point(tree, p, tie)
         IN  /\ t \in Good /\ t # Null /\ t \in TreesTo[Level + 1]
             /\ Valid(t) = Valid(tree) \cup {p}
<1> DEFINE t == Add_by_point(tree, p, tie)
<1>1. AddRight(tree, p, tie, Level)
  BY LevelIn, AddGood DEF InOrder
<1>2. /\ t \in TreesTo[Level + 1] /\ t \in Good /\ t # Null
      /\ \A S : Num(t, S) = Num(tree, S) + Count(p \in S)
  BY <1>1, Zenon DEF AddRight
<1> HIDE DEF t
<1>3. t \in Trees /\ tree \in Trees
  BY <1>2, LevelIn, GoodIs
<1>4. ASSUME NEW x PROVE x \in Valid(t) <=> x \in Valid(tree) \cup {p}
  <2>1. Num(t, {x}) = Num(tree, {x}) + Count(p \in {x}) /\ Num(tree, {x}) \in Nat
    BY <1>2, <1>3, NumIs
  <2>2. Num(t, {x}) # 0 <=> Num(tree, {x}) # 0 \/ x = p
    BY <2>1 DEF Count
  <2>3. (x \in Valid(t) <=> Num(t, {x}) # 0) /\ (x \in Valid(tree) <=> Num(tree, {x}) # 0)
    BY <1>3, ValidIs
  <2> QED
    BY <2>2, <2>3
<1>5. Valid(t) = Valid(tree) \cup {p}
  BY <1>4
<1> QED
  BY <1>2, <1>5 DEF t

\* A box deletion takes the points inside.
LEMMA DeleteMakes ==
  ASSUME InOrder, NEW b \in Boxes, NEW tie \in Ties
  PROVE  LET t == Delete_by_range(tree, b, FALSE, tie).node
         IN  /\ t \in Good /\ t # Null /\ t \in TreesTo[Level + 1]
             /\ Valid(t) = Valid(tree) \ In(b)
<1> DEFINE t == Delete_by_range(tree, b, FALSE, tie).node
<1>1. DeleteRight(tree, b, FALSE, tie, Level)
  BY LevelIn, BoundsAre, DeleteGood DEF InOrder
<1>2. /\ t \in TreesTo[Level] /\ t \in Good /\ (t = Null <=> tree = Null)
      /\ \A S : Num(t, S) = Num(tree, S \ In(b))
  BY <1>1, Zenon DEF DeleteRight
<1> HIDE DEF t
<1>3. t \in Trees /\ tree \in Trees /\ t # Null /\ t \in TreesTo[Level + 1]
  BY <1>2, LevelIn, GoodIs, TreesRise DEF InOrder
<1>4. ASSUME NEW x PROVE x \in Valid(t) <=> x \in Valid(tree) \ In(b)
  <2>1. Num(t, {x}) = Num(tree, {x} \ In(b))
    BY <1>2
  <2>2. x \in Valid(t) <=> Num(t, {x}) # 0
    BY <1>3, ValidIs
  <2>3. Num(tree, {x} \ In(b)) = 0 <=> Valid(tree) \cap ({x} \ In(b)) = {}
    BY <1>3, NumNone
  <2>4. Valid(tree) \cap ({x} \ In(b)) = {} <=> x \notin Valid(tree) \ In(b)
    OBVIOUS
  <2> QED
    BY <2>1, <2>2, <2>3, <2>4, Zenon
<1>5. Valid(t) = Valid(tree) \ In(b)
  BY <1>4
<1> QED
  BY <1>2, <1>3, <1>5 DEF t

\* A down-sampled insertion replaces the points of the cell by one of the cell.
LEMMA DownsampledMakes ==
  ASSUME InOrder, NEW p \in Points, NEW tie \in Ties
  PROVE  LET t == AddedDownsampled(tree, p, tie)
         IN  /\ t \in Good /\ t # Null /\ t \in TreesTo[Level + 1]
             /\ \E r \in In(Box_of_Point(p)) :
                  Valid(t) = (Valid(tree) \ In(Box_of_Point(p))) \cup {r}
<1> DEFINE t == AddedDownsampled(tree, p, tie)
           B == In(Box_of_Point(p))
<1>1. PICK r : AddedRight(tree, p, tie, Level, r)
  BY LevelIn, AddedGood DEF InOrder
<1>2. /\ t \in TreesTo[Level + 1] /\ t \in Good /\ t # Null
      /\ \A S : Num(t, S) = Num(tree, S \ B) + Count(r \in S)
      /\ r \in B
  BY <1>1, Zenon DEF AddedRight
<1> HIDE DEF t, B
<1>3. t \in Trees /\ tree \in Trees
  BY <1>2, LevelIn, GoodIs
<1>4. ASSUME NEW x PROVE x \in Valid(t) <=> x \in (Valid(tree) \ B) \cup {r}
  <2>1. Num(t, {x}) = Num(tree, {x} \ B) + Count(r \in {x}) /\ Num(tree, {x} \ B) \in Nat
    BY <1>2, <1>3, NumIs
  <2>2. Num(t, {x}) # 0 <=> Num(tree, {x} \ B) # 0 \/ x = r
    BY <2>1 DEF Count
  <2>3. x \in Valid(t) <=> Num(t, {x}) # 0
    BY <1>3, ValidIs
  <2>4. Num(tree, {x} \ B) = 0 <=> Valid(tree) \cap ({x} \ B) = {}
    BY <1>3, NumNone
  <2>5. Valid(tree) \cap ({x} \ B) = {} <=> x \notin Valid(tree) \ B
    OBVIOUS
  <2> QED
    BY <2>2, <2>3, <2>4, <2>5
<1>5. Valid(t) = (Valid(tree) \ B) \cup {r}
  BY <1>4
<1>6. \E x \in B : Valid(t) = (Valid(tree) \ B) \cup {x}
  BY <1>2, <1>5
<1> QED
  BY <1>2, <1>6 DEF t, B

\* A search changes the tree, not its points.
LEMMA SearchMakes ==
  ASSUME InOrder, NEW p \in Queries, NEW d \in MaxDists
  PROVE  LET t == Search(tree, p, d, <<>>).node
         IN  /\ t \in Good /\ t # Null /\ t \in TreesTo[Level]
             /\ Valid(t) = Valid(tree)
<1> DEFINE t == Search(tree, p, d, <<>>).node
<1>1. p \in [Axes -> Int] /\ d \in Nat
  BY PointsAre, BoundsAre
<1>2. SearchRight(tree, p, d, Level)
  BY <1>1, LevelIn, SearchGood DEF InOrder
<1>3. HeapOK(<<>>) /\ <<>> \in Heaps
  BY EmptyHeap, KNearestIs DEF HeapOK
<1>4. t \in TreesTo[Level] /\ t \in Good /\ Alike(t, tree)
  BY <1>2, <1>3, Zenon DEF SearchRight
<1> HIDE DEF t
<1>5. t # Null /\ \A S : Num(t, S) = Num(tree, S)
  BY <1>4 DEF Alike, InOrder
<1>6. Valid(t) = Valid(tree)
  BY <1>4, <1>5, LevelIn, GoodIs, AlikeValid
<1> QED
  BY <1>4, <1>5, <1>6 DEF t

\* Nor does the walk for the display.
LEMMA FlattenMakes ==
  ASSUME InOrder
  PROVE  LET t == PushedDown[tree]
         IN  /\ t \in Good /\ t # Null /\ t \in TreesTo[Level]
             /\ Valid(t) = Valid(tree)
<1> DEFINE t == PushedDown[tree]
<1>1. t \in TreesTo[Level] /\ t \in Good /\ Alike(t, tree)
  BY LevelIn, PushedDownGood DEF InOrder
<1> HIDE DEF t
<1>2. t # Null /\ \A S : Num(t, S) = Num(tree, S)
  BY <1>1 DEF Alike, InOrder
<1>3. Valid(t) = Valid(tree)
  BY <1>1, <1>2, LevelIn, GoodIs, AlikeValid
<1> QED
  BY <1>1, <1>2, <1>3 DEF t

\* Every operation keeps the tree in order.
LEMMA NextInOrder ==
  ASSUME InOrder, [Next]_vars
  PROVE  InOrder'
<1>1. ASSUME NEW p \in Points, AddPoint(p) PROVE InOrder'
  <2>1. PICK tie \in Ties : Changed(Add_by_point(tree, p, tie))
    BY <1>1, Zenon DEF AddPoint
  <2> QED
    BY <2>1, AddMakes, ChangedInOrder
<1>2. ASSUME NEW p \in Points, AddDownsampled(p) PROVE InOrder'
  <2>1. PICK tie \in Ties : Changed(AddedDownsampled(tree, p, tie))
    BY <1>2, Zenon DEF AddDownsampled
  <2> QED
    BY <2>1, DownsampledMakes, ChangedInOrder
<1>3. ASSUME NEW b \in Boxes, DeleteBox(b) PROVE InOrder'
  <2>1. PICK tie \in Ties : Changed(Delete_by_range(tree, b, FALSE, tie).node)
    BY <1>3, Zenon DEF DeleteBox
  <2> QED
    BY <2>1, DeleteMakes, ChangedInOrder
<1>4. ASSUME NEW p \in Queries, NEW d \in MaxDists, NearestSearch(p, d) PROVE InOrder'
  BY <1>4, SearchMakes, WalkedInOrder DEF NearestSearch
<1>5. ASSUME Flatten PROVE InOrder'
  BY <1>5, FlattenMakes, WalkedInOrder DEF Flatten
<1>6. ASSUME UNCHANGED vars PROVE InOrder'
  BY <1>6 DEF vars, InOrder, Level, Valid
<1> QED
  BY <1>1, <1>2, <1>3, <1>4, <1>5, <1>6 DEF Next

-----------------------------------------------------------------------------
(* The nodes of a tree in order.                                           *)

\* The nodes of a tree in order are in order.
LEMMA NodesGood ==
  \A n \in Trees : n \in Good => \A m \in Nodes[n] : m \in Good /\ m # Null
<1> DEFINE S == {n \in Trees : n \in Good => \A m \in Nodes[n] : m \in Good /\ m # Null}
<1>1. Null \in S
  BY NodesAre, HeightIs
<1>2. ASSUME NEW h \in 0 .. MaxHeight - 1, TreesTo[h] \subseteq S
      PROVE  NodesOver(TreesTo[h]) \subseteq S
  <2> SUFFICES ASSUME NEW n \in NodesOver(TreesTo[h]), n \in Good
               PROVE  \A m \in Nodes[n] : m \in Good /\ m # Null
    BY NodeInTrees
  <2>1. n \in Trees /\ n # Null /\ LeftSon(n) \in TreesTo[h] /\ RightSon(n) \in TreesTo[h]
    BY NodeInTrees
  <2>2. Push_Down(n) \in Good /\ Push_Down(n) # Null /\ LeftSon(n) \in Good /\ RightSon(n) \in Good
    BY <2>1, PushGood
  <2>3. Nodes[n] = {Push_Down(n)} \cup Nodes[LeftSon(n)] \cup Nodes[RightSon(n)]
    BY <2>1, NodesAre
  <2>4. LeftSon(n) \in S /\ RightSon(n) \in S
    BY <1>2, <2>1
  <2> QED
    BY <2>2, <2>3, <2>4
<1>3. TreesTo[MaxHeight] \subseteq S
  <2> HIDE DEF S
  <2>1. MaxHeight \in 0 .. MaxHeight
    BY HeightIs
  <2> QED
    BY <1>1, <1>2, <2>1, TreeInduction
<1> QED
  BY <1>3, HeightIs

\* The size a node caches is the number of its nodes.
LEMMA SizeIsTrue ==
  \A n \in Trees : n \in Good => TrueSize[n] = SizeOf(n)
<1> DEFINE S == {n \in Trees : n \in Good => TrueSize[n] = SizeOf(n)}
<1>1. Null \in S
  BY TrueSizeIs, HeightIs DEF SizeOf
<1>2. ASSUME NEW h \in 0 .. MaxHeight - 1, TreesTo[h] \subseteq S
      PROVE  NodesOver(TreesTo[h]) \subseteq S
  <2> SUFFICES ASSUME NEW n \in NodesOver(TreesTo[h]), n \in Good
               PROVE  TrueSize[n] = SizeOf(n)
    BY NodeInTrees
  <2>1. n \in Trees /\ n # Null /\ LeftSon(n) \in TreesTo[h] /\ RightSon(n) \in TreesTo[h]
    BY NodeInTrees
  <2>2. LeftSon(n) \in Good /\ RightSon(n) \in Good /\ n \in Sized
    BY <2>1, GoodIs DEF Local
  <2>3. TrueSize[LeftSon(n)] = SizeOf(LeftSon(n)) /\ TrueSize[RightSon(n)] = SizeOf(RightSon(n))
    BY <1>2, <2>1, <2>2
  <2>4. TrueSize[n] = 1 + TrueSize[LeftSon(n)] + TrueSize[RightSon(n)]
    BY <2>1, TrueSizeIs
  <2>5. SizeOf(LeftSon(n)) = SizeOf(n.left) /\ SizeOf(RightSon(n)) = SizeOf(n.right)
    BY <2>1, SonsSame
  <2>6. SizeOf(LeftSon(n)) \in Nat /\ SizeOf(RightSon(n)) \in Nat
    BY <2>2, SumsOf
  <2>7. n.TreeSize = SizeOf(n.left) + SizeOf(n.right) + 1 /\ SizeOf(n) = n.TreeSize
    BY <2>1, <2>2, SizedIs DEF SizedOver, SizeOf
  <2> HIDE DEF S
  <2>8. SizeOf(n) = SizeOf(LeftSon(n)) + SizeOf(RightSon(n)) + 1
    BY <2>5, <2>7, Zenon
  <2>9. TrueSize[n] = 1 + SizeOf(LeftSon(n)) + SizeOf(RightSon(n))
    BY <2>3, <2>4, Zenon
  <2> QED
    BY <2>6, <2>8, <2>9
<1>3. TreesTo[MaxHeight] \subseteq S
  <2> HIDE DEF S
  <2>1. MaxHeight \in 0 .. MaxHeight
    BY HeightIs
  <2> QED
    BY <1>1, <1>2, <2>1, TreeInduction
<1> QED
  BY <1>3, HeightIs

\* A range that holds valid points and is touched by them is their extremes.
LEMMA RangeTight ==
  ASSUME NEW n \in Good, n # Null, Valid(n) # {}, NEW a \in Axes
  PROVE  n.lo[a] = Min({p[a] : p \in Valid(n)}) /\ n.hi[a] = Max({p[a] : p \in Valid(n)})
<1>1. n \in Trees /\ Tight(n) /\ n.lo \in [Axes -> Int] /\ n.hi \in [Axes -> Int]
  BY GoodIs, TreeFields DEF Local
<1> DEFINE V == Valid(n)
           s == flatten[n]
           lo == Min({p[a] : p \in V})
           hi == Max({p[a] : p \in V})
<1>2. V \in SUBSET [Axes -> Int] /\ V # {}
  BY <1>1, ValidIs, PointsAre
<1>3. IsFiniteSet(V)
  <2>1. DOMAIN s = 1 .. Len(s) /\ Len(s) \in Nat
    BY <1>1, NumPlaces
  <2>2. \A i \in 1 .. Len(s) : s[i] \in V
    BY <2>1 DEF Valid, Elements
  <2>3. \A p \in V : \E i \in 1 .. Len(s) : s[i] = p
    BY <2>1 DEF Valid, Elements
  <2>4. s = [i \in 1 .. Len(s) |-> s[i]]
    <3>1. s \in Seq(Points)
      BY <1>1, NumPlaces
    <3> HIDE DEF s
    <3> QED
      BY <3>1
  <2> HIDE DEF V, s
  <2>5. s \in [1 .. Len(s) -> V]
    BY <2>2, <2>4
  <2>6. s \in Surjection(1 .. Len(s), V)
    BY <2>3, <2>5, Fun_IsSurj
  <2>7. IsFiniteSet(1 .. Len(s))
    BY <2>1, UpToIs
  <2> QED
    BY <2>6, <2>7, FS_Surjection
<1> HIDE DEF V
<1>4. /\ lo \in Int /\ hi \in Int
      /\ \A c \in V : lo <= c[a] /\ c[a] <= hi
      /\ \E c \in V : lo = c[a]
      /\ \E c \in V : hi = c[a]
  BY <1>2, <1>3, CornersOf
<1> HIDE DEF lo, hi
<1>5. /\ \A p \in V : n.lo[a] <= p[a] /\ p[a] <= n.hi[a]
      /\ \E p \in V : p[a] = n.lo[a]
      /\ \E p \in V : p[a] = n.hi[a]
  BY <1>1, Zenon DEF Tight, V
<1>6. n.lo[a] \in Int /\ n.hi[a] \in Int /\ \A p \in V : p[a] \in Int
  BY <1>1, <1>2
<1>7. n.lo[a] = lo
  <2>1. PICK c \in V : lo = c[a]
    BY <1>4
  <2>2. PICK p \in V : p[a] = n.lo[a]
    BY <1>5
  <2>3. n.lo[a] <= lo /\ lo <= n.lo[a]
    BY <1>4, <1>5, <2>1, <2>2
  <2> QED
    BY <1>4, <1>6, <2>3
<1>8. n.hi[a] = hi
  <2>1. PICK c \in V : hi = c[a]
    BY <1>4
  <2>2. PICK p \in V : p[a] = n.hi[a]
    BY <1>5
  <2>3. hi <= n.hi[a] /\ n.hi[a] <= hi
    BY <1>4, <1>5, <2>1, <2>2
  <2> QED
    BY <1>4, <1>6, <2>3
<1> QED
  BY <1>7, <1>8 DEF lo, hi, V

-----------------------------------------------------------------------------
(* The invariants the runs check.                                          *)

\* In a tree in order the fields are of their types and some node is left.
LEMMA OrderImpliesType ==
  ASSUME InOrder
  PROVE  TypeOK
<1>1. tree # Null /\ ops \in 0 .. MaxOps /\ live \subseteq Points
  BY LevelIn, ValidIs DEF InOrder
<1>2. ASSUME NEW n \in Nodes[tree]
      PROVE  /\ n.point \in Points /\ n.division_axis \in Axes
             /\ n.TreeSize \in Nat \ {0}
             /\ {n.invalid_point_num, n.down_del_num} \subseteq 0 .. n.TreeSize
             /\ {n.point_deleted, n.tree_deleted, n.point_downsample_deleted,
                 n.tree_downsample_deleted, n.need_push_down_to_left,
                 n.need_push_down_to_right} \subseteq BOOLEAN
  <2>1. n \in Good /\ n # Null /\ n \in Trees
    BY LevelIn, NodesGood, GoodIs DEF InOrder
  <2>2. /\ n.point \in Points /\ n.division_axis \in Axes
        /\ n.TreeSize \in Nat /\ n.invalid_point_num \in Nat /\ n.down_del_num \in Nat
        /\ n.point_deleted \in BOOLEAN /\ n.tree_deleted \in BOOLEAN
        /\ n.point_downsample_deleted \in BOOLEAN /\ n.tree_downsample_deleted \in BOOLEAN
        /\ n.need_push_down_to_left \in BOOLEAN /\ n.need_push_down_to_right \in BOOLEAN
    BY <2>1, TreeFields
  <2>3. n \in Sized /\ n.invalid_point_num + Num(n, Points) = n.TreeSize /\ Num(n, Points) \in Nat
    BY <2>1, GoodIs, NumIs DEF Local, SumsRight
  <2>4. /\ n.TreeSize = SizeOf(n.left) + SizeOf(n.right) + 1 /\ n.down_del_num <= n.TreeSize
        /\ n.left \in Sized /\ n.right \in Sized
    BY <2>1, <2>3, SizedIs DEF SizedOver
  <2>5. SizeOf(n.left) \in Nat /\ SizeOf(n.right) \in Nat
    <3>1. \A s \in Trees : SizeOf(s) \in Nat
      BY TreeFields DEF SizeOf
    <3> QED
      BY <2>4, <3>1, SizedIs
  <2>6. n.TreeSize # 0
    BY <2>4, <2>5
  <2>7. n.invalid_point_num \in 0 .. n.TreeSize /\ n.down_del_num \in 0 .. n.TreeSize
    BY <2>2, <2>3, <2>4
  <2> QED
    BY <2>2, <2>6, <2>7
<1> QED
  BY <1>1, <1>2, Zenon DEF TypeOK

\* The cached sums are right and the balance is kept.
LEMMA OrderImpliesOrder ==
  ASSUME InOrder
  PROVE  TreeInOrder
<1>1. ASSUME NEW n \in Nodes[tree]
      PROVE  /\ n.TreeSize = TrueSize[n]
             /\ n.invalid_point_num = n.TreeSize - Len(flatten[n])
             /\ n.tree_deleted <=> Elements(flatten[n]) = {}
             /\ Elements(flatten[n]) # {} =>
                  \A a \in Axes : /\ n.lo[a] = Min({p[a] : p \in Elements(flatten[n])})
                                  /\ n.hi[a] = Max({p[a] : p \in Elements(flatten[n])})
             /\ n.tree_deleted \/ ~Criterion_Check(n)
  <2>1. n \in Good /\ n # Null /\ n \in Trees
    BY LevelIn, NodesGood, GoodIs DEF InOrder
  <2>2. n.TreeSize = TrueSize[n]
    BY <2>1, SizeIsTrue DEF SizeOf
  <2>3. Local(n)
    BY <2>1, GoodIs
  <2>4. n.tree_deleted <=> Elements(flatten[n]) = {}
    BY <2>3, Zenon DEF Local, SumsRight, Valid
  <2>5. n.invalid_point_num = n.TreeSize - Len(flatten[n])
    <3> DEFINE l == Len(flatten[n])
    <3>1. n.invalid_point_num + l = n.TreeSize /\ l \in Nat
      <4>1. Num(n, Points) = l /\ Num(n, Points) \in Nat
        BY <2>1, NumIs
      <4> QED
        BY <2>3, <4>1, Zenon DEF Local, SumsRight
    <3>2. n.invalid_point_num \in Nat
      BY <2>1, TreeFields
    <3> HIDE DEF l
    <3>3. n.invalid_point_num = n.TreeSize - l
      BY <3>1, <3>2
    <3> QED
      BY <3>3 DEF l
  <2>6. n.tree_deleted \/ ~Criterion_Check(n)
    BY <2>3, Zenon DEF Local, Balanced
  <2>7. ASSUME Elements(flatten[n]) # {}, NEW a \in Axes
        PROVE  /\ n.lo[a] = Min({p[a] : p \in Elements(flatten[n])})
               /\ n.hi[a] = Max({p[a] : p \in Elements(flatten[n])})
    <3>1. Valid(n) # {}
      BY <2>7, Zenon DEF Valid
    <3>2. n.lo[a] = Min({p[a] : p \in Valid(n)}) /\ n.hi[a] = Max({p[a] : p \in Valid(n)})
      BY <2>1, <3>1, RangeTight
    <3> QED
      BY <3>2, Zenon DEF Valid
  <2> QED
    BY <2>2, <2>4, <2>5, <2>6, <2>7, Zenon
<1>2. SummariesRight
  BY <1>1, Zenon DEF SummariesRight
<1>3. BalanceKept
  BY <1>1, Zenon DEF BalanceKept
<1> QED
  BY <1>2, <1>3 DEF TreeInOrder

\* The searches are exact.
LEMMA OrderImpliesSearches ==
  ASSUME InOrder
  PROVE  SearchesExact
<1>1. tree \in Good /\ tree # Null /\ tree \in TreesTo[Level] /\ Level \in 0 .. MaxHeight - 1
  BY LevelIn DEF InOrder
<1>2. NearestExact
  <2>1. \A p \in Queries, d \in MaxDists : ExactFor(tree, p, d)
    BY <1>1, NearestRight, PointsAre, BoundsAre
  <2> QED
    BY <2>1, Zenon DEF NearestExact, ExactFor
<1>3. BoxesExact
  <2>1. \A b \in Boxes \cup {Box_of_Point(p) : p \in Points} : IsBox(b)
    BY BoundsAre, BoxOfPoint
  <2>2. \A b \in Boxes \cup {Box_of_Point(p) : p \in Points} : ExactIn(tree, b)
    BY <1>1, <2>1, BoxRight
  <2> QED
    BY <2>2, Zenon DEF BoxesExact, ExactIn
<1>4. CellKeepsNearest
  <2>1. \A p \in Points, tie \in Ties : KeptFor(tree, p, tie)
    BY <1>1, CellRight
  <2> QED
    BY <2>1, Zenon DEF CellKeepsNearest, KeptFor
<1> QED
  BY <1>2, <1>3, <1>4 DEF SearchesExact

-----------------------------------------------------------------------------
(* The theorems.                                                           *)

(* The invariant: after any insertions, deletions and searches, in any order,
   a walk of the tree comes only to nodes whose sums, range, flags and balance
   are right (Update, Push_Down, Rebuild). *)
THEOREM Invariance == Spec => []InOrder
<1>1. Init => InOrder
  BY InitInOrder
<1>2. InOrder /\ [Next]_vars => InOrder'
  BY NextInOrder
<1> QED
  BY <1>1, <1>2, PTL DEF Spec

(* The root never becomes nullptr, so that Add_Points may read its axis, and no
   count of deleted points leaves 0 .. TreeSize: for any points and boxes, any
   order of equal points in nth_element, any number of operations. *)
THEOREM TypeCorrect == Spec => []TypeOK
<1>1. InOrder => TypeOK
  BY OrderImpliesType
<1> QED
  BY <1>1, Invariance, PTL

(* Whatever deletions are still pending, every node's cached size, number of
   deleted points, tree_deleted and range are those of its subtree, and no
   subtree with a valid point is left for Criterion_Check to rebuild. *)
THEOREM TreeKeptInOrder == Spec => []TreeInOrder
<1>1. InOrder => TreeInOrder
  BY OrderImpliesOrder
<1> QED
  BY <1>1, Invariance, PTL

(* Nearest_Search finds as many points within every distance as a look at all
   of them would, up to KNearest, though it skips sons by their ranges and keeps
   a heap; Search_by_range and Delete_by_range find the points of the box; a
   down-sampled insertion leaves the point nearest to the middle of its cell. *)
THEOREM SearchesFindAll == Spec => []SearchesExact
<1>1. InOrder => SearchesExact
  BY OrderImpliesSearches
<1> QED
  BY <1>1, Invariance, PTL

\* Every operation is one change of the store, or none.
LEMMA StepImplements ==
  ASSUME InOrder, InOrder', [Next]_vars
  PROVE  [Store!StoreNext]_(Store!vars)
<1>0. live = Valid(tree)
  BY DEF InOrder
<1>1. ASSUME NEW p \in Points, AddPoint(p) PROVE Store!StoreNext
  <2>1. PICK tie \in Ties : Changed(Add_by_point(tree, p, tie))
    BY <1>1, Zenon DEF AddPoint
  <2>2. live' = Valid(Add_by_point(tree, p, tie))
    BY <2>1, Zenon DEF Changed, Becomes, Valid
  <2>3. live' = live \cup {p}
    BY <1>0, <2>2, AddMakes
  <2> QED
    BY <2>3 DEF Store!StoreNext, Store!Change, Store!AddPoint
<1>2. ASSUME NEW p \in Points, AddDownsampled(p) PROVE Store!StoreNext
  <2> DEFINE B == In(Box_of_Point(p))
  <2>1. PICK tie \in Ties : Changed(AddedDownsampled(tree, p, tie))
    BY <1>2, Zenon DEF AddDownsampled
  <2>2. live' = Valid(AddedDownsampled(tree, p, tie))
    BY <2>1, Zenon DEF Changed, Becomes, Valid
  <2>3. PICK r \in B : live' = (live \ B) \cup {r}
    BY <1>0, <2>2, DownsampledMakes
  <2>4. B \in StoreBoxes
    BY DEF StoreBoxes, PointsInside, In
  <2> HIDE DEF B
  <2> QED
    BY <2>3, <2>4 DEF Store!StoreNext, Store!Change, Store!ReplaceBox
<1>3. ASSUME NEW b \in Boxes, DeleteBox(b) PROVE Store!StoreNext
  <2> DEFINE B == In(b)
  <2>1. PICK tie \in Ties : Changed(Delete_by_range(tree, b, FALSE, tie).node)
    BY <1>3, Zenon DEF DeleteBox
  <2>2. live' = Valid(Delete_by_range(tree, b, FALSE, tie).node)
    BY <2>1, Zenon DEF Changed, Becomes, Valid
  <2>3. live' = live \ B
    BY <1>0, <2>2, DeleteMakes
  <2>4. B \in StoreBoxes
    BY DEF StoreBoxes, PointsInside, In
  <2> HIDE DEF B
  <2> QED
    BY <2>3, <2>4 DEF Store!StoreNext, Store!Change, Store!DeleteBox
<1>4. ASSUME NEW p \in Queries, NEW d \in MaxDists, NearestSearch(p, d) PROVE UNCHANGED live
  <2>1. live' = Valid(Search(tree, p, d, <<>>).node)
    BY <1>4, Zenon DEF NearestSearch, Walked, Becomes, Valid
  <2> QED
    BY <1>0, <2>1, SearchMakes
<1>5. ASSUME Flatten PROVE UNCHANGED live
  <2>1. live' = Valid(PushedDown[tree])
    BY <1>5, Zenon DEF Flatten, Walked, Becomes, Valid
  <2> QED
    BY <1>0, <2>1, FlattenMakes
<1>6. ASSUME UNCHANGED vars PROVE UNCHANGED live
  BY <1>6 DEF vars
<1>7. UNCHANGED live => UNCHANGED Store!vars
  BY DEF Store!vars
<1> QED
  BY <1>1, <1>2, <1>3, <1>4, <1>5, <1>6, <1>7, Zenon DEF Next

(* The tree implements the abstract store: an insertion, a box deletion or a
   down-sampled insertion changes the set of valid points as it should, and a
   search, a push-down or a rebuild does not change it. *)
THEOREM StoreImplemented == Spec => ImplementsStore
<1>1. InOrder => Store!StoreInit
  BY LevelIn, ValidIs DEF InOrder, Store!StoreInit
<1>2. InOrder /\ InOrder' /\ [Next]_vars => [Store!StoreNext]_(Store!vars)
  BY StepImplements
<1> QED
  BY <1>1, <1>2, Invariance, PTL DEF Spec, ImplementsStore, Store!StoreSpec

=============================================================================
