------------------------------ MODULE ContourDB ------------------------------
(***************************************************************************)
(* The database of the contour-context loop search                         *)
(* (include/LoopCloser/ContourContext/cont2/contour_db.h, contour_db.cpp)  *)
(* as LoopCloser::detectLoopContourContext drives it: for every completed  *)
(* submap one query, one addScan, one pushAndBalance.                      *)
(*                                                                         *)
(* One layer (LayerDB) is modelled; the layers of q_levels_ are            *)
(* independent of each other.  A layer is a row of buckets, each with a    *)
(* range of the first channel of the keys, a k-d tree and a buffer of keys *)
(* too young to be matched.  Keys are told apart by that channel only, so  *)
(* a tree is a bag of values and the distance of two keys is the distance  *)
(* of their values: the other channels can only add to it.  The sizes 100  *)
(* and the ratio 0.2 of the code are kept, a scan brings keys by the       *)
(* dozen.                                                                  *)
(***************************************************************************)
EXTENDS Integers, Sequences, FiniteSetsExt

CONSTANTS
  MaxBucketVal,  \* MAX_BUCKET_VAL: the buckets cover all values below it in size
  Values,        \* values of the bucket channel, integers
  NumBuckets,    \* max_num_backets_
  ScanKeys,      \* what a scan may bring: functions from Values to counts
  MinElapse,     \* min_elapse_: younger keys stay in the buffer
  MaxElapse,     \* max_elapse_: a buffer with an older key must be popped
  KNearest,      \* nnk_
  MaxDistSq,     \* dist_ub of queryRangedKNN
  MaxScans       \* bound: submaps completed

MinElemSplit == 100     \* min_elem_split_

ASSUME ConstantsAssumption ==
  /\ MaxBucketVal \in Nat /\ Values \subseteq 0 - MaxBucketVal .. MaxBucketVal - 1
  /\ NumBuckets \in Nat /\ NumBuckets > 2
  /\ ScanKeys \subseteq [Values -> Nat]
  /\ MinElapse \in Nat /\ MaxElapse \in Nat /\ MinElapse <= MaxElapse
  /\ KNearest \in Nat \ {0} /\ MaxDistSq \in Nat /\ MaxScans \in Nat

VARIABLES
  buckets,   \* buckets_: tree (data_tree_), index (tree_ptr), buffer (buffer_)
  ranges,    \* bucket_ranges_, and buc_beg_, buc_end_ of the buckets
  scans,     \* completed submaps so far, the _idInStrip of the next
  added      \* history: every key ever pushed

vars == <<buckets, ranges, scans, added>>

Buckets == 0 .. NumBuckets - 1
Lowest  == 0 - MaxBucketVal
Highest == MaxBucketVal

NoKeys == [v \in Values |-> 0]

(* How many keys there are at the places S. *)
Amount(counts, S) == Cardinality(UNION {{x} \X (1 .. counts[x]) : x \in S})

Size(tree) == Amount(tree, Values)

(* The members of a set in the order of their ranks. *)
Ranked(rank) ==
  [k \in 1 .. Cardinality(DOMAIN rank) |-> CHOOSE x \in DOMAIN rank : rank[x] = k]

Ascending(S) == Ranked([v \in S |-> Cardinality({w \in S : w <= v})])

(* Time stamps: System passes 2 * _idInStrip. *)
Stamp(id) == 2 * id

Init ==
  /\ buckets = [b \in Buckets |-> [tree |-> NoKeys, index |-> "none", buffer |-> <<>>]]
  /\ ranges = [i \in 0 .. NumBuckets |-> IF i = 0 THEN Lowest ELSE Highest]
  /\ scans = 0
  /\ added = NoKeys

-----------------------------------------------------------------------------
(* Buffers *)

Holds(rs, b, v) == rs[b] <= v /\ v < rs[b + 1]

(* pushBuffer for every key of a scan; keys of one value are one entry. *)
Pushed(bs, keys, ts) ==
  [b \in Buckets |->
     LET mine == Ascending({v \in Values : keys[v] > 0 /\ Holds(ranges, b, v)})
     IN  [bs[b] EXCEPT !.buffer =
            @ \o [i \in DOMAIN mine |-> [value |-> mine[i], ts |-> ts, count |-> keys[mine[i]]]]]]

NeedPop(bk, now) == bk.buffer # <<>> /\ bk.buffer[1].ts <= now - MaxElapse

CountOf(entries, v) ==
  Amount([i \in DOMAIN entries |-> entries[i].count], {i \in DOMAIN entries : entries[i].value = v})

(* popBufferMax: the index is rebuilt if something was popped. *)
PopBufferMax(bk, now) ==
  LET young == {i \in DOMAIN bk.buffer : bk.buffer[i].ts >= now - MinElapse}
      gap   == IF young = {} THEN Len(bk.buffer) ELSE Min(young) - 1
  IN  IF gap = 0 THEN bk
      ELSE [tree   |-> [v \in Values |-> bk.tree[v] + CountOf(SubSeq(bk.buffer, 1, gap), v)],
            index  |-> "current",
            buffer |-> SubSeq(bk.buffer, gap + 1, Len(bk.buffer))]

PopIf(need, bk, now) == IF need THEN PopBufferMax(bk, now) ELSE bk

(* Mutant: merged buffers are left as they are. *)
NotSorted(s, K) ==
  LET order == Ascending(K)
  IN  [k \in DOMAIN order |-> s[order[k]]]

(* The entries at the places K of a buffer, in the order of their stamps.  *)
Sorted(s, K) ==
  LET order == Ranked([i \in K |->
                 Cardinality({j \in K : s[j].ts < s[i].ts \/ (s[j].ts = s[i].ts /\ j <= i)})])
  IN  [k \in DOMAIN order |-> s[order[k]]]

-----------------------------------------------------------------------------
(* Balancing two neighbours *)

(* The values of the keys that come before a key when a tree is sorted     *)
(* from the boundary the two trees share: from the top in the lower tree,  *)
(* from the bottom in the upper one.                                       *)
Nearer(v, w, fromTop) == IF fromTop THEN v > w ELSE v < w
Before(v, fromTop) == {w \in Values : Nearer(w, v, fromTop)}

(* The sorted tree: for every value in it, the place of its last key.      *)
SortPermu(tree, fromTop) ==
  [v \in {v \in Values : tree[v] > 0} |-> Amount(tree, Before(v, fromTop) \cup {v})]

(* The n-th key.  Out of bounds (SplitInBounds) it is a value no key has.  *)
Nth(sorted, n, fromTop) ==
  LET reached == {v \in DOMAIN sorted : sorted[v] >= n}
  IN  IF n >= 1 /\ reached # {}
      THEN CHOOSE v \in reached : \A w \in reached : ~Nearer(w, v, fromTop)
      ELSE Highest

(* How many keys the larger tree gives away: about half the difference, at *)
(* a place where the value changes, and 0 if there is none near enough.    *)
NumToMove(sorted, large, small, fromTop) ==
  LET maxMove == (5 * (large - small) + small) \div 9
      mid     == (large - small) \div 2
      minMove == Max({0, (5 * (large - small) - large) \div 9})
      strip   == Nth(sorted, mid, fromTop)
      fewer   == {i \in minMove + 1 .. mid - 1 : Nth(sorted, i, fromTop) # strip}
      more    == {i \in mid + 1 .. maxMove - 1 : Nth(sorted, i, fromTop) # strip}
  IN  CASE Nth(sorted, mid + 1, fromTop) # strip -> mid
        [] Nth(sorted, mid + 1, fromTop) = strip /\ fewer # {} -> Max(fewer)
        [] Nth(sorted, mid + 1, fromTop) = strip /\ fewer = {} /\ more # {} -> Min(more) - 1
        [] OTHER -> 0

(* Mutant: the lowest key given away, also when keys are given downwards. *)
SplitValueGiven(sorted, n, fromTop) == Nth(sorted, n, fromTop)

(* The new boundary: the lowest key the upper tree has after the move. *)
SplitValue(sorted, n, fromTop) ==
  IF fromTop THEN Nth(sorted, n, TRUE) ELSE Nth(sorted, n + 1, FALSE)

Touched(index) == IF index = "current" THEN "stale" ELSE index

(* Mutant: keys past the n-th are taken back. *)
GivenAndTaken(tree, n, fromTop) ==
  [v \in Values |-> Min({tree[v], n - Amount(tree, Before(v, fromTop))})]

(* The n keys of a tree nearest to the boundary. *)
Given(tree, n, fromTop) ==
  [v \in Values |-> Max({0, Min({tree[v], n - Amount(tree, Before(v, fromTop))})})]

(* The two buckets after the move: n keys change trees, the buffers are    *)
(* redistributed by the new boundary.                                      *)
Divided(low, high, n, split, fromTop) ==
  LET moved == Given(IF fromTop THEN low.tree ELSE high.tree, n, fromTop)
      toHigh == [v \in Values |-> IF fromTop THEN moved[v] ELSE 0 - moved[v]]
      all == low.buffer \o high.buffer
  IN  [low  |-> [tree   |-> [v \in Values |-> low.tree[v] - toHigh[v]],
                 index  |-> Touched(low.index),
                 buffer |-> Sorted(all, {i \in DOMAIN all : all[i].value < split})],
       high |-> [tree   |-> [v \in Values |-> high.tree[v] + toHigh[v]],
                 index  |-> Touched(high.index),
                 buffer |-> Sorted(all, {i \in DOMAIN all : all[i].value >= split})]]

Sizes(low, high)   == {Size(low.tree), Size(high.tree)}
Larger(low, high)  == Max(Sizes(low, high))
Smaller(low, high) == Min(Sizes(low, high))

(* Sizes of trees that are not balanced if only one buffer is due. *)
Alike(large, small) == 5 * (large - small) < large \/ large < MinElemSplit

(* The two trees are balanced: a buffer is due and their sizes differ. *)
Balances(popLow, popHigh, large, small) ==
  /\ popLow \/ popHigh
  /\ ~(popLow # popHigh /\ Alike(large, small))
  /\ 10 * (large - small) >= large

(* LayerDB::rebuild of bucket t and its upper neighbour. *)
Rebuilt(bs, t, now) ==
  LET low      == bs[t]
      high     == bs[t + 1]
      popLow   == NeedPop(low, now)
      popHigh  == NeedPop(high, now)
      large    == Larger(low, high)
      small    == Smaller(low, high)
      balances == Balances(popLow, popHigh, large, small)
      lowGives == Size(low.tree) > Size(high.tree)
      giver == IF lowGives THEN low.tree ELSE high.tree
      sorted == SortPermu(giver, lowGives)
      num   == NumToMove(sorted, large, small, lowGives)
      split == SplitValue(sorted, num, lowGives)
      parts == Divided(low, high, num, split, lowGives)
      Result(l, h, rs) == [buckets |-> [bs EXCEPT ![t] = l, ![t + 1] = h], ranges |-> rs]
  IN  CASE ~balances ->
             Result(PopIf(popLow, low, now), PopIf(popHigh, high, now), ranges)
        [] balances /\ num = 0 ->
             Result(PopIf(popLow \/ lowGives, low, now), PopIf(popHigh \/ ~lowGives, high, now), ranges)
        [] OTHER ->
             Result(PopBufferMax(parts.low, now), PopBufferMax(parts.high, now),
                    [ranges EXCEPT ![t + 1] = split])

-----------------------------------------------------------------------------
(* pushAndBalance: the pairs of neighbours in turn, up and down again. *)
PairFor(seed) ==
  LET i == seed % (2 * (NumBuckets - 2))
  IN  IF i > NumBuckets - 2 THEN 2 * (NumBuckets - 2) - i ELSE i

(* A submap is completed: addScan, pushAndBalance. *)
DetectLoop(keys) ==
  LET pushed == Pushed(buckets, keys, Stamp(scans))
      after  == Rebuilt(pushed, PairFor(scans), Stamp(scans))
  IN  /\ scans < MaxScans
      /\ buckets' = after.buckets
      /\ ranges' = after.ranges
      /\ scans' = scans + 1
      /\ added' = [v \in Values |-> added[v] + keys[v]]

Next == \E keys \in ScanKeys : DetectLoop(keys)

Spec == Init /\ [][Next]_vars

-----------------------------------------------------------------------------
(* The query: layerKNNSearch.  A list of results in the order of their     *)
(* distances is, for every distance there may be, the number of results    *)
(* that are not farther: keys as far as each other are not told apart.     *)

DistSq(q, v) == (q - v) * (q - v)

Distances(q) == {d \in {DistSq(q, v) : v \in Values} : d < MaxDistSq}

(* At most KNearest keys of a tree, the nearest, all nearer than the limit. *)
Nearest(tree, q, limit) ==
  [d \in Distances(q) |->
     Min({KNearest, Amount(tree, {v \in Values : DistSq(q, v) <= d /\ DistSq(q, v) < limit})})]

(* Two lists sorted into one and cut after KNearest. *)
Merged(s, t) == [d \in DOMAIN s |-> Min({KNearest, s[d] + t[d]})]

(* max_dist_sq_run: the distance of the last of KNearest results. *)
Limit(res) ==
  LET full == {d \in DOMAIN res : res[d] = KNearest}
  IN  IF full = {} THEN MaxDistSq ELSE Min(full)

MidBucket(q) == CHOOSE b \in Buckets : Holds(ranges, b, q)

Indexed(b) == IF buckets[b].index = "none" THEN NoKeys ELSE buckets[b].tree

(* The i-th bucket looked into, and its boundary on the side of the query: *)
(* the one i below the query's, and only if there is none the one i above. *)
Looked(mid, i) == IF i <= mid THEN mid - i ELSE mid + i
(* Mutant: the far boundary of the bucket. *)
FarEdge(mid, i) == IF i <= mid THEN ranges[mid - i] ELSE ranges[Min({mid + i + 1, NumBuckets})]

NearEdge(mid, i) == IF i <= mid THEN ranges[mid - i + 1] ELSE ranges[mid + i]

(* The results res after the i-th bucket, which may be too far away. *)
KnnStep(q, mid, i, res) ==
  LET b == Looked(mid, i)
  IN  IF b \notin Buckets \/ DistSq(q, NearEdge(mid, i)) > Limit(res)
      THEN res
      ELSE Merged(res, Nearest(Indexed(b), q, Limit(res)))

LayerKnn(q) ==
  LET mid == MidBucket(q)
      found[i \in Buckets] ==
        IF i = 0 THEN Nearest(Indexed(mid), q, MaxDistSq) ELSE KnnStep(q, mid, i, found[i - 1])
  IN  found[NumBuckets - 1]

-----------------------------------------------------------------------------
(* Type invariant. *)
TypeOK ==
  /\ buckets \in [Buckets -> [tree : [Values -> Nat], index : {"none", "current", "stale"},
                              buffer : Seq([value : Values, ts : Nat, count : Nat \ {0}])]]
  /\ ranges \in [0 .. NumBuckets -> Lowest .. Highest]
  /\ scans \in 0 .. MaxScans /\ added \in [Values -> Nat]
  /\ \A b \in Buckets : ranges[b] <= ranges[b + 1]

(* Every key ever added is in exactly one tree or buffer, and in the bucket *)
(* whose range it falls into (the checks that end LayerDB::rebuild,         *)
(* contour_db.cpp:317-337): no split, no move between two trees, no         *)
(* redistribution of buffers loses, doubles or misplaces one.               *)
KeysInPlace ==
  \A v \in Values :
    LET HeldBy(b) == buckets[b].tree[v] + CountOf(buckets[b].buffer, v)
    IN  \A b \in Buckets : HeldBy(b) = IF Holds(ranges, b, v) THEN added[v] ELSE 0

(* Two trees that are about to be balanced have keys to split: the code     *)
(* takes the keys on both sides of the middle of the difference of their    *)
(* sizes without a test (contour_db.cpp:122, 228), out of bounds for two    *)
(* empty trees and for trees that differ by one key.  The one-sided test of *)
(* min_elem_split_ does not cover two due buffers: what does is that a      *)
(* bucket in use always has keys enough, since balancing leaves each of two *)
(* trees about four ninths of their keys.                                   *)
SplitInBounds ==
  LET now   == Stamp(scans)
      t     == PairFor(scans)
      large == Larger(buckets[t], buckets[t + 1])
      small == Smaller(buckets[t], buckets[t + 1])
  IN  large - small < 2 =>
        \A keys \in ScanKeys :
          LET bs == Pushed(buckets, keys, now)
          IN  ~Balances(NeedPop(bs[t], now), NeedPop(bs[t + 1], now), large, small)

(* A rebuild of two trees can be made, and keeps the keys where they belong. *)
RebuildSound == KeysInPlace /\ SplitInBounds

(* Buffers are ascending in time ("// ordered, ascending",                  *)
(* contour_db.h:93), which needPopBuffer and popBufferMax rely on, and no  *)
(* key waits longer in one than MaxElapse and one tour over the pairs.      *)
KeysBecomeSearchable ==
  \A b \in Buckets :
    LET buf == buckets[b].buffer
    IN  /\ \A i, j \in DOMAIN buf : i < j => buf[i].ts <= buf[j].ts
        /\ \A i \in DOMAIN buf :
             buf[i].ts >= Stamp(scans) - MaxElapse - Stamp(2 * (NumBuckets - 2))

(* The search prunes soundly: of the buckets it looks into it returns the   *)
(* nearest keys there are, as one search over all their keys would.  (The   *)
(* buckets from MidBucket + 1 to 2 * MidBucket are never looked into.)      *)
KnnOfLookedAt ==
  (\A b \in Buckets : buckets[b].index # "stale") =>
    \A q \in Values :
      LET mid == MidBucket(q)
          seen == {Looked(mid, i) : i \in Buckets} \cap Buckets
          all == [v \in Values |-> Amount([b \in Buckets |-> Indexed(b)[v]], seen)]
      IN  LayerKnn(q) = Nearest(all, q, MaxDistSq)

(* The index of a bucket describes the keys of its tree (contour_db.h:130   *)
(* "Pop max possible from the buffer into the tree, and rebuild the tree",  *)
(* contour_db.cpp:345 "3. rebuild trees" after every move).                 *)
IndexCurrent ==
  \A b \in Buckets : Size(buckets[b].tree) > 0 => buckets[b].index = "current"

-----------------------------------------------------------------------------
=============================================================================
