------------------------------ MODULE IkdTree ------------------------------
(***************************************************************************)
(* The ikd-Tree (class KD_TREE) as its single caller sees it: the nodes,   *)
(* the sums and ranges they cache of their subtrees, lazy deletion, the    *)
(* rebuilding of a subtree that is out of balance, and the searches.       *)
(*                                                                         *)
(* Trees are smaller than Multi_Thread_Rebuild_Point_Num, so Rebuild_Ptr   *)
(* stays null and every rebuild is made at once; the background rebuild is *)
(* IkdRebuild's.  Left out: father_ptr and working_flag, which only that   *)
(* reads; Points_deleted, which only acquire_removed_points reads and      *)
(* nobody calls it; the statistics alpha_bal and alpha_del.  Coordinates   *)
(* are integers and axes are 1 .. 3, not 0 .. 2.                           *)
(***************************************************************************)
EXTENDS Integers, Sequences, FiniteSets, FiniteSetsExt

CONSTANTS
  Points,       \* the points of the map, <<x, y, z>>
  Boxes,        \* boxes to delete or list: [vertex_min |-> .., vertex_max |-> ..]
  Clouds,       \* the clouds Build is given, sequences of points
  Queries,      \* the points whose neighbours are searched
  KNearest,     \* NUM_MATCH_POINTS
  MaxDists,     \* the largest distances a search is given
  CellSize,     \* downsample_size, even
  MinimalUnbalanced,  \* Minimal_Unbalanced_Tree_Size
  DeleteParam,  \* delete_criterion_param, in percent
  BalanceParam, \* balance_criterion_param, in percent
  Infinity,     \* INFINITY: larger than any squared distance
  Null,         \* nullptr
  MaxOps,       \* bound: operations after Build
  MaxHeight     \* bound: the height of a tree

Axes == 1 .. 3
Ties == {1, -1}

\* The trees of a height: Null, or a node over two lower ones.
NodesOver(sons) ==
  [point : Points, division_axis : Axes, left : sons, right : sons,
   TreeSize : Nat, invalid_point_num : Nat, down_del_num : Nat,
   point_deleted : BOOLEAN, tree_deleted : BOOLEAN,
   point_downsample_deleted : BOOLEAN, tree_downsample_deleted : BOOLEAN,
   need_push_down_to_left : BOOLEAN, need_push_down_to_right : BOOLEAN,
   lo : [Axes -> Int], hi : [Axes -> Int]]

TreesTo[h \in Nat] ==
  IF h = 0 THEN {Null} ELSE {Null} \cup NodesOver(TreesTo[h - 1])

Trees == TreesTo[MaxHeight]
LowerTrees == TreesTo[MaxHeight - 1]  \* an insertion may make these higher

ASSUME ConstantsAssumption ==
  /\ Points \subseteq [Axes -> Int] /\ Queries \subseteq [Axes -> Int]
  /\ \A b \in Boxes : {b.vertex_min, b.vertex_max} \subseteq [Axes -> Int]
  /\ \A c \in Clouds : c # <<>> /\ c \in Seq(Points)
  /\ MaxDists \subseteq Nat /\ Infinity \in Int
  /\ KNearest \in Nat \ {0}
  /\ CellSize \in Nat \ {0} /\ CellSize % 2 = 0
  /\ MinimalUnbalanced \in Nat \ {0, 1} /\ DeleteParam \in Nat /\ BalanceParam \in Int
  /\ (BalanceParam - 50) * MinimalUnbalanced >= 50  \* halves are in balance
  /\ MaxOps \in Nat /\ MaxHeight \in Nat \ {0}
  /\ \A c \in Clouds : Len(c) + MaxOps < MaxHeight
  /\ \A h \in 0 .. MaxHeight : Null \notin NodesOver(TreesTo[h])

VARIABLES tree,  \* Root_Node
          live,  \* auxiliary: the valid points, what flatten finds in tree
          ops    \* operations made

vars == <<tree, live, ops>>

-----------------------------------------------------------------------------
(* Geometry.                                                               *)

Inside(p, b) ==
  \A a \in Axes : b.vertex_min[a] <= p[a] /\ p[a] < b.vertex_max[a]

\* The two tests of a box against the range of a node.
Apart(b, n) ==
  \E a \in Axes : b.vertex_max[a] <= n.lo[a] \/ b.vertex_min[a] > n.hi[a]
\* bug: a range that starts at the box's edge is not enclosed
EnclosesOpen(b, n) ==
  \A a \in Axes : b.vertex_min[a] < n.lo[a] /\ b.vertex_max[a] > n.hi[a]
Encloses(b, n) ==
  \A a \in Axes : b.vertex_min[a] <= n.lo[a] /\ b.vertex_max[a] > n.hi[a]

SumOverAxes(f) == f[1] + f[2] + f[3]

calc_dist(p, q) == SumOverAxes([a \in Axes |-> (p[a] - q[a]) * (p[a] - q[a])])

calc_box_dist(n, p) ==
  IF n = Null THEN Infinity
  ELSE LET gap(a) == Max({n.lo[a] - p[a], p[a] - n.hi[a], 0})
       IN  SumOverAxes([a \in Axes |-> gap(a) * gap(a)])

\* The cell of the down-sampling grid a point is in, and its middle.
Box_of_Point(p) ==
  LET low == [a \in Axes |-> (p[a] \div CellSize) * CellSize]
  IN  [vertex_min |-> low, vertex_max |-> [a \in Axes |-> low[a] + CellSize]]

mid_point(b) == [a \in Axes |-> b.vertex_min[a] + CellSize \div 2]

-----------------------------------------------------------------------------
(* Nodes.  Update caches the sums of the sons; the range covers the points *)
(* that are valid, or all of them when none is.                            *)

InitTreeNode(p, axis) ==
  [point |-> p, division_axis |-> axis, left |-> Null, right |-> Null,
   TreeSize |-> 0, invalid_point_num |-> 0, down_del_num |-> 0,
   point_deleted |-> FALSE, tree_deleted |-> FALSE,
   point_downsample_deleted |-> FALSE, tree_downsample_deleted |-> FALSE,
   need_push_down_to_left |-> FALSE, need_push_down_to_right |-> FALSE,
   lo |-> p, hi |-> p]

Count(condition) == IF condition THEN 1 ELSE 0

SizeOf(s) == IF s = Null THEN 0 ELSE s.TreeSize
InvalidOf(s) == IF s = Null THEN 0 ELSE s.invalid_point_num
DownDeletedOf(s) == IF s = Null THEN 0 ELSE s.down_del_num

Update(n) ==
  LET sons == {n.left, n.right} \ {Null}
      dead == n.point_deleted /\ \A s \in sons : s.tree_deleted
      corners == (IF n.point_deleted /\ ~dead THEN {} ELSE {n.point})
                 \cup UNION {{s.lo, s.hi} : s \in {t \in sons : dead \/ ~t.tree_deleted}}
  IN  [n EXCEPT
        !.TreeSize = SizeOf(n.left) + SizeOf(n.right) + 1,
        !.invalid_point_num = InvalidOf(n.left) + InvalidOf(n.right) + Count(n.point_deleted),
        !.down_del_num = DownDeletedOf(n.left) + DownDeletedOf(n.right)
                         + Count(n.point_downsample_deleted),
        !.tree_downsample_deleted = /\ n.point_downsample_deleted
                                    /\ \A s \in sons : s.tree_downsample_deleted,
        !.tree_deleted = dead,
        !.lo = [a \in Axes |-> Min({c[a] : c \in corners})],
        !.hi = [a \in Axes |-> Max({c[a] : c \in corners})]]

\* A son after the deletion pending at its father was passed on to it.
PushedTo(n, s) ==
  LET sampled == s.tree_downsample_deleted \/ n.tree_downsample_deleted
      pointSampled == s.point_downsample_deleted \/ n.tree_downsample_deleted
      deleted == n.tree_deleted \/ sampled
      sampledNum == IF n.tree_downsample_deleted THEN s.TreeSize ELSE s.down_del_num
  IN  [s EXCEPT
        !.tree_downsample_deleted = sampled,
        !.point_downsample_deleted = pointSampled,
        !.tree_deleted = deleted,
        !.point_deleted = deleted \/ pointSampled,
        !.down_del_num = sampledNum,
        !.invalid_point_num = IF n.tree_deleted THEN s.TreeSize ELSE sampledNum,
        !.need_push_down_to_left = TRUE,
        !.need_push_down_to_right = TRUE]

\* bug: the right son is not told
PushDownForgetful(n) ==
  [n EXCEPT !.left = IF n.need_push_down_to_left /\ @ # Null THEN PushedTo(n, @) ELSE @,
            !.need_push_down_to_left = FALSE,
            !.need_push_down_to_right = FALSE]
Push_Down(n) ==
  LET toLeft == n.need_push_down_to_left /\ n.left # Null
      toRight == n.need_push_down_to_right /\ n.right # Null
  IN  [n EXCEPT !.left = IF toLeft THEN PushedTo(n, @) ELSE @,
                !.need_push_down_to_left = @ /\ ~toLeft,
                !.right = IF toRight THEN PushedTo(n, @) ELSE @,
                !.need_push_down_to_right = @ /\ ~toRight]

\* The valid points, in the order the walk of the tree finds them.
flatten[n \in Trees] ==
  IF n = Null THEN <<>>
  ELSE LET r == Push_Down(n)
       IN  (IF r.point_deleted THEN <<>> ELSE <<r.point>>)
           \o flatten[r.left] \o flatten[r.right]

\* The tree after that walk: nothing is left to push down.
PushedDown[n \in Trees] ==
  IF n = Null THEN Null
  ELSE LET r == Push_Down(n)
       IN  [r EXCEPT !.left = PushedDown[@], !.right = PushedDown[@]]

-----------------------------------------------------------------------------
(* Balance.  nth_element may leave points with equal coordinates in any    *)
(* order: `tie', 1 or -1, is the order they come in.                       *)

point_cmp(axis, tie, p, q) ==
  LET next == (axis % 3) + 1
      last == (next % 3) + 1
  IN  \/ p[axis] < q[axis]
      \/ p[axis] = q[axis] /\ tie * p[next] < tie * q[next]
      \/ p[axis] = q[axis] /\ p[next] = q[next] /\ tie * p[last] < tie * q[last]

\* The longest side of a set of points; the first of the longest ones.
DivisionAxis(S) ==
  LET length(a) == Max({p[a] : p \in S}) - Min({p[a] : p \in S})
  IN  CHOOSE a \in Axes :
        \A b \in Axes : length(b) < length(a) \/ (length(b) = length(a) /\ a <= b)

\* A sequence in that order, equal points in the order they had.
Ordered(s, axis, tie) ==
  LET before(i) == {j \in DOMAIN s : \/ point_cmp(axis, tie, s[j], s[i])
                                     \/ s[j] = s[i] /\ j <= i}
  IN  [k \in DOMAIN s |-> s[CHOOSE i \in DOMAIN s : Cardinality(before(i)) = k]]

BuildTree(Storage, tie) ==
  LET build[s \in Seq(Points)] ==
        IF s = <<>> THEN Null
        ELSE LET axis == DivisionAxis({s[i] : i \in DOMAIN s})
                 sorted == Ordered(s, axis, tie)
                 mid == (Len(s) + 1) \div 2
             IN  Update([InitTreeNode(sorted[mid], axis) EXCEPT
                           !.left = build[SubSeq(sorted, 1, mid - 1)],
                           !.right = build[SubSeq(sorted, mid + 1, Len(s))]])
  IN  build[Storage]

Criterion_Check(n) ==
  LET son == IF n.left = Null THEN n.right ELSE n.left
      percent == 100 * son.TreeSize
  IN  /\ n.TreeSize > MinimalUnbalanced
      /\ \/ 100 * n.invalid_point_num > DeleteParam * n.TreeSize
         \/ percent > BalanceParam * (n.TreeSize - 1)
         \/ percent < (100 - BalanceParam) * (n.TreeSize - 1)

\* The end of every operation on a subtree: Update, and Rebuild when it is due.
\* bug: the criterion is tested before Update
SettleOnOldSums(n, tie) ==
  IF Criterion_Check(n) THEN BuildTree(flatten[Update(n)], tie) ELSE Update(n)
Settle(n, tie) ==
  LET u == Update(n)
  IN  IF Criterion_Check(u) THEN BuildTree(flatten[u], tie) ELSE u

-----------------------------------------------------------------------------
(* Operations on a subtree.                                                *)

\* The subtree and the number of points deleted.
Delete_by_range(n, box, is_downsample, tie) ==
  LET delete[m \in Trees] ==
        IF m = Null \/ m.tree_deleted THEN [node |-> m, count |-> 0]
        ELSE
          LET r == Push_Down(m)
              hit == ~r.point_deleted /\ Inside(r.point, box)
              onLeft == delete[r.left]
              onRight == delete[r.right]
          IN  IF Apart(box, r) THEN [node |-> r, count |-> 0]
              ELSE IF Encloses(box, r)
              THEN [node |-> [r EXCEPT
                      !.tree_deleted = TRUE, !.point_deleted = TRUE,
                      !.need_push_down_to_left = TRUE, !.need_push_down_to_right = TRUE,
                      !.invalid_point_num = r.TreeSize,
                      !.tree_downsample_deleted = @ \/ is_downsample,
                      !.point_downsample_deleted = @ \/ is_downsample,
                      !.down_del_num = IF is_downsample THEN r.TreeSize ELSE @],
                    count |-> r.TreeSize - r.invalid_point_num]
              ELSE [node |-> Settle([r EXCEPT
                      !.point_deleted = @ \/ hit,
                      !.point_downsample_deleted = @ \/ (hit /\ is_downsample),
                      !.left = onLeft.node, !.right = onRight.node], tie),
                    count |-> Count(hit) + onLeft.count + onRight.count]
  IN  delete[n]

\* The new leaf a point becomes under a node that divides along axis.
Leaf(p, axis) == Update(InitTreeNode(p, (axis % 3) + 1))

Add_by_point(n, p, tie) ==
  LET add[m \in LowerTrees \ {Null}] ==
        LET r == Push_Down(m)
            under(son) == IF son = Null THEN Leaf(p, r.division_axis) ELSE add[son]
        IN  IF p[r.division_axis] < r.point[r.division_axis]
            THEN Settle([r EXCEPT !.left = under(@)], tie)
            ELSE Settle([r EXCEPT !.right = under(@)], tie)
  IN  add[n]

\* The subtree and the points found.
Search_by_range(n, box) ==
  LET search[m \in Trees] ==
        IF m = Null THEN [node |-> m, found |-> <<>>]
        ELSE
          LET r == Push_Down(m)
              onLeft == search[r.left]
              onRight == search[r.right]
              own == Inside(r.point, box) /\ ~r.point_deleted
          IN  IF Apart(box, r) THEN [node |-> r, found |-> <<>>]
              ELSE IF Encloses(box, r) THEN [node |-> PushedDown[r], found |-> flatten[r]]
              ELSE [node |-> [r EXCEPT !.left = onLeft.node, !.right = onRight.node],
                    found |-> (IF own THEN <<r.point>> ELSE <<>>)
                              \o onLeft.found \o onRight.found]
  IN  search[n]

-----------------------------------------------------------------------------
(* MANUAL_HEAP: the farthest of the neighbours found so far is first.      *)

Heaps == Seq([point : Points, dist : Nat])

Nearer(c, d) ==
  IF c.dist = d.dist THEN c.point[1] < d.point[1] ELSE c.dist < d.dist

Swapped(h, i, j) == [h EXCEPT ![i] = h[j], ![j] = h[i]]

\* The recursions are on pairs of a heap and an index.
FloatUp(h, i) ==
  LET up[at \in Heaps \X Nat] ==
        LET g == at[1]
            j == at[2]
            ancestor == j \div 2
        IN  IF j \in 2 .. Len(g) /\ Nearer(g[ancestor], g[j])
            THEN up[<<Swapped(g, j, ancestor), ancestor>>]
            ELSE g
  IN  up[<<h, i>>]

\* bug: the left son always goes up
MoveDownLeft(h, i) ==
  LET down[at \in Heaps \X Nat] ==
        LET g == at[1]
            j == at[2]
            l == 2 * j
        IN  IF l \in 2 .. Len(g) /\ Nearer(g[j], g[l]) THEN down[<<Swapped(g, j, l), l>>] ELSE g
  IN  down[<<h, i>>]

MoveDown(h, i) ==
  LET down[at \in Heaps \X Nat] ==
        LET g == at[1]
            j == at[2]
            l == 2 * j
            son == IF l < Len(g) /\ Nearer(g[l], g[l + 1]) THEN l + 1 ELSE l
        IN  IF l \in 2 .. Len(g) /\ Nearer(g[j], g[son])
            THEN down[<<Swapped(g, j, son), son>>]
            ELSE g
  IN  down[<<h, i>>]

push(h, c) == IF Len(h) >= 2 * KNearest THEN h ELSE FloatUp(Append(h, c), Len(h) + 1)

pop(h) ==
  IF Len(h) <= 1 THEN <<>>
  ELSE MoveDown(SubSeq([h EXCEPT ![1] = h[Len(h)]], 1, Len(h) - 1), 1)

-----------------------------------------------------------------------------
(* Nearest neighbours.  A son is entered when the heap is not full or the  *)
(* son's range is nearer than the farthest neighbour found; of two such    *)
(* sons, the nearer one first.                                             *)

full(h) == Len(h) >= KNearest

\* A distance that may still be among the neighbours'.
Within(h, d) == ~full(h) \/ d < h[1].dist

Search(n, p, max_dist, q) ==
  LET search[m \in Trees] == [h \in Heaps |->
        IF m = Null \/ m.tree_deleted \/ calc_box_dist(m, p) > max_dist * max_dist
        THEN [node |-> m, heap |-> h]
        ELSE
          LET r == Push_Down(m)
              dist == calc_dist(p, r.point)
              taken == ~r.point_deleted /\ dist <= max_dist /\ Within(h, dist)
              mine == IF taken
                      THEN push(IF full(h) THEN pop(h) ELSE h, [point |-> r.point, dist |-> dist])
                      ELSE h
              distLeft == calc_box_dist(r.left, p)
              distRight == calc_box_dist(r.right, p)
              enter(s, d, g) == IF Within(g, d) THEN search[s][g] ELSE [node |-> s, heap |-> g]
              rightFirst == Within(mine, distLeft) /\ Within(mine, distRight)
                            /\ distRight < distLeft
          IN  IF rightFirst
              THEN LET onRight == enter(r.right, distRight, mine)
                       onLeft == enter(r.left, distLeft, onRight.heap)
                   IN  [node |-> [r EXCEPT !.left = onLeft.node, !.right = onRight.node],
                        heap |-> onLeft.heap]
              ELSE LET onLeft == enter(r.left, distLeft, mine)
                       onRight == enter(r.right, distRight, onLeft.heap)
                   IN  [node |-> [r EXCEPT !.left = onLeft.node, !.right = onRight.node],
                        heap |-> onRight.heap]]
  IN  search[n][q]

\* The neighbours taken from the heap, farthest first, each put in front.
Nearest_Points[h \in Heaps] ==
  IF h = <<>> THEN <<>> ELSE Append(Nearest_Points[pop(h)], h[1])

-----------------------------------------------------------------------------
(* The operations of the class.                                            *)

Built(cloud, tie) == BuildTree(cloud, tie)

\* What is left of a cell: the point nearest to its middle, the new one first.
downsample_result(p, Downsample_Storage) ==
  LET mid == mid_point(Box_of_Point(p))
      dist(i) == calc_dist(Downsample_Storage[i], mid)
      nearer == {i \in DOMAIN Downsample_Storage : dist(i) < calc_dist(p, mid)}
      best == CHOOSE i \in nearer :
                \A j \in nearer : dist(i) < dist(j) \/ (dist(i) = dist(j) /\ i <= j)
  IN  IF nearer = {} THEN p ELSE Downsample_Storage[best]

\* Add_Points with downsample_on, for one of its points.
AddedDownsampled(n, p, tie) ==
  LET box == Box_of_Point(p)
      stored == Search_by_range(n, box)
      result == downsample_result(p, stored.found)
      emptied == IF stored.found = <<>> THEN stored.node
                 ELSE Delete_by_range(stored.node, box, TRUE, tie).node
  IN  IF Len(stored.found) > 1 \/ p = result THEN Add_by_point(emptied, result, tie) ELSE stored.node

Elements(s) == {s[i] : i \in DOMAIN s}

Becomes(t) == tree' = t /\ live' = Elements(flatten[t])
Changed(t) == ops < MaxOps /\ ops' = ops + 1 /\ Becomes(t)
Walked(t) == UNCHANGED ops /\ Becomes(t)

Init ==
  /\ \E c \in Clouds, tie \in Ties : tree = Built(c, tie)
  /\ live = Elements(flatten[tree])
  /\ ops = 0

AddPoint(p) == \E tie \in Ties : Changed(Add_by_point(tree, p, tie))

AddDownsampled(p) == \E tie \in Ties : Changed(AddedDownsampled(tree, p, tie))

DeleteBox(b) == \E tie \in Ties : Changed(Delete_by_range(tree, b, FALSE, tie).node)

\* The searches change the tree too: they push pending deletions down.
NearestSearch(p, max_dist) == Walked(Search(tree, p, max_dist, <<>>).node)

Flatten == Walked(PushedDown[tree])

Next ==
  \/ \E p \in Points : AddPoint(p)
  \/ \E p \in Points : AddDownsampled(p)
  \/ \E b \in Boxes : DeleteBox(b)
  \/ \E p \in Queries, d \in MaxDists : NearestSearch(p, d)
  \/ Flatten

Spec == Init /\ [][Next]_vars

-----------------------------------------------------------------------------
(* Properties.                                                             *)

\* The nodes, with the deletions pending above them.
Nodes[n \in Trees] ==
  IF n = Null THEN {}
  ELSE LET r == Push_Down(n) IN {r} \cup Nodes[r.left] \cup Nodes[r.right]

\* How many there are.
TrueSize[n \in Trees] ==
  IF n = Null THEN 0
  ELSE LET r == Push_Down(n) IN 1 + TrueSize[r.left] + TrueSize[r.right]

\* The tree is never empty, so that Add_Points may read the root's axis, and
\* its fields are of their types.
TypeOK ==
  /\ tree # Null
  /\ ops \in 0 .. MaxOps /\ live \subseteq Points
  /\ \A n \in Nodes[tree] :
       /\ n.point \in Points /\ n.division_axis \in Axes
       /\ n.TreeSize \in Nat \ {0}
       /\ {n.invalid_point_num, n.down_del_num} \subseteq 0 .. n.TreeSize
       /\ {n.point_deleted, n.tree_deleted, n.point_downsample_deleted,
           n.tree_downsample_deleted, n.need_push_down_to_left,
           n.need_push_down_to_right} \subseteq BOOLEAN

\* What every node caches of its subtree (Update, Push_Down, the two deletions):
\* its size, the number of deleted points, whether all are, and a range no valid
\* point is outside of and every side of which a valid point touches.
SummariesRight ==
  \A n \in Nodes[tree] :
    LET valid == flatten[n]
        set == Elements(valid)
    IN  /\ n.TreeSize = TrueSize[n]
        /\ n.invalid_point_num = n.TreeSize - Len(valid)
        /\ n.tree_deleted <=> set = {}
        /\ set # {} => \A a \in Axes : /\ n.lo[a] = Min({p[a] : p \in set})
                                      /\ n.hi[a] = Max({p[a] : p \in set})

\* After every operation no subtree with a valid point is due for a rebuild:
\* Criterion_Check was made at every node whose sums have changed.
BalanceKept ==
  \A n \in Nodes[tree] : n.tree_deleted \/ ~Criterion_Check(n)

\* Whatever the order of insertions, deletions, push-downs and rebuilds, the sums
\* the nodes cache are right and the balance they are there to keep is kept.
TreeInOrder == SummariesRight /\ BalanceKept

\* A nearest search skips no neighbour: what it finds are valid points, sorted by
\* their distance, and within every distance as many as a look at all the valid
\* points that are near enough would find, up to KNearest.
NearestExact ==
  LET valid == flatten[tree]
  IN  \A p \in Queries, d \in MaxDists :
        LET found == Nearest_Points[Search(tree, p, d, <<>>).heap]
            near(e) == {i \in DOMAIN valid : calc_dist(p, valid[i]) <= Min({d, e})}
        IN  /\ \A i \in DOMAIN found : /\ found[i].point \in Elements(valid)
                                       /\ found[i].dist = calc_dist(p, found[i].point)
            /\ \A i, j \in DOMAIN found : i <= j => found[i].dist <= found[j].dist
            /\ \A q \in Points :
                 LET e == calc_dist(p, q)
                 IN  Cardinality({i \in DOMAIN found : found[i].dist <= e})
                       = Min({KNearest, Cardinality(near(e))})

\* A box lists, and its deletion counts, exactly the valid points inside: no
\* subtree is passed over by its range, or taken whole, wrongly.
BoxesExact ==
  LET valid == flatten[tree]
  IN  \A b \in Boxes \cup {Box_of_Point(p) : p \in Points} :
        LET inside == {i \in DOMAIN valid : Inside(valid[i], b)}
            found == Search_by_range(tree, b).found
        IN  /\ Len(found) = Cardinality(inside)
            /\ Elements(found) = {valid[i] : i \in inside}
            /\ \A ds \in BOOLEAN, tie \in Ties :
                 Delete_by_range(tree, b, ds, tie).count = Cardinality(inside)

\* A down-sampled insertion leaves one point in its cell, and none of the points
\* that were there, or was offered, is nearer to the middle.
CellKeepsNearest ==
  \A p \in Points, tie \in Ties :
    LET b == Box_of_Point(p)
        offered == {q \in Elements(flatten[tree]) \cup {p} : Inside(q, b)}
        after == flatten[AddedDownsampled(tree, p, tie)]
    IN  \E k \in DOMAIN after :
          /\ {i \in DOMAIN after : Inside(after[i], b)} = {k}
          /\ after[k] \in offered
          /\ \A q \in offered :
               calc_dist(after[k], mid_point(b)) <= calc_dist(q, mid_point(b))

\* What the nearest, the box and the down-sampling searches find is what a look
\* at every valid point would find.
SearchesExact == NearestExact /\ BoxesExact /\ CellKeepsNearest

\* The tree is an abstract store of points: pushing deletions down, rebuilding
\* and searching neither lose a point nor bring a deleted one back.
PointsInside(b) == {p \in Points : Inside(p, b)}

StoreBoxes ==
  {PointsInside(b) : b \in Boxes \cup {Box_of_Point(p) : p \in Points}}

Store == INSTANCE PointStore WITH
  Boxes <- StoreBoxes, points <- live, exact <- TRUE

ImplementsStore == Store!StoreSpec
=============================================================================
