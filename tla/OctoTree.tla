------------------------------ MODULE OctoTree ------------------------------
(***************************************************************************)
(* One voxel of the voxel map (class OctoTree of VoxelMapper, built        *)
(* without BA_ENABLE, as CMakeLists.txt has it): an octree whose nodes     *)
(* gather points, fit a plane through them, are divided when the points    *)
(* are not planar, and stop being updated when they have seen enough.      *)
(*                                                                         *)
(* A point is the octant it lies in at every layer. Whether the points of  *)
(* a node are planar (initPlane, updatePlane) is any Boolean.              *)
(***************************************************************************)
EXTENDS Integers, Sequences, FiniteSets

CONSTANTS
  Octants,      \* the octants of a node that points fall into
  MaxLayers,    \* _maxLayers: the layer that is not divided
  LayerPoints,  \* _layerPointSizeList: a node of layer l is fit with more points than that
  UpdateSize,   \* _updateSizeThreshold, 5 in the code
  MaxPoints,    \* _maxPointsSize
  CovLimits,    \* the values passed as _maxCovPointsSize: System passes _maxPointsSize
  MaxReceived   \* bound: points the voxel receives

ASSUME ConstantsAssumption ==
  /\ MaxLayers \in Nat /\ UpdateSize \in Nat /\ MaxPoints \in Nat /\ MaxReceived \in Nat
  /\ CovLimits \subseteq Nat /\ IsFiniteSet(Octants)
  /\ LayerPoints \in [0 .. MaxLayers -> Nat]

Point == [1 .. MaxLayers -> Octants]
Node  == UNION {[1 .. l -> Octants] : l \in 0 .. MaxLayers}
Root  == <<>>
Layer(n) == Len(n)

(* The node of layer l on the way to a point, and what lies below a node. *)
Toward(p, l) == SubSeq(p, 1, l)
Above(a, d)  == Layer(a) < Layer(d) /\ Toward(d, Layer(a)) = a

(* Lists of points are kept as bags: their order is never looked at. A list
   has P[p] copies of p. *)
NoPoints     == [p \in Point |-> 0]
With(P, p)   == [P EXCEPT ![p] = @ + 1]
Copies(P)    == UNION {{p} \X (1 .. P[p]) : p \in Point}
Size(P)      == Cardinality(Copies(P))
Inside(P, n) == [p \in Point |-> IF Toward(p, Layer(n)) = n THEN P[p] ELSE 0]

VARIABLES
  tree,     \* the nodes that exist, each with the fields of its OctoTree object
  covLimit, \* _maxCovPointsSize of this voxel
  received  \* history: points given to the voxel

vars == <<tree, covLimit, received>>

Exists(n) == n \in DOMAIN tree

(* The constructor: nothing gathered, no plane fitted. *)
NewNode ==
  [temp |-> NoPoints, new |-> 0,        \* _tempPoints, size of _newPoints
   newNum |-> 0, allNum |-> 0,          \* _newPointsNum, _allPointsNum
   init |-> FALSE,                      \* _initOcto
   isPlane |-> FALSE, fitted |-> 0,     \* _planePtr->isPlane, ->pointsSize
   updCov |-> TRUE, upd |-> TRUE]       \* _isUpdateCovEnable, _isUpdateEnable

Init ==
  /\ tree = <<>>
  /\ covLimit \in CovLimits
  /\ received = 0

Enough(P, n) == Size(P) > LayerPoints[Layer(n)]

(* Nodes at or below n that may be fit when n holds the points P. *)
Fittable(P, n) == {d \in Node : (d = n \/ Above(n, d)) /\ Enough(Inside(P, d), d)}

(* bug: a leaf is given all the points of the node above *)
LeafOfAll(P, planar, d) ==
  [NewNode EXCEPT !.init = Enough(P, d), !.isPlane = d \in planar, !.temp = P,
                  !.fitted = IF Enough(P, d) THEN Size(P) ELSE 0,
                  !.newNum = IF Enough(P, d) THEN 0 ELSE Size(P)]

(* What cutOctoTree makes of a leaf: the points are counted as new ones but
   not in _allPointsNum; with enough of them it is fit, and when it is not a
   plane it hands them on to its own leaves, unless it is of the last layer. *)
Leaf(P, planar, d) ==
  LET Q == Inside(P, d) IN
  [NewNode EXCEPT !.init = Enough(Q, d),
                  !.isPlane = d \in planar,
                  !.fitted = IF Enough(Q, d) THEN Size(Q) ELSE 0,
                  !.newNum = IF Enough(Q, d) THEN 0 ELSE Size(Q),
                  !.temp = IF Enough(Q, d) /\ d \notin planar /\ Layer(d) < MaxLayers
                           THEN NoPoints ELSE Q]

(* cutOctoTree of a node n that holds P and is not a plane: all the nodes
   below it, down to where the points are few or planar. *)
Leaves(P, planar, n) ==
  LET divided(a) == Enough(Inside(P, a), a) /\ a \notin planar
      reached == {d \in Node : /\ Above(n, d) /\ Size(Inside(P, d)) > 0
                               /\ \A a \in Node : Above(a, d) /\ (a = n \/ Above(n, a))
                                                  => divided(a)}
  IN [d \in reached |-> Leaf(P, planar, d)]

(* t with node n replaced by the record r and then the nodes of f added. *)
Put(t, n, r, f) ==
  [d \in DOMAIN t \cup {n} \cup DOMAIN f |->
     IF d = n THEN r ELSE IF d \in DOMAIN f THEN f[d] ELSE t[d]]

(* bug: only a plane counts as initialised *)
FirstFitUnmarked(t, n, r, planar) ==
  LET fit == [r EXCEPT !.init = n \in planar, !.newNum = 0, !.fitted = Size(r.temp),
                       !.isPlane = n \in planar]
  IN IF n \in planar THEN Put(t, n, fit, <<>>)
     ELSE IF Layer(n) < MaxLayers
     THEN Put(t, n, [fit EXCEPT !.temp = NoPoints], Leaves(r.temp, planar, n))
     ELSE Put(t, n, fit, <<>>)

(* bug: a node keeps the points it has handed to its leaves *)
FirstFitKeepsList(t, n, r, planar) ==
  LET fit == [r EXCEPT !.init = TRUE, !.newNum = 0, !.fitted = Size(r.temp),
                       !.isPlane = n \in planar]
  IN IF n \in planar \/ Layer(n) = MaxLayers THEN Put(t, n, fit, <<>>)
     ELSE Put(t, n, fit, Leaves(r.temp, planar, n))

(* initOctoTree of a node r at n that holds more points than its layer asks
   for: a plane, or it is divided. The flags are tested on the size of the
   list, and only for a plane. *)
FirstFit(t, n, r, planar) ==
  LET k == Size(r.temp)
      fit == [r EXCEPT !.init = TRUE, !.newNum = 0, !.fitted = k, !.isPlane = n \in planar]
  IN IF n \in planar
     THEN Put(t, n, [fit EXCEPT !.updCov = @ /\ k <= covLimit, !.upd = @ /\ k <= MaxPoints], <<>>)
     ELSE IF Layer(n) < MaxLayers
     THEN Put(t, n, [fit EXCEPT !.temp = NoPoints], Leaves(r.temp, planar, n))
     ELSE Put(t, n, fit, <<>>)

(* bug: a plane past the covariance limit is fit again to its new points,
   as a node of the last layer that is no plane is *)
UpdateHolderAlways(r, n, p, planar) ==
  LET temp == IF r.updCov THEN With(r.temp, p) ELSE r.temp
      new  == IF r.updCov THEN r.new ELSE r.new + 1
      due  == r.newNum + 1 > UpdateSize
      done == r.allNum + 1 >= MaxPoints
  IN IF ~r.upd THEN r ELSE
     [r EXCEPT !.allNum = @ + 1,
               !.newNum = IF due THEN 0 ELSE @ + 1,
               !.isPlane = IF due THEN n \in planar ELSE @,
               !.fitted = IF ~due THEN @ ELSE IF r.updCov THEN Size(temp) ELSE @ + new,
               !.updCov = @ /\ r.allNum + 1 < covLimit,
               !.temp = IF r.allNum + 1 >= covLimit THEN NoPoints ELSE temp,
               !.new = IF done \/ (due /\ ~r.updCov) THEN 0 ELSE new,
               !.upd = ~done]

(* updateOctoTree of a node that keeps its points: a plane, or a node of the
   last layer. Every UpdateSize + 1 new points it is fit again to all its
   points while these are kept; afterwards only a node of the last layer that
   is not a plane is, from the points gathered since. *)
UpdateHolder(r, n, p, planar) ==
  LET temp  == IF r.updCov THEN With(r.temp, p) ELSE r.temp
      new   == IF r.updCov THEN r.new ELSE r.new + 1
      due   == r.newNum + 1 > UpdateSize
      refit == due /\ (r.updCov \/ ~r.isPlane)
      done  == r.allNum + 1 >= MaxPoints
  IN IF ~r.upd THEN r ELSE
     [r EXCEPT !.allNum = @ + 1,
               !.newNum = IF due THEN 0 ELSE @ + 1,
               !.isPlane = IF refit THEN n \in planar ELSE @,
               !.fitted = IF ~refit THEN @ ELSE IF r.updCov THEN Size(temp) ELSE @ + new,
               !.updCov = @ /\ r.allNum + 1 < covLimit,
               !.temp = IF r.allNum + 1 >= covLimit THEN NoPoints ELSE temp,
               !.new = IF done \/ (refit /\ ~r.updCov) THEN 0 ELSE new,
               !.upd = ~done]

Holds(n) == tree[n].isPlane \/ Layer(n) = MaxLayers

(* updateOctoTree passes a point on from a fitted node that keeps no points;
   such a node then drops the lists it still has. *)
PassesOn(n) == Exists(n) /\ tree[n].init /\ ~Holds(n)

(* The node on the way to p that takes the point. *)
Recipient(p) ==
  CHOOSE n \in {Toward(p, l) : l \in 0 .. MaxLayers} :
    /\ ~PassesOn(n)
    /\ \A l \in 0 .. Layer(n) - 1 : PassesOn(Toward(p, l))

(* The tree after the nodes above n have passed a point on to it. *)
Passed(n) ==
  [d \in DOMAIN tree |-> IF Above(d, n) THEN [tree[d] EXCEPT !.temp = NoPoints, !.new = 0]
                         ELSE tree[d]]

(* updateVoxelMap, one point *)
UpdateVoxel(p) ==
  /\ received < MaxReceived
  /\ received' = received + 1
  /\ LET n == Recipient(p)
         old == IF Exists(n) THEN tree[n] ELSE NewNode
         r == [old EXCEPT !.temp = With(@, p), !.newNum = @ + 1, !.allNum = @ + 1]
     IN IF ~old.init
        THEN IF Enough(r.temp, n)
             THEN \E planar \in SUBSET Fittable(r.temp, n) :
                    tree' = FirstFit(Passed(n), n, r, planar)
             ELSE tree' = Put(Passed(n), n, r, <<>>)
        ELSE \E planar \in SUBSET {n} :
               tree' = Put(Passed(n), n, UpdateHolder(tree[n], n, p, planar), <<>>)
  /\ UNCHANGED covLimit

(* buildVoxelMap, on an empty map: all the points of the first scan (or of
   the first stored frame) that fall into the voxel, then initOctoTree *)
BuildVoxel(P) ==
  /\ ~Exists(Root)
  /\ Size(P) \in 1 .. MaxReceived
  /\ received' = Size(P)
  /\ LET r == [NewNode EXCEPT !.temp = P, !.newNum = Size(P), !.allNum = Size(P)]
     IN IF Enough(P, Root)
        THEN \E planar \in SUBSET Fittable(P, Root) : tree' = FirstFit(<<>>, Root, r, planar)
        ELSE tree' = Put(<<>>, Root, r, <<>>)
  /\ UNCHANGED covLimit

Next ==
  \/ \E P \in [Point -> 0 .. MaxReceived] : BuildVoxel(P)
  \/ \E p \in Point : UpdateVoxel(p)

Spec == Init /\ [][Next]_vars

-----------------------------------------------------------------------------
(* The planes buildSingleResidual and getUpdatePlane come to: they enter the
   leaves of a node only when the node itself is no plane. *)
Matched ==
  {n \in DOMAIN tree : tree[n].isPlane /\ \A a \in DOMAIN tree : Above(a, n) => ~tree[a].isPlane}

(* The fields have their types, and a node holds points of its own space. *)
TypeOK ==
  /\ covLimit \in CovLimits /\ received \in 0 .. MaxReceived
  /\ DOMAIN tree \subseteq Node
  /\ \A n \in DOMAIN tree :
       /\ tree[n] \in [temp : [Point -> 0 .. MaxReceived], new : 0 .. MaxReceived,
                       newNum : 0 .. MaxReceived, allNum : 0 .. MaxReceived, init : BOOLEAN,
                       isPlane : BOOLEAN, fitted : 0 .. MaxReceived, updCov : BOOLEAN, upd : BOOLEAN]
       /\ tree[n].temp = Inside(tree[n].temp, n)

(* Every plane of the voxel can be matched: a node is divided only after its
   points were found not to be planar, and is never made a plane again over
   the planes of its leaves, however the refits, the limits and the first
   fits of the leaves follow each other. The nodes above an existing one
   exist and are divided. *)
PlanesAllMatched ==
  /\ \A n \in DOMAIN tree : tree[n].isPlane => n \in Matched
  /\ \A n \in DOMAIN tree : \A a \in Node :
       Above(a, n) => Exists(a) /\ tree[a].init /\ ~tree[a].isPlane

(* While a fitted node keeps its points, its plane lags behind them by
   exactly the points counted as new, never more than UpdateSize of them: the
   counters that trigger a refit follow the list through the first fit, the
   cut of the node above and the refits. *)
LagBounded ==
  \A n \in DOMAIN tree : LET r == tree[n] IN
    r.init /\ r.updCov /\ Holds(n) =>
      /\ Size(r.temp) = r.fitted + r.newNum
      /\ r.newNum <= UpdateSize

(* The points in the lists _tempPoints and _newPoints of the nodes of t. *)
Kept(t)     == UNION {{n} \X Copies(t[n].temp) : n \in DOMAIN t}
Gathered(t) == UNION {{n} \X (1 .. t[n].new) : n \in DOMAIN t}

(* No point is in two lists: what the nodes hand on, through any number of
   cuts, they do not keep. *)
PointsHeldOnce == Cardinality(Kept(tree)) + Cardinality(Gathered(tree)) <= received

(* The lists and the counters stay together: no point is held twice and no
   plane is older than UpdateSize of its points. *)
ListsCounted == LagBounded /\ PointsHeldOnce

(* A plane whose covariance is no longer updated never changes again, though
   points go on being counted and gathered for it; and a node above the last
   layer that was found not to be a plane is none for ever. *)
PlanesSettle ==
  [][\A n \in DOMAIN tree :
       /\ tree[n].isPlane /\ ~tree[n].updCov =>
            tree'[n].isPlane /\ tree'[n].fitted = tree[n].fitted
       /\ tree[n].init /\ ~Holds(n) => ~tree'[n].isPlane]_vars
=============================================================================
