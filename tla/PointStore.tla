----------------------------- MODULE PointStore -----------------------------
(***************************************************************************)
(* What the ikd-Tree promises its caller: a set of map points, changed by  *)
(* one insertion or one box deletion at a time, in the order the calls     *)
(* were made.  Rebalancing is invisible.                                   *)
(*                                                                         *)
(* The promise can lapse: once `exact' is FALSE the store may hold any     *)
(* points at all.                                                          *)
(***************************************************************************)
CONSTANTS Points,   \* the points a tree may hold
          Boxes     \* the deletion boxes, each the set of the points inside it

VARIABLES points,   \* the valid points of the tree
          exact     \* the promise still stands

vars == <<points, exact>>

StoreInit == points \subseteq Points /\ exact = TRUE

AddPoint(p) == points' = points \cup {p}

DeleteBox(b) == points' = points \ b

\* All of them, by the deletion of a box that encloses the tree.
DeleteAll == points' = {}

\* The down-sampling insertion: the points of one box give way to one of them.
ReplaceBox(b, p) == points' = (points \ b) \cup {p}

Change ==
  /\ exact
  /\ exact' \in BOOLEAN
  /\ \/ \E p \in Points : AddPoint(p)
     \/ \E b \in Boxes : DeleteBox(b)
     \/ DeleteAll
     \/ \E b \in Boxes : \E p \in b : ReplaceBox(b, p)

Lapsed == ~exact /\ exact' = FALSE /\ points' \in SUBSET Points

StoreNext == Change \/ Lapsed

StoreSpec == StoreInit /\ [][StoreNext]_vars
=============================================================================
