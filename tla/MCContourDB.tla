----------------------------- MODULE MCContourDB -----------------------------
(* Three buckets, three values; scans of one or two values in numbers that *)
(* make a strip of equal keys end just below, at and just above the middle. *)
EXTENDS ContourDB

MCValues == {1, 3, 4}
Bag3(a, b, c) == [v \in MCValues |-> CASE v = 1 -> a [] v = 3 -> b [] OTHER -> c]
MCScanKeys == {Bag3(52, 48, 0), Bag3(48, 0, 52), Bag3(0, 0, 60), Bag3(0, 90, 0), Bag3(1, 2, 0), Bag3(0, 0, 0)}
==============================================================================
