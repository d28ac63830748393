----------------------------- MODULE MCOctoTree -----------------------------
(* OctoTree with three layers of two octants, and the limits scaled down
   from 5, 5 and 400 points. *)
EXTENDS OctoTree

MCLayerPoints == [l \in 0 .. MaxLayers |-> 1]
=============================================================================
