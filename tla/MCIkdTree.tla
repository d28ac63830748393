----------------------------- MODULE MCIkdTree -----------------------------
(* A small map for IkdTree: five points, three of them in one cell of the  *)
(* down-sampling grid, with equal coordinates on every axis.               *)
EXTENDS IkdTree

a == <<0, 0, 0>>
b == <<1, 0, 0>>
c == <<0, 1, 0>>
d == <<2, 1, 0>>
e == <<3, 0, 1>>

Box(low, high) == [vertex_min |-> low, vertex_max |-> high]

MCPoints == {a, b, c, d, e}
MCBoxes == {Box(<<0, 0, 0>>, <<1, 2, 1>>), Box(<<1, 0, 0>>, <<3, 2, 2>>),
            Box(<<0, 0, 0>>, <<9, 9, 9>>)}
MCClouds == {<<a>>, <<c, a, b, d>>, <<e, d, c, b, a, a>>}
MCQueries == {<<0, 0, 0>>, <<2, 0, 0>>, <<1, 3, 1>>}
MCMaxDists == {5, 10000}
=============================================================================
