---------------------------- MODULE MCGoQueuePool ----------------------------
(* Three requests, each with one of three trees: two nodes, which fit the  *)
(* limits; three in a chain, refused as too deep; three in two levels,     *)
(* refused as too many once the array has grown twice.  One of the         *)
(* requests is followed; the other two are alike.                          *)
EXTENDS GoRequest, TLC

MCNodes == 1..3

Shape(l, r, levels) ==
  [root |-> 1, left |-> l, right |-> r, level |-> levels, rank |-> <<1, 2, 3>>]

Pair == Shape(<<2, Null, Null>>, <<Null, Null, Null>>, <<1, 2, 3>>)
Chain == Shape(<<Null, 3, Null>>, <<2, Null, Null>>, <<1, 2, 3>>)
Fork == Shape(<<2, Null, Null>>, <<3, Null, Null>>, <<1, 2, 2>>)

MCTreeSet == {Pair, Chain, Fork}

Symmetry == Permutations(Requests \ {Mine})
=============================================================================
