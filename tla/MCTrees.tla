------------------------------- MODULE MCTrees -------------------------------
(* Every shape of binary tree of up to MaxSize nodes.  Nodes are numbered  *)
(* in preorder; levels and ranks are computed from the shape.              *)
EXTENDS Integers, Sequences, SequencesExt

CONSTANTS
  MaxSize,
  NoChild     \* the Null of the modules that use these trees

Nodes == 1..MaxSize

(* The children of the nodes a..b, when they form one tree rooted at a: the *)
(* left subtree takes a+1..k, the right subtree the rest.                   *)
RECURSIVE Shapes(_, _)
Shapes(a, b) ==
  IF a > b THEN {<<>>}
  ELSE UNION {{(a :> <<IF k > a THEN a + 1 ELSE NoChild, IF k < b THEN k + 1 ELSE NoChild>>)
                 @@ l @@ r : l \in Shapes(a + 1, k), r \in Shapes(k + 1, b)}
              : k \in a..b}

(* The nodes of a shape, level by level: the next level is what the nodes  *)
(* of this one have for children.                                          *)
RECURSIVE LevelsFrom(_, _)
LevelsFrom(shape, nodes) ==
  IF nodes = <<>> THEN <<>>
  ELSE LET next == FlattenSeq([i \in 1..Len(nodes) |-> shape[nodes[i]]])
       IN  <<nodes>> \o LevelsFrom(shape, SelectSeq(next, LAMBDA n : n # NoChild))

(* A shape as a tree; numbers it does not use are on a level of their own. *)
Tree(shape) ==
  LET levels == LevelsFrom(shape, <<1>>)
      order == FlattenSeq(levels)
      used == DOMAIN shape
  IN  [root  |-> 1,
       left  |-> [n \in Nodes |-> IF n \in used THEN shape[n][1] ELSE NoChild],
       right |-> [n \in Nodes |-> IF n \in used THEN shape[n][2] ELSE NoChild],
       level |-> [n \in Nodes |-> IF n \in used
                                  THEN CHOOSE d \in 1..Len(levels) : Contains(levels[d], n)
                                  ELSE MaxSize + 1],
       rank  |-> [n \in Nodes |-> IF n \in used
                                  THEN CHOOSE i \in 1..Len(order) : order[i] = n
                                  ELSE n]]

AllTrees == UNION {{Tree(shape) : shape \in Shapes(1, size)} : size \in 1..MaxSize}
=============================================================================
