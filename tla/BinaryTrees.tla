----------------------------- MODULE BinaryTrees -----------------------------
(***************************************************************************)
(* The trees the seven implementations receive: TreeNode(value, left,      *)
(* right), a missing child being null.  A node stands for its value.       *)
(*                                                                         *)
(* The limits on their depth and size are the same everywhere.             *)
(*                                                                         *)
(* A tree also carries two functions that no implementation stores and     *)
(* that properties speak of: the level of each node (the root's is 1), and *)
(* its rank in a left-to-right, level-by-level reading.                    *)
(***************************************************************************)
EXTENDS Integers, Sequences

CONSTANTS
  Node,       \* the nodes trees are made of
  Null,       \* a missing child
  Trees,      \* the trees that may be received
  MaxDepth,   \* TREE_MAX_DEPTH, treeMaxDepth
  MaxNodes    \* TREE_MAX_NODES, treeMaxNodes

ASSUME LimitsAssumption == MaxDepth \in Nat /\ MaxNodes \in Nat

Offspring(T, n) == {T.left[n], T.right[n]} \ {Null}

(* Levels grow by one from parent to child; rank goes through the levels   *)
(* in order, and orders the nodes of a level as it orders their parents, a *)
(* left child before its sibling.  A node reached twice has no such rank.  *)
IsLevelOrdered(T) ==
  /\ T.level[T.root] = 1
  /\ \A n \in Node : \A c \in Offspring(T, n) : T.level[c] = T.level[n] + 1
  /\ \A n \in Node :
       T.left[n] # Null /\ T.right[n] # Null =>
         T.rank[T.left[n]] < T.rank[T.right[n]]
  /\ \A m, n \in Node :
       /\ T.level[m] < T.level[n] => T.rank[m] < T.rank[n]
       /\ T.rank[m] < T.rank[n] =>
            \A c \in Offspring(T, m), d \in Offspring(T, n) :
              T.rank[c] < T.rank[d]

ASSUME NullAssumption == Null \notin Node
ASSUME TreesAssumption ==
  \A T \in Trees :
    /\ T.root \in Node
    /\ T.left \in [Node -> Node \union {Null}]
    /\ T.right \in [Node -> Node \union {Null}]
    /\ T.level \in [Node -> Nat]
    /\ T.rank \in [Node -> Nat]
    /\ IsLevelOrdered(T)

(* Wrong variants: a missing child queued as null, the right child only    *)
(* looked at when there is no left one.                                    *)
Children_QueuesNull(T, n) == <<T.left[n], T.right[n]>>

Children_ElseIf(T, n) ==
  IF T.left[n] # Null THEN <<T.left[n]>>
  ELSE IF T.right[n] # Null THEN <<T.right[n]>> ELSE <<>>

(* What a visit of n adds to the queue: its left child, then its right one. *)
Children(T, n) ==
  (IF T.left[n] # Null THEN <<T.left[n]>> ELSE <<>>)
    \o (IF T.right[n] # Null THEN <<T.right[n]>> ELSE <<>>)
=============================================================================
