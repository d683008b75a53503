------------------------- MODULE LevelOrderReference -------------------------
(***************************************************************************)
(* What solveLevelOrder promises, with no queue: the values of the tree    *)
(* level by level, or a refusal.  The levels are defined on the tree       *)
(* itself, the levels of a node being the node followed by the levels of   *)
(* its two subtrees side by side.  The traversals of the implementations   *)
(* are shown to implement this specification.                              *)
(***************************************************************************)
EXTENDS BinaryTrees

(* Two lists of levels side by side. *)
Beside(a, b) ==
  LET At(s, i) == IF i <= Len(s) THEN s[i] ELSE <<>>
  IN  [i \in 1..(IF Len(a) > Len(b) THEN Len(a) ELSE Len(b)) |-> At(a, i) \o At(b, i)]

Levels(T) ==
  LET below[n \in Node \union {Null}] ==
        IF n = Null THEN <<>>
        ELSE <<<<n>>>> \o Beside(below[T.left[n]], below[T.right[n]])
  IN  below[T.root]

(* The number of nodes in the first k levels. *)
NodesIn(levels, k) ==
  LET count[i \in 0..k] == IF i = 0 THEN 0 ELSE count[i - 1] + Len(levels[i])
  IN  count[k]

(* A level is refused when it is deeper than MaxDepth, or when the tree down *)
(* to it has more than MaxNodes nodes; the first refused level decides which *)
(* refusal the caller sees, and depth comes first when it is refused twice.  *)
Answer(T) ==
  LET levels == Levels(T)
      refused == {k \in 1..Len(levels) : k > MaxDepth \/ NodesIn(levels, k) > MaxNodes}
  IN  IF refused = {} THEN [status |-> "done", levels |-> levels]
      ELSE LET first == CHOOSE k \in refused : \A j \in refused : k <= j
           IN  [status |-> IF first > MaxDepth THEN "tooDeep" ELSE "tooMany",
                levels |-> <<>>]

Unanswered == [status |-> "running", levels |-> <<>>]

VARIABLES tree, answer

Init == tree \in Trees /\ answer = Unanswered

Solve == answer = Unanswered /\ answer' = Answer(tree) /\ UNCHANGED tree

Spec == Init /\ [][Solve]_<<tree, answer>>
=============================================================================
