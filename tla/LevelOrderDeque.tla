--------------------------- MODULE LevelOrderDeque ---------------------------
(***************************************************************************)
(* solveLevelOrder on a double-ended queue, as the Java, Spring, Kotlin    *)
(* and Python implementations write it (java-impl TreeService.java), one   *)
(* action per iteration of each loop.  The depth and node limits are       *)
(* checked once per level, before the level is read.                       *)
(***************************************************************************)
EXTENDS BinaryTrees, SequencesExt

VARIABLES
  tree,       \* the tree received; never changes
  queue,      \* nodes still to visit
  remaining,  \* iterations left of the loop over the current level
  levelValues,\* the current level's values so far
  result,     \* the levels read
  totalNodes, \* nodes in the levels read and in the current one
  status      \* "loop": at the while test; "level": in the for loop;
              \* "done", "tooDeep", "tooMany": returned or thrown

vars == <<tree, queue, remaining, levelValues, result, totalNodes, status>>

Init ==
  /\ tree \in Trees
  /\ queue = <<tree.root>>
  /\ remaining = 0
  /\ levelValues = <<>>
  /\ result = <<>>
  /\ totalNodes = 0
  /\ status = "loop"

(* The two limits, as the while loop tests them. *)
DepthReached == Len(result) >= MaxDepth
NodesExceeded(n) == n > MaxNodes

(* throw "Tree depth exceeds security limits" *)
TooDeep ==
  /\ status = "loop"
  /\ queue # <<>>
  /\ DepthReached
  /\ status' = "tooDeep"
  /\ UNCHANGED <<tree, queue, remaining, levelValues, result, totalNodes>>

(* The head of the while loop: the size of the level is read before any of *)
(* its children is queued, counted against the node limit, and either the  *)
(* limit is exceeded (throw) or the for loop starts.                       *)
StartLevel ==
  /\ status = "loop"
  /\ queue # <<>>
  /\ ~DepthReached
  /\ totalNodes' = totalNodes + Len(queue)
  /\ \/ /\ NodesExceeded(totalNodes')
        /\ status' = "tooMany"
        /\ UNCHANGED <<remaining, levelValues>>
     \/ /\ ~NodesExceeded(totalNodes')
        /\ status' = "level"
        /\ remaining' = Len(queue)
        /\ levelValues' = <<>>
  /\ UNCHANGED <<tree, queue, result>>

(* One iteration of the for loop: poll a node, keep its value, add its      *)
(* children.                                                               *)
Visit ==
  /\ status = "level"
  /\ remaining > 0
  /\ queue' = Tail(queue) \o Children(tree, Head(queue))
  /\ levelValues' = Append(levelValues, Head(queue))
  /\ remaining' = remaining - 1
  /\ UNCHANGED <<tree, result, totalNodes, status>>

(* The for loop ends: the level joins the result. *)
EndLevel ==
  /\ status = "level"
  /\ remaining = 0
  /\ result' = Append(result, levelValues)
  /\ status' = "loop"
  /\ UNCHANGED <<tree, queue, remaining, levelValues, totalNodes>>

(* The queue is empty: return the result. *)
Return ==
  /\ status = "loop"
  /\ queue = <<>>
  /\ status' = "done"
  /\ UNCHANGED <<tree, queue, remaining, levelValues, result, totalNodes>>

Next == TooDeep \/ StartLevel \/ Visit \/ EndLevel \/ Return

Spec == Init /\ [][Next]_vars
-----------------------------------------------------------------------------
(* Properties.                                                             *)

(* Type correctness; in particular no null child is ever queued. *)
TypeOK ==
  /\ tree \in Trees
  /\ queue \in Seq(Node)
  /\ remaining \in Nat
  /\ levelValues \in Seq(Node)
  /\ result \in Seq(Seq(Node))
  /\ totalNodes \in Nat
  /\ status \in {"loop", "level", "done", "tooDeep", "tooMany"}

RankIncreasing(s) ==
  \A i, j \in 1..Len(s) : i < j => tree.rank[s[i]] < tree.rank[s[j]]

(* The size read at the head of the while loop separates the two levels    *)
(* that share the queue: the iterations left of the for loop are exactly   *)
(* over what is left of the current level, and the next level is behind.   *)
QueueBoundary ==
  /\ remaining <= Len(queue)
  /\ status # "level" => remaining = 0
  /\ \A k \in 1..Len(queue) :
       tree.level[queue[k]] =
         IF status = "level" /\ k > remaining THEN Len(result) + 2
         ELSE Len(result) + 1

(* Each list of the result holds nodes of its own level, from left to      *)
(* right, and what is being read and what is queued go on in that order.   *)
LevelsInOrder ==
  /\ \A i \in 1..Len(result) :
       /\ RankIncreasing(result[i])
       /\ \A n \in Range(result[i]) : tree.level[n] = i
  /\ RankIncreasing(queue)
  /\ status = "level" =>
       /\ RankIncreasing(levelValues \o queue)
       /\ \A n \in Range(levelValues) : tree.level[n] = Len(result) + 1

(* The nodes whose values were read. *)
ReadLevels == UNION {Range(result[d]) : d \in 1..Len(result)}
Read == ReadLevels \union (IF status = "level" THEN Range(levelValues) ELSE {})

(* No node is missed: the root, and the children of every node read, were  *)
(* read or are queued.  When the queue is empty the whole tree was read.   *)
NothingMissed ==
  /\ tree.root \in Read \union Range(queue)
  /\ \A n \in Read : Offspring(tree, n) \subseteq Read \union Range(queue)

(* A tree that is accepted, or still being read, respects both limits. *)
LimitsRespected ==
  /\ Len(result) <= MaxDepth
  /\ status \in {"loop", "level", "done"} => totalNodes <= MaxNodes

(* The nodes of a tree: those in every set that holds the root and, with a *)
(* node, its children.                                                     *)
ClosedIn(T, S) == T.root \in S /\ \A n \in S : Offspring(T, n) \subseteq S
NodesOf(T) == {n \in Node : \A S \in SUBSET Node : ClosedIn(T, S) => n \in S}

DownTo(T, d) == {n \in NodesOf(T) : T.level[n] <= d}
MoreThan(k, S) == \E F \in SUBSET S : IsFiniteSet(F) /\ Cardinality(F) > k

(* The tree alone decides the answer: it is accepted only if it is within  *)
(* both limits, and then all of it was read and nothing else; it is        *)
(* refused only for a limit that it passes, and for its depth only if the  *)
(* levels above the limit are not too many nodes.                          *)
AnswersAreExact ==
  /\ status = "done" =>
       /\ NodesOf(tree) = ReadLevels
       /\ \A n \in NodesOf(tree) : tree.level[n] <= MaxDepth
       /\ ~MoreThan(MaxNodes, NodesOf(tree))
  /\ status = "tooDeep" =>
       /\ \E n \in NodesOf(tree) : tree.level[n] > MaxDepth
       /\ ~MoreThan(MaxNodes, DownTo(tree, MaxDepth))
  /\ status = "tooMany" => MoreThan(MaxNodes, DownTo(tree, MaxDepth))

(* The traversal returns the levels of the tree, or the refusal of its     *)
(* first refused level, and nothing before.                                *)
Reference == INSTANCE LevelOrderReference WITH
  answer <- [status |-> IF status \in {"loop", "level"} THEN "running" ELSE status,
             levels |-> IF status = "done" THEN result ELSE <<>>]

ImplementsReference == Reference!Spec
=============================================================================
