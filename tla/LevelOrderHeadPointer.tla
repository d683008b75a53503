------------------------ MODULE LevelOrderHeadPointer ------------------------
(***************************************************************************)
(* solveLevelOrder on a plain array with a head pointer, as the Go, Node   *)
(* and worker-thread implementations write it (go-impl/main.go): nothing   *)
(* is ever removed from the array, and the values of a level go by index   *)
(* into a buffer allocated with the size of the level.                     *)
(***************************************************************************)
EXTENDS BinaryTrees, SequencesExt

VARIABLES
  tree,       \* the tree received; never changes
  queue,      \* every node queued so far, visited or not
  head,       \* how many of them were visited
  levelEnd,   \* the head at which the current level ends
  level,      \* the level buffer; Null: a slot not written yet
  i,          \* the next slot to write, counted from 0
  result,     \* the levels read
  totalNodes, \* nodes in the levels read and in the current one
  status      \* as in LevelOrderDeque

vars == <<tree, queue, head, levelEnd, level, i, result, totalNodes, status>>

Init ==
  /\ tree \in Trees
  /\ queue = <<tree.root>>
  /\ head = 0
  /\ levelEnd = 0
  /\ level = <<>>
  /\ i = 0
  /\ result = <<>>
  /\ totalNodes = 0
  /\ status = "loop"

(* head < queue.length *)
MoreLevels == head < Len(queue)

(* Throw "Tree depth exceeds security limits". *)
TooDeep ==
  /\ status = "loop"
  /\ MoreLevels
  /\ Len(result) >= MaxDepth
  /\ status' = "tooDeep"
  /\ UNCHANGED <<tree, queue, head, levelEnd, level, i, result, totalNodes>>

LevelSize == Len(queue) - head

NodesExceeded(n) == n > MaxNodes

(* Wrong variant: the index of the last level is kept. *)
Allocate_KeepsIndex ==
  /\ levelEnd' = head + LevelSize
  /\ level' = [k \in 1..LevelSize |-> Null]
  /\ UNCHANGED i

(* The buffer of the level, the index into it, and the end of the for loop. *)
Allocate ==
  /\ levelEnd' = head + LevelSize
  /\ level' = [k \in 1..LevelSize |-> Null]
  /\ i' = 0

(* Wrong variant: the count restarts at every level. *)
StartLevel_CountsLevelOnly ==
  /\ status = "loop"
  /\ MoreLevels
  /\ Len(result) < MaxDepth
  /\ totalNodes' = LevelSize
  /\ \/ /\ NodesExceeded(totalNodes')
        /\ status' = "tooMany"
        /\ UNCHANGED <<levelEnd, level, i>>
     \/ /\ ~NodesExceeded(totalNodes')
        /\ status' = "level"
        /\ Allocate
  /\ UNCHANGED <<tree, queue, head, result>>

(* Throw "Tree node count exceeds security limits", or allocate the buffer. *)
StartLevel ==
  /\ status = "loop"
  /\ MoreLevels
  /\ Len(result) < MaxDepth
  /\ totalNodes' = totalNodes + LevelSize
  /\ \/ /\ NodesExceeded(totalNodes')
        /\ status' = "tooMany"
        /\ UNCHANGED <<levelEnd, level, i>>
     \/ /\ ~NodesExceeded(totalNodes')
        /\ status' = "level"
        /\ Allocate
  /\ UNCHANGED <<tree, queue, head, result>>

(* Wrong variant: a child queued before its elder sibling. *)
Visit_RightFirst ==
  /\ status = "level"
  /\ head < levelEnd
  /\ level' = [level EXCEPT ![i + 1] = queue[head + 1]]
  /\ i' = i + 1
  /\ head' = head + 1
  /\ queue' = queue \o Reverse(Children(tree, queue[head + 1]))
  /\ UNCHANGED <<tree, levelEnd, result, totalNodes, status>>

(* One iteration of the for loop: the node at the head goes into the       *)
(* buffer and its children at the end of the array.                        *)
Visit ==
  /\ status = "level"
  /\ head < levelEnd
  /\ level' = [level EXCEPT ![i + 1] = queue[head + 1]]
  /\ i' = i + 1
  /\ head' = head + 1
  /\ queue' = queue \o Children(tree, queue[head + 1])
  /\ UNCHANGED <<tree, levelEnd, result, totalNodes, status>>

(* The for loop ends: the buffer joins the result. *)
EndLevel ==
  /\ status = "level"
  /\ head = levelEnd
  /\ result' = Append(result, level)
  /\ status' = "loop"
  /\ UNCHANGED <<tree, queue, head, levelEnd, level, i, totalNodes>>

Return ==
  /\ status = "loop"
  /\ ~MoreLevels
  /\ status' = "done"
  /\ UNCHANGED <<tree, queue, head, levelEnd, level, i, result, totalNodes>>

Next == TooDeep \/ StartLevel \/ Visit \/ EndLevel \/ Return

Spec == Init /\ [][Next]_vars
-----------------------------------------------------------------------------
(* Properties.                                                             *)

(* Type correctness; in particular every slot of a buffer that joined the  *)
(* result was written.                                                     *)
TypeOK ==
  /\ tree \in Trees
  /\ queue \in Seq(Node)
  /\ head \in 0..Len(queue)
  /\ levelEnd \in 0..Len(queue)
  /\ level \in Seq(Node \union {Null})
  /\ i \in 0..Len(level)
  /\ result \in Seq(Seq(Node))
  /\ totalNodes \in Nat
  /\ status \in {"loop", "level", "done", "tooDeep", "tooMany"}

(* The two counters of the for loop keep step: the slots left to write are *)
(* exactly as many as the nodes left to read, and start where they should. *)
SlotsMatchNodes ==
  status = "level" =>
    /\ Len(level) - i = levelEnd - head
    /\ \A k \in 1..Len(level) : level[k] = Null <=> k > i

(* The array that is never shrunk is bounded all the same: only accepted   *)
(* levels are read, so no more nodes than the limit, and each node read    *)
(* queues at most two.  That makes 2 * MaxNodes + 1 slots.                 *)
ArrayBounded ==
  /\ head <= MaxNodes
  /\ Len(queue) <= 2 * head + 1

(* The array and its head pointer behave as a double-ended queue. *)
Deque == INSTANCE LevelOrderDeque WITH
           queue <- SubSeq(queue, head + 1, Len(queue)),
           remaining <- levelEnd - head,
           levelValues <- SubSeq(level, 1, i)

ImplementsDeque == Deque!Spec

(* Read as the queue it stands for, the array keeps the levels apart and   *)
(* in order, and misses no node.                                           *)
LevelsInOrder == Deque!LevelsInOrder /\ Deque!NothingMissed

(* What the loops rely on: every slot of a buffer is written once, the     *)
(* levels stay apart, and the limit bounds the array; and what they come   *)
(* to: the tree alone decides whether it is accepted, and what refuses it. *)
LoopsAreSound ==
  SlotsMatchNodes /\ LevelsInOrder /\ ArrayBounded /\ Deque!AnswersAreExact

(* So the traversal returns what the reference says, for every tree. *)
ImplementsReference == Deque!ImplementsReference
=============================================================================
