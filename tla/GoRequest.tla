------------------------------ MODULE GoRequest ------------------------------
(***************************************************************************)
(* One request among those that share the pool of GoQueuePool, followed    *)
(* through the whole of solveLevelOrder (go-impl/main.go): the levels it   *)
(* reads, its count of nodes, and what it returns.  The others go on       *)
(* around it and touch the same memory.                                    *)
(*                                                                         *)
(* left is a history variable, no variable of the program: the nodes that  *)
(* were queued when the loop was last tested.  releaseQueue erases them    *)
(* before solveLevelOrder returns.                                         *)
(***************************************************************************)
EXTENDS GoQueuePool

CONSTANT Mine   \* the request that is followed

ASSUME RequestAssumption == Mine \in Requests

VARIABLES
  result,     \* the levels read
  level,      \* the values of the current level so far
  totalNodes, \* nodes in the levels read and in the current one
  answer,     \* "running", or what is returned once the queue is released
  left        \* what was queued at the last test of the loop

locals == <<result, level, totalNodes, answer, left>>
requestVars == <<vars, locals>>

RequestInit ==
  /\ Init
  /\ result = <<>>
  /\ level = <<>>
  /\ totalNodes = 0
  /\ answer = "running"
  /\ left = <<>>

(* The values of q[head:], and the one at its front. *)
NodeAt(k) == memory[q[Mine].array][head[Mine] + k][2]
Queued == [k \in 1..(q[Mine].len - head[Mine]) |-> NodeAt(k)]

(* The test of the outer loop and the two limits, in the order of the code. *)
MyLoop ==
  /\ Loop(Mine)
  /\ \/ /\ head[Mine] >= q[Mine].len
        /\ answer' = "done"
        /\ UNCHANGED <<level, totalNodes>>
     \/ /\ head[Mine] < q[Mine].len
        /\ Len(result) >= MaxDepth
        /\ answer' = "tooDeep"
        /\ UNCHANGED <<level, totalNodes>>
     \/ /\ head[Mine] < q[Mine].len
        /\ Len(result) < MaxDepth
        /\ totalNodes' = totalNodes + (q[Mine].len - head[Mine])
        /\ IF totalNodes' > MaxNodes
           THEN answer' = "tooMany" /\ UNCHANGED level
           ELSE level' = <<>> /\ UNCHANGED answer
  /\ left' = Queued
  /\ UNCHANGED result

(* level[i] = node.Value *)
MyVisit ==
  /\ Visit(Mine)
  /\ level' = Append(level, NodeAt(1))
  /\ UNCHANGED <<result, totalNodes, answer, left>>

(* result = append(result, level) *)
MyEndLevel ==
  /\ EndLevel(Mine)
  /\ result' = Append(result, level)
  /\ UNCHANGED <<level, totalNodes, answer, left>>

(* What other requests do, what Mine does to get and release its queue,    *)
(* and what the collector does.                                            *)
OthersStep ==
  /\ \/ \E r \in Requests : Get(r) \/ Root(r) \/ Clear(r) \/ Store(r) \/ Put(r)
     \/ \E r \in Requests \ {Mine} : Loop(r) \/ Visit(r) \/ EndLevel(r)
     \/ Collect
  /\ UNCHANGED locals

RequestNext == MyLoop \/ MyVisit \/ MyEndLevel \/ OthersStep

RequestSpec == RequestInit /\ [][RequestNext]_requestVars
-----------------------------------------------------------------------------
(* Properties.                                                             *)

(* The queue as the request sees it: its root until there is an array, the *)
(* slots from head on while it works, what was left when it had decided.   *)
Pending ==
  CASE pc[Mine] \in {"get", "root"} -> <<tree[Mine].root>>
    [] pc[Mine] \in {"loop", "level"} -> Queued
    [] OTHER -> left

(* Whatever arrays it is handed, wherever append moves it and whatever the *)
(* other requests do at the same time, a request behaves as one that has   *)
(* a queue of its own: it answers for its own tree.                        *)
Alone == INSTANCE LevelOrderDeque WITH
           tree <- tree[Mine],
           queue <- Pending,
           remaining <- levelEnd[Mine] - head[Mine],
           levelValues <- level,
           status <- IF answer # "running" THEN answer
                     ELSE IF pc[Mine] = "level" THEN "level" ELSE "loop"

ImplementsAlone == Alone!Spec

(* So what it returns is the levels of its own tree, each from left to     *)
(* right and with no node missing, or the refusal that this tree calls for. *)
OwnAnswer == Alone!AnswersAreExact /\ Alone!LevelsInOrder /\ Alone!NothingMissed
=============================================================================
