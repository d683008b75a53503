----------------------------- MODULE GoQueuePool -----------------------------
(***************************************************************************)
(* The sync.Pool of traversal queues of the Go implementation              *)
(* (go-impl/main.go) and the requests that share it.  Every request runs   *)
(* solveLevelOrder in a goroutine of its own; what they share is memory:   *)
(* the backing arrays that go from one traversal to the next through the   *)
(* pool.  A slice is an array and a length; the pool holds pointers to     *)
(* slices.                                                                 *)
(***************************************************************************)
EXTENDS BinaryTrees, SequencesExt

CONSTANTS
  Requests,   \* the requests served, in any overlap
  InitCap     \* capacity of a new queue

ASSUME QueuePoolAssumption == InitCap \in Nat \ {0}

VARIABLES
  memory,     \* the backing arrays allocated so far, each a list of slots
  pointer,    \* the slices the pool's pointers point to
  pool,       \* the pointers in the pool
  tree,       \* the tree of each request
  pc,         \* where each request is in solveLevelOrder
  qPtr,       \* the pointer each request took from the pool
  q,          \* the slice each request works on
  head,       \* nodes each request has visited
  levelEnd,   \* the head at which its current level ends
  depth       \* levels it has read

traversal == <<tree, qPtr, head, levelEnd, depth>>
vars == <<memory, pointer, pool, tree, pc, qPtr, q, head, levelEnd, depth>>

NoPointer == 0
NoSlice == [array |-> 0, len |-> 0]

Init ==
  /\ memory = <<>>
  /\ pointer = <<>>
  /\ pool = {}
  /\ tree \in [Requests -> Trees]
  /\ pc = [r \in Requests |-> "get"]
  /\ qPtr = [r \in Requests |-> NoPointer]
  /\ q = [r \in Requests |-> NoSlice]
  /\ head = [r \in Requests |-> 0]
  /\ levelEnd = [r \in Requests |-> 0]
  /\ depth = [r \in Requests |-> 0]

EmptyArray(capacity) == [k \in 1..capacity |-> Null]

GoTo(r, label) == pc' = [pc EXCEPT ![r] = label]

(* queuePool.Get() returns any pointer of the pool, or New's; the slice is *)
(* cut to length 0 and keeps its array.                                    *)
Get(r) ==
  /\ pc[r] = "get"
  /\ \/ \E p \in pool :
          /\ pool' = pool \ {p}
          /\ qPtr' = [qPtr EXCEPT ![r] = p]
          /\ q' = [q EXCEPT ![r] = [pointer[p] EXCEPT !.len = 0]]
          /\ UNCHANGED <<memory, pointer>>
     \/ /\ memory' = Append(memory, EmptyArray(InitCap))
        /\ pointer' = Append(pointer, [array |-> Len(memory) + 1, len |-> 0])
        /\ qPtr' = [qPtr EXCEPT ![r] = Len(pointer) + 1]
        /\ q' = [q EXCEPT ![r] = [array |-> Len(memory) + 1, len |-> 0]]
        /\ UNCHANGED pool
  /\ GoTo(r, "root")
  /\ UNCHANGED <<tree, head, levelEnd, depth>>

(* append(s, x), with the memory it leaves: in place while there is room,  *)
(* in a copy of twice the capacity when there is none.                     *)
Appended(m, s, x) ==
  LET old == m[s.array]
      copy == SubSeq(old, 1, s.len) \o <<x>> \o EmptyArray(2 * Len(old) - s.len - 1)
  IN  IF s.len < Len(old)
      THEN [memory |-> [m EXCEPT ![s.array][s.len + 1] = x],
            slice |-> [s EXCEPT !.len = @ + 1]]
      ELSE [memory |-> Append(m, copy),
            slice |-> [array |-> Len(m) + 1, len |-> s.len + 1]]

(* The node n of the tree of request r, in memory; and its children there, *)
(* in the tree of whichever request the node belongs to.                   *)
Pointer(r, n) == <<r, n>>
ChildPointers(node) ==
  LET children == Children(tree[node[1]], node[2])
  IN  [k \in 1..Len(children) |-> Pointer(node[1], children[k])]

(* Appends the pointers xs, of which there are two at most. *)
AppendAll(r, xs) ==
  LET none == [memory |-> memory, slice |-> q[r]]
      one == Appended(none.memory, none.slice, xs[1])
      two == Appended(one.memory, one.slice, xs[2])
      after == CASE Len(xs) = 0 -> none [] Len(xs) = 1 -> one [] OTHER -> two
  IN  memory' = after.memory /\ q' = [q EXCEPT ![r] = after.slice]

(* q = append(q, root) *)
Root(r) ==
  /\ pc[r] = "root"
  /\ AppendAll(r, <<Pointer(r, tree[r].root)>>)
  /\ GoTo(r, "loop")
  /\ UNCHANGED <<pointer, pool, traversal>>

(* The head of the loop, at which levelEnd nodes have been counted: another *)
(* level, or the release that precedes each return.                        *)
Loop(r) ==
  /\ pc[r] = "loop"
  /\ IF head[r] < q[r].len /\ depth[r] < MaxDepth /\ q[r].len <= MaxNodes
     THEN levelEnd' = [levelEnd EXCEPT ![r] = q[r].len] /\ GoTo(r, "level")
     ELSE UNCHANGED levelEnd /\ GoTo(r, "clear")
  /\ UNCHANGED <<memory, pointer, pool, tree, qPtr, q, head, depth>>

(* One node of the level; its children are appended. *)
Visit(r) ==
  /\ pc[r] = "level"
  /\ head[r] < levelEnd[r]
  /\ AppendAll(r, ChildPointers(memory[q[r].array][head[r] + 1]))
  /\ head' = [head EXCEPT ![r] = @ + 1]
  /\ UNCHANGED <<pointer, pool, tree, pc, qPtr, levelEnd, depth>>

EndLevel(r) ==
  /\ pc[r] = "level"
  /\ head[r] = levelEnd[r]
  /\ depth' = [depth EXCEPT ![r] = @ + 1]
  /\ GoTo(r, "loop")
  /\ UNCHANGED <<memory, pointer, pool, tree, qPtr, q, head, levelEnd>>

(* Wrong variant: the pointer put back before the array is cleared. *)
Clear_AfterPut(r) ==
  /\ pc[r] = "clear"
  /\ pool' = pool \union {qPtr[r]}
  /\ GoTo(r, "store")
  /\ UNCHANGED <<memory, pointer, q, traversal>>

(* releaseQueue, first: clear(q) zeroes the slots the slice spans. *)
Clear(r) ==
  /\ pc[r] = "clear"
  /\ memory' = [memory EXCEPT ![q[r].array] =
                  [k \in 1..Len(@) |-> IF k <= q[r].len THEN Null ELSE @[k]]]
  /\ GoTo(r, "store")
  /\ UNCHANGED <<pointer, pool, q, traversal>>

(* Wrong variant: the pointer keeps the slice it came with, whose array was *)
(* left behind, not cleared, if the queue grew.                            *)
Store_Nothing(r) ==
  /\ pc[r] = "store"
  /\ GoTo(r, "put")
  /\ UNCHANGED <<memory, pointer, pool, q, traversal>>

(* ... second: the pointer is made to point to the grown array. *)
Store(r) ==
  /\ pc[r] = "store"
  /\ pointer' = [pointer EXCEPT ![qPtr[r]] = [q[r] EXCEPT !.len = 0]]
  /\ GoTo(r, "put")
  /\ UNCHANGED <<memory, pool, q, traversal>>

(* ... third: the pointer goes back to the pool. *)
Put(r) ==
  /\ pc[r] = "put"
  /\ pool' = pool \union {qPtr[r]}
  /\ GoTo(r, "done")
  /\ UNCHANGED <<memory, pointer, q, traversal>>

(* The garbage collector may empty the pool of any pointer at any time. *)
Collect ==
  /\ \E p \in pool : pool' = pool \ {p}
  /\ UNCHANGED <<memory, pointer, pc, q, traversal>>

Next ==
  \/ \E r \in Requests :
       \/ Get(r) \/ Root(r) \/ Loop(r) \/ Visit(r) \/ EndLevel(r)
       \/ Clear(r) \/ Store(r) \/ Put(r)
  \/ Collect

Spec == Init /\ [][Next]_vars
-----------------------------------------------------------------------------
(* Properties.                                                             *)

Pointers == 1..Len(pointer)
Slices == [array : 0..Len(memory), len : Nat]

(* Type correctness; every slice fits in its array. *)
TypeOK ==
  /\ memory \in Seq(Seq({Null} \union (Requests \X Node)))
  /\ pointer \in Seq(Slices)
  /\ pool \subseteq Pointers
  /\ tree \in [Requests -> Trees]
  /\ pc \in [Requests -> {"get", "root", "loop", "level", "clear", "store",
                          "put", "done"}]
  /\ qPtr \in [Requests -> {NoPointer} \union Pointers]
  /\ q \in [Requests -> Slices]
  /\ \A r \in Requests : pc[r] # "get" => q[r].len <= Len(memory[q[r].array])
  /\ head \in [Requests -> Nat]
  /\ levelEnd \in [Requests -> Nat]
  /\ depth \in [Requests -> Nat]

(* The requests that took a pointer and have not given it back. *)
Active == {r \in Requests : pc[r] \notin {"get", "done"}}

(* A backing array serves one traversal at a time: two that are under way  *)
(* never work on the same array, nor on one the pool could hand out.       *)
ArraysAreExclusive ==
  \A r \in Active :
    /\ \A s \in Active \ {r} : q[s].array # q[r].array
    /\ \A p \in pool : pointer[p].array # q[r].array

(* main.go, releaseQueue: "so the GC can collect the tree nodes            *)
(* immediately after the handler returns".  No array in the pool holds a   *)
(* node, neither within the length of its slice nor behind it, whichever   *)
(* arrays its traversals grew through.                                     *)
PooledArraysHoldNothing ==
  \A p \in pool : \A k \in 1..Len(memory[pointer[p].array]) :
    memory[pointer[p].array][k] = Null

(* What a pool of arrays has to promise its users.                         *)
PoolIsSafe == ArraysAreExclusive /\ PooledArraysHoldNothing
=============================================================================
