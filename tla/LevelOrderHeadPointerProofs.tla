--------------------- MODULE LevelOrderHeadPointerProofs ---------------------
(***************************************************************************)
(* Proofs about LevelOrderHeadPointer: the array is bounded, its buffers   *)
(* are filled, and the whole behaves as the double-ended queue.            *)
(***************************************************************************)
EXTENDS LevelOrderHeadPointer, SequenceTheorems, TLAPS

USE NullAssumption, LimitsAssumption

(* The part of a sequence behind an index. *)
LEMMA Suffix ==
  ASSUME NEW S, NEW s \in Seq(S), NEW h \in 0..Len(s)
  PROVE  LET q == SubSeq(s, h + 1, Len(s))
         IN  /\ q \in Seq(S)
             /\ Len(q) = Len(s) - h
             /\ \A k \in 1..(Len(s) - h) : q[k] = s[h + k]
<1>1. Len(s) \in Nat /\ h \in Nat /\ \A k \in (h + 1)..Len(s) : s[k] \in S
  BY LenProperties, ElementOfSeq
<1>2. QED  BY <1>1, SubSeqProperties

(* Two sequences end to end, index by index. *)
LEMMA Joined ==
  ASSUME NEW S, NEW a \in Seq(S), NEW b \in Seq(S)
  PROVE  /\ a \o b \in Seq(S) /\ Len(a) \in Nat /\ Len(b) \in Nat
         /\ Len(a \o b) = Len(a) + Len(b)
         /\ \A k \in 1..Len(a) : (a \o b)[k] = a[k]
         /\ \A k \in 1..Len(b) : (a \o b)[Len(a) + k] = b[k]
  OBVIOUS

(* Advancing the head and appending is polling and adding. *)
LEMMA SuffixStep ==
  ASSUME NEW S, NEW s \in Seq(S), NEW h \in 0..Len(s), h < Len(s),
         NEW c \in Seq(S)
  PROVE  LET q == SubSeq(s, h + 1, Len(s))
         IN  /\ q # <<>> /\ Head(q) = s[h + 1]
             /\ SubSeq(s \o c, (h + 1) + 1, Len(s \o c)) = Tail(q) \o c
<1> DEFINE q == SubSeq(s, h + 1, Len(s))
           t == s \o c
           r == SubSeq(t, (h + 1) + 1, Len(t))
<1>1. /\ Len(s) \in Nat /\ Len(c) \in Nat /\ h \in Nat
      /\ q \in Seq(S) /\ Len(q) = Len(s) - h
      /\ \A k \in 1..(Len(s) - h) : q[k] = s[h + k]
  BY Suffix
<1>2. /\ t \in Seq(S) /\ Len(t) = Len(s) + Len(c)
      /\ \A k \in 1..Len(s) : t[k] = s[k]
      /\ \A k \in 1..Len(c) : t[Len(s) + k] = c[k]
  BY <1>1
<1>3. q # <<>> /\ Head(q) = s[h + 1]
  <2> HIDE DEF q
  <2>1. QED  BY <1>1
<1>4. /\ r \in Seq(S) /\ Len(r) = Len(s) + Len(c) - (h + 1)
      /\ \A k \in 1..(Len(s) + Len(c) - (h + 1)) : r[k] = t[(h + 1) + k]
  <2> HIDE DEF t
  <2>1. PICK g \in 0..Len(t) : g = h + 1
    BY <1>1, <1>2
  <2>2. LET p == SubSeq(t, g + 1, Len(t))
        IN  /\ p \in Seq(S) /\ Len(p) = Len(t) - g
            /\ \A k \in 1..(Len(t) - g) : p[k] = t[g + k]
    BY <1>2, <2>1, Suffix
  <2>3. QED  BY <1>2, <2>1, <2>2
<1>5. /\ Tail(q) \o c \in Seq(S)
      /\ Len(Tail(q) \o c) = Len(s) + Len(c) - (h + 1)
      /\ \A k \in 1..(Len(s) - h - 1) : (Tail(q) \o c)[k] = q[k + 1]
      /\ \A k \in 1..Len(c) : (Tail(q) \o c)[(Len(s) - h - 1) + k] = c[k]
  <2> HIDE DEF q
  <2>1. /\ Tail(q) \in Seq(S) /\ Len(Tail(q)) = Len(s) - h - 1
        /\ \A k \in 1..(Len(s) - h - 1) : Tail(q)[k] = q[k + 1]
    BY <1>1, <1>3
  <2> DEFINE u == Tail(q)
  <2> HIDE DEF u
  <2>2. /\ u \in Seq(S) /\ Len(u) = Len(s) - h - 1
        /\ \A k \in 1..(Len(s) - h - 1) : u[k] = q[k + 1]
    BY <2>1 DEF u
  <2>0. u \in Seq(S) /\ c \in Seq(S)
    BY <2>2
  <2>3. /\ u \o c \in Seq(S) /\ Len(u \o c) = Len(u) + Len(c)
        /\ \A k \in 1..Len(u) : (u \o c)[k] = u[k]
        /\ \A k \in 1..Len(c) : (u \o c)[Len(u) + k] = c[k]
    BY <2>0, Joined
  <2>4. Len(u) + Len(c) = Len(s) + Len(c) - (h + 1)
    BY <1>1, <2>2
  <2>5. QED  BY <2>2, <2>3, <2>4 DEF u
<1>6. ASSUME NEW k \in 1..(Len(s) + Len(c) - (h + 1))
      PROVE  r[k] = (Tail(q) \o c)[k]
  <2> HIDE DEF q, r, t
  <2>1. r[k] = t[(h + 1) + k]
    BY <1>4
  <2>2. CASE k <= Len(s) - h - 1
    <3>1. /\ k \in 1..(Len(s) - h - 1) /\ k + 1 \in 1..(Len(s) - h)
          /\ (h + 1) + k \in 1..Len(s) /\ h + (k + 1) = (h + 1) + k
      BY <1>1, <2>2
    <3>2. QED  BY <1>1, <1>2, <1>5, <2>1, <3>1
  <2>3. CASE k > Len(s) - h - 1
    <3>1. /\ k - (Len(s) - h - 1) \in 1..Len(c)
          /\ (h + 1) + k = Len(s) + (k - (Len(s) - h - 1))
          /\ k = (Len(s) - h - 1) + (k - (Len(s) - h - 1))
      BY <1>1, <2>3
    <3> DEFINE j == k - (Len(s) - h - 1)
    <3> HIDE DEF j
    <3>2. j \in 1..Len(c) /\ (h + 1) + k = Len(s) + j /\ k = (Len(s) - h - 1) + j
      BY <3>1 DEF j
    <3>3. r[k] = c[j]
      BY <1>2, <2>1, <3>2
    <3>4. (Tail(q) \o c)[(Len(s) - h - 1) + j] = c[j]
      BY <1>5, <3>2
    <3>5. QED  BY <3>2, <3>3, <3>4
  <2>4. QED  BY <1>1, <2>2, <2>3
<1>7. r = Tail(q) \o c
  <2> HIDE DEF q, r
  <2>1. QED  BY <1>4, <1>5, <1>6, SeqEqual
<1>8. QED  BY <1>3, <1>7

(* Writing the next slot of the buffer appends to what was written. *)
LEMMA SlotWritten ==
  ASSUME NEW S, NEW l \in Seq(S), NEW k \in 0..Len(l), k < Len(l), NEW x \in S
  PROVE  SubSeq([l EXCEPT ![k + 1] = x], 1, k + 1) = Append(SubSeq(l, 1, k), x)
<1> DEFINE m == [l EXCEPT ![k + 1] = x]
           a == SubSeq(m, 1, k + 1)
           b == SubSeq(l, 1, k)
<1>1. /\ Len(l) \in Nat /\ k \in Nat /\ k + 1 \in 1..Len(l)
      /\ \A j \in 1..Len(l) : l[j] \in S
  BY LenProperties, ElementOfSeq
<1>2. /\ m \in Seq(S) /\ Len(m) = Len(l)
      /\ \A j \in 1..Len(l) : m[j] = IF j = k + 1 THEN x ELSE l[j]
  BY <1>1, ExceptSeq
<1>3. /\ a \in Seq(S) /\ Len(a) = k + 1
      /\ \A j \in 1..(k + 1) : a[j] = m[j]
  <2> HIDE DEF m
  <2>1. \A j \in 1..(k + 1) : m[j] \in S
    BY <1>1, <1>2
  <2>2. QED  BY <1>1, <2>1, SubSeqProperties
<1>4. /\ b \in Seq(S) /\ Len(b) = k
      /\ \A j \in 1..k : b[j] = l[j]
  <2>1. \A j \in 1..k : l[j] \in S
    BY <1>1
  <2>2. QED  BY <1>1, <2>1, SubSeqProperties
<1>5. /\ Append(b, x) \in Seq(S) /\ Len(Append(b, x)) = k + 1
      /\ \A j \in 1..k : Append(b, x)[j] = b[j]
      /\ Append(b, x)[k + 1] = x
  <2> HIDE DEF b
  <2>1. QED  BY <1>4, AppendProperties
<1>6. \A j \in 1..(k + 1) : a[j] = Append(b, x)[j]
  <2> HIDE DEF a, b, m
  <2>1. QED  BY <1>1, <1>2, <1>3, <1>4, <1>5
<1>7. QED
  <2> HIDE DEF a, b, m
  <2>1. a = Append(b, x)
    BY <1>3, <1>5, <1>6, SeqEqual
  <2>2. QED  BY <2>1 DEF a, b, m

(* A node has two children at most, and no null ones. *)
LEMMA ChildrenType ==
  ASSUME NEW T \in Trees, NEW n \in Node
  PROVE  Children(T, n) \in Seq(Node) /\ Len(Children(T, n)) \in 0..2
<1> DEFINE l == IF T.left[n] # Null THEN <<T.left[n]>> ELSE <<>>
           r == IF T.right[n] # Null THEN <<T.right[n]>> ELSE <<>>
<1>1. T.left[n] \in Node \union {Null} /\ T.right[n] \in Node \union {Null}
  BY TreesAssumption
<1>2. /\ l \in Seq(Node) /\ Len(l) \in 0..1
      /\ r \in Seq(Node) /\ Len(r) \in 0..1
  BY <1>1
<1>3. Children(T, n) = l \o r
  BY DEF Children
<1> HIDE DEF l, r
<1>4. QED  BY <1>2, <1>3, ConcatProperties
-----------------------------------------------------------------------------
(* The inductive invariant: between levels the head is at the end of the   *)
(* level just read; the count is the end of the level as long as nothing   *)
(* is refused; what is written is not null.                                *)
HeadInv ==
  /\ TypeOK
  /\ SlotsMatchNodes
  /\ head <= levelEnd
  /\ status # "level" => head = levelEnd
  /\ status # "tooMany" => totalNodes = levelEnd
  /\ levelEnd <= MaxNodes
  /\ Len(queue) <= 2 * head + 1

(* The traversal starts with the root alone. *)
LEMMA InitHead == Init => HeadInv
BY TreesAssumption DEF Init, HeadInv, TypeOK, SlotsMatchNodes

(* A buffer is allocated, or the level refused. *)
LEMMA StartLevelHead == HeadInv /\ StartLevel => HeadInv'
<1> SUFFICES ASSUME HeadInv, StartLevel PROVE HeadInv'
  OBVIOUS
<1> DEFINE n == Len(queue) - head
<1>1. /\ status = "loop" /\ head < Len(queue)
      /\ head = levelEnd /\ totalNodes = levelEnd
      /\ totalNodes' = totalNodes + n
      /\ UNCHANGED <<tree, queue, head, result>>
      /\ head \in Nat /\ Len(queue) \in Nat /\ n \in Nat
  BY DEF StartLevel, MoreLevels, LevelSize, HeadInv, TypeOK
<1>2. CASE status' = "tooMany" /\ UNCHANGED <<levelEnd, level, i>>
  BY <1>1, <1>2 DEF HeadInv, TypeOK, SlotsMatchNodes
<1>3. CASE ~NodesExceeded(totalNodes') /\ status' = "level" /\ Allocate
  <2>1. /\ levelEnd' = head + n /\ levelEnd' = Len(queue)
        /\ level' = [k \in 1..n |-> Null]
        /\ i' = 0
        /\ totalNodes' <= MaxNodes
    BY <1>1, <1>3 DEF Allocate, LevelSize, NodesExceeded
  <2>2. level' \in Seq(Node \union {Null}) /\ Len(level') = n
    BY <1>1, <2>1
  <2>3. TypeOK'
    BY <1>1, <1>3, <2>1, <2>2 DEF HeadInv, TypeOK
  <2>4. SlotsMatchNodes'
    BY <1>1, <1>3, <2>1, <2>2 DEF SlotsMatchNodes
  <2>5. QED  BY <1>1, <1>3, <2>1, <2>3, <2>4 DEF HeadInv
<1>4. QED  BY <1>2, <1>3 DEF StartLevel

(* A visit writes the next slot and queues two nodes at most. *)
LEMMA VisitHead == HeadInv /\ Visit => HeadInv'
<1> SUFFICES ASSUME HeadInv, Visit PROVE HeadInv'
  OBVIOUS
<1> DEFINE n == queue[head + 1]
           c == Children(tree, n)
<1>1. /\ status = "level" /\ status' = "level" /\ head < levelEnd
      /\ i' = i + 1 /\ head' = head + 1
      /\ level' = [level EXCEPT ![i + 1] = n]
      /\ queue' = queue \o c
      /\ UNCHANGED <<tree, levelEnd, result, totalNodes>>
  BY DEF Visit
<1>2. /\ tree \in Trees /\ queue \in Seq(Node) /\ Len(queue) \in Nat
      /\ head \in Nat /\ levelEnd \in 0..Len(queue)
      /\ level \in Seq(Node \union {Null}) /\ Len(level) \in Nat
      /\ i \in Nat /\ Len(level) - i = levelEnd - head
      /\ \A k \in 1..Len(level) : level[k] = Null <=> k > i
  BY <1>1 DEF HeadInv, TypeOK, SlotsMatchNodes
<1>3. n \in Node
  BY <1>1, <1>2
<1>4. c \in Seq(Node) /\ Len(c) \in 0..2
  BY <1>2, <1>3, ChildrenType
<1>5. /\ queue' \in Seq(Node)
      /\ Len(queue') = Len(queue) + Len(c) /\ Len(queue') \in Nat
  BY <1>1, <1>2, <1>4, ConcatProperties
<1>6. i + 1 \in 1..Len(level)
  BY <1>1, <1>2
<1>7. /\ level' \in Seq(Node \union {Null}) /\ Len(level') = Len(level)
      /\ \A k \in 1..Len(level) : level'[k] = IF k = i + 1 THEN n ELSE level[k]
  BY <1>1, <1>2, <1>3, <1>6, ExceptSeq
<1>8. TypeOK'
  <2> HIDE DEF n, c
  <2>1. /\ head' \in 0..Len(queue') /\ levelEnd' \in 0..Len(queue')
        /\ i' \in 0..Len(level')
    BY <1>1, <1>2, <1>4, <1>5, <1>6, <1>7
  <2>2. QED  BY <1>1, <1>5, <1>7, <2>1 DEF HeadInv, TypeOK
<1>9. SlotsMatchNodes'
  <2>1. Len(level') - i' = levelEnd' - head'
    BY <1>1, <1>2, <1>7
  <2>2. \A k \in 1..Len(level') : level'[k] = Null <=> k > i'
    BY <1>1, <1>2, <1>3, <1>7
  <2>3. QED  BY <2>1, <2>2 DEF SlotsMatchNodes
<1>10. Len(queue') <= 2 * head' + 1
  <2> HIDE DEF n, c
  <2>1. Len(queue) <= 2 * head + 1
    BY DEF HeadInv
  <2>2. Len(queue') = Len(queue) + Len(c) /\ head' = head + 1
    BY <1>1, <1>5
  <2>3. Len(c) \in 0..2
    BY <1>4
  <2>4. Len(queue) \in Nat /\ head \in Nat
    BY <1>2
  <2>5. \A a, b \in Nat, d \in 0..2 :
          b <= 2 * a + 1 => b + d <= 2 * (a + 1) + 1
    OBVIOUS
  <2>6. Len(queue) + Len(c) <= 2 * (head + 1) + 1
    BY <2>1, <2>3, <2>4, <2>5
  <2>7. QED  BY <2>2, <2>6
<1>11. QED  BY <1>1, <1>2, <1>8, <1>9, <1>10 DEF HeadInv

(* A full buffer joins the result. *)
LEMMA FullBuffer ==
  ASSUME HeadInv, EndLevel
  PROVE  level \in Seq(Node) /\ SubSeq(level, 1, i) = level
<1>1. /\ level \in Seq(Node \union {Null}) /\ Len(level) \in Nat
      /\ i = Len(level)
      /\ \A k \in 1..Len(level) : level[k] # Null
  BY DEF HeadInv, TypeOK, SlotsMatchNodes, EndLevel
<1>2. SubSeq(level, 1, i) = level
  BY <1>1, SubSeqFull
<1>3. \A k \in 1..Len(level) : level[k] \in Node
  BY <1>1
<1>4. QED  BY <1>1, <1>2, <1>3

(* The invariant holds of the traversal of every tree. *)
THEOREM HeadInvariance == Spec => []HeadInv
<1>1. Init => HeadInv
  BY InitHead
<1>2. HeadInv /\ [Next]_vars => HeadInv'
  <2> SUFFICES ASSUME HeadInv, [Next]_vars PROVE HeadInv'
    OBVIOUS
  <2>1. CASE StartLevel
    BY <2>1, StartLevelHead
  <2>2. CASE Visit
    BY <2>2, VisitHead
  <2>3. CASE EndLevel
    <3>1. result' \in Seq(Seq(Node))
      BY <2>3, FullBuffer DEF EndLevel, HeadInv, TypeOK
    <3>2. /\ status = "level" /\ status' = "loop" /\ head = levelEnd
          /\ UNCHANGED <<tree, queue, head, levelEnd, level, i, totalNodes>>
      BY <2>3 DEF EndLevel
    <3>3. QED  BY <3>1, <3>2 DEF HeadInv, TypeOK, SlotsMatchNodes
  <2>4. CASE TooDeep
    BY <2>4 DEF TooDeep, HeadInv, TypeOK, SlotsMatchNodes
  <2>5. CASE Return
    BY <2>5 DEF Return, HeadInv, TypeOK, SlotsMatchNodes
  <2>6. CASE UNCHANGED vars
    BY <2>6 DEF vars, HeadInv, TypeOK, SlotsMatchNodes
  <2>7. QED  BY <2>1, <2>2, <2>3, <2>4, <2>5, <2>6 DEF Next
<1>3. QED  BY <1>1, <1>2, PTL DEF Spec

(* Type correctness: no slot of a buffer that joined the result was left   *)
(* unwritten.                                                              *)
THEOREM BuffersAreFilled == Spec => [](TypeOK /\ SlotsMatchNodes)
<1>1. HeadInv => TypeOK /\ SlotsMatchNodes
  BY DEF HeadInv
<1>2. QED  BY <1>1, HeadInvariance, PTL

(* However wide or deep the tree, the traversal reads no more nodes than   *)
(* the limit, and the array never holds more than twice as many and one.   *)
THEOREM ArrayIsBounded == Spec => []ArrayBounded
<1>1. HeadInv => ArrayBounded
  BY DEF HeadInv, TypeOK, ArrayBounded
<1>2. QED  BY <1>1, HeadInvariance, PTL
-----------------------------------------------------------------------------
(* The refinement. *)

(* Visit is the visit of the deque. *)
LEMMA VisitRefines ==
  ASSUME HeadInv, Visit
  PROVE  Deque!Visit
<1> DEFINE n == queue[head + 1]
           c == Children(tree, n)
           q == SubSeq(queue, head + 1, Len(queue))
<1>1. /\ status = "level" /\ status' = "level" /\ head < levelEnd
      /\ i' = i + 1 /\ head' = head + 1
      /\ level' = [level EXCEPT ![i + 1] = n]
      /\ queue' = queue \o c
      /\ UNCHANGED <<tree, levelEnd, result, totalNodes>>
  BY DEF Visit
<1>2. /\ tree \in Trees /\ queue \in Seq(Node) /\ Len(queue) \in Nat
      /\ head \in Nat /\ levelEnd \in 0..Len(queue)
      /\ level \in Seq(Node \union {Null}) /\ Len(level) \in Nat
      /\ i \in Nat /\ Len(level) - i = levelEnd - head
  BY <1>1 DEF HeadInv, TypeOK, SlotsMatchNodes
<1>3. n \in Node
  BY <1>1, <1>2
<1>4. c \in Seq(Node)
  BY <1>2, <1>3, ChildrenType
<1>5. /\ Head(q) = n
      /\ SubSeq(queue', head' + 1, Len(queue')) = Tail(q) \o c
  <2>1. head \in 0..Len(queue) /\ head < Len(queue)
    BY <1>1, <1>2
  <2> HIDE DEF c, n
  <2>2. /\ Head(q) = queue[head + 1]
        /\ SubSeq(queue \o c, (head + 1) + 1, Len(queue \o c)) = Tail(q) \o c
    BY <1>2, <1>4, <2>1, SuffixStep
  <2>3. QED  BY <1>1, <2>2 DEF n
<1>6. SubSeq(level', 1, i') = Append(SubSeq(level, 1, i), n)
  <2>1. i \in 0..Len(level) /\ i < Len(level) /\ n \in Node \union {Null}
    BY <1>1, <1>2, <1>3
  <2> HIDE DEF n
  <2>2. QED  BY <1>1, <1>2, <2>1, SlotWritten
<1>7. levelEnd - head > 0 /\ levelEnd' - head' = (levelEnd - head) - 1
  BY <1>1, <1>2
<1>8. Deque!Children(tree, n) = c
  BY DEF Deque!Children, Children
<1>9. QED
  <2> HIDE DEF n, c, q
  <2>1. Head(q) = n /\ Deque!Children(tree, Head(q)) = c
    BY <1>5, <1>8
  <2>2. QED  BY <1>1, <1>5, <1>6, <1>7, <2>1 DEF Deque!Visit, q

(* Every behaviour on the array is a behaviour on the double-ended queue.  *)
THEOREM Refinement == Spec => ImplementsDeque
<1>1. Init => Deque!Init
  <2> SUFFICES ASSUME Init PROVE Deque!Init
    OBVIOUS
  <2>1. tree.root \in Node /\ queue = <<tree.root>> /\ Len(queue) = 1
    BY TreesAssumption DEF Init
  <2>2. SubSeq(queue, head + 1, Len(queue)) = <<tree.root>>
    <3>0. queue \in Seq(Node)
      BY <2>1
    <3>1. SubSeq(queue, 1, Len(queue)) = queue
      BY <3>0, SubSeqFull
    <3>2. QED  BY <2>1, <3>1 DEF Init
  <2>3. SubSeq(level, 1, i) = <<>>
    BY SubSeqEmpty DEF Init
  <2>4. QED  BY <2>1, <2>2, <2>3 DEF Init, Deque!Init
<1>2. HeadInv /\ [Next]_vars => [Deque!Next]_(Deque!vars)
  <2> SUFFICES ASSUME HeadInv, [Next]_vars PROVE [Deque!Next]_(Deque!vars)
    OBVIOUS
  <2> DEFINE q == SubSeq(queue, head + 1, Len(queue))
  <2>1. /\ Len(queue) \in Nat /\ head \in Nat
        /\ q \in Seq(Node) /\ Len(q) = Len(queue) - head
    <3>1. /\ queue \in Seq(Node) /\ head \in 0..Len(queue)
          /\ Len(queue) \in Nat /\ head \in Nat
      BY DEF HeadInv, TypeOK
    <3>2. q \in Seq(Node) /\ Len(q) = Len(queue) - head
      BY <3>1, Suffix
    <3>3. QED  BY <3>1, <3>2
  <2>2. q # <<>> <=> MoreLevels
    <3> HIDE DEF q
    <3>1. QED  BY <2>1 DEF MoreLevels
  <2>3. Len(result) \in Nat
    BY DEF HeadInv, TypeOK
  <2>4. CASE StartLevel
    <3>1. /\ status = "loop" /\ q # <<>> /\ Len(result) < MaxDepth
          /\ totalNodes' = totalNodes + Len(q)
          /\ UNCHANGED <<tree, queue, head, result>>
      BY <2>1, <2>2, <2>4 DEF StartLevel, LevelSize
    <3>0. /\ ~Deque!DepthReached
          /\ Deque!NodesExceeded(totalNodes') <=> NodesExceeded(totalNodes')
      <4>1. Len(result) \in Nat /\ Len(result) < MaxDepth
        BY <2>3, <3>1
      <4>2. ~Deque!DepthReached
        BY <4>1 DEF Deque!DepthReached
      <4>3. Deque!NodesExceeded(totalNodes') <=> NodesExceeded(totalNodes')
        BY DEF Deque!NodesExceeded, NodesExceeded
      <4>4. QED  BY <4>2, <4>3
    <3>2. CASE /\ NodesExceeded(totalNodes') /\ status' = "tooMany"
               /\ UNCHANGED <<levelEnd, level, i>>
      BY <3>0, <3>1, <3>2 DEF Deque!Next, Deque!StartLevel
    <3>3. CASE ~NodesExceeded(totalNodes') /\ status' = "level" /\ Allocate
      <4>1. levelEnd' - head' = Len(q) /\ i' = 0
        BY <2>1, <3>1, <3>3 DEF Allocate, LevelSize
      <4>2. SubSeq(level', 1, i') = <<>>
        BY <4>1, SubSeqEmpty
      <4>3. QED
        BY <3>0, <3>1, <3>3, <4>1, <4>2 DEF Deque!Next, Deque!StartLevel
    <3>4. QED  BY <2>4, <3>2, <3>3 DEF StartLevel
  <2>5. CASE Visit
    BY <2>5, VisitRefines DEF Deque!Next
  <2>6. CASE EndLevel
    <3>1. SubSeq(level, 1, i) = level
      BY <2>6, FullBuffer
    <3>2. levelEnd - head = 0
      BY <2>1, <2>6 DEF EndLevel
    <3>3. QED
      BY <2>6, <3>1, <3>2 DEF EndLevel, Deque!Next, Deque!EndLevel
  <2>7. CASE TooDeep
    BY <2>2, <2>7 DEF TooDeep, Deque!Next, Deque!TooDeep, Deque!DepthReached
  <2>8. CASE Return
    BY <2>2, <2>8 DEF Return, Deque!Next, Deque!Return
  <2>9. CASE UNCHANGED vars
    BY <2>9 DEF vars, Deque!vars
  <2>10. QED  BY <2>4, <2>5, <2>6, <2>7, <2>8, <2>9 DEF Next
<1>3. QED
  BY <1>1, <1>2, HeadInvariance, PTL DEF Spec, ImplementsDeque, Deque!Spec

(* What is proved of the deque holds of the array it stands for. *)
Proved == INSTANCE LevelOrderProofs WITH
            queue <- SubSeq(queue, head + 1, Len(queue)),
            remaining <- levelEnd - head,
            levelValues <- SubSeq(level, 1, i)

(* The deque that the array implements is the one the theorems are about.  *)
LEMMA SameDeque ==
  /\ Deque!Init => Proved!Init
  /\ [Deque!Next]_(Deque!vars) => [Proved!Next]_(Proved!vars)
<1>1. Deque!Init => Proved!Init
  BY DEF Deque!Init, Proved!Init
<1>2. [Deque!Next]_(Deque!vars) => [Proved!Next]_(Proved!vars)
  BY DEF Deque!Next, Proved!Next, Deque!vars, Proved!vars,
     Deque!TooDeep, Proved!TooDeep, Deque!DepthReached, Proved!DepthReached,
     Deque!StartLevel, Proved!StartLevel, Deque!NodesExceeded, Proved!NodesExceeded,
     Deque!Visit, Proved!Visit, Deque!EndLevel, Proved!EndLevel,
     Deque!Return, Proved!Return, Deque!Children, Proved!Children
<1>3. QED  BY <1>1, <1>2

(* The levels come out of the array separate and in order, and complete.   *)
THEOREM LevelsComeInOrder == Spec => []LevelsInOrder
<1>1. Deque!LevelsInOrder <=> Proved!LevelsInOrder
  BY DEF Deque!LevelsInOrder, Proved!LevelsInOrder, Deque!RankIncreasing,
     Proved!RankIncreasing, Deque!Range, Proved!Range
<1>2. Deque!NothingMissed <=> Proved!NothingMissed
  BY DEF Deque!NothingMissed, Proved!NothingMissed, Deque!Read, Proved!Read,
     Deque!ReadLevels, Proved!ReadLevels, Deque!Range, Proved!Range,
     Deque!Offspring, Proved!Offspring
<1>3. /\ Proved!Spec => []Proved!LevelsInOrder
      /\ Proved!Spec => []Proved!NothingMissed
  BY Proved!LevelsComeInOrder, Proved!NoNodeMissed, TreesAssumption
     DEF IsLevelOrdered, Proved!IsLevelOrdered, Offspring, Proved!Offspring
<1>4. QED
  BY SameDeque, <1>1, <1>2, <1>3, Refinement, PTL
     DEF ImplementsDeque, LevelsInOrder, Deque!Spec, Proved!Spec

(* So does the answer, which is that of the tree: Go and both Node services *)
(* accept and refuse the trees that the limits say, as the others do.      *)
THEOREM AnswersComeFromTrees == Spec => []Deque!AnswersAreExact
<1>1. Deque!AnswersAreExact <=> Proved!AnswersAreExact
  BY DEF Deque!AnswersAreExact, Proved!AnswersAreExact,
     Deque!ReadLevels, Proved!ReadLevels, Deque!Range, Proved!Range,
     Deque!NodesOf, Proved!NodesOf, Deque!ClosedIn, Proved!ClosedIn,
     Deque!Offspring, Proved!Offspring, Deque!DownTo, Proved!DownTo,
     Deque!MoreThan, Proved!MoreThan, Deque!Cardinality, Proved!Cardinality,
     Deque!IsFiniteSet, Proved!IsFiniteSet
<1>2. Proved!Spec => []Proved!AnswersAreExact
  BY Proved!AnswersComeFromTrees, TreesAssumption
     DEF IsLevelOrdered, Proved!IsLevelOrdered, Offspring, Proved!Offspring
<1>3. QED
  BY SameDeque, <1>1, <1>2, Refinement, PTL
     DEF ImplementsDeque, Deque!Spec, Proved!Spec

(* What the loops rely on, and come to, holds of every tree and every limit. *)
THEOREM LoopsHold == Spec => []LoopsAreSound
BY LevelsComeInOrder, BuffersAreFilled, ArrayIsBounded, AnswersComeFromTrees, PTL
   DEF LoopsAreSound
=============================================================================
