--------------------------- MODULE LevelOrderProofs --------------------------
(***************************************************************************)
(* Proofs about LevelOrderDeque, for every set of trees and every limit:   *)
(* the levels come out whole, separate and in order.                       *)
(***************************************************************************)
EXTENDS LevelOrderDeque, SequenceTheorems, FiniteSetTheorems, TLAPS

USE NullAssumption, LimitsAssumption

(* What a visit does to the queue, index by index. *)
LEMMA Polled ==
  ASSUME NEW S, NEW s \in Seq(S), s # <<>>, NEW c \in Seq(S)
  PROVE  /\ Head(s) = s[1] /\ s[1] \in S
         /\ Len(s) \in Nat \ {0} /\ Len(c) \in Nat
         /\ Tail(s) \o c \in Seq(S)
         /\ Len(Tail(s) \o c) = Len(s) - 1 + Len(c)
         /\ \A k \in 1..(Len(s) - 1) : (Tail(s) \o c)[k] = s[k + 1]
         /\ \A k \in 1..Len(c) : (Tail(s) \o c)[Len(s) - 1 + k] = c[k]
  OBVIOUS

(* A sequence with one more element, index by index. *)
LEMMA Appended ==
  ASSUME NEW S, NEW s \in Seq(S), NEW x \in S
  PROVE  /\ Append(s, x) \in Seq(S)
         /\ Len(s) \in Nat /\ Len(Append(s, x)) = Len(s) + 1
         /\ \A k \in 1..Len(s) : Append(s, x)[k] = s[k]
         /\ Append(s, x)[Len(s) + 1] = x
  OBVIOUS

(* A node's children are queued left to right, and there are two at most. *)
LEMMA ChildrenInOrder ==
  ASSUME NEW T \in Trees, NEW n \in Node
  PROVE  /\ Children(T, n) \in Seq(Node)
         /\ Len(Children(T, n)) \in 0..2
         /\ \A k \in 1..Len(Children(T, n)) :
              Children(T, n)[k] \in Offspring(T, n)
         /\ \A c \in Offspring(T, n) :
              \E k \in 1..Len(Children(T, n)) : c = Children(T, n)[k]
         /\ Len(Children(T, n)) = 2 =>
              T.rank[Children(T, n)[1]] < T.rank[Children(T, n)[2]]
<1> DEFINE l == T.left[n]
           r == T.right[n]
<1>1. l \in Node \union {Null} /\ r \in Node \union {Null}
  BY TreesAssumption
<1>2. Offspring(T, n) = {l, r} \ {Null}
  BY DEF Offspring
<1>3. CASE l = Null /\ r = Null
  <2>1. Children(T, n) = <<>>
    BY <1>3 DEF Children
  <2>2. QED  BY <2>1, <1>2, <1>3
<1>4. CASE l # Null /\ r = Null
  <2>1. Children(T, n) = <<l>>
    BY <1>4 DEF Children
  <2>2. QED  BY <2>1, <1>1, <1>2, <1>4
<1>5. CASE l = Null /\ r # Null
  <2>1. Children(T, n) = <<r>>
    BY <1>5 DEF Children
  <2>2. QED  BY <2>1, <1>1, <1>2, <1>5
<1>6. CASE l # Null /\ r # Null
  <2>1. /\ Children(T, n) \in Seq(Node) /\ Len(Children(T, n)) = 2
        /\ Children(T, n)[1] = l /\ Children(T, n)[2] = r
    <3>1. Children(T, n) = <<l>> \o <<r>>
      BY <1>6 DEF Children
    <3>2. /\ <<l>> \in Seq(Node) /\ <<r>> \in Seq(Node)
          /\ Len(<<l>>) = 1 /\ Len(<<r>>) = 1
          /\ <<l>>[1] = l /\ <<r>>[1] = r
      BY <1>1, <1>6
    <3>3. QED  BY <3>1, <3>2, ConcatProperties
  <2>2. T.rank[l] < T.rank[r]
    BY <1>6, TreesAssumption DEF IsLevelOrdered
  <2>3. QED  BY <2>1, <2>2, <1>1, <1>2, <1>6
<1>7. QED  BY <1>3, <1>4, <1>5, <1>6

(* The order of a tree, in the three forms a visit needs. *)
LEMMA TreeOrder ==
  ASSUME NEW T \in Trees
  PROVE  /\ T.root \in Node /\ T.level[T.root] = 1
         /\ \A n \in Node : T.level[n] \in Nat /\ T.rank[n] \in Nat
         /\ \A n \in Node : \A c \in Offspring(T, n) :
              c \in Node /\ T.level[c] = T.level[n] + 1
         /\ \A m, n \in Node : T.level[m] < T.level[n] => T.rank[m] < T.rank[n]
         /\ \A m, n \in Node :
              T.rank[m] < T.rank[n] =>
                \A c \in Offspring(T, m), d \in Offspring(T, n) :
                  T.rank[c] < T.rank[d]
BY TreesAssumption DEF IsLevelOrdered, Offspring
-----------------------------------------------------------------------------
(* The inductive invariant.  That a visit keeps the ranks increasing needs *)
(* to know where the queued nodes of the next level come from: each is a   *)
(* child of a node already read, which is left of the one being visited.   *)
NextLevelFromThis ==
  status = "level" =>
    \A k \in (remaining + 1)..Len(queue) :
      \E j \in 1..Len(levelValues) : queue[k] \in Offspring(tree, levelValues[j])

(* The nodes read so far of the level at hand come before those still to read. *)
ReadBeforeQueued ==
  status = "level" =>
    /\ RankIncreasing(levelValues)
    /\ \A j \in 1..Len(levelValues) :
         /\ tree.level[levelValues[j]] = Len(result) + 1
         /\ \A k \in 1..Len(queue) :
              tree.rank[levelValues[j]] < tree.rank[queue[k]]

ResultInOrder ==
  \A d \in 1..Len(result) :
    /\ RankIncreasing(result[d])
    /\ \A j \in 1..Len(result[d]) : tree.level[result[d][j]] = d

WithinLimits ==
  /\ LimitsRespected
  /\ status = "level" => Len(result) < MaxDepth

OrderInv ==
  /\ TypeOK
  /\ QueueBoundary
  /\ RankIncreasing(queue)
  /\ ReadBeforeQueued
  /\ ResultInOrder
  /\ NextLevelFromThis
  /\ WithinLimits

(* The traversal starts with the root alone. *)
LEMMA InitOrder == Init => OrderInv
<1> SUFFICES ASSUME Init PROVE OrderInv
  OBVIOUS
<1>1. tree \in Trees /\ tree.root \in Node /\ tree.level[tree.root] = 1
  BY TreeOrder DEF Init
<1>2. TypeOK
  BY <1>1 DEF Init, TypeOK
<1>3. QED
  BY <1>1, <1>2 DEF Init, OrderInv, QueueBoundary, RankIncreasing,
     ReadBeforeQueued, ResultInOrder, NextLevelFromThis, WithinLimits,
     LimitsRespected

(* A level starts: what is queued is that level. *)
LEMMA StartLevelOrder == OrderInv /\ StartLevel => OrderInv'
<1> SUFFICES ASSUME OrderInv, StartLevel PROVE OrderInv'
  OBVIOUS
<1> USE DEF OrderInv
<1>1. /\ status = "loop" /\ queue # <<>> /\ ~(Len(result) >= MaxDepth)
      /\ totalNodes' = totalNodes + Len(queue)
      /\ UNCHANGED <<tree, queue, result>>
      /\ Len(queue) \in Nat /\ Len(result) \in Nat
  BY DEF StartLevel, DepthReached, TypeOK
<1>2. CASE /\ totalNodes' > MaxNodes
           /\ status' = "tooMany"
           /\ UNCHANGED <<remaining, levelValues>>
  BY <1>1, <1>2 DEF TypeOK, QueueBoundary, RankIncreasing, ReadBeforeQueued,
     ResultInOrder, NextLevelFromThis, WithinLimits, LimitsRespected
<1>3. CASE /\ ~(totalNodes' > MaxNodes)
           /\ status' = "level"
           /\ remaining' = Len(queue)
           /\ levelValues' = <<>>
  <2>1. TypeOK'
    BY <1>1, <1>3 DEF TypeOK
  <2>2. QueueBoundary'
    BY <1>1, <1>3 DEF QueueBoundary
  <2>3. RankIncreasing(queue)' /\ ResultInOrder'
    BY <1>1 DEF RankIncreasing, ResultInOrder
  <2>4. ReadBeforeQueued' /\ NextLevelFromThis'
    BY <1>1, <1>3 DEF ReadBeforeQueued, NextLevelFromThis, RankIncreasing
  <2>5. WithinLimits'
    BY <1>1, <1>3 DEF WithinLimits, LimitsRespected, TypeOK
  <2>6. QED  BY <2>1, <2>2, <2>3, <2>4, <2>5
<1>4. QED  BY <1>2, <1>3 DEF StartLevel, NodesExceeded

(* A visit moves the head of the queue to the level and queues its children *)
(* behind everything else.                                                 *)
LEMMA VisitOrder == OrderInv /\ Visit => OrderInv'
<1> SUFFICES ASSUME OrderInv, Visit PROVE OrderInv'
  OBVIOUS
<1> DEFINE n == queue[1]
           c == Children(tree, n)
           L == Len(queue) - 1
<1>1. /\ status = "level" /\ status' = "level"
      /\ remaining \in Nat \ {0} /\ remaining' = remaining - 1
      /\ remaining <= Len(queue)
      /\ UNCHANGED <<tree, result, totalNodes>>
      /\ tree \in Trees /\ queue \in Seq(Node) /\ queue # <<>>
      /\ levelValues \in Seq(Node) /\ result \in Seq(Seq(Node))
      /\ Len(result) \in Nat
  BY DEF OrderInv, Visit, TypeOK, QueueBoundary
<1>2. /\ n \in Node /\ L \in Nat
      /\ c \in Seq(Node) /\ Len(c) \in 0..2
      /\ \A k \in 1..Len(c) : c[k] \in Offspring(tree, n)
      /\ Len(c) = 2 => tree.rank[c[1]] < tree.rank[c[2]]
  <2>1. n \in Node /\ L \in Nat
    BY <1>1
  <2>2. QED  BY <1>1, <2>1, ChildrenInOrder
<1>3. /\ queue' \in Seq(Node) /\ Len(queue') = L + Len(c)
      /\ \A k \in 1..L : queue'[k] = queue[k + 1]
      /\ \A k \in 1..Len(c) : queue'[L + k] = c[k]
  <2>1. queue' = Tail(queue) \o c
    BY <1>1 DEF Visit
  <2>2. QED  BY <1>1, <1>2, <2>1, Polled
<1>4. /\ levelValues' \in Seq(Node)
      /\ Len(levelValues) \in Nat
      /\ Len(levelValues') = Len(levelValues) + 1
      /\ \A j \in 1..Len(levelValues) : levelValues'[j] = levelValues[j]
      /\ levelValues'[Len(levelValues) + 1] = n
  <2>1. levelValues' = Append(levelValues, n)
    BY <1>1 DEF Visit
  <2>2. QED  BY <1>1, <1>2, <2>1, Appended
<1>5. tree.level[n] = Len(result) + 1
  <2>1. 1 \in 1..Len(queue) /\ ~(1 > remaining)
    BY <1>1
  <2>2. \A k \in 1..Len(queue) :
          tree.level[queue[k]] =
            IF status = "level" /\ k > remaining THEN Len(result) + 2
            ELSE Len(result) + 1
    BY DEF OrderInv, QueueBoundary
  <2>3. QED  BY <2>1, <2>2
<1>6. \A k \in 1..Len(c) :
        c[k] \in Node /\ tree.level[c[k]] = Len(result) + 2
  <2> SUFFICES ASSUME NEW k \in 1..Len(c)
               PROVE  c[k] \in Node /\ tree.level[c[k]] = Len(result) + 2
    OBVIOUS
  <2>1. c[k] \in Node /\ c[k] \in Offspring(tree, n)
    BY <1>2
  <2>2. tree.level[c[k]] = tree.level[n] + 1
    BY <1>1, <1>2, <2>1, TreeOrder
  <2>3. QED  BY <1>1, <1>5, <2>1, <2>2
<1> HIDE DEF c
<1>7. \A k \in 1..(Len(queue)), m \in 1..Len(c) :
        tree.rank[queue[k]] < tree.rank[c[m]]
  <2> SUFFICES ASSUME NEW k \in 1..Len(queue), NEW m \in 1..Len(c)
               PROVE  tree.rank[queue[k]] < tree.rank[c[m]]
    OBVIOUS
  <2>1. queue[k] \in Node
    BY <1>1
  <2>2. CASE k <= remaining
    <3>1. tree.level[queue[k]] = Len(result) + 1
      <4>1. ~(k > remaining) /\ remaining \in Nat
        BY <1>1, <2>2
      <4>2. tree.level[queue[k]] =
              IF status = "level" /\ k > remaining THEN Len(result) + 2
              ELSE Len(result) + 1
        BY DEF OrderInv, QueueBoundary
      <4>3. QED  BY <4>1, <4>2
    <3>2. c[m] \in Node /\ tree.level[queue[k]] < tree.level[c[m]]
      BY <1>1, <1>6, <3>1
    <3>3. QED  BY <1>1, <2>1, <3>2, TreeOrder
  <2>3. CASE k > remaining
    <3>1. PICK j \in 1..Len(levelValues) :
                 queue[k] \in Offspring(tree, levelValues[j])
      BY <1>1, <2>3 DEF OrderInv, NextLevelFromThis
    <3>2. levelValues[j] \in Node
      BY <1>1
    <3>3. tree.rank[levelValues[j]] < tree.rank[n]
      BY <1>1, <1>2 DEF OrderInv, ReadBeforeQueued
    <3>4. QED  BY <1>1, <1>2, <3>1, <3>2, <3>3, TreeOrder
  <2>4. QED  BY <1>1, <2>2, <2>3
<1>8. \A k \in 1..Len(queue') :
        \/ k \in 1..L
        \/ k - L \in 1..Len(c) /\ queue'[k] = c[k - L]
  <2> SUFFICES ASSUME NEW k \in 1..Len(queue'), k \notin 1..L
               PROVE  k - L \in 1..Len(c) /\ queue'[k] = c[k - L]
    OBVIOUS
  <2>1. k - L \in 1..Len(c) /\ L + (k - L) = k
    BY <1>2, <1>3
  <2>2. QED  BY <1>3, <2>1
<1>9. TypeOK'
  BY <1>1, <1>3, <1>4 DEF OrderInv, TypeOK
<1>10. QueueBoundary'
  <2>1. remaining' <= Len(queue')
    BY <1>1, <1>2, <1>3
  <2>2. ASSUME NEW k \in 1..Len(queue')
        PROVE  tree.level[queue'[k]] =
                 IF k > remaining' THEN Len(result) + 2 ELSE Len(result) + 1
    <3>1. CASE k \in 1..L
      <4>1. k + 1 \in 1..Len(queue) /\ queue'[k] = queue[k + 1]
        BY <1>2, <1>3, <3>1
      <4>2. tree.level[queue[k + 1]] =
              IF status = "level" /\ k + 1 > remaining THEN Len(result) + 2
              ELSE Len(result) + 1
        BY <4>1 DEF OrderInv, QueueBoundary
      <4>3. k \in Int /\ (k + 1 > remaining <=> k > remaining')
        BY <1>1, <3>1
      <4>4. QED  BY <1>1, <4>1, <4>2, <4>3
    <3>2. CASE k - L \in 1..Len(c) /\ queue'[k] = c[k - L]
      <4>1. k > remaining'
        BY <1>1, <1>2, <3>2
      <4>2. QED  BY <1>6, <3>2, <4>1
    <3>3. QED  BY <1>8, <3>1, <3>2
  <2>3. QED  BY <1>1, <2>1, <2>2 DEF QueueBoundary
<1>11. RankIncreasing(queue)'
  <2> SUFFICES ASSUME NEW k \in 1..Len(queue'), NEW m \in 1..Len(queue'), k < m
               PROVE  tree.rank[queue'[k]] < tree.rank[queue'[m]]
    BY <1>1 DEF RankIncreasing
  <2>1. CASE m \in 1..L
    <3>1. /\ k \in 1..L /\ k + 1 \in 1..Len(queue) /\ m + 1 \in 1..Len(queue)
          /\ k + 1 < m + 1
      BY <1>2, <2>1
    <3>2. QED  BY <1>3, <2>1, <3>1 DEF OrderInv, RankIncreasing
  <2>2. CASE k \in 1..L /\ m - L \in 1..Len(c) /\ queue'[m] = c[m - L]
    <3>1. k + 1 \in 1..Len(queue) /\ queue'[k] = queue[k + 1]
      BY <1>2, <1>3, <2>2
    <3>2. QED  BY <1>7, <2>2, <3>1
  <2>3. CASE /\ k - L \in 1..Len(c) /\ queue'[k] = c[k - L]
             /\ m - L \in 1..Len(c) /\ queue'[m] = c[m - L]
    <3>1. Len(c) = 2 /\ k - L = 1 /\ m - L = 2
      <4> DEFINE a == k - L
                 b == m - L
      <4>1. k \in Int /\ m \in Int /\ L \in Nat
        BY <1>2, <1>3
      <4>2. a < b
        BY <4>1
      <4> HIDE DEF a, b
      <4>3. a \in 1..Len(c) /\ b \in 1..Len(c) /\ Len(c) \in 0..2
        BY <1>2, <2>3 DEF a, b
      <4>4. Len(c) = 2 /\ a = 1 /\ b = 2
        <5>1. \A x, y, z \in Int :
                x < y /\ x \in 1..z /\ y \in 1..z /\ z \in 0..2
                  => z = 2 /\ x = 1 /\ y = 2
          OBVIOUS
        <5>2. a \in Int /\ b \in Int /\ Len(c) \in Int
          BY <4>3
        <5>3. QED  BY <4>2, <4>3, <5>1, <5>2
      <4>5. QED  BY <4>4 DEF a, b
    <3>2. tree.rank[c[1]] < tree.rank[c[2]]
      BY <1>2, <3>1
    <3>3. QED  BY <2>3, <3>1, <3>2
  <2>4. m \in 1..L => k \in 1..L
    BY <1>2
  <2>5. QED  BY <1>8, <2>1, <2>2, <2>3, <2>4
<1>12. ReadBeforeQueued'
  <2>1. \A k \in 1..L : tree.rank[n] < tree.rank[queue[k + 1]]
    BY <1>1, <1>2 DEF OrderInv, RankIncreasing
  <2>2. ASSUME NEW j \in 1..Len(levelValues')
        PROVE  /\ tree.level[levelValues'[j]] = Len(result) + 1
               /\ \A k \in 1..Len(queue') :
                    tree.rank[levelValues'[j]] < tree.rank[queue'[k]]
    <3>1. CASE j \in 1..Len(levelValues)
      <4>1. levelValues'[j] = levelValues[j] /\ levelValues[j] \in Node
        BY <1>1, <1>4, <3>1
      <4>2. /\ tree.level[levelValues[j]] = Len(result) + 1
            /\ \A k \in 1..Len(queue) :
                 tree.rank[levelValues[j]] < tree.rank[queue[k]]
        BY <1>1, <3>1 DEF OrderInv, ReadBeforeQueued
      <4>3. \A k \in 1..Len(c) : tree.rank[levelValues[j]] < tree.rank[c[k]]
        <5>1. \A k \in 1..Len(c) :
                c[k] \in Node /\ tree.level[levelValues[j]] < tree.level[c[k]]
          BY <1>1, <1>6, <4>2
        <5>2. QED  BY <1>1, <4>1, <5>1, TreeOrder
      <4>4. \A k \in 1..L : k + 1 \in 1..Len(queue)
        BY <1>2
      <4>5. QED  BY <1>3, <1>8, <4>1, <4>2, <4>3, <4>4
    <3>2. CASE j = Len(levelValues) + 1
      <4>1. levelValues'[j] = n
        BY <1>4, <3>2
      <4>2. \A k \in 1..Len(c) : tree.rank[n] < tree.rank[c[k]]
        <5>1. 1 \in 1..Len(queue)
          BY <1>2
        <5>2. QED  BY <5>1, <1>7
      <4>3. QED  BY <1>3, <1>5, <1>8, <2>1, <4>1, <4>2
    <3>3. QED  BY <1>4, <3>1, <3>2
  <2>3. RankIncreasing(levelValues)'
    <3> SUFFICES ASSUME NEW j \in 1..Len(levelValues'),
                        NEW m \in 1..Len(levelValues'), j < m
                 PROVE  tree.rank[levelValues'[j]] < tree.rank[levelValues'[m]]
      BY <1>1 DEF RankIncreasing
    <3>1. j \in 1..Len(levelValues) /\ levelValues'[j] = levelValues[j]
      BY <1>4
    <3>2. CASE m \in 1..Len(levelValues)
      BY <1>1, <1>4, <3>1, <3>2 DEF OrderInv, ReadBeforeQueued, RankIncreasing
    <3>3. CASE m = Len(levelValues) + 1
      <4>1. levelValues'[m] = n /\ 1 \in 1..Len(queue)
        BY <1>2, <1>4, <3>3
      <4>2. QED  BY <1>1, <3>1, <4>1 DEF OrderInv, ReadBeforeQueued
    <3>4. QED  BY <1>4, <3>2, <3>3
  <2>4. QED  BY <1>1, <2>2, <2>3 DEF ReadBeforeQueued
<1>13. NextLevelFromThis'
  <2> SUFFICES ASSUME NEW k \in (remaining' + 1)..Len(queue')
               PROVE  \E j \in 1..Len(levelValues') :
                        queue'[k] \in Offspring(tree, levelValues'[j])
    BY <1>1 DEF NextLevelFromThis
  <2>0. k \in 1..Len(queue')
    BY <1>1
  <2>1. CASE k \in 1..L
    <3>1. k + 1 \in (remaining + 1)..Len(queue) /\ queue'[k] = queue[k + 1]
      BY <1>1, <1>2, <1>3, <2>1
    <3>2. PICK j \in 1..Len(levelValues) :
                 queue[k + 1] \in Offspring(tree, levelValues[j])
      BY <1>1, <3>1 DEF OrderInv, NextLevelFromThis
    <3>3. QED  BY <1>4, <3>1, <3>2
  <2>2. CASE k - L \in 1..Len(c) /\ queue'[k] = c[k - L]
    <3>1. queue'[k] \in Offspring(tree, n)
      BY <1>2, <2>2
    <3>2. QED  BY <1>4, <3>1
  <2>3. QED  BY <1>8, <2>0, <2>1, <2>2
<1>14. ResultInOrder' /\ WithinLimits'
  BY <1>1 DEF OrderInv, ResultInOrder, RankIncreasing, WithinLimits,
     LimitsRespected
<1>15. QED
  BY <1>9, <1>10, <1>11, <1>12, <1>13, <1>14 DEF OrderInv

(* A level ends: what is left in the queue is the next level. *)
LEMMA EndLevelOrder == OrderInv /\ EndLevel => OrderInv'
<1> SUFFICES ASSUME OrderInv, EndLevel PROVE OrderInv'
  OBVIOUS
<1>1. /\ status = "level" /\ status' = "loop" /\ remaining = 0
      /\ UNCHANGED <<tree, queue, remaining, levelValues, totalNodes>>
      /\ levelValues \in Seq(Node) /\ result \in Seq(Seq(Node))
      /\ result' = Append(result, levelValues)
  BY DEF OrderInv, EndLevel, TypeOK
<1>2. /\ result' \in Seq(Seq(Node))
      /\ Len(result) \in Nat /\ Len(result') = Len(result) + 1
      /\ \A d \in 1..Len(result) : result'[d] = result[d]
      /\ result'[Len(result) + 1] = levelValues
  BY <1>1, Appended
<1>3. TypeOK'
  BY <1>1, <1>2 DEF OrderInv, TypeOK
<1>4. QueueBoundary'
  BY <1>1, <1>2 DEF OrderInv, QueueBoundary
<1>5. RankIncreasing(queue)' /\ ReadBeforeQueued' /\ NextLevelFromThis'
  BY <1>1 DEF OrderInv, RankIncreasing, ReadBeforeQueued, NextLevelFromThis
<1>6. ResultInOrder'
  <2> SUFFICES ASSUME NEW d \in 1..Len(result')
               PROVE  /\ RankIncreasing(result'[d])
                      /\ \A j \in 1..Len(result'[d]) :
                           tree.level[result'[d][j]] = d
    BY <1>1 DEF ResultInOrder, RankIncreasing
  <2>1. CASE d \in 1..Len(result)
    BY <1>2, <2>1 DEF OrderInv, ResultInOrder
  <2>2. CASE d = Len(result) + 1
    BY <1>1, <1>2, <2>2 DEF OrderInv, ReadBeforeQueued
  <2>3. QED  BY <1>2, <2>1, <2>2
<1>7. WithinLimits'
  BY <1>1, <1>2 DEF OrderInv, WithinLimits, LimitsRespected
<1>8. QED  BY <1>3, <1>4, <1>5, <1>6, <1>7 DEF OrderInv

(* The invariant holds of the traversal of every tree, under every limit. *)
THEOREM OrderInvariance == Spec => []OrderInv
<1>1. Init => OrderInv
  BY InitOrder
<1>2. OrderInv /\ [Next]_vars => OrderInv'
  <2> SUFFICES ASSUME OrderInv, [Next]_vars PROVE OrderInv'
    OBVIOUS
  <2>1. CASE StartLevel
    BY <2>1, StartLevelOrder
  <2>2. CASE Visit
    BY <2>2, VisitOrder
  <2>3. CASE EndLevel
    BY <2>3, EndLevelOrder
  <2>4. CASE TooDeep \/ Return \/ UNCHANGED vars
    <3>1. /\ UNCHANGED <<tree, queue, remaining, levelValues, result, totalNodes>>
          /\ \/ status' = status
             \/ status = "loop" /\ status' = "tooDeep"
             \/ status = "loop" /\ status' = "done"
      BY <2>4 DEF TooDeep, Return, vars
    <3>2. QED
      BY <3>1 DEF OrderInv, TypeOK, QueueBoundary, RankIncreasing,
         ReadBeforeQueued, ResultInOrder, NextLevelFromThis, WithinLimits,
         LimitsRespected
  <2>5. QED  BY <2>1, <2>2, <2>3, <2>4 DEF Next
<1>3. QED  BY <1>1, <1>2, PTL DEF Spec

(* No null child is ever queued or read. *)
THEOREM TypeCorrectness == Spec => []TypeOK
<1>1. OrderInv => TypeOK
  BY DEF OrderInv
<1>2. QED  BY <1>1, OrderInvariance, PTL

(* The size read at the head of the while loop is the boundary between the *)
(* two levels that share the queue, at every moment of the for loop.       *)
THEOREM LevelsAreSeparate == Spec => []QueueBoundary
<1>1. OrderInv => QueueBoundary
  BY DEF OrderInv
<1>2. QED  BY <1>1, OrderInvariance, PTL

(* A tree that is accepted, or still being read, respects both limits. *)
THEOREM LimitsHold == Spec => []LimitsRespected
<1>1. OrderInv => LimitsRespected
  BY DEF OrderInv, WithinLimits
<1>2. QED  BY <1>1, OrderInvariance, PTL

(* The result holds nodes of one level per list, from left to right, and   *)
(* what is read and what is queued continue in that order.                 *)
THEOREM LevelsComeInOrder == Spec => []LevelsInOrder
<1>1. OrderInv => LevelsInOrder
  <2> SUFFICES ASSUME OrderInv PROVE LevelsInOrder
    OBVIOUS
  <2>0. /\ levelValues \in Seq(Node) /\ queue \in Seq(Node)
        /\ result \in Seq(Seq(Node)) /\ tree \in Trees
    BY DEF OrderInv, TypeOK
  <2>1. ASSUME NEW d \in 1..Len(result)
        PROVE  /\ RankIncreasing(result[d])
               /\ \A n \in Range(result[d]) : tree.level[n] = d
    <3>1. result[d] \in Seq(Node)
      BY <2>0
    <3>2. QED  BY <3>1 DEF OrderInv, ResultInOrder, Range
  <2>2. ASSUME status = "level"
        PROVE  \A n \in Range(levelValues) : tree.level[n] = Len(result) + 1
    BY <2>0, <2>2 DEF OrderInv, ReadBeforeQueued, Range
  <2>3. ASSUME status = "level" PROVE RankIncreasing(levelValues \o queue)
    <3> DEFINE s == levelValues \o queue
               L == Len(levelValues)
    <3>1. /\ L \in Nat /\ Len(queue) \in Nat /\ Len(s) = L + Len(queue)
          /\ \A k \in 1..L : s[k] = levelValues[k]
          /\ \A k \in 1..Len(s) : k > L => k - L \in 1..Len(queue) /\ s[k] = queue[k - L]
      BY <2>0
    <3> SUFFICES ASSUME NEW k \in 1..Len(s), NEW m \in 1..Len(s), k < m
                 PROVE  tree.rank[s[k]] < tree.rank[s[m]]
      BY DEF RankIncreasing
    <3>2. CASE m <= L
      <4>1. k \in 1..L /\ m \in 1..L
        BY <3>1, <3>2
      <4>2. QED
        BY <2>3, <3>1, <4>1 DEF OrderInv, ReadBeforeQueued, RankIncreasing
    <3>3. CASE k <= L /\ m > L
      <4>1. k \in 1..L /\ m - L \in 1..Len(queue) /\ s[m] = queue[m - L]
        BY <3>1, <3>3
      <4>2. QED  BY <2>3, <3>1, <4>1 DEF OrderInv, ReadBeforeQueued
    <3>4. CASE k > L
      <4>1. /\ k - L \in 1..Len(queue) /\ s[k] = queue[k - L]
            /\ m - L \in 1..Len(queue) /\ s[m] = queue[m - L]
            /\ k - L < m - L
        BY <3>1, <3>4
      <4>2. QED  BY <4>1 DEF OrderInv, RankIncreasing
    <3>5. QED  BY <3>1, <3>2, <3>3, <3>4
  <2>4. QED  BY <2>1, <2>2, <2>3 DEF LevelsInOrder, OrderInv
<1>2. QED  BY <1>1, OrderInvariance, PTL
-----------------------------------------------------------------------------
(* Nothing is missed. *)

(* One more element in a sequence, one more in its range. *)
LEMMA RangeOfAppended ==
  ASSUME NEW S, NEW s \in Seq(S), NEW x \in S
  PROVE  Range(Append(s, x)) = Range(s) \union {x}
<1> DEFINE t == Append(s, x)
<1>1. /\ DOMAIN s = 1..Len(s) /\ DOMAIN t = 1..(Len(s) + 1) /\ Len(s) \in Nat
      /\ \A k \in 1..Len(s) : t[k] = s[k]
      /\ t[Len(s) + 1] = x
  BY Appended
<1>2. 1..(Len(s) + 1) = 1..Len(s) \union {Len(s) + 1}
  BY <1>1
<1> HIDE DEF t
<1>3. Range(t) = Range(s) \union {x}
  BY <1>1, <1>2 DEF Range
<1>4. QED  BY <1>3 DEF t

(* A level that is read joins the levels read. *)
LEMMA LevelJoins ==
  ASSUME OrderInv, EndLevel
  PROVE  ReadLevels' = ReadLevels \union Range(levelValues)
<1>1. /\ levelValues \in Seq(Node) /\ result \in Seq(Seq(Node))
      /\ result' = Append(result, levelValues)
  BY DEF OrderInv, EndLevel, TypeOK
<1>2. /\ Len(result) \in Nat /\ Len(result') = Len(result) + 1
      /\ \A d \in 1..Len(result) : result'[d] = result[d]
      /\ result'[Len(result) + 1] = levelValues
  BY <1>1, Appended
<1>3. 1..Len(result') = 1..Len(result) \union {Len(result) + 1}
  BY <1>2
<1>4. {Range(result'[d]) : d \in 1..Len(result')} =
        {Range(result[d]) : d \in 1..Len(result)} \union {Range(levelValues)}
  BY <1>2, <1>3
<1>5. QED  BY <1>4 DEF ReadLevels

(* What was read and what is queued only gains nodes in a visit: the head  *)
(* goes from the queue to what was read, and its children join the queue.  *)
LEMMA VisitMissesNothing ==
  ASSUME OrderInv, NothingMissed, Visit
  PROVE  NothingMissed'
<1> DEFINE n == queue[1]
           c == Children(tree, n)
           L == Len(queue) - 1
<1>1. /\ status = "level" /\ status' = "level"
      /\ UNCHANGED <<tree, result>>
      /\ tree \in Trees /\ queue \in Seq(Node) /\ queue # <<>>
      /\ levelValues \in Seq(Node)
      /\ n \in Node /\ L \in Nat
  BY DEF OrderInv, Visit, TypeOK, QueueBoundary
<1>2. Range(queue) \subseteq {n} \union Range(queue')
  <2>1. /\ queue' = Tail(queue) \o c /\ c \in Seq(Node) /\ Len(c) \in Nat
    BY <1>1, ChildrenInOrder DEF Visit
  <2>2. /\ queue' \in Seq(Node) /\ Len(queue') = L + Len(c)
        /\ \A k \in 1..L : queue'[k] = queue[k + 1]
    BY <1>1, <2>1, Polled
  <2>3. \A k \in 1..Len(queue) : k = 1 \/ (k - 1 \in 1..L /\ (k - 1) + 1 = k)
    BY <1>1
  <2>4. \A k \in 1..L : k \in 1..Len(queue')
    BY <1>1, <2>1, <2>2
  <2>5. DOMAIN queue = 1..Len(queue) /\ DOMAIN queue' = 1..Len(queue')
    BY <1>1, <2>2
  <2>6. ASSUME NEW x \in Range(queue), x # n PROVE x \in Range(queue')
    <3>1. PICK k \in 1..Len(queue) : x = queue[k]
      BY <2>5 DEF Range
    <3>2. k - 1 \in 1..L /\ queue'[k - 1] = x
      BY <2>2, <2>3, <2>6, <3>1
    <3>3. QED  BY <2>4, <2>5, <3>2 DEF Range
  <2>7. QED  BY <2>6
<1>3. Offspring(tree, n) \subseteq Range(queue')
  <2>0. queue' = Tail(queue) \o c
    BY <1>1 DEF Visit
  <2>1. /\ c \in Seq(Node) /\ Len(c) \in 0..2
        /\ \A d \in Offspring(tree, n) : \E k \in 1..Len(c) : d = c[k]
    <3> HIDE DEF n
    <3>1. QED  BY <1>1, ChildrenInOrder
  <2>2. /\ queue' \in Seq(Node) /\ Len(queue') = L + Len(c)
        /\ \A k \in 1..Len(c) : queue'[L + k] = c[k]
    BY <1>1, <2>0, <2>1, Polled
  <2>3. \A k \in 1..Len(c) : L + k \in 1..Len(queue')
    BY <1>1, <2>1, <2>2
  <2>4. DOMAIN queue' = 1..Len(queue')
    BY <2>2
  <2>5. ASSUME NEW d \in Offspring(tree, n) PROVE d \in Range(queue')
    <3>1. PICK k \in 1..Len(c) : d = c[k]
      BY <2>1
    <3>2. L + k \in DOMAIN queue' /\ queue'[L + k] = d
      BY <2>2, <2>3, <2>4, <3>1
    <3>3. QED  BY <3>2 DEF Range
  <2>6. QED  BY <2>5
<1>4. Range(levelValues') = Range(levelValues) \union {n}
  BY <1>1, RangeOfAppended DEF Visit
<1>5. Read' = Read \union {n}
  <2>1. ReadLevels' = ReadLevels
    BY <1>1 DEF ReadLevels
  <2>2. QED  BY <1>1, <1>4, <2>1 DEF Read
<1>6. QED
  BY <1>1, <1>2, <1>3, <1>5 DEF NothingMissed

(* A level that joins the result is still read. *)
LEMMA EndLevelMissesNothing ==
  ASSUME OrderInv, NothingMissed, EndLevel
  PROVE  NothingMissed'
<1>1. /\ status = "level" /\ status' = "loop"
      /\ UNCHANGED <<tree, queue>>
  BY DEF EndLevel
<1>2. Read' = Read
  BY <1>1, LevelJoins DEF Read
<1>3. QED  BY <1>1, <1>2 DEF NothingMissed

(* No node is missed: when the queue is empty the whole tree was read, so  *)
(* an accepted tree is answered in full.                                   *)
THEOREM NoNodeMissed == Spec => []NothingMissed
<1>1. Init => NothingMissed
  <2> SUFFICES ASSUME Init PROVE NothingMissed
    OBVIOUS
  <2>1. /\ queue = <<tree.root>> /\ result = <<>> /\ status = "loop"
        /\ Range(queue) = {tree.root}
    BY DEF Init, Range
  <2>2. Read = {}
    BY <2>1 DEF Read, ReadLevels
  <2>3. QED  BY <2>1, <2>2 DEF NothingMissed
<1>2. OrderInv /\ NothingMissed /\ [Next]_vars => NothingMissed'
  <2> SUFFICES ASSUME OrderInv, NothingMissed, [Next]_vars PROVE NothingMissed'
    OBVIOUS
  <2>1. CASE Visit
    BY <2>1, VisitMissesNothing
  <2>2. CASE EndLevel
    BY <2>2, EndLevelMissesNothing
  <2>3. CASE StartLevel
    <3>1. /\ status = "loop" /\ UNCHANGED <<tree, queue, result>>
          /\ status' = "level" => levelValues' = <<>>
      BY <2>3 DEF StartLevel
    <3>2. Range(<<>>) = {}
      BY DEF Range
    <3>3. Read' = Read
      BY <3>1, <3>2 DEF Read, ReadLevels
    <3>4. QED  BY <3>1, <3>3 DEF NothingMissed
  <2>4. CASE TooDeep \/ Return
    <3>1. /\ UNCHANGED <<tree, queue, result>>
          /\ status # "level" /\ status' # "level"
      BY <2>4 DEF TooDeep, Return
    <3>2. Read' = Read
      BY <3>1 DEF Read, ReadLevels
    <3>3. QED  BY <3>1, <3>2 DEF NothingMissed
  <2>5. CASE UNCHANGED vars
    <3>1. UNCHANGED <<tree, queue, levelValues, result, status>>
      BY <2>5 DEF vars
    <3>2. Read' = Read
      BY <3>1 DEF Read, ReadLevels
    <3>3. QED  BY <3>1, <3>2 DEF NothingMissed
  <2>6. QED  BY <2>1, <2>2, <2>3, <2>4, <2>5 DEF Next
<1>3. QED  BY <1>1, <1>2, OrderInvariance, PTL DEF Spec
-----------------------------------------------------------------------------
(* The answer is that of the tree.                                         *)

(* The nodes counted: all that were read and, of the level that was counted *)
(* last, those still to be read.                                           *)
Counted ==
  ReadLevels \union
    IF status = "level" THEN Range(levelValues) \union {queue[k] : k \in 1..remaining}
    ELSE IF status = "tooMany" THEN Range(queue) ELSE {}

(* The inductive invariant: each node of the tree is counted once and nothing *)
(* else is, and what made the traversal end.                               *)
CountInv ==
  /\ IsFiniteSet(Counted) /\ totalNodes = Cardinality(Counted)
  /\ Read \union Range(queue) \subseteq NodesOf(tree)
  /\ status = "done" => queue = <<>>
  /\ status = "tooDeep" => queue # <<>> /\ Len(result) = MaxDepth
  /\ status = "tooMany" => Len(result) < MaxDepth /\ totalNodes > MaxNodes
  /\ status # "tooMany" => totalNodes <= MaxNodes

(* A tree's nodes are the root and the children of its nodes. *)
LEMMA NodesAreClosed ==
  ASSUME NEW T \in Trees
  PROVE  /\ NodesOf(T) \subseteq Node
         /\ T.root \in NodesOf(T)
         /\ \A n \in NodesOf(T) : Offspring(T, n) \subseteq NodesOf(T)
BY TreeOrder DEF NodesOf, ClosedIn

(* The queue holds no node twice. *)
LEMMA QueueHasNoDuplicates ==
  ASSUME OrderInv
  PROVE  /\ IsFiniteSet(Range(queue))
         /\ Cardinality(Range(queue)) = Len(queue)
<1>1. /\ queue \in Seq(Node) /\ Len(queue) \in Nat /\ DOMAIN queue = 1..Len(queue)
      /\ tree \in Trees
  BY DEF OrderInv, TypeOK
<1>2. ASSUME NEW k \in 1..Len(queue), NEW m \in 1..Len(queue), queue[k] = queue[m]
      PROVE  k = m
  <2>1. tree.rank[queue[k]] \in Nat
    BY <1>1, TreeOrder
  <2>2. ~(k < m) /\ ~(m < k)
    BY <1>2, <2>1 DEF OrderInv, RankIncreasing
  <2>3. QED  BY <1>1, <2>2
<1>3. queue \in Bijection(1..Len(queue), Range(queue))
  BY <1>1, <1>2 DEF Bijection, Injection, Surjection, IsInjective, Range
<1>4. IsFiniteSet(1..Len(queue)) /\ Cardinality(1..Len(queue)) = Len(queue)
  BY <1>1, FS_Interval
<1>5. QED  BY <1>3, <1>4, FS_Bijection DEF ExistsBijection

(* Where the nodes that were read, and those queued, stand in the tree. *)
LEMMA LevelsOfNodes ==
  ASSUME OrderInv
  PROVE  /\ tree \in Trees
         /\ Len(result) \in Nat /\ Len(queue) \in Nat
         /\ ReadLevels \subseteq Node /\ Range(queue) \subseteq Node
         /\ \A n \in ReadLevels : tree.level[n] \in 1..Len(result)
         /\ status # "level" => \A n \in Range(queue) : tree.level[n] = Len(result) + 1
<1>1. /\ tree \in Trees /\ queue \in Seq(Node) /\ result \in Seq(Seq(Node))
      /\ Len(result) \in Nat /\ Len(queue) \in Nat
      /\ DOMAIN queue = 1..Len(queue)
  BY DEF OrderInv, TypeOK
<1>2. ASSUME NEW n \in ReadLevels
      PROVE  n \in Node /\ tree.level[n] \in 1..Len(result)
  <2>1. PICK d \in 1..Len(result) : n \in Range(result[d])
    BY <1>2 DEF ReadLevels
  <2>2. result[d] \in Seq(Node) /\ DOMAIN result[d] = 1..Len(result[d])
    BY <1>1, <2>1
  <2>3. PICK j \in 1..Len(result[d]) : n = result[d][j]
    BY <2>1, <2>2 DEF Range
  <2>4. n \in Node
    BY <2>2, <2>3
  <2>5. QED  BY <2>1, <2>3, <2>4 DEF OrderInv, ResultInOrder
<1>3. ASSUME NEW n \in Range(queue)
      PROVE  n \in Node /\ (status # "level" => tree.level[n] = Len(result) + 1)
  <2>1. PICK k \in 1..Len(queue) : n = queue[k]
    BY <1>1 DEF Range
  <2>2. QED  BY <1>1, <2>1 DEF OrderInv, QueueBoundary
<1>4. QED  BY <1>1, <1>2, <1>3

(* At first nothing is counted, and the root is queued. *)
LEMMA InitCount == Init => CountInv
<1> SUFFICES ASSUME Init PROVE CountInv
  OBVIOUS
<1>1. /\ queue = <<tree.root>> /\ result = <<>> /\ status = "loop"
      /\ totalNodes = 0 /\ tree \in Trees
      /\ Range(queue) = {tree.root}
  BY DEF Init, Range
<1>2. ReadLevels = {} /\ Counted = {} /\ Read = {}
  BY <1>1 DEF ReadLevels, Counted, Read
<1>3. QED  BY <1>1, <1>2, FS_EmptySet, NodesAreClosed DEF CountInv

(* The nodes queued when a level begins are the whole level: none of them  *)
(* was counted before.                                                     *)
LEMMA StartLevelCounts ==
  ASSUME OrderInv, CountInv, StartLevel
  PROVE  CountInv'
<1>1. /\ status = "loop" /\ UNCHANGED <<tree, queue, result>>
      /\ totalNodes' = totalNodes + Len(queue)
      /\ Len(result) < MaxDepth
      /\ Counted = ReadLevels /\ ReadLevels' = ReadLevels /\ Read = ReadLevels
  BY LevelsOfNodes DEF StartLevel, DepthReached, Counted, ReadLevels, Read
<1>2. ReadLevels \intersect Range(queue) = {}
  BY <1>1, LevelsOfNodes
<1>3. /\ IsFiniteSet(ReadLevels \union Range(queue))
      /\ totalNodes' = Cardinality(ReadLevels \union Range(queue))
      /\ totalNodes' \in Nat
  <2>1. /\ IsFiniteSet(ReadLevels) /\ totalNodes = Cardinality(ReadLevels)
        /\ totalNodes \in Nat /\ Len(queue) \in Nat
    BY <1>1 DEF CountInv, OrderInv, TypeOK
  <2>2. Cardinality(ReadLevels \intersect Range(queue)) = 0
    BY <1>2, FS_EmptySet
  <2>3. /\ IsFiniteSet(Range(queue)) /\ Cardinality(Range(queue)) = Len(queue)
    BY QueueHasNoDuplicates
  <2>4. /\ IsFiniteSet(ReadLevels \union Range(queue))
        /\ Cardinality(ReadLevels \union Range(queue)) = totalNodes + Len(queue)
    <3>1. Cardinality(ReadLevels \union Range(queue)) =
            Cardinality(ReadLevels) + Cardinality(Range(queue))
              - Cardinality(ReadLevels \intersect Range(queue))
      BY <2>1, <2>3, FS_Union
    <3>2. IsFiniteSet(ReadLevels \union Range(queue))
      BY <2>1, <2>3, FS_Union
    <3>3. QED  BY <2>1, <2>2, <2>3, <3>1, <3>2
  <2>5. QED  BY <1>1, <2>1, <2>4
<1>4. CASE NodesExceeded(totalNodes') /\ status' = "tooMany"
  <2>1. Counted' = ReadLevels \union Range(queue) /\ Read' = ReadLevels
    BY <1>1, <1>4 DEF Counted, Read
  <2>2. totalNodes' > MaxNodes
    BY <1>4 DEF NodesExceeded
  <2>3. QED  BY <1>1, <1>3, <1>4, <2>1, <2>2 DEF CountInv
<1>5. CASE /\ ~NodesExceeded(totalNodes') /\ status' = "level"
           /\ remaining' = Len(queue) /\ levelValues' = <<>>
  <2>1. Range(levelValues') = {} /\ Range(queue) = {queue[k] : k \in 1..Len(queue)}
    BY <1>5 DEF Range, OrderInv, TypeOK
  <2>2. Counted' = ReadLevels \union Range(queue) /\ Read' = ReadLevels
    BY <1>1, <1>5, <2>1 DEF Counted, Read
  <2>3. totalNodes' <= MaxNodes
    BY <1>3, <1>5 DEF NodesExceeded
  <2>4. QED  BY <1>1, <1>3, <1>5, <2>2, <2>3 DEF CountInv
<1>6. QED  BY <1>4, <1>5 DEF StartLevel

(* A visit takes a node from those to be read to those that were, and queues *)
(* nodes of the tree.                                                      *)
LEMMA VisitCounts ==
  ASSUME OrderInv, CountInv, Visit
  PROVE  CountInv'
<1> DEFINE n == queue[1]
           c == Children(tree, n)
           L == Len(queue) - 1
<1>1. /\ status = "level" /\ status' = "level"
      /\ UNCHANGED <<tree, result, totalNodes>>
      /\ tree \in Trees /\ queue \in Seq(Node) /\ queue # <<>>
      /\ levelValues \in Seq(Node)
      /\ n \in Node /\ L \in Nat
      /\ remaining \in 1..Len(queue) /\ remaining' = remaining - 1
      /\ ReadLevels' = ReadLevels
  BY DEF OrderInv, Visit, TypeOK, QueueBoundary, ReadLevels
<1>2. Range(levelValues') = Range(levelValues) \union {n}
  BY <1>1, RangeOfAppended DEF Visit
<1>3. /\ c \in Seq(Node) /\ Len(c) \in Nat
      /\ \A k \in 1..Len(c) : c[k] \in Offspring(tree, n)
  <2> HIDE DEF n
  <2>1. QED  BY <1>1, ChildrenInOrder
<1>4. /\ queue' \in Seq(Node) /\ Len(queue') = L + Len(c)
      /\ \A k \in 1..L : queue'[k] = queue[k + 1]
      /\ \A k \in 1..Len(c) : queue'[L + k] = c[k]
  <2>1. queue' = Tail(queue) \o c
    BY <1>1 DEF Visit
  <2>2. QED  BY <1>1, <1>3, <2>1, Polled
<1> HIDE DEF c
<1>5. Counted' = Counted
  <2>1. {queue[k] : k \in 1..remaining} = {n} \union {queue'[k] : k \in 1..remaining'}
    <3>1. ASSUME NEW k \in 1..remaining
          PROVE  k = 1 \/ (k - 1 \in 1..remaining' /\ queue'[k - 1] = queue[k])
      <4>1. k = 1 \/ (k - 1 \in 1..remaining' /\ k - 1 \in 1..L /\ (k - 1) + 1 = k)
        BY <1>1
      <4>2. QED  BY <1>4, <4>1
    <3>2. ASSUME NEW k \in 1..remaining'
          PROVE  k + 1 \in 1..remaining /\ queue'[k] = queue[k + 1]
      <4>1. k \in 1..L /\ k + 1 \in 1..remaining
        BY <1>1
      <4>2. QED  BY <1>4, <4>1
    <3>3. 1 \in 1..remaining
      BY <1>1
    <3>4. QED  BY <3>1, <3>2, <3>3
  <2>2. QED  BY <1>1, <1>2, <2>1 DEF Counted
<1>6. Read' \union Range(queue') \subseteq NodesOf(tree')
  <2>1. Read' = Read \union {n}
    BY <1>1, <1>2 DEF Read
  <2>2. /\ DOMAIN queue = 1..Len(queue) /\ DOMAIN queue' = 1..Len(queue')
        /\ 1 \in DOMAIN queue
    BY <1>1, <1>4
  <2>3. n \in NodesOf(tree)
    BY <2>2 DEF CountInv, Range
  <2>4. Offspring(tree, n) \subseteq NodesOf(tree)
    BY <1>1, <2>3, NodesAreClosed
  <2>5. ASSUME NEW k \in 1..Len(queue') PROVE queue'[k] \in NodesOf(tree)
    <3>1. CASE k <= L
      <4>1. k \in 1..L /\ k + 1 \in DOMAIN queue
        BY <1>1, <2>2, <3>1
      <4>2. queue'[k] = queue[k + 1]
        BY <1>4, <4>1
      <4>3. QED  BY <4>1, <4>2 DEF CountInv, Range
    <3>2. CASE ~(k <= L)
      <4>1. k - L \in 1..Len(c) /\ L + (k - L) = k
        BY <1>1, <1>3, <1>4, <3>2
      <4>2. queue'[k] = c[k - L]
        BY <1>4, <4>1
      <4>3. QED  BY <1>3, <2>4, <4>1, <4>2
    <3>3. QED  BY <3>1, <3>2
  <2>6. Range(queue') \subseteq NodesOf(tree)
    BY <2>2, <2>5 DEF Range
  <2>7. QED  BY <1>1, <2>1, <2>3, <2>6 DEF CountInv
<1>7. QED  BY <1>1, <1>5, <1>6 DEF CountInv

(* The end of a level counts nothing. *)
LEMMA EndLevelCounts ==
  ASSUME OrderInv, CountInv, EndLevel
  PROVE  CountInv'
<1>1. /\ status = "level" /\ status' = "loop" /\ remaining = 0
      /\ UNCHANGED <<tree, queue, totalNodes>>
  BY DEF EndLevel
<1>2. {queue[k] : k \in 1..remaining} = {}
  BY <1>1
<1>3. Counted' = Counted /\ Read' = Read
  BY <1>1, <1>2, LevelJoins DEF Counted, Read
<1>4. QED  BY <1>1, <1>3 DEF CountInv

(* Every node of the tree is counted once, in every state. *)
LEMMA CountInvariance == Spec => []CountInv
<1>1. OrderInv /\ CountInv /\ [Next]_vars => CountInv'
  <2> SUFFICES ASSUME OrderInv, CountInv, [Next]_vars PROVE CountInv'
    OBVIOUS
  <2>1. CASE StartLevel
    BY <2>1, StartLevelCounts
  <2>2. CASE Visit
    BY <2>2, VisitCounts
  <2>3. CASE EndLevel
    BY <2>3, EndLevelCounts
  <2>4. CASE TooDeep
    <3>1. /\ status = "loop" /\ status' = "tooDeep" /\ queue # <<>>
          /\ UNCHANGED <<tree, queue, result, totalNodes>>
          /\ Len(result) >= MaxDepth
      BY <2>4 DEF TooDeep, DepthReached
    <3>2. Len(result) = MaxDepth
      BY <3>1, LevelsOfNodes DEF OrderInv, WithinLimits, LimitsRespected
    <3>3. Counted' = Counted /\ Read' = Read
      BY <3>1 DEF Counted, Read, ReadLevels
    <3>4. QED  BY <3>1, <3>2, <3>3 DEF CountInv
  <2>5. CASE Return
    <3>1. /\ status = "loop" /\ status' = "done" /\ queue = <<>>
          /\ UNCHANGED <<tree, queue, result, totalNodes>>
      BY <2>5 DEF Return
    <3>2. Counted' = Counted /\ Read' = Read
      BY <3>1 DEF Counted, Read, ReadLevels
    <3>3. QED  BY <3>1, <3>2 DEF CountInv
  <2>6. CASE UNCHANGED vars
    <3>1. UNCHANGED <<tree, queue, remaining, levelValues, result, totalNodes, status>>
      BY <2>6 DEF vars
    <3>2. Counted' = Counted /\ Read' = Read
      BY <3>1 DEF Counted, Read, ReadLevels
    <3>3. QED  BY <3>1, <3>2 DEF CountInv
  <2>7. QED  BY <2>1, <2>2, <2>3, <2>4, <2>5, <2>6 DEF Next
<1>2. QED  BY <1>1, InitCount, OrderInvariance, PTL DEF Spec

(* What stands above the queue was read, and is all the tree has there. *)
LEMMA ReadIsAllAbove ==
  ASSUME OrderInv, NothingMissed, status # "level"
  PROVE  /\ \A n \in NodesOf(tree) : tree.level[n] <= Len(result) => n \in ReadLevels
         /\ queue = <<>> => NodesOf(tree) \subseteq ReadLevels
<1>1. Read = ReadLevels
  BY DEF Read
<1>2. ASSUME NEW n \in NodesOf(tree), tree.level[n] <= Len(result)
      PROVE  n \in ReadLevels
  <2> DEFINE S == ReadLevels \union {m \in Node : tree.level[m] > Len(result)}
  <2>1. S \subseteq Node
    BY LevelsOfNodes
  <2>2. Range(queue) \subseteq S
    BY LevelsOfNodes
  <2>3. tree.root \in S
    BY <1>1, <2>2 DEF NothingMissed
  <2>4. ASSUME NEW m \in S PROVE Offspring(tree, m) \subseteq S
    <3>1. CASE m \in ReadLevels
      BY <1>1, <2>2, <3>1 DEF NothingMissed
    <3>2. CASE m \notin ReadLevels
      <4>1. m \in Node /\ tree.level[m] > Len(result)
        BY <3>2
      <4>2. QED  BY <4>1, LevelsOfNodes, TreeOrder
    <3>3. QED  BY <3>1, <3>2
  <2>5. n \in S
    <3> HIDE DEF S
    <3>1. QED  BY <2>1, <2>3, <2>4 DEF NodesOf, ClosedIn
  <2>6. tree.level[n] \in Nat
    BY LevelsOfNodes, TreeOrder, NodesAreClosed
  <2>7. QED  BY <1>2, <2>5, <2>6, LevelsOfNodes
<1>3. ASSUME queue = <<>> PROVE NodesOf(tree) \subseteq ReadLevels
  <2>1. Range(queue) = {}
    BY <1>3 DEF Range
  <2>2. ClosedIn(tree, ReadLevels)
    BY <1>1, <2>1 DEF NothingMissed, ClosedIn
  <2>3. QED  BY <2>2, LevelsOfNodes DEF NodesOf
<1>4. QED  BY <1>2, <1>3

(* The part of a set that fits the limit fits it. *)
LEMMA NotMore ==
  ASSUME NEW S, IsFiniteSet(S), NEW k \in Nat, Cardinality(S) <= k,
         NEW R \in SUBSET S
  PROVE  ~MoreThan(k, R)
<1> SUFFICES ASSUME NEW F \in SUBSET R, IsFiniteSet(F), Cardinality(F) > k
             PROVE  FALSE
  BY DEF MoreThan
<1>1. F \in SUBSET S
  OBVIOUS
<1>2. Cardinality(F) <= Cardinality(S)
  BY <1>1, FS_Subset
<1>3. Cardinality(F) \in Nat /\ Cardinality(S) \in Nat
  BY FS_CardinalityType
<1>4. QED  BY <1>2, <1>3

(* The tree alone decides the answer.  An accepted tree is within both     *)
(* limits and was read in full; a tree refused for its depth has a node    *)
(* below the limit and not too many above; one refused for its size has    *)
(* too many nodes within the depth allowed.  The three exclude each other, *)
(* so that no tree is refused or accepted where solveLevelOrder should not. *)
THEOREM AnswersComeFromTrees == Spec => []AnswersAreExact
<1>1. OrderInv /\ NothingMissed /\ CountInv => AnswersAreExact
  <2> SUFFICES ASSUME OrderInv, NothingMissed, CountInv PROVE AnswersAreExact
    OBVIOUS
  <2>1. /\ ReadLevels \subseteq NodesOf(tree)
        /\ IsFiniteSet(Counted) /\ totalNodes = Cardinality(Counted)
        /\ \A n \in NodesOf(tree) : n \in Node /\ tree.level[n] \in Nat
    <3>1. ReadLevels \subseteq Read
      BY DEF Read
    <3>2. QED  BY <3>1, LevelsOfNodes, TreeOrder, NodesAreClosed DEF CountInv
  <2>2. ASSUME status = "done"
        PROVE  /\ NodesOf(tree) = ReadLevels
               /\ \A n \in NodesOf(tree) : tree.level[n] <= MaxDepth
               /\ ~MoreThan(MaxNodes, NodesOf(tree))
    <3>1. NodesOf(tree) = ReadLevels
      BY <2>1, <2>2, ReadIsAllAbove DEF CountInv
    <3>2. Counted = ReadLevels /\ totalNodes <= MaxNodes
      BY <2>2 DEF Counted, CountInv
    <3>3. \A n \in ReadLevels : tree.level[n] <= MaxDepth
      BY LevelsOfNodes DEF OrderInv, WithinLimits, LimitsRespected
    <3>4. ~MoreThan(MaxNodes, NodesOf(tree))
      BY <2>1, <3>1, <3>2, NotMore
    <3>5. QED  BY <3>1, <3>3, <3>4
  <2>3. ASSUME status = "tooDeep"
        PROVE  /\ \E n \in NodesOf(tree) : tree.level[n] > MaxDepth
               /\ ~MoreThan(MaxNodes, DownTo(tree, MaxDepth))
    <3>1. queue # <<>> /\ Len(result) = MaxDepth /\ totalNodes <= MaxNodes
      BY <2>3 DEF CountInv
    <3>2. queue[1] \in Range(queue)
      <4>1. queue \in Seq(Node)
        BY DEF OrderInv, TypeOK
      <4>2. 1 \in DOMAIN queue
        BY <3>1, <4>1
      <4>3. QED  BY <4>2 DEF Range
    <3>3. queue[1] \in NodesOf(tree) /\ tree.level[queue[1]] > MaxDepth
      BY <2>3, <3>1, <3>2, LevelsOfNodes DEF CountInv
    <3>4. DownTo(tree, MaxDepth) \subseteq ReadLevels
      BY <2>3, <3>1, ReadIsAllAbove DEF DownTo
    <3>5. Counted = ReadLevels
      BY <2>3 DEF Counted
    <3>6. ~MoreThan(MaxNodes, DownTo(tree, MaxDepth))
      BY <2>1, <3>1, <3>4, <3>5, NotMore
    <3>7. QED  BY <3>3, <3>6
  <2>4. ASSUME status = "tooMany"
        PROVE  MoreThan(MaxNodes, DownTo(tree, MaxDepth))
    <3>1. Len(result) < MaxDepth /\ totalNodes > MaxNodes
      BY <2>4 DEF CountInv
    <3>2. Counted = ReadLevels \union Range(queue)
      BY <2>4 DEF Counted
    <3>3. Range(queue) \subseteq NodesOf(tree)
      BY DEF CountInv
    <3>4. Counted \subseteq DownTo(tree, MaxDepth)
      <4>1. \A n \in ReadLevels \union Range(queue) : tree.level[n] <= MaxDepth
        BY <2>4, <3>1, LevelsOfNodes
      <4>2. QED  BY <2>1, <3>2, <3>3, <4>1 DEF DownTo
    <3>5. QED  BY <2>1, <3>1, <3>4 DEF MoreThan
  <2>5. QED  BY <2>2, <2>3, <2>4 DEF AnswersAreExact
<1>2. QED  BY <1>1, OrderInvariance, NoNodeMissed, CountInvariance, PTL
=============================================================================
