--------------------------- MODULE GoQueuePoolProofs ---------------------------
(***************************************************************************)
(* Proofs about GoQueuePool, for any number of requests, any trees and any *)
(* first capacity: backing arrays are never shared, and the pool keeps no  *)
(* node alive.                                                             *)
(***************************************************************************)
EXTENDS GoRequest, SequenceTheorems, TLAPS

USE QueuePoolAssumption, LimitsAssumption

-----------------------------------------------------------------------------
(* The inductive invariant.                                                *)

Values == {Null} \union (Requests \X Node)
Arrays == 1..Len(memory)

(* A slice spans the first slots of its array; they hold members of X, and *)
(* the slots behind them nothing.                                          *)
Holds(m, s, X) ==
  /\ s.array \in 1..Len(m) /\ s.len \in 0..Len(m[s.array])
  /\ \A k \in 1..Len(m[s.array]) :
       IF k <= s.len THEN m[s.array][k] \in X ELSE m[s.array][k] = Null

(* The nodes a request may have in its queue.                              *)
Own(r) == {r} \X Node

IsEmpty(m, a) == \A k \in 1..Len(m[a]) : m[a][k] = Null

(* Every array has a slot, so that doubling makes room; pointers point to  *)
(* arrays, and so do the slices of all requests that have begun.           *)
Allocated ==
  /\ \A a \in Arrays : Len(memory[a]) > 0
  /\ \A p \in Pointers : pointer[p].array # 0
  /\ \A r \in Requests : pc[r] # "get" => q[r].array # 0 /\ qPtr[r] # NoPointer

(* The pointers that somebody may still follow.                            *)
Live == pool \union {qPtr[r] : r \in Active}

(* A pointer is in the pool or with one request.                           *)
PointersAreExclusive ==
  \A r \in Active :
    /\ qPtr[r] \notin pool
    /\ \A s \in Active : s # r => qPtr[s] # qPtr[r]

(* The arrays behind the pointers are exclusive as well as those behind    *)
(* the slices: a queue that grows leaves behind an array its pointer still *)
(* points to until it is stored.                                           *)
LiveArraysAreExclusive ==
  /\ \A p1, p2 \in Live : p1 # p2 => pointer[p1].array # pointer[p2].array
  /\ \A r \in Active : \A p \in Live : p # qPtr[r] => pointer[p].array # q[r].array

(* How far the release of a queue has come: the queue holds nodes of its   *)
(* own tree, then nothing, then its pointer points to the array it grew to. *)
Released ==
  \A r \in Active :
    /\ pc[r] \in {"root", "loop", "level", "clear"} => Holds(memory, q[r], Own(r))
    /\ pc[r] \in {"store", "put"} => IsEmpty(memory, q[r].array)
    /\ pc[r] = "put" => pointer[qPtr[r]].array = q[r].array
    /\ pc[r] = "level" => head[r] <= levelEnd[r] /\ levelEnd[r] <= q[r].len

PoolInv ==
  /\ TypeOK
  /\ Allocated
  /\ PointersAreExclusive
  /\ ArraysAreExclusive
  /\ LiveArraysAreExclusive
  /\ PooledArraysHoldNothing
  /\ Released

-----------------------------------------------------------------------------
(* append.                                                                 *)

(* What is left of the memory m and the slice s when nodes were appended:  *)
(* no other array changed, none changed its length, and the slice is in    *)
(* its old array or in a new one.                                          *)
Grown(m, s, m2, s2) ==
  /\ m2 \in Seq(Seq(Values))
  /\ Len(m2) >= Len(m)
  /\ \A a \in 1..Len(m2) : Len(m2[a]) > 0
  /\ \A a \in 1..Len(m) :
       /\ Len(m2[a]) = Len(m[a])
       /\ a # s.array => m2[a] = m[a]
  /\ s2 \in [array : Nat, len : Nat]
  /\ s2.array = s.array \/ s2.array > Len(m)
  /\ s2.len >= s.len

(* The slice has the elements it had, and those of xs behind them.         *)
Extended(m, s, xs, m2, s2) ==
  /\ s2.len = s.len + Len(xs)
  /\ \A k \in 1..s.len : m2[s2.array][k] = m[s.array][k]
  /\ \A k \in 1..Len(xs) : m2[s2.array][s.len + k] = xs[k]

(* A slice that is one slot longer.                                        *)
LEMMA Longer ==
  ASSUME NEW s \in [array : Nat, len : Nat], NEW s2, s2 = [s EXCEPT !.len = @ + 1]
  PROVE  s2 \in [array : Nat, len : Nat] /\ s2.array = s.array /\ s2.len = s.len + 1
OBVIOUS

(* While there is room the element goes into the next slot.                *)
LEMMA AppendedInPlace ==
  ASSUME NEW m \in Seq(Seq(Values)), \A a \in 1..Len(m) : Len(m[a]) > 0,
         NEW X \in SUBSET Values, NEW x \in X,
         NEW s \in [array : Nat, len : Nat], Holds(m, s, X),
         s.len < Len(m[s.array]),
         NEW m2, m2 = Appended(m, s, x).memory,
         NEW s2, s2 = Appended(m, s, x).slice
  PROVE  Grown(m, s, m2, s2) /\ Holds(m2, s2, X) /\ Extended(m, s, <<x>>, m2, s2)
<1> DEFINE old == m[s.array]
           new == [old EXCEPT ![s.len + 1] = x]
<1>1. old \in Seq(Values) /\ s.array \in 1..Len(m) /\ s.len + 1 \in 1..Len(old)
  BY DEF Holds
<1>2. /\ m2 = [m EXCEPT ![s.array] = new]
      /\ s2 = [s EXCEPT !.len = @ + 1]
  BY <1>1 DEF Appended
<1>3. /\ new \in Seq(Values) /\ Len(new) = Len(old)
      /\ \A k \in 1..Len(old) : new[k] = IF k = s.len + 1 THEN x ELSE old[k]
  BY <1>1, ExceptSeq
<1>4. /\ m2 \in Seq(Seq(Values)) /\ Len(m2) = Len(m)
      /\ \A a \in 1..Len(m) : m2[a] = IF a = s.array THEN new ELSE m[a]
  BY <1>1, <1>2, <1>3, ExceptSeq
<1>5. s2 \in [array : Nat, len : Nat] /\ s2.array = s.array /\ s2.len = s.len + 1
  BY <1>2, Longer
<1> HIDE DEF new, old
<1>6. Grown(m, s, m2, s2)
  <2>1. \A a \in 1..Len(m) : Len(m2[a]) = Len(m[a]) /\ (a # s.array => m2[a] = m[a])
    BY <1>3, <1>4 DEF old
  <2>2. Len(m) \in Nat /\ s.len \in Nat /\ s2.len \in Nat
    BY <1>5
  <2>3. QED  BY <1>4, <1>5, <2>1, <2>2 DEF Grown
<1>7. Holds(m2, s2, X)
  <2>1. m2[s2.array] = new /\ s2.array \in 1..Len(m2) /\ Len(old) \in Nat
    BY <1>1, <1>4, <1>5
  <2>2. \A k \in 1..Len(old) : IF k <= s.len THEN old[k] \in X ELSE old[k] = Null
    BY DEF Holds, old
  <2>3. \A k \in 1..Len(new) : IF k <= s2.len THEN new[k] \in X ELSE new[k] = Null
    <3> SUFFICES ASSUME NEW k \in 1..Len(new)
                 PROVE  IF k <= s2.len THEN new[k] \in X ELSE new[k] = Null
      OBVIOUS
    <3>1. k \in 1..Len(old) /\ s.len \in Nat /\ s2.len = s.len + 1
      BY <1>3, <1>5
    <3>2. CASE k = s.len + 1
      BY <3>1, <3>2, <1>3
    <3>3. CASE k # s.len + 1
      <4>1. new[k] = old[k] /\ (k <= s2.len <=> k <= s.len)
        BY <3>1, <3>3, <1>3
      <4>2. QED  BY <3>1, <4>1, <2>2
    <3>4. QED  BY <3>2, <3>3
  <2>4. s2.len \in 0..Len(new)
    BY <1>1, <1>3, <1>5, <2>1
  <2>5. QED  BY <2>1, <2>3, <2>4 DEF Holds
<1>8. Extended(m, s, <<x>>, m2, s2)
  <2>1. m2[s2.array] = new /\ s2.len = s.len + 1 /\ s.len \in Nat /\ Len(old) \in Nat
    BY <1>1, <1>4, <1>5
  <2>2. \A k \in 1..s.len : k \in 1..Len(old) /\ k # s.len + 1
    BY <1>1, <2>1
  <2>3. \A k \in 1..s.len : new[k] = m[s.array][k]
    BY <1>3, <2>2 DEF old
  <2>4. new[s.len + 1] = x
    BY <1>1, <1>3
  <2>5. QED  BY <2>1, <2>3, <2>4 DEF Extended
<1>9. QED  BY <1>6, <1>7, <1>8

(* Otherwise the elements are copied into an array of twice the capacity,  *)
(* which nothing points to yet; what they were copied from keeps them.     *)
LEMMA AppendedInCopy ==
  ASSUME NEW m \in Seq(Seq(Values)), \A a \in 1..Len(m) : Len(m[a]) > 0,
         NEW X \in SUBSET Values, NEW x \in X,
         NEW s \in [array : Nat, len : Nat], Holds(m, s, X),
         ~(s.len < Len(m[s.array])),
         NEW m2, m2 = Appended(m, s, x).memory,
         NEW s2, s2 = Appended(m, s, x).slice
  PROVE  Grown(m, s, m2, s2) /\ Holds(m2, s2, X) /\ Extended(m, s, <<x>>, m2, s2)
<1> DEFINE old == m[s.array]
           rest == 2 * Len(old) - s.len - 1
           copy == SubSeq(old, 1, s.len) \o <<x>> \o EmptyArray(rest)
<1>1. /\ old \in Seq(Values) /\ s.array \in 1..Len(m)
      /\ s.len = Len(old) /\ s.len \in Nat \ {0} /\ rest \in Nat
      /\ \A k \in 1..s.len : old[k] \in X
  BY DEF Holds
<1>2. /\ m2 = Append(m, copy)
      /\ s2 = [array |-> Len(m) + 1, len |-> s.len + 1]
  BY <1>1 DEF Appended
<1>3. /\ copy \in Seq(Values) /\ Len(copy) = s.len + 1 + rest
      /\ \A k \in 1..Len(copy) :
           copy[k] = IF k <= s.len THEN old[k] ELSE IF k = s.len + 1 THEN x ELSE Null
  <2>1. SubSeq(old, 1, s.len) = old
    BY <1>1, SubSeqFull
  <2>2. /\ <<x>> \in Seq(Values) /\ Len(<<x>>) = 1 /\ <<x>>[1] = x
        /\ EmptyArray(rest) \in Seq(Values) /\ Len(EmptyArray(rest)) = rest
        /\ \A k \in 1..rest : EmptyArray(rest)[k] = Null
    BY <1>1 DEF EmptyArray, Values
  <2>3. /\ old \o <<x>> \in Seq(Values) /\ Len(old \o <<x>>) = s.len + 1
        /\ \A k \in 1..(s.len + 1) :
             (old \o <<x>>)[k] = IF k <= s.len THEN old[k] ELSE x
    BY <1>1, <2>2, ConcatProperties
  <2> HIDE DEF rest, old
  <2>4. copy = (old \o <<x>>) \o EmptyArray(rest)
    BY <2>1 DEF copy
  <2> HIDE DEF copy
  <2>5. /\ copy \in Seq(Values) /\ Len(copy) = s.len + 1 + rest
        /\ \A k \in 1..(s.len + 1 + rest) :
             copy[k] = IF k <= s.len + 1 THEN (old \o <<x>>)[k]
                       ELSE EmptyArray(rest)[k - (s.len + 1)]
    <3>1. ASSUME NEW s1 \in Seq(Values), Len(s1) = s.len + 1,
                 NEW t \in Seq(Values), Len(t) = rest
          PROVE  /\ s1 \o t \in Seq(Values) /\ Len(s1 \o t) = s.len + 1 + rest
                 /\ \A k \in 1..(s.len + 1 + rest) :
                      (s1 \o t)[k] = IF k <= s.len + 1 THEN s1[k] ELSE t[k - (s.len + 1)]
      <4>1. /\ s1 \o t \in Seq(Values) /\ Len(s1 \o t) = Len(s1) + Len(t)
            /\ \A k \in 1..(Len(s1) + Len(t)) :
                 (s1 \o t)[k] = IF k <= Len(s1) THEN s1[k] ELSE t[k - Len(s1)]
        BY ConcatProperties
      <4>2. QED  BY ONLY <3>1, <4>1
    <3>2. QED  BY <2>2, <2>3, <2>4, <3>1
  <2>6. ASSUME NEW k \in 1..Len(copy)
        PROVE  copy[k] = IF k <= s.len THEN old[k] ELSE IF k = s.len + 1 THEN x ELSE Null
    <3>1. k \in 1..(s.len + 1 + rest) /\ s.len \in Nat /\ rest \in Nat
      BY <1>1, <2>5
    <3>2. CASE k <= s.len + 1
      BY <3>1, <3>2, <2>3, <2>5
    <3>3. CASE k > s.len + 1
      <4>1. k - (s.len + 1) \in 1..rest
        BY <3>1, <3>3
      <4>2. QED  BY <3>1, <3>3, <4>1, <2>2, <2>5
    <3>4. QED  BY <3>1, <3>2, <3>3
  <2>7. QED  BY <2>5, <2>6
<1> HIDE DEF copy, rest, old
<1>4. /\ m2 \in Seq(Seq(Values)) /\ Len(m2) = Len(m) + 1
      /\ \A a \in 1..Len(m) : m2[a] = m[a]
      /\ m2[Len(m) + 1] = copy
  BY <1>2, <1>3, AppendProperties
<1>5. /\ s2 \in [array : Nat, len : Nat]
      /\ s2.array = Len(m) + 1 /\ s2.len = s.len + 1
  BY <1>1, <1>2
<1>6. Grown(m, s, m2, s2)
  <2>1. Len(m) \in Nat /\ s.len \in Nat /\ Len(copy) > 0
    BY <1>1, <1>3
  <2>2. \A a \in 1..Len(m2) : Len(m2[a]) > 0
    <3>1. \A a \in 1..Len(m2) : a \in 1..Len(m) \/ a = Len(m) + 1
      BY <1>4, <2>1
    <3>2. QED  BY <1>4, <2>1, <3>1
  <2>3. Len(m2) >= Len(m)
    BY <1>4, <2>1
  <2>4. s2.array > Len(m) /\ s2.len >= s.len
    BY <1>5, <2>1
  <2>5. \A a \in 1..Len(m) : Len(m2[a]) = Len(m[a]) /\ (a # s.array => m2[a] = m[a])
    BY <1>4
  <2>6. QED  BY <1>4, <1>5, <2>2, <2>3, <2>4, <2>5 DEF Grown
<1>7. Holds(m2, s2, X)
  <2>1. m2[s2.array] = copy /\ s2.array \in 1..Len(m2)
    BY <1>4, <1>5
  <2>2. s2.len \in 0..Len(copy)
    BY <1>1, <1>3, <1>5
  <2>3. \A k \in 1..Len(copy) : IF k <= s2.len THEN copy[k] \in X ELSE copy[k] = Null
    <3> SUFFICES ASSUME NEW k \in 1..Len(copy)
                 PROVE  IF k <= s2.len THEN copy[k] \in X ELSE copy[k] = Null
      OBVIOUS
    <3>1. k \in Nat \ {0} /\ s.len \in Nat /\ s2.len = s.len + 1
      BY <1>1, <1>3, <1>5
    <3>2. CASE k <= s.len
      <4>1. copy[k] = old[k] /\ k \in 1..s.len /\ k <= s2.len
        BY <3>1, <3>2, <1>3
      <4>2. QED  BY <4>1, <1>1
    <3>3. CASE k = s.len + 1
      BY <3>1, <3>3, <1>3
    <3>4. CASE k > s.len + 1
      BY <3>1, <3>4, <1>3
    <3>5. QED  BY <3>1, <3>2, <3>3, <3>4
  <2>4. QED  BY <2>1, <2>2, <2>3 DEF Holds
<1>8. Extended(m, s, <<x>>, m2, s2)
  <2>1. m2[s2.array] = copy /\ s2.len = s.len + 1 /\ s.len \in Nat /\ rest \in Nat
    BY <1>1, <1>4, <1>5
  <2>2. s.len + 1 \in 1..Len(copy) /\ \A k \in 1..s.len : k \in 1..Len(copy) /\ k <= s.len
    BY <1>3, <2>1
  <2>3. \A k \in 1..s.len : copy[k] = m[s.array][k]
    BY <1>3, <2>2 DEF old
  <2>4. copy[s.len + 1] = x
    BY <1>3, <2>1, <2>2
  <2>5. QED  BY <2>1, <2>3, <2>4 DEF Extended
<1>9. QED  BY <1>6, <1>7, <1>8

(* append, whether there is room or not.                                   *)
LEMMA AppendedIs ==
  ASSUME NEW m \in Seq(Seq(Values)), \A a \in 1..Len(m) : Len(m[a]) > 0,
         NEW X \in SUBSET Values, NEW x \in X,
         NEW s \in [array : Nat, len : Nat], Holds(m, s, X),
         NEW m2, m2 = Appended(m, s, x).memory,
         NEW s2, s2 = Appended(m, s, x).slice
  PROVE  Grown(m, s, m2, s2) /\ Holds(m2, s2, X) /\ Extended(m, s, <<x>>, m2, s2)
BY AppendedInPlace, AppendedInCopy

(* Several appends are like one.                                           *)
LEMMA GrownNot ==
  ASSUME NEW m \in Seq(Seq(Values)), \A a \in 1..Len(m) : Len(m[a]) > 0,
         NEW s \in [array : Nat, len : Nat]
  PROVE  Grown(m, s, m, s)
BY DEF Grown

(* Two appends in a row grow a slice as one does. *)
LEMMA GrownTwice ==
  ASSUME NEW m \in Seq(Seq(Values)), NEW s \in [array : Nat, len : Nat],
         s.array \in 1..Len(m),
         NEW m1, NEW s1, Grown(m, s, m1, s1),
         NEW m2, NEW s2, Grown(m1, s1, m2, s2)
  PROVE  Grown(m, s, m2, s2)
<1>1. /\ m1 \in Seq(Seq(Values)) /\ m2 \in Seq(Seq(Values))
      /\ Len(m1) >= Len(m) /\ Len(m2) >= Len(m1)
      /\ s1 \in [array : Nat, len : Nat] /\ s2 \in [array : Nat, len : Nat]
  BY DEF Grown
<1>2. /\ s.array \in Nat /\ s1.array \in Nat /\ s2.array \in Nat
      /\ s.len \in Nat /\ s1.len \in Nat /\ s2.len \in Nat
  BY <1>1
<1>3. Len(m) \in Nat /\ Len(m1) \in Nat /\ Len(m2) \in Nat
  BY <1>1, LenProperties
<1>4. s1.array = s.array \/ s1.array > Len(m)
  BY DEF Grown
<1>5. ASSUME NEW a \in 1..Len(m)
      PROVE  a \in 1..Len(m1) /\ (a # s.array => a # s1.array)
  <2>1. \A i, l, l1, b, b1 \in Nat :
          i \in 1..l /\ l1 >= l /\ (b1 = b \/ b1 > l) =>
            i \in 1..l1 /\ (i # b => i # b1)
    OBVIOUS
  <2>2. a \in Nat /\ Len(m1) >= Len(m)
    BY <1>1, <1>3
  <2>3. QED  BY <1>2, <1>3, <1>4, <2>1, <2>2
<1>6. \A a \in 1..Len(m) : Len(m1[a]) = Len(m[a]) /\ (a # s.array => m1[a] = m[a])
  BY DEF Grown
<1>7. \A a \in 1..Len(m1) : Len(m2[a]) = Len(m1[a]) /\ (a # s1.array => m2[a] = m1[a])
  BY DEF Grown
<1>8. \A a \in 1..Len(m) : Len(m2[a]) = Len(m[a]) /\ (a # s.array => m2[a] = m[a])
  BY <1>5, <1>6, <1>7
<1>9. s2.array = s.array \/ s2.array > Len(m)
  <2>1. s2.array = s1.array \/ s2.array > Len(m1)
    BY DEF Grown
  <2>2. \A b, b1, b2, l, l1 \in Nat :
          (b1 = b \/ b1 > l) /\ (b2 = b1 \/ b2 > l1) /\ l1 >= l => b2 = b \/ b2 > l
    OBVIOUS
  <2>3. Len(m1) >= Len(m)
    BY <1>1
  <2>4. QED  BY <1>2, <1>3, <1>4, <2>1, <2>2, <2>3
<1>10. s2.len >= s.len
  <2>1. s1.len >= s.len /\ s2.len >= s1.len
    BY DEF Grown
  <2>2. QED  BY <1>2, <2>1
<1>11. \A a \in 1..Len(m2) : Len(m2[a]) > 0
  BY DEF Grown
<1>12. Len(m2) >= Len(m)
  BY <1>1, <1>3
<1>13. QED  BY <1>1, <1>8, <1>9, <1>10, <1>11, <1>12 DEF Grown

(* Two elements one after the other are the sequence of both.              *)
LEMMA ExtendedTwice ==
  ASSUME NEW X, NEW xs \in Seq(X), Len(xs) = 2,
         NEW m, NEW s \in [array : Nat, len : Nat],
         NEW m1, NEW s1 \in [array : Nat, len : Nat], Extended(m, s, <<xs[1]>>, m1, s1),
         NEW m2, NEW s2, Extended(m1, s1, <<xs[2]>>, m2, s2)
  PROVE  Extended(m, s, xs, m2, s2)
<1>1. /\ s1.len = s.len + 1 /\ s2.len = s1.len + 1 /\ s.len \in Nat
      /\ m1[s1.array][s.len + 1] = xs[1] /\ m2[s2.array][s1.len + 1] = xs[2]
  BY DEF Extended
<1>2. \A k \in 1..(s.len + 1) : m2[s2.array][k] = m1[s1.array][k]
  BY <1>1 DEF Extended
<1>3. \A k \in 1..s.len : m1[s1.array][k] = m[s.array][k]
  BY DEF Extended
<1>4. ASSUME NEW k \in 1..s.len
      PROVE  m2[s2.array][k] = m[s.array][k]
  <2>1. k \in 1..(s.len + 1)
    BY <1>1
  <2>2. QED  BY <1>2, <1>3, <2>1
<1>5. m2[s2.array][s.len + 1] = xs[1]
  <2>1. s.len + 1 \in 1..(s.len + 1)
    BY <1>1
  <2>2. QED  BY <1>1, <1>2, <2>1
<1>6. m2[s2.array][s.len + 2] = xs[2]
  <2>1. s1.len + 1 = s.len + 2
    BY <1>1
  <2>2. QED  BY <1>1, <2>1
<1>7. \A k \in 1..Len(xs) : m2[s2.array][s.len + k] = xs[k]
  <2>1. \A k \in 1..Len(xs) : k = 1 \/ k = 2
    OBVIOUS
  <2>2. QED  BY <1>5, <1>6, <2>1
<1>8. s2.len = s.len + Len(xs)
  BY <1>1
<1>9. QED  BY <1>4, <1>7, <1>8 DEF Extended

(* One visit, or the root: up to two pointers are appended.                *)
LEMMA AppendAllIs ==
  ASSUME NEW r \in Requests, memory \in Seq(Seq(Values)),
         \A a \in Arrays : Len(memory[a]) > 0,
         q \in [Requests -> Slices], Holds(memory, q[r], Own(r)),
         NEW xs \in Seq(Own(r)), Len(xs) \in 0..2, AppendAll(r, xs)
  PROVE  /\ Grown(memory, q[r], memory', q'[r])
         /\ Holds(memory', q'[r], Own(r))
         /\ Extended(memory, q[r], xs, memory', q'[r])
         /\ q' = [q EXCEPT ![r] = q'[r]]
<1> DEFINE one == Appended(memory, q[r], xs[1])
           two == Appended(one.memory, one.slice, xs[2])
<1>1. /\ q[r] \in [array : Nat, len : Nat]
      /\ q[r].array \in 1..Len(memory)
      /\ Own(r) \in SUBSET Values
  BY DEF Slices, Holds, Own, Values
<1>2. q' = [q EXCEPT ![r] = q'[r]]
  BY DEF AppendAll
<1>3. CASE Len(xs) = 0
  <2>1. memory' = memory /\ q'[r] = q[r]
    BY <1>3 DEF AppendAll
  <2>2. Grown(memory, q[r], memory', q'[r])
    BY <1>1, <2>1, GrownNot DEF Arrays
  <2>3. Extended(memory, q[r], xs, memory', q'[r])
    BY <1>1, <1>3, <2>1 DEF Extended
  <2>4. QED  BY <1>2, <2>1, <2>2, <2>3
<1>4. ASSUME Len(xs) # 0
      PROVE  /\ Grown(memory, q[r], one.memory, one.slice)
             /\ Holds(one.memory, one.slice, Own(r))
             /\ Extended(memory, q[r], <<xs[1]>>, one.memory, one.slice)
  <2>1. xs[1] \in Own(r)
    BY <1>4
  <2>2. QED  BY <1>1, <2>1, AppendedIs DEF Arrays
<1>5. CASE Len(xs) = 1
  <2>1. memory' = one.memory /\ q'[r] = one.slice
    BY <1>5 DEF AppendAll
  <2>2. xs = <<xs[1]>>
    BY <1>5
  <2>3. QED  BY <1>2, <1>4, <1>5, <2>1, <2>2
<1>6. CASE Len(xs) = 2
  <2>1. memory' = two.memory /\ q'[r] = two.slice
    BY <1>6 DEF AppendAll
  <2>2. xs[2] \in Own(r)
    BY <1>6, ElementOfSeq
  <2> DEFINE m1 == one.memory
             s1 == one.slice
  <2>3. /\ Grown(memory, q[r], m1, s1) /\ Holds(m1, s1, Own(r))
        /\ Extended(memory, q[r], <<xs[1]>>, m1, s1)
    BY <1>4, <1>6
  <2>4. two = Appended(m1, s1, xs[2])
    OBVIOUS
  <2> HIDE DEF one, two, m1, s1
  <2>5. /\ m1 \in Seq(Seq(Values))
        /\ \A a \in 1..Len(m1) : Len(m1[a]) > 0
        /\ s1 \in [array : Nat, len : Nat]
    BY <2>3 DEF Grown
  <2>6. /\ Grown(m1, s1, two.memory, two.slice) /\ Holds(two.memory, two.slice, Own(r))
        /\ Extended(m1, s1, <<xs[2]>>, two.memory, two.slice)
    BY <1>1, <2>2, <2>3, <2>4, <2>5, AppendedIs
  <2>7. Grown(memory, q[r], two.memory, two.slice)
    BY <1>1, <2>3, <2>6, GrownTwice
  <2>8. Extended(memory, q[r], xs, two.memory, two.slice)
    BY <1>1, <1>6, <2>3, <2>5, <2>6, ExtendedTwice
  <2>9. QED  BY <1>2, <2>1, <2>6, <2>7, <2>8
<1>7. QED  BY <1>3, <1>5, <1>6

(* A node's children are nodes, and there are two at most.                 *)
LEMMA ChildrenAre ==
  ASSUME NEW T \in Trees, NEW n \in Node
  PROVE  Children(T, n) \in Seq(Node) /\ Len(Children(T, n)) \in 0..2
<1>1. T.left[n] \in Node \union {Null} /\ T.right[n] \in Node \union {Null}
  BY TreesAssumption
<1>2. QED  BY <1>1, NullAssumption DEF Children

(* Read in its own tree, a node of a request has pointers of the request.  *)
LEMMA ChildPointersAre ==
  ASSUME NEW r \in Requests, tree[r] \in Trees, NEW node \in Own(r)
  PROVE  LET xs == ChildPointers(node)
             children == Children(tree[r], node[2])
         IN  /\ xs \in Seq(Own(r)) /\ Len(xs) = Len(children) /\ Len(xs) \in 0..2
             /\ children \in Seq(Node)
             /\ \A k \in 1..Len(xs) : xs[k] = <<r, children[k]>>
<1> DEFINE children == Children(tree[r], node[2])
           xs == [k \in 1..Len(children) |-> <<r, children[k]>>]
<1>1. node[1] = r /\ node[2] \in Node
  BY DEF Own
<1>2. children \in Seq(Node) /\ Len(children) \in 0..2
  BY <1>1, ChildrenAre
<1>3. ChildPointers(node) = xs
  BY <1>1 DEF ChildPointers, Pointer
<1> HIDE DEF children
<1>4. \A k \in 1..Len(children) : <<r, children[k]>> \in Own(r)
  BY <1>2, ElementOfSeq DEF Own
<1>5. xs \in Seq(Own(r)) /\ Len(xs) = Len(children)
  BY <1>2, <1>4
<1>6. QED  BY <1>2, <1>3, <1>5 DEF children

-----------------------------------------------------------------------------
(* The steps.                                                              *)

(* Where the slices and the pointers lead.                                 *)
LEMMA Reach ==
  ASSUME PoolInv
  PROVE  /\ Len(memory) \in Nat /\ Len(pointer) \in Nat
         /\ \A a \in Arrays : memory[a] \in Seq(Values) /\ Len(memory[a]) \in Nat
         /\ \A p \in Pointers : pointer[p] \in Slices /\ pointer[p].array \in Arrays
         /\ \A r \in Requests :
              pc[r] # "get" => q[r].array \in Arrays /\ qPtr[r] \in Pointers
         /\ \A r \in Active : qPtr[r] \in Live /\ q[r].array \in Arrays
         /\ pool \subseteq Live /\ Live \subseteq Pointers
<1>1. /\ memory \in Seq(Seq(Values)) /\ pointer \in Seq(Slices)
      /\ q \in [Requests -> Slices] /\ qPtr \in [Requests -> {NoPointer} \union Pointers]
      /\ pool \subseteq Pointers
  BY DEF PoolInv, TypeOK, Values
<1>2. Len(memory) \in Nat /\ Len(pointer) \in Nat
  BY <1>1, LenProperties
<1>3. \A a \in Arrays : memory[a] \in Seq(Values)
  BY <1>1, ElementOfSeq DEF Arrays
<1>4. \A a \in Arrays : Len(memory[a]) \in Nat
  BY <1>3, LenProperties
<1>5. \A p \in Pointers : pointer[p] \in Slices
  BY <1>1, ElementOfSeq DEF Pointers
<1>6. \A x \in Slices : x.array # 0 => x.array \in Arrays
  BY <1>2 DEF Slices, Arrays
<1>7. \A p \in Pointers : pointer[p].array \in Arrays
  BY <1>5, <1>6 DEF PoolInv, Allocated
<1>8. \A r \in Requests : pc[r] # "get" => q[r].array \in Arrays /\ qPtr[r] \in Pointers
  BY <1>1, <1>6 DEF PoolInv, Allocated
<1>9. \A r \in Active : qPtr[r] \in Live /\ q[r].array \in Arrays /\ qPtr[r] \in Pointers
  BY <1>8 DEF Active, Live
<1>10. pool \subseteq Live /\ Live \subseteq Pointers
  BY <1>1, <1>9 DEF Live
<1>11. QED  BY <1>2, <1>3, <1>4, <1>5, <1>7, <1>8, <1>9, <1>10

(* A request that appends to its queue disturbs no other: the array it     *)
(* writes is its own, and the array it may move to is new.                 *)
LEMMA GrowStep ==
  ASSUME PoolInv, NEW r \in Requests, pc[r] \in {"root", "level"},
         Grown(memory, q[r], memory', q'[r]), Holds(memory', q'[r], Own(r)),
         q' = [q EXCEPT ![r] = q'[r]],
         UNCHANGED <<pointer, pool, tree, qPtr, levelEnd, depth>>,
         NEW label \in {"loop", "level"}, GoTo(r, label),
         head' \in [Requests -> Nat], \A s \in Requests \ {r} : head'[s] = head[s],
         label = "level" => head'[r] <= levelEnd[r] /\ levelEnd[r] <= q[r].len
  PROVE  PoolInv'
<1> USE DEF GoTo
<1>1. TypeOK
  BY DEF PoolInv
<1>2. /\ pc' = [pc EXCEPT ![r] = label] /\ pc'[r] = label
      /\ \A s \in Requests \ {r} : pc'[s] = pc[s] /\ q'[s] = q[s] /\ head'[s] = head[s]
  BY <1>1 DEF TypeOK
<1>3. r \in Active /\ Active' = Active
  BY <1>2 DEF Active
<1>4. Live' = Live
  BY <1>3 DEF Live
<1>5. /\ memory' \in Seq(Seq(Values)) /\ Len(memory') \in Nat
      /\ Len(memory') >= Len(memory)
      /\ \A a \in Arrays' : Len(memory'[a]) > 0
      /\ \A a \in Arrays :
           /\ Len(memory'[a]) = Len(memory[a])
           /\ a # q[r].array => memory'[a] = memory[a]
  <2>1. memory' \in Seq(Seq(Values))
    BY DEF Grown
  <2>2. QED  BY <2>1, LenProperties DEF Grown, Arrays
<1>6. \A a \in Arrays : a \in Arrays' /\ (a # q[r].array => a # q'[r].array)
  <2> SUFFICES ASSUME NEW a \in Arrays
               PROVE  a \in Arrays' /\ (a # q[r].array => a # q'[r].array)
    OBVIOUS
  <2>1. a \in Nat /\ 1 <= a /\ a <= Len(memory) /\ Len(memory) \in Nat
    BY Reach DEF Arrays
  <2>2. q'[r].array = q[r].array \/ q'[r].array > Len(memory)
    BY DEF Grown
  <2>3. q'[r].array \in Nat
    BY DEF Grown
  <2>4. QED  BY <1>5, <2>1, <2>2, <2>3 DEF Arrays
<1>7. /\ q'[r] \in Slices' /\ q'[r].array \in Arrays'
      /\ q'[r].len \in 0..Len(memory'[q'[r].array])
      /\ q'[r].len >= q[r].len /\ q[r].len \in Nat
  <2>1. q'[r] \in [array : Nat, len : Nat] /\ q'[r].len >= q[r].len
    BY DEF Grown
  <2>2. q'[r].array \in 1..Len(memory') /\ q'[r].len \in 0..Len(memory'[q'[r].array])
    BY DEF Holds
  <2>3. QED  BY <1>1, <1>5, <2>1, <2>2 DEF TypeOK, Slices, Arrays
<1>8. Slices \subseteq Slices'
  BY <1>5, Reach DEF Slices
<1>9. TypeOK'
  <2>1. pointer' \in Seq(Slices')
    BY <1>1, <1>8, SeqDef DEF TypeOK
  <2>2. q' \in [Requests -> Slices']
    BY <1>1, <1>7, <1>8 DEF TypeOK
  <2>3. \A s \in Requests : pc'[s] # "get" => q'[s].len <= Len(memory'[q'[s].array])
    <3> SUFFICES ASSUME NEW s \in Requests, pc'[s] # "get"
                 PROVE  q'[s].len <= Len(memory'[q'[s].array])
      OBVIOUS
    <3>1. CASE s = r
      BY <3>1, <1>7, <1>5
    <3>2. CASE s # r
      <4>1. pc[s] # "get" /\ q'[s] = q[s]
        BY <3>2, <1>2
      <4>2. q[s].len <= Len(memory[q[s].array])
        BY <4>1, <1>1 DEF TypeOK
      <4>3. q[s].array \in Arrays
        BY <4>1, Reach
      <4>4. QED  BY <4>1, <4>2, <4>3, <1>5
    <3>3. QED  BY <3>1, <3>2
  <2>4. pc' \in [Requests -> {"get", "root", "loop", "level", "clear", "store",
                              "put", "done"}]
    BY <1>1, <1>2 DEF TypeOK
  <2>5. QED  BY <1>1, <1>5, <2>1, <2>2, <2>3, <2>4 DEF TypeOK, Pointers, Values
<1>10. Allocated'
  <2>1. \A s \in Requests : pc'[s] # "get" => q'[s].array # 0 /\ qPtr'[s] # NoPointer
    <3> SUFFICES ASSUME NEW s \in Requests, pc'[s] # "get"
                 PROVE  q'[s].array # 0 /\ qPtr'[s] # NoPointer
      OBVIOUS
    <3>1. pc[s] # "get"
      BY <1>2
    <3>2. CASE s = r
      BY <3>1, <3>2, <1>7, <1>5 DEF Arrays, PoolInv, Allocated
    <3>3. CASE s # r
      BY <3>1, <3>3, <1>2 DEF PoolInv, Allocated
    <3>4. QED  BY <3>2, <3>3
  <2>2. QED  BY <1>5, <2>1 DEF PoolInv, Allocated, Pointers
<1>11. PointersAreExclusive'
  BY <1>3 DEF PoolInv, PointersAreExclusive
<1>12. ASSUME NEW s \in Active, s # r
       PROVE  /\ q'[s] = q[s] /\ q[s].array \in Arrays /\ q[s].array # q'[r].array
              /\ memory'[q[s].array] = memory[q[s].array]
  <2>1. q[s].array \in Arrays /\ q[s].array # q[r].array
    BY <1>3, <1>12, Reach DEF PoolInv, ArraysAreExclusive
  <2>2. QED  BY <1>2, <1>5, <1>6, <1>12, <2>1 DEF Active
<1>13. ASSUME NEW p \in Live, p # qPtr[r]
       PROVE  /\ pointer[p].array \in Arrays /\ pointer[p].array # q'[r].array
              /\ memory'[pointer[p].array] = memory[pointer[p].array]
  <2>1. pointer[p].array \in Arrays /\ pointer[p].array # q[r].array
    BY <1>3, <1>13, Reach DEF PoolInv, LiveArraysAreExclusive
  <2>2. QED  BY <1>5, <1>6, <2>1
<1>14. \A p \in pool : p \in Live /\ p # qPtr[r]
  BY <1>3 DEF Live, PoolInv, PointersAreExclusive
<1>15. ArraysAreExclusive'
  BY <1>3, <1>12, <1>13, <1>14 DEF PoolInv, ArraysAreExclusive
<1>16. LiveArraysAreExclusive'
  <2>1. \A s \in Active : \A p \in Live : p # qPtr[s] => pointer[p].array # q'[s].array
    BY <1>12, <1>13 DEF PoolInv, LiveArraysAreExclusive
  <2>2. QED  BY <1>3, <1>4, <2>1 DEF PoolInv, LiveArraysAreExclusive
<1>17. PooledArraysHoldNothing'
  BY <1>13, <1>14 DEF PoolInv, PooledArraysHoldNothing
<1>18. Released'
  <2> SUFFICES ASSUME NEW s \in Active
               PROVE  /\ pc'[s] \in {"root", "loop", "level", "clear"} =>
                           Holds(memory', q'[s], Own(s))
                      /\ pc'[s] \in {"store", "put"} => IsEmpty(memory', q'[s].array)
                      /\ pc'[s] = "put" => pointer[qPtr[s]].array = q'[s].array
                      /\ pc'[s] = "level" =>
                           head'[s] <= levelEnd[s] /\ levelEnd[s] <= q'[s].len
    BY <1>3 DEF Released, Holds, IsEmpty, Own
  <2>1. CASE s = r
    <3>1. label = "level" => levelEnd[r] <= q'[r].len
      BY <1>1, <1>5, <1>7 DEF TypeOK
    <3>2. QED  BY <2>1, <3>1, <1>2
  <2>2. CASE s # r
    <3>1. /\ s \in Requests /\ pc'[s] = pc[s] /\ q'[s] = q[s] /\ head'[s] = head[s]
          /\ memory'[q[s].array] = memory[q[s].array]
          /\ q[s].array \in Arrays'
      BY <2>2, <1>2, <1>6, <1>12 DEF Active
    <3>2. Holds(memory, q[s], Own(s)) => Holds(memory', q[s], Own(s))
      BY <3>1 DEF Holds, Arrays
    <3>3. IsEmpty(memory, q[s].array) => IsEmpty(memory', q[s].array)
      BY <3>1 DEF IsEmpty
    <3>4. QED  BY <3>1, <3>2, <3>3 DEF PoolInv, Released
  <2>3. QED  BY <2>1, <2>2
<1>19. QED
  BY <1>9, <1>10, <1>11, <1>15, <1>16, <1>17, <1>18 DEF PoolInv

(* Nothing is allocated, pooled or under way at first.                     *)
LEMMA Initially ==
  Init => PoolInv
<1> SUFFICES ASSUME Init PROVE PoolInv
  OBVIOUS
<1>1. Active = {} /\ Live = {} /\ Arrays = {} /\ Pointers = {}
  BY DEF Init, Active, Live, Arrays, Pointers
<1>2. TypeOK
  BY DEF Init, TypeOK, Slices, NoSlice, Pointers
<1>3. QED
  BY <1>1, <1>2 DEF Init, PoolInv, Allocated, PointersAreExclusive, ArraysAreExclusive,
     LiveArraysAreExclusive, PooledArraysHoldNothing, Released

(* A pointer of the pool comes with an array no traversal works on, and    *)
(* with nothing in it.                                                     *)
LEMMA GetPooledStep ==
  ASSUME PoolInv, NEW r \in Requests, pc[r] = "get", NEW p \in pool,
         pool' = pool \ {p}, qPtr' = [qPtr EXCEPT ![r] = p],
         q' = [q EXCEPT ![r] = [pointer[p] EXCEPT !.len = 0]],
         UNCHANGED <<memory, pointer>>,
         GoTo(r, "root"), UNCHANGED <<tree, head, levelEnd, depth>>
  PROVE  PoolInv'
<1> USE DEF GoTo
<1>1. TypeOK
  BY DEF PoolInv
<1>2. /\ p \in Live /\ p \in Pointers /\ pointer[p].array \in Arrays
      /\ pointer[p] \in Slices
  BY Reach
<1>3. /\ qPtr'[r] = p /\ q'[r].array = pointer[p].array /\ q'[r].len = 0
      /\ q'[r] \in Slices /\ pc'[r] = "root"
      /\ \A s \in Requests \ {r} : qPtr'[s] = qPtr[s] /\ q'[s] = q[s] /\ pc'[s] = pc[s]
  BY <1>1, <1>2 DEF TypeOK, Slices
<1>4. r \notin Active /\ Active' = Active \union {r}
  BY <1>3 DEF Active
<1>5. Live' = Live
  BY <1>3, <1>4 DEF Live, Active
<1>6. \A s \in Active : s # r /\ s \in Requests
  BY <1>4 DEF Active
<1>7. TypeOK'
  <2>1. /\ pool' \subseteq Pointers /\ qPtr' \in [Requests -> {NoPointer} \union Pointers]
        /\ q' \in [Requests -> Slices]
        /\ pc' \in [Requests -> {"get", "root", "loop", "level", "clear", "store",
                                 "put", "done"}]
    BY <1>1, <1>2, <1>3 DEF TypeOK
  <2>2. \A s \in Requests : pc'[s] # "get" => q'[s].len <= Len(memory'[q'[s].array])
    <3>1. q'[r].len <= Len(memory[q'[r].array])
      BY <1>2, <1>3, Reach
    <3>2. QED  BY <1>1, <1>3, <3>1 DEF TypeOK
  <2>3. QED  BY <1>1, <2>1, <2>2 DEF TypeOK, Pointers, Slices
<1>8. Allocated'
  <2>1. pointer[p].array # 0 /\ p # NoPointer
    BY <1>2 DEF PoolInv, Allocated, Pointers, NoPointer
  <2>2. QED  BY <1>3, <2>1 DEF PoolInv, Allocated, Arrays, Pointers
<1>9. PointersAreExclusive'
  BY <1>3, <1>4, <1>6 DEF PoolInv, PointersAreExclusive
<1>10. ArraysAreExclusive'
  <2>1. \A s \in Active : q[s].array # pointer[p].array
    BY DEF PoolInv, ArraysAreExclusive
  <2>2. \A p2 \in pool \ {p} : pointer[p2].array # pointer[p].array
    BY <1>2, Reach DEF PoolInv, LiveArraysAreExclusive
  <2>3. QED  BY <1>3, <1>4, <1>6, <2>1, <2>2 DEF PoolInv, ArraysAreExclusive
<1>11. LiveArraysAreExclusive'
  BY <1>2, <1>3, <1>4, <1>5, <1>6 DEF PoolInv, LiveArraysAreExclusive
<1>12. PooledArraysHoldNothing'
  BY DEF PoolInv, PooledArraysHoldNothing
<1>13. Released'
  <2>1. Holds(memory, q'[r], Own(r))
    <3>1. \A k \in 1..Len(memory[pointer[p].array]) : memory[pointer[p].array][k] = Null
      BY DEF PoolInv, PooledArraysHoldNothing
    <3>2. /\ q'[r].array = pointer[p].array /\ q'[r].len = 0
          /\ pointer[p].array \in 1..Len(memory)
      BY <1>2, <1>3 DEF Arrays
    <3>3. Len(memory[pointer[p].array]) \in Nat
      BY <1>2, Reach
    <3>4. /\ 0 \in 0..Len(memory[pointer[p].array])
          /\ \A k \in 1..Len(memory[pointer[p].array]) : ~(k <= 0)
      BY <3>3
    <3>5. QED  BY <3>1, <3>2, <3>4 DEF Holds
  <2>2. \A s \in Active : (q'[s] = q[s] /\ pc'[s] = pc[s] /\ qPtr'[s] = qPtr[s])
    BY <1>3, <1>6
  <2>3. ASSUME NEW s \in Active'
        PROVE  /\ pc'[s] \in {"root", "loop", "level", "clear"}
                    => Holds(memory', q'[s], Own(s))
               /\ pc'[s] \in {"store", "put"} => IsEmpty(memory', q'[s].array)
               /\ pc'[s] = "put" => pointer'[qPtr'[s]].array = q'[s].array
               /\ pc'[s] = "level" => head'[s] <= levelEnd'[s] /\ levelEnd'[s] <= q'[s].len
    <3>1. CASE s = r
      BY <3>1, <1>3, <2>1
    <3>2. CASE s \in Active
      BY <3>2, <2>2 DEF PoolInv, Released
    <3>3. QED  BY <3>1, <3>2, <1>4
  <2>4. QED  BY <2>3 DEF Released, Holds, IsEmpty, Own
<1>14. QED
  BY <1>7, <1>8, <1>9, <1>10, <1>11, <1>12, <1>13 DEF PoolInv

(* New's pointer and array are nobody else's.                              *)
LEMMA GetNewStep ==
  ASSUME PoolInv, NEW r \in Requests, pc[r] = "get",
         memory' = Append(memory, EmptyArray(InitCap)),
         pointer' = Append(pointer, [array |-> Len(memory) + 1, len |-> 0]),
         qPtr' = [qPtr EXCEPT ![r] = Len(pointer) + 1],
         q' = [q EXCEPT ![r] = [array |-> Len(memory) + 1, len |-> 0]],
         UNCHANGED pool,
         GoTo(r, "root"), UNCHANGED <<tree, head, levelEnd, depth>>
  PROVE  PoolInv'
<1> USE DEF GoTo
<1> DEFINE a0 == Len(memory) + 1
           p0 == Len(pointer) + 1
           fresh == [array |-> a0, len |-> 0]
<1>1. TypeOK
  BY DEF PoolInv
<1>2. /\ EmptyArray(InitCap) \in Seq(Values) /\ Len(EmptyArray(InitCap)) = InitCap
      /\ InitCap > 0
      /\ \A k \in 1..InitCap : EmptyArray(InitCap)[k] = Null
  BY DEF EmptyArray, Values
<1>3. /\ memory' \in Seq(Seq(Values)) /\ Len(memory') = a0
      /\ memory'[a0] = EmptyArray(InitCap)
      /\ \A a \in Arrays : memory'[a] = memory[a]
  BY <1>1, <1>2, AppendProperties DEF TypeOK, Values, Arrays
<1>4. Len(memory) \in Nat /\ Len(pointer) \in Nat
  BY Reach
<1>5. /\ fresh \in Slices' /\ fresh.array = a0 /\ fresh.len = 0
      /\ Slices \subseteq Slices'
  BY <1>3, <1>4 DEF Slices
<1>6. pointer \in Seq(Slices')
  BY <1>1, <1>5, SeqDef DEF TypeOK
<1>7. /\ pointer' \in Seq(Slices') /\ Len(pointer') = p0
      /\ pointer'[p0] = fresh
      /\ \A p \in Pointers : pointer'[p] = pointer[p]
  BY <1>5, <1>6, AppendProperties DEF Pointers
<1>8. /\ a0 \notin Arrays /\ p0 \notin Pointers /\ a0 # 0 /\ p0 # 0
      /\ Arrays' = Arrays \union {a0} /\ Pointers' = Pointers \union {p0}
  BY <1>3, <1>4, <1>7 DEF Arrays, Pointers
<1>9. /\ qPtr'[r] = p0 /\ q'[r] = fresh /\ pc'[r] = "root"
      /\ \A s \in Requests \ {r} : qPtr'[s] = qPtr[s] /\ q'[s] = q[s] /\ pc'[s] = pc[s]
  BY <1>1 DEF TypeOK
<1>10. r \notin Active /\ Active' = Active \union {r}
  BY <1>9 DEF Active
<1>11. \A s \in Active : s # r /\ s \in Requests
  BY <1>10 DEF Active
<1>12. Live' = Live \union {p0}
  BY <1>9, <1>10, <1>11 DEF Live
<1> HIDE DEF a0, p0, fresh
<1>13. TypeOK'
  <2>1. /\ pool' \subseteq Pointers'
        /\ qPtr' \in [Requests -> {NoPointer} \union Pointers']
    BY <1>1, <1>8 DEF TypeOK, p0
  <2>2. /\ q' \in [Requests -> Slices']
        /\ pc' \in [Requests -> {"get", "root", "loop", "level", "clear", "store",
                                 "put", "done"}]
    BY <1>1, <1>5 DEF TypeOK, fresh, a0
  <2>3. \A s \in Requests : pc'[s] # "get" => q'[s].len <= Len(memory'[q'[s].array])
    <3> SUFFICES ASSUME NEW s \in Requests, pc'[s] # "get"
                 PROVE  q'[s].len <= Len(memory'[q'[s].array])
      OBVIOUS
    <3>1. CASE s = r
      BY <3>1, <1>2, <1>3, <1>5, <1>9
    <3>2. CASE s # r
      BY <3>2, <1>1, <1>3, <1>9, Reach DEF TypeOK
    <3>3. QED  BY <3>1, <3>2
  <2>4. QED  BY <1>1, <1>3, <1>7, <2>1, <2>2, <2>3 DEF TypeOK, Values
<1>14. Allocated'
  <2>1. \A a \in Arrays' : Len(memory'[a]) > 0
    BY <1>2, <1>3, <1>8 DEF PoolInv, Allocated
  <2>2. \A p \in Pointers' : pointer'[p].array # 0
    BY <1>5, <1>7, <1>8 DEF PoolInv, Allocated
  <2>3. \A s \in Requests : pc'[s] # "get" => q'[s].array # 0 /\ qPtr'[s] # NoPointer
    BY <1>5, <1>8, <1>9 DEF PoolInv, Allocated, NoPointer
  <2>4. QED  BY <2>1, <2>2, <2>3 DEF Allocated
<1>15. \A p \in Live : p # p0 /\ pointer'[p] = pointer[p] /\ pointer[p].array # a0
  BY <1>7, <1>8, Reach
<1>16. \A s \in Active : q[s].array # a0 /\ qPtr[s] # p0
  BY <1>8, Reach
<1>17. pool \subseteq Live
  BY Reach
<1>18. PointersAreExclusive'
  BY <1>9, <1>10, <1>11, <1>15, <1>16, <1>17 DEF PoolInv, PointersAreExclusive
<1>19. ArraysAreExclusive'
  <2>1. q'[r].array = a0 /\ \A s \in Active : q'[s] = q[s] /\ q[s].array # a0
    BY <1>5, <1>9, <1>11, <1>16
  <2>2. \A p \in pool' : pointer'[p] = pointer[p] /\ pointer[p].array # a0
    BY <1>15, <1>17
  <2>3. ASSUME NEW s \in Active'
        PROVE  /\ \A s2 \in Active' \ {s} : q'[s2].array # q'[s].array
               /\ \A p \in pool' : pointer'[p].array # q'[s].array
    <3>1. CASE s = r
      BY <3>1, <2>1, <2>2, <1>10
    <3>2. CASE s \in Active
      <4>1. /\ \A s2 \in Active \ {s} : q[s2].array # q[s].array
            /\ \A p \in pool : pointer[p].array # q[s].array
        BY <3>2 DEF PoolInv, ArraysAreExclusive
      <4>2. q'[s] = q[s] /\ q[s].array # a0
        BY <3>2, <2>1
      <4>3. ASSUME NEW s2 \in Active' \ {s} PROVE q'[s2].array # q'[s].array
        BY <4>1, <4>2, <4>3, <2>1, <1>10
      <4>4. \A p \in pool' : pointer'[p].array # q'[s].array
        BY <4>1, <4>2, <2>2
      <4>5. QED  BY <4>3, <4>4
    <3>3. QED  BY <3>1, <3>2, <1>10
  <2>4. QED  BY <2>3 DEF ArraysAreExclusive
<1>20. LiveArraysAreExclusive'
  <2>0. pointer'[p0].array = a0 /\ q'[r].array = a0
    BY <1>5, <1>7, <1>9
  <2>1. \A p1, p2 \in Live' : p1 # p2 => pointer'[p1].array # pointer'[p2].array
    <3>1. \A p1, p2 \in Live : p1 # p2 => pointer[p1].array # pointer[p2].array
      BY DEF PoolInv, LiveArraysAreExclusive
    <3>2. \A p \in Live : pointer'[p].array = pointer[p].array /\ pointer[p].array # a0
      BY <1>15
    <3>3. \A p \in Live' : p \in Live \/ p = p0
      BY <1>12
    <3>4. ASSUME NEW p1 \in Live', NEW p2 \in Live', p1 # p2
          PROVE  pointer'[p1].array # pointer'[p2].array
      <4>1. CASE p1 \in Live /\ p2 \in Live
        BY <4>1, <3>1, <3>2, <3>4
      <4>2. CASE p1 = p0
        BY <4>2, <2>0, <3>2, <3>3, <3>4
      <4>3. CASE p2 = p0
        BY <4>3, <2>0, <3>2, <3>3, <3>4
      <4>4. QED  BY <3>3, <4>1, <4>2, <4>3
    <3>5. QED  BY <3>4
  <2>2. ASSUME NEW s \in Active', NEW p \in Live', p # qPtr'[s]
        PROVE  pointer'[p].array # q'[s].array
    <3>1. CASE s = r
      <4>1. p \in Live
        BY <3>1, <2>2, <1>9, <1>12
      <4>2. QED  BY <3>1, <4>1, <2>0, <1>15
    <3>2. CASE s \in Active
      <4>1. q'[s] = q[s] /\ qPtr'[s] = qPtr[s] /\ q[s].array # a0
        BY <3>2, <1>9, <1>11, <1>16
      <4>2. \A p2 \in Live : p2 # qPtr[s] => pointer[p2].array # q[s].array
        BY <3>2 DEF PoolInv, LiveArraysAreExclusive
      <4>3. CASE p = p0
        BY <4>1, <4>3, <2>0
      <4>4. CASE p \in Live
        BY <4>1, <4>2, <4>4, <2>2, <1>15
      <4>5. QED  BY <4>3, <4>4, <1>12
    <3>3. QED  BY <3>1, <3>2, <1>10
  <2>3. QED  BY <2>1, <2>2 DEF LiveArraysAreExclusive
<1>21. PooledArraysHoldNothing'
  <2>1. \A p \in pool : pointer'[p] = pointer[p] /\ pointer[p].array \in Arrays
    BY <1>15, <1>17, Reach
  <2>2. \A p \in pool' : memory'[pointer'[p].array] = memory[pointer[p].array]
    <3> SUFFICES ASSUME NEW p \in pool'
                 PROVE  memory'[pointer'[p].array] = memory[pointer[p].array]
      OBVIOUS
    <3>1. pointer'[p] = pointer[p] /\ pointer[p].array \in Arrays
      BY <2>1
    <3>2. memory'[pointer[p].array] = memory[pointer[p].array]
      BY <1>3, <3>1
    <3>3. QED  BY <3>1, <3>2
  <2>3. ASSUME NEW p \in pool'
        PROVE  IsEmpty(memory', pointer'[p].array)
    <3>1. IsEmpty(memory, pointer[p].array)
      BY DEF PoolInv, PooledArraysHoldNothing, IsEmpty
    <3>2. pointer'[p].array = pointer[p].array
      BY <2>1
    <3>3. QED  BY <2>2, <3>1, <3>2 DEF IsEmpty
  <2>4. QED  BY <2>3 DEF PooledArraysHoldNothing, IsEmpty
<1>22. Released'
  <2>1. Holds(memory', q'[r], Own(r))
    <3>1. q'[r].array = a0 /\ q'[r].len = 0 /\ a0 \in 1..Len(memory')
      BY <1>5, <1>8, <1>9 DEF Arrays
    <3>2. InitCap \in Nat /\ Len(memory'[a0]) = InitCap
      BY <1>2, <1>3
    <3>3. \A k \in 1..InitCap : memory'[a0][k] = Null /\ ~(k <= 0)
      BY <1>2, <1>3
    <3>4. QED  BY <3>1, <3>2, <3>3 DEF Holds
  <2>2. ASSUME NEW s \in Active
        PROVE  /\ q'[s] = q[s] /\ pc'[s] = pc[s] /\ qPtr'[s] = qPtr[s]
               /\ memory'[q[s].array] = memory[q[s].array]
               /\ q[s].array \in Arrays /\ q[s].array \in Arrays'
               /\ pointer'[qPtr[s]] = pointer[qPtr[s]]
    BY <1>3, <1>8, <1>9, <1>11, <1>15, Reach
  <2>3. ASSUME NEW s \in Active
        PROVE  /\ Holds(memory, q[s], Own(s)) => Holds(memory', q'[s], Own(s))
               /\ IsEmpty(memory, q[s].array) => IsEmpty(memory', q'[s].array)
    BY <2>2 DEF Holds, IsEmpty, Arrays
  <2> SUFFICES ASSUME NEW s \in Active'
               PROVE  /\ pc'[s] \in {"root", "loop", "level", "clear"} =>
                           Holds(memory', q'[s], Own(s))
                      /\ pc'[s] \in {"store", "put"} => IsEmpty(memory', q'[s].array)
                      /\ pc'[s] = "put" => pointer'[qPtr'[s]].array = q'[s].array
                      /\ pc'[s] = "level" =>
                           head'[s] <= levelEnd'[s] /\ levelEnd'[s] <= q'[s].len
    BY DEF Released, Holds, IsEmpty, Own
  <2>4. CASE s = r
    BY <2>1, <2>4, <1>9
  <2>5. CASE s \in Active
    <3>1. /\ pc[s] \in {"root", "loop", "level", "clear"} => Holds(memory, q[s], Own(s))
          /\ pc[s] \in {"store", "put"} => IsEmpty(memory, q[s].array)
          /\ pc[s] = "put" => pointer[qPtr[s]].array = q[s].array
          /\ pc[s] = "level" => head[s] <= levelEnd[s] /\ levelEnd[s] <= q[s].len
      BY <2>5 DEF PoolInv, Released
    <3>2. QED  BY <2>2, <2>3, <2>5, <3>1
  <2>6. QED  BY <2>4, <2>5, <1>10
<1>23. QED
  BY <1>13, <1>14, <1>18, <1>19, <1>20, <1>21, <1>22 DEF PoolInv

(* The root goes into the queue that was handed out empty.                 *)
LEMMA RootAppends ==
  ASSUME PoolInv, NEW r \in Requests, Root(r)
  PROVE  /\ Grown(memory, q[r], memory', q'[r]) /\ Holds(memory', q'[r], Own(r))
         /\ Extended(memory, q[r], <<Pointer(r, tree[r].root)>>, memory', q'[r])
         /\ q' = [q EXCEPT ![r] = q'[r]]
<1> DEFINE xs == <<Pointer(r, tree[r].root)>>
<1>1. TypeOK /\ pc[r] = "root" /\ r \in Active
  BY DEF PoolInv, Root, Active
<1>2. xs \in Seq(Own(r)) /\ Len(xs) \in 0..2
  BY <1>1, TreesAssumption DEF TypeOK, Pointer, Own
<1>3. Holds(memory, q[r], Own(r))
  BY <1>1 DEF PoolInv, Released
<1>4. /\ memory \in Seq(Seq(Values)) /\ q \in [Requests -> Slices]
      /\ \A a \in Arrays : Len(memory[a]) > 0
  BY <1>1 DEF TypeOK, Values, PoolInv, Allocated
<1>5. AppendAll(r, xs)
  BY DEF Root
<1> HIDE DEF xs
<1>6. /\ Grown(memory, q[r], memory', q'[r]) /\ Holds(memory', q'[r], Own(r))
      /\ Extended(memory, q[r], xs, memory', q'[r])
      /\ q' = [q EXCEPT ![r] = q'[r]]
  BY <1>5, <1>2, <1>3, <1>4, AppendAllIs
<1>7. QED  BY <1>6 DEF xs

(* The root disturbs no other request.                                     *)
LEMMA RootStep ==
  ASSUME PoolInv, NEW r \in Requests, Root(r)
  PROVE  PoolInv'
<1>1. TypeOK /\ pc[r] = "root"
  BY DEF PoolInv, Root
<1>2. /\ UNCHANGED <<pointer, pool, tree, qPtr, levelEnd, depth>> /\ GoTo(r, "loop")
      /\ head' = head
  BY DEF Root, traversal
<1>3. QED
  BY <1>1, <1>2, RootAppends, GrowStep DEF TypeOK

(* What the slot at head holds is a node of this request's own tree, and   *)
(* its children go behind what is queued.                                  *)
LEMMA VisitAppends ==
  ASSUME PoolInv, NEW r \in Requests, Visit(r)
  PROVE  LET node == memory[q[r].array][head[r] + 1]
         IN  /\ node \in Own(r)
             /\ Grown(memory, q[r], memory', q'[r]) /\ Holds(memory', q'[r], Own(r))
             /\ Extended(memory, q[r], ChildPointers(node), memory', q'[r])
             /\ q' = [q EXCEPT ![r] = q'[r]]
<1> DEFINE node == memory[q[r].array][head[r] + 1]
           xs == ChildPointers(node)
<1>1. /\ TypeOK /\ pc[r] = "level" /\ r \in Active
      /\ head[r] \in Nat /\ levelEnd[r] \in Nat /\ q[r].len \in Nat
  BY DEF PoolInv, Visit, Active, TypeOK, Slices
<1>2. Holds(memory, q[r], Own(r)) /\ head[r] <= levelEnd[r] /\ levelEnd[r] <= q[r].len
  BY <1>1 DEF PoolInv, Released
<1>3. head[r] < levelEnd[r]
  BY DEF Visit
<1>4. node \in Own(r)
  <2>1. head[r] + 1 \in 1..Len(memory[q[r].array]) /\ head[r] + 1 <= q[r].len
    BY <1>1, <1>2, <1>3, Reach DEF Holds
  <2>2. QED  BY <1>2, <2>1 DEF Holds
<1>5. tree[r] \in Trees
  BY <1>1 DEF TypeOK
<1>6. xs \in Seq(Own(r)) /\ Len(xs) \in 0..2
  BY <1>4, <1>5, ChildPointersAre
<1>7. /\ memory \in Seq(Seq(Values)) /\ q \in [Requests -> Slices]
      /\ \A a \in Arrays : Len(memory[a]) > 0
  BY <1>1 DEF TypeOK, Values, PoolInv, Allocated
<1>8. AppendAll(r, xs)
  BY DEF Visit
<1> HIDE DEF node, xs
<1>9. /\ Grown(memory, q[r], memory', q'[r]) /\ Holds(memory', q'[r], Own(r))
      /\ Extended(memory, q[r], xs, memory', q'[r])
      /\ q' = [q EXCEPT ![r] = q'[r]]
  BY <1>2, <1>6, <1>7, <1>8, AppendAllIs
<1>10. QED  BY <1>4, <1>9 DEF node, xs

(* A visit disturbs no other request.                                      *)
LEMMA VisitStep ==
  ASSUME PoolInv, NEW r \in Requests, Visit(r)
  PROVE  PoolInv'
<1>1. /\ TypeOK /\ pc[r] = "level" /\ r \in Active
      /\ head[r] \in Nat /\ levelEnd[r] \in Nat
  BY DEF PoolInv, Visit, Active, TypeOK
<1>2. head[r] < levelEnd[r] /\ levelEnd[r] <= q[r].len
  BY <1>1 DEF PoolInv, Released, Visit
<1>3. /\ UNCHANGED <<pointer, pool, tree, qPtr, levelEnd, depth>> /\ pc' = pc
      /\ head' = [head EXCEPT ![r] = @ + 1]
  BY DEF Visit
<1>4. /\ head' \in [Requests -> Nat] /\ \A s \in Requests \ {r} : head'[s] = head[s]
      /\ head'[r] <= levelEnd[r]
  BY <1>1, <1>2, <1>3 DEF TypeOK
<1>5. GoTo(r, "level")
  BY <1>1, <1>3 DEF TypeOK, GoTo
<1>6. QED
  BY <1>1, <1>2, <1>3, <1>4, <1>5, VisitAppends, GrowStep

(* The head of the loop and the end of a level touch no memory.            *)
LEMMA QuietStep ==
  ASSUME PoolInv, NEW r \in Requests, Loop(r) \/ EndLevel(r)
  PROVE  PoolInv'
<1>1. TypeOK /\ pc[r] \in {"loop", "level"} /\ r \in Active
  BY DEF PoolInv, Loop, EndLevel, Active
<1>2. UNCHANGED <<memory, pointer, pool, tree, qPtr, q, head>>
  BY DEF Loop, EndLevel
<1>3. PICK label \in {"level", "clear", "loop"} : pc' = [pc EXCEPT ![r] = label]
  BY DEF Loop, EndLevel, GoTo
<1>4. pc'[r] = label /\ \A s \in Requests \ {r} : pc'[s] = pc[s]
  BY <1>1, <1>3 DEF TypeOK
<1>5. /\ levelEnd' \in [Requests -> Nat] /\ depth' \in [Requests -> Nat]
      /\ \A s \in Requests \ {r} : levelEnd'[s] = levelEnd[s]
      /\ label = "level" => head[r] <= levelEnd'[r] /\ levelEnd'[r] <= q[r].len
  <2>1. CASE Loop(r)
    <3>1. q[r].len \in Nat /\ head[r] \in Nat
      BY <1>1 DEF TypeOK, Slices
    <3>2. CASE head[r] < q[r].len /\ depth[r] < MaxDepth /\ q[r].len <= MaxNodes
      <4>1. levelEnd' = [levelEnd EXCEPT ![r] = q[r].len] /\ depth' = depth
        BY <2>1, <3>2 DEF Loop
      <4>2. QED  BY <3>1, <3>2, <4>1, <1>1 DEF TypeOK
    <3>3. CASE ~(head[r] < q[r].len /\ depth[r] < MaxDepth /\ q[r].len <= MaxNodes)
      <4>1. levelEnd' = levelEnd /\ pc'[r] = "clear" /\ depth' = depth
        BY <2>1, <3>3, <1>1 DEF Loop, GoTo, TypeOK
      <4>2. QED  BY <4>1, <1>1, <1>4 DEF TypeOK
    <3>4. QED  BY <3>2, <3>3
  <2>2. CASE EndLevel(r)
    <3>1. levelEnd' = levelEnd /\ depth' \in [Requests -> Nat]
      BY <2>2, <1>1 DEF EndLevel, TypeOK
    <3>2. pc'[r] = "loop"
      BY <2>2, <1>1 DEF EndLevel, GoTo, TypeOK
    <3>3. label = "loop"
      BY <3>2, <1>4
    <3>4. QED  BY <3>1, <3>3, <1>1 DEF TypeOK
  <2>3. QED  BY <2>1, <2>2
<1>6. Active' = Active
  BY <1>1, <1>4 DEF Active
<1>7. Live' = Live
  BY <1>2, <1>6 DEF Live
<1>8. TypeOK'
  <2>1. pc' \in [Requests -> {"get", "root", "loop", "level", "clear", "store",
                              "put", "done"}]
    BY <1>1, <1>3 DEF TypeOK
  <2>2. \A s \in Requests : pc'[s] # "get" => pc[s] # "get"
    BY <1>1, <1>4
  <2>3. QED  BY <1>1, <1>2, <1>5, <2>1, <2>2 DEF TypeOK, Pointers, Slices
<1>9. Allocated'
  <2>1. \A s \in Requests : pc'[s] # "get" => pc[s] # "get"
    BY <1>1, <1>4
  <2>2. QED  BY <1>2, <2>1 DEF PoolInv, Allocated, Arrays, Pointers
<1>10. /\ PointersAreExclusive' /\ ArraysAreExclusive'
       /\ LiveArraysAreExclusive' /\ PooledArraysHoldNothing'
  BY <1>2, <1>6, <1>7 DEF PoolInv, PointersAreExclusive, ArraysAreExclusive,
     LiveArraysAreExclusive, PooledArraysHoldNothing
<1>11. Released'
  <2> SUFFICES ASSUME NEW s \in Active
               PROVE  /\ pc'[s] \in {"root", "loop", "level", "clear"} =>
                           Holds(memory, q[s], Own(s))
                      /\ pc'[s] \in {"store", "put"} => IsEmpty(memory, q[s].array)
                      /\ pc'[s] = "put" => pointer[qPtr[s]].array = q[s].array
                      /\ pc'[s] = "level" =>
                           head[s] <= levelEnd'[s] /\ levelEnd'[s] <= q[s].len
    BY <1>2, <1>6 DEF Released, Holds, IsEmpty, Own
  <2>1. CASE s = r
    BY <2>1, <1>1, <1>4, <1>5 DEF PoolInv, Released
  <2>2. CASE s # r
    BY <2>2, <1>4, <1>5 DEF PoolInv, Released, Active
  <2>3. QED  BY <2>1, <2>2
<1>12. QED
  BY <1>8, <1>9, <1>10, <1>11 DEF PoolInv

(* What the three steps of a release share: no array and no pointer is     *)
(* allocated, and only the place of the one request changes.               *)
LEMMA ReleaseStep ==
  ASSUME PoolInv, NEW r \in Active, NEW label, GoTo(r, label),
         pc[r] # "done", label \in {"store", "put", "done"},
         UNCHANGED <<q, traversal>>,
         memory' \in Seq(Seq(Values)), Len(memory') = Len(memory),
         \A a \in Arrays : Len(memory'[a]) = Len(memory[a]),
         pointer' \in Seq(Slices), Len(pointer') = Len(pointer),
         \A p \in Pointers : pointer'[p].array # 0,
         pool' \subseteq Pointers
  PROVE  /\ TypeOK' /\ Allocated'
         /\ pc'[r] = label /\ \A s \in Requests \ {r} : pc'[s] = pc[s]
         /\ Arrays' = Arrays /\ Pointers' = Pointers
<1> USE DEF GoTo
<1>1. TypeOK /\ r \in Requests /\ pc[r] # "get"
  BY DEF PoolInv, Active
<1>2. pc'[r] = label /\ \A s \in Requests \ {r} : pc'[s] = pc[s]
  BY <1>1 DEF TypeOK
<1>3. /\ Arrays' = Arrays /\ Pointers' = Pointers /\ Slices' = Slices
      /\ UNCHANGED <<tree, qPtr, q, head, levelEnd, depth>>
  BY DEF Arrays, Pointers, Slices, traversal
<1>4. TypeOK'
  <2>1. pc' \in [Requests -> {"get", "root", "loop", "level", "clear", "store",
                              "put", "done"}]
    BY <1>1 DEF TypeOK
  <2>2. \A s \in Requests : pc'[s] # "get" => q[s].len <= Len(memory'[q[s].array])
    BY <1>1, <1>2, Reach DEF TypeOK
  <2>3. QED  BY <1>1, <1>3, <2>1, <2>2 DEF TypeOK, Values
<1>5. Allocated'
  BY <1>1, <1>2, <1>3 DEF PoolInv, Allocated, Arrays
<1>6. QED
  BY <1>2, <1>3, <1>4, <1>5

(* The array is emptied; no other request's, nor a pooled one.             *)
LEMMA ClearStep ==
  ASSUME PoolInv, NEW r \in Requests, Clear(r)
  PROVE  PoolInv'
<1> DEFINE a0 == q[r].array
           new == [k \in 1..Len(memory[a0]) |->
                     IF k <= q[r].len THEN Null ELSE memory[a0][k]]
<1>1. /\ TypeOK /\ pc[r] = "clear" /\ r \in Active
      /\ UNCHANGED <<pointer, pool, q, traversal>> /\ GoTo(r, "store")
  BY DEF PoolInv, Clear, Active
<1>2. a0 \in Arrays /\ memory[a0] \in Seq(Values) /\ Len(memory[a0]) \in Nat
  BY <1>1, Reach
<1>3. memory' = [memory EXCEPT ![a0] = new]
  BY DEF Clear
<1>4. \A k \in 1..Len(memory[a0]) : IF k <= q[r].len THEN TRUE ELSE memory[a0][k] = Null
  BY <1>1 DEF PoolInv, Released, Holds
<1>5. \A k \in 1..Len(memory[a0]) : new[k] = Null
  BY <1>4
<1>6. new \in Seq(Values) /\ Len(new) = Len(memory[a0])
  <2>1. new \in [1..Len(memory[a0]) -> Values]
    BY <1>5 DEF Values
  <2>2. QED  BY <1>2, <2>1, SeqDef
<1> HIDE DEF new
<1>7. /\ memory' \in Seq(Seq(Values)) /\ Len(memory') = Len(memory)
      /\ \A a \in Arrays : memory'[a] = IF a = a0 THEN new ELSE memory[a]
  <2>1. memory \in Seq(Seq(Values))
    BY <1>1 DEF TypeOK, Values
  <2>2. QED  BY <1>2, <1>3, <1>6, <2>1, ExceptSeq DEF Arrays
<1>8. \A a \in Arrays : Len(memory'[a]) = Len(memory[a])
  BY <1>6, <1>7
<1>9. /\ TypeOK' /\ Allocated' /\ pc'[r] = "store"
      /\ \A s \in Requests \ {r} : pc'[s] = pc[s]
  <2>1. pointer \in Seq(Slices) /\ pool \subseteq Pointers
    BY <1>1 DEF TypeOK
  <2>2. \A p \in Pointers : pointer[p].array # 0
    BY DEF PoolInv, Allocated
  <2>3. QED  BY <1>1, <1>7, <1>8, <2>1, <2>2, ReleaseStep
<1>10. Active' = Active /\ Live' = Live
  BY <1>1, <1>9 DEF Active, Live, traversal
<1>11. /\ PointersAreExclusive' /\ ArraysAreExclusive' /\ LiveArraysAreExclusive'
  BY <1>1, <1>10 DEF PoolInv, PointersAreExclusive, ArraysAreExclusive,
     LiveArraysAreExclusive, traversal
<1>12. PooledArraysHoldNothing'
  <2>1. \A p \in pool : memory'[pointer[p].array] = memory[pointer[p].array]
    <3>1. \A p \in pool : pointer[p].array # a0
      BY <1>1 DEF PoolInv, ArraysAreExclusive
    <3>2. QED  BY <1>7, <3>1, Reach
  <2>2. QED  BY <1>1, <2>1 DEF PoolInv, PooledArraysHoldNothing
<1>13. Released'
  <2> SUFFICES ASSUME NEW s \in Active
               PROVE  /\ pc'[s] \in {"root", "loop", "level", "clear"} =>
                           Holds(memory', q[s], Own(s))
                      /\ pc'[s] \in {"store", "put"} => IsEmpty(memory', q[s].array)
                      /\ pc'[s] = "put" => pointer[qPtr[s]].array = q[s].array
                      /\ pc'[s] = "level" =>
                           head[s] <= levelEnd[s] /\ levelEnd[s] <= q[s].len
    BY <1>1, <1>10 DEF Released, Holds, IsEmpty, Own, traversal
  <2>1. CASE s = r
    <3>1. IsEmpty(memory', a0)
      BY <1>2, <1>5, <1>6, <1>7 DEF IsEmpty
    <3>2. QED  BY <2>1, <3>1, <1>9
  <2>2. CASE s # r
    <3>1. /\ memory'[q[s].array] = memory[q[s].array]
          /\ pc'[s] = pc[s] /\ q[s].array \in Arrays
      <4>1. q[s].array # a0
        BY <1>1, <2>2 DEF PoolInv, ArraysAreExclusive
      <4>2. QED  BY <1>7, <1>9, <2>2, <4>1, Reach DEF Active
    <3>2. Holds(memory, q[s], Own(s)) => Holds(memory', q[s], Own(s))
      BY <3>1, <1>7 DEF Holds
    <3>3. IsEmpty(memory, q[s].array) => IsEmpty(memory', q[s].array)
      BY <3>1 DEF IsEmpty
    <3>4. QED  BY <3>1, <3>2, <3>3 DEF PoolInv, Released
  <2>3. QED  BY <2>1, <2>2
<1>14. QED
  BY <1>9, <1>11, <1>12, <1>13 DEF PoolInv

(* The pointer follows its queue into the array it grew to.                *)
LEMMA StoreStep ==
  ASSUME PoolInv, NEW r \in Requests, Store(r)
  PROVE  PoolInv'
<1> DEFINE p0 == qPtr[r]
           slice == [q[r] EXCEPT !.len = 0]
<1>1. /\ TypeOK /\ pc[r] = "store" /\ r \in Active
      /\ UNCHANGED <<memory, pool, q, traversal>> /\ GoTo(r, "put")
      /\ pointer' = [pointer EXCEPT ![p0] = slice]
  BY DEF PoolInv, Store, Active
<1>2. p0 \in Live /\ p0 \in Pointers /\ q[r].array \in Arrays
  BY <1>1, Reach
<1>3. slice \in Slices /\ slice.array = q[r].array
  BY <1>1 DEF TypeOK, Slices
<1> HIDE DEF slice
<1>4. /\ pointer' \in Seq(Slices) /\ Len(pointer') = Len(pointer)
      /\ \A p \in Pointers : pointer'[p] = IF p = p0 THEN slice ELSE pointer[p]
  <2>1. pointer \in Seq(Slices)
    BY <1>1 DEF TypeOK
  <2>2. QED  BY <1>1, <1>2, <1>3, <2>1, ExceptSeq DEF Pointers
<1>5. /\ TypeOK' /\ Allocated' /\ pc'[r] = "put"
      /\ \A s \in Requests \ {r} : pc'[s] = pc[s]
  <2>1. \A p \in Pointers : pointer'[p].array # 0
    BY <1>2, <1>3, <1>4, Reach DEF Arrays
  <2>2. memory \in Seq(Seq(Values)) /\ pool \subseteq Pointers
    BY <1>1 DEF TypeOK, Values
  <2>3. QED  BY <1>1, <1>4, <2>1, <2>2, ReleaseStep
<1>6. Active' = Active /\ Live' = Live /\ qPtr' = qPtr /\ q' = q
  BY <1>1, <1>5 DEF Active, Live, traversal
<1>7. PointersAreExclusive'
  BY <1>1, <1>6 DEF PoolInv, PointersAreExclusive
<1>8. \A p \in Live : p # p0 => pointer'[p] = pointer[p] /\ pointer[p].array # q[r].array
  BY <1>1, <1>4, Reach DEF PoolInv, LiveArraysAreExclusive
<1>9. pointer'[p0].array = q[r].array
  BY <1>2, <1>3, <1>4
<1>10. \A p \in pool : p \in Live /\ p # p0
  BY <1>1 DEF Live, PoolInv, PointersAreExclusive
<1>11. ArraysAreExclusive'
  BY <1>1, <1>6, <1>8, <1>10 DEF PoolInv, ArraysAreExclusive
<1>12. LiveArraysAreExclusive'
  <2>1. ASSUME NEW p1 \in Live, NEW p2 \in Live, p1 # p2
        PROVE  pointer'[p1].array # pointer'[p2].array
    BY <2>1, <1>8, <1>9 DEF PoolInv, LiveArraysAreExclusive
  <2>2. ASSUME NEW s \in Active, NEW p \in Live, p # qPtr[s]
        PROVE  pointer'[p].array # q[s].array
    <3>1. CASE p # p0
      BY <2>2, <3>1, <1>8 DEF PoolInv, LiveArraysAreExclusive
    <3>2. CASE p = p0
      <4>1. s # r
        BY <2>2, <3>2
      <4>2. q[s].array # q[r].array
        BY <4>1, <1>1 DEF PoolInv, ArraysAreExclusive
      <4>3. QED  BY <3>2, <4>2, <1>9
    <3>3. QED  BY <3>1, <3>2
  <2>3. QED  BY <2>1, <2>2, <1>6 DEF LiveArraysAreExclusive
<1>13. PooledArraysHoldNothing'
  BY <1>1, <1>8, <1>10 DEF PoolInv, PooledArraysHoldNothing
<1>14. Released'
  <2> SUFFICES ASSUME NEW s \in Active
               PROVE  /\ pc'[s] \in {"root", "loop", "level", "clear"} =>
                           Holds(memory, q[s], Own(s))
                      /\ pc'[s] \in {"store", "put"} => IsEmpty(memory, q[s].array)
                      /\ pc'[s] = "put" => pointer'[qPtr[s]].array = q[s].array
                      /\ pc'[s] = "level" =>
                           head[s] <= levelEnd[s] /\ levelEnd[s] <= q[s].len
    BY <1>1, <1>6 DEF Released, Holds, IsEmpty, Own, traversal
  <2>1. CASE s = r
    BY <2>1, <1>1, <1>5, <1>9 DEF PoolInv, Released
  <2>2. CASE s # r
    <3>1. qPtr[s] # p0 /\ qPtr[s] \in Live
      BY <2>2, <1>1, Reach DEF PoolInv, PointersAreExclusive
    <3>2. pointer'[qPtr[s]] = pointer[qPtr[s]] /\ pc'[s] = pc[s]
      BY <3>1, <2>2, <1>5, <1>8 DEF Active
    <3>3. QED  BY <3>2 DEF PoolInv, Released
  <2>3. QED  BY <2>1, <2>2
<1>15. QED
  BY <1>5, <1>7, <1>11, <1>12, <1>13, <1>14 DEF PoolInv

(* The pointer goes back with an array that is empty and its own.          *)
LEMMA PutStep ==
  ASSUME PoolInv, NEW r \in Requests, Put(r)
  PROVE  PoolInv'
<1> DEFINE p0 == qPtr[r]
<1>1. /\ TypeOK /\ pc[r] = "put" /\ r \in Active
      /\ UNCHANGED <<memory, pointer, q, traversal>> /\ GoTo(r, "done")
      /\ pool' = pool \union {p0}
  BY DEF PoolInv, Put, Active
<1>2. p0 \in Live /\ p0 \in Pointers
  BY <1>1, Reach
<1>3. /\ TypeOK' /\ Allocated' /\ pc'[r] = "done"
      /\ \A s \in Requests \ {r} : pc'[s] = pc[s]
  <2>1. /\ memory \in Seq(Seq(Values)) /\ pointer \in Seq(Slices)
        /\ pool' \subseteq Pointers
    BY <1>1, <1>2 DEF TypeOK, Values
  <2>2. \A p \in Pointers : pointer[p].array # 0
    BY DEF PoolInv, Allocated
  <2>3. QED  BY <1>1, <2>1, <2>2, ReleaseStep
<1>4. Active' = Active \ {r} /\ qPtr' = qPtr /\ q' = q
  BY <1>1, <1>3 DEF Active, traversal
<1>5. Live' = Live
  BY <1>1, <1>4 DEF Live
<1>6. \A s \in Active' : s \in Active /\ s # r /\ qPtr[s] # p0
  BY <1>1, <1>4 DEF PoolInv, PointersAreExclusive
<1>7. PointersAreExclusive'
  BY <1>1, <1>4, <1>6 DEF PoolInv, PointersAreExclusive
<1>8. pointer[p0].array = q[r].array /\ IsEmpty(memory, q[r].array)
  BY <1>1 DEF PoolInv, Released
<1>9. ArraysAreExclusive'
  BY <1>1, <1>4, <1>6, <1>8 DEF PoolInv, ArraysAreExclusive
<1>10. LiveArraysAreExclusive'
  BY <1>1, <1>4, <1>5, <1>6 DEF PoolInv, LiveArraysAreExclusive
<1>11. PooledArraysHoldNothing'
  BY <1>1, <1>8 DEF PoolInv, PooledArraysHoldNothing, IsEmpty
<1>12. Released'
  BY <1>1, <1>3, <1>4, <1>6 DEF PoolInv, Released, Holds, IsEmpty, Own, Active, traversal
<1>13. QED
  BY <1>3, <1>7, <1>9, <1>10, <1>11, <1>12 DEF PoolInv

(* What the collector drops nobody can reach any more.                     *)
LEMMA CollectStep ==
  PoolInv /\ Collect => PoolInv'
<1> SUFFICES ASSUME PoolInv, Collect PROVE PoolInv'
  OBVIOUS
<1>1. UNCHANGED <<memory, pointer, pc, q, traversal>> /\ pool' \subseteq pool
  BY DEF Collect
<1>2. Active' = Active
  BY <1>1 DEF Active
<1>3. Live' \subseteq Live
  BY <1>1, <1>2 DEF Live, traversal
<1>4. TypeOK' /\ Allocated'
  BY <1>1 DEF PoolInv, TypeOK, Allocated, Pointers, Slices, Arrays, traversal
<1>5. PointersAreExclusive' /\ ArraysAreExclusive' /\ PooledArraysHoldNothing'
  BY <1>1, <1>2 DEF PoolInv, PointersAreExclusive, ArraysAreExclusive,
     PooledArraysHoldNothing, traversal
<1>6. LiveArraysAreExclusive'
  BY <1>1, <1>2, <1>3 DEF PoolInv, LiveArraysAreExclusive, traversal
<1>7. Released'
  BY <1>1, <1>2 DEF PoolInv, Released, Holds, IsEmpty, Own, traversal
<1>8. QED
  BY <1>4, <1>5, <1>6, <1>7 DEF PoolInv

-----------------------------------------------------------------------------
(* The theorems.                                                           *)

(* The invariant holds in every state, whatever the requests, the trees and *)
(* the first capacity.                                                     *)
THEOREM PoolInvariance ==
  Spec => []PoolInv
<1>1. Init => PoolInv
  BY Initially
<1>2. PoolInv /\ [Next]_vars => PoolInv'
  <2> SUFFICES ASSUME PoolInv, [Next]_vars PROVE PoolInv'
    OBVIOUS
  <2>1. ASSUME NEW r \in Requests, Get(r) PROVE PoolInv'
    <3>1. CASE \E p \in pool : /\ pool' = pool \ {p}
                               /\ qPtr' = [qPtr EXCEPT ![r] = p]
                               /\ q' = [q EXCEPT ![r] = [pointer[p] EXCEPT !.len = 0]]
                               /\ UNCHANGED <<memory, pointer>>
      BY <2>1, <3>1, GetPooledStep DEF Get
    <3>2. CASE /\ memory' = Append(memory, EmptyArray(InitCap))
               /\ pointer' = Append(pointer, [array |-> Len(memory) + 1, len |-> 0])
               /\ qPtr' = [qPtr EXCEPT ![r] = Len(pointer) + 1]
               /\ q' = [q EXCEPT ![r] = [array |-> Len(memory) + 1, len |-> 0]]
               /\ UNCHANGED pool
      BY <2>1, <3>2, GetNewStep DEF Get
    <3>3. QED  BY <2>1, <3>1, <3>2 DEF Get
  <2>2. CASE UNCHANGED vars
    <3>1. TypeOK' /\ Allocated'
      BY <2>2 DEF vars, PoolInv, TypeOK, Allocated, Pointers, Slices, Arrays
    <3>2. PointersAreExclusive' /\ ArraysAreExclusive' /\ LiveArraysAreExclusive'
      BY <2>2 DEF vars, PoolInv, PointersAreExclusive, ArraysAreExclusive,
         LiveArraysAreExclusive, Pointers, Active, Live
    <3>3. PooledArraysHoldNothing'
      BY <2>2 DEF vars, PoolInv, PooledArraysHoldNothing
    <3>4. Released'
      BY <2>2 DEF vars, PoolInv, Released, Active, Live, Holds, IsEmpty, Own
    <3>5. QED  BY <3>1, <3>2, <3>3, <3>4 DEF PoolInv
  <2>3. QED
    BY <2>1, <2>2, RootStep, QuietStep, VisitStep, ClearStep, StoreStep, PutStep,
       CollectStep DEF Next
<1>3. QED
  BY <1>1, <1>2, PTL DEF Spec

(* Every slice fits in its array.                                          *)
THEOREM TypeCorrectness ==
  Spec => []TypeOK
BY PoolInvariance, PTL DEF PoolInv

(* Two traversals that are under way never work on the same backing array, *)
(* nor on one sync.Pool could hand out, though append moves a queue to     *)
(* another array while its pointer still points to the one it left.        *)
THEOREM ArraysAreNotShared ==
  Spec => []ArraysAreExclusive
BY PoolInvariance, PTL DEF PoolInv

(* releaseQueue leaves no node of a tree reachable from the pool.          *)
THEOREM PoolKeepsNothing ==
  Spec => []PooledArraysHoldNothing
BY PoolInvariance, PTL DEF PoolInv

(* Both at once: what a pool of arrays has to promise.                     *)
THEOREM PoolPromises ==
  Spec => []PoolIsSafe
BY ArraysAreNotShared, PoolKeepsNothing, PTL DEF PoolIsSafe

-----------------------------------------------------------------------------
(* One request, followed through its traversal.                            *)

(* Its counters agree with each other at each place of its loops, and it   *)
(* has an answer as soon as it leaves them.                                *)
MineInv ==
  /\ level \in Seq(Node) /\ result \in Seq(Seq(Node)) /\ totalNodes \in Nat
  /\ answer \in {"running", "done", "tooDeep", "tooMany"}
  /\ answer = "running" <=> pc[Mine] \in {"get", "root", "loop", "level"}
  /\ pc[Mine] \in {"get", "root"} =>
       /\ head[Mine] = 0 /\ levelEnd[Mine] = 0 /\ depth[Mine] = 0
       /\ totalNodes = 0 /\ result = <<>> /\ level = <<>>
  /\ pc[Mine] = "root" => q[Mine].len = 0
  /\ pc[Mine] \in {"loop", "level"} =>
       totalNodes = levelEnd[Mine] /\ depth[Mine] = Len(result)
  /\ pc[Mine] = "loop" => head[Mine] = levelEnd[Mine] /\ head[Mine] <= q[Mine].len

(* What the followed request sees is unchanged.                            *)
Undisturbed ==
  /\ pc'[Mine] = pc[Mine] /\ q'[Mine] = q[Mine] /\ tree' = tree
  /\ head'[Mine] = head[Mine] /\ levelEnd'[Mine] = levelEnd[Mine]
  /\ depth'[Mine] = depth[Mine]
  /\ pc[Mine] \in {"loop", "level"} =>
       memory'[q[Mine].array] = memory[q[Mine].array]

(* Every step of the followed request is one of the pool.                  *)
LEMMA RequestIsOfPool ==
  /\ RequestInit => Init
  /\ [RequestNext]_requestVars => [Next]_vars
BY RequestAssumption
   DEF RequestInit, RequestNext, requestVars, MyLoop, MyVisit, MyEndLevel, OthersStep, Next

(* Types of what the followed request works on.                            *)
LEMMA MineIs ==
  ASSUME PoolInv
  PROVE  /\ Mine \in Requests /\ tree[Mine] \in Trees /\ q[Mine] \in Slices
         /\ head[Mine] \in Nat /\ levelEnd[Mine] \in Nat /\ q[Mine].len \in Nat
         /\ depth[Mine] \in Nat
         /\ pc[Mine] \in {"get", "root", "loop", "level", "clear", "store", "put", "done"}
         /\ Mine \in Active <=> pc[Mine] \notin {"get", "done"}
BY RequestAssumption DEF PoolInv, TypeOK, Slices, Active

(* The others may append, clear and be handed arrays: never this one.      *)
LEMMA OthersDisturbNothing ==
  ASSUME PoolInv, NEW r \in Requests \ {Mine},
         Get(r) \/ Root(r) \/ Loop(r) \/ Visit(r) \/ EndLevel(r)
           \/ Clear(r) \/ Store(r) \/ Put(r)
  PROVE  Undisturbed
<1>1. TypeOK /\ Mine \in Requests /\ r # Mine
  BY RequestAssumption DEF PoolInv
<1>2. ASSUME pc[Mine] \in {"loop", "level"}
      PROVE  Mine \in Active /\ q[Mine].array \in Arrays
  BY <1>1, <1>2, Reach DEF Active
<1>3. CASE Get(r)
  <2>1. /\ pc'[Mine] = pc[Mine] /\ q'[Mine] = q[Mine]
        /\ UNCHANGED <<tree, head, levelEnd, depth>>
    <3>1. pc' = [pc EXCEPT ![r] = "root"]
      BY <1>3 DEF Get, GoTo
    <3>2. PICK x : q' = [q EXCEPT ![r] = x]
      BY <1>3 DEF Get
    <3>3. UNCHANGED <<tree, head, levelEnd, depth>>
      BY <1>3 DEF Get
    <3>4. QED  BY <1>1, <3>1, <3>2, <3>3 DEF TypeOK
  <2>2. memory' = memory \/ memory' = Append(memory, EmptyArray(InitCap))
    BY <1>3 DEF Get
  <2>3. \A a \in Arrays : memory'[a] = memory[a]
    <3>1. memory \in Seq(Seq(Values))
      BY <1>1 DEF TypeOK, Values
    <3>2. EmptyArray(InitCap) \in Seq(Values)
      BY DEF EmptyArray, Values
    <3>3. QED  BY <2>2, <3>1, <3>2, AppendProperties DEF Arrays
  <2>4. QED  BY <1>2, <2>1, <2>3 DEF Undisturbed
<1>4. ASSUME Grown(memory, q[r], memory', q'[r]), q' = [q EXCEPT ![r] = q'[r]],
             r \in Active,
             \E label \in {"loop", "level"} : GoTo(r, label),
             UNCHANGED <<tree, levelEnd, depth>>, head'[Mine] = head[Mine]
      PROVE  Undisturbed
  <2>1. pc'[Mine] = pc[Mine] /\ q'[Mine] = q[Mine]
    BY <1>1, <1>4 DEF GoTo, TypeOK
  <2>2. ASSUME pc[Mine] \in {"loop", "level"}
        PROVE  memory'[q[Mine].array] = memory[q[Mine].array]
    <3>1. q[Mine].array # q[r].array
      BY <1>1, <1>2, <1>4, <2>2 DEF PoolInv, ArraysAreExclusive
    <3>2. QED  BY <1>2, <1>4, <2>2, <3>1 DEF Grown, Arrays
  <2>3. QED  BY <1>4, <2>1, <2>2 DEF Undisturbed
<1>5. CASE Root(r)
  <2>1. /\ r \in Active /\ GoTo(r, "loop") /\ UNCHANGED <<tree, head, levelEnd, depth>>
    BY <1>5 DEF Root, traversal, Active
  <2>2. QED  BY <1>4, <1>5, <2>1, RootAppends
<1>6. CASE Visit(r)
  <2>1. /\ pc[r] = "level" /\ r \in Active /\ pc' = pc
        /\ head' = [head EXCEPT ![r] = @ + 1]
        /\ UNCHANGED <<tree, levelEnd, depth>>
    BY <1>6 DEF Visit, Active
  <2>2. GoTo(r, "level") /\ head'[Mine] = head[Mine]
    BY <1>1, <2>1 DEF TypeOK, GoTo
  <2>3. QED  BY <1>4, <1>6, <2>1, <2>2, VisitAppends
<1>7. CASE Loop(r) \/ EndLevel(r)
  <2>1. UNCHANGED <<memory, q, tree, head>>
    BY <1>7 DEF Loop, EndLevel
  <2>2. PICK label : pc' = [pc EXCEPT ![r] = label]
    BY <1>7 DEF Loop, EndLevel, GoTo
  <2>3. levelEnd'[Mine] = levelEnd[Mine] /\ depth'[Mine] = depth[Mine]
    BY <1>1, <1>7 DEF Loop, EndLevel, TypeOK
  <2>4. QED  BY <1>1, <2>1, <2>2, <2>3 DEF Undisturbed, TypeOK
<1>8. ASSUME r \in Active, UNCHANGED <<q, traversal>>,
             \E label \in {"store", "put", "done"} : GoTo(r, label),
             \A a \in Arrays : a # q[r].array => memory'[a] = memory[a]
      PROVE  Undisturbed
  <2>1. pc'[Mine] = pc[Mine]
    BY <1>1, <1>8 DEF GoTo, TypeOK
  <2>2. ASSUME pc[Mine] \in {"loop", "level"}
        PROVE  memory'[q[Mine].array] = memory[q[Mine].array]
    <3>1. q[Mine].array # q[r].array
      BY <1>1, <1>2, <1>8, <2>2 DEF PoolInv, ArraysAreExclusive
    <3>2. QED  BY <1>2, <1>8, <2>2, <3>1
  <2>3. QED  BY <1>8, <2>1, <2>2 DEF Undisturbed, traversal
<1>9. CASE Clear(r)
  <2>1. r \in Active /\ UNCHANGED <<q, traversal>> /\ GoTo(r, "store")
    BY <1>9 DEF Clear, Active
  <2>2. PICK new : memory' = [memory EXCEPT ![q[r].array] = new]
    BY <1>9 DEF Clear
  <2>3. memory \in Seq(Seq(Values))
    BY <1>1 DEF TypeOK, Values
  <2>4. \A a \in Arrays : a # q[r].array => memory'[a] = memory[a]
    BY <2>2, <2>3 DEF Arrays
  <2>5. QED  BY <1>8, <2>1, <2>4
<1>10. CASE Store(r)
  BY <1>8, <1>10 DEF Store, Active
<1>11. CASE Put(r)
  BY <1>8, <1>11 DEF Put, Active
<1>12. QED  BY <1>3, <1>5, <1>6, <1>7, <1>9, <1>10, <1>11

(* The slots from head on hold nodes of its own tree.                      *)
LEMMA QueuedIs ==
  ASSUME PoolInv, pc[Mine] \in {"loop", "level"}, head[Mine] <= q[Mine].len
  PROVE  /\ Queued \in Seq(Node) /\ Len(Queued) = q[Mine].len - head[Mine]
         /\ \A k \in 1..(q[Mine].len - head[Mine]) :
              /\ memory[q[Mine].array][head[Mine] + k] \in Own(Mine)
              /\ Queued[k] = memory[q[Mine].array][head[Mine] + k][2]
<1> DEFINE n == q[Mine].len - head[Mine]
<1>1. /\ Mine \in Active /\ head[Mine] \in Nat /\ q[Mine].len \in Nat /\ n \in Nat
      /\ q[Mine].array \in Arrays /\ Len(memory[q[Mine].array]) \in Nat
  BY MineIs, Reach
<1>2. Holds(memory, q[Mine], Own(Mine))
  BY <1>1 DEF PoolInv, Released
<1>3. ASSUME NEW k \in 1..n
      PROVE  memory[q[Mine].array][head[Mine] + k] \in Own(Mine)
  <2> DEFINE h == head[Mine]
             len == q[Mine].len
             array == memory[q[Mine].array]
  <2>1. /\ h \in Nat /\ len \in Nat /\ k \in 1..(len - h) /\ len <= Len(array)
        /\ Len(array) \in Nat
    BY <1>1, <1>2 DEF Holds
  <2>2. \A j \in 1..Len(array) : j <= len => array[j] \in Own(Mine)
    BY <1>2 DEF Holds
  <2> HIDE DEF n, h, len, array
  <2>3. h + k \in 1..Len(array) /\ h + k <= len
    BY <2>1
  <2>4. array[h + k] \in Own(Mine)
    BY <2>2, <2>3
  <2>5. QED  BY <2>4 DEF h, array
<1>4. \A k \in 1..n : NodeAt(k) \in Node
  BY <1>3 DEF NodeAt, Own
<1>5. Queued \in Seq(Node) /\ Len(Queued) = n
  BY <1>1, <1>4 DEF Queued
<1>6. \A k \in 1..n : Queued[k] = memory[q[Mine].array][head[Mine] + k][2]
  BY DEF Queued, NodeAt
<1>7. QED  BY <1>3, <1>5, <1>6

(* What the request sees determines its queue.                             *)
LEMMA UndisturbedQueue ==
  ASSUME PoolInv, MineInv, Undisturbed, UNCHANGED locals
  PROVE  MineInv' /\ UNCHANGED Alone!vars
<1>1. UNCHANGED <<result, level, totalNodes, answer, left>>
  BY DEF locals
<1>2. MineInv'
  BY <1>1 DEF MineInv, Undisturbed
<1>3. Pending' = Pending
  <2>1. pc[Mine] \in {"loop", "level"} => Queued' = Queued
    BY DEF Queued, NodeAt, Undisturbed
  <2>2. QED  BY <1>1, <2>1 DEF Pending, Undisturbed
<1>4. QED  BY <1>1, <1>2, <1>3 DEF Alone!vars, Undisturbed

(* The root is the whole queue, whatever array it went to.                 *)
LEMMA MyRootStep ==
  ASSUME PoolInv, PoolInv', MineInv, Root(Mine), UNCHANGED locals
  PROVE  MineInv' /\ UNCHANGED Alone!vars
<1>1. /\ pc[Mine] = "root" /\ pc'[Mine] = "loop"
      /\ UNCHANGED <<tree, head, levelEnd, depth>>
  BY MineIs DEF PoolInv, TypeOK, Root, GoTo, traversal
<1>2. UNCHANGED <<result, level, totalNodes, answer, left>>
  BY DEF locals
<1>3. /\ head[Mine] = 0 /\ levelEnd[Mine] = 0 /\ depth[Mine] = 0 /\ totalNodes = 0
      /\ result = <<>> /\ q[Mine].len = 0 /\ answer = "running"
  BY <1>1 DEF MineInv
<1>4. Extended(memory, q[Mine], <<Pointer(Mine, tree[Mine].root)>>, memory', q'[Mine])
  BY MineIs, RootAppends
<1>5. q'[Mine].len = 1 /\ memory'[q'[Mine].array][1] = <<Mine, tree[Mine].root>>
  BY <1>3, <1>4 DEF Extended, Pointer
<1>6. MineInv'
  BY <1>1, <1>2, <1>3, <1>5 DEF MineInv
<1>7. Queued' = <<tree[Mine].root>>
  <2>1. Queued' = [k \in 1..1 |-> NodeAt(k)']
    BY <1>1, <1>3, <1>5 DEF Queued
  <2>2. NodeAt(1)' = tree[Mine].root
    BY <1>1, <1>3, <1>5 DEF NodeAt
  <2>3. QED  BY <2>1, <2>2
<1>8. Pending = <<tree[Mine].root>> /\ Pending' = <<tree[Mine].root>>
  BY <1>1, <1>7 DEF Pending
<1>9. QED  BY <1>1, <1>2, <1>3, <1>6, <1>8 DEF Alone!vars

(* The queue is handed out and given back around the traversal.            *)
LEMMA MyPoolStep ==
  ASSUME PoolInv, MineInv, UNCHANGED locals,
         Get(Mine) \/ Clear(Mine) \/ Store(Mine) \/ Put(Mine)
  PROVE  MineInv' /\ UNCHANGED Alone!vars
<1>1. UNCHANGED <<result, level, totalNodes, answer, left>>
  BY DEF locals
<1>2. CASE Get(Mine)
  <2>1. /\ pc[Mine] = "get" /\ pc'[Mine] = "root"
        /\ UNCHANGED <<tree, head, levelEnd, depth>>
    BY <1>2, MineIs DEF PoolInv, TypeOK, Get, GoTo
  <2>2. q'[Mine].len = 0
    <3>1. q \in [Requests -> Slices] /\ pointer \in Seq(Slices) /\ pool \subseteq Pointers
      BY DEF PoolInv, TypeOK
    <3>2. CASE \E p \in pool : q' = [q EXCEPT ![Mine] = [pointer[p] EXCEPT !.len = 0]]
      <4>1. PICK p \in pool : q' = [q EXCEPT ![Mine] = [pointer[p] EXCEPT !.len = 0]]
        BY <3>2
      <4>2. pointer[p] \in Slices
        BY Reach
      <4>3. [pointer[p] EXCEPT !.len = 0].len = 0
        BY <4>2 DEF Slices
      <4>4. QED  BY <3>1, <4>1, <4>3, MineIs
    <3>3. CASE q' = [q EXCEPT ![Mine] = [array |-> Len(memory) + 1, len |-> 0]]
      BY <3>1, <3>3, MineIs
    <3>4. QED  BY <1>2, <3>2, <3>3 DEF Get
  <2>3. MineInv'
    BY <1>1, <2>1, <2>2 DEF MineInv
  <2>4. Pending' = Pending
    BY <2>1 DEF Pending
  <2>5. QED  BY <1>1, <2>1, <2>3, <2>4 DEF Alone!vars, MineInv
<1>3. CASE Clear(Mine) \/ Store(Mine) \/ Put(Mine)
  <2>1. /\ pc[Mine] \in {"clear", "store", "put"} /\ pc'[Mine] \in {"store", "put", "done"}
        /\ UNCHANGED <<tree, head, levelEnd, depth, q>>
    BY <1>3, MineIs DEF PoolInv, TypeOK, Clear, Store, Put, GoTo, traversal
  <2>2. MineInv'
    BY <1>1, <2>1 DEF MineInv
  <2>3. Pending' = Pending
    BY <1>1, <2>1 DEF Pending
  <2>4. answer # "running"
    BY <2>1 DEF MineInv
  <2>5. QED  BY <1>1, <2>1, <2>2, <2>3, <2>4 DEF Alone!vars
<1>4. QED  BY <1>2, <1>3

(* Steps that the deque does not know of.                                  *)
LEMMA OthersStutter ==
  ASSUME PoolInv, PoolInv', MineInv, OthersStep
  PROVE  MineInv' /\ UNCHANGED Alone!vars
<1>1. UNCHANGED locals
  BY DEF OthersStep
<1>2. CASE Collect
  <2>1. Undisturbed
    BY <1>2 DEF Collect, Undisturbed, traversal
  <2>2. QED  BY <1>1, <2>1, UndisturbedQueue
<1>3. ASSUME NEW r \in Requests \ {Mine},
             Get(r) \/ Root(r) \/ Loop(r) \/ Visit(r) \/ EndLevel(r)
               \/ Clear(r) \/ Store(r) \/ Put(r)
      PROVE  MineInv' /\ UNCHANGED Alone!vars
  BY <1>1, <1>3, OthersDisturbNothing, UndisturbedQueue
<1>4. QED  BY <1>1, <1>2, <1>3, MyRootStep, MyPoolStep DEF OthersStep

(* The limits are tested on its own counters, and the pool goes on as they *)
(* say: to another level, or to the release.                               *)
LEMMA MyLoopStep ==
  ASSUME PoolInv, MineInv, MyLoop
  PROVE  MineInv' /\ Alone!Next
<1> DEFINE n == q[Mine].len - head[Mine]
<1>1. /\ pc[Mine] = "loop" /\ answer = "running"
      /\ head[Mine] = levelEnd[Mine] /\ head[Mine] <= q[Mine].len
      /\ totalNodes = levelEnd[Mine] /\ depth[Mine] = Len(result)
  BY DEF MyLoop, Loop, MineInv
<1>2. /\ head[Mine] \in Nat /\ levelEnd[Mine] \in Nat /\ q[Mine].len \in Nat /\ n \in Nat
      /\ Mine \in Requests /\ Len(result) \in Nat
  BY <1>1, MineIs DEF MineInv
<1>3. Queued \in Seq(Node) /\ Len(Queued) = n
  BY <1>1, QueuedIs
<1>4. /\ UNCHANGED <<memory, tree, q, head, depth, result>> /\ left' = Queued
  BY DEF MyLoop, Loop
<1>5. Pending = Queued
  BY <1>1 DEF Pending
<1>6. Queued' = Queued
  BY <1>4 DEF Queued, NodeAt
<1>7. /\ pc \in [Requests -> {"get", "root", "loop", "level", "clear", "store", "put", "done"}]
      /\ levelEnd \in [Requests -> Nat]
  BY DEF PoolInv, TypeOK
<1>8. ASSUME ~(head[Mine] < q[Mine].len /\ depth[Mine] < MaxDepth /\ q[Mine].len <= MaxNodes)
      PROVE  levelEnd' = levelEnd /\ pc'[Mine] = "clear" /\ Pending' = Queued
  <2>1. levelEnd' = levelEnd /\ pc'[Mine] = "clear"
    BY <1>2, <1>7, <1>8 DEF MyLoop, Loop, GoTo
  <2>2. QED  BY <1>4, <2>1 DEF Pending
<1>9. ASSUME head[Mine] < q[Mine].len /\ depth[Mine] < MaxDepth /\ q[Mine].len <= MaxNodes
      PROVE  levelEnd'[Mine] = q[Mine].len /\ pc'[Mine] = "level" /\ Pending' = Queued
  <2>1. levelEnd'[Mine] = q[Mine].len /\ pc'[Mine] = "level"
    BY <1>2, <1>7, <1>9 DEF MyLoop, Loop, GoTo
  <2>2. QED  BY <1>6, <2>1 DEF Pending
<1>10. Queued = <<>> <=> n = 0
  BY <1>3
<1> HIDE DEF n
<1>11. CASE head[Mine] >= q[Mine].len
  <2>1. answer' = "done" /\ UNCHANGED <<level, totalNodes>>
    BY <1>2, <1>11 DEF MyLoop
  <2>2. /\ levelEnd' = levelEnd /\ pc'[Mine] = "clear" /\ Pending' = Queued
    BY <1>2, <1>8, <1>11
  <2>3. MineInv'
    BY <1>4, <2>1, <2>2 DEF MineInv
  <2>4. Queued = <<>>
    BY <1>2, <1>1, <1>10, <1>11 DEF n
  <2>5. QED
    BY <1>1, <1>4, <1>5, <2>1, <2>2, <2>3, <2>4 DEF Alone!Next, Alone!Return
<1>12. CASE head[Mine] < q[Mine].len /\ Len(result) >= MaxDepth
  <2>1. answer' = "tooDeep" /\ UNCHANGED <<level, totalNodes>>
    BY <1>2, <1>12 DEF MyLoop
  <2>2. /\ levelEnd' = levelEnd /\ pc'[Mine] = "clear" /\ Pending' = Queued
    BY <1>1, <1>2, <1>8, <1>12
  <2>3. MineInv'
    BY <1>4, <2>1, <2>2 DEF MineInv
  <2>4. Queued # <<>>
    BY <1>2, <1>10, <1>12 DEF n
  <2>5. QED
    BY <1>1, <1>4, <1>5, <1>12, <2>1, <2>2, <2>3, <2>4
       DEF Alone!Next, Alone!TooDeep, Alone!DepthReached
<1>13. CASE head[Mine] < q[Mine].len /\ Len(result) < MaxDepth
  <2>1. totalNodes' = totalNodes + n /\ totalNodes' = q[Mine].len
    <3>1. totalNodes' = totalNodes + n
      BY <1>2, <1>13 DEF MyLoop, n
    <3>2. QED  BY <1>1, <1>2, <3>1 DEF n
  <2>2. Queued # <<>> /\ ~Alone!DepthReached
    <3>1. Queued # <<>>
      BY <1>2, <1>10, <1>13 DEF n
    <3>2. QED  BY <1>2, <1>13, <3>1 DEF Alone!DepthReached
  <2>3. CASE totalNodes' > MaxNodes
    <3>1. answer' = "tooMany" /\ level' = level
      BY <1>2, <1>13, <2>3 DEF MyLoop
    <3>2. /\ levelEnd' = levelEnd /\ pc'[Mine] = "clear" /\ Pending' = Queued
      BY <1>2, <1>8, <2>1, <2>3
    <3>3. MineInv'
      BY <1>2, <1>4, <2>1, <3>1, <3>2 DEF MineInv
    <3>4. QED
      BY <1>1, <1>3, <1>4, <1>5, <2>1, <2>2, <2>3, <3>1, <3>2, <3>3
         DEF Alone!Next, Alone!StartLevel, Alone!NodesExceeded
  <2>4. CASE ~(totalNodes' > MaxNodes)
    <3>1. answer' = answer /\ level' = <<>>
      BY <1>2, <1>13, <2>4 DEF MyLoop
    <3>2. /\ levelEnd'[Mine] = q[Mine].len /\ pc'[Mine] = "level" /\ Pending' = Queued
      BY <1>1, <1>2, <1>9, <1>13, <2>1, <2>4
    <3>3. MineInv'
      BY <1>1, <1>2, <1>4, <2>1, <3>1, <3>2 DEF MineInv
    <3>4. levelEnd'[Mine] - head'[Mine] = Len(Queued)
      BY <1>3, <1>4, <3>2 DEF n
    <3>5. QED
      BY <1>1, <1>3, <1>4, <1>5, <2>1, <2>2, <2>4, <3>1, <3>2, <3>3, <3>4
         DEF Alone!Next, Alone!StartLevel, Alone!NodesExceeded
  <2>5. QED  BY <2>3, <2>4
<1>14. QED  BY <1>2, <1>11, <1>12, <1>13

(* A level that was read joins the result.                                 *)
LEMMA MyEndLevelStep ==
  ASSUME PoolInv, MineInv, MyEndLevel
  PROVE  MineInv' /\ Alone!Next
<1>1. /\ pc[Mine] = "level" /\ pc'[Mine] = "loop" /\ answer = "running"
      /\ head[Mine] = levelEnd[Mine] /\ depth'[Mine] = depth[Mine] + 1
      /\ UNCHANGED <<memory, tree, q, head, levelEnd, level, totalNodes, answer, left>>
      /\ result' = Append(result, level)
  BY MineIs DEF MyEndLevel, EndLevel, MineInv, PoolInv, TypeOK, GoTo
<1>2. head[Mine] <= q[Mine].len
  BY <1>1, MineIs DEF PoolInv, Released
<1>3. result' \in Seq(Seq(Node)) /\ Len(result') = Len(result) + 1
  BY <1>1, AppendProperties DEF MineInv
<1>4. MineInv'
  BY <1>1, <1>2, <1>3 DEF MineInv
<1>5. Queued' = Queued
  BY <1>1 DEF Queued, NodeAt
<1>6. Pending = Queued /\ Pending' = Queued
  BY <1>1, <1>5 DEF Pending
<1>7. levelEnd[Mine] - head[Mine] = 0
  BY <1>1, MineIs
<1>8. QED
  BY <1>1, <1>4, <1>6, <1>7 DEF Alone!Next, Alone!EndLevel

(* Two sequences put together, slot by slot, and a sequence as a function. *)
LEMMA Joined ==
  ASSUME NEW S, NEW t \in Seq(S), NEW cs \in Seq(S)
  PROVE  /\ \A k \in 1..(Len(t) + Len(cs)) :
              (t \o cs)[k] = IF k <= Len(t) THEN t[k] ELSE cs[k - Len(t)]
         /\ t \o cs = [k \in 1..(Len(t) + Len(cs)) |-> (t \o cs)[k]]
<1>1. /\ t \o cs \in Seq(S) /\ Len(t \o cs) = Len(t) + Len(cs)
      /\ \A k \in 1..(Len(t) + Len(cs)) :
           (t \o cs)[k] = IF k <= Len(t) THEN t[k] ELSE cs[k - Len(t)]
  BY ConcatProperties
<1>2. ASSUME NEW s \in Seq(S)
      PROVE  s = [k \in 1..Len(s) |-> s[k]]
  BY LenProperties
<1>3. t \o cs = [k \in 1..Len(t \o cs) |-> (t \o cs)[k]]
  BY <1>1, <1>2
<1>4. QED  BY <1>1, <1>3

(* The slots from head on lose their first and gain its children.          *)
LEMMA QueueAdvances ==
  ASSUME PoolInv, MineInv, Visit(Mine)
  PROVE  /\ Queued # <<>> /\ Head(Queued) = NodeAt(1) /\ NodeAt(1) \in Node
         /\ Queued' = Tail(Queued) \o Children(tree[Mine], Head(Queued))
<1> DEFINE n == q[Mine].len - head[Mine]
           node == memory[q[Mine].array][head[Mine] + 1]
           cs == Children(tree[Mine], node[2])
           xs == ChildPointers(node)
           t == Tail(Queued)
<1>1. /\ pc[Mine] = "level" /\ head[Mine] < levelEnd[Mine]
      /\ levelEnd[Mine] <= q[Mine].len /\ head'[Mine] = head[Mine] + 1
  BY MineIs DEF Visit, PoolInv, Released, TypeOK
<1>2. /\ head[Mine] \in Nat /\ q[Mine].len \in Nat /\ n \in Nat \ {0}
      /\ head[Mine] <= q[Mine].len /\ tree[Mine] \in Trees /\ Mine \in Requests
  BY <1>1, MineIs
<1>3. /\ Queued \in Seq(Node) /\ Len(Queued) = n
      /\ \A k \in 1..n : Queued[k] = memory[q[Mine].array][head[Mine] + k][2]
  BY <1>1, <1>2, QueuedIs
<1>4. /\ node \in Own(Mine)
      /\ Extended(memory, q[Mine], xs, memory', q'[Mine])
  BY <1>2, VisitAppends
<1>5. /\ cs \in Seq(Node) /\ Len(xs) = Len(cs) /\ Len(cs) \in Nat
      /\ \A k \in 1..Len(cs) : xs[k] = <<Mine, cs[k]>>
  <2>1. Mine \in Requests /\ tree[Mine] \in Trees /\ node \in Own(Mine)
    BY <1>2, <1>4
  <2> HIDE DEF node
  <2>2. /\ cs \in Seq(Node) /\ Len(xs) = Len(cs)
        /\ \A k \in 1..Len(cs) : xs[k] = <<Mine, cs[k]>>
    BY <2>1, ChildPointersAre
  <2>3. QED  BY <2>2, LenProperties
<1>6. Queued # <<>> /\ Head(Queued) = node[2] /\ NodeAt(1) = node[2] /\ node[2] \in Node
  <2>1. Queued # <<>> /\ Head(Queued) = Queued[1] /\ 1 \in 1..n
    BY <1>2, <1>3
  <2>2. Queued[1] = node[2]
    BY <1>3, <2>1
  <2>3. NodeAt(1) = node[2]
    BY DEF NodeAt
  <2>4. QED  BY <1>4, <2>1, <2>2, <2>3 DEF Own
<1>7. /\ t \in Seq(Node) /\ Len(t) = n - 1 /\ \A k \in 1..(n - 1) : t[k] = Queued[k + 1]
  BY <1>3, <1>6, HeadTailProperties
<1>8. \A k \in 1..(n - 1) : t[k] = memory[q[Mine].array][head[Mine] + (k + 1)][2]
  <2>1. ASSUME NEW k \in 1..(n - 1)
        PROVE  k + 1 \in 1..n
    BY <1>2
  <2>2. QED  BY <1>3, <1>7, <2>1
<1>9. /\ q'[Mine].len = q[Mine].len + Len(cs)
      /\ \A k \in 1..q[Mine].len : memory'[q'[Mine].array][k] = memory[q[Mine].array][k]
      /\ \A k \in 1..Len(cs) : memory'[q'[Mine].array][q[Mine].len + k][2] = cs[k]
  <2>1. /\ q'[Mine].len = q[Mine].len + Len(cs)
        /\ \A k \in 1..q[Mine].len : memory'[q'[Mine].array][k] = memory[q[Mine].array][k]
        /\ \A k \in 1..Len(cs) : memory'[q'[Mine].array][q[Mine].len + k] = xs[k]
    <3> HIDE DEF cs, xs
    <3>1. QED  BY <1>4, <1>5 DEF Extended
  <2>2. \A k \in 1..Len(cs) : xs[k][2] = cs[k]
    <3> HIDE DEF cs, xs
    <3>1. QED  BY <1>5
  <2> HIDE DEF cs, xs
  <2>3. QED  BY ONLY <2>1, <2>2
<1>10. [k \in 1..((q[Mine].len + Len(cs)) - (head[Mine] + 1)) |->
          memory'[q'[Mine].array][(head[Mine] + 1) + k][2]] = t \o cs
  <2> DEFINE h == head[Mine]
             len == q[Mine].len
             old == memory[q[Mine].array]
             new == memory'[q'[Mine].array]
  <2>1. h \in Nat /\ len \in Nat /\ h < len
    BY <1>1, <1>2, MineIs
  <2>2. /\ t \in Seq(Node) /\ cs \in Seq(Node) /\ Len(t) = (len - h) - 1
        /\ \A k \in 1..((len - h) - 1) : t[k] = old[h + (k + 1)][2]
    BY <1>5, <1>7, <1>8
  <2>3. /\ \A k \in 1..len : new[k] = old[k]
        /\ \A k \in 1..Len(cs) : new[len + k][2] = cs[k]
    BY <1>9
  <2> HIDE DEF n, node, cs, xs, t, h, len, old, new
  <2>4. [k \in 1..((len + Len(cs)) - (h + 1)) |-> new[(h + 1) + k][2]] = t \o cs
    <3>1. PICK m \in Nat : m = (len - h) - 1
      BY <2>1
    <3>2. PICK c \in Nat : c = Len(cs)
      BY <2>2, LenProperties
    <3>3. /\ t \o cs = [k \in 1..(m + c) |-> (t \o cs)[k]]
          /\ \A k \in 1..(m + c) : (t \o cs)[k] = IF k <= m THEN t[k] ELSE cs[k - m]
      <4>1. /\ t \o cs = [k \in 1..(Len(t) + Len(cs)) |-> (t \o cs)[k]]
            /\ \A k \in 1..(Len(t) + Len(cs)) :
                 (t \o cs)[k] = IF k <= Len(t) THEN t[k] ELSE cs[k - Len(t)]
        BY <2>2, Joined
      <4>2. Len(t) = m /\ Len(cs) = c
        BY <2>2, <3>1, <3>2
      <4>3. QED  BY ONLY <4>1, <4>2
    <3>4. (len + c) - (h + 1) = m + c
      BY <2>1, <3>1
    <3>5. ASSUME NEW k \in 1..(m + c)
          PROVE  new[(h + 1) + k][2] = (t \o cs)[k]
      <4>1. CASE k <= m
        <5>1. k \in 1..m /\ (h + 1) + k \in 1..len /\ (h + 1) + k = h + (k + 1)
          BY <2>1, <3>1, <4>1
        <5>2. new[(h + 1) + k] = old[h + (k + 1)]
          BY <2>3, <5>1
        <5>3. t[k] = old[h + (k + 1)][2]
          BY <2>2, <3>1, <5>1
        <5>4. (t \o cs)[k] = t[k]
          BY <3>3, <4>1
        <5>5. QED  BY <5>2, <5>3, <5>4
      <4>2. CASE ~(k <= m)
        <5>1. k - m \in 1..c /\ (h + 1) + k = len + (k - m)
          BY <2>1, <3>1, <4>2
        <5>2. new[len + (k - m)][2] = cs[k - m]
          BY <2>3, <3>2, <5>1
        <5>3. (t \o cs)[k] = cs[k - m]
          BY <3>3, <4>2
        <5>4. QED  BY <5>1, <5>2, <5>3
      <4>3. QED  BY <4>1, <4>2
    <3>6. [k \in 1..(m + c) |-> new[(h + 1) + k][2]] = [k \in 1..(m + c) |-> (t \o cs)[k]]
      BY <3>5
    <3>7. QED  BY <3>2, <3>3, <3>4, <3>6
  <2>5. QED  BY <2>4 DEF h, len, old, new
<1>11. Queued' = t \o cs
  BY <1>1, <1>9, <1>10 DEF Queued, NodeAt
<1>12. QED  BY <1>6, <1>11

(* A node is read and its children are queued.                             *)
LEMMA MyVisitStep ==
  ASSUME PoolInv, MineInv, MyVisit
  PROVE  MineInv' /\ Alone!Next
<1>1. /\ pc[Mine] = "level" /\ pc' = pc /\ answer = "running"
      /\ head[Mine] < levelEnd[Mine] /\ head'[Mine] = head[Mine] + 1
      /\ UNCHANGED <<tree, levelEnd, depth, result, totalNodes, answer, left>>
      /\ level' = Append(level, NodeAt(1)) /\ Visit(Mine)
  BY MineIs DEF MyVisit, Visit, MineInv, PoolInv, TypeOK
<1>2. /\ Queued # <<>> /\ Head(Queued) = NodeAt(1) /\ NodeAt(1) \in Node
      /\ Queued' = Tail(Queued) \o Children(tree[Mine], Head(Queued))
  BY <1>1, QueueAdvances
<1>3. level' \in Seq(Node)
  BY <1>1, <1>2, AppendProperties DEF MineInv
<1>4. MineInv'
  BY <1>1, <1>3 DEF MineInv
<1>5. Pending = Queued /\ Pending' = Queued'
  BY <1>1 DEF Pending
<1>6. /\ levelEnd[Mine] - head[Mine] > 0
      /\ levelEnd'[Mine] - head'[Mine] = (levelEnd[Mine] - head[Mine]) - 1
  BY <1>1, MineIs
<1>7. Alone!Children(tree[Mine], Head(Queued)) = Children(tree[Mine], Head(Queued))
  BY DEF Alone!Children, Children
<1>8. QED
  BY <1>1, <1>2, <1>4, <1>5, <1>6, <1>7 DEF Alone!Next, Alone!Visit

(* The invariant of the followed request holds in every state.             *)
LEMMA MineInvariance ==
  RequestSpec => []MineInv
<1>1. RequestInit => MineInv
  BY RequestAssumption DEF RequestInit, Init, MineInv
<1>2. PoolInv /\ PoolInv' /\ MineInv /\ [RequestNext]_requestVars => MineInv'
  <2>1. ASSUME UNCHANGED requestVars, MineInv
        PROVE  MineInv'
    BY <2>1 DEF requestVars, vars, locals, MineInv
  <2>2. QED
    BY <2>1, MyLoopStep, MyVisitStep, MyEndLevelStep, OthersStutter DEF RequestNext
<1>3. RequestSpec => Spec
  BY RequestIsOfPool, PTL DEF RequestSpec, Spec
<1>4. QED
  BY <1>1, <1>2, <1>3, PoolInvariance, PTL DEF RequestSpec

(* Each request behaves as if its queue were its own: what others do with  *)
(* their arrays, with the pool and with the arrays it left behind is, to   *)
(* it, no step at all.  For any number of requests and any overlap.        *)
THEOREM Refinement ==
  RequestSpec => ImplementsAlone
<1>1. RequestInit => Alone!Init
  <2> SUFFICES ASSUME RequestInit PROVE Alone!Init
    OBVIOUS
  <2>1. /\ tree[Mine] \in Trees /\ pc[Mine] = "get"
        /\ levelEnd[Mine] = 0 /\ head[Mine] = 0
    BY RequestAssumption DEF RequestInit, Init
  <2>2. QED  BY <2>1 DEF RequestInit, Pending, Alone!Init
<1>2. PoolInv /\ PoolInv' /\ MineInv /\ [RequestNext]_requestVars
        => [Alone!Next]_(Alone!vars)
  <2>1. ASSUME UNCHANGED requestVars
        PROVE  UNCHANGED Alone!vars
    BY <2>1 DEF requestVars, vars, traversal, locals, Alone!vars, Pending, Queued, NodeAt
  <2>2. QED
    BY <2>1, MyLoopStep, MyVisitStep, MyEndLevelStep, OthersStutter DEF RequestNext
<1>3. RequestSpec => Spec
  BY RequestIsOfPool, PTL DEF RequestSpec, Spec
<1>4. QED
  BY <1>1, <1>2, <1>3, PoolInvariance, MineInvariance, PTL
     DEF RequestSpec, ImplementsAlone, Alone!Spec

(* What is proved of the deque holds of the slots it stands for. *)
Proved == INSTANCE LevelOrderProofs WITH
            tree <- tree[Mine],
            queue <- Pending,
            remaining <- levelEnd[Mine] - head[Mine],
            levelValues <- level,
            status <- IF answer # "running" THEN answer
                      ELSE IF pc[Mine] = "level" THEN "level" ELSE "loop"

(* The deque that the slots implement is the one the theorems are about.   *)
LEMMA SameAlone ==
  /\ Alone!Init => Proved!Init
  /\ [Alone!Next]_(Alone!vars) => [Proved!Next]_(Proved!vars)
<1>1. Alone!Init => Proved!Init
  BY DEF Alone!Init, Proved!Init
<1>2. [Alone!Next]_(Alone!vars) => [Proved!Next]_(Proved!vars)
  BY DEF Alone!Next, Proved!Next, Alone!vars, Proved!vars,
     Alone!TooDeep, Proved!TooDeep, Alone!DepthReached, Proved!DepthReached,
     Alone!StartLevel, Proved!StartLevel, Alone!NodesExceeded, Proved!NodesExceeded,
     Alone!Visit, Proved!Visit, Alone!EndLevel, Proved!EndLevel,
     Alone!Return, Proved!Return, Alone!Children, Proved!Children
<1>3. QED  BY <1>1, <1>2

(* What a request returns is the levels of its own tree, in order and      *)
(* complete, or the refusal that this tree calls for: whatever arrays the  *)
(* pool hands it, and whatever the other requests do with theirs.          *)
THEOREM AnswersAreOwn ==
  RequestSpec => []OwnAnswer
<1>1. Alone!LevelsInOrder <=> Proved!LevelsInOrder
  BY DEF Alone!LevelsInOrder, Proved!LevelsInOrder, Alone!RankIncreasing,
     Proved!RankIncreasing, Alone!Range, Proved!Range
<1>2. Alone!NothingMissed <=> Proved!NothingMissed
  BY DEF Alone!NothingMissed, Proved!NothingMissed, Alone!Read, Proved!Read,
     Alone!ReadLevels, Proved!ReadLevels, Alone!Range, Proved!Range,
     Alone!Offspring, Proved!Offspring
<1>3. Alone!AnswersAreExact <=> Proved!AnswersAreExact
  BY DEF Alone!AnswersAreExact, Proved!AnswersAreExact,
     Alone!ReadLevels, Proved!ReadLevels, Alone!Range, Proved!Range,
     Alone!NodesOf, Proved!NodesOf, Alone!ClosedIn, Proved!ClosedIn,
     Alone!Offspring, Proved!Offspring, Alone!DownTo, Proved!DownTo,
     Alone!MoreThan, Proved!MoreThan, Alone!Cardinality, Proved!Cardinality,
     Alone!IsFiniteSet, Proved!IsFiniteSet
<1>4. /\ Proved!Spec => []Proved!LevelsInOrder
      /\ Proved!Spec => []Proved!NothingMissed
      /\ Proved!Spec => []Proved!AnswersAreExact
  BY Proved!LevelsComeInOrder, Proved!NoNodeMissed, Proved!AnswersComeFromTrees,
     NullAssumption, LimitsAssumption, TreesAssumption
     DEF IsLevelOrdered, Proved!IsLevelOrdered, Offspring, Proved!Offspring
<1>5. QED
  BY SameAlone, <1>1, <1>2, <1>3, <1>4, Refinement, PTL
     DEF ImplementsAlone, OwnAnswer, Alone!Spec, Proved!Spec

(* The request that is followed is one of the pool's: what is proved of    *)
(* the pool holds around it.                                               *)
THEOREM PoolPromisesToEach ==
  RequestSpec => [](TypeOK /\ PoolIsSafe)
<1>1. RequestSpec => Spec
  BY RequestIsOfPool, PTL DEF RequestSpec, Spec
<1>2. QED
  BY <1>1, TypeCorrectness, PoolPromises, PTL
=============================================================================
