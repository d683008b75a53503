-------------------------- MODULE WorkerPoolProofs ---------------------------
(***************************************************************************)
(* Proofs about WorkerPool, for any number of threads and of calls, any    *)
(* set of threads that may die and destroy() at any moment.                *)
(***************************************************************************)
EXTENDS WorkerPool, SequenceTheorems, FiniteSetTheorems, TLAPS

-----------------------------------------------------------------------------
(* Facts on sequences without repetitions. *)

(* Appending a new element keeps a sequence free of repetitions. *)
LEMMA AppendNew ==
  ASSUME NEW S, NEW s \in Seq(S), IsInjective(s), NEW e \in S, e \notin Range(s)
  PROVE  /\ Append(s, e) \in Seq(S)
         /\ IsInjective(Append(s, e))
         /\ Range(Append(s, e)) = Range(s) \union {e}
         /\ Append(s, e) # <<>>
  BY DEF IsInjective, Range

(* The tail of a sequence without repetitions is what is left of it. *)
LEMMA TailRest ==
  ASSUME NEW S, NEW s \in Seq(S), IsInjective(s), s # <<>>
  PROVE  /\ Tail(s) \in Seq(S)
         /\ Head(s) \in S
         /\ Head(s) \in Range(s)
         /\ IsInjective(Tail(s))
         /\ Range(Tail(s)) = Range(s) \ {Head(s)}
<1>1. /\ Len(s) \in Nat \ {0}
      /\ DOMAIN s = 1..Len(s)
      /\ Head(s) = s[1]
      /\ Tail(s) \in Seq(S)
      /\ DOMAIN Tail(s) = 1..(Len(s) - 1)
      /\ \A i \in 1..(Len(s) - 1) : Tail(s)[i] = s[i + 1]
  OBVIOUS
<1>2. Head(s) \in S /\ Head(s) \in Range(s)
  BY <1>1 DEF Range
<1>3. IsInjective(Tail(s))
  BY <1>1 DEF IsInjective
<1>4. Range(Tail(s)) = Range(s) \ {Head(s)}
  <2>1. ASSUME NEW x \in Range(Tail(s)) PROVE x \in Range(s) \ {Head(s)}
    BY <1>1, <2>1 DEF Range, IsInjective
  <2>2. ASSUME NEW x \in Range(s) \ {Head(s)} PROVE x \in Range(Tail(s))
    <3>1. PICK i \in 2..Len(s) : x = s[i]
      BY <1>1, <2>2 DEF Range
    <3>2. i - 1 \in 1..(Len(s) - 1) /\ Tail(s)[i - 1] = x
      BY <1>1, <3>1
    <3>3. QED  BY <1>1, <3>2 DEF Range
  <2>3. QED  BY <2>1, <2>2
<1>5. QED  BY <1>1, <1>2, <1>3, <1>4

(* The same for the front of a sequence and its last element. *)
LEMMA FrontRest ==
  ASSUME NEW S, NEW s \in Seq(S), IsInjective(s), s # <<>>
  PROVE  /\ Front(s) \in Seq(S)
         /\ Last(s) \in S
         /\ Last(s) \in Range(s)
         /\ IsInjective(Front(s))
         /\ Range(Front(s)) = Range(s) \ {Last(s)}
         /\ Len(s) > 0 /\ Len(Front(s)) = Len(s) - 1
<1>0. /\ Len(s) \in Nat \ {0}
      /\ DOMAIN s = 1..Len(s)
  OBVIOUS
<1>1. /\ Len(s) \in Nat \ {0} /\ Len(Front(s)) = Len(s) - 1
      /\ DOMAIN s = 1..Len(s)
      /\ Last(s) = s[Len(s)]
      /\ Front(s) \in Seq(S)
      /\ DOMAIN Front(s) = 1..(Len(s) - 1)
      /\ \A i \in 1..(Len(s) - 1) : Front(s)[i] = s[i]
  BY <1>0 DEF Front, Last
<1>2. Last(s) \in S /\ Last(s) \in Range(s)
  BY <1>1 DEF Range
<1>3. IsInjective(Front(s))
  BY <1>1 DEF IsInjective
<1>4. Range(Front(s)) = Range(s) \ {Last(s)}
  BY <1>1 DEF Range, IsInjective
<1>5. QED  BY <1>1, <1>2, <1>3, <1>4
-----------------------------------------------------------------------------
(* The inductive invariant.  No conjunct is inductive by itself: that a    *)
(* released worker was not idle needs the Map entry the handler took       *)
(* (IdleXorPending), that a reply settles its own call needs what is in    *)
(* the ports (HeldCallsUnderWay), and both need that a call is in one      *)
(* place (NoTaskLost, NoTaskTwice).                                        *)
Placed ==
  IdleXorPending /\ NoTaskTwice /\ NoTaskLost /\ WorkConserving

IInv == TypeOK /\ Placed /\ HeldCallsUnderWay /\ OwnAnswer

USE PoolSizeAssumption, TasksAssumption, CrashableAssumption

(* The constructor establishes the invariant. *)
LEMMA InitIInv == Init => IInv
<1> SUFFICES ASSUME Init PROVE IInv
  OBVIOUS
<1>1. TypeOK
  <2>1. idle \in Seq(Workers)
    BY DEF Init, Workers
  <2>2. /\ inbox \in [Workers -> Seq(Tasks)]
        /\ outbox \in [Workers -> Seq(Replies)]
        /\ queue \in Seq(Tasks)
    BY DEF Init
  <2>3. QED  BY <2>1, <2>2 DEF Init, TypeOK
<1>2. IsInjective(idle) /\ Range(idle) = Workers
  BY DEF Init, IsInjective, Range, Workers
<1>3. IsInjective(queue) /\ Range(queue) = {}
  BY DEF Init, IsInjective, Range
<1>4. Placed
  BY <1>2, <1>3 DEF Placed, IdleXorPending, NoTaskTwice, NoTaskLost,
                    WorkConserving, Init
<1>5. HeldCallsUnderWay /\ OwnAnswer
  BY DEF Init, HeldCallsUnderWay, AtRest, OwnAnswer
<1>6. QED  BY <1>1, <1>4, <1>5 DEF IInv

(* Posting to a worker changes its own port at most. *)
LEMMA PostedType ==
  ASSUME TypeOK, NEW w \in Workers, NEW t \in Tasks
  PROVE  /\ Posted(w, t) \in [Workers -> Seq(Tasks)]
         /\ Posted(w, t)[w] = IF thread[w] = "up" THEN Append(inbox[w], t)
                              ELSE inbox[w]
         /\ \A v \in Workers \ {w} : Posted(w, t)[v] = inbox[v]
  BY DEF Posted, TypeOK

(* A handler that settles the call of a worker and releases the worker     *)
(* leaves every call and every worker in its one place.                    *)
LEMMA SettleAndRelease ==
  ASSUME IInv, NEW w \in Workers, pending[w] # NoTask,
         NEW outcome \in {"resolved", "rejected"},
         promise' = [promise EXCEPT ![pending[w]] = outcome], Release(w)
  PROVE  /\ idle' \in Seq(Workers)
         /\ queue' \in Seq(Tasks)
         /\ pending' \in [Workers -> Tasks \union {NoTask}]
         /\ promise' \in [Tasks -> {"unmade", "pending", "resolved", "rejected"}]
         /\ inbox' \in [Workers -> Seq(Tasks)]
         /\ Placed'
<1> USE DEF IInv, Placed
<1> DEFINE t == pending[w]
<1>1. t \in Tasks /\ promise[t] = "pending"
  BY DEF TypeOK, NoTaskLost
<1>2. /\ promise' \in [Tasks -> {"unmade", "pending", "resolved", "rejected"}]
      /\ promise'[t] # "pending"
      /\ \A u \in Tasks \ {t} : promise'[u] = promise[u]
  BY <1>1 DEF TypeOK
<1>3. w \notin Range(idle) /\ t \notin Range(queue)
  BY DEF IdleXorPending, NoTaskTwice
<1>4. CASE queue # <<>> /\ TakeFromQueue(w, Head(queue), Tail(queue))
  <2> DEFINE u == Head(queue)
  <2>1. /\ Tail(queue) \in Seq(Tasks)
        /\ u \in Tasks
        /\ u \in Range(queue)
        /\ IsInjective(Tail(queue))
        /\ Range(Tail(queue)) = Range(queue) \ {u}
    BY <1>4, TailRest DEF TypeOK, NoTaskTwice
  <2>2. /\ queue' = Tail(queue)
        /\ idle' = idle
        /\ pending' = [pending EXCEPT ![w] = u]
        /\ inbox' = Posted(w, u)
    BY <1>4 DEF TakeFromQueue, Dispatch
  <2>3. /\ pending' \in [Workers -> Tasks \union {NoTask}]
        /\ pending'[w] = u /\ u # NoTask
        /\ \A v \in Workers \ {w} : pending'[v] = pending[v]
    BY <2>1, <2>2 DEF TypeOK
  <2>4. /\ inbox' \in [Workers -> Seq(Tasks)]
        /\ inbox'[w] = IF thread[w] = "up" THEN Append(inbox[w], u) ELSE inbox[w]
        /\ \A v \in Workers \ {w} : inbox'[v] = inbox[v]
    BY <2>1, <2>2, PostedType
  <2>5. IdleXorPending'
    BY <2>2, <2>3 DEF IdleXorPending
  <2>6. NoTaskTwice'
    BY <2>1, <2>2, <2>3 DEF NoTaskTwice
  <2>7. NoTaskLost'
    <3>1. t # u
      BY <1>3, <2>1
    <3>2. ASSUME NEW x \in Tasks
          PROVE  (promise[x] = "pending" /\ x # t) <=>
                   x \in Range(Tail(queue)) \/ \E v \in Workers : pending'[v] = x
      BY <1>1, <1>3, <2>1, <2>3, <3>1 DEF NoTaskLost, NoTaskTwice
    <3>3. QED  BY <1>2, <2>2, <3>2 DEF NoTaskLost
  <2>8. WorkConserving'
    BY <1>4, <2>2 DEF WorkConserving
  <2>9. QED  BY <1>2, <2>1, <2>2, <2>3, <2>4, <2>5, <2>6, <2>7, <2>8 DEF TypeOK
<1>5. CASE queue = <<>> /\ PushIdle(w)
  <2>1. /\ queue' = queue
        /\ inbox' = inbox
        /\ idle' = Append(idle, w)
        /\ pending' = [pending EXCEPT ![w] = NoTask]
    BY <1>5 DEF PushIdle
  <2>2. /\ idle' \in Seq(Workers)
        /\ IsInjective(idle')
        /\ Range(idle') = Range(idle) \union {w}
    BY <1>3, <2>1, AppendNew DEF TypeOK, IdleXorPending
  <2>3. /\ pending' \in [Workers -> Tasks \union {NoTask}]
        /\ pending'[w] = NoTask
        /\ \A v \in Workers \ {w} : pending'[v] = pending[v]
    BY <2>1 DEF TypeOK
  <2>4. IdleXorPending'
    BY <2>2, <2>3 DEF IdleXorPending
  <2>5. NoTaskTwice'
    BY <1>5, <2>1, <2>3 DEF NoTaskTwice, Range
  <2>6. NoTaskLost'
    <3>1. ASSUME NEW x \in Tasks
          PROVE  (promise[x] = "pending" /\ x # t) <=>
                   x \in Range(queue) \/ \E v \in Workers : pending'[v] = x
      BY <1>1, <1>3, <2>3 DEF NoTaskLost, NoTaskTwice
    <3>2. QED  BY <1>2, <2>1, <3>1 DEF NoTaskLost
  <2>7. WorkConserving'
    BY <1>5, <2>1 DEF WorkConserving
  <2>8. QED  BY <1>2, <2>1, <2>2, <2>3, <2>4, <2>5, <2>6, <2>7 DEF TypeOK
<1>6. QED  BY <1>4, <1>5 DEF Release

(* The call a handler takes from the Map is unsettled. *)
LEMMA HeldIsUnsettled ==
  ASSUME IInv, NEW w \in Workers, pending[w] # NoTask
  PROVE  pending[w] \in Tasks /\ promise[pending[w]] = "pending"
  BY DEF IInv, Placed, TypeOK, NoTaskLost

(* A worker with nothing under way that is given a call: the call is in    *)
(* its port, if the port still leads to a thread.                          *)
LEMMA DispatchUnderWay ==
  ASSUME TypeOK, HeldCallsUnderWay, NEW w \in Workers, NEW t \in Tasks,
         Dispatch(w, t), inbox[w] = <<>>, running'[w] = NoTask,
         outbox'[w] = <<>>, thread[w] = "up" <=> thread'[w] = "up",
         \A v \in Workers \ {w} : /\ running'[v] = running[v]
                                  /\ outbox'[v] = outbox[v]
                                  /\ thread'[v] = thread[v]
  PROVE  HeldCallsUnderWay'
<1>1. /\ pending'[w] = t /\ t # NoTask
      /\ \A v \in Workers \ {w} : pending'[v] = pending[v]
  BY DEF Dispatch, TypeOK
<1>2. /\ inbox'[w] = IF thread[w] = "up" THEN Append(inbox[w], t) ELSE inbox[w]
      /\ \A v \in Workers \ {w} : inbox'[v] = inbox[v]
  BY PostedType DEF Dispatch
<1>3. thread[w] = "up" => inbox'[w] = <<t>>
  BY <1>2
<1>4. /\ pending'[w] # NoTask /\ thread'[w] = "up" => Posting(w)'
      /\ pending'[w] # NoTask /\ thread'[w] # "up" => AtRest(w)'
  BY <1>1, <1>2, <1>3 DEF Posting, AtRest
<1>5. ASSUME NEW v \in Workers \ {w}
      PROVE  /\ pending'[v] = NoTask => AtRest(v)'
             /\ pending'[v] # NoTask /\ thread'[v] = "up" =>
                  Posting(v)' \/ Traversing(v)' \/ Replied(v)'
             /\ pending'[v] # NoTask /\ thread'[v] # "up" =>
                  AtRest(v)' \/ Replied(v)'
  BY <1>1, <1>2, <1>5 DEF HeldCallsUnderWay, AtRest, Posting, Traversing, Replied
<1>6. QED  BY <1>1, <1>4, <1>5 DEF HeldCallsUnderWay

(* The same for a worker released by a handler. *)
LEMMA ReleasedUnderWay ==
  ASSUME TypeOK, HeldCallsUnderWay, NEW w \in Workers, Release(w),
         inbox[w] = <<>>, running'[w] = NoTask, outbox'[w] = <<>>,
         thread[w] = "up" <=> thread'[w] = "up",
         \A v \in Workers \ {w} : /\ running'[v] = running[v]
                                  /\ outbox'[v] = outbox[v]
                                  /\ thread'[v] = thread[v]
  PROVE  HeldCallsUnderWay'
<1>1. CASE queue # <<>> /\ TakeFromQueue(w, Head(queue), Tail(queue))
  <2>1. Head(queue) \in Tasks /\ Dispatch(w, Head(queue))
    BY <1>1 DEF TypeOK, TakeFromQueue
  <2>2. QED  BY <2>1, DispatchUnderWay
<1>2. CASE queue = <<>> /\ PushIdle(w)
  <2>1. /\ pending'[w] = NoTask /\ inbox' = inbox
        /\ \A v \in Workers \ {w} : pending'[v] = pending[v]
    BY <1>2 DEF PushIdle, TypeOK
  <2>2. AtRest(w)'
    BY <2>1 DEF AtRest
  <2>3. QED
    BY <2>1, <2>2 DEF HeldCallsUnderWay, AtRest, Posting, Traversing, Replied
<1>3. QED  BY <1>1, <1>2 DEF Release

-----------------------------------------------------------------------------
(* A call of run() is given to the worker on top of the idle stack, or     *)
(* queued behind the others.                                               *)
LEMMA RunStep ==
  ASSUME IInv, NEW t \in Tasks, Run(t)
  PROVE  IInv'
<1> USE DEF IInv, Placed
<1>1. /\ promise[t] = "unmade"
      /\ promise' = [promise EXCEPT ![t] = "pending"]
      /\ UNCHANGED <<answer, thread, running, outbox, destroyed>>
  BY DEF Run
<1>2. /\ promise' \in [Tasks -> {"unmade", "pending", "resolved", "rejected"}]
      /\ promise'[t] = "pending"
      /\ \A u \in Tasks \ {t} : promise'[u] = promise[u]
  BY <1>1 DEF TypeOK
<1>3. t \notin Range(queue) /\ \A w \in Workers : pending[w] # t
  BY <1>1 DEF NoTaskLost
<1>4. OwnAnswer'
  BY <1>1, <1>2 DEF OwnAnswer
<1>5. CASE idle # <<>> /\ idle' = Front(idle) /\ Dispatch(Last(idle), t)
           /\ UNCHANGED queue
  <2> DEFINE w == Last(idle)
  <2>1. /\ Front(idle) \in Seq(Workers)
        /\ w \in Workers
        /\ w \in Range(idle)
        /\ IsInjective(Front(idle))
        /\ Range(Front(idle)) = Range(idle) \ {w}
    BY <1>5, FrontRest DEF TypeOK, IdleXorPending
  <2>2. pending[w] = NoTask
    BY <2>1 DEF IdleXorPending
  <2>3. /\ pending' = [pending EXCEPT ![w] = t]
        /\ inbox' = Posted(w, t)
    BY <1>5 DEF Dispatch
  <2>4. /\ pending' \in [Workers -> Tasks \union {NoTask}]
        /\ pending'[w] = t /\ t # NoTask
        /\ \A v \in Workers \ {w} : pending'[v] = pending[v]
    BY <2>1, <2>3 DEF TypeOK
  <2>5. /\ inbox' \in [Workers -> Seq(Tasks)]
        /\ inbox'[w] = IF thread[w] = "up" THEN Append(inbox[w], t) ELSE inbox[w]
        /\ \A v \in Workers \ {w} : inbox'[v] = inbox[v]
    BY <2>1, <2>3, PostedType
  <2>6. TypeOK'
    BY <1>1, <1>2, <1>5, <2>1, <2>4, <2>5 DEF TypeOK
  <2>7. IdleXorPending'
    BY <1>5, <2>1, <2>4 DEF IdleXorPending
  <2>8. NoTaskTwice'
    BY <1>3, <1>5, <2>4 DEF NoTaskTwice
  <2>9. NoTaskLost'
    BY <1>1, <1>2, <1>3, <1>5, <2>1, <2>2, <2>4 DEF NoTaskLost
  <2>10. WorkConserving'
    BY <1>5 DEF WorkConserving
  <2>11. HeldCallsUnderWay'
    <3>1. AtRest(w)
      BY <2>1, <2>2 DEF HeldCallsUnderWay
    <3>2. QED  BY <1>1, <1>5, <2>1, <3>1, DispatchUnderWay DEF AtRest
  <2>12. QED  BY <1>4, <2>6, <2>7, <2>8, <2>9, <2>10, <2>11
<1>6. CASE idle = <<>> /\ queue' = Append(queue, t)
           /\ UNCHANGED <<idle, pending, inbox>>
  <2>1. /\ queue' \in Seq(Tasks)
        /\ IsInjective(queue')
        /\ Range(queue') = Range(queue) \union {t}
    BY <1>3, <1>6, AppendNew DEF TypeOK, NoTaskTwice
  <2>2. TypeOK'
    BY <1>1, <1>2, <1>6, <2>1 DEF TypeOK
  <2>3. IdleXorPending' /\ NoTaskTwice' /\ WorkConserving'
    BY <1>3, <1>6, <2>1 DEF IdleXorPending, NoTaskTwice, WorkConserving
  <2>4. NoTaskLost'
    BY <1>1, <1>2, <1>3, <1>6, <2>1 DEF NoTaskLost
  <2>5. HeldCallsUnderWay'
    BY <1>1, <1>6 DEF HeldCallsUnderWay, AtRest, Posting, Traversing, Replied
  <2>6. QED  BY <1>4, <2>2, <2>3, <2>4, <2>5
<1>7. QED  BY <1>5, <1>6 DEF Run

(* A reply settles the call it is about and its worker is released. *)
LEMMA OnMessageStep ==
  ASSUME IInv, NEW w \in Workers, OnMessage(w)
  PROVE  IInv'
<1> DEFINE t == pending[w]
           msg == Head(outbox[w])
<1>1. /\ outbox[w] # <<>> /\ t # NoTask
      /\ SettlePromise(t, msg.kind, msg.task)
      /\ outbox' = [outbox EXCEPT ![w] = Tail(@)]
      /\ Release(w)
      /\ UNCHANGED <<thread, running, destroyed>>
  BY DEF OnMessage
<1>2. Replied(w)
  BY <1>1 DEF IInv, HeldCallsUnderWay, AtRest, Posting, Traversing
<1>3. /\ msg = Reply(t)
      /\ Tail(outbox[w]) = <<>>
      /\ inbox[w] = <<>> /\ running[w] = NoTask
  BY <1>2 DEF Replied
<1>4. /\ outbox'[w] = <<>>
      /\ \A v \in Workers \ {w} : outbox'[v] = outbox[v]
      /\ outbox' \in [Workers -> Seq(Replies)]
  BY <1>1, <1>3 DEF IInv, TypeOK
<1>5. t \in Tasks /\ promise[t] = "pending"
  BY <1>1, HeldIsUnsettled
<1>6. CASE t \notin Oversized
  <2>1. msg.kind = "result" /\ msg.task = t
    BY <1>3, <1>6 DEF Reply
  <2>2. /\ promise' = [promise EXCEPT ![t] = "resolved"]
        /\ answer' = [answer EXCEPT ![t] = t]
    BY <1>1, <1>5, <2>1 DEF SettlePromise
  <2>3. TypeOK' /\ Placed'
    BY <1>1, <1>4, <1>5, <2>2, SettleAndRelease DEF IInv, TypeOK
  <2>4. OwnAnswer'
    BY <1>5, <1>6, <2>2 DEF OwnAnswer, IInv, TypeOK
  <2>5. QED  BY <1>1, <1>3, <1>4, <2>3, <2>4, ReleasedUnderWay DEF IInv
<1>7. CASE t \in Oversized
  <2>1. msg.kind = "error" /\ msg.task = t
    BY <1>3, <1>7 DEF Reply
  <2>2. /\ promise' = [promise EXCEPT ![t] = "rejected"]
        /\ answer' = [answer EXCEPT ![t] = t]
    BY <1>1, <1>5, <2>1 DEF SettlePromise
  <2>3. TypeOK' /\ Placed'
    BY <1>1, <1>4, <1>5, <2>2, SettleAndRelease DEF IInv, TypeOK
  <2>4. OwnAnswer'
    BY <1>5, <1>7, <2>2 DEF OwnAnswer, IInv, TypeOK
  <2>5. QED  BY <1>1, <1>3, <1>4, <2>3, <2>4, ReleasedUnderWay DEF IInv
<1>8. QED  BY <1>6, <1>7

(* The 'error' of a dead thread settles the call it held, if it held one. *)
LEMMA OnErrorStep ==
  ASSUME IInv, NEW w \in Workers, OnError(w)
  PROVE  IInv'
<1>1. /\ thread[w] = "dying"
      /\ outbox[w] = <<>>
      /\ thread' = [thread EXCEPT ![w] = "gone"]
      /\ UNCHANGED <<running, outbox, destroyed>>
  BY DEF OnError
<1>2. /\ thread' \in [Workers -> {"up", "dying", "gone"}]
      /\ thread'[w] = "gone"
      /\ \A v \in Workers \ {w} : thread'[v] = thread[v]
  BY <1>1 DEF IInv, TypeOK
<1>3. CASE pending[w] # NoTask /\ SettlePromise(pending[w], "error", NoTask)
           /\ Release(w)
  <2>1. AtRest(w)
    BY <1>1, <1>3 DEF IInv, HeldCallsUnderWay, Replied, AtRest
  <2>2. /\ pending[w] \in Tasks
        /\ promise' = [promise EXCEPT ![pending[w]] = "rejected"]
        /\ answer' = [answer EXCEPT ![pending[w]] = NoTask]
    BY <1>3, HeldIsUnsettled DEF SettlePromise
  <2>3. TypeOK' /\ Placed'
    BY <1>1, <1>2, <1>3, <2>2, SettleAndRelease DEF IInv, TypeOK
  <2>4. HeldCallsUnderWay'
    BY <1>1, <1>2, <1>3, <2>1, ReleasedUnderWay DEF AtRest, IInv
  <2>5. OwnAnswer'
    BY <2>2 DEF OwnAnswer, IInv, TypeOK
  <2>6. QED  BY <2>3, <2>4, <2>5 DEF IInv
<1>4. CASE pending[w] = NoTask /\ UNCHANGED <<promise, answer, poolVars>>
  BY <1>1, <1>2, <1>4
  DEF IInv, TypeOK, Placed, IdleXorPending, NoTaskTwice, NoTaskLost,
      WorkConserving, HeldCallsUnderWay, AtRest, Posting, Traversing, Replied,
      OwnAnswer, poolVars
<1>5. QED  BY <1>3, <1>4 DEF OnError

(* A thread that starts a traversal moves its call one stage on. *)
LEMMA ReceiveStep ==
  ASSUME IInv, NEW w \in Workers, Receive(w)
  PROVE  IInv'
<1> USE DEF IInv
<1>1. /\ thread[w] = "up" /\ running[w] = NoTask /\ inbox[w] # <<>>
      /\ running' = [running EXCEPT ![w] = Head(inbox[w])]
      /\ inbox' = [inbox EXCEPT ![w] = Tail(@)]
      /\ UNCHANGED <<idle, queue, pending, promise, answer, thread, outbox,
                     destroyed>>
  BY DEF Receive
<1>2. Posting(w) /\ pending[w] \in Tasks
  BY <1>1 DEF HeldCallsUnderWay, AtRest, Posting, Traversing, Replied, TypeOK
<1>3. Head(inbox[w]) = pending[w] /\ Tail(inbox[w]) = <<>>
  BY <1>2 DEF Posting, TypeOK
<1>4. TypeOK'
  BY <1>1, <1>2, <1>3 DEF TypeOK
<1>5. HeldCallsUnderWay'
  <2>1. Traversing(w)'
    BY <1>1, <1>2, <1>3 DEF Posting, Traversing, TypeOK
  <2>2. ASSUME NEW v \in Workers \ {w}
        PROVE  running'[v] = running[v] /\ inbox'[v] = inbox[v]
    BY <1>1 DEF TypeOK
  <2>3. QED
    BY <1>1, <1>2, <2>1, <2>2
    DEF HeldCallsUnderWay, AtRest, Posting, Traversing, Replied
<1>6. Placed' /\ OwnAnswer'
  BY <1>1 DEF Placed, IdleXorPending, NoTaskTwice, NoTaskLost, WorkConserving,
              OwnAnswer
<1>7. QED  BY <1>4, <1>5, <1>6

(* So does a thread that ends one. *)
LEMMA RespondStep ==
  ASSUME IInv, NEW w \in Workers, Respond(w)
  PROVE  IInv'
<1> USE DEF IInv
<1>1. /\ running[w] # NoTask
      /\ outbox' = [outbox EXCEPT ![w] = Append(@, Reply(running[w]))]
      /\ running' = [running EXCEPT ![w] = NoTask]
      /\ UNCHANGED <<idle, queue, pending, promise, answer, thread, inbox,
                     destroyed>>
  BY DEF Respond
<1>2. Traversing(w) /\ pending[w] # NoTask
  BY <1>1 DEF HeldCallsUnderWay, AtRest, Posting, Replied
<1>3. running[w] \in Tasks /\ Reply(running[w]) \in Replies
  BY <1>1 DEF TypeOK, Replies, Reply
<1>4. TypeOK'
  BY <1>1, <1>3 DEF TypeOK
<1>5. HeldCallsUnderWay'
  <2>1. Replied(w)'
    BY <1>1, <1>2 DEF Traversing, Replied, TypeOK
  <2>2. ASSUME NEW v \in Workers \ {w}
        PROVE  running'[v] = running[v] /\ outbox'[v] = outbox[v]
    BY <1>1 DEF TypeOK
  <2>3. QED
    BY <1>1, <1>2, <2>1, <2>2
    DEF HeldCallsUnderWay, AtRest, Posting, Traversing, Replied
<1>6. Placed' /\ OwnAnswer'
  BY <1>1 DEF Placed, IdleXorPending, NoTaskTwice, NoTaskLost, WorkConserving,
              OwnAnswer
<1>7. QED  BY <1>4, <1>5, <1>6

(* A thread that stops leaves at most the reply it had posted. *)
LEMMA HaltStep ==
  ASSUME IInv, NEW w \in Workers, NEW state \in {"dying", "gone"}, Halt(w, state)
  PROVE  IInv'
<1> USE DEF IInv
<1>1. /\ thread[w] = "up"
      /\ thread' = [thread EXCEPT ![w] = state]
      /\ running' = [running EXCEPT ![w] = NoTask]
      /\ inbox' = [inbox EXCEPT ![w] = <<>>]
      /\ UNCHANGED <<idle, queue, pending, promise, answer, outbox, destroyed>>
  BY DEF Halt
<1>2. TypeOK'
  BY <1>1 DEF TypeOK
<1>3. HeldCallsUnderWay'
  <2>1. /\ thread'[w] # "up" /\ running'[w] = NoTask /\ inbox'[w] = <<>>
        /\ \A v \in Workers \ {w} : /\ running'[v] = running[v]
                                     /\ inbox'[v] = inbox[v]
                                     /\ thread'[v] = thread[v]
    BY <1>1 DEF TypeOK
  <2>2. QED
    BY <1>1, <2>1 DEF HeldCallsUnderWay, AtRest, Posting, Traversing, Replied
<1>4. Placed' /\ OwnAnswer'
  BY <1>1 DEF Placed, IdleXorPending, NoTaskTwice, NoTaskLost, WorkConserving,
              OwnAnswer
<1>5. QED  BY <1>2, <1>3, <1>4

(* destroy() only asks the threads to stop. *)
LEMMA DestroyStep ==
  ASSUME IInv, Destroy
  PROVE  IInv'
  BY DEF Destroy, IInv, TypeOK, Placed, IdleXorPending, NoTaskTwice, NoTaskLost,
         WorkConserving, HeldCallsUnderWay, AtRest, Posting, Traversing, Replied,
         OwnAnswer

(* A step that changes nothing. *)
LEMMA StutterStep ==
  ASSUME IInv, UNCHANGED vars
  PROVE  IInv'
  BY DEF vars, IInv, TypeOK, Placed, IdleXorPending, NoTaskTwice, NoTaskLost,
         WorkConserving, HeldCallsUnderWay, AtRest, Posting, Traversing, Replied,
         OwnAnswer

(* The inductive invariant holds of the specification, whatever the number *)
(* of threads and calls and whichever threads die.                         *)
THEOREM Invariance == Spec => []IInv
<1>1. Init => IInv
  BY InitIInv
<1>2. IInv /\ [Next]_vars => IInv'
  <2> SUFFICES ASSUME IInv, [Next]_vars PROVE IInv'
    OBVIOUS
  <2>1. CASE \E t \in Tasks : Run(t)
    BY <2>1, RunStep
  <2>2. CASE \E w \in Workers : OnMessage(w)
    BY <2>2, OnMessageStep
  <2>3. CASE \E w \in Workers : OnError(w)
    BY <2>3, OnErrorStep
  <2>4. CASE \E w \in Workers : Receive(w)
    BY <2>4, ReceiveStep
  <2>5. CASE \E w \in Workers : Respond(w)
    BY <2>5, RespondStep
  <2>6. CASE \E w \in Workers : Crash(w)
    BY <2>6, HaltStep DEF Crash
  <2>7. CASE \E w \in Workers : Terminate(w)
    BY <2>7, HaltStep DEF Terminate
  <2>8. CASE Destroy
    BY <2>8, DestroyStep
  <2>9. CASE UNCHANGED vars
    BY <2>9, StutterStep
  <2>10. QED
    BY <2>1, <2>2, <2>3, <2>4, <2>5, <2>6, <2>7, <2>8, <2>9 DEF Next
<1>3. QED  BY <1>1, <1>2, PTL DEF Spec

(* Type correctness of the pool, its ports and its promises. *)
THEOREM TypeCorrectness == Spec => []TypeOK
<1>1. IInv => TypeOK
  BY DEF IInv
<1>2. QED  BY <1>1, Invariance, PTL

(* Every unsettled call is queued or held, and in one place only; no       *)
(* handler, in any order of replies and errors, puts a worker on the idle  *)
(* stack twice or leaves it there while the Map has an entry for it.       *)
THEOREM PlacesAreUnique == Spec => []InOnePlace
<1>1. IInv => InOnePlace
  BY DEF IInv, Placed, InOnePlace
<1>2. QED  BY <1>1, Invariance, PTL

(* No call waits in the queue while a worker is idle. *)
THEOREM NoNeedlessWaiting == Spec => []WorkConserving
<1>1. IInv => WorkConserving
  BY DEF IInv, Placed
<1>2. QED  BY <1>1, Invariance, PTL

(* The call a live thread holds is in its port, being traversed, or in its *)
(* reply; a dead thread has at most a reply left.                          *)
THEOREM HeldCallsAreUnderWay == Spec => []HeldCallsUnderWay
<1>1. IInv => HeldCallsUnderWay
  BY DEF IInv
<1>2. QED  BY <1>1, Invariance, PTL

(* The non-null assertion of the 'message' handler never fails, and the    *)
(* task it finds is the one the reply is about.                            *)
THEOREM RepliesFindTheirTask == Spec => []ReplyHasItsTask
<1>1. IInv => ReplyHasItsTask
  <2> SUFFICES ASSUME IInv, NEW w \in Workers, outbox[w] # <<>>
               PROVE  /\ Len(outbox[w]) = 1
                      /\ pending[w] # NoTask
                      /\ Head(outbox[w]).task = pending[w]
    BY DEF ReplyHasItsTask
  <2>1. pending[w] # NoTask /\ Replied(w)
    BY DEF IInv, HeldCallsUnderWay, AtRest, Posting, Traversing
  <2>2. QED  BY <2>1 DEF Replied, Reply
<1>2. QED  BY <1>1, Invariance, PTL

(* A promise is settled with the outcome of its own tree, or rejected for  *)
(* a crash.                                                                *)
THEOREM AnswersAreOwn == Spec => []OwnAnswer
<1>1. IInv => OwnAnswer
  BY DEF IInv
<1>2. QED  BY <1>1, Invariance, PTL

-----------------------------------------------------------------------------
(* The pool implements PoolService. *)

(* The calls being served, as PoolService sees them. *)
Held == {pending[w] : w \in Workers} \ {NoTask}

(* A handler that settles the call t and releases its worker is the step   *)
(* Settle(t) of the service.                                               *)
LEMMA HandlerSettles ==
  ASSUME IInv, NEW w \in Workers, NEW t \in Tasks, t = pending[w], Release(w),
         Service!Settled(t)
  PROVE  Service!Settle(t)
<1> USE DEF IInv, Placed
<1>1. t \in Tasks /\ t \in Held
  BY DEF TypeOK, Held
<1>2. \A v \in Workers \ {w} : pending[v] # t
  BY DEF NoTaskTwice
<1>3. CASE queue # <<>> /\ TakeFromQueue(w, Head(queue), Tail(queue))
  <2>1. /\ queue' = Tail(queue) /\ UNCHANGED idle
        /\ pending' = [pending EXCEPT ![w] = Head(queue)]
        /\ Head(queue) \in Tasks
    BY <1>3 DEF TakeFromQueue, Dispatch, TypeOK
  <2>2. Held' = (Held \ {t}) \union {Head(queue)}
    BY <1>2, <2>1 DEF Held, TypeOK
  <2>3. QED  BY <1>1, <1>3, <2>1, <2>2 DEF Service!Settle, Held
<1>4. CASE queue = <<>> /\ PushIdle(w)
  <2>1. /\ idle' = Append(idle, w) /\ UNCHANGED queue
        /\ pending' = [pending EXCEPT ![w] = NoTask]
    BY <1>4 DEF PushIdle
  <2>2. Held' = Held \ {t}
    BY <1>2, <2>1 DEF Held, TypeOK
  <2>3. Len(idle') = Len(idle) + 1
    BY <2>1 DEF TypeOK
  <2>4. QED  BY <1>1, <1>4, <2>1, <2>2, <2>3 DEF Service!Settle, Held
<1>5. QED  BY <1>3, <1>4 DEF Release

(* run() is the step Arrive(t) of the service. *)
LEMMA RunArrives ==
  ASSUME IInv, NEW t \in Tasks, Run(t)
  PROVE  Service!Arrive(t)
<1> USE DEF IInv, Placed
<1>1. /\ promise[t] = "unmade"
      /\ promise' = [promise EXCEPT ![t] = "pending"]
      /\ UNCHANGED answer
  BY DEF Run
<1>2. CASE idle # <<>> /\ idle' = Front(idle) /\ Dispatch(Last(idle), t)
           /\ UNCHANGED queue
  <2>1. Last(idle) \in Workers /\ pending[Last(idle)] = NoTask
    BY <1>2, FrontRest DEF TypeOK, IdleXorPending
  <2>2. Len(idle) > 0 /\ Len(idle') = Len(idle) - 1
    BY <1>2, FrontRest DEF TypeOK, IdleXorPending
  <2>3. Held' = Held \union {t}
    BY <1>2, <2>1 DEF Held, Dispatch, TypeOK
  <2>4. QED  BY <1>1, <1>2, <2>2, <2>3 DEF Service!Arrive, Held
<1>3. CASE idle = <<>> /\ queue' = Append(queue, t)
           /\ UNCHANGED <<idle, pending, inbox>>
  BY <1>1, <1>3 DEF Service!Arrive
<1>4. QED  BY <1>2, <1>3 DEF Run

(* Every behaviour of the pool, with its threads, ports and crashes, is a  *)
(* behaviour of the first-come-first-served service.                       *)
THEOREM Refinement == Spec => ImplementsService
<1>1. Init => Service!Init
  <2> SUFFICES ASSUME Init PROVE Service!Init
    OBVIOUS
  <2>1. Len(idle) = PoolSize
    BY DEF Init
  <2>2. Held = {}
    BY DEF Held, Init
  <2>3. QED  BY <2>1, <2>2 DEF Init, Service!Init, Held
<1>2. IInv /\ [Next]_vars => [Service!Next]_(Service!vars)
  <2> SUFFICES ASSUME IInv, [Next]_vars
               PROVE  Service!Next \/ UNCHANGED Service!vars
    OBVIOUS
  <2>1. CASE \E t \in Tasks : Run(t)
    BY <2>1, RunArrives DEF Service!Next
  <2>2. ASSUME NEW w \in Workers, OnMessage(w) PROVE Service!Next
    <3>1. /\ pending[w] # NoTask /\ outbox[w] # <<>> /\ Release(w)
          /\ SettlePromise(pending[w], Head(outbox[w]).kind, Head(outbox[w]).task)
      BY <2>2 DEF OnMessage
    <3>2. Head(outbox[w]) = Reply(pending[w])
      BY <3>1 DEF IInv, HeldCallsUnderWay, AtRest, Posting, Traversing, Replied
    <3>3. PICK t \in Tasks : t = pending[w] /\ promise[t] = "pending"
      BY <3>1, HeldIsUnsettled
    <3>4. Service!Settled(t)
      BY <3>1, <3>2, <3>3 DEF SettlePromise, Reply, Service!Settled
    <3>5. Service!Settle(t)
      BY <3>1, <3>3, <3>4, HandlerSettles
    <3>6. QED  BY <3>5 DEF Service!Next
  <2>3. ASSUME NEW w \in Workers, OnError(w)
        PROVE  Service!Next \/ UNCHANGED Service!vars
    <3>1. CASE pending[w] # NoTask /\ Release(w)
               /\ SettlePromise(pending[w], "error", NoTask)
      <4>1. PICK t \in Tasks : t = pending[w] /\ promise[t] = "pending"
        BY <3>1, HeldIsUnsettled
      <4>2. answer[t] = NoTask
        BY <4>1 DEF IInv, OwnAnswer
      <4>3. Service!Settled(t)
        BY <3>1, <4>1, <4>2 DEF SettlePromise, Service!Settled, IInv, TypeOK
      <4>4. Service!Settle(t)
        BY <3>1, <4>1, <4>3, HandlerSettles
      <4>5. QED  BY <4>4 DEF Service!Next
    <3>2. CASE pending[w] = NoTask /\ UNCHANGED <<promise, answer, poolVars>>
      BY <3>2 DEF Service!vars, poolVars
    <3>3. QED  BY <2>3, <3>1, <3>2 DEF OnError
  <2>4. CASE \E w \in Workers : Receive(w) \/ Respond(w)
    BY <2>4 DEF Receive, Respond, Service!vars
  <2>5. CASE \E w \in Workers : Crash(w) \/ Terminate(w)
    BY <2>5 DEF Crash, Terminate, Halt, Service!vars
  <2>6. CASE Destroy
    BY <2>6 DEF Destroy, Service!vars
  <2>7. CASE UNCHANGED vars
    BY <2>7 DEF vars, Service!vars
  <2>8. QED
    BY <2>1, <2>2, <2>3, <2>4, <2>5, <2>6, <2>7 DEF Next
<1>3. QED
  BY <1>1, <1>2, Invariance, PTL DEF Spec, ImplementsService, Service!Spec
-----------------------------------------------------------------------------
(* A thread that dies costs one call at most: the rejections that no       *)
(* traversal decided are counted against the threads whose 'error' was     *)
(* emitted.                                                                *)

(* The calls rejected for a crash; the threads that crashed and were noticed. *)
CrashRejected == {t \in Tasks : promise[t] = "rejected" /\ answer[t] = NoTask}
Noticed == {w \in Crashable : thread[w] = "gone"}

(* The calls rejected for a crash are finitely many although Tasks need not *)
(* be, and only a crash leaves a thread "dying": the handler that rejects   *)
(* makes one more thread of Crashable "gone".                               *)
CrashInv ==
  /\ IInv
  /\ \A w \in Workers : thread[w] = "dying" => w \in Crashable
  /\ IsFiniteSet(CrashRejected)
  /\ Cardinality(CrashRejected) <= Cardinality(Noticed)

(* There are finitely many threads to notice. *)
LEMMA NoticedFinite == IsFiniteSet(Noticed)
<1>1. IsFiniteSet(Workers)
  BY PoolSizeAssumption, FS_Interval DEF Workers
<1>2. Noticed \in SUBSET Workers
  BY CrashableAssumption DEF Noticed
<1>3. QED  BY <1>1, <1>2, FS_Subset

(* A step that rejects nothing for a crash, and forgets no thread. *)
LEMMA NothingRejected ==
  ASSUME CrashInv, IInv', CrashRejected' = CrashRejected,
         Noticed \in SUBSET Noticed',
         \A w \in Workers : thread'[w] = "dying" => w \in Crashable
  PROVE  CrashInv'
<1>1. IsFiniteSet(Noticed')
  <2>1. Noticed' \in SUBSET Workers
    BY CrashableAssumption DEF Noticed
  <2>2. IsFiniteSet(Workers)
    BY PoolSizeAssumption, FS_Interval DEF Workers
  <2>3. QED  BY <2>1, <2>2, FS_Subset
<1>2. /\ Cardinality(Noticed) <= Cardinality(Noticed')
      /\ Cardinality(Noticed') \in Nat
  BY <1>1, FS_Subset, FS_CardinalityType
<1>3. /\ Cardinality(Noticed) \in Nat
      /\ Cardinality(CrashRejected) \in Nat
  BY NoticedFinite, FS_CardinalityType DEF CrashInv
<1>4. Cardinality(CrashRejected') <= Cardinality(Noticed')
  BY <1>2, <1>3 DEF CrashInv
<1>5. QED  BY <1>4 DEF CrashInv

(* The 'error' handler notices one thread more, and rejects one call more  *)
(* if the Map had an entry for it.                                         *)
LEMMA OneMoreRejection ==
  ASSUME CrashInv, IInv', NEW w \in Workers, OnError(w)
  PROVE  CrashInv'
<1>1. /\ thread[w] = "dying" /\ w \in Crashable
      /\ thread' = [thread EXCEPT ![w] = "gone"]
      /\ thread \in [Workers -> {"up", "dying", "gone"}]
  BY DEF OnError, CrashInv, IInv, TypeOK
<1>2. Noticed' = Noticed \cup {w} /\ w \notin Noticed
  BY <1>1, CrashableAssumption DEF Noticed
<1>3. /\ Cardinality(Noticed') = Cardinality(Noticed) + 1
      /\ Cardinality(Noticed) \in Nat
  BY <1>2, NoticedFinite, FS_AddElement, FS_CardinalityType
<1>4. \A v \in Workers : thread'[v] = "dying" => v \in Crashable
  BY <1>1 DEF CrashInv
<1>5. CASE pending[w] # NoTask /\ SettlePromise(pending[w], "error", NoTask)
  <2> DEFINE t == pending[w]
  <2>1. /\ t \in Tasks /\ promise[t] = "pending"
    BY <1>5, HeldIsUnsettled DEF CrashInv
  <2>2. /\ promise' = [promise EXCEPT ![t] = "rejected"]
        /\ answer' = [answer EXCEPT ![t] = NoTask]
    BY <1>5, <2>1 DEF SettlePromise
  <2>3. CrashRejected' = CrashRejected \cup {t} /\ t \notin CrashRejected
    BY <2>1, <2>2 DEF CrashRejected, CrashInv, IInv, TypeOK
  <2>4. /\ IsFiniteSet(CrashRejected')
        /\ Cardinality(CrashRejected') = Cardinality(CrashRejected) + 1
        /\ Cardinality(CrashRejected) \in Nat
    BY <2>3, FS_AddElement, FS_CardinalityType DEF CrashInv
  <2>5. Cardinality(CrashRejected') <= Cardinality(Noticed')
    BY <1>3, <2>4 DEF CrashInv
  <2>6. QED  BY <1>4, <2>4, <2>5 DEF CrashInv
<1>6. CASE pending[w] = NoTask /\ UNCHANGED <<promise, answer>>
  BY <1>2, <1>4, <1>6, NothingRejected DEF CrashRejected
<1>7. QED  BY <1>5, <1>6 DEF OnError

(* A thread that dies rejects at most the one call it held when its        *)
(* 'error' was emitted.                                                    *)
THEOREM CrashesRejectOneCallEach == Spec => []OneRejectionPerCrash
<1>1. Init => CrashInv
  <2> SUFFICES ASSUME Init PROVE CrashInv
    OBVIOUS
  <2>1. CrashRejected = {} /\ Noticed = {}
    BY CrashableAssumption DEF Init, CrashRejected, Noticed
  <2>2. \A w \in Workers : thread[w] # "dying"
    BY DEF Init
  <2>3. QED  BY <2>1, <2>2, InitIInv, FS_EmptySet DEF CrashInv
<1>2. CrashInv /\ IInv' /\ [Next]_vars => CrashInv'
  <2> SUFFICES ASSUME CrashInv, IInv', [Next]_vars PROVE CrashInv'
    OBVIOUS
  <2> USE DEF CrashRejected, Noticed, CrashInv, IInv, TypeOK
  <2>1. CASE \E t \in Tasks : Run(t)
    <3>1. CrashRejected' = CrashRejected /\ UNCHANGED thread
      BY <2>1 DEF Run
    <3>2. QED  BY <3>1, NothingRejected
  <2>2. CASE \E w \in Workers : OnMessage(w)
    <3>1. PICK w \in Workers : OnMessage(w)
      BY <2>2
    <3>2. Head(outbox[w]) \in Replies /\ UNCHANGED thread
      <4>1. outbox[w] \in Seq(Replies) /\ outbox[w] # <<>> /\ UNCHANGED thread
        BY <3>1 DEF OnMessage
      <4>2. QED  BY <4>1
    <3>3. PICK msg \in Replies :
            SettlePromise(pending[w], msg.kind, msg.task) /\ msg.task \in Tasks
      BY <3>1, <3>2 DEF OnMessage, Replies
    <3>4. pending[w] \in Tasks /\ promise[pending[w]] = "pending"
      BY <3>1, HeldIsUnsettled DEF OnMessage
    <3>5. CrashRejected' = CrashRejected
      BY <3>3, <3>4, TasksAssumption DEF SettlePromise
    <3>6. QED  BY <3>2, <3>5, NothingRejected
  <2>3. CASE \E w \in Workers : OnError(w)
    BY <2>3, OneMoreRejection
  <2>4. CASE \E w \in Workers : Receive(w) \/ Respond(w)
    <3>1. UNCHANGED <<promise, answer, thread>>
      BY <2>4 DEF Receive, Respond
    <3>2. QED  BY <3>1, NothingRejected
  <2>5. CASE \E w \in Workers : Crash(w) \/ Terminate(w)
    <3>1. PICK w \in Workers, state \in {"dying", "gone"} :
            Halt(w, state) /\ (state = "dying" => w \in Crashable)
      BY <2>5 DEF Crash, Terminate
    <3>2. /\ thread[w] = "up"
          /\ thread' = [thread EXCEPT ![w] = state]
          /\ UNCHANGED <<promise, answer>>
      BY <3>1 DEF Halt
    <3>3. Noticed \in SUBSET Noticed' /\ CrashRejected' = CrashRejected
      BY <3>2, CrashableAssumption
    <3>4. \A v \in Workers : thread'[v] = "dying" => v \in Crashable
      BY <3>1, <3>2
    <3>5. QED  BY <3>3, <3>4, NothingRejected
  <2>6. CASE Destroy \/ UNCHANGED vars
    <3>1. UNCHANGED <<promise, answer, thread>>
      BY <2>6 DEF Destroy, vars
    <3>2. QED  BY <3>1, NothingRejected
  <2>7. QED
    BY <2>1, <2>2, <2>3, <2>4, <2>5, <2>6 DEF Next
<1>3. CrashInv => OneRejectionPerCrash
  BY DEF CrashInv, CrashRejected, Noticed, OneRejectionPerCrash
<1>4. QED  BY <1>1, <1>2, <1>3, Invariance, PTL DEF Spec

(* A promise settles with its own outcome, or for one crash. *)
THEOREM PromisesSettleRight == Spec => []SettledRight
BY CrashesRejectOneCallEach, RepliesFindTheirTask, AnswersAreOwn, PTL
   DEF SettledRight
=============================================================================
