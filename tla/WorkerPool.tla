----------------------------- MODULE WorkerPool ------------------------------
(***************************************************************************)
(* The worker-thread pool of the Node.js worker-threads implementation     *)
(* (nodejs-wt-impl/src/infrastructure/worker-pool.ts), the service that    *)
(* calls it and the worker script at the other end of each channel.        *)
(*                                                                         *)
(* The pool object lives on the main thread: each of its methods and event *)
(* handlers runs to completion and is one action.  Each worker is an OS    *)
(* thread of its own.  Main and worker exchange messages through two FIFO  *)
(* ports, and a thread that runs out of memory dies at any moment: the     *)
(* main thread learns of it later, by the 'error' event, after every reply *)
(* the thread had already posted.                                          *)
(***************************************************************************)
EXTENDS Integers, Sequences, SequencesExt

CONSTANTS
  PoolSize,   \* threads created by the constructor (os.availableParallelism())
  Tasks,      \* the calls of run(), each with a tree of its own
  NoTask,     \* `undefined`: no task
  Oversized,  \* the tasks whose tree exceeds the depth or node limit
  Crashable   \* the threads that may die of an error outside their handler

Workers == 1..PoolSize

ASSUME PoolSizeAssumption == PoolSize \in Nat \ {0}
ASSUME TasksAssumption == NoTask \notin Tasks /\ Oversized \subseteq Tasks
ASSUME CrashableAssumption == Crashable \subseteq Workers

VARIABLES
  idle,       \* the stack of idle workers, top at the end
  queue,      \* tasks that found no idle worker, oldest first
  pending,    \* the Map worker -> task it was given; NoTask: no entry
  promise,    \* the promise run() returned for each task
  answer,     \* the task whose traversal settled the promise; NoTask: a crash
  thread,     \* "up"; "dying": dead, its 'error' not yet emitted; "gone"
  inbox,      \* data posted to each worker and not yet received by it
  running,    \* the task each worker is traversing
  outbox,     \* replies each worker posted and the main thread has not handled
  destroyed   \* destroy() was called

poolVars == <<idle, queue, pending, inbox>>
vars == <<idle, queue, pending, promise, answer, thread, inbox, running,
          outbox, destroyed>>

(* The envelopes {ok: true, result} and {ok: false, error}, each with the  *)
(* task whose traversal it reports.                                        *)
Replies == [task : Tasks, kind : {"result", "error"}]

(* What the traversal of a task's tree reports. *)
Reply(t) ==
  [task |-> t, kind |-> IF t \in Oversized THEN "error" ELSE "result"]

(* The constructor: every worker is created, wired and pushed on the stack. *)
Init ==
  /\ idle = [i \in 1..PoolSize |-> i]
  /\ queue = <<>>
  /\ pending = [w \in Workers |-> NoTask]
  /\ promise = [t \in Tasks |-> "unmade"]
  /\ answer = [t \in Tasks |-> NoTask]
  /\ thread = [w \in Workers |-> "up"]
  /\ inbox = [w \in Workers |-> <<>>]
  /\ running = [w \in Workers |-> NoTask]
  /\ outbox = [w \in Workers |-> <<>>]
  /\ destroyed = FALSE

-----------------------------------------------------------------------------
(* The pool, on the main thread.                                           *)

(* What a port holds after postMessage: a thread that died receives nothing. *)
Posted(w, t) ==
  IF thread[w] = "up" THEN [inbox EXCEPT ![w] = Append(@, t)] ELSE inbox

(* dispatch(worker, task) *)
Dispatch(w, t) ==
  /\ pending' = [pending EXCEPT ![w] = t]
  /\ inbox' = Posted(w, t)

(* idle.push(worker), its entry deleted *)
PushIdle(w) ==
  /\ idle' = Append(idle, w)
  /\ pending' = [pending EXCEPT ![w] = NoTask]
  /\ UNCHANGED <<queue, inbox>>

(* The queue becomes rest, and the worker is given the task t. *)
TakeFromQueue(w, t, rest) ==
  /\ queue' = rest
  /\ Dispatch(w, t)
  /\ UNCHANGED idle

(* Wrong variants of release(): no check that shift() returned a task, the *)
(* shifted task forgotten, the queue used as a stack.                      *)
Release_NoNextCheck(w) ==
  \/ queue # <<>> /\ TakeFromQueue(w, Head(queue), Tail(queue))
  \/ queue = <<>> /\ TakeFromQueue(w, NoTask, <<>>)

Release_ForgetsShifted(w) ==
  \/ /\ queue # <<>>
     /\ queue' = Tail(queue)
     /\ idle' = Append(idle, w)
     /\ pending' = [pending EXCEPT ![w] = NoTask]
     /\ UNCHANGED inbox
  \/ queue = <<>> /\ PushIdle(w)

Release_TakesNewest(w) ==
  \/ queue # <<>> /\ TakeFromQueue(w, Last(queue), Front(queue))
  \/ queue = <<>> /\ PushIdle(w)

(* release(worker), of a worker whose entry its caller deleted: the worker *)
(* takes the oldest queued task, or goes to the top of the idle stack.     *)
Release(w) ==
  \/ queue # <<>> /\ TakeFromQueue(w, Head(queue), Tail(queue))
  \/ queue = <<>> /\ PushIdle(w)

(* run(data): the pool is never told that it is being destroyed. *)
Run(t) ==
  /\ promise[t] = "unmade"
  /\ promise' = [promise EXCEPT ![t] = "pending"]
  /\ \/ /\ idle # <<>>
        /\ idle' = Front(idle)
        /\ Dispatch(Last(idle), t)
        /\ UNCHANGED queue
     \/ /\ idle = <<>>
        /\ queue' = Append(queue, t)
        /\ UNCHANGED <<idle, pending, inbox>>
  /\ UNCHANGED <<answer, thread, running, outbox, destroyed>>

(* resolve(result) or reject(error) of the promise of task t: a promise    *)
(* already settled ignores it.                                             *)
SettlePromise(t, kind, from) ==
  IF promise[t] = "pending"
  THEN /\ promise' = [promise EXCEPT ![t] = IF kind = "result"
                                              THEN "resolved" ELSE "rejected"]
       /\ answer' = [answer EXCEPT ![t] = from]
  ELSE UNCHANGED <<promise, answer>>

(* Wrong variant: a return after reject().                                 *)
OnMessage_ReturnsAfterReject(w) ==
  /\ outbox[w] # <<>>
  /\ pending[w] # NoTask
  /\ LET msg == Head(outbox[w])
     IN  /\ SettlePromise(pending[w], msg.kind, msg.task)
         /\ IF msg.kind = "result" THEN Release(w)
            ELSE /\ pending' = [pending EXCEPT ![w] = NoTask]
                 /\ UNCHANGED <<idle, queue, inbox>>
  /\ outbox' = [outbox EXCEPT ![w] = Tail(@)]
  /\ UNCHANGED <<thread, running, destroyed>>

(* The 'message' handler.  It settles whatever task the Map holds for this *)
(* worker; that there is one is the non-null assertion of the code, and    *)
(* the invariant ReplyHasItsTask.                                          *)
OnMessage(w) ==
  /\ outbox[w] # <<>>
  /\ pending[w] # NoTask
  /\ LET msg == Head(outbox[w])
     IN  SettlePromise(pending[w], msg.kind, msg.task)
  /\ outbox' = [outbox EXCEPT ![w] = Tail(@)]
  /\ Release(w)
  /\ UNCHANGED <<thread, running, destroyed>>

(* Wrong variant: every task of the Map rejected.                          *)
OnError_RejectsEveryEntry(w) ==
  /\ thread[w] = "dying"
  /\ outbox[w] = <<>>
  /\ thread' = [thread EXCEPT ![w] = "gone"]
  /\ promise' = [t \in Tasks |-> IF \E v \in Workers : pending[v] = t
                                THEN "rejected" ELSE promise[t]]
  /\ IF pending[w] = NoTask THEN UNCHANGED poolVars ELSE Release(w)
  /\ UNCHANGED <<answer, running, outbox, destroyed>>

(* The 'error' handler, emitted once when a dead thread's exit is noticed  *)
(* and its last replies have been handled.                                 *)
OnError(w) ==
  /\ thread[w] = "dying"
  /\ outbox[w] = <<>>
  /\ thread' = [thread EXCEPT ![w] = "gone"]
  /\ \/ /\ pending[w] # NoTask
        /\ SettlePromise(pending[w], "error", NoTask)
        /\ Release(w)
     \/ /\ pending[w] = NoTask
        /\ UNCHANGED <<promise, answer, poolVars>>
  /\ UNCHANGED <<running, outbox, destroyed>>

(* destroy(), called once by onModuleDestroy: asks every thread to stop. *)
Destroy ==
  /\ ~destroyed
  /\ destroyed' = TRUE
  /\ UNCHANGED <<idle, queue, pending, promise, answer, thread, inbox, running,
                 outbox>>

-----------------------------------------------------------------------------
(* The worker threads.                                                     *)

(* The worker's 'message' listener is called with the oldest tree posted. *)
Receive(w) ==
  /\ thread[w] = "up"
  /\ running[w] = NoTask
  /\ inbox[w] # <<>>
  /\ running' = [running EXCEPT ![w] = Head(inbox[w])]
  /\ inbox' = [inbox EXCEPT ![w] = Tail(@)]
  /\ UNCHANGED <<idle, queue, pending, promise, answer, thread, outbox,
                 destroyed>>

(* levelOrder() returns or throws: either way an envelope is posted. *)
Respond(w) ==
  /\ running[w] # NoTask
  /\ outbox' = [outbox EXCEPT ![w] = Append(@, Reply(running[w]))]
  /\ running' = [running EXCEPT ![w] = NoTask]
  /\ UNCHANGED <<idle, queue, pending, promise, answer, thread, inbox,
                 destroyed>>

(* The thread stops: what it was doing and what it had not received is lost. *)
Halt(w, state) ==
  /\ thread[w] = "up"
  /\ thread' = [thread EXCEPT ![w] = state]
  /\ running' = [running EXCEPT ![w] = NoTask]
  /\ inbox' = [inbox EXCEPT ![w] = <<>>]
  /\ UNCHANGED <<idle, queue, pending, promise, answer, outbox, destroyed>>

(* An error that escapes the worker's listener, such as running out of memory. *)
Crash(w) == w \in Crashable /\ Halt(w, "dying")

(* terminate() takes effect: the exit emits no 'error' event. *)
Terminate(w) == destroyed /\ Halt(w, "gone")

-----------------------------------------------------------------------------
Next ==
  \/ \E t \in Tasks : Run(t)
  \/ \E w \in Workers : OnMessage(w) \/ OnError(w)
  \/ \E w \in Workers : Receive(w) \/ Respond(w)
  \/ \E w \in Workers : Crash(w) \/ Terminate(w)
  \/ Destroy

Spec == Init /\ [][Next]_vars

(* The event loop handles every event it is given and the system schedules *)
(* every thread; nobody has to call run() or destroy(), or to crash.       *)
Fairness ==
  \A w \in Workers :
    /\ WF_vars(OnMessage(w)) /\ WF_vars(OnError(w))
    /\ WF_vars(Receive(w)) /\ WF_vars(Respond(w))
    /\ WF_vars(Terminate(w))

FairSpec == Spec /\ Fairness
-----------------------------------------------------------------------------
(* Properties.                                                             *)

(* Type correctness: every task handed to a worker, queued, or named by a  *)
(* reply is a real task (release() never dispatches the undefined that     *)
(* shift() returns on an empty queue).                                     *)
TypeOK ==
  /\ idle \in Seq(Workers)
  /\ queue \in Seq(Tasks)
  /\ pending \in [Workers -> Tasks \union {NoTask}]
  /\ promise \in [Tasks -> {"unmade", "pending", "resolved", "rejected"}]
  /\ answer \in [Tasks -> Tasks \union {NoTask}]
  /\ thread \in [Workers -> {"up", "dying", "gone"}]
  /\ inbox \in [Workers -> Seq(Tasks)]
  /\ running \in [Workers -> Tasks \union {NoTask}]
  /\ outbox \in [Workers -> Seq(Replies)]
  /\ destroyed \in BOOLEAN

(* A worker is on the idle stack, once, exactly when the Map has no entry  *)
(* for it: neither handler releases a worker it did not take a task from,  *)
(* whatever the order of a late reply and the 'error' of a dead thread.    *)
IdleXorPending ==
  /\ IsInjective(idle)
  /\ \A w \in Workers : w \in Range(idle) <=> pending[w] = NoTask

(* A call whose promise is unsettled is queued or held by a worker, and    *)
(* nothing else is: no event loses a call or keeps a settled one.          *)
NoTaskLost ==
  \A t \in Tasks :
    promise[t] = "pending" <=>
      t \in Range(queue) \/ \E w \in Workers : pending[w] = t

(* ... and it is there once: no call is queued twice, held by two workers, *)
(* or held by one and still queued.                                        *)
NoTaskTwice ==
  /\ IsInjective(queue)
  /\ \A w \in Workers : pending[w] \notin Range(queue)
  /\ \A v, w \in Workers :
       pending[v] = pending[w] /\ pending[v] # NoTask => v = w

(* Every worker and every call is in exactly one place. *)
InOnePlace == IdleXorPending /\ NoTaskLost /\ NoTaskTwice

(* A call waits in the queue only while no worker is idle. *)
WorkConserving == queue # <<>> => idle = <<>>

(* The three stages of a call held by a worker: its data is in the port,   *)
(* its tree is being traversed, or its own reply is in the other port.     *)
Posting(w) ==
  inbox[w] = <<pending[w]>> /\ running[w] = NoTask /\ outbox[w] = <<>>
Traversing(w) ==
  inbox[w] = <<>> /\ running[w] = pending[w] /\ outbox[w] = <<>>
Replied(w) ==
  /\ inbox[w] = <<>> /\ running[w] = NoTask
  /\ outbox[w] = <<Reply(pending[w])>>
AtRest(w) ==
  inbox[w] = <<>> /\ running[w] = NoTask /\ outbox[w] = <<>>

(* A live thread never forgets a call: the call that the Map holds for it  *)
(* is in exactly one stage.  Nothing is under way without an entry, and    *)
(* all a dead thread can still have is the reply it posted before dying.   *)
HeldCallsUnderWay ==
  \A w \in Workers :
    /\ pending[w] = NoTask => AtRest(w)
    /\ pending[w] # NoTask /\ thread[w] = "up" =>
         Posting(w) \/ Traversing(w) \/ Replied(w)
    /\ pending[w] # NoTask /\ thread[w] # "up" => AtRest(w) \/ Replied(w)

(* The 'message' handler's non-null assertion: when a reply is handled the *)
(* Map holds a task for its worker, and it is the task the reply is about. *)
ReplyHasItsTask ==
  \A w \in Workers :
    outbox[w] # <<>> =>
      /\ Len(outbox[w]) = 1
      /\ pending[w] # NoTask
      /\ Head(outbox[w]).task = pending[w]

(* A promise resolves with the levels of its own tree, and rejects because  *)
(* its own tree is over the limits or because the thread it was given died. *)
OwnAnswer ==
  \A t \in Tasks :
    /\ promise[t] \in {"unmade", "pending"} => answer[t] = NoTask
    /\ promise[t] = "resolved" => answer[t] = t /\ t \notin Oversized
    /\ promise[t] = "rejected" => \/ answer[t] = t /\ t \in Oversized
                                  \/ answer[t] = NoTask

(* A thread that dies rejects at most the one task it held when its 'error' *)
(* was emitted, although its Map entry may have changed since it died.      *)
OneRejectionPerCrash ==
  Cardinality({t \in Tasks : promise[t] = "rejected" /\ answer[t] = NoTask})
    <= Cardinality({w \in Crashable : thread[w] = "gone"})

(* A promise settles by the reply to its own call, or for a crash that     *)
(* rejects no other.                                                       *)
SettledRight == ReplyHasItsTask /\ OwnAnswer /\ OneRejectionPerCrash

(* The pool, threads and ports included, serves calls as PoolService says: *)
(* first come first served, PoolSize at a time, none waiting needlessly.   *)
Service == INSTANCE PoolService WITH
             Servers <- PoolSize,
             free <- Len(idle),
             waiting <- queue,
             serving <- {pending[w] : w \in Workers} \ {NoTask}

ImplementsService == Service!Spec

(* Every call is settled as long as a thread is left, unless the pool is  *)
(* destroyed or the call is left with a worker whose thread is gone: no    *)
(* order of run(), replies, deaths and releases starves a call that is     *)
(* queued or held by a live thread, not even behind a dead worker that     *)
(* went back to the idle stack; and a call whose thread dies is settled by *)
(* the reply it had posted or by the 'error' handler.                      *)
EveryCallSettles ==
  \A t \in Tasks :
    promise[t] = "pending" ~>
      \/ promise[t] # "pending" \/ destroyed
      \/ \E w \in Workers : pending[w] = t /\ thread[w] = "gone"
      \/ \A w \in Workers : thread[w] = "gone"

(* trees.service.ts:14-15, "Each solveLevelOrder() call dispatches the     *)
(* CPU-bound BFS to an idle thread": the worker a call is given to has a   *)
(* thread, unless the pool was destroyed.  Nothing takes a worker whose    *)
(* thread died out of service: one that was idle stays on the stack, where *)
(* run() pops it, and one that held a task is put back there by release(), *)
(* or given the next queued call.                                          *)
GivenToAThread ==
  ~destroyed => \A w \in Workers : pending[w] # NoTask => thread[w] # "gone"
=============================================================================
