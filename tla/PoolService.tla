----------------------------- MODULE PoolService -----------------------------
(***************************************************************************)
(* What a caller of the worker-thread pool is promised, with no threads    *)
(* and no messages: Servers requests are served at a time, the others wait *)
(* in arrival order, a server is never free while a request waits, and a   *)
(* request is settled at most once, with the outcome of its own tree.      *)
(* WorkerPool is shown to implement this specification.                    *)
(***************************************************************************)
EXTENDS Naturals, Sequences

CONSTANTS
  Servers,    \* number of requests served at a time
  Tasks,      \* the requests callers may make
  NoTask,     \* "no request"
  Oversized   \* the requests whose tree the traversal refuses

VARIABLES
  free,       \* servers that serve nothing
  waiting,    \* requests not yet served, oldest first
  serving,    \* requests being served
  promise,    \* what the caller of each request sees
  answer      \* the request whose outcome settled each request, or NoTask

vars == <<free, waiting, serving, promise, answer>>

Init ==
  /\ free = Servers
  /\ waiting = <<>>
  /\ serving = {}
  /\ promise = [t \in Tasks |-> "unmade"]
  /\ answer = [t \in Tasks |-> NoTask]

(* A request arrives: it is served at once if a server is free. *)
Arrive(t) ==
  /\ promise[t] = "unmade"
  /\ promise' = [promise EXCEPT ![t] = "pending"]
  /\ \/ /\ free > 0
        /\ free' = free - 1
        /\ serving' = serving \union {t}
        /\ UNCHANGED waiting
     \/ /\ free = 0
        /\ waiting' = Append(waiting, t)
        /\ UNCHANGED <<free, serving>>
  /\ UNCHANGED answer

(* The outcomes a request may be settled with: its own levels, its own     *)
(* refusal, or the loss of the server that had it.                         *)
Settled(t) ==
  \/ /\ t \notin Oversized
     /\ promise' = [promise EXCEPT ![t] = "resolved"]
     /\ answer' = [answer EXCEPT ![t] = t]
  \/ /\ t \in Oversized
     /\ promise' = [promise EXCEPT ![t] = "rejected"]
     /\ answer' = [answer EXCEPT ![t] = t]
  \/ /\ promise' = [promise EXCEPT ![t] = "rejected"]
     /\ UNCHANGED answer

(* A served request is settled, and its server takes the oldest waiting one. *)
Settle(t) ==
  /\ t \in serving
  /\ Settled(t)
  /\ \/ /\ waiting # <<>>
        /\ waiting' = Tail(waiting)
        /\ serving' = (serving \ {t}) \union {Head(waiting)}
        /\ UNCHANGED free
     \/ /\ waiting = <<>>
        /\ free' = free + 1
        /\ serving' = serving \ {t}
        /\ UNCHANGED waiting

Next == \E t \in Tasks : Arrive(t) \/ Settle(t)

Spec == Init /\ [][Next]_vars
=============================================================================
