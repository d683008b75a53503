------------------------------- MODULE PreWarmUp -------------------------------
(***************************************************************************)
(* pre_warmup_curl of scripts/heptathlon.py: a shell makes a sentinel      *)
(* file, starts in the background one process that sleeps and removes it   *)
(* and Parallel loops that send requests while the file is there, and      *)
(* waits for all of them.  The measurement that follows must not overlap   *)
(* with what they send.                                                    *)
(***************************************************************************)
EXTENDS Naturals

CONSTANT Parallel  \* the loops (PRE_WARMUP_PARALLEL): a natural number

Loops == 1..Parallel

VARIABLES
  sentinel,  \* the file is there
  sleeper,   \* the process that removes it: "none", "asleep", "awake", "done"
  loop,      \* each loop: "none", "test", "curl" (a request is on its way), "done"
  shell,     \* "start", "spawn", "wait", "returned"
  late       \* observed: requests each loop began after the file was removed

vars == <<sentinel, sleeper, loop, shell, late>>

(* mktemp may fail; the variable is then empty, and so no file is found.   *)
Init ==
  /\ sentinel \in BOOLEAN
  /\ sleeper = "none"
  /\ loop = [i \in Loops |-> "none"]
  /\ shell = "start"
  /\ late = [i \in Loops |-> 0]

StartSleeper ==
  /\ shell = "start"
  /\ sleeper' = "asleep"
  /\ shell' = "spawn"
  /\ UNCHANGED <<sentinel, loop, late>>

(* The for loop of the shell: one loop after the other, then wait.         *)
Spawn ==
  /\ shell = "spawn"
  /\ \/ \E i \in Loops :
          /\ loop[i] = "none"
          /\ \A j \in 1..(i - 1) : loop[j] # "none"
          /\ loop' = [loop EXCEPT ![i] = "test"]
          /\ UNCHANGED shell
     \/ /\ \A i \in Loops : loop[i] # "none"
        /\ shell' = "wait"
        /\ UNCHANGED loop
  /\ UNCHANGED <<sentinel, sleeper, late>>

Wake ==
  /\ sleeper = "asleep"
  /\ sleeper' = "awake"
  /\ UNCHANGED <<sentinel, loop, shell, late>>

(* The process that sleeps removes nothing. *)
Remove_Nothing ==
  /\ sleeper = "awake"
  /\ sleeper' = "done"
  /\ UNCHANGED <<sentinel, loop, shell, late>>

Remove ==
  /\ sleeper = "awake"
  /\ sleeper' = "done"
  /\ sentinel' = FALSE
  /\ UNCHANGED <<loop, shell, late>>

(* The test is one step, the request it lets through begins in another.    *)
Test(i) ==
  /\ loop[i] = "test"
  /\ loop' = [loop EXCEPT ![i] = IF sentinel THEN "send" ELSE "done"]
  /\ UNCHANGED <<sentinel, sleeper, shell, late>>

Send(i) ==
  /\ loop[i] = "send"
  /\ loop' = [loop EXCEPT ![i] = "curl"]
  /\ late' = IF sentinel THEN late ELSE [late EXCEPT ![i] = @ + 1]
  /\ UNCHANGED <<sentinel, sleeper, shell>>

(* The request is answered, or fails: the loop goes on either way.  It has *)
(* no time limit.                                                          *)
Answer(i) ==
  /\ loop[i] = "curl"
  /\ loop' = [loop EXCEPT ![i] = "test"]
  /\ UNCHANGED <<sentinel, sleeper, shell, late>>

(* No wait at the end of the shell. *)
Return_NoWait ==
  /\ shell = "wait"
  /\ shell' = "returned"
  /\ UNCHANGED <<sentinel, sleeper, loop, late>>

Return ==
  /\ shell = "wait"
  /\ sleeper = "done"
  /\ \A i \in Loops : loop[i] = "done"
  /\ shell' = "returned"
  /\ UNCHANGED <<sentinel, sleeper, loop, late>>

Shell == StartSleeper \/ Spawn \/ Return
Sleeper == Wake \/ Remove

(* What a loop does by itself; an answer is the service's.                 *)
Local(i) == Test(i) \/ Send(i)
Loop(i) == Local(i) \/ Answer(i)

Next == Shell \/ Sleeper \/ \E i \in Loops : Loop(i)

Spec == Init /\ [][Next]_vars

----------------------------------------------------------------------------
TypeOK ==
  /\ sentinel \in BOOLEAN
  /\ sleeper \in {"none", "asleep", "awake", "done"}
  /\ loop \in [Loops -> {"none", "test", "send", "curl", "done"}]
  /\ shell \in {"start", "spawn", "wait", "returned"}
  /\ late \in [Loops -> 0..1]

(* No request of the warm-up is under way, nor will one begin, when the    *)
(* function returns and the wrk2 phases start.                             *)
QuietWhenReturned ==
  shell = "returned" => \A i \in Loops : loop[i] = "done"

(* The load is kept up to the end: no loop stops while the file is there.  *)
NobodyStopsEarly == sentinel => \A i \in Loops : loop[i] # "done"
=============================================================================
