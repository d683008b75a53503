---------------------------- MODULE MCWorkerPool -----------------------------
(* Instances of WorkerPool for TLC: two threads and up to four calls, one   *)
(* of them with a tree over the limits, so that calls queue behind busy     *)
(* threads, behind dying ones and behind dead ones.                         *)
EXTENDS WorkerPool
CONSTANTS t1, t2, t3, t4

ThreeTasks == {t1, t2, t3}
FourTasks == {t1, t2, t3, t4}
OneOversized == {t2}
EveryThread == Workers
FirstThread == {1}
=============================================================================
