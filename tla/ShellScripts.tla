----------------------------- MODULE ShellScripts -----------------------------
(***************************************************************************)
(* What the scripts that prepare the benchmark have in common: setup-iam,  *)
(* deploy, create-apprunner-services and launch-benchmark-ec2.  A script   *)
(* issues one command after the other under set -e.  Any command can fail  *)
(* for a reason outside the script, and the script can be killed between   *)
(* any two.  An operator runs it again.                                    *)
(***************************************************************************)
EXTENDS Naturals

CONSTANT MaxFaults  \* bound on the failures that are no fault of the scripts

ASSUME FaultsAssumption == MaxFaults \in Nat

VARIABLES
  status,  \* "running", "stopped" by an error or a kill, or how it ended
  at,      \* the command to issue next
  clean,   \* observed: this run met no outside failure and was not killed
  faults   \* observed: the outside failures of all runs

At(command) == status = "running" /\ at = command

Fault == faults < MaxFaults /\ faults' = faults + 1

(* The command is answered well, or fails. *)
Answered(ok) ==
  /\ clean' = (clean /\ ok)
  /\ IF ok THEN UNCHANGED faults ELSE Fault

ErrExit == status' = "stopped" /\ UNCHANGED at

(* The script ends with the failure of its command, or of its operator. *)
Died ==
  /\ ErrExit
  /\ clean' = FALSE
  /\ Fault

Killed == status = "running" /\ Died
=============================================================================
