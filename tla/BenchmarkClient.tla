---------------------------- MODULE BenchmarkClient ----------------------------
(***************************************************************************)
(* scripts/launch-benchmark-ec2.sh: the security group and the instance    *)
(* from which the load is sent, the user data with which the instance sets *)
(* itself up, and scripts/setup-ec2.sh, run on it by hand.  One action for *)
(* each command that reads or changes something: a launch can be killed    *)
(* between any two, and any of them can fail, with or without effect.      *)
(*                                                                         *)
(* All three scripts run under set -e, which does not see a failure inside *)
(* an && list.                                                             *)
(***************************************************************************)
EXTENDS ShellScripts

CONSTANTS
  MaxTries,    \* times the launch looks for the end of the set-up (40)
  MaxLaunches  \* bound on the launches

ASSUME ClientAssumption == MaxTries \in Nat /\ MaxLaunches \in Nat

VARIABLES
  group,     \* algo-benchmark-sg: "absent", "closed" or "open" for ssh
  instance,  \* what became of the instance of each launch
  launch,    \* the launch under way, or the last one
  wait,      \* --wait was given
  tries,     \* times it looked
  said,      \* it printed that the set-up is complete
  halfway    \* observed: a launch died with the group made and not opened

launching == <<launch, status, at, wait, tries, said>>
observed == <<clean, halfway, faults>>
clientVars == <<group, instance, launching, observed>>

(* The steps of the user data and of setup-ec2.sh, in their order. *)
UserData == <<"dnf", "clone", "build", "pip", "repo", "log">>
SetupEc2 == <<"install", "packages", "wrk2", "make", "copy">>

Nowhere == "nowhere"

(* An instance: "has" is what was installed, "repo" where algo-test was    *)
(* cloned, "cwd" the directory of the user data, "log" SETUP COMPLETE.     *)
NotLaunched == [state |-> "none", data |-> "dnf", cwd |-> "home", has |-> {},
                repo |-> Nowhere, log |-> FALSE, hand |-> "none"]

ClientInit ==
  /\ group \in {"absent", "open"}
  /\ instance = [l \in 1..MaxLaunches |-> NotLaunched]
  /\ launch = 0
  /\ status = "idle"
  /\ at = "describe-images"
  /\ wait = FALSE
  /\ tries = 0
  /\ said = FALSE
  /\ clean = TRUE
  /\ halfway = FALSE
  /\ faults = 0

(* The launch dies of an outside failure. *)
LaunchDied == Died /\ halfway' = (halfway \/ group' = "closed")

(* An answer of AWS: as it should be, or a failure, though what was asked  *)
(* for may be done all the same.                                           *)
Replied(ok, done, command) ==
  /\ ok => done
  /\ IF ok THEN at' = command /\ UNCHANGED <<status, observed>>
     ELSE LaunchDied

Launch(flag) ==
  /\ status # "running"
  /\ launch < MaxLaunches
  /\ launch' = launch + 1
  /\ status' = "running"
  /\ at' = "describe-images"
  /\ wait' = flag
  /\ tries' = 0
  /\ said' = FALSE
  /\ clean' = TRUE
  /\ UNCHANGED <<group, instance, halfway, faults>>

DescribeImages ==
  /\ At("describe-images")
  /\ UNCHANGED <<group, instance, launch, wait, tries, said>>
  /\ \E ok \in BOOLEAN : Replied(ok, TRUE, "describe-security-groups")

-----------------------------------------------------------------------------
(* The security group.                                                     *)

(* Wrong variant: the rule is added to a group that is there as well. *)
DescribeSecurityGroups_Opens ==
  /\ At("describe-security-groups")
  /\ UNCHANGED <<group, instance, launch, wait, tries, said>>
  /\ \E ok \in BOOLEAN :
       Replied(ok, TRUE, IF group = "absent" THEN "create" ELSE "authorize")

(* A group that exists is taken to be open. *)
DescribeSecurityGroups ==
  /\ At("describe-security-groups")
  /\ UNCHANGED <<group, instance, launch, wait, tries, said>>
  /\ \E ok \in BOOLEAN :
       Replied(ok, TRUE, IF group = "absent" THEN "create" ELSE "run-instances")

CreateSecurityGroup ==
  /\ At("create")
  /\ \E ok, done \in BOOLEAN :
       /\ group' = IF done THEN "closed" ELSE group
       /\ Replied(ok, done, "authorize")
  /\ UNCHANGED <<instance, launch, wait, tries, said>>

(* Wrong variant: the answer is not looked at. *)
AuthorizeIngress_Unchecked ==
  /\ At("authorize")
  /\ group = "closed"
  /\ \/ group' = "open" /\ UNCHANGED faults
     \/ group' = "closed" /\ Fault
  /\ at' = "run-instances"
  /\ UNCHANGED <<instance, launch, wait, tries, said, status, clean, halfway>>

(* A rule that is there already is refused. *)
AuthorizeIngress ==
  /\ At("authorize")
  /\ \/ /\ group = "open"
        /\ ErrExit
        /\ UNCHANGED <<group, observed>>
     \/ /\ group = "closed"
        /\ \E ok, done \in BOOLEAN :
             /\ group' = IF done THEN "open" ELSE group
             /\ Replied(ok, done, "run-instances")
  /\ UNCHANGED <<instance, launch, wait, tries, said>>

-----------------------------------------------------------------------------
(* The instance.                                                           *)

RunInstances ==
  /\ At("run-instances")
  /\ UNCHANGED <<group, launch, wait, tries, said>>
  /\ \E ok, done \in BOOLEAN :
       /\ Replied(ok, done, "wait")
       /\ instance' = IF done
                      THEN [instance EXCEPT ![launch].state = "pending"]
                      ELSE instance

(* Amazon starts the instance, and the instance its user data. *)
Boot(l) ==
  /\ instance[l].state = "pending"
  /\ instance' = [instance EXCEPT ![l].state = "running"]
  /\ UNCHANGED <<group, launching, observed>>

(* aws ec2 wait gives up after a while. *)
WaitRunning ==
  /\ At("wait")
  /\ UNCHANGED <<group, instance, launch, wait, tries, said>>
  /\ \E ok \in BOOLEAN :
       /\ ok => instance[launch].state = "running"
       /\ Replied(ok, TRUE, "describe-instances")

Ready == status' = "ready" /\ UNCHANGED at

DescribeInstances ==
  /\ At("describe-instances")
  /\ UNCHANGED <<group, instance, launch, wait, tries, said>>
  /\ \/ /\ ~wait /\ Ready /\ UNCHANGED observed
     \/ /\ wait /\ Replied(TRUE, TRUE, "poll")
     \/ Replied(FALSE, TRUE, "poll")

Reachable(l) == instance[l].state = "running" /\ group = "open"

(* What ssh brings back, which may be nothing. *)
Finds(log) == log => Reachable(launch) /\ instance[launch].log

(* Wrong variant: as long as it takes. *)
Poll_Forever ==
  /\ At("poll")
  /\ \E log \in BOOLEAN :
       /\ Finds(log)
       /\ said' = log
       /\ IF log THEN Ready ELSE UNCHANGED <<status, at>>
  /\ UNCHANGED <<group, instance, launch, wait, tries, observed>>

(* Wrong variant: one time too many. *)
Poll_OnceMore ==
  /\ At("poll")
  /\ tries' = tries + 1
  /\ \E log \in BOOLEAN :
       /\ Finds(log)
       /\ said' = log
       /\ IF log \/ tries = MaxTries THEN Ready ELSE UNCHANGED <<status, at>>
  /\ UNCHANGED <<group, instance, launch, wait, observed>>

(* It looks MaxTries times, and goes on in any case. *)
Poll ==
  /\ At("poll")
  /\ \/ /\ tries = MaxTries
        /\ Ready
        /\ UNCHANGED <<said, tries>>
     \/ /\ tries < MaxTries
        /\ tries' = tries + 1
        /\ \E log \in BOOLEAN :
             /\ Finds(log)
             /\ said' = log
             /\ IF log THEN Ready ELSE UNCHANGED <<status, at>>
  /\ UNCHANGED <<group, instance, launch, wait, observed>>

KillLaunch ==
  /\ status = "running"
  /\ UNCHANGED <<group, instance, launch, wait, tries, said>>
  /\ LaunchDied

-----------------------------------------------------------------------------
(* What runs on an instance.                                               *)

Behind(steps, step) ==
  LET i == CHOOSE j \in DOMAIN steps : steps[j] = step
  IN  IF i + 1 \in DOMAIN steps THEN steps[i + 1] ELSE "done"

(* Wrong variant: no set -e. *)
UserDataStep_GoesOn(l) ==
  LET c == instance[l] IN
  /\ c.state = "running"
  /\ c.data \in {"dnf", "clone", "pip", "log"}
  /\ \E ok \in BOOLEAN :
       /\ IF ok THEN UNCHANGED faults ELSE Fault
       /\ instance' = [instance EXCEPT
            ![l] = [c EXCEPT !.data = Behind(UserData, c.data),
                             !.has = IF ok THEN @ \union {c.data} ELSE @,
                             !.log = @ \/ (ok /\ c.data = "log")]]
  /\ UNCHANGED <<group, launching, clean, halfway>>

(* A command that fails ends the user data. *)
UserDataStep(l) ==
  LET c == instance[l] IN
  /\ c.state = "running"
  /\ c.data \in {"dnf", "clone", "pip", "log"}
  /\ \/ /\ Fault
        /\ instance' = [instance EXCEPT ![l].data = "failed"]
     \/ /\ UNCHANGED faults
        /\ instance' = [instance EXCEPT
             ![l] = [c EXCEPT !.data = Behind(UserData, c.data),
                              !.has = @ \union {c.data},
                              !.log = c.data = "log"]]
  /\ UNCHANGED <<group, launching, clean, halfway>>

(* cd wrk2 && make -j4 && cp wrk2 /usr/local/bin/wrk2 && cd ..: the        *)
(* Makefile builds a program called wrk, so cp finds none called wrk2; the *)
(* failure goes unseen, "copy" stays undone, and the rest runs in the      *)
(* directory wrk2.                                                         *)
BuildWrk2(l) ==
  /\ instance[l].state = "running"
  /\ instance[l].data = "build"
  /\ instance' = [instance EXCEPT ![l].data = Behind(UserData, "build"),
                                  ![l].cwd = "wrk2"]
  /\ UNCHANGED <<group, launching, observed>>

(* git clone ... || true *)
CloneRepo(l) ==
  LET c == instance[l] IN
  /\ c.state = "running"
  /\ c.data = "repo"
  /\ \E ok \in BOOLEAN :
       /\ IF ok THEN UNCHANGED faults ELSE Fault
       /\ instance' = [instance EXCEPT ![l].data = Behind(UserData, "repo"),
                                       ![l].repo = IF ok THEN c.cwd ELSE @]
  /\ UNCHANGED <<group, launching, clean, halfway>>

(* Someone logs in, whatever the user data is at, and starts setup-ec2.sh, *)
(* again if it stopped or ended.                                           *)
RunSetup(l) ==
  /\ Reachable(l)
  /\ instance[l].hand \in {"none", "failed", "done"}
  /\ instance' = [instance EXCEPT ![l].hand = "install"]
  /\ UNCHANGED <<group, launching, observed>>

(* wrk2 is built unless the command is found; a command that fails ends    *)
(* the set-up.                                                             *)
SetupStep(l) ==
  LET c == instance[l] IN
  /\ c.hand \in {"install", "packages", "wrk2", "make", "copy"}
  /\ \/ /\ Fault
        /\ instance' = [instance EXCEPT ![l].hand = "failed"]
     \/ /\ UNCHANGED faults
        /\ instance' = [instance EXCEPT
             ![l].hand = IF c.hand = "wrk2" /\ "copy" \in c.has
                         THEN "done" ELSE Behind(SetupEc2, c.hand),
             ![l].has = @ \union ({c.hand} \ {"wrk2"})]
  /\ UNCHANGED <<group, launching, clean, halfway>>

-----------------------------------------------------------------------------
LaunchCommand ==
  \/ DescribeImages \/ DescribeSecurityGroups \/ CreateSecurityGroup
  \/ AuthorizeIngress \/ RunInstances \/ WaitRunning \/ DescribeInstances
  \/ Poll

OnInstance(l) ==
  Boot(l) \/ UserDataStep(l) \/ BuildWrk2(l) \/ CloneRepo(l) \/ RunSetup(l)
  \/ SetupStep(l)

ClientNext ==
  \/ \E flag \in BOOLEAN : Launch(flag)
  \/ LaunchCommand
  \/ KillLaunch
  \/ \E l \in 1..MaxLaunches : OnInstance(l)

ClientSpec == ClientInit /\ [][ClientNext]_clientVars

(* The commands of the launch are run, and Amazon starts what it accepted. *)
(* Nothing is assumed of the set-up on the instance.                       *)
ClientFairSpec ==
  /\ ClientSpec
  /\ WF_clientVars(LaunchCommand)
  /\ \A l \in 1..MaxLaunches : WF_clientVars(Boot(l))
-----------------------------------------------------------------------------
(* Properties.                                                             *)

(* Type correctness. *)
ClientTypeOK ==
  /\ group \in {"absent", "closed", "open"}
  /\ instance \in [1..MaxLaunches ->
       [state : {"none", "pending", "running"},
        data : {"dnf", "clone", "build", "pip", "repo", "log", "done", "failed"},
        cwd : {"home", "wrk2"},
        has : SUBSET {"dnf", "clone", "pip", "log", "install", "packages",
                      "make", "copy"},
        repo : {Nowhere, "home", "wrk2"},
        log : BOOLEAN,
        hand : {"none", "install", "packages", "wrk2", "make", "copy", "done",
                "failed"}]]
  /\ launch \in 0..MaxLaunches
  /\ status \in {"idle", "running", "stopped", "ready"}
  /\ tries \in 0..MaxTries
  /\ {wait, said, clean, halfway} \subseteq BOOLEAN
  /\ faults \in 0..MaxFaults

(* When the launch prints EC2 READY its own instance runs and takes the    *)
(* ssh command it prints, unless an earlier launch died between making the *)
(* security group and opening it: no later one opens it then.              *)
ReadyMeansReachable ==
  status = "ready" =>
    /\ instance[launch].state = "running"
    /\ group = "open" \/ halfway

(* Whatever earlier launches left, a launch that meets no fault is not     *)
(* stopped by it.                                                          *)
CleanLaunchSucceeds == status = "stopped" => ~clean

(* A report says no more than what was done.  The launch reports SETUP     *)
(* COMPLETE of its own instance only; the log has it only behind the       *)
(* commands whose failure ends the user data; setup-ec2.sh, which may run  *)
(* beside the user data and be started again, ends well only with all it   *)
(* installs, wrk2 in /usr/local/bin among it.  Of wrk2 and the repository, *)
(* which launch-benchmark-ec2.sh:76 and :166 promise, the log says         *)
(* nothing: wrk2 is there only where someone started setup-ec2.sh, and     *)
(* ~/algo-test never is.                                                   *)
ReportsAreBacked ==
  /\ said => instance[launch].log
  /\ \A l \in 1..MaxLaunches :
       /\ instance[l].log => {"dnf", "clone", "pip"} \subseteq instance[l].has
       /\ instance[l].hand = "done" =>
            {"install", "packages", "copy"} \subseteq instance[l].has
       /\ "copy" \in instance[l].has => instance[l].hand # "none"
       /\ instance[l].repo # "home"

(* Every launch ends, the one that waits for a set-up that failed too. *)
LaunchEnds == status = "running" ~> status # "running"
=============================================================================
