--------------------------- MODULE AwsScriptsProofs ---------------------------
(***************************************************************************)
(* Proofs about the scripts that prepare the benchmark: BenchmarkClient,   *)
(* ServiceRollout and IamSetup, for any number of runs and of failures     *)
(* between or within their commands.  The three share the variables of     *)
(* ShellScripts; each theorem is about the specification of one of them.   *)
(***************************************************************************)
EXTENDS BenchmarkClient, ServiceRollout, IamSetup, TLAPS

USE FaultsAssumption

-----------------------------------------------------------------------------
(* BenchmarkClient.                                                        *)

DataSteps == {"dnf", "clone", "build", "pip", "repo", "log", "done", "failed"}

HandSteps ==
  {"none", "install", "packages", "wrk2", "make", "copy", "done", "failed"}

Parts == {"dnf", "clone", "pip", "log", "install", "packages", "make", "copy"}

Machine == [state : {"none", "pending", "running"}, data : DataSteps,
            cwd : {"home", "wrk2"}, has : SUBSET Parts,
            repo : {Nowhere, "home", "wrk2"}, log : BOOLEAN, hand : HandSteps]

(* What the step of setup-ec2.sh that comes next says of those behind it.  *)
HandInOrder(hand, has) ==
  /\ hand \in {"packages", "wrk2", "make", "copy", "done"} => "install" \in has
  /\ hand \in {"wrk2", "make", "copy", "done"} => "packages" \in has
  /\ hand = "done" => "copy" \in has

(* The same for the user data.                                             *)
SetUpInOrder(c) ==
  /\ c.data \in {"clone", "build", "pip", "repo", "log", "done"} => "dnf" \in c.has
  /\ c.data \in {"build", "pip", "repo", "log", "done"} => "clone" \in c.has
  /\ c.data \in {"repo", "log", "done"} => "pip" \in c.has
  /\ c.log => c.data = "done"
  /\ c.data \in {"pip", "repo", "log", "done"} => c.cwd = "wrk2"
  /\ c.repo # "home"
  /\ "copy" \in c.has => c.hand # "none"
  /\ HandInOrder(c.hand, c.has)

(* The commands behind the security group, and behind the wait.            *)
BehindGroup == {"run-instances", "wait", "describe-instances", "poll"}
BehindWait == {"describe-instances", "poll"}

ClientTyped ==
  /\ group \in {"absent", "closed", "open"}
  /\ instance \in [1..MaxLaunches -> Machine]
  /\ launch \in 0..MaxLaunches
  /\ status \in {"idle", "running", "stopped", "ready"}
  /\ status # "idle" => launch # 0
  /\ tries \in 0..MaxTries
  /\ wait \in BOOLEAN /\ said \in BOOLEAN /\ clean \in BOOLEAN
  /\ halfway \in BOOLEAN
  /\ faults \in 0..MaxFaults

(* A group is closed while a launch is about to open it, and behind one    *)
(* that died there.                                                        *)
GroupIs ==
  /\ group = "closed" => halfway \/ At("authorize")
  /\ At("authorize") => group = "closed"
  /\ status = "ready" \/ (status = "running" /\ at \in BehindGroup) =>
       group # "absent"

(* The instance a launch is behind. *)
InstanceIs ==
  /\ status = "ready" \/ (status = "running" /\ at \in BehindWait) =>
       instance[launch].state = "running"
  /\ said => launch # 0 /\ instance[launch].log
  /\ \A l \in 1..MaxLaunches : SetUpInOrder(instance[l])

ClientInv ==
  ClientTyped /\ GroupIs /\ InstanceIs /\ CleanLaunchSucceeds

(* Before the first launch the invariant holds. *)
LEMMA ClientInitially == ClientInit => ClientInv
<1> SUFFICES ASSUME ClientInit PROVE ClientInv
  OBVIOUS
<1>1. NotLaunched \in Machine /\ SetUpInOrder(NotLaunched)
  BY DEF NotLaunched, Machine, DataSteps, HandSteps, Parts, SetUpInOrder,
     HandInOrder, Nowhere
<1>2. /\ instance \in [1..MaxLaunches -> Machine]
      /\ \A l \in 1..MaxLaunches : SetUpInOrder(instance[l])
  BY <1>1 DEF ClientInit
<1>3. 0 \in 0..MaxLaunches /\ 0 \in 0..MaxTries /\ 0 \in 0..MaxFaults
  BY ClientAssumption
<1>4. ClientTyped
  BY <1>2, <1>3 DEF ClientInit, ClientTyped
<1>5. QED
  BY <1>2, <1>4 DEF ClientInit, ClientInv, GroupIs, InstanceIs,
     CleanLaunchSucceeds, At

(* A launch that dies leaves the group closed only as the invariant says,  *)
(* and counts as one with a fault.                                         *)
LEMMA DeathOfLaunch ==
  ASSUME ClientInv, status = "running", LaunchDied,
         group' \in {"absent", "closed", "open"}
  PROVE  /\ status' = "stopped" /\ launch # 0
         /\ GroupIs' /\ CleanLaunchSucceeds'
         /\ clean' \in BOOLEAN /\ halfway' \in BOOLEAN
         /\ faults' \in 0..MaxFaults
<1>1. /\ status' = "stopped" /\ launch # 0 /\ clean' = FALSE
      /\ halfway' = (halfway \/ group' = "closed")
      /\ faults < MaxFaults /\ faults' = faults + 1
  BY DEF ClientInv, ClientTyped, LaunchDied, Died, Fault, ErrExit
<1>2. faults' \in 0..MaxFaults
  BY <1>1 DEF ClientInv, ClientTyped
<1>3. halfway' \in BOOLEAN
  BY <1>1 DEF ClientInv, ClientTyped
<1>4. GroupIs'
  BY <1>1 DEF GroupIs, At
<1>5. QED  BY <1>1, <1>2, <1>3, <1>4 DEF CleanLaunchSucceeds

(* What no command of the launch but run-instances touches.                *)
LEMMA InstancesStay ==
  ASSUME ClientInv, UNCHANGED <<instance, launch>>,
         said' => launch # 0 /\ instance[launch].log,
         status' = "ready" \/ (status' = "running" /\ at' \in BehindWait) =>
           instance[launch].state = "running"
  PROVE  InstanceIs'
BY DEF ClientInv, ClientTyped, InstanceIs

(* A new launch knows nothing of the account yet. *)
LEMMA LaunchStep ==
  ASSUME ClientInv, NEW flag \in BOOLEAN, Launch(flag)
  PROVE  ClientInv'
<1>1. /\ launch < MaxLaunches /\ launch' = launch + 1
      /\ status # "running" /\ status' = "running" /\ at' = "describe-images"
      /\ wait' = flag /\ tries' = 0 /\ said' = FALSE /\ clean' = TRUE
      /\ UNCHANGED <<group, instance, halfway, faults>>
  BY DEF Launch
<1>2. ClientTyped'
  <2>1. launch' \in 0..MaxLaunches /\ launch' # 0 /\ tries' \in 0..MaxTries
    BY <1>1, ClientAssumption DEF ClientInv, ClientTyped
  <2>2. QED  BY <1>1, <2>1 DEF ClientInv, ClientTyped
<1>3. GroupIs'
  BY <1>1 DEF ClientInv, GroupIs, At, BehindGroup
<1>4. InstanceIs'
  BY <1>1 DEF ClientInv, InstanceIs, BehindWait
<1>5. CleanLaunchSucceeds'
  BY <1>1 DEF CleanLaunchSucceeds
<1>6. QED  BY <1>2, <1>3, <1>4, <1>5 DEF ClientInv

(* Asking for the image and the key changes nothing. *)
LEMMA DescribeImagesStep ==
  ASSUME ClientInv, DescribeImages
  PROVE  ClientInv'
<1>1. /\ status = "running" /\ at = "describe-images"
      /\ UNCHANGED <<group, instance, launch, wait, tries, said>>
  BY DEF DescribeImages, At
<1>2. \/ /\ at' = "describe-security-groups"
         /\ UNCHANGED <<status, clean, halfway, faults>>
      \/ LaunchDied
  BY DEF DescribeImages, Replied, observed
<1>3. CASE LaunchDied
  BY <1>1, <1>3, DeathOfLaunch, InstancesStay
     DEF ClientInv, ClientTyped, InstanceIs
<1>4. CASE /\ at' = "describe-security-groups"
           /\ UNCHANGED <<status, clean, halfway, faults>>
  <2>1. InstanceIs'
    BY <1>1, <1>4, InstancesStay DEF BehindWait, ClientInv, InstanceIs
  <2>2. GroupIs'
    BY <1>1, <1>4 DEF ClientInv, GroupIs, At, BehindGroup
  <2>3. QED
    BY <1>1, <1>4, <2>1, <2>2 DEF ClientInv, ClientTyped, CleanLaunchSucceeds
<1>5. QED  BY <1>2, <1>3, <1>4

(* A group that is found is taken for open. *)
LEMMA DescribeSecurityGroupsStep ==
  ASSUME ClientInv, DescribeSecurityGroups
  PROVE  ClientInv'
<1>1. /\ status = "running" /\ at = "describe-security-groups"
      /\ UNCHANGED <<group, instance, launch, wait, tries, said>>
  BY DEF DescribeSecurityGroups, At
<1>2. \/ /\ at' = IF group = "absent" THEN "create" ELSE "run-instances"
         /\ UNCHANGED <<status, clean, halfway, faults>>
      \/ LaunchDied
  BY DEF DescribeSecurityGroups, Replied, observed
<1>3. CASE LaunchDied
  BY <1>1, <1>3, DeathOfLaunch, InstancesStay
     DEF ClientInv, ClientTyped, InstanceIs
<1>4. CASE /\ at' = IF group = "absent" THEN "create" ELSE "run-instances"
           /\ UNCHANGED <<status, clean, halfway, faults>>
  <2>1. InstanceIs'
    BY <1>1, <1>4, InstancesStay DEF BehindWait, ClientInv, InstanceIs
  <2>2. GroupIs'
    BY <1>1, <1>4 DEF ClientInv, GroupIs, At, BehindGroup
  <2>3. QED
    BY <1>1, <1>4, <2>1, <2>2 DEF ClientInv, ClientTyped, CleanLaunchSucceeds
<1>5. QED  BY <1>2, <1>3, <1>4

(* A group that is created is still closed. *)
LEMMA CreateSecurityGroupStep ==
  ASSUME ClientInv, CreateSecurityGroup
  PROVE  ClientInv'
<1>1. /\ status = "running" /\ at = "create"
      /\ UNCHANGED <<instance, launch, wait, tries, said>>
      /\ group' \in {group, "closed"}
      /\ group' \in {"absent", "closed", "open"}
  BY DEF CreateSecurityGroup, At, ClientInv, ClientTyped
<1>2. \/ /\ at' = "authorize" /\ group' = "closed"
         /\ UNCHANGED <<status, clean, halfway, faults>>
      \/ LaunchDied
  BY DEF CreateSecurityGroup, Replied, observed
<1>3. CASE LaunchDied
  BY <1>1, <1>3, DeathOfLaunch, InstancesStay
     DEF ClientInv, ClientTyped, InstanceIs
<1>4. CASE /\ at' = "authorize" /\ group' = "closed"
           /\ UNCHANGED <<status, clean, halfway, faults>>
  <2>1. InstanceIs'
    BY <1>1, <1>4, InstancesStay DEF BehindWait, ClientInv, InstanceIs
  <2>2. GroupIs'
    BY <1>1, <1>4 DEF GroupIs, At, BehindGroup
  <2>3. QED
    BY <1>1, <1>4, <2>1, <2>2 DEF ClientInv, ClientTyped, CleanLaunchSucceeds
<1>5. QED  BY <1>2, <1>3, <1>4

(* Only behind a failure of this command is the group left closed. *)
LEMMA AuthorizeIngressStep ==
  ASSUME ClientInv, AuthorizeIngress
  PROVE  ClientInv'
<1>1. /\ status = "running" /\ at = "authorize" /\ group = "closed"
      /\ UNCHANGED <<instance, launch, wait, tries, said>>
  BY DEF AuthorizeIngress, At, ClientInv, GroupIs
<1>2. /\ group' \in {"closed", "open"}
      /\ \/ /\ at' = "run-instances" /\ group' = "open"
            /\ UNCHANGED <<status, clean, halfway, faults>>
         \/ LaunchDied
  BY <1>1 DEF AuthorizeIngress, Replied, observed
<1>3. CASE LaunchDied
  BY <1>1, <1>2, <1>3, DeathOfLaunch, InstancesStay
     DEF ClientInv, ClientTyped, InstanceIs
<1>4. CASE /\ at' = "run-instances" /\ group' = "open"
           /\ UNCHANGED <<status, clean, halfway, faults>>
  <2>1. InstanceIs'
    BY <1>1, <1>4, InstancesStay DEF BehindWait, ClientInv, InstanceIs
  <2>2. GroupIs'
    BY <1>1, <1>4 DEF GroupIs, At, BehindGroup
  <2>3. QED
    BY <1>1, <1>4, <2>1, <2>2 DEF ClientInv, ClientTyped, CleanLaunchSucceeds
<1>5. QED  BY <1>2, <1>3, <1>4

(* EC2 may have accepted the instance though the command failed. *)
LEMMA RunInstancesStep ==
  ASSUME ClientInv, RunInstances
  PROVE  ClientInv'
<1>1. /\ status = "running" /\ at = "run-instances" /\ launch \in 1..MaxLaunches
      /\ UNCHANGED <<group, launch, wait, tries, said>>
      /\ group \in {"absent", "closed", "open"}
  BY DEF RunInstances, At, ClientInv, ClientTyped
<1>2. /\ instance' \in {instance, [instance EXCEPT ![launch].state = "pending"]}
      /\ \/ at' = "wait" /\ UNCHANGED <<status, clean, halfway, faults>>
         \/ LaunchDied
  BY DEF RunInstances, Replied, observed
<1>3. /\ instance' \in [1..MaxLaunches -> Machine]
      /\ \A l \in 1..MaxLaunches :
           /\ SetUpInOrder(instance'[l])
           /\ instance[l].log => instance'[l].log
  <2> DEFINE c == [instance[launch] EXCEPT !.state = "pending"]
  <2>1. instance[launch] \in Machine /\ SetUpInOrder(instance[launch])
    BY <1>1 DEF ClientInv, ClientTyped, InstanceIs
  <2>2. c \in Machine /\ c.log = instance[launch].log
    BY <2>1 DEF Machine
  <2>3. SetUpInOrder(c)
    BY <2>1 DEF SetUpInOrder, Machine
  <2>4. instance' \in {instance, [instance EXCEPT ![launch] = c]}
    BY <1>2
  <2> HIDE DEF c
  <2>5. QED
    BY <1>1, <2>1, <2>2, <2>3, <2>4 DEF ClientInv, ClientTyped, InstanceIs
<1>4. said' => launch' # 0 /\ instance'[launch'].log
  BY <1>1, <1>3 DEF ClientInv, InstanceIs
<1>5. CASE LaunchDied
  <2>1. InstanceIs'
    BY <1>1, <1>3, <1>4, <1>5, DeathOfLaunch DEF InstanceIs
  <2>2. QED
    BY <1>1, <1>3, <1>5, <2>1, DeathOfLaunch DEF ClientInv, ClientTyped
<1>6. CASE at' = "wait" /\ UNCHANGED <<status, clean, halfway, faults>>
  <2>1. InstanceIs'
    BY <1>1, <1>3, <1>4, <1>6 DEF InstanceIs, BehindWait
  <2>2. GroupIs'
    BY <1>1, <1>6 DEF ClientInv, GroupIs, At, BehindGroup
  <2>3. QED
    BY <1>1, <1>3, <1>6, <2>1, <2>2
       DEF ClientInv, ClientTyped, CleanLaunchSucceeds
<1>7. QED  BY <1>2, <1>5, <1>6

(* The launch waits until EC2 has started its instance. *)
LEMMA WaitRunningStep ==
  ASSUME ClientInv, WaitRunning
  PROVE  ClientInv'
<1>1. /\ status = "running" /\ at = "wait"
      /\ UNCHANGED <<group, instance, launch, wait, tries, said>>
  BY DEF WaitRunning, At
<1>2. \/ /\ at' = "describe-instances" /\ instance[launch].state = "running"
         /\ UNCHANGED <<status, clean, halfway, faults>>
      \/ LaunchDied
  BY DEF WaitRunning, Replied, observed
<1>3. CASE LaunchDied
  BY <1>1, <1>3, DeathOfLaunch, InstancesStay
     DEF ClientInv, ClientTyped, InstanceIs
<1>4. CASE /\ at' = "describe-instances" /\ instance[launch].state = "running"
           /\ UNCHANGED <<status, clean, halfway, faults>>
  <2>1. InstanceIs'
    BY <1>1, <1>4, InstancesStay DEF ClientInv, InstanceIs
  <2>2. GroupIs'
    BY <1>1, <1>4 DEF ClientInv, GroupIs, At, BehindGroup
  <2>3. QED
    BY <1>1, <1>4, <2>1, <2>2 DEF ClientInv, ClientTyped, CleanLaunchSucceeds
<1>5. QED  BY <1>2, <1>3, <1>4

(* The address is read, and the polling begins or is left out. *)
LEMMA DescribeInstancesStep ==
  ASSUME ClientInv, DescribeInstances
  PROVE  ClientInv'
<1>1. /\ status = "running" /\ at = "describe-instances"
      /\ UNCHANGED <<group, instance, launch, wait, tries, said>>
      /\ instance[launch].state = "running" /\ group # "absent"
  BY DEF DescribeInstances, At, ClientInv, InstanceIs, GroupIs, BehindWait,
     BehindGroup
<1>2. \/ /\ \/ status' = "ready" /\ at' = at
            \/ status' = "running" /\ at' = "poll"
         /\ UNCHANGED <<clean, halfway, faults>>
      \/ LaunchDied
  BY <1>1 DEF DescribeInstances, Replied, Ready, observed
<1>3. CASE LaunchDied
  BY <1>1, <1>3, DeathOfLaunch, InstancesStay
     DEF ClientInv, ClientTyped, InstanceIs
<1>4. CASE /\ \/ status' = "ready" /\ at' = at
              \/ status' = "running" /\ at' = "poll"
           /\ UNCHANGED <<clean, halfway, faults>>
  <2>1. InstanceIs'
    BY <1>1, <1>4, InstancesStay DEF ClientInv, InstanceIs
  <2>2. GroupIs'
    BY <1>1, <1>4 DEF ClientInv, GroupIs, At
  <2>3. QED
    BY <1>1, <1>4, <2>1, <2>2 DEF ClientInv, ClientTyped, CleanLaunchSucceeds
<1>5. QED  BY <1>2, <1>3, <1>4

(* A poll sees the log of a whole set-up, or counts as one try more. *)
LEMMA PollStep ==
  ASSUME ClientInv, Poll
  PROVE  ClientInv'
<1>1. /\ status = "running" /\ at = "poll" /\ launch # 0
      /\ UNCHANGED <<group, instance, launch, wait, clean, halfway, faults>>
      /\ instance[launch].state = "running" /\ group # "absent"
  BY DEF Poll, At, observed, ClientInv, ClientTyped, InstanceIs, GroupIs,
     BehindWait, BehindGroup
<1>2. /\ status' \in {"running", "ready"} /\ at' = at
      /\ \/ tries' = tries /\ said' = said
         \/ /\ tries < MaxTries /\ tries' = tries + 1 /\ said' \in BOOLEAN
            /\ said' => instance[launch].log
  BY <1>1 DEF Poll, Ready, Finds
<1>3. InstanceIs'
  BY <1>1, <1>2, InstancesStay DEF ClientInv, InstanceIs
<1>4. GroupIs'
  BY <1>1, <1>2 DEF ClientInv, GroupIs, At
<1>5. tries' \in 0..MaxTries
  BY <1>2, ClientAssumption DEF ClientInv, ClientTyped
<1>6. QED
  BY <1>1, <1>2, <1>3, <1>4, <1>5
     DEF ClientInv, ClientTyped, CleanLaunchSucceeds

(* A launch that is killed leaves its instance as it is. *)
LEMMA KillLaunchStep ==
  ASSUME ClientInv, KillLaunch
  PROVE  ClientInv'
BY DeathOfLaunch, InstancesStay DEF KillLaunch, ClientInv, ClientTyped, InstanceIs

(* What runs on an instance leaves the launches alone; the log and the     *)
(* state of the instance only go forward.                                  *)
LEMMA MachineStep ==
  ASSUME ClientInv, NEW l \in 1..MaxLaunches, NEW c \in Machine, SetUpInOrder(c),
         instance' = [instance EXCEPT ![l] = c],
         instance[l].log => c.log,
         instance[l].state = "running" => c.state = "running",
         UNCHANGED <<group, launching, clean, halfway>>,
         faults' \in 0..MaxFaults
  PROVE  ClientInv'
<1>1. UNCHANGED <<group, launch, status, at, wait, tries, said, clean, halfway>>
  BY DEF launching
<1>2. /\ instance' \in [1..MaxLaunches -> Machine]
      /\ \A k \in 1..MaxLaunches :
           /\ SetUpInOrder(instance'[k])
           /\ instance[k].log => instance'[k].log
           /\ instance[k].state = "running" => instance'[k].state = "running"
  BY DEF ClientInv, ClientTyped, InstanceIs
<1>3. launch # 0 => launch \in 1..MaxLaunches
  BY DEF ClientInv, ClientTyped
<1>4. InstanceIs'
  BY <1>1, <1>2, <1>3 DEF ClientInv, ClientTyped, InstanceIs
<1>5. GroupIs' /\ CleanLaunchSucceeds'
  BY <1>1 DEF ClientInv, GroupIs, CleanLaunchSucceeds, At
<1>6. QED  BY <1>1, <1>2, <1>4, <1>5 DEF ClientInv, ClientTyped

(* One step of a script is behind the other. *)
LEMMA BehindAt ==
  ASSUME NEW steps, NEW i \in DOMAIN steps,
         \A j \in DOMAIN steps : steps[j] = steps[i] => j = i
  PROVE  Behind(steps, steps[i]) =
           IF i + 1 \in DOMAIN steps THEN steps[i + 1] ELSE "done"
<1>1. (CHOOSE j \in DOMAIN steps : steps[j] = steps[i]) = i
  OBVIOUS
<1>2. QED  BY <1>1 DEF Behind

(* A step of the set-up that comes behind another knows it done. *)
LEMMA BehindIs ==
  /\ Behind(UserData, "dnf") = "clone" /\ Behind(UserData, "clone") = "build"
  /\ Behind(UserData, "build") = "pip" /\ Behind(UserData, "pip") = "repo"
  /\ Behind(UserData, "repo") = "log" /\ Behind(UserData, "log") = "done"
  /\ Behind(SetupEc2, "install") = "packages"
  /\ Behind(SetupEc2, "packages") = "wrk2" /\ Behind(SetupEc2, "wrk2") = "make"
  /\ Behind(SetupEc2, "make") = "copy" /\ Behind(SetupEc2, "copy") = "done"
<1>1. /\ DOMAIN UserData = 1..6
      /\ UserData[1] = "dnf" /\ UserData[2] = "clone" /\ UserData[3] = "build"
      /\ UserData[4] = "pip" /\ UserData[5] = "repo" /\ UserData[6] = "log"
  BY DEF UserData
<1>2. /\ DOMAIN SetupEc2 = 1..5
      /\ SetupEc2[1] = "install" /\ SetupEc2[2] = "packages"
      /\ SetupEc2[3] = "wrk2" /\ SetupEc2[4] = "make" /\ SetupEc2[5] = "copy"
  BY DEF SetupEc2
<1>3. \A i, j \in 1..6 : UserData[j] = UserData[i] => j = i
  BY <1>1
<1>4. \A i, j \in 1..5 : SetupEc2[j] = SetupEc2[i] => j = i
  BY <1>2
<1>5. \A i \in 1..6 :
        Behind(UserData, UserData[i]) = IF i + 1 \in 1..6 THEN UserData[i + 1]
                                        ELSE "done"
  BY <1>1, <1>3, BehindAt
<1>6. \A i \in 1..5 :
        Behind(SetupEc2, SetupEc2[i]) = IF i + 1 \in 1..5 THEN SetupEc2[i + 1]
                                        ELSE "done"
  BY <1>2, <1>4, BehindAt
<1>7. QED  BY <1>1, <1>2, <1>5, <1>6

(* An instance that boots has nothing installed and nothing logged. *)
LEMMA BootStep ==
  ASSUME ClientInv, NEW l \in 1..MaxLaunches, Boot(l)
  PROVE  ClientInv'
<1> DEFINE c == [instance[l] EXCEPT !.state = "running"]
<1>1. instance[l] \in Machine /\ SetUpInOrder(instance[l])
  BY DEF ClientInv, ClientTyped, InstanceIs
<1>2. c \in Machine /\ c.log = instance[l].log /\ c.state = "running"
  BY <1>1 DEF Machine
<1>3. SetUpInOrder(c)
  BY <1>1 DEF SetUpInOrder, Machine
<1>4. /\ instance' = [instance EXCEPT ![l] = c]
      /\ UNCHANGED <<group, launching, clean, halfway, faults>>
  BY DEF Boot, observed
<1> HIDE DEF c
<1>5. QED
  BY <1>2, <1>3, <1>4, MachineStep DEF ClientInv, ClientTyped

(* The user data installs one thing more, or stops for good. *)
LEMMA UserDataStepStep ==
  ASSUME ClientInv, NEW l \in 1..MaxLaunches, UserDataStep(l)
  PROVE  ClientInv'
<1> DEFINE b == instance[l]
           failed == [b EXCEPT !.data = "failed"]
           log == b.data = "log"
           data == Behind(UserData, b.data)
           done == [b EXCEPT !.data = data,
                             !.has = @ \union {b.data},
                             !.log = log]
<1>1. /\ b \in Machine /\ SetUpInOrder(b)
      /\ b.data \in {"dnf", "clone", "pip", "log"}
      /\ ~b.log
  BY DEF ClientInv, ClientTyped, InstanceIs, UserDataStep, SetUpInOrder
<1>2. /\ failed \in Machine /\ failed.state = b.state
      /\ SetUpInOrder(failed)
  BY <1>1 DEF Machine, DataSteps, SetUpInOrder
<1>3. /\ \/ faults < MaxFaults /\ faults' = faults + 1
            /\ instance' = [instance EXCEPT ![l] = failed]
         \/ faults' = faults /\ instance' = [instance EXCEPT ![l] = done]
      /\ UNCHANGED <<group, launching, clean, halfway>>
  BY DEF UserDataStep, Fault
<1>4. log \in BOOLEAN /\ (log => b.data = "log")
  OBVIOUS
<1> HIDE DEF log, data
<1>5. done = [state |-> b.state, data |-> data, cwd |-> b.cwd,
              has |-> b.has \union {b.data}, repo |-> b.repo, log |-> log,
              hand |-> b.hand]
  <2>1. b = [state |-> b.state, data |-> b.data, cwd |-> b.cwd, has |-> b.has,
             repo |-> b.repo, log |-> b.log, hand |-> b.hand]
    BY <1>1 DEF Machine
  <2> DEFINE has == b.has \union {b.data}
  <2>2. done = [b EXCEPT !.data = data, !.has = has, !.log = log]
    OBVIOUS
  <2> HIDE DEF has, done
  <2>3. done = [state |-> b.state, data |-> data, cwd |-> b.cwd, has |-> has,
                repo |-> b.repo, log |-> log, hand |-> b.hand]
    BY <2>1, <2>2
  <2>4. QED  BY <2>3 DEF has
<1>6. /\ done.data = data /\ done.has = b.has \union {b.data}
      /\ done.log = log /\ done.hand = b.hand
      /\ done.state = b.state /\ done.cwd = b.cwd /\ done.repo = b.repo
  BY <1>5
<1> HIDE DEF done, failed
<1>7. SetUpInOrder(done)
  <2>1. CASE b.data = "dnf"
    BY <1>1, <1>4, <1>6, <2>1, BehindIs
       DEF SetUpInOrder, HandInOrder, data
  <2>2. CASE b.data = "clone"
    BY <1>1, <1>4, <1>6, <2>2, BehindIs
       DEF SetUpInOrder, HandInOrder, data
  <2>3. CASE b.data = "pip"
    BY <1>1, <1>4, <1>6, <2>3, BehindIs
       DEF SetUpInOrder, HandInOrder, data
  <2>4. CASE b.data = "log"
    BY <1>1, <1>4, <1>6, <2>4, BehindIs
       DEF SetUpInOrder, HandInOrder, data
  <2>5. QED  BY <1>1, <2>1, <2>2, <2>3, <2>4
<1>8. done \in Machine
  <2>1. done.data \in DataSteps
    BY <1>1, <1>6, BehindIs DEF DataSteps, data
  <2>2. done.has \in SUBSET Parts
    BY <1>1, <1>6 DEF Machine, Parts
  <2>3. /\ done.log \in BOOLEAN
        /\ done.state \in {"none", "pending", "running"}
        /\ done.cwd \in {"home", "wrk2"}
        /\ done.repo \in {Nowhere, "home", "wrk2"}
        /\ done.hand \in HandSteps
    BY <1>1, <1>4, <1>6 DEF Machine
  <2>4. QED
    BY <1>5, <1>6, <2>1, <2>2, <2>3 DEF Machine
<1>9. faults' \in 0..MaxFaults
  BY <1>3 DEF ClientInv, ClientTyped
<1>10. QED
  BY <1>1, <1>2, <1>3, <1>6, <1>7, <1>8, <1>9, MachineStep

(* The build of wrk2 goes on whatever became of its copy. *)
LEMMA BuildWrk2Step ==
  ASSUME ClientInv, NEW l \in 1..MaxLaunches, BuildWrk2(l)
  PROVE  ClientInv'
<1> DEFINE b == instance[l]
           c == [b EXCEPT !.data = "pip", !.cwd = "wrk2"]
<1>1. b \in Machine /\ SetUpInOrder(b) /\ b.data = "build"
  BY DEF ClientInv, ClientTyped, InstanceIs, BuildWrk2
<1>2. /\ c \in Machine /\ c.log = b.log /\ c.state = b.state
      /\ c.data = "pip" /\ c.has = b.has /\ c.hand = b.hand
      /\ c.cwd = "wrk2" /\ c.repo = b.repo
  BY <1>1 DEF Machine, DataSteps
<1>3. /\ instance' = [instance EXCEPT ![l] = c]
      /\ UNCHANGED <<group, launching, clean, halfway, faults>>
  BY BehindIs DEF BuildWrk2, observed
<1> HIDE DEF c
<1>4. SetUpInOrder(c)
  BY <1>1, <1>2 DEF SetUpInOrder
<1>5. QED
  BY <1>2, <1>3, <1>4, MachineStep DEF ClientInv, ClientTyped

(* A clone that fails does not stop the user data. *)
LEMMA CloneRepoStep ==
  ASSUME ClientInv, NEW l \in 1..MaxLaunches, CloneRepo(l)
  PROVE  ClientInv'
<1> DEFINE b == instance[l]
           c(r) == [b EXCEPT !.data = "log", !.repo = r]
<1>1. b \in Machine /\ SetUpInOrder(b) /\ b.data = "repo"
  BY DEF ClientInv, ClientTyped, InstanceIs, CloneRepo
<1>2. \A r \in {b.cwd, b.repo} :
        /\ c(r) \in Machine /\ c(r).log = b.log /\ c(r).state = b.state
        /\ c(r).data = "log" /\ c(r).has = b.has /\ c(r).hand = b.hand
        /\ c(r).repo = r /\ c(r).cwd = b.cwd
  BY <1>1 DEF Machine, DataSteps
<1>3. /\ \E r \in {b.cwd, b.repo} : instance' = [instance EXCEPT ![l] = c(r)]
      /\ UNCHANGED <<group, launching, clean, halfway>>
      /\ faults' = faults \/ (faults < MaxFaults /\ faults' = faults + 1)
  BY BehindIs DEF CloneRepo, Fault
<1>4. PICK r \in {b.cwd, b.repo} : instance' = [instance EXCEPT ![l] = c(r)]
  BY <1>3
<1>5. SetUpInOrder(c(r))
  BY <1>1, <1>2 DEF SetUpInOrder
<1> HIDE DEF c
<1>6. faults' \in 0..MaxFaults
  BY <1>3 DEF ClientInv, ClientTyped
<1>7. QED
  BY <1>2, <1>3, <1>4, <1>5, <1>6, MachineStep

(* A step of setup-ec2.sh, or its start. *)
LEMMA HandStep ==
  ASSUME ClientInv, NEW l \in 1..MaxLaunches, NEW hand \in HandSteps \ {"none"},
         NEW more \in SUBSET Parts,
         HandInOrder(hand, instance[l].has \union more),
         instance' = [instance EXCEPT
           ![l] = [instance[l] EXCEPT !.hand = hand, !.has = @ \union more]],
         UNCHANGED <<group, launching, clean, halfway>>,
         faults' \in 0..MaxFaults
  PROVE  ClientInv'
<1> DEFINE b == instance[l]
           c == [b EXCEPT !.hand = hand, !.has = @ \union more]
<1>1. b \in Machine /\ SetUpInOrder(b)
  BY DEF ClientInv, ClientTyped, InstanceIs
<1>2. /\ c \in Machine /\ c.log = b.log /\ c.state = b.state
      /\ c.data = b.data /\ c.has = b.has \union more /\ c.hand = hand
      /\ c.cwd = b.cwd /\ c.repo = b.repo
  BY <1>1 DEF Machine
<1>3. instance' = [instance EXCEPT ![l] = c]
  OBVIOUS
<1> HIDE DEF c
<1>4. SetUpInOrder(c)
  BY <1>1, <1>2 DEF SetUpInOrder
<1>5. QED  BY <1>2, <1>3, <1>4, MachineStep

(* The set-up by hand begins from its first step. *)
LEMMA RunSetupStep ==
  ASSUME ClientInv, NEW l \in 1..MaxLaunches, RunSetup(l)
  PROVE  ClientInv'
<1>1. instance[l] \in Machine
  BY DEF ClientInv, ClientTyped
<1>2. /\ instance' = [instance EXCEPT
           ![l] = [instance[l] EXCEPT !.hand = "install", !.has = @ \union {}]]
      /\ UNCHANGED <<group, launching, clean, halfway, faults>>
  BY <1>1 DEF RunSetup, observed, Machine
<1>3. /\ "install" \in HandSteps \ {"none"} /\ {} \in SUBSET Parts
      /\ HandInOrder("install", instance[l].has \union {})
  BY DEF HandSteps, HandInOrder
<1>4. QED
  BY <1>2, <1>3, HandStep DEF ClientInv, ClientTyped

(* The set-up by hand installs one thing more, or stops. *)
LEMMA SetupStepStep ==
  ASSUME ClientInv, NEW l \in 1..MaxLaunches, SetupStep(l)
  PROVE  ClientInv'
<1> DEFINE b == instance[l]
           hand == IF b.hand = "wrk2" /\ "copy" \in b.has
                   THEN "done" ELSE Behind(SetupEc2, b.hand)
           more == {b.hand} \ {"wrk2"}
<1>1. b \in Machine /\ b.hand \in {"install", "packages", "wrk2", "make", "copy"}
  BY DEF ClientInv, ClientTyped, SetupStep
<1>2. /\ \/ /\ faults < MaxFaults /\ faults' = faults + 1
            /\ instance' = [instance EXCEPT ![l].hand = "failed"]
         \/ /\ faults' = faults
            /\ instance' = [instance EXCEPT
                 ![l] = [b EXCEPT !.hand = hand,
                                  !.has = @ \union more]]
      /\ UNCHANGED <<group, launching, clean, halfway>>
  BY DEF SetupStep, Fault
<1>3. faults' \in 0..MaxFaults
  BY <1>2 DEF ClientInv, ClientTyped
<1>4. CASE instance' = [instance EXCEPT ![l].hand = "failed"]
  <2>1. instance' = [instance EXCEPT
          ![l] = [b EXCEPT !.hand = "failed", !.has = @ \union {}]]
    BY <1>1, <1>4 DEF Machine
  <2>2. /\ "failed" \in HandSteps \ {"none"} /\ {} \in SUBSET Parts
        /\ HandInOrder("failed", b.has \union {})
    BY DEF HandSteps, HandInOrder
  <2>3. QED  BY <1>2, <1>3, <2>1, <2>2, HandStep
<1>5. CASE instance' = [instance EXCEPT
             ![l] = [b EXCEPT !.hand = hand,
                              !.has = @ \union more]]
  <2>1. hand \in HandSteps \ {"none"} /\ more \in SUBSET Parts
    BY <1>1, BehindIs DEF HandSteps, Parts
  <2>2. HandInOrder(hand, b.has \union more)
    <3>1. HandInOrder(b.hand, b.has)
      BY DEF ClientInv, InstanceIs, SetUpInOrder
    <3>2. QED  BY <1>1, <3>1, BehindIs DEF HandInOrder
  <2> HIDE DEF hand, more
  <2>3. QED  BY <1>2, <1>3, <1>5, <2>1, <2>2, HandStep
<1>6. QED  BY <1>2, <1>4, <1>5

(* The invariant holds of any number of launches and instances, whatever   *)
(* fails.                                                                  *)
THEOREM ClientInvariance == ClientSpec => []ClientInv
<1>1. ClientInv /\ [ClientNext]_clientVars => ClientInv'
  <2> SUFFICES ASSUME ClientInv, [ClientNext]_clientVars PROVE ClientInv'
    OBVIOUS
  <2>1. CASE \E flag \in BOOLEAN : Launch(flag)
    BY <2>1, LaunchStep
  <2>2. CASE LaunchCommand
    BY <2>2, DescribeImagesStep, DescribeSecurityGroupsStep,
       CreateSecurityGroupStep, AuthorizeIngressStep, RunInstancesStep,
       WaitRunningStep, DescribeInstancesStep, PollStep DEF LaunchCommand
  <2>3. CASE KillLaunch
    BY <2>3, KillLaunchStep
  <2>4. CASE \E l \in 1..MaxLaunches : OnInstance(l)
    BY <2>4, BootStep, UserDataStepStep, BuildWrk2Step, CloneRepoStep,
       RunSetupStep, SetupStepStep DEF OnInstance
  <2>5. CASE UNCHANGED clientVars
    BY <2>5 DEF clientVars, launching, observed, ClientInv, ClientTyped, GroupIs,
       InstanceIs, CleanLaunchSucceeds, At
  <2>6. QED
    BY <2>1, <2>2, <2>3, <2>4, <2>5 DEF ClientNext
<1>2. QED  BY <1>1, ClientInitially, PTL DEF ClientSpec

(* Type correctness, for any number of launches and failures. *)
THEOREM ClientTypeCorrectness == ClientSpec => []ClientTypeOK
<1>1. ClientInv => ClientTypeOK
  BY DEF ClientInv, ClientTyped, ClientTypeOK, Machine, DataSteps, HandSteps,
     Parts
<1>2. QED  BY <1>1, ClientInvariance, PTL

(* EC2 READY is printed of an instance that runs and takes the ssh command *)
(* printed with it, unless a launch died with its group made and closed.   *)
THEOREM ReadyInstancesAreReachable == ClientSpec => []ReadyMeansReachable
<1>1. ClientInv => ReadyMeansReachable
  BY DEF ClientInv, ClientTyped, GroupIs, InstanceIs, ReadyMeansReachable, At
<1>2. QED  BY <1>1, ClientInvariance, PTL

(* What earlier launches left stops no launch.                             *)
THEOREM LaunchesSucceed == ClientSpec => []CleanLaunchSucceeds
<1>1. ClientInv => CleanLaunchSucceeds
  BY DEF ClientInv
<1>2. QED  BY <1>1, ClientInvariance, PTL

(* A report says no more than what was done: the launch of its instance,   *)
(* the log of the commands that end the user data when they fail, and      *)
(* setup-ec2.sh, beside the user data or again, of all it installs.  The   *)
(* log says nothing of wrk2, nor of a clone in the home directory.         *)
THEOREM ReportsHold == ClientSpec => []ReportsAreBacked
<1>1. ClientInv => ReportsAreBacked
  <2> SUFFICES ASSUME ClientInv PROVE ReportsAreBacked
    OBVIOUS
  <2>1. said => instance[launch].log
    BY DEF ClientInv, InstanceIs
  <2>2. \A l \in 1..MaxLaunches :
          /\ instance[l].log => {"dnf", "clone", "pip"} \subseteq instance[l].has
          /\ instance[l].hand = "done" =>
               {"install", "packages", "copy"} \subseteq instance[l].has
          /\ "copy" \in instance[l].has => instance[l].hand # "none"
          /\ instance[l].repo # "home"
    BY DEF ClientInv, InstanceIs, SetUpInOrder, HandInOrder
  <2>3. QED  BY <2>1, <2>2 DEF ReportsAreBacked
<1>2. QED  BY <1>1, ClientInvariance, PTL
-----------------------------------------------------------------------------
(* ServiceRollout.                                                         *)

DeployCommands == {"docker login", "describe-repositories", "create-repository",
                   "docker build", "docker push"}
CreateCommands == {"list-services", "create-service"}

Conditions == {"absent", "OPERATION_IN_PROGRESS", "RUNNING", "CREATE_FAILED",
               "PAUSED"}

InScript ==
  status = "running" => \/ script = "deploy" /\ at \in DeployCommands
                        \/ script = "create" /\ at \in CreateCommands

(* What deploy.sh has done up to the service it is at.  The source does    *)
(* not change meanwhile.                                                   *)
DeployIs ==
  status = "running" /\ script = "deploy" =>
    /\ revision = built
    /\ entry <= Len(DeployList) /\ target # "missing"
    /\ at # "docker login" => target \in Services \union {"all"}
    /\ \A i \in 1..(entry - 1) : registry[DeployList[i]] = built
    /\ at = "docker push" => local[Deployed] = built
    /\ at = "create-repository" /\ clean => Deployed \notin repo

(* The same for create-apprunner-services.sh: a service it is about to     *)
(* create was not up when it looked, and has not come up since.            *)
CreateIs ==
  status = "running" /\ script = "create" =>
    /\ \A i \in 1..(entry - 1) : service[CreateOrder[i]] # "absent"
    /\ at = "create-service" /\ clean => ~Exists(service[Created])

RolloutInv ==
  RolloutTypeOK /\ InScript /\ DeployIs /\ CreateIs /\ CompleteMeansDone

(* An answer is clean only if the command was answered well. *)
LEMMA AnsweredIs ==
  ASSUME clean \in BOOLEAN, faults \in 0..MaxFaults, NEW ok \in BOOLEAN,
         Answered(ok)
  PROVE  /\ clean' \in BOOLEAN /\ (clean' => ok /\ clean)
         /\ faults' \in 0..MaxFaults
BY DEF Answered, Fault

(* The services in the two orders are the same. *)
LEMMA OrdersAre ==
  /\ Len(DeployOrder) \in Nat \ {0} /\ Len(CreateOrder) = Len(DeployOrder)
  /\ DOMAIN DeployOrder = 1..Len(DeployOrder)
  /\ \A i \in 1..Len(DeployOrder) :
       DeployOrder[i] \in Services /\ CreateOrder[i] \in Services
  /\ \A s \in Services : \E i \in 1..Len(DeployOrder) : s = DeployOrder[i]
  /\ \A s \in Services : \E i \in 1..Len(DeployOrder) : s = CreateOrder[i]
<1>1. /\ DeployOrder \in Seq(Services) /\ CreateOrder \in Seq(Services)
      /\ Len(DeployOrder) > 0 /\ Len(CreateOrder) = Len(DeployOrder)
      /\ Services = {CreateOrder[i] : i \in DOMAIN CreateOrder}
  BY RolloutAssumption
<1>2. /\ DOMAIN DeployOrder = 1..Len(DeployOrder)
      /\ DOMAIN CreateOrder = 1..Len(DeployOrder)
      /\ Len(DeployOrder) \in Nat \ {0}
  BY <1>1
<1>3. \A s \in Services : \E i \in 1..Len(DeployOrder) : s = DeployOrder[i]
  BY <1>2 DEF Services
<1>4. \A s \in Services : \E i \in 1..Len(DeployOrder) : s = CreateOrder[i]
  BY <1>1, <1>2
<1>5. \A i \in 1..Len(DeployOrder) :
        DeployOrder[i] \in Services /\ CreateOrder[i] \in Services
  BY <1>1, <1>2
<1>6. QED  BY <1>1, <1>2, <1>3, <1>4, <1>5

(* The services deploy.sh takes are those it was asked for. *)
LEMMA ListIs ==
  /\ Len(DeployList) \in Nat \ {0} /\ Len(DeployList) <= Len(DeployOrder)
  /\ \A i \in 1..Len(DeployList) : DeployList[i] \in Asked
  /\ \A s \in Asked : \E i \in 1..Len(DeployList) : s = DeployList[i]
  /\ target \in Services \union {"all"} => Asked \subseteq Services
<1>1. CASE target = "all"
  <2>1. DeployList = DeployOrder /\ Asked = Services
    BY <1>1 DEF DeployList, Asked
  <2>2. QED  BY <2>1, OrdersAre
<1>2. CASE target # "all"
  <2>1. DeployList = <<target>> /\ Asked = {target}
    BY <1>2 DEF DeployList, Asked
  <2>2. QED  BY <1>2, <2>1, OrdersAre
<1>3. QED  BY <1>1, <1>2

(* Revisions are numbers, and that of the source is a revision of an image. *)
LEMMA RevisionsAre ==
  /\ MaxRevision \in Nat \ {0}
  /\ RolloutTypeOK => revision \in 0..MaxRevision
<1>1. MaxRevision \in Nat \ {0}
  BY RolloutAssumption
<1>2. QED  BY <1>1 DEF RolloutTypeOK

(* The entries up to one are those before it, and itself. *)
LEMMA EntriesUpTo ==
  ASSUME NEW n \in Nat \ {0}, NEW e \in 1..n
  PROVE  /\ \A i \in 1..e : i \in 1..n
         /\ \A i \in 1..e : i \in 1..(e - 1) \/ i = e
         /\ 1..((e + 1) - 1) = 1..e
         /\ 1..(1 - 1) = {}
OBVIOUS

(* The entries before one of the first n are among them. *)
LEMMA EntriesBefore ==
  ASSUME NEW n \in Nat \ {0}, NEW e \in 1..n
  PROVE  \A i \in 1..(e - 1) : i \in 1..n
OBVIOUS

(* Before the first run of a script the invariant holds. *)
LEMMA RolloutInitially == RolloutInit => RolloutInv
<1> SUFFICES ASSUME RolloutInit PROVE RolloutInv
  OBVIOUS
<1>1. RolloutTypeOK
  BY OrdersAre, RolloutAssumption DEF RolloutInit, RolloutTypeOK, NoImage
<1>2. QED
  BY <1>1 DEF RolloutInit, RolloutInv, InScript, DeployIs, CreateIs,
     CompleteMeansDone

(* A script that stops leaves nothing to show.                             *)
LEMMA StoppedIs ==
  ASSUME status' = "stopped"
  PROVE  /\ InScript' /\ DeployIs' /\ CreateIs' /\ CompleteMeansDone'
BY DEF InScript, DeployIs, CreateIs, CompleteMeansDone

(* What both scripts have in common when they begin.                       *)
LEMMA BeginIs ==
  ASSUME RolloutInv, NEW command, Begin(command), script' \in {"deploy", "create"},
         target' \in Services \union {"all", "missing", "unknown"},
         built' \in 0..MaxRevision,
         UNCHANGED <<prepared, revision, repo, local, registry, service, faults>>
  PROVE  /\ RolloutTypeOK' /\ 1..(entry' - 1) = {} /\ entry' = 1
         /\ \/ status' = "running" /\ at' = command
            \/ status' = "stopped"
<1>1. entry' = 1 /\ clean' = TRUE /\ status' \in {"running", "stopped"}
  BY DEF Begin
<1>2. entry' \in DOMAIN DeployOrder /\ 1..(entry' - 1) = {}
  BY ONLY <1>1, OrdersAre
<1>3. RolloutTypeOK'
  BY <1>1, <1>2 DEF RolloutInv, RolloutTypeOK
<1>4. QED  BY <1>1, <1>2, <1>3 DEF Begin

(* deploy.sh begins with the first service, from the source as it is. *)
LEMMA StartDeployStep ==
  ASSUME RolloutInv, StartDeploy
  PROVE  RolloutInv'
<1>1. /\ script' = "deploy" /\ built' = revision /\ Begin("docker login")
      /\ target' \in Services \union {"all", "missing", "unknown"}
      /\ UNCHANGED <<prepared, revision, repo, local, registry, service, faults>>
  BY DEF StartDeploy, images
<1>2. /\ RolloutTypeOK' /\ 1..(entry' - 1) = {} /\ entry' = 1
      /\ \/ status' = "running" /\ at' = "docker login"
         \/ status' = "stopped"
  BY <1>1, BeginIs, RevisionsAre DEF RolloutInv
<1>3. DeployIs'
  <2>1. Len(DeployList') \in Nat \ {0}
    <3>1. CASE target' = "all"  BY <3>1, OrdersAre DEF DeployList
    <3>2. CASE target' # "all"  BY <3>2 DEF DeployList
    <3>3. QED  BY <3>1, <3>2
  <2>2. entry' = 1
    BY <1>2
  <2>3. entry' <= Len(DeployList')
    BY ONLY <2>1, <2>2
  <2>4. status' = "running" => target' # "missing"
    BY <1>1 DEF Begin
  <2>5. QED  BY <1>1, <1>2, <2>3, <2>4 DEF DeployIs
<1>4. QED
  BY <1>1, <1>2, <1>3 DEF RolloutInv, InScript, CreateIs, CompleteMeansDone,
     DeployCommands

(* create-apprunner-services.sh begins with its first entry. *)
LEMMA StartCreateStep ==
  ASSUME RolloutInv, StartCreate
  PROVE  RolloutInv'
<1>1. /\ script' = "create" /\ target' = "all" /\ Begin("list-services")
      /\ UNCHANGED <<prepared, revision, repo, local, registry, service, faults>>
      /\ built' = built
  BY DEF StartCreate, images
<1>2. /\ RolloutTypeOK' /\ 1..(entry' - 1) = {}
      /\ \/ status' = "running" /\ at' = "list-services"
         \/ status' = "stopped"
  <2>1. built' \in 0..MaxRevision
    BY <1>1 DEF RolloutInv, RolloutTypeOK
  <2>2. QED  BY <1>1, <2>1, BeginIs
<1>3. CreateIs'
  BY <1>1, <1>2 DEF CreateIs
<1>4. QED
  BY <1>1, <1>2, <1>3 DEF RolloutInv, InScript, DeployIs, CompleteMeansDone,
     CreateCommands

(* Where a command of deploy.sh, or of the other script, is issued.        *)
LEMMA DeployAt ==
  ASSUME RolloutInv, NEW command \in DeployCommands, At(command)
  PROVE  /\ status = "running" /\ script = "deploy" /\ at = command
         /\ entry \in 1..Len(DeployList)
         /\ command # "docker login" =>
              Deployed \in Services /\ target \in Services \union {"all"}
<1>1. status = "running" /\ script = "deploy" /\ at = command
  BY DEF RolloutInv, InScript, At, DeployCommands, CreateCommands
<1>2. entry \in 1..Len(DeployList)
  <2>1. entry \in 1..Len(DeployOrder)
    BY OrdersAre DEF RolloutInv, RolloutTypeOK
  <2>2. entry <= Len(DeployList)
    BY <1>1 DEF RolloutInv, DeployIs
  <2>3. Len(DeployList) \in Nat \ {0} /\ Len(DeployOrder) \in Nat
    BY ListIs, OrdersAre
  <2>4. QED  BY ONLY <2>1, <2>2, <2>3
<1>3. ASSUME command # "docker login"
      PROVE  Deployed \in Services /\ target \in Services \union {"all"}
  <2>1. target \in Services \union {"all"}
    BY <1>1, <1>3 DEF RolloutInv, DeployIs
  <2>2. DeployList[entry] \in Asked /\ Asked \subseteq Services
    BY <1>2, <2>1, ListIs
  <2>3. QED  BY <2>1, <2>2 DEF Deployed
<1>4. QED  BY <1>1, <1>2, <1>3

(* The same for the commands of create-apprunner-services.sh. *)
LEMMA CreateAt ==
  ASSUME RolloutInv, NEW command \in CreateCommands, At(command)
  PROVE  /\ status = "running" /\ script = "create" /\ at = command
         /\ Created \in Services /\ entry \in 1..Len(DeployOrder)
BY OrdersAre DEF RolloutInv, InScript, At, DeployCommands, CreateCommands,
   RolloutTypeOK, Created

(* The login to the registry touches no service. *)
LEMMA LoginStep ==
  ASSUME RolloutInv, Login
  PROVE  RolloutInv'
<1>1. /\ status = "running" /\ script = "deploy"
      /\ UNCHANGED <<revision, repo, local, registry, service, built>>
      /\ UNCHANGED <<prepared, script, target, entry>>
  BY DeployAt DEF Login, images, GoOn, Exit, DeployCommands
<1>2. PICK ok \in BOOLEAN :
        /\ Answered(ok)
        /\ \/ ok /\ target # "unknown" /\ GoOn("describe-repositories")
           \/ ~(ok /\ target # "unknown") /\ Exit
  BY DEF Login
<1>3. clean' \in BOOLEAN /\ (clean' => ok /\ clean) /\ faults' \in 0..MaxFaults
  BY <1>2, AnsweredIs DEF RolloutInv, RolloutTypeOK
<1>4. status' \in {"running", "stopped"}
  BY <1>1, <1>2 DEF GoOn, Exit, ErrExit
<1>5. RolloutTypeOK'
  BY <1>1, <1>3, <1>4 DEF RolloutInv, RolloutTypeOK
<1>6. CASE Exit
  BY <1>5, <1>6, StoppedIs DEF RolloutInv, Exit, ErrExit
<1>7. CASE target # "unknown" /\ GoOn("describe-repositories")
  <2>1. status' = "running" /\ at' = "describe-repositories"
    BY <1>1, <1>7 DEF GoOn
  <2>2. target \in Services \union {"all"}
    BY <1>1, <1>7 DEF RolloutInv, RolloutTypeOK, DeployIs
  <2>3. DeployIs'
    BY <1>1, <2>1, <2>2 DEF RolloutInv, DeployIs, Deployed, DeployList
  <2>4. QED
    BY <1>1, <1>5, <2>1, <2>3 DEF RolloutInv, InScript, CreateIs,
       CompleteMeansDone, DeployCommands
<1>8. QED  BY <1>2, <1>6, <1>7

(* A repository to be created was not there, if the answer was good. *)
LEMMA DescribeRepositoryStep ==
  ASSUME RolloutInv, DescribeRepository
  PROVE  RolloutInv'
<1>1. /\ status = "running" /\ script = "deploy"
      /\ UNCHANGED <<revision, repo, local, registry, service, built>>
      /\ UNCHANGED <<prepared, script, target, entry, status>>
      /\ target \in Services \union {"all"}
  BY DeployAt DEF DescribeRepository, images, GoOn, DeployCommands
<1>2. PICK ok \in BOOLEAN :
        /\ Answered(ok)
        /\ at' = IF ok /\ Deployed \in repo THEN "docker build"
                 ELSE "create-repository"
  BY DEF DescribeRepository, GoOn
<1>3. clean' \in BOOLEAN /\ (clean' => ok /\ clean) /\ faults' \in 0..MaxFaults
  BY <1>2, AnsweredIs DEF RolloutInv, RolloutTypeOK
<1>4. RolloutTypeOK'
  BY <1>1, <1>3 DEF RolloutInv, RolloutTypeOK
<1>5. at' = "create-repository" /\ clean' => Deployed \notin repo
  BY <1>2, <1>3
<1>6. at' \in {"docker build", "create-repository"}
  BY <1>2
<1>7. DeployIs'
  BY <1>1, <1>5, <1>6 DEF RolloutInv, DeployIs, Deployed, DeployList
<1>8. QED
  BY <1>1, <1>4, <1>6, <1>7 DEF RolloutInv, InScript, CreateIs,
     CompleteMeansDone, DeployCommands

(* A repository that was there already, or a failure, ends the script. *)
LEMMA CreateRepositoryStep ==
  ASSUME RolloutInv, CreateRepository
  PROVE  RolloutInv'
<1>1. /\ status = "running" /\ script = "deploy" /\ at = "create-repository"
      /\ Deployed \in Services /\ target \in Services \union {"all"}
      /\ UNCHANGED <<revision, local, registry, service, built>>
      /\ UNCHANGED <<prepared, script, target, entry>>
  BY DeployAt DEF CreateRepository, GoOn, Exit, DeployCommands
<1>2. PICK ok \in BOOLEAN :
        /\ Answered(ok)
        /\ \/ ok /\ Deployed \notin repo /\ GoOn("docker build")
           \/ ~(ok /\ Deployed \notin repo) /\ Exit
        /\ repo' = IF ok THEN repo \union {Deployed} ELSE repo
  BY DEF CreateRepository
<1>3. clean' \in BOOLEAN /\ (clean' => ok /\ clean) /\ faults' \in 0..MaxFaults
  BY <1>2, AnsweredIs DEF RolloutInv, RolloutTypeOK
<1>4. status' \in {"running", "stopped"}
  BY <1>1, <1>2 DEF GoOn, Exit, ErrExit
<1>5. RolloutTypeOK'
  BY <1>1, <1>2, <1>3, <1>4 DEF RolloutInv, RolloutTypeOK
<1>6. CASE Exit
  BY <1>5, <1>6, StoppedIs DEF RolloutInv, Exit, ErrExit
<1>7. CASE GoOn("docker build")
  <2>1. status' = "running" /\ at' = "docker build"
    BY <1>1, <1>7 DEF GoOn
  <2>2. QED
    BY <1>1, <1>5, <2>1 DEF RolloutInv, InScript, DeployIs, CreateIs,
       CompleteMeansDone, DeployCommands, DeployList
<1>8. QED  BY <1>2, <1>6, <1>7

(* The local image is of the revision the run started from. *)
LEMMA BuildImageStep ==
  ASSUME RolloutInv, BuildImage
  PROVE  RolloutInv'
<1>1. /\ status = "running" /\ script = "deploy" /\ at = "docker build"
      /\ Deployed \in Services /\ target \in Services \union {"all"}
      /\ UNCHANGED <<revision, repo, registry, service, built>>
      /\ UNCHANGED <<prepared, script, target, entry>>
  BY DeployAt DEF BuildImage, GoOn, Exit, DeployCommands
<1>2. PICK ok \in BOOLEAN :
        /\ Answered(ok)
        /\ \/ /\ ok /\ GoOn("docker push")
              /\ local' = [local EXCEPT ![Deployed] = revision]
           \/ ~ok /\ Exit /\ local' = local
  BY DEF BuildImage
<1>3. clean' \in BOOLEAN /\ (clean' => ok /\ clean) /\ faults' \in 0..MaxFaults
  BY <1>2, AnsweredIs DEF RolloutInv, RolloutTypeOK
<1>4. status' \in {"running", "stopped"}
  BY <1>1, <1>2 DEF GoOn, Exit, ErrExit
<1>5. local' \in [Services -> 0..MaxRevision]
  <2>1. revision \in 0..MaxRevision /\ local \in [Services -> 0..MaxRevision]
    BY RevisionsAre DEF RolloutInv, RolloutTypeOK
  <2>2. QED  BY <1>1, <1>2, <2>1
<1>6. RolloutTypeOK'
  BY <1>1, <1>3, <1>4, <1>5 DEF RolloutInv, RolloutTypeOK
<1>7. CASE ~ok
  BY <1>2, <1>3, <1>6, <1>7, StoppedIs DEF RolloutInv, Exit, ErrExit
<1>8. CASE ok
  <2>1. /\ status' = "running" /\ at' = "docker push"
        /\ local'[Deployed] = revision
    BY <1>1, <1>2, <1>8 DEF GoOn, RolloutInv, RolloutTypeOK
  <2>2. DeployIs'
    BY <1>1, <2>1 DEF RolloutInv, DeployIs, Deployed, DeployList
  <2>3. QED
    BY <1>1, <1>6, <2>1, <2>2 DEF RolloutInv, InScript, CreateIs,
       CompleteMeansDone, DeployCommands
<1>9. QED  BY <1>7, <1>8

(* What the end of an iteration comes to. *)
LEMMA NextServiceIs ==
  ASSUME status = "running", NEW order, NEW first, Len(order) \in Nat \ {0},
         Len(order) <= Len(DeployOrder), entry \in 1..Len(order),
         NextService(order, first)
  PROVE  /\ UNCHANGED <<script, target>> /\ entry' \in 1..Len(DeployOrder)
         /\ entry' \in 1..Len(order)
         /\ \/ /\ entry = Len(order) /\ entry' = entry
               /\ status' = "complete" /\ at' = at
            \/ entry' = entry + 1 /\ status' = "running" /\ at' = first
BY OrdersAre DEF NextService

(* A service of which App Runner knows leaves the loop of the second       *)
(* script one further, or done.                                            *)
LEMMA CreateGoesOn ==
  ASSUME RolloutInv, status = "running", script = "create",
         entry \in 1..Len(DeployOrder), Created \in Services,
         NextService(CreateOrder, "list-services"),
         UNCHANGED <<prepared, revision, repo, local, registry, built>>,
         clean' \in BOOLEAN, faults' \in 0..MaxFaults,
         service' \in [Services -> Conditions], service'[Created] # "absent",
         \A s \in Services : service[s] # "absent" => service'[s] # "absent"
  PROVE  RolloutInv'
<1>1. /\ UNCHANGED <<script, target>> /\ entry' \in 1..Len(DeployOrder)
      /\ \/ /\ entry = Len(DeployOrder) /\ entry' = entry
            /\ status' = "complete" /\ at' = at
         \/ entry' = entry + 1 /\ status' = "running" /\ at' = "list-services"
  <2>1. /\ Len(CreateOrder) = Len(DeployOrder) /\ Len(CreateOrder) \in Nat \ {0}
        /\ Len(CreateOrder) <= Len(DeployOrder) /\ entry \in 1..Len(CreateOrder)
    BY OrdersAre
  <2>2. QED
    BY <2>1 DEF NextService
<1>2. RolloutTypeOK'
  <2>1. RolloutTypeOK
    BY DEF RolloutInv
  <2>2. entry' \in DOMAIN DeployOrder
    BY <1>1, OrdersAre
  <2>3. status' \in {"running", "stopped", "complete"}
    BY <1>1
  <2>4. QED
    BY <1>1, <2>1, <2>2, <2>3 DEF RolloutTypeOK, Conditions
<1>3. \A i \in 1..entry : service'[CreateOrder[i]] # "absent"
  <2>1. /\ \A i \in 1..entry : i \in 1..Len(DeployOrder)
        /\ \A i \in 1..entry : i \in 1..(entry - 1) \/ i = entry
    BY OrdersAre, EntriesUpTo
  <2>2. \A i \in 1..entry : CreateOrder[i] \in Services
    BY <2>1, OrdersAre, Zenon
  <2>3. \A i \in 1..(entry - 1) : service[CreateOrder[i]] # "absent"
    BY DEF RolloutInv, CreateIs
  <2>4. QED  BY <2>1, <2>2, <2>3 DEF Created
<1>4. CASE status' = "complete"
  <2>1. entry = Len(DeployOrder)
    BY <1>1, <1>4
  <2>2. ASSUME NEW s \in Services
        PROVE  service'[s] # "absent"
    <3>1. PICK i \in 1..Len(DeployOrder) : s = CreateOrder[i]
      BY OrdersAre, Zenon
    <3>2. QED  BY <1>3, <2>1, <3>1
  <2>3. QED
    BY <1>1, <1>2, <1>4, <2>2 DEF RolloutInv, InScript, DeployIs, CreateIs,
       CompleteMeansDone
<1>5. CASE status' = "running"
  <2>1. entry' = entry + 1 /\ at' = "list-services"
    BY <1>1, <1>5
  <2>2. 1..(entry' - 1) = 1..entry
    BY <2>1, OrdersAre, EntriesUpTo
  <2>3. CreateIs'
    BY <1>3, <2>1, <2>2 DEF CreateIs
  <2>4. QED
    BY <1>1, <1>2, <1>5, <2>1, <2>3 DEF RolloutInv, InScript, DeployIs,
       CompleteMeansDone, CreateCommands
<1>6. QED  BY <1>1, <1>4, <1>5

(* The image pushed is the one just built, and the service is done. *)
LEMMA PushStep ==
  ASSUME RolloutInv, Push
  PROVE  RolloutInv'
<1>1. /\ status = "running" /\ script = "deploy" /\ at = "docker push"
      /\ Deployed \in Services /\ target \in Services \union {"all"}
      /\ entry \in 1..Len(DeployList)
      /\ UNCHANGED <<prepared, revision, repo, local, service, built>>
  BY DeployAt DEF Push, DeployCommands
<1>2. PICK ok \in BOOLEAN :
        /\ Answered(ok)
        /\ \/ /\ ok /\ NextService(DeployList, "describe-repositories")
              /\ registry' = [registry EXCEPT ![Deployed] = local[Deployed]]
           \/ ~ok /\ Exit /\ registry' = registry
  BY DEF Push
<1>3. clean' \in BOOLEAN /\ (clean' => ok /\ clean) /\ faults' \in 0..MaxFaults
  BY <1>2, AnsweredIs DEF RolloutInv, RolloutTypeOK
<1>4. registry' \in [Services -> 0..MaxRevision]
  BY <1>1, <1>2 DEF RolloutInv, RolloutTypeOK
<1>5. CASE ~ok
  <2>1. status' = "stopped" /\ UNCHANGED <<script, target, entry, at>>
    BY <1>2, <1>5 DEF Exit, ErrExit
  <2>2. RolloutTypeOK'
    BY <1>1, <1>3, <1>4, <2>1 DEF RolloutInv, RolloutTypeOK
  <2>3. QED  BY <2>1, <2>2, StoppedIs DEF RolloutInv
<1>6. CASE ok
  <2>1. NextService(DeployList, "describe-repositories")
    BY <1>2, <1>6
  <2>2. /\ UNCHANGED <<script, target>> /\ entry' \in 1..Len(DeployOrder)
        /\ entry' <= Len(DeployList)
        /\ \/ /\ entry = Len(DeployList) /\ entry' = entry
              /\ status' = "complete" /\ at' = at
           \/ /\ entry' = entry + 1 /\ status' = "running"
              /\ at' = "describe-repositories"
    <3>1. /\ Len(DeployList) \in Nat \ {0}
          /\ Len(DeployList) <= Len(DeployOrder)
      BY ListIs
    <3>2. entry' \in 1..Len(DeployList) => entry' <= Len(DeployList)
      BY ONLY <3>1
    <3>3. QED  BY <1>1, <2>1, <3>1, <3>2, NextServiceIs
  <2>3. DeployList' = DeployList /\ Asked' = Asked
    BY <2>2 DEF DeployList, Asked
  <2>4. RolloutTypeOK'
    BY <1>1, <1>3, <1>4, <2>2, OrdersAre DEF RolloutInv, RolloutTypeOK
  <2>5. \A i \in 1..entry : registry'[DeployList[i]] = built
    <3>1. /\ local[Deployed] = built
          /\ \A i \in 1..(entry - 1) : registry[DeployList[i]] = built
      BY <1>1 DEF RolloutInv, DeployIs
    <3>2. \A s \in Services :
            registry'[s] = IF s = Deployed THEN built ELSE registry[s]
      BY <1>1, <1>2, <1>6, <3>1 DEF RolloutInv, RolloutTypeOK
    <3>3. /\ \A i \in 1..entry : i \in 1..Len(DeployList)
          /\ \A i \in 1..entry : i \in 1..(entry - 1) \/ i = entry
      BY <1>1, ListIs, EntriesUpTo
    <3>4. \A i \in 1..entry : DeployList[i] \in Services
      BY <1>1, <3>3, ListIs, Zenon
    <3>5. QED  BY <3>1, <3>2, <3>3, <3>4 DEF Deployed
  <2>6. CASE status' = "complete"
    <3>1. entry = Len(DeployList)
      BY <2>2, <2>6
    <3>2. \A s \in Asked : registry'[s] = built
      <4>1. ASSUME NEW s \in Asked
            PROVE  registry'[s] = built
        <5>1. PICK i \in 1..Len(DeployList) : s = DeployList[i]
          BY <4>1, ListIs, Zenon
        <5>2. QED  BY <2>5, <3>1, <5>1
      <4>2. QED  BY <4>1
    <3>3. QED
      BY <1>1, <2>2, <2>3, <2>4, <2>6, <3>2 DEF RolloutInv, InScript, DeployIs,
         CreateIs, CompleteMeansDone
  <2>7. CASE status' = "running"
    <3>1. entry' = entry + 1 /\ at' = "describe-repositories"
      BY <2>2, <2>7
    <3>2. DeployIs'
      <4>1. 1..(entry' - 1) = 1..entry
        BY <1>1, <3>1, ListIs, EntriesUpTo
      <4>2. QED
        BY <1>1, <2>2, <2>3, <2>5, <3>1, <4>1 DEF RolloutInv, DeployIs
    <3>3. QED
      BY <1>1, <2>2, <2>4, <2>7, <3>1, <3>2 DEF RolloutInv, InScript, CreateIs,
         CompleteMeansDone, DeployCommands
  <2>8. QED  BY <2>2, <2>6, <2>7
<1>7. QED  BY <1>5, <1>6

(* A service found to be up is done; any other is to be created. *)
LEMMA ListServicesStep ==
  ASSUME RolloutInv, ListServices
  PROVE  RolloutInv'
<1>1. /\ status = "running" /\ script = "create" /\ at = "list-services"
      /\ Created \in Services /\ entry \in 1..Len(DeployOrder)
      /\ UNCHANGED <<prepared, revision, repo, local, registry, service, built>>
  BY CreateAt DEF ListServices, images, CreateCommands
<1>2. PICK ok \in BOOLEAN :
        /\ Answered(ok)
        /\ IF ok /\ Exists(service[Created])
           THEN NextService(CreateOrder, "list-services")
           ELSE GoOn("create-service")
  BY DEF ListServices
<1>3. clean' \in BOOLEAN /\ (clean' => ok /\ clean) /\ faults' \in 0..MaxFaults
  BY <1>2, AnsweredIs DEF RolloutInv, RolloutTypeOK
<1>4. CASE ok /\ Exists(service[Created])
  <2>1. NextService(CreateOrder, "list-services")
    BY <1>2, <1>4
  <2>2. /\ service' \in [Services -> Conditions] /\ service'[Created] # "absent"
        /\ \A s \in Services : service[s] # "absent" => service'[s] # "absent"
    BY <1>1, <1>4 DEF Exists, RolloutInv, RolloutTypeOK, Conditions
  <2>3. QED  BY <1>1, <1>3, <2>1, <2>2, CreateGoesOn
<1>5. CASE ~(ok /\ Exists(service[Created]))
  <2>1. /\ status' = "running" /\ at' = "create-service"
        /\ UNCHANGED <<script, target, entry>>
    BY <1>1, <1>2, <1>5 DEF GoOn
  <2>2. RolloutTypeOK'
    BY <1>1, <1>3, <2>1 DEF RolloutInv, RolloutTypeOK
  <2>3. clean' => ~Exists(service[Created])
    BY <1>3, <1>5
  <2>4. CreateIs'
    BY <1>1, <2>1, <2>3 DEF RolloutInv, CreateIs, Created
  <2>5. QED
    BY <1>1, <2>1, <2>2, <2>4 DEF RolloutInv, InScript, DeployIs,
       CompleteMeansDone, CreateCommands
<1>6. QED  BY <1>4, <1>5

(* A service that is created is done; a refusal ends the script.           *)
LEMMA CreateServiceStep ==
  ASSUME RolloutInv, CreateService
  PROVE  RolloutInv'
<1>1. /\ status = "running" /\ script = "create" /\ at = "create-service"
      /\ Created \in Services /\ entry \in 1..Len(DeployOrder)
      /\ UNCHANGED <<prepared, revision, repo, local, registry, built>>
  BY CreateAt DEF CreateService, images, CreateCommands
<1>2. PICK ok \in BOOLEAN :
        /\ Answered(ok)
        /\ \/ /\ ok /\ Accepted /\ NextService(CreateOrder, "list-services")
              /\ service' = [service EXCEPT ![Created] = "OPERATION_IN_PROGRESS"]
           \/ ~(ok /\ Accepted) /\ Exit /\ service' = service
  BY DEF CreateService
<1>3. clean' \in BOOLEAN /\ (clean' => ok /\ clean) /\ faults' \in 0..MaxFaults
  BY <1>2, AnsweredIs DEF RolloutInv, RolloutTypeOK
<1>4. service \in [Services -> Conditions]
  BY DEF RolloutInv, RolloutTypeOK, Conditions
<1>5. CASE ok /\ Accepted
  <2>1. /\ NextService(CreateOrder, "list-services")
        /\ service' = [service EXCEPT ![Created] = "OPERATION_IN_PROGRESS"]
    BY <1>2, <1>5
  <2>2. /\ service' \in [Services -> Conditions]
        /\ service'[Created] # "absent"
        /\ \A s \in Services : service[s] # "absent" => service'[s] # "absent"
    BY <1>1, <1>4, <2>1 DEF Conditions
  <2>3. QED  BY <1>1, <1>3, <2>1, <2>2, CreateGoesOn
<1>6. CASE ~(ok /\ Accepted)
  <2>1. status' = "stopped" /\ UNCHANGED <<script, target, entry, at, service>>
    BY <1>2, <1>6 DEF Exit, ErrExit
  <2>2. RolloutTypeOK'
    BY <1>1, <1>3, <2>1 DEF RolloutInv, RolloutTypeOK
  <2>3. QED  BY <2>1, <2>2, StoppedIs DEF RolloutInv
<1>7. QED  BY <1>5, <1>6

(* A service only moves from one condition to another that is not absence. *)
LEMMA ServiceMoves ==
  ASSUME RolloutInv, NEW s \in Services, NEW to \in Conditions \ {"absent"},
         service[s] \in {"OPERATION_IN_PROGRESS", "RUNNING"},
         service' = [service EXCEPT ![s] = to],
         UNCHANGED <<prepared, revision, repo, local, registry>>,
         UNCHANGED <<script, target, status, entry, at, built, clean>>,
         faults' \in 0..MaxFaults
  PROVE  RolloutInv'
<1>1. service \in [Services -> Conditions]
  BY DEF RolloutInv, RolloutTypeOK, Conditions
<1>2. /\ service' \in [Services -> Conditions]
      /\ service'[s] = to
      /\ \A t \in Services \ {s} : service'[t] = service[t]
  BY <1>1
<1>3. RolloutTypeOK'
  BY <1>2 DEF RolloutInv, RolloutTypeOK, Conditions
<1>4. \A t \in Services : service[t] # "absent" => service'[t] # "absent"
  BY <1>2
<1>5. CreateIs'
  <2>1. SUFFICES ASSUME status = "running", script = "create"
                 PROVE  /\ \A i \in 1..(entry - 1) :
                             service'[CreateOrder[i]] # "absent"
                        /\ at = "create-service" /\ clean
                             => ~Exists(service'[Created])
    BY DEF CreateIs, Created
  <2>2. entry \in 1..Len(DeployOrder)
    BY OrdersAre DEF RolloutInv, RolloutTypeOK
  <2>3. \A i \in 1..(entry - 1) : CreateOrder[i] \in Services
    BY <2>2, OrdersAre, EntriesBefore
  <2>4. \A i \in 1..(entry - 1) : service'[CreateOrder[i]] # "absent"
    BY <1>4, <2>1, <2>3 DEF RolloutInv, CreateIs
  <2>5. ASSUME at = "create-service", clean
        PROVE  ~Exists(service'[Created])
    <3>1. ~Exists(service[Created])
      BY <2>1, <2>5 DEF RolloutInv, CreateIs
    <3>2. Created # s
      BY <3>1 DEF Exists
    <3>3. Created \in Services
      BY <2>2, OrdersAre DEF Created
    <3>4. QED  BY <1>2, <3>1, <3>2, <3>3
  <2>6. QED  BY <2>4, <2>5
<1>6. CompleteMeansDone'
  BY <1>4 DEF RolloutInv, CompleteMeansDone, Asked
<1>7. InScript' /\ DeployIs'
  BY DEF RolloutInv, InScript, DeployIs, Deployed, DeployList
<1>8. QED  BY <1>3, <1>5, <1>6, <1>7 DEF RolloutInv

(* App Runner provisions a service, or fails to; an operator pauses one.   *)
LEMMA ServiceStep ==
  ASSUME RolloutInv, NEW s \in Services,
         Provisioned(s) \/ ProvisioningFails(s) \/ Pause(s)
  PROVE  RolloutInv'
<1>0. faults \in 0..MaxFaults
  BY DEF RolloutInv, RolloutTypeOK
<1>1. CASE Provisioned(s)
  BY <1>0, <1>1, ServiceMoves DEF Provisioned, images, control, Conditions
<1>2. CASE ProvisioningFails(s)
  <2>1. faults' \in 0..MaxFaults
    BY <1>0, <1>2 DEF ProvisioningFails, Fault
  <2>2. QED
    BY <1>2, <2>1, ServiceMoves DEF ProvisioningFails, images, control, Conditions
<1>3. CASE Pause(s)
  BY <1>0, <1>3, ServiceMoves DEF Pause, images, control, Conditions
<1>4. QED  BY <1>1, <1>2, <1>3

(* The source changes only while deploy.sh does not run. *)
LEMMA CommitStep ==
  ASSUME RolloutInv, Commit
  PROVE  RolloutInv'
<1>1. /\ ~(status = "running" /\ script = "deploy")
      /\ UNCHANGED <<prepared, repo, local, registry, service>>
      /\ UNCHANGED <<script, target, status, entry, at, built, clean, faults>>
  BY DEF Commit, images, control
<1>2. revision' \in 1..MaxRevision
  BY RevisionsAre DEF Commit, RolloutInv, RolloutTypeOK
<1>3. RolloutTypeOK'
  BY <1>1, <1>2 DEF RolloutInv, RolloutTypeOK
<1>4. InScript' /\ DeployIs' /\ CompleteMeansDone'
  BY <1>1 DEF RolloutInv, InScript, DeployIs, CompleteMeansDone, Asked
<1>5. CreateIs'
  BY <1>1 DEF RolloutInv, CreateIs, Created
<1>6. QED  BY <1>3, <1>4, <1>5 DEF RolloutInv

(* What the operator prepares is none of the scripts' doing. *)
LEMMA PrepareStep ==
  ASSUME RolloutInv, Prepare
  PROVE  RolloutInv'
<1>1. /\ UNCHANGED <<revision, repo, local, registry, service>>
      /\ UNCHANGED <<script, target, status, entry, at, built, clean, faults>>
  BY DEF Prepare, images, control
<1>2. prepared' \subseteq {"aws.env", AccessRole} \union SetUpRoles
  BY DEF Prepare, RolloutInv, RolloutTypeOK
<1>3. RolloutTypeOK'
  BY <1>1, <1>2 DEF RolloutInv, RolloutTypeOK
<1>4. InScript' /\ CreateIs' /\ CompleteMeansDone'
  BY <1>1 DEF RolloutInv, InScript, CreateIs, Created, CompleteMeansDone, Asked
<1>5. DeployIs'
  BY <1>1 DEF RolloutInv, DeployIs, Deployed, DeployList
<1>6. QED  BY <1>3, <1>4, <1>5 DEF RolloutInv

(* A script that is killed promises nothing. *)
LEMMA KillRolloutStep ==
  ASSUME RolloutInv, KillRollout
  PROVE  RolloutInv'
<1>1. /\ status' = "stopped" /\ clean' = FALSE
      /\ UNCHANGED <<prepared, revision, repo, local, registry, service>>
      /\ UNCHANGED <<script, target, entry, at, built>>
  BY DEF KillRollout, Killed, Died, ErrExit, images
<1>2. faults' \in 0..MaxFaults
  BY DEF KillRollout, Killed, Died, Fault, RolloutInv, RolloutTypeOK
<1>3. RolloutTypeOK'
  BY <1>1, <1>2 DEF RolloutInv, RolloutTypeOK
<1>4. QED  BY <1>1, <1>3, StoppedIs DEF RolloutInv

(* A step of something else keeps the invariant. *)
LEMMA RolloutStutters ==
  ASSUME RolloutInv, UNCHANGED rolloutVars
  PROVE  RolloutInv'
BY DEF rolloutVars, images, control, RolloutInv, RolloutTypeOK, InScript,
   DeployIs, CreateIs, CompleteMeansDone, Deployed, DeployList, Asked, Created

(* The inductive invariant of the two scripts. *)
THEOREM RolloutInvariance == RolloutSpec => []RolloutInv
<1>1. RolloutInv /\ [RolloutNext]_rolloutVars => RolloutInv'
  <2> SUFFICES ASSUME RolloutInv, [RolloutNext]_rolloutVars PROVE RolloutInv'
    OBVIOUS
  <2>1. CASE StartDeploy  BY <2>1, StartDeployStep
  <2>2. CASE StartCreate  BY <2>2, StartCreateStep
  <2>3. CASE RolloutCommand
    BY <2>3, LoginStep, DescribeRepositoryStep, CreateRepositoryStep,
       BuildImageStep, PushStep, ListServicesStep, CreateServiceStep
       DEF RolloutCommand
  <2>4. CASE KillRollout  BY <2>4, KillRolloutStep
  <2>5. CASE AppRunner
    <3>1. PICK s \in Services : Provisioned(s) \/ ProvisioningFails(s)
      BY <2>5 DEF AppRunner
    <3>2. QED  BY <3>1, ServiceStep
  <2>6. CASE Commit  BY <2>6, CommitStep
  <2>7. CASE \E s \in Services : Pause(s)
    <3>1. PICK s \in Services : Pause(s)
      BY <2>7
    <3>2. QED  BY <3>1, ServiceStep
  <2>8. CASE Prepare  BY <2>8, PrepareStep
  <2>9. CASE UNCHANGED rolloutVars  BY <2>9, RolloutStutters
  <2>10. QED
    BY <2>1, <2>2, <2>3, <2>4, <2>5, <2>6, <2>7, <2>8, <2>9 DEF RolloutNext
<1>2. QED  BY <1>1, RolloutInitially, PTL DEF RolloutSpec

(* Type correctness of ServiceRollout. *)
THEOREM RolloutTypeCorrectness == RolloutSpec => []RolloutTypeOK
<1>1. RolloutInv => RolloutTypeOK
  BY DEF RolloutInv
<1>2. QED  BY <1>1, RolloutInvariance, PTL

(* deploy.sh that says it is done has pushed, for every service, the image *)
(* it built from the source it started from, and create-apprunner-services.*)
(* sh has seen every service known to App Runner: whatever runs before it  *)
(* left behind, and whatever failed in this one.                           *)
THEOREM DeploymentsAreDone == RolloutSpec => []CompleteMeansDone
<1>1. RolloutInv => CompleteMeansDone
  BY DEF RolloutInv
<1>2. QED  BY <1>1, RolloutInvariance, PTL

(* What is in the way of a script none of whose commands failed. *)
InTheWay ==
  \/ script = "deploy" /\ target = "unknown"
  \/ script = "create" /\ AccessRole \notin prepared
  \/ script = "create" /\ service[Created] \in Unhealthy

(* Of the commands, only the login and the creation of a service end a     *)
(* script although all were answered well.                                 *)
LEMMA CommandStops ==
  ASSUME RolloutInv, RolloutCommand, StopsClean
  PROVE  InTheWay
<1>1. /\ status = "running" /\ status' = "stopped" /\ clean'
      /\ clean \in BOOLEAN /\ faults \in 0..MaxFaults
  BY DEF StopsClean, RolloutInv, RolloutTypeOK
<1>2. \A ok \in BOOLEAN : Answered(ok) => ok /\ clean
  BY <1>1, AnsweredIs
<1>3. \A command : ~GoOn(command)
  BY <1>1 DEF GoOn
<1>4. \A order, first : ~NextService(order, first)
  BY <1>1 DEF NextService
<1>5. CASE Login
  <2>1. target = "unknown"
    BY <1>2, <1>3, <1>5 DEF Login
  <2>2. script = "deploy"
    BY <1>5, DeployAt DEF Login, DeployCommands
  <2>3. QED  BY <2>1, <2>2 DEF InTheWay
<1>6. CASE DescribeRepository
  BY <1>3, <1>6 DEF DescribeRepository
<1>7. CASE CreateRepository
  <2>1. clean /\ Deployed \in repo
    BY <1>2, <1>3, <1>7 DEF CreateRepository
  <2>2. script = "deploy" /\ at = "create-repository"
    BY <1>7, DeployAt DEF CreateRepository, DeployCommands
  <2>3. QED  BY <1>1, <2>1, <2>2 DEF RolloutInv, DeployIs
<1>8. CASE BuildImage
  BY <1>2, <1>3, <1>8 DEF BuildImage
<1>9. CASE Push
  BY <1>2, <1>4, <1>9 DEF Push
<1>10. CASE ListServices
  BY <1>3, <1>4, <1>10 DEF ListServices
<1>11. CASE CreateService
  <2>1. clean /\ ~Accepted
    BY <1>2, <1>4, <1>11 DEF CreateService
  <2>2. script = "create" /\ at = "create-service" /\ Created \in Services
    BY <1>11, CreateAt DEF CreateService, CreateCommands
  <2>3. ~Exists(service[Created])
    BY <1>1, <2>1, <2>2 DEF RolloutInv, CreateIs
  <2>4. service[Created] \in Conditions
    BY <2>2 DEF RolloutInv, RolloutTypeOK, Conditions
  <2>5. service[Created] # "absent" => service[Created] \in Unhealthy
    BY <2>3, <2>4 DEF Exists, Conditions, Unhealthy
  <2>6. QED  BY <2>1, <2>2, <2>5 DEF Accepted, InTheWay
<1>12. QED
  BY <1>5, <1>6, <1>7, <1>8, <1>9, <1>10, <1>11 DEF RolloutCommand

(* Neither a beginning nor a kill ends a script that goes on cleanly, and  *)
(* nothing else touches one.                                               *)
LEMMA OnlyCommandsStop ==
  ASSUME RolloutNext, StopsClean
  PROVE  RolloutCommand
<1>1. status = "running" /\ status' = "stopped" /\ clean'
  BY DEF StopsClean
<1>2. ~StartDeploy /\ ~StartCreate
  BY <1>1 DEF StartDeploy, StartCreate, Begin
<1>3. ~KillRollout
  BY <1>1 DEF KillRollout, Killed, Died
<1>4. ~AppRunner /\ ~Commit /\ ~Prepare
  BY <1>1 DEF AppRunner, Provisioned, ProvisioningFails, Commit, Prepare, control
<1>5. ~\E s \in Services : Pause(s)
  BY <1>1 DEF Pause, control
<1>6. QED  BY <1>2, <1>3, <1>4, <1>5 DEF RolloutNext

(* Both scripts can be run again after any failure, in any account: if no  *)
(* command fails, only an argument deploy.sh does not know stops it, and   *)
(* only the role that is not there, or a service that failed or was        *)
(* paused, stops create-apprunner-services.sh.                             *)
THEOREM RerunsAreSafe == RolloutSpec => RerunningIsSafe
<1>1. RolloutInv /\ [RolloutNext]_rolloutVars
        => [StopsClean => InTheWay]_rolloutVars
  <2> SUFFICES ASSUME RolloutInv, [RolloutNext]_rolloutVars, StopsClean
               PROVE  InTheWay \/ UNCHANGED rolloutVars
    OBVIOUS
  <2>1. CASE RolloutNext
    BY <2>1, OnlyCommandsStop, CommandStops
  <2>2. CASE UNCHANGED rolloutVars
    BY <2>2
  <2>3. QED  BY <2>1, <2>2
<1>2. QED
  BY <1>1, RolloutInvariance, PTL DEF RolloutSpec, RerunningIsSafe, InTheWay
-----------------------------------------------------------------------------
(* IamSetup.                                                               *)

PolicyStates == [document : Documents \union {None}, others : 0..MaxVersions - 1]
RoleStates == [trust : Documents \union {None}, policies : SUBSET Policies]
ProfileStates == [exists : BOOLEAN, role : Roles \union {None}]

(* The commands of each call of the script. *)
Commands == [
  ensure_policy |-> {"get-policy", "list-policy-versions",
                     "delete-policy-version", "create-policy"},
  ensure_role |-> {"get-role", "update-assume-role-policy", "create-role",
                   "get-role-arn"},
  attach_policy |-> {"list-attached-role-policies", "attach-role-policy"},
  ensure_instance_profile |-> {"get-instance-profile", "create-instance-profile",
                               "get-profile-role", "remove-role", "add-role",
                               "get-profile-arn"}]

(* What the call of index i is for. *)
Achieved(i) ==
  LET call == Plan[i] IN
  /\ call.do = "ensure_policy" => policy[call.policy].document = "current"
  /\ call.do = "ensure_role" => role[call.role].trust = "current"
  /\ call.do = "attach_policy" => call.policy \in role[call.role].policies
  /\ call.do = "ensure_instance_profile" =>
       profile.exists /\ profile.role = BenchmarkRole

(* What any run knows at a command: the versions it is to delete are there,*)
(* and the role it is to remove is a wrong one.                            *)
KnownAt ==
  /\ at = "delete-policy-version" => todo <= policy[Current.policy].others
  /\ at = "remove-role" => attached \notin {BenchmarkRole, None}

(* What a run in which no command has failed knows.                        *)
CleanAt ==
  /\ at = "create-policy" => ~PolicyExists
  /\ at = "delete-policy-version" => todo = policy[Current.policy].others
  /\ at = "create-role" => ~RoleExists
  /\ at = "get-role-arn" => role[Current.role].trust = "current"
  /\ at \in {"get-profile-role", "remove-role", "add-role", "get-profile-arn"}
       => profile.exists
  /\ at = "remove-role" => attached = profile.role
  /\ at = "add-role" => profile.role = None
  /\ at = "get-profile-arn" => profile.role = BenchmarkRole

InCall == status = "running" => at \in Commands[Current.do] /\ KnownAt

CleanCall ==
  status = "running" /\ clean =>
    (\A i \in 1..(task - 1) : Achieved(i)) /\ CleanAt

Things ==
  /\ policy \in [Policies -> PolicyStates]
  /\ role \in [Roles -> RoleStates]
  /\ profile \in ProfileStates
  /\ todo \in 0..MaxVersions - 1
  /\ attached \in Roles \union {None}
  /\ clean \in BOOLEAN
  /\ faults \in 0..MaxFaults

IamInv ==
  /\ Things
  /\ status \in {"idle", "running", "stopped", "complete"}
  /\ task \in 1..Len(Plan)
  /\ InCall /\ CleanCall /\ CleanRunConfigures

(* What a step takes away: nothing that is as it should be.                *)
Kept ==
  /\ \A p \in Policies :
       /\ policy[p].document = "current" => policy'[p].document = "current"
       /\ policy[p].document # None => policy'[p].document # None
  /\ \A r \in Roles :
       /\ role[r].trust = "current" => role'[r].trust = "current"
       /\ role[r].policies \subseteq role'[r].policies
  /\ profile.role = BenchmarkRole => profile'.role = BenchmarkRole
  /\ profile.exists => profile'.exists

(* The calls of the plan, and what each relies on. *)
LEMMA PlanIs ==
  /\ Len(Plan) = 8
  /\ \A i \in 1..8 :
       /\ Plan[i].do \in {"ensure_policy", "ensure_role", "attach_policy",
                          "ensure_instance_profile"}
       /\ Plan[i].do = "ensure_policy" => Plan[i].policy \in Policies
       /\ Plan[i].do = "ensure_role" => Plan[i].role \in Roles
       /\ Plan[i].do = "attach_policy" =>
            Plan[i].role \in Roles /\ Plan[i].policy \in Policies
       /\ Plan[i].do = "ensure_instance_profile" => Plan[i].role = BenchmarkRole
<1>1. /\ Plan[1] = Call("ensure_policy", None, "algo-ecr-push-policy")
      /\ Plan[2] = Call("ensure_role", AppRunnerRole, None)
      /\ Plan[3] = Call("ensure_policy", None, "algo-apprunner-ecr-policy")
      /\ Plan[4] = Call("attach_policy", AppRunnerRole, "algo-apprunner-ecr-policy")
      /\ Plan[5] = Call("ensure_role", BenchmarkRole, None)
      /\ Plan[6] = Call("ensure_policy", None, "algo-ec2-benchmark-policy")
      /\ Plan[7] = Call("attach_policy", BenchmarkRole, "algo-ec2-benchmark-policy")
      /\ Plan[8] = Call("ensure_instance_profile", BenchmarkRole, None)
      /\ Len(Plan) = 8
  BY DEF Plan
<1>2. \A i \in 1..8 : i \in {1, 2, 3, 4, 5, 6, 7, 8}
  OBVIOUS
<1>3. QED
  BY <1>1, <1>2 DEF Call, Policies, Roles, AppRunnerRole, BenchmarkRole

(* Everything the header of the script promises is what some call is for.  *)
LEMMA PlanIsComplete ==
  ASSUME \A i \in 1..8 : Achieved(i), profile \in ProfileStates
  PROVE  Configured
<1>1. /\ Plan[1] = Call("ensure_policy", None, "algo-ecr-push-policy")
      /\ Plan[2] = Call("ensure_role", AppRunnerRole, None)
      /\ Plan[3] = Call("ensure_policy", None, "algo-apprunner-ecr-policy")
      /\ Plan[4] = Call("attach_policy", AppRunnerRole, "algo-apprunner-ecr-policy")
      /\ Plan[5] = Call("ensure_role", BenchmarkRole, None)
      /\ Plan[6] = Call("ensure_policy", None, "algo-ec2-benchmark-policy")
      /\ Plan[7] = Call("attach_policy", BenchmarkRole, "algo-ec2-benchmark-policy")
      /\ Plan[8] = Call("ensure_instance_profile", BenchmarkRole, None)
  BY DEF Plan
<1>2. /\ policy["algo-ecr-push-policy"].document = "current"
      /\ policy["algo-apprunner-ecr-policy"].document = "current"
      /\ policy["algo-ec2-benchmark-policy"].document = "current"
  <2>1. Achieved(1) /\ Achieved(3) /\ Achieved(6)
    OBVIOUS
  <2>2. QED  BY <1>1, <2>1 DEF Achieved, Call
<1>3. /\ role[AppRunnerRole].trust = "current"
      /\ role[BenchmarkRole].trust = "current"
  <2>1. Achieved(2) /\ Achieved(5)
    OBVIOUS
  <2>2. QED  BY <1>1, <2>1 DEF Achieved, Call
<1>4. /\ "algo-apprunner-ecr-policy" \in role[AppRunnerRole].policies
      /\ "algo-ec2-benchmark-policy" \in role[BenchmarkRole].policies
  <2>1. Achieved(4) /\ Achieved(7)
    OBVIOUS
  <2>2. QED  BY <1>1, <2>1 DEF Achieved, Call
<1>5. profile.exists /\ profile.role = BenchmarkRole
  <2>1. Achieved(8)
    OBVIOUS
  <2>2. QED  BY <1>1, <2>1 DEF Achieved, Call
<1>6. profile = [exists |-> TRUE, role |-> BenchmarkRole]
  BY <1>5 DEF ProfileStates
<1>7. QED  BY <1>2, <1>3, <1>4, <1>6 DEF Configured, Policies, Roles

(* The same, after a step. *)
LEMMA PlanCompletes ==
  ((\A i \in 1..8 : Achieved(i)) /\ profile \in ProfileStates => Configured)'
<1>1. (\A i \in 1..8 : Achieved(i)) /\ profile \in ProfileStates => Configured
  BY PlanIsComplete
<1>2. QED  BY <1>1, PTL

(* What a call relies on has been achieved by an earlier one. *)
LEMMA PlanIsInOrder ==
  ASSUME NEW n \in 1..8, \A i \in 1..(n - 1) : Achieved(i)
  PROVE  /\ Plan[n].do = "attach_policy" =>
              /\ policy[Plan[n].policy].document = "current"
              /\ role[Plan[n].role].trust = "current"
         /\ Plan[n].do = "ensure_instance_profile" =>
              role[BenchmarkRole].trust = "current"
<1>1. /\ Plan[1].do = "ensure_policy"
      /\ Plan[2] = Call("ensure_role", AppRunnerRole, None)
      /\ Plan[3] = Call("ensure_policy", None, "algo-apprunner-ecr-policy")
      /\ Plan[4] = Call("attach_policy", AppRunnerRole, "algo-apprunner-ecr-policy")
      /\ Plan[5] = Call("ensure_role", BenchmarkRole, None)
      /\ Plan[6] = Call("ensure_policy", None, "algo-ec2-benchmark-policy")
      /\ Plan[7] = Call("attach_policy", BenchmarkRole, "algo-ec2-benchmark-policy")
      /\ Plan[8] = Call("ensure_instance_profile", BenchmarkRole, None)
  BY DEF Plan, Call
<1>2. CASE n \in {1, 2, 3, 5, 6}
  BY <1>1, <1>2 DEF Call
<1>3. CASE n = 4
  <2>1. Achieved(2) /\ Achieved(3)
    BY <1>3
  <2>2. QED  BY <1>1, <1>3, <2>1 DEF Achieved, Call
<1>4. CASE n = 7
  <2>1. Achieved(5) /\ Achieved(6)
    BY <1>4
  <2>2. QED  BY <1>1, <1>4, <2>1 DEF Achieved, Call
<1>5. CASE n = 8
  <2>1. Achieved(5)
    BY <1>5
  <2>2. QED  BY <1>1, <1>5, <2>1 DEF Achieved, Call
<1>6. QED  BY <1>2, <1>3, <1>4, <1>5

(* The invariant is about the same values as the type invariant. *)
LEMMA ThingsAreTyped == IamInv => IamTypeOK
BY DEF IamInv, IamTypeOK, Things, PolicyStates, RoleStates, ProfileStates

(* The first command of a call is one of its commands, of which nothing    *)
(* need be known.                                                          *)
LEMMA EntryIs ==
  ASSUME NEW i \in 1..8
  PROVE  /\ Entry[Plan[i].do] \in Commands[Plan[i].do]
         /\ Entry[Plan[i].do] \in {"get-policy", "get-role",
              "list-attached-role-policies", "get-instance-profile"}
<1>1. Plan[i].do \in {"ensure_policy", "ensure_role", "attach_policy",
                      "ensure_instance_profile"}
  BY PlanIs
<1>2. QED  BY <1>1 DEF Entry, Commands

(* A profile exists or not, and holds a role or none. *)
LEMMA ProfileIs ==
  ASSUME NEW exists \in BOOLEAN, NEW r \in Roles \union {None}
  PROVE  [exists |-> exists, role |-> r] \in ProfileStates
BY DEF ProfileStates

(* Whatever earlier set-ups left, the invariant holds. *)
LEMMA IamInitially == IamInit => IamInv
<1> SUFFICES ASSUME IamInit PROVE IamInv
  OBVIOUS
<1>1. MaxVersions \in Nat \ {0, 1}
  BY IamAssumption
<1>2. Things
  <2>1. policy \in [Policies -> PolicyStates]
    BY <1>1 DEF IamInit, Absent, PolicyStates, Documents
  <2>2. role \in [Roles -> RoleStates]
    BY DEF IamInit, RoleStates, Documents
  <2>3. profile \in ProfileStates
    <3>1. \/ profile = [exists |-> FALSE, role |-> None]
          \/ profile = [exists |-> TRUE, role |-> AppRunnerRole]
      BY DEF IamInit
    <3>2. AppRunnerRole \in Roles
      BY DEF Roles
    <3>3. QED  BY <3>1, <3>2, ProfileIs
  <2>4. QED  BY <1>1, <2>1, <2>2, <2>3 DEF IamInit, Things
<1>3. status = "idle" /\ task = 1
  BY DEF IamInit
<1>4. QED
  BY <1>2, <1>3, PlanIs DEF IamInv, InCall, CleanCall, CleanRunConfigures

(* A command that asks for something changes it if it succeeds. *)
LEMMA TriedIs ==
  ASSUME clean \in BOOLEAN, faults \in 0..MaxFaults, NEW ok \in BOOLEAN,
         NEW done \in BOOLEAN, Tried(ok, done)
  PROVE  /\ clean' \in BOOLEAN /\ (clean' => ok /\ done /\ clean)
         /\ faults' \in 0..MaxFaults
BY AnsweredIs DEF Tried

(* A step that leaves the account alone takes nothing away. *)
LEMMA NothingChanged ==
  ASSUME UNCHANGED account
  PROVE  Kept
BY DEF account, Kept

(* What is kept has been achieved for good. *)
LEMMA AchievedIsKept ==
  ASSUME Kept, NEW i \in 1..8, Achieved(i)
  PROVE  Achieved(i)'
BY PlanIs DEF Kept, Achieved

(* The script goes on with another command of the call. *)
LEMMA GoesTo ==
  ASSUME IamInv, status = "running", Kept, Things', NEW command, Goto(command),
         command \in Commands[Current.do], KnownAt',
         clean' => clean /\ CleanAt'
  PROVE  IamInv'
<1>1. at' = command /\ status' = "running" /\ task' = task
  BY DEF Goto
<1>2. task \in 1..8 /\ 1..(task - 1) \subseteq 1..8
  BY PlanIs DEF IamInv
<1>3. InCall'
  BY <1>1 DEF InCall, Current
<1>4. clean' => \A i \in 1..(task - 1) : Achieved(i)'
  BY <1>2, AchievedIsKept DEF IamInv, CleanCall
<1>5. CleanCall'
  BY <1>1, <1>4 DEF CleanCall
<1>6. QED
  BY <1>1, <1>3, <1>5 DEF IamInv, CleanRunConfigures

(* The call returns: what it is for has been achieved.                     *)
LEMMA Returns ==
  ASSUME IamInv, status = "running", Kept, Things', Return,
         clean' => clean, NEW i \in 1..8, i = task, clean' => Achieved(i)'
  PROVE  IamInv'
<1>1. Len(Plan) = 8 /\ task \in 1..8
  BY PlanIs DEF IamInv
<1>2. clean' => \A j \in 1..i : Achieved(j)'
  <2>1. clean' => \A j \in 1..(i - 1) : Achieved(j)
    BY DEF IamInv, CleanCall
  <2>2. \A j \in 1..i : j \in 1..8 /\ (j \in 1..(i - 1) \/ j = i)
    OBVIOUS
  <2>3. QED  BY <2>1, <2>2, AchievedIsKept
<1>3. CASE i = 8
  <2>1. status' = "complete" /\ task' = task
    BY <1>1, <1>3 DEF Return
  <2>2. clean' => Configured'
    BY <1>2, <1>3, PlanCompletes DEF Things
  <2>3. QED
    BY <2>1, <2>2 DEF IamInv, InCall, CleanCall, CleanRunConfigures
<1>4. CASE i # 8
  <2>1. status' = "running" /\ task' = i + 1 /\ at' = Entry[Plan[i + 1].do]
    BY <1>1, <1>4 DEF Return
  <2>2. i + 1 \in 1..8 /\ (i + 1) - 1 = i
    BY <1>4
  <2>3. at' \in Commands[Current.do]'
    BY <2>1, <2>2, EntryIs DEF Current
  <2>4. at' \in {"get-policy", "get-role", "list-attached-role-policies",
                 "get-instance-profile"}
    BY <2>1, <2>2, EntryIs
  <2>5. KnownAt' /\ CleanAt'
    BY <2>4 DEF KnownAt, CleanAt
  <2>6. InCall'
    BY <2>3, <2>5 DEF InCall
  <2>7. CleanCall'
    BY <1>2, <2>1, <2>2, <2>5 DEF CleanCall
  <2>8. QED
    BY <1>1, <2>1, <2>2, <2>6, <2>7 DEF IamInv, CleanRunConfigures
<1>5. QED  BY <1>3, <1>4

(* The script ends before its time: some command has failed.               *)
LEMMA Stops ==
  ASSUME IamInv, Things', status' = "stopped", task' = task, ~clean'
  PROVE  IamInv'
BY DEF IamInv, InCall, CleanCall, CleanRunConfigures

(* Where the commands of each call are issued. *)
LEMMA PolicyCall ==
  ASSUME IamInv, NEW command \in Commands["ensure_policy"], At(command)
  PROVE  /\ status = "running" /\ at = command /\ task \in 1..8
         /\ Plan[task].do = "ensure_policy" /\ Plan[task].policy \in Policies
<1>1. status = "running" /\ at = command /\ task \in 1..8
  BY PlanIs DEF At, IamInv
<1>2. at \in Commands[Plan[task].do]
  BY <1>1 DEF IamInv, InCall, Current
<1>3. Plan[task].do = "ensure_policy"
  BY <1>1, <1>2, PlanIs DEF Commands
<1>4. QED  BY <1>1, <1>3, PlanIs

(* The same for the commands of ensure_role. *)
LEMMA RoleCall ==
  ASSUME IamInv, NEW command \in Commands["ensure_role"], At(command)
  PROVE  /\ status = "running" /\ at = command /\ task \in 1..8
         /\ Plan[task].do = "ensure_role" /\ Plan[task].role \in Roles
<1>1. status = "running" /\ at = command /\ task \in 1..8
  BY PlanIs DEF At, IamInv
<1>2. at \in Commands[Plan[task].do]
  BY <1>1 DEF IamInv, InCall, Current
<1>3. Plan[task].do = "ensure_role"
  BY <1>1, <1>2, PlanIs DEF Commands
<1>4. QED  BY <1>1, <1>3, PlanIs

(* The same for the commands of attach_policy. *)
LEMMA AttachCall ==
  ASSUME IamInv, NEW command \in Commands["attach_policy"], At(command)
  PROVE  /\ status = "running" /\ at = command /\ task \in 1..8
         /\ Plan[task].do = "attach_policy"
         /\ Plan[task].role \in Roles /\ Plan[task].policy \in Policies
<1>1. status = "running" /\ at = command /\ task \in 1..8
  BY PlanIs DEF At, IamInv
<1>2. at \in Commands[Plan[task].do]
  BY <1>1 DEF IamInv, InCall, Current
<1>3. Plan[task].do = "attach_policy"
  BY <1>1, <1>2, PlanIs DEF Commands
<1>4. QED  BY <1>1, <1>3, PlanIs

(* The same for the commands of ensure_instance_profile. *)
LEMMA ProfileCall ==
  ASSUME IamInv, NEW command \in Commands["ensure_instance_profile"], At(command)
  PROVE  /\ status = "running" /\ at = command /\ task \in 1..8
         /\ Plan[task].do = "ensure_instance_profile"
         /\ Plan[task].role = BenchmarkRole
<1>1. status = "running" /\ at = command /\ task \in 1..8
  BY PlanIs DEF At, IamInv
<1>2. at \in Commands[Plan[task].do]
  BY <1>1 DEF IamInv, InCall, Current
<1>3. Plan[task].do = "ensure_instance_profile"
  BY <1>1, <1>2, PlanIs DEF Commands
<1>4. QED  BY <1>1, <1>3, PlanIs

(* If the answer is good, a policy to be created was not there. *)
LEMMA GetPolicyStep ==
  ASSUME IamInv, GetPolicy
  PROVE  IamInv' /\ Kept
<1>1. /\ status = "running" /\ Plan[task].do = "ensure_policy"
      /\ UNCHANGED <<policy, role, profile, todo, attached>>
  BY PolicyCall DEF GetPolicy, account, Commands
<1>2. PICK ok \in BOOLEAN :
        /\ Answered(ok)
        /\ Goto(IF ok /\ PolicyExists THEN "list-policy-versions"
                ELSE "create-policy")
  BY DEF GetPolicy
<1>3. clean' \in BOOLEAN /\ (clean' => ok /\ clean) /\ faults' \in 0..MaxFaults
  BY <1>2, AnsweredIs DEF IamInv, Things
<1>4. Things' /\ Kept
  BY <1>1, <1>3, NothingChanged DEF IamInv, Things, account
<1>5. PICK command \in {"list-policy-versions", "create-policy"} :
        /\ Goto(command)
        /\ command = "create-policy" => ~(ok /\ PolicyExists)
  BY <1>2
<1>6. command \in Commands[Current.do]
  BY <1>1 DEF Commands, Current
<1>7. at' = command /\ task' = task
  BY <1>5 DEF Goto
<1>8. KnownAt' /\ (clean' => CleanAt')
  BY <1>1, <1>3, <1>5, <1>7 DEF KnownAt, CleanAt, PolicyExists, Current
<1>9. QED  BY <1>1, <1>3, <1>4, <1>5, <1>6, <1>8, GoesTo

(* No more versions are to be deleted than there are; all, if the answer   *)
(* is good.                                                                *)
LEMMA ListPolicyVersionsStep ==
  ASSUME IamInv, ListPolicyVersions
  PROVE  IamInv' /\ Kept
<1>1. /\ status = "running" /\ Plan[task].do = "ensure_policy"
      /\ Plan[task].policy \in Policies
      /\ UNCHANGED <<policy, role, profile, attached>>
      /\ Goto("delete-policy-version")
  BY PolicyCall DEF ListPolicyVersions, account, Commands
<1>2. PICK ok \in BOOLEAN :
        /\ Answered(ok)
        /\ todo' = IF ok THEN policy[Current.policy].others ELSE 0
  BY DEF ListPolicyVersions
<1>3. clean' \in BOOLEAN /\ (clean' => ok /\ clean) /\ faults' \in 0..MaxFaults
  BY <1>2, AnsweredIs DEF IamInv, Things
<1>4. /\ policy[Current.policy].others \in 0..MaxVersions - 1
      /\ MaxVersions \in Nat \ {0, 1}
  BY <1>1, IamAssumption DEF IamInv, Things, PolicyStates, Current
<1>5. /\ todo' \in 0..MaxVersions - 1
      /\ todo' <= policy[Current.policy].others
      /\ clean' => todo' = policy[Current.policy].others
  BY <1>2, <1>3, <1>4
<1>6. Things' /\ Kept
  BY <1>1, <1>3, <1>5, NothingChanged DEF IamInv, Things, account
<1>7. "delete-policy-version" \in Commands[Current.do]
  BY <1>1 DEF Commands, Current
<1>8. at' = "delete-policy-version" /\ task' = task
  BY <1>1 DEF Goto
<1>9. KnownAt' /\ (clean' => CleanAt')
  BY <1>1, <1>5, <1>8 DEF KnownAt, CleanAt, Current
<1>10. QED  BY <1>1, <1>3, <1>6, <1>7, <1>9, GoesTo

(* What becomes of the policies when one of them is given a state. *)
LEMMA PolicySet ==
  ASSUME policy \in [Policies -> PolicyStates], NEW p \in Policies,
         NEW d \in Documents \union {None}, NEW n \in 0..MaxVersions - 1,
         policy' = [policy EXCEPT ![p] = [document |-> d, others |-> n]]
  PROVE  /\ policy' \in [Policies -> PolicyStates]
         /\ policy'[p].document = d /\ policy'[p].others = n
         /\ \A q \in Policies \ {p} : policy'[q] = policy[q]
<1>1. [document |-> d, others |-> n] \in PolicyStates
  BY DEF PolicyStates
<1>2. QED  BY <1>1

(* One version less is to be deleted and at most one is gone; the default  *)
(* stays.                                                                  *)
LEMMA DeletePolicyVersionStep ==
  ASSUME IamInv, DeletePolicyVersion
  PROVE  IamInv' /\ Kept
<1>1. /\ status = "running" /\ at = "delete-policy-version" /\ task \in 1..8
      /\ Plan[task].do = "ensure_policy" /\ Plan[task].policy \in Policies
      /\ UNCHANGED <<role, profile, attached>>
      /\ UNCHANGED <<status, task, at>>
      /\ todo > 0 /\ todo' = todo - 1
  BY PolicyCall DEF DeletePolicyVersion, Commands
<1>2. PICK p \in Policies : p = Plan[task].policy
  BY <1>1
<1>3. PICK ok \in BOOLEAN, done \in BOOLEAN :
        /\ Tried(ok, done)
        /\ policy' = IF done THEN [policy EXCEPT ![p].others = @ - 1] ELSE policy
  BY <1>2 DEF DeletePolicyVersion, Current
<1>4. /\ clean' \in BOOLEAN /\ (clean' => ok /\ done /\ clean)
      /\ faults' \in 0..MaxFaults
  BY <1>3, TriedIs DEF IamInv, Things
<1>5. PICK d \in Documents \union {None}, n \in 0..MaxVersions - 1 :
        policy[p] = [document |-> d, others |-> n]
  BY DEF IamInv, Things, PolicyStates
<1>6. /\ todo \in 0..MaxVersions - 1 /\ todo <= n
      /\ clean => todo = n
  BY <1>1, <1>2, <1>5 DEF IamInv, Things, InCall, CleanCall, KnownAt, CleanAt,
     Current
<1>7. MaxVersions \in Nat \ {0, 1}
  BY IamAssumption
<1>8. todo' \in 0..MaxVersions - 1
  BY <1>1, <1>6, <1>7
<1>9. /\ policy' \in [Policies -> PolicyStates] /\ policy'[p].document = d
      /\ policy'[p].others = IF done THEN n - 1 ELSE n
      /\ \A q \in Policies \ {p} : policy'[q] = policy[q]
  <2>1. policy \in [Policies -> PolicyStates]
    BY DEF IamInv, Things
  <2>2. CASE done
    <3>1. n - 1 \in 0..MaxVersions - 1
      BY <1>1, <1>6, <1>7
    <3>2. policy' = [policy EXCEPT ![p] = [document |-> d, others |-> n - 1]]
      <4>1. policy' = [policy EXCEPT ![p] = [policy[p] EXCEPT !.others = n - 1]]
        BY <1>3, <1>5, <2>2
      <4>2. [policy[p] EXCEPT !.others = n - 1] = [document |-> d, others |-> n - 1]
        BY <1>5
      <4>3. QED  BY <4>1, <4>2
    <3>3. QED  BY <2>1, <2>2, <3>1, <3>2, PolicySet
  <2>3. CASE ~done
    BY <1>3, <1>5, <2>1, <2>3
  <2>4. QED  BY <2>2, <2>3
<1>10. Things'
  BY <1>1, <1>4, <1>8, <1>9 DEF IamInv, Things
<1>11. Kept
  BY <1>1, <1>5, <1>9 DEF Kept
<1>12. todo' <= policy'[p].others /\ (clean' => todo' = policy'[p].others)
  BY <1>1, <1>4, <1>6, <1>9
<1>13. KnownAt' /\ (clean' => CleanAt')
  BY <1>1, <1>2, <1>12 DEF KnownAt, CleanAt, Current
<1>14. Goto("delete-policy-version")
  BY <1>1 DEF Goto
<1>15. "delete-policy-version" \in Commands[Current.do]
  BY <1>1 DEF Commands, Current
<1>16. QED  BY <1>1, <1>4, <1>10, <1>11, <1>13, <1>14, <1>15, GoesTo

(* A run in which no command fails has deleted all versions but the default*)
(* by now, so the account accepts one more.                                *)
LEMMA CreatePolicyVersionStep ==
  ASSUME IamInv, CreatePolicyVersion
  PROVE  IamInv' /\ Kept
<1>1. /\ status = "running" /\ at = "delete-policy-version" /\ task \in 1..8
      /\ Plan[task].do = "ensure_policy" /\ Plan[task].policy \in Policies
      /\ UNCHANGED <<role, profile, todo, attached>>
      /\ todo = 0 /\ Return
  BY PolicyCall DEF CreatePolicyVersion, Commands
<1>2. PICK i \in 1..8 : i = task
  BY <1>1
<1>3. PICK p \in Policies : p = Plan[i].policy
  BY <1>1, <1>2
<1>4. PICK d \in Documents \union {None}, n \in 0..MaxVersions - 1 :
        policy[p] = [document |-> d, others |-> n]
  BY DEF IamInv, Things, PolicyStates
<1>5. PICK ok \in BOOLEAN, done \in BOOLEAN :
        /\ Tried(ok, done)
        /\ policy' = IF done /\ n + 1 < MaxVersions
                     THEN [policy EXCEPT ![p] =
                             [document |-> "current", others |-> @.others + 1]]
                     ELSE policy
  BY <1>2, <1>3, <1>4 DEF CreatePolicyVersion, Current
<1>6. /\ clean' \in BOOLEAN /\ (clean' => ok /\ done /\ clean)
      /\ faults' \in 0..MaxFaults
  BY <1>5, TriedIs DEF IamInv, Things
<1>7. MaxVersions \in Nat \ {0, 1}
  BY IamAssumption
<1>8. clean => n = 0
  BY <1>1, <1>2, <1>3, <1>4 DEF IamInv, CleanCall, CleanAt, Current
<1>9. /\ policy' \in [Policies -> PolicyStates]
      /\ policy'[p].document \in {d, "current"}
      /\ done /\ n + 1 < MaxVersions => policy'[p].document = "current"
      /\ \A q \in Policies \ {p} : policy'[q] = policy[q]
  <2>1. policy \in [Policies -> PolicyStates]
    BY DEF IamInv, Things
  <2>2. CASE done /\ n + 1 < MaxVersions
    <3>1. n + 1 \in 0..MaxVersions - 1 /\ "current" \in Documents
      BY <1>7, <2>2 DEF Documents
    <3>2. policy' =
            [policy EXCEPT ![p] = [document |-> "current", others |-> n + 1]]
      BY <1>4, <1>5, <2>1, <2>2
    <3>3. QED  BY <2>1, <3>1, <3>2, PolicySet
  <2>3. CASE ~(done /\ n + 1 < MaxVersions)
    BY <1>4, <1>5, <2>1, <2>3
  <2>4. QED  BY <2>2, <2>3
<1>10. Things'
  BY <1>1, <1>6, <1>9 DEF IamInv, Things
<1>11. Kept
  BY <1>1, <1>4, <1>9 DEF Kept, None
<1>12. clean' => Achieved(i)'
  <2>1. clean' => policy'[p].document = "current"
    BY <1>6, <1>7, <1>8, <1>9
  <2>2. QED  BY <1>1, <1>2, <1>3, <2>1 DEF Achieved
<1>13. QED  BY <1>1, <1>2, <1>6, <1>10, <1>11, <1>12, Returns

(* The policy did not exist, if no command failed, so it is created. *)
LEMMA CreatePolicyStep ==
  ASSUME IamInv, CreatePolicy
  PROVE  IamInv' /\ Kept
<1>1. /\ status = "running" /\ at = "create-policy" /\ task \in 1..8
      /\ Plan[task].do = "ensure_policy" /\ Plan[task].policy \in Policies
      /\ UNCHANGED <<role, profile, todo, attached>>
      /\ Return
  BY PolicyCall DEF CreatePolicy, Commands
<1>2. PICK i \in 1..8 : i = task
  BY <1>1
<1>3. PICK p \in Policies : p = Plan[i].policy
  BY <1>1, <1>2
<1>4. PICK d \in Documents \union {None}, n \in 0..MaxVersions - 1 :
        policy[p] = [document |-> d, others |-> n]
  BY DEF IamInv, Things, PolicyStates
<1>5. PICK ok \in BOOLEAN, done \in BOOLEAN :
        /\ Tried(ok, done)
        /\ policy' = IF done /\ d = None
                     THEN [policy EXCEPT ![p].document = "current"]
                     ELSE policy
  BY <1>2, <1>3, <1>4 DEF CreatePolicy, PolicyExists, Current
<1>6. /\ clean' \in BOOLEAN /\ (clean' => ok /\ done /\ clean)
      /\ faults' \in 0..MaxFaults
  BY <1>5, TriedIs DEF IamInv, Things
<1>7. clean => d = None
  BY <1>1, <1>2, <1>3, <1>4
     DEF IamInv, CleanCall, CleanAt, PolicyExists, Current
<1>8. /\ policy' \in [Policies -> PolicyStates]
      /\ policy'[p].document = IF done /\ d = None THEN "current" ELSE d
      /\ \A q \in Policies \ {p} : policy'[q] = policy[q]
  <2>1. policy \in [Policies -> PolicyStates]
    BY DEF IamInv, Things
  <2>2. CASE done /\ d = None
    <3>1. "current" \in Documents
      BY DEF Documents
    <3>2. policy' = [policy EXCEPT ![p] = [document |-> "current", others |-> n]]
      <4>1. policy' = [policy EXCEPT ![p] = [@ EXCEPT !.document = "current"]]
        BY <1>5, <2>2
      <4>2. [policy[p] EXCEPT !.document = "current"]
              = [document |-> "current", others |-> n]
        BY <1>4
      <4>3. QED  BY <4>1, <4>2
    <3>3. QED  BY <2>1, <2>2, <3>1, <3>2, PolicySet
  <2>3. CASE ~(done /\ d = None)
    BY <1>4, <1>5, <2>1, <2>3
  <2>4. QED  BY <2>2, <2>3
<1>9. Things'
  BY <1>1, <1>6, <1>8 DEF IamInv, Things
<1>10. Kept
  BY <1>1, <1>4, <1>8 DEF Kept, None
<1>11. clean' => Achieved(i)'
  BY <1>1, <1>2, <1>3, <1>6, <1>7, <1>8 DEF Achieved
<1>12. QED  BY <1>1, <1>2, <1>6, <1>9, <1>10, <1>11, Returns

(* If the answer is good, a role to be created was not there. *)
LEMMA GetRoleStep ==
  ASSUME IamInv, GetRole
  PROVE  IamInv' /\ Kept
<1>1. /\ status = "running" /\ Plan[task].do = "ensure_role"
      /\ UNCHANGED <<policy, role, profile, todo, attached>>
  BY RoleCall DEF GetRole, account, Commands
<1>2. PICK ok \in BOOLEAN :
        /\ Answered(ok)
        /\ Goto(IF ok /\ RoleExists THEN "update-assume-role-policy"
                ELSE "create-role")
  BY DEF GetRole
<1>3. clean' \in BOOLEAN /\ (clean' => ok /\ clean) /\ faults' \in 0..MaxFaults
  BY <1>2, AnsweredIs DEF IamInv, Things
<1>4. Things' /\ Kept
  BY <1>1, <1>3, NothingChanged DEF IamInv, Things, account
<1>5. PICK command \in {"update-assume-role-policy", "create-role"} :
        /\ Goto(command)
        /\ command = "create-role" => ~(ok /\ RoleExists)
  BY <1>2
<1>6. command \in Commands[Current.do]
  BY <1>1 DEF Commands, Current
<1>7. at' = command /\ task' = task
  BY <1>5 DEF Goto
<1>8. KnownAt' /\ (clean' => CleanAt')
  BY <1>1, <1>3, <1>5, <1>7 DEF KnownAt, CleanAt, RoleExists, Current
<1>9. QED  BY <1>1, <1>3, <1>4, <1>5, <1>6, <1>8, GoesTo

(* What becomes of the roles when one of them is given a state. *)
LEMMA RoleSet ==
  ASSUME role \in [Roles -> RoleStates], NEW r \in Roles,
         NEW t \in Documents \union {None}, NEW ps \in SUBSET Policies,
         role' = [role EXCEPT ![r] = [trust |-> t, policies |-> ps]]
  PROVE  /\ role' \in [Roles -> RoleStates]
         /\ role'[r].trust = t /\ role'[r].policies = ps
         /\ \A q \in Roles \ {r} : role'[q] = role[q]
<1>1. [trust |-> t, policies |-> ps] \in RoleStates
  BY DEF RoleStates
<1>2. QED  BY <1>1

(* A role is given the trust document of the repository. *)
LEMMA TrustSet ==
  ASSUME role \in [Roles -> RoleStates], NEW r \in Roles,
         role' = [role EXCEPT ![r].trust = "current"]
  PROVE  /\ role' \in [Roles -> RoleStates]
         /\ role'[r].trust = "current" /\ role'[r].policies = role[r].policies
         /\ \A q \in Roles \ {r} : role'[q] = role[q]
<1>1. PICK t \in Documents \union {None}, ps \in SUBSET Policies :
        role[r] = [trust |-> t, policies |-> ps]
  BY DEF RoleStates
<1>2. role' = [role EXCEPT ![r] = [trust |-> "current", policies |-> ps]]
  <2>1. role' = [role EXCEPT ![r] = [role[r] EXCEPT !.trust = "current"]]
    OBVIOUS
  <2>2. [role[r] EXCEPT !.trust = "current"]
          = [trust |-> "current", policies |-> ps]
    BY <1>1
  <2>3. QED  BY <2>1, <2>2
<1>3. "current" \in Documents
  BY DEF Documents
<1>4. /\ role' \in [Roles -> RoleStates]
      /\ role'[r].trust = "current" /\ role'[r].policies = ps
      /\ \A q \in Roles \ {r} : role'[q] = role[q]
  BY <1>2, <1>3, RoleSet
<1>5. QED  BY <1>1, <1>4

(* The role of a call is given its trust document, or stays as it was.     *)
LEMMA TrustStep ==
  ASSUME IamInv, status = "running", NEW r \in Roles, NEW set \in BOOLEAN,
         r = Plan[task].role, Plan[task].do = "ensure_role",
         role' = IF set THEN [role EXCEPT ![r].trust = "current"] ELSE role,
         UNCHANGED <<policy, profile, todo, attached>>,
         clean' \in BOOLEAN, faults' \in 0..MaxFaults, clean' => clean /\ set,
         Goto("get-role-arn")
  PROVE  IamInv' /\ Kept
<1>1. role \in [Roles -> RoleStates]
  BY DEF IamInv, Things
<1>2. /\ role' \in [Roles -> RoleStates]
      /\ role'[r].trust = IF set THEN "current" ELSE role[r].trust
      /\ role'[r].policies = role[r].policies
      /\ \A q \in Roles \ {r} : role'[q] = role[q]
  <2>1. CASE set
    <3>1. role' = [role EXCEPT ![r].trust = "current"]
      BY <2>1
    <3>2. /\ role' \in [Roles -> RoleStates]
          /\ role'[r].trust = "current" /\ role'[r].policies = role[r].policies
          /\ \A q \in Roles \ {r} : role'[q] = role[q]
      BY <1>1, <3>1, TrustSet
    <3>3. QED  BY <2>1, <3>2
  <2>2. CASE ~set
    BY <1>1, <2>2
  <2>3. QED  BY <2>1, <2>2
<1>3. Things'
  BY <1>2 DEF IamInv, Things
<1>4. Kept
  BY <1>2 DEF Kept
<1>5. "get-role-arn" \in Commands[Current.do]
  BY DEF Commands, Current
<1>6. at' = "get-role-arn" /\ task' = task
  BY DEF Goto
<1>7. KnownAt' /\ (clean' => CleanAt')
  BY <1>2, <1>6 DEF KnownAt, CleanAt, Current
<1>8. QED  BY <1>3, <1>4, <1>5, <1>7, GoesTo

(* The trust document of a role that exists is replaced. *)
LEMMA UpdateTrustStep ==
  ASSUME IamInv, UpdateTrust
  PROVE  IamInv' /\ Kept
<1>1. /\ status = "running" /\ Plan[task].do = "ensure_role"
      /\ Plan[task].role \in Roles
      /\ UNCHANGED <<policy, profile, todo, attached>>
      /\ Goto("get-role-arn")
  BY RoleCall DEF UpdateTrust, Commands
<1>2. PICK r \in Roles : r = Plan[task].role
  BY <1>1
<1>3. PICK ok \in BOOLEAN, done \in BOOLEAN :
        /\ Tried(ok, done)
        /\ role' = IF done THEN [role EXCEPT ![r].trust = "current"] ELSE role
  BY <1>2 DEF UpdateTrust, Current
<1>4. /\ clean' \in BOOLEAN /\ (clean' => ok /\ done /\ clean)
      /\ faults' \in 0..MaxFaults
  BY <1>3, TriedIs DEF IamInv, Things
<1>5. QED  BY <1>1, <1>2, <1>3, <1>4, TrustStep

(* The role did not exist, if no command failed, so it is created. *)
LEMMA CreateRoleStep ==
  ASSUME IamInv, CreateRole
  PROVE  IamInv' /\ Kept
<1>1. /\ status = "running" /\ Plan[task].do = "ensure_role"
      /\ Plan[task].role \in Roles /\ at = "create-role"
      /\ UNCHANGED <<policy, profile, todo, attached>>
      /\ Goto("get-role-arn")
  BY RoleCall DEF CreateRole, Commands
<1>2. PICK r \in Roles : r = Plan[task].role
  BY <1>1
<1>3. PICK ok \in BOOLEAN, done \in BOOLEAN :
        /\ Tried(ok, done)
        /\ role' = IF done /\ ~RoleExists
                   THEN [role EXCEPT ![r].trust = "current"] ELSE role
  BY <1>2 DEF CreateRole, Current
<1>4. /\ clean' \in BOOLEAN /\ (clean' => ok /\ done /\ clean)
      /\ faults' \in 0..MaxFaults
  BY <1>3, TriedIs DEF IamInv, Things
<1>5. clean => ~RoleExists
  BY <1>1 DEF IamInv, CleanCall, CleanAt
<1>6. PICK set \in BOOLEAN : set <=> done /\ ~RoleExists
  OBVIOUS
<1>7. QED  BY <1>1, <1>2, <1>3, <1>4, <1>5, <1>6, TrustStep

(* What a successful command returns from has been achieved; any other     *)
(* answer ends the script.                                                 *)
LEMMA ReturnsOrStops ==
  ASSUME IamInv, status = "running", Kept, Things',
         NEW succeeded \in BOOLEAN, ReturnOrExit(succeeded),
         clean' => clean /\ succeeded,
         NEW i \in 1..8, i = task, clean' => Achieved(i)'
  PROVE  IamInv'
<1>1. CASE succeeded /\ Return
  BY <1>1, Returns
<1>2. CASE ~succeeded /\ ErrExit /\ UNCHANGED task
  BY <1>2, Stops DEF ErrExit
<1>3. QED  BY <1>1, <1>2 DEF ReturnOrExit

(* The role exists with its trust document, if no command failed. *)
LEMMA GetRoleArnStep ==
  ASSUME IamInv, GetRoleArn
  PROVE  IamInv' /\ Kept
<1>1. /\ status = "running" /\ Plan[task].do = "ensure_role"
      /\ at = "get-role-arn" /\ task \in 1..8
      /\ UNCHANGED <<policy, role, profile, todo, attached>>
  BY RoleCall DEF GetRoleArn, account, Commands
<1>2. PICK i \in 1..8 : i = task
  BY <1>1
<1>3. PICK ok \in BOOLEAN : Answered(ok) /\ ReturnOrExit(ok /\ RoleExists)
  BY DEF GetRoleArn
<1>4. clean' \in BOOLEAN /\ (clean' => ok /\ clean) /\ faults' \in 0..MaxFaults
  BY <1>3, AnsweredIs DEF IamInv, Things
<1>5. Things' /\ Kept
  BY <1>1, <1>4, NothingChanged DEF IamInv, Things, account
<1>6. clean => role[Plan[i].role].trust = "current"
  BY <1>1, <1>2 DEF IamInv, CleanCall, CleanAt, Current
<1>7. clean => RoleExists
  BY <1>2, <1>6 DEF RoleExists, Current, None
<1>8. clean' => Achieved(i)'
  BY <1>1, <1>2, <1>4, <1>6 DEF Achieved
<1>9. PICK succeeded \in BOOLEAN : succeeded <=> ok /\ RoleExists
  OBVIOUS
<1>10. ReturnOrExit(succeeded)
  BY <1>3, <1>9 DEF ReturnOrExit
<1>11. QED  BY <1>1, <1>2, <1>4, <1>5, <1>7, <1>8, <1>9, <1>10, ReturnsOrStops

(* A policy found attached is attached; any other is to be. *)
LEMMA ListAttachedStep ==
  ASSUME IamInv, ListAttached
  PROVE  IamInv' /\ Kept
<1>1. /\ status = "running" /\ Plan[task].do = "attach_policy" /\ task \in 1..8
      /\ UNCHANGED <<policy, role, profile, todo, attached>>
  BY AttachCall DEF ListAttached, account, Commands
<1>2. PICK i \in 1..8 : i = task
  BY <1>1
<1>3. PICK ok \in BOOLEAN :
        /\ Answered(ok)
        /\ IF ok /\ Plan[i].policy \in role[Plan[i].role].policies
           THEN Return ELSE Goto("attach-role-policy")
  BY <1>2 DEF ListAttached, Current
<1>4. clean' \in BOOLEAN /\ (clean' => ok /\ clean) /\ faults' \in 0..MaxFaults
  BY <1>3, AnsweredIs DEF IamInv, Things
<1>5. Things' /\ Kept
  BY <1>1, <1>4, NothingChanged DEF IamInv, Things, account
<1>6. CASE ok /\ Plan[i].policy \in role[Plan[i].role].policies
  <2>1. Return /\ Achieved(i)'
    BY <1>1, <1>2, <1>3, <1>6 DEF Achieved
  <2>2. QED  BY <1>1, <1>2, <1>4, <1>5, <2>1, Returns
<1>7. CASE ~(ok /\ Plan[i].policy \in role[Plan[i].role].policies)
  <2>1. Goto("attach-role-policy")
    BY <1>3, <1>7
  <2>2. "attach-role-policy" \in Commands[Current.do]
    BY <1>1 DEF Commands, Current
  <2>3. at' = "attach-role-policy"
    BY <2>1 DEF Goto
  <2>4. KnownAt' /\ CleanAt'
    BY <2>3 DEF KnownAt, CleanAt
  <2>5. QED  BY <1>1, <1>4, <1>5, <2>1, <2>2, <2>4, GoesTo
<1>8. QED  BY <1>6, <1>7

(* Role and policy exist, by earlier calls, if no command failed. *)
LEMMA AttachRolePolicyStep ==
  ASSUME IamInv, AttachRolePolicy
  PROVE  IamInv' /\ Kept
<1>1. /\ status = "running" /\ Plan[task].do = "attach_policy" /\ task \in 1..8
      /\ Plan[task].role \in Roles /\ Plan[task].policy \in Policies
      /\ UNCHANGED <<policy, profile, todo, attached>>
  BY AttachCall DEF AttachRolePolicy, Commands
<1>2. PICK i \in 1..8 : i = task
  BY <1>1
<1>3. PICK r \in Roles, p \in Policies : r = Plan[i].role /\ p = Plan[i].policy
  BY <1>1, <1>2
<1>4. PICK succeeded \in BOOLEAN : succeeded <=> RoleExists /\ PolicyExists
  OBVIOUS
<1>5. PICK ok \in BOOLEAN, done \in BOOLEAN :
        /\ Tried(ok, done)
        /\ role' = IF done /\ succeeded
                   THEN [role EXCEPT ![r].policies = @ \union {p}] ELSE role
        /\ ReturnOrExit(ok /\ succeeded)
  BY <1>2, <1>3, <1>4 DEF AttachRolePolicy, Current, ReturnOrExit
<1>6. /\ clean' \in BOOLEAN /\ (clean' => ok /\ done /\ clean)
      /\ faults' \in 0..MaxFaults
  BY <1>5, TriedIs DEF IamInv, Things
<1>7. clean => succeeded
  <2>1. clean => \A j \in 1..(i - 1) : Achieved(j)
    BY <1>1, <1>2 DEF IamInv, CleanCall
  <2>2. clean => policy[p].document = "current" /\ role[r].trust = "current"
    BY <1>1, <1>2, <1>3, <2>1, PlanIsInOrder
  <2>3. QED
    BY <1>2, <1>3, <1>4, <2>2 DEF RoleExists, PolicyExists, Current, None
<1>8. PICK t \in Documents \union {None}, ps \in SUBSET Policies :
        role[r] = [trust |-> t, policies |-> ps]
  BY DEF IamInv, Things, RoleStates
<1>9. /\ role' \in [Roles -> RoleStates]
      /\ role'[r].trust = t
      /\ role'[r].policies = IF done /\ succeeded THEN ps \union {p} ELSE ps
      /\ \A q \in Roles \ {r} : role'[q] = role[q]
  <2>1. role \in [Roles -> RoleStates]
    BY DEF IamInv, Things
  <2>2. CASE done /\ succeeded
    <3>1. role' = [role EXCEPT ![r] = [trust |-> t, policies |-> ps \union {p}]]
      <4>1. role' =
              [role EXCEPT ![r] = [role[r] EXCEPT !.policies = ps \union {p}]]
        BY <1>5, <1>8, <2>2
      <4>2. [role[r] EXCEPT !.policies = ps \union {p}]
              = [trust |-> t, policies |-> ps \union {p}]
        BY <1>8
      <4>3. QED  BY <4>1, <4>2
    <3>2. ps \union {p} \in SUBSET Policies
      OBVIOUS
    <3>3. QED  BY <2>1, <2>2, <3>1, <3>2, RoleSet
  <2>3. CASE ~(done /\ succeeded)
    BY <1>5, <1>8, <2>1, <2>3
  <2>4. QED  BY <2>2, <2>3
<1>10. Things'
  BY <1>1, <1>6, <1>9 DEF IamInv, Things
<1>11. Kept
  BY <1>1, <1>8, <1>9 DEF Kept
<1>12. clean' => Achieved(i)'
  BY <1>1, <1>2, <1>3, <1>6, <1>7, <1>9 DEF Achieved
<1>13. PICK fine \in BOOLEAN : fine <=> ok /\ succeeded
  OBVIOUS
<1>14. ReturnOrExit(fine)
  BY <1>5, <1>13 DEF ReturnOrExit
<1>15. QED
  BY <1>1, <1>2, <1>6, <1>7, <1>10, <1>11, <1>12, <1>13, <1>14, ReturnsOrStops

(* A profile that is found exists. *)
LEMMA GetInstanceProfileStep ==
  ASSUME IamInv, GetInstanceProfile
  PROVE  IamInv' /\ Kept
<1>1. /\ status = "running" /\ Plan[task].do = "ensure_instance_profile"
      /\ UNCHANGED <<policy, role, profile, todo, attached>>
  BY ProfileCall DEF GetInstanceProfile, account, Commands
<1>2. PICK ok \in BOOLEAN :
        /\ Answered(ok)
        /\ Goto(IF ok /\ profile.exists THEN "get-profile-role"
                ELSE "create-instance-profile")
  BY DEF GetInstanceProfile
<1>3. clean' \in BOOLEAN /\ (clean' => ok /\ clean) /\ faults' \in 0..MaxFaults
  BY <1>2, AnsweredIs DEF IamInv, Things
<1>4. Things' /\ Kept
  BY <1>1, <1>3, NothingChanged DEF IamInv, Things, account
<1>5. PICK command \in {"get-profile-role", "create-instance-profile"} :
        /\ Goto(command)
        /\ command = "get-profile-role" => profile.exists
  BY <1>2
<1>6. command \in Commands[Current.do]
  BY <1>1 DEF Commands, Current
<1>7. at' = command
  BY <1>5 DEF Goto
<1>8. KnownAt' /\ CleanAt'
  BY <1>1, <1>5, <1>7 DEF KnownAt, CleanAt
<1>9. QED  BY <1>1, <1>3, <1>4, <1>5, <1>6, <1>8, GoesTo

(* A profile is what it says of existence and role. *)
LEMMA ProfileSet ==
  ASSUME NEW exists \in BOOLEAN, NEW r \in Roles \union {None},
         profile' = [exists |-> exists, role |-> r]
  PROVE  profile' \in ProfileStates /\ profile'.exists = exists /\ profile'.role = r
BY ProfileIs

(* The profile exists behind this command, if it does not fail. *)
LEMMA CreateInstanceProfileStep ==
  ASSUME IamInv, CreateInstanceProfile
  PROVE  IamInv' /\ Kept
<1>1. /\ status = "running" /\ Plan[task].do = "ensure_instance_profile"
      /\ UNCHANGED <<policy, role, todo, attached>>
      /\ Goto("get-profile-role")
  BY ProfileCall DEF CreateInstanceProfile, Commands
<1>2. PICK ok \in BOOLEAN, done \in BOOLEAN :
        /\ Tried(ok, done)
        /\ profile' = IF done THEN [profile EXCEPT !.exists = TRUE] ELSE profile
  BY DEF CreateInstanceProfile
<1>3. /\ clean' \in BOOLEAN /\ (clean' => ok /\ done /\ clean)
      /\ faults' \in 0..MaxFaults
  BY <1>2, TriedIs DEF IamInv, Things
<1>4. profile \in ProfileStates
  BY DEF IamInv, Things
<1>5. /\ profile' \in ProfileStates /\ profile'.role = profile.role
      /\ profile.exists \/ done => profile'.exists
  <2>1. CASE done
    <3>1. profile' = [exists |-> TRUE, role |-> profile.role]
      BY <1>2, <1>4, <2>1 DEF ProfileStates
    <3>2. profile.role \in Roles \union {None}
      BY <1>4 DEF ProfileStates
    <3>3. QED  BY <3>1, <3>2, ProfileSet
  <2>2. CASE ~done
    BY <1>2, <1>4, <2>2
  <2>3. QED  BY <2>1, <2>2
<1>6. Things'
  BY <1>1, <1>3, <1>5 DEF IamInv, Things
<1>7. Kept
  BY <1>1, <1>5 DEF Kept
<1>8. "get-profile-role" \in Commands[Current.do]
  BY <1>1 DEF Commands, Current
<1>9. at' = "get-profile-role"
  BY <1>1 DEF Goto
<1>10. KnownAt' /\ (clean' => CleanAt')
  BY <1>3, <1>5, <1>9 DEF KnownAt, CleanAt
<1>11. QED  BY <1>1, <1>3, <1>6, <1>7, <1>8, <1>10, GoesTo

(* What is found in the profile decides what is to be done. *)
LEMMA GetProfileRoleStep ==
  ASSUME IamInv, GetProfileRole
  PROVE  IamInv' /\ Kept
<1>1. /\ status = "running" /\ Plan[task].do = "ensure_instance_profile"
      /\ Plan[task].role = BenchmarkRole /\ at = "get-profile-role"
      /\ UNCHANGED <<policy, role, profile, todo>>
  BY ProfileCall DEF GetProfileRole, account, Commands
<1>2. PICK ok \in BOOLEAN :
        /\ Answered(ok)
        /\ attached' = IF ok THEN profile.role ELSE None
        /\ Goto(CASE attached' = BenchmarkRole -> "get-profile-arn"
                  [] attached' \notin {BenchmarkRole, None} -> "remove-role"
                  [] attached' = None -> "add-role")
  BY <1>1 DEF GetProfileRole, Current
<1>3. clean' \in BOOLEAN /\ (clean' => ok /\ clean) /\ faults' \in 0..MaxFaults
  BY <1>2, AnsweredIs DEF IamInv, Things
<1>4. attached' \in Roles \union {None}
  BY <1>2 DEF IamInv, Things, ProfileStates
<1>5. Things' /\ Kept
  BY <1>1, <1>3, <1>4, NothingChanged DEF IamInv, Things, account
<1>6. PICK command \in {"get-profile-arn", "remove-role", "add-role"} :
        /\ Goto(command)
        /\ command = "get-profile-arn" => attached' = BenchmarkRole
        /\ command = "remove-role" => attached' \notin {BenchmarkRole, None}
        /\ command = "add-role" => attached' = None
  <2>1. CASE attached' = BenchmarkRole
    <3>1. Goto("get-profile-arn")
      BY <1>2, <2>1 DEF BenchmarkRole, None
    <3>2. QED  BY <2>1, <3>1
  <2>2. CASE attached' = None
    <3>1. Goto("add-role")
      BY <1>2, <2>2 DEF BenchmarkRole, None
    <3>2. QED  BY <2>2, <3>1
  <2>3. CASE attached' \notin {BenchmarkRole, None}
    <3>1. Goto("remove-role")
      BY <1>2, <2>3
    <3>2. QED  BY <2>3, <3>1
  <2>4. QED  BY <2>1, <2>2, <2>3
<1>7. clean => profile.exists
  BY <1>1 DEF IamInv, CleanCall, CleanAt
<1>8. command \in Commands[Current.do]
  BY <1>1 DEF Commands, Current
<1>9. at' = command
  BY <1>6 DEF Goto
<1>10. KnownAt'
  BY <1>6, <1>9 DEF KnownAt
<1>11. clean' => CleanAt'
  BY <1>1, <1>2, <1>3, <1>6, <1>7, <1>9 DEF CleanAt
<1>12. QED  BY <1>1, <1>3, <1>5, <1>6, <1>8, <1>10, <1>11, GoesTo

(* The role it removes is not the one of the benchmark. *)
LEMMA RemoveRoleStep ==
  ASSUME IamInv, RemoveRole
  PROVE  IamInv' /\ Kept
<1>1. /\ status = "running" /\ Plan[task].do = "ensure_instance_profile"
      /\ at = "remove-role"
      /\ UNCHANGED <<policy, role, todo, attached>>
      /\ Goto("add-role")
  BY ProfileCall DEF RemoveRole, Commands
<1>2. PICK ok \in BOOLEAN, done \in BOOLEAN :
        /\ Tried(ok, done)
        /\ profile' = IF done /\ profile.role = attached
                      THEN [profile EXCEPT !.role = None] ELSE profile
  BY DEF RemoveRole
<1>3. /\ clean' \in BOOLEAN /\ (clean' => ok /\ done /\ clean)
      /\ faults' \in 0..MaxFaults
  BY <1>2, TriedIs DEF IamInv, Things
<1>4. profile \in ProfileStates
  BY DEF IamInv, Things
<1>5. attached # BenchmarkRole
  BY <1>1 DEF IamInv, InCall, KnownAt
<1>6. clean => profile.exists /\ attached = profile.role
  BY <1>1 DEF IamInv, CleanCall, CleanAt
<1>7. /\ profile' \in ProfileStates /\ profile'.exists = profile.exists
      /\ profile'.role = IF done /\ profile.role = attached THEN None
                         ELSE profile.role
  <2>1. CASE done /\ profile.role = attached
    <3>1. profile' = [exists |-> profile.exists, role |-> None]
      BY <1>2, <1>4, <2>1 DEF ProfileStates
    <3>2. profile.exists \in BOOLEAN
      BY <1>4 DEF ProfileStates
    <3>3. QED  BY <2>1, <3>1, <3>2, ProfileSet
  <2>2. CASE ~(done /\ profile.role = attached)
    BY <1>2, <1>4, <2>2
  <2>3. QED  BY <2>1, <2>2
<1>8. Things'
  BY <1>1, <1>3, <1>7 DEF IamInv, Things
<1>9. Kept
  BY <1>1, <1>5, <1>7 DEF Kept
<1>10. "add-role" \in Commands[Current.do]
  BY <1>1 DEF Commands, Current
<1>11. at' = "add-role"
  BY <1>1 DEF Goto
<1>12. KnownAt' /\ (clean' => CleanAt')
  BY <1>3, <1>6, <1>7, <1>11 DEF KnownAt, CleanAt
<1>13. QED  BY <1>1, <1>3, <1>8, <1>9, <1>10, <1>12, GoesTo

(* The profile is empty and the role exists, if no command failed. *)
LEMMA AddRoleStep ==
  ASSUME IamInv, AddRole
  PROVE  IamInv' /\ Kept
<1>1. /\ status = "running" /\ Plan[task].do = "ensure_instance_profile"
      /\ Plan[task].role = BenchmarkRole /\ at = "add-role" /\ task \in 1..8
      /\ UNCHANGED <<policy, role, todo, attached>>
      /\ Goto("get-profile-arn")
  BY ProfileCall DEF AddRole, Commands
<1>2. PICK ok \in BOOLEAN, done \in BOOLEAN :
        /\ Tried(ok, done)
        /\ profile' = IF /\ done /\ profile.exists
                         /\ profile.role = None /\ RoleExists
                      THEN [profile EXCEPT !.role = BenchmarkRole] ELSE profile
  BY <1>1 DEF AddRole, Current
<1>3. /\ clean' \in BOOLEAN /\ (clean' => ok /\ done /\ clean)
      /\ faults' \in 0..MaxFaults
  BY <1>2, TriedIs DEF IamInv, Things
<1>4. profile \in ProfileStates
  BY DEF IamInv, Things
<1>5. clean => profile.exists /\ profile.role = None
  BY <1>1 DEF IamInv, CleanCall, CleanAt
<1>6. clean => RoleExists
  <2>1. PICK i \in 1..8 : i = task
    BY <1>1
  <2>2. clean => \A j \in 1..(i - 1) : Achieved(j)
    BY <1>1, <2>1 DEF IamInv, CleanCall
  <2>3. clean => role[BenchmarkRole].trust = "current"
    BY <1>1, <2>1, <2>2, PlanIsInOrder
  <2>4. QED  BY <1>1, <2>3 DEF RoleExists, Current, None
<1>7. /\ profile' \in ProfileStates /\ profile'.exists = profile.exists
      /\ profile'.role \in {profile.role, BenchmarkRole}
      /\ done /\ profile.exists /\ profile.role = None /\ RoleExists
           => profile'.role = BenchmarkRole
  <2>1. CASE done /\ profile.exists /\ profile.role = None /\ RoleExists
    <3>1. profile' = [exists |-> profile.exists, role |-> BenchmarkRole]
      BY <1>2, <1>4, <2>1 DEF ProfileStates
    <3>2. profile.exists \in BOOLEAN /\ BenchmarkRole \in Roles
      BY <1>4 DEF ProfileStates, Roles
    <3>3. QED  BY <3>1, <3>2, ProfileSet
  <2>2. CASE ~(done /\ profile.exists /\ profile.role = None /\ RoleExists)
    BY <1>2, <1>4, <2>2
  <2>3. QED  BY <2>1, <2>2
<1>8. Things'
  BY <1>1, <1>3, <1>7 DEF IamInv, Things
<1>9. Kept
  BY <1>1, <1>7 DEF Kept
<1>10. "get-profile-arn" \in Commands[Current.do]
  BY <1>1 DEF Commands, Current
<1>11. at' = "get-profile-arn"
  BY <1>1 DEF Goto
<1>12. KnownAt' /\ (clean' => CleanAt')
  BY <1>3, <1>5, <1>6, <1>7, <1>11 DEF KnownAt, CleanAt
<1>13. QED  BY <1>1, <1>3, <1>8, <1>9, <1>10, <1>12, GoesTo

(* The profile holds the role, if no command failed. *)
LEMMA GetProfileArnStep ==
  ASSUME IamInv, GetProfileArn
  PROVE  IamInv' /\ Kept
<1>1. /\ status = "running" /\ Plan[task].do = "ensure_instance_profile"
      /\ at = "get-profile-arn" /\ task \in 1..8
      /\ UNCHANGED <<policy, role, profile, todo, attached>>
  BY ProfileCall DEF GetProfileArn, account, Commands
<1>2. PICK i \in 1..8 : i = task
  BY <1>1
<1>3. PICK exists \in BOOLEAN : exists <=> profile.exists
  OBVIOUS
<1>4. PICK ok \in BOOLEAN : Answered(ok) /\ ReturnOrExit(ok /\ exists)
  BY <1>3 DEF GetProfileArn, ReturnOrExit
<1>5. clean' \in BOOLEAN /\ (clean' => ok /\ clean) /\ faults' \in 0..MaxFaults
  BY <1>4, AnsweredIs DEF IamInv, Things
<1>6. Things' /\ Kept
  BY <1>1, <1>5, NothingChanged DEF IamInv, Things, account
<1>7. clean => profile.exists /\ profile.role = BenchmarkRole
  BY <1>1 DEF IamInv, CleanCall, CleanAt
<1>8. clean' => Achieved(i)'
  BY <1>1, <1>2, <1>5, <1>7 DEF Achieved
<1>9. PICK succeeded \in BOOLEAN : succeeded <=> ok /\ exists
  OBVIOUS
<1>10. ReturnOrExit(succeeded)
  BY <1>4, <1>9 DEF ReturnOrExit
<1>11. QED
  BY <1>1, <1>2, <1>3, <1>5, <1>6, <1>7, <1>8, <1>9, <1>10, ReturnsOrStops

(* A run begins with the first call, whatever the last one came to.        *)
LEMMA StartStep ==
  ASSUME IamInv, Start
  PROVE  IamInv' /\ Kept
<1>1. /\ status' = "running" /\ task' = 1 /\ at' = Entry[Plan[1].do]
      /\ UNCHANGED <<policy, role, profile, faults>>
      /\ todo' = 0 /\ attached' = None /\ clean' = TRUE
  BY DEF Start, account
<1>2. MaxVersions \in Nat \ {0, 1} /\ 1 \in 1..8 /\ 1..(1 - 1) = {}
  BY IamAssumption
<1>3. Things'
  <2>1. todo' \in 0..MaxVersions - 1
    BY <1>1, <1>2
  <2>2. QED  BY <1>1, <2>1 DEF IamInv, Things
<1>4. /\ at' \in Commands[Current.do]'
      /\ at' \in {"get-policy", "get-role", "list-attached-role-policies",
                  "get-instance-profile"}
  BY <1>1, <1>2, EntryIs DEF Current
<1>5. KnownAt' /\ CleanAt'
  BY <1>4 DEF KnownAt, CleanAt
<1>6. InCall' /\ CleanCall'
  BY <1>1, <1>2, <1>4, <1>5 DEF InCall, CleanCall
<1>7. Kept
  BY <1>1 DEF Kept
<1>8. QED
  BY <1>1, <1>2, <1>3, <1>6, <1>7, PlanIs DEF IamInv, CleanRunConfigures

(* A run that is refused has done nothing. *)
LEMMA RefuseStep ==
  ASSUME IamInv, Refuse
  PROVE  IamInv' /\ Kept
<1>1. /\ status' = "stopped" /\ clean' = FALSE /\ task' = task
      /\ UNCHANGED <<policy, role, profile, todo, attached, faults>>
  BY DEF Refuse, account
<1>2. Things' /\ Kept
  BY <1>1 DEF IamInv, Things, Kept
<1>3. QED  BY <1>1, <1>2, Stops

(* A run that is killed takes nothing away. *)
LEMMA KillSetUpStep ==
  ASSUME IamInv, KillSetUp
  PROVE  IamInv' /\ Kept
<1>1. /\ status' = "stopped" /\ clean' = FALSE /\ task' = task
      /\ UNCHANGED <<policy, role, profile, todo, attached>>
  BY DEF KillSetUp, Killed, Died, ErrExit, account
<1>2. faults' \in 0..MaxFaults
  BY DEF KillSetUp, Killed, Died, Fault, IamInv, Things
<1>3. Things' /\ Kept
  BY <1>1, <1>2 DEF IamInv, Things, Kept
<1>4. QED  BY <1>1, <1>3, Stops

(* A step of something else changes nothing. *)
LEMMA IamStutters ==
  ASSUME IamInv, UNCHANGED iamVars
  PROVE  IamInv' /\ Kept
<1>1. /\ UNCHANGED <<policy, role, profile, todo, attached, clean, faults>>
      /\ UNCHANGED <<status, task, at>>
  BY DEF iamVars, account, setUp
<1>2. Things' /\ Kept
  BY <1>1 DEF IamInv, Things, Kept
<1>3. (KnownAt <=> KnownAt') /\ (CleanAt <=> CleanAt')
  BY <1>1 DEF KnownAt, CleanAt, PolicyExists, RoleExists, Current
<1>4. InCall'
  BY <1>1, <1>3 DEF IamInv, InCall, Current
<1>5. CleanCall'
  BY <1>1, <1>3 DEF IamInv, CleanCall, Achieved
<1>6. CleanRunConfigures'
  BY <1>1 DEF IamInv, CleanRunConfigures, Configured
<1>7. QED  BY <1>1, <1>2, <1>4, <1>5, <1>6 DEF IamInv

(* Every step keeps the invariant, and what is as it should be. *)
LEMMA IamStep ==
  ASSUME IamInv, [IamNext]_iamVars
  PROVE  IamInv' /\ Kept
<1>1. CASE Start  BY <1>1, StartStep
<1>2. CASE Refuse  BY <1>2, RefuseStep
<1>3. CASE SetUpCommand
  <2>1. CASE \/ GetPolicy \/ ListPolicyVersions \/ DeletePolicyVersion
             \/ CreatePolicyVersion \/ CreatePolicy
    BY <2>1, GetPolicyStep, ListPolicyVersionsStep, DeletePolicyVersionStep,
       CreatePolicyVersionStep, CreatePolicyStep
  <2>2. CASE GetRole \/ UpdateTrust \/ CreateRole \/ GetRoleArn
    BY <2>2, GetRoleStep, UpdateTrustStep, CreateRoleStep, GetRoleArnStep
  <2>3. CASE ListAttached \/ AttachRolePolicy
    BY <2>3, ListAttachedStep, AttachRolePolicyStep
  <2>4. CASE \/ GetInstanceProfile \/ CreateInstanceProfile \/ GetProfileRole
             \/ RemoveRole \/ AddRole \/ GetProfileArn
    BY <2>4, GetInstanceProfileStep, CreateInstanceProfileStep,
       GetProfileRoleStep, RemoveRoleStep, AddRoleStep, GetProfileArnStep
  <2>5. QED  BY <1>3, <2>1, <2>2, <2>3, <2>4 DEF SetUpCommand
<1>4. CASE KillSetUp  BY <1>4, KillSetUpStep
<1>5. CASE UNCHANGED iamVars  BY <1>5, IamStutters
<1>6. QED  BY <1>1, <1>2, <1>3, <1>4, <1>5 DEF IamNext

(* The inductive invariant of setup-iam.sh. *)
THEOREM IamInvariance == IamSpec => []IamInv
<1>1. IamInv /\ [IamNext]_iamVars => IamInv'
  BY IamStep
<1>2. QED  BY <1>1, IamInitially, PTL DEF IamSpec

(* Type correctness of IamSetup. *)
THEOREM IamTypeCorrectness == IamSpec => []IamTypeOK
<1>1. QED  BY ThingsAreTyped, IamInvariance, PTL

(* "Safe to run multiple times": whatever any number of earlier runs left, *)
(* failed or killed at any command, a run of setup-iam.sh in which no      *)
(* command fails goes to its end and leaves the account configured.        *)
THEOREM CleanRunsConfigure == IamSpec => []CleanRunConfigures
<1>1. IamInv => CleanRunConfigures
  BY DEF IamInv
<1>2. QED  BY <1>1, IamInvariance, PTL

(* However a run of setup-iam.sh fails, it takes nothing away that is as   *)
(* it should be.                                                           *)
THEOREM NothingIsWithdrawn == IamSpec => NothingWithdrawn
<1>1. IamInv /\ [IamNext]_iamVars => Kept
  BY IamStep
<1>2. Kept => [/\ \A p \in Policies :
                    /\ policy[p].document = "current" => policy'[p].document = "current"
                    /\ policy[p].document # None => policy'[p].document # None
               /\ \A r \in Roles :
                    /\ role[r].trust = "current" => role'[r].trust = "current"
                    /\ role[r].policies \subseteq role'[r].policies
               /\ profile.role = BenchmarkRole => profile'.role = BenchmarkRole]_account
  BY DEF Kept
<1>3. QED  BY <1>1, <1>2, IamInvariance, PTL DEF IamSpec, NothingWithdrawn
=============================================================================
