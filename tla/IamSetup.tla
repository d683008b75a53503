------------------------------- MODULE IamSetup -------------------------------
(***************************************************************************)
(* scripts/setup-iam.sh: the policies, roles and instance profile of the   *)
(* benchmark, created or brought up to date in an AWS account.  One action *)
(* per AWS command, because the script can be killed between any two, and  *)
(* any of them can fail, with or without effect.                           *)
(*                                                                         *)
(* The script runs under set -e, but bash turns it off inside $(...):      *)
(* ensure_policy, ensure_role and ensure_instance_profile are called that  *)
(* way, so only the status of their last command can end the script.       *)
(***************************************************************************)
EXTENDS ShellScripts, Sequences

CONSTANT MaxVersions  \* versions of a policy that the account may hold (5)

ASSUME IamAssumption == MaxVersions \in Nat \ {0, 1}

None == "None"

Policies == {"algo-ecr-push-policy", "algo-apprunner-ecr-policy", "algo-ec2-benchmark-policy"}
AppRunnerRole == "algo-apprunner-access-role"
BenchmarkRole == "algo-ec2-benchmark-role"
Roles == {AppRunnerRole, BenchmarkRole}

(* The calls of the script, in order.                                      *)
Call(do, role, policy) == [do |-> do, role |-> role, policy |-> policy]

Plan == <<
  Call("ensure_policy", None, "algo-ecr-push-policy"),
  Call("ensure_role", AppRunnerRole, None),
  Call("ensure_policy", None, "algo-apprunner-ecr-policy"),
  Call("attach_policy", AppRunnerRole, "algo-apprunner-ecr-policy"),
  Call("ensure_role", BenchmarkRole, None),
  Call("ensure_policy", None, "algo-ec2-benchmark-policy"),
  Call("attach_policy", BenchmarkRole, "algo-ec2-benchmark-policy"),
  Call("ensure_instance_profile", BenchmarkRole, None)>>

(* The first command of each call.                                         *)
Entry == [ensure_policy |-> "get-policy", ensure_role |-> "get-role",
          attach_policy |-> "list-attached-role-policies",
          ensure_instance_profile |-> "get-instance-profile"]

VARIABLES
  policy,   \* the document in force of each policy, and its other versions
  role,     \* the trust document and the attached policies of each role
  profile,  \* the role in the instance profile
  task,     \* index in Plan of the call under way
  todo,     \* versions still to delete
  attached  \* the role found in the profile

account == <<policy, role, profile>>
setUp == <<status, task, at, todo, attached>>
iamVars == <<account, setUp, clean, faults>>

(* Documents are those of the repository now, or of an earlier set-up.     *)
Documents == {"current", "earlier"}

Absent == [document |-> None, others |-> 0]

(* What earlier set-ups may have left: nothing, or everything with older   *)
(* documents and another role in the profile.                              *)
IamInit ==
  /\ \/ /\ policy = [p \in Policies |-> Absent]
        /\ role = [r \in Roles |-> [trust |-> None, policies |-> {}]]
        /\ profile = [exists |-> FALSE, role |-> None]
     \/ /\ policy = [p \in Policies |->
                       [document |-> "earlier", others |-> MaxVersions - 1]]
        /\ role = [r \in Roles |-> [trust |-> "earlier", policies |-> {}]]
        /\ profile = [exists |-> TRUE, role |-> AppRunnerRole]
  /\ status = "idle"
  /\ task = 1
  /\ at = Entry[Plan[1].do]
  /\ todo = 0
  /\ attached = None
  /\ clean = TRUE
  /\ faults = 0

Current == Plan[task]

(* What a command asked for may be done even when it fails. *)
Tried(ok, done) == (ok => done) /\ Answered(ok)

Goto(command) == at' = command /\ UNCHANGED <<status, task>>

(* The call returns, and the script goes on with the next or ends.         *)
Return ==
  IF task = Len(Plan)
  THEN status' = "complete" /\ UNCHANGED <<task, at>>
  ELSE /\ task' = task + 1
       /\ at' = Entry[Plan[task + 1].do]
       /\ UNCHANGED status

ReturnOrExit(succeeded) ==
  \/ succeeded /\ Return
  \/ ~succeeded /\ ErrExit /\ UNCHANGED task

----------------------------------------------------------------------------
(* ensure_policy                                                           *)

PolicyExists == policy[Current.policy].document # None

(* A policy that exists is taken to be the right one. *)
GetPolicy_LeavesExisting ==
  /\ At("get-policy")
  /\ \E ok \in BOOLEAN :
       /\ Answered(ok)
       /\ IF ok /\ PolicyExists THEN Return ELSE Goto("create-policy")
  /\ UNCHANGED <<account, todo, attached>>

GetPolicy ==
  /\ At("get-policy")
  /\ \E ok \in BOOLEAN :
       /\ Answered(ok)
       /\ Goto(IF ok /\ PolicyExists THEN "list-policy-versions" ELSE "create-policy")
  /\ UNCHANGED <<account, todo, attached>>

(* The list of versions includes the default one. *)
ListPolicyVersions_WithDefault ==
  /\ At("list-policy-versions")
  /\ \E ok \in BOOLEAN :
       /\ Answered(ok)
       /\ todo' = IF ok THEN policy[Current.policy].others + 1 ELSE 0
  /\ Goto("delete-policy-version")
  /\ UNCHANGED <<account, attached>>

(* No version is deleted before a new one is made. *)
ListPolicyVersions_None ==
  /\ At("list-policy-versions")
  /\ \E ok \in BOOLEAN : Answered(ok)
  /\ todo' = 0
  /\ Goto("delete-policy-version")
  /\ UNCHANGED <<account, attached>>

(* An answer that fails leaves the list empty.                             *)
ListPolicyVersions ==
  /\ At("list-policy-versions")
  /\ \E ok \in BOOLEAN :
       /\ Answered(ok)
       /\ todo' = IF ok THEN policy[Current.policy].others ELSE 0
  /\ Goto("delete-policy-version")
  /\ UNCHANGED <<account, attached>>

DeletePolicyVersion ==
  /\ At("delete-policy-version")
  /\ todo > 0
  /\ \E ok \in BOOLEAN, done \in BOOLEAN :
       /\ Tried(ok, done)
       /\ policy' = IF done
                    THEN [policy EXCEPT ![Current.policy].others = @ - 1]
                    ELSE policy
  /\ todo' = todo - 1
  /\ UNCHANGED <<role, profile, status, task, at, attached>>

(* The new version becomes the default; the account refuses one too many.  *)
CreatePolicyVersion ==
  /\ At("delete-policy-version")
  /\ todo = 0
  /\ \E ok \in BOOLEAN, done \in BOOLEAN :
       /\ Tried(ok, done)
       /\ policy' = IF done /\ policy[Current.policy].others + 1 < MaxVersions
                    THEN [policy EXCEPT ![Current.policy] =
                            [document |-> "current", others |-> @.others + 1]]
                    ELSE policy
  /\ Return
  /\ UNCHANGED <<role, profile, todo, attached>>

CreatePolicy ==
  /\ At("create-policy")
  /\ \E ok \in BOOLEAN, done \in BOOLEAN :
       /\ Tried(ok, done)
       /\ policy' = IF done /\ ~PolicyExists
                    THEN [policy EXCEPT ![Current.policy].document = "current"]
                    ELSE policy
  /\ Return
  /\ UNCHANGED <<role, profile, todo, attached>>

----------------------------------------------------------------------------
(* ensure_role                                                             *)

RoleExists == role[Current.role].trust # None

GetRole ==
  /\ At("get-role")
  /\ \E ok \in BOOLEAN :
       /\ Answered(ok)
       /\ Goto(IF ok /\ RoleExists THEN "update-assume-role-policy" ELSE "create-role")
  /\ UNCHANGED <<account, todo, attached>>

UpdateTrust ==
  /\ At("update-assume-role-policy")
  /\ \E ok \in BOOLEAN, done \in BOOLEAN :
       /\ Tried(ok, done)
       /\ role' = IF done THEN [role EXCEPT ![Current.role].trust = "current"] ELSE role
  /\ Goto("get-role-arn")
  /\ UNCHANGED <<policy, profile, todo, attached>>

CreateRole ==
  /\ At("create-role")
  /\ \E ok \in BOOLEAN, done \in BOOLEAN :
       /\ Tried(ok, done)
       /\ role' = IF done /\ ~RoleExists
                  THEN [role EXCEPT ![Current.role].trust = "current"]
                  ELSE role
  /\ Goto("get-role-arn")
  /\ UNCHANGED <<policy, profile, todo, attached>>

(* The last command of the function: its failure is the assignment's.      *)
GetRoleArn ==
  /\ At("get-role-arn")
  /\ \E ok \in BOOLEAN :
       /\ Answered(ok)
       /\ ReturnOrExit(ok /\ RoleExists)
  /\ UNCHANGED <<account, todo, attached>>

----------------------------------------------------------------------------
(* attach_policy, called outside $(...): a failure ends the script.        *)

ListAttached ==
  /\ At("list-attached-role-policies")
  /\ \E ok \in BOOLEAN :
       /\ Answered(ok)
       /\ IF ok /\ Current.policy \in role[Current.role].policies
          THEN Return
          ELSE Goto("attach-role-policy")
  /\ UNCHANGED <<account, todo, attached>>

AttachRolePolicy ==
  /\ At("attach-role-policy")
  /\ \E ok \in BOOLEAN, done \in BOOLEAN :
       /\ Tried(ok, done)
       /\ role' = IF done /\ RoleExists /\ PolicyExists
                  THEN [role EXCEPT ![Current.role].policies = @ \union {Current.policy}]
                  ELSE role
       /\ ReturnOrExit(ok /\ RoleExists /\ PolicyExists)
  /\ UNCHANGED <<policy, profile, todo, attached>>

----------------------------------------------------------------------------
(* ensure_instance_profile                                                 *)

GetInstanceProfile ==
  /\ At("get-instance-profile")
  /\ \E ok \in BOOLEAN :
       /\ Answered(ok)
       /\ Goto(IF ok /\ profile.exists THEN "get-profile-role" ELSE "create-instance-profile")
  /\ UNCHANGED <<account, todo, attached>>

CreateInstanceProfile ==
  /\ At("create-instance-profile")
  /\ \E ok \in BOOLEAN, done \in BOOLEAN :
       /\ Tried(ok, done)
       /\ profile' = IF done THEN [profile EXCEPT !.exists = TRUE] ELSE profile
  /\ Goto("get-profile-role")
  /\ UNCHANGED <<policy, role, todo, attached>>

(* The role in the profile is not compared with the one wanted. *)
GetProfileRole_AlwaysReplaces ==
  /\ At("get-profile-role")
  /\ \E ok \in BOOLEAN :
       /\ Answered(ok)
       /\ attached' = IF ok THEN profile.role ELSE None
       /\ Goto(IF attached' = None THEN "add-role" ELSE "remove-role")
  /\ UNCHANGED <<account, todo>>

(* A command that fails counts as no role.                                 *)
GetProfileRole ==
  /\ At("get-profile-role")
  /\ \E ok \in BOOLEAN :
       /\ Answered(ok)
       /\ attached' = IF ok THEN profile.role ELSE None
       /\ Goto(CASE attached' = Current.role -> "get-profile-arn"
                 [] attached' \notin {Current.role, None} -> "remove-role"
                 [] attached' = None -> "add-role")
  /\ UNCHANGED <<account, todo>>

RemoveRole ==
  /\ At("remove-role")
  /\ \E ok \in BOOLEAN, done \in BOOLEAN :
       /\ Tried(ok, done)
       /\ profile' = IF done /\ profile.role = attached
                     THEN [profile EXCEPT !.role = None]
                     ELSE profile
  /\ Goto("add-role")
  /\ UNCHANGED <<policy, role, todo, attached>>

(* A profile holds one role at most.                                       *)
AddRole ==
  /\ At("add-role")
  /\ \E ok \in BOOLEAN, done \in BOOLEAN :
       /\ Tried(ok, done)
       /\ profile' = IF done /\ profile.exists /\ profile.role = None /\ RoleExists
                     THEN [profile EXCEPT !.role = Current.role]
                     ELSE profile
  /\ Goto("get-profile-arn")
  /\ UNCHANGED <<policy, role, todo, attached>>

GetProfileArn ==
  /\ At("get-profile-arn")
  /\ \E ok \in BOOLEAN :
       /\ Answered(ok)
       /\ ReturnOrExit(ok /\ profile.exists)
  /\ UNCHANGED <<account, todo, attached>>

----------------------------------------------------------------------------
(* The operator runs the script, again if need be, or kills it.            *)
Start ==
  /\ status # "running"
  /\ status' = "running"
  /\ task' = 1
  /\ at' = Entry[Plan[1].do]
  /\ todo' = 0
  /\ attached' = None
  /\ clean' = TRUE
  /\ UNCHANGED <<account, faults>>

(* Credentials that fail, or are another account's, end it before it acts. *)
Refuse ==
  /\ status # "running"
  /\ status' = "stopped"
  /\ clean' = FALSE
  /\ UNCHANGED <<account, task, at, todo, attached, faults>>

KillSetUp == Killed /\ UNCHANGED <<account, task, todo, attached>>

SetUpCommand ==
  \/ GetPolicy \/ ListPolicyVersions \/ DeletePolicyVersion
  \/ CreatePolicyVersion \/ CreatePolicy
  \/ GetRole \/ UpdateTrust \/ CreateRole \/ GetRoleArn
  \/ ListAttached \/ AttachRolePolicy
  \/ GetInstanceProfile \/ CreateInstanceProfile \/ GetProfileRole
  \/ RemoveRole \/ AddRole \/ GetProfileArn

IamNext == Start \/ Refuse \/ SetUpCommand \/ KillSetUp

IamSpec == IamInit /\ [][IamNext]_iamVars

(* A script that was started goes on until it ends.                        *)
IamFairSpec == IamSpec /\ WF_iamVars(SetUpCommand)

----------------------------------------------------------------------------
(* The account is as the header of the script says it will be.             *)
Configured ==
  /\ \A p \in Policies : policy[p].document = "current"
  /\ \A r \in Roles : role[r].trust = "current"
  /\ "algo-apprunner-ecr-policy" \in role[AppRunnerRole].policies
  /\ "algo-ec2-benchmark-policy" \in role[BenchmarkRole].policies
  /\ profile = [exists |-> TRUE, role |-> BenchmarkRole]

(* Type correctness. *)
IamTypeOK ==
  /\ policy \in [Policies -> [document : Documents \union {None}, others : 0..MaxVersions - 1]]
  /\ role \in [Roles -> [trust : Documents \union {None}, policies : SUBSET Policies]]
  /\ profile \in [exists : BOOLEAN, role : Roles \union {None}]
  /\ status \in {"idle", "running", "stopped", "complete"}
  /\ task \in 1..Len(Plan)
  /\ todo \in 0..MaxVersions - 1
  /\ attached \in Roles \union {None}
  /\ clean \in BOOLEAN
  /\ faults \in 0..MaxFaults

(* "Safe to run multiple times": whatever earlier runs left, half-made by  *)
(* failures and kills at any command, a run in which no command fails is   *)
(* not stopped by it (say, by a policy that has no room for one version    *)
(* more), and ends with everything in place.                               *)
CleanRunConfigures ==
  status \in {"stopped", "complete"} /\ clean => status = "complete" /\ Configured

(* A run takes nothing away that is as it should be, however it fails:     *)
(* current documents stay in force, attached policies attached, the right  *)
(* role in the profile, and no policy or role vanishes.                    *)
NothingWithdrawn ==
  [][/\ \A p \in Policies :
          /\ policy[p].document = "current" => policy'[p].document = "current"
          /\ policy[p].document # None => policy'[p].document # None
     /\ \A r \in Roles :
          /\ role[r].trust = "current" => role'[r].trust = "current"
          /\ role[r].policies \subseteq role'[r].policies
     /\ profile.role = BenchmarkRole => profile'.role = BenchmarkRole]_account

(* If the script is run again and again and failures come to an end, the   *)
(* account is configured for good.                                         *)
Recovers == []<>(status # "running") /\ []<>(status = "running") => <>[]Configured

(* What the script prints at its end: "IAM setup complete".                *)
CompleteMeansConfigured == status = "complete" => Configured
=============================================================================
