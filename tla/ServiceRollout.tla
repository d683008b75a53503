----------------------------- MODULE ServiceRollout -----------------------------
(***************************************************************************)
(* scripts/deploy.sh, which builds the images and pushes them to ECR, and  *)
(* scripts/create-apprunner-services.sh, which creates the App Runner      *)
(* services from them.  An operator prepares the account and runs one or   *)
(* the other, again and again if need be; the source changes between runs; *)
(* any command may fail, and a script may be killed.  Both run under       *)
(* set -e, and unlike setup-iam.sh call their functions outside $(...), so *)
(* a failed command ends them unless it is the condition of an if.         *)
(***************************************************************************)
EXTENDS ShellScripts, Sequences

CONSTANTS
  DeployOrder,   \* the services in the order deploy.sh all takes them
  CreateOrder,   \* the entries of SERVICES in create-apprunner-services.sh
  MaxRevision    \* bound on the revisions of the source

Services == {DeployOrder[i] : i \in DOMAIN DeployOrder}

ASSUME RolloutAssumption ==
  /\ DeployOrder \in Seq(Services) /\ CreateOrder \in Seq(Services)
  /\ Services = {CreateOrder[i] : i \in DOMAIN CreateOrder}
  /\ Len(DeployOrder) > 0 /\ Len(CreateOrder) = Len(DeployOrder)
  /\ Services \intersect {"all", "missing", "unknown"} = {}
  /\ MaxRevision \in Nat \ {0}

(* The role create-apprunner-services.sh names, and those setup-iam.sh     *)
(* creates.                                                                *)
AccessRole == "AppRunnerECRAccessRole"
SetUpRoles == {"algo-apprunner-access-role", "algo-ec2-benchmark-role"}

NoImage == 0

VARIABLES
  prepared,  \* of aws.env and the roles of the account, those that are there
  revision,  \* the revision of the source
  repo,      \* the ECR repositories that exist
  local,     \* the revision of the local image of each service
  registry,  \* the revision of the image in ECR
  service,   \* the App Runner service of each name
  script,    \* the script that runs or ran last
  target,    \* its argument: a service, "all", or one deploy.sh refuses
  entry,     \* index of the service it is at
  built      \* observed: the revision deploy.sh started from

images == <<repo, local, registry>>
control == <<script, target, status, entry, at>>
rolloutVars == <<prepared, revision, images, service, control, built, clean, faults>>

RolloutInit ==
  /\ prepared = {}
  /\ revision = 1
  /\ repo = {}
  /\ local = [s \in Services |-> NoImage]
  /\ registry = [s \in Services |-> NoImage]
  /\ service = [s \in Services |-> "absent"]
  /\ script = "none"
  /\ target = "all"
  /\ status = "complete"
  /\ entry = 1
  /\ at = "none"
  /\ built = 0
  /\ clean = TRUE
  /\ faults = 0

GoOn(command) == at' = command /\ UNCHANGED <<script, target, status, entry>>

(* The loop does not stop at the last entry. *)
NextService_Overruns(order, first) ==
  /\ IF entry > Len(order)
     THEN status' = "complete" /\ UNCHANGED <<entry, at>>
     ELSE entry' = entry + 1 /\ at' = first /\ UNCHANGED status
  /\ UNCHANGED <<script, target>>

(* On to the next service, which begins with the same command.             *)
NextService(order, first) ==
  /\ IF entry = Len(order)
     THEN status' = "complete" /\ UNCHANGED <<entry, at>>
     ELSE entry' = entry + 1 /\ at' = first /\ UNCHANGED status
  /\ UNCHANGED <<script, target>>

Exit == ErrExit /\ UNCHANGED <<script, target, entry>>

(* A script begins, unless the file it sources is missing. *)
Begin(command) ==
  /\ status # "running"
  /\ entry' = 1
  /\ clean' = TRUE
  /\ IF "aws.env" \in prepared /\ target' # "missing"
     THEN status' = "running" /\ at' = command
     ELSE status' = "stopped" /\ at' = "none"

----------------------------------------------------------------------------
(* deploy.sh                                                               *)

(* One service, or all of them one after the other.                        *)
Asked == IF target = "all" THEN Services ELSE {target}
DeployList == IF target = "all" THEN DeployOrder ELSE <<target>>

Deployed == DeployList[entry]

(* The argument is looked at twice: here for being there at all, and in    *)
(* the case behind the login for being known.                              *)
StartDeploy ==
  /\ script' = "deploy"
  /\ target' \in Services \union {"all", "missing", "unknown"}
  /\ Begin("docker login")
  /\ built' = revision
  /\ UNCHANGED <<prepared, revision, images, service, faults>>

Login ==
  /\ At("docker login")
  /\ \E ok \in BOOLEAN :
       /\ Answered(ok)
       /\ \/ ok /\ target # "unknown" /\ GoOn("describe-repositories")
          \/ ~(ok /\ target # "unknown") /\ Exit
  /\ UNCHANGED <<prepared, revision, images, service, built>>

DescribeRepository ==
  /\ At("describe-repositories")
  /\ \E ok \in BOOLEAN :
       /\ Answered(ok)
       /\ GoOn(IF ok /\ Deployed \in repo THEN "docker build" ELSE "create-repository")
  /\ UNCHANGED <<prepared, revision, images, service, built>>

CreateRepository ==
  /\ At("create-repository")
  /\ \E ok \in BOOLEAN :
       /\ Answered(ok)
       /\ \/ ok /\ Deployed \notin repo /\ GoOn("docker build")
          \/ ~(ok /\ Deployed \notin repo) /\ Exit
       /\ repo' = IF ok THEN repo \union {Deployed} ELSE repo
  /\ UNCHANGED <<prepared, revision, local, registry, service, built>>

(* A failed build does not end the script. *)
BuildImage_GoesOn ==
  /\ At("docker build")
  /\ \E ok \in BOOLEAN :
       /\ Answered(ok)
       /\ local' = IF ok THEN [local EXCEPT ![Deployed] = revision] ELSE local
  /\ GoOn("docker push")
  /\ UNCHANGED <<prepared, revision, repo, registry, service, built>>

BuildImage ==
  /\ At("docker build")
  /\ \E ok \in BOOLEAN :
       /\ Answered(ok)
       /\ \/ /\ ok
             /\ local' = [local EXCEPT ![Deployed] = revision]
             /\ GoOn("docker push")
          \/ /\ ~ok
             /\ Exit
             /\ UNCHANGED local
  /\ UNCHANGED <<prepared, revision, repo, registry, service, built>>

Push ==
  /\ At("docker push")
  /\ \E ok \in BOOLEAN :
       /\ Answered(ok)
       /\ \/ /\ ok
             /\ registry' = [registry EXCEPT ![Deployed] = local[Deployed]]
             /\ NextService(DeployList, "describe-repositories")
          \/ /\ ~ok
             /\ Exit
             /\ UNCHANGED registry
  /\ UNCHANGED <<prepared, revision, repo, local, service, built>>

----------------------------------------------------------------------------
(* create-apprunner-services.sh                                            *)

Created == CreateOrder[entry]

StartCreate ==
  /\ script' = "create" /\ target' = "all"
  /\ Begin("list-services")
  /\ UNCHANGED <<prepared, revision, images, service, built, faults>>

(* A service that is being provisioned does not count as existing. *)
Exists_RunningOnly(answer) == answer = "RUNNING"

(* service_exists: a command that fails is no match.                       *)
Exists(answer) == answer \in {"RUNNING", "DEPLOYING", "OPERATION_IN_PROGRESS"}

(* The answer is not narrowed to the service of that name. *)
ListServices_AnyName ==
  /\ At("list-services")
  /\ \E ok \in BOOLEAN :
       /\ Answered(ok)
       /\ IF ok /\ \E s \in Services : Exists(service[s])
          THEN NextService(CreateOrder, "list-services")
          ELSE GoOn("create-service")
  /\ UNCHANGED <<prepared, revision, images, service, built>>

ListServices ==
  /\ At("list-services")
  /\ \E ok \in BOOLEAN :
       /\ Answered(ok)
       /\ IF ok /\ Exists(service[Created])
          THEN NextService(CreateOrder, "list-services")
          ELSE GoOn("create-service")
  /\ UNCHANGED <<prepared, revision, images, service, built>>

(* App Runner refuses a name that is taken and a role that is not there.   *)
Accepted == service[Created] = "absent" /\ AccessRole \in prepared

CreateService ==
  /\ At("create-service")
  /\ \E ok \in BOOLEAN :
       /\ Answered(ok)
       /\ \/ /\ ok /\ Accepted
             /\ service' = [service EXCEPT ![Created] = "OPERATION_IN_PROGRESS"]
             /\ NextService(CreateOrder, "list-services")
          \/ /\ ~(ok /\ Accepted)
             /\ Exit
             /\ UNCHANGED service
  /\ UNCHANGED <<prepared, revision, images, built>>

----------------------------------------------------------------------------
(* App Runner, the operator and the developers.                            *)

Provisioned(s) ==
  /\ service[s] = "OPERATION_IN_PROGRESS"
  /\ registry[s] # NoImage
  /\ service' = [service EXCEPT ![s] = "RUNNING"]
  /\ UNCHANGED <<prepared, revision, images, control, built, clean, faults>>

ProvisioningFails(s) ==
  /\ service[s] = "OPERATION_IN_PROGRESS"
  /\ \/ registry[s] = NoImage /\ UNCHANGED faults
     \/ Fault
  /\ service' = [service EXCEPT ![s] = "CREATE_FAILED"]
  /\ UNCHANGED <<prepared, revision, images, control, built, clean>>

Pause(s) ==
  /\ service[s] = "RUNNING"
  /\ service' = [service EXCEPT ![s] = "PAUSED"]
  /\ UNCHANGED <<prepared, revision, images, control, built, clean, faults>>

Commit ==
  /\ revision < MaxRevision
  /\ ~(status = "running" /\ script = "deploy")
  /\ revision' = revision + 1
  /\ UNCHANGED <<prepared, images, service, control, built, clean, faults>>

(* The operator writes aws.env, runs setup-iam.sh, makes a role by hand.   *)
Prepare ==
  /\ \E things \in {{"aws.env"}, SetUpRoles, {AccessRole}} :
       /\ ~(things \subseteq prepared)
       /\ prepared' = prepared \union things
  /\ UNCHANGED <<revision, images, service, control, built, clean, faults>>

KillRollout ==
  /\ Killed
  /\ UNCHANGED <<prepared, revision, images, service, script, target, entry, built>>

RolloutCommand ==
  \/ Login \/ DescribeRepository \/ CreateRepository \/ BuildImage \/ Push
  \/ ListServices \/ CreateService

AppRunner == \E s \in Services : Provisioned(s) \/ ProvisioningFails(s)

RolloutNext ==
  \/ StartDeploy \/ StartCreate \/ RolloutCommand \/ KillRollout
  \/ AppRunner \/ Commit \/ Prepare
  \/ \E s \in Services : Pause(s)

RolloutSpec == RolloutInit /\ [][RolloutNext]_rolloutVars

(* A script that was started goes on, and App Runner ends what it began.   *)
RolloutFairSpec ==
  RolloutSpec /\ WF_rolloutVars(RolloutCommand) /\ WF_rolloutVars(AppRunner)

----------------------------------------------------------------------------
(* Type correctness. *)
RolloutTypeOK ==
  /\ prepared \subseteq {"aws.env", AccessRole} \union SetUpRoles
  /\ revision \in 1..MaxRevision
  /\ repo \subseteq Services
  /\ local \in [Services -> 0..MaxRevision]
  /\ registry \in [Services -> 0..MaxRevision]
  /\ service \in [Services -> {"absent", "OPERATION_IN_PROGRESS", "RUNNING",
                                "CREATE_FAILED", "PAUSED"}]
  /\ script \in {"none", "deploy", "create"}
  /\ target \in Services \union {"all", "missing", "unknown"}
  /\ status \in {"running", "stopped", "complete"}
  /\ entry \in DOMAIN DeployOrder
  /\ built \in 0..MaxRevision
  /\ clean \in BOOLEAN
  /\ faults \in 0..MaxFaults

(* "All 7 services deployed to ECR", or the one that was asked for: its    *)
(* image is the one this run built from its source, not one an earlier run *)
(* left behind.  "All services submitted": App Runner knows every one.     *)
CompleteMeansDone ==
  status = "complete" =>
    /\ script = "deploy" => \A s \in Asked : registry[s] = built
    /\ script = "create" => \A s \in Services : service[s] # "absent"

Unhealthy == {"CREATE_FAILED", "PAUSED"}

(* A run that is under way stops although none of its commands failed for  *)
(* a reason outside the script.                                            *)
StopsClean == status = "running" /\ status' = "stopped" /\ clean'

(* "Re-running is safe: skips services that already exist" (line 12 of     *)
(* create-apprunner-services.sh), whatever failed before.  Nothing an      *)
(* earlier run left stops deploy.sh, which stops for an argument it does   *)
(* not know.  The other script is stopped by the role that is not there,   *)
(* or by a service that failed or was paused, and never by one that is up  *)
(* or being provisioned.                                                   *)
RerunningIsSafe ==
  [][StopsClean =>
       \/ script = "deploy" /\ target = "unknown"
       \/ script = "create" /\ AccessRole \notin prepared
       \/ script = "create" /\ service[Created] \in Unhealthy]_rolloutVars

(* create-apprunner-services.sh:6-7, "All ECR images pushed", "IAM role    *)
(* AppRunnerECRAccessRole must exist (run ./setup-iam.sh first)": with     *)
(* both done, only a service that failed or was paused is in the way.      *)
PrerequisitesSuffice ==
  [][StopsClean /\ script = "create" /\ SetUpRoles \subseteq prepared
       /\ (\A s \in Services : registry[s] # NoImage)
     => \E s \in Services : service[s] \in Unhealthy]_rolloutVars

(* If the role is made some day, the script is run again and again,        *)
(* failures come to an end and no service fails or is paused, every        *)
(* service is up in the end.                                               *)
Resumes ==
  /\ <>(AccessRole \in prepared)
  /\ []<>(script = "create" /\ status = "running")
  /\ []<>(status # "running")
  /\ [](\A s \in Services : service[s] \notin Unhealthy)
  => <>[](\A s \in Services : service[s] = "RUNNING")
=============================================================================
