# Verification of the seven level-order services

The repository answers one request, `POST /api/v1/trees/level-order` (a binary
tree in, its values level by level out), in seven implementations, and measures
them against each other. This directory holds TLA+ models of the parts that
keep state or decide something, the TLC runs that check them on small instances,
and theorems that TLAPS proves for every instance. Paths below are relative to
the repository's root.

## The system

| Component | Where | State | Operations |
|---|---|---|---|
| Level-order traversal | `TreeService` (java, spring, kotlin), `main.py`, `main.go`, `trees.service.ts`, `level-order.worker.js` | queue, result, node count, of one call | `solveLevelOrder` |
| Worker-thread pool | `nodejs-wt-impl/src/infrastructure/worker-pool.ts`, `trees.service.ts`, `level-order.worker.js` | idle stack, queue, Map worker → task, the promises, the threads and their message ports | `run`, 'message' and 'error' handlers, `dispatch`, `release`, `destroy`; the worker's listener |
| Go queue pool | `go-impl/main.go` (`queuePool`, `releaseQueue`) | pooled slice pointers and their backing arrays, shared by all requests | Get, append, clear, Put |
| JSON nesting guard | `main.go`, `main.py`, both Node `main.ts`, `require-body.middleware.ts` | depth, deepest so far, in-string flag; what was kept of the body | `measureJSONDepth` and its namesakes; read a body chunk by chunk, refuse it |
| Jackson guard | `JacksonSecurityCustomizer` (java, kotlin), `InfrastructureConfig` (spring) | none | configures a library limit |
| Request pipeline | handlers, `main.ts` hooks, middleware, interceptor, exception handlers of each stack | the stage and reply of each request, and who holds the event loop | size guard, nesting guard, decoding, validation, timer, traversal, error mapping |
| Dispatch | `@RunOnVirtualThread`, `Dispatchers.Default`, the Reactor scheduler | none of the repository's own | one task per request |
| Load-test driver | `scripts/heptathlon.py` | rows measured, last rate sustained, the sentinel file and processes of the pre-warm-up, the files written | warm up, measure, climb the ladder of rates, probe, save, draw, report |
| Set-up of the IAM account | `scripts/setup-iam.sh` | policies and their versions, roles, the instance profile | ensure policy, role, profile; attach policy |
| Images and services | `scripts/deploy.sh`, `scripts/create-apprunner-services.sh` | ECR repositories and images, local images, App Runner services | build, push, create what does not exist |
| CloudWatch plots | `scripts/plot_cloudwatch.py` | nine charts per prefix and a CSV file, overwritten in place | fetch and draw them all, from the driver or by hand |
| Launch of the client | `scripts/launch-benchmark-ec2.sh`, `scripts/setup-ec2.sh` | the security group, the instance of each launch, what was installed on it | launch, poll, user data, set-up by hand |
| Smoke tests, Lua scripts | `scripts/test-*.sh`, `scripts/wrk2/*.lua` | none | send |

**How they interact.** A request passes the pipeline of its stack: size, nesting,
decoder, then `solveLevelOrder`, and a refusal of any of them becomes a response.
In six stacks the traversal is a call; in `nodejs-wt-impl` it is a message to
another thread, and the pool matches replies to promises. In Go overlapping
traversals share `queuePool`. In the services, nothing else is shared and nothing
persists. The scripts work on an AWS account that outlives them: `setup-iam.sh`
makes the roles, `deploy.sh` the images, `create-apprunner-services.sh` the
services, `launch-benchmark-ec2.sh` the machine from which `heptathlon.py` measures
those, and that ends with `plot_cloudwatch.generate_all`, which an operator also calls
by hand on the same files.

**What is hard.** The pool, where replies, thread deaths, new calls and `destroy()`
meet in any order; the aliasing of Go's pooled arrays, where one line of
`releaseQueue` moved makes two requests work on one array; the boundaries of the
traversal, where two limits and two levels share one loop; three versions of a scanner
that must give one verdict on bodies that come in pieces or not at all; seven orders
of the same guards; scripts that die between two commands and are run again; a load
test that must not measure its own warm-up, and whose charts are replaced one by one.
`PROJECT.json` lists the hazards by line.

**What makes each component correct.**

- *Traversal*: the result holds every node of the tree, each level complete and
  left to right; a refusal is that of the first level over a limit; the
  buffers are filled exactly and the array stays bounded.
- *Pool*: no call lost, doubled, or answered with another's result; no thread
  released twice or forgotten; no call waiting while a thread is idle; every
  call settled, by the outcome of its tree or the death of its thread.
- *Queue pool*: an array serves one request at a time; no pooled array keeps
  nodes alive.
- *Nesting guard*: on well-formed text the verdict is that of the nesting, in
  every stack; on any text, no parser reads deeper than the limit; a parser gets a
  whole body within the size limit, and what is kept of any body stays within it.
- *Pipeline*: the limits are enforced alike whatever the order of the guards, and a body
  that is no node goes no further than the decoder of its stack lets it; costly stages
  see only what the cheap ones let through; the runtime headers measure the request they
  are sent with.
- *Driver*: nothing else loads the service while it is measured; the reports of the
  sustained rate agree; no results file is
  begun before the test is whole; charts and tables that lie side by side can be read.
- *Scripts*: run again after any failure, they complete what is missing and take
  nothing away; "complete" is printed only if it is; a launch ends, and the instance
  it announces can be reached.

## The modules

| Module | Models | Uses |
|---|---|---|
| `WorkerPool` | the pool, its threads and ports | instance of `PoolService` |
| `PoolService` | what callers of the pool are promised: no threads, no messages | |
| `BinaryTrees` | the trees received, their children as a visit queues them | |
| `LevelOrderReference` | what `solveLevelOrder` promises, by recursion on the tree | `BinaryTrees` |
| `LevelOrderDeque` | the traversal of the JVM stacks and Python | `BinaryTrees`, instance of `LevelOrderReference` |
| `LevelOrderHeadPointer` | the traversal of Go and both Node stacks | `BinaryTrees`, instance of `LevelOrderDeque` |
| `GoQueuePool` | Go's traversals, as they share arrays through `sync.Pool` | `BinaryTrees` |
| `GoRequest` | one of them followed to its answer, the others around it | extends `GoQueuePool`, instance of `LevelOrderDeque` |
| `JsonDepth` | the three scanners and the grammar, on one body | |
| `BodyGuards` | how that body reaches a Node, the Go and the Python service: header, chunks, end, broken connection | extends `JsonDepth` |
| `RequestPipeline` | the stages of a request in each stack, several requests at a time | |
| `ShellScripts` | what the scripts share: the command under way, `set -e`, failures from outside, the kill | |
| `IamSetup` | `setup-iam.sh` and the account it sets up | extends `ShellScripts` |
| `ServiceRollout` | `deploy.sh` and `create-apprunner-services.sh` on one account | extends `ShellScripts` |
| `PreWarmUp` | the shell, the sleeper and the loops of `pre_warmup_curl` | |
| `CloudWatchPlots` | `plot_cloudwatch.py`: the charts and the CSV file, call after call | |
| `Heptathlon` | the driver | composed with `PreWarmUp` and `CloudWatchPlots` |
| `BenchmarkClient` | the launch, the user data on the instance, and `setup-ec2.sh` | extends `ShellScripts` |
| `…Proofs` | theorems about the module they extend | TLAPS |
| `MC…` | instances for TLC; `MCTrees` enumerates every shape of tree | |

A definition with an underscore (`Release_TakesNewest`) is a wrong variant of the
definition it is named for, written as a plausible slip of that code. No
behaviour uses it; putting it in the place of the right one must break the
property it is listed with in `PROJECT.json`, and does. `parse_wrk2`,
`get_metric`, `generate_all` and `fetch_cloudwatch_csv` are no variants: these names are
the code's. `CharacterLoop_NoEscapes` is part of two variants.

**WorkerPool.** JavaScript on the main thread runs to completion, so each method
and handler is one action, with the calls it makes: `Run` is `run` with
`dispatch`; `OnMessage` and `OnError` are the two handlers of `wire`, `release`
and `dispatch` included. `idle`, `queue` and `pending` are the fields of the
class. `inbox` and `outbox` are the ports' FIFO queues, `Receive` and `Respond`
the beginning and the end of the worker's listener. `promise` is what the caller
awaits; `answer` records whose traversal settled it. `Crash` is what the code's
comment names "crashes that escape the message handler (e.g. OOM)". Three facts
about Node.js are taken from how it works and are not in the repository: replies
a dead thread had posted are delivered before its 'error' event, which comes
once; what is posted to a dead thread is dropped; `terminate()` ends a thread
without an 'error' event. `Oversized` are the calls whose tree the worker
refuses; which ones those are is the traversal's business, modelled below.

**Traversals.** One action per iteration: `StartLevel` is the head of the while
loop with its tests, `Visit` an iteration of the for loop, `EndLevel` its end,
`TooDeep` the throw at the top, `Return` the normal return. In
`LevelOrderHeadPointer` nothing leaves the array: `head`, `i` and `levelEnd` are
the counters of the code, and `Null` is a slot of the buffer not yet written.
Values are represented by the nodes that hold them, which tells apart everything
the traversal can confuse. (`node.value ?? 0` of the Node stacks replaces a
missing value and plays no part here.) A tree also carries the level of each node
and its rank in reading order. No program reads them; the properties do, and
`BinaryTrees` assumes only how they relate to the children.

**GoQueuePool.** A slice is an array and a length, a pooled pointer points to a
slice; `append` writes in place or moves to an array twice as large. Each
statement that touches shared memory is an action of its own, because goroutines
interleave anywhere: `Clear`, `Store` and `Put` are the three lines of
`releaseQueue`. `sync.Pool` may drop pointers (`Collect`) and hands out any of
them. Result buffers are the request's own and left out.

**GoRequest.** The same memory and the same steps, and for one request, `Mine`, the
variables of `solveLevelOrder` that nobody shares: `MyLoop`, `MyVisit` and `MyEndLevel`
are `Loop`, `Visit` and `EndLevel` with what they do to `level`, `result` and
`totalNodes`. What it reads comes out of the shared slots (`NodeAt`), whoever wrote them.
`ImplementsAlone` says that it is a `LevelOrderDeque` all the same. `releaseQueue` erases
the queue before the function returns, so the history variable `left` keeps what was
queued when the loop was left: the queue of the deque is `left` from then on.

**JsonDepth.** A character is one of five classes, since no scanner tells apart
more; `Feed` gives the same character to the three scanners and to a reader of
the grammar. The code's `i++` behind a backslash is a mode ("escaped"). The
Python pattern matches `.` behind a backslash, which excludes a newline: the
backslash is then skipped alone, and the newline itself is of no class that
counts, so the outcome is the same.

**BodyGuards.** One request, sent alike to `nodejs`, `go` and `python`: `declared` is
its Content-Length, `Send` puts a character on the wire (and through the scanners, which
the services call at `End` on what they kept), `Deliver` hands over what was sent since
the last chunk. `HookChunk` is the `for await` loop of the hook, `HookEnd` what follows
it. fasthttp's `BodyLimit` and Starlette's `request.body()` are modelled from how the
services use them. After a reply of its own the hook reads no more, and the model takes
that reply for the end of the request. `BodyIsScanned` says that a body
in chunks is still a body of `JsonDepth`.

**RequestPipeline.** A stack is a sequence of stages in the order of its source
(`GoStages`, `PythonStages`, `NodeStages`, `JvmStages`), and one action per kind of
stage refuses the request or lets it go on. A body is known by the first thing that is
wrong with it, and the classes are as fine as the decoders of the seven stacks are
apart: `PlainBodies` are those every stack is meant to treat alike, `NearNodes` are JSON
and no node of the schema, and `OddNodes` what the decoders read differently.
`Undecodable` is what each decoder refuses, `Validate` what the pipe of Node does. In
the services that run on an event loop, `running` is the request that holds it; a
request gives it up where the next stage begins with something awaited (`Awaited`: the
body, or a worker's answer). Taken from the frameworks, and not in the repository: Nest
runs middleware before Fastify's `preParsing` and pipes inside the interceptor; the
continuation of a settled promise runs before other callbacks; `ValidationPipe` makes an
empty node of `null`, and finds nothing to validate in a number or text as the root or
an array as a child; pydantic's lax mode takes what is equal to an integer; Jackson
coerces numerals and fractions, and nulls up to version 2; Go's decoder takes digits
only; pydantic follows about 200 levels of nesting, as the test at
`python-impl/test_endpoint.py:102` records. All requests declare `application/json`.
Body limits of the JVM services are their frameworks', so a body that is too large is
not sent to them. In `nodejs-wt` the traversal itself is `WorkerPool`'s: the pipeline
only knows that its answer, result or refusal, is awaited.

**ShellScripts.** The three models of scripts count failures alike: `faults` are those of
all runs, `clean` says that the run under way met none. `IamSpec`, `RolloutSpec` and
`ClientSpec` are the specifications of the modules that extend it.

**IamSetup.** One action per AWS command, because any may fail, with or without
effect, and the script may be killed between two. `Plan` is `main`, `at` the
command to issue next. The functions that return an ARN are called in `$(...)`,
where bash switches `set -e` off: their failed commands are passed over (`Goto`),
and only the last command's status ends the script (`ReturnOrExit`). An ARN is
the identity of what it names. Documents are current, outdated or missing.

**ServiceRollout.** The two scripts are run in any order, any number of times, one at a
time, against one registry and one account. `deploy.sh` is given `all`, one service,
nothing, or a name it does not know; an argument that is missing ends it before the
login, an unknown one behind it. Of the account, `prepared` says what of aws.env and the
roles is there: it starts empty, and `Prepare` is the operator who writes aws.env, runs
`setup-iam.sh` (which makes `SetUpRoles`), or makes by hand the role that
`create-apprunner-services.sh` names (`AccessRole`), at any time or never.
`service_exists` asks for three states of a service of that name; a service in another
state is not found but its name is taken. Sources are not changed while `deploy.sh`
runs. App Runner may fail to provision, for want of an image or for reasons of its own;
the operator may pause a service.

**Heptathlon and PreWarmUp.** `PreWarmUp` has one action per step of each process: a
loop's test of the sentinel and the request it lets through are two. `Heptathlon` runs
one `PreWarmUp` per scenario beside the driver: the driver waits for the shell
(`subprocess.run`), the other processes take their steps whatever the driver does. What
wrk2 reports is one of four outcomes; `parse_wrk2` keeps what the criterion looks at,
which is not all of it. `Abort` stands for Ctrl-C, a lost session, a full disk and an
exception. The four data files are written in their order and in place: `OpenFile`
truncates one, `CloseFile` makes it whole, and a test that is stopped between the two
leaves it cut short. `Draw` draws the charts one by one; `images` are those this test
wrote, so that one that is missing is one an earlier test left. Times and numbers are
left out.

**CloudWatchPlots.** `generate_all` is a call; `Plot` stands for the nine functions it
calls, each of which fetches and then saves a chart with or without data, and
`fetch_cloudwatch_csv` saves only if there is data. `Raise` may end a call anywhere:
`heptathlon.py:562` and an operator go on all the same. A chart is known by the call
that wrote it and the end of the window it shows. `Heptathlon` makes one of the calls
(`CallPlots`) and takes its steps beside the driver's; when the process is gone (`Exit`)
the operator may call `main` (`DrawAgain`).

**BenchmarkClient.** One action per command of `launch-benchmark-ec2.sh` that reads or
changes something; the user data and `setup-ec2.sh` run on the instance meanwhile. Any
command may fail with or without effect, up to `MaxFaults` times, and a launch may be
killed anywhere. `setup-ec2.sh` may be started at any time, and again when it is done.
`set -e` ends a script at a failure, except inside an `&&` list
(`BuildWrk2`) and behind `|| true` (`CloneRepo`). What wrk2's Makefile builds is taken from
`setup-ec2.sh:46`, which copies a program called `wrk`; so the `cp` of the user data fails
in every run, "copy" is never among what an instance `has` of its user data, and `cwd` stays
in `wrk2`. AMIs, keys and addresses are left
out: nothing depends on which they are.

## The runs

| Run | Instance | Shows |
|---|---|---|
| `pool` | 2 threads, both may die, 4 calls, one refused by the traversal, `destroy()` at any time; 17,138 states | the invariants of the pool, that it implements `PoolService`, and that calls settle |
| `pool_dead` | 3 calls, one thread may die | **violated**: calls are given to dead threads (Findings) |
| `traversal` | every tree of up to 6 nodes; at most 3 levels, 5 nodes; 2,264 states | the array implements the deque, the deque's answer is that of `LevelOrderReference`, buffers are filled exactly, levels stay apart, the array is bounded, and the tree alone decides the answer |
| `go_queue_pool` | 3 requests, one of them followed and the others symmetric, 3 trees, new arrays of one slot; 3,015,364 states | arrays are exclusive and pooled arrays empty (`PoolIsSafe`), and the one that is followed behaves as if its queue were its own |
| `body_guards` | every body of up to 8 characters of 5 classes, nesting limit 2, size limit 6, in any chunks, with and without Content-Length; 1,004,928 states | parsers are guarded, replies agree, what is kept is bounded |
| `pipeline` | 7 stacks, 2 requests, 16 classes of body, with and without Content-Length; 138,831 states | identical limits, guarded work, the timer's window |
| `iam_setup` | 3 policies, 2 roles, 1 profile; 3 versions of a policy, 4 faults; 69,752 states | repeated runs configure the account, withdraw nothing, and recover |
| `iam_complete` | the same, 2 faults | **violated**: "complete" is printed when it is not (Findings) |
| `rollout` | 2 services, which the scripts take in opposite orders, all or one of them deployed, an account with and without aws.env and each of the roles, 2 revisions, 2 faults; 113,784 states | "complete" is true, nothing but the missing role and unhealthy services stops a clean run, re-runs resume |
| `rollout_account` | the same | **violated**: what the script demands of the account is not enough for it (Findings) |
| `heptathlon` | 2 services, 2 rates, 2 warm-up phases, 2 loops, 3 calls of `generate_all`; 732,684 states | measurements are undisturbed and hot, reports agree, files are of whole tests, images are current, charts consistent, the test ends |
| `client` | 2 launches, 2 faults, 2 polls; 1,101,912 states | who says ready can be reached, earlier launches stop no later one, reports say no more than was done, every launch ends |

**Why the bounds are enough.** Two threads and four calls make the longest chain the
pool has: both threads busy, two calls queued, a death with a reply on the way, a
release that takes a queued call, and a call given to the worker that died while another
still waits. A third thread adds a copy of the second. Six nodes give levels of one to
four nodes, missing left and right children in every combination, trees that pass the
limits of 3 levels and 5 nodes one by one and both in the same level. Arrays that start
with one slot grow twice within three nodes; with three requests a pointer is in use,
another being returned and a third being taken: if a pointer comes back too early, two
of them share its array, and the one that is followed may be either. (A pointer that
keeps its old array disturbs nobody's answer; it keeps nodes alive.) Eight characters
hold three nested brackets (one over the limit) with a string and an escape between, and
are two more than the size limit, so that a chunk is refused with another behind it.
Requests of a pipeline share nothing but the event loop, so two are every request and
every other. Three versions of a policy are the one in force, one to delete and room for
one more, and four faults let two runs in a row die in two places each. Two services are
the one at which a script stops and one that is not reached, in both orders. Two rates
are a ladder that ends by saturation at its first or last rung or not at all; two loops
meet the removal of the sentinel in different states. Three calls of `generate_all` are
the test's own and two later ones, of which the last can meet charts of two others. Two
launches are one that leaves something behind and one that finds it; two faults let the
first die between the two calls for the group and the second meet one failure more; two
polls are one that finds nothing and the last. Where a theorem exists, the bound is no
matter.

`CHECK_DEADLOCK FALSE` stands where the system comes to rest: all calls made and
answered, the traversal returned, the body read, the requests answered, the load
test over. The account scripts can always be started again, and there deadlock is
checked.

**Fairness.** No strong fairness is used: whatever is enabled stays so until it runs.

- `WorkerPool!Fairness`: the event loop handles each event it is given, each thread
  that is up is scheduled, a requested termination takes effect. Nothing says that
  `run()` or `destroy()` is called or that a thread dies. A traversal over a finite
  tree ends, so `Respond` is fair. `EveryCallSettles` makes four exceptions: a
  destroyed pool, a call given to a dead worker (a finding), and no thread left.
- `IamFairSpec`, `RolloutFairSpec`: a script that was started goes on,
  and App Runner ends what it began. Whether it is started again is up to the
  operator: `Recovers` and `Resumes` speak of behaviours in which it is. `Resumes` also
  supposes that the role is made some day, as no script does.
- `ClientFairSpec`: a command of a launch ends, and EC2 starts an instance it
  accepted. Nothing is assumed of the set-up on the instance, which may stop for good:
  `LaunchEnds` says that `--wait` ends all the same.
- `Heptathlon!FairSpec`: wrk2 ends after its `-d` seconds, sleeps and probes (which have
  a time limit) end, processes are scheduled, and a fetch of boto3 returns or raises, as
  its own time limits see to. Nothing is assumed of the requests of `pre_warmup_curl`,
  which sets no time limit: only what a loop does by itself (`CurlLocal`) is fair. So
  `RunEnds` has an antecedent: the test ends if no loop waits for one answer for ever.
  What is left to say is that the removal of the sentinel reaches every loop and the
  wait of the shell ends.

The traversals, body guards and pipelines are checked for safety only.

## What is proved

All of it by TLAPS, for every value of the constants, from the named ASSUMEs of
the modules only, which TLC evaluates in the runs:

| Assumption | Says |
|---|---|
| `WorkerPool` | there is at least one thread; `NoTask` is no task; calls that are refused are calls, threads that may die are threads |
| `BinaryTrees` | both limits are natural numbers; `Null` is no node; each tree has levels and a reading order |
| `JsonDepth`, `BodyGuards` | both limits are natural numbers |
| `GoQueuePool` | a new queue has room for one node or more |
| `GoRequest` | the request that is followed is one of the requests |
| `Heptathlon` | services are tested once each; rates are positive and increase; there is a warm-up phase |
| `ServiceRollout` | both scripts list the same services, equally many, and none is called `all` |
| `IamSetup` | an account may hold two versions of a policy or more |
| `ShellScripts`, `BenchmarkClient` | bounds and the number of polls are natural numbers |

`PreWarmUp`, `RequestPipeline` and `CloudWatchPlots` need none. No theorem has a
hypothesis beside these.

- **The pool** (`WorkerPoolProofs`). The three invariants that matter are not
  inductive one by one: that a reply finds its task needs the stage of the call,
  the stage needs the worker to be out of the idle stack, and that needs the queue
  and the Map to hold each call once. The inductive invariant is their conjunction
  with `TypeOK` and `OwnAnswer`; one lemma per action shows that it is preserved,
  and the safety properties are its corollaries. `Refinement` shows that every step
  of the pool is a step of `PoolService` or none, under the mapping free servers =
  length of the idle stack, served requests = entries of the Map.
- **Deaths** (`WorkerPoolProofs`). The number of calls rejected by a death is at most
  the number of dead threads whose 'error' was handled, by cardinality of finite sets
  (`Tasks` itself need not be finite). With it, `PromisesSettleRight`.
- **The traversal** (`LevelOrderProofs`). The invariant says where the boundary of
  the two levels in the queue is, and that ranks increase along it; `BinaryTrees`
  turns the order of parents into the order of children. `AnswersComeFromTrees` adds
  that the answer is exact, for every tree and every limit: `CountInv` says that each node
  of the tree is counted once and nothing else is, so that the three ways a traversal ends
  are what the tree demands, and exclude each other. The nodes of a tree are there the
  least set closed under children (`NodesOf`): this says what the recursive
  `LevelOrderReference` says of refusals, in a form that can be proved.
- **The array** (`LevelOrderHeadPointerProofs`). From the invariant of its counters:
  filled buffers, the bound `2 * MaxNodes + 1`, and the refinement of the deque
  by dropping what is behind the head. `LevelsComeInOrder` then takes the theorems
  about the deque over to the array, by an instance of their module,
  `AnswersComeFromTrees` does so with the answer, and `LoopsHold` joins them all.
- **Go's arrays** (`GoQueuePoolProofs`). That slices are exclusive is not inductive: while a
  queue has outgrown its array, its pointer still points to the old one. The invariant
  knows four things: a pointer is in the pool or with one request; arrays behind
  pointers are exclusive as well as those behind slices; behind the length of a queue
  its array holds nothing, in front of it nodes of its own tree (`Holds`); and how far
  `releaseQueue` has come (`Released`). `Grown` is all that `append` does to others' arrays:
  nothing.
- **One of Go's requests** (`GoQueuePoolProofs`, second part). `Refinement`: in any overlap
  with any number of others, a request implements `LevelOrderDeque` on its own tree. To the
  steps of the others the invariant of the pool answers: they leave the slots behind the
  request's slice as they are (`OthersDisturbNothing`), so that they are no step of the
  deque. Its own steps need what is *in* the slots: `Extended` says that an append, in
  place or moved, keeps every slot and puts the new one behind them, and `QueueAdvances`
  that the slots from head on are then the tail of the queue and the children of its
  head. `MineInv` relates the counters (the nodes counted are those up to the end of the
  level). By an instance of the module of the deque's theorems, `AnswersAreOwn`: what the
  request returns is the levels of its own tree, in order and complete, or the refusal that
  tree calls for.
- **The guards** (`BodyGuardsProofs`). Until it gives its verdict, each scanner is in
  the state the grammar is in; behind a malformed character the most brackets ever
  open only grows, which is what protects the parser. `GoIsNode`: the two loops
  refuse the same bodies, malformed ones included. For the bodies, `BodyInv` says how
  much each service has kept while it still reads (all that was delivered), what its
  reply tells of the length, and that no reply was given before its test; one lemma per
  action preserves it. `OneAnswerForAll` is not inductive: that three replies are the
  same is only decided at the end, from what each earlier reply meant.
- **The pipelines** (`RequestPipelineProofs`). That replies are right is not
  inductive: what a late stage answers is right only because the body passed the
  stages before it. The invariant (`PastGuards`) says so of every stage behind a
  request, and one lemma per kind of step preserves it; where a stage stands in
  each stack is looked up in `WhereStagesAre`. What is past a decoder or the validation
  differs from stack to stack, and `PastGuards` with it. For the timer, `LoopIsHeld` is the
  inductive part: between the two readings of the clock a request holds the loop.
- **The load test** (`HeptathlonProofs`), in three parts. *The pre-warm-up*: for any
  number of loops, nothing is under way when `pre_warmup_curl` returns, and no loop ends
  while the sentinel is there, since a request begun after the removal is the last of
  its loop. That invariant survives being called again and again beside the driver, from
  which `MeasurementsAreRight` for any number of services, rates and loops. *The
  charts*: what makes the statements about files inductive, for any number of calls, is
  `Behind`: as long as a call did not raise, the charts in front of the one it is at are
  its own. The driver implements `CloudWatchPlots`, so that what is proved of the charts
  holds of its images. *The driver itself*: `RunInv` says which rows there are at each
  point of the test (`BenchIs`), how far the ladder of the scenario at hand has come
  (`SatIs`), what of it was already reported and written (`ConsoleIs`, `FilesAre`), and
  which images there must be (`ImagesAre`). From it the reports agree
  (`LaddersAreReported`), files are begun only when the test is whole
  (`FilesAreOfWholeTests`) and no old image stays among new ones (`ImagesAreCurrent`).
- **The scripts** (`AwsScriptsProofs`), for any number of faults, runs, services,
  launches and versions. Each of the three invariants says what a script may rely on at
  the command it is at. *Set-up of the account*: `InCall` and `CleanCall` say what is
  known at each command of a function, in any run and in a run without failures, and
  that the calls in front of it achieved what they are for; hence `CleanRunsConfigure`.
  That no step takes away what was right (`Kept`) gives the action property
  `NothingIsWithdrawn`, where the step to look at is the deletion of an old version: it
  never is the one in force. *Images and services*: `DeployIs` and `CreateIs` say that
  the services in front of the one at hand were built from this revision and pushed, or
  exist; and that a command that demands something absent was issued only after a look.
  `RerunsAreSafe` goes through the commands that can end a script and finds for each
  what it was that ended it. *The launch*: `GroupIs` and `InstanceIs` say what the
  launch found or made before it came to its command, and that an instance is set up in
  the order of its steps, whatever other launches leave behind.

Proved, and in no run of its own: `NoNeedlessWaiting`, `HeldCallsAreUnderWay`,
`LevelsAreSeparate`, `LimitsHold`, `ArrayIsBounded`, `GoIsNode`,
`MeasurementStartsQuiet`, `LoadIsKeptUp`, `OneReplyOnly`, `BodyIsScanned`,
`CallsArePlots`, `OwnAnswer`.

**Only model-checked.** Liveness (`EveryCallSettles`, `Recovers`, `Resumes`,
`RunEnds`, `LaunchEnds`) and `ImplementsReference`, whose definition recurses over data:
TLAPS proves neither. What `ImplementsReference` says is proved without the recursion:
each level in order (`LevelsComeInOrder`), none missed (`NoNodeMissed`), and the refusals
(`AnswersComeFromTrees`); that the two forms agree is what the run adds. All other
properties of the passing runs, the type invariants among them, are stated by theorems.

## Findings

1. *A dead worker stays in service* (`pool_dead`, worker-pool.ts:86). A worker whose thread
   dies while it is idle has no entry in the Map, so that the 'error' handler does nothing
   (`if (task)`, line 61): it stays on the idle stack. One whose thread dies at work is put
   back there, or given the next queued call, by the `release` of line 64. No line takes a
   dead worker out of service. `run()` then pops it (line 86), `postMessage` to it is
   dropped, no event follows, and the caller's promise never settles. By the run `pool`,
   the damage is one call per death: the worker is out of the stack from then on, and
   calls behind it move as long as another thread lives.
2. *"IAM setup complete" after a failure* (`iam_complete`, setup-iam.sh:167). A
   command that fails inside `$(...)` does not end the script unless it is the last
   of its function. The document, the trust policy or the role in the profile is
   then missing or outdated. By the run `iam_setup`, running the script again puts
   it right.
3. *The role is not made* (`rollout_account`, create-apprunner-services.sh:23). The script
   names `AppRunnerECRAccessRole` and says to run `setup-iam.sh` first, which makes
   `algo-apprunner-access-role`. In the account the comment describes, every run ends at the
   first `create-service`; only a role made by hand helps.

Three more disagreements are written into properties that hold, as what the code does:

- *What is no node is answered* (TreeNode.java:8, `WorkIsGuarded`). README.md:361 and :367
  say that all seven services enforce the same "structural validation". The JVM services
  take `{"value": "5"}` for 5 and `{"value": 1.5}` for 1, Python takes `"5"` and `true`, and
  the Node services take a number or text for a whole tree and an array for an empty child.
  Each then answers 200. The limits are the same everywhere, that of the size wherever the
  repository sets one (`LimitsAreIdentical`).
- *"SETUP COMPLETE" without wrk2* (launch-benchmark-ec2.sh:87, `ReportsAreBacked`). Line 87
  copies a program the Makefile does not build; in an `&&` list `set -e` does not see that.
  The `cd ..` behind it is skipped, and algo-test is cloned into `~/wrk2`. Line 76 promises
  wrk2, and line 166 goes to `~/algo-test`. The log vouches for neither; `setup-ec2.sh`
  installs wrk2 or fails.
- *A traversal waits inside the timed window* (trees.service.ts:50, `TimerIsOwn`). In
  `nodejs-wt` the window holds the wait for a worker and what the event loop does meanwhile,
  where README.md:66 says "measures only BFS execution".

Observations that no run is about:

- The scanners of Python and Go differ on malformed bodies, where Go can refuse for
  nesting what Python refuses for syntax. `GuardsAreExact` and
  `ParsersAreProtected` say that this is all.
- Beside what is said above, the decoders differ on JSON that README.md is silent about
  (`OddNodes`): `null` as the root is an empty node to Go and Node and refused by the
  others; as a value it is 0, or left as it is, except in Spring and Python, which
  refuse it; `5.0` is refused by Go only; integers beyond 32 bits by the JVM services
  only; trees deeper than about 200 levels by Python only. The Node services take a
  chunked body for an absent one (`LimitsAreIdentical` holds them to the others).
- Node's runtime headers include `ValidationPipe`, against README.md:66 as well; they are
  set on success only, where `nodejs-impl/src/main.ts:86` says "every response".
- README.md:64 has any errors end the ladder. wrk2's refused or broken connections are not
  read (heptathlon.py:137), and a run without output has neither a p99 nor errors: both
  count as sustained and raise the reported maximum.
- A `list-services` that fails counts as the absence of the service. deploy.sh:4 speaks of
  five services and deploys seven.
- `launch-benchmark-ec2.sh` creates and opens its security group in two calls, and
  takes a group left closed by the first for open: every later launch prints EC2 READY
  of an instance nobody can log in to. `ReadyMeansReachable` says that this is the only
  case. It prints the same when `--wait` gave up.
- The user data runs as root, so that `pip3 install --user` (line 90) installs for root and
  not for the user who logs in; line 168 starts `scripts/benchmark.py`, which is not in the
  repository.
- The requests of `pre_warmup_curl` have no time limit (heptathlon.py:186): one without an
  answer keeps the final `wait`, and with it the test, for ever.
- `plot_cloudwatch.py:326` says that the prefix goes to all output files; the CSV file
  has none, so that a call by hand replaces the table of a test and leaves its charts.
  Line 296 says that the file is saved; without data it is not, and its name is printed
  all the same. `heptathlon_window.json` is written and never read; the command that
  heptathlon.py:564 recommends has an option plot_cloudwatch.py does not know.
- A chart of one scenario needs a percentile of any measurement of the test, not of its
  own rows (heptathlon.py:339): with none of its own it is drawn empty, and that is why
  an old image never stays among new ones while any figure was read
  (`PicturesAreCurrent`).
- `destroy()` settles no promise and `run()` is not refused after it.

## Not modelled

- Jackson's nesting limit, schedulers, HTTP servers: library code, configured in
  one line each.
- What Fastify does after a hook that has replied, and content types other than JSON.
- Charts themselves, smoke tests, Docker and build files: no state.
- AMI, key pair and addresses of the benchmark client; the AWS command line tool that
  `setup-ec2.sh` installs last.
- Arrays as the root of a body, text behind a whole value, integers beyond 64 bits.
- What an image or the table of CloudWatch holds if the process stops while it is
  written: `savefig` and `to_csv` write in place like the results files do, of which
  this is modelled.
- Logging, messages, integer widths of values (none is computed).

## Plan

Done in this order: pool, pool service, traversals and reference, Go pool,
guards, their theorems; the scripts, the driver and the pipelines; bodies in chunks,
the CloudWatch plots, the benchmark client, and the composition of the load test; one
request of the Go pool and its answer. Next:

1. The wait for a worker inside the timed window of `nodejs-wt`, as a composition
   of the pipeline with `PoolService`, and its theorem.
2. Bounds on what Go's pool holds: how large its arrays grow for given limits.
