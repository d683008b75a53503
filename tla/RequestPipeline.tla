---------------------------- MODULE RequestPipeline ----------------------------
(***************************************************************************)
(* What becomes of POST /api/v1/trees/level-order between the socket and   *)
(* the traversal, in each of the seven services: the guards in the order   *)
(* of the source, the timer of the X-Runtime headers, and the reply.       *)
(* Several requests are in one service at a time.  In the services that    *)
(* run on an event loop, a request keeps the loop until it awaits or       *)
(* replies; in the others, requests run beside each other.                 *)
(*                                                                         *)
(* All requests are declared as application/json.  A body is known by the  *)
(* first thing that is wrong with it; JsonDepth and LevelOrderReference    *)
(* say which bodies are "tooDeep" and which trees are "refused".           *)
(***************************************************************************)
EXTENDS Naturals, Sequences

CONSTANT Requests

Stacks == {"java", "spring", "kotlin", "go", "nodejs", "nodejs-wt", "python"}
JvmStacks == {"java", "spring", "kotlin"}
NodeStacks == {"nodejs", "nodejs-wt"}
EventLoops == NodeStacks \union {"python"}

(* Bodies every service is meant to tell apart: "mistyped" is a node whose *)
(* value is no number in any notation, or whose child is a number or text. *)
PlainBodies == {"absent", "tooLarge", "tooDeep", "malformed", "mistyped", "refused", "tree"}

(* Bodies that are JSON and no node of TreeNode, whose value is an         *)
(* integer: {"value": "5"}, {"value": 1.5}, {"value": true}, and a number  *)
(* or text in place of the root or an array in place of a child.           *)
NearNodes == {"numeral", "fraction", "boolean", "nonNode"}

(* null for the root or for a value, an integer written with a fraction of *)
(* zero, one beyond 32 bits, and a tree within every limit that is deeper  *)
(* than the validator of the Python service goes (about 200 levels).       *)
OddNodes == {"null", "nullValue", "decimal", "wide", "tall"}

Bodies == PlainBodies \union NearNodes \union OddNodes

(* With a Content-Length header, or in chunks without one. *)
Framings == {"length", "chunked"}

None == 0  \* no reply yet

VARIABLES
  stack,    \* the service
  body,     \* the body of each request
  framing,  \* how it is sent
  pc,       \* index of the next stage of each request
  reply,    \* the status of the reply to each request
  running   \* the requests that hold the event loop: one or none

vars == <<stack, body, framing, pc, reply, running>>

----------------------------------------------------------------------------
(* The stages of each service, in the order of its source.                 *)

(* Wrong variant: the nesting is measured behind the decoder. *)
GoStages_MeasuresLate ==
  <<"bodyLimit", "empty", "decode", "nesting", "startTimer", "traverse", "stopTimer">>

(* BodyLimit of the server, then levelOrderHandler.                        *)
GoStages ==
  <<"bodyLimit", "empty", "nesting", "decode", "startTimer", "traverse", "stopTimer">>

(* Wrong variant: the header is trusted, the body itself not measured. *)
PythonStages_TrustsHeader ==
  <<"declaredSize", "empty", "nesting", "decode", "startTimer", "traverse", "stopTimer">>

(* level_order.                                                            *)
PythonStages ==
  <<"declaredSize", "empty", "bodyLimit", "nesting", "decode",
    "startTimer", "traverse", "stopTimer">>

(* The middleware, the preParsing hook, the parser, the interceptor around *)
(* the validation pipe and the controller.                                 *)
NodeStages ==
  <<"requireBody", "bodyLimit", "nesting", "decode",
    "startTimer", "validate", "traverse", "stopTimer">>

(* Jackson, which measures as it parses, then getLevelOrder.               *)
JvmStages == <<"decode", "nullRoot", "startTimer", "traverse", "stopTimer">>

Stages ==
  CASE stack = "go" -> GoStages
    [] stack = "python" -> PythonStages
    [] stack \in NodeStacks -> NodeStages
    [] stack \in JvmStacks -> JvmStages

Stage(r) == Stages[pc[r]]

(* Wrong variant: the traversal is handed to an executor. *)
Awaited_Executor(stage) ==
  \/ stack = "python" /\ stage \in {"empty", "stopTimer"}
  \/ stack \in NodeStacks /\ stage = "bodyLimit"
  \/ stack = "nodejs-wt" /\ stage = "stopTimer"

(* The stages that begin with what was awaited: the body, or in nodejs-wt  *)
(* the answer of the worker.                                               *)
Awaited(stage) ==
  \/ stack = "python" /\ stage = "empty"
  \/ stack \in NodeStacks /\ stage = "bodyLimit"
  \/ stack = "nodejs-wt" /\ stage = "stopTimer"

----------------------------------------------------------------------------
(* No JVM service sets a limit of its own to the size of a body.           *)
Init ==
  /\ stack \in Stacks
  /\ body \in [Requests -> IF stack \in JvmStacks THEN Bodies \ {"tooLarge"} ELSE Bodies]
  /\ framing \in [Requests -> Framings]
  /\ pc = [r \in Requests |-> 1]
  /\ reply = [r \in Requests |-> None]
  /\ running = {}

At(r, stage) == reply[r] = None /\ Stage(r) = stage /\ running \subseteq {r}

(* Wrong variant: the loop is not given back. *)
Answer_KeepsLoop(r, status) ==
  /\ reply' = [reply EXCEPT ![r] = status]
  /\ UNCHANGED <<pc, running>>

Answer(r, status) ==
  /\ reply' = [reply EXCEPT ![r] = status]
  /\ running' = {}
  /\ UNCHANGED pc

Advance(r) ==
  /\ pc' = [pc EXCEPT ![r] = @ + 1]
  /\ running' = IF stack \in EventLoops /\ ~Awaited(Stages[pc[r] + 1]) THEN {r} ELSE {}
  /\ UNCHANGED reply

(* A guard replies by itself, or throws what is mapped to that status.     *)
Guard(r, stage, refused, status) ==
  /\ At(r, stage)
  /\ \/ refused /\ Answer(r, status)
     \/ ~refused /\ Advance(r)
  /\ UNCHANGED <<stack, body, framing>>

(* Fiber's BodyLimit, the streaming loop of the hook, len(body).           *)
BodyLimit(r) == Guard(r, "bodyLimit", body[r] = "tooLarge", 413)

(* The Content-Length header alone: 0 if there is none.                    *)
DeclaredSize(r) ==
  Guard(r, "declaredSize", body[r] = "tooLarge" /\ framing[r] = "length", 413)

(* RequireBodyMiddleware: no Content-Length header is a length of 0.       *)
RequireBody(r) ==
  Guard(r, "requireBody", body[r] = "absent" \/ framing[r] = "chunked", 400)

Empty(r) == Guard(r, "empty", body[r] = "absent", 400)

Nesting(r) == Guard(r, "nesting", body[r] = "tooDeep", 400)

(* What a decoder refuses.  encoding/json takes integers in digits only    *)
(* and leaves the zero node alone on null; pydantic, in its lax mode, also *)
(* what is equal to an integer; Node parses JSON and leaves types to the   *)
(* pipe; Jackson reads numerals, cuts fractions off, takes null for 0 up   *)
(* to version 2 (Spring has version 3), ints of 32 bits, and returns null  *)
(* for null and for no body at all.                                        *)
Undecodable ==
  CASE stack = "go" ->
         {"malformed", "mistyped", "numeral", "fraction", "boolean", "decimal", "nonNode"}
    [] stack = "python" ->
         {"malformed", "mistyped", "fraction", "nonNode", "null", "nullValue", "tall"}
    [] stack \in NodeStacks -> {"malformed"}
    [] stack \in JvmStacks ->
         {"malformed", "mistyped", "boolean", "nonNode", "wide", "tooDeep"}
           \union (IF stack = "spring" THEN {"nullValue"} ELSE {})

Decode(r) == Guard(r, "decode", body[r] \in Undecodable, 400)

NullRoot(r) == Guard(r, "nullRoot", body[r] \in {"absent", "null"}, 400)

StartTimer(r) ==
  /\ At(r, "startTimer")
  /\ Advance(r)
  /\ UNCHANGED <<stack, body, framing>>

(* ValidationPipe: @IsInt and @ValidateNested on fields that are there and *)
(* not null.  It makes an empty node of null, and lets through what has no *)
(* fields, a number or text as the root and an array as a child.           *)
Validate(r) ==
  Guard(r, "validate", body[r] \in {"mistyped", "numeral", "fraction", "boolean"}, 400)

(* solveLevelOrder; its TreeProcessingException is mapped to 400.  In      *)
(* nodejs-wt the tree goes to the pool, and the refusal is its answer.     *)
Traverse(r) ==
  Guard(r, "traverse", body[r] = "refused" /\ stack # "nodejs-wt", 400)

(* The headers are set, and the levels sent.                               *)
StopTimer(r) ==
  /\ At(r, "stopTimer")
  /\ Answer(r, IF body[r] = "refused" THEN 400 ELSE 200)
  /\ UNCHANGED <<stack, body, framing>>

Next ==
  \E r \in Requests :
    \/ RequireBody(r) \/ DeclaredSize(r) \/ Empty(r) \/ BodyLimit(r)
    \/ Nesting(r) \/ Decode(r) \/ NullRoot(r) \/ Validate(r)
    \/ StartTimer(r) \/ Traverse(r) \/ StopTimer(r)

Spec == Init /\ [][Next]_vars

----------------------------------------------------------------------------
TypeOK ==
  /\ stack \in Stacks
  /\ body \in [Requests -> Bodies]
  /\ framing \in [Requests -> Framings]
  /\ \A r \in Requests : pc[r] \in DOMAIN Stages
  /\ reply \in [Requests -> {None, 200, 400, 413}]
  /\ \A r \in running : running = {r} /\ stack \in EventLoops /\ reply[r] = None

(* README.md:361, "All 7 implementations enforce identical multi-layer     *)
(* security constraints": whatever the order in which a service looks at a *)
(* plain body, its reply is decided by the body and by nothing else.  The  *)
(* Node services take any body without a Content-Length header for none    *)
(* (RequireBodyMiddleware), and so are held to it only for the others.     *)
VerdictOf(b) ==
  CASE b = "tree" -> 200
    [] b = "tooLarge" -> 413
    [] OTHER -> 400

LimitsAreIdentical ==
  \A r \in Requests :
    reply[r] # None /\ body[r] \in PlainBodies =>
      reply[r] = IF stack \in NodeStacks /\ framing[r] = "chunked"
                 THEN 400 ELSE VerdictOf(body[r])

(* No work on what a cheaper guard would have refused: a decoder never     *)
(* sees a body that is too large or, where it does not measure by itself,  *)
(* nested too deeply ("before any object is allocated", main.ts:14), and   *)
(* of the plain bodies the traversal only sees trees.  The schema is not   *)
(* enforced alike, against README.md:361 and :367: what is no node is      *)
(* traversed where Jackson or pydantic makes a number of its value, or     *)
(* where the pipe of Node finds nothing to validate, and nowhere else.     *)
WorkIsGuarded ==
  \A r \in Requests :
    reply[r] = None =>
      /\ Stage(r) = "decode" =>
           /\ body[r] \notin {"tooLarge"}
           /\ body[r] = "tooDeep" => stack \in JvmStacks
      /\ Stage(r) = "traverse" =>
           /\ body[r] \in PlainBodies => body[r] \in {"tree", "refused"}
           /\ body[r] = "numeral" => stack \in JvmStacks \union {"python"}
           /\ body[r] = "fraction" => stack \in JvmStacks
           /\ body[r] = "boolean" => stack = "python"
           /\ body[r] = "nonNode" => stack \in NodeStacks

(* The request takes a step. *)
Steps(r) == pc'[r] # pc[r] \/ reply'[r] # reply[r]

Timing(r) ==
  /\ reply[r] = None
  /\ \E k \in 1..(pc[r] - 1) : Stages[k] = "startTimer"

(* README.md:66, X-Runtime-Ms "measures only BFS execution": the window    *)
(* holds nothing but the traversal (in the Node services the validation    *)
(* too), and where traversals run on the event loop itself, no step of     *)
(* another request.  In nodejs-wt it also holds the wait for a worker and  *)
(* what the loop does meanwhile, against README.md:66.                     *)
TimerIsOwn ==
  [][\A r, q \in Requests : Timing(r) /\ Steps(q) =>
       IF q = r
       THEN Stage(q) \in {"traverse", "stopTimer"}
                           \union (IF stack \in NodeStacks THEN {"validate"} ELSE {})
       ELSE stack \notin {"python", "nodejs"}]_vars
=============================================================================
