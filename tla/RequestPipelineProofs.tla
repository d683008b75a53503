------------------------- MODULE RequestPipelineProofs -------------------------
(***************************************************************************)
(* Theorems about RequestPipeline, for any set of requests in any service. *)
(***************************************************************************)
EXTENDS RequestPipeline, TLAPS

(* What a request is known not to be, once it is past a stage.             *)
Passed(r, stage) ==
  /\ stage = "bodyLimit" => body[r] # "tooLarge"
  /\ stage = "requireBody" => body[r] # "absent" /\ framing[r] # "chunked"
  /\ stage = "empty" => body[r] # "absent"
  /\ stage = "nesting" => body[r] # "tooDeep"
  /\ stage = "decode" => body[r] \notin Undecodable
  /\ stage = "nullRoot" => body[r] \notin {"absent", "null"}
  /\ stage = "validate" => body[r] \notin {"mistyped", "numeral", "fraction", "boolean"}
  /\ stage = "traverse" => body[r] # "refused" \/ stack = "nodejs-wt"

(* The verdicts follow from what the stages behind a request have shown.   *)
PastGuards ==
  \A r \in Requests : reply[r] = None =>
    \A k \in 1..(pc[r] - 1) : Passed(r, Stages[k])

(* The JVM services measure no body (see Init).                            *)
JvmBodiesFit == stack \in JvmStacks => \A r \in Requests : body[r] # "tooLarge"

Types ==
  /\ TypeOK
  /\ pc \in [Requests -> Nat \ {0}]
  /\ running \subseteq Requests

Inv == Types /\ PastGuards /\ JvmBodiesFit /\ LimitsAreIdentical

USE DEF Stacks, JvmStacks, NodeStacks, EventLoops, Bodies, PlainBodies, NearNodes,
        OddNodes, Framings, None

(* The stages of a service are numbered from 1, and the last is stopTimer. *)
LEMMA LastStage ==
  ASSUME stack \in Stacks, NEW k \in DOMAIN Stages, Stages[k] # "stopTimer"
  PROVE  k + 1 \in DOMAIN Stages
<1>1. CASE stack = "go"
  BY <1>1 DEF Stages, GoStages
<1>2. CASE stack = "python"
  BY <1>2 DEF Stages, PythonStages
<1>3. CASE stack \in NodeStacks
  BY <1>3 DEF Stages, NodeStages
<1>4. CASE stack \in JvmStacks
  BY <1>4 DEF Stages, JvmStages
<1> QED
  BY <1>1, <1>2, <1>3, <1>4

(* Before the first request the invariant holds. *)
LEMMA InitInv == Init => Inv
<1> SUFFICES ASSUME Init PROVE Inv
  OBVIOUS
<1>1. stack \in Stacks /\ body \in [Requests -> Bodies] /\ JvmBodiesFit
  BY DEF Init, JvmBodiesFit
<1>2. 1 \in DOMAIN Stages
  <2>1. CASE stack = "go"
    BY <2>1 DEF Stages, GoStages
  <2>2. CASE stack = "python"
    BY <2>2 DEF Stages, PythonStages
  <2>3. CASE stack \in NodeStacks
    BY <2>3 DEF Stages, NodeStages
  <2>4. CASE stack \in JvmStacks
    BY <2>4 DEF Stages, JvmStages
  <2> QED
    BY <1>1, <2>1, <2>2, <2>3, <2>4
<1>3. Types
  BY <1>1, <1>2 DEF Init, Types, TypeOK
<1>4. PastGuards /\ LimitsAreIdentical
  BY DEF Init, PastGuards, LimitsAreIdentical
<1> QED
  BY <1>1, <1>3, <1>4 DEF Inv

(* A request that passes a stage.                                          *)
LEMMA AdvanceInv ==
  ASSUME Inv, NEW r \in Requests, NEW stage, At(r, stage), stage # "stopTimer",
         Passed(r, stage), Advance(r), UNCHANGED <<stack, body, framing>>
  PROVE  Inv'
<1>1. Stages' = Stages /\ Undecodable' = Undecodable
  BY DEF Stages, Undecodable
<1>2. pc[r] \in DOMAIN Stages /\ pc[r] \in Nat /\ Stages[pc[r]] = stage
  BY DEF Inv, Types, TypeOK, At, Stage
<1>3. pc[r] + 1 \in DOMAIN Stages
  BY <1>2, LastStage DEF Inv, Types, TypeOK
<1>4. Types'
  BY <1>1, <1>2, <1>3 DEF Inv, Types, TypeOK, Advance, At
<1>5. PastGuards'
  <2> SUFFICES ASSUME NEW q \in Requests, reply'[q] = None,
                      NEW k \in 1..(pc'[q] - 1)
               PROVE  Passed(q, Stages[k])
    BY <1>1 DEF PastGuards, Passed
  <2>1. CASE q = r /\ k = pc[r]
    BY <2>1, <1>2
  <2>2. CASE ~(q = r /\ k = pc[r])
    <3>1. k \in 1..(pc[q] - 1)
      BY <2>2, <1>2 DEF Inv, Types, Advance
    <3> QED
      BY <3>1 DEF Inv, PastGuards, Advance
  <2> QED
    BY <2>1, <2>2
<1>6. JvmBodiesFit' /\ LimitsAreIdentical'
  BY DEF Inv, JvmBodiesFit, LimitsAreIdentical, VerdictOf, Advance
<1> QED
  BY <1>4, <1>5, <1>6 DEF Inv

(* The verdict that is right for a request with a plain body.              *)
Right(r) ==
  IF stack \in NodeStacks /\ framing[r] = "chunked" THEN 400 ELSE VerdictOf(body[r])

(* A request that is answered.                                             *)
LEMMA AnswerInv ==
  ASSUME Inv, NEW r \in Requests, NEW status \in {200, 400, 413},
         body[r] \in PlainBodies => status = Right(r), Answer(r, status), UNCHANGED <<stack, body, framing>>
  PROVE  Inv'
<1>1. Stages' = Stages /\ Undecodable' = Undecodable
  BY DEF Stages, Undecodable
<1>2. Types'
  BY <1>1 DEF Inv, Types, TypeOK, Answer
<1>3. PastGuards'
  <2> SUFFICES ASSUME NEW q \in Requests, reply'[q] = None,
                      NEW k \in 1..(pc[q] - 1)
               PROVE  Passed(q, Stages[k])
    BY <1>1 DEF PastGuards, Passed, Answer
  <2> QED
    BY DEF Inv, Types, TypeOK, PastGuards, Answer
<1>4. JvmBodiesFit'
  BY DEF Inv, JvmBodiesFit
<1>5. LimitsAreIdentical'
  BY DEF Inv, Types, TypeOK, LimitsAreIdentical, VerdictOf, Right, Answer
<1> QED
  BY <1>2, <1>3, <1>4, <1>5 DEF Inv

(* Either outcome of a guard.                                              *)
LEMMA GuardInv ==
  ASSUME Inv, NEW r \in Requests, NEW stage, stage # "stopTimer",
         NEW refused \in BOOLEAN, NEW status \in {200, 400, 413},
         Guard(r, stage, refused, status),
         At(r, stage) /\ refused /\ body[r] \in PlainBodies => status = Right(r),
         ~refused => Passed(r, stage)
  PROVE  Inv'
<1>1. CASE refused
  BY <1>1, AnswerInv DEF Guard
<1>2. CASE ~refused
  BY <1>2, AdvanceInv DEF Guard
<1> QED
  BY <1>1, <1>2

(* Which services have a stage, and what a request in the Node services    *)
(* has shown when it comes to any but the first.                           *)
LEMMA WhereStagesAre ==
  ASSUME Inv, NEW r \in Requests, reply[r] = None
  PROVE  /\ Stage(r) = "declaredSize" => stack = "python"
         /\ Stage(r) \in {"requireBody", "validate"} => stack \in NodeStacks
         /\ Stage(r) = "nullRoot" => stack \in JvmStacks
         /\ Stage(r) \in {"empty", "bodyLimit", "nesting"} => stack \notin JvmStacks
         /\ Stage(r) = "empty" => stack \notin NodeStacks
         /\ stack \in NodeStacks /\ Stage(r) # "requireBody" => framing[r] # "chunked"
<1>1. pc[r] \in DOMAIN Stages /\ pc[r] \in Nat
  BY DEF Inv, Types, TypeOK
<1>2. \A k \in 1..(pc[r] - 1) : Passed(r, Stages[k])
  BY DEF Inv, PastGuards
<1>3. CASE stack = "go"
  BY <1>1, <1>3 DEF Stage, Stages, GoStages
<1>4. CASE stack = "python"
  BY <1>1, <1>4 DEF Stage, Stages, PythonStages
<1>5. CASE stack \in NodeStacks
  <2>1. Stages = NodeStages
    BY <1>5 DEF Stages
  <2>2. CASE pc[r] = 1
    BY <1>5, <2>1, <2>2 DEF Stage, NodeStages
  <2>3. CASE pc[r] # 1
    <3>1. 1 \in 1..(pc[r] - 1) /\ Stages[1] = "requireBody"
      BY <1>1, <2>1, <2>3 DEF NodeStages
    <3>2. framing[r] # "chunked"
      BY <1>2, <3>1 DEF Passed
    <3> QED
      BY <1>1, <1>5, <2>1, <3>2 DEF Stage, NodeStages
  <2> QED
    BY <2>2, <2>3
<1>6. CASE stack \in JvmStacks
  BY <1>1, <1>6 DEF Stage, Stages, JvmStages
<1>7. stack \in Stacks
  BY DEF Inv, Types, TypeOK
<1> QED
  BY <1>3, <1>4, <1>5, <1>6, <1>7

(* A plain body that comes to the end of the stages is a tree, or one that *)
(* the pool of nodejs-wt refused.                                          *)
LEMMA AtTheEnd ==
  ASSUME Inv, NEW r \in Requests, reply[r] = None, Stage(r) = "stopTimer"
  PROVE  body[r] \in PlainBodies =>
           Right(r) = IF body[r] = "refused" THEN 400 ELSE 200
<1>1. pc[r] \in DOMAIN Stages /\ pc[r] \in Nat /\ body[r] \in Bodies
  BY DEF Inv, Types, TypeOK
<1>2. \A k \in 1..(pc[r] - 1) : Passed(r, Stages[k])
  BY DEF Inv, PastGuards
<1>3. CASE stack = "go"
  <2>1. Stages = GoStages /\ pc[r] = 7
    BY <1>1, <1>3 DEF Stage, Stages, GoStages
  <2>2. body[r] \in PlainBodies => body[r] = "tree"
    <3>1. Passed(r, "bodyLimit") /\ Passed(r, "empty") /\ Passed(r, "nesting")
          /\ Passed(r, "decode") /\ Passed(r, "traverse")
      BY <1>2, <2>1 DEF GoStages
    <3>2. {"malformed", "mistyped"} \subseteq Undecodable
      BY <1>3 DEF Undecodable
    <3> QED
      BY <1>1, <1>3, <3>1, <3>2 DEF Passed
  <2> QED
    BY <1>3, <2>2 DEF Right, VerdictOf
<1>4. CASE stack = "python"
  <2>1. Stages = PythonStages /\ pc[r] = 8
    BY <1>1, <1>4 DEF Stage, Stages, PythonStages
  <2>2. body[r] \in PlainBodies => body[r] = "tree"
    <3>1. Passed(r, "bodyLimit") /\ Passed(r, "empty") /\ Passed(r, "nesting")
          /\ Passed(r, "decode") /\ Passed(r, "traverse")
      BY <1>2, <2>1 DEF PythonStages
    <3>2. {"malformed", "mistyped"} \subseteq Undecodable
      BY <1>4 DEF Undecodable
    <3> QED
      BY <1>1, <1>4, <3>1, <3>2 DEF Passed
  <2> QED
    BY <1>4, <2>2 DEF Right, VerdictOf
<1>5. CASE stack \in NodeStacks
  <2>1. Stages = NodeStages /\ pc[r] = 8
    BY <1>1, <1>5 DEF Stage, Stages, NodeStages
  <2>2. /\ body[r] \in PlainBodies => body[r] \in {"tree", "refused"}
        /\ framing[r] # "chunked"
    <3>1. Passed(r, "requireBody") /\ Passed(r, "bodyLimit") /\ Passed(r, "nesting")
          /\ Passed(r, "decode") /\ Passed(r, "validate")
      BY <1>2, <2>1 DEF NodeStages
    <3>2. Undecodable = {"malformed"}
      BY <1>5 DEF Undecodable
    <3> QED
      BY <1>1, <3>1, <3>2 DEF Passed
  <2> QED
    BY <1>5, <2>2 DEF Right, VerdictOf
<1>6. CASE stack \in JvmStacks
  <2>1. Stages = JvmStages /\ pc[r] = 5
    BY <1>1, <1>6 DEF Stage, Stages, JvmStages
  <2>2. body[r] \in PlainBodies => body[r] = "tree"
    <3>1. Passed(r, "decode") /\ Passed(r, "nullRoot") /\ Passed(r, "traverse")
      BY <1>2, <2>1 DEF JvmStages
    <3>2. {"malformed", "mistyped", "tooDeep"} \subseteq Undecodable
      BY <1>6 DEF Undecodable
    <3>3. body[r] # "tooLarge"
      BY <1>6 DEF Inv, JvmBodiesFit
    <3> QED
      BY <1>1, <1>6, <3>1, <3>2, <3>3 DEF Passed
  <2> QED
    BY <1>6, <2>2 DEF Right, VerdictOf
<1>7. stack \in Stacks
  BY DEF Inv, Types, TypeOK
<1> QED
  BY <1>3, <1>4, <1>5, <1>6, <1>7

(* Every stage keeps the invariant.                                        *)
LEMMA StepInv ==
  ASSUME Inv, NEW r \in Requests,
         \/ RequireBody(r) \/ DeclaredSize(r) \/ Empty(r) \/ BodyLimit(r)
         \/ Nesting(r) \/ Decode(r) \/ NullRoot(r) \/ Validate(r)
         \/ StartTimer(r) \/ Traverse(r) \/ StopTimer(r)
  PROVE  Inv'
<1>0. stack \in Stacks /\ body[r] \in Bodies
  BY DEF Inv, Types, TypeOK
<1>1. CASE RequireBody(r)
  <2> DEFINE refused == body[r] = "absent" \/ framing[r] = "chunked"
  <2>1. At(r, "requireBody") /\ refused /\ body[r] \in PlainBodies => 400 = Right(r)
    BY <1>0, WhereStagesAre DEF At, Right, VerdictOf
  <2>2. ~refused => Passed(r, "requireBody")
    BY <1>0 DEF Passed
  <2>3. Guard(r, "requireBody", refused, 400)
    BY <1>1 DEF RequireBody
  <2>4. refused \in BOOLEAN
    OBVIOUS
  <2> HIDE DEF refused
  <2> QED
    BY <2>1, <2>2, <2>3, <2>4, GuardInv
<1>2. CASE DeclaredSize(r)
  <2> DEFINE refused == body[r] = "tooLarge" /\ framing[r] = "length"
  <2>1. At(r, "declaredSize") /\ refused /\ body[r] \in PlainBodies => 413 = Right(r)
    BY <1>0, WhereStagesAre DEF At, Right, VerdictOf
  <2>2. ~refused => Passed(r, "declaredSize")
    BY <1>0 DEF Passed
  <2>3. Guard(r, "declaredSize", refused, 413)
    BY <1>2 DEF DeclaredSize
  <2>4. refused \in BOOLEAN
    OBVIOUS
  <2> HIDE DEF refused
  <2> QED
    BY <2>1, <2>2, <2>3, <2>4, GuardInv
<1>3. CASE Empty(r)
  <2> DEFINE refused == body[r] = "absent"
  <2>1. At(r, "empty") /\ refused /\ body[r] \in PlainBodies => 400 = Right(r)
    BY <1>0, WhereStagesAre DEF At, Right, VerdictOf
  <2>2. ~refused => Passed(r, "empty")
    BY <1>0 DEF Passed
  <2>3. Guard(r, "empty", refused, 400)
    BY <1>3 DEF Empty
  <2>4. refused \in BOOLEAN
    OBVIOUS
  <2> HIDE DEF refused
  <2> QED
    BY <2>1, <2>2, <2>3, <2>4, GuardInv
<1>4. CASE BodyLimit(r)
  <2> DEFINE refused == body[r] = "tooLarge"
  <2>1. At(r, "bodyLimit") /\ refused /\ body[r] \in PlainBodies => 413 = Right(r)
    BY <1>0, WhereStagesAre DEF At, Right, VerdictOf
  <2>2. ~refused => Passed(r, "bodyLimit")
    BY <1>0 DEF Passed
  <2>3. Guard(r, "bodyLimit", refused, 413)
    BY <1>4 DEF BodyLimit
  <2>4. refused \in BOOLEAN
    OBVIOUS
  <2> HIDE DEF refused
  <2> QED
    BY <2>1, <2>2, <2>3, <2>4, GuardInv
<1>5. CASE Nesting(r)
  <2> DEFINE refused == body[r] = "tooDeep"
  <2>1. At(r, "nesting") /\ refused /\ body[r] \in PlainBodies => 400 = Right(r)
    BY <1>0, WhereStagesAre DEF At, Right, VerdictOf
  <2>2. ~refused => Passed(r, "nesting")
    BY <1>0 DEF Passed
  <2>3. Guard(r, "nesting", refused, 400)
    BY <1>5 DEF Nesting
  <2>4. refused \in BOOLEAN
    OBVIOUS
  <2> HIDE DEF refused
  <2> QED
    BY <2>1, <2>2, <2>3, <2>4, GuardInv
<1>6. CASE Decode(r)
  <2> DEFINE refused == body[r] \in Undecodable
  <2>1. At(r, "decode") /\ refused /\ body[r] \in PlainBodies => 400 = Right(r)
    BY <1>0, WhereStagesAre DEF At, Right, VerdictOf, Undecodable
  <2>2. ~refused => Passed(r, "decode")
    BY <1>0 DEF Passed
  <2>3. Guard(r, "decode", refused, 400)
    BY <1>6 DEF Decode
  <2>4. refused \in BOOLEAN
    OBVIOUS
  <2> HIDE DEF refused
  <2> QED
    BY <2>1, <2>2, <2>3, <2>4, GuardInv
<1>7. CASE NullRoot(r)
  <2> DEFINE refused == body[r] \in {"absent", "null"}
  <2>1. At(r, "nullRoot") /\ refused /\ body[r] \in PlainBodies => 400 = Right(r)
    BY <1>0, WhereStagesAre DEF At, Right, VerdictOf
  <2>2. ~refused => Passed(r, "nullRoot")
    BY <1>0 DEF Passed
  <2>3. Guard(r, "nullRoot", refused, 400)
    BY <1>7 DEF NullRoot
  <2>4. refused \in BOOLEAN
    OBVIOUS
  <2> HIDE DEF refused
  <2> QED
    BY <2>1, <2>2, <2>3, <2>4, GuardInv
<1>8. CASE Validate(r)
  <2> DEFINE refused == body[r] \in {"mistyped", "numeral", "fraction", "boolean"}
  <2>1. At(r, "validate") /\ refused /\ body[r] \in PlainBodies => 400 = Right(r)
    BY <1>0, WhereStagesAre DEF At, Right, VerdictOf
  <2>2. ~refused => Passed(r, "validate")
    BY <1>0 DEF Passed
  <2>3. Guard(r, "validate", refused, 400)
    BY <1>8 DEF Validate
  <2>4. refused \in BOOLEAN
    OBVIOUS
  <2> HIDE DEF refused
  <2> QED
    BY <2>1, <2>2, <2>3, <2>4, GuardInv
<1>9. CASE Traverse(r)
  <2> DEFINE refused == body[r] = "refused" /\ stack # "nodejs-wt"
  <2>1. At(r, "traverse") /\ refused /\ body[r] \in PlainBodies => 400 = Right(r)
    BY <1>0, WhereStagesAre DEF At, Right, VerdictOf
  <2>2. ~refused => Passed(r, "traverse")
    BY <1>0 DEF Passed
  <2>3. Guard(r, "traverse", refused, 400)
    BY <1>9 DEF Traverse
  <2>4. refused \in BOOLEAN
    OBVIOUS
  <2> HIDE DEF refused
  <2> QED
    BY <2>1, <2>2, <2>3, <2>4, GuardInv
<1>10. CASE StartTimer(r)
  BY <1>10, AdvanceInv DEF StartTimer, Passed
<1>11. CASE StopTimer(r)
  BY <1>11, AtTheEnd, AnswerInv DEF StopTimer, At
<1> QED
  BY <1>1, <1>2, <1>3, <1>4, <1>5, <1>6, <1>7, <1>8, <1>9, <1>10, <1>11

(* The inductive invariant of the pipelines.                               *)
THEOREM Invariance == Spec => []Inv
<1>1. Inv /\ [Next]_vars => Inv'
  <2>1. ASSUME Inv, UNCHANGED vars PROVE Inv'
    BY <2>1 DEF vars, Inv, Types, TypeOK, PastGuards, Passed, JvmBodiesFit,
             LimitsAreIdentical, VerdictOf, Stages, Undecodable
  <2> QED
    BY <2>1, StepInv DEF Next
<1> QED
  BY <1>1, InitInv, PTL DEF Spec

(* Type correctness.                                                       *)
THEOREM TypeCorrectness == Spec => []TypeOK
<1>1. Inv => TypeOK
  BY DEF Inv, Types
<1> QED
  BY <1>1, Invariance, PTL

(* However many requests overlap, each with a plain body gets the reply    *)
(* its body deserves: seven orders of guards are one verdict.              *)
THEOREM RepliesAreRight == Spec => []LimitsAreIdentical
<1>1. Inv => LimitsAreIdentical
  BY DEF Inv
<1> QED
  BY <1>1, Invariance, PTL

(* No decoder and no traversal works on what an earlier guard refuses, and *)
(* what is no node is traversed only where its own decoder takes it.       *)
THEOREM GuardsComeFirst == Spec => []WorkIsGuarded
<1>1. Inv => WorkIsGuarded
  <2> SUFFICES ASSUME Inv, NEW r \in Requests, reply[r] = None
               PROVE  /\ Stage(r) = "decode" =>
                           /\ body[r] # "tooLarge"
                           /\ body[r] = "tooDeep" => stack \in JvmStacks
                      /\ Stage(r) = "traverse" =>
                           /\ body[r] \in PlainBodies => body[r] \in {"tree", "refused"}
                           /\ body[r] = "numeral" => stack \in JvmStacks \union {"python"}
                           /\ body[r] = "fraction" => stack \in JvmStacks
                           /\ body[r] = "boolean" => stack = "python"
                           /\ body[r] = "nonNode" => stack \in NodeStacks
    BY DEF WorkIsGuarded
  <2>1. pc[r] \in DOMAIN Stages /\ pc[r] \in Nat /\ body[r] \in Bodies
    BY DEF Inv, Types, TypeOK
  <2>2. \A k \in 1..(pc[r] - 1) : Passed(r, Stages[k])
    BY DEF Inv, PastGuards
  <2>3. CASE stack = "go"
    <3>1. /\ Stages = GoStages
          /\ {"malformed", "mistyped"} \union NearNodes \subseteq Undecodable
      BY <2>3 DEF Stages, Undecodable
    <3>2. Stage(r) = "decode" => Passed(r, "bodyLimit") /\ Passed(r, "nesting")
      BY <2>1, <2>2, <3>1 DEF Stage, GoStages
    <3>3. Stage(r) = "traverse" =>
            /\ Passed(r, "bodyLimit") /\ Passed(r, "empty")
            /\ Passed(r, "nesting") /\ Passed(r, "decode")
      BY <2>1, <2>2, <3>1 DEF Stage, GoStages
    <3> QED
      BY <2>1, <2>3, <3>1, <3>2, <3>3 DEF Passed
  <2>4. CASE stack = "python"
    <3>1. /\ Stages = PythonStages
          /\ {"malformed", "mistyped", "fraction", "nonNode"} \subseteq Undecodable
      BY <2>4 DEF Stages, Undecodable
    <3>2. Stage(r) = "decode" => Passed(r, "bodyLimit") /\ Passed(r, "nesting")
      BY <2>1, <2>2, <3>1 DEF Stage, PythonStages
    <3>3. Stage(r) = "traverse" =>
            /\ Passed(r, "bodyLimit") /\ Passed(r, "empty")
            /\ Passed(r, "nesting") /\ Passed(r, "decode")
      BY <2>1, <2>2, <3>1 DEF Stage, PythonStages
    <3> QED
      BY <2>1, <2>4, <3>1, <3>2, <3>3 DEF Passed
  <2>5. CASE stack \in NodeStacks
    <3>1. Stages = NodeStages /\ Undecodable = {"malformed"}
      BY <2>5 DEF Stages, Undecodable
    <3>2. Stage(r) = "decode" => Passed(r, "bodyLimit") /\ Passed(r, "nesting")
      BY <2>1, <2>2, <3>1 DEF Stage, NodeStages
    <3>3. Stage(r) = "traverse" =>
            /\ Passed(r, "requireBody") /\ Passed(r, "bodyLimit")
            /\ Passed(r, "nesting") /\ Passed(r, "decode")
            /\ Passed(r, "validate")
      BY <2>1, <2>2, <3>1 DEF Stage, NodeStages
    <3> QED
      BY <2>1, <2>5, <3>1, <3>2, <3>3 DEF Passed
  <2>6. CASE stack \in JvmStacks
    <3>1. /\ Stages = JvmStages
          /\ {"malformed", "mistyped", "boolean", "nonNode", "tooDeep"} \subseteq Undecodable
      BY <2>6 DEF Stages, Undecodable
    <3>2. body[r] # "tooLarge"
      BY <2>6 DEF Inv, JvmBodiesFit
    <3>3. Stage(r) = "traverse" => Passed(r, "decode") /\ Passed(r, "nullRoot")
      BY <2>1, <2>2, <3>1 DEF Stage, JvmStages
    <3> QED
      BY <2>1, <2>6, <3>1, <3>2, <3>3 DEF Passed
  <2>7. stack \in Stacks
    BY DEF Inv, Types, TypeOK
  <2> QED
    BY <2>3, <2>4, <2>5, <2>6, <2>7
<1> QED
  BY <1>1, Invariance, PTL

----------------------------------------------------------------------------
(* The timer.  While a traversal is timed on an event loop, its request    *)
(* holds the loop: nothing is awaited between the two readings.            *)
LoopIsHeld ==
  stack \in {"python", "nodejs"} =>
    \A r \in Requests : Timing(r) => running = {r}

(* The stages inside the window.                                           *)
LEMMA Window ==
  ASSUME stack \in Stacks, NEW n \in DOMAIN Stages, NEW k \in 1..(n - 1),
         Stages[k] = "startTimer"
  PROVE  /\ Stages[n] \in {"validate", "traverse", "stopTimer"}
         /\ Stages[n] = "validate" => stack \in NodeStacks
         /\ stack \in {"python", "nodejs"} => ~Awaited(Stages[n])
<1>1. CASE stack = "go"
  BY <1>1 DEF Stages, GoStages
<1>2. CASE stack = "python"
  BY <1>2 DEF Stages, PythonStages, Awaited
<1>3. CASE stack \in NodeStacks
  BY <1>3 DEF Stages, NodeStages, Awaited
<1>4. CASE stack \in JvmStacks
  BY <1>4 DEF Stages, JvmStages
<1> QED
  BY <1>1, <1>2, <1>3, <1>4

(* What every action has in common.                                        *)
LEMMA OneSteps ==
  ASSUME Inv, Next
  PROVE  \E r \in Requests :
           /\ reply[r] = None /\ running \subseteq {r}
           /\ UNCHANGED <<stack, body, framing>>
           /\ \/ Advance(r) /\ Stage(r) # "stopTimer"
              \/ \E status \in {200, 400, 413} : Answer(r, status)
<1>1. PICK r \in Requests :
        \/ RequireBody(r) \/ DeclaredSize(r) \/ Empty(r) \/ BodyLimit(r)
        \/ Nesting(r) \/ Decode(r) \/ NullRoot(r) \/ Validate(r)
        \/ StartTimer(r) \/ Traverse(r) \/ StopTimer(r)
  BY DEF Next
<1>2. CASE RequireBody(r) \/ DeclaredSize(r) \/ Empty(r) \/ BodyLimit(r)
  BY <1>2 DEF RequireBody, DeclaredSize, Empty, BodyLimit, Guard, At
<1>3. CASE Nesting(r) \/ Decode(r) \/ NullRoot(r) \/ Validate(r) \/ Traverse(r)
  BY <1>3 DEF Nesting, Decode, NullRoot, Validate, Traverse, Guard, At
<1>4. CASE StartTimer(r)
  BY <1>4 DEF StartTimer, At
<1>5. CASE StopTimer(r)
  BY <1>5 DEF StopTimer, At
<1> QED
  BY <1>1, <1>2, <1>3, <1>4, <1>5

(* Between its two readings of the clock a request keeps the loop. *)
LEMMA LoopStep == Inv /\ LoopIsHeld /\ [Next]_vars => LoopIsHeld'
<1> SUFFICES ASSUME Inv, LoopIsHeld, [Next]_vars, stack' \in {"python", "nodejs"},
                    NEW q \in Requests, Timing(q)'
             PROVE  running' = {q}
  BY DEF LoopIsHeld
<1>1. CASE UNCHANGED vars
  BY <1>1 DEF vars, LoopIsHeld, Timing, Stages
<1>2. CASE Next
  <2>1. PICK r \in Requests :
          /\ reply[r] = None /\ running \subseteq {r}
          /\ UNCHANGED <<stack, body, framing>>
          /\ \/ Advance(r) /\ Stage(r) # "stopTimer"
             \/ \E status \in {200, 400, 413} : Answer(r, status)
    BY <1>2, OneSteps
  <2>2. Stages' = Stages /\ stack \in Stacks
    BY <2>1 DEF Stages, Inv, Types, TypeOK
  <2>3. q = r
    <3>1. SUFFICES ASSUME q # r PROVE FALSE
      OBVIOUS
    <3>2. Timing(q)
      BY <2>1, <2>2, <3>1 DEF Timing, Advance, Answer, Inv, Types, TypeOK
    <3>3. running = {q}
      BY <2>1, <3>2 DEF LoopIsHeld
    <3> QED
      BY <2>1, <3>1, <3>3
  <2>4. Advance(r) /\ Stage(r) # "stopTimer"
    BY <2>1, <2>3 DEF Timing, Answer, Inv, Types, TypeOK
  <2>5. pc[r] + 1 \in DOMAIN Stages
    BY <2>2, <2>4, LastStage DEF Inv, Types, TypeOK, Stage
  <2>6. PICK k \in 1..pc[r] : Stages[k] = "startTimer"
    BY <2>2, <2>3, <2>4 DEF Timing, Advance, Inv, Types, TypeOK
  <2>7. ~Awaited(Stages[pc[r] + 1])
    BY <2>1, <2>2, <2>5, <2>6, Window DEF Inv, Types
  <2> QED
    BY <2>1, <2>3, <2>4, <2>7 DEF Advance
<1> QED
  BY <1>1, <1>2

(* The window of the X-Runtime headers holds the traversal of its own      *)
(* request and, on the event loops of Python and Node, nothing of others.  *)
THEOREM TimersAreOwn == Spec => TimerIsOwn
<1>1. Init => LoopIsHeld
  BY DEF Init, LoopIsHeld, Timing
<1>2. Spec => [](Inv /\ LoopIsHeld)
  <2>1. Init => Inv
    BY InitInv
  <2> QED
    BY <1>1, <2>1, LoopStep, Invariance, PTL DEF Spec
<1>3. Inv /\ LoopIsHeld /\ [Next]_vars =>
        [\A r, q \in Requests : Timing(r) /\ Steps(q) =>
           IF q = r
           THEN Stage(q) \in {"traverse", "stopTimer"}
                               \union (IF stack \in NodeStacks THEN {"validate"} ELSE {})
           ELSE stack \notin {"python", "nodejs"}]_vars
  <2> SUFFICES ASSUME Inv, LoopIsHeld, Next, NEW r \in Requests, NEW q \in Requests,
                      Timing(r), Steps(q)
               PROVE  IF q = r
                      THEN Stage(q) \in {"traverse", "stopTimer"}
                             \union (IF stack \in NodeStacks THEN {"validate"} ELSE {})
                      ELSE stack \notin {"python", "nodejs"}
    OBVIOUS
  <2>1. PICK t \in Requests :
          /\ reply[t] = None /\ running \subseteq {t}
          /\ \/ Advance(t)
             \/ \E status \in {200, 400, 413} : Answer(t, status)
    BY OneSteps
  <2>2. t = q
    BY <2>1 DEF Steps, Advance, Answer, Inv, Types, TypeOK
  <2>3. CASE q = r
    <3>1. stack \in Stacks /\ pc[r] \in DOMAIN Stages
      BY DEF Inv, Types, TypeOK
    <3>2. PICK k \in 1..(pc[r] - 1) : Stages[k] = "startTimer"
      BY DEF Timing
    <3> QED
      BY <2>3, <3>1, <3>2, Window DEF Stage
  <2>4. CASE q # r
    <3>1. stack \in {"python", "nodejs"} => running = {r}
      BY DEF LoopIsHeld
    <3> QED
      BY <2>1, <2>2, <2>4, <3>1
  <2> QED
    BY <2>3, <2>4
<1> QED
  BY <1>2, <1>3, PTL DEF Spec, TimerIsOwn
=============================================================================
