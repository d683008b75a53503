---------------------------- MODULE HeptathlonProofs ----------------------------
(***************************************************************************)
(* Theorems about the composed load test, for any number of services,      *)
(* rates, warm-up phases, loops and calls.  What is proved of the          *)
(* pre-warm-up and of the CloudWatch charts by themselves is carried over  *)
(* to the test that contains them.                                         *)
(***************************************************************************)
EXTENDS Heptathlon, SequenceTheorems, FiniteSetTheorems, TLAPS

-----------------------------------------------------------------------------
(* pre_warmup_curl by itself, for any number of loops.                      *)

(* What makes one late request the most: the request after the removal is  *)
(* the one whose test came before it, and the next test ends the loop.     *)
LateIsOver ==
  \A i \in Curl!Loops : late[i] = 1 => ~sentinel /\ loop[i] # "send"

CurlInv == Curl!TypeOK /\ Curl!QuietWhenReturned /\ Curl!NobodyStopsEarly /\ LateIsOver

(* Before the pre-warm-up begins its invariant holds. *)
LEMMA CurlInitially == Curl!Init => CurlInv
  BY DEF Curl!Init, CurlInv, Curl!TypeOK, Curl!QuietWhenReturned,
     Curl!NobodyStopsEarly, LateIsOver

(* Steps of the shell: spawning and returning touch no loop that runs.     *)
LEMMA CurlShellStep == CurlInv /\ Curl!Shell => CurlInv'
<1> SUFFICES ASSUME CurlInv, Curl!Shell PROVE CurlInv'
  OBVIOUS
<1> USE DEF CurlInv, Curl!TypeOK, Curl!QuietWhenReturned, Curl!NobodyStopsEarly,
   LateIsOver
<1>1. CASE Curl!StartSleeper
  BY <1>1 DEF Curl!StartSleeper
<1>2. CASE Curl!Spawn
  BY <1>2 DEF Curl!Spawn
<1>3. CASE Curl!Return
  BY <1>3 DEF Curl!Return
<1> QED
  BY <1>1, <1>2, <1>3 DEF Curl!Shell

(* The removal of the sentinel keeps the invariant of the pre-warm-up. *)
LEMMA CurlSleeperStep == CurlInv /\ Curl!Sleeper => CurlInv'
<1> SUFFICES ASSUME CurlInv, Curl!Sleeper PROVE CurlInv'
  OBVIOUS
<1> USE DEF CurlInv, Curl!TypeOK, Curl!QuietWhenReturned, Curl!NobodyStopsEarly,
   LateIsOver
<1>1. CASE Curl!Wake
  BY <1>1 DEF Curl!Wake
<1>2. CASE Curl!Remove
  BY <1>2 DEF Curl!Remove
<1> QED
  BY <1>1, <1>2 DEF Curl!Sleeper

(* A step of a loop keeps the invariant of the pre-warm-up. *)
LEMMA CurlLoopStep ==
  ASSUME NEW i \in Curl!Loops, CurlInv, Curl!Loop(i)
  PROVE  CurlInv'
<1> USE DEF CurlInv, Curl!TypeOK, Curl!QuietWhenReturned, Curl!NobodyStopsEarly,
   LateIsOver
<1>1. CASE Curl!Test(i)
  BY <1>1 DEF Curl!Test
<1>2. CASE Curl!Send(i)
  <2>1. sentinel \/ late[i] = 0
    BY <1>2 DEF Curl!Send
  <2> QED
    BY <1>2, <2>1 DEF Curl!Send
<1>3. CASE Curl!Answer(i)
  BY <1>3 DEF Curl!Answer
<1> QED
  BY <1>1, <1>2, <1>3 DEF Curl!Loop, Curl!Local

(* The inductive invariant of the pre-warm-up, for any number of loops. *)
THEOREM CurlInvariance == Curl!Spec => []CurlInv
<1>1. CurlInv /\ [Curl!Next]_(Curl!vars) => CurlInv'
  <2> SUFFICES ASSUME CurlInv, [Curl!Next]_(Curl!vars) PROVE CurlInv'
    OBVIOUS
  <2>1. CASE Curl!Next
    BY <2>1, CurlShellStep, CurlSleeperStep, CurlLoopStep DEF Curl!Next
  <2>2. CASE UNCHANGED Curl!vars
    BY <2>2 DEF Curl!vars, CurlInv, Curl!TypeOK, Curl!QuietWhenReturned,
       Curl!NobodyStopsEarly, LateIsOver
  <2> QED
    BY <2>1, <2>2
<1> QED
  BY CurlInitially, <1>1, PTL DEF Curl!Spec

(* Type correctness of pre_warmup_curl's processes, and with it that no    *)
(* loop begins more than one request after the sentinel is gone.           *)
THEOREM CurlTypeCorrectness == Curl!Spec => []Curl!TypeOK
  BY CurlInvariance, PTL DEF CurlInv

(* pre_warmup_curl leaves nothing under way when it returns, however many  *)
(* loops it starts and however their steps meet the removal.               *)
THEOREM MeasurementStartsQuiet == Curl!Spec => []Curl!QuietWhenReturned
  BY CurlInvariance, PTL DEF CurlInv

(* No loop of pre_warmup_curl ends while the sentinel is there.            *)
THEOREM LoadIsKeptUp == Curl!Spec => []Curl!NobodyStopsEarly
  BY CurlInvariance, PTL DEF CurlInv

-----------------------------------------------------------------------------
(* The CloudWatch charts by themselves, for any number of calls.            *)

(* The charts behind the current one are of this call; a call that         *)
(* returned got past the last.                                             *)
PlotsBehind ==
  fetch # "raised" =>
    \A k \in DOMAIN Plots!Charts :
      fetch = "returned" \/ k < at => chart[prefix][k].call = call

PlotsInv ==
  /\ Plots!TypeOK /\ PlotsBehind
  /\ Plots!MixturesAreOrdered /\ Plots!TableHasItsCharts /\ Plots!OneWindow

(* A call draws nine charts. *)
LEMMA ChartNumbers == DOMAIN Plots!Charts = 1..9 /\ Len(Plots!Charts) = 9
BY DEF Plots!Charts

(* Calls are numbered, and nothing is of a call still to come.             *)
LEMMA CallNumbers ==
  ASSUME Plots!TypeOK
  PROVE  /\ call \in Nat
         /\ \A p \in Plots!Prefixes : \A k \in 1..9 :
              chart[p][k].call \in Nat /\ chart[p][k].call <= call
         /\ table.call \in Nat /\ table.call <= call
<1>1. call \in Nat
  BY HeptathlonAssumption DEF Plots!TypeOK
<1>2. \A p \in Plots!Prefixes : \A k \in 1..9 : chart[p][k].call \in 0..call
  BY ChartNumbers DEF Plots!TypeOK
<1>3. table.call \in 0..call
  BY DEF Plots!TypeOK
<1>4. QED  BY <1>1, <1>2, <1>3

(* Before the first call the invariant of the charts holds. *)
LEMMA PlotsInitially == Plots!Init => PlotsInv
<1> SUFFICES ASSUME Plots!Init PROVE PlotsInv
  OBVIOUS
<1>1. /\ call = 0 /\ prefix \in Plots!Prefixes /\ at = 1 /\ window # "given"
      /\ chart = [p \in Plots!Prefixes |-> [k \in DOMAIN Plots!Charts |-> Plots!Before]]
      /\ table = Plots!Before /\ window = "none" /\ fetch = "returned"
  BY DEF Plots!Init, Plots!Prefixes
<1>2. Plots!Before \in [call : 0..0, until : 0..9] /\ Plots!Before.call = 0
  BY DEF Plots!Before, Plots!Given
<1>3. \A p \in Plots!Prefixes : \A k \in DOMAIN Plots!Charts : chart[p][k].call = 0
  BY <1>1, <1>2
<1>4. Plots!TypeOK /\ PlotsBehind
  <2>1. 0 \in 0..MaxCalls
    BY HeptathlonAssumption
  <2>2. table \in [call : 0..0, until : 0..10]
    BY <1>1, <1>2
  <2>3. chart \in [Plots!Prefixes -> [DOMAIN Plots!Charts -> [call : 0..0, until : 0..9]]]
    BY <1>1, <1>2
  <2>4. QED
    BY <1>1, <1>2, <1>3, <2>1, <2>2, <2>3, ChartNumbers DEF Plots!TypeOK, PlotsBehind
<1>5. Plots!MixturesAreOrdered /\ Plots!TableHasItsCharts /\ Plots!OneWindow
  BY <1>1, <1>2, <1>3 DEF Plots!MixturesAreOrdered, Plots!TableHasItsCharts, Plots!OneWindow
<1>6. QED  BY <1>4, <1>5 DEF PlotsInv

(* A new call has written nothing yet. *)
LEMMA CallStep ==
  ASSUME PlotsInv, NEW p \in Plots!Prefixes, NEW w \in {"none", "given"},
         Plots!generate_all(p, w)
  PROVE  PlotsInv'
<1> USE ChartNumbers DEF PlotsInv, Plots!generate_all
<1>1. Plots!TypeOK'
  <2>1. call' \in 0..MaxCalls /\ 0..call \subseteq 0..call' /\ MaxCalls \in Nat
    BY HeptathlonAssumption DEF Plots!TypeOK
  <2>2. [call : 0..call, until : 0..9] \subseteq [call : 0..call', until : 0..9]
    BY <2>1
  <2>3. table' \in [call : 0..call', until : 0..10]
    BY <2>1 DEF Plots!TypeOK
  <2>4. chart' \in [Plots!Prefixes -> [DOMAIN Plots!Charts ->
                                         [call : 0..call', until : 0..9]]]
    BY <2>2 DEF Plots!TypeOK
  <2>5. QED  BY <2>1, <2>3, <2>4 DEF Plots!TypeOK
<1>2. PlotsBehind'  BY DEF PlotsBehind, Plots!TypeOK
<1>3. Plots!MixturesAreOrdered' /\ Plots!TableHasItsCharts'
  BY DEF Plots!MixturesAreOrdered, Plots!TableHasItsCharts
<1>4. Plots!OneWindow'
  <2>1. \A k \in DOMAIN Plots!Charts : chart[p][k].call # call'
    BY DEF Plots!TypeOK
  <2>2. table.call # call'  BY DEF Plots!TypeOK
  <2>3. QED  BY <2>1, <2>2 DEF Plots!OneWindow
<1>5. QED  BY <1>1, <1>2, <1>3, <1>4

(* A chart drawn is the newest of its prefix, and those behind it are of   *)
(* the same call.                                                          *)
LEMMA PlotStep ==
  ASSUME PlotsInv, Plots!Plot
  PROVE  PlotsInv'
<1> USE ChartNumbers DEF PlotsInv
<1>1. /\ fetch = "running" /\ fetch' = "running"
      /\ at \in 1..9 /\ at' = at + 1
      /\ UNCHANGED <<call, prefix, window, table>>
      /\ prefix \in Plots!Prefixes
  BY DEF Plots!Plot, Plots!TypeOK
<1>2. /\ Plots!Written \in [call : 0..call, until : 0..9]
      /\ Plots!Written.call = call
      /\ window = "given" => Plots!Written.until = Plots!Given
  BY <1>1 DEF Plots!Written, Plots!get_metric, Plots!Given, Plots!TypeOK
<1>3. /\ chart' \in [Plots!Prefixes -> [DOMAIN Plots!Charts ->
                                         [call : 0..call, until : 0..9]]]
      /\ chart'[prefix][at] = Plots!Written
      /\ \A p \in Plots!Prefixes : \A k \in DOMAIN Plots!Charts :
           p # prefix \/ k # at => chart'[p][k] = chart[p][k]
  BY <1>1, <1>2 DEF Plots!Plot, Plots!TypeOK
<1>4. Plots!TypeOK'
  BY <1>1, <1>3 DEF Plots!TypeOK
<1>5. PlotsBehind'  BY <1>1, <1>2, <1>3 DEF PlotsBehind
<1>6. Plots!MixturesAreOrdered'
  <2> SUFFICES ASSUME NEW p \in Plots!Prefixes, NEW j \in 1..9, NEW k \in 1..9, j < k
               PROVE  chart'[p][j].call >= chart'[p][k].call
    BY DEF Plots!MixturesAreOrdered
  <2>1. CASE p # prefix \/ (j # at /\ k # at)
    BY <2>1, <1>3, CallNumbers DEF Plots!MixturesAreOrdered
  <2>2. CASE p = prefix /\ j = at
    <3>1. chart'[p][j].call = call
      BY <2>2, <1>2, <1>3
    <3>2. chart'[p][k] \in [call : 0..call, until : 0..9]
      BY <1>3 DEF Plots!Charts
    <3>3. chart'[p][k].call \in 0..call /\ call \in Nat
      BY <1>1, <3>2 DEF Plots!TypeOK
    <3>4. QED  BY <3>1, <3>3
  <2>3. CASE p = prefix /\ k = at
    BY <2>3, <1>1, <1>2, <1>3 DEF PlotsBehind
  <2>4. QED  BY <2>1, <2>2, <2>3
<1>7. Plots!TableHasItsCharts'
  <2>1. PICK p \in Plots!Prefixes :
          \A k \in DOMAIN Plots!Charts : chart[p][k].call >= table.call
    BY DEF Plots!TableHasItsCharts
  <2>2. \A k \in DOMAIN Plots!Charts : chart'[p][k].call >= table'.call
    BY <2>1, <1>1, <1>2, <1>3, CallNumbers
  <2>3. QED  BY <2>1, <2>2 DEF Plots!TableHasItsCharts
<1>8. Plots!OneWindow'  BY <1>1, <1>2, <1>3 DEF Plots!OneWindow, Plots!Given
<1>9. QED  BY <1>4, <1>5, <1>6, <1>7, <1>8

(* The table is written last: the charts of its call are all there.        *)
LEMMA TableStep ==
  ASSUME PlotsInv, Plots!fetch_cloudwatch_csv
  PROVE  PlotsInv'
<1> USE ChartNumbers DEF PlotsInv
<1>1. /\ fetch = "running" /\ fetch' = "returned"
      /\ at = 10
      /\ UNCHANGED <<call, prefix, window, at, chart>>
      /\ table' = Plots!Written \/ table' = table
      /\ prefix \in Plots!Prefixes
  BY DEF Plots!fetch_cloudwatch_csv, Plots!TypeOK
<1>2. /\ Plots!Written \in [call : 0..call, until : 0..10]
      /\ Plots!Written.call = call
      /\ window = "given" => Plots!Written.until = Plots!Given
  BY <1>1 DEF Plots!Written, Plots!get_metric, Plots!Given, Plots!TypeOK
<1>3. \A k \in DOMAIN Plots!Charts : chart[prefix][k].call = call
  BY <1>1 DEF PlotsBehind
<1>4. Plots!TypeOK'  BY <1>1, <1>2 DEF Plots!TypeOK
<1>5. PlotsBehind'  BY <1>1, <1>3 DEF PlotsBehind
<1>6. Plots!MixturesAreOrdered'  BY <1>1 DEF Plots!MixturesAreOrdered
<1>7. Plots!TableHasItsCharts'
  <2>1. CASE table' = table  BY <2>1, <1>1 DEF Plots!TableHasItsCharts
  <2>2. CASE table' = Plots!Written
    BY <2>2, <1>1, <1>2, <1>3 DEF Plots!TableHasItsCharts, Plots!TypeOK
  <2>3. QED  BY <2>1, <2>2, <1>1
<1>8. Plots!OneWindow'  BY <1>1, <1>2 DEF Plots!OneWindow, Plots!Given
<1>9. QED  BY <1>4, <1>5, <1>6, <1>7, <1>8

(* The files are consistent, whatever calls return or raise.               *)
THEOREM PlotsInvariance == Plots!Spec => []PlotsInv
<1>1. Plots!Init => PlotsInv  BY PlotsInitially
<1>2. PlotsInv /\ [Plots!Next]_(Plots!vars) => PlotsInv'
  <2> SUFFICES ASSUME PlotsInv, [Plots!Next]_(Plots!vars)
               PROVE  PlotsInv'
    OBVIOUS
  <2>1. CASE Plots!Plot  BY <2>1, PlotStep
  <2>2. CASE Plots!fetch_cloudwatch_csv  BY <2>2, TableStep
  <2>3. CASE Plots!Raise
    BY <2>3 DEF Plots!Raise, PlotsInv, Plots!TypeOK, PlotsBehind,
       Plots!MixturesAreOrdered,
       Plots!TableHasItsCharts, Plots!OneWindow
  <2>4. CASE Plots!main
    <3>1. PICK p \in Plots!Prefixes, w \in {"none", "given"} : Plots!generate_all(p, w)
      BY <2>4 DEF Plots!main, Plots!Prefixes
    <3>2. QED  BY <3>1, CallStep
  <2>5. CASE Plots!heptathlon
    <3>1. "hepta_" \in Plots!Prefixes  BY DEF Plots!Prefixes
    <3>2. Plots!generate_all("hepta_", "given")  BY <2>5 DEF Plots!heptathlon
    <3>3. QED  BY <3>1, <3>2, CallStep
  <2>6. CASE UNCHANGED Plots!vars
    BY <2>6 DEF Plots!vars, PlotsInv, Plots!TypeOK, PlotsBehind, Plots!MixturesAreOrdered,
       Plots!TableHasItsCharts, Plots!OneWindow
  <2>7. QED  BY <2>1, <2>2, <2>3, <2>4, <2>5, <2>6 DEF Plots!Next, Plots!Step
<1>3. QED  BY <1>1, <1>2, PTL DEF Plots!Spec

(* PlotsAreConsistent holds of every sequence of calls: a call that        *)
(* returned redrew all nine charts, charts of two calls lie side by side   *)
(* only with the newer ones first, the CSV file never runs ahead of them,  *)
(* and what a call was given a window for shows that window.               *)
THEOREM FilesAreConsistent == Plots!Spec => []Plots!PlotsAreConsistent
<1>1. PlotsInv => Plots!PlotsAreConsistent
  BY DEF PlotsInv, Plots!PlotsAreConsistent, Plots!ReturnedIsWhole, PlotsBehind
<1>2. QED  BY <1>1, PlotsInvariance, PTL

-----------------------------------------------------------------------------
(* The test that contains them.                                             *)

(* The pre-warm-up under way, or the last one, is in a state of its own    *)
(* invariant, and the driver left it only when its shell had returned.     *)
DriverInv ==
  /\ scenario \in {1, 2}
  /\ CurlInv
  /\ MeasuresAlone
  /\ ClimbsHot

(* The large tree comes last.                                              *)
LEMMA ScenariosAre == Len(Scenarios) = 2 /\ Scenarios[2] = "large"
BY DEF Scenarios

(* A step of the pre-warm-up's processes is one of its specification.      *)
LEMMA CurlSteps ==
  ASSUME CurlInv,
         \/ Curl!Shell \/ Curl!Sleeper
         \/ \E i \in Curl!Loops : Curl!Loop(i)
  PROVE  CurlInv'
BY CurlShellStep, CurlSleeperStep, CurlLoopStep

(* Processes of the pre-warm-up that have not begun are in their invariant. *)
LEMMA CurlAtRest ==
  ASSUME sentinel' \in BOOLEAN, sleeper' = "none", shell' = "start",
         loop' = [i \in Curl!Loops |-> "none"],
         late' = [i \in Curl!Loops |-> 0]
  PROVE  CurlInv'
BY DEF CurlInv, Curl!TypeOK, Curl!QuietWhenReturned, Curl!NobodyStopsEarly, LateIsOver

(* Nothing is added where they take no step.                               *)
LEMMA CurlUnchanged ==
  ASSUME CurlInv, UNCHANGED curl
  PROVE  CurlInv'
BY DEF curl, CurlInv, Curl!TypeOK, Curl!QuietWhenReturned, Curl!NobodyStopsEarly,
   LateIsOver, Curl!Loops

(* The steps of main and run_service, one by one: only the return of the   *)
(* pre-warm-up's shell leads to a measurement, only the large tree to the  *)
(* ladder.                                                                 *)
LEMMA ProceedStep ==
  ASSUME DriverInv, Proceed, UNCHANGED <<curl, plots>>
  PROVE  DriverInv'
<1> USE DEF DriverInv, MeasuresAlone, ClimbsHot
<1>1. CurlInv'
  BY CurlUnchanged
<1>2. UNCHANGED <<loop, shell>>
  BY DEF curl
<1>3. CASE Start \/ NoWrk2
  BY <1>1, <1>2, <1>3 DEF Start, NoWrk2
<1>4. CASE PreWarmUp
  <2>1. \A i \in Curl!Loops : loop[i] = "done"
    BY <1>4 DEF PreWarmUp, CurlInv, Curl!QuietWhenReturned
  <2>2. QED  BY <1>1, <1>2, <1>4, <2>1 DEF PreWarmUp
<1>5. CASE WarmUp \/ Cooldown
  BY <1>1, <1>2, <1>5 DEF WarmUp, Cooldown
<1>6. ASSUME NEW outcome \in Outcomes, Measure(outcome) PROVE DriverInv'
  <2>1. /\ phase = "measure" /\ loaded' = <<Services[svc], Scenarios[scenario]>>
        /\ UNCHANGED svc
        /\ \/ scenario < 2 /\ scenario' = scenario + 1 /\ phase' = "pre-warm-up"
           \/ ~(scenario < 2) /\ scenario' = 1 /\ phase' = "climb"
    BY <1>6, ScenariosAre DEF Measure, Load
  <2>2. CASE scenario < 2
    BY <1>1, <1>2, <2>1, <2>2
  <2>3. CASE ~(scenario < 2)
    <3>1. scenario = 2
      BY <2>3
    <3>2. loaded' = <<Services[svc'], "large">>
      BY <2>1, <3>1, ScenariosAre
    <3>3. QED  BY <1>1, <1>2, <2>1, <2>3, <3>2
  <2>4. QED  BY <2>2, <2>3
<1>7. ASSUME NEW outcome \in Outcomes, Climb(outcome) PROVE DriverInv'
  BY <1>1, <1>2, <1>7 DEF Climb
<1>8. CASE NextService
  BY <1>1, <1>2, <1>8 DEF NextService
<1>9. ASSUME NEW header \in BOOLEAN, Probe(header) PROVE DriverInv'
  BY <1>1, <1>2, <1>9 DEF Probe
<1>10. CASE OpenFile \/ CloseFile \/ Draw \/ Report
  BY <1>1, <1>2, <1>10 DEF OpenFile, CloseFile, Draw, Report
<1>11. QED
  BY <1>3, <1>4, <1>5, <1>6, <1>7, <1>8, <1>9, <1>10 DEF Proceed

(* What runs beside the driver changes nothing the driver keeps; once the  *)
(* loops are done, none of them takes another step.                        *)
LEMMA BesideStep ==
  ASSUME DriverInv,
         \/ CurlShell \/ CurlSleeper \/ \E i \in Curl!Loops : CurlLoop(i)
  PROVE  DriverInv'
<1> USE DEF DriverInv, MeasuresAlone, ClimbsHot
<1>1. CurlInv'
  BY CurlSteps DEF CurlShell, CurlSleeper, CurlLoop
<1>2. UNCHANGED <<phase, svc, scenario, loaded>>
  BY DEF CurlShell, CurlSleeper, CurlLoop, driver
<1>3. CASE CurlShell
  BY <1>1, <1>2, <1>3 DEF CurlShell
<1>4. CASE CurlSleeper
  <2>1. UNCHANGED loop
    BY <1>4 DEF CurlSleeper, Curl!Sleeper, Curl!Wake, Curl!Remove
  <2>2. QED  BY <1>1, <1>2, <2>1
<1>5. ASSUME NEW i \in Curl!Loops, CurlLoop(i) PROVE DriverInv'
  <2>1. loop[i] # "done"
    BY <1>5 DEF CurlLoop, Curl!Loop, Curl!Local, Curl!Test, Curl!Send, Curl!Answer
  <2>2. QED  BY <1>1, <1>2, <2>1
<1>6. QED  BY <1>3, <1>4, <1>5

(* Measurements meet the load they are meant to meet.                      *)
THEOREM DriverInvariance == Spec => []DriverInv
<1>1. Init => DriverInv
  <2> SUFFICES ASSUME Init PROVE DriverInv
    OBVIOUS
  <2>1. CurlInv
    BY CurlInitially DEF Init
  <2>2. QED  BY <2>1 DEF Init, DriverInv, MeasuresAlone, ClimbsHot
<1>2. DriverInv /\ [Next]_vars => DriverInv'
  <2> SUFFICES ASSUME DriverInv, [Next]_vars PROVE DriverInv'
    OBVIOUS
  <2>1. CASE CallPreWarmUp
    <3>1. CurlInv'
      BY <2>1, CurlAtRest DEF CallPreWarmUp
    <3>2. QED
      BY <2>1, <3>1 DEF CallPreWarmUp, DriverInv, MeasuresAlone, ClimbsHot
  <2>2. CASE CallPlots /\ UNCHANGED curl
    BY <2>2, CurlUnchanged DEF CallPlots, curl, DriverInv, MeasuresAlone, ClimbsHot
  <2>3. CASE Proceed /\ UNCHANGED <<curl, plots>>
    BY <2>3, ProceedStep
  <2>4. CASE Abort
    BY <2>4, CurlUnchanged DEF Abort, DriverInv, MeasuresAlone, ClimbsHot
  <2>5. CASE Exit
    <3>1. CurlInv'
      BY <2>5, CurlAtRest DEF Exit, DriverInv, CurlInv, Curl!TypeOK
    <3>2. QED
      BY <2>5, <3>1 DEF Exit, DriverInv, MeasuresAlone, ClimbsHot
  <2>6. CASE CurlShell \/ CurlSleeper \/ \E i \in Curl!Loops : CurlLoop(i)
    BY <2>6, BesideStep
  <2>7. CASE PlotsStep \/ DrawAgain \/ UNCHANGED vars
    <3>1. UNCHANGED driver /\ UNCHANGED curl
      BY <2>7 DEF PlotsStep, DrawAgain, vars
    <3>2. QED
      BY <3>1, CurlUnchanged DEF driver, curl, DriverInv, MeasuresAlone, ClimbsHot
  <2>8. QED
    BY <2>1, <2>2, <2>3, <2>4, <2>5, <2>6, <2>7 DEF Next, Driver
<1>3. QED  BY <1>1, <1>2, PTL DEF Spec

(* MeasuresRight holds of every test: no request of pre_warmup_curl is     *)
(* under way or can begin while wrk2 runs, and the ladder of run_service   *)
(* starts and goes on with the service hot from the large tree, for any    *)
(* number of services, rates and loops.                                    *)
THEOREM MeasurementsAreRight == Spec => []MeasuresRight
BY DriverInvariance, PTL DEF DriverInv, MeasuresRight

(* As far as the charts are concerned a test and what the operator does    *)
(* behind it are calls of generate_all: the composition restricts the      *)
(* calls, and adds nothing to what they do.                                *)
THEOREM CallsArePlots == Spec => Plots!Spec
<1>1. Init => Plots!Init
  BY DEF Init
<1>2. [Next]_vars => [Plots!Next]_(Plots!vars)
  <2> SUFFICES ASSUME [Next]_vars PROVE [Plots!Next]_(Plots!vars)
    OBVIOUS
  <2>1. CASE Driver
    BY <2>1 DEF Driver, CallPreWarmUp, CallPlots, plots, Plots!Next, Plots!vars
  <2>2. CASE Abort
    BY <2>2 DEF Abort, plots, Plots!Next, Plots!Step, Plots!vars
  <2>3. CASE Exit \/ CurlShell \/ CurlSleeper \/ \E i \in Curl!Loops : CurlLoop(i)
    BY <2>3 DEF Exit, CurlShell, CurlSleeper, CurlLoop, plots, Plots!vars
  <2>4. CASE PlotsStep \/ DrawAgain
    BY <2>4 DEF PlotsStep, DrawAgain, Plots!Next
  <2>5. CASE UNCHANGED vars
    BY <2>5 DEF vars, plots, Plots!vars
  <2>6. QED  BY <2>1, <2>2, <2>3, <2>4, <2>5 DEF Next
<1>3. QED  BY <1>1, <1>2, PTL DEF Spec, Plots!Spec

(* PlotsAreConsistent: what a test leaves in images/, wherever it or a     *)
(* later call of plot_cloudwatch.py stopped, can be read without knowing.  *)
THEOREM ImagesAreConsistent == Spec => []PlotsAreConsistent
  BY CallsArePlots, FilesAreConsistent, PTL DEF PlotsAreConsistent

-----------------------------------------------------------------------------
(* What a test records: its rows, its files, its charts.                   *)

(* The phases before the ladder of a service, and those after all ladders. *)
Early == {"start", "pre-warm-up", "curl", "warm-up", "cooldown", "measure"}
After == {"probe", "save", "draw", "cloudwatch", "fetch", "done"}

BenchRows == [service : Range(Services), scenario : Range(Scenarios), p99 : BOOLEAN]
SatRows == [service : Range(Services), rate : Range(Rates), saturated : BOOLEAN]

(* The variables of the driver have their types, and a phase that counts   *)
(* its steps is at one of them.                                            *)
RunTyped ==
  /\ phase \in Early \union {"climb"} \union After \union {"aborted", "exited"}
  /\ svc \in 1..Len(Services) /\ scenario \in 1..2
  /\ step \in 1..(Len(Rates) + 1) \union 1..Ramp \union 1..5
  /\ phase \in {"probe", "save"} => step = 1
  /\ phase = "draw" => step \in 1..5
  /\ loaded \in (Range(Services) \X Range(Scenarios)) \union {Idle}
  /\ bench \in Seq(BenchRows) /\ sat \in Seq(SatRows)
  /\ lastOkRate \in Range(Rates) \union {0}
  /\ saturatedAt \in Range(Rates) \union {0}
  /\ console \in Seq(Nat)
  /\ timed \subseteq probes /\ probes \subseteq Range(Services)
  /\ images \subseteq Range(Pictures)

(* all_bench has the rows of the services in their order, those of the     *)
(* small tree first, as far as the test has come.                          *)
BenchIs ==
  /\ \A i \in 1..Len(Services), k \in 1..2 :
       2 * (i - 1) + k <= Len(bench) =>
         /\ bench[2 * (i - 1) + k].service = Services[i]
         /\ bench[2 * (i - 1) + k].scenario = Scenarios[k]
  /\ phase \in Early => Len(bench) = 2 * (svc - 1) + (scenario - 1)
  /\ phase = "climb" => Len(bench) = 2 * svc /\ scenario = 1
  /\ phase \in After => Len(bench) = 2 * Len(Services)

(* The ladder under way: the last rows are those of its service, the rates *)
(* below step were sustained, and the one it stopped at was not.           *)
Climbing ==
  /\ step \in 1..(Len(Rates) + 1)
  /\ saturatedAt # 0 => step <= Len(Rates)
  /\ lastOkRate = IF step = 1 THEN 0 ELSE Rates[step - 1]
  /\ \E before \in 0..Len(sat), n \in 0..Len(Rates) :
       /\ before + n = Len(sat)
       /\ n = IF saturatedAt = 0 THEN step - 1 ELSE step
       /\ Ladder(Services[svc], before, n)
       /\ \A k \in 1..(step - 1) : ~sat[before + k].saturated
       /\ saturatedAt # 0 => sat[before + step].saturated

(* all_sat has rows of the services whose ladder is over, and of no other  *)
(* but the one under way.                                                  *)
SatIs ==
  /\ RowsAreALadder
  /\ phase \in Early => \A i \in 1..Len(Services) : RowsOf(Services[i]) # {} <=> i < svc
  /\ phase = "climb" =>
       /\ Climbing
       /\ \A i \in 1..Len(Services) :
            /\ i < svc => RowsOf(Services[i]) # {}
            /\ i > svc => RowsOf(Services[i]) = {}
  /\ phase \in After => \A i \in 1..Len(Services) : RowsOf(Services[i]) # {}

ConsoleIs ==
  /\ ReportsAgree
  /\ phase \in Early \union {"climb"} => Len(console) = svc - 1

(* The files in the order they are written.                                *)
FirstFiles(k) == {Files[i] : i \in 1..k}

Tested ==
  /\ Len(bench) = 2 * Len(Services)
  /\ \A i \in 1..Len(Services) : RowsOf(Services[i]) # {}
  /\ probes = Range(Services)

(* The first k are whole, and the next may have been begun.                *)
FilesAt(k) ==
  /\ csv = FirstFiles(k)
  /\ opened = "none" \/ (k < 4 /\ opened = Files[k + 1])

(* Nothing is begun before the last row is there, no chart before the last *)
(* file is whole.                                                          *)
FilesAre ==
  /\ phase \in Early \union {"climb"} => probes = {}
  /\ phase = "probe" => probes = {Services[i] : i \in 1..(svc - 1)}
  /\ phase \in After \ {"probe"} => probes = Range(Services)
  /\ phase \in Early \union {"climb", "probe"} => csv = {} /\ opened = "none"
  /\ phase = "save" => \E k \in 0..3 : FilesAt(k)
  /\ phase \in After \ {"probe", "save"} => csv = FirstFiles(4) /\ opened = "none"
  /\ phase \in {"aborted", "exited"} => \E k \in 0..4 : FilesAt(k)
  /\ (csv # {} \/ opened # "none") /\ phase # "exited" => Tested

(* What can be drawn is, in the order of Pictures, and the charts of       *)
(* CloudWatch come last.                                                   *)
ImagesAre ==
  /\ images # {} => csv = FirstFiles(4)
  /\ phase = "draw" =>
       \A k \in 1..(step - 1) : Drawable(Pictures[k]) => Pictures[k] \in images
  /\ phase \in {"cloudwatch", "fetch", "done"} =>
       \A k \in 1..5 : Drawable(Pictures[k]) => Pictures[k] \in images
  /\ prefix = "hepta_" \/ chart["hepta_"][1].call > 0 =>
       csv = FirstFiles(4) /\ {"curves", "max"} \subseteq images

RunInv == RunTyped /\ BenchIs /\ SatIs /\ ConsoleIs /\ FilesAre /\ ImagesAre

-----------------------------------------------------------------------------
(* The constants.                                                          *)

(* The services are named by their places in the list. *)
LEMMA ServicesAre ==
  /\ Len(Services) \in Nat \ {0} /\ DOMAIN Services = 1..Len(Services)
  /\ Range(Services) = {Services[i] : i \in 1..Len(Services)}
  /\ \A i, j \in 1..Len(Services) : Services[i] = Services[j] => i = j
<1>1. Services \in Seq(Range(Services)) /\ Len(Services) > 0 /\ IsInjective(Services)
  BY HeptathlonAssumption
<1>2. Len(Services) \in Nat /\ DOMAIN Services = 1..Len(Services)
  BY <1>1, LenProperties
<1>3. QED  BY <1>1, <1>2 DEF Range, IsInjective

(* The rates are positive numbers, at their places in the ladder. *)
LEMMA RatesAre ==
  /\ Len(Rates) \in Nat \ {0} /\ DOMAIN Rates = 1..Len(Rates)
  /\ \A k \in 1..Len(Rates) : Rates[k] \in Nat \ {0} /\ Rates[k] \in Range(Rates)
  /\ \A j, k \in 1..Len(Rates) : j < k => Rates[j] < Rates[k]
<1>1. Rates \in Seq(Nat \ {0}) /\ Len(Rates) > 0
  BY HeptathlonAssumption
<1>2. Len(Rates) \in Nat /\ DOMAIN Rates = 1..Len(Rates)
  BY <1>1, LenProperties
<1>3. \A k \in 1..Len(Rates) : Rates[k] \in Nat \ {0}
  BY <1>1, ElementOfSeq
<1>4. \A k \in 1..Len(Rates) : Rates[k] \in Range(Rates)
  BY <1>2 DEF Range
<1>5. \A j, k \in 1..Len(Rates) : j < k => Rates[j] < Rates[k]
  BY <1>2, HeptathlonAssumption
<1>6. Len(Rates) \in Nat \ {0}
  BY <1>1, <1>2
<1>7. QED  BY <1>2, <1>3, <1>4, <1>5, <1>6

(* The images of a test are those of its charts. *)
LEMMA PicturesAre ==
  /\ Len(Pictures) = 5 /\ DOMAIN Pictures = 1..5
  /\ Pictures[1] = "small" /\ Pictures[2] = "large" /\ Pictures[3] = "curves"
  /\ Pictures[4] = "max" /\ Pictures[5] = "probe"
  /\ Range(Scenarios) = {"small", "large"} /\ Range(Pictures) = {Pictures[k] : k \in 1..5}
<1> DEFINE rest == <<"curves", "max", "probe">>
           Names == {"small", "large", "curves", "max", "probe"}
<1>1. /\ Len(Pictures) = 5 /\ DOMAIN Pictures = 1..5
      /\ Pictures[1] = "small" /\ Pictures[2] = "large" /\ Pictures[3] = "curves"
      /\ Pictures[4] = "max" /\ Pictures[5] = "probe"
  <2>1. /\ Scenarios \in Seq(Names) /\ Len(Scenarios) = 2
        /\ Scenarios[1] = "small" /\ Scenarios[2] = "large"
    BY DEF Scenarios
  <2>2. /\ rest \in Seq(Names) /\ Len(rest) = 3
        /\ rest[1] = "curves" /\ rest[2] = "max" /\ rest[3] = "probe"
    OBVIOUS
  <2>3. Pictures = Scenarios \o rest
    BY DEF Pictures
  <2> HIDE DEF rest, Names
  <2>4. /\ Scenarios \o rest \in Seq(Names)
        /\ Len(Scenarios \o rest) = Len(Scenarios) + Len(rest)
        /\ \A k \in 1..(Len(Scenarios) + Len(rest)) :
             (Scenarios \o rest)[k] = IF k <= Len(Scenarios) THEN Scenarios[k]
                                      ELSE rest[k - Len(Scenarios)]
    BY <2>1, <2>2, ConcatProperties
  <2> DEFINE both == Scenarios \o rest
  <2>5. both \in Seq(Names) /\ Len(both) = 5
    BY <2>1, <2>2, <2>4
  <2>6. \A k \in 1..5 : both[k] = IF k <= 2 THEN Scenarios[k] ELSE rest[k - 2]
    BY <2>1, <2>2, <2>4
  <2> HIDE DEF both
  <2>7. DOMAIN both = 1..5
    BY <2>5, LenProperties
  <2>8. QED  BY <2>1, <2>2, <2>3, <2>5, <2>6, <2>7 DEF both
<1>2. Range(Scenarios) = {"small", "large"}
  <2>1. DOMAIN Scenarios = {1, 2} /\ Scenarios[1] = "small" /\ Scenarios[2] = "large"
    BY DEF Scenarios
  <2>2. QED  BY <2>1 DEF Range
<1>3. QED  BY <1>1, <1>2 DEF Range

(* Each file is one more.                                                  *)
LEMMA FilesCount ==
  /\ FirstFiles(0) = {} /\ FirstFiles(4) = Range(Files) /\ Len(Files) = 4
  /\ \A k \in 0..4 : Cardinality(FirstFiles(k)) = k
  /\ \A k \in 0..3 : /\ FirstFiles(k) \union {Files[k + 1]} = FirstFiles(k + 1)
                     /\ FirstFiles(k + 1) # {}
<1>1. /\ Len(Files) = 4 /\ DOMAIN Files = 1..4
      /\ Files[1] = "benchmark" /\ Files[2] = "saturation" /\ Files[3] = "probe"
      /\ Files[4] = "window"
  BY DEF Files
<1>2. /\ FirstFiles(0) = {}
      /\ FirstFiles(1) = FirstFiles(0) \union {Files[1]}
      /\ FirstFiles(2) = FirstFiles(1) \union {Files[2]}
      /\ FirstFiles(3) = FirstFiles(2) \union {Files[3]}
      /\ FirstFiles(4) = FirstFiles(3) \union {Files[4]}
  BY DEF FirstFiles
<1>3. /\ Files[1] \notin FirstFiles(0) /\ Files[2] \notin FirstFiles(1)
      /\ Files[3] \notin FirstFiles(2) /\ Files[4] \notin FirstFiles(3)
  BY <1>1, <1>2
<1>4. IsFiniteSet(FirstFiles(0)) /\ Cardinality(FirstFiles(0)) = 0
  BY <1>2, FS_EmptySet
<1>5. IsFiniteSet(FirstFiles(1)) /\ Cardinality(FirstFiles(1)) = 1
  BY <1>2, <1>3, <1>4, FS_AddElement
<1>6. IsFiniteSet(FirstFiles(2)) /\ Cardinality(FirstFiles(2)) = 2
  BY <1>2, <1>3, <1>5, FS_AddElement
<1>7. IsFiniteSet(FirstFiles(3)) /\ Cardinality(FirstFiles(3)) = 3
  BY <1>2, <1>3, <1>6, FS_AddElement
<1>8. IsFiniteSet(FirstFiles(4)) /\ Cardinality(FirstFiles(4)) = 4
  <2> DEFINE three == FirstFiles(3)
  <2>1. IsFiniteSet(three) /\ Cardinality(three) = 3 /\ Files[4] \notin three
    BY <1>3, <1>7
  <2> HIDE DEF three
  <2>2. IsFiniteSet(three \union {Files[4]}) /\ Cardinality(three \union {Files[4]}) = 4
    BY <2>1, FS_AddElement
  <2>3. QED  BY <1>2, <2>2 DEF three
<1>9. FirstFiles(4) = Range(Files)
  BY <1>1 DEF FirstFiles, Range
<1>10. QED
  BY <1>1, <1>2, <1>4, <1>5, <1>6, <1>7, <1>8, <1>9

-----------------------------------------------------------------------------
(* The rows of a service.                                                  *)

(* What is computed from the rows changes only with them.                  *)
LEMMA RowsUnchanged ==
  ASSUME UNCHANGED sat
  PROVE  /\ \A S : RowsOf(S)' = RowsOf(S) /\ MaxRate(S)' = MaxRate(S)
         /\ \A S, before, n : Ladder(S, before, n)' = Ladder(S, before, n)
         /\ RowsAreALadder' = RowsAreALadder
BY DEF RowsOf, OkRates, MaxRate, Ladder, RowsAreALadder

(* A row more is a row of its service and of no other.                     *)
LEMMA RowAdded ==
  ASSUME sat \in Seq(SatRows), NEW row \in SatRows, sat' = Append(sat, row)
  PROVE  /\ Len(sat) \in Nat /\ sat' \in Seq(SatRows) /\ Len(sat') = Len(sat) + 1
         /\ \A k \in 1..Len(sat) : sat'[k] = sat[k]
         /\ sat'[Len(sat) + 1] = row
         /\ \A S : RowsOf(S) \subseteq 1..Len(sat)
         /\ \A S : RowsOf(S)' = IF row.service = S THEN RowsOf(S) \union {Len(sat) + 1}
                                ELSE RowsOf(S)
<1>1. /\ Len(sat) \in Nat /\ sat' \in Seq(SatRows) /\ Len(sat') = Len(sat) + 1
      /\ \A k \in 1..Len(sat) : sat'[k] = sat[k]
      /\ sat'[Len(sat) + 1] = row
  BY AppendProperties, LenProperties
<1>2. DOMAIN sat = 1..Len(sat) /\ DOMAIN sat' = 1..(Len(sat) + 1)
  BY <1>1, LenProperties
<1>3. DOMAIN sat' = DOMAIN sat \union {Len(sat) + 1}
  BY <1>1, <1>2
<1>4. \A S : RowsOf(S)' = {i \in DOMAIN sat' : sat'[i].service = S}
  BY DEF RowsOf
<1>5. \A S : RowsOf(S) = {i \in DOMAIN sat : sat[i].service = S}
  BY DEF RowsOf
<1>6. ASSUME NEW S
      PROVE  RowsOf(S)' = IF row.service = S THEN RowsOf(S) \union {Len(sat) + 1}
                          ELSE RowsOf(S)
  BY <1>1, <1>2, <1>3, <1>4, <1>5
<1>7. QED  BY <1>1, <1>2, <1>5, <1>6

(* The rows of the other services stay what they are.                      *)
LEMMA OthersUnchanged ==
  ASSUME sat \in Seq(SatRows), NEW row \in SatRows, sat' = Append(sat, row),
         NEW S, row.service # S
  PROVE  /\ RowsOf(S)' = RowsOf(S) /\ MaxRate(S)' = MaxRate(S)
         /\ \A before \in Nat, n \in Nat : Ladder(S, before, n) => Ladder(S, before, n)'
<1>1. RowsOf(S)' = RowsOf(S) /\ \A i \in RowsOf(S) : sat'[i] = sat[i]
  BY RowAdded
<1>2. OkRates(S)' = OkRates(S)
  BY <1>1 DEF OkRates
<1>3. ASSUME NEW before \in Nat, NEW n \in Nat, Ladder(S, before, n)
      PROVE  Ladder(S, before, n)'
  <2>1. RowsOf(S) = (before + 1)..(before + n)
    BY <1>3 DEF Ladder
  <2>2. \A k \in 1..n : before + k \in RowsOf(S)
    BY <2>1
  <2>3. QED  BY <1>1, <1>3, <2>1, <2>2 DEF Ladder
<1>4. QED  BY <1>1, <1>2, <1>3 DEF MaxRate

(* The highest rate that was sustained is the last of those that were.     *)
LEMMA MaxRateIs ==
  ASSUME NEW S, NEW before \in Nat, NEW n \in 0..Len(Rates), Ladder(S, before, n),
         NEW m \in 0..n, \A k \in 1..m : ~sat[before + k].saturated,
         n # m => n = m + 1 /\ sat[before + n].saturated
  PROVE  MaxRate(S) = IF m = 0 THEN 0 ELSE Rates[m]
<1>1. RowsOf(S) = (before + 1)..(before + n) /\ n \in Nat /\ m \in Nat /\ m <= Len(Rates)
  BY RatesAre DEF Ladder
<1>2. \A k \in 1..n : sat[before + k].rate = Rates[k]
  BY DEF Ladder
<1>3. OkRates(S) = {Rates[k] : k \in 1..m}
  <2>1. ASSUME NEW x \in OkRates(S) PROVE x \in {Rates[k] : k \in 1..m}
    <3>1. PICK i \in RowsOf(S) : ~sat[i].saturated /\ x = sat[i].rate
      BY DEF OkRates
    <3>2. i - before \in 1..n /\ i = before + (i - before)
      BY <1>1, <3>1
    <3>3. i - before # n \/ n = m
      BY <3>1, <3>2
    <3>4. i - before \in 1..m
      BY <1>1, <3>2, <3>3
    <3>5. QED  BY <1>2, <3>1, <3>2, <3>4
  <2>2. ASSUME NEW k \in 1..m PROVE Rates[k] \in OkRates(S)
    <3>1. before + k \in RowsOf(S) /\ k \in 1..n
      BY <1>1
    <3>2. QED  BY <1>2, <3>1 DEF OkRates
  <2>3. QED  BY <2>1, <2>2
<1> DEFINE T == {Rates[k] : k \in 1..m} \union {0}
           top == IF m = 0 THEN 0 ELSE Rates[m]
<1>4. top \in T /\ \A y \in T : top >= y /\ y \in Nat
  <2>1. \A k \in 1..m : Rates[k] \in Nat /\ Rates[k] > 0 /\ (k = m \/ Rates[k] < Rates[m])
    BY <1>1, RatesAre
  <2>2. CASE m = 0
    BY <2>2
  <2>3. CASE m # 0
    BY <1>1, <2>1, <2>3
  <2>4. QED  BY <2>2, <2>3
<1> HIDE DEF T, top
<1>5. \A x \in T : (\A y \in T : x >= y) => x = top
  <2> SUFFICES ASSUME NEW x \in T, \A y \in T : x >= y PROVE x = top
    OBVIOUS
  <2>1. x \in Nat /\ top \in Nat /\ x >= top /\ top >= x
    BY <1>4
  <2>2. QED  BY <2>1
<1>6. Max(T) = top
  BY <1>4, <1>5 DEF Max
<1>7. QED  BY <1>3, <1>6 DEF MaxRate, T, top

-----------------------------------------------------------------------------
(* The steps of a test and what they record.                               *)

(* Before the test begins its invariant holds. *)
LEMMA RunInitially ==
  Init => RunInv
<1> SUFFICES ASSUME Init PROVE RunInv
  OBVIOUS
<1> USE ServicesAre DEF Init
<1>1. /\ phase = "start" /\ svc = 1 /\ scenario = 1 /\ step = 1 /\ loaded = Idle
      /\ bench = <<>> /\ sat = <<>> /\ lastOkRate = 0 /\ saturatedAt = 0 /\ console = <<>>
      /\ probes = {} /\ timed = {} /\ csv = {} /\ opened = "none" /\ images = {}
  OBVIOUS
<1>2. RunTyped
  BY <1>1, RatesAre DEF RunTyped, Early
<1>3. BenchIs
  BY <1>1 DEF BenchIs, Early, After
<1>4. \A S : RowsOf(S) = {}
  BY <1>1 DEF RowsOf
<1>5. SatIs
  <2>1. \A S : Ladder(S, 0, 0)
    BY <1>4 DEF Ladder
  <2>2. RowsAreALadder
    <3>1. 0 \in 0..Len(sat) /\ 0 \in 0..Len(Rates)
      BY <1>1, RatesAre
    <3>2. QED  BY <2>1, <3>1 DEF RowsAreALadder
  <2>3. QED  BY <1>1, <1>4, <2>2 DEF SatIs, Early, After
<1>6. ConsoleIs
  BY <1>1 DEF ConsoleIs, ReportsAgree, Early
<1>7. FilesAre
  BY <1>1, FilesCount DEF FilesAre, FilesAt, Early, After
<1>8. ImagesAre
  <2>1. "hepta_" \in Plots!Prefixes /\ 1 \in DOMAIN Plots!Charts /\ "hepta_" # ""
    BY ChartNumbers DEF Plots!Prefixes
  <2>2. /\ prefix = ""
        /\ chart = [p \in Plots!Prefixes |-> [k \in DOMAIN Plots!Charts |-> Plots!Before]]
    BY DEF Plots!Init
  <2>3. chart["hepta_"][1].call = 0
    BY <2>1, <2>2 DEF Plots!Before
  <2> HIDE DEF Init
  <2>4. prefix # "hepta_"
    BY <2>1, <2>2, Zenon
  <2>5. ~(chart["hepta_"][1].call > 0)
    BY <2>3
  <2>6. QED  BY <1>1, <2>4, <2>5 DEF ImagesAre
<1>9. QED  BY <1>2, <1>3, <1>5, <1>6, <1>7, <1>8 DEF RunInv

(* Where a test has no file and no chart, and writes none.                 *)
LEMMA NoFiles ==
  ASSUME RunInv, phase \in Early \union {"climb"}, UNCHANGED <<output, plots>>,
         phase' \in Early \union {"climb", "probe", "aborted"}, phase' = "probe" => svc' = 1
  PROVE  FilesAre' /\ ImagesAre'
<1>1. /\ probes = {} /\ csv = {} /\ opened = "none" /\ images = {}
      /\ FirstFiles(4) # {}
  BY FilesCount DEF RunInv, FilesAre, ImagesAre
<1>2. UNCHANGED <<probes, csv, opened, images, prefix, chart>>
  BY DEF output, files, plots
<1>3. FilesAre'
  <2>1. csv' = FirstFiles(0)
    BY <1>1, <1>2, FilesCount
  <2>2. {Services'[i] : i \in 1..(svc' - 1)} = {} \/ phase' # "probe"
    OBVIOUS
  <2>3. QED
    BY <1>1, <1>2, <2>1, <2>2 DEF FilesAre, FilesAt, Early, After
<1>4. ImagesAre'
  BY <1>1, <1>2 DEF RunInv, ImagesAre, Early
<1>5. QED  BY <1>3, <1>4

(* The steps up to a measurement record nothing.                           *)
LEMMA QuietStep ==
  ASSUME RunInv,
         Start \/ NoWrk2 \/ CallPreWarmUp \/ PreWarmUp \/ WarmUp \/ Cooldown,
         UNCHANGED plots
  PROVE  RunInv'
<1>1. /\ phase \in Early /\ phase' \in Early \union {"aborted"}
      /\ UNCHANGED <<svc, scenario, bench, sat, climb, output>>
  BY DEF Start, NoWrk2, CallPreWarmUp, PreWarmUp, WarmUp, Cooldown, Early
<1>2. step' \in 1..(Len(Rates) + 1) \union 1..Ramp \union 1..5
  <2>1. CASE WarmUp
    <3>1. step \in Nat \ {0} /\ Ramp \in Nat
      BY RatesAre, HeptathlonAssumption DEF RunInv, RunTyped
    <3>2. QED  BY <2>1, <3>1, RatesAre DEF WarmUp
  <2>2. CASE ~WarmUp
    <3>1. step' = step \/ step' = 1
      BY <2>2 DEF Start, NoWrk2, CallPreWarmUp, PreWarmUp, Cooldown
    <3>2. QED  BY <3>1, RatesAre DEF RunInv, RunTyped
  <2>3. QED  BY <2>1, <2>2
<1>3. loaded' \in (Range(Services) \X Range(Scenarios)) \union {Idle}
  <2>1. Services[svc] \in Range(Services) /\ Scenarios[scenario] \in Range(Scenarios)
    BY ServicesAre, PicturesAre DEF RunInv, RunTyped, Scenarios
  <2>2. loaded' \in {loaded, Idle, <<Services[svc], Scenarios[scenario]>>}
    BY DEF Start, NoWrk2, CallPreWarmUp, PreWarmUp, WarmUp, Cooldown, Load
  <2>3. QED  BY <2>1, <2>2 DEF RunInv, RunTyped
<1>4. RunTyped'
  BY <1>1, <1>2, <1>3 DEF RunInv, RunTyped, climb, output, files, Early
<1>5. BenchIs'
  BY <1>1 DEF RunInv, BenchIs, Early, After
<1>6. SatIs'
  BY <1>1, RowsUnchanged DEF RunInv, SatIs, Early, After
<1>7. ConsoleIs'
  BY <1>1, RowsUnchanged DEF RunInv, ConsoleIs, ReportsAgree, climb, Early
<1>8. FilesAre' /\ ImagesAre'
  BY <1>1, NoFiles DEF Early
<1>9. QED  BY <1>4, <1>5, <1>6, <1>7, <1>8 DEF RunInv

(* A measurement adds the row that was due.                                *)
LEMMA MeasureStep ==
  ASSUME RunInv, NEW outcome \in Outcomes, Measure(outcome), UNCHANGED plots
  PROVE  RunInv'
<1> DEFINE row == [service |-> Services[svc], scenario |-> Scenarios[scenario],
                   p99 |-> parse_wrk2(outcome).p99 # "none"]
<1>1. /\ phase = "measure" /\ bench' = Append(bench, row)
      /\ loaded' = <<Services[svc], Scenarios[scenario]>>
      /\ \/ scenario = 1 /\ scenario' = 2 /\ phase' = "pre-warm-up"
         \/ scenario = 2 /\ scenario' = 1 /\ phase' = "climb"
      /\ step' = 1 /\ lastOkRate' = 0 /\ saturatedAt' = 0
      /\ UNCHANGED <<svc, sat, console, output>>
  BY ScenariosAre DEF Measure, Load, RunInv, RunTyped
<1>2. svc \in 1..Len(Services) /\ scenario \in 1..2 /\ Len(Services) \in Nat
  BY ServicesAre DEF RunInv, RunTyped
<1>3. /\ Services[svc] \in Range(Services) /\ Scenarios[scenario] \in Range(Scenarios)
      /\ row \in BenchRows /\ row.service = Services[svc]
      /\ row.scenario = Scenarios[scenario]
  <2>1. Services[svc] \in Range(Services) /\ Scenarios[scenario] \in Range(Scenarios)
    BY <1>2, ServicesAre, PicturesAre DEF Scenarios
  <2>2. QED  BY <2>1 DEF BenchRows
<1> HIDE DEF row
<1>4. /\ Len(bench) \in Nat /\ bench' \in Seq(BenchRows) /\ Len(bench') = Len(bench) + 1
      /\ bench'[Len(bench) + 1] = row /\ \A k \in 1..Len(bench) : bench'[k] = bench[k]
  <2>1. bench \in Seq(BenchRows)
    BY DEF RunInv, RunTyped
  <2>2. QED  BY <1>1, <1>3, <2>1, AppendProperties, LenProperties
<1>5. RunTyped'
  BY <1>1, <1>3, <1>4, RatesAre DEF RunInv, RunTyped, output, files, Early
<1>6. BenchIs'
  <2>1. Len(bench) = 2 * (svc - 1) + (scenario - 1)
    BY <1>1 DEF RunInv, BenchIs, Early
  <2>2. ASSUME NEW i \in 1..Len(Services), NEW k \in 1..2, 2 * (i - 1) + k <= Len(bench')
        PROVE  /\ bench'[2 * (i - 1) + k].service = Services[i]
               /\ bench'[2 * (i - 1) + k].scenario = Scenarios[k]
    <3>1. CASE 2 * (i - 1) + k <= Len(bench)
      <4>1. 2 * (i - 1) + k \in 1..Len(bench)
        BY <1>2, <1>4, <3>1
      <4>2. bench'[2 * (i - 1) + k] = bench[2 * (i - 1) + k]
        BY <1>4, <4>1
      <4>3. BenchIs
        BY DEF RunInv
      <4>4. QED  BY <3>1, <4>2, <4>3 DEF BenchIs
    <3>2. CASE 2 * (i - 1) + k = Len(bench) + 1
      <4>1. i = svc /\ k = scenario
        BY <1>2, <2>1, <3>2
      <4>2. QED  BY <4>1, <3>2, <1>3, <1>4
    <3>3. QED  BY <2>2, <3>1, <3>2, <1>2, <1>4
  <2>3. /\ scenario = 1 => Len(bench') = 2 * (svc - 1) + (2 - 1)
        /\ scenario = 2 => Len(bench') = 2 * svc
    BY <1>2, <1>4, <2>1
  <2>4. QED  BY <1>1, <2>2, <2>3 DEF BenchIs, Early, After
<1>7. SatIs'
  <2>1. \A i \in 1..Len(Services) : RowsOf(Services[i]) # {} <=> i < svc
    BY <1>1 DEF RunInv, SatIs, Early
  <2>2. CASE phase' = "climb"
    <3>0. sat \in Seq(SatRows) /\ Len(sat) \in Nat /\ ~(svc < svc)
      BY <1>2, LenProperties DEF RunInv, RunTyped
    <3>1. RowsOf(Services[svc]) = {} /\ sat \in Seq(SatRows) /\ Len(sat) \in Nat
      BY <1>2, <2>1, <3>0
    <3>2. Ladder(Services[svc], Len(sat), 0)
      BY <3>1 DEF Ladder
    <3>3. Ladder(Services[svc], Len(sat), 0)'
      BY <1>1, <3>2, RowsUnchanged
    <3>4. Climbing'
      <4>1. step' \in 1..(Len(Rates) + 1)
        BY <1>1, RatesAre
      <4>2. Len(sat) \in 0..Len(sat) /\ 0 \in 0..Len(Rates) /\ Len(sat) + 0 = Len(sat)
        BY <3>1, RatesAre
      <4>3. sat' = sat /\ step' - 1 = 0 /\ saturatedAt' = 0 /\ lastOkRate' = 0
        BY <1>1
      <4>4. \A k \in 1..(step' - 1) : FALSE
        BY <4>3
      <4>5. QED  BY <1>1, <3>3, <4>1, <4>2, <4>3, <4>4 DEF Climbing
    <3>5. /\ \A i \in 1..Len(Services) : i < svc => RowsOf(Services[i]) # {}
          /\ \A i \in 1..Len(Services) : i > svc => RowsOf(Services[i]) = {}
      <4>1. \A i \in 1..Len(Services) : i > svc => ~(i < svc)
        BY <1>2
      <4>2. QED  BY <2>1, <4>1
    <3>6. QED  BY <1>1, <2>2, <3>4, <3>5, RowsUnchanged DEF RunInv, SatIs, Early, After
  <2>3. CASE phase' = "pre-warm-up"
    BY <1>1, <2>1, <2>3, RowsUnchanged DEF RunInv, SatIs, Early, After
  <2>4. QED  BY <1>1, <2>2, <2>3
<1>8. ConsoleIs'
  BY <1>1, RowsUnchanged DEF RunInv, ConsoleIs, ReportsAgree, Early
<1>9. FilesAre' /\ ImagesAre'
  BY <1>1, NoFiles DEF Early
<1>10. QED  BY <1>5, <1>6, <1>7, <1>8, <1>9 DEF RunInv

(* A step of the ladder adds its rate to the rows, whatever wrk2 said.     *)
LEMMA ClimbStep ==
  ASSUME RunInv, NEW outcome \in Outcomes, Climb(outcome), UNCHANGED plots
  PROVE  RunInv'
<1> DEFINE high == Saturated(parse_wrk2(outcome))
           row == Row(high)
<1> PICK S : S = Services[svc]
  OBVIOUS
<1>1. /\ phase = "climb" /\ phase' = "climb" /\ saturatedAt = 0 /\ step <= Len(Rates)
      /\ loaded' = <<Services[svc], "large">> /\ sat' = Append(sat, row)
      /\ UNCHANGED <<svc, scenario, bench, console, output>>
      /\ \/ high /\ saturatedAt' = Rates[step] /\ lastOkRate' = lastOkRate /\ step' = step
         \/ ~high /\ saturatedAt' = 0 /\ lastOkRate' = Rates[step] /\ step' = step + 1
  BY DEF Climb, Judge
<1>2. high \in BOOLEAN
  BY DEF Saturated
<1>3. /\ svc \in 1..Len(Services) /\ S \in Range(Services)
      /\ step \in 1..Len(Rates) /\ step \in Nat /\ Len(Rates) \in Nat
      /\ Rates[step] \in Range(Rates) /\ Rates[step] \in Nat \ {0}
      /\ sat \in Seq(SatRows)
  <2>1. step \in 1..(Len(Rates) + 1) /\ svc \in 1..Len(Services) /\ sat \in Seq(SatRows)
    BY <1>1 DEF RunInv, RunTyped, SatIs, Climbing
  <2>2. QED  BY <1>1, <2>1, ServicesAre, RatesAre
<1>4. /\ row \in SatRows /\ row.service = S /\ row.rate = Rates[step]
      /\ row.saturated = high
  BY <1>2, <1>3 DEF Row, SatRows
<1> HIDE DEF row, high
<1>5. /\ Len(sat) \in Nat /\ sat' \in Seq(SatRows) /\ Len(sat') = Len(sat) + 1
      /\ \A k \in 1..Len(sat) : sat'[k] = sat[k]
      /\ sat'[Len(sat) + 1] = row
  BY <1>1, <1>3, <1>4, RowAdded
<1>6. \A T : RowsOf(T)' = IF S = T THEN RowsOf(T) \union {Len(sat) + 1} ELSE RowsOf(T)
  BY <1>1, <1>3, <1>4, RowAdded
<1>7. PICK before \in 0..Len(sat), n \in 0..Len(Rates) :
        /\ before + n = Len(sat) /\ n = step - 1
        /\ Ladder(S, before, n)
        /\ \A k \in 1..(step - 1) : ~sat[before + k].saturated
  BY <1>1 DEF RunInv, SatIs, Climbing
<1>8. /\ before \in Nat /\ n \in Nat /\ step = n + 1 /\ Len(sat) + 1 = before + step
      /\ before \in 0..Len(sat') /\ step \in 0..Len(Rates)
  BY <1>3, <1>5, <1>7
<1>9. /\ \A k \in 1..n : sat'[before + k] = sat[before + k]
      /\ sat'[before + step] = row
  <2>1. \A k \in 1..n : before + k \in 1..Len(sat)
    BY <1>5, <1>7, <1>8
  <2>2. QED  BY <1>5, <1>8, <2>1
<1>10. /\ \A k \in 1..step : sat'[before + k].rate = Rates[k]
       /\ \A k \in 1..n : ~sat'[before + k].saturated
       /\ \A k \in 1..step : sat'[before + k].saturated => k = step
  <2>1. \A k \in 1..step : k \in 1..n \/ k = step
    BY <1>8
  <2>2. \A k \in 1..n : sat[before + k].rate = Rates[k] /\ ~sat[before + k].saturated
    BY <1>7, <1>8 DEF Ladder
  <2>3. QED  BY <1>4, <1>9, <2>1, <2>2
<1>11. RowsOf(S)' = (before + 1)..(before + step)
  <2>1. RowsOf(S) = (before + 1)..(before + n)
    BY <1>7 DEF Ladder
  <2>2. (before + 1)..(before + n) \union {before + step} = (before + 1)..(before + step)
    BY <1>8
  <2>3. QED  BY <1>1, <1>6, <1>8, <2>1, <2>2
<1>12. Ladder(S, before, n + 1)'
  BY <1>1, <1>8, <1>10, <1>11 DEF Ladder
<1>13. \A T : T # S => /\ RowsOf(T)' = RowsOf(T) /\ MaxRate(T)' = MaxRate(T)
                       /\ \A b \in Nat, m \in Nat : Ladder(T, b, m) => Ladder(T, b, m)'
  BY <1>1, <1>3, <1>4, OthersUnchanged
<1>14. RunTyped'
  <2>1. loaded' \in (Range(Services) \X Range(Scenarios)) \union {Idle}
    BY <1>1, <1>3, PicturesAre
  <2>2. step' \in 1..(Len(Rates) + 1)
    BY <1>1, <1>3
  <2>3. saturatedAt' \in Range(Rates) \union {0} /\ lastOkRate' \in Range(Rates) \union {0}
    BY <1>1, <1>3 DEF RunInv, RunTyped
  <2>4. QED  BY <1>1, <1>5, <2>1, <2>2, <2>3 DEF RunInv, RunTyped, output, files
<1>15. BenchIs'
  BY <1>1 DEF RunInv, BenchIs, Early, After
<1>16. Climbing'
  <2>1. /\ step' \in 1..(Len(Rates) + 1)
        /\ saturatedAt' # 0 => step' <= Len(Rates)
    BY <1>1, <1>3
  <2>2. lastOkRate' = IF step' = 1 THEN 0 ELSE Rates[step' - 1]
    <3>1. lastOkRate = IF step = 1 THEN 0 ELSE Rates[step - 1]
      BY <1>1 DEF RunInv, SatIs, Climbing
    <3>2. CASE high
      BY <1>1, <3>1, <3>2
    <3>3. CASE ~high
      <4>1. lastOkRate' = Rates[step] /\ step' = step + 1
        BY <1>1, <3>3
      <4>2. step' # 1 /\ step' - 1 = step
        BY <1>3, <4>1
      <4>3. QED  BY <4>1, <4>2
    <3>4. QED  BY <3>2, <3>3
  <2>3. step = IF saturatedAt' = 0 THEN step' - 1 ELSE step'
    BY <1>1, <1>3
  <2>4. \A k \in 1..(step' - 1) : ~sat'[before + k].saturated
    <3>1. CASE high
      <4>1. step' - 1 = n
        BY <1>1, <1>8, <3>1
      <4>2. QED  BY <1>10, <4>1
    <3>2. CASE ~high
      <4>1. step' - 1 = n + 1 /\ ~sat'[before + (n + 1)].saturated
        BY <1>1, <1>3, <1>4, <1>8, <1>9, <3>2
      <4>2. \A k \in 1..(n + 1) : k \in 1..n \/ k = n + 1
        BY <1>8
      <4>3. \A k \in 1..(n + 1) : ~sat'[before + k].saturated
        BY <1>10, <4>1, <4>2
      <4>4. QED  BY <4>1, <4>3
    <3>3. QED  BY <3>1, <3>2
  <2>5. saturatedAt' # 0 => sat'[before + step'].saturated
    BY <1>1, <1>4, <1>9
  <2>6. before + step = Len(sat')
    BY <1>5, <1>8
  <2>7. Ladder(Services[svc], before, n + 1)'
    BY <1>1, <1>12 DEF Ladder, RowsOf
  <2>8. n + 1 = step /\ n + 1 \in 0..Len(Rates)
    BY <1>8
  <2>9. QED  BY <1>8, <2>1, <2>2, <2>3, <2>4, <2>5, <2>6, <2>7, <2>8 DEF Climbing
<1>17. RowsAreALadder'
  <2> SUFFICES ASSUME NEW T \in Range(Services)
               PROVE  \E b \in 0..Len(sat'), m \in 0..Len(Rates) : Ladder(T, b, m)'
    BY DEF RowsAreALadder
  <2>1. CASE T = S
    <3>1. n + 1 \in 0..Len(Rates)
      BY <1>8
    <3>2. QED  BY <2>1, <3>1, <1>8, <1>12
  <2>2. CASE T # S
    <3>1. PICK b \in 0..Len(sat), m \in 0..Len(Rates) : Ladder(T, b, m)
      BY DEF RunInv, SatIs, RowsAreALadder
    <3>2. b \in Nat /\ m \in Nat /\ b \in 0..Len(sat')
      BY <1>5
    <3>3. QED  BY <2>2, <1>13, <3>1, <3>2
  <2>3. QED  BY <2>1, <2>2
<1>18. SatIs'
  <2>1. ASSUME NEW i \in 1..Len(Services)
        PROVE  /\ i < svc => RowsOf(Services[i])' # {}
               /\ i > svc => RowsOf(Services[i])' = {}
    <3>1. i # svc => Services[i] # S
      BY <1>3, ServicesAre
    <3>2. i < svc \/ i > svc => i # svc
      BY <1>3, ServicesAre
    <3>3. QED  BY <1>1, <1>13, <3>1, <3>2 DEF RunInv, SatIs
  <2>2. QED  BY <1>1, <1>16, <1>17, <2>1 DEF SatIs, Early, After
<1>19. ConsoleIs'
  <2>1. Len(console) = svc - 1 /\ DOMAIN console = 1..(svc - 1)
    BY <1>1, LenProperties DEF RunInv, ConsoleIs, RunTyped
  <2>2. \A i \in DOMAIN console : i \in 1..Len(Services) /\ Services[i] # S
    BY <1>3, <2>1, ServicesAre
  <2>3. \A i \in DOMAIN console : console[i] = MaxRate(Services[i])'
    BY <1>13, <2>2 DEF RunInv, ConsoleIs, ReportsAgree
  <2>4. QED  BY <1>1, <2>1, <2>3 DEF ConsoleIs, ReportsAgree
<1>20. FilesAre' /\ ImagesAre'
  BY <1>1, NoFiles
<1>21. QED  BY <1>14, <1>15, <1>18, <1>19, <1>20 DEF RunInv

(* At the end of a ladder the console gets what the rows amount to.        *)
LEMMA NextServiceStep ==
  ASSUME RunInv, NextService, UNCHANGED plots
  PROVE  RunInv'
<1> PICK S : S = Services[svc]
  OBVIOUS
<1>1. /\ phase = "climb"
      /\ saturatedAt # 0 \/ step > Len(Rates)
      /\ console' = Append(console, Sustained) /\ step' = 1
      /\ \/ svc < Len(Services) /\ svc' = svc + 1 /\ phase' = "pre-warm-up"
         \/ ~(svc < Len(Services)) /\ svc' = 1 /\ phase' = "probe"
      /\ UNCHANGED <<scenario, loaded, bench, sat, lastOkRate, saturatedAt,
                     output>>
  BY DEF NextService
<1>2. /\ svc \in 1..Len(Services) /\ Len(Services) \in Nat \ {0}
      /\ step \in 1..(Len(Rates) + 1) /\ Len(Rates) \in Nat \ {0}
      /\ saturatedAt # 0 => step <= Len(Rates)
  BY <1>1, ServicesAre, RatesAre DEF RunInv, RunTyped, SatIs, Climbing
<1>3. PICK before \in 0..Len(sat), n \in 0..Len(Rates) :
        /\ before + n = Len(sat)
        /\ n = IF saturatedAt = 0 THEN step - 1 ELSE step
        /\ Ladder(S, before, n)
        /\ \A k \in 1..(step - 1) : ~sat[before + k].saturated
        /\ saturatedAt # 0 => sat[before + step].saturated
  BY <1>1 DEF RunInv, SatIs, Climbing
<1>4. before \in Nat /\ n \in Nat /\ n > 0
  BY <1>1, <1>2, <1>3
<1>5. Sustained = IF step - 1 = 0 THEN 0 ELSE Rates[step - 1]
  <2>1. lastOkRate = IF step = 1 THEN 0 ELSE Rates[step - 1]
    BY <1>1 DEF RunInv, SatIs, Climbing
  <2>2. saturatedAt = 0 => step - 1 = Len(Rates)
    BY <1>1, <1>2
  <2>3. QED  BY <1>2, <2>1, <2>2 DEF Sustained, Last
<1>6. MaxRate(S) = Sustained
  <2> PICK m : m = step - 1
    OBVIOUS
  <2>1. m \in 0..n /\ (n # m => n = m + 1 /\ saturatedAt # 0 /\ n = step)
    BY <1>2, <1>3
  <2>2. \A k \in 1..m : ~sat[before + k].saturated
    BY <1>3
  <2>3. n # m => n = m + 1 /\ sat[before + n].saturated
    BY <1>3, <2>1
  <2>4. MaxRate(S) = IF m = 0 THEN 0 ELSE Rates[m]
    <3>1. Ladder(S, before, n) /\ m \in 0..n /\ n \in 0..Len(Rates) /\ before \in Nat
      BY <1>3, <1>4, <2>1
    <3>2. QED  BY ONLY <2>2, <2>3, <3>1, MaxRateIs
  <2>5. QED  BY <1>5, <2>4
<1>7. Sustained \in Nat
  <2>1. step - 1 # 0 => step - 1 \in 1..Len(Rates)
    BY <1>2
  <2>2. QED  BY <1>5, <2>1, RatesAre
<1>8. /\ console' \in Seq(Nat) /\ Len(console) = svc - 1 /\ Len(console') = svc
      /\ DOMAIN console' = 1..svc /\ DOMAIN console = 1..(svc - 1)
      /\ console'[svc] = Sustained
      /\ \A i \in 1..(svc - 1) : console'[i] = console[i]
  <2>1. console \in Seq(Nat) /\ Len(console) = svc - 1
    BY <1>1 DEF RunInv, RunTyped, ConsoleIs
  <2>2. console' \in Seq(Nat) /\ Len(console') = Len(console) + 1
        /\ console'[Len(console) + 1] = Sustained
        /\ \A i \in 1..Len(console) : console'[i] = console[i]
    BY <1>1, <1>7, <2>1, AppendProperties
  <2>3. QED  BY <1>2, <2>1, <2>2, LenProperties
<1>9. RowsOf(S) # {}
  <2>1. before + 1 \in (before + 1)..(before + n)
    BY <1>4
  <2>2. QED  BY <1>3, <2>1 DEF Ladder
<1>10. RunTyped'
  <2>1. svc' \in 1..Len(Services)
    BY <1>1, <1>2
  <2>2. QED  BY <1>1, <1>2, <1>8, <2>1 DEF RunInv, RunTyped, output, files, Early, After
<1>11. BenchIs'
  <2>1. Len(bench) = 2 * svc /\ scenario = 1
    BY <1>1 DEF RunInv, BenchIs
  <2>2. phase' = "pre-warm-up" => Len(bench) = 2 * (svc' - 1) + (scenario - 1)
    BY <1>1, <1>2, <2>1
  <2>3. phase' = "probe" => Len(bench) = 2 * Len(Services)
    BY <1>1, <1>2, <2>1
  <2>4. QED  BY <1>1, <2>2, <2>3 DEF RunInv, BenchIs, Early, After
<1>12. SatIs'
  <2>1. \A i \in 1..Len(Services) : RowsOf(Services[i]) # {} <=> i <= svc
    <3> SUFFICES ASSUME NEW i \in 1..Len(Services)
                 PROVE  RowsOf(Services[i]) # {} <=> i <= svc
      OBVIOUS
    <3>1. i < svc \/ i = svc \/ i > svc
      BY <1>2
    <3>2. CASE i = svc
      BY <3>2, <1>2, <1>9
    <3>3. CASE i < svc
      BY <3>3, <1>1, <1>2 DEF RunInv, SatIs
    <3>4. CASE i > svc
      <4>1. RowsOf(Services[i]) = {}
        BY <3>4, <1>1 DEF RunInv, SatIs
      <4>2. ~(i <= svc)
        BY <3>4, <1>2
      <4>3. QED  BY <4>1, <4>2
    <3>5. QED  BY <3>1, <3>2, <3>3, <3>4
  <2>2. phase' = "pre-warm-up" =>
          \A i \in 1..Len(Services) : RowsOf(Services[i]) # {} <=> i < svc'
    <3>1. phase' = "pre-warm-up" => \A i \in 1..Len(Services) : i <= svc <=> i < svc'
      BY <1>1, <1>2
    <3>2. QED  BY <2>1, <3>1
  <2>3. phase' = "probe" => \A i \in 1..Len(Services) : RowsOf(Services[i]) # {}
    BY <1>1, <1>2, <2>1
  <2>4. QED
    BY <1>1, <2>2, <2>3, RowsUnchanged DEF RunInv, SatIs, Early, After
<1>13. ConsoleIs'
  <2>1. \A i \in 1..svc : console'[i] = MaxRate(Services[i])
    <3>1. \A i \in 1..svc : i \in 1..(svc - 1) \/ i = svc
      BY <1>2
    <3>2. \A i \in 1..(svc - 1) : console[i] = MaxRate(Services[i])
      BY <1>8 DEF RunInv, ConsoleIs, ReportsAgree
    <3>3. QED  BY <1>6, <1>8, <3>1, <3>2
  <2>2. ReportsAgree'
    BY <1>1, <1>8, <2>1, RowsUnchanged DEF ReportsAgree
  <2>3. phase' = "pre-warm-up" => Len(console') = svc' - 1
    BY <1>1, <1>2, <1>8
  <2>4. QED  BY <1>1, <2>2, <2>3 DEF ConsoleIs, Early
<1>14. FilesAre' /\ ImagesAre'
  BY <1>1, NoFiles DEF Early
<1>15. QED  BY <1>10, <1>11, <1>12, <1>13, <1>14 DEF RunInv

(* Each probe adds its service.                                            *)
LEMMA ProbeStep ==
  ASSUME RunInv, NEW header \in BOOLEAN, Probe(header), UNCHANGED plots
  PROVE  RunInv'
<1>1. /\ phase = "probe" /\ loaded' = <<Services[svc], "large">>
      /\ probes' = probes \union {Services[svc]}
      /\ timed' = timed \/ timed' = timed \union {Services[svc]}
      /\ \/ svc < Len(Services) /\ svc' = svc + 1 /\ phase' = "probe"
         \/ ~(svc < Len(Services)) /\ svc' = svc /\ phase' = "save"
      /\ UNCHANGED <<scenario, step, bench, sat, climb, csv, opened, images>>
  BY DEF Probe, files
<1>2. /\ svc \in 1..Len(Services) /\ Len(Services) \in Nat \ {0} /\ step = 1
      /\ Services[svc] \in Range(Services)
  BY <1>1, ServicesAre DEF RunInv, RunTyped
<1>3. probes = {Services[i] : i \in 1..(svc - 1)} /\ csv = {} /\ opened = "none"
  BY <1>1 DEF RunInv, FilesAre, Early
<1>4. probes' = {Services[i] : i \in 1..svc}
  <2>1. 1..svc = 1..(svc - 1) \union {svc}
    BY <1>2
  <2>2. QED  BY <1>1, <1>3, <2>1
<1>5. RunTyped'
  <2>1. svc' \in 1..Len(Services)
    BY <1>1, <1>2
  <2>2. loaded' \in (Range(Services) \X Range(Scenarios)) \union {Idle}
    BY <1>1, <1>2, PicturesAre
  <2>3. timed' \subseteq probes' /\ probes' \subseteq Range(Services)
    BY <1>1, <1>2 DEF RunInv, RunTyped
  <2>4. QED  BY <1>1, <1>2, <2>1, <2>2, <2>3 DEF RunInv, RunTyped, climb, After
<1>6. BenchIs'
  BY <1>1 DEF RunInv, BenchIs, Early, After
<1>7. SatIs'
  BY <1>1, RowsUnchanged DEF RunInv, SatIs, Early, After
<1>8. ConsoleIs'
  BY <1>1, RowsUnchanged DEF RunInv, ConsoleIs, ReportsAgree, climb, Early
<1>9. FilesAre'
  <2>1. CASE phase' = "probe"
    <3>1. svc' - 1 = svc
      BY <1>1, <1>2, <2>1
    <3>2. QED  BY <1>1, <1>3, <1>4, <2>1, <3>1 DEF FilesAre, Early, After
  <2>2. CASE phase' = "save"
    <3>1. svc = Len(Services)
      BY <1>1, <1>2, <2>2
    <3>2. probes' = Range(Services)
      BY <1>4, <3>1, ServicesAre
    <3>3. csv' = {} /\ csv' = FirstFiles(0) /\ 0 \in 0..3
      BY <1>1, <1>3, FilesCount
    <3>4. QED  BY <1>1, <1>3, <2>2, <3>2, <3>3 DEF FilesAre, FilesAt, Early, After
  <2>3. QED  BY <1>1, <2>1, <2>2
<1>10. ImagesAre'
  <2>1. images = {} /\ csv # FirstFiles(4)
    BY <1>3, FilesCount DEF RunInv, ImagesAre
  <2>2. UNCHANGED <<images, csv, prefix, chart>>
    BY <1>1 DEF plots
  <2>3. QED  BY <1>1, <2>1, <2>2 DEF RunInv, ImagesAre
<1>11. QED  BY <1>5, <1>6, <1>7, <1>8, <1>9, <1>10 DEF RunInv

(* Whatever the test is at, some of the first files are whole.             *)
LEMMA FilesKnown ==
  ASSUME RunInv
  PROVE  \E k \in 0..4 : FilesAt(k)
<1>1. CASE csv = {} /\ opened = "none"
  <2>1. FilesAt(0)
    BY <1>1, FilesCount DEF FilesAt
  <2>2. QED  BY <2>1
<1>2. CASE phase = "save"
  <2>1. \A k \in 0..3 : k \in 0..4
    OBVIOUS
  <2>2. QED  BY <1>2, <2>1 DEF RunInv, FilesAre
<1>3. CASE phase \in After \ {"probe", "save"}
  <2>1. FilesAt(4)
    BY <1>3 DEF RunInv, FilesAre, FilesAt
  <2>2. QED  BY <2>1
<1>4. CASE phase \in {"aborted", "exited"}
  BY <1>4 DEF RunInv, FilesAre
<1>5. QED
  BY <1>1, <1>2, <1>3, <1>4 DEF RunInv, RunTyped, FilesAre, After, Early

(* Once all rows are there nothing but files and images changes.           *)
LEMMA RowsKept ==
  ASSUME RunInv, phase \in After \ {"probe"}, phase' \in After \union {"aborted"},
         phase' # "probe",
         UNCHANGED <<svc, scenario, loaded, bench, sat, climb, probes, timed>>
  PROVE  BenchIs' /\ SatIs' /\ ConsoleIs' /\ Tested'
<1>1. BenchIs'
  BY DEF RunInv, BenchIs, Early, After
<1>2. SatIs'
  BY RowsUnchanged DEF RunInv, SatIs, Early, After
<1>3. ConsoleIs'
  <2>1. ReportsAgree' /\ phase' \notin Early \union {"climb"}
    BY RowsUnchanged DEF RunInv, ConsoleIs, ReportsAgree, climb, Early, After
  <2>2. QED  BY <2>1 DEF ConsoleIs
<1>4. Tested
  BY DEF RunInv, BenchIs, SatIs, FilesAre, Tested
<1>5. Tested'
  BY <1>4, RowsUnchanged DEF Tested
<1>6. QED  BY <1>1, <1>2, <1>3, <1>5

(* Where a file is begun or ended there is no chart yet.                   *)
LEMMA NoImages ==
  ASSUME RunInv, phase = "save", UNCHANGED <<step, images, prefix, chart>>,
         phase' \in {"save", "draw"}
  PROVE  ImagesAre'
<1>1. PICK k \in 0..3 : csv = FirstFiles(k)
  BY DEF RunInv, FilesAre, FilesAt
<1>2. csv # FirstFiles(4)
  <2>1. Cardinality(FirstFiles(4)) = 4 /\ Cardinality(csv) = k
    BY <1>1, FilesCount
  <2>2. QED  BY <2>1
<1>3. images = {} /\ ~(prefix = "hepta_" \/ chart["hepta_"][1].call > 0)
  BY <1>2 DEF RunInv, ImagesAre
<1>4. step' = 1
  BY DEF RunInv, RunTyped
<1>5. \A j \in 1..(step' - 1) : FALSE
  BY <1>4
<1>6. QED  BY <1>3, <1>5 DEF ImagesAre

(* The next file in their order is begun.                                  *)
LEMMA OpenFileStep ==
  ASSUME RunInv, OpenFile, UNCHANGED plots
  PROVE  RunInv'
<1>1. /\ phase = "save" /\ opened' = Files[Cardinality(csv) + 1]
      /\ opened = "none"
      /\ UNCHANGED <<phase, svc, scenario, step, loaded, bench, sat, climb>>
      /\ UNCHANGED <<probes, timed, csv, images, prefix, chart>>
  BY DEF OpenFile, plots
<1>2. PICK k \in 0..3 : csv = FirstFiles(k)
  BY <1>1 DEF RunInv, FilesAre, FilesAt
<1>3. opened' = Files[k + 1]
  BY <1>1, <1>2, FilesCount
<1>4. RunTyped'
  BY <1>1 DEF RunInv, RunTyped, climb
<1>5. BenchIs' /\ SatIs' /\ ConsoleIs' /\ Tested'
  BY <1>1, RowsKept DEF After
<1>6. FilesAre'
  <2>1. probes' = Range(Services)
    BY <1>5 DEF Tested
  <2>2. FilesAt(k)'
    BY <1>1, <1>2, <1>3 DEF FilesAt, FirstFiles
  <2>3. QED  BY <1>1, <1>5, <2>1, <2>2 DEF FilesAre, Early, After
<1>7. ImagesAre'
  BY <1>1, NoImages
<1>8. QED  BY <1>4, <1>5, <1>6, <1>7 DEF RunInv

(* It is whole, and the charts begin behind the last.                      *)
LEMMA CloseFileStep ==
  ASSUME RunInv, CloseFile, UNCHANGED plots
  PROVE  RunInv'
<1>1. /\ phase = "save" /\ opened # "none" /\ opened' = "none"
      /\ csv' = csv \union {opened}
      /\ phase' = IF Cardinality(csv') = Len(Files) THEN "draw" ELSE "save"
      /\ UNCHANGED <<svc, scenario, step, loaded, bench, sat, climb>>
      /\ UNCHANGED <<probes, timed, images, prefix, chart>>
  BY DEF CloseFile, plots
<1>2. PICK k \in 0..3 : csv = FirstFiles(k) /\ opened = Files[k + 1]
  BY <1>1 DEF RunInv, FilesAre, FilesAt
<1>3. /\ FirstFiles(k) \union {Files[k + 1]} = FirstFiles(k + 1)
      /\ k + 1 \in 0..4
  BY FilesCount
<1>4. /\ csv' = FirstFiles(k + 1) /\ Cardinality(csv') = k + 1
      /\ phase' = IF k + 1 = 4 THEN "draw" ELSE "save"
  BY <1>1, <1>2, <1>3, FilesCount
<1>5. step = 1
  BY <1>1 DEF RunInv, RunTyped
<1>6. RunTyped'
  BY <1>1, <1>4, <1>5, RatesAre DEF RunInv, RunTyped, climb, After
<1>7. BenchIs' /\ SatIs' /\ ConsoleIs' /\ Tested'
  BY <1>1, <1>4, RowsKept DEF After
<1>8. FilesAre'
  <2>1. probes' = Range(Services)
    BY <1>7 DEF Tested
  <2>2. phase' = "save" => k + 1 \in 0..3
    BY <1>4
  <2>3. phase' = "draw" => k + 1 = 4
    BY <1>4
  <2>4. QED
    BY <1>1, <1>4, <1>7, <2>1, <2>2, <2>3 DEF FilesAre, FilesAt, FirstFiles, Early, After
<1>9. ImagesAre'
  BY <1>1, <1>4, NoImages
<1>10. QED  BY <1>6, <1>7, <1>8, <1>9 DEF RunInv

(* What can be drawn is drawn, in the order of Pictures.                   *)
LEMMA DrawStep ==
  ASSUME RunInv, Draw, UNCHANGED plots
  PROVE  RunInv'
<1>1. /\ phase = "draw"
      /\ images' = images \union {p \in {Pictures[step]} : Drawable(p)}
      /\ \/ step < 5 /\ step' = step + 1 /\ phase' = "draw"
         \/ ~(step < 5) /\ step' = 1 /\ phase' = "cloudwatch"
      /\ UNCHANGED <<svc, scenario, loaded, bench, sat, climb, probes, timed>>
      /\ UNCHANGED <<csv, opened>>
  BY PicturesAre DEF Draw, files
<1>2. step \in 1..5
  BY <1>1 DEF RunInv, RunTyped
<1>3. Pictures[step] \in Range(Pictures) /\ images' \subseteq Range(Pictures)
  BY <1>1, <1>2, PicturesAre DEF RunInv, RunTyped
<1>4. RunTyped'
  BY <1>1, <1>2, <1>3, RatesAre DEF RunInv, RunTyped, climb, After
<1>5. BenchIs' /\ SatIs' /\ ConsoleIs' /\ Tested'
  BY <1>1, RowsKept DEF After
<1>6. FilesAre'
  BY <1>1, <1>5 DEF RunInv, FilesAre, Early, After, Tested
<1>7. \A k \in 1..5 : Drawable(Pictures[k])' <=> Drawable(Pictures[k])
  BY <1>1 DEF Drawable
<1>8. \A k \in 1..step : Drawable(Pictures[k]) => Pictures[k] \in images'
  <2>1. \A k \in 1..(step - 1) : Drawable(Pictures[k]) => Pictures[k] \in images
    BY <1>1 DEF RunInv, ImagesAre
  <2>2. \A k \in 1..step : k \in 1..(step - 1) \/ k = step
    BY <1>2
  <2>3. Drawable(Pictures[step]) => Pictures[step] \in images'
    BY <1>1
  <2>4. QED  BY <1>1, <2>1, <2>2, <2>3
<1>9. ImagesAre'
  <2>1. csv' = FirstFiles(4)
    BY <1>1 DEF RunInv, FilesAre, After
  <2>2. phase' = "draw" =>
          \A k \in 1..(step' - 1) : Drawable(Pictures[k])' => Pictures[k] \in images'
    BY <1>1, <1>2, <1>7, <1>8
  <2>3. phase' = "cloudwatch" =>
          \A k \in 1..5 : Drawable(Pictures[k])' => Pictures[k] \in images'
    BY <1>1, <1>2, <1>7, <1>8
  <2>4. UNCHANGED <<prefix, chart>> /\ images \subseteq images'
    BY <1>1 DEF plots
  <2>5. QED  BY <1>1, <2>1, <2>2, <2>3, <2>4 DEF RunInv, ImagesAre
<1>10. QED  BY <1>4, <1>5, <1>6, <1>9 DEF RunInv

(* The call of plot_cloudwatch, its end, and an end anywhere.              *)
LEMMA EndStep ==
  ASSUME RunInv, PlotsInv,
         CallPlots \/ (Report /\ UNCHANGED plots) \/ Abort
  PROVE  RunInv'
<1>1. /\ phase \in Early \union {"climb"} \union After
      /\ phase' \in {"fetch", "done", "aborted"}
      /\ phase' = "fetch" => phase = "cloudwatch"
      /\ phase' = "done" => phase = "fetch"
      /\ UNCHANGED <<svc, scenario, step, loaded, bench, sat, climb, output, chart>>
      /\ prefix' = prefix \/ phase = "cloudwatch"
  BY DEF CallPlots, Report, Abort, plots, Plots!heptathlon, Plots!generate_all, Plots!Raise,
     RunInv, RunTyped
<1>2. RunTyped'
  BY <1>1 DEF RunInv, RunTyped, climb, output, files, Early, After
<1>3. BenchIs'
  BY <1>1 DEF RunInv, BenchIs, Early, After
<1>4. SatIs'
  BY <1>1, RowsUnchanged DEF RunInv, SatIs, Early, After
<1>5. ConsoleIs'
  <2>1. ReportsAgree' /\ phase' \notin Early \union {"climb"}
    BY <1>1, RowsUnchanged DEF RunInv, ConsoleIs, ReportsAgree, climb, Early, After
  <2>2. QED  BY <2>1 DEF ConsoleIs
<1>6. \E k \in 0..4 : FilesAt(k)
  BY FilesKnown
<1>7. csv # {} \/ opened # "none" => Tested'
  <2>1. csv # {} \/ opened # "none" => Tested
    BY <1>1 DEF RunInv, FilesAre, Early, After
  <2>2. QED  BY <1>1, <2>1, RowsUnchanged DEF Tested, output
<1>8. FilesAre'
  <2>1. phase' # "aborted" =>
          probes = Range(Services) /\ csv = FirstFiles(4) /\ opened = "none"
    BY <1>1 DEF RunInv, FilesAre, After
  <2>2. UNCHANGED <<probes, csv, opened>>
    BY <1>1 DEF output, files
  <2>3. \E k \in 0..4 : FilesAt(k)'
    BY <1>6, <2>2 DEF FilesAt, FirstFiles
  <2>4. QED  BY <1>1, <1>7, <2>1, <2>2, <2>3 DEF FilesAre, FirstFiles, Early, After
<1>9. ImagesAre'
  <2>1. UNCHANGED <<csv, images, chart, timed, bench>>
    BY <1>1 DEF output, files
  <2>2. \A k \in 1..5 : Drawable(Pictures[k])' <=> Drawable(Pictures[k])
    BY <2>1 DEF Drawable
  <2>3. phase \in {"cloudwatch", "fetch"} =>
          \A k \in 1..5 : Drawable(Pictures[k]) => Pictures[k] \in images
    BY DEF RunInv, ImagesAre
  <2>4. phase = "cloudwatch" => csv = FirstFiles(4) /\ {"curves", "max"} \subseteq images
    <3>1. phase = "cloudwatch" => Pictures[3] \in images /\ Pictures[4] \in images
      BY <2>3, PicturesAre DEF Drawable
    <3>2. QED  BY <3>1, PicturesAre DEF RunInv, FilesAre, After
  <2>5. prefix' = "hepta_" \/ chart["hepta_"][1].call > 0 =>
          csv = FirstFiles(4) /\ {"curves", "max"} \subseteq images
    BY <1>1, <2>4 DEF RunInv, ImagesAre
  <2>6. images # {} => csv = FirstFiles(4)
    BY DEF RunInv, ImagesAre
  <2>7. QED  BY <1>1, <2>1, <2>2, <2>3, <2>5, <2>6 DEF ImagesAre
<1>10. QED  BY <1>2, <1>3, <1>4, <1>5, <1>8, <1>9 DEF RunInv

(* The files outlive the process, its rows do not.                         *)
LEMMA ExitStep ==
  ASSUME RunInv, Exit
  PROVE  RunInv'
<1>1. /\ phase \in {"done", "aborted"} /\ phase' = "exited"
      /\ svc' = 1 /\ scenario' = 1 /\ step' = 1 /\ loaded' = Idle
      /\ bench' = <<>> /\ sat' = <<>> /\ lastOkRate' = 0 /\ saturatedAt' = 0
      /\ console' = <<>> /\ probes' = {} /\ timed' = {}
      /\ UNCHANGED <<csv, opened, images, prefix, chart>>
  BY DEF Exit, plots, files
<1>2. RunTyped'
  BY <1>1, ServicesAre, RatesAre DEF RunInv, RunTyped, Early, After
<1>3. BenchIs'
  <2>1. \A i \in 1..Len(Services), k \in 1..2 : ~(2 * (i - 1) + k <= 0)
    BY ServicesAre
  <2>2. Len(bench') = 0
    BY <1>1
  <2>3. QED  BY <1>1, <2>1, <2>2 DEF BenchIs, Early, After
<1>4. \A S : RowsOf(S)' = {}
  BY <1>1 DEF RowsOf
<1>5. SatIs'
  <2>1. \A S : Ladder(S, 0, 0)'
    BY <1>4 DEF Ladder
  <2>2. 0 \in 0..Len(sat') /\ 0 \in 0..Len(Rates)
    BY <1>1, RatesAre
  <2>3. QED  BY <1>1, <2>1, <2>2 DEF SatIs, RowsAreALadder, Early, After
<1>6. ConsoleIs'
  BY <1>1 DEF ConsoleIs, ReportsAgree, Early
<1>7. FilesAre'
  <2>1. PICK k \in 0..4 : FilesAt(k)
    BY FilesKnown
  <2>2. FilesAt(k)'
    BY <1>1, <2>1 DEF FilesAt, FirstFiles
  <2>3. QED  BY <1>1, <2>2 DEF FilesAre, Early, After
<1>8. ImagesAre'
  BY <1>1 DEF RunInv, ImagesAre
<1>9. QED  BY <1>2, <1>3, <1>5, <1>6, <1>7, <1>8 DEF RunInv

(* The charts of CloudWatch: a new hepta_ chart is one of a call made with *)
(* that prefix, and only heptathlon.py makes one.                          *)
LEMMA ChartsStep ==
  ASSUME RunInv, PlotsInv, PlotsStep \/ DrawAgain \/ UNCHANGED <<driver, plots>>
  PROVE  RunInv'
<1>1. UNCHANGED driver
  BY DEF PlotsStep, DrawAgain
<1>2. RunTyped' /\ BenchIs' /\ FirstFiles(4)' = FirstFiles(4)
  BY <1>1 DEF driver, RunInv, RunTyped, BenchIs, FirstFiles
<1>3. SatIs'
  <2>1. UNCHANGED <<sat, phase, svc, step, saturatedAt, lastOkRate>>
    BY <1>1 DEF driver
  <2>2. Climbing' = Climbing
    BY <2>1 DEF Climbing, Ladder, RowsOf
  <2>3. QED  BY <2>1, <2>2, RowsUnchanged DEF RunInv, SatIs
<1>4. ConsoleIs'
  BY <1>1, RowsUnchanged DEF driver, RunInv, ConsoleIs, ReportsAgree
<1>5. FilesAre'
  <2>1. UNCHANGED <<bench, sat, probes, phase, csv, opened, svc>>
    BY <1>1 DEF driver
  <2>2. Tested' = Tested
    BY <2>1, RowsUnchanged DEF Tested
  <2>3. \A k : FilesAt(k)' <=> FilesAt(k)
    BY <2>1 DEF FilesAt, FirstFiles
  <2>4. QED  BY <1>2, <2>1, <2>2, <2>3 DEF RunInv, FilesAre
<1>6. prefix' = "hepta_" \/ chart'["hepta_"][1].call > 0 =>
        prefix = "hepta_" \/ chart["hepta_"][1].call > 0
  <2>1. CASE Plots!Plot
    <3>1. /\ prefix' = prefix /\ chart' = [chart EXCEPT ![prefix][at] = Plots!Written]
          /\ "hepta_" \in Plots!Prefixes
      BY <2>1 DEF Plots!Plot, Plots!Prefixes
    <3>2. prefix # "hepta_" => chart'["hepta_"] = chart["hepta_"]
      BY <3>1 DEF PlotsInv, Plots!TypeOK
    <3>3. QED  BY <3>1, <3>2
  <2>2. CASE Plots!fetch_cloudwatch_csv \/ Plots!Raise \/ UNCHANGED plots
    BY <2>2 DEF Plots!fetch_cloudwatch_csv, Plots!Raise, plots
  <2>3. CASE Plots!main
    <3>1. chart' = chart /\ prefix' \in {"", "saturation_"}
      BY <2>3 DEF Plots!main, Plots!generate_all
    <3>2. prefix' # "hepta_"
      BY <3>1
    <3>3. QED  BY <3>1, <3>2
  <2>4. QED
    BY <2>1, <2>2, <2>3 DEF PlotsStep, DrawAgain, Plots!Step
<1>7. ImagesAre'
  <2>1. UNCHANGED <<phase, step, csv, images, timed, bench>>
    BY <1>1 DEF driver
  <2>2. \A k \in 1..5 : Drawable(Pictures[k])' <=> Drawable(Pictures[k])
    BY <2>1 DEF Drawable
  <2>3. phase = "draw" => 1..(step - 1) \subseteq 1..5
    BY DEF RunInv, RunTyped
  <2>4. QED  BY <1>6, <2>1, <2>2, <2>3 DEF RunInv, ImagesAre
<1>8. QED  BY <1>2, <1>3, <1>4, <1>5, <1>7 DEF RunInv

(* What a test records, in every state of it, whatever wrk2 answers and    *)
(* wherever it stops.                                                      *)
THEOREM RunInvariance == Spec => []RunInv
<1>1. Init => RunInv  BY RunInitially
<1>2. PlotsInv /\ RunInv /\ [Next]_vars => RunInv'
  <2> SUFFICES ASSUME PlotsInv, RunInv, [Next]_vars PROVE RunInv'
    OBVIOUS
  <2>1. CASE CallPreWarmUp
    BY <2>1, QuietStep DEF CallPreWarmUp
  <2>2. CASE CallPlots /\ UNCHANGED curl
    BY <2>2, EndStep
  <2>3. CASE Proceed /\ UNCHANGED <<curl, plots>>
    BY <2>3, QuietStep, MeasureStep, ClimbStep, NextServiceStep, ProbeStep,
       OpenFileStep, CloseFileStep, DrawStep, EndStep DEF Proceed
  <2>4. CASE Abort
    BY <2>4, EndStep
  <2>5. CASE Exit
    BY <2>5, ExitStep
  <2>6. CASE CurlShell \/ CurlSleeper \/ \E i \in Curl!Loops : CurlLoop(i)
    BY <2>6, ChartsStep DEF CurlShell, CurlSleeper, CurlLoop
  <2>7. CASE PlotsStep \/ DrawAgain
    BY <2>7, ChartsStep
  <2>8. CASE UNCHANGED vars
    BY <2>8, ChartsStep DEF vars
  <2>9. QED
    BY <2>1, <2>2, <2>3, <2>4, <2>5, <2>6, <2>7, <2>8 DEF Next, Driver
<1>3. Spec => []PlotsInv
  BY CallsArePlots, PlotsInvariance, PTL
<1>4. QED  BY <1>1, <1>2, <1>3, PTL DEF Spec

(* Type correctness of the driver with the processes and charts it runs.   *)
THEOREM TypeCorrectness == Spec => []TypeOK
<1>1. RunInv /\ DriverInv /\ PlotsInv => TypeOK
  <2> SUFFICES ASSUME RunInv, DriverInv, PlotsInv PROVE TypeOK
    OBVIOUS
  <2>1. csv \subseteq Range(Files) /\ opened \in Range(Files) \union {"none"}
    <3>1. PICK k \in 0..4 : FilesAt(k)
      BY FilesKnown
    <3>2. DOMAIN Files = 1..4 /\ (k < 4 => k + 1 \in 1..4)
      BY <3>1 DEF Files
    <3>3. QED  BY <3>1, <3>2 DEF FilesAt, FirstFiles, Range
  <2>2. DOMAIN Scenarios = 1..2
    BY DEF Scenarios
  <2>3. Curl!TypeOK /\ Plots!TypeOK
    BY DEF DriverInv, CurlInv, PlotsInv
  <2>4. QED
    BY <2>1, <2>2, <2>3, ServicesAre, PicturesAre
       DEF RunInv, RunTyped, TypeOK, Early, After, BenchRows, SatRows
<1>2. QED
  BY <1>1, RunInvariance, DriverInvariance, CallsArePlots, PlotsInvariance, PTL

(* LadderIsReported: the rows of every service are a curve up to its point *)
(* of saturation, and the console, which remembers the last rate sustained, *)
(* says what the bar chart computes from the rows, however many rates.     *)
THEOREM LaddersAreReported == Spec => []LadderIsReported
<1>1. RunInv => LadderIsReported
  BY DEF RunInv, SatIs, ConsoleIs, LadderIsReported
<1>2. QED  BY <1>1, RunInvariance, PTL

(* FilesOfWholeTests: no file is begun, nor an earlier one lost, before    *)
(* all services have been tested, in both scenarios, up their ladders and  *)
(* with a probe; wherever the test stops, at most one file is cut short,   *)
(* and none once the charts begin.                                         *)
THEOREM FilesAreOfWholeTests == Spec => []FilesOfWholeTests
<1>1. RunInv => FilesOfWholeTests
  <2> SUFFICES ASSUME RunInv PROVE FilesOfWholeTests
    OBVIOUS
  <2>1. phase \in {"draw", "cloudwatch", "fetch", "done"} => csv = Range(Files)
    BY FilesCount DEF RunInv, FilesAre, After
  <2>2. ASSUME csv # {} \/ opened # "none", phase # "exited"
        PROVE  /\ Len(bench) = Len(Services) * Len(Scenarios)
               /\ {<<row.service, row.scenario>> : row \in Range(bench)} =
                    Range(Services) \X Range(Scenarios)
               /\ \A service \in Range(Services) : RowsOf(service) # {}
               /\ probes = Range(Services)
    <3>1. Tested
      BY <2>2 DEF RunInv, FilesAre
    <3>2. Len(bench) = Len(Services) * Len(Scenarios)
      BY <3>1, ScenariosAre, ServicesAre DEF Tested
    <3>3. /\ bench \in Seq(BenchRows) /\ Len(bench) = 2 * Len(Services)
          /\ DOMAIN bench = 1..(2 * Len(Services))
      BY <3>1, LenProperties DEF RunInv, RunTyped, Tested
    <3>4. ASSUME NEW row \in Range(bench)
          PROVE  <<row.service, row.scenario>> \in Range(Services) \X Range(Scenarios)
      <4>1. row \in BenchRows
        BY <3>3, ElementOfSeq DEF Range
      <4>2. QED  BY <4>1 DEF BenchRows
    <3>5. ASSUME NEW S \in Range(Services), NEW c \in Range(Scenarios)
          PROVE  <<S, c>> \in {<<row.service, row.scenario>> : row \in Range(bench)}
      <4>1. PICK i \in 1..Len(Services) : S = Services[i]
        BY ServicesAre
      <4>2. PICK k \in 1..2 : c = Scenarios[k]
        BY DEF Scenarios, Range
      <4>3. 2 * (i - 1) + k \in DOMAIN bench /\ 2 * (i - 1) + k <= Len(bench)
        BY <3>3, ServicesAre
      <4>4. /\ bench[2 * (i - 1) + k] \in Range(bench)
            /\ bench[2 * (i - 1) + k].service = S
            /\ bench[2 * (i - 1) + k].scenario = c
        BY <4>1, <4>2, <4>3 DEF RunInv, BenchIs, Range
      <4>5. QED  BY <4>4
    <3>6. {<<row.service, row.scenario>> : row \in Range(bench)} =
            Range(Services) \X Range(Scenarios)
      BY <3>4, <3>5
    <3>7. /\ \A service \in Range(Services) : RowsOf(service) # {}
          /\ probes = Range(Services)
      BY <3>1, ServicesAre DEF Tested
    <3>8. QED  BY <3>2, <3>6, <3>7
  <2>3. \E k \in 0..Len(Files) :
          /\ csv = {Files[i] : i \in 1..k}
          /\ opened # "none" => k < Len(Files) /\ opened = Files[k + 1]
    BY FilesKnown, FilesCount DEF FilesAt, FirstFiles
  <2>4. QED  BY <2>1, <2>2, <2>3 DEF FilesOfWholeTests
<1>2. QED  BY <1>1, RunInvariance, PTL

(* PicturesAreCurrent: charts come after the files they could lose, those  *)
(* of CloudWatch after the others, and a test that comes to its end has    *)
(* drawn whatever it had figures for.                                      *)
THEOREM ImagesAreCurrent == Spec => []PicturesAreCurrent
<1>1. RunInv => PicturesAreCurrent
  <2> SUFFICES ASSUME RunInv PROVE PicturesAreCurrent
    OBVIOUS
  <2>1. /\ images # {} => csv = Range(Files)
        /\ chart["hepta_"][1].call > 0 =>
             csv = Range(Files) /\ {"curves", "max"} \subseteq images
    BY FilesCount DEF RunInv, ImagesAre
  <2>2. ASSUME phase = "done"
        PROVE  /\ \A row \in Range(bench) : row.p99 => Range(Scenarios) \subseteq images
               /\ timed # {} => "probe" \in images
    <3>1. \A k \in 1..5 : Drawable(Pictures[k]) => Pictures[k] \in images
      BY <2>2 DEF RunInv, ImagesAre
    <3>2. timed # {} => "probe" \in images
      <4>1. timed # {} => Drawable("probe")
        BY PicturesAre DEF Drawable
      <4>2. QED  BY <3>1, <4>1, PicturesAre
    <3>3. ASSUME NEW row \in Range(bench), row.p99 PROVE Range(Scenarios) \subseteq images
      <4>1. Drawable("small") /\ Drawable("large")
        BY <3>3, PicturesAre DEF Drawable
      <4>2. QED  BY <3>1, <4>1, PicturesAre
    <3>4. QED  BY <3>2, <3>3
  <2>3. QED  BY <2>1, <2>2 DEF PicturesAreCurrent
<1>2. QED  BY <1>1, RunInvariance, PTL
=============================================================================
