------------------------------ MODULE Heptathlon ------------------------------
(***************************************************************************)
(* scripts/heptathlon.py: the load test of all services, one after the     *)
(* other.  Each service is warmed up and measured with the small tree,     *)
(* then with the large one, and then driven up a ladder of rates until it  *)
(* saturates; the rows are kept in memory and written at the very end,     *)
(* followed by the charts.  Each warm-up begins with the processes of      *)
(* PreWarmUp, which run beside the driver as long as they are not done,    *)
(* and the last charts are drawn by CloudWatchPlots, which an operator may *)
(* call again once the script has ended.                                   *)
(* What wrk2 answers is the environment's choice among Outcomes; times     *)
(* and percentiles are kept only as far as the script decides on them.     *)
(***************************************************************************)
EXTENDS Naturals, Sequences, SequencesExt, FiniteSets

CONSTANTS
  Services,  \* SERVICES, in the order they are tested: a sequence
  Rates,     \* SAT_RATES: an increasing sequence of requests per second
  Ramp,      \* the number of WARMUP_PHASES
  Parallel,  \* PRE_WARMUP_PARALLEL
  MaxCalls   \* bound on the calls of plot_cloudwatch.generate_all

ASSUME HeptathlonAssumption ==
  /\ Services \in Seq(Range(Services)) /\ Len(Services) > 0 /\ IsInjective(Services)
  /\ Rates \in Seq(Nat \ {0}) /\ Len(Rates) > 0
  /\ \A i, j \in DOMAIN Rates : i < j => Rates[i] < Rates[j]
  /\ Ramp \in Nat \ {0} /\ Parallel \in Nat /\ MaxCalls \in Nat

Scenarios == <<"small", "large">>

(* How a run of wrk2 ends: within the threshold, above it, with responses  *)
(* other than 2xx and 3xx or time-outs, or with nothing on standard output *)
(* because it could not connect at all.  Connections that were refused or  *)
(* broken (the other socket errors it prints) are not read: "fast".        *)
Outcomes == {"fast", "slow", "errors", "silent"}

VARIABLES
  phase,        \* where main and run_service are
  svc,          \* index of the service under test, or to probe
  scenario,     \* index of the scenario of phase 1
  step,         \* index of the next warm-up phase, then of the next rate
  loaded,       \* <<service, tree>> that received load last, no pause since
  bench,        \* all_bench with the rows of the current service
  sat,          \* all_sat with the rows of the current service
  lastOkRate,   \* last_ok_rate
  saturatedAt,  \* saturated_at (0 for None)
  console,      \* what was printed of each service: the rate it sustains
  probes,       \* services in probe_results
  timed,        \* those of them that answered with an X-Runtime-Ms header
  opened,       \* the data file begun and not yet whole ("none")
  csv,          \* the data files this run has written whole
  images,       \* the charts written by this run
  sentinel, sleeper, loop, shell, late, \* pre_warmup_curl, as in PreWarmUp
  call, prefix, window, at, fetch, chart, table   \* as in CloudWatchPlots

Curl == INSTANCE PreWarmUp
Plots == INSTANCE CloudWatchPlots

driver == <<phase, svc, scenario, step, loaded, bench, sat, lastOkRate, saturatedAt,
            console, probes, timed, opened, csv, images>>
curl == <<sentinel, sleeper, loop, shell, late>>
plots == <<call, prefix, window, at, fetch, chart, table>>
vars == <<driver, curl, plots>>

climb == <<lastOkRate, saturatedAt, console>>
files == <<opened, csv>>
output == <<probes, timed, files, images>>

Idle == <<"none", "none">>

Init ==
  /\ phase = "start"
  /\ svc = 1 /\ scenario = 1 /\ step = 1
  /\ loaded = Idle
  /\ bench = <<>> /\ sat = <<>>
  /\ lastOkRate = 0 /\ saturatedAt = 0
  /\ console = << >>
  /\ probes = {} /\ timed = {}
  /\ opened = "none" /\ csv = {} /\ images = {}
  /\ Curl!Init
  /\ Plots!Init

----------------------------------------------------------------------------
(* What is read from the output.                                           *)

(* Of the socket errors only the time-outs are read: their line is also    *)
(* printed for connections that were refused or broken.                    *)
parse_wrk2(outcome) ==
  [p99    |-> CASE outcome = "silent" -> "none"
                [] outcome = "slow" -> "high"
                [] OTHER -> "low",
   errors |-> IF outcome = "errors" THEN 1 ELSE 0]

Saturated(stats) == stats.p99 = "high" \/ stats.errors > 0

----------------------------------------------------------------------------
(* Phase 1.                                                                *)

Start ==
  /\ phase = "start"
  /\ phase' = "pre-warm-up"
  /\ UNCHANGED <<svc, scenario, step, loaded, bench, sat, climb, output>>

(* The script's first test: wrk2 is not on the PATH.                       *)
NoWrk2 ==
  /\ phase = "start"
  /\ phase' = "aborted"
  /\ UNCHANGED <<svc, scenario, step, loaded, bench, sat, climb, output>>

Load == loaded' = <<Services[svc], Scenarios[scenario]>>

(* pre_warmup_curl is called, returns when its shell does, and its         *)
(* processes take their steps whatever the driver is at.                   *)
CallPreWarmUp ==
  /\ phase = "pre-warm-up"
  /\ phase' = "curl"
  /\ sentinel' \in BOOLEAN
  /\ sleeper' = "none"
  /\ loop' = [i \in Curl!Loops |-> "none"]
  /\ shell' = "start"
  /\ late' = [i \in Curl!Loops |-> 0]
  /\ UNCHANGED <<svc, scenario, step, loaded, bench, sat, climb, output, plots>>

CurlShell == phase = "curl" /\ Curl!Shell /\ UNCHANGED <<driver, plots>>
CurlSleeper == Curl!Sleeper /\ UNCHANGED <<driver, plots>>
CurlLoop(i) == Curl!Loop(i) /\ UNCHANGED <<driver, plots>>
CurlLocal(i) == Curl!Local(i) /\ UNCHANGED <<driver, plots>>

PreWarmUp ==
  /\ phase = "curl"
  /\ shell = "returned"
  /\ Load
  /\ phase' = "warm-up"
  /\ step' = 1
  /\ UNCHANGED <<svc, scenario, bench, sat, climb, output>>

WarmUp ==
  /\ phase = "warm-up"
  /\ Load
  /\ IF step < Ramp
     THEN step' = step + 1 /\ UNCHANGED phase
     ELSE step' = 1 /\ phase' = "cooldown"
  /\ UNCHANGED <<svc, scenario, bench, sat, climb, output>>

Cooldown ==
  /\ phase = "cooldown"
  /\ loaded' = Idle
  /\ phase' = "measure"
  /\ UNCHANGED <<svc, scenario, step, bench, sat, climb, output>>

(* Only a measurement with figures makes a row. *)
Measure_SkipsSilent(outcome) ==
  /\ phase = "measure"
  /\ Load
  /\ LET stats == parse_wrk2(outcome)
     IN bench' = IF stats.p99 = "none" THEN bench
                 ELSE Append(bench, [service |-> Services[svc],
                                     scenario |-> Scenarios[scenario],
                                     p99 |-> TRUE])
  /\ IF scenario < Len(Scenarios)
     THEN scenario' = scenario + 1 /\ phase' = "pre-warm-up"
     ELSE scenario' = 1 /\ phase' = "climb"
  /\ step' = 1 /\ lastOkRate' = 0 /\ saturatedAt' = 0
  /\ UNCHANGED <<svc, sat, console, output>>

(* One row per scenario, whatever was read; after the last scenario the    *)
(* ladder begins at once.                                                  *)
Measure(outcome) ==
  /\ phase = "measure"
  /\ Load
  /\ LET stats == parse_wrk2(outcome)
     IN bench' = Append(bench, [service |-> Services[svc],
                                scenario |-> Scenarios[scenario],
                                p99 |-> stats.p99 # "none"])
  /\ IF scenario < Len(Scenarios)
     THEN scenario' = scenario + 1 /\ phase' = "pre-warm-up"
     ELSE scenario' = 1 /\ phase' = "climb"
  /\ step' = 1 /\ lastOkRate' = 0 /\ saturatedAt' = 0
  /\ UNCHANGED <<svc, sat, console, output>>

----------------------------------------------------------------------------
(* Phase 2.                                                                *)

Row(saturated) ==
  [service |-> Services[svc], rate |-> Rates[step], saturated |-> saturated]

Judge(outcome) == sat' = Append(sat, Row(Saturated(parse_wrk2(outcome))))

(* The rate counts as sustained before it is judged. *)
Climb_CountsFirst(outcome) ==
  /\ phase = "climb"
  /\ saturatedAt = 0 /\ step <= Len(Rates)
  /\ loaded' = <<Services[svc], "large">>
  /\ Judge(outcome)
  /\ lastOkRate' = Rates[step]
  /\ IF Saturated(parse_wrk2(outcome))
     THEN saturatedAt' = Rates[step] /\ UNCHANGED step
     ELSE step' = step + 1 /\ UNCHANGED saturatedAt
  /\ UNCHANGED <<phase, svc, scenario, bench, console, output>>

Climb(outcome) ==
  /\ phase = "climb"
  /\ saturatedAt = 0 /\ step <= Len(Rates)
  /\ loaded' = <<Services[svc], "large">>
  /\ Judge(outcome)
  /\ IF Saturated(parse_wrk2(outcome))
     THEN saturatedAt' = Rates[step] /\ UNCHANGED <<lastOkRate, step>>
     ELSE lastOkRate' = Rates[step] /\ step' = step + 1 /\ UNCHANGED saturatedAt
  /\ UNCHANGED <<phase, svc, scenario, bench, console, output>>

Sustained == IF saturatedAt # 0 THEN lastOkRate ELSE Last(Rates)

(* The index is not set back for the probes. *)
NextService_NoReset ==
  /\ phase = "climb"
  /\ saturatedAt # 0 \/ step > Len(Rates)
  /\ console' = Append(console, Sustained)
  /\ step' = 1
  /\ svc' = svc + 1
  /\ phase' = IF svc < Len(Services) THEN "pre-warm-up" ELSE "probe"
  /\ UNCHANGED <<scenario, loaded, bench, sat, lastOkRate, saturatedAt, output>>

(* The end of run_service; main adds its rows and takes the next service.  *)
NextService ==
  /\ phase = "climb"
  /\ saturatedAt # 0 \/ step > Len(Rates)
  /\ console' = Append(console, Sustained)
  /\ step' = 1
  /\ IF svc < Len(Services)
     THEN svc' = svc + 1 /\ phase' = "pre-warm-up"
     ELSE svc' = 1 /\ phase' = "probe"
  /\ UNCHANGED <<scenario, loaded, bench, sat, lastOkRate, saturatedAt, output>>

----------------------------------------------------------------------------
(* The end of main.                                                        *)

(* One request per service: a failure is a row too, without the header.    *)
Probe(header) ==
  /\ phase = "probe"
  /\ probes' = probes \union {Services[svc]}
  /\ timed' = IF header THEN timed \union {Services[svc]} ELSE timed
  /\ loaded' = <<Services[svc], "large">>
  /\ IF svc < Len(Services)
     THEN svc' = svc + 1 /\ UNCHANGED phase
     ELSE UNCHANGED svc /\ phase' = "save"
  /\ UNCHANGED <<scenario, step, bench, sat, climb, files, images>>

Files == <<"benchmark", "saturation", "probe", "window">>

(* A file is truncated and written in place: what it held before is gone,  *)
(* and until it is closed it may hold nothing, or the first rows.          *)
OpenFile ==
  /\ phase = "save"
  /\ opened = "none"
  /\ opened' = Files[Cardinality(csv) + 1]
  /\ UNCHANGED <<phase, svc, scenario, step, loaded, bench, sat, climb>>
  /\ UNCHANGED <<probes, timed, csv, images>>

CloseFile ==
  /\ phase = "save"
  /\ opened # "none"
  /\ csv' = csv \union {opened}
  /\ opened' = "none"
  /\ phase' = IF Cardinality(csv') = Len(Files) THEN "draw" ELSE "save"
  /\ UNCHANGED <<svc, scenario, step, loaded, bench, sat, climb, probes, timed, images>>

(* A chart of one scenario each, the curves, their maxima, the probes.     *)
Pictures == Scenarios \o <<"curves", "max", "probe">>

(* Only the rows of the scenario itself count. *)
Drawable_OwnColumns(picture) ==
  CASE picture = "probe" -> timed # {}
    [] picture \in Range(Scenarios) ->
         \E row \in Range(bench) : row.p99 /\ row.scenario = picture
    [] OTHER -> TRUE

(* The data frame of a scenario has a column for a percentile as soon as   *)
(* any measurement of the test has it.                                     *)
Drawable(picture) ==
  CASE picture = "probe" -> timed # {}
    [] picture \in Range(Scenarios) -> \E row \in Range(bench) : row.p99
    [] OTHER -> TRUE

(* A chart that cannot be drawn leaves the image of an earlier run.        *)
Draw ==
  /\ phase = "draw"
  /\ images' = images \union {p \in {Pictures[step]} : Drawable(p)}
  /\ IF step < Len(Pictures)
     THEN step' = step + 1 /\ UNCHANGED phase
     ELSE step' = 1 /\ phase' = "cloudwatch"
  /\ UNCHANGED <<svc, scenario, loaded, bench, sat, climb, probes, timed, files>>

(* plot_cloudwatch is imported, which may fail, and called.                *)
CallPlots ==
  /\ phase = "cloudwatch"
  /\ phase' = "fetch"
  /\ Plots!heptathlon \/ UNCHANGED plots
  /\ UNCHANGED <<svc, scenario, step, loaded, bench, sat, climb, output>>

PlotsStep == Plots!Step /\ UNCHANGED <<driver, curl>>

(* Whether it returned or raised: an exception is caught.  The summary.    *)
Report ==
  /\ phase = "fetch"
  /\ fetch # "running"
  /\ phase' = "done"
  /\ UNCHANGED <<svc, scenario, step, loaded, bench, sat, climb, output>>

(* Ctrl-C, a full disk, the end of the SSH session, an error in a chart: a *)
(* file that is being written stays as it is.                              *)
Abort ==
  /\ phase \notin {"start", "done", "aborted", "exited"}
  /\ phase' = "aborted"
  /\ IF fetch = "running" THEN Plots!Raise ELSE UNCHANGED plots
  /\ UNCHANGED <<svc, scenario, step, loaded, bench, sat, climb, output, curl>>

(* The process is gone, its children too: only the files are left.         *)
Exit ==
  /\ phase \in {"done", "aborted"}
  /\ shell \in {"start", "returned"}
  /\ phase' = "exited"
  /\ svc' = 1 /\ scenario' = 1 /\ step' = 1
  /\ loaded' = Idle
  /\ bench' = <<>> /\ sat' = <<>>
  /\ lastOkRate' = 0 /\ saturatedAt' = 0
  /\ console' = <<>>
  /\ probes' = {} /\ timed' = {}
  /\ shell' = "start" /\ sleeper' = "none" /\ UNCHANGED sentinel
  /\ loop' = [i \in Curl!Loops |-> "none"] /\ late' = [i \in Curl!Loops |-> 0]
  /\ UNCHANGED <<files, images, plots>>

(* The operator draws the charts again, or others.                         *)
DrawAgain == phase = "exited" /\ Plots!main /\ UNCHANGED <<driver, curl>>

Proceed ==
  \/ Start \/ NoWrk2 \/ PreWarmUp \/ WarmUp \/ Cooldown
  \/ \E outcome \in Outcomes : Measure(outcome) \/ Climb(outcome)
  \/ NextService \/ (\E header \in BOOLEAN : Probe(header))
  \/ OpenFile \/ CloseFile \/ Draw \/ Report

Driver ==
  \/ CallPreWarmUp
  \/ CallPlots /\ UNCHANGED curl
  \/ Proceed /\ UNCHANGED <<curl, plots>>

Next ==
  \/ Driver \/ Abort \/ Exit
  \/ CurlShell \/ CurlSleeper \/ \E i \in Curl!Loops : CurlLoop(i)
  \/ PlotsStep \/ DrawAgain

Spec == Init /\ [][Next]_vars

(* wrk2 stops at the end of its -d seconds, a probe after 10, sleep ends,  *)
(* every process is scheduled, and a fetch of boto3 returns or raises.     *)
(* Nothing is assumed of the requests of pre_warmup_curl, whose curl has   *)
(* no time limit: they may stay without an answer for ever.                *)
FairSpec ==
  /\ Spec /\ WF_vars(Driver) /\ WF_vars(CurlShell) /\ WF_vars(CurlSleeper)
  /\ WF_vars(PlotsStep)
  /\ \A i \in 1..Parallel : WF_vars(CurlLocal(i))

----------------------------------------------------------------------------
(* The two figures computed from the rows.                                 *)

RowsOf(service) == {i \in DOMAIN sat : sat[i].service = service}
OkRates(service) == {sat[i].rate : i \in {k \in RowsOf(service) : ~sat[k].saturated}}

(* plot_saturation_max, and the summary, which prints "<50" for no row.    *)
MaxRate(service) == Max(OkRates(service) \union {0})

----------------------------------------------------------------------------
(* Type correctness. *)
TypeOK ==
  /\ phase \in {"start", "pre-warm-up", "curl", "warm-up", "cooldown", "measure", "climb",
                "probe", "save", "draw", "cloudwatch", "fetch", "done", "aborted", "exited"}
  /\ svc \in DOMAIN Services /\ scenario \in DOMAIN Scenarios
  /\ step \in 1..(Len(Rates) + 1) \union 1..Ramp \union DOMAIN Pictures
  /\ loaded \in (Range(Services) \X Range(Scenarios)) \union {Idle}
  /\ bench \in Seq([service : Range(Services), scenario : Range(Scenarios), p99 : BOOLEAN])
  /\ sat \in Seq([service : Range(Services), rate : Range(Rates), saturated : BOOLEAN])
  /\ lastOkRate \in Range(Rates) \union {0}
  /\ saturatedAt \in Range(Rates) \union {0}
  /\ timed \subseteq probes /\ probes \subseteq Range(Services)
  /\ opened \in Range(Files) \union {"none"}
  /\ csv \subseteq Range(Files) /\ images \subseteq Range(Pictures)
  /\ Curl!TypeOK /\ Plots!TypeOK

(* Nothing of the pre-warm-up is under way, or will begin, once the driver *)
(* goes on to wrk2: no measurement shares the service with its requests.   *)
MeasuresAlone ==
  phase \in {"warm-up", "cooldown", "measure", "climb", "probe"} =>
    \A i \in Curl!Loops : loop[i] = "done"

(* The ladder starts, and goes on, while the service it measures is hot:   *)
(* the last load before each step went to the same service with the large  *)
(* tree and nothing paused it (README.md:59, heptathlon.py:10-11).         *)
ClimbsHot == phase = "climb" => loaded = <<Services[svc], "large">>

(* A measurement meets the load it is meant to meet and no other.          *)
MeasuresRight == MeasuresAlone /\ ClimbsHot

(* A chart and a table take the rows of a service for a curve up to its    *)
(* point of saturation: its rows lie together, they are the first n rates  *)
(* in order, one each, and only the last may be saturated.                 *)
Ladder(service, before, n) ==
  /\ RowsOf(service) = (before + 1)..(before + n)
  /\ \A k \in 1..n :
       /\ sat[before + k].rate = Rates[k]
       /\ sat[before + k].saturated => k = n

RowsAreALadder ==
  \A service \in Range(Services) :
    \E before \in 0..Len(sat), n \in 0..Len(Rates) : Ladder(service, before, n)

(* The console line of run_service, the bar chart and the summary name the *)
(* same rate, though the first keeps it in a local variable and the others *)
(* compute it from the rows.                                               *)
ReportsAgree ==
  \A i \in DOMAIN console : console[i] = MaxRate(Services[i])

(* ... of rows that a reader can take for a curve. *)
LadderIsReported == RowsAreALadder /\ ReportsAgree

(* No file is begun, and what an earlier test left in it lost, before this *)
(* test has a row for every service and scenario, a ladder and a probe for *)
(* every service.  A run that is stopped may leave one file cut short: the *)
(* one that follows those that are whole in the order they are written.    *)
(* Once the charts begin all of them are whole.                            *)
FilesOfWholeTests ==
  /\ (csv # {} \/ opened # "none") /\ phase # "exited" =>
       /\ Len(bench) = Len(Services) * Len(Scenarios)
       /\ {<<row.service, row.scenario>> : row \in Range(bench)} =
            Range(Services) \X Range(Scenarios)
       /\ \A service \in Range(Services) : RowsOf(service) # {}
       /\ probes = Range(Services)
  /\ \E k \in 0..Len(Files) :
       /\ csv = {Files[i] : i \in 1..k}
       /\ opened # "none" => k < Len(Files) /\ opened = Files[k + 1]
  /\ phase \in {"draw", "cloudwatch", "fetch", "done"} => csv = Range(Files)

(* A chart comes after everything it could lose: an error in one costs no  *)
(* row.  In a test that came to its end, an image of an earlier test stays *)
(* among the new ones only if this one had no figure at all to put there.  *)
PicturesAreCurrent ==
  /\ images # {} => csv = Range(Files)
  /\ chart["hepta_"][1].call > 0 =>
       csv = Range(Files) /\ {"curves", "max"} \subseteq images
  /\ phase = "done" =>
       /\ \A row \in Range(bench) : row.p99 => Range(Scenarios) \subseteq images
       /\ timed # {} => "probe" \in images

(* What plot_cloudwatch leaves in images/, whoever called it and however   *)
(* it ended, can be read without knowing that.                             *)
PlotsAreConsistent == Plots!PlotsAreConsistent

(* The test ends, however the loops of the pre-warm-up meet the process    *)
(* that stops them, unless a request of theirs is never answered.          *)
RunEnds ==
  (\A i \in 1..Parallel : []<>(loop[i] # "curl")) => <>(phase \in {"done", "aborted"})
=============================================================================
