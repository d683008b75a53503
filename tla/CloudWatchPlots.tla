---------------------------- MODULE CloudWatchPlots ----------------------------
(***************************************************************************)
(* scripts/plot_cloudwatch.py: generate_all fetches the metrics of the     *)
(* services, one chart after the other and at the end once more for a CSV  *)
(* file, and overwrites what an earlier call left.  heptathlon.py calls it *)
(* at its end, an operator through main as often as he likes.  Any fetch   *)
(* may raise, which ends the call where it is.                             *)
(* Of a file only this is kept: the call that wrote it and the time its    *)
(* data ends at.                                                           *)
(***************************************************************************)
EXTENDS Naturals, Sequences

CONSTANT MaxCalls  \* bound on the calls of generate_all: a natural number

(* One set of charts for each prefix; the CSV file has none.               *)
Prefixes == {"", "hepta_", "saturation_"}

(* The end of the window the caller gives; a fetch without a window looks  *)
(* back from the moment it is made.                                        *)
Given == 0

VARIABLES
  call,    \* the calls of generate_all so far
  prefix,  \* the arguments of the last one
  window,  \* "given" or "none"
  at,      \* the output it is at: an index of Charts, then the CSV file
  fetch,   \* what became of it: "running", "returned", "raised"
  chart,   \* the charts on the disk, for each prefix
  table    \* cloudwatch_results_2026.csv

vars == <<call, prefix, window, at, fetch, chart, table>>

(* generate_all calls one function for each. *)
Charts == <<"cpu", "memory", "active-instances", "concurrency", "request-count",
            "latency-p99", "2xx", "4xx", "5xx">>

(* What was there before the first call, or nothing at all.                *)
Before == [call |-> 0, until |-> Given]

Init ==
  /\ call = 0
  /\ prefix = "" /\ window = "none"
  /\ at = 1
  /\ fetch = "returned"
  /\ chart = [p \in Prefixes |-> [k \in DOMAIN Charts |-> Before]]
  /\ table = Before

generate_all(p, w) ==
  /\ fetch # "running"
  /\ call < MaxCalls
  /\ call' = call + 1
  /\ prefix' = p /\ window' = w
  /\ at' = 1
  /\ fetch' = "running"
  /\ UNCHANGED <<chart, table>>

(* The window of a fetch that is made now; a clock that ticks once for     *)
(* each output is all that is compared.                                    *)
get_metric == IF window = "given" THEN Given ELSE at

Written == [call |-> call, until |-> get_metric]

(* A chart without a single datapoint is not drawn. *)
Plot_SkipsEmpty ==
  /\ fetch = "running"
  /\ at \in DOMAIN Charts
  /\ \E found \in BOOLEAN :
       chart' = IF found THEN [chart EXCEPT ![prefix][at] = Written] ELSE chart
  /\ at' = at + 1
  /\ UNCHANGED <<call, prefix, window, fetch, table>>

(* plot_cpu to plot_5xx: a chart is saved whether there is data or not.    *)
Plot ==
  /\ fetch = "running"
  /\ at \in DOMAIN Charts
  /\ chart' = [chart EXCEPT ![prefix][at] = Written]
  /\ at' = at + 1
  /\ UNCHANGED <<call, prefix, window, fetch, table>>

(* The file is written only if there is data; its name is printed anyway.  *)
fetch_cloudwatch_csv ==
  /\ fetch = "running"
  /\ at > Len(Charts)
  /\ \E found \in BOOLEAN : table' = IF found THEN Written ELSE table
  /\ fetch' = "returned"
  /\ UNCHANGED <<call, prefix, window, at, chart>>

(* A fetch or a save fails, or the process is killed. *)
Raise ==
  /\ fetch = "running"
  /\ fetch' = "raised"
  /\ UNCHANGED <<call, prefix, window, at, chart, table>>

Step == Plot \/ fetch_cloudwatch_csv \/ Raise

(* With --saturation the window is read from a file, if there is one.      *)
main ==
  \/ generate_all("", "none")
  \/ \E w \in {"none", "given"} : generate_all("saturation_", w)

heptathlon == generate_all("hepta_", "given")

Next == Step \/ main \/ heptathlon

Spec == Init /\ [][Next]_vars

----------------------------------------------------------------------------
(* Type correctness. *)
TypeOK ==
  /\ call \in 0..MaxCalls
  /\ prefix \in Prefixes /\ window \in {"given", "none"}
  /\ at \in 1..(Len(Charts) + 1)
  /\ fetch \in {"running", "returned", "raised"}
  /\ chart \in [Prefixes -> [DOMAIN Charts -> [call : 0..call, until : 0..Len(Charts)]]]
  /\ table \in [call : 0..call, until : 0..(Len(Charts) + 1)]

(* A call that returned left no chart of its prefix as it was.             *)
ReturnedIsWhole ==
  fetch = "returned" =>
    \A k \in DOMAIN Charts : chart[prefix][k].call = call

(* A call that raised leaves charts of two calls side by side, but always  *)
(* in the order of generate_all: no chart is newer than one drawn before   *)
(* it, so that a new 5xx chart vouches for the whole set.                  *)
MixturesAreOrdered ==
  \A p \in Prefixes : \A j, k \in DOMAIN Charts :
    j < k => chart[p][j].call >= chart[p][k].call

(* The CSV file never runs ahead of the charts: beside a table of call n   *)
(* lies a complete set of charts of that call, or what later calls made    *)
(* of it.                                                                  *)
TableHasItsCharts ==
  \E p \in Prefixes : \A k \in DOMAIN Charts : chart[p][k].call >= table.call

(* What a call with a window wrote shows that window, the CSV file too:    *)
(* the files of the heptathlon are of its own hours and no others.         *)
OneWindow ==
  window = "given" =>
    /\ \A k \in DOMAIN Charts :
         chart[prefix][k].call = call => chart[prefix][k].until = Given
    /\ table.call = call => table.until = Given

(* All a reader of images/ may rely on. *)
PlotsAreConsistent ==
  ReturnedIsWhole /\ MixturesAreOrdered /\ TableHasItsCharts /\ OneWindow
=============================================================================
