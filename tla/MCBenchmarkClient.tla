--------------------------- MODULE MCBenchmarkClient ---------------------------
(* BenchmarkClient with two launches, so that one meets what another left. *)
EXTENDS BenchmarkClient
=============================================================================
