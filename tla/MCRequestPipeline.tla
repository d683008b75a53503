--------------------------- MODULE MCRequestPipeline ---------------------------
(* Two requests in one service, whichever it is.                           *)
EXTENDS RequestPipeline

CONSTANTS r1, r2

TwoRequests == {r1, r2}
=============================================================================
