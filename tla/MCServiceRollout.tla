--------------------------- MODULE MCServiceRollout ---------------------------
(* Two services, which the scripts take in opposite orders.                *)
EXTENDS ServiceRollout

MCDeployOrder == <<"spring", "nodejs">>
MCCreateOrder == <<"nodejs", "spring">>
=============================================================================
