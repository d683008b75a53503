------------------------------ MODULE MCHeptathlon ------------------------------
EXTENDS Heptathlon

CONSTANTS quarkus, fiber

(* Two services: what one leaves behind meets what the next one starts.    *)
ServicesDef == <<quarkus, fiber>>
RatesDef == <<50, 100>>
=============================================================================
