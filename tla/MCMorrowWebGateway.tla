------------------------- MODULE MCMorrowWebGateway -------------------------
(* An instance for TLC: m1 is the page's message, any other one a device's. *)
EXTENDS MorrowWebGateway, TLC

CONSTANTS m1, t1, t2

MCSource == [m \in Turn |-> IF m = m1 THEN "web" ELSE "device"]
=============================================================================
