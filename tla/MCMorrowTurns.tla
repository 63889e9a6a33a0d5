--------------------------- MODULE MCMorrowTurns ---------------------------
(* One device and the web page: r1 and r2 are the device's, w is the page's. *)
EXTENDS MorrowTurnCoordinator, TLC

CONSTANTS r1, r2, w

MCDeviceOf == [r \in Request |-> IF r = w THEN Web ELSE "dev"]
MCSymmetry == Permutations(Request \ {w}) \cup Permutations(Thread)
=============================================================================
