--------------------------- MODULE MCEventBuffer ---------------------------
(* A run loop and one or two tasks that write to the session store while    *)
(* the run is active.                                                       *)
EXTENDS EventBuffer, TLC

BackgroundSymmetry == Permutations(Background)
=============================================================================
