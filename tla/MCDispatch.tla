----------------------------- MODULE MCDispatch -----------------------------
(* A schedule whose session also gets requested runs, a batch of requests   *)
(* for two sessions, and enough clock for missed occurrences.               *)
EXTENDS Dispatch, TLC
CONSTANTS a, q1, q2
MCRuns == (Schedules \X (1..MaxTime)) \cup {q1, q2}
MCTarget == a :> "s1" @@ q1 :> "s1" @@ q2 :> "s2"
=============================================================================
