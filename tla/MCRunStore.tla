----------------------------- MODULE MCRunStore -----------------------------
(* Lease instance: one run, two workers and enough clock for an expiry, a   *)
(* takeover, a refresh, a release and a second tenure of the same worker.   *)
EXTENDS RunStore, TLC

OwnerSymmetry == Permutations(Owners)
=============================================================================
