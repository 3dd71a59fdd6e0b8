------------------------------ MODULE MCWorker ------------------------------
(* Two workers with one callback each, for takeovers, and a second callback *)
(* for one of them, for a job that the queue hands to one process twice.    *)
EXTENDS Worker
CONSTANTS w1, w2
Mixed == {<<w1, 1>>, <<w1, 2>>, <<w2, 1>>}
=============================================================================
