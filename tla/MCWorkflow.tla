----------------------------- MODULE MCWorkflow -----------------------------
(* Two branches as wide as the slots, both fanning out: to the same call    *)
(* made side by side, and to a question after one of them.                  *)
EXTENDS Workflow, TLC
MCParent == 1 :> 0 @@ 2 :> 0 @@ 3 :> 1 @@ 4 :> 2
MCCalls == 1 :> <<>> @@ 2 :> <<>> @@ 3 :> <<"x", "ask">> @@ 4 :> <<"x">>
=============================================================================
