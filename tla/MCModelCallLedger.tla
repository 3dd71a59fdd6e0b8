------------------------- MODULE MCModelCallLedger -------------------------
(* A run whose compaction makes two calls side by side, one of a built-in   *)
(* strategy, and a second run of the tree that makes a primary call under   *)
(* the same budget.                                                         *)
EXTENDS ModelCallLedger
CONSTANTS parent, child, a1, a2, c1
MCRunOf == a1 :> parent @@ a2 :> parent @@ c1 :> child
=============================================================================
