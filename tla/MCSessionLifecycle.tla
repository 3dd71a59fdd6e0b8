------------------------- MODULE MCSessionLifecycle -------------------------
(* A root with a background worker, and another root.                        *)
EXTENDS SessionLifecycle
=============================================================================
