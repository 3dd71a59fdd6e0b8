--------------------------- MODULE MCSessionInbox ---------------------------
(* Two sessions that share a mailbox address.                                *)
EXTENDS SessionInbox
=============================================================================
