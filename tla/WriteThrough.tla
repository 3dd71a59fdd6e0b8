---------------------------- MODULE WriteThrough ----------------------------
(***************************************************************************)
(* What group commit promises about durable run state: "every committed    *)
(* state is one the write-through order also produced"                     *)
(* (src/src/linch/loop/checkpoint.py, RunEventBuffer).                     *)
(*                                                                         *)
(* A run records events and checkpoints in one program order.  Writing     *)
(* each of them through at once would leave in the store, at any instant,  *)
(* the events of a prefix of that order and the last checkpoint of the     *)
(* same prefix.  Group commit may lag behind and jump, but only from one   *)
(* such prefix to a longer one.                                            *)
(***************************************************************************)
EXTENDS Naturals, Sequences

VARIABLES
    recorded,   \* the kinds recorded so far, in program order
    log,        \* durable events, as positions in recorded, by their sequence
                \* number in the store (others take numbers in between)
    ckpt        \* durable checkpoint, as a position in recorded; 0 for none

wtVars == <<recorded, log, ckpt>>

Kinds == {"event", "result", "checkpoint"}

EventsOf(rec, n) == {i \in 1..n : rec[i] # "checkpoint"}

CheckpointOf(rec, n) ==
    LET at == {i \in 1..n : rec[i] = "checkpoint"}
    IN  IF at = {} THEN 0 ELSE CHOOSE i \in at : \A j \in at : j <= i

Init == recorded = <<>> /\ log = <<>> /\ ckpt = 0

(* One call records one item, or a terminal pair of a result and a final    *)
(* checkpoint.                                                              *)
Record ==
    /\ \E k \in Kinds : \/ recorded' = Append(recorded, k)
                        \/ recorded' = recorded \o <<"result", k>>
    /\ UNCHANGED <<log, ckpt>>

(* The events of a longer prefix, in its order, behind those that are there *)
(* already, and its checkpoint.                                             *)
Persist ==
    \E n \in 0..Len(recorded) :
        /\ {log'[seq] : seq \in DOMAIN log'} = EventsOf(recorded, n)
        /\ \A i, j \in DOMAIN log' : i < j => log'[i] < log'[j]
        /\ \A seq \in DOMAIN log : seq \in DOMAIN log' /\ log'[seq] = log[seq]
        /\ ckpt' = CheckpointOf(recorded, n)
        /\ ckpt <= ckpt'
        /\ UNCHANGED recorded

Spec == Init /\ [][Record \/ Persist]_wtVars
=============================================================================
