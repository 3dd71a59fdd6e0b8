---------------------------- MODULE EventBuffer ----------------------------
(***************************************************************************)
(* RunEventBuffer (src/src/linch/loop/checkpoint.py): the per-run buffer    *)
(* that group-commits events and running checkpoints, driven by the run    *)
(* loop and, through the barrier in durable_call, by every other task that *)
(* writes to the session store while the run is active (background tools,  *)
(* their notifications, tools that update session metadata).               *)
(*                                                                         *)
(* Everything between two awaits is one step.  The commit lock is held     *)
(* exactly while a store write is in flight, so write # NoWrite stands for *)
(* "the lock is taken".  Items are identified by their position in         *)
(* recorded, the program order in which the run produced them.             *)
(***************************************************************************)
EXTENDS Integers, Sequences, FiniteSets, SequencesExt

CONSTANTS
    Background,     \* tasks other than the run loop that write the session
    Loop,           \* the run loop's task
    NoWrite,        \* no store write in flight
    LoopFaults,     \* how a write of the run loop may fail
    BarrierFaults,  \* how a write of a background task may fail
    Cancellation,   \* whether the worker may cancel the run task
    Through,        \* whether saves that write through occur while running
    MaxRecorded,    \* bound: items a run records
    MaxForeign      \* bound: events appended around the buffer

(* rejected: an ordinary exception, nothing was applied; unavailable: a      *)
(* transient failure or a lost lease, which may come after the write took    *)
(* effect, and after which the run loop writes nothing more.                *)
Faults == {"rejected", "unavailable"}

Tasks == Background \cup {Loop}
TerminalStatus == {"completed", "failed", "aborted"}

(* A store write: who awaits it, what it carries, and the checkpoint that   *)
(* was held when it was issued                                              *)
WriteRow == [by : Tasks, events : Seq(Nat), ckpt : Nat,
             status : TerminalStatus \cup {"running"}, held : Nat]

ASSUME EventBufferAssumption ==
    /\ Loop \notin Background /\ NoWrite \notin WriteRow
    /\ LoopFaults \subseteq Faults
    /\ BarrierFaults \subseteq Faults
    /\ Cancellation \in BOOLEAN /\ Through \in BOOLEAN
    /\ MaxRecorded \in Nat /\ MaxForeign \in Nat

VARIABLES
    recorded,   \* history: kinds of all items recorded, in program order
    pending,    \* RunEventBuffer._pending
    dirty,      \* RunEventBuffer._dirty: the held checkpoint, 0 for none
    covers,     \* RunEventBuffer._dirty_covers
    failed,     \* RunEventBuffer._atomic_write_failed
    lastSeq,    \* RunEventBuffer._last_seq
    heldOut,    \* the result kept out of the buffer across terminal cleanup
    write,      \* the store write in flight
    pc,         \* where each task is
    need,       \* the checkpoint held when a task's session write began
    log,        \* durable events; 0 for one appended around the buffer
    ckpt,       \* durable checkpoint
    status,     \* durable run status
    session,    \* history: highest need of a durable session record
    uncertain   \* history: events applied by a write whose reply was lost

buffer == <<pending, dirty, covers, failed, lastSeq>>
store  == <<log, ckpt, status>>
hist   == <<session, uncertain>>
vars   == <<recorded, buffer, heldOut, write, pc, need, store, hist>>

Init ==
    /\ recorded = <<>>
    /\ pending = <<>> /\ dirty = 0 /\ covers = 0 /\ failed = FALSE /\ lastSeq = 0
    /\ heldOut = <<>>
    /\ write = NoWrite
    /\ pc = [t \in Tasks |-> IF t = Loop THEN "running" ELSE "idle"]
    /\ need = [t \in Tasks |-> 0]
    /\ log = <<>> /\ ckpt = 0 /\ status = "running"
    /\ session = 0 /\ uncertain = {}

Room(n) == Len(recorded) + n <= MaxRecorded
Next1 == Len(recorded) + 1      \* the position the next item gets
Go(t, where) == pc' = [pc EXCEPT ![t] = where]

-----------------------------------------------------------------------------
(* The run loop between two awaits.                                         *)

(* append                                                                   *)
RecordEvent ==
    /\ pc[Loop] = "running" /\ Room(4)
    /\ recorded' = Append(recorded, "event")
    /\ pending' = Append(pending, Next1)
    /\ UNCHANGED <<dirty, covers, failed, lastSeq, heldOut, write, pc, need, store, hist>>

(* save_checkpoint on the deferring branch, defer_checkpoint                *)
DeferCheckpoint ==
    /\ pc[Loop] = "running" /\ Room(4)
    /\ recorded' = Append(recorded, "checkpoint")
    /\ dirty' = Next1
    /\ covers' = Len(pending)
    /\ UNCHANGED <<pending, failed, lastSeq, heldOut, write, pc, need, store, hist>>

(* save_checkpoint on the write-through branch with something buffered:     *)
(* flush_with_checkpoint of the newest state.                               *)
SaveThrough ==
    /\ Through
    /\ pc[Loop] = "running" /\ Room(4)
    /\ pending # <<>> \/ dirty # 0
    /\ recorded' = Append(recorded, "checkpoint")
    /\ Go(Loop, "save")
    /\ UNCHANGED <<buffer, heldOut, write, need, store, hist>>

CallFlush ==
    /\ pc[Loop] = "running"
    /\ Go(Loop, "flush")
    /\ UNCHANGED <<recorded, buffer, heldOut, write, need, store, hist>>

(* The three ways a run reaches its terminal write.  A success holds its    *)
(* result out of the buffer while cleanup runs; an abort and a failure go   *)
(* straight to the atomic write of status, checkpoint and result.           *)
RecordSuccess ==
    /\ pc[Loop] = "running" /\ Room(2)
    /\ recorded' = Append(recorded, "result")
    /\ heldOut' = <<Next1>>
    /\ Go(Loop, "cleanup")
    /\ UNCHANGED <<buffer, write, need, store, hist>>

(* _close_terminal_processes returned; flush the state before the result    *)
CleanupDone ==
    /\ pc[Loop] = "cleanup"
    /\ Go(Loop, "flushBeforeResult")
    /\ UNCHANGED <<recorded, buffer, heldOut, write, need, store, hist>>

RecordTerminal(where) ==
    /\ recorded' = recorded \o <<"result", "checkpoint">>
    /\ Go(Loop, where)

RecordAbort ==
    /\ pc[Loop] = "running" /\ Room(2)
    /\ RecordTerminal("abort")
    /\ pending' = Append(pending, Next1)
    /\ UNCHANGED <<dirty, covers, failed, lastSeq, heldOut, write, need, store, hist>>

(* An exception anywhere in the loop: emit_exception_terminal appends the   *)
(* error result to whatever is pending, a held-out result included          *)
(* (_complete_with_pending_events puts it back in its finally clause).      *)
Raise(rest) ==
    /\ RecordTerminal("fail")
    /\ pending' = rest \o heldOut \o <<Next1>>
    /\ heldOut' = <<>>

RunFails ==
    /\ pc[Loop] \in {"running", "cleanup"} /\ Room(2)
    /\ Raise(pending)
    /\ UNCHANGED <<dirty, covers, failed, lastSeq, write, need, store, hist>>

-----------------------------------------------------------------------------
(* Taking the commit lock.  A write is issued by the task that took it; the *)
(* events it carries leave the buffer at once.                              *)

Issue(t, n, checkpoint, newStatus) ==
    LET split == Min({n, Len(pending)}) IN
    /\ write' = [by |-> t, events |-> SubSeq(pending, 1, split),
                 ckpt |-> checkpoint, status |-> newStatus, held |-> dirty]
    /\ pending' = SubSeq(pending, split + 1, Len(pending))
    /\ UNCHANGED <<recorded, dirty, covers, failed, lastSeq, heldOut, pc, need, store, hist>>

(* The live RunCheckpoint object: the newest one recorded.                  *)
LastCheckpoint == CHOOSE i \in 1..Len(recorded) :
    /\ recorded[i] = "checkpoint"
    /\ \A j \in i+1..Len(recorded) : recorded[j] # "checkpoint"

(* How many pending events a barrier takes.                                 *)
(* Fault: flush takes only what the last snapshot covered.                 *)
FlushTakesCovered == covers

FlushTakes == Len(pending)

(* Fault: a session barrier takes every pending event.                     *)
BarrierTakesAll == Len(pending)

BarrierTakes == covers

(* What the loop does once a barrier call returned.                         *)
PutBack == pending' = pending \o heldOut /\ heldOut' = <<>>

Returned(where) ==
    CASE where \in {"flush", "save"} ->
            /\ Go(Loop, "running")
            /\ UNCHANGED <<recorded, pending, heldOut>>
      [] where = "flushBeforeResult" ->
            /\ Go(Loop, "completing")
            /\ PutBack
            /\ UNCHANGED recorded
      [] where = "complete" -> Go(Loop, "final") /\ UNCHANGED <<recorded, pending, heldOut>>
      [] where \in {"abort", "fail", "final"} ->
            Go(Loop, "ended") /\ UNCHANGED <<recorded, pending, heldOut>>

(* flush: nothing at all after a failed atomic write; otherwise the held    *)
(* checkpoint with every pending event, or the pending events alone.        *)
FlushPoints == {"flush", "flushBeforeResult", "final"}

Flush ==
    /\ write = NoWrite
    /\ pc[Loop] \in FlushPoints
    /\ IF failed \/ (dirty = 0 /\ pending = <<>>)
       THEN /\ Returned(pc[Loop])
            /\ UNCHANGED <<dirty, covers, failed, lastSeq, write, need, store, hist>>
       ELSE Issue(Loop, FlushTakes, dirty, "running")

(* The phase becomes completed and the terminal write is called.            *)
CallComplete ==
    /\ pc[Loop] = "completing"
    /\ recorded' = Append(recorded, "checkpoint")
    /\ Go(Loop, "complete")
    /\ UNCHANGED <<buffer, heldOut, write, need, store, hist>>

(* The finally clause leaves the buffer alone in the phases started and     *)
(* tool_results_appended.                                                   *)
SkipFinalFlush ==
    /\ pc[Loop] = "final"
    /\ write # NoWrite => write.by # Loop
    /\ Go(Loop, "ended")
    /\ UNCHANGED <<recorded, buffer, heldOut, write, need, store, hist>>

(* flush_with_checkpoint: a running save with nothing left to write returns *)
(* at once; a terminal status is always written.                            *)
FlushWithCheckpoint ==
    /\ write = NoWrite
    /\ \/ /\ pc[Loop] = "save"
          /\ IF pending = <<>> /\ dirty = 0
             THEN /\ Returned("save")
                  /\ UNCHANGED <<dirty, covers, failed, lastSeq, write, need, store, hist>>
             ELSE Issue(Loop, FlushTakes, LastCheckpoint, "running")
       \/ /\ pc[Loop] = "complete"
          /\ Issue(Loop, FlushTakes, LastCheckpoint, "completed")
       \/ /\ pc[Loop] = "abort"
          /\ Issue(Loop, FlushTakes, LastCheckpoint, "aborted")
       \/ /\ pc[Loop] = "fail"
          /\ Issue(Loop, FlushTakes, LastCheckpoint, "failed")

(* A session write of any task starts with flush_checkpoint.                *)
BeginSessionWrite(t) ==
    /\ pc[t] = IF t = Loop THEN "running" ELSE "idle"
    /\ pc[Loop] # "ended"
    /\ Go(t, "barrier")
    /\ need' = [need EXCEPT ![t] = dirty]
    /\ UNCHANGED <<recorded, buffer, heldOut, write, store, hist>>

(* Fault: a barrier that finds the lock taken does not wait for it.        *)
FlushCheckpointNotWaiting(t) ==
    /\ pc[t] = "barrier"
    /\ IF write # NoWrite \/ failed \/ dirty = 0
       THEN /\ Go(t, "session")
            /\ UNCHANGED <<recorded, buffer, heldOut, write, need, store, hist>>
       ELSE Issue(t, BarrierTakes, dirty, "running")

FlushCheckpoint(t) ==
    /\ write = NoWrite
    /\ pc[t] = "barrier"
    /\ IF failed \/ dirty = 0
       THEN /\ Go(t, "session")
            /\ UNCHANGED <<recorded, buffer, heldOut, write, need, store, hist>>
       ELSE Issue(t, BarrierTakes, dirty, "running")

SessionWrite(t) ==
    /\ pc[t] = "session"
    /\ session' = IF need[t] > session THEN need[t] ELSE session
    /\ Go(t, IF t = Loop THEN "running" ELSE "idle")
    /\ UNCHANGED <<recorded, buffer, heldOut, write, need, store, uncertain>>

(* A background tool appends its completion event straight to the store.    *)
ForeignAppend ==
    /\ Background # {}
    /\ Len(SelectSeq(log, LAMBDA i : i = 0)) < MaxForeign
    /\ log' = Append(log, 0)
    /\ UNCHANGED <<recorded, buffer, heldOut, write, pc, need, ckpt, status, hist>>

-----------------------------------------------------------------------------
(* The store write in flight.                                               *)

(* Fault: the kind of the record is stored as the status.                  *)
ApplyKind ==
    /\ log' = log \o write.events
    /\ ckpt' = IF write.ckpt = 0 THEN ckpt ELSE write.ckpt
    /\ status' = IF write.ckpt = 0 THEN status ELSE recorded[write.ckpt]

Apply ==
    /\ log' = log \o write.events
    /\ ckpt' = IF write.ckpt = 0 THEN ckpt ELSE write.ckpt
    /\ status' = IF write.ckpt = 0 THEN status ELSE write.status

(* The committed snapshot is dropped unless a newer one was deferred        *)
(* meanwhile.                                                               *)
(* Faults: it is dropped whatever it is; it is never dropped.              *)
DirtyAfterDropped == 0
DirtyAfterKept == dirty

DirtyAfter == IF dirty = write.held THEN 0 ELSE dirty

(* The watermark follows the sequence numbers the store returned.           *)
(* Fault: it counts what is in the buffer when the write returns as well.  *)
SeqAfterCounting ==
    IF write.events = <<>> THEN lastSeq ELSE lastSeq + Len(write.events) + Len(pending)

SeqAfter == IF write.events = <<>> THEN lastSeq ELSE Len(log')

WriteSucceeds ==
    /\ write # NoWrite
    /\ Apply
    /\ IF write.ckpt = 0
       THEN UNCHANGED <<dirty, failed>>
       ELSE /\ failed' = FALSE
            /\ dirty' = DirtyAfter
    /\ lastSeq' = SeqAfter
    /\ write' = NoWrite
    /\ IF write.by = Loop /\ pc[Loop] # "barrier"
       THEN Returned(pc[Loop])
       ELSE /\ Go(write.by, "session")
            /\ UNCHANGED <<recorded, pending, heldOut>>
    /\ UNCHANGED <<covers, need, hist>>

(* Failure: the events go back in front; only an atomic write (one that     *)
(* carried a checkpoint) marks the buffer failed.                           *)
(* Fault: the events of a failed write are dropped.                        *)
RestoredNone == pending

Restored == write.events \o pending

(* Fault: a failed atomic write leaves no trace.                           *)
MarksNothing == failed' = failed

MarksFailed == failed' = (failed \/ write.ckpt # 0)

LoopRaises ==
    IF pc[Loop] \in {"final", "fail"}
    THEN /\ pending' = Restored
         /\ Go(Loop, IF pc[Loop] = "fail" THEN "final" ELSE "ended")
         /\ UNCHANGED <<recorded, heldOut>>
    ELSE Raise(Restored)

AppliedUnnoticed ==
    /\ Apply
    /\ uncertain' = uncertain \cup ToSet(write.events)

WriteFails(fault) ==
    /\ write # NoWrite
    /\ fault \in IF write.by = Loop THEN LoopFaults ELSE BarrierFaults
    /\ \/ fault = "unavailable" /\ AppliedUnnoticed
       \/ UNCHANGED <<store, uncertain>>
    /\ MarksFailed
    /\ write' = NoWrite
    /\ IF write.by = Loop
       THEN IF fault = "unavailable"
            THEN /\ pending' = Restored /\ Go(Loop, "ended")
                 /\ UNCHANGED <<recorded, heldOut>>
            ELSE LoopRaises
       ELSE /\ pending' = Restored /\ Go(write.by, "idle")
            /\ UNCHANGED <<recorded, heldOut>>
    /\ UNCHANGED <<dirty, covers, lastSeq, need, session>>

(* The worker cancels the run task: the finally clauses put a held-out      *)
(* result back and flush; a write of the loop in flight may have landed.    *)
Cancel ==
    /\ Cancellation
    /\ pc[Loop] \notin {"final", "ended"}
    /\ Go(Loop, "final")
    /\ heldOut' = <<>>
    /\ IF write # NoWrite /\ write.by = Loop
       THEN /\ pending' = Restored \o heldOut
            /\ MarksFailed
            /\ write' = NoWrite
            /\ AppliedUnnoticed \/ UNCHANGED <<store, uncertain>>
       ELSE /\ pending' = pending \o heldOut
            /\ UNCHANGED <<failed, write, store, uncertain>>
    /\ UNCHANGED <<recorded, dirty, covers, lastSeq, need, session>>

-----------------------------------------------------------------------------
Ended == pc[Loop] = "ended" /\ UNCHANGED vars

Next ==
    \/ RecordEvent \/ DeferCheckpoint \/ SaveThrough \/ CallFlush
    \/ RecordSuccess \/ CleanupDone \/ RecordAbort \/ RunFails
    \/ Flush \/ FlushWithCheckpoint \/ CallComplete \/ SkipFinalFlush
    \/ \E t \in Tasks : BeginSessionWrite(t) \/ FlushCheckpoint(t) \/ SessionWrite(t)
    \/ ForeignAppend
    \/ WriteSucceeds
    \/ \E fault \in Faults : WriteFails(fault)
    \/ Cancel
    \/ Ended

Spec == Init /\ [][Next]_vars
-----------------------------------------------------------------------------
Positions == 1..Len(recorded)

(* Type correctness of the buffer, the store and the tasks.                 *)
TypeOK ==
    /\ recorded \in Seq({"event", "result", "checkpoint"})
    /\ pending \in Seq(Positions) /\ heldOut \in Seq(Positions)
    /\ dirty \in Positions \cup {0} /\ covers \in Nat
    /\ failed \in BOOLEAN /\ lastSeq \in Nat
    /\ log \in Seq(Positions \cup {0}) /\ ckpt \in Positions \cup {0}
    /\ status \in TerminalStatus \cup {"running"}
    /\ session \in Positions \cup {0} /\ uncertain \subseteq Positions
    /\ write # NoWrite => /\ write.by \in Tasks
                          /\ write.events \in Seq(Positions)
                          /\ write.ckpt \in Positions \cup {0}

(* The group-commit promise: the durable state is always one that writing   *)
(* every event and checkpoint through, in program order, would also have    *)
(* left in the store (class comment of RunEventBuffer).  Only an event whose *)
(* write took effect without a reply may be in the log a second time.       *)
Repeated(j) == log[j] \in uncertain /\ \E i \in 1..j-1 : log[i] = log[j]
OwnAt == {j \in 1..Len(log) : log[j] # 0 /\ ~Repeated(j)}
OwnLog == [j \in OwnAt |-> log[j]]
WT == INSTANCE WriteThrough WITH log <- OwnLog
RefinesWriteThrough == WT!Spec

(* last_seq is what a checkpoint stores as the tool-batch cursor; if it     *)
(* ran ahead of the log, a start event of the batch would be skipped by     *)
(* load_events(after_seq) and its tool run twice.                           *)
CursorNeverAhead == lastSeq <= Len(log)

(* A result event becomes durable together with the terminal status, never  *)
(* while the run is still running (_complete_with_pending_events).          *)
ResultOnlyWithTerminal ==
    status = "running" =>
        \A j \in 1..Len(log) : log[j] # 0 => recorded[log[j]] # "result"

(* flush is a barrier: when it returns, nothing recorded before it is left  *)
(* in memory ("flush() before provider dispatch, before each                *)
(* ToolCallStartEvent is yielded").                                         *)
BarrierCommits ==
    [][pc[Loop] = "flush" /\ pc'[Loop] = "running" => pending' = <<>> /\ dirty' = 0]_vars

(* durable_call: no session record is durable before the run checkpoint     *)
(* that was held when its write began.                                      *)
SessionAfterRunState == session <= ckpt

(* What is durable at any moment is a state the run was in: a result comes  *)
(* with its status, and session records after the run state.                *)
DurableOrder == ResultOnlyWithTerminal /\ SessionAfterRunState
=============================================================================
