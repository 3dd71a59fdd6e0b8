------------------------------ MODULE Workflow ------------------------------
(***************************************************************************)
(* A durable workflow (src/src/linch/ext/workflow): a fan-out of branches  *)
(* (wf.parallel, wf.settled, wf.pipeline, nested once), each a sequence of *)
(* journaled calls (wf.agent, wf.step, wf.interrupt), run by one process   *)
(* after another over the event log of its run (RunStore).                 *)
(*                                                                         *)
(* A call is known by its key, the hash of what it is asked to do, and the *)
(* occurrence of that key in this process; its value is where and in which *)
(* process ("era") it was produced.  Everything between two awaits is one  *)
(* step, and an append is applied by the store before it returns.  Events  *)
(* without a result (phases, starts, requests) are left out: a resume      *)
(* reads nothing from them.  Retries inside one call are one execution.    *)
(***************************************************************************)
EXTENDS Integers, Sequences, FiniteSets

CONSTANTS
    Branches,    \* the branches of all fan-outs, numbered in issue order
    Parent,      \* the branch that fans a branch out, or Root
    Root,
    Calls,       \* the keys each branch calls, in order, after its fan-out
    Settles,     \* the branches whose fan-out is wf.settled
    Interrupts,  \* the keys of wf.interrupt
    Slots,       \* max_concurrency
    Every,       \* journal_snapshot_every, 0 for never
    MaxEras,     \* bound: processes that run the workflow
    MaxFaults    \* bound: crashes, failed calls, failed writes, deadlines

ASSUME WorkflowAssumption ==
    /\ Branches \subseteq Nat /\ Root \notin Branches
    /\ Parent \in [Branches -> Branches \cup {Root}]
    /\ \A b \in Branches : Parent[b] # Root => Parent[Parent[b]] = Root
    /\ Settles \subseteq Branches
    /\ Slots \in Nat \ {0} /\ Every \in Nat
    /\ MaxEras \in Nat /\ MaxFaults \in Nat

VARIABLES
    status,     \* of the run row; "none" before create_run
    log,        \* durable result events: key, occurrence, value
    stored,     \* the journal snapshot in the durable checkpoint
    era,        \* how many processes have run the workflow
    live,       \* a process runs it now
    journal,    \* results in memory, by key and occurrence
    counter,    \* occurrences of each key issued by this process
    answers,    \* keys whose resume= answer is left
    watermark,  \* highest sequence number seen
    pending,    \* records since the last snapshot
    taken,      \* the last snapshot of this process, or NoSnapshot
    pc,         \* where each branch is
    at,         \* the call each branch is at
    flight,     \* the record of the call a branch is at
    stopping,   \* why each fan-out is being cancelled, or "no"
    faults

durable == <<status, log, stored>>
memory == <<journal, counter, answers, watermark, pending, taken>>
vars == <<durable, era, live, memory, pc, at, flight, stopping, faults>>

Keys == UNION {{Calls[b][i] : i \in DOMAIN Calls[b]} : b \in Branches}
Children(b) == {c \in Branches : Parent[c] = b}
Inside(p) == Children(p) \cup UNION {Children(b) : b \in Children(p)}
Fans == {Parent[b] : b \in Branches} \cup {Root}
Halted(b) == \E p \in Fans : b \in Inside(p) /\ stopping[p] # "no"
Key(b) == Calls[b][at[b]]
NoSnapshot == [after |-> 0, records |-> <<>>]
NoRecord == [key |-> "none"]
Working == {"fan", "next", "run", "ask", "append", "applied", "snapshot"}
Over == {"done", "stopped", "failed", "suspended"}

(* A result, and the same one under its key and occurrence                  *)
Value(b) == [by |-> b, at |-> at[b], era |-> era]
Entry(k, n, v) == [key |-> k, occurrence |-> n, value |-> v]
Id(e) == <<e.key, e.occurrence>>
Put(j, e) == [x \in DOMAIN j \cup {Id(e)} |-> IF x = Id(e) THEN e.value ELSE j[x]]

-----------------------------------------------------------------------------
(* The journal.                                                             *)

(* from_stored_events: the snapshot, and the events after its watermark     *)
Rebuilt(snapshot, events) ==
    LET tail == SubSeq(events, snapshot.after + 1, Len(events))
        fold[i \in 0..Len(tail)] ==
            IF i = 0 THEN snapshot.records ELSE Put(fold[i-1], tail[i])
    IN fold[Len(tail)]

(* Fault: a result is kept in the event log only.                           *)
JournaledNowhere(e) == journal

(* WorkflowJournal.record, before the event is appended                     *)
Journaled(e) == Put(journal, e)

(* Fault: identical calls share one occurrence.                             *)
OccurrenceShared(k) == 0

(* next_occurrence                                                          *)
Occurrence(k) == counter[k]

-----------------------------------------------------------------------------
(* Branches.                                                                *)

Active(b) == pc[b] \in Working

(* Fault: a nested fan-out takes its slots from the outer one's semaphore.  *)
SlotFreeShared(b) == Cardinality({c \in Branches : Active(c)}) < Slots

(* _parallel_semaphore: a fan-out inside a branch has slots of its own      *)
SlotFree(b) == Cardinality({c \in Children(Parent[b]) : Active(c)}) < Slots

(* A fan-out starts its branches in order, as slots become free; a task     *)
(* that has no slot to wait for starts before those created after it        *)
Created(b) == live /\ pc[b] = "idle" /\ ~ Halted(b) /\ (Parent[b] # Root => pc[Parent[b]] = "fan")
NeverWaits(b) == Cardinality(Children(Parent[b])) <= Slots

MayStart(b) ==
    /\ Created(b) /\ SlotFree(b)
    /\ \A c \in Branches : c < b /\ Created(c) => Parent[c] # Parent[b] /\ ~ NeverWaits(c)

Go(b, where) == pc' = [pc EXCEPT ![b] = where]

(* _cancel_and_drain of the fan-out of p: what waits for a slot, a call or  *)
(* a checkpoint write is cancelled, an append in flight is drained first    *)
Cancelled(p) ==
    [c \in Branches |->
        IF c \in Inside(p) /\ pc[c] \notin {"append", "applied"} \cup Over THEN "stopped" ELSE pc[c]]

(* A branch raises: the gather of a parallel fan-out reacts to the first,   *)
(* the one of a settled fan-out waits for the others                        *)
Fail(b, why) ==
    LET p == Parent[b] IN
    IF Halted(b) THEN Go(b, "stopped") /\ UNCHANGED stopping
    ELSE IF p \in Settles THEN Go(b, why) /\ UNCHANGED stopping
    ELSE /\ stopping' = [stopping EXCEPT ![p] = why]
         /\ pc' = [Cancelled(p) EXCEPT ![b] = "stopped"]

(* self._resume.pop(key)                                                    *)
AnswersWithout(k) == answers \ {k}

(* A branch issues its next call: it is replayed, executed, answered, or    *)
(* asks                                                                     *)
Issue(b) ==
    LET k == Key(b)
        n == Occurrence(k)
        id == <<k, n>>
        known == id \in DOMAIN journal
        answered == k \in Interrupts /\ k \in answers
    IN /\ counter' = [counter EXCEPT ![k] = @ + 1]
       /\ flight' = [flight EXCEPT ![b] = Entry(k, n, IF known THEN journal[id] ELSE Value(b))]
       /\ Go(b, IF known \/ answered THEN "append" ELSE IF k \in Interrupts THEN "ask" ELSE "run")
       /\ IF ~ known /\ answered
          THEN journal' = Journaled(Entry(k, n, Value(b))) /\ answers' = AnswersWithout(k)
          ELSE UNCHANGED <<journal, answers>>
       /\ UNCHANGED <<durable, era, live, watermark, pending, taken, at, stopping, faults>>

(* A task runs from its slot to its first await in one step                 *)
Start(b) ==
    /\ MayStart(b)
    /\ IF Children(b) = {} THEN Issue(b)
       ELSE Go(b, "fan") /\ UNCHANGED <<durable, era, live, memory, at, flight, stopping, faults>>

(* a branch goes on after its last call, or after its fan-out; failures in  *)
(* a settled one are outcomes                                               *)
Ready(b) ==
    \/ pc[b] = "next"
    \/ pc[b] = "fan" /\ \A c \in Children(b) : pc[c] \in {"done", "failed"}

Call(b) ==
    /\ live /\ Ready(b) /\ at[b] <= Len(Calls[b])
    /\ Issue(b)

(* The call returned: its record is journaled and its event is appended     *)
Executed(b) ==
    /\ live /\ pc[b] = "run"
    /\ journal' = Journaled(flight[b])
    /\ Go(b, "append")
    /\ UNCHANGED <<durable, era, live, counter, answers, watermark, pending, taken,
                   at, flight, stopping, faults>>

(* interrupt_requested is appended, and the interrupt suspends the workflow *)
Suspend(b) ==
    /\ live /\ pc[b] = "ask"
    /\ Fail(b, "suspended")
    /\ UNCHANGED <<durable, era, live, memory, at, flight, faults>>

Applied(b) ==
    /\ live /\ pc[b] = "append"
    /\ log' = Append(log, flight[b])
    /\ Go(b, "applied")
    /\ UNCHANGED <<status, stored, era, live, memory, at, flight, stopping, faults>>

(* the sequence number the store gave to b's event                          *)
SeqOf(b) == CHOOSE i \in DOMAIN log : log[i] = flight[b] /\ \A j \in (i+1)..Len(log) : log[j] # flight[b]

(* _emit returned, and raises if the branch was cancelled meanwhile; a      *)
(* fresh record may complete the next snapshot, a replayed one does not     *)
(* count                                                                    *)
Returned(b) ==
    LET seen == IF SeqOf(b) > watermark THEN SeqOf(b) ELSE watermark
        fresh == flight[b].value.era = era
        counted == Every > 0 /\ fresh /\ ~ Halted(b)
        due == counted /\ pending + 1 = Every
    IN /\ live /\ pc[b] = "applied"
       /\ watermark' = seen
       /\ at' = [at EXCEPT ![b] = @ + 1]
       /\ IF due
          THEN /\ taken' = [after |-> seen, records |-> journal]
               /\ pending' = 0
               /\ Go(b, "snapshot")
          ELSE /\ pending' = IF counted THEN pending + 1 ELSE pending
               /\ Go(b, IF Halted(b) THEN "stopped" ELSE IF at[b] = Len(Calls[b]) THEN "done" ELSE "next")
               /\ UNCHANGED taken
       /\ flight' = [flight EXCEPT ![b] = IF due THEN taken' ELSE NoRecord]
       /\ UNCHANGED <<durable, era, live, journal, counter, answers, stopping, faults>>

(* _maybe_snapshot: the checkpoint write of a snapshot, each in its time    *)
Saved(b) ==
    /\ live /\ pc[b] = "snapshot"
    /\ stored' = flight[b]
    /\ flight' = [flight EXCEPT ![b] = NoRecord]
    /\ Go(b, "next")
    /\ UNCHANGED <<status, log, era, live, memory, at, stopping, faults>>

EndBranch(b) ==
    /\ live /\ Ready(b) /\ at[b] > Len(Calls[b])
    /\ Go(b, "done")
    /\ UNCHANGED <<durable, era, live, memory, at, flight, stopping, faults>>

(* parallel and settled raise in their caller once their branches are over  *)
Unwind(b) ==
    /\ live /\ pc[b] = "fan"
    /\ \A c \in Children(b) : pc[c] \in Over
    /\ \/ stopping[b] # "no" /\ Fail(b, stopping[b])
       \/ (\E c \in Children(b) : pc[c] = "suspended") /\ Fail(b, "suspended")
    /\ UNCHANGED <<durable, era, live, memory, at, flight, faults>>

-----------------------------------------------------------------------------
(* Failures.                                                                *)

Fault == faults < MaxFaults /\ faults' = faults + 1

(* A call fails for good (timeout, last retry, abort signal), an append or  *)
(* a checkpoint write raises, applied or not, or the branch itself raises   *)
Raise(b) ==
    /\ live /\ pc[b] \in Working \ {"fan"} /\ Fault
    /\ Fail(b, "failed")
    /\ UNCHANGED <<durable, era, live, memory, at, flight>>

(* deadline_ms passes, the caller cancels, or mark_completed raises         *)
Deadline ==
    /\ live /\ stopping[Root] = "no" /\ Fault
    /\ stopping' = [stopping EXCEPT ![Root] = "failed"]
    /\ pc' = Cancelled(Root)
    /\ UNCHANGED <<durable, era, live, memory, at, flight>>

Nobody == [c \in Branches |-> "idle"]

(* a process begins with empty memory, and leaves none behind               *)
Fresh(results, given) ==
    /\ journal' = results /\ answers' = given
    /\ counter' = [k \in Keys |-> 0]
    /\ watermark' = 0 /\ pending' = 0 /\ taken' = NoSnapshot
    /\ pc' = Nobody /\ at' = [b \in Branches |-> 1]
    /\ flight' = [b \in Branches |-> NoRecord]
    /\ stopping' = [p \in Fans |-> "no"]

Gone == live' = FALSE /\ Fresh(<<>>, {})

(* The process is gone; what it left in the store stays.  A process whose   *)
(* last write of the run row raises leaves no more.                         *)
Crash ==
    /\ live /\ Fault
    /\ Gone
    /\ UNCHANGED <<durable, era>>

-----------------------------------------------------------------------------
(* run_workflow.                                                            *)

(* create_run, or a claim of the existing run in whatever status it was     *)
(* left, with answers for some interrupts                                   *)
Run(given) ==
    /\ ~ live /\ era < MaxEras
    /\ era' = era + 1 /\ live' = TRUE
    /\ status' = IF status = "none" THEN "running" ELSE status
    /\ Fresh(Rebuilt(stored, log), given)
    /\ UNCHANGED <<log, stored, faults>>

Drained == \A b \in Branches : pc[b] \in Over

(* mark_completed writes a checkpoint of its own                            *)
Complete ==
    /\ live /\ stopping[Root] = "no" /\ Drained
    /\ status' = "completed" /\ stored' = NoSnapshot
    /\ Gone
    /\ UNCHANGED <<log, era, faults>>

(* A suspend carries the last snapshot of this process forward; mark_failed *)
(* leaves the checkpoint as it was                                          *)
Stop ==
    /\ live /\ stopping[Root] # "no" /\ Drained
    /\ status' = stopping[Root]
    /\ stored' = IF stopping[Root] = "suspended" THEN taken ELSE stored
    /\ Gone
    /\ UNCHANGED <<log, era, faults>>

Init ==
    /\ status = "none" /\ log = <<>> /\ stored = NoSnapshot
    /\ era = 0 /\ live = FALSE
    /\ journal = <<>> /\ counter = [k \in Keys |-> 0] /\ answers = {}
    /\ watermark = 0 /\ pending = 0 /\ taken = NoSnapshot
    /\ pc = Nobody /\ at = [b \in Branches |-> 1]
    /\ flight = [b \in Branches |-> NoRecord]
    /\ stopping = [p \in Fans |-> "no"] /\ faults = 0

Step(b) ==
    \/ Start(b) \/ Call(b) \/ Executed(b) \/ Suspend(b) \/ Applied(b) \/ Returned(b)
    \/ Saved(b) \/ EndBranch(b) \/ Unwind(b)

Next ==
    \/ \E given \in SUBSET Interrupts : Run(given)
    \/ \E b \in Branches : Step(b) \/ Raise(b)
    \/ Deadline \/ Crash \/ Complete \/ Stop

(* The event loop runs its tasks, and calls and writes return.              *)
Spec ==
    /\ Init /\ [][Next]_vars
    /\ \A b \in Branches : WF_vars(Step(b))
    /\ WF_vars(Complete) /\ WF_vars(Stop)

-----------------------------------------------------------------------------
(* Properties.                                                              *)

Places == {"idle"} \cup Working \cup Over

(* The types of the variables.                                              *)
TypeOK ==
    /\ status \in {"none", "running", "suspended", "failed", "completed"}
    /\ stopping \in [Fans -> {"no", "suspended", "failed"}]
    /\ pc \in [Branches -> Places] /\ live \in BOOLEAN
    /\ era \in 0..MaxEras /\ faults \in 0..MaxFaults
    /\ stored.after \in 0..Len(log) /\ taken.after \in 0..Len(log)
    /\ watermark \in 0..Len(log)

(* A journaled call is replayed with its own result and never runs again    *)
(* (wf.step: "a resumed run returns it without executing fn a second        *)
(* time"): an append is of a value this very call produced, and no call     *)
(* executes whose own result is in the event log, over suspensions,         *)
(* failures and crashes, with snapshots, and for identical calls.           *)
ReplayExact ==
    \A b \in Branches : live =>
        /\ pc[b] \in {"append", "applied"} =>
              flight[b].value.by = b /\ flight[b].value.at = at[b]
        /\ pc[b] = "run" =>
              \A i \in DOMAIN log : ~ (log[i].value.by = b /\ log[i].value.at = at[b])

(* The snapshot is only a shortcut: what a resume rebuilds from it and the  *)
(* tail of the log holds every result the whole log holds, and the same     *)
(* (_maybe_snapshot: "a record the snapshot missed is guaranteed to be in   *)
(* that tail"), whatever append or checkpoint write is in flight.           *)
SnapshotLosesNothing ==
    LET whole == Rebuilt(NoSnapshot, log)
        short == Rebuilt(stored, log)
    IN \A id \in DOMAIN whole : id \in DOMAIN short /\ short[id] = whole[id]

(* No fan-out waits for itself: a process that runs the workflow completes, *)
(* suspends, fails or dies, however wide and nested the fan-out is.         *)
Ends == live ~> ~ live
=============================================================================
