------------------------------- MODULE Scheduler -------------------------------
(***************************************************************************)
(* One provider message with several tool calls (execute_tool_calls, driven *)
(* by run_tool_batch): permission of each call, the checkpoint of the      *)
(* decisions, detached background calls, then batches on a serial or a     *)
(* parallel lane, with a bounded number of attempts per call.              *)
(*                                                                         *)
(* A call's canonical input decides what the tool declares about it, so    *)
(* Inputs are records; equal inputs share one permission key.  Awaits are  *)
(* the boundaries of actions: an abort, a cancellation, an early close of  *)
(* the event stream or a crash can come at each.                           *)
(***************************************************************************)
EXTENDS Integers, FiniteSets

CONSTANTS
    N,          \* calls in the message, numbered in provider order
    Inputs,     \* [parallel, uses, retry, policy], uses \subseteq resource \X mode
    Cap,        \* max_tool_concurrency
    MaxAttempts,\* RetryOptions.max_attempts
    MaxBackground, \* bound: calls with the run_in_background hint
    MaxFaults   \* bound: failing attempts and approvals, aborts, crashes

ASSUME SchedulerAssumption ==
    /\ N \in Nat /\ Cap \in Nat \ {0} /\ MaxAttempts \in Nat \ {0}
    /\ MaxBackground \in Nat /\ MaxFaults \in Nat
    /\ \A x \in Inputs : /\ x.parallel \in BOOLEAN /\ x.retry \in BOOLEAN
                         /\ x.policy \in {"allow", "deny", "ask"}

Calls == 1..N

VARIABLES
    input,      \* canonical input of each call
    background, \* calls with the run_in_background hint
    strategy,   \* Agent.tool_batching_strategy
    pc,         \* where execute_tool_calls is
    asks,       \* calls that wait for resolve()
    decision,   \* PermissionDecision of each call
    approvals,  \* Session.current_turn_permission_decisions, by input
    saved,      \* the same, in the checkpoint
    rest,       \* foreground calls that are in no batch yet
    batch,      \* calls of the open batch
    started,    \* calls with a durable start event
    ends,       \* end events of each call
    task,       \* the call's execution
    tries,      \* attempts made, over all lives of the run
    aborted,    \* the abort signal
    lost,       \* calls that a crash interrupted: answered with a placeholder
    faults

fixed == <<input, background, strategy>>
perms == <<asks, decision, approvals, saved>>
exec  == <<task, tries>>
vars  == <<fixed, perms, pc, rest, batch, started, ends, exec, aborted, lost, faults>>

Unknown == [x \in Inputs |-> "none"]

Init ==
    /\ input \in [Calls -> Inputs]
    /\ background \in {b \in SUBSET Calls : Cardinality(b) <= MaxBackground}
    /\ strategy \in {"greedy", "maximal"}
    /\ pc = "evaluate"
    /\ asks = {} /\ decision = [c \in Calls |-> "none"]
    /\ approvals = Unknown /\ saved = Unknown
    /\ rest = {} /\ batch = {}
    /\ started = {} /\ ends = [c \in Calls |-> 0]
    /\ task = [c \in Calls |-> "none"] /\ tries = [c \in Calls |-> 0]
    /\ aborted = FALSE /\ lost = {} /\ faults = 0

Fault == faults < MaxFaults /\ faults' = faults + 1
Missing == Calls \ started   \* calls a resumed batch still has to run

(* Calls are gone through in provider order.                                 *)
First(c, calls) == c \in calls /\ \A d \in calls : c <= d

-----------------------------------------------------------------------------
(* Permissions.                                                              *)

(* First pass: the policy, then a stored decision, then the question.        *)
Evaluate ==
    /\ pc = "evaluate"
    /\ decision' = [c \in Calls |->
           IF input[c].policy = "ask" THEN approvals[input[c]] ELSE input[c].policy]
    /\ asks' = {c \in Missing : decision'[c] = "none"}
    /\ pc' = "resolve"
    /\ UNCHANGED <<fixed, approvals, saved, rest, batch, started, ends, exec, aborted, lost, faults>>

(* Second pass, one question at a time.  An answer is remembered for the     *)
(* turn; a question that fails denies the call and is not.                   *)
Resolve ==
    /\ pc = "resolve"
    /\ \E c \in Calls :
           /\ First(c, asks)
           /\ \/ \E answer \in {"allow", "deny"} :
                     /\ decision' = [decision EXCEPT ![c] = answer]
                     /\ approvals' = [approvals EXCEPT ![input[c]] = answer]
                     /\ UNCHANGED faults
              \/ /\ Fault
                 /\ decision' = [decision EXCEPT ![c] = "deny"]
                 /\ UNCHANGED approvals
           /\ asks' = asks \ {c}
    /\ UNCHANGED <<fixed, pc, saved, rest, batch, started, ends, exec, aborted, lost>>

Allowed(c) == decision[c] = "allow"
Detachable == {c \in background \cap Missing : Allowed(c)}

(* on_permissions_resolved: the checkpoint is written at once, or held for   *)
(* the next barrier; then the calls that are left to be partitioned.         *)
SaveDecisions ==
    /\ pc = "resolve" /\ asks = {}
    /\ saved' \in {saved, approvals}
    /\ rest' = Missing \ Detachable
    /\ pc' = IF Detachable = {} THEN "batches" ELSE "detach"
    /\ UNCHANGED <<fixed, asks, decision, approvals, batch, started, ends, exec, aborted, lost, faults>>

(* Fault: a start event is flushed without the checkpoint that is held. *)
FlushedAlone == saved

(* A start event is a barrier: it is durable with the held checkpoint.       *)
Flushed == approvals

(* A background call has its start event, then runs detached and is          *)
(* acknowledged at once; then the next one.                                  *)
DetachStart ==
    /\ pc = "detach"
    /\ \E c \in Calls : First(c, Detachable) /\ started' = started \cup {c}
    /\ saved' = Flushed
    /\ pc' = "detached"
    /\ UNCHANGED <<fixed, asks, decision, approvals, rest, batch, ends, exec, aborted, lost, faults>>

DetachRun ==
    /\ pc = "detached"
    /\ \E c \in background \cap started :
           /\ ends[c] = 0 /\ c \notin lost
           /\ ends' = [ends EXCEPT ![c] = 1]
           /\ task' = [task EXCEPT ![c] = "ready"]
    /\ pc' = IF Detachable = {} THEN "batches" ELSE "detach"
    /\ UNCHANGED <<fixed, perms, rest, batch, started, tries, aborted, lost, faults>>

-----------------------------------------------------------------------------
(* Batches: _partition_batches is read off one batch at a time.              *)

Conflict(c, d) ==
    \E a \in input[c].uses, b \in input[d].uses :
        a[1] = b[1] /\ "write" \in {a[2], b[2]}

Fits(c, selected) == \A d \in selected : ~Conflict(d, c)
Parallel(calls) == \A c \in calls : input[c].parallel
UpTo(c) == {d \in rest : d <= c}

(* Fault: a batch ends at the cap or a barrier, and at no conflict. *)
GreedyUnchecked(selected) ==
    LET Good(calls) == Parallel(calls) /\ Cardinality(calls) <= Cap
    IN  \E last \in rest :
            /\ selected = UpTo(last) /\ Good(selected)
            /\ \A c \in rest : c > last => ~Good(UpTo(c))

(* The calls can be one batch.                                               *)
Compatible(calls) ==
    /\ Parallel(calls) /\ Cardinality(calls) <= Cap
    /\ \A c \in calls : Fits(c, calls \ {c})

(* _partition_greedy: the longest compatible prefix within the cap           *)
Greedy(selected) ==
    \E last \in rest :
        /\ selected = UpTo(last) /\ Compatible(selected)
        /\ \A c \in rest : c > last => ~Compatible(UpTo(c))

(* Calls up to the next one that is not parallel.                            *)
ParallelRun == {c \in rest : Parallel(UpTo(c))}

(* A pass over calls selects those that fit with the ones selected before.   *)
Passed(calls, selected) ==
    \A c \in rest : c \in selected <=>
        LET before == {d \in selected : d < c}
        IN  c \in calls /\ Cardinality(before) < Cap /\ Fits(c, before)

(* Fault: a call behind the next barrier is admitted as well. *)
PackAll(selected) == Passed({c \in rest : input[c].parallel}, selected)

(* _partition_maximal: every call of the run that is compatible with those   *)
(* selected before it                                                        *)
Pack(selected) == Passed(ParallelRun, selected)

NextBatch(selected) ==
    \E c \in rest :
        /\ First(c, rest)
        /\ \/ ~input[c].parallel /\ selected = {c}
           \/ input[c].parallel /\ strategy = "greedy" /\ Greedy(selected)
           \/ input[c].parallel /\ strategy = "maximal" /\ Pack(selected)

(* Fault: a pass drops what it passed over. *)
LeftoverDropped(selected) == {c \in rest : \A d \in selected : c > d}

Leftover(selected) == rest \ selected

OpenBatch ==
    /\ pc = "batches" /\ ~aborted
    /\ \E selected \in SUBSET rest :
           /\ NextBatch(selected)
           /\ batch' = selected
           /\ rest' = Leftover(selected)
    /\ pc' = "starts"
    /\ UNCHANGED <<fixed, perms, started, ends, exec, aborted, lost, faults>>

Finish ==
    /\ pc = "batches" /\ rest = {}
    /\ pc' = "done"
    /\ UNCHANGED <<fixed, perms, rest, batch, started, ends, exec, aborted, lost, faults>>

-----------------------------------------------------------------------------
(* A lane.  All start events of a batch precede its executions; its end      *)
(* events follow in provider order.                                          *)

Unstarted == batch \ started

EmitStart ==
    /\ pc = "starts"
    /\ \E c \in Calls : First(c, Unstarted) /\ started' = started \cup {c}
    /\ saved' = Flushed
    /\ UNCHANGED <<fixed, asks, decision, approvals, pc, rest, batch, ends, exec, aborted, lost,
                   faults>>

Launch ==
    /\ pc = "starts" /\ Unstarted = {}
    /\ task' = [c \in Calls |-> IF c \in batch THEN "ready" ELSE task[c]]
    /\ pc' = "running"
    /\ UNCHANGED <<fixed, perms, rest, batch, started, ends, tries, aborted, lost, faults>>

(* Fault: the decision is not looked at again when the call runs. *)
RunnableAny(c) == task[c] = "waiting" \/ (task[c] = "ready" /\ ~aborted)

(* Neither is looked at again after the pause before a further attempt.      *)
Runnable(c) == task[c] = "waiting" \/ (task[c] = "ready" /\ ~aborted /\ Allowed(c))

(* _execute_one: an attempt begins ...                                       *)
Begin(c) ==
    /\ Runnable(c)
    /\ task' = [task EXCEPT ![c] = "running"]
    /\ tries' = [tries EXCEPT ![c] = @ + 1]
    /\ UNCHANGED <<fixed, perms, pc, rest, batch, started, ends, aborted, lost, faults>>

(* Fault: a refused call yields no outcome. *)
NoOutcome(c) == "ready"

Outcome(c) == IF aborted THEN "aborted" ELSE "settled"

(* ... or the call is refused, or the signal is seen first.                  *)
Refuse(c) ==
    /\ task[c] = "ready" /\ (aborted \/ ~Allowed(c))
    /\ task' = [task EXCEPT ![c] = Outcome(c)]
    /\ UNCHANGED <<fixed, perms, pc, rest, batch, started, ends, tries, aborted, lost, faults>>

(* Fault: every tool is retried. *)
RetryAny(c) == tries[c] < MaxAttempts

Retry(c) == input[c].retry /\ tries[c] < MaxAttempts

(* An attempt returns, fails or times out; the tool may raise AbortError, as *)
(* does a failed attempt that would be repeated once the signal is set.      *)
Settle(c) ==
    /\ task[c] = "running"
    /\ \/ task' = [task EXCEPT ![c] = "settled"] /\ UNCHANGED faults
       \/ /\ Retry(c) /\ ~aborted /\ Fault
          /\ task' = [task EXCEPT ![c] = "waiting"]
       \/ /\ aborted
          /\ task' = [task EXCEPT ![c] = "aborted"] /\ UNCHANGED faults
    /\ UNCHANGED <<fixed, perms, pc, rest, batch, started, ends, tries, aborted, lost>>

Unended == {c \in batch : ends[c] = 0}

EmitEnd ==
    /\ pc = "running"
    /\ \E c \in Calls :
           /\ First(c, Unended) /\ task[c] = "settled"
           /\ ends' = [ends EXCEPT ![c] = @ + 1]
    /\ UNCHANGED <<fixed, perms, pc, rest, batch, started, exec, aborted, lost, faults>>

CloseBatch ==
    /\ pc = "running" /\ Unended = {}
    /\ batch' = {}
    /\ pc' = "batches"
    /\ UNCHANGED <<fixed, perms, rest, started, ends, exec, aborted, lost, faults>>

-----------------------------------------------------------------------------
(* Leaving early.                                                            *)

Abort ==
    /\ ~aborted /\ pc \notin {"done", "stopped", "down"} /\ Fault
    /\ aborted' = TRUE
    /\ UNCHANGED <<fixed, perms, pc, rest, batch, started, ends, exec, lost>>

(* Fault: tools that run when the lane is left are not cancelled. *)
CancelledNone == task

(* Executions of the batch that have not settled are cancelled and joined.   *)
Cancelled ==
    [c \in Calls |-> IF c \in batch /\ task[c] \in {"ready", "running", "waiting"}
                     THEN "aborted" ELSE task[c]]

(* Fault: a synthetic end also for a call that has its real one. *)
ClosedTwice == [c \in Calls |-> IF c \in batch THEN ends[c] + 1 ELSE ends[c]]

(* One end event, synthetic where there is none, for each call of the batch. *)
Closed == [c \in Calls |-> IF c \in batch /\ ends[c] = 0 THEN 1 ELSE ends[c]]

(* AbortError: from the head of the lane, or seen between two batches.       *)
StopOnAbort ==
    /\ \/ pc = "running" /\ \E c \in Calls : First(c, Unended) /\ task[c] = "aborted"
       \/ pc = "batches" /\ aborted /\ rest # {}
       \/ pc = "resolve" /\ aborted /\ asks # {}
    /\ task' = Cancelled
    /\ ends' = Closed
    /\ pc' = "stopped"
    /\ UNCHANGED <<fixed, perms, rest, batch, started, tries, aborted, lost, faults>>

(* The task is cancelled: only the parallel lane closes its brackets then.   *)
StopOnCancel ==
    /\ pc \in {"resolve", "detach", "detached", "batches", "starts", "running"} /\ Fault
    /\ task' = Cancelled
    /\ ends' = IF pc = "running" /\ Cardinality(batch) > 1 THEN Closed ELSE ends
    /\ pc' = "stopped"
    /\ UNCHANGED <<fixed, perms, rest, batch, started, tries, aborted, lost>>

(* The consumer closes the event stream at an event.                         *)
CloseStream ==
    /\ pc \in {"detach", "detached", "starts", "running"} /\ Fault
    /\ task' = Cancelled
    /\ pc' = "stopped"
    /\ UNCHANGED <<fixed, perms, rest, batch, started, ends, tries, aborted, lost>>

Crash ==
    /\ pc \notin {"done", "stopped", "down"} /\ ~aborted /\ Fault
    /\ pc' = "down"
    /\ task' = [c \in Calls |-> "none"]
    /\ lost' = lost \cup {c \in started : ends[c] = 0}
    /\ UNCHANGED <<fixed, perms, rest, batch, started, ends, tries, aborted>>

(* A resumed batch runs the calls that have no start event; the approvals    *)
(* come from the checkpoint.                                                 *)
Resume ==
    /\ pc = "down"
    /\ approvals' = saved
    /\ rest' = {} /\ batch' = {}
    /\ pc' = IF Missing = {} THEN "done" ELSE "evaluate"
    /\ UNCHANGED <<fixed, asks, decision, saved, started, ends, exec, aborted, lost, faults>>

-----------------------------------------------------------------------------
Step ==
    \/ Evaluate \/ Resolve \/ SaveDecisions \/ DetachStart \/ DetachRun
    \/ OpenBatch \/ EmitStart \/ Launch \/ EmitEnd \/ CloseBatch \/ Finish
    \/ StopOnAbort \/ Resume
    \/ \E c \in Calls : Begin(c) \/ Refuse(c) \/ Settle(c)

Next == Step \/ Abort \/ StopOnCancel \/ CloseStream \/ Crash

(* The event loop runs what is ready, users answer, attempts end (a tool     *)
(* without a timeout is trusted to) and a crashed run is resumed.            *)
Spec == Init /\ [][Next]_vars /\ WF_vars(Step)

-----------------------------------------------------------------------------
Foreground == Calls \ background
Settled(c) == task[c] \in {"settled", "aborted"} \/ ends[c] > 0 \/ c \in lost

(* Types; executions exist for calls whose start event is durable.           *)
TypeOK ==
    /\ pc \in {"evaluate", "resolve", "detach", "detached", "batches", "starts", "running",
               "done", "stopped", "down"}
    /\ asks \subseteq Calls /\ rest \subseteq Calls /\ batch \subseteq Calls
    /\ \A c \in Calls :
           /\ decision[c] \in {"none", "allow", "deny"}
           /\ task[c] \in {"none", "ready", "running", "waiting", "settled", "aborted"}
           /\ task[c] # "none" => c \in started
           /\ ends[c] > 0 => c \in started

(* Two foreground calls never run at once if they conflict or one of them is *)
(* not parallel, and never more than the cap ("`ResourceAccess` prevents a   *)
(* write/read or write/write conflict"; _partition_batches).                 *)
NoConflict ==
    LET Running == {c \in Foreground : task[c] = "running"}
    IN  /\ Cardinality(Running) <= Cap
        /\ \A c, d \in Running : c # d =>
               ~Conflict(c, d) /\ input[c].parallel /\ input[d].parallel

(* Calls between which the order of the message must be kept: a call that is *)
(* not parallel is a barrier for both strategies; greedy batches also keep   *)
(* the order of conflicting calls.                                           *)
Ordered(c, d) ==
    /\ c < d /\ {c, d} \subseteq Foreground
    /\ \/ \E b \in c..d : b \in Foreground /\ ~input[b].parallel
       \/ strategy = "greedy" /\ Conflict(c, d)

(* A call runs only after every earlier one whose order matters has settled. *)
BarriersHold ==
    \A c, d \in Calls : Ordered(c, d) /\ tries[d] > 0 => Settled(c)

(* What runs together may, and what must wait waits.                         *)
Isolated == NoConflict /\ BarriersHold

(* A tool runs only with an allow that a crash cannot take back: its policy, *)
(* or an answer that is in the checkpoint ("resolved decisions are           *)
(* checkpointed before any allowed tool starts").                            *)
AllowedIsSaved ==
    \A c \in Calls : task[c] = "running" =>
        /\ decision[c] = "allow"
        /\ input[c].policy = "ask" => saved[input[c]] # "none"

(* Every start has one end when the batch is over by itself or by an abort:  *)
(* real, synthetic or, after a crash, recovered; no call has two.            *)
BracketsClose ==
    /\ [](pc = "done" => \A c \in Calls : ends[c] = 1 \/ c \in lost)
    /\ [][StopOnAbort => \A c \in started : ends'[c] = 1 \/ c \in lost]_vars

(* No foreground tool outlives the event stream, however it was left.        *)
NothingLeftRunning ==
    pc \in {"done", "stopped"} =>
        \A c \in Foreground : task[c] \notin {"ready", "running", "waiting"}

(* A tool that did not opt into retries is attempted once, over all lives.   *)
NoUnsafeRetry == \A c \in Calls : ~input[c].retry => tries[c] <= 1

(* A tool runs under an answer that lasts, and again only if that is safe.   *)
RunsAsAllowed == AllowedIsSaved /\ NoUnsafeRetry

(* Every message is dealt with in the end, and its stream leaves neither an  *)
(* open call nor a running one behind.                                       *)
EndsCleanly == <>(pc \in {"done", "stopped"}) /\ BracketsClose /\ []NothingLeftRunning
================================================================================
