------------------------------- MODULE Worker -------------------------------
(***************************************************************************)
(* The fleet worker (src/src/linch/worker/runtime.py) executing one queued *)
(* run: the queue hands the run's job to executions, each of which claims  *)
(* the run lease, runs or resumes the run under a heartbeat, quiesces,     *)
(* releases, and tells the queue to acknowledge the job or to retry it.    *)
(*                                                                         *)
(* The store operations are those of RunStore, with the time left to a     *)
(* lease instead of an absolute expiry: one tick is the renewal cadence,   *)
(* Ttl of them the lease duration.  The queue (PgQueuer) is external: its  *)
(* actions are what runtime.py and docs/usage/production.md rely on.       *)
(***************************************************************************)
EXTENDS Integers, FiniteSets

CONSTANTS
    Workers,    \* worker ids; a restarted process keeps its id
    Execs,      \* worker and slot of each concurrent queue callback
    NoOwner,
    Ttl,        \* lease duration, in renewal periods
    MaxFaults,  \* bound: crashes, failed requests, stalls and cancellations
    MaxDelays   \* bound: ticks during which a request stays unanswered

ASSUME WorkerAssumption ==
    /\ NoOwner \notin Workers
    /\ Execs \subseteq Workers \X Nat /\ Execs # {}
    /\ Ttl \in Nat \ {0, 1}
    /\ MaxFaults \in Nat /\ MaxDelays \in Nat

(* Which terminal status the run itself recorded is not told apart from the *)
(* others; "failed" is the one the worker records for it.                   *)
Terminal == {"ended", "failed"}

VARIABLES
    status,     \* stored run status
    ckpt,       \* whether the run row has a checkpoint
    lease,      \* stored lease: owner, epoch, ticks left
    job,        \* the queue row: state, and the execution that picked it last
    active,     \* Worker._active_runs: whether the run is in it
    pc,         \* where each execution of _run_job is
    token,      \* epoch of the lease each execution claimed
    budget,     \* ticks until the heartbeat's deadline
    beat,       \* heartbeat task: off, sleeping, due, or a reply under way
    cancelled,  \* _Execution.cancel_requested
    error,      \* exception that propagates out of _run_job
    faults, delays,
    stray,      \* history: the stored lease lost its holder or its holder's reply
    overlap     \* history: ticks an execution ran after it was superseded

row  == <<status, ckpt>>
mind == <<budget, beat, cancelled, error>>
hist == <<faults, delays, stray, overlap>>
vars == <<row, lease, job, active, pc, token, mind, hist>>

Init ==
    /\ status = "pending" /\ ckpt = FALSE
    /\ lease = [owner |-> NoOwner, epoch |-> 0, left |-> 0]
    /\ job = [state |-> "queued", by |-> CHOOSE e \in Execs : TRUE]
    /\ active = [w \in Workers |-> FALSE]
    /\ pc = [e \in Execs |-> "idle"]
    /\ token = [e \in Execs |-> 0]
    /\ budget = [e \in Execs |-> 0]
    /\ beat = [e \in Execs |-> "off"]
    /\ cancelled = [e \in Execs |-> FALSE]
    /\ error = [e \in Execs |-> "none"]
    /\ faults = 0 /\ delays = 0 /\ stray = FALSE
    /\ overlap = [e \in Execs |-> 0]

Fault == faults < MaxFaults /\ faults' = faults + 1
Go(e, where) == pc' = [pc EXCEPT ![e] = where]
WorkerOf(e) == e[1]
Current(e) == lease.owner = WorkerOf(e) /\ lease.epoch = token[e]

(* The run task exists and has not been cancelled.                          *)
Executing == {"starting", "resuming", "running"}

(* Between the claim's reply and the release.                               *)
Holding == Executing \cup {"claimed", "reload", "except", "failing", "closing", "releasing"}

-----------------------------------------------------------------------------
(* The queue.                                                               *)

Pick(e) ==
    /\ pc[e] = "idle"
    /\ job' = [state |-> "picked", by |-> e]
    /\ Go(e, "load")
    /\ UNCHANGED <<row, lease, active, token, mind, delays, stray, overlap>>

(* A queued job, or one whose process died: its queue heartbeats stopped.   *)
Dequeue(e) ==
    /\ \/ job.state = "queued"
       \/ job.state = "picked" /\ pc[job.by] = "idle"
    /\ Pick(e)
    /\ UNCHANGED faults

(* The queue heartbeat of a live execution was late.                        *)
DequeueStalled(e) ==
    /\ job.state = "picked" /\ pc[job.by] # "idle"
    /\ Pick(e)
    /\ Fault

(* _handle returned: the job row is deleted.                                *)
Ack(e) ==
    /\ pc[e] = "ack"
    /\ job' = [job EXCEPT !.state = "gone"]
    /\ Go(e, "idle")
    /\ UNCHANGED <<row, lease, active, token, mind, hist>>

(* _handle raised: the job is retried after a backoff, by its id and        *)
(* whoever picked it since; a deleted row stays deleted.                    *)
Retry(e) ==
    /\ pc[e] = "retry"
    /\ job' = IF job.state = "gone" THEN job ELSE [job EXCEPT !.state = "delayed"]
    /\ Go(e, "idle")
    /\ UNCHANGED <<row, lease, active, token, mind, hist>>

-----------------------------------------------------------------------------
(* _run_job up to the run task.                                             *)

(* Fault: a second dispatch of a run this worker already executes goes on. *)
LoadRunReentrant(e) ==
    /\ pc[e] = "load"
    /\ IF status \in Terminal
       THEN Go(e, "ack") /\ UNCHANGED active
       ELSE Go(e, "claim") /\ active' = [active EXCEPT ![WorkerOf(e)] = TRUE]
    /\ UNCHANGED <<row, lease, job, token, mind, hist>>

LoadRun(e) ==
    /\ pc[e] = "load"
    /\ \/ status \in Terminal /\ Go(e, "ack") /\ UNCHANGED active
       \/ status \notin Terminal /\ active[WorkerOf(e)] /\ Go(e, "retry") /\ UNCHANGED active
       \/ /\ status \notin Terminal /\ ~active[WorkerOf(e)]
          /\ active' = [active EXCEPT ![WorkerOf(e)] = TRUE]
          /\ Go(e, "claim")
    /\ UNCHANGED <<row, lease, job, token, mind, hist>>

LoadFails(e) ==
    /\ pc[e] = "load" /\ Fault
    /\ Go(e, "retry")
    /\ UNCHANGED <<row, lease, job, active, token, mind, delays, stray, overlap>>

Live == lease.owner # NoOwner /\ lease.left > 0

(* Fault: the lease is granted for a period more than was asked for.       *)
GrantedLonger(w) ==
    [owner |-> w,
     epoch |-> IF Live /\ lease.owner = w THEN lease.epoch ELSE lease.epoch + 1,
     left  |-> Ttl + 1]

Granted(w) ==
    [owner |-> w,
     epoch |-> IF Live /\ lease.owner = w THEN lease.epoch ELSE lease.epoch + 1,
     left  |-> Ttl]

(* The store's half of claim: a conflict is raised out of _run_job.         *)
Claim(e) ==
    LET w == WorkerOf(e) IN
    /\ pc[e] = "claim"
    /\ IF Live /\ lease.owner # w
       THEN /\ Go(e, "retry")
            /\ active' = [active EXCEPT ![w] = FALSE]
            /\ UNCHANGED <<lease, token, stray>>
       ELSE /\ lease' = Granted(w)
            /\ token' = [token EXCEPT ![e] = Granted(w).epoch]
            /\ stray' = FALSE
            /\ Go(e, "claimed")
            /\ UNCHANGED active
    /\ UNCHANGED <<row, job, mind, faults, delays, overlap>>

(* A transient failure of the request, before or after it took effect.      *)
ClaimFails(e) ==
    LET w == WorkerOf(e) IN
    /\ pc[e] = "claim" /\ Fault
    /\ \/ UNCHANGED <<lease, stray>>
       \/ ~(Live /\ lease.owner # w) /\ lease' = Granted(w) /\ stray' = TRUE
    /\ active' = [active EXCEPT ![w] = FALSE]
    /\ Go(e, "retry")
    /\ UNCHANGED <<row, job, token, mind, delays, overlap>>

(* The reply starts a fresh TTL budget.                                     *)
ClaimReply(e) ==
    /\ pc[e] = "claimed"
    /\ budget' = [budget EXCEPT ![e] = Ttl]
    /\ Go(e, "reload")
    /\ UNCHANGED <<row, lease, job, active, token, beat, cancelled, error, hist>>

(* The record is read again under the lease; the run task and its heartbeat *)
(* start unless the run turned out terminal or the callback was cancelled.  *)
Reload(e) ==
    /\ pc[e] = "reload"
    /\ IF status \in Terminal \/ cancelled[e]
       THEN Go(e, "closing") /\ UNCHANGED beat
       ELSE /\ Go(e, IF ckpt THEN "resuming" ELSE "starting")
            /\ beat' = [beat EXCEPT ![e] = "due"]
    /\ UNCHANGED <<row, lease, job, active, token, budget, cancelled, error, hist>>

ReloadFails(e) ==
    /\ pc[e] = "reload" /\ Fault
    /\ error' = [error EXCEPT ![e] = "transient"]
    /\ Go(e, "except")
    /\ UNCHANGED <<row, lease, job, active, token, budget, beat, cancelled, delays, stray, overlap>>

-----------------------------------------------------------------------------
(* The run task (_invoke).  Each of its store writes is fenced; a write     *)
(* under a lost lease ends it with LeaseLostError, an orphan.               *)

(* The agent factory or the session setup raised.                           *)
SetupFails(e) ==
    /\ pc[e] \in {"starting", "resuming"} /\ Fault
    /\ error' = [error EXCEPT ![e] = "fatal"]
    /\ Go(e, "except")
    /\ UNCHANGED <<row, lease, job, active, token, budget, beat, cancelled, delays, stray, overlap>>

(* session.run adopts the pending row; session.resume continues.            *)
Begin(e) ==
    /\ pc[e] \in {"starting", "resuming"}
    /\ IF Current(e)
       THEN status' = "running" /\ ckpt' = TRUE /\ Go(e, "running")
       ELSE UNCHANGED row /\ Go(e, "closing")
    /\ UNCHANGED <<lease, job, active, token, mind, hist>>

(* The terminal write, after which the iterator's teardown may still raise. *)
Finish(e, err) ==
    /\ pc[e] = "running"
    /\ IF Current(e)
       THEN /\ status' = "ended"
            /\ error' = [error EXCEPT ![e] = err]
            /\ Go(e, IF err = "none" THEN "closing" ELSE "except")
       ELSE Go(e, "closing") /\ UNCHANGED <<status, error>>
    /\ UNCHANGED <<ckpt, lease, job, active, token, budget, beat, cancelled, hist>>

(* A store failure inside the run, before or after its terminal write.      *)
StoreFails(e) ==
    /\ pc[e] = "running" /\ Fault
    /\ \/ UNCHANGED status
       \/ Current(e) /\ status' = "ended"
    /\ error' = [error EXCEPT ![e] = "transient"]
    /\ Go(e, "except")
    /\ UNCHANGED <<ckpt, lease, job, active, token, budget, beat, cancelled, delays, stray, overlap>>

(* Fault: the handler does not look at what is stored.                     *)
HandleExceptionBlind(e) ==
    /\ pc[e] = "except"
    /\ Go(e, IF error[e] = "transient" THEN "closing" ELSE "failing")
    /\ UNCHANGED <<row, lease, job, active, token, mind, hist>>

(* except Exception: a terminal run is left alone, a transient error is     *)
(* raised, anything else is recorded as the run's failure.                  *)
HandleException(e) ==
    /\ pc[e] = "except"
    /\ IF status \in Terminal
       THEN error' = [error EXCEPT ![e] = "none"] /\ Go(e, "closing")
       ELSE /\ Go(e, IF error[e] = "transient" THEN "closing" ELSE "failing")
            /\ UNCHANGED error
    /\ UNCHANGED <<row, lease, job, active, token, budget, beat, cancelled, hist>>

MarkFailed(e) ==
    /\ pc[e] = "failing"
    /\ status' = IF Current(e) THEN "failed" ELSE status
    /\ error' = [error EXCEPT ![e] = "none"]
    /\ Go(e, "closing")
    /\ UNCHANGED <<ckpt, lease, job, active, token, budget, beat, cancelled, hist>>

(* A read of the handler fails, or its write does, before or after it took  *)
(* effect.                                                                  *)
HandlerFails(e) ==
    /\ pc[e] \in {"except", "failing"} /\ Fault
    /\ \/ UNCHANGED status
       \/ pc[e] = "failing" /\ Current(e) /\ status' = "failed"
    /\ error' = [error EXCEPT ![e] = "transient"]
    /\ Go(e, "closing")
    /\ UNCHANGED <<ckpt, lease, job, active, token, budget, beat, cancelled, delays, stray, overlap>>

-----------------------------------------------------------------------------
(* _heartbeat, while the run task is not done.                              *)

Beating(e) == pc[e] \in Executing

Renew(e) ==
    /\ Beating(e) /\ beat[e] = "due" /\ budget[e] > 0
    /\ IF Current(e) /\ lease.left > 0
       THEN lease' = [lease EXCEPT !.left = Ttl] /\ beat' = [beat EXCEPT ![e] = "ok"]
       ELSE UNCHANGED lease /\ beat' = [beat EXCEPT ![e] = "lost"]
    /\ UNCHANGED <<row, job, active, pc, token, budget, cancelled, error, hist>>

(* A failed request is no proof of lost ownership: try again next period.   *)
RenewFails(e) ==
    /\ Beating(e) /\ beat[e] = "due" /\ budget[e] > 0 /\ Fault
    /\ beat' = [beat EXCEPT ![e] = "sleeping"]
    /\ \/ UNCHANGED lease
       \/ Current(e) /\ lease.left > 0 /\ lease' = [lease EXCEPT !.left = Ttl]
    /\ UNCHANGED <<row, job, active, pc, token, budget, cancelled, error, delays, stray, overlap>>

(* Fault: an unanswered renewal is waited for past the deadline.           *)
DeadlineIgnored(e) == FALSE

Deadline(e) == budget[e] = 0

RenewReply(e) ==
    /\ Beating(e) /\ beat[e] = "ok" /\ ~Deadline(e)
    /\ budget' = [budget EXCEPT ![e] = Ttl]
    /\ beat' = [beat EXCEPT ![e] = "sleeping"]
    /\ UNCHANGED <<row, lease, job, active, pc, token, cancelled, error, hist>>

(* LeaseLostError, or the last confirmed TTL ran out: the run task is       *)
(* cancelled, which ends _run_job's wait without an error.                  *)
CancelRun(e) ==
    /\ Beating(e)
    /\ beat[e] = "lost" \/ Deadline(e)
    /\ Go(e, "closing")
    /\ UNCHANGED <<row, lease, job, active, token, mind, hist>>

(* The queue callback is cancelled (shutdown): the lifecycle is shielded,   *)
(* only the run task is cancelled.                                          *)
CancelCallback(e) ==
    /\ pc[e] \in Executing \cup {"load", "claim", "claimed", "reload"}
    /\ ~cancelled[e] /\ Fault
    /\ cancelled' = [cancelled EXCEPT ![e] = TRUE]
    /\ pc' = IF pc[e] \in Executing THEN [pc EXCEPT ![e] = "closing"] ELSE pc
    /\ UNCHANGED <<row, lease, job, active, token, budget, beat, error, delays, stray, overlap>>

-----------------------------------------------------------------------------
(* The finally clauses.                                                     *)

(* The heartbeat is stopped, then the session quiesced, under the lease.    *)
Quiesce(e) ==
    /\ pc[e] = "closing"
    /\ beat' = [beat EXCEPT ![e] = "off"]
    /\ budget' = [budget EXCEPT ![e] = 0]
    /\ overlap' = [overlap EXCEPT ![e] = 0]
    /\ Go(e, "releasing")
    /\ UNCHANGED <<row, lease, job, active, token, cancelled, delays, stray>>

CloseSession(e) == Quiesce(e) /\ UNCHANGED <<error, faults>>

(* aclose(force=True) raised: the lease is released on the way out.         *)
CloseFails(e) ==
    /\ Quiesce(e) /\ Fault
    /\ error' = [error EXCEPT ![e] = "transient"]

(* Fault: the lease is kept when an exception is on its way out.           *)
ReleasesUnlessRaising(e) == Current(e) /\ error[e] = "none"

Releases(e) == Current(e)

Freed == [owner |-> NoOwner, epoch |-> lease.epoch + 1, left |-> 0]

ReleaseLease(e) ==
    /\ pc[e] = "releasing"
    /\ lease' = IF Releases(e) THEN Freed ELSE lease
    /\ Go(e, "verify")
    /\ UNCHANGED <<row, job, active, token, mind, hist>>

ReleaseFails(e) ==
    /\ pc[e] = "releasing" /\ Fault
    /\ \/ Current(e) /\ lease' = Freed
       \/ UNCHANGED lease
    /\ error' = [error EXCEPT ![e] = "transient"]
    /\ stray' = (stray \/ Current(e))
    /\ Go(e, "verify")
    /\ UNCHANGED <<row, job, active, token, budget, beat, cancelled, delays, overlap>>

(* Fault: an execution that raised nothing is reported as done.            *)
SettledUnlessRaising(e) == error[e] = "none"

(* _require_terminal: only a stored terminal status lets the job go.        *)
Settled(e) == error[e] = "none" /\ status \in Terminal

(* Fault: the run stays registered as active on this worker.               *)
ActiveAfterKept(e) == active

ActiveAfter(e) == [active EXCEPT ![WorkerOf(e)] = FALSE]

Leave(e, where) ==
    /\ pc[e] = "verify"
    /\ active' = ActiveAfter(e)
    /\ Go(e, where)
    /\ token' = [token EXCEPT ![e] = 0]
    /\ cancelled' = [cancelled EXCEPT ![e] = FALSE]
    /\ error' = [error EXCEPT ![e] = "none"]
    /\ UNCHANGED <<row, lease, job, budget, beat, delays, stray, overlap>>

Verify(e) == Leave(e, IF Settled(e) THEN "ack" ELSE "retry") /\ UNCHANGED faults

(* Reading the status again or agent.close() raised.                        *)
VerifyFails(e) == Leave(e, "retry") /\ Fault

-----------------------------------------------------------------------------
(* Process death, with a restart under the same worker id.                  *)
Crash(w) ==
    LET mine == {e \in Execs : WorkerOf(e) = w}
        Reset(f, v) == [e \in Execs |-> IF e \in mine THEN v ELSE f[e]]
    IN
    /\ Fault
    /\ \E e \in mine : pc[e] # "idle"
    /\ pc' = Reset(pc, "idle") /\ token' = Reset(token, 0)
    /\ budget' = Reset(budget, 0) /\ beat' = Reset(beat, "off")
    /\ cancelled' = Reset(cancelled, FALSE) /\ error' = Reset(error, "none")
    /\ active' = [active EXCEPT ![w] = FALSE]
    /\ stray' = (stray \/ lease.owner = w)
    /\ overlap' = Reset(overlap, 0)
    /\ UNCHANGED <<row, lease, job, delays>>

(* Time.  Timers of a live process fire on time: no tick passes a deadline  *)
(* that is due.  A request or a reply in flight is answered before the next *)
(* tick, except in a DelayedTick.                                           *)
Down(n) == IF n = 0 THEN 0 ELSE n - 1

Advance ==
    /\ \A e \in Execs : ~(Beating(e) /\ Deadline(e))
    /\ lease' = [lease EXCEPT !.left = Down(@)]
    /\ budget' = [e \in Execs |-> Down(budget[e])]
    /\ beat' = [e \in Execs |-> IF beat[e] = "sleeping" THEN "due" ELSE beat[e]]
    /\ job' = IF job.state = "delayed" THEN [job EXCEPT !.state = "queued"] ELSE job
    /\ overlap' = [e \in Execs |->
                      IF pc[e] \in Executing /\ ~Current(e) THEN overlap[e] + 1 ELSE overlap[e]]
    /\ UNCHANGED <<row, active, pc, token, cancelled, error, faults, stray>>

InFlight(e) == pc[e] \in {"claimed", "reload"} \/ (Beating(e) /\ beat[e] # "sleeping")

Tick ==
    /\ \A e \in Execs : ~InFlight(e)
    /\ Advance
    /\ UNCHANGED delays

DelayedTick ==
    /\ delays < MaxDelays /\ delays' = delays + 1
    /\ \E e \in Execs : InFlight(e)
    /\ Advance

-----------------------------------------------------------------------------
Progress(e) ==
    \/ LoadRun(e) \/ Claim(e) \/ ClaimReply(e) \/ Reload(e) \/ Begin(e)
    \/ \E err \in {"none", "fatal"} : Finish(e, err)
    \/ HandleException(e) \/ MarkFailed(e)
    \/ CloseSession(e) \/ ReleaseLease(e) \/ Verify(e) \/ Ack(e) \/ Retry(e)

Heartbeat(e) == Renew(e) \/ RenewReply(e) \/ CancelRun(e)

Failure(e) ==
    \/ LoadFails(e) \/ ClaimFails(e) \/ ReloadFails(e) \/ SetupFails(e) \/ StoreFails(e)
    \/ HandlerFails(e) \/ RenewFails(e) \/ CloseFails(e) \/ ReleaseFails(e) \/ VerifyFails(e)
    \/ CancelCallback(e)

Next ==
    \/ \E e \in Execs : Progress(e) \/ Heartbeat(e) \/ Failure(e)
    \/ \E e \in Execs : Dequeue(e) \/ DequeueStalled(e)
    \/ \E w \in Workers : Crash(w)
    \/ Tick \/ DelayedTick

(* Each task of a live process keeps running, a run ends by itself, the     *)
(* queue keeps polling and time passes; failures are free not to happen.    *)
Fairness ==
    /\ \A e \in Execs : WF_vars(Progress(e)) /\ WF_vars(Heartbeat(e))
    /\ WF_vars(\E e \in Execs : Dequeue(e))
    /\ WF_vars(Tick)

Spec == Init /\ [][Next]_vars /\ Fairness
-----------------------------------------------------------------------------
Places == Holding \cup {"idle", "load", "claim", "verify", "ack", "retry"}

(* Type correctness of the row, the lease, the job and the executions.      *)
TypeOK ==
    /\ status \in Terminal \cup {"pending", "running"} /\ ckpt \in BOOLEAN
    /\ lease \in [owner : Workers \cup {NoOwner}, epoch : Nat, left : 0..Ttl]
    /\ job \in [state : {"queued", "picked", "delayed", "gone"}, by : Execs]
    /\ active \in [Workers -> BOOLEAN]
    /\ pc \in [Execs -> Places]
    /\ token \in [Execs -> Nat] /\ budget \in [Execs -> 0..Ttl]
    /\ beat \in [Execs -> {"off", "sleeping", "due", "ok", "lost"}]
    /\ cancelled \in [Execs -> BOOLEAN]
    /\ error \in [Execs -> {"none", "transient", "fatal"}]
    /\ stray \in BOOLEAN /\ overlap \in [Execs -> Nat]

(* The job outlives every unfinished run: whatever crashes, is cancelled,   *)
(* loses its lease or fails, the queue row goes only when the run is        *)
(* terminal (_require_terminal, "acknowledges only a persisted terminal     *)
(* run").                                                                   *)
JobOutlivesRun == job.state = "gone" => status \in Terminal

(* A run that ended stays as it ended: neither a takeover, nor a duplicate  *)
(* dispatch, nor the worker's own failure handler touches it again.         *)
TerminalIsFinal == [][(status \in Terminal) => status' = status]_vars

(* Two executions never run under one epoch, so fencing tells every pair    *)
(* of them apart although a worker refreshes its own live lease without a   *)
(* new epoch (_active_runs).                                                *)
OneExecutionPerEpoch ==
    \A d, e \in Execs :
        d # e /\ pc[d] \in Holding /\ pc[e] \in Holding => token[d] # token[e]

(* A worker leaks no lease: an unexpired lease belongs to an execution that *)
(* will release it, unless its process died or a reply got lost.            *)
LeaseHasHolder ==
    Live /\ ~stray =>
        \E e \in Execs : Current(e) /\ pc[e] \in Holding

(* Whatever ends an execution, neither the job nor the lease is left with   *)
(* nobody to act on it.                                                     *)
NothingLeaked == JobOutlivesRun /\ LeaseHasHolder

(* A superseded execution stops by itself within one TTL, however late the  *)
(* replies of claim and renew arrive (_heartbeat's deadline).               *)
OverlapBounded == \A e \in Execs : pc[e] \in Executing => overlap[e] <= Ttl

(* Every job is settled in the end: once failures stop, the run reaches a   *)
(* terminal status and its job leaves the queue for good.                   *)
EventuallySettled == <>[](job.state = "gone")
=============================================================================
