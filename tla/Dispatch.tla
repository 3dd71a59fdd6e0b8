------------------------------ MODULE Dispatch ------------------------------
(***************************************************************************)
(* Run dispatch and recurring schedules (src/src/linch/worker/dispatch.py, *)
(* src/src/linch/worker/schedules.py) over the run store (RunStore): the   *)
(* run rows, the schedule rows and the PgQueuer jobs live in one database, *)
(* and every operation is one transaction.  A job is at the worker's       *)
(* mercy: it may be handled again after its transaction committed (a crash *)
(* before the acknowledgement, a stale retry), in any order, and one that  *)
(* fails is retried a bounded number of times and then held.               *)
(*                                                                         *)
(* What a worker does with a run job between its claim and its end is      *)
(* module Worker; here a run starts, writes and ends under the store's     *)
(* admission rule only.  Fires are numbers of clock ticks; an occurrence   *)
(* <<id, fire>> is the run "schedule:{id}:{fire}".                         *)
(***************************************************************************)
EXTENDS RunStore

CONSTANTS
    Schedules,    \* schedule identifiers
    Target,       \* the session of each schedule and of each requested run
    Every,        \* the interval of every schedule, in ticks
    MaxAttempts   \* attempts PgQueuer gives a failing job before it holds it

Fires == 1..(MaxTime + Every)
Occurrences == Schedules \X Fires
Requested == Runs \ Occurrences        \* run ids a caller chooses

ASSUME DispatchAssumption ==
    /\ {o \in Occurrences : o[2] <= MaxTime} \subseteq Runs
    /\ Target \in [Schedules \cup Requested -> Sessions]
    /\ Every \in Nat \ {0} /\ MaxAttempts \in Nat \ {0}
    /\ NoRun \notin Row

VARIABLES
    schedule,   \* schedule -> its row [enabled, next], or NoSchedule
    first,      \* history: the first fire of each schedule
    fireJob,    \* schedule -> fire -> its deferred job
    runJob      \* run -> its dispatch job

dispatchVars == <<schedule, first, fireJob, runJob>>
allVars == <<vars, dispatchVars>>

NoSchedule == [enabled |-> FALSE]
Enabled(s) == schedule[s].enabled

(* A job: absent (never enqueued, or acknowledged), queued, or held.        *)
NoJob == [state |-> "none", attempts |-> 0]
Fresh == [state |-> "queued", attempts |-> 0]

(* on_conflict="skip": a job whose dedupe key is active is left as it is    *)
Enqueued(job) == IF job.state = "none" THEN Fresh ELSE job

(* Fault: a failing job is retried without an end.                          *)
RetriedForever(job) == job

(* DatabaseRetryEntrypointExecutor, on_failure="hold"                       *)
Failed(job) == IF job.attempts + 1 < MaxAttempts THEN [job EXCEPT !.attempts = @ + 1]
               ELSE [job EXCEPT !.state = "held"]

(* The transaction committed: the job is acknowledged, or delivered again   *)
Answered(job) == {NoJob, job}

-----------------------------------------------------------------------------
(* Enqueueing runs.                                                         *)

SessionOf(r) == IF r \in Occurrences THEN Target[r[1]] ELSE Target[r]
New(batch) == {r \in batch : ~ Exists(r)}

(* create_pending_run for each request: an id that has a row is a no-op,    *)
(* a session that is busy, with a request of the same batch too, refuses    *)
Admissible(batch) ==
    \A r \in New(batch) :
        /\ Admit(SessionOf(r), r, "pending")
        /\ \A q \in New(batch) \ {r} : SessionOf(q) # SessionOf(r)

Inserted(batch) ==
    [r \in Runs |->
        IF r \in New(batch)
        THEN [session |-> SessionOf(r), status |-> "pending", checkpoint |-> NoCheckpoint]
        ELSE runs[r]]

(* Fault: no job when another request of the batch was a duplicate.         *)
JobsUnlessDuplicate(batch) ==
    [r \in Runs |-> IF r \in batch /\ New(batch) = batch THEN Enqueued(runJob[r]) ELSE runJob[r]]

Jobs(batch) ==
    [r \in Runs |-> IF r \in New(batch) THEN Enqueued(runJob[r]) ELSE runJob[r]]

(* enqueue_runs: all rows and jobs, or none                                 *)
EnqueueRuns(batch) ==
    /\ Admissible(batch)
    /\ runs' = Inserted(batch)
    /\ runJob' = Jobs(batch)
    /\ UNCHANGED <<log, lease, now, tokens, givenUp, schedule, first, fireJob>>

-----------------------------------------------------------------------------
(* Schedules.                                                               *)

(* Fault: the dedupe key of a deferred job leaves its fire time out.        *)
DeferOncePerSchedule(s, fire) ==
    IF \E f \in Fires : fireJob[s][f].state # "none" THEN fireJob[s][fire]
    ELSE Enqueued(fireJob[s][fire])

(* _defer *)
Defer(s, fire) == Enqueued(fireJob[s][fire])

(* create_schedule: the row and its first deferred job                      *)
CreateSchedule(s) ==
    /\ schedule[s] = NoSchedule
    /\ now + Every \in Fires
    /\ schedule' = [schedule EXCEPT ![s] =
                       [enabled |-> TRUE, next |-> now + Every]]
    /\ first' = [first EXCEPT ![s] = now + Every]
    /\ fireJob' = [fireJob EXCEPT ![s][now + Every] = Defer(s, now + Every)]
    /\ UNCHANGED <<vars, runJob>>

CancelSchedule(s) ==
    /\ Enabled(s)
    /\ schedule' = [schedule EXCEPT ![s].enabled = FALSE]
    /\ UNCHANGED <<vars, first, fireJob, runJob>>

Due(s, fire) == fireJob[s][fire].state = "queued" /\ fire <= now

(* Fault: a cancelled schedule is not looked at.                            *)
ExpectsCancelled(s, fire) == schedule[s].next = fire

(* Fault: a replayed fire is not told from the next one.                    *)
ExpectsAny(s, fire) == Enabled(s)

(* _fire, under the row's lock: enabled, and this fire is the next one      *)
Expects(s, fire) == Enabled(s) /\ schedule[s].next = fire

FireIgnored(s, fire) ==
    /\ Due(s, fire) /\ ~ Expects(s, fire)
    /\ fireJob' = [fireJob EXCEPT ![s][fire] = NoJob]
    /\ UNCHANGED <<vars, schedule, first, runJob>>

(* _fire: the occurrence's run, its job, the next fire and its deferred job *)
FireCommits(s, fire) ==
    LET batch == {<<s, fire>>}
    IN /\ Due(s, fire) /\ Expects(s, fire)
       /\ Admissible(batch)
       /\ runs' = Inserted(batch)
       /\ runJob' = Jobs(batch)
       /\ schedule' = [schedule EXCEPT ![s].next = fire + Every]
       /\ \E job \in Answered(fireJob[s][fire]) :
             fireJob' = [fireJob EXCEPT ![s][fire] = job,
                                        ![s][fire + Every] = Defer(s, fire + Every)]
       /\ UNCHANGED <<log, lease, now, tokens, givenUp, first>>

(* _admit raised SessionBusyError: the transaction is rolled back           *)
FireBusy(s, fire) ==
    /\ Due(s, fire) /\ Expects(s, fire)
    /\ ~ Admissible({<<s, fire>>})
    /\ fireJob' = [fireJob EXCEPT ![s][fire] = Failed(@)]
    /\ UNCHANGED <<vars, schedule, first, runJob>>

-----------------------------------------------------------------------------
(* Runs, as far as admission and their jobs go.                             *)

(* A worker picks the job of a pending run and adopts the row               *)
StartRun(r) ==
    /\ runJob[r].state = "queued"
    /\ Exists(r) /\ Adopt(r, runs[r].session, Unleased)
    /\ UNCHANGED dispatchVars

(* A run that a process starts without the queue                            *)
RunHere(r) ==
    CreateRunning(r, SessionOf(r)) /\ UNCHANGED dispatchVars

(* Of a run's own writes admission tells apart that the run is active,      *)
(* suspended or not, also again after a late resume, and that it ended      *)
KeepRun(r) ==
    /\ Exists(r) /\ runs[r].status # "pending"
    /\ SaveCheckpoint(r, Unleased, "running", 0)
    /\ UNCHANGED dispatchVars

EndRun(r) ==
    /\ Exists(r) /\ runs[r].status # "pending"
    /\ MarkCompleted(r, Unleased)
    /\ UNCHANGED dispatchVars

(* The worker answers for a job only when its run is terminal; every other  *)
(* exit is a failed attempt                                                 *)
EndJob(r) ==
    /\ runJob[r].state = "queued"
    /\ IF IsActive(r) THEN runJob' = [runJob EXCEPT ![r] = Failed(@)]
       ELSE \E job \in Answered(runJob[r]) : runJob' = [runJob EXCEPT ![r] = job]
    /\ UNCHANGED <<vars, schedule, first, fireJob>>

Advance == Tick /\ UNCHANGED dispatchVars

DispatchInit ==
    /\ Init
    /\ schedule = [s \in Schedules |-> NoSchedule]
    /\ first = [s \in Schedules |-> 0]
    /\ fireJob = [s \in Schedules |-> [f \in Fires |-> NoJob]]
    /\ runJob = [r \in Runs |-> NoJob]

Fire(s, fire) == FireIgnored(s, fire) \/ FireCommits(s, fire) \/ FireBusy(s, fire)

DispatchNext ==
    \/ \E batch \in SUBSET Requested : EnqueueRuns(batch)
    \/ \E s \in Schedules :
          \/ CreateSchedule(s) \/ CancelSchedule(s)
          \/ \E fire \in Fires : Fire(s, fire)
    \/ \E r \in Runs : StartRun(r) \/ KeepRun(r) \/ EndRun(r) \/ EndJob(r)
    \/ \E r \in Requested : RunHere(r)
    \/ Advance

(* A live fleet keeps handling the fires that are due.                      *)
DispatchSpec ==
    /\ DispatchInit /\ [][DispatchNext]_allVars
    /\ \A s \in Schedules, fire \in Fires : WF_allVars(Fire(s, fire))

(* ... and the runs that have started end, unless they are resumed again.   *)
EndingSpec == DispatchSpec /\ \A r \in Runs : WF_allVars(EndRun(r))

-----------------------------------------------------------------------------
(* Properties.                                                              *)

(* The columns of the schedule rows and the states of the jobs.             *)
DispatchTypeOK ==
    /\ TypeOK
    /\ schedule \in [Schedules -> {NoSchedule} \cup
                       [enabled : BOOLEAN, next : Fires]]
    /\ first \in [Schedules -> Fires \cup {0}]
    /\ LET Job == [state : {"none", "queued", "held"}, attempts : 0..MaxAttempts]
       IN fireJob \in [Schedules -> [Fires -> Job]] /\ runJob \in [Runs -> Job]

(* Every occurrence of a schedule up to its next fire has exactly one run   *)
(* and none ahead of it: fires that are delivered again, late, or after     *)
(* the schedule moved on neither repeat, skip nor reorder an occurrence     *)
(* (_fire: "Ack cancelled definitions and replayed occurrences").           *)
OccurrencesExact ==
    \A s \in Schedules : schedule[s] # NoSchedule =>
        \A o \in Runs \cap Occurrences : o[1] = s =>
            (Exists(o) <=> /\ o[2] \in first[s]..(schedule[s].next - 1)
                           /\ (o[2] - first[s]) % Every = 0)

(* Nothing is stranded between the tables: an enabled schedule has a job    *)
(* for its next fire, a run that waits for a worker has a job, and a job    *)
(* has a run (dispatch and _fire write both sides in one transaction); a    *)
(* held job is there for the host to look at.                               *)
NothingStranded ==
    /\ \A s \in Schedules : Enabled(s) => fireJob[s][schedule[s].next].state # "none"
    /\ \A r \in Runs : Exists(r) /\ runs[r].status = "pending" => runJob[r].state # "none"
    /\ \A r \in Runs : runJob[r].state # "none" => Exists(r)

(* A cancelled schedule never fires again, whatever jobs are still queued   *)
(* or delivered again (cancel_schedule: "disable future fires").            *)
CancelStops ==
    [][\A s \in Schedules : schedule[s] # NoSchedule /\ ~ Enabled(s) =>
          /\ schedule'[s] = schedule[s]
          /\ \A o \in Runs \cap Occurrences : o[1] = s /\ ~ Exists(o) => ~ Exists(o)']_allVars

(* A fire that is due is committed, its schedule is cancelled, or its job   *)
(* ends up held: no occurrence is silently forgotten.                       *)
FiresOrHeld ==
    \A s \in Schedules, fire \in Fires :
        (Enabled(s) /\ schedule[s].next = fire /\ fire <= now)
            ~> (~ Enabled(s) \/ schedule[s].next > fire \/ fireJob[s][fire].state = "held")

(* production.md: "Missed occurrences catch up in fire-time order after     *)
(* downtime": a fire that is due is committed unless the schedule is        *)
(* cancelled.  Not so: a fire that meets a run of its session often enough, *)
(* the previous occurrence's run for one, is held and the schedule stalls.  *)
CatchesUp ==
    \A s \in Schedules, fire \in Fires :
        (Enabled(s) /\ schedule[s].next = fire /\ fire <= now)
            ~> (~ Enabled(s) \/ schedule[s].next > fire)
=============================================================================
