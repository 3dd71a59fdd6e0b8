# linch: a verification development

linch is a Python library for durable LLM agents: a session holds a conversation,
a run drives it turn by turn (provider call, tool batch, results), and everything a
run does is persisted so that another process can pick it up. These modules model
the part of it that must survive crashes, late messages and concurrent writers,
check that part on small instances with TLC and prove the safety of nine of its
parts with TLAPS. Paths are relative to `src/src/linch/` unless they start with `docs/`
or `src/`.

| module | models | checked by | proved in |
| --- | --- | --- | --- |
| `RunStore` | run rows, event logs, leases and admission (`run_store.py`, `run_stores/postgres.py`) | `store_lease`, `dispatch` | `DispatchProofs` |
| `EventBuffer` | group commit of events and checkpoints (`loop/checkpoint.py`) | `buffer_refines`, `buffer_barriers` | `EventBufferProofs` |
| `WriteThrough` | what group commit promises (abstract) | the refinement in `buffer_refines` | `EventBufferProofs` |
| `Worker` | a fleet of workers executing one queued run (`worker/runtime.py`) | `worker_mixed` | `WorkerProofs` |
| `TurnRecovery` | the turns of a run across crashes and resumes (`loop/`) | `turn_resume` | `TurnRecoveryProofs` |
| `SessionInbox` | notifications and peer messages into a session (`loop/runtime.py`, `coordination/mailbox/`, `sessions/`) | `inbox` | `SessionInboxProofs` |
| `Scheduler` | one batch of tool calls (`scheduler.py`, `loop/tool_batch.py`) | `scheduler` | `SchedulerProofs` |
| `ModelCallLedger` | accounting of provider deliveries and the shared budget (`model_calls.py`, `budget.py`) | `ledger` | `ModelCallLedgerProofs` |
| `Dispatch` | enqueued runs and recurring schedules over `RunStore` (`worker/dispatch.py`, `worker/schedules.py`) | `dispatch`, `schedule_stalls` | `DispatchProofs` |
| `Workflow` | durable workflows over a run's event log (`ext/workflow/`) | `workflow` | |
| `SessionLifecycle` | opening, runs, release, eviction and close of an agent's sessions, with a background worker (`agent.py`, `session.py`, `subagents/runner.py`, `tools/subagent*.py`) | `lifecycle` | `SessionLifecycleProofs` |

The `MC*` modules and `.cfg` files are the instances for TLC.

## 1. The system

### Components

**Run store** (`run_store.py`, `run_stores/postgres.py`). One row per run: session,
status, latest checkpoint, lease columns; and an append-only event log per run.
Operations: `create_run`, `create_pending_run`, `claim`, `renew`, `release`,
`save_checkpoint`, `save_checkpoint_with_events`, `append_event(s)`,
`mark_completed`, `mark_failed`. Hard: callers hold immutable leases and present
them late; epochs must fence them; a row can be written back to an active status.
Correct when: an epoch names one worker, a fenced token stays fenced, an unexpired
one is honoured, the log is ordered by tenure, a session has one active run.

**Group-commit buffer** (`RunEventBuffer` in `loop/checkpoint.py`, its callers in
`loop/runtime.py`, `loop/terminals.py` and `durable_call` in `run_store.py`).
State: pending events, a held checkpoint with the number of events it covers, a
failed flag, a sequence watermark, a commit lock. The run loop appends and defers;
*barriers* (provider dispatch, tool start and end, every session write of any task,
the terminal) commit. Hard: several tasks run barriers, writes fail before or after
they took effect, the task may be cancelled in between. Correct when every durable
state is one that writing through would also have left.

**Run loop and resume** (`loop/runner.py`, `startup.py`, `resume.py`,
`provider_turn.py`, `tool_batch.py`). State: a working checkpoint, its durable copy,
the tool events, the session history. A turn passes through the phases of
`RunPhase`. Hard: two stores, an arbitrary number of crashes and resumes, tools with
external effects, host messages that arrive at any time. Correct when no started
tool runs again, results are those the calls recorded, the history is that of an
uninterrupted run, and the run completes.

**Fleet worker** (`worker/runtime.py`). State per callback: the claimed lease, the
heartbeat's deadline, the run task; per process: the set of active runs. Talks to
the run store and to PgQueuer (external: pick, stall re-pick, acknowledge, retry).
Hard: duplicate deliveries, slow or lost replies, crashes, cancellation, a lease
lost while tools run. Correct when a job outlives its unfinished run, a finished run
is not touched, executions are told apart by epoch, a superseded one stops in time,
no lease is leaked, and the job is settled in the end.

**Dispatch and schedules** (`worker/dispatch.py`, `schedules.py`). One transaction
inserts pending rows and jobs; a schedule fire materialises a run and defers the
next fire under a row lock. State: schedule rows, deferred fire jobs, run jobs, run
rows. Hard: a job is delivered again, late, out of order, or fails a bounded number
of times and is held; a fire meets a busy session. Correct when every occurrence
creates its run once and in order, no row is left without its job nor an enabled
schedule without its next fire, and a cancelled schedule is silent.

**Model-call ledger** (`model_calls.py`, `budget.py`). Per run: a journal of intents,
dispatch markers, receipts and projections; per process and agent tree: a shared
budget with a fence for deliveries of unknown use. Hard: the budget is charged before
the receipt is durable, several runs charge it, a flush fails or is cancelled with or
without effect. Correct when no used token is forgotten or charged twice, restoring
the journal yields the live ledger, nothing is invoked behind the fence, and a run
can resume in the process whose budget it charged.

**Session log and stores** (`session_log.py`, `sessions/`). Append-only messages
with sequence numbers, a provider view with compaction boundaries, snapshots.
Correct when the view is a function of the log and snapshots never run ahead of it.

**Session inbox and notifications** (`session.py`, `durability.py`,
`loop/runtime.py`). In-memory queue or durable inbox, delivered at the top of a turn. Hard: shielded and
unshielded commits under cancellation, lost replies, a reopened session with a cached
view. Correct when a delivery enters the history exactly once, in order, and is shown.

**Session lifecycle and agent** (`session.py`, `agent.py`, `abort.py`). Open,
closing, closed; one active run per session; one lock that openings, evictions and the
close of the agent share. Hard: abort, release and cancellation race with the run and its
stream; a run that ends prunes under the lock that the close holds; teardown may fail half
way and is retried. Correct when eviction takes idle trees only and keeps the bound, shared
resources are closed after everything that uses them, and a close ends.

**Tool scheduler and permissions** (`scheduler.py`, `permissions/`). Partition of a
batch into parallel and serial groups by resource access and concurrency cap;
permission passes with saved decisions; attempts; detached background calls. Hard:
aborts, cancellation, early close and crashes at every await. Correct when conflicting
calls do not overlap, no effect precedes its durable authorisation, nothing unsafe is
attempted twice, and every start gets one end.

**Workflow journal** (`ext/workflow/`). Results keyed by content hash and occurrence,
rebuilt from the event log or from a snapshot and its tail. Hard: branches finish, fail
and are cancelled in any order; nested fan-outs share slots or not; snapshots are taken
while appends are in flight. Correct when a resumed workflow replays each result to
the call that produced it, a snapshot loses nothing, and no fan-out waits for itself.

**Mailbox coordination** (`coordination/mailbox/`). FIFO inboxes with leased claims.
Hard: a claim expires while its consumer works, and a second consumer takes over.
Correct when a message is acknowledged by its current claim only and order holds.

**Subagents and background work** (`subagents/`, `tools/subagent*.py`). Children with
their own sessions; background completions append to the parent's log and queue a
notification. State: the worker's task, handle status and retained child. Hard: cancelled
before its first step, while it sets up, or while its stop hook runs.

**Response gates and reliability** (`loop/finalize.py`, `turn_stopping.py`,
`reliability.py`, `verification.py`), **loop guard and limiter** (`loop_guard/`,
`providers/limiter.py`), **compaction** (`compaction.py`): further endings of a turn,
counters with thresholds, and a concurrency gate.

**Hooks and kernel, execution backends, providers, tools, context, filesystem, RAG,
skills, MCP, evals, deep agent, the Rust port**: in-process dispatch, operating-system
or network I/O, pure data transformation, or a second implementation. Not modelled.

### How they interact

    queue --pick--> worker --claim/renew/release--> run store
                      |                                ^
                      v run / resume                   | checkpoint + events
                    run loop --> event buffer ---------+
                      |   ^          ^ barrier before each
           tool batch |   | notify   |
                      v   |          |
          background tasks +---> session store (history, inbox, metadata)

The run store and the session store are separate: no write covers both. The event
buffer makes the run state durable *before* each session write, so the run store is
never behind the history by more than the write in progress. The worker's lease
fences run-state writes; it cannot fence a tool's effect outside.

### What is hard

Interleavings of the loop with background tasks; crashes between two writes; writes
that took effect although their reply was lost; tokens and replies that arrive late;
jobs delivered twice; a third resume of what a second one left half done. Each such
place is an entry of `hazards` in `PROJECT.json`, with its line and the properties
that would catch it.

## 2. The modules

### RunStore

`runs`, `log`, `lease` are the rows, event logs and lease columns; `tokens` is every
`RunLease` ever handed out, so a caller can present any of them arbitrarily late.
Each store operation is one action, because both backends make it atomic: the
in-memory methods do not await between their check and their assignments, the SQL
ones are a single conditional statement or a transaction that locks the row.
`Callers(r)` is the fence: no token, or one whose owner *and* epoch are stored; the
expiry is not compared, as in `_check_lease` and `_assert_fence`. `Claim` keeps the
epoch only when the owner of a live lease refreshes it; `Release` advances the epoch
so that the released token is fenced at once. `SaveCheckpoint` carries `n` events
and re-admits a row that becomes active. Payloads are the epoch they were written
with, time is a counter. `givenUp` is a history variable.

Not modelled: model-input snapshots, run contracts, codecs, deletion.

### EventBuffer and WriteThrough

Items are positions in `recorded`, the program order in which the run produced
events, checkpoints and results. `pending`, `dirty`, `covers`, `failed`, `lastSeq`
are the fields of `RunEventBuffer`; everything between two awaits is one step.
`write # NoWrite` is the commit lock: it is held exactly while a store write is in
flight. The loop's calls are `RecordEvent`, `DeferCheckpoint`, `SaveThrough`,
`CallFlush` and its three terminals; any task's session write is
`BeginSessionWrite`, `FlushCheckpoint`, `SessionWrite` (the barrier of
`durable_call`). A write succeeds, is rejected, or is *unavailable*: it may have
taken effect without a reply, and the loop writes nothing more. `Cancel` is the
worker cancelling the run task at any await.

Choice: with nothing buffered and nothing held, a save that may not be deferred writes the
checkpoint by itself, without the lock (`loop/runtime.py:1269-1279`). This is not an action: no
barrier has anything in flight then and none can start one, and the loop records nothing while
it awaits the write, which therefore moves the durable checkpoint to the newest state or fails
the run.

`WriteThrough` is the promise of the class comment, "every committed state is one the
write-through order also produced": the durable log and checkpoint are always those
of one prefix of the program order, and the prefix only grows. Its log is a function of
sequence numbers, since others take numbers in between. `RefinesWriteThrough` instantiates
it with the log at `OwnAt`: without the events that background tools append around the
buffer, and without second copies of an event whose first write was uncertain.

### Worker

One queued run, `_run_job` of several callbacks (`Execs` are worker and slot), their
heartbeats, the job row, and the stored lease with *time left* instead of an
absolute expiry. A tick is the renewal cadence. `Claim` and `ClaimReply`, `Renew` and
`RenewReply` are the two halves of a request, since the code restarts its deadline
when the *reply* is processed. The run task is `Begin` and `Finish`; what it does in
between belongs to `TurnRecovery`. Faults: a crash with a restart under the same
worker id, failed requests and reads (with or without effect), a handler that fails while it
records a failure (`HandlerFails`), an `aclose` or `agent.close()` that raises (`CloseFails`,
`VerifyFails`), a late queue heartbeat (`DequeueStalled`), cancellation of the callback.
Requests in flight may stay
unanswered during a `DelayedTick`; timers of a live process fire on time.

Choices: `ended` stands for any terminal status the run itself records; cancelling
the run task takes effect at once; PgQueuer is external and modelled from
`docs/usage/production.md` and from how `runtime.py` uses it; its retry has no
attempt limit here (the limit and the hold are in `Dispatch`). Reconnecting and
draining a worker process are not modelled.

### TurnRecovery

`ck` is the working checkpoint of the attempt that runs the loop, `dck` its durable
copy; `dlog` holds tool starts and ends, `sess` the history, `dproj` the projection
of the latest provider delivery. Most saves replace only `ck`; `Barrier` makes it
durable. A step that appends to the session is split at its barrier (`DrainNote` /
`AppendNote`, `AcceptPrimary` / `AppendAssistant`, `EndBatch` / `AppendResults`), so a
crash may fall between the two stores. `Saved` is `save_checkpoint`, cursor rule
included; `Recovered` is `_recover_completed_tool_results`; `Reconcile` is
`_reconcile_active_primary` with `_receipt_message_prefix`; `ResumingTurn` is the test
the code makes, not the one its name suggests. Stops are a `Crash` anywhere and a
`Close` of the generator where it yields, whose `finally` clause flushes except in
two phases. `ran` counts executions of each call.

Choices: a batch starts its calls in provider order (what packing changes is in `Scheduler`);
text ends the run; a receipt and its projection are one record; group
commit is one step (that it may be is what `EventBuffer` shows); one attempt at a
time (the lease and `Worker` see to it); store failures during a turn look like
crashes; the notification queue is in memory and a host that restarts notifies
again. Not modelled: hooks, verification gates, truncation, compaction, loop guard,
budgets, alignment, exact model input, interrupts and aborts. Of a tool phase two places where
a crash may fall are left out: between a permission prompt and its answer
(`permission_pending`, `loop/tool_batch.py:148-157`; no tool starts in between, and a
resume asks again) and between the append of the results and that of a reminder or a
recovery hint behind them (`loop/tool_batch.py:259-281`).
`midTurn` is a history variable: it records that a notification entered a turn that
was being resumed, which breaks three properties (see the findings) and excuses them.

### SessionInbox

Several sessions share one mailbox address and each has an inbox, a durable history
and a live view. An awaited store call is two actions, its effect and its return
(`CommitNotes` / `NotesCommitted`, `EnqueuePeer`, `CommitPeers` / `PeersCommitted`,
`AppendNote` / `NoteAppended`), so that a cancellation (`CancelCommit`, `Interrupt`), a
lost reply or a crash falls between them. `drain_pending_notifications` shields its
commit and finishes it before it lets the cancellation out (`raising`); the mailbox
producer does not. `Expire` ends a lease, early as often as `MaxLate` allows while its
consumer lives; tokens are `<<session, number>>`. `durable` chooses the durable inbox or
the queue in memory with `DrainMail` and `Redeliver`. A crash loses the queue, the view
and the live cursor; `Restored` rebuilds the view from the snapshot and the rows after
its watermark. `sent` and `missed` are history variables; `missed` records that a call
was cut off after it had stored rows. Turn bodies append nothing (that is
`TurnRecovery`); prompts are numbers. Left out: a send that fails inside `_redeliver`
(`coordination/mailbox/__init__.py:186-205`). It takes a second fault behind the one that caused
the redelivery, only without the durable inbox; the code sends the other messages and raises, and
the message whose send failed is in no store any more. So without the durable inbox
`ExactlyOnce` and `EventuallyStored` say nothing of that case.

### Scheduler

One message of `N` calls. `Evaluate` and `Resolve` are the two permission passes,
`SaveDecisions` the checkpoint before any effect, written at once or held for the next barrier,
which the first start event is (`Flushed`), `DetachStart` and `DetachRun` a call that goes to the
background. `Greedy` and `Pack` are the two partitions: the batch taken
next from `rest` and what it leaves behind. A batch passes through `OpenBatch`, starts,
executions with attempts (`Begin`, `Settle`, `Retry`, and a pause before a further attempt,
after which the code does not look at the abort signal again) and ends; serial and parallel lanes
share the actions and differ in their guards. An abort, a cancellation, an early close of
the stream and a crash may come at every await; `Resume` is the next life of the same
batch, in `TurnRecovery`'s terms a turn resumed at its tools. What a tool declares about a
call is a function of its input, so `Inputs` are records and equal inputs share one
permission key, as canonical inputs do. What is left to batch, what a batch contains and
what has started are sets of positions in the message; the order of the message is that of
the positions. `MaxBackground` bounds how many calls carry the background hint.

Choices: policy is what rules, modes and hooks come to; ends of progress, results and
budgets of output are left out; a tool without timeout is trusted to end.

What the code leaves open and the model shows: maximal packing lets a later call pass an
earlier one that it conflicts with when that one was skipped (`scheduler.py:1176-1178`;
`docs/usage/tools.md:242-246` describes the strategy), so `BarriersHold` requires the order
of conflicting calls under greedy batching only. Background calls are outside the batches:
neither cap nor conflicts apply to them. The serial lane closes its brackets on an abort
but not on a cancellation of the task. Answers are kept per canonical input: a denial can
be overwritten by the later approval of an identical call, and a resume replays the
approval (`scheduler.py:1330-1334`).

### ModelCallLedger

One ledger per run, one budget per process and tree, and each delivery's way through its
caller: `Begin` (intent), `RecordSource` (a projection recorded by a compaction), `Mark`
(dispatch marker, flushed before the provider is invoked), `End` (settle: the budget is
charged and the receipt recorded, then flushed), `Abandon`. `Record` puts a record into
the run's buffer; `Flushed` and `FlushFails` are the two ends of the flush that holds the
ledger's lock, the second one rejected, lost or cancelled, with or without effect. `Crash`
loses ledgers, buffers and budget; `Open` restores (`Recover`, `Acceptable`, `BudgetAccepts`,
`Adopt`). `Recheck` is the test of the budget after the marker is durable. Use is a small
number, `0` a receipt with unknown use; prices and kinds of tokens are left out.

What the code leaves open: if a ledger fails while parallel calls of one custom compaction
strategy run, the delivery of the other call is neither charged nor fenced (its settle is
skipped), although `docs/migration-3.0.md:373-376` calls unknown usage a strict fence;
`SpendAccounted` says so in its antecedent. A resume in the same process after a flush of a
marker or a receipt failed can be refused for good, which is the safe side. After a crash
only the first resumed run of a tree can adopt the fresh budget.

### Dispatch

Extends `RunStore` with schedule rows and jobs. `EnqueueRuns` is a batch in one
transaction, with no-op ids and refusals; `CreateSchedule`, `CancelSchedule`, and a fire that
is ignored, commits (run, run job, next fire, deferred job in one transaction) or meets a
busy session and fails. A job whose transaction committed may stay (`Answered`) and be
handled again. A failing job is retried up to `MaxAttempts` and then held. Runs start, write
and end through `RunStore`'s own actions, so that admission is the store's; what happens to
a claimed run is `Worker`. Leases are cut off at zero epochs.

### Workflow

One function body: a tree of fan-outs (`Parent`), each branch a sequence of journaled calls
after its own fan-out. A call takes its occurrence when it is issued, and is then replayed,
executed or (an interrupt) answered or suspended; its event is appended under a drain that
outlasts cancellation (`Applied`, `Returned`); a snapshot is taken with whatever else is in
flight and written in its own time (`Saved`). `Fail`, `Cancelled`, `Unwind` are how an
exception goes through `parallel` and `settled`; `Run` is the next process, which rebuilds
the journal from the stored snapshot and the tail of the log. A value records the branch,
the place and the process that produced it, which the code does not know and the
properties need. Tasks that have no slot to wait for start in the order of their creation;
branches are numbered in that order.

Results replay in issue order, so identical calls must be issued in the same order by every
process. First calls of branches are; later ones are not: in a pipeline whose second stages
make identical calls without `key=`, a resume pairs them by who comes first, and one item
may get another item's result while its own side effect happens twice. The docs ask for
`key=` there; `ext/workflow/journal.py:6-8` ("Identical calls issued in parallel still replay
deterministically regardless of completion order") holds only for calls issued at once, and
the instance keeps to those.

### SessionLifecycle

One agent on one event loop: an action is what happens between two awaits. `lock` is
`_session_lock` as its holder and the tasks queued behind it: an opening (`HostOpen`,
`Reattach`, `Create`, `Publish`), the prune at the end of a stream (`Finish`), the task that
a finished worker starts (`WorkerDone`, `PrunerStarts`) and `_close_impl` (`HostCloseAgent`
to `ReleaseResource`). `Evict`, `Evicted` and `PruneEnds` are the loop of
`_prune_idle_sessions`; `target` is the release its holder awaits. `gen` is where a stream
is: admitted but not started, in its body, parked at a yield, tidying up, leaving after a
cancellation, or stuck because its processes could not be cleaned. `closer` is where
`_aclose_impl` is: cleaning, awaiting a stream that runs elsewhere, closing a parked one
itself, draining workers, releasing the child. The worker goes from `Spawn` through
`Registers` (its child enters the registry without the lock) and `Drives` to `Reports`; a
cancellation is a flag that the next await takes. `Continue` and `TaskStop` are the tools of
the parent's run. `reserved` and `excess` are history variables: what eviction chose and has
not closed, and whether an idle session was added, or a prune cut off, since the last scan.
`Candidates` is the set of idle trees; `Evict` takes the one that is first in `order`, the
registry's order of use.

Choices: two streams of one session are not told apart; a parent has one retained background
worker while it is live, whose child has none; abort lets a run end, it does not force it to;
stores that set-up reads and hooks are a step that returns; a stream does not yield while the
continuation of a child, a tool call of its run, is under way; whether the end of a child queues a
note for the parent is left open, since it depends on who awaits it.

A run that was aborted or is being closed yields like any other: the ends of its calls, progress
and its result go out through the stream (`Yield`). A close that found the stream being advanced
waits until it is unwound, without a timeout; `Reading` is what ends this wait (section 3,
*Fairness* and *Unread stream*).

What the code leaves open: a child that waits for its set-up to end is idle by itself and
can be evicted, after which its run is refused and the worker fails. A failed eviction leaves
its whole tree quiescing, to be released by hand. A prune that raises or is cancelled is not
repeated until the next run or worker ends, and openings do not prune: `excess` marks both.

## 3. The runs

| run | instance | states | shows |
| --- | --- | --- | --- |
| `store_lease` | 1 run, 2 workers, `Ttl` 2, 4 instants, 3 epochs, 3 events | 167,252 | `EpochNamesOneOwner`, `UnexpiredTokenIsCurrent`, `FencedForever`, `LogOrderedByTenure` |
| `buffer_refines` | loop and 1 background task, all write failures, cancellation, 6 items, 1 foreign event | 243,695 | `RefinesWriteThrough`, `CursorNeverAhead` |
| `buffer_barriers` | loop and 2 background tasks, no failures, write-through saves, 7 items | 391,463 | `DurableOrder`, `BarrierCommits` |
| `worker_mixed` | 2 workers, one with 2 callbacks, 1 fault, 5 late ticks | 675,931 | `OverlapBounded`, `OneExecutionPerEpoch`, `NothingLeaked`, `TerminalIsFinal`, `EventuallySettled` |
| `turn_resume` | 3 turns of 2 calls, 3 stops, 1 notification | 130,827 | `AtMostOnce`, `ResultsAreTrue`, `HistoryKept`, `Settles` |
| `inbox` | 2 sessions on 1 address, 2 peer messages, 1 notification, 2 inputs, 1 fault, 1 early expiry | 517,358 | `ExactlyOnce`, `OrderKept`, `NoteSeen`, `EventuallyStored` |
| `scheduler` | every message of 3 calls over 4 kinds of tools, at most 2 in the background, cap 2, both strategies, 2 attempts, 1 fault | 1,355,316 | `Isolated`, `RunsAsAllowed`, `EndsCleanly` |
| `ledger` | 2 runs of a tree, 2 auxiliary and 1 primary delivery, cap 2, 1 fault | 386,097 | `SpendAccounted`, `JournalIsLedger`, `SameOwnerResumes`, `FenceHolds` |
| `dispatch` | 1 schedule, 2 requested runs, 2 sessions, 2 ticks, 2 attempts | 115,224 | `OneActivePerSession`, `OccurrencesExact`, `NothingStranded`, `CancelStops`, `FiresOrHeld` |
| `workflow` | 2 fan-outs inside a fan-out as wide as its slots, 3 calls, 3 processes, 2 faults, snapshot every 2 | 259,386 | `ReplayExact`, `SnapshotLosesNothing`, `Ends` |
| `lifecycle` | 2 roots, 1 worker with its child, idle bound 0 or 1, 1 resource, 2 inputs or failures | 573,673 | `ClosedLast`, `EvictsIdleOnly`, `BoundKept`, `CloseEnds` |

Each module has a `TypeOK` (`DispatchTypeOK`); section 4 says which are proved, and
all hold in these instances. Several
properties are conjunctions of named parts (`NothingLeaked`, `DurableOrder`,
`HistoryKept`, `ExactlyOnce`, `OrderKept`, `Isolated`, `RunsAsAllowed`, `EndsCleanly`). For each property a
fault of the code is kept beside the definition it would replace (the comments that
start with `Fault:`); replacing the definition by it violates the property.

### Bounds

`store_lease`: two owners and three epochs are what a takeover, the return of the
first owner and a token from before both need; four instants with a lease of two let
a lease expire, be taken over and expire again. More runs add nothing there, since no
lease operation reads another run.
`buffer_*`: six items are two events, two checkpoints and a terminal pair, enough for
a checkpoint deferred while the one before is being written; `Room(n)` keeps places
for the terminal pairs so that a full buffer can always end. Two background tasks
are needed for one to wait while the other writes.
`worker_mixed`: one fault is a crash, a failed or lost reply, a failed read or cleanup, a stall
or a cancellation at any point of any of three callbacks; several in one execution are out of TLC's reach together
with five late ticks, which are more than two lease durations, so that a reply outlives both
its lease and the deadline computed from the one before.
`turn_resume`: three stops are a crash, a crash while recovering from it, and one
while recovering from that; two calls are the least that has a started call, an
ended one and an unstarted one at different times; three turns put a resumed turn
before and after an ordinary one.
`inbox`: two consumers and two messages are what a takeover of an expired claim and a
late acknowledgement need; any two inputs (peer messages, a notification, prompts) meet
one fault. Two sessions also let a message overtake another one if a lease could be
passed.
`scheduler`: three calls are the least for one to be packed past another, with a barrier
between; the four tools read, write one resource, write two, or are serial, and two of
them ask; two background calls are one detached while the other waits its turn; one fault is one failing attempt or approval, an abort, a close or a crash.
`ledger`: two calls side by side and a second run that charges the same budget are what
makes a check of the budget stale; a cap of two is reached by two of the three calls.
An uncapped budget has no fence and is not run.
`dispatch`: four runs of two sessions (two occurrences, two requests) contain two active
candidates for one session and a batch across sessions; two ticks make one occurrence be
missed while the one before is handled; two attempts, one retry.
`workflow`: two outer branches for two slots, both fanning out, are the shape in which
shared slots would deadlock; a call made by both sides and a question after it are the
least in which a suspension, a crash and a failure hit different branches; three
processes are a resume of a resume. A branch never waits for a slot here, except where
the fault makes it.

`lifecycle`: the parent's first run has begun; two more inputs are a worker and a run that
makes its parent the least recently used, a worker and its continuation (a stop is free), or
a failure and what it meets; the close of the agent and its retries are free. One evicting
and one evicted root are the least in which eviction meets work, a bound of zero the case in
which a session is evicted by its own run. Resources are alike, one is enough.

### Fairness

`Worker` assumes weak fairness of each execution's own steps, of each heartbeat, of
the queue's polling and of time: tasks of a live event loop are scheduled, a run ends
by itself (turn limit), the queue polls. Failures are never fair, and they are
bounded, so `EventuallySettled` says: once failures stop, the run is finished and its
job gone. `TurnRecovery` assumes weak fairness of the loop and of resuming (the queue
redelivers), with a bounded number of stops. `SessionInbox`: sessions keep taking turns
(each `Progress`) and the lease of a consumer that is gone runs out; new inputs, expiry under
a live consumer and faults are not fair. `Scheduler`: the event loop runs what is ready, users
answer, attempts end, and a crashed run is resumed. `Dispatch`: a live fleet handles each fire
that stays due; `EndingSpec`, for the finding only, adds that started runs end. `Workflow`:
weak fairness of each branch's step and of the end of the process, so that `Ends` needs no
help from a crash. `SessionLifecycle`: the event loop runs what is ready, runs and hooks end,
a closed stream is tidied, and a host whose `close()` raised calls it again. Fairness is of all
runs, of all closers and of all openings together, which is weaker than of each and enough. Hosts
need not read their streams, nor release anything, with one exception that `CloseEnds` needs and
`lifecycle` states as `Reading`: who reads a stream that a close waits for reads on or closes it,
and such a run, which is aborted, yields finitely often before it ends (strong fairness of its end).
`RunStore`, `EventBuffer` and `ModelCallLedger` state no liveness.

### Findings

`schedule_stalls` is the run of a statement that the code does not keep; `findings` in
`PROJECT.json` quotes it. A fire for a session with a nonterminal run raises out of its
transaction and is retried a bounded number of times; then PgQueuer holds the job, and
`next_fire` never moves again: not only are missed occurrences not caught up
(`docs/usage/production.md:381`), later ones are not deferred either, although every run
ends. The run of the previous occurrence is enough for it when several were missed.

Others were met while modelling. The models have the code's behaviour; the properties
name the exception where one is needed:

- Recurring ids. `run_tool_batch` decides that it is resuming a turn by comparing with the
  working checkpoint, which the loop itself keeps up to date (`loop/tool_batch.py:77`); so
  every later turn of a resumed run starts from the results of the batch before. With ids
  that recur across turns a call is skipped and answered with an old result, against
  `loop/checkpoint.py:676`. `RecurringIds = TRUE` in the instance of `turn_resume` violates
  `ResultsAreTrue`; the run has it `FALSE`.
- Split exchange. Notifications are drained at the top of a turn that is resumed in its tool
  phase (`loop/runner.py:618`); the message lands between an assistant message with tool calls
  and its results. (Alignment is deferred in exactly this case, `loop/runner.py:657-659`.)
  `midTurn` marks it, and `ResultsFollowCalls` alone, without that excuse, fails.
- Stuck resume. A notification delivered on a resume at `provider_pending`, then a crash before
  the new binding: the next resume finds a history its checkpoint does not account for and
  fails the run (`loop/checkpoint.py:163`), against `docs/usage/production.md:124-125`.
- Skipped barrier. After a failed barrier of a background task, `flush` returns without
  committing (`loop/checkpoint.py:346`), and the loop goes on to its external effect, against
  `docs/architecture/subsystems.md:171-174`. `buffer_barriers` therefore runs without failing
  writes; with `BarrierFaults` nonempty `BarrierCommits` fails.
- Overlap. The heartbeat's deadline counts from the reply (`worker/runtime.py:372`); an
  execution with a slow renewal still runs when the lease has expired and another worker
  resumed, against `docs/usage/production.md:358`. `OverlapBounded` shows how long: at most one
  lease duration.
- Unseen delivery. The mailbox producer awaits `commit_inbox` without a shield
  (`coordination/mailbox/__init__.py:123`). Cancelled, or its reply lost, after the commit, the
  rows are durable and acknowledged but behind the cursor once the next prompt is appended, and
  the model is never shown them, against `docs/usage/run-stores.md:638-640`. `missed` marks it;
  without that excuse `NoteSeen` fails.
- Early commit. With `Through` TRUE and a background task, a save that writes through can find
  the buffer just emptied by the other task and return without writing its newer checkpoint
  (`loop/checkpoint.py:288`): `buffer_refines` therefore runs with `Through` FALSE.
- Early result. With `Cancellation` TRUE the result held out of the buffer during terminal
  cleanup is put back and flushed while the run is still running (`loop/runner.py:1147`):
  `buffer_barriers` therefore runs without it.
- Unread stream. A forced close that finds the stream of a run being advanced by its reader waits
  for it to be unwound, without a timeout (`session.py:744-746`). The abort does not keep the run
  from yielding once more (`scheduler.py:1397-1404`, `loop/runner.py:1083-1085`, `session.py:512`);
  if the reader stops there, nobody closes the stream, and `agent.close()` hangs with the session lock,
  against `session.py:226-228` ("so a forced `aclose` can finalize an abandoned run generator") and
  `docs/usage/production.md:154-156`. A close that finds the stream parked already closes it.
  Under `Spec` alone `CloseEnds` fails in this way; under `ReadingSpec` it holds.
- Stopped, then continued. `TaskStop` marks a worker killed at once while its cancelled task
  still runs its stop hook; a `SubagentContinue` may claim it then, and the first task, when it
  ends, overwrites `running` with `killed` (`tools/subagent.py:299-301`), so that a second
  continuation is no longer refused by the status, only by the child being active, against
  `docs/architecture/skills-subagents.md:123`. `lifecycle` contains the behaviour (`StopHookEnds`
  while `cont` is under way) and states nothing of the status.
- Reattaching. The docstring of `Agent.session` promises a `ConfigError` if the live session is
  closing (`agent.py:1681`); the code returns the closing instance (`agent.py:1709-1714`), as
  `Reattach` does.

## 4. What is proved

Each theorem holds for every value of the constants that the named assumption of its module
allows. Those assumptions are typing: bounds are naturals, durations positive, and a value that
stands for "none" is not one of the things it is none of (`NoOwner`, `NoRun \notin Row`,
`NoWrite \notin WriteRow`). In `SessionInbox` a delivery is not a number either, since a prompt is
the number of its run. `SessionLifecycle` assumes that the roots are finitely many
(`IsFiniteSet(Roots)`), since an agent starts with all of them registered. `Worker` assumes that there is an execution (`Execs # {}`), without
which it has no initial state. No theorem has a hypothesis on the state. A hypothesis
on a constant, where there is one, is in the table: it excludes a case in which the run of
the property finds it violated (section 3, *Findings*).

| module | theorem | property | for |
| --- | --- | --- | --- |
| `DispatchProofs` (of `RunStore`) | `TypeCorrect` | `TypeOK` | |
| | `Admission` | `OneActivePerSession` | |
| | `EpochUniqueness` | `EpochNamesOneOwner` | |
| | `LeasePromise` | `UnexpiredTokenIsCurrent` | |
| | `LogTenures` | `LogOrderedByTenure` | |
| | `FencingIsFinal` | `FencedForever` | |
| `WorkerProofs` | `TypeCorrect` | `TypeOK` | |
| | `ExecutionsFenced` | `OneExecutionPerEpoch` | |
| | `NoLeak` | `NothingLeaked` | |
| | `BoundedOverlap` | `OverlapBounded` | |
| | `TerminalRunsStay` | `TerminalIsFinal` | |
| `DispatchProofs` (of `Dispatch`) | `DispatchTypeCorrect` | `DispatchTypeOK` | |
| | `DispatchAdmission` | `OneActivePerSession` | |
| | `FiresExactly` | `OccurrencesExact` | |
| | `NoneStranded` | `NothingStranded` | |
| | `CancelIsFinal` | `CancelStops` | |
| `ModelCallLedgerProofs` | `LedgerTypeCorrect` | `TypeOK` | |
| | `NothingIsFree` | `SpendAccounted` | |
| | `SameOwnerAccepted` | `SameOwnerResumes` | |
| | `FenceKeepsTheCap` | `FenceHolds` | |
| | `JournalKeepsTheLedger` | `JournalIsLedger` | |
| `EventBufferProofs` | `BufferTypeCorrect` | `TypeOK` | |
| | `CursorBehindLog` | `CursorNeverAhead` | |
| | `FlushIsBarrier` | `BarrierCommits` | `BarrierFaults = {}` |
| | `ResultsWithStatus` | `ResultOnlyWithTerminal` | no `Cancellation` |
| | `DurableInOrder` | `DurableOrder` | no faults, no `Cancellation` |
| | `ImplementsWriteThrough` | `RefinesWriteThrough` | `Background = {}` or `~ Through` |
| `TurnRecoveryProofs` | `TurnTypeCorrect` | `TypeOK` | |
| | `StartedOnce` | `AtMostOnce` | |
| | `TrueResults` | `ResultsAreTrue` | `~ RecurringIds` |
| | `HistoryIsKept` | `HistoryKept` | |
| `SchedulerProofs` | `TypeCorrect` | `TypeOK` | |
| | `IsolationHolds` | `Isolated` | |
| | `RunsAsAllowedHolds` | `RunsAsAllowed` | |
| | `LeavesNothingOpen` | the safety half of `EndsCleanly` | |
| `SessionLifecycleProofs` | `LifecycleTypeCorrect` | `TypeOK` | |
| | `EvictionIsSafe` | `EvictsIdleOnly` | |
| | `IdleCacheBounded` | `BoundKept` | |
| | `ResourcesReleasedLast` | `ClosedLast` | |
| `SessionInboxProofs` | `InboxTypeCorrect` | `TypeOK` | |
| | `ExactlyOnceHolds` | `ExactlyOnce` | |
| | `OrderIsKept` | `OrderKept` | |
| | `NotesAreSeen` | `NoteSeen` | |

Hardly any of these properties is inductive. The inductive invariants were checked by TLC on the
instances before they were proved; they say what the code relies on and nowhere states.

**RunStore.** Its proofs come first in `DispatchProofs`, which uses them; they speak of `Spec` and
its constants and cite none of the assumptions that `Dispatch` adds. `TokensBehindLease`: no token has an epoch above the stored one, and one with the
stored epoch has the stored owner; without it a claim could hand out an epoch that somebody
already holds. `ExpiryCovered`: the stored expiry is at least that of any current token, and at
most one duration ahead; the second half is why a refresh never shortens a promise.
`LogBehindLease`: no event has an epoch above the stored one, so an append by the holder cannot
be out of order. `LeaseStep` and `LogStep` take the actions one by one; `EpochsGrow` with
`TokensBehindLease` gives `FencingIsFinal`. `Admission` needs typing only, since every action that
makes a row active checks the others in the same step.

**Worker** (`IInv`). A worker refreshes its own live lease without a new epoch, so what tells two
executions apart is partly the store's counter and partly the worker's set of active runs:
`OneRegistered` (a worker has registered the run for one execution) and `TokensBehindLease`
together. From them at most one execution that holds its token passes the fence, and the
rest follows: `WritersFindOpenRun` (a writer with a current token finds the run
unfinished) and `AckOfTerminal` give `JobOutlivesRun`; `ReplyCovered` (a renewal whose reply still
counts was promised at least that long) and `OverlapBudgeted` (time run after being superseded plus
time still to wait is at most one lease duration) give `OverlapBounded`.

**Dispatch** (`DispatchInv`). The rows change by the operations of `RunStore`, whose step lemma on
admission is used again, and by the insertion of a whole batch. `Calendar` says that the next fire
is a whole number of intervals after the first; with `Remainder` and `NextMultiple`, arithmetic for
every interval, the fires from the first one to the next are the occurrences that have a run.
`NothingBefore` and `ClockBounded` cover a schedule that does not exist yet and the end of time.

**ModelCallLedger** (`LedgerInv`). The proofs speak of the set of a run's records: a record
only joins the buffer, a commit moves the buffer to the journal, a lost buffer closes the ledger
or marks it. `InvokedBehindMarker` (a provider was invoked only behind a durable marker, an
abandoned delivery never), `ReceiptsHonest`, `ChargesHonest` and `EndedAccounted` are what makes
`SpendAccounted` inductive: a resume restores charges from records, so the records must be true.
`BudgetKnows`, `Recorded` and `OwnerFirst` say that the budget of a process knows
every record of its healthy runs, the buffered ones included; that is `SameOwnerResumes`.

For the fence, `FinitelyCharged` and a lemma on sums over finite sets: what the budget has
charged is no less than what the finished deliveries of open runs used, so a call that passes
`Recheck` finds that sum below the cap. Sums are functions over subsets; that a sum over more is
no smaller is proved from the well-foundedness of inclusion, since no induction theorem applies.

For `JournalIsLedger` the invariant is `RunInv` of every run. Its log is the journal and the
buffer behind it. The log breaks none of the rules of recovery (`Acceptable`), its records are
those of where the calls are (`Staged`), and the stored envelope is behind the journal
(`Covers`). A healthy ledger is the log read in closed form (`Mirrors`, `Shows`: sets of
deliveries by kind of record, the total and the number of records), but for the record whose
flush is awaited, which is in the buffer and not yet in the ledger. A ledger that failed is only
known to be behind its log (`Trails`), which is what the terminal may still write. Each operation
has a lemma that it takes one mirror to the next; `Recover`, the fold of the code, is related to
the closed form record by record.

**EventBuffer.** `BufferInv`: the lock is held by a task that waits for its write, and while it is
the run loop nothing newer is deferred (`Holder`). `FailedLate`: without a failed background write
the buffer is failed only when the loop is on its way out, which is why `flush` may return at once.
`ResultInv`: a result is in the buffer only from the phase completing on and behind what the held
checkpoint covers (`EarlyFree`, `CoveredFree`), so that a barrier of another task cannot take it;
a write in flight with a running status carries none (`RunningFree`); and when the loop is past
its terminal write the buffer is empty or failed (`LateQuiet`). It holds for all write failures,
those that took effect included. `OrderInv`: the durable checkpoint only advances (`Advances`) and
a task that passed its barrier has the checkpoint it needs in the store (`NeedHeld`), written by
itself or by whoever held the lock before it.

The refinement (`PrefixInv`): every recorded event is durable, in flight, pending or held out, in
this order, and one that is durable and still waits was written without a reply (`Queued`,
`HeldLast`, `LogAscends`); the newest checkpoint is the held or the durable one (`Newest`); a held
checkpoint is ahead of the store and `covers` cuts the pending events exactly at it (`Ahead`). So a
write in flight, if it took effect, would leave the events and the checkpoint of one prefix
(`WriteCommits`), and `StepWritesThrough` maps each step to `Record`, `Persist` or a stutter. All
write failures and cancellations are in it. The hypothesis excludes the combination for which TLC
finds the refinement violated (*Early commit*, section 3).

**TurnRecovery.** `BaseInv` is typing together with two facts about the code: a checkpoint points
into the logs and holds the message of its turn when its phase says so (`Sound`), and the place
of the attempt agrees with its working checkpoint (`Placed`). A call is `Done` for a checkpoint
when a resume from it would not start the call: its turn is over, its result is in the
checkpoint, or its start is in the log behind the cursor. `KnowsStarted` says that every call with
a logged start is done for the durable checkpoint, and for the working one while there is an
attempt; neither the checkpoint nor the log knows that alone. `BatchFresh` says the same
of the running batch: what will start has no start in the log, what runs has one. They give
`StartedOnce` for all constants, recurring ids included, since a recurring id can make the code
skip a call, never repeat one. `TrueResults` adds `KnowsAnswered` (a turn whose results are in the
history is done), `EndsKnown` (a recorded end is in the checkpoint or behind the cursor), and that
the result maps of both checkpoints, of the batch and of the history hold the outcome of each of
their calls (`MapsTrue`, `MessagesTrue`). A start changes no outcome and an end changes that of
its own call only, which the history does not hold yet (`InBatch`). Ids must not recur for this:
otherwise a map that is kept from one turn to the next speaks of other calls.

`HistoryIsKept` counts the messages of the history that are no notifications (`Exchanged`). Each
phase of a checkpoint says how many there are for its turn (`Fits`): exactly, but for the one
append that a crash may have cut off from its checkpoint, and then the additional message is the
accepted one (`PastBase`), which is how `Reconcile` recognises it. `InPlace` says the same of the place of
the attempt. `Transcript` is the history itself: prompt, then assistant messages and results in
turn, results directly behind their message. It needs no distinct ids, and no hypothesis but the
excuse that the property has.

**Scheduler** (`IInv`). `Accounted` places every call: left to batch, in the batch, detached or
started before; `Closing` says that what was begun before the present batch has its end. `InOrder`
is stronger than `BarriersHold`: a call is not even batched before those it must wait for have
settled, which is what `Greedy` and `Pack` have to guarantee and is proved from their definitions
for messages of any length. With `BatchFits` (what is in one batch may run together, and no more
than the cap) and `InLane` (a foreground tool runs in its batch only) that is `Isolated`. `Granted`
follows an approval from the moment it is given to the start that it authorises, which makes the
checkpoint with it durable; that start events are barriers is what it rests on. With `Attempts`
that is `RunsAsAllowed`. `StartsFirst` and `Closing` give `LeavesNothingOpen`.

**SessionLifecycle** (`IInv`). `Chosen`: a session that an eviction or a close of an idle tree
chose stays as idle as it was, because admission, continuation and a spawn all refuse a session
that is quiescing. `Tied` (the parent outlives its worker and its child), `Unwinding` (a close waits
for the run it found and admits no other) and `CreatesAlone` (whoever creates a session holds the lock
and its id stays free) keep that true across the awaits of a release. `Registered` and
`ClosingAll`: every live session is in the registry and on the list of the close, also one that a
worker registered without the lock; hence `ClosedLast`. `Scanned` is the reason why the bound holds
between prunes: unless a scan is due (`Due`) or `excess` excuses it, the idle trees are within the
bound and all work that hides a tree is watched by the run or worker whose end will scan again.
`EasedStep` collects the many steps that add no candidate.

**SessionInbox** (`IInv`). `Projects` is about one session: its view, and likewise its stored
snapshot, is a subsequence of the history up to the cursor (`Shown`) and, unless a call was cut off,
has every delivery up to there (`Sees`). The cursor is at the end of the history but for the rows of
the call under way (`Gap`), or, behind a commit, for all that earlier commits left (`Loose`); at the
provider call neither is left, which is `NoteSeen`.

With the durable inbox (`DurableInv`) the receipts of a session are exactly the ids that are pending
or in its history, each once (`Rows`), so a retry or a reclaim enqueues nothing twice. That nothing
is lost is `Posted` (what was sent is in the mailbox or has a receipt) with `Settled` (a claim that
is about to be acknowledged has all its receipts). The order is the hard part, since a lease may
expire while its consumer is still going through the claim, and another session may take the same
messages. `Caught` says that whoever received a message has received everything older that is still
in the mailbox; `Batched` carries this through a claim: what is still to be enqueued is received
already or newer than all that is received, and everything else in the mailbox is newer than the
claim. The second holds when the claim is made because only a prefix is claimed, and it stays true
because the mailbox only loses messages and gains newer ones, whoever acknowledges them.

Without it (`MemoryInv`) a peer message is in one place: the mailbox, the hands of one drain or one
history; a notification is in the queue or the history, and in both only as the head of the queue
between the two steps of its append (`Noted`). `Counted` is for the types only.

What stays with TLC, and why:

- Liveness (`EventuallySettled`, `Settles`, `EventuallyStored`, `FiresOrHeld`, `Ends`, `CloseEnds`,
  the end in `EndsCleanly`): the proof system does not handle fairness.
- `Workflow`: `ReplayExact` and `SnapshotLosesNothing`. The first rests on every process issuing
  identical calls in the same order, which relates whole executions of two processes; the second
  needs a closed form of `Rebuilt`, a recursive function over a log that grows. Neither is proved.
- In `EndsCleanly` the proved half is `LeavesNothingOpen`; that a batch ends is liveness.

## 5. Plan

Done, in this order: `RunStore` and its proofs (everything else stands on fencing),
`EventBuffer` with `WriteThrough`, `Worker`, `TurnRecovery`, `SessionInbox` with the mailbox,
`Scheduler`, `ModelCallLedger`, `Dispatch`, `Workflow`, `SessionLifecycle`.

Proved: the safety properties of `RunStore`, `Worker`, `Dispatch`, `ModelCallLedger`, `EventBuffer`
with its refinement, `TurnRecovery`, `Scheduler`, `SessionLifecycle` and `SessionInbox`. Proof to
add: for `Workflow` `SnapshotLosesNothing`, from every snapshot in flight holding the log up to its
watermark.

Models to add: further endings of a turn in `TurnRecovery` (gates, truncation, loop guard,
turn and budget limits, alignment), compaction's projection of the log, the provider limiter.
Instances stay in the sizes of section 3; where a new component needs a run, the two runs of
`EventBuffer` can be joined.

## 6. Not modelled

Contents of messages, prompts, model output and tool output (data the properties do not
tell apart); providers, execution backends, filesystem, RAG and MCP (I/O); hooks, kernel
and configuration (no state of their own across calls); evals, reports and testing
helpers (offline); the Rust port (another implementation). `components` in
`PROJECT.json` lists every part with the reason.
