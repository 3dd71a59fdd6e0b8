--------------------------- MODULE SessionLifecycle ---------------------------
(***************************************************************************)
(* Live sessions of one agent: opening, running, releasing, eviction of    *)
(* idle ones, background workers with their child session, and the close   *)
(* of the agent with the resources its sessions share.                     *)
(*                                                                         *)
(* One asyncio loop runs everything: an action is what happens between two *)
(* awaits.  The session lock is a queue of its holder and of the tasks     *)
(* that wait for it, first come first served as in asyncio.Lock.  A live   *)
(* session is named by its id; a reopened id starts afresh.  Two streams   *)
(* of one session are not told apart: a run waits until the one before has *)
(* left the lock, and a parent has one retained worker while it is live.   *)
(***************************************************************************)
EXTENDS Integers, Sequences, FiniteSets, SequencesExt

CONSTANTS
    Roots,      \* sessions the host opens
    Parent,     \* the root that may have a background worker
    Child,      \* the session of that worker
    NoSession,
    Bounds,     \* values of Agent.max_idle_sessions
    Resources,  \* shared resources that close() releases, in their order
    MaxInputs   \* bound: runs after the parent's first, openings, releases, aborts,
                \* cancellations, spawns, continuations and failures, in all

ASSUME LifecycleAssumption ==
    /\ IsFiniteSet(Roots)
    /\ Parent \in Roots /\ Child \notin Roots /\ NoSession \notin Roots \cup {Child}
    /\ Bounds \subseteq Nat /\ Resources \in Nat \ {0} /\ MaxInputs \in Nat

Sessions == Roots \cup {Child}
Run(s)   == <<"run", s>>            \* a stream that ends, about to prune
Open(s)  == <<"open", s>>           \* Agent.session(id)
Pruner   == <<"prune", NoSession>>  \* Agent._idle_prune_task
Closer   == <<"close", NoSession>>  \* Agent._close_task
Raised   == "raised"

VARIABLES
    agent,      \* Agent._lifecycle_state
    stage,      \* where _close_impl is
    todo,       \* sessions it has still to close
    drained,    \* "sessions" \in _teardown_complete
    released,   \* shared resources closed so far
    bound,      \* max_idle_sessions
    lock,       \* _session_lock: holder first, then those who wait
    target,     \* the session whose release the holder awaits, or Raised
    creating,   \* the holder is Open(s), past its checks
    pruner,     \* the prune task that finished work starts
    watched,    \* the worker's task is in _idle_watch_tasks
    life,       \* Session._lifecycle_state
    order,      \* Agent._sessions, least recently used first
    gen,        \* the run's generator (_iterate)
    procs,      \* its ProcessRegistry: dirty until cleaned
    closer,     \* where _aclose_impl is
    stopping,   \* the parent's run was aborted or failed
    notes,      \* the parent's undelivered notifications and child events
    task,       \* WorkerHandle.task (_bg_run)
    outcome,    \* what its run_subagent came to
    cancel,     \* it was asked to cancel
    status,     \* WorkerHandle.status
    cont,       \* a SubagentContinue in the parent's run
    reserved,   \* history: sessions that eviction chose and has not closed yet
    excess,     \* history: an idle session was added, or a prune was cut off
    inputs      \* what of MaxInputs was used

closing == <<agent, stage, todo, drained, released, bound>>
pruning == <<pruner, watched>>
locking == <<lock, target, creating>>
runs    == <<gen, procs, stopping>>
worker  == <<task, outcome, cancel, status>>
history == <<reserved, excess>>
vars    == <<closing, pruning, locking, life, order, runs, closer, notes, worker, cont,
             history, inputs>>

(* The host has opened its sessions and the parent's first run has begun.   *)
Init ==
    /\ agent = "open" /\ stage = "none" /\ todo = <<>> /\ drained = FALSE /\ released = 0
    /\ bound \in Bounds
    /\ lock = <<>> /\ target = NoSession /\ creating = FALSE
    /\ pruner = "none" /\ watched = FALSE
    /\ life = [s \in Sessions |-> IF s \in Roots THEN "open" ELSE "closed"]
    /\ order = SetToSeq(Roots)
    /\ gen = [s \in Sessions |-> IF s = Parent THEN "body" ELSE "none"]
    /\ procs = [s \in Sessions |-> IF s = Parent THEN "dirty" ELSE "clean"]
    /\ closer = [s \in Sessions |-> "none"]
    /\ stopping = FALSE /\ notes = FALSE
    /\ task = "none" /\ outcome = "none" /\ cancel = FALSE /\ status = "none"
    /\ cont = "none"
    /\ reserved = {} /\ excess = TRUE /\ inputs = 0

-----------------------------------------------------------------------------
(* Session._active; and a stream whose run is over, holding or awaiting the *)
(* lock.                                                                    *)
Active(s)   == gen[s] # "none"
Pruning(s)  == Contains(lock, Run(s))
Over(s)     == gen[s] \in {"none", "stuck"} /\ ~Pruning(s)
Alive       == task \notin {"none", "done"}
Aborting(s) == closer[s] # "none" \/ (s = Parent /\ stopping)
CanRun(s)   == life[s] = "open" /\ agent = "open" /\ ~Active(s)
Input       == inputs < MaxInputs /\ inputs' = inputs + 1

(* A queue and the registry hold what is in them once.                      *)
Without(q, e) ==
    IF Contains(q, e) THEN RemoveAt(q, CHOOSE i \in DOMAIN q : q[i] = e) ELSE q

Holds(c)    == lock # <<>> /\ Head(lock) = c
Touched(s)  == IF Contains(order, s) THEN Append(Without(order, s), s) ELSE order

(* The lock without a cancelled client; the release it awaited goes on.     *)
Left(c) ==
    /\ lock' = Without(lock, c)
    /\ target' = IF Holds(c) THEN NoSession ELSE target

-----------------------------------------------------------------------------
(* Opening.  The reservation serializes set-up with pruning and close().    *)
HostOpen(s) ==
    /\ Input
    /\ agent = "open" /\ ~Contains(lock, Open(s))
    /\ lock' = Append(lock, Open(s))
    /\ UNCHANGED <<closing, pruning, target, creating, life, order, runs, closer, notes,
                   worker, cont, history>>

(* A live id gives the registered session, also one that is closing.        *)
Reattach(s) ==
    /\ Holds(Open(s)) /\ ~creating
    /\ agent # "open" \/ life[s] # "closed"
    /\ order' = IF agent = "open" THEN Touched(s) ELSE order
    /\ lock' = Tail(lock)
    /\ UNCHANGED <<closing, pruning, target, creating, life, runs, closer, notes, worker,
                   cont, history, inputs>>

Create(s) ==
    /\ Holds(Open(s)) /\ ~creating /\ agent = "open" /\ life[s] = "closed"
    /\ creating' = TRUE
    /\ UNCHANGED <<closing, pruning, lock, target, life, order, runs, closer, notes, worker,
                   cont, history, inputs>>

(* close() may have begun meanwhile: then nothing is published.             *)
Publish(s) ==
    /\ Holds(Open(s)) /\ creating
    /\ creating' = FALSE /\ lock' = Tail(lock)
    /\ IF agent = "open"
       THEN /\ life' = [life EXCEPT ![s] = "open"]
            /\ order' = Append(order, s)
            /\ excess' = TRUE
       ELSE UNCHANGED <<life, order, excess>>
    /\ UNCHANGED <<closing, pruning, target, runs, closer, notes, worker, cont, reserved, inputs>>

-----------------------------------------------------------------------------
(* A run and its stream, driven by the host or by the worker.               *)
HostRun(s) ==
    /\ Input
    /\ CanRun(s) /\ ~Pruning(s)
    /\ gen' = [gen EXCEPT ![s] = "admitted"]
    /\ stopping' = IF s = Parent THEN FALSE ELSE stopping
    /\ UNCHANGED <<closing, pruning, locking, life, order, procs, closer, notes, worker, cont,
                   history>>

Start(s) ==
    /\ gen[s] = "admitted"
    /\ gen' = [gen EXCEPT ![s] = "body"] /\ procs' = [procs EXCEPT ![s] = "dirty"]
    /\ UNCHANGED <<closing, pruning, locking, life, order, stopping, closer, notes, worker, cont,
                   history, inputs>>

(* The host reads the stream, leaves it alone, or closes it.  A run that is *)
(* being aborted or closed yields too: the ends of its calls, its error.    *)
Yield(s) ==
    /\ gen[s] = "body" /\ (s = Parent => cont = "none")
    /\ gen' = [gen EXCEPT ![s] = "parked"]
    /\ UNCHANGED <<closing, pruning, locking, life, order, procs, stopping, closer, notes, worker,
                   cont, history, inputs>>

Advance(s) ==
    /\ gen[s] = "parked"
    /\ gen' = [gen EXCEPT ![s] = "body"]
    /\ UNCHANGED <<closing, pruning, locking, life, order, procs, stopping, closer, notes, worker,
                   cont, history, inputs>>

CloseStream(s) ==
    /\ gen[s] = "parked"
    /\ gen' = [gen EXCEPT ![s] = "tidy"]
    /\ UNCHANGED <<closing, pruning, locking, life, order, procs, stopping, closer, notes, worker,
                   cont, history, inputs>>

(* The next turn drains what is pending for the session.                    *)
DrainNotes ==
    /\ gen[Parent] = "body" /\ notes /\ ~Aborting(Parent)
    /\ notes' = FALSE
    /\ UNCHANGED <<closing, pruning, locking, life, order, runs, closer, worker, cont, history,
                   inputs>>

(* Session.abort, or an error: the run will cancel its workers and end.     *)
Abort ==
    /\ Input
    /\ life[Parent] # "closed" /\ (Active(Parent) \/ Alive)
    /\ stopping' = (stopping \/ gen[Parent] \in {"admitted", "body", "parked"})
    /\ cancel' = (cancel \/ Alive)
    /\ UNCHANGED <<closing, pruning, locking, life, order, gen, procs, closer, notes, task, outcome,
                   status, cont, history>>

(* The loop is over; an aborted or failed one has awaited its workers.      *)
EndRun(s) ==
    /\ gen[s] = "body"
    /\ s = Parent => cont = "none" /\ (stopping => ~Alive)
    /\ gen' = [gen EXCEPT ![s] = "tidy"]
    /\ UNCHANGED <<closing, pruning, locking, life, order, procs, stopping, closer, notes, worker,
                   cont, history, inputs>>

(* Fault: a run that ends while the agent closes waits for the lock too.    *)
PrunesAlways == TRUE

Prunes == agent = "open"

(* _finish_processes, _finish_run, _session_became_idle: the run is no      *)
(* longer active when its stream asks for the lock.                         *)
Finish(s) ==
    /\ gen[s] = "tidy" /\ procs[s] = "clean"
    /\ gen' = [gen EXCEPT ![s] = "none"]
    /\ order' = Touched(s)
    /\ lock' = IF Prunes THEN Append(lock, Run(s)) ELSE lock
    /\ UNCHANGED <<closing, pruning, target, creating, life, procs, stopping, closer, notes, worker,
                   cont, history, inputs>>

(* A cancelled one skips the bound.                                         *)
FinishCancelled(s) ==
    /\ gen[s] = "leave" /\ procs[s] = "clean"
    /\ gen' = [gen EXCEPT ![s] = "none"]
    /\ excess' = TRUE
    /\ UNCHANGED <<closing, pruning, locking, life, order, procs, stopping, closer, notes, worker,
                   cont, reserved, inputs>>

(* CancelledError in the task that advances the stream.                     *)
Cancelled(s) ==
    \/ /\ gen[s] = "body"
       /\ gen' = [gen EXCEPT ![s] = "tidy"]
       /\ UNCHANGED <<lock, target, excess>>
    \/ /\ gen[s] = "tidy"
       /\ gen' = [gen EXCEPT ![s] = "leave"]
       /\ UNCHANGED <<lock, target, excess>>
    \/ /\ Pruning(s) /\ Left(Run(s)) /\ excess' = TRUE
       /\ UNCHANGED gen

HostCancel(s) ==
    /\ Input
    /\ closer[s] # "gen" /\ (s = Parent => cont = "none")
    /\ Cancelled(s)
    /\ UNCHANGED <<closing, pruning, creating, life, order, procs, stopping, closer, notes, worker,
                   cont, reserved>>

-----------------------------------------------------------------------------
(* Releasing a session: aclose() leaves it quiescing and starts its task.   *)
Quiesce(S) ==
    /\ life' = [s \in Sessions |-> IF s \in S THEN "quiescing" ELSE life[s]]

Begun(s) == IF closer[s] = "none" THEN "start" ELSE closer[s]

HostClose(s, force) ==
    /\ Input
    /\ life[s] # "closed" /\ closer[s] = "none" /\ (force \/ ~Active(s))
    /\ Quiesce({s}) /\ closer' = [closer EXCEPT ![s] = "start"]
    /\ UNCHANGED <<closing, pruning, locking, order, runs, notes, worker, cont, history>>

(* abort() and _drain_owned_work cancel what the session owns.              *)
CancelsWork(s) == cancel' = (cancel \/ (s = Parent /\ Alive))
Drains(s)      == IF closer'[s] = "drain" THEN CancelsWork(s) ELSE UNCHANGED cancel

(* An admitted stream that never started has no finally clause to run.      *)
Closing(s) ==
    /\ closer[s] = "start"
    /\ LET runs_ == gen[s] \notin {"none", "admitted"} IN
         /\ closer' = [closer EXCEPT ![s] = IF runs_ THEN "procs" ELSE "drain"]
         /\ gen' = [gen EXCEPT ![s] = IF runs_ THEN @ ELSE "none"]
         /\ stopping' = (stopping \/ (s = Parent /\ runs_))
    /\ CancelsWork(s)
    /\ UNCHANGED <<closing, pruning, locking, life, order, procs, notes, task, outcome, status,
                   cont, history, inputs>>

(* ProcessRegistry.close, one task for all who await it.                    *)
Cleaning(s) == procs[s] = "dirty" /\ (gen[s] \in {"tidy", "leave"} \/ closer[s] = "procs")

Cleaned(s) ==
    /\ Cleaning(s)
    /\ procs' = [procs EXCEPT ![s] = "clean"]
    /\ UNCHANGED <<closing, pruning, locking, life, order, gen, stopping, closer, notes, worker,
                   cont, history, inputs>>

(* _finalize_active_run, once the processes are gone: a stream that runs    *)
(* elsewhere is awaited, one that is suspended is closed here.              *)
Finalize(s) ==
    /\ closer[s] = "procs" /\ procs[s] = "clean"
    /\ closer' = [closer EXCEPT ![s] = CASE gen[s] \in {"body", "tidy", "leave"} -> "await"
                                         [] gen[s] = "parked" -> "gen"
                                         [] OTHER -> "drain"]
    /\ gen' = [gen EXCEPT ![s] = CASE @ = "parked" -> "tidy" [] @ = "stuck" -> "none" [] OTHER -> @]
    /\ Drains(s)
    /\ UNCHANGED <<closing, pruning, locking, life, order, procs, stopping, notes, task, outcome,
                   status, cont, history, inputs>>

(* Fault: a stream that runs elsewhere is not awaited.                      *)
UnwoundAlways(s) == TRUE

(* The stream set `unwound`, before it asks for the lock.                   *)
Unwound(s) == gen[s] \in {"none", "stuck"}

Awaited(s) ==
    /\ closer[s] = "await" /\ Unwound(s)
    /\ IF procs[s] = "clean"
       THEN /\ closer' = [closer EXCEPT ![s] = "drain"] /\ gen' = [gen EXCEPT ![s] = "none"]
       ELSE /\ closer' = [closer EXCEPT ![s] = "procs"] /\ UNCHANGED gen
    /\ Drains(s)
    /\ UNCHANGED <<closing, pruning, locking, life, order, procs, stopping, notes, task, outcome,
                   status, cont, history, inputs>>

(* The closed stream ran its finally clause in this task, prune included.   *)
StreamClosed(s) ==
    /\ closer[s] = "gen" /\ gen[s] = "none" /\ ~Pruning(s)
    /\ closer' = [closer EXCEPT ![s] = "drain"]
    /\ CancelsWork(s)
    /\ UNCHANGED <<closing, pruning, locking, life, order, runs, notes, task, outcome, status,
                   cont, history, inputs>>

(* The owned tasks have ended; a retained child is released with force.     *)
ReleaseChild ==
    /\ closer[Parent] = "drain" /\ ~Alive /\ life[Child] # "closed"
    /\ closer' = [closer EXCEPT ![Parent] = "child", ![Child] = Begun(Child)]
    /\ Quiesce({Child})
    /\ UNCHANGED <<closing, pruning, locking, order, runs, notes, worker, cont, history, inputs>>

Drained(s) == closer[s] \in {"drain", "child"} /\ (s = Parent => ~Alive /\ life[Child] = "closed")

Closed(s) ==
    /\ Drained(s)
    /\ life' = [life EXCEPT ![s] = "closed"] /\ closer' = [closer EXCEPT ![s] = "none"]
    /\ order' = Without(order, s)
    /\ reserved' = reserved \ {s} /\ excess' = (excess \/ s = Child)
    /\ IF s = Parent
       THEN /\ task' = "none" /\ outcome' = "none" /\ cancel' = FALSE /\ status' = "none"
            /\ notes' = FALSE /\ stopping' = FALSE
            /\ watched' = FALSE
       ELSE UNCHANGED <<worker, notes, stopping, watched>>
    /\ UNCHANGED <<closing, pruner, locking, gen, procs, cont, inputs>>

(* A close task that raises leaves the session quiescing, to be retried; it *)
(* raises in whoever awaits it, the parent's close task included.           *)
Fails(s) ==
    LET failed == {s} \cup (IF s = Child /\ closer[Parent] = "child" THEN {Parent} ELSE {}) IN
    /\ closer' = [t \in Sessions |-> IF t \in failed THEN "none" ELSE closer[t]]
    /\ target' = IF target \in failed THEN Raised ELSE target

(* Processes that cannot be cleaned keep the run active: the admission      *)
(* token is released by the close that succeeds.                            *)
CleaningFails(s) ==
    /\ Cleaning(s) /\ Input
    /\ gen' = [gen EXCEPT ![s] = IF @ \in {"tidy", "leave"} THEN "stuck" ELSE @]
    /\ IF closer[s] \in {"procs", "gen"} THEN Fails(s) ELSE UNCHANGED <<closer, target>>
    /\ UNCHANGED <<closing, pruning, lock, creating, life, order, procs, stopping, notes, worker,
                   cont, history>>

(* The last step, releasing the configuration the session is bound to.      *)
ReleaseFails(s) ==
    /\ Drained(s) /\ Input
    /\ Fails(s)
    /\ UNCHANGED <<closing, pruning, lock, creating, life, order, runs, notes, worker, cont, history>>

-----------------------------------------------------------------------------
(* Eviction: _idle_session_tree and _prune_idle_sessions.                   *)
IdleAlone(s) == ~Active(s) /\ life[s] = "open" /\ (s = Parent => ~notes)

Tree(s) == {s} \cup (IF s = Parent /\ life[Child] # "closed" THEN {Child} ELSE {})

(* Fault: unfinished workers do not protect the tree.                       *)
IdleTreeAlone(s) == \A t \in Tree(s) : IdleAlone(t)

IdleTree(s) == (\A t \in Tree(s) : IdleAlone(t)) /\ (s = Parent => ~Alive)

Candidates == {s \in ToSet(order) : IdleTree(s)}

(* Fault: nobody is told when the task that made a session busy ends.       *)
WatchesNothing == FALSE

(* A scan watches the unfinished task of a session that is idle otherwise.  *)
Watches == IdleAlone(Parent) /\ Contains(order, Parent) /\ Alive

HoldsToPrune == lock # <<>> /\ Head(lock) \in {Run(s) : s \in Sessions} \cup {Pruner}

Evict ==
    /\ HoldsToPrune /\ target = NoSession /\ agent = "open"
    /\ Cardinality(Candidates) > bound
    /\ \E i \in DOMAIN order : LET s == order[i] IN
         /\ s \in Candidates /\ \A j \in 1..(i - 1) : order[j] \notin Candidates
         /\ Quiesce(Tree(s))
         /\ reserved' = reserved \cup Tree(s)
         /\ target' = s
         /\ closer' = [closer EXCEPT ![s] = Begun(s)]
    /\ watched' = (watched \/ Watches)
    /\ UNCHANGED <<closing, pruner, lock, creating, order, runs, notes, worker, cont, excess, inputs>>

Evicted ==
    /\ HoldsToPrune /\ target \in Sessions /\ life[target] = "closed"
    /\ target' = NoSession
    /\ UNCHANGED <<closing, pruning, lock, creating, life, order, runs, closer, notes, worker, cont,
                   history, inputs>>

PruneEnds ==
    /\ HoldsToPrune
    /\ \/ /\ target = NoSession /\ (agent # "open" \/ Cardinality(Candidates) <= bound)
          /\ excess' = FALSE
          /\ watched' = (watched \/ (agent = "open" /\ Watches))
          /\ UNCHANGED closer
       \/ /\ target = Raised /\ excess' = TRUE
          /\ closer' = [s \in Sessions |-> IF Holds(Run(s)) /\ closer[s] = "gen" THEN "none"
                                          ELSE closer[s]]
          /\ UNCHANGED watched
    /\ target' = NoSession /\ lock' = Tail(lock)
    /\ pruner' = IF Holds(Pruner) THEN "none" ELSE pruner
    /\ UNCHANGED <<closing, creating, life, order, runs, notes, worker, cont, reserved, inputs>>

PrunerStarts ==
    /\ pruner = "created"
    /\ IF agent = "open" THEN pruner' = "started" /\ lock' = Append(lock, Pruner)
       ELSE pruner' = "none" /\ UNCHANGED lock
    /\ UNCHANGED <<closing, watched, target, creating, life, order, runs, closer, notes, worker,
                   cont, history, inputs>>

-----------------------------------------------------------------------------
(* The background worker: _bg_run around run_subagent.                      *)
WorkerDone ==
    /\ task' = "done" /\ cancel' = FALSE /\ watched' = FALSE
    /\ pruner' = IF watched /\ agent = "open" /\ pruner = "none" THEN "created" ELSE pruner

(* A retained background worker; its task has not run yet.                  *)
Spawn ==
    /\ Input
    /\ gen[Parent] = "body" /\ ~Aborting(Parent)
    /\ task = "none"
    /\ task' = "start" /\ status' = "running" /\ outcome' = "none" /\ cancel' = FALSE
    /\ UNCHANGED <<closing, pruning, locking, life, order, runs, closer, notes, cont, history>>

(* Before its first step, or while its session is created, it just ends.    *)
EndsEarly ==
    /\ cancel /\ task \in {"start", "create"}
    /\ WorkerDone /\ status' = "killed"
    /\ UNCHANGED <<closing, locking, life, order, runs, closer, notes, outcome, cont, history, inputs>>

Starts ==
    /\ task = "start" /\ ~cancel
    /\ task' = "create"
    /\ UNCHANGED <<closing, pruning, locking, life, order, runs, closer, notes, outcome, cancel, status,
                   cont, history, inputs>>

(* The child is registered without the lock, idle until its run begins.     *)
Registers ==
    /\ task = "create" /\ ~cancel
    /\ task' = "setup"
    /\ life' = [life EXCEPT ![Child] = "open"] /\ order' = Append(order, Child)
    /\ excess' = TRUE
    /\ UNCHANGED <<closing, pruning, locking, runs, closer, notes, outcome, cancel, status, cont,
                   reserved, inputs>>

(* Isolation and start hook are over: _drive_child, whose run may be refused. *)
Drives ==
    /\ task = "setup" /\ ~cancel
    /\ IF CanRun(Child)
       THEN /\ gen' = [gen EXCEPT ![Child] = "body"] /\ procs' = [procs EXCEPT ![Child] = "dirty"]
            /\ task' = "drive" /\ UNCHANGED outcome
       ELSE task' = "stop" /\ outcome' = "errored" /\ UNCHANGED <<gen, procs>>
    /\ UNCHANGED <<closing, pruning, locking, life, order, stopping, closer, notes, cancel, status, cont,
                   history, inputs>>

SetupCancelled ==
    /\ task = "setup" /\ cancel
    /\ task' = "stop" /\ outcome' = "cancelled" /\ cancel' = FALSE
    /\ UNCHANGED <<closing, pruning, locking, life, order, runs, closer, notes, status, cont, history,
                   inputs>>

DriveCancelled ==
    /\ task = "drive" /\ cancel /\ Cancelled(Child)
    /\ outcome' = "cancelled" /\ cancel' = FALSE
    /\ UNCHANGED <<closing, pruning, creating, life, order, procs, stopping, closer, notes, task, status,
                   cont, reserved, inputs>>

(* The child's events, if it had any, are left with the parent.             *)
Driven ==
    /\ task = "drive" /\ Over(Child)
    /\ task' = "stop"
    /\ outcome' \in IF outcome = "none" THEN {"ok", "errored"} ELSE {outcome}
    /\ notes' \in {notes, TRUE}
    /\ UNCHANGED <<closing, pruning, locking, life, order, runs, closer, cancel, status, cont, history,
                   inputs>>

(* After the stop hook.  A cancellation that comes during it replaces a     *)
(* good result and is dropped after a bad one.                              *)
StopHookEnds ==
    /\ task = "stop"
    /\ IF outcome = "cancelled" \/ (cancel /\ outcome = "ok")
       THEN WorkerDone /\ status' = "killed"
       ELSE task' = "report" /\ cancel' = FALSE /\ status' = "ended" /\ UNCHANGED pruning
    /\ UNCHANGED <<closing, locking, life, order, runs, closer, notes, outcome, cont, history, inputs>>

Reports ==
    /\ task = "report" /\ WorkerDone
    /\ notes' = (notes \/ (~cancel /\ life[Parent] # "closed"))
    /\ UNCHANGED <<closing, locking, life, order, runs, closer, outcome, status, cont, history, inputs>>

(* continue_subagent, a tool of the parent's run: refused unless the handle *)
(* is not running and the child is live and inactive.                       *)
Continue ==
    /\ Input
    /\ gen[Parent] = "body" /\ ~Aborting(Parent) /\ cont = "none" /\ task # "none"
    /\ status # "running" /\ life[Child] # "closed" /\ ~Active(Child)
    /\ status' = "running" /\ cont' = "setup"
    /\ UNCHANGED <<closing, pruning, locking, life, order, runs, closer, notes, task, outcome, cancel,
                   history>>

(* A run that is aborted cancels the call; nothing is driven then.          *)
ContinueDrives ==
    /\ cont = "setup" /\ task # "drive"
    /\ \/ /\ CanRun(Child)
          /\ gen' = [gen EXCEPT ![Child] = "body"] /\ procs' = [procs EXCEPT ![Child] = "dirty"]
          /\ cont' = "drive"
       \/ /\ ~CanRun(Child) \/ Aborting(Parent)
          /\ cont' = "stop" /\ UNCHANGED <<gen, procs>>
    /\ UNCHANGED <<closing, pruning, locking, life, order, stopping, closer, notes, worker, history, inputs>>

ContinueDriven ==
    /\ cont = "drive" /\ Over(Child)
    /\ cont' = "stop" /\ notes' \in {notes, TRUE}
    /\ UNCHANGED <<closing, pruning, locking, life, order, runs, closer, worker, history,
                   inputs>>

ContinueEnds ==
    /\ cont = "stop"
    /\ cont' = "none" /\ status' = IF status = "running" THEN "ended" ELSE status
    /\ UNCHANGED <<closing, pruning, locking, life, order, runs, closer, notes, task, outcome, cancel, history,
                   inputs>>

(* TaskStop acts on a running worker only, whoever drives its child.        *)
TaskStop ==
    /\ gen[Parent] = "body" /\ ~Aborting(Parent) /\ status = "running"
    /\ status' = "killed"
    /\ cancel' = (cancel \/ Alive)
    /\ UNCHANGED <<closing, pruning, locking, life, order, runs, closer, notes, task, outcome, cont,
                   history, inputs>>

-----------------------------------------------------------------------------
(* Agent.close and _close_impl; later calls retry what is left.             *)
HostCloseAgent ==
    /\ agent # "closed" /\ stage = "none"
    /\ agent' = "quiescing" /\ stage' = "pruner"
    /\ UNCHANGED <<todo, drained, released, bound, pruning, locking, life, order, runs, closer, notes,
                   worker, cont, history, inputs>>

PrunerAwaited ==
    /\ stage = "pruner" /\ pruner = "none"
    /\ IF drained THEN stage' = "resources" /\ UNCHANGED lock
       ELSE stage' = "sessions" /\ lock' = Append(lock, Closer)
    /\ UNCHANGED <<agent, todo, drained, released, bound, pruning, target, creating, life, order, runs,
                   closer, notes, worker, cont, history, inputs>>

(* With the lock: a snapshot of the registry, one session after the other.  *)
Snapshot ==
    /\ stage = "sessions" /\ Holds(Closer)
    /\ todo' = order /\ stage' = "each"
    /\ UNCHANGED <<agent, drained, released, bound, pruning, locking, life, order, runs, closer, notes,
                   worker, cont, history, inputs>>

CloseNext ==
    /\ stage = "each" /\ todo # <<>> /\ target # Raised
    /\ LET s == Head(todo) IN
         IF life[s] = "closed"
         THEN /\ todo' = Tail(todo) /\ target' = NoSession
              /\ UNCHANGED <<life, closer>>
         ELSE /\ target = NoSession /\ target' = s
              /\ Quiesce({s}) /\ closer' = [closer EXCEPT ![s] = Begun(s)]
              /\ UNCHANGED todo
    /\ UNCHANGED <<agent, stage, drained, released, bound, pruning, lock, creating, order, runs, notes,
                   worker, cont, history, inputs>>

AllClosed ==
    /\ stage = "each" /\ todo = <<>> /\ target = NoSession
    /\ order' = <<>> /\ drained' = TRUE /\ stage' = "resources" /\ lock' = Tail(lock)
    /\ UNCHANGED <<agent, todo, released, bound, pruning, target, creating, life, runs, closer, notes,
                   worker, cont, history, inputs>>

CloseRaises ==
    /\ stage = "each" /\ target = Raised
    /\ stage' = "none" /\ todo' = <<>> /\ lock' = Tail(lock) /\ target' = NoSession
    /\ UNCHANGED <<agent, drained, released, bound, pruning, creating, life, order, runs, closer, notes,
                   worker, cont, history, inputs>>

ReleaseResource ==
    /\ stage = "resources"
    /\ released' = released + 1
    /\ IF released' = Resources THEN agent' = "closed" /\ stage' = "none" ELSE UNCHANGED <<agent, stage>>
    /\ UNCHANGED <<todo, drained, bound, pruning, locking, life, order, runs, closer, notes, worker, cont,
                   history, inputs>>

ResourceFails ==
    /\ stage = "resources" /\ Input
    /\ stage' = "none"
    /\ UNCHANGED <<agent, todo, drained, released, bound, pruning, locking, life, order, runs, closer, notes,
                   worker, cont, history>>

-----------------------------------------------------------------------------
RunStep(s)   == EndRun(s) \/ Finish(s) \/ FinishCancelled(s) \/ Cleaned(s)
CloserStep(s) ==
    Closing(s) \/ Finalize(s) \/ Awaited(s) \/ StreamClosed(s) \/ Closed(s)
    \/ (s = Parent /\ ReleaseChild)
OpenStep(s)  == Reattach(s) \/ Create(s) \/ Publish(s)
PruneStep    == Evict \/ Evicted \/ PruneEnds
WorkerStep   == EndsEarly \/ Starts \/ Registers \/ Drives \/ SetupCancelled \/ DriveCancelled
                \/ Driven \/ StopHookEnds \/ Reports
ContinueStep == ContinueDrives \/ ContinueDriven \/ ContinueEnds
CloseStep    == PrunerAwaited \/ Snapshot \/ CloseNext \/ AllClosed \/ CloseRaises \/ ReleaseResource
Retry        == agent = "quiescing" /\ HostCloseAgent

HostStep(s) ==
    \/ HostOpen(s) \/ HostRun(s) \/ Start(s) \/ Yield(s) \/ Advance(s) \/ CloseStream(s)
    \/ HostCancel(s)

Next ==
    \/ \E s \in Roots : HostStep(s) \/ OpenStep(s)
    \/ \E s \in Sessions :
         \/ RunStep(s) \/ CloserStep(s) \/ CleaningFails(s) \/ ReleaseFails(s)
         \/ \E force \in BOOLEAN : HostClose(s, force)
    \/ DrainNotes \/ Abort \/ Spawn \/ Continue \/ TaskStop
    \/ PruneStep \/ PrunerStarts \/ WorkerStep \/ ContinueStep
    \/ HostCloseAgent \/ CloseStep \/ ResourceFails

(* The event loop runs what is ready, runs end, hooks and closers return,   *)
(* and a host whose close() failed calls it again.                          *)
Fairness ==
    /\ WF_vars(\E s \in Sessions : RunStep(s)) /\ WF_vars(\E s \in Sessions : CloserStep(s))
    /\ WF_vars(\E s \in Roots : OpenStep(s))
    /\ WF_vars(PruneStep) /\ WF_vars(PrunerStarts) /\ WF_vars(WorkerStep) /\ WF_vars(ContinueStep)
    /\ WF_vars(CloseStep) /\ WF_vars(Retry)

Spec == Init /\ [][Next]_vars /\ Fairness

(* A close that found a stream running elsewhere awaits its end without a   *)
(* timeout, so whoever was reading it must go on, or close it.  The run is  *)
(* aborted: it may yield again, but not forever.                            *)
Reading ==
    /\ WF_vars(\E s \in Roots : closer[s] = "await" /\ (Advance(s) \/ CloseStream(s)))
    /\ SF_vars(\E s \in Roots : closer[s] = "await" /\ EndRun(s))

ReadingSpec == Spec /\ Reading

-----------------------------------------------------------------------------
TypeOK ==
    /\ agent \in {"open", "quiescing", "closed"}
    /\ stage \in {"none", "pruner", "sessions", "each", "resources"}
    /\ todo \in Seq(Sessions) /\ order \in Seq(Sessions) /\ drained \in BOOLEAN
    /\ released \in 0..Resources /\ bound \in Bounds
    /\ lock \in Seq({Run(s) : s \in Sessions} \cup {Open(s) : s \in Roots} \cup {Pruner, Closer})
    /\ target \in Sessions \cup {NoSession, Raised} /\ creating \in BOOLEAN
    /\ pruner \in {"none", "created", "started"} /\ watched \in BOOLEAN
    /\ life \in [Sessions -> {"open", "quiescing", "closed"}]
    /\ gen \in [Sessions -> {"none", "admitted", "body", "parked", "tidy", "leave", "stuck"}]
    /\ procs \in [Sessions -> {"clean", "dirty"}]
    /\ closer \in [Sessions -> {"none", "start", "procs", "await", "gen", "drain", "child"}]
    /\ stopping \in BOOLEAN /\ notes \in BOOLEAN /\ cancel \in BOOLEAN
    /\ task \in {"none", "start", "create", "setup", "drive", "stop", "report", "done"}
    /\ outcome \in {"none", "ok", "errored", "cancelled"}
    /\ status \in {"none", "running", "killed", "ended"}
    /\ cont \in {"none", "setup", "drive", "stop"}
    /\ reserved \subseteq Sessions /\ excess \in BOOLEAN /\ inputs \in 0..MaxInputs

(* Shared stores, backends and the provider are closed only when no run can *)
(* use them any more and every worker and close task has ended ("so a       *)
(* finalizer never touches an already-closed store/provider/filesystem").   *)
ClosedLast ==
    released > 0 => /\ \A s \in Sessions : ~Active(s) /\ closer[s] = "none" /\ life[s] = "closed"
                    /\ ~Alive /\ cont = "none" /\ ~creating

(* From its choice to its end an eviction cuts off nothing: no run of any   *)
(* session of the tree, no worker of it.                                    *)
EvictsIdleOnly ==
    \A s \in reserved : ~Active(s) /\ (s = Parent => ~Alive /\ cont = "none")

(* When nothing is under way, at most `bound` idle sessions are cached,     *)
(* unless one was opened or a prune was cut off since the last full scan.   *)
Quiet ==
    /\ agent = "open" /\ lock = <<>> /\ pruner = "none" /\ ~Alive
    /\ \A s \in Sessions : gen[s] \in {"none", "admitted", "parked"} /\ closer[s] = "none"

BoundKept == Quiet => excess \/ Cardinality(Candidates) <= bound

(* A close that was called ends, whatever runs, prunes, releases and        *)
(* openings were under way (_close_impl), under ReadingSpec: Spec alone     *)
(* does not give it, since a stream nobody reads any more is awaited        *)
(* forever (_finalize_active_run).                                          *)
CloseEnds == agent = "quiescing" ~> agent = "closed"
=============================================================================
