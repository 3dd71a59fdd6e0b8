------------------------------ MODULE RunStore ------------------------------
(***************************************************************************)
(* The durable run store of linch (src/src/linch/run_store.py for the      *)
(* in-memory backend, src/src/linch/run_stores/postgres.py for the SQL     *)
(* one): run rows, their append-only event logs, one run lease per row,    *)
(* and the per-session admission rule.                                     *)
(*                                                                         *)
(* Every operation is one action.  Both backends make each of them atomic: *)
(* the in-memory methods do not await between their check and their        *)
(* assignments, the SQL ones are a single conditional statement or one     *)
(* transaction that locks the row.  What is not atomic is everything a     *)
(* caller does between two operations, so a caller may present any token   *)
(* it was ever given, arbitrarily late.                                    *)
(*                                                                         *)
(* Payloads are abstracted to the epoch of the token they were written     *)
(* with (0 for a caller without a token).                                  *)
(***************************************************************************)
EXTENDS Integers, Sequences, FiniteSets

CONSTANTS
    Runs,        \* run identifiers
    Sessions,    \* session identifiers
    Owners,      \* worker identifiers that claim leases
    NoOwner,     \* lease_owner IS NULL
    NoRun,       \* there is no row for this identifier
    Ttl,         \* lease duration, in clock ticks
    MaxTime,     \* bound: the clock stops here
    MaxEpoch,    \* bound: no claim beyond this epoch
    MaxEvents    \* bound: events per run

ASSUME RunStoreAssumption ==
    /\ NoOwner \notin Owners
    /\ Ttl \in Nat \ {0}
    /\ MaxTime \in Nat
    /\ MaxEpoch \in Nat
    /\ MaxEvents \in Nat

ActiveStatus   == {"pending", "running", "waiting_permission", "suspended"}
TerminalStatus == {"completed", "failed", "aborted"}
Status         == ActiveStatus \cup TerminalStatus

Row == [session : Sessions, status : Status, checkpoint : Nat \cup {-1}]
NoCheckpoint == -1

(* An immutable RunLease: what a claimant is handed and later presents.     *)
Token == [run : Runs, owner : Owners, epoch : Nat, expires : Nat]

VARIABLES
    runs,       \* run -> its row, or NoRun
    log,        \* run -> sequence of event payloads; seq n is log[r][n]
    lease,      \* run -> stored lease columns
    now,        \* the store's clock
    tokens,     \* every RunLease ever handed out
    givenUp     \* history: the <<run, epoch>> pairs whose holder released

vars == <<runs, log, lease, now, tokens, givenUp>>

Exists(r)   == runs[r] # NoRun
IsActive(r) == Exists(r) /\ runs[r].status \in ActiveStatus

Live(r) == lease[r].owner # NoOwner /\ lease[r].expires > now

(* Fault: the fence compares the owner and forgets the epoch.              *)
CurrentByOwner(t) == lease[t.run].owner = t.owner

(* What every fenced write compares: owner and epoch, never the expiry.     *)
Current(t) == lease[t.run].owner = t.owner /\ lease[t.run].epoch = t.epoch

(* lease=None is an unfenced caller; a token must be for this run and       *)
(* current.                                                                 *)
Unleased == [epoch |-> 0]

(* Fault: the caller's own copy of the expiry is trusted.                  *)
CallersByExpiry(r) == {t \in tokens : t.run = r /\ t.expires > now} \cup {Unleased}

Callers(r) == {t \in tokens : t.run = r /\ Current(t)} \cup {Unleased}

(* The admission rule: a session owns at most one nonterminal run.          *)
Admit(s, r, status) ==
    status \in ActiveStatus =>
        \A q \in Runs \ {r} : IsActive(q) => runs[q].session # s

-----------------------------------------------------------------------------
Init ==
    /\ runs = [r \in Runs |-> NoRun]
    /\ log = [r \in Runs |-> <<>>]
    /\ lease = [r \in Runs |-> [owner |-> NoOwner, epoch |-> 0, expires |-> 0]]
    /\ now = 0
    /\ tokens = {}
    /\ givenUp = {}

(* create_run for an identifier nobody used: insert a running row.          *)
CreateRunning(r, s) ==
    /\ ~Exists(r)
    /\ Admit(s, r, "running")
    /\ runs' = [runs EXCEPT ![r] = [session |-> s, status |-> "running",
                                    checkpoint |-> 0]]
    /\ UNCHANGED <<log, lease, now, tokens, givenUp>>

(* create_pending_run: the row the dispatcher inserts with the queued job.  *)
CreatePending(r, s) ==
    /\ ~Exists(r)
    /\ Admit(s, r, "pending")
    /\ runs' = [runs EXCEPT ![r] = [session |-> s, status |-> "pending",
                                    checkpoint |-> NoCheckpoint]]
    /\ UNCHANGED <<log, lease, now, tokens, givenUp>>

(* create_run for an existing row: adopt it, if it still is pending, under  *)
(* the caller's token.                                                      *)
Adopt(r, s, c) ==
    /\ Exists(r)
    /\ runs[r].status = "pending"
    /\ runs[r].session = s
    /\ Admit(s, r, "running")
    /\ runs' = [runs EXCEPT ![r].status = "running", ![r].checkpoint = c.epoch]
    /\ UNCHANGED <<log, lease, now, tokens, givenUp>>

(* Fault: taking over an expired lease keeps its epoch.                    *)
ClaimEpochOnlyWhenFree(r, o) ==
    IF lease[r].owner # NoOwner THEN lease[r].epoch ELSE lease[r].epoch + 1

(* claim: refused while another owner's lease is live; the epoch is kept    *)
(* only when the same owner refreshes a live lease.                         *)
ClaimEpoch(r, o) ==
    IF Live(r) /\ lease[r].owner = o THEN lease[r].epoch ELSE lease[r].epoch + 1

(* Fault: a live lease of another worker is taken over.                    *)
ClaimStealing(r, o) ==
    /\ Exists(r)
    /\ ClaimEpoch(r, o) <= MaxEpoch
    /\ LET l == [owner |-> o, epoch |-> ClaimEpoch(r, o), expires |-> now + Ttl]
       IN /\ lease' = [lease EXCEPT ![r] = l]
          /\ tokens' = tokens \cup {[run |-> r, owner |-> l.owner,
                                     epoch |-> l.epoch, expires |-> l.expires]}
    /\ UNCHANGED <<runs, log, now, givenUp>>

Claim(r, o) ==
    /\ Exists(r)
    /\ Live(r) => lease[r].owner = o
    /\ ClaimEpoch(r, o) <= MaxEpoch
    /\ LET l == [owner |-> o, epoch |-> ClaimEpoch(r, o), expires |-> now + Ttl]
       IN /\ lease' = [lease EXCEPT ![r] = l]
          /\ tokens' = tokens \cup {[run |-> r, owner |-> l.owner,
                                     epoch |-> l.epoch, expires |-> l.expires]}
    /\ UNCHANGED <<runs, log, now, givenUp>>

(* renew: only a current token of an unexpired lease; same epoch.           *)
Renew(t) ==
    /\ Current(t)
    /\ lease[t.run].expires > now
    /\ lease' = [lease EXCEPT ![t.run].expires = now + Ttl]
    /\ tokens' = tokens \cup {[t EXCEPT !.expires = now + Ttl]}
    /\ UNCHANGED <<runs, log, now, givenUp>>

(* release: owner and epoch must match, expiry is not looked at; the epoch  *)
(* is advanced so that the released token is fenced at once.                *)
Release(t) ==
    /\ Current(t)
    /\ lease' = [lease EXCEPT ![t.run] =
                    [owner |-> NoOwner, epoch |-> t.epoch + 1, expires |-> 0]]
    /\ givenUp' = givenUp \cup {<<t.run, t.epoch>>}
    /\ UNCHANGED <<runs, log, now, tokens>>

(* n events, each stamped with the caller's epoch.                          *)
Stamped(c, n) == [i \in 1..n |-> c.epoch]
Appended(r, c, n) ==
    /\ Len(log[r]) + n <= MaxEvents
    /\ log' = [log EXCEPT ![r] = @ \o Stamped(c, n)]

(* Fault: a checkpoint write does not re-admit the row it reactivates.     *)
SaveCheckpointUnadmitted(r, c, status, n) ==
    /\ Exists(r)
    /\ Appended(r, c, n)
    /\ runs' = [runs EXCEPT ![r].checkpoint = c.epoch, ![r].status = status]
    /\ UNCHANGED <<lease, now, tokens, givenUp>>

(* save_checkpoint (n = 0) and save_checkpoint_with_events: checkpoint,     *)
(* status and events in one step, re-admitting a row that becomes active.   *)
SaveCheckpoint(r, c, status, n) ==
    /\ Exists(r)
    /\ Admit(runs[r].session, r, status)
    /\ Appended(r, c, n)
    /\ runs' = [runs EXCEPT ![r].checkpoint = c.epoch, ![r].status = status]
    /\ UNCHANGED <<lease, now, tokens, givenUp>>

(* append_events *)
AppendEvents(r, c, n) ==
    /\ Exists(r)
    /\ Appended(r, c, n)
    /\ UNCHANGED <<runs, lease, now, tokens, givenUp>>

MarkCompleted(r, c) == SaveCheckpoint(r, c, "completed", 0)

(* mark_failed: from any status, with or without a final checkpoint.        *)
MarkFailed(r, c, n) ==
    /\ Exists(r)
    /\ Appended(r, c, n)
    /\ \E cp \in {runs[r].checkpoint, c.epoch} :
          runs' = [runs EXCEPT ![r].checkpoint = cp, ![r].status = "failed"]
    /\ UNCHANGED <<lease, now, tokens, givenUp>>

Tick ==
    /\ now < MaxTime
    /\ now' = now + 1
    /\ UNCHANGED <<runs, log, lease, tokens, givenUp>>

-----------------------------------------------------------------------------
WriteSizes == 0..2

Write(r, c) ==
    \/ \E s \in Sessions : Adopt(r, s, c)
    \/ \E status \in Status \ {"pending"}, n \in WriteSizes :
          SaveCheckpoint(r, c, status, n)
    \/ \E n \in WriteSizes \ {0} : AppendEvents(r, c, n)
    \/ MarkCompleted(r, c)
    \/ \E n \in WriteSizes : MarkFailed(r, c, n)

Next ==
    \/ \E r \in Runs, s \in Sessions : CreateRunning(r, s) \/ CreatePending(r, s)
    \/ \E r \in Runs, o \in Owners : Claim(r, o)
    \/ \E t \in tokens : Renew(t) \/ Release(t)
    \/ \E r \in Runs : \E c \in Callers(r) : Write(r, c)
    \/ Tick

Spec == Init /\ [][Next]_vars
-----------------------------------------------------------------------------
(* Type correctness of the store's columns and of the tokens handed out.    *)
TypeOK ==
    /\ runs \in [Runs -> Row \cup {NoRun}]
    /\ log \in [Runs -> Seq(Nat)]
    /\ lease \in [Runs -> [owner : Owners \cup {NoOwner}, epoch : Nat, expires : Nat]]
    /\ now \in Nat
    /\ tokens \subseteq Token
    /\ givenUp \subseteq Runs \X Nat

(* A session never has two nonterminal runs, whichever way a run became     *)
(* nonterminal: inserted, queued, adopted, or written back to life by a     *)
(* late save_checkpoint (_admit, the runs_one_active_per_session_idx index).*)
OneActivePerSession ==
    \A q, r \in Runs :
        IsActive(q) /\ IsActive(r) /\ runs[q].session = runs[r].session => q = r

(* An epoch is a fencing number: two workers never hold tokens of the same  *)
(* run with the same epoch, across expiry, takeover, refresh and release    *)
(* (RunLease: "epochs are monotonically increasing per run").               *)
EpochNamesOneOwner ==
    \A t, u \in tokens : t.run = u.run /\ t.epoch = u.epoch => t.owner = u.owner

(* The leased part of a run's event log is a concatenation of tenures in    *)
(* epoch order: no event of a superseded holder lands after its successor's *)
(* first event, however late its call arrives, and none is stamped with an  *)
(* epoch that was never handed out.                                         *)
LogOrderedByTenure ==
    \A r \in Runs : \A j \in 1..Len(log[r]) :
        log[r][j] # 0 =>
            /\ \E t \in tokens : t.run = r /\ t.epoch = log[r][j]
            /\ \A i \in 1..j : log[r][i] <= log[r][j]

(* The promise to the holder: until the expiry written on a token it holds, *)
(* and unless that tenure was released, its writes are accepted; nobody can *)
(* take a live lease over.                                                  *)
UnexpiredTokenIsCurrent ==
    \A t \in tokens :
        t.expires > now /\ <<t.run, t.epoch>> \notin givenUp => Current(t)

(* Fenced is forever: a token that stopped being current never becomes      *)
(* current again, so a delayed write of an old tenure cannot slip in when   *)
(* the same owner returns.                                                  *)
FencedForever ==
    [][\A t \in tokens : ~Current(t) => ~Current(t)']_vars
=============================================================================
