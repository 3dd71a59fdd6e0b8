-------------------------- MODULE ModelCallLedger --------------------------
(***************************************************************************)
(* The accounting of provider deliveries: _ModelCallLedger                 *)
(* (src/src/linch/model_calls.py), one per run, the RunBudget              *)
(* (src/src/linch/budget.py) that the runs of one agent tree share, and    *)
(* the two callers that drive a delivery from its intent to its receipt    *)
(* (_accounted_primary_stream, _AuxiliaryDelivery.stream).                 *)
(*                                                                         *)
(* Everything between two awaits is one step.  A ledger's lock is held     *)
(* exactly while one of its records is being flushed; other runs charge    *)
(* the shared budget meanwhile.  Ledger records go to the run's event      *)
(* buffer (EventBuffer), here a sequence that a flush commits whole.       *)
(***************************************************************************)
EXTENDS Integers, Sequences, FiniteSets, FiniteSetsExt, SequencesExt, Functions

CONSTANTS
    Deliveries,  \* physical provider deliveries, each with a fresh id
    Runs,        \* the runs of one agent tree, sharing one budget
    RunOf,       \* the run that makes a delivery
    Auxiliary,   \* the deliveries of compactions; the others are primary
    Sourced,     \* those of a built-in strategy, which records its source
    Cap,         \* max_tokens of the budget; 0 for an uncapped one
    MaxUse,      \* bound: what one delivery uses
    MaxFaults    \* bound: crashes, flushes that fail, and runs that stop early

ASSUME LedgerAssumption ==
    /\ RunOf \in [Deliveries -> Runs] /\ Auxiliary \subseteq Deliveries
    /\ Sourced \subseteq Auxiliary
    /\ Cap \in Nat /\ MaxUse \in Nat \ {0}
    /\ MaxFaults \in Nat

VARIABLES
    ledger,   \* the live ledger of each run; Closed when it has none
    budget,   \* the shared RunBudget of this process
    pc,       \* where each delivery is
    buffer,   \* records of each run in its event buffer
    journal,  \* durable records of each run
    ckpt,     \* accounting envelope of each durable checkpoint
    unshown,  \* receipts consumed whose UsageEvent is still to be recorded
    spent,    \* history: what each invoked delivery really used, else 0
    crashes, faults

vars == <<ledger, budget, pc, buffer, journal, ckpt, unshown, spent, crashes, faults>>

Calls(r) == {d \in Deliveries : RunOf[d] = r}
Ended == {"new", "done"}
Quiet(r) == \A d \in Calls(r) : pc[d] \in Ended
Locked(r) == \E d \in Calls(r) : pc[d] \in {"source", "mark", "settle"}
Go(d, where) == pc' = [pc EXCEPT ![d] = where]

(* A charge or a receipt of a delivery that has none yet                    *)
Extended(f, d, use) == [e \in DOMAIN f \cup {d} |-> IF e \in DOMAIN f THEN f[e] ELSE use]

NoBudgetOwner == 0
Unknown == 0                        \* use of a receipt with usage unknown
FreshBudget == [owner |-> NoBudgetOwner, charged |-> <<>>, unknown |-> {}]
SpentTokens == FoldFunctionOnSet(+, 0, budget.charged, DOMAIN budget.charged)
ThisOwner == IF budget.owner = NoBudgetOwner THEN crashes + 1 ELSE budget.owner

Rec(kind, d, use) == [kind |-> kind, d |-> d, use |-> use, owner |-> ThisOwner]
Of(log, kind) == {d \in Deliveries : \E i \in DOMAIN log : log[i].kind = kind /\ log[i].d = d}
Owner(log) == IF log = <<>> THEN NoBudgetOwner ELSE Head(log).owner
Accounting(log) == {i \in DOMAIN log : log[i].kind # "usage"}
UseIn(log, d) == log[CHOOSE i \in DOMAIN log : log[i].kind = "receipt" /\ log[i].d = d].use

-----------------------------------------------------------------------------
(* Recovery: what restore makes of a journal, and what it refuses.          *)

Closed == [health |-> "closed"]

(* Fault: usage that was shown is not read back.                            *)
ShownAnew(log) == {}

(* _consumed_auxiliary_receipt_ids_from_events                              *)
Shown(log) == Of(log, "usage")

(* restore after _LedgerRecovery.apply of every record: intents, started,   *)
(* abandoned, receipts and sources, the usage already shown, and an unknown *)
(* flag for receipts without usage and for dispatches without a receipt     *)
Recover(log) ==
    LET paid == Of(log, "receipt")
        uses == [d \in paid |-> UseIn(log, d)]
        started == (Of(log, "started") \ Of(log, "abandoned")) \ paid
    IN [health    |-> "ok",
        intents   |-> Of(log, "intent"),
        started   |-> started,
        abandoned |-> Of(log, "abandoned"),
        receipts  |-> uses,
        sources   |-> Of(log, "source"),
        consumed  |-> Shown(log),
        unknown   |-> started # {} \/ \E d \in paid : uses[d] = Unknown,
        total     |-> FoldFunctionOnSet(+, 0, uses, paid),
        count     |-> Cardinality(Accounting(log))]

(* Fault: a dispatch without a receipt is taken for one that never happened.  *)
UnresolvedReceipts(log) ==
    {d \in DOMAIN Recover(log).receipts : Recover(log).receipts[d] = Unknown}

Unresolved(log) == LET L == Recover(log)
                   IN L.started \cup {d \in DOMAIN L.receipts : L.receipts[d] = Unknown}

(* _LedgerRecovery.apply raises on none of the records, and the usage       *)
(* events name receipts of compactions, each once                           *)
Acceptable(log) ==
    LET Before(i, kind) == \E j \in 1..(i-1) : log[j].kind = kind /\ log[j].d = log[i].d
    IN \A i \in DOMAIN log :
        /\ \A j \in DOMAIN log : log[j].owner = log[i].owner
        /\ CASE log[i].kind = "intent"    -> TRUE
             [] log[i].kind = "started"   -> Before(i, "intent") /\ ~ Before(i, "abandoned")
             [] log[i].kind = "receipt"   -> Before(i, "started") /\ ~ Before(i, "abandoned")
                                             /\ ~ Before(i, "receipt")
             [] log[i].kind = "abandoned" -> Before(i, "intent") /\ ~ Before(i, "receipt")
             [] log[i].kind = "source"    -> /\ Before(i, "intent")
                                             /\ \A k \in {"started", "receipt", "abandoned"} : ~ Before(i, k)
             [] log[i].kind = "usage"     -> Before(i, "receipt") /\ ~ Before(i, "usage")
                                             /\ log[i].d \in Auxiliary

(* the checks of the resume against its checkpoint                          *)
Covered(r) ==
    /\ ckpt[r].count <= Cardinality(Accounting(journal[r]))
    /\ ckpt[r].total <= Recover(journal[r]).total

(* _restore_receipts and _restore_unresolved_deliveries: a budget that is   *)
(* not fresh must be the journal's owner and know every charge and fence    *)
BudgetAccepts(log) ==
    \/ budget = FreshBudget
    \/ /\ budget.owner = Owner(log)
       /\ \A d \in Of(log, "receipt") :
            UseIn(log, d) # Unknown => d \in DOMAIN budget.charged /\ budget.charged[d] = UseIn(log, d)
       /\ Unresolved(log) \subseteq budget.unknown

Adopt(log) ==
    IF budget # FreshBudget THEN budget
    ELSE LET uses == Recover(log).receipts
         IN [owner   |-> Owner(log),
             charged |-> Restrict(uses, {d \in DOMAIN uses : uses[d] # Unknown}),
             unknown |-> Unresolved(log)]

(* RunRuntime.create: a run that starts, or one that resumes from its       *)
(* journal, in a new process or in the one that closed it                   *)
Open(r) ==
    /\ ledger[r] = Closed
    /\ journal[r] # <<>> => Acceptable(journal[r]) /\ Covered(r) /\ BudgetAccepts(journal[r])
    /\ ledger' = [ledger EXCEPT ![r] = Recover(journal[r])]
    /\ budget' = IF journal[r] = <<>> THEN budget ELSE Adopt(journal[r])
    /\ UNCHANGED <<pc, buffer, journal, ckpt, unshown, spent, crashes, faults>>

-----------------------------------------------------------------------------
(* One delivery, from its intent to its receipt.                            *)

(* assert_may_start                                                         *)
MayStart(r) ==
    /\ ledger[r].health # "failed"
    /\ Cap > 0 => /\ ~ ledger[r].unknown /\ budget.unknown = {}
                  /\ SpentTokens < Cap

Record(r, rec) == buffer' = [buffer EXCEPT ![r] = Append(@, rec)]

(* begin: the intent rides the next flush.  A primary call starts alone,    *)
(* after drain_auxiliary_usage; a strategy may make its calls side by side  *)
Begin(d) ==
    LET r == RunOf[d]
        L == ledger[r]
    IN /\ pc[d] = "new"
       /\ L.health = "ok" /\ ~ Locked(r)
       /\ unshown[r] = {}
       /\ \A e \in Calls(r) \ Auxiliary : pc[e] \in Ended
       /\ d \notin Auxiliary => Quiet(r) /\ DOMAIN L.receipts \cap Auxiliary \subseteq L.consumed
       /\ budget' = [budget EXCEPT !.owner = ThisOwner]
       /\ Record(r, Rec("intent", d, Unknown))
       /\ ledger' = [ledger EXCEPT ![r].intents = @ \cup {d}, ![r].count = @ + 1]
       /\ Go(d, "wait")
       /\ UNCHANGED <<journal, ckpt, unshown, spent, crashes, faults>>

(* record_projection of a compaction source: its flush is awaited           *)
RecordSource(d) ==
    LET r == RunOf[d]
    IN /\ pc[d] = "wait" /\ d \in Sourced
       /\ ledger[r].health = "ok" /\ ~ Locked(r)
       /\ d \notin ledger[r].sources
       /\ Record(r, Rec("source", d, Unknown))
       /\ Go(d, "source")
       /\ UNCHANGED <<ledger, budget, journal, ckpt, unshown, spent, crashes, faults>>

(* The slot was granted: assert_may_start, then mark_dispatch_started       *)
Mark(d) ==
    LET r == RunOf[d]
    IN /\ pc[d] = "wait"
       /\ ledger[r].health = "ok" /\ ~ Locked(r)
       /\ d \in Sourced => d \in ledger[r].sources
       /\ MayStart(r)
       /\ Record(r, Rec("started", d, Unknown))
       /\ Go(d, "mark")
       /\ UNCHANGED <<ledger, budget, journal, ckpt, unshown, spent, crashes, faults>>

(* The delivery ends before its dispatch: refused, cancelled while it       *)
(* waits, or stopped by the checks after its marker                         *)
Abandon(d) ==
    LET r == RunOf[d]
        writes == ledger[r].health = "ok"
    IN /\ pc[d] \in {"wait", "stop"} /\ ~ Locked(r)
       /\ Go(d, "done")
       /\ IF writes
          THEN /\ Record(r, Rec("abandoned", d, Unknown))
               /\ ledger' = [ledger EXCEPT ![r].abandoned = @ \cup {d}, ![r].started = @ \ {d},
                                           ![r].count = @ + 1]
          ELSE UNCHANGED <<buffer, ledger>>
       /\ UNCHANGED <<budget, journal, ckpt, unshown, spent, crashes, faults>>

(* Fault: a delivery that ends without usage leaves the shared budget alone.  *)
ChargeKnown(d, use) ==
    IF use = Unknown THEN budget ELSE [budget EXCEPT !.charged = Extended(@, d, use)]

(* _charge_receipt, _register_unresolved_delivery                           *)
Charge(d, use) ==
    IF use = Unknown THEN [budget EXCEPT !.unknown = @ \cup {d}]
    ELSE [budget EXCEPT !.charged = Extended(@, d, use)]

(* The provider's stream ended: with usage, or failed or cancelled without. *)
(* settle charges the budget first and then waits for the receipt's flush   *)
End(d, use) ==
    LET r == RunOf[d]
        L == ledger[r]
    IN /\ pc[d] = "run" /\ ~ Locked(r)
       /\ use \in {spent[d], Unknown}
       /\ IF L.health = "failed"
          THEN UNCHANGED <<budget, ledger>>
          ELSE /\ budget' = Charge(d, use)
               /\ ledger' = [ledger EXCEPT ![r].total = @ + use,
                                           ![r].unknown = @ \/ use = Unknown]
       /\ IF L.health = "ok"
          THEN Record(r, Rec("receipt", d, use)) /\ Go(d, "settle")
          ELSE UNCHANGED buffer /\ Go(d, "done")
       /\ UNCHANGED <<journal, ckpt, unshown, spent, crashes, faults>>

(* Fault: no check between the marker and the invocation.                   *)
NoRecheck(r) == TRUE

(* assert_may_start once more, with no await before the invocation          *)
Recheck(r) == MayStart(r)

(* What a record that is durable does to the ledger.  After the dispatch    *)
(* marker the caller invokes the provider, or stops at the checks before it *)
Land(d, use) ==
    LET r == RunOf[d]
        L == [ledger[r] EXCEPT !.count = @ + 1]
    IN CASE pc[d] = "source" ->
              /\ ledger' = [ledger EXCEPT ![r] = [L EXCEPT !.sources = @ \cup {d}]]
              /\ Go(d, "wait") /\ UNCHANGED spent
         [] pc[d] = "mark" ->
              /\ ledger' = [ledger EXCEPT ![r] = [L EXCEPT !.started = @ \cup {d}]]
              /\ \/ Go(d, "stop") /\ UNCHANGED spent
                 \/ /\ Recheck(r)
                    /\ spent' = [spent EXCEPT ![d] = use]
                    /\ Go(d, "run")
         [] pc[d] = "settle" ->
              /\ ledger' = [ledger EXCEPT ![r] =
                    [L EXCEPT !.receipts = Extended(@, d, UseIn(buffer[r], d)), !.started = @ \ {d}]]
              /\ Go(d, "done") /\ UNCHANGED spent

Commit(r) ==
    /\ journal' = [journal EXCEPT ![r] = @ \o buffer[r]]
    /\ buffer' = [buffer EXCEPT ![r] = <<>>]

(* persist_model_call: the flush that follows a source, a marker or a       *)
(* receipt returned                                                         *)
Flushed(d, use) ==
    /\ pc[d] \in {"source", "mark", "settle"}
    /\ Land(d, use)
    /\ Commit(RunOf[d])
    /\ UNCHANGED <<budget, ckpt, unshown, crashes, faults>>

(* The flush raised.  rejected: nothing applied, the records stay buffered; *)
(* cancelled or lost (a transient failure, a lost lease): applied or not,   *)
(* and the run writes nothing more.  Only a lost lease leaves the ledger's  *)
(* own flag alone.                                                          *)
FlushFails(d, how) ==
    LET r == RunOf[d]
    IN /\ pc[d] \in {"source", "mark", "settle"}
       /\ faults < MaxFaults /\ faults' = faults + 1
       /\ ledger' = [ledger EXCEPT ![r].health = IF how = "lost" THEN "lost" ELSE "failed"]
       /\ \/ how = "rejected" /\ UNCHANGED <<journal, buffer>>
          \/ how # "rejected" /\ Commit(r)
          \/ how # "rejected" /\ UNCHANGED journal /\ buffer' = [buffer EXCEPT ![r] = <<>>]
       /\ Go(d, "done")
       /\ UNCHANGED <<budget, ckpt, unshown, spent, crashes>>

-----------------------------------------------------------------------------
(* The run loop.                                                            *)

(* consume_auxiliary_receipts hands each settled compaction receipt to      *)
(* drain_auxiliary_usage once                                               *)
Consume(r) ==
    LET L == ledger[r]
        fresh == (DOMAIN L.receipts \cap Auxiliary) \ L.consumed
    IN /\ L.health = "ok" /\ Quiet(r) /\ fresh # {}
       /\ ledger' = [ledger EXCEPT ![r].consumed = @ \cup fresh]
       /\ unshown' = [unshown EXCEPT ![r] = @ \cup {d \in fresh : L.receipts[d] # Unknown}]
       /\ UNCHANGED <<budget, pc, buffer, journal, ckpt, spent, crashes, faults>>

ShowUsage(d) ==
    LET r == RunOf[d]
    IN /\ d \in unshown[r] /\ ledger[r].health = "ok"
       /\ Record(r, Rec("usage", d, Unknown))
       /\ unshown' = [unshown EXCEPT ![r] = @ \ {d}]
       /\ UNCHANGED <<ledger, budget, pc, journal, ckpt, spent, crashes, faults>>

SaveEnvelope(r) ==
    /\ Commit(r)
    /\ ckpt' = [ckpt EXCEPT ![r] = [count |-> ledger[r].count, total |-> ledger[r].total]]

(* a checkpoint saved between two provider calls                            *)
Save(r) ==
    /\ ledger[r].health = "ok" /\ Quiet(r) /\ buffer[r] # <<>>
    /\ SaveEnvelope(r)
    /\ UNCHANGED <<ledger, budget, pc, unshown, spent, crashes, faults>>

(* The run ends in this process, in the middle of a drain too: the terminal *)
(* write takes what is still buffered                                       *)
Close(r) ==
    /\ ledger[r] # Closed /\ Quiet(r)
    /\ IF ledger[r].health = "ok"
       THEN faults < MaxFaults /\ faults' = faults + 1
       ELSE UNCHANGED faults
    /\ IF buffer[r] # <<>> THEN SaveEnvelope(r) ELSE UNCHANGED <<buffer, journal, ckpt>>
    /\ ledger' = [ledger EXCEPT ![r] = Closed]
    /\ unshown' = [unshown EXCEPT ![r] = {}]
    /\ UNCHANGED <<budget, pc, spent, crashes>>

(* The process dies; a flush in flight may still be applied                 *)
Crash ==
    /\ faults < MaxFaults /\ faults' = faults + 1
    /\ crashes' = crashes + 1
    /\ \E applied \in SUBSET {r \in Runs : Locked(r)} :
         journal' = [r \in Runs |-> IF r \in applied THEN journal[r] \o buffer[r] ELSE journal[r]]
    /\ buffer' = [r \in Runs |-> <<>>]
    /\ ledger' = [r \in Runs |-> Closed]
    /\ unshown' = [r \in Runs |-> {}]
    /\ budget' = FreshBudget
    /\ pc' = [d \in Deliveries |-> IF pc[d] = "new" THEN "new" ELSE "done"]
    /\ UNCHANGED <<ckpt, spent>>

Init ==
    /\ ledger = [r \in Runs |-> Closed]
    /\ budget = FreshBudget
    /\ pc = [d \in Deliveries |-> "new"]
    /\ buffer = [r \in Runs |-> <<>>] /\ journal = [r \in Runs |-> <<>>]
    /\ ckpt = [r \in Runs |-> [count |-> 0, total |-> 0]]
    /\ unshown = [r \in Runs |-> {}]
    /\ spent = [d \in Deliveries |-> 0]
    /\ crashes = 0 /\ faults = 0

Next ==
    \/ \E r \in Runs : Open(r) \/ Consume(r) \/ Save(r) \/ Close(r)
    \/ \E d \in Deliveries :
        \/ Begin(d) \/ RecordSource(d) \/ Mark(d) \/ Abandon(d) \/ ShowUsage(d)
        \/ \E use \in 0..MaxUse : End(d, use)
        \/ \E use \in 1..MaxUse : Flushed(d, use)
        \/ \E how \in {"rejected", "cancelled", "lost"} : FlushFails(d, how)
    \/ Crash

Spec == Init /\ [][Next]_vars

-----------------------------------------------------------------------------
(* Properties.                                                              *)

Where == {"new", "wait", "source", "mark", "stop", "run", "settle", "done"}

(* The types of the variables.                                              *)
TypeOK ==
    /\ pc \in [Deliveries -> Where]
    /\ \A r \in Runs : ledger[r] = Closed \/ ledger[r].health \in {"ok", "failed", "lost"}
    /\ budget.owner \in 0..(MaxFaults + 1) /\ budget.unknown \subseteq Deliveries
    /\ DOMAIN budget.charged \subseteq Deliveries
    /\ spent \in [Deliveries -> 0..MaxUse]
    /\ faults \in 0..MaxFaults /\ crashes \in 0..faults

(* No provider call is free (migration-3.0.md: "a dispatched call without   *)
(* valid final usage is not silently treated as free"): what a delivery of  *)
(* an open run used is charged in the shared budget, as it was, or fences   *)
(* it as unknown, over crashes, cancellations and resumes.  A ledger that   *)
(* failed while calls of one strategy ran side by side is the exception.    *)
SpendAccounted ==
    \A d \in Deliveries :
        /\ d \in DOMAIN budget.charged => budget.charged[d] = spent[d]
        /\ (spent[d] # 0 /\ pc[d] = "done" /\ ledger[RunOf[d]].health \in {"ok", "lost"})
              => d \in DOMAIN budget.charged \cup budget.unknown

(* A capped budget is a strict fence: when a provider is invoked, what the  *)
(* finished deliveries of the open runs whose ledger did not fail really    *)
(* used is below the cap; the check before the marker is not enough,        *)
(* because another run may settle while the marker is flushed.              *)
FenceHolds ==
    [][\A d \in Deliveries :
        (pc[d] = "mark" /\ pc'[d] = "run" /\ Cap > 0) =>
            LET over == {e \in Deliveries :
                            /\ spent[e] # 0 /\ pc[e] \in {"settle", "done"}
                            /\ ledger[RunOf[e]].health \in {"ok", "lost"}}
            IN MapThenSumSet(LAMBDA e : spent[e], over) < Cap]_vars

(* The journal is the ledger: what a resume rebuilds from the records, were *)
(* the buffered ones committed, is what the live ledger knows, usage shown  *)
(* apart; and a run that is not open left a journal that no recovery check  *)
(* refuses, covering the envelope of its checkpoint, after every crash.     *)
JournalIsLedger ==
    \A r \in Runs :
        /\ Acceptable(journal[r]) /\ Covered(r)
        /\ (ledger[r].health = "ok" /\ ~ Locked(r)) =>
              LET L == Recover(journal[r] \o buffer[r])
              IN /\ [L EXCEPT !.consumed = ledger[r].consumed,
                              !.unknown = ledger[r].unknown] = ledger[r]
                 /\ ledger[r].unknown => L.unknown
                 /\ ledger[r].consumed \ unshown[r] \subseteq
                       L.consumed \cup {d \in DOMAIN L.receipts : L.receipts[d] = Unknown}

(* A run closed after its records were flushed can resume with the budget   *)
(* of its process: the budget never knows less than the journal.            *)
SameOwnerResumes ==
    \A r \in Runs :
        (ledger[r].health = "ok" /\ Quiet(r) /\ ledger[r].count > 0)
            => BudgetAccepts(journal[r] \o buffer[r])
=============================================================================
