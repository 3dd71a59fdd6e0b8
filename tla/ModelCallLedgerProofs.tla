----------------------- MODULE ModelCallLedgerProofs -----------------------
(***************************************************************************)
(* Proofs about ModelCallLedger, for every agent tree, every number of     *)
(* deliveries and every bound.                                             *)
(*                                                                         *)
(* What the proofs say of a run's records they say of the set of them: a   *)
(* record only ever joins the buffer, a commit moves the buffer to the     *)
(* journal, and a loss of the buffer closes the ledger or marks it.        *)
(***************************************************************************)
EXTENDS ModelCallLedger, FiniteSetTheorems, TLAPS

Durable(r) == ToSet(journal[r])
Records(r) == ToSet(journal[r]) \cup ToSet(buffer[r])
Has(recs, kind, d) == \E x \in recs : x.kind = kind /\ x.d = d
Health(r) == ledger[r].health

Kinds == {"intent", "source", "started", "abandoned", "receipt", "usage"}
Entry == [kind : Kinds, d : Deliveries, use : 0..MaxUse, owner : 1..(MaxFaults + 1)]
LedgerFields == {"health", "intents", "started", "abandoned", "receipts", "sources",
                 "consumed", "unknown", "total", "count"}

(* Typing, with the shapes of the records.                                  *)
Shapes ==
    /\ TypeOK
    /\ journal \in [Runs -> Seq(Entry)] /\ buffer \in [Runs -> Seq(Entry)]
    /\ \A r \in Runs : \A x \in Records(r) : RunOf[x.d] = r
    /\ ledger = [r \in Runs |-> ledger[r]]
    /\ \A r \in Runs : \/ ledger[r] = Closed
                       \/ DOMAIN ledger[r] = LedgerFields /\ Health(r) # "closed"
    /\ DOMAIN budget = {"owner", "charged", "unknown"}
    /\ unshown = [r \in Runs |-> unshown[r]]

(* Nothing is under way, buffered or to be shown without a ledger.          *)
ClosedIsQuiet ==
    /\ \A d \in Deliveries : pc[d] \notin Ended => Health(RunOf[d]) # "closed"
    /\ \A r \in Runs : Health(r) = "closed" => buffer[r] = <<>> /\ unshown[r] = {}

(* A ledger's lock is held for one record at a time, by a healthy ledger.   *)
Flushing == {"source", "mark", "settle"}
OneFlush ==
    /\ \A d, e \in Deliveries :
          (RunOf[d] = RunOf[e] /\ pc[d] \in Flushing /\ pc[e] \in Flushing) => d = e
    /\ \A d \in Deliveries : pc[d] \in Flushing => Health(RunOf[d]) = "ok"

(* A provider is invoked only behind a durable marker; an abandoned         *)
(* delivery was not invoked and never will be.                              *)
InvokedBehindMarker ==
    \A d \in Deliveries :
        /\ spent[d] # 0 => /\ pc[d] \in {"run", "settle", "done"}
                           /\ Has(Durable(RunOf[d]), "started", d)
        /\ pc[d] = "mark" => Has(Records(RunOf[d]), "started", d)
        /\ Has(Records(RunOf[d]), "abandoned", d) => spent[d] = 0 /\ pc[d] = "done"

(* A receipt says what was used, or that it is not known.                   *)
ReceiptsHonest ==
    \A r \in Runs : \A x \in Records(r) :
        x.kind = "receipt" => x.use \in {spent[x.d], Unknown}

ChargesHonest ==
    \A d \in DOMAIN budget.charged : budget.charged[d] = spent[d] /\ spent[d] # 0

(* The call is accounted for from the moment its stream ended.              *)
EndedAccounted ==
    \A d \in Deliveries :
        (spent[d] # 0 /\ pc[d] \in {"settle", "done"} /\ Health(RunOf[d]) \in {"ok", "lost"})
            => d \in DOMAIN budget.charged \cup budget.unknown

SpendInv ==
    /\ Shapes /\ ClosedIsQuiet /\ OneFlush /\ InvokedBehindMarker
    /\ ReceiptsHonest /\ ChargesHonest /\ EndedAccounted

(* The budget of this process knows what the records of a healthy run say.  *)
Undecided(r, d) ==
    /\ Has(Records(r), "started", d) /\ pc[d] \in Ended
    /\ ~ Has(Records(r), "abandoned", d) /\ ~ Has(Records(r), "receipt", d)

Settled(x) == IF x.use = Unknown THEN x.d \in budget.unknown ELSE x.d \in DOMAIN budget.charged

RunKnown(r) ==
    /\ \A x \in Records(r) : x.owner = budget.owner
    /\ \A x \in Records(r) : x.kind = "receipt" => Settled(x)
    /\ \A d \in Deliveries : Undecided(r, d) => d \in budget.unknown
    /\ ledger[r].count > 0 => Records(r) # {}

BudgetKnows == \A r \in Runs : Health(r) = "ok" => RunKnown(r)

(* A healthy run has the intent of what is under way, and the receipt of    *)
(* what is being settled.                                                   *)
Recorded ==
    \A d \in Deliveries : Health(RunOf[d]) = "ok" =>
        /\ pc[d] \notin Ended => Has(Records(RunOf[d]), "intent", d)
        /\ pc[d] = "settle" => Has(Records(RunOf[d]), "receipt", d)

(* Without an owner nothing was begun.                                      *)
OwnerFirst ==
    budget.owner = NoBudgetOwner =>
        /\ \A d \in Deliveries : pc[d] \in Ended
        /\ \A r \in Runs : Health(r) # "closed" =>
              DOMAIN ledger[r].receipts = {} /\ unshown[r] = {}

LedgerInv == SpendInv /\ Recorded /\ BudgetKnows /\ OwnerFirst

-----------------------------------------------------------------------------
(* Sequences of records as sets.                                            *)

LEMMA AppendedSet ==
    ASSUME NEW S, NEW s \in Seq(S), NEW x \in S
    PROVE  Append(s, x) \in Seq(S) /\ ToSet(Append(s, x)) = ToSet(s) \cup {x}
<1>1. /\ Append(s, x) \in Seq(S) /\ DOMAIN Append(s, x) = 1..(Len(s) + 1)
      /\ \A i \in 1..Len(s) : Append(s, x)[i] = s[i]
      /\ Append(s, x)[Len(s) + 1] = x
      /\ DOMAIN s = 1..Len(s) /\ Len(s) \in Nat
  OBVIOUS
<1> QED BY <1>1 DEF ToSet

LEMMA JoinedSet ==
    ASSUME NEW S, NEW s \in Seq(S), NEW t \in Seq(S)
    PROVE  s \o t \in Seq(S) /\ ToSet(s \o t) = ToSet(s) \cup ToSet(t)
<1>1. /\ s \o t \in Seq(S) /\ DOMAIN (s \o t) = 1..(Len(s) + Len(t))
      /\ \A i \in 1..Len(s) : (s \o t)[i] = s[i]
      /\ \A i \in 1..Len(t) : (s \o t)[Len(s) + i] = t[i]
      /\ DOMAIN s = 1..Len(s) /\ Len(s) \in Nat
      /\ DOMAIN t = 1..Len(t) /\ Len(t) \in Nat
  OBVIOUS
<1>2. \A i \in DOMAIN (s \o t) :
         i \in DOMAIN s \/ \E j \in DOMAIN t : i = Len(s) + j
  <2> SUFFICES ASSUME NEW i \in DOMAIN (s \o t), i \notin DOMAIN s
               PROVE  \E j \in DOMAIN t : i = Len(s) + j
    OBVIOUS
  <2>1. i - Len(s) \in DOMAIN t /\ i = Len(s) + (i - Len(s)) BY <1>1
  <2> QED BY <2>1
<1>3. ToSet(s \o t) \subseteq ToSet(s) \cup ToSet(t) BY <1>1, <1>2 DEF ToSet
<1>4. ToSet(s) \subseteq ToSet(s \o t) BY <1>1 DEF ToSet
<1>5. ToSet(t) \subseteq ToSet(s \o t)
  <2> SUFFICES ASSUME NEW j \in DOMAIN t PROVE t[j] \in ToSet(s \o t)
    BY DEF ToSet
  <2>1. Len(s) + j \in DOMAIN (s \o t) BY <1>1
  <2> QED BY <1>1, <2>1 DEF ToSet
<1> QED BY <1>1, <1>3, <1>4, <1>5

LEMMA EmptySet == ToSet(<<>>) = {}
BY DEF ToSet

-----------------------------------------------------------------------------
(* The records of a run, as the operations change them.                     *)

Logged == journal \in [Runs -> Seq(Entry)] /\ buffer \in [Runs -> Seq(Entry)]

(* A record joins the buffer of its run.                                    *)
LEMMA RecordStep ==
    ASSUME Logged, NEW r \in Runs, NEW x \in Entry, Record(r, x), UNCHANGED journal
    PROVE  /\ Logged'
           /\ \A q \in Runs : Durable(q)' = Durable(q)
           /\ Records(r)' = Records(r) \cup {x}
           /\ \A q \in Runs \ {r} : Records(q)' = Records(q) /\ buffer'[q] = buffer[q]
<1>1. buffer'[r] = Append(buffer[r], x) /\ \A q \in Runs \ {r} : buffer'[q] = buffer[q]
  BY DEF Logged, Record
<1>2. /\ Append(buffer[r], x) \in Seq(Entry)
      /\ ToSet(Append(buffer[r], x)) = ToSet(buffer[r]) \cup {x}
  BY AppendedSet DEF Logged
<1>3. Logged' BY <1>2 DEF Logged, Record
<1> QED BY <1>1, <1>2, <1>3 DEF Records, Durable

(* A commit moves the buffer to the journal.                                *)
LEMMA CommitStep ==
    ASSUME Logged, NEW r \in Runs, Commit(r)
    PROVE  /\ Logged'
           /\ Durable(r)' = Records(r) /\ buffer'[r] = <<>>
           /\ \A q \in Runs : Records(q)' = Records(q)
           /\ \A q \in Runs \ {r} : Durable(q)' = Durable(q) /\ buffer'[q] = buffer[q]
<1>1. /\ journal[r] \o buffer[r] \in Seq(Entry)
      /\ ToSet(journal[r] \o buffer[r]) = ToSet(journal[r]) \cup ToSet(buffer[r])
  BY JoinedSet DEF Logged
<1>2. /\ journal'[r] = journal[r] \o buffer[r] /\ buffer'[r] = <<>>
      /\ \A q \in Runs \ {r} : journal'[q] = journal[q] /\ buffer'[q] = buffer[q]
  BY DEF Logged, Commit
<1>3. Logged' BY <1>1 DEF Logged, Commit
<1> QED BY <1>1, <1>2, <1>3, EmptySet DEF Records, Durable

(* The buffer of a run is lost.                                             *)
LEMMA LoseStep ==
    ASSUME Logged, NEW r \in Runs, buffer' = [buffer EXCEPT ![r] = <<>>], UNCHANGED journal
    PROVE  /\ Logged'
           /\ Records(r)' = Durable(r) /\ buffer'[r] = <<>>
           /\ \A q \in Runs : Durable(q)' = Durable(q)
           /\ \A q \in Runs \ {r} : Records(q)' = Records(q) /\ buffer'[q] = buffer[q]
<1>1. buffer'[r] = <<>> /\ \A q \in Runs \ {r} : buffer'[q] = buffer[q]
  BY DEF Logged
<1>2. Logged' BY DEF Logged
<1> QED BY <1>1, <1>2, EmptySet DEF Records, Durable

(* The process dies.                                                        *)
LEMMA CrashStep ==
    ASSUME Logged, Crash
    PROVE  /\ Logged'
           /\ \A q \in Runs : /\ buffer'[q] = <<>>
                              /\ Records(q)' = Durable(q)'
                              /\ Durable(q) \subseteq Durable(q)'
                              /\ Durable(q)' \subseteq Records(q)
<1>1. PICK applied \in SUBSET {r \in Runs : Locked(r)} :
         journal' = [r \in Runs |-> IF r \in applied THEN journal[r] \o buffer[r] ELSE journal[r]]
  BY DEF Crash
<1>2. buffer' = [r \in Runs |-> <<>>] BY DEF Crash
<1>3. \A r \in Runs :
         /\ journal[r] \o buffer[r] \in Seq(Entry)
         /\ ToSet(journal[r] \o buffer[r]) = ToSet(journal[r]) \cup ToSet(buffer[r])
  BY JoinedSet DEF Logged
<1>4. Logged' BY <1>1, <1>2, <1>3 DEF Logged
<1> QED BY <1>1, <1>2, <1>3, <1>4, EmptySet DEF Records, Durable

-----------------------------------------------------------------------------
(* The ledgers.                                                             *)

LedgerShape(L) ==
    L = Closed \/ (DOMAIN L = LedgerFields /\ L.health \in {"ok", "failed", "lost"})

LEMMA ShapesEq ==
    Shapes <=>
        /\ pc \in [Deliveries -> Where]
        /\ budget.owner \in 0..(MaxFaults + 1) /\ budget.unknown \subseteq Deliveries
        /\ DOMAIN budget.charged \subseteq Deliveries
        /\ DOMAIN budget = {"owner", "charged", "unknown"}
        /\ spent \in [Deliveries -> 0..MaxUse]
        /\ faults \in 0..MaxFaults /\ crashes \in 0..faults
        /\ Logged
        /\ \A r \in Runs : \A x \in Records(r) : RunOf[x.d] = r
        /\ ledger = [r \in Runs |-> ledger[r]]
        /\ \A r \in Runs : LedgerShape(ledger[r])
        /\ unshown = [r \in Runs |-> unshown[r]]
<1>1. Closed.health = "closed" BY DEF Closed
<1>2. \A r \in Runs : LedgerShape(ledger[r]) <=>
         /\ ledger[r] = Closed \/ ledger[r].health \in {"ok", "failed", "lost"}
         /\ \/ ledger[r] = Closed
            \/ DOMAIN ledger[r] = LedgerFields /\ Health(r) # "closed"
  BY <1>1 DEF LedgerShape, Health
<1> QED BY <1>2 DEF Shapes, TypeOK, Logged

LEMMA RecoverShape ==
    ASSUME NEW log
    PROVE  /\ DOMAIN Recover(log) = LedgerFields /\ Recover(log).health = "ok"
           /\ Recover(log) # Closed
           /\ DOMAIN Recover(log).receipts = Of(log, "receipt")
<1>1. DOMAIN Recover(log) = LedgerFields /\ Recover(log).health = "ok"
  BY DEF Recover, LedgerFields
<1>2. DOMAIN Recover(log).receipts = Of(log, "receipt") BY DEF Recover
<1>3. Closed.health = "closed" BY DEF Closed
<1> QED BY <1>1, <1>2, <1>3

(* One ledger changes at a time, and its health as it says.                 *)
Becomes(r, healths) ==
    /\ LedgerShape(ledger'[r]) /\ ledger'[r].health \in healths
    /\ \A q \in Runs \ {r} : ledger'[q] = ledger[q]
    /\ ledger' = [q \in Runs |-> ledger'[q]]

LEMMA LedgerBecomes ==
    ASSUME ledger = [q \in Runs |-> ledger[q]], NEW r \in Runs, NEW L,
           ledger' = [ledger EXCEPT ![r] = L], LedgerShape(L)
    PROVE  Becomes(r, {L.health}) /\ ledger'[r] = L
<1>1. ledger'[r] = L /\ \A q \in Runs \ {r} : ledger'[q] = ledger[q] OBVIOUS
<1>2. ledger' = [q \in Runs |-> ledger'[q]] OBVIOUS
<1> QED BY <1>1, <1>2 DEF Becomes

(* What each step of a delivery does to the ledger of its run.              *)
LEMMA DeliveryLedger ==
    ASSUME Shapes, ClosedIsQuiet, NEW d \in Deliveries
    PROVE  /\ Begin(d) => Health(RunOf[d]) = "ok" /\ Becomes(RunOf[d], {"ok"})
           /\ Abandon(d) => Becomes(RunOf[d], {Health(RunOf[d])})
           /\ \A use \in 0..MaxUse : End(d, use) =>
                 /\ Becomes(RunOf[d], {Health(RunOf[d])})
                 /\ ledger'[RunOf[d]].count = ledger[RunOf[d]].count
           /\ \A use \in 1..MaxUse : Flushed(d, use) => Becomes(RunOf[d], {Health(RunOf[d])})
           /\ \A how \in {"rejected", "cancelled", "lost"} :
                 FlushFails(d, how) =>
                    Becomes(RunOf[d], IF how = "lost" THEN {"lost"} ELSE {"failed"})
           /\ pc[d] \notin Ended => Health(RunOf[d]) \in {"ok", "failed", "lost"}
<1> DEFINE r == RunOf[d]
<1> DEFINE L == ledger[r]
<1>r. r \in Runs BY LedgerAssumption
<1>s. LedgerShape(L) /\ ledger = [q \in Runs |-> ledger[q]] BY <1>r, ShapesEq
<1>c. Closed.health = "closed" BY DEF Closed
<1>f. /\ {"intents", "count", "abandoned", "started", "total", "unknown", "health",
          "sources", "receipts"} \subseteq LedgerFields
      /\ "health" \in LedgerFields
  BY DEF LedgerFields
<1>o. ASSUME L.health # "closed"
      PROVE  DOMAIN L = LedgerFields /\ L.health \in {"ok", "failed", "lost"}
  BY <1>o, <1>s, <1>c DEF LedgerShape
<1>l. pc[d] \notin Ended => L.health # "closed" BY DEF ClosedIsQuiet, Health
<1> HIDE DEF r, L
<1>k. ASSUME NEW M, ledger' = [ledger EXCEPT ![r] = M],
             DOMAIN M = LedgerFields, M.health \in {"ok", "failed", "lost"}
      PROVE  Becomes(r, {M.health}) /\ ledger'[r] = M
  <2>1. LedgerShape(M) BY <1>k DEF LedgerShape
  <2> QED BY <1>k, <1>r, <1>s, <2>1, LedgerBecomes
<1>1. ASSUME Begin(d)
      PROVE  L.health = "ok" /\ Becomes(r, {"ok"})
  <2>1. L.health = "ok" BY <1>1 DEF Begin, r, L
  <2> DEFINE M == [L EXCEPT !.intents = @ \cup {d}, !.count = @ + 1]
  <2>2. DOMAIN M = LedgerFields /\ M.health = "ok" BY <1>f, <1>o, <2>1
  <2>3. ledger' = [ledger EXCEPT ![r] = M] BY <1>1, <1>r, <1>s DEF Begin, r, L
  <2> HIDE DEF M
  <2> QED BY <1>k, <2>1, <2>2, <2>3
<1>2. ASSUME Abandon(d)
      PROVE  Becomes(r, {L.health})
  <2>1. L.health # "closed" BY <1>2, <1>l DEF Abandon, Ended
  <2>2. DOMAIN L = LedgerFields /\ L.health \in {"ok", "failed", "lost"} BY <1>o, <2>1
  <2>3. CASE L.health = "ok"
    <3> DEFINE M == [L EXCEPT !.abandoned = @ \cup {d}, !.started = @ \ {d}, !.count = @ + 1]
    <3>1. DOMAIN M = LedgerFields /\ M.health = L.health BY <1>f, <2>2
    <3>2. ledger' = [ledger EXCEPT ![r] = M]
      BY <1>2, <1>r, <1>s, <2>3 DEF Abandon, r, L
    <3> HIDE DEF M
    <3> QED BY <1>k, <2>2, <3>1, <3>2
  <2>4. CASE L.health # "ok"
    <3>1. ledger' = ledger BY <1>2, <2>4 DEF Abandon, r, L
    <3>2. ledger' = [ledger EXCEPT ![r] = L] BY <3>1, <1>s DEF L
    <3> QED BY <1>k, <2>2, <3>2
  <2> QED BY <2>3, <2>4
<1>3. ASSUME NEW use \in 0..MaxUse, End(d, use)
      PROVE  Becomes(r, {L.health}) /\ ledger'[r].count = L.count
  <2>1. L.health # "closed" BY <1>3, <1>l DEF End, Ended
  <2>2. DOMAIN L = LedgerFields /\ L.health \in {"ok", "failed", "lost"} BY <1>o, <2>1
  <2>3. CASE L.health # "failed"
    <3> DEFINE M == [L EXCEPT !.total = @ + use, !.unknown = @ \/ use = Unknown]
    <3>1. DOMAIN M = LedgerFields /\ M.health = L.health /\ M.count = L.count
      BY <1>f, <2>2
    <3>2. ledger' = [ledger EXCEPT ![r] = M]
      BY <1>3, <1>r, <1>s, <2>3 DEF End, r, L
    <3> HIDE DEF M
    <3> QED BY <1>k, <2>2, <3>1, <3>2
  <2>4. CASE L.health = "failed"
    <3>1. ledger' = ledger BY <1>3, <2>4 DEF End, r, L
    <3>2. ledger' = [ledger EXCEPT ![r] = L] BY <3>1, <1>s DEF L
    <3> QED BY <1>k, <2>2, <3>2
  <2> QED BY <2>3, <2>4
<1>4. ASSUME NEW use \in 1..MaxUse, Flushed(d, use)
      PROVE  Becomes(r, {L.health})
  <2>1. L.health # "closed" BY <1>4, <1>l DEF Flushed, Ended
  <2>2. DOMAIN L = LedgerFields /\ L.health \in {"ok", "failed", "lost"} BY <1>o, <2>1
  <2> DEFINE K == [L EXCEPT !.count = @ + 1]
  <2>3. DOMAIN K = LedgerFields /\ K.health = L.health BY <1>f, <2>2
  <2>4. CASE pc[d] = "source"
    <3> DEFINE M == [K EXCEPT !.sources = @ \cup {d}]
    <3>1. ledger' = [ledger EXCEPT ![r] = M] BY <1>4, <2>4 DEF Flushed, Land, r, L
    <3> HIDE DEF K
    <3>2. DOMAIN M = LedgerFields /\ M.health = L.health BY <1>f, <2>2, <2>3
    <3> HIDE DEF M
    <3> QED BY <1>k, <2>2, <3>1, <3>2
  <2>5. CASE pc[d] = "mark"
    <3> DEFINE M == [K EXCEPT !.started = @ \cup {d}]
    <3>1. ledger' = [ledger EXCEPT ![r] = M] BY <1>4, <2>5 DEF Flushed, Land, r, L
    <3> HIDE DEF K
    <3>2. DOMAIN M = LedgerFields /\ M.health = L.health BY <1>f, <2>2, <2>3
    <3> HIDE DEF M
    <3> QED BY <1>k, <2>2, <3>1, <3>2
  <2>6. CASE pc[d] = "settle"
    <3> DEFINE M == [K EXCEPT !.receipts = Extended(@, d, UseIn(buffer[r], d)), !.started = @ \ {d}]
    <3>1. ledger' = [ledger EXCEPT ![r] = M] BY <1>4, <2>6 DEF Flushed, Land, r, L
    <3> HIDE DEF K
    <3>2. DOMAIN M = LedgerFields /\ M.health = L.health BY <1>f, <2>2, <2>3
    <3> HIDE DEF M
    <3> QED BY <1>k, <2>2, <3>1, <3>2
  <2> QED BY <1>4, <2>4, <2>5, <2>6 DEF Flushed
<1>5. ASSUME NEW how \in {"rejected", "cancelled", "lost"}, FlushFails(d, how)
      PROVE  Becomes(r, IF how = "lost" THEN {"lost"} ELSE {"failed"})
  <2>1. L.health # "closed" BY <1>5, <1>l DEF FlushFails, Ended
  <2>2. DOMAIN L = LedgerFields /\ L.health \in {"ok", "failed", "lost"} BY <1>o, <2>1
  <2> DEFINE h == IF how = "lost" THEN "lost" ELSE "failed"
  <2> DEFINE M == [L EXCEPT !.health = h]
  <2>3. ledger' = [ledger EXCEPT ![r] = M]
    BY <1>5, <1>r, <1>s DEF FlushFails, r, L
  <2>4. DOMAIN M = LedgerFields /\ M.health = h /\ h \in {"ok", "failed", "lost"}
    BY <1>f, <2>2
  <2> HIDE DEF M
  <2>5. Becomes(r, {M.health}) BY <1>k, <2>3, <2>4
  <2> QED BY <2>4, <2>5
<1>6. pc[d] \notin Ended => L.health \in {"ok", "failed", "lost"} BY <1>l, <1>o
<1> QED BY <1>1, <1>2, <1>3, <1>4, <1>5, <1>6 DEF r, L, Health

(* What the operations of a run do to its ledger.                           *)
LEMMA RunLedger ==
    ASSUME Shapes, NEW r \in Runs
    PROVE  /\ Open(r) => /\ Health(r) = "closed" /\ Becomes(r, {"ok"})
                         /\ ledger'[r] = Recover(journal[r])
           /\ Consume(r) => /\ Health(r) = "ok" /\ Becomes(r, {"ok"})
                            /\ ledger'[r].count = ledger[r].count
           /\ Close(r) => Becomes(r, {"closed"})
<1> DEFINE L == ledger[r]
<1>s. LedgerShape(L) /\ ledger = [q \in Runs |-> ledger[q]] BY ShapesEq
<1>c. Closed.health = "closed" /\ LedgerShape(Closed) BY DEF Closed, LedgerShape
<1>f. {"consumed", "count", "health"} \subseteq LedgerFields
  BY DEF LedgerFields
<1> HIDE DEF L
<1>1. ASSUME Open(r)
      PROVE  L.health = "closed" /\ Becomes(r, {"ok"}) /\ ledger'[r] = Recover(journal[r])
  <2> DEFINE M == Recover(journal[r])
  <2>1. DOMAIN M = LedgerFields /\ M.health = "ok" BY RecoverShape
  <2>2. ledger' = [ledger EXCEPT ![r] = M] /\ L = Closed BY <1>1 DEF Open, L
  <2> HIDE DEF M
  <2>3. LedgerShape(M) BY <2>1 DEF LedgerShape
  <2>4. Becomes(r, {M.health}) /\ ledger'[r] = M BY <1>s, <2>2, <2>3, LedgerBecomes
  <2> QED BY <1>c, <2>1, <2>2, <2>4 DEF M
<1>2. ASSUME Consume(r)
      PROVE  L.health = "ok" /\ Becomes(r, {"ok"}) /\ ledger'[r].count = L.count
  <2>1. L.health = "ok" BY <1>2 DEF Consume, L
  <2>2. DOMAIN L = LedgerFields BY <1>c, <1>s, <2>1 DEF LedgerShape
  <2> DEFINE fresh == (DOMAIN L.receipts \cap Auxiliary) \ L.consumed
  <2> DEFINE M == [L EXCEPT !.consumed = @ \cup fresh]
  <2>3. ledger' = [ledger EXCEPT ![r] = M] BY <1>2, <1>s DEF Consume, L
  <2> HIDE DEF fresh
  <2>4. DOMAIN M = LedgerFields /\ M.health = "ok" /\ M.count = L.count BY <1>f, <2>1, <2>2
  <2> HIDE DEF M
  <2>5. LedgerShape(M) BY <2>4 DEF LedgerShape
  <2>6. Becomes(r, {M.health}) /\ ledger'[r] = M BY <1>s, <2>3, <2>5, LedgerBecomes
  <2> QED BY <2>1, <2>4, <2>6
<1>3. ASSUME Close(r)
      PROVE  Becomes(r, {"closed"})
  <2>1. ledger' = [ledger EXCEPT ![r] = Closed] BY <1>3 DEF Close
  <2> QED BY <1>c, <1>s, <2>1, LedgerBecomes
<1> QED BY <1>1, <1>2, <1>3 DEF L, Health

-----------------------------------------------------------------------------
(* Typing.                                                                  *)

LEMMA NewEntry ==
    ASSUME Shapes, NEW d \in Deliveries, NEW kind \in Kinds, NEW use \in 0..MaxUse
    PROVE  /\ Rec(kind, d, use) \in Entry /\ Rec(kind, d, use).d = d
           /\ Rec(kind, d, use).kind = kind /\ Rec(kind, d, use).use = use
           /\ Rec(kind, d, use).owner = ThisOwner
           /\ ThisOwner \in 1..(MaxFaults + 1)
<1>1. ThisOwner \in 1..(MaxFaults + 1)
  BY LedgerAssumption DEF Shapes, TypeOK, ThisOwner, NoBudgetOwner
<1> QED BY <1>1 DEF Rec, Entry

(* What is charged and what is fenced stays so, and what joins them is the  *)
(* delivery that ended.                                                     *)
LEMMA ChargeStep ==
    ASSUME Shapes, NEW d \in Deliveries, NEW use \in 0..MaxUse, budget' = Charge(d, use)
    PROVE  /\ DOMAIN budget' = {"owner", "charged", "unknown"}
           /\ budget'.owner = budget.owner
           /\ use = Unknown => /\ budget'.unknown = budget.unknown \cup {d}
                               /\ budget'.charged = budget.charged
           /\ use # Unknown =>
                 /\ budget'.unknown = budget.unknown
                 /\ DOMAIN budget'.charged = DOMAIN budget.charged \cup {d}
                 /\ \A e \in DOMAIN budget.charged : budget'.charged[e] = budget.charged[e]
                 /\ d \notin DOMAIN budget.charged => budget'.charged[d] = use
<1>1. DOMAIN budget = {"owner", "charged", "unknown"} BY DEF Shapes
<1>2. CASE use = Unknown
  <2>1. budget' = [budget EXCEPT !.unknown = @ \cup {d}] BY <1>2 DEF Charge
  <2> QED BY <1>1, <1>2, <2>1
<1>3. CASE use # Unknown
  <2> DEFINE c == Extended(budget.charged, d, use)
  <2>1. budget' = [budget EXCEPT !.charged = c] BY <1>3 DEF Charge
  <2>2. DOMAIN c = DOMAIN budget.charged \cup {d} BY DEF Extended
  <2>3. \A e \in DOMAIN budget.charged : c[e] = budget.charged[e] BY DEF Extended
  <2>4. d \notin DOMAIN budget.charged => c[d] = use BY DEF Extended
  <2> HIDE DEF c
  <2>5. budget'.charged = c /\ budget'.unknown = budget.unknown /\ budget'.owner = budget.owner
        /\ DOMAIN budget' = {"owner", "charged", "unknown"}
    BY <1>1, <2>1
  <2> QED BY <1>3, <2>2, <2>3, <2>4, <2>5
<1> QED BY <1>2, <1>3

LEMMA LedgerCases ==
    ASSUME [Next]_vars
    PROVE  \/ \E r \in Runs : Open(r) \/ Consume(r) \/ Save(r) \/ Close(r)
           \/ \E d \in Deliveries :
                 Begin(d) \/ RecordSource(d) \/ Mark(d) \/ Abandon(d) \/ ShowUsage(d)
           \/ \E d \in Deliveries, use \in 0..MaxUse : End(d, use)
           \/ \E d \in Deliveries, use \in 1..MaxUse : Flushed(d, use)
           \/ \E d \in Deliveries, how \in {"rejected", "cancelled", "lost"} : FlushFails(d, how)
           \/ Crash
           \/ UNCHANGED vars
BY Zenon DEF Next

(* Typing but for the ledgers: the conjuncts that a step may disturb.       *)
Moved(r, recs) ==
    /\ Logged'
    /\ \A q \in Runs \ {r} : Records(q)' = Records(q)
    /\ Records(r)' \subseteq Records(r) \cup recs
    /\ \A x \in recs : RunOf[x.d] = r
    /\ unshown' = [q \in Runs |-> unshown'[q]]
    /\ pc' \in [Deliveries -> Where] /\ spent' \in [Deliveries -> 0..MaxUse]
    /\ faults' \in 0..MaxFaults /\ crashes' \in 0..faults'

BudgetShape ==
    /\ budget.owner \in 0..(MaxFaults + 1) /\ budget.unknown \subseteq Deliveries
    /\ DOMAIN budget.charged \subseteq Deliveries
    /\ DOMAIN budget = {"owner", "charged", "unknown"}

LEMMA ShapesFrom ==
    ASSUME Shapes, NEW r \in Runs, NEW recs, Moved(r, recs), BudgetShape',
           UNCHANGED ledger \/ \E h : Becomes(r, h)
    PROVE  Shapes'
<1>1. /\ ledger' = [q \in Runs |-> ledger'[q]]
      /\ \A q \in Runs : LedgerShape(ledger'[q])
  <2>1. CASE UNCHANGED ledger BY <2>1, ShapesEq
  <2>2. ASSUME NEW h, Becomes(r, h)
        PROVE  /\ ledger' = [q \in Runs |-> ledger'[q]]
               /\ \A q \in Runs : LedgerShape(ledger'[q])
    BY <2>2, ShapesEq DEF Becomes
  <2> QED BY <2>1, <2>2
<1>2. \A q \in Runs : \A x \in Records(q)' : RunOf[x.d] = q
  BY ShapesEq DEF Moved
<1>3. Closed.health = "closed" BY DEF Closed
<1>4. \A q \in Runs : \/ ledger'[q] = Closed
                      \/ /\ ledger'[q].health \in {"ok", "failed", "lost"}
                         /\ DOMAIN ledger'[q] = LedgerFields /\ Health(q)' # "closed"
  BY <1>1, <1>3 DEF LedgerShape, Health
<1> QED BY <1>1, <1>2, <1>4 DEF Moved, BudgetShape, Shapes, TypeOK, Logged, Health

(* The budget after a step.                                                 *)
LEMMA BudgetStep ==
    ASSUME Shapes, [Next]_vars
    PROVE  BudgetShape'
<1>0. BudgetShape BY ShapesEq DEF BudgetShape
<1>o. ThisOwner \in 1..(MaxFaults + 1)
  BY LedgerAssumption, ShapesEq DEF ThisOwner, NoBudgetOwner
<1>1. ASSUME NEW r \in Runs, Open(r)
      PROVE  BudgetShape'
  <2>1. CASE budget' = budget BY <1>0, <2>1 DEF BudgetShape
  <2>2. CASE journal[r] # <<>> /\ budget = FreshBudget
    <3> DEFINE log == journal[r]
    <3>1. budget' = Adopt(log) BY <1>1, <2>2 DEF Open
    <3>2. log \in Seq(Entry) /\ log # <<>> BY <2>2, ShapesEq DEF Logged
    <3>3. Owner(log) \in 1..(MaxFaults + 1)
      <4>1. Head(log) \in Entry BY <3>2
      <4> QED BY <3>2, <4>1 DEF Owner, Entry
    <3>4. DOMAIN Recover(log).receipts \subseteq Deliveries
      BY RecoverShape DEF Of
    <3>5. Unresolved(log) \subseteq Deliveries
      BY <3>4 DEF Unresolved, Recover, Of
    <3> HIDE DEF log
    <3>6. /\ DOMAIN budget' = {"owner", "charged", "unknown"}
          /\ budget'.owner = Owner(log) /\ budget'.unknown = Unresolved(log)
          /\ DOMAIN budget'.charged \subseteq DOMAIN Recover(log).receipts
      BY <2>2, <3>1 DEF Adopt, Restrict
    <3> QED BY <3>3, <3>4, <3>5, <3>6, LedgerAssumption DEF BudgetShape
  <2> QED BY <1>1, <2>1, <2>2 DEF Open, Adopt
<1>2. ASSUME NEW d \in Deliveries, Begin(d)
      PROVE  BudgetShape'
  BY <1>0, <1>2, <1>o, LedgerAssumption DEF Begin, BudgetShape
<1>3. ASSUME NEW d \in Deliveries, NEW use \in 0..MaxUse, End(d, use)
      PROVE  BudgetShape'
  <2>1. CASE budget' = budget BY <1>0, <2>1 DEF BudgetShape
  <2>2. CASE budget' = Charge(d, use)
    BY <1>0, <2>2, ChargeStep DEF BudgetShape
  <2> QED BY <1>3, <2>1, <2>2 DEF End
<1>4. CASE Crash
  <2>1. /\ DOMAIN budget' = {"owner", "charged", "unknown"} /\ budget'.owner = 0
        /\ budget'.unknown = {} /\ DOMAIN budget'.charged = {}
    BY <1>4 DEF Crash, FreshBudget, NoBudgetOwner
  <2> QED BY <2>1, LedgerAssumption DEF BudgetShape
<1>5. CASE budget' = budget BY <1>0, <1>5 DEF BudgetShape
<1> QED
  BY <1>1, <1>2, <1>3, <1>4, <1>5, LedgerCases
     DEF Consume, Save, Close, RecordSource, Mark, Abandon, ShowUsage, Flushed, FlushFails, vars

LEMMA ShapesStep ==
    ASSUME Shapes, ClosedIsQuiet, [Next]_vars
    PROVE  Shapes'
<1>b. BudgetShape' BY BudgetStep
<1>t. /\ pc \in [Deliveries -> Where] /\ spent \in [Deliveries -> 0..MaxUse]
      /\ faults \in 0..MaxFaults /\ crashes \in 0..faults
      /\ Logged /\ unshown = [q \in Runs |-> unshown[q]]
      /\ MaxFaults \in Nat /\ MaxUse \in Nat \ {0}
  BY ShapesEq, LedgerAssumption
<1>r. \A d \in Deliveries : RunOf[d] \in Runs BY LedgerAssumption
<1>1. ASSUME NEW r \in Runs, Open(r) \/ Consume(r) \/ Save(r) \/ Close(r)
      PROVE  Shapes'
  <2>1. Logged' /\ \A q \in Runs : Records(q)' = Records(q)
    <3>1. CASE Commit(r) BY <1>t, <3>1, CommitStep
    <3>2. CASE UNCHANGED <<journal, buffer>> BY <1>t, <3>2 DEF Logged, Records
    <3> QED BY <1>1, <3>1, <3>2 DEF Open, Consume, Save, SaveEnvelope, Close
  <2>2. UNCHANGED <<pc, spent, crashes>> BY <1>1 DEF Open, Consume, Save, Close
  <2>3. unshown' = [q \in Runs |-> unshown'[q]] BY <1>t, <1>1 DEF Open, Consume, Save, Close
  <2>4. faults' \in 0..MaxFaults /\ crashes' \in 0..faults'
    BY <1>t, <1>1, <2>2 DEF Open, Consume, Save, Close
  <2>5. Moved(r, {}) BY <1>t, <2>1, <2>2, <2>3, <2>4 DEF Moved
  <2>6. UNCHANGED ledger \/ \E h : Becomes(r, h)
    BY <1>1, RunLedger DEF Save
  <2> QED BY <1>b, <2>5, <2>6, ShapesFrom
<1>2. ASSUME NEW d \in Deliveries, NEW kind \in Kinds, NEW use \in 0..MaxUse,
             Record(RunOf[d], Rec(kind, d, use)), UNCHANGED journal,
             pc' \in [Deliveries -> Where], UNCHANGED <<spent, crashes, faults>>,
             unshown' = [q \in Runs |-> unshown'[q]],
             UNCHANGED ledger \/ \E h : Becomes(RunOf[d], h)
      PROVE  Shapes'
  <2> DEFINE r == RunOf[d]
  <2> DEFINE x == Rec(kind, d, use)
  <2>1. x \in Entry /\ x.d = d BY NewEntry
  <2>2. /\ Logged' /\ Records(r)' = Records(r) \cup {x}
        /\ \A q \in Runs \ {r} : Records(q)' = Records(q)
    BY <1>2, <1>r, <1>t, <2>1, RecordStep
  <2>3. Moved(r, {x}) BY <1>2, <1>t, <2>1, <2>2 DEF Moved
  <2> QED BY <1>2, <1>b, <1>r, <2>3, ShapesFrom
<1>3. ASSUME NEW d \in Deliveries,
             Begin(d) \/ RecordSource(d) \/ Mark(d) \/ Abandon(d) \/ ShowUsage(d)
      PROVE  Shapes'
  <2>1. UNCHANGED <<journal, spent, crashes, faults>>
    BY <1>3 DEF Begin, RecordSource, Mark, Abandon, ShowUsage
  <2>2. pc' \in [Deliveries -> Where]
    BY <1>3, <1>t DEF Begin, RecordSource, Mark, Abandon, ShowUsage, Go, Where
  <2>3. unshown' = [q \in Runs |-> unshown'[q]]
    BY <1>3, <1>t DEF Begin, RecordSource, Mark, Abandon, ShowUsage
  <2>4. UNCHANGED ledger \/ \E h : Becomes(RunOf[d], h)
    BY <1>3, DeliveryLedger DEF RecordSource, Mark, ShowUsage
  <2>5. \/ \E kind \in Kinds : Record(RunOf[d], Rec(kind, d, Unknown))
        \/ UNCHANGED buffer
    BY <1>3 DEF Begin, RecordSource, Mark, Abandon, ShowUsage, Kinds
  <2>6. CASE UNCHANGED buffer
    <3>1. Moved(RunOf[d], {}) BY <1>t, <2>1, <2>2, <2>3, <2>6 DEF Moved, Logged, Records
    <3> QED BY <1>b, <1>r, <2>4, <3>1, ShapesFrom
  <2>7. Unknown \in 0..MaxUse BY <1>t DEF Unknown
  <2> QED BY <1>2, <2>1, <2>2, <2>3, <2>4, <2>5, <2>6, <2>7
<1>4. ASSUME NEW d \in Deliveries, NEW use \in 0..MaxUse, End(d, use)
      PROVE  Shapes'
  <2>1. UNCHANGED <<journal, spent, crashes, faults, unshown>> BY <1>4 DEF End
  <2>2. pc' \in [Deliveries -> Where] BY <1>4, <1>t DEF End, Go, Where
  <2>3. unshown' = [q \in Runs |-> unshown'[q]] BY <1>t, <2>1
  <2>4. \E h : Becomes(RunOf[d], h) BY <1>4, DeliveryLedger
  <2>5. CASE UNCHANGED buffer
    <3>1. Moved(RunOf[d], {}) BY <1>t, <2>1, <2>2, <2>3, <2>5 DEF Moved, Logged, Records
    <3> QED BY <1>b, <1>r, <2>4, <3>1, ShapesFrom
  <2>6. CASE Record(RunOf[d], Rec("receipt", d, use))
    <3>1. "receipt" \in Kinds BY DEF Kinds
    <3> QED BY <1>2, <2>1, <2>2, <2>3, <2>4, <2>6, <3>1
  <2> QED BY <1>4, <2>5, <2>6 DEF End
<1>5. ASSUME NEW d \in Deliveries, NEW use \in 1..MaxUse, Flushed(d, use)
      PROVE  Shapes'
  <2>1. Commit(RunOf[d]) /\ UNCHANGED <<unshown, crashes, faults>> BY <1>5 DEF Flushed
  <2>2. pc' \in [Deliveries -> Where] /\ spent' \in [Deliveries -> 0..MaxUse]
    <3>1. use \in 0..MaxUse BY <1>t
    <3>2. Land(d, use) /\ pc[d] \in {"source", "mark", "settle"} BY <1>5 DEF Flushed
    <3>3. \/ \E w \in Where : Go(d, w) /\ UNCHANGED spent
          \/ Go(d, "run") /\ spent' = [spent EXCEPT ![d] = use]
      BY <3>2 DEF Land, Where
    <3> QED BY <1>t, <3>1, <3>3 DEF Go, Where
  <2>3. Logged' /\ \A q \in Runs : Records(q)' = Records(q)
    BY <1>r, <1>t, <2>1, CommitStep
  <2>4. Moved(RunOf[d], {})
    <3>1. faults' \in 0..MaxFaults /\ crashes' \in 0..faults' BY <1>t, <2>1
    <3>2. unshown' = [q \in Runs |-> unshown'[q]] BY <1>t, <2>1
    <3> QED BY <1>r, <2>2, <2>3, <3>1, <3>2 DEF Moved
  <2> QED BY <1>5, <1>b, <1>r, <2>4, DeliveryLedger, ShapesFrom
<1>6. ASSUME NEW d \in Deliveries, NEW how \in {"rejected", "cancelled", "lost"},
             FlushFails(d, how)
      PROVE  Shapes'
  <2> DEFINE r == RunOf[d]
  <2>1. UNCHANGED <<unshown, crashes, spent>> BY <1>6 DEF FlushFails
  <2>2. pc' \in [Deliveries -> Where] /\ faults' \in 0..MaxFaults /\ crashes' \in 0..faults'
    BY <1>6, <1>t DEF FlushFails, Go, Where
  <2>3. /\ Logged' /\ Records(r)' \subseteq Records(r)
        /\ \A q \in Runs \ {r} : Records(q)' = Records(q)
    <3>1. CASE Commit(r) BY <1>r, <1>t, <3>1, CommitStep
    <3>2. CASE UNCHANGED journal /\ buffer' = [buffer EXCEPT ![r] = <<>>]
      BY <1>r, <1>t, <3>2, LoseStep DEF Records, Durable
    <3>3. CASE UNCHANGED <<journal, buffer>> BY <1>t, <3>3 DEF Logged, Records
    <3> QED BY <1>6, <3>1, <3>2, <3>3 DEF FlushFails
  <2>4. Moved(r, {}) BY <1>t, <2>1, <2>2, <2>3 DEF Moved
  <2>5. \E h : Becomes(r, h) BY <1>6, DeliveryLedger
  <2> QED BY <1>b, <1>r, <2>4, <2>5, ShapesFrom
<1>7. CASE Crash
  <2>1. /\ Logged' /\ \A q \in Runs : Records(q)' \subseteq Records(q)
    BY <1>7, <1>t, CrashStep
  <2>2. \A q \in Runs : \A x \in Records(q)' : RunOf[x.d] = q BY <2>1, ShapesEq
  <2>3. /\ unshown' = [q \in Runs |-> unshown'[q]]
        /\ ledger' = [q \in Runs |-> ledger'[q]]
        /\ \A q \in Runs : ledger'[q] = Closed
        /\ pc' \in [Deliveries -> Where] /\ spent' = spent
        /\ faults' \in 0..MaxFaults /\ crashes' \in 0..faults'
    BY <1>7, <1>t DEF Crash, Where
  <2> QED BY <1>b, <1>t, <2>1, <2>2, <2>3 DEF Shapes, TypeOK, Logged, BudgetShape
<1>8. CASE UNCHANGED vars
  BY <1>8, Zenon DEF vars, Shapes, TypeOK, Records, Health
<1> QED BY <1>1, <1>3, <1>4, <1>5, <1>6, <1>7, <1>8, LedgerCases

-----------------------------------------------------------------------------
(* Nothing is under way without a ledger.                                   *)

(* A step of a delivery, seen from the other deliveries and runs: only its  *)
(* own position and its own run's buffer, list of usage and ledger change.  *)
LEMMA DeliveryFrame ==
    ASSUME Shapes, ClosedIsQuiet, NEW d \in Deliveries,
           \/ Begin(d) \/ RecordSource(d) \/ Mark(d) \/ Abandon(d) \/ ShowUsage(d)
           \/ \E use \in 0..MaxUse : End(d, use)
           \/ \E use \in 1..MaxUse : Flushed(d, use)
           \/ \E how \in {"rejected", "cancelled", "lost"} : FlushFails(d, how)
    PROVE  /\ \A e \in Deliveries \ {d} : pc'[e] = pc[e] /\ spent'[e] = spent[e]
           /\ \A q \in Runs \ {RunOf[d]} :
                 /\ ledger'[q] = ledger[q] /\ unshown'[q] = unshown[q]
                 /\ buffer'[q] = buffer[q] /\ journal'[q] = journal[q]
           /\ Health(RunOf[d]) # "closed" /\ Health(RunOf[d])' # "closed"
<1> DEFINE r == RunOf[d]
<1>t. /\ pc \in [Deliveries -> Where] /\ spent \in [Deliveries -> 0..MaxUse]
      /\ Logged /\ unshown = [q \in Runs |-> unshown[q]]
      /\ r \in Runs
  BY ShapesEq, LedgerAssumption
<1>h. Health(r) # "closed"
  BY DEF ClosedIsQuiet, Begin, RecordSource, Mark, Abandon, ShowUsage, End, Flushed, FlushFails,
         Ended, Health
<1>1. \A e \in Deliveries \ {d} : pc'[e] = pc[e] /\ spent'[e] = spent[e]
  <2>1. \/ UNCHANGED <<pc, spent>>
        \/ \E w : Go(d, w) /\ UNCHANGED spent
        \/ \E use : Go(d, "run") /\ spent' = [spent EXCEPT ![d] = use]
    BY DEF Begin, RecordSource, Mark, Abandon, ShowUsage, End, Flushed, Land, FlushFails
  <2> QED BY <1>t, <2>1 DEF Go
<1>2. \A q \in Runs \ {r} : buffer'[q] = buffer[q] /\ journal'[q] = journal[q]
  <2>1. \/ UNCHANGED <<buffer, journal>>
        \/ \E x : Record(r, x) /\ UNCHANGED journal
        \/ Commit(r)
        \/ buffer' = [buffer EXCEPT ![r] = <<>>] /\ UNCHANGED journal
    BY DEF Begin, RecordSource, Mark, Abandon, ShowUsage, End, Flushed, FlushFails
  <2> QED BY <1>t, <2>1 DEF Logged, Record, Commit
<1>3. \A q \in Runs \ {r} : unshown'[q] = unshown[q]
  BY <1>t DEF Begin, RecordSource, Mark, Abandon, ShowUsage, End, Flushed, FlushFails
<1>4. \/ UNCHANGED ledger
      \/ \E h : Becomes(r, h) /\ "closed" \notin h
  <2>1. CASE RecordSource(d) \/ Mark(d) \/ ShowUsage(d)
    BY <2>1 DEF RecordSource, Mark, ShowUsage
  <2>2. CASE Begin(d)
    <3>1. Becomes(r, {"ok"}) /\ "closed" \notin {"ok"} BY <2>2, DeliveryLedger
    <3> QED BY <3>1
  <2>3. CASE \/ Abandon(d) \/ \E use \in 0..MaxUse : End(d, use)
             \/ \E use \in 1..MaxUse : Flushed(d, use)
    <3>1. Becomes(r, {Health(r)}) /\ "closed" \notin {Health(r)} BY <1>h, <2>3, DeliveryLedger
    <3> QED BY <3>1
  <2>4. CASE \E how \in {"rejected", "cancelled", "lost"} : FlushFails(d, how)
    <3>1. PICK how \in {"rejected", "cancelled", "lost"} : FlushFails(d, how) BY <2>4
    <3>2. Becomes(r, IF how = "lost" THEN {"lost"} ELSE {"failed"}) BY <3>1, DeliveryLedger
    <3> QED BY <3>2
  <2> QED BY <2>1, <2>2, <2>3, <2>4
<1>5. Health(r)' # "closed" BY <1>h, <1>4 DEF Becomes, Health
<1> QED BY <1>1, <1>2, <1>3, <1>4, <1>5, <1>h DEF Becomes

LEMMA QuietStep ==
    ASSUME Shapes, ClosedIsQuiet, [Next]_vars
    PROVE  ClosedIsQuiet'
<1>t. Logged /\ unshown = [q \in Runs |-> unshown[q]] BY ShapesEq
<1>r. \A d \in Deliveries : RunOf[d] \in Runs BY LedgerAssumption
<1>1. ASSUME NEW d \in Deliveries,
             \/ Begin(d) \/ RecordSource(d) \/ Mark(d) \/ Abandon(d) \/ ShowUsage(d)
             \/ \E use \in 0..MaxUse : End(d, use)
             \/ \E use \in 1..MaxUse : Flushed(d, use)
             \/ \E how \in {"rejected", "cancelled", "lost"} : FlushFails(d, how)
      PROVE  ClosedIsQuiet'
  BY <1>1, <1>r, DeliveryFrame DEF ClosedIsQuiet, Health
<1>2. ASSUME NEW r \in Runs, Open(r) \/ Consume(r)
      PROVE  ClosedIsQuiet'
  <2>1. /\ Becomes(r, {"ok"}) /\ UNCHANGED <<pc, buffer>>
        /\ \A q \in Runs \ {r} : unshown'[q] = unshown[q]
    BY <1>2, <1>t, RunLedger DEF Open, Consume
  <2> QED BY <1>r, <2>1 DEF ClosedIsQuiet, Health, Becomes
<1>3. ASSUME NEW r \in Runs, Save(r)
      PROVE  ClosedIsQuiet'
  <2>1. /\ UNCHANGED <<ledger, pc, unshown>>
        /\ buffer'[r] = <<>> /\ \A q \in Runs \ {r} : buffer'[q] = buffer[q]
    BY <1>3, <1>t, CommitStep DEF Save, SaveEnvelope
  <2> QED BY <2>1 DEF ClosedIsQuiet, Health
<1>4. ASSUME NEW r \in Runs, Close(r)
      PROVE  ClosedIsQuiet'
  <2>1. Becomes(r, {"closed"}) /\ UNCHANGED pc /\ Quiet(r) BY <1>4, RunLedger DEF Close
  <2>2. unshown'[r] = {} /\ \A q \in Runs \ {r} : unshown'[q] = unshown[q]
    BY <1>4, <1>t DEF Close
  <2>3. buffer'[r] = <<>> /\ \A q \in Runs \ {r} : buffer'[q] = buffer[q]
    BY <1>4, <1>t, CommitStep DEF Close, SaveEnvelope
  <2> QED BY <1>r, <2>1, <2>2, <2>3 DEF ClosedIsQuiet, Health, Becomes, Quiet, Calls
<1>5. CASE Crash
  <2>1. /\ \A d \in Deliveries : pc'[d] \in Ended
        /\ \A r \in Runs : buffer'[r] = <<>> /\ unshown'[r] = {}
    BY <1>5 DEF Crash, Ended
  <2> QED BY <2>1 DEF ClosedIsQuiet
<1>6. CASE UNCHANGED vars BY <1>6 DEF vars, ClosedIsQuiet, Health
<1> QED BY <1>1, <1>2, <1>3, <1>4, <1>5, <1>6, LedgerCases

-----------------------------------------------------------------------------
(* The records after each step of a delivery.                               *)

Adds(r, x) == Durable(r)' = Durable(r) /\ Records(r)' = Records(r) \cup {x}
Keeps(r) == Durable(r)' = Durable(r) /\ Records(r)' = Records(r)

LEMMA DeliveryRecords ==
    ASSUME Shapes, ClosedIsQuiet, NEW d \in Deliveries
    PROVE  /\ Begin(d) => Adds(RunOf[d], Rec("intent", d, Unknown))
           /\ RecordSource(d) => Adds(RunOf[d], Rec("source", d, Unknown))
           /\ Mark(d) => Adds(RunOf[d], Rec("started", d, Unknown))
           /\ ShowUsage(d) => Adds(RunOf[d], Rec("usage", d, Unknown))
           /\ Abandon(d) => IF Health(RunOf[d]) = "ok"
                            THEN Adds(RunOf[d], Rec("abandoned", d, Unknown))
                            ELSE Keeps(RunOf[d])
           /\ \A use \in 0..MaxUse : End(d, use) =>
                 IF Health(RunOf[d]) = "ok" THEN Adds(RunOf[d], Rec("receipt", d, use))
                 ELSE Keeps(RunOf[d])
           /\ \A use \in 1..MaxUse : Flushed(d, use) =>
                 Records(RunOf[d])' = Records(RunOf[d]) /\ Durable(RunOf[d])' = Records(RunOf[d])
           /\ \A how \in {"rejected", "cancelled", "lost"} : FlushFails(d, how) =>
                 /\ Records(RunOf[d])' \subseteq Records(RunOf[d])
                 /\ Durable(RunOf[d]) \subseteq Durable(RunOf[d])'
                 /\ Durable(RunOf[d])' \subseteq Records(RunOf[d])'
<1> DEFINE r == RunOf[d]
<1>t. Logged /\ r \in Runs /\ 0 \in 0..MaxUse BY ShapesEq, LedgerAssumption
<1>k. {"intent", "source", "started", "abandoned", "receipt", "usage"} \subseteq Kinds
  BY DEF Kinds
<1>1. ASSUME NEW kind \in Kinds, NEW use \in 0..MaxUse,
             Record(r, Rec(kind, d, use)), UNCHANGED journal
      PROVE  Adds(r, Rec(kind, d, use))
  <2>1. Rec(kind, d, use) \in Entry BY NewEntry
  <2> QED BY <1>1, <1>t, <2>1, RecordStep DEF Adds
<1>2. ASSUME UNCHANGED <<journal, buffer>>
      PROVE  Keeps(r)
  BY <1>2 DEF Keeps, Records, Durable
<1>3. Begin(d) => Adds(r, Rec("intent", d, Unknown))
  BY <1>1, <1>k, <1>t DEF Begin, Unknown
<1>4. RecordSource(d) => Adds(r, Rec("source", d, Unknown))
  BY <1>1, <1>k, <1>t DEF RecordSource, Unknown
<1>5. Mark(d) => Adds(r, Rec("started", d, Unknown)) BY <1>1, <1>k, <1>t DEF Mark, Unknown
<1>6. ShowUsage(d) => Adds(r, Rec("usage", d, Unknown))
  BY <1>1, <1>k, <1>t DEF ShowUsage, Unknown
<1>7. Abandon(d) => IF Health(r) = "ok" THEN Adds(r, Rec("abandoned", d, Unknown)) ELSE Keeps(r)
  BY <1>1, <1>2, <1>k, <1>t DEF Abandon, Unknown, Health
<1>8. \A use \in 0..MaxUse : End(d, use) =>
         IF Health(r) = "ok" THEN Adds(r, Rec("receipt", d, use)) ELSE Keeps(r)
  BY <1>1, <1>2, <1>k, <1>t DEF End, Health
<1>9. \A use \in 1..MaxUse : Flushed(d, use) =>
         Records(r)' = Records(r) /\ Durable(r)' = Records(r)
  BY <1>t, CommitStep DEF Flushed
<1>10. ASSUME NEW how \in {"rejected", "cancelled", "lost"}, FlushFails(d, how)
       PROVE  /\ Records(r)' \subseteq Records(r)
              /\ Durable(r) \subseteq Durable(r)' /\ Durable(r)' \subseteq Records(r)'
  <2>1. CASE Commit(r) BY <1>t, <2>1, CommitStep DEF Records, Durable
  <2>2. CASE UNCHANGED journal /\ buffer' = [buffer EXCEPT ![r] = <<>>]
    BY <1>t, <2>2, LoseStep DEF Records, Durable
  <2>3. CASE UNCHANGED <<journal, buffer>> BY <2>3 DEF Records, Durable
  <2> QED BY <1>10, <2>1, <2>2, <2>3 DEF FlushFails
<1> QED BY <1>3, <1>4, <1>5, <1>6, <1>7, <1>8, <1>9, <1>10

(* Where a delivery goes.                                                   *)
LEMMA DeliveryMoves ==
    ASSUME Shapes, NEW d \in Deliveries
    PROVE  /\ Begin(d) => pc[d] = "new" /\ pc'[d] = "wait" /\ spent' = spent
           /\ RecordSource(d) => pc[d] = "wait" /\ pc'[d] = "source" /\ spent' = spent
           /\ Mark(d) => pc[d] = "wait" /\ pc'[d] = "mark" /\ spent' = spent
           /\ Abandon(d) => pc[d] \in {"wait", "stop"} /\ pc'[d] = "done" /\ spent' = spent
           /\ ShowUsage(d) => pc' = pc /\ spent' = spent
           /\ \A use \in 0..MaxUse : End(d, use) =>
                 /\ pc[d] = "run" /\ spent' = spent /\ use \in {spent[d], Unknown}
                 /\ pc'[d] = IF Health(RunOf[d]) = "ok" THEN "settle" ELSE "done"
           /\ \A use \in 1..MaxUse : Flushed(d, use) =>
                 \/ pc[d] = "source" /\ pc'[d] = "wait" /\ spent' = spent
                 \/ pc[d] = "mark" /\ pc'[d] = "stop" /\ spent' = spent
                 \/ pc[d] = "mark" /\ pc'[d] = "run" /\ spent'[d] = use
                 \/ pc[d] = "settle" /\ pc'[d] = "done" /\ spent' = spent
           /\ \A how \in {"rejected", "cancelled", "lost"} : FlushFails(d, how) =>
                 /\ pc[d] \in {"source", "mark", "settle"} /\ pc'[d] = "done"
                 /\ spent' = spent
<1>t. pc \in [Deliveries -> Where] /\ spent \in [Deliveries -> 0..MaxUse] BY ShapesEq
<1>1. \A w : Go(d, w) => pc'[d] = w BY <1>t DEF Go
<1>2. ASSUME NEW use \in 1..MaxUse, Flushed(d, use)
      PROVE  \/ pc[d] = "source" /\ pc'[d] = "wait" /\ spent' = spent
             \/ pc[d] = "mark" /\ pc'[d] = "stop" /\ spent' = spent
             \/ pc[d] = "mark" /\ pc'[d] = "run" /\ spent'[d] = use
             \/ pc[d] = "settle" /\ pc'[d] = "done" /\ spent' = spent
  <2>1. CASE pc[d] = "source" BY <1>1, <1>2, <2>1 DEF Flushed, Land
  <2>2. CASE pc[d] = "mark" BY <1>1, <1>2, <1>t, <2>2 DEF Flushed, Land
  <2>3. CASE pc[d] = "settle" BY <1>1, <1>2, <2>3 DEF Flushed, Land
  <2> QED BY <1>2, <2>1, <2>2, <2>3 DEF Flushed
<1>3. Begin(d) => pc[d] = "new" /\ pc'[d] = "wait" /\ spent' = spent BY <1>1 DEF Begin
<1>4. RecordSource(d) => pc[d] = "wait" /\ pc'[d] = "source" /\ spent' = spent
  BY <1>1 DEF RecordSource
<1>5. Mark(d) => pc[d] = "wait" /\ pc'[d] = "mark" /\ spent' = spent BY <1>1 DEF Mark
<1>6. Abandon(d) => pc[d] \in {"wait", "stop"} /\ pc'[d] = "done" /\ spent' = spent
  BY <1>1 DEF Abandon
<1>7. ShowUsage(d) => pc' = pc /\ spent' = spent BY DEF ShowUsage
<1>8. \A use \in 0..MaxUse : End(d, use) =>
         /\ pc[d] = "run" /\ spent' = spent /\ use \in {spent[d], Unknown}
         /\ pc'[d] = IF Health(RunOf[d]) = "ok" THEN "settle" ELSE "done"
  BY <1>1 DEF End, Health
<1>9. \A how \in {"rejected", "cancelled", "lost"} : FlushFails(d, how) =>
         pc[d] \in {"source", "mark", "settle"} /\ pc'[d] = "done" /\ spent' = spent
  BY <1>1 DEF FlushFails
<1> QED BY <1>2, <1>3, <1>4, <1>5, <1>6, <1>7, <1>8, <1>9

-----------------------------------------------------------------------------
(* The invariants of the records and of the invocations.                    *)

(* The operations of a run leave its records as they are.                   *)
LEMMA RunRecords ==
    ASSUME Shapes, NEW r \in Runs, Open(r) \/ Consume(r) \/ Save(r) \/ Close(r)
    PROVE  /\ \A q \in Runs : Records(q)' = Records(q)
           /\ UNCHANGED <<pc, spent>>
<1>t. Logged BY ShapesEq
<1>1. CASE Commit(r)
  BY <1>1, <1>t, CommitStep DEF Open, Consume, Save, Close
<1>2. CASE UNCHANGED <<journal, buffer>>
  BY <1>2 DEF Records, Open, Consume, Save, Close
<1> QED BY <1>1, <1>2 DEF Open, Consume, Save, SaveEnvelope, Close

LEMMA OneFlushStep ==
    ASSUME Shapes, ClosedIsQuiet, OneFlush, [Next]_vars
    PROVE  OneFlush'
<1>r. \A d \in Deliveries : RunOf[d] \in Runs BY LedgerAssumption
<1>1. ASSUME NEW d \in Deliveries,
             \/ Begin(d) \/ RecordSource(d) \/ Mark(d) \/ Abandon(d) \/ ShowUsage(d)
             \/ \E use \in 0..MaxUse : End(d, use)
             \/ \E use \in 1..MaxUse : Flushed(d, use)
             \/ \E how \in {"rejected", "cancelled", "lost"} : FlushFails(d, how)
      PROVE  OneFlush'
  <2>1. /\ \A e \in Deliveries \ {d} : pc'[e] = pc[e]
        /\ \A q \in Runs \ {RunOf[d]} : Health(q)' = Health(q)
    BY <1>1, DeliveryFrame DEF Health
  <2>2. \/ pc'[d] \notin Flushing
        \/ pc'[d] = pc[d]
        \/ ~ Locked(RunOf[d]) /\ Health(RunOf[d]) = "ok"
    BY <1>1, DeliveryMoves DEF Begin, RecordSource, Mark, ShowUsage, End, Flushing, Health
  <2>3. \/ Health(RunOf[d])' = Health(RunOf[d])
        \/ pc[d] \in Flushing /\ pc'[d] \notin Flushing
    <3>1. CASE \E how \in {"rejected", "cancelled", "lost"} : FlushFails(d, how)
      BY <3>1, DeliveryMoves DEF Flushing
    <3>2. CASE RecordSource(d) \/ Mark(d) \/ ShowUsage(d)
      BY <3>2 DEF RecordSource, Mark, ShowUsage, Health
    <3>3. CASE \/ Begin(d) \/ Abandon(d)
               \/ \E use \in 0..MaxUse : End(d, use)
               \/ \E use \in 1..MaxUse : Flushed(d, use)
      BY <3>3, DeliveryLedger DEF Becomes, Health
    <3> QED BY <1>1, <3>1, <3>2, <3>3
  <2>4. \A e, f \in Deliveries :
           (RunOf[e] = RunOf[f] /\ pc'[e] \in Flushing /\ pc'[f] \in Flushing) => e = f
    BY <2>1, <2>2 DEF OneFlush, Locked, Calls, Flushing
  <2>5. ASSUME NEW e \in Deliveries, pc'[e] \in Flushing
        PROVE  Health(RunOf[e])' = "ok"
    <3>1. CASE e = d BY <2>2, <2>3, <2>5, <3>1 DEF OneFlush
    <3>2. CASE e # d
      BY <1>r, <2>1, <2>3, <2>5, <3>2 DEF OneFlush
    <3> QED BY <3>1, <3>2
  <2> QED BY <2>4, <2>5 DEF OneFlush
<1>2. ASSUME NEW r \in Runs, Open(r) \/ Consume(r) \/ Save(r) \/ Close(r)
      PROVE  OneFlush'
  <2>1. pc' = pc BY <1>2, RunRecords
  <2>2. \A q \in Runs \ {r} : Health(q)' = Health(q)
    BY <1>2, RunLedger DEF Becomes, Health, Save
  <2>3. Health(r)' = "ok" \/ Health(r)' = Health(r) \/ Quiet(r)
    BY <1>2, RunLedger DEF Becomes, Health, Save, Close
  <2> QED BY <1>r, <2>1, <2>2, <2>3 DEF OneFlush, Quiet, Calls, Flushing, Ended
<1>3. CASE Crash
  <2>1. \A d \in Deliveries : pc'[d] \notin Flushing BY <1>3 DEF Crash, Flushing
  <2> QED BY <2>1 DEF OneFlush
<1>4. CASE UNCHANGED vars BY <1>4 DEF vars, OneFlush, Health
<1> QED BY <1>1, <1>2, <1>3, <1>4, LedgerCases

(* The records of the run of a delivery, after a step of that delivery.     *)
LEMMA RecordFrame ==
    ASSUME Shapes, ClosedIsQuiet, NEW d \in Deliveries,
           \/ Begin(d) \/ RecordSource(d) \/ Mark(d) \/ Abandon(d) \/ ShowUsage(d)
           \/ \E use \in 0..MaxUse : End(d, use)
           \/ \E use \in 1..MaxUse : Flushed(d, use)
           \/ \E how \in {"rejected", "cancelled", "lost"} : FlushFails(d, how)
    PROVE  /\ \A q \in Runs \ {RunOf[d]} : Keeps(q)
           /\ \A q \in Runs : Durable(q) \subseteq Durable(q)'
           /\ \A x \in Records(RunOf[d])' : x \in Records(RunOf[d]) \/ x.d = d
           /\ pc[d] \in Flushing \/ Records(RunOf[d]) \subseteq Records(RunOf[d])'
           /\ \A x \in Records(RunOf[d])' :
                 \/ x \in Records(RunOf[d])
                 \/ x.kind = "abandoned" /\ Abandon(d)
                 \/ x.kind = "receipt" /\ End(d, x.use) /\ x.use \in 0..MaxUse
                 \/ x.kind \notin {"abandoned", "receipt"}
<1> DEFINE r == RunOf[d]
<1>r. r \in Runs BY LedgerAssumption
<1>1. \A q \in Runs \ {r} : Keeps(q) BY DeliveryFrame DEF Keeps, Records, Durable
<1>2. /\ \A kind \in Kinds, use \in 0..MaxUse :
            /\ Rec(kind, d, use).d = d /\ Rec(kind, d, use).kind = kind
            /\ Rec(kind, d, use).use = use
      /\ Unknown \in 0..MaxUse
      /\ {"intent", "source", "started", "abandoned", "receipt", "usage"} \subseteq Kinds
  BY NewEntry, LedgerAssumption DEF Unknown, Kinds
<1>3. \/ Keeps(r)
      \/ \E kind \in Kinds \ {"abandoned", "receipt"} : Adds(r, Rec(kind, d, Unknown))
      \/ Abandon(d) /\ Adds(r, Rec("abandoned", d, Unknown))
      \/ \E use \in 0..MaxUse : End(d, use) /\ Adds(r, Rec("receipt", d, use))
      \/ /\ Records(r)' \subseteq Records(r) /\ Durable(r) \subseteq Durable(r)'
         /\ pc[d] \in Flushing
  <2>1. CASE Begin(d) BY <1>2, <2>1, DeliveryRecords
  <2>2. CASE RecordSource(d) BY <1>2, <2>2, DeliveryRecords
  <2>3. CASE Mark(d) BY <1>2, <2>3, DeliveryRecords
  <2>4. CASE ShowUsage(d) BY <1>2, <2>4, DeliveryRecords
  <2>5. CASE Abandon(d) BY <2>5, DeliveryRecords
  <2>6. CASE \E use \in 0..MaxUse : End(d, use) BY <2>6, DeliveryRecords
  <2>7. CASE \E use \in 1..MaxUse : Flushed(d, use)
    <3>1. Records(r)' = Records(r) /\ Durable(r)' = Records(r) BY <2>7, DeliveryRecords
    <3>2. pc[d] \in Flushing BY <2>7 DEF Flushed, Flushing
    <3> QED BY <3>1, <3>2 DEF Records, Durable
  <2>8. CASE \E how \in {"rejected", "cancelled", "lost"} : FlushFails(d, how)
    <3>1. Records(r)' \subseteq Records(r) /\ Durable(r) \subseteq Durable(r)'
      BY <2>8, DeliveryRecords
    <3>2. pc[d] \in Flushing BY <2>8 DEF FlushFails, Flushing
    <3> QED BY <3>1, <3>2
  <2> QED BY <2>1, <2>2, <2>3, <2>4, <2>5, <2>6, <2>7, <2>8
<1>4. Durable(r) \subseteq Durable(r)' BY <1>3 DEF Adds, Keeps
<1>5. \A x \in Records(r)' : x \in Records(r) \/ x.d = d BY <1>2, <1>3 DEF Adds, Keeps
<1>6. pc[d] \in Flushing \/ Records(r) \subseteq Records(r)' BY <1>3 DEF Adds, Keeps
<1>7. \A x \in Records(r)' :
         \/ x \in Records(r)
         \/ x.kind = "abandoned" /\ Abandon(d)
         \/ x.kind = "receipt" /\ End(d, x.use) /\ x.use \in 0..MaxUse
         \/ x.kind \notin {"abandoned", "receipt"}
  <2>1. CASE \E kind \in Kinds \ {"abandoned", "receipt"} : Adds(r, Rec(kind, d, Unknown))
    BY <1>2, <2>1 DEF Adds
  <2>2. CASE Abandon(d) /\ Adds(r, Rec("abandoned", d, Unknown)) BY <1>2, <2>2 DEF Adds
  <2>3. CASE \E use \in 0..MaxUse : End(d, use) /\ Adds(r, Rec("receipt", d, use))
    <3>1. PICK use \in 0..MaxUse : End(d, use) /\ Adds(r, Rec("receipt", d, use)) BY <2>3
    <3>2. Rec("receipt", d, use).kind = "receipt" /\ Rec("receipt", d, use).use = use
      BY <1>2
    <3> QED BY <3>1, <3>2 DEF Adds
  <2> QED BY <1>3, <2>1, <2>2, <2>3 DEF Keeps
<1> QED BY <1>1, <1>4, <1>5, <1>6, <1>7 DEF Keeps

(* What is in the journal or the buffer of a run stays there, but for the   *)
(* buffer of a run whose own flush fails and for a crash.                   *)
LEMMA DurableStays ==
    ASSUME Shapes, ClosedIsQuiet, [Next]_vars, NEW r \in Runs
    PROVE  Durable(r) \subseteq Durable(r)'
<1>t. Logged BY ShapesEq
<1>1. CASE \E q \in Runs : Open(q) \/ Consume(q) \/ Save(q) \/ Close(q)
  <2>1. PICK q \in Runs : Open(q) \/ Consume(q) \/ Save(q) \/ Close(q) BY <1>1
  <2>2. CASE Commit(q) BY <1>t, <2>2, CommitStep DEF Records, Durable
  <2>3. CASE UNCHANGED <<journal, buffer>> BY <2>3 DEF Durable
  <2> QED BY <2>1, <2>2, <2>3 DEF Open, Consume, Save, SaveEnvelope, Close
<1>2. CASE Crash BY <1>2, <1>t, CrashStep
<1>3. CASE UNCHANGED vars BY <1>3 DEF vars, Durable
<1>4. CASE \E d \in Deliveries :
             \/ Begin(d) \/ RecordSource(d) \/ Mark(d) \/ Abandon(d) \/ ShowUsage(d)
             \/ \E use \in 0..MaxUse : End(d, use)
             \/ \E use \in 1..MaxUse : Flushed(d, use)
             \/ \E how \in {"rejected", "cancelled", "lost"} : FlushFails(d, how)
  BY <1>4, RecordFrame
<1> QED BY <1>1, <1>2, <1>3, <1>4, LedgerCases

LEMMA InvokedStep ==
    ASSUME Shapes, ClosedIsQuiet, OneFlush, InvokedBehindMarker, [Next]_vars
    PROVE  InvokedBehindMarker'
<1>r. \A d \in Deliveries : RunOf[d] \in Runs BY LedgerAssumption
<1>d. \A r \in Runs : Durable(r) \subseteq Durable(r)' BY DurableStays
<1>s. \A r \in Runs : Durable(r) \subseteq Records(r) BY DEF Durable, Records
<1>1. ASSUME NEW d \in Deliveries,
             \/ Begin(d) \/ RecordSource(d) \/ Mark(d) \/ Abandon(d) \/ ShowUsage(d)
             \/ \E use \in 0..MaxUse : End(d, use)
             \/ \E use \in 1..MaxUse : Flushed(d, use)
             \/ \E how \in {"rejected", "cancelled", "lost"} : FlushFails(d, how)
      PROVE  InvokedBehindMarker'
  <2> SUFFICES ASSUME NEW e \in Deliveries
               PROVE  /\ spent'[e] # 0 => /\ pc'[e] \in {"run", "settle", "done"}
                                          /\ Has(Durable(RunOf[e])', "started", e)
                      /\ pc'[e] = "mark" => Has(Records(RunOf[e])', "started", e)
                      /\ Has(Records(RunOf[e])', "abandoned", e) =>
                            spent'[e] = 0 /\ pc'[e] = "done"
    BY DEF InvokedBehindMarker
  <2> DEFINE r == RunOf[e]
  <2>0. /\ spent[e] # 0 => /\ pc[e] \in {"run", "settle", "done"}
                           /\ Has(Durable(r), "started", e)
        /\ pc[e] = "mark" => Has(Records(r), "started", e)
        /\ Has(Records(r), "abandoned", e) => spent[e] = 0 /\ pc[e] = "done"
    BY DEF InvokedBehindMarker
  <2>1. Has(Durable(r), "started", e) => Has(Durable(r)', "started", e)
    BY <1>d, <1>r DEF Has
  <2>2. CASE e # d
    <3>1. pc'[e] = pc[e] /\ spent'[e] = spent[e] BY <1>1, <2>2, DeliveryFrame
    <3>2. Has(Records(r)', "abandoned", e) => Has(Records(r), "abandoned", e)
      BY <1>1, <1>r, <2>2, RecordFrame DEF Has, Keeps
    <3>3. pc[e] = "mark" => Records(r) \subseteq Records(r)'
      BY <1>1, <1>r, <2>2, RecordFrame DEF OneFlush, Flushing, Keeps
    <3>4. pc[e] = "mark" => Has(Records(r)', "started", e) BY <2>0, <3>3 DEF Has
    <3> QED BY <2>0, <2>1, <3>1, <3>2, <3>4
  <2>3. CASE e = d
    <3>1. ASSUME spent'[d] # 0
          PROVE  pc'[d] \in {"run", "settle", "done"} /\ Has(Durable(r)', "started", d)
      <4>1. CASE \E use \in 1..MaxUse : Flushed(d, use)
        <5>1. Durable(r)' = Records(r) BY <2>3, <4>1, DeliveryRecords
        <5> QED BY <2>0, <2>1, <2>3, <3>1, <4>1, <5>1, DeliveryMoves
      <4>2. CASE ~ \E use \in 1..MaxUse : Flushed(d, use)
        BY <1>1, <2>0, <2>1, <2>3, <3>1, <4>2, DeliveryMoves
      <4> QED BY <4>1, <4>2
    <3>2. ASSUME pc'[d] = "mark"
          PROVE  Has(Records(r)', "started", d)
      <4>1. CASE Mark(d)
        <5>1. Records(r)' = Records(r) \cup {Rec("started", d, Unknown)}
          BY <2>3, <4>1, DeliveryRecords DEF Adds
        <5>2. Rec("started", d, Unknown).kind = "started" /\ Rec("started", d, Unknown).d = d
          BY NewEntry, LedgerAssumption DEF Kinds, Unknown
        <5> QED BY <5>1, <5>2 DEF Has
      <4>2. CASE ShowUsage(d)
        <5>1. pc[d] = "mark" BY <3>2, <4>2, DeliveryMoves
        <5>2. Records(r) \subseteq Records(r)' BY <2>3, <4>2, DeliveryRecords DEF Adds
        <5> QED BY <2>0, <2>3, <5>1, <5>2 DEF Has
      <4> QED BY <1>1, <3>2, <4>1, <4>2, DeliveryMoves
    <3>3. ASSUME Has(Records(r)', "abandoned", d)
          PROVE  spent'[d] = 0 /\ pc'[d] = "done"
      <4>1. CASE Has(Records(r), "abandoned", d)
        BY <1>1, <2>0, <2>3, <4>1, DeliveryMoves
      <4>2. CASE ~ Has(Records(r), "abandoned", d)
        <5>1. Abandon(d) BY <1>1, <2>3, <3>3, <4>2, RecordFrame DEF Has
        <5> QED BY <2>0, <2>3, <5>1, DeliveryMoves
      <4> QED BY <4>1, <4>2
    <3> QED BY <2>3, <3>1, <3>2, <3>3
  <2> QED BY <2>2, <2>3
<1>2. ASSUME NEW q \in Runs, Open(q) \/ Consume(q) \/ Save(q) \/ Close(q)
      PROVE  InvokedBehindMarker'
  BY <1>2, <1>d, <1>r, RunRecords DEF InvokedBehindMarker, Has
<1>3. CASE Crash
  <2>1. \A q \in Runs : Records(q)' \subseteq Records(q)
    BY <1>3, ShapesEq, CrashStep
  <2>2. /\ spent' = spent
        /\ \A d \in Deliveries : pc'[d] = IF pc[d] = "new" THEN "new" ELSE "done"
    BY <1>3 DEF Crash
  <2> QED BY <1>d, <1>r, <2>1, <2>2 DEF InvokedBehindMarker, Has
<1>4. CASE UNCHANGED vars BY <1>4 DEF vars, InvokedBehindMarker, Has, Durable, Records
<1> QED BY <1>1, <1>2, <1>3, <1>4, LedgerCases

LEMMA HonestStep ==
    ASSUME Shapes, ClosedIsQuiet, InvokedBehindMarker, ReceiptsHonest, [Next]_vars
    PROVE  ReceiptsHonest'
<1>r. \A d \in Deliveries : RunOf[d] \in Runs BY LedgerAssumption
<1>o. \A r \in Runs : \A x \in Records(r) : RunOf[x.d] = r BY ShapesEq
<1>1. ASSUME NEW d \in Deliveries,
             \/ Begin(d) \/ RecordSource(d) \/ Mark(d) \/ Abandon(d) \/ ShowUsage(d)
             \/ \E use \in 0..MaxUse : End(d, use)
             \/ \E use \in 1..MaxUse : Flushed(d, use)
             \/ \E how \in {"rejected", "cancelled", "lost"} : FlushFails(d, how)
      PROVE  ReceiptsHonest'
  <2> SUFFICES ASSUME NEW r \in Runs, NEW x \in Records(r)', x.kind = "receipt"
               PROVE  x.use \in {spent'[x.d], Unknown}
    BY DEF ReceiptsHonest
  <2>1. CASE x \in Records(r)
    <3>1. x.use \in {spent[x.d], Unknown} BY <2>1 DEF ReceiptsHonest
    <3>2. spent[x.d] # 0 => spent'[x.d] = spent[x.d]
      <4>1. x.d \in Deliveries
        <5>1. Records(r) \subseteq Entry BY ShapesEq DEF Logged, Records, ToSet
        <5> QED BY <2>1, <5>1 DEF Entry
      <4>2. CASE x.d # d BY <1>1, <4>1, <4>2, DeliveryFrame
      <4>3. CASE x.d = d
        BY <1>1, <4>3, DeliveryMoves DEF InvokedBehindMarker
      <4> QED BY <4>2, <4>3
    <3> QED BY <3>1, <3>2 DEF Unknown
  <2>2. CASE x \notin Records(r)
    <3>1. /\ x.d = d /\ End(d, x.use) /\ x.use \in 0..MaxUse
      BY <1>1, <1>r, <2>2, RecordFrame DEF Keeps
    <3> QED BY <3>1, DeliveryMoves
  <2> QED BY <2>1, <2>2
<1>2. ASSUME NEW q \in Runs, Open(q) \/ Consume(q) \/ Save(q) \/ Close(q)
      PROVE  ReceiptsHonest'
  BY <1>2, RunRecords DEF ReceiptsHonest
<1>3. CASE Crash
  <2>1. \A q \in Runs : Records(q)' \subseteq Records(q)
    BY <1>3, ShapesEq, CrashStep
  <2>2. spent' = spent BY <1>3 DEF Crash
  <2> QED BY <2>1, <2>2 DEF ReceiptsHonest
<1>4. CASE UNCHANGED vars BY <1>4 DEF vars, ReceiptsHonest, Records
<1> QED BY <1>1, <1>2, <1>3, <1>4, LedgerCases

-----------------------------------------------------------------------------
(* What a resume makes of a journal, in terms of the set of its records.    *)

LEMMA OfHas ==
    ASSUME NEW log, NEW kind, NEW d \in Deliveries
    PROVE  d \in Of(log, kind) <=> Has(ToSet(log), kind, d)
BY DEF Of, Has, ToSet

LEMMA UseRecorded ==
    ASSUME NEW log, NEW d \in Of(log, "receipt")
    PROVE  \E x \in ToSet(log) : x.kind = "receipt" /\ x.d = d /\ x.use = UseIn(log, d)
<1>1. \E i \in DOMAIN log : log[i].kind = "receipt" /\ log[i].d = d BY DEF Of
<1> DEFINE i == CHOOSE i \in DOMAIN log : log[i].kind = "receipt" /\ log[i].d = d
<1>2. i \in DOMAIN log /\ log[i].kind = "receipt" /\ log[i].d = d BY <1>1
<1>3. UseIn(log, d) = log[i].use BY DEF UseIn
<1> QED BY <1>2, <1>3 DEF ToSet

LEMMA RecoverParts ==
    ASSUME NEW log
    PROVE  /\ DOMAIN Recover(log).receipts = Of(log, "receipt")
           /\ \A d \in Of(log, "receipt") : Recover(log).receipts[d] = UseIn(log, d)
           /\ Recover(log).started = (Of(log, "started") \ Of(log, "abandoned")) \ Of(log, "receipt")
           /\ Recover(log).count = Cardinality(Accounting(log))
           /\ Unresolved(log) = Recover(log).started
                                \cup {d \in Of(log, "receipt") : UseIn(log, d) = Unknown}
<1>1. Recover(log).receipts = [d \in Of(log, "receipt") |-> UseIn(log, d)] BY DEF Recover
<1>2. Recover(log).started = (Of(log, "started") \ Of(log, "abandoned")) \ Of(log, "receipt")
  BY DEF Recover
<1>3. Recover(log).count = Cardinality(Accounting(log)) BY DEF Recover
<1>4. Unresolved(log) = Recover(log).started
         \cup {d \in DOMAIN Recover(log).receipts : Recover(log).receipts[d] = Unknown}
  BY DEF Unresolved
<1> HIDE DEF Recover
<1> QED BY <1>1, <1>2, <1>3, <1>4

(* A budget that adopts or accepts a journal knows all that it says.        *)
Knows(r) ==
    /\ \A d \in Of(journal[r], "receipt") :
          UseIn(journal[r], d) # Unknown => d \in DOMAIN budget'.charged
    /\ Unresolved(journal[r]) \subseteq budget'.unknown

LEMMA OpenBudget ==
    ASSUME Shapes, NEW r \in Runs, Open(r)
    PROVE  \/ journal[r] = <<>> /\ Durable(r) = {} /\ budget' = budget
           \/ /\ journal[r] # <<>> /\ Acceptable(journal[r])
              /\ budget = FreshBudget /\ budget' = Adopt(journal[r])
              /\ Knows(r) /\ budget'.owner = Owner(journal[r])
              /\ \A d \in DOMAIN budget'.charged :
                    /\ d \in Of(journal[r], "receipt")
                    /\ budget'.charged[d] = UseIn(journal[r], d)
                    /\ budget'.charged[d] # Unknown
           \/ /\ journal[r] # <<>> /\ Acceptable(journal[r])
              /\ budget' = budget /\ Knows(r) /\ budget'.owner = Owner(journal[r])
<1> DEFINE log == journal[r]
<1>1. CASE log = <<>>
  BY <1>1, EmptySet DEF Open, Durable
<1>2. CASE log # <<>> /\ budget = FreshBudget
  <2>1. Acceptable(log) /\ budget' = Adopt(log) BY <1>2 DEF Open
  <2> DEFINE uses == Recover(log).receipts
  <2> HIDE DEF log
  <2>2. DOMAIN uses = Of(log, "receipt") /\ \A d \in DOMAIN uses : uses[d] = UseIn(log, d)
    BY RecoverParts
  <2> HIDE DEF uses
  <2>3. budget' = [owner   |-> Owner(log),
                   charged |-> Restrict(uses, {d \in DOMAIN uses : uses[d] # Unknown}),
                   unknown |-> Unresolved(log)]
    BY <1>2, <2>1 DEF Adopt, uses
  <2>4. /\ budget'.owner = Owner(log) /\ budget'.unknown = Unresolved(log)
        /\ budget'.charged = [d \in {d \in DOMAIN uses : uses[d] # Unknown} |-> uses[d]]
    BY <2>3 DEF Restrict
  <2>5. /\ DOMAIN budget'.charged = {d \in Of(log, "receipt") : UseIn(log, d) # Unknown}
        /\ \A d \in DOMAIN budget'.charged : budget'.charged[d] = UseIn(log, d)
    BY <2>2, <2>4
  <2> QED BY <1>2, <2>1, <2>4, <2>5 DEF log, Knows
<1>3. CASE log # <<>> /\ budget # FreshBudget
  <2>1. /\ Acceptable(log) /\ BudgetAccepts(log) /\ budget' = budget
    BY <1>3 DEF Open, Adopt
  <2> QED BY <1>3, <2>1 DEF BudgetAccepts, Knows
<1> QED BY <1>1, <1>2, <1>3

LEMMA EmptyBudget ==
    budget = FreshBudget =>
        /\ DOMAIN budget.charged = {} /\ budget.unknown = {} /\ budget.owner = NoBudgetOwner
BY DEF FreshBudget

LEMMA ChargesStep ==
    ASSUME Shapes, ClosedIsQuiet, InvokedBehindMarker, ReceiptsHonest, ChargesHonest,
           [Next]_vars
    PROVE  ChargesHonest'
<1>d. DOMAIN budget.charged \subseteq Deliveries BY ShapesEq
<1>1. CASE UNCHANGED <<budget, spent>> BY <1>1 DEF ChargesHonest
<1>2. ASSUME NEW r \in Runs, Open(r)
      PROVE  ChargesHonest'
  <2>1. spent' = spent BY <1>2 DEF Open
  <2>2. CASE budget' = budget BY <1>1, <2>1, <2>2
  <2>3. CASE \A d \in DOMAIN budget'.charged :
                /\ d \in Of(journal[r], "receipt")
                /\ budget'.charged[d] = UseIn(journal[r], d) /\ budget'.charged[d] # Unknown
    <3>1. ASSUME NEW d \in DOMAIN budget'.charged
          PROVE  budget'.charged[d] = spent[d] /\ spent[d] # 0
      <4>1. PICK x \in ToSet(journal[r]) :
               x.kind = "receipt" /\ x.d = d /\ x.use = budget'.charged[d]
        BY <2>3, UseRecorded
      <4>2. x.use \in {spent[d], Unknown} BY <4>1 DEF ReceiptsHonest, Records
      <4> QED BY <2>3, <4>1, <4>2 DEF Unknown
    <3> QED BY <2>1, <3>1 DEF ChargesHonest
  <2> QED BY <1>2, <2>2, <2>3, OpenBudget
<1>3. ASSUME NEW d \in Deliveries, NEW use \in 1..MaxUse, Flushed(d, use)
      PROVE  ChargesHonest'
  <2>1. budget' = budget BY <1>3 DEF Flushed
  <2>2. \A e \in Deliveries : spent[e] # 0 => spent'[e] = spent[e]
    BY <1>3, DeliveryFrame, DeliveryMoves DEF InvokedBehindMarker
  <2> QED BY <1>d, <2>1, <2>2 DEF ChargesHonest
<1>4. ASSUME NEW d \in Deliveries, NEW use \in 0..MaxUse, End(d, use)
      PROVE  ChargesHonest'
  <2>1. spent' = spent /\ use \in {spent[d], Unknown} BY <1>4, DeliveryMoves
  <2>2. CASE budget' = budget BY <1>1, <2>1, <2>2
  <2>3. CASE budget' = Charge(d, use)
    BY <1>d, <2>1, <2>3, ChargeStep DEF ChargesHonest, Unknown
  <2> QED BY <1>4, <2>2, <2>3 DEF End
<1>5. ASSUME NEW d \in Deliveries, Begin(d)
      PROVE  ChargesHonest'
  <2>1. budget'.charged = budget.charged /\ spent' = spent
    BY <1>5, ShapesEq DEF Begin
  <2> QED BY <2>1 DEF ChargesHonest
<1>6. CASE Crash
  <2>1. DOMAIN budget'.charged = {} BY <1>6 DEF Crash, FreshBudget
  <2> QED BY <2>1 DEF ChargesHonest
<1> QED
  BY <1>1, <1>2, <1>3, <1>4, <1>5, <1>6, LedgerCases
     DEF Consume, Save, Close, RecordSource, Mark, Abandon, ShowUsage, FlushFails, vars

LEMMA AccountedStep ==
    ASSUME Shapes, ClosedIsQuiet, OneFlush, InvokedBehindMarker, EndedAccounted, [Next]_vars
    PROVE  EndedAccounted'
<1>r. \A d \in Deliveries : RunOf[d] \in Runs BY LedgerAssumption
<1> DEFINE In(d) == d \in DOMAIN budget.charged \cup budget.unknown
<1>1. ASSUME NEW r \in Runs, Open(r)
      PROVE  EndedAccounted'
  <2> SUFFICES ASSUME NEW d \in Deliveries, spent[d] # 0, pc[d] \in {"settle", "done"},
                      Health(RunOf[d])' \in {"ok", "lost"}
               PROVE  In(d)'
    BY <1>1 DEF EndedAccounted, Open
  <2>1. CASE RunOf[d] = r
    <3> DEFINE log == journal[r]
    <3>1. Has(Durable(r), "started", d) /\ ~ Has(Records(r), "abandoned", d)
      BY <2>1 DEF InvokedBehindMarker
    <3>2. d \in Of(log, "started") /\ d \notin Of(log, "abandoned")
      BY <3>1, OfHas DEF Durable, Records, Has
    <3>3. Durable(r) # {} BY <3>1 DEF Has
    <3>4. Knows(r) BY <1>1, <3>3, OpenBudget
    <3>5. CASE d \in Of(log, "receipt")
      BY <3>4, <3>5, RecoverParts DEF Knows
    <3>6. CASE d \notin Of(log, "receipt")
      BY <3>2, <3>4, <3>6, RecoverParts DEF Knows
    <3> QED BY <3>5, <3>6
  <2>2. CASE RunOf[d] # r
    <3>1. Health(RunOf[d])' = Health(RunOf[d])
      BY <1>1, <1>r, <2>2, RunLedger DEF Becomes, Health
    <3>2. In(d) BY <3>1 DEF EndedAccounted
    <3>3. budget' = budget BY <1>1, <3>2, OpenBudget, EmptyBudget
    <3> QED BY <3>2, <3>3
  <2> QED BY <2>1, <2>2
<1>2. ASSUME NEW d \in Deliveries,
             \/ Begin(d) \/ RecordSource(d) \/ Mark(d) \/ Abandon(d) \/ ShowUsage(d)
             \/ \E use \in 0..MaxUse : End(d, use)
             \/ \E use \in 1..MaxUse : Flushed(d, use)
             \/ \E how \in {"rejected", "cancelled", "lost"} : FlushFails(d, how)
      PROVE  EndedAccounted'
  <2>1. \A e \in Deliveries : In(e) => In(e)'
    <3>1. CASE Begin(d)
      <4>1. budget'.charged = budget.charged /\ budget'.unknown = budget.unknown
        BY <3>1, ShapesEq DEF Begin
      <4> QED BY <4>1
    <3>2. CASE \E use \in 0..MaxUse : End(d, use)
      <4>1. PICK use \in 0..MaxUse : End(d, use) BY <3>2
      <4>2. budget' = budget \/ budget' = Charge(d, use) BY <4>1 DEF End
      <4> QED BY <4>2, ChargeStep
    <3>3. CASE budget' = budget BY <3>3
    <3> QED
      BY <1>2, <3>1, <3>2, <3>3
         DEF RecordSource, Mark, Abandon, ShowUsage, Flushed, FlushFails
  <2> SUFFICES ASSUME NEW e \in Deliveries, spent'[e] # 0, pc'[e] \in {"settle", "done"},
                      Health(RunOf[e])' \in {"ok", "lost"}
               PROVE  In(e)'
    BY DEF EndedAccounted
  <2>2. Health(RunOf[e])' = Health(RunOf[e]) \/ Health(RunOf[e]) = "ok"
    <3>1. CASE RunOf[e] # RunOf[d] BY <1>2, <1>r, <3>1, DeliveryFrame DEF Health
    <3>2. CASE RunOf[e] = RunOf[d]
      <4>1. CASE \E how \in {"rejected", "cancelled", "lost"} : FlushFails(d, how)
        <5>1. pc[d] \in Flushing BY <4>1 DEF FlushFails, Flushing
        <5> QED BY <3>2, <5>1 DEF OneFlush
      <4>2. CASE RecordSource(d) \/ Mark(d) \/ ShowUsage(d)
        BY <4>2 DEF RecordSource, Mark, ShowUsage, Health
      <4>3. CASE \/ Begin(d) \/ Abandon(d)
                 \/ \E use \in 0..MaxUse : End(d, use)
                 \/ \E use \in 1..MaxUse : Flushed(d, use)
        BY <3>2, <4>3, DeliveryLedger DEF Becomes, Health
      <4> QED BY <1>2, <4>1, <4>2, <4>3
    <3> QED BY <3>1, <3>2
  <2>3. CASE e # d
    <3>1. pc'[e] = pc[e] /\ spent'[e] = spent[e] BY <1>2, <2>3, DeliveryFrame
    <3> QED BY <2>1, <2>2, <3>1 DEF EndedAccounted
  <2>4. CASE e = d
    <3>1. CASE \E use \in 0..MaxUse : End(d, use)
      <4>1. PICK use \in 0..MaxUse : End(d, use) BY <3>1
      <4>2. Health(RunOf[d])' = Health(RunOf[d])
        BY <4>1, DeliveryLedger DEF Becomes, Health
      <4>3. budget' = Charge(d, use) BY <2>4, <4>1, <4>2 DEF End, Health
      <4> QED BY <2>4, <4>3, ChargeStep
    <3>2. CASE ~ \E use \in 0..MaxUse : End(d, use)
      <4>1. pc[d] \in {"settle", "done"} /\ spent[d] # 0
        BY <1>2, <2>4, <3>2, DeliveryMoves DEF InvokedBehindMarker
      <4> QED BY <2>1, <2>2, <2>4, <4>1 DEF EndedAccounted
    <3> QED BY <3>1, <3>2
  <2> QED BY <2>3, <2>4
<1>3. ASSUME NEW r \in Runs, Consume(r) \/ Save(r) \/ Close(r)
      PROVE  EndedAccounted'
  <2>1. /\ UNCHANGED <<budget, pc, spent>>
    BY <1>3 DEF Consume, Save, Close
  <2>2. \A q \in Runs : Health(q)' = Health(q) \/ Health(q)' = "closed"
    BY <1>3, RunLedger DEF Becomes, Health, Save
  <2> QED BY <1>r, <2>1, <2>2 DEF EndedAccounted
<1>4. CASE Crash
  <2>1. \A q \in Runs : Health(q)' = "closed" BY <1>4 DEF Crash, Closed, Health
  <2> QED BY <1>r, <2>1 DEF EndedAccounted
<1>5. CASE UNCHANGED vars BY <1>5 DEF vars, EndedAccounted, Health
<1> QED BY <1>1, <1>2, <1>3, <1>4, <1>5, LedgerCases

LEMMA LedgerStart == Init => SpendInv
<1> SUFFICES ASSUME Init PROVE SpendInv
  OBVIOUS
<1> USE LedgerAssumption
<1>1. /\ \A r \in Runs : /\ Durable(r) = {} /\ Records(r) = {} /\ Health(r) = "closed"
                         /\ buffer[r] = <<>> /\ unshown[r] = {} /\ ledger[r] = Closed
      /\ \A d \in Deliveries : pc[d] = "new" /\ spent[d] = 0
  BY EmptySet DEF Init, Durable, Records, Health, Closed
<1>2. Shapes
  <2>1. BudgetShape BY EmptyBudget DEF Init, BudgetShape, FreshBudget, NoBudgetOwner
  <2>2. Logged BY DEF Init, Logged
  <2>3. /\ pc \in [Deliveries -> Where] /\ spent \in [Deliveries -> 0..MaxUse]
        /\ faults \in 0..MaxFaults /\ crashes \in 0..faults
        /\ ledger = [r \in Runs |-> ledger[r]] /\ unshown = [r \in Runs |-> unshown[r]]
    BY DEF Init, Where
  <2> QED BY <1>1, <2>1, <2>2, <2>3 DEF Shapes, TypeOK, Logged, BudgetShape
<1>3. ClosedIsQuiet BY <1>1 DEF ClosedIsQuiet, Ended
<1>4. OneFlush /\ InvokedBehindMarker BY <1>1 DEF OneFlush, InvokedBehindMarker, Flushing, Has
<1>5. ReceiptsHonest /\ EndedAccounted BY <1>1 DEF ReceiptsHonest, EndedAccounted
<1>6. ChargesHonest BY EmptyBudget DEF Init, ChargesHonest
<1> QED BY <1>2, <1>3, <1>4, <1>5, <1>6 DEF SpendInv

LEMMA SpendInvariant == Spec => []SpendInv
<1>1. Init => SpendInv BY LedgerStart
<1>2. SpendInv /\ [Next]_vars => SpendInv'
  BY ShapesStep, QuietStep, OneFlushStep, InvokedStep, HonestStep, ChargesStep, AccountedStep
     DEF SpendInv
<1> QED BY <1>1, <1>2, PTL DEF Spec

(* The positions of the deliveries, the health of the ledgers and the parts *)
(* of the budget.                                                           *)
THEOREM LedgerTypeCorrect == Spec => []TypeOK
<1>1. SpendInv => TypeOK BY DEF SpendInv, Shapes
<1> QED BY <1>1, SpendInvariant, PTL

(* No provider call is free: what a delivery used is charged or fences the  *)
(* budget, over crashes, failed flushes, closed and resumed runs (settle,   *)
(* _charge_receipt, _restore_unresolved_deliveries).                        *)
THEOREM NothingIsFree == Spec => []SpendAccounted
<1>1. SpendInv => SpendAccounted
  BY DEF SpendInv, ChargesHonest, EndedAccounted, SpendAccounted, Health
<1> QED BY <1>1, SpendInvariant, PTL

-----------------------------------------------------------------------------
(* The budget of a process and the records of its runs.                     *)

LEMMA RecordedStep ==
    ASSUME Shapes, ClosedIsQuiet, OneFlush, Recorded, [Next]_vars
    PROVE  Recorded'
<1>r. \A d \in Deliveries : RunOf[d] \in Runs BY LedgerAssumption
<1>1. ASSUME NEW d \in Deliveries,
             \/ Begin(d) \/ RecordSource(d) \/ Mark(d) \/ Abandon(d) \/ ShowUsage(d)
             \/ \E use \in 0..MaxUse : End(d, use)
             \/ \E use \in 1..MaxUse : Flushed(d, use)
             \/ \E how \in {"rejected", "cancelled", "lost"} : FlushFails(d, how)
      PROVE  Recorded'
  <2> SUFFICES ASSUME NEW e \in Deliveries, Health(RunOf[e])' = "ok"
               PROVE  /\ pc'[e] \notin Ended => Has(Records(RunOf[e])', "intent", e)
                      /\ pc'[e] = "settle" => Has(Records(RunOf[e])', "receipt", e)
    BY DEF Recorded
  <2>1. CASE RunOf[e] # RunOf[d]
    <3>1. pc'[e] = pc[e] /\ Health(RunOf[e])' = Health(RunOf[e])
      BY <1>1, <1>r, <2>1, DeliveryFrame DEF Health
    <3>2. Records(RunOf[e])' = Records(RunOf[e]) BY <1>1, <1>r, <2>1, RecordFrame DEF Keeps
    <3> QED BY <3>1, <3>2 DEF Recorded
  <2>2. CASE RunOf[e] = RunOf[d]
    <3> DEFINE r == RunOf[d]
    <3>1. ~ \E how \in {"rejected", "cancelled", "lost"} : FlushFails(d, how)
      <4>1. ASSUME NEW how \in {"rejected", "cancelled", "lost"}, FlushFails(d, how)
            PROVE  FALSE
        <5>1. Becomes(r, IF how = "lost" THEN {"lost"} ELSE {"failed"}) BY <4>1, DeliveryLedger
        <5> QED BY <2>2, <5>1 DEF Becomes, Health
      <4> QED BY <4>1
    <3>2. Health(r) = "ok"
      <4>1. CASE RecordSource(d) \/ Mark(d) \/ ShowUsage(d)
        BY <4>1 DEF RecordSource, Mark, ShowUsage, Health
      <4>2. CASE \/ Begin(d) \/ Abandon(d)
                 \/ \E use \in 0..MaxUse : End(d, use)
                 \/ \E use \in 1..MaxUse : Flushed(d, use)
        BY <2>2, <4>2, DeliveryLedger DEF Becomes, Health
      <4> QED BY <1>1, <3>1, <4>1, <4>2
    <3>3. Records(r) \subseteq Records(r)'
      <4>1. CASE \E use \in 1..MaxUse : Flushed(d, use) BY <4>1, DeliveryRecords
      <4>2. CASE ~ \E use \in 1..MaxUse : Flushed(d, use)
        <5>1. \/ Begin(d) \/ RecordSource(d) \/ Mark(d) \/ Abandon(d) \/ ShowUsage(d)
              \/ \E use \in 0..MaxUse : End(d, use)
          BY <1>1, <3>1, <4>2
        <5> QED BY <5>1, DeliveryRecords DEF Adds, Keeps
      <4> QED BY <4>1, <4>2
    <3>4. CASE e # d
      <4>1. pc'[e] = pc[e] BY <1>1, <3>4, DeliveryFrame
      <4> QED BY <2>2, <3>2, <3>3, <4>1 DEF Recorded, Has
    <3>5. CASE e = d
      <4>1. ASSUME pc'[d] \notin Ended
            PROVE  Has(Records(r)', "intent", d)
        <5>1. CASE Begin(d)
          <6>1. Rec("intent", d, Unknown).kind = "intent" /\ Rec("intent", d, Unknown).d = d
            BY DEF Rec
          <6> QED BY <5>1, <6>1, DeliveryRecords DEF Adds, Has
        <5>2. CASE ~ Begin(d)
          <6>1. pc[d] \notin Ended
            BY <1>1, <3>1, <4>1, <5>2, DeliveryMoves DEF Ended
          <6> QED BY <3>2, <3>3, <6>1 DEF Recorded, Has
        <5> QED BY <5>1, <5>2
      <4>2. ASSUME pc'[d] = "settle"
            PROVE  Has(Records(r)', "receipt", d)
        <5>1. CASE \E use \in 0..MaxUse : End(d, use)
          <6>1. PICK use \in 0..MaxUse : End(d, use) BY <5>1
          <6>2. Adds(r, Rec("receipt", d, use)) BY <3>2, <6>1, DeliveryRecords
          <6>3. Rec("receipt", d, use).kind = "receipt" /\ Rec("receipt", d, use).d = d
            BY DEF Rec
          <6> QED BY <6>2, <6>3 DEF Adds, Has
        <5>2. CASE ShowUsage(d)
          <6>1. pc[d] = "settle" BY <4>2, <5>2, DeliveryMoves
          <6> QED BY <3>2, <3>3, <6>1 DEF Recorded, Has
        <5> QED BY <1>1, <3>1, <4>2, <5>1, <5>2, DeliveryMoves
      <4> QED BY <3>5, <4>1, <4>2
    <3> QED BY <3>4, <3>5
  <2> QED BY <2>1, <2>2
<1>2. ASSUME NEW q \in Runs, Open(q) \/ Consume(q) \/ Save(q) \/ Close(q)
      PROVE  Recorded'
  <2>1. pc' = pc /\ \A r \in Runs : Records(r)' = Records(r) BY <1>2, RunRecords
  <2>2. \A r \in Runs : Health(r)' = Health(r) \/ Health(r)' # "ok" \/ Health(r) = "closed"
    BY <1>2, RunLedger DEF Becomes, Health, Save
  <2> QED BY <1>r, <2>1, <2>2 DEF Recorded, ClosedIsQuiet, Ended
<1>3. CASE Crash
  <2>1. \A q \in Runs : Health(q)' = "closed" BY <1>3 DEF Crash, Closed, Health
  <2> QED BY <1>r, <2>1 DEF Recorded
<1>4. CASE UNCHANGED vars BY <1>4 DEF vars, Recorded, Health, Has, Records
<1> QED BY <1>1, <1>2, <1>3, <1>4, LedgerCases

(* Outside a crash the budget only learns, and its owner is set once.       *)
Grows ==
    /\ budget.unknown \subseteq budget'.unknown
    /\ DOMAIN budget.charged \subseteq DOMAIN budget'.charged
    /\ budget'.owner = budget.owner \/ budget.owner = NoBudgetOwner

LEMMA BudgetGrows ==
    ASSUME Shapes, [Next]_vars, ~ Crash
    PROVE  Grows
<1>0. DOMAIN budget = {"owner", "charged", "unknown"} BY ShapesEq
<1>1. ASSUME NEW r \in Runs, Open(r)
      PROVE  Grows
  <2>1. CASE budget' = budget BY <2>1 DEF Grows
  <2>2. CASE budget = FreshBudget BY <2>2, EmptyBudget DEF Grows
  <2> QED BY <1>1, <2>1, <2>2, OpenBudget
<1>2. ASSUME NEW d \in Deliveries, Begin(d)
      PROVE  Grows
  BY <1>0, <1>2 DEF Begin, ThisOwner, Grows
<1>3. ASSUME NEW d \in Deliveries, NEW use \in 0..MaxUse, End(d, use)
      PROVE  Grows
  <2>1. CASE budget' = budget BY <2>1 DEF Grows
  <2>2. CASE budget' = Charge(d, use) BY <2>2, ChargeStep DEF Grows
  <2> QED BY <1>3, <2>1, <2>2 DEF End
<1>4. CASE budget' = budget BY <1>4 DEF Grows
<1> QED
  BY <1>1, <1>2, <1>3, <1>4, LedgerCases
     DEF Consume, Save, Close, RecordSource, Mark, Abandon, ShowUsage, Flushed, FlushFails, vars

LEMMA OwnerFirstStep ==
    ASSUME Shapes, ClosedIsQuiet, OwnerFirst, [Next]_vars
    PROVE  OwnerFirst'
<1>r. \A d \in Deliveries : RunOf[d] \in Runs BY LedgerAssumption
<1> SUFFICES ASSUME budget'.owner = NoBudgetOwner
             PROVE  /\ \A d \in Deliveries : pc'[d] \in Ended
                    /\ \A r \in Runs : Health(r)' # "closed" =>
                          DOMAIN ledger'[r].receipts = {} /\ unshown'[r] = {}
  BY DEF OwnerFirst
<1>1. CASE Crash
  BY <1>1 DEF Crash, Closed, Health, Ended
<1>2. CASE ~ Crash
  <2>1. budget.owner = NoBudgetOwner
    BY <1>2, BudgetGrows, ShapesEq DEF Grows
  <2>2. /\ \A d \in Deliveries : pc[d] \in Ended
        /\ \A r \in Runs : Health(r) # "closed" =>
              DOMAIN ledger[r].receipts = {} /\ unshown[r] = {}
    BY <2>1 DEF OwnerFirst
  <2>u. \A r \in Runs : unshown[r] = {} BY <2>2 DEF ClosedIsQuiet
  <2>3. ASSUME NEW r \in Runs, Open(r)
        PROVE  /\ pc' = pc /\ unshown' = unshown
               /\ \A q \in Runs : Health(q)' # "closed" => DOMAIN ledger'[q].receipts = {}
    <3>1. pc' = pc /\ unshown' = unshown BY <2>3 DEF Open
    <3>2. journal[r] = <<>>
      <4>1. journal[r] # <<>> => budget'.owner = Owner(journal[r]) BY <2>3, OpenBudget
      <4>2. journal[r] # <<>> => Owner(journal[r]) \in 1..(MaxFaults + 1)
        <5>1. SUFFICES ASSUME journal[r] # <<>>
                       PROVE  Owner(journal[r]) \in 1..(MaxFaults + 1)
          OBVIOUS
        <5>2. journal[r] \in Seq(Entry) BY ShapesEq DEF Logged
        <5>3. Head(journal[r]) \in Entry BY <5>1, <5>2
        <5> QED BY <5>1, <5>3 DEF Owner, Entry
      <4> QED BY <4>1, <4>2 DEF NoBudgetOwner
    <3>3. DOMAIN ledger'[r].receipts = {}
      <4>1. ledger'[r] = Recover(journal[r]) BY <2>3, RunLedger
      <4>2. Of(<<>>, "receipt") = {} BY DEF Of
      <4> QED BY <3>2, <4>1, <4>2, RecoverShape
    <3>4. \A q \in Runs \ {r} : ledger'[q] = ledger[q] BY <2>3, RunLedger DEF Becomes
    <3> QED BY <2>2, <3>1, <3>3, <3>4 DEF Health
  <2>4. ASSUME NEW r \in Runs, Consume(r) \/ Save(r) \/ Close(r)
        PROVE  /\ pc' = pc /\ \A q \in Runs : unshown'[q] = {}
               /\ \A q \in Runs : Health(q)' # "closed" => DOMAIN ledger'[q].receipts = {}
    <3>1. ~ Consume(r)
      BY <2>2 DEF Consume, Health
    <3>2. CASE Save(r) BY <2>2, <2>u, <3>2 DEF Save, Health
    <3>3. CASE Close(r)
      <4>1. pc' = pc /\ \A q \in Runs : unshown'[q] = {}
        BY <2>u, <3>3, ShapesEq DEF Close
      <4>2. Becomes(r, {"closed"}) BY <3>3, RunLedger
      <4> QED BY <2>2, <4>1, <4>2 DEF Becomes, Health
    <3> QED BY <2>4, <3>1, <3>2, <3>3
  <2>5. ASSUME NEW d \in Deliveries,
               \/ Begin(d) \/ RecordSource(d) \/ Mark(d) \/ Abandon(d) \/ ShowUsage(d)
               \/ \E use \in 0..MaxUse : End(d, use)
               \/ \E use \in 1..MaxUse : Flushed(d, use)
               \/ \E how \in {"rejected", "cancelled", "lost"} : FlushFails(d, how)
        PROVE  FALSE
    <3>1. Begin(d)
      BY <1>r, <2>2, <2>5, <2>u
         DEF RecordSource, Mark, Abandon, ShowUsage, End, Flushed, FlushFails, Ended
    <3>2. budget'.owner = ThisOwner BY <3>1, ShapesEq DEF Begin
    <3>3. ThisOwner # NoBudgetOwner BY ShapesEq, LedgerAssumption DEF ThisOwner, NoBudgetOwner
    <3> QED BY <3>2, <3>3
  <2>6. CASE UNCHANGED vars BY <2>2, <2>6 DEF vars, Health
  <2> QED BY <1>2, <2>2, <2>3, <2>4, <2>5, <2>6, <2>u, LedgerCases
<1> QED BY <1>1, <1>2

(* The budget after a step knows a receipt.                                 *)
Learned(x) == IF x.use = Unknown THEN x.d \in budget'.unknown ELSE x.d \in DOMAIN budget'.charged

(* What the budget knows of a run it still knows when it grew, if it knows  *)
(* the run's new records too.                                               *)
LEMMA StillKnown ==
    ASSUME Shapes, NEW r \in Runs, RunKnown(r), Grows,
           NEW recs, Records(r)' = Records(r) \cup recs,
           \A x \in recs : x.owner = budget'.owner /\ (x.kind = "receipt" => Learned(x)),
           \A d \in Deliveries : Undecided(r, d)' => Undecided(r, d) \/ d \in budget'.unknown,
           ledger'[r].count = ledger[r].count \/ Records(r)' # {}
    PROVE  RunKnown(r)'
<1>1. ASSUME NEW x \in Records(r)
      PROVE  x.owner = budget'.owner
  <2>1. x.owner = budget.owner BY DEF RunKnown
  <2>2. x.owner # NoBudgetOwner
    <3>1. Records(r) \subseteq Entry BY ShapesEq DEF Logged, Records, ToSet
    <3>2. x.owner \in 1..(MaxFaults + 1) BY <3>1 DEF Entry
    <3> QED BY <3>2, LedgerAssumption DEF NoBudgetOwner
  <2> QED BY <2>1, <2>2 DEF Grows
<1>2. ASSUME NEW x \in Records(r), x.kind = "receipt"
      PROVE  Learned(x)
  <2>1. Settled(x) BY <1>2 DEF RunKnown
  <2> QED BY <2>1 DEF Settled, Learned, Grows
<1>3. \A d \in Deliveries : Undecided(r, d)' => d \in budget'.unknown
  BY DEF RunKnown, Grows
<1>4. ledger'[r].count > 0 => Records(r)' # {} BY DEF RunKnown
<1> QED BY <1>1, <1>2, <1>3, <1>4 DEF RunKnown, Learned, Settled

(* A run that a step leaves alone.                                          *)
LEMMA KnownFrame ==
    ASSUME Shapes, NEW r \in Runs, RunKnown(r), Grows,
           Records(r)' = Records(r), ledger'[r].count = ledger[r].count,
           \A d \in Deliveries : RunOf[d] = r => pc'[d] = pc[d]
    PROVE  RunKnown(r)'
<1>1. ASSUME NEW d \in Deliveries, Undecided(r, d)'
      PROVE  Undecided(r, d)
  <2>1. RunOf[d] = r BY <1>1, ShapesEq DEF Undecided, Has
  <2> QED BY <1>1, <2>1 DEF Undecided
<1> DEFINE none == {}
<1>2. Records(r)' = Records(r) \cup none /\ \A x \in none : FALSE OBVIOUS
<1> HIDE DEF none
<1> QED BY <1>1, <1>2, StillKnown

(* The run of a delivery that takes a step.                                 *)
LEMMA DeliveryKnown ==
    ASSUME Shapes, ClosedIsQuiet, Recorded, OwnerFirst, [Next]_vars, NEW d \in Deliveries,
           \/ Begin(d) \/ RecordSource(d) \/ Mark(d) \/ Abandon(d) \/ ShowUsage(d)
           \/ \E use \in 0..MaxUse : End(d, use)
           \/ \E use \in 1..MaxUse : Flushed(d, use)
           \/ \E how \in {"rejected", "cancelled", "lost"} : FlushFails(d, how),
           Health(RunOf[d])' = "ok", Health(RunOf[d]) = "ok" => RunKnown(RunOf[d])
    PROVE  RunKnown(RunOf[d])'
<1> DEFINE r == RunOf[d]
<1>r. r \in Runs BY LedgerAssumption
<1>1. ~ \E how \in {"rejected", "cancelled", "lost"} : FlushFails(d, how)
  <2>1. ASSUME NEW how \in {"rejected", "cancelled", "lost"}, FlushFails(d, how)
        PROVE  FALSE
    <3>1. Becomes(r, IF how = "lost" THEN {"lost"} ELSE {"failed"}) BY <2>1, DeliveryLedger
    <3> QED BY <3>1 DEF Becomes, Health
  <2> QED BY <2>1
<1>2. Health(r) = "ok"
  <2>1. CASE RecordSource(d) \/ Mark(d) \/ ShowUsage(d)
    BY <2>1 DEF RecordSource, Mark, ShowUsage, Health
  <2>2. CASE \/ Begin(d) \/ Abandon(d)
             \/ \E use \in 0..MaxUse : End(d, use)
             \/ \E use \in 1..MaxUse : Flushed(d, use)
    BY <2>2, DeliveryLedger DEF Becomes, Health
  <2> QED BY <1>1, <2>1, <2>2
<1>3. RunKnown(r) BY <1>2
<1>4. Grows
  <2>1. Crash => ledger'[r] = Closed BY <1>r DEF Crash
  <2>2. ~ Crash BY <2>1 DEF Closed, Health
  <2> QED BY <2>2, BudgetGrows
<1>5. ASSUME Records(r) \subseteq Records(r)', pc'[d] \notin Ended \/ pc'[d] = pc[d]
                 \/ Has(Records(r)', "abandoned", d) \/ Has(Records(r)', "receipt", d)
      PROVE  \A e \in Deliveries : Undecided(r, e)' => Undecided(r, e)
  <2> SUFFICES ASSUME NEW e \in Deliveries, Undecided(r, e)'
               PROVE  Undecided(r, e)
    OBVIOUS
  <2>1. pc'[e] = pc[e]
    BY <1>5, DeliveryFrame DEF Undecided
  <2>2. Has(Records(r), "started", e)
    <3>1. PICK x \in Records(r)' : x.kind = "started" /\ x.d = e BY DEF Undecided, Has
    <3>2. CASE x \in Records(r) BY <3>1, <3>2 DEF Has
    <3>3. CASE x \notin Records(r)
      <4>1. e = d BY <3>1, <3>3, RecordFrame
      <4>2. ~ Begin(d) /\ ~ RecordSource(d) /\ ~ Abandon(d)
            /\ ~ (\E use \in 0..MaxUse : End(d, use))
        BY <2>1, <4>1, DeliveryMoves
      <4>3. Mark(d) \/ ShowUsage(d) \/ \E use \in 1..MaxUse : Flushed(d, use)
        BY <1>1, <4>2
      <4>4. CASE Mark(d)
        BY <2>1, <4>1, <4>4, DeliveryMoves
      <4>5. CASE ShowUsage(d)
        <5>1. Rec("usage", d, Unknown).kind = "usage" BY DEF Rec
        <5> QED BY <3>1, <3>3, <4>5, <5>1, DeliveryRecords DEF Adds
      <4>6. CASE \E use \in 1..MaxUse : Flushed(d, use) BY <3>3, <4>6, DeliveryRecords
      <4> QED BY <4>3, <4>4, <4>5, <4>6
    <3> QED BY <3>2, <3>3
  <2> QED BY <1>5, <2>1, <2>2 DEF Undecided, Has
<1>6. ASSUME NEW x, Adds(r, x), x.d = d, x.owner = budget'.owner,
             x.kind = "receipt" => Learned(x),
             pc'[d] \notin Ended \/ pc'[d] = pc[d] \/ x.kind \in {"abandoned", "receipt"}
      PROVE  RunKnown(r)'
  <2>1. Records(r)' = Records(r) \cup {x} BY <1>6 DEF Adds
  <2>2. \/ pc'[d] \notin Ended \/ pc'[d] = pc[d]
        \/ Has(Records(r)', "abandoned", d) \/ Has(Records(r)', "receipt", d)
    BY <1>6, <2>1 DEF Has
  <2>3. \A e \in Deliveries : Undecided(r, e)' => Undecided(r, e) BY <1>5, <2>1, <2>2
  <2>4. Records(r)' # {} BY <2>1
  <2> QED BY <1>3, <1>4, <1>6, <1>r, <2>1, <2>3, <2>4, StillKnown
<1>7. \A kind \in Kinds, use \in 0..MaxUse :
         /\ Rec(kind, d, use).d = d /\ Rec(kind, d, use).kind = kind
         /\ Rec(kind, d, use).use = use /\ Rec(kind, d, use).owner = ThisOwner
  BY NewEntry
<1>k. Unknown \in 0..MaxUse /\ {"intent", "source", "started", "abandoned", "receipt", "usage"} \subseteq Kinds
  BY LedgerAssumption DEF Unknown, Kinds
<1>8. CASE Begin(d)
  <2>1. budget'.owner = ThisOwner BY <1>8, ShapesEq DEF Begin
  <2>2. pc'[d] \notin Ended BY <1>8, DeliveryMoves DEF Ended
  <2> QED BY <1>6, <1>7, <1>8, <1>k, <2>1, <2>2, DeliveryRecords
<1>9. CASE RecordSource(d) \/ Mark(d) \/ Abandon(d) \/ ShowUsage(d)
  <2>1. budget' = budget BY <1>9 DEF RecordSource, Mark, Abandon, ShowUsage
  <2>2. ThisOwner = budget.owner
    <3>1. budget.owner # NoBudgetOwner
      BY <1>2, <1>9, <1>r DEF OwnerFirst, RecordSource, Mark, Abandon, ShowUsage, Ended
    <3> QED BY <3>1 DEF ThisOwner
  <2>3. CASE RecordSource(d) \/ Mark(d)
    <3>1. pc'[d] \notin Ended BY <2>3, DeliveryMoves DEF Ended
    <3> QED BY <1>6, <1>7, <1>k, <2>1, <2>2, <2>3, <3>1, DeliveryRecords
  <2>4. CASE Abandon(d)
    BY <1>2, <1>6, <1>7, <1>k, <2>1, <2>2, <2>4, DeliveryRecords
  <2>5. CASE ShowUsage(d)
    BY <1>6, <1>7, <1>k, <2>1, <2>2, <2>5, DeliveryRecords, DeliveryMoves
  <2> QED BY <1>9, <2>3, <2>4, <2>5
<1>10. CASE \E use \in 0..MaxUse : End(d, use)
  <2>1. PICK use \in 0..MaxUse : End(d, use) BY <1>10
  <2> DEFINE x == Rec("receipt", d, use)
  <2>2. x.d = d /\ x.kind = "receipt" /\ x.use = use /\ x.owner = ThisOwner BY <1>7, <1>k
  <2>3. Adds(r, x) BY <1>2, <2>1, DeliveryRecords
  <2>4. budget' = Charge(d, use) BY <1>2, <2>1 DEF End, Health
  <2>5. budget'.owner = budget.owner /\ Learned(x) BY <2>2, <2>4, ChargeStep DEF Learned
  <2>6. ThisOwner = budget.owner
    BY <2>1 DEF OwnerFirst, End, Ended, ThisOwner
  <2> HIDE DEF x
  <2> QED BY <1>6, <2>2, <2>3, <2>5, <2>6
<1>11. CASE \E use \in 1..MaxUse : Flushed(d, use)
  <2>1. Records(r)' = Records(r) BY <1>11, DeliveryRecords
  <2>2. Has(Records(r), "intent", d) /\ (pc[d] = "settle" => Has(Records(r), "receipt", d))
    BY <1>11, <1>2 DEF Recorded, Flushed, Ended
  <2>3. pc'[d] \notin Ended \/ Has(Records(r)', "receipt", d)
    BY <1>11, <2>1, <2>2, DeliveryMoves DEF Ended
  <2>4. \A e \in Deliveries : Undecided(r, e)' => Undecided(r, e) BY <1>5, <2>1, <2>3
  <2>5. Records(r)' # {} BY <2>1, <2>2 DEF Has
  <2> DEFINE none == {}
  <2>6. Records(r)' = Records(r) \cup none /\ \A x \in none : FALSE BY <2>1
  <2> HIDE DEF none
  <2> QED BY <1>3, <1>4, <1>r, <2>4, <2>5, <2>6, StillKnown
<1> QED BY <1>1, <1>8, <1>9, <1>10, <1>11

(* A journal that a resume accepts has one owner, and one receipt of each   *)
(* delivery.                                                                *)
LEMMA AcceptedParts ==
    ASSUME NEW log \in Seq(Entry), log # <<>>, Acceptable(log), NEW x \in ToSet(log)
    PROVE  /\ x.owner = Owner(log)
           /\ x.kind = "receipt" => x.d \in Of(log, "receipt") /\ UseIn(log, x.d) = x.use
<1>1. PICK i \in DOMAIN log : x = log[i] BY DEF ToSet
<1>2. /\ DOMAIN log = 1..Len(log) /\ Len(log) \in Nat \ {0}
      /\ Head(log) = log[1] /\ 1 \in DOMAIN log
  OBVIOUS
<1>3. x.owner = Owner(log) BY <1>1, <1>2 DEF Acceptable, Owner
<1>4. ASSUME x.kind = "receipt"
      PROVE  x.d \in Of(log, "receipt") /\ UseIn(log, x.d) = x.use
  <2>1. x.d \in Deliveries
    <3>1. log[i] \in Entry BY <1>1
    <3> QED BY <1>1, <3>1 DEF Entry
  <2>2. x.d \in Of(log, "receipt") BY <1>1, <1>4, <2>1 DEF Of
  <2> DEFINE Is(k) == k \in DOMAIN log /\ log[k].kind = "receipt" /\ log[k].d = x.d
  <2> DEFINE j == CHOOSE k \in DOMAIN log : log[k].kind = "receipt" /\ log[k].d = x.d
  <2>3. Is(i) BY <1>1, <1>4
  <2>4. Is(j) BY <2>3
  <2>5. UseIn(log, x.d) = log[j].use BY DEF UseIn
  <2> HIDE DEF j
  <2>6. \A k, m \in DOMAIN log : ~ (Is(k) /\ Is(m) /\ k < m)
    <3> SUFFICES ASSUME NEW k \in DOMAIN log, NEW m \in DOMAIN log, Is(k), Is(m), k < m
                 PROVE  FALSE
      OBVIOUS
    <3>1. k \in 1..(m - 1) BY <1>2
    <3>2. \A n \in 1..(m - 1) : ~ (log[n].kind = "receipt" /\ log[n].d = log[m].d)
      BY DEF Acceptable
    <3> QED BY <3>1, <3>2
  <2>7. i = j BY <1>2, <2>3, <2>4, <2>6
  <2> QED BY <1>1, <2>2, <2>5, <2>7
<1> QED BY <1>3, <1>4

(* A run that is opened: the budget adopts the journal or agreed with it.   *)
LEMMA OpenedKnown ==
    ASSUME Shapes, ClosedIsQuiet, NEW r \in Runs, Open(r)
    PROVE  RunKnown(r)'
<1> DEFINE log == journal[r]
<1>1. log \in Seq(Entry) BY ShapesEq DEF Logged
<1>2. Records(r)' = ToSet(log)
  <2>1. buffer[r] = <<>> BY RunLedger DEF ClosedIsQuiet
  <2> QED BY <2>1, EmptySet, RunRecords DEF Records
<1>3. ledger'[r] = Recover(log) BY RunLedger
<1>4. pc' = pc BY DEF Open
<1>5. CASE log = <<>>
  <2>1. Records(r)' = {} BY <1>2, <1>5, EmptySet
  <2>2. Accounting(<<>>) = {} BY DEF Accounting
  <2>3. ledger'[r].count = 0 BY <1>3, <1>5, <2>2, RecoverParts, FS_EmptySet
  <2>4. ~ (ledger'[r].count > 0) BY <2>3
  <2> QED BY <2>1, <2>4 DEF RunKnown, Undecided, Has
<1>6. CASE log # <<>>
  <2>1. Acceptable(log) /\ Knows(r) /\ budget'.owner = Owner(log) BY <1>6, OpenBudget
  <2>2. \A x \in ToSet(log) :
           /\ x.owner = Owner(log)
           /\ x.kind = "receipt" => x.d \in Of(log, "receipt") /\ UseIn(log, x.d) = x.use
    BY <1>1, <1>6, <2>1, AcceptedParts
  <2>3. ASSUME NEW x \in ToSet(log), x.kind = "receipt"
        PROVE  Learned(x)
    <3>1. x.d \in Of(log, "receipt") /\ UseIn(log, x.d) = x.use BY <2>2, <2>3
    <3>2. CASE x.use = Unknown
      <4>1. x.d \in Unresolved(log) BY <3>1, <3>2, RecoverParts
      <4> QED BY <2>1, <3>2, <4>1 DEF Knows, Learned
    <3>3. CASE x.use # Unknown BY <2>1, <3>1, <3>3 DEF Knows, Learned
    <3> QED BY <3>2, <3>3
  <2>4. ASSUME NEW d \in Deliveries, Undecided(r, d)'
        PROVE  d \in budget'.unknown
    <3>1. /\ Has(ToSet(log), "started", d) /\ ~ Has(ToSet(log), "abandoned", d)
          /\ ~ Has(ToSet(log), "receipt", d)
      BY <1>2, <2>4 DEF Undecided
    <3>2. d \in Of(log, "started") /\ d \notin Of(log, "abandoned") /\ d \notin Of(log, "receipt")
      BY <3>1, OfHas
    <3>3. d \in Unresolved(log) BY <3>2, RecoverParts
    <3> QED BY <2>1, <3>3 DEF Knows
  <2>5. ToSet(log) # {}
    <3>1. 1 \in DOMAIN log BY <1>1, <1>6
    <3> QED BY <3>1 DEF ToSet
  <2> QED BY <1>2, <2>1, <2>2, <2>3, <2>4, <2>5 DEF RunKnown, Settled, Learned
<1> QED BY <1>5, <1>6

LEMMA BudgetKnowsStep ==
    ASSUME Shapes, ClosedIsQuiet, Recorded, OwnerFirst, BudgetKnows, [Next]_vars
    PROVE  BudgetKnows'
<1>r. \A d \in Deliveries : RunOf[d] \in Runs BY LedgerAssumption
<1> SUFFICES ASSUME NEW q \in Runs, Health(q)' = "ok"
             PROVE  RunKnown(q)'
  BY DEF BudgetKnows
<1>c. ~ Crash
  <2>1. Crash => ledger'[q] = Closed BY DEF Crash
  <2> QED BY <2>1 DEF Closed, Health
<1>g. Grows BY <1>c, BudgetGrows
<1>1. ASSUME NEW d \in Deliveries,
             \/ Begin(d) \/ RecordSource(d) \/ Mark(d) \/ Abandon(d) \/ ShowUsage(d)
             \/ \E use \in 0..MaxUse : End(d, use)
             \/ \E use \in 1..MaxUse : Flushed(d, use)
             \/ \E how \in {"rejected", "cancelled", "lost"} : FlushFails(d, how)
      PROVE  RunKnown(q)'
  <2>1. CASE q = RunOf[d] BY <1>1, <2>1, DeliveryKnown DEF BudgetKnows
  <2>2. CASE q # RunOf[d]
    <3>1. /\ ledger'[q] = ledger[q]
          /\ \A e \in Deliveries : RunOf[e] = q => pc'[e] = pc[e]
      BY <1>1, <2>2, DeliveryFrame
    <3>2. Records(q)' = Records(q) BY <1>1, <2>2, RecordFrame DEF Keeps
    <3>3. RunKnown(q) BY <3>1 DEF BudgetKnows, Health
    <3> QED BY <1>g, <3>1, <3>2, <3>3, KnownFrame
  <2> QED BY <2>1, <2>2
<1>2. ASSUME NEW r \in Runs, Open(r) \/ Consume(r) \/ Save(r) \/ Close(r)
      PROVE  RunKnown(q)'
  <2>1. CASE q = r /\ Open(r) BY <2>1, OpenedKnown
  <2>2. CASE ~ (q = r /\ Open(r))
    <3>1. Records(q)' = Records(q) /\ pc' = pc BY <1>2, RunRecords
    <3>2. Health(q) = "ok" /\ ledger'[q].count = ledger[q].count
      <4>1. CASE q # r BY <1>2, <4>1, RunLedger DEF Becomes, Health, Save
      <4>2. CASE q = r
        <5>1. ~ Close(r) BY <4>2, RunLedger DEF Becomes, Health
        <5> QED BY <1>2, <2>2, <4>2, <5>1, RunLedger DEF Save, Health
      <4> QED BY <4>1, <4>2
    <3> QED BY <1>g, <3>1, <3>2, KnownFrame DEF BudgetKnows
  <2> QED BY <2>1, <2>2
<1>3. CASE UNCHANGED vars
  <2>1. Records(q)' = Records(q) /\ pc' = pc /\ ledger' = ledger BY <1>3 DEF vars, Records
  <2>2. RunKnown(q) BY <2>1 DEF BudgetKnows, Health
  <2> QED BY <1>g, <2>1, <2>2, KnownFrame
<1> QED BY <1>1, <1>2, <1>3, <1>c, LedgerCases

LEMMA LedgerInvariant == Spec => []LedgerInv
<1>1. Init => LedgerInv
  <2> SUFFICES ASSUME Init PROVE LedgerInv
    OBVIOUS
  <2>1. /\ \A d \in Deliveries : pc[d] = "new"
        /\ \A r \in Runs : ledger[r] = Closed /\ unshown[r] = {}
    BY DEF Init
  <2>2. \A r \in Runs : Health(r) = "closed" BY <2>1 DEF Closed, Health
  <2>3. \A d \in Deliveries : RunOf[d] \in Runs BY LedgerAssumption
  <2> QED BY <2>1, <2>2, <2>3, LedgerStart DEF LedgerInv, Recorded, BudgetKnows, OwnerFirst, Ended
<1>2. LedgerInv /\ [Next]_vars => LedgerInv'
  <2> SUFFICES ASSUME LedgerInv, [Next]_vars PROVE LedgerInv'
    OBVIOUS
  <2>1. SpendInv'
    BY ShapesStep, QuietStep, OneFlushStep, InvokedStep, HonestStep, ChargesStep, AccountedStep
       DEF LedgerInv, SpendInv
  <2> QED BY <2>1, RecordedStep, BudgetKnowsStep, OwnerFirstStep DEF LedgerInv, SpendInv
<1> QED BY <1>1, <1>2, PTL DEF Spec

(* The budget of a process never knows less than the journals its runs      *)
(* leave: with what is buffered flushed, a quiet run can be closed and      *)
(* resumed under the same budget (_restore_receipts).                       *)
THEOREM SameOwnerAccepted == Spec => []SameOwnerResumes
<1>1. ASSUME LedgerInv, NEW r \in Runs, Health(r) = "ok", Quiet(r), ledger[r].count > 0
      PROVE  BudgetAccepts(journal[r] \o buffer[r])
  <2> DEFINE log == journal[r] \o buffer[r]
  <2>0. Shapes /\ ChargesHonest /\ ReceiptsHonest /\ RunKnown(r)
    BY <1>1 DEF LedgerInv, SpendInv, BudgetKnows
  <2>1. log \in Seq(Entry) /\ ToSet(log) = Records(r)
    BY <2>0, ShapesEq, JoinedSet DEF Logged, Records
  <2> HIDE DEF log
  <2>2. log # <<>>
    <3>1. Records(r) # {} BY <1>1, <2>0 DEF RunKnown
    <3> QED BY <2>1, <3>1, EmptySet
  <2>3. budget.owner = Owner(log)
    <3>1. Head(log) \in ToSet(log)
      <4>1. 1 \in DOMAIN log /\ Head(log) = log[1] BY <2>1, <2>2
      <4> QED BY <4>1 DEF ToSet
    <3> QED BY <2>0, <2>1, <2>2, <3>1 DEF RunKnown, Owner
  <2>4. ASSUME NEW d \in Of(log, "receipt")
        PROVE  IF UseIn(log, d) = Unknown THEN d \in budget.unknown
               ELSE d \in DOMAIN budget.charged /\ budget.charged[d] = UseIn(log, d)
    <3>1. PICK x \in Records(r) : x.kind = "receipt" /\ x.d = d /\ x.use = UseIn(log, d)
      BY <2>1, UseRecorded
    <3>2. Settled(x) BY <2>0, <3>1 DEF RunKnown
    <3>3. x.use \in {spent[d], Unknown} BY <2>0, <3>1 DEF ReceiptsHonest
    <3> QED BY <2>0, <3>1, <3>2, <3>3 DEF Settled, ChargesHonest
  <2>5. Unresolved(log) \subseteq budget.unknown
    <3>1. ASSUME NEW d \in Recover(log).started
          PROVE  d \in budget.unknown
      <4>1. /\ d \in Of(log, "started") /\ d \notin Of(log, "abandoned")
            /\ d \notin Of(log, "receipt")
        BY RecoverParts
      <4>2. d \in Deliveries BY <4>1 DEF Of
      <4>3. /\ Has(Records(r), "started", d) /\ ~ Has(Records(r), "abandoned", d)
            /\ ~ Has(Records(r), "receipt", d)
        BY <2>1, <4>1, <4>2, OfHas
      <4>4. RunOf[d] = r BY <2>0, <4>3, ShapesEq DEF Has
      <4>5. Undecided(r, d) BY <1>1, <4>2, <4>3, <4>4 DEF Undecided, Quiet, Calls
      <4> QED BY <2>0, <4>2, <4>5 DEF RunKnown
    <3> QED BY <2>4, <3>1, RecoverParts
  <2> QED BY <2>3, <2>4, <2>5 DEF BudgetAccepts, log
<1>2. LedgerInv => SameOwnerResumes BY <1>1 DEF SameOwnerResumes, Health
<1> QED BY <1>2, LedgerInvariant, PTL

-----------------------------------------------------------------------------
(* Sums over finite sets: that a set of numbers has a least one, that some   *)
(* set of a collection is smallest, and what follows for the community       *)
(* modules' fold.                                                            *)

LEMMA SmallestNat ==
    ASSUME NEW T \in SUBSET Nat, T # {}
    PROVE  \E m \in T : \A n \in T : m <= n
<1> DEFINE Ups == {1 .. n : n \in T}
<1>1. Ups \subseteq FiniteSubsetsOf(Nat) /\ Ups # {}
  <2>1. \A n \in Nat : IsFiniteSet(1 .. n) BY FS_Interval
  <2>2. ASSUME NEW n \in T PROVE 1 .. n \in FiniteSubsetsOf(Nat)
    <3>1. 1 .. n \subseteq Nat OBVIOUS
    <3> QED BY <2>1, <3>1 DEF FiniteSubsetsOf
  <2>3. PICK n \in T : TRUE OBVIOUS
  <2>4. Ups # {} BY <2>3
  <2> QED BY <2>2, <2>4
<1>2. IsWellFoundedOn(StrictSubsetOrdering(Nat), FiniteSubsetsOf(Nat))
  BY FS_StrictSubsetOrderingWellFounded
<1> HIDE DEF Ups
<1>3. PICK X \in Ups : \A Y \in Ups : ~ (<<Y, X>> \in StrictSubsetOrdering(Nat))
  BY <1>1, <1>2, WFMin
<1>4. PICK m \in T : X = 1 .. m BY <1>3 DEF Ups
<1>5. ASSUME NEW n \in T PROVE m <= n
  <2>1. 1 .. n \in Ups BY DEF Ups
  <2>2. 1 .. n \in SUBSET Nat /\ 1 .. m \in SUBSET Nat OBVIOUS
  <2>3. ~ (1 .. n \subseteq 1 .. m /\ 1 .. n # 1 .. m)
    <3>1. ~ (<<1 .. n, 1 .. m>> \in StrictSubsetOrdering(Nat)) BY <2>1, <1>3, <1>4
    <3> DEFINE A == 1 .. n
               B == 1 .. m
    <3> HIDE DEF A, B
    <3>2. A \in SUBSET Nat /\ B \in SUBSET Nat /\ ~ (<<A, B>> \in StrictSubsetOrdering(Nat)) BY <3>1, <2>2 DEF A, B
    <3>3. ~ (A \subseteq B /\ A # B) BY <3>2 DEF StrictSubsetOrdering
    <3> QED BY <3>3 DEF A, B
  <2>4. n < m => m \notin 1 .. n /\ m \in 1 .. m /\ 1 .. n \subseteq 1 .. m OBVIOUS
  <2> QED BY <2>3, <2>4
<1> QED BY <1>5

LEMMA NatInd ==
    ASSUME NEW P \in SUBSET Nat, 0 \in P, \A n \in P : n + 1 \in P
    PROVE  P = Nat
<1> SUFFICES ASSUME Nat \ P # {} PROVE FALSE OBVIOUS
<1>1. PICK m \in Nat \ P : \A n \in Nat \ P : m <= n BY SmallestNat
<1>2. m - 1 \in Nat /\ m - 1 \notin Nat \ P BY <1>1
<1> QED BY <1>2

-----------------------------------------------------------------------------
(* Sums over finite sets, as the community modules fold them.                *)

Recur(g, f, S) ==
    g = [s \in SUBSET S |-> IF s = {} THEN 0
                            ELSE LET x == CHOOSE x \in s : TRUE IN f[x] + g[s \ {x}]]

Total(f, S) == FoldFunctionOnSet(+, 0, f, S)
Whole(f, S) == IsFiniteSet(S) /\ \A x \in S : f[x] \in Int

LEMMA TotalIs ==
    ASSUME NEW f, NEW S
    PROVE  Total(f, S) = (CHOOSE g : Recur(g, f, S))[S]
BY DEF Total, FoldFunctionOnSet, MapThenFoldSet, Recur

LEMMA PartFinite ==
    ASSUME NEW S, IsFiniteSet(S), NEW s \in SUBSET S
    PROVE  /\ IsFiniteSet(s) /\ Cardinality(s) \in Nat
           /\ Cardinality(s) = 0 <=> s = {}
           /\ Cardinality(s) <= Cardinality(S)
           /\ \A x \in s : Cardinality(s \ {x}) = Cardinality(s) - 1
<1>1. IsFiniteSet(s) /\ Cardinality(s) <= Cardinality(S) BY FS_Subset
<1> QED BY <1>1, FS_CardinalityType, FS_EmptySet, FS_RemoveElement

LEMMA SumRecurs ==
    ASSUME NEW f, NEW S, Whole(f, S)
    PROVE  \E g \in [SUBSET S -> Int] : Recur(g, f, S)
<1> IsFiniteSet(S) /\ \A x \in S : f[x] \in Int BY DEF Whole
<1> DEFINE ch(s) == CHOOSE x \in s : TRUE
           Level(n) == {s \in SUBSET S : Cardinality(s) <= n}
           Upto(g, n) == /\ g \in [Level(n) -> Int]
                         /\ \A s \in Level(n) :
                                g[s] = IF s = {} THEN 0 ELSE f[ch(s)] + g[s \ {ch(s)}]
           P == {n \in Nat : \E g : Upto(g, n)}
<1>0. \A s \in SUBSET S : s # {} => ch(s) \in s OBVIOUS
<1> HIDE DEF ch
<1>1. 0 \in P
  <2>1. \A s \in Level(0) : s = {} BY PartFinite
  <2>2. Upto([s \in Level(0) |-> 0], 0) BY <2>1
  <2> QED BY <2>2
<1>2. ASSUME NEW n \in P PROVE n + 1 \in P
  <2>1. PICK g : Upto(g, n) OBVIOUS
  <2> DEFINE h == [s \in Level(n + 1) |->
                      IF s \in Level(n) THEN g[s] ELSE f[ch(s)] + g[s \ {ch(s)}]]
  <2>2. ASSUME NEW s \in Level(n + 1), s # {}
        PROVE  ch(s) \in s /\ s \ {ch(s)} \in Level(n) /\ s \ {ch(s)} \in Level(n + 1)
    <3>1. ch(s) \in s BY <1>0, <2>2
    <3>2. Cardinality(s) \in Nat /\ Cardinality(s \ {ch(s)}) = Cardinality(s) - 1
      BY <3>1, PartFinite
    <3> QED BY <3>1, <3>2
  <2>3. {} \in Level(n) BY FS_EmptySet
  <2>4. Level(n) \subseteq Level(n + 1) BY PartFinite
  <2> HIDE DEF Level
  <2>0. \A s \in Level(n + 1) : s \subseteq S BY DEF Level
  <2>5. h \in [Level(n + 1) -> Int]
    <3>1. ASSUME NEW s \in Level(n + 1), s \notin Level(n)
          PROVE  f[ch(s)] \in Int /\ g[s \ {ch(s)}] \in Int
      <4>1. s # {} BY <2>3, <3>1
      <4>2. ch(s) \in S /\ s \ {ch(s)} \in Level(n) BY <2>0, <2>2, <4>1
      <4> QED BY <2>1, <4>2
    <3>2. \A s \in Level(n) : g[s] \in Int BY <2>1
    <3> QED BY <3>1, <3>2
  <2>6. ASSUME NEW s \in Level(n + 1)
        PROVE  h[s] = IF s = {} THEN 0 ELSE f[ch(s)] + h[s \ {ch(s)}]
    <3>1. CASE s \in Level(n)
      <4>1. h[s] = g[s] BY <3>1
      <4>2. s # {} => h[s \ {ch(s)}] = g[s \ {ch(s)}] BY <2>2
      <4> QED BY <4>1, <4>2, <3>1, <2>1
    <3>2. CASE s \notin Level(n)
      <4>1. s # {} BY <3>2, <2>3
      <4>2. h[s] = f[ch(s)] + g[s \ {ch(s)}] BY <3>2
      <4>3. h[s \ {ch(s)}] = g[s \ {ch(s)}] BY <4>1, <2>2
      <4> QED BY <4>1, <4>2, <4>3
    <3> QED BY <3>1, <3>2
  <2>7. Upto(h, n + 1) BY <2>5, <2>6
  <2>8. n + 1 \in Nat OBVIOUS
  <2> HIDE DEF Upto, h
  <2>9. \E k : Upto(k, n + 1) BY <2>7
  <2> QED BY <2>8, <2>9
<1> HIDE DEF P
<1>3. P = Nat
  <2>1. P \in SUBSET Nat BY DEF P
  <2> QED BY <1>1, <1>2, <2>1, NatInd
<1>4. PICK g : Upto(g, Cardinality(S)) BY <1>3, FS_CardinalityType DEF P
<1>5. Level(Cardinality(S)) = SUBSET S BY PartFinite
<1>6. g \in [SUBSET S -> Int] BY <1>4, <1>5
<1>7. \A s \in SUBSET S : g[s] = IF s = {} THEN 0 ELSE f[ch(s)] + g[s \ {ch(s)}] BY <1>4, <1>5
<1>8. Recur(g, f, S) BY <1>6, <1>7 DEF Recur, ch
<1> QED BY <1>6, <1>8

(* A smallest set, to argue by induction.                                    *)
LEMMA SmallestSet ==
    ASSUME NEW S, IsFiniteSet(S), NEW B \in SUBSET SUBSET S, B # {}
    PROVE  \E s \in B : \A t \in SUBSET S : Cardinality(t) < Cardinality(s) => t \notin B
<1> DEFINE T == {Cardinality(s) : s \in B}
<1>1. T \in SUBSET Nat /\ T # {} BY PartFinite
<1> HIDE DEF T
<1>2. PICK m \in T : \A n \in T : m <= n BY <1>1, SmallestNat
<1>3. PICK s \in B : m = Cardinality(s) BY DEF T
<1>4. \A t \in B : m <= Cardinality(t) BY <1>2 DEF T
<1>5. \A t \in SUBSET S : Cardinality(t) \in Nat BY PartFinite
<1> QED BY <1>3, <1>4, <1>5

(* A sum is determined by what is summed.                                    *)
LEMMA SumUnique ==
    ASSUME NEW f, NEW S, Whole(f, S), NEW g, Recur(g, f, S),
           NEW e, NEW T, NEW h, Recur(h, e, T)
    PROVE  \A s \in SUBSET (S \cap T) : (\A x \in s : f[x] = e[x]) => g[s] = h[s]
<1> DEFINE Good(s) == (\A x \in s : f[x] = e[x]) => g[s] = h[s]
           B == {s \in SUBSET (S \cap T) : ~Good(s)}
<1>0. IsFiniteSet(S) BY DEF Whole
<1>1. SUFFICES ASSUME B # {} PROVE FALSE OBVIOUS
<1>2. PICK s \in B : \A t \in SUBSET S : Cardinality(t) < Cardinality(s) => t \notin B
  <2>1. B \in SUBSET SUBSET S OBVIOUS
  <2> HIDE DEF B
  <2> QED BY <1>0, <1>1, <2>1, SmallestSet
<1>3. s \in SUBSET S /\ s \in SUBSET T /\ \A x \in s : f[x] = e[x] OBVIOUS
<1> DEFINE c == CHOOSE x \in s : TRUE
<1>4. CASE s = {} BY <1>4, <1>3 DEF Recur
<1>5. CASE s # {}
  <2>1. c \in s BY <1>5
  <2>2. Cardinality(s \ {c}) < Cardinality(s) BY <1>0, <1>3, <2>1, PartFinite
  <2>3. s \ {c} \notin B /\ s \ {c} \in SUBSET (S \cap T) BY <1>2, <1>3, <2>2
  <2>4. g[s \ {c}] = h[s \ {c}] BY <2>3, <1>3
  <2>5. g[s] = f[c] + g[s \ {c}] BY <1>3, <1>5 DEF Recur
  <2>6. h[s] = e[c] + h[s \ {c}] BY <1>3, <1>5 DEF Recur
  <2>7. g[s] = h[s] BY <2>1, <2>4, <2>5, <2>6, <1>3
  <2> QED BY <2>7
<1> QED BY <1>4, <1>5

(* One more is added, whichever the fold chooses first.                      *)
Inserts(g, f, S) == \A s \in SUBSET S : \A x \in S \ s : g[s \cup {x}] = g[s] + f[x]

LEMMA SumInsert ==
    ASSUME NEW f, NEW S, Whole(f, S), NEW g \in [SUBSET S -> Int], Recur(g, f, S)
    PROVE  Inserts(g, f, S)
<1> SUFFICES \A s \in SUBSET S : \A x \in S \ s : g[s \cup {x}] = g[s] + f[x]
  BY DEF Inserts
<1> DEFINE Good(s) == \A x \in S \ s : g[s \cup {x}] = g[s] + f[x]
           B == {s \in SUBSET S : ~Good(s)}
<1>0. IsFiniteSet(S) /\ \A x \in S : f[x] \in Int BY DEF Whole
<1>1. SUFFICES ASSUME B # {} PROVE FALSE OBVIOUS
<1>2. PICK s \in B : \A t \in SUBSET S : Cardinality(t) < Cardinality(s) => t \notin B
  <2>1. B \in SUBSET SUBSET S OBVIOUS
  <2> HIDE DEF B
  <2> QED BY <1>0, <1>1, <2>1, SmallestSet
<1>3. s \in SUBSET S OBVIOUS
<1>4. ASSUME NEW x \in S \ s PROVE g[s \cup {x}] = g[s] + f[x]
  <2> DEFINE w == s \cup {x}
             c == CHOOSE y \in w : TRUE
  <2>1. w \in SUBSET S /\ w # {} /\ c \in w OBVIOUS
  <2>2. g[w] = f[c] + g[w \ {c}] BY <2>1 DEF Recur
  <2> HIDE DEF c
  <2>3. CASE c = x
    <3>1. w \ {c} = s BY <2>3
    <3>2. g[s] \in Int /\ f[x] \in Int BY <1>0, <1>3
    <3> HIDE DEF w, Good, B
    <3>3. g[w] = f[x] + g[s] BY <2>2, <2>3, <3>1
    <3>4. g[w] = g[s] + f[x] BY <3>2, <3>3
    <3> QED BY <3>4 DEF w
  <2>4. CASE c # x
    <3>1. c \in s BY <2>1, <2>4
    <3> DEFINE v == s \ {c}
    <3>2. v \in SUBSET S /\ w \ {c} = v \cup {x} /\ s = v \cup {c} /\ x \in S \ v /\ c \in S \ v
      BY <3>1, <2>4, <1>3
    <3>3. Cardinality(v) < Cardinality(s) BY <1>0, <1>3, <3>1, PartFinite
    <3>4. v \notin B BY <1>2, <3>2, <3>3
    <3>5. g[v \cup {x}] = g[v] + f[x] /\ g[v \cup {c}] = g[v] + f[c] BY <3>2, <3>4
    <3>6. g[v] \in Int /\ f[x] \in Int /\ f[c] \in Int BY <1>0, <3>2
    <3> HIDE DEF v, w
    <3>7. g[w] = f[c] + (g[v] + f[x]) /\ g[s] = g[v] + f[c] BY <2>2, <3>2, <3>5
    <3> QED BY <3>6, <3>7 DEF w
  <2> QED BY <2>3, <2>4
<1> QED BY <1>4

LEMMA TotalRecurs ==
    ASSUME NEW f, NEW S, Whole(f, S)
    PROVE  \E g \in [SUBSET S -> Int] : Recur(g, f, S) /\ Total(f, S) = g[S]
<1> DEFINE g == CHOOSE g : Recur(g, f, S)
<1>1. PICK k \in [SUBSET S -> Int] : Recur(k, f, S) BY SumRecurs
<1>2. Recur(g, f, S) BY <1>1
<1>3. Total(f, S) = g[S] BY TotalIs
<1> HIDE DEF g
<1>4. \A s \in SUBSET S : g[s] = k[s]
  <2>1. \A s \in SUBSET (S \cap S) : (\A x \in s : f[x] = f[x]) => g[s] = k[s]
    BY <1>1, <1>2, SumUnique
  <2> QED BY <2>1
<1>5. DOMAIN g = SUBSET S /\ g = [s \in SUBSET S |-> g[s]] BY <1>2 DEF Recur
<1>6. g \in [SUBSET S -> Int] BY <1>4, <1>5
<1> QED BY <1>2, <1>3, <1>6

(* What the sums of the accounting rest on.                                  *)
LEMMA TotalEmpty == ASSUME NEW f PROVE Total(f, {}) = 0
<1>1. Whole(f, {}) BY FS_EmptySet DEF Whole
<1>2. PICK g : Recur(g, f, {}) /\ Total(f, {}) = g[{}] BY <1>1, TotalRecurs
<1> QED BY <1>2 DEF Recur

LEMMA TotalInt == ASSUME NEW f, NEW S, Whole(f, S) PROVE Total(f, S) \in Int
<1>1. PICK g \in [SUBSET S -> Int] : Total(f, S) = g[S] BY TotalRecurs
<1>2. S \in SUBSET S OBVIOUS
<1> QED BY <1>1, <1>2

LEMMA TotalSame ==
    ASSUME NEW f, NEW e, NEW S, Whole(f, S), \A x \in S : f[x] = e[x]
    PROVE  Total(f, S) = Total(e, S)
<1>1. Whole(e, S) BY DEF Whole
<1>2. PICK g : Recur(g, f, S) /\ Total(f, S) = g[S] BY TotalRecurs
<1>3. PICK h : Recur(h, e, S) /\ Total(e, S) = h[S] BY <1>1, TotalRecurs
<1>4. \A s \in SUBSET (S \cap S) : (\A x \in s : f[x] = e[x]) => g[s] = h[s]
  BY <1>2, <1>3, SumUnique
<1>5. g[S] = h[S] BY <1>4
<1> QED BY <1>2, <1>3, <1>5

LEMMA TotalAdd ==
    ASSUME NEW f, NEW S, NEW x, x \notin S, Whole(f, S \cup {x})
    PROVE  Total(f, S \cup {x}) = Total(f, S) + f[x]
<1> DEFINE T == S \cup {x}
<1>1. Whole(f, S) BY FS_Subset DEF Whole
<1>2. PICK g \in [SUBSET T -> Int] : Recur(g, f, T) /\ Total(f, T) = g[T] BY TotalRecurs
<1>3. PICK h : Recur(h, f, S) /\ Total(f, S) = h[S] BY <1>1, TotalRecurs
<1>4. \A s \in SUBSET (S \cap T) : (\A y \in s : f[y] = f[y]) => h[s] = g[s]
  BY <1>1, <1>2, <1>3, SumUnique
<1>5. S \in SUBSET T /\ x \in T \ S OBVIOUS
<1>6. h[S] = g[S] BY <1>4, <1>5
<1>a. Inserts(g, f, T)
  <2>1. Whole(f, T) OBVIOUS
  <2> HIDE DEF T
  <2> QED BY <1>2, <2>1, SumInsert
<1>7. g[S \cup {x}] = g[S] + f[x] BY <1>a, <1>5 DEF Inserts
<1> QED BY <1>2, <1>3, <1>6, <1>7

LEMMA TotalGrows ==
    ASSUME NEW f, NEW T, Whole(f, T), \A x \in T : f[x] >= 0, NEW S \in SUBSET T
    PROVE  Total(f, S) <= Total(f, T)
<1> DEFINE B == {s \in SUBSET T : S \subseteq s /\ ~ (Total(f, S) <= Total(f, s))}
<1>0. IsFiniteSet(T) /\ \A x \in T : f[x] \in Int BY DEF Whole
<1>1. SUFFICES ASSUME B # {} PROVE FALSE OBVIOUS
<1>2. PICK s \in B : \A t \in SUBSET T : Cardinality(t) < Cardinality(s) => t \notin B
  <2>1. B \in SUBSET SUBSET T OBVIOUS
  <2> HIDE DEF B
  <2> QED BY <1>0, <1>1, <2>1, SmallestSet
<1>3. s \in SUBSET T /\ S \subseteq s /\ ~ (Total(f, S) <= Total(f, s)) OBVIOUS
<1>4. \A t \in SUBSET T : Whole(f, t) BY <1>0, FS_Subset DEF Whole
<1>5. Total(f, S) \in Int BY <1>4, TotalInt
<1>6. PICK x \in s \ S : TRUE BY <1>3, <1>5
<1> DEFINE v == s \ {x}
<1>7. v \in SUBSET T /\ S \subseteq v /\ s = v \cup {x} /\ x \notin v BY <1>3, <1>6
<1>8. Cardinality(v) < Cardinality(s) BY <1>0, <1>3, <1>6, PartFinite
<1>9. Total(f, S) <= Total(f, v) BY <1>2, <1>7, <1>8
<1> HIDE DEF v
<1>10. Total(f, s) = Total(f, v) + f[x] BY <1>4, <1>7, <1>3, TotalAdd
<1>11. Total(f, v) \in Int /\ f[x] \in Int /\ f[x] >= 0 BY <1>0, <1>4, <1>6, <1>7, <1>3, TotalInt
<1> QED BY <1>3, <1>5, <1>9, <1>10, <1>11

-----------------------------------------------------------------------------
(* The fence of a capped budget.                                            *)

(* A budget has charged what finitely many deliveries used.                 *)
FinitelyCharged == IsFiniteSet(DOMAIN budget.charged)

LEMMA ReceiptsFinite ==
    ASSUME NEW log \in Seq(Entry), NEW kind
    PROVE  IsFiniteSet(Of(log, kind))
<1> DEFINE at == {i \in DOMAIN log : log[i].kind = kind /\ log[i].d \in Deliveries}
           f == [i \in at |-> log[i].d]
<1>1. IsFiniteSet(at)
  <2>1. DOMAIN log = 1..Len(log) /\ Len(log) \in Int OBVIOUS
  <2>2. IsFiniteSet(1..Len(log)) BY <2>1, FS_Interval
  <2>3. at \in SUBSET (1..Len(log)) BY <2>1
  <2> HIDE DEF at
  <2> QED BY <2>2, <2>3, FS_Subset
<1>2. f \in [at -> Of(log, kind)] BY DEF Of
<1>3. \A d \in Of(log, kind) : \E i \in at : f[i] = d BY DEF Of
<1> HIDE DEF f, at
<1>4. f \in Surjection(at, Of(log, kind)) BY <1>2, <1>3 DEF Surjection
<1> QED BY <1>1, <1>4, FS_Surjection

LEMMA FinitelyChargedStep ==
    ASSUME Shapes, FinitelyCharged, [Next]_vars
    PROVE  FinitelyCharged'
<1>1. CASE budget' = budget BY <1>1 DEF FinitelyCharged
<1>2. ASSUME NEW r \in Runs, Open(r)
      PROVE  FinitelyCharged'
  <2>1. IsFiniteSet(Of(journal[r], "receipt")) BY ReceiptsFinite DEF Shapes
  <2>2. \/ budget' = budget
        \/ DOMAIN budget'.charged \in SUBSET Of(journal[r], "receipt")
    BY <1>2, OpenBudget
  <2> QED BY <1>1, <2>1, <2>2, FS_Subset DEF FinitelyCharged
<1>3. ASSUME NEW d \in Deliveries, NEW use \in 0..MaxUse, End(d, use)
      PROVE  FinitelyCharged'
  <2>1. budget' = budget \/ budget' = Charge(d, use) BY <1>3 DEF End
  <2>2. \/ budget' = budget
        \/ DOMAIN budget'.charged = DOMAIN budget.charged
        \/ DOMAIN budget'.charged = DOMAIN budget.charged \cup {d}
    BY <2>1, ChargeStep
  <2> QED BY <1>1, <2>2, FS_AddElement DEF FinitelyCharged
<1>4. ASSUME NEW d \in Deliveries, Begin(d)
      PROVE  FinitelyCharged'
  <2>1. budget'.charged = budget.charged BY <1>4, ShapesEq DEF Begin
  <2> QED BY <2>1 DEF FinitelyCharged
<1>5. CASE Crash
  <2>1. DOMAIN budget'.charged = {} BY <1>5 DEF Crash, FreshBudget
  <2> QED BY <2>1, FS_EmptySet DEF FinitelyCharged
<1> QED
  BY <1>1, <1>2, <1>3, <1>4, <1>5, LedgerCases
     DEF Consume, Save, Close, RecordSource, Mark, Abandon, ShowUsage, Flushed, FlushFails, vars

(* The tokens of the finished deliveries of the open runs.                  *)
Finished == {e \in Deliveries : /\ spent[e] # 0 /\ pc[e] \in {"settle", "done"}
                                /\ ledger[RunOf[e]].health \in {"ok", "lost"}}
FenceStep ==
    \A d \in Deliveries :
        (pc[d] = "mark" /\ pc'[d] = "run" /\ Cap > 0) =>
            MapThenSumSet(LAMBDA e : spent[e], Finished) < Cap

(* A budget without unknown usage has charged all that was used: the sum it *)
(* compares with the cap is no less than what the deliveries really used.   *)
LEMMA ChargesCover ==
    ASSUME SpendInv, FinitelyCharged, budget.unknown = {}
    PROVE  MapThenSumSet(LAMBDA e : spent[e], Finished) \in Int
           /\ SpentTokens \in Int
           /\ MapThenSumSet(LAMBDA e : spent[e], Finished) <= SpentTokens
<1> DEFINE C == DOMAIN budget.charged
<1>1. Finished \in SUBSET C BY DEF SpendInv, EndedAccounted, Finished, Health
<1>2. \A e \in C : budget.charged[e] = spent[e] /\ spent[e] \in Nat
  <2>1. C \subseteq Deliveries /\ spent \in [Deliveries -> 0..MaxUse] /\ MaxUse \in Nat
    BY ShapesEq, LedgerAssumption DEF SpendInv
  <2> QED BY <2>1 DEF SpendInv, ChargesHonest
<1>3. IsFiniteSet(C) /\ IsFiniteSet(Finished) BY <1>1, FS_Subset DEF FinitelyCharged
<1>4. Whole(budget.charged, C) /\ Whole(budget.charged, Finished) /\ Whole(spent, Finished)
  BY <1>1, <1>2, <1>3 DEF Whole
<1>5. Total(spent, Finished) = Total(budget.charged, Finished)
  BY <1>1, <1>2, <1>4, TotalSame
<1>6. Total(budget.charged, Finished) <= Total(budget.charged, C)
  BY <1>1, <1>2, <1>4, TotalGrows
<1>7. Total(budget.charged, Finished) \in Int /\ Total(budget.charged, C) \in Int
  BY <1>4, TotalInt
<1>8. SpentTokens = Total(budget.charged, C) BY DEF SpentTokens, Total
<1>9. MapThenSumSet(LAMBDA e : spent[e], Finished) = Total(spent, Finished)
  BY DEF MapThenSumSet, Total, FoldFunctionOnSet
<1> QED BY <1>5, <1>6, <1>7, <1>8, <1>9

LEMMA FenceKept ==
    ASSUME SpendInv, FinitelyCharged, Next
    PROVE  FenceStep
<1> SUFFICES ASSUME NEW d \in Deliveries, pc[d] = "mark", pc'[d] = "run", Cap > 0
             PROVE  MapThenSumSet(LAMBDA e : spent[e], Finished) < Cap
  BY DEF FenceStep
<1> DEFINE sum == MapThenSumSet(LAMBDA e : spent[e], Finished)
<1>1. PICK use \in 1..MaxUse : Flushed(d, use)
  <2>1. pc' # pc OBVIOUS
  <2>2. PICK e \in Deliveries :
           \/ Begin(e) \/ RecordSource(e) \/ Mark(e) \/ Abandon(e) \/ ShowUsage(e)
           \/ \E use \in 0..MaxUse : End(e, use)
           \/ \E use \in 1..MaxUse : Flushed(e, use)
           \/ \E how \in {"rejected", "cancelled", "lost"} : FlushFails(e, how)
    <3>1. ~ Crash BY DEF Crash
    <3> QED BY <2>1, <3>1, LedgerCases DEF Open, Consume, Save, Close, vars
  <2>3. e = d BY <2>2, DeliveryFrame DEF SpendInv
  <2> QED BY <2>2, <2>3, DeliveryMoves DEF SpendInv
<1>2. Recheck(RunOf[d]) BY <1>1 DEF Flushed, Land, Go, SpendInv, Shapes, TypeOK
<1>3. budget.unknown = {} /\ SpentTokens < Cap BY <1>2 DEF Recheck, MayStart
<1>4. sum \in Int /\ SpentTokens \in Int /\ sum <= SpentTokens
  BY <1>3, ChargesCover
<1>5. Cap \in Nat BY LedgerAssumption
<1> HIDE DEF sum
<1>6. sum < Cap BY <1>3, <1>4, <1>5
<1> QED BY <1>6 DEF sum

(* The fence: when a provider is invoked, what the finished deliveries of   *)
(* the open runs really used is below the cap (the assert_may_start between *)
(* the dispatch marker and the invocation).                                 *)
THEOREM FenceKeepsTheCap == Spec => FenceHolds
<1>1. Init => FinitelyCharged
  BY EmptyBudget, FS_EmptySet DEF Init, FinitelyCharged
<1>2. SpendInv /\ FinitelyCharged /\ [Next]_vars => FinitelyCharged'
  BY FinitelyChargedStep DEF SpendInv
<1>3. SpendInv /\ FinitelyCharged /\ [Next]_vars => [FenceStep]_vars
  BY FenceKept
<1>4. Spec => [][FenceStep]_vars
  BY <1>1, <1>2, <1>3, SpendInvariant, PTL DEF Spec
<1>5. FenceHolds <=> [][FenceStep]_vars
  BY DEF FenceHolds, FenceStep, Finished
<1> QED BY <1>4, <1>5

-----------------------------------------------------------------------------
(* The journal is the ledger: what a resume rebuilds is what was known.     *)
(* The invariant (RunInv) says of each run that its records are ones a      *)
(* resume accepts, how far each record shows its delivery to be (Staged),   *)
(* and how the live ledger and the records differ while a flush is awaited  *)
(* (Mirrors).                                                               *)

Log(r) == journal[r] \o buffer[r]
Size(log) == Cardinality(Accounting(log))
Paid(log) == Of(log, "receipt")
Uses(log) == [d \in Paid(log) |-> UseIn(log, d)]
Sum(log) == Total(Uses(log), Paid(log))
Dangling(log) == (Of(log, "started") \ Of(log, "abandoned")) \ Paid(log)
At(r, place) == {d \in Calls(r) : pc[d] = place}

(* How far a delivery got, by its records.                                  *)
Stage(r, d) ==
    /\ pc[d] = "new" => \A kind \in Kinds : ~ Has(Records(r), kind, d)
    /\ Has(Records(r), "started", d) => pc[d] \notin {"new", "wait", "source"}
    /\ Has(Records(r), "receipt", d) => pc[d] \in {"settle", "done"}
    /\ Has(Records(r), "usage", d) => pc[d] = "done"
    /\ Health(r) = "ok" =>
          /\ pc[d] \in {"mark", "stop", "run"} => Has(Records(r), "started", d)
          /\ pc[d] = "source" => Has(Records(r), "source", d)
          /\ pc[d] = "settle" => d \in Of(buffer[r], "receipt")

Staged(r) == \A d \in Calls(r) : Stage(r, d)

(* A healthy ledger and the records of its run.  What a flush is awaited    *)
(* for -- a source, a marker, a receipt -- is a record and not yet in the   *)
(* ledger; over are the deliveries that ended.                              *)
Mirror(L, log, sourcing, marking, settling, lag, over) ==
    /\ L = [f \in LedgerFields |-> L[f]]
    /\ L.intents = Of(log, "intent") /\ L.abandoned = Of(log, "abandoned")
    /\ L.sources = Of(log, "source") \ sourcing
    /\ L.started = (Dangling(log) \ marking) \cup settling
    /\ L.receipts = [d \in Paid(log) \ settling |-> UseIn(log, d)]
    /\ L.total = Sum(log) /\ L.count = Size(log) - lag
    /\ L.unknown => \/ \E d \in Paid(log) : UseIn(log, d) = Unknown
                    \/ Dangling(log) \cap over # {}

Mirrors(r) ==
    Mirror(ledger[r], Log(r), At(r, "source"), At(r, "mark"), At(r, "settle"),
           IF Locked(r) THEN 1 ELSE 0, At(r, "done"))

(* Usage is shown once, of receipts that were consumed.                     *)
Show(L, shown, toShow) ==
    /\ toShow \subseteq L.consumed \ shown /\ shown \subseteq L.consumed
    /\ L.consumed \subseteq DOMAIN L.receipts \cap Auxiliary
    /\ \A d \in L.consumed \ toShow : d \in shown \/ L.receipts[d] = Unknown

Shows(r) == Show(ledger[r], Of(Log(r), "usage"), unshown[r])

(* What a failed ledger may still write with the terminal.                  *)
Trails(r) ==
    /\ ledger[r].count \in Int /\ ledger[r].count <= Size(Log(r))
    /\ ledger[r].total \in Int /\ ledger[r].total <= Sum(Log(r))

Covers(r) == Covered(r) /\ ckpt[r].count \in Int /\ ckpt[r].total \in Int

RunInv(r) ==
    /\ Acceptable(Log(r)) /\ Covers(r) /\ Staged(r)
    /\ Health(r) = "ok" => Mirrors(r) /\ Shows(r)
    /\ Health(r) = "failed" /\ buffer[r] # <<>> => Trails(r)
    /\ Health(r) = "lost" => buffer[r] = <<>>

JournalInv == ckpt = [r \in Runs |-> ckpt[r]] /\ \A r \in Runs : RunInv(r)

(* The rules of recovery, for the record at a place of a log.               *)
Before(log, i, kind) == \E j \in 1..(i-1) : log[j].kind = kind /\ log[j].d = log[i].d
Rules(log, i) ==
    /\ \A j \in DOMAIN log : log[j].owner = log[i].owner
    /\ log[i].kind = "started" => Before(log, i, "intent") /\ ~ Before(log, i, "abandoned")
    /\ log[i].kind = "receipt" => /\ Before(log, i, "started") /\ ~ Before(log, i, "abandoned")
                                  /\ ~ Before(log, i, "receipt")
    /\ log[i].kind = "abandoned" => Before(log, i, "intent") /\ ~ Before(log, i, "receipt")
    /\ log[i].kind = "source" =>
          /\ Before(log, i, "intent")
          /\ \A k \in {"started", "receipt", "abandoned"} : ~ Before(log, i, k)
    /\ log[i].kind = "usage" => /\ Before(log, i, "receipt") /\ ~ Before(log, i, "usage")
                                /\ log[i].d \in Auxiliary

LEMMA AcceptableIs ==
    ASSUME NEW log \in Seq(Entry)
    PROVE  Acceptable(log) <=> \A i \in DOMAIN log : Rules(log, i)
<1> DEFINE Choice(i) ==
        CASE log[i].kind = "intent"    -> TRUE
          [] log[i].kind = "started"   -> Before(log, i, "intent") /\ ~ Before(log, i, "abandoned")
          [] log[i].kind = "receipt"   -> Before(log, i, "started") /\ ~ Before(log, i, "abandoned")
                                          /\ ~ Before(log, i, "receipt")
          [] log[i].kind = "abandoned" -> Before(log, i, "intent") /\ ~ Before(log, i, "receipt")
          [] log[i].kind = "source"    -> /\ Before(log, i, "intent")
                                          /\ \A k \in {"started", "receipt", "abandoned"} : ~ Before(log, i, k)
          [] log[i].kind = "usage"     -> Before(log, i, "receipt") /\ ~ Before(log, i, "usage")
                                          /\ log[i].d \in Auxiliary
<1>1. Acceptable(log) <=> \A i \in DOMAIN log :
         (\A j \in DOMAIN log : log[j].owner = log[i].owner) /\ Choice(i)
  BY DEF Acceptable, Before
<1>2. ASSUME NEW i \in DOMAIN log
      PROVE  (\A j \in DOMAIN log : log[j].owner = log[i].owner) /\ Choice(i) <=> Rules(log, i)
  <2>1. log[i].kind \in Kinds
    <3>1. log[i] \in Entry OBVIOUS
    <3> QED BY <3>1 DEF Entry
  <2> QED BY <2>1 DEF Rules, Kinds
<1> HIDE DEF Choice
<1> QED BY <1>1, <1>2

(* What may follow the records of a log.                                    *)
May(log, x) ==
    LET Is(kind) == Has(ToSet(log), kind, x.d)
    IN  /\ \A y \in ToSet(log) : y.owner = x.owner
        /\ x.kind = "started" => Is("intent") /\ ~ Is("abandoned")
        /\ x.kind = "receipt" => Is("started") /\ ~ Is("abandoned") /\ ~ Is("receipt")
        /\ x.kind = "abandoned" => Is("intent") /\ ~ Is("receipt")
        /\ x.kind = "source" => /\ Is("intent") /\ ~ Is("started")
                                /\ ~ Is("receipt") /\ ~ Is("abandoned")
        /\ x.kind = "usage" => Is("receipt") /\ ~ Is("usage") /\ x.d \in Auxiliary

LEMMA AcceptsMore ==
    ASSUME NEW log \in Seq(Entry), NEW x \in Entry, Acceptable(log), May(log, x)
    PROVE  Acceptable(Append(log, x))
<1> DEFINE t == Append(log, x)
           n == Len(log)
<1>1. /\ t \in Seq(Entry) /\ n \in Nat /\ DOMAIN log = 1..n /\ DOMAIN t = 1..(n + 1)
      /\ t[n + 1] = x /\ \A i \in 1..n : t[i] = log[i]
  OBVIOUS
<1> HIDE DEF t, n
<1>2. \A i \in 1..n : Rules(log, i) BY <1>1, AcceptableIs
<1>3. \A i \in 1..n : log[i].owner = x.owner BY <1>1 DEF May, ToSet
<1>4. \A i, j \in 1..(n + 1) : t[i].owner = t[j].owner
  <2>1. \A i \in 1..(n + 1) : t[i].owner = x.owner BY <1>1, <1>3
  <2> QED BY <2>1
<1>5. ASSUME NEW i \in 1..n
      PROVE  Rules(t, i)
  <2>1. \A kind : Before(t, i, kind) <=> Before(log, i, kind) BY <1>1 DEF Before
  <2>2. t[i] = log[i] BY <1>1
  <2> QED BY <1>1, <1>2, <1>4, <2>1, <2>2 DEF Rules
<1>6. Rules(t, n + 1)
  <2>1. \A kind : Before(t, n + 1, kind) <=> Has(ToSet(log), kind, x.d)
    BY <1>1 DEF Before, Has, ToSet
  <2> QED BY <1>1, <1>4, <2>1 DEF Rules, May
<1>7. \A i \in 1..(n + 1) : Rules(t, i) BY <1>1, <1>5, <1>6
<1>8. Acceptable(t) BY <1>1, <1>7, AcceptableIs
<1> QED BY <1>8 DEF t

LEMMA AcceptsLess ==
    ASSUME NEW log \in Seq(Entry), NEW rest \in Seq(Entry), Acceptable(log \o rest)
    PROVE  Acceptable(log)
<1> DEFINE t == log \o rest
           n == Len(log)
<1>1. /\ t \in Seq(Entry) /\ n \in Nat /\ DOMAIN log = 1..n
      /\ \A i \in 1..n : i \in DOMAIN t /\ t[i] = log[i]
  OBVIOUS
<1>a. Acceptable(t) OBVIOUS
<1> HIDE DEF t, n
<1>2. \A i \in 1..n : Rules(t, i) BY <1>1, <1>a, AcceptableIs
<1>3. ASSUME NEW i \in 1..n
      PROVE  Rules(log, i)
  <2>1. \A kind : Before(t, i, kind) <=> Before(log, i, kind) BY <1>1 DEF Before
  <2> QED BY <1>1, <1>2, <2>1 DEF Rules
<1> QED BY <1>1, <1>3, AcceptableIs

(* The charges of a log, one by one and in sum.                             *)
LEMMA UseOf ==
    ASSUME NEW log \in Seq(Entry), Acceptable(log), NEW x \in ToSet(log), x.kind = "receipt"
    PROVE  x.d \in Paid(log) /\ UseIn(log, x.d) = x.use
<1>1. log # <<>> BY EmptySet
<1> QED BY <1>1, AcceptedParts DEF Paid

LEMMA LogParts ==
    ASSUME NEW log \in Seq(Entry)
    PROVE  /\ IsFiniteSet(Accounting(log)) /\ Size(log) \in Nat
           /\ IsFiniteSet(Paid(log)) /\ \A d \in Paid(log) : UseIn(log, d) \in 0..MaxUse
           /\ Whole(Uses(log), Paid(log)) /\ Sum(log) \in Int
           /\ Recover(log).total = Sum(log) /\ Recover(log).count = Size(log)
<1>1. IsFiniteSet(Accounting(log))
  <2>1. DOMAIN log = 1..Len(log) /\ Len(log) \in Int OBVIOUS
  <2>2. IsFiniteSet(1..Len(log)) /\ Accounting(log) \in SUBSET (1..Len(log))
    BY <2>1, FS_Interval DEF Accounting
  <2> QED BY <2>2, FS_Subset
<1>2. Size(log) \in Nat BY <1>1, FS_CardinalityType DEF Size
<1>3. IsFiniteSet(Paid(log)) BY ReceiptsFinite DEF Paid
<1>4. ASSUME NEW d \in Paid(log)
      PROVE  UseIn(log, d) \in 0..MaxUse
  <2>1. PICK x \in ToSet(log) : x.use = UseIn(log, d) BY UseRecorded DEF Paid
  <2>2. x \in Entry BY DEF ToSet
  <2> QED BY <2>1, <2>2 DEF Entry
<1>5. 0..MaxUse \subseteq Int BY LedgerAssumption
<1>6. Whole(Uses(log), Paid(log)) BY <1>3, <1>4, <1>5 DEF Whole, Uses
<1>7. Sum(log) \in Int BY <1>6, TotalInt DEF Sum
<1>8. Recover(log).total = Sum(log) BY DEF Recover, Sum, Total, Uses, Paid
<1>9. Recover(log).count = Size(log) BY DEF Recover, Size
<1> QED BY <1>1, <1>2, <1>3, <1>4, <1>6, <1>7, <1>8, <1>9

(* A log with one more record.                                              *)
GrownBy(log, x, t) ==
    /\ t \in Seq(Entry) /\ ToSet(t) = ToSet(log) \cup {x}
    /\ \A kind : Of(t, kind) = IF kind = x.kind THEN Of(log, kind) \cup {x.d} ELSE Of(log, kind)
    /\ \A d \in Paid(log) : UseIn(t, d) = UseIn(log, d)
    /\ x.kind = "receipt" => x.d \notin Paid(log) /\ UseIn(t, x.d) = x.use
    /\ Sum(t) = IF x.kind = "receipt" THEN Sum(log) + x.use ELSE Sum(log)
    /\ Size(t) = IF x.kind = "usage" THEN Size(log) ELSE Size(log) + 1

LEMMA LogGrown ==
    ASSUME NEW log \in Seq(Entry), NEW x \in Entry, Acceptable(log), May(log, x)
    PROVE  GrownBy(log, x, Append(log, x))
<1> DEFINE t == Append(log, x)
           n == Len(log)
<1>1. /\ t \in Seq(Entry) /\ n \in Nat /\ DOMAIN log = 1..n /\ DOMAIN t = 1..(n + 1)
      /\ t[n + 1] = x /\ \A i \in 1..n : t[i] = log[i]
  OBVIOUS
<1>2. Acceptable(t) BY AcceptsMore
<1>3. ToSet(t) = ToSet(log) \cup {x} BY AppendedSet
<1> HIDE DEF t, n
<1>x. x.d \in Deliveries /\ x.kind \in Kinds BY DEF Entry
<1>4. \A kind : Of(t, kind) = IF kind = x.kind THEN Of(log, kind) \cup {x.d} ELSE Of(log, kind)
  <2>1. \A kind, d : Has(ToSet(t), kind, d) <=> Has(ToSet(log), kind, d) \/ (x.kind = kind /\ x.d = d)
    BY <1>3 DEF Has
  <2>2. \A kind : \A d \in Deliveries : d \in Of(t, kind) <=> Has(ToSet(t), kind, d) BY OfHas
  <2>3. \A kind : \A d \in Deliveries : d \in Of(log, kind) <=> Has(ToSet(log), kind, d) BY OfHas
  <2>4. \A kind : Of(t, kind) \subseteq Deliveries /\ Of(log, kind) \subseteq Deliveries BY DEF Of
  <2>5. ASSUME NEW kind
        PROVE  Of(t, kind) = IF kind = x.kind THEN Of(log, kind) \cup {x.d} ELSE Of(log, kind)
    <3>1. \A d \in Deliveries :
             d \in Of(t, kind) <=> d \in Of(log, kind) \/ (x.kind = kind /\ x.d = d)
      BY <2>1, <2>2, <2>3
    <3>2. Of(t, kind) \subseteq Deliveries /\ Of(log, kind) \subseteq Deliveries BY <2>4
    <3> QED BY <1>x, <3>1, <3>2
  <2> QED BY <2>5
<1>5. ASSUME NEW d \in Paid(log)
      PROVE  UseIn(t, d) = UseIn(log, d)
  <2>1. PICK y \in ToSet(log) : y.kind = "receipt" /\ y.d = d /\ y.use = UseIn(log, d)
    BY UseRecorded DEF Paid
  <2>2. y \in ToSet(t) BY <1>3
  <2> QED BY <1>1, <1>2, <2>1, <2>2, UseOf
<1>6. ASSUME x.kind = "receipt"
      PROVE  x.d \notin Paid(log) /\ UseIn(t, x.d) = x.use
  <2>1. ~ Has(ToSet(log), "receipt", x.d) BY <1>6 DEF May
  <2>2. x.d \notin Paid(log) BY <1>x, <2>1, OfHas DEF Paid
  <2>3. x \in ToSet(t) BY <1>3
  <2> QED BY <1>1, <1>2, <1>6, <2>2, <2>3, UseOf
<1>7. Sum(t) = IF x.kind = "receipt" THEN Sum(log) + x.use ELSE Sum(log)
  <2>1. \A d \in Paid(log) : Uses(t)[d] = Uses(log)[d]
    BY <1>4, <1>5 DEF Uses, Paid
  <2>2. Whole(Uses(log), Paid(log)) /\ Whole(Uses(t), Paid(t)) BY <1>1, LogParts
  <2>3. Total(Uses(log), Paid(log)) = Total(Uses(t), Paid(log)) BY <2>1, <2>2, TotalSame
  <2>4. CASE x.kind = "receipt"
    <3>1. Paid(t) = Paid(log) \cup {x.d} BY <1>4, <2>4 DEF Paid
    <3>2. Uses(t)[x.d] = x.use BY <1>6, <2>4, <3>1 DEF Uses
    <3>3. Total(Uses(t), Paid(log) \cup {x.d}) = Total(Uses(t), Paid(log)) + Uses(t)[x.d]
      <4>1. Whole(Uses(t), Paid(log) \cup {x.d}) BY <2>2, <3>1
      <4>2. x.d \notin Paid(log) BY <1>6, <2>4
      <4> QED BY <4>1, <4>2, TotalAdd
    <3> QED BY <2>3, <2>4, <3>1, <3>2, <3>3 DEF Sum
  <2>5. CASE x.kind # "receipt"
    <3>1. Paid(t) = Paid(log) BY <1>4, <2>5 DEF Paid
    <3> QED BY <2>3, <2>5, <3>1 DEF Sum
  <2> QED BY <2>4, <2>5
<1>8. Size(t) = IF x.kind = "usage" THEN Size(log) ELSE Size(log) + 1
  <2>1. Accounting(t) = IF x.kind = "usage" THEN Accounting(log) ELSE Accounting(log) \cup {n + 1}
    BY <1>1 DEF Accounting
  <2>2. n + 1 \notin Accounting(log) BY <1>1 DEF Accounting
  <2>3. IsFiniteSet(Accounting(log)) BY LogParts
  <2>4. Cardinality(Accounting(log) \cup {n + 1}) = Cardinality(Accounting(log)) + 1
    BY <2>2, <2>3, FS_AddElement
  <2> QED BY <2>1, <2>4 DEF Size
<1>9. GrownBy(log, x, t) BY <1>1, <1>3, <1>4, <1>5, <1>6, <1>7, <1>8 DEF GrownBy
<1> QED BY <1>9 DEF t

(* A log that another one continues.                                        *)
LEMMA LogJoined ==
    ASSUME NEW log \in Seq(Entry), NEW rest \in Seq(Entry), Acceptable(log \o rest)
    PROVE  Size(log) <= Size(log \o rest) /\ Sum(log) <= Sum(log \o rest)
<1> DEFINE t == log \o rest
           n == Len(log)
<1>1. /\ t \in Seq(Entry) /\ n \in Nat /\ DOMAIN log = 1..n
      /\ \A i \in 1..n : i \in DOMAIN t /\ t[i] = log[i]
  OBVIOUS
<1>2. ToSet(t) = ToSet(log) \cup ToSet(rest) /\ Acceptable(log) /\ Acceptable(t)
  BY JoinedSet, AcceptsLess
<1> HIDE DEF t, n
<1>3. Size(log) <= Size(t)
  <2>1. Accounting(log) \in SUBSET Accounting(t) BY <1>1 DEF Accounting
  <2>2. IsFiniteSet(Accounting(t)) BY <1>1, LogParts
  <2> QED BY <2>1, <2>2, FS_Subset DEF Size
<1>4. Sum(log) <= Sum(t)
  <2>1. ASSUME NEW d \in Paid(log)
        PROVE  d \in Paid(t) /\ UseIn(t, d) = UseIn(log, d)
    <3>1. PICK y \in ToSet(log) : y.kind = "receipt" /\ y.d = d /\ y.use = UseIn(log, d)
      BY UseRecorded DEF Paid
    <3>2. y \in ToSet(t) BY <1>2
    <3> QED BY <1>1, <1>2, <3>1, <3>2, UseOf
  <2>2. Whole(Uses(log), Paid(log)) /\ Whole(Uses(t), Paid(t))
        /\ \A d \in Paid(t) : UseIn(t, d) \in 0..MaxUse
    BY <1>1, LogParts
  <2>3. Total(Uses(log), Paid(log)) = Total(Uses(t), Paid(log))
    <3>1. \A d \in Paid(log) : Uses(log)[d] = Uses(t)[d] BY <2>1 DEF Uses
    <3> QED BY <2>2, <3>1, TotalSame
  <2>4. Total(Uses(t), Paid(log)) <= Total(Uses(t), Paid(t))
    <3>1. \A d \in Paid(t) : Uses(t)[d] >= 0 BY <2>2, LedgerAssumption DEF Uses
    <3>2. Paid(log) \in SUBSET Paid(t) BY <2>1
    <3> QED BY <2>2, <3>1, <3>2, TotalGrows
  <2> QED BY <2>3, <2>4 DEF Sum
<1> QED BY <1>3, <1>4 DEF t
-----------------------------------------------------------------------------
(* The ledger after each operation, as its records say.                     *)

Filled(L) == L = [f \in LedgerFields |-> L[f]]
Same(L, M, fields) == Filled(M) /\ \A f \in LedgerFields \ fields : M[f] = L[f]
Costs(log, S) == [d \in Paid(log) \ S |-> UseIn(log, d)]
Blank(log) == \E d \in Paid(log) : UseIn(log, d) = Unknown

(* What a log with one more record shows of its deliveries.                 *)
Grew(log, x, t) ==
    /\ x.kind # "receipt" => /\ Paid(t) = Paid(log) /\ Sum(t) = Sum(log)
                             /\ \A S : Costs(t, S) = Costs(log, S)
    /\ x.kind \notin {"started", "abandoned", "receipt"} => Dangling(t) = Dangling(log)
    /\ x.kind \in {"abandoned", "receipt"} => Dangling(t) = Dangling(log) \ {x.d}
    /\ x.kind = "started" /\ x.d \notin Of(log, "abandoned") /\ x.d \notin Paid(log)
          => Dangling(t) = Dangling(log) \cup {x.d}
    /\ x.kind = "receipt" => /\ Paid(t) = Paid(log) \cup {x.d} /\ x.d \notin Paid(log)
                             /\ Sum(t) = Sum(log) + x.use
                             /\ Costs(t, {x.d}) = Costs(log, {})
    /\ Blank(log) => Blank(t)
    /\ x.kind = "receipt" /\ x.use = Unknown => Blank(t)

LEMMA GrownParts ==
    ASSUME NEW log, NEW x, NEW t, GrownBy(log, x, t)
    PROVE  Grew(log, x, t)
<1>1. \A kind : Of(t, kind) = IF kind = x.kind THEN Of(log, kind) \cup {x.d} ELSE Of(log, kind)
  BY DEF GrownBy
<1>2. \A d \in Paid(log) : UseIn(t, d) = UseIn(log, d) BY DEF GrownBy
<1>3. x.kind = "receipt" => x.d \notin Paid(log) /\ UseIn(t, x.d) = x.use BY DEF GrownBy
<1>4. Sum(t) = IF x.kind = "receipt" THEN Sum(log) + x.use ELSE Sum(log) BY DEF GrownBy
<1>5. Paid(t) = IF x.kind = "receipt" THEN Paid(log) \cup {x.d} ELSE Paid(log)
  BY <1>1 DEF Paid
<1>6. x.kind # "receipt" => \A S : Costs(t, S) = Costs(log, S) BY <1>2, <1>5 DEF Costs
<1>7. x.kind = "receipt" => Costs(t, {x.d}) = Costs(log, {})
  <2>1. x.kind = "receipt" => Paid(t) \ {x.d} = Paid(log) \ {} BY <1>3, <1>5
  <2> QED BY <1>2, <2>1 DEF Costs
<1>8. Dangling(t) = (Of(t, "started") \ Of(t, "abandoned")) \ Paid(t)
      /\ Dangling(log) = (Of(log, "started") \ Of(log, "abandoned")) \ Paid(log)
  BY DEF Dangling
<1>9. /\ Of(t, "started") = IF x.kind = "started" THEN Of(log, "started") \cup {x.d}
                                                  ELSE Of(log, "started")
      /\ Of(t, "abandoned") = IF x.kind = "abandoned" THEN Of(log, "abandoned") \cup {x.d}
                                                      ELSE Of(log, "abandoned")
  BY <1>1
<1>10. x.kind \notin {"started", "abandoned", "receipt"} => Dangling(t) = Dangling(log)
  BY <1>5, <1>8, <1>9
<1>11. x.kind \in {"abandoned", "receipt"} => Dangling(t) = Dangling(log) \ {x.d}
  BY <1>5, <1>8, <1>9
<1>12. x.kind = "started" /\ x.d \notin Of(log, "abandoned") /\ x.d \notin Paid(log)
          => Dangling(t) = Dangling(log) \cup {x.d}
  BY <1>5, <1>8, <1>9
<1>13. Blank(log) => Blank(t) BY <1>2, <1>5 DEF Blank
<1>14. x.kind = "receipt" /\ x.use = Unknown => Blank(t) BY <1>3, <1>5 DEF Blank
<1> QED BY <1>3, <1>4, <1>5, <1>6, <1>7, <1>10, <1>11, <1>12, <1>13, <1>14 DEF Grew

LEMMA MirrorIs ==
    ASSUME NEW L, NEW log, NEW S, NEW K, NEW T, NEW lag, NEW over
    PROVE  Mirror(L, log, S, K, T, lag, over) <=>
              /\ Filled(L)
              /\ L.intents = Of(log, "intent") /\ L.abandoned = Of(log, "abandoned")
              /\ L.sources = Of(log, "source") \ S
              /\ L.started = (Dangling(log) \ K) \cup T
              /\ L.receipts = Costs(log, T)
              /\ L.total = Sum(log) /\ L.count = Size(log) - lag
              /\ L.unknown => Blank(log) \/ Dangling(log) \cap over # {}
BY DEF Mirror, Filled, Costs, Blank

LEMMA BeginMirrors ==
    ASSUME NEW L, NEW M, NEW log \in Seq(Entry), NEW x, NEW t, NEW over,
           GrownBy(log, x, t), x.kind = "intent", Mirror(L, log, {}, {}, {}, 0, over),
           Same(L, M, {"intents", "count"}),
           M.intents = L.intents \cup {x.d}, M.count = L.count + 1
    PROVE  Mirror(M, t, {}, {}, {}, 0, over)
<1>1. /\ Of(t, "intent") = Of(log, "intent") \cup {x.d}
      /\ Of(t, "abandoned") = Of(log, "abandoned") /\ Of(t, "source") = Of(log, "source")
      /\ Size(t) = Size(log) + 1
  BY DEF GrownBy
<1>g. Grew(log, x, t) BY GrownParts
<1>2. Dangling(t) = Dangling(log) /\ Costs(t, {}) = Costs(log, {}) /\ Sum(t) = Sum(log)
      /\ (Blank(log) => Blank(t))
  BY <1>g DEF Grew
<1>3. /\ Filled(M) /\ M.abandoned = L.abandoned /\ M.sources = L.sources
      /\ M.started = L.started /\ M.receipts = L.receipts /\ M.total = L.total
      /\ M.unknown = L.unknown
  BY DEF Same, LedgerFields
<1>4. Size(log) \in Nat BY LogParts
<1>5. /\ L.intents = Of(log, "intent") /\ L.abandoned = Of(log, "abandoned")
      /\ L.sources = Of(log, "source") \ {} /\ L.started = (Dangling(log) \ {}) \cup {}
      /\ L.receipts = Costs(log, {}) /\ L.total = Sum(log) /\ L.count = Size(log) - 0
      /\ L.unknown => Blank(log) \/ Dangling(log) \cap over # {}
  BY MirrorIs
<1>6. M.count = Size(t) - 0 BY <1>1, <1>4, <1>5
<1> QED BY <1>1, <1>2, <1>3, <1>5, <1>6, MirrorIs

LEMMA SourceMirrors ==
    ASSUME NEW L, NEW log \in Seq(Entry), NEW x, NEW t, NEW over,
           GrownBy(log, x, t), x.kind = "source", Mirror(L, log, {}, {}, {}, 0, over),
           x.d \notin L.sources
    PROVE  Mirror(L, t, {x.d}, {}, {}, 1, over)
<1>1. /\ Of(t, "source") = Of(log, "source") \cup {x.d} /\ Size(t) = Size(log) + 1
      /\ Of(t, "abandoned") = Of(log, "abandoned") /\ Of(t, "intent") = Of(log, "intent")
  BY DEF GrownBy
<1>g. Grew(log, x, t) BY GrownParts
<1>2. Dangling(t) = Dangling(log) /\ Costs(t, {}) = Costs(log, {}) /\ Sum(t) = Sum(log)
      /\ (Blank(log) => Blank(t))
  BY <1>g DEF Grew
<1>3. Size(log) \in Nat BY LogParts
<1>4. /\ Filled(L)
      /\ L.intents = Of(log, "intent") /\ L.abandoned = Of(log, "abandoned")
      /\ L.sources = Of(log, "source") \ {} /\ L.started = (Dangling(log) \ {}) \cup {}
      /\ L.receipts = Costs(log, {}) /\ L.total = Sum(log) /\ L.count = Size(log) - 0
      /\ L.unknown => Blank(log) \/ Dangling(log) \cap over # {}
  BY MirrorIs
<1>5. L.count = Size(t) - 1 /\ L.sources = Of(t, "source") \ {x.d} BY <1>1, <1>3, <1>4
<1> QED BY <1>1, <1>2, <1>4, <1>5, MirrorIs

LEMMA SourceLands ==
    ASSUME NEW L, NEW M, NEW log \in Seq(Entry), NEW d \in Of(log, "source"), NEW over,
           Mirror(L, log, {d}, {}, {}, 1, over),
           Same(L, M, {"sources", "count"}),
           M.sources = L.sources \cup {d}, M.count = L.count + 1
    PROVE  Mirror(M, log, {}, {}, {}, 0, over)
<1>1. Size(log) \in Nat BY LogParts
<1>2. /\ L.intents = Of(log, "intent") /\ L.abandoned = Of(log, "abandoned")
      /\ L.sources = Of(log, "source") \ {d} /\ L.started = (Dangling(log) \ {}) \cup {}
      /\ L.receipts = Costs(log, {}) /\ L.total = Sum(log) /\ L.count = Size(log) - 1
      /\ L.unknown => Blank(log) \/ Dangling(log) \cap over # {}
  BY MirrorIs
<1>3. /\ Filled(M) /\ M.abandoned = L.abandoned /\ M.intents = L.intents
      /\ M.started = L.started /\ M.receipts = L.receipts /\ M.total = L.total
      /\ M.unknown = L.unknown
  BY DEF Same, LedgerFields
<1>4. M.count = Size(log) - 0 /\ M.sources = Of(log, "source") \ {} BY <1>1, <1>2
<1> QED BY <1>2, <1>3, <1>4, MirrorIs

LEMMA MarkMirrors ==
    ASSUME NEW L, NEW log \in Seq(Entry), NEW x, NEW t, NEW over,
           GrownBy(log, x, t), x.kind = "started", Mirror(L, log, {}, {}, {}, 0, over),
           x.d \notin Of(log, "started"), x.d \notin Of(log, "abandoned"), x.d \notin Paid(log)
    PROVE  Mirror(L, t, {}, {x.d}, {}, 1, over)
<1>1. /\ Of(t, "source") = Of(log, "source") /\ Size(t) = Size(log) + 1
      /\ Of(t, "abandoned") = Of(log, "abandoned") /\ Of(t, "intent") = Of(log, "intent")
  BY DEF GrownBy
<1>g. Grew(log, x, t) BY GrownParts
<1>2. Dangling(t) = Dangling(log) \cup {x.d} /\ Costs(t, {}) = Costs(log, {})
      /\ Sum(t) = Sum(log) /\ (Blank(log) => Blank(t))
  BY <1>g DEF Grew
<1>3. Size(log) \in Nat BY LogParts
<1>4. /\ Filled(L)
      /\ L.intents = Of(log, "intent") /\ L.abandoned = Of(log, "abandoned")
      /\ L.sources = Of(log, "source") \ {} /\ L.started = (Dangling(log) \ {}) \cup {}
      /\ L.receipts = Costs(log, {}) /\ L.total = Sum(log) /\ L.count = Size(log) - 0
      /\ L.unknown => Blank(log) \/ Dangling(log) \cap over # {}
  BY MirrorIs
<1>5. x.d \notin Dangling(log) BY DEF Dangling
<1>6. L.count = Size(t) - 1 /\ L.started = (Dangling(t) \ {x.d}) \cup {}
  BY <1>1, <1>2, <1>3, <1>4, <1>5
<1>7. L.unknown => Blank(t) \/ Dangling(t) \cap over # {} BY <1>2, <1>4
<1> QED BY <1>1, <1>2, <1>4, <1>6, <1>7, MirrorIs

LEMMA MarkLands ==
    ASSUME NEW L, NEW M, NEW log \in Seq(Entry), NEW d \in Dangling(log), NEW over,
           Mirror(L, log, {}, {d}, {}, 1, over),
           Same(L, M, {"started", "count"}),
           M.started = L.started \cup {d}, M.count = L.count + 1
    PROVE  Mirror(M, log, {}, {}, {}, 0, over)
<1>1. Size(log) \in Nat BY LogParts
<1>2. /\ L.intents = Of(log, "intent") /\ L.abandoned = Of(log, "abandoned")
      /\ L.sources = Of(log, "source") \ {} /\ L.started = (Dangling(log) \ {d}) \cup {}
      /\ L.receipts = Costs(log, {}) /\ L.total = Sum(log) /\ L.count = Size(log) - 1
      /\ L.unknown => Blank(log) \/ Dangling(log) \cap over # {}
  BY MirrorIs
<1>3. /\ Filled(M) /\ M.abandoned = L.abandoned /\ M.intents = L.intents
      /\ M.sources = L.sources /\ M.receipts = L.receipts /\ M.total = L.total
      /\ M.unknown = L.unknown
  BY DEF Same, LedgerFields
<1>4. M.count = Size(log) - 0 /\ M.started = (Dangling(log) \ {}) \cup {} BY <1>1, <1>2
<1> QED BY <1>2, <1>3, <1>4, MirrorIs

LEMMA AbandonMirrors ==
    ASSUME NEW L, NEW M, NEW log \in Seq(Entry), NEW x, NEW t, NEW over,
           GrownBy(log, x, t), x.kind = "abandoned", Mirror(L, log, {}, {}, {}, 0, over),
           x.d \notin over, Same(L, M, {"abandoned", "started", "count"}),
           M.abandoned = L.abandoned \cup {x.d}, M.started = L.started \ {x.d},
           M.count = L.count + 1
    PROVE  Mirror(M, t, {}, {}, {}, 0, over)
<1>1. /\ Of(t, "source") = Of(log, "source") /\ Size(t) = Size(log) + 1
      /\ Of(t, "abandoned") = Of(log, "abandoned") \cup {x.d} /\ Of(t, "intent") = Of(log, "intent")
  BY DEF GrownBy
<1>g. Grew(log, x, t) BY GrownParts
<1>2. Dangling(t) = Dangling(log) \ {x.d} /\ Costs(t, {}) = Costs(log, {})
      /\ Sum(t) = Sum(log) /\ (Blank(log) => Blank(t))
  BY <1>g DEF Grew
<1>3. Size(log) \in Nat BY LogParts
<1>4. /\ L.intents = Of(log, "intent") /\ L.abandoned = Of(log, "abandoned")
      /\ L.sources = Of(log, "source") \ {} /\ L.started = (Dangling(log) \ {}) \cup {}
      /\ L.receipts = Costs(log, {}) /\ L.total = Sum(log) /\ L.count = Size(log) - 0
      /\ L.unknown => Blank(log) \/ Dangling(log) \cap over # {}
  BY MirrorIs
<1>5. /\ Filled(M) /\ M.sources = L.sources /\ M.intents = L.intents
      /\ M.receipts = L.receipts /\ M.total = L.total /\ M.unknown = L.unknown
  BY DEF Same, LedgerFields
<1>6. M.count = Size(t) - 0 /\ M.started = (Dangling(t) \ {}) \cup {} BY <1>1, <1>2, <1>3, <1>4
<1>7. M.unknown => Blank(t) \/ Dangling(t) \cap over # {} BY <1>2, <1>4, <1>5
<1> QED BY <1>1, <1>2, <1>4, <1>5, <1>6, <1>7, MirrorIs

LEMMA EndMirrors ==
    ASSUME NEW L, NEW M, NEW log \in Seq(Entry), NEW x \in Entry, NEW t, NEW over,
           GrownBy(log, x, t), x.kind = "receipt", Mirror(L, log, {}, {}, {}, 0, over),
           x.d \notin over, x.d \in Dangling(log), Same(L, M, {"total", "unknown"}),
           M.total = L.total + x.use, M.unknown = (L.unknown \/ x.use = Unknown)
    PROVE  Mirror(M, t, {}, {}, {x.d}, 1, over)
<1>1. /\ Of(t, "source") = Of(log, "source") /\ Size(t) = Size(log) + 1
      /\ Of(t, "abandoned") = Of(log, "abandoned") /\ Of(t, "intent") = Of(log, "intent")
  BY DEF GrownBy
<1>g. Grew(log, x, t) BY GrownParts
<1>2. Dangling(t) = Dangling(log) \ {x.d} /\ Costs(t, {x.d}) = Costs(log, {})
      /\ Sum(t) = Sum(log) + x.use /\ (Blank(log) => Blank(t)) /\ (x.use = Unknown => Blank(t))
  BY <1>g DEF Grew
<1>3. Size(log) \in Nat BY LogParts
<1>4. /\ L.intents = Of(log, "intent") /\ L.abandoned = Of(log, "abandoned")
      /\ L.sources = Of(log, "source") \ {} /\ L.started = (Dangling(log) \ {}) \cup {}
      /\ L.receipts = Costs(log, {}) /\ L.total = Sum(log) /\ L.count = Size(log) - 0
      /\ L.unknown => Blank(log) \/ Dangling(log) \cap over # {}
  BY MirrorIs
<1>5. /\ Filled(M) /\ M.sources = L.sources /\ M.intents = L.intents
      /\ M.receipts = L.receipts /\ M.abandoned = L.abandoned /\ M.started = L.started
      /\ M.count = L.count
  BY DEF Same, LedgerFields
<1>6. M.count = Size(t) - 1 /\ M.started = (Dangling(t) \ {}) \cup {x.d}
      /\ M.total = Sum(t)
  BY <1>1, <1>2, <1>3, <1>4, <1>5
<1>7. Dangling(log) \cap over # {} => Dangling(t) \cap over # {} BY <1>2
<1>8. M.unknown => Blank(t) \/ Dangling(t) \cap over # {} BY <1>2, <1>4, <1>7, Zenon
<1> QED BY <1>1, <1>2, <1>4, <1>5, <1>6, <1>8, MirrorIs

LEMMA SettleLands ==
    ASSUME NEW L, NEW M, NEW log \in Seq(Entry), NEW d \in Paid(log), NEW over,
           Mirror(L, log, {}, {}, {d}, 1, over),
           Same(L, M, {"receipts", "started", "count"}),
           M.receipts = Extended(L.receipts, d, UseIn(log, d)),
           M.started = L.started \ {d}, M.count = L.count + 1
    PROVE  Mirror(M, log, {}, {}, {}, 0, over)
<1>1. Size(log) \in Nat BY LogParts
<1>2. /\ L.intents = Of(log, "intent") /\ L.abandoned = Of(log, "abandoned")
      /\ L.sources = Of(log, "source") \ {} /\ L.started = (Dangling(log) \ {}) \cup {d}
      /\ L.receipts = Costs(log, {d}) /\ L.total = Sum(log) /\ L.count = Size(log) - 1
      /\ L.unknown => Blank(log) \/ Dangling(log) \cap over # {}
  BY MirrorIs
<1>3. /\ Filled(M) /\ M.abandoned = L.abandoned /\ M.intents = L.intents
      /\ M.sources = L.sources /\ M.total = L.total /\ M.unknown = L.unknown
  BY DEF Same, LedgerFields
<1>4. d \notin Dangling(log) BY DEF Dangling
<1>5. M.count = Size(log) - 0 /\ M.started = (Dangling(log) \ {}) \cup {} BY <1>1, <1>2, <1>4
<1>6. M.receipts = Costs(log, {})
  <2>1. DOMAIN Costs(log, {d}) = Paid(log) \ {d}
        /\ \A e \in Paid(log) \ {d} : Costs(log, {d})[e] = UseIn(log, e)
    BY DEF Costs
  <2>2. Extended(Costs(log, {d}), d, UseIn(log, d)) =
          [e \in Paid(log) |-> IF e \in Paid(log) \ {d} THEN Costs(log, {d})[e] ELSE UseIn(log, d)]
    <3>1. (Paid(log) \ {d}) \cup {d} = Paid(log) OBVIOUS
    <3> QED BY <2>1, <3>1 DEF Extended
  <2>3. \A e \in Paid(log) :
          (IF e \in Paid(log) \ {d} THEN Costs(log, {d})[e] ELSE UseIn(log, d)) = UseIn(log, e)
    BY <2>1
  <2>4. Costs(log, {}) = [e \in Paid(log) |-> UseIn(log, e)] BY DEF Costs
  <2> QED BY <1>2, <2>2, <2>3, <2>4
<1> QED BY <1>2, <1>3, <1>5, <1>6, MirrorIs

(* A record of usage shown, receipts consumed, more deliveries ended.       *)
LEMMA ShowMirrors ==
    ASSUME NEW L, NEW log \in Seq(Entry), NEW x, NEW t, NEW S, NEW K, NEW T, NEW lag, NEW over,
           GrownBy(log, x, t), x.kind = "usage", Mirror(L, log, S, K, T, lag, over)
    PROVE  Mirror(L, t, S, K, T, lag, over)
<1>1. /\ Of(t, "source") = Of(log, "source") /\ Size(t) = Size(log)
      /\ Of(t, "abandoned") = Of(log, "abandoned") /\ Of(t, "intent") = Of(log, "intent")
  BY DEF GrownBy
<1>g. Grew(log, x, t) BY GrownParts
<1>2. Dangling(t) = Dangling(log) /\ Costs(t, T) = Costs(log, T) /\ Sum(t) = Sum(log)
      /\ (Blank(log) => Blank(t))
  BY <1>g DEF Grew
<1>3. /\ Filled(L)
      /\ L.intents = Of(log, "intent") /\ L.abandoned = Of(log, "abandoned")
      /\ L.sources = Of(log, "source") \ S /\ L.started = (Dangling(log) \ K) \cup T
      /\ L.receipts = Costs(log, T) /\ L.total = Sum(log) /\ L.count = Size(log) - lag
      /\ L.unknown => Blank(log) \/ Dangling(log) \cap over # {}
  BY MirrorIs
<1> QED BY <1>1, <1>2, <1>3, MirrorIs

LEMMA ConsumeMirrors ==
    ASSUME NEW L, NEW M, NEW log, NEW S, NEW K, NEW T, NEW lag, NEW over,
           Mirror(L, log, S, K, T, lag, over), Same(L, M, {"consumed"})
    PROVE  Mirror(M, log, S, K, T, lag, over)
<1>1. /\ L.intents = Of(log, "intent") /\ L.abandoned = Of(log, "abandoned")
      /\ L.sources = Of(log, "source") \ S /\ L.started = (Dangling(log) \ K) \cup T
      /\ L.receipts = Costs(log, T) /\ L.total = Sum(log) /\ L.count = Size(log) - lag
      /\ L.unknown => Blank(log) \/ Dangling(log) \cap over # {}
  BY MirrorIs
<1>2. /\ Filled(M) /\ M.abandoned = L.abandoned /\ M.intents = L.intents
      /\ M.sources = L.sources /\ M.total = L.total /\ M.unknown = L.unknown
      /\ M.started = L.started /\ M.receipts = L.receipts /\ M.count = L.count
  BY DEF Same, LedgerFields
<1> QED BY <1>1, <1>2, MirrorIs

LEMMA OverMirrors ==
    ASSUME NEW L, NEW log, NEW S, NEW K, NEW T, NEW lag, NEW over, NEW more,
           Mirror(L, log, S, K, T, lag, over), over \subseteq more
    PROVE  Mirror(L, log, S, K, T, lag, more)
BY DEF Mirror

LEMMA RecoverMirrors ==
    ASSUME NEW log \in Seq(Entry), NEW over, Dangling(log) \subseteq over
    PROVE  Mirror(Recover(log), log, {}, {}, {}, 0, over)
<1> DEFINE L == Recover(log)
<1>1. Filled(L)
  <2>1. DOMAIN L = LedgerFields BY RecoverShape
  <2> QED BY <2>1 DEF Filled, Recover
<1>2. /\ L.intents = Of(log, "intent") /\ L.abandoned = Of(log, "abandoned")
      /\ L.sources = Of(log, "source") /\ L.started = Dangling(log)
  BY DEF Recover, Dangling, Paid
<1>3. L.receipts = Costs(log, {})
  <2>1. Paid(log) \ {} = Paid(log) OBVIOUS
  <2>2. L.receipts = [d \in Paid(log) |-> UseIn(log, d)] BY DEF Recover, Paid
  <2> QED BY <2>1, <2>2 DEF Costs
<1>4. L.total = Sum(log) /\ L.count = Size(log) /\ Size(log) \in Nat BY LogParts
<1>5. L.unknown => Dangling(log) # {} \/ Blank(log)
  <2>1. L.unknown = (Dangling(log) # {} \/ \E d \in Paid(log) : Uses(log)[d] = Unknown)
    BY DEF Recover, Dangling, Paid, Uses
  <2>2. (\E d \in Paid(log) : Uses(log)[d] = Unknown) => Blank(log) BY DEF Uses, Blank
  <2> QED BY <2>1, <2>2, Zenon
<1> HIDE DEF L
<1>6. Mirror(L, log, {}, {}, {}, 0, over)
  <2>1. L.count = Size(log) - 0 /\ L.sources = Of(log, "source") \ {}
        /\ L.started = (Dangling(log) \ {}) \cup {}
    BY <1>2, <1>4
  <2>2. L.unknown => Blank(log) \/ Dangling(log) \cap over # {} BY <1>5
  <2> QED BY <1>1, <1>2, <1>3, <1>4, <2>1, <2>2, MirrorIs
<1> QED BY <1>6 DEF L

(* Usage shown, after each operation.                                       *)
LEMMA ShowStays ==
    ASSUME NEW L, NEW M, NEW shown, NEW toShow, Show(L, shown, toShow),
           M.consumed = L.consumed, DOMAIN L.receipts \subseteq DOMAIN M.receipts,
           \A d \in DOMAIN L.receipts : M.receipts[d] = L.receipts[d]
    PROVE  Show(M, shown, toShow)
BY DEF Show

LEMMA ShowOne ==
    ASSUME NEW L, NEW shown, NEW toShow, Show(L, shown, toShow), NEW d \in toShow
    PROVE  Show(L, shown \cup {d}, toShow \ {d})
BY DEF Show

LEMMA ShowConsumes ==
    ASSUME NEW L, NEW M, NEW shown, NEW toShow, NEW fresh, NEW priced,
           Show(L, shown, toShow), M.receipts = L.receipts,
           fresh = (DOMAIN L.receipts \cap Auxiliary) \ L.consumed,
           M.consumed = L.consumed \cup fresh,
           priced = {d \in fresh : L.receipts[d] # Unknown}
    PROVE  Show(M, shown, toShow \cup priced)
BY DEF Show

LEMMA ShowRecovers ==
    ASSUME NEW log \in Seq(Entry), Acceptable(log)
    PROVE  Show(Recover(log), Of(log, "usage"), {})
<1>1. ASSUME NEW d \in Of(log, "usage")
      PROVE  d \in Paid(log) \cap Auxiliary
  <2>1. PICK i \in DOMAIN log : log[i].kind = "usage" /\ log[i].d = d BY DEF Of
  <2>2. Before(log, i, "receipt") /\ d \in Auxiliary BY <2>1, AcceptableIs DEF Rules
  <2>3. PICK j \in 1..(i - 1) : log[j].kind = "receipt" /\ log[j].d = d BY <2>1, <2>2 DEF Before
  <2>4. j \in DOMAIN log
    <3>1. DOMAIN log = 1..Len(log) /\ Len(log) \in Nat OBVIOUS
    <3> QED BY <3>1
  <2>5. d \in Deliveries BY DEF Of
  <2> QED BY <2>2, <2>3, <2>4, <2>5 DEF Paid, Of
<1>2. Recover(log).consumed = Of(log, "usage") /\ DOMAIN Recover(log).receipts = Paid(log)
  BY RecoverShape DEF Recover, Shown, Paid
<1> QED BY <1>1, <1>2 DEF Show

-----------------------------------------------------------------------------
(* The records, the places and the stages of a run, over a step.            *)

LEMMA LogIs ==
    ASSUME Logged, NEW r \in Runs
    PROVE  /\ journal[r] \in Seq(Entry) /\ buffer[r] \in Seq(Entry) /\ Log(r) \in Seq(Entry)
           /\ ToSet(Log(r)) = Records(r)
<1>1. journal[r] \in Seq(Entry) /\ buffer[r] \in Seq(Entry) BY DEF Logged
<1> QED BY <1>1, JoinedSet DEF Log, Records

LEMMA LogRecord ==
    ASSUME Logged, NEW r \in Runs, NEW x \in Entry, Record(r, x), UNCHANGED journal
    PROVE  /\ Log(r)' = Append(Log(r), x) /\ buffer'[r] = Append(buffer[r], x)
           /\ journal'[r] = journal[r]
<1>1. buffer'[r] = Append(buffer[r], x) /\ journal'[r] = journal[r] BY DEF Record, Logged
<1>2. journal[r] \in Seq(Entry) /\ buffer[r] \in Seq(Entry) BY LogIs
<1>3. ASSUME NEW s \in Seq(Entry), NEW b \in Seq(Entry)
      PROVE  s \o Append(b, x) = Append(s \o b, x)
  OBVIOUS
<1> QED BY <1>1, <1>2, <1>3 DEF Log

LEMMA LogCommit ==
    ASSUME Logged, NEW r \in Runs, Commit(r)
    PROVE  Log(r)' = Log(r) /\ journal'[r] = Log(r) /\ buffer'[r] = <<>>
<1>1. journal'[r] = Log(r) /\ buffer'[r] = <<>> BY DEF Commit, Logged, Log
<1>2. Log(r) \in Seq(Entry) BY LogIs
<1>3. Log(r) \o <<>> = Log(r) BY <1>2
<1> QED BY <1>1, <1>3 DEF Log

LEMMA OwnedAlike ==
    ASSUME LedgerInv, NEW r \in Runs, Health(r) = "ok", NEW y \in Records(r)
    PROVE  y.owner = ThisOwner
<1>1. Shapes /\ RunKnown(r) BY DEF LedgerInv, SpendInv, BudgetKnows
<1>2. y \in Entry
  <2>1. Logged BY <1>1, ShapesEq
  <2>2. ToSet(Log(r)) = Records(r) /\ Log(r) \in Seq(Entry) BY <2>1, LogIs
  <2> QED BY <2>2 DEF ToSet
<1>3. y.owner = budget.owner BY <1>1 DEF RunKnown
<1>4. budget.owner # NoBudgetOwner BY <1>2, <1>3 DEF Entry, NoBudgetOwner
<1> QED BY <1>3, <1>4 DEF ThisOwner

(* Where the deliveries of a run are.                                       *)
LEMMA PlacesMove ==
    ASSUME NEW d \in Deliveries, \A e \in Deliveries \ {d} : pc'[e] = pc[e]
    PROVE  \A place : At(RunOf[d], place)' = IF pc'[d] = place THEN At(RunOf[d], place) \cup {d}
                                             ELSE At(RunOf[d], place) \ {d}
BY DEF At, Calls

LEMMA PlacesOpen ==
    ASSUME NEW r
    PROVE  ~ Locked(r) <=> At(r, "source") = {} /\ At(r, "mark") = {} /\ At(r, "settle") = {}
BY DEF At, Locked

LEMMA PlacesFlush ==
    ASSUME OneFlush, NEW d \in Deliveries, pc[d] \in Flushing, NEW place \in Flushing
    PROVE  At(RunOf[d], place) = IF place = pc[d] THEN {d} ELSE {}
BY DEF At, Calls, OneFlush

(* A delivery that a step neither moves nor records anything of.            *)
LEMMA StageStays ==
    ASSUME NEW r, NEW e, Stage(r, e), pc'[e] = pc[e],
           \A kind : Has(Records(r)', kind, e) => Has(Records(r), kind, e),
           Health(r)' = "ok" =>
              /\ Health(r) = "ok"
              /\ \A kind : Has(Records(r), kind, e) => Has(Records(r)', kind, e)
              /\ pc[e] = "settle" /\ e \in Of(buffer[r], "receipt") => e \in Of(buffer'[r], "receipt")
    PROVE  Stage(r, e)'
BY DEF Stage, Health, Records, Durable

(* A run that a step leaves alone.                                          *)
LEMMA RunStays ==
    ASSUME NEW r \in Runs, RunInv(r), journal'[r] = journal[r], buffer'[r] = buffer[r],
           ledger'[r] = ledger[r], ckpt'[r] = ckpt[r], unshown'[r] = unshown[r],
           \A d \in Calls(r) : pc'[d] = pc[d]
    PROVE  RunInv(r)'
<1>1. Log(r)' = Log(r) /\ Records(r)' = Records(r) BY DEF Log, Records
<1>2. \A place : At(r, place)' = At(r, place) BY DEF At, Calls
<1>3. Locked(r)' = Locked(r) BY DEF Locked, Calls
<1>4. Staged(r)'
  <2>1. \A d \in Calls(r) : Stage(r, d) BY DEF RunInv, Staged
  <2>2. Calls(r)' = Calls(r) BY DEF Calls
  <2>3. ASSUME NEW d \in Calls(r)
        PROVE  Stage(r, d)'
    <3>1. Stage(r, d) /\ pc'[d] = pc[d] BY <2>1
    <3>2. Health(r)' = Health(r) BY DEF Health
    <3> QED BY <1>1, <3>1, <3>2, StageStays
  <2> QED BY <2>2, <2>3 DEF Staged
<1>5. Acceptable(Log(r))' BY <1>1 DEF RunInv
<1>6. Covers(r)' BY DEF RunInv, Covers, Covered
<1>7. Health(r)' = "ok" => Mirrors(r)' /\ Shows(r)'
  BY <1>1, <1>2, <1>3 DEF RunInv, Mirrors, Shows, Health
<1>8. Health(r)' = "failed" /\ buffer'[r] # <<>> => Trails(r)'
  BY <1>1 DEF RunInv, Trails, Health
<1>9. Health(r)' = "lost" => buffer'[r] = <<>> BY DEF RunInv, Health
<1> QED BY <1>4, <1>5, <1>6, <1>7, <1>8, <1>9 DEF RunInv, Health

(* What the mirror of a run comes to, before and after a step.              *)
Lag(S, K, T) == IF S = {} /\ K = {} /\ T = {} THEN 0 ELSE 1

LEMMA MirrorsTo ==
    ASSUME NEW r, Mirrors(r)
    PROVE  Mirror(ledger[r], Log(r), At(r, "source"), At(r, "mark"), At(r, "settle"),
                  Lag(At(r, "source"), At(r, "mark"), At(r, "settle")), At(r, "done"))
<1>1. (IF Locked(r) THEN 1 ELSE 0) = Lag(At(r, "source"), At(r, "mark"), At(r, "settle"))
  BY PlacesOpen DEF Lag
<1> QED BY <1>1 DEF Mirrors

LEMMA MirrorsFrom ==
    ASSUME NEW r, NEW S, NEW K, NEW T, NEW over,
           At(r, "source")' = S, At(r, "mark")' = K, At(r, "settle")' = T, At(r, "done")' = over,
           Mirror(ledger'[r], Log(r)', S, K, T, Lag(S, K, T), over)
    PROVE  Mirrors(r)'
<1>1. Locked(r)' <=> At(r, "source")' # {} \/ At(r, "mark")' # {} \/ At(r, "settle")' # {}
  BY DEF At, Locked, Calls
<1>2. (IF Locked(r)' THEN 1 ELSE 0) = Lag(S, K, T) BY <1>1 DEF Lag
<1> QED BY <1>2 DEF Mirrors

LEMMA NoLag == Lag({}, {}, {}) = 0 /\ \A d : /\ Lag({d}, {}, {}) = 1 /\ Lag({}, {d}, {}) = 1
                                            /\ Lag({}, {}, {d}) = 1
BY DEF Lag

(* A record that no recovery refuses.                                       *)
Suits(r, kind, d) ==
    LET Is(k) == Has(Records(r), k, d)
    IN  /\ kind = "started" => Is("intent") /\ ~ Is("abandoned")
        /\ kind = "receipt" => Is("started") /\ ~ Is("abandoned") /\ ~ Is("receipt")
        /\ kind = "abandoned" => Is("intent") /\ ~ Is("receipt")
        /\ kind = "source" => /\ Is("intent") /\ ~ Is("started")
                              /\ ~ Is("receipt") /\ ~ Is("abandoned")
        /\ kind = "usage" => Is("receipt") /\ ~ Is("usage") /\ d \in Auxiliary

Added(r, x) ==
    /\ x \in Entry /\ Log(r) \in Seq(Entry) /\ GrownBy(Log(r), x, Log(r)')
    /\ Acceptable(Log(r)') /\ Covers(r)'
    /\ buffer'[r] = Append(buffer[r], x) /\ Records(r)' = Records(r) \cup {x}

LEMMA AddedRecord ==
    ASSUME LedgerInv, NEW d \in Deliveries, NEW kind \in Kinds, NEW use \in 0..MaxUse,
           RunInv(RunOf[d]), Health(RunOf[d]) = "ok", Suits(RunOf[d], kind, d),
           Record(RunOf[d], Rec(kind, d, use)), UNCHANGED <<journal, ckpt>>
    PROVE  /\ Added(RunOf[d], Rec(kind, d, use))
           /\ Rec(kind, d, use).d = d /\ Rec(kind, d, use).kind = kind
           /\ Rec(kind, d, use).use = use
<1> DEFINE r == RunOf[d]
           x == Rec(kind, d, use)
<1>1. Shapes /\ Logged /\ r \in Runs BY ShapesEq, LedgerAssumption DEF LedgerInv, SpendInv
<1>2. x \in Entry /\ x.d = d /\ x.kind = kind /\ x.use = use /\ x.owner = ThisOwner
  BY <1>1, NewEntry
<1>3. Log(r) \in Seq(Entry) /\ ToSet(Log(r)) = Records(r) BY <1>1, LogIs
<1>4. \A y \in Records(r) : y.owner = ThisOwner BY <1>1, OwnedAlike
<1>5. Record(r, x) /\ Suits(r, kind, d) /\ RunInv(r) OBVIOUS
<1> HIDE DEF r, x
<1>6. May(Log(r), x) BY <1>2, <1>3, <1>4, <1>5 DEF May, Suits
<1>7. Acceptable(Log(r)) BY <1>5 DEF RunInv
<1>8. /\ Log(r)' = Append(Log(r), x) /\ buffer'[r] = Append(buffer[r], x)
      /\ journal'[r] = journal[r]
  BY <1>1, <1>2, <1>5, LogRecord
<1>9. GrownBy(Log(r), x, Append(Log(r), x)) /\ Acceptable(Append(Log(r), x))
  BY <1>2, <1>3, <1>6, <1>7, LogGrown, AcceptsMore
<1>10. Records(r)' = Records(r) \cup {x} BY <1>1, <1>2, <1>5, RecordStep
<1>11. Covers(r)' BY <1>5, <1>8 DEF RunInv, Covers, Covered
<1>12. Added(r, x) BY <1>2, <1>3, <1>8, <1>9, <1>10, <1>11 DEF Added
<1> QED BY <1>2, <1>12 DEF r, x

LEMMA OthersStaged ==
    ASSUME LedgerInv, NEW d \in Deliveries, NEW x, RunInv(RunOf[d]), Health(RunOf[d]) = "ok",
           Added(RunOf[d], x), x.d = d, \A e \in Deliveries \ {d} : pc'[e] = pc[e],
           NEW e \in Calls(RunOf[d]) \ {d}
    PROVE  Stage(RunOf[d], e)'
<1> DEFINE r == RunOf[d]
<1>1. r \in Runs /\ Logged BY ShapesEq, LedgerAssumption DEF LedgerInv, SpendInv
<1>2. e \in Deliveries /\ e # d BY DEF Calls
<1>3. Stage(r, e) BY DEF RunInv, Staged
<1>4. x \in Entry /\ buffer'[r] = Append(buffer[r], x) /\ Records(r)' = Records(r) \cup {x}
  BY DEF Added
<1>5. buffer[r] \in Seq(Entry) BY <1>1, LogIs
<1>6. \A kind : Has(Records(r)', kind, e) <=> Has(Records(r), kind, e) BY <1>2, <1>4 DEF Has
<1>7. ToSet(buffer'[r]) = ToSet(buffer[r]) \cup {x} BY <1>4, <1>5, AppendedSet
<1>8. e \in Of(buffer[r], "receipt") => e \in Of(buffer'[r], "receipt")
  BY <1>2, <1>7, OfHas DEF Has
<1> QED BY <1>2, <1>3, <1>6, <1>8, StageStays

LEMMA BeginKeeps ==
    ASSUME LedgerInv, JournalInv, NEW d \in Deliveries, Begin(d)
    PROVE  RunInv(RunOf[d])'
<1> DEFINE r == RunOf[d]
           x == Rec("intent", d, Unknown)
<1>1. /\ Shapes /\ ClosedIsQuiet /\ OneFlush /\ Recorded /\ r \in Runs /\ RunInv(r)
  BY LedgerAssumption DEF LedgerInv, SpendInv, JournalInv
<1>2. /\ pc[d] = "new" /\ Health(r) = "ok" /\ ~ Locked(r)
      /\ Record(r, x) /\ UNCHANGED <<journal, ckpt, unshown>>
      /\ ledger' = [ledger EXCEPT ![r].intents = @ \cup {d}, ![r].count = @ + 1]
  BY DEF Begin, Health
<1>3. pc \in [Deliveries -> Where] /\ ledger = [q \in Runs |-> ledger[q]] BY <1>1, ShapesEq
<1>4. pc'[d] = "wait" /\ \A e \in Deliveries \ {d} : pc'[e] = pc[e]
  BY <1>3 DEF Begin, Go
<1>5. Added(r, x) /\ x.d = d /\ x.kind = "intent"
  <2>1. Unknown \in 0..MaxUse /\ "intent" \in Kinds BY LedgerAssumption DEF Unknown, Kinds
  <2>2. Suits(r, "intent", d) BY DEF Suits
  <2> QED BY <1>1, <1>2, <2>1, <2>2, AddedRecord
<1> HIDE DEF x
<1>6. /\ At(r, "source")' = {} /\ At(r, "mark")' = {} /\ At(r, "settle")' = {}
      /\ At(r, "done")' = At(r, "done")
      /\ At(r, "source") = {} /\ At(r, "mark") = {} /\ At(r, "settle") = {}
  <2>1. d \notin At(r, "done") BY <1>2 DEF At
  <2>2. At(r, "source") = {} /\ At(r, "mark") = {} /\ At(r, "settle") = {} BY <1>2, PlacesOpen
  <2>3. \A place : At(r, place)' = IF pc'[d] = place THEN At(r, place) \cup {d}
                                   ELSE At(r, place) \ {d}
    BY <1>4, PlacesMove
  <2> HIDE DEF r
  <2> QED BY <1>4, <2>1, <2>2, <2>3
<1>7. Filled(ledger[r]) /\ Mirror(ledger[r], Log(r), {}, {}, {}, 0, At(r, "done"))
  BY <1>1, <1>2, <1>6, MirrorsTo, NoLag, MirrorIs DEF RunInv
<1>8. /\ Same(ledger[r], ledger'[r], {"intents", "count"})
      /\ ledger'[r].intents = ledger[r].intents \cup {d}
      /\ ledger'[r].count = ledger[r].count + 1 /\ ledger'[r].health = "ok"
  BY <1>1, <1>2, <1>3, <1>7 DEF Same, Filled, LedgerFields, Health
<1>9. Mirror(ledger'[r], Log(r)', {}, {}, {}, 0, At(r, "done"))
  BY <1>5, <1>7, <1>8, BeginMirrors DEF Added
<1>10. Mirrors(r)' BY <1>6, <1>9, NoLag, MirrorsFrom
<1>11. Shows(r)'
  <2>1. Of(Log(r)', "usage") = Of(Log(r), "usage") BY <1>5 DEF Added, GrownBy
  <2>2. Shows(r) BY <1>1, <1>2 DEF RunInv
  <2>3. ledger'[r].consumed = ledger[r].consumed /\ ledger'[r].receipts = ledger[r].receipts
    BY <1>8 DEF Same, LedgerFields
  <2> QED BY <1>2, <2>1, <2>2, <2>3, ShowStays DEF Shows
<1>12. Stage(r, d)'
  <2>1. \A kind \in Kinds : ~ Has(Records(r), kind, d)
    BY <1>1, <1>2 DEF RunInv, Staged, Stage, Calls
  <2>2. \A kind \in Kinds : Has(Records(r)', kind, d) => kind = "intent"
    BY <1>5, <2>1 DEF Added, Has
  <2> QED BY <1>4, <2>2 DEF Stage, Kinds
<1>13. Staged(r)' BY <1>1, <1>2, <1>4, <1>5, <1>12, OthersStaged DEF Staged, Calls
<1>14. Acceptable(Log(r)') /\ Covers(r)' BY <1>5 DEF Added
<1>15. RunInv(r)' BY <1>8, <1>10, <1>11, <1>13, <1>14 DEF RunInv, Health
<1> QED BY <1>15

(* The records of a delivery, by where it is.                               *)
LEMMA RecordsOf ==
    ASSUME LedgerInv, NEW d \in Deliveries, RunInv(RunOf[d]), Health(RunOf[d]) = "ok"
    PROVE  /\ pc[d] \notin Ended => Has(Records(RunOf[d]), "intent", d)
           /\ pc[d] \in {"wait", "source"} => ~ Has(Records(RunOf[d]), "started", d)
           /\ pc[d] \in {"mark", "stop", "run"} => Has(Records(RunOf[d]), "started", d)
           /\ pc[d] # "done" => /\ ~ Has(Records(RunOf[d]), "abandoned", d)
                                /\ ~ Has(Records(RunOf[d]), "usage", d)
           /\ pc[d] \notin {"settle", "done"} => ~ Has(Records(RunOf[d]), "receipt", d)
           /\ \A kind : d \in Of(Log(RunOf[d]), kind) <=> Has(Records(RunOf[d]), kind, d)
<1>1. Recorded /\ InvokedBehindMarker /\ Logged /\ RunOf[d] \in Runs
  BY ShapesEq, LedgerAssumption DEF LedgerInv, SpendInv
<1>2. Stage(RunOf[d], d) BY DEF RunInv, Staged, Calls
<1>3. \A kind : d \in Of(Log(RunOf[d]), kind) <=> Has(Records(RunOf[d]), kind, d)
  BY <1>1, LogIs, OfHas
<1> QED BY <1>1, <1>2, <1>3 DEF Recorded, InvokedBehindMarker, Stage, Health

LEMMA SourceKeeps ==
    ASSUME LedgerInv, JournalInv, NEW d \in Deliveries, RecordSource(d)
    PROVE  RunInv(RunOf[d])'
<1> DEFINE r == RunOf[d]
           x == Rec("source", d, Unknown)
<1>1. /\ Shapes /\ ClosedIsQuiet /\ OneFlush /\ Recorded /\ r \in Runs /\ RunInv(r)
  BY LedgerAssumption DEF LedgerInv, SpendInv, JournalInv
<1>2. /\ pc[d] = "wait" /\ Health(r) = "ok" /\ ~ Locked(r) /\ d \notin ledger[r].sources
      /\ Record(r, x) /\ UNCHANGED <<ledger, journal, ckpt, unshown>>
  BY DEF RecordSource, Health
<1>3. pc \in [Deliveries -> Where] BY <1>1, ShapesEq
<1>4. pc'[d] = "source" /\ \A e \in Deliveries \ {d} : pc'[e] = pc[e]
  BY <1>3 DEF RecordSource, Go
<1>5. Added(r, x) /\ x.d = d /\ x.kind = "source"
  <2>1. Unknown \in 0..MaxUse /\ "source" \in Kinds BY LedgerAssumption DEF Unknown, Kinds
  <2>2. Suits(r, "source", d) BY <1>1, <1>2, RecordsOf DEF Suits, Ended
  <2> QED BY <1>1, <1>2, <2>1, <2>2, AddedRecord
<1> HIDE DEF x
<1>6. /\ At(r, "source")' = {d} /\ At(r, "mark")' = {} /\ At(r, "settle")' = {}
      /\ At(r, "done")' = At(r, "done")
      /\ At(r, "source") = {} /\ At(r, "mark") = {} /\ At(r, "settle") = {}
  <2>1. d \notin At(r, "done") BY <1>2 DEF At
  <2>2. At(r, "source") = {} /\ At(r, "mark") = {} /\ At(r, "settle") = {} BY <1>2, PlacesOpen
  <2>3. \A place : At(r, place)' = IF pc'[d] = place THEN At(r, place) \cup {d}
                                   ELSE At(r, place) \ {d}
    BY <1>4, PlacesMove
  <2> HIDE DEF r
  <2> QED BY <1>4, <2>1, <2>2, <2>3
<1>7. Mirror(ledger[r], Log(r), {}, {}, {}, 0, At(r, "done"))
  BY <1>1, <1>2, <1>6, MirrorsTo, NoLag DEF RunInv
<1>8. ledger'[r] = ledger[r] BY <1>2
<1>9. Mirror(ledger'[r], Log(r)', {d}, {}, {}, 1, At(r, "done"))
  BY <1>2, <1>5, <1>7, <1>8, SourceMirrors DEF Added
<1>10. Mirrors(r)'
  <2>1. Lag({d}, {}, {}) = 1 BY DEF Lag
  <2> HIDE DEF r
  <2> QED BY <1>6, <1>9, <2>1, MirrorsFrom
<1>11. Shows(r)'
  <2>1. Of(Log(r)', "usage") = Of(Log(r), "usage") BY <1>5 DEF Added, GrownBy
  <2>2. Shows(r) BY <1>1, <1>2 DEF RunInv
  <2> QED BY <1>2, <1>8, <2>1, <2>2 DEF Shows
<1>12. Stage(r, d)'
  <2>1. \A kind : Has(Records(r)', kind, d) <=> Has(Records(r), kind, d) \/ kind = "source"
    BY <1>5 DEF Added, Has
  <2> QED BY <1>1, <1>2, <1>4, <2>1, RecordsOf DEF Stage
<1>13. Staged(r)' BY <1>1, <1>2, <1>4, <1>5, <1>12, OthersStaged DEF Staged, Calls
<1>14. Acceptable(Log(r)') /\ Covers(r)' BY <1>5 DEF Added
<1>15. RunInv(r)' BY <1>2, <1>8, <1>10, <1>11, <1>13, <1>14 DEF RunInv, Health
<1> QED BY <1>15

LEMMA MarkKeeps ==
    ASSUME LedgerInv, JournalInv, NEW d \in Deliveries, Mark(d)
    PROVE  RunInv(RunOf[d])'
<1> DEFINE r == RunOf[d]
           x == Rec("started", d, Unknown)
<1>1. /\ Shapes /\ ClosedIsQuiet /\ OneFlush /\ Recorded /\ r \in Runs /\ RunInv(r)
  BY LedgerAssumption DEF LedgerInv, SpendInv, JournalInv
<1>2. /\ pc[d] = "wait" /\ Health(r) = "ok" /\ ~ Locked(r)
      /\ Record(r, x) /\ UNCHANGED <<ledger, journal, ckpt, unshown>>
  BY DEF Mark, Health
<1>3. pc \in [Deliveries -> Where] BY <1>1, ShapesEq
<1>4. pc'[d] = "mark" /\ \A e \in Deliveries \ {d} : pc'[e] = pc[e]
  BY <1>3 DEF Mark, Go
<1>5. Added(r, x) /\ x.d = d /\ x.kind = "started"
  <2>1. Unknown \in 0..MaxUse /\ "started" \in Kinds BY LedgerAssumption DEF Unknown, Kinds
  <2>2. Suits(r, "started", d) BY <1>1, <1>2, RecordsOf DEF Suits, Ended
  <2> QED BY <1>1, <1>2, <2>1, <2>2, AddedRecord
<1> HIDE DEF x
<1>6. /\ At(r, "source")' = {} /\ At(r, "mark")' = {d} /\ At(r, "settle")' = {}
      /\ At(r, "done")' = At(r, "done")
      /\ At(r, "source") = {} /\ At(r, "mark") = {} /\ At(r, "settle") = {}
  <2>1. d \notin At(r, "done") BY <1>2 DEF At
  <2>2. At(r, "source") = {} /\ At(r, "mark") = {} /\ At(r, "settle") = {} BY <1>2, PlacesOpen
  <2>3. \A place : At(r, place)' = IF pc'[d] = place THEN At(r, place) \cup {d}
                                   ELSE At(r, place) \ {d}
    BY <1>4, PlacesMove
  <2> HIDE DEF r
  <2> QED BY <1>4, <2>1, <2>2, <2>3
<1>7. Mirror(ledger[r], Log(r), {}, {}, {}, 0, At(r, "done"))
  BY <1>1, <1>2, <1>6, MirrorsTo, NoLag DEF RunInv
<1>8. ledger'[r] = ledger[r] BY <1>2
<1>9. Mirror(ledger'[r], Log(r)', {}, {d}, {}, 1, At(r, "done"))
  <2>1. d \notin Of(Log(r), "started") /\ d \notin Of(Log(r), "abandoned") /\ d \notin Paid(Log(r))
    BY <1>1, <1>2, RecordsOf DEF Paid
  <2> QED BY <1>5, <1>7, <1>8, <2>1, MarkMirrors DEF Added
<1>10. Mirrors(r)'
  <2>1. Lag({}, {d}, {}) = 1 BY DEF Lag
  <2> HIDE DEF r
  <2> QED BY <1>6, <1>9, <2>1, MirrorsFrom
<1>11. Shows(r)'
  <2>1. Of(Log(r)', "usage") = Of(Log(r), "usage") BY <1>5 DEF Added, GrownBy
  <2>2. Shows(r) BY <1>1, <1>2 DEF RunInv
  <2> QED BY <1>2, <1>8, <2>1, <2>2 DEF Shows
<1>12. Stage(r, d)'
  <2>1. \A kind : Has(Records(r)', kind, d) <=> Has(Records(r), kind, d) \/ kind = "started"
    BY <1>5 DEF Added, Has
  <2> QED BY <1>1, <1>2, <1>4, <2>1, RecordsOf DEF Stage
<1>13. Staged(r)' BY <1>1, <1>2, <1>4, <1>5, <1>12, OthersStaged DEF Staged, Calls
<1>14. Acceptable(Log(r)') /\ Covers(r)' BY <1>5 DEF Added
<1>15. RunInv(r)' BY <1>2, <1>8, <1>10, <1>11, <1>13, <1>14 DEF RunInv, Health
<1> QED BY <1>15

(* A delivery of a run whose ledger failed, or lost its lease, just ends.   *)
LEMMA BrokenKeeps ==
    ASSUME LedgerInv, NEW d \in Deliveries, RunInv(RunOf[d]), Health(RunOf[d]) # "ok",
           Health(RunOf[d])' = Health(RunOf[d]),
           Health(RunOf[d]) = "failed" => ledger'[RunOf[d]] = ledger[RunOf[d]],
           UNCHANGED <<journal, buffer, ckpt>>,
           pc'[d] = "done", \A e \in Deliveries \ {d} : pc'[e] = pc[e]
    PROVE  RunInv(RunOf[d])'
<1> DEFINE r == RunOf[d]
<1>1. Log(r)' = Log(r) /\ Records(r)' = Records(r) BY DEF Log, Records
<1>2. \A e \in Calls(r) : Stage(r, e) BY DEF RunInv, Staged
<1>3. Stage(r, d)'
  <2>1. Stage(r, d) BY <1>2 DEF Calls
  <2> QED BY <1>1, <2>1 DEF Stage
<1>4. ASSUME NEW e \in Calls(r) \ {d}
      PROVE  Stage(r, e)'
  <2>1. Stage(r, e) /\ pc'[e] = pc[e] BY <1>2 DEF Calls
  <2> QED BY <1>1, <2>1, StageStays
<1>5. Staged(r)' BY <1>3, <1>4 DEF Staged, Calls
<1>6. Acceptable(Log(r)') BY <1>1 DEF RunInv
<1>7. Covers(r)' BY DEF RunInv, Covers, Covered
<1>8. Health(r)' = "failed" /\ buffer'[r] # <<>> => Trails(r)' BY <1>1 DEF RunInv, Trails
<1>9. Health(r)' = "lost" => buffer'[r] = <<>> BY DEF RunInv
<1> QED BY <1>5, <1>6, <1>7, <1>8, <1>9 DEF RunInv

LEMMA AbandonKeeps ==
    ASSUME LedgerInv, JournalInv, NEW d \in Deliveries, Abandon(d)
    PROVE  RunInv(RunOf[d])'
<1> DEFINE r == RunOf[d]
           x == Rec("abandoned", d, Unknown)
<1>1. /\ Shapes /\ ClosedIsQuiet /\ OneFlush /\ Recorded /\ r \in Runs /\ RunInv(r)
  BY LedgerAssumption DEF LedgerInv, SpendInv, JournalInv
<1>2. pc[d] \in {"wait", "stop"} /\ ~ Locked(r) /\ UNCHANGED <<journal, ckpt, unshown>>
  BY DEF Abandon
<1>3. pc \in [Deliveries -> Where] /\ ledger = [q \in Runs |-> ledger[q]] BY <1>1, ShapesEq
<1>4. pc'[d] = "done" /\ \A e \in Deliveries \ {d} : pc'[e] = pc[e]
  BY <1>3 DEF Abandon, Go
<1>a. CASE Health(r) # "ok"
  <2>1. UNCHANGED <<buffer, ledger>> BY <1>a DEF Abandon, Health
  <2> QED BY <1>1, <1>2, <1>4, <1>a, <2>1, BrokenKeeps DEF Health
<1>b. CASE Health(r) = "ok"
  <2>2. /\ Record(r, x)
        /\ ledger' = [ledger EXCEPT ![r].abandoned = @ \cup {d}, ![r].started = @ \ {d},
                                    ![r].count = @ + 1]
    BY <1>b DEF Abandon, Health
  <2>5. Added(r, x) /\ x.d = d /\ x.kind = "abandoned"
    <3>1. Unknown \in 0..MaxUse /\ "abandoned" \in Kinds BY LedgerAssumption DEF Unknown, Kinds
    <3>2. Suits(r, "abandoned", d) BY <1>1, <1>2, <1>b, RecordsOf DEF Suits, Ended
    <3> QED BY <1>1, <1>2, <1>b, <2>2, <3>1, <3>2, AddedRecord
  <2> HIDE DEF x
  <2>6. /\ At(r, "source")' = {} /\ At(r, "mark")' = {} /\ At(r, "settle")' = {}
        /\ At(r, "done")' = At(r, "done") \cup {d} /\ d \notin At(r, "done")
        /\ At(r, "source") = {} /\ At(r, "mark") = {} /\ At(r, "settle") = {}
    <3>1. d \notin At(r, "done") BY <1>2 DEF At
    <3>2. At(r, "source") = {} /\ At(r, "mark") = {} /\ At(r, "settle") = {} BY <1>2, PlacesOpen
    <3>3. \A place : At(r, place)' = IF pc'[d] = place THEN At(r, place) \cup {d}
                                     ELSE At(r, place) \ {d}
      BY <1>4, PlacesMove
    <3> HIDE DEF r
    <3> QED BY <1>4, <3>1, <3>2, <3>3
  <2>7. Filled(ledger[r]) /\ Mirror(ledger[r], Log(r), {}, {}, {}, 0, At(r, "done"))
    BY <1>1, <1>b, <2>6, MirrorsTo, NoLag, MirrorIs DEF RunInv
  <2>8. /\ Same(ledger[r], ledger'[r], {"abandoned", "started", "count"})
        /\ ledger'[r].abandoned = ledger[r].abandoned \cup {d}
        /\ ledger'[r].started = ledger[r].started \ {d}
        /\ ledger'[r].count = ledger[r].count + 1 /\ ledger'[r].health = "ok"
    BY <1>1, <1>3, <1>b, <2>2, <2>7 DEF Same, Filled, LedgerFields, Health
  <2>9. Mirror(ledger'[r], Log(r)', {}, {}, {}, 0, At(r, "done"))
    BY <2>5, <2>6, <2>7, <2>8, AbandonMirrors DEF Added
  <2>10. Mirrors(r)'
    <3>1. Mirror(ledger'[r], Log(r)', {}, {}, {}, 0, At(r, "done") \cup {d})
      BY <2>9, OverMirrors
    <3> HIDE DEF r
    <3> QED BY <2>6, <3>1, NoLag, MirrorsFrom
  <2>11. Shows(r)'
    <3>1. Of(Log(r)', "usage") = Of(Log(r), "usage") BY <2>5 DEF Added, GrownBy
    <3>2. Shows(r) BY <1>1, <1>b DEF RunInv
    <3>3. ledger'[r].consumed = ledger[r].consumed /\ ledger'[r].receipts = ledger[r].receipts
      BY <2>8 DEF Same, LedgerFields
    <3> QED BY <1>2, <3>1, <3>2, <3>3, ShowStays DEF Shows
  <2>12. Stage(r, d)'
    <3>1. \A kind : Has(Records(r)', kind, d) <=> Has(Records(r), kind, d) \/ kind = "abandoned"
      BY <2>5 DEF Added, Has
    <3> QED BY <1>1, <1>2, <1>4, <1>b, <3>1, RecordsOf DEF Stage
  <2>13. Staged(r)' BY <1>1, <1>4, <1>b, <2>5, <2>12, OthersStaged DEF Staged, Calls
  <2>14. Acceptable(Log(r)') /\ Covers(r)' BY <2>5 DEF Added
  <2>15. RunInv(r)' BY <2>8, <2>10, <2>11, <2>13, <2>14 DEF RunInv, Health
  <2> QED BY <2>15
<1> QED BY <1>a, <1>b

LEMMA EndKeeps ==
    ASSUME LedgerInv, JournalInv, NEW d \in Deliveries, NEW use \in 0..MaxUse, End(d, use)
    PROVE  RunInv(RunOf[d])'
<1> DEFINE r == RunOf[d]
           x == Rec("receipt", d, use)
<1>1. /\ Shapes /\ ClosedIsQuiet /\ OneFlush /\ Recorded /\ r \in Runs /\ RunInv(r)
  BY LedgerAssumption DEF LedgerInv, SpendInv, JournalInv
<1>2. pc[d] = "run" /\ ~ Locked(r) /\ UNCHANGED <<journal, ckpt, unshown>> BY DEF End
<1>3. /\ pc \in [Deliveries -> Where] /\ ledger = [q \in Runs |-> ledger[q]]
      /\ LedgerShape(ledger[r])
  BY <1>1, ShapesEq
<1>4. pc'[d] = (IF Health(r) = "ok" THEN "settle" ELSE "done")
      /\ \A e \in Deliveries \ {d} : pc'[e] = pc[e]
  BY <1>3 DEF End, Go, Health
<1>c. Health(r)' = Health(r)
  <2>1. Becomes(r, {Health(r)}) BY <1>1, DeliveryLedger
  <2> QED BY <2>1 DEF Becomes, Health
<1>a. CASE Health(r) # "ok"
  <2>1. UNCHANGED buffer /\ (Health(r) = "failed" => UNCHANGED ledger)
    BY <1>a DEF End, Health
  <2> QED BY <1>1, <1>2, <1>4, <1>a, <1>c, <2>1, BrokenKeeps
<1>b. CASE Health(r) = "ok"
  <2>2. /\ Record(r, x)
        /\ ledger' = [ledger EXCEPT ![r].total = @ + use, ![r].unknown = @ \/ use = Unknown]
    BY <1>b DEF End, Health
  <2>5. Added(r, x) /\ x.d = d /\ x.kind = "receipt" /\ x.use = use
    <3>1. "receipt" \in Kinds BY DEF Kinds
    <3>2. Suits(r, "receipt", d) BY <1>1, <1>2, <1>b, RecordsOf DEF Suits, Ended
    <3> QED BY <1>1, <1>2, <1>b, <2>2, <3>1, <3>2, AddedRecord
  <2> HIDE DEF x
  <2>6. /\ At(r, "source")' = {} /\ At(r, "mark")' = {} /\ At(r, "settle")' = {d}
        /\ At(r, "done")' = At(r, "done") /\ d \notin At(r, "done")
        /\ At(r, "source") = {} /\ At(r, "mark") = {} /\ At(r, "settle") = {}
    <3>1. d \notin At(r, "done") /\ pc'[d] = "settle" BY <1>2, <1>4, <1>b DEF At
    <3>2. At(r, "source") = {} /\ At(r, "mark") = {} /\ At(r, "settle") = {} BY <1>2, PlacesOpen
    <3>3. \A place : At(r, place)' = IF pc'[d] = place THEN At(r, place) \cup {d}
                                     ELSE At(r, place) \ {d}
      BY <1>4, PlacesMove
    <3> HIDE DEF r
    <3> QED BY <3>1, <3>2, <3>3
  <2>7. Filled(ledger[r]) /\ Mirror(ledger[r], Log(r), {}, {}, {}, 0, At(r, "done"))
    BY <1>1, <1>b, <2>6, MirrorsTo, NoLag, MirrorIs DEF RunInv
  <2>8. /\ Same(ledger[r], ledger'[r], {"total", "unknown"})
        /\ ledger'[r].total = ledger[r].total + use
        /\ ledger'[r].unknown = (ledger[r].unknown \/ use = Unknown)
        /\ ledger'[r].health = "ok"
    BY <1>1, <1>3, <1>b, <2>2, <2>7 DEF Same, Filled, LedgerFields, Health
  <2>9. Mirror(ledger'[r], Log(r)', {}, {}, {d}, 1, At(r, "done"))
    <3>1. d \in Dangling(Log(r)) BY <1>1, <1>2, <1>b, RecordsOf DEF Dangling, Paid
    <3> QED BY <2>5, <2>6, <2>7, <2>8, <3>1, EndMirrors DEF Added
  <2>10. Mirrors(r)'
    <3>1. Lag({}, {}, {d}) = 1 BY DEF Lag
    <3> HIDE DEF r
    <3> QED BY <2>6, <2>9, <3>1, MirrorsFrom
  <2>11. Shows(r)'
    <3>1. Of(Log(r)', "usage") = Of(Log(r), "usage") BY <2>5 DEF Added, GrownBy
    <3>2. Shows(r) BY <1>1, <1>b DEF RunInv
    <3>3. ledger'[r].consumed = ledger[r].consumed /\ ledger'[r].receipts = ledger[r].receipts
      BY <2>8 DEF Same, LedgerFields
    <3> QED BY <1>2, <3>1, <3>2, <3>3, ShowStays DEF Shows
  <2>12. Stage(r, d)'
    <3>1. \A kind : Has(Records(r)', kind, d) <=> Has(Records(r), kind, d) \/ kind = "receipt"
      BY <2>5 DEF Added, Has
    <3>2. d \in Of(buffer'[r], "receipt")
      <4>1. Logged BY <1>1, ShapesEq
      <4>2. buffer[r] \in Seq(Entry) BY <1>1, <4>1, LogIs
      <4>3. x \in ToSet(buffer'[r]) BY <2>5, <4>2, AppendedSet DEF Added
      <4> QED BY <2>5, <4>3, OfHas DEF Has
    <3>3. pc'[d] = "settle" BY <1>4, <1>b
    <3> QED BY <1>1, <1>2, <1>b, <3>1, <3>2, <3>3, RecordsOf DEF Stage
  <2>13. Staged(r)' BY <1>1, <1>4, <1>b, <2>5, <2>12, OthersStaged DEF Staged, Calls
  <2>14. Acceptable(Log(r)') /\ Covers(r)' BY <2>5 DEF Added
  <2>15. RunInv(r)' BY <2>8, <2>10, <2>11, <2>13, <2>14 DEF RunInv, Health
  <2> QED BY <2>15
<1> QED BY <1>a, <1>b

LEMMA ShowKeeps ==
    ASSUME LedgerInv, JournalInv, NEW d \in Deliveries, ShowUsage(d)
    PROVE  RunInv(RunOf[d])'
<1> DEFINE r == RunOf[d]
           x == Rec("usage", d, Unknown)
<1>1. /\ Shapes /\ ClosedIsQuiet /\ OneFlush /\ Recorded /\ r \in Runs /\ RunInv(r)
  BY LedgerAssumption DEF LedgerInv, SpendInv, JournalInv
<1>2. /\ Health(r) = "ok" /\ d \in unshown[r]
      /\ Record(r, x) /\ UNCHANGED <<ledger, pc, journal, ckpt>>
      /\ unshown' = [unshown EXCEPT ![r] = @ \ {d}]
  BY DEF ShowUsage, Health
<1>3. unshown = [q \in Runs |-> unshown[q]] BY <1>1, ShapesEq
<1>4. Mirrors(r) /\ Shows(r) BY <1>1, <1>2 DEF RunInv
<1>5. /\ d \in Paid(Log(r)) \ At(r, "settle") /\ d \in Auxiliary
      /\ d \notin Of(Log(r), "usage")
  <2>1. ledger[r].receipts = Costs(Log(r), At(r, "settle")) BY <1>4, MirrorsTo, MirrorIs
  <2>2. DOMAIN ledger[r].receipts = Paid(Log(r)) \ At(r, "settle") BY <2>1 DEF Costs
  <2> QED BY <1>2, <1>4, <2>2 DEF Shows, Show
<1>6. pc[d] = "done" /\ Has(Records(r), "receipt", d) /\ ~ Has(Records(r), "usage", d)
  <2>1. Has(Records(r), "receipt", d) /\ ~ Has(Records(r), "usage", d)
    BY <1>1, <1>2, <1>5, RecordsOf DEF Paid
  <2>2. pc[d] \in {"settle", "done"} BY <1>1, <1>2, <2>1, RecordsOf
  <2> QED BY <1>5, <2>1, <2>2 DEF At, Calls
<1>7. Added(r, x) /\ x.d = d /\ x.kind = "usage"
  <2>1. Unknown \in 0..MaxUse /\ "usage" \in Kinds BY LedgerAssumption DEF Unknown, Kinds
  <2>2. Suits(r, "usage", d) BY <1>5, <1>6 DEF Suits
  <2> QED BY <1>1, <1>2, <2>1, <2>2, AddedRecord
<1> HIDE DEF x
<1>8. Mirrors(r)'
  <2>1. \A place : At(r, place)' = At(r, place) BY <1>2 DEF At, Calls
  <2>2. Mirror(ledger[r], Log(r)', At(r, "source"), At(r, "mark"), At(r, "settle"),
               Lag(At(r, "source"), At(r, "mark"), At(r, "settle")), At(r, "done"))
    BY <1>4, <1>7, MirrorsTo, ShowMirrors DEF Added
  <2>3. ledger'[r] = ledger[r] BY <1>2
  <2> HIDE DEF r
  <2> QED BY <2>1, <2>2, <2>3, MirrorsFrom
<1>9. Shows(r)'
  <2>1. Of(Log(r)', "usage") = Of(Log(r), "usage") \cup {d} BY <1>7 DEF Added, GrownBy
  <2>2. unshown'[r] = unshown[r] \ {d} BY <1>1, <1>2, <1>3
  <2>3. Show(ledger[r], Of(Log(r), "usage") \cup {d}, unshown[r] \ {d})
    BY <1>2, <1>4, ShowOne DEF Shows
  <2> QED BY <1>2, <2>1, <2>2, <2>3 DEF Shows
<1>10. Stage(r, d)'
  <2>1. \A kind : Has(Records(r)', kind, d) <=> Has(Records(r), kind, d) \/ kind = "usage"
    BY <1>7 DEF Added, Has
  <2>2. pc'[d] = "done" BY <1>2, <1>6
  <2> QED BY <2>1, <2>2 DEF Stage
<1>11. Staged(r)'
  <2>1. \A e \in Deliveries \ {d} : pc'[e] = pc[e] BY <1>2
  <2> QED BY <1>1, <1>2, <1>7, <1>10, <2>1, OthersStaged DEF Staged, Calls
<1>12. Acceptable(Log(r)') /\ Covers(r)' BY <1>7 DEF Added
<1>13. RunInv(r)' BY <1>2, <1>8, <1>9, <1>11, <1>12 DEF RunInv, Health
<1> QED BY <1>13

(* A journal that its run's buffer was applied to, or not.                  *)
LEMMA CoversMore ==
    ASSUME Logged, NEW r \in Runs, RunInv(r), journal'[r] \in {journal[r], Log(r)},
           ckpt'[r] = ckpt[r]
    PROVE  Covers(r)' /\ Acceptable(journal'[r])
<1>1. /\ journal[r] \in Seq(Entry) /\ buffer[r] \in Seq(Entry) /\ Log(r) \in Seq(Entry)
      /\ Acceptable(Log(r)) /\ Covers(r)
  BY LogIs DEF RunInv
<1>2. Acceptable(journal[r]) BY <1>1, AcceptsLess DEF Log
<1>3. Size(journal[r]) <= Size(Log(r)) /\ Sum(journal[r]) <= Sum(Log(r))
  BY <1>1, LogJoined DEF Log
<1>4. /\ Size(journal[r]) \in Nat /\ Size(Log(r)) \in Nat
      /\ Sum(journal[r]) \in Int /\ Sum(Log(r)) \in Int
      /\ Recover(journal[r]).total = Sum(journal[r]) /\ Recover(Log(r)).total = Sum(Log(r))
  BY <1>1, LogParts
<1>5. /\ ckpt[r].count \in Int /\ ckpt[r].total \in Int
      /\ ckpt[r].count <= Size(journal[r]) /\ ckpt[r].total <= Sum(journal[r])
  BY <1>1, <1>4 DEF Covers, Covered, Size
<1>6. ckpt[r].count <= Size(Log(r)) /\ ckpt[r].total <= Sum(Log(r)) BY <1>3, <1>4, <1>5
<1>7. ckpt'[r].count <= Size(journal'[r]) /\ ckpt'[r].total <= Recover(journal'[r]).total
  BY <1>4, <1>5, <1>6
<1> QED BY <1>1, <1>2, <1>5, <1>7 DEF Covers, Covered, Size

(* The use that settle reads back is the one of the receipt.                *)
LEMMA BufferedUse ==
    ASSUME Logged, NEW r \in Runs, Acceptable(Log(r)), NEW d \in Of(buffer[r], "receipt")
    PROVE  d \in Paid(Log(r)) /\ UseIn(buffer[r], d) = UseIn(Log(r), d)
<1>1. PICK x \in ToSet(buffer[r]) : x.kind = "receipt" /\ x.d = d /\ x.use = UseIn(buffer[r], d)
  BY UseRecorded
<1>2. x \in ToSet(Log(r)) /\ Log(r) \in Seq(Entry) BY LogIs DEF Records
<1> QED BY <1>1, <1>2, UseOf

LEMMA FlushedKeeps ==
    ASSUME LedgerInv, JournalInv, NEW d \in Deliveries, NEW use \in 1..MaxUse, Flushed(d, use)
    PROVE  RunInv(RunOf[d])'
<1> DEFINE r == RunOf[d]
<1>1. /\ Shapes /\ ClosedIsQuiet /\ OneFlush /\ Recorded /\ r \in Runs /\ RunInv(r) /\ Logged
  BY ShapesEq, LedgerAssumption DEF LedgerInv, SpendInv, JournalInv
<1>2. /\ pc[d] \in Flushing /\ Health(r) = "ok" /\ UNCHANGED <<ckpt, unshown>>
      /\ Land(d, use) /\ Commit(r)
  BY <1>1 DEF Flushed, Flushing, OneFlush
<1>3. pc \in [Deliveries -> Where] /\ ledger = [q \in Runs |-> ledger[q]] BY <1>1, ShapesEq
<1>4. /\ Log(r)' = Log(r) /\ journal'[r] = Log(r) /\ buffer'[r] = <<>>
      /\ Records(r)' = Records(r) /\ Acceptable(Log(r)) /\ Log(r) \in Seq(Entry)
  BY <1>1, <1>2, LogCommit, CommitStep, LogIs DEF RunInv
<1>5. Mirrors(r) /\ Shows(r) /\ Staged(r) BY <1>1, <1>2 DEF RunInv
<1>6. \A e \in Deliveries \ {d} : pc'[e] = pc[e] BY <1>1, DeliveryFrame
<1>7. \A place \in Flushing : At(r, place) = IF place = pc[d] THEN {d} ELSE {}
  BY <1>1, <1>2, PlacesFlush
<1>8. \A place : At(r, place)' = IF pc'[d] = place THEN At(r, place) \cup {d}
                                 ELSE At(r, place) \ {d}
  BY <1>6, PlacesMove
<1>9. ASSUME NEW e \in Calls(r) \ {d}
      PROVE  Stage(r, e)'
  <2>1. Stage(r, e) /\ pc'[e] = pc[e] /\ pc[e] # "settle"
    BY <1>1, <1>2, <1>5, <1>6 DEF Staged, Calls, OneFlush, Flushing
  <2> QED BY <1>2, <1>4, <2>1, StageStays
<1>10. Covers(r)' BY <1>1, <1>2, <1>4, CoversMore
<1>11. Stage(r, d) BY <1>5 DEF Staged, Calls
<1>12. Mirror(ledger[r], Log(r), At(r, "source"), At(r, "mark"), At(r, "settle"),
              Lag(At(r, "source"), At(r, "mark"), At(r, "settle")), At(r, "done"))
  BY <1>5, MirrorsTo
<1>13. Filled(ledger[r]) BY <1>12, MirrorIs
<1>a. CASE pc[d] = "source"
  <2>1. /\ ledger' = [ledger EXCEPT ![r] =
              [[ledger[r] EXCEPT !.count = @ + 1] EXCEPT !.sources = @ \cup {d}]]
        /\ pc'[d] = "wait"
    BY <1>2, <1>3, <1>a DEF Land, Go
  <2>2. /\ Same(ledger[r], ledger'[r], {"sources", "count"})
        /\ ledger'[r].sources = ledger[r].sources \cup {d}
        /\ ledger'[r].count = ledger[r].count + 1 /\ ledger'[r].health = "ok"
    BY <1>1, <1>2, <1>3, <1>13, <2>1 DEF Same, Filled, LedgerFields, Health
  <2>3. Mirror(ledger[r], Log(r), {d}, {}, {}, 1, At(r, "done"))
    <3>1. At(r, "source") = {d} /\ At(r, "mark") = {} /\ At(r, "settle") = {}
      BY <1>7, <1>a DEF Flushing
    <3> QED BY <1>12, <3>1 DEF Lag
  <2>4. d \in Of(Log(r), "source")
    BY <1>1, <1>2, <1>11, <1>a, RecordsOf DEF Stage
  <2>5. Mirror(ledger'[r], Log(r)', {}, {}, {}, 0, At(r, "done"))
    BY <1>4, <2>2, <2>3, <2>4, SourceLands
  <2>6. Mirrors(r)'
    <3>1. /\ At(r, "source")' = {} /\ At(r, "mark")' = {} /\ At(r, "settle")' = {}
          /\ At(r, "done")' = At(r, "done")
      <4>1. d \notin At(r, "done") BY <1>a DEF At
      <4> HIDE DEF r
      <4> QED BY <1>7, <1>8, <1>a, <2>1, <4>1 DEF Flushing
    <3> HIDE DEF r
    <3> QED BY <2>5, <3>1, NoLag, MirrorsFrom
  <2>7. Shows(r)'
    <3>1. ledger'[r].consumed = ledger[r].consumed /\ ledger'[r].receipts = ledger[r].receipts
      BY <2>2 DEF Same, LedgerFields
    <3> QED BY <1>2, <1>4, <1>5, <3>1, ShowStays DEF Shows
  <2>8. Stage(r, d)'
    <3>1. pc'[d] = "wait" BY <2>1
    <3> QED BY <1>4, <1>11, <1>a, <3>1 DEF Stage, Health
  <2>9. Staged(r)' BY <1>9, <2>8 DEF Staged, Calls
  <2> QED BY <1>4, <1>10, <2>2, <2>6, <2>7, <2>9 DEF RunInv, Health
<1>b. CASE pc[d] = "mark"
  <2>1. /\ ledger' = [ledger EXCEPT ![r] =
              [[ledger[r] EXCEPT !.count = @ + 1] EXCEPT !.started = @ \cup {d}]]
        /\ pc'[d] \in {"stop", "run"}
    BY <1>2, <1>3, <1>b DEF Land, Go
  <2>2. /\ Same(ledger[r], ledger'[r], {"started", "count"})
        /\ ledger'[r].started = ledger[r].started \cup {d}
        /\ ledger'[r].count = ledger[r].count + 1 /\ ledger'[r].health = "ok"
    BY <1>1, <1>2, <1>3, <1>13, <2>1 DEF Same, Filled, LedgerFields, Health
  <2>3. Mirror(ledger[r], Log(r), {}, {d}, {}, 1, At(r, "done"))
    <3>1. At(r, "source") = {} /\ At(r, "mark") = {d} /\ At(r, "settle") = {}
      BY <1>7, <1>b DEF Flushing
    <3> QED BY <1>12, <3>1 DEF Lag
  <2>4. d \in Dangling(Log(r))
    BY <1>1, <1>2, <1>b, RecordsOf DEF Dangling, Paid
  <2>5. Mirror(ledger'[r], Log(r)', {}, {}, {}, 0, At(r, "done"))
    BY <1>4, <2>2, <2>3, <2>4, MarkLands
  <2>6. Mirrors(r)'
    <3>1. /\ At(r, "source")' = {} /\ At(r, "mark")' = {} /\ At(r, "settle")' = {}
          /\ At(r, "done")' = At(r, "done")
      <4>1. d \notin At(r, "done") BY <1>b DEF At
      <4> HIDE DEF r
      <4> QED BY <1>7, <1>8, <1>b, <2>1, <4>1 DEF Flushing
    <3> HIDE DEF r
    <3> QED BY <2>5, <3>1, NoLag, MirrorsFrom
  <2>7. Shows(r)'
    <3>1. ledger'[r].consumed = ledger[r].consumed /\ ledger'[r].receipts = ledger[r].receipts
      BY <2>2 DEF Same, LedgerFields
    <3> QED BY <1>2, <1>4, <1>5, <3>1, ShowStays DEF Shows
  <2>8. Stage(r, d)'
    <3>1. /\ ~ Has(Records(r), "receipt", d) /\ ~ Has(Records(r), "usage", d)
          /\ Has(Records(r), "started", d)
      BY <1>1, <1>2, <1>b, RecordsOf
    <3> QED BY <1>4, <2>1, <3>1 DEF Stage
  <2>9. Staged(r)' BY <1>9, <2>8 DEF Staged, Calls
  <2> QED BY <1>4, <1>10, <2>2, <2>6, <2>7, <2>9 DEF RunInv, Health
<1>c. CASE pc[d] = "settle"
  <2>1. /\ ledger' = [ledger EXCEPT ![r] =
              [[ledger[r] EXCEPT !.count = @ + 1] EXCEPT
                  !.receipts = Extended(@, d, UseIn(buffer[r], d)), !.started = @ \ {d}]]
        /\ pc'[d] = "done"
    BY <1>2, <1>3, <1>c DEF Land, Go
  <2>4. d \in Paid(Log(r)) /\ UseIn(buffer[r], d) = UseIn(Log(r), d)
    BY <1>1, <1>2, <1>4, <1>11, <1>c, BufferedUse DEF Stage
  <2>2. /\ Same(ledger[r], ledger'[r], {"receipts", "started", "count"})
        /\ ledger'[r].receipts = Extended(ledger[r].receipts, d, UseIn(Log(r), d))
        /\ ledger'[r].started = ledger[r].started \ {d}
        /\ ledger'[r].count = ledger[r].count + 1 /\ ledger'[r].health = "ok"
    BY <1>1, <1>2, <1>3, <1>13, <2>1, <2>4 DEF Same, Filled, LedgerFields, Health
  <2>3. Mirror(ledger[r], Log(r), {}, {}, {d}, 1, At(r, "done"))
    <3>1. At(r, "source") = {} /\ At(r, "mark") = {} /\ At(r, "settle") = {d}
      BY <1>7, <1>c DEF Flushing
    <3> QED BY <1>12, <3>1 DEF Lag
  <2>5. Mirror(ledger'[r], Log(r)', {}, {}, {}, 0, At(r, "done"))
    BY <1>4, <2>2, <2>3, <2>4, SettleLands
  <2>6. Mirrors(r)'
    <3>1. /\ At(r, "source")' = {} /\ At(r, "mark")' = {} /\ At(r, "settle")' = {}
          /\ At(r, "done")' = At(r, "done") \cup {d}
      <4> HIDE DEF r
      <4> QED BY <1>7, <1>8, <1>c, <2>1 DEF Flushing
    <3>2. Mirror(ledger'[r], Log(r)', {}, {}, {}, 0, At(r, "done") \cup {d})
      BY <2>5, OverMirrors
    <3> HIDE DEF r
    <3> QED BY <3>1, <3>2, NoLag, MirrorsFrom
  <2>7. Shows(r)'
    <3>1. ledger'[r].consumed = ledger[r].consumed BY <2>2 DEF Same, LedgerFields
    <3>2. DOMAIN ledger[r].receipts \subseteq DOMAIN ledger'[r].receipts
          /\ \A e \in DOMAIN ledger[r].receipts : ledger'[r].receipts[e] = ledger[r].receipts[e]
      BY <2>2 DEF Extended
    <3> QED BY <1>2, <1>4, <1>5, <3>1, <3>2, ShowStays DEF Shows
  <2>8. Stage(r, d)'
    <3>1. pc'[d] = "done" BY <2>1
    <3> QED BY <1>4, <3>1 DEF Stage
  <2>9. Staged(r)' BY <1>9, <2>8 DEF Staged, Calls
  <2> QED BY <1>4, <1>10, <2>2, <2>6, <2>7, <2>9 DEF RunInv, Health
<1> QED BY <1>2, <1>a, <1>b, <1>c DEF Flushing

LEMMA FlushFailsKeeps ==
    ASSUME LedgerInv, JournalInv, NEW d \in Deliveries,
           NEW how \in {"rejected", "cancelled", "lost"}, FlushFails(d, how)
    PROVE  RunInv(RunOf[d])'
<1> DEFINE r == RunOf[d]
<1>1. /\ Shapes /\ ClosedIsQuiet /\ OneFlush /\ Recorded /\ r \in Runs /\ RunInv(r) /\ Logged
  BY ShapesEq, LedgerAssumption DEF LedgerInv, SpendInv, JournalInv
<1>2. /\ pc[d] \in Flushing /\ Health(r) = "ok" /\ UNCHANGED <<ckpt, unshown>>
      /\ ledger' = [ledger EXCEPT ![r].health = IF how = "lost" THEN "lost" ELSE "failed"]
  BY <1>1 DEF FlushFails, Flushing, OneFlush
<1>3. pc \in [Deliveries -> Where] /\ ledger = [q \in Runs |-> ledger[q]] BY <1>1, ShapesEq
<1>4. pc'[d] = "done" /\ \A e \in Deliveries \ {d} : pc'[e] = pc[e]
  BY <1>3 DEF FlushFails, Go
<1>5. Mirrors(r) /\ Staged(r) /\ Acceptable(Log(r)) /\ Log(r) \in Seq(Entry)
      /\ journal[r] \in Seq(Entry) /\ buffer[r] \in Seq(Entry)
  BY <1>1, <1>2, LogIs DEF RunInv
<1>6. \/ how = "rejected" /\ journal' = journal /\ buffer' = buffer
      \/ how # "rejected" /\ Commit(r)
      \/ how # "rejected" /\ journal' = journal /\ buffer' = [buffer EXCEPT ![r] = <<>>]
  BY DEF FlushFails
<1>7. /\ journal'[r] \in {journal[r], Log(r)}
      /\ how # "rejected" => buffer'[r] = <<>> /\ Log(r)' = journal'[r]
      /\ how = "rejected" => buffer'[r] = buffer[r] /\ Log(r)' = Log(r)
      /\ Records(r)' \subseteq Records(r)
  <2>1. CASE how = "rejected" /\ journal' = journal /\ buffer' = buffer
    BY <2>1 DEF Log, Records
  <2>2. CASE how # "rejected" /\ Commit(r)
    BY <1>1, <2>2, LogCommit, CommitStep
  <2>3. CASE how # "rejected" /\ journal' = journal /\ buffer' = [buffer EXCEPT ![r] = <<>>]
    <3>1. Records(r)' = Durable(r) /\ buffer'[r] = <<>> BY <1>1, <2>3, LoseStep
    <3>2. journal[r] \o <<>> = journal[r] BY <1>5
    <3>3. Log(r)' = journal'[r] BY <2>3, <3>1, <3>2 DEF Log
    <3> QED BY <2>3, <3>1, <3>3 DEF Records, Durable
  <2> QED BY <1>6, <2>1, <2>2, <2>3
<1>8. Covers(r)' /\ Acceptable(journal'[r]) BY <1>1, <1>2, <1>7, CoversMore
<1>9. Acceptable(Log(r)') BY <1>5, <1>7, <1>8
<1>10. Health(r)' = (IF how = "lost" THEN "lost" ELSE "failed")
       /\ ledger'[r].count = ledger[r].count /\ ledger'[r].total = ledger[r].total
  <2>1. Filled(ledger[r]) BY <1>5, MirrorsTo, MirrorIs
  <2> QED BY <1>1, <1>2, <1>3, <2>1 DEF Filled, LedgerFields, Health
<1>11. Staged(r)'
  <2>1. \A kind, e : Has(Records(r)', kind, e) => Has(Records(r), kind, e) BY <1>7 DEF Has
  <2>2. Health(r)' # "ok" BY <1>10
  <2>3. ASSUME NEW e \in Calls(r)
        PROVE  Stage(r, e)'
    <3>1. Stage(r, e) /\ e \in Deliveries BY <1>5 DEF Staged, Calls
    <3>2. CASE e = d BY <1>4, <2>2, <3>2 DEF Stage
    <3>3. CASE e # d
      <4>1. pc'[e] = pc[e] BY <1>4, <3>1, <3>3
      <4> QED BY <2>1, <2>2, <3>1, <4>1, StageStays
    <3> QED BY <3>2, <3>3
  <2> QED BY <2>3 DEF Staged, Calls
<1>12. Health(r)' = "failed" /\ buffer'[r] # <<>> => Trails(r)'
  <2>1. SUFFICES ASSUME how = "rejected" PROVE Trails(r)' BY <1>7
  <2>2. ledger[r].total = Sum(Log(r))
        /\ \/ ledger[r].count = Size(Log(r)) - 1
           \/ ledger[r].count = Size(Log(r)) - 0
    BY <1>5 DEF Mirrors, Mirror
  <2>3. Size(Log(r)) \in Nat /\ Sum(Log(r)) \in Int BY <1>5, LogParts
  <2>4. Log(r)' = Log(r) BY <1>7, <2>1
  <2> QED BY <1>10, <2>2, <2>3, <2>4 DEF Trails
<1>13. Health(r)' = "lost" => buffer'[r] = <<>> BY <1>7, <1>10
<1> QED BY <1>8, <1>9, <1>10, <1>11, <1>12, <1>13 DEF RunInv

(* The steps of the run loop.                                               *)
LEMMA RunFrame ==
    ASSUME Shapes, ckpt = [q \in Runs |-> ckpt[q]], NEW r \in Runs,
           Open(r) \/ Consume(r) \/ Save(r) \/ Close(r)
    PROVE  /\ \A q \in Runs \ {r} :
                 /\ ledger'[q] = ledger[q] /\ unshown'[q] = unshown[q] /\ ckpt'[q] = ckpt[q]
                 /\ buffer'[q] = buffer[q] /\ journal'[q] = journal[q]
           /\ ckpt' = [q \in Runs |-> ckpt'[q]] /\ pc' = pc
<1>1. /\ ledger = [q \in Runs |-> ledger[q]] /\ unshown = [q \in Runs |-> unshown[q]] /\ Logged
      /\ ckpt = [q \in Runs |-> ckpt[q]]
  BY ShapesEq
<1>2. journal = [q \in Runs |-> journal[q]] /\ buffer = [q \in Runs |-> buffer[q]]
  BY <1>1 DEF Logged
<1>3. CASE Open(r) BY <1>1, <1>3 DEF Open
<1>4. CASE Consume(r) BY <1>1, <1>4 DEF Consume
<1>5. CASE Save(r) BY <1>1, <1>2, <1>5 DEF Save, SaveEnvelope, Commit
<1>6. CASE Close(r) BY <1>1, <1>2, <1>6 DEF Close, SaveEnvelope, Commit
<1> QED BY <1>3, <1>4, <1>5, <1>6

LEMMA OpenKeeps ==
    ASSUME LedgerInv, JournalInv, NEW r \in Runs, Open(r)
    PROVE  RunInv(r)'
<1>1. Shapes /\ ClosedIsQuiet /\ RunInv(r) /\ Logged
  BY ShapesEq DEF LedgerInv, SpendInv, JournalInv
<1>2. Health(r) = "closed" /\ ledger'[r] = Recover(journal[r]) BY <1>1, RunLedger
<1>3. UNCHANGED <<pc, buffer, journal, ckpt, unshown>> BY DEF Open
<1>4. buffer[r] = <<>> /\ unshown[r] = {} /\ \A d \in Calls(r) : pc[d] \in Ended
  BY <1>1, <1>2 DEF ClosedIsQuiet, Calls
<1>5. journal[r] \in Seq(Entry) /\ Log(r) = journal[r] /\ Log(r)' = Log(r)
      /\ Records(r)' = Records(r) /\ ToSet(Log(r)) = Records(r)
  <2>1. journal[r] \in Seq(Entry) /\ ToSet(Log(r)) = Records(r) BY <1>1, LogIs
  <2>2. journal[r] \o <<>> = journal[r] BY <2>1
  <2> QED BY <1>3, <1>4, <2>1, <2>2 DEF Log, Records
<1>6. Staged(r) /\ Acceptable(Log(r)) /\ Covers(r) BY <1>1 DEF RunInv
<1>7. Staged(r)' BY <1>3, <1>4, <1>5, <1>6 DEF Staged, Stage, Calls, Ended
<1>8. Health(r)' = "ok" BY <1>2, RecoverShape DEF Health
<1>9. Mirrors(r)'
  <2>1. Dangling(Log(r)) \subseteq At(r, "done")
    <3>1. ASSUME NEW d \in Dangling(Log(r))
          PROVE  d \in At(r, "done")
      <4>1. d \in Of(Log(r), "started") /\ d \in Deliveries BY DEF Dangling, Of
      <4>2. Has(Records(r), "started", d) BY <1>5, <4>1, OfHas
      <4>3. d \in Calls(r)
        <5>1. PICK y \in Records(r) : y.d = d BY <4>2 DEF Has
        <5>2. RunOf[y.d] = r BY <1>1, <5>1, ShapesEq
        <5> QED BY <4>1, <5>1, <5>2 DEF Calls
      <4>4. pc[d] = "done" BY <1>4, <1>6, <4>2, <4>3 DEF Staged, Stage, Ended
      <4> QED BY <4>3, <4>4 DEF At
    <3> QED BY <3>1
  <2>2. Mirror(ledger'[r], Log(r)', {}, {}, {}, 0, At(r, "done"))
    BY <1>2, <1>5, <2>1, RecoverMirrors
  <2>3. /\ At(r, "source")' = {} /\ At(r, "mark")' = {} /\ At(r, "settle")' = {}
        /\ At(r, "done")' = At(r, "done")
    BY <1>3, <1>4 DEF At, Calls, Ended
  <2> QED BY <2>2, <2>3, NoLag, MirrorsFrom
<1>10. Shows(r)' BY <1>2, <1>3, <1>4, <1>5, <1>6, ShowRecovers DEF Shows
<1>11. Covers(r)' BY <1>3, <1>6 DEF Covers, Covered
<1> QED BY <1>5, <1>6, <1>7, <1>8, <1>9, <1>10, <1>11 DEF RunInv

LEMMA ConsumeKeeps ==
    ASSUME LedgerInv, JournalInv, NEW r \in Runs, Consume(r)
    PROVE  RunInv(r)'
<1> DEFINE L == ledger[r]
           fresh == (DOMAIN L.receipts \cap Auxiliary) \ L.consumed
           priced == {d \in fresh : L.receipts[d] # Unknown}
<1>1. Shapes /\ RunInv(r) /\ ledger = [q \in Runs |-> ledger[q]]
      /\ unshown = [q \in Runs |-> unshown[q]]
  BY ShapesEq DEF LedgerInv, SpendInv, JournalInv
<1>2. /\ Health(r) = "ok" /\ UNCHANGED <<pc, buffer, journal, ckpt>>
      /\ ledger' = [ledger EXCEPT ![r].consumed = @ \cup fresh]
      /\ unshown' = [unshown EXCEPT ![r] = @ \cup priced]
  BY DEF Consume, Health
<1>3. Mirrors(r) /\ Shows(r) BY <1>1, <1>2 DEF RunInv
<1>4. Filled(L) BY <1>3, MirrorsTo, MirrorIs
<1>5. /\ Same(L, ledger'[r], {"consumed"}) /\ ledger'[r].consumed = L.consumed \cup fresh
      /\ ledger'[r].receipts = L.receipts /\ ledger'[r].health = "ok"
  BY <1>1, <1>2, <1>4 DEF Same, Filled, LedgerFields, Health
<1>6. Log(r)' = Log(r) /\ Records(r)' = Records(r) BY <1>2 DEF Log, Records
<1>7. Mirrors(r)'
  <2>1. \A place : At(r, place)' = At(r, place) BY <1>2 DEF At, Calls
  <2>2. Mirror(ledger'[r], Log(r)', At(r, "source"), At(r, "mark"), At(r, "settle"),
               Lag(At(r, "source"), At(r, "mark"), At(r, "settle")), At(r, "done"))
    BY <1>3, <1>5, <1>6, MirrorsTo, ConsumeMirrors
  <2> QED BY <2>1, <2>2, MirrorsFrom
<1>8. Shows(r)'
  <2>1. unshown'[r] = unshown[r] \cup priced BY <1>1, <1>2
  <2>2. Show(ledger'[r], Of(Log(r), "usage"), unshown[r] \cup priced)
    BY <1>3, <1>5, ShowConsumes DEF Shows
  <2> HIDE DEF priced, fresh, L
  <2> QED BY <1>6, <2>1, <2>2 DEF Shows
<1>9. Staged(r)'
  <2>1. Staged(r) BY <1>1 DEF RunInv
  <2>2. Health(r)' = Health(r) BY <1>2, <1>5 DEF Health
  <2> QED BY <1>2, <1>6, <2>1, <2>2 DEF Staged, Stage, Calls
<1>10. Acceptable(Log(r)') /\ Covers(r)' BY <1>1, <1>2, <1>6 DEF RunInv, Covers, Covered
<1> QED BY <1>5, <1>7, <1>8, <1>9, <1>10 DEF RunInv, Health

(* A checkpoint covers what the ledger knows, and the journal all of it.    *)
LEMMA EnvelopeCovers ==
    ASSUME Logged, ckpt = [q \in Runs |-> ckpt[q]], NEW r \in Runs, RunInv(r), Trails(r),
           SaveEnvelope(r)
    PROVE  Covers(r)' /\ Acceptable(Log(r)') /\ Log(r)' = Log(r) /\ buffer'[r] = <<>>
           /\ Records(r)' = Records(r)
<1>1. /\ Log(r)' = Log(r) /\ journal'[r] = Log(r) /\ buffer'[r] = <<>>
      /\ Records(r)' = Records(r) /\ Log(r) \in Seq(Entry)
  BY LogCommit, CommitStep, LogIs DEF SaveEnvelope
<1>2. ckpt'[r] = [count |-> ledger[r].count, total |-> ledger[r].total]
  BY DEF SaveEnvelope
<1>3. Recover(Log(r)).total = Sum(Log(r)) BY <1>1, LogParts
<1>4. /\ ckpt'[r].count \in Int /\ ckpt'[r].total \in Int
      /\ ckpt'[r].count <= Cardinality(Accounting(journal'[r]))
      /\ ckpt'[r].total <= Recover(journal'[r]).total
  BY <1>1, <1>2, <1>3 DEF Trails, Size
<1>5. Acceptable(Log(r)') BY <1>1 DEF RunInv
<1> QED BY <1>1, <1>4, <1>5 DEF Covers, Covered

LEMMA MirrorTrails ==
    ASSUME Logged, NEW r \in Runs, Mirrors(r), ~ Locked(r)
    PROVE  Trails(r)
<1>1. Log(r) \in Seq(Entry) BY LogIs
<1>2. Size(Log(r)) \in Nat /\ Sum(Log(r)) \in Int BY <1>1, LogParts
<1>3. ledger[r].total = Sum(Log(r)) /\ ledger[r].count = Size(Log(r)) - 0 BY DEF Mirrors, Mirror
<1> QED BY <1>2, <1>3 DEF Trails

LEMMA SaveKeeps ==
    ASSUME LedgerInv, JournalInv, NEW r \in Runs, Save(r)
    PROVE  RunInv(r)'
<1>1. Shapes /\ RunInv(r) /\ Logged /\ ckpt = [q \in Runs |-> ckpt[q]]
  BY ShapesEq DEF LedgerInv, SpendInv, JournalInv
<1>2. Health(r) = "ok" /\ Quiet(r) /\ SaveEnvelope(r) /\ UNCHANGED <<ledger, pc, unshown>>
  BY DEF Save, Health
<1>3. Mirrors(r) /\ Shows(r) /\ Staged(r) BY <1>1, <1>2 DEF RunInv
<1>4. ~ Locked(r) BY <1>2 DEF Quiet, Locked, Ended
<1>5. /\ Covers(r)' /\ Acceptable(Log(r)') /\ Log(r)' = Log(r) /\ buffer'[r] = <<>>
      /\ Records(r)' = Records(r)
  BY <1>1, <1>2, <1>3, <1>4, MirrorTrails, EnvelopeCovers
<1>6. Mirrors(r)' /\ Shows(r)'
  <2>1. \A place : At(r, place)' = At(r, place) BY <1>2 DEF At, Calls
  <2>2. Locked(r)' = Locked(r) BY <1>2 DEF Locked, Calls
  <2> QED BY <1>2, <1>3, <1>5, <2>1, <2>2 DEF Mirrors, Shows
<1>7. Staged(r)'
  <2>1. \A d \in Calls(r) : pc[d] \in Ended BY <1>2 DEF Quiet
  <2> QED BY <1>2, <1>3, <1>5, <2>1 DEF Staged, Stage, Calls, Ended
<1> QED BY <1>2, <1>5, <1>6, <1>7 DEF RunInv, Health

LEMMA CloseKeeps ==
    ASSUME LedgerInv, JournalInv, NEW r \in Runs, Close(r)
    PROVE  RunInv(r)'
<1>1. Shapes /\ RunInv(r) /\ Logged /\ ckpt = [q \in Runs |-> ckpt[q]]
      /\ Health(r) \in {"closed", "ok", "failed", "lost"}
  BY ShapesEq DEF LedgerInv, SpendInv, JournalInv, LedgerShape, Closed, Health
<1>2. /\ Quiet(r) /\ UNCHANGED pc /\ ledger[r] # Closed
      /\ IF buffer[r] # <<>> THEN SaveEnvelope(r) ELSE UNCHANGED <<buffer, journal, ckpt>>
  BY DEF Close
<1>3. Health(r)' = "closed" BY <1>1, RunLedger DEF Becomes, Health
<1>4. Covers(r)' /\ Acceptable(Log(r)') /\ Records(r)' = Records(r)
  <2>1. CASE buffer[r] = <<>>
    <3>1. UNCHANGED <<buffer, journal, ckpt>> BY <1>2, <2>1
    <3>2. Log(r)' = Log(r) /\ Records(r)' = Records(r) BY <3>1 DEF Log, Records
    <3> QED BY <1>1, <3>1, <3>2 DEF RunInv, Covers, Covered
  <2>2. CASE buffer[r] # <<>>
    <3>1. SaveEnvelope(r) BY <1>2, <2>2
    <3>2. Health(r) \in {"ok", "failed"}
      <4>1. Health(r) # "closed"
        <5>1. \/ ledger[r] = Closed \/ ledger[r].health \in {"ok", "failed", "lost"}
          BY <1>1, ShapesEq DEF LedgerShape
        <5> QED BY <1>2, <5>1 DEF Health
      <4> QED BY <1>1, <2>2, <4>1 DEF RunInv
    <3>3. Trails(r)
      <4>1. ~ Locked(r) BY <1>2 DEF Quiet, Locked, Ended
      <4> QED BY <1>1, <2>2, <3>2, <4>1, MirrorTrails DEF RunInv
    <3> QED BY <1>1, <3>1, <3>3, EnvelopeCovers
  <2> QED BY <2>1, <2>2
<1>5. Staged(r)'
  <2>1. Staged(r) BY <1>1 DEF RunInv
  <2> QED BY <1>2, <1>3, <1>4, <2>1 DEF Staged, Stage, Calls
<1> QED BY <1>3, <1>4, <1>5 DEF RunInv

LEMMA CrashKeeps ==
    ASSUME LedgerInv, JournalInv, Crash, NEW r \in Runs
    PROVE  RunInv(r)'
<1>1. Shapes /\ RunInv(r) /\ Logged /\ pc \in [Deliveries -> Where]
  BY ShapesEq DEF LedgerInv, SpendInv, JournalInv
<1>2. /\ ledger'[r] = Closed /\ buffer'[r] = <<>> /\ ckpt'[r] = ckpt[r]
      /\ \A d \in Deliveries : pc'[d] = IF pc[d] = "new" THEN "new" ELSE "done"
      /\ journal'[r] \in {journal[r], Log(r)}
  BY DEF Crash, Log
<1>3. journal'[r] \in Seq(Entry)
  BY <1>1, <1>2, LogIs
<1>4. Log(r)' = journal'[r]
  <2>1. journal'[r] \o <<>> = journal'[r] BY <1>3
  <2> QED BY <1>2, <2>1 DEF Log
<1>5. Covers(r)' /\ Acceptable(Log(r)') BY <1>1, <1>2, <1>4, CoversMore
<1>6. Health(r)' = "closed" BY <1>2 DEF Health, Closed
<1>7. Records(r)' \subseteq Records(r) BY <1>1, CrashStep
<1>8. Staged(r)'
  <2>1. ASSUME NEW d \in Calls(r)
        PROVE  Stage(r, d)'
    <3>1. Stage(r, d) /\ d \in Deliveries BY <1>1 DEF RunInv, Staged, Calls
    <3>2. \A kind : Has(Records(r)', kind, d) => Has(Records(r), kind, d) BY <1>7 DEF Has
    <3> QED BY <1>2, <1>6, <3>1, <3>2 DEF Stage, Kinds
  <2> QED BY <2>1 DEF Staged, Calls
<1> QED BY <1>5, <1>6, <1>8 DEF RunInv

LEMMA JournalStep ==
    ASSUME LedgerInv, JournalInv, [Next]_vars
    PROVE  JournalInv'
<1>1. /\ Shapes /\ ClosedIsQuiet /\ ckpt = [q \in Runs |-> ckpt[q]]
      /\ \A r \in Runs : RunInv(r)
  BY DEF LedgerInv, SpendInv, JournalInv
<1>2. ASSUME NEW r \in Runs, Open(r) \/ Consume(r) \/ Save(r) \/ Close(r)
      PROVE  JournalInv'
  <2>1. RunInv(r)' BY <1>2, OpenKeeps, ConsumeKeeps, SaveKeeps, CloseKeeps
  <2>2. /\ \A q \in Runs \ {r} :
              /\ ledger'[q] = ledger[q] /\ unshown'[q] = unshown[q] /\ ckpt'[q] = ckpt[q]
              /\ buffer'[q] = buffer[q] /\ journal'[q] = journal[q]
        /\ ckpt' = [q \in Runs |-> ckpt'[q]] /\ pc' = pc
    BY <1>1, <1>2, RunFrame
  <2>3. ASSUME NEW q \in Runs \ {r}
        PROVE  RunInv(q)'
    BY <1>1, <2>2, RunStays
  <2> QED BY <2>1, <2>2, <2>3 DEF JournalInv
<1>3. ASSUME NEW d \in Deliveries, RunInv(RunOf[d])',
             \/ Begin(d) \/ RecordSource(d) \/ Mark(d) \/ Abandon(d) \/ ShowUsage(d)
             \/ \E use \in 0..MaxUse : End(d, use)
             \/ \E use \in 1..MaxUse : Flushed(d, use)
             \/ \E how \in {"rejected", "cancelled", "lost"} : FlushFails(d, how)
      PROVE  JournalInv'
  <2>1. /\ \A e \in Deliveries \ {d} : pc'[e] = pc[e]
        /\ \A q \in Runs \ {RunOf[d]} :
              /\ ledger'[q] = ledger[q] /\ unshown'[q] = unshown[q]
              /\ buffer'[q] = buffer[q] /\ journal'[q] = journal[q]
    BY <1>1, <1>3, DeliveryFrame
  <2>2. ckpt' = ckpt
    BY <1>3 DEF Begin, RecordSource, Mark, Abandon, ShowUsage, End, Flushed, FlushFails
  <2>3. ASSUME NEW q \in Runs \ {RunOf[d]}
        PROVE  RunInv(q)'
    <3>1. \A e \in Calls(q) : pc'[e] = pc[e] BY <2>1 DEF Calls
    <3> QED BY <1>1, <2>1, <2>2, <3>1, RunStays
  <2> QED BY <1>1, <1>3, <2>2, <2>3 DEF JournalInv
<1>4. ASSUME NEW d \in Deliveries,
             Begin(d) \/ RecordSource(d) \/ Mark(d) \/ Abandon(d) \/ ShowUsage(d)
      PROVE  JournalInv'
  BY <1>3, <1>4, BeginKeeps, SourceKeeps, MarkKeeps, AbandonKeeps, ShowKeeps
<1>5. ASSUME NEW d \in Deliveries, NEW use \in 0..MaxUse, End(d, use)
      PROVE  JournalInv'
  BY <1>3, <1>5, EndKeeps
<1>6. ASSUME NEW d \in Deliveries, NEW use \in 1..MaxUse, Flushed(d, use)
      PROVE  JournalInv'
  BY <1>3, <1>6, FlushedKeeps
<1>7. ASSUME NEW d \in Deliveries, NEW how \in {"rejected", "cancelled", "lost"}, FlushFails(d, how)
      PROVE  JournalInv'
  BY <1>3, <1>7, FlushFailsKeeps
<1>8. CASE Crash
  <2>1. ckpt' = ckpt BY <1>8 DEF Crash
  <2> QED BY <1>1, <1>8, <2>1, CrashKeeps DEF JournalInv
<1>9. CASE UNCHANGED vars
  <2>1. ASSUME NEW r \in Runs
        PROVE  RunInv(r)'
    BY <1>1, <1>9, RunStays DEF vars
  <2> QED BY <1>1, <1>9, <2>1 DEF JournalInv, vars
<1> QED BY <1>2, <1>4, <1>5, <1>6, <1>7, <1>8, <1>9, LedgerCases

LEMMA JournalStart == Init => JournalInv
<1> SUFFICES ASSUME Init PROVE JournalInv OBVIOUS
<1>1. ckpt = [q \in Runs |-> ckpt[q]] BY DEF Init
<1>2. ASSUME NEW r \in Runs
      PROVE  RunInv(r)
  <2>1. /\ ledger[r] = Closed /\ journal[r] = <<>> /\ buffer[r] = <<>>
        /\ ckpt[r].count = 0 /\ ckpt[r].total = 0
    BY <1>2 DEF Init
  <2>2. <<>> \in Seq(Entry) /\ <<>> \o <<>> = <<>> OBVIOUS
  <2>3. Log(r) = <<>> /\ Records(r) = {} BY <2>1, <2>2, EmptySet DEF Log, Records
  <2>4. Acceptable(<<>>)
    <3>1. DOMAIN (<<>>) = {} OBVIOUS
    <3> QED BY <3>1, <2>2 DEF Acceptable
  <2>5. Sum(<<>>) = 0
    <3>1. Paid(<<>>) = {}
      <4>1. DOMAIN (<<>>) = {} OBVIOUS
      <4> QED BY <4>1 DEF Paid, Of
    <3> QED BY <3>1, TotalEmpty DEF Sum
  <2>6. Size(<<>>) \in Nat /\ Recover(<<>>).total = Sum(<<>>) BY <2>2, LogParts
  <2>7. Covers(r) BY <2>1, <2>5, <2>6 DEF Covers, Covered, Size
  <2>8. Staged(r)
    <3>1. ASSUME NEW d \in Calls(r)
          PROVE  Stage(r, d)
      <4>1. \A kind : ~ Has(Records(r), kind, d) BY <2>3 DEF Has
      <4>2. Health(r) = "closed" BY <2>1 DEF Health, Closed
      <4> QED BY <4>1, <4>2 DEF Stage
    <3> QED BY <3>1 DEF Staged
  <2> QED BY <2>1, <2>3, <2>4, <2>7, <2>8 DEF RunInv, Health, Closed
<1> QED BY <1>1, <1>2 DEF JournalInv

LEMMA JournalInvariant == Spec => []JournalInv
<1>1. Init => JournalInv BY JournalStart
<1>2. LedgerInv /\ JournalInv /\ [Next]_vars => JournalInv' BY JournalStep
<1> QED BY <1>1, <1>2, LedgerInvariant, PTL DEF Spec

(* What the invariant says of a run, as a resume of it would see it.        *)
LEMMA JournalRead ==
    ASSUME LedgerInv, JournalInv
    PROVE  JournalIsLedger
<1>1. Logged /\ Shapes BY ShapesEq DEF LedgerInv, SpendInv
<1> SUFFICES ASSUME NEW r \in Runs
             PROVE  /\ Acceptable(journal[r]) /\ Covered(r)
                    /\ (ledger[r].health = "ok" /\ ~ Locked(r)) =>
                        LET L == Recover(journal[r] \o buffer[r])
                        IN /\ [L EXCEPT !.consumed = ledger[r].consumed,
                                        !.unknown = ledger[r].unknown] = ledger[r]
                           /\ ledger[r].unknown => L.unknown
                           /\ ledger[r].consumed \ unshown[r] \subseteq
                                 L.consumed \cup {d \in DOMAIN L.receipts : L.receipts[d] = Unknown}
  BY DEF JournalIsLedger
<1>2. RunInv(r) BY DEF JournalInv
<1>3. Acceptable(journal[r]) /\ Covered(r)
  <2>1. journal[r] \in Seq(Entry) /\ buffer[r] \in Seq(Entry) BY <1>1, LogIs
  <2> QED BY <1>2, <2>1, AcceptsLess DEF RunInv, Log, Covers
<1>4. ASSUME ledger[r].health = "ok", ~ Locked(r)
      PROVE  /\ [Recover(Log(r)) EXCEPT !.consumed = ledger[r].consumed,
                                        !.unknown = ledger[r].unknown] = ledger[r]
             /\ ledger[r].unknown => Recover(Log(r)).unknown
             /\ ledger[r].consumed \ unshown[r] \subseteq
                   Recover(Log(r)).consumed
                   \cup {d \in DOMAIN Recover(Log(r)).receipts : Recover(Log(r)).receipts[d] = Unknown}
  <2> DEFINE log == Log(r)
             K == ledger[r]
             L == Recover(log)
  <2>1. Mirrors(r) /\ Shows(r) /\ log \in Seq(Entry)
    BY <1>1, <1>2, <1>4, LogIs DEF RunInv, Health
  <2>2. Mirror(K, log, {}, {}, {}, 0, At(r, "done"))
    <3>1. At(r, "source") = {} /\ At(r, "mark") = {} /\ At(r, "settle") = {} BY <1>4, PlacesOpen
    <3> QED BY <2>1, <3>1, MirrorsTo, NoLag
  <2>3. Mirror(L, log, {}, {}, {}, 0, Dangling(log)) BY <2>1, RecoverMirrors
  <2>4. L.health = "ok" /\ L.consumed = Of(log, "usage") BY RecoverShape DEF Recover, Shown
  <2>5. Show(K, Of(log, "usage"), unshown[r]) BY <2>1 DEF Shows
  <2>a. K.health = "ok" BY <1>4
  <2>u. K.unknown => L.unknown
    <3>1. K.unknown => Blank(log) \/ Dangling(log) # {} BY <2>2, MirrorIs
    <3>2. L.unknown = (Dangling(log) # {} \/ \E d \in Paid(log) : Uses(log)[d] = Unknown)
      BY DEF Recover, Dangling, Paid, Uses
    <3>3. Blank(log) => \E d \in Paid(log) : Uses(log)[d] = Unknown BY DEF Uses, Blank
    <3> HIDE DEF L, K, log
    <3> QED BY <3>1, <3>2, <3>3, Zenon
  <2> HIDE DEF L, K, log
  <2>6. Filled(K) /\ Filled(L) /\ \A f \in LedgerFields \ {"consumed", "unknown"} : K[f] = L[f]
    BY <2>2, <2>3, <2>4, <2>a, MirrorIs DEF LedgerFields
  <2>7. [L EXCEPT !.consumed = K.consumed, !.unknown = K.unknown] = K
    BY <2>6 DEF Filled, LedgerFields
  <2>8. K.consumed \ unshown[r] \subseteq
           L.consumed \cup {d \in DOMAIN L.receipts : L.receipts[d] = Unknown}
    <3>1. K.receipts = L.receipts BY <2>6 DEF LedgerFields
    <3> QED BY <2>4, <2>5, <3>1 DEF Show
  <2> QED BY <2>7, <2>8, <2>u DEF L, K, log
<1> QED BY <1>3, <1>4 DEF Log

(* What a resume rebuilds from the journal is what the ledger knew, for any *)
(* runs and deliveries, over any crashes, failed flushes and early ends.    *)
THEOREM JournalKeepsTheLedger == Spec => []JournalIsLedger
<1>1. LedgerInv /\ JournalInv => JournalIsLedger BY JournalRead
<1> QED BY <1>1, LedgerInvariant, JournalInvariant, PTL
=============================================================================
