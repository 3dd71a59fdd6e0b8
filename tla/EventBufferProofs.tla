-------------------------- MODULE EventBufferProofs --------------------------
(***************************************************************************)
(* Proofs about EventBuffer, for any number of background tasks and of     *)
(* recorded items.  What holds whatever fails is stated without hypotheses *)
(* on the faults; the promises that a failed write or a cancellation can   *)
(* break are stated for the buffers where it does not happen.              *)
(***************************************************************************)
EXTENDS EventBuffer, TLAPS

Places == {"running", "save", "flush", "cleanup", "flushBeforeResult", "completing",
           "complete", "abort", "fail", "final", "ended", "barrier", "session"}
WithCheckpoint == {"save", "complete", "abort", "fail"}
Terminal == {"complete", "abort", "fail"}
Late == {"final", "ended"}
Early == {"running", "save", "flush", "barrier", "session", "cleanup", "flushBeforeResult"}

(* Typing, with the places of the tasks: a save is called right after its   *)
(* checkpoint was recorded.                                                 *)
Typing ==
    /\ TypeOK
    /\ pc \in [Tasks -> Places \cup {"idle"}]
    /\ pc[Loop] \in Places
    /\ \A t \in Background : pc[t] \in {"idle", "barrier", "session"}
    /\ need \in [Tasks -> Positions \cup {0}]
    /\ write # NoWrite => write \in WriteRow
    /\ pc[Loop] \in WithCheckpoint =>
          recorded # <<>> /\ recorded[Len(recorded)] = "checkpoint"

(* The lock is held by a task that waits for its write.  While it is the    *)
(* run loop nothing is recorded and nothing newer deferred.                 *)
Holder ==
    write # NoWrite =>
        IF write.by = Loop
        THEN /\ pc[Loop] \in FlushPoints \cup WithCheckpoint \cup {"barrier"}
             /\ dirty = write.held
             /\ pc[Loop] # "barrier" => pending = <<>>
             /\ pc[Loop] \in FlushPoints => write.ckpt = write.held
             /\ pc[Loop] \in WithCheckpoint => write.ckpt # 0
             /\ pc[Loop] = "barrier" => write.ckpt = write.held /\ write.ckpt # 0
        ELSE /\ pc[write.by] = "barrier"
             /\ write.ckpt = write.held /\ write.ckpt # 0

BufferInv == Typing /\ Holder /\ CursorNeverAhead

(* Without a background task whose write fails, the buffer is failed only   *)
(* when the run loop is on its way out.                                     *)
FailedLate == failed => pc[Loop] \in {"fail"} \cup Late

(* The events of a sequence, or the first n of them, are no results.        *)
Free(s) == \A i \in DOMAIN s : recorded[s[i]] # "result"
FreeUpTo(n, s) == n <= Len(s) /\ \A i \in 1..n : recorded[s[i]] # "result"

(* Without cancellation: a result is in the buffer only from the phase      *)
(* completing on, behind what the held checkpoint covers, and is written    *)
(* with a terminal status or not at all.                                    *)
EarlyFree == pc[Loop] \in Early => Free(pending)
CoveredFree ==
    (dirty # 0 /\ ~ failed /\ (write = NoWrite \/ dirty # write.held)) => FreeUpTo(covers, pending)
RunningFree ==
    write # NoWrite =>
        /\ write.status = "running" => Free(write.events)
        /\ write.status # "running" => write.by = Loop /\ pc[Loop] \in Terminal
        /\ write.by # Loop => ~ failed
LateQuiet ==
    pc[Loop] \in Late =>
        /\ write = NoWrite
        /\ failed \/ dirty = 0
        /\ pc[Loop] = "final" => failed \/ pending = <<>>
TerminalLate == status # "running" => pc[Loop] \in Late
LogFree == status = "running" => \A j \in DOMAIN log : log[j] # 0 => recorded[log[j]] # "result"

ResultInv == EarlyFree /\ CoveredFree /\ RunningFree /\ LateQuiet /\ TerminalLate /\ LogFree

(* Without failed writes: the durable checkpoint only advances, and a task  *)
(* that passed its barrier has the checkpoint it needs in the store.        *)
Advances ==
    /\ dirty # 0 => ckpt <= dirty
    /\ (write # NoWrite /\ write.ckpt # 0) =>
          /\ ckpt <= write.ckpt /\ write.held <= write.ckpt
          /\ dirty # write.held => write.ckpt <= dirty
NeedHeld ==
    \A t \in Tasks :
        /\ pc[t] = "barrier" => need[t] <= ckpt \/ need[t] <= dirty
                                \/ (write # NoWrite /\ write.ckpt # 0 /\ need[t] <= write.ckpt)
        /\ (pc[t] = "barrier" /\ write # NoWrite /\ write.by = t) => need[t] <= write.ckpt
        /\ pc[t] = "session" => need[t] <= ckpt

OrderInv == ~ failed /\ Advances /\ NeedHeld /\ SessionAfterRunState

-----------------------------------------------------------------------------
(* The steps.                                                               *)

Recording == \/ RecordEvent \/ DeferCheckpoint \/ SaveThrough \/ RecordSuccess \/ RecordAbort
             \/ RunFails \/ CallComplete

LEMMA BufferCases ==
    ASSUME [Next]_vars
    PROVE  \/ Recording
           \/ CallFlush \/ CleanupDone \/ SkipFinalFlush \/ ForeignAppend
           \/ Flush \/ FlushWithCheckpoint \/ \E t \in Tasks : FlushCheckpoint(t)
           \/ \E t \in Tasks : BeginSessionWrite(t) \/ SessionWrite(t)
           \/ WriteSucceeds \/ \E fault \in Faults : WriteFails(fault)
           \/ Cancel
           \/ UNCHANGED vars
BY Zenon DEF Next, Recording, Ended

LEMMA TaskFacts ==
    /\ Loop \in Tasks /\ Background \subseteq Tasks /\ Loop \notin Background
    /\ \A t \in Tasks : t # Loop => t \in Background
BY EventBufferAssumption DEF Tasks

-----------------------------------------------------------------------------
(* Typing.                                                                  *)

Kinds == {"event", "result", "checkpoint"}

(* What is identified by positions of the program order.                    *)
Placed(P) ==
    /\ pending \in Seq(P) /\ heldOut \in Seq(P)
    /\ dirty \in P \cup {0}
    /\ log \in Seq(P \cup {0}) /\ ckpt \in P \cup {0}
    /\ session \in P \cup {0} /\ uncertain \subseteq P
    /\ need \in [Tasks -> P \cup {0}]
    /\ write # NoWrite => /\ write.events \in Seq(P)
                          /\ write.ckpt \in P \cup {0}

Plain ==
    /\ recorded \in Seq(Kinds)
    /\ covers \in Nat /\ failed \in BOOLEAN /\ lastSeq \in Nat
    /\ status \in TerminalStatus \cup {"running"}
    /\ pc \in [Tasks -> Places \cup {"idle"}] /\ pc[Loop] \in Places
    /\ \A t \in Background : pc[t] \in {"idle", "barrier", "session"}
    /\ write # NoWrite => write \in WriteRow

Saved == pc[Loop] \in WithCheckpoint =>
            recorded # <<>> /\ recorded[Len(recorded)] = "checkpoint"

LEMMA TypingParts == Typing <=> Plain /\ Placed(Positions) /\ Saved
<1>1. write \in WriteRow => write.by \in Tasks BY DEF WriteRow
<1> QED BY <1>1 DEF Typing, TypeOK, Plain, Placed, Saved, Kinds

LEMMA SeqMore ==
    ASSUME NEW P, NEW Q, P \subseteq Q, NEW s \in Seq(P)
    PROVE  s \in Seq(Q)
OBVIOUS

LEMMA SeqJoin ==
    ASSUME NEW P, NEW s \in Seq(P), NEW t \in Seq(P)
    PROVE  /\ s \o t \in Seq(P) /\ Len(s \o t) = Len(s) + Len(t)
           /\ \A i \in 1..Len(s) : (s \o t)[i] = s[i]
           /\ \A i \in 1..Len(t) : (s \o t)[Len(s) + i] = t[i]
OBVIOUS

LEMMA PlacedMore ==
    ASSUME NEW P, NEW Q, P \subseteq Q, Placed(P)
    PROVE  Placed(Q)
<1>1. \A s : s \in Seq(P) => s \in Seq(Q) BY SeqMore
<1>2. \A s : s \in Seq(P \cup {0}) => s \in Seq(Q \cup {0}) BY SeqMore
<1> QED BY <1>1, <1>2 DEF Placed

(* The program order grows.                                                 *)
LEMMA Grown ==
    ASSUME recorded \in Seq(Kinds), NEW kinds \in Seq(Kinds), recorded' = recorded \o kinds
    PROVE  /\ recorded' \in Seq(Kinds) /\ Len(recorded') = Len(recorded) + Len(kinds)
           /\ Positions \subseteq Positions' /\ \A i \in Positions : recorded'[i] = recorded[i]
           /\ \A i \in 1..Len(kinds) : recorded'[Len(recorded) + i] = kinds[i]
BY DEF Positions

(* The newest checkpoint is the item just recorded.                         *)
LEMMA NewestCheckpoint ==
    ASSUME Typing, pc[Loop] \in WithCheckpoint
    PROVE  LastCheckpoint = Len(recorded) /\ Len(recorded) \in Positions
<1>1. recorded \in Seq(Kinds) /\ recorded # <<>> /\ recorded[Len(recorded)] = "checkpoint"
  BY DEF Typing, TypeOK, Kinds
<1>2. Len(recorded) \in Nat \ {0} BY <1>1
<1> DEFINE P(i) == /\ recorded[i] = "checkpoint"
                   /\ \A j \in i+1..Len(recorded) : recorded[j] # "checkpoint"
<1>3. P(Len(recorded)) /\ Len(recorded) \in 1..Len(recorded) BY <1>1, <1>2
<1>4. \A i \in 1..Len(recorded) : P(i) => i = Len(recorded)
  <2> SUFFICES ASSUME NEW i \in 1..Len(recorded), P(i), i # Len(recorded)
               PROVE  FALSE
    OBVIOUS
  <2>1. Len(recorded) \in i+1..Len(recorded) BY <1>2
  <2> QED BY <1>1, <2>1
<1>5. LastCheckpoint = CHOOSE i \in 1..Len(recorded) : P(i) BY DEF LastCheckpoint
<1> HIDE DEF P
<1>6. LastCheckpoint = Len(recorded) BY <1>3, <1>4, <1>5
<1> QED BY <1>2, <1>6 DEF Positions

(* A write takes the first events of the buffer.                            *)
LEMMA IssueStep ==
    ASSUME Typing, NEW t \in Tasks, NEW n \in Nat, NEW c \in Positions \cup {0},
           NEW s \in TerminalStatus \cup {"running"}, Issue(t, n, c, s)
    PROVE  /\ write' # NoWrite /\ write' \in WriteRow
           /\ write'.by = t /\ write'.ckpt = c /\ write'.status = s /\ write'.held = dirty
           /\ write'.events \in Seq(Positions) /\ pending' \in Seq(Positions)
           /\ n >= Len(pending) => write'.events = pending /\ pending' = <<>>
           /\ n < Len(pending) => Len(write'.events) = n
           /\ \A i \in DOMAIN write'.events : i \in DOMAIN pending /\ write'.events[i] = pending[i]
           /\ \A i \in DOMAIN pending' : \E j \in DOMAIN pending : pending'[i] = pending[j]
           /\ Len(pending) = Len(write'.events) + Len(pending')
           /\ \A i \in 1..Len(pending') : pending'[i] = pending[Len(write'.events) + i]
           /\ UNCHANGED <<recorded, dirty, covers, failed, lastSeq, heldOut, pc, need, store, hist>>
<1>1. pending \in Seq(Positions) /\ dirty \in Nat /\ Positions \subseteq Nat /\ c \in Nat
  BY DEF Typing, TypeOK, Positions
<1> DEFINE split == Min({n, Len(pending)})
<1>2. /\ split \in 0..Len(pending) /\ split <= n
      /\ n >= Len(pending) => split = Len(pending)
      /\ n < Len(pending) => split = n
  <2> DEFINE m == IF n <= Len(pending) THEN n ELSE Len(pending)
  <2>1. Len(pending) \in Nat BY <1>1
  <2>2. m \in {n, Len(pending)} /\ \A y \in {n, Len(pending)} : m <= y BY <2>1
  <2>3. \A x \in {n, Len(pending)} : (\A y \in {n, Len(pending)} : x <= y) => x = m BY <2>1
  <2>4. split = CHOOSE x \in {n, Len(pending)} : \A y \in {n, Len(pending)} : x <= y
    BY DEF Min
  <2> HIDE DEF m, split
  <2>5. split = m BY <2>2, <2>3, <2>4
  <2> QED BY <2>1, <2>5 DEF m
<1>3. /\ write' = [by |-> t, events |-> SubSeq(pending, 1, split),
                   ckpt |-> c, status |-> s, held |-> dirty]
      /\ pending' = SubSeq(pending, split + 1, Len(pending))
  BY DEF Issue
<1> HIDE DEF split
<1>4. /\ SubSeq(pending, 1, split) \in Seq(Positions)
      /\ Len(SubSeq(pending, 1, split)) = split
      /\ \A i \in 1..split : SubSeq(pending, 1, split)[i] = pending[i]
      /\ split = Len(pending) => SubSeq(pending, 1, split) = pending
  BY <1>1, <1>2
<1>5. /\ pending' \in Seq(Positions)
      /\ split = Len(pending) => pending' = <<>>
      /\ \A i \in DOMAIN pending' : i + split \in DOMAIN pending /\ pending'[i] = pending[i + split]
  BY <1>1, <1>2, <1>3
<1>6. write' \in WriteRow
  <2> DEFINE taken == SubSeq(pending, 1, split)
  <2>1. taken \in Seq(Positions) BY <1>4
  <2> HIDE DEF taken
  <2>2. taken \in Seq(Nat) BY <1>1, <2>1, SeqMore
  <2> QED BY <1>1, <1>3, <2>2 DEF WriteRow, taken
<1>7. write' # NoWrite BY <1>6, EventBufferAssumption
<1>8. /\ write'.by = t /\ write'.ckpt = c /\ write'.status = s /\ write'.held = dirty
      /\ write'.events = SubSeq(pending, 1, split)
  BY <1>3
<1>9. UNCHANGED <<recorded, dirty, covers, failed, lastSeq, heldOut, pc, need, store, hist>>
  BY DEF Issue
<1>10. DOMAIN write'.events = 1..split /\ DOMAIN pending = 1..Len(pending)
  BY <1>1, <1>2, <1>4, <1>8
<1>11. n >= Len(pending) \/ n < Len(pending) BY <1>1
<1>12. \A i \in DOMAIN write'.events : i \in DOMAIN pending /\ write'.events[i] = pending[i]
  <2> SUFFICES ASSUME NEW i \in 1..split
               PROVE  i \in 1..Len(pending) /\ write'.events[i] = pending[i]
    BY <1>10
  <2>1. Len(pending) \in Nat BY <1>1
  <2>2. i \in 1..Len(pending) BY <1>2, <2>1
  <2>3. SubSeq(pending, 1, split)[i] = pending[i] BY <1>4
  <2> QED BY <1>8, <2>2, <2>3
<1>13. \A i \in DOMAIN pending' : \E j \in DOMAIN pending : pending'[i] = pending[j] BY <1>5
<1>14. /\ Len(pending) = Len(write'.events) + Len(pending')
       /\ \A i \in 1..Len(pending') : pending'[i] = pending[Len(write'.events) + i]
  <2>1. Len(write'.events) = split BY <1>4, <1>8
  <2>2. /\ Len(SubSeq(pending, split + 1, Len(pending))) = Len(pending) - split
        /\ \A i \in 1..Len(pending) - split :
              SubSeq(pending, split + 1, Len(pending))[i] = pending[split + i]
    BY <1>1, <1>2
  <2>3. split \in Nat /\ Len(pending) \in Nat BY <1>1, <1>2
  <2> HIDE DEF split
  <2> QED BY <2>1, <2>2, <2>3, <1>3
<1> QED BY <1>2, <1>4, <1>5, <1>6, <1>7, <1>8, <1>9, <1>12, <1>13, <1>14

LEMMA TypingFrom ==
    ASSUME Plain', Placed(Positions)', Saved'
    PROVE  Typing'
<1>1. write' \in WriteRow => write'.by \in Tasks BY DEF WriteRow
<1> QED BY <1>1 DEF Typing, TypeOK, Plain, Placed, Saved, Kinds

(* What a step that records does.                                           *)
LEMMA RecordingStep ==
    ASSUME Typing, Recording
    PROVE  /\ \E kinds \in Seq(Kinds) : recorded' = recorded \o kinds
           /\ UNCHANGED <<failed, lastSeq, write, need, store, hist>>
           /\ \A t \in Background : pc'[t] = pc[t]
           /\ pc' \in [Tasks -> Places \cup {"idle"}] /\ pc'[Loop] \in Places
           /\ pending' \in Seq(Positions') /\ heldOut' \in Seq(Positions')
           /\ dirty' \in Positions' \cup {0} /\ covers' \in Nat
           /\ Saved'
<1>0. Plain /\ Placed(Positions) BY TypingParts
<1>t. /\ pc \in [Tasks -> Places \cup {"idle"}] /\ pc[Loop] \in Places
      /\ recorded \in Seq(Kinds) /\ covers \in Nat
      /\ pending \in Seq(Positions) /\ heldOut \in Seq(Positions) /\ dirty \in Positions \cup {0}
  BY <1>0 DEF Plain, Placed
<1>1. ASSUME NEW kinds \in Seq(Kinds), kinds # <<>>, recorded' = recorded \o kinds
      PROVE  /\ Positions \subseteq Positions' /\ Next1 \in Positions'
             /\ pending \in Seq(Positions') /\ heldOut \in Seq(Positions')
             /\ dirty \in Positions' \cup {0}
             /\ recorded' # <<>> /\ recorded'[Len(recorded')] = kinds[Len(kinds)]
  <2>1. /\ Positions \subseteq Positions' /\ Len(recorded') = Len(recorded) + Len(kinds)
        /\ recorded' \in Seq(Kinds)
        /\ \A i \in 1..Len(kinds) : recorded'[Len(recorded) + i] = kinds[i]
    BY <1>1, <1>t, Grown
  <2>2. Len(kinds) \in Nat \ {0} /\ Len(recorded) \in Nat BY <1>1, <1>t
  <2>3. Next1 \in Positions' /\ recorded' # <<>> BY <2>1, <2>2 DEF Next1, Positions
  <2>4. Len(kinds) \in 1..Len(kinds) BY <2>2
  <2> QED BY <1>t, <2>1, <2>3, <2>4, SeqMore
<1>a. \A kind \in Kinds : <<kind>> \in Seq(Kinds) /\ Len(<<kind>>) = 1 /\ <<kind>>[1] = kind
      /\ <<kind>> # <<>> /\ Append(recorded, kind) = recorded \o <<kind>>
  BY <1>t
<1>b. LET both == <<"result", "checkpoint">>
      IN both \in Seq(Kinds) /\ both # <<>> /\ both[Len(both)] = "checkpoint"
  BY DEF Kinds
<1>2. ASSUME NEW kind \in Kinds, recorded' = Append(recorded, kind)
      PROVE  /\ \E kinds \in Seq(Kinds) : recorded' = recorded \o kinds
             /\ Positions \subseteq Positions' /\ Next1 \in Positions'
             /\ pending \in Seq(Positions') /\ heldOut \in Seq(Positions')
             /\ dirty \in Positions' \cup {0}
             /\ recorded' # <<>> /\ recorded'[Len(recorded')] = kind
  BY <1>1, <1>2, <1>a
<1>3. ASSUME NEW where \in Places, RecordTerminal(where)
      PROVE  /\ \E kinds \in Seq(Kinds) : recorded' = recorded \o kinds
             /\ Positions \subseteq Positions' /\ Next1 \in Positions'
             /\ pending \in Seq(Positions') /\ heldOut \in Seq(Positions')
             /\ dirty \in Positions' \cup {0}
             /\ recorded' # <<>> /\ recorded'[Len(recorded')] = "checkpoint"
  BY <1>1, <1>3, <1>b DEF RecordTerminal
<1>k. {"event", "result", "checkpoint"} = Kinds BY DEF Kinds
<1>4. ASSUME NEW where \in Places, Go(Loop, where)
      PROVE  /\ \A t \in Background : pc'[t] = pc[t]
             /\ pc' \in [Tasks -> Places \cup {"idle"}] /\ pc'[Loop] = where
  BY <1>4, <1>t, TaskFacts DEF Go
<1>5. CASE RecordEvent
  <2>1. /\ recorded' = Append(recorded, "event") /\ pending' = Append(pending, Next1)
        /\ pc[Loop] = "running"
        /\ UNCHANGED <<dirty, covers, failed, lastSeq, heldOut, write, pc, need, store, hist>>
    BY <1>5 DEF RecordEvent
  <2>2. pending' \in Seq(Positions') BY <1>2, <1>k, <2>1
  <2> QED BY <1>2, <1>k, <1>t, <2>1, <2>2 DEF Saved, WithCheckpoint
<1>6. CASE DeferCheckpoint
  <2>1. Len(pending) \in Nat BY <1>t
  <2> QED BY <1>2, <1>6, <1>k, <1>t, <2>1 DEF DeferCheckpoint, Saved, WithCheckpoint
<1>7. CASE SaveThrough
  <2>1. "save" \in Places BY DEF Places
  <2> QED BY <1>2, <1>4, <1>7, <1>k, <1>t, <2>1 DEF SaveThrough, Saved, buffer
<1>8. CASE RecordSuccess
  <2>1. "cleanup" \in Places \ WithCheckpoint BY DEF Places, WithCheckpoint
  <2>2. <<Next1>> \in Seq(Positions') BY <1>2, <1>8, <1>k DEF RecordSuccess
  <2> QED BY <1>2, <1>4, <1>8, <1>k, <1>t, <2>1, <2>2 DEF RecordSuccess, Saved, buffer
<1>9. CASE RecordAbort
  <2>1. "abort" \in Places BY DEF Places
  <2>2. RecordTerminal("abort") BY <1>9 DEF RecordAbort
  <2>3. pending' \in Seq(Positions') BY <1>3, <1>9, <2>1, <2>2 DEF RecordAbort
  <2> QED BY <1>3, <1>4, <1>9, <1>t, <2>1, <2>2, <2>3 DEF RecordAbort, RecordTerminal, Saved
<1>10. CASE RunFails
  <2>1. "fail" \in Places BY DEF Places
  <2>2. RecordTerminal("fail") /\ pending' = pending \o heldOut \o <<Next1>> /\ heldOut' = <<>>
    BY <1>10 DEF RunFails, Raise
  <2>3. pending' \in Seq(Positions') /\ heldOut' \in Seq(Positions')
    BY <1>3, <2>1, <2>2
  <2> QED BY <1>3, <1>4, <1>10, <1>t, <2>1, <2>2, <2>3 DEF RunFails, RecordTerminal, Saved
<1>11. CASE CallComplete
  <2>1. "complete" \in Places BY DEF Places
  <2> QED BY <1>2, <1>4, <1>11, <1>k, <1>t, <2>1 DEF CallComplete, Saved, buffer
<1> QED BY <1>5, <1>6, <1>7, <1>8, <1>9, <1>10, <1>11 DEF Recording

(* What the run loop does when its barrier call returns.                    *)
LEMMA ReturnedStep ==
    ASSUME Typing, pc[Loop] \in FlushPoints \cup WithCheckpoint, Returned(pc[Loop])
    PROVE  /\ recorded' = recorded
           /\ pc' = [pc EXCEPT ![Loop] = pc'[Loop]]
           /\ pc'[Loop] \in {"running", "completing", "final", "ended"}
           /\ pc[Loop] \in {"flush", "save"} => pc'[Loop] = "running"
           /\ pc[Loop] = "flushBeforeResult" =>
                 pc'[Loop] = "completing" /\ pending' = pending \o heldOut /\ heldOut' = <<>>
           /\ pc[Loop] = "complete" => pc'[Loop] = "final"
           /\ pc[Loop] \in {"abort", "fail", "final"} => pc'[Loop] = "ended"
           /\ pc[Loop] # "flushBeforeResult" => UNCHANGED <<pending, heldOut>>
           /\ pending' \in Seq(Positions) /\ heldOut' \in Seq(Positions)
<1>t. /\ pc \in [Tasks -> Places \cup {"idle"}] /\ Loop \in Tasks
      /\ pending \in Seq(Positions) /\ heldOut \in Seq(Positions)
  BY TypingParts, TaskFacts DEF Plain, Placed
<1>1. CASE pc[Loop] \in {"flush", "save"}
  BY <1>1, <1>t DEF Returned, Go
<1>2. CASE pc[Loop] = "flushBeforeResult"
  <2>1. pending' = pending \o heldOut /\ heldOut' = <<>> /\ recorded' = recorded
        /\ pc' = [pc EXCEPT ![Loop] = "completing"]
    BY <1>2 DEF Returned, Go, PutBack
  <2>2. pending' \in Seq(Positions) BY <1>t, <2>1, SeqJoin
  <2> QED BY <1>2, <1>t, <2>1, <2>2
<1>3. CASE pc[Loop] = "complete"
  BY <1>3, <1>t DEF Returned, Go
<1>4. CASE pc[Loop] \in {"abort", "fail", "final"}
  BY <1>4, <1>t DEF Returned, Go
<1> QED BY <1>1, <1>2, <1>3, <1>4 DEF FlushPoints, WithCheckpoint

(* The three calls that may issue a write, or return at once.               *)
Asks(t) == IF t = Loop THEN pc[Loop] \in FlushPoints \cup WithCheckpoint \cup {"barrier"}
           ELSE pc[t] = "barrier"

LEMMA AskStep ==
    ASSUME Typing, NEW t \in Tasks,
           (t = Loop /\ (Flush \/ FlushWithCheckpoint)) \/ FlushCheckpoint(t)
    PROVE  /\ write = NoWrite /\ Asks(t)
           /\ \/ \E n \in Nat, c \in Positions \cup {0}, s \in TerminalStatus \cup {"running"} :
                   /\ Issue(t, n, c, s)
                   /\ FlushCheckpoint(t) => n = covers /\ ~ failed
                   /\ pc[t] # "barrier" => n = Len(pending)
                   /\ IF pc[t] \in WithCheckpoint THEN c = LastCheckpoint /\ c # 0 ELSE c = dirty
                   /\ pc[t] \in FlushPoints => ~ failed /\ (dirty # 0 \/ pending # <<>>)
                   /\ pc[t] = "barrier" => c # 0 /\ n = covers /\ ~ failed
                   /\ IF pc[t] \in Terminal THEN s # "running" ELSE s = "running"
              \/ /\ pc[t] \notin Terminal /\ pc[t] # "barrier"
                 /\ t = Loop /\ Returned(pc[Loop])
                 /\ failed \/ (dirty = 0 /\ pending = <<>>)
                 /\ pc[t] = "save" => dirty = 0 /\ pending = <<>>
                 /\ UNCHANGED <<dirty, covers, failed, lastSeq, write, need, store, hist>>
              \/ /\ pc[t] = "barrier" /\ pc' = [pc EXCEPT ![t] = "session"]
                 /\ failed \/ dirty = 0
                 /\ UNCHANGED <<recorded, buffer, heldOut, write, need, store, hist>>
<1>t. /\ Len(pending) \in Nat /\ covers \in Nat /\ dirty \in Positions \cup {0}
      /\ 0 \notin Positions
  BY TypingParts DEF Plain, Placed, Positions
<1>1. CASE FlushCheckpoint(t)
  <2>1. /\ write = NoWrite /\ pc[t] = "barrier"
        /\ IF failed \/ dirty = 0
           THEN /\ Go(t, "session")
                /\ UNCHANGED <<recorded, buffer, heldOut, write, need, store, hist>>
           ELSE Issue(t, covers, dirty, "running")
    BY <1>1 DEF FlushCheckpoint, BarrierTakes
  <2>2. Asks(t) BY <2>1 DEF Asks
  <2>3. "barrier" \notin WithCheckpoint \cup Terminal \cup FlushPoints
    BY DEF WithCheckpoint, Terminal, FlushPoints
  <2> QED BY <1>t, <2>1, <2>2, <2>3 DEF Go
<1>2. CASE t = Loop /\ Flush
  <2>1. pc[Loop] \in FlushPoints /\ pc[Loop] # "barrier" /\ pc[Loop] \notin WithCheckpoint \cup Terminal \cup {"save"}
    BY <1>2 DEF Flush, FlushPoints, WithCheckpoint, Terminal
  <2>2. ~ FlushCheckpoint(t) BY <1>2, <2>1 DEF FlushCheckpoint
  <2>3. write = NoWrite /\ Asks(t) BY <1>2, <2>1 DEF Flush, Asks
  <2>4. CASE failed \/ (dirty = 0 /\ pending = <<>>)
    BY <1>2, <2>1, <2>3, <2>4 DEF Flush
  <2>5. CASE ~ (failed \/ (dirty = 0 /\ pending = <<>>))
    <3>1. Issue(Loop, Len(pending), dirty, "running") BY <1>2, <2>5 DEF Flush, FlushTakes
    <3> QED BY <1>2, <1>t, <2>1, <2>2, <2>3, <2>5, <3>1
  <2> QED BY <2>4, <2>5
<1>3. CASE t = Loop /\ FlushWithCheckpoint
  <2>1. pc[Loop] \in WithCheckpoint /\ pc[Loop] # "barrier" /\ pc[Loop] \notin FlushPoints
    BY <1>3 DEF FlushWithCheckpoint, FlushPoints, WithCheckpoint
  <2>2. ~ FlushCheckpoint(t) BY <1>3, <2>1 DEF FlushCheckpoint
  <2>3. write = NoWrite /\ Asks(t) BY <1>3, <2>1 DEF FlushWithCheckpoint, Asks
  <2>4. LastCheckpoint \in Positions /\ LastCheckpoint # 0
    BY <1>t, <2>1, NewestCheckpoint
  <2>5. CASE pc[Loop] = "save"
    <3>1. pc[Loop] \notin Terminal BY <2>5 DEF Terminal
    <3> QED BY <1>3, <1>t, <2>1, <2>2, <2>3, <2>4, <2>5, <3>1 DEF FlushWithCheckpoint, FlushTakes
  <2>6. CASE pc[Loop] \in Terminal
    <3>1. \E s \in TerminalStatus : Issue(Loop, Len(pending), LastCheckpoint, s)
      BY <1>3, <2>6 DEF FlushWithCheckpoint, FlushTakes, Terminal, TerminalStatus
    <3>2. "running" \notin TerminalStatus BY DEF TerminalStatus
    <3> QED BY <1>3, <1>t, <2>1, <2>2, <2>3, <2>4, <2>6, <3>1, <3>2
  <2> QED BY <2>1, <2>5, <2>6 DEF WithCheckpoint, Terminal
<1> QED BY <1>1, <1>2, <1>3

(* A write returns.                                                         *)
LEMMA WriteParts ==
    ASSUME Typing, write # NoWrite
    PROVE  /\ write.by \in Tasks /\ write.events \in Seq(Positions)
           /\ write.ckpt \in Positions \cup {0} /\ write.ckpt \in Nat /\ write.held \in Nat
           /\ write.status \in TerminalStatus \cup {"running"}
           /\ write.events \o pending \in Seq(Positions)
<1>1. /\ write \in WriteRow /\ write.events \in Seq(Positions)
      /\ write.ckpt \in Positions \cup {0} /\ pending \in Seq(Positions)
  BY TypingParts DEF Plain, Placed
<1>2. write.events \o pending \in Seq(Positions) BY <1>1, SeqJoin
<1> QED BY <1>1, <1>2 DEF WriteRow

Applied ==
    /\ log' = log \o write.events
    /\ ckpt' = IF write.ckpt = 0 THEN ckpt ELSE write.ckpt
    /\ status' = IF write.ckpt = 0 THEN status ELSE write.status

LEMMA ApplyStep ==
    ASSUME Typing, write # NoWrite, Apply
    PROVE  /\ Applied
           /\ log' \in Seq(Positions \cup {0}) /\ Len(log') \in Nat /\ Len(log') >= Len(log)
           /\ ckpt' \in Positions \cup {0} /\ status' \in TerminalStatus \cup {"running"}
<1>1. /\ log \in Seq(Positions \cup {0}) /\ ckpt \in Positions \cup {0}
      /\ status \in TerminalStatus \cup {"running"}
  BY TypingParts DEF Plain, Placed
<1>2. write.events \in Seq(Positions \cup {0})
  <2>1. Positions \subseteq Positions \cup {0} OBVIOUS
  <2> QED BY <2>1, WriteParts, SeqMore
<1>3. log \o write.events \in Seq(Positions \cup {0})
      /\ Len(log \o write.events) = Len(log) + Len(write.events)
  BY <1>1, <1>2, SeqJoin
<1>4. Len(log) \in Nat /\ Len(write.events) \in Nat BY <1>1, <1>2
<1> QED BY <1>1, <1>3, <1>4, WriteParts DEF Apply, Applied

LEMMA SucceedStep ==
    ASSUME Typing, Holder, WriteSucceeds
    PROVE  /\ write # NoWrite /\ write' = NoWrite /\ Applied
           /\ write.ckpt = 0 => UNCHANGED <<dirty, failed>>
           /\ write.ckpt # 0 => /\ failed' = FALSE
                                /\ dirty' = IF dirty = write.held THEN 0 ELSE dirty
           /\ lastSeq' \in {lastSeq, Len(log')}
           /\ IF write.by = Loop /\ pc[Loop] # "barrier"
              THEN Returned(pc[Loop])
              ELSE /\ pc' = [pc EXCEPT ![write.by] = "session"]
                   /\ pc[write.by] = "barrier"
                   /\ UNCHANGED <<recorded, pending, heldOut>>
           /\ UNCHANGED <<covers, need, hist>>
<1>1. write # NoWrite => IF write.by = Loop /\ pc[Loop] # "barrier" THEN TRUE ELSE pc[write.by] = "barrier"
  BY DEF Holder
<1>2. Applied BY ApplyStep DEF WriteSucceeds
<1> QED BY <1>1, <1>2 DEF WriteSucceeds, SeqAfter, DirtyAfter, Go

(* A write that fails, or whose task is cancelled: its events are back in   *)
(* front of the buffer.                                                     *)
LEMMA FailStep ==
    ASSUME Typing, Holder, NEW fault \in Faults, WriteFails(fault)
    PROVE  /\ write # NoWrite /\ write' = NoWrite
           /\ fault \in (IF write.by = Loop THEN LoopFaults ELSE BarrierFaults)
           /\ \/ fault = "unavailable" /\ Applied
                 /\ uncertain' = uncertain \cup ToSet(write.events)
              \/ UNCHANGED <<store, uncertain>>
           /\ failed' = (failed \/ write.ckpt # 0)
           /\ IF write.by = Loop
              THEN IF fault = "unavailable"
                   THEN /\ pending' = write.events \o pending
                        /\ pc' = [pc EXCEPT ![Loop] = "ended"]
                        /\ UNCHANGED <<recorded, heldOut>>
                   ELSE IF pc[Loop] \in {"final", "fail"}
                   THEN /\ pending' = write.events \o pending
                        /\ pc' = [pc EXCEPT ![Loop] = IF pc[Loop] = "fail" THEN "final" ELSE "ended"]
                        /\ UNCHANGED <<recorded, heldOut>>
                   ELSE /\ recorded' = recorded \o <<"result", "checkpoint">>
                        /\ pc' = [pc EXCEPT ![Loop] = "fail"]
                        /\ pending' = (write.events \o pending) \o heldOut \o <<Next1>>
                        /\ heldOut' = <<>>
              ELSE /\ pending' = write.events \o pending
                   /\ pc' = [pc EXCEPT ![write.by] = "idle"]
                   /\ UNCHANGED <<recorded, heldOut>>
           /\ UNCHANGED <<dirty, covers, lastSeq, need, session>>
<1>1. write # NoWrite BY DEF WriteFails
<1>2. Apply => Applied BY <1>1, ApplyStep
<1> QED
  BY <1>1, <1>2 DEF WriteFails, AppliedUnnoticed, MarksFailed, Restored, LoopRaises, Raise,
                    RecordTerminal, Go

LEMMA CancelStep ==
    ASSUME Typing, Cancel
    PROVE  /\ pc[Loop] \notin Late /\ pc' = [pc EXCEPT ![Loop] = "final"]
           /\ heldOut' = <<>>
           /\ IF write # NoWrite /\ write.by = Loop
              THEN /\ pending' = (write.events \o pending) \o heldOut
                   /\ failed' = (failed \/ write.ckpt # 0)
                   /\ write' = NoWrite
                   /\ \/ /\ Applied
                         /\ uncertain' = uncertain \cup ToSet(write.events)
                      \/ UNCHANGED <<store, uncertain>>
              ELSE /\ pending' = pending \o heldOut
                   /\ UNCHANGED <<failed, write, store, uncertain>>
           /\ UNCHANGED <<recorded, dirty, covers, lastSeq, need, session>>
<1>1. write # NoWrite /\ Apply => Applied BY ApplyStep
<1> QED BY <1>1 DEF Cancel, AppliedUnnoticed, MarksFailed, Restored, Go, Late

LEMMA TypingStep ==
    ASSUME Typing, Holder, [Next]_vars
    PROVE  Typing'
<1>0. Plain /\ Placed(Positions) /\ Saved BY TypingParts
<1>t. /\ pc \in [Tasks -> Places \cup {"idle"}] /\ pc[Loop] \in Places
      /\ \A t \in Background : pc[t] \in {"idle", "barrier", "session"}
      /\ recorded \in Seq(Kinds) /\ need \in [Tasks -> Positions \cup {0}] /\ failed \in BOOLEAN
      /\ pending \in Seq(Positions) /\ heldOut \in Seq(Positions)
      /\ uncertain \subseteq Positions /\ lastSeq \in Nat
  BY <1>0 DEF Plain, Placed
<1>p. Positions \subseteq Nat /\ 0 \notin Positions BY DEF Positions
<1>1. CASE Recording
  <2>1. PICK kinds \in Seq(Kinds) : recorded' = recorded \o kinds BY <1>1, RecordingStep
  <2>2. recorded' \in Seq(Kinds) /\ Positions \subseteq Positions' BY <1>t, <2>1, Grown
  <2>3. Placed(Positions') BY <1>0, <2>2, PlacedMore
  <2>4. /\ UNCHANGED <<failed, lastSeq, write, need, store, hist>>
        /\ \A t \in Background : pc'[t] = pc[t]
        /\ pc' \in [Tasks -> Places \cup {"idle"}] /\ pc'[Loop] \in Places
        /\ pending' \in Seq(Positions') /\ heldOut' \in Seq(Positions')
        /\ dirty' \in Positions' \cup {0} /\ covers' \in Nat /\ Saved'
    BY <1>1, RecordingStep
  <2>5. Placed(Positions)' BY <2>3, <2>4 DEF Placed, store, hist
  <2>6. Plain' BY <1>0, <2>2, <2>4 DEF Plain, store
  <2> QED BY <2>4, <2>5, <2>6, TypingFrom
<1>2. ASSUME UNCHANGED <<recorded, dirty, covers, failed, lastSeq, store>>,
             pending' \in Seq(Positions), heldOut' \in Seq(Positions),
             session' \in Positions \cup {0}, uncertain' = uncertain,
             need' \in [Tasks -> Positions \cup {0}],
             write' = write \/ (write' \in WriteRow /\ write'.events \in Seq(Positions)
                                /\ write'.ckpt \in Positions \cup {0}),
             pc' \in [Tasks -> Places \cup {"idle"}], pc'[Loop] \in Places,
             \A t \in Background : pc'[t] \in {"idle", "barrier", "session"},
             pc'[Loop] \in WithCheckpoint => pc'[Loop] = pc[Loop]
      PROVE  Typing'
  <2>1. Plain' BY <1>0, <1>2 DEF Plain, store
  <2>2. Placed(Positions)' BY <1>0, <1>2 DEF Placed, Positions, store
  <2>3. Saved' BY <1>0, <1>2 DEF Saved
  <2> QED BY <2>1, <2>2, <2>3, TypingFrom
<1>k. ASSUME NEW t \in Tasks, NEW where, pc' = [pc EXCEPT ![t] = where],
             IF t = Loop THEN where \in Places \ WithCheckpoint
             ELSE where \in {"idle", "barrier", "session"}
      PROVE  /\ pc' \in [Tasks -> Places \cup {"idle"}] /\ pc'[Loop] \in Places
             /\ \A u \in Background : pc'[u] \in {"idle", "barrier", "session"}
             /\ pc'[Loop] \in WithCheckpoint => pc'[Loop] = pc[Loop]
  <2>1. {"idle", "barrier", "session"} \subseteq Places \cup {"idle"} BY DEF Places
  <2> QED BY <1>k, <1>t, <2>1, TaskFacts
<1>w. /\ Places \ WithCheckpoint = {"running", "flush", "cleanup", "flushBeforeResult",
                                    "completing", "final", "ended", "barrier", "session"}
      /\ "fail" \in Places
  BY DEF Places, WithCheckpoint
<1>3. CASE CallFlush \/ CleanupDone \/ SkipFinalFlush
  <2>1. \E where \in Places \ WithCheckpoint : pc' = [pc EXCEPT ![Loop] = where]
    BY <1>3, <1>w DEF CallFlush, CleanupDone, SkipFinalFlush, Go
  <2>2. UNCHANGED <<recorded, buffer, heldOut, write, need, store, hist>>
    BY <1>3 DEF CallFlush, CleanupDone, SkipFinalFlush
  <2> QED BY <1>0, <1>2, <1>k, <1>t, <2>1, <2>2, TaskFacts DEF buffer, hist, Placed
<1>4. ASSUME NEW t \in Tasks, BeginSessionWrite(t) \/ SessionWrite(t)
      PROVE  Typing'
  <2>1. \E where :
           /\ pc' = [pc EXCEPT ![t] = where]
           /\ IF t = Loop THEN where \in Places \ WithCheckpoint
              ELSE where \in {"idle", "barrier", "session"}
    BY <1>4, <1>w DEF BeginSessionWrite, SessionWrite, Go
  <2>2. UNCHANGED <<recorded, buffer, heldOut, write, store, uncertain>>
    BY <1>4 DEF BeginSessionWrite, SessionWrite, hist
  <2>3. need' \in [Tasks -> Positions \cup {0}] /\ session' \in Positions \cup {0}
    BY <1>0, <1>4 DEF BeginSessionWrite, SessionWrite, Placed, hist
  <2>4. /\ UNCHANGED <<recorded, dirty, covers, failed, lastSeq, store>>
        /\ pending' \in Seq(Positions) /\ heldOut' \in Seq(Positions)
        /\ uncertain' = uncertain /\ write' = write
    BY <1>t, <2>2 DEF buffer
  <2> QED BY <1>2, <1>k, <2>1, <2>3, <2>4
<1>5. ASSUME NEW t \in Tasks,
             (t = Loop /\ (Flush \/ FlushWithCheckpoint)) \/ FlushCheckpoint(t)
      PROVE  Typing'
  <2>1. ASSUME NEW n \in Nat, NEW c \in Positions \cup {0},
               NEW s \in TerminalStatus \cup {"running"}, Issue(t, n, c, s)
        PROVE  Typing'
    <3>1. /\ write' \in WriteRow /\ write'.ckpt = c /\ write'.events \in Seq(Positions)
          /\ pending' \in Seq(Positions)
          /\ UNCHANGED <<recorded, dirty, covers, failed, lastSeq, heldOut, pc, need, store, hist>>
      BY <2>1, IssueStep
    <3>2. /\ UNCHANGED <<recorded, dirty, covers, failed, lastSeq, store>>
          /\ heldOut' \in Seq(Positions) /\ session' \in Positions \cup {0}
          /\ uncertain' = uncertain /\ need' \in [Tasks -> Positions \cup {0}] /\ pc' = pc
      BY <1>0, <3>1 DEF Placed, hist
    <3> QED BY <1>2, <1>t, <3>1, <3>2
  <2>2. CASE /\ pc[t] \notin Terminal /\ pc[t] # "barrier"
             /\ t = Loop /\ Returned(pc[Loop])
             /\ UNCHANGED <<dirty, covers, failed, lastSeq, write, need, store, hist>>
    <3>1. pc[Loop] \in FlushPoints \cup WithCheckpoint BY <1>5, <2>2, AskStep DEF Asks
    <3>2. /\ recorded' = recorded /\ pc' = [pc EXCEPT ![Loop] = pc'[Loop]]
          /\ pc'[Loop] \in {"running", "completing", "final", "ended"}
          /\ pending' \in Seq(Positions) /\ heldOut' \in Seq(Positions)
      BY <2>2, <3>1, ReturnedStep
    <3>3. /\ pc' \in [Tasks -> Places \cup {"idle"}] /\ pc'[Loop] \in Places
          /\ \A u \in Background : pc'[u] \in {"idle", "barrier", "session"}
          /\ pc'[Loop] \in WithCheckpoint => pc'[Loop] = pc[Loop]
      BY <1>k, <1>w, <3>2, TaskFacts
    <3>4. session' \in Positions \cup {0} /\ uncertain' = uncertain
      BY <1>0, <2>2 DEF Placed, hist
    <3> QED BY <1>2, <1>t, <2>2, <3>2, <3>3, <3>4
  <2>3. CASE /\ pc' = [pc EXCEPT ![t] = "session"]
             /\ UNCHANGED <<recorded, buffer, heldOut, write, need, store, hist>>
    <3>1. /\ pc' \in [Tasks -> Places \cup {"idle"}] /\ pc'[Loop] \in Places
          /\ \A u \in Background : pc'[u] \in {"idle", "barrier", "session"}
          /\ pc'[Loop] \in WithCheckpoint => pc'[Loop] = pc[Loop]
      BY <1>k, <1>w, <2>3
    <3>2. /\ UNCHANGED <<recorded, dirty, covers, failed, lastSeq, store>>
          /\ pending' \in Seq(Positions) /\ heldOut' \in Seq(Positions)
          /\ session' \in Positions \cup {0} /\ uncertain' = uncertain /\ write' = write
          /\ need' \in [Tasks -> Positions \cup {0}]
      BY <1>0, <1>t, <2>3 DEF buffer, hist, Placed
    <3> QED BY <1>2, <3>1, <3>2
  <2> QED BY <1>5, <2>1, <2>2, <2>3, AskStep
<1>6. CASE ForeignAppend
  <2>1. /\ log' = Append(log, 0)
        /\ UNCHANGED <<recorded, buffer, heldOut, write, pc, need, ckpt, status, hist>>
    BY <1>6 DEF ForeignAppend
  <2>2. log' \in Seq(Positions \cup {0}) BY <1>0, <2>1 DEF Placed
  <2>3. Placed(Positions)' BY <1>0, <2>1, <2>2 DEF Placed, Positions, buffer, hist
  <2>4. Plain' /\ Saved' BY <1>0, <2>1 DEF Plain, Saved, buffer
  <2> QED BY <2>3, <2>4, TypingFrom
<1>7. ASSUME recorded' = recorded, write' = NoWrite \/ write' = write,
             UNCHANGED store \/ (write # NoWrite /\ Apply),
             uncertain' \subseteq Positions, UNCHANGED <<covers, need, session>>,
             lastSeq' \in Nat, failed' \in BOOLEAN, dirty' \in {dirty, 0},
             pending' \in Seq(Positions), heldOut' \in Seq(Positions),
             pc' \in [Tasks -> Places \cup {"idle"}], pc'[Loop] \in Places,
             \A t \in Background : pc'[t] \in {"idle", "barrier", "session"},
             pc'[Loop] \in WithCheckpoint => pc'[Loop] = pc[Loop]
      PROVE  Typing'
  <2>1. /\ log' \in Seq(Positions \cup {0}) /\ ckpt' \in Positions \cup {0}
        /\ status' \in TerminalStatus \cup {"running"}
    BY <1>0, <1>7, ApplyStep DEF Placed, Plain, store
  <2>2. Plain' BY <1>0, <1>7, <2>1 DEF Plain
  <2>3. Placed(Positions)' BY <1>0, <1>7, <2>1 DEF Placed, Positions
  <2>4. Saved' BY <1>0, <1>7 DEF Saved
  <2> QED BY <2>2, <2>3, <2>4, TypingFrom
<1>8. CASE WriteSucceeds
  <2>1. /\ write # NoWrite /\ write' = NoWrite /\ Apply
        /\ UNCHANGED <<covers, need, hist>>
    BY <1>8 DEF WriteSucceeds
  <2>2. failed' \in BOOLEAN /\ dirty' \in {dirty, 0} /\ lastSeq' \in Nat
    BY <1>8, <1>t, <2>1, ApplyStep, SucceedStep
  <2>3. CASE write.by = Loop /\ pc[Loop] # "barrier"
    <3>1. Returned(pc[Loop]) BY <1>8, <2>3, SucceedStep
    <3>2. pc[Loop] \in FlushPoints \cup WithCheckpoint BY <2>1, <2>3 DEF Holder
    <3>3. /\ recorded' = recorded /\ pc' = [pc EXCEPT ![Loop] = pc'[Loop]]
          /\ pc'[Loop] \in {"running", "completing", "final", "ended"}
          /\ pending' \in Seq(Positions) /\ heldOut' \in Seq(Positions)
      BY <3>1, <3>2, ReturnedStep
    <3>4. /\ pc' \in [Tasks -> Places \cup {"idle"}] /\ pc'[Loop] \in Places
          /\ \A u \in Background : pc'[u] \in {"idle", "barrier", "session"}
          /\ pc'[Loop] \in WithCheckpoint => pc'[Loop] = pc[Loop]
      BY <1>k, <1>w, <3>3, TaskFacts
    <3> QED BY <1>7, <1>t, <2>1, <2>2, <3>3, <3>4 DEF hist
  <2>4. CASE ~ (write.by = Loop /\ pc[Loop] # "barrier")
    <3>1. /\ pc' = [pc EXCEPT ![write.by] = "session"] /\ write.by \in Tasks
          /\ UNCHANGED <<recorded, pending, heldOut>>
      BY <1>8, <2>4, SucceedStep, WriteParts
    <3>2. /\ pc' \in [Tasks -> Places \cup {"idle"}] /\ pc'[Loop] \in Places
          /\ \A u \in Background : pc'[u] \in {"idle", "barrier", "session"}
          /\ pc'[Loop] \in WithCheckpoint => pc'[Loop] = pc[Loop]
      BY <1>k, <1>w, <3>1
    <3> QED BY <1>7, <1>t, <2>1, <2>2, <3>1, <3>2 DEF hist
  <2> QED BY <2>3, <2>4
<1>9. ASSUME NEW fault \in Faults, WriteFails(fault)
      PROVE  Typing'
  <2>0. write # NoWrite BY <1>9 DEF WriteFails
  <2>1. /\ write' = NoWrite /\ (UNCHANGED store \/ Apply)
        /\ UNCHANGED <<dirty, covers, lastSeq, need, session>>
        /\ failed' \in BOOLEAN
    BY <1>9, <1>t DEF WriteFails, AppliedUnnoticed, MarksFailed
  <2>2. uncertain' \subseteq Positions
    <3>1. ToSet(write.events) \subseteq Positions BY <2>0, WriteParts DEF ToSet
    <3> QED BY <1>9, <1>t, <3>1 DEF WriteFails, AppliedUnnoticed
  <2>3. write.events \o pending \in Seq(Positions) BY <2>0, WriteParts
  <2>4. CASE recorded' = recorded
    <3>1. /\ \E where : /\ pc' = [pc EXCEPT ![write.by] = where]
                        /\ IF write.by = Loop THEN where \in Places \ WithCheckpoint
                           ELSE where \in {"idle", "barrier", "session"}
          /\ write.by \in Tasks
      <4>1. write.by = Loop => \/ pc' = [pc EXCEPT ![Loop] = "ended"]
                               \/ pc' = [pc EXCEPT ![Loop] = "final"]
        <5>1. recorded # recorded \o <<"result", "checkpoint">>
          <6>1. Len(recorded \o <<"result", "checkpoint">>) = Len(recorded) + 2
                /\ Len(recorded) \in Nat
            BY <1>t
          <6> QED BY <6>1
        <5> QED BY <1>9, <2>4, <5>1, FailStep
      <4>2. write.by # Loop => pc' = [pc EXCEPT ![write.by] = "idle"] BY <1>9, FailStep
      <4> QED BY <1>w, <2>0, <4>1, <4>2, WriteParts
    <3>2. /\ pc' \in [Tasks -> Places \cup {"idle"}] /\ pc'[Loop] \in Places
          /\ \A u \in Background : pc'[u] \in {"idle", "barrier", "session"}
          /\ pc'[Loop] \in WithCheckpoint => pc'[Loop] = pc[Loop]
      BY <1>k, <3>1
    <3>3. pending' \in Seq(Positions) /\ heldOut' \in Seq(Positions)
      <4>1. recorded # recorded \o <<"result", "checkpoint">>
        <5>1. Len(recorded \o <<"result", "checkpoint">>) = Len(recorded) + 2
              /\ Len(recorded) \in Nat
          BY <1>t
        <5> QED BY <5>1
      <4>2. pending' = write.events \o pending /\ heldOut' = heldOut
        BY <1>9, <2>4, <4>1, FailStep
      <4> QED BY <1>t, <2>3, <4>2
    <3> QED BY <1>7, <1>t, <2>0, <2>1, <2>2, <2>4, <3>2, <3>3
  <2>5. CASE recorded' # recorded
    <3>1. /\ write.by = Loop /\ fault # "unavailable"
          /\ recorded' = recorded \o <<"result", "checkpoint">>
          /\ pc' = [pc EXCEPT ![Loop] = "fail"]
          /\ pending' = (write.events \o pending) \o heldOut \o <<Next1>>
          /\ heldOut' = <<>>
          /\ UNCHANGED <<store, uncertain>>
      BY <1>9, <2>5, FailStep
    <3> DEFINE both == <<"result", "checkpoint">>
    <3>2. both \in Seq(Kinds) /\ Len(both) = 2 /\ both[2] = "checkpoint" BY DEF Kinds
    <3> HIDE DEF both
    <3>3. /\ recorded' \in Seq(Kinds) /\ Positions \subseteq Positions'
          /\ Len(recorded') = Len(recorded) + 2
          /\ recorded'[Len(recorded) + 2] = "checkpoint" /\ Len(recorded) \in Nat
      <4>1. recorded' = recorded \o both BY <3>1 DEF both
      <4>2. /\ recorded' \in Seq(Kinds) /\ Positions \subseteq Positions'
            /\ Len(recorded') = Len(recorded) + Len(both)
            /\ \A i \in 1..Len(both) : recorded'[Len(recorded) + i] = both[i]
        BY <1>t, <3>2, <4>1, Grown
      <4>3. 2 \in 1..Len(both) /\ Len(recorded) \in Nat BY <1>t, <3>2
      <4> QED BY <3>2, <4>2, <4>3
    <3>4. Next1 \in Positions' BY <3>3 DEF Next1, Positions
    <3>5. <<Next1>> \in Seq(Positions') BY <3>4
    <3>6. pending' \in Seq(Positions')
      <4>1. write.events \o pending \in Seq(Positions') /\ heldOut \in Seq(Positions')
        BY <1>t, <2>3, <3>3, SeqMore
      <4>2. (write.events \o pending) \o heldOut \in Seq(Positions') BY <4>1, SeqJoin
      <4> QED BY <3>1, <3>5, <4>2, SeqJoin
    <3>7. Placed(Positions') BY <1>0, <3>3, PlacedMore
    <3>8. Placed(Positions)' BY <2>1, <3>1, <3>6, <3>7 DEF Placed, store
    <3>9. Plain' BY <1>0, <1>t, <1>w, <2>1, <3>1, <3>3, TaskFacts DEF Plain, store
    <3>10. Saved' BY <3>3 DEF Saved
    <3> QED BY <3>8, <3>9, <3>10, TypingFrom
  <2> QED BY <2>4, <2>5
<1>10. CASE Cancel
  <2>1. /\ pc' = [pc EXCEPT ![Loop] = "final"] /\ heldOut' = <<>>
        /\ UNCHANGED <<recorded, dirty, covers, lastSeq, need, session>>
    BY <1>10 DEF Cancel, Go
  <2>2. /\ pc' \in [Tasks -> Places \cup {"idle"}] /\ pc'[Loop] \in Places
        /\ \A u \in Background : pc'[u] \in {"idle", "barrier", "session"}
        /\ pc'[Loop] \in WithCheckpoint => pc'[Loop] = pc[Loop]
    BY <1>k, <1>w, <2>1, TaskFacts
  <2>3. CASE write # NoWrite /\ write.by = Loop
    <3>1. /\ pending' = (write.events \o pending) \o heldOut /\ write' = NoWrite
          /\ failed' \in BOOLEAN
          /\ UNCHANGED <<store, uncertain>>
             \/ (Apply /\ uncertain' = uncertain \cup ToSet(write.events))
      BY <1>10, <1>t, <2>3 DEF Cancel, AppliedUnnoticed, MarksFailed, Restored
    <3>2. pending' \in Seq(Positions) BY <1>t, <2>3, <3>1, WriteParts, SeqJoin
    <3>3. uncertain' \subseteq Positions
      <4>1. ToSet(write.events) \subseteq Positions BY <2>3, WriteParts DEF ToSet
      <4> QED BY <1>t, <3>1, <4>1
    <3> QED BY <1>7, <1>t, <2>1, <2>2, <2>3, <3>1, <3>2, <3>3
  <2>4. CASE ~ (write # NoWrite /\ write.by = Loop)
    <3>1. /\ pending' = pending \o heldOut
          /\ UNCHANGED <<failed, write, store, uncertain>>
      BY <1>10, <2>4 DEF Cancel
    <3>2. pending' \in Seq(Positions) BY <1>t, <3>1, SeqJoin
    <3> QED BY <1>7, <1>t, <2>1, <2>2, <3>1, <3>2
  <2> QED BY <2>3, <2>4
<1>11. CASE UNCHANGED vars
  BY <1>11 DEF vars, buffer, store, hist, Typing, TypeOK, Positions
<1> QED BY <1>1, <1>3, <1>4, <1>5, <1>6, <1>8, <1>9, <1>10, <1>11, TaskFacts, BufferCases

-----------------------------------------------------------------------------
(* The lock, and the cursor.                                                *)

LEMMA HolderStep ==
    ASSUME Typing, Holder, [Next]_vars
    PROVE  Holder'
<1>t. /\ pc \in [Tasks -> Places \cup {"idle"}] /\ pc[Loop] \in Places
      /\ pending \in Seq(Positions) /\ Loop \in Tasks
  BY TypingParts, TaskFacts DEF Plain, Placed
<1>1. CASE write' = NoWrite BY <1>1 DEF Holder
<1>2. CASE Recording
  <2>1. write' = write /\ \A t \in Background : pc'[t] = pc[t] BY <1>2, RecordingStep
  <2>2. write # NoWrite => write.by # Loop
    BY <1>2 DEF Recording, RecordEvent, DeferCheckpoint, SaveThrough, RecordSuccess, RecordAbort,
                RunFails, CallComplete, Holder, FlushPoints, WithCheckpoint
  <2>3. write # NoWrite => write.by \in Background BY <2>2, TaskFacts, WriteParts
  <2> QED BY <2>1, <2>2, <2>3 DEF Holder
<1>3. CASE CallFlush \/ CleanupDone \/ SkipFinalFlush \/ ForeignAppend
  <2>1. /\ UNCHANGED <<buffer, write>>
        /\ \A t \in Background : pc'[t] = pc[t]
        /\ pc' = pc \/ (write # NoWrite => write.by # Loop)
    BY <1>3, <1>t, TaskFacts
       DEF CallFlush, CleanupDone, SkipFinalFlush, ForeignAppend, Go, Holder, FlushPoints, WithCheckpoint
  <2>2. write # NoWrite => write.by = Loop \/ write.by \in Background BY TaskFacts, WriteParts
  <2> QED BY <2>1, <2>2 DEF Holder, buffer
<1>4. ASSUME NEW t \in Tasks, BeginSessionWrite(t) \/ SessionWrite(t)
      PROVE  Holder'
  <2>1. /\ UNCHANGED <<buffer, write>>
        /\ \A u \in Tasks \ {t} : pc'[u] = pc[u]
        /\ pc[t] \in {"running", "idle", "session"}
    BY <1>4, <1>t DEF BeginSessionWrite, SessionWrite, Go
  <2>2. write # NoWrite => write.by # t
    BY <2>1 DEF Holder, FlushPoints, WithCheckpoint
  <2>3. write # NoWrite => write.by \in Tasks BY WriteParts
  <2> QED BY <1>t, <2>1, <2>2, <2>3 DEF Holder, buffer
<1>5. ASSUME NEW t \in Tasks,
             (t = Loop /\ (Flush \/ FlushWithCheckpoint)) \/ FlushCheckpoint(t)
      PROVE  Holder'
  <2>1. ASSUME NEW n \in Nat, NEW c \in Positions \cup {0},
               NEW s \in TerminalStatus \cup {"running"}, Issue(t, n, c, s),
               pc[t] # "barrier" => n = Len(pending),
               IF pc[t] \in WithCheckpoint THEN c = LastCheckpoint /\ c # 0 ELSE c = dirty,
               pc[t] = "barrier" => c # 0
        PROVE  Holder'
    <3>1. /\ write'.by = t /\ write'.ckpt = c /\ write'.held = dirty
          /\ n >= Len(pending) => pending' = <<>>
          /\ UNCHANGED <<dirty, pc>>
      BY <2>1, IssueStep
    <3>2. Asks(t) BY <1>5, AskStep
    <3>3. Len(pending) \in Nat BY <1>t
    <3>4. "barrier" \notin WithCheckpoint /\ FlushPoints \cap WithCheckpoint = {}
      BY DEF FlushPoints, WithCheckpoint
    <3> QED BY <2>1, <3>1, <3>2, <3>3, <3>4 DEF Holder, Asks
  <2> QED BY <1>1, <1>5, <2>1, AskStep
<1>6. CASE Cancel
  <2>1. CASE write # NoWrite /\ write.by = Loop BY <1>1, <1>6, <2>1, CancelStep
  <2>2. CASE write # NoWrite /\ write.by # Loop
    <3>1. write' = write /\ pc'[write.by] = pc[write.by]
      BY <1>6, <1>t, <2>2, CancelStep, WriteParts
    <3> QED BY <2>2, <3>1 DEF Holder
  <2>3. CASE write = NoWrite BY <1>1, <1>6, <2>3, CancelStep
  <2> QED BY <2>1, <2>2, <2>3
<1>7. CASE UNCHANGED vars BY <1>7 DEF vars, buffer, Holder
<1> QED
  BY <1>1, <1>2, <1>3, <1>4, <1>5, <1>6, <1>7, TaskFacts, BufferCases DEF WriteSucceeds, WriteFails

LEMMA CursorStep ==
    ASSUME Typing, Holder, CursorNeverAhead, [Next]_vars
    PROVE  CursorNeverAhead'
<1>t. log \in Seq(Positions \cup {0}) /\ Len(log) \in Nat /\ lastSeq \in Nat
  BY TypingParts DEF Plain, Placed
<1>1. CASE WriteSucceeds
  <2>1. Len(log') \in Nat /\ Len(log') >= Len(log) /\ lastSeq' \in {lastSeq, Len(log')}
    BY <1>1, ApplyStep, SucceedStep DEF WriteSucceeds
  <2> QED BY <1>t, <2>1 DEF CursorNeverAhead
<1>2. CASE lastSeq' = lastSeq /\ (log' = log \/ log' = Append(log, 0) \/ (write # NoWrite /\ Apply))
  <2>1. Len(Append(log, 0)) = Len(log) + 1 BY <1>t
  <2>2. Len(log') \in Nat /\ Len(log') >= Len(log) BY <1>2, <1>t, <2>1, ApplyStep
  <2> QED BY <1>2, <1>t, <2>2 DEF CursorNeverAhead
<1>3. CASE Recording BY <1>2, <1>3, RecordingStep DEF store
<1>4. CASE Flush \/ FlushWithCheckpoint \/ \E t \in Tasks : FlushCheckpoint(t)
  <2>1. UNCHANGED <<lastSeq, log>>
    BY <1>4 DEF Flush, FlushWithCheckpoint, FlushCheckpoint, Issue, buffer, store
  <2> QED BY <1>2, <2>1
<1> QED
  BY <1>1, <1>2, <1>3, <1>4, BufferCases
     DEF CallFlush, CleanupDone, SkipFinalFlush, ForeignAppend, BeginSessionWrite, SessionWrite,
         WriteFails, AppliedUnnoticed, Cancel, buffer, store, vars

LEMMA BufferStart == Init => BufferInv
<1> SUFFICES ASSUME Init PROVE BufferInv
  OBVIOUS
<1>1. /\ recorded = <<>> /\ pending = <<>> /\ heldOut = <<>> /\ log = <<>>
      /\ dirty = 0 /\ covers = 0 /\ failed = FALSE /\ lastSeq = 0 /\ write = NoWrite
      /\ pc = [t \in Tasks |-> IF t = Loop THEN "running" ELSE "idle"]
      /\ need = [t \in Tasks |-> 0] /\ ckpt = 0 /\ status = "running"
      /\ session = 0 /\ uncertain = {}
  BY DEF Init
<1>2. pc[Loop] = "running" /\ \A t \in Background : pc[t] = "idle" BY <1>1, TaskFacts
<1>3. Plain
  <2>1. {"running", "idle"} \subseteq Places \cup {"idle"} /\ "running" \in Places
    BY DEF Places
  <2>2. pc \in [Tasks -> Places \cup {"idle"}] BY <1>1, <2>1
  <2>3. recorded \in Seq(Kinds) BY <1>1
  <2> QED BY <1>1, <1>2, <2>1, <2>2, <2>3 DEF Plain
<1>4. Placed(Positions) BY <1>1 DEF Placed
<1>5. Saved BY <1>2 DEF Saved, WithCheckpoint
<1>6. Holder /\ CursorNeverAhead BY <1>1 DEF Holder, CursorNeverAhead
<1> QED BY <1>3, <1>4, <1>5, <1>6, TypingParts DEF BufferInv

LEMMA BufferInvariant == Spec => []BufferInv
<1>1. BufferInv /\ [Next]_vars => BufferInv'
  BY TypingStep, HolderStep, CursorStep DEF BufferInv
<1> QED BY <1>1, BufferStart, PTL DEF Spec

(* The buffer, the store and the tasks keep their types, whatever fails.    *)
THEOREM BufferTypeCorrect == Spec => []TypeOK
<1>1. BufferInv => TypeOK BY DEF BufferInv, Typing
<1> QED BY <1>1, BufferInvariant, PTL

(* The cursor that a checkpoint stores never runs ahead of the log, with    *)
(* lost replies, cancellations and events appended around the buffer        *)
(* (last_seq, assigned from the sequence numbers a write returned).         *)
THEOREM CursorBehindLog == Spec => []CursorNeverAhead
<1>1. BufferInv => CursorNeverAhead BY DEF BufferInv
<1> QED BY <1>1, BufferInvariant, PTL

-----------------------------------------------------------------------------
(* A flush is a barrier, if no write of a background task fails.            *)

LEMMA FailedLateStep ==
    ASSUME BarrierFaults = {}, Typing, Holder, FailedLate, [Next]_vars
    PROVE  FailedLate'
<1>t. pc \in [Tasks -> Places \cup {"idle"}] /\ Loop \in Tasks /\ failed \in BOOLEAN
  BY TypingParts, TaskFacts DEF Plain
<1>1. CASE WriteSucceeds
  <2>1. CASE write.ckpt # 0 BY <1>1, <2>1, SucceedStep DEF FailedLate
  <2>2. CASE write.ckpt = 0 /\ failed
    <3>1. write # NoWrite /\ write.by = Loop /\ pc[Loop] # "barrier"
      BY <1>1, <2>2, SucceedStep DEF Holder
    <3>2. pc[Loop] \in FlushPoints \cup WithCheckpoint /\ Returned(pc[Loop])
      BY <1>1, <3>1, SucceedStep DEF Holder
    <3>3. pc[Loop] \in {"fail", "final"} BY <2>2, <3>2 DEF FailedLate, Late, FlushPoints, WithCheckpoint
    <3>4. pc'[Loop] = "ended" BY <3>2, <3>3, ReturnedStep
    <3> QED BY <3>4 DEF FailedLate, Late
  <2>3. CASE write.ckpt = 0 /\ ~ failed BY <1>1, <2>3, SucceedStep DEF FailedLate
  <2> QED BY <1>t, <2>1, <2>2, <2>3
<1>2. ASSUME NEW fault \in Faults, WriteFails(fault)
      PROVE  FailedLate'
  <2>1. write.by = Loop BY <1>2, FailStep
  <2>2. pc'[Loop] \in {"fail", "final", "ended"} BY <1>2, <1>t, <2>1, FailStep
  <2> QED BY <2>2 DEF FailedLate, Late
<1>3. CASE Cancel
  <2>1. pc'[Loop] = "final" BY <1>3, <1>t, CancelStep
  <2> QED BY <2>1 DEF FailedLate, Late
<1>4. CASE Recording
  <2>1. failed' = failed BY <1>4, RecordingStep
  <2>2. pc[Loop] \notin {"fail"} \cup Late
    BY <1>4 DEF Recording, RecordEvent, DeferCheckpoint, SaveThrough, RecordSuccess, RecordAbort,
                RunFails, CallComplete, Late
  <2> QED BY <2>1, <2>2 DEF FailedLate
<1>5. CASE CallFlush \/ CleanupDone \/ SkipFinalFlush \/ ForeignAppend
  BY <1>5, <1>t
     DEF CallFlush, CleanupDone, SkipFinalFlush, ForeignAppend, Go, FailedLate, Late, buffer
<1>6. ASSUME NEW t \in Tasks, BeginSessionWrite(t) \/ SessionWrite(t)
      PROVE  FailedLate'
  <2>1. failed' = failed /\ (t # Loop => pc'[Loop] = pc[Loop])
    BY <1>6, <1>t DEF BeginSessionWrite, SessionWrite, Go, buffer
  <2>2. t = Loop => pc[Loop] \in {"running", "session"}
    BY <1>6 DEF BeginSessionWrite, SessionWrite
  <2> QED BY <2>1, <2>2 DEF FailedLate, Late
<1>7. ASSUME NEW t \in Tasks,
             (t = Loop /\ (Flush \/ FlushWithCheckpoint)) \/ FlushCheckpoint(t)
      PROVE  FailedLate'
  <2>1. failed' = failed
    BY <1>7 DEF Flush, FlushWithCheckpoint, FlushCheckpoint, Issue, buffer
  <2>2. CASE pc'[Loop] = pc[Loop] BY <2>1, <2>2 DEF FailedLate
  <2>3. CASE pc'[Loop] # pc[Loop]
    <3>1. CASE t = Loop /\ pc[Loop] = "barrier" BY <2>1, <3>1 DEF FailedLate, Late
    <3>2. CASE t = Loop /\ Returned(pc[Loop]) /\ pc[Loop] # "barrier"
      <4>1. pc[Loop] \in FlushPoints \cup WithCheckpoint BY <1>7, <3>2, AskStep DEF Asks
      <4>2. CASE pc[Loop] \in {"fail"} \cup Late
        <5>1. pc'[Loop] = "ended" BY <3>2, <4>1, <4>2, ReturnedStep DEF Late, FlushPoints, WithCheckpoint
        <5> QED BY <5>1 DEF FailedLate, Late
      <4>3. CASE pc[Loop] \notin {"fail"} \cup Late BY <2>1, <4>3 DEF FailedLate
      <4> QED BY <4>2, <4>3
    <3>3. t = Loop /\ (pc[Loop] = "barrier" \/ (Returned(pc[Loop]) /\ pc[Loop] # "barrier"))
      BY <1>7, <1>t, <2>3, AskStep, IssueStep
    <3> QED BY <3>1, <3>2, <3>3
  <2> QED BY <2>2, <2>3
<1>8. CASE UNCHANGED vars BY <1>8 DEF vars, buffer, FailedLate
<1> QED BY <1>1, <1>2, <1>3, <1>4, <1>5, <1>6, <1>7, <1>8, TaskFacts, BufferCases

(* flush() before a provider call and before a tool starts: when it         *)
(* returns nothing recorded before is left in memory, for every failure of  *)
(* the run loop's own writes and every cancellation (RunEventBuffer.flush). *)
THEOREM FlushIsBarrier ==
    ASSUME BarrierFaults = {}
    PROVE  Spec => BarrierCommits
<1>1. ASSUME BufferInv, FailedLate, [Next]_vars, pc[Loop] = "flush", pc'[Loop] = "running"
      PROVE  pending' = <<>> /\ dirty' = 0
  <2>0. Typing /\ Holder BY <1>1 DEF BufferInv
  <2>t. pc \in [Tasks -> Places \cup {"idle"}] /\ Loop \in Tasks
    BY <2>0, TypingParts, TaskFacts DEF Plain
  <2>f. ~ failed BY <1>1 DEF FailedLate, Late
  <2>1. CASE WriteSucceeds
    <3>1. write # NoWrite /\ write.by = Loop
      <4>1. CASE write.by # Loop
        <5>1. pc' = [pc EXCEPT ![write.by] = "session"] BY <2>0, <2>1, <4>1, SucceedStep
        <5> QED BY <1>1, <2>t, <4>1, <5>1
      <4> QED BY <2>1, <4>1 DEF WriteSucceeds
    <3>2. Returned(pc[Loop]) /\ pc[Loop] \in FlushPoints
      BY <1>1, <2>0, <2>1, <3>1, SucceedStep DEF FlushPoints
    <3>3. pending' = pending /\ pending = <<>> /\ write.ckpt = write.held /\ dirty = write.held
      BY <1>1, <2>0, <3>1, <3>2, ReturnedStep DEF Holder
    <3>4. dirty' = 0 BY <2>0, <2>1, <3>3, SucceedStep
    <3> QED BY <3>3, <3>4
  <2>2. CASE \E t \in Tasks : (t = Loop /\ (Flush \/ FlushWithCheckpoint)) \/ FlushCheckpoint(t)
    <3>1. PICK t \in Tasks : (t = Loop /\ (Flush \/ FlushWithCheckpoint)) \/ FlushCheckpoint(t)
      BY <2>2
    <3>2. CASE pc' = pc BY <1>1, <3>2
    <3>3. CASE t = Loop /\ Returned(pc[Loop]) /\ (failed \/ (dirty = 0 /\ pending = <<>>))
               /\ UNCHANGED dirty
      <4>1. pending' = pending BY <1>1, <2>0, <3>3, ReturnedStep DEF FlushPoints
      <4> QED BY <2>f, <3>3, <4>1
    <3>4. CASE pc[t] = "barrier" /\ pc' = [pc EXCEPT ![t] = "session"]
      BY <1>1, <2>t, <3>4
    <3> QED BY <2>0, <3>1, <3>2, <3>3, <3>4, AskStep, IssueStep
  <2>3. ~ Recording
    BY <1>1 DEF Recording, RecordEvent, DeferCheckpoint, SaveThrough, RecordSuccess, RecordAbort,
                RunFails, CallComplete
  <2>4. ~ \E fault \in Faults : WriteFails(fault)
    <3>1. ASSUME NEW fault \in Faults, WriteFails(fault)
          PROVE  FALSE
      <4>1. write.by = Loop BY <2>0, <3>1, FailStep
      <4>2. pc'[Loop] \in {"fail", "final", "ended"} BY <2>0, <2>t, <3>1, <4>1, FailStep
      <4> QED BY <1>1, <4>2
    <3> QED BY <3>1
  <2>5. ~ Cancel BY <1>1, <2>0, <2>t, CancelStep
  <2>6. ~ (CallFlush \/ CleanupDone \/ SkipFinalFlush \/ ForeignAppend \/ UNCHANGED vars)
    BY <1>1 DEF CallFlush, CleanupDone, SkipFinalFlush, ForeignAppend, vars
  <2>7. ~ \E t \in Tasks : BeginSessionWrite(t) \/ SessionWrite(t)
    BY <1>1, <2>t DEF BeginSessionWrite, SessionWrite, Go
  <2> QED BY <1>1, <2>1, <2>2, <2>3, <2>4, <2>5, <2>6, <2>7, TaskFacts, BufferCases
<1>2. Init => FailedLate BY DEF Init, FailedLate
<1>3. BufferInv /\ FailedLate /\ [Next]_vars => FailedLate'
  BY FailedLateStep DEF BufferInv
<1>4. BufferInv /\ FailedLate /\ [Next]_vars =>
         [pc[Loop] = "flush" /\ pc'[Loop] = "running" => pending' = <<>> /\ dirty' = 0]_vars
  BY <1>1
<1> QED BY <1>2, <1>3, <1>4, BufferInvariant, PTL DEF Spec, BarrierCommits

-----------------------------------------------------------------------------
(* A result is durable with its terminal status, if the run is not          *)
(* cancelled.                                                               *)

LEMMA FreeJoin ==
    ASSUME NEW s \in Seq(Positions), NEW u \in Seq(Positions), Free(s), Free(u)
    PROVE  Free(s \o u)
<1>1. /\ s \o u \in Seq(Positions) /\ Len(s \o u) = Len(s) + Len(u)
      /\ \A i \in 1..Len(s) : (s \o u)[i] = s[i]
      /\ \A i \in 1..Len(u) : (s \o u)[Len(s) + i] = u[i]
  BY SeqJoin
<1> SUFFICES ASSUME NEW i \in DOMAIN (s \o u)
             PROVE  recorded[(s \o u)[i]] # "result"
  BY DEF Free
<1>2. Len(s) \in Nat /\ Len(u) \in Nat /\ i \in 1..(Len(s) + Len(u)) BY <1>1
<1>3. CASE i \in 1..Len(s) BY <1>1, <1>3 DEF Free
<1>4. CASE i \notin 1..Len(s)
  <2>1. i - Len(s) \in 1..Len(u) /\ Len(s) + (i - Len(s)) = i BY <1>2, <1>4
  <2>2. (s \o u)[i] = u[i - Len(s)] BY <1>1, <2>1
  <2> QED BY <2>1, <2>2 DEF Free
<1> QED BY <1>3, <1>4

(* What is free of results stays so while the program order grows.          *)
LEMMA FreeStays ==
    ASSUME Typing, NEW kinds \in Seq(Kinds), recorded' = recorded \o kinds
    PROVE  /\ \A i \in Positions : recorded'[i] = recorded[i]
           /\ \A s \in Seq(Positions) : Free(s) => Free(s)'
<1>1. \A i \in Positions : recorded'[i] = recorded[i]
  BY Grown, TypingParts DEF Plain
<1>2. ASSUME NEW s \in Seq(Positions), Free(s), NEW i \in DOMAIN s
      PROVE  recorded'[s[i]] # "result"
  <2>1. s[i] \in Positions BY <1>2
  <2> QED BY <1>1, <1>2, <2>1 DEF Free
<1> QED BY <1>1, <1>2 DEF Free

(* While a write is in flight the run is not over; without one nothing is   *)
(* written with a terminal status.                                          *)
LEMMA InFlight ==
    ASSUME Typing, Holder, ResultInv, write # NoWrite
    PROVE  /\ pc[Loop] \notin Late /\ status = "running"
           /\ write.status = "running" => Free(write.events)
           /\ write.status # "running" => write.by = Loop /\ pc[Loop] \in Terminal /\ write.ckpt # 0
           /\ write.ckpt = 0 => dirty = 0 /\ write.by = Loop /\ pc[Loop] \in FlushPoints
           /\ write.by # Loop => ~ failed /\ write.status = "running" /\ write.ckpt # 0
           /\ write.by = Loop => dirty = write.held
<1>1. pc[Loop] \notin Late BY DEF ResultInv, LateQuiet
<1>2. status = "running" BY <1>1 DEF ResultInv, TerminalLate
<1>3. Terminal \subseteq WithCheckpoint BY DEF Terminal, WithCheckpoint
<1>4. write.ckpt = 0 => dirty = 0 /\ write.by = Loop /\ pc[Loop] \in FlushPoints
  BY DEF Holder
<1> QED BY <1>1, <1>2, <1>3, <1>4 DEF ResultInv, RunningFree, Holder

(* The events of a write that lands.                                        *)
LEMMA LandedFree ==
    ASSUME Typing, Holder, ResultInv, write # NoWrite, Applied, recorded' = recorded
    PROVE  LogFree' /\ (status' = "running" \/ status' = write.status)
<1>1. log \in Seq(Positions \cup {0}) /\ write.events \in Seq(Positions)
  BY TypingParts, WriteParts DEF Placed
<1>2. write.events \in Seq(Positions \cup {0})
  <2>1. Positions \subseteq Positions \cup {0} OBVIOUS
  <2> QED BY <1>1, <2>1, SeqMore
<1>3. /\ Len(log') = Len(log) + Len(write.events) /\ log' \in Seq(Positions \cup {0})
      /\ \A i \in 1..Len(log) : log'[i] = log[i]
      /\ \A i \in 1..Len(write.events) : log'[Len(log) + i] = write.events[i]
  BY <1>1, <1>2, SeqJoin DEF Applied
<1>4. ASSUME status' = "running", NEW j \in DOMAIN log', log'[j] # 0
      PROVE  recorded[log'[j]] # "result"
  <2>1. write.status = "running"
    BY <1>4, InFlight DEF Applied
  <2>2. Free(write.events) /\ \A i \in DOMAIN log : log[i] # 0 => recorded[log[i]] # "result"
    BY <2>1, InFlight DEF ResultInv, LogFree
  <2>3. Len(log) \in Nat /\ Len(write.events) \in Nat /\ j \in 1..(Len(log) + Len(write.events))
    BY <1>1, <1>3
  <2>4. CASE j \in 1..Len(log) BY <1>1, <1>3, <1>4, <2>2, <2>4
  <2>5. CASE j \notin 1..Len(log)
    <3>1. j - Len(log) \in 1..Len(write.events) /\ Len(log) + (j - Len(log)) = j BY <2>3, <2>5
    <3>2. log'[j] = write.events[j - Len(log)] BY <1>3, <3>1
    <3>3. j - Len(log) \in DOMAIN write.events BY <1>1, <3>1
    <3> QED BY <2>2, <3>2, <3>3 DEF Free
  <2> QED BY <2>4, <2>5
<1> QED BY <1>4, InFlight DEF LogFree, Applied

LEMMA ResultRecording ==
    ASSUME Typing, Holder, ResultInv, Recording
    PROVE  ResultInv'
<1>0. Plain /\ Placed(Positions) BY TypingParts
<1>t. /\ pending \in Seq(Positions) /\ heldOut \in Seq(Positions) /\ log \in Seq(Positions \cup {0})
      /\ recorded \in Seq(Kinds) /\ Len(recorded) \in Nat /\ Len(pending) \in Nat
      /\ pc \in [Tasks -> Places \cup {"idle"}] /\ Loop \in Tasks
  BY <1>0, TaskFacts DEF Plain, Placed
<1>1. PICK kinds \in Seq(Kinds) : recorded' = recorded \o kinds BY RecordingStep
<1>2. /\ \A i \in Positions : recorded'[i] = recorded[i]
      /\ \A s \in Seq(Positions) : Free(s) => Free(s)'
  BY <1>1, FreeStays
<1>3. UNCHANGED <<failed, write, store>> BY RecordingStep
<1>4. /\ pc[Loop] \in {"running", "cleanup", "completing"}
      /\ pc'[Loop] \in {"running", "cleanup", "save", "abort", "fail", "complete"}
  BY <1>t DEF Recording, RecordEvent, DeferCheckpoint, SaveThrough, RecordSuccess, RecordAbort,
         RunFails, CallComplete, Raise, RecordTerminal, Go
<1>5. pc[Loop] \notin Late \cup Terminal /\ pc'[Loop] \notin Late
  BY <1>4 DEF Late, Terminal
<1>6. status = "running" BY <1>5 DEF ResultInv, TerminalLate
<1>7. LateQuiet' /\ TerminalLate' BY <1>3, <1>5, <1>6 DEF LateQuiet, TerminalLate, store
<1>8. LogFree'
  <2>1. \A j \in DOMAIN log : log[j] \in Positions \cup {0} BY <1>t
  <2> QED BY <1>2, <1>3, <1>6, <2>1 DEF ResultInv, LogFree, store
<1>9. RunningFree'
  <2>1. write # NoWrite => write.status = "running" BY <1>5, InFlight
  <2>2. write # NoWrite => Free(write.events) /\ write.events \in Seq(Positions)
    BY <2>1, InFlight, WriteParts
  <2>3. write # NoWrite => \A i \in DOMAIN write.events : recorded'[write.events[i]] # "result"
    BY <1>2, <2>2 DEF Free
  <2> QED BY <1>3, <2>1, <2>3 DEF ResultInv, RunningFree, Free
<1>10. \/ RecordEvent
       \/ pc'[Loop] \in Early /\ pc[Loop] = "running" /\ pending' = pending
       \/ pc'[Loop] \notin Early
  BY <1>t DEF Recording, RecordEvent, DeferCheckpoint, SaveThrough, RecordSuccess, RecordAbort,
         RunFails, CallComplete, Raise, RecordTerminal, Go, Early, buffer
<1>11. EarlyFree'
  <2>1. CASE RecordEvent
    <3>1. /\ pending' = Append(pending, Next1) /\ recorded' = Append(recorded, "event")
          /\ pc[Loop] = "running"
      BY <2>1 DEF RecordEvent
    <3>2. Free(pending) BY <3>1 DEF ResultInv, EarlyFree, Early
    <3>3. \A i \in DOMAIN pending : recorded'[pending[i]] # "result" BY <1>2, <1>t, <3>2 DEF Free
    <3>4. recorded'[Next1] = "event" BY <1>t, <3>1 DEF Next1
    <3>5. \A i \in DOMAIN pending' : pending'[i] = Next1 \/ \E j \in DOMAIN pending : pending'[i] = pending[j]
      <4> SUFFICES ASSUME NEW i \in DOMAIN pending', i \notin DOMAIN pending
                   PROVE  pending'[i] = Next1
        BY <1>t, <3>1
      <4> QED BY <1>t, <3>1
    <3> QED BY <3>3, <3>4, <3>5 DEF EarlyFree, Free
  <2>2. CASE pc'[Loop] \in Early /\ pc[Loop] = "running" /\ pending' = pending
    <3>1. Free(pending) BY <2>2 DEF ResultInv, EarlyFree, Early
    <3>2. \A i \in DOMAIN pending : recorded'[pending[i]] # "result" BY <1>2, <1>t, <3>1 DEF Free
    <3> QED BY <2>2, <3>2 DEF EarlyFree, Free
  <2>3. CASE pc'[Loop] \notin Early BY <2>3 DEF EarlyFree
  <2> QED BY <1>10, <2>1, <2>2, <2>3
<1>12. CoveredFree'
  <2>1. CASE DeferCheckpoint
    <3>1. covers' = Len(pending) /\ pending' = pending /\ pc[Loop] = "running"
      BY <2>1 DEF DeferCheckpoint
    <3>2. Free(pending) BY <3>1 DEF ResultInv, EarlyFree, Early
    <3>3. \A i \in DOMAIN pending : recorded'[pending[i]] # "result" BY <1>2, <1>t, <3>2 DEF Free
    <3>4. DOMAIN pending = 1..Len(pending) BY <1>t
    <3>5. covers' <= Len(pending') BY <1>t, <3>1
    <3>6. \A i \in 1..covers' : recorded'[pending'[i]] # "result" BY <3>1, <3>3, <3>4
    <3>7. FreeUpTo(covers, pending)' BY <3>5, <3>6 DEF FreeUpTo
    <3> QED BY <3>7 DEF CoveredFree
  <2>2. CASE ~ DeferCheckpoint
    <3>1. UNCHANGED <<dirty, covers>>
      BY <2>2 DEF Recording, RecordEvent, SaveThrough, RecordSuccess, RecordAbort, RunFails,
                  CallComplete, buffer
    <3>2. Len(pending') >= Len(pending) /\ \A i \in 1..Len(pending) : pending'[i] = pending[i]
      <4>1. CASE pending' = Append(pending, Next1) BY <1>t, <4>1
      <4>2. CASE pending' = pending BY <1>t, <4>2
      <4>3. CASE pending' = pending \o heldOut \o <<Next1>> BY <1>t, <4>3
      <4> QED
        BY <2>2, <4>1, <4>2, <4>3
           DEF Recording, RecordEvent, SaveThrough, RecordSuccess, RecordAbort, RunFails, Raise,
               CallComplete, buffer
    <3>3. ASSUME FreeUpTo(covers, pending)
          PROVE  FreeUpTo(covers, pending)'
      <4>1. Len(pending') \in Nat /\ covers \in Nat
        <5>1. pending' \in Seq(Positions') BY RecordingStep
        <5> QED BY <1>0, <5>1 DEF Plain
      <4>2. \A i \in 1..covers : /\ i \in 1..Len(pending) /\ pending[i] \in Positions
                                 /\ recorded[pending[i]] # "result"
        BY <1>t, <3>3, <4>1 DEF FreeUpTo
      <4>3. covers' = covers BY <3>1
      <4>4. Len(pending) \in Nat BY <1>t
      <4>5. covers <= Len(pending') BY <3>2, <3>3, <4>1, <4>4 DEF FreeUpTo
      <4>6. ASSUME NEW i \in 1..covers
            PROVE  recorded'[pending'[i]] # "result"
        <5>1. pending[i] \in Positions /\ recorded[pending[i]] # "result" BY <4>2
        <5>2. pending'[i] = pending[i] BY <3>2, <4>2
        <5>3. recorded'[pending[i]] = recorded[pending[i]] BY <1>2, <5>1
        <5> QED BY <5>1, <5>2, <5>3
      <4>7. \A i \in 1..covers' : recorded'[pending'[i]] # "result" BY <4>3, <4>6
      <4> QED BY <4>3, <4>5, <4>7 DEF FreeUpTo
    <3> QED BY <1>3, <3>1, <3>3 DEF ResultInv, CoveredFree
  <2> QED BY <2>1, <2>2
<1> QED BY <1>7, <1>8, <1>9, <1>11, <1>12 DEF ResultInv

LEMMA ResultAsk ==
    ASSUME Typing, Holder, ResultInv, NEW t \in Tasks,
           (t = Loop /\ (Flush \/ FlushWithCheckpoint)) \/ FlushCheckpoint(t)
    PROVE  ResultInv'
<1>t. /\ pending \in Seq(Positions) /\ heldOut \in Seq(Positions) /\ Len(pending) \in Nat
      /\ covers \in Nat
      /\ pc \in [Tasks -> Places \cup {"idle"}] /\ Loop \in Tasks
  BY TypingParts, TaskFacts DEF Plain, Placed
<1>0. write = NoWrite /\ Asks(t) BY AskStep
<1>1. ASSUME NEW n \in Nat, NEW c \in Positions \cup {0},
             NEW s \in TerminalStatus \cup {"running"}, Issue(t, n, c, s),
             FlushCheckpoint(t) => n = covers /\ ~ failed,
             IF pc[t] \in WithCheckpoint THEN c = LastCheckpoint /\ c # 0 ELSE c = dirty,
             pc[t] \in FlushPoints => ~ failed /\ (dirty # 0 \/ pending # <<>>),
             pc[t] = "barrier" => c # 0,
             IF pc[t] \in Terminal THEN s # "running" ELSE s = "running"
      PROVE  ResultInv'
  <2>1. /\ write' # NoWrite /\ write'.by = t /\ write'.status = s /\ write'.held = dirty
        /\ write'.events \in Seq(Positions) /\ pending' \in Seq(Positions)
        /\ n >= Len(pending) => write'.events = pending
        /\ n < Len(pending) => Len(write'.events) = n
        /\ \A i \in DOMAIN write'.events : i \in DOMAIN pending /\ write'.events[i] = pending[i]
        /\ \A i \in DOMAIN pending' : \E j \in DOMAIN pending : pending'[i] = pending[j]
        /\ UNCHANGED <<recorded, dirty, covers, failed, lastSeq, heldOut, pc, need, store, hist>>
    BY <1>1, IssueStep
  <2>k. /\ "barrier" \notin WithCheckpoint \cup Terminal \cup FlushPoints
        /\ Terminal \subseteq WithCheckpoint
    BY DEF WithCheckpoint, FlushPoints, Terminal
  <2>2. pc[Loop] \notin Late
    <3> SUFFICES ASSUME pc[Loop] \in Late
                 PROVE  FALSE
      OBVIOUS
    <3>1. failed \/ dirty = 0 BY DEF ResultInv, LateQuiet
    <3>2. CASE pc[t] = "barrier"
      <4>1. FlushCheckpoint(t) BY <3>2 DEF Flush, FlushWithCheckpoint, FlushPoints
      <4> QED BY <1>1, <2>k, <3>1, <3>2, <4>1
    <3>3. CASE pc[t] # "barrier"
      <4>1. t = Loop /\ pc[Loop] = "final"
        BY <1>0, <3>3 DEF Asks, Late, FlushPoints, WithCheckpoint
      <4>2. failed \/ pending = <<>> BY <4>1 DEF ResultInv, LateQuiet
      <4> QED BY <1>1, <3>1, <4>1, <4>2 DEF FlushPoints
    <3> QED BY <3>2, <3>3
  <2>3. s = "running" => Free(write'.events)
    <3> SUFFICES ASSUME s = "running"
                 PROVE  Free(write'.events)
      OBVIOUS
    <3>1. CASE Free(pending) BY <2>1, <3>1 DEF Free
    <3>2. CASE ~ Free(pending)
      <4>1. pc[Loop] \notin Early BY <3>2 DEF ResultInv, EarlyFree
      <4>2. pc[t] = "barrier"
        <5>1. pc[t] \notin Terminal BY <1>1
        <5>2. FlushPoints \cup WithCheckpoint \subseteq Early \cup Terminal \cup {"final"}
          BY DEF FlushPoints, WithCheckpoint, Early, Terminal
        <5>3. "final" \in Late BY DEF Late
        <5> QED BY <1>0, <2>2, <4>1, <5>1, <5>2, <5>3 DEF Asks
      <4>3. FlushCheckpoint(t) BY <4>2 DEF Flush, FlushWithCheckpoint, FlushPoints
      <4>4. n = covers /\ ~ failed /\ dirty # 0 BY <1>1, <2>k, <4>2, <4>3
      <4>5. FreeUpTo(covers, pending) BY <1>0, <4>4 DEF ResultInv, CoveredFree
      <4>6. \A i \in DOMAIN write'.events : i \in 1..covers
        <5>1. Len(write'.events) = n
          BY <1>t, <2>1, <4>4, <4>5 DEF FreeUpTo
        <5> QED BY <2>1, <4>4, <5>1
      <4> QED BY <2>1, <4>5, <4>6 DEF Free, FreeUpTo
    <3> QED BY <3>1, <3>2
  <2>4. RunningFree'
    <3>1. Free(write'.events) => Free(write.events)' BY <2>1 DEF Free
    <3>2. s # "running" => t = Loop /\ pc[Loop] \in Terminal
      BY <1>0, <1>1, <2>k DEF Asks
    <3>3. t # Loop => ~ failed
      <4>1. t # Loop => FlushCheckpoint(t) OBVIOUS
      <4> QED BY <1>1, <4>1
    <3> QED BY <2>1, <2>3, <3>1, <3>2, <3>3 DEF RunningFree
  <2>5. EarlyFree'
    <3>1. ASSUME Free(pending), NEW i \in DOMAIN pending'
          PROVE  recorded'[pending'[i]] # "result"
      BY <2>1, <3>1 DEF Free
    <3> QED BY <2>1, <3>1 DEF ResultInv, EarlyFree, Free
  <2>6. CoveredFree' BY <2>1 DEF CoveredFree
  <2>7. LateQuiet' /\ TerminalLate' /\ LogFree'
    BY <2>1, <2>2 DEF ResultInv, LateQuiet, TerminalLate, LogFree, store
  <2> QED BY <2>4, <2>5, <2>6, <2>7 DEF ResultInv
<1>2. CASE /\ pc[t] \notin Terminal /\ pc[t] # "barrier"
           /\ t = Loop /\ Returned(pc[Loop])
           /\ failed \/ (dirty = 0 /\ pending = <<>>)
           /\ UNCHANGED <<dirty, covers, failed, lastSeq, write, need, store, hist>>
  <2>1. pc[Loop] \in FlushPoints \cup WithCheckpoint BY <1>0, <1>2 DEF Asks
  <2>2. /\ recorded' = recorded
        /\ pc[Loop] \in {"flush", "save"} => pc'[Loop] = "running"
        /\ pc[Loop] = "flushBeforeResult" =>
              pc'[Loop] = "completing" /\ pending' = pending \o heldOut
        /\ pc[Loop] = "final" => pc'[Loop] = "ended"
        /\ pc[Loop] # "flushBeforeResult" => pending' = pending
    BY <1>2, <2>1, ReturnedStep
  <2>3. pc[Loop] \in {"flush", "save", "flushBeforeResult", "final"}
    BY <1>2, <2>1 DEF FlushPoints, WithCheckpoint, Terminal
  <2>4. CASE pc[Loop] \in {"flush", "save"}
    <3>1. pc[Loop] \in Early \ Late /\ pc'[Loop] \in Early \ Late BY <2>2, <2>4 DEF Early, Late
    <3>2. pending' = pending BY <2>2, <2>4
    <3> QED BY <1>0, <1>2, <2>2, <3>1, <3>2
         DEF ResultInv, EarlyFree, CoveredFree, RunningFree, LateQuiet, TerminalLate, LogFree, Free,
             FreeUpTo, store
  <2>5. CASE pc[Loop] = "flushBeforeResult"
    <3>1. pc[Loop] \notin Late /\ pc'[Loop] \notin Early \cup Late BY <2>2, <2>5 DEF Early, Late
    <3>2. ASSUME FreeUpTo(covers, pending)
          PROVE  FreeUpTo(covers, pending)'
      <4>1. /\ Len(pending') = Len(pending) + Len(heldOut) /\ Len(heldOut) \in Nat
            /\ \A i \in 1..Len(pending) : pending'[i] = pending[i]
        BY <1>t, <2>2, <2>5, SeqJoin
      <4> QED BY <1>2, <1>t, <2>2, <3>2, <4>1 DEF FreeUpTo
    <3> QED BY <1>0, <1>2, <2>2, <3>1, <3>2
         DEF ResultInv, EarlyFree, CoveredFree, RunningFree, LateQuiet, TerminalLate, LogFree, store
  <2>6. CASE pc[Loop] = "final"
    <3>1. pc[Loop] \in Late /\ pc'[Loop] \in Late \ Early /\ pc'[Loop] # "final"
      BY <2>2, <2>6 DEF Early, Late
    <3>2. pending' = pending BY <2>2, <2>6
    <3> QED BY <1>0, <1>2, <2>2, <3>1, <3>2
         DEF ResultInv, EarlyFree, CoveredFree, RunningFree, LateQuiet, TerminalLate, LogFree,
             FreeUpTo, store
  <2> QED BY <2>3, <2>4, <2>5, <2>6
<1>3. CASE /\ pc[t] = "barrier" /\ pc' = [pc EXCEPT ![t] = "session"]
           /\ UNCHANGED <<recorded, buffer, heldOut, write, need, store, hist>>
  <2>1. pc'[Loop] = pc[Loop] \/ (pc[Loop] = "barrier" /\ pc'[Loop] = "session") BY <1>3, <1>t
  <2>2. /\ pc'[Loop] \in Early <=> pc[Loop] \in Early
        /\ pc'[Loop] \in Late <=> pc[Loop] \in Late
        /\ pc'[Loop] = "final" <=> pc[Loop] = "final"
    BY <2>1 DEF Early, Late
  <2> QED BY <1>0, <1>3, <2>2
       DEF ResultInv, EarlyFree, CoveredFree, RunningFree, LateQuiet, TerminalLate, LogFree, Free,
           FreeUpTo, store, buffer
<1> QED BY <1>1, <1>2, <1>3, AskStep

LEMMA ResultMoves ==
    ASSUME Typing, Holder, ResultInv,
           \/ CallFlush \/ CleanupDone \/ SkipFinalFlush \/ ForeignAppend \/ UNCHANGED vars
           \/ \E t \in Tasks : BeginSessionWrite(t) \/ SessionWrite(t)
    PROVE  ResultInv'
<1>t. /\ pc \in [Tasks -> Places \cup {"idle"}] /\ Loop \in Tasks
      /\ log \in Seq(Positions \cup {0})
  BY TypingParts, TaskFacts DEF Plain, Placed
<1>1. /\ UNCHANGED <<recorded, buffer, write, status>>
      /\ log' = log \/ log' = Append(log, 0)
  BY DEF CallFlush, CleanupDone, SkipFinalFlush, ForeignAppend, BeginSessionWrite, SessionWrite,
         vars, store
<1>2. \/ pc'[Loop] = pc[Loop]
      \/ pc[Loop] \in Early \ Late /\ pc'[Loop] \in Early \ Late
      \/ pc[Loop] = "final" /\ pc'[Loop] = "ended"
  <2>1. CASE CallFlush \/ CleanupDone \/ SkipFinalFlush \/ ForeignAppend \/ UNCHANGED vars
    BY <1>t, <2>1 DEF CallFlush, CleanupDone, SkipFinalFlush, ForeignAppend, vars, Go, Early, Late
  <2>2. ASSUME NEW t \in Tasks, BeginSessionWrite(t) \/ SessionWrite(t)
        PROVE  pc'[Loop] = pc[Loop] \/ (pc[Loop] \in Early \ Late /\ pc'[Loop] \in Early \ Late)
    BY <1>t, <2>2 DEF BeginSessionWrite, SessionWrite, Go, Early, Late
  <2> QED BY <2>1, <2>2
<1>3. LogFree'
  <2>1. \A j \in DOMAIN log' : log'[j] = 0 \/ (j \in DOMAIN log /\ log'[j] = log[j])
    BY <1>t, <1>1
  <2> QED BY <1>1, <2>1 DEF ResultInv, LogFree
<1>4. EarlyFree'
  <2>1. pc'[Loop] \in Early => pc[Loop] \in Early BY <1>2 DEF Early
  <2> QED BY <1>1, <2>1 DEF ResultInv, EarlyFree, Free, buffer
<1>5. CoveredFree' BY <1>1 DEF ResultInv, CoveredFree, FreeUpTo, buffer
<1>6. LateQuiet'
  <2>1. pc'[Loop] \in Late => pc[Loop] \in Late BY <1>2 DEF Late
  <2>2. pc'[Loop] = "final" => pc[Loop] = "final" BY <1>2 DEF Late
  <2> QED BY <1>1, <2>1, <2>2 DEF ResultInv, LateQuiet, buffer
<1>7. TerminalLate'
  <2>1. pc[Loop] \in Late => pc'[Loop] \in Late BY <1>2 DEF Late
  <2> QED BY <1>1, <2>1 DEF ResultInv, TerminalLate
<1>8. RunningFree'
  <2>1. write # NoWrite => pc'[Loop] = pc[Loop] \/ pc[Loop] \notin Terminal
    BY <1>2 DEF Early, Terminal
  <2> QED BY <1>1, <2>1 DEF ResultInv, RunningFree, Free, buffer
<1> QED BY <1>3, <1>4, <1>5, <1>6, <1>7, <1>8 DEF ResultInv

LEMMA ResultSucceeds ==
    ASSUME Typing, Holder, ResultInv, WriteSucceeds
    PROVE  ResultInv'
<1>t. /\ pc \in [Tasks -> Places \cup {"idle"}] /\ Loop \in Tasks
      /\ dirty \in Nat /\ write # NoWrite /\ write' = NoWrite /\ write.by \in Tasks /\ Applied
      /\ covers' = covers
  BY TypingParts, TaskFacts, SucceedStep, WriteParts DEF Plain, Placed, Positions
<1>1. /\ pc[Loop] \notin Late /\ status = "running"
      /\ write.status # "running" => write.by = Loop /\ pc[Loop] \in Terminal
      /\ write.ckpt = 0 => dirty = 0 /\ write.by = Loop /\ pc[Loop] \in FlushPoints
      /\ write.by # Loop => ~ failed
      /\ write.by = Loop => dirty = write.held
  BY <1>t, InFlight
<1>2. RunningFree' BY <1>t DEF RunningFree
<1>3. CASE write.by = Loop /\ pc[Loop] # "barrier"
  <2>1. /\ pc[Loop] \in FlushPoints \cup WithCheckpoint /\ pending = <<>>
        /\ Returned(pc[Loop])
    BY <1>t, <1>3, SucceedStep DEF Holder
  <2>2. /\ recorded' = recorded
        /\ pc'[Loop] \in {"running", "completing", "final", "ended"}
        /\ pc[Loop] \in {"flush", "save"} => pc'[Loop] = "running"
        /\ pc[Loop] = "flushBeforeResult" => pc'[Loop] = "completing"
        /\ pc[Loop] = "complete" => pc'[Loop] = "final"
        /\ pc[Loop] \in {"abort", "fail", "final"} => pc'[Loop] = "ended"
        /\ pc[Loop] # "flushBeforeResult" => pending' = <<>>
    BY <2>1, ReturnedStep
  <2>3. dirty' = 0 BY <1>1, <1>3, SucceedStep
  <2>4. EarlyFree'
    <3>1. pc'[Loop] \in Early => pending' = <<>>
      BY <2>1, <2>2 DEF Early
    <3> QED BY <3>1 DEF EarlyFree, Free
  <2>5. CoveredFree' BY <2>3 DEF CoveredFree
  <2>6. LateQuiet'
    <3>1. pc'[Loop] = "final" => pending' = <<>> BY <2>2
    <3> QED BY <1>t, <2>3, <3>1 DEF LateQuiet
  <2>7. LogFree' /\ (status' = "running" \/ status' = write.status)
    BY <1>t, <2>2, LandedFree
  <2>8. TerminalLate'
    <3>1. status' # "running" => pc[Loop] \in Terminal BY <1>1, <2>7
    <3> QED BY <2>2, <3>1 DEF TerminalLate, Terminal, Late
  <2> QED BY <1>2, <2>4, <2>5, <2>6, <2>7, <2>8 DEF ResultInv
<1>4. CASE ~ (write.by = Loop /\ pc[Loop] # "barrier")
  <2>1. /\ pc' = [pc EXCEPT ![write.by] = "session"] /\ pc[write.by] = "barrier"
        /\ UNCHANGED <<recorded, pending, heldOut>>
    BY <1>4, SucceedStep
  <2>2. "barrier" \notin FlushPoints \cup Terminal /\ {"barrier", "session"} \subseteq Early \ Late
    BY DEF FlushPoints, Terminal, Early, Late
  <2>3. write.ckpt # 0 /\ write.status = "running" BY <1>1, <2>1, <2>2
  <2>4. \/ pc'[Loop] = pc[Loop]
        \/ pc[Loop] = "barrier" /\ pc'[Loop] = "session"
    BY <1>t, <2>1
  <2>5. EarlyFree'
    <3>1. pc'[Loop] \in Early => pc[Loop] \in Early BY <2>2, <2>4
    <3> QED BY <2>1, <3>1 DEF ResultInv, EarlyFree, Free
  <2>6. CoveredFree'
    <3>1. dirty' = IF dirty = write.held THEN 0 ELSE dirty BY <2>3, SucceedStep
    <3>2. dirty' # 0 => write.by # Loop /\ dirty' = dirty /\ dirty # 0 /\ dirty # write.held
      BY <1>1, <3>1
    <3>3. dirty' # 0 => FreeUpTo(covers, pending)
      BY <1>1, <3>2 DEF ResultInv, CoveredFree
    <3> QED BY <1>t, <2>1, <3>3 DEF CoveredFree, FreeUpTo
  <2>7. LateQuiet' BY <1>1, <2>2, <2>4 DEF LateQuiet
  <2>8. LogFree' /\ status' = "running"
    BY <1>t, <2>1, <2>3, LandedFree
  <2>9. TerminalLate' BY <2>8 DEF TerminalLate
  <2> QED BY <1>2, <2>5, <2>6, <2>7, <2>8, <2>9 DEF ResultInv
<1> QED BY <1>3, <1>4

LEMMA ResultFails ==
    ASSUME Typing, Holder, ResultInv, NEW fault \in Faults, WriteFails(fault)
    PROVE  ResultInv'
<1>t. /\ pc \in [Tasks -> Places \cup {"idle"}] /\ Loop \in Tasks
      /\ log \in Seq(Positions \cup {0}) /\ recorded \in Seq(Kinds)
      /\ pending \in Seq(Positions) /\ failed \in BOOLEAN
      /\ write # NoWrite /\ write' = NoWrite /\ write.by \in Tasks
      /\ write.events \in Seq(Positions)
      /\ failed' = (failed \/ write.ckpt # 0) /\ UNCHANGED <<dirty, covers>>
  BY TypingParts, TaskFacts, FailStep, WriteParts DEF Plain, Placed
<1>1. /\ pc[Loop] \notin Late /\ status = "running"
      /\ write.status = "running" => Free(write.events)
      /\ write.status # "running" => write.by = Loop /\ pc[Loop] \in Terminal
      /\ write.ckpt = 0 => dirty = 0 /\ write.by = Loop /\ pc[Loop] \in FlushPoints
      /\ write.by # Loop => write.status = "running" /\ write.ckpt # 0
  BY <1>t, InFlight
<1>2. RunningFree' BY <1>t DEF RunningFree
<1>3. failed' \/ dirty' = 0 BY <1>t, <1>1
<1>4. CoveredFree' BY <1>3 DEF CoveredFree
<1>5. recorded' = recorded => LogFree' /\ (status' = "running" \/ status' = write.status)
  <2>1. CASE Applied BY <1>t, <2>1, LandedFree
  <2>2. CASE UNCHANGED store BY <1>1, <2>2 DEF ResultInv, LogFree, store
  <2> QED BY <2>1, <2>2, FailStep
<1>6. CASE write.by # Loop
  <2>1. /\ pending' = write.events \o pending /\ recorded' = recorded
        /\ pc' = [pc EXCEPT ![write.by] = "idle"]
    BY <1>6, FailStep
  <2>2. pc'[Loop] = pc[Loop] BY <1>t, <1>6, <2>1
  <2>3. Free(pending) => Free(write.events \o pending) BY <1>1, <1>6, <1>t, FreeJoin
  <2>4. EarlyFree' BY <2>1, <2>2, <2>3 DEF ResultInv, EarlyFree, Free
  <2>5. LateQuiet' BY <1>1, <2>2 DEF LateQuiet
  <2>6. LogFree' /\ status' = "running" BY <1>1, <1>5, <1>6, <2>1
  <2>7. TerminalLate' BY <2>6 DEF TerminalLate
  <2> QED BY <1>2, <1>4, <2>4, <2>5, <2>6, <2>7 DEF ResultInv
<1>7. CASE write.by = Loop /\ (fault = "unavailable" \/ pc[Loop] = "fail")
  <2>1. /\ recorded' = recorded
        /\ IF fault = "unavailable" THEN pc' = [pc EXCEPT ![Loop] = "ended"]
           ELSE pc' = [pc EXCEPT ![Loop] = "final"]
    BY <1>7, FailStep
  <2>2. pc'[Loop] \in Late \ Early /\ (pc'[Loop] = "final" => pc[Loop] = "fail")
    BY <1>7, <1>t, <2>1 DEF Late, Early
  <2>3. EarlyFree' BY <2>2 DEF EarlyFree
  <2>4. LateQuiet'
    <3>1. pc'[Loop] = "final" => failed'
      <4>1. "fail" \notin FlushPoints BY DEF FlushPoints
      <4> QED BY <1>1, <1>t, <2>2, <4>1
    <3> QED BY <1>3, <1>t, <3>1 DEF LateQuiet
  <2>5. TerminalLate' BY <2>2 DEF TerminalLate
  <2> QED BY <1>2, <1>4, <1>5, <2>1, <2>3, <2>4, <2>5 DEF ResultInv
<1>8. CASE write.by = Loop /\ fault # "unavailable" /\ pc[Loop] # "fail"
  <2>1. pc[Loop] \notin {"final", "fail"} BY <1>1, <1>8 DEF Late
  <2>2. /\ recorded' = recorded \o <<"result", "checkpoint">>
        /\ pc' = [pc EXCEPT ![Loop] = "fail"]
        /\ UNCHANGED store
    BY <1>8, <2>1, FailStep
  <2>3. pc'[Loop] = "fail" BY <1>t, <2>2
  <2>4. EarlyFree' /\ LateQuiet' BY <2>3 DEF EarlyFree, LateQuiet, Early, Late
  <2>5. TerminalLate' BY <1>1, <2>2 DEF TerminalLate, store
  <2>6. LogFree'
    <3>1. \A i \in Positions : recorded'[i] = recorded[i]
      <4>1. <<"result", "checkpoint">> \in Seq(Kinds) BY DEF Kinds
      <4> QED BY <2>2, <4>1, FreeStays
    <3>2. \A j \in DOMAIN log : log[j] \in Positions \cup {0} BY <1>t
    <3> QED BY <1>1, <2>2, <3>1, <3>2 DEF ResultInv, LogFree, store
  <2> QED BY <1>2, <1>4, <2>4, <2>5, <2>6 DEF ResultInv
<1> QED BY <1>6, <1>7, <1>8

(* _complete_with_pending_events and emit_exception_terminal: a result is   *)
(* never durable while the store says that the run is running, whichever    *)
(* writes fail and whether or not they took effect; a cancellation, after   *)
(* which the finally clause flushes a held-out result, is excluded.         *)
THEOREM ResultsWithStatus ==
    ASSUME ~ Cancellation
    PROVE  Spec => []ResultOnlyWithTerminal
<1>1. ASSUME BufferInv, ResultInv, [Next]_vars
      PROVE  ResultInv'
  <2>1. Typing /\ Holder BY <1>1 DEF BufferInv
  <2>2. ~ Cancel BY DEF Cancel
  <2> QED
    BY <1>1, <2>1, <2>2, BufferCases, TaskFacts, ResultRecording, ResultAsk, ResultMoves,
       ResultSucceeds, ResultFails
<1>2. Init => ResultInv
  <2> SUFFICES ASSUME Init PROVE ResultInv
    OBVIOUS
  <2>1. pc[Loop] = "running" /\ pc[Loop] \notin Late
    BY TaskFacts DEF Init, Late
  <2> QED
    BY <2>1 DEF Init, ResultInv, EarlyFree, CoveredFree, RunningFree, LateQuiet, TerminalLate,
                LogFree, Free
<1>3. BufferInv /\ ResultInv => ResultOnlyWithTerminal
  <2> SUFFICES ASSUME BufferInv, ResultInv PROVE ResultOnlyWithTerminal
    OBVIOUS
  <2>1. DOMAIN log = 1..Len(log) BY TypingParts DEF BufferInv, Placed
  <2> QED BY <2>1 DEF ResultInv, LogFree, ResultOnlyWithTerminal
<1> QED BY <1>1, <1>2, <1>3, BufferInvariant, PTL DEF Spec

-----------------------------------------------------------------------------
(* Session records come after the run state, if writes neither fail nor are *)
(* cancelled.                                                               *)

LEMMA OrderStep ==
    ASSUME LoopFaults = {}, BarrierFaults = {}, ~ Cancellation,
           Typing, Holder, OrderInv, [Next]_vars
    PROVE  OrderInv'
<1>t. /\ pc \in [Tasks -> Places \cup {"idle"}] /\ Loop \in Tasks
      /\ recorded \in Seq(Kinds) /\ Len(recorded) \in Nat
      /\ need \in [Tasks -> Positions \cup {0}] /\ dirty \in Positions \cup {0}
      /\ ckpt \in Positions \cup {0} /\ session \in Positions \cup {0}
      /\ \A p \in Positions \cup {0} : p \in Nat /\ p <= Len(recorded)
      /\ write # NoWrite => /\ write.by \in Tasks /\ write.held \in Nat
                            /\ write.ckpt \in Positions \cup {0}
  BY TypingParts, TaskFacts, WriteParts DEF Plain, Placed, Positions
<1>o. /\ ~ failed /\ session <= ckpt /\ (dirty # 0 => ckpt <= dirty)
      /\ (write # NoWrite /\ write.ckpt # 0) =>
            /\ ckpt <= write.ckpt /\ write.held <= write.ckpt
            /\ dirty # write.held => write.ckpt <= dirty
      /\ NeedHeld
  BY DEF OrderInv, Advances, SessionAfterRunState
<1>1. ASSUME UNCHANGED <<failed, ckpt, need, write, session>>,
             dirty' = dirty \/ dirty' = Len(recorded) + 1,
             \A t \in Tasks : pc'[t] \in {"barrier", "session"} => pc'[t] = pc[t]
      PROVE  OrderInv'
  <2>1. Advances' BY <1>1, <1>o, <1>t DEF Advances
  <2>2. NeedHeld'
    <3>1. \A t \in Tasks : need[t] <= dirty => need[t] <= dirty' BY <1>1, <1>t
    <3> QED BY <1>1, <1>o, <3>1 DEF NeedHeld
  <2> QED BY <1>1, <1>o, <2>1, <2>2 DEF OrderInv, SessionAfterRunState
<1>2. CASE Recording
  <2>1. UNCHANGED <<failed, ckpt, need, write, session>> /\ \A t \in Background : pc'[t] = pc[t]
    BY <1>2, RecordingStep DEF store, hist
  <2>2. pc'[Loop] \notin {"barrier", "session"}
    BY <1>2, <1>t
       DEF Recording, RecordEvent, DeferCheckpoint, SaveThrough, RecordSuccess, RecordAbort,
           RunFails, Raise, RecordTerminal, CallComplete, Go
  <2>3. dirty' = dirty \/ dirty' = Len(recorded) + 1
    BY <1>2
       DEF Recording, RecordEvent, DeferCheckpoint, SaveThrough, RecordSuccess, RecordAbort,
           RunFails, CallComplete, Next1, buffer
  <2> QED BY <1>1, <2>1, <2>2, <2>3, TaskFacts
<1>3. CASE CallFlush \/ CleanupDone \/ SkipFinalFlush \/ ForeignAppend \/ UNCHANGED vars
  <2>1. UNCHANGED <<failed, ckpt, need, write, session, dirty>>
    BY <1>3 DEF CallFlush, CleanupDone, SkipFinalFlush, ForeignAppend, vars, buffer, store, hist
  <2>2. \A t \in Tasks : pc'[t] \in {"barrier", "session"} => pc'[t] = pc[t]
    BY <1>3, <1>t DEF CallFlush, CleanupDone, SkipFinalFlush, ForeignAppend, vars, Go
  <2> QED BY <1>1, <2>1, <2>2
<1>4. ASSUME NEW t \in Tasks, BeginSessionWrite(t)
      PROVE  OrderInv'
  <2>1. /\ UNCHANGED <<failed, ckpt, write, session, dirty>>
        /\ pc' = [pc EXCEPT ![t] = "barrier"] /\ need' = [need EXCEPT ![t] = dirty]
        /\ pc[t] \in {"running", "idle"}
    BY <1>4 DEF BeginSessionWrite, Go, buffer, store, hist
  <2>2. Advances' BY <1>o, <2>1 DEF Advances
  <2>3. write # NoWrite => write.by # t
    BY <2>1 DEF Holder, FlushPoints, WithCheckpoint
  <2>4. ASSUME NEW u \in Tasks
        PROVE  /\ pc'[u] = "barrier" => need'[u] <= ckpt \/ need'[u] <= dirty
                  \/ (write # NoWrite /\ write.ckpt # 0 /\ need'[u] <= write.ckpt)
               /\ (pc'[u] = "barrier" /\ write # NoWrite /\ write.by = u) => need'[u] <= write.ckpt
               /\ pc'[u] = "session" => need'[u] <= ckpt
    <3>1. CASE u = t BY <1>t, <2>1, <2>3, <3>1
    <3>2. CASE u # t
      <4>1. pc'[u] = pc[u] /\ need'[u] = need[u] BY <1>t, <2>1, <3>2
      <4> QED BY <1>o, <4>1 DEF NeedHeld
    <3> QED BY <3>1, <3>2
  <2>5. NeedHeld' BY <2>1, <2>4 DEF NeedHeld
  <2> QED BY <1>o, <2>1, <2>2, <2>5 DEF OrderInv, SessionAfterRunState
<1>5. ASSUME NEW t \in Tasks, SessionWrite(t)
      PROVE  OrderInv'
  <2>1. /\ UNCHANGED <<failed, ckpt, write, dirty, need>>
        /\ pc[t] = "session" /\ session' = IF need[t] > session THEN need[t] ELSE session
        /\ \A u \in Tasks : pc'[u] \in {"barrier", "session"} => pc'[u] = pc[u]
    BY <1>5, <1>t DEF SessionWrite, Go, buffer, store
  <2>2. need[t] <= ckpt BY <1>o, <2>1 DEF NeedHeld
  <2>3. session' <= ckpt BY <1>o, <1>t, <2>1, <2>2
  <2>4. Advances' BY <1>o, <2>1 DEF Advances
  <2>5. NeedHeld' BY <1>o, <2>1 DEF NeedHeld
  <2> QED BY <1>o, <2>1, <2>3, <2>4, <2>5 DEF OrderInv, SessionAfterRunState
<1>6. ASSUME NEW t \in Tasks,
             (t = Loop /\ (Flush \/ FlushWithCheckpoint)) \/ FlushCheckpoint(t)
      PROVE  OrderInv'
  <2>0. write = NoWrite BY <1>6, AskStep
  <2>1. ASSUME NEW n \in Nat, NEW c \in Positions \cup {0},
               NEW s \in TerminalStatus \cup {"running"}, Issue(t, n, c, s),
               IF pc[t] \in WithCheckpoint THEN c = LastCheckpoint /\ c # 0 ELSE c = dirty
        PROVE  OrderInv'
    <3>1. /\ write' # NoWrite /\ write'.by = t /\ write'.ckpt = c /\ write'.held = dirty
          /\ UNCHANGED <<dirty, failed, pc, need, ckpt, session>>
      BY <2>1, IssueStep DEF store, hist
    <3>2. (ckpt <= c /\ dirty <= c) \/ c = 0
      <4>1. CASE pc[t] \in WithCheckpoint
        <5>1. t = Loop
          <6>1. pc[t] # "barrier" BY <4>1 DEF WithCheckpoint
          <6> QED BY <1>6, <6>1 DEF FlushCheckpoint
        <5>2. c = Len(recorded) BY <2>1, <4>1, <5>1, NewestCheckpoint
        <5> QED BY <1>t, <5>2
      <4>2. CASE pc[t] \notin WithCheckpoint BY <1>o, <1>t, <2>1, <4>2
      <4> QED BY <4>1, <4>2
    <3>3. Advances' BY <1>o, <3>1, <3>2 DEF Advances
    <3>4. ASSUME NEW u \in Tasks, pc[u] = "barrier"
          PROVE  (need[u] <= ckpt \/ need[u] <= dirty) /\ (u = t => need[u] <= c)
      <4>1. need[u] <= ckpt \/ need[u] <= dirty BY <1>o, <2>0, <3>4 DEF NeedHeld
      <4>2. CASE u = t
        <5>1. c = dirty /\ c # 0
          <6>1. pc[t] \notin WithCheckpoint BY <3>4, <4>2 DEF WithCheckpoint
          <6>2. FlushCheckpoint(t)
            BY <1>6, <3>4, <4>2 DEF Flush, FlushWithCheckpoint, FlushPoints
          <6>3. dirty # 0
            <7> SUFFICES ASSUME dirty = 0 PROVE FALSE
              OBVIOUS
            <7>1. pc' = [pc EXCEPT ![t] = "session"] BY <6>2 DEF FlushCheckpoint, Go
            <7> QED BY <1>t, <3>1, <3>4, <4>2, <7>1
          <6> QED BY <2>1, <6>1, <6>3
        <5> QED BY <1>o, <1>t, <4>1, <5>1
      <4> QED BY <4>1, <4>2
    <3>5. NeedHeld' BY <1>o, <3>1, <3>4 DEF NeedHeld
    <3> QED BY <1>o, <3>1, <3>3, <3>5 DEF OrderInv, SessionAfterRunState
  <2>2. CASE /\ pc[t] \notin Terminal /\ pc[t] # "barrier"
             /\ t = Loop /\ Returned(pc[Loop])
             /\ UNCHANGED <<dirty, covers, failed, lastSeq, write, need, store, hist>>
    <3>1. pc[Loop] \in FlushPoints \cup WithCheckpoint BY <1>6, <2>2, AskStep DEF Asks
    <3>2. /\ pc' = [pc EXCEPT ![Loop] = pc'[Loop]]
          /\ pc'[Loop] \in {"running", "completing", "final", "ended"}
      BY <2>2, <3>1, ReturnedStep
    <3>3. \A u \in Tasks : pc'[u] \in {"barrier", "session"} => pc'[u] = pc[u]
      BY <1>t, <3>2
    <3> QED BY <1>1, <2>2, <3>3 DEF store, hist
  <2>3. CASE /\ pc[t] = "barrier" /\ pc' = [pc EXCEPT ![t] = "session"]
             /\ failed \/ dirty = 0
             /\ UNCHANGED <<recorded, buffer, heldOut, write, need, store, hist>>
    <3>1. UNCHANGED <<failed, ckpt, need, write, session, dirty>> /\ dirty = 0
      BY <1>o, <2>3 DEF buffer, store, hist
    <3>2. need[t] <= ckpt
      <4>1. need[t] <= ckpt \/ need[t] <= 0 BY <1>o, <2>0, <2>3, <3>1 DEF NeedHeld
      <4>2. need[t] \in Nat /\ ckpt \in Nat BY <1>t
      <4> QED BY <4>1, <4>2
    <3>3. \A u \in Tasks : u # t => pc'[u] = pc[u] BY <1>t, <2>3
    <3>4. pc'[t] = "session" BY <1>t, <2>3
    <3>5. NeedHeld' BY <1>o, <2>0, <3>1, <3>2, <3>3, <3>4 DEF NeedHeld
    <3>6. Advances' BY <1>o, <3>1 DEF Advances
    <3> QED BY <1>o, <3>1, <3>5, <3>6 DEF OrderInv, SessionAfterRunState
  <2> QED BY <1>6, <2>1, <2>2, <2>3, AskStep
<1>7. CASE WriteSucceeds
  <2>1. /\ write # NoWrite /\ write' = NoWrite
        /\ ckpt' = IF write.ckpt = 0 THEN ckpt ELSE write.ckpt
        /\ write.ckpt = 0 => UNCHANGED <<dirty, failed>>
        /\ write.ckpt # 0 => /\ failed' = FALSE
                             /\ dirty' = IF dirty = write.held THEN 0 ELSE dirty
        /\ UNCHANGED <<need, session>>
    BY <1>7, SucceedStep DEF Applied, hist
  <2>2. /\ ~ failed' /\ ckpt <= ckpt' /\ ckpt' \in Nat
        /\ dirty' # 0 => ckpt' <= dirty'
        /\ dirty' = dirty \/ (dirty' = 0 /\ dirty <= ckpt')
        /\ write.ckpt # 0 => ckpt' = write.ckpt
    BY <1>o, <1>t, <2>1
  <2>3. \/ \A u \in Tasks : pc'[u] \in {"barrier", "session"} => pc'[u] = pc[u]
        \/ /\ pc' = [pc EXCEPT ![write.by] = "session"] /\ pc[write.by] = "barrier"
           /\ write.ckpt # 0
    <3>1. CASE write.by = Loop /\ pc[Loop] # "barrier"
      <4>1. pc[Loop] \in FlushPoints \cup WithCheckpoint /\ Returned(pc[Loop])
        BY <1>7, <2>1, <3>1, SucceedStep DEF Holder
      <4>2. /\ pc' = [pc EXCEPT ![Loop] = pc'[Loop]]
            /\ pc'[Loop] \in {"running", "completing", "final", "ended"}
        BY <4>1, ReturnedStep
      <4> QED BY <1>t, <4>2
    <3>2. CASE ~ (write.by = Loop /\ pc[Loop] # "barrier")
      <4>1. pc' = [pc EXCEPT ![write.by] = "session"] /\ pc[write.by] = "barrier"
        BY <1>7, <3>2, SucceedStep
      <4>2. write.ckpt # 0 BY <2>1, <4>1 DEF Holder
      <4> QED BY <4>1, <4>2
    <3> QED BY <3>1, <3>2
  <2>4. ASSUME NEW u \in Tasks
        PROVE  /\ pc'[u] = "barrier" => need[u] <= ckpt' \/ need[u] <= dirty'
               /\ pc'[u] = "session" => need[u] <= ckpt'
    <3>1. need[u] \in Nat /\ dirty \in Nat /\ ckpt \in Nat BY <1>t
    <3>2. pc[u] = "session" => need[u] <= ckpt' BY <1>o, <2>2, <3>1 DEF NeedHeld
    <3>3. pc[u] = "barrier" => need[u] <= ckpt' \/ need[u] <= dirty'
      <4>1. pc[u] = "barrier" => \/ need[u] <= ckpt \/ need[u] <= dirty
                                 \/ write.ckpt # 0 /\ need[u] <= write.ckpt
        BY <1>o, <2>1 DEF NeedHeld
      <4> QED BY <2>2, <3>1, <4>1
    <3>4. CASE pc'[u] = "session" /\ pc'[u] # pc[u]
      <4>1. u = write.by /\ pc[u] = "barrier" /\ write.ckpt # 0 BY <1>t, <2>3, <3>4
      <4>2. need[u] <= write.ckpt BY <1>o, <2>1, <4>1 DEF NeedHeld
      <4> QED BY <2>2, <3>4, <4>1, <4>2
    <3>5. pc'[u] = "barrier" => pc[u] = "barrier" BY <1>t, <2>1, <2>3
    <3> QED BY <3>2, <3>3, <3>4, <3>5
  <2>5. NeedHeld' BY <2>1, <2>4 DEF NeedHeld
  <2>6. Advances' BY <2>1, <2>2 DEF Advances
  <2>7. session' <= ckpt' BY <1>o, <1>t, <2>1, <2>2
  <2> QED BY <2>2, <2>5, <2>6, <2>7 DEF OrderInv, SessionAfterRunState
<1>8. ~ \E fault \in Faults : WriteFails(fault) BY DEF WriteFails
<1>9. ~ Cancel BY DEF Cancel
<1> QED BY <1>2, <1>3, <1>4, <1>5, <1>6, <1>7, <1>8, <1>9, TaskFacts, BufferCases

(* durable_call and _complete_with_pending_events: what is durable at any   *)
(* moment is a state the run was in.  A session record of any task is       *)
(* durable after the checkpoint that was held when its write began, and a   *)
(* result with its status (a failed or cancelled write breaks the first).   *)
THEOREM DurableInOrder ==
    ASSUME LoopFaults = {}, BarrierFaults = {}, ~ Cancellation
    PROVE  Spec => []DurableOrder
<1>1. BufferInv /\ OrderInv /\ [Next]_vars => OrderInv' BY OrderStep DEF BufferInv
<1>2. Init => OrderInv
  <2> SUFFICES ASSUME Init PROVE OrderInv
    OBVIOUS
  <2>1. \A t \in Tasks : pc[t] \in {"running", "idle"} BY DEF Init
  <2> QED BY <2>1 DEF Init, OrderInv, Advances, NeedHeld, SessionAfterRunState
<1>3. OrderInv => SessionAfterRunState BY DEF OrderInv
<1>4. ResultOnlyWithTerminal /\ SessionAfterRunState <=> DurableOrder BY DEF DurableOrder
<1> QED BY <1>1, <1>2, <1>3, <1>4, BufferInvariant, ResultsWithStatus, PTL DEF Spec

-----------------------------------------------------------------------------
(* The write-through order.                                                 *)

Elems(s) == {s[i] : i \in DOMAIN s}
Ascends(s) == \A i, j \in DOMAIN s : i < j => s[i] < s[j]
Below(S, T) == \A x \in S, y \in T : x < y

Carried == IF write = NoWrite THEN <<>> ELSE write.events
Waiting == Elems(Carried) \cup Elems(pending) \cup Elems(heldOut)
Durable == Elems(log) \ {0}
EventsAt == {i \in Positions : recorded[i] # "checkpoint"}
CheckpointsAt == {i \in Positions : recorded[i] = "checkpoint"}

(* The events D and the checkpoint c are those of the first n items.        *)
Commits(n, D, c) ==
    /\ D = {i \in 1..n : recorded[i] # "checkpoint"}
    /\ c = 0 \/ (c \in 1..n /\ recorded[c] = "checkpoint")
    /\ \A k \in 1..n : recorded[k] = "checkpoint" => k <= c

(* Every event is durable or waits, in order; one that does both was        *)
(* written without a reply.                                                 *)
Queued ==
    /\ Ascends(Carried) /\ Ascends(pending)
    /\ Below(Elems(Carried), Elems(pending))
    /\ Durable \cup Waiting = EventsAt
    /\ Durable \cap Waiting \subseteq uncertain

(* A held-out result is the last item of the program order.                 *)
HeldLast ==
    /\ heldOut = <<>> \/ heldOut = <<Len(recorded)>>
    /\ heldOut # <<>> => /\ pc[Loop] \in {"cleanup", "flushBeforeResult", "ended"}
                         /\ Len(recorded) \notin Elems(Carried) \cup Elems(pending) \cup {dirty}

(* The log has the events in order, but for repetitions of a write without  *)
(* a reply.                                                                 *)
LogAscends ==
    /\ \A i, j \in DOMAIN log : i < j /\ log[i] = log[j] /\ log[i] # 0 => log[j] \in uncertain
    /\ \A i, j \in OwnAt : i < j => log[i] < log[j]
    /\ Durable = {log[j] : j \in OwnAt}

(* Unless an atomic write failed, the newest checkpoint is the held one or  *)
(* the durable one, but for the last one before a write of it.              *)
Unhanded == WithCheckpoint \cup Late
Newest ==
    /\ dirty \in CheckpointsAt \cup {0} /\ ckpt \in CheckpointsAt \cup {0}
    /\ ~ failed => \A k \in CheckpointsAt :
          \/ k <= IF dirty # 0 THEN dirty ELSE ckpt
          \/ k = Len(recorded) /\ pc[Loop] \in Unhanded

(* A held checkpoint is ahead of the store, and covers tells which of the   *)
(* waiting events it is ahead of.                                           *)
Ahead ==
    (~ failed /\ dirty # 0) =>
        /\ Below(Durable, {dirty}) /\ ckpt <= dirty
        /\ write # NoWrite /\ dirty # write.held =>
              Below(Elems(write.events), {dirty}) /\ write.ckpt <= dirty
        /\ write = NoWrite \/ dirty # write.held =>
              /\ covers <= Len(pending)
              /\ \A i \in DOMAIN pending :
                    IF i <= covers THEN pending[i] < dirty ELSE dirty < pending[i]

(* What is in flight would commit a prefix; a failed buffer is written only *)
(* with the last checkpoint.                                                *)
WriteCommits ==
    write # NoWrite =>
        /\ \E n \in 0..Len(recorded) :
              Commits(n, Durable \cup Elems(write.events),
                      IF write.ckpt = 0 THEN ckpt ELSE write.ckpt)
        /\ write.ckpt # 0 => ckpt <= write.ckpt
        /\ failed => write.by = Loop /\ pc[Loop] \in WithCheckpoint
        /\ write.by = Loop /\ pc[Loop] \in WithCheckpoint => write.ckpt = Len(recorded)

(* A save that writes through finds what it was called for.                 *)
SaveFinds ==
    pc[Loop] = "save" =>
        Background = {} /\ (write = NoWrite => pending # <<>> \/ dirty # 0)

Committed == \E n \in 0..Len(recorded) : Commits(n, Durable, ckpt)

PrefixInv ==
    /\ Queued /\ HeldLast /\ LogAscends /\ Newest /\ Ahead /\ WriteCommits /\ SaveFinds /\ Committed

(* Sequences of positions and what they contain.                            *)
LEMMA JoinElems ==
    ASSUME NEW s \in Seq(Nat), NEW t \in Seq(Nat)
    PROVE  /\ s \o t \in Seq(Nat)
           /\ Elems(s \o t) = Elems(s) \cup Elems(t)
           /\ Ascends(s) /\ Ascends(t) /\ Below(Elems(s), Elems(t)) => Ascends(s \o t)
<1>1. /\ s \o t \in Seq(Nat) /\ Len(s \o t) = Len(s) + Len(t)
      /\ \A i \in 1..Len(s) : (s \o t)[i] = s[i]
      /\ \A i \in 1..Len(t) : (s \o t)[Len(s) + i] = t[i]
  BY SeqJoin
<1>2. /\ DOMAIN s = 1..Len(s) /\ DOMAIN t = 1..Len(t) /\ Len(s) \in Nat /\ Len(t) \in Nat
      /\ DOMAIN (s \o t) = 1..(Len(s) + Len(t))
  BY <1>1
<1> DEFINE u == s \o t
<1> HIDE DEF u
<1>3. /\ DOMAIN u = 1..(Len(s) + Len(t))
      /\ \A i \in 1..Len(s) : u[i] = s[i]
      /\ \A i \in 1..Len(t) : u[Len(s) + i] = t[i]
  BY <1>1, <1>2 DEF u
<1>4. \A k \in DOMAIN u : k \notin 1..Len(s) => k - Len(s) \in 1..Len(t) /\ k = Len(s) + (k - Len(s))
  BY <1>2, <1>3
<1>5. \A i \in 1..Len(s) : i \in DOMAIN u BY <1>2, <1>3
<1>6. \A i \in 1..Len(t) : Len(s) + i \in DOMAIN u BY <1>2, <1>3
<1>7. Elems(u) = Elems(s) \cup Elems(t)
  <2>1. ASSUME NEW k \in DOMAIN u PROVE u[k] \in Elems(s) \cup Elems(t)
    <3>1. CASE k \in 1..Len(s) BY <3>1, <1>2, <1>3 DEF Elems
    <3>2. CASE k \notin 1..Len(s)
      <4>1. u[k] = t[k - Len(s)] BY <3>2, <1>4, <1>3
      <4> QED BY <3>2, <1>4, <4>1, <1>2 DEF Elems
    <3> QED BY <3>1, <3>2
  <2>2. \A i \in DOMAIN s : s[i] \in Elems(u) BY <1>2, <1>3, <1>5 DEF Elems
  <2>3. \A i \in DOMAIN t : t[i] \in Elems(u) BY <1>2, <1>3, <1>6 DEF Elems
  <2>4. Elems(u) \subseteq Elems(s) \cup Elems(t) BY <2>1 DEF Elems
  <2>5. Elems(s) \subseteq Elems(u) /\ Elems(t) \subseteq Elems(u) BY <2>2, <2>3 DEF Elems
  <2> QED BY <2>4, <2>5
<1>8. ASSUME Ascends(s), Ascends(t), Below(Elems(s), Elems(t)) PROVE Ascends(u)
  <2> SUFFICES ASSUME NEW i \in DOMAIN u, NEW j \in DOMAIN u, i < j PROVE u[i] < u[j]
    BY DEF Ascends
  <2>1. CASE j \in 1..Len(s)
    <3>1. i \in 1..Len(s) BY <2>1, <1>2, <1>3
    <3> QED BY <3>1, <2>1, <1>2, <1>3, <1>8 DEF Ascends
  <2>2. CASE i \in 1..Len(s) /\ j \notin 1..Len(s)
    <3>1. u[j] = t[j - Len(s)] BY <2>2, <1>4, <1>3
    <3>2. u[j] \in Elems(t) BY <3>1, <2>2, <1>4, <1>2 DEF Elems
    <3>3. u[i] \in Elems(s) BY <2>2, <1>2, <1>3 DEF Elems
    <3> QED BY <3>2, <3>3, <1>8 DEF Below
  <2>3. CASE i \notin 1..Len(s) /\ j \notin 1..Len(s)
    <3>1. u[j] = t[j - Len(s)] /\ u[i] = t[i - Len(s)] BY <2>3, <1>4, <1>3
    <3>2. i - Len(s) < j - Len(s) BY <1>2, <1>3
    <3>3. i - Len(s) \in DOMAIN t /\ j - Len(s) \in DOMAIN t BY <2>3, <1>4, <1>2
    <3> QED BY <3>1, <3>2, <3>3, <1>8 DEF Ascends
  <2> QED BY <2>1, <2>2, <2>3
<1> QED BY <1>1, <1>7, <1>8 DEF u

LEMMA OneElem ==
    /\ Elems(<<>>) = {} /\ Ascends(<<>>)
    /\ \A x \in Nat : <<x>> \in Seq(Nat) /\ Elems(<<x>>) = {x} /\ Ascends(<<x>>)
    /\ \A s \in Seq(Nat), x \in Nat : Append(s, x) = s \o <<x>>
BY DEF Elems, Ascends

LEMMA ElemsIn ==
    ASSUME NEW P, NEW s \in Seq(P)
    PROVE  Elems(s) \subseteq P
BY DEF Elems

(* What one more item, or the terminal pair, adds to the program order.     *)
LEMMA OneMore ==
    ASSUME recorded \in Seq(Kinds), NEW kind \in Kinds, recorded' = Append(recorded, kind)
    PROVE  /\ Len(recorded') = Next1 /\ Len(recorded) \in Nat /\ Next1 \in Nat
           /\ EventsAt' = IF kind = "checkpoint" THEN EventsAt ELSE EventsAt \cup {Next1}
           /\ CheckpointsAt' = IF kind = "checkpoint" THEN CheckpointsAt \cup {Next1} ELSE CheckpointsAt
           /\ \A i \in 1..Len(recorded) : recorded'[i] = recorded[i]
<1>1. /\ Len(recorded') = Len(recorded) + 1 /\ Len(recorded) \in Nat
      /\ \A i \in 1..Len(recorded) : recorded'[i] = recorded[i]
      /\ recorded'[Len(recorded) + 1] = kind
  OBVIOUS
<1>2. Positions' = Positions \cup {Next1} BY <1>1 DEF Positions, Next1
<1> QED BY <1>1, <1>2 DEF EventsAt, CheckpointsAt, Next1, Positions

LEMMA PairMore ==
    ASSUME recorded \in Seq(Kinds), recorded' = recorded \o <<"result", "checkpoint">>
    PROVE  /\ Len(recorded') = Next1 + 1 /\ Len(recorded) \in Nat /\ Next1 \in Nat
           /\ EventsAt' = EventsAt \cup {Next1}
           /\ CheckpointsAt' = CheckpointsAt \cup {Next1 + 1}
           /\ \A i \in 1..Len(recorded) : recorded'[i] = recorded[i]
<1> DEFINE both == <<"result", "checkpoint">>
<1>1. both \in Seq(Kinds) /\ Len(both) = 2 /\ both[1] = "result" /\ both[2] = "checkpoint"
  BY DEF Kinds
<1>2. /\ Len(recorded') = Len(recorded) + 2 /\ Len(recorded) \in Nat
      /\ \A i \in Positions : recorded'[i] = recorded[i]
      /\ \A i \in 1..2 : recorded'[Len(recorded) + i] = both[i]
  <2>1. recorded' = recorded \o both OBVIOUS
  <2> HIDE DEF both
  <2>2. Len(recorded) \in Nat OBVIOUS
  <2> QED BY <1>1, <2>1, <2>2, Grown
<1>3. recorded'[Next1] = "result" /\ recorded'[Next1 + 1] = "checkpoint"
  BY <1>1, <1>2 DEF Next1
<1>4. Positions' = Positions \cup {Next1, Next1 + 1} BY <1>2 DEF Positions, Next1
<1> QED BY <1>2, <1>3, <1>4 DEF EventsAt, CheckpointsAt, Next1, Positions

LEMMA Facts ==
    ASSUME Typing
    PROVE  /\ recorded \in Seq(Kinds) /\ Len(recorded) \in Nat /\ Positions = 1..Len(recorded)
           /\ pending \in Seq(Nat) /\ heldOut \in Seq(Nat) /\ Carried \in Seq(Nat) /\ log \in Seq(Nat)
           /\ Elems(pending) \subseteq Positions /\ Elems(heldOut) \subseteq Positions
           /\ Elems(Carried) \subseteq Positions /\ Durable \subseteq Positions
           /\ dirty \in Positions \cup {0} /\ ckpt \in Positions \cup {0} /\ covers \in Nat
           /\ write # NoWrite => Carried = write.events
           /\ pc \in [Tasks -> Places \cup {"idle"}] /\ Loop \in Tasks
           /\ failed \in BOOLEAN
<1>1. /\ recorded \in Seq(Kinds) /\ pending \in Seq(Positions) /\ heldOut \in Seq(Positions)
      /\ log \in Seq(Positions \cup {0}) /\ dirty \in Positions \cup {0} /\ failed \in BOOLEAN
      /\ ckpt \in Positions \cup {0} /\ covers \in Nat /\ pc \in [Tasks -> Places \cup {"idle"}]
      /\ write # NoWrite => write.events \in Seq(Positions)
  BY TypingParts DEF Plain, Placed
<1>2. Positions = 1..Len(recorded) /\ Len(recorded) \in Nat /\ Positions \subseteq Nat
      /\ Positions \cup {0} \subseteq Nat
  BY <1>1 DEF Positions
<1>3. Carried \in Seq(Positions) BY <1>1 DEF Carried
<1>4. /\ pending \in Seq(Nat) /\ heldOut \in Seq(Nat) /\ Carried \in Seq(Nat) /\ log \in Seq(Nat)
  BY <1>1, <1>2, <1>3, SeqMore
<1>5. Elems(log) \subseteq Positions \cup {0} BY <1>1, ElemsIn
<1> QED BY <1>1, <1>2, <1>3, <1>4, <1>5, ElemsIn, TaskFacts DEF Durable, Carried

(* The events of a write reach the log.                                     *)
LEMMA AppliedElems ==
    ASSUME Typing, write # NoWrite, Applied
    PROVE  Durable' = Durable \cup Elems(write.events)
<1>1. log' = log \o write.events /\ Carried = write.events BY Facts DEF Applied
<1>2. Elems(log') = Elems(log) \cup Elems(Carried) BY <1>1, Facts, JoinElems
<1>3. 0 \notin Elems(Carried) BY Facts
<1> QED BY <1>1, <1>2, <1>3 DEF Durable

(* How the waiting events are moved: to a write and back.                   *)
LEMMA IssueElems ==
    ASSUME Typing, Queued, write = NoWrite, NEW t \in Tasks, NEW n \in Nat,
           NEW c \in Positions \cup {0}, NEW s \in TerminalStatus \cup {"running"}, Issue(t, n, c, s)
    PROVE  /\ Carried' = write'.events /\ Ascends(Carried') /\ Ascends(pending')
           /\ Elems(Carried') \cup Elems(pending') = Elems(pending) /\ Elems(Carried) = {}
           /\ Below(Elems(Carried'), Elems(pending'))
<1>1. /\ write' # NoWrite /\ write'.events \in Seq(Positions) /\ pending' \in Seq(Positions)
      /\ \A i \in DOMAIN write'.events : i \in DOMAIN pending /\ write'.events[i] = pending[i]
      /\ Len(pending) = Len(write'.events) + Len(pending')
      /\ \A i \in 1..Len(pending') : pending'[i] = pending[Len(write'.events) + i]
  BY IssueStep
<1>2. Carried' = write'.events /\ Carried = <<>> BY <1>1 DEF Carried
<1> DEFINE w == write'.events
           r == pending'
<1>3. /\ DOMAIN w = 1..Len(w) /\ DOMAIN r = 1..Len(r) /\ DOMAIN pending = 1..Len(pending)
      /\ Len(w) \in Nat /\ Len(r) \in Nat /\ Len(pending) \in Nat
  BY <1>1, Facts
<1>4. /\ \A i \in DOMAIN w : i \in DOMAIN pending /\ w[i] = pending[i]
      /\ Len(pending) = Len(w) + Len(r)
      /\ \A i \in DOMAIN r : r[i] = pending[Len(w) + i]
  BY <1>1, <1>3
<1> HIDE DEF w, r
<1>5. \A i \in DOMAIN r : Len(w) + i \in DOMAIN pending BY <1>3, <1>4
<1>6. \A k \in DOMAIN pending : k \notin DOMAIN w => k - Len(w) \in DOMAIN r /\ k = Len(w) + (k - Len(w))
  BY <1>3, <1>4
<1>7. Ascends(pending) BY DEF Queued
<1>8. Ascends(w) BY <1>3, <1>4, <1>7 DEF Ascends
<1>9. Ascends(r)
  <2> SUFFICES ASSUME NEW i \in DOMAIN r, NEW j \in DOMAIN r, i < j PROVE r[i] < r[j] BY DEF Ascends
  <2>1. Len(w) + i < Len(w) + j BY <1>3
  <2> QED BY <2>1, <1>4, <1>5, <1>7 DEF Ascends
<1>10. Below(Elems(w), Elems(r))
  <2> SUFFICES ASSUME NEW i \in DOMAIN w, NEW j \in DOMAIN r PROVE w[i] < r[j] BY DEF Below, Elems
  <2>1. i < Len(w) + j BY <1>3
  <2> QED BY <2>1, <1>4, <1>5, <1>7 DEF Ascends
<1>11. Elems(w) \cup Elems(r) = Elems(pending)
  <2>1. \A i \in DOMAIN w : w[i] \in Elems(pending) BY <1>4 DEF Elems
  <2>2. \A i \in DOMAIN r : r[i] \in Elems(pending) BY <1>4, <1>5 DEF Elems
  <2>3. ASSUME NEW k \in DOMAIN pending PROVE pending[k] \in Elems(w) \cup Elems(r)
    <3>1. CASE k \in DOMAIN w BY <3>1, <1>4 DEF Elems
    <3>2. CASE k \notin DOMAIN w
      <4>1. pending[k] = r[k - Len(w)] BY <3>2, <1>6, <1>4
      <4> QED BY <4>1, <3>2, <1>6 DEF Elems
    <3> QED BY <3>1, <3>2
  <2>4. Elems(pending) \subseteq Elems(w) \cup Elems(r) BY <2>3 DEF Elems
  <2>5. Elems(w) \subseteq Elems(pending) /\ Elems(r) \subseteq Elems(pending) BY <2>1, <2>2 DEF Elems
  <2> QED BY <2>4, <2>5
<1> QED BY <1>2, <1>8, <1>9, <1>10, <1>11, OneElem DEF w, r

LEMMA RestoredElems ==
    ASSUME Typing, Queued, write # NoWrite
    PROVE  /\ write.events \o pending \in Seq(Nat) /\ Ascends(write.events \o pending)
           /\ Elems(write.events \o pending) = Elems(Carried) \cup Elems(pending)
<1>1. Carried = write.events BY DEF Carried
<1> QED BY <1>1, Facts, JoinElems DEF Queued

(* A held-out result goes behind what waits.                                *)
LEMMA PutBackElems ==
    ASSUME Typing, HeldLast, NEW s \in Seq(Nat), Ascends(s), Elems(s) \subseteq Positions,
           heldOut # <<>> => Len(recorded) \notin Elems(s)
    PROVE  /\ s \o heldOut \in Seq(Nat) /\ Ascends(s \o heldOut)
           /\ Elems(s \o heldOut) = Elems(s) \cup Elems(heldOut)
<1>1. heldOut \in Seq(Nat) /\ Len(recorded) \in Nat /\ Positions = 1..Len(recorded) BY Facts
<1>2. CASE heldOut = <<>>
  BY <1>1, <1>2, JoinElems, OneElem DEF Below
<1>3. CASE heldOut = <<Len(recorded)>>
  <2>1. heldOut # <<>> BY <1>3
  <2>2. Elems(heldOut) = {Len(recorded)} /\ Ascends(heldOut) BY <1>3, <1>1, OneElem
  <2>3. Below(Elems(s), Elems(heldOut)) BY <1>1, <2>1, <2>2 DEF Below
  <2> QED BY <1>1, <2>2, <2>3, JoinElems
<1> QED BY <1>2, <1>3 DEF HeldLast

LEMMA HeldLastStep ==
    ASSUME Typing, Holder, Queued, HeldLast, [Next]_vars
    PROVE  HeldLast'
<1>t. /\ Len(recorded) \in Nat /\ Positions = 1..Len(recorded) /\ recorded \in Seq(Kinds)
      /\ Elems(pending) \subseteq Positions /\ Elems(Carried) \subseteq Positions
      /\ dirty \in Positions \cup {0} /\ Elems(heldOut) \subseteq Positions
      /\ pc \in [Tasks -> Places \cup {"idle"}] /\ Loop \in Tasks
  BY Facts
<1>p. heldOut # <<>> => Len(recorded) # 0
  <2>1. heldOut = <<Len(recorded)>> => Len(recorded) \in Elems(heldOut) BY <1>t, OneElem
  <2> QED BY <2>1, <1>t DEF HeldLast
<1>h. heldOut # <<>> => pc[Loop] \in {"cleanup", "flushBeforeResult", "ended"} BY DEF HeldLast
<1>0. ASSUME heldOut' = <<>> PROVE HeldLast' BY <1>0 DEF HeldLast
<1>1. ASSUME UNCHANGED <<recorded, heldOut>>, dirty' \in {dirty, 0},
             pc'[Loop] \in {pc[Loop], "ended"} \/ (pc[Loop] = "cleanup" /\ pc'[Loop] = "flushBeforeResult"),
             Elems(Carried') \cup Elems(pending') \subseteq Elems(Carried) \cup Elems(pending)
      PROVE  HeldLast'
  BY <1>1, <1>p, <1>h DEF HeldLast
<1>2. CASE Recording
  <2>1. CASE RecordSuccess
    <3>1. /\ recorded' = Append(recorded, "result") /\ heldOut' = <<Next1>>
          /\ pc'[Loop] = "cleanup" /\ UNCHANGED <<pending, dirty, write>>
      BY <2>1, <1>t DEF RecordSuccess, Go, buffer
    <3>2. "result" \in Kinds BY DEF Kinds
    <3>3. Len(recorded') = Next1 /\ Next1 = Len(recorded) + 1 BY <1>t, <3>1, <3>2, OneMore DEF Next1
    <3>4. Next1 \notin Elems(Carried) \cup Elems(pending) \cup {dirty} BY <1>t, <3>3
    <3>5. UNCHANGED Carried BY <3>1 DEF Carried
    <3> QED BY <3>1, <3>3, <3>4, <3>5 DEF HeldLast
  <2>2. CASE RunFails BY <2>2, <1>0 DEF RunFails, Raise
  <2>3. CASE RecordEvent \/ DeferCheckpoint \/ SaveThrough \/ RecordAbort \/ CallComplete
    <3>1. heldOut' = heldOut /\ pc[Loop] \in {"running", "completing"}
      BY <2>3 DEF RecordEvent, DeferCheckpoint, SaveThrough, RecordAbort, CallComplete
    <3> QED BY <3>1, <1>h, <1>0
  <2> QED BY <1>2, <2>1, <2>2, <2>3 DEF Recording
<1>3. CASE CallFlush \/ CleanupDone \/ SkipFinalFlush \/ ForeignAppend \/ UNCHANGED vars
  <2>1. UNCHANGED <<recorded, heldOut, dirty, pending, write>>
    BY <1>3 DEF CallFlush, CleanupDone, SkipFinalFlush, ForeignAppend, vars, buffer
  <2>2. UNCHANGED Carried BY <2>1 DEF Carried
  <2>3. \/ pc'[Loop] \in {pc[Loop], "ended"} \/ pc[Loop] = "running"
        \/ pc[Loop] = "cleanup" /\ pc'[Loop] = "flushBeforeResult"
    BY <1>3, <1>t DEF CallFlush, CleanupDone, SkipFinalFlush, ForeignAppend, vars, Go
  <2> QED BY <1>0, <1>1, <1>h, <2>1, <2>2, <2>3
<1>4. ASSUME NEW t \in Tasks, BeginSessionWrite(t) \/ SessionWrite(t)
      PROVE  HeldLast'
  <2>1. UNCHANGED <<recorded, heldOut, dirty, pending, write>>
    BY <1>4 DEF BeginSessionWrite, SessionWrite, buffer
  <2>2. UNCHANGED Carried BY <2>1 DEF Carried
  <2>3. pc'[Loop] = pc[Loop] \/ pc[Loop] \in {"running", "session"}
    BY <1>4, <1>t DEF BeginSessionWrite, SessionWrite, Go
  <2> QED BY <1>0, <1>1, <1>h, <2>1, <2>2, <2>3
<1>5. ASSUME NEW t \in Tasks,
             (t = Loop /\ (Flush \/ FlushWithCheckpoint)) \/ FlushCheckpoint(t)
      PROVE  HeldLast'
  <2>0. write = NoWrite /\ Asks(t) BY <1>5, AskStep
  <2>1. ASSUME NEW n \in Nat, NEW c \in Positions \cup {0},
               NEW s \in TerminalStatus \cup {"running"}, Issue(t, n, c, s)
        PROVE  HeldLast'
    <3>1. UNCHANGED <<recorded, heldOut, dirty, pc>> BY <2>1, IssueStep
    <3>2. Elems(Carried') \cup Elems(pending') = Elems(pending) BY <2>0, <2>1, IssueElems
    <3> QED BY <1>1, <3>1, <3>2
  <2>2. CASE t = Loop /\ pc[Loop] # "barrier" /\ Returned(pc[Loop]) /\ UNCHANGED <<dirty, write>>
    <3>1. pc[Loop] \in FlushPoints \cup WithCheckpoint BY <2>0, <2>2 DEF Asks
    <3>2. pc[Loop] = "flushBeforeResult" => heldOut' = <<>> BY <2>2, <3>1, ReturnedStep
    <3>3. pc[Loop] # "flushBeforeResult" => heldOut' = heldOut /\ heldOut = <<>>
      BY <2>2, <3>1, <1>h, ReturnedStep DEF FlushPoints, WithCheckpoint
    <3> QED BY <1>0, <3>2, <3>3
  <2>3. CASE /\ pc[t] = "barrier" /\ pc' = [pc EXCEPT ![t] = "session"]
             /\ UNCHANGED <<recorded, buffer, heldOut, write, need, store, hist>>
    <3>1. pc'[Loop] = pc[Loop] \/ pc[Loop] = "barrier" BY <2>3, <1>t
    <3>2. UNCHANGED Carried BY <2>3 DEF Carried
    <3> QED BY <1>0, <1>1, <1>h, <2>3, <3>1, <3>2 DEF buffer
  <2> QED BY <1>5, <2>1, <2>2, <2>3, AskStep
<1>6. CASE WriteSucceeds
  <2>1. /\ write # NoWrite /\ write' = NoWrite /\ dirty' \in {dirty, 0}
        /\ IF write.by = Loop /\ pc[Loop] # "barrier"
           THEN Returned(pc[Loop])
           ELSE /\ pc' = [pc EXCEPT ![write.by] = "session"] /\ pc[write.by] = "barrier"
                /\ UNCHANGED <<recorded, pending, heldOut>>
    BY <1>6, SucceedStep
  <2>2. CASE write.by = Loop /\ pc[Loop] # "barrier"
    <3>1. pc[Loop] \in FlushPoints \cup WithCheckpoint BY <2>1, <2>2 DEF Holder
    <3>2. pc[Loop] = "flushBeforeResult" => heldOut' = <<>> BY <2>1, <2>2, <3>1, ReturnedStep
    <3>3. pc[Loop] # "flushBeforeResult" => heldOut' = heldOut /\ heldOut = <<>>
      BY <2>1, <2>2, <3>1, <1>h, ReturnedStep DEF FlushPoints, WithCheckpoint
    <3> QED BY <1>0, <3>2, <3>3
  <2>3. CASE ~ (write.by = Loop /\ pc[Loop] # "barrier")
    <3>1. Elems(Carried') = {} BY <2>1, OneElem DEF Carried
    <3>2. pc'[Loop] = pc[Loop] \/ pc[Loop] = "barrier" BY <2>1, <2>3, <1>t
    <3> QED BY <1>0, <1>1, <1>h, <2>1, <2>3, <3>1, <3>2
  <2> QED BY <2>2, <2>3
<1>7. ASSUME NEW fault \in Faults, WriteFails(fault)
      PROVE  HeldLast'
  <2>1. write # NoWrite /\ write' = NoWrite /\ UNCHANGED dirty BY <1>7, FailStep
  <2>2. CASE heldOut' = heldOut /\ recorded' = recorded /\ pending' = write.events \o pending
             /\ pc'[Loop] \in {pc[Loop], "ended"}
    <3>1. Elems(pending') = Elems(Carried) \cup Elems(pending) BY <2>1, <2>2, RestoredElems
    <3>2. Elems(Carried') = {} BY <2>1, OneElem DEF Carried
    <3> QED BY <1>1, <2>1, <2>2, <3>1, <3>2
  <2>3. CASE write.by = Loop
    <3>1. CASE fault = "unavailable" \/ pc[Loop] = "final"
      BY <1>7, <1>t, <2>2, <2>3, <3>1, FailStep
    <3>2. CASE fault # "unavailable" /\ pc[Loop] = "fail"
      BY <1>7, <1>h, <1>0, <2>3, <3>2, FailStep
    <3>3. CASE fault # "unavailable" /\ pc[Loop] \notin {"final", "fail"}
      BY <1>7, <1>0, <2>3, <3>3, FailStep
    <3> QED BY <3>1, <3>2, <3>3
  <2>4. CASE write.by # Loop
    BY <1>7, <1>t, <2>2, <2>4, FailStep
  <2> QED BY <2>3, <2>4
<1>8. CASE Cancel BY <1>8, <1>0, CancelStep
<1> QED BY <1>2, <1>3, <1>4, <1>5, <1>6, <1>7, <1>8, TaskFacts, BufferCases

(* A result recorded by the exception handler goes behind what waits and a  *)
(* held-out result.                                                         *)
LEMMA RaiseElems ==
    ASSUME Typing, HeldLast, NEW s \in Seq(Nat), Ascends(s), Elems(s) \subseteq Positions,
           heldOut # <<>> => Len(recorded) \notin Elems(s)
    PROVE  /\ s \o heldOut \o <<Next1>> \in Seq(Nat) /\ Ascends(s \o heldOut \o <<Next1>>)
           /\ Elems(s \o heldOut \o <<Next1>>) = Elems(s) \cup Elems(heldOut) \cup {Next1}
<1>1. Len(recorded) \in Nat /\ Positions = 1..Len(recorded) /\ Elems(heldOut) \subseteq Positions BY Facts
<1>2. Next1 \in Nat /\ \A x \in Positions : x \in Nat /\ x < Next1 BY <1>1 DEF Next1
<1> DEFINE rest == s \o heldOut
<1>3. rest \in Seq(Nat) /\ Ascends(rest) /\ Elems(rest) = Elems(s) \cup Elems(heldOut)
  BY PutBackElems
<1>4. <<Next1>> \in Seq(Nat) /\ Elems(<<Next1>>) = {Next1} /\ Ascends(<<Next1>>) BY <1>2, OneElem
<1> HIDE DEF rest
<1>5. Below(Elems(rest), Elems(<<Next1>>)) BY <1>1, <1>2, <1>3, <1>4 DEF Below
<1>6. /\ rest \o <<Next1>> \in Seq(Nat) /\ Ascends(rest \o <<Next1>>)
      /\ Elems(rest \o <<Next1>>) = Elems(rest) \cup {Next1}
  BY <1>3, <1>4, <1>5, JoinElems
<1> QED BY <1>3, <1>6 DEF rest

LEMMA QueuedRecording ==
    ASSUME Typing, Queued, HeldLast, Recording
    PROVE  Queued'
<1>t. /\ Len(recorded) \in Nat /\ Positions = 1..Len(recorded) /\ recorded \in Seq(Kinds)
      /\ pending \in Seq(Nat) /\ Carried \in Seq(Nat)
      /\ Elems(pending) \subseteq Positions /\ Elems(Carried) \subseteq Positions
      /\ Elems(heldOut) \subseteq Positions /\ Durable \subseteq Positions
  BY Facts
<1>n. Next1 \in Nat /\ Next1 \notin Positions /\ \A x \in Positions : x \in Nat /\ x < Next1
  BY <1>t DEF Next1
<1>q. /\ Ascends(Carried) /\ Ascends(pending) /\ Below(Elems(Carried), Elems(pending))
      /\ Durable \cup Waiting = EventsAt /\ Durable \cap Waiting \subseteq uncertain
  BY DEF Queued
<1>u. UNCHANGED <<write, store, hist>> BY RecordingStep
<1>c. UNCHANGED <<Carried, Durable, uncertain>> BY <1>u DEF Carried, Durable, Elems, store, hist
<1>1. ASSUME Elems(pending') \cup Elems(heldOut') = Elems(pending) \cup Elems(heldOut),
             EventsAt' = EventsAt, pending' = pending
      PROVE  Queued'
  BY <1>1, <1>q, <1>c DEF Queued, Waiting
<1>2. ASSUME Elems(pending') \cup Elems(heldOut') = Elems(pending) \cup Elems(heldOut) \cup {Next1},
             EventsAt' = EventsAt \cup {Next1}, Ascends(pending'), Below(Elems(Carried), Elems(pending'))
      PROVE  Queued'
  <2>1. Next1 \notin Durable BY <1>t, <1>n
  <2>2. Waiting' = Waiting \cup {Next1} BY <1>2, <1>c DEF Waiting
  <2> QED BY <1>2, <1>q, <1>c, <2>1, <2>2 DEF Queued
<1>k. "event" \in Kinds /\ "result" \in Kinds /\ "checkpoint" \in Kinds BY DEF Kinds
<1>a. /\ Ascends(Append(pending, Next1)) /\ Elems(Append(pending, Next1)) = Elems(pending) \cup {Next1}
      /\ Below(Elems(Carried), Elems(Append(pending, Next1)))
  <2>1. /\ <<Next1>> \in Seq(Nat) /\ Elems(<<Next1>>) = {Next1} /\ Ascends(<<Next1>>)
        /\ Append(pending, Next1) = pending \o <<Next1>>
    BY <1>t, <1>n, OneElem
  <2>2. Below(Elems(pending), Elems(<<Next1>>)) BY <1>t, <1>n, <2>1 DEF Below
  <2>3. /\ Ascends(pending \o <<Next1>>)
        /\ Elems(pending \o <<Next1>>) = Elems(pending) \cup Elems(<<Next1>>)
    BY <1>t, <1>q, <2>1, <2>2, JoinElems
  <2>4. Below(Elems(Carried), Elems(pending) \cup {Next1}) BY <1>t, <1>n, <1>q DEF Below
  <2> QED BY <2>1, <2>3, <2>4
<1>3. CASE RecordEvent
  <2>1. recorded' = Append(recorded, "event") /\ pending' = Append(pending, Next1) /\ heldOut' = heldOut
    BY <1>3 DEF RecordEvent
  <2>2. EventsAt' = EventsAt \cup {Next1} BY <1>t, <1>k, <2>1, OneMore
  <2> QED BY <1>2, <1>a, <2>1, <2>2
<1>4. CASE DeferCheckpoint \/ SaveThrough \/ CallComplete
  <2>1. recorded' = Append(recorded, "checkpoint") /\ pending' = pending /\ heldOut' = heldOut
    BY <1>4 DEF DeferCheckpoint, SaveThrough, CallComplete, buffer
  <2>2. EventsAt' = EventsAt BY <1>t, <1>k, <2>1, OneMore
  <2> QED BY <1>1, <2>1, <2>2
<1>5. CASE RecordSuccess
  <2>1. /\ recorded' = Append(recorded, "result") /\ pending' = pending /\ heldOut' = <<Next1>>
        /\ pc[Loop] = "running"
    BY <1>5 DEF RecordSuccess, buffer
  <2>2. EventsAt' = EventsAt \cup {Next1} BY <1>t, <1>k, <2>1, OneMore
  <2>3. heldOut = <<>> BY <2>1 DEF HeldLast
  <2>4. Elems(heldOut) = {} /\ Elems(heldOut') = {Next1} BY <1>n, <2>1, <2>3, OneElem
  <2> QED BY <1>2, <1>q, <2>1, <2>2, <2>4
<1>6. CASE RecordAbort
  <2>1. /\ recorded' = recorded \o <<"result", "checkpoint">>
        /\ pending' = Append(pending, Next1) /\ heldOut' = heldOut
    BY <1>6 DEF RecordAbort, RecordTerminal
  <2>2. EventsAt' = EventsAt \cup {Next1} BY <1>t, <2>1, PairMore
  <2> QED BY <1>2, <1>a, <2>1, <2>2
<1>7. CASE RunFails
  <2>1. /\ recorded' = recorded \o <<"result", "checkpoint">>
        /\ pending' = pending \o heldOut \o <<Next1>> /\ heldOut' = <<>>
    BY <1>7 DEF RunFails, Raise, RecordTerminal
  <2>2. EventsAt' = EventsAt \cup {Next1} BY <1>t, <2>1, PairMore
  <2>3. heldOut # <<>> => Len(recorded) \notin Elems(pending) /\ Len(recorded) \notin Elems(Carried)
    BY DEF HeldLast
  <2>4. Ascends(pending') /\ Elems(pending') = Elems(pending) \cup Elems(heldOut) \cup {Next1}
    BY <1>t, <1>q, <2>1, <2>3, RaiseElems
  <2>5. Below(Elems(Carried), Elems(heldOut))
    <3>1. heldOut = <<Len(recorded)>> => Elems(heldOut) = {Len(recorded)} BY <1>t, OneElem
    <3>2. heldOut = <<>> => Elems(heldOut) = {} BY OneElem
    <3>3. heldOut = <<>> \/ heldOut = <<Len(recorded)>> BY DEF HeldLast
    <3>4. CASE heldOut = <<>> BY <3>4, <3>2 DEF Below
    <3>5. CASE heldOut = <<Len(recorded)>> /\ heldOut # <<>> BY <1>t, <3>5, <3>1, <2>3 DEF Below
    <3> QED BY <3>3, <3>4, <3>5
  <2>6. Below(Elems(Carried), Elems(pending')) BY <1>t, <1>n, <1>q, <2>4, <2>5 DEF Below
  <2>7. Elems(heldOut') = {} BY <2>1, OneElem
  <2> QED BY <1>2, <2>2, <2>4, <2>6, <2>7
<1> QED BY <1>3, <1>4, <1>5, <1>6, <1>7 DEF Recording

LEMMA HeldBehind ==
    ASSUME Typing, HeldLast
    PROVE  /\ Elems(heldOut) \subseteq {Len(recorded)}
           /\ Below(Elems(Carried), Elems(heldOut)) /\ Below(Elems(pending), Elems(heldOut))
           /\ Elems(Carried) \cap Elems(heldOut) = {}
           /\ dirty # 0 => \A x \in Elems(heldOut) : dirty < x
<1>1. /\ Len(recorded) \in Nat /\ Positions = 1..Len(recorded) /\ dirty \in Positions \cup {0}
      /\ Elems(Carried) \subseteq Positions /\ Elems(pending) \subseteq Positions
  BY Facts
<1>2. CASE heldOut = <<>>
  <2>1. Elems(heldOut) = {} BY <1>2, OneElem
  <2> QED BY <2>1 DEF Below
<1>3. CASE heldOut = <<Len(recorded)>> /\ heldOut # <<>>
  <2>1. Elems(heldOut) = {Len(recorded)} BY <1>1, <1>3, OneElem
  <2>2. Len(recorded) \notin Elems(Carried) \cup Elems(pending) \cup {dirty}
    BY <1>3 DEF HeldLast
  <2> QED BY <1>1, <2>1, <2>2 DEF Below
<1> QED BY <1>2, <1>3 DEF HeldLast

(* A write that takes effect: what it carried is durable and no longer      *)
(* waits, or waits and is marked as written without a reply.                *)
LEMMA QueuedFrom ==
    ASSUME Typing, Queued, HeldLast, UNCHANGED recorded, Ascends(Carried'), Ascends(pending'),
           Below(Elems(Carried'), Elems(pending')),
           \/ Durable' = Durable /\ Waiting' = Waiting /\ uncertain' = uncertain
           \/ /\ Durable' = Durable \cup Elems(Carried) /\ uncertain' = uncertain
              /\ Waiting' = Elems(pending) \cup Elems(heldOut)
           \/ /\ Durable' = Durable \cup Elems(Carried) /\ Waiting' = Waiting
              /\ uncertain' = uncertain \cup Elems(Carried)
    PROVE  Queued'
<1>1. EventsAt' = EventsAt BY DEF EventsAt, Positions
<1>2. Elems(Carried) \cap Elems(pending) = {}
  <2> SUFFICES ASSUME NEW x \in Elems(Carried), x \in Elems(pending) PROVE FALSE
    OBVIOUS
  <2>1. x < x BY DEF Queued, Below
  <2>2. x \in Nat BY Facts
  <2> QED BY <2>1, <2>2
<1>3. Elems(Carried) \cap Elems(heldOut) = {} BY HeldBehind
<1> QED BY <1>1, <1>2, <1>3 DEF Queued, Waiting

LEMMA QueuedStep ==
    ASSUME Typing, Holder, Queued, HeldLast, [Next]_vars
    PROVE  Queued'
<1>t. /\ Len(recorded) \in Nat /\ Positions = 1..Len(recorded) /\ recorded \in Seq(Kinds)
      /\ pending \in Seq(Nat) /\ Carried \in Seq(Nat)
      /\ Elems(pending) \subseteq Positions /\ Elems(Carried) \subseteq Positions
      /\ Elems(heldOut) \subseteq Positions /\ Durable \subseteq Positions
  BY Facts
<1>n. Next1 \in Nat /\ Next1 \notin Positions /\ \A x \in Positions : x \in Nat /\ x < Next1
  BY <1>t DEF Next1
<1>q. /\ Ascends(Carried) /\ Ascends(pending) /\ Below(Elems(Carried), Elems(pending))
      /\ Durable \cup Waiting = EventsAt /\ Durable \cap Waiting \subseteq uncertain
  BY DEF Queued
<1>h. heldOut # <<>> => Len(recorded) \notin Elems(pending) /\ Len(recorded) \notin Elems(Carried)
  BY DEF HeldLast
<1>e. Elems(<<>>) = {} /\ Ascends(<<>>) BY OneElem
<1>g. write' = NoWrite => Carried' = <<>> BY DEF Carried
<1>0. ASSUME UNCHANGED <<recorded, write, uncertain, Durable>>,
             UNCHANGED <<pending, heldOut>>
      PROVE  Queued'
  <2>1. UNCHANGED Carried BY <1>0 DEF Carried
  <2> QED BY <1>0, <1>q, <2>1, QueuedFrom DEF Waiting
<1>p. ASSUME UNCHANGED <<recorded, write, uncertain, Durable>>, pending' = pending \o heldOut, heldOut' = <<>>
      PROVE  Queued'
  <2>1. UNCHANGED Carried BY <1>p DEF Carried
  <2>2. Ascends(pending') /\ Elems(pending') = Elems(pending) \cup Elems(heldOut)
    BY <1>p, <1>t, <1>q, <1>h, PutBackElems
  <2>3. Below(Elems(Carried), Elems(pending'))
    <3>1. Below(Elems(Carried), Elems(heldOut)) BY HeldBehind
    <3> QED BY <1>q, <2>2, <3>1 DEF Below
  <2> QED BY <1>p, <1>q, <1>e, <2>1, <2>2, <2>3, QueuedFrom DEF Waiting
<1>2. CASE Recording BY <1>2, QueuedRecording
<1>3. CASE CallFlush \/ CleanupDone \/ SkipFinalFlush \/ UNCHANGED vars
  <2>1. UNCHANGED <<recorded, heldOut, pending, write, log, uncertain>>
    BY <1>3 DEF CallFlush, CleanupDone, SkipFinalFlush, vars, buffer, store, hist
  <2> QED BY <1>0, <2>1 DEF Durable, Elems
<1>f. CASE ForeignAppend
  <2>1. UNCHANGED <<recorded, heldOut, pending, write, uncertain>> /\ log' = Append(log, 0)
    BY <1>f DEF ForeignAppend, buffer, hist
  <2>2. log \in Seq(Nat) BY Facts
  <2>3. log' = log \o <<0>> BY <2>1, <2>2, OneElem
  <2>4. Elems(log') = Elems(log) \cup {0} BY <2>2, <2>3, OneElem, JoinElems
  <2>5. Durable' = Durable BY <2>4 DEF Durable
  <2> QED BY <1>0, <2>1, <2>5
<1>4. ASSUME NEW t \in Tasks, BeginSessionWrite(t) \/ SessionWrite(t)
      PROVE  Queued'
  <2>1. UNCHANGED <<recorded, heldOut, pending, write, log, uncertain>>
    BY <1>4 DEF BeginSessionWrite, SessionWrite, buffer, store, hist
  <2> QED BY <1>0, <2>1 DEF Durable, Elems
<1>5. ASSUME NEW t \in Tasks,
             (t = Loop /\ (Flush \/ FlushWithCheckpoint)) \/ FlushCheckpoint(t)
      PROVE  Queued'
  <2>0. write = NoWrite /\ Asks(t) BY <1>5, AskStep
  <2>1. ASSUME NEW n \in Nat, NEW c \in Positions \cup {0},
               NEW s \in TerminalStatus \cup {"running"}, Issue(t, n, c, s)
        PROVE  Queued'
    <3>1. UNCHANGED <<recorded, heldOut, log, uncertain>> BY <2>1, IssueStep DEF store, hist
    <3>2. /\ Ascends(Carried') /\ Ascends(pending') /\ Below(Elems(Carried'), Elems(pending'))
          /\ Elems(Carried') \cup Elems(pending') = Elems(pending) /\ Elems(Carried) = {}
      BY <2>0, <2>1, IssueElems
    <3>3. UNCHANGED <<Durable, Elems(heldOut)>> BY <3>1 DEF Durable, Elems
    <3>4. Waiting' = Waiting BY <3>2, <3>3 DEF Waiting
    <3> QED BY <3>1, <3>2, <3>3, <3>4, QueuedFrom
  <2>2. CASE t = Loop /\ pc[Loop] # "barrier" /\ Returned(pc[Loop]) /\ UNCHANGED <<write, store, hist>>
    <3>1. pc[Loop] \in FlushPoints \cup WithCheckpoint BY <2>0, <2>2 DEF Asks
    <3>2. UNCHANGED <<recorded, write, uncertain, Durable>>
      BY <2>2, <3>1, ReturnedStep DEF store, hist, Durable, Elems
    <3> QED BY <1>0, <1>p, <2>2, <3>1, <3>2, ReturnedStep
  <2>3. CASE UNCHANGED <<recorded, buffer, heldOut, write, need, store, hist>>
    BY <1>0, <2>3 DEF buffer, store, hist, Durable, Elems
  <2> QED BY <1>5, <2>1, <2>2, <2>3, AskStep
<1>6. CASE WriteSucceeds
  <2>1. /\ write # NoWrite /\ write' = NoWrite /\ Applied /\ uncertain' = uncertain
        /\ IF write.by = Loop /\ pc[Loop] # "barrier"
           THEN Returned(pc[Loop])
           ELSE UNCHANGED <<recorded, pending, heldOut>>
    BY <1>6, SucceedStep DEF hist
  <2>2. Durable' = Durable \cup Elems(Carried) BY <2>1, AppliedElems, Facts
  <2>3. Carried' = <<>> BY <1>g, <2>1
  <2>4. /\ UNCHANGED recorded
        /\ \/ UNCHANGED <<pending, heldOut>>
           \/ pending' = pending \o heldOut /\ heldOut' = <<>>
    <3>1. CASE write.by = Loop /\ pc[Loop] # "barrier"
      <4>1. pc[Loop] \in FlushPoints \cup WithCheckpoint BY <2>1, <3>1 DEF Holder
      <4> QED BY <2>1, <3>1, <4>1, ReturnedStep
    <3> QED BY <2>1, <3>1
  <2>5. Ascends(pending') /\ Waiting' = Elems(pending) \cup Elems(heldOut)
    <3>1. CASE UNCHANGED <<pending, heldOut>> BY <1>q, <1>e, <2>3, <3>1 DEF Waiting
    <3>2. CASE pending' = pending \o heldOut /\ heldOut' = <<>>
      <4>1. Ascends(pending') /\ Elems(pending') = Elems(pending) \cup Elems(heldOut)
        BY <3>2, <1>t, <1>q, <1>h, PutBackElems
      <4> QED BY <1>e, <2>3, <3>2, <4>1 DEF Waiting
    <3> QED BY <2>4, <3>1, <3>2
  <2>6. Below(Elems(Carried'), Elems(pending')) BY <1>e, <2>3 DEF Below
  <2> QED BY <1>e, <2>1, <2>2, <2>3, <2>4, <2>5, <2>6, QueuedFrom
<1>7. ASSUME NEW fault \in Faults, WriteFails(fault)
      PROVE  Queued'
  <2>1. /\ write # NoWrite /\ write' = NoWrite
        /\ \/ Applied /\ uncertain' = uncertain \cup ToSet(write.events)
           \/ UNCHANGED <<store, uncertain>>
    BY <1>7, FailStep
  <2>2. Carried = write.events /\ Elems(Carried) = ToSet(write.events)
    BY <2>1 DEF Carried, Elems, ToSet
  <2>3. \/ Durable' = Durable \cup Elems(Carried) /\ uncertain' = uncertain \cup Elems(Carried)
        \/ Durable' = Durable /\ uncertain' = uncertain
    <3>1. UNCHANGED store => UNCHANGED Durable BY DEF store, Durable, Elems
    <3> QED BY <2>1, <2>2, <3>1, AppliedElems
  <2>4. /\ write.events \o pending \in Seq(Nat) /\ Ascends(write.events \o pending)
        /\ Elems(write.events \o pending) = Elems(Carried) \cup Elems(pending)
    BY <2>1, RestoredElems
  <2>5. Carried' = <<>> /\ Below(Elems(Carried'), Elems(pending')) BY <1>e, <1>g, <2>1 DEF Below
  <2>6. CASE UNCHANGED <<recorded, heldOut>> /\ pending' = write.events \o pending
    <3>1. Waiting' = Waiting BY <1>e, <2>4, <2>5, <2>6 DEF Waiting
    <3> QED BY <1>e, <2>3, <2>4, <2>5, <2>6, <3>1, QueuedFrom
  <2>7. CASE /\ recorded' = recorded \o <<"result", "checkpoint">>
             /\ pending' = (write.events \o pending) \o heldOut \o <<Next1>>
             /\ heldOut' = <<>>
    <3>1. EventsAt' = EventsAt \cup {Next1} BY <1>t, <2>7, PairMore
    <3>2. /\ Ascends(pending')
          /\ Elems(pending') = Elems(Carried) \cup Elems(pending) \cup Elems(heldOut) \cup {Next1}
      BY <1>t, <1>h, <2>4, <2>7, RaiseElems
    <3>3. Waiting' = Waiting \cup {Next1} BY <1>e, <2>5, <2>7, <3>2 DEF Waiting
    <3>4. Next1 \notin Durable' BY <1>t, <1>n, <2>3
    <3>5. Durable' \cup Waiting' = EventsAt' BY <1>q, <2>3, <3>1, <3>3 DEF Waiting
    <3>6. Durable' \cap Waiting' \subseteq uncertain'
      BY <1>q, <2>3, <3>3, <3>4 DEF Waiting
    <3> QED BY <1>e, <2>5, <3>2, <3>5, <3>6 DEF Queued
  <2> QED BY <1>7, <2>6, <2>7, FailStep
<1>8. CASE Cancel
  <2>1. UNCHANGED recorded /\ heldOut' = <<>> BY <1>8, CancelStep
  <2>2. CASE ~ (write # NoWrite /\ write.by = Loop)
    <3>1. UNCHANGED <<write, store, uncertain>> /\ pending' = pending \o heldOut
      BY <1>8, <2>2, CancelStep
    <3> QED BY <1>p, <2>1, <3>1 DEF store, Durable, Elems
  <2>3. CASE write # NoWrite /\ write.by = Loop
    <3>1. /\ write' = NoWrite /\ pending' = (write.events \o pending) \o heldOut
          /\ \/ Applied /\ uncertain' = uncertain \cup ToSet(write.events)
             \/ UNCHANGED <<store, uncertain>>
      BY <1>8, <2>3, CancelStep
    <3>2. Carried = write.events /\ Elems(Carried) = ToSet(write.events)
      BY <2>3 DEF Carried, Elems, ToSet
    <3>3. \/ Durable' = Durable \cup Elems(Carried) /\ uncertain' = uncertain \cup Elems(Carried)
          \/ Durable' = Durable /\ uncertain' = uncertain
      <4>1. UNCHANGED store => UNCHANGED Durable BY DEF store, Durable, Elems
      <4> QED BY <2>3, <3>1, <3>2, <4>1, AppliedElems
    <3>4. /\ write.events \o pending \in Seq(Nat) /\ Ascends(write.events \o pending)
          /\ Elems(write.events \o pending) = Elems(Carried) \cup Elems(pending)
      BY <2>3, RestoredElems
    <3>5. Ascends(pending') /\ Elems(pending') = Elems(Carried) \cup Elems(pending) \cup Elems(heldOut)
      BY <1>t, <1>h, <3>1, <3>4, PutBackElems
    <3>6. Carried' = <<>> /\ Below(Elems(Carried'), Elems(pending')) BY <1>e, <1>g, <3>1 DEF Below
    <3>7. Waiting' = Waiting BY <1>e, <2>1, <3>5, <3>6 DEF Waiting
    <3> QED BY <1>e, <2>1, <3>3, <3>5, <3>6, <3>7, QueuedFrom
  <2> QED BY <2>2, <2>3
<1> QED BY <1>2, <1>3, <1>f, <1>4, <1>5, <1>6, <1>7, <1>8, TaskFacts, BufferCases

(* The log grows by events in order, of which those it has already count as *)
(* repeated.                                                                *)
LEMMA LogGrows ==
    ASSUME Typing, LogAscends, NEW e \in Seq(Nat), Ascends(e), log' = log \o e,
           uncertain \subseteq uncertain',
           \A y \in Elems(e) : y # 0 =>
              \/ y \in Durable /\ y \in uncertain'
              \/ y \notin Durable /\ \A x \in Durable : x < y
    PROVE  /\ LogAscends'
           /\ OwnAt \subseteq OwnAt' /\ \A j \in OwnAt : log'[j] = log[j]
           /\ Elems(e) \subseteq {0} => OwnAt' = OwnAt
<1>t. log \in Seq(Nat) BY Facts
<1>1. /\ log' \in Seq(Nat) /\ Len(log') = Len(log) + Len(e)
      /\ \A i \in 1..Len(log) : log'[i] = log[i]
      /\ \A i \in 1..Len(e) : log'[Len(log) + i] = e[i]
  BY <1>t, SeqJoin
<1> DEFINE L == Len(log)
           M == Len(e)
           u == log'
<1>2. /\ L \in Nat /\ M \in Nat /\ DOMAIN log = 1..L /\ DOMAIN e = 1..M /\ DOMAIN u = 1..(L + M)
      /\ Len(u) = L + M /\ Len(log) = L
  BY <1>1, <1>t
<1>3. /\ \A i \in 1..L : u[i] = log[i]
      /\ \A i \in 1..M : u[L + i] = e[i]
  BY <1>1
<1>l. log' = u OBVIOUS
<1> HIDE DEF L, M, u
<1>4. \A j \in 1..(L + M) : j \notin 1..L => j - L \in 1..M /\ j = L + (j - L) /\ u[j] = e[j - L]
  BY <1>2, <1>3
<1>5. \A j \in 1..L : j \in 1..(L + M) /\ \A i \in 1..(j - 1) : i \in 1..L BY <1>2
<1>6. \A i, j \in 1..L : i < j /\ log[i] = log[j] /\ log[i] # 0 => log[j] \in uncertain
  BY <1>2 DEF LogAscends
<1>7. \A j : j \in OwnAt <=> j \in 1..L /\ log[j] # 0 /\ ~ \E i \in 1..(j - 1) : log[j] \in uncertain /\ log[i] = log[j]
  BY <1>2 DEF OwnAt, Repeated
<1>8. \A j : j \in OwnAt' <=> j \in 1..(L + M) /\ u[j] # 0
                              /\ ~ \E i \in 1..(j - 1) : u[j] \in uncertain' /\ u[i] = u[j]
  BY <1>2, <1>l DEF OwnAt, Repeated
<1>a. ASSUME NEW j \in 1..(L + M), u[j] # 0, \A i \in 1..(j - 1) : u[i] # u[j]
      PROVE  j \in OwnAt'
  BY <1>8, <1>a
<1>b. ASSUME NEW j \in OwnAt', NEW i \in 1..(j - 1), u[i] = u[j]
      PROVE  u[j] \notin uncertain'
  BY <1>8, <1>b
<1>9. \A j \in 1..L : j \in OwnAt' <=> j \in OwnAt
  <2> SUFFICES ASSUME NEW j \in 1..L PROVE j \in OwnAt' <=> j \in OwnAt
    OBVIOUS
  <2>1. u[j] = log[j] /\ \A i \in 1..(j - 1) : u[i] = log[i] /\ i < j /\ i \in 1..L
    BY <1>2, <1>3, <1>5
  <2>2. \A i \in 1..(j - 1) : log[i] = log[j] /\ log[j] # 0 => log[j] \in uncertain BY <1>6, <2>1
  <2> QED BY <1>5, <1>7, <1>8, <2>1, <2>2
<1>10. \A y : y \in Durable <=> y # 0 /\ \E i \in 1..L : log[i] = y BY <1>2 DEF Durable, Elems
<1>11. \A y : y \in Durable' <=> y # 0 /\ \E i \in 1..(L + M) : u[i] = y
  BY <1>2, <1>l DEF Durable, Elems
<1>12. \A k \in 1..M : e[k] \in Elems(e) /\ e[k] \in Nat
  <2>1. \A k \in 1..M : e[k] \in Nat BY DEF M
  <2> QED BY <1>2, <2>1 DEF Elems
<1>13. \A k, m \in 1..M : k < m => e[k] < e[m] BY <1>2 DEF Ascends
<1>14. ASSUME NEW k \in 1..M, e[k] # 0, e[k] \notin Durable
       PROVE  L + k \in OwnAt' /\ \A x \in Durable : x < e[k]
  <2>1. u[L + k] = e[k] /\ L + k \in 1..(L + M) BY <1>2, <1>3
  <2>2. ASSUME NEW i \in 1..((L + k) - 1), u[i] = e[k] PROVE FALSE
    <3>1. CASE i \in 1..L BY <1>3, <1>10, <1>14, <2>2, <3>1
    <3>2. CASE i \notin 1..L
      <4>1. i \in 1..(L + M) /\ i - L < k BY <1>2, <3>2
      <4>2. u[i] = e[i - L] /\ i - L \in 1..M BY <1>4, <3>2, <4>1
      <4>3. e[i - L] < e[k] BY <1>13, <4>1, <4>2
      <4> QED BY <1>12, <2>2, <4>2, <4>3
    <3> QED BY <3>1, <3>2
  <2>4. L + k \in OwnAt'
    <3>1. PICK j : j = L + k OBVIOUS
    <3>2. \A i \in 1..(j - 1) : u[i] # u[j] BY <2>1, <2>2, <3>1
    <3>3. j \in 1..(L + M) /\ u[j] # 0 BY <1>14, <2>1, <3>1
    <3>4. j \in OwnAt' BY <1>a, <3>2, <3>3
    <3> QED BY <3>1, <3>4
  <2>5. \A x \in Durable : x < e[k] BY <1>12, <1>14
  <2> QED BY <2>4, <2>5
<1>15. ASSUME NEW k \in 1..M, L + k \in OwnAt'
       PROVE  e[k] # 0 /\ e[k] \notin Durable
  <2>1. u[L + k] = e[k] /\ L + k \in 1..(L + M) BY <1>2, <1>3
  <2>2. e[k] # 0 BY <1>8, <1>15, <2>1
  <2>3. ASSUME e[k] \in Durable PROVE FALSE
    <3>1. PICK i \in 1..L : log[i] = e[k] BY <1>10, <2>3
    <3>2. i \in 1..((L + k) - 1) /\ u[i] = e[k] BY <1>2, <1>3, <3>1
    <3>3. e[k] \in uncertain' BY <1>12, <2>2, <2>3
    <3>4. PICK j : j = L + k OBVIOUS
    <3>5. j \in OwnAt' /\ i \in 1..(j - 1) /\ u[i] = u[j] BY <1>15, <2>1, <3>2, <3>4
    <3>6. u[j] \notin uncertain' BY <1>b, <3>5
    <3> QED BY <2>1, <3>3, <3>4, <3>6
  <2> QED BY <2>2, <2>3
<1>16. ASSUME NEW i \in 1..(L + M), NEW j \in 1..(L + M), i < j, u[i] = u[j], u[i] # 0
       PROVE  u[j] \in uncertain'
  <2>1. CASE j \in 1..L
    <3>1. i \in 1..L BY <1>2, <1>16, <2>1
    <3> QED BY <1>3, <1>6, <1>16, <2>1, <3>1
  <2>2. CASE j \notin 1..L
    <3>1. j - L \in 1..M /\ u[j] = e[j - L] BY <1>4, <2>2
    <3>2. CASE i \in 1..L
      <4>1. e[j - L] \in Durable BY <1>3, <1>10, <1>16, <3>1, <3>2
      <4> QED BY <1>12, <1>16, <3>1, <4>1
    <3>3. CASE i \notin 1..L
      <4>1. i - L \in 1..M /\ u[i] = e[i - L] BY <1>4, <3>3
      <4>2. i - L < j - L BY <1>2, <1>16
      <4>3. e[i - L] < e[j - L] BY <1>13, <3>1, <4>1, <4>2
      <4> QED BY <1>12, <1>16, <3>1, <4>1, <4>3
    <3> QED BY <3>2, <3>3
  <2> QED BY <2>1, <2>2
<1>17. ASSUME NEW i \in OwnAt', NEW j \in OwnAt', i < j
       PROVE  u[i] < u[j]
  <2>0. i \in 1..(L + M) /\ j \in 1..(L + M) /\ u[i] # 0 BY <1>8
  <2>1. CASE j \in 1..L
    <3>1. i \in 1..L BY <1>2, <1>17, <2>0, <2>1
    <3>2. log[i] < log[j] BY <1>9, <1>17, <2>1, <3>1 DEF LogAscends
    <3> QED BY <1>3, <2>1, <3>1, <3>2
  <2>2. CASE j \notin 1..L
    <3>1. j - L \in 1..M /\ u[j] = e[j - L] /\ j = L + (j - L) BY <1>4, <2>0, <2>2
    <3>2. e[j - L] # 0 /\ e[j - L] \notin Durable BY <1>15, <3>1
    <3>3. CASE i \in 1..L
      <4>1. u[i] \in Durable BY <1>3, <1>10, <2>0, <3>3
      <4> QED BY <1>14, <3>1, <3>2, <4>1
    <3>4. CASE i \notin 1..L
      <4>1. i - L \in 1..M /\ u[i] = e[i - L] BY <1>4, <2>0, <3>4
      <4>2. i - L < j - L BY <1>2, <1>17, <2>0
      <4> QED BY <1>13, <3>1, <4>1, <4>2
    <3> QED BY <3>3, <3>4
  <2> QED BY <2>1, <2>2
<1>18. ASSUME NEW y \in Durable' PROVE \E j \in OwnAt' : u[j] = y
  <2>1. CASE y \in Durable
    <3>1. PICK j \in OwnAt : log[j] = y BY <2>1 DEF LogAscends
    <3>2. j \in 1..L BY <1>7
    <3> QED BY <1>3, <1>9, <3>1, <3>2
  <2>2. CASE y \notin Durable
    <3>1. PICK i \in 1..(L + M) : u[i] = y BY <1>11, <1>18
    <3>2. y # 0 BY <1>11, <1>18
    <3>3. i \notin 1..L BY <1>3, <1>10, <2>2, <3>1, <3>2
    <3>4. i - L \in 1..M /\ i = L + (i - L) /\ e[i - L] = y BY <1>4, <3>1, <3>3
    <3> QED BY <1>14, <2>2, <3>1, <3>2, <3>4
  <2> QED BY <2>1, <2>2
<1>19. \A j \in OwnAt' : u[j] \in Durable' BY <1>8, <1>11
<1>20. Durable' = {u[j] : j \in OwnAt'} BY <1>18, <1>19
<1>21. LogAscends' BY <1>2, <1>l, <1>16, <1>17, <1>20 DEF LogAscends
<1>22. OwnAt \subseteq OwnAt' /\ \A j \in OwnAt : u[j] = log[j] BY <1>3, <1>7, <1>9
<1>23. ASSUME Elems(e) \subseteq {0} PROVE OwnAt' = OwnAt
  <2>1. ASSUME NEW j \in OwnAt' PROVE j \in OwnAt
    <3>1. j \in 1..(L + M) BY <1>8
    <3>2. CASE j \notin 1..L
      <4>1. j - L \in 1..M /\ j = L + (j - L) BY <1>4, <3>1, <3>2
      <4>2. e[j - L] # 0 BY <1>15, <4>1
      <4> QED BY <1>12, <1>23, <4>1, <4>2
    <3> QED BY <1>9, <3>1, <3>2
  <2> QED BY <1>22, <2>1
<1> QED BY <1>l, <1>21, <1>22, <1>23

(* What a step does to the program order and to the store.                  *)
Grows == \E kind \in Kinds : \/ recorded' = Append(recorded, kind)
                             \/ recorded' = recorded \o <<"result", kind>>

LEMMA StoreCases ==
    ASSUME Typing, Holder, [Next]_vars
    PROVE  \/ (Grows \/ UNCHANGED recorded) /\ UNCHANGED <<log, ckpt, uncertain>>
           \/ log' = log \o <<0>> /\ UNCHANGED <<recorded, ckpt, uncertain>>
           \/ /\ write # NoWrite /\ Applied /\ UNCHANGED recorded
              /\ uncertain' = uncertain \/ uncertain' = uncertain \cup Elems(write.events)
<1>k. "event" \in Kinds /\ "result" \in Kinds /\ "checkpoint" \in Kinds BY DEF Kinds
<1>1. CASE Recording
  <2>1. UNCHANGED <<log, ckpt, uncertain>> BY <1>1, RecordingStep DEF store, hist
  <2>2. Grows
    BY <1>1, <1>k
       DEF Recording, Grows, RecordEvent, DeferCheckpoint, SaveThrough, RecordSuccess, RecordAbort,
           RunFails, Raise, RecordTerminal, CallComplete
  <2> QED BY <2>1, <2>2
<1>2. CASE CallFlush \/ CleanupDone \/ SkipFinalFlush \/ UNCHANGED vars
  BY <1>2 DEF CallFlush, CleanupDone, SkipFinalFlush, vars, store, hist
<1>3. CASE ForeignAppend
  <2>1. log \in Seq(Nat) BY Facts
  <2> QED BY <1>3, <2>1, OneElem DEF ForeignAppend, hist
<1>4. ASSUME NEW t \in Tasks, BeginSessionWrite(t) \/ SessionWrite(t)
      PROVE  UNCHANGED <<recorded, log, ckpt, uncertain>>
  BY <1>4 DEF BeginSessionWrite, SessionWrite, store, hist
<1>5. ASSUME NEW t \in Tasks,
             (t = Loop /\ (Flush \/ FlushWithCheckpoint)) \/ FlushCheckpoint(t)
      PROVE  UNCHANGED <<recorded, log, ckpt, uncertain>>
  <2>0. Asks(t) BY <1>5, AskStep
  <2>1. ASSUME NEW n \in Nat, NEW c \in Positions \cup {0},
               NEW s \in TerminalStatus \cup {"running"}, Issue(t, n, c, s)
        PROVE  UNCHANGED <<recorded, log, ckpt, uncertain>>
    BY <2>1, IssueStep DEF store, hist
  <2>2. CASE t = Loop /\ pc[t] # "barrier" /\ Returned(pc[Loop]) /\ UNCHANGED <<store, hist>>
    <3>1. pc[Loop] \in FlushPoints \cup WithCheckpoint BY <2>0, <2>2 DEF Asks
    <3> QED BY <2>2, <3>1, ReturnedStep DEF store, hist
  <2>3. CASE UNCHANGED <<recorded, store, hist>> BY <2>3 DEF store, hist
  <2> QED BY <1>5, <2>1, <2>2, <2>3, AskStep
<1>6. CASE WriteSucceeds
  <2>1. /\ write # NoWrite /\ Applied /\ uncertain' = uncertain
        /\ IF write.by = Loop /\ pc[Loop] # "barrier" THEN Returned(pc[Loop]) ELSE UNCHANGED recorded
    BY <1>6, SucceedStep DEF hist
  <2>2. UNCHANGED recorded
    <3>1. CASE write.by = Loop /\ pc[Loop] # "barrier"
      <4>1. pc[Loop] \in FlushPoints \cup WithCheckpoint BY <2>1, <3>1 DEF Holder
      <4> QED BY <2>1, <3>1, <4>1, ReturnedStep
    <3> QED BY <2>1, <3>1
  <2> QED BY <2>1, <2>2
<1>e. write # NoWrite => Elems(write.events) = ToSet(write.events) BY DEF Elems, ToSet
<1>7. ASSUME NEW fault \in Faults, WriteFails(fault)
      PROVE  \/ (Grows \/ UNCHANGED recorded) /\ UNCHANGED <<log, ckpt, uncertain>>
             \/ /\ write # NoWrite /\ Applied /\ UNCHANGED recorded
                /\ uncertain' = uncertain \cup Elems(write.events)
  <2>1. write # NoWrite BY <1>7, FailStep
  <2>2. Grows \/ UNCHANGED recorded BY <1>7, <1>k, FailStep DEF Grows
  <2>3. CASE UNCHANGED <<store, uncertain>> BY <2>2, <2>3 DEF store
  <2>4. CASE fault = "unavailable" /\ Applied /\ uncertain' = uncertain \cup ToSet(write.events)
    <3>1. UNCHANGED recorded BY <1>7, <2>4, FailStep
    <3> QED BY <1>e, <2>1, <2>4, <3>1
  <2> QED BY <1>7, <2>3, <2>4, FailStep
<1>8. CASE Cancel
  <2>1. UNCHANGED recorded BY <1>8, CancelStep
  <2>2. CASE write # NoWrite /\ write.by = Loop
    BY <1>8, <1>e, <2>1, <2>2, CancelStep DEF store
  <2>3. CASE ~ (write # NoWrite /\ write.by = Loop)
    BY <1>8, <2>1, <2>3, CancelStep DEF store
  <2> QED BY <2>2, <2>3
<1> QED BY <1>1, <1>2, <1>3, <1>4, <1>5, <1>6, <1>7, <1>8, TaskFacts, BufferCases

(* A prefix stays one when the program order grows.                         *)
LEMMA Longer ==
    ASSUME Typing, Grows \/ UNCHANGED recorded
    PROVE  /\ Len(recorded') \in Nat /\ Len(recorded) <= Len(recorded')
           /\ \A i \in 1..Len(recorded) : recorded'[i] = recorded[i]
<1>t. recorded \in Seq(Kinds) /\ Len(recorded) \in Nat BY Facts
<1>1. ASSUME NEW kind \in Kinds,
             recorded' = Append(recorded, kind) \/ recorded' = recorded \o <<"result", kind>>
      PROVE  /\ Len(recorded') \in Nat /\ Len(recorded) <= Len(recorded')
             /\ \A i \in 1..Len(recorded) : recorded'[i] = recorded[i]
  <2>1. CASE recorded' = Append(recorded, kind) BY <1>t, <2>1
  <2>2. CASE recorded' = recorded \o <<"result", kind>>
    <3> DEFINE both == <<"result", kind>>
    <3>1. both \in Seq(Kinds) /\ Len(both) = 2 BY DEF Kinds
    <3>2. recorded' = recorded \o both BY <2>2
    <3> HIDE DEF both
    <3> QED BY <1>t, <3>1, <3>2
  <2> QED BY <1>1, <2>1, <2>2
<1>2. CASE UNCHANGED recorded BY <1>2, <1>t
<1>3. CASE Grows
  <2>1. PICK kind \in Kinds : recorded' = Append(recorded, kind) \/ recorded' = recorded \o <<"result", kind>>
    BY <1>3 DEF Grows
  <2> QED BY <1>1, <2>1
<1> QED BY <1>2, <1>3

LEMMA CommitsStay ==
    ASSUME Typing, Grows \/ UNCHANGED recorded, NEW n \in 0..Len(recorded), NEW D, NEW c, Commits(n, D, c)
    PROVE  n \in 0..Len(recorded') /\ Commits(n, D, c)'
<1>1. Len(recorded) \in Nat BY Facts
<1>2. Len(recorded') \in Nat /\ Len(recorded) <= Len(recorded')
      /\ \A i \in 1..n : recorded'[i] = recorded[i]
  BY <1>1, Longer
<1> QED BY <1>1, <1>2 DEF Commits

LEMMA CommittedStep ==
    ASSUME Typing, Holder, Committed, WriteCommits, [Next]_vars
    PROVE  Committed'
<1>1. CASE (Grows \/ UNCHANGED recorded) /\ UNCHANGED <<log, ckpt, uncertain>>
  <2>1. PICK n \in 0..Len(recorded) : Commits(n, Durable, ckpt) BY DEF Committed
  <2>2. UNCHANGED <<Durable, ckpt>> BY <1>1 DEF Durable, Elems
  <2>3. n \in 0..Len(recorded') /\ Commits(n, Durable, ckpt)'
    BY <1>1, <2>1, <2>2, CommitsStay DEF Commits
  <2> QED BY <2>3 DEF Committed
<1>2. CASE log' = log \o <<0>> /\ UNCHANGED <<recorded, ckpt, uncertain>>
  <2>1. PICK n \in 0..Len(recorded) : Commits(n, Durable, ckpt) BY DEF Committed
  <2>2. log \in Seq(Nat) BY Facts
  <2>3. Elems(log') = Elems(log) \cup {0} BY <1>2, <2>2, OneElem, JoinElems
  <2>4. Durable' = Durable BY <2>3 DEF Durable
  <2> QED BY <1>2, <2>1, <2>4 DEF Committed, Commits
<1>3. CASE write # NoWrite /\ Applied /\ UNCHANGED recorded
  <2>1. Durable' = Durable \cup Elems(write.events) BY <1>3, AppliedElems
  <2>2. ckpt' = IF write.ckpt = 0 THEN ckpt ELSE write.ckpt BY <1>3 DEF Applied
  <2>3. PICK n \in 0..Len(recorded) :
             Commits(n, Durable \cup Elems(write.events), IF write.ckpt = 0 THEN ckpt ELSE write.ckpt)
    BY <1>3 DEF WriteCommits
  <2> QED BY <1>3, <2>1, <2>2, <2>3 DEF Committed, Commits
<1> QED BY <1>1, <1>2, <1>3, StoreCases

LEMMA LogAscendsStep ==
    ASSUME Typing, Holder, Queued, Committed, LogAscends, [Next]_vars
    PROVE  /\ LogAscends'
           /\ OwnAt \subseteq OwnAt' /\ \A j \in OwnAt : log'[j] = log[j]
           /\ write = NoWrite \/ ~ Applied => OwnAt' = OwnAt
<1>1. CASE UNCHANGED <<log, uncertain>>
  <2>1. OwnAt' = OwnAt BY <1>1 DEF OwnAt, Repeated
  <2>2. Durable' = Durable BY <1>1 DEF Durable, Elems
  <2>3. LogAscends' BY <1>1, <2>1, <2>2 DEF LogAscends
  <2> QED BY <1>1, <2>1, <2>3
<1>2. CASE log' = log \o <<0>> /\ UNCHANGED uncertain
  <2>1. <<0>> \in Seq(Nat) /\ Elems(<<0>>) = {0} /\ Ascends(<<0>>) BY OneElem
  <2> QED BY <1>2, <2>1, LogGrows
<1>3. CASE /\ write # NoWrite /\ Applied
           /\ uncertain' = uncertain \/ uncertain' = uncertain \cup Elems(write.events)
  <2>1. Carried = write.events /\ Carried \in Seq(Nat) /\ Elems(Carried) \subseteq Positions
    BY <1>3, Facts
  <2>2. Ascends(Carried) /\ log' = log \o Carried /\ uncertain \subseteq uncertain'
    BY <1>3, <2>1 DEF Queued, Applied
  <2>3. ASSUME NEW y \in Elems(Carried)
        PROVE  \/ y \in Durable /\ y \in uncertain'
               \/ y \notin Durable /\ \A x \in Durable : x < y
    <3>1. y \in Durable => y \in uncertain BY DEF Queued, Waiting
    <3>2. y \in EventsAt BY DEF Queued, Waiting
    <3>3. PICK n \in 0..Len(recorded) : Commits(n, Durable, ckpt) BY DEF Committed
    <3>4. Len(recorded) \in Nat BY Facts
    <3>5. ASSUME y \notin Durable PROVE \A x \in Durable : x < y
      BY <3>2, <3>3, <3>4, <3>5 DEF Commits, EventsAt, Positions
    <3> QED BY <2>2, <3>1, <3>5
  <2>4. LogAscends' /\ OwnAt \subseteq OwnAt' /\ \A j \in OwnAt : log'[j] = log[j]
    BY <2>1, <2>2, <2>3, LogGrows
  <2> QED BY <1>3, <2>4
<1> QED BY <1>1, <1>2, <1>3, StoreCases

(* The newest checkpoint.                                                   *)
LEMMA NewestStep ==
    ASSUME Typing, Holder, SaveFinds, WriteCommits, HeldLast, Newest, [Next]_vars
    PROVE  Newest'
<1>t. /\ Len(recorded) \in Nat /\ Positions = 1..Len(recorded) /\ recorded \in Seq(Kinds)
      /\ dirty \in Positions \cup {0} /\ ckpt \in Positions \cup {0} /\ failed \in BOOLEAN
      /\ pc \in [Tasks -> Places \cup {"idle"}] /\ Loop \in Tasks
  BY Facts
<1>n. Next1 \in Nat /\ \A x \in Positions : x \in Nat /\ x < Next1 /\ x <= Len(recorded)
  BY <1>t DEF Next1
<1>c. CheckpointsAt \subseteq Positions BY DEF CheckpointsAt
<1>u. Unhanded = {"save", "complete", "abort", "fail", "final", "ended"}
  BY DEF Unhanded, WithCheckpoint, Late
<1>d. /\ dirty \in CheckpointsAt \cup {0} /\ ckpt \in CheckpointsAt \cup {0}
      /\ ~ failed => \A k \in CheckpointsAt :
            \/ k <= IF dirty # 0 THEN dirty ELSE ckpt
            \/ k = Len(recorded) /\ pc[Loop] \in Unhanded
  BY DEF Newest
<1>0. ASSUME UNCHANGED <<recorded, dirty, ckpt>>, failed' = failed,
             pc[Loop] \in Unhanded => pc'[Loop] \in Unhanded
      PROVE  Newest'
  BY <1>0, <1>d DEF Newest, CheckpointsAt, Positions
<1>f. ASSUME UNCHANGED recorded, dirty' \in CheckpointsAt \cup {0}, ckpt' \in CheckpointsAt \cup {0}, failed'
      PROVE  Newest'
  BY <1>f DEF Newest, CheckpointsAt, Positions
<1>2. CASE Recording
  <2>u. UNCHANGED <<ckpt, failed>> BY <1>2, RecordingStep DEF store
  <2>p. pc[Loop] \notin Unhanded
    BY <1>2, <1>u
       DEF Recording, RecordEvent, DeferCheckpoint, SaveThrough, RecordSuccess, RecordAbort,
           RunFails, CallComplete
  <2>k. "event" \in Kinds /\ "result" \in Kinds /\ "checkpoint" \in Kinds BY DEF Kinds
  <2>1. CASE RecordEvent \/ RecordSuccess
    <3>1. /\ UNCHANGED dirty
          /\ recorded' = Append(recorded, "event") \/ recorded' = Append(recorded, "result")
      BY <2>1 DEF RecordEvent, RecordSuccess, buffer
    <3>2. CheckpointsAt' = CheckpointsAt BY <1>t, <2>k, <3>1, OneMore
    <3> QED BY <1>d, <2>u, <2>p, <3>1, <3>2 DEF Newest
  <2>2. CASE DeferCheckpoint
    <3>1. dirty' = Next1 /\ recorded' = Append(recorded, "checkpoint") BY <2>2 DEF DeferCheckpoint
    <3>2. CheckpointsAt' = CheckpointsAt \cup {Next1} BY <1>t, <2>k, <3>1, OneMore
    <3>3. Next1 # 0 /\ Next1 <= Next1 /\ \A k \in CheckpointsAt : k <= Next1 BY <1>n, <1>c, <1>t DEF Next1
    <3> QED BY <1>d, <2>u, <3>1, <3>2, <3>3 DEF Newest
  <2>3. CASE SaveThrough \/ CallComplete
    <3>1. dirty' = dirty /\ recorded' = Append(recorded, "checkpoint") /\ pc'[Loop] \in Unhanded
      BY <1>t, <1>u, <2>3 DEF SaveThrough, CallComplete, buffer, Go
    <3>2. CheckpointsAt' = CheckpointsAt \cup {Next1} /\ Len(recorded') = Next1
      BY <1>t, <2>k, <3>1, OneMore
    <3> QED BY <1>d, <2>u, <2>p, <3>1, <3>2 DEF Newest
  <2>4. CASE RecordAbort \/ RunFails
    <3>1. /\ dirty' = dirty /\ recorded' = recorded \o <<"result", "checkpoint">>
          /\ pc'[Loop] \in Unhanded
      BY <1>t, <1>u, <2>4 DEF RecordAbort, RunFails, Raise, RecordTerminal, Go
    <3>2. CheckpointsAt' = CheckpointsAt \cup {Next1 + 1} /\ Len(recorded') = Next1 + 1
      BY <1>t, <3>1, PairMore
    <3> QED BY <1>d, <2>u, <2>p, <3>1, <3>2 DEF Newest
  <2> QED BY <1>2, <2>1, <2>2, <2>3, <2>4 DEF Recording
<1>3. CASE CallFlush \/ CleanupDone \/ SkipFinalFlush \/ ForeignAppend \/ UNCHANGED vars
  <2>1. UNCHANGED <<recorded, dirty, ckpt, failed>>
    BY <1>3 DEF CallFlush, CleanupDone, SkipFinalFlush, ForeignAppend, vars, buffer, store
  <2>2. pc[Loop] \in Unhanded => pc'[Loop] \in Unhanded
    BY <1>3, <1>t, <1>u DEF CallFlush, CleanupDone, SkipFinalFlush, ForeignAppend, vars, Go
  <2> QED BY <1>0, <2>1, <2>2
<1>4. ASSUME NEW t \in Tasks, BeginSessionWrite(t) \/ SessionWrite(t)
      PROVE  Newest'
  <2>1. UNCHANGED <<recorded, dirty, ckpt, failed>>
    BY <1>4 DEF BeginSessionWrite, SessionWrite, buffer, store
  <2>2. pc'[Loop] = pc[Loop] \/ pc[Loop] \in {"running", "session"}
    BY <1>4, <1>t DEF BeginSessionWrite, SessionWrite, Go
  <2> QED BY <1>0, <1>u, <2>1, <2>2
<1>5. ASSUME NEW t \in Tasks,
             (t = Loop /\ (Flush \/ FlushWithCheckpoint)) \/ FlushCheckpoint(t)
      PROVE  Newest'
  <2>0. write = NoWrite /\ Asks(t) BY <1>5, AskStep
  <2>1. ASSUME NEW n \in Nat, NEW c \in Positions \cup {0},
               NEW s \in TerminalStatus \cup {"running"}, Issue(t, n, c, s)
        PROVE  Newest'
    <3>1. UNCHANGED <<recorded, dirty, ckpt, failed, pc>> BY <2>1, IssueStep DEF store
    <3> QED BY <1>0, <3>1
  <2>2. CASE /\ t = Loop /\ pc[t] \notin Terminal /\ pc[t] # "barrier" /\ Returned(pc[Loop])
             /\ pc[t] = "save" => dirty = 0 /\ pending = <<>>
             /\ UNCHANGED <<dirty, failed, store>>
    <3>1. pc[Loop] \in FlushPoints \cup WithCheckpoint BY <2>0, <2>2 DEF Asks
    <3>2. UNCHANGED <<recorded, dirty, failed, ckpt>> BY <2>2, <3>1, ReturnedStep DEF store
    <3>3. pc[Loop] # "save" BY <2>0, <2>2 DEF SaveFinds
    <3>4. pc[Loop] \in FlushPoints BY <2>2, <3>1, <3>3 DEF WithCheckpoint, Terminal
    <3>5. pc[Loop] = "final" => pc'[Loop] = "ended" BY <2>2, <3>1, ReturnedStep
    <3> QED BY <1>0, <1>u, <3>2, <3>4, <3>5 DEF FlushPoints
  <2>3. CASE /\ pc[t] = "barrier" /\ pc' = [pc EXCEPT ![t] = "session"]
             /\ UNCHANGED <<recorded, buffer, store>>
    <3>1. pc'[Loop] = pc[Loop] \/ pc[Loop] = "barrier" BY <1>t, <2>3
    <3> QED BY <1>0, <1>u, <2>3, <3>1 DEF buffer, store
  <2> QED BY <1>5, <2>1, <2>2, <2>3, AskStep
<1>6. CASE WriteSucceeds
  <2>1. /\ write # NoWrite
        /\ ckpt' = IF write.ckpt = 0 THEN ckpt ELSE write.ckpt
        /\ write.ckpt = 0 => UNCHANGED <<dirty, failed>>
        /\ write.ckpt # 0 => /\ failed' = FALSE
                             /\ dirty' = IF dirty = write.held THEN 0 ELSE dirty
        /\ IF write.by = Loop /\ pc[Loop] # "barrier"
           THEN Returned(pc[Loop])
           ELSE pc' = [pc EXCEPT ![write.by] = "session"] /\ pc[write.by] = "barrier" /\ UNCHANGED recorded
    BY <1>6, SucceedStep DEF Applied
  <2>2. UNCHANGED recorded /\ (write.by = Loop /\ pc[Loop] # "barrier" => pc[Loop] \in FlushPoints \cup WithCheckpoint)
    <3>1. CASE write.by = Loop /\ pc[Loop] # "barrier"
      <4>1. pc[Loop] \in FlushPoints \cup WithCheckpoint BY <2>1, <3>1 DEF Holder
      <4> QED BY <2>1, <3>1, <4>1, ReturnedStep
    <3> QED BY <2>1, <3>1
  <2>3. pc[Loop] \in Unhanded /\ (write.by = Loop => pc[Loop] \notin WithCheckpoint) => pc'[Loop] \in Unhanded
    <3>1. CASE write.by = Loop /\ pc[Loop] # "barrier"
      <4>1. pc[Loop] = "final" => pc'[Loop] = "ended" BY <2>1, <2>2, <3>1, ReturnedStep
      <4> QED BY <1>u, <2>2, <3>1, <4>1 DEF FlushPoints
    <3>2. CASE ~ (write.by = Loop /\ pc[Loop] # "barrier")
      <4>1. pc'[Loop] = pc[Loop] \/ pc[Loop] = "barrier" BY <1>t, <2>1, <3>2
      <4> QED BY <1>u, <4>1
    <3> QED BY <3>1, <3>2
  <2>w. /\ write.ckpt # 0 => ckpt <= write.ckpt
        /\ failed => write.by = Loop /\ pc[Loop] \in WithCheckpoint
        /\ write.by = Loop /\ pc[Loop] \in WithCheckpoint => write.ckpt = Len(recorded)
    BY <2>1 DEF WriteCommits
  <2>h. /\ write.by = Loop => dirty = write.held
        /\ ~ (write.by = Loop /\ pc[Loop] \in WithCheckpoint) => write.ckpt = write.held
        /\ write.ckpt = 0 => write.by = Loop /\ pc[Loop] \in FlushPoints
    BY <2>1 DEF Holder
  <2>c. write.ckpt \in Positions \cup {0} /\ write.ckpt \in Nat BY <2>1, WriteParts
  <2>4. CASE write.ckpt = 0
    <3>1. pc[Loop] \notin WithCheckpoint BY <2>h, <2>4 DEF FlushPoints, WithCheckpoint
    <3> QED BY <1>0, <2>1, <2>2, <2>3, <2>4, <3>1
  <2>5. CASE write.ckpt # 0 /\ write.by = Loop /\ pc[Loop] \in WithCheckpoint
    <3>1. dirty' = 0 /\ ckpt' = Len(recorded) BY <2>1, <2>5, <2>w, <2>h
    <3>2. Len(recorded) \in CheckpointsAt
      <4>1. Len(recorded) \in Positions BY <2>c, <2>5, <2>w
      <4>2. recorded[Len(recorded)] = "checkpoint" BY <2>5 DEF Typing
      <4> QED BY <4>1, <4>2 DEF CheckpointsAt
    <3>3. CheckpointsAt' = CheckpointsAt BY <2>2 DEF CheckpointsAt, Positions
    <3>4. \A k \in CheckpointsAt : k <= ckpt' BY <1>c, <1>n, <3>1
    <3> QED BY <3>1, <3>2, <3>3, <3>4 DEF Newest
  <2>6. CASE write.ckpt # 0 /\ ~ (write.by = Loop /\ pc[Loop] \in WithCheckpoint)
    <3>1. ~ failed /\ write.ckpt = write.held BY <2>6, <2>w, <2>h
    <3>2. CheckpointsAt' = CheckpointsAt BY <2>2 DEF CheckpointsAt, Positions
    <3>3. ckpt' = write.ckpt BY <2>1, <2>6
    <3>4. \E n \in 0..Len(recorded) : Commits(n, Durable \cup Elems(write.events), write.ckpt)
      BY <2>1, <2>6 DEF WriteCommits
    <3>5. write.ckpt \in CheckpointsAt
      BY <2>6, <2>c, <3>4 DEF Commits, CheckpointsAt
    <3>6. \A k \in CheckpointsAt : \/ k <= IF dirty' # 0 THEN dirty' ELSE ckpt'
                                   \/ k = Len(recorded) /\ pc'[Loop] \in Unhanded
      <4>1. CASE dirty = write.held BY <1>d, <2>1, <2>3, <2>6, <3>1, <3>3, <4>1
      <4>2. CASE dirty # write.held
        <5>1. dirty' = dirty BY <2>1, <2>6, <4>2
        <5>2. \A k \in CheckpointsAt : k <= ckpt => k <= ckpt' BY <1>c, <1>n, <1>t, <2>c, <2>w, <2>6, <3>3
        <5> QED BY <1>d, <2>3, <2>6, <3>1, <5>1, <5>2
      <4> QED BY <4>1, <4>2
    <3>7. dirty' \in CheckpointsAt \cup {0} BY <1>d, <2>1, <2>6
    <3> QED BY <2>2, <3>2, <3>3, <3>5, <3>6, <3>7 DEF Newest
  <2> QED BY <2>4, <2>5, <2>6
<1>7. ASSUME write # NoWrite, UNCHANGED dirty,
             ckpt' = ckpt \/ (Applied /\ UNCHANGED recorded),
             failed' = (failed \/ write.ckpt # 0),
             \/ UNCHANGED recorded /\ (pc[Loop] \in Unhanded => pc'[Loop] \in Unhanded)
             \/ recorded' = recorded \o <<"result", "checkpoint">> /\ pc'[Loop] \in Unhanded /\ pc[Loop] # "final"
      PROVE  Newest'
  <2>1. CASE UNCHANGED recorded /\ (pc[Loop] \in Unhanded => pc'[Loop] \in Unhanded)
    <3>1. CASE write.ckpt = 0
      <4>1. ckpt' = ckpt /\ failed' = failed BY <1>7, <1>t, <3>1 DEF Applied
      <4> QED BY <1>0, <1>7, <2>1, <4>1
    <3>2. CASE write.ckpt # 0
      <4>1. write.ckpt \in CheckpointsAt
        <5>1. \E n \in 0..Len(recorded) : Commits(n, Durable \cup Elems(write.events), write.ckpt)
          BY <1>7, <3>2 DEF WriteCommits
        <5> QED BY <1>7, <3>2, <5>1, WriteParts DEF Commits, CheckpointsAt
      <4>2. ckpt' \in {ckpt, write.ckpt} BY <1>7, <3>2 DEF Applied
      <4> QED BY <1>f, <1>d, <1>7, <2>1, <3>2, <4>1, <4>2
    <3> QED BY <3>1, <3>2
  <2>2. CASE recorded' = recorded \o <<"result", "checkpoint">> /\ pc'[Loop] \in Unhanded /\ pc[Loop] # "final"
    <3>1. CheckpointsAt' = CheckpointsAt \cup {Next1 + 1} /\ Len(recorded') = Next1 + 1
      BY <1>t, <2>2, PairMore
    <3>2. ckpt' = ckpt
      <4>1. Len(recorded') # Len(recorded) BY <1>t, <3>1 DEF Next1
      <4> QED BY <1>7, <4>1
    <3>3. ASSUME ~ failed' PROVE pc[Loop] \notin Unhanded /\ ~ failed
      <4>1. write.ckpt = 0 /\ ~ failed BY <1>7, <3>3
      <4>2. pc[Loop] \in FlushPoints BY <1>7, <4>1 DEF Holder
      <4> QED BY <1>u, <2>2, <4>1, <4>2 DEF FlushPoints
    <3> QED BY <1>7, <1>d, <2>2, <3>1, <3>2, <3>3 DEF Newest
  <2> QED BY <1>7, <2>1, <2>2
<1>8. ASSUME NEW fault \in Faults, WriteFails(fault)
      PROVE  Newest'
  <2>1. /\ write # NoWrite /\ UNCHANGED dirty /\ failed' = (failed \/ write.ckpt # 0) BY <1>8, FailStep
  <2>2. ckpt' = ckpt \/ (Applied /\ UNCHANGED recorded)
    <3>1. CASE UNCHANGED store BY <3>1 DEF store
    <3>2. CASE fault = "unavailable" /\ Applied BY <1>8, <3>2, FailStep
    <3> QED BY <1>8, <3>1, <3>2, FailStep
  <2>3. \/ UNCHANGED recorded /\ (pc[Loop] \in Unhanded => pc'[Loop] \in Unhanded)
        \/ recorded' = recorded \o <<"result", "checkpoint">> /\ pc'[Loop] \in Unhanded /\ pc[Loop] # "final"
    <3>1. CASE write.by # Loop
      <4>1. UNCHANGED recorded /\ pc' = [pc EXCEPT ![write.by] = "idle"] BY <1>8, <3>1, FailStep
      <4> QED BY <1>t, <3>1, <4>1
    <3>2. CASE write.by = Loop /\ fault = "unavailable"
      <4>1. UNCHANGED recorded /\ pc' = [pc EXCEPT ![Loop] = "ended"] BY <1>8, <3>2, FailStep
      <4> QED BY <1>t, <1>u, <4>1
    <3>3. CASE write.by = Loop /\ fault # "unavailable" /\ pc[Loop] \in {"final", "fail"}
      <4>1. UNCHANGED recorded
            /\ pc' = [pc EXCEPT ![Loop] = IF pc[Loop] = "fail" THEN "final" ELSE "ended"]
        BY <1>8, <3>3, FailStep
      <4> QED BY <1>t, <1>u, <4>1
    <3>4. CASE write.by = Loop /\ fault # "unavailable" /\ pc[Loop] \notin {"final", "fail"}
      <4>1. recorded' = recorded \o <<"result", "checkpoint">> /\ pc' = [pc EXCEPT ![Loop] = "fail"]
        BY <1>8, <3>4, FailStep
      <4> QED BY <1>t, <1>u, <3>4, <4>1
    <3> QED BY <3>1, <3>2, <3>3, <3>4
  <2> QED BY <1>7, <2>1, <2>2, <2>3
<1>9. CASE Cancel
  <2>1. UNCHANGED <<recorded, dirty>> /\ pc' = [pc EXCEPT ![Loop] = "final"] BY <1>9, CancelStep
  <2>2. pc'[Loop] \in Unhanded BY <1>t, <1>u, <2>1
  <2>3. CASE write # NoWrite /\ write.by = Loop
    <3>1. failed' = (failed \/ write.ckpt # 0) /\ (Applied \/ UNCHANGED store) BY <1>9, <2>3, CancelStep
    <3>2. ckpt' = ckpt \/ Applied BY <3>1 DEF store
    <3> QED BY <1>7, <2>1, <2>2, <2>3, <3>1, <3>2
  <2>4. CASE ~ (write # NoWrite /\ write.by = Loop)
    <3>1. UNCHANGED <<failed, store>> BY <1>9, <2>4, CancelStep
    <3> QED BY <1>0, <2>1, <2>2, <3>1 DEF store
  <2> QED BY <2>3, <2>4
<1> QED BY <1>2, <1>3, <1>4, <1>5, <1>6, <1>8, <1>9, TaskFacts, BufferCases

(* A held checkpoint.                                                       *)
LEMMA AheadStep ==
    ASSUME Typing, Holder, HeldLast, WriteCommits, Ahead, [Next]_vars
    PROVE  Ahead'
<1>t. /\ Len(recorded) \in Nat /\ Positions = 1..Len(recorded) /\ recorded \in Seq(Kinds)
      /\ dirty \in Positions \cup {0} /\ ckpt \in Positions \cup {0} /\ failed \in BOOLEAN
      /\ pending \in Seq(Nat) /\ Elems(pending) \subseteq Positions /\ Durable \subseteq Positions
      /\ heldOut \in Seq(Nat) /\ covers \in Nat
  BY Facts
<1>n. Next1 \in Nat /\ \A x \in Positions : x \in Nat /\ x < Next1 /\ x <= Len(recorded)
  BY <1>t DEF Next1
<1>a. ~ failed /\ dirty # 0 =>
        /\ Below(Durable, {dirty}) /\ ckpt <= dirty
        /\ write # NoWrite /\ dirty # write.held =>
              Below(Elems(write.events), {dirty}) /\ write.ckpt <= dirty
        /\ write = NoWrite \/ dirty # write.held =>
              /\ covers <= Len(pending)
              /\ \A i \in DOMAIN pending :
                    IF i <= covers THEN pending[i] < dirty ELSE dirty < pending[i]
  BY DEF Ahead
<1>v. ASSUME failed' \/ dirty' = 0 PROVE Ahead' BY <1>v DEF Ahead
<1>0. ASSUME UNCHANGED <<dirty, failed, write, ckpt, covers, Durable, pending>>
      PROVE  Ahead'
  BY <1>0 DEF Ahead
<1>1. ASSUME UNCHANGED <<dirty, failed, write, ckpt, covers, Durable>>,
             NEW s \in Seq(Nat), pending' = pending \o s,
             dirty # 0 => \A x \in Elems(s) : dirty < x
      PROVE  Ahead'
  <2> SUFFICES ASSUME ~ failed, dirty # 0, write = NoWrite \/ dirty # write.held
               PROVE  /\ covers <= Len(pending')
                      /\ \A i \in DOMAIN pending' :
                            IF i <= covers THEN pending'[i] < dirty ELSE dirty < pending'[i]
    BY <1>1, <1>a DEF Ahead
  <2>1. /\ pending' \in Seq(Nat) /\ Len(pending') = Len(pending) + Len(s)
        /\ \A i \in 1..Len(pending) : pending'[i] = pending[i]
        /\ \A i \in 1..Len(s) : pending'[Len(pending) + i] = s[i]
    BY <1>1, <1>t, SeqJoin
  <2>2. Len(pending) \in Nat /\ Len(s) \in Nat BY <1>t
  <2>3. covers <= Len(pending) /\ \A i \in 1..Len(pending) :
                    IF i <= covers THEN pending[i] < dirty ELSE dirty < pending[i]
    BY <1>a, <1>t
  <2>4. ASSUME NEW i \in DOMAIN pending', i \notin 1..Len(pending)
        PROVE  ~ i <= covers /\ dirty < pending'[i]
    <3>1. i \in 1..(Len(pending) + Len(s)) BY <2>1
    <3>2. i - Len(pending) \in 1..Len(s) /\ i = Len(pending) + (i - Len(pending)) BY <2>2, <2>4, <3>1
    <3>3. pending'[i] = s[i - Len(pending)] BY <2>1, <3>2
    <3>4. s[i - Len(pending)] \in Elems(s) BY <3>2 DEF Elems
    <3>5. ~ i <= covers BY <1>t, <2>2, <2>3, <2>4, <3>1
    <3> QED BY <1>1, <3>3, <3>4, <3>5
  <2>5. covers <= Len(pending') BY <1>t, <2>1, <2>2, <2>3
  <2> QED BY <2>1, <2>3, <2>4, <2>5
<1>h. dirty # 0 => \A x \in Elems(heldOut) : dirty < x BY HeldBehind
<1>o. Next1 \in Nat => <<Next1>> \in Seq(Nat) /\ Elems(<<Next1>>) = {Next1} BY OneElem
<1>2. CASE Recording
  <2>u. UNCHANGED <<ckpt, failed, write, log>> BY <1>2, RecordingStep DEF store
  <2>l. UNCHANGED Durable BY <2>u DEF Durable, Elems
  <2>1. CASE RecordEvent \/ RecordAbort
    <3>1. UNCHANGED <<dirty, covers>> /\ pending' = Append(pending, Next1)
      BY <2>1 DEF RecordEvent, RecordAbort
    <3>2. pending' = pending \o <<Next1>> BY <1>t, <1>n, <3>1, OneElem
    <3>3. dirty # 0 => \A x \in Elems(<<Next1>>) : dirty < x BY <1>t, <1>n, <1>o
    <3> QED BY <1>1, <1>n, <1>o, <2>u, <2>l, <3>1, <3>2, <3>3
  <2>2. CASE DeferCheckpoint
    <3>1. dirty' = Next1 /\ covers' = Len(pending) /\ pending' = pending BY <2>2 DEF DeferCheckpoint
    <3>2. write # NoWrite => Elems(write.events) \subseteq Positions /\ write.ckpt \in Positions \cup {0}
      BY WriteParts, ElemsIn
    <3>3. Below(Durable, {Next1}) /\ ckpt <= Next1 BY <1>t, <1>n DEF Below
    <3>4. write # NoWrite => Below(Elems(write.events), {Next1}) /\ write.ckpt <= Next1
      BY <1>n, <3>2 DEF Below
    <3>5. Len(pending) <= Len(pending) /\ \A i \in DOMAIN pending : i <= Len(pending) /\ pending[i] < Next1
      <4>1. \A i \in DOMAIN pending : pending[i] \in Elems(pending) BY DEF Elems
      <4> QED BY <1>t, <1>n, <4>1
    <3> QED BY <2>u, <2>l, <3>1, <3>3, <3>4, <3>5 DEF Ahead
  <2>3. CASE SaveThrough \/ CallComplete \/ RecordSuccess
    BY <1>0, <2>3, <2>u, <2>l DEF SaveThrough, CallComplete, RecordSuccess, buffer
  <2>4. CASE RunFails
    <3>1. UNCHANGED <<dirty, covers>> /\ pending' = pending \o heldOut \o <<Next1>>
      BY <2>4 DEF RunFails, Raise
    <3>2. /\ heldOut \o <<Next1>> \in Seq(Nat)
          /\ Elems(heldOut \o <<Next1>>) = Elems(heldOut) \cup {Next1}
      BY <1>t, <1>n, <1>o, JoinElems
    <3>3. pending' = pending \o (heldOut \o <<Next1>>) BY <1>t, <1>n, <3>1
    <3>4. dirty # 0 => \A x \in Elems(heldOut \o <<Next1>>) : dirty < x BY <1>t, <1>n, <1>h, <3>2
    <3> QED BY <1>1, <2>u, <2>l, <3>1, <3>2, <3>3, <3>4
  <2> QED BY <1>2, <2>1, <2>2, <2>3, <2>4 DEF Recording
<1>3. CASE CallFlush \/ CleanupDone \/ SkipFinalFlush \/ UNCHANGED vars
  <2>1. UNCHANGED <<dirty, covers, ckpt, failed, write, pending, log>>
    BY <1>3 DEF CallFlush, CleanupDone, SkipFinalFlush, vars, buffer, store
  <2> QED BY <1>0, <2>1 DEF Durable, Elems
<1>g. CASE ForeignAppend
  <2>1. UNCHANGED <<dirty, covers, ckpt, failed, write, pending>> /\ log' = Append(log, 0)
    BY <1>g DEF ForeignAppend, buffer
  <2>2. log \in Seq(Nat) BY Facts
  <2>3. log' = log \o <<0>> BY <2>1, <2>2, OneElem
  <2>4. Elems(log') = Elems(log) \cup {0} BY <2>2, <2>3, OneElem, JoinElems
  <2>5. Durable' = Durable BY <2>4 DEF Durable
  <2> QED BY <1>0, <2>1, <2>5
<1>4. ASSUME NEW t \in Tasks, BeginSessionWrite(t) \/ SessionWrite(t)
      PROVE  Ahead'
  <2>1. UNCHANGED <<dirty, covers, ckpt, failed, write, pending, log>>
    BY <1>4 DEF BeginSessionWrite, SessionWrite, buffer, store
  <2> QED BY <1>0, <2>1 DEF Durable, Elems
<1>5. ASSUME NEW t \in Tasks,
             (t = Loop /\ (Flush \/ FlushWithCheckpoint)) \/ FlushCheckpoint(t)
      PROVE  Ahead'
  <2>0. write = NoWrite /\ Asks(t) BY <1>5, AskStep
  <2>1. ASSUME NEW n \in Nat, NEW c \in Positions \cup {0},
               NEW s \in TerminalStatus \cup {"running"}, Issue(t, n, c, s)
        PROVE  Ahead'
    <3>1. /\ UNCHANGED <<dirty, failed, ckpt, log>>
          /\ write' # NoWrite /\ write'.held = dirty
      BY <2>1, IssueStep DEF store
    <3>2. UNCHANGED Durable BY <3>1 DEF Durable, Elems
    <3> QED BY <1>a, <3>1, <3>2 DEF Ahead
  <2>2. CASE (failed \/ dirty = 0) /\ UNCHANGED <<dirty, failed>>
    BY <1>v, <2>2
  <2>3. CASE UNCHANGED <<recorded, buffer, write, store>>
    BY <1>0, <2>3 DEF buffer, store, Durable, Elems
  <2> QED BY <1>5, <1>v, <2>1, <2>2, <2>3, AskStep
<1>6. CASE WriteSucceeds
  <2>1. /\ write # NoWrite /\ write' = NoWrite /\ Applied
        /\ write.ckpt = 0 => UNCHANGED <<dirty, failed>>
        /\ write.ckpt # 0 => /\ failed' = FALSE
                             /\ dirty' = IF dirty = write.held THEN 0 ELSE dirty
        /\ UNCHANGED covers
        /\ write.by # Loop => UNCHANGED pending
    BY <1>6, SucceedStep
  <2>2. /\ write.by = Loop => dirty = write.held
        /\ write.ckpt = 0 => write.by = Loop /\ pc[Loop] \in FlushPoints /\ write.ckpt = write.held
    BY <2>1 DEF Holder
  <2>3. CASE write.ckpt = 0 \/ dirty = write.held BY <1>v, <2>1, <2>2, <2>3
  <2>4. CASE write.ckpt # 0 /\ dirty # write.held
    <3>1. write.by # Loop /\ ~ failed /\ dirty' = dirty /\ pending' = pending /\ ckpt' = write.ckpt
      BY <2>1, <2>2, <2>4 DEF WriteCommits, Applied
    <3>2. Durable' = Durable \cup Elems(write.events) BY <2>1, AppliedElems
    <3>3. ASSUME dirty # 0
          PROVE  Below(Durable \cup Elems(write.events), {dirty}) /\ write.ckpt <= dirty
      BY <1>a, <2>1, <2>4, <3>1, <3>3 DEF Below
    <3> QED BY <1>a, <2>1, <2>4, <3>1, <3>2, <3>3 DEF Ahead
  <2> QED BY <2>3, <2>4
<1>7. ASSUME write # NoWrite, UNCHANGED dirty, failed' = (failed \/ write.ckpt # 0)
      PROVE  Ahead'
  <2>1. CASE write.ckpt = 0
    <3>1. dirty = 0 BY <1>7, <2>1 DEF Holder, FlushPoints, WithCheckpoint
    <3> QED BY <1>v, <1>7, <3>1
  <2>2. CASE write.ckpt # 0 BY <1>v, <1>7, <2>2
  <2> QED BY <2>1, <2>2
<1>8. ASSUME NEW fault \in Faults, WriteFails(fault)
      PROVE  Ahead'
  BY <1>7, <1>8, FailStep
<1>9. CASE Cancel
  <2>1. UNCHANGED <<dirty, covers>> BY <1>9, CancelStep
  <2>2. CASE write # NoWrite /\ write.by = Loop BY <1>7, <1>9, <2>1, <2>2, CancelStep
  <2>3. CASE ~ (write # NoWrite /\ write.by = Loop)
    <3>1. UNCHANGED <<failed, write, store>> /\ pending' = pending \o heldOut
      BY <1>9, <2>3, CancelStep
    <3>2. UNCHANGED <<Durable, ckpt>> BY <3>1 DEF store, Durable, Elems
    <3> QED BY <1>1, <1>h, <1>t, <2>1, <3>1, <3>2
  <2> QED BY <2>2, <2>3
<1> QED BY <1>2, <1>3, <1>g, <1>4, <1>5, <1>6, <1>8, <1>9, TaskFacts, BufferCases

LEMMA SaveFindsStep ==
    ASSUME Background = {} \/ ~ Through, Typing, Holder, SaveFinds, [Next]_vars
    PROVE  SaveFinds'
<1>t. pc \in [Tasks -> Places \cup {"idle"}] /\ Loop \in Tasks BY Facts
<1>s. pc[Loop] = "save" => Background = {} /\ (write = NoWrite => pending # <<>> \/ dirty # 0)
  BY DEF SaveFinds
<1>0. ASSUME pc'[Loop] # "save" PROVE SaveFinds' BY <1>0 DEF SaveFinds
<1>1. ASSUME pc'[Loop] = pc[Loop], write' # NoWrite \/ UNCHANGED <<write, pending, dirty>>
      PROVE  SaveFinds'
  BY <1>1, <1>s DEF SaveFinds
<1>2. CASE SaveThrough
  <2>1. Background = {} /\ UNCHANGED <<pending, dirty>> /\ (pending # <<>> \/ dirty # 0)
    BY <1>2 DEF SaveThrough, buffer
  <2> QED BY <2>1 DEF SaveFinds
<1>3. CASE Recording /\ ~ SaveThrough
  <2>1. pc'[Loop] # "save"
    BY <1>3, <1>t
       DEF Recording, RecordEvent, DeferCheckpoint, RecordSuccess, RecordAbort,
           RunFails, Raise, RecordTerminal, CallComplete, Go
  <2> QED BY <1>0, <2>1
<1>4. CASE CallFlush \/ CleanupDone \/ SkipFinalFlush
  <2>1. pc'[Loop] # "save" BY <1>4, <1>t DEF CallFlush, CleanupDone, SkipFinalFlush, Go
  <2> QED BY <1>0, <2>1
<1>5. CASE ForeignAppend \/ UNCHANGED vars
  BY <1>1, <1>5 DEF ForeignAppend, vars, buffer
<1>6. ASSUME NEW t \in Tasks, BeginSessionWrite(t) \/ SessionWrite(t)
      PROVE  SaveFinds'
  <2>1. UNCHANGED <<dirty, write, pending>> /\ (pc'[Loop] = pc[Loop] \/ pc'[Loop] \in {"barrier", "running"})
    BY <1>6, <1>t DEF BeginSessionWrite, SessionWrite, Go, buffer
  <2> QED BY <1>0, <1>1, <2>1
<1>7. ASSUME NEW t \in Tasks,
             (t = Loop /\ (Flush \/ FlushWithCheckpoint)) \/ FlushCheckpoint(t)
      PROVE  SaveFinds'
  <2>0. Asks(t) BY <1>7, AskStep
  <2>1. ASSUME NEW n \in Nat, NEW c \in Positions \cup {0},
               NEW s \in TerminalStatus \cup {"running"}, Issue(t, n, c, s)
        PROVE  SaveFinds'
    <3>1. UNCHANGED pc /\ write' # NoWrite BY <2>1, IssueStep
    <3> QED BY <1>1, <3>1
  <2>2. CASE t = Loop /\ pc[t] # "barrier" /\ Returned(pc[Loop])
    <3>1. pc[Loop] \in FlushPoints \cup WithCheckpoint BY <2>0, <2>2 DEF Asks
    <3>2. pc'[Loop] \in {"running", "completing", "final", "ended"} BY <2>2, <3>1, ReturnedStep
    <3> QED BY <1>0, <3>2
  <2>3. CASE /\ pc[t] = "barrier" /\ pc' = [pc EXCEPT ![t] = "session"]
             /\ UNCHANGED <<buffer, write>>
    <3>1. pc'[Loop] = pc[Loop] \/ pc'[Loop] = "session" BY <1>t, <2>3
    <3> QED BY <1>0, <1>1, <2>3, <3>1 DEF buffer
  <2> QED BY <1>7, <2>1, <2>2, <2>3, AskStep
<1>b. write # NoWrite /\ pc[Loop] = "save" => write.by = Loop
  <2>1. write # NoWrite => write.by \in Tasks BY WriteParts
  <2> QED BY <1>s, <2>1, TaskFacts
<1>8. CASE WriteSucceeds
  <2>1. /\ write # NoWrite
        /\ IF write.by = Loop /\ pc[Loop] # "barrier"
           THEN Returned(pc[Loop])
           ELSE pc' = [pc EXCEPT ![write.by] = "session"] /\ pc[write.by] = "barrier"
    BY <1>8, SucceedStep
  <2>2. CASE write.by = Loop /\ pc[Loop] # "barrier"
    <3>1. pc[Loop] \in FlushPoints \cup WithCheckpoint BY <2>1, <2>2 DEF Holder
    <3>2. pc'[Loop] \in {"running", "completing", "final", "ended"} BY <2>1, <2>2, <3>1, ReturnedStep
    <3> QED BY <1>0, <3>2
  <2>3. CASE ~ (write.by = Loop /\ pc[Loop] # "barrier")
    <3>1. pc[Loop] # "save" BY <1>b, <2>1, <2>3
    <3>2. pc'[Loop] = pc[Loop] \/ pc'[Loop] = "session" BY <1>t, <2>1, <2>3
    <3> QED BY <1>0, <3>1, <3>2
  <2> QED BY <2>2, <2>3
<1>9. ASSUME NEW fault \in Faults, WriteFails(fault)
      PROVE  SaveFinds'
  <2>1. write # NoWrite BY <1>9, FailStep
  <2>2. CASE write.by = Loop
    <3>1. \E p \in {"ended", "final", "fail"} : pc' = [pc EXCEPT ![Loop] = p]
      BY <1>9, <2>2, FailStep
    <3>2. pc'[Loop] # "save" BY <1>t, <3>1
    <3> QED BY <1>0, <3>2
  <2>3. CASE write.by # Loop
    <3>1. pc[Loop] # "save" BY <1>b, <2>1, <2>3
    <3>2. pc' = [pc EXCEPT ![write.by] = "idle"] BY <1>9, <2>3, FailStep
    <3>3. pc'[Loop] = pc[Loop] BY <1>t, <2>3, <3>2
    <3> QED BY <1>0, <3>1, <3>3
  <2> QED BY <2>2, <2>3
<1>10. CASE Cancel
  <2>1. pc'[Loop] = "final" BY <1>10, <1>t, CancelStep
  <2> QED BY <1>0, <2>1
<1> QED BY <1>2, <1>3, <1>4, <1>5, <1>6, <1>7, <1>8, <1>9, <1>10, TaskFacts, BufferCases

(* What a write of the run loop or of a barrier would commit.               *)
LEMMA IssueCommits ==
    ASSUME Typing, Queued, HeldLast, Newest, Ahead, write = NoWrite, NEW t \in Tasks,
           NEW n \in Nat, NEW c \in Positions \cup {0},
           NEW s \in TerminalStatus \cup {"running"}, Issue(t, n, c, s),
           pc[t] # "barrier" => n = Len(pending) /\ t = Loop,
           pc[t] \in FlushPoints \cup WithCheckpoint \cup {"barrier"},
           IF pc[t] \in WithCheckpoint THEN c = LastCheckpoint /\ c # 0 ELSE c = dirty,
           pc[t] \in FlushPoints => ~ failed,
           pc[t] = "barrier" => c # 0 /\ n = covers /\ ~ failed
    PROVE  /\ \E m \in 0..Len(recorded) :
                 Commits(m, Durable \cup Elems(write'.events), IF c = 0 THEN ckpt ELSE c)
           /\ c # 0 => ckpt <= c
           /\ t = Loop /\ pc[Loop] \in WithCheckpoint => c = Len(recorded)
<1>t. /\ Len(recorded) \in Nat /\ Positions = 1..Len(recorded) /\ recorded \in Seq(Kinds)
      /\ dirty \in Positions \cup {0} /\ ckpt \in Positions \cup {0} /\ failed \in BOOLEAN
      /\ pending \in Seq(Nat) /\ Elems(pending) \subseteq Positions /\ Durable \subseteq Positions
      /\ heldOut \in Seq(Nat) /\ covers \in Nat /\ Len(pending) \in Nat
  BY Facts
<1>j. \A i \in DOMAIN pending : i \in Nat /\ 1 <= i BY <1>t
<1>i. /\ write'.events \in Seq(Positions)
      /\ n >= Len(pending) => write'.events = pending /\ pending' = <<>>
      /\ n < Len(pending) => Len(write'.events) = n
      /\ \A i \in DOMAIN write'.events : i \in DOMAIN pending /\ write'.events[i] = pending[i]
  BY IssueStep
<1>w. Durable \cup Elems(pending) \cup Elems(heldOut) = EventsAt
  <2>1. Elems(Carried) = {} BY OneElem DEF Carried
  <2> QED BY <2>1 DEF Queued, Waiting
<1>h. Elems(heldOut) \subseteq {Len(recorded)} BY HeldBehind
<1>d. /\ dirty \in CheckpointsAt \cup {0} /\ ckpt \in CheckpointsAt \cup {0}
      /\ ~ failed => \A k \in CheckpointsAt :
            \/ k <= IF dirty # 0 THEN dirty ELSE ckpt
            \/ k = Len(recorded) /\ pc[Loop] \in Unhanded
  BY DEF Newest
<1>a. ~ failed /\ dirty # 0 =>
        /\ Below(Durable, {dirty}) /\ ckpt <= dirty
        /\ covers <= Len(pending)
        /\ \A i \in DOMAIN pending : IF i <= covers THEN pending[i] < dirty ELSE dirty < pending[i]
  BY DEF Ahead
<1>e. /\ \A i : i \in EventsAt <=> i \in 1..Len(recorded) /\ recorded[i] # "checkpoint"
      /\ \A i : i \in CheckpointsAt <=> i \in 1..Len(recorded) /\ recorded[i] = "checkpoint"
  BY <1>t DEF EventsAt, CheckpointsAt
<1>p. "barrier" \notin WithCheckpoint \cup FlushPoints /\ FlushPoints \cap WithCheckpoint = {}
  BY DEF WithCheckpoint, FlushPoints
<1> DEFINE W == Elems(write'.events)
<1>1. CASE pc[t] = "barrier"
  <2>1. c = dirty /\ dirty # 0 /\ n = covers /\ ~ failed BY <1>1, <1>p
  <2>2. /\ Below(Durable, {dirty}) /\ ckpt <= dirty /\ covers <= Len(pending)
        /\ \A i \in DOMAIN pending : IF i <= covers THEN pending[i] < dirty ELSE dirty < pending[i]
    BY <1>a, <2>1
  <2>3. DOMAIN pending = 1..Len(pending) /\ DOMAIN write'.events = 1..Len(write'.events)
        /\ Len(write'.events) \in Nat
    BY <1>i, <1>t
  <2>4. Len(write'.events) = covers BY <1>i, <1>t, <2>1, <2>2
  <2>s. \A i : i \in DOMAIN write'.events <=> i \in Nat /\ 1 <= i /\ i <= covers
    <3> DEFINE taken == write'.events
    <3>1. DOMAIN taken = 1..Len(taken) /\ Len(taken) = covers BY <2>3, <2>4
    <3> HIDE DEF taken
    <3>2. DOMAIN taken = 1..covers BY <3>1
    <3>3. \A i : i \in DOMAIN taken <=> i \in Nat /\ 1 <= i /\ i <= covers BY <1>t, <3>2
    <3> QED BY <3>3 DEF taken
  <2>5. \A x : x \in W <=> x \in Elems(pending) /\ x < dirty
    <3>1. ASSUME NEW i \in DOMAIN write'.events
          PROVE  write'.events[i] \in Elems(pending) /\ write'.events[i] < dirty
      <4>1. i \in DOMAIN pending /\ i <= covers /\ write'.events[i] = pending[i] BY <1>i, <2>s
      <4> QED BY <2>2, <4>1 DEF Elems
    <3>2. ASSUME NEW i \in DOMAIN pending, pending[i] < dirty
          PROVE  pending[i] \in W
      <4>1. pending[i] \in Nat /\ dirty \in Nat BY <1>t
      <4>2. i <= covers
        <5>1. ~ (dirty < pending[i]) BY <3>2, <4>1
        <5> QED BY <2>2, <5>1
      <4>3. i \in DOMAIN write'.events
        <5>2. i \in Nat /\ 1 <= i BY <1>j
        <5> QED BY <2>s, <4>2, <5>2, Zenon
      <4> QED BY <1>i, <4>3 DEF Elems
    <3> QED BY <3>1, <3>2 DEF Elems
  <2>6. dirty \in 1..Len(recorded) /\ recorded[dirty] = "checkpoint" BY <1>d, <1>e, <2>1
  <2>7. \A i : i \in Durable \cup W <=> i \in EventsAt /\ i < dirty
    <3>1. \A i \in Elems(heldOut) : ~ i < dirty BY <1>h, <1>t, <2>6
    <3>2. \A i \in Durable : i < dirty BY <2>2 DEF Below
    <3> HIDE DEF W
    <3> QED BY <1>w, <2>5, <3>1, <3>2
  <2>8. Commits(dirty, Durable \cup W, dirty)
    <3> HIDE DEF W
    <3>1. \A i : i \in 1..dirty <=> i \in 1..Len(recorded) /\ i <= dirty BY <1>t, <2>6
    <3>2. Durable \cup W = {i \in 1..dirty : recorded[i] # "checkpoint"}
      <4>1. \A i : i \in Durable \cup W <=> i \in 1..dirty /\ recorded[i] # "checkpoint"
        <5>1. \A i \in 1..Len(recorded) : i <= dirty /\ recorded[i] # "checkpoint" => i < dirty
          BY <1>t, <2>6
        <5>2. \A i \in 1..Len(recorded) : i < dirty => i <= dirty BY <1>t, <2>6
        <5> QED BY <1>e, <2>7, <3>1, <5>1, <5>2
      <4> QED BY <4>1
    <3>3. dirty \in 1..dirty /\ \A k \in 1..dirty : k <= dirty BY <2>6
    <3> QED BY <2>6, <3>2, <3>3 DEF Commits
  <2>9. dirty \in 0..Len(recorded) BY <1>t, <2>6
  <2> QED BY <1>1, <1>p, <2>1, <2>2, <2>8, <2>9
<1>2. CASE pc[t] \in WithCheckpoint
  <2>1. t = Loop /\ n = Len(pending) /\ write'.events = pending BY <1>2, <1>i, <1>p, <1>t
  <2>2. c = Len(recorded) /\ Len(recorded) \in Positions BY <1>2, <2>1, NewestCheckpoint
  <2>3. Elems(heldOut) = {}
    <3>1. heldOut = <<>> BY <1>2, <2>1 DEF HeldLast, WithCheckpoint
    <3> QED BY <3>1, OneElem
  <2>4. recorded[Len(recorded)] = "checkpoint" BY <1>2, <2>1 DEF Typing
  <2>5. Durable \cup W = EventsAt BY <1>w, <2>1, <2>3
  <2>6. Commits(Len(recorded), Durable \cup W, Len(recorded))
    <3> HIDE DEF W
    <3>1. Durable \cup W = {i \in 1..Len(recorded) : recorded[i] # "checkpoint"} BY <1>e, <2>5
    <3> QED BY <1>t, <2>2, <2>4, <3>1 DEF Commits
  <2>7. c # 0 /\ ckpt <= c BY <1>t, <2>2
  <2> QED BY <1>t, <2>2, <2>6, <2>7
<1>3. CASE pc[t] \in FlushPoints
  <2>1. t = Loop /\ n = Len(pending) /\ write'.events = pending /\ c = dirty /\ ~ failed
    BY <1>3, <1>i, <1>p, <1>t
  <2> DEFINE x == IF c = 0 THEN ckpt ELSE c
  <2>2. /\ x \in CheckpointsAt \cup {0}
        /\ \A k \in CheckpointsAt : k <= x \/ k = Len(recorded)
    BY <1>d, <2>1
  <2>3. W = Elems(pending) BY <2>1
  <2> HIDE DEF x, W
  <2>4. Durable \cup W \cup Elems(heldOut) = EventsAt BY <1>w, <2>3
  <2>5. \E m \in 0..Len(recorded) : Commits(m, Durable \cup W, x)
    <3>1. CASE Len(recorded) \notin Durable \cup W /\ Len(recorded) # x /\ Len(recorded) # 0
      <4> DEFINE m == Len(recorded) - 1
      <4>1. m \in 0..Len(recorded) /\ \A i : i \in 1..m <=> i \in 1..Len(recorded) /\ i # Len(recorded)
        BY <1>t, <3>1
      <4> HIDE DEF m
      <4>2. \A i : i \in Durable \cup W <=> i \in EventsAt /\ i # Len(recorded) BY <1>h, <2>4, <3>1
      <4>3. Durable \cup W = {i \in 1..m : recorded[i] # "checkpoint"}
        <5>1. \A i : i \in Durable \cup W <=> i \in 1..m /\ recorded[i] # "checkpoint"
          BY <1>e, <4>1, <4>2
        <5> QED BY <5>1
      <4>4. x = 0 \/ (x \in 1..m /\ recorded[x] = "checkpoint") BY <1>e, <2>2, <3>1, <4>1
      <4>5. \A k \in 1..m : recorded[k] = "checkpoint" => k <= x BY <1>e, <2>2, <4>1
      <4> QED BY <4>1, <4>3, <4>4, <4>5 DEF Commits
    <3>2. CASE Len(recorded) \in Durable \cup W \/ Len(recorded) = x \/ Len(recorded) = 0
      <4>1. Durable \cup W = EventsAt
        <5>1. \A i \in Elems(heldOut) : i = Len(recorded) /\ i \in EventsAt BY <1>h, <2>4
        <5>2. ASSUME NEW i \in Elems(heldOut) PROVE i \in Durable \cup W
          <6>1. i = Len(recorded) /\ i \in EventsAt BY <5>1
          <6>2. Len(recorded) # x BY <1>e, <2>2, <6>1
          <6>3. Len(recorded) # 0 BY <1>e, <1>t, <6>1
          <6> QED BY <3>2, <6>1, <6>2, <6>3
        <5> QED BY <2>4, <5>2
      <4>2. \A k \in CheckpointsAt : k <= x
        <5> SUFFICES ASSUME NEW k \in CheckpointsAt, k = Len(recorded) PROVE k <= x
          BY <2>2
        <5>1. k \notin EventsAt /\ k # 0 /\ k \in Nat BY <1>e, <1>t
        <5>2. k = x BY <3>2, <4>1, <5>1
        <5> QED BY <5>1, <5>2
      <4>3. Len(recorded) \in 0..Len(recorded) BY <1>t
      <4> QED BY <1>e, <2>2, <4>1, <4>2, <4>3 DEF Commits, EventsAt, Positions
    <3> QED BY <3>1, <3>2
  <2>6. c # 0 => ckpt <= c BY <1>a, <2>1
  <2> QED BY <1>3, <1>p, <2>1, <2>5, <2>6 DEF x, W
<1> QED BY <1>1, <1>2, <1>3

LEMMA WriteCommitsStep ==
    ASSUME Typing, Holder, Queued, HeldLast, Newest, Ahead, WriteCommits, [Next]_vars
    PROVE  WriteCommits'
<1>t. /\ Len(recorded) \in Nat /\ pc \in [Tasks -> Places \cup {"idle"}] /\ Loop \in Tasks
      /\ recorded \in Seq(Kinds)
  BY Facts
<1>v. ASSUME write' = NoWrite PROVE WriteCommits' BY <1>v DEF WriteCommits
<1>1. ASSUME UNCHANGED <<write, failed, ckpt, Durable>>, Grows \/ UNCHANGED recorded,
             write # NoWrite /\ write.by = Loop => UNCHANGED <<recorded, pc>>,
             write # NoWrite /\ write.by # Loop => ~ failed
      PROVE  WriteCommits'
  <2> SUFFICES ASSUME write # NoWrite PROVE WriteCommits'
    BY <1>v, <1>1
  <2>1. PICK n \in 0..Len(recorded) :
             Commits(n, Durable \cup Elems(write.events), IF write.ckpt = 0 THEN ckpt ELSE write.ckpt)
    BY DEF WriteCommits
  <2>3. UNCHANGED Elems(write.events) BY <1>1 DEF Elems
  <2>2. n \in 0..Len(recorded')
        /\ Commits(n, Durable \cup Elems(write.events), IF write.ckpt = 0 THEN ckpt ELSE write.ckpt)'
    <3>1. PICK D, c : D = Durable \cup Elems(write.events) /\ c = IF write.ckpt = 0 THEN ckpt ELSE write.ckpt
      OBVIOUS
    <3>2. /\ D = (Durable \cup Elems(write.events))'
          /\ c = (IF write.ckpt = 0 THEN ckpt ELSE write.ckpt)'
      BY <1>1, <2>3, <3>1
    <3>3. Commits(n, D, c) BY <2>1, <3>1
    <3>4. n \in 0..Len(recorded') /\ Commits(n, D, c)' BY <1>1, <3>3, CommitsStay
    <3> QED BY <3>2, <3>4 DEF Commits
  <2>4. CASE write.by = Loop BY <1>1, <2>2, <2>3, <2>4 DEF WriteCommits
  <2>5. CASE write.by # Loop BY <1>1, <2>2, <2>3, <2>5 DEF WriteCommits
  <2> QED BY <2>4, <2>5
<1>f. write # NoWrite /\ write.by # Loop => ~ failed BY DEF WriteCommits
<1>h. write # NoWrite /\ write.by = Loop => pc[Loop] \in FlushPoints \cup WithCheckpoint \cup {"barrier"}
  BY DEF Holder
<1>2. CASE Recording
  <2>1. UNCHANGED <<write, failed, ckpt, log>> BY <1>2, RecordingStep DEF store
  <2>2. pc[Loop] \in {"running", "cleanup", "completing"}
    BY <1>2 DEF Recording, RecordEvent, DeferCheckpoint, SaveThrough, RecordSuccess, RecordAbort,
                RunFails, CallComplete
  <2>3. ~ (write # NoWrite /\ write.by = Loop) BY <1>h, <2>2 DEF FlushPoints, WithCheckpoint
  <2>4. Grows
    <3>k. "event" \in Kinds /\ "result" \in Kinds /\ "checkpoint" \in Kinds BY DEF Kinds
    <3> QED
      BY <1>2, <3>k
         DEF Recording, Grows, RecordEvent, DeferCheckpoint, SaveThrough, RecordSuccess, RecordAbort,
             RunFails, Raise, RecordTerminal, CallComplete
  <2> QED BY <1>1, <1>f, <2>1, <2>3, <2>4 DEF Durable, Elems
<1>3. CASE CallFlush \/ CleanupDone \/ SkipFinalFlush \/ UNCHANGED vars
  <2>1. UNCHANGED <<recorded, write, failed, ckpt, log>>
    BY <1>3 DEF CallFlush, CleanupDone, SkipFinalFlush, vars, buffer, store
  <2>2. write # NoWrite /\ write.by = Loop => UNCHANGED pc
    BY <1>3, <1>h DEF CallFlush, CleanupDone, SkipFinalFlush, vars, FlushPoints, WithCheckpoint
  <2> QED BY <1>1, <1>f, <2>1, <2>2 DEF Durable, Elems
<1>g. CASE ForeignAppend
  <2>1. UNCHANGED <<recorded, ckpt, failed, write, pc>> /\ log' = Append(log, 0)
    BY <1>g DEF ForeignAppend, buffer
  <2>2. log \in Seq(Nat) BY Facts
  <2>3. log' = log \o <<0>> BY <2>1, <2>2, OneElem
  <2>4. Elems(log') = Elems(log) \cup {0} BY <2>2, <2>3, OneElem, JoinElems
  <2>5. Durable' = Durable BY <2>4 DEF Durable
  <2> QED BY <1>1, <1>f, <2>1, <2>5
<1>4. ASSUME NEW t \in Tasks, BeginSessionWrite(t) \/ SessionWrite(t)
      PROVE  WriteCommits'
  <2>1. UNCHANGED <<recorded, ckpt, failed, write, log>>
    BY <1>4 DEF BeginSessionWrite, SessionWrite, buffer, store
  <2>2. CASE write # NoWrite /\ write.by = Loop
    <3>1. t # Loop
      BY <1>4, <1>h, <2>2 DEF BeginSessionWrite, SessionWrite, FlushPoints, WithCheckpoint
    <3>2. pc'[Loop] = pc[Loop] BY <1>4, <1>t, <3>1 DEF BeginSessionWrite, SessionWrite, Go
    <3>3. UNCHANGED Durable BY <2>1 DEF Durable, Elems
    <3> QED BY <2>1, <3>2, <3>3 DEF WriteCommits, Commits, Elems
  <2>3. CASE ~ (write # NoWrite /\ write.by = Loop)
    BY <1>1, <1>f, <2>1, <2>3 DEF Durable, Elems
  <2> QED BY <2>2, <2>3
<1>5. ASSUME NEW t \in Tasks,
             (t = Loop /\ (Flush \/ FlushWithCheckpoint)) \/ FlushCheckpoint(t)
      PROVE  WriteCommits'
  <2>0. write = NoWrite /\ Asks(t) BY <1>5, AskStep
  <2>p. /\ pc[t] \in FlushPoints \cup WithCheckpoint \cup {"barrier"}
        /\ pc[t] # "barrier" => t = Loop
    BY <2>0 DEF Asks
  <2>1. ASSUME NEW n \in Nat, NEW c \in Positions \cup {0},
               NEW s \in TerminalStatus \cup {"running"}, Issue(t, n, c, s),
               pc[t] # "barrier" => n = Len(pending),
               IF pc[t] \in WithCheckpoint THEN c = LastCheckpoint /\ c # 0 ELSE c = dirty,
               pc[t] \in FlushPoints => ~ failed,
               pc[t] = "barrier" => c # 0 /\ n = covers /\ ~ failed
        PROVE  WriteCommits'
    <3>1. /\ UNCHANGED <<recorded, failed, ckpt, log, pc>>
          /\ write'.ckpt = c /\ write'.by = t
      BY <2>1, IssueStep DEF store
    <3>2. /\ \E m \in 0..Len(recorded) :
                 Commits(m, Durable \cup Elems(write'.events), IF c = 0 THEN ckpt ELSE c)
          /\ c # 0 => ckpt <= c
          /\ t = Loop /\ pc[Loop] \in WithCheckpoint => c = Len(recorded)
      BY <2>0, <2>p, <2>1, IssueCommits
    <3>3. UNCHANGED Durable BY <3>1 DEF Durable, Elems
    <3>4. failed => t = Loop /\ pc[Loop] \in WithCheckpoint BY <2>p, <2>1
    <3>5. \E m \in 0..Len(recorded') :
             Commits(m, Durable \cup Elems(write.events), IF write.ckpt = 0 THEN ckpt ELSE write.ckpt)'
      BY <3>1, <3>2, <3>3 DEF Commits, Elems
    <3> QED BY <3>1, <3>2, <3>4, <3>5 DEF WriteCommits
  <2>2. CASE UNCHANGED write BY <1>v, <2>0, <2>2
  <2> QED BY <1>5, <2>1, <2>2, AskStep DEF buffer
<1>6. CASE WriteSucceeds BY <1>v, <1>6, SucceedStep
<1>7. ASSUME NEW fault \in Faults, WriteFails(fault) PROVE WriteCommits'
  BY <1>v, <1>7, FailStep
<1>8. CASE Cancel
  <2>1. UNCHANGED recorded BY <1>8, CancelStep
  <2>2. CASE write # NoWrite /\ write.by = Loop BY <1>v, <1>8, <2>2, CancelStep
  <2>3. CASE ~ (write # NoWrite /\ write.by = Loop)
    <3>1. UNCHANGED <<failed, write, store>> BY <1>8, <2>3, CancelStep
    <3> QED BY <1>1, <1>f, <2>1, <2>3, <3>1 DEF store, Durable, Elems
  <2> QED BY <2>2, <2>3
<1> QED BY <1>2, <1>3, <1>g, <1>4, <1>5, <1>6, <1>7, <1>8, TaskFacts, BufferCases

LEMMA PrefixStep ==
    ASSUME Background = {} \/ ~ Through, BufferInv, PrefixInv, [Next]_vars
    PROVE  PrefixInv'
BY QueuedStep, HeldLastStep, LogAscendsStep, NewestStep, AheadStep, WriteCommitsStep, SaveFindsStep,
   CommittedStep
   DEF BufferInv, PrefixInv

LEMMA PrefixStart == Init => PrefixInv
<1> SUFFICES ASSUME Init PROVE PrefixInv
  OBVIOUS
<1>1. /\ recorded = <<>> /\ pending = <<>> /\ heldOut = <<>> /\ write = NoWrite /\ log = <<>>
      /\ dirty = 0 /\ ckpt = 0 /\ pc[Loop] = "running" /\ ~ failed
  BY TaskFacts DEF Init
<1>2. Carried = <<>> /\ Elems(<<>>) = {} /\ Ascends(<<>>) BY <1>1, OneElem DEF Carried
<1>3. Durable = {} /\ Waiting = {} BY <1>1, <1>2 DEF Durable, Waiting
<1>4. Len(recorded) = 0 /\ Positions = {} BY <1>1 DEF Positions
<1>5. EventsAt = {} /\ CheckpointsAt = {} BY <1>4 DEF EventsAt, CheckpointsAt
<1>6. Queued BY <1>1, <1>2, <1>3, <1>5 DEF Queued, Below
<1>7. HeldLast /\ SaveFinds /\ WriteCommits BY <1>1 DEF HeldLast, SaveFinds, WriteCommits
<1>8. OwnAt = {} /\ DOMAIN log = {} BY <1>1 DEF OwnAt
<1>9. LogAscends BY <1>3, <1>8 DEF LogAscends
<1>10. Newest /\ Ahead BY <1>1, <1>5 DEF Newest, Ahead
<1>11. Committed
  <2>1. 0 \in 0..Len(recorded) /\ 1..0 = {} BY <1>4
  <2> QED BY <1>1, <1>3, <2>1 DEF Committed, Commits
<1> QED BY <1>6, <1>7, <1>9, <1>10, <1>11 DEF PrefixInv

LEMMA PrefixInvariant ==
    ASSUME Background = {} \/ ~ Through
    PROVE  Spec => []PrefixInv
<1>1. BufferInv /\ PrefixInv /\ [Next]_vars => PrefixInv' BY PrefixStep
<1> QED BY <1>1, PrefixStart, BufferInvariant, PTL DEF Spec

(* A step of the buffer is one of the write-through order: it records, or   *)
(* makes a longer prefix durable, or changes nothing that the order shows.  *)
LEMMA StepWritesThrough ==
    ASSUME BufferInv, PrefixInv, PrefixInv', [Next]_vars
    PROVE  [WT!Record \/ WT!Persist]_WT!wtVars
<1>t. /\ Len(recorded) \in Nat /\ ckpt \in Positions \cup {0} /\ Positions = 1..Len(recorded)
      /\ Typing /\ Holder
  BY Facts DEF BufferInv
<1>p. Queued /\ Committed /\ LogAscends /\ WriteCommits /\ LogAscends' BY DEF PrefixInv
<1>l. /\ OwnAt \subseteq OwnAt' /\ \A j \in OwnAt : log'[j] = log[j]
      /\ write = NoWrite \/ ~ Applied => OwnAt' = OwnAt
  BY <1>t, <1>p, LogAscendsStep
<1>1. CASE write # NoWrite /\ Applied /\ UNCHANGED recorded
  <2>1. PICK n \in 0..Len(recorded) :
             Commits(n, Durable \cup Elems(write.events), IF write.ckpt = 0 THEN ckpt ELSE write.ckpt)
    BY <1>1, <1>p DEF WriteCommits
  <2>2. Durable' = Durable \cup Elems(write.events) BY <1>t, <1>1, AppliedElems
  <2>3. ckpt' = (IF write.ckpt = 0 THEN ckpt ELSE write.ckpt) /\ ckpt <= ckpt'
    BY <1>t, <1>p, <1>1 DEF WriteCommits, Applied
  <2>4. Commits(n, Durable', ckpt') BY <2>1, <2>2, <2>3
  <2>5. DOMAIN OwnLog = OwnAt /\ DOMAIN OwnLog' = OwnAt'
        /\ (\A j \in OwnAt : OwnLog[j] = log[j]) /\ (\A j \in OwnAt' : OwnLog'[j] = log'[j])
    BY DEF OwnLog
  <2>6. {OwnLog'[seq] : seq \in DOMAIN OwnLog'} = WT!EventsOf(recorded, n)
    BY <1>p, <2>4, <2>5 DEF LogAscends, Commits, WT!EventsOf
  <2>7. \A i, j \in DOMAIN OwnLog' : i < j => OwnLog'[i] < OwnLog'[j] BY <1>p, <2>5 DEF LogAscends
  <2>8. \A seq \in DOMAIN OwnLog : seq \in DOMAIN OwnLog' /\ OwnLog'[seq] = OwnLog[seq]
    BY <1>l, <2>5
  <2>9. ckpt' = WT!CheckpointOf(recorded, n)
    <3> DEFINE at == {i \in 1..n : recorded[i] = "checkpoint"}
    <3>1. n \in Nat /\ at \subseteq Nat BY <1>t
    <3>2. at = {} => ckpt' = 0 BY <2>4 DEF Commits
    <3>3. ASSUME at # {}
          PROVE  ckpt' \in at /\ \A j \in at : j <= ckpt'
      <4>1. PICK k \in 1..n : recorded[k] = "checkpoint" BY <3>3
      <4>2. k <= ckpt' /\ k # 0 /\ k \in Nat BY <2>4, <4>1 DEF Commits
      <4>3. ckpt' # 0 BY <4>2
      <4> QED BY <2>4, <4>3 DEF Commits
    <3>4. WT!CheckpointOf(recorded, n) = IF at = {} THEN 0 ELSE CHOOSE i \in at : \A j \in at : j <= i
      BY DEF WT!CheckpointOf
    <3> HIDE DEF at
    <3>5. ASSUME NEW i \in at, \A j \in at : j <= i PROVE i = ckpt'
      <4>1. ckpt' \in at /\ i <= ckpt' BY <3>3
      <4>2. ckpt' <= i /\ i \in Nat /\ ckpt' \in Nat BY <3>1, <3>5, <4>1
      <4> QED BY <4>1, <4>2
    <3> QED BY <3>2, <3>3, <3>4, <3>5
  <2>10. WT!Persist BY <1>1, <2>3, <2>6, <2>7, <2>8, <2>9 DEF WT!Persist
  <2> QED BY <2>10
<1>2. CASE ~ (write # NoWrite /\ Applied /\ UNCHANGED recorded)
  <2>1. (Grows \/ UNCHANGED recorded) /\ UNCHANGED ckpt
        /\ (UNCHANGED <<log, uncertain>> \/ (log' = log \o <<0>> /\ UNCHANGED <<recorded, uncertain>>))
    BY <1>t, <1>2, StoreCases
  <2>2. OwnAt' = OwnAt
    <3>1. CASE UNCHANGED <<log, uncertain>> BY <3>1 DEF OwnAt, Repeated
    <3>2. CASE log' = log \o <<0>> /\ UNCHANGED uncertain
      <4>1. <<0>> \in Seq(Nat) /\ Elems(<<0>>) = {0} /\ Ascends(<<0>>) BY OneElem
      <4> QED BY <1>t, <1>p, <3>2, <4>1, LogGrows
    <3> QED BY <2>1, <3>1, <3>2
  <2>3. OwnLog' = OwnLog BY <1>l, <2>2 DEF OwnLog
  <2>4. CASE Grows
    <3>1. WT!Record BY <2>1, <2>3, <2>4 DEF WT!Record, WT!Kinds, Grows, Kinds
    <3> QED BY <3>1
  <2>5. CASE UNCHANGED recorded
    BY <2>1, <2>3, <2>5 DEF WT!wtVars
  <2> QED BY <2>1, <2>4, <2>5
<1> QED BY <1>1, <1>2

(* Class comment of RunEventBuffer: "every committed state is one the       *)
(* write-through order also produced".  The durable log and checkpoint      *)
(* always are those of a prefix of what the run recorded, whichever writes  *)
(* fail, with or without having taken effect, and wherever the run is       *)
(* cancelled, and they only move on to a longer prefix.                     *)
THEOREM ImplementsWriteThrough ==
    ASSUME Background = {} \/ ~ Through
    PROVE  Spec => RefinesWriteThrough
<1>1. Init => WT!Init
  <2> SUFFICES ASSUME Init PROVE WT!Init
    OBVIOUS
  <2>1. log = <<>> /\ recorded = <<>> /\ ckpt = 0 BY DEF Init
  <2>2. OwnAt = {} BY <2>1 DEF OwnAt
  <2>3. OwnLog = <<>> BY <2>2 DEF OwnLog
  <2> QED BY <2>1, <2>3 DEF WT!Init
<1>2. BufferInv /\ PrefixInv /\ PrefixInv' /\ [Next]_vars => [WT!Record \/ WT!Persist]_WT!wtVars
  BY StepWritesThrough
<1>3. WT!Init /\ [][WT!Record \/ WT!Persist]_WT!wtVars <=> RefinesWriteThrough
  BY DEF RefinesWriteThrough, WT!Spec
<1> QED BY <1>1, <1>2, <1>3, BufferInvariant, PrefixInvariant, PTL DEF Spec
=============================================================================
