---------------------------- MODULE WorkerProofs ----------------------------
(***************************************************************************)
(* Proofs about Worker, for every fleet: any number of workers and         *)
(* concurrent callbacks, any lease duration and any number of faults and   *)
(* delays.                                                                 *)
(*                                                                         *)
(* Everything rests on the epochs.  A worker refreshes its own live lease  *)
(* without a new epoch, so what tells two executions apart is partly the   *)
(* store's counter and partly the worker's set of active runs              *)
(* (Registered, OneRegistered).  With both, at most one execution that     *)
(* still holds its token passes the store's fence, and the other           *)
(* invariants follow that one.                                             *)
(***************************************************************************)
EXTENDS Worker, TLAPS

(* Between the registration in _active_runs and its removal.                *)
Registered == Holding \cup {"claim", "verify"}

(* A worker has registered the run for one execution at most, and the set   *)
(* of active runs knows about it.                                           *)
OneRegistered ==
    /\ \A e \in Execs : pc[e] \in Registered => active[WorkerOf(e)]
    /\ \A d, e \in Execs :
          d # e /\ pc[d] \in Registered /\ pc[e] \in Registered => WorkerOf(d) # WorkerOf(e)

(* A token never runs ahead of the stored epoch, and the stored epoch       *)
(* belongs to the stored owner.                                             *)
TokensBehindLease ==
    \A e \in Execs : pc[e] \in Holding =>
        /\ token[e] <= lease.epoch
        /\ token[e] = lease.epoch => lease.owner = WorkerOf(e)

EpochInv == OneRegistered /\ TokensBehindLease /\ OneExecutionPerEpoch

(* An execution that may still write the run's status finds the run         *)
(* unfinished, as long as its token is current.                             *)
Writing == Executing \cup {"failing"}
WritersFindOpenRun ==
    \A e \in Execs : pc[e] \in Writing /\ Current(e) => status \notin Terminal

(* An acknowledgement under way is of a terminal run.                       *)
AckOfTerminal == \A e \in Execs : pc[e] = "ack" => status \in Terminal

SettleInv == WritersFindOpenRun /\ AckOfTerminal /\ JobOutlivesRun

(* A renewal whose reply is still worth something was promised at least as  *)
(* long as the caller will wait for it.                                     *)
ReplyCovered ==
    \A e \in Execs : pc[e] \in Executing /\ beat[e] = "ok" /\ budget[e] > 0 =>
        Current(e) /\ budget[e] <= lease.left

(* The time an execution ran after it was superseded, and the time it will  *)
(* still wait, make up one lease duration at most.                          *)
OverlapBudgeted ==
    \A e \in Execs :
        /\ pc[e] \in Executing =>
              /\ Current(e) => overlap[e] = 0
              /\ overlap[e] + budget[e] <= Ttl
        /\ pc[e] \notin Executing \cup {"closing", "except", "failing"} => overlap[e] = 0

OverlapInv == ReplyCovered /\ OverlapBudgeted

-----------------------------------------------------------------------------
(* The actions of Next, one by one.                                         *)
LEMMA NextCases ==
    ASSUME [Next]_vars
    PROVE  \/ \E e \in Execs : Progress(e) \/ Heartbeat(e) \/ Failure(e)
           \/ \E e \in Execs : Dequeue(e) \/ DequeueStalled(e)
           \/ \E w \in Workers : Crash(w)
           \/ Tick \/ DelayedTick
           \/ UNCHANGED vars
BY Zenon DEF Next

Lease == [owner : Workers \cup {NoOwner}, epoch : Nat, left : 0..Ttl]

LEMMA TypeInit == Init => TypeOK
<1> SUFFICES ASSUME Init PROVE TypeOK OBVIOUS
<1>1. (CHOOSE e \in Execs : TRUE) \in Execs BY WorkerAssumption
<1>2. /\ lease \in Lease
      /\ job \in [state : {"queued", "picked", "delayed", "gone"}, by : Execs]
  BY <1>1, WorkerAssumption DEF Init, Lease
<1>3. /\ pc \in [Execs -> Places] /\ token \in [Execs -> Nat]
      /\ budget \in [Execs -> 0..Ttl] /\ overlap \in [Execs -> Nat]
  BY WorkerAssumption DEF Init, Places
<1> QED BY <1>2, <1>3 DEF Init, TypeOK, Lease, Terminal

LEMMA TypeStep ==
    ASSUME TypeOK, [Next]_vars
    PROVE  TypeOK'
<1>w. \A e \in Execs : WorkerOf(e) \in Workers
  BY WorkerAssumption DEF WorkerOf
<1>l. /\ \A w \in Workers : Granted(w) \in Lease /\ Granted(w).epoch \in Nat
      /\ Freed \in Lease
      /\ [lease EXCEPT !.left = Ttl] \in Lease
      /\ [lease EXCEPT !.left = Down(@)] \in Lease
  <2>1. /\ lease \in Lease /\ lease.epoch \in Nat /\ lease.left \in 0..Ttl
        /\ Ttl \in Nat
    BY WorkerAssumption DEF TypeOK, Lease
  <2>2. ASSUME NEW w \in Workers
        PROVE  Granted(w) \in Lease /\ Granted(w).epoch \in Nat
    BY <2>1 DEF Granted, Lease
  <2>3. Freed \in Lease BY <2>1 DEF Freed, Lease
  <2>4. \A n \in 0..Ttl : [lease EXCEPT !.left = n] \in Lease BY <2>1 DEF Lease
  <2>5. Down(lease.left) \in 0..Ttl BY <2>1 DEF Down
  <2> QED BY <2>1, <2>2, <2>3, <2>4, <2>5
<1> USE <1>w, WorkerAssumption
        DEF TypeOK, Lease, Go, Places, Holding, Executing, row, mind, hist, Terminal
<1>1. ASSUME NEW e \in Execs, Dequeue(e) PROVE TypeOK'
  BY <1>1 DEF Dequeue, Pick, Fault
<1>2. ASSUME NEW e \in Execs, DequeueStalled(e) PROVE TypeOK'
  BY <1>2 DEF DequeueStalled, Pick, Fault
<1>3. ASSUME NEW e \in Execs, Ack(e) PROVE TypeOK'
  BY <1>3 DEF Ack
<1>4. ASSUME NEW e \in Execs, Retry(e) PROVE TypeOK'
  BY <1>4 DEF Retry
<1>5. ASSUME NEW e \in Execs, LoadRun(e) PROVE TypeOK'
  <2>1. pc' \in [Execs -> Places] BY <1>5 DEF LoadRun
  <2>2. active' \in [Workers -> BOOLEAN] BY <1>5 DEF LoadRun
  <2>3. UNCHANGED <<row, lease, job, token, mind, hist>> BY <1>5 DEF LoadRun
  <2> QED BY <2>1, <2>2, <2>3
<1>6. ASSUME NEW e \in Execs, Claim(e) PROVE TypeOK'
  <2> DEFINE w == WorkerOf(e)
             g == Granted(w)
  <2>1. w \in Workers /\ g \in Lease /\ g.epoch \in Nat BY <1>l
  <2>2. CASE Live /\ lease.owner # w
    BY <1>6, <2>1, <2>2 DEF Claim
  <2>3. CASE ~(Live /\ lease.owner # w)
    <3>1. /\ lease' = g /\ token' = [token EXCEPT ![e] = g.epoch]
          /\ stray' = FALSE /\ pc' = [pc EXCEPT ![e] = "claimed"]
          /\ UNCHANGED <<active, row, job, mind, faults, delays, overlap>>
      BY <1>6, <2>3 DEF Claim
    <3> HIDE DEF w, g
    <3> QED BY <2>1, <3>1
  <2> QED BY <2>2, <2>3
<1>7. ASSUME NEW e \in Execs, ClaimFails(e) PROVE TypeOK'
  <2> DEFINE w == WorkerOf(e)
             g == Granted(w)
  <2>1. w \in Workers /\ g \in Lease BY <1>l
  <2>2. /\ lease' \in {lease, g} /\ stray' \in BOOLEAN
        /\ active' = [active EXCEPT ![w] = FALSE]
        /\ pc' = [pc EXCEPT ![e] = "retry"]
        /\ UNCHANGED <<row, job, token, mind, overlap>>
    BY <1>7 DEF ClaimFails
  <2> HIDE DEF w, g
  <2> QED BY <2>1, <2>2
<1>8. ASSUME NEW e \in Execs, ClaimReply(e) PROVE TypeOK'
  BY <1>8 DEF ClaimReply
<1>9. ASSUME NEW e \in Execs, Reload(e) PROVE TypeOK'
  <2>1. CASE status \in Terminal \/ cancelled[e] BY <1>9, <2>1 DEF Reload
  <2>2. CASE ~ (status \in Terminal \/ cancelled[e]) BY <1>9, <2>2 DEF Reload
  <2> QED BY <2>1, <2>2
<1>10. ASSUME NEW e \in Execs, ReloadFails(e) \/ LoadFails(e) PROVE TypeOK'
  BY <1>10 DEF ReloadFails, LoadFails, Fault
<1>11. ASSUME NEW e \in Execs, SetupFails(e) PROVE TypeOK'
  BY <1>11 DEF SetupFails, Fault
<1>12. ASSUME NEW e \in Execs, Begin(e) PROVE TypeOK'
  BY <1>12 DEF Begin
<1>13. ASSUME NEW e \in Execs, StoreFails(e) PROVE TypeOK'
  BY <1>13 DEF StoreFails, Fault
<1>14. ASSUME NEW e \in Execs, HandleException(e) PROVE TypeOK'
  BY <1>14 DEF HandleException
<1>15. ASSUME NEW e \in Execs, MarkFailed(e) \/ HandlerFails(e) PROVE TypeOK'
  <2>1. CASE MarkFailed(e) BY <2>1 DEF MarkFailed
  <2>2. CASE HandlerFails(e) BY <2>2 DEF HandlerFails, Fault
  <2> QED BY <1>15, <2>1, <2>2
<1>16. ASSUME NEW e \in Execs, Renew(e) PROVE TypeOK'
  BY <1>16, <1>l DEF Renew
<1>17. ASSUME NEW e \in Execs, RenewFails(e) PROVE TypeOK'
  BY <1>17 DEF RenewFails, Fault
<1>18. ASSUME NEW e \in Execs, RenewReply(e) PROVE TypeOK'
  BY <1>18 DEF RenewReply
<1>19. ASSUME NEW e \in Execs, CancelRun(e) PROVE TypeOK'
  BY <1>19 DEF CancelRun
<1>20. ASSUME NEW e \in Execs, CancelCallback(e) PROVE TypeOK'
  BY <1>20 DEF CancelCallback, Fault
<1>21. ASSUME NEW e \in Execs, CloseSession(e) \/ CloseFails(e) PROVE TypeOK'
  <2>1. CASE CloseSession(e) BY <2>1 DEF CloseSession, Quiesce
  <2>2. CASE CloseFails(e) BY <2>2 DEF CloseFails, Quiesce, Fault
  <2> QED BY <1>21, <2>1, <2>2
<1>22. ASSUME NEW e \in Execs, ReleaseLease(e) PROVE TypeOK'
  BY <1>22, <1>l DEF ReleaseLease
<1>23. ASSUME NEW e \in Execs, ReleaseFails(e) PROVE TypeOK'
  BY <1>23, <1>l DEF ReleaseFails, Fault
<1>24. ASSUME NEW e \in Execs, Verify(e) \/ VerifyFails(e) PROVE TypeOK'
  <2>1. CASE Verify(e) BY <2>1 DEF Verify, Leave, ActiveAfter
  <2>2. CASE VerifyFails(e) BY <2>2 DEF VerifyFails, Leave, ActiveAfter, Fault
  <2> QED BY <1>24, <2>1, <2>2
<1>25. ASSUME NEW e \in Execs, NEW err \in {"none", "fatal"}, Finish(e, err) PROVE TypeOK'
  <2>1. pc' \in [Execs -> Places] BY <1>25 DEF Finish
  <2>2. status' \in Terminal \cup {"pending", "running"} BY <1>25 DEF Finish
  <2>3. error' \in [Execs -> {"none", "transient", "fatal"}] BY <1>25 DEF Finish
  <2>4. UNCHANGED <<ckpt, lease, job, active, token, budget, beat, cancelled, hist>>
    BY <1>25 DEF Finish
  <2> QED BY <2>1, <2>2, <2>3, <2>4
<1>26. ASSUME NEW w \in Workers, Crash(w) PROVE TypeOK'
  <2> DEFINE mine == {e \in Execs : WorkerOf(e) = w}
             Reset(f, v) == [e \in Execs |-> IF e \in mine THEN v ELSE f[e]]
  <2>1. /\ pc' = Reset(pc, "idle") /\ token' = Reset(token, 0)
        /\ budget' = Reset(budget, 0) /\ beat' = Reset(beat, "off")
        /\ cancelled' = Reset(cancelled, FALSE) /\ error' = Reset(error, "none")
        /\ overlap' = Reset(overlap, 0)
        /\ active' = [active EXCEPT ![w] = FALSE]
        /\ stray' \in BOOLEAN
        /\ UNCHANGED <<row, lease, job>>
    BY <1>26 DEF Crash
  <2> HIDE DEF mine
  <2>2. pc' \in [Execs -> Places] BY <2>1
  <2>3. token' \in [Execs -> Nat] BY <2>1
  <2>4. budget' \in [Execs -> 0..Ttl] BY <2>1
  <2>5. overlap' \in [Execs -> Nat] BY <2>1
  <2>6. /\ beat' \in [Execs -> {"off", "sleeping", "due", "ok", "lost"}]
        /\ error' \in [Execs -> {"none", "transient", "fatal"}]
    BY <2>1
  <2>7. cancelled' \in [Execs -> BOOLEAN] BY <2>1
  <2> HIDE DEF Reset
  <2> QED BY <2>1, <2>2, <2>3, <2>4, <2>5, <2>6, <2>7
<1>27. CASE Tick \/ DelayedTick
  <2>1. Advance BY <1>27 DEF Tick, DelayedTick
  <2>2. /\ \A n \in 0..Ttl : Down(n) \in 0..Ttl
        /\ \A n \in Nat : n + 1 \in Nat
    BY WorkerAssumption DEF Down
  <2>3. lease' \in Lease BY <2>1, <1>l DEF Advance
  <2>4. job' \in [state : {"queued", "picked", "delayed", "gone"}, by : Execs]
    BY <2>1 DEF Advance
  <2>5. budget' \in [Execs -> 0..Ttl] /\ overlap' \in [Execs -> Nat]
    BY <2>1, <2>2 DEF Advance
  <2>6. beat' \in [Execs -> {"off", "sleeping", "due", "ok", "lost"}]
    BY <2>1 DEF Advance
  <2> QED BY <2>1, <2>3, <2>4, <2>5, <2>6 DEF Advance
<1>28. CASE UNCHANGED vars
  BY <1>28 DEF vars
<1> QED
  BY <1>1, <1>2, <1>3, <1>4, <1>5, <1>6, <1>7, <1>8, <1>9, <1>10,
     <1>11, <1>12, <1>13, <1>14, <1>15, <1>16, <1>17, <1>18, <1>19, <1>20, <1>21, <1>22, <1>23,
     <1>24, <1>25, <1>26, <1>27, <1>28, NextCases
     DEF Progress, Heartbeat, Failure

-----------------------------------------------------------------------------
(* What a step of one execution may change of what the epochs depend on:    *)
(* it moves that execution only, and never into the parts of its life that  *)
(* begin with a registration or a claim.                                    *)
Quiet(e) ==
    /\ \E p \in Places :
          /\ pc' = [pc EXCEPT ![e] = p]
          /\ p \in Registered => pc[e] \in Registered
          /\ p \in Holding => pc[e] \in Holding
          /\ p \in Executing => pc[e] \in Executing \cup {"reload"}
    /\ lease'.owner = lease.owner /\ lease'.epoch = lease.epoch
    /\ UNCHANGED <<token, active>>

QuietAction(e) ==
    \/ Dequeue(e) \/ DequeueStalled(e) \/ Ack(e) \/ Retry(e)
    \/ ClaimReply(e) \/ Reload(e) \/ ReloadFails(e) \/ LoadFails(e)
    \/ SetupFails(e) \/ Begin(e) \/ StoreFails(e)
    \/ \E err \in {"none", "fatal"} : Finish(e, err)
    \/ HandleException(e) \/ MarkFailed(e) \/ HandlerFails(e)
    \/ Renew(e) \/ RenewFails(e) \/ RenewReply(e)
    \/ CancelRun(e) \/ CancelCallback(e) \/ CloseSession(e) \/ CloseFails(e)

LEMMA QuietSteps ==
    ASSUME TypeOK, NEW e \in Execs, QuietAction(e)
    PROVE  Quiet(e)
<1> USE DEF Quiet, Go, Places, Registered, Holding, Executing
<1>p. pc \in [Execs -> Places] /\ pc[e] \in Places
  BY DEF TypeOK
<1>1. CASE Dequeue(e) \/ DequeueStalled(e) BY <1>1 DEF Dequeue, DequeueStalled, Pick
<1>2. CASE Ack(e) \/ Retry(e) BY <1>2 DEF Ack, Retry
<1>3. CASE ClaimReply(e) \/ Reload(e) \/ ReloadFails(e) \/ LoadFails(e)
  BY <1>3 DEF ClaimReply, Reload, ReloadFails, LoadFails
<1>4. CASE SetupFails(e) \/ Begin(e) \/ StoreFails(e)
  BY <1>4 DEF SetupFails, Begin, StoreFails
<1>5. CASE \E err \in {"none", "fatal"} : Finish(e, err)
  BY <1>5 DEF Finish
<1>6. CASE HandleException(e) \/ MarkFailed(e) \/ HandlerFails(e)
  BY <1>6 DEF HandleException, MarkFailed, HandlerFails
<1>7. CASE Renew(e) \/ RenewFails(e) \/ RenewReply(e)
  <2>1. pc' = [pc EXCEPT ![e] = pc[e]] /\ UNCHANGED <<token, active>>
    BY <1>7, <1>p DEF Renew, RenewFails, RenewReply
  <2>2. lease'.owner = lease.owner /\ lease'.epoch = lease.epoch
    BY <1>7 DEF Renew, RenewFails, RenewReply, TypeOK
  <2> QED BY <1>p, <2>1, <2>2
<1>8. CASE CancelRun(e) \/ CloseSession(e) \/ CloseFails(e)
  BY <1>8 DEF CancelRun, CloseSession, CloseFails, Quiesce, Beating
<1>9. CASE CancelCallback(e)
  <2>1. UNCHANGED <<token, active, lease>> BY <1>9 DEF CancelCallback
  <2>2. CASE pc[e] \in Executing
    BY <1>9, <2>1, <2>2 DEF CancelCallback
  <2>3. CASE pc[e] \notin Executing
    <3>1. pc' = [pc EXCEPT ![e] = pc[e]]
      BY <1>9, <1>p, <2>3 DEF CancelCallback
    <3> QED BY <1>p, <2>1, <3>1
  <2> QED BY <2>2, <2>3
<1> QED
  BY <1>1, <1>2, <1>3, <1>4, <1>5, <1>6, <1>7, <1>8, <1>9 DEF QuietAction

(* The other actions: registration, claim, release, crash and time.         *)
LEMMA StepCases ==
    ASSUME [Next]_vars
    PROVE  \/ \E e \in Execs : QuietAction(e)
           \/ \E e \in Execs : LoadRun(e) \/ Claim(e) \/ ClaimFails(e)
           \/ \E e \in Execs : ReleaseLease(e) \/ ReleaseFails(e) \/ Verify(e) \/ VerifyFails(e)
           \/ \E w \in Workers : Crash(w)
           \/ Advance
           \/ UNCHANGED vars
BY NextCases DEF QuietAction, Progress, Heartbeat, Failure, Tick, DelayedTick

-----------------------------------------------------------------------------
(* The epochs.  A claim either takes an epoch above every token's, or       *)
(* refreshes the worker's own lease, whose other executions are not         *)
(* registered and hold no token.                                            *)
LEMMA EpochInit == Init => EpochInv
BY DEF Init, EpochInv, OneRegistered, TokensBehindLease, OneExecutionPerEpoch,
       Registered, Holding, Executing

LEMMA EpochStep ==
    ASSUME TypeOK, EpochInv, [Next]_vars
    PROVE  EpochInv'
<1>t. /\ pc \in [Execs -> Places] /\ token \in [Execs -> Nat]
      /\ active \in [Workers -> BOOLEAN]
      /\ lease.epoch \in Nat
      /\ \A e \in Execs : WorkerOf(e) \in Workers
  BY WorkerAssumption DEF TypeOK, WorkerOf
<1>s. Holding \subseteq Registered BY DEF Registered
<1> USE <1>t, <1>s DEF EpochInv, OneRegistered, TokensBehindLease, OneExecutionPerEpoch
<1>1. ASSUME NEW e \in Execs, QuietAction(e)
      PROVE  EpochInv'
  <2>1. Quiet(e) BY <1>1, QuietSteps
  <2>2. PICK p \in Places :
           /\ pc' = [pc EXCEPT ![e] = p]
           /\ p \in Registered => pc[e] \in Registered
           /\ p \in Holding => pc[e] \in Holding
    BY <2>1 DEF Quiet
  <2>3. \A d \in Execs : /\ pc'[d] \in Registered => pc[d] \in Registered
                         /\ pc'[d] \in Holding => pc[d] \in Holding
    BY <2>2
  <2> QED BY <2>1, <2>3 DEF Quiet
<1>2. ASSUME NEW e \in Execs, LoadRun(e)
      PROVE  EpochInv'
  <2>1. /\ \E p \in {"ack", "retry", "claim"} : pc' = [pc EXCEPT ![e] = p]
        /\ UNCHANGED <<lease, token>>
    BY <1>2 DEF LoadRun, Go
  <2>2. \A d \in Execs : pc'[d] \in Holding => pc[d] \in Holding
    BY <2>1 DEF Holding, Executing
  <2>3. CASE pc' = [pc EXCEPT ![e] = "claim"]
    <3>1. ~active[WorkerOf(e)] /\ active' = [active EXCEPT ![WorkerOf(e)] = TRUE]
      BY <1>2, <2>3 DEF LoadRun, Go
    <3>2. \A d \in Execs : d # e => pc'[d] = pc[d]
      BY <2>3
    <3>3. OneRegistered' BY <3>1, <3>2
    <3> QED BY <2>1, <2>2, <3>3
  <2>4. CASE pc' # [pc EXCEPT ![e] = "claim"]
    <3>1. UNCHANGED active BY <1>2, <2>4 DEF LoadRun, Go
    <3>2. \A d \in Execs : pc'[d] \in Registered => pc[d] \in Registered
      BY <2>1, <2>4 DEF Registered, Holding, Executing
    <3> QED BY <2>1, <2>2, <3>1, <3>2
  <2> QED BY <2>3, <2>4
<1>3. ASSUME NEW e \in Execs, Claim(e)
      PROVE  EpochInv'
  <2> DEFINE w == WorkerOf(e)
  <2>1. pc[e] = "claim" /\ pc[e] \in Registered BY <1>3 DEF Claim, Registered
  <2>2. \A d \in Execs : d # e /\ pc[d] \in Registered => WorkerOf(d) # w
    BY <2>1
  <2>3. CASE Live /\ lease.owner # w
    <3>1. /\ pc' = [pc EXCEPT ![e] = "retry"]
          /\ active' = [active EXCEPT ![w] = FALSE]
          /\ UNCHANGED <<lease, token>>
      BY <1>3, <2>3 DEF Claim, Go
    <3>2. "retry" \notin Registered BY DEF Registered, Holding, Executing
    <3> QED BY <2>2, <3>1, <3>2
  <2>4. CASE ~(Live /\ lease.owner # w)
    <3>1. /\ pc' = [pc EXCEPT ![e] = "claimed"]
          /\ token' = [token EXCEPT ![e] = Granted(w).epoch]
          /\ lease' = Granted(w)
          /\ UNCHANGED active
      BY <1>3, <2>4 DEF Claim, Go
    <3>2. /\ lease'.epoch = Granted(w).epoch
          /\ lease'.owner = w
          /\ \/ Granted(w).epoch = lease.epoch + 1
             \/ Granted(w).epoch = lease.epoch /\ lease.owner = w
      BY <3>1 DEF Granted
    <3>3. "claimed" \in Registered /\ "claimed" \in Holding
      BY DEF Registered, Holding
    <3>4. OneRegistered' BY <2>1, <3>1, <3>3
    <3>5. \A d \in Execs : d # e /\ pc[d] \in Holding => token[d] < lease'.epoch
      BY <2>2, <3>2
    <3>6. TokensBehindLease' /\ OneExecutionPerEpoch' BY <3>1, <3>2, <3>5
    <3> QED BY <3>4, <3>6
  <2> QED BY <2>3, <2>4
<1>4. ASSUME NEW e \in Execs, ClaimFails(e)
      PROVE  EpochInv'
  <2> DEFINE w == WorkerOf(e)
  <2>1. pc[e] \in Registered BY <1>4 DEF ClaimFails, Registered
  <2>2. \A d \in Execs : d # e /\ pc[d] \in Registered => WorkerOf(d) # w
    BY <2>1
  <2>3. /\ pc' = [pc EXCEPT ![e] = "retry"]
        /\ active' = [active EXCEPT ![w] = FALSE]
        /\ UNCHANGED token
        /\ lease' = lease \/ (lease' = Granted(w) /\ ~(Live /\ lease.owner # w))
    BY <1>4 DEF ClaimFails, Go
  <2>4. "retry" \notin Registered BY DEF Registered, Holding, Executing
  <2>5. OneRegistered' BY <2>2, <2>3, <2>4
  <2>6. /\ lease'.epoch \in Nat /\ lease'.epoch >= lease.epoch
        /\ lease'.epoch = lease.epoch => lease'.owner = lease.owner
    BY <2>3 DEF Granted
  <2>7. TokensBehindLease' /\ OneExecutionPerEpoch' BY <2>3, <2>4, <2>6
  <2> QED BY <2>5, <2>7
<1>5. ASSUME NEW e \in Execs, ReleaseLease(e) \/ ReleaseFails(e)
      PROVE  EpochInv'
  <2>1. /\ pc' = [pc EXCEPT ![e] = "verify"]
        /\ pc[e] = "releasing"
        /\ UNCHANGED <<token, active>>
        /\ lease' = lease \/ lease' = Freed
    BY <1>5 DEF ReleaseLease, ReleaseFails, Go
  <2>2. lease' = lease \/ (lease'.epoch \in Nat /\ lease'.epoch > lease.epoch)
    BY <2>1 DEF Freed
  <2>3. /\ pc[e] \in Registered /\ "verify" \notin Holding
    BY <2>1 DEF Registered, Holding, Executing
  <2>4. OneRegistered' BY <2>1, <2>3
  <2>5. TokensBehindLease' /\ OneExecutionPerEpoch' BY <2>1, <2>2, <2>3
  <2> QED BY <2>4, <2>5
<1>6. ASSUME NEW e \in Execs, Verify(e) \/ VerifyFails(e)
      PROVE  EpochInv'
  <2>1. /\ \E p \in {"ack", "retry"} : pc' = [pc EXCEPT ![e] = p]
        /\ token' = [token EXCEPT ![e] = 0]
        /\ active' = [active EXCEPT ![WorkerOf(e)] = FALSE]
        /\ UNCHANGED lease
    BY <1>6 DEF Verify, VerifyFails, Leave, Go, ActiveAfter
  <2>2. pc[e] \in Registered BY <1>6 DEF Verify, VerifyFails, Leave, Registered
  <2>3. pc'[e] \notin Registered BY <2>1 DEF Registered, Holding, Executing
  <2>4. \A d \in Execs : d # e => pc'[d] = pc[d] /\ token'[d] = token[d]
    BY <2>1
  <2>5. \A d \in Execs : d # e /\ pc[d] \in Registered => WorkerOf(d) # WorkerOf(e)
    BY <2>2
  <2> QED BY <2>1, <2>3, <2>4, <2>5
<1>7. ASSUME NEW w \in Workers, Crash(w)
      PROVE  EpochInv'
  <2>1. /\ \A d \in Execs : IF WorkerOf(d) = w THEN pc'[d] = "idle"
                            ELSE pc'[d] = pc[d] /\ token'[d] = token[d]
        /\ active' = [active EXCEPT ![w] = FALSE]
        /\ UNCHANGED lease
    BY <1>7 DEF Crash
  <2>2. "idle" \notin Registered BY DEF Registered, Holding, Executing
  <2> QED BY <2>1, <2>2
<1>8. CASE Advance
  <2>1. UNCHANGED <<pc, token, active>> BY <1>8 DEF Advance
  <2>2. lease'.epoch = lease.epoch /\ lease'.owner = lease.owner
    BY <1>8 DEF Advance, TypeOK
  <2> QED BY <2>1, <2>2
<1>9. CASE UNCHANGED vars
  BY <1>9 DEF vars
<1> QED
  BY <1>1, <1>2, <1>3, <1>4, <1>5, <1>6, <1>7, <1>8, <1>9, StepCases

(* An execution whose token is current is the only one.                     *)
LEMMA OneCurrent ==
    ASSUME EpochInv, NEW d \in Execs, NEW e \in Execs,
           pc[d] \in Holding, pc[e] \in Holding, Current(d), Current(e)
    PROVE  d = e
BY DEF EpochInv, OneExecutionPerEpoch, Current

-----------------------------------------------------------------------------
(* The end of a run.  A status is only written by an execution whose token  *)
(* is current at that moment, and the one that may still write finds the    *)
(* run unfinished.                                                          *)
StatusWrite(e) ==
    \/ Begin(e) \/ StoreFails(e) \/ MarkFailed(e) \/ HandlerFails(e)
    \/ \E err \in {"none", "fatal"} : Finish(e, err)

LEMMA StatusWrites ==
    ASSUME TypeOK, [Next]_vars
    PROVE  \/ status' = status
           \/ \E e \in Execs : StatusWrite(e) /\ pc[e] \in Writing /\ Current(e)
<1> USE DEF Writing, Executing
<1>1. ASSUME NEW e \in Execs, StatusWrite(e), status' # status
      PROVE  pc[e] \in Writing /\ Current(e)
  BY <1>1 DEF StatusWrite, Begin, StoreFails, MarkFailed, HandlerFails, Finish, row
<1>2. ASSUME NEW e \in Execs,
             \/ Dequeue(e) \/ DequeueStalled(e) \/ Ack(e) \/ Retry(e)
             \/ ClaimReply(e) \/ Reload(e) \/ ReloadFails(e) \/ LoadFails(e)
             \/ SetupFails(e) \/ HandleException(e)
             \/ Renew(e) \/ RenewFails(e) \/ RenewReply(e)
             \/ CancelRun(e) \/ CancelCallback(e) \/ CloseSession(e) \/ CloseFails(e)
      PROVE  status' = status
  BY <1>2 DEF Dequeue, DequeueStalled, Pick, Ack, Retry, ClaimReply, Reload, ReloadFails, LoadFails,
              SetupFails, HandleException, Renew, RenewFails, RenewReply, CancelRun,
              CancelCallback, CloseSession, CloseFails, Quiesce, row
<1>3. ASSUME NEW e \in Execs, \/ LoadRun(e) \/ Claim(e) \/ ClaimFails(e)
                              \/ ReleaseLease(e) \/ ReleaseFails(e) \/ Verify(e) \/ VerifyFails(e)
      PROVE  status' = status
  BY <1>3 DEF LoadRun, Claim, ClaimFails, ReleaseLease, ReleaseFails, Verify, VerifyFails, Leave, row
<1>4. CASE (\E w \in Workers : Crash(w)) \/ Advance \/ UNCHANGED vars
  BY <1>4 DEF Crash, Advance, vars, row
<1> QED BY <1>1, <1>2, <1>3, <1>4, StepCases DEF QuietAction, StatusWrite

LEMMA TerminalStep ==
    ASSUME TypeOK, WritersFindOpenRun, [Next]_vars, status \in Terminal
    PROVE  status' = status
BY StatusWrites DEF WritersFindOpenRun

(* How an execution comes to write, to acknowledge, or to end the job.      *)
LEMMA WritingBegins ==
    ASSUME TypeOK, EpochInv, [Next]_vars, NEW d \in Execs,
           pc'[d] \in Writing, Current(d)'
    PROVE  \/ pc[d] \in Writing /\ Current(d)
           \/ status \notin Terminal /\ status' = status
<1> USE DEF Writing, Executing, Holding
<1>p. pc \in [Execs -> Places] /\ token \in [Execs -> Nat] /\ lease.epoch \in Nat
  BY DEF TypeOK
<1>1. ASSUME NEW e \in Execs, QuietAction(e)
      PROVE  \/ pc[d] \in Writing /\ Current(d)
             \/ status \notin Terminal /\ status' = status
  <2>1. Current(d) BY <1>1, QuietSteps DEF Quiet, Current
  <2>2. CASE pc'[d] = pc[d] BY <2>1, <2>2
  <2>3. CASE pc'[d] # pc[d]
    <3>1. d = e BY <1>1, <1>p, <2>3, QuietSteps DEF Quiet
    <3>2. CASE Reload(e) BY <1>p, <2>3, <3>1, <3>2 DEF Reload, Go, row
    <3>3. CASE HandleException(e)
      BY <1>p, <2>3, <3>1, <3>3 DEF HandleException, Go, row
    <3>4. CASE Begin(e) BY <1>p, <2>1, <3>1, <3>4 DEF Begin
    <3>5. CASE \/ Dequeue(e) \/ DequeueStalled(e) \/ Ack(e) \/ Retry(e)
               \/ ClaimReply(e) \/ ReloadFails(e) \/ LoadFails(e) \/ SetupFails(e) \/ StoreFails(e)
      BY <1>p, <3>1, <3>5
         DEF Dequeue, DequeueStalled, Pick, Ack, Retry, ClaimReply, ReloadFails, LoadFails,
             SetupFails, StoreFails, Go
    <3>6. CASE \/ \E err \in {"none", "fatal"} : Finish(e, err)
               \/ MarkFailed(e) \/ HandlerFails(e) \/ CancelRun(e) \/ CloseSession(e) \/ CloseFails(e)
      BY <1>p, <3>1, <3>6 DEF Finish, MarkFailed, HandlerFails, CancelRun, CloseSession, CloseFails,
                                   Quiesce, Go
    <3>7. CASE CancelCallback(e)
      BY <1>p, <2>3, <3>1, <3>7 DEF CancelCallback
    <3>8. CASE Renew(e) \/ RenewFails(e) \/ RenewReply(e)
      BY <2>3, <3>8 DEF Renew, RenewFails, RenewReply
    <3> QED BY <1>1, <3>2, <3>3, <3>4, <3>5, <3>6, <3>7, <3>8 DEF QuietAction
  <2> QED BY <2>2, <2>3
<1>2. ASSUME NEW e \in Execs, LoadRun(e)
      PROVE  pc[d] \in Writing /\ Current(d)
  BY <1>2, <1>p DEF LoadRun, Go, Current
<1>3. ASSUME NEW e \in Execs, Claim(e) \/ ClaimFails(e)
      PROVE  pc[d] \in Writing /\ Current(d)
  <2> DEFINE w == WorkerOf(e)
  <2>1. /\ pc[e] = "claim"
        /\ \E p \in {"retry", "claimed"} : pc' = [pc EXCEPT ![e] = p]
        /\ (lease' = lease /\ token'[d] = token[d]) \/ lease' = Granted(w)
    BY <1>3, <1>p DEF Claim, ClaimFails, Go
  <2>2. d # e /\ pc[d] \in Writing BY <1>p, <2>1
  <2>3. WorkerOf(d) # w
    BY <2>1, <2>2 DEF EpochInv, OneRegistered, Registered
  <2>4. lease' # Granted(w) BY <2>3 DEF Current, Granted
  <2> QED BY <2>1, <2>2, <2>4 DEF Current
<1>4. ASSUME NEW e \in Execs, ReleaseLease(e) \/ ReleaseFails(e)
      PROVE  pc[d] \in Writing /\ Current(d)
  <2>1. /\ pc' = [pc EXCEPT ![e] = "verify"] /\ UNCHANGED token
        /\ lease' = lease \/ lease' = Freed
    BY <1>4 DEF ReleaseLease, ReleaseFails, Go
  <2>2. pc[d] \in Writing BY <1>p, <2>1
  <2>3. token[d] <= lease.epoch BY <2>2 DEF EpochInv, TokensBehindLease
  <2>4. lease' # Freed BY <1>p, <2>1, <2>3 DEF Current, Freed
  <2> QED BY <2>1, <2>2, <2>4 DEF Current
<1>5. ASSUME NEW e \in Execs, Verify(e) \/ VerifyFails(e)
      PROVE  pc[d] \in Writing /\ Current(d)
  BY <1>5, <1>p DEF Verify, VerifyFails, Leave, Go, Current
<1>6. ASSUME NEW w \in Workers, Crash(w)
      PROVE  pc[d] \in Writing /\ Current(d)
  BY <1>6 DEF Crash, Current
<1>7. CASE Advance
  BY <1>7 DEF Advance, Current, TypeOK
<1>8. CASE UNCHANGED vars BY <1>8 DEF vars, Current
<1> QED BY <1>1, <1>2, <1>3, <1>4, <1>5, <1>6, <1>7, <1>8, StepCases

LEMMA AckBegins ==
    ASSUME TypeOK, [Next]_vars, NEW d \in Execs, pc'[d] = "ack"
    PROVE  pc[d] = "ack" \/ status \in Terminal
<1>p. pc \in [Execs -> Places] BY DEF TypeOK
<1>1. ASSUME NEW e \in Execs,
             \/ Dequeue(e) \/ DequeueStalled(e) \/ Ack(e) \/ Retry(e)
             \/ ClaimReply(e) \/ Reload(e) \/ ReloadFails(e) \/ LoadFails(e)
             \/ SetupFails(e) \/ Begin(e) \/ StoreFails(e)
             \/ \E err \in {"none", "fatal"} : Finish(e, err)
      PROVE  pc[d] = "ack"
  BY <1>1, <1>p DEF Dequeue, DequeueStalled, Pick, Ack, Retry, ClaimReply, Reload,
                    ReloadFails, LoadFails, SetupFails, Begin, StoreFails, Finish, Go
<1>2. ASSUME NEW e \in Execs,
             \/ HandleException(e) \/ MarkFailed(e) \/ HandlerFails(e)
             \/ Renew(e) \/ RenewFails(e) \/ RenewReply(e)
             \/ CancelRun(e) \/ CancelCallback(e) \/ CloseSession(e) \/ CloseFails(e)
      PROVE  pc[d] = "ack"
  BY <1>2, <1>p DEF HandleException, MarkFailed, HandlerFails, Renew, RenewFails, RenewReply, CancelRun,
                    CancelCallback, CloseSession, CloseFails, Quiesce, Go
<1>3. ASSUME NEW e \in Execs, LoadRun(e) \/ Verify(e) \/ VerifyFails(e)
      PROVE  pc[d] = "ack" \/ status \in Terminal
  BY <1>3, <1>p DEF LoadRun, Verify, VerifyFails, Leave, Settled, Go
<1>4. ASSUME NEW e \in Execs, Claim(e) \/ ClaimFails(e) \/ ReleaseLease(e) \/ ReleaseFails(e)
      PROVE  pc[d] = "ack"
  BY <1>4, <1>p DEF Claim, ClaimFails, ReleaseLease, ReleaseFails, Go
<1>5. ASSUME NEW w \in Workers, Crash(w)
      PROVE  pc[d] = "ack"
  <2>1. pc'[d] = IF d \in {e \in Execs : WorkerOf(e) = w} THEN "idle" ELSE pc[d]
    BY <1>5 DEF Crash
  <2> QED BY <2>1
<1>6. CASE Advance \/ UNCHANGED vars
  BY <1>6 DEF Advance, vars
<1> QED BY <1>1, <1>2, <1>3, <1>4, <1>5, <1>6, StepCases DEF QuietAction

LEMMA JobEnds ==
    ASSUME TypeOK, [Next]_vars, job'.state = "gone"
    PROVE  job.state = "gone" \/ \E e \in Execs : pc[e] = "ack"
<1>1. ASSUME NEW e \in Execs, Dequeue(e) \/ DequeueStalled(e) \/ Retry(e)
      PROVE  job.state = "gone"
  BY <1>1 DEF Dequeue, DequeueStalled, Pick, Retry, TypeOK
<1>2. ASSUME NEW e \in Execs, Ack(e) PROVE pc[e] = "ack"
  BY <1>2 DEF Ack
<1>3. ASSUME NEW e \in Execs,
             \/ ClaimReply(e) \/ Reload(e) \/ ReloadFails(e) \/ LoadFails(e)
             \/ SetupFails(e) \/ Begin(e) \/ StoreFails(e)
             \/ \E err \in {"none", "fatal"} : Finish(e, err)
             \/ HandleException(e) \/ MarkFailed(e) \/ HandlerFails(e)
             \/ Renew(e) \/ RenewFails(e) \/ RenewReply(e)
             \/ CancelRun(e) \/ CancelCallback(e) \/ CloseSession(e) \/ CloseFails(e)
             \/ LoadRun(e) \/ Claim(e) \/ ClaimFails(e)
             \/ ReleaseLease(e) \/ ReleaseFails(e) \/ Verify(e) \/ VerifyFails(e)
      PROVE  job.state = "gone"
  BY <1>3 DEF ClaimReply, Reload, ReloadFails, LoadFails, SetupFails, Begin, StoreFails, Finish,
              HandleException, MarkFailed, HandlerFails, Renew, RenewFails, RenewReply, CancelRun,
              CancelCallback, CloseSession, CloseFails, Quiesce, LoadRun, Claim, ClaimFails, ReleaseLease,
              ReleaseFails, Verify, VerifyFails, Leave
<1>4. CASE (\E w \in Workers : Crash(w)) \/ Advance \/ UNCHANGED vars
  BY <1>4 DEF Crash, Advance, vars, TypeOK
<1> QED BY <1>1, <1>2, <1>3, <1>4, StepCases DEF QuietAction

LEMMA SettleStep ==
    ASSUME TypeOK, EpochInv, SettleInv, [Next]_vars
    PROVE  SettleInv'
<1>1. TypeOK' /\ EpochInv' BY TypeStep, EpochStep
<1>2. status \in Terminal => status' = status
  BY TerminalStep DEF SettleInv
<1>3. WritersFindOpenRun'
  <2> SUFFICES ASSUME NEW d \in Execs, pc'[d] \in Writing, Current(d)'
               PROVE  status' \notin Terminal
    BY DEF WritersFindOpenRun
  <2>1. CASE status \notin Terminal /\ status' = status BY <2>1
  <2>2. CASE pc[d] \in Writing /\ Current(d)
    <3>1. status \notin Terminal BY <2>2 DEF SettleInv, WritersFindOpenRun
    <3>2. ASSUME NEW e \in Execs, StatusWrite(e), pc[e] \in Writing, Current(e)
          PROVE  status' \notin Terminal
      <4>1. d = e BY <2>2, <3>2, OneCurrent DEF Writing, Holding
      <4>2. pc \in [Execs -> Places] BY DEF TypeOK
      <4>3. CASE Begin(e)
        BY <3>1, <4>3 DEF Begin, Terminal, row
      <4>4. CASE \/ StoreFails(e) \/ MarkFailed(e) \/ HandlerFails(e)
                 \/ \E err \in {"none", "fatal"} : Finish(e, err)
        BY <4>1, <4>2, <4>4 DEF StoreFails, MarkFailed, HandlerFails, Finish, Go, Writing, Executing
      <4> QED BY <3>2, <4>3, <4>4 DEF StatusWrite
    <3> QED BY <3>1, <3>2, StatusWrites
  <2> QED BY <2>1, <2>2, WritingBegins
<1>4. AckOfTerminal'
  BY <1>2, AckBegins DEF SettleInv, AckOfTerminal
<1>5. JobOutlivesRun'
  BY <1>2, JobEnds DEF SettleInv, AckOfTerminal, JobOutlivesRun
<1> QED BY <1>3, <1>4, <1>5 DEF SettleInv

-----------------------------------------------------------------------------
(* The lease.  Whatever takes the holder of a live lease out of the part of *)
(* its life in which it will release it, frees the lease or is recorded as  *)
(* a lost process or a lost reply.                                          *)
LEMMA HolderStep ==
    ASSUME TypeOK, EpochInv, LeaseHasHolder, [Next]_vars
    PROVE  LeaseHasHolder'
<1>t. /\ pc \in [Execs -> Places] /\ token \in [Execs -> Nat]
      /\ lease.epoch \in Nat /\ lease.left \in Nat
      /\ lease \in [owner : Workers \cup {NoOwner}, epoch : Nat, left : 0..Ttl]
      /\ \A e \in Execs : WorkerOf(e) \in Workers
  BY WorkerAssumption DEF TypeOK, WorkerOf
<1> SUFFICES ASSUME Live', ~stray'
             PROVE  \E d \in Execs : Current(d)' /\ pc'[d] \in Holding
  BY DEF LeaseHasHolder
<1>1. ASSUME NEW e \in Execs, QuietAction(e)
      PROVE  \E d \in Execs : Current(d)' /\ pc'[d] \in Holding
  <2>1. Quiet(e) BY <1>1, QuietSteps
  <2>2. Live /\ ~stray
    <3>1. CASE \/ Dequeue(e) \/ DequeueStalled(e) \/ Ack(e) \/ Retry(e)
               \/ ClaimReply(e) \/ Reload(e) \/ ReloadFails(e) \/ LoadFails(e)
               \/ SetupFails(e) \/ Begin(e) \/ StoreFails(e)
      BY <3>1 DEF Dequeue, DequeueStalled, Pick, Ack, Retry, ClaimReply, Reload,
                  ReloadFails, LoadFails, SetupFails, Begin, StoreFails, hist, Live
    <3>2. CASE \/ \E err \in {"none", "fatal"} : Finish(e, err)
               \/ HandleException(e) \/ MarkFailed(e) \/ HandlerFails(e)
               \/ CancelRun(e) \/ CancelCallback(e) \/ CloseSession(e) \/ CloseFails(e)
      BY <3>2 DEF Finish, HandleException, MarkFailed, HandlerFails, CancelRun, CancelCallback,
                  CloseSession, CloseFails, Quiesce, hist, Live
    <3>3. CASE Renew(e) \/ RenewFails(e) \/ RenewReply(e)
      BY <3>3, <1>t DEF Renew, RenewFails, RenewReply, hist, Live
    <3> QED BY <1>1, <3>1, <3>2, <3>3 DEF QuietAction
  <2>3. PICK d \in Execs : Current(d) /\ pc[d] \in Holding
    BY <2>2 DEF LeaseHasHolder
  <2>4. Current(d)' BY <2>1, <2>3 DEF Quiet, Current
  <2>5. pc'[d] \in Holding
    <3>1. CASE d # e BY <1>t, <2>1, <2>3, <3>1 DEF Quiet
    <3>2. CASE d = e
      <4>1. ~ (Dequeue(e) \/ DequeueStalled(e) \/ Ack(e) \/ Retry(e) \/ LoadFails(e))
        BY <2>3, <3>2
           DEF Dequeue, DequeueStalled, Pick, Ack, Retry, LoadFails, Holding, Executing
      <4>2. CASE \/ ClaimReply(e) \/ Reload(e) \/ ReloadFails(e)
                 \/ SetupFails(e) \/ Begin(e) \/ StoreFails(e)
                 \/ \E err \in {"none", "fatal"} : Finish(e, err)
        BY <1>t, <3>2, <4>2
           DEF ClaimReply, Reload, ReloadFails, SetupFails, Begin, StoreFails, Finish, Go,
               Holding, Executing
      <4>3. CASE \/ HandleException(e) \/ MarkFailed(e) \/ HandlerFails(e) \/ CancelRun(e)
                 \/ CloseSession(e) \/ CloseFails(e)
        BY <1>t, <3>2, <4>3
           DEF HandleException, MarkFailed, HandlerFails, CancelRun, CloseSession, CloseFails,
               Quiesce, Go, Holding, Executing
      <4>4. CASE Renew(e) \/ RenewFails(e) \/ RenewReply(e) \/ CancelCallback(e)
        BY <1>t, <2>3, <3>2, <4>4
           DEF Renew, RenewFails, RenewReply, CancelCallback, Holding, Executing
      <4> QED BY <1>1, <4>1, <4>2, <4>3, <4>4 DEF QuietAction
    <3> QED BY <3>1, <3>2
  <2> QED BY <2>4, <2>5
<1>2. ASSUME NEW e \in Execs, LoadRun(e)
      PROVE  \E d \in Execs : Current(d)' /\ pc'[d] \in Holding
  <2>1. /\ pc[e] = "load" /\ UNCHANGED <<lease, token, stray>>
        /\ \E p \in Places : pc' = [pc EXCEPT ![e] = p]
    BY <1>2 DEF LoadRun, Go, Places, hist
  <2>2. PICK d \in Execs : Current(d) /\ pc[d] \in Holding
    BY <2>1 DEF LeaseHasHolder, Live
  <2>3. d # e BY <2>1, <2>2 DEF Holding, Executing
  <2> QED BY <1>t, <2>1, <2>2, <2>3 DEF Current
<1>3. ASSUME NEW e \in Execs, Claim(e) \/ ClaimFails(e)
      PROVE  \E d \in Execs : Current(d)' /\ pc'[d] \in Holding
  <2> DEFINE w == WorkerOf(e)
  <2>1. CASE Claim(e) /\ ~(Live /\ lease.owner # w)
    <3>1. /\ pc' = [pc EXCEPT ![e] = "claimed"]
          /\ token' = [token EXCEPT ![e] = Granted(w).epoch]
          /\ lease' = Granted(w)
      BY <2>1 DEF Claim, Go
    <3>2. Current(e)' BY <1>t, <3>1 DEF Current, Granted
    <3> QED BY <1>t, <3>1, <3>2 DEF Holding
  <2>2. CASE ~(Claim(e) /\ ~(Live /\ lease.owner # w))
    <3>1. /\ pc[e] = "claim" /\ pc' = [pc EXCEPT ![e] = "retry"]
          /\ UNCHANGED <<lease, token, stray>>
      BY <1>3, <2>2 DEF Claim, ClaimFails, Go
    <3>2. PICK d \in Execs : Current(d) /\ pc[d] \in Holding
      BY <3>1 DEF LeaseHasHolder, Live
    <3>3. d # e BY <3>1, <3>2 DEF Holding, Executing
    <3> QED BY <1>t, <3>1, <3>2, <3>3 DEF Current
  <2> QED BY <2>1, <2>2
<1>4. ASSUME NEW e \in Execs, ReleaseLease(e) \/ ReleaseFails(e)
      PROVE  \E d \in Execs : Current(d)' /\ pc'[d] \in Holding
  <2>1. /\ pc' = [pc EXCEPT ![e] = "verify"] /\ UNCHANGED token
        /\ lease' = lease \/ lease' = Freed
    BY <1>4 DEF ReleaseLease, ReleaseFails, Go
  <2>2. lease' = lease /\ ~Current(e) /\ ~stray
    <3>1. lease' # Freed BY <2>1 DEF Freed, Live
    <3>2. CASE ReleaseLease(e)
      BY <2>1, <3>1, <3>2 DEF ReleaseLease, Releases, hist
    <3>3. CASE ReleaseFails(e)
      BY <2>1, <3>1, <3>3 DEF ReleaseFails
    <3> QED BY <1>4, <3>2, <3>3
  <2>3. PICK d \in Execs : Current(d) /\ pc[d] \in Holding
    BY <2>2 DEF LeaseHasHolder, Live
  <2> QED BY <1>t, <2>1, <2>2, <2>3 DEF Current
<1>5. ASSUME NEW e \in Execs, Verify(e) \/ VerifyFails(e)
      PROVE  \E d \in Execs : Current(d)' /\ pc'[d] \in Holding
  <2>1. /\ pc[e] = "verify" /\ UNCHANGED <<lease, stray>>
        /\ \E p \in Places : pc' = [pc EXCEPT ![e] = p]
        /\ token' = [token EXCEPT ![e] = 0]
    BY <1>5 DEF Verify, VerifyFails, Leave, Go, Places, hist
  <2>2. PICK d \in Execs : Current(d) /\ pc[d] \in Holding
    BY <2>1 DEF LeaseHasHolder, Live
  <2>3. d # e BY <2>1, <2>2 DEF Holding, Executing
  <2> QED BY <1>t, <2>1, <2>2, <2>3 DEF Current
<1>6. ASSUME NEW w \in Workers, Crash(w)
      PROVE  \E d \in Execs : Current(d)' /\ pc'[d] \in Holding
  <2>1. /\ \A d \in Execs : WorkerOf(d) # w => pc'[d] = pc[d] /\ token'[d] = token[d]
        /\ UNCHANGED lease
        /\ ~stray /\ lease.owner # w
    BY <1>6 DEF Crash
  <2>2. PICK d \in Execs : Current(d) /\ pc[d] \in Holding
    BY <2>1 DEF LeaseHasHolder, Live
  <2> QED BY <2>1, <2>2 DEF Current
<1>7. CASE Advance
  <2>1. /\ UNCHANGED <<pc, token, stray>>
        /\ lease'.owner = lease.owner /\ lease'.epoch = lease.epoch
        /\ lease.left = 0 => lease'.left = 0
    BY <1>7, <1>t DEF Advance, Down
  <2>2. Live BY <1>t, <2>1 DEF Live
  <2> QED BY <2>1, <2>2 DEF LeaseHasHolder, Current
<1>8. CASE UNCHANGED vars BY <1>8 DEF vars, hist, LeaseHasHolder, Live, Current
<1> QED BY <1>1, <1>2, <1>3, <1>4, <1>5, <1>6, <1>7, <1>8, StepCases

-----------------------------------------------------------------------------
(* The overlap.  Budgets only grow in a reply, and the reply of a renewal   *)
(* that is still waited for belongs to a lease that is still live, so an    *)
(* execution that was superseded never gets new time.                       *)
LEMMA QuietTimers ==
    ASSUME TypeOK, NEW e \in Execs, QuietAction(e)
    PROVE  /\ \A d \in Execs \ {e} :
                 budget'[d] = budget[d] /\ beat'[d] = beat[d] /\ overlap'[d] = overlap[d]
           /\ lease'.left = lease.left \/ lease'.left = Ttl
<1>t. /\ budget \in [Execs -> 0..Ttl] /\ overlap \in [Execs -> Nat]
      /\ beat \in [Execs -> {"off", "sleeping", "due", "ok", "lost"}]
      /\ lease \in [owner : Workers \cup {NoOwner}, epoch : Nat, left : 0..Ttl]
  BY DEF TypeOK
<1> USE <1>t DEF mind, hist
<1>1. CASE \/ Dequeue(e) \/ DequeueStalled(e) \/ Ack(e) \/ Retry(e)
           \/ ClaimReply(e) \/ Reload(e) \/ ReloadFails(e) \/ LoadFails(e)
  BY <1>1 DEF Dequeue, DequeueStalled, Pick, Ack, Retry, ClaimReply, Reload, ReloadFails, LoadFails
<1>2. CASE \/ SetupFails(e) \/ Begin(e) \/ StoreFails(e)
           \/ \E err \in {"none", "fatal"} : Finish(e, err)
           \/ HandleException(e) \/ MarkFailed(e) \/ HandlerFails(e)
  BY <1>2 DEF SetupFails, Begin, StoreFails, Finish, HandleException, MarkFailed, HandlerFails
<1>3. CASE Renew(e) \/ RenewFails(e) \/ RenewReply(e)
  BY <1>3 DEF Renew, RenewFails, RenewReply
<1>4. CASE CancelRun(e) \/ CancelCallback(e) \/ CloseSession(e) \/ CloseFails(e)
  BY <1>4 DEF CancelRun, CancelCallback, CloseSession, CloseFails, Quiesce
<1> QED BY <1>1, <1>2, <1>3, <1>4 DEF QuietAction

(* What the overlap invariant says of one execution.                        *)
Covered(d) ==
    /\ pc[d] \in Executing /\ beat[d] = "ok" /\ budget[d] > 0 =>
          Current(d) /\ budget[d] <= lease.left
    /\ pc[d] \in Executing =>
          /\ Current(d) => overlap[d] = 0
          /\ overlap[d] + budget[d] <= Ttl
    /\ pc[d] \notin Executing \cup {"closing", "except", "failing"} => overlap[d] = 0

LEMMA OverlapCovered == OverlapInv <=> \A d \in Execs : Covered(d)
BY DEF OverlapInv, ReplyCovered, OverlapBudgeted, Covered

(* The execution that takes a quiet step.                                   *)
LEMMA OwnQuietStep ==
    ASSUME TypeOK, NEW e \in Execs, QuietAction(e), Covered(e)
    PROVE  Covered(e)'
<1>t. /\ pc \in [Execs -> Places] /\ Ttl \in Nat \ {0, 1}
      /\ budget \in [Execs -> 0..Ttl] /\ overlap \in [Execs -> Nat]
      /\ beat \in [Execs -> {"off", "sleeping", "due", "ok", "lost"}]
      /\ lease \in [owner : Workers \cup {NoOwner}, epoch : Nat, left : 0..Ttl]
      /\ token \in [Execs -> Nat]
  BY WorkerAssumption DEF TypeOK
<1>c. Current(e)' <=> Current(e) BY QuietSteps DEF Quiet, Current
<1> USE <1>t, <1>c DEF Covered, Executing, Go, mind, hist
<1>1. CASE \/ Dequeue(e) \/ DequeueStalled(e) \/ Ack(e) \/ Retry(e)
  BY <1>1 DEF Dequeue, DequeueStalled, Pick, Ack, Retry
<1>2. CASE ClaimReply(e) \/ ReloadFails(e) \/ LoadFails(e)
  BY <1>2 DEF ClaimReply, ReloadFails, LoadFails
<1>3. CASE Reload(e)
  BY <1>3 DEF Reload
<1>4. CASE SetupFails(e) \/ Begin(e) \/ StoreFails(e)
  BY <1>4 DEF SetupFails, Begin, StoreFails
<1>5. CASE \/ \E err \in {"none", "fatal"} : Finish(e, err)
           \/ HandleException(e) \/ MarkFailed(e) \/ HandlerFails(e)
  BY <1>5 DEF Finish, HandleException, MarkFailed, HandlerFails
<1>6. CASE Renew(e)
  BY <1>6 DEF Renew, Beating
<1>7. CASE RenewFails(e)
  BY <1>7 DEF RenewFails, Beating
<1>8. CASE RenewReply(e)
  BY <1>8 DEF RenewReply, Beating, Deadline
<1>9. CASE CancelRun(e) \/ CloseSession(e) \/ CloseFails(e)
  BY <1>9 DEF CancelRun, CloseSession, CloseFails, Quiesce
<1>10. CASE CancelCallback(e)
  BY <1>10 DEF CancelCallback
<1> QED
  BY <1>1, <1>2, <1>3, <1>4, <1>5, <1>6, <1>7, <1>8, <1>9, <1>10 DEF QuietAction

LEMMA OverlapStep ==
    ASSUME TypeOK, EpochInv, OverlapInv, [Next]_vars
    PROVE  OverlapInv'
<1>t. /\ pc \in [Execs -> Places] /\ Ttl \in Nat \ {0, 1}
      /\ budget \in [Execs -> 0..Ttl] /\ overlap \in [Execs -> Nat]
      /\ beat \in [Execs -> {"off", "sleeping", "due", "ok", "lost"}]
      /\ lease \in [owner : Workers \cup {NoOwner}, epoch : Nat, left : 0..Ttl]
      /\ token \in [Execs -> Nat]
      /\ lease.epoch \in Nat /\ lease.left \in 0..Ttl
  BY WorkerAssumption DEF TypeOK
<1>h. Executing \subseteq Holding BY DEF Holding
<1> SUFFICES ASSUME NEW d \in Execs PROVE Covered(d)'
  BY OverlapCovered DEF OverlapInv, ReplyCovered, OverlapBudgeted, Covered
<1>i. Covered(d) BY OverlapCovered
<1>1. ASSUME NEW e \in Execs, QuietAction(e)
      PROVE  Covered(d)'
  <2>1. CASE d = e BY <1>1, <1>i, <2>1, OwnQuietStep
  <2>2. CASE d # e
    <3>1. /\ budget'[d] = budget[d] /\ beat'[d] = beat[d] /\ overlap'[d] = overlap[d]
          /\ lease'.left = lease.left \/ lease'.left = Ttl
      BY <1>1, <2>2, QuietTimers
    <3>2. pc'[d] = pc[d] /\ (Current(d)' <=> Current(d))
      BY <1>1, <1>t, <2>2, QuietSteps DEF Quiet, Current
    <3> QED BY <1>i, <1>t, <3>1, <3>2 DEF Covered
  <2> QED BY <2>1, <2>2
<1>2. ASSUME NEW e \in Execs, LoadRun(e)
      PROVE  Covered(d)'
  <2>1. /\ pc[e] = "load" /\ UNCHANGED <<lease, token, budget, beat, overlap>>
        /\ \E p \in {"ack", "retry", "claim"} : pc' = [pc EXCEPT ![e] = p]
    BY <1>2 DEF LoadRun, Go, mind, hist
  <2> QED BY <1>t, <1>i, <2>1 DEF Covered, Current, Executing
<1>3. ASSUME NEW e \in Execs, Claim(e) \/ ClaimFails(e)
      PROVE  Covered(d)'
  <2> DEFINE w == WorkerOf(e)
  <2>1. /\ pc[e] = "claim" /\ UNCHANGED <<budget, beat, overlap>>
        /\ \E p \in {"retry", "claimed"} : pc' = [pc EXCEPT ![e] = p]
        /\ \A c \in Execs \ {e} : token'[c] = token[c]
        /\ lease' = lease \/ (lease' = Granted(w) /\ ~(Live /\ lease.owner # w))
    BY <1>3, <1>t DEF Claim, ClaimFails, Go, mind, hist
  <2>2. CASE d = e BY <1>t, <1>i, <2>1, <2>2 DEF Covered, Executing
  <2>3. CASE d # e /\ pc[d] \in Executing
    <3>1. WorkerOf(d) # w
      BY <1>h, <2>1, <2>3 DEF EpochInv, OneRegistered, Registered
    <3>2. pc'[d] = pc[d] /\ token'[d] = token[d] BY <1>t, <2>1, <2>3
    <3>3. CASE lease' = lease
      BY <1>i, <2>1, <3>2, <3>3 DEF Covered, Current
    <3>4. CASE lease' = Granted(w) /\ ~(Live /\ lease.owner # w)
      <4>1. ~Current(d)' BY <3>1, <3>4 DEF Current, Granted
      <4>2. ~(Current(d) /\ lease.left > 0)
        BY <3>1, <3>4, WorkerAssumption DEF Live, Current, WorkerOf
      <4> QED BY <1>i, <1>t, <2>1, <2>3, <3>2, <4>1, <4>2 DEF Covered
    <3> QED BY <2>1, <3>3, <3>4
  <2>4. CASE d # e /\ pc[d] \notin Executing
    BY <1>i, <1>t, <2>1, <2>4 DEF Covered
  <2> QED BY <2>2, <2>3, <2>4
<1>4. ASSUME NEW e \in Execs, ReleaseLease(e) \/ ReleaseFails(e)
      PROVE  Covered(d)'
  <2>1. /\ pc[e] = "releasing" /\ UNCHANGED <<token, budget, beat, overlap>>
        /\ pc' = [pc EXCEPT ![e] = "verify"]
        /\ lease' = lease \/ (lease' = Freed /\ Current(e))
    BY <1>4 DEF ReleaseLease, ReleaseFails, Releases, Go, mind, hist
  <2>2. CASE d = e BY <1>t, <1>i, <2>1, <2>2 DEF Covered, Executing
  <2>3. CASE d # e /\ lease' = lease
    BY <1>i, <1>t, <2>1, <2>3 DEF Covered, Current
  <2>4. CASE d # e /\ lease' = Freed /\ Current(e)
    <3>1. CASE pc[d] \in Executing
      <4>1. ~Current(d)
        BY <1>h, <2>1, <2>4, <3>1, OneCurrent DEF Holding
      <4>2. token[d] <= lease.epoch
        BY <1>h, <3>1 DEF EpochInv, TokensBehindLease
      <4>3. ~Current(d)' BY <1>t, <2>1, <2>4, <4>2 DEF Current, Freed
      <4> QED BY <1>i, <1>t, <2>1, <2>4, <4>1, <4>3 DEF Covered
    <3>2. CASE pc[d] \notin Executing
      BY <1>i, <1>t, <2>1, <2>4, <3>2 DEF Covered
    <3> QED BY <3>1, <3>2
  <2> QED BY <2>1, <2>2, <2>3, <2>4
<1>5. ASSUME NEW e \in Execs, Verify(e) \/ VerifyFails(e)
      PROVE  Covered(d)'
  <2>1. /\ pc[e] = "verify" /\ UNCHANGED <<lease, budget, beat, overlap>>
        /\ \E p \in {"ack", "retry"} : pc' = [pc EXCEPT ![e] = p]
        /\ \A c \in Execs \ {e} : token'[c] = token[c]
    BY <1>5, <1>t DEF Verify, VerifyFails, Leave, Go, hist
  <2> QED BY <1>i, <1>t, <2>1 DEF Covered, Current, Executing
<1>6. ASSUME NEW w \in Workers, Crash(w)
      PROVE  Covered(d)'
  <2>1. /\ IF WorkerOf(d) = w
           THEN pc'[d] = "idle" /\ overlap'[d] = 0
           ELSE /\ pc'[d] = pc[d] /\ token'[d] = token[d] /\ budget'[d] = budget[d]
                /\ beat'[d] = beat[d] /\ overlap'[d] = overlap[d]
        /\ UNCHANGED lease
    BY <1>6 DEF Crash
  <2> QED BY <1>i, <2>1 DEF Covered, Current, Executing
<1>7. CASE Advance
  <2>1. /\ UNCHANGED <<pc, token>>
        /\ lease'.owner = lease.owner /\ lease'.epoch = lease.epoch
        /\ lease'.left = Down(lease.left)
        /\ budget'[d] = Down(budget[d])
        /\ beat'[d] = "ok" => beat[d] = "ok"
        /\ overlap'[d] = IF pc[d] \in Executing /\ ~Current(d) THEN overlap[d] + 1
                         ELSE overlap[d]
        /\ pc[d] \in Executing => budget[d] # 0
    BY <1>7, <1>t DEF Advance, Beating, Deadline
  <2>2. budget[d] \in Nat /\ overlap[d] \in Nat /\ lease.left \in Nat /\ Ttl \in Nat
    BY <1>t
  <2>3. Current(d)' <=> Current(d) BY <2>1 DEF Current
  <2> QED BY <1>i, <2>1, <2>2, <2>3 DEF Covered, Down
<1>8. CASE UNCHANGED vars
  BY <1>8, <1>i DEF vars, mind, hist, Covered, Current
<1> QED BY <1>1, <1>2, <1>3, <1>4, <1>5, <1>6, <1>7, <1>8, StepCases

-----------------------------------------------------------------------------
IInv == TypeOK /\ EpochInv /\ SettleInv /\ LeaseHasHolder /\ OverlapInv

LEMMA Invariant == Spec => []IInv
<1>1. Init => IInv
  <2> SUFFICES ASSUME Init PROVE IInv OBVIOUS
  <2>1. TypeOK /\ EpochInv BY TypeInit, EpochInit
  <2>2. SettleInv
    BY DEF Init, SettleInv, WritersFindOpenRun, AckOfTerminal, JobOutlivesRun, Writing,
           Executing, Terminal
  <2>3. LeaseHasHolder BY DEF Init, LeaseHasHolder, Live
  <2>4. OverlapInv
    BY DEF Init, OverlapInv, ReplyCovered, OverlapBudgeted, Executing
  <2> QED BY <2>1, <2>2, <2>3, <2>4 DEF IInv
<1>2. IInv /\ [Next]_vars => IInv'
  BY TypeStep, EpochStep, SettleStep, HolderStep, OverlapStep DEF IInv
<1> QED BY <1>1, <1>2, PTL DEF Spec

(* The columns, the job and the executions keep their types.                *)
THEOREM TypeCorrect == Spec => []TypeOK
<1>1. IInv => TypeOK BY DEF IInv
<1> QED BY <1>1, Invariant, PTL

(* Fencing tells every two executions of a fleet apart, although a worker   *)
(* refreshes its own live lease without a new epoch (claim, _active_runs).  *)
THEOREM ExecutionsFenced == Spec => []OneExecutionPerEpoch
<1>1. IInv => OneExecutionPerEpoch BY DEF IInv, EpochInv
<1> QED BY <1>1, Invariant, PTL

(* However an execution ends, the job outlives the unfinished run and the   *)
(* live lease has a holder that will release it (_require_terminal and the  *)
(* finally clauses of _run_job).                                            *)
THEOREM NoLeak == Spec => []NothingLeaked
<1>1. IInv => NothingLeaked BY DEF IInv, SettleInv, NothingLeaked
<1> QED BY <1>1, Invariant, PTL

(* A superseded execution stops within one lease duration, however late the *)
(* replies of claim and renew arrive (_heartbeat).                          *)
THEOREM BoundedOverlap == Spec => []OverlapBounded
<1>1. IInv => OverlapBounded
  <2> SUFFICES ASSUME IInv, NEW e \in Execs, pc[e] \in Executing
               PROVE  overlap[e] <= Ttl
    BY DEF OverlapBounded
  <2>1. overlap[e] \in Nat /\ budget[e] \in Nat /\ Ttl \in Nat
    BY WorkerAssumption DEF IInv, TypeOK
  <2> QED BY <2>1 DEF IInv, OverlapInv, OverlapBudgeted
<1> QED BY <1>1, Invariant, PTL

(* Neither a takeover, nor a duplicate dispatch, nor the worker's failure   *)
(* handler touches a run that ended (_run_job, _mark_failed).               *)
THEOREM TerminalRunsStay == Spec => TerminalIsFinal
<1>1. IInv /\ [Next]_vars => [(status \in Terminal) => status' = status]_vars
  BY TerminalStep DEF IInv, SettleInv
<1> QED BY <1>1, Invariant, PTL DEF Spec, TerminalIsFinal
=============================================================================
