--------------------------- MODULE SchedulerProofs ---------------------------
(***************************************************************************)
(* What execute_tool_calls promises for a message of any length, any tools *)
(* and any cap: isolation of conflicting calls and barriers, approvals     *)
(* that last and attempts that are repeated only where that is safe, and   *)
(* brackets that are closed.                                               *)
(***************************************************************************)
EXTENDS Scheduler, FiniteSetTheorems, TLAPS

USE SchedulerAssumption

Pcs == {"evaluate", "resolve", "detach", "detached", "batches", "starts", "running",
        "done", "stopped", "down"}
Answers == {"none", "allow", "deny"}
Active(c) == task[c] \in {"ready", "running", "waiting"}
Over(c) == ends[c] = 1 \/ c \in lost

(* The values that the variables take.                                       *)
Typed ==
    /\ pc \in Pcs
    /\ input \in [Calls -> Inputs] /\ background \subseteq Calls
    /\ strategy \in {"greedy", "maximal"}
    /\ asks \subseteq Calls /\ rest \subseteq Calls /\ batch \subseteq Calls
    /\ started \subseteq Calls /\ lost \subseteq started
    /\ decision \in [Calls -> Answers]
    /\ approvals \in [Inputs -> Answers] /\ saved \in [Inputs -> Answers]
    /\ task \in [Calls -> {"none", "ready", "running", "waiting", "settled", "aborted"}]
    /\ ends \in [Calls -> {0, 1}] /\ tries \in [Calls -> Nat]
    /\ aborted \in BOOLEAN /\ faults \in Nat

(* Nothing is done for a call whose start event is not durable.              *)
StartsFirst ==
    \A c \in Calls : c \notin started => task[c] = "none" /\ ends[c] = 0 /\ tries[c] = 0

(* Where the calls are: not yet batched, in the batch, or begun before.      *)
Accounted ==
    /\ rest \cap (started \cup batch) = {}
    /\ pc \in {"evaluate", "resolve"} => rest = {}
    /\ pc \in {"evaluate", "resolve", "detach", "detached", "batches"} => batch = {}
    /\ pc \in {"detach", "detached"} =>
           Calls = rest \cup started \cup Detachable /\ rest \cap Detachable = {}
    /\ pc \in {"batches", "starts", "running"} => Calls = rest \cup started \cup batch
    /\ pc = "starts" => \A c \in batch :
           task[c] = "none" /\ ends[c] = 0 /\ tries[c] = 0 /\ c \notin lost
    /\ pc = "running" => batch \subseteq started

(* Calls that were begun before this point have their end.                   *)
Closing ==
    /\ pc \in {"evaluate", "resolve", "detach", "batches", "down"} => \A c \in started : Over(c)
    /\ pc = "detached" =>
           /\ \A c \in started :
                  Over(c) \/ (c \in background /\ task[c] = "none" /\ tries[c] = 0)
           /\ \A c, d \in started : Over(c) \/ Over(d) \/ c = d
    /\ pc \in {"starts", "running"} => \A c \in started \ batch : Over(c)
    /\ pc = "done" => \A c \in Calls : Over(c)

(* An allow is good for this message as soon as it is given, and lasts from  *)
(* the first start event on, that is before the first tool can run.          *)
Granted ==
    /\ pc \in {"resolve", "detach", "detached", "batches", "starts", "running"} => \A c \in Calls :
           decision[c] = "allow" /\ input[c].policy = "ask" => approvals[input[c]] # "none"
    /\ pc = "detached" => saved = approvals
    /\ pc = "starts" /\ batch \cap started # {} => saved = approvals
    /\ pc \in {"evaluate", "resolve", "down"} => \A c \in Calls : task[c] = "none"
    /\ \A c \in Calls : Active(c) /\ decision[c] = "allow" /\ input[c].policy = "ask" =>
           saved[input[c]] # "none"
    /\ \A c \in Calls : task[c] \in {"running", "waiting"} => decision[c] = "allow"

(* A call that may be attempted once only has not been yet.                  *)
Attempts ==
    \A c \in Calls : ~input[c].retry =>
        tries[c] <= 1 /\ (task[c] = "ready" => tries[c] = 0) /\ task[c] # "waiting"

(* A foreground tool is executed by its lane only.                           *)
InLane ==
    \A c \in Foreground : Active(c) => pc = "running" /\ c \in batch /\ ends[c] = 0

(* What is in one batch may run together.                                    *)
BatchFits ==
    /\ Cardinality(batch) <= Cap
    /\ \A c, d \in batch : c # d => ~Conflict(c, d) /\ input[c].parallel /\ input[d].parallel

(* A call is not even batched before those it must wait for have settled.    *)
InOrder == \A c, d \in Calls : Ordered(c, d) /\ d \in started \cup batch => Settled(c)

IInv ==
    /\ Typed /\ StartsFirst /\ Accounted /\ Closing /\ Granted /\ Attempts
    /\ InLane /\ BatchFits /\ InOrder

-----------------------------------------------------------------------------
(* The sets of calls.                                                        *)

LEMMA CallsFinite ==
    ASSUME NEW S \in SUBSET Calls
    PROVE  IsFiniteSet(S) /\ Cardinality(S) \in Nat
<1>1. IsFiniteSet(Calls) BY FS_Interval DEF Calls
<1>2. IsFiniteSet(S) BY <1>1, FS_Subset
<1> QED BY <1>2, FS_CardinalityType

(* There is a last call in every nonempty set of them.                       *)
LEMMA LastCall ==
    ASSUME NEW S \in SUBSET Calls, S # {}
    PROVE  \E m \in S : \A d \in S : d <= m
<1> DEFINE Above(m) == {d \in S : d > m}
           Aboves == {Above(m) : m \in S}
<1>1. Aboves \subseteq FiniteSubsetsOf(Calls) /\ Aboves # {}
  <2>1. \A m \in S : Above(m) \in SUBSET Calls OBVIOUS
  <2>2. \A m \in S : IsFiniteSet(Above(m)) BY <2>1, CallsFinite
  <2> QED BY <2>1, <2>2 DEF FiniteSubsetsOf
<1>2. IsWellFoundedOn(StrictSubsetOrdering(Calls), FiniteSubsetsOf(Calls))
  BY FS_StrictSubsetOrderingWellFounded
<1> HIDE DEF Aboves
<1>3. PICK X \in Aboves : \A Y \in Aboves : ~ (<<Y, X>> \in StrictSubsetOrdering(Calls))
  BY <1>1, <1>2, WFMin
<1>4. PICK m \in S : X = Above(m) BY <1>3 DEF Aboves
<1>5. ASSUME NEW d \in S, d > m PROVE FALSE
  <2>1. Above(d) \in Aboves BY DEF Aboves
  <2>2. <<Above(d), X>> \notin StrictSubsetOrdering(Calls) BY <2>1, <1>3
  <2>0. S \subseteq Int /\ m \in Int /\ d \in Int BY DEF Calls
  <2>3. d \in X /\ d \notin Above(d) /\ Above(d) \subseteq X
    <3>1. d \in X BY <1>4, <1>5
    <3>2. \A e \in S : e > d => e > m BY <2>0, <1>5
    <3>3. d \notin Above(d) BY <2>0
    <3> QED BY <3>1, <3>2, <3>3, <1>4
  <2>4. Above(d) \in SUBSET Calls /\ X \in SUBSET Calls BY <1>4
  <2> HIDE DEF Above
  <2> QED BY <2>2, <2>3, <2>4 DEF StrictSubsetOrdering
<1> QED BY <1>4, <1>5 DEF Calls

LEMMA ConflictIsMutual ==
    ASSUME NEW c, NEW d PROVE Conflict(c, d) <=> Conflict(d, c)
BY DEF Conflict

(* _partition_batches: the calls of a batch may run together, none of them   *)
(* passes over a call that is not parallel, and greedily none passes over    *)
(* one it conflicts with.                                                    *)
LEMMA NextBatchFits ==
    ASSUME Typed, NEW selected \in SUBSET rest, NextBatch(selected)
    PROVE  /\ Cardinality(selected) <= Cap
           /\ \A c, d \in selected : c # d =>
                  ~Conflict(c, d) /\ input[c].parallel /\ input[d].parallel
           /\ \A c, b \in rest, d \in selected : c < d /\ c <= b /\ b <= d => input[b].parallel
           /\ strategy = "greedy" =>
                  \A c \in rest, d \in selected : c < d => ~Conflict(c, d)
<1> rest \subseteq Calls /\ Calls \subseteq Int BY DEF Typed, Calls
<1>1. PICK f \in rest :
          /\ First(f, rest)
          /\ \/ ~input[f].parallel /\ selected = {f}
             \/ input[f].parallel /\ strategy = "greedy" /\ Greedy(selected)
             \/ input[f].parallel /\ strategy = "maximal" /\ Pack(selected)
  BY DEF NextBatch
<1>2. CASE selected = {f}
  <2>1. Cardinality(selected) = 1 BY <1>2, FS_Singleton
  <2>2. \A c \in rest : ~(c < f) BY <1>1 DEF First
  <2> QED BY <1>2, <2>1, <2>2
<1>3. CASE strategy = "greedy" /\ Greedy(selected)
  <2>1. PICK last \in rest : selected = UpTo(last) /\ Compatible(selected) BY <1>3 DEF Greedy
  <2>2. \A c \in rest, d \in selected : c <= d => c \in selected BY <2>1 DEF UpTo
  <2>3. \A c \in selected : input[c].parallel BY <2>1 DEF Compatible, Parallel
  <2>4. \A c, d \in selected : c # d => ~Conflict(c, d) BY <2>1 DEF Compatible, Fits
  <2>5. Cardinality(selected) <= Cap BY <2>1 DEF Compatible
  <2> QED BY <2>2, <2>3, <2>4, <2>5
<1>4. CASE strategy = "maximal" /\ Pack(selected)
  <2> DEFINE Before(c) == {d \in selected : d < c}
  <2>1. \A c \in selected :
            c \in ParallelRun /\ Cardinality(Before(c)) < Cap /\ Fits(c, Before(c))
    BY <1>4 DEF Pack, Passed
  <2>2. \A b \in rest, d \in selected : b <= d => input[b].parallel
    BY <2>1 DEF ParallelRun, Parallel, UpTo
  <2>3. ASSUME NEW c \in selected, NEW d \in selected, c # d PROVE ~Conflict(c, d)
    <3>1. CASE c < d BY <3>1, <2>1 DEF Fits
    <3>2. CASE d < c BY <3>2, <2>1, ConflictIsMutual DEF Fits
    <3> QED BY <3>1, <3>2, <2>3
  <2>4. Cardinality(selected) <= Cap
    <3>1. CASE selected = {} BY <3>1, FS_EmptySet
    <3>2. CASE selected # {}
      <4>1. PICK m \in selected : \A d \in selected : d <= m BY <3>2, LastCall
      <4>2. selected \ {m} = Before(m)
        <5>1. \A d \in selected : d \in Int /\ m \in Int OBVIOUS
        <5>2. \A d \in selected : d # m <=> d < m BY <5>1, <4>1
        <5> QED BY <5>2
      <4>3. IsFiniteSet(selected) /\ Cardinality(selected) \in Nat BY CallsFinite
      <4>4. Cardinality(Before(m)) = Cardinality(selected) - 1
        BY <4>2, <4>3, <4>1, FS_RemoveElement
      <4> QED BY <4>3, <4>4, <4>1, <2>1
    <3> QED BY <3>1, <3>2
  <2> QED BY <2>2, <2>3, <2>4, <1>4
<1> QED BY <1>1, <1>2, <1>3, <1>4

-----------------------------------------------------------------------------
(* Every step keeps each part of the invariant.                              *)

(* Types. *)
LEMMA TypedStep == IInv /\ [Next]_vars => Typed'
<1> SUFFICES ASSUME IInv, [Next]_vars PROVE Typed' OBVIOUS
<1>0. Typed /\ Accounted /\ Closing BY DEF IInv
<1> USE DEF Typed, vars, fixed, perms, exec
<1>1. CASE Evaluate
  BY <1>1, <1>0 DEF Evaluate, Pcs, Answers, Missing
<1>2. CASE Resolve
  BY <1>2, <1>0 DEF Resolve, Pcs, Answers, Fault, First
<1>3. CASE SaveDecisions
  BY <1>3, <1>0 DEF SaveDecisions, Pcs, Missing
<1>4. CASE DetachStart
  BY <1>4, <1>0 DEF DetachStart, Pcs, Detachable, Missing, First, Flushed
<1>5. CASE DetachRun
  BY <1>5, <1>0 DEF DetachRun, Pcs
<1>6. CASE OpenBatch
  BY <1>6, <1>0 DEF OpenBatch, Pcs, Leftover
<1>7. CASE EmitStart
  BY <1>7, <1>0 DEF EmitStart, Unstarted, First, Flushed
<1>8. CASE Launch
  BY <1>8, <1>0 DEF Launch, Pcs
<1>9. CASE EmitEnd
  BY <1>9, <1>0 DEF EmitEnd, Unended, First
<1>10. CASE CloseBatch
  BY <1>10, <1>0 DEF CloseBatch, Pcs
<1>11. CASE Finish
  BY <1>11, <1>0 DEF Finish, Pcs
<1>12. CASE StopOnAbort
  BY <1>12, <1>0 DEF StopOnAbort, Pcs, Cancelled, Closed
<1>13. CASE Resume
  BY <1>13, <1>0 DEF Resume, Pcs
<1>14. ASSUME NEW c \in Calls, Begin(c) PROVE Typed'
  BY <1>14, <1>0 DEF Begin
<1>15. ASSUME NEW c \in Calls, Refuse(c) PROVE Typed'
  BY <1>15, <1>0 DEF Refuse, Outcome
<1>16. ASSUME NEW c \in Calls, Settle(c) PROVE Typed'
  BY <1>16, <1>0 DEF Settle, Fault
<1>17. CASE Abort
  BY <1>17, <1>0 DEF Abort, Fault
<1>18. CASE StopOnCancel
  BY <1>18, <1>0 DEF StopOnCancel, Pcs, Cancelled, Closed, Fault
<1>19. CASE CloseStream
  BY <1>19, <1>0 DEF CloseStream, Pcs, Cancelled, Fault
<1>20. CASE Crash
  BY <1>20, <1>0 DEF Crash, Pcs, Fault
<1>21. CASE UNCHANGED vars BY <1>21, <1>0
<1> QED BY <1>1, <1>2, <1>3, <1>4, <1>5, <1>6, <1>7, <1>8, <1>9, <1>10, <1>11, <1>12, <1>13,
           <1>14, <1>15, <1>16, <1>17, <1>18, <1>19, <1>20, <1>21 DEF Next, Step

(* An execution or an end only after the start event. *)
LEMMA StartsFirstStep == IInv /\ [Next]_vars => StartsFirst'
<1> SUFFICES ASSUME IInv, [Next]_vars PROVE StartsFirst' OBVIOUS
<1>0. Typed /\ StartsFirst /\ Accounted BY DEF IInv
<1> USE DEF Typed, StartsFirst, vars, fixed, perms, exec
<1>1. CASE Evaluate
  BY <1>1, <1>0 DEF Evaluate
<1>2. CASE Resolve
  BY <1>2, <1>0 DEF Resolve
<1>3. CASE SaveDecisions
  BY <1>3, <1>0 DEF SaveDecisions
<1>4. CASE DetachStart
  BY <1>4, <1>0 DEF DetachStart, First
<1>5. CASE DetachRun
  BY <1>5, <1>0 DEF DetachRun
<1>6. CASE OpenBatch
  BY <1>6, <1>0 DEF OpenBatch
<1>7. CASE EmitStart
  BY <1>7, <1>0 DEF EmitStart, First, Unstarted
<1>8. CASE Launch
  BY <1>8, <1>0 DEF Launch, Unstarted
<1>9. CASE EmitEnd
  BY <1>9, <1>0 DEF EmitEnd, Unended, First, Accounted
<1>10. CASE CloseBatch
  BY <1>10, <1>0 DEF CloseBatch
<1>11. CASE Finish
  BY <1>11, <1>0 DEF Finish
<1>12. CASE StopOnAbort
  BY <1>12, <1>0 DEF StopOnAbort, Accounted, Cancelled, Closed
<1>13. CASE Resume
  BY <1>13, <1>0 DEF Resume
<1>14. ASSUME NEW c \in Calls, Begin(c) PROVE StartsFirst'
  BY <1>14, <1>0 DEF Begin, Runnable
<1>15. ASSUME NEW c \in Calls, Refuse(c) PROVE StartsFirst'
  BY <1>15, <1>0 DEF Refuse
<1>16. ASSUME NEW c \in Calls, Settle(c) PROVE StartsFirst'
  BY <1>16, <1>0 DEF Settle
<1>17. CASE Abort
  BY <1>17, <1>0 DEF Abort
<1>18. CASE StopOnCancel
  BY <1>18, <1>0 DEF StopOnCancel, Accounted, Cancelled, Closed
<1>19. CASE CloseStream
  BY <1>19, <1>0 DEF CloseStream, Cancelled
<1>20. CASE Crash
  BY <1>20, <1>0 DEF Crash
<1>21. CASE UNCHANGED vars BY <1>21, <1>0
<1> QED BY <1>1, <1>2, <1>3, <1>4, <1>5, <1>6, <1>7, <1>8, <1>9, <1>10, <1>11, <1>12, <1>13,
           <1>14, <1>15, <1>16, <1>17, <1>18, <1>19, <1>20, <1>21 DEF Next, Step

(* No call is forgotten and none is in two places. *)
LEMMA AccountedStep == IInv /\ [Next]_vars => Accounted'
<1> SUFFICES ASSUME IInv, [Next]_vars PROVE Accounted' OBVIOUS
<1>0. Typed /\ StartsFirst /\ Accounted BY DEF IInv
<1> USE DEF Accounted, Typed, Detachable, Missing, Allowed, vars, fixed, perms, exec
<1>1. CASE Evaluate
  BY <1>1, <1>0 DEF Evaluate
<1>2. CASE Resolve
  BY <1>2, <1>0 DEF Resolve
<1>3. CASE SaveDecisions
  BY <1>3, <1>0 DEF SaveDecisions
<1>4. CASE DetachStart
  BY <1>4, <1>0 DEF DetachStart, First
<1>5. CASE DetachRun
  BY <1>5, <1>0 DEF DetachRun
<1>6. CASE OpenBatch
  BY <1>6, <1>0 DEF OpenBatch, Leftover, StartsFirst
<1>7. CASE EmitStart
  BY <1>7, <1>0 DEF EmitStart, First, Unstarted
<1>8. CASE Launch
  BY <1>8, <1>0 DEF Launch, Unstarted
<1>9. CASE EmitEnd
  BY <1>9, <1>0 DEF EmitEnd, First, Unended
<1>10. CASE CloseBatch
  BY <1>10, <1>0 DEF CloseBatch
<1>11. CASE Finish
  BY <1>11, <1>0 DEF Finish
<1>12. CASE StopOnAbort
  BY <1>12, <1>0 DEF StopOnAbort, Cancelled
<1>13. CASE Resume
  BY <1>13, <1>0 DEF Resume
<1>14. ASSUME NEW c \in Calls, Begin(c) PROVE Accounted'
  BY <1>14, <1>0 DEF Begin, Runnable
<1>15. ASSUME NEW c \in Calls, Refuse(c) PROVE Accounted'
  BY <1>15, <1>0 DEF Refuse
<1>16. ASSUME NEW c \in Calls, Settle(c) PROVE Accounted'
  BY <1>16, <1>0 DEF Settle
<1>17. CASE Abort
  BY <1>17, <1>0 DEF Abort
<1>18. CASE StopOnCancel
  BY <1>18, <1>0 DEF StopOnCancel
<1>19. CASE CloseStream
  BY <1>19, <1>0 DEF CloseStream
<1>20. CASE Crash
  BY <1>20, <1>0 DEF Crash
<1>21. CASE UNCHANGED vars BY <1>21, <1>0
<1> QED BY <1>1, <1>2, <1>3, <1>4, <1>5, <1>6, <1>7, <1>8, <1>9, <1>10, <1>11, <1>12, <1>13,
           <1>14, <1>15, <1>16, <1>17, <1>18, <1>19, <1>20, <1>21 DEF Next, Step

(* What has begun is closed before the next thing begins. *)
LEMMA ClosingStep == IInv /\ [Next]_vars => Closing'
<1> SUFFICES ASSUME IInv, [Next]_vars PROVE Closing' OBVIOUS
<1>0. Typed /\ StartsFirst /\ Accounted /\ Closing BY DEF IInv
<1> USE DEF Closing, Over, Typed, Accounted, vars, fixed, perms, exec
<1>1. CASE Evaluate
  BY <1>1, <1>0 DEF Evaluate
<1>2. CASE Resolve
  BY <1>2, <1>0 DEF Resolve
<1>3. CASE SaveDecisions
  BY <1>3, <1>0 DEF SaveDecisions
<1>4. CASE DetachStart
  BY <1>4, <1>0 DEF DetachStart, Detachable, Missing, StartsFirst, First
<1>5. CASE DetachRun
  BY <1>5, <1>0 DEF DetachRun
<1>6. CASE OpenBatch
  BY <1>6, <1>0 DEF OpenBatch
<1>7. CASE EmitStart
  BY <1>7, <1>0 DEF EmitStart, First, Unstarted
<1>8. CASE Launch
  BY <1>8, <1>0 DEF Launch
<1>9. CASE EmitEnd
  BY <1>9, <1>0 DEF EmitEnd, First, Unended
<1>10. CASE CloseBatch
  BY <1>10, <1>0 DEF CloseBatch, Unended
<1>11. CASE Finish
  BY <1>11, <1>0 DEF Finish
<1>12. CASE StopOnAbort
  BY <1>12, <1>0 DEF StopOnAbort
<1>13. CASE Resume
  BY <1>13, <1>0 DEF Resume, Missing
<1>14. ASSUME NEW c \in Calls, Begin(c) PROVE Closing'
  BY <1>14, <1>0 DEF Begin, Runnable, StartsFirst
<1>15. ASSUME NEW c \in Calls, Refuse(c) PROVE Closing'
  BY <1>15, <1>0 DEF Refuse
<1>16. ASSUME NEW c \in Calls, Settle(c) PROVE Closing'
  BY <1>16, <1>0 DEF Settle
<1>17. CASE Abort
  BY <1>17, <1>0 DEF Abort
<1>18. CASE StopOnCancel
  BY <1>18, <1>0 DEF StopOnCancel
<1>19. CASE CloseStream
  BY <1>19, <1>0 DEF CloseStream
<1>20. CASE Crash
  BY <1>20, <1>0 DEF Crash
<1>21. CASE UNCHANGED vars BY <1>21, <1>0
<1> QED BY <1>1, <1>2, <1>3, <1>4, <1>5, <1>6, <1>7, <1>8, <1>9, <1>10, <1>11, <1>12, <1>13,
           <1>14, <1>15, <1>16, <1>17, <1>18, <1>19, <1>20, <1>21 DEF Next, Step

(* Allowed means answered, and answered means remembered. *)
LEMMA GrantedStep == IInv /\ [Next]_vars => Granted'
<1> SUFFICES ASSUME IInv, [Next]_vars PROVE Granted' OBVIOUS
<1>0. Typed /\ StartsFirst /\ Accounted /\ Closing /\ Granted BY DEF IInv
<1> USE DEF Granted, Active, Typed, vars, fixed, perms, exec
<1>1. CASE Evaluate
  BY <1>1, <1>0 DEF Evaluate, Answers
<1>2. CASE Resolve
  BY <1>2, <1>0 DEF Resolve, First, Answers
<1>3. CASE SaveDecisions
  BY <1>3, <1>0 DEF SaveDecisions
<1>4. CASE DetachStart
  BY <1>4, <1>0 DEF DetachStart, Flushed
<1>5. CASE DetachRun
  BY <1>5, <1>0 DEF DetachRun
<1>6. CASE OpenBatch
  BY <1>6, <1>0 DEF OpenBatch, Accounted
<1>7. CASE EmitStart
  BY <1>7, <1>0 DEF EmitStart, Flushed
<1>8. CASE Launch
  BY <1>8, <1>0 DEF Launch, Unstarted
<1>9. CASE EmitEnd
  BY <1>9, <1>0 DEF EmitEnd
<1>10. CASE CloseBatch
  BY <1>10, <1>0 DEF CloseBatch
<1>11. CASE Finish
  BY <1>11, <1>0 DEF Finish
<1>12. CASE StopOnAbort
  BY <1>12, <1>0 DEF StopOnAbort, Cancelled
<1>13. CASE Resume
  BY <1>13, <1>0 DEF Resume
<1>14. ASSUME NEW c \in Calls, Begin(c) PROVE Granted'
  BY <1>14, <1>0 DEF Begin, Runnable, Allowed
<1>15. ASSUME NEW c \in Calls, Refuse(c) PROVE Granted'
  BY <1>15, <1>0 DEF Refuse, Outcome
<1>16. ASSUME NEW c \in Calls, Settle(c) PROVE Granted'
  BY <1>16, <1>0 DEF Settle
<1>17. CASE Abort
  BY <1>17, <1>0 DEF Abort
<1>18. CASE StopOnCancel
  BY <1>18, <1>0 DEF StopOnCancel, Cancelled
<1>19. CASE CloseStream
  BY <1>19, <1>0 DEF CloseStream, Cancelled
<1>20. CASE Crash
  BY <1>20, <1>0 DEF Crash
<1>21. CASE UNCHANGED vars BY <1>21, <1>0
<1> QED BY <1>1, <1>2, <1>3, <1>4, <1>5, <1>6, <1>7, <1>8, <1>9, <1>10, <1>11, <1>12, <1>13,
           <1>14, <1>15, <1>16, <1>17, <1>18, <1>19, <1>20, <1>21 DEF Next, Step

(* Attempts are repeated only where the tool opted in. *)
LEMMA AttemptsStep == IInv /\ [Next]_vars => Attempts'
<1> SUFFICES ASSUME IInv, [Next]_vars PROVE Attempts' OBVIOUS
<1>0. Typed /\ StartsFirst /\ Accounted /\ Closing /\ Attempts BY DEF IInv
<1> USE DEF Attempts, Typed, vars, fixed, perms, exec
<1>1. CASE Evaluate
  BY <1>1, <1>0 DEF Evaluate
<1>2. CASE Resolve
  BY <1>2, <1>0 DEF Resolve
<1>3. CASE SaveDecisions
  BY <1>3, <1>0 DEF SaveDecisions
<1>4. CASE DetachStart
  BY <1>4, <1>0 DEF DetachStart
<1>5. CASE DetachRun
  BY <1>5, <1>0 DEF DetachRun, Closing, Over
<1>6. CASE OpenBatch
  BY <1>6, <1>0 DEF OpenBatch
<1>7. CASE EmitStart
  BY <1>7, <1>0 DEF EmitStart
<1>8. CASE Launch
  BY <1>8, <1>0 DEF Launch, Accounted
<1>9. CASE EmitEnd
  BY <1>9, <1>0 DEF EmitEnd
<1>10. CASE CloseBatch
  BY <1>10, <1>0 DEF CloseBatch
<1>11. CASE Finish
  BY <1>11, <1>0 DEF Finish
<1>12. CASE StopOnAbort
  BY <1>12, <1>0 DEF StopOnAbort, Cancelled
<1>13. CASE Resume
  BY <1>13, <1>0 DEF Resume
<1>14. ASSUME NEW c \in Calls, Begin(c) PROVE Attempts'
  BY <1>14, <1>0 DEF Begin, Runnable
<1>15. ASSUME NEW c \in Calls, Refuse(c) PROVE Attempts'
  BY <1>15, <1>0 DEF Refuse, Outcome
<1>16. ASSUME NEW c \in Calls, Settle(c) PROVE Attempts'
  BY <1>16, <1>0 DEF Settle, Retry
<1>17. CASE Abort
  BY <1>17, <1>0 DEF Abort
<1>18. CASE StopOnCancel
  BY <1>18, <1>0 DEF StopOnCancel, Cancelled
<1>19. CASE CloseStream
  BY <1>19, <1>0 DEF CloseStream, Cancelled
<1>20. CASE Crash
  BY <1>20, <1>0 DEF Crash
<1>21. CASE UNCHANGED vars BY <1>21, <1>0
<1> QED BY <1>1, <1>2, <1>3, <1>4, <1>5, <1>6, <1>7, <1>8, <1>9, <1>10, <1>11, <1>12, <1>13,
           <1>14, <1>15, <1>16, <1>17, <1>18, <1>19, <1>20, <1>21 DEF Next, Step

(* A foreground tool runs while its batch does. *)
LEMMA InLaneStep == IInv /\ [Next]_vars => InLane'
<1> SUFFICES ASSUME IInv, [Next]_vars PROVE InLane' OBVIOUS
<1>0. Typed /\ StartsFirst /\ Accounted /\ InLane BY DEF IInv
<1> USE DEF InLane, Active, Typed, Foreground, vars, fixed, perms, exec
<1>1. CASE Evaluate
  BY <1>1, <1>0 DEF Evaluate
<1>2. CASE Resolve
  BY <1>2, <1>0 DEF Resolve
<1>3. CASE SaveDecisions
  BY <1>3, <1>0 DEF SaveDecisions
<1>4. CASE DetachStart
  BY <1>4, <1>0 DEF DetachStart
<1>5. CASE DetachRun
  BY <1>5, <1>0 DEF DetachRun, Closing, Over
<1>6. CASE OpenBatch
  BY <1>6, <1>0 DEF OpenBatch
<1>7. CASE EmitStart
  BY <1>7, <1>0 DEF EmitStart
<1>8. CASE Launch
  BY <1>8, <1>0 DEF Launch, Accounted
<1>9. CASE EmitEnd
  BY <1>9, <1>0 DEF EmitEnd, First
<1>10. CASE CloseBatch
  BY <1>10, <1>0 DEF CloseBatch, Unended
<1>11. CASE Finish
  BY <1>11, <1>0 DEF Finish
<1>12. CASE StopOnAbort
  BY <1>12, <1>0 DEF StopOnAbort, Cancelled, Closed
<1>13. CASE Resume
  BY <1>13, <1>0 DEF Resume
<1>14. ASSUME NEW c \in Calls, Begin(c) PROVE InLane'
  BY <1>14, <1>0 DEF Begin, Runnable
<1>15. ASSUME NEW c \in Calls, Refuse(c) PROVE InLane'
  BY <1>15, <1>0 DEF Refuse, Outcome
<1>16. ASSUME NEW c \in Calls, Settle(c) PROVE InLane'
  BY <1>16, <1>0 DEF Settle, Retry
<1>17. CASE Abort
  BY <1>17, <1>0 DEF Abort
<1>18. CASE StopOnCancel
  BY <1>18, <1>0 DEF StopOnCancel, Cancelled
<1>19. CASE CloseStream
  BY <1>19, <1>0 DEF CloseStream, Cancelled
<1>20. CASE Crash
  BY <1>20, <1>0 DEF Crash
<1>21. CASE UNCHANGED vars BY <1>21, <1>0
<1> QED BY <1>1, <1>2, <1>3, <1>4, <1>5, <1>6, <1>7, <1>8, <1>9, <1>10, <1>11, <1>12, <1>13,
           <1>14, <1>15, <1>16, <1>17, <1>18, <1>19, <1>20, <1>21 DEF Next, Step

(* A batch keeps what it was chosen for. *)
LEMMA BatchFitsStep == IInv /\ [Next]_vars => BatchFits'
<1> SUFFICES ASSUME IInv, [Next]_vars PROVE BatchFits' OBVIOUS
<1>0. Typed /\ BatchFits BY DEF IInv
<1> USE DEF BatchFits, Conflict, vars, fixed, perms, exec
<1>1. CASE Evaluate
  BY <1>1, <1>0 DEF Evaluate
<1>2. CASE Resolve
  BY <1>2, <1>0 DEF Resolve
<1>3. CASE SaveDecisions
  BY <1>3, <1>0 DEF SaveDecisions
<1>4. CASE DetachStart
  BY <1>4, <1>0 DEF DetachStart
<1>5. CASE DetachRun
  BY <1>5, <1>0 DEF DetachRun
<1>6. CASE OpenBatch
  <2>1. PICK selected \in SUBSET rest : NextBatch(selected) /\ batch' = selected
    BY <1>6 DEF OpenBatch
  <2>2. UNCHANGED input BY <1>6 DEF OpenBatch, fixed
  <2>3. /\ Cardinality(selected) <= Cap
        /\ \A c, d \in selected : c # d =>
              ~Conflict(c, d) /\ input[c].parallel /\ input[d].parallel
    BY <2>1, <1>0, NextBatchFits
  <2> QED BY <2>1, <2>2, <2>3 DEF BatchFits, Conflict
<1>7. CASE EmitStart
  BY <1>7, <1>0 DEF EmitStart
<1>8. CASE Launch
  BY <1>8, <1>0 DEF Launch
<1>9. CASE EmitEnd
  BY <1>9, <1>0 DEF EmitEnd
<1>10. CASE CloseBatch
  BY <1>10, <1>0, FS_EmptySet DEF CloseBatch, Typed
<1>11. CASE Finish
  BY <1>11, <1>0 DEF Finish
<1>12. CASE StopOnAbort
  BY <1>12, <1>0 DEF StopOnAbort
<1>13. CASE Resume
  BY <1>13, <1>0, FS_EmptySet DEF Resume
<1>14. ASSUME NEW c \in Calls, Begin(c) PROVE BatchFits'
  BY <1>14, <1>0 DEF Begin
<1>15. ASSUME NEW c \in Calls, Refuse(c) PROVE BatchFits'
  BY <1>15, <1>0 DEF Refuse
<1>16. ASSUME NEW c \in Calls, Settle(c) PROVE BatchFits'
  BY <1>16, <1>0 DEF Settle
<1>17. CASE Abort
  BY <1>17, <1>0 DEF Abort
<1>18. CASE StopOnCancel
  BY <1>18, <1>0 DEF StopOnCancel
<1>19. CASE CloseStream
  BY <1>19, <1>0 DEF CloseStream
<1>20. CASE Crash
  BY <1>20, <1>0 DEF Crash
<1>21. CASE UNCHANGED vars BY <1>21, <1>0
<1> QED BY <1>1, <1>2, <1>3, <1>4, <1>5, <1>6, <1>7, <1>8, <1>9, <1>10, <1>11, <1>12, <1>13,
           <1>14, <1>15, <1>16, <1>17, <1>18, <1>19, <1>20, <1>21 DEF Next, Step

(* Calls whose order matters keep it. *)
LEMMA InOrderStep == IInv /\ [Next]_vars => InOrder'
<1> SUFFICES ASSUME IInv, [Next]_vars PROVE InOrder' OBVIOUS
<1>0. Typed /\ StartsFirst /\ Accounted /\ Closing /\ InLane /\ InOrder BY DEF IInv
<1> USE DEF InOrder, Ordered, Foreground, Settled, Conflict, Typed, vars, fixed, perms, exec
<1>1. CASE Evaluate
  BY <1>1, <1>0 DEF Evaluate
<1>2. CASE Resolve
  BY <1>2, <1>0 DEF Resolve
<1>3. CASE SaveDecisions
  BY <1>3, <1>0 DEF SaveDecisions
<1>4. CASE DetachStart
  BY <1>4, <1>0 DEF DetachStart, Detachable, First
<1>5. CASE DetachRun
  BY <1>5, <1>0 DEF DetachRun
<1>6. CASE OpenBatch
  <2>1. PICK selected \in SUBSET rest : NextBatch(selected) /\ batch' = selected
    BY <1>6 DEF OpenBatch
  <2>2. pc = "batches" /\ UNCHANGED <<input, background, strategy, task, ends, lost, started>>
    BY <1>6 DEF OpenBatch, fixed, exec
  <2>3. SUFFICES ASSUME NEW c \in Calls, NEW d \in Calls, Ordered(c, d), d \in started \cup selected
                 PROVE  Settled(c)
    BY <2>1, <2>2 DEF InOrder, Ordered, Foreground, Settled, Conflict
  <2>4. CASE d \in started BY <2>4, <2>3, <1>0 DEF InOrder
  <2>5. CASE d \in selected /\ c \notin rest
    <3>1. c \in started BY <2>5, <2>2, <1>0 DEF Accounted
    <3> QED BY <3>1, <2>2, <1>0 DEF Closing, Over, Settled, Typed
  <2>6. CASE d \in selected /\ c \in rest
    <3>1. c < d /\ c \in Foreground /\ c \in Int /\ d \in Int BY <2>3 DEF Ordered, Calls
    <3>2. ~ (strategy = "greedy" /\ Conflict(c, d)) BY <2>6, <2>1, <1>0, <3>1, NextBatchFits
    <3>3. PICK b \in c .. d : b \in Foreground /\ ~input[b].parallel BY <3>2, <2>3 DEF Ordered
    <3>4. b \notin rest BY <3>3, <3>1, <2>6, <2>1, <1>0, NextBatchFits
    <3>5. b \in started BY <3>4, <3>3, <2>2, <1>0 DEF Accounted, Foreground
    <3>6. c # b /\ c < b BY <3>4, <2>6, <3>3, <3>1
    <3>7. Ordered(c, b) BY <3>6, <3>3, <3>1 DEF Ordered
    <3> QED BY <3>7, <3>5, <1>0, <3>3 DEF InOrder, Foreground
  <2> QED BY <2>3, <2>4, <2>5, <2>6
<1>7. CASE EmitStart
  BY <1>7, <1>0 DEF EmitStart, First, Unstarted
<1>8. CASE Launch
  BY <1>8, <1>0 DEF Launch, Accounted
<1>9. CASE EmitEnd
  BY <1>9, <1>0 DEF EmitEnd, First
<1>10. CASE CloseBatch
  BY <1>10, <1>0 DEF CloseBatch
<1>11. CASE Finish
  BY <1>11, <1>0 DEF Finish
<1>12. CASE StopOnAbort
  BY <1>12, <1>0 DEF StopOnAbort, Cancelled, Closed
<1>13. CASE Resume
  BY <1>13, <1>0 DEF Resume
<1>14. ASSUME NEW c \in Calls, Begin(c) PROVE InOrder'
  BY <1>14, <1>0 DEF Begin, Runnable
<1>15. ASSUME NEW c \in Calls, Refuse(c) PROVE InOrder'
  BY <1>15, <1>0 DEF Refuse, Outcome
<1>16. ASSUME NEW c \in Calls, Settle(c) PROVE InOrder'
  BY <1>16, <1>0 DEF Settle
<1>17. CASE Abort
  BY <1>17, <1>0 DEF Abort
<1>18. CASE StopOnCancel
  BY <1>18, <1>0 DEF StopOnCancel, Cancelled, Closed
<1>19. CASE CloseStream
  BY <1>19, <1>0 DEF CloseStream, Cancelled
<1>20. CASE Crash
  BY <1>20, <1>0 DEF Crash, StartsFirst
<1>21. CASE UNCHANGED vars BY <1>21, <1>0
<1> QED BY <1>1, <1>2, <1>3, <1>4, <1>5, <1>6, <1>7, <1>8, <1>9, <1>10, <1>11, <1>12, <1>13,
           <1>14, <1>15, <1>16, <1>17, <1>18, <1>19, <1>20, <1>21 DEF Next, Step

-----------------------------------------------------------------------------

LEMMA InvariantStarts == Init => IInv
<1> SUFFICES ASSUME Init PROVE IInv OBVIOUS
<1> USE DEF Init, Unknown
<1>1. Typed BY DEF Typed, Pcs, Answers
<1>2. StartsFirst /\ Accounted /\ Closing BY DEF StartsFirst, Accounted, Closing
<1>3. Granted /\ Attempts /\ InLane BY DEF Granted, Attempts, InLane, Active, Foreground
<1>4. BatchFits BY FS_EmptySet DEF BatchFits
<1>5. InOrder BY DEF InOrder
<1> QED BY <1>1, <1>2, <1>3, <1>4, <1>5 DEF IInv

LEMMA InvariantKept == IInv /\ [Next]_vars => IInv'
BY TypedStep, StartsFirstStep, AccountedStep, ClosingStep, GrantedStep, AttemptsStep,
   InLaneStep, BatchFitsStep, InOrderStep DEF IInv

LEMMA Invariant == Spec => []IInv
BY InvariantStarts, InvariantKept, PTL DEF Spec

(* The variables of execute_tool_calls keep their types, and no call has an  *)
(* execution or an end event before its start event.                         *)
THEOREM TypeCorrect == Spec => []TypeOK
<1>1. IInv => TypeOK BY DEF IInv, Typed, StartsFirst, TypeOK, Pcs, Answers
<1> QED BY <1>1, Invariant, PTL

(* At most max_tool_concurrency foreground tools run at once and no two of   *)
(* them conflict; a tool does not run before an earlier one whose order      *)
(* matters has settled (_partition_batches and the two lanes).               *)
THEOREM IsolationHolds == Spec => []Isolated
<1> DEFINE Running == {c \in Foreground : task[c] = "running"}
<1>1. ASSUME IInv PROVE NoConflict
  <2>1. Running \subseteq batch BY <1>1 DEF IInv, InLane, Active
  <2>2. IsFiniteSet(batch) /\ Cardinality(batch) \in Nat BY <1>1, CallsFinite DEF IInv, Typed
  <2>3. Cardinality(Running) <= Cardinality(batch) /\ IsFiniteSet(Running)
    BY <2>1, <2>2, FS_Subset
  <2>4. Cardinality(Running) \in Nat BY <2>3, FS_CardinalityType
  <2>5. Cardinality(Running) <= Cap BY <2>2, <2>3, <2>4, <1>1 DEF IInv, BatchFits
  <2> QED BY <2>1, <2>5, <1>1 DEF IInv, BatchFits, NoConflict
<1>2. ASSUME IInv PROVE BarriersHold
  <2>1. \A d \in Calls : tries[d] > 0 => d \in started BY <1>2 DEF IInv, StartsFirst
  <2> QED BY <2>1, <1>2 DEF IInv, InOrder, BarriersHold
<1> QED BY <1>1, <1>2, Invariant, PTL DEF Isolated

(* A tool runs only under an allow that is its policy's or is in the         *)
(* checkpoint, and a tool that did not opt in to retries is attempted once   *)
(* over all lives of the run (_execute_one, _tool_retryable).                *)
THEOREM RunsAsAllowedHolds == Spec => []RunsAsAllowed
<1>1. IInv => AllowedIsSaved BY DEF IInv, Granted, Active, AllowedIsSaved
<1>2. IInv => NoUnsafeRetry BY DEF IInv, Attempts, NoUnsafeRetry
<1> QED BY <1>1, <1>2, Invariant, PTL DEF RunsAsAllowed

(* When the message is over or aborted, each durable start event has one end *)
(* unless a crash lost the call; however its stream is left, no foreground   *)
(* tool is left running (both lanes' except and finally blocks).             *)
THEOREM LeavesNothingOpen == Spec => BracketsClose /\ []NothingLeftRunning
<1>1. IInv => NothingLeftRunning BY DEF IInv, InLane, Active, NothingLeftRunning
<1>2. IInv => (pc = "done" => \A c \in Calls : ends[c] = 1 \/ c \in lost)
  BY DEF IInv, Closing, Over
<1>3. ASSUME IInv, StopOnAbort
      PROVE  \A c \in started : ends'[c] = 1 \/ c \in lost
  BY <1>3 DEF IInv, Typed, Accounted, Closing, Over, StopOnAbort, Closed
<1>4. IInv /\ [Next]_vars =>
          [StopOnAbort => \A c \in started : ends'[c] = 1 \/ c \in lost]_vars
  BY <1>3
<1> QED BY <1>1, <1>2, <1>4, Invariant, PTL DEF BracketsClose, Spec
================================================================================
