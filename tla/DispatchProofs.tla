--------------------------- MODULE DispatchProofs ---------------------------
(***************************************************************************)
(* Proofs about RunStore, and about Dispatch which is built on it, for     *)
(* every number of runs, sessions and workers, every set of schedules,     *)
(* every interval and every bound.                                         *)
(*                                                                         *)
(* Fencing rests on one fact the code never writes down: a token that      *)
(* carries the stored epoch carries the stored owner (TokensBehindLease).  *)
(* With it a token is current exactly when its epoch is the stored one,    *)
(* and since no operation lowers the stored epoch, losing the fence is     *)
(* final.                                                                  *)
(*                                                                         *)
(* In Dispatch the rows change by the operations of RunStore, whose step   *)
(* lemma on admission is used again, and by one thing more: a transaction  *)
(* that inserts the rows of a whole batch (Inserted).  The calendar of a   *)
(* schedule is arithmetic: its next fire is always a whole number of       *)
(* intervals after its first one, and the occurrences that have a run are  *)
(* the ones before it.                                                     *)
(***************************************************************************)
EXTENDS Dispatch, SequenceTheorems, TLAPS

(* No token runs ahead of the stored lease, and the stored epoch belongs to *)
(* the stored owner.                                                        *)
TokensBehindLease ==
    \A t \in tokens :
        /\ t.epoch <= lease[t.run].epoch
        /\ t.epoch = lease[t.run].epoch => t.owner = lease[t.run].owner

(* The stored expiry is at least the one promised on any current token, and *)
(* at most one full duration away, so that a refresh never shortens it.     *)
ExpiryCovered ==
    /\ \A t \in tokens : Current(t) => t.expires <= lease[t.run].expires
    /\ \A r \in Runs : lease[r].expires <= now + Ttl

(* No event carries an epoch above the stored one.                          *)
LogBehindLease ==
    \A r \in Runs : \A j \in 1..Len(log[r]) : log[r][j] <= lease[r].epoch

LeaseInv ==
    /\ TokensBehindLease
    /\ EpochNamesOneOwner
    /\ ExpiryCovered
    /\ UnexpiredTokenIsCurrent

LogInv == LogBehindLease /\ LogOrderedByTenure

-----------------------------------------------------------------------------
(* A writer that passes the fence stamps 0 or the stored epoch, and in the  *)
(* second case a token with that epoch was handed out.                      *)
LEMMA CallerEpoch ==
    ASSUME TypeOK, NEW r \in Runs, NEW c \in Callers(r)
    PROVE  /\ c.epoch \in Nat
           /\ c.epoch # 0 =>
                 /\ c.epoch = lease[r].epoch
                 /\ \E t \in tokens : t.run = r /\ t.epoch = c.epoch
<1>1. CASE c \in {t \in tokens : t.run = r /\ Current(t)}
  BY <1>1 DEF TypeOK, Token, Current
<1>2. CASE c = Unleased
  BY <1>2 DEF Unleased
<1> QED BY <1>1, <1>2 DEF Callers

(* What an append leaves in the log of its run: the old entries, then the   *)
(* caller's stamp.                                                          *)
LEMMA AppendedLog ==
    ASSUME NEW s \in Seq(Nat), NEW n \in Nat, NEW c, c.epoch \in Nat
    PROVE  /\ s \o Stamped(c, n) \in Seq(Nat)
           /\ \A j \in 1..Len(s \o Stamped(c, n)) :
                 (s \o Stamped(c, n))[j] = IF j <= Len(s) THEN s[j] ELSE c.epoch
<1> DEFINE w == Stamped(c, n)
<1>1. /\ w \in Seq(Nat)
      /\ Len(w) = n
      /\ \A i \in 1..n : w[i] = c.epoch
  BY DEF Stamped
<1> HIDE DEF w
<1>2. /\ s \o w \in Seq(Nat)
      /\ Len(s \o w) = Len(s) + Len(w)
      /\ \A i \in 1..Len(s) + Len(w) :
            (s \o w)[i] = IF i <= Len(s) THEN s[i] ELSE w[i - Len(s)]
  BY <1>1
<1>3. ASSUME NEW j \in 1..Len(s \o w)
      PROVE  (s \o w)[j] = IF j <= Len(s) THEN s[j] ELSE c.epoch
  <2>1. CASE j <= Len(s) BY <1>1, <1>2, <2>1
  <2>2. CASE ~(j <= Len(s))
    <3>1. j - Len(s) \in 1..n BY <1>1, <1>2, <2>2
    <3> QED BY <1>1, <1>2, <2>2, <3>1
  <2> QED BY <2>1, <2>2
<1> QED BY <1>2, <1>3 DEF w

(* Every write leaves the lease side of the store alone.                    *)
LEMMA WriteKeepsLease ==
    ASSUME NEW r, NEW c, Write(r, c)
    PROVE  UNCHANGED <<lease, now, tokens, givenUp>>
BY DEF Write, Adopt, SaveCheckpoint, AppendEvents, MarkCompleted, MarkFailed

(* Every write either leaves all logs alone or appends to its run's.        *)
LEMMA WriteAppends ==
    ASSUME NEW r, NEW c, Write(r, c)
    PROVE  \/ log' = log
           \/ \E n \in Nat : log' = [log EXCEPT ![r] = @ \o Stamped(c, n)]
<1>1. \A n \in WriteSizes : n \in Nat
  BY DEF WriteSizes
<1>2. CASE \E s \in Sessions : Adopt(r, s, c)
  BY <1>2 DEF Adopt
<1>3. ASSUME NEW n \in Nat, Appended(r, c, n)
      PROVE  \E k \in Nat : log' = [log EXCEPT ![r] = @ \o Stamped(c, k)]
  BY <1>3 DEF Appended
<1>4. \/ \E n \in Nat : Appended(r, c, n)
      \/ \E s \in Sessions : Adopt(r, s, c)
  BY <1>1, Zenon
     DEF Write, SaveCheckpoint, AppendEvents, MarkCompleted, MarkFailed
<1> QED BY <1>2, <1>3, <1>4

(* A write of a run leaves the table of rows well-typed.                    *)
LEMMA WriteRow ==
    ASSUME TypeOK, NEW r \in Runs, NEW c \in Callers(r), Write(r, c)
    PROVE  runs' \in [Runs -> Row \cup {NoRun}]
<1>0. c.epoch \in Nat BY CallerEpoch
<1> USE DEF TypeOK, Row, Exists
<1>1. ASSUME NEW s \in Sessions, Adopt(r, s, c)
      PROVE  runs' \in [Runs -> Row \cup {NoRun}]
  <2>1. [runs[r] EXCEPT !.status = "running", !.checkpoint = c.epoch] \in Row
    BY <1>0, <1>1 DEF Adopt, Status, ActiveStatus
  <2> QED BY <1>1, <2>1 DEF Adopt
<1>2. ASSUME NEW status \in Status, NEW n, SaveCheckpoint(r, c, status, n)
      PROVE  runs' \in [Runs -> Row \cup {NoRun}]
  <2>1. [runs[r] EXCEPT !.checkpoint = c.epoch, !.status = status] \in Row
    BY <1>0, <1>2 DEF SaveCheckpoint
  <2> QED BY <1>2, <2>1 DEF SaveCheckpoint
<1>3. ASSUME NEW n, AppendEvents(r, c, n)
      PROVE  runs' \in [Runs -> Row \cup {NoRun}]
  BY <1>3 DEF AppendEvents
<1>4. "completed" \in Status BY DEF Status, TerminalStatus
<1>5. ASSUME NEW n, MarkFailed(r, c, n)
      PROVE  runs' \in [Runs -> Row \cup {NoRun}]
  <2>1. PICK cp \in {runs[r].checkpoint, c.epoch} :
              runs' = [runs EXCEPT ![r].checkpoint = cp, ![r].status = "failed"]
    BY <1>5 DEF MarkFailed
  <2>2. cp \in Nat \cup {-1} BY <1>0, <1>5 DEF MarkFailed
  <2>3. Exists(r) BY <1>5 DEF MarkFailed
  <2>4. [runs[r] EXCEPT !.checkpoint = cp, !.status = "failed"] \in Row
    BY <2>2, <2>3 DEF Status, TerminalStatus
  <2> QED BY <2>1, <2>3, <2>4
<1> QED BY <1>1, <1>2, <1>3, <1>4, <1>5 DEF Write, MarkCompleted

-----------------------------------------------------------------------------
(* The actions of Next, grouped by the part of the store they touch.        *)
LEMMA NextCases ==
    ASSUME [Next]_vars
    PROVE  \/ \E r \in Runs, s \in Sessions : CreateRunning(r, s)
           \/ \E r \in Runs, s \in Sessions : CreatePending(r, s)
           \/ \E r \in Runs, o \in Owners : Claim(r, o)
           \/ \E t \in tokens : Renew(t)
           \/ \E t \in tokens : Release(t)
           \/ \E r \in Runs : \E c \in Callers(r) : Write(r, c)
           \/ Tick
           \/ UNCHANGED vars
BY Zenon DEF Next

(* Type correctness is inductive.                                           *)
LEMMA TypeStep ==
    ASSUME TypeOK, [Next]_vars
    PROVE  TypeOK'
<1> USE RunStoreAssumption DEF TypeOK
<1>1. ASSUME NEW r \in Runs, NEW s \in Sessions,
             CreateRunning(r, s) \/ CreatePending(r, s)
      PROVE  TypeOK'
  <2>1. runs' \in [Runs -> Row \cup {NoRun}]
    <3>1. /\ [session |-> s, status |-> "running", checkpoint |-> 0] \in Row
          /\ [session |-> s, status |-> "pending", checkpoint |-> NoCheckpoint] \in Row
      BY DEF Row, Status, ActiveStatus, NoCheckpoint
    <3> QED BY <1>1, <3>1 DEF CreateRunning, CreatePending
  <2> QED BY <1>1, <2>1 DEF CreateRunning, CreatePending
<1>2. ASSUME NEW r \in Runs, NEW o \in Owners, Claim(r, o)
      PROVE  TypeOK'
  <2>1. ClaimEpoch(r, o) \in Nat BY DEF ClaimEpoch
  <2>2. now + Ttl \in Nat OBVIOUS
  <2>3. /\ lease' = [lease EXCEPT ![r] =
                 [owner |-> o, epoch |-> ClaimEpoch(r, o), expires |-> now + Ttl]]
        /\ tokens' = tokens \cup {[run |-> r, owner |-> o,
                           epoch |-> ClaimEpoch(r, o), expires |-> now + Ttl]}
        /\ UNCHANGED <<runs, log, now, givenUp>>
    BY <1>2 DEF Claim
  <2> QED BY <2>1, <2>2, <2>3 DEF Token
<1>3. ASSUME NEW t \in tokens, Renew(t)
      PROVE  TypeOK'
  <2>1. t \in Token /\ now + Ttl \in Nat OBVIOUS
  <2>2. [t EXCEPT !.expires = now + Ttl] \in Token BY <2>1 DEF Token
  <2> QED BY <1>3, <2>1, <2>2 DEF Renew
<1>4. ASSUME NEW t \in tokens, Release(t)
      PROVE  TypeOK'
  <2>1. t.run \in Runs /\ t.epoch \in Nat BY DEF Token
  <2>2. <<t.run, t.epoch>> \in Runs \X Nat BY <2>1
  <2> QED BY <1>4, <2>1, <2>2 DEF Release
<1>5. ASSUME NEW r \in Runs, NEW c \in Callers(r), Write(r, c)
      PROVE  TypeOK'
  <2>1. c.epoch \in Nat BY CallerEpoch
  <2>2. UNCHANGED <<lease, now, tokens, givenUp>> BY <1>5, WriteKeepsLease
  <2>3. runs' \in [Runs -> Row \cup {NoRun}] BY <1>5, WriteRow
  <2>4. log' \in [Runs -> Seq(Nat)]
    <3>1. CASE log' = log BY <3>1
    <3>2. ASSUME NEW n \in Nat, log' = [log EXCEPT ![r] = @ \o Stamped(c, n)]
          PROVE  log' \in [Runs -> Seq(Nat)]
      BY <2>1, <3>2, AppendedLog
    <3> QED BY <1>5, <3>1, <3>2, WriteAppends
  <2> QED BY <2>2, <2>3, <2>4
<1>6. CASE Tick BY <1>6 DEF Tick
<1>7. CASE UNCHANGED vars BY <1>7 DEF vars
<1> QED BY <1>1, <1>2, <1>3, <1>4, <1>5, <1>6, <1>7, NextCases

(* The store's columns always hold values of their types (Row, Token).      *)
THEOREM TypeCorrect == Spec => []TypeOK
<1>1. Init => TypeOK BY RunStoreAssumption DEF Init, TypeOK
<1>2. TypeOK /\ [Next]_vars => TypeOK' BY TypeStep
<1> QED BY <1>1, <1>2, PTL DEF Spec

-----------------------------------------------------------------------------
(* Admission is inductive by itself: the two inserts and the adoption, and  *)
(* the checkpoint write that may reactivate a row, all go through Admit.    *)
LEMMA AdmissionStep ==
    ASSUME TypeOK, OneActivePerSession, [Next]_vars
    PROVE  OneActivePerSession'
<1> USE DEF OneActivePerSession, IsActive, Exists
<1>1. ASSUME NEW r \in Runs, NEW row \in Row, Admit(row.session, r, row.status),
             runs' = [runs EXCEPT ![r] = row]
      PROVE  OneActivePerSession'
  <2>1. \A q \in Runs \ {r} : runs'[q] = runs[q] BY <1>1 DEF TypeOK
  <2>2. runs'[r] = row BY <1>1 DEF TypeOK
  <2> QED BY <1>1, <2>1, <2>2 DEF Admit
<1>2. ASSUME NEW r \in Runs, runs[r] # NoRun, NEW row,
             runs' = [runs EXCEPT ![r] = row], row.session = runs[r].session,
             row.status \notin ActiveStatus
      PROVE  OneActivePerSession'
  <2>1. \A q \in Runs \ {r} : runs'[q] = runs[q] BY <1>2 DEF TypeOK
  <2>2. runs'[r] = row BY <1>2 DEF TypeOK
  <2> QED BY <1>2, <2>1, <2>2
<1>3. CASE runs' = runs BY <1>3
<1>4. ASSUME NEW r \in Runs, NEW s \in Sessions,
             CreateRunning(r, s) \/ CreatePending(r, s)
      PROVE  OneActivePerSession'
  <2>1. /\ [session |-> s, status |-> "running", checkpoint |-> 0] \in Row
        /\ [session |-> s, status |-> "pending", checkpoint |-> NoCheckpoint] \in Row
    BY DEF Row, Status, ActiveStatus, NoCheckpoint
  <2> QED BY <1>1, <1>4, <2>1 DEF CreateRunning, CreatePending
<1>5. ASSUME NEW r \in Runs, NEW c \in Callers(r), NEW s \in Sessions, Adopt(r, s, c)
      PROVE  OneActivePerSession'
  <2> DEFINE row == [runs[r] EXCEPT !.status = "running", !.checkpoint = c.epoch]
  <2>1. c.epoch \in Nat BY CallerEpoch
  <2>2. /\ row \in Row
        /\ row.session = s
        /\ row.status = "running"
    BY <1>5, <2>1 DEF Adopt, TypeOK, Row, Status, ActiveStatus
  <2>3. runs' = [runs EXCEPT ![r] = row] BY <1>5 DEF Adopt, TypeOK
  <2> HIDE DEF row
  <2> QED BY <1>1, <1>5, <2>2, <2>3 DEF Adopt
<1>6. ASSUME NEW r \in Runs, NEW c \in Callers(r), NEW status \in Status,
             NEW n, SaveCheckpoint(r, c, status, n)
      PROVE  OneActivePerSession'
  <2> DEFINE row == [runs[r] EXCEPT !.checkpoint = c.epoch, !.status = status]
  <2>1. c.epoch \in Nat BY CallerEpoch
  <2>2. /\ row \in Row
        /\ row.session = runs[r].session
        /\ row.status = status
    BY <1>6, <2>1 DEF SaveCheckpoint, TypeOK, Row
  <2>3. runs' = [runs EXCEPT ![r] = row] BY <1>6 DEF SaveCheckpoint, TypeOK
  <2> HIDE DEF row
  <2> QED BY <1>1, <1>6, <2>2, <2>3 DEF SaveCheckpoint
<1>7. ASSUME NEW r \in Runs, NEW c \in Callers(r), NEW n, MarkFailed(r, c, n)
      PROVE  OneActivePerSession'
  <2>1. PICK cp \in {runs[r].checkpoint, c.epoch} :
              runs' = [runs EXCEPT ![r].checkpoint = cp, ![r].status = "failed"]
    BY <1>7 DEF MarkFailed
  <2> DEFINE row == [runs[r] EXCEPT !.checkpoint = cp, !.status = "failed"]
  <2>2. /\ row.session = runs[r].session
        /\ row.status \notin ActiveStatus
    BY <1>7 DEF MarkFailed, TypeOK, Row, ActiveStatus
  <2>3. runs' = [runs EXCEPT ![r] = row] BY <2>1 DEF TypeOK
  <2>4. runs[r] # NoRun BY <1>7 DEF MarkFailed
  <2> HIDE DEF row
  <2> QED BY <1>2, <2>2, <2>3, <2>4
<1>8. "completed" \in Status BY DEF Status, TerminalStatus
<1>9. ASSUME NEW r \in Runs, NEW c \in Callers(r), Write(r, c)
      PROVE  OneActivePerSession'
  <2>1. CASE \E n \in WriteSizes \ {0} : AppendEvents(r, c, n)
    BY <1>3, <2>1 DEF AppendEvents
  <2> QED BY <1>5, <1>6, <1>7, <1>8, <1>9, <2>1 DEF Write, MarkCompleted
<1>10. CASE \E r \in Runs, o \in Owners : Claim(r, o) BY <1>3, <1>10 DEF Claim
<1>11. CASE \E t \in tokens : Renew(t) \/ Release(t)
  BY <1>3, <1>11 DEF Renew, Release
<1>12. CASE Tick \/ UNCHANGED vars BY <1>3, <1>12 DEF Tick, vars
<1> QED BY <1>4, <1>9, <1>10, <1>11, <1>12, NextCases

(* A session never has two nonterminal runs (_admit).                       *)
THEOREM Admission == Spec => []OneActivePerSession
<1>1. Init => TypeOK /\ OneActivePerSession
  BY RunStoreAssumption DEF Init, TypeOK, OneActivePerSession, IsActive, Exists
<1>2. TypeOK /\ OneActivePerSession /\ [Next]_vars => (TypeOK /\ OneActivePerSession)'
  BY TypeStep, AdmissionStep
<1> QED BY <1>1, <1>2, PTL DEF Spec

-----------------------------------------------------------------------------
(* The lease invariant is inductive.  A claim of a free or expired row      *)
(* takes a new epoch, above every token's; a claim of a live row is a       *)
(* refresh by its owner; a release moves the epoch past every token's.      *)
LEMMA LeaseStep ==
    ASSUME TypeOK, LeaseInv, [Next]_vars
    PROVE  LeaseInv'
<1> USE RunStoreAssumption
<1>t. /\ now \in Nat /\ now + Ttl \in Nat /\ now + Ttl > now
      /\ lease \in [Runs -> [owner : Owners \cup {NoOwner}, epoch : Nat, expires : Nat]]
      /\ \A t \in tokens : /\ t \in Token /\ t.run \in Runs /\ t.owner \in Owners
                           /\ t.epoch \in Nat /\ t.expires \in Nat
  BY DEF TypeOK, Token
<1> USE DEF LeaseInv, TokensBehindLease, EpochNamesOneOwner, ExpiryCovered,
            UnexpiredTokenIsCurrent, Current
<1>1. ASSUME UNCHANGED <<lease, now, tokens, givenUp>>
      PROVE  LeaseInv'
  BY <1>1
<1>2. ASSUME NEW r \in Runs, NEW o \in Owners, Claim(r, o)
      PROVE  LeaseInv'
  <2> DEFINE e == ClaimEpoch(r, o)
             l == [owner |-> o, epoch |-> e, expires |-> now + Ttl]
             u == [run |-> r, owner |-> o, epoch |-> e, expires |-> now + Ttl]
  <2>1. /\ lease' = [lease EXCEPT ![r] = l]
        /\ tokens' = tokens \cup {u}
        /\ now' = now /\ givenUp' = givenUp
    BY <1>2 DEF Claim
  <2>2. /\ e \in Nat
        /\ \/ e > lease[r].epoch /\ ~Live(r)
           \/ e = lease[r].epoch /\ lease[r].owner = o
    BY <1>2, <1>t DEF Claim, ClaimEpoch
  <2>3. /\ u.run = r /\ u.owner = o /\ u.epoch = e /\ u.expires = now + Ttl
        /\ l.owner = o /\ l.epoch = e /\ l.expires = now + Ttl
    OBVIOUS
  <2>4. /\ lease'[r] = l
        /\ \A q \in Runs \ {r} : lease'[q] = lease[q]
    BY <1>t, <2>1
  <2> HIDE DEF e, l, u
  <2>5. TokensBehindLease' BY <1>t, <2>1, <2>2, <2>3, <2>4
  <2>6. EpochNamesOneOwner'
    <3> SUFFICES ASSUME NEW t \in tokens, t.run = r, t.epoch = e
                 PROVE  t.owner = o
      BY <2>1, <2>3
    <3> QED BY <1>t, <2>2
  <2>7. ExpiryCovered' BY <1>t, <2>1, <2>2, <2>3, <2>4
  <2>8. UnexpiredTokenIsCurrent'
    <3> SUFFICES ASSUME NEW t \in tokens, t.expires > now,
                        <<t.run, t.epoch>> \notin givenUp
                 PROVE  Current(t)'
      BY <2>1, <2>3, <2>4
    <3>1. Current(t) OBVIOUS
    <3>2. CASE t.run # r BY <1>t, <2>4, <3>1, <3>2
    <3>3. CASE t.run = r
      <4>1. Live(r) BY <1>t, <3>1, <3>3 DEF Live
      <4> QED BY <1>t, <2>2, <2>3, <2>4, <3>1, <3>3, <4>1
    <3> QED BY <3>2, <3>3
  <2> QED BY <2>5, <2>6, <2>7, <2>8
<1>3. ASSUME NEW t \in tokens, Renew(t)
      PROVE  LeaseInv'
  <2> DEFINE r == t.run
             u == [t EXCEPT !.expires = now + Ttl]
  <2>1. /\ tokens' = tokens \cup {u}
        /\ lease'[r].owner = lease[r].owner
        /\ lease'[r].epoch = lease[r].epoch
        /\ lease'[r].expires = now + Ttl
        /\ \A q \in Runs \ {r} : lease'[q] = lease[q]
        /\ now' = now /\ givenUp' = givenUp
    BY <1>3, <1>t DEF Renew
  <2>2. /\ u.run = r /\ u.owner = t.owner /\ u.epoch = t.epoch
        /\ u.expires = now + Ttl
        /\ lease[r].owner = t.owner /\ lease[r].epoch = t.epoch
    BY <1>3, <1>t DEF Renew, Token
  <2>3. r \in Runs /\ t.epoch \in Nat BY <1>t
  <2> HIDE DEF r, u
  <2>4. TokensBehindLease' BY <1>t, <2>1, <2>2, <2>3
  <2>5. EpochNamesOneOwner' BY <1>t, <2>1, <2>2, <2>3 DEF r
  <2>6. ExpiryCovered' BY <1>t, <2>1, <2>2, <2>3
  <2>7. UnexpiredTokenIsCurrent' BY <1>t, <2>1, <2>2, <2>3
  <2> QED BY <2>4, <2>5, <2>6, <2>7
<1>4. ASSUME NEW t \in tokens, Release(t)
      PROVE  LeaseInv'
  <2> DEFINE r == t.run
  <2>1. /\ tokens' = tokens /\ now' = now
        /\ givenUp' = givenUp \cup {<<r, t.epoch>>}
        /\ lease'[r] = [owner |-> NoOwner, epoch |-> t.epoch + 1, expires |-> 0]
        /\ \A q \in Runs \ {r} : lease'[q] = lease[q]
        /\ lease[r].owner = t.owner /\ lease[r].epoch = t.epoch
    BY <1>4, <1>t DEF Release
  <2>2. r \in Runs /\ t.epoch \in Nat BY <1>t
  <2> HIDE DEF r
  <2>3. TokensBehindLease' BY <1>t, <2>1, <2>2
  <2>4. EpochNamesOneOwner' BY <2>1
  <2>5. ExpiryCovered' BY <1>t, <2>1, <2>2
  <2>6. UnexpiredTokenIsCurrent' BY <1>t, <2>1, <2>2
  <2> QED BY <2>3, <2>4, <2>5, <2>6
<1>5. CASE Tick
  <2>1. /\ now' = now + 1
        /\ UNCHANGED <<lease, tokens, givenUp>>
    BY <1>5 DEF Tick
  <2> QED BY <1>t, <2>1
<1>6. CASE \E r \in Runs : \E c \in Callers(r) : Write(r, c)
  BY <1>1, <1>6, WriteKeepsLease
<1>7. CASE \E r \in Runs, s \in Sessions : CreateRunning(r, s) \/ CreatePending(r, s)
  BY <1>1, <1>7 DEF CreateRunning, CreatePending
<1>8. CASE UNCHANGED vars BY <1>1, <1>8 DEF vars
<1> QED BY <1>2, <1>3, <1>4, <1>5, <1>6, <1>7, <1>8, NextCases

LEMMA LeaseInit == Init => LeaseInv
BY RunStoreAssumption
   DEF Init, LeaseInv, TokensBehindLease, EpochNamesOneOwner, ExpiryCovered,
       UnexpiredTokenIsCurrent

(* No operation lowers the stored epoch or takes a token back.              *)
LEMMA EpochsGrow ==
    ASSUME TypeOK, [Next]_vars
    PROVE  /\ \A r \in Runs : lease[r].epoch <= lease'[r].epoch
           /\ tokens \subseteq tokens'
<1>t. /\ lease \in [Runs -> [owner : Owners \cup {NoOwner}, epoch : Nat, expires : Nat]]
      /\ \A t \in tokens : t.run \in Runs /\ t.epoch \in Nat
  BY DEF TypeOK, Token
<1>1. ASSUME NEW r \in Runs, NEW o \in Owners, Claim(r, o)
      PROVE  /\ \A q \in Runs : lease[q].epoch <= lease'[q].epoch
             /\ tokens \subseteq tokens'
  <2>1. ClaimEpoch(r, o) \in Nat /\ lease[r].epoch <= ClaimEpoch(r, o)
    BY <1>t DEF ClaimEpoch
  <2> QED BY <1>1, <1>t, <2>1 DEF Claim
<1>2. ASSUME NEW t \in tokens, Renew(t) \/ Release(t)
      PROVE  /\ \A q \in Runs : lease[q].epoch <= lease'[q].epoch
             /\ tokens \subseteq tokens'
  BY <1>2, <1>t DEF Renew, Release, Current
<1>3. ASSUME UNCHANGED <<lease, tokens>>
      PROVE  /\ \A q \in Runs : lease[q].epoch <= lease'[q].epoch
             /\ tokens \subseteq tokens'
  BY <1>3, <1>t
<1>4. CASE \E r \in Runs : \E c \in Callers(r) : Write(r, c)
  BY <1>3, <1>4, WriteKeepsLease
<1>5. CASE \E r \in Runs, s \in Sessions : CreateRunning(r, s) \/ CreatePending(r, s)
  BY <1>3, <1>5 DEF CreateRunning, CreatePending
<1>6. CASE Tick \/ UNCHANGED vars BY <1>3, <1>6 DEF Tick, vars
<1> QED BY <1>1, <1>2, <1>4, <1>5, <1>6, NextCases

(* The log invariant is inductive: whatever is appended carries 0 or the    *)
(* stored epoch, and the stored epoch bounds everything already there.      *)
LEMMA LogStep ==
    ASSUME TypeOK, LogInv, [Next]_vars
    PROVE  LogInv'
<1>t. /\ log \in [Runs -> Seq(Nat)]
      /\ \A r \in Runs : lease[r].epoch \in Nat /\ lease'[r].epoch \in Nat
  BY TypeStep DEF TypeOK
<1>e. /\ \A r \in Runs : lease[r].epoch <= lease'[r].epoch
      /\ tokens \subseteq tokens'
  BY EpochsGrow
<1>1. CASE log' = log
  <2>1. LogBehindLease' BY <1>1, <1>t, <1>e DEF LogInv, LogBehindLease
  <2>2. LogOrderedByTenure' BY <1>1, <1>e DEF LogInv, LogOrderedByTenure
  <2> QED BY <2>1, <2>2 DEF LogInv
<1>2. ASSUME NEW r \in Runs, NEW c \in Callers(r), NEW n \in Nat,
             log' = [log EXCEPT ![r] = @ \o Stamped(c, n)]
      PROVE  LogInv'
  <2> DEFINE old == log[r]
             u == log'[r]
  <2>1. /\ c.epoch \in Nat
        /\ c.epoch # 0 => /\ c.epoch = lease[r].epoch
                          /\ \E t \in tokens : t.run = r /\ t.epoch = c.epoch
    BY CallerEpoch
  <2>2. /\ u = old \o Stamped(c, n)
        /\ \A q \in Runs \ {r} : log'[q] = log[q]
    BY <1>2, <1>t
  <2>3. /\ old \in Seq(Nat) /\ Len(old) \in Nat
        /\ u \in Seq(Nat) /\ Len(u) \in Nat
        /\ \A j \in 1..Len(u) : u[j] = IF j <= Len(old) THEN old[j] ELSE c.epoch
        /\ \A j \in 1..Len(old) : old[j] \in Nat
    <3>1. old \in Seq(Nat) BY <1>t
    <3> HIDE DEF old
    <3> DEFINE appended == old \o Stamped(c, n)
    <3>2. /\ appended \in Seq(Nat)
          /\ \A j \in 1..Len(appended) :
                appended[j] = IF j <= Len(old) THEN old[j] ELSE c.epoch
      BY <2>1, <3>1, AppendedLog
    <3>3. u = appended BY <2>2
    <3> HIDE DEF u, appended
    <3> QED BY <3>1, <3>2, <3>3
  <2>4. \A j \in 1..Len(old) :
           /\ old[j] <= lease[r].epoch
           /\ old[j] # 0 => /\ \E t \in tokens : t.run = r /\ t.epoch = old[j]
                            /\ \A i \in 1..j : old[i] <= old[j]
    <3> SUFFICES ASSUME NEW j \in 1..Len(log[r])
                 PROVE  /\ log[r][j] <= lease[r].epoch
                        /\ log[r][j] # 0 =>
                              /\ \E t \in tokens : t.run = r /\ t.epoch = log[r][j]
                              /\ \A i \in 1..j : log[r][i] <= log[r][j]
      OBVIOUS
    <3>1. log[r][j] <= lease[r].epoch BY DEF LogInv, LogBehindLease
    <3> QED BY <3>1 DEF LogInv, LogOrderedByTenure
  <2>5. \A q \in Runs \ {r} : \A j \in 1..Len(log'[q]) :
           /\ log'[q][j] <= lease[q].epoch
           /\ log'[q][j] # 0 =>
                 /\ \E t \in tokens : t.run = q /\ t.epoch = log'[q][j]
                 /\ \A i \in 1..j : log'[q][i] <= log'[q][j]
    BY <2>2 DEF LogInv, LogBehindLease, LogOrderedByTenure
  <2> HIDE DEF old, u
  <2>6. ASSUME NEW j \in 1..Len(u)
        PROVE  /\ u[j] <= lease[r].epoch
               /\ u[j] # 0 => /\ \E t \in tokens : t.run = r /\ t.epoch = u[j]
                              /\ \A i \in 1..j : u[i] <= u[j]
    <3>1. CASE j <= Len(old)
      <4>1. j \in 1..Len(old) /\ \A i \in 1..j : i \in 1..Len(old)
        BY <2>3, <3>1
      <4>2. u[j] = old[j] /\ \A i \in 1..j : u[i] = old[i]
        <5>1. \A i \in 1..j : i \in 1..Len(u) /\ i <= Len(old) BY <2>3, <3>1
        <5> QED BY <2>3, <5>1
      <4> QED BY <2>4, <4>1, <4>2
    <3>2. CASE ~(j <= Len(old))
      <4>1. u[j] = c.epoch BY <2>3, <3>2
      <4>2. ASSUME NEW i \in 1..j, c.epoch # 0
            PROVE  u[i] <= c.epoch
        <5>1. CASE i \in 1..Len(old) BY <2>1, <2>3, <2>4, <4>2, <5>1
        <5>2. CASE i \notin 1..Len(old)
          <6>1. i \in 1..Len(u) /\ ~ (i <= Len(old)) BY <2>3, <5>2
          <6> QED BY <2>1, <2>3, <6>1
        <5> QED BY <5>1, <5>2
      <4> QED BY <1>t, <2>1, <4>1, <4>2
    <3> QED BY <3>1, <3>2
  <2>7. LogBehindLease'
    <3> SUFFICES ASSUME NEW q \in Runs, NEW j \in 1..Len(log'[q])
                 PROVE  log'[q][j] <= lease'[q].epoch
      BY DEF LogBehindLease
    <3>1. log'[q][j] \in Nat /\ log'[q][j] <= lease[q].epoch
      <4>1. CASE q = r BY <2>3, <2>6, <4>1 DEF u
      <4>2. CASE q # r BY <1>t, <2>2, <2>5, <4>2
      <4> QED BY <4>1, <4>2
    <3> QED BY <1>t, <1>e, <3>1
  <2>8. LogOrderedByTenure'
    BY <1>e, <2>5, <2>6 DEF LogOrderedByTenure, u
  <2> QED BY <2>7, <2>8 DEF LogInv
<1>3. CASE \E r \in Runs : \E c \in Callers(r) : Write(r, c)
  BY <1>1, <1>2, <1>3, WriteAppends
<1>4. CASE \E r \in Runs, s \in Sessions : CreateRunning(r, s) \/ CreatePending(r, s)
  BY <1>1, <1>4 DEF CreateRunning, CreatePending
<1>5. CASE \/ \E r \in Runs, o \in Owners : Claim(r, o)
           \/ \E t \in tokens : Renew(t) \/ Release(t)
           \/ Tick \/ UNCHANGED vars
  BY <1>1, <1>5 DEF Claim, Renew, Release, Tick, vars
<1> QED BY <1>3, <1>4, <1>5, NextCases

-----------------------------------------------------------------------------
LEMMA StoreInvariant == Spec => [](TypeOK /\ LeaseInv /\ LogInv)
<1>1. Init => TypeOK /\ LeaseInv /\ LogInv
  <2>1. Init => TypeOK BY RunStoreAssumption DEF Init, TypeOK
  <2>2. Init => LogInv BY DEF Init, LogInv, LogBehindLease, LogOrderedByTenure
  <2> QED BY <2>1, <2>2, LeaseInit
<1>2. TypeOK /\ LeaseInv /\ LogInv /\ [Next]_vars => (TypeOK /\ LeaseInv /\ LogInv)'
  BY TypeStep, LeaseStep, LogStep
<1> QED BY <1>1, <1>2, PTL DEF Spec

(* An epoch is handed to one worker only (claim, release).                  *)
THEOREM EpochUniqueness == Spec => []EpochNamesOneOwner
<1>1. LeaseInv => EpochNamesOneOwner BY DEF LeaseInv
<1> QED BY <1>1, StoreInvariant, PTL

(* A live lease that was not released is never taken away (claim, renew).   *)
THEOREM LeasePromise == Spec => []UnexpiredTokenIsCurrent
<1>1. LeaseInv => UnexpiredTokenIsCurrent BY DEF LeaseInv
<1> QED BY <1>1, StoreInvariant, PTL

(* The log is a concatenation of tenures (_check_lease, the fence of        *)
(* _write_event_rows).                                                      *)
THEOREM LogTenures == Spec => []LogOrderedByTenure
<1>1. LogInv => LogOrderedByTenure BY DEF LogInv
<1> QED BY <1>1, StoreInvariant, PTL

(* A token that lost its fence never passes it again.                       *)
THEOREM FencingIsFinal == Spec => FencedForever
<1>1. TypeOK /\ LeaseInv /\ TypeOK' /\ LeaseInv' /\ [Next]_vars
        => [\A t \in tokens : ~Current(t) => ~Current(t)']_vars
  <2> SUFFICES ASSUME TypeOK, LeaseInv, LeaseInv', TypeOK', [Next]_vars,
                      NEW t \in tokens, ~Current(t)
               PROVE  ~Current(t)'
    OBVIOUS
  <2>1. /\ t.run \in Runs /\ t.epoch \in Nat
        /\ lease[t.run].epoch \in Nat /\ lease'[t.run].epoch \in Nat
    BY DEF TypeOK, Token
  <2>2. t.epoch < lease[t.run].epoch
    BY <2>1 DEF LeaseInv, TokensBehindLease, Current
  <2>3. lease[t.run].epoch <= lease'[t.run].epoch
    BY <2>1, EpochsGrow
  <2> QED BY <2>1, <2>2, <2>3 DEF Current
<1> QED BY <1>1, StoreInvariant, PTL DEF Spec, FencedForever

-----------------------------------------------------------------------------
Job == [state : {"none", "queued", "held"}, attempts : 0..MaxAttempts]
ScheduleRow == [enabled : BOOLEAN, next : Fires]

(* The clock stops at its bound, so every fire that is due is an occurrence *)
(* that may get a run.                                                      *)
ClockBounded == now <= MaxTime

(* The next fire is a whole number of intervals after the first one.        *)
Calendar ==
    \A s \in Schedules : schedule[s] # NoSchedule =>
        /\ first[s] \in Fires /\ first[s] <= schedule[s].next
        /\ (schedule[s].next - first[s]) % Every = 0

(* No occurrence has a run before its schedule exists.                      *)
NothingBefore ==
    \A s \in Schedules : schedule[s] = NoSchedule =>
        \A o \in Runs \cap Occurrences : o[1] = s => ~ Exists(o)

DispatchInv ==
    /\ DispatchTypeOK /\ ClockBounded /\ Calendar /\ NothingBefore
    /\ OneActivePerSession /\ OccurrencesExact /\ NothingStranded

-----------------------------------------------------------------------------
(* Intervals.                                                               *)

(* A number is a multiple of the interval and a remainder.                  *)
LEMMA Quotient ==
    ASSUME NEW e \in Nat \ {0}, NEW a \in Nat
    PROVE  \E q \in Int : a = e * q + (a % e) /\ a % e \in 0..(e-1)
<1>1. a \div e \in Int /\ a % e \in 0..(e-1) OBVIOUS
<1>2. a = e * (a \div e) + (a % e) OBVIOUS
<1> QED BY <1>1, <1>2

(* The remainder is the only one below the interval.                        *)
LEMMA Remainder ==
    ASSUME NEW e \in Nat \ {0}, NEW q \in Int, NEW r \in 0..(e-1), NEW a \in Nat,
           a = e * q + r
    PROVE  a % e = r
<1>1. PICK p \in Int : a = e * p + (a % e) /\ a % e \in 0..(e-1) BY Quotient
<1> DEFINE l == a % e
<1>2. l \in 0..(e-1) /\ a = e * p + l BY <1>1
<1> HIDE DEF l
<1>4. e * q - e * p = l - r BY <1>2
<1>5. CASE q - p >= 1
  <2>1. e * (q - p) >= e BY <1>5
  <2>2. e * (q - p) = e * q - e * p OBVIOUS
  <2> QED BY <1>2, <1>4, <2>1, <2>2
<1>6. CASE q - p <= -1
  <2>1. e * (q - p) <= -e BY <1>6
  <2>2. e * (q - p) = e * q - e * p OBVIOUS
  <2> QED BY <1>2, <1>4, <2>1, <2>2
<1>7. CASE q = p
  BY <1>2, <1>4, <1>7
<1> QED BY <1>5, <1>6, <1>7 DEF l

(* The next multiple of an interval, and none in between.                   *)
LEMMA NextMultiple ==
    ASSUME NEW e \in Nat \ {0}, NEW a \in Nat, a % e = 0
    PROVE  /\ (a + e) % e = 0
           /\ \A k \in 1..(e - 1) : (a + k) % e # 0
<1>1. PICK q \in Int : a = e * q BY Quotient
<1>2. (a + e) % e = 0
  <2> DEFINE b == a + e
  <2>1. b = e * (q + 1) + 0 BY <1>1
  <2>2. q + 1 \in Int /\ 0 \in 0..(e-1) /\ b \in Nat OBVIOUS
  <2> HIDE DEF b
  <2>3. b % e = 0 BY <2>1, <2>2, Remainder
  <2> QED BY <2>3 DEF b
<1>3. ASSUME NEW k \in 1..(e - 1)
      PROVE  (a + k) % e # 0
  <2> DEFINE b == a + k
  <2>1. b = e * q + k BY <1>1
  <2>2. k \in 0..(e-1) /\ b \in Nat /\ k # 0 OBVIOUS
  <2> HIDE DEF b
  <2>3. b % e = k BY <2>1, <2>2, Remainder
  <2> QED BY <2>2, <2>3 DEF b
<1> QED BY <1>2, <1>3

(* The distance of two times is that of their equals.                       *)
LEMMA SameDistance ==
    ASSUME NEW a, NEW b, NEW c, NEW d, a = c, b = d
    PROVE  (a - b) % Every = (c - d) % Every
BY Zenon

-----------------------------------------------------------------------------
(* The rows that a transaction inserts for a batch.                         *)


(* A batch is a set of requested runs, or the one run of an occurrence.     *)
Batch(batch) ==
    /\ batch \subseteq Runs
    /\ \A r \in batch : SessionOf(r) \in Sessions

LEMMA InsertedRows ==
    ASSUME TypeOK, NEW batch, Batch(batch), runs' = Inserted(batch)
    PROVE  /\ runs' \in [Runs -> Row \cup {NoRun}]
           /\ \A r \in Runs : Exists(r)' <=> Exists(r) \/ r \in batch
           /\ \A r \in Runs : r \notin New(batch) => runs'[r] = runs[r]
           /\ \A r \in New(batch) : /\ runs'[r].session = SessionOf(r)
                                    /\ runs'[r].status = "pending"
<1>1. \A r \in batch :
         [session |-> SessionOf(r), status |-> "pending", checkpoint |-> NoCheckpoint] \in Row
  BY DEF Batch, Row, Status, ActiveStatus, NoCheckpoint
<1>2. New(batch) \subseteq batch /\ New(batch) \subseteq Runs
  BY DEF New, Batch
<1>3. NoRun \notin Row BY DispatchAssumption
<1>4. \A r \in Runs :
         runs'[r] = IF r \in New(batch)
                    THEN [session |-> SessionOf(r), status |-> "pending",
                          checkpoint |-> NoCheckpoint]
                    ELSE runs[r]
  BY DEF Inserted
<1>5. runs' \in [Runs -> Row \cup {NoRun}]
  BY <1>1, <1>2 DEF Inserted, TypeOK
<1>6. \A r \in Runs : Exists(r)' <=> Exists(r) \/ r \in batch
  <2> SUFFICES ASSUME NEW r \in Runs PROVE Exists(r)' <=> Exists(r) \/ r \in batch
    OBVIOUS
  <2>1. CASE r \in New(batch) BY <1>1, <1>2, <1>3, <1>4, <2>1 DEF Exists
  <2>2. CASE r \notin New(batch) BY <1>4, <2>2 DEF Exists, New
  <2> QED BY <2>1, <2>2
<1> QED BY <1>2, <1>4, <1>5, <1>6

(* A batch that is admissible keeps the admission rule.                     *)
LEMMA BatchAdmitted ==
    ASSUME TypeOK, OneActivePerSession, NEW batch, Batch(batch), Admissible(batch),
           runs' = Inserted(batch)
    PROVE  OneActivePerSession'
<1> SUFFICES ASSUME NEW q \in Runs, NEW r \in Runs, IsActive(q)', IsActive(r)',
                    runs'[q].session = runs'[r].session, q # r
             PROVE  FALSE
  BY DEF OneActivePerSession
<1>1. /\ \A p \in Runs : p \notin New(batch) => runs'[p] = runs[p]
      /\ \A p \in New(batch) : runs'[p].session = SessionOf(p)
  BY InsertedRows
<1>2. \A p \in Runs : p \notin New(batch) => (IsActive(p)' <=> IsActive(p))
  BY <1>1 DEF IsActive, Exists
<1>3. \A p \in New(batch) :
         /\ \A o \in Runs \ {p} : IsActive(o) => runs[o].session # SessionOf(p)
         /\ \A o \in New(batch) \ {p} : SessionOf(o) # SessionOf(p)
  BY DEF Admissible, Admit, ActiveStatus
<1>4. CASE q \in New(batch) \/ r \in New(batch)
  BY <1>1, <1>2, <1>3, <1>4
<1>5. CASE q \notin New(batch) /\ r \notin New(batch)
  BY <1>1, <1>2, <1>5 DEF OneActivePerSession
<1> QED BY <1>4, <1>5

LEMMA RequestedBatch ==
    ASSUME NEW batch \in SUBSET Requested
    PROVE  Batch(batch)
BY DispatchAssumption DEF Batch, SessionOf, Requested

LEMMA OccurrenceBatch ==
    ASSUME ClockBounded, TypeOK, NEW s \in Schedules, NEW fire \in Fires, Due(s, fire)
    PROVE  /\ <<s, fire>> \in Runs \cap Occurrences
           /\ Batch({<<s, fire>>})
           /\ fire + Every \in Fires
<1>1. fire \in Nat /\ fire <= MaxTime /\ MaxTime \in Nat /\ Every \in Nat \ {0}
  BY DispatchAssumption, RunStoreAssumption DEF ClockBounded, Due, Fires, TypeOK
<1>2. <<s, fire>> \in Occurrences /\ <<s, fire>>[2] = fire /\ <<s, fire>>[1] = s
  BY DEF Occurrences
<1>3. <<s, fire>> \in Runs BY <1>1, <1>2, DispatchAssumption
<1>4. SessionOf(<<s, fire>>) \in Sessions
  BY <1>2, DispatchAssumption DEF SessionOf
<1> QED BY <1>1, <1>2, <1>3, <1>4 DEF Batch, Fires

-----------------------------------------------------------------------------
(* The steps, by what they touch.                                           *)

(* An operation of the store alone.                                         *)
StoreStep(r) ==
    StartRun(r) \/ KeepRun(r) \/ EndRun(r) \/ (r \in Requested /\ RunHere(r))

LEMMA DispatchCases ==
    ASSUME [DispatchNext]_allVars
    PROVE  \/ \E batch \in SUBSET Requested : EnqueueRuns(batch)
           \/ \E s \in Schedules : CreateSchedule(s) \/ CancelSchedule(s)
           \/ \E s \in Schedules, fire \in Fires : FireIgnored(s, fire) \/ FireBusy(s, fire)
           \/ \E s \in Schedules, fire \in Fires : FireCommits(s, fire)
           \/ \E r \in Runs : StoreStep(r)
           \/ \E r \in Runs : EndJob(r)
           \/ Advance
           \/ UNCHANGED allVars
<1>1. Requested \subseteq Runs BY DEF Requested
<1> QED BY <1>1, Zenon DEF DispatchNext, Fire, StoreStep

(* What the operations of a run's own life do: they are steps of the store, *)
(* leave a row pending only if it was, and insert requested runs only.      *)
LEMMA StoreSteps ==
    ASSUME TypeOK, NEW r \in Runs, StoreStep(r)
    PROVE  /\ [Next]_vars
           /\ UNCHANGED dispatchVars /\ UNCHANGED now
           /\ \A q \in Runs : (Exists(q)' <=> Exists(q)) \/ q \in Requested
           /\ \A q \in Runs : Exists(q) => Exists(q)'
           /\ \A q \in Runs : Exists(q)' /\ runs'[q].status = "pending" =>
                                 Exists(q) /\ runs[q].status = "pending"
<1>c. Unleased \in Callers(r) BY DEF Callers
<1>n. NoRun \notin Row BY DispatchAssumption
<1>t. runs \in [Runs -> Row \cup {NoRun}] BY DEF TypeOK
<1>1. ASSUME NEW row \in Row, runs' = [runs EXCEPT ![r] = row], row.status # "pending",
             Exists(r) \/ r \in Requested
      PROVE  /\ \A q \in Runs : (Exists(q)' <=> Exists(q)) \/ q \in Requested
             /\ \A q \in Runs : Exists(q) => Exists(q)'
             /\ \A q \in Runs : Exists(q)' /\ runs'[q].status = "pending" =>
                                   Exists(q) /\ runs[q].status = "pending"
  <2>1. runs'[r] = row /\ \A q \in Runs \ {r} : runs'[q] = runs[q] BY <1>1, <1>t
  <2> QED BY <1>1, <1>n, <2>1 DEF Exists
<1>2. CASE StartRun(r)
  <2>1. /\ Exists(r) /\ Adopt(r, runs[r].session, Unleased) /\ UNCHANGED dispatchVars
    BY <1>2 DEF StartRun
  <2>2. runs[r] \in Row BY <1>t, <2>1 DEF Exists
  <2>3. runs[r].session \in Sessions BY <2>2 DEF Row
  <2>4. [Next]_vars BY <1>c, <2>1, <2>3 DEF Next, Write
  <2> DEFINE row == [runs[r] EXCEPT !.status = "running", !.checkpoint = 0]
  <2>5. row \in Row /\ row.status = "running"
    BY <2>2 DEF Row, Status, ActiveStatus
  <2>6. runs' = [runs EXCEPT ![r] = row] /\ UNCHANGED now
    BY <2>1, <1>t DEF Adopt, Unleased
  <2> HIDE DEF row
  <2> QED BY <1>1, <2>1, <2>4, <2>5, <2>6
<1>3. ASSUME NEW status \in {"running", "completed"}, Exists(r),
             SaveCheckpoint(r, Unleased, status, 0), UNCHANGED dispatchVars
      PROVE  /\ [Next]_vars
             /\ UNCHANGED dispatchVars /\ UNCHANGED now
             /\ \A q \in Runs : (Exists(q)' <=> Exists(q)) \/ q \in Requested
             /\ \A q \in Runs : Exists(q) => Exists(q)'
             /\ \A q \in Runs : Exists(q)' /\ runs'[q].status = "pending" =>
                                   Exists(q) /\ runs[q].status = "pending"
  <2>1. status \in Status \ {"pending"} /\ 0 \in WriteSizes
    BY DEF Status, ActiveStatus, TerminalStatus, WriteSizes
  <2>2. [Next]_vars BY <1>c, <1>3, <2>1 DEF Next, Write
  <2>3. runs[r] \in Row BY <1>t, <1>3 DEF Exists
  <2> DEFINE row == [runs[r] EXCEPT !.checkpoint = 0, !.status = status]
  <2>4. row \in Row /\ row.status # "pending"
    BY <2>1, <2>3 DEF Row
  <2>5. runs' = [runs EXCEPT ![r] = row] /\ UNCHANGED now
    BY <1>3, <1>t DEF SaveCheckpoint, Unleased
  <2> HIDE DEF row
  <2> QED BY <1>1, <1>3, <2>2, <2>4, <2>5
<1>4. CASE KeepRun(r) BY <1>3, <1>4 DEF KeepRun
<1>5. CASE EndRun(r) BY <1>3, <1>5 DEF EndRun, MarkCompleted
<1>6. CASE r \in Requested /\ RunHere(r)
  <2>1. SessionOf(r) \in Sessions
    BY <1>6, DispatchAssumption DEF SessionOf, Requested
  <2>2. [Next]_vars BY <1>6, <2>1 DEF RunHere, Next
  <2> DEFINE row == [session |-> SessionOf(r), status |-> "running", checkpoint |-> 0]
  <2>3. row \in Row /\ row.status # "pending" BY <2>1 DEF Row, Status, ActiveStatus
  <2>4. runs' = [runs EXCEPT ![r] = row] /\ UNCHANGED now /\ UNCHANGED dispatchVars
    BY <1>6 DEF RunHere, CreateRunning
  <2> HIDE DEF row
  <2> QED BY <1>1, <1>6, <2>2, <2>3, <2>4
<1> QED BY <1>2, <1>4, <1>5, <1>6 DEF StoreStep

(* The states of a job.                                                     *)
LEMMA JobOps ==
    ASSUME NEW job \in Job
    PROVE  /\ Enqueued(job) \in Job /\ Enqueued(job).state # "none"
           /\ Failed(job) \in Job /\ (job.state # "none" => Failed(job).state # "none")
           /\ Answered(job) \subseteq Job /\ NoJob \in Job /\ Fresh \in Job
<1> USE DispatchAssumption DEF Job, NoJob, Fresh
<1>0. NoJob \in Job /\ Fresh \in Job OBVIOUS
<1>1. Enqueued(job) \in Job /\ Enqueued(job).state # "none" BY DEF Enqueued
<1>2. Failed(job) \in Job /\ (job.state # "none" => Failed(job).state # "none")
  <2>1. CASE job.attempts + 1 < MaxAttempts
    <3>1. job.attempts + 1 \in 0..MaxAttempts BY <2>1
    <3> QED BY <2>1, <3>1 DEF Failed
  <2>2. CASE ~(job.attempts + 1 < MaxAttempts) BY <2>2 DEF Failed
  <2> QED BY <2>1, <2>2
<1> QED BY <1>0, <1>1, <1>2 DEF Answered

(* A row that has a next fire is not the absent one.                        *)
LEMMA RowPresent ==
    ASSUME NEW row \in ScheduleRow
    PROVE  row # NoSchedule
<1>1. "next" \in DOMAIN row BY DEF ScheduleRow
<1>2. DOMAIN NoSchedule = {"enabled"} BY DEF NoSchedule
<1> QED BY <1>1, <1>2

(* What a committed fire does to the two jobs it touches.                   *)
LEMMA FireJobs ==
    ASSUME fireJob \in [Schedules -> [Fires -> Job]], NEW s \in Schedules, NEW fire \in Fires,
           FireCommits(s, fire), fire + Every \in Fires
    PROVE  /\ fireJob' \in [Schedules -> [Fires -> Job]]
           /\ fireJob'[s][fire + Every].state # "none"
           /\ \A q \in Schedules \ {s} : fireJob'[q] = fireJob[q]
<1>e. fire \in Nat /\ fire + Every # fire BY DispatchAssumption, RunStoreAssumption DEF Fires
<1>1. PICK job \in Answered(fireJob[s][fire]) :
         fireJob' = [fireJob EXCEPT ![s][fire] = job,
                                    ![s][fire + Every] = Defer(s, fire + Every)]
  BY DEF FireCommits
<1>2. job \in Job BY JobOps
<1>3. Defer(s, fire + Every) \in Job /\ Defer(s, fire + Every).state # "none"
  BY JobOps DEF Defer
<1> QED BY <1>e, <1>1, <1>2, <1>3

-----------------------------------------------------------------------------
(* The inductive step, invariant by invariant.                              *)

LEMMA DispatchTypes ==
    DispatchTypeOK <=>
        /\ TypeOK
        /\ schedule \in [Schedules -> {NoSchedule} \cup ScheduleRow]
        /\ first \in [Schedules -> Fires \cup {0}]
        /\ fireJob \in [Schedules -> [Fires -> Job]] /\ runJob \in [Runs -> Job]
BY DEF DispatchTypeOK, ScheduleRow, Job

LEMMA DispatchTypeStep ==
    ASSUME DispatchTypeOK, ClockBounded, [DispatchNext]_allVars
    PROVE  DispatchTypeOK'
<1>t. /\ TypeOK
      /\ schedule \in [Schedules -> {NoSchedule} \cup ScheduleRow]
      /\ first \in [Schedules -> Fires \cup {0}]
      /\ fireJob \in [Schedules -> [Fires -> Job]] /\ runJob \in [Runs -> Job]
  BY DispatchTypes
<1>j. NoJob \in Job BY DispatchAssumption DEF Job, NoJob
<1> SUFFICES /\ TypeOK'
             /\ schedule' \in [Schedules -> {NoSchedule} \cup ScheduleRow]
             /\ first' \in [Schedules -> Fires \cup {0}]
             /\ fireJob' \in [Schedules -> [Fires -> Job]] /\ runJob' \in [Runs -> Job]
  BY DEF DispatchTypeOK, ScheduleRow, Job
<1>0. ASSUME NEW batch, Batch(batch), runs' = Inserted(batch),
             UNCHANGED <<log, lease, now, tokens, givenUp>>, runJob' = Jobs(batch)
      PROVE  TypeOK' /\ runJob' \in [Runs -> Job]
  <2>1. runs' \in [Runs -> Row \cup {NoRun}] BY <1>0, <1>t, InsertedRows
  <2>2. TypeOK' BY <1>0, <1>t, <2>1 DEF TypeOK
  <2>3. \A r \in Runs : Enqueued(runJob[r]) \in Job BY <1>t, JobOps
  <2>4. runJob' \in [Runs -> Job] BY <1>0, <1>t, <2>3 DEF Jobs
  <2> QED BY <2>2, <2>4
<1>1. ASSUME NEW batch \in SUBSET Requested, EnqueueRuns(batch)
      PROVE  DispatchTypeOK'
  <2>1. TypeOK' /\ runJob' \in [Runs -> Job]
    BY <1>0, <1>1, RequestedBatch DEF EnqueueRuns
  <2> QED BY <1>1, <1>t, <2>1, DispatchTypes DEF EnqueueRuns, DispatchTypeOK, ScheduleRow, Job
<1>2. ASSUME NEW s \in Schedules, CreateSchedule(s)
      PROVE  DispatchTypeOK'
  <2>1. Defer(s, now + Every) \in Job BY <1>2, <1>t, JobOps DEF Defer, CreateSchedule
  <2>2. [enabled |-> TRUE, next |-> now + Every] \in ScheduleRow
    BY <1>2 DEF CreateSchedule, ScheduleRow
  <2>3. UNCHANGED <<vars, runJob>> BY <1>2 DEF CreateSchedule
  <2>4. TypeOK' BY <1>t, <2>3 DEF vars, TypeOK
  <2>5. fireJob' \in [Schedules -> [Fires -> Job]]
    BY <1>2, <1>t, <2>1 DEF CreateSchedule
  <2>6. /\ schedule' \in [Schedules -> {NoSchedule} \cup ScheduleRow]
        /\ first' \in [Schedules -> Fires \cup {0}]
    BY <1>2, <1>t, <2>2 DEF CreateSchedule
  <2> QED BY <1>t, <2>3, <2>4, <2>5, <2>6 DEF DispatchTypeOK, ScheduleRow, Job
<1>3. ASSUME NEW s \in Schedules, CancelSchedule(s)
      PROVE  DispatchTypeOK'
  <2>1. schedule[s] \in ScheduleRow
    BY <1>3, <1>t DEF CancelSchedule, Enabled, NoSchedule
  <2>2. [schedule[s] EXCEPT !.enabled = FALSE] \in ScheduleRow BY <2>1 DEF ScheduleRow
  <2>3. schedule' \in [Schedules -> {NoSchedule} \cup ScheduleRow]
    BY <1>3, <1>t, <2>2 DEF CancelSchedule
  <2>4. UNCHANGED <<vars, first, fireJob, runJob>> BY <1>3 DEF CancelSchedule
  <2>5. TypeOK' BY <1>t, <2>4 DEF vars, TypeOK
  <2> QED BY <1>t, <2>3, <2>4, <2>5 DEF DispatchTypeOK, ScheduleRow, Job
<1>4. ASSUME NEW s \in Schedules, NEW fire \in Fires, FireIgnored(s, fire) \/ FireBusy(s, fire)
      PROVE  DispatchTypeOK'
  <2>1. Failed(fireJob[s][fire]) \in Job BY <1>t, JobOps
  <2>2. fireJob' \in [Schedules -> [Fires -> Job]]
    BY <1>4, <1>t, <1>j, <2>1 DEF FireIgnored, FireBusy
  <2>3. UNCHANGED <<vars, schedule, first, runJob>> BY <1>4 DEF FireIgnored, FireBusy
  <2>4. TypeOK' BY <1>t, <2>3 DEF vars, TypeOK
  <2> QED BY <1>t, <2>2, <2>3, <2>4 DEF DispatchTypeOK, ScheduleRow, Job
<1>5. ASSUME NEW s \in Schedules, NEW fire \in Fires, FireCommits(s, fire)
      PROVE  DispatchTypeOK'
  <2>1. Batch({<<s, fire>>}) /\ fire + Every \in Fires
    BY <1>5, <1>t, OccurrenceBatch DEF FireCommits
  <2>2. TypeOK' /\ runJob' \in [Runs -> Job]
    BY <1>0, <1>5, <2>1 DEF FireCommits
  <2>3. fireJob' \in [Schedules -> [Fires -> Job]]
    BY <1>5, <1>t, <2>1, FireJobs
  <2>4. schedule[s] \in ScheduleRow
    BY <1>5, <1>t DEF FireCommits, Expects, Enabled, NoSchedule
  <2>5. [schedule[s] EXCEPT !.next = fire + Every] \in ScheduleRow
    BY <2>1, <2>4 DEF ScheduleRow
  <2>6. schedule' \in [Schedules -> {NoSchedule} \cup ScheduleRow] /\ UNCHANGED first
    BY <1>5, <1>t, <2>5 DEF FireCommits
  <2> QED BY <1>t, <2>2, <2>3, <2>6 DEF DispatchTypeOK, ScheduleRow, Job
<1>6. ASSUME NEW r \in Runs, StoreStep(r)
      PROVE  DispatchTypeOK'
  <2>1. TypeOK' /\ UNCHANGED dispatchVars BY <1>6, <1>t, StoreSteps, TypeStep
  <2> QED BY <1>t, <2>1 DEF dispatchVars, DispatchTypeOK, ScheduleRow, Job
<1>7. ASSUME NEW r \in Runs, EndJob(r)
      PROVE  DispatchTypeOK'
  <2>1. Failed(runJob[r]) \in Job /\ Answered(runJob[r]) \subseteq Job BY <1>t, JobOps
  <2>2. runJob' \in [Runs -> Job] BY <1>7, <1>t, <2>1 DEF EndJob
  <2>3. UNCHANGED <<vars, schedule, first, fireJob>> BY <1>7 DEF EndJob
  <2>4. TypeOK' BY <1>t, <2>3 DEF vars, TypeOK
  <2> QED BY <1>t, <2>2, <2>3, <2>4 DEF DispatchTypeOK, ScheduleRow, Job
<1>8. CASE Advance
  <2>1. TypeOK' /\ UNCHANGED dispatchVars BY <1>8, <1>t DEF Advance, Tick, TypeOK
  <2> QED BY <1>t, <2>1 DEF dispatchVars, DispatchTypeOK, ScheduleRow, Job
<1>9. CASE UNCHANGED allVars
  <2>1. TypeOK' /\ UNCHANGED dispatchVars BY <1>9, <1>t DEF allVars, vars, TypeOK
  <2> QED BY <1>t, <2>1 DEF dispatchVars, DispatchTypeOK, ScheduleRow, Job
<1> QED
  BY <1>1, <1>2, <1>3, <1>4, <1>5, <1>6, <1>7, <1>8, <1>9, DispatchCases, DispatchTypes
     DEF DispatchTypeOK, ScheduleRow, Job

(* The clock moves in a tick only, and not past its bound.                  *)
LEMMA ClockStep ==
    ASSUME DispatchTypeOK, ClockBounded, [DispatchNext]_allVars
    PROVE  ClockBounded'
<1>1. CASE Advance
  BY <1>1, RunStoreAssumption DEF Advance, Tick, ClockBounded, DispatchTypeOK, TypeOK
<1>2. ASSUME NEW r \in Runs, StoreStep(r)
      PROVE  ClockBounded'
  BY <1>2, StoreSteps DEF ClockBounded, DispatchTypeOK
<1>3. CASE ~Advance /\ ~(\E r \in Runs : StoreStep(r))
  <2>1. now' = now
    BY <1>3, DispatchCases
       DEF EnqueueRuns, CreateSchedule, CancelSchedule, FireIgnored, FireBusy, FireCommits,
           EndJob, allVars, vars
  <2> QED BY <2>1 DEF ClockBounded
<1> QED BY <1>1, <1>2, <1>3

(* Admission: the store's own steps by its lemma, the batches by theirs.    *)
LEMMA DispatchAdmissionStep ==
    ASSUME DispatchTypeOK, ClockBounded, OneActivePerSession, [DispatchNext]_allVars
    PROVE  OneActivePerSession'
<1>t. TypeOK BY DEF DispatchTypeOK
<1>1. ASSUME NEW batch \in SUBSET Requested, EnqueueRuns(batch)
      PROVE  OneActivePerSession'
  BY <1>1, <1>t, RequestedBatch, BatchAdmitted DEF EnqueueRuns
<1>2. ASSUME NEW s \in Schedules, NEW fire \in Fires, FireCommits(s, fire)
      PROVE  OneActivePerSession'
  <2>1. Batch({<<s, fire>>}) BY <1>2, <1>t, OccurrenceBatch DEF FireCommits
  <2> QED BY <1>2, <1>t, <2>1, BatchAdmitted DEF FireCommits
<1>3. ASSUME NEW r \in Runs, StoreStep(r)
      PROVE  OneActivePerSession'
  BY <1>3, <1>t, StoreSteps, AdmissionStep
<1>4. CASE runs' = runs
  BY <1>4 DEF OneActivePerSession, IsActive, Exists
<1> QED
  BY <1>1, <1>2, <1>3, <1>4, DispatchCases
     DEF CreateSchedule, CancelSchedule, FireIgnored, FireBusy, EndJob, Advance, Tick,
         allVars, vars

-----------------------------------------------------------------------------
(* The calendar.                                                            *)

CalendarInv == Calendar /\ NothingBefore /\ OccurrencesExact

(* A step that leaves the schedules and the occurrences' runs alone.        *)
LEMMA CalendarKept ==
    ASSUME CalendarInv, UNCHANGED <<schedule, first>>,
           \A o \in Runs \cap Occurrences : Exists(o)' <=> Exists(o)
    PROVE  CalendarInv'
BY DEF CalendarInv, Calendar, NothingBefore, OccurrencesExact

LEMMA CalendarStep ==
    ASSUME DispatchTypeOK, ClockBounded, CalendarInv, [DispatchNext]_allVars
    PROVE  CalendarInv'
<1>t. /\ TypeOK
      /\ schedule \in [Schedules -> {NoSchedule} \cup ScheduleRow]
      /\ first \in [Schedules -> Fires \cup {0}]
  BY DispatchTypes
<1>e. Every \in Nat \ {0} /\ Fires \subseteq Nat
  BY DispatchAssumption, RunStoreAssumption DEF Fires
<1>r. Requested \cap Occurrences = {} BY DEF Requested
<1>1. ASSUME NEW batch \in SUBSET Requested, EnqueueRuns(batch)
      PROVE  CalendarInv'
  <2>1. \A r \in Runs : Exists(r)' <=> Exists(r) \/ r \in batch
    BY <1>1, <1>t, RequestedBatch, InsertedRows DEF EnqueueRuns
  <2> QED BY <1>1, <1>r, <2>1, CalendarKept DEF EnqueueRuns
<1>2. ASSUME NEW s \in Schedules, CreateSchedule(s)
      PROVE  CalendarInv'
  <2> DEFINE fire == now + Every
  <2>1. /\ schedule[s] = NoSchedule /\ fire \in Fires
        /\ schedule' = [schedule EXCEPT ![s] = [enabled |-> TRUE, next |-> fire]]
        /\ first' = [first EXCEPT ![s] = fire]
        /\ runs' = runs
    BY <1>2 DEF CreateSchedule, vars
  <2> HIDE DEF fire
  <2>2. /\ schedule'[s].next = fire /\ first'[s] = fire
        /\ \A q \in Schedules \ {s} : schedule'[q] = schedule[q] /\ first'[q] = first[q]
    BY <1>t, <2>1
  <2>3. \A o \in Runs \cap Occurrences : Exists(o)' <=> Exists(o) BY <2>1 DEF Exists
  <2>4. schedule'[s] # NoSchedule
    <3>1. [enabled |-> TRUE, next |-> fire] \in ScheduleRow BY <2>1 DEF ScheduleRow
    <3> QED BY <1>t, <2>1, <3>1, RowPresent
  <2>5. Calendar'
    <3>1. (fire - fire) % Every = 0
      <4>1. 0 = Every * 0 + 0 /\ 0 \in 0..(Every - 1) BY <1>e
      <4>2. 0 % Every = 0 BY <1>e, <4>1, Remainder
      <4>3. fire - fire = 0 BY <1>e, <2>1
      <4> QED BY <4>2, <4>3
    <3> QED BY <1>e, <2>1, <2>2, <3>1 DEF CalendarInv, Calendar
  <2>6. NothingBefore' BY <2>2, <2>3, <2>4 DEF CalendarInv, NothingBefore
  <2>7. OccurrencesExact'
    <3> SUFFICES ASSUME NEW q \in Schedules, schedule'[q] # NoSchedule,
                        NEW o \in Runs \cap Occurrences, o[1] = q
                 PROVE  Exists(o)' <=>
                           /\ o[2] \in first'[q]..(schedule'[q].next - 1)
                           /\ (o[2] - first'[q]) % Every = 0
      BY DEF OccurrencesExact
    <3>1. CASE q = s
      <4>1. ~ Exists(o) BY <2>1, <3>1 DEF CalendarInv, NothingBefore
      <4>2. o[2] \notin first'[q]..(schedule'[q].next - 1) BY <1>e, <2>1, <2>2, <3>1
      <4> QED BY <2>3, <4>1, <4>2
    <3>2. CASE q # s
      BY <2>2, <2>3, <3>2 DEF CalendarInv, OccurrencesExact
    <3> QED BY <3>1, <3>2
  <2> QED BY <2>5, <2>6, <2>7 DEF CalendarInv
<1>3. ASSUME NEW s \in Schedules, CancelSchedule(s)
      PROVE  CalendarInv'
  <2>1. schedule[s] \in ScheduleRow
    BY <1>3, <1>t DEF CancelSchedule, Enabled, NoSchedule
  <2> DEFINE row == [schedule[s] EXCEPT !.enabled = FALSE]
  <2>2. row \in ScheduleRow /\ row.next = schedule[s].next BY <2>1 DEF ScheduleRow
  <2>3. schedule' = [schedule EXCEPT ![s] = row] /\ UNCHANGED <<runs, first>>
    BY <1>3, <1>t DEF CancelSchedule, vars
  <2> HIDE DEF row
  <2>4. /\ schedule'[s].next = schedule[s].next
        /\ schedule[s] # NoSchedule /\ schedule'[s] # NoSchedule
        /\ \A q \in Schedules \ {s} : schedule'[q] = schedule[q]
    BY <1>t, <2>1, <2>2, <2>3, RowPresent
  <2>5. \A o \in Runs : Exists(o)' <=> Exists(o) BY <2>3 DEF Exists
  <2>6. \A q \in Schedules :
           /\ schedule'[q] = NoSchedule <=> schedule[q] = NoSchedule
           /\ schedule[q] # NoSchedule => schedule'[q].next = schedule[q].next
    BY <2>4
  <2> QED BY <2>3, <2>5, <2>6 DEF CalendarInv, Calendar, NothingBefore, OccurrencesExact
<1>4. ASSUME NEW s \in Schedules, NEW fire \in Fires, FireCommits(s, fire)
      PROVE  CalendarInv'
  <2>1. /\ <<s, fire>> \in Runs \cap Occurrences
        /\ Batch({<<s, fire>>})
        /\ fire + Every \in Fires
    BY <1>4, <1>t, OccurrenceBatch DEF FireCommits
  <2>2. schedule[s] \in ScheduleRow /\ schedule[s].next = fire
    BY <1>4, <1>t DEF FireCommits, Expects, Enabled, NoSchedule
  <2> DEFINE row == [schedule[s] EXCEPT !.next = fire + Every]
  <2>3. row \in ScheduleRow /\ row.next = fire + Every BY <2>1, <2>2 DEF ScheduleRow
  <2>4. schedule' = [schedule EXCEPT ![s] = row] /\ UNCHANGED first
    BY <1>4, <1>t DEF FireCommits
  <2> HIDE DEF row
  <2>5. /\ schedule'[s].next = fire + Every
        /\ schedule[s] # NoSchedule /\ schedule'[s] # NoSchedule
        /\ \A q \in Schedules \ {s} : schedule'[q] = schedule[q]
    BY <1>t, <2>2, <2>3, <2>4, RowPresent
  <2>6. \A o \in Runs : Exists(o)' <=> Exists(o) \/ o = <<s, fire>>
    <3>1. \A r \in Runs : Exists(r)' <=> Exists(r) \/ r \in {<<s, fire>>}
      BY <1>4, <1>t, <2>1, InsertedRows DEF FireCommits
    <3> QED BY <3>1
  <2> DEFINE f == first[s]
  <2>7. /\ f \in Nat /\ f <= fire /\ fire \in Nat /\ fire - f \in Nat
        /\ f \in Fires
        /\ (fire - f) % Every = 0
    <3>1. f \in Fires /\ f <= fire /\ (fire - f) % Every = 0
      BY <2>2, <2>5 DEF CalendarInv, Calendar
    <3> HIDE DEF f
    <3>2. f \in Nat /\ fire \in Nat BY <1>e, <3>1
    <3> QED BY <3>1, <3>2
  <2>8. /\ (fire - f + Every) % Every = 0
        /\ \A k \in 1..(Every - 1) : (fire - f + k) % Every # 0
    BY <1>e, <2>7, NextMultiple
  <2> HIDE DEF f
  <2>9. Calendar'
    <3> SUFFICES ASSUME NEW q \in Schedules, schedule'[q] # NoSchedule
                 PROVE  /\ first'[q] \in Fires /\ first'[q] <= schedule'[q].next
                        /\ (schedule'[q].next - first'[q]) % Every = 0
      BY DEF Calendar
    <3>1. CASE q = s
      <4>1. (fire + Every) - f = fire - f + Every /\ f <= fire + Every BY <1>e, <2>7
      <4>2. ((fire + Every) - f) % Every = 0 BY <2>8, <4>1
      <4>3. first'[q] = f /\ schedule'[q].next = fire + Every
        BY <2>4, <2>5, <3>1 DEF f
      <4>4. (schedule'[q].next - first'[q]) % Every = 0
        BY <4>2, <4>3, SameDistance
      <4> QED BY <2>7, <4>1, <4>3, <4>4, Zenon
    <3>2. CASE q # s BY <2>4, <2>5, <3>2 DEF CalendarInv, Calendar
    <3> QED BY <3>1, <3>2
  <2>10. NothingBefore'
    <3> SUFFICES ASSUME NEW q \in Schedules, schedule'[q] = NoSchedule,
                        NEW o \in Runs \cap Occurrences, o[1] = q
                 PROVE  ~ Exists(o)'
      BY DEF NothingBefore
    <3>1. q # s BY <2>5
    <3>2. ~ Exists(o) BY <2>5, <3>1 DEF CalendarInv, NothingBefore
    <3>3. o # <<s, fire>> BY <3>1
    <3> QED BY <2>6, <3>2, <3>3
  <2>11. OccurrencesExact'
    <3> SUFFICES ASSUME NEW q \in Schedules, schedule'[q] # NoSchedule,
                        NEW o \in Runs \cap Occurrences, o[1] = q
                 PROVE  Exists(o)' <=>
                           /\ o[2] \in first'[q]..(schedule'[q].next - 1)
                           /\ (o[2] - first'[q]) % Every = 0
      BY DEF OccurrencesExact
    <3>1. CASE q # s
      <4>1. o # <<s, fire>> BY <3>1
      <4> QED BY <2>4, <2>5, <2>6, <3>1, <4>1 DEF CalendarInv, OccurrencesExact
    <3>2. CASE q = s
      <4> DEFINE n == o[2]
      <4>1. n \in Fires /\ n \in Nat /\ o = <<s, n>>
        <5>1. o \in Schedules \X Fires /\ o[1] = s BY <3>2 DEF Occurrences
        <5>2. o[2] \in Fires /\ o = <<o[1], o[2]>> BY <5>1
        <5> QED BY <1>e, <5>1, <5>2
      <4>2. Exists(o) <=> n \in f..(fire - 1) /\ (n - f) % Every = 0
        BY <2>2, <2>5, <3>2 DEF CalendarInv, OccurrencesExact, f
      <4>3. (o = <<s, fire>>) <=> (n = fire) BY <4>1
      <4>4. first'[q] = f /\ schedule'[q].next = fire + Every
        BY <2>4, <2>5, <3>2 DEF f
      <4> HIDE DEF n
      <4>5. CASE n < fire
        BY <1>e, <2>6, <2>7, <4>1, <4>2, <4>3, <4>4, <4>5 DEF n
      <4>6. CASE n = fire
        BY <1>e, <2>6, <2>7, <4>1, <4>2, <4>3, <4>4, <4>6 DEF n
      <4>7. CASE n > fire
        <5>1. ~ Exists(o)' BY <2>6, <2>7, <4>1, <4>2, <4>3, <4>7
        <5>2. ASSUME n \in f..((fire + Every) - 1)
              PROVE  (n - f) % Every # 0
          <6> DEFINE k == n - fire
          <6>1. k \in 1..(Every - 1) BY <1>e, <2>7, <4>1, <4>7, <5>2
          <6>2. fire - f + k = n - f BY <2>7, <4>1
          <6> HIDE DEF k
          <6> QED BY <2>8, <6>1, <6>2
        <5>3. ~ (n \in f..((fire + Every) - 1) /\ (n - f) % Every = 0) BY <5>2
        <5>4. ~ (/\ o[2] \in first'[q]..(schedule'[q].next - 1)
                 /\ (o[2] - first'[q]) % Every = 0)
          <6>1. n = o[2] BY DEF n
          <6>2. (o[2] - first'[q]) % Every = (n - f) % Every
            BY <4>4, <6>1, SameDistance
          <6>3. schedule'[q].next - 1 = (fire + Every) - 1 BY <4>4, Zenon
          <6> QED BY <4>4, <5>3, <6>1, <6>2, <6>3, Zenon
        <5> QED BY <5>1, <5>4
      <4> QED BY <2>7, <4>1, <4>5, <4>6, <4>7
    <3> QED BY <3>1, <3>2
  <2> QED BY <2>9, <2>10, <2>11 DEF CalendarInv
<1>5. ASSUME NEW r \in Runs, StoreStep(r)
      PROVE  CalendarInv'
  <2>1. /\ UNCHANGED <<schedule, first>>
        /\ \A q \in Runs : (Exists(q)' <=> Exists(q)) \/ q \in Requested
    BY <1>5, <1>t, StoreSteps DEF dispatchVars
  <2> QED BY <1>r, <2>1, CalendarKept
<1>6. CASE UNCHANGED <<runs, schedule, first>>
  BY <1>6, CalendarKept DEF Exists
<1> QED
  BY <1>1, <1>2, <1>3, <1>4, <1>5, <1>6, DispatchCases
     DEF FireIgnored, FireBusy, EndJob, Advance, Tick, dispatchVars, allVars, vars

-----------------------------------------------------------------------------
(* Nothing is stranded.                                                     *)

(* The three parts of NothingStranded.                                      *)
NextFireHasJob ==
    \A s \in Schedules : Enabled(s) => fireJob[s][schedule[s].next].state # "none"
PendingHasJob ==
    \A r \in Runs : Exists(r) /\ runs[r].status = "pending" => runJob[r].state # "none"
JobHasRun == \A r \in Runs : runJob[r].state # "none" => Exists(r)

(* A batch inserts its pending rows with their jobs.                        *)
LEMMA BatchJobs ==
    ASSUME TypeOK, runJob \in [Runs -> Job], NEW batch, Batch(batch),
           runs' = Inserted(batch), runJob' = Jobs(batch), PendingHasJob, JobHasRun
    PROVE  PendingHasJob' /\ JobHasRun'
<1>1. /\ \A r \in Runs : Exists(r)' <=> Exists(r) \/ r \in batch
      /\ \A r \in Runs : r \notin New(batch) => runs'[r] = runs[r]
  BY InsertedRows
<1>2. \A r \in Runs : runJob'[r] = IF r \in New(batch) THEN Enqueued(runJob[r]) ELSE runJob[r]
  BY DEF Jobs
<1>3. \A r \in Runs : Enqueued(runJob[r]).state # "none" BY JobOps
<1>4. New(batch) \subseteq batch BY DEF New
<1>5. PendingHasJob'
  BY <1>1, <1>2, <1>3 DEF PendingHasJob, Exists
<1>6. JobHasRun'
  BY <1>1, <1>2, <1>4 DEF JobHasRun
<1> QED BY <1>5, <1>6

LEMMA StrandedStep ==
    ASSUME DispatchTypeOK, ClockBounded, NothingStranded, [DispatchNext]_allVars
    PROVE  NothingStranded'
<1>t. /\ TypeOK
      /\ schedule \in [Schedules -> {NoSchedule} \cup ScheduleRow]
      /\ fireJob \in [Schedules -> [Fires -> Job]] /\ runJob \in [Runs -> Job]
  BY DispatchTypes
<1>i. NextFireHasJob /\ PendingHasJob /\ JobHasRun
  BY DEF NothingStranded, NextFireHasJob, PendingHasJob, JobHasRun
<1> SUFFICES NextFireHasJob' /\ PendingHasJob' /\ JobHasRun'
  BY DEF NothingStranded, NextFireHasJob, PendingHasJob, JobHasRun
<1>e. ~ NoSchedule.enabled BY DEF NoSchedule
<1>a. ASSUME UNCHANGED <<schedule, fireJob>>
      PROVE  NextFireHasJob'
  BY <1>a, <1>i DEF NextFireHasJob, Enabled
<1>b. ASSUME UNCHANGED <<runs, runJob>>
      PROVE  PendingHasJob' /\ JobHasRun'
  BY <1>b, <1>i DEF PendingHasJob, JobHasRun, Exists
<1>1. ASSUME NEW batch \in SUBSET Requested, EnqueueRuns(batch)
      PROVE  NextFireHasJob' /\ PendingHasJob' /\ JobHasRun'
  BY <1>1, <1>a, <1>t, <1>i, RequestedBatch, BatchJobs DEF EnqueueRuns
<1>2. ASSUME NEW s \in Schedules, CreateSchedule(s)
      PROVE  NextFireHasJob' /\ PendingHasJob' /\ JobHasRun'
  <2> DEFINE fire == now + Every
  <2> DEFINE job == Defer(s, fire)
  <2>1. /\ fire \in Fires
        /\ schedule' = [schedule EXCEPT ![s] = [enabled |-> TRUE, next |-> fire]]
        /\ fireJob' = [fireJob EXCEPT ![s][fire] = job]
        /\ UNCHANGED <<runs, runJob>>
    BY <1>2 DEF CreateSchedule, vars
  <2>2. job.state # "none" BY <1>t, <2>1, JobOps DEF Defer
  <2> HIDE DEF fire, job
  <2>3. /\ schedule'[s].next = fire /\ fireJob'[s][fire] = job
        /\ \A q \in Schedules \ {s} : schedule'[q] = schedule[q] /\ fireJob'[q] = fireJob[q]
    BY <1>t, <2>1
  <2>4. NextFireHasJob' BY <1>i, <2>2, <2>3 DEF NextFireHasJob, Enabled
  <2> QED BY <1>b, <2>1, <2>4
<1>3. ASSUME NEW s \in Schedules, CancelSchedule(s)
      PROVE  NextFireHasJob' /\ PendingHasJob' /\ JobHasRun'
  <2>1. schedule[s] \in ScheduleRow
    BY <1>3, <1>t, <1>e DEF CancelSchedule, Enabled
  <2> DEFINE row == [schedule[s] EXCEPT !.enabled = FALSE]
  <2>2. row.enabled = FALSE BY <2>1 DEF ScheduleRow
  <2>3. /\ schedule' = [schedule EXCEPT ![s] = row]
        /\ UNCHANGED <<runs, runJob, fireJob>>
    BY <1>3, <1>t DEF CancelSchedule, vars
  <2> HIDE DEF row
  <2>4. schedule'[s] = row /\ \A q \in Schedules \ {s} : schedule'[q] = schedule[q]
    BY <1>t, <2>3
  <2>5. NextFireHasJob' BY <1>i, <2>2, <2>3, <2>4 DEF NextFireHasJob, Enabled
  <2> QED BY <1>b, <2>3, <2>5
<1>4. ASSUME NEW s \in Schedules, NEW fire \in Fires, NEW job \in Job,
             fireJob' = [fireJob EXCEPT ![s][fire] = job],
             Expects(s, fire) => job.state # "none",
             UNCHANGED <<vars, schedule, first, runJob>>
      PROVE  NextFireHasJob' /\ PendingHasJob' /\ JobHasRun'
  <2>1. UNCHANGED <<schedule, runs, runJob>> BY <1>4 DEF vars
  <2>2. /\ fireJob'[s][fire] = job
        /\ \A f \in Fires \ {fire} : fireJob'[s][f] = fireJob[s][f]
        /\ \A q \in Schedules \ {s} : fireJob'[q] = fireJob[q]
    BY <1>4, <1>t
  <2>3. \A q \in Schedules : Enabled(q) => schedule[q].next \in Fires
    BY <1>t, <1>e DEF Enabled, ScheduleRow
  <2>4. NextFireHasJob'
    BY <1>4, <1>i, <2>1, <2>2, <2>3 DEF NextFireHasJob, Enabled, Expects
  <2> QED BY <1>b, <2>1, <2>4
<1>5. ASSUME NEW s \in Schedules, NEW fire \in Fires, FireIgnored(s, fire)
      PROVE  NextFireHasJob' /\ PendingHasJob' /\ JobHasRun'
  <2>1. NoJob \in Job BY <1>5, <1>t, JobOps
  <2> QED BY <1>4, <1>5, <2>1 DEF FireIgnored
<1>6. ASSUME NEW s \in Schedules, NEW fire \in Fires, FireBusy(s, fire)
      PROVE  NextFireHasJob' /\ PendingHasJob' /\ JobHasRun'
  <2> DEFINE job == Failed(fireJob[s][fire])
  <2>1. fireJob[s][fire] \in Job /\ fireJob[s][fire].state = "queued"
    BY <1>6, <1>t DEF FireBusy, Due
  <2>2. job \in Job /\ job.state # "none" BY <2>1, JobOps
  <2>3. /\ fireJob' = [fireJob EXCEPT ![s][fire] = job]
        /\ UNCHANGED <<vars, schedule, first, runJob>>
    BY <1>6, <1>t DEF FireBusy
  <2> HIDE DEF job
  <2> QED BY <1>4, <2>2, <2>3
<1>7. ASSUME NEW s \in Schedules, NEW fire \in Fires, FireCommits(s, fire)
      PROVE  NextFireHasJob' /\ PendingHasJob' /\ JobHasRun'
  <2>1. Batch({<<s, fire>>}) /\ fire + Every \in Fires
    BY <1>7, <1>t, OccurrenceBatch DEF FireCommits
  <2>2. PendingHasJob' /\ JobHasRun' BY <1>7, <1>t, <1>i, <2>1, BatchJobs DEF FireCommits
  <2>3. /\ fireJob'[s][fire + Every].state # "none"
        /\ \A q \in Schedules \ {s} : fireJob'[q] = fireJob[q]
    BY <1>7, <1>t, <2>1, FireJobs
  <2>4. schedule[s] \in ScheduleRow
    BY <1>7, <1>t, <1>e DEF FireCommits, Expects, Enabled
  <2> DEFINE row == [schedule[s] EXCEPT !.next = fire + Every]
  <2>5. row.next = fire + Every BY <2>4 DEF ScheduleRow
  <2>6. schedule' = [schedule EXCEPT ![s] = row] BY <1>7, <1>t DEF FireCommits
  <2> HIDE DEF row
  <2>7. schedule'[s] = row /\ \A q \in Schedules \ {s} : schedule'[q] = schedule[q]
    BY <1>t, <2>6
  <2>8. NextFireHasJob' BY <1>i, <2>3, <2>5, <2>7 DEF NextFireHasJob, Enabled
  <2> QED BY <2>2, <2>8
<1>8. ASSUME NEW r \in Runs, StoreStep(r)
      PROVE  NextFireHasJob' /\ PendingHasJob' /\ JobHasRun'
  <2>1. /\ UNCHANGED <<schedule, fireJob, runJob>>
        /\ \A q \in Runs : Exists(q) => Exists(q)'
        /\ \A q \in Runs : Exists(q)' /\ runs'[q].status = "pending" =>
                              Exists(q) /\ runs[q].status = "pending"
    BY <1>8, <1>t, StoreSteps DEF dispatchVars
  <2>2. PendingHasJob' /\ JobHasRun'
    BY <1>i, <2>1 DEF PendingHasJob, JobHasRun
  <2> QED BY <1>a, <2>1, <2>2
<1>9. ASSUME NEW r \in Runs, EndJob(r)
      PROVE  NextFireHasJob' /\ PendingHasJob' /\ JobHasRun'
  <2>1. UNCHANGED <<schedule, fireJob, runs>> BY <1>9 DEF EndJob, vars
  <2>2. /\ runJob[r] \in Job /\ runJob[r].state # "none" BY <1>9, <1>t DEF EndJob
  <2>3. PICK job \in Job : /\ runJob' = [runJob EXCEPT ![r] = job]
                           /\ IsActive(r) => job.state # "none"
    <3>1. CASE IsActive(r)
      <4>1. Failed(runJob[r]) \in Job /\ Failed(runJob[r]).state # "none" BY <2>2, JobOps
      <4> QED BY <1>9, <1>t, <3>1, <4>1 DEF EndJob
    <3>2. CASE ~ IsActive(r) BY <1>9, <2>2, <3>2, JobOps DEF EndJob
    <3> QED BY <3>1, <3>2
  <2>4. runJob'[r] = job /\ \A q \in Runs \ {r} : runJob'[q] = runJob[q] BY <1>t, <2>3
  <2>5. Exists(r) BY <1>i, <2>2 DEF JobHasRun
  <2>6. PendingHasJob'
    BY <1>i, <2>1, <2>3, <2>4 DEF PendingHasJob, Exists, IsActive, ActiveStatus
  <2>7. JobHasRun' BY <1>i, <2>1, <2>4, <2>5 DEF JobHasRun, Exists
  <2> QED BY <1>a, <2>1, <2>6, <2>7
<1>10. CASE UNCHANGED <<schedule, fireJob, runs, runJob>>
  BY <1>a, <1>b, <1>10
<1> QED
  BY <1>1, <1>2, <1>3, <1>5, <1>6, <1>7, <1>8, <1>9, <1>10, DispatchCases
     DEF Advance, Tick, dispatchVars, allVars, vars

-----------------------------------------------------------------------------
(* The theorems.  Fairness is not used: these are safety properties.        *)

LEMMA DispatchStart ==
    DispatchInit => DispatchInv
<1> SUFFICES ASSUME DispatchInit PROVE DispatchInv
  OBVIOUS
<1>1. /\ \A r \in Runs : ~ Exists(r) /\ runJob[r] = NoJob
      /\ \A s \in Schedules : schedule[s] = NoSchedule /\ first[s] = 0
  BY DEF DispatchInit, Init, Exists
<1>2. TypeOK BY RunStoreAssumption DEF DispatchInit, Init, TypeOK
<1>3. DispatchTypeOK
  <2>1. NoJob \in Job BY DispatchAssumption DEF Job, NoJob
  <2> QED BY <1>2, <2>1, DispatchTypes DEF DispatchInit
<1>4. ClockBounded BY RunStoreAssumption DEF DispatchInit, Init, ClockBounded
<1>5. Calendar /\ NothingBefore /\ OccurrencesExact
  BY <1>1 DEF Calendar, NothingBefore, OccurrencesExact
<1>6. OneActivePerSession BY <1>1 DEF OneActivePerSession, IsActive
<1>7. NothingStranded BY <1>1 DEF NothingStranded, Enabled, NoSchedule, NoJob
<1> QED BY <1>3, <1>4, <1>5, <1>6, <1>7 DEF DispatchInv

LEMMA DispatchInvariant == DispatchSpec => []DispatchInv
<1>1. DispatchInit => DispatchInv BY DispatchStart
<1>2. DispatchInv /\ [DispatchNext]_allVars => DispatchInv'
  BY DispatchTypeStep, ClockStep, DispatchAdmissionStep, CalendarStep, StrandedStep
     DEF DispatchInv, CalendarInv
<1> QED BY <1>1, <1>2, PTL DEF DispatchSpec

(* The rows of the schedules and the states of the jobs, whatever is        *)
(* delivered again (create_schedule, _fire, _settle_run).                   *)
THEOREM DispatchTypeCorrect == DispatchSpec => []DispatchTypeOK
<1>1. DispatchInv => DispatchTypeOK BY DEF DispatchInv
<1> QED BY <1>1, DispatchInvariant, PTL

(* Admission holds of the runs that a batch or a fire inserts too           *)
(* (enqueue_runs, _fire, create_pending_run).                               *)
THEOREM DispatchAdmission == DispatchSpec => []OneActivePerSession
<1>1. DispatchInv => OneActivePerSession BY DEF DispatchInv
<1> QED BY <1>1, DispatchInvariant, PTL

(* A schedule's occurrences have runs exactly from its first fire up to its *)
(* next one, each once, however fires are repeated or delayed (_fire).      *)
THEOREM FiresExactly == DispatchSpec => []OccurrencesExact
<1>1. DispatchInv => OccurrencesExact BY DEF DispatchInv
<1> QED BY <1>1, DispatchInvariant, PTL

(* The next fire, a pending run and a job never lose one another            *)
(* (dispatch, _fire, enqueue_runs: one transaction each).                   *)
THEOREM NoneStranded == DispatchSpec => []NothingStranded
<1>1. DispatchInv => NothingStranded BY DEF DispatchInv
<1> QED BY <1>1, DispatchInvariant, PTL

(* After cancel_schedule no job, queued or delivered again, makes a run.    *)
THEOREM CancelIsFinal == DispatchSpec => CancelStops
<1> DEFINE Stops(s) ==
       schedule[s] # NoSchedule /\ ~ Enabled(s) =>
          /\ schedule'[s] = schedule[s]
          /\ \A o \in Runs \cap Occurrences : o[1] = s /\ ~ Exists(o) => ~ Exists(o)'
<1>1. ASSUME DispatchInv, [DispatchNext]_allVars
      PROVE  \A s \in Schedules : Stops(s)
  <2>t. DispatchTypeOK /\ ClockBounded /\ TypeOK
        /\ schedule \in [Schedules -> {NoSchedule} \cup ScheduleRow]
    BY <1>1, DispatchTypes DEF DispatchInv
  <2> SUFFICES ASSUME NEW s \in Schedules, schedule[s] # NoSchedule, ~ Enabled(s)
               PROVE  /\ schedule'[s] = schedule[s]
                      /\ \A o \in Runs \cap Occurrences :
                            o[1] = s /\ ~ Exists(o) => ~ Exists(o)'
    OBVIOUS
  <2>1. ASSUME NEW batch \in SUBSET Requested, EnqueueRuns(batch)
        PROVE  Stops(s)
    <3>1. \A r \in Runs : Exists(r)' <=> Exists(r) \/ r \in batch
      BY <2>1, <2>t, RequestedBatch, InsertedRows DEF EnqueueRuns
    <3> QED BY <2>1, <3>1 DEF EnqueueRuns, Requested
  <2>2. ASSUME NEW q \in Schedules, CreateSchedule(q) \/ CancelSchedule(q)
        PROVE  Stops(s)
    <3>1. q # s BY <2>2 DEF CreateSchedule, CancelSchedule
    <3>2. schedule'[s] = schedule[s] /\ runs' = runs
      BY <2>2, <2>t, <3>1 DEF CreateSchedule, CancelSchedule, vars
    <3> QED BY <3>2 DEF Exists
  <2>3. ASSUME NEW q \in Schedules, NEW fire \in Fires, FireCommits(q, fire)
        PROVE  Stops(s)
    <3>1. q # s BY <2>3 DEF FireCommits, Expects
    <3>2. schedule'[s] = schedule[s] BY <2>3, <2>t, <3>1 DEF FireCommits
    <3>3. \A r \in Runs : Exists(r)' <=> Exists(r) \/ r \in {<<q, fire>>}
      BY <2>3, <2>t, OccurrenceBatch, InsertedRows DEF FireCommits
    <3>4. \A o \in Occurrences : o[1] = s => o # <<q, fire>> BY <3>1
    <3> QED BY <3>2, <3>3, <3>4
  <2>4. ASSUME NEW r \in Runs, StoreStep(r)
        PROVE  Stops(s)
    <3>1. /\ schedule' = schedule
          /\ \A q \in Runs : (Exists(q)' <=> Exists(q)) \/ q \in Requested
      BY <2>4, <2>t, StoreSteps DEF dispatchVars
    <3> QED BY <3>1 DEF Requested
  <2>5. CASE UNCHANGED <<runs, schedule>> BY <2>5 DEF Exists
  <2> QED
    BY <1>1, <2>1, <2>2, <2>3, <2>4, <2>5, DispatchCases
       DEF FireIgnored, FireBusy, EndJob, Advance, Tick, dispatchVars, allVars, vars
<1>2. DispatchInv /\ [DispatchNext]_allVars => [\A s \in Schedules : Stops(s)]_allVars
  BY <1>1
<1> QED BY <1>2, DispatchInvariant, PTL DEF DispatchSpec, CancelStops
=============================================================================
