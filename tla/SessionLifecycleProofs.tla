----------------------- MODULE SessionLifecycleProofs -----------------------
(***************************************************************************)
(* What an agent promises of its live sessions, for any sessions and any   *)
(* bound of the idle cache: an eviction cuts nothing off, the bound holds  *)
(* whenever nothing is under way, and close() releases what the sessions   *)
(* share only after they are all gone.                                     *)
(***************************************************************************)
EXTENDS SessionLifecycle, FiniteSetTheorems, TLAPS

USE LifecycleAssumption

-----------------------------------------------------------------------------
(* Queues.                                                                   *)

LEMMA WithoutSeq ==
    ASSUME NEW S, NEW q \in Seq(S), NEW e
    PROVE  /\ Without(q, e) \in Seq(S)
           /\ ToSet(Without(q, e)) \subseteq ToSet(q)
           /\ ToSet(q) \ {e} \subseteq ToSet(Without(q, e))
           /\ q # <<>> /\ Head(q) # e =>
                  Without(q, e) # <<>> /\ Head(Without(q, e)) = Head(q)
<1>1. CASE ~ Contains(q, e) BY <1>1 DEF Without
<1>2. CASE Contains(q, e)
  <2> DEFINE k == CHOOSE i \in DOMAIN q : q[i] = e
             w == RemoveAt(q, k)
  <2>1. k \in 1..Len(q) /\ q[k] = e BY <1>2 DEF Contains
  <2>2. Without(q, e) = w BY <1>2 DEF Without
  <2> HIDE DEF k
  <2>3. /\ w \in Seq(S) /\ Len(w) = Len(q) - 1
        /\ \A i \in 1..(k - 1) : w[i] = q[i]
        /\ \A i \in k..(Len(q) - 1) : w[i] = q[i + 1]
    <3> DEFINE a == SubSeq(q, 1, k - 1)
               b == SubSeq(q, k + 1, Len(q))
    <3>1. a \in Seq(S) /\ Len(a) = k - 1 /\ \A i \in 1..(k - 1) : a[i] = q[i] BY <2>1
    <3>2. b \in Seq(S) /\ Len(b) = Len(q) - k /\ \A i \in 1..(Len(q) - k) : b[i] = q[k + i]
      BY <2>1
    <3>3. w = a \o b BY DEF RemoveAt
    <3> HIDE DEF a, b, w
    <3>4. w \in Seq(S) /\ Len(w) = Len(q) - 1 BY <3>1, <3>2, <3>3, <2>1
    <3>5. \A i \in 1..(k - 1) : w[i] = q[i] BY <3>1, <3>2, <3>3, <2>1
    <3>6. ASSUME NEW i \in k..(Len(q) - 1) PROVE w[i] = q[i + 1]
      <4>1. w[i] = b[i - (k - 1)] BY <3>1, <3>2, <3>3, <2>1
      <4>2. i - (k - 1) \in 1..(Len(q) - k) /\ k + (i - (k - 1)) = i + 1 BY <2>1
      <4> QED BY <4>1, <4>2, <3>2
    <3> QED BY <3>4, <3>5, <3>6
  <2> HIDE DEF w
  <2>4. \A i \in 1..Len(w) : \E j \in 1..Len(q) : w[i] = q[j]
    <3> TAKE i \in 1..Len(w)
    <3>1. CASE i < k BY <3>1, <2>1, <2>3
    <3>2. CASE i >= k
      <4>1. i + 1 \in 1..Len(q) /\ w[i] = q[i + 1] BY <3>2, <2>1, <2>3
      <4> QED BY <4>1
    <3> QED BY <3>1, <3>2, <2>1
  <2>5. \A j \in 1..Len(q) : q[j] # e => \E i \in 1..Len(w) : w[i] = q[j]
    <3> SUFFICES ASSUME NEW j \in 1..Len(q), q[j] # e PROVE \E i \in 1..Len(w) : w[i] = q[j]
      OBVIOUS
    <3>1. CASE j < k BY <3>1, <2>1, <2>3
    <3>2. CASE j > k
      <4>1. j - 1 \in 1..Len(w) /\ w[j - 1] = q[j] BY <3>2, <2>1, <2>3
      <4> QED BY <4>1
    <3> QED BY <3>1, <3>2, <2>1
  <2>6. q # <<>> /\ Head(q) # e => w # <<>> /\ Head(w) = Head(q)
    <3> SUFFICES ASSUME q # <<>>, Head(q) # e PROVE w # <<>> /\ Head(w) = Head(q) OBVIOUS
    <3>1. Head(q) = q[1] /\ k # 1 BY <2>1
    <3>2. w[1] = q[1] /\ Len(w) >= 1 BY <3>1, <2>1, <2>3
    <3> QED BY <3>1, <3>2, <2>3
  <2>7. DOMAIN w = 1..Len(w) /\ DOMAIN q = 1..Len(q) BY <2>3
  <2>8. ToSet(w) \subseteq ToSet(q) BY <2>4, <2>7 DEF ToSet
  <2>9. ToSet(q) \ {e} \subseteq ToSet(w) BY <2>5, <2>7 DEF ToSet
  <2> QED BY <2>2, <2>3, <2>6, <2>8, <2>9
<1> QED BY <1>1, <1>2

LEMMA AppendSet ==
    ASSUME NEW S, NEW q \in Seq(S), NEW e \in S
    PROVE  /\ Append(q, e) \in Seq(S) /\ Append(q, e) # <<>>
           /\ ToSet(Append(q, e)) = ToSet(q) \cup {e}
           /\ q # <<>> => Head(Append(q, e)) = Head(q)
           /\ q = <<>> => Head(Append(q, e)) = e
<1> DEFINE w == Append(q, e)
<1>1. /\ w \in Seq(S) /\ Len(w) = Len(q) + 1 /\ w[Len(q) + 1] = e
      /\ \A i \in 1..Len(q) : w[i] = q[i]
  OBVIOUS
<1> HIDE DEF w
<1>2. \A x \in ToSet(w) : x \in ToSet(q) \cup {e} BY <1>1 DEF ToSet
<1>3. \A x \in ToSet(q) : x \in ToSet(w)
  <2> SUFFICES ASSUME NEW i \in 1..Len(q) PROVE q[i] \in ToSet(w) BY DEF ToSet
  <2>1. i \in 1..Len(w) /\ w[i] = q[i] BY <1>1
  <2> QED BY <1>1, <2>1 DEF ToSet
<1>4. e \in ToSet(w)
  <2>1. Len(q) + 1 \in DOMAIN w BY <1>1
  <2> QED BY <1>1, <2>1 DEF ToSet
<1>5. w # <<>> /\ (q # <<>> => Head(w) = Head(q)) /\ (q = <<>> => Head(w) = e) BY <1>1
<1> QED BY <1>1, <1>2, <1>3, <1>4, <1>5 DEF w

LEMMA TailSet ==
    ASSUME NEW S, NEW q \in Seq(S), q # <<>>
    PROVE  /\ Tail(q) \in Seq(S) /\ Head(q) \in S /\ Head(q) \in ToSet(q)
           /\ ToSet(q) = {Head(q)} \cup ToSet(Tail(q))
<1> DEFINE t == Tail(q)
<1>1. /\ t \in Seq(S) /\ Len(t) = Len(q) - 1 /\ Len(q) >= 1 /\ Head(q) = q[1] /\ q[1] \in S
      /\ \A i \in 1..(Len(q) - 1) : t[i] = q[i + 1]
  OBVIOUS
<1> HIDE DEF t
<1>2. \A x \in ToSet(q) : x = q[1] \/ x \in ToSet(t)
  <2> SUFFICES ASSUME NEW i \in 1..Len(q), i # 1 PROVE q[i] \in ToSet(t) BY DEF ToSet
  <2>1. i - 1 \in 1..Len(t) /\ t[i - 1] = q[i] BY <1>1
  <2> QED BY <1>1, <2>1 DEF ToSet
<1>3. \A x \in ToSet(t) : x \in ToSet(q)
  <2> SUFFICES ASSUME NEW i \in 1..Len(t) PROVE t[i] \in ToSet(q) BY <1>1 DEF ToSet
  <2>1. i + 1 \in 1..Len(q) /\ t[i] = q[i + 1] BY <1>1
  <2> QED BY <2>1 DEF ToSet
<1>4. q[1] \in ToSet(q)
  <2>1. 1 \in DOMAIN q BY <1>1
  <2> QED BY <2>1 DEF ToSet
<1> QED BY <1>1, <1>2, <1>3, <1>4 DEF t

(* The agent starts with every root registered.                              *)
LEMMA AllInSeq ==
    ASSUME NEW S, IsFiniteSet(S)
    PROVE  SetToSeq(S) \in Seq(S) /\ ToSet(SetToSeq(S)) = S
<1> DEFINE n == Cardinality(S)
           f == SetToSeq(S)
<1>0. n \in Nat BY FS_CardinalityType
<1>1. \E g \in [1..n -> S] : IsInjective(g)
  <2>1. PICK g \in Bijection(1..n, S) : TRUE
    BY <1>0, FS_CardinalityType, FS_Bijection DEF ExistsBijection
  <2> QED BY <2>1 DEF Bijection, Injection, IsInjective
<1>2. f \in [1..n -> S] /\ IsInjective(f) BY <1>1 DEF SetToSeq
<1> HIDE DEF f
<1>3. f \in Injection(1..n, S) BY <1>2 DEF Injection
<1>4. IsFiniteSet(1..n) /\ Cardinality(1..n) = n BY <1>0, FS_Interval
<1>5. f \in Surjection(1..n, S) BY <1>3, <1>4, FS_Injection
<1> QED BY <1>0, <1>2, <1>5 DEF Surjection, ToSet, f

-----------------------------------------------------------------------------
(* The inductive invariant.                                                  *)

(* Whoever creates a session holds the lock, and its id stays free.          *)
CreatesAlone ==
    creating => \E s \in Roots : Holds(Open(s)) /\ life[s] = "closed"

(* A chosen session stays as idle as it was when it was chosen.              *)
Chosen ==
    \A s \in reserved : /\ life[s] = "quiescing" /\ ~Active(s)
                        /\ s = Parent => ~Alive /\ cont = "none"

(* The parent outlives what it owns.                                         *)
Tied ==
    /\ task \in {"none", "start", "create"} => life[Child] = "closed"
    /\ life[Child] # "closed" \/ Alive => life[Parent] # "closed"
    /\ cont # "none" => gen[Parent] = "body"

(* A close waits for the run it found, and admits no other.                  *)
Unwinding ==
    \A s \in Sessions :
        /\ Active(s) => life[s] # "closed"
        /\ closer[s] # "none" => life[s] = "quiescing"
        /\ closer[s] \in {"procs", "await", "gen"} => gen[s] # "admitted"
        /\ closer[s] \in {"drain", "child"} => ~Active(s)

(* Every live session is known to the agent.                                 *)
Registered ==
    \A s \in Sessions : life[s] # "closed" => s \in ToSet(order)

(* What is live while the agent closes has still to be closed.               *)
ClosingAll ==
    /\ stage # "none" \/ drained => agent # "open"
    /\ stage # "none" => agent # "closed"
    /\ agent # "closed" => released < Resources
    /\ stage = "each" => /\ Holds(Closer)
                         /\ \A s \in Roots : life[s] # "closed" => s \in ToSet(todo)
    /\ stage = "resources" \/ released > 0 => drained
    /\ drained => ~creating /\ \A s \in Sessions : life[s] = "closed"

(* Unless a scan is due, or what the last one left was added to, the idle    *)
(* cache is in its bound and the work that hides an idle tree is watched.    *)
ToPrune == {Run(s) : s \in Sessions} \cup {Pruner}
Due     == pruner # "none" \/ ToSet(lock) \cap ToPrune # {}

Scanned ==
    (agent = "open" /\ ~excess /\ ~Due) =>
        Cardinality(Candidates) <= bound /\ (Watches => watched)

IInv ==
    /\ TypeOK /\ CreatesAlone /\ Chosen /\ Tied /\ Unwinding /\ Registered /\ ClosingAll
    /\ Scanned

Clients == {Run(s) : s \in Sessions} \cup {Open(s) : s \in Roots} \cup {Pruner, Closer}

Queues == lock \in Seq(Clients) /\ order \in Seq(Sessions) /\ todo \in Seq(Sessions)

Flags ==
    /\ drained \in BOOLEAN /\ creating \in BOOLEAN /\ watched \in BOOLEAN
    /\ stopping \in BOOLEAN /\ notes \in BOOLEAN /\ cancel \in BOOLEAN /\ excess \in BOOLEAN

Fields ==
    /\ agent \in {"open", "quiescing", "closed"}
    /\ stage \in {"none", "pruner", "sessions", "each", "resources"}
    /\ released \in 0..Resources /\ bound \in Bounds
    /\ target \in Sessions \cup {NoSession, Raised}
    /\ pruner \in {"none", "created", "started"}
    /\ life \in [Sessions -> {"open", "quiescing", "closed"}]
    /\ gen \in [Sessions -> {"none", "admitted", "body", "parked", "tidy", "leave", "stuck"}]
    /\ procs \in [Sessions -> {"clean", "dirty"}]
    /\ closer \in [Sessions -> {"none", "start", "procs", "await", "gen", "drain", "child"}]
    /\ task \in {"none", "start", "create", "setup", "drive", "stop", "report", "done"}
    /\ outcome \in {"none", "ok", "errored", "cancelled"}
    /\ status \in {"none", "running", "killed", "ended"}
    /\ cont \in {"none", "setup", "drive", "stop"}
    /\ reserved \subseteq Sessions /\ inputs \in 0..MaxInputs

(* The three kinds of types.                                                 *)
LEMMA TypeParts == TypeOK <=> Queues /\ Flags /\ Fields
BY DEF TypeOK, Queues, Flags, Fields, Clients

LEMMA ClientTypes ==
    /\ \A s \in Sessions : Run(s) \in Clients
    /\ \A s \in Roots : Open(s) \in Clients
    /\ Pruner \in Clients /\ Closer \in Clients
BY DEF Clients

LEMMA LockFacts ==
    ASSUME Queues
    PROVE  /\ \A c \in Clients :
                  /\ Append(lock, c) \in Seq(Clients)
                  /\ ToSet(Append(lock, c)) = ToSet(lock) \cup {c}
                  /\ Append(lock, c) # <<>>
                  /\ Head(Append(lock, c)) = IF lock = <<>> THEN c ELSE Head(lock)
                  /\ Without(lock, c) \in Seq(Clients)
                  /\ ToSet(lock) \ {c} \subseteq ToSet(Without(lock, c))
                  /\ ToSet(Without(lock, c)) \subseteq ToSet(lock)
                  /\ lock # <<>> /\ Head(lock) # c =>
                         Without(lock, c) # <<>> /\ Head(Without(lock, c)) = Head(lock)
           /\ lock # <<>> =>
                  /\ Tail(lock) \in Seq(Clients) /\ Head(lock) \in ToSet(lock)
                  /\ ToSet(lock) = {Head(lock)} \cup ToSet(Tail(lock))
<1> USE DEF Queues
<1>1. lock \in Seq(Clients) OBVIOUS
<1>2. ASSUME NEW c \in Clients
      PROVE  /\ Append(lock, c) \in Seq(Clients)
             /\ ToSet(Append(lock, c)) = ToSet(lock) \cup {c}
             /\ Append(lock, c) # <<>>
             /\ Head(Append(lock, c)) = IF lock = <<>> THEN c ELSE Head(lock)
  BY <1>1, AppendSet
<1>3. ASSUME NEW c \in Clients
      PROVE  /\ Without(lock, c) \in Seq(Clients)
             /\ ToSet(lock) \ {c} \subseteq ToSet(Without(lock, c))
             /\ ToSet(Without(lock, c)) \subseteq ToSet(lock)
             /\ lock # <<>> /\ Head(lock) # c =>
                    Without(lock, c) # <<>> /\ Head(Without(lock, c)) = Head(lock)
  BY <1>1, WithoutSeq
<1>4. lock # <<>> =>
          /\ Tail(lock) \in Seq(Clients) /\ Head(lock) \in ToSet(lock)
          /\ ToSet(lock) = {Head(lock)} \cup ToSet(Tail(lock))
  BY <1>1, TailSet
<1> QED BY <1>2, <1>3, <1>4

LEMMA OrderFacts ==
    ASSUME Queues, NEW s \in Sessions
    PROVE  /\ Append(order, s) \in Seq(Sessions)
           /\ ToSet(Append(order, s)) = ToSet(order) \cup {s}
           /\ Without(order, s) \in Seq(Sessions)
           /\ ToSet(order) \ {s} \subseteq ToSet(Without(order, s))
           /\ ToSet(Without(order, s)) \subseteq ToSet(order)
           /\ Touched(s) \in Seq(Sessions) /\ ToSet(Touched(s)) = ToSet(order)
<1>1. order \in Seq(Sessions) BY DEF Queues
<1>2. /\ Append(order, s) \in Seq(Sessions)
      /\ ToSet(Append(order, s)) = ToSet(order) \cup {s}
  BY <1>1, AppendSet
<1>3. /\ Without(order, s) \in Seq(Sessions)
      /\ ToSet(order) \ {s} \subseteq ToSet(Without(order, s))
      /\ ToSet(Without(order, s)) \subseteq ToSet(order)
  BY <1>1, WithoutSeq
<1>4. /\ Append(Without(order, s), s) \in Seq(Sessions)
      /\ ToSet(Append(Without(order, s), s)) = ToSet(Without(order, s)) \cup {s}
  BY <1>3, AppendSet
<1>5. Contains(order, s) => s \in ToSet(order) BY <1>1 DEF Contains, ToSet
<1> QED BY <1>1, <1>2, <1>3, <1>4, <1>5 DEF Touched

LEMMA TodoFacts ==
    ASSUME Queues, todo # <<>>
    PROVE  /\ Tail(todo) \in Seq(Sessions) /\ Head(todo) \in Sessions
           /\ ToSet(todo) = {Head(todo)} \cup ToSet(Tail(todo))
<1>1. todo \in Seq(Sessions) BY DEF Queues
<1> QED BY <1>1, TailSet

LEMMA ClientsApart ==
    /\ Pruner # Closer
    /\ \A s : Run(s) \notin {Pruner, Closer} /\ Open(s) \notin {Pruner, Closer}
    /\ \A s, t : Run(s) # Open(t) /\ (Open(s) = Open(t) => s = t) /\ (Run(s) = Run(t) => s = t)
BY DEF Run, Open, Pruner, Closer

(* The lock has one holder.                                                  *)
LEMMA HolderFacts ==
    ASSUME CreatesAlone, ClosingAll
    PROVE  /\ HoldsToPrune \/ Holds(Closer) => ~creating
           /\ HoldsToPrune => ~Holds(Closer) /\ stage # "each"
           /\ \A s \in Roots : Holds(Open(s)) => stage # "each"
           /\ \A s \in Roots : creating /\ Holds(Open(s)) => life[s] = "closed"
BY ClientsApart DEF CreatesAlone, ClosingAll, Holds, HoldsToPrune

LEMMA EvictFacts ==
    ASSUME Queues, Evict
    PROVE  \E s \in Sessions :
               /\ s \in ToSet(order) /\ IdleTree(s) /\ Tree(s) \subseteq Sessions
               /\ Quiesce(Tree(s))
               /\ reserved' = reserved \cup Tree(s)
               /\ closer' = [closer EXCEPT ![s] = Begun(s)]
               /\ target' = s
<1>1. PICK i \in DOMAIN order :
          LET s == order[i] IN
            /\ s \in Candidates
            /\ Quiesce(Tree(s)) /\ reserved' = reserved \cup Tree(s)
            /\ target' = s /\ closer' = [closer EXCEPT ![s] = Begun(s)]
  BY DEF Evict
<1>2. order[i] \in Sessions BY DEF Queues
<1>3. order[i] \in ToSet(order) /\ IdleTree(order[i]) BY <1>1 DEF Candidates
<1>4. Tree(order[i]) \subseteq Sessions BY <1>2 DEF Tree, Sessions
<1> QED BY <1>1, <1>2, <1>3, <1>4

(* When the last one is closed, none is left.                                *)
LEMMA AllClosedFacts ==
    ASSUME Queues, Tied, ClosingAll, stage = "each", todo = <<>>
    PROVE  /\ \A s \in Sessions : life[s] = "closed"
           /\ Holds(Closer)
<1>1. ToSet(todo) = {} BY DEF ToSet
<1>2. \A s \in Roots : life[s] = "closed" BY <1>1 DEF ClosingAll
<1>3. life[Child] = "closed" BY <1>2 DEF Tied
<1> QED BY <1>2, <1>3 DEF Sessions, ClosingAll

-----------------------------------------------------------------------------
(* Every step keeps each part of the invariant.                              *)

(* Types. *)
LEMMA TypedStep == IInv /\ [Next]_vars => TypeOK'
<1> SUFFICES ASSUME IInv, [Next]_vars PROVE TypeOK' OBVIOUS
<1>0. TypeOK /\ Queues /\ Flags /\ Fields BY TypeParts DEF IInv
<1>a. Queues' /\ Flags' /\ Fields' => TypeOK'
  BY DEF TypeOK, Queues, Flags, Fields, Clients
<1>b. ClosingAll BY DEF IInv
<1> USE DEF Sessions, vars, closing, pruning, locking, runs, worker, history
<1>1. ASSUME NEW s \in Roots, HostOpen(s) PROVE TypeOK'
  BY <1>1, <1>0 DEF TypeOK, HostOpen, Input
<1>2. ASSUME NEW s \in Roots, HostRun(s) PROVE TypeOK'
  <2>1. Queues'
    BY <1>2, <1>0, LockFacts, OrderFacts, TodoFacts, ClientTypes DEF Queues, HostRun, Input,
       CanRun
  <2>2. Flags' BY <1>2, <1>0 DEF Flags, HostRun, Input, CanRun
  <2>3. Fields' BY <1>2, <1>0 DEF Fields, HostRun, Input, CanRun
  <2> QED BY <2>1, <2>2, <2>3, <1>a
<1>3. ASSUME NEW s \in Roots, Start(s) PROVE TypeOK'
  BY <1>3, <1>0 DEF TypeOK, Start
<1>4. ASSUME NEW s \in Roots, Yield(s) PROVE TypeOK'
  BY <1>4, <1>0 DEF TypeOK, Yield
<1>5. ASSUME NEW s \in Roots, Advance(s) PROVE TypeOK'
  BY <1>5, <1>0 DEF TypeOK, Advance
<1>6. ASSUME NEW s \in Roots, CloseStream(s) PROVE TypeOK'
  BY <1>6, <1>0 DEF TypeOK, CloseStream
<1>7. ASSUME NEW s \in Roots, HostCancel(s) PROVE TypeOK'
  <2>1. Queues'
    BY <1>7, <1>0, LockFacts, OrderFacts, TodoFacts, ClientTypes DEF Queues, HostCancel, Input,
       Cancelled, Left
  <2>2. Flags' BY <1>7, <1>0 DEF Flags, HostCancel, Input, Cancelled, Left
  <2>3. Fields' BY <1>7, <1>0 DEF Fields, HostCancel, Input, Cancelled, Left
  <2> QED BY <2>1, <2>2, <2>3, <1>a
<1>8. ASSUME NEW s \in Roots, Reattach(s) PROVE TypeOK'
  <2>1. Queues'
    BY <1>8, <1>0, LockFacts, OrderFacts, TodoFacts, ClientTypes DEF Queues, Reattach, Touched,
       Holds
  <2>2. Flags' BY <1>8, <1>0 DEF Flags, Reattach, Touched, Holds
  <2>3. Fields' BY <1>8, <1>0 DEF Fields, Reattach, Touched, Holds
  <2> QED BY <2>1, <2>2, <2>3, <1>a
<1>9. ASSUME NEW s \in Roots, Create(s) PROVE TypeOK'
  BY <1>9, <1>0 DEF TypeOK, Create, Holds
<1>10. ASSUME NEW s \in Roots, Publish(s) PROVE TypeOK'
  <2>1. Queues'
    <3>1. lock' \in Seq(Clients) BY <1>10, <1>0, LockFacts DEF Publish, Holds
    <3>2. order' \in Seq(Sessions) BY <1>10, <1>0, OrderFacts DEF Queues, Publish
    <3>3. todo' = todo BY <1>10 DEF Publish
    <3> QED BY <3>1, <3>2, <3>3, <1>0 DEF Queues
  <2>2. Flags' BY <1>10, <1>0 DEF Flags, Publish, Holds
  <2>3. Fields' BY <1>10, <1>0 DEF Fields, Publish, Holds
  <2> QED BY <2>1, <2>2, <2>3, <1>a
<1>11. ASSUME NEW s \in Sessions, EndRun(s) PROVE TypeOK'
  BY <1>11, <1>0 DEF TypeOK, EndRun
<1>12. ASSUME NEW s \in Sessions, Finish(s) PROVE TypeOK'
  <2>1. Queues'
    BY <1>12, <1>0, LockFacts, OrderFacts, TodoFacts, ClientTypes DEF Queues, Finish, Touched
  <2>2. Flags' BY <1>12, <1>0 DEF Flags, Finish, Touched
  <2>3. Fields' BY <1>12, <1>0 DEF Fields, Finish, Touched
  <2> QED BY <2>1, <2>2, <2>3, <1>a
<1>13. ASSUME NEW s \in Sessions, FinishCancelled(s) PROVE TypeOK'
  BY <1>13, <1>0 DEF TypeOK, FinishCancelled
<1>14. ASSUME NEW s \in Sessions, Cleaned(s) PROVE TypeOK'
  BY <1>14, <1>0 DEF TypeOK, Cleaned, Cleaning
<1>15. ASSUME NEW s \in Sessions, Closing(s) PROVE TypeOK'
  BY <1>15, <1>0 DEF TypeOK, Closing, CancelsWork
<1>16. ASSUME NEW s \in Sessions, Finalize(s) PROVE TypeOK'
  <2>1. Queues'
    BY <1>16, <1>0, LockFacts, OrderFacts, TodoFacts, ClientTypes DEF Queues, Finalize, Drains,
       CancelsWork
  <2>2. Flags' BY <1>16, <1>0 DEF Flags, Finalize, Drains, CancelsWork
  <2>3. Fields' BY <1>16, <1>0 DEF Fields, Finalize, Drains, CancelsWork
  <2> QED BY <2>1, <2>2, <2>3, <1>a
<1>17. ASSUME NEW s \in Sessions, Awaited(s) PROVE TypeOK'
  <2>1. Queues'
    BY <1>17, <1>0, LockFacts, OrderFacts, TodoFacts, ClientTypes DEF Queues, Awaited, Drains,
       CancelsWork, Unwound
  <2>2. Flags' BY <1>17, <1>0 DEF Flags, Awaited, Drains, CancelsWork, Unwound
  <2>3. Fields' BY <1>17, <1>0 DEF Fields, Awaited, Drains, CancelsWork, Unwound
  <2> QED BY <2>1, <2>2, <2>3, <1>a
<1>18. ASSUME NEW s \in Sessions, StreamClosed(s) PROVE TypeOK'
  BY <1>18, <1>0 DEF TypeOK, StreamClosed, CancelsWork
<1>19. ASSUME NEW s \in Sessions, Closed(s) PROVE TypeOK'
  <2>1. Queues'
    BY <1>19, <1>0, LockFacts, OrderFacts, TodoFacts, ClientTypes DEF Queues, Closed, Drained
  <2>2. Flags' BY <1>19, <1>0 DEF Flags, Closed, Drained
  <2>3. Fields' BY <1>19, <1>0 DEF Fields, Closed, Drained
  <2> QED BY <2>1, <2>2, <2>3, <1>a
<1>20. ASSUME NEW s \in Sessions, CleaningFails(s) PROVE TypeOK'
  BY <1>20, <1>0 DEF TypeOK, CleaningFails, Input, Fails, Cleaning
<1>21. ASSUME NEW s \in Sessions, ReleaseFails(s) PROVE TypeOK'
  BY <1>21, <1>0 DEF TypeOK, ReleaseFails, Input, Fails, Drained
<1>22. ASSUME NEW s \in Sessions, NEW force \in BOOLEAN, HostClose(s, force) PROVE TypeOK'
  BY <1>22, <1>0 DEF TypeOK, HostClose, Input, Quiesce
<1>23. CASE ReleaseChild
  <2>1. Queues'
    BY <1>23, <1>0, LockFacts, OrderFacts, TodoFacts, ClientTypes DEF Queues, ReleaseChild,
       Quiesce, Begun
  <2>2. Flags' BY <1>23, <1>0 DEF Flags, ReleaseChild, Quiesce, Begun
  <2>3. Fields' BY <1>23, <1>0 DEF Fields, ReleaseChild, Quiesce, Begun
  <2> QED BY <2>1, <2>2, <2>3, <1>a
<1>24. CASE DrainNotes
  <2>1. Queues'
    BY <1>24, <1>0, LockFacts, OrderFacts, TodoFacts, ClientTypes DEF Queues, DrainNotes
  <2>2. Flags' BY <1>24, <1>0 DEF Flags, DrainNotes
  <2>3. Fields' BY <1>24, <1>0 DEF Fields, DrainNotes
  <2> QED BY <2>1, <2>2, <2>3, <1>a
<1>25. CASE Abort
  BY <1>25, <1>0 DEF TypeOK, Abort, Input
<1>26. CASE Spawn
  <2>1. Queues'
    BY <1>26, <1>0, LockFacts, OrderFacts, TodoFacts, ClientTypes DEF Queues, Spawn, Input
  <2>2. Flags' BY <1>26, <1>0 DEF Flags, Spawn, Input
  <2>3. Fields' BY <1>26, <1>0 DEF Fields, Spawn, Input
  <2> QED BY <2>1, <2>2, <2>3, <1>a
<1>27. CASE Continue
  BY <1>27, <1>0 DEF TypeOK, Continue, Input
<1>28. CASE TaskStop
  BY <1>28, <1>0 DEF TypeOK, TaskStop
<1>29. CASE Evict
  BY <1>29, <1>0 DEF TypeOK, Evict, Quiesce, Tree, Begun
<1>30. CASE Evicted
  BY <1>30, <1>0 DEF TypeOK, Evicted
<1>31. CASE PruneEnds
  <2>1. Queues'
    BY <1>31, <1>0, LockFacts, OrderFacts, TodoFacts, ClientTypes DEF Queues, PruneEnds, Holds,
       HoldsToPrune
  <2>2. Flags' BY <1>31, <1>0 DEF Flags, PruneEnds, Holds
  <2>3. Fields' BY <1>31, <1>0 DEF Fields, PruneEnds, Holds
  <2> QED BY <2>1, <2>2, <2>3, <1>a
<1>32. CASE PrunerStarts
  <2>1. Queues'
    BY <1>32, <1>0, LockFacts, OrderFacts, TodoFacts, ClientTypes DEF Queues, PrunerStarts
  <2>2. Flags' BY <1>32, <1>0 DEF Flags, PrunerStarts
  <2>3. Fields' BY <1>32, <1>0 DEF Fields, PrunerStarts
  <2> QED BY <2>1, <2>2, <2>3, <1>a
<1>33. CASE EndsEarly
  <2>1. Queues'
    BY <1>33, <1>0, LockFacts, OrderFacts, TodoFacts, ClientTypes DEF Queues, EndsEarly,
       WorkerDone
  <2>2. Flags' BY <1>33, <1>0 DEF Flags, EndsEarly, WorkerDone
  <2>3. Fields' BY <1>33, <1>0 DEF Fields, EndsEarly, WorkerDone
  <2> QED BY <2>1, <2>2, <2>3, <1>a
<1>34. CASE Starts
  BY <1>34, <1>0 DEF TypeOK, Starts
<1>35. CASE Registers
  BY <1>35, <1>0 DEF TypeOK, Registers
<1>36. CASE Drives
  BY <1>36, <1>0 DEF TypeOK, Drives, CanRun
<1>37. CASE SetupCancelled
  <2>1. Queues'
    BY <1>37, <1>0, LockFacts, OrderFacts, TodoFacts, ClientTypes DEF Queues, SetupCancelled
  <2>2. Flags' BY <1>37, <1>0 DEF Flags, SetupCancelled
  <2>3. Fields' BY <1>37, <1>0 DEF Fields, SetupCancelled
  <2> QED BY <2>1, <2>2, <2>3, <1>a
<1>38. CASE DriveCancelled
  <2>1. Queues'
    BY <1>38, <1>0, LockFacts, OrderFacts, TodoFacts, ClientTypes DEF Queues, DriveCancelled,
       Cancelled, Left
  <2>2. Flags' BY <1>38, <1>0 DEF Flags, DriveCancelled, Cancelled, Left
  <2>3. Fields' BY <1>38, <1>0 DEF Fields, DriveCancelled, Cancelled, Left
  <2> QED BY <2>1, <2>2, <2>3, <1>a
<1>39. CASE Driven
  <2>1. Queues'
    BY <1>39, <1>0, LockFacts, OrderFacts, TodoFacts, ClientTypes DEF Queues, Driven
  <2>2. Flags' BY <1>39, <1>0 DEF Flags, Driven
  <2>3. Fields' BY <1>39, <1>0 DEF Fields, Driven
  <2> QED BY <2>1, <2>2, <2>3, <1>a
<1>40. CASE StopHookEnds
  <2>1. Queues'
    BY <1>40, <1>0, LockFacts, OrderFacts, TodoFacts, ClientTypes DEF Queues, StopHookEnds,
       WorkerDone
  <2>2. Flags' BY <1>40, <1>0 DEF Flags, StopHookEnds, WorkerDone
  <2>3. Fields' BY <1>40, <1>0 DEF Fields, StopHookEnds, WorkerDone
  <2> QED BY <2>1, <2>2, <2>3, <1>a
<1>41. CASE Reports
  <2>1. Queues'
    BY <1>41, <1>0, LockFacts, OrderFacts, TodoFacts, ClientTypes DEF Queues, Reports,
       WorkerDone
  <2>2. Flags' BY <1>41, <1>0 DEF Flags, Reports, WorkerDone
  <2>3. Fields' BY <1>41, <1>0 DEF Fields, Reports, WorkerDone
  <2> QED BY <2>1, <2>2, <2>3, <1>a
<1>42. CASE ContinueDrives
  BY <1>42, <1>0 DEF TypeOK, ContinueDrives, CanRun
<1>43. CASE ContinueDriven
  <2>1. Queues'
    BY <1>43, <1>0, LockFacts, OrderFacts, TodoFacts, ClientTypes DEF Queues, ContinueDriven
  <2>2. Flags' BY <1>43, <1>0 DEF Flags, ContinueDriven
  <2>3. Fields' BY <1>43, <1>0 DEF Fields, ContinueDriven
  <2> QED BY <2>1, <2>2, <2>3, <1>a
<1>44. CASE ContinueEnds
  BY <1>44, <1>0 DEF TypeOK, ContinueEnds
<1>45. CASE HostCloseAgent
  BY <1>45, <1>0 DEF TypeOK, HostCloseAgent
<1>46. CASE PrunerAwaited
  <2>1. Queues'
    BY <1>46, <1>0, LockFacts, OrderFacts, TodoFacts, ClientTypes DEF Queues, PrunerAwaited
  <2>2. Flags' BY <1>46, <1>0 DEF Flags, PrunerAwaited
  <2>3. Fields' BY <1>46, <1>0 DEF Fields, PrunerAwaited
  <2> QED BY <2>1, <2>2, <2>3, <1>a
<1>47. CASE Snapshot
  BY <1>47, <1>0 DEF TypeOK, Snapshot, Holds
<1>48. CASE CloseNext
  <2>1. Queues'
    BY <1>48, <1>0, LockFacts, OrderFacts, TodoFacts, ClientTypes DEF Queues, CloseNext,
       Quiesce, Begun
  <2>2. Flags' BY <1>48, <1>0 DEF Flags, CloseNext, Quiesce, Begun
  <2>3. Fields' BY <1>48, <1>0, TodoFacts DEF Fields, CloseNext, Quiesce, Begun
  <2> QED BY <2>1, <2>2, <2>3, <1>a
<1>49. CASE AllClosed
  <2>1. Queues'
    BY <1>49, <1>0, LockFacts, OrderFacts, TodoFacts, ClientTypes, <1>b DEF Queues, AllClosed,
       ClosingAll, Holds
  <2>2. Flags' BY <1>49, <1>0 DEF Flags, AllClosed
  <2>3. Fields' BY <1>49, <1>0 DEF Fields, AllClosed
  <2> QED BY <2>1, <2>2, <2>3, <1>a
<1>50. CASE CloseRaises
  <2>1. Queues'
    BY <1>50, <1>0, LockFacts, OrderFacts, TodoFacts, ClientTypes, <1>b DEF Queues, CloseRaises,
       ClosingAll, Holds
  <2>2. Flags' BY <1>50, <1>0 DEF Flags, CloseRaises
  <2>3. Fields' BY <1>50, <1>0 DEF Fields, CloseRaises
  <2> QED BY <2>1, <2>2, <2>3, <1>a
<1>51. CASE ReleaseResource
  <2>1. Queues'
    BY <1>51, <1>0, LockFacts, OrderFacts, TodoFacts, ClientTypes DEF Queues, ReleaseResource
  <2>2. Flags' BY <1>51, <1>0 DEF Flags, ReleaseResource
  <2>3. Fields' BY <1>51, <1>0, <1>b DEF Fields, ReleaseResource, ClosingAll
  <2> QED BY <2>1, <2>2, <2>3, <1>a
<1>52. CASE ResourceFails
  BY <1>52, <1>0 DEF TypeOK, ResourceFails, Input
<1>53. CASE UNCHANGED vars BY <1>53, <1>0 DEF TypeOK
<1> QED
  BY <1>1, <1>2, <1>3, <1>4, <1>5, <1>6, <1>7, <1>8, <1>9, <1>10, <1>11, <1>12, <1>13,
     <1>14, <1>15, <1>16, <1>17, <1>18, <1>19, <1>20, <1>21, <1>22, <1>23, <1>24, <1>25,
     <1>26, <1>27, <1>28, <1>29, <1>30, <1>31, <1>32, <1>33, <1>34, <1>35, <1>36, <1>37,
     <1>38, <1>39, <1>40, <1>41, <1>42, <1>43, <1>44, <1>45, <1>46, <1>47, <1>48, <1>49,
     <1>50, <1>51, <1>52, <1>53
  DEF Next, HostStep, OpenStep, RunStep, CloserStep, PruneStep, WorkerStep, ContinueStep, CloseStep

(* Who creates a session. *)
LEMMA CreatesAloneStep == IInv /\ [Next]_vars => CreatesAlone'
<1> SUFFICES ASSUME IInv, [Next]_vars PROVE CreatesAlone' OBVIOUS
<1>0. Queues /\ Fields /\ CreatesAlone /\ ClosingAll BY TypeParts DEF IInv
<1> USE DEF CreatesAlone, Fields, Sessions, Holds, vars, closing, pruning, locking, runs, worker, history
<1>1. ASSUME NEW s \in Roots, HostOpen(s) PROVE CreatesAlone'
  BY <1>1, <1>0, LockFacts, ClientTypes, ClientsApart DEF HostOpen, Input
<1>2. ASSUME NEW s \in Roots, HostRun(s) PROVE CreatesAlone'
  BY <1>2, <1>0 DEF HostRun, Input, CanRun
<1>3. ASSUME NEW s \in Roots, Start(s) PROVE CreatesAlone'
  BY <1>3, <1>0 DEF Start
<1>4. ASSUME NEW s \in Roots, Yield(s) PROVE CreatesAlone'
  BY <1>4, <1>0 DEF Yield
<1>5. ASSUME NEW s \in Roots, Advance(s) PROVE CreatesAlone'
  BY <1>5, <1>0 DEF Advance
<1>6. ASSUME NEW s \in Roots, CloseStream(s) PROVE CreatesAlone'
  BY <1>6, <1>0 DEF CloseStream
<1>7. ASSUME NEW s \in Roots, HostCancel(s) PROVE CreatesAlone'
  BY <1>7, <1>0, LockFacts, ClientTypes, ClientsApart DEF HostCancel, Input, Cancelled, Left
<1>8. ASSUME NEW s \in Roots, Reattach(s) PROVE CreatesAlone'
  BY <1>8, <1>0, LockFacts, ClientTypes, ClientsApart DEF Reattach, Touched, Holds
<1>9. ASSUME NEW s \in Roots, Create(s) PROVE CreatesAlone'
  BY <1>9, <1>0, LockFacts, ClientTypes, ClientsApart DEF Create, Holds
<1>10. ASSUME NEW s \in Roots, Publish(s) PROVE CreatesAlone'
  BY <1>10, <1>0, LockFacts, ClientTypes, ClientsApart, HolderFacts DEF Publish, Holds
<1>11. ASSUME NEW s \in Sessions, EndRun(s) PROVE CreatesAlone'
  BY <1>11, <1>0 DEF EndRun
<1>12. ASSUME NEW s \in Sessions, Finish(s) PROVE CreatesAlone'
  BY <1>12, <1>0, LockFacts, ClientTypes, ClientsApart DEF Finish, Touched
<1>13. ASSUME NEW s \in Sessions, FinishCancelled(s) PROVE CreatesAlone'
  BY <1>13, <1>0 DEF FinishCancelled
<1>14. ASSUME NEW s \in Sessions, Cleaned(s) PROVE CreatesAlone'
  BY <1>14, <1>0 DEF Cleaned, Cleaning
<1>15. ASSUME NEW s \in Sessions, Closing(s) PROVE CreatesAlone'
  BY <1>15, <1>0 DEF Closing, CancelsWork
<1>16. ASSUME NEW s \in Sessions, Finalize(s) PROVE CreatesAlone'
  BY <1>16, <1>0 DEF Finalize, Drains, CancelsWork
<1>17. ASSUME NEW s \in Sessions, Awaited(s) PROVE CreatesAlone'
  BY <1>17, <1>0 DEF Awaited, Drains, CancelsWork, Unwound
<1>18. ASSUME NEW s \in Sessions, StreamClosed(s) PROVE CreatesAlone'
  BY <1>18, <1>0 DEF StreamClosed, CancelsWork
<1>19. ASSUME NEW s \in Sessions, Closed(s) PROVE CreatesAlone'
  BY <1>19, <1>0 DEF Closed, Drained
<1>20. ASSUME NEW s \in Sessions, CleaningFails(s) PROVE CreatesAlone'
  BY <1>20, <1>0 DEF CleaningFails, Input, Fails, Cleaning
<1>21. ASSUME NEW s \in Sessions, ReleaseFails(s) PROVE CreatesAlone'
  BY <1>21, <1>0 DEF ReleaseFails, Input, Fails, Drained
<1>22. ASSUME NEW s \in Sessions, NEW force \in BOOLEAN, HostClose(s, force) PROVE CreatesAlone'
  BY <1>22, <1>0 DEF HostClose, Input, Quiesce
<1>23. CASE ReleaseChild
  BY <1>23, <1>0 DEF ReleaseChild, Quiesce, Begun
<1>24. CASE DrainNotes
  BY <1>24, <1>0 DEF DrainNotes
<1>25. CASE Abort
  BY <1>25, <1>0 DEF Abort, Input
<1>26. CASE Spawn
  BY <1>26, <1>0 DEF Spawn, Input
<1>27. CASE Continue
  BY <1>27, <1>0 DEF Continue, Input
<1>28. CASE TaskStop
  BY <1>28, <1>0 DEF TaskStop
<1>29. CASE Evict
  BY <1>29, <1>0, LockFacts, ClientTypes, ClientsApart, HolderFacts DEF Evict, Quiesce, Tree,
     Begun, HoldsToPrune, Holds
<1>30. CASE Evicted
  BY <1>30, <1>0 DEF Evicted, HoldsToPrune, Holds
<1>31. CASE PruneEnds
  BY <1>31, <1>0, LockFacts, ClientTypes, ClientsApart, HolderFacts DEF PruneEnds, Holds,
     HoldsToPrune, Holds
<1>32. CASE PrunerStarts
  BY <1>32, <1>0, LockFacts, ClientTypes, ClientsApart DEF PrunerStarts
<1>33. CASE EndsEarly
  BY <1>33, <1>0 DEF EndsEarly, WorkerDone
<1>34. CASE Starts
  BY <1>34, <1>0 DEF Starts
<1>35. CASE Registers
  BY <1>35, <1>0 DEF Registers
<1>36. CASE Drives
  BY <1>36, <1>0 DEF Drives, CanRun
<1>37. CASE SetupCancelled
  BY <1>37, <1>0 DEF SetupCancelled
<1>38. CASE DriveCancelled
  BY <1>38, <1>0, LockFacts, ClientTypes, ClientsApart DEF DriveCancelled, Cancelled, Left
<1>39. CASE Driven
  BY <1>39, <1>0 DEF Driven
<1>40. CASE StopHookEnds
  BY <1>40, <1>0 DEF StopHookEnds, WorkerDone
<1>41. CASE Reports
  BY <1>41, <1>0 DEF Reports, WorkerDone
<1>42. CASE ContinueDrives
  BY <1>42, <1>0 DEF ContinueDrives, CanRun
<1>43. CASE ContinueDriven
  BY <1>43, <1>0 DEF ContinueDriven
<1>44. CASE ContinueEnds
  BY <1>44, <1>0 DEF ContinueEnds
<1>45. CASE HostCloseAgent
  BY <1>45, <1>0 DEF HostCloseAgent
<1>46. CASE PrunerAwaited
  BY <1>46, <1>0, LockFacts, ClientTypes, ClientsApart DEF PrunerAwaited
<1>47. CASE Snapshot
  BY <1>47, <1>0 DEF Snapshot, Holds
<1>48. CASE CloseNext
  BY <1>48, <1>0 DEF CloseNext, Quiesce, Begun
<1>49. CASE AllClosed
  BY <1>49, <1>0, LockFacts, ClientTypes, ClientsApart, HolderFacts DEF AllClosed, ClosingAll
<1>50. CASE CloseRaises
  BY <1>50, <1>0, LockFacts, ClientTypes, ClientsApart, HolderFacts DEF CloseRaises, ClosingAll
<1>51. CASE ReleaseResource
  BY <1>51, <1>0 DEF ReleaseResource
<1>52. CASE ResourceFails
  BY <1>52, <1>0 DEF ResourceFails, Input
<1>53. CASE UNCHANGED vars BY <1>53, <1>0
<1> QED
  BY <1>1, <1>2, <1>3, <1>4, <1>5, <1>6, <1>7, <1>8, <1>9, <1>10, <1>11, <1>12, <1>13,
     <1>14, <1>15, <1>16, <1>17, <1>18, <1>19, <1>20, <1>21, <1>22, <1>23, <1>24, <1>25,
     <1>26, <1>27, <1>28, <1>29, <1>30, <1>31, <1>32, <1>33, <1>34, <1>35, <1>36, <1>37,
     <1>38, <1>39, <1>40, <1>41, <1>42, <1>43, <1>44, <1>45, <1>46, <1>47, <1>48, <1>49,
     <1>50, <1>51, <1>52, <1>53
  DEF Next, HostStep, OpenStep, RunStep, CloserStep, PruneStep, WorkerStep, ContinueStep, CloseStep

(* What eviction chose. *)
LEMMA ChosenStep == IInv /\ [Next]_vars => Chosen'
<1> SUFFICES ASSUME IInv, [Next]_vars PROVE Chosen' OBVIOUS
<1>0. Fields /\ Queues /\ CreatesAlone /\ Chosen /\ Tied /\ Unwinding /\ ClosingAll
  BY TypeParts DEF IInv
<1> USE DEF Chosen, Fields, Sessions, Active, Alive, vars, closing, pruning, locking, runs, worker, history
<1>1. ASSUME NEW s \in Roots, HostOpen(s) PROVE Chosen'
  BY <1>1, <1>0 DEF HostOpen, Input
<1>2. ASSUME NEW s \in Roots, HostRun(s) PROVE Chosen'
  BY <1>2, <1>0 DEF HostRun, Input, CanRun
<1>3. ASSUME NEW s \in Roots, Start(s) PROVE Chosen'
  BY <1>3, <1>0 DEF Start
<1>4. ASSUME NEW s \in Roots, Yield(s) PROVE Chosen'
  BY <1>4, <1>0 DEF Yield
<1>5. ASSUME NEW s \in Roots, Advance(s) PROVE Chosen'
  BY <1>5, <1>0 DEF Advance
<1>6. ASSUME NEW s \in Roots, CloseStream(s) PROVE Chosen'
  BY <1>6, <1>0 DEF CloseStream
<1>7. ASSUME NEW s \in Roots, HostCancel(s) PROVE Chosen'
  BY <1>7, <1>0 DEF HostCancel, Input, Cancelled, Left
<1>8. ASSUME NEW s \in Roots, Reattach(s) PROVE Chosen'
  BY <1>8, <1>0 DEF Reattach, Touched, Holds
<1>9. ASSUME NEW s \in Roots, Create(s) PROVE Chosen'
  BY <1>9, <1>0 DEF Create, Holds
<1>10. ASSUME NEW s \in Roots, Publish(s) PROVE Chosen'
  BY <1>10, <1>0, LockFacts, ClientTypes, ClientsApart, HolderFacts DEF Publish, Holds,
     CreatesAlone
<1>11. ASSUME NEW s \in Sessions, EndRun(s) PROVE Chosen'
  BY <1>11, <1>0 DEF EndRun
<1>12. ASSUME NEW s \in Sessions, Finish(s) PROVE Chosen'
  BY <1>12, <1>0 DEF Finish, Touched
<1>13. ASSUME NEW s \in Sessions, FinishCancelled(s) PROVE Chosen'
  BY <1>13, <1>0 DEF FinishCancelled
<1>14. ASSUME NEW s \in Sessions, Cleaned(s) PROVE Chosen'
  BY <1>14, <1>0 DEF Cleaned, Cleaning
<1>15. ASSUME NEW s \in Sessions, Closing(s) PROVE Chosen'
  BY <1>15, <1>0 DEF Closing, CancelsWork
<1>16. ASSUME NEW s \in Sessions, Finalize(s) PROVE Chosen'
  BY <1>16, <1>0 DEF Finalize, Drains, CancelsWork
<1>17. ASSUME NEW s \in Sessions, Awaited(s) PROVE Chosen'
  BY <1>17, <1>0 DEF Awaited, Drains, CancelsWork, Unwound
<1>18. ASSUME NEW s \in Sessions, StreamClosed(s) PROVE Chosen'
  BY <1>18, <1>0 DEF StreamClosed, CancelsWork
<1>19. ASSUME NEW s \in Sessions, Closed(s) PROVE Chosen'
  BY <1>19, <1>0 DEF Closed, Drained
<1>20. ASSUME NEW s \in Sessions, CleaningFails(s) PROVE Chosen'
  BY <1>20, <1>0 DEF CleaningFails, Input, Fails, Cleaning
<1>21. ASSUME NEW s \in Sessions, ReleaseFails(s) PROVE Chosen'
  BY <1>21, <1>0 DEF ReleaseFails, Input, Fails, Drained
<1>22. ASSUME NEW s \in Sessions, NEW force \in BOOLEAN, HostClose(s, force) PROVE Chosen'
  BY <1>22, <1>0 DEF HostClose, Input, Quiesce
<1>23. CASE ReleaseChild
  BY <1>23, <1>0 DEF ReleaseChild, Quiesce, Begun
<1>24. CASE DrainNotes
  BY <1>24, <1>0 DEF DrainNotes
<1>25. CASE Abort
  BY <1>25, <1>0 DEF Abort, Input
<1>26. CASE Spawn
  BY <1>26, <1>0 DEF Spawn, Input
<1>27. CASE Continue
  BY <1>27, <1>0 DEF Continue, Input
<1>28. CASE TaskStop
  BY <1>28, <1>0 DEF TaskStop
<1>29. CASE Evict
  <2>1. PICK s \in Sessions :
            /\ IdleTree(s) /\ Quiesce(Tree(s)) /\ reserved' = reserved \cup Tree(s)
    BY <1>29, <1>0, EvictFacts
  <2>2. UNCHANGED <<gen, task, cont>> BY <1>29 DEF Evict
  <2>3. \A t \in Tree(s) : ~Active(t) /\ t \in Sessions
    BY <2>1 DEF IdleTree, IdleAlone, Tree
  <2>4. Parent \in Tree(s) => ~Alive /\ cont = "none"
    BY <2>1, <2>3, <1>0 DEF IdleTree, Tree, Tied
  <2>5. \A t \in reserved' : life'[t] = "quiescing" BY <2>1, <2>3, <1>0 DEF Quiesce
  <2> QED BY <2>1, <2>2, <2>3, <2>4, <2>5, <1>0
<1>30. CASE Evicted
  BY <1>30, <1>0 DEF Evicted
<1>31. CASE PruneEnds
  BY <1>31, <1>0 DEF PruneEnds, Holds
<1>32. CASE PrunerStarts
  BY <1>32, <1>0 DEF PrunerStarts
<1>33. CASE EndsEarly
  BY <1>33, <1>0 DEF EndsEarly, WorkerDone
<1>34. CASE Starts
  BY <1>34, <1>0 DEF Starts
<1>35. CASE Registers
  BY <1>35, <1>0 DEF Registers, Tied
<1>36. CASE Drives
  BY <1>36, <1>0 DEF Drives, CanRun
<1>37. CASE SetupCancelled
  BY <1>37, <1>0 DEF SetupCancelled
<1>38. CASE DriveCancelled
  BY <1>38, <1>0 DEF DriveCancelled, Cancelled, Left
<1>39. CASE Driven
  BY <1>39, <1>0 DEF Driven
<1>40. CASE StopHookEnds
  BY <1>40, <1>0 DEF StopHookEnds, WorkerDone
<1>41. CASE Reports
  BY <1>41, <1>0 DEF Reports, WorkerDone
<1>42. CASE ContinueDrives
  BY <1>42, <1>0 DEF ContinueDrives, CanRun
<1>43. CASE ContinueDriven
  BY <1>43, <1>0 DEF ContinueDriven
<1>44. CASE ContinueEnds
  BY <1>44, <1>0 DEF ContinueEnds
<1>45. CASE HostCloseAgent
  BY <1>45, <1>0 DEF HostCloseAgent
<1>46. CASE PrunerAwaited
  BY <1>46, <1>0 DEF PrunerAwaited
<1>47. CASE Snapshot
  BY <1>47, <1>0 DEF Snapshot, Holds
<1>48. CASE CloseNext
  BY <1>48, <1>0 DEF CloseNext, Quiesce, Begun
<1>49. CASE AllClosed
  BY <1>49, <1>0 DEF AllClosed
<1>50. CASE CloseRaises
  BY <1>50, <1>0 DEF CloseRaises
<1>51. CASE ReleaseResource
  BY <1>51, <1>0 DEF ReleaseResource
<1>52. CASE ResourceFails
  BY <1>52, <1>0 DEF ResourceFails, Input
<1>53. CASE UNCHANGED vars BY <1>53, <1>0
<1> QED
  BY <1>1, <1>2, <1>3, <1>4, <1>5, <1>6, <1>7, <1>8, <1>9, <1>10, <1>11, <1>12, <1>13,
     <1>14, <1>15, <1>16, <1>17, <1>18, <1>19, <1>20, <1>21, <1>22, <1>23, <1>24, <1>25,
     <1>26, <1>27, <1>28, <1>29, <1>30, <1>31, <1>32, <1>33, <1>34, <1>35, <1>36, <1>37,
     <1>38, <1>39, <1>40, <1>41, <1>42, <1>43, <1>44, <1>45, <1>46, <1>47, <1>48, <1>49,
     <1>50, <1>51, <1>52, <1>53
  DEF Next, HostStep, OpenStep, RunStep, CloserStep, PruneStep, WorkerStep, ContinueStep, CloseStep

(* What the parent owns. *)
LEMMA TiedStep == IInv /\ [Next]_vars => Tied'
<1> SUFFICES ASSUME IInv, [Next]_vars PROVE Tied' OBVIOUS
<1>0. Fields /\ Queues /\ CreatesAlone /\ Tied /\ Unwinding /\ ClosingAll BY TypeParts DEF IInv
<1> USE DEF Tied, Fields, Sessions, Alive, Active, vars, closing, pruning, locking, runs, worker, history
<1>1. ASSUME NEW s \in Roots, HostOpen(s) PROVE Tied'
  BY <1>1, <1>0 DEF HostOpen, Input
<1>2. ASSUME NEW s \in Roots, HostRun(s) PROVE Tied'
  BY <1>2, <1>0 DEF HostRun, Input, CanRun
<1>3. ASSUME NEW s \in Roots, Start(s) PROVE Tied'
  BY <1>3, <1>0 DEF Start
<1>4. ASSUME NEW s \in Roots, Yield(s) PROVE Tied'
  BY <1>4, <1>0 DEF Yield
<1>5. ASSUME NEW s \in Roots, Advance(s) PROVE Tied'
  BY <1>5, <1>0 DEF Advance
<1>6. ASSUME NEW s \in Roots, CloseStream(s) PROVE Tied'
  BY <1>6, <1>0 DEF CloseStream
<1>7. ASSUME NEW s \in Roots, HostCancel(s) PROVE Tied'
  BY <1>7, <1>0 DEF HostCancel, Input, Cancelled, Left
<1>8. ASSUME NEW s \in Roots, Reattach(s) PROVE Tied'
  BY <1>8, <1>0 DEF Reattach, Touched, Holds
<1>9. ASSUME NEW s \in Roots, Create(s) PROVE Tied'
  BY <1>9, <1>0 DEF Create, Holds
<1>10. ASSUME NEW s \in Roots, Publish(s) PROVE Tied'
  BY <1>10, <1>0, LockFacts, ClientTypes, ClientsApart, HolderFacts DEF Publish, Holds,
     CreatesAlone
<1>11. ASSUME NEW s \in Sessions, EndRun(s) PROVE Tied'
  BY <1>11, <1>0 DEF EndRun
<1>12. ASSUME NEW s \in Sessions, Finish(s) PROVE Tied'
  BY <1>12, <1>0 DEF Finish, Touched
<1>13. ASSUME NEW s \in Sessions, FinishCancelled(s) PROVE Tied'
  BY <1>13, <1>0 DEF FinishCancelled
<1>14. ASSUME NEW s \in Sessions, Cleaned(s) PROVE Tied'
  BY <1>14, <1>0 DEF Cleaned, Cleaning
<1>15. ASSUME NEW s \in Sessions, Closing(s) PROVE Tied'
  BY <1>15, <1>0 DEF Closing, CancelsWork
<1>16. ASSUME NEW s \in Sessions, Finalize(s) PROVE Tied'
  BY <1>16, <1>0 DEF Finalize, Drains, CancelsWork
<1>17. ASSUME NEW s \in Sessions, Awaited(s) PROVE Tied'
  BY <1>17, <1>0 DEF Awaited, Drains, CancelsWork, Unwound
<1>18. ASSUME NEW s \in Sessions, StreamClosed(s) PROVE Tied'
  BY <1>18, <1>0 DEF StreamClosed, CancelsWork
<1>19. ASSUME NEW s \in Sessions, Closed(s) PROVE Tied'
  BY <1>19, <1>0 DEF Closed, Drained, Unwinding
<1>20. ASSUME NEW s \in Sessions, CleaningFails(s) PROVE Tied'
  BY <1>20, <1>0 DEF CleaningFails, Input, Fails, Cleaning
<1>21. ASSUME NEW s \in Sessions, ReleaseFails(s) PROVE Tied'
  BY <1>21, <1>0 DEF ReleaseFails, Input, Fails, Drained
<1>22. ASSUME NEW s \in Sessions, NEW force \in BOOLEAN, HostClose(s, force) PROVE Tied'
  BY <1>22, <1>0 DEF HostClose, Input, Quiesce
<1>23. CASE ReleaseChild
  BY <1>23, <1>0 DEF ReleaseChild, Quiesce, Begun
<1>24. CASE DrainNotes
  BY <1>24, <1>0 DEF DrainNotes
<1>25. CASE Abort
  BY <1>25, <1>0 DEF Abort, Input
<1>26. CASE Spawn
  BY <1>26, <1>0 DEF Spawn, Input, Unwinding, Aborting
<1>27. CASE Continue
  BY <1>27, <1>0 DEF Continue, Input, Unwinding, Aborting
<1>28. CASE TaskStop
  BY <1>28, <1>0 DEF TaskStop
<1>29. CASE Evict
  BY <1>29, <1>0 DEF Evict, Quiesce, Tree, Begun, Candidates, IdleTree, IdleAlone
<1>30. CASE Evicted
  BY <1>30, <1>0 DEF Evicted
<1>31. CASE PruneEnds
  BY <1>31, <1>0 DEF PruneEnds, Holds
<1>32. CASE PrunerStarts
  BY <1>32, <1>0 DEF PrunerStarts
<1>33. CASE EndsEarly
  BY <1>33, <1>0 DEF EndsEarly, WorkerDone
<1>34. CASE Starts
  BY <1>34, <1>0 DEF Starts
<1>35. CASE Registers
  BY <1>35, <1>0 DEF Registers
<1>36. CASE Drives
  BY <1>36, <1>0 DEF Drives, CanRun
<1>37. CASE SetupCancelled
  BY <1>37, <1>0 DEF SetupCancelled
<1>38. CASE DriveCancelled
  BY <1>38, <1>0 DEF DriveCancelled, Cancelled, Left
<1>39. CASE Driven
  BY <1>39, <1>0 DEF Driven
<1>40. CASE StopHookEnds
  BY <1>40, <1>0 DEF StopHookEnds, WorkerDone
<1>41. CASE Reports
  BY <1>41, <1>0 DEF Reports, WorkerDone
<1>42. CASE ContinueDrives
  BY <1>42, <1>0 DEF ContinueDrives, CanRun
<1>43. CASE ContinueDriven
  BY <1>43, <1>0 DEF ContinueDriven
<1>44. CASE ContinueEnds
  BY <1>44, <1>0 DEF ContinueEnds
<1>45. CASE HostCloseAgent
  BY <1>45, <1>0 DEF HostCloseAgent
<1>46. CASE PrunerAwaited
  BY <1>46, <1>0 DEF PrunerAwaited
<1>47. CASE Snapshot
  BY <1>47, <1>0 DEF Snapshot, Holds
<1>48. CASE CloseNext
  BY <1>48, <1>0 DEF CloseNext, Quiesce, Begun
<1>49. CASE AllClosed
  BY <1>49, <1>0 DEF AllClosed
<1>50. CASE CloseRaises
  BY <1>50, <1>0 DEF CloseRaises
<1>51. CASE ReleaseResource
  BY <1>51, <1>0 DEF ReleaseResource
<1>52. CASE ResourceFails
  BY <1>52, <1>0 DEF ResourceFails, Input
<1>53. CASE UNCHANGED vars BY <1>53, <1>0
<1> QED
  BY <1>1, <1>2, <1>3, <1>4, <1>5, <1>6, <1>7, <1>8, <1>9, <1>10, <1>11, <1>12, <1>13,
     <1>14, <1>15, <1>16, <1>17, <1>18, <1>19, <1>20, <1>21, <1>22, <1>23, <1>24, <1>25,
     <1>26, <1>27, <1>28, <1>29, <1>30, <1>31, <1>32, <1>33, <1>34, <1>35, <1>36, <1>37,
     <1>38, <1>39, <1>40, <1>41, <1>42, <1>43, <1>44, <1>45, <1>46, <1>47, <1>48, <1>49,
     <1>50, <1>51, <1>52, <1>53
  DEF Next, HostStep, OpenStep, RunStep, CloserStep, PruneStep, WorkerStep, ContinueStep, CloseStep

(* A close and the run. *)
LEMMA UnwindingStep == IInv /\ [Next]_vars => Unwinding'
<1> SUFFICES ASSUME IInv, [Next]_vars PROVE Unwinding' OBVIOUS
<1>0. Fields /\ Queues /\ CreatesAlone /\ Tied /\ Unwinding /\ ClosingAll BY TypeParts DEF IInv
<1> USE DEF Unwinding, Fields, Sessions, Active, Alive, vars, closing, pruning, locking, runs, worker, history
<1>1. ASSUME NEW s \in Roots, HostOpen(s) PROVE Unwinding'
  BY <1>1, <1>0 DEF HostOpen, Input
<1>2. ASSUME NEW s \in Roots, HostRun(s) PROVE Unwinding'
  BY <1>2, <1>0 DEF HostRun, Input, CanRun
<1>3. ASSUME NEW s \in Roots, Start(s) PROVE Unwinding'
  BY <1>3, <1>0 DEF Start
<1>4. ASSUME NEW s \in Roots, Yield(s) PROVE Unwinding'
  BY <1>4, <1>0 DEF Yield
<1>5. ASSUME NEW s \in Roots, Advance(s) PROVE Unwinding'
  BY <1>5, <1>0 DEF Advance
<1>6. ASSUME NEW s \in Roots, CloseStream(s) PROVE Unwinding'
  BY <1>6, <1>0 DEF CloseStream
<1>7. ASSUME NEW s \in Roots, HostCancel(s) PROVE Unwinding'
  BY <1>7, <1>0 DEF HostCancel, Input, Cancelled, Left
<1>8. ASSUME NEW s \in Roots, Reattach(s) PROVE Unwinding'
  BY <1>8, <1>0 DEF Reattach, Touched, Holds
<1>9. ASSUME NEW s \in Roots, Create(s) PROVE Unwinding'
  BY <1>9, <1>0 DEF Create, Holds
<1>10. ASSUME NEW s \in Roots, Publish(s) PROVE Unwinding'
  <2>1. life[s] = "closed" BY <1>10, <1>0, HolderFacts DEF Publish
  <2>2. ~Active(s) /\ closer[s] = "none" BY <2>1, <1>0
  <2> QED BY <2>1, <2>2, <1>10, <1>0 DEF Publish
<1>11. ASSUME NEW s \in Sessions, EndRun(s) PROVE Unwinding'
  BY <1>11, <1>0 DEF EndRun
<1>12. ASSUME NEW s \in Sessions, Finish(s) PROVE Unwinding'
  BY <1>12, <1>0 DEF Finish, Touched
<1>13. ASSUME NEW s \in Sessions, FinishCancelled(s) PROVE Unwinding'
  BY <1>13, <1>0 DEF FinishCancelled
<1>14. ASSUME NEW s \in Sessions, Cleaned(s) PROVE Unwinding'
  BY <1>14, <1>0 DEF Cleaned, Cleaning
<1>15. ASSUME NEW s \in Sessions, Closing(s) PROVE Unwinding'
  BY <1>15, <1>0 DEF Closing, CancelsWork
<1>16. ASSUME NEW s \in Sessions, Finalize(s) PROVE Unwinding'
  BY <1>16, <1>0 DEF Finalize, Drains, CancelsWork
<1>17. ASSUME NEW s \in Sessions, Awaited(s) PROVE Unwinding'
  BY <1>17, <1>0 DEF Awaited, Drains, CancelsWork, Unwound
<1>18. ASSUME NEW s \in Sessions, StreamClosed(s) PROVE Unwinding'
  BY <1>18, <1>0 DEF StreamClosed, CancelsWork
<1>19. ASSUME NEW s \in Sessions, Closed(s) PROVE Unwinding'
  BY <1>19, <1>0 DEF Closed, Drained
<1>20. ASSUME NEW s \in Sessions, CleaningFails(s) PROVE Unwinding'
  BY <1>20, <1>0 DEF CleaningFails, Input, Fails, Cleaning
<1>21. ASSUME NEW s \in Sessions, ReleaseFails(s) PROVE Unwinding'
  BY <1>21, <1>0 DEF ReleaseFails, Input, Fails, Drained
<1>22. ASSUME NEW s \in Sessions, NEW force \in BOOLEAN, HostClose(s, force) PROVE Unwinding'
  BY <1>22, <1>0 DEF HostClose, Input, Quiesce
<1>23. CASE ReleaseChild
  BY <1>23, <1>0 DEF ReleaseChild, Quiesce, Begun
<1>24. CASE DrainNotes
  BY <1>24, <1>0 DEF DrainNotes
<1>25. CASE Abort
  BY <1>25, <1>0 DEF Abort, Input
<1>26. CASE Spawn
  BY <1>26, <1>0 DEF Spawn, Input
<1>27. CASE Continue
  BY <1>27, <1>0 DEF Continue, Input
<1>28. CASE TaskStop
  BY <1>28, <1>0 DEF TaskStop
<1>29. CASE Evict
  <2>1. PICK s \in Sessions :
            /\ IdleTree(s) /\ Quiesce(Tree(s)) /\ reserved' = reserved \cup Tree(s)
            /\ closer' = [closer EXCEPT ![s] = Begun(s)]
    BY <1>29, <1>0, EvictFacts
  <2> QED BY <2>1, <1>29, <1>0, HolderFacts DEF Evict, Quiesce, Tree, Begun, IdleTree, IdleAlone
<1>30. CASE Evicted
  BY <1>30, <1>0 DEF Evicted
<1>31. CASE PruneEnds
  BY <1>31, <1>0 DEF PruneEnds, Holds
<1>32. CASE PrunerStarts
  BY <1>32, <1>0 DEF PrunerStarts
<1>33. CASE EndsEarly
  BY <1>33, <1>0 DEF EndsEarly, WorkerDone
<1>34. CASE Starts
  BY <1>34, <1>0 DEF Starts
<1>35. CASE Registers
  BY <1>35, <1>0 DEF Registers, Tied
<1>36. CASE Drives
  BY <1>36, <1>0 DEF Drives, CanRun
<1>37. CASE SetupCancelled
  BY <1>37, <1>0 DEF SetupCancelled
<1>38. CASE DriveCancelled
  BY <1>38, <1>0 DEF DriveCancelled, Cancelled, Left
<1>39. CASE Driven
  BY <1>39, <1>0 DEF Driven
<1>40. CASE StopHookEnds
  BY <1>40, <1>0 DEF StopHookEnds, WorkerDone
<1>41. CASE Reports
  BY <1>41, <1>0 DEF Reports, WorkerDone
<1>42. CASE ContinueDrives
  BY <1>42, <1>0 DEF ContinueDrives, CanRun
<1>43. CASE ContinueDriven
  BY <1>43, <1>0 DEF ContinueDriven
<1>44. CASE ContinueEnds
  BY <1>44, <1>0 DEF ContinueEnds
<1>45. CASE HostCloseAgent
  BY <1>45, <1>0 DEF HostCloseAgent
<1>46. CASE PrunerAwaited
  BY <1>46, <1>0 DEF PrunerAwaited
<1>47. CASE Snapshot
  BY <1>47, <1>0 DEF Snapshot, Holds
<1>48. CASE CloseNext
  BY <1>48, <1>0 DEF CloseNext, Quiesce, Begun
<1>49. CASE AllClosed
  BY <1>49, <1>0 DEF AllClosed
<1>50. CASE CloseRaises
  BY <1>50, <1>0 DEF CloseRaises
<1>51. CASE ReleaseResource
  BY <1>51, <1>0 DEF ReleaseResource
<1>52. CASE ResourceFails
  BY <1>52, <1>0 DEF ResourceFails, Input
<1>53. CASE UNCHANGED vars BY <1>53, <1>0
<1> QED
  BY <1>1, <1>2, <1>3, <1>4, <1>5, <1>6, <1>7, <1>8, <1>9, <1>10, <1>11, <1>12, <1>13,
     <1>14, <1>15, <1>16, <1>17, <1>18, <1>19, <1>20, <1>21, <1>22, <1>23, <1>24, <1>25,
     <1>26, <1>27, <1>28, <1>29, <1>30, <1>31, <1>32, <1>33, <1>34, <1>35, <1>36, <1>37,
     <1>38, <1>39, <1>40, <1>41, <1>42, <1>43, <1>44, <1>45, <1>46, <1>47, <1>48, <1>49,
     <1>50, <1>51, <1>52, <1>53
  DEF Next, HostStep, OpenStep, RunStep, CloserStep, PruneStep, WorkerStep, ContinueStep, CloseStep

(* Live sessions. *)
LEMMA RegisteredStep == IInv /\ [Next]_vars => Registered'
<1> SUFFICES ASSUME IInv, [Next]_vars PROVE Registered' OBVIOUS
<1>0. Fields /\ Queues /\ Tied /\ Registered /\ ClosingAll BY TypeParts DEF IInv
<1> USE DEF Registered, Fields, Sessions, vars, closing, pruning, locking, runs, worker, history
<1>1. ASSUME NEW s \in Roots, HostOpen(s) PROVE Registered'
  BY <1>1, <1>0 DEF HostOpen, Input
<1>2. ASSUME NEW s \in Roots, HostRun(s) PROVE Registered'
  BY <1>2, <1>0 DEF HostRun, Input, CanRun
<1>3. ASSUME NEW s \in Roots, Start(s) PROVE Registered'
  BY <1>3, <1>0 DEF Start
<1>4. ASSUME NEW s \in Roots, Yield(s) PROVE Registered'
  BY <1>4, <1>0 DEF Yield
<1>5. ASSUME NEW s \in Roots, Advance(s) PROVE Registered'
  BY <1>5, <1>0 DEF Advance
<1>6. ASSUME NEW s \in Roots, CloseStream(s) PROVE Registered'
  BY <1>6, <1>0 DEF CloseStream
<1>7. ASSUME NEW s \in Roots, HostCancel(s) PROVE Registered'
  BY <1>7, <1>0 DEF HostCancel, Input, Cancelled, Left
<1>8. ASSUME NEW s \in Roots, Reattach(s) PROVE Registered'
  BY <1>8, <1>0, OrderFacts DEF Reattach, Touched, Holds
<1>9. ASSUME NEW s \in Roots, Create(s) PROVE Registered'
  BY <1>9, <1>0 DEF Create, Holds
<1>10. ASSUME NEW s \in Roots, Publish(s) PROVE Registered'
  <2>0. s \in Sessions /\ ToSet(Append(order, s)) = ToSet(order) \cup {s}
    BY <1>0, OrderFacts
  <2>1. ToSet(order) \subseteq ToSet(order') BY <1>10, <2>0 DEF Publish
  <2>2. life' # life => s \in ToSet(order') BY <1>10, <2>0 DEF Publish
  <2>3. \A t \in Sessions \ {s} : life'[t] = life[t] BY <1>10, <1>0 DEF Publish
  <2>4. life'[s] = life[s] \/ life' # life OBVIOUS
  <2> QED BY <2>1, <2>2, <2>3, <2>4, <1>0
<1>11. ASSUME NEW s \in Sessions, EndRun(s) PROVE Registered'
  BY <1>11, <1>0 DEF EndRun
<1>12. ASSUME NEW s \in Sessions, Finish(s) PROVE Registered'
  BY <1>12, <1>0, OrderFacts DEF Finish, Touched
<1>13. ASSUME NEW s \in Sessions, FinishCancelled(s) PROVE Registered'
  BY <1>13, <1>0 DEF FinishCancelled
<1>14. ASSUME NEW s \in Sessions, Cleaned(s) PROVE Registered'
  BY <1>14, <1>0 DEF Cleaned, Cleaning
<1>15. ASSUME NEW s \in Sessions, Closing(s) PROVE Registered'
  BY <1>15, <1>0 DEF Closing, CancelsWork
<1>16. ASSUME NEW s \in Sessions, Finalize(s) PROVE Registered'
  BY <1>16, <1>0 DEF Finalize, Drains, CancelsWork
<1>17. ASSUME NEW s \in Sessions, Awaited(s) PROVE Registered'
  BY <1>17, <1>0 DEF Awaited, Drains, CancelsWork, Unwound
<1>18. ASSUME NEW s \in Sessions, StreamClosed(s) PROVE Registered'
  BY <1>18, <1>0 DEF StreamClosed, CancelsWork
<1>19. ASSUME NEW s \in Sessions, Closed(s) PROVE Registered'
  BY <1>19, <1>0, OrderFacts DEF Closed, Drained
<1>20. ASSUME NEW s \in Sessions, CleaningFails(s) PROVE Registered'
  BY <1>20, <1>0 DEF CleaningFails, Input, Fails, Cleaning
<1>21. ASSUME NEW s \in Sessions, ReleaseFails(s) PROVE Registered'
  BY <1>21, <1>0 DEF ReleaseFails, Input, Fails, Drained
<1>22. ASSUME NEW s \in Sessions, NEW force \in BOOLEAN, HostClose(s, force) PROVE Registered'
  BY <1>22, <1>0 DEF HostClose, Input, Quiesce
<1>23. CASE ReleaseChild
  BY <1>23, <1>0 DEF ReleaseChild, Quiesce, Begun
<1>24. CASE DrainNotes
  BY <1>24, <1>0 DEF DrainNotes
<1>25. CASE Abort
  BY <1>25, <1>0 DEF Abort, Input
<1>26. CASE Spawn
  BY <1>26, <1>0 DEF Spawn, Input
<1>27. CASE Continue
  BY <1>27, <1>0 DEF Continue, Input
<1>28. CASE TaskStop
  BY <1>28, <1>0 DEF TaskStop
<1>29. CASE Evict
  <2>1. PICK s \in Sessions : s \in ToSet(order) /\ Quiesce(Tree(s)) BY <1>29, <1>0, EvictFacts
  <2> QED BY <2>1, <1>29, <1>0 DEF Evict, Quiesce, Tree
<1>30. CASE Evicted
  BY <1>30, <1>0 DEF Evicted
<1>31. CASE PruneEnds
  BY <1>31, <1>0 DEF PruneEnds, Holds
<1>32. CASE PrunerStarts
  BY <1>32, <1>0 DEF PrunerStarts
<1>33. CASE EndsEarly
  BY <1>33, <1>0 DEF EndsEarly, WorkerDone
<1>34. CASE Starts
  BY <1>34, <1>0 DEF Starts
<1>35. CASE Registers
  BY <1>35, <1>0, OrderFacts DEF Registers
<1>36. CASE Drives
  BY <1>36, <1>0 DEF Drives, CanRun
<1>37. CASE SetupCancelled
  BY <1>37, <1>0 DEF SetupCancelled
<1>38. CASE DriveCancelled
  BY <1>38, <1>0 DEF DriveCancelled, Cancelled, Left
<1>39. CASE Driven
  BY <1>39, <1>0 DEF Driven
<1>40. CASE StopHookEnds
  BY <1>40, <1>0 DEF StopHookEnds, WorkerDone
<1>41. CASE Reports
  BY <1>41, <1>0 DEF Reports, WorkerDone
<1>42. CASE ContinueDrives
  BY <1>42, <1>0 DEF ContinueDrives, CanRun
<1>43. CASE ContinueDriven
  BY <1>43, <1>0 DEF ContinueDriven
<1>44. CASE ContinueEnds
  BY <1>44, <1>0 DEF ContinueEnds
<1>45. CASE HostCloseAgent
  BY <1>45, <1>0 DEF HostCloseAgent
<1>46. CASE PrunerAwaited
  BY <1>46, <1>0 DEF PrunerAwaited
<1>47. CASE Snapshot
  BY <1>47, <1>0 DEF Snapshot, Holds
<1>48. CASE CloseNext
  BY <1>48, <1>0 DEF CloseNext, Quiesce, Begun
<1>49. CASE AllClosed
  BY <1>49, <1>0, AllClosedFacts DEF AllClosed
<1>50. CASE CloseRaises
  BY <1>50, <1>0 DEF CloseRaises
<1>51. CASE ReleaseResource
  BY <1>51, <1>0 DEF ReleaseResource
<1>52. CASE ResourceFails
  BY <1>52, <1>0 DEF ResourceFails, Input
<1>53. CASE UNCHANGED vars BY <1>53, <1>0
<1> QED
  BY <1>1, <1>2, <1>3, <1>4, <1>5, <1>6, <1>7, <1>8, <1>9, <1>10, <1>11, <1>12, <1>13,
     <1>14, <1>15, <1>16, <1>17, <1>18, <1>19, <1>20, <1>21, <1>22, <1>23, <1>24, <1>25,
     <1>26, <1>27, <1>28, <1>29, <1>30, <1>31, <1>32, <1>33, <1>34, <1>35, <1>36, <1>37,
     <1>38, <1>39, <1>40, <1>41, <1>42, <1>43, <1>44, <1>45, <1>46, <1>47, <1>48, <1>49,
     <1>50, <1>51, <1>52, <1>53
  DEF Next, HostStep, OpenStep, RunStep, CloserStep, PruneStep, WorkerStep, ContinueStep, CloseStep

(* The close of the agent. *)
LEMMA ClosingAllStep == IInv /\ [Next]_vars => ClosingAll'
<1> SUFFICES ASSUME IInv, [Next]_vars PROVE ClosingAll' OBVIOUS
<1>0. Fields /\ Queues /\ CreatesAlone /\ Tied /\ Unwinding /\ Registered /\ ClosingAll
  BY TypeParts DEF IInv
<1> USE DEF ClosingAll, Fields, Sessions, Holds, vars, closing, pruning, locking, runs, worker, history
<1>1. ASSUME NEW s \in Roots, HostOpen(s) PROVE ClosingAll'
  BY <1>1, <1>0, LockFacts, ClientTypes, ClientsApart DEF HostOpen, Input
<1>2. ASSUME NEW s \in Roots, HostRun(s) PROVE ClosingAll'
  BY <1>2, <1>0 DEF HostRun, Input, CanRun
<1>3. ASSUME NEW s \in Roots, Start(s) PROVE ClosingAll'
  BY <1>3, <1>0 DEF Start
<1>4. ASSUME NEW s \in Roots, Yield(s) PROVE ClosingAll'
  BY <1>4, <1>0 DEF Yield
<1>5. ASSUME NEW s \in Roots, Advance(s) PROVE ClosingAll'
  BY <1>5, <1>0 DEF Advance
<1>6. ASSUME NEW s \in Roots, CloseStream(s) PROVE ClosingAll'
  BY <1>6, <1>0 DEF CloseStream
<1>7. ASSUME NEW s \in Roots, HostCancel(s) PROVE ClosingAll'
  BY <1>7, <1>0, LockFacts, ClientTypes, ClientsApart DEF HostCancel, Input, Cancelled, Left
<1>8. ASSUME NEW s \in Roots, Reattach(s) PROVE ClosingAll'
  BY <1>8, <1>0, LockFacts, ClientTypes, ClientsApart DEF Reattach, Touched, Holds
<1>9. ASSUME NEW s \in Roots, Create(s) PROVE ClosingAll'
  BY <1>9, <1>0, LockFacts, ClientTypes, ClientsApart DEF Create, Holds
<1>10. ASSUME NEW s \in Roots, Publish(s) PROVE ClosingAll'
  BY <1>10, <1>0, LockFacts, ClientTypes, ClientsApart, HolderFacts DEF Publish, Holds,
     CreatesAlone
<1>11. ASSUME NEW s \in Sessions, EndRun(s) PROVE ClosingAll'
  BY <1>11, <1>0 DEF EndRun
<1>12. ASSUME NEW s \in Sessions, Finish(s) PROVE ClosingAll'
  BY <1>12, <1>0, LockFacts, ClientTypes, ClientsApart DEF Finish, Touched
<1>13. ASSUME NEW s \in Sessions, FinishCancelled(s) PROVE ClosingAll'
  BY <1>13, <1>0 DEF FinishCancelled
<1>14. ASSUME NEW s \in Sessions, Cleaned(s) PROVE ClosingAll'
  BY <1>14, <1>0 DEF Cleaned, Cleaning
<1>15. ASSUME NEW s \in Sessions, Closing(s) PROVE ClosingAll'
  BY <1>15, <1>0 DEF Closing, CancelsWork
<1>16. ASSUME NEW s \in Sessions, Finalize(s) PROVE ClosingAll'
  BY <1>16, <1>0 DEF Finalize, Drains, CancelsWork
<1>17. ASSUME NEW s \in Sessions, Awaited(s) PROVE ClosingAll'
  BY <1>17, <1>0 DEF Awaited, Drains, CancelsWork, Unwound
<1>18. ASSUME NEW s \in Sessions, StreamClosed(s) PROVE ClosingAll'
  BY <1>18, <1>0 DEF StreamClosed, CancelsWork
<1>19. ASSUME NEW s \in Sessions, Closed(s) PROVE ClosingAll'
  BY <1>19, <1>0 DEF Closed, Drained
<1>20. ASSUME NEW s \in Sessions, CleaningFails(s) PROVE ClosingAll'
  BY <1>20, <1>0 DEF CleaningFails, Input, Fails, Cleaning
<1>21. ASSUME NEW s \in Sessions, ReleaseFails(s) PROVE ClosingAll'
  BY <1>21, <1>0 DEF ReleaseFails, Input, Fails, Drained
<1>22. ASSUME NEW s \in Sessions, NEW force \in BOOLEAN, HostClose(s, force) PROVE ClosingAll'
  BY <1>22, <1>0 DEF HostClose, Input, Quiesce
<1>23. CASE ReleaseChild
  BY <1>23, <1>0 DEF ReleaseChild, Quiesce, Begun
<1>24. CASE DrainNotes
  BY <1>24, <1>0 DEF DrainNotes
<1>25. CASE Abort
  BY <1>25, <1>0 DEF Abort, Input
<1>26. CASE Spawn
  BY <1>26, <1>0 DEF Spawn, Input
<1>27. CASE Continue
  BY <1>27, <1>0 DEF Continue, Input
<1>28. CASE TaskStop
  BY <1>28, <1>0 DEF TaskStop
<1>29. CASE Evict
  BY <1>29, <1>0, LockFacts, ClientTypes, ClientsApart, HolderFacts DEF Evict, Quiesce, Tree,
     Begun, Holds, HoldsToPrune, Candidates, IdleTree, IdleAlone
<1>30. CASE Evicted
  BY <1>30, <1>0 DEF Evicted, HoldsToPrune, Holds
<1>31. CASE PruneEnds
  BY <1>31, <1>0, LockFacts, ClientTypes, ClientsApart, HolderFacts DEF PruneEnds, Holds,
     HoldsToPrune, Holds
<1>32. CASE PrunerStarts
  BY <1>32, <1>0, LockFacts, ClientTypes, ClientsApart DEF PrunerStarts
<1>33. CASE EndsEarly
  BY <1>33, <1>0 DEF EndsEarly, WorkerDone
<1>34. CASE Starts
  BY <1>34, <1>0 DEF Starts
<1>35. CASE Registers
  BY <1>35, <1>0 DEF Registers, Tied, Alive
<1>36. CASE Drives
  BY <1>36, <1>0 DEF Drives, CanRun
<1>37. CASE SetupCancelled
  BY <1>37, <1>0 DEF SetupCancelled
<1>38. CASE DriveCancelled
  BY <1>38, <1>0, LockFacts, ClientTypes, ClientsApart DEF DriveCancelled, Cancelled, Left
<1>39. CASE Driven
  BY <1>39, <1>0 DEF Driven
<1>40. CASE StopHookEnds
  BY <1>40, <1>0 DEF StopHookEnds, WorkerDone
<1>41. CASE Reports
  BY <1>41, <1>0 DEF Reports, WorkerDone
<1>42. CASE ContinueDrives
  BY <1>42, <1>0 DEF ContinueDrives, CanRun
<1>43. CASE ContinueDriven
  BY <1>43, <1>0 DEF ContinueDriven
<1>44. CASE ContinueEnds
  BY <1>44, <1>0 DEF ContinueEnds
<1>45. CASE HostCloseAgent
  BY <1>45, <1>0 DEF HostCloseAgent
<1>46. CASE PrunerAwaited
  BY <1>46, <1>0, LockFacts, ClientTypes, ClientsApart DEF PrunerAwaited
<1>47. CASE Snapshot
  BY <1>47, <1>0, LockFacts, ClientTypes, ClientsApart, HolderFacts DEF Snapshot, Holds,
     Registered, CreatesAlone
<1>48. CASE CloseNext
  <2>1. \A s \in Sessions : life'[s] # "closed" => life[s] # "closed"
    BY <1>48, <1>0, TodoFacts DEF CloseNext, Quiesce
  <2>2. \A s \in Roots : life[s] # "closed" => s \in ToSet(todo')
    BY <1>48, <1>0, TodoFacts DEF CloseNext
  <2> QED BY <2>1, <2>2, <1>48, <1>0 DEF CloseNext
<1>49. CASE AllClosed
  BY <1>49, <1>0, LockFacts, ClientTypes, ClientsApart, HolderFacts, AllClosedFacts
     DEF AllClosed, CreatesAlone, Tied
<1>50. CASE CloseRaises
  BY <1>50, <1>0, LockFacts, ClientTypes, ClientsApart, HolderFacts DEF CloseRaises
<1>51. CASE ReleaseResource
  BY <1>51, <1>0 DEF ReleaseResource
<1>52. CASE ResourceFails
  BY <1>52, <1>0 DEF ResourceFails, Input
<1>53. CASE UNCHANGED vars BY <1>53, <1>0
<1> QED
  BY <1>1, <1>2, <1>3, <1>4, <1>5, <1>6, <1>7, <1>8, <1>9, <1>10, <1>11, <1>12, <1>13,
     <1>14, <1>15, <1>16, <1>17, <1>18, <1>19, <1>20, <1>21, <1>22, <1>23, <1>24, <1>25,
     <1>26, <1>27, <1>28, <1>29, <1>30, <1>31, <1>32, <1>33, <1>34, <1>35, <1>36, <1>37,
     <1>38, <1>39, <1>40, <1>41, <1>42, <1>43, <1>44, <1>45, <1>46, <1>47, <1>48, <1>49,
     <1>50, <1>51, <1>52, <1>53
  DEF Next, HostStep, OpenStep, RunStep, CloserStep, PruneStep, WorkerStep, ContinueStep, CloseStep

-----------------------------------------------------------------------------
(* The idle cache.                                                           *)

(* A step that adds no candidate and hides no work that is not watched, or   *)
(* after which a scan is due.                                                *)
Eased ==
    (agent' = "open" /\ ~excess' /\ ~Due') =>
        /\ agent = "open" /\ ~excess /\ ~Due
        /\ Candidates' \subseteq Candidates
        /\ Watches' /\ (Watches => watched) => watched'

LEMMA CandidatesFinite ==
    ASSUME Queues
    PROVE  Candidates \subseteq Sessions /\ IsFiniteSet(Candidates) /\ Cardinality(Candidates) \in Nat
<1>1. IsFiniteSet(Sessions) BY FS_AddElement DEF Sessions
<1>2. Candidates \subseteq Sessions
  <2>1. order \in Seq(Sessions) BY DEF Queues
  <2>2. ToSet(order) \subseteq Sessions BY <2>1 DEF ToSet
  <2> QED BY <2>2 DEF Candidates
<1> QED BY <1>1, <1>2, FS_Subset, FS_CardinalityType

LEMMA EasedKeeps ==
    ASSUME Queues, Queues', bound \in Nat, bound' = bound, Scanned, Eased
    PROVE  Scanned'
<1> SUFFICES ASSUME agent' = "open" /\ ~excess' /\ ~Due'
             PROVE  Cardinality(Candidates') <= bound' /\ (Watches' => watched')
  BY DEF Scanned
<1>1. /\ agent = "open" /\ ~excess /\ ~Due /\ Candidates' \subseteq Candidates
      /\ Watches' /\ (Watches => watched) => watched'
  BY DEF Eased
<1>2. Cardinality(Candidates) <= bound /\ (Watches => watched) BY <1>1 DEF Scanned
<1>3. IsFiniteSet(Candidates) /\ Cardinality(Candidates) \in Nat BY CandidatesFinite
<1>4. Cardinality(Candidates') \in Nat /\ Cardinality(Candidates') <= Cardinality(Candidates)
  BY <1>1, <1>3, FS_Subset, FS_CardinalityType
<1> QED BY <1>1, <1>2, <1>3, <1>4

LEMMA ContainsIn == ASSUME Queues, NEW s PROVE Contains(order, s) <=> s \in ToSet(order)
<1>1. order \in Seq(Sessions) BY DEF Queues
<1> QED BY <1>1 DEF Contains, ToSet

LEMMA Shrunk ==
    ASSUME Queues, Queues', ToSet(order') \subseteq ToSet(order),
           \A s \in Sessions : IdleAlone(s)' => IdleAlone(s),
           life'[Child] = "closed" <=> life[Child] = "closed",
           Alive' <=> Alive
    PROVE  Candidates' \subseteq Candidates /\ (Watches' => Watches)
<1>0. ToSet(order) \subseteq Sessions
  <2>1. order \in Seq(Sessions) BY DEF Queues
  <2> QED BY <2>1 DEF ToSet
<1>1. \A s \in Sessions : Tree(s)' = Tree(s) BY DEF Tree
<1>2. \A s \in Sessions : Tree(s) \subseteq Sessions BY DEF Tree, Sessions
<1>3. \A s \in Sessions : IdleTree(s)' => IdleTree(s)
  <2> SUFFICES ASSUME NEW s \in Sessions, IdleTree(s)' PROVE IdleTree(s) OBVIOUS
  <2>1. \A t \in Tree(s) : IdleAlone(t)' BY <1>1 DEF IdleTree
  <2>2. \A t \in Tree(s) : IdleAlone(t) BY <2>1, <1>2
  <2>3. s = Parent => ~Alive BY DEF IdleTree
  <2> QED BY <2>2, <2>3 DEF IdleTree
<1>4. Candidates' \subseteq Candidates BY <1>0, <1>3 DEF Candidates
<1>5. (Contains(order, Parent))' => Contains(order, Parent)
  <2>1. order \in Seq(Sessions) /\ order' \in Seq(Sessions) BY DEF Queues
  <2>2. DOMAIN order = 1..Len(order) /\ DOMAIN order' = 1..Len(order') BY <2>1
  <2>3. Contains(order, Parent) <=> Parent \in ToSet(order) BY <2>2 DEF Contains, ToSet
  <2>4. (Contains(order, Parent))' <=> Parent \in ToSet(order') BY <2>2 DEF Contains, ToSet
  <2> QED BY <2>3, <2>4
<1>6. Parent \in Sessions BY DEF Sessions
<1> QED BY <1>4, <1>5, <1>6 DEF Watches

(* The worker ends: an idle tree that it hid is scanned.                     *)
LEMMA WorkerEases ==
    ASSUME Queues, Queues', Scanned, Alive,
           UNCHANGED <<agent, lock, order, life, gen, excess>>, notes => notes',
           WorkerDone \/ (UNCHANGED <<pruner, watched>> /\ Alive')
    PROVE  Eased
<1>1. \A t \in Sessions : IdleAlone(t)' => IdleAlone(t) BY DEF IdleAlone, Active
<1>2. CASE UNCHANGED <<pruner, watched>> /\ Alive' BY <1>1, <1>2, Shrunk DEF Eased, Due
<1>3. CASE WorkerDone
  <2>1. CASE watched /\ agent = "open" BY <1>3, <2>1 DEF WorkerDone, Eased, Due
  <2>2. CASE agent # "open" BY <2>2 DEF Eased
  <2>3. CASE ~watched
    <3>1. UNCHANGED pruner /\ ~Alive' BY <1>3, <2>3 DEF WorkerDone, Alive
    <3>2. ~Watches' BY <3>1 DEF Watches
    <3>3. ASSUME agent = "open", ~excess, ~Due PROVE Candidates' \subseteq Candidates
      <4>1. ~Watches BY <3>3, <2>3 DEF Scanned
      <4>2. ~IdleAlone(Parent) \/ Parent \notin ToSet(order) BY <4>1, ContainsIn DEF Watches
      <4>3. ~(IdleAlone(Parent)') \/ Parent \notin ToSet(order) BY <4>2, <1>1 DEF Sessions
      <4>4. ASSUME NEW s \in Candidates' PROVE s \in Candidates
        <5>1. s \in ToSet(order) /\ IdleTree(s)' BY DEF Candidates
        <5>2. s \in Tree(s) /\ Tree(s)' = Tree(s) BY DEF Tree
        <5>3. IdleAlone(s)' BY <5>1, <5>2 DEF IdleTree
        <5>4. s # Parent BY <4>3, <5>1, <5>3
        <5>5. order \in Seq(Sessions) BY DEF Queues
        <5>6. s \in Sessions BY <5>1, <5>5 DEF ToSet
        <5>7. Tree(s) = {s} BY <5>4 DEF Tree
        <5>8. IdleAlone(s) BY <5>3, <5>6, <1>1
        <5> QED BY <5>1, <5>4, <5>7, <5>8 DEF Candidates, IdleTree
      <4> QED BY <4>4
    <3> QED BY <3>1, <3>2, <3>3 DEF Eased, Due
  <2> QED BY <2>1, <2>2, <2>3
<1> QED BY <1>2, <1>3


(* All steps but the end of a scan. *)
LEMMA EasedStep == IInv /\ [Next]_vars /\ ~PruneEnds => Eased
<1> SUFFICES ASSUME IInv, [Next]_vars, ~PruneEnds PROVE Eased OBVIOUS
<1>0. Queues /\ Queues' /\ Fields /\ Tied /\ Unwinding /\ ClosingAll /\ Scanned
  BY TypeParts, TypedStep DEF IInv, TypeOK, Queues, Clients
<1>a. \A t : Contains(order, t) <=> t \in ToSet(order) BY <1>0, ContainsIn
<1>b. \A t : (Contains(order, t))' <=> t \in ToSet(order') BY <1>0 DEF Queues, Contains, ToSet
<1>q. UNCHANGED <<agent, excess, pruner, watched, lock, order, life, gen, notes, task>> => Eased
  BY <1>0, <1>a, <1>b DEF Eased, Candidates, IdleTree, IdleAlone, Tree, Watches, Active, Alive,
     Due, ToPrune, Fields, Sessions
<1> USE DEF vars, closing, pruning, locking, runs, worker, history
<1>1. ASSUME NEW s \in Roots, HostOpen(s) PROVE Eased
  BY <1>1, <1>0, <1>a, <1>b, LockFacts, ClientTypes, ClientsApart DEF Eased, Candidates,
     IdleTree, IdleAlone, Tree, Watches, Active, Alive, Due, ToPrune, Fields, Sessions,
     HostOpen, Input
<1>2. ASSUME NEW s \in Roots, HostRun(s) PROVE Eased
  BY <1>2, <1>0, <1>a, <1>b DEF Eased, Candidates, IdleTree, IdleAlone, Tree, Watches, Active,
     Alive, Due, ToPrune, Fields, Sessions, HostRun, Input, CanRun
<1>3. ASSUME NEW s \in Roots, Start(s) PROVE Eased
  BY <1>3, <1>0, <1>a, <1>b DEF Eased, Candidates, IdleTree, IdleAlone, Tree, Watches, Active,
     Alive, Due, ToPrune, Fields, Sessions, Start
<1>4. ASSUME NEW s \in Roots, Yield(s) PROVE Eased
  BY <1>4, <1>0, <1>a, <1>b DEF Eased, Candidates, IdleTree, IdleAlone, Tree, Watches, Active,
     Alive, Due, ToPrune, Fields, Sessions, Yield
<1>5. ASSUME NEW s \in Roots, Advance(s) PROVE Eased
  BY <1>5, <1>0, <1>a, <1>b DEF Eased, Candidates, IdleTree, IdleAlone, Tree, Watches, Active,
     Alive, Due, ToPrune, Fields, Sessions, Advance
<1>6. ASSUME NEW s \in Roots, CloseStream(s) PROVE Eased
  BY <1>6, <1>0, <1>a, <1>b DEF Eased, Candidates, IdleTree, IdleAlone, Tree, Watches, Active,
     Alive, Due, ToPrune, Fields, Sessions, CloseStream
<1>7. ASSUME NEW s \in Roots, HostCancel(s) PROVE Eased
  <2>1. excess' = TRUE \/ (UNCHANGED <<lock, excess>> /\ Active(s) /\ Active(s)')
    <3>1. \/ gen[s] = "body" /\ gen' = [gen EXCEPT ![s] = "tidy"]
          \/ gen[s] = "tidy" /\ gen' = [gen EXCEPT ![s] = "leave"]
          => Active(s) /\ Active(s)'
      BY <1>0 DEF Fields, Sessions, Active
    <3>2. \/ gen[s] = "body" /\ gen' = [gen EXCEPT ![s] = "tidy"] /\ UNCHANGED <<lock, excess>>
          \/ gen[s] = "tidy" /\ gen' = [gen EXCEPT ![s] = "leave"] /\ UNCHANGED <<lock, excess>>
          \/ excess' = TRUE
      BY <1>7 DEF HostCancel, Cancelled
    <3> QED BY <3>1, <3>2
  <2>2. UNCHANGED <<order, pruner, agent, watched, life, notes, task>>
    BY <1>7 DEF HostCancel, Input
  <2>3. \A t \in Sessions \ {s} : gen'[t] = gen[t]
    BY <1>7, <1>0 DEF HostCancel, Cancelled, Fields
  <2>4. ~excess' => \A t \in Sessions : IdleAlone(t)' => IdleAlone(t)
    BY <2>1, <2>2, <2>3 DEF IdleAlone, Active
  <2> QED BY <2>1, <2>2, <2>4, <1>0, Shrunk DEF Eased, Due, Alive
<1>8. ASSUME NEW s \in Roots, Reattach(s) PROVE Eased
  <2>0. s \in Sessions BY DEF Sessions
  <2>1. UNCHANGED <<agent, excess, pruner, watched, life, gen, notes, task>>
    BY <1>8 DEF Reattach
  <2>2. ToSet(order') = ToSet(order) BY <1>8, <2>0, <1>0, OrderFacts DEF Reattach
  <2>3. Due => Due'
    <3>1. lock # <<>> /\ Head(lock) = Open(s) /\ lock' = Tail(lock) BY <1>8 DEF Reattach, Holds
    <3>2. ToSet(lock) = {Open(s)} \cup ToSet(lock') BY <3>1, <1>0, LockFacts
    <3>3. Open(s) \notin ToPrune BY ClientsApart DEF ToPrune
    <3> QED BY <3>2, <3>3, <2>1 DEF Due
  <2>4. \A t \in Sessions : IdleAlone(t)' => IdleAlone(t) BY <2>1 DEF IdleAlone, Active
  <2> QED BY <2>1, <2>2, <2>3, <2>4, <1>0, Shrunk DEF Eased, Alive
<1>9. ASSUME NEW s \in Roots, Create(s) PROVE Eased
  BY <1>9, <1>q DEF Create, Holds
<1>10. ASSUME NEW s \in Roots, Publish(s) PROVE Eased
  BY <1>10, <1>0, <1>a, <1>b, LockFacts, ClientTypes, ClientsApart, OrderFacts DEF Eased,
     Candidates, IdleTree, IdleAlone, Tree, Watches, Active, Alive, Due, ToPrune, Fields,
     Sessions, Publish, Holds
<1>11. ASSUME NEW s \in Sessions, EndRun(s) PROVE Eased
  BY <1>11, <1>0, <1>a, <1>b DEF Eased, Candidates, IdleTree, IdleAlone, Tree, Watches, Active,
     Alive, Due, ToPrune, Fields, Sessions, EndRun
<1>12. ASSUME NEW s \in Sessions, Finish(s) PROVE Eased
  <2>1. agent' = "open" => Due'
    <3>1. Run(s) \in ToSet(Append(lock, Run(s))) BY <1>0, LockFacts, ClientTypes
    <3> QED BY <3>1, <1>12 DEF Finish, Prunes, Due, ToPrune
  <2> QED BY <2>1 DEF Eased
<1>13. ASSUME NEW s \in Sessions, FinishCancelled(s) PROVE Eased
  BY <1>13, <1>0, <1>a, <1>b DEF Eased, Candidates, IdleTree, IdleAlone, Tree, Watches, Active,
     Alive, Due, ToPrune, Fields, Sessions, FinishCancelled
<1>14. ASSUME NEW s \in Sessions, Cleaned(s) PROVE Eased
  BY <1>14, <1>q DEF Cleaned, Cleaning
<1>15. ASSUME NEW s \in Sessions, Closing(s) PROVE Eased
  <2>1. UNCHANGED <<order, pruner, lock, agent, excess, watched, task>>
    BY <1>15 DEF Closing, CancelsWork
  <2>2. \A t \in Sessions : IdleAlone(t)' => IdleAlone(t)
    BY <1>15, <1>0 DEF Closing, CancelsWork, Fields, Sessions, IdleAlone, Active, Unwinding
  <2>3. life'[Child] = "closed" <=> life[Child] = "closed"
    BY <1>15, <1>0 DEF Closing, CancelsWork, Fields, Sessions
  <2> QED BY <2>1, <2>2, <2>3, <1>0, Shrunk DEF Eased, Due, Alive
<1>16. ASSUME NEW s \in Sessions, Finalize(s) PROVE Eased
  <2>1. UNCHANGED <<order, pruner, lock, agent, excess, watched, task>>
    BY <1>16 DEF Finalize, Drains, CancelsWork
  <2>2. \A t \in Sessions : IdleAlone(t)' => IdleAlone(t)
    BY <1>16, <1>0 DEF Finalize, Drains, CancelsWork, Fields, Sessions, IdleAlone, Active,
       Unwinding
  <2>3. life'[Child] = "closed" <=> life[Child] = "closed"
    BY <1>16, <1>0 DEF Finalize, Drains, CancelsWork, Fields, Sessions
  <2> QED BY <2>1, <2>2, <2>3, <1>0, Shrunk DEF Eased, Due, Alive
<1>17. ASSUME NEW s \in Sessions, Awaited(s) PROVE Eased
  <2>1. UNCHANGED <<order, pruner, lock, agent, excess, watched, task>>
    BY <1>17 DEF Awaited, Drains, CancelsWork, Unwound
  <2>2. \A t \in Sessions : IdleAlone(t)' => IdleAlone(t)
    BY <1>17, <1>0 DEF Awaited, Drains, CancelsWork, Unwound, Fields, Sessions, IdleAlone,
       Active, Unwinding
  <2>3. life'[Child] = "closed" <=> life[Child] = "closed"
    BY <1>17, <1>0 DEF Awaited, Drains, CancelsWork, Unwound, Fields, Sessions
  <2> QED BY <2>1, <2>2, <2>3, <1>0, Shrunk DEF Eased, Due, Alive
<1>18. ASSUME NEW s \in Sessions, StreamClosed(s) PROVE Eased
  BY <1>18, <1>q DEF StreamClosed, CancelsWork
<1>19. ASSUME NEW s \in Sessions, Closed(s) PROVE Eased
  <2>1. UNCHANGED <<agent, lock, pruner, gen>> /\ (s = Child => excess') /\ (excess => excess')
    BY <1>19 DEF Closed
  <2>2. CASE s = Child BY <2>1, <2>2 DEF Eased
  <2>3. CASE s # Child
    <3>1. life' = [life EXCEPT ![s] = "closed"] BY <1>19 DEF Closed
    <3>2. ToSet(order') \subseteq ToSet(order) BY <1>19, <1>0, OrderFacts DEF Closed
    <3>3. s # Parent => UNCHANGED <<task, notes, watched>> BY <1>19 DEF Closed
    <3>4. \A t \in Sessions : IdleAlone(t)' => IdleAlone(t)
      BY <2>1, <3>1, <3>3, <1>0 DEF IdleAlone, Active, Fields
    <3>5. ~IdleAlone(s)' /\ life'[Child] = life[Child] BY <3>1, <2>3, <1>0 DEF IdleAlone, Fields
    <3>6. CASE s # Parent
      BY <3>6, <3>2, <3>3, <3>4, <3>5, <2>1, <1>0, Shrunk DEF Eased, Due, Alive
    <3>7. CASE s = Parent
      <4>1. ~Alive /\ ~Alive' BY <1>19, <3>7 DEF Closed, Drained, Alive
      <4>2. Candidates' \subseteq Candidates BY <4>1, <3>2, <3>4, <3>5, <1>0, Shrunk
      <4>3. ~Watches' BY <4>1 DEF Watches
      <4> QED BY <4>2, <4>3, <2>1 DEF Eased, Due
    <3> QED BY <3>6, <3>7
  <2> QED BY <2>2, <2>3
<1>20. ASSUME NEW s \in Sessions, CleaningFails(s) PROVE Eased
  BY <1>20, <1>0, <1>a, <1>b DEF Eased, Candidates, IdleTree, IdleAlone, Tree, Watches, Active,
     Alive, Due, ToPrune, Fields, Sessions, CleaningFails, Input, Fails, Cleaning
<1>21. ASSUME NEW s \in Sessions, ReleaseFails(s) PROVE Eased
  BY <1>21, <1>q DEF ReleaseFails, Input, Fails, Drained
<1>22. ASSUME NEW s \in Sessions, NEW force \in BOOLEAN, HostClose(s, force) PROVE Eased
  <2>1. UNCHANGED <<order, pruner, lock, agent, excess, watched, task>>
    BY <1>22 DEF HostClose, Input, Quiesce
  <2>2. \A t \in Sessions : IdleAlone(t)' => IdleAlone(t)
    BY <1>22, <1>0 DEF HostClose, Input, Quiesce, Fields, Sessions, IdleAlone, Active
  <2>3. life'[Child] = "closed" <=> life[Child] = "closed"
    BY <1>22, <1>0 DEF HostClose, Input, Quiesce, Fields, Sessions
  <2> QED BY <2>1, <2>2, <2>3, <1>0, Shrunk DEF Eased, Due, Alive
<1>23. CASE ReleaseChild
  <2>1. UNCHANGED <<order, pruner, lock, agent, excess, watched, task>>
    BY <1>23 DEF ReleaseChild, Quiesce, Begun
  <2>2. \A t \in Sessions : IdleAlone(t)' => IdleAlone(t)
    BY <1>23, <1>0 DEF ReleaseChild, Quiesce, Begun, Fields, Sessions, IdleAlone, Active
  <2>3. life'[Child] = "closed" <=> life[Child] = "closed"
    BY <1>23, <1>0 DEF ReleaseChild, Quiesce, Begun, Fields, Sessions
  <2> QED BY <2>1, <2>2, <2>3, <1>0, Shrunk DEF Eased, Due, Alive
<1>24. CASE DrainNotes
  BY <1>24, <1>0, <1>a, <1>b DEF Eased, Candidates, IdleTree, IdleAlone, Tree, Watches, Active,
     Alive, Due, ToPrune, Fields, Sessions, DrainNotes
<1>25. CASE Abort
  BY <1>25, <1>q DEF Abort, Input
<1>26. CASE Spawn
  BY <1>26, <1>0, <1>a, <1>b DEF Eased, Candidates, IdleTree, IdleAlone, Tree, Watches, Active,
     Alive, Due, ToPrune, Fields, Sessions, Spawn, Input
<1>27. CASE Continue
  BY <1>27, <1>q DEF Continue, Input
<1>28. CASE TaskStop
  BY <1>28, <1>q DEF TaskStop
<1>29. CASE Evict
  <2>0. PICK s \in Sessions : IdleTree(s) /\ Quiesce(Tree(s)) BY <1>29, <1>0, EvictFacts
  <2>1. UNCHANGED <<lock, agent>> /\ HoldsToPrune BY <1>29 DEF Evict
  <2>2. Due' BY <2>1, <1>0, LockFacts DEF HoldsToPrune, Due, ToPrune
  <2> QED BY <2>2 DEF Eased
<1>30. CASE Evicted
  BY <1>30, <1>q DEF Evicted
<1>31. CASE PruneEnds
  BY <1>31, <1>q DEF PruneEnds, Holds
<1>32. CASE PrunerStarts
  BY <1>32, <1>0, <1>a, <1>b, LockFacts, ClientTypes, ClientsApart DEF Eased, Candidates,
     IdleTree, IdleAlone, Tree, Watches, Active, Alive, Due, ToPrune, Fields, Sessions,
     PrunerStarts
<1>33. CASE EndsEarly
  <2>1. UNCHANGED <<agent, lock, order, life, gen, excess>> /\ (notes => notes')
    BY <1>33 DEF EndsEarly
  <2>2. WorkerDone \/ (UNCHANGED <<pruner, watched>> /\ Alive /\ Alive')
    BY <1>33 DEF EndsEarly, Alive
  <2>3. Alive BY <1>33 DEF EndsEarly, Alive
  <2> QED BY <2>1, <2>2, <2>3, <1>0, WorkerEases
<1>34. CASE Starts
  BY <1>34, <1>0, <1>a, <1>b DEF Eased, Candidates, IdleTree, IdleAlone, Tree, Watches, Active,
     Alive, Due, ToPrune, Fields, Sessions, Starts
<1>35. CASE Registers
  BY <1>35, <1>0, <1>a, <1>b, OrderFacts DEF Eased, Candidates, IdleTree, IdleAlone, Tree,
     Watches, Active, Alive, Due, ToPrune, Fields, Sessions, Registers
<1>36. CASE Drives
  <2>1. UNCHANGED <<order, pruner, lock, agent, excess, watched, life, notes>>
    BY <1>36 DEF Drives
  <2>2. \A t \in Sessions : gen'[t] = gen[t] \/ gen'[t] = "body"
    BY <1>36, <1>0 DEF Drives, Fields
  <2>3. \A t \in Sessions : IdleAlone(t)' => IdleAlone(t) BY <2>1, <2>2 DEF IdleAlone, Active
  <2>4. Alive /\ Alive' BY <1>36 DEF Drives, Alive
  <2> QED BY <2>1, <2>3, <2>4, <1>0, Shrunk DEF Eased, Due
<1>37. CASE SetupCancelled
  BY <1>37, <1>0, <1>a, <1>b DEF Eased, Candidates, IdleTree, IdleAlone, Tree, Watches, Active,
     Alive, Due, ToPrune, Fields, Sessions, SetupCancelled
<1>38. CASE DriveCancelled
  <2>1. excess' = TRUE \/ (UNCHANGED <<lock, excess>> /\ Active(Child) /\ Active(Child)')
    <3>1. \/ gen[Child] = "body" /\ gen' = [gen EXCEPT ![Child] = "tidy"]
          \/ gen[Child] = "tidy" /\ gen' = [gen EXCEPT ![Child] = "leave"]
          => Active(Child) /\ Active(Child)'
      BY <1>0 DEF Fields, Sessions, Active
    <3>2. \/ gen[Child] = "body" /\ gen' = [gen EXCEPT ![Child] = "tidy"] /\ UNCHANGED <<lock, excess>>
          \/ gen[Child] = "tidy" /\ gen' = [gen EXCEPT ![Child] = "leave"] /\ UNCHANGED <<lock, excess>>
          \/ excess' = TRUE
      BY <1>38 DEF DriveCancelled, Cancelled
    <3> QED BY <3>1, <3>2
  <2>2. UNCHANGED <<order, pruner, agent, watched, life, notes, task>>
    BY <1>38 DEF DriveCancelled
  <2>3. \A t \in Sessions \ {Child} : gen'[t] = gen[t]
    BY <1>38, <1>0 DEF DriveCancelled, Cancelled, Fields
  <2>4. ~excess' => \A t \in Sessions : IdleAlone(t)' => IdleAlone(t)
    BY <2>1, <2>2, <2>3 DEF IdleAlone, Active
  <2> QED BY <2>1, <2>2, <2>4, <1>0, Shrunk DEF Eased, Due, Alive
<1>39. CASE Driven
  BY <1>39, <1>0, <1>a, <1>b DEF Eased, Candidates, IdleTree, IdleAlone, Tree, Watches, Active,
     Alive, Due, ToPrune, Fields, Sessions, Driven
<1>40. CASE StopHookEnds
  <2>1. UNCHANGED <<agent, lock, order, life, gen, excess>> /\ (notes => notes')
    BY <1>40 DEF StopHookEnds
  <2>2. WorkerDone \/ (UNCHANGED <<pruner, watched>> /\ Alive /\ Alive')
    BY <1>40 DEF StopHookEnds, Alive
  <2>3. Alive BY <1>40 DEF StopHookEnds, Alive
  <2> QED BY <2>1, <2>2, <2>3, <1>0, WorkerEases
<1>41. CASE Reports
  <2>1. UNCHANGED <<agent, lock, order, life, gen, excess>> /\ (notes => notes')
    BY <1>41 DEF Reports
  <2>2. WorkerDone \/ (UNCHANGED <<pruner, watched>> /\ Alive /\ Alive')
    BY <1>41 DEF Reports, Alive
  <2>3. Alive BY <1>41 DEF Reports, Alive
  <2> QED BY <2>1, <2>2, <2>3, <1>0, WorkerEases
<1>42. CASE ContinueDrives
  <2>1. UNCHANGED <<order, pruner, lock, agent, excess, watched, task>>
    BY <1>42 DEF ContinueDrives, CanRun
  <2>2. \A t \in Sessions : IdleAlone(t)' => IdleAlone(t)
    BY <1>42, <1>0 DEF ContinueDrives, CanRun, Fields, Sessions, IdleAlone, Active
  <2>3. life'[Child] = "closed" <=> life[Child] = "closed"
    BY <1>42, <1>0 DEF ContinueDrives, CanRun, Fields, Sessions
  <2> QED BY <2>1, <2>2, <2>3, <1>0, Shrunk DEF Eased, Due, Alive
<1>43. CASE ContinueDriven
  BY <1>43, <1>0, <1>a, <1>b DEF Eased, Candidates, IdleTree, IdleAlone, Tree, Watches, Active,
     Alive, Due, ToPrune, Fields, Sessions, ContinueDriven
<1>44. CASE ContinueEnds
  BY <1>44, <1>q DEF ContinueEnds
<1>45. CASE HostCloseAgent
  BY <1>45, <1>0, <1>a, <1>b DEF Eased, Candidates, IdleTree, IdleAlone, Tree, Watches, Active,
     Alive, Due, ToPrune, Fields, Sessions, HostCloseAgent
<1>46. CASE PrunerAwaited
  BY <1>46, <1>0, <1>a, <1>b, LockFacts, ClientTypes, ClientsApart DEF Eased, Candidates,
     IdleTree, IdleAlone, Tree, Watches, Active, Alive, Due, ToPrune, Fields, Sessions,
     PrunerAwaited
<1>47. CASE Snapshot
  BY <1>47, <1>q DEF Snapshot, Holds
<1>48. CASE CloseNext
  <2>1. agent' # "open" BY <1>48, <1>0 DEF CloseNext, ClosingAll
  <2> QED BY <2>1 DEF Eased
<1>49. CASE AllClosed
  <2>1. agent' # "open" BY <1>49, <1>0 DEF AllClosed, ClosingAll
  <2> QED BY <2>1 DEF Eased
<1>50. CASE CloseRaises
  <2>1. agent' # "open" BY <1>50, <1>0 DEF CloseRaises, ClosingAll
  <2> QED BY <2>1 DEF Eased
<1>51. CASE ReleaseResource
  BY <1>51, <1>0, <1>a, <1>b DEF Eased, Candidates, IdleTree, IdleAlone, Tree, Watches, Active,
     Alive, Due, ToPrune, Fields, Sessions, ReleaseResource
<1>52. CASE ResourceFails
  BY <1>52, <1>q DEF ResourceFails, Input
<1>53. CASE UNCHANGED vars BY <1>53, <1>q
<1> QED
  BY <1>1, <1>2, <1>3, <1>4, <1>5, <1>6, <1>7, <1>8, <1>9, <1>10, <1>11, <1>12, <1>13,
     <1>14, <1>15, <1>16, <1>17, <1>18, <1>19, <1>20, <1>21, <1>22, <1>23, <1>24, <1>25,
     <1>26, <1>27, <1>28, <1>29, <1>30, <1>31, <1>32, <1>33, <1>34, <1>35, <1>36, <1>37,
     <1>38, <1>39, <1>40, <1>41, <1>42, <1>43, <1>44, <1>45, <1>46, <1>47, <1>48, <1>49,
     <1>50, <1>51, <1>52, <1>53
  DEF Next, HostStep, OpenStep, RunStep, CloserStep, PruneStep, WorkerStep, ContinueStep, CloseStep

(* max_idle_sessions is set once. *)
LEMMA NextKeepsBound == [Next]_vars => bound' = bound
<1> SUFFICES ASSUME [Next]_vars PROVE bound' = bound OBVIOUS
<1> USE DEF vars, closing
<1>1. ASSUME NEW s \in Roots, HostOpen(s) PROVE bound' = bound
  BY <1>1 DEF HostOpen
<1>2. ASSUME NEW s \in Roots, HostRun(s) PROVE bound' = bound
  BY <1>2 DEF HostRun
<1>3. ASSUME NEW s \in Roots, Start(s) PROVE bound' = bound
  BY <1>3 DEF Start
<1>4. ASSUME NEW s \in Roots, Yield(s) PROVE bound' = bound
  BY <1>4 DEF Yield
<1>5. ASSUME NEW s \in Roots, Advance(s) PROVE bound' = bound
  BY <1>5 DEF Advance
<1>6. ASSUME NEW s \in Roots, CloseStream(s) PROVE bound' = bound
  BY <1>6 DEF CloseStream
<1>7. ASSUME NEW s \in Roots, HostCancel(s) PROVE bound' = bound
  BY <1>7 DEF HostCancel
<1>8. ASSUME NEW s \in Roots, Reattach(s) PROVE bound' = bound
  BY <1>8 DEF Reattach
<1>9. ASSUME NEW s \in Roots, Create(s) PROVE bound' = bound
  BY <1>9 DEF Create
<1>10. ASSUME NEW s \in Roots, Publish(s) PROVE bound' = bound
  BY <1>10 DEF Publish
<1>11. ASSUME NEW s \in Sessions, EndRun(s) PROVE bound' = bound
  BY <1>11 DEF EndRun
<1>12. ASSUME NEW s \in Sessions, Finish(s) PROVE bound' = bound
  BY <1>12 DEF Finish
<1>13. ASSUME NEW s \in Sessions, FinishCancelled(s) PROVE bound' = bound
  BY <1>13 DEF FinishCancelled
<1>14. ASSUME NEW s \in Sessions, Cleaned(s) PROVE bound' = bound
  BY <1>14 DEF Cleaned
<1>15. ASSUME NEW s \in Sessions, Closing(s) PROVE bound' = bound
  BY <1>15 DEF Closing
<1>16. ASSUME NEW s \in Sessions, Finalize(s) PROVE bound' = bound
  BY <1>16 DEF Finalize
<1>17. ASSUME NEW s \in Sessions, Awaited(s) PROVE bound' = bound
  BY <1>17 DEF Awaited
<1>18. ASSUME NEW s \in Sessions, StreamClosed(s) PROVE bound' = bound
  BY <1>18 DEF StreamClosed
<1>19. ASSUME NEW s \in Sessions, Closed(s) PROVE bound' = bound
  BY <1>19 DEF Closed
<1>20. ASSUME NEW s \in Sessions, CleaningFails(s) PROVE bound' = bound
  BY <1>20 DEF CleaningFails
<1>21. ASSUME NEW s \in Sessions, ReleaseFails(s) PROVE bound' = bound
  BY <1>21 DEF ReleaseFails
<1>22. ASSUME NEW s \in Sessions, NEW force \in BOOLEAN, HostClose(s, force)
    PROVE bound' = bound
  BY <1>22 DEF HostClose
<1>23. CASE ReleaseChild
  BY <1>23 DEF ReleaseChild
<1>24. CASE DrainNotes
  BY <1>24 DEF DrainNotes
<1>25. CASE Abort
  BY <1>25 DEF Abort
<1>26. CASE Spawn
  BY <1>26 DEF Spawn
<1>27. CASE Continue
  BY <1>27 DEF Continue
<1>28. CASE TaskStop
  BY <1>28 DEF TaskStop
<1>29. CASE Evict
  BY <1>29 DEF Evict
<1>30. CASE Evicted
  BY <1>30 DEF Evicted
<1>31. CASE PruneEnds
  BY <1>31 DEF PruneEnds
<1>32. CASE PrunerStarts
  BY <1>32 DEF PrunerStarts
<1>33. CASE EndsEarly
  BY <1>33 DEF EndsEarly
<1>34. CASE Starts
  BY <1>34 DEF Starts
<1>35. CASE Registers
  BY <1>35 DEF Registers
<1>36. CASE Drives
  BY <1>36 DEF Drives
<1>37. CASE SetupCancelled
  BY <1>37 DEF SetupCancelled
<1>38. CASE DriveCancelled
  BY <1>38 DEF DriveCancelled
<1>39. CASE Driven
  BY <1>39 DEF Driven
<1>40. CASE StopHookEnds
  BY <1>40 DEF StopHookEnds
<1>41. CASE Reports
  BY <1>41 DEF Reports
<1>42. CASE ContinueDrives
  BY <1>42 DEF ContinueDrives
<1>43. CASE ContinueDriven
  BY <1>43 DEF ContinueDriven
<1>44. CASE ContinueEnds
  BY <1>44 DEF ContinueEnds
<1>45. CASE HostCloseAgent
  BY <1>45 DEF HostCloseAgent
<1>46. CASE PrunerAwaited
  BY <1>46 DEF PrunerAwaited
<1>47. CASE Snapshot
  BY <1>47 DEF Snapshot
<1>48. CASE CloseNext
  BY <1>48 DEF CloseNext
<1>49. CASE AllClosed
  BY <1>49 DEF AllClosed
<1>50. CASE CloseRaises
  BY <1>50 DEF CloseRaises
<1>51. CASE ReleaseResource
  BY <1>51 DEF ReleaseResource
<1>52. CASE ResourceFails
  BY <1>52 DEF ResourceFails
<1>53. CASE UNCHANGED vars BY <1>53
<1> QED
  BY <1>1, <1>2, <1>3, <1>4, <1>5, <1>6, <1>7, <1>8, <1>9, <1>10, <1>11, <1>12, <1>13,
     <1>14, <1>15, <1>16, <1>17, <1>18, <1>19, <1>20, <1>21, <1>22, <1>23, <1>24, <1>25,
     <1>26, <1>27, <1>28, <1>29, <1>30, <1>31, <1>32, <1>33, <1>34, <1>35, <1>36, <1>37,
     <1>38, <1>39, <1>40, <1>41, <1>42, <1>43, <1>44, <1>45, <1>46, <1>47, <1>48, <1>49,
     <1>50, <1>51, <1>52, <1>53
  DEF Next, HostStep, OpenStep, RunStep, CloserStep, PruneStep, WorkerStep, ContinueStep, CloseStep

(* A scan ends with the cache in its bound, or cut off. *)
LEMMA ScannedStep == IInv /\ [Next]_vars => Scanned'
<1> SUFFICES ASSUME IInv, [Next]_vars PROVE Scanned' OBVIOUS
<1>0. Queues /\ Queues' /\ Fields /\ Scanned
  BY TypeParts, TypedStep DEF IInv, TypeOK, Queues, Clients
<1>1. CASE ~PruneEnds
  <2>1. bound \in Nat BY <1>0 DEF Fields
  <2>2. bound' = bound BY NextKeepsBound
  <2> QED BY <1>0, <1>1, <2>1, <2>2, EasedStep, EasedKeeps
<1>2. CASE PruneEnds
  <2>1. UNCHANGED <<agent, bound, order, life, gen, notes, task>>
    BY <1>2 DEF PruneEnds, closing, runs, worker
  <2>2. CASE excess' = TRUE BY <2>2 DEF Scanned
  <2>3. CASE /\ agent # "open" \/ Cardinality(Candidates) <= bound
             /\ watched' = (watched \/ (agent = "open" /\ Watches))
    <3>1. Candidates' = Candidates /\ (Watches' <=> Watches)
      BY <2>1 DEF Candidates, IdleTree, IdleAlone, Tree, Watches, Active, Alive
    <3>2. agent = "open" /\ Watches => watched' BY <2>3
    <3>3. agent' = "open" => Cardinality(Candidates') <= bound' BY <2>1, <2>3, <3>1
    <3> QED BY <2>1, <3>1, <3>2, <3>3 DEF Scanned
  <2> QED BY <1>2, <2>2, <2>3 DEF PruneEnds
<1> QED BY <1>1, <1>2

-----------------------------------------------------------------------------
(* The theorems.                                                             *)

LEMMA LifecycleStart == Init => IInv
<1> SUFFICES ASSUME Init PROVE IInv OBVIOUS
<1> USE DEF Init, Sessions
<1>0. SetToSeq(Roots) \in Seq(Roots) /\ ToSet(SetToSeq(Roots)) = Roots BY AllInSeq
<1>1. Queues BY <1>0 DEF Queues
<1>2. TypeOK
  <2>1. Flags BY DEF Flags
  <2>2. Fields BY DEF Fields
  <2> QED BY <1>1, <2>1, <2>2, TypeParts
<1>3. CreatesAlone /\ Chosen /\ Tied /\ Unwinding
  BY DEF CreatesAlone, Chosen, Tied, Unwinding, Active, Alive
<1>4. Registered BY <1>0 DEF Registered
<1>5. ClosingAll BY DEF ClosingAll
<1>6. Scanned BY DEF Scanned
<1> QED BY <1>2, <1>3, <1>4, <1>5, <1>6 DEF IInv

LEMMA LifecycleStep == IInv /\ [Next]_vars => IInv'
BY TypedStep, CreatesAloneStep, ChosenStep, TiedStep, UnwindingStep, RegisteredStep,
   ClosingAllStep, ScannedStep DEF IInv

LEMMA LifecycleInvariant == Spec => []IInv
BY LifecycleStart, LifecycleStep, PTL DEF Spec

(* The types of the variables that stand for Agent, Session and WorkerHandle. *)
THEOREM LifecycleTypeCorrect == Spec => []TypeOK
<1>1. IInv => TypeOK BY DEF IInv
<1> QED BY <1>1, LifecycleInvariant, PTL

(* _prune_idle_sessions: from the choice of an idle tree to the end of its   *)
(* release no run of it is admitted and no worker of it is started.          *)
THEOREM EvictionIsSafe == Spec => []EvictsIdleOnly
<1>1. IInv => EvictsIdleOnly BY DEF IInv, Chosen, EvictsIdleOnly
<1> QED BY <1>1, LifecycleInvariant, PTL

(* _session_became_idle, _idle_work_done: whatever ends, a scan follows it   *)
(* or has nothing to do, for any number of sessions.                         *)
THEOREM IdleCacheBounded == Spec => []BoundKept
<1>1. IInv => BoundKept
  <2> SUFFICES ASSUME IInv, Quiet PROVE excess \/ Cardinality(Candidates) <= bound
    BY DEF BoundKept
  <2>1. ToSet(lock) = {} BY DEF Quiet, ToSet
  <2>2. agent = "open" /\ ~Due BY <2>1 DEF Quiet, Due
  <2> QED BY <2>2 DEF IInv, Scanned
<1> QED BY <1>1, LifecycleInvariant, PTL

(* Agent.close: nothing that the sessions share is closed while one of them, *)
(* a run, a worker or a close task could still use it.                       *)
THEOREM ResourcesReleasedLast == Spec => []ClosedLast
<1>1. IInv => ClosedLast
  <2> SUFFICES ASSUME IInv, released > 0
               PROVE  /\ \A s \in Sessions : ~Active(s) /\ closer[s] = "none" /\ life[s] = "closed"
                      /\ ~Alive /\ cont = "none" /\ ~creating
    BY DEF ClosedLast
  <2>0. ClosingAll /\ Unwinding /\ Tied BY DEF IInv
  <2>1. ~creating /\ \A s \in Sessions : life[s] = "closed" BY <2>0 DEF ClosingAll
  <2>2. \A s \in Sessions : ~Active(s) /\ closer[s] = "none" BY <2>0, <2>1 DEF Unwinding
  <2>3. Parent \in Sessions BY DEF Sessions
  <2>4. ~Alive BY <2>0, <2>1, <2>3 DEF Tied
  <2>5. cont = "none" BY <2>0, <2>2, <2>3 DEF Tied, Active
  <2> QED BY <2>1, <2>2, <2>4, <2>5
<1> QED BY <1>1, LifecycleInvariant, PTL
=============================================================================
