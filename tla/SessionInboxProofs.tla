------------------------- MODULE SessionInboxProofs -------------------------
(***************************************************************************)
(* Proofs about SessionInbox, for any sessions on one mailbox address, any *)
(* messages and any number of faults, crashes and late expiries.           *)
(*                                                                         *)
(* With the durable inbox a message is safe because its id has a receipt   *)
(* before anything forgets it, and in order because whoever received a     *)
(* message has received everything older that is still in the mailbox.     *)
(* Without it a message is in one place at a time.  What a session shows   *)
(* is its history up to its cursor, less only what a call cut off.         *)
(***************************************************************************)
EXTENDS SessionInbox, FiniteSetTheorems, SequenceTheorems, TLAPS

Places == {"idle", "prompted", "top", "committed", "drain", "noted", "mail", "claimed",
           "mailCommit", "mailCommitted", "acking", "releasing", "drained", "batchStored",
           "redeliver", "body"}
WithInbox == {"committed", "claimed", "mailCommit", "mailCommitted", "acking", "releasing"}
InMemory == {"drain", "noted", "drained", "batchStored", "redeliver"}
Message == Deliveries \cup Nat
Entry == [msg : Peers, tok : Tokens \cup {NoToken}, live : BOOLEAN]

(* The shapes of the data, and what a place says of them.                   *)
TypedLog ==
    /\ stored \in [Sessions -> Seq(Message)]
    /\ view \in [Sessions -> Seq(Message)] /\ lastSeq \in [Sessions -> Nat]
    /\ snap \in [Sessions -> [items : Seq(Message), covers : Nat]]
TypedRows ==
    /\ inbox \in [Sessions -> Seq(Deliveries)]
    /\ receipts \in [Sessions -> SUBSET Deliveries]
    /\ queue \in [Sessions -> Seq(Notes)]
TypedBox ==
    /\ box \in Seq(Entry) /\ sent \in Seq(Peers)
    /\ \A i \in 1..Len(box) : box[i].live => box[i].tok # NoToken
TypedClaims ==
    /\ batch \in [Sessions -> Seq(Peers)] /\ claimed \in [Sessions -> Nat]
    /\ token \in [Sessions -> Tokens \cup {NoToken}]
TypedRuns ==
    /\ durable \in BOOLEAN /\ runs \in Nat /\ faults \in Nat /\ late \in Nat
    /\ pc \in [Sessions -> Places] /\ todo \in [Sessions -> Nat]
    /\ raising \in [Sessions -> BOOLEAN] /\ missed \in [Sessions -> BOOLEAN]
Fitting(where, n, b, q) ==
    /\ where \in WithInbox => durable
    /\ where \in InMemory => ~ durable
    /\ where = "claimed" => n \in 1..Len(b)
    /\ where \in {"drain", "noted"} => n \in 1..Len(q)
    /\ where \in {"drained", "redeliver"} => b # <<>>
Fits(s) == Fitting(pc[s], todo[s], batch[s], queue[s])
Typing ==
    /\ TypedLog /\ TypedRows /\ TypedBox /\ TypedClaims /\ TypedRuns
    /\ \A s \in Sessions : Fits(s)

-----------------------------------------------------------------------------
(* Sequences and what they contain.                                         *)

LEMMA InRange ==
    ASSUME NEW S, NEW q \in Seq(S)
    PROVE  /\ Range(q) = {q[i] : i \in 1..Len(q)}
           /\ Range(q) \subseteq S
BY DEF Range

LEMMA FunIsSeq ==
    ASSUME NEW S, NEW n \in Nat, NEW w \in [1..n -> S]
    PROVE  w \in Seq(S) /\ Len(w) = n
<1>1. w = [i \in 1..n |-> w[i]] OBVIOUS
<1> QED BY <1>1

LEMMA RangeAppend ==
    ASSUME NEW S, NEW q \in Seq(S), NEW e \in S
    PROVE  /\ Append(q, e) \in Seq(S) /\ Len(Append(q, e)) = Len(q) + 1
           /\ \A i \in 1..Len(q) : Append(q, e)[i] = q[i]
           /\ Append(q, e)[Len(q) + 1] = e
           /\ Range(Append(q, e)) = Range(q) \cup {e}
<1> DEFINE w == Append(q, e)
<1>1. w \in Seq(S) /\ Len(w) = Len(q) + 1 /\ Len(q) \in Nat OBVIOUS
<1>2. (\A i \in 1..Len(q) : w[i] = q[i]) /\ w[Len(q) + 1] = e OBVIOUS
<1> HIDE DEF w
<1>0. Range(w) = {w[i] : i \in 1..Len(w)} BY <1>1, InRange
<1>3. \A x \in Range(w) : x \in Range(q) \cup {e}
  <2> SUFFICES ASSUME NEW i \in 1..Len(w) PROVE w[i] \in Range(q) \cup {e} BY <1>0
  <2>1. CASE i \in 1..Len(q) BY <2>1, <1>2, InRange
  <2>2. CASE i = Len(q) + 1 BY <2>2, <1>2
  <2> QED BY <2>1, <2>2, <1>1
<1>4. \A x \in Range(q) : x \in Range(w)
  <2> SUFFICES ASSUME NEW i \in 1..Len(q) PROVE q[i] \in Range(w) BY InRange
  <2>1. i \in 1..Len(w) /\ w[i] = q[i] BY <1>1, <1>2
  <2> QED BY <2>1, <1>0
<1>5. e \in Range(w)
  <2>1. Len(q) + 1 \in 1..Len(w) BY <1>1
  <2> QED BY <2>1, <1>2, <1>0
<1> QED BY <1>1, <1>2, <1>3, <1>4, <1>5 DEF w

LEMMA RangeJoin ==
    ASSUME NEW S, NEW q \in Seq(S), NEW r \in Seq(S)
    PROVE  /\ q \o r \in Seq(S) /\ Len(q \o r) = Len(q) + Len(r)
           /\ \A i \in 1..Len(q) : (q \o r)[i] = q[i]
           /\ \A i \in 1..Len(r) : (q \o r)[Len(q) + i] = r[i]
           /\ Range(q \o r) = Range(q) \cup Range(r)
<1> DEFINE w == q \o r
<1>1. w \in Seq(S) /\ Len(w) = Len(q) + Len(r) /\ Len(q) \in Nat /\ Len(r) \in Nat OBVIOUS
<1>2. (\A i \in 1..Len(q) : w[i] = q[i]) /\ \A i \in 1..Len(r) : w[Len(q) + i] = r[i] OBVIOUS
<1> HIDE DEF w
<1>0. Range(w) = {w[i] : i \in 1..Len(w)} BY <1>1, InRange
<1>3. \A x \in Range(w) : x \in Range(q) \cup Range(r)
  <2> SUFFICES ASSUME NEW i \in 1..Len(w) PROVE w[i] \in Range(q) \cup Range(r) BY <1>0
  <2>1. CASE i \in 1..Len(q) BY <2>1, <1>2, InRange
  <2>2. CASE i > Len(q)
    <3>1. i - Len(q) \in 1..Len(r) /\ Len(q) + (i - Len(q)) = i BY <2>2, <1>1
    <3>2. w[i] = r[i - Len(q)] BY <3>1, <1>2
    <3> QED BY <3>1, <3>2, InRange
  <2> QED BY <2>1, <2>2, <1>1
<1>4. \A x \in Range(q) : x \in Range(w)
  <2> SUFFICES ASSUME NEW i \in 1..Len(q) PROVE q[i] \in Range(w) BY InRange
  <2>1. i \in 1..Len(w) /\ w[i] = q[i] BY <1>1, <1>2
  <2> QED BY <2>1, <1>0
<1>5. \A x \in Range(r) : x \in Range(w)
  <2> SUFFICES ASSUME NEW i \in 1..Len(r) PROVE r[i] \in Range(w) BY InRange
  <2>1. Len(q) + i \in 1..Len(w) /\ w[Len(q) + i] = r[i] BY <1>1, <1>2
  <2> QED BY <2>1, <1>0
<1> QED BY <1>1, <1>2, <1>3, <1>4, <1>5 DEF w

LEMMA RangeTail ==
    ASSUME NEW S, NEW q \in Seq(S), q # <<>>
    PROVE  /\ Tail(q) \in Seq(S) /\ Len(Tail(q)) = Len(q) - 1 /\ Len(q) >= 1
           /\ Head(q) = q[1] /\ Head(q) \in S
           /\ \A i \in 1..(Len(q) - 1) : Tail(q)[i] = q[i + 1]
           /\ Range(q) = {Head(q)} \cup Range(Tail(q))
<1> DEFINE w == Tail(q)
<1>1. /\ w \in Seq(S) /\ Len(w) = Len(q) - 1 /\ Len(q) >= 1 /\ Head(q) = q[1] /\ q[1] \in S
      /\ Len(q) \in Nat
      /\ \A i \in 1..(Len(q) - 1) : w[i] = q[i + 1]
  OBVIOUS
<1> HIDE DEF w
<1>0. Range(w) = {w[i] : i \in 1..Len(w)} BY <1>1, InRange
<1>2. \A x \in Range(q) : x \in {q[1]} \cup Range(w)
  <2> SUFFICES ASSUME NEW i \in 1..Len(q), i # 1 PROVE q[i] \in Range(w) BY InRange
  <2>1. i - 1 \in 1..Len(w) /\ w[i - 1] = q[i] BY <1>1
  <2> QED BY <2>1, <1>0
<1>3. \A x \in Range(w) : x \in Range(q)
  <2> SUFFICES ASSUME NEW i \in 1..Len(w) PROVE w[i] \in Range(q) BY <1>0
  <2>1. i + 1 \in 1..Len(q) /\ w[i] = q[i + 1] BY <1>1
  <2> QED BY <2>1, InRange
<1>4. q[1] \in Range(q)
  <2>1. 1 \in 1..Len(q) BY <1>1
  <2> QED BY <2>1, InRange
<1> QED BY <1>1, <1>2, <1>3, <1>4 DEF w

LEMMA AfterSeq ==
    ASSUME NEW S, NEW q \in Seq(S), NEW n \in 0..Len(q)
    PROVE  /\ After(q, n) \in Seq(S) /\ Len(After(q, n)) = Len(q) - n
           /\ \A i \in 1..(Len(q) - n) : After(q, n)[i] = q[n + i]
<1>1. Len(q) \in Nat /\ n + 1 \in Int OBVIOUS
<1>2. \A i \in (n + 1)..Len(q) : q[i] \in S OBVIOUS
<1>3. /\ After(q, n) \in Seq(S)
      /\ Len(After(q, n)) = IF n + 1 <= Len(q) THEN Len(q) - (n + 1) + 1 ELSE 0
      /\ \A i \in 1..(Len(q) - (n + 1) + 1) : After(q, n)[i] = q[(n + 1) + i - 1]
  BY <1>1, <1>2, SubSeqProperties DEF After
<1>4. \A i \in 1..(Len(q) - n) : (n + 1) + i - 1 = n + i /\ i \in 1..(Len(q) - (n + 1) + 1) BY <1>1
<1>5. (IF n + 1 <= Len(q) THEN Len(q) - (n + 1) + 1 ELSE 0) = Len(q) - n BY <1>1
<1> HIDE DEF After
<1> QED BY <1>3, <1>4, <1>5

(* The list of a set of positions has each of them once, in order.          *)
LEMMA ListedInOrder ==
    ASSUME NEW n \in Nat, NEW S \in SUBSET (1..n)
    PROVE  /\ Cardinality(S) \in Nat
           /\ Listed(S) \in [1..Cardinality(S) -> S]
           /\ \A i, j \in 1..Cardinality(S) : i < j => Listed(S)[i] < Listed(S)[j]
           /\ \A x \in S : \E i \in 1..Cardinality(S) : Listed(S)[i] = x
<1> DEFINE Upto(x) == {y \in S : y <= x}
           m == Cardinality(S)
           rank == [x \in S |-> Cardinality(Upto(x))]
<1>0. \A x \in S : x \in Int OBVIOUS
<1>1. IsFiniteSet(S) /\ m \in Nat
  <2>1. IsFiniteSet(1..n) BY FS_Interval
  <2>2. IsFiniteSet(S) BY <2>1, FS_Subset
  <2> QED BY <2>2, FS_CardinalityType
<1>2. ASSUME NEW x \in S
      PROVE  IsFiniteSet(Upto(x)) /\ rank[x] \in 1..m
  <2>1. Upto(x) \in SUBSET S OBVIOUS
  <2>2. IsFiniteSet(Upto(x)) /\ Cardinality(Upto(x)) <= m BY <2>1, <1>1, FS_Subset
  <2>3. x \in Upto(x) OBVIOUS
  <2>4. Cardinality(Upto(x)) \in Nat /\ Cardinality(Upto(x)) # 0
    BY <2>2, <2>3, FS_CardinalityType, FS_EmptySet
  <2> HIDE DEF Upto, m
  <2> QED BY <2>2, <2>4, <1>1
<1>3. ASSUME NEW x \in S, NEW y \in S, x < y
      PROVE  rank[x] < rank[y]
  <2>0. x \in Int /\ y \in Int /\ ~ (y <= x) /\ y <= y BY <1>0, <1>3
  <2>1. Upto(x) \in SUBSET Upto(y) /\ y \notin Upto(x) /\ y \in Upto(y)
    <3>1. \A z \in S : z <= x => z <= y BY <2>0, <1>0, <1>3
    <3> QED BY <3>1, <2>0
  <2>2. Upto(x) # Upto(y) BY <2>1
  <2>3. Cardinality(Upto(x)) < Cardinality(Upto(y)) BY <2>1, <2>2, <1>2, FS_Subset
  <2> QED BY <2>3
<1> HIDE DEF Upto, m
<1>4. rank \in [S -> 1..m] BY <1>2
<1>5. \A x, y \in S : rank[x] = rank[y] => x = y
  <2> SUFFICES ASSUME NEW x \in S, NEW y \in S, rank[x] = rank[y] PROVE x = y OBVIOUS
  <2>1. x \in Int /\ y \in Int /\ rank[x] \in Int BY <1>4, <1>1
  <2> QED BY <2>1, <1>3
<1>6. rank \in Injection(S, 1..m) BY <1>4, <1>5 DEF Injection, IsInjective
<1>7. IsFiniteSet(1..m) /\ Cardinality(1..m) = m
  <2>1. Cardinality(1..m) = IF 1 > m THEN 0 ELSE m - 1 + 1 BY <1>1, FS_Interval
  <2> QED BY <2>1, <1>1, FS_Interval
<1>8. rank \in Surjection(S, 1..m) BY <1>6, <1>7, FS_Injection DEF m
<1> HIDE DEF rank
<1>9. \A k \in 1..m : \E x \in S : rank[x] = k BY <1>8 DEF Surjection
<1> DEFINE q == [k \in 1..m |-> CHOOSE x \in S : rank[x] = k]
           InOrder(p) == \A i, j \in DOMAIN p : i < j => p[i] < p[j]
<1>10. \A k \in 1..m : q[k] \in S /\ rank[q[k]] = k BY <1>9
<1>11. q \in [1..m -> S] BY <1>10
<1> HIDE DEF q
<1>12. InOrder(q)
  <2> SUFFICES ASSUME NEW i \in 1..m, NEW j \in 1..m, i < j PROVE q[i] < q[j] BY <1>11
  <2>1. q[i] \in S /\ q[j] \in S /\ rank[q[i]] = i /\ rank[q[j]] = j BY <1>10
  <2>2. q[i] \in Int /\ q[j] \in Int BY <2>1, <1>0
  <2>3. q[j] < q[i] => j < i
    <3>1. q[j] < q[i] => rank[q[j]] < rank[q[i]] BY <2>1, <1>3
    <3> QED BY <3>1, <2>1
  <2>4. ~ (q[j] < q[i]) /\ q[i] # q[j] BY <2>1, <2>3, <1>1
  <2> QED BY <2>2, <2>4
<1>13. Listed(S) = CHOOSE p \in [1..m -> S] : InOrder(p) BY DEF Listed, m
<1>14. Listed(S) \in [1..m -> S] /\ InOrder(Listed(S)) BY <1>11, <1>12, <1>13
<1>15. \A i, j \in 1..m : i < j => Listed(S)[i] < Listed(S)[j] BY <1>14
<1>16. Listed(S) \in Injection(1..m, S)
  <2>1. \A i, j \in 1..m : Listed(S)[i] = Listed(S)[j] => i = j
    <3> SUFFICES ASSUME NEW i \in 1..m, NEW j \in 1..m, Listed(S)[i] = Listed(S)[j] PROVE i = j
      OBVIOUS
    <3>1. Listed(S)[i] \in S /\ Listed(S)[j] \in S BY <1>14
    <3>2. i \in Int /\ j \in Int BY <1>1
    <3>3. Listed(S)[i] \in Int /\ Listed(S)[j] \in Int BY <3>1, <1>0
    <3>4. ~ (i < j) /\ ~ (j < i) BY <3>3, <1>15
    <3> QED BY <3>2, <3>4
  <2> QED BY <1>14, <2>1 DEF Injection, IsInjective
<1>17. Listed(S) \in Surjection(1..m, S) BY <1>16, <1>7, <1>1, FS_Injection DEF m
<1>18. \A x \in S : \E i \in 1..m : Listed(S)[i] = x BY <1>17 DEF Surjection
<1> QED BY <1>1, <1>14, <1>15, <1>18 DEF m

-----------------------------------------------------------------------------
(* The inductive invariant.                                                 *)

(* a is a subsequence of the first n items of b.                            *)
Shown(a, b, n) ==
    \E f \in [1..Len(a) -> 1..n] :
        /\ \A i, j \in 1..Len(a) : i < j => f[i] < f[j]
        /\ \A i \in 1..Len(a) : a[i] = b[f[i]]

(* a has every delivery among the first n items of b.                       *)
Sees(a, b, n) == \A i \in 1..n : b[i] \in Deliveries => b[i] \in Range(a)

(* Rows that a call has stored and is about to publish: of its own, or also *)
(* all that earlier commits left.                                           *)
Gap(s) ==
    IF pc[s] \in {"prompted", "noted"} THEN 1
    ELSE IF pc[s] = "batchStored" THEN Len(batch[s]) ELSE 0
Loose(s) == pc[s] \in {"committed", "mailCommitted"}

(* A view is what the cursor covers of the history, and has every delivery  *)
(* up to there; the cursor is at its end but for the call under way.        *)
Projects(s) ==
    /\ lastSeq[s] + Gap(s) <= Len(stored[s]) /\ snap[s].covers <= Len(stored[s])
    /\ Shown(view[s], stored[s], lastSeq[s])
    /\ Shown(snap[s].items, stored[s], snap[s].covers)
    /\ ~ missed[s] =>
          /\ Sees(view[s], stored[s], lastSeq[s])
          /\ Sees(snap[s].items, stored[s], snap[s].covers)
          /\ Loose(s) \/ lastSeq[s] + Gap(s) = Len(stored[s])

(* With the durable inbox.  An id with a receipt has its row once, pending  *)
(* or in the history, and peers are there in the order of their sends.      *)
Before(x, y) == x # y /\ (x \in Peers /\ y \in Peers => Older(x, y))
InLine(q) ==
    \A i, j \in 1..Len(q) :
        i < j /\ q[i] \in Deliveries /\ q[j] \in Deliveries => Before(q[i], q[j])
Rows(s) ==
    /\ receipts[s] = Range(inbox[s]) \cup (Range(stored[s]) \cap Deliveries)
    /\ InLine(stored[s]) /\ InLine(inbox[s])
    /\ \A x \in Range(stored[s]) \cap Deliveries, y \in Range(inbox[s]) : Before(x, y)

(* Whoever received a message has received everything older that is still   *)
(* in the mailbox, and goes through a claim from its oldest message on.     *)
Received(s) == receipts[s] \cap Peers
Caught(s) ==
    \A i \in 1..Len(box) :
        box[i].msg \in receipts[s] \/ \A x \in Received(s) : Older(x, box[i].msg)
Batched(s) ==
    pc[s] = "claimed" =>
        /\ \A k, l \in 1..Len(batch[s]) : k < l => Older(batch[s][k], batch[s][l])
        /\ \A k \in 1..(todo[s] - 1) : batch[s][k] \in receipts[s]
        /\ \A k \in todo[s]..Len(batch[s]) :
              batch[s][k] \in receipts[s] \/ \A x \in Received(s) : Older(x, batch[s][k])
        /\ \A i \in 1..Len(box), k \in 1..Len(batch[s]) :
              box[i].msg \in Range(batch[s]) \/ Older(batch[s][k], box[i].msg)
Settled(s) ==
    pc[s] \in {"mailCommit", "mailCommitted", "acking"} => Range(batch[s]) \subseteq receipts[s]
Known(s) == Received(s) \cup Range(batch[s]) \subseteq Range(sent)

Posted ==
    /\ \A i \in 1..Len(box) : box[i].msg \in Range(sent)
    /\ \A m \in Range(sent) : \/ \E i \in 1..Len(box) : box[i].msg = m
                              \/ \E s \in Sessions : m \in receipts[s]
BoxInOrder == \A i, j \in 1..Len(box) : i < j => Older(box[i].msg, box[j].msg)

DurableInv ==
    durable =>
        /\ Posted /\ BoxInOrder
        /\ \A s \in Sessions :
              /\ Rows(s) /\ Caught(s) /\ Batched(s) /\ Settled(s) /\ Known(s) /\ queue[s] = <<>>

(* In memory.  A notification is in the queue or in the history, its head   *)
(* in both between the two steps of its append; a peer message is in the    *)
(* mailbox, in the hand of one drain, or in one history.                    *)
Hand(s) == IF pc[s] \in {"drained", "redeliver"} THEN Range(batch[s]) ELSE {}
Distinct(q) == \A i, j \in 1..Len(q) : q[i] = q[j] => i = j
Noted(s) ==
    /\ receipts[s] = Range(queue[s]) \cup (Range(stored[s]) \cap Notes)
    /\ Distinct(queue[s])
    /\ \A i \in 1..Len(queue[s]) :
          queue[s][i] \in Range(stored[s]) <=> (pc[s] = "noted" /\ i = 1)
Inside(s) == Hand(s) \cup (Range(stored[s]) \cap Peers)
InMail == {box[i].msg : i \in 1..Len(box)}

MemoryInv ==
    ~ durable =>
        /\ \A i, j \in 1..Len(box) : box[i].msg = box[j].msg => i = j
        /\ Range(sent) = InMail \cup UNION {Inside(s) : s \in Sessions}
        /\ \A s \in Sessions :
              /\ Noted(s) /\ Once(stored[s])
              /\ Hand(s) # {} => Distinct(batch[s])
              /\ Hand(s) \cap Range(stored[s]) = {}
              /\ InMail \cap Inside(s) = {}
        /\ \A s, t \in Sessions : s # t => Inside(s) \cap Inside(t) = {}

IInv == Typing /\ (\A s \in Sessions : Projects(s)) /\ DurableInv /\ MemoryInv

-----------------------------------------------------------------------------
(* Views.                                                                   *)

LEMMA ShownGrows ==
    ASSUME NEW a \in Seq(Message), NEW b \in Seq(Message), NEW c \in Seq(Message),
           NEW n \in 0..Len(b), Len(b) <= Len(c), \A i \in 1..Len(b) : c[i] = b[i]
    PROVE  /\ Shown(a, b, n) => Shown(a, c, n)
           /\ Sees(a, b, n) => Sees(a, c, n)
<1>1. \A i \in 1..n : i \in 1..Len(b) /\ c[i] = b[i] OBVIOUS
<1>2. Sees(a, b, n) => Sees(a, c, n) BY <1>1 DEF Sees
<1>3. ASSUME Shown(a, b, n) PROVE Shown(a, c, n)
  <2>1. PICK f \in [1..Len(a) -> 1..n] : /\ \A i, j \in 1..Len(a) : i < j => f[i] < f[j]
                                         /\ \A i \in 1..Len(a) : a[i] = b[f[i]]
    BY <1>3 DEF Shown
  <2>2. \A i \in 1..Len(a) : a[i] = c[f[i]] BY <2>1, <1>1
  <2> QED BY <2>1, <2>2 DEF Shown
<1> QED BY <1>2, <1>3

LEMMA ShownPublished ==
    ASSUME NEW a \in Seq(Message), NEW b \in Seq(Message), NEW n \in Nat, NEW k \in Nat,
           n <= k, k <= Len(b)
    PROVE  /\ a \o After(b, k) \in Seq(Message)
           /\ Shown(a, b, n) => Shown(a \o After(b, k), b, Len(b))
           /\ Sees(a, b, n) /\ n = k => Sees(a \o After(b, k), b, Len(b))
<1> DEFINE r == After(b, k)
           w == a \o r
<1>1. /\ r \in Seq(Message) /\ Len(r) = Len(b) - k
      /\ \A i \in 1..(Len(b) - k) : r[i] = b[k + i]
  <2>1. k \in 0..Len(b) OBVIOUS
  <2> QED BY <2>1, AfterSeq
<1> HIDE DEF r
<1>2. /\ w \in Seq(Message) /\ Len(w) = Len(a) + Len(r)
      /\ \A i \in 1..Len(a) : w[i] = a[i]
      /\ \A i \in 1..Len(r) : w[Len(a) + i] = r[i]
      /\ Range(w) = Range(a) \cup Range(r)
  BY <1>1, RangeJoin
<1> HIDE DEF w
<1>3. Len(a) \in Nat /\ Len(b) \in Nat /\ Len(r) \in Nat BY <1>1
<1>4. \A i \in (Len(a) + 1)..Len(w) : w[i] = b[k + (i - Len(a))] /\ k + (i - Len(a)) \in 1..Len(b)
  <2> TAKE i \in (Len(a) + 1)..Len(w)
  <2>1. i - Len(a) \in 1..Len(r) /\ Len(a) + (i - Len(a)) = i BY <1>2, <1>3
  <2>2. w[i] = r[i - Len(a)] BY <2>1, <1>2
  <2>3. r[i - Len(a)] = b[k + (i - Len(a))] BY <2>1, <1>1
  <2> QED BY <2>1, <2>2, <2>3, <1>1, <1>3
<1>5. ASSUME Shown(a, b, n) PROVE Shown(w, b, Len(b))
  <2>1. PICK f \in [1..Len(a) -> 1..n] : /\ \A i, j \in 1..Len(a) : i < j => f[i] < f[j]
                                         /\ \A i \in 1..Len(a) : a[i] = b[f[i]]
    BY <1>5 DEF Shown
  <2> DEFINE g == [i \in 1..Len(w) |-> IF i <= Len(a) THEN f[i] ELSE k + (i - Len(a))]
  <2>2. ASSUME NEW i \in 1..Len(w)
        PROVE  /\ g[i] \in 1..Len(b) /\ w[i] = b[g[i]]
               /\ i <= Len(a) => g[i] <= k
    <3>1. CASE i <= Len(a)
      <4>1. i \in 1..Len(a) /\ g[i] = f[i] BY <3>1, <1>3
      <4>2. f[i] \in 1..n /\ w[i] = b[f[i]] BY <4>1, <2>1, <1>2
      <4> QED BY <4>1, <4>2, <1>3
    <3>2. CASE ~ (i <= Len(a))
      <4>1. i \in (Len(a) + 1)..Len(w) /\ g[i] = k + (i - Len(a)) BY <3>2, <1>2, <1>3
      <4> QED BY <4>1, <1>4, <3>2
    <3> QED BY <3>1, <3>2
  <2>3. ASSUME NEW i \in 1..Len(w), NEW j \in 1..Len(w), i < j PROVE g[i] < g[j]
    <3>1. CASE j <= Len(a)
      <4>1. i \in 1..Len(a) /\ j \in 1..Len(a) /\ g[i] = f[i] /\ g[j] = f[j]
        BY <3>1, <2>3, <1>3
      <4> QED BY <4>1, <2>1, <2>3
    <3>2. CASE ~ (j <= Len(a))
      <4>1. g[j] = k + (j - Len(a)) BY <3>2
      <4>2. CASE i <= Len(a)
        <5>1. g[i] <= k /\ g[i] \in 1..Len(b) BY <4>2, <2>2
        <5> HIDE DEF g
        <5> QED BY <4>1, <5>1, <3>2, <1>3
      <4>3. CASE ~ (i <= Len(a))
        <5>1. g[i] = k + (i - Len(a)) BY <4>3
        <5> HIDE DEF g
        <5> QED BY <4>1, <5>1, <2>3, <1>3
      <4> QED BY <4>2, <4>3
    <3> QED BY <3>1, <3>2
  <2>4. g \in [1..Len(w) -> 1..Len(b)] BY <2>2
  <2> HIDE DEF g
  <2> QED BY <2>2, <2>3, <2>4 DEF Shown
<1>6. ASSUME Sees(a, b, n), n = k PROVE Sees(w, b, Len(b))
  <2> SUFFICES ASSUME NEW i \in 1..Len(b), b[i] \in Deliveries PROVE b[i] \in Range(w)
    BY DEF Sees
  <2>1. CASE i <= n
    <3>1. i \in 1..n BY <2>1
    <3> QED BY <3>1, <1>6, <1>2 DEF Sees
  <2>2. CASE ~ (i <= n)
    <3>1. i - k \in 1..(Len(b) - k) /\ k + (i - k) = i BY <2>2, <1>6, <1>3
    <3>2. r[i - k] = b[i] /\ i - k \in 1..Len(r) BY <3>1, <1>1
    <3>3. r[i - k] \in Range(r) BY <3>2, <1>1, InRange
    <3> QED BY <3>2, <3>3, <1>2
  <2> QED BY <2>1, <2>2
<1> QED BY <1>2, <1>5, <1>6 DEF w, r

(* A view has nothing twice that the history has once.                      *)
LEMMA ShownOnce ==
    ASSUME NEW a \in Seq(Message), NEW b \in Seq(Message), NEW n \in Nat, n <= Len(b),
           Shown(a, b, n)
    PROVE  /\ IsSubsequence(a, b)
           /\ Once(b) => Once(a)
<1>1. PICK f \in [1..Len(a) -> 1..n] : /\ \A i, j \in 1..Len(a) : i < j => f[i] < f[j]
                                       /\ \A i \in 1..Len(a) : a[i] = b[f[i]]
  BY DEF Shown
<1>2. f \in [1..Len(a) -> 1..Len(b)] BY <1>1
<1>3. IsSubsequence(a, b) BY <1>1, <1>2 DEF IsSubsequence
<1>4. ASSUME Once(b), NEW i \in 1..Len(a), NEW j \in 1..Len(a), a[i] \in Deliveries, a[i] = a[j]
      PROVE  i = j
  <2>1. b[f[i]] = b[f[j]] /\ b[f[i]] \in Deliveries /\ f[i] \in 1..Len(b) /\ f[j] \in 1..Len(b)
    BY <1>1, <1>2, <1>4
  <2>2. f[i] = f[j] BY <2>1, <1>4 DEF Once
  <2>3. ~ (i < j) /\ ~ (j < i) BY <2>2, <2>1, <1>1
  <2> QED BY <2>3
<1> QED BY <1>3, <1>4 DEF Once

-----------------------------------------------------------------------------
(* Typing.                                                                  *)

Stores(s) == StartRun(s) \/ CommitNotes(s) \/ AppendNote(s) \/ CommitPeers(s) \/ AppendBatch(s)
Publishes(s) == PromptAppended(s) \/ NotesCommitted(s) \/ NoteAppended(s)
                \/ PeersCommitted(s) \/ BatchAppended(s)
OnBox(s) == Claim(s) \/ Ack(s) \/ Release(s) \/ DrainMail(s) \/ Redeliver(s)
Fails(s) == CancelCommit(s) \/ Interrupt(s) \/ LoseReply(s) \/ Crash(s)
Acts(s) ==
    \/ Stores(s) \/ Publishes(s) \/ OnBox(s) \/ Fails(s)
    \/ ResumeRun(s) \/ Turn(s) \/ BeginDrain(s) \/ ClaimNothing(s) \/ EnqueuePeer(s)

LEMMA InboxCases ==
    ASSUME [Next]_vars
    PROVE  \/ \E m \in Peers : Send(m)
           \/ \E s \in Sessions, n \in Notes : Notify(s, n)
           \/ \E s \in Sessions : Acts(s)
           \/ \E i \in 1..Len(box) : Expire(i)
           \/ UNCHANGED vars
BY DEF Next, Progress, Acts, Stores, Publishes, OnBox, Fails

(* Boxes.                                                                   *)
LEMMA AckedBoxIs ==
    ASSUME Typing, NEW s \in Sessions
    PROVE  /\ AckedBox(s) \in Seq(Entry)
           /\ \A i \in 1..Len(AckedBox(s)) :
                 \E j \in 1..Len(box) : AckedBox(s)[i] = box[j] /\ ~ Holds(s, box[j])
           /\ \A i, j \in 1..Len(AckedBox(s)) : i < j =>
                 \E k, l \in 1..Len(box) : k < l /\ AckedBox(s)[i] = box[k] /\ AckedBox(s)[j] = box[l]
           /\ \A j \in 1..Len(box) : ~ Holds(s, box[j]) =>
                 \E i \in 1..Len(AckedBox(s)) : AckedBox(s)[i] = box[j]
<1> DEFINE S == {i \in 1..Len(box) : ~ Holds(s, box[i])}
           w == [k \in 1..Cardinality(S) |-> box[Listed(S)[k]]]
<1>1. AckedBox(s) = w BY DEF AckedBox
<1>2. Len(box) \in Nat /\ S \in SUBSET (1..Len(box)) /\ box \in [1..Len(box) -> Entry]
  BY DEF Typing, TypedBox, TypedClaims
<1>3. /\ Cardinality(S) \in Nat
      /\ Listed(S) \in [1..Cardinality(S) -> S]
      /\ \A i, j \in 1..Cardinality(S) : i < j => Listed(S)[i] < Listed(S)[j]
      /\ \A x \in S : \E i \in 1..Cardinality(S) : Listed(S)[i] = x
  BY <1>2, ListedInOrder
<1>4. \A k \in 1..Cardinality(S) :
         Listed(S)[k] \in 1..Len(box) /\ ~ Holds(s, box[Listed(S)[k]])
  BY <1>3
<1> HIDE DEF S
<1>5. \A k \in 1..Cardinality(S) : box[Listed(S)[k]] \in Entry BY <1>2, <1>4
<1>6. w \in [1..Cardinality(S) -> Entry] BY <1>5
<1>7. w \in Seq(Entry) /\ Len(w) = Cardinality(S)
  <2> HIDE DEF w
  <2> QED BY <1>6, <1>3, FunIsSeq
<1>8. \A k \in 1..Len(w) : w[k] = box[Listed(S)[k]] BY <1>7
<1> HIDE DEF w
<1>9. \A j \in 1..Len(box) : ~ Holds(s, box[j]) => \E i \in 1..Len(w) : w[i] = box[j]
  <2> SUFFICES ASSUME NEW j \in 1..Len(box), ~ Holds(s, box[j])
               PROVE  \E i \in 1..Len(w) : w[i] = box[j]
    OBVIOUS
  <2>1. j \in S BY DEF S
  <2>2. PICK i \in 1..Cardinality(S) : Listed(S)[i] = j BY <2>1, <1>3
  <2> QED BY <2>2, <1>7, <1>8
<1>10. \A i, j \in 1..Len(w) : i < j =>
           \E k, l \in 1..Len(box) : k < l /\ w[i] = box[k] /\ w[j] = box[l]
  BY <1>3, <1>4, <1>7, <1>8
<1>11. \A i \in 1..Len(w) : \E j \in 1..Len(box) : w[i] = box[j] /\ ~ Holds(s, box[j])
  BY <1>4, <1>7, <1>8
<1> DEFINE Good(q) ==
              /\ q \in Seq(Entry)
              /\ \A i \in 1..Len(q) : \E j \in 1..Len(box) : q[i] = box[j] /\ ~ Holds(s, box[j])
              /\ \A i, j \in 1..Len(q) : i < j =>
                    \E k, l \in 1..Len(box) : k < l /\ q[i] = box[k] /\ q[j] = box[l]
              /\ \A j \in 1..Len(box) : ~ Holds(s, box[j]) => \E i \in 1..Len(q) : q[i] = box[j]
<1>12. Good(w) BY <1>7, <1>9, <1>10, <1>11
<1> HIDE DEF Good
<1>13. Good(AckedBox(s)) BY <1>1, <1>12
<1> QED BY <1>13 DEF Good

LEMMA ReleasedBoxIs ==
    ASSUME Typing, NEW s \in Sessions
    PROVE  /\ ReleasedBox(s) \in Seq(Entry) /\ Len(ReleasedBox(s)) = Len(box)
           /\ \A i \in 1..Len(box) :
                 /\ ReleasedBox(s)[i].msg = box[i].msg
                 /\ ReleasedBox(s)[i].live => ReleasedBox(s)[i] = box[i]
<1> DEFINE w == ReleasedBox(s)
           e(i) == [box[i] EXCEPT !.tok = NoToken, !.live = FALSE]
<1>1. Len(box) \in Nat /\ box \in [1..Len(box) -> Entry] BY DEF Typing, TypedBox, TypedClaims
<1>2. \A i \in 1..Len(box) : e(i) \in Entry /\ e(i).msg = box[i].msg /\ e(i).live = FALSE
  BY <1>1 DEF Entry
<1>3. w = [i \in 1..Len(box) |-> IF Holds(s, box[i]) THEN e(i) ELSE box[i]] BY DEF ReleasedBox
<1> HIDE DEF e
<1>4. w \in [1..Len(box) -> Entry] BY <1>1, <1>2, <1>3
<1>5. w \in Seq(Entry) /\ Len(w) = Len(box) BY <1>4, <1>1
<1>6. \A i \in 1..Len(box) : w[i].msg = box[i].msg /\ (w[i].live => w[i] = box[i])
  BY <1>2, <1>3
<1> QED BY <1>5, <1>6

(* What a claim takes is the front of the mailbox.                          *)
LEMMA ClaimIs ==
    ASSUME Typing, NEW s \in Sessions, Claim(s)
    PROVE  /\ box' \in Seq(Entry) /\ Len(box') = Len(box)
           /\ \A i \in 1..Len(box) : box'[i].msg = box[i].msg
           /\ \A i \in 1..Len(box) : box'[i].live => box'[i].tok # NoToken
           /\ batch'[s] \in Seq(Peers) /\ batch'[s] # <<>>
           /\ \A k, l \in 1..Len(batch'[s]) : k < l =>
                 \E i, j \in 1..Len(box) :
                    i < j /\ batch'[s][k] = box[i].msg /\ batch'[s][l] = box[j].msg
           /\ \A k \in 1..Len(batch'[s]) : \E i \in 1..Len(box) : batch'[s][k] = box[i].msg
           /\ \A i \in 1..Len(box), k \in 1..Len(batch'[s]) :
                 \/ box[i].msg \in Range(batch'[s])
                 \/ \E j \in 1..Len(box) : j < i /\ batch'[s][k] = box[j].msg
<1> DEFINE S == Claimable
           w == [k \in 1..Cardinality(S) |-> box[Listed(S)[k]].msg]
           e(i) == [box[i] EXCEPT !.tok = TokenFor(s), !.live = TRUE]
<1>1. /\ Len(box) \in Nat /\ S \in SUBSET (1..Len(box)) /\ box \in [1..Len(box) -> Entry]
      /\ S # {} /\ \A i \in S : \A j \in 1..i : j \in S
  <2>1. Len(box) \in Nat /\ S \in SUBSET (1..Len(box)) /\ box \in [1..Len(box) -> Entry]
    BY DEF Typing, TypedBox, Claimable
  <2>2. ASSUME NEW i \in S, NEW j \in 1..i PROVE j \in S
    <3>1. i \in 1..Len(box) /\ \A k \in 1..i : ~ box[k].live BY DEF Claimable
    <3>2. j \in 1..Len(box) /\ \A k \in 1..j : k \in 1..i BY <3>1, <2>1
    <3> QED BY <3>1, <3>2 DEF Claimable
  <2>3. S # {} BY Zenon DEF Claim
  <2> QED BY <2>1, <2>2, <2>3
<1>2. TokenFor(s) \in Tokens /\ TokenFor(s) # NoToken
  <2>1. claimed[s] + 1 \in Nat BY DEF Typing, TypedBox, TypedClaims
  <2>2. TokenFor(s) \in Sessions \X Nat BY <2>1 DEF TokenFor
  <2> QED BY <2>2, InboxAssumption DEF Tokens
<1>3. /\ box' = [i \in 1..Len(box) |-> IF i \in S THEN e(i) ELSE box[i]]
      /\ batch'[s] = w
  <2>1. box' = [i \in 1..Len(box) |-> IF i \in S THEN e(i) ELSE box[i]] BY Zenon DEF Claim
  <2>2. batch' = [batch EXCEPT ![s] = w] BY Zenon DEF Claim
  <2>3. DOMAIN batch = Sessions BY DEF Typing, TypedBox, TypedClaims
  <2> HIDE DEF w
  <2> QED BY <2>1, <2>2, <2>3
<1>4. \A i \in 1..Len(box) :
         e(i) \in Entry /\ e(i).msg = box[i].msg /\ e(i).tok = TokenFor(s)
  BY <1>1, <1>2 DEF Entry
<1>5. \A i \in 1..Len(box) : box[i].live => box[i].tok # NoToken BY DEF Typing, TypedBox, TypedClaims
<1>6. /\ Cardinality(S) \in Nat
      /\ Listed(S) \in [1..Cardinality(S) -> S]
      /\ \A i, j \in 1..Cardinality(S) : i < j => Listed(S)[i] < Listed(S)[j]
      /\ \A x \in S : \E i \in 1..Cardinality(S) : Listed(S)[i] = x
  BY <1>1, ListedInOrder
<1> HIDE DEF S, e
<1>7. box' \in [1..Len(box) -> Entry] BY <1>1, <1>3, <1>4
<1>8. box' \in Seq(Entry) /\ Len(box') = Len(box) BY <1>7, <1>1
<1>9. \A i \in 1..Len(box) :
         box'[i].msg = box[i].msg /\ (box'[i].live => box'[i].tok # NoToken)
  BY <1>2, <1>3, <1>4, <1>5
<1>10. \A k \in 1..Cardinality(S) : Listed(S)[k] \in S /\ Listed(S)[k] \in 1..Len(box)
  BY <1>1, <1>6
<1>11. \A k \in 1..Cardinality(S) : box[Listed(S)[k]].msg \in Peers BY <1>1, <1>10 DEF Entry
<1>12. w \in [1..Cardinality(S) -> Peers] BY <1>11
<1>13. w \in Seq(Peers) /\ Len(w) = Cardinality(S)
  <2> HIDE DEF w
  <2> QED BY <1>12, <1>6, FunIsSeq
<1>14. \A k \in 1..Len(w) : w[k] = box[Listed(S)[k]].msg BY <1>13
<1> HIDE DEF w
<1>15. w # <<>>
  <2>1. PICK x \in S : TRUE BY <1>1
  <2>2. PICK k \in 1..Cardinality(S) : Listed(S)[k] = x BY <1>6
  <2>3. Len(w) # 0 BY <2>2, <1>13, <1>6
  <2> QED BY <2>3
<1>16. \A k, l \in 1..Len(w) : k < l =>
          \E i, j \in 1..Len(box) : i < j /\ w[k] = box[i].msg /\ w[l] = box[j].msg
  <2> SUFFICES ASSUME NEW k \in 1..Len(w), NEW l \in 1..Len(w), k < l
               PROVE  \E i, j \in 1..Len(box) : i < j /\ w[k] = box[i].msg /\ w[l] = box[j].msg
    OBVIOUS
  <2>1. k \in 1..Cardinality(S) /\ l \in 1..Cardinality(S) BY <1>13
  <2>2. Listed(S)[k] < Listed(S)[l] BY <2>1, <1>6
  <2>3. Listed(S)[k] \in 1..Len(box) /\ Listed(S)[l] \in 1..Len(box) BY <2>1, <1>10
  <2> QED BY <2>2, <2>3, <1>14
<1>17. \A k \in 1..Len(w) : \E i \in 1..Len(box) : w[k] = box[i].msg
  BY <1>10, <1>13, <1>14
<1>18. ASSUME NEW i \in 1..Len(box), NEW k \in 1..Len(w)
       PROVE  \/ box[i].msg \in Range(w)
              \/ \E j \in 1..Len(box) : j < i /\ w[k] = box[j].msg
  <2>1. CASE i \in S
    <3>1. PICK l \in 1..Cardinality(S) : Listed(S)[l] = i BY <2>1, <1>6
    <3>2. l \in 1..Len(w) /\ w[l] = box[i].msg BY <3>1, <1>13, <1>14
    <3>3. w[l] \in Range(w) BY <3>2, <1>13, InRange
    <3> QED BY <3>2, <3>3
  <2>2. CASE i \notin S
    <3>1. k \in 1..Cardinality(S) /\ w[k] = box[Listed(S)[k]].msg BY <1>13, <1>14
    <3>2. Listed(S)[k] \in S /\ Listed(S)[k] \in 1..Len(box) BY <3>1, <1>10
    <3>3. ~ (i <= Listed(S)[k])
      <4>1. i <= Listed(S)[k] => i \in 1..Listed(S)[k] BY <3>2
      <4> QED BY <4>1, <3>2, <1>1, <2>2
    <3>4. Listed(S)[k] < i BY <3>2, <3>3
    <3> QED BY <3>1, <3>2, <3>4
  <2> QED BY <2>1, <2>2
<1> QED BY <1>3, <1>8, <1>9, <1>13, <1>15, <1>16, <1>17, <1>18

(* The log.                                                                 *)
LEMMA PublishesIs ==
    ASSUME Typing, NEW s \in Sessions, Projects(s), Publishes(s)
    PROVE  \E k \in Nat :
              /\ lastSeq[s] <= k /\ k <= Len(stored[s]) /\ Len(stored[s]) \in Nat
              /\ Loose(s) \/ lastSeq[s] + Gap(s) = Len(stored[s]) => k = lastSeq[s]
              /\ view' = [view EXCEPT ![s] = @ \o After(stored[s], k)]
              /\ lastSeq' = [lastSeq EXCEPT ![s] = Len(stored[s])]
              /\ UNCHANGED <<stored, snap, missed>>
<1> DEFINE N == Len(stored[s])
           From(k) ==
              /\ lastSeq[s] <= k /\ k <= N /\ N \in Nat
              /\ Loose(s) \/ lastSeq[s] + Gap(s) = N => k = lastSeq[s]
              /\ view' = [view EXCEPT ![s] = @ \o After(stored[s], k)]
              /\ lastSeq' = [lastSeq EXCEPT ![s] = N]
              /\ UNCHANGED <<stored, snap, missed>>
<1>1. /\ N \in Nat /\ lastSeq[s] \in Nat /\ Len(batch[s]) \in Nat
      /\ lastSeq[s] + Gap(s) <= N
  BY DEF Typing, TypedLog, TypedClaims, Projects
<1>2. ASSUME NEW n \in Nat, Publish(s, n), UNCHANGED <<snap, missed>>
      PROVE  /\ view' = [view EXCEPT ![s] = @ \o After(stored[s], N - n)]
             /\ lastSeq' = [lastSeq EXCEPT ![s] = N]
             /\ UNCHANGED <<stored, snap, missed>>
  BY <1>2, Zenon DEF Publish
<1>3. ASSUME PromptAppended(s) \/ NoteAppended(s) PROVE From(N - 1) /\ N - 1 \in Nat
  <2>1. Gap(s) = 1 /\ ~ Loose(s) BY <1>3 DEF PromptAppended, NoteAppended, Gap, Loose
  <2>2. Publish(s, 1) /\ UNCHANGED <<snap, missed>> BY <1>3 DEF PromptAppended, NoteAppended
  <2>3. /\ view' = [view EXCEPT ![s] = @ \o After(stored[s], N - 1)]
        /\ lastSeq' = [lastSeq EXCEPT ![s] = N] /\ UNCHANGED <<stored, snap, missed>>
    BY <2>2, <1>2
  <2>4. /\ N - 1 \in Nat /\ lastSeq[s] <= N - 1 /\ N - 1 <= N
        /\ lastSeq[s] + Gap(s) = N => N - 1 = lastSeq[s]
    <3> HIDE DEF N
    <3> QED BY <1>1, <2>1
  <2> HIDE DEF N
  <2> QED BY <1>1, <2>1, <2>3, <2>4
<1>4. ASSUME BatchAppended(s) PROVE From(N - Len(batch[s])) /\ N - Len(batch[s]) \in Nat
  <2>1. Gap(s) = Len(batch[s]) /\ ~ Loose(s) BY <1>4 DEF BatchAppended, Gap, Loose
  <2>2. Publish(s, Len(batch[s])) /\ UNCHANGED <<snap, missed>> BY <1>4 DEF BatchAppended
  <2>3. /\ view' = [view EXCEPT ![s] = @ \o After(stored[s], N - Len(batch[s]))]
        /\ lastSeq' = [lastSeq EXCEPT ![s] = N] /\ UNCHANGED <<stored, snap, missed>>
    BY <2>2, <1>1, <1>2
  <2>4. /\ N - Len(batch[s]) \in Nat /\ lastSeq[s] <= N - Len(batch[s])
        /\ N - Len(batch[s]) <= N
        /\ lastSeq[s] + Gap(s) = N => N - Len(batch[s]) = lastSeq[s]
    <3> HIDE DEF N
    <3> QED BY <1>1, <2>1
  <2> HIDE DEF N
  <2> QED BY <1>1, <2>1, <2>3, <2>4
<1>5. ASSUME NotesCommitted(s) \/ PeersCommitted(s) PROVE From(lastSeq[s])
  <2>1. Gap(s) = 0 BY <1>5 DEF NotesCommitted, PeersCommitted, Gap
  <2>2. Unseen(s) \in Nat /\ N - Unseen(s) = lastSeq[s]
    <3>1. Unseen(s) = N - lastSeq[s] BY DEF Unseen
    <3> HIDE DEF N
    <3> QED BY <3>1, <2>1, <1>1
  <2>3. Publish(s, Unseen(s)) /\ UNCHANGED <<snap, missed>>
    BY <1>5 DEF NotesCommitted, PublishNotes, PeersCommitted
  <2>4. /\ view' = [view EXCEPT ![s] = @ \o After(stored[s], N - Unseen(s))]
        /\ lastSeq' = [lastSeq EXCEPT ![s] = N] /\ UNCHANGED <<stored, snap, missed>>
    BY <2>2, <2>3, <1>2
  <2>5. /\ view' = [view EXCEPT ![s] = @ \o After(stored[s], lastSeq[s])]
        /\ lastSeq' = [lastSeq EXCEPT ![s] = N] /\ UNCHANGED <<stored, snap, missed>>
    BY <2>2, <2>4, Zenon
  <2>6. lastSeq[s] <= lastSeq[s] /\ lastSeq[s] <= N /\ N \in Nat
    <3> HIDE DEF N
    <3> QED BY <1>1, <2>1
  <2> HIDE DEF N
  <2> QED BY <2>5, <2>6, Zenon
<1> HIDE DEF From
<1>6. \E k \in Nat : From(k) BY <1>1, <1>3, <1>4, <1>5 DEF Publishes
<1> QED BY <1>6 DEF From

LEMMA StoresIs ==
    ASSUME Typing, NEW s \in Sessions, Stores(s)
    PROVE  \E items \in Seq(Message) :
              /\ stored' = [stored EXCEPT ![s] = @ \o items]
              /\ UNCHANGED <<view, lastSeq, snap, missed>>
              /\ CommitNotes(s) \/ CommitPeers(s) => items = inbox[s]
              /\ StartRun(s) => items = <<runs + 1>>
              /\ AppendNote(s) => items = <<Head(queue[s])>>
              /\ AppendBatch(s) => items = batch[s]
<1>1. /\ inbox[s] \in Seq(Message) /\ batch[s] \in Seq(Message)
      /\ queue[s] \in Seq(Notes) /\ runs + 1 \in Nat
  BY DEF Typing, TypedRows, TypedClaims, TypedRuns, Message, Deliveries
<1>2. CASE CommitNotes(s) \/ CommitPeers(s)
  <2>1. Committed(s) /\ UNCHANGED <<snap, missed>> /\ pc[s] \in {"top", "mailCommit"}
    BY <1>2 DEF CommitNotes, CommitPeers
  <2>2. durable BY <1>2, <2>1 DEF CommitNotes, CommitPeers, Typing, Fits, Fitting, WithInbox
  <2>3. ~ StartRun(s) /\ ~ AppendNote(s) /\ ~ AppendBatch(s)
    BY <2>1 DEF StartRun, AppendNote, AppendBatch
  <2> QED BY <1>1, <2>1, <2>3 DEF Committed
<1>3. CASE StartRun(s)
  <2>1. Stored(s, <<runs + 1>>) /\ UNCHANGED <<snap, missed>> /\ pc[s] = "idle" BY <1>3 DEF StartRun
  <2>2. ~ CommitNotes(s) /\ ~ CommitPeers(s) /\ ~ AppendNote(s) /\ ~ AppendBatch(s)
    BY <2>1 DEF CommitNotes, CommitPeers, AppendNote, AppendBatch
  <2>3. <<runs + 1>> \in Seq(Message) BY <1>1 DEF Message
  <2> QED BY <2>1, <2>2, <2>3 DEF Stored
<1>4. CASE AppendNote(s)
  <2>1. Stored(s, <<Head(queue[s])>>) /\ UNCHANGED <<snap, missed>> /\ pc[s] = "drain"
    BY <1>4 DEF AppendNote
  <2>2. ~ CommitNotes(s) /\ ~ CommitPeers(s) /\ ~ StartRun(s) /\ ~ AppendBatch(s)
    BY <2>1 DEF CommitNotes, CommitPeers, StartRun, AppendBatch
  <2>3. queue[s] # <<>> BY <2>1 DEF Typing, Fits, Fitting
  <2>4. Head(queue[s]) \in Notes BY <2>3, <1>1, RangeTail
  <2>5. <<Head(queue[s])>> \in Seq(Message) BY <2>4 DEF Message, Deliveries
  <2> QED BY <2>1, <2>2, <2>5 DEF Stored
<1>5. CASE AppendBatch(s)
  <2>1. Stored(s, batch[s]) /\ UNCHANGED <<snap, missed>> /\ pc[s] = "drained" BY <1>5 DEF AppendBatch
  <2>2. ~ CommitNotes(s) /\ ~ CommitPeers(s) /\ ~ StartRun(s) /\ ~ AppendNote(s)
    BY <2>1 DEF CommitNotes, CommitPeers, StartRun, AppendNote
  <2> QED BY <1>1, <2>1, <2>2 DEF Stored
<1> QED BY <1>2, <1>3, <1>4, <1>5 DEF Stores

LEMMA CrashIs ==
    ASSUME Typing, NEW s \in Sessions, Projects(s), Crash(s)
    PROVE  /\ view' = [view EXCEPT ![s] = snap[s].items \o After(stored[s], snap[s].covers)]
           /\ lastSeq' = [lastSeq EXCEPT ![s] = Len(stored[s])]
           /\ snap[s].items \o After(stored[s], snap[s].covers) \in Seq(Message)
           /\ UNCHANGED <<stored, snap, missed>>
<1>1. snap[s].items \in Seq(Message) /\ stored[s] \in Seq(Message) /\ snap[s].covers \in Nat
      /\ snap[s].covers <= Len(stored[s])
  BY DEF Typing, TypedLog, Projects
<1>2. snap[s].covers \in 0..Len(stored[s]) BY <1>1
<1>3. After(stored[s], snap[s].covers) \in Seq(Message) BY <1>1, <1>2, AfterSeq
<1>4. snap[s].items \o After(stored[s], snap[s].covers) \in Seq(Message) BY <1>1, <1>3
<1> QED BY <1>4 DEF Crash, Restored

LEMMA LogSame ==
    ASSUME NEW s \in Sessions, Acts(s)
    PROVE  \/ UNCHANGED <<log, snap>> \/ Stores(s) \/ Publishes(s) \/ Crash(s) \/ Turn(s)
BY Zenon DEF Acts, OnBox, Fails, ResumeRun, BeginDrain, ClaimNothing, EnqueuePeer, Claim, Ack,
   Release, DrainMail, Redeliver, CancelCommit, Interrupt, LoseReply

LEMMA LogTyped ==
    ASSUME Typing, \A s \in Sessions : Projects(s), [Next]_vars
    PROVE  TypedLog'
<1>1. CASE UNCHANGED <<log, snap>> BY <1>1 DEF Typing, TypedLog, log
<1>2. ASSUME NEW s \in Sessions, Stores(s) PROVE TypedLog'
  <2>1. PICK items \in Seq(Message) : /\ stored' = [stored EXCEPT ![s] = @ \o items]
                                      /\ UNCHANGED <<view, lastSeq, snap>>
    BY <1>2, StoresIs
  <2> QED BY <2>1 DEF Typing, TypedLog
<1>3. ASSUME NEW s \in Sessions, Publishes(s) PROVE TypedLog'
  <2>1. PICK k \in Nat : /\ k <= Len(stored[s]) /\ Len(stored[s]) \in Nat
                         /\ view' = [view EXCEPT ![s] = @ \o After(stored[s], k)]
                         /\ lastSeq' = [lastSeq EXCEPT ![s] = Len(stored[s])]
                         /\ UNCHANGED <<stored, snap>>
    BY <1>3, PublishesIs
  <2>2. view[s] \in Seq(Message) /\ stored[s] \in Seq(Message) /\ k \in 0..Len(stored[s])
    BY <2>1 DEF Typing, TypedLog
  <2>3. After(stored[s], k) \in Seq(Message) BY <2>2, AfterSeq
  <2> QED BY <2>1, <2>2, <2>3 DEF Typing, TypedLog
<1>4. ASSUME NEW s \in Sessions, Crash(s) PROVE TypedLog'
  <2>1. Len(stored[s]) \in Nat BY DEF Typing, TypedLog
  <2> QED BY <1>4, <2>1, CrashIs DEF Typing, TypedLog
<1>5. ASSUME NEW s \in Sessions, Turn(s) PROVE TypedLog'
  <2>0. [items |-> view[s], covers |-> lastSeq[s]] \in [items : Seq(Message), covers : Nat]
    BY DEF Typing, TypedLog
  <2>1. /\ snap' \in [Sessions -> [items : Seq(Message), covers : Nat]]
        /\ UNCHANGED log
    <3>1. UNCHANGED log /\ \/ snap' = [snap EXCEPT ![s] = [items |-> view[s], covers |-> lastSeq[s]]]
                           \/ snap' = snap
      BY <1>5, Zenon DEF Turn
    <3>2. snap \in [Sessions -> [items : Seq(Message), covers : Nat]] BY DEF Typing, TypedLog
    <3> QED BY <3>1, <3>2, <2>0
  <2> QED BY <2>1 DEF Typing, TypedLog, log
<1>7. (\E m \in Peers : Send(m)) \/ (\E s \in Sessions, n \in Notes : Notify(s, n))
      \/ (\E i \in 1..Len(box) : Expire(i)) \/ UNCHANGED vars => UNCHANGED <<log, snap>>
  BY DEF Send, Notify, Expire, vars
<1> QED BY <1>1, <1>2, <1>3, <1>4, <1>5, <1>7, LogSame, InboxCases


(* A step of one session leaves the others alone.                           *)
Same(t) ==
    /\ inbox'[t] = inbox[t] /\ receipts'[t] = receipts[t] /\ queue'[t] = queue[t]
    /\ stored'[t] = stored[t] /\ view'[t] = view[t] /\ lastSeq'[t] = lastSeq[t] /\ snap'[t] = snap[t]
    /\ pc'[t] = pc[t] /\ todo'[t] = todo[t] /\ batch'[t] = batch[t] /\ token'[t] = token[t]
    /\ missed'[t] = missed[t] /\ raising'[t] = raising[t]

LEMMA Others ==
    ASSUME Typing, NEW s \in Sessions, NEW t \in Sessions, t # s, Acts(s)
    PROVE  Same(t)
<1> USE DEF Same, Go, mail, rows, log, bounds, Fault
<1>0. /\ DOMAIN inbox = Sessions /\ DOMAIN receipts = Sessions /\ DOMAIN queue = Sessions
      /\ DOMAIN stored = Sessions /\ DOMAIN view = Sessions /\ DOMAIN lastSeq = Sessions
      /\ DOMAIN snap = Sessions /\ DOMAIN pc = Sessions /\ DOMAIN todo = Sessions
      /\ DOMAIN batch = Sessions /\ DOMAIN token = Sessions /\ DOMAIN missed = Sessions
      /\ DOMAIN raising = Sessions
  BY DEF Typing, TypedLog, TypedRows, TypedClaims, TypedRuns
<1>1. ASSUME StartRun(s) PROVE Same(t) BY <1>0, <1>1 DEF StartRun, Stored
<1>2. ASSUME CommitNotes(s) PROVE Same(t) BY <1>0, <1>2 DEF CommitNotes, Committed
<1>3. ASSUME AppendNote(s) PROVE Same(t) BY <1>0, <1>3 DEF AppendNote, Stored
<1>4. ASSUME CommitPeers(s) PROVE Same(t) BY <1>0, <1>4 DEF CommitPeers, Committed
<1>5. ASSUME AppendBatch(s) PROVE Same(t) BY <1>0, <1>5 DEF AppendBatch, Stored
<1>6. ASSUME PromptAppended(s) PROVE Same(t) BY <1>0, <1>6 DEF PromptAppended, Publish
<1>7. ASSUME NotesCommitted(s) PROVE Same(t) BY <1>0, <1>7 DEF NotesCommitted, PublishNotes, Publish
<1>8. ASSUME NoteAppended(s) PROVE Same(t) BY <1>0, <1>8 DEF NoteAppended, Publish
<1>9. ASSUME PeersCommitted(s) PROVE Same(t) BY <1>0, <1>9 DEF PeersCommitted, Publish
<1>10. ASSUME BatchAppended(s) PROVE Same(t) BY <1>0, <1>10 DEF BatchAppended, Publish, Drop
<1>11. ASSUME Claim(s) PROVE Same(t)
  <2>1. /\ \E b : batch' = [batch EXCEPT ![s] = b]
        /\ token' = [token EXCEPT ![s] = TokenFor(s)]
        /\ todo' = [todo EXCEPT ![s] = 1]
        /\ pc' = [pc EXCEPT ![s] = "claimed"]
        /\ UNCHANGED <<rows, log, snap, raising, missed>>
    BY <1>11, Zenon DEF Claim, Go
  <2> QED BY <1>0, <2>1
<1>12. ASSUME Ack(s) PROVE Same(t) BY <1>0, <1>12 DEF Ack, Drop
<1>13. ASSUME Release(s) PROVE Same(t) BY <1>0, <1>13 DEF Release, Drop
<1>14. ASSUME DrainMail(s) PROVE Same(t) BY <1>0, <1>14 DEF DrainMail
<1>15. ASSUME Redeliver(s) PROVE Same(t) BY <1>0, <1>15 DEF Redeliver
<1>16. ASSUME CancelCommit(s) PROVE Same(t) BY <1>0, <1>16 DEF CancelCommit
<1>17. ASSUME Interrupt(s) PROVE Same(t) BY <1>0, <1>17 DEF Interrupt
<1>18. ASSUME LoseReply(s) PROVE Same(t) BY <1>0, <1>18 DEF LoseReply, Drop
<1>19. ASSUME Crash(s) PROVE Same(t) BY <1>0, <1>19 DEF Crash, Drop
<1>20. ASSUME ResumeRun(s) \/ BeginDrain(s) \/ ClaimNothing(s) PROVE Same(t)
  BY <1>0, <1>20 DEF ResumeRun, BeginDrain, ClaimNothing
<1>21. ASSUME Turn(s) PROVE Same(t) BY <1>0, <1>21 DEF Turn
<1>22. ASSUME EnqueuePeer(s) PROVE Same(t) BY <1>0, <1>22 DEF EnqueuePeer, Enqueued
<1> HIDE DEF Same
<1> QED
  BY <1>1, <1>2, <1>3, <1>4, <1>5, <1>6, <1>7, <1>8, <1>9, <1>10, <1>11, <1>12, <1>13, <1>14,
     <1>15, <1>16, <1>17, <1>18, <1>19, <1>20, <1>21, <1>22, Zenon
     DEF Acts, Stores, Publishes, OnBox, Fails

LEMMA EnqueuedIs ==
    ASSUME Typing, NEW s \in Sessions, NEW m \in Deliveries, Enqueued(s, m)
    PROVE  /\ inbox' \in [Sessions -> Seq(Deliveries)]
           /\ receipts' \in [Sessions -> SUBSET Deliveries]
           /\ receipts' = [receipts EXCEPT ![s] = @ \cup {m}]
           /\ inbox' = [inbox EXCEPT ![s] = IF m \in receipts[s] THEN @ ELSE Append(@, m)]
<1>1. inbox \in [Sessions -> Seq(Deliveries)] /\ receipts \in [Sessions -> SUBSET Deliveries]
  BY DEF Typing, TypedRows
<1>2. CASE m \in receipts[s]
  <2>1. inbox' = inbox /\ receipts' = receipts BY <1>2 DEF Enqueued
  <2> QED BY <1>1, <1>2, <2>1
<1>3. CASE m \notin receipts[s]
  <2>1. /\ inbox' = [inbox EXCEPT ![s] = Append(@, m)]
        /\ receipts' = [receipts EXCEPT ![s] = @ \cup {m}]
    BY <1>3 DEF Enqueued
  <2> QED BY <1>1, <1>3, <2>1
<1> QED BY <1>2, <1>3

LEMMA PeerInHand ==
    ASSUME Typing, NEW s \in Sessions, EnqueuePeer(s)
    PROVE  /\ durable /\ pc[s] = "claimed" /\ todo[s] \in 1..Len(batch[s])
           /\ Len(batch[s]) \in Nat /\ batch[s] \in Seq(Peers)
           /\ batch[s][todo[s]] \in Peers /\ batch[s][todo[s]] \in Deliveries
           /\ batch[s][todo[s]] \in Range(batch[s])
<1>1. pc[s] = "claimed" BY DEF EnqueuePeer
<1>2. durable /\ todo[s] \in 1..Len(batch[s]) BY <1>1 DEF Typing, Fits, Fitting, WithInbox
<1>3. batch[s] \in Seq(Peers) BY DEF Typing, TypedClaims
<1>4. batch[s][todo[s]] \in Peers BY <1>2, <1>3
<1>5. batch[s][todo[s]] \in Range(batch[s]) BY <1>2, <1>3, InRange
<1> QED BY <1>1, <1>2, <1>3, <1>4, <1>5 DEF Deliveries

LEMMA RowsTyped ==
    ASSUME Typing, [Next]_vars
    PROVE  TypedRows'
<1>0. /\ inbox \in [Sessions -> Seq(Deliveries)] /\ receipts \in [Sessions -> SUBSET Deliveries]
      /\ queue \in [Sessions -> Seq(Notes)]
  BY DEF Typing, TypedRows
<1>1. CASE UNCHANGED rows BY <1>0, <1>1 DEF TypedRows, rows
<1>2. ASSUME NEW s \in Sessions, NEW n \in Notes, Notify(s, n) PROVE TypedRows'
  <2>0. n \in Deliveries BY DEF Deliveries
  <2>1. CASE Enqueued(s, n) /\ UNCHANGED queue BY <2>0, <2>1, <1>0, EnqueuedIs DEF TypedRows
  <2>2. CASE /\ queue' = [queue EXCEPT ![s] = Append(@, n)]
             /\ receipts' = [receipts EXCEPT ![s] = @ \cup {n}] /\ UNCHANGED inbox
    BY <2>0, <2>2, <1>0 DEF TypedRows
  <2> QED BY <1>2, <2>1, <2>2 DEF Notify
<1>3. ASSUME NEW s \in Sessions, CommitNotes(s) \/ CommitPeers(s) PROVE TypedRows'
  <2>1. inbox' = [inbox EXCEPT ![s] = <<>>] /\ UNCHANGED <<receipts, queue>>
    BY <1>3 DEF CommitNotes, CommitPeers, Committed
  <2>2. <<>> \in Seq(Deliveries) OBVIOUS
  <2> QED BY <2>1, <2>2, <1>0 DEF TypedRows
<1>4. ASSUME NEW s \in Sessions, NoteAppended(s) PROVE TypedRows'
  <2>1. queue' = [queue EXCEPT ![s] = Tail(queue[s])] /\ UNCHANGED <<inbox, receipts>>
    BY <1>4 DEF NoteAppended, Popped
  <2>2. queue[s] # <<>>
    <3>1. pc[s] = "noted" BY <1>4 DEF NoteAppended
    <3>2. todo[s] \in 1..Len(queue[s]) BY <3>1 DEF Typing, Fits, Fitting
    <3> QED BY <3>2
  <2>3. Tail(queue[s]) \in Seq(Notes) BY <2>2, <1>0, RangeTail
  <2> QED BY <2>1, <2>3, <1>0 DEF TypedRows
<1>5. ASSUME NEW s \in Sessions, EnqueuePeer(s) PROVE TypedRows'
  <2>1. Enqueued(s, batch[s][todo[s]]) /\ UNCHANGED queue BY <1>5 DEF EnqueuePeer
  <2>2. batch[s][todo[s]] \in Deliveries BY <1>5, PeerInHand
  <2> QED BY <2>1, <2>2, <1>0, EnqueuedIs DEF TypedRows
<1>6. ASSUME NEW s \in Sessions, Acts(s)
      PROVE  \/ UNCHANGED rows \/ CommitNotes(s) \/ CommitPeers(s) \/ NoteAppended(s) \/ EnqueuePeer(s)
  BY <1>6, Zenon DEF Acts, Stores, Publishes, OnBox, Fails, ResumeRun, BeginDrain, ClaimNothing, Claim,
     Ack, Release, DrainMail, Redeliver, CancelCommit, Interrupt, LoseReply, Crash, Turn, StartRun,
     AppendNote, AppendBatch, PromptAppended, NotesCommitted, PeersCommitted, BatchAppended, mail, rows
<1>7. (\E m \in Peers : Send(m)) \/ (\E i \in 1..Len(box) : Expire(i)) \/ UNCHANGED vars
      => UNCHANGED rows
  BY DEF Send, Expire, vars
<1> QED BY <1>1, <1>2, <1>3, <1>4, <1>5, <1>6, <1>7, InboxCases

(* Two steps take a batch's messages out of the mailbox for good, or lose   *)
(* the reply of doing so.                                                   *)
Acks(s) == Ack(s) \/ (LoseReply(s) /\ pc[s] = "acking")

LEMMA BoxTyped ==
    ASSUME Typing, [Next]_vars
    PROVE  TypedBox'
<1>0. /\ box \in Seq(Entry) /\ sent \in Seq(Peers)
      /\ \A i \in 1..Len(box) : box[i].live => box[i].tok # NoToken
      /\ batch \in [Sessions -> Seq(Peers)]
  BY DEF Typing, TypedBox, TypedClaims
<1>1. CASE UNCHANGED <<box, sent>> BY <1>0, <1>1 DEF TypedBox
<1>2. ASSUME NEW m \in Peers, box' = Append(box, [msg |-> m, tok |-> NoToken, live |-> FALSE])
      PROVE  box' \in Seq(Entry) /\ \A i \in 1..Len(box') : box'[i].live => box'[i].tok # NoToken
  <2> DEFINE e == [msg |-> m, tok |-> NoToken, live |-> FALSE]
  <2>1. e \in Entry /\ e.live = FALSE BY DEF Entry
  <2> HIDE DEF e
  <2>2. box' = Append(box, e) BY <1>2 DEF e
  <2>3. /\ box' \in Seq(Entry) /\ Len(box') = Len(box) + 1 /\ Len(box) \in Nat
        /\ \A i \in 1..Len(box) : box'[i] = box[i]
        /\ box'[Len(box) + 1] = e
    BY <2>1, <2>2, <1>0, RangeAppend
  <2>4. \A i \in 1..Len(box') : i \in 1..Len(box) \/ i = Len(box) + 1 BY <2>3
  <2> QED BY <2>1, <2>3, <2>4, <1>0
<1>3. ASSUME NEW m \in Peers, Send(m) PROVE TypedBox'
  <2>1. /\ box' = Append(box, [msg |-> m, tok |-> NoToken, live |-> FALSE])
        /\ sent' = Append(sent, m)
    BY <1>3, Zenon DEF Send
  <2>2. sent' \in Seq(Peers) BY <2>1, <1>0
  <2> QED BY <2>1, <2>2, <1>2 DEF TypedBox
<1>4. ASSUME NEW s \in Sessions, Claim(s) PROVE TypedBox'
  <2>1. /\ box' \in Seq(Entry) /\ Len(box') = Len(box)
        /\ \A i \in 1..Len(box) : box'[i].live => box'[i].tok # NoToken
    BY <1>4, ClaimIs
  <2>2. sent' = sent BY <1>4, Zenon DEF Claim
  <2> QED BY <2>1, <2>2, <1>0 DEF TypedBox
<1>5. ASSUME NEW s \in Sessions, Acks(s) PROVE TypedBox'
  <2>1. box' = AckedBox(s) /\ sent' = sent BY <1>5 DEF Acks, Ack, LoseReply, Drop
  <2>2. /\ AckedBox(s) \in Seq(Entry)
        /\ \A i \in 1..Len(AckedBox(s)) : \E j \in 1..Len(box) : AckedBox(s)[i] = box[j]
    BY AckedBoxIs
  <2> HIDE DEF AckedBox
  <2>3. box' \in Seq(Entry) /\ \A i \in 1..Len(box') : \E j \in 1..Len(box) : box'[i] = box[j]
    BY <2>1, <2>2, Zenon
  <2> QED BY <2>1, <2>3, <1>0 DEF TypedBox
<1>6. ASSUME NEW s \in Sessions, Release(s) PROVE TypedBox'
  <2>1. box' = ReleasedBox(s) /\ sent' = sent BY <1>6 DEF Release, Drop
  <2>2. /\ box' \in Seq(Entry) /\ Len(box') = Len(box)
        /\ \A i \in 1..Len(box) : box'[i].live => box'[i] = box[i]
    BY <2>1, ReleasedBoxIs, Zenon
  <2> QED BY <2>1, <2>2, <1>0 DEF TypedBox
<1>7. ASSUME NEW s \in Sessions, DrainMail(s) PROVE TypedBox'
  <2>1. box' = <<>> /\ sent' = sent BY <1>7 DEF DrainMail
  <2> QED BY <2>1, <1>0 DEF TypedBox
<1>8. ASSUME NEW s \in Sessions, Redeliver(s) PROVE TypedBox'
  <2>1. /\ box' = Append(box, [msg |-> Head(batch[s]), tok |-> NoToken, live |-> FALSE])
        /\ sent' = sent /\ pc[s] = "redeliver"
    BY <1>8 DEF Redeliver
  <2>2. batch[s] # <<>> BY <2>1 DEF Typing, Fits, Fitting
  <2>3. Head(batch[s]) \in Peers BY <2>2, <1>0, RangeTail
  <2> QED BY <2>1, <2>3, <1>0, <1>2 DEF TypedBox
<1>9. ASSUME NEW i \in 1..Len(box), Expire(i) PROVE TypedBox'
  <2>1. box' = [box EXCEPT ![i].live = FALSE] /\ sent' = sent BY <1>9 DEF Expire
  <2>0. box[i] \in Entry BY <1>0
  <2>2. [box[i] EXCEPT !.live = FALSE] \in Entry /\ [box[i] EXCEPT !.live = FALSE].live = FALSE
    BY <2>0 DEF Entry
  <2>3. box' = [box EXCEPT ![i] = [box[i] EXCEPT !.live = FALSE]] BY <2>1
  <2>4. box' \in Seq(Entry) /\ Len(box') = Len(box)
        /\ \A j \in 1..Len(box) : box'[j] = box[j] \/ box'[j].live = FALSE
    <3> DEFINE e == [box[i] EXCEPT !.live = FALSE]
    <3> HIDE DEF e
    <3>1. e \in Entry /\ e.live = FALSE /\ box' = [box EXCEPT ![i] = e] BY <2>2, <2>3 DEF e
    <3> QED BY <3>1, <1>0
  <2> QED BY <2>1, <2>4, <1>0 DEF TypedBox
<1>10. ASSUME NEW s \in Sessions, Acts(s)
       PROVE  UNCHANGED <<box, sent>> \/ Acks(s) \/ OnBox(s)
  BY <1>10, Zenon DEF Acts, Stores, Publishes, Fails, ResumeRun, BeginDrain, ClaimNothing, Turn,
     CancelCommit, Interrupt, LoseReply, Crash, StartRun, CommitNotes, CommitPeers, AppendNote,
     AppendBatch, PromptAppended, NotesCommitted, PeersCommitted, NoteAppended, BatchAppended,
     EnqueuePeer, mail, Drop, Acks
<1>11. (\E s \in Sessions, n \in Notes : Notify(s, n)) \/ UNCHANGED vars => UNCHANGED <<box, sent>>
  BY Zenon DEF Notify, vars, mail
<1>12. ASSUME NEW s \in Sessions, OnBox(s) PROVE TypedBox'
  BY <1>12, <1>4, <1>5, <1>6, <1>7, <1>8 DEF OnBox, Acks
<1> QED BY <1>1, <1>3, <1>5, <1>9, <1>10, <1>11, <1>12, InboxCases

(* A batch is left as it is, dropped, taken by a claim or a drain, or is    *)
(* one shorter after a redelivery.                                          *)
LEMMA HandedBack ==
    ASSUME Typing, NEW s \in Sessions, Redeliver(s)
    PROVE  /\ pc[s] = "redeliver" /\ ~ durable
           /\ batch[s] \in Seq(Peers) /\ batch[s] # <<>>
           /\ batch' = [batch EXCEPT ![s] = Tail(@)] /\ Tail(batch[s]) \in Seq(Peers)
           /\ UNCHANGED <<token, claimed, sent>>
<1>1. pc[s] = "redeliver" /\ batch' = [batch EXCEPT ![s] = Tail(@)] /\ UNCHANGED <<token, claimed, sent>>
  BY DEF Redeliver
<1>2. batch[s] # <<>> /\ ~ durable BY <1>1 DEF Typing, Fits, Fitting, InMemory
<1>3. batch[s] \in Seq(Peers) BY DEF Typing, TypedClaims
<1>4. Tail(batch[s]) \in Seq(Peers) BY <1>2, <1>3, RangeTail
<1> QED BY <1>1, <1>2, <1>3, <1>4

LEMMA DrainIs ==
    ASSUME Typing, NEW s \in Sessions, DrainMail(s)
    PROVE  /\ ~ durable /\ pc[s] = "mail" /\ box # <<>> /\ box' = <<>>
           /\ batch' = [batch EXCEPT ![s] = [i \in 1..Len(box) |-> box[i].msg]]
           /\ [i \in 1..Len(box) |-> box[i].msg] \in Seq(Peers)
           /\ batch'[s] \in Seq(Peers) /\ Len(batch'[s]) = Len(box)
           /\ \A i \in 1..Len(box) : batch'[s][i] = box[i].msg
           /\ batch'[s] # <<>>
<1> DEFINE w == [i \in 1..Len(box) |-> box[i].msg]
<1>1. ~ durable /\ pc[s] = "mail" /\ box # <<>> /\ box' = <<>> /\ batch' = [batch EXCEPT ![s] = w]
  BY Zenon DEF DrainMail
<1>2. box \in Seq(Entry) /\ Len(box) \in Nat /\ DOMAIN batch = Sessions
  BY DEF Typing, TypedBox, TypedClaims
<1>3. \A i \in 1..Len(box) : box[i].msg \in Peers
  <2>1. \A i \in 1..Len(box) : box[i] \in Entry BY <1>2
  <2> QED BY <2>1 DEF Entry
<1>4. w \in [1..Len(box) -> Peers] /\ \A i \in 1..Len(box) : w[i] = box[i].msg BY <1>3
<1> HIDE DEF w
<1>5. w \in Seq(Peers) /\ Len(w) = Len(box) BY <1>2, <1>4, FunIsSeq
<1>6. batch'[s] = w BY <1>1, <1>2
<1>7. Len(box) # 0 BY <1>1, <1>2
<1>8. w # <<>> BY <1>5, <1>7
<1>9. /\ batch'[s] \in Seq(Peers) /\ Len(batch'[s]) = Len(box) /\ batch'[s] # <<>>
      /\ \A i \in 1..Len(box) : batch'[s][i] = box[i].msg
  BY <1>4, <1>5, <1>6, <1>8
<1> QED BY <1>1, <1>5, <1>9 DEF w

LEMMA ClaimsTyped ==
    ASSUME Typing, [Next]_vars
    PROVE  TypedClaims'
<1>0. /\ batch \in [Sessions -> Seq(Peers)] /\ claimed \in [Sessions -> Nat]
      /\ token \in [Sessions -> Tokens \cup {NoToken}]
  BY DEF Typing, TypedClaims
<1>1. CASE UNCHANGED <<batch, claimed, token>> BY <1>0, <1>1 DEF TypedClaims
<1>2. ASSUME NEW s \in Sessions, Drop(s) PROVE TypedClaims'
  <2>1. /\ batch' = [batch EXCEPT ![s] = <<>>] /\ token' = [token EXCEPT ![s] = NoToken]
        /\ claimed' = claimed
    BY <1>2 DEF Drop
  <2>2. <<>> \in Seq(Peers) OBVIOUS
  <2> QED BY <2>1, <2>2, <1>0 DEF TypedClaims
<1>3. ASSUME NEW s \in Sessions, Claim(s) PROVE TypedClaims'
  <2>1. /\ \E b : batch' = [batch EXCEPT ![s] = b]
        /\ token' = [token EXCEPT ![s] = TokenFor(s)]
        /\ claimed' = [claimed EXCEPT ![s] = @ + 1]
    BY <1>3, Zenon DEF Claim
  <2>2. batch'[s] \in Seq(Peers) BY <1>3, ClaimIs
  <2>3. batch' \in [Sessions -> Seq(Peers)]
    <3>1. PICK b : batch' = [batch EXCEPT ![s] = b] BY <2>1
    <3>2. b \in Seq(Peers) BY <3>1, <2>2, <1>0
    <3> QED BY <3>1, <3>2, <1>0
  <2>4. claimed[s] + 1 \in Nat BY <1>0
  <2>5. TokenFor(s) \in Tokens BY <2>4 DEF TokenFor, Tokens
  <2> QED BY <2>1, <2>3, <2>4, <2>5, <1>0 DEF TypedClaims
<1>4. ASSUME NEW s \in Sessions, DrainMail(s) PROVE TypedClaims'
  <2> DEFINE w == [i \in 1..Len(box) |-> box[i].msg]
  <2>1. batch' = [batch EXCEPT ![s] = w] /\ w \in Seq(Peers) BY <1>4, DrainIs
  <2>2. UNCHANGED <<token, claimed>> BY <1>4, Zenon DEF DrainMail
  <2> HIDE DEF w
  <2> QED BY <2>1, <2>2, <1>0 DEF TypedClaims
<1>5. ASSUME NEW s \in Sessions, Redeliver(s) PROVE TypedClaims'
  BY <1>5, <1>0, HandedBack DEF TypedClaims
<1>6. ASSUME NEW s \in Sessions, Acts(s)
      PROVE  \/ UNCHANGED <<batch, claimed, token>> \/ Drop(s)
             \/ Claim(s) \/ DrainMail(s) \/ Redeliver(s)
  BY <1>6, Zenon DEF Acts, Stores, Publishes, Fails, OnBox, ResumeRun, BeginDrain, ClaimNothing, Turn,
     CancelCommit, Interrupt, LoseReply, Crash, StartRun, CommitNotes, CommitPeers, AppendNote,
     AppendBatch, PromptAppended, NotesCommitted, PeersCommitted, NoteAppended, BatchAppended,
     EnqueuePeer, Ack, Release, mail
<1>7. (\E m \in Peers : Send(m)) \/ (\E s \in Sessions, n \in Notes : Notify(s, n))
      \/ (\E i \in 1..Len(box) : Expire(i)) \/ UNCHANGED vars
      => UNCHANGED <<batch, claimed, token>>
  BY Zenon DEF Send, Notify, Expire, vars, mail
<1> QED BY <1>1, <1>2, <1>3, <1>4, <1>5, <1>6, <1>7, InboxCases

LEMMA RunsTyped ==
    ASSUME Typing, [Next]_vars
    PROVE  TypedRuns'
<1>0. /\ durable \in BOOLEAN /\ runs \in Nat /\ faults \in Nat /\ late \in Nat
      /\ pc \in [Sessions -> Places] /\ todo \in [Sessions -> Nat]
      /\ raising \in [Sessions -> BOOLEAN] /\ missed \in [Sessions -> BOOLEAN]
  BY DEF Typing, TypedRuns
<1> DEFINE Moved(s) == \E w \in Places : Go(s, w)
           Counted == /\ runs' \in {runs, runs + 1} /\ faults' \in {faults, faults + 1}
                      /\ late' \in {late, late + 1}
           Raised(s) == raising' = raising \/ \E b \in BOOLEAN : raising' = [raising EXCEPT ![s] = b]
           Kept(s) == \/ pc' = pc
                      \/ Moved(s)
<1>1. ASSUME NEW s \in Sessions, Kept(s), Counted, Raised(s), durable' = durable,
             todo' = todo \/ \E n \in Nat : todo' = [todo EXCEPT ![s] = n],
             missed' = missed \/ \E b \in BOOLEAN : missed' = [missed EXCEPT ![s] = b]
      PROVE  TypedRuns'
  <2>1. pc' \in [Sessions -> Places] BY <1>0, <1>1 DEF Go
  <2>2. todo' \in [Sessions -> Nat] BY <1>0, <1>1
  <2>3. raising' \in [Sessions -> BOOLEAN] BY <1>0, <1>1
  <2>4. missed' \in [Sessions -> BOOLEAN] BY <1>0, <1>1
  <2>5. runs' \in Nat /\ faults' \in Nat /\ late' \in Nat BY <1>0, <1>1
  <2> QED BY <2>1, <2>2, <2>3, <2>4, <2>5, <1>0, <1>1 DEF TypedRuns
<1> DEFINE Good(s) == /\ Kept(s) /\ Counted /\ Raised(s) /\ durable' = durable
                      /\ todo' = todo \/ \E n \in Nat : todo' = [todo EXCEPT ![s] = n]
                      /\ missed' = missed \/ \E b \in BOOLEAN : missed' = [missed EXCEPT ![s] = b]
<1>2. ASSUME NEW s \in Sessions, Good(s) PROVE TypedRuns' BY <1>1, <1>2
<1>3. "idle" \in Places /\ "prompted" \in Places /\ "top" \in Places /\ "committed" \in Places
      /\ "drain" \in Places /\ "noted" \in Places /\ "mail" \in Places /\ "claimed" \in Places
      /\ "mailCommit" \in Places /\ "mailCommitted" \in Places /\ "acking" \in Places
      /\ "releasing" \in Places /\ "drained" \in Places /\ "batchStored" \in Places
      /\ "redeliver" \in Places /\ "body" \in Places
  BY DEF Places
<1> HIDE DEF Places
<1> USE DEF bounds, Fault
<1>4. ASSUME NEW s \in Sessions, Stores(s) PROVE Good(s)
  BY <1>3, <1>4 DEF Stores, StartRun, CommitNotes, AppendNote, CommitPeers, AppendBatch
<1>5. ASSUME NEW s \in Sessions, PromptAppended(s) \/ NotesCommitted(s) \/ PeersCommitted(s) \/ BatchAppended(s)
      PROVE Good(s)
  BY <1>3, <1>5 DEF PromptAppended, NotesCommitted, PeersCommitted, BatchAppended
<1>6. ASSUME NEW s \in Sessions, NoteAppended(s) PROVE Good(s)
  <2>1. /\ pc[s] = "noted" /\ todo' = [todo EXCEPT ![s] = todo[s] - 1]
        /\ raising' = [raising EXCEPT ![s] = FALSE]
        /\ Go(s, IF raising[s] THEN "idle" ELSE IF todo[s] > 1 THEN "drain" ELSE "mail")
        /\ UNCHANGED <<durable, bounds, missed>>
    BY <1>6 DEF NoteAppended
  <2>2. todo[s] \in 1..Len(queue[s]) BY <2>1 DEF Typing, Fits, Fitting
  <2>3. todo[s] - 1 \in Nat BY <2>2
  <2>4. Moved(s) BY <2>1, <1>3
  <2> QED BY <2>1, <2>3, <2>4
<1>7. ASSUME NEW s \in Sessions, Claim(s) PROVE Good(s)
  <2>1. /\ todo' = [todo EXCEPT ![s] = 1] /\ Go(s, "claimed")
        /\ UNCHANGED <<durable, raising, bounds, missed>>
    BY <1>7, Zenon DEF Claim
  <2> QED BY <2>1, <1>3
<1>8. ASSUME NEW s \in Sessions, Ack(s) \/ Release(s) \/ DrainMail(s) PROVE Good(s)
  BY <1>3, <1>8 DEF Ack, Release, DrainMail
<1>9. ASSUME NEW s \in Sessions, Redeliver(s) PROVE Good(s)
  BY <1>3, <1>9 DEF Redeliver
<1>10. ASSUME NEW s \in Sessions, CancelCommit(s) PROVE Good(s)
  <2>1. /\ raising' = [raising EXCEPT ![s] = TRUE] /\ Fault
        /\ UNCHANGED <<durable, pc, todo, missed>>
    BY <1>10, Zenon DEF CancelCommit
  <2> QED BY <2>1
<1>11. ASSUME NEW s \in Sessions, Interrupt(s) PROVE Good(s)
  <2>1. Unwind(s) \in Places BY <1>3 DEF Unwind
  <2>2. (missed[s] \/ pc[s] \in {"prompted", "mailCommitted"}) \in BOOLEAN BY <1>0
  <2>3. /\ missed' = [missed EXCEPT ![s] = missed[s] \/ pc[s] \in {"prompted", "mailCommitted"}]
        /\ Fault /\ Go(s, Unwind(s)) /\ UNCHANGED <<durable, todo, raising>>
    BY <1>11, Zenon DEF Interrupt
  <2> QED BY <2>1, <2>2, <2>3
<1>12. ASSUME NEW s \in Sessions, LoseReply(s) PROVE Good(s)
  <2>1. (missed[s] \/ pc[s] = "committed") \in BOOLEAN BY <1>0
  <2>2. /\ missed' = [missed EXCEPT ![s] = missed[s] \/ pc[s] = "committed"]
        /\ Fault /\ Go(s, IF pc[s] = "acking" THEN "releasing" ELSE "idle")
        /\ UNCHANGED <<durable, todo, raising>>
    BY <1>12, Zenon DEF LoseReply
  <2>3. Moved(s) BY <2>2, <1>3
  <2> QED BY <2>1, <2>2, <2>3
<1>13. ASSUME NEW s \in Sessions, Crash(s) PROVE Good(s)
  BY <1>3, <1>13 DEF Crash
<1>14. ASSUME NEW s \in Sessions, ResumeRun(s) \/ Turn(s) \/ ClaimNothing(s) PROVE Good(s)
  BY <1>3, <1>14 DEF ResumeRun, Turn, ClaimNothing
<1>15. ASSUME NEW s \in Sessions, BeginDrain(s) PROVE Good(s)
  <2>1. Len(queue[s]) \in Nat BY DEF Typing, TypedRows
  <2> QED BY <2>1, <1>3, <1>15 DEF BeginDrain
<1>16. ASSUME NEW s \in Sessions, EnqueuePeer(s) PROVE Good(s)
  <2>1. todo[s] + 1 \in Nat BY <1>0
  <2>2. /\ todo' = [todo EXCEPT ![s] = todo[s] + 1]
        /\ Go(s, IF todo[s] = Len(batch[s]) THEN "mailCommit" ELSE "claimed")
        /\ UNCHANGED <<durable, raising, bounds, missed>>
    BY <1>16, Zenon DEF EnqueuePeer
  <2>3. Moved(s) BY <2>2, <1>3
  <2> QED BY <2>1, <2>2, <2>3
<1> HIDE DEF Good
<1>17. ASSUME NEW s \in Sessions, Acts(s) PROVE TypedRuns'
  BY <1>2, <1>4, <1>5, <1>6, <1>7, <1>8, <1>9, <1>10, <1>11, <1>12, <1>13, <1>14, <1>15, <1>16, <1>17
     DEF Acts, Publishes, OnBox, Fails
<1>18. ASSUME Counted, UNCHANGED <<durable, pc, todo, raising, missed>> PROVE TypedRuns'
  BY <1>0, <1>18 DEF TypedRuns
<1>19. (\E m \in Peers : Send(m)) \/ (\E s \in Sessions, n \in Notes : Notify(s, n))
       \/ (\E i \in 1..Len(box) : Expire(i)) \/ UNCHANGED vars
       => Counted /\ UNCHANGED <<durable, pc, todo, raising, missed>>
  BY DEF Send, Notify, Expire, vars
<1> QED BY <1>17, <1>18, <1>19, InboxCases

LEMMA Goes ==
    ASSUME Typing, NEW s \in Sessions, NEW w, Go(s, w)
    PROVE  pc'[s] = w
BY DEF Typing, TypedRuns, Go

LEMMA DurableSame ==
    ASSUME [Next]_vars
    PROVE  durable' = durable
<1>1. ASSUME NEW s \in Sessions, Acts(s) PROVE durable' = durable
  BY <1>1, Zenon DEF Acts, Stores, Publishes, Fails, OnBox, ResumeRun, BeginDrain, ClaimNothing, Turn,
     CancelCommit, Interrupt, LoseReply, Crash, StartRun, CommitNotes, CommitPeers, AppendNote,
     AppendBatch, PromptAppended, NotesCommitted, PeersCommitted, NoteAppended, BatchAppended,
     EnqueuePeer, Ack, Release, Claim, DrainMail, Redeliver
<1>2. (\E m \in Peers : Send(m)) \/ (\E s \in Sessions, n \in Notes : Notify(s, n))
      \/ (\E i \in 1..Len(box) : Expire(i)) \/ UNCHANGED vars
      => durable' = durable
  BY Zenon DEF Send, Notify, Expire, vars
<1> QED BY <1>1, <1>2, InboxCases

LEMMA FitsMine ==
    ASSUME Typing, NEW s \in Sessions, Acts(s), durable' = durable
    PROVE  Fits(s)'
<1> USE DEF Fitting, WithInbox, InMemory
<1>0. /\ Fitting(pc[s], todo[s], batch[s], queue[s])
      /\ DOMAIN todo = Sessions /\ DOMAIN queue = Sessions /\ todo[s] \in Nat
      /\ queue[s] \in Seq(Notes) /\ batch[s] \in Seq(Peers)
      /\ Len(queue[s]) \in Nat /\ Len(batch[s]) \in Nat
  BY DEF Typing, TypedRows, TypedClaims, TypedRuns, Fits
<1>1. ASSUME pc'[s] \in {"idle", "prompted", "top", "mail", "body"} PROVE Fits(s)' BY <1>1 DEF Fits
<1>2. ASSUME StartRun(s) \/ PromptAppended(s) \/ ResumeRun(s) \/ Turn(s) \/ NotesCommitted(s)
             \/ ClaimNothing(s) \/ Ack(s) \/ Release(s) \/ BatchAppended(s) \/ Crash(s)
      PROVE  Fits(s)'
  <2>1. \E w \in {"idle", "prompted", "top", "mail", "body"} : Go(s, w)
    BY <1>2 DEF StartRun, PromptAppended, ResumeRun, Turn, NotesCommitted, ClaimNothing, Ack, Release,
                BatchAppended, Crash
  <2> QED BY <2>1, <1>1, Goes
<1>3. ASSUME CommitNotes(s) PROVE Fits(s)'
  <2>1. durable /\ pc'[s] = "committed" BY <1>3, Goes DEF CommitNotes
  <2> QED BY <2>1 DEF Fits
<1>4. ASSUME CommitPeers(s) \/ PeersCommitted(s) PROVE Fits(s)'
  <2>1. pc[s] \in {"mailCommit", "mailCommitted"} /\ pc'[s] \in {"mailCommitted", "acking"}
    BY <1>4, Goes DEF CommitPeers, PeersCommitted
  <2> QED BY <2>1, <1>0 DEF Fits
<1>5. ASSUME AppendNote(s) PROVE Fits(s)'
  <2>1. pc[s] = "drain" /\ pc'[s] = "noted" /\ todo'[s] = todo[s] /\ queue'[s] = queue[s]
    BY <1>5, Goes DEF AppendNote, rows
  <2> QED BY <2>1, <1>0 DEF Fits
<1>6. ASSUME NoteAppended(s) PROVE Fits(s)'
  <2>1. /\ pc[s] = "noted" /\ pc'[s] = IF raising[s] THEN "idle" ELSE IF todo[s] > 1 THEN "drain" ELSE "mail"
        /\ todo'[s] = todo[s] - 1 /\ queue'[s] = Tail(queue[s])
    BY <1>0, <1>6, Goes DEF NoteAppended, Popped
  <2>2. todo[s] \in 1..Len(queue[s]) /\ ~ durable BY <2>1, <1>0
  <2>3. queue[s] # <<>> BY <2>2
  <2>4. Len(Tail(queue[s])) = Len(queue[s]) - 1 BY <1>0, <2>3, RangeTail
  <2>5. CASE pc'[s] \in {"idle", "mail"} BY <2>5, <1>1
  <2>6. CASE pc'[s] = "drain"
    <3>1. todo[s] > 1 BY <2>1, <2>6
    <3>2. todo'[s] \in 1..Len(queue'[s]) BY <3>1, <2>1, <2>2, <2>4, <1>0
    <3> QED BY <3>2, <2>2, <2>6 DEF Fits
  <2> QED BY <2>1, <2>5, <2>6
<1>7. ASSUME Claim(s) PROVE Fits(s)'
  <2>1. durable /\ pc'[s] = "claimed" /\ todo'[s] = 1
    <3>1. durable /\ Go(s, "claimed") /\ todo' = [todo EXCEPT ![s] = 1] BY <1>7, Zenon DEF Claim
    <3> QED BY <3>1, <1>0, Goes
  <2>2. batch'[s] \in Seq(Peers) /\ batch'[s] # <<>> BY <1>7, ClaimIs
  <2>3. 1 \in 1..Len(batch'[s]) BY <2>2
  <2> QED BY <2>1, <2>3 DEF Fits
<1>8. ASSUME EnqueuePeer(s) PROVE Fits(s)'
  <2>1. /\ pc[s] = "claimed" /\ pc'[s] = IF todo[s] = Len(batch[s]) THEN "mailCommit" ELSE "claimed"
        /\ todo'[s] = todo[s] + 1 /\ batch'[s] = batch[s]
    BY <1>0, <1>8, Goes DEF EnqueuePeer, mail
  <2>2. todo[s] \in 1..Len(batch[s]) /\ durable BY <2>1, <1>0
  <2>3. pc'[s] = "claimed" => todo'[s] \in 1..Len(batch'[s]) BY <2>1, <2>2, <1>0
  <2> QED BY <2>1, <2>2, <2>3 DEF Fits
<1>9. ASSUME DrainMail(s) PROVE Fits(s)'
  <2>1. ~ durable /\ batch'[s] # <<>> BY <1>9, DrainIs
  <2>2. pc'[s] = "drained" BY <1>9, Goes DEF DrainMail
  <2> QED BY <2>1, <2>2 DEF Fits
<1>10. ASSUME AppendBatch(s) PROVE Fits(s)'
  <2>1. pc[s] = "drained" /\ pc'[s] = "batchStored" BY <1>10, Goes DEF AppendBatch
  <2> QED BY <2>1, <1>0 DEF Fits
<1>11. ASSUME Redeliver(s) PROVE Fits(s)'
  <2>1. /\ pc[s] = "redeliver" /\ ~ durable /\ batch[s] # <<>> /\ batch' = [batch EXCEPT ![s] = Tail(@)]
        /\ DOMAIN batch = Sessions
    BY <1>11, HandedBack DEF Typing, TypedClaims
  <2>2. pc'[s] = IF Len(batch[s]) = 1 THEN "idle" ELSE "redeliver" BY <1>11, Goes DEF Redeliver
  <2>3. batch'[s] = Tail(batch[s]) BY <2>1
  <2>4. Len(batch'[s]) = Len(batch[s]) - 1 /\ Len(batch[s]) >= 1 BY <2>1, <2>3, <1>0, RangeTail
  <2>5. ASSUME batch'[s] = <<>> PROVE pc'[s] = "idle"
    <3>1. Len(batch'[s]) = 0 BY <2>5
    <3>2. Len(batch[s]) \in Nat /\ Len(batch[s]) - 1 = 0 BY <3>1, <2>4, <1>0, Zenon
    <3>3. Len(batch[s]) = 1 BY <3>2
    <3> QED BY <3>3, <2>2
  <2>6. pc'[s] \in {"idle", "redeliver"} BY <2>2
  <2> QED BY <2>1, <2>5, <2>6 DEF Fits
<1>12. ASSUME BeginDrain(s) PROVE Fits(s)'
  <2>1. /\ ~ durable /\ pc'[s] = IF queue[s] = <<>> THEN "mail" ELSE "drain"
        /\ todo'[s] = Len(queue[s]) /\ queue'[s] = queue[s]
    BY <1>0, <1>12, Goes DEF BeginDrain, rows
  <2>2. queue[s] # <<>> => Len(queue[s]) \in 1..Len(queue[s]) BY <1>0
  <2> QED BY <2>1, <2>2 DEF Fits
<1>13. ASSUME CancelCommit(s) PROVE Fits(s)'
  <2>1. UNCHANGED <<pc, todo, batch, queue>> BY <1>13 DEF CancelCommit, mail, rows
  <2> QED BY <2>1, <1>0 DEF Fits
<1>14. ASSUME Interrupt(s) PROVE Fits(s)'
  <2>1. pc'[s] = Unwind(s) /\ UNCHANGED <<todo, batch, queue>> BY <1>14, Goes DEF Interrupt, mail, rows
  <2>2. CASE pc[s] \in {"claimed", "mailCommit", "mailCommitted", "acking"}
    <3>1. pc'[s] = "releasing" BY <2>1, <2>2 DEF Unwind
    <3> QED BY <3>1, <2>2, <1>0 DEF Fits
  <2>3. CASE pc[s] = "drained"
    <3>1. pc'[s] = "redeliver" BY <2>1, <2>3 DEF Unwind
    <3> QED BY <3>1, <2>1, <2>3, <1>0 DEF Fits
  <2>4. CASE pc[s] \notin {"claimed", "mailCommit", "mailCommitted", "acking", "drained"}
    <3>1. pc'[s] = "idle" BY <2>1, <2>4 DEF Unwind
    <3> QED BY <3>1, <1>1
  <2> QED BY <2>2, <2>3, <2>4
<1>15. ASSUME LoseReply(s) PROVE Fits(s)'
  <2>1. durable /\ pc'[s] \in {"releasing", "idle"} BY <1>15, Goes DEF LoseReply
  <2> QED BY <2>1 DEF Fits
<1> QED
  BY <1>2, <1>3, <1>4, <1>5, <1>6, <1>7, <1>8, <1>9, <1>10, <1>11, <1>12, <1>13, <1>14, <1>15, Zenon
     DEF Acts, Stores, Publishes, OnBox, Fails

LEMMA FitsKept ==
    ASSUME Typing, [Next]_vars
    PROVE  \A t \in Sessions : Fits(t)'
<1> SUFFICES ASSUME NEW t \in Sessions PROVE Fits(t)' OBVIOUS
<1>0. Fits(t) /\ durable' = durable BY DurableSame DEF Typing
<1>1. ASSUME NEW s \in Sessions, Acts(s) PROVE Fits(t)'
  <2>1. CASE s = t BY <1>0, <1>1, <2>1, FitsMine
  <2>2. CASE s # t
    <3>1. Same(t) BY <1>1, <2>2, Others
    <3> QED BY <3>1, <1>0 DEF Same, Fits, Fitting
  <2> QED BY <2>1, <2>2
<1>2. CASE UNCHANGED <<pc, todo, batch, queue>> BY <1>0, <1>2 DEF Fits, Fitting
<1>3. ASSUME NEW s \in Sessions, NEW n \in Notes, Notify(s, n) PROVE Fits(t)'
  <2>1. UNCHANGED <<pc, todo, batch>> BY <1>3, Zenon DEF Notify, mail
  <2>2. CASE UNCHANGED queue BY <2>1, <2>2, <1>2
  <2>3. CASE queue' = [queue EXCEPT ![s] = Append(@, n)]
    <3>1. queue \in [Sessions -> Seq(Notes)] BY DEF Typing, TypedRows
    <3>2. queue'[t] = queue[t] \/ queue'[t] = Append(queue[t], n) BY <2>3, <3>1
    <3>3. Len(queue'[t]) >= Len(queue[t]) /\ Len(queue'[t]) \in Nat /\ Len(queue[t]) \in Nat
      BY <3>1, <3>2
    <3>4. \A k : k \in 1..Len(queue[t]) => k \in 1..Len(queue'[t]) BY <3>3
    <3> QED BY <3>4, <2>1, <1>0 DEF Fits, Fitting
  <2> QED BY <1>3, <2>2, <2>3 DEF Notify
<1>4. (\E m \in Peers : Send(m)) \/ (\E i \in 1..Len(box) : Expire(i)) \/ UNCHANGED vars
      => UNCHANGED <<pc, todo, batch, queue>>
  BY Zenon DEF Send, Expire, vars, mail, rows
<1> QED BY <1>1, <1>2, <1>3, <1>4, InboxCases

LEMMA TypingStep ==
    ASSUME Typing, \A s \in Sessions : Projects(s), [Next]_vars
    PROVE  Typing'
<1>1. TypedLog' BY LogTyped
<1>2. TypedRows' BY RowsTyped
<1>3. TypedBox' BY BoxTyped
<1>4. TypedClaims' BY ClaimsTyped
<1>5. TypedRuns' BY RunsTyped
<1>6. \A s \in Sessions : Fits(s)' BY FitsKept
<1> QED BY <1>1, <1>2, <1>3, <1>4, <1>5, <1>6 DEF Typing

LEMMA TypingStart ==
    ASSUME Init
    PROVE  Typing
<1>1. TypedLog
  <2>1. [items |-> <<>>, covers |-> 0] \in [items : Seq(Message), covers : Nat] OBVIOUS
  <2> QED BY <2>1 DEF Init, TypedLog
<1>2. TypedRows BY DEF Init, TypedRows
<1>3. TypedBox BY DEF Init, TypedBox
<1>4. TypedClaims BY DEF Init, TypedClaims
<1>5. TypedRuns BY DEF Init, TypedRuns, Places
<1>6. ASSUME NEW s \in Sessions PROVE Fits(s)
  <2>1. pc[s] = "idle" BY DEF Init
  <2> QED BY <2>1 DEF Fits, Fitting, WithInbox, InMemory
<1> QED BY <1>1, <1>2, <1>3, <1>4, <1>5, <1>6 DEF Typing

-----------------------------------------------------------------------------
(* What a session shows.                                                    *)

LEMMA Sizes ==
    ASSUME Typing, NEW s \in Sessions
    PROVE  /\ stored[s] \in Seq(Message) /\ Len(stored[s]) \in Nat
           /\ view[s] \in Seq(Message) /\ lastSeq[s] \in Nat
           /\ snap[s].items \in Seq(Message) /\ snap[s].covers \in Nat
           /\ batch[s] \in Seq(Peers) /\ Len(batch[s]) \in Nat /\ Gap(s) \in Nat
           /\ queue[s] \in Seq(Notes) /\ inbox[s] \in Seq(Deliveries)
           /\ receipts[s] \in SUBSET Deliveries
           /\ pc[s] \in Places /\ missed[s] \in BOOLEAN /\ todo[s] \in Nat
<1>1. /\ stored[s] \in Seq(Message) /\ view[s] \in Seq(Message) /\ lastSeq[s] \in Nat
      /\ snap[s].items \in Seq(Message) /\ snap[s].covers \in Nat
  BY DEF Typing, TypedLog
<1>2. /\ batch[s] \in Seq(Peers) /\ queue[s] \in Seq(Notes) /\ inbox[s] \in Seq(Deliveries)
      /\ receipts[s] \in SUBSET Deliveries /\ pc[s] \in Places /\ missed[s] \in BOOLEAN
      /\ todo[s] \in Nat
  BY DEF Typing, TypedRows, TypedClaims, TypedRuns
<1>3. Len(stored[s]) \in Nat /\ Len(batch[s]) \in Nat BY <1>1, <1>2
<1> QED BY <1>1, <1>2, <1>3 DEF Gap

(* Steps that leave the log alone.                                          *)
LEMMA StillProjects ==
    ASSUME Typing, NEW s \in Sessions, Projects(s),
           stored'[s] = stored[s], view'[s] = view[s], lastSeq'[s] = lastSeq[s], snap'[s] = snap[s],
           Gap(s)' = Gap(s) \/ Gap(s)' = 0,
           missed'[s] \/ (~ missed[s] /\ Gap(s)' = Gap(s) /\ (Loose(s) => Loose(s)'))
    PROVE  Projects(s)'
<1>1. lastSeq[s] + Gap(s)' <= Len(stored[s]) BY Sizes DEF Projects
<1> QED BY <1>1 DEF Projects

LEMMA AppendProjects ==
    ASSUME Typing, NEW s \in Sessions, Projects(s), Stores(s)
    PROVE  Projects(s)'
<1>0. /\ stored[s] \in Seq(Message) /\ Len(stored[s]) \in Nat /\ view[s] \in Seq(Message)
      /\ lastSeq[s] \in Nat /\ snap[s].items \in Seq(Message) /\ snap[s].covers \in Nat
      /\ DOMAIN stored = Sessions
  BY Sizes DEF Typing, TypedLog
<1>1. PICK items \in Seq(Message) :
         /\ stored' = [stored EXCEPT ![s] = @ \o items]
         /\ UNCHANGED <<view, lastSeq, snap, missed>>
         /\ StartRun(s) => items = <<runs + 1>>
         /\ AppendNote(s) => items = <<Head(queue[s])>>
         /\ AppendBatch(s) => items = batch[s]
  BY StoresIs
<1> DEFINE c == stored[s] \o items
<1>2. /\ c \in Seq(Message) /\ Len(c) = Len(stored[s]) + Len(items) /\ Len(items) \in Nat
      /\ \A i \in 1..Len(stored[s]) : c[i] = stored[s][i]
  BY <1>0, RangeJoin
<1>3. stored'[s] = c BY <1>0, <1>1
<1>4. /\ Gap(s) = 0 /\ ~ Loose(s)
      /\ (Gap(s)' = 0 /\ Loose(s)') \/ Gap(s)' = Len(items)
  <2>1. CASE StartRun(s)
    <3>1. pc[s] = "idle" /\ pc'[s] = "prompted" BY <2>1, Goes DEF StartRun
    <3>2. Len(items) = 1 BY <2>1, <1>1
    <3> QED BY <3>1, <3>2 DEF Gap, Loose
  <2>2. CASE AppendNote(s)
    <3>1. pc[s] = "drain" /\ pc'[s] = "noted" BY <2>2, Goes DEF AppendNote
    <3>2. Len(items) = 1 BY <2>2, <1>1
    <3> QED BY <3>1, <3>2 DEF Gap, Loose
  <2>3. CASE AppendBatch(s)
    <3>1. pc[s] = "drained" /\ pc'[s] = "batchStored" /\ batch' = batch
      BY <2>3, Goes DEF AppendBatch, mail
    <3>2. items = batch[s] BY <2>3, <1>1
    <3> QED BY <3>1, <3>2 DEF Gap, Loose
  <2>4. CASE CommitNotes(s) \/ CommitPeers(s)
    <3>1. pc[s] \in {"top", "mailCommit"} /\ pc'[s] \in {"committed", "mailCommitted"}
      BY <2>4, Goes DEF CommitNotes, CommitPeers
    <3> QED BY <3>1 DEF Gap, Loose
  <2> QED BY <2>1, <2>2, <2>3, <2>4 DEF Stores
<1> HIDE DEF c
<1>5. lastSeq[s] \in 0..Len(stored[s]) /\ snap[s].covers \in 0..Len(stored[s])
  BY <1>0, <1>4 DEF Projects
<1>6. Len(stored[s]) <= Len(c) /\ snap[s].covers <= Len(c) /\ lastSeq[s] + Gap(s)' <= Len(c)
      /\ (lastSeq[s] = Len(stored[s]) => Loose(s)' \/ lastSeq[s] + Gap(s)' = Len(c))
  <2>1. CASE Gap(s)' = 0 /\ Loose(s)' BY <2>1, <1>0, <1>2, <1>5
  <2>2. CASE Gap(s)' = Len(items)
    <3> DEFINE L == Len(stored[s])
               M == Len(items)
    <3>1. L \in Nat /\ M \in Nat /\ Len(c) = L + M /\ lastSeq[s] \in 0..L /\ snap[s].covers \in 0..L
          /\ Gap(s)' = M
      BY <2>2, <1>0, <1>2, <1>5
    <3> HIDE DEF L, M
    <3>2. L <= Len(c) /\ snap[s].covers <= Len(c) /\ lastSeq[s] + Gap(s)' <= Len(c)
          /\ (lastSeq[s] = L => lastSeq[s] + Gap(s)' = Len(c))
      BY <3>1
    <3> QED BY <3>2 DEF L
  <2> QED BY <2>1, <2>2, <1>4
<1>7. Shown(view[s], c, lastSeq[s]) /\ Shown(snap[s].items, c, snap[s].covers)
  BY <1>0, <1>2, <1>5, <1>6, ShownGrows DEF Projects
<1>8. ~ missed[s] => /\ Sees(view[s], c, lastSeq[s]) /\ Sees(snap[s].items, c, snap[s].covers)
                     /\ lastSeq[s] = Len(stored[s])
  <2>1. ~ missed[s] => /\ Sees(view[s], c, lastSeq[s]) /\ Sees(snap[s].items, c, snap[s].covers)
    BY <1>0, <1>2, <1>5, <1>6, ShownGrows DEF Projects
  <2>2. ~ missed[s] => lastSeq[s] = Len(stored[s]) BY <1>0, <1>4 DEF Projects
  <2> QED BY <2>1, <2>2
<1>9. /\ view'[s] = view[s] /\ lastSeq'[s] = lastSeq[s] /\ snap'[s] = snap[s] /\ missed'[s] = missed[s]
  BY <1>1
<1> QED BY <1>3, <1>6, <1>7, <1>8, <1>9 DEF Projects

LEMMA PublishProjects ==
    ASSUME Typing, NEW s \in Sessions, Projects(s), Publishes(s)
    PROVE  Projects(s)'
<1>0. /\ stored[s] \in Seq(Message) /\ Len(stored[s]) \in Nat /\ view[s] \in Seq(Message)
      /\ lastSeq[s] \in Nat /\ DOMAIN view = Sessions /\ DOMAIN lastSeq = Sessions
  BY Sizes DEF Typing, TypedLog
<1>1. PICK k \in Nat :
         /\ lastSeq[s] <= k /\ k <= Len(stored[s])
         /\ Loose(s) \/ lastSeq[s] + Gap(s) = Len(stored[s]) => k = lastSeq[s]
         /\ view' = [view EXCEPT ![s] = @ \o After(stored[s], k)]
         /\ lastSeq' = [lastSeq EXCEPT ![s] = Len(stored[s])]
         /\ UNCHANGED <<stored, snap, missed>>
  BY PublishesIs
<1>2. pc'[s] \in {"top", "idle", "mail", "drain", "acking", "body"}
  BY Goes DEF Publishes, PromptAppended, NotesCommitted, NoteAppended, PeersCommitted, BatchAppended
<1>3. Gap(s)' = 0 BY <1>2 DEF Gap
<1> DEFINE w == view[s] \o After(stored[s], k)
<1>4. /\ Shown(view[s], stored[s], lastSeq[s]) => Shown(w, stored[s], Len(stored[s]))
      /\ Sees(view[s], stored[s], lastSeq[s]) /\ lastSeq[s] = k => Sees(w, stored[s], Len(stored[s]))
  BY <1>0, <1>1, ShownPublished
<1>5. view'[s] = w /\ lastSeq'[s] = Len(stored[s]) BY <1>0, <1>1
<1> HIDE DEF w
<1>6. Shown(w, stored[s], Len(stored[s])) BY <1>4 DEF Projects
<1>7. ~ missed[s] => Sees(w, stored[s], Len(stored[s])) BY <1>1, <1>4 DEF Projects
<1>8. stored'[s] = stored[s] /\ snap'[s] = snap[s] /\ missed'[s] = missed[s] BY <1>1
<1> DEFINE n == Len(stored[s])
<1>9. n + Gap(s)' <= n /\ n + Gap(s)' = n BY <1>0, <1>3
<1>10. lastSeq'[s] = Len(stored'[s]) BY <1>5, <1>8
<1>11. lastSeq'[s] + Gap(s)' = Len(stored'[s]) /\ lastSeq'[s] + Gap(s)' <= Len(stored'[s])
  BY <1>9, <1>10, <1>8
<1> QED BY <1>5, <1>6, <1>7, <1>8, <1>11 DEF Projects

LEMMA CrashProjects ==
    ASSUME Typing, NEW s \in Sessions, Projects(s), Crash(s)
    PROVE  Projects(s)'
<1>0. /\ stored[s] \in Seq(Message) /\ Len(stored[s]) \in Nat /\ snap[s].items \in Seq(Message)
      /\ snap[s].covers \in Nat /\ snap[s].covers <= snap[s].covers
      /\ DOMAIN view = Sessions /\ DOMAIN lastSeq = Sessions
  BY Sizes DEF Typing, TypedLog
<1> DEFINE w == snap[s].items \o After(stored[s], snap[s].covers)
<1>1. /\ view' = [view EXCEPT ![s] = w]
      /\ lastSeq' = [lastSeq EXCEPT ![s] = Len(stored[s])]
      /\ UNCHANGED <<stored, snap, missed>>
  BY CrashIs
<1>2. pc'[s] = "idle" BY Goes DEF Crash
<1>3. Gap(s)' = 0 BY <1>2 DEF Gap
<1>4. /\ Shown(snap[s].items, stored[s], snap[s].covers) => Shown(w, stored[s], Len(stored[s]))
      /\ Sees(snap[s].items, stored[s], snap[s].covers) => Sees(w, stored[s], Len(stored[s]))
  BY <1>0, ShownPublished DEF Projects
<1> HIDE DEF w
<1>5. view'[s] = w /\ lastSeq'[s] = Len(stored[s]) BY <1>0, <1>1
<1>6. Shown(w, stored[s], Len(stored[s])) /\ (~ missed[s] => Sees(w, stored[s], Len(stored[s])))
  BY <1>4 DEF Projects
<1>7. stored'[s] = stored[s] /\ snap'[s] = snap[s] /\ missed'[s] = missed[s] BY <1>1
<1> DEFINE n == Len(stored[s])
<1>8. n + Gap(s)' <= n /\ n + Gap(s)' = n BY <1>0, <1>3
<1>9. lastSeq'[s] + Gap(s)' = Len(stored'[s]) /\ lastSeq'[s] + Gap(s)' <= Len(stored'[s])
  BY <1>5, <1>7, <1>8
<1> QED BY <1>5, <1>6, <1>7, <1>9 DEF Projects

LEMMA TurnProjects ==
    ASSUME Typing, NEW s \in Sessions, Projects(s), Turn(s)
    PROVE  Projects(s)'
<1>0. /\ Len(stored[s]) \in Nat /\ lastSeq[s] \in Nat /\ DOMAIN snap = Sessions
  BY Sizes DEF Typing, TypedLog
<1>1. pc[s] = "body" /\ pc'[s] = "idle" /\ UNCHANGED <<stored, view, lastSeq, missed>>
  BY Goes DEF Turn, log
<1>2. Gap(s) = 0 /\ Gap(s)' = 0 /\ ~ Loose(s) BY <1>1 DEF Gap, Loose
<1>3. \/ snap' = [snap EXCEPT ![s] = [items |-> view[s], covers |-> lastSeq[s]]]
      \/ snap' = snap
  BY Zenon DEF Turn
<1>4. CASE snap' = snap BY <1>1, <1>2, <1>4, StillProjects
<1>5. CASE snap' = [snap EXCEPT ![s] = [items |-> view[s], covers |-> lastSeq[s]]]
  <2>1. snap'[s].items = view[s] /\ snap'[s].covers = lastSeq[s] BY <1>0, <1>5
  <2>2. lastSeq[s] <= Len(stored[s]) BY <1>0, <1>2 DEF Projects
  <2> QED BY <2>1, <2>2, <1>1, <1>2 DEF Projects
<1> QED BY <1>3, <1>4, <1>5

LEMMA QuietProjects ==
    ASSUME Typing, NEW s \in Sessions, Projects(s), Acts(s), UNCHANGED <<log, snap>>,
           ~ Stores(s), ~ Publishes(s), ~ Crash(s), ~ Turn(s)
    PROVE  Projects(s)'
<1>0. /\ DOMAIN pc = Sessions /\ DOMAIN missed = Sessions /\ missed[s] \in BOOLEAN /\ pc[s] \in Places
      /\ stored'[s] = stored[s] /\ view'[s] = view[s] /\ lastSeq'[s] = lastSeq[s] /\ snap'[s] = snap[s]
  BY DEF Typing, TypedRuns, log
<1>1. ASSUME Gap(s)' = Gap(s), Loose(s) => Loose(s)', missed'[s] = missed[s] PROVE Projects(s)'
  BY <1>0, <1>1, StillProjects
<1>2. ASSUME Gap(s)' = 0, missed'[s] PROVE Projects(s)'
  BY <1>0, <1>2, StillProjects
<1>3. ASSUME OnBox(s) \/ ResumeRun(s) \/ BeginDrain(s) \/ ClaimNothing(s) \/ EnqueuePeer(s)
      PROVE  Projects(s)'
  <2>1. missed' = missed
    BY <1>3, Zenon DEF OnBox, Claim, Ack, Release, DrainMail, Redeliver, ResumeRun, BeginDrain,
       ClaimNothing, EnqueuePeer
  <2>2. /\ pc[s] \in {"mail", "acking", "releasing", "redeliver", "idle", "top", "claimed"}
        /\ \E w \in {"claimed", "body", "idle", "drained", "redeliver", "top", "mail", "drain", "mailCommit"} :
              Go(s, w)
    <3>1. CASE Claim(s)
      <4>1. pc[s] = "mail" /\ Go(s, "claimed") BY <3>1, Zenon DEF Claim
      <4> QED BY <4>1
    <3>2. CASE Ack(s) \/ Release(s) \/ DrainMail(s) BY <3>2 DEF Ack, Release, DrainMail
    <3>3. CASE Redeliver(s) BY <3>3 DEF Redeliver
    <3>4. CASE ResumeRun(s) \/ BeginDrain(s) \/ ClaimNothing(s)
      BY <3>4 DEF ResumeRun, BeginDrain, ClaimNothing
    <3>5. CASE EnqueuePeer(s) BY <3>5 DEF EnqueuePeer
    <3> QED BY <1>3, <3>1, <3>2, <3>3, <3>4, <3>5 DEF OnBox
  <2>3. pc'[s] \in {"claimed", "body", "idle", "drained", "redeliver", "top", "mail", "drain", "mailCommit"}
    BY <2>2, Goes
  <2>4. Gap(s) = 0 /\ Gap(s)' = 0 /\ ~ Loose(s) BY <2>2, <2>3 DEF Gap, Loose
  <2> QED BY <2>1, <2>4, <1>0, <1>1
<1>4. ASSUME CancelCommit(s) PROVE Projects(s)'
  <2>1. UNCHANGED <<pc, batch, missed>> BY <1>4, Zenon DEF CancelCommit, mail
  <2>2. Gap(s)' = Gap(s) /\ (Loose(s) => Loose(s)') BY <2>1 DEF Gap, Loose
  <2> QED BY <2>1, <2>2, <1>1
<1>5. ASSUME Interrupt(s) PROVE Projects(s)'
  <2>1. /\ pc[s] \in Interruptible /\ pc'[s] = Unwind(s)
        /\ missed'[s] = (missed[s] \/ pc[s] \in {"prompted", "mailCommitted"})
    BY <1>5, <1>0, Goes DEF Interrupt
  <2>2. pc'[s] \in {"releasing", "redeliver", "idle"} BY <2>1 DEF Unwind
  <2>3. Gap(s)' = 0 BY <2>2 DEF Gap
  <2>4. CASE pc[s] \in {"prompted", "mailCommitted"} BY <2>1, <2>3, <2>4, <1>2
  <2>5. CASE pc[s] \notin {"prompted", "mailCommitted"}
    <3>1. Gap(s) = 0 /\ ~ Loose(s) BY <2>1, <2>5 DEF Gap, Loose, Interruptible
    <3>2. missed'[s] = missed[s] BY <2>1, <2>5, <1>0
    <3> QED BY <2>3, <3>1, <3>2, <1>1
  <2> QED BY <2>4, <2>5
<1>6. ASSUME LoseReply(s) PROVE Projects(s)'
  <2>1. /\ pc[s] \in {"committed", "acking", "releasing", "claimed"}
        /\ pc'[s] \in {"releasing", "idle"}
        /\ missed'[s] = (missed[s] \/ pc[s] = "committed")
    BY <1>6, <1>0, Goes DEF LoseReply
  <2>2. Gap(s)' = 0 BY <2>1 DEF Gap
  <2>3. CASE pc[s] = "committed" BY <2>1, <2>2, <2>3, <1>2
  <2>4. CASE pc[s] # "committed"
    <3>1. Gap(s) = 0 /\ ~ Loose(s) BY <2>1, <2>4 DEF Gap, Loose
    <3>2. missed'[s] = missed[s] BY <2>1, <2>4, <1>0
    <3> QED BY <2>2, <3>1, <3>2, <1>1
  <2> QED BY <2>3, <2>4
<1> QED BY <1>3, <1>4, <1>5, <1>6, Zenon DEF Acts, Fails

LEMMA ProjectsStep ==
    ASSUME Typing, \A s \in Sessions : Projects(s), [Next]_vars
    PROVE  \A t \in Sessions : Projects(t)'
<1> SUFFICES ASSUME NEW t \in Sessions PROVE Projects(t)' OBVIOUS
<1>0. Projects(t) OBVIOUS
<1>1. ASSUME NEW s \in Sessions, Acts(s) PROVE Projects(t)'
  <2>1. CASE s = t
    BY <1>0, <1>1, <2>1, LogSame, AppendProjects, PublishProjects, CrashProjects, TurnProjects,
       QuietProjects
  <2>2. CASE s # t
    <3>1. Same(t) BY <1>1, <2>2, Others
    <3> QED BY <3>1, <1>0 DEF Same, Projects, Gap, Loose
  <2> QED BY <2>1, <2>2
<1>2. (\E m \in Peers : Send(m)) \/ (\E s \in Sessions, n \in Notes : Notify(s, n))
      \/ (\E i \in 1..Len(box) : Expire(i)) \/ UNCHANGED vars
      => UNCHANGED <<log, snap, pc, batch, missed>>
  BY Zenon DEF Send, Notify, Expire, vars, mail
<1>3. CASE UNCHANGED <<log, snap, pc, batch, missed>>
  BY <1>0, <1>3 DEF Projects, Gap, Loose, log
<1> QED BY <1>1, <1>2, <1>3, InboxCases

-----------------------------------------------------------------------------
(* With the durable inbox.                                                  *)

(* x was sent before y, as of the next state.                               *)
Later(x, y) == \E a, b \in 1..Len(sent') : a < b /\ sent'[a] = x /\ sent'[b] = y

LEMMA SentGrows ==
    ASSUME Typing, [Next]_vars
    PROVE  /\ \A x, y : Older(x, y) => Later(x, y)
           /\ Range(sent) \subseteq Range(sent')
           /\ sent' = sent \/ \E m \in Peers : Send(m)
<1>0. sent \in Seq(Peers) BY DEF Typing, TypedBox
<1>1. sent' = sent \/ \E m \in Peers : Send(m)
  <2>1. ASSUME NEW s \in Sessions, Acts(s) PROVE sent' = sent
    BY <2>1, Zenon DEF Acts, Stores, Publishes, Fails, OnBox, ResumeRun, BeginDrain, ClaimNothing, Turn,
       CancelCommit, Interrupt, LoseReply, Crash, StartRun, CommitNotes, CommitPeers, AppendNote,
       AppendBatch, PromptAppended, NotesCommitted, PeersCommitted, NoteAppended, BatchAppended,
       EnqueuePeer, Ack, Release, Claim, DrainMail, Redeliver, Drop, mail
  <2>2. (\E s \in Sessions, n \in Notes : Notify(s, n)) \/ (\E i \in 1..Len(box) : Expire(i))
        \/ UNCHANGED vars => sent' = sent
    BY Zenon DEF Notify, Expire, vars, mail
  <2> QED BY <2>1, <2>2, InboxCases
<1>2. CASE sent' = sent BY <1>1, <1>2 DEF Older, Later
<1>3. ASSUME NEW m \in Peers, Send(m)
      PROVE  (\A x, y : Older(x, y) => Later(x, y)) /\ Range(sent) \subseteq Range(sent')
  <2>1. sent' = Append(sent, m) BY <1>3, Zenon DEF Send
  <2>2. /\ Len(sent') = Len(sent) + 1 /\ Len(sent) \in Nat
        /\ \A i \in 1..Len(sent) : sent'[i] = sent[i]
        /\ Range(sent') = Range(sent) \cup {m}
    BY <2>1, <1>0, RangeAppend
  <2>3. \A i \in 1..Len(sent) : i \in 1..Len(sent') BY <2>2
  <2>4. ASSUME NEW x, NEW y, Older(x, y) PROVE Later(x, y)
    <3>1. PICK a, b \in 1..Len(sent) : a < b /\ sent[a] = x /\ sent[b] = y BY <2>4 DEF Older
    <3>2. a \in 1..Len(sent') /\ b \in 1..Len(sent') /\ sent'[a] = x /\ sent'[b] = y
      BY <3>1, <2>2, <2>3
    <3> QED BY <3>1, <3>2 DEF Later
  <2> QED BY <2>2, <2>4
<1> QED BY <1>1, <1>2, <1>3

(* The mailbox keeps its order, and what leaves it was acknowledged.        *)
Thin ==
    /\ \A i \in 1..Len(box') : \E k \in 1..Len(box) : box'[i].msg = box[k].msg
    /\ \A i, j \in 1..Len(box') : i < j =>
          \E k, l \in 1..Len(box) : k < l /\ box'[i].msg = box[k].msg /\ box'[j].msg = box[l].msg
Kept ==
    \A j \in 1..Len(box) :
        \/ \E i \in 1..Len(box') : box'[i].msg = box[j].msg
        \/ \E s \in Sessions : Acks(s) /\ box[j].msg \in Range(batch[s])

LEMMA SameMessages ==
    ASSUME Len(box') = Len(box), \A i \in 1..Len(box) : box'[i].msg = box[i].msg
    PROVE  Thin /\ Kept
BY DEF Thin, Kept

LEMMA ExpireIs ==
    ASSUME Typing, NEW i \in 1..Len(box), Expire(i)
    PROVE  Len(box') = Len(box) /\ \A j \in 1..Len(box) : box'[j].msg = box[j].msg
<1>1. box \in Seq(Entry) BY DEF Typing, TypedBox
<1>2. box' = [box EXCEPT ![i] = [box[i] EXCEPT !.live = FALSE]] BY DEF Expire
<1> DEFINE e == [box[i] EXCEPT !.live = FALSE]
<1>3. box[i] \in Entry BY <1>1
<1>4. e.msg = box[i].msg BY <1>3 DEF Entry
<1> HIDE DEF e
<1>5. box' = [box EXCEPT ![i] = e] BY <1>2 DEF e
<1> QED BY <1>1, <1>4, <1>5

LEMMA BoxSteps ==
    ASSUME Typing, [Next]_vars, durable
    PROVE  (Thin /\ Kept) \/ \E m \in Peers : Send(m)
<1>1. CASE UNCHANGED box
  <2>1. Len(box') = Len(box) /\ \A i \in 1..Len(box) : box'[i].msg = box[i].msg BY <1>1
  <2> QED BY <2>1, SameMessages
<1>2. ASSUME NEW s \in Sessions, Claim(s) PROVE Thin /\ Kept
  BY <1>2, ClaimIs, SameMessages
<1>3. ASSUME NEW s \in Sessions, Release(s) PROVE Thin /\ Kept
  <2>1. box' = ReleasedBox(s) BY <1>3, Zenon DEF Release
  <2>2. Len(box') = Len(box) /\ \A i \in 1..Len(box) : box'[i].msg = box[i].msg
    BY <2>1, ReleasedBoxIs, Zenon
  <2> QED BY <2>2, SameMessages
<1>4. ASSUME NEW i \in 1..Len(box), Expire(i) PROVE Thin /\ Kept
  BY <1>4, ExpireIs, SameMessages
<1>5. ASSUME NEW s \in Sessions, Acks(s) PROVE Thin /\ Kept
  <2>1. box' = AckedBox(s) BY <1>5, Zenon DEF Acks, Ack, LoseReply
  <2> DEFINE Good(q) ==
                /\ \A i \in 1..Len(q) : \E j \in 1..Len(box) : q[i] = box[j]
                /\ \A i, j \in 1..Len(q) : i < j =>
                      \E k, l \in 1..Len(box) : k < l /\ q[i] = box[k] /\ q[j] = box[l]
                /\ \A j \in 1..Len(box) : ~ Holds(s, box[j]) => \E i \in 1..Len(q) : q[i] = box[j]
  <2>0. Good(AckedBox(s))
    <3>1. \A i \in 1..Len(AckedBox(s)) : \E j \in 1..Len(box) : AckedBox(s)[i] = box[j]
      BY AckedBoxIs
    <3> QED BY <3>1, AckedBoxIs, Zenon
  <2> HIDE DEF Good
  <2>2. Good(box') BY <2>0, <2>1
  <2>3. Thin
    <3>1. \A i \in 1..Len(box') : \E k \in 1..Len(box) : box'[i].msg = box[k].msg
      BY <2>2, Zenon DEF Good
    <3>2. \A i, j \in 1..Len(box') : i < j =>
             \E k, l \in 1..Len(box) : k < l /\ box'[i].msg = box[k].msg /\ box'[j].msg = box[l].msg
      <4> SUFFICES ASSUME NEW i \in 1..Len(box'), NEW j \in 1..Len(box'), i < j
                   PROVE  \E k, l \in 1..Len(box) :
                             k < l /\ box'[i].msg = box[k].msg /\ box'[j].msg = box[l].msg
        OBVIOUS
      <4>1. PICK k, l \in 1..Len(box) : k < l /\ box'[i] = box[k] /\ box'[j] = box[l]
        BY <2>2 DEF Good
      <4> QED BY <4>1
    <3> QED BY <3>1, <3>2 DEF Thin
  <2>4. Kept
    <3> SUFFICES ASSUME NEW j \in 1..Len(box)
                 PROVE  \/ \E i \in 1..Len(box') : box'[i].msg = box[j].msg
                        \/ box[j].msg \in Range(batch[s])
      BY <1>5 DEF Kept
    <3>1. CASE Holds(s, box[j]) BY <3>1, Zenon DEF Holds
    <3>2. CASE ~ Holds(s, box[j])
      <4>1. PICK i \in 1..Len(box') : box'[i] = box[j] BY <3>2, <2>2 DEF Good
      <4> QED BY <4>1
    <3> QED BY <3>1, <3>2
  <2> QED BY <2>3, <2>4
<1>6. ASSUME NEW s \in Sessions, Acts(s)
      PROVE  UNCHANGED box \/ Claim(s) \/ Release(s) \/ Acks(s)
  <2>1. ~ DrainMail(s) BY Zenon DEF DrainMail
  <2>2. ~ Redeliver(s) BY HandedBack
  <2> QED
    BY <1>6, <2>1, <2>2, Zenon DEF Acts, Stores, Publishes, Fails, OnBox, ResumeRun, BeginDrain,
       ClaimNothing, Turn, CancelCommit, Interrupt, LoseReply, Crash, StartRun, CommitNotes, CommitPeers,
       AppendNote, AppendBatch, PromptAppended, NotesCommitted, PeersCommitted, NoteAppended,
       BatchAppended, EnqueuePeer, mail, Acks
<1>7. (\E s \in Sessions, n \in Notes : Notify(s, n)) \/ UNCHANGED vars => UNCHANGED box
  BY Zenon DEF Notify, vars, mail
<1> QED BY <1>1, <1>2, <1>3, <1>4, <1>5, <1>6, <1>7, InboxCases

(* Receipts are for ever, and peers get theirs from EnqueuePeer.            *)
LEMMA ReceiptsGrow ==
    ASSUME Typing, [Next]_vars, NEW t \in Sessions
    PROVE  /\ receipts[t] \subseteq receipts'[t]
           /\ Received(t)' = Received(t) \/ EnqueuePeer(t)
<1>0. receipts \in [Sessions -> SUBSET Deliveries] BY DEF Typing, TypedRows
<1>1. CASE receipts' = receipts BY <1>1 DEF Received
<1>2. ASSUME NEW s \in Sessions, NEW n \in Notes, Notify(s, n)
      PROVE  receipts[t] \subseteq receipts'[t] /\ Received(t)' = Received(t)
  <2>1. receipts' = receipts \/ receipts' = [receipts EXCEPT ![s] = @ \cup {n}]
    BY <1>2, Zenon DEF Notify, Enqueued
  <2>2. receipts'[t] = receipts[t] \/ receipts'[t] = receipts[t] \cup {n} BY <2>1, <1>0
  <2>3. n \notin Peers BY InboxAssumption
  <2> QED BY <2>2, <2>3 DEF Received
<1>3. ASSUME NEW s \in Sessions, EnqueuePeer(s)
      PROVE  receipts[t] \subseteq receipts'[t] /\ (Received(t)' = Received(t) \/ EnqueuePeer(t))
  <2>1. receipts' = receipts \/ receipts' = [receipts EXCEPT ![s] = @ \cup {batch[s][todo[s]]}]
    BY <1>3, Zenon DEF EnqueuePeer, Enqueued
  <2>2. CASE s = t BY <2>1, <2>2, <1>0, <1>3
  <2>3. CASE s # t
    <3>1. receipts'[t] = receipts[t] BY <2>1, <2>3, <1>0
    <3> QED BY <3>1 DEF Received
  <2> QED BY <2>2, <2>3
<1>4. ASSUME NEW s \in Sessions, Acts(s) PROVE receipts' = receipts \/ EnqueuePeer(s)
  BY <1>4, Zenon DEF Acts, Stores, Publishes, OnBox, Fails, ResumeRun, BeginDrain, ClaimNothing, Claim,
     Ack, Release, DrainMail, Redeliver, CancelCommit, Interrupt, LoseReply, Crash, Turn, StartRun,
     CommitNotes, CommitPeers, NoteAppended, Committed,
     AppendNote, AppendBatch, PromptAppended, NotesCommitted, PeersCommitted, BatchAppended, mail, rows
<1>5. (\E m \in Peers : Send(m)) \/ (\E i \in 1..Len(box) : Expire(i)) \/ UNCHANGED vars
      => receipts' = receipts
  BY Zenon DEF Send, Expire, vars, rows
<1> QED BY <1>1, <1>2, <1>3, <1>4, <1>5, InboxCases

(* How a session comes to a claim, to its commit, and to an empty hand.     *)
LEMMA HandSteps ==
    ASSUME Typing, [Next]_vars, durable, NEW t \in Sessions
    PROVE  /\ pc'[t] = "claimed" =>
                 \/ Claim(t) \/ EnqueuePeer(t)
                 \/ pc[t] = "claimed" /\ batch'[t] = batch[t] /\ todo'[t] = todo[t]
           /\ pc'[t] \in {"mailCommit", "mailCommitted", "acking"} =>
                 \/ EnqueuePeer(t)
                 \/ pc[t] \in {"mailCommit", "mailCommitted", "acking"} /\ batch'[t] = batch[t]
           /\ batch'[t] = batch[t] \/ batch'[t] = <<>> \/ Claim(t)
<1> DEFINE Good ==
              /\ pc'[t] = "claimed" =>
                    \/ Claim(t) \/ EnqueuePeer(t)
                    \/ pc[t] = "claimed" /\ batch'[t] = batch[t] /\ todo'[t] = todo[t]
              /\ pc'[t] \in {"mailCommit", "mailCommitted", "acking"} =>
                    \/ EnqueuePeer(t)
                    \/ pc[t] \in {"mailCommit", "mailCommitted", "acking"} /\ batch'[t] = batch[t]
              /\ batch'[t] = batch[t] \/ batch'[t] = <<>> \/ Claim(t)
<1>0. DOMAIN batch = Sessions BY DEF Typing, TypedClaims
<1>1. ASSUME pc'[t] = pc[t], batch'[t] = batch[t], todo'[t] = todo[t] PROVE Good BY <1>1
<1>2. ASSUME pc'[t] \notin {"claimed", "mailCommit", "mailCommitted", "acking"},
             batch' = batch \/ Drop(t)
      PROVE  Good
  <2>1. batch'[t] = batch[t] \/ batch'[t] = <<>> BY <1>2, <1>0 DEF Drop
  <2> QED BY <1>2, <2>1
<1> DEFINE Elsewhere == {"idle", "prompted", "top", "committed", "drain", "noted", "mail", "releasing",
                         "redeliver", "batchStored", "body"}
<1>3. ASSUME StartRun(t) \/ CommitNotes(t) \/ AppendNote(t) \/ AppendBatch(t) \/ PromptAppended(t)
             \/ NotesCommitted(t) \/ NoteAppended(t) \/ BatchAppended(t) \/ Ack(t) \/ Release(t)
             \/ LoseReply(t) \/ Crash(t) \/ ResumeRun(t) \/ Turn(t) \/ BeginDrain(t) \/ ClaimNothing(t)
      PROVE  Good
  <2>1. \E w \in Elsewhere : Go(t, w)
    <3>1. CASE LoseReply(t) BY <3>1 DEF LoseReply
    <3> QED
      BY <1>3, <3>1 DEF StartRun, CommitNotes, AppendNote, AppendBatch, PromptAppended, NotesCommitted,
         NoteAppended, BatchAppended, Ack, Release, Crash, ResumeRun, Turn, BeginDrain, ClaimNothing
  <2>2. pc'[t] \in Elsewhere BY <2>1, Goes
  <2>3. batch' = batch \/ Drop(t)
    BY <1>3, Zenon DEF StartRun, CommitNotes, AppendNote, AppendBatch, PromptAppended, NotesCommitted,
       NoteAppended, BatchAppended, Ack, Release, LoseReply, Crash, ResumeRun, Turn, BeginDrain,
       ClaimNothing, mail
  <2> QED BY <2>2, <2>3, <1>2
<1>4. ASSUME Interrupt(t) PROVE Good
  <2>1. pc'[t] = Unwind(t) /\ batch' = batch BY <1>4, Goes DEF Interrupt, mail
  <2>2. Unwind(t) \in {"releasing", "redeliver", "idle"} BY DEF Unwind
  <2> QED BY <2>1, <2>2, <1>2
<1>5. ASSUME CancelCommit(t) PROVE Good
  <2>1. UNCHANGED <<pc, batch, todo>> BY <1>5, Zenon DEF CancelCommit, mail
  <2> QED BY <2>1, <1>1
<1>6. ASSUME CommitPeers(t) \/ PeersCommitted(t) PROVE Good
  <2>1. /\ pc[t] \in {"mailCommit", "mailCommitted"} /\ pc'[t] \in {"mailCommitted", "acking"}
        /\ batch'[t] = batch[t]
    BY <1>6, Goes DEF CommitPeers, PeersCommitted, mail
  <2> QED BY <2>1
<1>7. ASSUME EnqueuePeer(t) PROVE Good
  <2>1. batch' = batch BY <1>7, Zenon DEF EnqueuePeer, mail
  <2> QED BY <2>1, <1>7
<1>8. ASSUME Claim(t) PROVE Good
  <2>1. pc'[t] = "claimed"
    <3>1. Go(t, "claimed") BY <1>8, Zenon DEF Claim
    <3> QED BY <3>1, Goes
  <2> QED BY <2>1, <1>8
<1>9. ~ DrainMail(t) /\ ~ Redeliver(t)
  <2>1. ~ DrainMail(t) BY Zenon DEF DrainMail
  <2> QED BY <2>1, HandedBack
<1> HIDE DEF Good
<1>10. ASSUME Acts(t) PROVE Good
  BY <1>3, <1>4, <1>5, <1>6, <1>7, <1>8, <1>9, <1>10, Zenon DEF Acts, Stores, Publishes, OnBox, Fails
<1>11. ASSUME NEW s \in Sessions, Acts(s), s # t PROVE Good
  <2>1. Same(t) BY <1>11, Others
  <2> QED BY <2>1, <1>1 DEF Same
<1>12. (\E m \in Peers : Send(m)) \/ (\E s \in Sessions, n \in Notes : Notify(s, n))
       \/ (\E i \in 1..Len(box) : Expire(i)) \/ UNCHANGED vars
       => UNCHANGED <<pc, batch, todo>>
  BY Zenon DEF Send, Notify, Expire, vars, mail
<1>13. ASSUME UNCHANGED <<pc, batch, todo>> PROVE Good BY <1>1, <1>13 DEF Good
<1>14. Good
  <2>1. ASSUME NEW s \in Sessions, Acts(s) PROVE Good BY <1>10, <1>11, <2>1
  <2> QED BY <2>1, <1>12, <1>13, InboxCases
<1> QED BY <1>14 DEF Good

LEMMA RowSteps ==
    ASSUME Typing, [Next]_vars, durable, NEW t \in Sessions
    PROVE  /\ \/ inbox'[t] = inbox[t] /\ receipts'[t] = receipts[t] /\ stored'[t] = stored[t]
              \/ StartRun(t) \/ CommitNotes(t) \/ CommitPeers(t) \/ EnqueuePeer(t)
              \/ \E n \in Notes : Notify(t, n)
           /\ queue'[t] = queue[t]
<1> DEFINE Good ==
              /\ \/ inbox'[t] = inbox[t] /\ receipts'[t] = receipts[t] /\ stored'[t] = stored[t]
                 \/ StartRun(t) \/ CommitNotes(t) \/ CommitPeers(t) \/ EnqueuePeer(t)
                 \/ \E n \in Notes : Notify(t, n)
              /\ queue'[t] = queue[t]
<1>1. ASSUME UNCHANGED <<rows, stored>> PROVE Good BY <1>1 DEF rows
<1>2. ASSUME Acts(t) PROVE Good
  <2>1. ~ AppendNote(t) /\ ~ NoteAppended(t) /\ ~ AppendBatch(t)
    <3>1. pc[t] \notin InMemory BY DEF Typing, Fits, Fitting
    <3> QED BY <3>1 DEF AppendNote, NoteAppended, AppendBatch, InMemory
  <2>2. \/ UNCHANGED <<rows, stored>>
        \/ UNCHANGED queue /\ (StartRun(t) \/ CommitNotes(t) \/ CommitPeers(t) \/ EnqueuePeer(t))
    BY <1>2, <2>1, Zenon DEF Acts, Stores, Publishes, Fails, OnBox, ResumeRun, BeginDrain,
       ClaimNothing, Turn, CancelCommit, Interrupt, LoseReply, Crash, StartRun, CommitNotes, CommitPeers,
       PromptAppended, NotesCommitted, PublishNotes, PeersCommitted, BatchAppended, Publish, Committed,
       EnqueuePeer, Ack, Release, Claim, DrainMail, Redeliver, rows, log
  <2>3. ASSUME StartRun(t) \/ CommitNotes(t) \/ CommitPeers(t) \/ EnqueuePeer(t), UNCHANGED queue
        PROVE  Good
    BY <2>3
  <2> QED BY <2>2, <2>3, <1>1
<1>3. ASSUME NEW s \in Sessions, Acts(s), s # t PROVE Good
  <2>1. Same(t) BY <1>3, Others
  <2> QED BY <2>1 DEF Same
<1>4. ASSUME NEW s \in Sessions, NEW n \in Notes, Notify(s, n) PROVE Good
  <2>1. queue' = queue /\ stored' = stored /\ Enqueued(s, n) BY <1>4, Zenon DEF Notify, log
  <2>2. CASE s = t BY <2>1, <2>2, <1>4
  <2>3. CASE s # t
    <3>1. n \in Deliveries BY DEF Deliveries
    <3>2. /\ receipts' = [receipts EXCEPT ![s] = @ \cup {n}]
          /\ inbox' = [inbox EXCEPT ![s] = IF n \in receipts[s] THEN @ ELSE Append(@, n)]
      BY <2>1, <3>1, EnqueuedIs
    <3>3. DOMAIN inbox = Sessions /\ DOMAIN receipts = Sessions BY DEF Typing, TypedRows
    <3>4. inbox'[t] = inbox[t] /\ receipts'[t] = receipts[t] BY <3>2, <3>3, <2>3
    <3> QED BY <3>4, <2>1
  <2> QED BY <2>2, <2>3
<1>5. (\E m \in Peers : Send(m)) \/ (\E i \in 1..Len(box) : Expire(i)) \/ UNCHANGED vars
      => UNCHANGED <<rows, stored>>
  BY Zenon DEF Send, Expire, vars, log
<1> HIDE DEF Good
<1>6. Good BY <1>1, <1>2, <1>3, <1>4, <1>5, InboxCases
<1> QED BY <1>6 DEF Good

LEMMA SendIs ==
    ASSUME Typing, NEW m \in Peers, Send(m)
    PROVE  /\ m \notin Range(sent) /\ Range(sent') = Range(sent) \cup {m}
           /\ \A s \in Sessions : m \notin receipts[s]
           /\ Len(box') = Len(box) + 1 /\ Len(box) \in Nat
           /\ \A i \in 1..Len(box) : box'[i].msg = box[i].msg
           /\ box'[Len(box) + 1].msg = m
           /\ \A x \in Range(sent) : Later(x, m)
           /\ UNCHANGED <<batch, pc, todo, rows, log>>
<1>0. box \in Seq(Entry) /\ sent \in Seq(Peers) BY DEF Typing, TypedBox
<1>1. /\ m \notin Range(sent) \cup UNION {receipts[s] : s \in Sessions}
      /\ box' = Append(box, [msg |-> m, tok |-> NoToken, live |-> FALSE])
      /\ sent' = Append(sent, m)
      /\ UNCHANGED <<batch, pc, todo, rows, log>>
  BY Zenon DEF Send, MaySend, Accepted
<1>2. m \notin Range(sent) /\ \A s \in Sessions : m \notin receipts[s] BY <1>1
<1> DEFINE e == [msg |-> m, tok |-> NoToken, live |-> FALSE]
<1>3. e \in Entry /\ e.msg = m BY DEF Entry
<1> HIDE DEF e
<1>4. box' = Append(box, e) BY <1>1 DEF e
<1>5. /\ Len(box') = Len(box) + 1 /\ Len(box) \in Nat
      /\ \A i \in 1..Len(box) : box'[i] = box[i]
      /\ box'[Len(box) + 1] = e
  BY <1>0, <1>3, <1>4, RangeAppend
<1>6. /\ \A i \in 1..Len(box) : box'[i].msg = box[i].msg
      /\ box'[Len(box) + 1].msg = m
  BY <1>3, <1>5
<1>7. /\ Len(sent') = Len(sent) + 1 /\ Len(sent) \in Nat
      /\ \A i \in 1..Len(sent) : sent'[i] = sent[i]
      /\ sent'[Len(sent) + 1] = m
      /\ Range(sent') = Range(sent) \cup {m}
  BY <1>0, <1>1, RangeAppend
<1>8. ASSUME NEW x \in Range(sent) PROVE Later(x, m)
  <2>1. PICK a \in 1..Len(sent) : sent[a] = x BY <1>0, InRange
  <2>2. a \in 1..Len(sent') /\ Len(sent) + 1 \in 1..Len(sent') /\ a < Len(sent) + 1 BY <1>7
  <2>3. sent'[a] = x BY <2>1, <1>7
  <2> QED BY <2>2, <2>3, <1>7 DEF Later
<1> QED BY <1>1, <1>2, <1>5, <1>6, <1>7, <1>8

LEMMA PostedStep ==
    ASSUME Typing, [Next]_vars, durable, Posted, BoxInOrder, \A s \in Sessions : Settled(s)
    PROVE  Posted' /\ BoxInOrder'
<1>0. sent \in Seq(Peers) /\ Len(box) \in Nat BY DEF Typing, TypedBox
<1>1. ASSUME NEW m \in Peers, Send(m) PROVE Posted' /\ BoxInOrder'
  <2>1. /\ Range(sent') = Range(sent) \cup {m}
        /\ Len(box') = Len(box) + 1 /\ Len(box) \in Nat
        /\ \A i \in 1..Len(box) : box'[i].msg = box[i].msg
        /\ box'[Len(box) + 1].msg = m
        /\ \A x \in Range(sent) : Later(x, m)
        /\ UNCHANGED receipts
    BY <1>1, SendIs DEF rows
  <2>2. \A i \in 1..Len(box') : i \in 1..Len(box) \/ i = Len(box) + 1 BY <2>1
  <2>3. \A i \in 1..Len(box) : i \in 1..Len(box') BY <2>1
  <2>4. Len(box) + 1 \in 1..Len(box') BY <2>1
  <2>5. \A i \in 1..Len(box') : box'[i].msg \in Range(sent') BY <2>1, <2>2 DEF Posted
  <2>6. ASSUME NEW x \in Range(sent')
        PROVE  (\E i \in 1..Len(box') : box'[i].msg = x) \/ \E s \in Sessions : x \in receipts'[s]
    <3>1. CASE x = m BY <3>1, <2>1, <2>4
    <3>2. CASE x \in Range(sent) BY <3>2, <2>1, <2>3 DEF Posted
    <3> QED BY <3>1, <3>2, <2>1
  <2>7. ASSUME NEW i \in 1..Len(box'), NEW j \in 1..Len(box'), i < j
        PROVE  Later(box'[i].msg, box'[j].msg)
    <3>1. i \in 1..Len(box) BY <2>7, <2>1
    <3>2. CASE j \in 1..Len(box)
      <4>1. Older(box[i].msg, box[j].msg) BY <3>1, <3>2, <2>7 DEF BoxInOrder
      <4>2. Later(box[i].msg, box[j].msg) BY <4>1, SentGrows
      <4> QED BY <4>2, <3>1, <3>2, <2>1
    <3>3. CASE j = Len(box) + 1
      <4>1. box[i].msg \in Range(sent) BY <3>1 DEF Posted
      <4> QED BY <4>1, <3>1, <3>3, <2>1
    <3> QED BY <3>2, <3>3, <2>2
  <2> QED BY <2>5, <2>6, <2>7 DEF Posted, BoxInOrder, Older, Later
<1>2. ASSUME Thin, Kept, sent' = sent PROVE Posted' /\ BoxInOrder'
  <2>1. \A i \in 1..Len(box') : box'[i].msg \in Range(sent') BY <1>2 DEF Thin, Posted
  <2>2. ASSUME NEW x \in Range(sent')
        PROVE  (\E i \in 1..Len(box') : box'[i].msg = x) \/ \E s \in Sessions : x \in receipts'[s]
    <3>1. CASE \E j \in 1..Len(box) : box[j].msg = x
      <4>1. PICK j \in 1..Len(box) : box[j].msg = x BY <3>1
      <4>2. CASE \E i \in 1..Len(box') : box'[i].msg = box[j].msg BY <4>1, <4>2
      <4>3. CASE \E s \in Sessions : Acks(s) /\ box[j].msg \in Range(batch[s])
        <5>1. PICK s \in Sessions : Acks(s) /\ x \in Range(batch[s]) BY <4>1, <4>3
        <5>2. pc[s] = "acking" BY <5>1 DEF Acks, Ack
        <5>3. x \in receipts[s] BY <5>1, <5>2 DEF Settled
        <5>4. receipts[s] \subseteq receipts'[s] BY ReceiptsGrow
        <5>5. x \in receipts'[s] BY <5>3, <5>4
        <5> QED BY <5>1, <5>5
      <4> QED BY <4>2, <4>3, <1>2 DEF Kept
    <3>2. CASE \E s \in Sessions : x \in receipts[s]
      <4>1. PICK s \in Sessions : x \in receipts[s] BY <3>2
      <4>2. receipts[s] \subseteq receipts'[s] BY ReceiptsGrow
      <4>3. x \in receipts'[s] BY <4>1, <4>2
      <4> QED BY <4>1, <4>3
    <3> QED BY <3>1, <3>2, <1>2 DEF Posted
  <2>3. ASSUME NEW i \in 1..Len(box'), NEW j \in 1..Len(box'), i < j
        PROVE  Later(box'[i].msg, box'[j].msg)
    <3>1. PICK k, l \in 1..Len(box) : k < l /\ box'[i].msg = box[k].msg /\ box'[j].msg = box[l].msg
      BY <2>3, <1>2 DEF Thin
    <3>2. Older(box'[i].msg, box'[j].msg) BY <3>1 DEF BoxInOrder
    <3> QED BY <3>2, SentGrows
  <2> QED BY <2>1, <2>2, <2>3 DEF Posted, BoxInOrder, Older, Later
<1> QED BY <1>1, <1>2, BoxSteps, SentGrows

(* Receiving the next of a batch.                                           *)
LEMMA EnqueuePeerIs ==
    ASSUME Typing, NEW s \in Sessions, EnqueuePeer(s)
    PROVE  LET m == batch[s][todo[s]] IN
           /\ receipts'[s] = receipts[s] \cup {m}
           /\ inbox'[s] = IF m \in receipts[s] THEN inbox[s] ELSE Append(inbox[s], m)
           /\ todo'[s] = todo[s] + 1
           /\ pc'[s] = IF todo[s] = Len(batch[s]) THEN "mailCommit" ELSE "claimed"
           /\ UNCHANGED <<durable, box, batch, sent, stored>>
<1> DEFINE m == batch[s][todo[s]]
<1>1. /\ Enqueued(s, m) /\ todo' = [todo EXCEPT ![s] = @ + 1]
      /\ Go(s, IF todo[s] = Len(batch[s]) THEN "mailCommit" ELSE "claimed")
      /\ UNCHANGED <<durable, box, batch, sent, stored>>
  BY Zenon DEF EnqueuePeer, mail, log
<1>2. m \in Deliveries BY PeerInHand
<1>3. DOMAIN inbox = Sessions /\ DOMAIN receipts = Sessions /\ DOMAIN todo = Sessions
  BY DEF Typing, TypedRows, TypedRuns
<1>4. pc'[s] = IF todo[s] = Len(batch[s]) THEN "mailCommit" ELSE "claimed" BY <1>1, Goes
<1> HIDE DEF m
<1>5. /\ receipts' = [receipts EXCEPT ![s] = @ \cup {m}]
      /\ inbox' = [inbox EXCEPT ![s] = IF m \in receipts[s] THEN @ ELSE Append(@, m)]
  BY <1>1, <1>2, EnqueuedIs
<1>6. /\ receipts'[s] = receipts[s] \cup {m}
      /\ inbox'[s] = IF m \in receipts[s] THEN inbox[s] ELSE Append(inbox[s], m)
      /\ todo'[s] = todo[s] + 1
  BY <1>1, <1>3, <1>5
<1> QED BY <1>1, <1>4, <1>6 DEF m

LEMMA CaughtStep ==
    ASSUME Typing, [Next]_vars, durable, Posted, NEW t \in Sessions, Caught(t), Batched(t), Known(t)
    PROVE  Caught(t)'
<1>0. receipts[t] \subseteq receipts'[t] BY ReceiptsGrow
<1>1. ASSUME NEW m \in Peers, Send(m) PROVE Caught(t)'
  <2>1. /\ Len(box') = Len(box) + 1 /\ Len(box) \in Nat
        /\ \A i \in 1..Len(box) : box'[i].msg = box[i].msg
        /\ box'[Len(box) + 1].msg = m
        /\ \A x \in Range(sent) : Later(x, m)
        /\ receipts' = receipts
    BY <1>1, SendIs DEF rows
  <2>2. ASSUME NEW i \in 1..Len(box')
        PROVE  box'[i].msg \in receipts'[t] \/ \A x \in Received(t)' : Later(x, box'[i].msg)
    <3>1. CASE i \in 1..Len(box)
      <4>1. box[i].msg \in receipts[t] \/ \A x \in Received(t) : Older(x, box[i].msg)
        BY <3>1 DEF Caught
      <4>2. box'[i].msg = box[i].msg BY <3>1, <2>1
      <4>3. box[i].msg \in receipts[t] \/ \A x \in Received(t) : Later(x, box[i].msg)
        BY <4>1, SentGrows
      <4> QED BY <4>2, <4>3, <2>1 DEF Received
    <3>2. CASE i = Len(box) + 1
      <4>1. Received(t)' \subseteq Range(sent) BY <2>1 DEF Received, Known
      <4> QED BY <4>1, <3>2, <2>1
    <3> QED BY <3>1, <3>2, <2>1
  <2> QED BY <2>2 DEF Caught, Older, Later
<1>2. ASSUME Thin, Received(t)' = Received(t) PROVE Caught(t)'
  <2>1. ASSUME NEW i \in 1..Len(box')
        PROVE  box'[i].msg \in receipts'[t] \/ \A x \in Received(t)' : Later(x, box'[i].msg)
    <3>1. PICK k \in 1..Len(box) : box'[i].msg = box[k].msg BY <1>2 DEF Thin
    <3>2. box[k].msg \in receipts[t] \/ \A x \in Received(t) : Older(x, box[k].msg) BY DEF Caught
    <3>3. box[k].msg \in receipts[t] \/ \A x \in Received(t) : Later(x, box[k].msg)
      BY <3>2, SentGrows
    <3> QED BY <3>1, <3>3, <1>0, <1>2
  <2> QED BY <2>1 DEF Caught, Older, Later
<1>3. ASSUME EnqueuePeer(t) PROVE Caught(t)'
  <2> DEFINE m == batch[t][todo[t]]
  <2>1. receipts'[t] = receipts[t] \cup {m} /\ box' = box /\ sent' = sent BY <1>3, EnqueuePeerIs
  <2>2. /\ pc[t] = "claimed" /\ todo[t] \in 1..Len(batch[t]) /\ batch[t] \in Seq(Peers)
        /\ Len(batch[t]) \in Nat
    BY <1>3, PeerInHand
  <2>3. ASSUME NEW i \in 1..Len(box), box[i].msg \notin receipts'[t], NEW x \in Received(t)'
        PROVE  Older(x, box[i].msg)
    <3>1. CASE x \in Received(t)
      <4>1. box[i].msg \notin receipts[t] BY <2>1, <2>3
      <4> QED BY <4>1, <3>1 DEF Caught
    <3>2. CASE x = m
      <4>1. box[i].msg \in Range(batch[t]) \/ Older(m, box[i].msg) BY <2>2 DEF Batched
      <4>2. CASE box[i].msg \in Range(batch[t])
        <5>1. PICK l \in 1..Len(batch[t]) : box[i].msg = batch[t][l] BY <4>2, <2>2, InRange
        <5>2. CASE l < todo[t]
          <6>1. l \in 1..(todo[t] - 1) BY <5>2, <2>2
          <6>2. batch[t][l] \in receipts[t] BY <6>1, <2>2 DEF Batched
          <6> QED BY <6>2, <5>1, <2>1, <2>3
        <5>3. CASE l = todo[t] BY <5>1, <5>3, <2>1, <2>3
        <5>4. CASE todo[t] < l
          <6>1. Older(batch[t][todo[t]], batch[t][l]) BY <5>4, <2>2 DEF Batched
          <6> QED BY <6>1, <5>1, <3>2
        <5> QED BY <5>2, <5>3, <5>4, <2>2
      <4> QED BY <4>1, <4>2, <3>2
    <3> QED BY <3>1, <3>2, <2>1 DEF Received
  <2> QED BY <2>1, <2>3 DEF Caught, Older
<1> QED BY <1>1, <1>2, <1>3, BoxSteps, ReceiptsGrow

LEMMA BatchedStep ==
    ASSUME Typing, [Next]_vars, durable, Posted, BoxInOrder, NEW t \in Sessions,
           Caught(t), Batched(t), Known(t)
    PROVE  Batched(t)'
<1> SUFFICES ASSUME pc'[t] = "claimed" PROVE Batched(t)' BY DEF Batched
<1>1. ASSUME /\ \A k, l \in 1..Len(batch'[t]) : k < l => Later(batch'[t][k], batch'[t][l])
             /\ \A k \in 1..(todo'[t] - 1) : batch'[t][k] \in receipts'[t]
             /\ \A k \in todo'[t]..Len(batch'[t]) :
                   batch'[t][k] \in receipts'[t] \/ \A x \in Received(t)' : Later(x, batch'[t][k])
             /\ \A i \in 1..Len(box'), k \in 1..Len(batch'[t]) :
                   box'[i].msg \in Range(batch'[t]) \/ Later(batch'[t][k], box'[i].msg)
      PROVE  Batched(t)'
  BY <1>1 DEF Batched, Older, Later
<1>2. receipts[t] \subseteq receipts'[t] BY ReceiptsGrow
<1>3. CASE Claim(t)
  <2>1. receipts' = receipts /\ sent' = sent /\ todo' = [todo EXCEPT ![t] = 1]
    BY <1>3, Zenon DEF Claim, rows
  <2>2. todo'[t] = 1 BY <2>1 DEF Typing, TypedRuns
  <2>3. Len(box') = Len(box) /\ \A i \in 1..Len(box) : box'[i].msg = box[i].msg BY <1>3, ClaimIs
  <2>4. ASSUME NEW k \in 1..Len(batch'[t]), NEW l \in 1..Len(batch'[t]), k < l
        PROVE  Later(batch'[t][k], batch'[t][l])
    <3>1. PICK i, j \in 1..Len(box) :
             i < j /\ batch'[t][k] = box[i].msg /\ batch'[t][l] = box[j].msg
      BY <1>3, <2>4, ClaimIs
    <3>2. Older(box[i].msg, box[j].msg) BY <3>1 DEF BoxInOrder
    <3> QED BY <3>1, <3>2, SentGrows
  <2>5. ASSUME NEW k \in 1..Len(batch'[t])
        PROVE  batch'[t][k] \in receipts'[t] \/ \A x \in Received(t)' : Later(x, batch'[t][k])
    <3>1. PICK i \in 1..Len(box) : batch'[t][k] = box[i].msg BY <1>3, ClaimIs
    <3>2. box[i].msg \in receipts[t] \/ \A x \in Received(t) : Older(x, box[i].msg)
      BY <3>1 DEF Caught
    <3>3. box[i].msg \in receipts[t] \/ \A x \in Received(t) : Later(x, box[i].msg)
      BY <3>2, SentGrows
    <3> QED BY <3>1, <3>3, <2>1 DEF Received
  <2>6. ASSUME NEW i \in 1..Len(box), NEW k \in 1..Len(batch'[t])
        PROVE  box[i].msg \in Range(batch'[t]) \/ Later(batch'[t][k], box[i].msg)
    <3>1. \/ box[i].msg \in Range(batch'[t])
          \/ \E j \in 1..Len(box) : j < i /\ batch'[t][k] = box[j].msg
      BY <1>3, ClaimIs
    <3>2. ASSUME NEW j \in 1..Len(box), j < i, batch'[t][k] = box[j].msg
          PROVE  Later(batch'[t][k], box[i].msg)
      <4>1. Older(box[j].msg, box[i].msg) BY <3>2 DEF BoxInOrder
      <4> QED BY <4>1, <3>2, SentGrows
    <3> QED BY <3>1, <3>2
  <2>7. \A k \in 1..(todo'[t] - 1) : batch'[t][k] \in receipts'[t] BY <2>2
  <2>8. \A k \in todo'[t]..Len(batch'[t]) :
           batch'[t][k] \in receipts'[t] \/ \A x \in Received(t)' : Later(x, batch'[t][k])
    BY <2>2, <2>5
  <2>9. \A i \in 1..Len(box'), k \in 1..Len(batch'[t]) :
           box'[i].msg \in Range(batch'[t]) \/ Later(batch'[t][k], box'[i].msg)
    BY <2>3, <2>6
  <2> QED BY <2>4, <2>7, <2>8, <2>9, <1>1
<1>4. CASE EnqueuePeer(t)
  <2> DEFINE m == batch[t][todo[t]]
  <2>1. /\ receipts'[t] = receipts[t] \cup {m} /\ box' = box /\ batch' = batch
        /\ todo'[t] = todo[t] + 1 /\ todo[t] # Len(batch[t])
    BY <1>4, EnqueuePeerIs
  <2>2. /\ pc[t] = "claimed" /\ todo[t] \in 1..Len(batch[t]) /\ Len(batch[t]) \in Nat
    BY <1>4, PeerInHand
  <2>3. \A k, l \in 1..Len(batch[t]) : k < l => Later(batch[t][k], batch[t][l])
    <3>1. \A k, l \in 1..Len(batch[t]) : k < l => Older(batch[t][k], batch[t][l])
      BY <2>2 DEF Batched
    <3> QED BY <3>1, SentGrows
  <2>4. ASSUME NEW k \in 1..(todo'[t] - 1) PROVE batch[t][k] \in receipts'[t]
    <3>1. CASE k \in 1..(todo[t] - 1) BY <3>1, <2>1, <2>2 DEF Batched
    <3>2. CASE k = todo[t] BY <3>2, <2>1
    <3> QED BY <3>1, <3>2, <2>1, <2>2
  <2>5. ASSUME NEW k \in todo'[t]..Len(batch[t]), batch[t][k] \notin receipts'[t],
               NEW x \in Received(t)'
        PROVE  Later(x, batch[t][k])
    <3>1. k \in todo[t]..Len(batch[t]) /\ k \in 1..Len(batch[t]) /\ todo[t] < k BY <2>1, <2>2
    <3>2. CASE x \in Received(t)
      <4>1. Older(x, batch[t][k]) BY <3>1, <3>2, <2>1, <2>2, <2>5 DEF Batched
      <4> QED BY <4>1, SentGrows
    <3>3. CASE x = m BY <3>1, <3>3, <2>2, <2>3
    <3> QED BY <3>2, <3>3, <2>1 DEF Received
  <2>6. ASSUME NEW i \in 1..Len(box), NEW k \in 1..Len(batch[t]), box[i].msg \notin Range(batch[t])
        PROVE  Later(batch[t][k], box[i].msg)
    <3>1. Older(batch[t][k], box[i].msg) BY <2>2, <2>6 DEF Batched
    <3> QED BY <3>1, SentGrows
  <2> HIDE DEF m
  <2>7. batch'[t] = batch[t] BY <2>1
  <2> QED BY <2>1, <2>7, <2>3, <2>4, <2>5, <2>6, <1>1
<1>5. CASE /\ ~ EnqueuePeer(t)
           /\ pc[t] = "claimed" /\ batch'[t] = batch[t] /\ todo'[t] = todo[t]
  <2>1. Received(t)' = Received(t) BY <1>5, ReceiptsGrow
  <2>2. \A k, l \in 1..Len(batch[t]) : k < l => Later(batch[t][k], batch[t][l])
    <3>1. \A k, l \in 1..Len(batch[t]) : k < l => Older(batch[t][k], batch[t][l])
      BY <1>5 DEF Batched
    <3> QED BY <3>1, SentGrows
  <2>3. \A k \in 1..(todo[t] - 1) : batch[t][k] \in receipts'[t] BY <1>2, <1>5 DEF Batched
  <2>4. \A k \in todo[t]..Len(batch[t]) :
           batch[t][k] \in receipts'[t] \/ \A x \in Received(t) : Later(x, batch[t][k])
    <3>1. \A k \in todo[t]..Len(batch[t]) :
             batch[t][k] \in receipts[t] \/ \A x \in Received(t) : Older(x, batch[t][k])
      BY <1>5 DEF Batched
    <3> QED BY <3>1, <1>2, SentGrows
  <2>5. \A i \in 1..Len(box), k \in 1..Len(batch[t]) :
           box[i].msg \in Range(batch[t]) \/ Later(batch[t][k], box[i].msg)
    <3>1. \A i \in 1..Len(box), k \in 1..Len(batch[t]) :
             box[i].msg \in Range(batch[t]) \/ Older(batch[t][k], box[i].msg)
      BY <1>5 DEF Batched
    <3> QED BY <3>1, SentGrows
  <2>6. \A i \in 1..Len(box'), k \in 1..Len(batch[t]) :
           box'[i].msg \in Range(batch[t]) \/ Later(batch[t][k], box'[i].msg)
    <3> SUFFICES ASSUME NEW i \in 1..Len(box'), NEW k \in 1..Len(batch[t])
                 PROVE  box'[i].msg \in Range(batch[t]) \/ Later(batch[t][k], box'[i].msg)
      OBVIOUS
    <3>1. CASE Thin
      <4>1. PICK j \in 1..Len(box) : box'[i].msg = box[j].msg BY <3>1 DEF Thin
      <4> QED BY <4>1, <2>5
    <3>2. ASSUME NEW m \in Peers, Send(m)
          PROVE  box'[i].msg \in Range(batch[t]) \/ Later(batch[t][k], box'[i].msg)
      <4>1. /\ Len(box') = Len(box) + 1 /\ Len(box) \in Nat
            /\ \A j \in 1..Len(box) : box'[j].msg = box[j].msg
            /\ box'[Len(box) + 1].msg = m
            /\ \A x \in Range(sent) : Later(x, m)
        BY <3>2, SendIs
      <4>2. CASE i \in 1..Len(box) BY <4>1, <4>2, <2>5
      <4>3. CASE i = Len(box) + 1
        <5>1. batch[t][k] \in Range(batch[t]) BY Sizes, InRange
        <5>2. batch[t][k] \in Range(sent) BY <5>1 DEF Known
        <5> QED BY <5>2, <4>1, <4>3
      <4> QED BY <4>2, <4>3, <4>1
    <3> QED BY <3>1, <3>2, BoxSteps
  <2> QED BY <2>1, <2>2, <2>3, <2>4, <2>6, <1>1, <1>5
<1> QED BY <1>3, <1>4, <1>5, HandSteps

LEMMA SettledStep ==
    ASSUME Typing, [Next]_vars, durable, NEW t \in Sessions, Batched(t), Settled(t)
    PROVE  Settled(t)'
<1> SUFFICES ASSUME pc'[t] \in {"mailCommit", "mailCommitted", "acking"}
             PROVE  Range(batch'[t]) \subseteq receipts'[t]
  BY DEF Settled
<1>1. CASE EnqueuePeer(t)
  <2>1. /\ receipts'[t] = receipts[t] \cup {batch[t][todo[t]]} /\ batch' = batch
        /\ pc'[t] = IF todo[t] = Len(batch[t]) THEN "mailCommit" ELSE "claimed"
    BY <1>1, EnqueuePeerIs
  <2>2. /\ pc[t] = "claimed" /\ todo[t] \in 1..Len(batch[t]) /\ Len(batch[t]) \in Nat
        /\ batch[t] \in Seq(Peers)
    BY <1>1, PeerInHand
  <2>3. todo[t] = Len(batch[t]) BY <2>1
  <2>4. ASSUME NEW k \in 1..Len(batch[t]) PROVE batch[t][k] \in receipts'[t]
    <3>1. CASE k \in 1..(todo[t] - 1) BY <3>1, <2>1, <2>2 DEF Batched
    <3>2. CASE k = todo[t] BY <3>2, <2>1
    <3> QED BY <3>1, <3>2, <2>2, <2>3
  <2>5. \A x \in Range(batch[t]) : x \in receipts'[t] BY <2>2, <2>4, InRange
  <2> QED BY <2>1, <2>5
<1>2. CASE pc[t] \in {"mailCommit", "mailCommitted", "acking"} /\ batch'[t] = batch[t]
  <2>1. Range(batch[t]) \subseteq receipts[t] BY <1>2 DEF Settled
  <2> QED BY <2>1, <1>2, ReceiptsGrow
<1> QED BY <1>1, <1>2, HandSteps

LEMMA KnownStep ==
    ASSUME Typing, [Next]_vars, durable, Posted, NEW t \in Sessions, Known(t)
    PROVE  Known(t)'
<1>0. Range(sent) \subseteq Range(sent') BY SentGrows
<1>1. Received(t)' \subseteq Range(sent)
  <2>1. CASE Received(t)' = Received(t) BY <2>1 DEF Known
  <2>2. CASE EnqueuePeer(t)
    <3>1. receipts'[t] = receipts[t] \cup {batch[t][todo[t]]} BY <2>2, EnqueuePeerIs
    <3>2. batch[t][todo[t]] \in Range(batch[t]) BY <2>2, PeerInHand
    <3> QED BY <3>1, <3>2 DEF Known, Received
  <2> QED BY <2>1, <2>2, ReceiptsGrow
<1>2. Range(batch'[t]) \subseteq Range(sent)
  <2>1. CASE batch'[t] = batch[t] BY <2>1 DEF Known
  <2>2. CASE batch'[t] = <<>>
    <3>1. \A x \in Range(<<>>) : FALSE BY DEF Range
    <3> QED BY <3>1, <2>2
  <2>3. CASE Claim(t)
    <3>1. /\ batch'[t] \in Seq(Peers)
          /\ \A k \in 1..Len(batch'[t]) : \E i \in 1..Len(box) : batch'[t][k] = box[i].msg
      BY <2>3, ClaimIs
    <3>2. \A x \in Range(batch'[t]) : x \in Range(sent) BY <3>1, InRange DEF Posted
    <3> QED BY <3>2
  <2> QED BY <2>1, <2>2, <2>3, HandSteps
<1> QED BY <1>0, <1>1, <1>2 DEF Known

(* Rows in the order of the next state.                                     *)
Ahead(x, y) == x # y /\ (x \in Peers /\ y \in Peers => Later(x, y))
Lined(q) ==
    \A i, j \in 1..Len(q) :
        i < j /\ q[i] \in Deliveries /\ q[j] \in Deliveries => Ahead(q[i], q[j])

LEMMA LinedUp ==
    ASSUME Typing, [Next]_vars
    PROVE  /\ \A x, y : Before(x, y) => Ahead(x, y)
           /\ \A q : InLine(q) => Lined(q)
<1>1. \A x, y : Before(x, y) => Ahead(x, y) BY SentGrows DEF Before, Ahead
<1> QED BY <1>1 DEF InLine, Lined

LEMMA LinedJoin ==
    ASSUME NEW q \in Seq(Message), NEW r \in Seq(Message), Lined(q), Lined(r),
           \A x \in Range(q), y \in Range(r) : x \in Deliveries /\ y \in Deliveries => Ahead(x, y)
    PROVE  Lined(q \o r)
<1> DEFINE w == q \o r
<1>1. /\ Len(w) = Len(q) + Len(r) /\ Len(q) \in Nat /\ Len(r) \in Nat
      /\ \A i \in 1..Len(q) : w[i] = q[i]
      /\ \A i \in 1..Len(r) : w[Len(q) + i] = r[i]
  BY RangeJoin
<1> HIDE DEF w
<1>2. ASSUME NEW i \in 1..Len(w), NEW j \in 1..Len(w), i < j, w[i] \in Deliveries, w[j] \in Deliveries
      PROVE  Ahead(w[i], w[j])
  <2>1. CASE j <= Len(q)
    <3>1. i \in 1..Len(q) /\ j \in 1..Len(q) BY <2>1, <1>1, <1>2
    <3>2. w[i] = q[i] /\ w[j] = q[j] BY <3>1, <1>1
    <3> QED BY <3>1, <3>2, <1>2 DEF Lined
  <2>2. CASE i > Len(q)
    <3>1. /\ i - Len(q) \in 1..Len(r) /\ j - Len(q) \in 1..Len(r) /\ i - Len(q) < j - Len(q)
          /\ Len(q) + (i - Len(q)) = i /\ Len(q) + (j - Len(q)) = j
      <4> DEFINE a == Len(q)
                 b == Len(r)
                 n == Len(w)
      <4>1. a \in Nat /\ b \in Nat /\ n = a + b /\ i \in 1..n /\ j \in 1..n /\ i < j /\ i > a
        BY <2>2, <1>1, <1>2
      <4> HIDE DEF a, b, n
      <4>2. /\ i - a \in 1..b /\ j - a \in 1..b /\ i - a < j - a
            /\ a + (i - a) = i /\ a + (j - a) = j
        BY <4>1
      <4> QED BY <4>2 DEF a, b
    <3>2. w[i] = r[i - Len(q)] /\ w[j] = r[j - Len(q)] BY <3>1, <1>1
    <3> QED BY <3>1, <3>2, <1>2 DEF Lined
  <2>3. CASE i <= Len(q) /\ j > Len(q)
    <3>1. i \in 1..Len(q) /\ j - Len(q) \in 1..Len(r) /\ Len(q) + (j - Len(q)) = j
      BY <2>3, <1>1, <1>2
    <3>2. w[i] = q[i] /\ w[j] = r[j - Len(q)] BY <3>1, <1>1
    <3>3. w[i] \in Range(q) /\ w[j] \in Range(r) BY <3>1, <3>2, InRange
    <3> QED BY <3>3, <1>2
  <2> QED BY <2>1, <2>2, <2>3, <1>1
<1>3. Lined(w) BY <1>2 DEF Lined
<1> QED BY <1>3 DEF w

LEMMA LinedOne ==
    ASSUME NEW m
    PROVE  Lined(<<m>>) /\ Range(<<m>>) = {m} /\ Len(<<m>>) = 1
<1>1. Len(<<m>>) = 1 /\ <<m>>[1] = m OBVIOUS
<1>2. Range(<<m>>) = {m} BY <1>1 DEF Range
<1>3. \A i, j \in 1..1 : ~ (i < j) OBVIOUS
<1> QED BY <1>1, <1>2, <1>3 DEF Lined

LEMMA RowsStep ==
    ASSUME Typing, [Next]_vars, durable, NEW t \in Sessions, Rows(t), Batched(t)
    PROVE  Rows(t)'
<1>0. /\ stored[t] \in Seq(Message) /\ inbox[t] \in Seq(Deliveries) /\ inbox[t] \in Seq(Message)
      /\ receipts[t] \in SUBSET Deliveries
  BY Sizes DEF Message
<1>1. /\ Lined(stored[t]) /\ Lined(inbox[t])
      /\ \A x \in Range(stored[t]) \cap Deliveries, y \in Range(inbox[t]) : Ahead(x, y)
      /\ receipts[t] = Range(inbox[t]) \cup (Range(stored[t]) \cap Deliveries)
  BY LinedUp DEF Rows
<1>2. ASSUME /\ Lined(stored'[t]) /\ Lined(inbox'[t])
             /\ \A x \in Range(stored'[t]) \cap Deliveries, y \in Range(inbox'[t]) : Ahead(x, y)
             /\ receipts'[t] = Range(inbox'[t]) \cup (Range(stored'[t]) \cap Deliveries)
      PROVE  Rows(t)'
  BY <1>2 DEF Rows, InLine, Before, Older, Lined, Ahead, Later
<1>3. CASE inbox'[t] = inbox[t] /\ receipts'[t] = receipts[t] /\ stored'[t] = stored[t]
  BY <1>1, <1>2, <1>3
<1>4. CASE StartRun(t)
  <2>1. inbox' = inbox /\ receipts' = receipts /\ stored' = [stored EXCEPT ![t] = @ \o <<runs + 1>>]
    BY <1>4 DEF StartRun, Stored, rows
  <2>2. runs + 1 \in Nat /\ runs + 1 \notin Deliveries
    BY InboxAssumption DEF Typing, TypedRuns, Deliveries
  <2>3. stored'[t] = stored[t] \o <<runs + 1>> BY <2>1 DEF Typing, TypedLog
  <2> DEFINE m == runs + 1
  <2> HIDE DEF m
  <2>4. <<m>> \in Seq(Message) /\ m \notin Deliveries /\ stored'[t] = stored[t] \o <<m>>
    BY <2>2, <2>3 DEF m, Message
  <2>5. Lined(<<m>>) /\ Range(<<m>>) = {m} BY LinedOne
  <2>6. Lined(stored'[t]) BY <2>4, <2>5, <1>0, <1>1, LinedJoin
  <2>7. Range(stored'[t]) = Range(stored[t]) \cup {m}
    <3> DEFINE r == <<m>>
    <3>1. r \in Seq(Message) /\ Range(r) = {m} /\ stored'[t] = stored[t] \o r BY <2>4, <2>5, Zenon
    <3> HIDE DEF r
    <3> QED BY <3>1, <1>0, RangeJoin
  <2>8. Range(stored'[t]) \cap Deliveries = Range(stored[t]) \cap Deliveries BY <2>4, <2>7
  <2> QED BY <2>1, <2>6, <2>8, <1>1, <1>2
<1>5. CASE CommitNotes(t) \/ CommitPeers(t)
  <2>1. /\ stored' = [stored EXCEPT ![t] = @ \o inbox[t]]
        /\ inbox' = [inbox EXCEPT ![t] = <<>>] /\ receipts' = receipts
    BY <1>5 DEF CommitNotes, CommitPeers, Committed
  <2>2. stored'[t] = stored[t] \o inbox[t] /\ inbox'[t] = <<>> BY <2>1 DEF Typing, TypedLog, TypedRows
  <2>3. Lined(stored'[t]) BY <2>2, <1>0, <1>1, LinedJoin
  <2>4. Range(stored'[t]) = Range(stored[t]) \cup Range(inbox[t]) BY <2>2, <1>0, RangeJoin
  <2>5. Range(inbox[t]) \subseteq Deliveries BY <1>0, InRange
  <2>6. Range(inbox'[t]) = {} /\ Lined(inbox'[t]) BY <2>2 DEF Range, Lined
  <2> QED BY <2>1, <2>3, <2>4, <2>5, <2>6, <1>1, <1>2
<1>6. ASSUME NEW m \in Deliveries, stored'[t] = stored[t],
             receipts'[t] = receipts[t] \cup {m},
             inbox'[t] = IF m \in receipts[t] THEN inbox[t] ELSE Append(inbox[t], m),
             m \notin receipts[t] => \A x \in receipts[t] : Ahead(x, m)
      PROVE  Rows(t)'
  <2>1. CASE m \in receipts[t]
    <3>1. inbox'[t] = inbox[t] /\ receipts'[t] = receipts[t] BY <2>1, <1>6
    <3> QED BY <3>1, <1>6, <1>3
  <2>2. CASE m \notin receipts[t]
    <3>1. inbox'[t] = Append(inbox[t], m) BY <2>2, <1>6
    <3>2. inbox'[t] = inbox[t] \o <<m>> /\ <<m>> \in Seq(Message)
      BY <3>1, <1>0 DEF Message
    <3>3. Range(inbox'[t]) = Range(inbox[t]) \cup {m} BY <3>1, <1>0, RangeAppend
    <3>4. Lined(<<m>>) /\ Range(<<m>>) = {m} BY LinedOne
    <3>5. \A x \in receipts[t] : Ahead(x, m) BY <2>2, <1>6
    <3>6. \A x \in Range(inbox[t]), y \in Range(<<m>>) : Ahead(x, y) BY <3>4, <3>5, <1>1
    <3>7. Lined(inbox'[t]) BY <3>2, <3>4, <3>6, <1>0, <1>1, LinedJoin
    <3>8. \A x \in Range(stored[t]) \cap Deliveries, y \in Range(inbox'[t]) : Ahead(x, y)
      BY <3>3, <3>5, <1>1
    <3>9. receipts'[t] = Range(inbox'[t]) \cup (Range(stored[t]) \cap Deliveries)
      BY <3>3, <1>1, <1>6
    <3> QED BY <3>7, <3>8, <3>9, <1>1, <1>2, <1>6
  <2> QED BY <2>1, <2>2
<1>7. CASE EnqueuePeer(t)
  <2> DEFINE m == batch[t][todo[t]]
  <2>1. /\ receipts'[t] = receipts[t] \cup {m}
        /\ inbox'[t] = IF m \in receipts[t] THEN inbox[t] ELSE Append(inbox[t], m)
        /\ stored' = stored
    BY <1>7, EnqueuePeerIs
  <2>2. /\ pc[t] = "claimed" /\ todo[t] \in 1..Len(batch[t]) /\ m \in Deliveries
        /\ todo[t] \in todo[t]..Len(batch[t])
    BY <1>7, PeerInHand
  <2>3. ASSUME m \notin receipts[t], NEW x \in receipts[t] PROVE Ahead(x, m)
    <3>1. x # m BY <2>3
    <3>2. x \in Peers => Older(x, m) BY <2>2, <2>3 DEF Batched, Received
    <3>3. Before(x, m) BY <3>1, <3>2 DEF Before
    <3> QED BY <3>3, LinedUp
  <2> HIDE DEF m
  <2> QED BY <2>1, <2>2, <2>3, <1>6
<1>8. ASSUME NEW n \in Notes, Notify(t, n) PROVE Rows(t)'
  <2>1. Enqueued(t, n) /\ stored' = stored BY <1>8, Zenon DEF Notify, log
  <2>2. n \in Deliveries /\ n \notin Peers BY InboxAssumption DEF Deliveries
  <2>3. /\ receipts' = [receipts EXCEPT ![t] = @ \cup {n}]
        /\ inbox' = [inbox EXCEPT ![t] = IF n \in receipts[t] THEN @ ELSE Append(@, n)]
    BY <2>1, <2>2, EnqueuedIs
  <2>4. /\ receipts'[t] = receipts[t] \cup {n}
        /\ inbox'[t] = IF n \in receipts[t] THEN inbox[t] ELSE Append(inbox[t], n)
    BY <2>3 DEF Typing, TypedRows
  <2>5. n \notin receipts[t] => \A x \in receipts[t] : Ahead(x, n) BY <2>2 DEF Ahead
  <2> QED BY <2>1, <2>2, <2>4, <2>5, <1>6
<1> QED BY <1>3, <1>4, <1>5, <1>7, <1>8, RowSteps

LEMMA DurableStep ==
    ASSUME Typing, [Next]_vars, DurableInv
    PROVE  DurableInv'
<1> SUFFICES ASSUME durable
             PROVE  /\ Posted' /\ BoxInOrder'
                    /\ \A s \in Sessions :
                          /\ Rows(s)' /\ Caught(s)' /\ Batched(s)' /\ Settled(s)' /\ Known(s)'
                          /\ queue'[s] = <<>>
  BY DurableSame DEF DurableInv
<1>1. /\ Posted /\ BoxInOrder
      /\ \A s \in Sessions :
            Rows(s) /\ Caught(s) /\ Batched(s) /\ Settled(s) /\ Known(s) /\ queue[s] = <<>>
  BY DEF DurableInv
<1>2. Posted' /\ BoxInOrder' BY <1>1, PostedStep
<1>3. ASSUME NEW s \in Sessions
      PROVE  /\ Rows(s)' /\ Caught(s)' /\ Batched(s)' /\ Settled(s)' /\ Known(s)'
             /\ queue'[s] = <<>>
  <2>1. Rows(s)' BY <1>1, RowsStep
  <2>2. Caught(s)' BY <1>1, CaughtStep
  <2>3. Batched(s)' BY <1>1, BatchedStep
  <2>4. Settled(s)' BY <1>1, SettledStep
  <2>5. Known(s)' BY <1>1, KnownStep
  <2>6. queue'[s] = <<>> BY <1>1, RowSteps
  <2> QED BY <2>1, <2>2, <2>3, <2>4, <2>5, <2>6
<1> QED BY <1>2, <1>3

-----------------------------------------------------------------------------
(* Without the durable inbox.                                               *)

LEMMA OnceJoin ==
    ASSUME NEW q \in Seq(Message), NEW r \in Seq(Message), Once(q), Once(r),
           \A x \in Deliveries : ~ (x \in Range(q) /\ x \in Range(r))
    PROVE  Once(q \o r)
<1> DEFINE w == q \o r
<1>1. /\ Len(w) = Len(q) + Len(r) /\ Len(q) \in Nat /\ Len(r) \in Nat
      /\ \A i \in 1..Len(q) : w[i] = q[i]
      /\ \A i \in 1..Len(r) : w[Len(q) + i] = r[i]
  BY RangeJoin
<1> HIDE DEF w
<1>2. ASSUME NEW i \in 1..Len(w)
      PROVE  \/ i \in 1..Len(q) /\ w[i] = q[i] /\ w[i] \in Range(q)
             \/ /\ i - Len(q) \in 1..Len(r) /\ w[i] = r[i - Len(q)] /\ w[i] \in Range(r)
  <2>1. CASE i <= Len(q)
    <3>1. i \in 1..Len(q) /\ w[i] = q[i] BY <2>1, <1>1
    <3> QED BY <3>1, InRange
  <2>2. CASE i > Len(q)
    <3>1. i - Len(q) \in 1..Len(r) /\ Len(q) + (i - Len(q)) = i BY <2>2, <1>1
    <3>2. w[i] = r[i - Len(q)] BY <3>1, <1>1
    <3> QED BY <3>1, <3>2, InRange
  <2> QED BY <2>1, <2>2, <1>1
<1>3. ASSUME NEW i \in 1..Len(w), NEW j \in 1..Len(w), w[i] \in Deliveries, w[i] = w[j]
      PROVE  i = j
  <2>1. CASE i \in 1..Len(q) /\ w[i] = q[i] /\ j \in 1..Len(q) /\ w[j] = q[j]
    BY <2>1, <1>3 DEF Once
  <2>2. CASE /\ i - Len(q) \in 1..Len(r) /\ w[i] = r[i - Len(q)]
             /\ j - Len(q) \in 1..Len(r) /\ w[j] = r[j - Len(q)]
    <3>1. i - Len(q) = j - Len(q) BY <2>2, <1>3 DEF Once
    <3> QED BY <3>1, <1>1
  <2>3. ~ (w[i] \in Range(q) /\ w[j] \in Range(r)) /\ ~ (w[i] \in Range(r) /\ w[j] \in Range(q))
    BY <1>3
  <2> QED BY <2>1, <2>2, <2>3, <1>2
<1>4. Once(w) BY <1>3 DEF Once
<1> QED BY <1>4 DEF w

(* Messages move between the mailbox and one session.                       *)
LEMMA MemoryMoves ==
    ASSUME Typing, MemoryInv, ~ durable, durable' = durable, NEW s \in Sessions,
           \A t \in Sessions : t # s => Same(t),
           sent' = sent,
           \A i, j \in 1..Len(box') : box'[i].msg = box'[j].msg => i = j,
           InMail' \cup Inside(s)' = InMail \cup Inside(s), InMail' \cap Inside(s)' = {},
           Noted(s)', Once(stored'[s]), Hand(s)' # {} => Distinct(batch'[s]),
           Hand(s)' \cap Range(stored'[s]) = {}
    PROVE  MemoryInv'
<1>1. /\ Range(sent) = InMail \cup UNION {Inside(t) : t \in Sessions}
      /\ \A t \in Sessions :
            /\ Noted(t) /\ Once(stored[t])
            /\ Hand(t) # {} => Distinct(batch[t])
            /\ Hand(t) \cap Range(stored[t]) = {}
            /\ InMail \cap Inside(t) = {}
      /\ \A t, u \in Sessions : t # u => Inside(t) \cap Inside(u) = {}
  BY DEF MemoryInv
<1>2. ASSUME NEW t \in Sessions, t # s
      PROVE  /\ Inside(t)' = Inside(t) /\ Hand(t)' = Hand(t) /\ Noted(t)'
             /\ batch'[t] = batch[t] /\ stored'[t] = stored[t]
  <2>1. Same(t) BY <1>2
  <2>2. batch'[t] = batch[t] /\ stored'[t] = stored[t] /\ pc'[t] = pc[t] /\ queue'[t] = queue[t]
        /\ receipts'[t] = receipts[t]
    BY <2>1 DEF Same
  <2>3. Hand(t)' = Hand(t) BY <2>2 DEF Hand
  <2>4. Inside(t)' = Inside(t) BY <2>2, <2>3 DEF Inside
  <2>5. Noted(t)' BY <2>2, <1>1 DEF Noted
  <2> QED BY <2>2, <2>3, <2>4, <2>5
<1>3. Range(sent') = InMail' \cup UNION {Inside(t)' : t \in Sessions}
  <2>1. ASSUME NEW x \in Range(sent) PROVE x \in InMail' \cup UNION {Inside(t)' : t \in Sessions}
    <3>1. CASE x \in InMail \cup Inside(s) BY <3>1
    <3>2. CASE \E t \in Sessions : t # s /\ x \in Inside(t)
      <4>1. PICK t \in Sessions : t # s /\ x \in Inside(t) BY <3>2
      <4>2. x \in Inside(t)' BY <4>1, <1>2
      <4> QED BY <4>1, <4>2
    <3> QED BY <3>1, <3>2, <1>1
  <2>2. \A x \in InMail' \cup Inside(s)' : x \in Range(sent) BY <1>1
  <2>3. ASSUME NEW t \in Sessions, NEW x \in Inside(t)' PROVE x \in Range(sent)
    <3>1. CASE t = s BY <3>1, <2>2, <2>3
    <3>2. CASE t # s
      <4>1. x \in Inside(t) BY <3>2, <2>3, <1>2
      <4> QED BY <4>1, <1>1
    <3> QED BY <3>1, <3>2
  <2> QED BY <2>1, <2>2, <2>3
<1>4. ASSUME NEW t \in Sessions, t # s
      PROVE  (InMail' \cup Inside(s)') \cap Inside(t)' = {}
  <2>1. (InMail \cup Inside(s)) \cap Inside(t) = {} BY <1>1, <1>4
  <2> QED BY <2>1, <1>2, <1>4
<1>5. ASSUME NEW t \in Sessions
      PROVE  /\ Noted(t)' /\ Once(stored'[t])
             /\ Hand(t)' # {} => Distinct(batch'[t])
             /\ Hand(t)' \cap Range(stored'[t]) = {}
             /\ InMail' \cap Inside(t)' = {}
  <2>1. CASE t = s BY <2>1
  <2>2. CASE t # s
    <3>1. InMail' \cap Inside(t)' = {} BY <2>2, <1>4
    <3>2. /\ Hand(t)' = Hand(t) /\ Noted(t)' /\ batch'[t] = batch[t] /\ stored'[t] = stored[t]
      BY <2>2, <1>2
    <3> QED BY <3>1, <3>2, <1>1
  <2> QED BY <2>1, <2>2
<1>6. ASSUME NEW t \in Sessions, NEW u \in Sessions, t # u PROVE Inside(t)' \cap Inside(u)' = {}
  <2>1. CASE t = s BY <2>1, <1>4, <1>6
  <2>2. CASE u = s BY <2>2, <1>4, <1>6
  <2>3. CASE t # s /\ u # s
    <3>1. Inside(t)' = Inside(t) /\ Inside(u)' = Inside(u) BY <2>3, <1>2
    <3> QED BY <3>1, <1>1, <1>6
  <2> QED BY <2>1, <2>2, <2>3
<1> QED BY <1>3, <1>5, <1>6 DEF MemoryInv

(* Steps that move nothing.                                                 *)
LEMMA MemoryCalm ==
    ASSUME Typing, MemoryInv, ~ durable, durable' = durable, NEW s \in Sessions, Acts(s),
           UNCHANGED <<box, sent, receipts, queue, stored>>,
           Hand(s)' = Hand(s), batch'[s] = batch[s] \/ Hand(s) = {},
           (pc[s] # "noted" /\ pc'[s] # "noted") \/ pc'[s] = pc[s]
    PROVE  MemoryInv'
<1>1. \A t \in Sessions : t # s => Same(t) BY Others
<1>2. InMail' = InMail BY DEF InMail
<1>3. Inside(s)' = Inside(s) BY DEF Inside
<1>4. /\ Noted(s) /\ Once(stored[s])
      /\ Hand(s) # {} => Distinct(batch[s])
      /\ Hand(s) \cap Range(stored[s]) = {} /\ InMail \cap Inside(s) = {}
      /\ \A i, j \in 1..Len(box) : box[i].msg = box[j].msg => i = j
  BY DEF MemoryInv
<1>5. Noted(s)' BY <1>4 DEF Noted
<1>6. Hand(s)' # {} => Distinct(batch'[s]) BY <1>4
<1>7. /\ \A i, j \in 1..Len(box') : box'[i].msg = box'[j].msg => i = j
      /\ Once(stored'[s]) /\ Hand(s)' \cap Range(stored'[s]) = {}
  BY <1>4
<1> QED BY <1>1, <1>2, <1>3, <1>4, <1>5, <1>6, <1>7, MemoryMoves

LEMMA MemoryFacts ==
    ASSUME Typing, MemoryInv, ~ durable, NEW s \in Sessions
    PROVE  /\ Noted(s) /\ Once(stored[s])
           /\ Hand(s) # {} => Distinct(batch[s])
           /\ Hand(s) \cap Range(stored[s]) = {} /\ InMail \cap Inside(s) = {}
           /\ \A i, j \in 1..Len(box) : box[i].msg = box[j].msg => i = j
           /\ Range(stored[s]) \subseteq Message /\ InMail \subseteq Peers
           /\ Range(batch[s]) \subseteq Peers /\ Range(queue[s]) \subseteq Notes
           /\ \A i \in 1..Len(queue[s]) : queue[s][i] \in Notes
           /\ Peers \cap Notes = {} /\ (Peers \cup Notes) \cap Nat = {}
<1>1. Range(stored[s]) \subseteq Message /\ Range(batch[s]) \subseteq Peers /\ Range(queue[s]) \subseteq Notes
  BY Sizes, InRange
<1>2. \A i \in 1..Len(box) : box[i] \in Entry BY DEF Typing, TypedBox
<1>3. InMail \subseteq Peers BY <1>2 DEF InMail, Entry
<1>4. \A i \in 1..Len(queue[s]) : queue[s][i] \in Notes BY Sizes
<1> QED BY <1>1, <1>3, <1>4, InboxAssumption DEF MemoryInv

(* What an append adds to the history of a session whose hand it leaves     *)
(* empty, with the mailbox as it was.                                       *)
LEMMA MemoryStores ==
    ASSUME Typing, MemoryInv, ~ durable, durable' = durable, NEW s \in Sessions, Acts(s),
           NEW r \in Seq(Message), UNCHANGED <<box, sent, receipts, queue, batch>>,
           stored'[s] = stored[s] \o r, Once(r),
           \A x \in Deliveries : ~ (x \in Range(stored[s]) /\ x \in Range(r)),
           Hand(s)' = {}, Hand(s) = Range(r) \cap Peers,
           Range(r) \cap Notes \subseteq Range(queue[s]),
           \A i \in 1..Len(queue[s]) : queue[s][i] \in Range(r) <=> (pc'[s] = "noted" /\ i = 1),
           pc[s] # "noted"
    PROVE  MemoryInv'
<1>1. \A t \in Sessions : t # s => Same(t) BY Others
<1>2. InMail' = InMail BY DEF InMail
<1>3. Range(stored'[s]) = Range(stored[s]) \cup Range(r) BY Sizes, RangeJoin
<1>4. Inside(s)' = Inside(s) BY <1>3 DEF Inside
<1>5. Once(stored'[s]) BY MemoryFacts, Sizes, OnceJoin
<1>6. Noted(s)'
  <2>1. receipts'[s] = Range(queue'[s]) \cup (Range(stored'[s]) \cap Notes)
    <3>1. receipts[s] = Range(queue[s]) \cup (Range(stored[s]) \cap Notes)
      BY MemoryFacts DEF Noted
    <3> QED BY <3>1, <1>3
  <2>2. Distinct(queue'[s]) BY MemoryFacts DEF Noted
  <2>3. \A i \in 1..Len(queue[s]) : queue[s][i] \in Range(stored'[s]) <=> (pc'[s] = "noted" /\ i = 1)
    <3>1. \A i \in 1..Len(queue[s]) : queue[s][i] \notin Range(stored[s]) BY MemoryFacts DEF Noted
    <3> QED BY <3>1, <1>3
  <2> QED BY <2>1, <2>2, <2>3 DEF Noted
<1>7. /\ InMail' \cap Inside(s)' = {} /\ InMail' \cup Inside(s)' = InMail \cup Inside(s)
      /\ \A i, j \in 1..Len(box') : box'[i].msg = box'[j].msg => i = j
  BY <1>2, <1>4, MemoryFacts
<1>8. Hand(s)' \cap Range(stored'[s]) = {} OBVIOUS
<1> QED BY <1>1, <1>5, <1>6, <1>7, <1>8, MemoryMoves

LEMMA OneOnly ==
    ASSUME NEW m \in Message
    PROVE  <<m>> \in Seq(Message) /\ Once(<<m>>) /\ Range(<<m>>) = {m}
<1>1. Len(<<m>>) = 1 /\ <<m>> \in Seq(Message) OBVIOUS
<1>2. \A i, j \in 1..1 : i = j OBVIOUS
<1> QED BY <1>1, <1>2, LinedOne DEF Once

LEMMA MemoryStart ==
    ASSUME Typing, MemoryInv, ~ durable, durable' = durable, NEW s \in Sessions, StartRun(s)
    PROVE  MemoryInv'
<1> DEFINE m == runs + 1
<1>1. m \in Message /\ m \notin Deliveries
  BY InboxAssumption DEF Typing, TypedRuns, Message, Deliveries
<1>2. /\ pc[s] = "idle" /\ pc'[s] = "prompted" /\ stored' = [stored EXCEPT ![s] = @ \o <<m>>]
      /\ UNCHANGED <<box, sent, receipts, queue, batch>>
  BY Goes DEF StartRun, Stored, mail, rows
<1>3. Acts(s) BY DEF Acts, Stores
<1> HIDE DEF m
<1>4. stored'[s] = stored[s] \o <<m>> BY <1>2 DEF Typing, TypedLog
<1> DEFINE r == <<m>>
<1>5. r \in Seq(Message) /\ Once(r) /\ Range(r) = {m} BY <1>1, OneOnly
<1>6. stored'[s] = stored[s] \o r BY <1>4
<1> HIDE DEF r
<1>7. Hand(s) = {} /\ Hand(s)' = {} BY <1>2 DEF Hand
<1>8. m \notin Peers /\ m \notin Notes BY <1>1 DEF Deliveries
<1>9. \A i \in 1..Len(queue[s]) : queue[s][i] # m BY <1>8, MemoryFacts
<1> QED BY <1>1, <1>2, <1>3, <1>5, <1>6, <1>7, <1>8, <1>9, MemoryStores

LEMMA MemoryNote ==
    ASSUME Typing, MemoryInv, ~ durable, durable' = durable, NEW s \in Sessions, AppendNote(s)
    PROVE  MemoryInv'
<1> DEFINE m == Head(queue[s])
           r == <<m>>
<1>1. /\ pc[s] = "drain" /\ pc'[s] = "noted" /\ stored' = [stored EXCEPT ![s] = @ \o r]
      /\ UNCHANGED <<box, sent, receipts, queue, batch>>
  BY Goes DEF AppendNote, Stored, mail, rows
<1>2. Acts(s) BY DEF Acts, Stores
<1>3. todo[s] \in 1..Len(queue[s]) /\ queue[s] \in Seq(Notes)
  BY <1>1, Sizes DEF Typing, Fits, Fitting
<1>4. 1 \in 1..Len(queue[s]) /\ queue[s] # <<>> BY <1>3
<1>5. m = queue[s][1] /\ m \in Notes BY <1>3, <1>4, RangeTail
<1>6. m \in Message /\ m \in Range(queue[s]) BY <1>3, <1>4, <1>5, InRange DEF Message, Deliveries
<1>7. stored'[s] = stored[s] \o r BY <1>1 DEF Typing, TypedLog
<1> HIDE DEF m
<1>8. r \in Seq(Message) /\ Once(r) /\ Range(r) = {m} BY <1>6, OneOnly
<1> HIDE DEF r
<1>9. Hand(s) = {} /\ Hand(s)' = {} BY <1>1 DEF Hand
<1>10. m \notin Range(stored[s]) BY <1>1, <1>4, <1>5, MemoryFacts DEF Noted
<1>11. m \notin Peers BY <1>5, InboxAssumption
<1>12. \A i \in 1..Len(queue[s]) : queue[s][i] = m <=> i = 1 BY <1>4, <1>5, MemoryFacts DEF Noted, Distinct
<1>13. /\ \A x \in Deliveries : ~ (x \in Range(stored[s]) /\ x \in Range(r))
       /\ Hand(s) = Range(r) \cap Peers
       /\ Range(r) \cap Notes \subseteq Range(queue[s])
       /\ \A i \in 1..Len(queue[s]) : queue[s][i] \in Range(r) <=> (pc'[s] = "noted" /\ i = 1)
       /\ pc[s] # "noted"
  BY <1>1, <1>6, <1>8, <1>9, <1>10, <1>11, <1>12
<1> QED BY <1>1, <1>2, <1>7, <1>8, <1>9, <1>13, MemoryStores

LEMMA MemoryBatch ==
    ASSUME Typing, MemoryInv, ~ durable, durable' = durable, NEW s \in Sessions, AppendBatch(s)
    PROVE  MemoryInv'
<1>1. /\ pc[s] = "drained" /\ pc'[s] = "batchStored" /\ stored' = [stored EXCEPT ![s] = @ \o batch[s]]
      /\ UNCHANGED <<box, sent, receipts, queue, batch>>
  BY Goes DEF AppendBatch, Stored, mail, rows
<1>2. Acts(s) BY DEF Acts, Stores
<1>3. batch[s] \in Seq(Peers) /\ batch[s] \in Seq(Message) BY Sizes DEF Message, Deliveries
<1>4. stored'[s] = stored[s] \o batch[s] BY <1>1 DEF Typing, TypedLog
<1>5. Hand(s) = Range(batch[s]) /\ Hand(s)' = {} BY <1>1 DEF Hand
<1>6. batch[s] # <<>> BY <1>1 DEF Typing, Fits, Fitting
<1>7. Head(batch[s]) \in Range(batch[s]) BY <1>3, <1>6, RangeTail
<1>8. Distinct(batch[s]) BY <1>5, <1>7, MemoryFacts
<1>9. Once(batch[s]) BY <1>8 DEF Once, Distinct
<1>10. /\ \A x \in Deliveries : ~ (x \in Range(stored[s]) /\ x \in Range(batch[s]))
       /\ Hand(s) = Range(batch[s]) \cap Peers
       /\ Range(batch[s]) \cap Notes \subseteq Range(queue[s])
       /\ \A i \in 1..Len(queue[s]) : queue[s][i] \in Range(batch[s]) <=> (pc'[s] = "noted" /\ i = 1)
       /\ pc[s] # "noted"
  <2>1. \A x \in Deliveries : ~ (x \in Range(stored[s]) /\ x \in Range(batch[s]))
    BY <1>5, MemoryFacts
  <2>2. Hand(s) = Range(batch[s]) \cap Peers /\ Range(batch[s]) \cap Notes = {}
    BY <1>5, MemoryFacts
  <2>3. \A i \in 1..Len(queue[s]) : queue[s][i] \notin Range(batch[s]) BY <2>2, MemoryFacts
  <2> QED BY <2>1, <2>2, <2>3, <1>1
<1> QED BY <1>1, <1>2, <1>3, <1>4, <1>5, <1>9, <1>10, MemoryStores

LEMMA MemoryPopped ==
    ASSUME Typing, MemoryInv, ~ durable, durable' = durable, NEW s \in Sessions, NoteAppended(s)
    PROVE  MemoryInv'
<1> DEFINE q == queue[s]
<1>1. /\ pc[s] = "noted" /\ queue' = [queue EXCEPT ![s] = Tail(q)]
      /\ pc'[s] \in {"idle", "drain", "mail"}
      /\ UNCHANGED <<box, sent, receipts, stored, batch>>
  BY Goes DEF NoteAppended, Popped, Publish, mail
<1>2. \A t \in Sessions : t # s => Same(t) BY Others DEF Acts, Publishes
<1>3. todo[s] \in 1..Len(q) /\ q \in Seq(Notes) BY <1>1, Sizes DEF Typing, Fits, Fitting
<1>4. 1 \in 1..Len(q) /\ q # <<>> BY <1>3
<1>5. queue'[s] = Tail(q) BY <1>1 DEF Typing, TypedRows
<1>6. /\ receipts[s] = Range(q) \cup (Range(stored[s]) \cap Notes) /\ Distinct(q)
      /\ \A i \in 1..Len(q) : q[i] \in Range(stored[s]) <=> i = 1
      /\ \A i \in 1..Len(q) : q[i] \in Notes
  BY <1>1, MemoryFacts DEF Noted
<1> HIDE DEF q
<1>7. /\ Len(Tail(q)) = Len(q) - 1 /\ Head(q) = q[1] /\ Len(q) \in Nat
      /\ \A i \in 1..(Len(q) - 1) : Tail(q)[i] = q[i + 1]
      /\ Range(q) = {Head(q)} \cup Range(Tail(q))
  BY <1>3, <1>4, RangeTail
<1>8. Noted(s)'
  <2>1. q[1] \in Range(stored[s]) \cap Notes BY <1>4, <1>6
  <2>2. receipts[s] = Range(Tail(q)) \cup (Range(stored[s]) \cap Notes) BY <2>1, <1>6, <1>7
  <2>3. ASSUME NEW i \in 1..Len(Tail(q)) PROVE Tail(q)[i] \notin Range(stored[s])
    <3>1. i \in 1..(Len(q) - 1) /\ i + 1 \in 1..Len(q) /\ i + 1 # 1 BY <1>7
    <3> QED BY <3>1, <1>6, <1>7
  <2>4. Distinct(Tail(q))
    <3> SUFFICES ASSUME NEW i \in 1..Len(Tail(q)), NEW j \in 1..Len(Tail(q)), Tail(q)[i] = Tail(q)[j]
                 PROVE  i = j
      BY DEF Distinct
    <3>1. i \in 1..(Len(q) - 1) /\ j \in 1..(Len(q) - 1) /\ i + 1 \in 1..Len(q) /\ j + 1 \in 1..Len(q)
      BY <1>7
    <3>2. q[i + 1] = q[j + 1] BY <3>1, <1>7
    <3>3. i + 1 = j + 1 BY <3>1, <3>2, <1>6 DEF Distinct
    <3> QED BY <3>1, <3>3
  <2>5. pc'[s] # "noted" /\ receipts'[s] = receipts[s] /\ stored'[s] = stored[s] BY <1>1
  <2>6. \A i \in 1..Len(queue'[s]) :
           queue'[s][i] \in Range(stored'[s]) <=> (pc'[s] = "noted" /\ i = 1)
    BY <1>5, <2>3, <2>5
  <2>7. Distinct(queue'[s]) /\ receipts'[s] = Range(queue'[s]) \cup (Range(stored'[s]) \cap Notes)
    BY <1>5, <2>2, <2>4, <2>5
  <2> QED BY <2>6, <2>7 DEF Noted
<1>9. InMail' = InMail /\ Hand(s)' = {} /\ Hand(s) = {} BY <1>1 DEF InMail, Hand
<1>10. Inside(s)' = Inside(s) BY <1>1, <1>9 DEF Inside
<1>11. /\ Once(stored'[s]) /\ InMail' \cap Inside(s)' = {}
       /\ \A i, j \in 1..Len(box') : box'[i].msg = box'[j].msg => i = j
  BY <1>1, <1>9, <1>10, MemoryFacts
<1> QED BY <1>1, <1>2, <1>8, <1>9, <1>10, <1>11, MemoryMoves

LEMMA MemoryNotify ==
    ASSUME Typing, MemoryInv, ~ durable, durable' = durable,
           NEW s \in Sessions, NEW n \in Notes, Notify(s, n)
    PROVE  MemoryInv'
<1>1. /\ n \notin Accepted
      /\ queue' = [queue EXCEPT ![s] = Append(@, n)]
      /\ receipts' = [receipts EXCEPT ![s] = @ \cup {n}]
      /\ UNCHANGED <<inbox, mail, log, snap, pc, todo, raising, missed>>
  BY Zenon DEF Notify, MaySend
<1>2. \A t \in Sessions : t # s => Same(t) BY <1>1 DEF Same, Typing, TypedRows, log, mail
<1>3. queue'[s] = Append(queue[s], n) /\ receipts'[s] = receipts[s] \cup {n}
  BY <1>1 DEF Typing, TypedRows
<1>4. n \notin receipts[s] BY <1>1 DEF Accepted
<1>5. UNCHANGED <<box, sent, batch, stored, pc>> BY <1>1 DEF mail, log
<1>6. /\ receipts[s] = Range(queue[s]) \cup (Range(stored[s]) \cap Notes) /\ Distinct(queue[s])
      /\ \A i \in 1..Len(queue[s]) : queue[s][i] \in Range(stored[s]) <=> (pc[s] = "noted" /\ i = 1)
  BY MemoryFacts DEF Noted
<1>7. n \notin Range(queue[s]) /\ n \notin Range(stored[s]) BY <1>4, <1>6
<1>8. /\ queue[s] \in Seq(Notes) /\ Len(queue[s]) \in Nat
      /\ pc[s] = "noted" => todo[s] \in 1..Len(queue[s])
  BY Sizes DEF Typing, Fits, Fitting
<1> DEFINE q == queue[s]
           w == queue'[s]
<1>9. /\ Len(w) = Len(q) + 1 /\ Len(q) \in Nat
      /\ \A i \in 1..Len(q) : w[i] = q[i]
      /\ w[Len(q) + 1] = n
      /\ Range(w) = Range(q) \cup {n}
  BY <1>3, <1>8, RangeAppend
<1>10. \A i \in 1..Len(q) : q[i] # n BY <1>7, <1>8, InRange
<1>11. pc[s] = "noted" => Len(q) + 1 # 1 BY <1>8
<1> HIDE DEF q, w
<1>12. Noted(s)'
  <2>0. \A i \in 1..Len(w) : i \in 1..Len(q) \/ i = Len(q) + 1 BY <1>9
  <2>1. Distinct(w)
    <3> SUFFICES ASSUME NEW i \in 1..Len(w), NEW j \in 1..Len(w), w[i] = w[j] PROVE i = j BY DEF Distinct
    <3>1. CASE i \in 1..Len(q) /\ j \in 1..Len(q) BY <3>1, <1>6, <1>9 DEF Distinct, q
    <3>2. CASE i \in 1..Len(q) /\ j = Len(q) + 1 BY <3>2, <1>9, <1>10
    <3>3. CASE i = Len(q) + 1 /\ j \in 1..Len(q) BY <3>3, <1>9, <1>10
    <3>4. CASE i = Len(q) + 1 /\ j = Len(q) + 1 BY <3>4
    <3> QED BY <3>1, <3>2, <3>3, <3>4, <2>0
  <2>2. ASSUME NEW i \in 1..Len(w)
        PROVE  w[i] \in Range(stored[s]) <=> (pc[s] = "noted" /\ i = 1)
    <3>1. CASE i \in 1..Len(q) BY <3>1, <1>6, <1>9 DEF q
    <3>2. CASE i = Len(q) + 1 BY <3>2, <1>7, <1>9, <1>11
    <3> QED BY <3>1, <3>2, <2>0
  <2>3. receipts'[s] = Range(w) \cup (Range(stored[s]) \cap Notes) BY <1>3, <1>6, <1>9 DEF q
  <2> QED BY <2>1, <2>2, <2>3, <1>5 DEF Noted, w
<1>13. InMail' = InMail /\ Hand(s)' = Hand(s) /\ Inside(s)' = Inside(s)
  BY <1>5 DEF InMail, Hand, Inside
<1>14. /\ Once(stored'[s]) /\ InMail' \cap Inside(s)' = {}
       /\ \A i, j \in 1..Len(box') : box'[i].msg = box'[j].msg => i = j
       /\ Hand(s)' # {} => Distinct(batch'[s])
       /\ Hand(s)' \cap Range(stored'[s]) = {}
  BY <1>5, <1>13, MemoryFacts
<1>15. sent' = sent BY <1>5
<1> QED BY <1>2, <1>12, <1>13, <1>14, <1>15, MemoryMoves

LEMMA MemoryDrain ==
    ASSUME Typing, MemoryInv, ~ durable, durable' = durable, NEW s \in Sessions, DrainMail(s)
    PROVE  MemoryInv'
<1>1. /\ pc[s] = "mail" /\ box' = <<>> /\ batch'[s] \in Seq(Peers) /\ Len(batch'[s]) = Len(box)
      /\ \A i \in 1..Len(box) : batch'[s][i] = box[i].msg
  BY DrainIs
<1>2. pc'[s] = "drained" /\ UNCHANGED <<sent, receipts, queue, stored>>
  <2>1. Go(s, "drained") /\ UNCHANGED <<sent, rows, log>> BY Zenon DEF DrainMail
  <2> QED BY <2>1, Goes DEF rows, log
<1>3. \A t \in Sessions : t # s => Same(t) BY Others DEF Acts, OnBox
<1>4. Range(batch'[s]) = InMail
  <2>1. Range(batch'[s]) = {batch'[s][i] : i \in 1..Len(batch'[s])} BY <1>1, InRange
  <2> QED BY <2>1, <1>1 DEF InMail
<1>5. Hand(s) = {} /\ Hand(s)' = InMail /\ InMail' = {}
  <2>1. InMail' = {} BY <1>1 DEF InMail
  <2> QED BY <2>1, <1>1, <1>2, <1>4 DEF Hand
<1>6. Inside(s)' = InMail \cup Inside(s) BY <1>2, <1>5 DEF Inside
<1>7. Noted(s)' BY <1>1, <1>2, MemoryFacts DEF Noted
<1>8. Distinct(batch'[s]) BY <1>1, MemoryFacts DEF Distinct
<1>9. Hand(s)' \cap Range(stored'[s]) = {} BY <1>2, <1>5, MemoryFacts DEF Inside
<1>10. Once(stored'[s]) /\ \A i, j \in 1..Len(box') : box'[i].msg = box'[j].msg => i = j
  BY <1>1, <1>2, MemoryFacts
<1>11. InMail' \cup Inside(s)' = InMail \cup Inside(s) /\ InMail' \cap Inside(s)' = {} BY <1>5, <1>6
<1> QED BY <1>2, <1>3, <1>7, <1>8, <1>9, <1>10, <1>11, MemoryMoves

LEMMA MemoryReturned ==
    ASSUME Typing, MemoryInv, ~ durable, durable' = durable, NEW s \in Sessions, Redeliver(s)
    PROVE  MemoryInv'
<1> DEFINE b == batch[s]
           e == [msg |-> Head(b), tok |-> NoToken, live |-> FALSE]
<1>1. /\ pc[s] = "redeliver" /\ b \in Seq(Peers) /\ b # <<>>
      /\ batch' = [batch EXCEPT ![s] = Tail(@)]
  BY HandedBack
<1>2. /\ box' = Append(box, e) /\ pc'[s] = IF Len(b) = 1 THEN "idle" ELSE "redeliver"
      /\ UNCHANGED <<sent, receipts, queue, stored>>
  BY Goes DEF Redeliver, rows, log
<1>3. \A t \in Sessions : t # s => Same(t) BY Others DEF Acts, OnBox
<1>4. batch'[s] = Tail(b) BY <1>1 DEF Typing, TypedClaims
<1> HIDE DEF b
<1>5. /\ Tail(b) \in Seq(Peers) /\ Len(Tail(b)) = Len(b) - 1 /\ Len(b) >= 1 /\ Len(b) \in Nat
      /\ Head(b) = b[1] /\ Head(b) \in Peers
      /\ \A i \in 1..(Len(b) - 1) : Tail(b)[i] = b[i + 1]
      /\ Range(b) = {Head(b)} \cup Range(Tail(b))
  BY <1>1, RangeTail
<1>6. e \in Entry /\ e.msg = Head(b) BY <1>5 DEF Entry
<1> HIDE DEF e
<1>7. /\ Len(box') = Len(box) + 1 /\ Len(box) \in Nat
      /\ \A i \in 1..Len(box) : box'[i] = box[i]
      /\ box'[Len(box) + 1] = e
  <2>1. box \in Seq(Entry) BY DEF Typing, TypedBox
  <2> QED BY <2>1, <1>2, <1>6, RangeAppend
<1>8. /\ \A i \in 1..Len(box') : i \in 1..Len(box) \/ i = Len(box) + 1
      /\ \A i \in 1..Len(box) : i \in 1..Len(box')
      /\ Len(box) + 1 \in 1..Len(box')
  BY <1>7
<1>9. \A i \in 1..Len(box) : box'[i].msg = box[i].msg BY <1>7
<1>10. box'[Len(box) + 1].msg = Head(b) BY <1>6, <1>7
<1>11. InMail' = InMail \cup {Head(b)} BY <1>8, <1>9, <1>10 DEF InMail
<1>12. Hand(s) = Range(b) BY <1>1 DEF Hand, b
<1>13. Hand(s)' = Range(Tail(b))
  <2>1. CASE Len(b) = 1
    <3>1. pc'[s] = "idle" BY <2>1, <1>2
    <3>2. Len(Tail(b)) = 0 BY <2>1, <1>5
    <3>3. Range(Tail(b)) = {}
      <4>1. Range(Tail(b)) = {Tail(b)[i] : i \in 1..Len(Tail(b))} BY <1>5, InRange
      <4>2. \A i \in 1..Len(Tail(b)) : FALSE BY <3>2
      <4> QED BY <4>1, <4>2
    <3> QED BY <3>1, <3>3 DEF Hand
  <2>2. CASE Len(b) # 1
    <3>1. pc'[s] = "redeliver" BY <2>2, <1>2
    <3> QED BY <3>1, <1>4 DEF Hand
  <2> QED BY <2>1, <2>2
<1>14. Head(b) \in Hand(s) /\ Distinct(b)
  <2>1. Head(b) \in Hand(s) BY <1>5, <1>12
  <2> QED BY <2>1, MemoryFacts DEF b
<1>15. Head(b) \notin Range(Tail(b)) /\ Distinct(Tail(b))
  <2>1. \A i \in 1..(Len(b) - 1) : i + 1 \in 1..Len(b) /\ i + 1 # 1 /\ 1 \in 1..Len(b) BY <1>5
  <2>2. \A i \in 1..Len(Tail(b)) : Tail(b)[i] # b[1] BY <2>1, <1>5, <1>14 DEF Distinct
  <2>3. Head(b) \notin Range(Tail(b))
    <3>1. Range(Tail(b)) = {Tail(b)[i] : i \in 1..Len(Tail(b))} BY <1>5, InRange
    <3> QED BY <3>1, <2>2, <1>5
  <2>4. Distinct(Tail(b))
    <3> SUFFICES ASSUME NEW i \in 1..Len(Tail(b)), NEW j \in 1..Len(Tail(b)), Tail(b)[i] = Tail(b)[j]
                 PROVE  i = j
      BY DEF Distinct
    <3>1. i \in 1..(Len(b) - 1) /\ j \in 1..(Len(b) - 1) BY <1>5
    <3>2. b[i + 1] = b[j + 1] BY <3>1, <1>5
    <3>3. i + 1 = j + 1 BY <3>1, <3>2, <2>1, <1>14 DEF Distinct
    <3> QED BY <3>1, <3>3
  <2> QED BY <2>3, <2>4
<1>16. Head(b) \notin Range(stored[s]) /\ Head(b) \notin InMail
  BY <1>14, MemoryFacts DEF Inside
<1>17. stored'[s] = stored[s] BY <1>2
<1>18. Inside(s) = {Head(b)} \cup Inside(s)' /\ Head(b) \notin Inside(s)'
  BY <1>5, <1>12, <1>13, <1>15, <1>16, <1>17 DEF Inside
<1>19. InMail' \cup Inside(s)' = InMail \cup Inside(s) /\ InMail' \cap Inside(s)' = {}
  BY <1>11, <1>18, MemoryFacts
<1>20. \A i, j \in 1..Len(box') : box'[i].msg = box'[j].msg => i = j
  <2>1. \A i \in 1..Len(box) : box[i].msg # Head(b) BY <1>16 DEF InMail
  <2> QED BY <2>1, <1>8, <1>9, <1>10, MemoryFacts
<1>21. Noted(s)' BY <1>1, <1>2, MemoryFacts DEF Noted
<1>22. /\ Hand(s)' \cap Range(stored'[s]) = {} /\ Once(stored'[s])
       /\ Distinct(batch'[s])
  BY <1>4, <1>5, <1>12, <1>13, <1>15, <1>17, MemoryFacts
<1> QED BY <1>2, <1>3, <1>19, <1>20, <1>21, <1>22, MemoryMoves

LEMMA MemorySend ==
    ASSUME Typing, MemoryInv, ~ durable, durable' = durable, NEW m \in Peers, Send(m)
    PROVE  MemoryInv'
<1>1. /\ m \notin Range(sent) /\ Range(sent') = Range(sent) \cup {m}
      /\ Len(box') = Len(box) + 1 /\ Len(box) \in Nat
      /\ \A i \in 1..Len(box) : box'[i].msg = box[i].msg
      /\ box'[Len(box) + 1].msg = m
      /\ UNCHANGED <<batch, pc, receipts, queue, stored>>
  BY SendIs DEF rows, log
<1>2. /\ \A i \in 1..Len(box') : i \in 1..Len(box) \/ i = Len(box) + 1
      /\ \A i \in 1..Len(box) : i \in 1..Len(box')
      /\ Len(box) + 1 \in 1..Len(box')
  BY <1>1
<1>3. InMail' = InMail \cup {m} BY <1>1, <1>2 DEF InMail
<1>4. /\ \A i, j \in 1..Len(box) : box[i].msg = box[j].msg => i = j
      /\ Range(sent) = InMail \cup UNION {Inside(s) : s \in Sessions}
      /\ \A s \in Sessions :
            /\ Noted(s) /\ Once(stored[s])
            /\ Hand(s) # {} => Distinct(batch[s])
            /\ Hand(s) \cap Range(stored[s]) = {}
            /\ InMail \cap Inside(s) = {}
      /\ \A s, t \in Sessions : s # t => Inside(s) \cap Inside(t) = {}
  BY DEF MemoryInv
<1>5. ASSUME NEW s \in Sessions
      PROVE  Inside(s)' = Inside(s) /\ Hand(s)' = Hand(s) /\ Noted(s)' /\ m \notin Inside(s)
  <2>1. Hand(s)' = Hand(s) BY <1>1 DEF Hand
  <2>2. Inside(s)' = Inside(s) BY <1>1, <2>1 DEF Inside
  <2>3. Noted(s)' BY <1>1, <1>4 DEF Noted
  <2> QED BY <2>1, <2>2, <2>3, <1>1, <1>4
<1>6. \A i, j \in 1..Len(box') : box'[i].msg = box'[j].msg => i = j
  <2>1. \A i \in 1..Len(box) : box[i].msg \in Range(sent) BY <1>4 DEF InMail
  <2>2. \A i \in 1..Len(box) : box[i].msg # m BY <2>1, <1>1
  <2> QED BY <2>2, <1>1, <1>2, <1>4
<1>7. UNION {Inside(s)' : s \in Sessions} = UNION {Inside(s) : s \in Sessions} BY <1>5
<1>8. Range(sent') = InMail' \cup UNION {Inside(s)' : s \in Sessions} BY <1>1, <1>3, <1>4, <1>7
<1>9. ASSUME NEW s \in Sessions
      PROVE  /\ Noted(s)' /\ Once(stored'[s])
             /\ Hand(s)' # {} => Distinct(batch'[s])
             /\ Hand(s)' \cap Range(stored'[s]) = {}
             /\ InMail' \cap Inside(s)' = {}
  BY <1>1, <1>3, <1>4, <1>5
<1>10. \A s, t \in Sessions : s # t => Inside(s)' \cap Inside(t)' = {} BY <1>4, <1>5
<1> QED BY <1>6, <1>8, <1>9, <1>10 DEF MemoryInv

LEMMA MemoryStill ==
    ASSUME Typing, MemoryInv, ~ durable, durable' = durable,
           Len(box') = Len(box), \A i \in 1..Len(box) : box'[i].msg = box[i].msg,
           UNCHANGED <<sent, batch, pc, receipts, queue, stored>>
    PROVE  MemoryInv'
<1>1. InMail' = InMail BY DEF InMail
<1>2. \A s \in Sessions : Hand(s)' = Hand(s) BY DEF Hand
<1>3. \A s \in Sessions : Inside(s)' = Inside(s) BY <1>2 DEF Inside
<1>4. \A s \in Sessions : Noted(s) => Noted(s)' BY DEF Noted
<1>5. UNION {Inside(s)' : s \in Sessions} = UNION {Inside(s) : s \in Sessions} BY <1>3
<1> QED BY <1>1, <1>2, <1>3, <1>4, <1>5 DEF MemoryInv

LEMMA MemoryActs ==
    ASSUME Typing, MemoryInv, ~ durable, durable' = durable, NEW s \in Sessions, Acts(s)
    PROVE  MemoryInv'
<1>0. pc[s] \notin WithInbox BY DEF Typing, Fits, Fitting
<1>1. /\ ~ CommitNotes(s) /\ ~ CommitPeers(s) /\ ~ NotesCommitted(s) /\ ~ PeersCommitted(s)
      /\ ~ Claim(s) /\ ~ Ack(s) /\ ~ Release(s) /\ ~ LoseReply(s) /\ ~ Crash(s) /\ ~ EnqueuePeer(s)
  <2>1. ~ Claim(s) /\ ~ LoseReply(s) /\ ~ Crash(s) /\ ~ CommitNotes(s)
    BY Zenon DEF Claim, LoseReply, Crash, CommitNotes
  <2>2. /\ ~ CommitPeers(s) /\ ~ NotesCommitted(s) /\ ~ PeersCommitted(s)
        /\ ~ Ack(s) /\ ~ Release(s) /\ ~ EnqueuePeer(s)
    BY <1>0 DEF CommitPeers, NotesCommitted, PeersCommitted, Ack, Release, EnqueuePeer, WithInbox
  <2> QED BY <2>1, <2>2
<1>2. ASSUME PromptAppended(s) \/ ResumeRun(s) \/ Turn(s) \/ BeginDrain(s) \/ ClaimNothing(s)
      PROVE  MemoryInv'
  <2>1. /\ pc[s] \in {"prompted", "idle", "body", "top", "mail"}
        /\ \E w \in {"top", "idle", "mail", "drain", "body"} : Go(s, w)
    BY <1>2 DEF PromptAppended, ResumeRun, Turn, BeginDrain, ClaimNothing
  <2>2. UNCHANGED <<box, sent, receipts, queue, stored, batch>>
    BY <1>2, Zenon DEF PromptAppended, Publish, ResumeRun, Turn, BeginDrain, ClaimNothing, mail, rows, log
  <2>3. pc'[s] \in {"top", "idle", "mail", "drain", "body"} BY <2>1, Goes
  <2>4. Hand(s) = {} /\ Hand(s)' = {} /\ pc[s] # "noted" /\ pc'[s] # "noted" BY <2>1, <2>3 DEF Hand
  <2> QED BY <2>2, <2>4, MemoryCalm
<1>3. ASSUME BatchAppended(s) PROVE MemoryInv'
  <2>1. pc[s] = "batchStored" /\ pc'[s] \in {"idle", "body"} BY <1>3, Goes DEF BatchAppended
  <2>2. UNCHANGED <<box, sent, receipts, queue, stored>>
    BY <1>3, Zenon DEF BatchAppended, Publish, Drop, rows
  <2>3. Hand(s) = {} /\ Hand(s)' = {} /\ pc[s] # "noted" /\ pc'[s] # "noted" BY <2>1 DEF Hand
  <2> QED BY <2>2, <2>3, MemoryCalm
<1>4. ASSUME CancelCommit(s) PROVE MemoryInv'
  <2>1. UNCHANGED <<box, sent, receipts, queue, stored, batch, pc>>
    BY <1>4, Zenon DEF CancelCommit, mail, rows, log
  <2>2. Hand(s)' = Hand(s) BY <2>1 DEF Hand
  <2> QED BY <2>1, <2>2, MemoryCalm
<1>5. ASSUME Interrupt(s) PROVE MemoryInv'
  <2>1. /\ pc[s] \in Interruptible /\ pc'[s] = Unwind(s)
        /\ UNCHANGED <<box, sent, receipts, queue, stored, batch>>
    BY <1>5, Goes DEF Interrupt, mail, rows, log
  <2>2. pc[s] # "noted" /\ pc'[s] # "noted" BY <2>1 DEF Interruptible, Unwind
  <2>3. Hand(s)' = Hand(s)
    <3>1. CASE pc[s] = "drained"
      <4>1. pc'[s] = "redeliver" BY <2>1, <3>1 DEF Unwind
      <4> QED BY <4>1, <3>1, <2>1 DEF Hand
    <3>2. CASE pc[s] # "drained"
      <4>1. pc[s] # "redeliver" /\ pc'[s] \in {"releasing", "idle"}
        BY <2>1, <3>2 DEF Interruptible, Unwind
      <4> QED BY <4>1, <3>2 DEF Hand
    <3> QED BY <3>1, <3>2
  <2> QED BY <2>1, <2>2, <2>3, MemoryCalm
<1> QED
  BY <1>1, <1>2, <1>3, <1>4, <1>5, MemoryStart, MemoryNote, MemoryBatch, MemoryPopped, MemoryDrain,
     MemoryReturned DEF Acts, Stores, Publishes, OnBox, Fails

LEMMA MemoryStep ==
    ASSUME Typing, [Next]_vars, MemoryInv
    PROVE  MemoryInv'
<1>1. CASE durable BY <1>1, DurableSame DEF MemoryInv
<1>2. CASE ~ durable
  <2>0. durable' = durable BY DurableSame
  <2>1. ASSUME NEW m \in Peers, Send(m) PROVE MemoryInv' BY <2>0, <2>1, <1>2, MemorySend
  <2>2. ASSUME NEW s \in Sessions, NEW n \in Notes, Notify(s, n) PROVE MemoryInv'
    BY <2>0, <2>2, <1>2, MemoryNotify
  <2>3. ASSUME NEW s \in Sessions, Acts(s) PROVE MemoryInv' BY <2>0, <2>3, <1>2, MemoryActs
  <2>4. ASSUME NEW i \in 1..Len(box), Expire(i) PROVE MemoryInv'
    <3>1. UNCHANGED <<sent, batch, pc, receipts, queue, stored>>
      BY <2>4, Zenon DEF Expire, rows, log
    <3>2. Len(box') = Len(box) /\ \A j \in 1..Len(box) : box'[j].msg = box[j].msg
      BY <2>4, ExpireIs
    <3> QED BY <3>1, <3>2, <2>0, <1>2, MemoryStill
  <2>5. ASSUME UNCHANGED vars PROVE MemoryInv'
    <3>1. UNCHANGED <<box, sent, batch, pc, receipts, queue, stored>>
      BY <2>5, Zenon DEF vars, mail, rows, log
    <3> QED BY <3>1, <2>0, <1>2, MemoryStill
  <2> QED BY <2>1, <2>2, <2>3, <2>4, <2>5, InboxCases
<1> QED BY <1>1, <1>2

-----------------------------------------------------------------------------
(* What is counted: messages, runs and prompts.                             *)

Counted ==
    /\ IsFiniteSet(Accepted) /\ runs <= MaxInputs
    /\ \A s \in Sessions : Range(stored[s]) \subseteq Deliveries \cup 1..runs
    /\ ~ durable => \A s \in Sessions : inbox[s] = <<>>

LEMMA AcceptedGrows ==
    ASSUME Typing, [Next]_vars, IsFiniteSet(Accepted)
    PROVE  IsFiniteSet(Accepted')
<1>1. ASSUME NEW m, Accepted' \subseteq Accepted \cup {m} PROVE IsFiniteSet(Accepted')
  <2>1. IsFiniteSet(Accepted \cup {m}) BY FS_AddElement
  <2> QED BY <2>1, <1>1, FS_Subset
<1>2. CASE sent' = sent /\ receipts' = receipts BY <1>2 DEF Accepted
<1>3. ASSUME NEW s \in Sessions, NEW m, sent' = sent,
             receipts' = receipts \/ receipts' = [receipts EXCEPT ![s] = @ \cup {m}]
      PROVE  IsFiniteSet(Accepted')
  <2>1. \A t \in Sessions : receipts'[t] \subseteq receipts[t] \cup {m}
    BY <1>3 DEF Typing, TypedRows
  <2>2. Accepted' \subseteq Accepted \cup {m} BY <2>1, <1>3 DEF Accepted
  <2> QED BY <2>2, <1>1
<1>4. ASSUME NEW m \in Peers, Send(m) PROVE IsFiniteSet(Accepted')
  <2>1. Range(sent') = Range(sent) \cup {m} /\ receipts' = receipts BY <1>4, SendIs DEF rows
  <2>2. Accepted' \subseteq Accepted \cup {m} BY <2>1 DEF Accepted
  <2> QED BY <2>2, <1>1
<1>5. ASSUME NEW s \in Sessions, NEW n \in Notes, Notify(s, n) PROVE IsFiniteSet(Accepted')
  <2>1. /\ sent' = sent
        /\ receipts' = receipts \/ receipts' = [receipts EXCEPT ![s] = @ \cup {n}]
    BY <1>5, Zenon DEF Notify, Enqueued, mail
  <2> QED BY <2>1, <1>3
<1>6. ASSUME NEW s \in Sessions, Acts(s) PROVE IsFiniteSet(Accepted')
  <2>1. sent' = sent
    BY <1>6, Zenon DEF Acts, Stores, Publishes, Fails, OnBox, ResumeRun, BeginDrain, ClaimNothing, Turn,
       CancelCommit, Interrupt, LoseReply, Crash, StartRun, CommitNotes, CommitPeers, AppendNote,
       AppendBatch, PromptAppended, NotesCommitted, PeersCommitted, NoteAppended, BatchAppended,
       EnqueuePeer, Ack, Release, Claim, DrainMail, Redeliver, Drop, mail
  <2>2. EnqueuePeer(s) => \/ receipts' = receipts
                          \/ receipts' = [receipts EXCEPT ![s] = @ \cup {batch[s][todo[s]]}]
    BY Zenon DEF EnqueuePeer, Enqueued
  <2>3. receipts' = receipts \/ EnqueuePeer(s)
    BY <1>6, Zenon DEF Acts, Stores, Publishes, OnBox, Fails, ResumeRun, BeginDrain, ClaimNothing, Claim,
       Ack, Release, DrainMail, Redeliver, CancelCommit, Interrupt, LoseReply, Crash, Turn, StartRun,
       CommitNotes, CommitPeers, NoteAppended, Committed, AppendNote, AppendBatch, PromptAppended,
       NotesCommitted, PeersCommitted, BatchAppended, mail, rows
  <2> QED BY <2>1, <2>2, <2>3, <1>3
<1>7. (\E i \in 1..Len(box) : Expire(i)) \/ UNCHANGED vars => sent' = sent /\ receipts' = receipts
  BY Zenon DEF Expire, vars, mail, rows
<1> QED BY <1>2, <1>4, <1>5, <1>6, <1>7, InboxCases

LEMMA CountedStep ==
    ASSUME Typing, [Next]_vars, Counted
    PROVE  Counted'
<1>0. /\ IsFiniteSet(Accepted) /\ runs <= MaxInputs /\ runs \in Nat /\ MaxInputs \in Nat
      /\ \A s \in Sessions : Range(stored[s]) \subseteq Deliveries \cup 1..runs
  BY InboxAssumption DEF Counted, Typing, TypedRuns
<1>1. IsFiniteSet(Accepted') BY <1>0, AcceptedGrows
<1>2. runs' = runs \/ (runs' = runs + 1 /\ runs' <= MaxInputs)
  <2>1. ASSUME NEW s \in Sessions, StartRun(s) PROVE runs' = runs + 1 /\ runs' <= MaxInputs
    <3>1. runs' = runs + 1 /\ Cardinality(Accepted) + runs < MaxInputs BY <2>1 DEF StartRun, Inputs
    <3>2. Cardinality(Accepted) \in Nat BY <1>0, FS_CardinalityType
    <3> QED BY <3>1, <3>2, <1>0
  <2>2. ASSUME NEW s \in Sessions, Acts(s) PROVE runs' = runs \/ StartRun(s)
    BY <2>2, Zenon DEF Acts, Stores, Publishes, Fails, OnBox, ResumeRun, BeginDrain, ClaimNothing, Turn,
       CancelCommit, Interrupt, LoseReply, Crash, CommitNotes, CommitPeers, AppendNote,
       AppendBatch, PromptAppended, NotesCommitted, PeersCommitted, NoteAppended, BatchAppended,
       EnqueuePeer, Ack, Release, Claim, DrainMail, Redeliver, Fault, bounds
  <2>3. (\E m \in Peers : Send(m)) \/ (\E s \in Sessions, n \in Notes : Notify(s, n))
        \/ (\E i \in 1..Len(box) : Expire(i)) \/ UNCHANGED vars => runs' = runs
    BY Zenon DEF Send, Notify, Expire, Fault, vars, bounds
  <2> QED BY <2>1, <2>2, <2>3, InboxCases
<1>3. 1..runs \subseteq 1..runs' /\ runs' <= MaxInputs BY <1>0, <1>2
<1>4. ASSUME NEW s \in Sessions, Stores(s)
      PROVE  Range(stored'[s]) \subseteq Deliveries \cup 1..runs'
  <2>1. PICK items \in Seq(Message) :
           /\ stored' = [stored EXCEPT ![s] = @ \o items]
           /\ CommitNotes(s) \/ CommitPeers(s) => items = inbox[s]
           /\ StartRun(s) => items = <<runs + 1>>
           /\ AppendNote(s) => items = <<Head(queue[s])>>
           /\ AppendBatch(s) => items = batch[s]
    BY <1>4, StoresIs
  <2>2. stored'[s] = stored[s] \o items BY <2>1 DEF Typing, TypedLog
  <2>3. Range(stored'[s]) = Range(stored[s]) \cup Range(items) BY <2>2, Sizes, RangeJoin
  <2>4. Range(items) \subseteq Deliveries \cup 1..runs'
    <3>1. CASE CommitNotes(s) \/ CommitPeers(s)
      <4>1. Range(inbox[s]) \subseteq Deliveries BY Sizes, InRange
      <4> QED BY <4>1, <3>1, <2>1
    <3>2. CASE StartRun(s)
      <4>1. Range(items) = {runs + 1} /\ runs' = runs + 1 BY <3>2, <2>1, LinedOne DEF StartRun
      <4> QED BY <4>1, <1>0
    <3>3. CASE AppendNote(s)
      <4>1. pc[s] = "drain" BY <3>3 DEF AppendNote
      <4>2. todo[s] \in 1..Len(queue[s]) BY <4>1 DEF Typing, Fits, Fitting
      <4>3. queue[s] # <<>> /\ queue[s] \in Seq(Notes) BY <4>2, Sizes
      <4>4. Head(queue[s]) \in Notes BY <4>3, RangeTail
      <4>5. Range(items) = {Head(queue[s])} BY <3>3, <2>1, LinedOne
      <4> QED BY <4>4, <4>5 DEF Deliveries
    <3>4. CASE AppendBatch(s)
      <4>1. Range(batch[s]) \subseteq Peers BY Sizes, InRange
      <4> QED BY <4>1, <3>4, <2>1 DEF Deliveries
    <3> QED BY <1>4, <3>1, <3>2, <3>3, <3>4 DEF Stores
  <2> QED BY <2>3, <2>4, <1>0, <1>3
<1>5. ASSUME NEW t \in Sessions PROVE Range(stored'[t]) \subseteq Deliveries \cup 1..runs'
  <2>1. ASSUME stored'[t] = stored[t] PROVE Range(stored'[t]) \subseteq Deliveries \cup 1..runs'
    BY <2>1, <1>0, <1>3
  <2>2. ASSUME NEW s \in Sessions, Acts(s) PROVE stored'[t] = stored[t] \/ Stores(t)
    <3>1. CASE s # t
      <4>1. Same(t) BY <2>2, <3>1, Others
      <4> QED BY <4>1 DEF Same
    <3>2. CASE s = t
      <4>1. Publishes(t) \/ Crash(t) \/ Turn(t) => stored' = stored
        BY Zenon DEF Publishes, PromptAppended, NotesCommitted, PublishNotes, NoteAppended,
           PeersCommitted, BatchAppended, Publish, Crash, Turn, log
      <4>2. UNCHANGED log => stored' = stored BY DEF log
      <4> QED BY <2>2, <3>2, <4>1, <4>2, LogSame
    <3> QED BY <3>1, <3>2
  <2>3. (\E m \in Peers : Send(m)) \/ (\E s \in Sessions, n \in Notes : Notify(s, n))
        \/ (\E i \in 1..Len(box) : Expire(i)) \/ UNCHANGED vars => stored' = stored
    BY Zenon DEF Send, Notify, Expire, vars, log
  <2> QED BY <2>1, <2>2, <2>3, <1>4, InboxCases
<1>6. ASSUME ~ durable PROVE inbox' = inbox
  <2>1. ASSUME NEW s \in Sessions, Acts(s) PROVE inbox' = inbox
    <3>1. pc[s] \notin WithInbox BY <1>6 DEF Typing, Fits, Fitting
    <3>2. ~ CommitNotes(s) /\ ~ CommitPeers(s) /\ ~ EnqueuePeer(s)
      BY <1>6, <3>1 DEF CommitNotes, CommitPeers, EnqueuePeer, WithInbox
    <3> QED
      BY <2>1, <3>2, Zenon DEF Acts, Stores, Publishes, OnBox, Fails, ResumeRun, BeginDrain, ClaimNothing,
         Claim, Ack, Release, DrainMail, Redeliver, CancelCommit, Interrupt, LoseReply, Crash, Turn,
         StartRun, NoteAppended, AppendNote, AppendBatch, PromptAppended, NotesCommitted, PeersCommitted,
         BatchAppended, mail, rows
  <2>2. (\E m \in Peers : Send(m)) \/ (\E s \in Sessions, n \in Notes : Notify(s, n))
        \/ (\E i \in 1..Len(box) : Expire(i)) \/ UNCHANGED vars => inbox' = inbox
    BY <1>6, Zenon DEF Send, Notify, Expire, vars, rows
  <2> QED BY <2>1, <2>2, InboxCases
<1>7. ~ durable' => \A s \in Sessions : inbox'[s] = <<>>
  BY <1>6, DurableSame DEF Counted
<1> QED BY <1>1, <1>3, <1>5, <1>7 DEF Counted

-----------------------------------------------------------------------------
(* The invariant holds, and what it says.                                   *)

LEMMA InvariantStart ==
    ASSUME Init
    PROVE  IInv /\ Counted
<1>1. Typing BY TypingStart
<1>2. ASSUME NEW s \in Sessions
      PROVE  /\ stored[s] = <<>> /\ view[s] = <<>> /\ lastSeq[s] = 0 /\ inbox[s] = <<>>
             /\ snap[s].items = <<>> /\ snap[s].covers = 0 /\ batch[s] = <<>> /\ queue[s] = <<>>
             /\ receipts[s] = {} /\ pc[s] = "idle"
  BY DEF Init
<1>3. Range(<<>>) = {} BY DEF Range
<1>4. ASSUME NEW s \in Sessions PROVE Projects(s)
  <2>1. Shown(<<>>, <<>>, 0)
    <3> DEFINE f == [i \in 1..0 |-> i]
    <3>1. f \in [1..Len(<<>>) -> 1..0] /\ 1..Len(<<>>) = {} OBVIOUS
    <3> HIDE DEF f
    <3> QED BY <3>1 DEF Shown
  <2>2. Sees(<<>>, <<>>, 0) BY DEF Sees
  <2>3. Gap(s) = 0 BY <1>2 DEF Gap
  <2> QED BY <1>2, <2>1, <2>2, <2>3 DEF Projects
<1>5. /\ box = <<>> /\ sent = <<>> /\ runs = 0
      /\ Range(sent) = {} /\ 1..Len(box) = {}
  BY <1>3 DEF Init
<1>6. DurableInv
  <2>1. Posted /\ BoxInOrder BY <1>5 DEF Posted, BoxInOrder
  <2>2. ASSUME NEW s \in Sessions PROVE Rows(s)
    <3>1. InLine(<<>>) BY DEF InLine
    <3> QED BY <1>2, <1>3, <3>1 DEF Rows
  <2>3. \A s \in Sessions : Caught(s) BY <1>5 DEF Caught
  <2>4. \A s \in Sessions : Batched(s) /\ Settled(s) BY <1>2 DEF Batched, Settled
  <2>5. \A s \in Sessions : Known(s) BY <1>2, <1>3 DEF Known, Received
  <2> QED BY <2>1, <2>2, <2>3, <2>4, <2>5, <1>2 DEF DurableInv
<1>7. MemoryInv
  <2>1. ASSUME NEW s \in Sessions
        PROVE  Hand(s) = {} /\ Inside(s) = {} /\ Noted(s) /\ Once(stored[s])
    <3>1. Hand(s) = {} BY <1>2 DEF Hand
    <3>2. 1..Len(<<>>) = {} OBVIOUS
    <3>3. Once(<<>>) BY <3>2 DEF Once
    <3>4. Distinct(<<>>) BY <3>2 DEF Distinct
    <3> QED BY <1>2, <1>3, <3>1, <3>2, <3>3, <3>4 DEF Inside, Noted
  <2>2. InMail = {} BY <1>5 DEF InMail
  <2> QED BY <2>1, <2>2, <1>5 DEF MemoryInv
<1>8. Counted
  <2>1. Accepted = {} BY <1>5, <1>2 DEF Accepted
  <2>2. IsFiniteSet(Accepted) BY <2>1, FS_EmptySet
  <2>3. runs <= MaxInputs BY <1>5, InboxAssumption
  <2> QED BY <2>2, <2>3, <1>2, <1>3 DEF Counted
<1> QED BY <1>1, <1>4, <1>6, <1>7, <1>8 DEF IInv

LEMMA InvariantKept ==
    ASSUME IInv /\ Counted, [Next]_vars
    PROVE  (IInv /\ Counted)'
<1>1. Typing /\ (\A s \in Sessions : Projects(s)) /\ DurableInv /\ MemoryInv BY DEF IInv
<1>2. Typing' BY <1>1, TypingStep
<1>3. \A s \in Sessions : Projects(s)' BY <1>1, ProjectsStep
<1>4. DurableInv' BY <1>1, DurableStep
<1>5. MemoryInv' BY <1>1, MemoryStep
<1>6. Counted' BY <1>1, CountedStep
<1> QED BY <1>2, <1>3, <1>4, <1>5, <1>6 DEF IInv

LEMMA InvariantHolds == Spec => [](IInv /\ Counted)
<1>1. Init => IInv /\ Counted BY InvariantStart
<1>2. IInv /\ Counted /\ [Next]_vars => (IInv /\ Counted)' BY InvariantKept
<1> QED BY <1>1, <1>2, PTL DEF Spec

LEMMA Typed ==
    ASSUME IInv, Counted
    PROVE  TypeOK
<1>0. Typing /\ DurableInv /\ \A s \in Sessions : Projects(s) BY DEF IInv
<1>1. ASSUME NEW i \in 1..Len(box)
      PROVE  /\ box[i].msg \in Peers /\ box[i].live \in BOOLEAN
             /\ box[i].tok \in Tokens \cup {NoToken}
             /\ box[i].live => box[i].tok # NoToken
  <2>1. box[i] \in Entry BY <1>0 DEF Typing, TypedBox
  <2> QED BY <2>1, <1>0 DEF Entry, Typing, TypedBox
<1>2. ASSUME NEW s \in Sessions
      PROVE  /\ Range(inbox[s]) \subseteq receipts[s] /\ receipts[s] \subseteq Deliveries
             /\ Range(queue[s]) \subseteq Notes /\ Range(batch[s]) \subseteq Peers
  <2>1. CASE durable BY <2>1, <1>0, Sizes, InRange DEF DurableInv, Rows
  <2>2. CASE ~ durable
    <3>1. inbox[s] = <<>> BY <2>2 DEF Counted
    <3>2. Range(inbox[s]) = {} BY <3>1 DEF Range
    <3> QED BY <3>2, <1>0, Sizes, InRange
  <2> QED BY <2>1, <2>2 DEF Typing, TypedRuns
<1>3. ASSUME NEW s \in Sessions
      PROVE  Range(stored[s]) \subseteq Deliveries \cup 1..MaxInputs
  <2>1. runs \in Nat /\ MaxInputs \in Nat /\ runs <= MaxInputs
    BY <1>0, InboxAssumption DEF Typing, TypedRuns, Counted
  <2>2. 1..runs \subseteq 1..MaxInputs BY <2>1
  <2> QED BY <2>2 DEF Counted
<1>4. ASSUME NEW s \in Sessions
      PROVE  lastSeq[s] \in 0..Len(stored[s]) /\ snap[s].covers \in 0..Len(stored[s])
  <2>1. /\ lastSeq[s] \in Nat /\ snap[s].covers \in Nat /\ Len(stored[s]) \in Nat /\ Gap(s) \in Nat
    BY <1>0, Sizes
  <2>2. lastSeq[s] + Gap(s) <= Len(stored[s]) /\ snap[s].covers <= Len(stored[s])
    BY <1>0 DEF Projects
  <2> QED BY <2>1, <2>2
<1>5. \A s \in Sessions : token[s] \in Tokens \cup {NoToken} BY <1>0 DEF Typing, TypedClaims
<1>6. durable \in BOOLEAN BY <1>0 DEF Typing, TypedRuns
<1> QED BY <1>1, <1>2, <1>3, <1>4, <1>5, <1>6 DEF TypeOK

LEMMA NoneIsLost ==
    ASSUME IInv
    PROVE  NothingLost
<1>0. Typing /\ DurableInv /\ MemoryInv BY DEF IInv
<1> DEFINE Held(m) == \/ \E i \in 1..Len(box) : box[i].msg = m
                      \/ \E s \in Sessions :
                            \/ m \in Range(inbox[s]) \cup Range(queue[s]) \cup Range(stored[s])
                            \/ /\ m \in Range(batch[s])
                               /\ pc[s] \in {"drained", "batchStored", "redeliver"}
<1> SUFFICES ASSUME NEW m \in Deliveries, m \in Accepted PROVE Held(m) BY DEF NothingLost
<1>1. m \in Range(sent) \/ \E s \in Sessions : m \in receipts[s] BY DEF Accepted
<1>2. CASE durable
  <2>1. ASSUME NEW s \in Sessions, m \in receipts[s] PROVE Held(m)
    <3>1. m \in Range(inbox[s]) \/ m \in Range(stored[s]) BY <2>1, <1>2, <1>0 DEF DurableInv, Rows
    <3> QED BY <3>1
  <2>2. CASE m \in Range(sent)
    <3>1. (\E i \in 1..Len(box) : box[i].msg = m) \/ \E s \in Sessions : m \in receipts[s]
      BY <2>2, <1>2, <1>0 DEF DurableInv, Posted
    <3> QED BY <3>1, <2>1
  <2> QED BY <1>1, <2>1, <2>2
<1>3. CASE ~ durable
  <2>1. ASSUME NEW s \in Sessions, m \in receipts[s] PROVE Held(m)
    <3>1. m \in Range(queue[s]) \/ m \in Range(stored[s]) BY <2>1, <1>3, <1>0 DEF MemoryInv, Noted
    <3> QED BY <3>1
  <2>2. CASE m \in Range(sent)
    <3>1. m \in InMail \/ \E s \in Sessions : m \in Inside(s)
      BY <2>2, <1>3, <1>0 DEF MemoryInv
    <3>2. CASE m \in InMail BY <3>2 DEF InMail
    <3>3. ASSUME NEW s \in Sessions, m \in Inside(s) PROVE Held(m)
      <4>1. m \in Hand(s) \/ m \in Range(stored[s]) BY <3>3 DEF Inside
      <4>2. m \in Hand(s) => m \in Range(batch[s]) /\ pc[s] \in {"drained", "redeliver"} BY DEF Hand
      <4> QED BY <4>1, <4>2
    <3> QED BY <3>1, <3>2, <3>3
  <2> QED BY <1>1, <2>1, <2>2
<1> QED BY <1>2, <1>3, <1>0 DEF Typing, TypedRuns

LEMMA NoneTwice ==
    ASSUME IInv
    PROVE  InsertedOnce
<1>0. Typing /\ DurableInv /\ MemoryInv /\ \A s \in Sessions : Projects(s) BY DEF IInv
<1> SUFFICES ASSUME NEW s \in Sessions PROVE Once(stored[s]) /\ Once(view[s]) BY DEF InsertedOnce
<1>1. Once(stored[s])
  <2>1. CASE durable
    <3>1. InLine(stored[s]) BY <2>1, <1>0 DEF DurableInv, Rows
    <3> SUFFICES ASSUME NEW i \in 1..Len(stored[s]), NEW j \in 1..Len(stored[s]),
                        stored[s][i] \in Deliveries, stored[s][i] = stored[s][j]
                 PROVE  i = j
      BY DEF Once
    <3>2. ~ (i < j) /\ ~ (j < i) BY <3>1 DEF InLine, Before
    <3>3. i \in Int /\ j \in Int OBVIOUS
    <3> QED BY <3>2, <3>3
  <2>2. CASE ~ durable BY <2>2, <1>0 DEF MemoryInv
  <2> QED BY <2>1, <2>2, <1>0 DEF Typing, TypedRuns
<1>2. /\ view[s] \in Seq(Message) /\ stored[s] \in Seq(Message) /\ lastSeq[s] \in Nat
      /\ Len(stored[s]) \in Nat /\ Gap(s) \in Nat
  BY <1>0, Sizes
<1>3. lastSeq[s] + Gap(s) <= Len(stored[s]) /\ Shown(view[s], stored[s], lastSeq[s])
  BY <1>0 DEF Projects
<1>4. lastSeq[s] <= Len(stored[s]) BY <1>2, <1>3
<1> QED BY <1>1, <1>2, <1>3, <1>4, ShownOnce

LEMMA InTheirOrder ==
    ASSUME IInv
    PROVE  OrderKept
<1>0. Typing /\ DurableInv /\ \A s \in Sessions : Projects(s) BY DEF IInv
<1>1. ASSUME NEW s \in Sessions PROVE IsSubsequence(view[s], stored[s])
  <2>2. /\ view[s] \in Seq(Message) /\ stored[s] \in Seq(Message) /\ lastSeq[s] \in Nat
        /\ Len(stored[s]) \in Nat /\ Gap(s) \in Nat
    BY <1>0, Sizes
  <2>3. lastSeq[s] + Gap(s) <= Len(stored[s]) /\ Shown(view[s], stored[s], lastSeq[s])
    BY <1>0 DEF Projects
  <2>4. lastSeq[s] <= Len(stored[s]) BY <2>2, <2>3
  <2> QED BY <2>2, <2>3, <2>4, ShownOnce
<1>2. ASSUME durable, NEW s \in Sessions, NEW i \in 1..Len(stored[s]), NEW j \in 1..Len(stored[s]),
             i < j, stored[s][i] \in Peers, stored[s][j] \in Peers
      PROVE  Older(stored[s][i], stored[s][j])
  <2>1. InLine(stored[s]) BY <1>2, <1>0 DEF DurableInv, Rows
  <2>2. stored[s][i] \in Deliveries /\ stored[s][j] \in Deliveries BY <1>2 DEF Deliveries
  <2>3. Before(stored[s][i], stored[s][j]) BY <2>1, <2>2, <1>2 DEF InLine
  <2> QED BY <2>3, <1>2 DEF Before
<1>3. ViewInOrder BY <1>1 DEF ViewInOrder
<1>4. PeersInOrder BY <1>2 DEF PeersInOrder
<1> QED BY <1>3, <1>4 DEF OrderKept

LEMMA AllSeen ==
    ASSUME IInv
    PROVE  NoteSeen
<1>0. Typing /\ \A s \in Sessions : Projects(s) BY DEF IInv
<1> SUFFICES ASSUME NEW s \in Sessions, pc[s] = "body", ~ missed[s],
                    NEW m \in Range(stored[s]) \cap Deliveries
             PROVE  m \in Range(view[s])
  BY DEF NoteSeen
<1>1. Gap(s) = 0 /\ ~ Loose(s) BY DEF Gap, Loose
<1>2. Sees(view[s], stored[s], lastSeq[s]) /\ lastSeq[s] + 0 = Len(stored[s])
  BY <1>0, <1>1 DEF Projects
<1>3. stored[s] \in Seq(Message) /\ lastSeq[s] \in Nat /\ Len(stored[s]) \in Nat BY <1>0, Sizes
<1>4. Sees(view[s], stored[s], Len(stored[s])) BY <1>2, <1>3
<1>5. PICK i \in 1..Len(stored[s]) : stored[s][i] = m BY <1>3, InRange
<1> QED BY <1>4, <1>5 DEF Sees

(* The state of sessions, inboxes and mailbox keeps its types, and only a   *)
(* row that has a receipt is pending in an inbox.                           *)
(* (enqueue_inbox, append_messages, InMemoryMailbox.claim)                  *)
THEOREM InboxTypeCorrect == Spec => []TypeOK
<1>1. IInv /\ Counted => TypeOK BY Typed
<1> QED BY <1>1, InvariantHolds, PTL

(* No accepted message is lost and none enters a history or a view twice,   *)
(* whatever sessions share the mailbox and whichever claims expire, calls   *)
(* fail, replies get lost and processes die.                                *)
(* (claim, ack and release of coordination/mailbox, commit_inbox)           *)
THEOREM ExactlyOnceHolds == Spec => []ExactlyOnce
<1>1. IInv /\ Counted => ExactlyOnce BY NoneIsLost, NoneTwice DEF ExactlyOnce
<1> QED BY <1>1, InvariantHolds, PTL

(* Peer messages enter every durable history in the order they were sent,   *)
(* and a session shows its history in the order of its history.             *)
(* (InMemoryMailbox.claim, drain_pending_notifications, Agent.session)      *)
THEOREM OrderIsKept == Spec => []OrderKept
<1>1. IInv /\ Counted => OrderKept BY InTheirOrder
<1> QED BY <1>1, InvariantHolds, PTL

(* A turn calls the provider with every delivery of the history in view,    *)
(* cancelled shielded commits, crashes and restored snapshots included.     *)
(* (drain_pending_notifications, commit_inbox, _restore_provider_view)      *)
THEOREM NotesAreSeen == Spec => []NoteSeen
<1>1. IInv /\ Counted => NoteSeen BY AllSeen
<1> QED BY <1>1, InvariantHolds, PTL
=============================================================================
