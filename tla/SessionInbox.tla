---------------------------- MODULE SessionInbox ----------------------------
(***************************************************************************)
(* How a message that is not the user's prompt reaches a session: host and *)
(* background notifications (Session.notify) and peer messages (the        *)
(* mailbox), both delivered at the top of a turn.  With the durable inbox  *)
(* a delivery passes through a row of the session store that remembers its *)
(* id; without it, through a list in memory and a destructive drain.       *)
(*                                                                         *)
(* Sessions that share a mailbox address compete for its leases.  An       *)
(* awaited store call is two steps, its effect and its return, so that a   *)
(* cancellation, a lost reply or a crash can come between them.  Turn      *)
(* bodies append nothing here; a prompt is the number of its run.          *)
(***************************************************************************)
EXTENDS Integers, Sequences, FiniteSets, SequencesExt

CONSTANTS
    Sessions,
    Peers,      \* messages sent to the shared mailbox address
    Notes,      \* messages a host notifies
    NoToken,
    MaxInputs,  \* bound: messages that producers send, and prompts
    MaxFaults,  \* bound: cancellations, failed calls, lost replies, crashes
    MaxLate     \* bound: leases that expire while their consumer lives

ASSUME InboxAssumption ==
    /\ Peers \cap Notes = {} /\ (Peers \cup Notes) \cap Nat = {}
    /\ NoToken \notin Sessions \X Nat
    /\ MaxInputs \in Nat /\ MaxFaults \in Nat /\ MaxLate \in Nat

Deliveries == Peers \cup Notes
Tokens == Sessions \X Nat   \* who claimed, and which of its claims

VARIABLES
    durable,    \* DurabilityOptions.durable_inbox
    box,        \* InMemoryMailbox._inboxes[address]
    inbox,      \* pending inbox rows of each session, in inbox_seq order
    receipts,   \* delivery ids that have an inbox row
    queue,      \* Session.pending_notifications
    stored,     \* durable messages; a message's seq is its position
    snap,       \* durable provider snapshot: the view and covers_seq
    view,       \* provider view of the live session log
    lastSeq,    \* Session._last_seq
    pc,         \* where the session's run is
    todo,       \* queue entries left in this drain (to_drain)
    batch,      \* messages this turn took from the mailbox
    token,      \* token of the claim that holds batch
    raising,    \* a cancellation waits for a shielded call
    runs, faults, late,
    claimed,    \* claims made by each session
    sent,       \* history: peer messages, in the order of their send
    missed      \* history: a call was cut off after it had stored rows

mail == <<box, batch, token, claimed, sent>>
rows == <<inbox, receipts, queue>>
log  == <<stored, view, lastSeq>>
bounds == <<runs, faults, late>>
vars == <<durable, mail, rows, log, snap, pc, todo, raising, bounds, missed>>

Init ==
    /\ durable \in BOOLEAN
    /\ box = <<>> /\ sent = <<>>
    /\ inbox = [s \in Sessions |-> <<>>]
    /\ receipts = [s \in Sessions |-> {}]
    /\ queue = [s \in Sessions |-> <<>>]
    /\ stored = [s \in Sessions |-> <<>>]
    /\ snap = [s \in Sessions |-> [items |-> <<>>, covers |-> 0]]
    /\ view = [s \in Sessions |-> <<>>]
    /\ lastSeq = [s \in Sessions |-> 0]
    /\ pc = [s \in Sessions |-> "idle"]
    /\ todo = [s \in Sessions |-> 0]
    /\ batch = [s \in Sessions |-> <<>>]
    /\ token = [s \in Sessions |-> NoToken]
    /\ raising = [s \in Sessions |-> FALSE]
    /\ runs = 0 /\ faults = 0 /\ late = 0
    /\ claimed = [s \in Sessions |-> 0]
    /\ missed = [s \in Sessions |-> FALSE]

Go(s, where) == pc' = [pc EXCEPT ![s] = where]
Fault == faults < MaxFaults /\ faults' = faults + 1 /\ UNCHANGED <<runs, late>>
After(seq, n) == SubSeq(seq, n + 1, Len(seq))

(* A finite set of positions, in order.                                      *)
Listed(S) ==
    CHOOSE q \in [1..Cardinality(S) -> S] : \A i, j \in DOMAIN q : i < j => q[i] < q[j]

-----------------------------------------------------------------------------
(* The session store and the live log.                                      *)

(* Fault: enqueue without the dedupe by delivery id. *)
EnqueuedTwice(s, m) ==
    /\ inbox' = [inbox EXCEPT ![s] = Append(@, m)]
    /\ receipts' = [receipts EXCEPT ![s] = @ \cup {m}]

(* enqueue_inbox: a delivery id that has a row is a no-op                    *)
Enqueued(s, m) ==
    IF m \in receipts[s]
    THEN UNCHANGED <<inbox, receipts>>
    ELSE /\ inbox' = [inbox EXCEPT ![s] = Append(@, m)]
         /\ receipts' = [receipts EXCEPT ![s] = @ \cup {m}]

(* commit_inbox: one transaction moves every pending row into the messages   *)
Committed(s) ==
    /\ stored' = [stored EXCEPT ![s] = @ \o inbox[s]]
    /\ inbox' = [inbox EXCEPT ![s] = <<>>]
    /\ UNCHANGED <<receipts, queue, view, lastSeq>>

(* append_messages                                                           *)
Stored(s, items) ==
    /\ stored' = [stored EXCEPT ![s] = @ \o items]
    /\ UNCHANGED <<view, lastSeq>>

(* Publish the n newest rows: session_log.append_many and _track_seqs        *)
Publish(s, n) ==
    /\ view' = [view EXCEPT ![s] = @ \o After(stored[s], Len(stored[s]) - n)]
    /\ lastSeq' = [lastSeq EXCEPT ![s] = Len(stored[s])]
    /\ UNCHANGED stored

(* Fault: the cursor is read from the view's length, not from the store.    *)
UnseenAll(s) == Len(stored[s])

(* commit_inbox returns the rows after the cursor, those of earlier commits  *)
(* whose result never arrived included.                                      *)
Unseen(s) == Len(stored[s]) - lastSeq[s]

(* Fault: the snapshot is used without the rows appended after it. *)
RestoredSnapshot(s) == snap[s].items

(* Agent.session: the snapshot's view and every message after covers_seq     *)
Restored(s) == snap[s].items \o After(stored[s], snap[s].covers)

-----------------------------------------------------------------------------
(* Producers.                                                                *)

Accepted == Range(sent) \cup UNION {receipts[s] : s \in Sessions}
Inputs == Cardinality(Accepted) + runs
MaySend(m) == m \notin Accepted /\ Inputs < MaxInputs

Send(m) ==
    /\ MaySend(m)
    /\ box' = Append(box, [msg |-> m, tok |-> NoToken, live |-> FALSE])
    /\ sent' = Append(sent, m)
    /\ UNCHANGED <<durable, batch, token, claimed, rows, log, snap, pc, todo, raising, bounds, missed>>

(* Session.notify.  The host may repeat a delivery whose reply it lost; only *)
(* the durable inbox promises to recognise it.                               *)
Notify(s, n) ==
    /\ \/ /\ durable /\ Enqueued(s, n) /\ UNCHANGED queue
          /\ \/ MaySend(n) /\ UNCHANGED bounds
             \/ n \in receipts[s] /\ Fault
       \/ /\ ~durable /\ MaySend(n)
          /\ queue' = [queue EXCEPT ![s] = Append(@, n)]
          /\ receipts' = [receipts EXCEPT ![s] = @ \cup {n}]
          /\ UNCHANGED <<inbox, bounds>>
    /\ UNCHANGED <<durable, mail, log, snap, pc, todo, raising, missed>>

-----------------------------------------------------------------------------
(* A run: its prompt, then turns.  A resumed run appends no prompt.          *)

StartRun(s) ==
    /\ pc[s] = "idle" /\ Inputs < MaxInputs
    /\ runs' = runs + 1
    /\ Stored(s, <<runs + 1>>)
    /\ Go(s, "prompted")
    /\ UNCHANGED <<durable, mail, rows, snap, todo, raising, faults, late, missed>>

PromptAppended(s) ==
    /\ pc[s] = "prompted"
    /\ Publish(s, 1)
    /\ Go(s, "top")
    /\ UNCHANGED <<durable, mail, rows, snap, todo, raising, bounds, missed>>

ResumeRun(s) ==
    /\ pc[s] = "idle"
    /\ Go(s, "top")
    /\ UNCHANGED <<durable, mail, rows, log, snap, todo, raising, bounds, missed>>

(* The provider call reads the view; a compaction saves its snapshot.  The   *)
(* run then takes another turn or is over.                                   *)
Turn(s) ==
    /\ pc[s] = "body"
    /\ Go(s, "idle")
    /\ \/ snap' = [snap EXCEPT ![s] = [items |-> view[s], covers |-> lastSeq[s]]]
       \/ UNCHANGED snap
    /\ UNCHANGED <<durable, mail, rows, log, todo, raising, bounds, missed>>

-----------------------------------------------------------------------------
(* drain_pending_notifications, durable: the commit is shielded.             *)

CommitNotes(s) ==
    /\ durable /\ pc[s] = "top"
    /\ Committed(s)
    /\ Go(s, "committed")
    /\ UNCHANGED <<durable, mail, snap, todo, raising, bounds, missed>>

CancelCommit(s) ==
    /\ pc[s] \in {"committed", "noted", "batchStored"} /\ ~raising[s]
    /\ Fault
    /\ raising' = [raising EXCEPT ![s] = TRUE]
    /\ UNCHANGED <<durable, mail, rows, log, snap, pc, todo, missed>>

(* Fault: a cancelled caller leaves before it published the batch. *)
PublishUnlessRaising(s) == IF raising[s] THEN UNCHANGED log ELSE Publish(s, Unseen(s))

PublishNotes(s) == Publish(s, Unseen(s))

NotesCommitted(s) ==
    /\ pc[s] = "committed"
    /\ PublishNotes(s)
    /\ Go(s, IF raising[s] THEN "idle" ELSE "mail")
    /\ raising' = [raising EXCEPT ![s] = FALSE]
    /\ UNCHANGED <<durable, mail, rows, snap, todo, bounds, missed>>

-----------------------------------------------------------------------------
(* drain_pending_notifications, in memory: append, then take off the queue.  *)

BeginDrain(s) ==
    /\ ~durable /\ pc[s] = "top"
    /\ todo' = [todo EXCEPT ![s] = Len(queue[s])]
    /\ Go(s, IF queue[s] = <<>> THEN "mail" ELSE "drain")
    /\ UNCHANGED <<durable, mail, rows, log, snap, raising, bounds, missed>>

AppendNote(s) ==
    /\ pc[s] = "drain"
    /\ Stored(s, <<Head(queue[s])>>)
    /\ Go(s, "noted")
    /\ UNCHANGED <<durable, mail, rows, snap, todo, raising, bounds, missed>>

(* Fault: a cancelled caller keeps the head although its append settled. *)
PoppedUnlessRaising(s) == IF raising[s] THEN queue[s] ELSE Tail(queue[s])

Popped(s) == Tail(queue[s])

NoteAppended(s) ==
    /\ pc[s] = "noted"
    /\ Publish(s, 1)
    /\ queue' = [queue EXCEPT ![s] = Popped(s)]
    /\ todo' = [todo EXCEPT ![s] = @ - 1]
    /\ Go(s, IF raising[s] THEN "idle" ELSE IF todo[s] > 1 THEN "drain" ELSE "mail")
    /\ raising' = [raising EXCEPT ![s] = FALSE]
    /\ UNCHANGED <<durable, mail, inbox, receipts, snap, bounds, missed>>

-----------------------------------------------------------------------------
(* _mailbox_producer, durable: claim, enqueue, commit, acknowledge.          *)

(* Fault: a leased message is passed over instead of blocking the inbox. *)
ClaimableAny == {i \in 1..Len(box) : ~box[i].live}

(* claim: the prefix before the first live lease                             *)
Claimable == {i \in 1..Len(box) : \A j \in 1..i : ~box[j].live}

TokenFor(s) == <<s, claimed[s] + 1>>

Claim(s) ==
    /\ durable /\ pc[s] = "mail" /\ Claimable # {}
    /\ box' = [i \in 1..Len(box) |->
                  IF i \in Claimable THEN [box[i] EXCEPT !.tok = TokenFor(s), !.live = TRUE]
                                     ELSE box[i]]
    /\ claimed' = [claimed EXCEPT ![s] = @ + 1]
    /\ token' = [token EXCEPT ![s] = TokenFor(s)]
    /\ batch' = [batch EXCEPT ![s] =
           [k \in 1..Cardinality(Claimable) |-> box[Listed(Claimable)[k]].msg]]
    /\ todo' = [todo EXCEPT ![s] = 1]
    /\ Go(s, "claimed")
    /\ UNCHANGED <<durable, sent, rows, log, snap, raising, bounds, missed>>

ClaimNothing(s) ==
    /\ pc[s] = "mail" /\ IF durable THEN Claimable = {} ELSE box = <<>>
    /\ Go(s, "body")
    /\ UNCHANGED <<durable, mail, rows, log, snap, todo, raising, bounds, missed>>

EnqueuePeer(s) ==
    /\ pc[s] = "claimed"
    /\ Enqueued(s, batch[s][todo[s]])
    /\ todo' = [todo EXCEPT ![s] = @ + 1]
    /\ Go(s, IF todo[s] = Len(batch[s]) THEN "mailCommit" ELSE "claimed")
    /\ UNCHANGED <<durable, mail, queue, log, snap, raising, bounds, missed>>

CommitPeers(s) ==
    /\ pc[s] = "mailCommit"
    /\ Committed(s)
    /\ Go(s, "mailCommitted")
    /\ UNCHANGED <<durable, mail, snap, todo, raising, bounds, missed>>

PeersCommitted(s) ==
    /\ pc[s] = "mailCommitted"
    /\ Publish(s, Unseen(s))
    /\ Go(s, "acking")
    /\ UNCHANGED <<durable, mail, rows, snap, todo, raising, bounds, missed>>

(* A capability is the exact pair of message and token.                      *)
Holds(s, e) == e.msg \in Range(batch[s]) /\ e.tok = token[s]

Drop(s) ==
    /\ batch' = [batch EXCEPT ![s] = <<>>]
    /\ token' = [token EXCEPT ![s] = NoToken]
    /\ UNCHANGED <<claimed, sent>>

AckedBox(s) ==
    LET remaining == {i \in 1..Len(box) : ~Holds(s, box[i])}
    IN  [k \in 1..Cardinality(remaining) |-> box[Listed(remaining)[k]]]

(* Fault: a released claim loses its token and keeps its lease. *)
ReleasedTokenOnly(s) ==
    [i \in 1..Len(box) |-> IF Holds(s, box[i]) THEN [box[i] EXCEPT !.tok = NoToken] ELSE box[i]]

ReleasedBox(s) ==
    [i \in 1..Len(box) |->
        IF Holds(s, box[i]) THEN [box[i] EXCEPT !.tok = NoToken, !.live = FALSE] ELSE box[i]]

Ack(s) ==
    /\ pc[s] = "acking"
    /\ box' = AckedBox(s) /\ Drop(s)
    /\ Go(s, "body")
    /\ UNCHANGED <<durable, rows, log, snap, todo, raising, bounds, missed>>

Release(s) ==
    /\ pc[s] = "releasing"
    /\ box' = ReleasedBox(s) /\ Drop(s)
    /\ Go(s, "idle")
    /\ UNCHANGED <<durable, rows, log, snap, todo, raising, bounds, missed>>

-----------------------------------------------------------------------------
(* _mailbox_producer, in memory: drain, append, or send everything back.     *)

DrainMail(s) ==
    /\ ~durable /\ pc[s] = "mail" /\ box # <<>>
    /\ batch' = [batch EXCEPT ![s] = [i \in 1..Len(box) |-> box[i].msg]]
    /\ box' = <<>>
    /\ Go(s, "drained")
    /\ UNCHANGED <<durable, token, claimed, sent, rows, log, snap, todo, raising, bounds, missed>>

AppendBatch(s) ==
    /\ pc[s] = "drained"
    /\ Stored(s, batch[s])
    /\ Go(s, "batchStored")
    /\ UNCHANGED <<durable, mail, rows, snap, todo, raising, bounds, missed>>

BatchAppended(s) ==
    /\ pc[s] = "batchStored"
    /\ Publish(s, Len(batch[s]))
    /\ Drop(s) /\ UNCHANGED box
    /\ Go(s, IF raising[s] THEN "idle" ELSE "body")
    /\ raising' = [raising EXCEPT ![s] = FALSE]
    /\ UNCHANGED <<durable, rows, snap, todo, bounds, missed>>

(* _redeliver sends one message at a time                                    *)
Redeliver(s) ==
    /\ pc[s] = "redeliver"
    /\ box' = Append(box, [msg |-> Head(batch[s]), tok |-> NoToken, live |-> FALSE])
    /\ batch' = [batch EXCEPT ![s] = Tail(@)]
    /\ Go(s, IF Len(batch[s]) = 1 THEN "idle" ELSE "redeliver")
    /\ UNCHANGED <<durable, token, claimed, sent, rows, log, snap, todo, raising, bounds, missed>>

-----------------------------------------------------------------------------
(* What goes wrong.                                                          *)

(* Fault: an interrupted turn forgets the batch it took. *)
UnwindForgetful(s) == "idle"

(* Where an exception raised at a step leads: claims are released, a drained *)
(* batch is sent back, anything else ends the run.                           *)
Unwind(s) ==
    CASE pc[s] \in {"claimed", "mailCommit", "mailCommitted", "acking"} -> "releasing"
      [] pc[s] = "drained" -> "redeliver"
      [] OTHER -> "idle"

Interruptible == {"prompted", "top", "drain", "mail", "claimed", "mailCommit",
                  "mailCommitted", "acking", "drained", "body"}

(* The task is cancelled, or a call fails without effect.  Between the two    *)
(* steps of a call that is not shielded, its effect stays behind.            *)
Interrupt(s) ==
    /\ pc[s] \in Interruptible
    /\ Fault
    /\ Go(s, Unwind(s))
    /\ missed' = [missed EXCEPT ![s] = @ \/ pc[s] \in {"prompted", "mailCommitted"}]
    /\ UNCHANGED <<durable, mail, rows, log, snap, todo, raising>>

(* The shielded commit, a claim or an ack took effect and its reply is lost; *)
(* or a release fails.  Without the durable inbox a lost reply of an append is not    *)
(* considered: nothing could tell its copy from a new message.               *)
LoseReply(s) ==
    /\ durable /\ ~raising[s]
    /\ pc[s] \in {"committed", "acking", "releasing"} \/ (pc[s] = "claimed" /\ todo[s] = 1)
    /\ Fault
    /\ IF pc[s] = "acking" THEN box' = AckedBox(s) /\ UNCHANGED <<batch, token, claimed, sent>>
       ELSE Drop(s) /\ UNCHANGED box
    /\ Go(s, IF pc[s] = "acking" THEN "releasing" ELSE "idle")
    /\ missed' = [missed EXCEPT ![s] = @ \/ pc[s] = "committed"]
    /\ UNCHANGED <<durable, rows, log, snap, todo, raising>>

(* The process of a session dies and the session is opened again.  The       *)
(* mailbox is then a durable adapter of the same protocol.                   *)
Crash(s) ==
    /\ durable /\ Fault
    /\ view' = [view EXCEPT ![s] = Restored(s)]
    /\ lastSeq' = [lastSeq EXCEPT ![s] = Len(stored[s])]
    /\ Drop(s)
    /\ Go(s, "idle")
    /\ raising' = [raising EXCEPT ![s] = FALSE]
    /\ UNCHANGED <<durable, box, rows, stored, snap, todo, missed>>

(* A lease runs out: one that nobody holds any more, or a slow consumer's.   *)
Abandoned(e) == e.live /\ token[e.tok[1]] # e.tok

Expire(i) ==
    /\ box[i].live
    /\ \/ Abandoned(box[i]) /\ UNCHANGED late
       \/ late < MaxLate /\ late' = late + 1
    /\ box' = [box EXCEPT ![i].live = FALSE]
    /\ UNCHANGED <<durable, batch, token, claimed, sent, rows, log, snap, pc, todo, raising, runs, faults, missed>>

-----------------------------------------------------------------------------
Progress(s) ==
    \/ PromptAppended(s) \/ ResumeRun(s) \/ Turn(s)
    \/ CommitNotes(s) \/ NotesCommitted(s)
    \/ BeginDrain(s) \/ AppendNote(s) \/ NoteAppended(s)
    \/ Claim(s) \/ ClaimNothing(s) \/ EnqueuePeer(s) \/ CommitPeers(s) \/ PeersCommitted(s)
    \/ Ack(s) \/ Release(s)
    \/ DrainMail(s) \/ AppendBatch(s) \/ BatchAppended(s) \/ Redeliver(s)

Next ==
    \/ \E m \in Peers : Send(m)
    \/ \E s \in Sessions, n \in Notes : Notify(s, n)
    \/ \E s \in Sessions :
           Progress(s) \/ StartRun(s) \/ CancelCommit(s) \/ Interrupt(s) \/ LoseReply(s) \/ Crash(s)
    \/ \E i \in 1..Len(box) : Expire(i)

(* Sessions keep taking turns, and a lease runs out in the end.              *)
Fairness ==
    /\ \A s \in Sessions : WF_vars(Progress(s))
    /\ WF_vars(\E i \in 1..Len(box) : Abandoned(box[i]) /\ Expire(i))

Spec == Init /\ [][Next]_vars /\ Fairness

-----------------------------------------------------------------------------
Once(seq) == \A i, j \in 1..Len(seq) : seq[i] \in Deliveries /\ seq[i] = seq[j] => i = j
IsSubsequence(a, b) == \E f \in [1..Len(a) -> 1..Len(b)] :
    /\ \A i, j \in 1..Len(a) : i < j => f[i] < f[j]
    /\ \A i \in 1..Len(a) : a[i] = b[f[i]]

(* Types of the state; a live lease is one that some session claimed.        *)
TypeOK ==
    /\ durable \in BOOLEAN
    /\ \A i \in 1..Len(box) : /\ box[i].msg \in Peers /\ box[i].live \in BOOLEAN
                              /\ box[i].tok \in Tokens \cup {NoToken}
                              /\ box[i].live => box[i].tok # NoToken
    /\ \A s \in Sessions :
           /\ Range(inbox[s]) \subseteq receipts[s] /\ receipts[s] \subseteq Deliveries
           /\ Range(queue[s]) \subseteq Notes
           /\ Range(batch[s]) \subseteq Peers
           /\ Range(stored[s]) \subseteq Deliveries \cup 1..MaxInputs
           /\ lastSeq[s] \in 0..Len(stored[s]) /\ snap[s].covers \in 0..Len(stored[s])
           /\ token[s] \in Tokens \cup {NoToken}

(* No accepted message is lost: it is in the mailbox, in the hands of a      *)
(* drain that will send it back, in the inbox or in the durable history.     *)
(* (claim, ack and _redeliver in coordination/mailbox, commit_inbox)         *)
NothingLost ==
    \A m \in Deliveries : m \in Accepted =>
            \/ \E i \in 1..Len(box) : box[i].msg = m
            \/ \E s \in Sessions :
                   \/ m \in Range(inbox[s]) \cup Range(queue[s]) \cup Range(stored[s])
                   \/ /\ m \in Range(batch[s])
                      /\ pc[s] \in {"drained", "batchStored", "redeliver"}

(* A delivery is in a session's durable history at most once, and in its     *)
(* provider view at most once, whatever is retried, redelivered or reclaimed *)
(* ("exactly-once insertion into session history by delivery ID").           *)
InsertedOnce == \A s \in Sessions : Once(stored[s]) /\ Once(view[s])

(* No accepted message is lost, and none is inserted twice.                  *)
ExactlyOnce == NothingLost /\ InsertedOnce

(* The model is shown nothing that is not durable, and in the durable order. *)
(* (Session.append, drain_pending_notifications, _restore_provider_view)     *)
ViewInOrder == \A s \in Sessions : IsSubsequence(view[s], stored[s])

(* x was sent before y.                                                      *)
Older(x, y) == \E a, b \in 1..Len(sent) : a < b /\ sent[a] = x /\ sent[b] = y

(* Peer messages enter a durable history in the order they were sent: a live *)
(* lease on an older message blocks the newer ones (InMemoryMailbox.claim).  *)
PeersInOrder ==
    durable => \A s \in Sessions : \A i, j \in 1..Len(stored[s]) :
        i < j /\ stored[s][i] \in Peers /\ stored[s][j] \in Peers =>
            Older(stored[s][i], stored[s][j])

(* Delivery keeps the order on both ways: sent to stored, stored to shown.   *)
OrderKept == ViewInOrder /\ PeersInOrder

(* When a turn calls the provider, its view holds every delivery that is in  *)
(* the durable history, unless a call was cut off between the two: a         *)
(* cancellation during the shielded commit, however often, does not do that. *)
NoteSeen ==
    \A s \in Sessions : pc[s] = "body" /\ ~missed[s] =>
        Range(stored[s]) \cap Deliveries \subseteq Range(view[s])

(* Again and again every message accepted so far is in a durable history:    *)
(* no fault strands one in a lease, an inbox, or a list that a drain took.   *)
EventuallyStored ==
    []<>(\A m \in Accepted : \E s \in Sessions : m \in Range(stored[s]))
=============================================================================
