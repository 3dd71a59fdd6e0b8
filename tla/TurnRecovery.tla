---------------------------- MODULE TurnRecovery ----------------------------
(***************************************************************************)
(* The turns of one run, over any number of crashes, closes and resumes:   *)
(* src/linch/loop/runner.py with startup.py, resume.py, provider_turn.py   *)
(* and tool_batch.py.                                                      *)
(*                                                                         *)
(* Durable are the checkpoint of the run record, its event log and the     *)
(* history of the session.  The attempt that runs the loop keeps a working *)
(* checkpoint: most saves only replace it, and a barrier (a session write, *)
(* a provider dispatch, a tool start or end, the terminal) makes it        *)
(* durable first.  EventBuffer shows what a barrier commits; here it is    *)
(* one step.  A step that appends to the session is split at its barrier,  *)
(* since a crash may fall between the two stores.                          *)
(*                                                                         *)
(* A turn in which the model answers in text is the last one.  Tool calls  *)
(* are 1 .. Calls in the order the provider emitted them; a result says    *)
(* which turn produced it.  Not modelled: hooks, gates, compaction, loop   *)
(* guard, alignment, exact model input, and aborts.                        *)
(***************************************************************************)
EXTENDS Integers, FiniteSets, SequencesExt

CONSTANTS
    MaxTurn,      \* the turn with this index answers in text at the latest
    Calls,        \* tool calls in an assistant message
    RecurringIds, \* TRUE: the provider uses the same tool-use ids every turn
    MaxStops,     \* crashes and closes of a generator, together
    MaxNotes      \* notifications the host queues

ASSUME TurnConstants ==
    /\ MaxTurn \in Nat /\ Calls \in Nat \ {0}
    /\ MaxStops \in Nat /\ MaxNotes \in Nat
    /\ RecurringIds \in BOOLEAN

VARIABLES
    dck,     \* checkpoint of the run record
    dlog,    \* tool events of the run record
    dproj,   \* what the projection of the latest delivery accepted, or <<>>
    sess,    \* messages of the session
    pc,      \* where the attempt is suspended
    ck,      \* working checkpoint of the attempt
    turn,    \* turn_index of the loop
    resumed, \* the attempt has a resume_checkpoint
    batch,   \* locals of run_tool_batch
    queue,   \* pending_notifications of the live session
    stops,   \* crashes and closes so far
    notes,   \* notifications queued so far
    ran,     \* how often each call of each turn executed
    midTurn  \* a notification was injected while a turn was being resumed

durable == <<dck, dlog, dproj, sess>>
attempt == <<pc, ck, turn, resumed, batch>>
vars == <<durable, attempt, queue, stops, notes, ran, midTurn>>

-----------------------------------------------------------------------------
Id(t, c) == IF RecurringIds THEN <<0, c>> ELSE <<t, c>>

Prompt       == [kind |-> "prompt"]
Note         == [kind |-> "note"]
Assistant(t, final) == [kind |-> "assistant", turn |-> t, final |-> final]
Results(t, done)    == [kind |-> "results", turn |-> t, done |-> done]

Real(t)     == [turn |-> t, kind |-> "real"]
Interrupted == [turn |-> -1, kind |-> "interrupted"]

\* A map from tool-use ids to results is a function; EmptyMap has no ids.
EmptyMap   == [i \in {} |-> Interrupted]
Only(id, result) == [i \in {id} |-> result]
With(f, g) == [i \in DOMAIN f \cup DOMAIN g |-> IF i \in DOMAIN f THEN f[i] ELSE g[i]]

NoCursor == -1
NoBatch == [todo |-> {}, open |-> {}, over |-> {}, lane |-> "start",
            done |-> EmptyMap, replay |-> FALSE]

\* asst is <<>> or the assistant message of the turn; base is the history
\* length the active primary was bound to.
Started == [phase |-> "started", turn |-> 0, done |-> EmptyMap,
            cursor |-> NoCursor, base |-> 0, asst |-> <<>>]

\* The phases of a checkpoint that holds an accepted assistant message.
Accepted == {"assistant_appended", "tool_batch_pending", "tool_executing",
             "tool_results_appended"}
Terminal == {"completed", "failed"}

\* Fault: Every save clears the recovery cursor.
SavedForgets(phase, t) ==
    [ck EXCEPT !.phase = phase, !.turn = t, !.cursor = NoCursor]

\* save_checkpoint: replaces the working checkpoint.  Only tool phases keep
\* the recovery cursor.
Saved(phase, t) ==
    [ck EXCEPT !.phase = phase, !.turn = t,
               !.cursor = IF phase \in {"tool_executing", "tool_results_appended"}
                          THEN @ ELSE NoCursor]

\* The same at assistant_appended: a message with tool calls sets the cursor.
SavedAssistant(m) ==
    [Saved("assistant_appended", m.turn) EXCEPT
        !.asst = <<m>>, !.cursor = IF m.final THEN NoCursor ELSE Len(dlog)]

\* Fault: A session write is not preceded by the held checkpoint.
NoBarrier == UNCHANGED dck

\* A barrier: the working checkpoint becomes durable.
Barrier == dck' = ck

Init ==
    /\ dck = Started /\ dlog = <<>> /\ dproj = <<>> /\ sess = <<>>
    /\ pc = "startup" /\ ck = Started /\ turn = 0 /\ resumed = FALSE
    /\ batch = NoBatch
    /\ queue = 0 /\ stops = 0 /\ notes = 0 /\ midTurn = FALSE
    /\ ran = [t \in 0 .. MaxTurn |-> [c \in 1 .. Calls |-> 0]]

-----------------------------------------------------------------------------
(* The prompt and the reconciliation of a resume.                          *)

\* initialize_run: a resumed run appends the prompt unless it is already the
\* last message.
Startup ==
    /\ pc = "startup"
    /\ IF resumed /\ sess # <<>> /\ Last(sess) = Prompt
       THEN /\ pc' = "reconcile"
            /\ ck' = Saved("user_appended", ck.turn)
            /\ UNCHANGED dck
       ELSE /\ pc' = "append_prompt"
            /\ Barrier
            /\ UNCHANGED ck
    /\ UNCHANGED <<dlog, dproj, sess, turn, resumed, batch, queue, stops, notes, ran, midTurn>>

AppendPrompt ==
    /\ pc = "append_prompt"
    /\ sess' = Append(sess, Prompt)
    /\ ck' = Saved("user_appended", ck.turn)
    /\ pc' = "reconcile"
    /\ UNCHANGED <<dck, dlog, dproj, turn, resumed, batch, queue, stops, notes, ran, midTurn>>

\* History the active primary of a resumed checkpoint has to account for.  What
\* follows an assistant that is checkpointed as appended is left aside.
Suffix ==
    LET all == SubSeq(sess, ck.base + 1, Len(sess))
    IN  IF ck.phase = "assistant_appended" THEN SubSeq(all, 1, Len(dproj)) ELSE all

\* recover_resume: an assistant message that the session holds is not asked
\* for again; a history that is not the bound one plus what the projection
\* accepted fails the run.
Reconcile ==
    /\ pc = "reconcile"
    /\ IF ~resumed \/ ck.phase \notin {"provider_pending", "assistant_appended"}
       THEN pc' = "top" /\ UNCHANGED <<ck, dck>>
       ELSE IF ~IsPrefix(Suffix, dproj)
       THEN /\ pc' = "off"
            /\ ck' = [ck EXCEPT !.phase = "failed"]
            /\ dck' = ck'
       ELSE /\ pc' = "top"
            /\ ck' = IF Suffix # <<>> /\ ck.phase = "provider_pending"
                     THEN SavedAssistant(Suffix[1]) ELSE ck
            /\ UNCHANGED dck
    /\ UNCHANGED <<dlog, dproj, sess, turn, resumed, batch, queue, stops, notes, ran, midTurn>>

-----------------------------------------------------------------------------
(* The top of a turn and the provider.                                     *)

\* The loop is about to replay a turn whose assistant message it already has.
ResumedAssistant ==
    resumed /\ turn = ck.turn /\ ck.phase \in Accepted /\ ck.asst # <<>>

\* drain_pending_notifications: the barrier of one delivery, then the append.
DrainNote ==
    /\ pc = "top" /\ queue > 0
    /\ Barrier
    /\ pc' = "append_note"
    /\ UNCHANGED <<dlog, dproj, sess, ck, turn, resumed, batch, queue, stops, notes, ran, midTurn>>

AppendNote ==
    /\ pc = "append_note"
    /\ sess' = Append(sess, Note)
    /\ queue' = queue - 1
    /\ midTurn' = (midTurn \/ (resumed /\ turn = ck.turn
                               /\ ck.phase \in Accepted \cup {"provider_pending"}))
    /\ pc' = "top"
    /\ UNCHANGED <<dck, dlog, dproj, ck, turn, resumed, batch, stops, notes, ran>>

\* prepare_provider_turn: a turn with an accepted assistant skips the provider.
ReplayTurn ==
    /\ pc = "top" /\ queue = 0 /\ ResumedAssistant
    /\ pc' = IF ck.asst[1].final THEN "final" ELSE "batch"
    /\ UNCHANGED <<durable, ck, turn, resumed, batch, queue, stops, notes, ran, midTurn>>

\* Fault: The binding of a new delivery keeps the history boundary of the last one.
BindStale ==
    /\ pc = "top" /\ queue = 0 /\ ~ResumedAssistant
    /\ ck' = Saved("provider_pending", turn)
    /\ dck' = ck'
    /\ dproj' = <<>>
    /\ pc' = "call"
    /\ UNCHANGED <<dlog, sess, turn, resumed, batch, queue, stops, notes, ran, midTurn>>

\* bind_active_primary and the dispatch marker of the ledger: the frozen
\* delivery is durable before the provider is called.
BindPrimary ==
    /\ pc = "top" /\ queue = 0 /\ ~ResumedAssistant
    /\ ck' = [Saved("provider_pending", turn) EXCEPT !.base = Len(sess)]
    /\ dck' = ck'
    /\ dproj' = <<>>
    /\ pc' = "call"
    /\ UNCHANGED <<dlog, sess, turn, resumed, batch, queue, stops, notes, ran, midTurn>>

\* The provider answered: its receipt and the projection of what is accepted
\* are durable before the session is.
AcceptPrimary ==
    /\ pc = "call"
    /\ \E final \in BOOLEAN :
        /\ turn = MaxTurn => final
        /\ dproj' = <<Assistant(turn, final)>>
    /\ Barrier
    /\ pc' = "append_assistant"
    /\ UNCHANGED <<dlog, sess, ck, turn, resumed, batch, queue, stops, notes, ran, midTurn>>

AppendAssistant ==
    /\ pc = "append_assistant"
    /\ sess' = sess \o dproj
    /\ ck' = SavedAssistant(dproj[1])
    /\ pc' = IF dproj[1].final THEN "final" ELSE "batch"
    /\ UNCHANGED <<dck, dlog, dproj, turn, resumed, batch, queue, stops, notes, ran, midTurn>>

\* _complete_with_pending_events: what is held commits first, so that a crash
\* at the terminal leaves the final assistant durable; then the terminal
\* checkpoint commits with the result event.
Finalize ==
    /\ pc = "final"
    /\ Barrier
    /\ pc' = "complete"
    /\ UNCHANGED <<dlog, dproj, sess, ck, turn, resumed, batch, queue, stops, notes, ran, midTurn>>

Complete ==
    /\ pc = "complete"
    /\ ck' = Saved("completed", turn)
    /\ dck' = ck'
    /\ pc' = "off"
    /\ UNCHANGED <<dlog, dproj, sess, turn, resumed, batch, queue, stops, notes, ran, midTurn>>

-----------------------------------------------------------------------------
(* The tool batch.                                                         *)

\* Fault: Started tools without an end are forgotten, and run again.
RecoveredReruns ==
    LET tail   == SubSeq(dlog, ck.cursor + 1, Len(dlog))
        ends   == {i \in DOMAIN tail : tail[i].kind = "end"}
        ended  == [id \in {tail[i].id : i \in ends} |->
                      Real(tail[CHOOSE i \in ends : tail[i].id = id].turn)]
    IN  With(ended, ck.done)

\* Fault: A start downgrades a recorded result to the placeholder.
RecoveredDowngrades ==
    LET tail   == SubSeq(dlog, ck.cursor + 1, Len(dlog))
        starts == {tail[i].id : i \in {j \in DOMAIN tail : tail[j].kind = "start"}}
    IN  With([id \in starts |-> Interrupted], ck.done)

\* _recover_completed_tool_results: results of the checkpoint, then of the
\* event log after the cursor; a start without an end is interrupted.
Recovered ==
    LET tail   == SubSeq(dlog, ck.cursor + 1, Len(dlog))
        ids    == {Id(turn, c) : c \in 1 .. Calls}
        starts == {tail[i].id : i \in {j \in DOMAIN tail : tail[j].kind = "start"}} \cap ids
        ends   == {i \in DOMAIN tail : tail[i].kind = "end" /\ tail[i].id \in starts}
        ended  == [id \in {tail[i].id : i \in ends} |->
                      Real(tail[CHOOSE i \in ends : tail[i].id = id].turn)]
    IN  With(ended, With(ck.done, [id \in starts |-> Interrupted]))

\* run_tool_batch takes every turn of a resumed run for the resumed turn: the
\* turn of the working checkpoint is always the current one here.
ResumingTurn == resumed /\ turn = ck.turn

\* run_tool_batch up to the first tool: recovery, the tool_batch_pending save,
\* permissions and the tool_executing save.
StartBatch ==
    /\ pc = "batch"
    /\ LET done    == IF ResumingTurn THEN Recovered ELSE EmptyMap
           missing == {c \in 1 .. Calls : Id(turn, c) \notin DOMAIN done}
           replay  == ResumingTurn /\ ck.phase = "tool_results_appended"
       IN  /\ batch' = [NoBatch EXCEPT !.todo = missing, !.done = done, !.replay = replay]
           /\ ck' = IF replay /\ missing = {} THEN ck
                    ELSE [ck EXCEPT !.done = done,
                             !.phase = IF missing = {} THEN "tool_batch_pending"
                                       ELSE "tool_executing",
                             !.cursor = IF done = EmptyMap THEN Len(dlog) ELSE @]
    /\ pc' = "tools"
    /\ UNCHANGED <<durable, turn, resumed, queue, stops, notes, ran, midTurn>>

ToolEvent(kind, c) == [kind |-> kind, id |-> Id(turn, c), turn |-> turn]

\* The next call in provider order.
First(c, calls) == c \in calls /\ \A d \in calls : c <= d

\* A ToolCallStartEvent is durable, with the checkpoint, before it is yielded.
\* A batch that runs in parallel starts all its calls first.
StartTool(c) ==
    /\ pc = "tools" /\ batch.lane = "start" /\ First(c, batch.todo)
    /\ dlog' = Append(dlog, ToolEvent("start", c))
    /\ \E lane \in {"start", "run"} :
        /\ batch.todo = {c} => lane = "run"
        /\ batch' = [batch EXCEPT !.todo = @ \ {c}, !.open = @ \cup {c}, !.lane = lane,
                                  !.done = With(@, Only(Id(turn, c), Interrupted))]
    /\ Barrier
    /\ UNCHANGED <<dproj, sess, pc, ck, turn, resumed, queue, stops, notes, ran, midTurn>>

\* A tool of the running lane does its work.
RunTool(c) ==
    /\ pc = "tools" /\ batch.lane = "run"
    /\ c \in batch.open \ batch.over
    /\ ran' = [ran EXCEPT ![turn][c] = @ + 1]
    /\ batch' = [batch EXCEPT !.over = @ \cup {c}]
    /\ UNCHANGED <<durable, pc, ck, turn, resumed, queue, stops, notes, midTurn>>

\* Ends are emitted in provider order, each durable before it is yielded.
EndTool(c) ==
    /\ pc = "tools" /\ batch.lane = "run" /\ First(c, batch.open) /\ c \in batch.over
    /\ dlog' = Append(dlog, ToolEvent("end", c))
    /\ batch' = [batch EXCEPT !.open = @ \ {c},
                              !.lane = IF batch.open = {c} THEN "start" ELSE "run",
                              !.done = With(Only(Id(turn, c), Real(turn)), @)]
    /\ Barrier
    /\ UNCHANGED <<dproj, sess, pc, ck, turn, resumed, queue, stops, notes, ran, midTurn>>

\* Fault: Results are appended without a look at the last message.
NeverLooks == FALSE

\* _last_message_has_tool_results compares ids only.
LastHasResults ==
    /\ sess # <<>> /\ Last(sess).kind = "results"
    /\ DOMAIN Last(sess).done = {Id(turn, c) : c \in 1 .. Calls}

BatchResults == Results(turn, [id \in {Id(turn, c) : c \in 1 .. Calls} |-> batch.done[id]])

SavedResults == [Saved("tool_results_appended", turn) EXCEPT !.done = batch.done]

\* The results are appended unless a resumed turn finds them there.
EndBatch ==
    /\ pc = "tools" /\ batch.todo = {} /\ batch.open = {}
    /\ IF ResumingTurn /\ (batch.replay \/ LastHasResults)
       THEN /\ ck' = SavedResults /\ pc' = "next"
            /\ UNCHANGED dck
       ELSE /\ Barrier /\ pc' = "append_results"
            /\ UNCHANGED ck
    /\ UNCHANGED <<dlog, dproj, sess, turn, resumed, batch, queue, stops, notes, ran, midTurn>>

AppendResults ==
    /\ pc = "append_results"
    /\ sess' = Append(sess, BatchResults)
    /\ ck' = SavedResults
    /\ pc' = "next"
    /\ UNCHANGED <<dck, dlog, dproj, turn, resumed, batch, queue, stops, notes, ran, midTurn>>

\* The end of the turn body.
CompleteTurn ==
    /\ pc = "next"
    /\ ck' = Saved("turn_complete", turn)
    /\ turn' = turn + 1
    /\ batch' = NoBatch
    /\ pc' = "top"
    /\ UNCHANGED <<durable, resumed, queue, stops, notes, ran, midTurn>>

-----------------------------------------------------------------------------
(* The host.                                                               *)

\* Session.notify: on a live session, before its run is resumed or during it.
Notify ==
    /\ notes < MaxNotes /\ dck.phase \notin Terminal
    /\ notes' = notes + 1 /\ queue' = queue + 1
    /\ UNCHANGED <<durable, attempt, stops, ran, midTurn>>

Stopped ==
    /\ pc # "off" /\ stops < MaxStops
    /\ stops' = stops + 1 /\ pc' = "off"
    /\ ck' = Started /\ turn' = 0 /\ resumed' = FALSE /\ batch' = NoBatch
    /\ queue' = 0
    /\ UNCHANGED <<dlog, dproj, sess, notes, ran, midTurn>>

\* The process is lost.
Crash == Stopped /\ UNCHANGED dck

\* The consumer closes the generator where it yields; its finally clause
\* flushes, except in two phases.
Close ==
    /\ pc \in {"top", "batch", "tools", "final"}
    /\ ck.phase \notin {"started", "tool_results_appended"}
    /\ Barrier
    /\ Stopped

\* Session.resume on the checkpoint of a run that is not terminal.
Resume ==
    /\ pc = "off" /\ dck.phase \notin Terminal
    /\ ck' = dck /\ resumed' = TRUE /\ batch' = NoBatch
    /\ turn' = IF dck.phase = "turn_complete" THEN dck.turn + 1 ELSE dck.turn
    /\ pc' = IF dck.phase = "started" THEN "startup" ELSE "reconcile"
    /\ UNCHANGED <<durable, queue, stops, notes, ran, midTurn>>

\* The run is over.
Over == pc = "off" /\ dck.phase \in Terminal /\ UNCHANGED vars

Loop ==
    \/ Startup \/ AppendPrompt \/ Reconcile
    \/ DrainNote \/ AppendNote \/ ReplayTurn
    \/ BindPrimary \/ AcceptPrimary \/ AppendAssistant \/ Finalize \/ Complete
    \/ StartBatch \/ (\E c \in 1 .. Calls : StartTool(c) \/ RunTool(c) \/ EndTool(c))
    \/ EndBatch \/ AppendResults \/ CompleteTurn

Next == Loop \/ Resume \/ Notify \/ Crash \/ Close \/ Over

Spec == Init /\ [][Next]_vars /\ WF_vars(Loop) /\ WF_vars(Resume)

-----------------------------------------------------------------------------
(* Properties.                                                             *)

Phases == {"started", "user_appended", "provider_pending", "turn_complete"}
              \cup Accepted \cup Terminal
TurnIds == {Id(t, c) : t \in 0 .. MaxTurn, c \in 1 .. Calls}
ResultSet == {Interrupted} \cup {Real(t) : t \in 0 .. MaxTurn}

CheckpointOK(k) ==
    /\ k.phase \in Phases /\ k.turn \in 0 .. MaxTurn
    /\ DOMAIN k.done \subseteq TurnIds /\ ToSet(k.done) \subseteq ResultSet
    /\ k.cursor \in {NoCursor} \cup 0 .. Len(dlog)
    /\ k.base \in 0 .. Len(sess)
    /\ k.phase \in {"tool_executing", "tool_results_appended"} => k.cursor # NoCursor

\* Both checkpoints are well formed: their cursor and history boundary lie
\* within the logs they point into, and a checkpoint from which a tool batch
\* is recovered has a cursor (_require_tool_recovery_cursor refuses it else).
TypeOK ==
    /\ CheckpointOK(dck) /\ CheckpointOK(ck)
    /\ turn \in 0 .. MaxTurn /\ queue \in 0 .. MaxNotes
    /\ Len(dproj) <= 1
    /\ batch.todo \cup batch.open \cup batch.over \subseteq 1 .. Calls

\* "A started tool with no durable end ... is not re-run": no call of a turn
\* executes twice, wherever the attempts stop.
AtMostOnce == \A t \in 0 .. MaxTurn : \A c \in 1 .. Calls : ran[t][c] <= 1

ResultMessages == {m \in ToSet(sess) : m.kind = "results"}
Ended(t, c) == [kind |-> "end", id |-> Id(t, c), turn |-> t] \in ToSet(dlog)

\* Every result in the history is the one its own call recorded: a finished
\* result is never lost to the interrupted-tool placeholder, a call that
\* recorded none is not given one, and no result comes from another turn
\* (_recover_completed_tool_results).
ResultsAreTrue ==
    \A m \in ResultMessages : \A c \in 1 .. Calls :
        m.done[Id(m.turn, c)] = IF Ended(m.turn, c) THEN Real(m.turn) ELSE Interrupted

\* How many of the first n messages of the history are not notifications.
Exchanged(n) == Cardinality({j \in 1 .. n : sess[j].kind # "note"})

\* The results of a message with tool calls directly follow it, as providers
\* require ("never breaks the assistant -> tool-results provider order").
ResultsFollowCalls ==
    \A i \in DOMAIN sess :
        sess[i].kind = "results" => i > 1 /\ sess[i - 1] = Assistant(sess[i].turn, FALSE)

\* However often the run stops and resumes, the history is the prompt and then,
\* turn by turn, one assistant message and its results, as in a run without a
\* stop -- unless a notification was injected into a resumed turn.
OrderlyTranscript ==
    midTurn \/
    /\ ResultsFollowCalls
    /\ \A i \in {j \in DOMAIN sess : sess[j].kind # "note"} :
        LET n == Exchanged(i)
        IN  IF n = 1 THEN sess[i] = Prompt
            ELSE /\ sess[i].kind = IF n % 2 = 0 THEN "assistant" ELSE "results"
                 /\ sess[i].turn = (n \div 2) - 1

\* Messages of the exchange that a checkpoint says are in the history.
Claimed(k) ==
    CASE k.phase = "started"          -> 0
      [] k.phase = "user_appended"    -> 1
      [] k.phase = "provider_pending" -> 1 + 2 * k.turn
      [] k.phase \in {"tool_results_appended", "turn_complete"} -> 3 + 2 * k.turn
      [] OTHER                        -> 2 + 2 * k.turn

\* The two stores stay within one message of each other: the checkpoint never
\* refers to a message the session lost, and no session message is durable
\* before the run state that preceded it (the barrier of durable_call).
StoresWithinOneMessage ==
    \/ midTurn \/ dck.phase = "failed"
    \/ Exchanged(Len(sess)) \in {Claimed(dck), Claimed(dck) + 1}

\* The history is that of a run without a stop, and the run state keeps up
\* with it (the order of the two appends of a turn, _reconcile_active_primary).
HistoryKept == OrderlyTranscript /\ StoresWithinOneMessage

\* A run that stops finitely often completes, unless a notification was
\* injected into a resumed turn.
Settles == <>(dck.phase = "completed" \/ midTurn)

=============================================================================
