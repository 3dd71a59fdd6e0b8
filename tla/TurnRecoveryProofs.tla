------------------------- MODULE TurnRecoveryProofs -------------------------
(***************************************************************************)
(* Proofs about TurnRecovery, for any number of turns, calls, stops and    *)
(* notifications.                                                          *)
(*                                                                         *)
(* The checkpoint of the run record is older than its event log.  What     *)
(* makes recovery right is that the two together know every call that      *)
(* started: it belongs to an earlier turn, or its result is in the         *)
(* checkpoint, or its start is in the log behind the recovery cursor       *)
(* (Done).  What keeps the history in order is that each checkpoint says   *)
(* how many of its messages there are, up to one (Fits).                   *)
(***************************************************************************)
EXTENDS TurnRecovery, SequenceTheorems, FiniteSetTheorems, TLAPS

Turns == 0 .. MaxTurn
ToolCalls == 1 .. Calls
ToolPhases == {"tool_batch_pending", "tool_executing", "tool_results_appended"}
Places == {"off", "startup", "append_prompt", "reconcile", "top", "append_note", "call",
           "append_assistant", "batch", "tools", "append_results", "next", "final", "complete"}

(* The shapes of the data.                                                  *)
Map == UNION {[D -> ResultSet] : D \in SUBSET TurnIds}
AssistantMessage == [kind : {"assistant"}, turn : Turns, final : BOOLEAN]
ResultsMessage == [kind : {"results"}, turn : Turns, done : Map]
Message == {Prompt, Note} \cup AssistantMessage \cup ResultsMessage
Ev(kind, t, c) == [kind |-> kind, id |-> Id(t, c), turn |-> t]
Event == {Ev(kind, t, c) : kind \in {"start", "end"}, t \in Turns, c \in ToolCalls}
Single(S) == {<<>>} \cup {<<m>> : m \in S}
Checkpoint == [phase : Phases, turn : Turns, done : Map, cursor : {NoCursor} \cup Nat,
               base : Nat, asst : Single(AssistantMessage)]
Batch == [todo : SUBSET ToolCalls, open : SUBSET ToolCalls, over : SUBSET ToolCalls,
          lane : {"start", "run"}, done : Map, replay : BOOLEAN]

Typing ==
    /\ dck \in Checkpoint /\ ck \in Checkpoint
    /\ dlog \in Seq(Event) /\ dproj \in Single(AssistantMessage) /\ sess \in Seq(Message)
    /\ pc \in Places /\ turn \in Turns /\ resumed \in BOOLEAN /\ batch \in Batch
    /\ notes \in 0 .. MaxNotes /\ queue \in 0 .. notes /\ (pc = "append_note" => queue > 0)
    /\ ran \in [Turns -> [ToolCalls -> Nat]]

(* A checkpoint points into the logs, has the message of its turn from the  *)
(* phase assistant_appended on, and a cursor when that message has calls.   *)
Sound(k) ==
    /\ k.cursor <= Len(dlog) /\ k.base <= Len(sess)
    /\ k.phase \in Accepted =>
          /\ k.asst # <<>> /\ k.asst[1].turn = k.turn
          /\ ~ k.asst[1].final => k.cursor # NoCursor
    /\ k.phase \in ToolPhases => ~ k.asst[1].final
    /\ k.asst # <<>> => k.asst[1].final \/ k.asst[1].turn < MaxTurn
    /\ k.phase = "turn_complete" => k.turn < MaxTurn
    /\ k.phase = "provider_pending" /\ dproj # <<>> => dproj[1].turn = k.turn

(* Where the attempt is, its working checkpoint says.                       *)
BeforeCall == {"startup", "append_prompt", "reconcile", "top", "append_note"}
Placed ==
    /\ pc # "off" => ck.phase \notin Terminal
    /\ pc \in {"startup", "append_prompt"} => ck.phase = "started"
    /\ pc \in BeforeCall =>
          /\ turn = IF ck.phase = "turn_complete" THEN ck.turn + 1 ELSE ck.turn
          /\ ~ resumed => ck.phase \in {"started", "user_appended", "turn_complete"}
    /\ pc \in {"call", "append_assistant"} =>
          ck.phase = "provider_pending" /\ ck.turn = turn
    /\ pc = "append_assistant" => dproj # <<>>
    /\ pc \in {"batch", "final", "complete"} => ck.phase \in Accepted /\ ck.turn = turn
    /\ pc = "batch" => ~ ck.asst[1].final /\ (~ resumed => ck.phase = "assistant_appended")
    /\ pc \in {"tools", "append_results", "next"} => ck.phase \in ToolPhases /\ ck.turn = turn
    /\ pc \in {"tools", "append_results"} => \A c \in ToolCalls :
          Id(turn, c) \in DOMAIN batch.done \/ (pc = "tools" /\ c \in batch.todo)
    /\ dproj # <<>> => dproj[1].final \/ dproj[1].turn < MaxTurn

BaseInv == Typing /\ Sound(dck) /\ Sound(ck) /\ Placed

(* A call is done for a checkpoint: a resume from it does not start it.     *)
Logged(kind, t, c) == \E j \in DOMAIN dlog : dlog[j] = Ev(kind, t, c)
Behind(k, kind, t, c) == \E j \in DOMAIN dlog : j > k.cursor /\ dlog[j] = Ev(kind, t, c)
Done(k, t, c) ==
    \/ t < k.turn
    \/ t = k.turn /\ \/ k.phase \in {"turn_complete"} \cup Terminal
                     \/ /\ k.phase \in ToolPhases
                        /\ Id(t, c) \in DOMAIN k.done \/ Behind(k, "start", t, c)

KnowsStarted(k) == \A t \in Turns, c \in ToolCalls : Logged("start", t, c) => Done(k, t, c)

(* What runs has a start in the log, and what will start has none.          *)
BatchFresh ==
    /\ \A t \in Turns, c \in ToolCalls : ran[t][c] > 0 => Logged("start", t, c)
    /\ pc \in {"tools", "append_results"} =>
          \A c \in ToolCalls : Logged("start", turn, c) => Id(turn, c) \in DOMAIN batch.done
    /\ pc = "tools" =>
          /\ \A c \in batch.todo : ~ Logged("start", turn, c)
          /\ \A c \in batch.open : Logged("start", turn, c)
          /\ \A c \in batch.open \ batch.over : ran[turn][c] = 0

OnceInv ==
    /\ BaseInv
    /\ KnowsStarted(dck) /\ (pc # "off" => KnowsStarted(ck))
    /\ BatchFresh /\ AtMostOnce

(* With ids that do not recur: a call that was answered is done too, and    *)
(* every recorded result is the one of its call.                            *)
Answered(t) == \E j \in DOMAIN sess : sess[j].kind = "results" /\ sess[j].turn = t
KnowsAnswered(k) == \A t \in Turns, c \in ToolCalls : Answered(t) => Done(k, t, c)

Outcome(t, c) == IF Logged("end", t, c) THEN Real(t) ELSE Interrupted
Truthful(f) == \A t \in Turns, c \in ToolCalls : Id(t, c) \in DOMAIN f => f[Id(t, c)] = Outcome(t, c)

EndsKnown(k) ==
    \A t \in Turns, c \in ToolCalls :
        (Logged("end", t, c) /\ t = k.turn /\ k.phase \in ToolPhases) =>
            Id(t, c) \in DOMAIN k.done \/ Behind(k, "end", t, c)

EndsStarted == \A t \in Turns, c \in ToolCalls : Logged("end", t, c) => Logged("start", t, c)

MapsTrue == Truthful(dck.done) /\ Truthful(ck.done) /\ Truthful(batch.done)

(* What a batch still has to do is not answered, and not known as done by   *)
(* the checkpoint that its events are written with.                         *)
InBatch ==
    /\ pc = "tools" =>
          /\ batch.todo \cup batch.open # {} => ~ Answered(turn)
          /\ batch.open # {} => dck = ck
          /\ \A c \in batch.todo \cup batch.open : Id(turn, c) \notin DOMAIN ck.done
    /\ pc \in {"tools", "append_results"} => \A c \in ToolCalls :
          \/ Id(turn, c) \in DOMAIN ck.done \/ Behind(ck, "start", turn, c)
          \/ pc = "tools" /\ c \in batch.todo
    /\ pc = "append_results" => dck = ck

TrueMessage(m) ==
    m.kind = "results" => \A c \in ToolCalls : m.done[Id(m.turn, c)] = Outcome(m.turn, c)
MessagesTrue == \A j \in DOMAIN sess : TrueMessage(sess[j])

TrueInv ==
    /\ KnowsAnswered(dck) /\ (pc # "off" => KnowsAnswered(ck))
    /\ EndsKnown(dck) /\ (pc # "off" => EndsKnown(ck))
    /\ EndsStarted /\ MapsTrue /\ InBatch
    /\ MessagesTrue

-----------------------------------------------------------------------------
(* The data.                                                                *)

LEMMA ConstantFacts ==
    /\ MaxTurn \in Nat /\ Calls \in Nat \ {0} /\ MaxStops \in Nat /\ MaxNotes \in Nat
    /\ 0 \in Turns /\ Turns \subseteq Nat /\ ToolCalls \subseteq Nat
    /\ \A t \in Turns : t < MaxTurn => t + 1 \in Turns
BY TurnConstants DEF Turns, ToolCalls

LEMMA IdFacts ==
    /\ \A t \in Turns, c \in ToolCalls : Id(t, c) \in TurnIds
    /\ \A t \in Turns, c, d \in ToolCalls : Id(t, c) = Id(t, d) => c = d
    /\ ~ RecurringIds =>
          \A t, u \in Turns, c, d \in ToolCalls : Id(t, c) = Id(u, d) => t = u /\ c = d
BY DEF Id, TurnIds, Turns, ToolCalls

LEMMA EvFacts ==
    /\ \A kind \in {"start", "end"}, t \in Turns, c \in ToolCalls :
          /\ Ev(kind, t, c) \in Event
          /\ Ev(kind, t, c).kind = kind /\ Ev(kind, t, c).turn = t
          /\ Ev(kind, t, c).id = Id(t, c)
    /\ \A kind, kind2 \in {"start", "end"}, t, u \in Turns, c, d \in ToolCalls :
          Ev(kind, t, c) = Ev(kind2, u, d) => kind = kind2 /\ t = u /\ c = d
    /\ \A e \in Event : \E kind \in {"start", "end"}, t \in Turns, c \in ToolCalls :
          e = Ev(kind, t, c)
<1>1. \A kind, t, c : /\ Ev(kind, t, c).kind = kind /\ Ev(kind, t, c).turn = t
                      /\ Ev(kind, t, c).id = Id(t, c)
  BY DEF Ev
<1> QED BY <1>1, IdFacts DEF Event

LEMMA MapFacts ==
    ASSUME NEW f \in Map
    PROVE  /\ DOMAIN f \in SUBSET TurnIds /\ f \in [DOMAIN f -> ResultSet]
           /\ \A i \in DOMAIN f : f[i] \in ResultSet
BY DEF Map

LEMMA MakeMap ==
    ASSUME NEW D \in SUBSET TurnIds, NEW f \in [D -> ResultSet]
    PROVE  f \in Map
BY DEF Map

LEMMA WithMap ==
    ASSUME NEW f \in Map, NEW g \in Map
    PROVE  /\ With(f, g) \in Map
           /\ DOMAIN With(f, g) = DOMAIN f \cup DOMAIN g
           /\ \A i \in DOMAIN f : With(f, g)[i] = f[i]
           /\ \A i \in DOMAIN g : i \notin DOMAIN f => With(f, g)[i] = g[i]
<1>1. /\ DOMAIN f \in SUBSET TurnIds /\ \A i \in DOMAIN f : f[i] \in ResultSet
      /\ DOMAIN g \in SUBSET TurnIds /\ \A i \in DOMAIN g : g[i] \in ResultSet
  BY MapFacts
<1>2. With(f, g) \in [DOMAIN f \cup DOMAIN g -> ResultSet] BY <1>1 DEF With
<1>3. DOMAIN f \cup DOMAIN g \in SUBSET TurnIds BY <1>1
<1>4. With(f, g) \in Map BY <1>2, <1>3, MakeMap
<1> QED BY <1>4 DEF With

LEMMA OnlyMap ==
    ASSUME NEW t \in Turns, NEW c \in ToolCalls, NEW result \in ResultSet
    PROVE  /\ Only(Id(t, c), result) \in Map
           /\ DOMAIN Only(Id(t, c), result) = {Id(t, c)}
           /\ Only(Id(t, c), result)[Id(t, c)] = result
<1>1. {Id(t, c)} \in SUBSET TurnIds BY IdFacts
<1>2. Only(Id(t, c), result) \in [{Id(t, c)} -> ResultSet] BY DEF Only
<1>3. Only(Id(t, c), result) \in Map BY <1>1, <1>2, MakeMap
<1> QED BY <1>3 DEF Only

LEMMA EmptyIsMap == EmptyMap \in Map /\ DOMAIN EmptyMap = {}
<1>1. EmptyMap \in [{} -> ResultSet] BY DEF EmptyMap
<1>2. EmptyMap \in Map BY <1>1, MakeMap
<1> QED BY <1>2 DEF EmptyMap

LEMMA ResultFacts == Interrupted \in ResultSet /\ \A t \in Turns : Real(t) \in ResultSet
BY DEF ResultSet, Turns

LEMMA MessageFacts ==
    /\ \A t \in Turns, final \in BOOLEAN :
          /\ Assistant(t, final) \in AssistantMessage
          /\ Assistant(t, final).turn = t /\ Assistant(t, final).final = final
    /\ \A m \in AssistantMessage :
          m.turn \in Turns /\ m.final \in BOOLEAN /\ m.kind = "assistant" /\ m \in Message
    /\ \A m \in ResultsMessage :
          m.turn \in Turns /\ m.done \in Map /\ m.kind = "results" /\ m \in Message
    /\ \A t \in Turns, done \in Map :
          /\ Results(t, done) \in ResultsMessage
          /\ Results(t, done).turn = t /\ Results(t, done).done = done
    /\ Prompt \in Message /\ Note \in Message
    /\ Prompt.kind = "prompt" /\ Note.kind = "note"
    /\ \A m \in Message : m.kind = "results" => m \in ResultsMessage
BY DEF Assistant, AssistantMessage, Results, ResultsMessage, Message, Prompt, Note

LEMMA SingleFacts ==
    ASSUME NEW s \in Single(AssistantMessage), s # <<>>
    PROVE  s[1] \in AssistantMessage /\ s = <<s[1]>> /\ Len(s) = 1
BY DEF Single

LEMMA MakeSingle ==
    /\ <<>> \in Single(AssistantMessage)
    /\ \A m \in AssistantMessage :
          <<m>> \in Single(AssistantMessage) /\ <<m>> # <<>> /\ <<m>>[1] = m
BY DEF Single

(* What the log and the history gain with one more entry.                   *)
LEMMA LogGrows ==
    ASSUME dlog \in Seq(Event), NEW kind \in {"start", "end"}, NEW t \in Turns,
           NEW c \in ToolCalls, dlog' = Append(dlog, Ev(kind, t, c))
    PROVE  /\ dlog' \in Seq(Event) /\ Len(dlog') = Len(dlog) + 1
           /\ \A kind2 \in {"start", "end"}, u \in Turns, d \in ToolCalls :
                 /\ Logged(kind2, u, d)' <=>
                       Logged(kind2, u, d) \/ (kind2 = kind /\ u = t /\ d = c)
                 /\ \A k : Behind(k, kind2, u, d) => Behind(k, kind2, u, d)'
           /\ \A k : k.cursor \in Int /\ k.cursor <= Len(dlog) => Behind(k, kind, t, c)'
<1> DEFINE n == Len(dlog)
           e == Ev(kind, t, c)
<1>1. e \in Event BY EvFacts
<1>2. /\ dlog' \in Seq(Event) /\ Len(dlog') = n + 1 /\ n \in Nat
      /\ \A i \in 1..n : dlog'[i] = dlog[i]
      /\ dlog'[n + 1] = e
      /\ DOMAIN dlog = 1..n /\ DOMAIN dlog' = 1..(n + 1)
  <2> HIDE DEF e
  <2> QED BY <1>1 DEF e
<1> HIDE DEF n
<1>3. ASSUME NEW kind2 \in {"start", "end"}, NEW u \in Turns, NEW d \in ToolCalls
      PROVE  Logged(kind2, u, d)' <=>
                Logged(kind2, u, d) \/ (kind2 = kind /\ u = t /\ d = c)
  <2>1. e = Ev(kind2, u, d) <=> kind2 = kind /\ u = t /\ d = c BY EvFacts
  <2> HIDE DEF e
  <2>2. Logged(kind2, u, d)' <=> \E j \in 1..(n + 1) : dlog'[j] = Ev(kind2, u, d)
    BY <1>2 DEF Logged
  <2>3. (\E j \in 1..(n + 1) : dlog'[j] = Ev(kind2, u, d))
        <=> Logged(kind2, u, d) \/ e = Ev(kind2, u, d)
    BY <1>2 DEF Logged
  <2> QED BY <2>1, <2>2, <2>3
<1>4. ASSUME NEW kind2 \in {"start", "end"}, NEW u \in Turns, NEW d \in ToolCalls, NEW k,
             Behind(k, kind2, u, d)
      PROVE  \E j \in DOMAIN dlog' : j > k.cursor /\ dlog'[j] = Ev(kind2, u, d)
  BY <1>2, <1>4 DEF Behind
<1>5. ASSUME NEW k, k.cursor \in Int, k.cursor <= Len(dlog)
      PROVE  \E j \in DOMAIN dlog' : j > k.cursor /\ dlog'[j] = Ev(kind, t, c)
  BY <1>2, <1>5 DEF n
<1> QED BY <1>2, <1>3, <1>4, <1>5 DEF Behind, n

LEMMA HistoryGrows ==
    ASSUME sess \in Seq(Message), NEW m \in Message, sess' = Append(sess, m)
    PROVE  /\ sess' \in Seq(Message) /\ Len(sess') = Len(sess) + 1 /\ Len(sess) \in Nat
           /\ DOMAIN sess = 1..Len(sess) /\ DOMAIN sess' = 1..(Len(sess) + 1)
           /\ \A i \in 1..Len(sess) : sess'[i] = sess[i]
           /\ sess'[Len(sess) + 1] = m
OBVIOUS

-----------------------------------------------------------------------------
(* Checkpoints.                                                             *)

LEMMA CheckpointFacts ==
    ASSUME NEW k \in Checkpoint
    PROVE  /\ k.phase \in Phases /\ k.turn \in Turns /\ k.done \in Map
           /\ k.cursor \in {NoCursor} \cup Nat /\ k.cursor \in Int
           /\ k.base \in Nat /\ k.asst \in Single(AssistantMessage)
BY DEF Checkpoint, NoCursor

LEMMA SavedFacts ==
    ASSUME ck \in Checkpoint, NEW phase \in Phases, NEW t \in Turns
    PROVE  LET saved == Saved(phase, t)
           IN  /\ saved \in Checkpoint
               /\ saved.phase = phase /\ saved.turn = t /\ saved.done = ck.done
               /\ saved.base = ck.base /\ saved.asst = ck.asst
               /\ saved.cursor = IF phase \in {"tool_executing", "tool_results_appended"}
                                 THEN ck.cursor ELSE NoCursor
BY DEF Saved, Checkpoint, NoCursor

LEMMA SavedAssistantFacts ==
    ASSUME ck \in Checkpoint, dlog \in Seq(Event), NEW m \in AssistantMessage
    PROVE  LET saved == SavedAssistant(m)
           IN  /\ saved \in Checkpoint
               /\ saved.phase = "assistant_appended" /\ saved.turn = m.turn
               /\ saved.done = ck.done /\ saved.base = ck.base /\ saved.asst = <<m>>
               /\ saved.cursor = IF m.final THEN NoCursor ELSE Len(dlog)
<1>1. m.turn \in Turns /\ m.final \in BOOLEAN /\ <<m>> \in Single(AssistantMessage)
  BY MessageFacts, MakeSingle
<1>2. "assistant_appended" \in Phases BY DEF Phases, Accepted
<1>3. Len(dlog) \in Nat OBVIOUS
<1> DEFINE saved == Saved("assistant_appended", m.turn)
<1>4. saved \in Checkpoint /\ saved.phase = "assistant_appended" /\ saved.turn = m.turn
      /\ saved.done = ck.done /\ saved.base = ck.base
  BY <1>1, <1>2, SavedFacts
<1>5. SavedAssistant(m) =
        [saved EXCEPT !.asst = <<m>>, !.cursor = IF m.final THEN NoCursor ELSE Len(dlog)]
  BY DEF SavedAssistant
<1> HIDE DEF saved
<1> QED BY <1>1, <1>3, <1>4, <1>5 DEF Checkpoint, NoCursor

LEMMA StartedFacts ==
    /\ Started \in Checkpoint /\ Started.phase = "started" /\ Started.turn = 0
    /\ Started.cursor = NoCursor /\ Started.base = 0 /\ Started.asst = <<>>
    /\ Started.done = EmptyMap
BY EmptyIsMap, MakeSingle, ConstantFacts DEF Started, Checkpoint, Phases

-----------------------------------------------------------------------------
(* Typing, and where the attempt is.                                        *)

(* Reconciliation takes over the accepted message, nothing else.            *)
LEMMA SuffixIsAccepted ==
    ASSUME BaseInv, ck.phase = "provider_pending", Suffix # <<>>, IsPrefix(Suffix, dproj)
    PROVE  dproj # <<>> /\ Suffix[1] = dproj[1]
<1> DEFINE s == Suffix
<1>1. s = SubSeq(sess, ck.base + 1, Len(sess)) BY DEF Suffix
<1>2. sess \in Seq(Message) /\ ck.base \in Nat /\ dproj \in Single(AssistantMessage)
  BY CheckpointFacts DEF BaseInv, Typing
<1>3. s \in Seq(Message) BY <1>1, <1>2
<1>4. Len(s) <= Len(dproj) /\ SubSeq(s, 1, Len(s)) = SubSeq(dproj, 1, Len(s)) BY DEF IsPrefix
<1> HIDE DEF s
<1>5. Len(s) \in Nat /\ Len(s) > 0 BY <1>3 DEF s
<1>6. dproj # <<>> BY <1>4, <1>5
<1>7. Len(dproj) = 1 /\ dproj \in Seq(AssistantMessage)
  <2>1. dproj[1] \in AssistantMessage /\ dproj = <<dproj[1]>> /\ Len(dproj) = 1
    BY <1>2, <1>6, SingleFacts
  <2> DEFINE m == dproj[1]
  <2>2. <<m>> \in Seq(AssistantMessage) BY <2>1
  <2> QED BY <2>1, <2>2
<1>8. Len(s) = 1
  <2>1. Len(s) <= 1 BY <1>4, <1>7
  <2>2. \A n \in Nat : n > 0 /\ n <= 1 => n = 1 OBVIOUS
  <2> QED BY <1>5, <2>1, <2>2
<1>9. SubSeq(s, 1, 1)[1] = s[1] BY <1>3, <1>8
<1>10. SubSeq(dproj, 1, 1)[1] = dproj[1] BY <1>7
<1> QED BY <1>4, <1>6, <1>8, <1>9, <1>10 DEF s

LEMMA InitBase == Init => BaseInv
<1> SUFFICES ASSUME Init PROVE BaseInv OBVIOUS
<1> USE DEF Init
<1>1. NoBatch \in Batch BY EmptyIsMap DEF NoBatch, Batch
<1>2. ran \in [Turns -> [ToolCalls -> Nat]] BY DEF Turns, ToolCalls
<1>3. Typing
  <2>1. dlog \in Seq(Event) /\ sess \in Seq(Message) /\ dproj \in Single(AssistantMessage)
    BY MakeSingle
  <2>2. notes \in 0 .. MaxNotes /\ queue \in 0 .. notes /\ turn \in Turns BY ConstantFacts
  <2> QED BY <1>1, <1>2, <2>1, <2>2, StartedFacts DEF Typing, Places
<1>4. Sound(dck) /\ Sound(ck)
  BY StartedFacts DEF Sound, Accepted, ToolPhases, NoCursor
<1>5. Placed BY StartedFacts DEF Placed, BeforeCall, Terminal, Accepted, ToolPhases
<1> QED BY <1>3, <1>4, <1>5 DEF BaseInv

(* The steps of the attempt that leave the tools alone.                     *)
LEMMA StartupBase ==
    ASSUME BaseInv, Startup \/ AppendPrompt
    PROVE  BaseInv'
<1>1. /\ dck \in Checkpoint /\ ck \in Checkpoint /\ dlog \in Seq(Event) /\ sess \in Seq(Message)
      /\ ck.phase = "started" /\ pc \in BeforeCall
  BY DEF BaseInv, Typing, Placed, Startup, AppendPrompt, BeforeCall
<1>2. /\ ck.turn \in Turns /\ "user_appended" \in Phases BY <1>1, CheckpointFacts DEF Phases
<1> DEFINE saved == Saved("user_appended", ck.turn)
<1>3. /\ saved \in Checkpoint /\ saved.phase = "user_appended" /\ saved.turn = ck.turn
      /\ saved.base = ck.base /\ saved.asst = ck.asst /\ saved.cursor = NoCursor
  BY <1>1, <1>2, SavedFacts
<1>4. /\ ck' \in {ck, saved} /\ dck' \in {dck, ck}
      /\ pc' \in {"append_prompt", "reconcile"} /\ (pc' = "append_prompt" => ck' = ck)
      /\ UNCHANGED <<dlog, dproj, turn, resumed, batch, queue, notes, ran>>
  BY DEF Startup, AppendPrompt, Barrier
<1>5. sess' \in Seq(Message) /\ Len(sess') >= Len(sess)
  <2>1. sess' = sess \/ sess' = Append(sess, Prompt) BY DEF Startup, AppendPrompt
  <2> QED BY <1>1, <2>1, MessageFacts
<1> HIDE DEF saved
<1>6. Typing' BY <1>1, <1>3, <1>4, <1>5 DEF BaseInv, Typing, Places
<1>7. Sound(dck)' /\ Sound(ck)'
  <2>1. Len(sess) \in Nat /\ ck.base \in Nat /\ dck.base \in Nat BY <1>1, CheckpointFacts
  <2>2. Len(dlog) \in Nat BY <1>1
  <2> QED BY <1>1, <1>3, <1>4, <1>5, <2>1, <2>2
          DEF BaseInv, Sound, Accepted, ToolPhases, NoCursor
<1>8. Placed'
  BY <1>1, <1>3, <1>4 DEF BaseInv, Placed, BeforeCall, Terminal
<1> QED BY <1>6, <1>7, <1>8 DEF BaseInv

LEMMA ReconcileBase ==
    ASSUME BaseInv, Reconcile
    PROVE  BaseInv'
<1>1. /\ dck \in Checkpoint /\ ck \in Checkpoint /\ dlog \in Seq(Event) /\ sess \in Seq(Message)
      /\ dproj \in Single(AssistantMessage) /\ pc = "reconcile"
      /\ UNCHANGED <<dlog, dproj, sess, turn, resumed, batch, queue, notes, ran>>
  BY DEF BaseInv, Typing, Reconcile
<1>2. CASE pc' = "top" /\ UNCHANGED <<ck, dck>>
  <2>1. Typing' BY <1>1, <1>2 DEF BaseInv, Typing, Places
  <2>2. Sound(dck)' /\ Sound(ck)' BY <1>1, <1>2 DEF BaseInv, Sound
  <2>3. Placed' BY <1>1, <1>2 DEF BaseInv, Placed, BeforeCall
  <2> QED BY <2>1, <2>2, <2>3 DEF BaseInv
<1>3. CASE pc' = "off" /\ ck' = [ck EXCEPT !.phase = "failed"] /\ dck' = ck'
  <2>1. ck' \in Checkpoint /\ ck'.phase = "failed" /\ ck'.turn = ck.turn
        /\ ck'.cursor = ck.cursor /\ ck'.base = ck.base /\ ck'.asst = ck.asst
    BY <1>1, <1>3 DEF Checkpoint, Phases, Terminal
  <2>2. Typing' BY <1>1, <1>3, <2>1 DEF BaseInv, Typing, Places
  <2>3. Sound(dck)' /\ Sound(ck)'
    BY <1>1, <1>3, <2>1 DEF BaseInv, Sound, Accepted, ToolPhases
  <2>4. Placed' BY <1>1, <1>3, <2>1 DEF BaseInv, Placed, BeforeCall
  <2> QED BY <2>2, <2>3, <2>4 DEF BaseInv
<1>4. CASE /\ pc' = "top" /\ ck' = SavedAssistant(Suffix[1]) /\ UNCHANGED dck
           /\ resumed /\ ck.phase = "provider_pending" /\ Suffix # <<>> /\ IsPrefix(Suffix, dproj)
  <2>1. dproj # <<>> /\ Suffix[1] = dproj[1] BY <1>4, SuffixIsAccepted
  <2>2. dproj[1] \in AssistantMessage /\ dproj[1].turn = ck.turn
        /\ (dproj[1].final \/ dproj[1].turn < MaxTurn)
    BY <1>1, <1>4, <2>1, SingleFacts DEF BaseInv, Sound, Placed
  <2>3. /\ ck' \in Checkpoint /\ ck'.phase = "assistant_appended" /\ ck'.turn = ck.turn
        /\ ck'.base = ck.base /\ ck'.asst = <<dproj[1]>>
        /\ ck'.cursor = IF dproj[1].final THEN NoCursor ELSE Len(dlog)
    BY <1>1, <1>4, <2>1, <2>2, SavedAssistantFacts
  <2>4. Len(dlog) \in Nat BY <1>1
  <2>5. Typing' BY <1>1, <1>4, <2>3 DEF BaseInv, Typing, Places
  <2>6. Sound(dck)' BY <1>1, <1>4 DEF BaseInv, Sound
  <2>7. Sound(ck)'
    BY <1>1, <1>4, <2>2, <2>3, <2>4, MakeSingle DEF BaseInv, Sound, Accepted, ToolPhases, NoCursor
  <2>8. Placed' BY <1>1, <1>4, <2>3 DEF BaseInv, Placed, BeforeCall, Terminal
  <2> QED BY <2>5, <2>6, <2>7, <2>8 DEF BaseInv
<1> QED BY <1>2, <1>3, <1>4 DEF Reconcile

(* A step at the same checkpoints, or one that only makes the working       *)
(* checkpoint durable.                                                      *)
LEMMA CarriedBase ==
    ASSUME BaseInv, UNCHANGED <<dlog, dproj, ck>>, dck' \in {dck, ck},
           sess' \in Seq(Message), Len(sess') >= Len(sess)
    PROVE  /\ dck' \in Checkpoint /\ ck' \in Checkpoint
           /\ Sound(dck)' /\ Sound(ck)'
<1>1. dck \in Checkpoint /\ ck \in Checkpoint /\ sess \in Seq(Message) BY DEF BaseInv, Typing
<1>2. dck.base \in Nat /\ ck.base \in Nat /\ Len(sess) \in Nat /\ Len(sess') \in Nat
  BY <1>1, CheckpointFacts
<1>3. Sound(ck) /\ Sound(dck) BY DEF BaseInv
<1>4. Sound(ck)' BY <1>2, <1>3 DEF Sound
<1>5. CASE dck' = dck
  <2>1. Sound(dck)' BY <1>2, <1>3, <1>5 DEF Sound
  <2> QED BY <1>1, <1>4, <1>5, <2>1
<1>6. CASE dck' = ck
  <2>1. Sound(dck)' BY <1>2, <1>3, <1>6 DEF Sound
  <2> QED BY <1>1, <1>4, <1>6, <2>1
<1> QED BY <1>5, <1>6

LEMMA NoteBase ==
    ASSUME BaseInv, DrainNote \/ AppendNote \/ Notify
    PROVE  BaseInv'
<1>1. /\ UNCHANGED <<dlog, dproj, ck, turn, resumed, batch, ran>> /\ dck' \in {dck, ck}
      /\ pc' = pc \/ (pc \in {"top", "append_note"} /\ pc' \in {"top", "append_note"})
  BY DEF DrainNote, AppendNote, Notify, Barrier, durable, attempt
<1>2. /\ sess \in Seq(Message) /\ notes \in 0 .. MaxNotes /\ queue \in 0 .. notes
      /\ pc = "append_note" => queue > 0
  BY DEF BaseInv, Typing
<1>3. sess' \in Seq(Message) /\ Len(sess') >= Len(sess)
  <2>1. sess' = sess \/ sess' = Append(sess, Note)
    BY DEF DrainNote, AppendNote, Notify, durable
  <2> QED BY <1>2, <2>1, MessageFacts
<1>4. /\ dck' \in Checkpoint /\ ck' \in Checkpoint /\ Sound(dck)' /\ Sound(ck)'
  BY <1>1, <1>3, CarriedBase
<1>5. notes' \in 0 .. MaxNotes /\ queue' \in 0 .. notes' /\ (pc' = "append_note" => queue' > 0)
  BY <1>2, ConstantFacts DEF DrainNote, AppendNote, Notify, attempt
<1>6. Typing' BY <1>1, <1>3, <1>4, <1>5 DEF BaseInv, Typing, Places
<1>7. Placed' BY <1>1 DEF BaseInv, Placed, BeforeCall
<1> QED BY <1>4, <1>6, <1>7 DEF BaseInv

(* The top of a turn: the checkpoint is one of its own turn, or the one     *)
(* before it is complete.                                                   *)
LEMMA AtTop ==
    ASSUME BaseInv, pc = "top"
    PROVE  /\ turn = ck.turn \/ (ck.phase = "turn_complete" /\ turn = ck.turn + 1)
           /\ ck.phase \notin Terminal
           /\ ~ ResumedAssistant =>
                 ck.phase \in {"started", "user_appended", "provider_pending", "turn_complete"}
<1>1. ck.phase \in Phases /\ ck.phase \notin Terminal BY CheckpointFacts DEF BaseInv, Typing, Placed
<1>2. turn = IF ck.phase = "turn_complete" THEN ck.turn + 1 ELSE ck.turn
  BY DEF BaseInv, Placed, BeforeCall
<1>3. ASSUME ck.phase \in Accepted
      PROVE  ResumedAssistant
  <2>1. resumed BY <1>3 DEF BaseInv, Placed, BeforeCall, Accepted
  <2>2. ck.asst # <<>> BY <1>3 DEF BaseInv, Sound
  <2>3. turn = ck.turn BY <1>2, <1>3 DEF Accepted
  <2> QED BY <1>3, <2>1, <2>2, <2>3 DEF ResumedAssistant
<1> QED BY <1>1, <1>2, <1>3 DEF Phases

LEMMA ReplayTurnBase ==
    ASSUME BaseInv, ReplayTurn
    PROVE  BaseInv'
<1>1. /\ UNCHANGED <<dck, dlog, dproj, sess, ck, turn, resumed, batch, queue, notes, ran>>
      /\ pc' = IF ck.asst[1].final THEN "final" ELSE "batch"
      /\ resumed /\ turn = ck.turn /\ ck.phase \in Accepted
  BY DEF ReplayTurn, ResumedAssistant, durable
<1>2. Typing' BY <1>1 DEF BaseInv, Typing, Places
<1>3. Sound(dck)' /\ Sound(ck)' BY <1>1 DEF BaseInv, Sound
<1>4. ck.phase \notin Terminal BY <1>1 DEF Accepted, Terminal
<1>5. Placed' BY <1>1, <1>4 DEF BaseInv, Placed, BeforeCall
<1> QED BY <1>2, <1>3, <1>5 DEF BaseInv

LEMMA BindPrimaryBase ==
    ASSUME BaseInv, BindPrimary
    PROVE  BaseInv'
<1>1. /\ dck \in Checkpoint /\ ck \in Checkpoint /\ dlog \in Seq(Event) /\ sess \in Seq(Message)
      /\ turn \in Turns /\ Len(sess) \in Nat
  BY DEF BaseInv, Typing
<1> DEFINE saved == Saved("provider_pending", turn)
<1>2. saved \in Checkpoint /\ saved.phase = "provider_pending" /\ saved.turn = turn
      /\ saved.asst = ck.asst /\ saved.cursor = NoCursor
  BY <1>1, SavedFacts DEF Phases
<1>3. /\ ck' = [saved EXCEPT !.base = Len(sess)] /\ dck' = ck' /\ dproj' = <<>> /\ pc' = "call"
      /\ UNCHANGED <<dlog, sess, turn, resumed, batch, queue, notes, ran>>
  BY DEF BindPrimary
<1> HIDE DEF saved
<1>4. /\ ck' \in Checkpoint /\ ck'.phase = "provider_pending" /\ ck'.turn = turn
      /\ ck'.asst = ck.asst /\ ck'.cursor = NoCursor /\ ck'.base = Len(sess)
  BY <1>1, <1>2, <1>3 DEF Checkpoint
<1>5. Typing' BY <1>1, <1>3, <1>4, MakeSingle DEF BaseInv, Typing, Places
<1>6. Sound(ck)'
  BY <1>1, <1>3, <1>4 DEF BaseInv, Sound, Accepted, ToolPhases, NoCursor
<1>7. Sound(dck)' BY <1>3, <1>6 DEF Sound
<1>8. Placed' BY <1>3, <1>4 DEF BaseInv, Placed, BeforeCall, Terminal
<1> QED BY <1>5, <1>6, <1>7, <1>8 DEF BaseInv

LEMMA AcceptPrimaryBase ==
    ASSUME BaseInv, AcceptPrimary
    PROVE  BaseInv'
<1>1. /\ ck \in Checkpoint /\ turn \in Turns /\ ck.phase = "provider_pending" /\ ck.turn = turn
  BY DEF BaseInv, Typing, Placed, AcceptPrimary
<1>2. PICK final \in BOOLEAN : /\ turn = MaxTurn => final
                               /\ dproj' = <<Assistant(turn, final)>>
  BY DEF AcceptPrimary
<1> DEFINE m == Assistant(turn, final)
<1>3. /\ m \in AssistantMessage /\ m.turn = turn /\ m.final = final
      /\ <<m>> \in Single(AssistantMessage) /\ <<m>> # <<>> /\ <<m>>[1] = m
  BY <1>1, MessageFacts, MakeSingle
<1>4. final \/ turn < MaxTurn BY <1>1, <1>2, ConstantFacts DEF Turns
<1>5. /\ dck' = ck /\ dproj' = <<m>> /\ pc' = "append_assistant"
      /\ UNCHANGED <<dlog, sess, ck, turn, resumed, batch, queue, notes, ran>>
  BY <1>2 DEF AcceptPrimary, Barrier
<1> HIDE DEF m
<1>6. Typing' BY <1>1, <1>3, <1>5 DEF BaseInv, Typing, Places
<1>7. Sound(dck)' /\ Sound(ck)' BY <1>1, <1>3, <1>5 DEF BaseInv, Sound
<1>8. Placed' BY <1>1, <1>3, <1>4, <1>5 DEF BaseInv, Placed, BeforeCall, Terminal
<1> QED BY <1>6, <1>7, <1>8 DEF BaseInv

LEMMA AppendAssistantBase ==
    ASSUME BaseInv, AppendAssistant
    PROVE  BaseInv'
<1>1. /\ dck \in Checkpoint /\ ck \in Checkpoint /\ dlog \in Seq(Event) /\ sess \in Seq(Message)
      /\ turn \in Turns /\ dproj \in Single(AssistantMessage) /\ dproj # <<>>
      /\ ck.phase = "provider_pending" /\ ck.turn = turn
  BY DEF BaseInv, Typing, Placed, AppendAssistant
<1>2. /\ dproj[1] \in AssistantMessage /\ dproj[1].turn = turn /\ dproj = <<dproj[1]>>
      /\ dproj[1].final \/ dproj[1].turn < MaxTurn
  BY <1>1, SingleFacts DEF BaseInv, Sound, Placed
<1> DEFINE m == dproj[1]
<1>3. /\ ck' \in Checkpoint /\ ck'.phase = "assistant_appended" /\ ck'.turn = turn
      /\ ck'.base = ck.base /\ ck'.asst = <<m>>
      /\ ck'.cursor = IF m.final THEN NoCursor ELSE Len(dlog)
  BY <1>1, <1>2, SavedAssistantFacts DEF AppendAssistant
<1>4. /\ pc' = (IF m.final THEN "final" ELSE "batch") /\ sess' = sess \o dproj
      /\ UNCHANGED <<dck, dlog, dproj, turn, resumed, batch, queue, notes, ran>>
  BY DEF AppendAssistant
<1>5. /\ <<m>> # <<>> /\ <<m>>[1] = m /\ m \in Message BY <1>2, MessageFacts, MakeSingle
<1>6. sess' \in Seq(Message) /\ Len(sess') = Len(sess) + 1 /\ Len(sess) \in Nat
  <2>1. sess' = sess \o <<m>> BY <1>2, <1>4
  <2> HIDE DEF m
  <2> QED BY <1>1, <1>5, <2>1
<1> HIDE DEF m
<1>7. Len(dlog) \in Nat /\ dck.base \in Nat /\ ck.base \in Nat BY <1>1, CheckpointFacts
<1>8. Typing' BY <1>1, <1>3, <1>4, <1>6 DEF BaseInv, Typing, Places
<1>9. Sound(dck)' BY <1>4, <1>6, <1>7 DEF BaseInv, Sound
<1>10. Sound(ck)'
  BY <1>2, <1>3, <1>4, <1>5, <1>6, <1>7 DEF BaseInv, Sound, Accepted, ToolPhases, NoCursor, m
<1>11. Placed'
  BY <1>1, <1>3, <1>4, <1>5 DEF BaseInv, Placed, BeforeCall, Terminal, Accepted, m
<1> QED BY <1>8, <1>9, <1>10, <1>11 DEF BaseInv

LEMMA FinalBase ==
    ASSUME BaseInv, Finalize \/ Complete
    PROVE  BaseInv'
<1>1. /\ dck \in Checkpoint /\ ck \in Checkpoint /\ turn \in Turns /\ ck.turn = turn
      /\ ck.phase \in Accepted /\ UNCHANGED <<dlog, dproj, sess, turn, resumed, batch, queue, notes, ran>>
  BY DEF BaseInv, Typing, Placed, Finalize, Complete
<1>2. CASE Finalize
  <2>1. dck' = ck /\ ck' = ck /\ pc' = "complete" BY <1>2 DEF Finalize, Barrier
  <2>2. Typing' BY <1>1, <2>1 DEF BaseInv, Typing, Places
  <2>3. Sound(dck)' /\ Sound(ck)' BY <1>1, <2>1 DEF BaseInv, Sound
  <2>4. Placed' BY <1>1, <2>1 DEF BaseInv, Placed, BeforeCall, Terminal, Accepted
  <2> QED BY <2>2, <2>3, <2>4 DEF BaseInv
<1>3. CASE Complete
  <2>1. /\ ck' \in Checkpoint /\ ck'.phase = "completed" /\ ck'.turn = turn
        /\ ck'.base = ck.base /\ ck'.asst = ck.asst /\ ck'.cursor = NoCursor
    BY <1>1, <1>3, SavedFacts DEF Complete, Phases, Terminal
  <2>2. dck' = ck' /\ pc' = "off" BY <1>3 DEF Complete
  <2>3. Len(dlog) \in Nat BY DEF BaseInv, Typing
  <2>4. Typing' BY <1>1, <2>1, <2>2 DEF BaseInv, Typing, Places
  <2>5. Sound(dck)' /\ Sound(ck)'
    BY <1>1, <2>1, <2>2, <2>3 DEF BaseInv, Sound, Accepted, ToolPhases, NoCursor
  <2>6. Placed' BY <1>1, <2>1, <2>2 DEF BaseInv, Placed, BeforeCall
  <2> QED BY <2>4, <2>5, <2>6 DEF BaseInv
<1> QED BY <1>2, <1>3

-----------------------------------------------------------------------------
(* Recovery.                                                                *)

(* Of the calls of this turn: the ids that a start behind the cursor of the *)
(* working checkpoint carries, and those that also an end carries.          *)
StartIds(S) ==
    \A id : id \in S <=> \E c \in ToolCalls, u \in Turns, d \in ToolCalls :
                            id = Id(turn, c) /\ id = Id(u, d) /\ Behind(ck, "start", u, d)
EndIds(S, E) ==
    \A id : id \in E <=> id \in S /\ \E u \in Turns, d \in ToolCalls :
                                        id = Id(u, d) /\ Behind(ck, "end", u, d)

LEMMA RecoveredFacts ==
    ASSUME BaseInv, pc = "batch"
    PROVE  \E started, ended \in Map :
              /\ Recovered = With(ended, With(ck.done, started))
              /\ StartIds(DOMAIN started) /\ EndIds(DOMAIN started, DOMAIN ended)
              /\ \A id \in DOMAIN started : started[id] = Interrupted
              /\ \A id \in DOMAIN ended : \E u \in Turns, d \in ToolCalls :
                    id = Id(u, d) /\ Behind(ck, "end", u, d) /\ ended[id] = Real(u)
<1>1. /\ ck \in Checkpoint /\ dlog \in Seq(Event) /\ turn \in Turns
      /\ ck.phase \in Accepted /\ ~ ck.asst[1].final
  BY DEF BaseInv, Typing, Placed
<1>2. ck.cursor \in Nat /\ ck.cursor <= Len(dlog)
  <2>1. ck.cursor # NoCursor /\ ck.cursor <= Len(dlog) BY <1>1 DEF BaseInv, Sound
  <2> QED BY <1>1, <2>1, CheckpointFacts
<1> DEFINE tail == SubSeq(dlog, ck.cursor + 1, Len(dlog))
           ids == {Id(turn, c) : c \in 1 .. Calls}
           starts == {tail[i].id : i \in {j \in DOMAIN tail : tail[j].kind = "start"}} \cap ids
           ends == {i \in DOMAIN tail : tail[i].kind = "end" /\ tail[i].id \in starts}
           S == [id \in starts |-> Interrupted]
           E == [id \in {tail[i].id : i \in ends} |->
                    Real(tail[CHOOSE i \in ends : tail[i].id = id].turn)]
<1>3. Recovered = With(E, With(ck.done, S)) BY DEF Recovered
<1>4. /\ \A i \in DOMAIN tail : /\ ck.cursor + i \in DOMAIN dlog /\ tail[i] = dlog[ck.cursor + i]
                                /\ tail[i] \in Event /\ ck.cursor + i > ck.cursor
      /\ \A j \in DOMAIN dlog : j > ck.cursor =>
            j - ck.cursor \in DOMAIN tail /\ tail[j - ck.cursor] = dlog[j]
  <2> DEFINE k == ck.cursor
             n == Len(dlog)
  <2>1. n \in Nat /\ k \in Nat /\ k <= n /\ DOMAIN dlog = 1..n /\ \A i \in 1..n : dlog[i] \in Event
    BY <1>1, <1>2
  <2>2. \A i \in (k + 1) .. n : dlog[i] \in Event BY <2>1
  <2>3. /\ Len(tail) = IF k + 1 <= n THEN n - (k + 1) + 1 ELSE 0
        /\ tail \in Seq(Event)
        /\ \A i \in 1 .. (n - (k + 1) + 1) : tail[i] = dlog[(k + 1) + i - 1]
    <3>1. \A a, b \in Int : (\A i \in a..b : dlog[i] \in Event) =>
             /\ SubSeq(dlog, a, b) \in Seq(Event)
             /\ Len(SubSeq(dlog, a, b)) = IF a <= b THEN b - a + 1 ELSE 0
             /\ \A i \in 1 .. (b - a + 1) : SubSeq(dlog, a, b)[i] = dlog[a + i - 1]
      BY SubSeqProperties
    <3>2. k + 1 \in Int /\ n \in Int BY <2>1
    <3> DEFINE a == k + 1
    <3>3. a \in Int /\ tail = SubSeq(dlog, a, n) /\ \A i \in a..n : dlog[i] \in Event
      BY <2>2, <3>2
    <3> HIDE DEF a, n, tail
    <3>4. /\ tail \in Seq(Event) /\ Len(tail) = IF a <= n THEN n - a + 1 ELSE 0
          /\ \A i \in 1 .. (n - a + 1) : tail[i] = dlog[a + i - 1]
      BY <3>1, <3>2, <3>3
    <3> QED BY <3>4 DEF a
  <2> HIDE DEF k, n, tail
  <2>4. DOMAIN tail = 1 .. (n - k) /\ \A i \in 1 .. (n - k) : tail[i] = dlog[k + i]
    <3>1. Len(tail) = n - k BY <2>1, <2>3
    <3>2. DOMAIN tail = 1 .. Len(tail) BY <2>3
    <3>3. n - (k + 1) + 1 = n - k /\ \A i \in 1 .. (n - k) : (k + 1) + i - 1 = k + i BY <2>1
    <3> QED BY <2>3, <3>1, <3>2, <3>3
  <2>5. \A i \in 1 .. (n - k) : k + i \in 1..n /\ k + i > k BY <2>1
  <2>6. \A j \in 1..n : j > k => j - k \in 1 .. (n - k) /\ k + (j - k) = j BY <2>1
  <2>7. \A i \in DOMAIN tail : k + i \in DOMAIN dlog /\ tail[i] = dlog[k + i]
                               /\ tail[i] \in Event /\ k + i > k
    BY <2>1, <2>4, <2>5
  <2>8. \A j \in DOMAIN dlog : j > k => j - k \in DOMAIN tail /\ tail[j - k] = dlog[j]
    BY <2>1, <2>4, <2>6
  <2> QED BY <2>7, <2>8 DEF k
<1> HIDE DEF tail
<1>5. \A i \in DOMAIN tail : \E kind \in {"start", "end"}, u \in Turns, d \in ToolCalls :
         /\ tail[i] = Ev(kind, u, d) /\ Behind(ck, kind, u, d)
         /\ tail[i].kind = kind /\ tail[i].id = Id(u, d) /\ tail[i].turn = u
  <2> SUFFICES ASSUME NEW i \in DOMAIN tail
               PROVE  \E kind \in {"start", "end"}, u \in Turns, d \in ToolCalls :
                         /\ tail[i] = Ev(kind, u, d) /\ Behind(ck, kind, u, d)
                         /\ tail[i].kind = kind /\ tail[i].id = Id(u, d) /\ tail[i].turn = u
    OBVIOUS
  <2>1. PICK kind \in {"start", "end"}, u \in Turns, d \in ToolCalls : tail[i] = Ev(kind, u, d)
    BY <1>4, EvFacts
  <2>2. Behind(ck, kind, u, d) BY <1>4, <2>1 DEF Behind
  <2>3. tail[i].kind = kind /\ tail[i].id = Id(u, d) /\ tail[i].turn = u BY <2>1, EvFacts
  <2> QED BY <2>1, <2>2, <2>3
<1>6. \A kind \in {"start", "end"}, u \in Turns, d \in ToolCalls : Behind(ck, kind, u, d) =>
         \E i \in DOMAIN tail : tail[i].kind = kind /\ tail[i].id = Id(u, d)
  BY <1>4, EvFacts DEF Behind
<1>7. StartIds(starts)
  <2>1. \A id : id \in starts <=> /\ \E i \in DOMAIN tail : tail[i].kind = "start" /\ tail[i].id = id
                                  /\ \E c \in ToolCalls : id = Id(turn, c)
    BY DEF ToolCalls
  <2>2. \A id : (\E i \in DOMAIN tail : tail[i].kind = "start" /\ tail[i].id = id)
                <=> \E u \in Turns, d \in ToolCalls : id = Id(u, d) /\ Behind(ck, "start", u, d)
    BY <1>5, <1>6
  <2> HIDE DEF starts
  <2> QED BY <2>1, <2>2 DEF StartIds
<1> HIDE DEF starts
<1>8. EndIds(starts, {tail[i].id : i \in ends})
  <2>1. \A id : id \in {tail[i].id : i \in ends} <=>
            id \in starts /\ \E i \in DOMAIN tail : tail[i].kind = "end" /\ tail[i].id = id
    OBVIOUS
  <2>2. \A id : (\E i \in DOMAIN tail : tail[i].kind = "end" /\ tail[i].id = id)
                <=> \E u \in Turns, d \in ToolCalls : id = Id(u, d) /\ Behind(ck, "end", u, d)
    BY <1>5, <1>6
  <2> HIDE DEF ends
  <2> QED BY <2>1, <2>2 DEF EndIds
<1>9. ASSUME NEW id \in {tail[i].id : i \in ends}
      PROVE  \E u \in Turns, d \in ToolCalls :
                id = Id(u, d) /\ Behind(ck, "end", u, d) /\ E[id] = Real(u)
  <2> DEFINE last == CHOOSE i \in ends : tail[i].id = id
  <2>1. last \in ends /\ tail[last].id = id
    <3>1. \E i \in ends : tail[i].id = id BY <1>9
    <3> HIDE DEF ends
    <3> QED BY <3>1
  <2>2. E[id] = Real(tail[last].turn) BY <1>9
  <2>3. last \in DOMAIN tail /\ tail[last].kind = "end" BY <2>1
  <2> HIDE DEF last, E, ends
  <2> QED BY <1>5, <2>1, <2>2, <2>3
<1>10. starts \in SUBSET TurnIds /\ {tail[i].id : i \in ends} \in SUBSET TurnIds
  <2>1. starts \in SUBSET TurnIds BY <1>1, <1>7, IdFacts DEF StartIds
  <2> HIDE DEF ends
  <2>2. {tail[i].id : i \in ends} \subseteq starts BY <1>8 DEF EndIds
  <2> QED BY <2>1, <2>2
<1>11. S \in Map
  <2>1. S \in [starts -> ResultSet] BY ResultFacts
  <2> QED BY <1>10, <2>1, MakeMap
<1>12. E \in Map /\ DOMAIN E = {tail[i].id : i \in ends}
  <2> DEFINE D == {tail[i].id : i \in ends}
  <2>1. ASSUME NEW id \in D PROVE E[id] \in ResultSet
    <3>1. PICK u \in Turns : E[id] = Real(u) BY <1>9
    <3> HIDE DEF E
    <3> QED BY <3>1, ResultFacts
  <2>2. DOMAIN E = D OBVIOUS
  <2>3. E = [id \in D |-> E[id]] OBVIOUS
  <2> HIDE DEF D, E
  <2>4. E \in [D -> ResultSet] BY <2>1, <2>2, <2>3
  <2>5. D \in SUBSET TurnIds BY <1>10 DEF D
  <2>6. E \in Map BY <2>4, <2>5, MakeMap
  <2> QED BY <2>2, <2>6 DEF D
<1>13. DOMAIN S = starts /\ \A id \in starts : S[id] = Interrupted OBVIOUS
<1> HIDE DEF S, E, ends
<1> QED BY <1>3, <1>7, <1>8, <1>9, <1>11, <1>12, <1>13

LEMMA RecoveredKnows ==
    ASSUME BaseInv, pc = "batch"
    PROVE  /\ Recovered \in Map /\ DOMAIN ck.done \subseteq DOMAIN Recovered
           /\ \A c \in ToolCalls : Behind(ck, "start", turn, c) => Id(turn, c) \in DOMAIN Recovered
<1>1. PICK started, ended \in Map : /\ Recovered = With(ended, With(ck.done, started))
                                    /\ StartIds(DOMAIN started)
  BY RecoveredFacts
<1>2. ck.done \in Map /\ turn \in Turns BY CheckpointFacts DEF BaseInv, Typing
<1> DEFINE known == With(ck.done, started)
<1>3. known \in Map /\ DOMAIN known = DOMAIN ck.done \cup DOMAIN started BY <1>2, WithMap
<1>4. Recovered = With(ended, known) BY <1>1
<1> HIDE DEF known
<1>5. Recovered \in Map /\ DOMAIN Recovered = DOMAIN ended \cup DOMAIN known
  BY <1>3, <1>4, WithMap
<1>6. \A c \in ToolCalls : Behind(ck, "start", turn, c) => Id(turn, c) \in DOMAIN started
  BY <1>1, <1>2 DEF StartIds
<1> QED BY <1>3, <1>5, <1>6

-----------------------------------------------------------------------------
(* The steps of the tool batch.                                             *)

LEMMA StartBatchStep ==
    ASSUME BaseInv, StartBatch
    PROVE  \E done \in Map :
              /\ done = IF resumed THEN Recovered ELSE EmptyMap
              /\ ~ resumed => ck.phase = "assistant_appended"
              /\ batch' \in Batch /\ batch'.done = done /\ batch'.open = {}
              /\ batch'.todo = {c \in ToolCalls : Id(turn, c) \notin DOMAIN done}
              /\ ck' \in Checkpoint /\ ck'.phase \in ToolPhases /\ ck'.turn = turn
              /\ ck'.base = ck.base /\ ck'.asst = ck.asst
              /\ ck'.cursor \in {ck.cursor, Len(dlog)}
              /\ \/ ck' = ck /\ resumed /\ batch'.todo = {}
                 \/ ck'.done = done
              /\ done # EmptyMap => ck'.cursor = ck.cursor
              /\ UNCHANGED <<dck, dlog, dproj, sess, turn, resumed, queue, notes, ran>>
              /\ pc' = "tools"
<1>1. /\ ck \in Checkpoint /\ dlog \in Seq(Event) /\ turn \in Turns /\ ck.turn = turn
      /\ pc = "batch" /\ (~ resumed => ck.phase = "assistant_appended") /\ resumed \in BOOLEAN
  BY DEF BaseInv, Typing, Placed, StartBatch
<1> DEFINE done == IF resumed THEN Recovered ELSE EmptyMap
           missing == {c \in ToolCalls : Id(turn, c) \notin DOMAIN done}
           replay == resumed /\ ck.phase = "tool_results_appended"
           entered == [ck EXCEPT !.done = done,
                                 !.phase = IF missing = {} THEN "tool_batch_pending"
                                           ELSE "tool_executing",
                                 !.cursor = IF done = EmptyMap THEN Len(dlog) ELSE @]
<1>2. done \in Map BY <1>1, RecoveredKnows, EmptyIsMap
<1>3. ResumingTurn <=> resumed BY <1>1 DEF ResumingTurn
<1>4. /\ batch' = [NoBatch EXCEPT !.todo = missing, !.done = done, !.replay = replay]
      /\ ck' = IF replay /\ missing = {} THEN ck ELSE entered
  BY <1>3 DEF StartBatch, ToolCalls
<1>5. pc' = "tools" /\ UNCHANGED <<dck, dlog, dproj, sess, turn, resumed, queue, notes, ran>>
  BY DEF StartBatch, durable
<1>6. replay \in BOOLEAN /\ missing \in SUBSET ToolCalls BY <1>1
<1>7. Len(dlog) \in Nat BY <1>1
<1> HIDE DEF done, missing, replay
<1>8. batch' \in Batch /\ batch'.done = done /\ batch'.open = {} /\ batch'.todo = missing
  BY <1>2, <1>4, <1>6 DEF Batch, NoBatch
<1>9. /\ entered \in Checkpoint /\ entered.phase \in ToolPhases /\ entered.turn = ck.turn
      /\ entered.base = ck.base /\ entered.asst = ck.asst /\ entered.done = done
      /\ entered.cursor = IF done = EmptyMap THEN Len(dlog) ELSE ck.cursor
  BY <1>1, <1>2, <1>7 DEF Checkpoint, ToolPhases, Phases, Accepted
<1> HIDE DEF entered
<1>10. replay => resumed /\ ck.phase \in ToolPhases BY DEF replay, ToolPhases
<1> WITNESS done \in Map
<1> QED BY <1>1, <1>4, <1>5, <1>8, <1>9, <1>10 DEF done, missing

LEMMA StartToolStep ==
    ASSUME BaseInv, NEW c \in ToolCalls, StartTool(c)
    PROVE  /\ pc = "tools" /\ c \in batch.todo /\ dck' = ck
           /\ dlog' = Append(dlog, Ev("start", turn, c))
           /\ batch' \in Batch /\ batch'.todo = batch.todo \ {c}
           /\ batch'.open = batch.open \cup {c} /\ batch'.over = batch.over
           /\ batch'.done = With(batch.done, Only(Id(turn, c), Interrupted))
           /\ UNCHANGED <<dproj, sess, pc, ck, turn, resumed, queue, notes, ran>>
<1>1. batch \in Batch /\ turn \in Turns BY DEF BaseInv, Typing
<1> DEFINE done == With(batch.done, Only(Id(turn, c), Interrupted))
<1>2. done \in Map
  <2>1. batch.done \in Map BY <1>1 DEF Batch
  <2> QED BY <1>1, <2>1, OnlyMap, WithMap, ResultFacts
<1>3. PICK lane \in {"start", "run"} :
         batch' = [batch EXCEPT !.todo = @ \ {c}, !.open = @ \cup {c}, !.lane = lane, !.done = done]
  BY DEF StartTool
<1>4. dlog' = Append(dlog, Ev("start", turn, c)) BY DEF StartTool, ToolEvent, Ev
<1> HIDE DEF done
<1>5. /\ batch' \in Batch /\ batch'.todo = batch.todo \ {c} /\ batch'.open = batch.open \cup {c}
      /\ batch'.over = batch.over /\ batch'.done = done
  BY <1>1, <1>2, <1>3 DEF Batch
<1> QED BY <1>4, <1>5 DEF StartTool, Barrier, First, done

LEMMA EndToolStep ==
    ASSUME BaseInv, NEW c \in ToolCalls, EndTool(c)
    PROVE  /\ pc = "tools" /\ c \in batch.open /\ dck' = ck
           /\ dlog' = Append(dlog, Ev("end", turn, c))
           /\ batch' \in Batch /\ batch'.todo = batch.todo
           /\ batch'.open = batch.open \ {c} /\ batch'.over = batch.over
           /\ batch'.done = With(Only(Id(turn, c), Real(turn)), batch.done)
           /\ UNCHANGED <<dproj, sess, pc, ck, turn, resumed, queue, notes, ran>>
<1>1. batch \in Batch /\ turn \in Turns BY DEF BaseInv, Typing
<1> DEFINE done == With(Only(Id(turn, c), Real(turn)), batch.done)
<1>2. done \in Map
  <2>1. batch.done \in Map BY <1>1 DEF Batch
  <2> QED BY <1>1, <2>1, OnlyMap, WithMap, ResultFacts
<1>3. PICK lane \in {"start", "run"} :
         batch' = [batch EXCEPT !.open = @ \ {c}, !.lane = lane, !.done = done]
  BY DEF EndTool
<1>4. dlog' = Append(dlog, Ev("end", turn, c)) BY DEF EndTool, ToolEvent, Ev
<1> HIDE DEF done
<1>5. /\ batch' \in Batch /\ batch'.todo = batch.todo /\ batch'.open = batch.open \ {c}
      /\ batch'.over = batch.over /\ batch'.done = done
  BY <1>1, <1>2, <1>3 DEF Batch
<1> QED BY <1>4, <1>5 DEF EndTool, Barrier, First, done

LEMMA RunToolStep ==
    ASSUME BaseInv, NEW c \in ToolCalls, RunTool(c)
    PROVE  /\ pc = "tools" /\ c \in batch.open \ batch.over
           /\ ran' = [ran EXCEPT ![turn][c] = @ + 1] /\ ran' \in [Turns -> [ToolCalls -> Nat]]
           /\ batch' \in Batch /\ batch'.todo = batch.todo /\ batch'.open = batch.open
           /\ batch'.over = batch.over \cup {c} /\ batch'.done = batch.done
           /\ UNCHANGED <<dck, dlog, dproj, sess, pc, ck, turn, resumed, queue, notes>>
<1>1. batch \in Batch /\ turn \in Turns /\ ran \in [Turns -> [ToolCalls -> Nat]]
  BY DEF BaseInv, Typing
<1>2. /\ ran' = [ran EXCEPT ![turn][c] = @ + 1]
      /\ batch' = [batch EXCEPT !.over = @ \cup {c}] /\ c \in batch.open \ batch.over
  BY DEF RunTool
<1>3. /\ batch' \in Batch /\ batch'.todo = batch.todo /\ batch'.open = batch.open
      /\ batch'.over = batch.over \cup {c} /\ batch'.done = batch.done
  BY <1>1, <1>2 DEF Batch
<1>4. ran' \in [Turns -> [ToolCalls -> Nat]] BY <1>1, <1>2
<1> QED BY <1>2, <1>3, <1>4 DEF RunTool, durable

LEMMA SavedResultsFacts ==
    ASSUME ck \in Checkpoint, batch \in Batch, turn \in Turns
    PROVE  /\ SavedResults \in Checkpoint /\ SavedResults.phase = "tool_results_appended"
           /\ SavedResults.turn = turn /\ SavedResults.done = batch.done
           /\ SavedResults.base = ck.base /\ SavedResults.asst = ck.asst
           /\ SavedResults.cursor = ck.cursor
<1> DEFINE saved == Saved("tool_results_appended", turn)
<1>1. "tool_results_appended" \in Phases BY DEF Phases, Accepted
<1>2. saved \in Checkpoint /\ saved.phase = "tool_results_appended"
      /\ saved.turn = turn /\ saved.base = ck.base /\ saved.asst = ck.asst
      /\ saved.cursor = ck.cursor
  BY <1>1, SavedFacts
<1>3. SavedResults = [saved EXCEPT !.done = batch.done] BY DEF SavedResults
<1>4. batch.done \in Map BY DEF Batch
<1> HIDE DEF saved
<1> QED BY <1>2, <1>3, <1>4 DEF Checkpoint

LEMMA BatchBase ==
    ASSUME BaseInv, StartBatch \/ \E c \in 1 .. Calls : StartTool(c) \/ RunTool(c) \/ EndTool(c)
    PROVE  BaseInv'
<1>1. /\ dck \in Checkpoint /\ ck \in Checkpoint /\ dlog \in Seq(Event) /\ sess \in Seq(Message)
      /\ turn \in Turns /\ batch \in Batch /\ Len(dlog) \in Nat
      /\ Sound(ck) /\ Sound(dck)
  BY DEF BaseInv, Typing
<1>2. CASE StartBatch
  <2>1. PICK done \in Map :
              /\ batch' \in Batch /\ batch'.done = done
              /\ batch'.todo = {c \in ToolCalls : Id(turn, c) \notin DOMAIN done}
              /\ ck' \in Checkpoint /\ ck'.phase \in ToolPhases /\ ck'.turn = turn
              /\ ck'.base = ck.base /\ ck'.asst = ck.asst
              /\ ck'.cursor \in {ck.cursor, Len(dlog)}
              /\ UNCHANGED <<dck, dlog, dproj, sess, turn, resumed, queue, notes, ran>>
              /\ pc' = "tools"
    BY <1>2, StartBatchStep
  <2>2. /\ ck.phase \in Accepted /\ ck.turn = turn /\ ~ ck.asst[1].final /\ ck.cursor # NoCursor
        /\ ck.asst # <<>> /\ ck.asst[1].turn = turn /\ ck.asst[1].turn < MaxTurn
        /\ ck.cursor <= Len(dlog) /\ ck.base <= Len(sess)
    BY <1>2 DEF BaseInv, Placed, Sound, StartBatch
  <2>3. ck'.cursor # NoCursor /\ ck'.cursor <= Len(dlog) BY <1>1, <2>1, <2>2 DEF NoCursor
  <2>4. ck'.phase \notin {"turn_complete", "provider_pending"} \cup Terminal
    BY <2>1 DEF ToolPhases, Terminal
  <2>5. Typing' BY <2>1 DEF BaseInv, Typing, Places
  <2>6. Sound(dck)' BY <1>1, <2>1 DEF Sound
  <2>7. Sound(ck)' BY <2>1, <2>2, <2>3, <2>4 DEF Sound
  <2>8. Placed' BY <2>1, <2>4 DEF BaseInv, Placed, BeforeCall
  <2> QED BY <2>5, <2>6, <2>7, <2>8 DEF BaseInv
<1>3. ASSUME NEW c \in ToolCalls, StartTool(c) \/ EndTool(c)
      PROVE  BaseInv'
  <2>1. /\ pc = "tools" /\ dck' = ck /\ batch' \in Batch
        /\ \E kind \in {"start", "end"} : dlog' = Append(dlog, Ev(kind, turn, c))
        /\ UNCHANGED <<dproj, sess, pc, ck, turn, resumed, queue, notes, ran>>
        /\ batch'.todo \in {batch.todo, batch.todo \ {c}}
        /\ c \in batch.todo => Id(turn, c) \in DOMAIN batch'.done \/ c \in batch'.todo
        /\ DOMAIN batch.done \subseteq DOMAIN batch'.done
    <3>1. batch.done \in Map BY <1>1 DEF Batch
    <3>2. \A result \in ResultSet : Only(Id(turn, c), result) \in Map
                                    /\ DOMAIN Only(Id(turn, c), result) = {Id(turn, c)}
      BY <1>1, OnlyMap
    <3>3. ASSUME NEW result \in ResultSet
          PROVE  /\ DOMAIN With(batch.done, Only(Id(turn, c), result))
                       = DOMAIN batch.done \cup {Id(turn, c)}
                 /\ DOMAIN With(Only(Id(turn, c), result), batch.done)
                       = DOMAIN batch.done \cup {Id(turn, c)}
      <4> DEFINE f == batch.done
                 g == Only(Id(turn, c), result)
      <4>1. f \in Map /\ g \in Map /\ DOMAIN g = {Id(turn, c)} BY <3>1, <3>2
      <4> HIDE DEF f, g
      <4>2. DOMAIN With(f, g) = DOMAIN f \cup DOMAIN g BY <4>1, WithMap
      <4>3. DOMAIN With(g, f) = DOMAIN g \cup DOMAIN f BY <4>1, WithMap
      <4> QED BY <4>1, <4>2, <4>3 DEF f, g
    <3>4. CASE StartTool(c) BY <1>1, <3>3, <3>4, StartToolStep, ResultFacts
    <3>5. CASE EndTool(c) BY <1>1, <3>3, <3>5, EndToolStep, ResultFacts
    <3> QED BY <1>3, <3>4, <3>5
  <2>2. dlog' \in Seq(Event) /\ Len(dlog') = Len(dlog) + 1 BY <1>1, <2>1, LogGrows
  <2>3. dck.cursor \in Int /\ ck.cursor \in Int BY <1>1, CheckpointFacts
  <2>4. Typing' BY <2>1, <2>2 DEF BaseInv, Typing
  <2>5. Sound(ck)' BY <1>1, <2>1, <2>2, <2>3 DEF Sound
  <2>6. Sound(dck)' BY <2>1, <2>5 DEF Sound
  <2>7. Placed' BY <2>1 DEF BaseInv, Placed, BeforeCall
  <2> QED BY <2>4, <2>5, <2>6, <2>7 DEF BaseInv
<1>4. ASSUME NEW c \in ToolCalls, RunTool(c)
      PROVE  BaseInv'
  <2>1. /\ pc = "tools" /\ ran' \in [Turns -> [ToolCalls -> Nat]]
        /\ batch' \in Batch /\ batch'.todo = batch.todo /\ batch'.done = batch.done
        /\ UNCHANGED <<dck, dlog, dproj, sess, pc, ck, turn, resumed, queue, notes>>
    BY <1>4, RunToolStep
  <2>2. Typing' BY <2>1 DEF BaseInv, Typing
  <2>3. Sound(dck)' /\ Sound(ck)' BY <1>1, <2>1 DEF Sound
  <2>4. Placed' BY <2>1 DEF BaseInv, Placed, BeforeCall
  <2> QED BY <2>2, <2>3, <2>4 DEF BaseInv
<1> QED BY <1>2, <1>3, <1>4 DEF ToolCalls

LEMMA EndBatchStep ==
    ASSUME BaseInv, EndBatch
    PROVE  /\ pc = "tools" /\ batch.todo = {} /\ batch.open = {}
           /\ \/ ck' = SavedResults /\ dck' = dck /\ pc' = "next" /\ resumed
              \/ dck' = ck /\ ck' = ck /\ pc' = "append_results"
           /\ UNCHANGED <<dlog, dproj, sess, turn, resumed, batch, queue, notes, ran>>
BY DEF EndBatch, Barrier, ResumingTurn

LEMMA AppendResultsStep ==
    ASSUME BaseInv, AppendResults
    PROVE  /\ pc = "append_results" /\ ck' = SavedResults /\ dck' = dck /\ pc' = "next"
           /\ sess' = Append(sess, BatchResults)
           /\ BatchResults \in ResultsMessage /\ BatchResults.turn = turn
           /\ \A c \in ToolCalls : /\ Id(turn, c) \in DOMAIN BatchResults.done
                                   /\ BatchResults.done[Id(turn, c)] = batch.done[Id(turn, c)]
           /\ UNCHANGED <<dlog, dproj, turn, resumed, batch, queue, notes, ran>>
<1>1. batch \in Batch /\ turn \in Turns BY DEF BaseInv, Typing
<1>2. batch.done \in Map BY <1>1 DEF Batch
<1>3. \A c \in ToolCalls : Id(turn, c) \in DOMAIN batch.done
  BY DEF AppendResults, BaseInv, Placed
<1> DEFINE ids == {Id(turn, c) : c \in 1 .. Calls}
           done == [id \in ids |-> batch.done[id]]
<1>4. ids \in SUBSET TurnIds BY <1>1, IdFacts DEF ToolCalls
<1>5. \A id \in ids : id \in DOMAIN batch.done BY <1>3 DEF ToolCalls
<1>6. done \in [ids -> ResultSet] BY <1>2, <1>5, MapFacts
<1>7. done \in Map BY <1>4, <1>6, MakeMap
<1>8. \A c \in ToolCalls : Id(turn, c) \in ids BY DEF ToolCalls
<1>9. BatchResults = Results(turn, done) BY DEF BatchResults
<1>10. DOMAIN done = ids /\ \A id \in ids : done[id] = batch.done[id] OBVIOUS
<1> HIDE DEF done, ids
<1>11. BatchResults \in ResultsMessage /\ BatchResults.turn = turn /\ BatchResults.done = done
  BY <1>1, <1>7, <1>9, MessageFacts
<1> QED BY <1>8, <1>10, <1>11 DEF AppendResults

LEMMA ResultsBase ==
    ASSUME BaseInv, EndBatch \/ AppendResults \/ CompleteTurn
    PROVE  BaseInv'
<1>1. /\ dck \in Checkpoint /\ ck \in Checkpoint /\ dlog \in Seq(Event) /\ sess \in Seq(Message)
      /\ turn \in Turns /\ batch \in Batch /\ Len(dlog) \in Nat /\ Len(sess) \in Nat
      /\ Sound(ck) /\ Sound(dck) /\ dck.base \in Nat /\ ck.base \in Nat
  BY CheckpointFacts DEF BaseInv, Typing
<1>2. ck.phase \in ToolPhases /\ ck.turn = turn /\ ck.phase \in Accepted
  BY DEF EndBatch, AppendResults, CompleteTurn, BaseInv, Placed, ToolPhases, Accepted
<1>3. /\ ck.asst # <<>> /\ ck.asst[1].turn = turn /\ ck.cursor # NoCursor /\ ~ ck.asst[1].final
      /\ turn < MaxTurn
  BY <1>1, <1>2 DEF Sound
<1>4. ASSUME ck' = SavedResults, dck' = dck, pc' = "next", sess' \in Seq(Message),
             Len(sess') >= Len(sess),
             UNCHANGED <<dlog, dproj, turn, resumed, batch, queue, notes, ran>>
      PROVE  BaseInv'
  <2>1. /\ ck' \in Checkpoint /\ ck'.phase = "tool_results_appended" /\ ck'.turn = turn
        /\ ck'.base = ck.base /\ ck'.asst = ck.asst /\ ck'.cursor = ck.cursor
    BY <1>1, <1>4, SavedResultsFacts
  <2>2. Typing' BY <1>4, <2>1 DEF BaseInv, Typing, Places
  <2>3. Sound(dck)' BY <1>1, <1>4 DEF Sound
  <2>4. Sound(ck)' BY <1>1, <1>2, <1>3, <1>4, <2>1 DEF Sound, Accepted, ToolPhases
  <2>5. Placed' BY <1>4, <2>1 DEF BaseInv, Placed, BeforeCall, Terminal, ToolPhases
  <2> QED BY <2>2, <2>3, <2>4, <2>5 DEF BaseInv
<1>5. CASE EndBatch
  <2>1. CASE ck' = SavedResults /\ dck' = dck /\ pc' = "next"
    BY <1>1, <1>4, <1>5, <2>1, EndBatchStep
  <2>2. CASE dck' = ck /\ ck' = ck /\ pc' = "append_results"
    <3>1. UNCHANGED <<dlog, dproj, sess, turn, resumed, batch, queue, notes, ran>>
          /\ pc = "tools" /\ batch.todo = {}
      BY <1>5, EndBatchStep
    <3>2. Typing' BY <2>2, <3>1 DEF BaseInv, Typing, Places
    <3>3. Sound(dck)' /\ Sound(ck)' BY <1>1, <2>2, <3>1 DEF Sound
    <3>4. Placed' BY <1>2, <2>2, <3>1 DEF BaseInv, Placed, BeforeCall
    <3> QED BY <3>2, <3>3, <3>4 DEF BaseInv
  <2> QED BY <1>5, <2>1, <2>2, EndBatchStep
<1>6. CASE AppendResults
  <2>1. /\ ck' = SavedResults /\ dck' = dck /\ pc' = "next"
        /\ sess' = Append(sess, BatchResults) /\ BatchResults \in Message
        /\ UNCHANGED <<dlog, dproj, turn, resumed, batch, queue, notes, ran>>
    BY <1>6, AppendResultsStep, MessageFacts
  <2>2. sess' \in Seq(Message) /\ Len(sess') = Len(sess) + 1 BY <1>1, <2>1, HistoryGrows
  <2>3. Len(sess') >= Len(sess) BY <1>1, <2>2
  <2> QED BY <1>4, <2>1, <2>2, <2>3
<1>7. CASE CompleteTurn
  <2>1. /\ ck' \in Checkpoint /\ ck'.phase = "turn_complete" /\ ck'.turn = turn
        /\ ck'.base = ck.base /\ ck'.asst = ck.asst /\ ck'.cursor = NoCursor
    BY <1>1, <1>7, SavedFacts DEF CompleteTurn, Phases
  <2>2. /\ turn' = turn + 1 /\ batch' = NoBatch /\ pc' = "top"
        /\ UNCHANGED <<dck, dlog, dproj, sess, resumed, queue, notes, ran>>
    BY <1>7 DEF CompleteTurn, durable
  <2>3. batch' \in Batch BY <2>2, EmptyIsMap DEF NoBatch, Batch
  <2>4. turn' \in Turns BY <1>1, <1>3, <2>2, ConstantFacts
  <2>5. Typing' BY <2>1, <2>2, <2>3, <2>4 DEF BaseInv, Typing, Places
  <2>6. Sound(dck)' BY <1>1, <2>2 DEF Sound
  <2>7. Sound(ck)' BY <1>1, <1>3, <2>1, <2>2 DEF Sound, Accepted, ToolPhases, NoCursor
  <2>8. Placed' BY <2>1, <2>2 DEF BaseInv, Placed, BeforeCall, Terminal
  <2> QED BY <2>5, <2>6, <2>7, <2>8 DEF BaseInv
<1> QED BY <1>5, <1>6, <1>7

LEMMA HostBase ==
    ASSUME BaseInv, Resume \/ Crash \/ Close
    PROVE  BaseInv'
<1>1. /\ dck \in Checkpoint /\ ck \in Checkpoint /\ dlog \in Seq(Event) /\ sess \in Seq(Message)
      /\ Len(dlog) \in Nat /\ Len(sess) \in Nat /\ Sound(ck) /\ Sound(dck)
  BY DEF BaseInv, Typing
<1>2. NoBatch \in Batch BY EmptyIsMap DEF NoBatch, Batch
<1>3. CASE Resume
  <2>1. /\ dck.phase \notin Terminal /\ ck' = dck /\ resumed' = TRUE /\ batch' = NoBatch
        /\ turn' = (IF dck.phase = "turn_complete" THEN dck.turn + 1 ELSE dck.turn)
        /\ pc' = (IF dck.phase = "started" THEN "startup" ELSE "reconcile")
        /\ UNCHANGED <<dck, dlog, dproj, sess, queue, notes, ran>>
    BY <1>3 DEF Resume, durable
  <2>2. turn' \in Turns
    <3>1. dck.turn \in Turns /\ (dck.phase = "turn_complete" => dck.turn < MaxTurn)
      BY <1>1, CheckpointFacts DEF Sound
    <3> QED BY <2>1, <3>1, ConstantFacts
  <2>3. Typing' BY <1>2, <2>1, <2>2 DEF BaseInv, Typing, Places
  <2>4. Sound(dck)' /\ Sound(ck)' BY <1>1, <2>1 DEF Sound
  <2>5. Placed' BY <2>1 DEF BaseInv, Placed, BeforeCall
  <2> QED BY <2>3, <2>4, <2>5 DEF BaseInv
<1>4. CASE Crash \/ Close
  <2>1. /\ dck' \in {dck, ck} /\ ck' = Started /\ turn' = 0 /\ resumed' = FALSE /\ pc' = "off"
        /\ batch' = NoBatch /\ queue' = 0 /\ UNCHANGED <<dlog, dproj, sess, notes, ran>>
    BY <1>4 DEF Crash, Close, Stopped, Barrier
  <2>2. queue' \in 0 .. notes BY <2>1 DEF BaseInv, Typing
  <2>3. Typing' BY <1>1, <1>2, <2>1, <2>2, StartedFacts, ConstantFacts DEF BaseInv, Typing, Places
  <2>4. Sound(dck)' BY <1>1, <2>1 DEF Sound
  <2>5. Sound(ck)' BY <1>1, <2>1, StartedFacts DEF Sound, Accepted, ToolPhases, NoCursor
  <2>6. Placed' BY <2>1 DEF BaseInv, Placed, BeforeCall
  <2> QED BY <2>3, <2>4, <2>5, <2>6 DEF BaseInv
<1> QED BY <1>3, <1>4

LEMMA TurnCases ==
    ASSUME [Next]_vars
    PROVE  \/ Startup \/ AppendPrompt \/ Reconcile \/ DrainNote \/ AppendNote \/ Notify
           \/ ReplayTurn \/ BindPrimary \/ AcceptPrimary \/ AppendAssistant
           \/ Finalize \/ Complete
           \/ StartBatch \/ (\E c \in 1 .. Calls : StartTool(c) \/ RunTool(c) \/ EndTool(c))
           \/ EndBatch \/ AppendResults \/ CompleteTurn
           \/ Resume \/ Crash \/ Close
           \/ UNCHANGED vars
BY DEF Next, Loop, Over

LEMMA BaseStep ==
    ASSUME BaseInv, [Next]_vars
    PROVE  BaseInv'
<1>1. CASE UNCHANGED vars
  <2>1. Typing' BY <1>1 DEF BaseInv, Typing, vars, durable, attempt
  <2>2. Sound(dck)' /\ Sound(ck)' BY <1>1 DEF BaseInv, Sound, vars, durable, attempt
  <2>3. Placed' BY <1>1 DEF BaseInv, Placed, vars, durable, attempt
  <2> QED BY <2>1, <2>2, <2>3 DEF BaseInv
<1> QED
  BY <1>1, TurnCases, StartupBase, ReconcileBase, NoteBase, ReplayTurnBase, BindPrimaryBase,
     AcceptPrimaryBase, AppendAssistantBase, FinalBase, BatchBase, ResultsBase, HostBase

LEMMA BaseAlways == Spec => []BaseInv
<1> QED BY InitBase, BaseStep, PTL DEF Spec

LEMMA BaseIsTyped == BaseInv => TypeOK
<1> SUFFICES ASSUME BaseInv PROVE TypeOK OBVIOUS
<1>1. ASSUME NEW k \in Checkpoint, Sound(k)
      PROVE  CheckpointOK(k)
  <2>1. /\ k.phase \in Phases /\ k.turn \in Turns /\ k.done \in Map
        /\ k.cursor \in {NoCursor} \cup Nat /\ k.base \in Nat
    BY <1>1, CheckpointFacts
  <2>2. DOMAIN k.done \subseteq TurnIds /\ ToSet(k.done) \subseteq ResultSet
    BY <2>1, MapFacts DEF ToSet
  <2>3. Len(dlog) \in Nat /\ Len(sess) \in Nat BY DEF BaseInv, Typing
  <2>4. k.cursor \in {NoCursor} \cup 0 .. Len(dlog) /\ k.base \in 0 .. Len(sess)
    BY <1>1, <2>1, <2>3 DEF Sound
  <2>5. k.phase \in {"tool_executing", "tool_results_appended"} => k.cursor # NoCursor
    BY <1>1 DEF Sound, Accepted, ToolPhases
  <2> QED BY <2>1, <2>2, <2>4, <2>5 DEF CheckpointOK, Turns
<1>2. Len(dproj) <= 1
  <2>1. dproj \in Single(AssistantMessage) BY DEF BaseInv, Typing
  <2>2. Len(dproj) \in {0, 1} BY <2>1, SingleFacts
  <2>3. \A n \in {0, 1} : n <= 1 OBVIOUS
  <2> QED BY <2>2, <2>3
<1>3. batch.todo \cup batch.open \cup batch.over \subseteq 1 .. Calls
  BY DEF BaseInv, Typing, Batch, ToolCalls
<1>4. turn \in 0 .. MaxTurn /\ queue \in 0 .. MaxNotes
  <2>1. turn \in Turns /\ notes \in 0 .. MaxNotes /\ queue \in 0 .. notes BY DEF BaseInv, Typing
  <2> QED BY <2>1, ConstantFacts DEF Turns
<1>5. CheckpointOK(dck) /\ CheckpointOK(ck) BY <1>1 DEF BaseInv, Typing
<1> QED BY <1>2, <1>3, <1>4, <1>5 DEF TypeOK

(* Both checkpoints are well formed: their cursor and history boundary lie  *)
(* within the logs they point into, whatever the loop, a crash or a close   *)
(* does, and a checkpoint a tool batch is recovered from has its cursor     *)
(* (save_checkpoint, _require_tool_recovery_cursor).                        *)
THEOREM TurnTypeCorrect == Spec => []TypeOK
BY BaseAlways, BaseIsTyped, PTL

-----------------------------------------------------------------------------
(* No call starts twice.                                                    *)

(* How the working checkpoint moves outside the tool batch.                 *)
Advance ==
    \/ ck' = ck
    \/ /\ ck'.phase \notin ToolPhases /\ ck'.done = ck.done
       /\ \/ ck.turn < ck'.turn
          \/ /\ ck'.turn = ck.turn
             /\ \/ ck'.phase \in {"turn_complete"} \cup Terminal
                \/ ck.phase \notin {"turn_complete"} \cup Terminal \cup ToolPhases

(* The steps of the attempt outside the tool batch.                         *)
QuietStep ==
    \/ Startup \/ AppendPrompt \/ Reconcile \/ DrainNote \/ AppendNote
    \/ ReplayTurn \/ BindPrimary \/ AcceptPrimary \/ AppendAssistant
    \/ Finalize \/ Complete \/ CompleteTurn

LEMMA QuietFacts ==
    ASSUME BaseInv, QuietStep
    PROVE  /\ UNCHANGED <<dlog, ran>> /\ Advance /\ dck' \in {dck, ck, ck'}
           /\ pc # "off" /\ pc' \notin {"tools", "append_results"}
           /\ batch' \in {batch, NoBatch}
           /\ \/ sess' = sess
              \/ \E m \in Message : m.kind # "results" /\ sess' = Append(sess, m)
<1>1. /\ ck \in Checkpoint /\ dlog \in Seq(Event) /\ sess \in Seq(Message) /\ turn \in Turns
      /\ dproj \in Single(AssistantMessage) /\ ck.turn \in Turns
  BY CheckpointFacts DEF BaseInv, Typing
<1>2. Turns \subseteq Nat BY ConstantFacts
<1>3. CASE Startup \/ AppendPrompt
  <2>1. ck.phase = "started" BY <1>3 DEF BaseInv, Placed, Startup, AppendPrompt
  <2>2. ck' = ck \/ ck' = Saved("user_appended", ck.turn) BY <1>3 DEF Startup, AppendPrompt
  <2>3. ck' # ck => ck'.phase = "user_appended" /\ ck'.turn = ck.turn /\ ck'.done = ck.done
    BY <1>1, <2>2, SavedFacts DEF Phases
  <2>4. Advance BY <2>1, <2>3 DEF Advance, ToolPhases, Terminal
  <2> QED BY <1>3, <2>4, MessageFacts DEF Startup, AppendPrompt, Barrier
<1>4. CASE Reconcile
  <2>1. CASE ck' = ck BY <1>4, <2>1 DEF Reconcile, Advance
  <2>2. CASE ck' = [ck EXCEPT !.phase = "failed"] /\ dck' = ck' /\ pc' = "off"
    <3>1. ck'.phase = "failed" /\ ck'.turn = ck.turn /\ ck'.done = ck.done
      BY <1>1, <2>2 DEF Checkpoint
    <3>2. Advance BY <3>1 DEF Advance, ToolPhases, Terminal
    <3> QED BY <1>4, <2>2, <3>2 DEF Reconcile
  <2>3. CASE /\ ck' = SavedAssistant(Suffix[1]) /\ UNCHANGED dck /\ pc' = "top"
             /\ ck.phase = "provider_pending" /\ Suffix # <<>> /\ IsPrefix(Suffix, dproj)
    <3>1. dproj # <<>> /\ Suffix[1] = dproj[1] BY <2>3, SuffixIsAccepted
    <3>2. dproj[1] \in AssistantMessage /\ dproj[1].turn = ck.turn
      BY <1>1, <2>3, <3>1, SingleFacts DEF BaseInv, Sound
    <3>3. ck'.phase = "assistant_appended" /\ ck'.turn = ck.turn /\ ck'.done = ck.done
      BY <1>1, <2>3, <3>1, <3>2, SavedAssistantFacts
    <3>4. Advance BY <2>3, <3>3 DEF Advance, ToolPhases, Terminal
    <3> QED BY <1>4, <2>3, <3>4 DEF Reconcile
  <2> QED BY <1>4, <2>1, <2>2, <2>3 DEF Reconcile
<1>5. CASE DrainNote \/ AppendNote \/ ReplayTurn \/ Finalize
  BY <1>5, MessageFacts
     DEF DrainNote, AppendNote, ReplayTurn, Finalize, Barrier, Advance, durable
<1>6. CASE BindPrimary
  <2> DEFINE saved == Saved("provider_pending", turn)
  <2>1. saved \in Checkpoint /\ saved.phase = "provider_pending" /\ saved.turn = turn
        /\ saved.done = ck.done
    BY <1>1, SavedFacts DEF Phases
  <2>2. ck' = [saved EXCEPT !.base = Len(sess)] /\ dck' = ck' /\ pc = "top" /\ ~ ResumedAssistant
    BY <1>6 DEF BindPrimary
  <2> HIDE DEF saved
  <2>3. ck'.phase = "provider_pending" /\ ck'.turn = turn /\ ck'.done = ck.done
    BY <2>1, <2>2 DEF Checkpoint
  <2>4. /\ turn = ck.turn \/ turn = ck.turn + 1
        /\ turn = ck.turn => ck.phase \in {"started", "user_appended", "provider_pending"}
    <3>1. ck.phase = "turn_complete" => turn = ck.turn + 1
      BY <2>2 DEF BaseInv, Placed, BeforeCall
    <3> QED BY <1>1, <1>2, <2>2, <3>1, AtTop
  <2>5. ck.turn < ck'.turn \/ ck'.turn = ck.turn
    <3>1. \A n \in Nat : n < n + 1 OBVIOUS
    <3>2. ck.turn < ck.turn + 1 BY <1>1, <1>2, <3>1
    <3> QED BY <2>3, <2>4, <3>2
  <2>6. Advance BY <2>3, <2>4, <2>5 DEF Advance, ToolPhases, Terminal
  <2> QED BY <1>6, <2>6 DEF BindPrimary
<1>7. CASE AcceptPrimary BY <1>7 DEF AcceptPrimary, Advance, Barrier
<1>8. CASE AppendAssistant
  <2>1. dproj # <<>> /\ ck.phase = "provider_pending" BY <1>8 DEF AppendAssistant, BaseInv, Placed
  <2>2. /\ dproj[1] \in AssistantMessage /\ dproj[1].turn = ck.turn /\ dproj = <<dproj[1]>>
    BY <1>1, <2>1, SingleFacts DEF BaseInv, Sound
  <2>3. ck'.phase = "assistant_appended" /\ ck'.turn = ck.turn /\ ck'.done = ck.done
    BY <1>1, <1>8, <2>2, SavedAssistantFacts DEF AppendAssistant
  <2>4. Advance BY <2>1, <2>3 DEF Advance, ToolPhases, Terminal
  <2>5. sess' = Append(sess, dproj[1])
    <3> DEFINE m == dproj[1]
    <3>1. sess' = sess \o <<m>> BY <1>8, <2>2 DEF AppendAssistant
    <3> HIDE DEF m
    <3>2. sess' = Append(sess, m) BY <1>1, <3>1
    <3> QED BY <3>2 DEF m
  <2>6. dproj[1] \in Message /\ dproj[1].kind # "results" BY <2>2, MessageFacts
  <2> QED BY <1>8, <2>4, <2>5, <2>6 DEF AppendAssistant
<1>9. CASE Complete \/ CompleteTurn
  <2>1. ck.turn = turn BY <1>9 DEF BaseInv, Placed, Complete, CompleteTurn
  <2>2. /\ ck'.phase \in {"completed", "turn_complete"} /\ ck'.turn = ck.turn
        /\ ck'.done = ck.done
    BY <1>1, <1>9, <2>1, SavedFacts DEF Complete, CompleteTurn, Phases, Terminal
  <2>3. Advance BY <2>2 DEF Advance, ToolPhases, Terminal
  <2> QED BY <1>9, <2>3 DEF Complete, CompleteTurn, durable
<1> QED BY <1>3, <1>4, <1>5, <1>6, <1>7, <1>8, <1>9 DEF QuietStep

(* What is done stays done.                                                 *)
LEMMA DoneKept ==
    ASSUME BaseInv, BaseInv', Advance, UNCHANGED dlog, NEW t \in Turns, NEW c \in ToolCalls, Done(ck, t, c)
    PROVE  Done(ck, t, c)'
<1>1. t \in Nat /\ ck.turn \in Nat /\ ck'.turn \in Nat
  <2>1. ck.turn \in Turns /\ ck'.turn \in Turns BY CheckpointFacts DEF BaseInv, Typing
  <2> QED BY <2>1, ConstantFacts
<1>2. CASE ck' = ck BY <1>2 DEF Done, Behind
<1>3. CASE ck.turn < ck'.turn
  <2>1. t <= ck.turn BY <1>1 DEF Done
  <2>2. t < ck'.turn BY <1>1, <1>3, <2>1
  <2> QED BY <2>2 DEF Done
<1>4. CASE /\ ck'.turn = ck.turn
           /\ \/ ck'.phase \in {"turn_complete"} \cup Terminal
              \/ ck.phase \notin {"turn_complete"} \cup Terminal \cup ToolPhases
  BY <1>4 DEF Done
<1> QED BY <1>2, <1>3, <1>4 DEF Advance

LEMMA QuietOnce ==
    ASSUME OnceInv, BaseInv', QuietStep
    PROVE  OnceInv'
<1>1. /\ UNCHANGED <<dlog, ran>> /\ Advance /\ dck' \in {dck, ck, ck'} /\ pc # "off"
      /\ pc' \notin {"tools", "append_results"}
  BY QuietFacts DEF OnceInv
<1>2. KnowsStarted(ck)'
  <2>1. \A t \in Turns, c \in ToolCalls : Done(ck, t, c) => Done(ck, t, c)'
    BY <1>1, DoneKept DEF OnceInv
  <2>2. KnowsStarted(ck) BY <1>1 DEF OnceInv
  <2> QED BY <1>1, <2>1, <2>2 DEF KnowsStarted, Logged
<1>3. KnowsStarted(dck)'
  <2>1. CASE dck' = dck BY <1>1, <2>1 DEF OnceInv, KnowsStarted, Logged, Done, Behind
  <2>2. CASE dck' = ck BY <1>1, <2>2 DEF OnceInv, KnowsStarted, Logged, Done, Behind
  <2>3. CASE dck' = ck' BY <1>2, <2>3 DEF KnowsStarted, Logged, Done, Behind
  <2> QED BY <1>1, <2>1, <2>2, <2>3
<1>4. BatchFresh' BY <1>1 DEF OnceInv, BatchFresh, Logged
<1>5. AtMostOnce' BY <1>1 DEF OnceInv, AtMostOnce
<1> QED BY <1>2, <1>3, <1>4, <1>5 DEF OnceInv

(* What the batch takes as done includes every call of this turn that       *)
(* started.                                                                 *)
LEMMA RestartDone ==
    ASSUME OnceInv, StartBatch, NEW c \in ToolCalls, Done(ck, turn, c)
    PROVE  /\ resumed /\ Id(turn, c) \in DOMAIN Recovered
           /\ ck.phase \in ToolPhases
           /\ Id(turn, c) \in DOMAIN ck.done \/ Behind(ck, "start", turn, c)
<1>1. /\ turn \in Turns /\ pc = "batch" /\ ck.phase \in Accepted /\ ck.turn = turn
      /\ ~ resumed => ck.phase = "assistant_appended"
  BY DEF OnceInv, BaseInv, Typing, Placed, StartBatch
<1>2. turn \in Nat BY <1>1, ConstantFacts
<1>3. /\ ck.phase \in ToolPhases
      /\ Id(turn, c) \in DOMAIN ck.done \/ Behind(ck, "start", turn, c)
  BY <1>1, <1>2 DEF Done, Accepted, Terminal
<1>4. resumed BY <1>1, <1>3 DEF ToolPhases
<1>5. Id(turn, c) \in DOMAIN Recovered BY <1>1, <1>3, RecoveredKnows DEF OnceInv
<1> QED BY <1>3, <1>4, <1>5

LEMMA RestartKnows ==
    ASSUME OnceInv, StartBatch, NEW c \in ToolCalls, Logged("start", turn, c)
    PROVE  Done(ck, turn, c)
<1>1. turn \in Turns /\ pc = "batch" BY DEF OnceInv, BaseInv, Typing, StartBatch
<1> QED BY <1>1 DEF OnceInv, KnowsStarted

LEMMA StartBatchOnce ==
    ASSUME OnceInv, BaseInv', StartBatch
    PROVE  OnceInv'
<1>1. PICK done \in Map :
        /\ done = IF resumed THEN Recovered ELSE EmptyMap
        /\ batch'.done = done /\ batch'.open = {}
        /\ batch'.todo = {c \in ToolCalls : Id(turn, c) \notin DOMAIN done}
        /\ ck'.phase \in ToolPhases /\ ck'.turn = turn
        /\ ck' = ck \/ ck'.done = done
        /\ UNCHANGED <<dck, dlog, turn, ran>> /\ pc' = "tools"
  BY StartBatchStep DEF OnceInv
<1>2. turn \in Turns /\ ck.turn = turn /\ pc = "batch"
  BY DEF OnceInv, BaseInv, Typing, Placed, StartBatch
<1>3. \A c \in ToolCalls : Logged("start", turn, c) =>
         Id(turn, c) \in DOMAIN done
  BY <1>1, <1>2, RestartKnows, RestartDone
<1>4. KnowsStarted(ck)'
  <2> SUFFICES ASSUME NEW t \in Turns, NEW c \in ToolCalls, Logged("start", t, c)
               PROVE  Done(ck, t, c)'
    BY <1>1 DEF KnowsStarted, Logged
  <2>1. Done(ck, t, c) BY <1>2 DEF OnceInv, KnowsStarted
  <2>2. CASE ck' = ck BY <1>1, <2>1, <2>2 DEF Done, Behind
  <2>3. CASE t # turn
    <3>1. t < ck.turn BY <1>2, <2>1, <2>3 DEF Done
    <3> QED BY <1>1, <1>2, <3>1 DEF Done
  <2>4. CASE t = turn /\ ck'.done = done
    <3>1. Id(turn, c) \in DOMAIN done BY <1>3, <2>4
    <3> QED BY <1>1, <2>4, <3>1 DEF Done
  <2> QED BY <1>1, <2>2, <2>3, <2>4
<1>5. KnowsStarted(dck)' BY <1>1 DEF OnceInv, KnowsStarted, Logged, Done, Behind
<1>6. BatchFresh'
  <2>1. \A kind, t, c : Logged(kind, t, c)' <=> Logged(kind, t, c) BY <1>1 DEF Logged
  <2>2. \A t \in Turns, c \in ToolCalls : ran'[t][c] > 0 => Logged("start", t, c)
    BY <1>1 DEF OnceInv, BatchFresh
  <2>3. \A c \in ToolCalls : Logged("start", turn, c) => Id(turn, c) \in DOMAIN batch'.done
    BY <1>1, <1>3
  <2>4. \A c \in batch'.todo : ~ Logged("start", turn, c) BY <1>1, <1>3
  <2> QED BY <1>1, <2>1, <2>2, <2>3, <2>4 DEF BatchFresh
<1>7. AtMostOnce' BY <1>1 DEF OnceInv, AtMostOnce
<1> QED BY <1>4, <1>5, <1>6, <1>7 DEF OnceInv

(* A tool event is written together with the working checkpoint, behind its *)
(* cursor.                                                                  *)
LEMMA EventKnown ==
    ASSUME OnceInv, NEW kind \in {"start", "end"}, NEW c \in ToolCalls,
           pc = "tools", dck' = ck, ck' = ck, turn' = turn, dlog' = Append(dlog, Ev(kind, turn, c))
    PROVE  /\ KnowsStarted(ck)' /\ KnowsStarted(dck)'
           /\ \A kind2 \in {"start", "end"}, u \in Turns, d \in ToolCalls :
                 /\ Logged(kind2, u, d)' <=>
                       Logged(kind2, u, d) \/ (kind2 = kind /\ u = turn /\ d = c)
                 /\ Behind(ck, kind2, u, d) => Behind(ck, kind2, u, d)'
           /\ Behind(ck, kind, turn, c)'
<1>1. /\ dlog \in Seq(Event) /\ turn \in Turns /\ ck.phase \in ToolPhases /\ ck.turn = turn
      /\ ck.cursor \in Int /\ ck.cursor <= Len(dlog)
  BY CheckpointFacts DEF OnceInv, BaseInv, Typing, Placed, Sound
<1>2. \A kind2 \in {"start", "end"}, u \in Turns, d \in ToolCalls :
         Logged(kind2, u, d)' <=> Logged(kind2, u, d) \/ (kind2 = kind /\ u = turn /\ d = c)
  BY <1>1, LogGrows
<1>3. \A kind2 \in {"start", "end"}, u \in Turns, d \in ToolCalls :
         Behind(ck, kind2, u, d) => Behind(ck, kind2, u, d)'
  BY <1>1, LogGrows DEF Behind
<1>4. Behind(ck, kind, turn, c)'
  <2>1. \A k : k.cursor \in Int /\ k.cursor <= Len(dlog) =>
           \E j \in DOMAIN dlog' : j > k.cursor /\ dlog'[j] = Ev(kind, turn, c)
    BY <1>1, LogGrows DEF Behind
  <2>2. \E j \in DOMAIN dlog' : j > ck.cursor /\ dlog'[j] = Ev(kind, turn, c) BY <1>1, <2>1
  <2>3. (ck.cursor)' = ck.cursor /\ turn' = turn OBVIOUS
  <2> QED BY <2>2, <2>3 DEF Behind
<1>5. KnowsStarted(ck)'
  <2> SUFFICES ASSUME NEW t \in Turns, NEW d \in ToolCalls, Logged("start", t, d)'
               PROVE  Done(ck, t, d)'
    BY DEF KnowsStarted
  <2>1. CASE Logged("start", t, d)
    <3>1. Done(ck, t, d) BY <2>1 DEF OnceInv, KnowsStarted
    <3> QED BY <1>3, <3>1 DEF Done
  <2>2. CASE kind = "start" /\ t = turn /\ d = c BY <1>1, <1>4, <2>2 DEF Done, Behind
  <2> QED BY <1>2, <2>1, <2>2
<1>6. KnowsStarted(dck)' BY <1>5 DEF KnowsStarted, Logged, Done, Behind
<1> QED BY <1>2, <1>3, <1>4, <1>5, <1>6

LEMMA ToolOnce ==
    ASSUME OnceInv, BaseInv', NEW c \in ToolCalls, StartTool(c) \/ RunTool(c) \/ EndTool(c)
    PROVE  OnceInv'
<1>1. /\ turn \in Turns /\ batch \in Batch /\ ran \in [Turns -> [ToolCalls -> Nat]]
      /\ batch.done \in Map /\ batch.open \subseteq ToolCalls /\ batch.todo \subseteq ToolCalls
  BY DEF OnceInv, BaseInv, Typing, Batch
<1>2. CASE StartTool(c)
  <2>1. /\ pc = "tools" /\ c \in batch.todo /\ dck' = ck
        /\ dlog' = Append(dlog, Ev("start", turn, c))
        /\ batch'.todo = batch.todo \ {c}
        /\ batch'.open = batch.open \cup {c} /\ batch'.over = batch.over
        /\ batch'.done = With(batch.done, Only(Id(turn, c), Interrupted))
        /\ UNCHANGED <<pc, ck, turn, ran>>
    BY <1>2, StartToolStep DEF OnceInv
  <2>2. /\ KnowsStarted(ck)' /\ KnowsStarted(dck)'
        /\ \A u \in Turns, d \in ToolCalls :
              Logged("start", u, d)' <=> Logged("start", u, d) \/ (u = turn /\ d = c)
    BY <2>1, EventKnown
  <2>3. DOMAIN batch'.done = DOMAIN batch.done \cup {Id(turn, c)}
    <3>1. Interrupted \in ResultSet BY ResultFacts
    <3> DEFINE f == batch.done
               g == Only(Id(turn, c), Interrupted)
    <3>2. f \in Map /\ g \in Map /\ DOMAIN g = {Id(turn, c)} /\ batch'.done = With(f, g)
      BY <1>1, <2>1, <3>1, OnlyMap
    <3> HIDE DEF f, g
    <3>3. DOMAIN With(f, g) = DOMAIN f \cup DOMAIN g BY <3>2, WithMap
    <3> QED BY <3>2, <3>3 DEF f
  <2>4. ran[turn][c] = 0
    <3>1. ~ Logged("start", turn, c) BY <2>1 DEF OnceInv, BatchFresh
    <3>2. ran[turn][c] \in Nat /\ ~ (ran[turn][c] > 0) BY <1>1, <3>1 DEF OnceInv, BatchFresh
    <3> QED BY <3>2
  <2>5. \A t \in Turns, d \in ToolCalls : ran'[t][d] > 0 => Logged("start", t, d)'
    BY <2>1, <2>2 DEF OnceInv, BatchFresh
  <2>6. \A d \in ToolCalls : Logged("start", turn, d)' => Id(turn, d) \in DOMAIN batch'.done
    BY <1>1, <2>1, <2>2, <2>3 DEF OnceInv, BatchFresh
  <2>7. \A d \in batch'.todo : ~ Logged("start", turn, d)'
    BY <1>1, <2>1, <2>2 DEF OnceInv, BatchFresh
  <2>8. \A d \in batch'.open : Logged("start", turn, d)'
    BY <1>1, <2>1, <2>2 DEF OnceInv, BatchFresh
  <2>9. \A d \in batch'.open \ batch'.over : ran'[turn][d] = 0
    BY <2>1, <2>4 DEF OnceInv, BatchFresh
  <2>10. BatchFresh' BY <2>1, <2>5, <2>6, <2>7, <2>8, <2>9 DEF BatchFresh
  <2>11. AtMostOnce' BY <2>1 DEF OnceInv, AtMostOnce
  <2> QED BY <2>2, <2>10, <2>11 DEF OnceInv
<1>3. CASE RunTool(c)
  <2>1. /\ pc = "tools" /\ c \in batch.open \ batch.over
        /\ ran' = [ran EXCEPT ![turn][c] = @ + 1]
        /\ batch'.todo = batch.todo /\ batch'.open = batch.open
        /\ batch'.over = batch.over \cup {c} /\ batch'.done = batch.done
        /\ UNCHANGED <<dck, dlog, pc, ck, turn>>
    BY <1>3, RunToolStep DEF OnceInv
  <2>2. /\ ran[turn][c] = 0 /\ Logged("start", turn, c) BY <2>1 DEF OnceInv, BatchFresh
  <2>3. \A t \in Turns, d \in ToolCalls :
           ran'[t][d] = IF t = turn /\ d = c THEN 1 ELSE ran[t][d]
    BY <1>1, <2>1, <2>2
  <2>4. \A kind, t, d : Logged(kind, t, d)' <=> Logged(kind, t, d) BY <2>1 DEF Logged
  <2>5. \A t \in Turns, d \in ToolCalls : ran'[t][d] > 0 => Logged("start", t, d)'
    BY <2>2, <2>3, <2>4 DEF OnceInv, BatchFresh
  <2>6. \A d \in batch'.open \ batch'.over : ran'[turn][d] = 0
    BY <1>1, <2>1, <2>3 DEF OnceInv, BatchFresh
  <2>7. BatchFresh' BY <2>1, <2>4, <2>5, <2>6 DEF OnceInv, BatchFresh
  <2>8. AtMostOnce'
    <3>1. \A t \in Turns, d \in ToolCalls : ran'[t][d] <= 1
      BY <2>3 DEF OnceInv, AtMostOnce, Turns, ToolCalls
    <3> QED BY <3>1 DEF AtMostOnce, Turns, ToolCalls
  <2>9. KnowsStarted(ck)' /\ KnowsStarted(dck)'
    BY <2>1 DEF OnceInv, KnowsStarted, Logged, Done, Behind
  <2> QED BY <2>7, <2>8, <2>9 DEF OnceInv
<1>4. CASE EndTool(c)
  <2>1. /\ pc = "tools" /\ c \in batch.open /\ dck' = ck
        /\ dlog' = Append(dlog, Ev("end", turn, c))
        /\ batch'.todo = batch.todo
        /\ batch'.open = batch.open \ {c} /\ batch'.over = batch.over
        /\ batch'.done = With(Only(Id(turn, c), Real(turn)), batch.done)
        /\ UNCHANGED <<pc, ck, turn, ran>>
    BY <1>4, EndToolStep DEF OnceInv
  <2>2. /\ KnowsStarted(ck)' /\ KnowsStarted(dck)'
        /\ \A u \in Turns, d \in ToolCalls : Logged("start", u, d)' <=> Logged("start", u, d)
    BY <2>1, EventKnown
  <2>3. DOMAIN batch.done \subseteq DOMAIN batch'.done
    <3>1. Real(turn) \in ResultSet BY <1>1, ResultFacts
    <3>2. Only(Id(turn, c), Real(turn)) \in Map BY <1>1, <3>1, OnlyMap
    <3> DEFINE f == batch.done
               g == Only(Id(turn, c), Real(turn))
    <3>3. f \in Map /\ g \in Map /\ batch'.done = With(g, f) BY <1>1, <2>1, <3>2
    <3> HIDE DEF f, g
    <3>4. DOMAIN With(g, f) = DOMAIN g \cup DOMAIN f BY <3>3, WithMap
    <3> QED BY <3>3, <3>4 DEF f
  <2>4. BatchFresh' BY <1>1, <2>1, <2>2, <2>3 DEF OnceInv, BatchFresh
  <2>5. AtMostOnce' BY <2>1 DEF OnceInv, AtMostOnce
  <2> QED BY <2>2, <2>4, <2>5 DEF OnceInv
<1> QED BY <1>2, <1>3, <1>4

LEMMA ResultsOnce ==
    ASSUME OnceInv, BaseInv', EndBatch \/ AppendResults
    PROVE  OnceInv'
<1>1. /\ UNCHANGED <<dlog, turn, batch, ran>> /\ pc \in {"tools", "append_results"}
      /\ \/ ck' = SavedResults /\ dck' = dck /\ pc' = "next"
         \/ dck' = ck /\ ck' = ck /\ pc' = "append_results"
  BY EndBatchStep, AppendResultsStep DEF OnceInv
<1>2. ck \in Checkpoint /\ batch \in Batch /\ turn \in Turns /\ ck.turn = turn
  BY <1>1 DEF OnceInv, BaseInv, Typing, Placed
<1>3. \A t, c : Logged("start", t, c)' <=> Logged("start", t, c) BY <1>1 DEF Logged
<1>4. \A c \in ToolCalls : Logged("start", turn, c) => Id(turn, c) \in DOMAIN batch.done
  BY <1>1 DEF OnceInv, BatchFresh
<1>5. KnowsStarted(ck) /\ KnowsStarted(dck) BY <1>1 DEF OnceInv
<1>6. AtMostOnce' BY <1>1 DEF OnceInv, AtMostOnce
<1>7. CASE ck' = SavedResults /\ dck' = dck /\ pc' = "next"
  <2>1. ck'.phase = "tool_results_appended" /\ ck'.turn = turn /\ ck'.done = batch.done
    BY <1>2, <1>7, SavedResultsFacts
  <2>2. ASSUME NEW t \in Turns, NEW c \in ToolCalls, Logged("start", t, c)
        PROVE  Done(ck, t, c)'
    <3>1. CASE t = turn BY <1>4, <2>1, <2>2, <3>1 DEF Done, ToolPhases
    <3>2. CASE t # turn
      <4>1. t < ck.turn BY <1>2, <1>5, <2>2, <3>2 DEF KnowsStarted, Done
      <4> QED BY <1>2, <2>1, <4>1 DEF Done
    <3> QED BY <3>1, <3>2
  <2>3. KnowsStarted(ck)' BY <1>3, <2>2 DEF KnowsStarted
  <2>4. KnowsStarted(dck)' BY <1>1, <1>5, <1>7 DEF KnowsStarted, Logged, Done, Behind
  <2>5. BatchFresh' BY <1>1, <1>3, <1>7 DEF OnceInv, BatchFresh
  <2> QED BY <1>6, <2>3, <2>4, <2>5 DEF OnceInv
<1>8. CASE dck' = ck /\ ck' = ck /\ pc' = "append_results"
  <2>1. KnowsStarted(ck)' /\ KnowsStarted(dck)'
    BY <1>1, <1>5, <1>8 DEF KnowsStarted, Logged, Done, Behind
  <2>2. BatchFresh' BY <1>1, <1>3, <1>4, <1>8 DEF OnceInv, BatchFresh
  <2> QED BY <1>6, <2>1, <2>2 DEF OnceInv
<1> QED BY <1>1, <1>7, <1>8

LEMMA HostOnce ==
    ASSUME OnceInv, BaseInv', Resume \/ Crash \/ Close \/ Notify \/ UNCHANGED vars
    PROVE  OnceInv'
<1>1. UNCHANGED <<dlog, ran>>
  BY DEF Resume, Crash, Close, Stopped, Notify, vars, durable
<1>2. AtMostOnce' BY <1>1 DEF OnceInv, AtMostOnce
<1>3. CASE Resume
  <2>1. ck' = dck /\ dck' = dck /\ pc' \in {"startup", "reconcile"} BY <1>3 DEF Resume, durable
  <2>2. KnowsStarted(ck)' /\ KnowsStarted(dck)'
    BY <1>1, <2>1 DEF OnceInv, KnowsStarted, Logged, Done, Behind
  <2>3. BatchFresh' BY <1>1, <2>1 DEF OnceInv, BatchFresh, Logged
  <2> QED BY <1>2, <2>2, <2>3 DEF OnceInv
<1>4. CASE Crash \/ Close
  <2>1. pc # "off" /\ dck' \in {dck, ck} /\ pc' = "off"
    BY <1>4 DEF Crash, Close, Stopped, Barrier
  <2>2. KnowsStarted(dck)'
    <3>1. CASE dck' = dck BY <1>1, <3>1 DEF OnceInv, KnowsStarted, Logged, Done, Behind
    <3>2. CASE dck' = ck BY <1>1, <2>1, <3>2 DEF OnceInv, KnowsStarted, Logged, Done, Behind
    <3> QED BY <2>1, <3>1, <3>2
  <2>3. BatchFresh' BY <1>1, <2>1 DEF OnceInv, BatchFresh, Logged
  <2> QED BY <1>2, <2>1, <2>2, <2>3 DEF OnceInv
<1>5. CASE Notify \/ UNCHANGED vars
  <2>1. UNCHANGED <<dck, ck, pc, turn, batch>>
    BY <1>5 DEF Notify, vars, durable, attempt
  <2>2. BatchFresh' BY <1>1, <2>1 DEF OnceInv, BatchFresh, Logged
  <2>3. KnowsStarted(dck)' /\ (pc' # "off" => KnowsStarted(ck)')
    BY <1>1, <2>1 DEF OnceInv, KnowsStarted, Logged, Done, Behind
  <2> QED BY <1>2, <2>2, <2>3 DEF OnceInv
<1> QED BY <1>3, <1>4, <1>5

LEMMA InitOnce == Init => OnceInv
<1> SUFFICES ASSUME Init PROVE OnceInv OBVIOUS
<1>1. \A kind, t, c : ~ Logged(kind, t, c)
  <2>1. DOMAIN <<>> = {} OBVIOUS
  <2> QED BY <2>1 DEF Init, Logged
<1>2. \A t \in Turns, c \in ToolCalls : ran[t][c] = 0 BY DEF Init, Turns, ToolCalls
<1>3. BatchFresh
  <2>1. pc = "startup" BY DEF Init
  <2>2. ~ (0 > 0) OBVIOUS
  <2> QED BY <1>2, <2>1, <2>2 DEF BatchFresh
<1>4. AtMostOnce BY <1>2 DEF AtMostOnce, Turns, ToolCalls
<1>5. KnowsStarted(dck) /\ KnowsStarted(ck) BY <1>1 DEF KnowsStarted
<1> QED BY <1>3, <1>4, <1>5, InitBase DEF OnceInv

LEMMA OnceStep ==
    ASSUME OnceInv, [Next]_vars
    PROVE  OnceInv'
<1>1. BaseInv' BY BaseStep DEF OnceInv
<1> QED
  BY <1>1, TurnCases, QuietOnce, StartBatchOnce, ToolOnce, ResultsOnce, HostOnce
     DEF QuietStep, ToolCalls

LEMMA OnceAlways == Spec => []OnceInv
<1> QED BY InitOnce, OnceStep, PTL DEF Spec

(* "A started tool with no durable end is not re-run": no call of a turn    *)
(* executes twice, wherever the attempts crash or are closed and however    *)
(* often the run is resumed, and also when the provider uses the same       *)
(* tool-use ids in every turn (_recover_completed_tool_results).            *)
THEOREM StartedOnce == Spec => []AtMostOnce
<1>1. OnceInv => AtMostOnce BY DEF OnceInv
<1> QED BY <1>1, OnceAlways, PTL

-----------------------------------------------------------------------------
(* Every recorded result is that of its call.                               *)

(* What depends on the log alone stays as it is while the log does, and     *)
(* what depends on the results in the history while no result is appended.  *)
LEMMA LogSame ==
    ASSUME UNCHANGED dlog
    PROVE  /\ \A kind, t, c : Logged(kind, t, c)' <=> Logged(kind, t, c)
           /\ \A t, c : Outcome(t, c)' = Outcome(t, c)
           /\ \A m : TrueMessage(m)' <=> TrueMessage(m)
           /\ EndsStarted' <=> EndsStarted
BY DEF Logged, Outcome, TrueMessage, EndsStarted

LEMMA HistorySame ==
    ASSUME OnceInv, TrueInv, UNCHANGED dlog,
           sess' = sess \/ \E m \in Message : m.kind # "results" /\ sess' = Append(sess, m)
    PROVE  (\A t : Answered(t)' <=> Answered(t)) /\ MessagesTrue'
<1>1. \A j \in DOMAIN sess : TrueMessage(sess[j]) BY DEF TrueInv, MessagesTrue
<1>2. CASE sess' = sess BY <1>1, <1>2, LogSame DEF Answered, MessagesTrue
<1>3. ASSUME NEW m \in Message, m.kind # "results", sess' = Append(sess, m)
      PROVE  (\A t : Answered(t)' <=> Answered(t)) /\ MessagesTrue'
  <2> DEFINE n == Len(sess)
  <2>1. /\ n \in Nat /\ DOMAIN sess = 1..n /\ DOMAIN sess' = 1..(n + 1)
        /\ \A i \in 1..n : sess'[i] = sess[i]
        /\ sess'[n + 1] = m
    <3>1. sess \in Seq(Message) BY DEF OnceInv, BaseInv, Typing
    <3> QED BY <1>3, <3>1, HistoryGrows
  <2> HIDE DEF n
  <2>2. \A j \in 1..(n + 1) : j \in 1..n \/ j = n + 1 BY <2>1
  <2>3. \A j \in 1..n : j \in 1..(n + 1) BY <2>1
  <2>4. \A t : Answered(t)' <=> Answered(t) BY <1>3, <2>1, <2>2, <2>3 DEF Answered
  <2>5. TrueMessage(m) BY <1>3 DEF TrueMessage
  <2>6. \A j \in DOMAIN sess' : TrueMessage(sess'[j]) BY <1>1, <2>1, <2>2, <2>5
  <2>7. MessagesTrue' BY <2>6, LogSame DEF MessagesTrue
  <2> QED BY <2>4, <2>7
<1> QED BY <1>2, <1>3

LEMMA InitTrue == Init => TrueInv
<1> SUFFICES ASSUME Init PROVE TrueInv OBVIOUS
<1>1. DOMAIN <<>> = {} OBVIOUS
<1>2. /\ \A kind, t, c : ~ Logged(kind, t, c)
      /\ \A t : ~ Answered(t)
      /\ MessagesTrue
  BY <1>1 DEF Init, Logged, Answered, MessagesTrue
<1>3. dck.done = EmptyMap /\ ck.done = EmptyMap /\ batch.done = EmptyMap /\ pc = "startup"
  BY StartedFacts DEF Init, NoBatch
<1>4. MapsTrue BY <1>3, EmptyIsMap DEF MapsTrue, Truthful
<1>5. InBatch BY <1>3 DEF InBatch
<1>6. KnowsAnswered(dck) /\ KnowsAnswered(ck) BY <1>2 DEF KnowsAnswered
<1>7. EndsKnown(dck) /\ EndsKnown(ck) BY <1>2 DEF EndsKnown
<1>8. EndsStarted BY <1>2 DEF EndsStarted
<1> QED BY <1>2, <1>4, <1>5, <1>6, <1>7, <1>8 DEF TrueInv

LEMMA QuietTrue ==
    ASSUME OnceInv, TrueInv, BaseInv', QuietStep
    PROVE  TrueInv'
<1>1. /\ UNCHANGED dlog /\ Advance /\ dck' \in {dck, ck, ck'} /\ pc # "off"
      /\ pc' \notin {"tools", "append_results"} /\ batch' \in {batch, NoBatch}
      /\ sess' = sess \/ \E m \in Message : m.kind # "results" /\ sess' = Append(sess, m)
  BY QuietFacts DEF OnceInv
<1>2. /\ \A kind, t, c : Logged(kind, t, c)' <=> Logged(kind, t, c)
      /\ \A t, c : Outcome(t, c)' = Outcome(t, c) /\ EndsStarted'
  BY <1>1, LogSame DEF TrueInv
<1>3. /\ \A t : Answered(t)' <=> Answered(t)
      /\ MessagesTrue'
  BY <1>1, HistorySame
<1>4. ck'.done = ck.done /\ (ck' = ck \/ ck'.phase \notin ToolPhases) BY <1>1 DEF Advance
<1>5. KnowsAnswered(ck)'
  <2>1. \A t \in Turns, c \in ToolCalls : Done(ck, t, c) => Done(ck, t, c)'
    BY <1>1, DoneKept DEF OnceInv
  <2> QED BY <1>1, <1>3, <2>1 DEF TrueInv, KnowsAnswered
<1>6. EndsKnown(ck)'
  <2>1. CASE ck' = ck BY <1>1, <1>2, <2>1 DEF TrueInv, EndsKnown, Behind
  <2>2. CASE ck'.phase \notin ToolPhases BY <2>2 DEF EndsKnown
  <2> QED BY <1>4, <2>1, <2>2
<1>7. KnowsAnswered(dck)' /\ EndsKnown(dck)'
  <2>1. CASE dck' = dck
    BY <1>1, <1>2, <1>3, <2>1 DEF TrueInv, KnowsAnswered, EndsKnown, Done, Behind
  <2>2. CASE dck' = ck
    BY <1>1, <1>2, <1>3, <2>2 DEF TrueInv, KnowsAnswered, EndsKnown, Done, Behind
  <2>3. CASE dck' = ck'
    BY <1>5, <1>6, <2>3 DEF KnowsAnswered, EndsKnown, Done, Behind, Answered, Logged
  <2> QED BY <1>1, <2>1, <2>2, <2>3
<1>8. MapsTrue'
  <2>1. /\ dck'.done \in {dck.done, ck.done} /\ ck'.done = ck.done
        /\ batch'.done \in {batch.done, EmptyMap}
    BY <1>1, <1>4 DEF NoBatch
  <2>2. Truthful(dck.done) /\ Truthful(ck.done) /\ Truthful(batch.done) BY DEF TrueInv, MapsTrue
  <2>3. Truthful(EmptyMap) BY EmptyIsMap DEF Truthful
  <2> QED BY <1>2, <2>1, <2>2, <2>3 DEF MapsTrue, Truthful
<1>9. InBatch' BY <1>1 DEF InBatch
<1> QED BY <1>2, <1>3, <1>5, <1>6, <1>7, <1>8, <1>9 DEF TrueInv

(* Recovery restores the results of a batch truthfully, and only what the   *)
(* checkpoint or the log behind its cursor tells.                           *)
LEMMA RecoveredTrue ==
    ASSUME ~ RecurringIds, OnceInv, TrueInv, StartBatch, resumed
    PROVE  /\ Truthful(Recovered)
           /\ \A c \in ToolCalls : Id(turn, c) \in DOMAIN Recovered =>
                 Id(turn, c) \in DOMAIN ck.done \/ Behind(ck, "start", turn, c)
<1>1. /\ turn \in Turns /\ ck.turn = turn /\ pc = "batch" /\ ck.done \in Map
  BY CheckpointFacts DEF OnceInv, BaseInv, Typing, Placed, StartBatch
<1>2. PICK started, ended \in Map :
              /\ Recovered = With(ended, With(ck.done, started))
              /\ StartIds(DOMAIN started) /\ EndIds(DOMAIN started, DOMAIN ended)
              /\ \A id \in DOMAIN started : started[id] = Interrupted
              /\ \A id \in DOMAIN ended : \E u \in Turns, d \in ToolCalls :
                    id = Id(u, d) /\ Behind(ck, "end", u, d) /\ ended[id] = Real(u)
  BY <1>1, RecoveredFacts DEF OnceInv
<1> DEFINE known == With(ck.done, started)
<1>3. /\ known \in Map /\ DOMAIN known = DOMAIN ck.done \cup DOMAIN started
      /\ \A i \in DOMAIN ck.done : known[i] = ck.done[i]
      /\ \A i \in DOMAIN started : i \notin DOMAIN ck.done => known[i] = started[i]
  BY <1>1, WithMap
<1>4. Recovered = With(ended, known) BY <1>2
<1> HIDE DEF known
<1>5. /\ DOMAIN Recovered = DOMAIN ended \cup DOMAIN known
      /\ \A i \in DOMAIN ended : Recovered[i] = ended[i]
      /\ \A i \in DOMAIN known : i \notin DOMAIN ended => Recovered[i] = known[i]
  <2>1. /\ DOMAIN With(ended, known) = DOMAIN ended \cup DOMAIN known
        /\ \A i \in DOMAIN ended : With(ended, known)[i] = ended[i]
        /\ \A i \in DOMAIN known : i \notin DOMAIN ended => With(ended, known)[i] = known[i]
    BY <1>3, WithMap
  <2> QED BY <1>4, <2>1
<1>6. \A id \in DOMAIN started : \E c \in ToolCalls : id = Id(turn, c) /\ Behind(ck, "start", turn, c)
  BY <1>1, <1>2, IdFacts DEF StartIds
<1>7. DOMAIN ended \subseteq DOMAIN started BY <1>2 DEF EndIds
<1>8. \A kind, u, d : Behind(ck, kind, u, d) => Logged(kind, u, d) BY DEF Behind, Logged
<1>9. ASSUME NEW t \in Turns, NEW c \in ToolCalls, Id(t, c) \in DOMAIN Recovered
      PROVE  Recovered[Id(t, c)] = Outcome(t, c)
  <2>1. CASE Id(t, c) \in DOMAIN ended
    <3>1. PICK u \in Turns, d \in ToolCalls :
             /\ Id(t, c) = Id(u, d) /\ Behind(ck, "end", u, d)
             /\ ended[Id(t, c)] = Real(u)
      BY <1>2, <2>1
    <3>2. u = t /\ d = c BY <3>1, IdFacts
    <3> QED BY <1>5, <1>8, <2>1, <3>1, <3>2 DEF Outcome
  <2>2. CASE Id(t, c) \notin DOMAIN ended /\ Id(t, c) \in DOMAIN ck.done
    <3>1. ck.done[Id(t, c)] = Outcome(t, c) BY <2>2 DEF TrueInv, MapsTrue, Truthful
    <3> QED BY <1>3, <1>5, <2>2, <3>1
  <2>3. CASE /\ Id(t, c) \notin DOMAIN ended /\ Id(t, c) \notin DOMAIN ck.done
             /\ Id(t, c) \in DOMAIN started
    <3>1. Recovered[Id(t, c)] = Interrupted BY <1>2, <1>3, <1>5, <2>3
    <3>2. t = turn
      <4>1. PICK d \in ToolCalls : Id(t, c) = Id(turn, d) BY <1>6, <2>3
      <4> QED BY <1>1, <4>1, IdFacts
    <3>3. ~ Logged("end", t, c)
      <4> SUFFICES ASSUME Logged("end", t, c) PROVE FALSE OBVIOUS
      <4>1. Logged("start", turn, c) BY <3>2 DEF TrueInv, EndsStarted
      <4>2. ck.phase \in ToolPhases BY <4>1, RestartKnows, RestartDone
      <4>3. Behind(ck, "end", turn, c)
        BY <1>1, <2>3, <3>2, <4>2 DEF TrueInv, EndsKnown
      <4>4. Id(t, c) \in DOMAIN ended BY <1>1, <1>2, <2>3, <3>2, <4>3 DEF EndIds
      <4> QED BY <2>3, <4>4
    <3> QED BY <3>1, <3>3 DEF Outcome
  <2> QED BY <1>3, <1>5, <1>9, <2>1, <2>2, <2>3
<1>10. ASSUME NEW c \in ToolCalls, Id(turn, c) \in DOMAIN Recovered, Id(turn, c) \notin DOMAIN ck.done
       PROVE  Behind(ck, "start", turn, c)
  <2>1. Id(turn, c) \in DOMAIN started BY <1>3, <1>5, <1>7, <1>10
  <2>2. PICK d \in ToolCalls : Id(turn, c) = Id(turn, d) /\ Behind(ck, "start", turn, d)
    BY <1>6, <2>1
  <2>3. d = c BY <1>1, <2>2, IdFacts
  <2> QED BY <2>2, <2>3
<1> QED BY <1>9, <1>10 DEF Truthful

LEMMA StartBatchTrue ==
    ASSUME ~ RecurringIds, OnceInv, TrueInv, BaseInv', StartBatch
    PROVE  TrueInv'
<1>1. PICK done \in Map :
        /\ done = IF resumed THEN Recovered ELSE EmptyMap
        /\ batch'.done = done /\ batch'.open = {}
        /\ batch'.todo = {c \in ToolCalls : Id(turn, c) \notin DOMAIN done}
        /\ ck'.phase \in ToolPhases /\ ck'.turn = turn
        /\ (ck' = ck /\ resumed /\ batch'.todo = {}) \/ ck'.done = done
        /\ UNCHANGED <<dck, dlog, sess, turn, resumed>> /\ pc' = "tools"
  BY StartBatchStep DEF OnceInv
<1>2. turn \in Turns /\ ck.turn = turn /\ pc = "batch" /\ turn \in Nat
  BY ConstantFacts DEF OnceInv, BaseInv, Typing, Placed, StartBatch
<1>3. /\ \A kind, t, c : Logged(kind, t, c)' <=> Logged(kind, t, c)
      /\ \A t, c : Outcome(t, c)' = Outcome(t, c)
      /\ EndsStarted'
  BY <1>1, LogSame DEF TrueInv
<1>4. (\A t : Answered(t)' <=> Answered(t)) /\ MessagesTrue' BY <1>1, HistorySame
<1>5. /\ Truthful(done)
      /\ resumed => \A c \in ToolCalls : Id(turn, c) \in DOMAIN done =>
                       Id(turn, c) \in DOMAIN ck.done \/ Behind(ck, "start", turn, c)
  <2>1. CASE resumed BY <1>1, <2>1, RecoveredTrue
  <2>2. CASE ~ resumed BY <1>1, <2>2, EmptyIsMap DEF Truthful
  <2> QED BY <2>1, <2>2
<1>6. \A c \in ToolCalls : Done(ck, turn, c) => Id(turn, c) \in DOMAIN done
  BY <1>1, RestartDone
<1>7. \A c \in ToolCalls :
         \/ Id(turn, c) \in DOMAIN ck'.done \/ Behind(ck, "start", turn, c)'
         \/ c \in batch'.todo
  <2>1. CASE ck' = ck /\ resumed BY <1>1, <1>5, <2>1 DEF Behind
  <2>2. CASE ck'.done = done BY <1>1, <2>2
  <2> QED BY <1>1, <2>1, <2>2
<1>8. ASSUME NEW t \in Turns, NEW c \in ToolCalls, Done(ck, t, c)
      PROVE  Done(ck, t, c)'
  <2>1. CASE t # turn
    <3>1. t < ck.turn BY <1>2, <1>8, <2>1 DEF Done
    <3> QED BY <1>1, <1>2, <3>1 DEF Done
  <2>2. CASE t = turn
    <3>1. c \notin batch'.todo BY <1>1, <1>6, <1>8, <2>2
    <3>2. Id(turn, c) \in DOMAIN ck'.done \/ Behind(ck, "start", turn, c)' BY <1>7, <3>1
    <3> QED BY <1>1, <2>2, <3>2 DEF Done, Behind
  <2> QED BY <2>1, <2>2
<1>9. KnowsAnswered(ck)' BY <1>2, <1>4, <1>8 DEF TrueInv, KnowsAnswered
<1>10. EndsKnown(ck)'
  <2>1. CASE ck' = ck BY <1>1, <1>2, <1>3, <2>1 DEF TrueInv, EndsKnown, Behind
  <2>2. CASE ck'.done = done
    <3>1. \A c \in ToolCalls : Logged("end", turn, c) => Id(turn, c) \in DOMAIN done
      BY <1>2, <1>6, RestartKnows DEF TrueInv, EndsStarted
    <3> QED BY <1>1, <1>3, <2>2, <3>1 DEF EndsKnown
  <2> QED BY <1>1, <2>1, <2>2
<1>11. KnowsAnswered(dck)' /\ EndsKnown(dck)'
  BY <1>1, <1>3, <1>4 DEF TrueInv, KnowsAnswered, EndsKnown, Done, Behind
<1>12. MapsTrue'
  <2>1. Truthful(dck.done) /\ Truthful(ck.done) BY DEF TrueInv, MapsTrue
  <2>2. dck'.done = dck.done /\ ck'.done \in {ck.done, done} /\ batch'.done = done BY <1>1
  <2> QED BY <1>3, <1>5, <2>1, <2>2 DEF MapsTrue, Truthful
<1>13. InBatch'
  <2>1. batch'.todo # {} => ~ Answered(turn)
    <3> SUFFICES ASSUME NEW c \in ToolCalls, c \in batch'.todo, Answered(turn) PROVE FALSE
      BY <1>1
    <3>1. Done(ck, turn, c) BY <1>2 DEF TrueInv, KnowsAnswered
    <3> QED BY <1>1, <1>6, <3>1
  <2>2. \A c \in batch'.todo : Id(turn, c) \notin DOMAIN ck'.done BY <1>1
  <2> QED BY <1>1, <1>4, <1>7, <2>1, <2>2 DEF InBatch
<1> QED BY <1>3, <1>4, <1>9, <1>10, <1>11, <1>12, <1>13 DEF TrueInv

LEMMA StartToolTrue ==
    ASSUME ~ RecurringIds, OnceInv, TrueInv, NEW c \in ToolCalls, StartTool(c)
    PROVE  TrueInv'
<1>1. /\ turn \in Turns /\ batch.done \in Map /\ ck.turn = turn /\ ck.phase \in ToolPhases
      /\ batch.todo \subseteq ToolCalls /\ batch.open \subseteq ToolCalls
  BY StartToolStep DEF OnceInv, BaseInv, Typing, Batch, Placed
<1>2. /\ pc = "tools" /\ c \in batch.todo /\ dck' = ck
      /\ dlog' = Append(dlog, Ev("start", turn, c))
      /\ batch'.todo = batch.todo \ {c} /\ batch'.open = batch.open \cup {c}
      /\ batch'.done = With(batch.done, Only(Id(turn, c), Interrupted))
      /\ UNCHANGED <<sess, pc, ck, turn>>
  BY StartToolStep DEF OnceInv
<1>3. /\ \A kind \in {"start", "end"}, u \in Turns, d \in ToolCalls :
            /\ Logged(kind, u, d)' <=>
                  Logged(kind, u, d) \/ (kind = "start" /\ u = turn /\ d = c)
            /\ Behind(ck, kind, u, d) => Behind(ck, kind, u, d)'
      /\ Behind(ck, "start", turn, c)'
  BY <1>2, EventKnown
<1>4. \A u \in Turns, d \in ToolCalls : Outcome(u, d)' = Outcome(u, d) BY <1>3 DEF Outcome
<1>5. \A u \in Turns, d \in ToolCalls : Done(ck, u, d) => Done(ck, u, d)' BY <1>2, <1>3 DEF Done
<1>6. \A t : Answered(t)' <=> Answered(t) BY <1>2 DEF Answered
<1>7. KnowsAnswered(ck)' BY <1>2, <1>5, <1>6 DEF TrueInv, KnowsAnswered
<1>8. EndsKnown(ck)' BY <1>2, <1>3 DEF TrueInv, EndsKnown
<1>9. KnowsAnswered(dck)' /\ EndsKnown(dck)'
  BY <1>2, <1>7, <1>8 DEF KnowsAnswered, EndsKnown, Done, Behind
<1>10. EndsStarted' BY <1>3 DEF TrueInv, EndsStarted
<1>11. MapsTrue'
  <2> DEFINE f == batch.done
             g == Only(Id(turn, c), Interrupted)
  <2>1. f \in Map /\ g \in Map /\ DOMAIN g = {Id(turn, c)} /\ g[Id(turn, c)] = Interrupted
    BY <1>1, OnlyMap, ResultFacts
  <2>2. Truthful(f) /\ Truthful(ck.done) BY DEF TrueInv, MapsTrue
  <2>3. Outcome(turn, c) = Interrupted
    <3>1. ~ Logged("start", turn, c) BY <1>2 DEF OnceInv, BatchFresh
    <3> QED BY <1>1, <3>1 DEF TrueInv, EndsStarted, Outcome
  <2>4. batch'.done = With(f, g) BY <1>2
  <2> HIDE DEF f, g
  <2>5. /\ DOMAIN With(f, g) = DOMAIN f \cup DOMAIN g
        /\ \A i \in DOMAIN f : With(f, g)[i] = f[i]
        /\ \A i \in DOMAIN g : i \notin DOMAIN f => With(f, g)[i] = g[i]
    BY <2>1, WithMap
  <2>6. ASSUME NEW t \in Turns, NEW d \in ToolCalls, Id(t, d) \in DOMAIN With(f, g)
        PROVE  With(f, g)[Id(t, d)] = Outcome(t, d)
    <3>1. CASE Id(t, d) \in DOMAIN f BY <2>2, <2>5, <3>1 DEF Truthful
    <3>2. CASE Id(t, d) \notin DOMAIN f
      <4>1. Id(t, d) = Id(turn, c) BY <2>1, <2>5, <2>6, <3>2
      <4>2. t = turn /\ d = c BY <1>1, <4>1, IdFacts
      <4> QED BY <2>1, <2>3, <2>5, <2>6, <3>2, <4>2
    <3> QED BY <3>1, <3>2
  <2>7. Truthful(batch.done)' BY <1>4, <2>4, <2>6 DEF Truthful
  <2>8. Truthful(ck.done)' /\ Truthful(dck.done)' BY <1>2, <1>4, <2>2 DEF Truthful
  <2> QED BY <2>7, <2>8 DEF MapsTrue
<1>12. InBatch'
  <2>1. batch.todo # {} BY <1>2
  <2>2. ~ Answered(turn)' BY <1>2, <1>6, <2>1 DEF TrueInv, InBatch
  <2>3. \A d \in batch'.todo \cup batch'.open : Id(turn, d) \notin DOMAIN ck'.done
    BY <1>2 DEF TrueInv, InBatch
  <2>4. \A d \in ToolCalls :
          \/ Id(turn, d) \in DOMAIN ck'.done \/ Behind(ck, "start", turn, d)'
          \/ d \in batch'.todo
    BY <1>1, <1>2, <1>3 DEF TrueInv, InBatch
  <2> QED BY <1>2, <2>2, <2>3, <2>4 DEF InBatch, Behind, Answered
<1>13. MessagesTrue'
  <2> SUFFICES ASSUME NEW j \in DOMAIN sess PROVE TrueMessage(sess[j])'
    BY <1>2 DEF MessagesTrue
  <2>1. TrueMessage(sess[j]) BY DEF TrueInv, MessagesTrue
  <2>2. sess[j] \in Message BY DEF OnceInv, BaseInv, Typing
  <2>3. sess[j].kind = "results" => sess[j].turn \in Turns BY <2>2, MessageFacts
  <2> QED BY <1>2, <1>4, <2>1, <2>3 DEF TrueMessage
<1> QED BY <1>7, <1>8, <1>9, <1>10, <1>11, <1>12, <1>13 DEF TrueInv

LEMMA RunToolTrue ==
    ASSUME OnceInv, TrueInv, NEW c \in ToolCalls, RunTool(c)
    PROVE  TrueInv'
<1>1. /\ pc = "tools" /\ batch'.todo = batch.todo /\ batch'.open = batch.open
      /\ batch'.done = batch.done /\ UNCHANGED <<dck, dlog, sess, pc, ck, turn>>
  BY RunToolStep DEF OnceInv
<1>2. /\ \A kind, t, d : Logged(kind, t, d)' <=> Logged(kind, t, d)
      /\ \A t, d : Outcome(t, d)' = Outcome(t, d) /\ EndsStarted'
  BY <1>1, LogSame DEF TrueInv
<1>3. (\A t : Answered(t)' <=> Answered(t)) /\ MessagesTrue' BY <1>1, HistorySame
<1>4. KnowsAnswered(dck)' /\ EndsKnown(dck)' /\ KnowsAnswered(ck)' /\ EndsKnown(ck)'
  BY <1>1, <1>2, <1>3 DEF TrueInv, KnowsAnswered, EndsKnown, Done, Behind
<1>5. MapsTrue' BY <1>1, <1>2 DEF TrueInv, MapsTrue, Truthful
<1>6. InBatch' BY <1>1, <1>3 DEF TrueInv, InBatch, Behind
<1> QED BY <1>2, <1>3, <1>4, <1>5, <1>6 DEF TrueInv

LEMMA EndToolTrue ==
    ASSUME ~ RecurringIds, OnceInv, TrueInv, NEW c \in ToolCalls, EndTool(c)
    PROVE  TrueInv'
<1>1. /\ turn \in Turns /\ batch.done \in Map /\ ck.turn = turn /\ ck.phase \in ToolPhases
      /\ batch.todo \subseteq ToolCalls /\ batch.open \subseteq ToolCalls
  BY EndToolStep DEF OnceInv, BaseInv, Typing, Batch, Placed
<1>2. /\ pc = "tools" /\ c \in batch.open /\ dck' = ck
      /\ dlog' = Append(dlog, Ev("end", turn, c))
      /\ batch'.todo = batch.todo /\ batch'.open = batch.open \ {c}
      /\ batch'.done = With(Only(Id(turn, c), Real(turn)), batch.done)
      /\ UNCHANGED <<sess, pc, ck, turn>>
  BY EndToolStep DEF OnceInv
<1>3. /\ \A kind \in {"start", "end"}, u \in Turns, d \in ToolCalls :
            /\ Logged(kind, u, d)' <=>
                  Logged(kind, u, d) \/ (kind = "end" /\ u = turn /\ d = c)
            /\ Behind(ck, kind, u, d) => Behind(ck, kind, u, d)'
      /\ Behind(ck, "end", turn, c)'
  BY <1>2, EventKnown
<1>4. \A u \in Turns, d \in ToolCalls :
         Outcome(u, d)' = IF u = turn /\ d = c THEN Real(turn) ELSE Outcome(u, d)
  BY <1>1, <1>2, <1>3 DEF Outcome
<1>5. \A u \in Turns, d \in ToolCalls : Done(ck, u, d) => Done(ck, u, d)' BY <1>2, <1>3 DEF Done
<1>6. \A t : Answered(t)' <=> Answered(t) BY <1>2 DEF Answered
<1>7. KnowsAnswered(ck)' BY <1>2, <1>5, <1>6 DEF TrueInv, KnowsAnswered
<1>8. EndsKnown(ck)'
  <2> SUFFICES ASSUME NEW t \in Turns, NEW d \in ToolCalls,
                      Logged("end", t, d)', t = ck.turn, ck.phase \in ToolPhases
               PROVE  Id(t, d) \in DOMAIN ck.done \/ Behind(ck, "end", t, d)'
    BY <1>2 DEF EndsKnown
  <2>1. CASE Logged("end", t, d) BY <1>2, <1>3, <2>1 DEF TrueInv, EndsKnown
  <2>2. CASE t = turn /\ d = c BY <1>2, <1>3, <2>2 DEF Behind
  <2> QED BY <1>3, <2>1, <2>2
<1>9. KnowsAnswered(dck)' /\ EndsKnown(dck)'
  BY <1>2, <1>7, <1>8 DEF KnowsAnswered, EndsKnown, Done, Behind
<1>10. EndsStarted'
  <2>1. Logged("start", turn, c) BY <1>2 DEF OnceInv, BatchFresh
  <2> QED BY <1>3, <2>1 DEF TrueInv, EndsStarted
<1>11. ~ Answered(turn) /\ Id(turn, c) \notin DOMAIN ck.done BY <1>2 DEF TrueInv, InBatch
<1>12. MapsTrue'
  <2> DEFINE f == batch.done
             g == Only(Id(turn, c), Real(turn))
  <2>1. f \in Map /\ g \in Map /\ DOMAIN g = {Id(turn, c)} /\ g[Id(turn, c)] = Real(turn)
    BY <1>1, OnlyMap, ResultFacts
  <2>2. Truthful(f) /\ Truthful(ck.done) BY DEF TrueInv, MapsTrue
  <2>3. batch'.done = With(g, f) BY <1>2
  <2> HIDE DEF f, g
  <2>4. /\ DOMAIN With(g, f) = DOMAIN g \cup DOMAIN f
        /\ \A i \in DOMAIN g : With(g, f)[i] = g[i]
        /\ \A i \in DOMAIN f : i \notin DOMAIN g => With(g, f)[i] = f[i]
    BY <2>1, WithMap
  <2>5. ASSUME NEW t \in Turns, NEW d \in ToolCalls, Id(t, d) \in DOMAIN With(g, f)
        PROVE  With(g, f)[Id(t, d)] = Outcome(t, d)'
    <3>1. CASE t = turn /\ d = c
      <4>1. Outcome(t, d)' = Real(turn) BY <1>4, <3>1
      <4>2. With(g, f)[Id(t, d)] = Real(turn) BY <2>1, <2>4, <3>1
      <4> QED BY <4>1, <4>2
    <3>2. CASE ~ (t = turn /\ d = c)
      <4>1. Id(t, d) # Id(turn, c) BY <1>1, <3>2, IdFacts
      <4>2. Id(t, d) \in DOMAIN f /\ With(g, f)[Id(t, d)] = f[Id(t, d)]
        BY <2>1, <2>4, <2>5, <4>1
      <4> QED BY <1>4, <2>2, <3>2, <4>2 DEF Truthful
    <3> QED BY <3>1, <3>2
  <2>6. Truthful(batch.done)' BY <2>3, <2>5 DEF Truthful
  <2>7. Truthful(ck.done)' BY <1>2, <1>4, <1>11, <2>2 DEF Truthful
  <2>8. Truthful(dck.done)' BY <1>2, <2>7 DEF Truthful
  <2> QED BY <2>6, <2>7, <2>8 DEF MapsTrue
<1>13. InBatch'
  <2>1. \A d \in batch'.todo \cup batch'.open : Id(turn, d) \notin DOMAIN ck'.done
    BY <1>2 DEF TrueInv, InBatch
  <2>2. \A d \in ToolCalls :
          \/ Id(turn, d) \in DOMAIN ck'.done \/ Behind(ck, "start", turn, d)'
          \/ d \in batch'.todo
    BY <1>1, <1>2, <1>3 DEF TrueInv, InBatch
  <2> QED BY <1>2, <1>6, <1>11, <2>1, <2>2 DEF InBatch, Behind, Answered
<1>14. MessagesTrue'
  <2> SUFFICES ASSUME NEW j \in DOMAIN sess PROVE TrueMessage(sess[j])'
    BY <1>2 DEF MessagesTrue
  <2>1. TrueMessage(sess[j]) BY DEF TrueInv, MessagesTrue
  <2>2. sess[j] \in Message BY DEF OnceInv, BaseInv, Typing
  <2>3. sess[j].kind = "results" => sess[j].turn \in Turns /\ sess[j].turn # turn
    BY <1>11, <2>2, MessageFacts DEF Answered
  <2> QED BY <1>2, <1>4, <2>1, <2>3 DEF TrueMessage
<1> QED BY <1>7, <1>8, <1>9, <1>10, <1>12, <1>13, <1>14 DEF TrueInv

LEMMA ResultsTrue ==
    ASSUME OnceInv, TrueInv, BaseInv', EndBatch \/ AppendResults
    PROVE  TrueInv'
<1>1. /\ UNCHANGED <<dlog, turn, batch>> /\ pc \in {"tools", "append_results"}
      /\ pc = "tools" => batch.todo = {} /\ sess' = sess
      /\ \/ ck' = SavedResults /\ dck' = dck /\ pc' = "next"
         \/ dck' = ck /\ ck' = ck /\ pc' = "append_results" /\ pc = "tools"
  BY EndBatchStep, AppendResultsStep DEF OnceInv
<1>2. /\ ck \in Checkpoint /\ batch \in Batch /\ turn \in Turns /\ ck.turn = turn
      /\ ck.phase \in ToolPhases
  BY <1>1 DEF OnceInv, BaseInv, Typing, Placed
<1>3. /\ \A kind, t, c : Logged(kind, t, c)' <=> Logged(kind, t, c)
      /\ \A t, c : Outcome(t, c)' = Outcome(t, c) /\ EndsStarted'
  BY <1>1, LogSame DEF TrueInv
<1>4. \A c \in ToolCalls :
         /\ Id(turn, c) \in DOMAIN batch.done
         /\ Id(turn, c) \in DOMAIN ck.done \/ Behind(ck, "start", turn, c)
         /\ Done(ck, turn, c)
  BY <1>1, <1>2 DEF OnceInv, BaseInv, Placed, TrueInv, InBatch, Done
<1>5. KnowsAnswered(ck) /\ EndsKnown(ck) /\ KnowsAnswered(dck) /\ EndsKnown(dck) /\ MapsTrue
  BY <1>1 DEF TrueInv
<1>6. CASE EndBatch
  <2>1. sess' = sess BY <1>6, EndBatchStep DEF OnceInv
  <2>2. (\A t : Answered(t)' <=> Answered(t)) /\ MessagesTrue' BY <1>1, <2>1, HistorySame
  <2>3. CASE dck' = ck /\ ck' = ck /\ pc' = "append_results"
    <3>1. KnowsAnswered(ck)' /\ EndsKnown(ck)' /\ KnowsAnswered(dck)' /\ EndsKnown(dck)'
      BY <1>1, <1>3, <1>5, <2>2, <2>3 DEF KnowsAnswered, EndsKnown, Done, Behind
    <3>2. MapsTrue' BY <1>1, <1>3, <1>5, <2>3 DEF MapsTrue, Truthful
    <3>3. InBatch' BY <1>1, <1>4, <2>3 DEF InBatch, Behind
    <3> QED BY <1>3, <2>2, <3>1, <3>2, <3>3 DEF TrueInv
  <2>4. CASE ck' = SavedResults /\ dck' = dck /\ pc' = "next"
    <3>1. ck'.phase = "tool_results_appended" /\ ck'.turn = turn /\ ck'.done = batch.done
      BY <1>2, <2>4, SavedResultsFacts
    <3>2. KnowsAnswered(dck)' /\ EndsKnown(dck)'
      BY <1>1, <1>3, <1>5, <2>2, <2>4 DEF KnowsAnswered, EndsKnown, Done, Behind
    <3>3. KnowsAnswered(ck)'
      BY <1>1, <1>2, <1>4, <1>5, <2>2, <3>1 DEF KnowsAnswered, Done, ToolPhases
    <3>4. EndsKnown(ck)' BY <1>1, <1>4, <3>1 DEF EndsKnown
    <3>5. MapsTrue' BY <1>1, <1>3, <1>5, <2>4, <3>1 DEF MapsTrue, Truthful
    <3>6. InBatch' BY <2>4 DEF InBatch
    <3> QED BY <1>3, <2>2, <3>2, <3>3, <3>4, <3>5, <3>6 DEF TrueInv
  <2> QED BY <1>6, <2>3, <2>4, EndBatchStep DEF OnceInv
<1>7. CASE AppendResults
  <2>1. /\ pc = "append_results" /\ ck' = SavedResults /\ dck' = dck /\ pc' = "next"
        /\ sess' = Append(sess, BatchResults)
        /\ BatchResults \in ResultsMessage /\ BatchResults.turn = turn
        /\ \A c \in ToolCalls : BatchResults.done[Id(turn, c)] = batch.done[Id(turn, c)]
    BY <1>7, AppendResultsStep DEF OnceInv
  <2> DEFINE n == Len(sess)
             m == BatchResults
  <2>2. m \in Message /\ m.kind = "results" /\ m.turn = turn BY <2>1, MessageFacts
  <2>3. /\ n \in Nat /\ DOMAIN sess = 1..n /\ DOMAIN sess' = 1..(n + 1)
        /\ \A i \in 1..n : sess'[i] = sess[i]
        /\ sess'[n + 1] = m
    <3>1. sess \in Seq(Message) /\ sess' = Append(sess, m) BY <2>1 DEF OnceInv, BaseInv, Typing
    <3> HIDE DEF m
    <3> QED BY <2>2, <3>1, HistoryGrows
  <2>4. TrueMessage(m)
    <3>1. \A c \in ToolCalls : batch.done[Id(turn, c)] = Outcome(turn, c)
      BY <1>2, <1>4, <1>5 DEF MapsTrue, Truthful
    <3> QED BY <2>1, <3>1 DEF TrueMessage
  <2> HIDE DEF n, m
  <2>5. \A j \in 1..(n + 1) : j \in 1..n \/ j = n + 1 BY <2>3
  <2>6. \A t : Answered(t)' => Answered(t) \/ t = turn BY <2>2, <2>3, <2>5 DEF Answered
  <2>7. MessagesTrue'
    <3>1. \A j \in 1..n : TrueMessage(sess[j]) BY <2>3 DEF TrueInv, MessagesTrue
    <3>2. \A j \in DOMAIN sess' : TrueMessage(sess'[j]) BY <2>3, <2>4, <2>5, <3>1
    <3> QED BY <1>1, <3>2, LogSame DEF MessagesTrue
  <2>8. ck'.phase = "tool_results_appended" /\ ck'.turn = turn /\ ck'.done = batch.done
    BY <1>2, <2>1, SavedResultsFacts
  <2>9. KnowsAnswered(ck)'
    BY <1>1, <1>2, <1>4, <1>5, <2>6, <2>8 DEF KnowsAnswered, Done, ToolPhases
  <2>10. dck = ck BY <2>1 DEF TrueInv, InBatch
  <2>11. KnowsAnswered(dck)'
    <3>1. \A t \in Turns, c \in ToolCalls : Answered(t)' => Done(dck, t, c)
      BY <1>4, <1>5, <2>6, <2>10 DEF KnowsAnswered
    <3> QED BY <1>1, <2>1, <3>1 DEF KnowsAnswered, Done, Behind
  <2>12. EndsKnown(dck)' BY <1>1, <1>3, <1>5, <2>1 DEF EndsKnown, Behind
  <2>13. EndsKnown(ck)' BY <1>1, <1>4, <2>8 DEF EndsKnown
  <2>14. MapsTrue' BY <1>1, <1>3, <1>5, <2>1, <2>8 DEF MapsTrue, Truthful
  <2>15. InBatch' BY <2>1 DEF InBatch
  <2> QED BY <1>3, <2>7, <2>9, <2>11, <2>12, <2>13, <2>14, <2>15 DEF TrueInv
<1> QED BY <1>6, <1>7

LEMMA HostTrue ==
    ASSUME OnceInv, TrueInv, Resume \/ Crash \/ Close \/ Notify \/ UNCHANGED vars
    PROVE  TrueInv'
<1>1. UNCHANGED <<dlog, sess>>
  BY DEF Resume, Crash, Close, Stopped, Notify, vars, durable
<1>2. /\ \A kind, t, c : Logged(kind, t, c)' <=> Logged(kind, t, c)
      /\ \A t, c : Outcome(t, c)' = Outcome(t, c) /\ EndsStarted'
  BY <1>1, LogSame DEF TrueInv
<1>3. (\A t : Answered(t)' <=> Answered(t)) /\ MessagesTrue' BY <1>1, HistorySame
<1>4. Truthful(EmptyMap) BY EmptyIsMap DEF Truthful
<1>5. KnowsAnswered(dck) /\ EndsKnown(dck) /\ MapsTrue BY DEF TrueInv
<1>6. CASE Resume
  <2>1. ck' = dck /\ dck' = dck /\ pc' \in {"startup", "reconcile"} /\ batch'.done = EmptyMap
    BY <1>6 DEF Resume, durable, NoBatch
  <2>2. KnowsAnswered(ck)' /\ EndsKnown(ck)' /\ KnowsAnswered(dck)' /\ EndsKnown(dck)'
    BY <1>1, <1>2, <1>3, <1>5, <2>1 DEF KnowsAnswered, EndsKnown, Done, Behind
  <2>3. MapsTrue' BY <1>2, <1>4, <1>5, <2>1 DEF MapsTrue, Truthful
  <2>4. InBatch' BY <2>1 DEF InBatch
  <2> QED BY <1>2, <1>3, <2>2, <2>3, <2>4 DEF TrueInv
<1>7. CASE Crash \/ Close
  <2>1. /\ pc # "off" /\ dck' \in {dck, ck} /\ pc' = "off" /\ ck'.done = EmptyMap
        /\ batch'.done = EmptyMap
    BY <1>7, StartedFacts DEF Crash, Close, Stopped, Barrier, NoBatch
  <2>2. KnowsAnswered(ck) /\ EndsKnown(ck) BY <2>1 DEF TrueInv
  <2>3. KnowsAnswered(dck)' /\ EndsKnown(dck)'
    <3>1. CASE dck' = dck
      BY <1>1, <1>2, <1>3, <1>5, <3>1 DEF KnowsAnswered, EndsKnown, Done, Behind
    <3>2. CASE dck' = ck
      BY <1>1, <1>2, <1>3, <2>2, <3>2 DEF KnowsAnswered, EndsKnown, Done, Behind
    <3> QED BY <2>1, <3>1, <3>2
  <2>4. MapsTrue'
    <3>1. dck'.done \in {dck.done, ck.done} BY <2>1
    <3> QED BY <1>2, <1>4, <1>5, <2>1, <3>1 DEF MapsTrue, Truthful
  <2>5. InBatch' BY <2>1 DEF InBatch
  <2> QED BY <1>2, <1>3, <2>1, <2>3, <2>4, <2>5 DEF TrueInv
<1>8. CASE Notify \/ UNCHANGED vars
  <2>1. UNCHANGED <<dck, ck, pc, turn, batch>>
    BY <1>8 DEF Notify, vars, durable, attempt
  <2>2. KnowsAnswered(dck)' /\ EndsKnown(dck)'
    BY <1>1, <1>2, <1>3, <1>5, <2>1 DEF KnowsAnswered, EndsKnown, Done, Behind
  <2>3. pc' # "off" => KnowsAnswered(ck)' /\ EndsKnown(ck)'
    BY <1>1, <1>2, <1>3, <2>1 DEF TrueInv, KnowsAnswered, EndsKnown, Done, Behind
  <2>4. MapsTrue' BY <1>2, <1>5, <2>1 DEF MapsTrue, Truthful
  <2>5. InBatch' BY <1>1, <1>3, <2>1 DEF TrueInv, InBatch, Behind
  <2> QED BY <1>2, <1>3, <2>2, <2>3, <2>4, <2>5 DEF TrueInv
<1> QED BY <1>6, <1>7, <1>8

LEMMA TrueStep ==
    ASSUME ~ RecurringIds, OnceInv, TrueInv, [Next]_vars
    PROVE  TrueInv'
<1>1. BaseInv' BY BaseStep DEF OnceInv
<1> QED
  BY <1>1, TurnCases, QuietTrue, StartBatchTrue, StartToolTrue, RunToolTrue, EndToolTrue,
     ResultsTrue, HostTrue
     DEF QuietStep, ToolCalls

LEMMA MessagesAreTrue ==
    ASSUME OnceInv, TrueInv
    PROVE  ResultsAreTrue
<1> SUFFICES ASSUME NEW m \in ResultMessages, NEW c \in ToolCalls
             PROVE  m.done[Id(m.turn, c)]
                       = IF Ended(m.turn, c) THEN Real(m.turn) ELSE Interrupted
  BY DEF ResultsAreTrue, ToolCalls
<1>1. PICK j \in DOMAIN sess : m = sess[j] BY DEF ResultMessages, ToSet
<1>2. m.kind = "results" BY DEF ResultMessages
<1>3. m.done[Id(m.turn, c)] = Outcome(m.turn, c)
  BY <1>1, <1>2 DEF TrueInv, MessagesTrue, TrueMessage
<1>4. Ended(m.turn, c) <=> Logged("end", m.turn, c) BY DEF Ended, Logged, Ev, ToSet
<1> QED BY <1>3, <1>4 DEF Outcome

(* Where tool-use ids do not recur, every result in the history is the one  *)
(* its own call recorded: a finished result is never lost to the            *)
(* placeholder of an interrupted tool, and no call is given one that it did *)
(* not record, wherever the attempts stop                                   *)
(* (_recover_completed_tool_results, run_tool_batch).                       *)
THEOREM TrueResults ==
    ASSUME ~ RecurringIds
    PROVE  Spec => []ResultsAreTrue
<1>1. Init => OnceInv /\ TrueInv BY InitOnce, InitTrue
<1>2. (OnceInv /\ TrueInv) /\ [Next]_vars => (OnceInv /\ TrueInv)' BY OnceStep, TrueStep
<1>3. OnceInv /\ TrueInv => ResultsAreTrue BY MessagesAreTrue
<1> QED BY <1>1, <1>2, <1>3, PTL DEF Spec

-----------------------------------------------------------------------------
(* The history is that of a run without a stop.  Two facts carry it: each   *)
(* checkpoint, durable or working, fits the history (Fits), and where the   *)
(* attempt is says which message comes next (InPlace).                      *)

(* Messages apart from notifications.                                       *)
Count(s, n) == Cardinality({j \in 1 .. n : s[j].kind # "note"})
Size(s) == Count(s, Len(s))

(* The history ends with tool calls of a turn, or with their results.       *)
Calling(s, t) == Size(s) = 2 + 2 * t /\ s # <<>> /\ s[Len(s)] = Assistant(t, FALSE)
Answering(s, t) ==
    /\ Size(s) = 3 + 2 * t /\ s # <<>> /\ s[Len(s)].kind = "results"
    /\ DOMAIN s[Len(s)].done = {Id(t, c) : c \in ToolCalls}

(* The history a delivery was bound to, or that and the accepted message.   *)
AtBase(k, s) == Len(s) = k.base /\ Size(s) = 1 + 2 * k.turn
PastBase(k, s, accepted) ==
    /\ Len(s) = k.base + 1 /\ Size(s) = 2 + 2 * k.turn
    /\ accepted # <<>> /\ s[k.base + 1] = accepted[1]

Fits(k, s, accepted) ==
    /\ k.phase = "started" => k.turn = 0 /\ (s = <<>> \/ s = <<Prompt>>)
    /\ k.phase = "user_appended" => Size(s) = 1 /\ k.turn = 0
    /\ k.phase = "provider_pending" => AtBase(k, s) \/ PastBase(k, s, accepted)
    /\ k.phase = "assistant_appended" =>
          Size(s) = 2 + 2 * k.turn /\ s # <<>> /\ s[Len(s)] = k.asst[1]
    /\ k.phase \in {"tool_batch_pending", "tool_executing"} =>
          Calling(s, k.turn) \/ Answering(s, k.turn)
    /\ k.phase = "tool_results_appended" => Answering(s, k.turn)
    /\ k.phase = "turn_complete" => Size(s) = 3 + 2 * k.turn
    /\ k.phase = "completed" => Size(s) = 2 + 2 * k.turn

Orderly(s, n, m) ==
    IF n = 1 THEN m = Prompt
    ELSE /\ m.kind = IF n % 2 = 0 THEN "assistant" ELSE "results"
         /\ m.turn = (n \div 2) - 1

Transcript(s) ==
    /\ \A i \in DOMAIN s :
          s[i].kind = "results" => i > 1 /\ s[i - 1] = Assistant(s[i].turn, FALSE)
    /\ \A i \in DOMAIN s : s[i].kind # "note" => Orderly(s, Count(s, i), s[i])

InPlace ==
    /\ pc \in {"append_prompt", "append_note", "call", "append_assistant", "append_results"} =>
          dck = ck
    /\ pc = "append_prompt" => sess = <<>>
    /\ pc = "startup" /\ ~ resumed => sess = <<>>
    /\ pc \in {"reconcile", "top", "append_note"} => ck.phase # "started"
    /\ pc \in {"top", "append_note"} /\ ck.phase = "provider_pending" => AtBase(ck, sess)
    /\ pc \in {"call", "append_assistant"} => AtBase(ck, sess)
    /\ pc \in {"final", "complete"} => ck.phase = "assistant_appended"
    /\ pc = "tools" =>
          /\ Calling(sess, turn) \/ (resumed /\ Answering(sess, turn))
          /\ batch.replay => Answering(sess, turn)
    /\ pc = "append_results" =>
          Calling(sess, turn) /\ ck.phase \in {"tool_batch_pending", "tool_executing"}
    /\ pc = "next" => Answering(sess, turn)

Kept ==
    /\ Transcript(sess)
    /\ Fits(dck, sess, dproj) /\ (pc # "off" => Fits(ck, sess, dproj))
    /\ InPlace

HistoryInv == midTurn \/ Kept

LEMMA CountFacts ==
    ASSUME NEW s \in Seq(Message)
    PROVE  /\ Count(s, 0) = 0
           /\ \A n \in 0 .. Len(s) : Count(s, n) \in Nat
           /\ Size(s) \in Nat
<1> DEFINE C(n) == {j \in 1 .. n : s[j].kind # "note"}
<1>1. \A n \in Nat : IsFiniteSet(C(n))
  <2> SUFFICES ASSUME NEW n \in Nat PROVE IsFiniteSet(C(n)) OBVIOUS
  <2>1. IsFiniteSet(1 .. n) BY FS_Interval
  <2>2. C(n) \in SUBSET (1 .. n) OBVIOUS
  <2> HIDE DEF C
  <2> QED BY <2>1, <2>2, FS_Subset
<1>2. C(0) = {} OBVIOUS
<1>3. Len(s) \in Nat OBVIOUS
<1>4. \A n : Count(s, n) = Cardinality(C(n)) BY DEF Count
<1> HIDE DEF C
<1>5. \A n \in Nat : Count(s, n) \in Nat BY <1>1, <1>4, FS_CardinalityType
<1>6. Count(s, 0) = 0 BY <1>2, <1>4, FS_EmptySet
<1>7. \A n \in 0 .. Len(s) : n \in Nat BY <1>3
<1> QED BY <1>3, <1>5, <1>6, <1>7 DEF Size

Grown(s, m, t) ==
    /\ \A n \in 0 .. Len(s) : Count(t, n) = Count(s, n)
    /\ Count(t, Len(s) + 1) = Size(t)
    /\ Size(t) = IF m.kind = "note" THEN Size(s) ELSE Size(s) + 1
    /\ t \in Seq(Message) /\ Len(t) = Len(s) + 1 /\ Len(s) \in Nat /\ t # <<>>
    /\ t[Len(t)] = m /\ \A i \in 1 .. Len(s) : t[i] = s[i]

LEMMA SizeGrows ==
    ASSUME NEW s \in Seq(Message), NEW m \in Message, NEW t, t = Append(s, m)
    PROVE  Grown(s, m, t)
<1>1. /\ t \in Seq(Message) /\ Len(t) = Len(s) + 1 /\ Len(s) \in Nat
      /\ t[Len(s) + 1] = m /\ \A i \in 1 .. Len(s) : t[i] = s[i]
  OBVIOUS
<1>a. t # <<>> BY <1>1
<1> DEFINE L == Len(s)
           A == {j \in 1 .. L : s[j].kind # "note"}
           B == {j \in 1 .. (L + 1) : t[j].kind # "note"}
<1>2. ASSUME NEW n \in 0 .. L
      PROVE  Count(t, n) = Count(s, n)
  <2>1. {j \in 1 .. n : t[j].kind # "note"} = {j \in 1 .. n : s[j].kind # "note"}
    BY <1>1
  <2> QED BY <2>1 DEF Count
<1>3. Size(s) = Cardinality(A) /\ Count(t, L + 1) = Cardinality(B) /\ Size(t) = Count(t, L + 1)
  BY <1>1 DEF Size, Count
<1>4. IsFiniteSet(A)
  <2>1. IsFiniteSet(1 .. L) /\ A \in SUBSET (1 .. L) BY <1>1, FS_Interval
  <2> HIDE DEF A
  <2> QED BY <2>1, FS_Subset
<1>5. B = IF m.kind = "note" THEN A ELSE A \cup {L + 1} BY <1>1
<1>6. L + 1 \notin A BY <1>1
<1> HIDE DEF A, B
<1>7. Size(t) = IF m.kind = "note" THEN Size(s) ELSE Size(s) + 1
  BY <1>3, <1>4, <1>5, <1>6, FS_AddElement
<1> QED BY <1>1, <1>a, <1>2, <1>3, <1>7 DEF Grown

LEMMA TranscriptIs ==
    /\ OrderlyTranscript <=> midTurn \/ Transcript(sess)
    /\ Exchanged(Len(sess)) = Size(sess)
<1>1. \A n : Exchanged(n) = Count(sess, n) BY DEF Exchanged, Count
<1>2. Transcript(sess) <=>
        /\ ResultsFollowCalls
        /\ \A i \in {j \in DOMAIN sess : sess[j].kind # "note"} :
              LET n == Exchanged(i)
              IN  IF n = 1 THEN sess[i] = Prompt
                  ELSE /\ sess[i].kind = IF n % 2 = 0 THEN "assistant" ELSE "results"
                       /\ sess[i].turn = (n \div 2) - 1
  BY <1>1 DEF Transcript, Orderly, ResultsFollowCalls
<1> QED BY <1>1, <1>2 DEF OrderlyTranscript, Size

(* The messages an orderly history may continue with.                       *)
Follows(s, m) ==
    \/ m = Note
    \/ m = Prompt /\ s = <<>>
    \/ m \in AssistantMessage /\ Size(s) = 1 + 2 * m.turn
    \/ m \in ResultsMessage /\ Calling(s, m.turn)

LEMMA TranscriptGrows ==
    ASSUME NEW s \in Seq(Message), NEW m \in Message, Transcript(s), Follows(s, m)
    PROVE  Transcript(Append(s, m))
<1> DEFINE t == Append(s, m)
           L == Len(s)
<1>0. t = Append(s, m) /\ DOMAIN s = 1 .. L OBVIOUS
<1> HIDE DEF t
<1>g. Grown(s, m, t) BY <1>0, SizeGrows
<1>1. /\ \A n \in 0 .. L : Count(t, n) = Count(s, n)
      /\ Count(t, L + 1) = Size(t)
      /\ Size(t) = IF m.kind = "note" THEN Size(s) ELSE Size(s) + 1
      /\ t \in Seq(Message) /\ Len(t) = L + 1 /\ L \in Nat /\ t # <<>>
      /\ t[Len(t)] = m /\ \A i \in 1 .. L : t[i] = s[i]
  BY <1>g DEF Grown
<1>2. DOMAIN t = 1 .. (L + 1) /\ DOMAIN s = 1 .. L BY <1>0, <1>1
<1>i. \A i \in DOMAIN t : i \in 1 .. L \/ i = L + 1 BY <1>1, <1>2
<1>3. Size(s) \in Nat BY CountFacts
<1>4. ASSUME NEW i \in DOMAIN t, t[i].kind = "results"
      PROVE  i > 1 /\ t[i - 1] = Assistant(t[i].turn, FALSE)
  <2>1. CASE i \in 1 .. L
    <3>1. i > 1 /\ s[i - 1] = Assistant(s[i].turn, FALSE)
      BY <1>1, <1>2, <1>4, <2>1 DEF Transcript
    <3>2. i - 1 \in 1 .. L BY <2>1, <3>1
    <3> QED BY <1>1, <2>1, <3>1, <3>2
  <2>2. CASE i = L + 1
    <3>1. Calling(s, m.turn) BY <1>1, <1>4, <2>2, MessageFacts DEF Follows
    <3>2. L > 0 /\ s[L] = Assistant(m.turn, FALSE) BY <1>1, <3>1 DEF Calling
    <3>3. i - 1 = L /\ L \in 1 .. L /\ i > 1 BY <1>1, <2>2, <3>2
    <3>4. t[L] = s[L] /\ t[i] = m BY <1>1, <2>2, <3>3
    <3> QED BY <3>2, <3>3, <3>4
  <2> QED BY <1>4, <1>i, <2>1, <2>2
<1>5. ASSUME NEW i \in DOMAIN t, t[i].kind # "note"
      PROVE  Orderly(t, Count(t, i), t[i])
  <2>1. CASE i \in 1 .. L
    <3>1. Orderly(s, Count(s, i), s[i]) BY <1>1, <1>2, <1>5, <2>1 DEF Transcript
    <3>2. Count(t, i) = Count(s, i) /\ t[i] = s[i] BY <1>1, <2>1
    <3> QED BY <3>1, <3>2 DEF Orderly
  <2>2. CASE i = L + 1
    <3> DEFINE n == Size(s) + 1
    <3>1. t[i] = m /\ m.kind # "note" /\ Count(t, i) = n BY <1>1, <1>5, <2>2
    <3>2. CASE m = Prompt /\ s = <<>>
      <4>1. Size(s) = 0 BY <3>2, CountFacts DEF Size
      <4> QED BY <3>1, <3>2, <4>1 DEF Orderly
    <3>3. CASE m \in AssistantMessage /\ Size(s) = 1 + 2 * m.turn
      <4>1. m.turn \in Nat /\ m.kind = "assistant" BY <3>3, MessageFacts, ConstantFacts
      <4>2. n = 2 + 2 * m.turn BY <3>3, <4>1
      <4>3. n % 2 = 0 /\ n \div 2 = 1 + m.turn /\ n # 1 BY <4>1, <4>2
      <4> HIDE DEF n
      <4> QED BY <3>1, <4>1, <4>3 DEF Orderly
    <3>4. CASE m \in ResultsMessage /\ Calling(s, m.turn)
      <4>1. m.turn \in Nat /\ m.kind = "results" BY <3>4, MessageFacts, ConstantFacts
      <4>2. n = 3 + 2 * m.turn BY <3>4, <4>1 DEF Calling
      <4>3. n % 2 = 1 /\ n \div 2 = 1 + m.turn /\ n # 1 BY <4>1, <4>2
      <4> HIDE DEF n
      <4> QED BY <3>1, <4>1, <4>3 DEF Orderly
    <3> QED BY <3>1, <3>2, <3>3, <3>4, MessageFacts DEF Follows
  <2> QED BY <1>1, <1>2, <2>1, <2>2
<1>6. Transcript(t) BY <1>4, <1>5 DEF Transcript
<1> QED BY <1>6 DEF t

(* A step that leaves the history alone, and one that adds to it.           *)
LEMMA HistoryRests ==
    ASSUME BaseInv, Kept, UNCHANGED sess
    PROVE  Transcript(sess)'
BY DEF Kept, Transcript, Orderly, Count

LEMMA PhaseFacts ==
    /\ ToolPhases \subseteq Accepted
    /\ Accepted = {"assistant_appended"} \cup ToolPhases
    /\ Terminal = {"completed", "failed"}
    /\ "started" \notin Accepted \cup Terminal
    /\ "user_appended" \notin Accepted \cup Terminal
    /\ "provider_pending" \notin Accepted \cup Terminal
    /\ "turn_complete" \notin Accepted \cup Terminal
    /\ "assistant_appended" \notin ToolPhases
    /\ {"started", "user_appended", "provider_pending", "turn_complete", "completed"} \subseteq Phases
    /\ {"assistant_appended", "tool_results_appended"} \subseteq Phases
BY DEF ToolPhases, Accepted, Terminal, Phases

LEMMA StartupHistory ==
    ASSUME BaseInv, Kept, Startup
    PROVE  Kept'
<1>1. Transcript(sess)' BY HistoryRests DEF Startup
<1>2. /\ pc = "startup" /\ ck.phase = "started" /\ ck \in Checkpoint /\ sess \in Seq(Message)
      /\ UNCHANGED <<sess, dproj, resumed>>
      /\ Fits(ck, sess, dproj) /\ Fits(dck, sess, dproj)
  BY DEF Startup, BaseInv, Typing, Placed, Kept
<1>3. sess = <<>> \/ sess = <<Prompt>> BY <1>2 DEF Fits
<1>4. CASE resumed /\ sess # <<>> /\ Last(sess) = Prompt
  <2>1. sess = <<Prompt>> BY <1>3, <1>4
  <2>2. ck' = Saved("user_appended", ck.turn) /\ dck' = dck /\ pc' = "reconcile"
    BY <1>4 DEF Startup
  <2>3. ck'.phase = "user_appended" /\ ck'.turn = ck.turn
    BY <1>2, <2>2, SavedFacts, CheckpointFacts, PhaseFacts
  <2>4. Size(sess) = 1 /\ ck.turn = 0
    <3>1. sess = Append(<<>>, Prompt) /\ <<>> \in Seq(Message) /\ Len(<<>>) = 0
      BY <2>1
    <3>a. Grown(<<>>, Prompt, sess) BY <3>1, SizeGrows, MessageFacts
    <3>2. Size(sess) = Size(<<>>) + 1 BY <3>a, MessageFacts DEF Grown
    <3>3. Size(<<>>) = 0 BY <3>1, CountFacts DEF Size
    <3>4. ck.turn = 0 BY <1>2 DEF Fits
    <3> QED BY <3>2, <3>3, <3>4
  <2>5. Fits(ck', sess, dproj) BY <2>3, <2>4 DEF Fits
  <2>6. InPlace' BY <2>2, <2>3 DEF InPlace
  <2> QED BY <1>1, <1>2, <2>2, <2>5, <2>6 DEF Kept
<1>5. CASE ~ (resumed /\ sess # <<>> /\ Last(sess) = Prompt)
  <2>1. sess = <<>>
    <3>1. sess = <<Prompt>> => sess # <<>> /\ Last(sess) = Prompt
      BY DEF Last
    <3>2. ~ resumed => sess = <<>> BY <1>2 DEF Kept, InPlace
    <3> QED BY <1>3, <1>5, <3>1, <3>2
  <2>2. ck' = ck /\ dck' = ck /\ pc' = "append_prompt" BY <1>5 DEF Startup, Barrier
  <2>3. InPlace' BY <1>2, <2>1, <2>2 DEF InPlace
  <2> QED BY <1>1, <1>2, <2>2, <2>3 DEF Kept
<1> QED BY <1>4, <1>5

LEMMA PromptHistory ==
    ASSUME BaseInv, Kept, AppendPrompt
    PROVE  Kept'
<1>1. /\ pc = "append_prompt" /\ ck.phase = "started" /\ ck \in Checkpoint
      /\ sess \in Seq(Message) /\ sess = <<>> /\ dck = ck /\ Fits(ck, sess, dproj)
      /\ sess' = Append(sess, Prompt) /\ ck' = Saved("user_appended", ck.turn)
      /\ pc' = "reconcile" /\ UNCHANGED <<dck, dproj>>
  BY DEF AppendPrompt, BaseInv, Typing, Placed, Kept, InPlace
<1>2. Grown(sess, Prompt, sess') BY <1>1, SizeGrows, MessageFacts
<1>3. Size(sess') = 1 /\ sess' = <<Prompt>>
  <2>1. Size(sess) = 0 BY <1>1, CountFacts DEF Size
  <2>2. Size(sess') = Size(sess) + 1 BY <1>2, MessageFacts DEF Grown
  <2> QED BY <1>1, <2>1, <2>2
<1>4. ck'.phase = "user_appended" /\ ck'.turn = 0
  BY <1>1, SavedFacts, CheckpointFacts, PhaseFacts DEF Fits
<1>5. Transcript(sess)'
  BY <1>1, TranscriptGrows, MessageFacts DEF Kept, Follows
<1>6. Fits(ck', sess', dproj') BY <1>3, <1>4 DEF Fits
<1>7. Fits(dck', sess', dproj') BY <1>1, <1>3 DEF Fits
<1>8. InPlace' BY <1>1, <1>4 DEF InPlace
<1> QED BY <1>1, <1>5, <1>6, <1>7, <1>8 DEF Kept

LEMMA ReconcileHistory ==
    ASSUME BaseInv, Kept, Reconcile
    PROVE  Kept'
<1>1. Transcript(sess)' BY HistoryRests DEF Reconcile
<1>2. /\ pc = "reconcile" /\ ck \in Checkpoint /\ sess \in Seq(Message)
      /\ ck.phase # "started" /\ UNCHANGED <<sess, dproj>>
      /\ Fits(ck, sess, dproj) /\ Fits(dck, sess, dproj)
  BY DEF Reconcile, BaseInv, Typing, Kept, InPlace
<1>3. CASE dck' = ck' /\ ck'.phase = "failed" /\ pc' = "off"
  <2>1. Fits(dck', sess', dproj') BY <1>3 DEF Fits
  <2>2. InPlace' BY <1>3 DEF InPlace
  <2> QED BY <1>1, <1>3, <2>1, <2>2 DEF Kept
<1>4. CASE ck' = ck /\ dck' = dck /\ pc' = "top"
           /\ (ck.phase = "provider_pending" => Suffix = <<>>)
  <2>1. ck.phase = "provider_pending" => AtBase(ck, sess)
    <3> SUFFICES ASSUME ck.phase = "provider_pending", PastBase(ck, sess, dproj)
                 PROVE  FALSE
      BY <1>2 DEF Fits
    <3>1. Suffix = SubSeq(sess, ck.base + 1, Len(sess)) BY DEF Suffix
    <3>2. Len(sess) = ck.base + 1 /\ ck.base \in Nat
      BY <1>2, CheckpointFacts DEF PastBase
    <3>3. \A b \in Nat : Len(sess) = b + 1 => Len(SubSeq(sess, b + 1, Len(sess))) = 1
      BY <1>2
    <3>4. Len(Suffix) = 1 BY <3>1, <3>2, <3>3
    <3> QED BY <1>4, <3>4
  <2>2. InPlace' BY <1>2, <1>4, <2>1 DEF InPlace
  <2> QED BY <1>1, <1>2, <1>4, <2>2 DEF Kept
<1>5. CASE /\ ck.phase = "provider_pending" /\ Suffix # <<>> /\ IsPrefix(Suffix, dproj)
           /\ ck' = SavedAssistant(Suffix[1]) /\ dck' = dck /\ pc' = "top"
  <2>1. dproj # <<>> /\ Suffix[1] = dproj[1] BY <1>5, SuffixIsAccepted
  <2>2. dproj[1] \in AssistantMessage /\ dproj[1].turn = ck.turn
    BY <1>5, <2>1, SingleFacts DEF BaseInv, Typing, Sound
  <2>3. /\ ck'.phase = "assistant_appended" /\ ck'.turn = ck.turn /\ ck'.asst = <<dproj[1]>>
    BY <1>2, <1>5, <2>1, <2>2, SavedAssistantFacts DEF BaseInv, Typing
  <2>4. PastBase(ck, sess, dproj)
    <3> SUFFICES ASSUME AtBase(ck, sess) PROVE FALSE
      BY <1>2, <1>5 DEF Fits
    <3>1. Suffix = SubSeq(sess, ck.base + 1, Len(sess)) BY <1>5 DEF Suffix
    <3>2. Len(sess) = ck.base /\ ck.base \in Nat BY <1>2, CheckpointFacts DEF AtBase
    <3>3. Suffix = <<>> BY <1>2, <3>1, <3>2
    <3> QED BY <1>5, <3>3
  <2>5. sess # <<>> /\ sess[Len(sess)] = dproj[1] /\ Size(sess) = 2 + 2 * ck.turn
    <3>1. Len(sess) = ck.base + 1 /\ ck.base \in Nat
      BY <1>2, <2>4, CheckpointFacts DEF PastBase
    <3> QED BY <1>2, <2>4, <3>1 DEF PastBase
  <2>6. Fits(ck', sess', dproj') BY <1>2, <2>3, <2>5 DEF Fits
  <2>7. InPlace' BY <1>5, <2>3 DEF InPlace
  <2> QED BY <1>1, <1>2, <1>5, <2>6, <2>7 DEF Kept
<1>6. ASSUME ~ (~ resumed \/ ck.phase \notin {"provider_pending", "assistant_appended"}),
             ~ IsPrefix(Suffix, dproj)
      PROVE  dck' = ck' /\ ck'.phase = "failed" /\ pc' = "off"
  <2>1. ck' = [ck EXCEPT !.phase = "failed"] /\ dck' = ck' /\ pc' = "off"
    BY <1>6 DEF Reconcile
  <2> QED BY <1>2, <2>1 DEF Checkpoint
<1>7. ~ resumed => ck.phase # "provider_pending"
  BY <1>2 DEF BaseInv, Placed, BeforeCall
<1> QED BY <1>3, <1>4, <1>5, <1>6, <1>7 DEF Reconcile

LEMMA NoteHistory ==
    ASSUME BaseInv, Kept, ~ midTurn', DrainNote \/ AppendNote
    PROVE  Kept'
<1>1. CASE DrainNote
  <2>1. /\ pc = "top" /\ pc' = "append_note" /\ dck' = ck /\ UNCHANGED <<ck, sess, dproj>>
    BY <1>1 DEF DrainNote, Barrier
  <2>2. Transcript(sess)' BY <2>1, HistoryRests
  <2>3. InPlace' BY <2>1 DEF Kept, InPlace
  <2> QED BY <2>1, <2>2, <2>3 DEF Kept
<1>2. CASE AppendNote
  <2>1. /\ pc = "append_note" /\ pc' = "top" /\ UNCHANGED <<dck, ck, dproj, turn>>
        /\ sess' = Append(sess, Note) /\ sess \in Seq(Message)
        /\ dck = ck /\ ck.phase # "started" /\ Fits(ck, sess, dproj) /\ ck \in Checkpoint
        /\ ck.phase \notin Terminal
    BY <1>2 DEF AppendNote, BaseInv, Typing, Placed, Kept, InPlace
  <2>2. ~ (resumed /\ turn = ck.turn /\ ck.phase \in Accepted \cup {"provider_pending"})
    BY <1>2 DEF AppendNote
  <2>3. ck.phase \in {"user_appended", "turn_complete"}
    <3>1. turn = IF ck.phase = "turn_complete" THEN ck.turn + 1 ELSE ck.turn
      BY <2>1 DEF BaseInv, Placed, BeforeCall
    <3>2. ~ resumed => ck.phase \in {"started", "user_appended", "turn_complete"}
      BY <2>1 DEF BaseInv, Placed, BeforeCall
    <3>3. ck.phase \in Phases BY <2>1, CheckpointFacts
    <3> QED BY <2>1, <2>2, <3>1, <3>2, <3>3 DEF Phases
  <2>4. Grown(sess, Note, sess') BY <2>1, SizeGrows, MessageFacts
  <2>5. Size(sess') = Size(sess) BY <2>4, MessageFacts DEF Grown
  <2>6. Transcript(sess)' BY <2>1, TranscriptGrows, MessageFacts DEF Kept, Follows
  <2>7. Fits(ck, sess', dproj) BY <2>1, <2>3, <2>5 DEF Fits
  <2>8. InPlace' BY <2>1, <2>3 DEF InPlace
  <2> QED BY <2>1, <2>6, <2>7, <2>8 DEF Kept
<1> QED BY <1>1, <1>2

LEMMA ReplayHistory ==
    ASSUME BaseInv, Kept, ReplayTurn
    PROVE  Kept'
<1>1. /\ pc = "top" /\ UNCHANGED <<sess, dck, ck, dproj, turn>> /\ ck \in Checkpoint
      /\ ck.phase \in Accepted
      /\ pc' = IF ck.asst[1].final THEN "final" ELSE "batch"
  BY DEF ReplayTurn, ResumedAssistant, durable, BaseInv, Typing
<1>2. Transcript(sess)' BY <1>1, HistoryRests
<1>3. ck.asst[1].final => ck.phase = "assistant_appended"
  BY <1>1, PhaseFacts DEF BaseInv, Sound
<1>4. InPlace' BY <1>1, <1>3 DEF InPlace
<1> QED BY <1>1, <1>2, <1>4 DEF Kept

(* At the top of a turn the history holds the turns before it.              *)
LEMMA TopHistory ==
    ASSUME BaseInv, Kept, pc = "top", ~ ResumedAssistant
    PROVE  Size(sess) = 1 + 2 * turn
<1>1. /\ ck \in Checkpoint /\ ck.phase \in Phases /\ ck.phase \notin Terminal
      /\ ck.phase # "started" /\ Fits(ck, sess, dproj)
      /\ ck.turn \in Nat /\ turn \in Nat
      /\ turn = IF ck.phase = "turn_complete" THEN ck.turn + 1 ELSE ck.turn
      /\ ~ resumed => ck.phase \in {"started", "user_appended", "turn_complete"}
      /\ ck.phase = "provider_pending" => AtBase(ck, sess)
  BY CheckpointFacts, ConstantFacts DEF BaseInv, Typing, Placed, BeforeCall, Kept, InPlace
<1>2. ck.phase \notin Accepted
  <2> SUFFICES ASSUME ck.phase \in Accepted PROVE FALSE OBVIOUS
  <2>1. resumed /\ turn = ck.turn BY <1>1, PhaseFacts
  <2>2. ck.asst # <<>> BY DEF BaseInv, Sound
  <2> QED BY <2>1, <2>2 DEF ResumedAssistant
<1>3. ck.phase \in {"user_appended", "provider_pending", "turn_complete"}
  BY <1>1, <1>2 DEF Phases
<1>4. CASE ck.phase = "user_appended" BY <1>1, <1>4 DEF Fits
<1>5. CASE ck.phase = "provider_pending" BY <1>1, <1>5 DEF AtBase
<1>6. CASE ck.phase = "turn_complete"
  <2>1. Size(sess) = 3 + 2 * ck.turn /\ turn = ck.turn + 1 BY <1>1, <1>6 DEF Fits
  <2> QED BY <1>1, <2>1
<1> QED BY <1>3, <1>4, <1>5, <1>6

LEMMA BindHistory ==
    ASSUME BaseInv, Kept, BindPrimary
    PROVE  Kept'
<1>1. /\ pc = "top" /\ pc' = "call" /\ UNCHANGED <<sess, turn>> /\ dck' = ck'
      /\ ck' = [Saved("provider_pending", turn) EXCEPT !.base = Len(sess)]
      /\ ck \in Checkpoint /\ turn \in Turns
  BY DEF BindPrimary, BaseInv, Typing
<1>2. Transcript(sess)' BY <1>1, HistoryRests
<1>3. ck'.phase = "provider_pending" /\ ck'.turn = turn /\ ck'.base = Len(sess)
  <2>1. Saved("provider_pending", turn) \in Checkpoint
        /\ Saved("provider_pending", turn).phase = "provider_pending"
        /\ Saved("provider_pending", turn).turn = turn
    BY <1>1, SavedFacts, PhaseFacts
  <2> QED BY <1>1, <2>1 DEF Checkpoint
<1>4. Size(sess) = 1 + 2 * turn BY TopHistory DEF BindPrimary
<1>5. AtBase(ck', sess') BY <1>1, <1>3, <1>4 DEF AtBase
<1>6. Fits(ck', sess', dproj') BY <1>3, <1>5 DEF Fits
<1>7. InPlace' BY <1>1, <1>5 DEF InPlace
<1> QED BY <1>1, <1>2, <1>6, <1>7 DEF Kept

LEMMA AcceptHistory ==
    ASSUME BaseInv, Kept, AcceptPrimary
    PROVE  Kept'
<1>1. /\ pc = "call" /\ pc' = "append_assistant" /\ dck' = ck
      /\ UNCHANGED <<sess, ck, turn>> /\ AtBase(ck, sess) /\ ck.phase = "provider_pending"
  BY DEF AcceptPrimary, Barrier, BaseInv, Placed, Kept, InPlace
<1>2. Transcript(sess)' BY <1>1, HistoryRests
<1>3. Fits(ck, sess, dproj') BY <1>1 DEF Fits
<1>4. InPlace' BY <1>1 DEF InPlace
<1> QED BY <1>1, <1>2, <1>3, <1>4 DEF Kept

LEMMA AssistantHistory ==
    ASSUME BaseInv, Kept, AppendAssistant
    PROVE  Kept'
<1> DEFINE m == dproj[1]
<1>1. /\ pc = "append_assistant" /\ UNCHANGED <<dck, dproj, turn>>
      /\ sess' = sess \o dproj /\ ck' = SavedAssistant(m)
      /\ pc' = IF m.final THEN "final" ELSE "batch"
      /\ dck = ck /\ AtBase(ck, sess) /\ ck.phase = "provider_pending" /\ ck.turn = turn
      /\ ck \in Checkpoint /\ sess \in Seq(Message) /\ dproj # <<>>
  BY DEF AppendAssistant, BaseInv, Typing, Placed, Kept, InPlace
<1>2. m \in AssistantMessage /\ dproj = <<m>> /\ m.turn = turn /\ turn \in Nat
  BY <1>1, SingleFacts, ConstantFacts DEF BaseInv, Typing, Sound
<1> HIDE DEF m
<1>3. m \in Message /\ m.kind = "assistant" BY <1>2, MessageFacts
<1>4. sess' = Append(sess, m) BY <1>1, <1>2, <1>3
<1>5. Grown(sess, m, sess') BY <1>1, <1>3, <1>4, SizeGrows
<1>6. /\ Size(sess') = 2 + 2 * turn /\ sess' # <<>> /\ sess'[Len(sess')] = m
      /\ Len(sess') = ck.base + 1
  BY <1>1, <1>2, <1>3, <1>5 DEF Grown, AtBase
<1>7. Transcript(sess)'
  <2>1. Follows(sess, m) BY <1>1, <1>2 DEF Follows, AtBase
  <2> QED BY <1>1, <1>3, <1>4, <2>1, TranscriptGrows DEF Kept
<1>8. ck'.phase = "assistant_appended" /\ ck'.turn = turn /\ ck'.asst[1] = m
  BY <1>1, <1>2, SavedAssistantFacts DEF BaseInv, Typing
<1>9. PastBase(ck, sess', dproj') BY <1>1, <1>6 DEF PastBase, m
<1>10. Fits(dck', sess', dproj') BY <1>1, <1>9 DEF Fits
<1>11. Fits(ck', sess', dproj') BY <1>6, <1>8 DEF Fits
<1>12. InPlace' BY <1>1, <1>8 DEF InPlace
<1> QED BY <1>7, <1>10, <1>11, <1>12 DEF Kept

LEMMA EndHistory ==
    ASSUME BaseInv, Kept, Finalize \/ Complete
    PROVE  Kept'
<1>1. UNCHANGED <<sess, dproj, turn>> /\ ck.phase = "assistant_appended" /\ ck.turn = turn
      /\ ck \in Checkpoint /\ turn \in Turns /\ Fits(ck, sess, dproj)
  BY DEF Finalize, Complete, BaseInv, Typing, Placed, Kept, InPlace
<1>2. Transcript(sess)' BY <1>1, HistoryRests
<1>3. CASE Finalize
  <2>1. dck' = ck /\ ck' = ck /\ pc' = "complete" BY <1>3 DEF Finalize, Barrier
  <2>2. InPlace' BY <1>1, <2>1 DEF InPlace
  <2> QED BY <1>1, <1>2, <2>1, <2>2 DEF Kept
<1>4. CASE Complete
  <2>1. dck' = ck' /\ ck' = Saved("completed", turn) /\ pc' = "off" BY <1>4 DEF Complete
  <2>2. ck'.phase = "completed" /\ ck'.turn = turn BY <1>1, <2>1, SavedFacts, PhaseFacts
  <2>3. Fits(ck', sess', dproj') BY <1>1, <2>2 DEF Fits
  <2>4. InPlace' BY <2>1 DEF InPlace
  <2> QED BY <1>2, <2>1, <2>3, <2>4 DEF Kept
<1> QED BY <1>3, <1>4

(* The tool batch: it begins behind the calls of its turn, and only a       *)
(* resumed attempt may find the results there already.                      *)
LEMMA CallsAwaited ==
    ASSUME BaseInv, Kept, pc = "batch"
    PROVE  Calling(sess, turn) \/ (resumed /\ Answering(sess, turn))
<1>1. /\ ck \in Checkpoint /\ ck.phase \in Accepted /\ ck.turn = turn /\ turn \in Turns
      /\ ck.asst # <<>> /\ ck.asst[1].turn = turn /\ ck.asst[1].final = FALSE
      /\ (~ resumed => ck.phase = "assistant_appended") /\ resumed \in BOOLEAN
      /\ Fits(ck, sess, dproj)
  <2>1. ck \in Checkpoint /\ Sound(ck) /\ ck.phase \in Accepted /\ ck.turn = turn
        /\ ~ ck.asst[1].final /\ (~ resumed => ck.phase = "assistant_appended")
        /\ resumed \in BOOLEAN /\ turn \in Turns /\ Fits(ck, sess, dproj)
    BY DEF BaseInv, Typing, Placed, Kept
  <2>2. ck.asst # <<>> /\ ck.asst[1].turn = turn BY <2>1 DEF Sound
  <2>3. ck.asst[1].final \in BOOLEAN
    BY <2>1, <2>2, CheckpointFacts, SingleFacts, MessageFacts
  <2> QED BY <2>1, <2>2, <2>3
<1>2. CASE ck.phase = "assistant_appended"
  <2>1. ck.asst[1] = Assistant(turn, FALSE)
    <3>1. ck.asst[1] \in AssistantMessage BY <1>1, CheckpointFacts, SingleFacts
    <3> QED BY <1>1, <3>1 DEF AssistantMessage, Assistant
  <2> QED BY <1>1, <1>2, <2>1 DEF Fits, Calling
<1>3. CASE ck.phase \in ToolPhases
  <2>1. Calling(sess, turn) \/ Answering(sess, turn) BY <1>1, <1>3 DEF Fits, ToolPhases
  <2>2. resumed BY <1>1, <1>3, PhaseFacts
  <2> QED BY <2>1, <2>2
<1> QED BY <1>1, <1>2, <1>3, PhaseFacts

LEMMA StartBatchHistory ==
    ASSUME BaseInv, Kept, StartBatch
    PROVE  Kept'
<1> DEFINE missing == {c \in 1 .. Calls : Id(turn, c) \notin
                           DOMAIN (IF ResumingTurn THEN Recovered ELSE EmptyMap)}
           replay == ResumingTurn /\ ck.phase = "tool_results_appended"
<1>1. /\ pc = "batch" /\ pc' = "tools" /\ UNCHANGED <<dck, dproj, sess, turn, resumed>>
      /\ ck' \in Checkpoint /\ ck'.phase \in ToolPhases /\ ck'.turn = turn /\ ck.turn = turn
      /\ Fits(ck, sess, dproj) /\ Fits(dck, sess, dproj)
  BY StartBatchStep DEF StartBatch, BaseInv, Placed, Kept
<1>2. batch'.replay = replay
  BY DEF StartBatch, NoBatch
<1>3. ck'.phase = "tool_results_appended" => ck' = ck
  <2>1. ck \in Checkpoint BY DEF BaseInv, Typing
  <2>2. \/ ck' = ck
        \/ ck' = [ck EXCEPT !.done = IF ResumingTurn THEN Recovered ELSE EmptyMap,
                            !.phase = IF missing = {} THEN "tool_batch_pending"
                                      ELSE "tool_executing",
                            !.cursor = IF (IF ResumingTurn THEN Recovered ELSE EmptyMap) = EmptyMap
                                       THEN Len(dlog) ELSE @]
    BY DEF StartBatch
  <2> HIDE DEF missing
  <2> QED BY <2>1, <2>2 DEF Checkpoint
<1>4. Calling(sess, turn) \/ (resumed /\ Answering(sess, turn)) BY <1>1, CallsAwaited
<1>5. ck.phase = "tool_results_appended" => Answering(sess, turn) BY <1>1 DEF Fits
<1>6. Fits(ck', sess, dproj)
  BY <1>1, <1>3, <1>4, <1>5, PhaseFacts DEF Fits, ToolPhases
<1>7. InPlace'
  <2>1. batch'.replay => Answering(sess, turn) BY <1>2, <1>5
  <2> QED BY <1>1, <1>4, <2>1 DEF InPlace, Calling, Answering
<1>8. Transcript(sess)' BY <1>1, HistoryRests
<1> QED BY <1>1, <1>6, <1>7, <1>8 DEF Kept

LEMMA ToolHistory ==
    ASSUME BaseInv, Kept, NEW c \in ToolCalls, StartTool(c) \/ RunTool(c) \/ EndTool(c)
    PROVE  Kept'
<1>1. /\ pc = "tools" /\ dck' \in {dck, ck}
      /\ UNCHANGED <<dproj, sess, pc, ck, turn, resumed>>
  BY StartToolStep, RunToolStep, EndToolStep
<1>2. batch'.replay = batch.replay
  <2>1. batch \in Batch BY DEF BaseInv, Typing
  <2> QED BY <2>1 DEF StartTool, RunTool, EndTool, Batch
<1>3. Transcript(sess)' BY <1>1, HistoryRests
<1>4. InPlace' BY <1>1, <1>2 DEF Kept, InPlace
<1> QED BY <1>1, <1>3, <1>4 DEF Kept

LEMMA EndBatchHistory ==
    ASSUME BaseInv, Kept, EndBatch
    PROVE  Kept'
<1>1. /\ pc = "tools" /\ UNCHANGED <<dproj, sess, turn, resumed, batch>>
      /\ ck \in Checkpoint /\ batch \in Batch /\ turn \in Turns /\ turn \in Nat
      /\ ck.phase \in ToolPhases /\ ck.turn = turn
      /\ Fits(ck, sess, dproj) /\ Fits(dck, sess, dproj)
      /\ Calling(sess, turn) \/ (resumed /\ Answering(sess, turn))
      /\ batch.replay => Answering(sess, turn)
  BY ConstantFacts DEF EndBatch, BaseInv, Typing, Placed, Kept, InPlace
<1>2. Transcript(sess)' BY <1>1, HistoryRests
<1>3. Answering(sess, turn) <=> LastHasResults /\ ~ Calling(sess, turn)
  <2>1. Assistant(turn, FALSE).kind # "results" BY DEF Assistant
  <2>2. Last(sess) = sess[Len(sess)] BY DEF Last
  <2> QED BY <1>1, <2>1, <2>2 DEF Answering, Calling, LastHasResults, ToolCalls
<1>4. ~ (Answering(sess, turn) /\ Calling(sess, turn)) BY <1>3
<1>5. CASE ResumingTurn /\ (batch.replay \/ LastHasResults)
  <2>1. ck' = SavedResults /\ dck' = dck /\ pc' = "next" BY <1>5 DEF EndBatch
  <2>2. Answering(sess, turn)
    <3>1. LastHasResults => ~ Calling(sess, turn)
      <4>1. Assistant(turn, FALSE).kind # "results" BY DEF Assistant
      <4>2. Last(sess) = sess[Len(sess)] BY DEF Last
      <4> QED BY <4>1, <4>2 DEF Calling, LastHasResults
    <3> QED BY <1>1, <1>5, <3>1
  <2>3. ck'.phase = "tool_results_appended" /\ ck'.turn = turn
    BY <1>1, <2>1, SavedResultsFacts
  <2>4. Fits(ck', sess, dproj) BY <2>2, <2>3 DEF Fits
  <2>5. InPlace' BY <1>1, <2>1, <2>2 DEF InPlace, Answering
  <2> QED BY <1>1, <1>2, <2>1, <2>4, <2>5 DEF Kept
<1>6. CASE ~ (ResumingTurn /\ (batch.replay \/ LastHasResults))
  <2>1. ck' = ck /\ dck' = ck /\ pc' = "append_results" BY <1>6 DEF EndBatch, Barrier
  <2>2. Calling(sess, turn) BY <1>1, <1>3, <1>6 DEF ResumingTurn
  <2>3. ck.phase \in {"tool_batch_pending", "tool_executing"}
    BY <1>1, <1>4, <2>2 DEF Fits, ToolPhases
  <2>4. InPlace' BY <1>1, <2>1, <2>2, <2>3 DEF InPlace, Calling
  <2> QED BY <1>1, <1>2, <2>1, <2>4 DEF Kept
<1> QED BY <1>5, <1>6

LEMMA ResultsHistory ==
    ASSUME BaseInv, Kept, AppendResults
    PROVE  Kept'
<1> DEFINE m == BatchResults
<1>1. /\ ck' = SavedResults /\ dck' = dck /\ pc' = "next" /\ sess' = Append(sess, m)
      /\ m \in ResultsMessage /\ m.turn = turn /\ UNCHANGED <<dproj, turn, resumed, batch>>
      /\ sess \in Seq(Message) /\ ck \in Checkpoint /\ batch \in Batch /\ turn \in Turns
      /\ turn \in Nat /\ dck = ck /\ ck.turn = turn /\ Calling(sess, turn)
      /\ ck.phase \in {"tool_batch_pending", "tool_executing"}
  BY AppendResultsStep, ConstantFacts DEF BaseInv, Typing, Placed, Kept, InPlace
<1>2. DOMAIN m.done = {Id(turn, c) : c \in ToolCalls}
  BY DEF BatchResults, Results, ToolCalls
<1> HIDE DEF m
<1>3. m \in Message /\ m.kind = "results" BY <1>1, MessageFacts
<1>4. Grown(sess, m, sess') BY <1>1, <1>3, SizeGrows
<1>5. Answering(sess', turn) BY <1>1, <1>2, <1>3, <1>4 DEF Grown, Calling, Answering
<1>6. Follows(sess, m) BY <1>1 DEF Follows
<1>7. Transcript(sess)' BY <1>1, <1>3, <1>6, TranscriptGrows DEF Kept
<1>8. ck'.phase = "tool_results_appended" /\ ck'.turn = turn BY <1>1, SavedResultsFacts
<1>9. Fits(ck', sess', dproj') BY <1>5, <1>8 DEF Fits
<1>10. Fits(dck', sess', dproj') BY <1>1, <1>5 DEF Fits
<1>11. InPlace' BY <1>1, <1>5 DEF InPlace, Answering
<1> QED BY <1>7, <1>9, <1>10, <1>11 DEF Kept

LEMMA CompleteTurnHistory ==
    ASSUME BaseInv, Kept, CompleteTurn
    PROVE  Kept'
<1>1. /\ pc = "next" /\ pc' = "top" /\ ck' = Saved("turn_complete", turn)
      /\ UNCHANGED <<dck, dproj, sess, resumed>> /\ ck \in Checkpoint /\ turn \in Turns
      /\ Answering(sess, turn) /\ Fits(dck, sess, dproj)
  BY DEF CompleteTurn, durable, BaseInv, Typing, Kept, InPlace
<1>2. Transcript(sess)' BY <1>1, HistoryRests
<1>3. ck'.phase = "turn_complete" /\ ck'.turn = turn BY <1>1, SavedFacts, PhaseFacts
<1>4. Fits(ck', sess', dproj') BY <1>1, <1>3 DEF Fits, Answering
<1>5. InPlace' BY <1>1, <1>3 DEF InPlace
<1> QED BY <1>1, <1>2, <1>4, <1>5 DEF Kept

(* What the host does: stops, resumes and notifications.                    *)
LEMMA HostHistory ==
    ASSUME BaseInv, Kept, Resume \/ Crash \/ Close \/ Notify \/ UNCHANGED vars
    PROVE  Kept'
<1>1. UNCHANGED <<sess, dproj>> BY DEF Resume, Crash, Close, Stopped, Notify, durable, vars
<1>2. Transcript(sess)' BY <1>1, HistoryRests
<1>3. CASE Resume
  <2>1. /\ dck' = dck /\ ck' = dck /\ resumed' = TRUE
        /\ pc' = IF dck.phase = "started" THEN "startup" ELSE "reconcile"
    BY <1>3 DEF Resume, durable
  <2>2. InPlace' BY <2>1 DEF InPlace
  <2> QED BY <1>1, <1>2, <2>1, <2>2 DEF Kept
<1>4. CASE Crash \/ Close
  <2>1. pc # "off" /\ pc' = "off" /\ dck' \in {dck, ck}
    BY <1>4 DEF Crash, Close, Stopped, Barrier
  <2>2. InPlace' BY <2>1 DEF InPlace
  <2> QED BY <1>1, <1>2, <2>1, <2>2 DEF Kept
<1>5. CASE Notify \/ UNCHANGED vars
  <2>1. UNCHANGED <<dck, ck, pc, turn, resumed, batch>>
    BY <1>5 DEF Notify, durable, attempt, vars
  <2>2. InPlace' BY <1>1, <2>1 DEF Kept, InPlace
  <2> QED BY <1>1, <1>2, <2>1, <2>2 DEF Kept
<1> QED BY <1>3, <1>4, <1>5

LEMMA InitHistory == Init => HistoryInv
<1> SUFFICES ASSUME Init PROVE Kept BY DEF HistoryInv
<1>1. sess = <<>> /\ pc = "startup" /\ dck = Started /\ ck = Started BY DEF Init
<1>2. Transcript(sess) BY <1>1 DEF Transcript
<1>3. Fits(Started, sess, dproj) BY <1>1, StartedFacts DEF Fits
<1>4. InPlace BY <1>1 DEF InPlace
<1> QED BY <1>1, <1>2, <1>3, <1>4 DEF Kept

LEMMA HistoryStep ==
    ASSUME BaseInv, HistoryInv, [Next]_vars
    PROVE  HistoryInv'
<1>1. CASE ~ midTurn' /\ Kept
  <2>1. ASSUME \E c \in 1 .. Calls : StartTool(c) \/ RunTool(c) \/ EndTool(c)
        PROVE  Kept'
    BY <1>1, <2>1, ToolHistory DEF ToolCalls
  <2>2. Kept'
    BY <1>1, <2>1, TurnCases, StartupHistory, PromptHistory, ReconcileHistory, NoteHistory,
       ReplayHistory, BindHistory, AcceptHistory, AssistantHistory, EndHistory,
       StartBatchHistory, EndBatchHistory, ResultsHistory, CompleteTurnHistory, HostHistory
  <2> QED BY <2>2 DEF HistoryInv
<1>2. midTurn => midTurn'
  BY TurnCases DEF Startup, AppendPrompt, Reconcile, DrainNote, AppendNote, Notify, ReplayTurn,
     BindPrimary, AcceptPrimary, AppendAssistant, Finalize, Complete, StartBatch, StartTool,
     RunTool, EndTool, EndBatch, AppendResults, CompleteTurn, Resume, Crash, Close, Stopped, vars
<1> QED BY <1>1, <1>2 DEF HistoryInv

LEMMA HistoryAlways == Spec => []HistoryInv
BY InitBase, InitHistory, BaseStep, HistoryStep, BaseAlways, PTL DEF Spec

LEMMA KeptIsWithin ==
    ASSUME BaseInv, Kept
    PROVE  StoresWithinOneMessage
<1> DEFINE n == Size(sess)
           t == dck.turn
<1>1. dck \in Checkpoint /\ dck.phase \in Phases /\ t \in Nat /\ Fits(dck, sess, dproj)
      /\ sess \in Seq(Message)
  BY CheckpointFacts, ConstantFacts DEF BaseInv, Typing, Kept
<1>2. n \in Nat BY <1>1, CountFacts
<1>3. sess = <<>> \/ sess = <<Prompt>> => n \in {0, 1}
  <2>1. sess = <<>> => n = 0 BY <1>1, CountFacts DEF Size
  <2>2. ASSUME sess = <<Prompt>> PROVE n = 1
    <3>1. sess = Append(<<>>, Prompt) /\ <<>> \in Seq(Message) /\ Len(<<>>) = 0 BY <2>2
    <3>2. Grown(<<>>, Prompt, sess) BY <3>1, SizeGrows, MessageFacts
    <3>3. n = Size(<<>>) + 1 BY <3>2, MessageFacts DEF Grown
    <3>4. Size(<<>>) = 0 BY <3>1, CountFacts DEF Size
    <3> QED BY <3>3, <3>4
  <2> QED BY <2>1, <2>2
<1>4. dck.phase # "failed" =>
        \/ dck.phase = "started" /\ n \in {0, 1}
        \/ dck.phase = "user_appended" /\ n = 1
        \/ dck.phase = "provider_pending" /\ n \in {1 + 2 * t, 2 + 2 * t}
        \/ dck.phase \in {"tool_results_appended", "turn_complete"} /\ n = 3 + 2 * t
        \/ dck.phase \in {"assistant_appended", "completed"} /\ n = 2 + 2 * t
        \/ dck.phase \in {"tool_batch_pending", "tool_executing"} /\ n \in {2 + 2 * t, 3 + 2 * t}
  BY <1>1, <1>3 DEF Fits, AtBase, PastBase, Calling, Answering, Phases, Accepted, Terminal
<1> HIDE DEF n
<1>5. dck.phase # "failed" => n \in {Claimed(dck), Claimed(dck) + 1}
  <2> DEFINE p == dck.phase
  <2>1. p = "started" => Claimed(dck) = 0 BY DEF Claimed
  <2>2. p = "user_appended" => Claimed(dck) = 1 BY DEF Claimed
  <2>3. p = "provider_pending" => Claimed(dck) = 1 + 2 * t BY DEF Claimed
  <2>4. p \in {"tool_results_appended", "turn_complete"} => Claimed(dck) = 3 + 2 * t
    BY DEF Claimed
  <2>5. p \in {"assistant_appended", "completed", "tool_batch_pending", "tool_executing"} =>
           Claimed(dck) = 2 + 2 * t
    BY DEF Claimed
  <2> HIDE DEF t
  <2> QED BY <1>1, <1>4, <2>1, <2>2, <2>3, <2>4, <2>5
<1>6. Exchanged(Len(sess)) = n BY TranscriptIs DEF n
<1> QED BY <1>5, <1>6 DEF StoresWithinOneMessage

(* However often the run stops and resumes, and whatever notifications      *)
(* arrive between its turns, the history is the prompt and, turn by turn,   *)
(* one assistant message and its results, and the checkpoint is at most one *)
(* message of it behind (the order of the two appends of a turn,            *)
(* _reconcile_active_primary, _last_message_has_tool_results).              *)
THEOREM HistoryIsKept == Spec => []HistoryKept
<1>1. BaseInv /\ HistoryInv => HistoryKept
  BY KeptIsWithin, TranscriptIs DEF HistoryInv, HistoryKept, Kept, StoresWithinOneMessage
<1> QED BY <1>1, BaseAlways, HistoryAlways, PTL
=============================================================================
