------------------------------ MODULE ChatStream ------------------------------
(***************************************************************************)
(* One turn of the chat inside stream_agent_chat: what the agent streams   *)
(* (text, tool calls, the progress of subagents, the answers of a step)    *)
(* and what its tools report beside that stream become text and cards on   *)
(* the page and messages in the store.  The agent may be ahead of the      *)
(* handler: chunks wait in the stream, reports with the monitor.           *)
(***************************************************************************)
EXTENDS Integers, Sequences, FiniteSets, TLC
LOCAL INSTANCE SequencesExt

CONSTANTS
  PickLists,      \* the picks of a pre_purchase answer: for each, whether it has a reason
  MaxTexts,       \* bound: the texts of the model in the turn
  MaxStreamCalls, \* bound: its tool calls in the turn
  MaxAtOnce,      \* bound: the tool calls of one of its answers
  MaxParts,       \* bound: texts, calls, and the tools that report from inside calls
  MaxLag          \* bound: how many chunks the agent gets ahead

VARIABLES
  turn,  \* the agent: what it does, its calls and the tools inside them
  wire,  \* chunks of the stream and reports of tools not handled yet
  chat   \* the handler: its buffers, the page and the store

streamVars == <<turn, wire, chat>>

Slugs == {"pre_purchase", "post_purchase"}

\* The model calls a plain tool, or a subagent through task; what it calls may
\* be in the first chunk of the call or not.
WantedCalls == [kind : {"plain"}, slug : {""}, known : {TRUE}] \cup [kind : {"task"}, slug : Slugs, known : BOOLEAN]

\* The card of the c-th call is <<c, 0>>, that of the k-th tool inside it <<c, k>>.
Orchestrate == <<0, 0>>

\* items are _completed_tool_calls and stored is _persisted_tc_ids; cards and
\* story are what the page has, kept and saved what the store has.
NewTurn == [node |-> "model", calls |-> <<>>, step |-> {}, texts |-> 0,
            open |-> {}, ended |-> {}, dropped |-> {}]
Quiet == [chunks |-> <<>>, reports |-> <<>>]
NewChat ==
  [pc |-> "loop", text |-> <<>>, items |-> <<>>, stored |-> {}, active |-> {},
   runs |-> <<>>, pending |-> <<>>, progress |-> <<>>, orch |-> FALSE,
   picks |-> <<>>, task |-> 0, cards |-> <<>>, story |-> <<>>,
   kept |-> <<>>, saved |-> <<>>, cut |-> <<>>]

StreamInit == turn = NewTurn /\ wire = Quiet /\ chat = NewChat

-----------------------------------------------------------------------------
(* A mistake the code does not make *)

\* Reports that found no task are dropped at the end.
PendingOnTop_Lost(s) == [s EXCEPT !.pending = <<>>]
-----------------------------------------------------------------------------
(* The agent *)

Parts == turn.texts + Len(turn.calls) + Cardinality(turn.open \cup turn.ended)
Sends(chunks) ==
  /\ Len(wire.chunks) < MaxLag
  /\ wire' = [wire EXCEPT !.chunks = @ \o chunks]

Says ==
  /\ turn.node = "model" /\ turn.texts < MaxTexts /\ Parts < MaxParts
  /\ Sends(<<[kind |-> "text", id |-> turn.texts + 1]>>)
  /\ turn' = [turn EXCEPT !.texts = @ + 1] /\ UNCHANGED chat

Calls ==
  /\ turn.node = "model"
  /\ \E n \in 1..MaxAtOnce : \E w \in [1..n -> WantedCalls] :
       LET m == Len(turn.calls) IN
       /\ m + n <= MaxStreamCalls
       /\ Parts + n <= MaxParts
       /\ turn' = [turn EXCEPT !.node = "tools", !.step = (m + 1)..(m + n),
            !.calls = @ \o [i \in 1..n |-> [kind |-> w[i].kind, slug |-> w[i].slug, pc |-> "ready", ran |-> 0]]]
       /\ Sends([i \in 1..n |-> [kind |-> w[i].kind, id |-> m + i,
                                 slug |-> IF w[i].known THEN w[i].slug ELSE ""]])
  /\ UNCHANGED chat

Moved(c, pc) == [turn EXCEPT !.calls[c].pc = pc]
Progress(c, event) == Sends(<<[kind |-> event, id |-> c, slug |-> turn.calls[c].slug]>>)

\* task: the subagent starts (or is called again), and returns a Command; or it
\* fails, and what it returns is a message.
Starts(c) ==
  /\ turn.calls[c].kind = "task" /\ turn.calls[c].pc = "ready"
  /\ Progress(c, "running") /\ turn' = Moved(c, "runs") /\ UNCHANGED chat
Completes(c) ==
  /\ turn.calls[c].pc = "runs" /\ \A t \in turn.open : t[1] # c
  /\ Progress(c, "completed") /\ turn' = Moved(c, "command") /\ UNCHANGED chat
ReturnsError(c) ==
  /\ turn.calls[c].pc = "runs" /\ \A t \in turn.open : t[1] # c
  /\ turn' = Moved(c, "message") /\ UNCHANGED <<wire, chat>>
Answered(c) ==
  /\ turn.calls[c].kind = "plain" /\ turn.calls[c].pc = "ready" /\ \A t \in turn.open : t[1] # c
  /\ turn' = Moved(c, "message") /\ UNCHANGED <<wire, chat>>

\* LifecycleHandler reports the tools of the registry, those of subagents among
\* them, to the monitor: an id of its own, and nothing about the call.
Reports(t, done) == wire' = [wire EXCEPT !.reports = Append(@, [id |-> t, done |-> done])]
ToolBegins(c) ==
  /\ turn.calls[c].pc = IF turn.calls[c].kind = "task" THEN "runs" ELSE "ready"
  /\ turn.calls[c].kind = "plain" => turn.calls[c].ran = 0
  /\ Parts < MaxParts
  /\ LET t == <<c, turn.calls[c].ran + 1>> IN
       /\ turn' = [turn EXCEPT !.calls[c].ran = @ + 1, !.open = @ \cup {t}]
       /\ Reports(t, FALSE)
  /\ UNCHANGED chat
ToolEnds(t) ==
  /\ turn' = [turn EXCEPT !.open = @ \ {t}, !.ended = @ \cup {t}]
  /\ Reports(t, TRUE) /\ UNCHANGED chat

\* The answers of a step come at its end, in the order of its calls; beside a
\* Command the messages may be dropped (AgentTools).
StepEnds ==
  /\ turn.node = "tools"
  /\ \A c \in turn.step : turn.calls[c].pc \in {"command", "message"}
  /\ LET commands == {c \in turn.step : turn.calls[c].pc = "command"} IN
     \E lost \in SUBSET (IF commands = {} THEN {} ELSE turn.step \ commands) :
     \E picks \in [commands -> PickLists] :
       /\ turn' = [turn EXCEPT !.node = "model", !.step = {}, !.dropped = @ \cup lost]
       /\ \A c \in commands : turn.calls[c].slug # "pre_purchase" => picks[c] = <<>>
       /\ LET order == SelectSeq([i \in 1..Len(turn.calls) |-> i], LAMBDA c : c \in turn.step \ lost) IN
            Sends([i \in DOMAIN order |->
              [kind |-> "answer", id |-> order[i], picks |-> IF order[i] \in commands THEN picks[order[i]] ELSE <<>>]])
  /\ UNCHANGED chat

\* The stream ends after an answer without calls, or raises.
Leaves ==
  /\ turn.node \in {"model", "tools"}
  /\ \/ turn.node = "model" /\ Sends(<<[kind |-> "end"]>>)
     \/ Sends(<<[kind |-> "error"]>>)
  /\ turn' = [turn EXCEPT !.node = "over"] /\ UNCHANGED chat

-----------------------------------------------------------------------------
(* Cards: of every id, the last state goes to the page and to items *)

Collected(s, id, done, rows) == [s EXCEPT !.items = id :> [done |-> done, rows |-> rows] @@ @]
OnPage(s, id, done) == [s EXCEPT !.cards = id :> done @@ @]
Emitted(s, id, done, rows) == OnPage(Collected(s, id, done, rows), id, done)
RowsOf(s, c) == IF c \in DOMAIN s.runs THEN s.runs[c].rows ELSE <<>>
\* _task_run_update_payload: the card of a task again, with what ran in it.
TaskCard(s, c) == Emitted(s, <<c, 0>>, FALSE, RowsOf(s, c))
\* emit_tool_call: a call is open from now on.
Opened(s, c) == TaskCard([s EXCEPT !.active = @ \cup {c}], c)

\* SubagentRun.add_tool: the row with the id of the tool, else the first row of
\* its name that is not done, else a new one (here all tools have one name).
First(is) == CHOOSE i \in is : \A j \in is : i <= j
AddTool(rows, r) ==
  LET same == {i \in DOMAIN rows : rows[i].id = r.id}
      open == {i \in DOMAIN rows : ~rows[i].done}
  IN  IF same \cup open = {} THEN Append(rows, r)
      ELSE [rows EXCEPT ![First(IF same # {} THEN same ELSE open)] = r]
Run(s, c, r) == [s EXCEPT !.runs[c].rows = AddTool(@, r)]

\* _find_subagent_run_for_event
Running(s) == {c \in DOMAIN s.runs : s.runs[c].status = "running"}
Sole(s) == IF Cardinality(Running(s)) = 1 THEN Running(s) ELSE {}
Owners(s, slug) ==
  LET same == {c \in Running(s) : s.runs[c].slug = slug /\ slug # ""}
  IN  IF same # {} THEN {CHOOSE c \in same : \A d \in same : d <= c} ELSE Sole(s)

\* A report belongs to the only task that runs; while there is none, or several,
\* it waits; before the first task of the turn it is a card of its own.
Reported(s, r) ==
  LET own == Owners(s, "") IN
  IF own # {} THEN LET c == CHOOSE c \in own : TRUE
                       t == Run(s, c, r) IN TaskCard(t, c)
  ELSE IF s.orch THEN [s EXCEPT !.pending = Append(@, r)]
  ELSE Emitted(s, r.id, r.done, <<>>)

\* _flush_pending_events_as_top_level
PendingOnTop(s) ==
  [FoldLeft(LAMBDA t, r : Collected(t, r.id, r.done, <<>>), s, s.pending) EXCEPT !.pending = <<>>]

-----------------------------------------------------------------------------
(* The store *)

SaveText(s) == [s EXCEPT !.saved = @ \o s.text, !.text = <<>>]
SavePiece(s, piece) == [s EXCEPT !.saved = Append(@, piece)]

\* _flush_thinking_by_bubble and _save_thinking_snapshot: each card not stored yet.
FlushThinking(s) ==
  [s EXCEPT !.kept = [id \in DOMAIN s.items |->
                        (IF id \in DOMAIN @ THEN @[id] ELSE <<>>)
                          \o (IF id \in s.stored THEN <<>> ELSE <<s.items[id]>>)],
            !.stored = DOMAIN s.items]

-----------------------------------------------------------------------------
(* What the handler does with a chunk *)

Shown(s, piece) == [s EXCEPT !.story = Append(@, piece)]
Text(s, m) == Shown([s EXCEPT !.text = Append(@, <<"text", m.id, 0>>)], <<"text", m.id, 0>>)

\* _flush_pending_subagent_events: a task without a name takes that of the first
\* progress nobody took; it takes the status that goes with its name, and all
\* the reports that wait.
Adopted(s, c) ==
  LET slug == IF s.runs[c].slug = "" /\ s.progress # <<>> THEN s.progress[1].slug ELSE s.runs[c].slug
      mine == SelectSeq(s.progress, LAMBDA q : q.slug = slug)
      t    == [s EXCEPT !.runs[c].slug = slug]
  IN  IF mine = <<>> THEN t
      ELSE [FoldLeft(LAMBDA v, r : Run(v, c, r), t, s.pending) EXCEPT
              !.pending = <<>>, !.runs[c].status = mine[1].status,
              !.progress = SelectSeq(@, LAMBDA q : q.slug # slug)]

\* The first task of the turn is preceded by the card of the orchestration, whose
\* steps of revelation come to one card.
Orchestrated(s) ==
  IF s.orch THEN s ELSE Emitted([s EXCEPT !.orch = TRUE], Orchestrate, TRUE, <<>>)
CallCard(s, m) ==
  LET run == [slug |-> m.slug, status |-> "running", rows |-> <<>>]
      t   == IF m.kind = "task" THEN Adopted([Orchestrated(s) EXCEPT !.runs = m.id :> run @@ @], m.id) ELSE s
  IN  Opened(t, m.id)

\* _apply_subagent_progress_event
ProgressCard(s, m) ==
  LET own == Owners(s, m.slug)
      c   == CHOOSE c \in own : TRUE
      t   == [s EXCEPT !.runs[c].status = m.kind, !.runs[c].slug = IF @ = "" THEN m.slug ELSE @]
      new == [slug |-> m.slug, status |-> m.kind]
      has == {i \in DOMAIN s.progress : s.progress[i].slug = m.slug}
  IN  IF own # {} THEN TaskCard(t, c)
      ELSE IF has # {} THEN [s EXCEPT !.progress[First(has)] = new]
      ELSE [s EXCEPT !.progress = Append(@, new)]

\* The answer of a call; that of a pre_purchase task has picks, each shown as a
\* product card of its own.
Closed(s, c) ==
  LET t == IF c \in DOMAIN s.runs THEN [s EXCEPT !.runs[c].status = "completed"] ELSE s
  IN  Emitted([t EXCEPT !.active = @ \ {c}], <<c, 0>>, TRUE, RowsOf(t, c))
AnswerCard(s, m) ==
  LET t == Closed(s, m.id) IN
  IF m.id \in DOMAIN t.runs /\ t.runs[m.id].slug = "pre_purchase" /\ m.picks # <<>>
  THEN [t EXCEPT !.pc = "text", !.picks = m.picks, !.task = m.id] ELSE t

Handled(s, m) ==
  CASE m.kind = "text" -> Text(s, m)
    [] m.kind \in {"plain", "task"} -> CallCard(s, m)
    [] m.kind \in {"running", "completed"} -> ProgressCard(s, m)
    [] m.kind = "answer" -> AnswerCard(s, m)

\* The turn of the loop: the reports first, then the chunk.
Takes ==
  /\ chat.pc = "loop" /\ wire.chunks # <<>> /\ Head(wire.chunks).kind \notin {"end", "error"}
  /\ chat' = Handled(FoldLeft(Reported, chat, wire.reports), Head(wire.chunks))
  /\ wire' = [chunks |-> Tail(wire.chunks), reports |-> <<>>] /\ UNCHANGED turn

-----------------------------------------------------------------------------
(* The products of a pick: its reason, then its card *)

Piece(what) == <<what, chat.task, Len(chat.picks)>>

\* A mistake the code had, as its comment tells: the text before a reason is left for later.
ShowsReason_First ==
  /\ chat.pc = "text"
  /\ chat' = IF Head(chat.picks) THEN [Shown(chat, Piece("reason")) EXCEPT !.pc = "reason"]
             ELSE [Shown(chat, Piece("product")) EXCEPT !.pc = "product"]
  /\ UNCHANGED <<turn, wire>>

\* A reason: the text before it is saved, then it is shown.
ShowsReason ==
  /\ chat.pc = "text"
  /\ chat' = IF Head(chat.picks) THEN [Shown(SaveText(chat), Piece("reason")) EXCEPT !.pc = "reason"]
             ELSE [Shown(chat, Piece("product")) EXCEPT !.pc = "product"]
  /\ UNCHANGED <<turn, wire>>
SavesReason ==
  /\ chat.pc = "reason"
  /\ chat' = [Shown(SavePiece(chat, Piece("reason")), Piece("product")) EXCEPT !.pc = "product"]
  /\ UNCHANGED <<turn, wire>>

\* The text before the card and the cards of the calls are saved before it.
SavesProduct ==
  /\ chat.pc = "product"
  /\ chat' = [SavePiece(FlushThinking(SaveText(chat)), Piece("product")) EXCEPT
                !.picks = Tail(@), !.pc = IF Len(chat.picks) > 1 THEN "text" ELSE "loop"]
  /\ UNCHANGED <<turn, wire>>

-----------------------------------------------------------------------------
(* How the turn ends *)

\* The stream is over: the calls that are open are closed, reports without a
\* task become cards, and what is left is saved, the answer last.
StreamEnds ==
  /\ chat.pc = "loop" /\ wire.chunks # <<>> /\ Head(wire.chunks).kind = "end"
  /\ LET s == [FoldLeft(Closed, chat, SelectSeq([i \in 1..Len(turn.calls) |-> i], LAMBDA c : c \in chat.active))
                 EXCEPT !.active = {}]
     IN  chat' = [SaveText(FlushThinking(PendingOnTop(s))) EXCEPT !.pc = "done"]
  /\ UNCHANGED <<turn, wire>>

\* Nothing is left of the turn but what the page and the store have.
Leftover(s, pc, cut) ==
  [NewChat EXCEPT !.pc = pc, !.cut = cut, !.cards = s.cards, !.story = s.story, !.kept = s.kept, !.saved = s.saved]

\* CancelledError at an await: what waits there is not saved.
StreamStopped ==
  /\ chat.pc \in {"loop", "text", "reason", "product"}
  /\ chat' = Leftover(FlushThinking(PendingOnTop(SaveText(chat))), "stopped",
                      IF chat.pc \in {"reason", "product"} THEN <<Piece(chat.pc)>> ELSE <<>>)
  /\ turn' = NewTurn /\ wire' = Quiet

\* The agent raised: no report that waits becomes a card.
StreamFails ==
  /\ chat.pc = "loop" /\ wire.chunks # <<>> /\ Head(wire.chunks).kind = "error"
  /\ chat' = Leftover(FlushThinking(SaveText(chat)), "failed", <<>>)
  /\ turn' = NewTurn /\ wire' = Quiet

InStep(c) == Starts(c) \/ Completes(c) \/ ReturnsError(c) \/ Answered(c) \/ ToolBegins(c)
Agent ==
  \/ Says \/ Calls \/ StepEnds \/ Leaves
  \/ turn.node = "tools" /\ ((\E c \in turn.step : InStep(c)) \/ \E t \in turn.open : ToolEnds(t))
Over == chat.pc \in {"done", "stopped", "failed"}

StreamNext ==
  \/ ~Over /\ Agent
  \/ Takes \/ ShowsReason \/ SavesReason \/ SavesProduct \/ StreamEnds \/ StreamStopped \/ StreamFails

-----------------------------------------------------------------------------
(* Properties *)

\* However a turn ends, the history has the texts, reasons and products of the
\* page in the order of the page, but the piece that was being saved when the
\* turn was stopped, and every card of the page once.
HistoryIsPage ==
  Over => /\ chat.saved \o chat.cut = chat.story
          /\ \A id \in DOMAIN chat.cards : id \in DOMAIN chat.kept /\ Len(chat.kept[id]) = 1

\* At the end of a turn, no call of the model is left open on the page, whether
\* its answer came or not; and every tool inside a call that has no card on the
\* page is in the history once it ended, as a row of one task or with a card of
\* its own, unless the answer of a call was dropped.
Ended(id) ==
  {<<i, k>> \in (DOMAIN chat.kept) \X (0..Cardinality(turn.ended)) :
     LET item == chat.kept[i][1] IN
     \/ k = 0 /\ i = id /\ item.done
     \/ k \in DOMAIN item.rows /\ item.rows[k] = [id |-> id, done |-> TRUE]}
CallsSettle ==
  chat.pc = "done" =>
    /\ \A c \in DOMAIN turn.calls : <<c, 0>> \in DOMAIN chat.cards /\ chat.cards[<<c, 0>>]
    /\ turn.dropped = {} => \A id \in turn.ended \ DOMAIN chat.cards : Cardinality(Ended(id)) = 1

\* Both: once a turn is over, its history and its page tell the same.
PageIsHistory == HistoryIsPage /\ CallsSettle
=============================================================================
