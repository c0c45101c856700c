------------------------------ MODULE ChatPage ------------------------------
(***************************************************************************)
(* The chat page (AgentChatComponent.vue with useStreamSmoother.js): what  *)
(* it shows of the answers of a thread while they stream, when the user    *)
(* stops one, goes to another thread and comes back, or reloads the page.  *)
(*                                                                         *)
(* One thread: all that is here is kept for each thread, and the others    *)
(* share only currentThreadId with it; the panel beside the chat           *)
(* (thinkingState), which all threads share, is left out. The server is    *)
(* what the page sees of it (ChatTurns and ChatStream model it): the       *)
(* events of an answer, and the history that is read back.                 *)
(***************************************************************************)
EXTENDS Integers, Sequences, FiniteSets, SequencesExt, TLC

CONSTANTS
  Script,       \* what an answer says, if nothing stops it
  MaxReplies, MaxStreams, MaxSelects, MaxReloads

VARIABLES
  reply,      \* the answers, as the server gives them
  history,    \* the messages, as the server stores them
  shown,      \* threadMessages: the messages, as the page has them
  live,       \* onGoingConv: the entries of the answer that streams, in order
  buf,        \* the smoother's texts that have yet to be played
  streaming,  \* isStreaming
  reader,     \* for each answer the handleSendOrStop that reads it
  sel,        \* the calls of selectChat
  open,       \* the thread is the one the page shows
  overtaken,  \* see AnswersShown
  reloads

pageVars == <<reply, history, shown, live, buf, streaming, reader, sel, open, overtaken, reloads>>

Local == <<0, 0>>       \* the fallbackKey of events without a message_id
Waiting == <<0, 1>>     \* the key of the placeholder

Question(n) == [who |-> "user", msg |-> <<n, 0>>, texts |-> <<>>, tools |-> <<>>]
Entry(m) == [who |-> "ai", msg |-> m, texts |-> <<>>, tools |-> <<>>]
Stored(texts) == [Entry(Local) EXCEPT !.texts = texts]

\* The first event of a message makes its entry, and takes the placeholder away.
ensureMsgEntry(conv, m) ==
  IF \E i \in DOMAIN conv : conv[i].msg = m THEN conv
  ELSE Append(SelectSeq(conv, LAMBDA e : e.msg # Waiting), Entry(m))
writeDelta(conv, text) ==
  LET all == ensureMsgEntry(conv, text.msg) IN
  [i \in DOMAIN all |->
     IF all[i].msg = text.msg THEN [all[i] EXCEPT !.texts = Append(@, text.id)] ELSE all[i]]
flushThread(conv, texts) == FoldLeft(writeDelta, conv, texts)

\* A tool is in one entry: it is taken out of the others.
upsertToolCall(conv, event) ==
  LET all == ensureMsgEntry(conv, event.msg) IN
  [i \in DOMAIN all |->
     [all[i] EXCEPT !.tools =
        IF all[i].msg = event.msg THEN (event.id :> event.kind) @@ @
        ELSE Restrict(@, DOMAIN @ \ {event.id})]]

finalizeDanglingToolCalls(rows, as) ==
  [i \in DOMAIN rows |->
     [rows[i] EXCEPT !.tools = [c \in DOMAIN @ |-> IF @[c] = "start" THEN as ELSE @[c]]]]
flushOngoingConv(rows, conv) ==
  rows \o SelectSeq(conv, LAMBDA e : e.texts # <<>> \/ e.tools # <<>>)

\* What the page may show after the history was read: that, if it is not less;
\* or what it had, if it is, or the request fails.
syncThreadHistory(rows) ==
  {rows} \cup IF history # <<>> /\ Len(history) >= Len(rows) THEN {history} ELSE {}

\* An answer on the server
EndsWith(r, kinds) == r.events # <<>> /\ Last(r.events).kind \in kinds
TextIds(events) ==
  LET t == SelectSeq(events, LAMBDA e : e.kind = "text") IN [i \in DOMAIN t |-> t[i].id]
Unsaved(r) == SubSeq(TextIds(r.events), r.saved + 1, Len(TextIds(r.events)))
Save(r) == [r EXCEPT !.saved = Len(TextIds(r.events))]
StoreOf(r) == IF Unsaved(r) = <<>> THEN history ELSE Append(history, Stored(Unsaved(r)))
Gone(r) == IF r.st \in {"sent", "running"} THEN [r EXCEPT !.st = "ending"] ELSE r

Busy == \E n \in DOMAIN reader : reader[n].pc # "none"
InAnswer == Busy \/ \E n \in DOMAIN reply : reply[n].st # "over"
Opening == \E s \in DOMAIN sel : sel[s] # "end"

PageInit ==
  /\ reply = <<>> /\ history = <<>> /\ shown = <<>> /\ live = <<>> /\ buf = <<>>
  /\ streaming = FALSE /\ reader = <<>> /\ sel = <<>>
  /\ open = TRUE /\ overtaken = FALSE /\ reloads = 0

\* The answer n on the server. It follows its script, at most one event ahead
\* of the page that reads it, and ends or fails where it likes. A product card
\* has what was said before it stored.
Event(kind, round, n, id) ==
  [kind |-> kind, msg |-> IF round = 0 THEN Local ELSE <<n, round>>, id |-> <<n, id>>]
Begins(n) ==
  /\ reply[n].st = "sent"
  /\ reply' = [reply EXCEPT ![n].st = "running"]
  /\ history' = Append(history, Question(n))
Tells(n) ==
  LET r == reply[n]
      step == Script[Len(r.events) + 1]
      told == [r EXCEPT !.events = Append(@, Event(step.kind, step.round, n, step.id))] IN
  /\ r.st = "running" /\ Len(r.events) < Len(Script)
  /\ reader[n].pc = "reading" => reader[n].at = Len(r.events)
  /\ \/ reply' = [reply EXCEPT ![n] = told] /\ UNCHANGED history
     \/ /\ step.kind = "complete" /\ Unsaved(r) # <<>>
        /\ reply' = [reply EXCEPT ![n] = Save(told)]
        /\ history' = StoreOf(r)
Ends(n) ==
  LET r == reply[n] IN
  /\ \/ r.st = "running" /\ \E kind \in {"error"} \cup IF Len(r.events) = Len(Script) THEN {"done"} ELSE {} :
          reply' = [reply EXCEPT ![n] =
                      [Save(r) EXCEPT !.st = "over", !.events = Append(@, Event(kind, 0, n, 0))]]
     \/ r.st = "ending" /\ reply' = [reply EXCEPT ![n] = [Save(r) EXCEPT !.st = "over"]]
  /\ history' = StoreOf(r)
ServerSteps(n) ==
  /\ Begins(n) \/ Tells(n) \/ Ends(n)
  /\ UNCHANGED <<shown, live, buf, streaming, reader, sel, open, overtaken, reloads>>

\* The first half of handleSendOrStop
Streams == Cardinality({n \in DOMAIN reader : reader[n].pc # "none"})
Sends ==
  /\ open /\ ~streaming /\ Len(reply) < MaxReplies /\ Streams < MaxStreams
  /\ shown' = Append(shown, Question(Len(reply) + 1))
  /\ reply' = Append(reply, [st |-> "sent", events |-> <<>>, saved |-> 0])
  /\ reader' = Append(reader, [pc |-> "reading", at |-> 0])
  /\ live' = <<Entry(Waiting)>> /\ buf' = <<>> /\ streaming' = TRUE
  /\ overtaken' = (overtaken \/ InAnswer \/ Opening)
  /\ UNCHANGED <<history, sel, open, reloads>>

\* handleSSEEvent: the entries and the buffer after an event
Handle(state, e) ==
  CASE e.kind = "text" -> [conv |-> ensureMsgEntry(state.conv, e.msg), texts |-> Append(state.texts, e)]
    [] e.kind = "done" -> [conv |-> flushThread(state.conv, state.texts), texts |-> <<>>]
    [] OTHER -> [state EXCEPT !.conv = upsertToolCall(@, e)]

\* The next event that is there to read
Next1(n) == reply[n].events[reader[n].at + 1]
HasNext(n) == reader[n].pc = "reading" /\ reader[n].at < Len(reply[n].events)
Reads(n) ==
  LET new == Handle([conv |-> live, texts |-> buf], Next1(n)) IN
  /\ HasNext(n) /\ Next1(n).kind # "error"
  /\ reader' = [reader EXCEPT ![n].at = @ + 1]
  /\ live' = new.conv /\ buf' = new.texts
  /\ UNCHANGED <<reply, history, shown, streaming, sel, open, overtaken, reloads>>

\* A frame plays the oldest text of some message.
tick ==
  \E i \in DOMAIN buf :
    /\ \A j \in 1..(i - 1) : buf[j].msg # buf[i].msg
    /\ live' = writeDelta(live, buf[i]) /\ buf' = RemoveAt(buf, i)
    /\ UNCHANGED <<reply, history, shown, streaming, reader, sel, open, overtaken, reloads>>

\* A mutant: the messages are committed before the buffer is played.
Commit_First(as) ==
  /\ shown' = flushOngoingConv(finalizeDanglingToolCalls(shown, as), finalizeDanglingToolCalls(live, as))
  /\ live' = <<>> /\ buf' = <<>>

\* flushThread, finalizeDanglingToolCalls and commitOngoingConv, in this order
Commit(as) ==
  /\ shown' = flushOngoingConv(finalizeDanglingToolCalls(shown, as),
                               finalizeDanglingToolCalls(flushThread(live, buf), as))
  /\ live' = <<>> /\ buf' = <<>>
\* finally
Closes(n) ==
  /\ streaming' = FALSE
  /\ reader' = [reader EXCEPT ![n].pc = "none"]
  /\ UNCHANGED <<history, sel, open, overtaken, reloads>>

\* The stream ends, with its done event or without: all is taken for complete.
StreamIsOver(n) ==
  /\ reader[n].pc = "reading" /\ reply[n].st = "over" /\ ~HasNext(n)
  /\ Commit("complete")
  /\ reader' = [reader EXCEPT ![n].pc = "sync"]
  /\ UNCHANGED <<reply, history, streaming, sel, open, overtaken, reloads>>
Synced(n) ==
  /\ reader[n].pc = "sync"
  /\ \E rows \in syncThreadHistory(shown) : shown' = finalizeDanglingToolCalls(rows, "interrupted")
  /\ live' = <<>> /\ buf' = <<>>
  /\ Closes(n) /\ UNCHANGED reply
ReadsError(n) ==
  /\ HasNext(n) /\ Next1(n).kind = "error"
  /\ Commit("interrupted")
  /\ Closes(n) /\ UNCHANGED reply

\* The other half of handleSendOrStop: it aborts the last request.
Stops ==
  LET n == Len(reader) IN
  /\ open /\ streaming
  /\ \/ /\ reader[n].pc = "reading"
        /\ Commit("interrupted")
        /\ reply' = [reply EXCEPT ![n] = Gone(@)]
        /\ Closes(n)
     \/ /\ reader[n].pc = "sync" /\ streaming' = FALSE
        /\ UNCHANGED <<reply, history, shown, live, buf, reader, sel, open, overtaken, reloads>>

\* selectChat of another thread, and of this one, in four steps
Leaves ==
  /\ open /\ open' = FALSE
  /\ UNCHANGED <<reply, history, shown, live, buf, streaming, reader, sel, overtaken, reloads>>
Selects ==
  /\ ~open /\ open' = TRUE /\ Len(sel) < MaxSelects
  /\ sel' = Append(sel, "history")
  /\ UNCHANGED <<reply, history, shown, live, buf, streaming, reader, overtaken, reloads>>
LoadsHistory(s) ==
  /\ sel[s] = "history"
  /\ \/ /\ shown' = history /\ overtaken' = InAnswer
        /\ sel' = [sel EXCEPT ![s] = "events"]
     \/ sel' = [sel EXCEPT ![s] = "end"] /\ UNCHANGED <<shown, overtaken>>
  /\ UNCHANGED <<reply, history, live, buf, streaming, reader, open, reloads>>

\* resumeInProgressStream: the events of the thread's last session, if that has
\* not ended. Of the messages before it, those of the user are kept.
InProgress == reply # <<>> /\ Last(reply).events # <<>> /\ ~EndsWith(Last(reply), {"done", "error"})
NothingToResume(s) ==
  /\ sel[s] = "events" /\ ~InProgress
  /\ sel' = [sel EXCEPT ![s] = "end"]
  /\ UNCHANGED <<reply, history, shown, live, buf, streaming, reader, open, overtaken, reloads>>
resumeInProgressStream_Turning(s) ==  \* a mutant: tools that wait are left so
  LET new == FoldLeft(Handle, [conv |-> <<>>, texts |-> <<>>], Last(reply).events)
      mine == SelectSeq(shown, LAMBDA row : row.who = "user") IN
  /\ sel[s] = "events" /\ InProgress
  /\ sel' = [sel EXCEPT ![s] = "sync"]
  /\ shown' = flushOngoingConv(mine, flushThread(new.conv, new.texts))
  /\ live' = <<>> /\ buf' = <<>> /\ streaming' = FALSE /\ overtaken' = TRUE
  /\ UNCHANGED <<reply, history, reader, open, reloads>>
resumeInProgressStream(s) ==
  LET new == FoldLeft(Handle, [conv |-> <<>>, texts |-> <<>>], Last(reply).events)
      mine == SelectSeq(shown, LAMBDA row : row.who = "user") IN
  /\ sel[s] = "events" /\ InProgress
  /\ sel' = [sel EXCEPT ![s] = "sync"]
  /\ shown' = flushOngoingConv(mine, finalizeDanglingToolCalls(flushThread(new.conv, new.texts), "complete"))
  /\ live' = <<>> /\ buf' = <<>> /\ streaming' = FALSE /\ overtaken' = TRUE
  /\ UNCHANGED <<reply, history, reader, open, reloads>>
Resynced(s) ==
  /\ sel[s] = "sync"
  /\ shown' \in syncThreadHistory(shown)
  /\ sel' = [sel EXCEPT ![s] = "end"]
  /\ UNCHANGED <<reply, history, live, buf, streaming, reader, open, overtaken, reloads>>

\* The page is loaded anew; the requests of the old one are cancelled.
Reloads ==
  /\ reloads < MaxReloads /\ reloads' = reloads + 1
  /\ reply' = [n \in DOMAIN reply |-> IF reader[n].pc = "none" THEN reply[n] ELSE Gone(reply[n])]
  /\ reader' = [n \in DOMAIN reader |-> [reader[n] EXCEPT !.pc = "none"]]
  /\ shown' = <<>> /\ live' = <<>> /\ buf' = <<>> /\ streaming' = FALSE
  /\ sel' = [s \in DOMAIN sel |-> "end"]
  /\ open' = FALSE /\ overtaken' = TRUE
  /\ UNCHANGED history

PageNext ==
  \/ Sends \/ Stops \/ tick \/ Leaves \/ Selects \/ Reloads
  \/ \E n \in DOMAIN reply : \/ ServerSteps(n) \/ Reads(n) \/ StreamIsOver(n)
                             \/ Synced(n) \/ ReadsError(n)
  \/ \E s \in DOMAIN sel : \/ LoadsHistory(s) \/ NothingToResume(s)
                           \/ resumeInProgressStream(s) \/ Resynced(s)

TextsShown(n) ==
  SelectSeq(FlattenSeq([i \in DOMAIN shown |-> shown[i].texts]), LAMBDA id : id[1] = n)

\* When nothing of the page is at work, nothing of an answer that is over is
\* lost, doubled or out of order on it: it shows what it read, or all that the
\* server stored. The texts are played from the buffer, committed, and replaced
\* by the history if that is not shorter, whatever thread is open meanwhile. Not
\* claimed when the thread was opened, or asked again, in the middle of an
\* answer, until it is opened the next time.
AnswersShown ==
  ~Busy /\ ~Opening /\ ~overtaken =>
    \A n \in DOMAIN reply : reply[n].st = "over" =>
      TextsShown(n) \in {TextIds(reply[n].events), TextIds(SubSeq(reply[n].events, 1, reader[n].at))}

\* "All three ways to end", and a resumed answer too: when nothing of the page
\* is at work, no text waits in the buffer, no entry is left in the stream, the
\* page does not say that it streams, and no tool turns for ever.
NothingLeftOpen ==
  ~Busy /\ ~Opening =>
    /\ live = <<>> /\ buf = <<>> /\ ~streaming
    /\ \A i \in DOMAIN shown : \A c \in DOMAIN shown[i].tools : shown[i].tools[c] # "start"

\* Both: whatever the page went through, it shows the answers, and shows them ended.
PageShowsAll == AnswersShown /\ NothingLeftOpen
=============================================================================
