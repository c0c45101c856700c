----------------------------- MODULE PlanningRun -----------------------------
(***************************************************************************)
(* One procurement run of planning_service: the run row and its            *)
(* planning_events rows in PostgreSQL, the background tasks that push the  *)
(* run forward (advance, one for create_run and one for every answer), the *)
(* DeltaPump task each of them feeds, the delivery endpoint, and the SSE   *)
(* readers of planning_router that poll the event table with a cursor.     *)
(*                                                                         *)
(* Every await of the code that ends a database transaction ends an action *)
(* here, so any other task may run between two of them.                    *)
(***************************************************************************)
EXTENDS Integers, Sequences, FiniteSets

CONSTANTS
  Segments,        \* the advance tasks: First by create_run, the others by answers
  First,
  Readers,         \* connected pages of the workbench
  MaxEvents,       \* MAX_EVENTS_PER_RUN
  MaxBatch,        \* the default limit of list_events
  MaxRetries,      \* MAX_DECISION_RETRIES
  MaxSteps,        \* bound: chunks of one agent stream
  MaxCrashes,      \* bound: process restarts
  MaxFaults,       \* bound: database errors that emit and _patch_run swallow
  StreamsText,     \* whether the model streams text, which starts the pump
  AnswersAnytime   \* whether answers come at any time (a stale tab, a double
                   \* click) or once per question, by a page that was shown it

ASSUME FirstAssumption == First \in Segments
ASSUME BoundsAssumption ==
  /\ MaxEvents \in Nat /\ MaxBatch \in Nat \ {0} /\ MaxRetries \in Nat /\ MaxSteps \in Nat
  /\ MaxCrashes \in Nat /\ MaxFaults \in Nat
ASSUME SwitchAssumption == StreamsText \in BOOLEAN /\ AnswersAnytime \in BOOLEAN

VARIABLES
  run,      \* the planning_runs row
  log,      \* the planning_events rows, in commit order (the row id)
  pc,       \* where each advance task is
  local,    \* what each advance task holds in memory
  out,      \* per writer, the kinds of event it still has to emit before going on
  base,     \* per writer, max(seq) as its emit in flight has read it
  reader,   \* per page, its connection, its cursor and the rows it was sent
  deliver,  \* whether mark_delivered stands between its read and its commit
  notified, \* whether the run is in the notify set of its user
  crashes, faults

vars == <<run, log, pc, local, out, base, reader, deliver, notified, crashes, faults>>

Kind == {"work", "question", "deliverable", "done"}
Status == {"running", "awaiting", "converged", "failed"}
\* What the agent has found so far: the segments whose finds it holds, and
\* whether its plan names at least one item.
Products == [items : SUBSET Segments, plan : BOOLEAN]
RunRow == [status : Status, question : BOOLEAN, products : Products,
           messages : SUBSET Segments, delivered : BOOLEAN]
EventRow == [seq : Nat, kind : Kind]
Local == [acc : Products, hist : SUBSET Segments, steps : 0..MaxSteps, tries : 0..MaxRetries]
\* The control points of advance from which a last patch of the status is
\* still to come, and the others.
Ahead == {"start", "mark", "loop", "asked", "stop", "ask", "check", "cont",
          "contAsked", "final", "persist", "decide", "finish", "failing", "finishFailing"}
Behind == {"idle", "answering", "late", "notify", "ended"}
ReaderState == [conn : {"poll", "check", "last", "closed"}, cursor : Nat, got : SUBSET (Nat \ {0})]

Main(a) == <<a, "main">>
Pump(a) == <<a, "pump">>
Writers == Segments \X {"main", "pump"}
NoBase == -1

Seqs == {log[i].seq : i \in DOMAIN log}
\* select coalesce(max(seq), 0)
IsTop(n) == n \in {0} \cup Seqs /\ \A s \in Seqs : s <= n

\* No emit of the task is pending or in flight, so its code goes on. Emits with
\* nothing but emits between them are one event of the model.
Quiet(a) == out[Main(a)] = <<>>
At(a, l) == pc[a] = l /\ Quiet(a)
Goto(a, l) == pc' = [pc EXCEPT ![a] = l]
Emits(w, kinds) == out' = [out EXCEPT ![w] = kinds]
\* _patch_run: one transaction whose failure is logged and forgotten.
Patch(row) ==
  \/ run' = row /\ UNCHANGED faults
  \/ faults < MaxFaults /\ faults' = faults + 1 /\ UNCHANGED run

\* pump.close() cancels the pump task, with the emit it is in, and emits in
\* the advance task what the buffer still holds.
ClosePump(a) ==
  LET buffered == out[Pump(a)] # <<>> /\ base[Pump(a)] = NoBase IN
  /\ out' = [out EXCEPT ![Pump(a)] = <<>>, ![Main(a)] = IF buffered THEN <<"work">> ELSE <<>>]
  /\ base' = [base EXCEPT ![Pump(a)] = NoBase]

Unread(r) == {i \in DOMAIN log : log[i].seq > reader[r].cursor}
\* (A mistake, see below: the query has no order_by.)
FirstRows_Unordered(r, D) == D \subseteq Unread(r) /\ Cardinality(D) <= MaxBatch
\* What list_events may return, or a page may have got of it when the
\* connection breaks: rows after the cursor, in the order of their seq.
FirstRows(r, D) ==
  /\ D \subseteq Unread(r) /\ Cardinality(D) <= MaxBatch
  /\ \A i \in D, j \in Unread(r) \ D : log[i].seq <= log[j].seq
Batch(r, D) == FirstRows(r, D) /\ (D = Unread(r) \/ Cardinality(D) = MaxBatch)

\* (A mistake, see below: lastSeq is set once per batch.)
Sends_FirstSeq(r, D, conn) ==
  \/ /\ D = {}
     /\ reader' = [reader EXCEPT ![r].conn = conn]
  \/ \E i \in D :
       /\ \A j \in D : log[i].seq <= log[j].seq
       /\ reader' = [reader EXCEPT ![r] = [conn |-> conn, cursor |-> log[i].seq, got |-> @.got \cup D]]
\* The page was sent the rows of D, in the order of their seq: its lastSeq is
\* the largest of them.
Sends(r, D, conn) ==
  \/ /\ D = {}
     /\ reader' = [reader EXCEPT ![r].conn = conn]
  \/ \E i \in D :
       /\ \A j \in D : log[j].seq <= log[i].seq
       /\ reader' = [reader EXCEPT ![r] = [conn |-> conn, cursor |-> log[i].seq, got |-> @.got \cup D]]

Init ==
  /\ run = [status |-> "running", question |-> FALSE, delivered |-> FALSE,
            products |-> [items |-> {}, plan |-> FALSE], messages |-> {}]
  /\ log = <<>>
  /\ pc = [a \in Segments |-> IF a = First THEN "start" ELSE "idle"]
  /\ local = [a \in Segments |-> [acc |-> [items |-> {}, plan |-> FALSE], hist |-> {},
                                  steps |-> 0, tries |-> 0]]
  /\ out = [w \in Writers |-> <<>>]
  /\ base = [w \in Writers |-> NoBase]
  /\ reader = [r \in Readers |-> [conn |-> "poll", cursor |-> 0, got |-> {}]]
  /\ deliver = FALSE /\ notified = FALSE /\ crashes = 0 /\ faults = 0
-----------------------------------------------------------------------------
(* Mistakes the code does not make, or no longer makes: an operator A_m is  *)
(* what the action A below would be with one of them. Nothing uses them but *)
(* the runs that test whether the properties notice.                        *)

\* seq taken from count(*) instead of max(seq).
EmitRead_Count(w) ==
  /\ out[w] # <<>> /\ base[w] = NoBase /\ Len(log) < MaxEvents
  /\ base' = [base EXCEPT ![w] = Len(log)]
  /\ UNCHANGED <<run, log, pc, local, out, reader, deliver, notified, crashes, faults>>

\* The products of earlier segments are not taken over.
Start_Empty(a) ==
  /\ At(a, "start")
  /\ local' = [local EXCEPT ![a] = [acc |-> [items |-> {}, plan |-> FALSE], steps |-> 0,
                                    hist |-> run.messages \cup {a}, tries |-> 0]]
  /\ Goto(a, "mark") /\ Emits(Main(a), <<"work">>)
  /\ UNCHANGED <<run, log, base, reader, deliver, notified, crashes, faults>>

\* An exception ends the task without a word to the row.
Raises_Silently(a) ==
  /\ \/ \E l \in {"start", "loop", "asked", "check", "decide"} : At(a, l)
     \/ At(a, "cont") /\ local[a].steps = 0
  /\ ClosePump(a) /\ Goto(a, "ended")
  /\ UNCHANGED <<run, log, local, reader, deliver, notified, crashes, faults>>

\* The continuations have no limit.
Retry_Always(a) ==
  /\ At(a, "check") /\ ~local[a].acc.plan
  /\ local' = [local EXCEPT ![a].tries = @ + 1, ![a].steps = 0]
  /\ Goto(a, "cont") /\ Emits(Main(a), <<"work">>)
  /\ UNCHANGED <<run, log, base, reader, deliver, notified, crashes, faults>>

\* advance returns after a continuation, whatever its outcome.
ContinueEnds_Returns(a) ==
  /\ At(a, "cont") /\ Goto(a, "ended")
  /\ UNCHANGED <<run, log, local, out, base, reader, deliver, notified, crashes, faults>>

\* A run without a decision is finished like any other.
Decide_Always(a) ==
  /\ At(a, "decide") /\ Goto(a, "finish") /\ Emits(Main(a), <<"deliverable">>)
  /\ UNCHANGED <<run, log, local, base, reader, deliver, notified, crashes, faults>>
-----------------------------------------------------------------------------
(* emit: the two queries, then the insert and its commit.                   *)

EmitRead(w) ==
  /\ out[w] # <<>> /\ base[w] = NoBase /\ Len(log) < MaxEvents
  /\ \E top \in {0} \cup Seqs : IsTop(top) /\ base' = [base EXCEPT ![w] = top]
  /\ UNCHANGED <<run, log, pc, local, out, reader, deliver, notified, crashes, faults>>

EmitInsert(w) ==
  /\ out[w] # <<>> /\ base[w] # NoBase
  /\ log' = Append(log, [seq |-> base[w] + 1, kind |-> Head(out[w])])
  /\ base' = [base EXCEPT ![w] = NoBase]
  /\ Emits(w, Tail(out[w]))
  /\ UNCHANGED <<run, pc, local, reader, deliver, notified, crashes, faults>>

\* The event is dropped: the run has MAX_EVENTS_PER_RUN events, or the
\* database failed before or at the commit.
EmitDrops(w) ==
  /\ out[w] # <<>>
  /\ \/ base[w] = NoBase /\ Len(log) >= MaxEvents /\ UNCHANGED faults
     \/ faults < MaxFaults /\ faults' = faults + 1
  /\ base' = [base EXCEPT ![w] = NoBase]
  /\ Emits(w, Tail(out[w]))
  /\ UNCHANGED <<run, log, pc, local, reader, deliver, notified, crashes>>
-----------------------------------------------------------------------------
(* answer_question, and advance up to its stream.                           *)

\* A page that was sent the question in the stream. It shows the question until
\* it is answered, and the answer is an event.
QuestionShown ==
  /\ run.status = "awaiting"
  /\ \A b \in Segments : pc[b] # "answering"
  /\ log # <<>> /\ log[Len(log)].kind = "question"
  /\ \E r \in Readers : Len(log) \in reader[r].got

Answer(a) ==
  /\ pc[a] = "idle" /\ (AnswersAnytime \/ QuestionShown)
  /\ Goto(a, "answering") /\ Emits(Main(a), <<"work">>)
  /\ UNCHANGED <<run, log, local, base, reader, deliver, notified, crashes, faults>>

AnswerPatch(a) ==
  /\ At(a, "answering")
  /\ Patch([run EXCEPT !.question = FALSE, !.status = "running"])
  /\ Goto(a, "start")
  /\ UNCHANGED <<log, local, out, base, reader, deliver, notified, crashes>>

\* get_run, from which _seed_acc and _agent_input take what earlier segments
\* found and said, then _merge_graph and its graph event.
Start(a) ==
  /\ At(a, "start")
  /\ local' = [local EXCEPT ![a] = [acc |-> run.products, hist |-> run.messages \cup {a},
                                    steps |-> 0, tries |-> 0]]
  /\ Goto(a, "mark") /\ Emits(Main(a), <<"work">>)
  /\ UNCHANGED <<run, log, base, reader, deliver, notified, crashes, faults>>

MarkRunning(a) ==
  /\ At(a, "mark")
  /\ Patch([run EXCEPT !.status = "running"]) /\ Goto(a, "loop")
  /\ UNCHANGED <<log, local, out, base, reader, deliver, notified, crashes>>
-----------------------------------------------------------------------------
(* The agent streams: the first one, and those of _continue_for_decision.   *)

\* A token of the model lands in the pump's buffer, whose task drains it.
Token(a) ==
  /\ StreamsText /\ At(a, "loop") /\ local[a].steps < MaxSteps /\ out[Pump(a)] = <<>>
  /\ Emits(Pump(a), <<"work">>)
  /\ local' = [local EXCEPT ![a].steps = @ + 1]
  /\ UNCHANGED <<run, log, pc, base, reader, deliver, notified, crashes, faults>>

\* _on_agent_step on a chunk without a question: candidates are added to acc,
\* _merge_plan never empties a plan, and the call, result, phase and graph
\* events of the chunk are emitted.
AgentStep(a) ==
  /\ At(a, "loop") \/ At(a, "cont")
  /\ local[a].steps < MaxSteps
  /\ \E decides \in BOOLEAN :
       local' = [local EXCEPT ![a].steps = @ + 1,
                              ![a].acc.items = @ \cup {a},
                              ![a].acc.plan = @ \/ decides]
  /\ Emits(Main(a), <<"work">>)
  /\ UNCHANGED <<run, log, pc, base, reader, deliver, notified, crashes, faults>>

\* _on_agent_step on a chunk in which ask_user wrote a question.
AgentAsks(a) ==
  /\ \/ At(a, "loop") /\ Goto(a, "asked")
     \/ At(a, "cont") /\ Goto(a, "contAsked")
  /\ Patch([run EXCEPT !.products = local[a].acc])
  /\ Emits(Main(a), <<"work">>)
  /\ UNCHANGED <<log, local, base, reader, deliver, notified, crashes>>

StreamEnds(a) ==
  /\ \/ At(a, "asked") /\ Goto(a, "stop")
     \/ At(a, "loop") /\ Goto(a, "check")
  /\ ClosePump(a)
  /\ UNCHANGED <<run, log, local, reader, deliver, notified, crashes, faults>>

\* An exception in advance outside of _patch_run, emit and the stream of the
\* continuation.
Raises(a) ==
  /\ \/ \E l \in {"start", "loop", "asked", "check", "decide"} : At(a, l)
     \/ At(a, "cont") /\ local[a].steps = 0
  /\ ClosePump(a) /\ Goto(a, "failing")
  /\ UNCHANGED <<run, log, local, reader, deliver, notified, crashes, faults>>

\* _finish cannot build its deliverables from the row.
FinishRaises(a) ==
  /\ At(a, "finish") /\ Goto(a, "finishFailing")
  /\ UNCHANGED <<run, log, local, out, base, reader, deliver, notified, crashes, faults>>
-----------------------------------------------------------------------------
(* Stopping to ask.                                                         *)

SaveHistory(a) ==
  /\ At(a, "stop")
  /\ Patch([run EXCEPT !.messages = local[a].hist]) /\ Goto(a, "ask")
  /\ UNCHANGED <<log, local, out, base, reader, deliver, notified, crashes>>

\* The status and the question are committed first, the event follows.
PatchAwaiting(a) ==
  /\ Patch([run EXCEPT !.status = "awaiting", !.question = TRUE])
  /\ Emits(Main(a), <<"question">>)

Ask(a) ==
  /\ At(a, "ask") /\ PatchAwaiting(a) /\ Goto(a, "ended")
  /\ UNCHANGED <<log, local, base, reader, deliver, notified, crashes>>

\* A continuation that asks: advance saves the history when it has returned.
ContinueAsks(a) ==
  /\ At(a, "contAsked") /\ PatchAwaiting(a) /\ Goto(a, "late")
  /\ UNCHANGED <<log, local, base, reader, deliver, notified, crashes>>

SaveHistoryLate(a) ==
  /\ At(a, "late")
  /\ Patch([run EXCEPT !.messages = local[a].hist]) /\ Goto(a, "ended")
  /\ UNCHANGED <<log, local, out, base, reader, deliver, notified, crashes>>
-----------------------------------------------------------------------------
(* The end of the stream without a question.                                *)

\* Without a decision, up to MaxRetries continuations of the stream.
Retry(a) ==
  /\ At(a, "check") /\ ~local[a].acc.plan /\ local[a].tries < MaxRetries
  /\ local' = [local EXCEPT ![a].tries = @ + 1, ![a].steps = 0]
  /\ Goto(a, "cont") /\ Emits(Main(a), <<"work">>)
  /\ UNCHANGED <<run, log, base, reader, deliver, notified, crashes, faults>>

\* The continuation ended, normally or by an exception it swallows.
ContinueEnds(a) ==
  /\ At(a, "cont") /\ Goto(a, "check")
  /\ UNCHANGED <<run, log, local, out, base, reader, deliver, notified, crashes, faults>>

\* _close_all_phases, then _persist_history.
SaveFinal(a) ==
  /\ At(a, "check") /\ (local[a].acc.plan \/ local[a].tries = MaxRetries)
  /\ Goto(a, "final") /\ Emits(Main(a), <<"work">>)
  /\ UNCHANGED <<run, log, local, base, reader, deliver, notified, crashes, faults>>

SaveFinalHistory(a) ==
  /\ At(a, "final")
  /\ Patch([run EXCEPT !.messages = local[a].hist]) /\ Goto(a, "persist")
  /\ UNCHANGED <<log, local, out, base, reader, deliver, notified, crashes>>

\* _persist_products, then the graph event of _sync_graph.
SaveProducts(a) ==
  /\ At(a, "persist")
  /\ Patch([run EXCEPT !.products = local[a].acc])
  /\ Goto(a, "decide") /\ Emits(Main(a), <<"work">>)
  /\ UNCHANGED <<log, local, base, reader, deliver, notified, crashes>>

\* A decision leads to _finish, which emits the deliverables it builds from
\* the row; no decision is a failure.
Decide(a) ==
  /\ At(a, "decide")
  /\ IF local[a].acc.plan
       THEN Goto(a, "finish") /\ Emits(Main(a), <<"deliverable">>)
       ELSE Goto(a, "failing") /\ UNCHANGED out
  /\ UNCHANGED <<run, log, local, base, reader, deliver, notified, crashes, faults>>

\* The status is committed first, the done event follows.
Converge(a) ==
  /\ At(a, "finish")
  /\ Patch([run EXCEPT !.status = "converged"])
  /\ Goto(a, "notify") /\ Emits(Main(a), <<"done">>)
  /\ UNCHANGED <<log, local, base, reader, deliver, notified, crashes>>

\* notify_run_once, whose failure is logged and forgotten.
Notify(a) ==
  /\ At(a, "notify") /\ Goto(a, "ended") /\ notified' = TRUE
  /\ UNCHANGED <<run, log, local, out, base, reader, deliver, crashes, faults>>

\* Only the failures of _finish are told to the user.
Fail(a) ==
  /\ \/ At(a, "failing") /\ Goto(a, "ended")
     \/ At(a, "finishFailing") /\ Goto(a, "notify")
  /\ Patch([run EXCEPT !.status = "failed"])
  /\ Emits(Main(a), <<"done">>)
  /\ UNCHANGED <<log, local, base, reader, deliver, notified, crashes>>
-----------------------------------------------------------------------------
(* mark_delivered: read, then commit of the one column.                     *)

DeliverRead ==
  /\ ~deliver /\ run.status = "converged" /\ ~run.delivered
  /\ deliver' = TRUE
  /\ UNCHANGED <<run, log, pc, local, out, base, reader, notified, crashes, faults>>

DeliverCommit ==
  /\ deliver /\ deliver' = FALSE
  /\ run' = [run EXCEPT !.delivered = TRUE]
  /\ UNCHANGED <<log, pc, local, out, base, reader, notified, crashes, faults>>
-----------------------------------------------------------------------------
(* stream_events, and subscribe on the page.                                *)

ReaderPoll(r) ==
  /\ reader[r].conn = "poll"
  /\ \E D \in SUBSET Unread(r) : Batch(r, D) /\ Sends(r, D, "check")
  /\ UNCHANGED <<run, log, pc, local, out, base, deliver, notified, crashes, faults>>

\* The connection breaks inside the batch; the page reconnects with lastSeq.
ReaderBreaks(r) ==
  /\ reader[r].conn \in {"poll", "last"}
  /\ \E D \in SUBSET Unread(r) : FirstRows(r, D) /\ Sends(r, D, "poll")
  /\ UNCHANGED <<run, log, pc, local, out, base, deliver, notified, crashes, faults>>

ReaderCheck(r) ==
  /\ reader[r].conn = "check"
  /\ reader' = [reader EXCEPT ![r].conn =
                  IF run.status \in {"converged", "failed"} THEN "last" ELSE "poll"]
  /\ UNCHANGED <<run, log, pc, local, out, base, deliver, notified, crashes, faults>>

ReaderLast(r) ==
  /\ reader[r].conn = "last"
  /\ \E D \in SUBSET Unread(r) : Batch(r, D) /\ Sends(r, D, "closed")
  /\ UNCHANGED <<run, log, pc, local, out, base, deliver, notified, crashes, faults>>

\* SSE_MAX_SECONDS have passed: the stream ends, and the page takes that end
\* for the end of the run.
ReaderTimeout(r) ==
  /\ reader[r].conn = "poll"
  /\ reader' = [reader EXCEPT ![r].conn = "closed"]
  /\ UNCHANGED <<run, log, pc, local, out, base, deliver, notified, crashes, faults>>

\* onAnswer subscribes again, from lastSeq, when an answer has returned.
ReaderReopens(r) ==
  /\ reader[r].conn = "closed"
  /\ \E a \in Segments \ {First} : pc[a] \notin {"idle", "answering"}
  /\ reader' = [reader EXCEPT ![r].conn = "poll"]
  /\ UNCHANGED <<run, log, pc, local, out, base, deliver, notified, crashes, faults>>
-----------------------------------------------------------------------------
\* The process dies and is started again: its tasks are gone, the database
\* keeps what was committed, pages reconnect.
Crash ==
  /\ crashes < MaxCrashes /\ crashes' = crashes + 1
  /\ pc' = [a \in Segments |-> IF pc[a] = "idle" THEN "idle" ELSE "ended"]
  /\ out' = [w \in Writers |-> <<>>] /\ base' = [w \in Writers |-> NoBase]
  /\ deliver' = FALSE
  /\ reader' = [r \in Readers |-> [reader[r] EXCEPT !.conn = IF @ = "closed" THEN @ ELSE "poll"]]
  /\ UNCHANGED <<run, log, local, notified, faults>>

Emit(w) == EmitRead(w) \/ EmitInsert(w) \/ EmitDrops(w)

\* What an advance task does of itself.
Advance(a) ==
  \/ AnswerPatch(a) \/ Start(a) \/ MarkRunning(a) \/ Token(a) \/ AgentStep(a)
  \/ AgentAsks(a) \/ StreamEnds(a) \/ Raises(a) \/ SaveHistory(a) \/ Ask(a)
  \/ ContinueAsks(a) \/ SaveHistoryLate(a) \/ Retry(a) \/ ContinueEnds(a)
  \/ SaveFinal(a) \/ SaveFinalHistory(a) \/ SaveProducts(a) \/ Decide(a)
  \/ FinishRaises(a) \/ Converge(a) \/ Notify(a) \/ Fail(a)

Read(r) == ReaderPoll(r) \/ ReaderCheck(r) \/ ReaderLast(r)

Next ==
  \/ \E w \in Writers : Emit(w)
  \/ \E a \in Segments : Answer(a) \/ Advance(a)
  \/ DeliverRead \/ DeliverCommit
  \/ \E r \in Readers : Read(r) \/ ReaderBreaks(r) \/ ReaderTimeout(r) \/ ReaderReopens(r)
  \/ Crash

Spec == Init /\ [][Next]_vars

\* The event loop keeps running the tasks it holds; the agent's stream ends.
Fairness ==
  /\ \A w \in Writers : WF_vars(Emit(w))
  /\ \A a \in Segments : WF_vars(Advance(a))

FairSpec == Spec /\ Fairness
-----------------------------------------------------------------------------
TypeOK ==
  /\ run \in RunRow
  /\ log \in Seq(EventRow)
  /\ pc \in [Segments -> Ahead \cup Behind]
  /\ local \in [Segments -> Local]
  /\ out \in [Writers -> Seq(Kind)]
  /\ base \in [Writers -> Nat \cup {NoBase}]
  /\ reader \in [Readers -> ReaderState]
  /\ deliver \in BOOLEAN /\ notified \in BOOLEAN
  /\ crashes \in 0..MaxCrashes /\ faults \in 0..MaxFaults

\* emit's max(seq) + 1 has no unique index behind it, so two emits may store
\* the same seq; but the numbers leave no gap: the seqs stored are 1..top.
SeqsDense == \A s \in Seqs : s >= 1 /\ \A t \in 1..s : t \in Seqs

\* stream_events: whatever the interleaving of emits, broken connections and
\* restarts, no event is sent twice to a page ("will not replay old events"),
\* for its cursor has passed every row it got and never passes a seq of which
\* it got no row.
CursorExact ==
  \A r \in Readers :
    /\ \A i \in reader[r].got : i \in DOMAIN log /\ log[i].seq <= reader[r].cursor
    /\ reader[r].cursor > 0 => \E i \in reader[r].got : log[i].seq = reader[r].cursor

\* A run that waits for its user has a question to show, also when several
\* advance tasks and answers of one run patch the row in any order.
AwaitingHasQuestion == run.status = "awaiting" => run.question

\* Unless the process died or a patch was lost, a run that says it is running
\* has an advance task that still has a status to write: no interleaving of
\* answers and tasks leaves it running for ever.
RunningHasTask ==
  run.status = "running" /\ crashes = 0 /\ faults = 0 => \E a \in Segments : pc[a] \in Ahead

\* The event table as its reader is promised it: see EventFeed. Holds when one
\* task at a time emits.
Feed == INSTANCE EventFeed WITH feed <- [i \in DOMAIN log |-> log[i].kind],
                                seen <- [r \in Readers |-> reader[r].got]
FeedSpec == Feed!Spec

\* _seed_acc: what an earlier segment found or decided is never lost by a
\* later one, when segments follow one another.
ProductsKept ==
  [][/\ run.products.items \subseteq run'.products.items
     /\ run.products.plan => run'.products.plan]_vars

\* mark_delivered: a delivered run has a plan to deliver, also when it was
\* answered again since.
DeliveredHasPlan == run.delivered => run.products.plan

\* Every run comes to rest: waiting for its user, or over and, when it
\* converged, announced.
Settles == <>[](run.status # "running" /\ (run.status = "converged" => notified))

\* planning_router: "no event is missed", for events are in the database with
\* growing seq. A page that is past a row got it.
NoEventMissed ==
  \A r \in Readers : \A i \in DOMAIN log :
    log[i].seq <= reader[r].cursor => i \in reader[r].got
=============================================================================
