------------------------------ MODULE ChatTurns ------------------------------
(***************************************************************************)
(* The turns of the shopping assistant and their event sessions: each run  *)
(* of stream_agent_chat with the agent it builds, the session it creates   *)
(* in SSESessionManager under the id of its thread, the connections that   *)
(* replay and follow that session (event_generator), and the hourly        *)
(* clean-up. The history store is not modelled, only what it was given:    *)
(* a store that fails is ignored by the code.                              *)
(*                                                                         *)
(* A session is named by the turn that created it; event_id k of the code  *)
(* is position k + 1 of its events. Its queue holds what add_event added   *)
(* and no connection has taken: the positions from head on.                *)
(***************************************************************************)
EXTENDS Integers, Sequences, FiniteSets

CONSTANTS
  Threads, Pages,
  MaxTurns,    \* bound: the turns that are asked for
  MaxHistory,  \* _max_history
  MaxChunks    \* bound: the text chunks of one turn

ASSUME ThreadsAssumption == Threads # {}
ASSUME BoundsAssumption == MaxTurns \in Nat \ {0} /\ MaxHistory \in Nat \ {0} /\ MaxChunks \in Nat

Turns == 1..MaxTurns  \* in the order in which they begin
None == 0

VARIABLES
  table,      \* _sessions: the session of each thread
  session,    \* the session objects
  turn,       \* the running stream_agent_chat of each turn
  page,       \* the connections to /sessions/{thread_id}/events
  overlapped  \* whether a turn began while another one of its thread ran

vars == <<table, session, turn, page, overlapped>>

End == {"done", "error"}
Event == [turn : Turns, kind : {"part"} \cup End]
Session == [events : Seq(Event), head : Nat \ {0}, active : BOOLEAN]
\* unsaved: text of the answer that the history was not given yet. left: the
\* chunks that the agent's stream still has.
Turn == [pc : {"new", "stream", "done", "stopping", "ended"},
         thread : Threads, unsaved : BOOLEAN, left : 0..MaxChunks]
\* first: where the replay begins. got: the positions of its session that the
\* page was sent. In "sent" the generator stands at a yield, in "wait" in the
\* queue's get.
Page == [conn : {"off", "sent", "wait"}, on : Turns, first : Nat, got : SUBSET Nat]
NoPage == [conn |-> "off", on |-> 1, first |-> 1, got |-> {}]

At(t, l) == turn[t].pc = l
Goto(t, l) == turn' = [turn EXCEPT ![t].pc = l, ![t].left = 0]
Saves(t, l) == turn' = [turn EXCEPT ![t].pc = l, ![t].left = 0, ![t].unsaved = FALSE]
Running(t) == turn[t].pc \notin {"new", "ended"}
Home(t) == table[turn[t].thread]
\* The events that the trimmed history still has.
Oldest(s) == IF Len(session[s].events) > MaxHistory THEN Len(session[s].events) - MaxHistory + 1 ELSE 1
Live(p) == page[p].conn # "off"

\* emit and emit_nowait: by the id of the thread, whoever has its session now.
Pushes(t, kind) ==
  session' = IF Home(t) = None THEN session
             ELSE [session EXCEPT ![Home(t)].events = Append(@, [turn |-> t, kind |-> kind])]
Deactivates(th) ==
  session' = IF table[th] = None THEN session ELSE [session EXCEPT ![table[th]].active = FALSE]

Init ==
  /\ table = [th \in Threads |-> None]
  /\ session = [t \in Turns |-> [events |-> <<>>, head |-> 1, active |-> FALSE]]
  /\ turn = [t \in Turns |-> [pc |-> "new", thread |-> CHOOSE th \in Threads : TRUE,
                              unsaved |-> FALSE, left |-> 0]]
  /\ page = [p \in Pages |-> NoPage]
  /\ overlapped = FALSE
-----------------------------------------------------------------------------
(* Mistakes the code does not make: A_m is what the operator A below would  *)
(* be with one of them. Only the runs that test the properties use them.    *)

\* The session of the thread is kept if there is one, as events_router does.
Begin_Reuses(t, th) ==
  LET s == IF table[th] = None THEN t ELSE table[th] IN
  /\ At(t, "new") /\ \A u \in 1..(t - 1) : ~At(u, "new")
  /\ turn' = [turn EXCEPT ![t].pc = "stream", ![t].thread = th, ![t].left = MaxChunks]
  /\ table' = [table EXCEPT ![th] = s]
  /\ session' = [session EXCEPT ![s].events = Append(@, [turn |-> t, kind |-> "part"]),
                                ![s].active = TRUE]
  /\ overlapped' = (overlapped \/ \E u \in Turns : Running(u) /\ turn[u].thread = th)
  /\ UNCHANGED page

\* The done event goes out before the answer is saved.
SaveAnswer_After(t) ==
  /\ At(t, "stream") /\ Goto(t, "done") /\ Pushes(t, "done")
  /\ UNCHANGED <<table, page, overlapped>>

\* The get that times out has taken the event that came just then.
Heartbeat_Loses(p) ==
  LET s == page[p].on IN
  /\ page[p].conn = "wait"
  /\ page' = [page EXCEPT ![p].conn = "sent"]
  /\ session' = [session EXCEPT ![s].head = IF @ <= Len(session[s].events) THEN @ + 1 ELSE @]
  /\ UNCHANGED <<table, turn, overlapped>>

\* queue.get() without wait_for.
Heartbeat_Never(p) == page[p].conn = "wait" /\ FALSE /\ UNCHANGED vars
-----------------------------------------------------------------------------
(* stream_agent_chat. Up to an await or a yield its code is one action.     *)

\* create_session, which replaces the session of the thread, and the init chunk.
Begin(t, th) ==
  /\ At(t, "new") /\ \A u \in 1..(t - 1) : ~At(u, "new")
  /\ turn' = [turn EXCEPT ![t].pc = "stream", ![t].thread = th, ![t].left = MaxChunks]
  /\ table' = [table EXCEPT ![th] = t]
  /\ session' = [session EXCEPT ![t] = [events |-> <<[turn |-> t, kind |-> "part"]>>,
                                        head |-> 1, active |-> TRUE]]
  /\ overlapped' = (overlapped \/ \E u \in Turns : Running(u) /\ turn[u].thread = th)
  /\ UNCHANGED page

\* There is no such agent, which is found before any chunk. The session stays
\* active.
NoAgent(t) ==
  /\ At(t, "stream") /\ turn[t].left = MaxChunks /\ Goto(t, "ended") /\ Pushes(t, "error")
  /\ UNCHANGED <<table, page, overlapped>>

\* A piece of the answer. That the agent is built and the user's message saved
\* before the first one (a store that fails is ignored) changes nothing here.
Chunk(t) ==
  /\ At(t, "stream") /\ turn[t].left > 0
  /\ turn' = [turn EXCEPT ![t].left = @ - 1, ![t].unsaved = TRUE]
  /\ Pushes(t, "part")
  /\ UNCHANGED <<table, page, overlapped>>

\* The text so far is saved as a message of its own, before a card; a store
\* that fails is ignored, and the text lost.
Flush(t) ==
  /\ At(t, "stream") /\ turn[t].unsaved
  /\ turn' = [turn EXCEPT ![t].unsaved = FALSE]
  /\ UNCHANGED <<table, session, page, overlapped>>

\* The stream is over: the answer is saved, then done is told.
SaveAnswer(t) ==
  /\ At(t, "stream") /\ Saves(t, "done") /\ Pushes(t, "done")
  /\ UNCHANGED <<table, page, overlapped>>

Deactivate(t) ==
  /\ At(t, "done") /\ Goto(t, "ended") /\ Deactivates(turn[t].thread)
  /\ UNCHANGED <<table, page, overlapped>>

\* The client is gone and the server cancels the turn in an await.
Cancels(t) ==
  /\ At(t, "stream")
  /\ Goto(t, "stopping") /\ Deactivates(turn[t].thread)
  /\ UNCHANGED <<table, page, overlapped>>

\* The partial answer is saved. The "interrupted" chunk that follows is one that
\* legacy_chunk_to_events makes no event of.
Interrupted(t) ==
  /\ At(t, "stopping") /\ Saves(t, "ended")
  /\ UNCHANGED <<table, session, page, overlapped>>

\* The stream raises: the partial answer is saved, then the error told; the
\* session stays active. A database that fails here ends the turn without the event.
Reports(t) ==
  /\ At(t, "stream")
  /\ \/ Saves(t, "ended") /\ Pushes(t, "error")
     \/ Goto(t, "ended") /\ UNCHANGED session
  /\ UNCHANGED <<table, page, overlapped>>

\* The client is gone while the turn stands at a yield, before its outer try,
\* or in one of its handlers: nothing more is done for it.
Dropped(t) ==
  /\ turn[t].pc \in {"stream", "done", "stopping"} /\ Goto(t, "ended")
  /\ UNCHANGED <<table, session, page, overlapped>>

\* /agent/{agent_id}/stop.
Stop(th) ==
  /\ table[th] # None /\ session[table[th]].active /\ Deactivates(th)
  /\ UNCHANGED <<table, turn, page, overlapped>>

\* cleanup_inactive_sessions: what is inactive, or has had no event for an
\* hour; a turn that runs is taken to have one.
Clean(th) ==
  /\ table[th] # None
  /\ ~session[table[th]].active \/ \A t \in Turns : turn[t].thread = th => ~Running(t)
  /\ table' = [table EXCEPT ![th] = None]
  /\ UNCHANGED <<session, turn, page, overlapped>>
-----------------------------------------------------------------------------
(* event_generator, with the cursor of resumeInProgressStream, -1. The      *)
(* replay and the first test of the loop have only yields between them.     *)

Connect(p, th) ==
  /\ ~Live(p) /\ table[th] # None
  /\ page' = [page EXCEPT ![p] = [conn |-> "sent", on |-> table[th], first |-> Oldest(table[th]),
                                  got |-> Oldest(table[th])..Len(session[table[th]].events)]]
  /\ UNCHANGED <<table, session, turn, overlapped>>

\* The condition of the loop.
Test(p) ==
  /\ page[p].conn = "sent"
  /\ page' = IF session[page[p].on].active THEN [page EXCEPT ![p].conn = "wait"]
                                            ELSE [page EXCEPT ![p] = NoPage]
  /\ UNCHANGED <<table, session, turn, overlapped>>

Take(p) ==
  LET s == page[p].on IN
  /\ page[p].conn = "wait" /\ session[s].head <= Len(session[s].events)
  /\ page' = [page EXCEPT ![p].conn = "sent", ![p].got = @ \cup {session[s].head}]
  /\ session' = [session EXCEPT ![s].head = @ + 1]
  /\ UNCHANGED <<table, turn, overlapped>>

\* No event for the timeout of wait_for.
Heartbeat(p) ==
  /\ page[p].conn = "wait" /\ session[page[p].on].head > Len(session[page[p].on].events)
  /\ page' = [page EXCEPT ![p].conn = "sent"]
  /\ UNCHANGED <<table, session, turn, overlapped>>

\* The loop finds that max_timeout has passed.
TimesOut(p) ==
  /\ page[p].conn = "sent"
  /\ page' = [page EXCEPT ![p] = NoPage]
  /\ UNCHANGED <<table, session, turn, overlapped>>

\* The page goes, and the server cancels its generator.
Leave(p) ==
  /\ Live(p)
  /\ page' = [page EXCEPT ![p] = NoPage]
  /\ UNCHANGED <<table, session, turn, overlapped>>

Works(t) ==
  \/ NoAgent(t) \/ Chunk(t) \/ Flush(t) \/ SaveAnswer(t)
  \/ Deactivate(t) \/ Interrupted(t) \/ Reports(t)

Follows(p) == Test(p) \/ Take(p) \/ Heartbeat(p)

Next ==
  \/ \E t \in Turns : (\E th \in Threads : Begin(t, th)) \/ Works(t) \/ Cancels(t) \/ Dropped(t)
  \/ \E th \in Threads : Stop(th) \/ Clean(th) \/ \E p \in Pages : Connect(p, th)
  \/ \E p \in Pages : Follows(p) \/ TimesOut(p) \/ Leave(p)

Spec == Init /\ [][Next]_vars

\* The event loop goes on with what it holds, the agent's stream ends, and a
\* loop that goes on is still there when max_timeout has passed. The hourly
\* clean-up is not needed.
Fairness ==
  /\ \A t \in Turns : WF_vars(Works(t))
  /\ \A p \in Pages : WF_vars(Follows(p)) /\ SF_vars(TimesOut(p))

FairSpec == Spec /\ Fairness
-----------------------------------------------------------------------------
TypeOK ==
  /\ table \in [Threads -> Turns \cup {None}]
  /\ session \in [Turns -> Session]
  /\ \A t \in Turns : session[t].head <= Len(session[t].events) + 1
  /\ turn \in [Turns -> Turn]
  /\ page \in [Pages -> Page]
  /\ overlapped \in BOOLEAN

\* stream_session_events: "replays the events of the buffer with a larger id,
\* then goes on": what one connection at a time was sent has no hole, whatever
\* was emitted while it replayed and whatever earlier connections took off the
\* queue.
NothingSkipped == \A p \in Pages : \A i \in page[p].got : page[p].first..i \subseteq page[p].got

\* The page trusts the history of a turn of which it sees the end (done or
\* error): by then every text of the turn was given to the history.
EndMeansSaved ==
  \A s, t \in Turns :
    turn[t].unsaved => \A i \in DOMAIN session[s].events :
      session[s].events[i].turn = t => session[s].events[i].kind \notin End

\* One session per turn: as long as a thread has one turn at a time, the
\* buffer tells the answer of its own turn only, and nothing after its end.
OneStory ==
  ~overlapped => \A s \in Turns :
    \A i \in DOMAIN session[s].events :
      LET e == session[s].events[i] IN
      /\ e.turn = s
      /\ e.kind \in End => i = Len(session[s].events)

\* "to keep from waiting for ever": no connection outlives max_timeout, even
\* one whose session was replaced and is never deactivated.
ConnectionsEnd == \A p \in Pages : []<>~Live(p)
=============================================================================
