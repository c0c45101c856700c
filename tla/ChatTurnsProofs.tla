--------------------------- MODULE ChatTurnsProofs ---------------------------
(***************************************************************************)
(* Proofs about ChatTurns, for any number of threads and turns, and any    *)
(* history limit; two of them for one page.                                *)
(***************************************************************************)
EXTENDS ChatTurns, SequenceTheorems, TLAPS

SessionOK ==
  /\ session \in [Turns -> Session]
  /\ \A t \in Turns : session[t].head <= Len(session[t].events) + 1

\* An emit adds at most one event, to the session that the thread has.
LEMMA PushesAdds ==
  ASSUME TypeOK, NEW t \in Turns, NEW kind \in {"part"} \cup End, Pushes(t, kind)
  PROVE  /\ SessionOK'
         /\ \A s \in Turns :
              /\ session'[s].head = session[s].head
              /\ \/ session'[s].events = session[s].events
                 \/ /\ s = Home(t)
                    /\ session'[s].events = Append(session[s].events, [turn |-> t, kind |-> kind])
<1> DEFINE e == [turn |-> t, kind |-> kind]
<1>1. e \in Event
  BY DEF Event
<1>2. CASE Home(t) = None
  BY <1>2 DEF Pushes, TypeOK, SessionOK
<1>3. CASE Home(t) # None
  <2> DEFINE h == Home(t)
  <2>1. h \in Turns
    BY <1>3 DEF Home, TypeOK, Turn
  <2>2. session' = [session EXCEPT ![h] = [session[h] EXCEPT !.events = Append(session[h].events, e)]]
    BY <1>3, <2>1 DEF Pushes, TypeOK
  <2>3. /\ session[h] \in Session /\ session[h].events \in Seq(Event)
        /\ session[h].head \in Nat \ {0} /\ session[h].active \in BOOLEAN
        /\ session[h].head <= Len(session[h].events) + 1
    BY <2>1 DEF TypeOK, Session
  <2>4. /\ Append(session[h].events, e) \in Seq(Event)
        /\ Len(Append(session[h].events, e)) = Len(session[h].events) + 1
        /\ Len(session[h].events) \in Nat
    BY <1>1, <2>3
  <2> HIDE DEF h, e
  <2>5. [session[h] EXCEPT !.events = Append(session[h].events, e)] \in Session
    BY <2>3, <2>4 DEF Session
  <2>6. session' \in [Turns -> Session]
    BY <2>1, <2>2, <2>5 DEF TypeOK
  <2>7. /\ session'[h].events = Append(session[h].events, e) /\ session'[h].head = session[h].head
        /\ \A s \in Turns \ {h} : session'[s] = session[s]
    BY <2>1, <2>2, <2>3 DEF TypeOK, Session
  <2>8. \A s \in Turns : session'[s].head <= Len(session'[s].events) + 1
    <3>1. ASSUME NEW s \in Turns, s = h PROVE session'[s].head <= Len(session'[s].events) + 1
      BY <3>1, <2>3, <2>4, <2>7
    <3>2. ASSUME NEW s \in Turns, s # h PROVE session'[s].head <= Len(session'[s].events) + 1
      BY <3>2, <2>7 DEF TypeOK
    <3> QED BY <3>1, <3>2
  <2> QED BY <2>6, <2>7, <2>8 DEF SessionOK, h, e
<1> QED BY <1>2, <1>3

\* A deactivation leaves the events and the queue alone.
LEMMA DeactivatesKeeps ==
  ASSUME TypeOK, NEW th \in Threads, Deactivates(th)
  PROVE  /\ SessionOK'
         /\ \A s \in Turns : session'[s].head = session[s].head /\ session'[s].events = session[s].events
<1>1. CASE table[th] = None
  BY <1>1 DEF Deactivates, TypeOK, SessionOK
<1>2. CASE table[th] # None
  <2> DEFINE h == table[th]
  <2>1. h \in Turns
    BY <1>2 DEF TypeOK
  <2>2. session' = [session EXCEPT ![h] = [session[h] EXCEPT !.active = FALSE]]
    BY <1>2, <2>1 DEF Deactivates, TypeOK
  <2>3. session[h] \in Session
    BY <2>1 DEF TypeOK
  <2> HIDE DEF h
  <2>4. [session[h] EXCEPT !.active = FALSE] \in Session
    BY <2>3 DEF Session
  <2>5. session' \in [Turns -> Session]
    BY <2>1, <2>2, <2>4 DEF TypeOK
  <2>6. \A s \in Turns : session'[s].head = session[s].head /\ session'[s].events = session[s].events
    BY <2>1, <2>2, <2>3 DEF TypeOK, Session
  <2> QED BY <2>5, <2>6 DEF TypeOK, SessionOK
<1> QED BY <1>1, <1>2

\* A turn that goes on keeps its thread and its unsaved text.
LEMMA GotoStep ==
  ASSUME TypeOK, NEW t \in Turns, NEW l \in {"new", "stream", "done", "stopping", "ended"}, Goto(t, l)
  PROVE  /\ turn' \in [Turns -> Turn] /\ turn'[t].pc = l /\ turn'[t].unsaved = turn[t].unsaved
         /\ \A u \in Turns : turn'[u].thread = turn[u].thread /\ (u # t => turn'[u] = turn[u])
<1>1. turn[t] \in Turn /\ 0 \in 0..MaxChunks
  BY BoundsAssumption DEF TypeOK
<1>2. /\ turn'[t] \in Turn /\ turn'[t].pc = l /\ turn'[t].unsaved = turn[t].unsaved
      /\ turn'[t].thread = turn[t].thread
  BY <1>1 DEF Goto, Turn, TypeOK
<1>3. /\ turn' = [u \in Turns |-> turn'[u]]
      /\ \A u \in Turns : u # t => turn'[u] = turn[u]
  BY DEF Goto, TypeOK
<1>4. turn' \in [Turns -> Turn]
  BY <1>2, <1>3 DEF TypeOK
<1> QED BY <1>2, <1>3, <1>4

\* A turn that saves has no unsaved text.
LEMMA SavesStep ==
  ASSUME TypeOK, NEW t \in Turns, NEW l \in {"new", "stream", "done", "stopping", "ended"}, Saves(t, l)
  PROVE  /\ turn' \in [Turns -> Turn] /\ turn'[t].pc = l /\ turn'[t].unsaved = FALSE
         /\ \A u \in Turns : turn'[u].thread = turn[u].thread /\ (u # t => turn'[u] = turn[u])
<1>1. turn[t] \in Turn /\ 0 \in 0..MaxChunks
  BY BoundsAssumption DEF TypeOK
<1>2. /\ turn'[t] \in Turn /\ turn'[t].pc = l /\ turn'[t].unsaved = FALSE
      /\ turn'[t].thread = turn[t].thread
  BY <1>1 DEF Saves, Turn, TypeOK
<1>3. /\ turn' = [u \in Turns |-> turn'[u]]
      /\ \A u \in Turns : u # t => turn'[u] = turn[u]
  BY DEF Saves, TypeOK
<1>4. turn' \in [Turns -> Turn]
  BY <1>2, <1>3 DEF TypeOK
<1> QED BY <1>2, <1>3, <1>4

-----------------------------------------------------------------------------
\* What the steps of a turn do, as far as the theorems tell them apart: a step
\* without an event, a piece of text, and the end that is told.
TurnSteps(t) == Works(t) \/ Cancels(t) \/ Dropped(t)
Adds(t, kind) ==
  \A s \in Turns :
    \/ session'[s].events = session[s].events
    \/ /\ s = Home(t)
       /\ session'[s].events = Append(session[s].events, [turn |-> t, kind |-> kind])
Silent(t) ==
  /\ \A s \in Turns : session'[s].events = session[s].events
  /\ turn[t].pc \notin {"new", "ended"} /\ turn'[t].pc # "new"
  /\ turn[t].pc = "done" => turn'[t].pc = "ended"
  /\ turn'[t].unsaved => turn[t].unsaved /\ turn'[t].pc # "stream"
  /\ turn[t].pc # "stream" => turn'[t].pc # "stream"
Tells(t) ==
  /\ turn[t].pc = "stream" /\ turn'[t].pc = "stream"
  /\ turn'[t].left < MaxChunks /\ Adds(t, "part")
Finishes(t) ==
  /\ turn[t].pc = "stream" /\ turn'[t].pc \in {"done", "ended"}
  /\ turn'[t].unsaved => turn[t].unsaved /\ turn[t].left = MaxChunks
  /\ \E kind \in End : Adds(t, kind)

\* Every step of a turn is one of the three, and leaves the rest as it is.
LEMMA TurnActs ==
  ASSUME TypeOK, NEW t \in Turns, TurnSteps(t)
  PROVE  /\ UNCHANGED <<table, page, overlapped>>
         /\ turn' \in [Turns -> Turn]
         /\ \A u \in Turns : turn'[u].thread = turn[u].thread /\ (u # t => turn'[u] = turn[u])
         /\ SessionOK' /\ \A s \in Turns : session'[s].head = session[s].head
         /\ Silent(t) \/ Tells(t) \/ Finishes(t)
<1>t. turn[t] \in Turn /\ turn[t].thread \in Threads
  BY DEF TypeOK, Turn
<1>s. ASSUME session' = session
      PROVE  SessionOK' /\ \A s \in Turns : session'[s] = session[s]
  BY <1>s DEF TypeOK, SessionOK
<1>1. CASE NoAgent(t)
  <2>1. PICK kind \in End : kind = "error" /\ Pushes(t, kind)
    BY <1>1 DEF NoAgent, End
  <2>2. SessionOK' /\ Adds(t, kind) /\ \A s \in Turns : session'[s].head = session[s].head
    BY <2>1, PushesAdds DEF Adds
  <2> QED BY <1>1, <2>2, GotoStep DEF NoAgent, At, Finishes
<1>2. CASE Chunk(t)
  <2>1. SessionOK' /\ Adds(t, "part") /\ \A s \in Turns : session'[s].head = session[s].head
    BY <1>2, PushesAdds DEF Adds, Chunk
  <2>2. turn[t].left - 1 \in 0..MaxChunks /\ turn[t].left - 1 < MaxChunks
    BY <1>2, <1>t, BoundsAssumption DEF Chunk, Turn
  <2>3. /\ turn'[t] \in Turn /\ turn'[t].pc = turn[t].pc /\ turn'[t].left = turn[t].left - 1
        /\ turn'[t].thread = turn[t].thread
    BY <1>2, <1>t, <2>2 DEF Chunk, Turn, TypeOK
  <2>4. turn' = [u \in Turns |-> turn'[u]] /\ \A u \in Turns : u # t => turn'[u] = turn[u]
    BY <1>2 DEF Chunk, TypeOK
  <2>5. turn' \in [Turns -> Turn]
    BY <2>3, <2>4 DEF TypeOK
  <2>6. Tells(t)
    BY <1>2, <2>1, <2>2, <2>3 DEF Tells, Chunk, At
  <2> QED BY <1>2, <2>1, <2>3, <2>4, <2>5, <2>6 DEF Chunk
<1>3. CASE Flush(t)
  <2>1. /\ turn'[t] \in Turn /\ turn'[t].pc = turn[t].pc /\ ~turn'[t].unsaved
        /\ turn'[t].thread = turn[t].thread
    BY <1>3, <1>t DEF Flush, Turn, TypeOK
  <2>2. turn' = [u \in Turns |-> turn'[u]] /\ \A u \in Turns : u # t => turn'[u] = turn[u]
    BY <1>3 DEF Flush, TypeOK
  <2>3. turn' \in [Turns -> Turn]
    BY <2>1, <2>2 DEF TypeOK
  <2>4. Silent(t)
    BY <1>3, <1>s, <2>1 DEF Silent, Flush, At
  <2> QED BY <1>3, <1>s, <2>1, <2>2, <2>3, <2>4 DEF Flush
<1>4. CASE SaveAnswer(t)
  <2>1. PICK kind \in End : kind = "done" /\ Pushes(t, kind)
    BY <1>4 DEF SaveAnswer, End
  <2>2. SessionOK' /\ Adds(t, kind) /\ \A s \in Turns : session'[s].head = session[s].head
    BY <2>1, PushesAdds DEF Adds
  <2> QED BY <1>4, <2>2, SavesStep DEF SaveAnswer, At, Finishes
<1>5. CASE Deactivate(t) \/ Cancels(t)
  <2>1. /\ SessionOK'
        /\ \A s \in Turns : session'[s].head = session[s].head /\ session'[s].events = session[s].events
    BY <1>5, <1>t, DeactivatesKeeps DEF Deactivate, Cancels
  <2>2. PICK l \in {"ended", "stopping"} :
          Goto(t, l) /\ (l = "stopping" <=> turn[t].pc = "stream") /\ turn[t].pc \in {"stream", "done"}
    BY <1>5 DEF Deactivate, Cancels, At
  <2> QED BY <1>5, <2>1, <2>2, GotoStep DEF Deactivate, Cancels, Silent
<1>6. CASE Interrupted(t)
  BY <1>6, <1>s, SavesStep DEF Interrupted, At, Silent
<1>7. CASE Reports(t)
  <2>1. CASE Saves(t, "ended") /\ Pushes(t, "error")
    <3>1. PICK kind \in End : kind = "error" /\ Pushes(t, kind)
      BY <2>1 DEF End
    <3>2. SessionOK' /\ Adds(t, kind) /\ \A s \in Turns : session'[s].head = session[s].head
      BY <3>1, PushesAdds DEF Adds
    <3> QED BY <1>7, <2>1, <3>2, SavesStep DEF Reports, At, Finishes
  <2>2. CASE Goto(t, "ended") /\ UNCHANGED session
    BY <1>7, <2>2, <1>s, GotoStep DEF Reports, At, Silent
  <2> QED BY <1>7, <2>1, <2>2 DEF Reports
<1>8. CASE Dropped(t)
  BY <1>8, <1>s, GotoStep DEF Dropped, Silent
<1> QED BY <1>1, <1>2, <1>3, <1>4, <1>5, <1>6, <1>7, <1>8 DEF TurnSteps, Works
-----------------------------------------------------------------------------
\* Before the first turn, everything is well typed.
LEMMA InitType == Init => TypeOK
<1> SUFFICES ASSUME Init PROVE TypeOK
  OBVIOUS
<1>1. (CHOOSE th \in Threads : TRUE) \in Threads
  BY ThreadsAssumption
<1>2. turn \in [Turns -> Turn]
  BY <1>1, BoundsAssumption DEF Init, Turn
<1>3. /\ session \in [Turns -> Session]
      /\ \A t \in Turns : session[t].head <= Len(session[t].events) + 1
  <2>1. <<>> \in Seq(Event) /\ Len(<<>>) = 0
    OBVIOUS
  <2> QED BY <2>1 DEF Init, Session
<1>4. page \in [Pages -> Page]
  BY BoundsAssumption DEF Init, Page, NoPage, Turns
<1> QED BY <1>2, <1>3, <1>4 DEF Init, TypeOK

\* The first event of a session.
FirstEvents(t) == <<[turn |-> t, kind |-> "part"]>>

\* A turn that begins has a session of one event.
LEMMA BeginStep ==
  ASSUME TypeOK, NEW t \in Turns, NEW th \in Threads, Begin(t, th)
  PROVE  /\ TypeOK'
         /\ turn'[t].pc = "stream" /\ turn'[t].thread = th /\ turn'[t].unsaved = turn[t].unsaved
         /\ \A u \in Turns : u # t => turn'[u] = turn[u] /\ session'[u] = session[u]
         /\ session'[t].events = FirstEvents(t)
<1>1. turn[t] \in Turn /\ MaxChunks \in 0..MaxChunks
  BY BoundsAssumption DEF TypeOK
<1>2. /\ turn'[t] \in Turn /\ turn'[t].pc = "stream" /\ turn'[t].thread = th
      /\ turn'[t].unsaved = turn[t].unsaved
  BY <1>1 DEF Begin, Turn, TypeOK
<1>3. turn' = [u \in Turns |-> turn'[u]] /\ \A u \in Turns : u # t => turn'[u] = turn[u]
  BY DEF Begin, TypeOK
<1>4. turn' \in [Turns -> Turn]
  BY <1>2, <1>3 DEF TypeOK
<1>5. FirstEvents(t) \in Seq(Event) /\ Len(FirstEvents(t)) = 1
  BY DEF FirstEvents, Event
<1>6. session' = [session EXCEPT ![t] = [events |-> FirstEvents(t), head |-> 1, active |-> TRUE]]
  BY DEF Begin, FirstEvents
<1>7. /\ session' \in [Turns -> Session]
      /\ \A u \in Turns : session'[u].head <= Len(session'[u].events) + 1
  BY <1>5, <1>6 DEF TypeOK, Session
<1>8. table' \in [Threads -> Turns \cup {None}] /\ overlapped' \in BOOLEAN
  BY DEF Begin, TypeOK
<1> QED BY <1>2, <1>3, <1>4, <1>6, <1>7, <1>8 DEF Begin, TypeOK

\* The stop endpoint, the clean-up and the connections keep the type invariant.
LEMMA OthersKeepType ==
  ASSUME TypeOK, NEW th \in Threads,
         \/ Stop(th) \/ Clean(th)
         \/ \E p \in Pages : Connect(p, th) \/ Follows(p) \/ TimesOut(p) \/ Leave(p)
  PROVE  TypeOK'
<1>n. NoPage \in Page
  BY BoundsAssumption DEF NoPage, Page, Turns
<1>1. CASE Stop(th)
  BY <1>1, DeactivatesKeeps DEF Stop, TypeOK, SessionOK
<1>2. CASE Clean(th)
  BY <1>2 DEF Clean, TypeOK
<1>3. ASSUME NEW p \in Pages, Connect(p, th) PROVE TypeOK'
  <2> DEFINE s == table[th]
  <2>1. s \in Turns /\ session[s] \in Session /\ Len(session[s].events) \in Nat
    BY <1>3 DEF Connect, TypeOK, Session
  <2>2. Oldest(s) \in Nat /\ Oldest(s)..Len(session[s].events) \subseteq Nat
    BY <2>1, BoundsAssumption DEF Oldest
  <2>3. [conn |-> "sent", on |-> s, first |-> Oldest(s),
         got |-> Oldest(s)..Len(session[s].events)] \in Page
    BY <2>1, <2>2 DEF Page
  <2> QED BY <1>3, <2>3 DEF Connect, TypeOK
<1>4. ASSUME NEW p \in Pages, Test(p) \/ Heartbeat(p) \/ TimesOut(p) \/ Leave(p) PROVE TypeOK'
  <2>1. page[p] \in Page
    BY DEF TypeOK
  <2>2. [page[p] EXCEPT !.conn = "wait"] \in Page /\ [page[p] EXCEPT !.conn = "sent"] \in Page
    BY <2>1 DEF Page
  <2>3. page' \in [Pages -> Page]
    BY <1>4, <2>2, <1>n DEF Test, Heartbeat, TimesOut, Leave, TypeOK
  <2> QED BY <1>4, <2>3 DEF Test, Heartbeat, TimesOut, Leave, TypeOK
<1>5. ASSUME NEW p \in Pages, Take(p) PROVE TypeOK'
  <2> DEFINE s == page[p].on
  <2>1. page[p] \in Page /\ s \in Turns /\ session[s] \in Session
    BY DEF TypeOK, Page
  <2>2. /\ session[s].head \in Nat \ {0} /\ session[s].head + 1 \in Nat \ {0}
        /\ session[s].head + 1 <= Len(session[s].events) + 1 /\ Len(session[s].events) \in Nat
    BY <1>5, <2>1 DEF Take, Session
  <2>3. session'[s] \in Session /\ session'[s].head <= Len(session'[s].events) + 1
    BY <1>5, <2>1, <2>2 DEF Take, Session, TypeOK
  <2>4. session' = [u \in Turns |-> session'[u]] /\ \A u \in Turns : u # s => session'[u] = session[u]
    BY <1>5, <2>1 DEF Take, TypeOK
  <2>5. /\ session' \in [Turns -> Session]
        /\ \A u \in Turns : session'[u].head <= Len(session'[u].events) + 1
    BY <2>3, <2>4 DEF TypeOK
  <2>6. page'[p] \in Page
    BY <1>5, <2>1, <2>2 DEF Take, Page, TypeOK
  <2>7. page' = [q \in Pages |-> page'[q]] /\ \A q \in Pages : q # p => page'[q] = page[q]
    BY <1>5 DEF Take, TypeOK
  <2>8. page' \in [Pages -> Page]
    BY <2>6, <2>7 DEF TypeOK
  <2> QED BY <1>5, <2>5, <2>8 DEF Take, TypeOK
<1> QED BY <1>1, <1>2, <1>3, <1>4, <1>5 DEF Follows

\* The type invariant is inductive.
LEMMA NextKeepsType == TypeOK /\ [Next]_vars => TypeOK'
<1> SUFFICES ASSUME TypeOK, [Next]_vars PROVE TypeOK'
  OBVIOUS
<1>1. ASSUME NEW t \in Turns, TurnSteps(t) PROVE TypeOK'
  BY <1>1, TurnActs DEF TypeOK, SessionOK
<1>2. CASE UNCHANGED vars
  BY <1>2 DEF vars, TypeOK
<1> QED BY <1>1, <1>2, BeginStep, OthersKeepType, ThreadsAssumption DEF Next, TurnSteps

\* Every reachable state of turns, sessions and connections is well formed;
\* no queue is read past its end.
THEOREM TypeCorrect == Spec => []TypeOK
<1> QED BY InitType, NextKeepsType, PTL DEF Spec
-----------------------------------------------------------------------------
\* The strengthening of OneStory: a turn that runs has its own session or none,
\* and a session that has an end has a turn that emits no more.
StoryInv ==
  ~overlapped =>
    /\ \A t \in Turns : Running(t) => Home(t) \in {None, t}
    /\ \A s \in Turns : \A i \in DOMAIN session[s].events :
         LET e == session[s].events[i] IN
         /\ e.turn = s
         /\ e.kind \in End => i = Len(session[s].events) /\ turn[s].pc \in {"done", "ended"}

\* What an emit of t makes of the events of a session.
LEMMA AddedEvents ==
  ASSUME TypeOK, NEW t \in Turns, NEW kind, Adds(t, kind), NEW s \in Turns,
         session'[s].events # session[s].events
  PROVE  /\ s = Home(t) /\ Len(session'[s].events) = Len(session[s].events) + 1
         /\ DOMAIN session'[s].events = DOMAIN session[s].events \cup {Len(session'[s].events)}
         /\ Len(session'[s].events) \notin DOMAIN session[s].events
         /\ \A i \in DOMAIN session[s].events : session'[s].events[i] = session[s].events[i]
         /\ session'[s].events[Len(session'[s].events)] = [turn |-> t, kind |-> kind]
<1>1. s = Home(t) /\ session'[s].events = Append(session[s].events, [turn |-> t, kind |-> kind])
  BY DEF Adds
<1>2. session[s].events \in Seq(Event)
  BY DEF TypeOK, Session
<1> DEFINE old == session[s].events  new == session'[s].events  e == [turn |-> t, kind |-> kind]
<1>3. old \in Seq(Event) /\ new = Append(old, e)
  BY <1>1, <1>2
<1> HIDE DEF old, new, e
<1>4. Len(old) \in Nat /\ DOMAIN old = 1..Len(old) /\ DOMAIN new = 1..(Len(old) + 1)
      /\ Len(new) = Len(old) + 1
  BY <1>3
<1>5. new[Len(old) + 1] = e /\ \A i \in 1..Len(old) : new[i] = old[i]
  BY <1>3
<1>6. DOMAIN new = DOMAIN old \cup {Len(new)} /\ Len(new) \notin DOMAIN old
  BY <1>4
<1> QED BY <1>1, <1>4, <1>5, <1>6 DEF old, new, e

\* StoryInv is inductive.
LEMMA NextKeepsStory == TypeOK /\ StoryInv /\ [Next]_vars => StoryInv'
<1> SUFFICES ASSUME TypeOK, StoryInv, [Next]_vars, ~overlapped' PROVE StoryInv'
  BY DEF StoryInv
<1>1. ASSUME NEW t \in Turns, TurnSteps(t) PROVE StoryInv'
  <2>0. ~overlapped /\ table' = table
    BY <1>1, TurnActs
  <2>1. /\ \A u \in Turns : turn'[u].thread = turn[u].thread /\ (u # t => turn'[u] = turn[u])
        /\ Silent(t) \/ Tells(t) \/ Finishes(t)
    BY <1>1, TurnActs
  <2>2. turn[t].pc \notin {"new", "ended"}
    BY <2>1 DEF Silent, Tells, Finishes
  <2>3. ASSUME NEW u \in Turns, Running(u)' PROVE Running(u) /\ Home(u)' = Home(u)
    <3>1. turn'[u].pc \notin {"new", "ended"}
      BY <2>3 DEF Running
    <3>2. turn[u].pc \notin {"new", "ended"}
      BY <3>1, <2>1, <2>2
    <3> QED BY <3>2, <2>0, <2>1 DEF Running, Home
  <2>4. CASE Silent(t)
    BY <2>0, <2>1, <2>3, <2>4 DEF StoryInv, Silent
  <2>5. ASSUME NEW kind \in {"part"} \cup End, Adds(t, kind), turn[t].pc = "stream",
               kind \in End => turn'[t].pc \in {"done", "ended"},
               NEW s \in Turns, NEW i \in DOMAIN session'[s].events
        PROVE  LET e == session'[s].events[i] IN
               /\ e.turn = s
               /\ e.kind \in End => i = Len(session'[s].events) /\ turn'[s].pc \in {"done", "ended"}
    <3>1. CASE session'[s].events = session[s].events
      BY <3>1, <2>0, <2>1, <2>5 DEF StoryInv
    <3>2. CASE session'[s].events # session[s].events
      <4>1. s = t
        <5>1. s = Home(t)
          BY <3>2, <2>5, AddedEvents
        <5>2. Home(t) \in {None, t}
          BY <2>0, <2>5 DEF StoryInv, Running
        <5> QED BY <5>1, <5>2 DEF None, Turns
      <4>2. \A j \in DOMAIN session[s].events :
              session[s].events[j].turn = s /\ session[s].events[j].kind \notin End
        BY <4>1, <2>0, <2>5 DEF StoryInv
      <4>3. CASE i = Len(session'[s].events)
        <5>1. session'[s].events[i] = [turn |-> t, kind |-> kind]
          BY <3>2, <4>3, <2>5, AddedEvents
        <5> QED BY <5>1, <4>1, <4>3, <2>5
      <4>4. CASE i \in DOMAIN session[s].events
        <5>1. \A j \in DOMAIN session[s].events : session'[s].events[j] = session[s].events[j]
          BY <3>2, <2>5, AddedEvents
        <5> QED BY <5>1, <4>2, <4>4
      <4>5. i \in DOMAIN session[s].events \cup {Len(session'[s].events)}
        BY <3>2, <2>5, AddedEvents
      <4> QED BY <4>3, <4>4, <4>5
    <3> QED BY <3>1, <3>2
  <2>8. \A u \in Turns : Running(u)' => Home(u)' \in {None, u}
    BY <2>0, <2>3 DEF StoryInv
  <2>6. CASE Tells(t)
    <3>1. Adds(t, "part") /\ turn[t].pc = "stream" /\ "part" \notin End
      BY <2>6 DEF Tells, End
    <3> QED BY <3>1, <2>8, <2>5 DEF StoryInv
  <2>7. CASE Finishes(t)
    <3>1. PICK kind \in End : Adds(t, kind)
      BY <2>7 DEF Finishes
    <3>2. turn[t].pc = "stream" /\ turn'[t].pc \in {"done", "ended"}
      BY <2>7 DEF Finishes
    <3> QED BY <3>1, <3>2, <2>8, <2>5 DEF StoryInv
  <2> QED BY <2>1, <2>4, <2>6, <2>7
<1>2. ASSUME NEW t \in Turns, NEW th \in Threads, Begin(t, th) PROVE StoryInv'
  <2>1. /\ ~overlapped /\ \A u \in Turns : ~(Running(u) /\ turn[u].thread = th)
        /\ table' = [table EXCEPT ![th] = t] /\ turn[t].pc = "new"
    BY <1>2 DEF Begin, At
  <2>2. /\ turn'[t].pc = "stream" /\ turn'[t].thread = th
        /\ \A u \in Turns : u # t => turn'[u] = turn[u] /\ session'[u] = session[u]
        /\ session'[t].events = FirstEvents(t)
    BY <1>2, BeginStep
  <2>3. \A u \in Turns : Running(u)' => Home(u)' \in {None, u}
    <3>1. ASSUME NEW u \in Turns, u # t, Running(u)' PROVE Home(u)' \in {None, u}
      <4>1. Running(u) /\ turn[u].thread # th /\ turn[u].thread \in Threads
        BY <2>1, <2>2, <3>1 DEF Running, TypeOK, Turn
      <4>2. Home(u)' = Home(u)
        BY <4>1, <2>1, <2>2, <3>1 DEF Home, TypeOK
      <4> QED BY <4>1, <4>2, <2>1 DEF StoryInv
    <3>2. Home(t)' = t
      BY <2>1, <2>2 DEF Home, TypeOK
    <3> QED BY <3>1, <3>2
  <2>4. \A i \in DOMAIN session'[t].events : session'[t].events[i] = [turn |-> t, kind |-> "part"]
    BY <2>2 DEF FirstEvents
  <2>5. ASSUME NEW s \in Turns, NEW i \in DOMAIN session'[s].events
        PROVE  LET e == session'[s].events[i] IN
               /\ e.turn = s
               /\ e.kind \in End => i = Len(session'[s].events) /\ turn'[s].pc \in {"done", "ended"}
    <3>1. CASE s = t
      BY <3>1, <2>4, <2>5 DEF End
    <3>2. CASE s # t
      BY <3>2, <2>1, <2>2, <2>5 DEF StoryInv
    <3> QED BY <3>1, <3>2
  <2> QED BY <2>3, <2>5 DEF StoryInv
<1>3. ASSUME NEW th \in Threads, Stop(th) \/ Clean(th) PROVE StoryInv'
  <2>1. /\ turn' = turn /\ ~overlapped /\ \A s \in Turns : session'[s].events = session[s].events
    BY <1>3, DeactivatesKeeps DEF Stop, Clean
  <2>2. \A u \in Turns : Home(u)' \in {None, Home(u)}
    BY <1>3 DEF Stop, Clean, Home, TypeOK, Turn
  <2> QED BY <2>1, <2>2 DEF StoryInv, Running
<1>4. ASSUME NEW p \in Pages, NEW th \in Threads,
             Connect(p, th) \/ Follows(p) \/ TimesOut(p) \/ Leave(p)
      PROVE  StoryInv'
  <2>1. turn' = turn /\ table' = table /\ ~overlapped
    BY <1>4 DEF Connect, Follows, Test, Take, Heartbeat, TimesOut, Leave
  <2>2. \A s \in Turns : session'[s].events = session[s].events
    <3>1. CASE Take(p)
      BY <3>1 DEF Take, TypeOK, Session
    <3>2. CASE ~Take(p)
      BY <1>4, <3>2 DEF Connect, Follows, Test, Heartbeat, TimesOut, Leave
    <3> QED BY <3>1, <3>2
  <2> QED BY <2>1, <2>2 DEF StoryInv, Running, Home
<1>5. CASE UNCHANGED vars
  BY <1>5 DEF vars, StoryInv, Running, Home
<1> QED BY <1>1, <1>2, <1>3, <1>4, <1>5, ThreadsAssumption DEF Next, TurnSteps

\* As long as a thread has one turn at a time, a session tells the story of the
\* turn that made it, to its end and no further.
THEOREM SessionsTellOneStory == Spec => []OneStory
<1>1. Init => StoryInv
  BY DEF Init, StoryInv, Running
<1>2. TypeOK /\ StoryInv /\ [Next]_vars => StoryInv'
  BY NextKeepsStory
<1>3. StoryInv => OneStory
  BY DEF StoryInv, OneStory
<1> QED BY <1>1, <1>2, <1>3, TypeCorrect, PTL DEF Spec
-----------------------------------------------------------------------------
\* The strengthening of EndMeansSaved: text is unsaved only after a chunk, and
\* a turn whose end was told has no unsaved text and makes none.
SavedInv ==
  /\ \A t \in Turns : turn[t].unsaved =>
       turn[t].pc # "new" /\ (turn[t].pc = "stream" => turn[t].left < MaxChunks)
  /\ \A s \in Turns : \A i \in DOMAIN session[s].events :
       LET e == session[s].events[i] IN
       e.kind \in End => turn[e.turn].pc \in {"done", "ended"} /\ ~turn[e.turn].unsaved

\* The turns that sessions name are turns.
LEMMA EventTurns ==
  ASSUME TypeOK, NEW s \in Turns, NEW i \in DOMAIN session[s].events
  PROVE  session[s].events[i].turn \in Turns
<1>1. session[s].events \in Seq(Event)
  BY DEF TypeOK, Session
<1>2. session[s].events[i] \in Event
  BY <1>1
<1> QED BY <1>2 DEF Event

\* SavedInv is inductive.
LEMMA NextKeepsSaved == TypeOK /\ SavedInv /\ [Next]_vars => SavedInv'
<1> SUFFICES ASSUME TypeOK, SavedInv, [Next]_vars PROVE SavedInv'
  OBVIOUS
<1>1. ASSUME NEW t \in Turns, TurnSteps(t) PROVE SavedInv'
  <2>1. /\ \A u \in Turns : u # t => turn'[u] = turn[u]
        /\ Silent(t) \/ Tells(t) \/ Finishes(t)
    BY <1>1, TurnActs
  <2>2. ASSUME NEW u \in Turns, turn'[u].unsaved
        PROVE  turn'[u].pc # "new" /\ (turn'[u].pc = "stream" => turn'[u].left < MaxChunks)
    BY <2>1, <2>2 DEF SavedInv, Silent, Tells, Finishes
  <2>3. ASSUME NEW u \in Turns, turn[u].pc \in {"done", "ended"}, ~turn[u].unsaved
        PROVE  turn'[u].pc \in {"done", "ended"} /\ ~turn'[u].unsaved
    BY <2>1, <2>3 DEF Silent, Tells, Finishes
  <2>4. ASSUME NEW s \in Turns, NEW i \in DOMAIN session[s].events, session[s].events[i].kind \in End
        PROVE  LET u == session[s].events[i].turn IN
               turn'[u].pc \in {"done", "ended"} /\ ~turn'[u].unsaved
    BY <2>3, <2>4, EventTurns DEF SavedInv
  <2>5. CASE Silent(t)
    BY <2>2, <2>4, <2>5 DEF SavedInv, Silent
  <2>6. ASSUME NEW kind \in {"part"} \cup End, Adds(t, kind),
               kind \in End => turn'[t].pc \in {"done", "ended"} /\ ~turn'[t].unsaved,
               NEW s \in Turns, NEW i \in DOMAIN session'[s].events, session'[s].events[i].kind \in End
        PROVE  LET u == session'[s].events[i].turn IN
               turn'[u].pc \in {"done", "ended"} /\ ~turn'[u].unsaved
    <3>1. CASE session'[s].events = session[s].events
      BY <3>1, <2>4, <2>6
    <3>2. CASE session'[s].events # session[s].events
      <4>1. /\ i \in DOMAIN session[s].events \cup {Len(session'[s].events)}
            /\ \A j \in DOMAIN session[s].events : session'[s].events[j] = session[s].events[j]
            /\ session'[s].events[Len(session'[s].events)] = [turn |-> t, kind |-> kind]
        BY <3>2, <2>6, AddedEvents
      <4>2. CASE i \in DOMAIN session[s].events
        BY <4>1, <4>2, <2>4, <2>6
      <4>3. CASE i = Len(session'[s].events)
        BY <4>1, <4>3, <2>6
      <4> QED BY <4>1, <4>2, <4>3
    <3> QED BY <3>1, <3>2
  <2>7. CASE Tells(t)
    <3>1. Adds(t, "part") /\ "part" \notin End
      BY <2>7 DEF Tells, End
    <3> QED BY <3>1, <2>2, <2>6 DEF SavedInv
  <2>8. CASE Finishes(t)
    <3>1. PICK kind \in End : Adds(t, kind)
      BY <2>8 DEF Finishes
    <3>2. turn'[t].pc \in {"done", "ended"} /\ ~turn'[t].unsaved
      BY <2>8, BoundsAssumption DEF Finishes, SavedInv
    <3> QED BY <3>1, <3>2, <2>2, <2>6 DEF SavedInv
  <2> QED BY <2>1, <2>5, <2>7, <2>8
<1>2. ASSUME NEW t \in Turns, NEW th \in Threads, Begin(t, th) PROVE SavedInv'
  <2>1. /\ turn'[t].unsaved = turn[t].unsaved
        /\ \A u \in Turns : u # t => turn'[u] = turn[u] /\ session'[u] = session[u]
        /\ session'[t].events = FirstEvents(t)
    BY <1>2, BeginStep
  <2>2. ~turn[t].unsaved /\ turn[t].pc = "new"
    BY <1>2 DEF Begin, At, SavedInv
  <2>3. \A u \in Turns : turn[u].pc \in {"done", "ended"} => turn'[u] = turn[u]
    BY <2>1, <2>2
  <2>4. \A i \in DOMAIN session'[t].events : session'[t].events[i].kind \notin End
    BY <2>1 DEF FirstEvents, End
  <2>5. ASSUME NEW s \in Turns, NEW i \in DOMAIN session'[s].events, session'[s].events[i].kind \in End
        PROVE  LET u == session'[s].events[i].turn IN
               turn'[u].pc \in {"done", "ended"} /\ ~turn'[u].unsaved
    <3>1. s # t /\ session'[s] = session[s]
      BY <2>1, <2>4, <2>5
    <3> QED BY <3>1, <2>3, <2>5, EventTurns DEF SavedInv
  <2> QED BY <2>1, <2>2, <2>5 DEF SavedInv
<1>3. ASSUME turn' = turn, \A s \in Turns : session'[s].events = session[s].events
      PROVE  SavedInv'
  BY <1>3 DEF SavedInv
<1>4. ASSUME NEW th \in Threads, Stop(th) \/ Clean(th) PROVE SavedInv'
  BY <1>3, <1>4, DeactivatesKeeps DEF Stop, Clean
<1>5. ASSUME NEW p \in Pages, NEW th \in Threads,
             Connect(p, th) \/ Follows(p) \/ TimesOut(p) \/ Leave(p)
      PROVE  SavedInv'
  <2>1. CASE Take(p)
    BY <2>1, <1>3 DEF Take, TypeOK, Session
  <2>2. CASE ~Take(p)
    BY <1>3, <1>5, <2>2 DEF Connect, Follows, Test, Heartbeat, TimesOut, Leave
  <2> QED BY <2>1, <2>2
<1>6. CASE UNCHANGED vars
  BY <1>3, <1>6 DEF vars
<1> QED BY <1>1, <1>2, <1>4, <1>5, <1>6, ThreadsAssumption DEF Next, TurnSteps

\* Whichever way a turn ends, and however turns share their sessions: a page
\* that sees the end of a turn finds all of its text in the history.
THEOREM EndIsToldAfterSave == Spec => []EndMeansSaved
<1>1. Init => SavedInv
  BY DEF Init, SavedInv
<1>2. TypeOK /\ SavedInv /\ [Next]_vars => SavedInv'
  BY NextKeepsSaved
<1>3. SavedInv => EndMeansSaved
  BY DEF SavedInv, EndMeansSaved
<1> QED BY <1>1, <1>2, <1>3, TypeCorrect, PTL DEF Spec
-----------------------------------------------------------------------------
\* The strengthening of NothingSkipped: what was taken off the queue of a
\* connected page's session lies before its replay, or went to the page.
CursorInv ==
  /\ \A th \in Threads : table[th] # None => turn[table[th]].pc # "new"
  /\ \A p \in Pages : Live(p) =>
       /\ turn[page[p].on].pc # "new"
       /\ \A i \in page[p].first..(session[page[p].on].head - 1) : i \in page[p].got
  /\ NothingSkipped

\* CursorInv is inductive if there is one page.
LEMMA NextKeepsCursor ==
  ASSUME \A p, q \in Pages : p = q
  PROVE  TypeOK /\ CursorInv /\ [Next]_vars => CursorInv'
<1> SUFFICES ASSUME TypeOK, CursorInv, [Next]_vars PROVE CursorInv'
  OBVIOUS
<1>p. \A p \in Pages : page[p] \in Page /\ page[p].on \in Turns
  BY DEF TypeOK, Page
<1>1. ASSUME page' = page, \A s \in Turns : turn[s].pc # "new" => turn'[s].pc # "new",
             \A s \in Turns : turn[s].pc # "new" => session'[s].head = session[s].head,
             \A th \in Threads : table'[th] # None => turn'[table'[th]].pc # "new"
      PROVE  CursorInv'
  BY <1>1, <1>p DEF CursorInv, Live, NothingSkipped
<1>2. ASSUME NEW t \in Turns, TurnSteps(t) PROVE CursorInv'
  <2>1. /\ page' = page /\ table' = table
        /\ \A s \in Turns : session'[s].head = session[s].head
        /\ \A u \in Turns : u # t => turn'[u] = turn[u]
        /\ Silent(t) \/ Tells(t) \/ Finishes(t)
    BY <1>2, TurnActs
  <2>2. turn'[t].pc # "new"
    BY <2>1 DEF Silent, Tells, Finishes
  <2>3. \A s \in Turns : turn[s].pc # "new" => turn'[s].pc # "new"
    BY <2>1, <2>2
  <2> QED BY <1>1, <2>1, <2>3 DEF CursorInv, TypeOK
<1>3. ASSUME NEW t \in Turns, NEW th \in Threads, Begin(t, th) PROVE CursorInv'
  <2>1. /\ turn[t].pc = "new" /\ turn'[t].pc = "stream" /\ page' = page
        /\ table' = [table EXCEPT ![th] = t]
        /\ \A u \in Turns : u # t => turn'[u] = turn[u] /\ session'[u] = session[u]
    BY <1>3, BeginStep DEF Begin, At
  <2> QED BY <1>1, <2>1 DEF CursorInv, TypeOK
<1>4. ASSUME NEW th \in Threads, Stop(th) \/ Clean(th) PROVE CursorInv'
  <2>1. turn' = turn /\ page' = page /\ \A s \in Turns : session'[s].head = session[s].head
    BY <1>4, DeactivatesKeeps DEF Stop, Clean
  <2>2. \A u \in Threads : table'[u] \in {None, table[u]}
    BY <1>4 DEF Stop, Clean, TypeOK
  <2> QED BY <1>1, <2>1, <2>2 DEF CursorInv
<1>5. ASSUME NEW p \in Pages, page' = [page EXCEPT ![p] = NoPage], UNCHANGED <<table, session, turn>>
      PROVE  CursorInv'
  BY <1>5, <1>p DEF CursorInv, Live, NothingSkipped, NoPage, TypeOK
<1>6. ASSUME NEW p \in Pages, NEW c \in {"wait", "sent"}, Live(p),
             page' = [page EXCEPT ![p].conn = c], UNCHANGED <<table, session, turn>>
      PROVE  CursorInv'
  <2>1. \A q \in Pages : /\ page'[q].on = page[q].on /\ page'[q].first = page[q].first
                         /\ page'[q].got = page[q].got /\ (Live(q)' => Live(q))
    BY <1>6, <1>p DEF TypeOK, Page, Live
  <2> QED BY <1>6, <2>1 DEF CursorInv, NothingSkipped
<1>7. ASSUME NEW p \in Pages, NEW th \in Threads, Connect(p, th) PROVE CursorInv'
  <2> DEFINE s == table[th]
  <2>1. s \in Turns /\ turn[s].pc # "new" /\ session[s].head <= Len(session[s].events) + 1
    BY <1>7 DEF Connect, CursorInv, TypeOK
  <2>2. session[s] \in Session /\ session[s].head \in Nat /\ Len(session[s].events) \in Nat
    BY <2>1 DEF TypeOK, Session
  <2>3. Oldest(s) \in Nat
    BY <2>2, BoundsAssumption DEF Oldest
  <2>4. /\ page'[p].on = s /\ page'[p].first = Oldest(s)
        /\ page'[p].got = Oldest(s)..Len(session[s].events)
    BY <1>7 DEF Connect, TypeOK
  <2>5. \A i \in page'[p].first..(session[s].head - 1) : i \in page'[p].got
    BY <2>1, <2>2, <2>3, <2>4
  <2>6. \A i \in page'[p].got : page'[p].first..i \subseteq page'[p].got
    BY <2>2, <2>3, <2>4
  <2>7. \A q \in Pages : q = p
    OBVIOUS
  <2> QED BY <1>7, <2>1, <2>4, <2>5, <2>6, <2>7 DEF Connect, CursorInv, NothingSkipped
<1>8. ASSUME NEW p \in Pages, Take(p) PROVE CursorInv'
  <2> DEFINE s == page[p].on  h == session[s].head
  <2>1. s \in Turns /\ session[s] \in Session /\ h \in Nat /\ Live(p)
    BY <1>8, <1>p DEF Take, TypeOK, Session, Live
  <2>2. page[p].first \in Nat
    BY <1>p DEF Page
  <2>3. /\ page'[p].on = s /\ page'[p].first = page[p].first /\ page'[p].got = page[p].got \cup {h}
    BY <1>8, <1>p DEF Take, TypeOK, Page
  <2>4. session'[s].head = h + 1 /\ turn' = turn /\ table' = table
    BY <1>8, <2>1 DEF Take, TypeOK, Session
  <2>5. \A i \in page[p].first..(h - 1) : i \in page[p].got
    BY <2>1 DEF CursorInv
  <2> HIDE DEF s, h
  <2>6. \A i \in page'[p].first..h : i \in page'[p].got
    BY <2>1, <2>2, <2>3, <2>5
  <2>7. \A i \in page'[p].got : page'[p].first..i \subseteq page'[p].got
    BY <2>3, <2>6 DEF CursorInv, NothingSkipped
  <2>8. \A i \in page'[p].first..(session'[page'[p].on].head - 1) : i \in page'[p].got
    BY <2>1, <2>3, <2>4, <2>6
  <2>9. turn[s].pc # "new"
    BY <2>1 DEF CursorInv, s
  <2> QED BY <2>3, <2>4, <2>7, <2>8, <2>9 DEF CursorInv, NothingSkipped
<1>9. ASSUME NEW p \in Pages, NEW th \in Threads,
             Connect(p, th) \/ Follows(p) \/ TimesOut(p) \/ Leave(p)
      PROVE  CursorInv'
  <2>1. CASE Test(p)
    BY <2>1, <1>5, <1>6 DEF Test, Live
  <2>2. CASE Heartbeat(p)
    BY <2>2, <1>6 DEF Heartbeat, Live
  <2>3. CASE TimesOut(p) \/ Leave(p)
    BY <2>3, <1>5 DEF TimesOut, Leave
  <2> QED BY <1>7, <1>8, <1>9, <2>1, <2>2, <2>3 DEF Follows
<1>10. CASE UNCHANGED vars
  BY <1>1, <1>10 DEF vars, CursorInv
<1> QED BY <1>2, <1>3, <1>4, <1>9, <1>10, ThreadsAssumption DEF Next, TurnSteps

\* One page at a time misses no event between its replay and what it gets from
\* the queue, whatever connections came before it and however long the history.
THEOREM ReplayJoinsQueue == ASSUME \A p, q \in Pages : p = q PROVE Spec => []NothingSkipped
<1>1. Init => CursorInv
  BY DEF Init, CursorInv, NothingSkipped, Live, NoPage
<1>2. TypeOK /\ CursorInv /\ [Next]_vars => CursorInv'
  BY NextKeepsCursor
<1>3. CursorInv => NothingSkipped
  BY DEF CursorInv
<1> QED BY <1>1, <1>2, <1>3, TypeCorrect, PTL DEF Spec
==============================================================================
