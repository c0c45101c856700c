----------------------------- MODULE AssistantPage -----------------------------
(***************************************************************************)
(* The page of the assistant: cards made of the logs of the user's tasks,  *)
(* put together anew by each request (assistant_service), a stream that    *)
(* tells the page to ask again (events_router on an SSE session), and the  *)
(* tasks that a message to the assistant creates. A request reads the      *)
(* dismissed cards, the logs and the tasks one after the other.            *)
(***************************************************************************)
EXTENDS Integers, Sequences, FiniteSets, SequencesExt

CONSTANTS
  Tabs,         \* pages of one user
  FEED_LIMIT,   \* cards of the feed
  FEED_SCAN,    \* logs that are read for them
  Overtakes,    \* whether an answer may arrive before that of an older request
  StaysOpen,    \* whether a page may stay open for an hour in which nothing is told
  MaxLogs,      \* bound: executions of tasks
  MaxMessages,  \* bound: messages to the assistant
  MaxRequests,  \* bound: requests of one page under way
  MaxVisits,    \* bound: pages opened, and brought to the front
  MaxCuts,      \* bound: streams that break
  MaxCleanUps   \* bound: sessions that are cleaned up

VARIABLES
  watched,   \* the tasks of the user: [at: how far its creation is, by: the page that asked]
  logged,    \* the executions, the newest last: [hit, told, to: the pages connected when it was told]
  hidden,    \* the dismissed cards
  channel,   \* the sessions notify:{uid}: queues and histories, and which is current
  tab,       \* the pages
  happened   \* the counters of the bounds

assistantVars == <<watched, logged, hidden, channel, tab, happened>>

NoTab == [open |-> FALSE, on |-> 0, asks |-> <<>>, cards |-> {}, tasks |-> {}, ignored |-> {}, made |-> {}]
Request == [at |-> "dismissed", hid |-> {}, cards |-> {}, tasks |-> {}]

AssistantInit ==
  /\ watched = <<>> /\ logged = <<>> /\ hidden = {}
  /\ channel = [current |-> 0, queue |-> <<>>, past |-> <<>>]
  /\ tab = [t \in Tabs |-> NoTab]
  /\ happened = [messages |-> 0, visits |-> 0, cuts |-> 0, cleanups |-> 0]

Count(what, limit) == happened[what] < limit /\ happened' = [happened EXCEPT ![what] = @ + 1]

\* initState: the page asks again. The overview is the only truth, so that it
\* makes no difference why it does.
Asked(t) == [tab[t] EXCEPT !.asks = Append(@, Request)]
MayAsk(t) == tab[t].open /\ Len(tab[t].asks) < MaxRequests

-----------------------------------------------------------------------------
(* Mistakes the code does not make *)

\* Each connection makes a session of its own.
Connects_New(t) ==
  LET s == Len(channel.queue) + 1 IN
  /\ tab[t].open /\ tab[t].on = 0
  /\ channel' = [current |-> s, queue |-> Append(channel.queue, 0), past |-> Append(channel.past, 0)]
  /\ tab' = [tab EXCEPT ![t].on = s]
  /\ UNCHANGED <<watched, logged, hidden, happened>>

\* The reply to a message is shown and nothing is asked for.
Replies_Only(i) ==
  /\ watched[i].at = "added" /\ watched' = [watched EXCEPT ![i].at = "scheduled"]
  /\ LET t == watched[i].by IN
       IF t \in Tabs THEN MayAsk(t) /\ tab' = [tab EXCEPT ![t].made = @ \cup {i}] ELSE tab' = tab
  /\ UNCHANGED <<logged, hidden, channel, happened>>

-----------------------------------------------------------------------------
(* get_overview *)

\* The newest FEED_LIMIT of the last FEED_SCAN logs that are not dismissed.
build_feed(hid) ==
  LET left == {i \in DOMAIN logged : Len(logged) - i < FEED_SCAN} \ hid
  IN {i \in left : Cardinality({j \in left : j > i}) < FEED_LIMIT}

\* Cards are made of hits and failures.
build_messages(feed) == {i \in feed : logged[i].hit}
build_watching == {i \in DOMAIN watched : watched[i].at # "asked"}

\* The three reads of a request.
Reads(t, i) ==
  LET r == tab[t].asks[i]
      next == CASE r.at = "dismissed" -> [r EXCEPT !.at = "feed", !.hid = hidden]
                [] r.at = "feed" -> [r EXCEPT !.at = "tasks", !.cards = build_messages(build_feed(r.hid)), !.hid = {}]
                [] OTHER -> [r EXCEPT !.at = "answer", !.tasks = build_watching]
  IN
  /\ r.at # "answer"
  /\ tab' = [tab EXCEPT ![t].asks[i] = next]
  /\ UNCHANGED <<watched, logged, hidden, channel, happened>>

\* initState replaces what is shown.
Arrives(t, i) ==
  LET r == tab[t].asks[i] IN
  /\ r.at = "answer" /\ (i > 1 => Overtakes)
  /\ tab' = [tab EXCEPT ![t].asks = RemoveAt(@, i), ![t].cards = r.cards, ![t].tasks = r.tasks]
  /\ UNCHANGED <<watched, logged, hidden, channel, happened>>

-----------------------------------------------------------------------------
(* The page and its stream *)

OpensPage(t) ==
  /\ ~tab[t].open /\ Count("visits", MaxVisits)
  /\ tab' = [tab EXCEPT ![t] = [NoTab EXCEPT !.open = TRUE, !.asks = <<Request>>]]
  /\ UNCHANGED <<watched, logged, hidden, channel>>

\* Whatever the page waits for ends unseen.
LeavesPage(t) ==
  /\ tab[t].open /\ tab' = [tab EXCEPT ![t] = NoTab]
  /\ watched' = [i \in DOMAIN watched |-> [watched[i] EXCEPT !.by = IF @ = t THEN "nobody" ELSE @]]
  /\ UNCHANGED <<logged, hidden, channel, happened>>

ComesToFront(t) ==
  /\ MayAsk(t) /\ Count("visits", MaxVisits)
  /\ tab' = [tab EXCEPT ![t] = Asked(t)]
  /\ UNCHANGED <<watched, logged, hidden, channel>>

\* stream_events makes a session if the manager has none, and replays what the
\* session has but its first event, whose id is 0. The replayed events, one
\* request each, stand for one, as those requests are all alike.
Connects(t) ==
  LET made == channel.current = 0
      s == IF made THEN Len(channel.queue) + 1 ELSE channel.current
      replays == ~made /\ channel.past[s] > 1
  IN
  /\ tab[t].open /\ tab[t].on = 0 /\ (replays => MayAsk(t))
  /\ channel' = IF made THEN [current |-> s, queue |-> Append(channel.queue, 0), past |-> Append(channel.past, 0)]
                  ELSE channel
  /\ tab' = [tab EXCEPT ![t] = [(IF replays THEN Asked(t) ELSE @) EXCEPT !.on = s]]
  /\ UNCHANGED <<watched, logged, hidden, happened>>

\* The pages of a user share one queue: an event is pushed to one of them.
Pushes(t) ==
  /\ tab[t].on # 0 /\ channel.queue[tab[t].on] > 0 /\ MayAsk(t)
  /\ channel' = [channel EXCEPT !.queue[tab[t].on] = @ - 1]
  /\ tab' = [tab EXCEPT ![t] = Asked(t)]
  /\ UNCHANGED <<watched, logged, hidden, happened>>

\* The connection breaks, or reaches max_timeout; the session stays.
Breaks(t) ==
  /\ tab[t].on # 0 /\ Count("cuts", MaxCuts)
  /\ tab' = [tab EXCEPT ![t].on = 0]
  /\ UNCHANGED <<watched, logged, hidden, channel>>

\* cleanup_inactive_sessions after an hour without an event: heartbeats do not
\* count, and a page that is connected stays with the session it has.
CleansUp ==
  /\ channel.current # 0 /\ channel.queue[channel.current] = 0 /\ Count("cleanups", MaxCleanUps)
  /\ (\E t \in Tabs : tab[t].open) => StaysOpen
  /\ channel' = [channel EXCEPT !.current = 0]
  /\ UNCHANGED <<watched, logged, hidden, tab>>

-----------------------------------------------------------------------------
(* What the user and the tasks do *)

\* The button of a card; the page asks again when the dismissal is answered.
Ignores(t, i) ==
  /\ MayAsk(t) /\ i \in tab[t].cards
  /\ hidden' = hidden \cup {i}
  /\ tab' = [tab EXCEPT ![t] = [Asked(t) EXCEPT !.ignored = @ \cup {i}]]
  /\ UNCHANGED <<watched, logged, channel, happened>>

\* A message in which _try_monitor finds what to watch. A page sends one at a time.
Says(t) ==
  /\ tab[t].open /\ Count("messages", MaxMessages)
  /\ \A i \in DOMAIN watched : watched[i].by # t
  /\ watched' = Append(watched, [at |-> "asked", by |-> t])
  /\ UNCHANGED <<logged, hidden, channel, tab>>

\* create_monitor_task commits the row and then adds the job, which may fail:
\* the answer is then that the creation failed.
WritesTask(i) ==
  /\ watched[i].at = "asked" /\ watched' = [watched EXCEPT ![i].at = "written"]
  /\ UNCHANGED <<logged, hidden, channel, tab, happened>>
AddsJob(i) ==
  /\ watched[i].at = "written"
  /\ \/ watched' = [watched EXCEPT ![i].at = "added"]
     \/ watched' = [watched EXCEPT ![i] = [at |-> "failed", by |-> "nobody"]]
  /\ UNCHANGED <<logged, hidden, channel, tab, happened>>

\* The reply says that the task was created, and the page asks again.
Replies(i) ==
  /\ watched[i].at = "added" /\ watched' = [watched EXCEPT ![i] = [at |-> "scheduled", by |-> "nobody"]]
  /\ LET t == watched[i].by IN
       IF t \in Tabs THEN MayAsk(t) /\ tab' = [tab EXCEPT ![t] = [Asked(t) EXCEPT !.made = @ \cup {i}]]
                     ELSE tab' = tab
  /\ UNCHANGED <<logged, hidden, channel, happened>>

\* An execution ends: its log is closed, and its notice is sent later.
Executes(h) ==
  /\ Len(logged) < MaxLogs /\ \E i \in DOMAIN watched : watched[i].at \in {"added", "scheduled"}
  /\ logged' = Append(logged, [hit |-> h, told |-> FALSE, to |-> {}])
  /\ UNCHANGED <<watched, hidden, channel, tab, happened>>

\* emit of notify_service: without a session nobody is told.
Tells(i) ==
  /\ ~logged[i].told
  /\ logged' = [logged EXCEPT ![i].told = TRUE, ![i].to = {t \in Tabs : tab[t].on # 0}]
  /\ channel' = IF channel.current = 0 THEN channel
                  ELSE [channel EXCEPT !.queue[channel.current] = @ + 1, !.past[channel.current] = @ + 1]
  /\ UNCHANGED <<watched, hidden, tab, happened>>

-----------------------------------------------------------------------------
Serves == \E t \in Tabs : \E i \in DOMAIN tab[t].asks : Reads(t, i) \/ Arrives(t, i)
Follows == \E t \in Tabs : Connects(t) \/ Pushes(t)
Goes == (\E i \in DOMAIN logged : Tells(i)) \/ (\E i \in DOMAIN watched : WritesTask(i) \/ AddsJob(i) \/ Replies(i))

AssistantNext ==
  \/ Serves \/ Follows \/ Goes
  \/ \E t \in Tabs : OpensPage(t) \/ LeavesPage(t) \/ ComesToFront(t) \/ Breaks(t) \/ Says(t)
  \/ \E t \in Tabs : \E i \in tab[t].cards : Ignores(t, i)
  \/ \E h \in BOOLEAN : Executes(h)
  \/ CleansUp

-----------------------------------------------------------------------------
(* Properties *)

\* A hit that is told while a page is connected comes up on that page, if it stays
\* open, unless it is dismissed or newer cards have taken its place meanwhile. (Who
\* was connected when it was told does not change.)
HitsAreShown ==
  \A t \in Tabs, i \in 1..MaxLogs :
    []<>(i \in DOMAIN logged /\ logged[i].hit /\ t \in logged[i].to =>
           i \in tab[t].cards \/ ~tab[t].open \/ i \notin build_feed(hidden))

\* A page that waits for no answer shows what its user did on it: no card that was
\* ignored there, and every task it was told to be created. The reads of the
\* requests overlap with the writes and with one another.
OwnActsShow ==
  \A t \in Tabs : (tab[t].open /\ tab[t].asks = <<>>)
     => tab[t].cards \cap tab[t].ignored = {} /\ tab[t].made \subseteq tab[t].tasks
=============================================================================
