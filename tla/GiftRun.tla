------------------------------- MODULE GiftRun -------------------------------
(***************************************************************************)
(* One gift run: its row, the events of its page, the advances that follow *)
(* the agent's stream, the answers that start further ones, and the notice *)
(* of its end.                                                             *)
(*                                                                         *)
(* The agent is an environment: in each step it calls tools, in parallel,  *)
(* whose results come back in any order. What an advance does with one     *)
(* chunk of the stream is one action. The race of two emits for a number,  *)
(* and the buffer of streamed text, are those of PlanningRun: here an emit *)
(* appends. Events that only narrate are left out.                         *)
(***************************************************************************)
EXTENDS GiftProfile, Notices

CONSTANTS
  Texts,        \* the texts that the model writes
  Known,        \* the texts that the history and the preferences hold
  Seed,         \* the text of the entry that create_run writes
  Batches,      \* the sequences of tools that the agent may call at once
  MaxAdvances,  \* bound: advances, the first and those of answers
  MaxSteps,     \* bound: steps in which the agent calls tools, in all advances
  MaxTroubles   \* bound: crashes and writes that fail, together

Advances == 1..MaxAdvances
Run == "run"
Rail == "basics"

VARIABLES
  row,        \* gift_runs
  log,        \* gift_events
  adv,        \* the advances
  pending,    \* _pending: per step the calls that have not come back
  pushed,     \* _pushed_profile
  taken, crashes, faults,
  disturbed   \* whether advances overlapped

giftVars == <<row, log, adv, pending, pushed, taken, crashes, faults, disturbed>>
vars == <<giftVars, noticeVars>>

\* _TOOL_META: the step of the page that a tool belongs to.
NoStep == "none"
StepOf(tool) ==
  CASE tool \in {"read_history", "read_preferences"} -> "understand"
    [] tool = "search_gifts" -> "search"
    [] tool = "screen_candidates" -> "verify"
    [] tool = "compose_gift" -> "combine"
    [] tool = "write_note" -> "message"
    [] tool = "ask_user" -> "ask"
    [] OTHER -> NoStep
Steps == UNION {{StepOf(b[i]) : i \in 1..Len(b)} : b \in Batches} \ {NoStep}

Trouble == crashes + faults < MaxTroubles

StepEvent(key, status) == [kind |-> "step", key |-> key, status |-> status]
Done(keys) == [i \in 1..Len(keys) |-> StepEvent(keys[i], "done")]
Plain(kind) == [kind |-> kind]

\* acc: the accumulated products. view: the agent's own state. calls: the calls
\* of the agent's present step, back: their results. open: phases, oldest first.
Idle == [pc |-> "none", acc |-> <<>>, plan |-> FALSE, view |-> <<>>,
         calls |-> <<>>, back |-> <<>>, open |-> <<>>, prof |-> <<>>,
         type |-> "decide"]
At(a, l) == adv[a].pc = l
Over(a) == adv[a].pc \in {"none", "off"}
Out == <<DropOp(NoText)>>  \* a call that has not come back; no tool returns that
Waits(a) == {i \in 1..Len(adv[a].calls) : adv[a].back[i] = Out}

Seeded == <<[id |-> 1, rail |-> Rail, text |-> Seed, state |-> "confirmed"]>>

\* create_run: the row, its first event, the first advance.
Init ==
  /\ row = [status |-> "running", question |-> FALSE, profile |-> Seeded,
            products |-> <<>>, plan |-> FALSE]
  /\ log = <<>> /\ pending = [k \in Steps |-> 0] /\ pushed = {}
  /\ adv = [a \in Advances |-> IF a = 1 THEN [Idle EXCEPT !.pc = "start"] ELSE Idle]
  /\ taken = 0 /\ crashes = 0 /\ faults = 0 /\ disturbed = FALSE
  /\ NoticesInit
-----------------------------------------------------------------------------
(* Mistakes the code does not make, as in PlanningRun.                      *)

\* The row is told again whenever it ends.
Mark_Always(a) ==
  LET type == IF row.status = "failed" THEN "review" ELSE "decide" IN
  /\ At(a, "notify") /\ row.status \in {"converged", "failed"}
  /\ notify_run_once(Run)
  /\ adv' = [adv EXCEPT ![a].pc = "send", ![a].type = type]
  /\ UNCHANGED <<row, log, pending, pushed, taken, crashes, faults, disturbed>>

\* A failure is not told.
Mark_NotFailed(a) ==
  /\ At(a, "notify")
  /\ IF row.status # "converged" \/ ~MaySend(Run)
     THEN adv' = [adv EXCEPT ![a].pc = "done"] /\ UNCHANGED noticeVars
     ELSE notify_run_once(Run) /\ adv' = [adv EXCEPT ![a].pc = "send", ![a].type = "decide"]
  /\ UNCHANGED <<row, log, pending, pushed, taken, crashes, faults, disturbed>>

\* The failure is only logged.
Raises_Silent(a) ==
  /\ adv[a].pc \in {"start", "run", "ending"}
  /\ log' = log \o Done(adv[a].open)
  /\ adv' = [adv EXCEPT ![a] = [Idle EXCEPT !.pc = "notify"]]
  /\ UNCHANGED <<row, pending, pushed, taken, crashes, faults, disturbed, noticeVars>>
-----------------------------------------------------------------------------
\* _patch_run: an error is logged and the row stays as it was.
Patch(new) ==
  \/ row' = new /\ UNCHANGED faults
  \/ Trouble /\ faults' = faults + 1 /\ UNCHANGED row

\* _seed_acc: the stored products have the log of operations; before there are
\* any, the profile stands for it.
SeedAcc == IF row.products = <<>> THEN AsOps(row.profile) ELSE row.products

Persisted(acc, plan) ==
  [row EXCEPT !.products = acc, !.plan = plan, !.profile = fold_profile(acc)]

\* _close_phase: what becomes of the counters, of the open steps and of the page
\* when a tool of that step has come back.
CloseStep(a, key) ==
  LET open == adv[a].open
      last == [left |-> [pending EXCEPT ![key] = 0],
               open |-> SelectSeq(open, LAMBDA k : k # key),
               events |-> IF Contains(open, key) THEN <<StepEvent(key, "done")>> ELSE <<>>]
  IN IF key = NoStep \/ open = <<>> THEN [left |-> pending, open |-> open, events |-> <<>>]
     ELSE IF pending[key] > 1
     THEN [left |-> [pending EXCEPT ![key] = @ - 1], open |-> open, events |-> <<>>]
     ELSE last
-----------------------------------------------------------------------------
(* advance                                                                  *)

Start(a) ==
  /\ At(a, "start")
  /\ adv' = [adv EXCEPT ![a] = [Idle EXCEPT !.pc = "run", !.acc = SeedAcc, !.plan = row.plan,
                                !.view = AsOps(row.profile)]]
  /\ UNCHANGED <<row, log, pending, pushed, taken, crashes, faults, disturbed, noticeVars>>

\* The agent calls tools: a step that is not open yet is shown as running, and
\* each call is counted.
Calls(a, calls) ==
  LET keys == [i \in 1..Len(calls) |-> StepOf(calls[i])]
      new == {i \in 1..Len(keys) : /\ keys[i] # NoStep /\ ~Contains(adv[a].open, keys[i])
                                   /\ \A j \in 1..(i - 1) : keys[j] # keys[i]}
      opened == [n \in 1..Cardinality(new) |->
                   keys[CHOOSE i \in new : Cardinality({j \in new : j <= i}) = n]]
  IN /\ At(a, "run") /\ Waits(a) = {} /\ taken < MaxSteps /\ taken' = taken + 1
     /\ pending' = [k \in Steps |-> pending[k] + Cardinality({i \in 1..Len(keys) : keys[i] = k})]
     /\ log' = log \o [n \in 1..Len(opened) |-> StepEvent(opened[n], "running")]
     /\ adv' = [adv EXCEPT ![a].calls = calls, ![a].back = [i \in 1..Len(calls) |-> Out],
                           ![a].open = @ \o opened]
     /\ UNCHANGED <<row, pushed, crashes, faults, disturbed, noticeVars>>

\* seed_history_entry and seed_prefs_entry: an entry for what was read, if that is
\* of use for this recipient.
Seeds == {<<>>} \cup {<<AddOp(Rail, t)>> : t \in Known}

\* The operations that a tool may return, each as a log of at most one.
Returns(a, tool) ==
  CASE tool \in {"read_history", "read_preferences"} -> Seeds
    [] tool = "write_profile" ->
         {<<op>> : op \in {o \in {AddOp(Rail, t) : t \in Texts} \cup {DropOp(t) : t \in Texts}
                                 \cup {UpdateOp(p[1], p[2]) : p \in {q \in Texts \X Texts : q[1] # q[2]}} :
                             write_profile(fold_profile(adv[a].view), o)}} \cup {<<>>}
    [] OTHER -> {<<>>}

\* A tool comes back, perhaps with a gift that it composed: its products, its
\* step, the change of the profile unless others of its step are still out, the
\* row. A result that asks ends the stream. (What was searched and screened only
\* grows and is read by nothing here.)
Result(a, i, ops, composed) ==
  LET tool == adv[a].calls[i]
      key == StepOf(tool)
      acc == adv[a].acc \o ops
      plan == adv[a].plan \/ composed
      closed == CloseStep(a, key)
      hold == key # NoStep /\ closed.left[key] > 0
      news == IF hold THEN <<>> ELSE push_profile_delta(pushed, fold_profile(acc))
      asks == tool = "ask_user"
      changed == ops # <<>> \/ composed
      back == [adv[a].back EXCEPT ![i] = ops]
      last == Waits(a) = {i}
  IN /\ At(a, "run") /\ i \in Waits(a)
     /\ composed => tool = "compose_gift"
     /\ pending' = closed.left
     /\ log' = log \o closed.events \o news
     /\ pushed' = IF hold THEN pushed ELSE PushedOf(fold_profile(acc))
     /\ IF asks \/ changed THEN Patch(Persisted(acc, plan)) ELSE UNCHANGED <<row, faults>>
     /\ adv' = [adv EXCEPT
          ![a].pc = IF asks THEN "asking" ELSE "run",
          ![a].acc = acc, ![a].plan = plan, ![a].open = closed.open,
          ![a].back = IF last \/ asks THEN <<>> ELSE back,
          ![a].calls = IF last \/ asks THEN <<>> ELSE @,
          ![a].view = IF last THEN @ \o FlattenSeq(back) ELSE @]
     /\ UNCHANGED <<taken, crashes, disturbed, noticeVars>>

\* advance stops to ask: the steps are closed, the row waits, and only then the
\* page hears of the question.
Stop(a) ==
  /\ At(a, "asking")
  /\ log' = log \o Done(adv[a].open)
  /\ Patch([row EXCEPT !.status = "awaiting", !.question = TRUE])
  /\ adv' = [adv EXCEPT ![a] = [Idle EXCEPT !.pc = "asked"]]
  /\ UNCHANGED <<pending, pushed, taken, crashes, disturbed, noticeVars>>

Ask(a) ==
  /\ At(a, "asked") /\ log' = Append(log, Plain("question"))
  /\ adv' = [adv EXCEPT ![a].pc = "off"]
  /\ UNCHANGED <<row, pending, pushed, taken, crashes, faults, disturbed, noticeVars>>

StreamEnds(a) ==
  /\ At(a, "run") /\ Waits(a) = {}
  /\ log' = log \o Done(adv[a].open)
  /\ Patch(Persisted(adv[a].acc, adv[a].plan))
  /\ adv' = [adv EXCEPT ![a].pc = "ending", ![a].open = <<>>]
  /\ UNCHANGED <<pending, pushed, taken, crashes, disturbed, noticeVars>>

\* The row is read again and the profile folded; then the model is asked for an
\* understanding, for a minute at most.
Reread(a) ==
  LET prof == fold_profile(adv[a].acc) IN
  /\ At(a, "ending")
  /\ adv' = [adv EXCEPT ![a].pc = "understood",
                        ![a].prof = IF prof = <<>> THEN row.profile ELSE prof]
  /\ UNCHANGED <<row, log, pending, pushed, taken, crashes, faults, disturbed, noticeVars>>

Converge(a) ==
  /\ At(a, "understood")
  /\ Patch([row EXCEPT !.status = "converged", !.profile = adv[a].prof])
  /\ adv' = [adv EXCEPT ![a] = [Idle EXCEPT !.pc = "notify"]]
  /\ UNCHANGED <<log, pending, pushed, taken, crashes, disturbed, noticeVars>>

\* An exception of the stream or of a query.
Raises(a) ==
  /\ adv[a].pc \in {"start", "run", "ending"}
  /\ log' = log \o Done(adv[a].open)
  /\ Patch([row EXCEPT !.status = "failed"])
  /\ adv' = [adv EXCEPT ![a] = [Idle EXCEPT !.pc = "notify"]]
  /\ UNCHANGED <<pending, pushed, taken, crashes, disturbed, noticeVars>>

\* from_gift_run: a run that failed is to be reviewed; one that converged with
\* neither gifts nor a profile is not worth a notice.
NoticeOfRun ==
  CASE row.status = "failed" -> "review"
    [] row.status = "converged" /\ (row.plan \/ row.profile # <<>>) -> "decide"
    [] OTHER -> "none"

Mark(a) ==
  LET sent == [adv EXCEPT ![a].pc = "send", ![a].type = NoticeOfRun] IN
  /\ At(a, "notify")
  /\ \/ /\ NoticeOfRun = "none" \/ ~MaySend(Run)
        /\ adv' = [adv EXCEPT ![a].pc = "done"] /\ UNCHANGED <<faults, noticeVars>>
     \/ /\ NoticeOfRun # "none" /\ MaySend(Run)
        /\ notify_run_once(Run) /\ adv' = sent /\ UNCHANGED faults
     \/ \* the set cannot be asked: rather twice than never
        /\ NoticeOfRun # "none" /\ Trouble
        /\ faults' = faults + 1 /\ adv' = sent /\ UNCHANGED noticeVars
  /\ UNCHANGED <<row, log, pending, pushed, taken, crashes, disturbed>>

Send(a) ==
  LET notice == Notice(Run, adv[a].type) IN
  /\ At(a, "send")
  /\ \/ emit(notice) /\ UNCHANGED faults
     \/ emit_fails(notice) /\ Trouble /\ faults' = faults + 1
  /\ adv' = [adv EXCEPT ![a].pc = "done"]
  /\ UNCHANGED <<row, log, pending, pushed, taken, crashes, disturbed>>

End(a) ==
  /\ At(a, "done") /\ log' = Append(log, Plain("done"))
  /\ adv' = [adv EXCEPT ![a] = [Idle EXCEPT !.pc = "off"]]
  /\ UNCHANGED <<row, pending, pushed, taken, crashes, faults, disturbed, noticeVars>>
-----------------------------------------------------------------------------
(* The page                                                                 *)

\* answer_question asks for no status: the page offers the options once it has
\* seen a question, and a second answer starts a second advance.
Answer(a) ==
  /\ adv[a].pc = "none" /\ \A b \in 1..(a - 1) : adv[b].pc # "none"
  /\ Contains(log, Plain("question"))
  /\ Patch([row EXCEPT !.status = "running", !.question = FALSE])
  /\ adv' = [adv EXCEPT ![a].pc = "start"]
  /\ disturbed' = (disturbed \/ \E b \in Advances : ~Over(b))
  /\ UNCHANGED <<log, pending, pushed, taken, crashes, noticeVars>>

\* The process ends and is restarted: what it had in memory is gone.
Crash ==
  /\ Trouble /\ crashes' = crashes + 1
  /\ adv' = [a \in Advances |-> IF adv[a].pc = "none" THEN adv[a] ELSE [Idle EXCEPT !.pc = "off"]]
  /\ pending' = [k \in Steps |-> 0] /\ pushed' = {}
  /\ UNCHANGED <<row, log, taken, faults, disturbed, noticeVars>>

advance(a) ==
  \/ Start(a) \/ Stop(a) \/ Ask(a) \/ StreamEnds(a) \/ Reread(a) \/ Converge(a)
  \/ Raises(a) \/ Mark(a) \/ Send(a) \/ End(a)
  \/ \E calls \in Batches : Calls(a, calls)
  \/ \E i \in Waits(a) : \E ops \in Returns(a, adv[a].calls[i]) : \E composed \in BOOLEAN :
       Result(a, i, ops, composed)

Next ==
  \/ \E a \in Advances : advance(a) \/ Answer(a)
  \/ Crash

Spec == Init /\ [][Next]_vars
\* The process goes on with every advance that is not over; a crash, an
\* answer need not happen. Some action of an advance is enabled exactly until it
\* is over, so this is WF_vars(advance(a)), in a form that costs less to check.
GoesOn(a) == []<>Over(a) \/ []<><<adv'[a] # adv[a]>>_vars
FairSpec == Spec /\ \A a \in Advances : GoesOn(a)
-----------------------------------------------------------------------------
(* Properties                                                               *)

Orderly == ~disturbed /\ crashes = 0 /\ faults = 0
Told == {n \in 1..Len(inbox) : inbox[n].of = Run}

\* When a run has converged, the page that followed it from the first profile
\* shows the one that is stored, in its order: the changes that were pushed add
\* up, whatever the order of the results and across a question. Two cases are
\* excepted, and fail. If the agent stopped to ask with calls outstanding, their
\* count stays: that step is never taken for closed again, and what its tools
\* write is not pushed. And the first push takes the page for empty although it
\* has the first entry: when that was dropped before, the page keeps it.
ShownIsStored ==
  (/\ Orderly /\ row.status = "converged" /\ \A k \in Steps : pending[k] = 0
   /\ \/ row.profile = Seeded
      \/ \E i \in 1..Len(log) : log[i].kind = "profile" /\ log[i].op = "add" /\ log[i].id = 1) =>
    ShowProfile(<<[id |-> 1, text |-> Seed]>>, log)
      = [i \in 1..Len(row.profile) |-> [id |-> row.profile[i].id, text |-> row.profile[i].text]]

\* A run is in the inbox at most once, whatever advances overlap and wherever
\* the process crashes, as long as the set of the told can be asked.
ToldOnce == faults = 0 => Cardinality(Told) <= 1

\* Once no advance is running, a run that ended is in the inbox, unless there was
\* nothing to say of it, newer notices pushed it out,
\* or an advance was cut off between the two writes.
EndIsTold ==
  (/\ crashes = 0 /\ faults = 0 /\ issued <= MAX_EVENTS /\ NoticeOfRun # "none"
   /\ \A a \in Advances : Over(a)) => Told # {}

\* Both: the end of a run is told, and told once.
ToldInTheEnd == ToldOnce /\ EndIsTold

\* A run does not stay at "running": it asks, converges or fails, unless the
\* process died or a write of the status was lost.
Settles == []<>(row.status # "running" \/ crashes > 0 \/ faults > 0)
=============================================================================
