---------------------------- MODULE GiftRunProofs ----------------------------
(***************************************************************************)
(* Proofs about the notices and the two that make them: GiftRun, for any   *)
(* tools, texts and profiles and any number of overlapping advances, and   *)
(* the tasks of Monitors, for any searches, prices and days; both for any  *)
(* length of the list of notices.                                          *)
(***************************************************************************)
EXTENDS GiftRun, Monitors, FoldLemmas, SequenceTheorems, FiniteSetTheorems, TLAPS

Types == {"review", "decide", "none"}
RunNotice == [id : Nat, of : {Run}, type : Types]

Shaped ==
  /\ DOMAIN adv = Advances
  /\ \A a \in Advances : "pc" \in DOMAIN adv[a] /\ "type" \in DOMAIN adv[a] /\ adv[a].type \in Types
  /\ "status" \in DOMAIN row
  /\ inbox \in Seq(RunNotice) /\ issued \in Nat /\ crashes \in Nat /\ faults \in Nat

Sending(a) == adv[a].pc = "send"

\* As long as the set of the told answers, the run is sent by one advance at most,
\* and by none once it is in the inbox.
OnceInv ==
  faults = 0 =>
    /\ \A a, b \in Advances : Sending(a) /\ Sending(b) => a = b
    /\ (\E a \in Advances : Sending(a)) => inbox = <<>>
    /\ (\E a \in Advances : Sending(a)) \/ inbox # <<>> => Run \in told
    /\ Len(inbox) <= 1

\* The places of an advance from which it comes to tell how the run ended.
Coming == {"start", "run", "asking", "ending", "understood", "notify"}

\* A run with something to tell was told, or an advance comes to tell it; and what
\* is in the set of the told is in the inbox or on its way.
TellInv ==
  crashes = 0 /\ faults = 0 =>
    /\ Run \in told => inbox # <<>> \/ \E a \in Advances : Sending(a)
    /\ NoticeOfRun # "none" => Run \in told \/ \E a \in Advances : adv[a].pc \in Coming

GiftInv == Shaped /\ OnceInv /\ TellInv
-----------------------------------------------------------------------------
LEMMA InitGift == Init => GiftInv
<1> SUFFICES ASSUME Init PROVE GiftInv
  OBVIOUS
<1>1. Shaped
  BY DEF Init, NoticesInit, Shaped, Idle, Types
<1>2. \A a \in Advances : ~Sending(a)
  BY DEF Init, Sending, Idle
<1>3. inbox = <<>> /\ Run \notin told /\ NoticeOfRun = "none"
  BY DEF Init, NoticesInit, NoticeOfRun
<1> QED BY <1>1, <1>2, <1>3 DEF GiftInv, OnceInv, TellInv

\* A push makes the notice the first of the list.
LEMMA Pushes ==
  ASSUME inbox \in Seq(RunNotice), NEW notice \in RunNotice, emit(notice)
  PROVE  /\ inbox' \in Seq(RunNotice) /\ inbox' # <<>>
         /\ inbox = <<>> => Len(inbox') = 1
         /\ told' = told /\ issued' = notice.id
<1> DEFINE all == <<notice>> \o inbox
           n == IF Len(inbox) < MAX_EVENTS THEN Len(inbox) + 1 ELSE MAX_EVENTS
<1>1. all \in Seq(RunNotice) /\ Len(all) = Len(inbox) + 1
  BY ConcatProperties
<1>2. n \in 1..Len(all) /\ (inbox = <<>> => n = 1)
  BY <1>1, NoticesAssumption
<1>3. inbox' = SubSeq(all, 1, n) /\ told' = told /\ issued' = notice.id
  BY DEF emit
<1> HIDE DEF all, n
<1>4. SubSeq(all, 1, n) \in Seq(RunNotice) /\ Len(SubSeq(all, 1, n)) = n
  BY <1>1, <1>2
<1> QED BY <1>2, <1>3, <1>4

\* What an advance does, as far as the end of the run and its notice go.
Quiet == UNCHANGED <<inbox, told, issued, crashes>>
Edges(a) ==
  \/ /\ adv[a].pc \in Coming \ {"notify"} /\ Quiet
     /\ \/ adv'[a].pc \in Coming
        \/ adv'[a].pc = "asked" /\ (faults' = faults => row'.status = "awaiting")
  \/ /\ adv[a].pc \in {"asked", "done"} /\ adv'[a].pc \notin Coming \cup {"send"} /\ Quiet /\ row' = row
  \/ /\ adv[a].pc = "notify" /\ Quiet /\ row' = row /\ adv'[a].pc = "done"
     /\ NoticeOfRun = "none" \/ Run \in told
  \/ /\ adv[a].pc = "notify" /\ adv'[a].pc = "send" /\ row' = row
     /\ UNCHANGED <<inbox, issued, crashes>>
     /\ faults' # faults \/ (Run \notin told /\ told' = told \cup {Run})
  \/ /\ adv[a].pc = "send" /\ adv'[a].pc = "done" /\ row' = row /\ crashes' = crashes /\ told' = told
     /\ faults' # faults \/ (inbox' # <<>> /\ (inbox = <<>> => Len(inbox') = 1))

LEMMA Patches == ASSUME Shaped, NEW new, Patch(new)
                 PROVE  faults' \in Nat /\ faults' >= faults /\ (faults' = faults => row' = new) /\ row' \in {new, row}
BY DEF Patch, Shaped

LEMMA AdvanceEdges ==
  ASSUME Shaped, NEW a \in Advances, advance(a)
  PROVE  /\ Shaped' /\ faults' >= faults /\ \A b \in Advances : b # a => adv'[b] = adv[b]
         /\ Edges(a)
<1>r. ASSUME NEW f, adv' = [adv EXCEPT ![a] = f]
      PROVE  DOMAIN adv' = Advances /\ adv'[a] = f /\ \A b \in Advances : b # a => adv'[b] = adv[b]
  BY <1>r DEF Shaped
<1>s. ASSUME NEW f, adv' = [adv EXCEPT ![a] = f], "pc" \in DOMAIN f, "type" \in DOMAIN f, f.type \in Types,
             UNCHANGED <<inbox, issued, crashes>>, faults' \in Nat, "status" \in DOMAIN row'
      PROVE  Shaped'
  BY <1>r, <1>s DEF Shaped
<1>p. ASSUME NEW new, Patch(new), "status" \in DOMAIN new
      PROVE  faults' \in Nat /\ faults' >= faults /\ "status" \in DOMAIN row' /\ (faults' = faults => row' = new)
  BY <1>p, Patches DEF Shaped
<1>q. ASSUME NEW acc, NEW plan
      PROVE  "status" \in DOMAIN Persisted(acc, plan)
  BY DEF Persisted, Shaped
<1>1. ASSUME Start(a)
      PROVE  Shaped' /\ faults' >= faults /\ Edges(a) /\ \A b \in Advances : b # a => adv'[b] = adv[b]
  <2> DEFINE f == [Idle EXCEPT !.pc = "run", !.acc = SeedAcc, !.plan = row.plan, !.view = AsOps(row.profile)]
  <2>1. f.pc = "run" /\ "pc" \in DOMAIN f /\ "type" \in DOMAIN f /\ f.type \in Types
    BY DEF Idle, Types
  <2>2. adv' = [adv EXCEPT ![a] = f] /\ UNCHANGED <<row, inbox, told, issued, crashes, faults>> /\ adv[a].pc = "start"
    BY <1>1 DEF Start, At, noticeVars
  <2> HIDE DEF f
  <2> QED BY <1>r, <1>s, <2>1, <2>2 DEF Shaped, Edges, Quiet, Coming
<1>t. ASSUME DOMAIN adv' = Advances, \A b \in Advances : b # a => adv'[b] = adv[b],
             "pc" \in DOMAIN adv'[a], "type" \in DOMAIN adv'[a], adv'[a].type = adv[a].type,
             UNCHANGED <<inbox, issued, crashes>>, faults' \in Nat, "status" \in DOMAIN row'
      PROVE  Shaped'
  BY <1>t DEF Shaped
<1>2. ASSUME NEW calls \in Batches, Calls(a, calls)
      PROVE  Shaped' /\ faults' >= faults /\ Edges(a) /\ \A b \in Advances : b # a => adv'[b] = adv[b]
  <2>0. \E x, y, z : adv' = [adv EXCEPT ![a].calls = x, ![a].back = y, ![a].open = z]
    BY <1>2 DEF Calls
  <2>1. /\ DOMAIN adv' = Advances /\ \A b \in Advances : b # a => adv'[b] = adv[b]
        /\ "pc" \in DOMAIN adv'[a] /\ "type" \in DOMAIN adv'[a]
        /\ adv'[a].pc = adv[a].pc /\ adv'[a].type = adv[a].type
    BY <2>0 DEF Shaped
  <2>2. UNCHANGED <<row, inbox, told, issued, crashes, faults>> /\ adv[a].pc = "run"
    BY <1>2 DEF Calls, At, noticeVars
  <2>3. faults' \in Nat /\ faults' >= faults /\ "status" \in DOMAIN row'
    BY <2>2 DEF Shaped
  <2>4. Shaped'
    BY <1>t, <2>1, <2>2, <2>3
  <2>5. Edges(a)
    BY <2>1, <2>2 DEF Edges, Quiet, Coming
  <2> QED BY <2>1, <2>3, <2>4, <2>5
<1>3. ASSUME NEW i \in Waits(a), NEW ops, NEW composed \in BOOLEAN, Result(a, i, ops, composed)
      PROVE  Shaped' /\ faults' >= faults /\ Edges(a) /\ \A b \in Advances : b # a => adv'[b] = adv[b]
  <2>1. /\ DOMAIN adv' = Advances /\ \A b \in Advances : b # a => adv'[b] = adv[b]
        /\ "pc" \in DOMAIN adv'[a] /\ "type" \in DOMAIN adv'[a]
        /\ adv'[a].pc \in {"asking", "run"} /\ adv'[a].type = adv[a].type
    BY <1>3, ZenonT(60) DEF Result, Shaped
  <2>2. UNCHANGED <<inbox, told, issued, crashes>> /\ adv[a].pc = "run"
    BY <1>3 DEF Result, At, noticeVars
  <2>3. UNCHANGED <<row, faults>> \/ \E acc, plan : Patch(Persisted(acc, plan))
    BY <1>3 DEF Result
  <2>4. faults' \in Nat /\ faults' >= faults /\ "status" \in DOMAIN row'
    BY <2>3, <1>p, <1>q DEF Shaped
  <2>5. Shaped'
    BY <1>t, <2>1, <2>2, <2>4
  <2>6. Edges(a)
    BY <2>1, <2>2 DEF Edges, Quiet, Coming
  <2> QED BY <2>1, <2>4, <2>5, <2>6
<1>4. ASSUME Stop(a)
      PROVE  Shaped' /\ faults' >= faults /\ Edges(a) /\ \A b \in Advances : b # a => adv'[b] = adv[b]
  <2> DEFINE f == [Idle EXCEPT !.pc = "asked"]
  <2>1. f.pc = "asked" /\ "pc" \in DOMAIN f /\ "type" \in DOMAIN f /\ f.type \in Types
    BY DEF Idle, Types
  <2>2. adv' = [adv EXCEPT ![a] = f] /\ UNCHANGED <<inbox, told, issued, crashes>> /\ adv[a].pc = "asking"
    BY <1>4 DEF Stop, At, noticeVars
  <2> HIDE DEF f
  <2>3. Patch([row EXCEPT !.status = "awaiting", !.question = TRUE])
    BY <1>4 DEF Stop
  <2>4. faults' \in Nat /\ faults' >= faults /\ "status" \in DOMAIN row' /\ (faults' = faults => row'.status = "awaiting")
    <3> DEFINE new == [row EXCEPT !.status = "awaiting", !.question = TRUE]
    <3>1. "status" \in DOMAIN new /\ new.status = "awaiting"
      BY DEF Shaped
    <3>2. Patch(new)
      BY <2>3
    <3> HIDE DEF new
    <3> QED BY <3>1, <3>2, <1>p
  <2> QED BY <1>r, <1>s, <2>1, <2>2, <2>4 DEF Edges, Quiet, Coming
<1>5. ASSUME Ask(a)
      PROVE  Shaped' /\ faults' >= faults /\ Edges(a) /\ \A b \in Advances : b # a => adv'[b] = adv[b]
  <2>1. /\ DOMAIN adv' = Advances /\ \A b \in Advances : b # a => adv'[b] = adv[b]
        /\ "pc" \in DOMAIN adv'[a] /\ "type" \in DOMAIN adv'[a]
        /\ adv'[a].pc = "off" /\ adv'[a].type = adv[a].type
    BY <1>5 DEF Ask, Shaped
  <2>2. UNCHANGED <<row, inbox, told, issued, crashes, faults>> /\ adv[a].pc = "asked"
    BY <1>5 DEF Ask, At, noticeVars
  <2> QED BY <1>t, <2>1, <2>2 DEF Shaped, Edges, Quiet, Coming
<1>6. ASSUME StreamEnds(a)
      PROVE  Shaped' /\ faults' >= faults /\ Edges(a) /\ \A b \in Advances : b # a => adv'[b] = adv[b]
  <2>1. /\ DOMAIN adv' = Advances /\ \A b \in Advances : b # a => adv'[b] = adv[b]
        /\ "pc" \in DOMAIN adv'[a] /\ "type" \in DOMAIN adv'[a]
        /\ adv'[a].pc = "ending" /\ adv'[a].type = adv[a].type
    BY <1>6 DEF StreamEnds, Shaped
  <2>2. UNCHANGED <<inbox, told, issued, crashes>> /\ adv[a].pc = "run"
    BY <1>6 DEF StreamEnds, At, noticeVars
  <2>3. \E acc, plan : Patch(Persisted(acc, plan))
    BY <1>6 DEF StreamEnds
  <2>4. faults' \in Nat /\ faults' >= faults /\ "status" \in DOMAIN row'
    BY <2>3, <1>p, <1>q DEF Shaped
  <2> QED BY <1>t, <2>1, <2>2, <2>4 DEF Edges, Quiet, Coming
<1>7. ASSUME Reread(a)
      PROVE  Shaped' /\ faults' >= faults /\ Edges(a) /\ \A b \in Advances : b # a => adv'[b] = adv[b]
  <2>1. /\ DOMAIN adv' = Advances /\ \A b \in Advances : b # a => adv'[b] = adv[b]
        /\ "pc" \in DOMAIN adv'[a] /\ "type" \in DOMAIN adv'[a]
        /\ adv'[a].pc = "understood" /\ adv'[a].type = adv[a].type
    BY <1>7 DEF Reread, Shaped
  <2>2. UNCHANGED <<row, inbox, told, issued, crashes, faults>> /\ adv[a].pc = "ending"
    BY <1>7 DEF Reread, At, noticeVars
  <2> QED BY <1>t, <2>1, <2>2 DEF Shaped, Edges, Quiet, Coming
<1>8. ASSUME Converge(a) \/ Raises(a)
      PROVE  Shaped' /\ faults' >= faults /\ Edges(a) /\ \A b \in Advances : b # a => adv'[b] = adv[b]
  <2> DEFINE f == [Idle EXCEPT !.pc = "notify"]
  <2>1. f.pc = "notify" /\ "pc" \in DOMAIN f /\ "type" \in DOMAIN f /\ f.type \in Types
    BY DEF Idle, Types
  <2>2. /\ adv' = [adv EXCEPT ![a] = f] /\ UNCHANGED <<inbox, told, issued, crashes>>
        /\ adv[a].pc \in {"start", "run", "ending", "understood"}
    BY <1>8 DEF Converge, Raises, At, noticeVars
  <2> HIDE DEF f
  <2>3. \/ Patch([row EXCEPT !.status = "converged", !.profile = adv[a].prof])
        \/ Patch([row EXCEPT !.status = "failed"])
    BY <1>8 DEF Converge, Raises
  <2>4. faults' \in Nat /\ faults' >= faults /\ "status" \in DOMAIN row'
    <3> DEFINE good == [row EXCEPT !.status = "converged", !.profile = adv[a].prof]
               bad == [row EXCEPT !.status = "failed"]
    <3>1. "status" \in DOMAIN good /\ "status" \in DOMAIN bad
      BY DEF Shaped
    <3>2. Patch(good) \/ Patch(bad)
      BY <2>3
    <3> HIDE DEF good, bad
    <3> QED BY <3>1, <3>2, <1>p
  <2> QED BY <1>r, <1>s, <2>1, <2>2, <2>4 DEF Edges, Quiet, Coming
<1>9. ASSUME Mark(a)
      PROVE  Shaped' /\ faults' >= faults /\ Edges(a) /\ \A b \in Advances : b # a => adv'[b] = adv[b]
  <2>1. /\ DOMAIN adv' = Advances /\ \A b \in Advances : b # a => adv'[b] = adv[b]
        /\ "pc" \in DOMAIN adv'[a] /\ "type" \in DOMAIN adv'[a] /\ adv'[a].type \in {adv[a].type, NoticeOfRun}
        /\ adv[a].pc = "notify" /\ UNCHANGED <<row, inbox, issued, crashes>>
        /\ faults' \in {faults, faults + 1}
    BY <1>9 DEF Mark, At, Shaped, noticeVars, notify_run_once
  <2>2. NoticeOfRun \in Types
    BY DEF NoticeOfRun, Types
  <2>3. \/ adv'[a].pc = "done" /\ (NoticeOfRun = "none" \/ Run \in told) /\ told' = told
        \/ adv'[a].pc = "send" /\ (faults' = faults + 1 \/ (Run \notin told /\ told' = told \cup {Run}))
    BY <1>9 DEF Mark, Shaped, noticeVars, notify_run_once, MaySend
  <2>4. Shaped' /\ faults' >= faults
    BY <2>1, <2>2 DEF Shaped
  <2> QED BY <2>1, <2>3, <2>4 DEF Edges, Quiet, Shaped
<1>10. ASSUME Send(a)
      PROVE  Shaped' /\ faults' >= faults /\ Edges(a) /\ \A b \in Advances : b # a => adv'[b] = adv[b]
  <2>1. /\ DOMAIN adv' = Advances /\ \A b \in Advances : b # a => adv'[b] = adv[b]
        /\ "pc" \in DOMAIN adv'[a] /\ "type" \in DOMAIN adv'[a]
        /\ adv'[a].pc = "done" /\ adv'[a].type = adv[a].type
        /\ adv[a].pc = "send" /\ UNCHANGED <<row, crashes>>
    BY <1>10 DEF Send, At, Shaped
  <2> DEFINE notice == Notice(Run, adv[a].type)
  <2>2. notice \in RunNotice /\ notice.id \in Nat
    BY DEF Notice, RunNotice, Shaped
  <2>3. (emit(notice) /\ faults' = faults) \/ (emit_fails(notice) /\ faults' = faults + 1)
    BY <1>10 DEF Send
  <2> HIDE DEF notice
  <2>4. CASE emit(notice) /\ faults' = faults
    <3>1. /\ inbox' \in Seq(RunNotice) /\ inbox' # <<>> /\ (inbox = <<>> => Len(inbox') = 1)
          /\ told' = told /\ issued' = notice.id
      BY <2>2, <2>4, Pushes DEF Shaped
    <3> QED BY <2>1, <2>2, <2>4, <3>1 DEF Shaped, Edges
  <2>5. CASE emit_fails(notice) /\ faults' = faults + 1
    <3>1. inbox' = inbox /\ told' = told /\ issued' = notice.id
      BY <2>5 DEF emit_fails
    <3> QED BY <2>1, <2>2, <2>5, <3>1 DEF Shaped, Edges
  <2> QED BY <2>3, <2>4, <2>5
<1>11. ASSUME End(a)
      PROVE  Shaped' /\ faults' >= faults /\ Edges(a) /\ \A b \in Advances : b # a => adv'[b] = adv[b]
  <2> DEFINE f == [Idle EXCEPT !.pc = "off"]
  <2>1. f.pc = "off" /\ "pc" \in DOMAIN f /\ "type" \in DOMAIN f /\ f.type \in Types
    BY DEF Idle, Types
  <2>2. adv' = [adv EXCEPT ![a] = f] /\ UNCHANGED <<row, inbox, told, issued, crashes, faults>> /\ adv[a].pc = "done"
    BY <1>11 DEF End, At, noticeVars
  <2> HIDE DEF f
  <2> QED BY <1>r, <1>s, <2>1, <2>2 DEF Shaped, Edges, Quiet, Coming
<1> QED
  <2>1. faults' >= faults /\ Shaped' /\ Edges(a) /\ \A b \in Advances : b # a => adv'[b] = adv[b]
    BY <1>1, <1>2, <1>3, <1>4, <1>5, <1>6, <1>7, <1>8, <1>9, <1>10, <1>11, <1>r DEF advance
  <2> QED BY <2>1
-----------------------------------------------------------------------------
\* An advance keeps the invariant: what it sends is not in the inbox, since only
\* who put the run in the set of the told sends it.
LEMMA AdvanceKeeps ==
  ASSUME GiftInv, NEW a \in Advances, advance(a)
  PROVE  GiftInv'
<1>1. /\ Shaped /\ Shaped' /\ faults' >= faults /\ faults \in Nat /\ faults' \in Nat
      /\ crashes \in Nat /\ Edges(a)
      /\ \A b \in Advances : b # a => adv'[b] = adv[b]
  BY AdvanceEdges DEF GiftInv, Shaped
<1>2. ASSUME faults' = 0
      PROVE  faults = 0 /\ faults' = faults
  BY <1>1, <1>2
<1>3. row' = row => NoticeOfRun' = NoticeOfRun
  BY DEF NoticeOfRun
<1>4. row'.status = "awaiting" => NoticeOfRun' = "none"
  BY DEF NoticeOfRun
<1>5. inbox = <<>> => Len(inbox) = 0
  OBVIOUS
<1>6. OnceInv'
  <2> SUFFICES ASSUME faults' = 0
               PROVE  /\ \A b, c \in Advances : Sending(b)' /\ Sending(c)' => b = c
                      /\ (\E b \in Advances : Sending(b)') => inbox' = <<>>
                      /\ (\E b \in Advances : Sending(b)') \/ inbox' # <<>> => Run \in told'
                      /\ Len(inbox') <= 1
    BY DEF OnceInv
  <2>1. /\ \A b, c \in Advances : Sending(b) /\ Sending(c) => b = c
        /\ (\E b \in Advances : Sending(b)) => inbox = <<>>
        /\ (\E b \in Advances : Sending(b)) \/ inbox # <<>> => Run \in told
        /\ Len(inbox) <= 1
    BY <1>2 DEF GiftInv, OnceInv
  <2>2. CASE adv[a].pc # "send" /\ adv'[a].pc # "send" /\ inbox' = inbox /\ told' = told
    BY <1>1, <2>1, <2>2 DEF Sending
  <2>3. CASE adv[a].pc = "notify" /\ adv'[a].pc = "send" /\ inbox' = inbox
             /\ Run \notin told /\ told' = told \cup {Run}
    BY <1>1, <2>1, <2>3 DEF Sending
  <2>4. CASE /\ adv[a].pc = "send" /\ adv'[a].pc = "done" /\ told' = told
             /\ inbox' # <<>> /\ (inbox = <<>> => Len(inbox') = 1)
    <3>1. inbox = <<>> /\ Run \in told /\ \A b \in Advances : ~Sending(b)'
      BY <1>1, <2>1, <2>4 DEF Sending
    <3>2. Len(inbox') = 1
      BY <2>4, <3>1
    <3> QED BY <2>4, <3>1, <3>2
  <2> QED BY <1>1, <1>2, <2>2, <2>3, <2>4 DEF Edges, Quiet, Coming
<1>7. TellInv'
  <2> SUFFICES ASSUME crashes' = 0, faults' = 0
               PROVE  /\ Run \in told' => inbox' # <<>> \/ \E b \in Advances : Sending(b)'
                      /\ NoticeOfRun' # "none" => Run \in told' \/ \E b \in Advances : adv'[b].pc \in Coming
    BY DEF TellInv
  <2>1. crashes = 0 /\ faults = 0 /\ faults' = faults
    BY <1>1, <1>2 DEF Edges, Quiet
  <2>2. /\ Run \in told => inbox # <<>> \/ \E b \in Advances : Sending(b)
        /\ NoticeOfRun # "none" => Run \in told \/ \E b \in Advances : adv[b].pc \in Coming
    BY <2>1 DEF GiftInv, TellInv
  <2>3. CASE Quiet /\ adv[a].pc # "send" /\ adv'[a].pc \in Coming
    BY <1>1, <2>2, <2>3 DEF Quiet, Sending
  <2>4. CASE Quiet /\ adv[a].pc # "send" /\ row'.status = "awaiting"
    BY <1>1, <1>4, <2>2, <2>4 DEF Quiet, Sending
  <2>5. CASE Quiet /\ adv[a].pc # "send" /\ row' = row /\ (adv[a].pc \in Coming => NoticeOfRun = "none" \/ Run \in told)
    BY <1>1, <1>3, <2>2, <2>5 DEF Quiet, Sending
  <2>6. CASE adv'[a].pc = "send" /\ told' = told \cup {Run} /\ inbox' = inbox
    BY <2>6 DEF Sending
  <2>7. CASE adv[a].pc = "send" /\ inbox' # <<>> /\ row' = row /\ told' = told
    BY <1>1, <1>3, <2>2, <2>7 DEF Sending, Coming
  <2> QED BY <1>1, <2>1, <2>3, <2>4, <2>5, <2>6, <2>7 DEF Edges, Quiet, Coming
<1> QED BY <1>1, <1>6, <1>7 DEF GiftInv

\* An answer leaves nothing to tell: the run is running again.
LEMMA AnswerKeeps ==
  ASSUME GiftInv, NEW a \in Advances, Answer(a)
  PROVE  GiftInv'
<1> DEFINE new == [row EXCEPT !.status = "running", !.question = FALSE]
<1>1. "status" \in DOMAIN new /\ new.status = "running" /\ Patch(new)
  BY DEF Answer, GiftInv, Shaped
<1>2. /\ DOMAIN adv' = Advances /\ \A b \in Advances : b # a => adv'[b] = adv[b]
      /\ "pc" \in DOMAIN adv'[a] /\ "type" \in DOMAIN adv'[a]
      /\ adv'[a].pc = "start" /\ adv'[a].type = adv[a].type /\ adv[a].pc = "none"
      /\ UNCHANGED <<inbox, told, issued, crashes>>
  BY DEF Answer, GiftInv, Shaped, noticeVars
<1> HIDE DEF new
<1>3. /\ faults' \in Nat /\ faults' >= faults /\ "status" \in DOMAIN row'
      /\ (faults' = faults => row' = new)
  BY <1>1, Patches DEF GiftInv, Shaped
<1>4. Shaped' /\ faults \in Nat
  BY <1>2, <1>3 DEF GiftInv, Shaped
<1>5. OnceInv'
  BY <1>2, <1>3, <1>4 DEF GiftInv, OnceInv, Sending
<1>6. TellInv'
  <2>1. row' = new => NoticeOfRun' = "none"
    BY <1>1 DEF NoticeOfRun
  <2>2. faults' = 0 => faults = 0 /\ row' = new
    BY <1>3, <1>4
  <2> QED BY <1>2, <2>1, <2>2 DEF GiftInv, TellInv, Sending
<1> QED BY <1>4, <1>5, <1>6 DEF GiftInv

\* A crash tells nothing a second time: the set of the told outlives it.
LEMMA CrashKeeps == ASSUME GiftInv, Crash PROVE GiftInv'
<1>1. /\ crashes' = crashes + 1 /\ crashes \in Nat
      /\ UNCHANGED <<row, inbox, told, issued, faults>>
      /\ adv' = [a \in Advances |-> IF adv[a].pc = "none" THEN adv[a] ELSE [Idle EXCEPT !.pc = "off"]]
  BY DEF Crash, GiftInv, Shaped, noticeVars
<1>2. ASSUME NEW a \in Advances
      PROVE  /\ "pc" \in DOMAIN adv'[a] /\ "type" \in DOMAIN adv'[a] /\ adv'[a].type \in Types
             /\ adv'[a].pc # "send"
  BY <1>1 DEF GiftInv, Shaped, Idle, Types
<1>3. Shaped'
  BY <1>1, <1>2 DEF GiftInv, Shaped
<1>4. OnceInv'
  BY <1>1, <1>2 DEF GiftInv, OnceInv, Sending
<1>5. TellInv'
  BY <1>1 DEF TellInv
<1> QED BY <1>3, <1>4, <1>5 DEF GiftInv

LEMMA GiftNext == GiftInv /\ [Next]_vars => GiftInv'
<1> SUFFICES ASSUME GiftInv, [Next]_vars PROVE GiftInv'
  OBVIOUS
<1>1. CASE UNCHANGED vars
  BY <1>1 DEF vars, giftVars, noticeVars, GiftInv, Shaped, OnceInv, TellInv, Sending, NoticeOfRun
<1> QED BY <1>1, AdvanceKeeps, AnswerKeeps, CrashKeeps DEF Next

\* The invariant says of a state what the property does.
LEMMA GiftTold == GiftInv => ToldInTheEnd
<1> SUFFICES ASSUME GiftInv PROVE ToldInTheEnd
  OBVIOUS
<1>1. inbox \in Seq(RunNotice) /\ Len(inbox) \in Nat
  BY DEF GiftInv, Shaped
<1>2. ToldOnce
  <2> SUFFICES ASSUME faults = 0 PROVE Cardinality(Told) <= 1
    BY DEF ToldOnce
  <2>1. Len(inbox) <= 1
    BY DEF GiftInv, OnceInv
  <2>2. Told \subseteq {1}
    BY <1>1, <2>1 DEF Told
  <2>3. Told = {} \/ Told = {1}
    BY <2>2
  <2>4. Cardinality({}) = 0 /\ Cardinality({1}) = 1
    BY FS_EmptySet, FS_Singleton
  <2> QED BY <2>3, <2>4
<1>3. EndIsTold
  <2> SUFFICES ASSUME crashes = 0, faults = 0, NoticeOfRun # "none", \A a \in Advances : Over(a)
               PROVE  Told # {}
    BY DEF EndIsTold
  <2>1. inbox # <<>>
    BY DEF GiftInv, TellInv, Over, Sending, Coming
  <2>2. 1 \in 1..Len(inbox) /\ inbox[1].of = Run
    <3>1. Len(inbox) # 0
      BY <1>1, <2>1, EmptySeq
    <3>2. 1 \in 1..Len(inbox)
      BY <1>1, <3>1
    <3>3. inbox[1] \in RunNotice
      BY <1>1, <3>2, ElementOfSeq
    <3> QED BY <3>2, <3>3 DEF RunNotice
  <2> QED BY <2>2 DEF Told
<1> QED BY <1>2, <1>3 DEF ToldInTheEnd

\* The end of a run is told, and told once: whatever advances overlap and
\* wherever the process crashes, notify_run_once puts a run into the inbox at most
\* once as long as the set of the told can be asked; and once no advance is left,
\* a run that ended with something to say is there, unless a crash or a fault lost it.
THEOREM EndIsToldOnce == Spec => []ToldInTheEnd
<1> QED BY InitGift, GiftNext, GiftTold, PTL DEF Spec
-----------------------------------------------------------------------------
(* The notices, and the tasks that make them. *)

NoticeTypes == {"review", "price", "deal", "coupon", "decide"}
TaskNotice == [id : Nat, of : {"task"}, type : NoticeTypes]

\* The list has the newest notices first.
NewestFirst(list) == \A i, j \in DOMAIN list : i < j => list[i].id > list[j].id
InboxInv ==
  /\ issued \in Nat /\ inbox \in Seq(TaskNotice) /\ NewestFirst(inbox)
  /\ \A i \in DOMAIN inbox : inbox[i].id <= issued

\* Of the first k places of the list, those of notices that are not dismissed.
OpenIn(k) == {i \in 1..k : inbox[i].id \notin dismissed}
\* What recent has taken of them.
Taken(k, limit, d) ==
  /\ Len(d) = IF Cardinality(OpenIn(k)) < limit THEN Cardinality(OpenIn(k)) ELSE limit
  /\ ToSet(d) = {inbox[i] : i \in {j \in OpenIn(k) : Cardinality(OpenIn(j - 1)) < limit}}
  /\ NewestFirst(d)

LEMMA OpenGrows ==
  ASSUME NEW k \in Nat
  PROVE  /\ IsFiniteSet(OpenIn(k)) /\ Cardinality(OpenIn(k)) \in Nat
         /\ k # 0 => OpenIn(k) = IF inbox[k].id \in dismissed THEN OpenIn(k - 1) ELSE OpenIn(k - 1) \cup {k}
         /\ k # 0 /\ inbox[k].id \notin dismissed => Cardinality(OpenIn(k)) = Cardinality(OpenIn(k - 1)) + 1
<1>1. \A n \in Nat : IsFiniteSet(OpenIn(n)) /\ Cardinality(OpenIn(n)) \in Nat
  <2> TAKE n \in Nat
  <2>1. IsFiniteSet(1..n) /\ OpenIn(n) \subseteq 1..n
    BY FS_Interval DEF OpenIn
  <2> QED BY <2>1, FS_Subset, FS_CardinalityType
<1>2. ASSUME k # 0 PROVE OpenIn(k) = IF inbox[k].id \in dismissed THEN OpenIn(k - 1) ELSE OpenIn(k - 1) \cup {k}
  <2>1. 1..k = (1..(k - 1)) \cup {k}
    BY <1>2
  <2> QED BY <2>1 DEF OpenIn
<1>3. ASSUME k # 0, inbox[k].id \notin dismissed PROVE Cardinality(OpenIn(k)) = Cardinality(OpenIn(k - 1)) + 1
  <2>1. k \notin OpenIn(k - 1) /\ k - 1 \in Nat
    BY <1>3 DEF OpenIn
  <2>2. OpenIn(k) = OpenIn(k - 1) \cup {k}
    BY <1>2, <1>3
  <2> QED BY <1>1, <2>1, <2>2, FS_AddElement
<1> QED BY <1>1, <1>2, <1>3

LEMMA TakesNext ==
  ASSUME InboxInv, NEW limit \in Nat \ {0}, NEW k \in DOMAIN inbox, NEW d \in Seq(TaskNotice), Taken(k - 1, limit, d)
  PROVE  Taken(k, limit, IF inbox[k].id \in dismissed \/ Len(d) >= limit THEN d ELSE Append(d, inbox[k]))
<1> DEFINE Before == {j \in OpenIn(k - 1) : Cardinality(OpenIn(j - 1)) < limit}
           Now == {j \in OpenIn(k) : Cardinality(OpenIn(j - 1)) < limit}
<1>1. /\ k \in Nat /\ k - 1 \in Nat /\ k # 0 /\ k \in 1..Len(inbox) /\ inbox[k] \in TaskNotice
      /\ Len(d) \in Nat
  <2>1. DOMAIN inbox = 1..Len(inbox) /\ Len(inbox) \in Nat
    BY DEF InboxInv
  <2> QED BY <2>1 DEF InboxInv
<1>2. Cardinality(OpenIn(k - 1)) \in Nat /\ OpenIn(k - 1) \subseteq 1..(k - 1)
  BY <1>1, OpenGrows DEF OpenIn
<1>3. CASE inbox[k].id \in dismissed
  <2>1. OpenIn(k) = OpenIn(k - 1)
    BY <1>1, <1>3, OpenGrows
  <2> QED BY <1>3, <2>1 DEF Taken
<1>4. CASE inbox[k].id \notin dismissed
  <2>1. OpenIn(k) = OpenIn(k - 1) \cup {k} /\ Cardinality(OpenIn(k)) = Cardinality(OpenIn(k - 1)) + 1
    BY <1>1, <1>4, OpenGrows
  <2>2. CASE Len(d) >= limit
    <3>1. ~(Cardinality(OpenIn(k - 1)) < limit) /\ Len(d) = limit
      BY <1>2, <2>2 DEF Taken
    <3>2. Now = Before
      BY <2>1, <3>1
    <3>3. ~(Cardinality(OpenIn(k)) < limit)
      BY <1>2, <2>1, <3>1
    <3> QED BY <2>2, <3>1, <3>2, <3>3 DEF Taken
  <2>3. CASE ~(Len(d) >= limit)
    <3> DEFINE e == Append(d, inbox[k])
    <3>1. Cardinality(OpenIn(k - 1)) < limit /\ Len(d) = Cardinality(OpenIn(k - 1))
      BY <1>1, <1>2, <2>3 DEF Taken
    <3>2. Now = Before \cup {k}
      BY <2>1, <3>1
    <3>3. /\ e \in Seq(TaskNotice) /\ Len(e) = Len(d) + 1 /\ DOMAIN e = 1..(Len(d) + 1) /\ DOMAIN d = 1..Len(d)
          /\ \A i \in 1..Len(d) : e[i] = d[i]
          /\ e[Len(d) + 1] = inbox[k]
      BY <1>1, AppendProperties
    <3> HIDE DEF e
    <3>4. ToSet(e) = ToSet(d) \cup {inbox[k]}
      <4>1. ToSet(e) \subseteq ToSet(d) \cup {inbox[k]}
        BY <1>1, <3>3 DEF ToSet
      <4>2. ToSet(d) \subseteq ToSet(e) /\ inbox[k] \in ToSet(e)
        BY <1>1, <3>3 DEF ToSet
      <4> QED BY <4>1, <4>2
    <3>5. Len(e) = IF Cardinality(OpenIn(k)) < limit THEN Cardinality(OpenIn(k)) ELSE limit
      BY <1>2, <2>1, <3>1, <3>3
    <3>6. ToSet(e) = {inbox[i] : i \in Now}
      BY <3>2, <3>4 DEF Taken
    <3>7. \A i \in DOMAIN d : d[i].id > inbox[k].id
      <4> TAKE i \in DOMAIN d
      <4>1. PICK j \in Before : d[i] = inbox[j]
        BY DEF Taken, ToSet
      <4>2. j \in 1..(k - 1)
        BY <1>2, <4>1
      <4>3. j \in DOMAIN inbox /\ j < k
        <5>1. DOMAIN inbox = 1..Len(inbox) /\ Len(inbox) \in Nat
          BY DEF InboxInv
        <5> QED BY <1>1, <4>2, <5>1
      <4> QED BY <4>1, <4>3 DEF InboxInv, NewestFirst
    <3>8. NewestFirst(e)
      <4> SUFFICES ASSUME NEW i \in DOMAIN e, NEW j \in DOMAIN e, i < j PROVE e[i].id > e[j].id
        BY DEF NewestFirst
      <4>1. i \in 1..Len(d) /\ e[i] = d[i]
        BY <1>1, <3>3
      <4>2. CASE j = Len(d) + 1
        BY <3>3, <3>7, <4>1, <4>2
      <4>3. CASE j # Len(d) + 1
        <5>1. j \in 1..Len(d) /\ e[j] = d[j]
          BY <1>1, <3>3, <4>3
        <5> QED BY <3>3, <4>1, <5>1 DEF Taken, NewestFirst
      <4> QED BY <4>2, <4>3
    <3> QED BY <1>4, <2>3, <3>5, <3>6, <3>8 DEF Taken, e
  <2> QED BY <2>2, <2>3
<1> QED BY <1>3, <1>4

\* recent takes the first limit of them of what it reads.
LEMMA RecentIs ==
  ASSUME InboxInv, NEW limit \in Nat \ {0}
  PROVE  LET m == IF 3 * limit < Len(inbox) THEN 3 * limit ELSE Len(inbox)
         IN  Taken(m, limit, recent(limit))
<1> DEFINE A == Seq(TaskNotice)
           m == IF 3 * limit < Len(inbox) THEN 3 * limit ELSE Len(inbox)
           raw == SubSeq(inbox, 1, m)
           passed(d, x) == IF x.id \in dismissed \/ Len(d) >= limit THEN d ELSE Append(d, x)
           step == [d \in A |-> [x \in TaskNotice |-> passed(d, x)]]
<1>1. /\ m \in Nat /\ raw \in [1..m -> TaskNotice] /\ DOMAIN raw = 1..m /\ 1..m \subseteq DOMAIN inbox
      /\ \A i \in 1..m : raw[i] = inbox[i] /\ inbox[i] \in TaskNotice
  <2>1. Len(inbox) \in Nat /\ DOMAIN inbox = 1..Len(inbox) /\ inbox \in Seq(TaskNotice)
    BY DEF InboxInv
  <2>2. m \in Nat /\ 1..m \subseteq DOMAIN inbox /\ m <= Len(inbox)
    BY <2>1
  <2> HIDE DEF m
  <2>3. Len(raw) = m /\ raw \in Seq(TaskNotice) /\ \A i \in 1..m : raw[i] = inbox[i]
    BY <2>1, <2>2, SubSeqProperties
  <2> HIDE DEF raw
  <2>4. \A i \in 1..m : inbox[i] \in TaskNotice
    BY <2>1, <2>2
  <2> QED BY <2>2, <2>3, <2>4
<1>2. <<>> \in A
  BY EmptySeq
<1>3. step \in [A -> [TaskNotice -> A]]
  <2>1. ASSUME NEW d \in A, NEW x \in TaskNotice PROVE passed(d, x) \in A
    <3>1. Append(d, x) \in A
      BY AppendProperties
    <3> QED BY <3>1
  <2> HIDE DEF A, passed
  <2> QED BY <2>1
<1> HIDE DEF m
<1>4. PICK it : Folds(it, step, m, A, <<>>, raw)
  <2> HIDE DEF A, step, raw
  <2> QED BY <1>1, <1>2, <1>3, FoldExists
<1> DEFINE Body(f) == [t \in SUBSET (DOMAIN raw) |->
                         IF t = {} THEN <<>> ELSE passed(f[t \ {Max(t)}], raw[Max(t)])]
           Iter == CHOOSE f : f = Body(f)
<1>5. recent(limit) = Iter[DOMAIN raw]
  BY DEF recent, FoldLeft, MapThenFoldSet, m
<1>6. \A f, t : f \in [SUBSET (1..m) -> A] /\ t \in SUBSET (1..m) /\ t # {} =>
        step[f[t \ {Max(t)}]][raw[Max(t)]] = passed(f[t \ {Max(t)}], raw[Max(t)])
  <2> TAKE f, t
  <2> HAVE f \in [SUBSET (1..m) -> A] /\ t \in SUBSET (1..m) /\ t # {}
  <2>1. Max(t) \in 1..m /\ t \ {Max(t)} \in SUBSET (1..m)
    BY <1>1, MaxIs
  <2> HIDE DEF A, passed, raw
  <2>2. f[t \ {Max(t)}] \in A /\ raw[Max(t)] \in TaskNotice
    BY <1>1, <2>1
  <2> QED BY <2>2
<1>7. it = Body(it)
  <2> HIDE DEF A, passed, step, raw
  <2> QED BY <1>1, <1>4, <1>6 DEF Folds
<1>8. Iter = Body(Iter)
  <2> HIDE DEF Body
  <2> QED BY <1>7
<1> DEFINE W == [k \in 0..m |-> {d \in A : Taken(k, limit, d)}]
<1>9. Iter[1..0] \in W[0]
  <2>1. 1..0 = {} /\ ToSet(<<>>) = {} /\ 0 \in 0..m
    BY <1>1 DEF ToSet
  <2>2. Iter[1..0] = <<>>
    <3> HIDE DEF A, Iter, passed, raw
    <3> QED BY <1>8, <2>1
  <2>3. Taken(0, limit, <<>>)
    <3>1. OpenIn(0) = {} /\ Cardinality({}) = 0
      BY <2>1, FS_EmptySet DEF OpenIn
    <3>2. NewestFirst(<<>>) /\ Len(<<>>) = 0
      BY DEF NewestFirst
    <3>3. Cardinality(OpenIn(0)) = 0 /\ 0 < limit
      BY <3>1
    <3>4. {inbox[i] : i \in {j \in OpenIn(0) : Cardinality(OpenIn(j - 1)) < limit}} = {}
      BY <3>1
    <3> QED BY <2>1, <3>2, <3>3, <3>4 DEF Taken
  <2> HIDE DEF Iter, A
  <2> QED BY <1>2, <2>1, <2>2, <2>3
<1>10. ASSUME NEW k \in 1..m, Iter[1..(k - 1)] \in W[k - 1] PROVE Iter[1..k] \in W[k]
  <2> DEFINE d == Iter[1..(k - 1)]
  <2>1. /\ 1..k \in SUBSET (1..m) /\ 1..k # {} /\ Max(1..k) = k
        /\ (1..k) \ {Max(1..k)} = 1..(k - 1)
    BY <1>1, FoldSteps
  <2>2. Iter[1..k] = passed(d, inbox[k])
    <3> HIDE DEF A, passed, Iter, step, raw
    <3> QED BY <1>1, <1>8, <2>1
  <2>3. k - 1 \in 0..m /\ k \in 0..m /\ k \in DOMAIN inbox /\ inbox[k] \in TaskNotice
    <3> HIDE DEF raw
    <3> QED BY <1>1
  <2>4. d \in A /\ Taken(k - 1, limit, d)
    <3> HIDE DEF Iter, A
    <3> QED BY <1>10, <2>3
  <2> HIDE DEF d, Iter
  <2>5. Taken(k, limit, passed(d, inbox[k]))
    BY <2>3, <2>4, TakesNext
  <2>6. passed(d, inbox[k]) \in A
    <3>1. Append(d, inbox[k]) \in A
      BY <2>3, <2>4, AppendProperties
    <3> HIDE DEF A
    <3> QED BY <2>4, <3>1
  <2> HIDE DEF passed, A
  <2> QED BY <2>2, <2>3, <2>5, <2>6
<1>11. Iter[1..m] \in W[m]
  <2> HIDE DEF W, Iter
  <2>1. Reaches(Iter, m, W)
    BY <1>9, <1>10 DEF Reaches
  <2> QED BY <1>1, <2>1, FoldReaches
<1>12. m \in 0..m
  BY <1>1
<1> HIDE DEF Iter, A
<1>13. Taken(m, limit, Iter[1..m])
  BY <1>11, <1>12
<1>14. recent(limit) = Iter[1..m]
  <2> HIDE DEF raw
  <2> QED BY <1>1, <1>5
<1> QED BY <1>13, <1>14 DEF m

\* As many as it asks for are enough, if no more than two thirds of them are dismissed.
LEMMA RecentShowsNewest ==
  ASSUME InboxInv, NEW limit \in Nat \ {0}
  PROVE  RecentIsNewest(limit)
<1> DEFINE m == IF 3 * limit < Len(inbox) THEN 3 * limit ELSE Len(inbox)
           n == Len(inbox)
           open == {i \in DOMAIN inbox : inbox[i].id \notin dismissed}
           hidden == {i \in DOMAIN inbox : i <= 3 * limit /\ inbox[i].id \in dismissed}
           shown == recent(limit)
           newest == {j \in open : Cardinality({k \in open : k < j}) < limit}
           among == {j \in OpenIn(m) : Cardinality(OpenIn(j - 1)) < limit}
<1>1. n \in Nat /\ DOMAIN inbox = 1..n /\ m \in Nat /\ m <= n /\ (m = n \/ m = 3 * limit)
  BY DEF InboxInv
<1>2. Taken(m, limit, shown)
  BY RecentIs
<1> HIDE DEF m, n
<1>3. ASSUME NEW j \in 1..n PROVE {k \in open : k < j} = OpenIn(j - 1)
  BY <1>1 DEF OpenIn
<1>4. among \subseteq newest
  <2>1. OpenIn(m) \subseteq open
    BY <1>1 DEF OpenIn
  <2> QED BY <1>1, <1>3, <2>1
<1>5. ASSUME Cardinality(hidden) <= 2 * limit PROVE newest \subseteq among
  <2> SUFFICES ASSUME NEW j \in newest PROVE j \in among
    OBVIOUS
  <2>1. j \in 1..n /\ inbox[j].id \notin dismissed /\ Cardinality(OpenIn(j - 1)) < limit
    <3>1. j \in open /\ j \in 1..n
      BY <1>1
    <3> HIDE DEF open
    <3> QED BY <1>3, <3>1 DEF open
  <2>2. CASE j <= m
    <3>1. j \in OpenIn(m)
      BY <1>1, <2>1, <2>2 DEF OpenIn
    <3> QED BY <2>1, <3>1
  <2>3. CASE ~(j <= m)
    <3> HIDE DEF open, newest, among, shown
    <3>1. m = 3 * limit /\ OpenIn(m) \subseteq OpenIn(j - 1) /\ j - 1 \in Nat
      BY <1>1, <2>1, <2>3 DEF OpenIn
    <3>2. OpenIn(m) = (1..m) \ hidden /\ hidden \subseteq 1..m
      BY <1>1, <3>1 DEF OpenIn
    <3>3. Cardinality(1..m) = m /\ IsFiniteSet(1..m)
      BY <1>1, FS_Interval
    <3> HIDE DEF hidden
    <3>4. Cardinality((1..m) \ hidden) = m - Cardinality(hidden) /\ Cardinality(hidden) \in Nat
      <4>1. IsFiniteSet(hidden) /\ (1..m) \cap hidden = hidden
        BY <3>2, <3>3, FS_Subset
      <4> QED BY <3>3, <4>1, FS_Difference, FS_CardinalityType
    <3>5. Cardinality(OpenIn(m)) <= Cardinality(OpenIn(j - 1)) /\ Cardinality(OpenIn(j - 1)) \in Nat
      <4>1. IsFiniteSet(OpenIn(j - 1)) /\ Cardinality(OpenIn(j - 1)) \in Nat
        BY <3>1, OpenGrows
      <4> QED BY <3>1, <4>1, FS_Subset
    <3>6. Cardinality(OpenIn(m)) >= limit
      BY <1>5, <3>1, <3>2, <3>4
    <3>7. Cardinality(OpenIn(m)) \in Nat
      BY <1>1, OpenGrows
    <3> QED BY <2>1, <3>5, <3>6, <3>7
  <2> QED BY <2>2, <2>3
<1>6. ASSUME Cardinality(hidden) <= 2 * limit
      PROVE  ToSet(shown) = {inbox[i] : i \in newest} /\ NewestFirst(shown)
  <2>1. newest = among
    BY <1>4, <1>5, <1>6
  <2> HIDE DEF newest, hidden, open, shown
  <2> QED BY <1>2, <2>1 DEF Taken
<1> QED BY <1>6 DEF RecentIsNewest, NewestFirst

Promos == [coupon : BOOLEAN, face : Int, end : Nat]
AnOffer == [good : Titles, price : Nat, original : Nat, promo : Promos]
Priced == {o \in AnOffer : o.price # 0}
MonitorKinds == {"price", "deal", "coupon", "rank", "shop"}

\* What a search finds has offers.
LEMMA SearchFinds ==
  ASSUME kind \in MonitorKinds, NEW raw \in Searches
  PROVE  raw \in Seq(AnOffer)
<1>1. /\ Full \in Nat /\ Ranks \in Nat /\ MinFace \in Nat /\ MaxDay \in Nat
      /\ \A x \in Prices : x \in Nat
  BY MonitorsAssumption
<1>2. NoPromo \in Promos /\ Mine \in Titles /\ 2 \in Titles
  BY DEF NoPromo, Promos, Mine, Titles
<1>3. CASE kind = "rank"
  <2> DEFINE o(i, r) == [good |-> IF i = r THEN Mine ELSE 2, price |-> Full, original |-> Full, promo |-> NoPromo]
  <2>1. \A i, r : o(i, r) \in AnOffer
    BY <1>1, <1>2 DEF AnOffer
  <2>2. raw \in {[i \in 1..Ranks |-> o(i, r)] : r \in 0..Ranks} \cup {<<>>}
    BY <1>3 DEF Searches
  <2> HIDE DEF o
  <2>3. CASE raw = <<>>
    BY <2>3
  <2>4. CASE raw # <<>>
    <3>1. PICK r \in 0..Ranks : raw = [i \in 1..Ranks |-> o(i, r)]
      BY <2>2, <2>4
    <3>2. raw \in [1..Ranks -> AnOffer]
      BY <2>1, <3>1
    <3> QED BY <1>1, <3>2
  <2> QED BY <2>3, <2>4
<1>4. CASE kind # "rank"
  <2>1. Offer \subseteq AnOffer
    <3>1. CASE kind = "price"
      BY <1>1, <1>2, <3>1 DEF Offer, AnOffer
    <3>2. CASE kind = "deal"
      <4>1. [coupon : {FALSE}, face : {0}, end : 0..MaxDay + 1] \subseteq Promos
        <5>1. {FALSE} \subseteq BOOLEAN /\ {0} \subseteq Int /\ (0..MaxDay + 1) \subseteq Nat
          BY <1>1
        <5> QED BY <5>1, Zenon DEF Promos
      <4>2. Offer = [good : {Mine}, price : {Full}, original : {Full},
                     promo : [coupon : {FALSE}, face : {0}, end : 0..MaxDay + 1]]
        BY <3>2 DEF Offer
      <4> QED BY <1>1, <1>2, <4>1, <4>2 DEF AnOffer
    <3>3. CASE kind = "coupon"
      <4>1. [coupon : BOOLEAN, face : {0, MinFace - 1, MinFace}, end : {MaxDay}] \subseteq Promos
        BY <1>1 DEF Promos
      <4>2. Offer = [good : {Mine}, price : {Full}, original : {Full},
                     promo : [coupon : BOOLEAN, face : {0, MinFace - 1, MinFace}, end : {MaxDay}]]
        BY <3>3 DEF Offer
      <4> QED BY <1>1, <1>2, <4>1, <4>2 DEF AnOffer
    <3>4. CASE kind = "shop"
      BY <1>1, <1>2, <3>4 DEF Offer, AnOffer
    <3> QED BY <1>4, <3>1, <3>2, <3>3, <3>4 DEF MonitorKinds
  <2>2. PICK n \in 0..2 : raw \in [1..n -> Offer]
    BY <1>4 DEF Searches, MonitorKinds
  <2>3. raw \in [1..n -> AnOffer] /\ n \in Nat
    <3> HIDE DEF AnOffer
    <3> QED BY <2>1, <2>2
  <2> QED BY <2>3
<1> QED BY <1>3, <1>4

\* Those that are kept of it have a price.
LEMMA ParsedArePriced ==
  ASSUME NEW raw \in Seq(AnOffer)
  PROVE  parse_search_result(raw) \in Seq(Priced)
<1> DEFINE A == Seq(Priced)
           m == Len(raw)
           passed(d, x) == IF x.price = 0 THEN d ELSE Append(d, x)
           step == [d \in A |-> [x \in AnOffer |-> passed(d, x)]]
<1>1. m \in Nat /\ raw \in [1..m -> AnOffer] /\ DOMAIN raw = 1..m
  OBVIOUS
<1>2. <<>> \in A
  BY EmptySeq
<1>3. \A d \in A : \A x \in AnOffer : passed(d, x) \in A
  <2> TAKE d \in A
  <2> TAKE x \in AnOffer
  <2>1. CASE x.price = 0
    BY <2>1
  <2>2. CASE x.price # 0
    <3>1. x \in Priced
      BY <2>2 DEF Priced
    <3> QED BY <3>1, AppendProperties
  <2> QED BY <2>1, <2>2
<1>4. step \in [A -> [AnOffer -> A]]
  <2> HIDE DEF A, passed
  <2> QED BY <1>3
<1> HIDE DEF m
<1>5. PICK it : Folds(it, step, m, A, <<>>, raw)
  <2> HIDE DEF A, step
  <2> QED BY <1>1, <1>2, <1>4, FoldExists
<1> DEFINE Body(f) == [t \in SUBSET (DOMAIN raw) |->
                         IF t = {} THEN <<>> ELSE passed(f[t \ {Max(t)}], raw[Max(t)])]
           Iter == CHOOSE f : f = Body(f)
<1>6. parse_search_result(raw) = Iter[DOMAIN raw]
  BY DEF parse_search_result, FoldLeft, MapThenFoldSet
<1>7. \A f, t : f \in [SUBSET (1..m) -> A] /\ t \in SUBSET (1..m) /\ t # {} =>
        step[f[t \ {Max(t)}]][raw[Max(t)]] = passed(f[t \ {Max(t)}], raw[Max(t)])
  <2> TAKE f, t
  <2> HAVE f \in [SUBSET (1..m) -> A] /\ t \in SUBSET (1..m) /\ t # {}
  <2>1. Max(t) \in 1..m /\ t \ {Max(t)} \in SUBSET (1..m)
    BY <1>1, MaxIs
  <2> HIDE DEF A, passed
  <2>2. f[t \ {Max(t)}] \in A /\ raw[Max(t)] \in AnOffer
    BY <1>1, <2>1
  <2> QED BY <2>2
<1>8. it = Body(it)
  <2> HIDE DEF A, passed, step
  <2> QED BY <1>1, <1>5, <1>7 DEF Folds
<1>9. Iter = Body(Iter)
  <2> HIDE DEF Body
  <2> QED BY <1>8
<1> HIDE DEF A, passed, step, Iter
<1>10. Iter[1..0] \in A
  <2>1. 1..0 = {}
    OBVIOUS
  <2>2. Iter[1..0] = <<>>
    BY <1>9, <2>1
  <2> QED BY <1>2, <2>2
<1>11. ASSUME NEW k \in 1..m, Iter[1..(k - 1)] \in A PROVE Iter[1..k] \in A
  <2>1. /\ 1..k \in SUBSET (1..m) /\ 1..k # {} /\ Max(1..k) = k
        /\ (1..k) \ {Max(1..k)} = 1..(k - 1)
    BY <1>1, FoldSteps
  <2>2. Iter[1..k] = passed(Iter[1..(k - 1)], raw[k])
    BY <1>1, <1>9, <2>1
  <2>3. raw[k] \in AnOffer
    BY <1>1
  <2> QED BY <1>3, <1>11, <2>2, <2>3
<1>12. BegunIn(Iter, m, A)
  BY <1>10, <1>11 DEF BegunIn
<1>13. Iter[1..m] \in A
  BY <1>1, <1>12, FoldStays
<1> QED BY <1>1, <1>6, <1>13 DEF A

\* The first of some places of a list.
LEMMA FirstIs ==
  ASSUME NEW S \in SUBSET Nat, S # {}
  PROVE  (CHOOSE i \in S : \A j \in S : i <= j) \in S /\ \A j \in S : (CHOOSE i \in S : \A k \in S : i <= k) <= j
<1>1. \E i \in S : \A j \in S : i <= j
  BY SmallestOne
<1> QED BY <1>1

LEMMA BestIs ==
  ASSUME NEW products \in Seq(Priced), products # <<>>
  PROVE  find_best_match(products) \in Priced
<1> DEFINE named_ == {i \in DOMAIN products : products[i].good = Mine}
<1>1. DOMAIN products = 1..Len(products) /\ Len(products) \in Nat /\ 1 \in DOMAIN products
  OBVIOUS
<1>2. \A i \in DOMAIN products : products[i] \in Priced
  OBVIOUS
<1>3. named_ # {} => (CHOOSE i \in named_ : \A j \in named_ : i <= j) \in named_
  <2>1. named_ \in SUBSET Nat
    BY <1>1
  <2> HIDE DEF named_
  <2> QED BY <2>1, FirstIs
<1>4. \A i \in named_ : i \in DOMAIN products
  OBVIOUS
<1> QED BY <1>1, <1>2, <1>3, <1>4 DEF find_best_match

LEMMA RankIs ==
  ASSUME NEW products \in Seq(Priced)
  PROVE  RankIn(products) \in Nat
<1> DEFINE at == {i \in DOMAIN products : products[i].good = Mine}
<1>1. at \in SUBSET Nat
  <2>1. DOMAIN products = 1..Len(products) /\ Len(products) \in Nat
    OBVIOUS
  <2> QED BY <2>1
<1> DEFINE c == CHOOSE i \in at : \A j \in at : i <= j
<1>2. at # {} => c \in at
  <2> HIDE DEF at
  <2> QED BY <1>1, FirstIs
<1>3. RankIn(products) = IF at = {} THEN 0 ELSE c
  BY DEF RankIn
<1> HIDE DEF at, c
<1>4. CASE at = {}
  BY <1>3, <1>4
<1>5. CASE at # {}
  <2>1. RankIn(products) = c /\ c \in at
    BY <1>2, <1>3, <1>5
  <2> QED BY <1>1, <2>1
<1> QED BY <1>4, <1>5

\* A change rounds to -50 tenths of a percent, or to less, from -4.95 percent on.
LEMMA RoundsTo ==
  ASSUME NEW first \in Nat \ {0}, NEW last \in Nat
  PROVE  ((2 * 1000 * (last - first) + first) \div (2 * first) <= -50) <=> 2 * 1000 * (first - last) > 99 * first
<1> DEFINE x == 2 * 1000 * (last - first) + first
           d == 2 * first
           q == x \div d
           r == x % d
<1>1. x \in Int /\ d \in Nat \ {0}
  OBVIOUS
<1>2. q \in Int /\ r \in 0..(d - 1) /\ x = d * q + r
  <2> HIDE DEF x, d
  <2> QED BY <1>1
<1>3. x < -49 * d <=> 2 * 1000 * (first - last) > 99 * first
  OBVIOUS
<1> HIDE DEF x, d, q, r
<1>4. ASSUME q <= -50 PROVE x < -49 * d
  <2>1. d * q <= d * (-50)
    BY <1>1, <1>2, <1>4
  <2> QED BY <1>1, <1>2, <2>1
<1>5. ASSUME ~(q <= -50) PROVE ~(x < -49 * d)
  <2>1. d * q >= d * (-49)
    BY <1>1, <1>2, <1>5
  <2> QED BY <1>1, <1>2, <2>1
<1> QED BY <1>3, <1>4, <1>5 DEF q, x, d

Finding == [day : Nat, offers : {{}}, good : Titles, price : Nat \ {0}, rank : Nat]
RowOf(find) == [product_id |-> find.good, price |-> find.price, at |-> find.day]
\* The snapshots are of what the runs found.
Mirrors(shots, finds) ==
  /\ shots \in Seq([product_id : Titles, price : Nat \ {0}, at : Nat]) /\ Len(shots) = Len(finds)
  /\ \A i \in 1..Len(finds) : shots[i] = RowOf(finds[i])
\* The places of a good in the window before today.
Window(finds, good) == {i \in DOMAIN finds : finds[i].good = good /\ finds[i].day >= day - WindowDays}

\* The trend falls far enough if and only if the oldest price in the window does.
LEMMA TrendFalls ==
  ASSUME NEW finds \in Seq(Finding), NEW shots, Mirrors(shots, finds), NEW good \in Titles,
         NEW price \in Nat \ {0}, day \in Nat
  PROVE  LET all == Append(shots, [product_id |-> good, price |-> price, at |-> day]) IN
         calc_trend(all, get_price_history(good, all)) <= -50 <=>
           \E i \in Window(finds, good) :
             (\A j \in 1..(i - 1) : j \notin Window(finds, good))
             /\ 2 * 1000 * (finds[i].price - price) > 99 * finds[i].price
<1> DEFINE n == Len(finds)
           new == [product_id |-> good, price |-> price, at |-> day]
           all == Append(shots, new)
           same == Window(finds, good)
           h == get_price_history(good, all)
<1>1. /\ n \in Nat /\ DOMAIN finds = 1..n /\ DOMAIN all = 1..(n + 1) /\ all[n + 1] = new
      /\ \A i \in 1..n : all[i] = RowOf(finds[i]) /\ finds[i] \in Finding
  <2>1. n \in Nat /\ DOMAIN finds = 1..n /\ \A i \in 1..n : finds[i] \in Finding
    OBVIOUS
  <2>2. shots \in Seq([product_id : Titles, price : Nat \ {0}, at : Nat]) /\ Len(shots) = n
    BY DEF Mirrors
  <2>3. new \in [product_id : Titles, price : Nat \ {0}, at : Nat]
    OBVIOUS
  <2> HIDE DEF new, n
  <2>4. DOMAIN all = 1..(n + 1) /\ all[n + 1] = new /\ \A i \in 1..n : all[i] = shots[i]
    BY <2>1, <2>2, <2>3, AppendProperties
  <2>5. \A i \in 1..n : shots[i] = RowOf(finds[i])
    BY DEF Mirrors, n
  <2> QED BY <2>1, <2>4, <2>5
<1>2. new.product_id = good /\ new.price = price /\ new.at = day
  OBVIOUS
<1>3. WindowDays \in Nat
  BY MonitorsAssumption
<1> HIDE DEF n, all, new
<1>4. n + 1 \in h /\ h = same \cup {n + 1} /\ same \subseteq 1..n
  <2>1. all[n + 1].product_id = good /\ all[n + 1].at >= day - WindowDays
    BY <1>1, <1>3, <1>2
  <2>2. \A i \in 1..n : all[i].product_id = finds[i].good /\ all[i].at = finds[i].day
    <3> TAKE i \in 1..n
    <3>1. all[i] = RowOf(finds[i])
      BY <1>1
    <3> QED BY <3>1 DEF RowOf
  <2>3. 1..(n + 1) = (1..n) \cup {n + 1}
    BY <1>1
  <2> QED BY <1>1, <2>1, <2>2, <2>3 DEF get_price_history, Window
<1> HIDE DEF h, same
<1>5. Max(h) = n + 1
  <2>1. Max(h) \in h /\ n + 1 <= Max(h)
    <3>1. h \subseteq 1..(n + 1) /\ h # {} /\ n + 1 \in Nat
      BY <1>1, <1>4
    <3> QED BY <1>4, <3>1, MaxIs
  <2>2. Max(h) \in 1..(n + 1)
    <3>1. \A x \in h : x \in 1..(n + 1)
      BY <1>1, <1>4
    <3> QED BY <2>1, <3>1
  <2> QED BY <1>1, <2>1, <2>2
<1>6. IsFiniteSet(same) /\ Cardinality(same) \in Nat /\ Cardinality(h) = Cardinality(same) + 1
  <2>1. IsFiniteSet(1..n)
    BY <1>1, FS_Interval
  <2>2. IsFiniteSet(same) /\ n + 1 \notin same
    <3>1. IsFiniteSet(same)
      BY <1>4, <2>1, FS_Subset
    <3>2. n + 1 \notin 1..n
      BY <1>1
    <3> QED BY <1>4, <3>1, <3>2
  <2> QED BY <1>4, <2>2, FS_AddElement, FS_CardinalityType
<1>7. CASE same = {}
  <2>1. Cardinality(h) = 1
    BY <1>6, <1>7, FS_EmptySet
  <2>2. calc_trend(all, h) = 0
    BY <2>1 DEF calc_trend
  <2> QED BY <1>7, <2>2 DEF h, all, same, new
<1>8. CASE same # {}
  <2>1. PICK f \in same : \A j \in same : f <= j
    <3>1. same \in SUBSET Nat
      BY <1>1, <1>4
    <3> QED BY <1>8, <3>1, SmallestOne
  <2>2. f \in 1..n
    BY <1>4, <2>1
  <2>3. Min(h) = f
    <3>1. f \in h /\ \A j \in h : f <= j
      BY <1>1, <1>4, <2>1, <2>2
    <3>2. \A j \in h : j \in Nat
      BY <1>1, <1>4
    <3>3. Min(h) \in h /\ \A j \in h : Min(h) <= j
      BY <3>1 DEF Min
    <3> QED BY <3>1, <3>2, <3>3
  <2>4. ~(Cardinality(h) < 2)
    <3>1. Cardinality(same) # 0
      BY <1>6, <1>8, FS_EmptySet
    <3> QED BY <1>6, <3>1
  <2>5. all[f].price = finds[f].price /\ all[n + 1].price = price /\ finds[f].price \in Nat \ {0}
    <3>1. all[f] = RowOf(finds[f]) /\ finds[f] \in Finding
      BY <1>1, <2>2
    <3>2. finds[f].price \in Nat \ {0}
      BY <3>1 DEF Finding
    <3> QED BY <1>1, <1>2, <3>1, <3>2 DEF RowOf
  <2> DEFINE first == finds[f].price
  <2>6. first \in Nat \ {0} /\ all[f].price = first /\ all[n + 1].price = price
    BY <2>5
  <2> HIDE DEF first
  <2>7. calc_trend(all, h) = (2 * 1000 * (price - first) + first) \div (2 * first)
    BY <1>5, <2>3, <2>4, <2>6 DEF calc_trend
  <2>8. calc_trend(all, h) <= -50 <=> 2 * 1000 * (first - price) > 99 * first
    BY <2>6, <2>7, RoundsTo
  <2>9. \A i \in same : (\A j \in 1..(i - 1) : j \notin same) <=> i = f
    <3> TAKE i \in same
    <3>1. i \in 1..n /\ f <= i
      BY <1>4, <2>1
    <3>2. CASE i = f
      BY <1>1, <2>1, <2>2, <3>2
    <3>3. CASE i # f
      <4>1. f \in 1..(i - 1)
        BY <1>1, <2>2, <3>1, <3>3
      <4> QED BY <2>1, <3>3, <4>1
    <3> QED BY <3>2, <3>3
  <2>10. (\E i \in same : (\A j \in 1..(i - 1) : j \notin same)
                          /\ 2 * 1000 * (finds[i].price - price) > 99 * finds[i].price)
        <=> 2 * 1000 * (first - price) > 99 * first
    BY <2>1, <2>9 DEF first
  <2> QED BY <2>8, <2>10 DEF h, all, same, new
<1> QED BY <1>7, <1>8

\* Of the runs so far, what those found that found something.
Findings == IF outcome.found = NothingFound THEN earlier ELSE Append(earlier, outcome.found)
FindsInv ==
  /\ kind \in MonitorKinds \cup {"agent"} /\ day \in Nat /\ target \in Int
  /\ Compared => earlier \in Seq(Finding) /\ outcome.found \in Finding \cup {NothingFound}
  /\ kind = "price" => Mirrors(snapshots, Findings)
  /\ kind = "rank" => lastRank = IF Findings = <<>> THEN 0 ELSE Last(Findings).rank

LEMMA IssueKeeps ==
  ASSUME InboxInv, NEW notice \in NoticeTypes \cup {"none"}, Issue(notice)
  PROVE  InboxInv'
<1> DEFINE new == Notice("task", notice)
           m == IF Len(inbox) < MAX_EVENTS THEN Len(inbox) + 1 ELSE MAX_EVENTS
           long == <<new>> \o inbox
<1>1. CASE notice = "none"
  <2>1. UNCHANGED <<inbox, issued>>
    BY <1>1 DEF Issue, noticeVars
  <2> QED BY <2>1 DEF InboxInv, NewestFirst
<1>2. CASE notice # "none"
  <2>1. new.id = issued + 1 /\ new \in TaskNotice
    BY <1>2 DEF Notice, TaskNotice, InboxInv
  <2>2. CASE emit_fails(new)
    <3>1. inbox' = inbox /\ issued' = issued + 1
      BY <2>1, <2>2 DEF emit_fails
    <3>2. \A i \in DOMAIN inbox : inbox[i].id <= issued + 1
      <4> TAKE i \in DOMAIN inbox
      <4>1. inbox[i].id \in Nat /\ inbox[i].id <= issued /\ issued \in Nat
        <5>1. inbox[i] \in TaskNotice
          BY DEF InboxInv
        <5> QED BY <5>1 DEF InboxInv, TaskNotice
      <4> QED BY <4>1
    <3> QED BY <3>1, <3>2 DEF InboxInv, NewestFirst
  <2>3. CASE emit(new)
    <3> DEFINE n == Len(inbox)
    <3>1. inbox' = SubSeq(long, 1, m) /\ issued' = issued + 1
      BY <2>1, <2>3 DEF emit
    <3>2. n \in Nat /\ DOMAIN inbox = 1..n /\ issued \in Nat /\ \A i \in 1..n : inbox[i] \in TaskNotice
      BY DEF InboxInv
    <3>3. m \in Nat /\ 1 <= m /\ m <= n + 1
      BY <3>2, NoticesAssumption
    <3>4. long \in Seq(TaskNotice) /\ Len(long) = n + 1 /\ long[1] = new /\ \A i \in 1..n : long[i + 1] = inbox[i]
      <4>1. inbox \in Seq(TaskNotice)
        BY DEF InboxInv
      <4> HIDE DEF new
      <4> QED BY <2>1, <3>2, <4>1
    <3> HIDE DEF new, m, long, n
    <3>5. /\ inbox' \in Seq(TaskNotice) /\ Len(inbox') = m /\ DOMAIN inbox' = 1..m
          /\ \A i \in 1..m : inbox'[i] = long[i]
      BY <3>1, <3>3, <3>4, SubSeqProperties
    <3>6. inbox'[1] = new
      BY <3>3, <3>4, <3>5
    <3>7. \A i \in 2..m : i - 1 \in 1..n /\ inbox'[i] = inbox[i - 1]
      <4> TAKE i \in 2..m
      <4>1. i - 1 \in 1..n /\ i \in 1..m /\ (i - 1) + 1 = i
        BY <3>2, <3>3
      <4> QED BY <3>4, <3>5, <4>1
    <3>8. \A i \in 1..n : inbox[i].id \in Nat /\ inbox[i].id <= issued
      BY <3>2 DEF InboxInv, TaskNotice
    <3>9. \A i \in 1..m : inbox'[i].id <= issued + 1
      <4> TAKE i \in 1..m
      <4>1. CASE i = 1
        BY <2>1, <3>2, <3>6, <4>1
      <4>2. CASE i # 1
        <5>1. i \in 2..m
          BY <3>3, <4>2
        <5>2. inbox'[i] = inbox[i - 1] /\ inbox[i - 1].id \in Nat /\ inbox[i - 1].id <= issued
          BY <3>7, <3>8, <5>1
        <5> QED BY <3>2, <5>2
      <4> QED BY <4>1, <4>2
    <3>10. \A i, j \in 1..m : i < j => inbox'[i].id > inbox'[j].id
      <4> SUFFICES ASSUME NEW i \in 1..m, NEW j \in 1..m, i < j PROVE inbox'[i].id > inbox'[j].id
        OBVIOUS
      <4>1. j \in 2..m /\ i \in Nat
        BY <3>3
      <4>2. j - 1 \in 1..n /\ inbox'[j] = inbox[j - 1] /\ inbox[j - 1].id \in Nat /\ inbox[j - 1].id <= issued
        BY <3>7, <3>8, <4>1
      <4>3. CASE i = 1
        BY <2>1, <3>2, <3>6, <4>2, <4>3
      <4>4. CASE i # 1
        <5>1. i \in 2..m
          BY <3>3, <4>4
        <5>2. i - 1 \in 1..n /\ inbox'[i] = inbox[i - 1] /\ i - 1 < j - 1
          BY <3>7, <4>1, <5>1
        <5>3. inbox[i - 1].id > inbox[j - 1].id
          BY <3>2, <4>2, <5>2 DEF InboxInv, NewestFirst
        <5> QED BY <4>2, <5>2, <5>3
      <4> QED BY <4>3, <4>4
    <3>11. issued + 1 \in Nat
      BY <3>2
    <3> QED BY <3>1, <3>5, <3>9, <3>10, <3>11 DEF InboxInv, NewestFirst
  <2> QED BY <1>2, <2>2, <2>3 DEF Issue
<1> QED BY <1>1, <1>2

\* A run that found something.
Hit(products) == named /\ products # <<>>
HitFinding(products) ==
  [day |-> day, offers |-> IF Compared THEN {} ELSE {products[i] : i \in DOMAIN products},
   good |-> find_best_match(products).good, price |-> find_best_match(products).price, rank |-> RankIn(products)]

LEMMA FoundIs ==
  ASSUME FindsInv, NEW products \in Seq(Priced)
  PROVE  /\ ~Hit(products) => Found(products) = NothingFound
         /\ Hit(products) => /\ Found(products) = HitFinding(products) /\ Found(products) # NothingFound
                             /\ Found(products).good \in Titles /\ Found(products).price \in Nat \ {0}
                             /\ Compared => Found(products) \in Finding
<1>1. ASSUME ~Hit(products) PROVE Found(products) = NothingFound
  BY <1>1 DEF Hit, Found
<1>2. ASSUME Hit(products)
      PROVE  /\ Found(products) = HitFinding(products) /\ Found(products) # NothingFound
             /\ Found(products).good \in Titles /\ Found(products).price \in Nat \ {0}
             /\ Compared => Found(products) \in Finding
  <2> DEFINE best == find_best_match(products)
  <2>1. Found(products) = HitFinding(products)
    BY <1>2 DEF Hit, Found, HitFinding
  <2>2. best \in Priced
    BY <1>2, BestIs DEF Hit
  <2>3. best.good \in Titles /\ best.price \in Nat \ {0}
    BY <2>2 DEF Priced, AnOffer
  <2> HIDE DEF best
  <2>4. HitFinding(products).good = best.good /\ HitFinding(products).price = best.price
    BY DEF HitFinding, best
  <2>5. HitFinding(products) # NothingFound
    <3>1. NothingFound.good = 0 /\ 0 \notin Titles
      BY DEF NothingFound, Titles, Mine
    <3> QED BY <2>3, <2>4, <3>1
  <2>6. ASSUME Compared PROVE HitFinding(products) \in Finding
    <3>1. RankIn(products) \in Nat /\ day \in Nat
      BY RankIs DEF FindsInv
    <3> QED BY <2>3, <2>6, <3>1 DEF HitFinding, Finding, best
  <2> QED BY <2>1, <2>3, <2>4, <2>5, <2>6
<1> QED BY <1>1, <1>2

\* What a run that returned says.
Returned == {"ok", "no_promotion", "no_coupon"}

\* Of a result that is no failure there is a notice if it is due.
LEMMA ToldIfDue ==
  ASSUME kind \in MonitorKinds, NEW result, result.status \in Returned, result.status # "ok" => ~result.due
  PROVE  /\ (from_task_result(result) # "none") <=> (result.due = TRUE)
         /\ from_task_result(result) \in NoticeTypes \cup {"none"}
<1>1. EventType[kind] \in NoticeTypes /\ EventType[kind] # "none"
  BY DEF EventType, NoticeTypes, MonitorKinds
<1>2. result.status \notin {"error", "failed"}
  BY DEF Returned
<1>3. from_task_result(result) = IF result.status = "ok" /\ result.due THEN EventType[kind] ELSE "none"
  BY <1>2 DEF from_task_result
<1> QED BY <1>1, <1>3

\* A result says that it is due if and only if what the task waits for is there.
TellsIfDue(result, due) ==
  /\ result.due \in BOOLEAN /\ result.status \in Returned \cup {"raises"}
  /\ result.status \in {"no_promotion", "no_coupon"} => ~result.due
  /\ result.status \in Returned => (result.due <=> due)

LEMMA OkIfDue ==
  ASSUME NEW w \in BOOLEAN, NEW due, w <=> due
  PROVE  TellsIfDue([status |-> "ok", due |-> w], due)
<1> DEFINE res == [status |-> "ok", due |-> w]
<1>1. res.status = "ok" /\ res.due = w
  OBVIOUS
<1> HIDE DEF res
<1>2. res.due \in BOOLEAN /\ (res.due <=> due)
  BY <1>1
<1>3. res.status \in Returned \cup {"raises"} /\ res.status \notin {"no_promotion", "no_coupon"}
  BY <1>1 DEF Returned
<1>4. TellsIfDue(res, due)
  BY <1>2, <1>3, Zenon DEF TellsIfDue
<1> QED BY <1>4 DEF res

LEMMA OffersAre ==
  ASSUME NEW products \in Seq(Priced)
  PROVE  \A i \in DOMAIN products :
           /\ products[i].good \in Titles /\ products[i].price \in Nat /\ products[i].original \in Nat
           /\ products[i].promo.end \in Nat /\ products[i].promo.face \in Int /\ products[i].promo.coupon \in BOOLEAN
<1> TAKE i \in DOMAIN products
<1>1. products[i] \in AnOffer
  BY DEF Priced
<1>2. products[i].promo \in Promos
  BY <1>1 DEF AnOffer
<1> QED BY <1>1, <1>2 DEF AnOffer, Promos

LEMMA DealDue ==
  ASSUME FindsInv, kind = "deal", kind' = kind, NEW products \in Seq(Priced), NEW now, now = HitFinding(products)
  PROVE  TellsIfDue(deal_result(products), IsDue(now)')
<1> DEFINE ends == {products[i].promo.end : i \in DOMAIN products} \ 0..day
<1>1. now.day = day /\ now.offers = {products[i] : i \in DOMAIN products} /\ day \in Nat /\ SoonDays \in Nat
  BY MonitorsAssumption DEF HitFinding, Compared, FindsInv
<1>2. IsDue(now)' <=> \E i \in DOMAIN products : products[i].promo.end \in (day + 1)..(day + SoonDays)
  BY <1>1 DEF IsDue
<1>3. \A i \in DOMAIN products : products[i].promo.end \in Nat
  BY OffersAre
<1>4. (\E i \in DOMAIN products : products[i].promo.end \in (day + 1)..(day + SoonDays))
        <=> \E e \in ends : e - day <= SoonDays
  <2>1. ASSUME NEW i \in DOMAIN products
        PROVE  products[i].promo.end \in (day + 1)..(day + SoonDays) <=>
                 products[i].promo.end \notin 0..day /\ products[i].promo.end - day <= SoonDays
    <3>1. products[i].promo.end \in Nat
      BY <1>3
    <3> QED BY <1>1, <3>1
  <2> QED BY <2>1
<1>5. CASE ends = {}
  <2>1. deal_result(products) = [status |-> "no_promotion", due |-> FALSE]
    BY <1>5 DEF deal_result
  <2> HIDE DEF ends
  <2> QED BY <1>2, <1>4, <1>5, <2>1 DEF TellsIfDue, Returned
<1>6. CASE ends # {}
  <2>1. deal_result(products) = [status |-> "ok", due |-> \E e \in ends : e - day <= SoonDays]
    BY <1>6 DEF deal_result
  <2> HIDE DEF ends
  <2> QED BY <1>2, <1>4, <2>1 DEF TellsIfDue, Returned
<1> QED BY <1>5, <1>6

LEMMA CouponDue ==
  ASSUME FindsInv, kind = "coupon", kind' = kind, NEW products \in Seq(Priced), NEW now, now = HitFinding(products)
  PROVE  TellsIfDue(coupon_result(products), IsDue(now)')
<1> DEFINE coupons == {i \in DOMAIN products : /\ products[i].promo.coupon
                                               /\ products[i].promo.face > 0 /\ products[i].promo.face >= MinFace}
<1>1. now.offers = {products[i] : i \in DOMAIN products}
  BY DEF HitFinding, Compared
<1>2. IsDue(now)' <=> coupons # {}
  BY <1>1 DEF IsDue
<1>3. coupon_result(products) =
        IF coupons = {} THEN [status |-> "no_coupon", due |-> FALSE] ELSE [status |-> "ok", due |-> TRUE]
  BY DEF coupon_result
<1> HIDE DEF coupons
<1> QED BY <1>2, <1>3 DEF TellsIfDue, Returned

LEMMA ShopDue ==
  ASSUME FindsInv, kind = "shop", kind' = kind, NEW products \in Seq(Priced), NEW now, now = HitFinding(products)
  PROVE  TellsIfDue(shop_result(products), IsDue(now)')
<1> DEFINE offers == {products[i] : i \in {j \in DOMAIN products : products[j].good = Mine}}
           deep == {o \in offers : o.original > 0 /\ 10 * (o.original - o.price) > 3 * o.original}
<1>1. now.offers = {products[i] : i \in DOMAIN products}
  BY DEF HitFinding, Compared
<1>2. IsDue(now)' <=> \E i \in DOMAIN products :
        products[i].good = Mine /\ products[i].original # 0 /\ 10 * products[i].price < 7 * products[i].original
  BY <1>1 DEF IsDue
<1>3. ASSUME NEW i \in DOMAIN products
      PROVE  products[i].original # 0 /\ 10 * products[i].price < 7 * products[i].original <=>
               products[i].original > 0 /\ 10 * (products[i].original - products[i].price) > 3 * products[i].original
  <2>1. products[i].original \in Nat /\ products[i].price \in Nat
    BY OffersAre
  <2> QED BY <2>1
<1>4. IsDue(now)' <=> deep # {}
  BY <1>2, <1>3
<1>5. shop_result(products) = IF \E o \in offers : coupon_amount(o) = 0 THEN [status |-> "raises", due |-> FALSE]
                              ELSE [status |-> "ok", due |-> deep # {}]
  BY DEF shop_result
<1> DEFINE w == deep # {}
<1>6. w \in BOOLEAN /\ (w <=> IsDue(now)')
  BY <1>4
<1> HIDE DEF offers, deep, w
<1>7. CASE \E o \in offers : coupon_amount(o) = 0
  <2>1. shop_result(products) = [status |-> "raises", due |-> FALSE]
    BY <1>5, <1>7
  <2> QED BY <2>1 DEF TellsIfDue, Returned
<1>8. CASE ~\E o \in offers : coupon_amount(o) = 0
  <2>1. shop_result(products) = [status |-> "ok", due |-> w]
    BY <1>5, <1>8 DEF w
  <2> QED BY <1>6, <2>1, OkIfDue
<1> QED BY <1>7, <1>8

LEMMA RankDue ==
  ASSUME FindsInv, kind = "rank", kind' = kind, earlier' = Findings,
         NEW products \in Seq(Priced), NEW now, now = HitFinding(products)
  PROVE  TellsIfDue(rank_result(RankIn(products)), IsDue(now)')
<1> DEFINE r == RankIn(products)
<1>1. now.rank = r /\ r \in Nat
  BY RankIs DEF HitFinding
<1>2. Findings \in Seq(Finding)
  BY AppendProperties DEF FindsInv, Compared, Findings
<1>3. lastRank = IF Findings = <<>> THEN 0 ELSE Last(Findings).rank
  BY DEF FindsInv
<1>4. Findings # <<>> => Last(Findings).rank \in Nat
  <2>1. Findings # <<>> => Last(Findings) \in Finding
    BY <1>2 DEF Last
  <2> QED BY <2>1 DEF Finding
<1>5. IsDue(now)' <=> /\ Findings # <<>> /\ Last(Findings).rank > 0
                      /\ r = 0 \/ r - Last(Findings).rank \notin -2..2
  BY <1>1 DEF IsDue
<1>6. IsDue(now)' <=> lastRank # 0 /\ (r = 0 \/ lastRank - r >= 3 \/ r - lastRank >= 3)
  <2>1. CASE Findings = <<>>
    BY <1>3, <1>5, <2>1
  <2>2. CASE Findings # <<>>
    <3>1. lastRank = Last(Findings).rank /\ lastRank \in Nat
      BY <1>3, <1>4, <2>2
    <3>2. lastRank > 0 <=> lastRank # 0
      BY <3>1
    <3>3. r - lastRank \notin -2..2 <=> lastRank - r >= 3 \/ r - lastRank >= 3
      BY <1>1, <3>1
    <3> QED BY <1>5, <2>2, <3>1, <3>2, <3>3
  <2> QED BY <2>1, <2>2
<1> DEFINE w == lastRank # 0 /\ (r = 0 \/ lastRank - r >= 3 \/ r - lastRank >= 3)
<1> HIDE DEF r
<1>7. rank_result(r) = [status |-> "ok", due |-> w]
  BY DEF rank_result
<1>8. w \in BOOLEAN /\ (w <=> IsDue(now)')
  BY <1>6
<1> HIDE DEF w
<1>9. TellsIfDue(rank_result(r), IsDue(now)')
  BY <1>7, <1>8, OkIfDue
<1> QED BY <1>9 DEF r

LEMMA PriceDue ==
  ASSUME FindsInv, kind = "price", kind' = kind, target' = target, earlier' = Findings,
         NEW products \in Seq(Priced), products # <<>>, NEW now, now = HitFinding(products)
  PROVE  LET rows == Append(snapshots, [product_id |-> stable_id(now.good), price |-> now.price, at |-> day])
         IN  TellsIfDue(price_result(products, rows), IsDue(now)')
<1> DEFINE best == find_best_match(products)
           all == Append(snapshots, [product_id |-> best.good, price |-> best.price, at |-> day])
           falls == \E i \in Window(Findings, best.good) :
                      (\A j \in 1..(i - 1) : j \notin Window(Findings, best.good))
                      /\ 2 * 1000 * (Findings[i].price - best.price) > 99 * Findings[i].price
           reached == target # 0 /\ best.price <= target
           trend == calc_trend(all, get_price_history(best.good, all))
<1>1. now.good = best.good /\ now.price = best.price /\ now.day = day
  BY DEF HitFinding
<1>2. best.good \in Titles /\ best.price \in Nat \ {0}
  <2>1. best \in Priced
    BY BestIs
  <2> HIDE DEF best
  <2> QED BY <2>1 DEF Priced, AnOffer
<1>3. Findings \in Seq(Finding) /\ Mirrors(snapshots, Findings) /\ day \in Nat
  BY AppendProperties DEF FindsInv, Compared, Findings
<1> HIDE DEF best
<1>4. trend <= -50 <=> falls
  <2>1. calc_trend(all, get_price_history(best.good, all)) <= -50 <=> falls
    <3> DEFINE good == best.good
               price == best.price
    <3>1. good \in Titles /\ price \in Nat \ {0}
      BY <1>2
    <3> HIDE DEF good, price
    <3>2. LET all_ == Append(snapshots, [product_id |-> good, price |-> price, at |-> day]) IN
          calc_trend(all_, get_price_history(good, all_)) <= -50 <=>
            \E i \in Window(Findings, good) :
              (\A j \in 1..(i - 1) : j \notin Window(Findings, good))
              /\ 2 * 1000 * (Findings[i].price - price) > 99 * Findings[i].price
      BY <1>3, <3>1, TrendFalls
    <3> QED BY <3>2 DEF good, price
  <2> QED BY <2>1
<1>5. IsDue(now)' <=> reached \/ falls
  <2> DEFINE Due == reached \/ \E i \in DOMAIN Findings :
                       /\ SameGood(i, now)' /\ \A j \in 1..(i - 1) : ~SameGood(j, now)'
                       /\ 2 * 1000 * (Findings[i].price - best.price) > 99 * Findings[i].price
  <2>1. IsDue(now)' <=> Due
    BY <1>1 DEF IsDue
  <2>2. Len(Findings) \in Nat /\ DOMAIN Findings = 1..Len(Findings)
    BY <1>3
  <2>3. \A i : SameGood(i, now)' <=> Findings[i].good = best.good /\ Findings[i].day >= day - WindowDays
    BY <1>1 DEF SameGood
  <2>4. \A i \in DOMAIN Findings : i \in Window(Findings, best.good) <=> SameGood(i, now)'
    BY <2>3 DEF Window
  <2>5. \A i \in DOMAIN Findings : \A j \in 1..(i - 1) : j \in DOMAIN Findings
    BY <2>2
  <2>6. Window(Findings, best.good) \subseteq DOMAIN Findings
    BY DEF Window
  <2> QED BY <2>1, <2>4, <2>5, <2>6
<1> DEFINE w == reached \/ trend <= -50
<1>6. price_result(products, all) = [status |-> "ok", due |-> w]
  BY DEF price_result, stable_id, best
<1> HIDE DEF falls, trend
<1>7. w \in BOOLEAN /\ (w <=> IsDue(now)')
  BY <1>4, <1>5
<1> HIDE DEF w, all
<1>8. TellsIfDue(price_result(products, all), IsDue(now)')
  BY <1>6, <1>7, OkIfDue
<1> QED BY <1>1, <1>8 DEF stable_id, all

MonitorsInv == InboxInv /\ FindsInv /\ NoticesAreDue

\* A run of a monitor, with what it found and what it returned.
Runs(products, found, rows, result) ==
  /\ products \in Seq(Priced) /\ found = Found(products) /\ result = result_of(products, rows)
  /\ rows = IF kind = "price" /\ found # NothingFound
              THEN Append(snapshots, [product_id |-> stable_id(found.good), price |-> found.price, at |-> day])
              ELSE snapshots
  /\ snapshots' = rows
  /\ lastRank' = IF kind = "rank" /\ found # NothingFound THEN found.rank ELSE lastRank
  /\ outcome' = [found |-> found, status |-> result.status, notice |-> from_task_result(result)]
  /\ earlier' = IF Compared /\ outcome.found # NothingFound THEN Append(earlier, outcome.found) ELSE earlier
  /\ Issue(from_task_result(result))

LEMMA CheckRuns ==
  ASSUME FindsInv, Check
  PROVE  /\ kind \in MonitorKinds /\ UNCHANGED <<kind, named, target, day>>
         /\ \E products, found, rows, result : Runs(products, found, rows, result)
<1>1. kind \in MonitorKinds /\ UNCHANGED <<kind, named, target, day>>
  BY DEF Check, FindsInv
<1> DEFINE products(raw) == parse_search_result(raw)
           found(raw) == Found(products(raw))
           rows(raw) == IF kind = "price" /\ found(raw) # NothingFound
              THEN Append(snapshots, [product_id |-> stable_id(found(raw).good), price |-> found(raw).price, at |-> day])
              ELSE snapshots
           result(raw) == result_of(products(raw), rows(raw))
<1>2. PICK raw \in Searches :
        /\ snapshots' = rows(raw)
        /\ lastRank' = IF kind = "rank" /\ found(raw) # NothingFound THEN found(raw).rank ELSE lastRank
        /\ outcome' = [found |-> found(raw), status |-> result(raw).status, notice |-> from_task_result(result(raw))]
        /\ earlier' = IF Compared /\ outcome.found # NothingFound THEN Append(earlier, outcome.found) ELSE earlier
        /\ Issue(from_task_result(result(raw)))
  BY DEF Check
<1>3. products(raw) \in Seq(Priced)
  BY <1>1, SearchFinds, ParsedArePriced
<1>4. Runs(products(raw), found(raw), rows(raw), result(raw))
  <2> HIDE DEF products
  <2> QED BY <1>2, <1>3 DEF Runs
<1> QED BY <1>1, <1>4

\* What a result of a monitor is.
LEMMA ResultIs ==
  ASSUME FindsInv, kind \in MonitorKinds, kind' = kind, target' = target,
         NEW products, NEW found, NEW rows, NEW result, Runs(products, found, rows, result)
  PROVE  /\ result.status \in Returned \cup {"raises", "error", "no_results"}
         /\ result.status \in Returned =>
              Hit(products) /\ ((from_task_result(result) # "none") <=> IsDue(found)')
         /\ from_task_result(result) \in NoticeTypes \cup {"none"}
<1>1. products \in Seq(Priced) /\ found = Found(products) /\ result = result_of(products, rows)
  BY DEF Runs
<1>2. CASE ~named
  <2>1. result = [status |-> "error", due |-> FALSE]
    BY <1>1, <1>2 DEF result_of
  <2> QED BY <2>1 DEF from_task_result, NoticeTypes, Returned
<1>3. CASE named /\ products = <<>>
  <2>1. result = [status |-> "no_results", due |-> FALSE]
    BY <1>1, <1>3 DEF result_of
  <2> QED BY <2>1 DEF from_task_result, NoticeTypes, Returned
<1>4. CASE named /\ products # <<>>
  <2>1. Hit(products) /\ found = HitFinding(products) /\ found # NothingFound
    BY <1>1, <1>4, FoundIs DEF Hit
  <2>2. TellsIfDue(result, IsDue(found)')
    <3>1. CASE kind = "price"
      <4>1. earlier' = Findings
        BY <3>1 DEF Runs, Findings, Compared
      <4>2. rows = Append(snapshots, [product_id |-> stable_id(found.good), price |-> found.price, at |-> day])
        BY <2>1, <3>1 DEF Runs
      <4>3. result = price_result(products, rows)
        BY <1>1, <1>4, <3>1 DEF result_of
      <4> QED BY <1>1, <1>4, <2>1, <3>1, <4>1, <4>2, <4>3, PriceDue
    <3>2. CASE kind = "deal"
      <4>1. result = deal_result(products)
        BY <1>1, <1>4, <3>2 DEF result_of
      <4> QED BY <1>1, <2>1, <3>2, <4>1, DealDue
    <3>3. CASE kind = "coupon"
      <4>1. result = coupon_result(products)
        BY <1>1, <1>4, <3>3 DEF result_of
      <4> QED BY <1>1, <2>1, <3>3, <4>1, CouponDue
    <3>4. CASE kind = "rank"
      <4>1. earlier' = Findings
        BY <3>4 DEF Runs, Findings, Compared
      <4>2. result = rank_result(RankIn(products))
        BY <1>1, <1>4, <3>4 DEF result_of
      <4> QED BY <1>1, <2>1, <3>4, <4>1, <4>2, RankDue
    <3>5. CASE kind = "shop"
      <4>1. result = shop_result(products)
        BY <1>1, <1>4, <3>5 DEF result_of
      <4> QED BY <1>1, <2>1, <3>5, <4>1, ShopDue
    <3> QED BY <3>1, <3>2, <3>3, <3>4, <3>5 DEF MonitorKinds
  <2>3. result.due \in BOOLEAN /\ result.status \in Returned \cup {"raises"}
    BY <2>2 DEF TellsIfDue
  <2>4. CASE result.status \in Returned
    <3>1. result.status # "ok" => ~result.due
      BY <2>2, <2>4 DEF TellsIfDue, Returned
    <3>2. /\ (from_task_result(result) # "none") <=> (result.due = TRUE)
          /\ from_task_result(result) \in NoticeTypes \cup {"none"}
      BY <2>4, <3>1, ToldIfDue
    <3>3. (result.due = TRUE) <=> IsDue(found)'
      BY <2>2, <2>3, <2>4, Zenon DEF TellsIfDue
    <3> QED BY <2>1, <2>4, <3>2, <3>3
  <2>5. CASE result.status \notin Returned
    <3>1. result.status = "raises"
      BY <2>3, <2>5
    <3>2. from_task_result(result) = "none"
      BY <3>1 DEF from_task_result
    <3> QED BY <2>5, <3>1, <3>2
  <2> QED BY <2>4, <2>5
<1> QED BY <1>2, <1>3, <1>4

LEMMA CheckKeeps ==
  ASSUME MonitorsInv, Check
  PROVE  MonitorsInv'
<1>1. kind \in MonitorKinds /\ UNCHANGED <<kind, named, target, day>> /\ FindsInv /\ InboxInv
  BY CheckRuns DEF MonitorsInv
<1>2. PICK products, found, rows, result : Runs(products, found, rows, result)
  BY <1>1, CheckRuns
<1>3. /\ result.status \in Returned =>
           Hit(products) /\ ((from_task_result(result) # "none") <=> IsDue(found)')
      /\ from_task_result(result) \in NoticeTypes \cup {"none"}
  BY <1>1, <1>2, ResultIs
<1>4. InboxInv'
  <2>1. Issue(from_task_result(result))
    BY <1>2 DEF Runs
  <2> QED BY <1>1, <1>3, <2>1, IssueKeeps
<1>5. outcome'.found = found /\ outcome'.status = result.status /\ outcome'.notice = from_task_result(result)
  BY <1>2 DEF Runs
<1>6. NoticesAreDue'
  <2>1. IsDue(outcome.found)' <=> IsDue(found)'
    BY <1>5
  <2>2. ASSUME outcome'.status \in Returned PROVE (outcome'.notice # "none") <=> IsDue(found)'
    <3>1. result.status \in Returned
      BY <1>5, <2>2
    <3>2. (from_task_result(result) # "none") <=> IsDue(found)'
      BY <1>3, <3>1
    <3> QED BY <1>5, <3>2
  <2> QED BY <2>1, <2>2 DEF NoticesAreDue, Returned
<1>7. products \in Seq(Priced) /\ found = Found(products)
  BY <1>2 DEF Runs
<1>8. found # NothingFound => /\ found.good \in Titles /\ found.price \in Nat \ {0}
                              /\ Compared => found \in Finding
  BY <1>1, <1>7, FoundIs
<1>9. ASSUME Compared
      PROVE  /\ earlier' = Findings /\ earlier' \in Seq(Finding) /\ outcome'.found \in Finding \cup {NothingFound}
             /\ Findings' = IF found = NothingFound THEN Findings ELSE Append(Findings, found)
  <2>1. earlier' = Findings
    BY <1>2, <1>9 DEF Runs, Findings
  <2>2. Findings \in Seq(Finding)
    BY <1>1, <1>9, AppendProperties DEF FindsInv, Findings
  <2>3. Findings' = IF found = NothingFound THEN Findings ELSE Append(Findings, found)
    BY <1>5, <2>1 DEF Findings, NothingFound
  <2> QED BY <1>5, <1>8, <1>9, <2>1, <2>2, <2>3
<1>10. ASSUME kind = "price" PROVE Mirrors(snapshots', Findings')
  <2>1. Mirrors(snapshots, Findings) /\ Findings \in Seq(Finding)
    BY <1>1, <1>9, <1>10 DEF FindsInv, Compared
  <2>2. CASE found = NothingFound
    <3>1. Findings' = Findings /\ snapshots' = snapshots
      BY <1>2, <1>9, <1>10, <2>2 DEF Runs, Compared
    <3> QED BY <2>1, <3>1
  <2>3. CASE found # NothingFound
    <3> DEFINE Rows == [product_id : Titles, price : Nat \ {0}, at : Nat]
               new == RowOf(found)
               old == Findings
               shots == snapshots
               n == Len(old)
    <3>1. found = HitFinding(products)
      BY <1>1, <1>7, <2>3, FoundIs
    <3>2. found.day = day /\ found \in Finding
      BY <1>8, <1>10, <2>3, <3>1 DEF HitFinding, Compared
    <3>3. snapshots' = Append(shots, new) /\ Findings' = Append(old, found)
      BY <1>2, <1>9, <1>10, <2>3, <3>2 DEF Runs, RowOf, stable_id, Compared
    <3>4. new \in Rows
      BY <3>2 DEF RowOf, Finding
    <3>5. old \in Seq(Finding) /\ shots \in Seq(Rows) /\ Len(shots) = n /\ n \in Nat
          /\ \A i \in 1..n : shots[i] = RowOf(old[i])
      BY <2>1 DEF Mirrors
    <3> HIDE DEF Rows, new, old, shots, n
    <3>6. /\ Append(shots, new) \in Seq(Rows) /\ Len(Append(shots, new)) = n + 1
          /\ Append(shots, new)[n + 1] = new /\ \A i \in 1..n : Append(shots, new)[i] = shots[i]
      BY <3>4, <3>5, AppendProperties
    <3>7. /\ Append(old, found)[n + 1] = found /\ \A i \in 1..n : Append(old, found)[i] = old[i]
          /\ Len(Append(old, found)) = n + 1
      BY <3>2, <3>5, AppendProperties DEF n
    <3>8. \A i \in 1..(n + 1) : Append(shots, new)[i] = RowOf(Append(old, found)[i])
      <4> TAKE i \in 1..(n + 1)
      <4>1. CASE i = n + 1
        BY <3>6, <3>7, <4>1 DEF new
      <4>2. CASE i # n + 1
        <5>1. i \in 1..n
          BY <3>5, <4>2
        <5> QED BY <3>5, <3>6, <3>7, <5>1
      <4> QED BY <4>1, <4>2
    <3> QED BY <3>3, <3>6, <3>7, <3>8 DEF Mirrors, Rows
  <2> QED BY <2>2, <2>3
<1>11. ASSUME kind = "rank" PROVE lastRank' = IF Findings' = <<>> THEN 0 ELSE Last(Findings').rank
  <2>1. lastRank = IF Findings = <<>> THEN 0 ELSE Last(Findings).rank
    BY <1>1, <1>11 DEF FindsInv
  <2>2. CASE found = NothingFound
    <3>1. Findings' = Findings /\ lastRank' = lastRank
      BY <1>2, <1>9, <1>11, <2>2 DEF Runs, Compared
    <3> QED BY <2>1, <3>1
  <2>3. CASE found # NothingFound
    <3>1. Findings' = Append(Findings, found) /\ lastRank' = found.rank
      BY <1>2, <1>9, <1>11, <2>3 DEF Runs, Compared
    <3>2. Findings \in Seq(Finding) /\ found \in Finding
      BY <1>8, <1>9, <1>11, <2>3 DEF Compared
    <3>3. Append(Findings, found) # <<>> /\ Last(Append(Findings, found)) = found
      BY <3>2, AppendProperties DEF Last
    <3> QED BY <3>1, <3>3
  <2> QED BY <2>2, <2>3
<1>12. FindsInv'
  <2>1. Compared' <=> Compared
    BY <1>1 DEF Compared
  <2> QED BY <1>1, <1>9, <1>10, <1>11, <2>1 DEF FindsInv
<1> QED BY <1>4, <1>6, <1>12 DEF MonitorsInv

\* What was due stays so as long as no run is made.
LEMMA DueStays ==
  ASSUME UNCHANGED <<kind, target, earlier, outcome>>, NoticesAreDue, FindsInv
  PROVE  NoticesAreDue'
<1>1. kind' = kind /\ target' = target /\ earlier' = earlier /\ outcome' = outcome
  OBVIOUS
<1>2. ASSUME NEW now, kind \in MonitorKinds PROVE IsDue(now)' <=> IsDue(now)
  <2>1. CASE kind = "price"
    BY <1>1, <2>1 DEF IsDue, SameGood
  <2>2. CASE kind = "deal"
    BY <1>1, <2>2 DEF IsDue
  <2>3. CASE kind = "coupon"
    BY <1>1, <2>3 DEF IsDue
  <2>4. CASE kind = "rank"
    BY <1>1, <2>4 DEF IsDue
  <2>5. CASE kind = "shop"
    BY <1>1, <2>5 DEF IsDue
  <2> QED BY <1>2, <2>1, <2>2, <2>3, <2>4, <2>5 DEF MonitorKinds
<1>3. CASE kind = "agent"
  BY <1>1, <1>3 DEF NoticesAreDue
<1>4. CASE kind \in MonitorKinds
  <2> DEFINE now == outcome.found
  <2>1. IsDue(outcome.found)' <=> IsDue(now)'
    BY <1>1
  <2> QED BY <1>1, <1>2, <1>4, <2>1 DEF NoticesAreDue
<1> QED BY <1>3, <1>4 DEF FindsInv

LEMMA MonitorStepKeeps ==
  ASSUME MonitorsInv, [MonitorsNext]_<<noticeVars, monitorVars>>
  PROVE  MonitorsInv'
<1>1. CASE Check
  BY <1>1, CheckKeeps
<1>2. CASE AgentTask
  <2>1. PICK status \in {"ok", "failed", "error"} :
          LET notice == from_task_result([status |-> status, due |-> TRUE]) IN
          outcome' = [found |-> NothingFound, status |-> status, notice |-> notice] /\ Issue(notice)
    BY <1>2 DEF AgentTask
  <2>2. kind = "agent" /\ UNCHANGED <<kind, named, target, day, snapshots, lastRank, earlier>>
    BY <1>2 DEF AgentTask
  <2>3. from_task_result([status |-> status, due |-> TRUE]) \in NoticeTypes \cup {"none"}
    <3>1. from_task_result([status |-> status, due |-> TRUE]) \in {"review", EventType[kind], "none"}
      BY DEF from_task_result
    <3>2. EventType[kind] = "decide"
      BY <2>2 DEF EventType
    <3> QED BY <3>1, <3>2 DEF NoticeTypes
  <2>4. InboxInv'
    BY <2>1, <2>3, IssueKeeps DEF MonitorsInv
  <2>5. FindsInv' /\ NoticesAreDue'
    BY <2>2 DEF MonitorsInv, FindsInv, NoticesAreDue, Compared
  <2> QED BY <2>4, <2>5 DEF MonitorsInv
<1>3. CASE DayPasses
  <2>1. UNCHANGED <<noticeVars, kind, named, target, snapshots, lastRank, outcome, earlier>> /\ day' = day + 1
    BY <1>3 DEF DayPasses
  <2>2. InboxInv'
    BY <2>1 DEF MonitorsInv, InboxInv, NewestFirst, noticeVars
  <2>3. NoticesAreDue'
    BY <2>1, DueStays DEF MonitorsInv
  <2>4. FindsInv'
    <3>1. UNCHANGED <<Findings, Compared>> /\ day' \in Nat
      BY <2>1 DEF Findings, Compared, MonitorsInv, FindsInv
    <3> QED BY <2>1, <3>1 DEF MonitorsInv, FindsInv
  <2> QED BY <2>2, <2>3, <2>4 DEF MonitorsInv
<1>4. CASE Restarts
  <2>1. /\ UNCHANGED <<noticeVars, kind, named, target, day, snapshots>> /\ kind = "rank"
        /\ lastRank' = 0 /\ outcome' = NoOutcome /\ earlier' = <<>>
    BY <1>4 DEF Restarts
  <2>2. InboxInv'
    BY <2>1 DEF MonitorsInv, InboxInv, NewestFirst, noticeVars
  <2>3. NoticesAreDue' /\ Findings' = <<>>
    BY <2>1 DEF NoticesAreDue, NoOutcome, Findings
  <2>4. FindsInv'
    <3>1. outcome'.found = NothingFound /\ earlier' \in Seq(Finding)
      BY <2>1, EmptySeq DEF NoOutcome
    <3> QED BY <2>1, <2>3, <3>1 DEF MonitorsInv, FindsInv
  <2> QED BY <2>2, <2>3, <2>4 DEF MonitorsInv
<1>5. CASE NoticesNext /\ UNCHANGED monitorVars
  <2>1. UNCHANGED <<inbox, issued, monitorVars>>
    BY <1>5 DEF NoticesNext, dismiss
  <2>2. InboxInv'
    BY <2>1 DEF MonitorsInv, InboxInv, NewestFirst
  <2>3. FindsInv'
    BY <2>1 DEF MonitorsInv, FindsInv, Findings, Compared, monitorVars
  <2>4. NoticesAreDue'
    BY <2>1, DueStays DEF MonitorsInv, monitorVars
  <2> QED BY <2>2, <2>3, <2>4 DEF MonitorsInv
<1>6. CASE UNCHANGED <<noticeVars, monitorVars>>
  <2>1. InboxInv'
    BY <1>6 DEF MonitorsInv, InboxInv, NewestFirst, noticeVars
  <2>2. FindsInv'
    BY <1>6 DEF MonitorsInv, FindsInv, Findings, Compared, monitorVars
  <2>3. NoticesAreDue'
    BY <1>6, DueStays DEF MonitorsInv, monitorVars
  <2> QED BY <2>1, <2>2, <2>3 DEF MonitorsInv
<1> QED BY <1>1, <1>2, <1>3, <1>4, <1>5, <1>6 DEF MonitorsNext

\* The safety part of a task's specification.
MonitorsSafety == NoticesInit /\ MonitorsInit /\ [][MonitorsNext]_<<noticeVars, monitorVars>>

LEMMA MonitorsStart ==
  ASSUME NoticesInit, MonitorsInit
  PROVE  MonitorsInv
<1>1. InboxInv
  BY EmptySeq DEF NoticesInit, InboxInv, NewestFirst
<1>2. NoticesAreDue /\ Findings = <<>> /\ outcome.found = NothingFound
  BY DEF MonitorsInit, NoticesAreDue, NoOutcome, Findings
<1>3. kind \in MonitorKinds \cup {"agent"} /\ day \in Nat /\ target \in Int
  BY MonitorsAssumption DEF MonitorsInit, MonitorKinds
<1>4. earlier \in Seq(Finding)
  BY EmptySeq DEF MonitorsInit
<1>5. Mirrors(snapshots, <<>>) /\ lastRank = 0
  <2>1. snapshots = <<>> /\ lastRank = 0
    BY DEF MonitorsInit
  <2> QED BY <2>1, EmptySeq DEF Mirrors
<1>6. FindsInv
  BY <1>2, <1>3, <1>4, <1>5 DEF FindsInv
<1> QED BY <1>1, <1>2, <1>6 DEF MonitorsInv

\* For any searches, prices, days, restarts and dismissals: a run of a task that
\* returns makes a notice if and only if what the task waits for is there
\* (from_task_result, the executors), and recent shows the newest notices that
\* are not dismissed, the newest first, unless too many of those it reads are.
THEOREM NoticesStayTrue == MonitorsSafety => []NoticesAreTrue
<1>1. NoticesInit /\ MonitorsInit => MonitorsInv
  BY MonitorsStart
<1>2. MonitorsInv /\ [MonitorsNext]_<<noticeVars, monitorVars>> => MonitorsInv'
  BY MonitorStepKeeps
<1>3. MonitorsInv => NoticesAreTrue
  BY RecentShowsNewest DEF MonitorsInv, NoticesAreTrue
<1> QED BY <1>1, <1>2, <1>3, PTL DEF MonitorsSafety
=============================================================================
