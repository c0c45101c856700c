------------------------- MODULE PlanningRunProofs -------------------------
(***************************************************************************)
(* Proofs about PlanningRun, for any number of segments and pages, any     *)
(* limits and any number of crashes and database errors.                   *)
(***************************************************************************)
EXTENDS PlanningRun, SequenceTheorems, TLAPS

\* The row that a patch leaves is the old one or the new one.
LEMMA PatchKeepsType ==
  ASSUME TypeOK, NEW row \in RunRow, Patch(row)
  PROVE  run' \in RunRow /\ faults' \in 0..MaxFaults
BY BoundsAssumption DEF Patch, TypeOK

\* Each segment has two writers of events.
LEMMA WriterOf == \A a \in Segments : Main(a) \in Writers /\ Pump(a) \in Writers
BY DEF Main, Pump, Writers

\* The rows of the log, and what an insert makes of them.
LEMMA LogRows ==
  ASSUME TypeOK
  PROVE  /\ DOMAIN log = 1..Len(log) /\ Len(log) \in Nat
         /\ \A i \in DOMAIN log : log[i] \in EventRow /\ log[i].seq \in Nat
<1>1. DOMAIN log = 1..Len(log) /\ Len(log) \in Nat /\ \A i \in 1..Len(log) : log[i] \in EventRow
  BY DEF TypeOK
<1> QED BY <1>1 DEF EventRow

\* pump.close() leaves well-formed emits.
LEMMA ClosePumpKeepsType ==
  ASSUME TypeOK, NEW a \in Segments, ClosePump(a)
  PROVE  out' \in [Writers -> Seq(Kind)] /\ base' \in [Writers -> Nat \cup {NoBase}]
<1>1. <<>> \in Seq(Kind) /\ <<"work">> \in Seq(Kind)
  BY DEF Kind
<1>2. (IF out[Pump(a)] # <<>> /\ base[Pump(a)] = NoBase THEN <<"work">> ELSE <<>>) \in Seq(Kind)
  BY <1>1
<1>3. out' \in [Writers -> Seq(Kind)]
  BY <1>1, <1>2, WriterOf DEF ClosePump, TypeOK
<1> QED BY <1>3, WriterOf DEF ClosePump, TypeOK

\* The steps of an emit keep the type invariant.
LEMMA EmitKeepsType == ASSUME TypeOK, NEW w \in Writers, Emit(w) PROVE TypeOK'
<1>1. CASE EmitRead(w)
  <2>1. \A s \in Seqs : s \in Nat
    BY LogRows DEF Seqs
  <2>2. base' \in [Writers -> Nat \cup {NoBase}]
    BY <1>1, <2>1 DEF EmitRead, TypeOK
  <2> QED BY <1>1, <2>2 DEF EmitRead, TypeOK
<1>2. CASE EmitInsert(w)
  <2>1. base[w] \in Nat /\ out[w] \in Seq(Kind)
    BY <1>2 DEF EmitInsert, TypeOK
  <2>2. Head(out[w]) \in Kind /\ Tail(out[w]) \in Seq(Kind)
    BY <1>2, <2>1 DEF EmitInsert
  <2>3. [seq |-> base[w] + 1, kind |-> Head(out[w])] \in EventRow
    BY <2>1, <2>2 DEF EventRow
  <2>4. log' \in Seq(EventRow)
    BY <1>2, <2>3 DEF EmitInsert, TypeOK
  <2>5. out' \in [Writers -> Seq(Kind)] /\ base' \in [Writers -> Nat \cup {NoBase}]
    BY <1>2, <2>2 DEF EmitInsert, Emits, TypeOK
  <2> QED BY <1>2, <2>4, <2>5 DEF EmitInsert, TypeOK
<1>3. CASE EmitDrops(w)
  <2>1. out[w] \in Seq(Kind) /\ Tail(out[w]) \in Seq(Kind)
    BY <1>3 DEF EmitDrops, TypeOK
  <2>2. out' \in [Writers -> Seq(Kind)] /\ base' \in [Writers -> Nat \cup {NoBase}]
    BY <1>3, <2>1 DEF EmitDrops, Emits, TypeOK
  <2>3. faults' \in 0..MaxFaults
    BY <1>3, BoundsAssumption DEF EmitDrops, TypeOK
  <2> QED BY <1>3, <2>2, <2>3 DEF EmitDrops, TypeOK
<1> QED BY <1>1, <1>2, <1>3 DEF Emit

\* The control points and the events that actions name are well formed.
LEMMA GotoKeepsType ==
  ASSUME TypeOK, NEW a \in Segments, NEW l \in Ahead \cup Behind, Goto(a, l)
  PROVE  pc' \in [Segments -> Ahead \cup Behind]
BY DEF Goto, TypeOK

\* What a task is to emit next is a sequence of kinds.
LEMMA EmitsKeepsType ==
  ASSUME TypeOK, NEW a \in Segments, NEW k \in Kind,
         Emits(Main(a), <<k>>) \/ Emits(Pump(a), <<k>>)
  PROVE  out' \in [Writers -> Seq(Kind)]
<1>1. <<k>> \in Seq(Kind)
  OBVIOUS
<1> QED BY <1>1, WriterOf DEF Emits, TypeOK

\* The rows that the patches of the code write.
LEMMA PatchedRows ==
  ASSUME TypeOK, NEW a \in Segments
  PROVE  /\ [run EXCEPT !.question = FALSE, !.status = "running"] \in RunRow
         /\ [run EXCEPT !.status = "awaiting", !.question = TRUE] \in RunRow
         /\ \A s \in Status : [run EXCEPT !.status = s] \in RunRow
         /\ [run EXCEPT !.messages = local[a].hist] \in RunRow
         /\ [run EXCEPT !.products = local[a].acc] \in RunRow
         /\ [run EXCEPT !.delivered = TRUE] \in RunRow
BY DEF TypeOK, RunRow, Status, Local

\* Every step of an advance task keeps the type invariant.
LEMMA AdvanceKeepsType == ASSUME TypeOK, NEW a \in Segments, Advance(a) PROVE TypeOK'
<1> USE PatchedRows, PatchKeepsType, GotoKeepsType, EmitsKeepsType
<1>w. {"work", "question", "deliverable", "done"} = Kind
  BY DEF Kind
<1>l. {"idle", "answering", "late", "notify", "ended", "start", "mark", "loop", "asked", "stop",
       "ask", "check", "cont", "contAsked", "final", "persist", "decide", "finish", "failing",
      "finishFailing"}
      = Ahead \cup Behind
  BY DEF Ahead, Behind
<1>s. {"running", "awaiting", "converged", "failed"} = Status
  BY DEF Status
<1>1. CASE AnswerPatch(a)
  BY <1>1, <1>w, <1>l, <1>s DEF AnswerPatch, TypeOK
<1>2. CASE MarkRunning(a)
  BY <1>2, <1>w, <1>l, <1>s DEF MarkRunning, TypeOK
<1>3. CASE SaveHistory(a)
  BY <1>3, <1>w, <1>l, <1>s DEF SaveHistory, TypeOK
<1>4. CASE SaveHistoryLate(a)
  BY <1>4, <1>w, <1>l, <1>s DEF SaveHistoryLate, TypeOK
<1>5. CASE SaveFinalHistory(a)
  BY <1>5, <1>w, <1>l, <1>s DEF SaveFinalHistory, TypeOK
<1>6. CASE AgentAsks(a)
  BY <1>6, <1>w, <1>l, <1>s DEF AgentAsks, TypeOK
<1>7. CASE SaveProducts(a)
  BY <1>7, <1>w, <1>l, <1>s DEF SaveProducts, TypeOK
<1>8. CASE Converge(a)
  BY <1>8, <1>w, <1>l, <1>s DEF Converge, TypeOK
<1>9. CASE Fail(a)
  BY <1>9, <1>w, <1>l, <1>s DEF Fail, TypeOK
<1>10. CASE ContinueEnds(a)
  BY <1>10, <1>w, <1>l, <1>s DEF ContinueEnds, TypeOK
<1>11. CASE SaveFinal(a)
  BY <1>11, <1>w, <1>l, <1>s DEF SaveFinal, TypeOK
<1>12. CASE Notify(a)
  BY <1>12, <1>w, <1>l, <1>s DEF Notify, TypeOK
<1>13. CASE Decide(a)
  BY <1>13, <1>w, <1>l, <1>s DEF Decide, TypeOK
<1>14. CASE Ask(a)
  BY <1>14, <1>w, <1>l, <1>s DEF Ask, PatchAwaiting, TypeOK
<1>15. CASE ContinueAsks(a)
  BY <1>15, <1>w, <1>l, <1>s DEF ContinueAsks, PatchAwaiting, TypeOK
<1>16. CASE Start(a)
  <2> DEFINE first == [acc |-> run.products, hist |-> run.messages \cup {a}, steps |-> 0, tries |-> 0]
  <2>2. run.products \in Products /\ run.messages \subseteq Segments
    BY DEF TypeOK, RunRow
  <2>3. first \in Local
    BY <2>2, BoundsAssumption DEF Local
  <2>4. local' = [local EXCEPT ![a] = first]
    BY <1>16 DEF Start
  <2>1. local' \in [Segments -> Local]
    <3> HIDE DEF first
    <3> QED BY <2>3, <2>4 DEF TypeOK
  <2> QED BY <1>16, <1>w, <1>l, <2>1 DEF Start, TypeOK
<1>17. CASE Token(a)
  <2>1. local[a] \in Local /\ local[a].steps + 1 \in 0..MaxSteps
    BY <1>17, BoundsAssumption DEF Token, TypeOK, Local
  <2>2. local' \in [Segments -> Local]
    BY <1>17, <2>1 DEF Token, TypeOK, Local
  <2>3. Emits(Pump(a), <<"work">>)
        /\ UNCHANGED <<run, log, pc, base, reader, deliver, notified, crashes, faults>>
    BY <1>17 DEF Token
  <2>4. out' \in [Writers -> Seq(Kind)]
    BY <2>3, EmitsKeepsType DEF Kind
  <2> QED BY <2>2, <2>3, <2>4 DEF TypeOK
<1>18. CASE AgentStep(a)
  <2>1. PICK d \in BOOLEAN :
          local' = [local EXCEPT ![a].steps = @ + 1, ![a].acc.items = @ \cup {a},
                                 ![a].acc.plan = @ \/ d]
    BY <1>18 DEF AgentStep
  <2>2. local[a] \in Local /\ local[a].steps + 1 \in 0..MaxSteps
    BY <1>18, BoundsAssumption DEF AgentStep, TypeOK, Local
  <2> DEFINE found == [local[a].acc EXCEPT !.items = @ \cup {a}, !.plan = @ \/ d]
  <2>7. found \in Products
    BY <2>2 DEF Local, Products
  <2>8. local'[a] = [local[a] EXCEPT !.steps = @ + 1, !.acc = found]
    BY <2>1, <2>2 DEF Local, Products, TypeOK
  <2>3. local'[a] \in Local
    <3> HIDE DEF found
    <3> QED BY <2>2, <2>7, <2>8 DEF Local
  <2>4. local' \in [Segments -> Local]
    BY <2>1, <2>3 DEF TypeOK
  <2>5. out' = [out EXCEPT ![Main(a)] = <<"work">>]
        /\ UNCHANGED <<run, log, pc, base, reader, deliver, notified, crashes, faults>>
    BY <1>18 DEF AgentStep, Emits
  <2>6. out' \in [Writers -> Seq(Kind)]
    BY <2>5, EmitsKeepsType DEF Emits, Kind
  <2> QED BY <2>4, <2>5, <2>6 DEF TypeOK
<1>19. CASE Retry(a)
  <2>1. local[a] \in Local /\ local[a].tries + 1 \in 0..MaxRetries /\ 0 \in 0..MaxSteps
    <3>1. local[a] \in Local
      BY DEF TypeOK
    <3>2. local[a].tries \in 0..MaxRetries
      BY <3>1 DEF Local
    <3>3. local[a].tries < MaxRetries
      BY <1>19 DEF Retry
    <3> QED BY <3>1, <3>2, <3>3, BoundsAssumption
  <2> DEFINE next == [local[a] EXCEPT !.tries = @ + 1, !.steps = 0]
  <2>5. next \in Local
    BY <2>1 DEF Local
  <2>6. local' = [local EXCEPT ![a] = next]
    BY <1>19 DEF Retry, TypeOK
  <2>2. local' \in [Segments -> Local]
    <3> HIDE DEF next
    <3> QED BY <2>5, <2>6 DEF TypeOK
  <2>3. Goto(a, "cont") /\ Emits(Main(a), <<"work">>)
        /\ UNCHANGED <<run, log, base, reader, deliver, notified, crashes, faults>>
    BY <1>19 DEF Retry
  <2>4. out' \in [Writers -> Seq(Kind)] /\ pc' \in [Segments -> Ahead \cup Behind]
    BY <2>3, EmitsKeepsType, GotoKeepsType DEF Kind, Ahead
  <2> QED BY <2>2, <2>3, <2>4 DEF TypeOK
<1>20. CASE StreamEnds(a)
  BY <1>20, <1>l, ClosePumpKeepsType DEF StreamEnds, TypeOK
<1>21. CASE Raises(a)
  BY <1>21, <1>l, ClosePumpKeepsType DEF Raises, TypeOK
<1>22. CASE FinishRaises(a)
  BY <1>22, <1>l DEF FinishRaises, TypeOK
<1> QED
  BY <1>1, <1>2, <1>3, <1>4, <1>5, <1>6, <1>7, <1>8, <1>9, <1>10, <1>11, <1>12, <1>13, <1>14, <1>15, <1>16, <1>17, <1>18, <1>19, <1>20, <1>21, <1>22 DEF Advance

\* The pages: a batch consists of rows of the log.
ReaderSteps(r) == Read(r) \/ ReaderBreaks(r) \/ ReaderTimeout(r) \/ ReaderReopens(r)

\* A step of a page changes its own record only: its connection, or what it was
\* sent.
LEMMA ReaderStep ==
  ASSUME NEW r \in Readers, ReaderSteps(r)
  PROVE  /\ UNCHANGED <<run, log, pc, local, out, base, deliver, notified, crashes, faults>>
         /\ \E c \in {"poll", "check", "last", "closed"} :
              \/ reader' = [reader EXCEPT ![r].conn = c]
              \/ \E D \in SUBSET Unread(r) : Sends(r, D, c)
BY DEF ReaderSteps, Read, ReaderPoll, ReaderCheck, ReaderLast, ReaderBreaks, ReaderTimeout,
       ReaderReopens, Batch, FirstRows

\* The steps of the pages keep the type invariant.
LEMMA ReaderKeepsType == ASSUME TypeOK, NEW r \in Readers, ReaderSteps(r) PROVE TypeOK'
<1>1. PICK c \in {"poll", "check", "last", "closed"} :
        \/ reader' = [reader EXCEPT ![r].conn = c]
        \/ \E D \in SUBSET Unread(r) : Sends(r, D, c)
  BY ReaderStep
<1>2. CASE reader' = [reader EXCEPT ![r].conn = c]
  BY <1>1, <1>2, ReaderStep DEF TypeOK, ReaderState
<1>3. ASSUME NEW D \in SUBSET Unread(r), NEW i \in D,
             reader' = [reader EXCEPT ![r] = [conn |-> c, cursor |-> log[i].seq,
                                              got |-> reader[r].got \cup D]]
      PROVE  TypeOK'
  <2>1. D \subseteq Nat \ {0} /\ log[i].seq \in Nat
    BY LogRows DEF Unread
  <2>2. reader[r].got \subseteq Nat \ {0}
    BY DEF TypeOK, ReaderState
  <2>3. [conn |-> c, cursor |-> log[i].seq, got |-> reader[r].got \cup D] \in ReaderState
    BY <2>1, <2>2 DEF ReaderState
  <2> QED BY <1>3, <2>3, ReaderStep DEF TypeOK
<1> QED BY <1>1, <1>2, <1>3 DEF Sends

\* A restart keeps the type invariant.
LEMMA CrashKeepsType == ASSUME TypeOK, Crash PROVE TypeOK'
<1>1. pc' \in [Segments -> Ahead \cup Behind]
  BY DEF Crash, Behind
<1>2. out' \in [Writers -> Seq(Kind)] /\ base' \in [Writers -> Nat \cup {NoBase}]
  BY DEF Crash
<1>3. reader' \in [Readers -> ReaderState]
  BY DEF Crash, TypeOK, ReaderState
<1>4. crashes' \in 0..MaxCrashes
  BY BoundsAssumption DEF Crash, TypeOK
<1> QED BY <1>1, <1>2, <1>3, <1>4 DEF Crash, TypeOK

\* create_run leaves a well-typed state.
LEMMA InitType == Init => TypeOK
<1> SUFFICES ASSUME Init PROVE TypeOK
  OBVIOUS
<1>1. run \in RunRow
  BY DEF Init, RunRow, Products, Status
<1>2. local \in [Segments -> Local]
  BY BoundsAssumption DEF Init, Local, Products
<1>3. pc \in [Segments -> Ahead \cup Behind]
  BY DEF Init, Ahead, Behind
<1>4. reader \in [Readers -> ReaderState]
  BY DEF Init, ReaderState
<1>5. out \in [Writers -> Seq(Kind)] /\ base \in [Writers -> Nat \cup {NoBase}] /\ log \in Seq(EventRow)
  BY DEF Init
<1>6. deliver \in BOOLEAN /\ notified \in BOOLEAN
  BY DEF Init
<1>7. crashes \in 0..MaxCrashes /\ faults \in 0..MaxFaults
  BY BoundsAssumption DEF Init
<1> QED BY <1>1, <1>2, <1>3, <1>4, <1>5, <1>6, <1>7 DEF TypeOK

\* The type invariant is inductive.
LEMMA NextKeepsType == TypeOK /\ [Next]_vars => TypeOK'
<1> SUFFICES ASSUME TypeOK, [Next]_vars PROVE TypeOK'
  OBVIOUS
<1>1. ASSUME NEW w \in Writers, Emit(w) PROVE TypeOK'
  BY <1>1, EmitKeepsType
<1>2. ASSUME NEW a \in Segments, Answer(a) PROVE TypeOK'
  <2>1. "work" \in Kind /\ "answering" \in Ahead \cup Behind
    BY DEF Kind, Behind
  <2> QED BY <1>2, <2>1, GotoKeepsType, EmitsKeepsType DEF Answer, TypeOK
<1>3. ASSUME NEW a \in Segments, Advance(a) PROVE TypeOK'
  BY <1>3, AdvanceKeepsType
<1>4. CASE DeliverRead \/ DeliverCommit
  <2>1. run' \in RunRow /\ deliver' \in BOOLEAN
    BY <1>4 DEF DeliverRead, DeliverCommit, TypeOK, RunRow
  <2> QED BY <1>4, <2>1 DEF DeliverRead, DeliverCommit, TypeOK
<1>5. ASSUME NEW r \in Readers, ReaderSteps(r) PROVE TypeOK'
  BY <1>5, ReaderKeepsType
<1>6. CASE Crash
  BY <1>6, CrashKeepsType
<1>7. CASE UNCHANGED vars
  BY <1>7 DEF vars, TypeOK
<1> QED BY <1>1, <1>2, <1>3, <1>4, <1>5, <1>6, <1>7 DEF Next, ReaderSteps

\* Every reachable state is well formed: in particular no advance task starts
\* more than MaxRetries continuations.
THEOREM TypeCorrect == Spec => []TypeOK
<1> QED BY InitType, NextKeepsType, PTL DEF Spec
-----------------------------------------------------------------------------
\* The strengthening of SeqsDense: what an emit in flight has read is still a
\* stored seq, or 0, when it inserts. Other emits may have inserted since, but
\* they only add to the seqs.
BaseStored == \A w \in Writers : base[w] = NoBase \/ base[w] \in {0} \cup Seqs
DenseInv == SeqsDense /\ BaseStored

\* The insert of an emit adds one number to those stored, and keeps the rest.
LEMMA InsertAddsSeq ==
  ASSUME TypeOK, NEW w \in Writers, EmitInsert(w)
  PROVE  /\ Seqs' = Seqs \cup {base[w] + 1}
         /\ Len(log') = Len(log) + 1 /\ \A i \in DOMAIN log : i \in DOMAIN log' /\ log'[i] = log[i]
<1> DEFINE row == [seq |-> base[w] + 1, kind |-> Head(out[w])]
<1>1. log' = Append(log, row) /\ row.seq = base[w] + 1
  BY DEF EmitInsert
<1>2. /\ Len(log') = Len(log) + 1
      /\ \A i \in 1..Len(log) : log'[i] = log[i]
      /\ log'[Len(log) + 1] = row
  BY <1>1 DEF TypeOK
<1>3. DOMAIN log = 1..Len(log) /\ DOMAIN log' = 1..(Len(log) + 1) /\ Len(log) \in Nat
  BY <1>1, <1>2, LogRows
<1> HIDE DEF row
<1>4. Seqs' = {log'[i].seq : i \in 1..(Len(log) + 1)} /\ Seqs = {log[i].seq : i \in 1..Len(log)}
  BY <1>3 DEF Seqs
<1>5. 1..(Len(log) + 1) = 1..Len(log) \cup {Len(log) + 1}
  BY <1>3
<1>6. Seqs' = Seqs \cup {base[w] + 1}
  BY <1>1, <1>2, <1>4, <1>5
<1> QED BY <1>2, <1>3, <1>6
\* No other action adds or changes a row, and none but EmitRead sets a base.
LEMMA OthersKeepLog ==
  ASSUME [Next]_vars, ~ \E w \in Writers : Emit(w)
  PROVE  /\ log' = log
         /\ \A w \in Writers : base'[w] = base[w] \/ base'[w] = NoBase \/ w \notin DOMAIN base
<1>1. CASE \E a \in Segments : Answer(a)
  BY <1>1 DEF Answer
<1>2. ASSUME NEW a \in Segments, Advance(a)
      PROVE  /\ log' = log
             /\ \A w \in Writers : base'[w] = base[w] \/ base'[w] = NoBase \/ w \notin DOMAIN base
  <2>1. CASE StreamEnds(a) \/ Raises(a)
    BY <2>1 DEF StreamEnds, Raises, ClosePump
  <2>2. CASE ~(StreamEnds(a) \/ Raises(a))
    <3>1. log' = log /\ base' = base
      BY <1>2, <2>2 DEF Advance, AnswerPatch, Start, MarkRunning, Token, AgentStep, AgentAsks,
         SaveHistory, Ask, ContinueAsks, SaveHistoryLate, Retry, ContinueEnds, SaveFinal,
         SaveFinalHistory, SaveProducts, Decide, FinishRaises, Converge, Notify, Fail
    <3> QED BY <3>1
  <2> QED BY <2>1, <2>2
<1>3. CASE DeliverRead \/ DeliverCommit
  BY <1>3 DEF DeliverRead, DeliverCommit
<1>4. CASE \E r \in Readers : ReaderSteps(r)
  BY <1>4, ReaderStep
<1>5. CASE Crash
  BY <1>5 DEF Crash
<1>6. CASE UNCHANGED vars
  BY <1>6 DEF vars
<1> QED BY <1>1, <1>2, <1>3, <1>4, <1>5, <1>6 DEF Next, ReaderSteps

\* The strengthening of SeqsDense is inductive.
LEMMA NextKeepsDense == TypeOK /\ DenseInv /\ [Next]_vars => DenseInv'
<1> SUFFICES ASSUME TypeOK, DenseInv, [Next]_vars PROVE DenseInv'
  OBVIOUS
<1>0. \A s \in Seqs : s \in Nat
  BY LogRows DEF Seqs
<1>1. ASSUME NEW w \in Writers, EmitRead(w) PROVE DenseInv'
  <2>1. PICK top \in {0} \cup Seqs : base' = [base EXCEPT ![w] = top]
    BY <1>1 DEF EmitRead
  <2>2. Seqs' = Seqs
    BY <1>1 DEF EmitRead, Seqs
  <2>3. BaseStored'
    BY <2>1, <2>2 DEF DenseInv, BaseStored, TypeOK
  <2> QED BY <2>2, <2>3 DEF DenseInv, SeqsDense
<1>2. ASSUME NEW w \in Writers, EmitInsert(w) PROVE DenseInv'
  <2>1. base[w] \in {0} \cup Seqs /\ base[w] \in Nat
    BY <1>0, <1>2 DEF DenseInv, BaseStored, EmitInsert
  <2>2. Seqs' = Seqs \cup {base[w] + 1}
    BY <1>2, InsertAddsSeq
  <2>3. \A t \in 1..(base[w] + 1) : t \in Seqs'
    <3> TAKE t \in 1..(base[w] + 1)
    <3>1. CASE t = base[w] + 1
      BY <3>1, <2>2
    <3>2. CASE t # base[w] + 1
      BY <3>2, <2>1, <2>2 DEF DenseInv, SeqsDense
    <3> QED BY <3>1, <3>2
  <2>4. SeqsDense'
    BY <2>1, <2>2, <2>3, <1>0 DEF DenseInv, SeqsDense
  <2>5. BaseStored'
    BY <1>2, <2>2 DEF DenseInv, BaseStored, EmitInsert, TypeOK
  <2> QED BY <2>4, <2>5 DEF DenseInv
<1>3. ASSUME NEW w \in Writers, EmitDrops(w) PROVE DenseInv'
  BY <1>3 DEF EmitDrops, DenseInv, SeqsDense, BaseStored, Seqs, TypeOK
<1>4. CASE ~ \E w \in Writers : Emit(w)
  <2>1. Seqs' = Seqs
    BY <1>4, OthersKeepLog DEF Seqs
  <2>2. DOMAIN base = Writers
    BY DEF TypeOK
  <2> QED BY <1>4, <2>1, <2>2, OthersKeepLog DEF DenseInv, SeqsDense, BaseStored
<1> QED BY <1>1, <1>2, <1>3, <1>4 DEF Emit

\* The seqs of a run are 1, 2, ... without a gap, however emits interleave,
\* fail or are cut by a crash.
THEOREM SeqsAreDense == Spec => []SeqsDense
<1>1. Init => DenseInv
  <2> SUFFICES ASSUME Init PROVE DenseInv
    OBVIOUS
  <2>1. Seqs = {}
    BY DEF Init, Seqs
  <2> QED BY <2>1 DEF Init, DenseInv, SeqsDense, BaseStored
<1>2. DenseInv => SeqsDense
  BY DEF DenseInv
<1> QED BY <1>1, <1>2, NextKeepsDense, TypeCorrect, PTL DEF Spec
-----------------------------------------------------------------------------
\* CursorExact is inductive: rows are never removed or renumbered.
LEMMA NextKeepsCursor == TypeOK /\ CursorExact /\ [Next]_vars => CursorExact'
<1> SUFFICES ASSUME TypeOK, CursorExact, [Next]_vars PROVE CursorExact'
  OBVIOUS
<1>1. ASSUME NEW w \in Writers, Emit(w) PROVE CursorExact'
  <2>1. reader' = reader
    BY <1>1 DEF Emit, EmitRead, EmitInsert, EmitDrops
  <2>2. \A i \in DOMAIN log : i \in DOMAIN log' /\ log'[i] = log[i]
    <3>1. CASE EmitInsert(w)
      BY <3>1, InsertAddsSeq
    <3>2. CASE ~EmitInsert(w)
      BY <1>1, <3>2 DEF Emit, EmitRead, EmitDrops
    <3> QED BY <3>1, <3>2
  <2> QED BY <2>1, <2>2 DEF CursorExact
<1>2. ASSUME NEW r \in Readers, ReaderSteps(r) PROVE CursorExact'
  <2>1. log' = log
    BY <1>2, ReaderStep
  <2>2. PICK c \in {"poll", "check", "last", "closed"} :
          \/ reader' = [reader EXCEPT ![r].conn = c]
          \/ \E D \in SUBSET Unread(r) : Sends(r, D, c)
    BY <1>2, ReaderStep
  <2>3. CASE reader' = [reader EXCEPT ![r].conn = c]
    BY <2>1, <2>3 DEF CursorExact, TypeOK, ReaderState
  <2>4. ASSUME NEW D \in SUBSET Unread(r), NEW i \in D, \A j \in D : log[j].seq <= log[i].seq,
               reader' = [reader EXCEPT ![r] = [conn |-> c, cursor |-> log[i].seq,
                                                got |-> reader[r].got \cup D]]
        PROVE  CursorExact'
    <3>1. \A j \in D : j \in DOMAIN log /\ log[j].seq > reader[r].cursor /\ log[j].seq \in Nat
      BY LogRows DEF Unread
    <3>2. reader[r].cursor \in Nat /\ reader'[r].cursor = log[i].seq
          /\ reader'[r].got = reader[r].got \cup D
      BY <2>4 DEF TypeOK, ReaderState
    <3>3. \A j \in reader[r].got : j \in DOMAIN log /\ log[j].seq <= reader[r].cursor /\ log[j].seq \in Nat
      BY LogRows DEF CursorExact
    <3>4. \A j \in reader'[r].got : j \in DOMAIN log /\ log[j].seq <= log[i].seq
      BY <3>1, <3>2, <3>3, <2>4
    <3>5. \A q \in Readers : q # r => reader'[q] = reader[q]
      BY <2>4 DEF TypeOK
    <3> QED BY <2>1, <3>2, <3>4, <3>5 DEF CursorExact
  <2> QED BY <2>2, <2>3, <2>4 DEF Sends
<1>3. CASE UNCHANGED <<log, reader>>
  BY <1>3 DEF CursorExact
<1>4. CASE Crash
  <2>1. \A r \in Readers : reader'[r].cursor = reader[r].cursor /\ reader'[r].got = reader[r].got
    BY <1>4 DEF Crash, TypeOK, ReaderState
  <2> QED BY <1>4, <2>1 DEF Crash, CursorExact
<1>5. ASSUME NEW a \in Segments, Answer(a) \/ Advance(a) PROVE UNCHANGED <<log, reader>>
  BY <1>5 DEF Answer, Advance, AnswerPatch, Start, MarkRunning, Token, AgentStep, AgentAsks,
     StreamEnds, Raises, SaveHistory, Ask, ContinueAsks, SaveHistoryLate, Retry, ContinueEnds,
     SaveFinal, SaveFinalHistory, SaveProducts, Decide, FinishRaises, Converge, Notify, Fail
<1> QED BY <1>1, <1>2, <1>3, <1>4, <1>5
    DEF Next, ReaderSteps, DeliverRead, DeliverCommit, vars

\* No event is sent twice to a page: a batch holds rows past the cursor, and
\* every row the page got is at or below it.
THEOREM NothingReplayed == Spec => []CursorExact
<1>1. Init => CursorExact
  BY DEF Init, CursorExact
<1> QED BY <1>1, NextKeepsCursor, TypeCorrect, PTL DEF Spec
-----------------------------------------------------------------------------
\* A patch to awaiting brings the question along, or is lost as a whole.
LEMMA AwaitingPatch ==
  ASSUME TypeOK, NEW a \in Segments, PatchAwaiting(a), UNCHANGED crashes,
         AwaitingHasQuestion, RunningHasTask
  PROVE  AwaitingHasQuestion' /\ RunningHasTask'
<1> DEFINE row == [run EXCEPT !.status = "awaiting", !.question = TRUE]
<1>1. run' = row \/ (run' = run /\ faults' = faults + 1 /\ faults \in Nat)
  BY DEF PatchAwaiting, Patch, TypeOK
<1>2. run \in RunRow
  BY DEF TypeOK
<1>3. row.status = "awaiting" /\ row.question = TRUE
  BY <1>2 DEF RunRow
<1>4. CASE run' = row
  <2>1. run'.status = "awaiting" /\ run'.question = TRUE
    BY <1>3, <1>4
  <2>2. "awaiting" # "running"
    OBVIOUS
  <2> QED BY <2>1, <2>2, Zenon DEF AwaitingHasQuestion, RunningHasTask
<1>5. CASE run' = run /\ faults' = faults + 1 /\ faults \in Nat
  BY <1>5 DEF AwaitingHasQuestion, RunningHasTask
<1> QED BY <1>1, <1>4, <1>5

\* AwaitingHasQuestion and RunningHasTask are inductive together.
LEMMA NextKeepsStatus ==
  TypeOK /\ AwaitingHasQuestion /\ RunningHasTask /\ [Next]_vars
    => AwaitingHasQuestion' /\ RunningHasTask'
<1> SUFFICES ASSUME TypeOK, AwaitingHasQuestion, RunningHasTask, [Next]_vars
             PROVE  AwaitingHasQuestion' /\ RunningHasTask'
  OBVIOUS
<1> USE DEF AwaitingHasQuestion, RunningHasTask, TypeOK, RunRow
<1>1. ASSUME NEW w \in Writers, Emit(w) PROVE AwaitingHasQuestion' /\ RunningHasTask'
  BY <1>1 DEF Emit, EmitRead, EmitInsert, EmitDrops
<1>2. ASSUME NEW a \in Segments, Answer(a) PROVE AwaitingHasQuestion' /\ RunningHasTask'
  BY <1>2 DEF Answer, Goto, Ahead
<1>3. ASSUME NEW a \in Segments, Advance(a) PROVE AwaitingHasQuestion' /\ RunningHasTask'
  <2>1. CASE AnswerPatch(a)
    BY <2>1 DEF AnswerPatch, Patch, At, Goto, Ahead, Behind
  <2>2. CASE Start(a)
    BY <2>2 DEF Start, At, Goto, Ahead, Behind
  <2>3. CASE MarkRunning(a)
    BY <2>3 DEF MarkRunning, Patch, At, Goto, Ahead, Behind
  <2>4. CASE Token(a)
    BY <2>4 DEF Token, At, Goto, Ahead, Behind
  <2>5. CASE AgentStep(a)
    BY <2>5 DEF AgentStep, At, Goto, Ahead, Behind
  <2>6. CASE AgentAsks(a)
    BY <2>6 DEF AgentAsks, Patch, At, Goto, Ahead, Behind
  <2>7. CASE StreamEnds(a)
    BY <2>7 DEF StreamEnds, At, Goto, Ahead, Behind
  <2>8. CASE Raises(a)
    BY <2>8 DEF Raises, At, Goto, Ahead, Behind
  <2>9. CASE SaveHistory(a)
    BY <2>9 DEF SaveHistory, Patch, At, Goto, Ahead, Behind
  <2>10. CASE Ask(a)
    BY <2>10, AwaitingPatch DEF Ask
  <2>11. CASE ContinueAsks(a)
    BY <2>11, AwaitingPatch DEF ContinueAsks
  <2>12. CASE SaveHistoryLate(a)
    <3>1. run'.status = run.status /\ run'.question = run.question /\ crashes' = crashes
      BY <2>12 DEF SaveHistoryLate, Patch
    <3>2. faults \in Nat /\ (faults' = faults \/ faults' = faults + 1)
      BY <2>12 DEF SaveHistoryLate, Patch
    <3>3. pc[a] = "late" /\ pc' = [pc EXCEPT ![a] = "ended"]
      BY <2>12 DEF SaveHistoryLate, At, Goto
    <3>4. \A b \in Segments : pc[b] \in Ahead => pc'[b] \in Ahead
      BY <3>3 DEF Ahead
    <3> QED BY <3>1, <3>2, <3>4
  <2>13. CASE Retry(a)
    BY <2>13 DEF Retry, At, Goto, Ahead, Behind
  <2>14. CASE ContinueEnds(a)
    BY <2>14 DEF ContinueEnds, At, Goto, Ahead, Behind
  <2>15. CASE SaveFinal(a)
    BY <2>15 DEF SaveFinal, At, Goto, Ahead, Behind
  <2>16. CASE SaveFinalHistory(a)
    BY <2>16 DEF SaveFinalHistory, Patch, At, Goto, Ahead, Behind
  <2>17. CASE SaveProducts(a)
    BY <2>17 DEF SaveProducts, Patch, At, Goto, Ahead, Behind
  <2>18. CASE Decide(a)
    BY <2>18 DEF Decide, At, Goto, Ahead, Behind
  <2>19. CASE Converge(a)
    BY <2>19 DEF Converge, Patch, At, Goto, Ahead, Behind
  <2>20. CASE Notify(a)
    BY <2>20 DEF Notify, At, Goto, Ahead, Behind
  <2>21. CASE Fail(a)
    BY <2>21 DEF Fail, Patch, At, Goto, Ahead, Behind
  <2>22. CASE FinishRaises(a)
    BY <2>22 DEF FinishRaises, At, Goto, Ahead, Behind
  <2> QED BY <1>3, <2>1, <2>2, <2>3, <2>4, <2>5, <2>6, <2>7, <2>8, <2>9, <2>10, <2>11, <2>12, <2>13, <2>14, <2>15, <2>16, <2>17, <2>18, <2>19, <2>20, <2>21, <2>22 DEF Advance
<1>4. CASE DeliverRead \/ DeliverCommit
  BY <1>4 DEF DeliverRead, DeliverCommit
<1>5. ASSUME NEW r \in Readers, ReaderSteps(r) PROVE AwaitingHasQuestion' /\ RunningHasTask'
  BY <1>5, ReaderStep
<1>6. CASE Crash
  BY <1>6 DEF Crash
<1>7. CASE UNCHANGED vars
  BY <1>7 DEF vars
<1> QED BY <1>1, <1>2, <1>3, <1>4, <1>5, <1>6, <1>7 DEF Next, ReaderSteps

\* The two properties of the status, in every reachable state.
LEMMA StatusInvariants == Spec => [](AwaitingHasQuestion /\ RunningHasTask)
<1>1. Init => AwaitingHasQuestion /\ RunningHasTask
  BY FirstAssumption DEF Init, AwaitingHasQuestion, RunningHasTask, Ahead
<1> QED BY <1>1, NextKeepsStatus, TypeCorrect, PTL DEF Spec

\* A run that waits has a question for its user, whatever advance tasks and
\* answers run at the same time.
THEOREM WaitingIsForAnAnswer == Spec => []AwaitingHasQuestion
<1> QED BY StatusInvariants, PTL

\* Without a crash or a lost patch, no run stays running without a task.
THEOREM NoOrphanRun == Spec => []RunningHasTask
<1> QED BY StatusInvariants, PTL
-----------------------------------------------------------------------------
(* One segment after another: answers come once per question, from a page  *)
(* that was shown it, and no patch is lost.                                 *)

Working == Ahead \cup {"answering"}
Within(p, q) == p.items \subseteq q.items /\ (p.plan => q.plan)

\* The edges of an advance task, when no patch is lost, and what they do to the
\* products and the status of the run.
Moves(a) ==
  \/ /\ pc[a] \in {"late", "notify"} /\ pc'[a] = "ended"
     /\ run'.status = run.status /\ run'.products = run.products
  \/ /\ pc[a] = "answering" /\ pc'[a] = "start"
     /\ run'.status = "running" /\ run'.products = run.products
  \/ /\ pc[a] = "start" /\ pc'[a] \in Ahead \ {"start", "decide", "finish"} /\ run' = run
     /\ local'[a].acc = run.products \/ pc'[a] = "failing"
  \/ /\ pc[a] \in Ahead \ {"start", "failing"} /\ pc'[a] \in Ahead \ {"start"}
     /\ run'.status \in {run.status, "running"}
     /\ run'.products \in {run.products, local[a].acc}
     /\ Within(local[a].acc, local'[a].acc)
     /\ pc'[a] = "decide" => run'.products = local[a].acc /\ local'[a] = local[a]
     /\ pc'[a] = "finish" => pc[a] = "decide" /\ local[a].acc.plan /\ run' = run
  \/ /\ pc[a] \in Ahead /\ pc'[a] \in {"ended", "late", "notify"} /\ run'.products = run.products
     /\ \/ run'.status \in {"awaiting", "failed"}
        \/ run'.status = "converged" /\ pc[a] = "finish"

\* Every step of an advance task is one of its edges.
LEMMA AdvanceMoves ==
  ASSUME MaxFaults = 0, TypeOK, NEW a \in Segments, Advance(a)
  PROVE  /\ \A b \in Segments : b # a => pc'[b] = pc[b] /\ local'[b] = local[b]
         /\ deliver' = deliver /\ run'.delivered = run.delivered
         /\ Moves(a)
<1> USE DEF TypeOK, RunRow
<1>1. \A row : Patch(row) => run' = row
  BY DEF Patch
<1>2. local[a].acc = [items |-> local[a].acc.items, plan |-> local[a].acc.plan]
  BY DEF Local, Products
<1>3. CASE AnswerPatch(a)
  BY <1>1, <1>3 DEF AnswerPatch, At, Goto, Moves
<1>4. CASE Start(a)
  <2>1. local' = [local EXCEPT ![a] = [acc |-> run.products, hist |-> run.messages \cup {a},
                                       steps |-> 0, tries |-> 0]]
    BY <1>4 DEF Start
  <2>2. local'[a].acc = run.products /\ \A b \in Segments : b # a => local'[b] = local[b]
    BY <2>1
  <2> QED BY <1>4, <2>2 DEF Start, At, Goto, Moves, Ahead
<1>5. CASE MarkRunning(a)
  BY <1>1, <1>5 DEF MarkRunning, At, Goto, Moves, Ahead, Within
<1>6. CASE Token(a)
  <2>1. local' = [local EXCEPT ![a] = [@ EXCEPT !.steps = local[a].steps + 1]]
    BY <1>6 DEF Token
  <2>2. local'[a].acc = local[a].acc /\ \A b \in Segments : b # a => local'[b] = local[b]
    BY <2>1 DEF Local
  <2>3. pc[a] = "loop" /\ pc' = pc /\ run' = run /\ deliver' = deliver
    BY <1>6 DEF Token, At
  <2> QED BY <2>2, <2>3 DEF Moves, Ahead, Within
<1>7. CASE AgentStep(a)
  <2> HIDE DEF TypeOK, RunRow
  <2>1. PICK d \in BOOLEAN :
          local' = [local EXCEPT ![a].steps = @ + 1, ![a].acc.items = @ \cup {a},
                                 ![a].acc.plan = @ \/ d]
    BY <1>7 DEF AgentStep
  <2> DEFINE found == [local[a].acc EXCEPT !.items = @ \cup {a}, !.plan = @ \/ d]
  <2>2. local'[a] = [local[a] EXCEPT !.steps = @ + 1, !.acc = found]
    BY <2>1 DEF Local, Products, TypeOK
  <2>3. local[a] \in Local /\ local[a].acc \in Products
    BY DEF Local, TypeOK
  <2>4. local[a].acc.items \subseteq found.items
    BY <2>3 DEF Products
  <2>5. local[a].acc.plan => found.plan
    BY <2>3, Zenon DEF Products
  <2>6. local'[a].acc = found
    <3> HIDE DEF found
    <3> QED BY <2>2, <2>3 DEF Local
  <2>7. \A b \in Segments : b # a => local'[b] = local[b]
    BY <2>1 DEF TypeOK
  <2>8. Within(local[a].acc, local'[a].acc)
    <3> HIDE DEF found
    <3> QED BY <2>4, <2>5, <2>6 DEF Within
  <2>9. pc[a] \in {"loop", "cont"} /\ pc' = pc /\ run' = run /\ deliver' = deliver
    BY <1>7 DEF AgentStep, At
  <2> HIDE DEF found
  <2> QED BY <2>7, <2>8, <2>9 DEF Moves, Ahead
<1>8. CASE AgentAsks(a)
  BY <1>1, <1>8 DEF AgentAsks, At, Goto, Moves, Ahead, Within
<1>9. CASE StreamEnds(a)
  BY <1>9 DEF StreamEnds, At, Goto, Moves, Ahead, Within
<1>10. CASE Raises(a)
  BY <1>10 DEF Raises, At, Goto, Moves, Ahead, Within
<1>11. CASE SaveHistory(a)
  BY <1>1, <1>11 DEF SaveHistory, At, Goto, Moves, Ahead, Within
<1>12. CASE Ask(a)
  BY <1>1, <1>12 DEF Ask, PatchAwaiting, At, Goto, Moves, Ahead
<1>13. CASE ContinueAsks(a)
  BY <1>1, <1>13 DEF ContinueAsks, PatchAwaiting, At, Goto, Moves, Ahead
<1>14. CASE SaveHistoryLate(a)
  BY <1>1, <1>14 DEF SaveHistoryLate, At, Goto, Moves
<1>15. CASE Retry(a)
  <2>1. local' = [local EXCEPT ![a] = [@ EXCEPT !.tries = local[a].tries + 1, !.steps = 0]]
    BY <1>15 DEF Retry
  <2>2. local'[a].acc = local[a].acc /\ \A b \in Segments : b # a => local'[b] = local[b]
    BY <2>1 DEF Local
  <2>3. pc[a] = "check" /\ pc' = [pc EXCEPT ![a] = "cont"] /\ run' = run /\ deliver' = deliver
    BY <1>15 DEF Retry, At, Goto
  <2> QED BY <2>2, <2>3 DEF Moves, Ahead, Within
<1>16. CASE ContinueEnds(a)
  BY <1>16 DEF ContinueEnds, At, Goto, Moves, Ahead, Within
<1>17. CASE SaveFinal(a)
  BY <1>17 DEF SaveFinal, At, Goto, Moves, Ahead, Within
<1>18. CASE SaveFinalHistory(a)
  BY <1>1, <1>18 DEF SaveFinalHistory, At, Goto, Moves, Ahead, Within
<1>19. CASE SaveProducts(a)
  BY <1>1, <1>19 DEF SaveProducts, At, Goto, Moves, Ahead, Within
<1>20. CASE Decide(a)
  BY <1>20 DEF Decide, At, Goto, Moves, Ahead, Within
<1>21. CASE FinishRaises(a)
  BY <1>21 DEF FinishRaises, At, Goto, Moves, Ahead, Within
<1>22. CASE Converge(a)
  BY <1>1, <1>22 DEF Converge, At, Goto, Moves, Ahead
<1>23. CASE Notify(a)
  BY <1>23 DEF Notify, At, Goto, Moves
<1>24. CASE Fail(a)
  BY <1>1, <1>24 DEF Fail, At, Goto, Moves, Ahead
<1> QED BY <1>3, <1>4, <1>5, <1>6, <1>7, <1>8, <1>9, <1>10, <1>11, <1>12, <1>13, <1>14, <1>15, <1>16,
           <1>17, <1>18, <1>19, <1>20, <1>21, <1>22, <1>23, <1>24 DEF Advance

\* The strengthening: one task works at a time, on what the row has.
OrderInv ==
  /\ \A a, b \in Segments : pc[a] \in Working /\ pc[b] \in Working => a = b
  /\ \A a \in Segments :
       /\ pc[a] \in Ahead => run.status = "running"
       /\ pc[a] = "answering" => run.status = "awaiting"
       /\ pc[a] \in Ahead \ {"start", "failing"} => Within(run.products, local[a].acc)
       /\ pc[a] = "decide" /\ local[a].acc.plan => run.products.plan
       /\ pc[a] = "finish" => run.products.plan
  /\ run.status = "converged" \/ deliver \/ run.delivered => run.products.plan

\* An advance task keeps it, and the products.
LEMMA AdvanceKeepsOrder ==
  ASSUME MaxFaults = 0, TypeOK, OrderInv, NEW a \in Segments, Advance(a)
  PROVE  OrderInv' /\ Within(run.products, run'.products)
<1>1. /\ \A b \in Segments : b # a => pc'[b] = pc[b] /\ local'[b] = local[b]
      /\ deliver' = deliver /\ run'.delivered = run.delivered
  BY AdvanceMoves
<1>2. Moves(a)
  BY AdvanceMoves
<1>3. pc'[a] \in Working => pc[a] \in Working
  BY <1>2 DEF Moves, Working, Ahead
<1>4. Within(run.products, run'.products)
  BY <1>2 DEF Moves, OrderInv, Within, Ahead
<1>5. /\ pc'[a] \in Ahead => run'.status = "running"
      /\ pc'[a] # "answering"
      /\ pc'[a] \in Ahead \ {"start", "failing"} => Within(run'.products, local'[a].acc)
      /\ pc'[a] = "decide" /\ local'[a].acc.plan => run'.products.plan
      /\ pc'[a] = "finish" => run'.products.plan
  BY <1>2 DEF Moves, OrderInv, Within, Ahead
<1>6. run'.status = "converged" => run'.products.plan
  BY <1>2 DEF Moves, OrderInv, Within, Ahead
<1>7. ASSUME NEW b \in Segments, b # a
      PROVE  /\ pc'[b] \in Ahead => run'.status = "running"
             /\ pc'[b] = "answering" => run'.status = "awaiting"
             /\ pc'[b] \in Ahead \ {"start", "failing"} => Within(run'.products, local'[b].acc)
             /\ pc'[b] = "decide" /\ local'[b].acc.plan => run'.products.plan
             /\ pc'[b] = "finish" => run'.products.plan
  <2>1. CASE pc[a] \in Working
    <3>1. pc[b] \notin Working
      BY <1>7, <2>1 DEF OrderInv
    <3> QED BY <1>1, <1>7, <3>1 DEF Working, Ahead
  <2>2. CASE pc[a] \notin Working
    <3>1. run'.status = run.status /\ run'.products = run.products
      BY <1>2, <2>2 DEF Moves, Working
    <3> QED BY <1>1, <1>7, <3>1 DEF OrderInv
  <2> QED BY <2>1, <2>2
<1>8. \A b, c \in Segments : pc'[b] \in Working /\ pc'[c] \in Working => b = c
  BY <1>1, <1>3 DEF OrderInv
<1>9. deliver' \/ run'.delivered => run'.products.plan
  BY <1>1, <1>4 DEF OrderInv, Within
<1> QED BY <1>4, <1>5, <1>6, <1>7, <1>8, <1>9 DEF OrderInv

\* Every step keeps it, and the products.
LEMMA NextKeepsOrder ==
  ASSUME AnswersAnytime = FALSE, MaxFaults = 0, TypeOK, OrderInv, [Next]_vars
  PROVE  OrderInv' /\ Within(run.products, run'.products)
<1>1. ASSUME UNCHANGED <<run, pc, local, deliver>>
      PROVE  OrderInv' /\ Within(run.products, run'.products)
  BY <1>1 DEF OrderInv, Within
<1>2. ASSUME NEW w \in Writers, Emit(w) PROVE UNCHANGED <<run, pc, local, deliver>>
  BY <1>2 DEF Emit, EmitRead, EmitInsert, EmitDrops
<1>3. ASSUME NEW a \in Segments, Answer(a)
      PROVE  OrderInv' /\ Within(run.products, run'.products)
  <2>1. /\ UNCHANGED <<run, local, deliver>> /\ run.status = "awaiting"
        /\ \A b \in Segments : pc[b] # "answering"
        /\ pc'[a] = "answering" /\ \A b \in Segments : b # a => pc'[b] = pc[b]
    BY <1>3 DEF Answer, QuestionShown, Goto, TypeOK
  <2>2. \A b \in Segments : pc[b] \notin Working
    BY <2>1 DEF OrderInv, Working
  <2> QED BY <2>1, <2>2 DEF OrderInv, Working, Ahead, Within
<1>4. CASE DeliverRead
  BY <1>4 DEF DeliverRead, OrderInv, Within
<1>5. CASE DeliverCommit
  <2>1. /\ UNCHANGED <<pc, local>> /\ deliver /\ deliver' = FALSE
        /\ run'.status = run.status /\ run'.products = run.products
    BY <1>5 DEF DeliverCommit, TypeOK, RunRow
  <2> QED BY <2>1 DEF OrderInv, Within
<1>6. ASSUME NEW r \in Readers, ReaderSteps(r) PROVE UNCHANGED <<run, pc, local, deliver>>
  BY <1>6, ReaderStep
<1>7. CASE Crash
  <2>1. /\ UNCHANGED <<run, local>> /\ deliver' = FALSE
        /\ \A a \in Segments : pc'[a] \in {"idle", "ended"}
    BY <1>7 DEF Crash
  <2> QED BY <2>1 DEF OrderInv, Working, Ahead, Within
<1>8. CASE UNCHANGED vars
  BY <1>1, <1>8 DEF vars
<1> QED BY <1>1, <1>2, <1>3, <1>4, <1>5, <1>6, <1>7, <1>8, AdvanceKeepsOrder DEF Next, ReaderSteps

\* The first segment starts from an empty row.
LEMMA InitOrder == Init => OrderInv
BY DEF Init, OrderInv, Working, Ahead

\* When answers come one per question and no patch is lost, a run that is
\* delivered has a plan, with any number of segments and crashes.
THEOREM DeliveredRunsHavePlans ==
  ASSUME AnswersAnytime = FALSE, MaxFaults = 0 PROVE Spec => []DeliveredHasPlan
<1>1. OrderInv => DeliveredHasPlan
  BY DEF OrderInv, DeliveredHasPlan
<1>2. TypeOK /\ OrderInv /\ [Next]_vars => OrderInv'
  BY NextKeepsOrder
<1> QED BY <1>1, <1>2, InitOrder, TypeCorrect, PTL DEF Spec

\* And no segment loses what an earlier one found or decided.
THEOREM ProductsAreKept ==
  ASSUME AnswersAnytime = FALSE, MaxFaults = 0 PROVE Spec => ProductsKept
<1>1. TypeOK /\ OrderInv /\ [Next]_vars => OrderInv'
  BY NextKeepsOrder
<1>2. TypeOK /\ OrderInv /\ [Next]_vars =>
        [/\ run.products.items \subseteq run'.products.items
         /\ run.products.plan => run'.products.plan]_vars
  BY NextKeepsOrder DEF Within
<1> QED BY <1>1, <1>2, InitOrder, TypeCorrect, PTL DEF Spec, ProductsKept
-----------------------------------------------------------------------------
(* The event table implements EventFeed when answers come once per          *)
(* question, no text streams beside the agent's steps, and no patch is lost:*)
(* then one task at a time emits. Each number is the place of its row, so a *)
(* cursor stands for the rows before it.                                    *)

Emitting(a) == out[Main(a)] # <<>>
LastAsks == log # <<>> /\ log[Len(log)].kind = "question"

Numbered == \A i \in DOMAIN log : log[i].seq = i
ReadOn == \A r \in Readers : reader[r].got = 1..reader[r].cursor /\ reader[r].cursor <= Len(log)
NoPump == \A a \in Segments : out[Pump(a)] = <<>> /\ base[Pump(a)] = NoBase
OneEvent ==
  \A a \in Segments :
    /\ base[Main(a)] # NoBase => Emitting(a) /\ base[Main(a)] = Len(log) /\ Len(log) < MaxEvents
    /\ Emitting(a) => \E k \in Kind : out[Main(a)] = <<k>> /\ (pc[a] \in Working => k # "question")
OneEmits ==
  \A a, b \in Segments : a # b /\ (pc[a] \in Working \/ Emitting(a)) => pc[b] \notin Working /\ ~Emitting(b)
\* Who works has written since the question, and who waits for an answer has
\* nothing more to write.
Asked ==
  LastAsks =>
    /\ \A a \in Segments : pc[a] \notin Ahead /\ (pc[a] = "answering" => Emitting(a))
    /\ run.status = "awaiting" /\ (\A a \in Segments : pc[a] # "answering") =>
         \A a \in Segments : ~Emitting(a)
FeedInv ==
  /\ Numbered /\ ReadOn /\ NoPump /\ OneEvent
  /\ Len(log) < MaxEvents => OneEmits /\ Asked

LEMMA InitFeed == Init => FeedInv
<1> SUFFICES ASSUME Init PROVE FeedInv
  OBVIOUS
<1>1. \A w \in Writers : out[w] = <<>> /\ base[w] = NoBase
  BY DEF Init
<1>2. \A a \in Segments : pc[a] \in Working => a = First
  BY DEF Init, Working, Ahead
<1>3. log = <<>> /\ \A r \in Readers : reader[r].got = {} /\ reader[r].cursor = 0
  BY DEF Init
<1>4. \A a \in Segments : ~Emitting(a) /\ base[Main(a)] = NoBase
  BY <1>1, WriterOf DEF Emitting
<1>5. NoPump
  BY <1>1, WriterOf DEF NoPump
<1>6. Numbered /\ ReadOn /\ ~LastAsks
  <2>1. 1..0 = {} /\ DOMAIN log = {} /\ Len(log) = 0
    BY <1>3
  <2>2. ASSUME NEW r \in Readers PROVE reader[r].got = 1..reader[r].cursor /\ reader[r].cursor <= Len(log)
    <3>1. reader[r].got = {} /\ reader[r].cursor = 0
      BY <1>3
    <3> QED BY <2>1, <3>1
  <2> QED BY <1>3, <2>1, <2>2 DEF Numbered, ReadOn, LastAsks
<1>7. OneEvent /\ OneEmits
  BY <1>2, <1>4 DEF OneEvent, OneEmits
<1> QED BY <1>5, <1>6, <1>7 DEF FeedInv, Asked

\* What an advance task leaves for its next emit.
LEMMA AdvanceEmits ==
  ASSUME StreamsText = FALSE, TypeOK, NoPump, NEW a \in Segments, Advance(a)
  PROVE  /\ UNCHANGED <<log, reader>> /\ ~Emitting(a)
         /\ \A w \in Writers : base'[w] = base[w] /\ (w # Main(a) => out'[w] = out[w])
         /\ \/ out'[Main(a)] = <<>>
            \/ /\ pc[a] \in Ahead
               /\ \E k \in Kind : out'[Main(a)] = <<k>> /\ (pc'[a] \in Working => k # "question")
<1>w. Main(a) \in Writers /\ Pump(a) \in Writers /\ Main(a) # Pump(a)
  BY WriterOf DEF Main, Pump
<1>1. ASSUME NEW k \in Kind, Emits(Main(a), <<k>>)
      PROVE  out'[Main(a)] = <<k>> /\ \A w \in Writers : w # Main(a) => out'[w] = out[w]
  BY <1>1, <1>w DEF Emits, TypeOK
<1>2. ASSUME ClosePump(a), Quiet(a)
      PROVE  \A w \in Writers : base'[w] = base[w] /\ out'[w] = out[w]
  BY <1>2, <1>w DEF ClosePump, Quiet, NoPump, TypeOK
<1>3. CASE AnswerPatch(a) \/ MarkRunning(a) \/ SaveHistory(a) \/ SaveHistoryLate(a) \/ ContinueEnds(a)
           \/ SaveFinalHistory(a) \/ FinishRaises(a) \/ Notify(a)
  BY <1>3 DEF AnswerPatch, MarkRunning, SaveHistory, SaveHistoryLate, ContinueEnds, SaveFinalHistory,
     FinishRaises, Notify, At, Quiet, Emitting
<1>k. {"work", "deliverable", "done"} \subseteq Kind
  BY DEF Kind
<1>4. CASE Start(a) \/ AgentStep(a) \/ AgentAsks(a) \/ Retry(a) \/ SaveFinal(a) \/ SaveProducts(a)
  <2>1. Emits(Main(a), <<"work">>) /\ UNCHANGED <<log, reader, base>> /\ Quiet(a) /\ pc[a] \in Ahead
    BY <1>4 DEF Start, AgentStep, AgentAsks, Retry, SaveFinal, SaveProducts, At, Ahead
  <2> QED BY <1>1, <1>k, <2>1 DEF Quiet, Emitting
<1>5. CASE StreamEnds(a) \/ Raises(a)
  <2>1. ClosePump(a) /\ UNCHANGED <<log, reader>> /\ Quiet(a)
    BY <1>5 DEF StreamEnds, Raises, At
  <2> QED BY <1>2, <1>w, <2>1 DEF Quiet, Emitting
<1>6. CASE Ask(a) \/ ContinueAsks(a)
  <2>1. /\ Emits(Main(a), <<"question">>) /\ UNCHANGED <<log, reader, base>> /\ Quiet(a)
        /\ pc[a] \in Ahead /\ pc'[a] \in {"ended", "late"}
    BY <1>6 DEF Ask, ContinueAsks, PatchAwaiting, At, Goto, Ahead, TypeOK
  <2>2. "question" \in Kind /\ pc'[a] \notin Working
    BY <2>1 DEF Kind, Working, Ahead
  <2> QED BY <1>1, <2>1, <2>2 DEF Quiet, Emitting
<1>7. CASE Decide(a)
  <2>1. /\ UNCHANGED <<log, reader, base>> /\ Quiet(a) /\ pc[a] \in Ahead
        /\ Emits(Main(a), <<"deliverable">>) \/ out' = out
    BY <1>7 DEF Decide, At, Ahead
  <2> QED BY <1>1, <1>k, <2>1 DEF Quiet, Emitting
<1>8. CASE Converge(a) \/ Fail(a)
  <2>1. Emits(Main(a), <<"done">>) /\ UNCHANGED <<log, reader, base>> /\ Quiet(a) /\ pc[a] \in Ahead
    BY <1>8 DEF Converge, Fail, At, Ahead
  <2> QED BY <1>1, <1>k, <2>1 DEF Quiet, Emitting
<1>9. ~Token(a)
  BY DEF Token
<1> QED BY <1>3, <1>4, <1>5, <1>6, <1>7, <1>8, <1>9 DEF Advance

LEMMA AdvanceKeepsFeed ==
  ASSUME MaxFaults = 0, StreamsText = FALSE, TypeOK, FeedInv, NEW a \in Segments, Advance(a)
  PROVE  FeedInv'
<1>1. /\ UNCHANGED <<log, reader>> /\ ~Emitting(a)
      /\ \A w \in Writers : base'[w] = base[w] /\ (w # Main(a) => out'[w] = out[w])
      /\ \/ out'[Main(a)] = <<>>
         \/ /\ pc[a] \in Ahead
            /\ \E k \in Kind : out'[Main(a)] = <<k>> /\ (pc'[a] \in Working => k # "question")
  BY AdvanceEmits DEF FeedInv
<1>2. \A b \in Segments : b # a => pc'[b] = pc[b]
  BY AdvanceMoves
<1>3. Moves(a)
  BY AdvanceMoves
<1>4. \A b \in Segments : b # a => out'[Main(b)] = out[Main(b)]
  BY <1>1, WriterOf DEF Main
<1>5. NoPump'
  BY <1>1, WriterOf DEF FeedInv, NoPump, Main, Pump
<1>6. base[Main(a)] = NoBase /\ \A b \in Segments : base'[Main(b)] = base[Main(b)]
  BY <1>1, WriterOf DEF FeedInv, OneEvent
<1>7. OneEvent'
  BY <1>1, <1>2, <1>4, <1>6 DEF FeedInv, OneEvent, Emitting
<1>8. ASSUME Len(log) < MaxEvents PROVE OneEmits' /\ Asked'
  <2>1. OneEmits /\ Asked
    BY <1>8 DEF FeedInv
  <2>2. pc'[a] \in Working \/ Emitting(a)' => pc[a] \in Working
    BY <1>1, <1>3 DEF Moves, Emitting, Working, Ahead
  <2>3. OneEmits'
    BY <1>2, <1>4, <2>1, <2>2 DEF OneEmits, Emitting
  <2>4. CASE pc[a] \in Working
    <3>1. LastAsks => pc[a] = "answering" /\ Emitting(a)
      BY <2>1, <2>4 DEF Asked, Working
    <3>2. ~LastAsks'
      BY <1>1, <3>1 DEF LastAsks
    <3> QED BY <2>3, <3>2 DEF Asked
  <2>5. CASE pc[a] \notin Working
    <3>1. pc[a] \in {"late", "notify"} /\ pc'[a] = "ended" /\ run'.status = run.status /\ ~Emitting(a)'
      BY <1>1, <1>3, <2>5 DEF Moves, Working, Ahead, Emitting
    <3>2. ASSUME NEW b \in Segments PROVE Emitting(b)' <=> Emitting(b)
      <4>1. CASE b = a
        BY <1>1, <3>1, <4>1
      <4>2. CASE b # a
        BY <1>4, <4>2 DEF Emitting
      <4> QED BY <4>1, <4>2
    <3>4. \A b \in Segments : (pc'[b] \in Ahead => pc[b] \in Ahead) /\ (pc'[b] = "answering" <=> pc[b] = "answering")
      BY <1>2, <3>1 DEF Ahead
    <3>3. LastAsks' <=> LastAsks
      BY <1>1 DEF LastAsks
    <3>5. Asked'
      BY <2>1, <3>1, <3>2, <3>3, <3>4 DEF Asked
    <3> QED BY <2>3, <3>5
  <2> QED BY <2>3, <2>4, <2>5
<1> QED BY <1>1, <1>5, <1>7, <1>8 DEF FeedInv, Numbered, ReadOn

\* The steps of an emit: it stores the next number, as nobody else has one.
LEMMA EmitKeepsFeed ==
  ASSUME MaxFaults = 0, TypeOK, FeedInv, NEW w \in Writers, Emit(w) PROVE FeedInv'
<1>1. Len(log) \in Nat /\ MaxEvents \in Nat
  BY LogRows, BoundsAssumption
<1>2. /\ UNCHANGED <<run, pc, reader>> /\ out[w] # <<>>
      /\ \A v \in Writers \ {w} : out'[v] = out[v] /\ base'[v] = base[v]
  BY DEF Emit, EmitRead, EmitInsert, EmitDrops, Emits, TypeOK
<1>3. PICK a \in Segments : w = Main(a)
  BY <1>2 DEF FeedInv, NoPump, Writers, Main, Pump
<1>4. Emitting(a) /\ \A b \in Segments : b # a => Main(b) \in Writers \ {w}
  BY <1>2, <1>3, WriterOf DEF Emitting, Main
<1>5. NoPump'
  BY <1>2, <1>3, WriterOf DEF FeedInv, NoPump, Main, Pump
<1>6. PICK k \in Kind : out[w] = <<k>> /\ (pc[a] \in Working => k # "question")
  BY <1>3, <1>4 DEF FeedInv, OneEvent
<1>7. CASE EmitRead(w)
  <2>1. \A i \in DOMAIN log : log[i].seq = i
    BY DEF FeedInv, Numbered
  <2>2. Seqs = 1..Len(log)
    BY <2>1, LogRows DEF Seqs
  <2>3. base'[w] = Len(log) /\ log' = log /\ out' = out /\ Len(log) < MaxEvents
    BY <1>1, <1>7, <2>2 DEF EmitRead, IsTop, TypeOK
  <2>4. OneEvent'
    BY <1>2, <1>3, <1>4, <2>3 DEF FeedInv, OneEvent, Emitting
  <2> QED BY <1>2, <1>5, <2>3, <2>4 DEF FeedInv, Numbered, ReadOn, OneEmits, Asked, LastAsks, Emitting
<1>8. CASE EmitInsert(w)
  <2>1. base[w] = Len(log) /\ Len(log) < MaxEvents
    BY <1>3, <1>8 DEF EmitInsert, FeedInv, OneEvent
  <2>2. OneEmits /\ Asked
    BY <2>1 DEF FeedInv
  <2>3. log' = Append(log, [seq |-> Len(log) + 1, kind |-> k])
    BY <1>6, <1>8, <2>1 DEF EmitInsert
  <2>4. /\ Len(log') = Len(log) + 1 /\ DOMAIN log' = 1..(Len(log) + 1)
        /\ \A i \in 1..Len(log) : log'[i] = log[i]
        /\ log'[Len(log) + 1].seq = Len(log) + 1 /\ log'[Len(log) + 1].kind = k
    BY <2>3 DEF TypeOK
  <2>5. ~Emitting(a)' /\ base'[Main(a)] = NoBase
    BY <1>3, <1>6, <1>8 DEF EmitInsert, Emits, Emitting, TypeOK
  <2>6. \A b \in Segments : b # a => pc[b] \notin Working /\ ~Emitting(b) /\ ~Emitting(b)'
    BY <1>2, <1>4, <2>2 DEF OneEmits, Emitting
  <2>7. \A b \in Segments : base'[Main(b)] = NoBase
    BY <1>2, <1>4, <2>5, <2>6 DEF FeedInv, OneEvent
  <2>8. OneEvent'
    BY <2>5, <2>6, <2>7 DEF OneEvent
  <2>9. OneEmits'
    BY <1>2, <1>4, <2>2, <2>5, <2>6 DEF OneEmits
  <2>10. Asked'
    <3>1. LastAsks' => pc[a] \notin Working
      BY <1>1, <1>6, <2>4 DEF LastAsks
    <3> QED BY <1>2, <2>5, <2>6, <3>1 DEF Asked, Working
  <2>11. Numbered'
    BY <1>1, <2>4, LogRows DEF FeedInv, Numbered
  <2>12. ReadOn'
    BY <1>1, <1>2, <2>4 DEF FeedInv, ReadOn, TypeOK, ReaderState
  <2> QED BY <1>5, <2>8, <2>9, <2>10, <2>11, <2>12 DEF FeedInv
<1>9. CASE EmitDrops(w)
  <2>1. log' = log /\ Len(log) >= MaxEvents
    BY <1>9 DEF EmitDrops, TypeOK
  <2>2. ~Emitting(a)' /\ base'[Main(a)] = NoBase
    BY <1>3, <1>6, <1>9 DEF EmitDrops, Emits, Emitting, TypeOK
  <2>3. OneEvent'
    BY <1>2, <1>3, <1>4, <2>1, <2>2 DEF FeedInv, OneEvent, Emitting
  <2> QED BY <1>1, <1>2, <1>5, <2>1, <2>3 DEF FeedInv, Numbered, ReadOn
<1> QED BY <1>7, <1>8, <1>9 DEF Emit

\* What a page is sent is the next rows of the log.
LEMMA ReaderReadsOn ==
  ASSUME TypeOK, FeedInv, NEW r \in Readers, ReaderSteps(r)
  PROVE  /\ \A q \in Readers : q # r => reader'[q] = reader[q]
         /\ reader'[r].got = 1..reader'[r].cursor /\ reader'[r].cursor <= Len(log)
         /\ reader'[r].got = reader[r].got \/ (reader'[r].cursor \in 1..Len(log) /\ reader[r].got \subseteq reader'[r].got)
<1>1. /\ reader[r].got = 1..reader[r].cursor /\ reader[r].cursor <= Len(log) /\ reader[r].cursor \in Nat
      /\ Len(log) \in Nat
  BY LogRows DEF FeedInv, ReadOn, TypeOK, ReaderState
<1>2. ASSUME NEW c, reader' = [reader EXCEPT ![r].conn = c]
      PROVE  /\ \A q \in Readers : q # r => reader'[q] = reader[q]
             /\ reader'[r].got = reader[r].got /\ reader'[r].cursor = reader[r].cursor
  BY <1>2 DEF TypeOK, ReaderState
<1>3. ASSUME NEW D \in SUBSET Unread(r), FirstRows(r, D), NEW c, NEW i \in D, \A j \in D : log[j].seq <= log[i].seq,
             reader' = [reader EXCEPT ![r] = [conn |-> c, cursor |-> log[i].seq, got |-> reader[r].got \cup D]]
      PROVE  /\ \A q \in Readers : q # r => reader'[q] = reader[q]
             /\ reader'[r].got = 1..reader'[r].cursor /\ reader'[r].cursor \in 1..Len(log)
             /\ reader[r].got \subseteq reader'[r].got
  <2>1. \A j \in 1..Len(log) : log[j].seq = j
    BY LogRows DEF FeedInv, Numbered
  <2>2. Unread(r) = (reader[r].cursor + 1)..Len(log)
    BY <1>1, <2>1, LogRows DEF Unread
  <2>3. i \in 1..Len(log) /\ \A j \in D : j <= i
    BY <1>1, <1>3, <2>1, <2>2
  <2>4. \A j \in (reader[r].cursor + 1)..i : j \in D
    BY <1>1, <1>3, <2>1, <2>2, <2>3 DEF FirstRows
  <2>5. D = (reader[r].cursor + 1)..i
    <3>1. \A j \in D : j \in (reader[r].cursor + 1)..Len(log) /\ j <= i
      BY <2>2, <2>3
    <3>2. D \subseteq (reader[r].cursor + 1)..i
      BY <1>1, <2>3, <3>1
    <3> QED BY <2>4, <3>2
  <2>6. reader[r].got \cup D = 1..i
    BY <1>1, <2>2, <2>3, <2>5
  <2>7. reader'[r].cursor = i /\ reader'[r].got = reader[r].got \cup D
        /\ \A q \in Readers : q # r => reader'[q] = reader[q]
    BY <1>3, <2>1, <2>3 DEF TypeOK
  <2> QED BY <2>3, <2>6, <2>7
<1>4. \/ \E c : reader' = [reader EXCEPT ![r].conn = c]
      \/ \E D \in SUBSET Unread(r), c \in {"poll", "check", "closed"} : FirstRows(r, D) /\ Sends(r, D, c)
  BY DEF ReaderSteps, Read, ReaderPoll, ReaderCheck, ReaderLast, ReaderBreaks, ReaderTimeout,
     ReaderReopens, Batch
<1>5. CASE \E c : reader' = [reader EXCEPT ![r].conn = c]
  BY <1>1, <1>2, <1>5
<1>6. ASSUME NEW D \in SUBSET Unread(r), NEW c, FirstRows(r, D), Sends(r, D, c)
      PROVE  \/ reader' = [reader EXCEPT ![r].conn = c]
             \/ \E i \in D : /\ \A j \in D : log[j].seq <= log[i].seq
                            /\ reader' = [reader EXCEPT ![r] = [conn |-> c, cursor |-> log[i].seq,
                                                               got |-> reader[r].got \cup D]]
  BY <1>6 DEF Sends
<1>7. ASSUME NEW D \in SUBSET Unread(r), NEW c, FirstRows(r, D), Sends(r, D, c), ~\E d : reader' = [reader EXCEPT ![r].conn = d]
      PROVE  /\ \A q \in Readers : q # r => reader'[q] = reader[q]
             /\ reader'[r].got = 1..reader'[r].cursor /\ reader'[r].cursor \in 1..Len(log)
             /\ reader[r].got \subseteq reader'[r].got
  BY <1>3, <1>6, <1>7
<1>8. CASE \E D \in SUBSET Unread(r), c \in {"poll", "check", "closed"} : FirstRows(r, D) /\ Sends(r, D, c)
  <2>1. PICK D \in SUBSET Unread(r), c \in {"poll", "check", "closed"} : FirstRows(r, D) /\ Sends(r, D, c)
    BY <1>8
  <2>2. CASE ~\E d : reader' = [reader EXCEPT ![r].conn = d]
    <3>1. /\ \A q \in Readers : q # r => reader'[q] = reader[q]
          /\ reader'[r].got = 1..reader'[r].cursor /\ reader'[r].cursor \in 1..Len(log)
          /\ reader[r].got \subseteq reader'[r].got
      BY <1>7, <2>1, <2>2
    <3>2. reader'[r].cursor <= Len(log)
      BY <1>1, <3>1
    <3> QED BY <3>1, <3>2
  <2> QED BY <1>5, <2>2
<1> QED BY <1>4, <1>5, <1>8

LEMMA NextKeepsFeed ==
  ASSUME AnswersAnytime = FALSE, StreamsText = FALSE, MaxFaults = 0, TypeOK, FeedInv, [Next]_vars
  PROVE  FeedInv'
<1>1. ASSUME NEW a \in Segments, Answer(a) PROVE FeedInv'
  <2>1. /\ UNCHANGED <<run, log, base, reader>> /\ pc[a] = "idle" /\ QuestionShown
        /\ pc'[a] = "answering" /\ \A b \in Segments : b # a => pc'[b] = pc[b]
    BY <1>1 DEF Answer, Goto, TypeOK
  <2>2. out'[Main(a)] = <<"work">> /\ \A v \in Writers : v # Main(a) => out'[v] = out[v]
    BY <1>1, WriterOf DEF Answer, Emits, TypeOK
  <2>3. NoPump'
    BY <2>1, <2>2, WriterOf DEF FeedInv, NoPump, Main, Pump
  <2>4. \A b \in Segments : b # a => out'[Main(b)] = out[Main(b)]
    BY <2>2, WriterOf DEF Main
  <2>5. CASE Len(log) < MaxEvents
    <3>1. \A b \in Segments : pc[b] \notin Working /\ ~Emitting(b)
      BY <2>1, <2>5 DEF FeedInv, Asked, LastAsks, QuestionShown, Working
    <3>2. \A b \in Segments : base[Main(b)] = NoBase
      BY <3>1 DEF FeedInv, OneEvent
    <3>3. Emitting(a)' /\ \A b \in Segments : b # a => ~Emitting(b)'
      BY <2>2, <2>4, <3>1 DEF Emitting
    <3>4. OneEvent'
      BY <2>1, <2>2, <3>2, <3>3 DEF OneEvent, Kind
    <3>5. OneEmits'
      BY <2>1, <3>1, <3>3 DEF OneEmits
    <3>6. Asked'
      BY <2>1, <3>1, <3>3 DEF Asked, Working, Ahead
    <3> QED BY <2>1, <2>3, <3>4, <3>5, <3>6 DEF FeedInv, Numbered, ReadOn
  <2>6. CASE ~(Len(log) < MaxEvents)
    <3>1. \A b \in Segments : base[Main(b)] = NoBase
      BY <2>6 DEF FeedInv, OneEvent
    <3>2. OneEvent'
      BY <2>1, <2>2, <2>4, <3>1 DEF FeedInv, OneEvent, Emitting, Kind
    <3> QED BY <2>1, <2>3, <2>6, <3>2 DEF FeedInv, Numbered, ReadOn
  <2> QED BY <2>5, <2>6
<1>2. ASSUME NEW r \in Readers, ReaderSteps(r) PROVE FeedInv'
  <2>1. UNCHANGED <<run, log, pc, out, base>>
    BY <1>2, ReaderStep
  <2>2. ReadOn'
    BY <1>2, <2>1, ReaderReadsOn DEF FeedInv, ReadOn
  <2> QED BY <2>1, <2>2 DEF FeedInv, Numbered, NoPump, OneEvent, OneEmits, Asked, LastAsks, Emitting
<1>3. CASE Crash
  <2>1. /\ UNCHANGED <<run, log>> /\ \A a \in Segments : pc'[a] \notin Working
        /\ \A w \in Writers : out'[w] = <<>> /\ base'[w] = NoBase
    BY <1>3 DEF Crash, Working, Ahead
  <2>2. \A r \in Readers : reader'[r].got = reader[r].got /\ reader'[r].cursor = reader[r].cursor
    BY <1>3 DEF Crash, TypeOK, ReaderState
  <2>3. \A a \in Segments : ~Emitting(a)' /\ base'[Main(a)] = NoBase /\ out'[Pump(a)] = <<>> /\ base'[Pump(a)] = NoBase
    BY <2>1, WriterOf DEF Emitting
  <2>4. OneEvent' /\ OneEmits' /\ Asked' /\ NoPump'
    BY <2>1, <2>3 DEF OneEvent, OneEmits, Asked, NoPump, Working
  <2> QED BY <2>1, <2>2, <2>4 DEF FeedInv, Numbered, ReadOn
<1>4. CASE DeliverRead \/ DeliverCommit \/ UNCHANGED vars
  <2>1. UNCHANGED <<log, pc, out, base, reader>> /\ run'.status = run.status
    BY <1>4 DEF DeliverRead, DeliverCommit, vars, TypeOK, RunRow
  <2> QED BY <2>1 DEF FeedInv, Numbered, ReadOn, NoPump, OneEvent, OneEmits, Asked, LastAsks, Emitting
<1> QED BY <1>1, <1>2, <1>3, <1>4, EmitKeepsFeed, AdvanceKeepsFeed DEF Next, ReaderSteps

\* Every step is one of the feed's: an insert publishes an event, a batch shows a
\* page a longer beginning, and nothing else changes what the feed is made of.
LEMMA FeedSteps ==
  ASSUME StreamsText = FALSE, TypeOK, FeedInv, [Next]_vars
  PROVE  [Feed!Next]_<<[i \in DOMAIN log |-> log[i].kind], [r \in Readers |-> reader[r].got]>>
<1> DEFINE feed == [i \in DOMAIN log |-> log[i].kind]
           seen == [r \in Readers |-> reader[r].got]
<1>l. DOMAIN log = 1..Len(log) /\ Len(log) \in Nat /\ \A i \in DOMAIN log : log[i].kind \in Kind
  BY LogRows DEF EventRow
<1>f. feed \in Seq(Kind) /\ Len(feed) = Len(log)
  BY <1>l
<1>1. ASSUME log' = log, \A r \in Readers : reader'[r].got = reader[r].got PROVE UNCHANGED <<feed, seen>>
  BY <1>1
<1>2. ASSUME NEW w \in Writers, Emit(w) PROVE Feed!Next \/ UNCHANGED <<feed, seen>>
  <2>1. reader' = reader
    BY <1>2 DEF Emit, EmitRead, EmitInsert, EmitDrops
  <2>2. CASE EmitInsert(w)
    <3>1. PICK row \in EventRow : log' = Append(log, row)
      <4>1. Head(out[w]) \in Kind /\ base[w] \in Nat
        BY <2>2 DEF EmitInsert, TypeOK
      <4> QED BY <2>2, <4>1 DEF EmitInsert, EventRow
    <3>2. row.kind \in Kind /\ feed' = Append(feed, row.kind)
      <4>1. DOMAIN log' = 1..(Len(log) + 1) /\ log'[Len(log) + 1] = row /\ \A i \in 1..Len(log) : log'[i] = log[i]
        BY <3>1 DEF TypeOK
      <4>2. row.kind \in Kind
        BY DEF EventRow
      <4>3. Append(feed, row.kind) = [i \in 1..(Len(log) + 1) |-> IF i = Len(log) + 1 THEN row.kind ELSE feed[i]]
        BY <1>f, <4>2
      <4>4. feed' = [i \in 1..(Len(log) + 1) |-> IF i = Len(log) + 1 THEN row.kind ELSE feed[i]]
        BY <1>l, <4>1
      <4> QED BY <4>2, <4>3, <4>4
    <3> QED BY <2>1, <3>2 DEF Feed!Next, Feed!Publish
  <2>3. CASE ~EmitInsert(w)
    <3>1. log' = log
      BY <1>2, <2>3 DEF Emit, EmitRead, EmitDrops
    <3> QED BY <1>1, <2>1, <3>1
  <2> QED BY <2>2, <2>3
<1>3. ASSUME NEW r \in Readers, ReaderSteps(r) PROVE Feed!Next \/ UNCHANGED <<feed, seen>>
  <2>1. log' = log
    BY <1>3, ReaderStep
  <2>2. CASE reader'[r].got = reader[r].got
    BY <1>1, <1>3, <2>1, <2>2, ReaderReadsOn
  <2>3. CASE reader'[r].got # reader[r].got
    <3> DEFINE n == reader'[r].cursor
    <3>1. /\ n \in 1..Len(log) /\ reader'[r].got = 1..n /\ reader[r].got \subseteq 1..n
          /\ \A q \in Readers : q # r => reader'[q] = reader[q]
      BY <1>3, <2>3, ReaderReadsOn
    <3> HIDE DEF n
    <3>2. seen' = [seen EXCEPT ![r] = 1..n] /\ seen[r] \subseteq 1..n /\ n \in 1..Len(feed) /\ feed' = feed
      BY <1>f, <2>1, <3>1
    <3> QED BY <3>2 DEF Feed!Next, Feed!Show
  <2> QED BY <2>2, <2>3
<1>4. ASSUME NEW a \in Segments, Answer(a) \/ Advance(a) PROVE UNCHANGED <<log, reader>>
  BY <1>4, AdvanceEmits DEF Answer, FeedInv
<1>5. CASE Crash
  BY <1>1, <1>5 DEF Crash, TypeOK, ReaderState
<1>6. CASE DeliverRead \/ DeliverCommit \/ UNCHANGED vars
  BY <1>1, <1>6 DEF DeliverRead, DeliverCommit, vars
<1> QED BY <1>1, <1>2, <1>3, <1>4, <1>5, <1>6 DEF Next, ReaderSteps

\* The event table is the feed its reader is promised (EventFeed): every page has
\* seen a beginning of one sequence of events that only grows, for any number of
\* segments, pages, restarts and broken connections and any limit of events, when
\* answers come one per question, no patch is lost and no text is streamed beside.
THEOREM FeedIsKept ==
  ASSUME AnswersAnytime = FALSE, StreamsText = FALSE, MaxFaults = 0 PROVE Spec => FeedSpec
<1>1. Init => Feed!Init
  BY DEF Init, Feed!Init
<1>2. TypeOK /\ FeedInv /\ [Next]_vars => FeedInv'
  BY NextKeepsFeed
<1>3. TypeOK /\ FeedInv /\ [Next]_vars =>
        [Feed!Next]_<<[i \in DOMAIN log |-> log[i].kind], [r \in Readers |-> reader[r].got]>>
  BY FeedSteps
<1> QED BY <1>1, <1>2, <1>3, InitFeed, TypeCorrect, PTL DEF Spec, FeedSpec, Feed!Spec
=============================================================================
