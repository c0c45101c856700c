----------------------------- MODULE AgentProofs ------------------------------
(***************************************************************************)
(* Proofs about the agents: the files and the history of AgentTools, the   *)
(* loop of AgentLoop, the context of Summary and the names of AgentFiles,  *)
(* for any models, files, mounts, results, limits and any number of turns, *)
(* calls and file operations.                                              *)
(***************************************************************************)
EXTENDS AgentTools, AgentLoop, Summary, AgentFiles, FoldLemmas, FiniteSetTheorems, SequenceTheorems, TLAPS

-----------------------------------------------------------------------------
(* The tools of an agent. *)

Names == Paths \cup Nat
Data == UNION {[S -> SUBSET Nat] : S \in SUBSET Names}
CallRow == [kind : {"plain", "big", "todo", "task", "write", "edit"}, path : Names,
            pc : {"ready", "message", "sync", "works", "command"},
            data : Data, attempt : Nat, work : Nat]
AgentRow == [node : {"end", "model", "tools"}, turn : Nat, files : Data, saved : Data,
             step : SUBSET Nat, answered : SUBSET Nat, mixed : SUBSET Nat,
             told : SUBSET (Nat \X Names)]
Types == agent \in AgentRow /\ call \in Seq(CallRow) /\ agent.step \subseteq 1..Len(call)

\* What Reduced and WorkOf return.
LEMMA ReducedIs ==
  ASSUME NEW left, NEW right
  PROVE  /\ DOMAIN Reduced(left, right) = DOMAIN left \cup DOMAIN right
         /\ \A p \in DOMAIN right : Reduced(left, right)[p] = right[p]
         /\ \A p \in DOMAIN left : p \notin DOMAIN right => Reduced(left, right)[p] = left[p]
BY DEF Reduced

\* The update of one file.
LEMMA WorkOfIs ==
  ASSUME NEW c, NEW had, NEW path
  PROVE  /\ DOMAIN WorkOf(c, had, path) = {path}
         /\ c \in WorkOf(c, had, path)[path]
         /\ path \in DOMAIN had => had[path] \subseteq WorkOf(c, had, path)[path]
BY DEF WorkOf

\* An element of Data, and back.
LEMMA DataIs ==
  /\ \A f \in Data : DOMAIN f \subseteq Names /\ \A p \in DOMAIN f : f[p] \subseteq Nat
  /\ \A S \in SUBSET Names : [S -> SUBSET Nat] \subseteq Data
BY DEF Data

\* Files stay files.
LEMMA DataClosed ==
  /\ <<>> \in Data
  /\ \A f, g \in Data : Reduced(f, g) \in Data
  /\ \A f \in Data, c \in Nat, p \in Names : WorkOf(c, f, p) \in Data
<1>1. <<>> \in [{} -> SUBSET Nat]
  OBVIOUS
<1>2. ASSUME NEW f \in Data, NEW g \in Data PROVE Reduced(f, g) \in Data
  <2>1. Reduced(f, g) \in [DOMAIN f \cup DOMAIN g -> SUBSET Nat]
    BY DataIs DEF Reduced
  <2> QED BY <2>1, DataIs
<1>3. ASSUME NEW f \in Data, NEW c \in Nat, NEW p \in Names PROVE WorkOf(c, f, p) \in Data
  <2>1. WorkOf(c, f, p) \in [{p} -> SUBSET Nat]
    BY DataIs DEF WorkOf
  <2> QED BY <2>1, DataIs
<1> QED BY <1>1, <1>2, <1>3, DataIs

-----------------------------------------------------------------------------
\* What a tool does to its call and to the files.
Edge(c) ==
  \/ /\ call[c].pc \in {"ready", "works"} /\ call'[c].pc = "message" /\ call'[c].data = call[c].data /\ agent'.files = agent.files
  \/ /\ call[c].kind = "todo" /\ call[c].pc = "ready" /\ call'[c].pc = "command"
     /\ call'[c].data = call[c].data /\ agent'.files = agent.files
  \/ /\ call[c].kind \in {"big", "write", "edit"} /\ call[c].pc = "ready" /\ call'[c].pc = "sync"
     /\ agent'.files = agent.files
     /\ DOMAIN call'[c].data = {call[c].path} /\ c \in call'[c].data[call[c].path]
     /\ \/ call[c].kind = "big"
        \/ call[c].kind = "write" /\ call[c].path \notin DOMAIN agent.files
        \/ /\ call[c].kind = "edit" /\ call[c].path \in DOMAIN agent.files
           /\ agent.files[call[c].path] \subseteq call'[c].data[call[c].path]
  \/ /\ call[c].kind \in {"big", "write", "edit"} /\ call[c].pc = "sync" /\ call'[c].pc = "command"
     /\ call'[c].data = call[c].data /\ agent'.files = Reduced(agent.files, call[c].data)
  \/ /\ call[c].kind = "task" /\ call[c].pc \in {"ready", "works"} /\ call'[c].pc = "works"
     /\ agent'.files = agent.files /\ call'[c].data = agent.files
  \/ /\ call[c].kind = "task" /\ call[c].pc = "works" /\ call'[c].pc = "works"
     /\ agent'.files = agent.files
     /\ \E p \in Paths : call'[c].data = Reduced(call[c].data, WorkOf(c, call[c].data, p))
  \/ /\ call[c].kind = "task" /\ call[c].pc = "works" /\ call'[c].pc = "command"
     /\ call'[c].data = call[c].data /\ agent'.files = agent.files

\* A tool changes its own call and the files, and nothing else.
ToolChanges(c) ==
  /\ call' \in Seq(CallRow) /\ Len(call') = Len(call)
  /\ \A d \in DOMAIN call : d # c => call'[d] = call[d]
  /\ call'[c].kind = call[c].kind /\ call'[c].path = call[c].path
  /\ agent'.files \in Data /\ agent' = [agent EXCEPT !.files = agent'.files]
  /\ Edge(c)

\* A call that is updated in some fields.
LEMMA CallUpdated ==
  ASSUME Types, NEW c \in DOMAIN call, NEW row \in CallRow, call' = [call EXCEPT ![c] = row]
  PROVE  /\ call' \in Seq(CallRow) /\ Len(call') = Len(call) /\ call'[c] = row
         /\ \A d \in DOMAIN call : d # c => call'[d] = call[d]
BY DEF Types

\* Every operation of a tool is as ToolChanges says.
LEMMA ToolStep ==
  ASSUME Types, NEW c \in agent.step, Tool(c)
  PROVE  ToolChanges(c) /\ agent.node = "tools"
<1>1. /\ c \in DOMAIN call /\ call[c] \in CallRow /\ DOMAIN call = 1..Len(call) /\ c \in Nat
      /\ agent \in AgentRow /\ agent.files \in Data
  BY DEF Types, AgentRow
<1>2. agent.node = "tools"
  BY DEF Tool, Message, Command, Offloads, Writes, Edits, Syncs, Delegates, Works, Retries,
         TaskReturns, At
<1>3. ASSUME UNCHANGED agent PROVE agent'.files \in Data /\ agent' = [agent EXCEPT !.files = agent'.files]
  BY <1>1, <1>3 DEF AgentRow
<1>4. ASSUME NEW pc \in {"message", "command"}, Goto(c, pc)
      PROVE  /\ call' \in Seq(CallRow) /\ Len(call') = Len(call)
             /\ \A d \in DOMAIN call : d # c => call'[d] = call[d]
             /\ call'[c].kind = call[c].kind /\ call'[c].path = call[c].path
             /\ call'[c].pc = pc /\ call'[c].data = call[c].data
  <2> DEFINE row == [call[c] EXCEPT !.pc = pc]
  <2>1. row \in CallRow /\ row.kind = call[c].kind /\ row.path = call[c].path /\ row.pc = pc
        /\ row.data = call[c].data
    BY <1>1 DEF CallRow
  <2>2. call' = [call EXCEPT ![c] = row]
    BY <1>4 DEF Goto
  <2> HIDE DEF row
  <2> QED BY <1>1, <2>1, <2>2, CallUpdated
<1>5. ASSUME NEW data \in Data, Yields(c, data)
      PROVE  /\ call' \in Seq(CallRow) /\ Len(call') = Len(call)
             /\ \A d \in DOMAIN call : d # c => call'[d] = call[d]
             /\ call'[c].kind = call[c].kind /\ call'[c].path = call[c].path
             /\ call'[c].pc = "sync" /\ call'[c].data = data
  <2> DEFINE row == [call[c] EXCEPT !.pc = "sync", !.data = data]
  <2>1. row \in CallRow /\ row.kind = call[c].kind /\ row.path = call[c].path /\ row.pc = "sync"
        /\ row.data = data
    BY <1>1 DEF CallRow
  <2>2. call' = [call EXCEPT ![c] = row]
    BY <1>5 DEF Yields
  <2> HIDE DEF row
  <2> QED BY <1>1, <2>1, <2>2, CallUpdated
<1>6. ASSUME NEW f \in Data
      PROVE  WorkOf(c, f, call[c].path) \in Data
  BY <1>1, <1>6, DataClosed DEF CallRow
<1>7. CASE Message(c) \/ Command(c) \/ TaskReturns(c)
  <2>1. UNCHANGED agent /\ agent'.files = agent.files
    BY <1>7 DEF Message, Command, TaskReturns
  <2>2. CASE call[c].pc \in {"ready", "works"} /\ Goto(c, "message")
    BY <1>2, <1>3, <1>4, <2>1, <2>2 DEF ToolChanges, Edge
  <2>3. CASE /\ Goto(c, "command")
             /\ \/ call[c].kind = "todo" /\ call[c].pc = "ready"
                \/ call[c].kind = "task" /\ call[c].pc = "works"
    BY <1>2, <1>3, <1>4, <2>1, <2>3 DEF ToolChanges, Edge
  <2> QED BY <1>7, <2>2, <2>3 DEF Message, Command, TaskReturns, At
<1>8. CASE Offloads(c) \/ Writes(c)
  <2>1. CASE Goto(c, "message")
    BY <1>2, <1>3, <1>4, <1>8, <2>1 DEF Offloads, Writes, At, ToolChanges, Edge
  <2>2. CASE ~Goto(c, "message")
    <3> DEFINE data == WorkOf(c, <<>>, call[c].path)
    <3>1. /\ Yields(c, data) /\ UNCHANGED agent /\ call[c].pc = "ready"
          /\ \/ call[c].kind = "big"
             \/ call[c].kind = "write" /\ call[c].path \notin DOMAIN agent.files
      BY <1>8, <2>2 DEF Offloads, Writes, At
    <3>2. data \in Data /\ DOMAIN data = {call[c].path} /\ c \in data[call[c].path]
      BY <1>6, DataClosed, WorkOfIs
    <3> HIDE DEF data
    <3> QED BY <1>2, <1>3, <1>5, <3>1, <3>2 DEF ToolChanges, Edge
  <2> QED BY <2>1, <2>2
<1>9. CASE Edits(c)
  <2>1. CASE Goto(c, "message")
    BY <1>2, <1>3, <1>4, <1>9, <2>1 DEF Edits, At, ToolChanges, Edge
  <2>2. CASE ~Goto(c, "message")
    <3> DEFINE data == WorkOf(c, agent.files, call[c].path)
    <3>1. /\ Yields(c, data) /\ UNCHANGED agent /\ call[c].pc = "ready" /\ call[c].kind = "edit"
          /\ call[c].path \in DOMAIN agent.files
      BY <1>9, <2>2 DEF Edits, At
    <3>2. /\ data \in Data /\ DOMAIN data = {call[c].path} /\ c \in data[call[c].path]
          /\ agent.files[call[c].path] \subseteq data[call[c].path]
      BY <1>1, <1>6, <3>1, WorkOfIs
    <3> HIDE DEF data
    <3> QED BY <1>2, <1>3, <1>5, <3>1, <3>2 DEF ToolChanges, Edge
  <2> QED BY <2>1, <2>2
<1>10. CASE Syncs(c)
  <2>1. /\ agent' = [agent EXCEPT !.files = Reduced(agent.files, call[c].data)]
        /\ call[c].kind \in {"big", "write", "edit"} /\ call[c].pc = "sync" /\ Goto(c, "command")
    BY <1>10 DEF Syncs, At
  <2>2. agent'.files = Reduced(agent.files, call[c].data) /\ agent'.files \in Data
    BY <1>1, <2>1, DataClosed DEF AgentRow, CallRow
  <2> QED BY <1>2, <1>4, <2>1, <2>2 DEF ToolChanges, Edge
<1>11. CASE Delegates(c)
  <2> DEFINE row == [call[c] EXCEPT !.pc = "works", !.data = agent.files]
  <2>1. row \in CallRow /\ row.kind = call[c].kind /\ row.path = call[c].path /\ row.pc = "works"
        /\ row.data = agent.files
    BY <1>1 DEF CallRow
  <2>2. /\ call' = [call EXCEPT ![c] = row] /\ UNCHANGED agent
        /\ call[c].kind = "task" /\ call[c].pc = "ready"
    BY <1>11 DEF Delegates, At
  <2> HIDE DEF row
  <2> QED BY <1>1, <1>2, <1>3, <2>1, <2>2, CallUpdated DEF ToolChanges, Edge
<1>12. CASE Works(c)
  <2>1. PICK p \in Paths :
          call' = [call EXCEPT ![c].work = @ + 1, ![c].data = Reduced(@, WorkOf(c, @, p))]
    BY <1>12 DEF Works
  <2> DEFINE data == Reduced(call[c].data, WorkOf(c, call[c].data, p))
  <2> DEFINE row == [call[c] EXCEPT !.work = call[c].work + 1, !.data = data]
  <2>2. data \in Data
    BY <1>1, DataClosed DEF CallRow, Names
  <2>3. call' = [call EXCEPT ![c] = row]
    BY <1>1, <2>1 DEF CallRow
  <2>4. UNCHANGED agent /\ call[c].kind = "task" /\ call[c].pc = "works"
    BY <1>12 DEF Works, At
  <2>5. row \in CallRow /\ row.kind = call[c].kind /\ row.path = call[c].path /\ row.pc = "works"
        /\ row.data = data
    <3> DEFINE work == call[c].work + 1
    <3>1. work \in Nat
      BY <1>1 DEF CallRow
    <3> HIDE DEF data, work
    <3>2. [call[c] EXCEPT !.work = work] \in CallRow
      BY <1>1, <3>1 DEF CallRow
    <3> QED BY <1>1, <2>2, <2>4, <3>1, <3>2 DEF CallRow, row, work
  <2> HIDE DEF row
  <2>6. call'[c].data = data /\ call'[c].pc = "works"
    BY <1>1, <2>3, <2>5, CallUpdated
  <2>7. Edge(c)
    BY <2>1, <2>4, <2>6 DEF Edge
  <2> QED BY <1>1, <1>2, <1>3, <2>3, <2>4, <2>5, <2>7, CallUpdated DEF ToolChanges
<1>13. CASE Retries(c)
  <2> DEFINE row == [call[c] EXCEPT !.attempt = 2, !.work = 0, !.data = agent.files]
  <2>1. /\ call' = [call EXCEPT ![c] = row] /\ UNCHANGED agent
        /\ call[c].kind = "task" /\ call[c].pc = "works"
    BY <1>13 DEF Retries, At
  <2>2. row \in CallRow /\ row.kind = call[c].kind /\ row.path = call[c].path /\ row.pc = "works"
        /\ row.data = agent.files
    BY <1>1, <2>1 DEF CallRow
  <2> HIDE DEF row
  <2> QED BY <1>1, <1>2, <1>3, <2>1, <2>2, CallUpdated DEF ToolChanges, Edge
<1> QED BY <1>2, <1>7, <1>8, <1>9, <1>10, <1>11, <1>12, <1>13 DEF Tool

\* The calls of a new step follow those there are.
LEMMA StepOfCalls ==
  ASSUME Types, CallsTools
  PROVE  /\ call' \in Seq(CallRow) /\ Len(call') >= Len(call)
         /\ \A c \in 1..Len(call) : call'[c] = call[c]
         /\ agent'.step = (Len(call) + 1)..Len(call')
         /\ \A c \in (Len(call) + 1)..Len(call') :
              /\ call'[c].pc = "ready" /\ DOMAIN call'[c].data = {}
              /\ call'[c].kind = "big" => call'[c].path = c
              /\ call'[c].kind \in {"write", "edit"} => call'[c].path \in Paths
         /\ agent.node = "model"
         /\ agent' = [agent EXCEPT !.node = "tools", !.saved = agent.files, !.step = agent'.step]
<1> DEFINE m == Len(call)
<1>1. PICK n \in 1..MaxPerStep : \E w \in [1..n -> Wanted] :
        /\ m + n <= MaxCalls
        /\ call' = call \o [i \in 1..n |-> Called(w[i], m + i)]
        /\ agent' = [agent EXCEPT !.node = "tools", !.saved = agent.files, !.step = (m + 1)..(m + n)]
  BY Zenon DEF CallsTools
<1>2. PICK w \in [1..n -> Wanted] :
        /\ call' = call \o [i \in 1..n |-> Called(w[i], m + i)]
        /\ agent' = [agent EXCEPT !.node = "tools", !.saved = agent.files, !.step = (m + 1)..(m + n)]
  BY <1>1, Zenon
<1> DEFINE new == [i \in 1..n |-> Called(w[i], m + i)]
<1>3. m \in Nat /\ n \in Nat /\ call \in Seq(CallRow) /\ agent \in AgentRow
  BY AgentAssumption DEF Types
<1>4. ASSUME NEW i \in 1..n
      PROVE  /\ Called(w[i], m + i) \in CallRow
             /\ Called(w[i], m + i).pc = "ready" /\ Called(w[i], m + i).data = <<>>
             /\ Called(w[i], m + i).kind = "big" => Called(w[i], m + i).path = m + i
             /\ Called(w[i], m + i).kind \in {"write", "edit"} => Called(w[i], m + i).path \in Paths
  <2>1. w[i] \in Wanted /\ m + i \in Nat
    BY <1>3
  <2>2. /\ w[i].kind \in {"plain", "big", "todo", "task", "write", "edit"}
        /\ w[i].path \in Paths \cup {0}
        /\ w[i].kind \in {"write", "edit"} => w[i].path \in Paths
    BY <2>1 DEF Wanted
  <2> QED BY <2>1, <2>2, DataClosed DEF Called, CallRow, Names
<1>5. new \in Seq(CallRow) /\ Len(new) = n /\ \A i \in 1..n : new[i] = Called(w[i], m + i)
  BY <1>3, <1>4
<1> HIDE DEF new
<1>6. call' = call \o new
  BY <1>2 DEF new
<1>7. /\ call' \in Seq(CallRow) /\ Len(call') = m + n
      /\ \A c \in 1..m : call'[c] = call[c]
      /\ \A i \in 1..n : call'[m + i] = new[i]
  <2> HIDE DEF m
  <2>1. call \o new \in Seq(CallRow) /\ Len(call \o new) = Len(call) + Len(new)
    BY <1>3, <1>5
  <2>2. /\ \A c \in 1..Len(call) : (call \o new)[c] = call[c]
        /\ \A i \in 1..Len(new) : (call \o new)[Len(call) + i] = new[i]
    BY <1>3, <1>5, ConcatProperties
  <2> QED BY <1>5, <1>6, <2>1, <2>2 DEF m
<1>8. ASSUME NEW c \in (m + 1)..(m + n)
      PROVE  /\ call'[c].pc = "ready" /\ DOMAIN call'[c].data = {}
             /\ call'[c].kind = "big" => call'[c].path = c
             /\ call'[c].kind \in {"write", "edit"} => call'[c].path \in Paths
  <2>1. c - m \in 1..n /\ m + (c - m) = c
    BY <1>3
  <2>2. call'[c] = Called(w[c - m], m + (c - m))
    BY <1>5, <1>7, <2>1
  <2> QED BY <1>4, <2>1, <2>2
<1>9. agent'.step = (m + 1)..(m + n) /\ agent.node = "model"
  BY <1>2, <1>3 DEF AgentRow, CallsTools
<1>10. Len(call) + n = Len(call') /\ Len(call') >= Len(call)
  BY <1>3, <1>7
<1>11. agent' = [agent EXCEPT !.node = "tools", !.saved = agent.files, !.step = agent'.step]
  <2> DEFINE new_step == (m + 1)..(m + n)
  <2>1. agent' = [agent EXCEPT !.node = "tools", !.saved = agent.files, !.step = new_step]
    BY <1>2
  <2>2. agent'.step = new_step
    BY <1>9
  <2> HIDE DEF new_step
  <2> QED BY <2>1, <2>2
<1> QED BY <1>7, <1>8, <1>9, <1>10, <1>11

\* The state stays well typed.
LEMMA NextKeepsTypes == Types /\ [AgentNext]_agentVars => Types'
<1> SUFFICES ASSUME Types, [AgentNext]_agentVars PROVE Types'
  OBVIOUS
<1>0. /\ agent \in AgentRow /\ call \in Seq(CallRow) /\ Len(call) \in Nat
      /\ DOMAIN call = 1..Len(call) /\ DOMAIN call \subseteq Nat
  BY DEF Types
<1>1. CASE Begin
  <2> DEFINE turn == agent.turn + 1
             answered == DOMAIN call
  <2>1. /\ agent' = [agent EXCEPT !.node = "model", !.turn = turn, !.answered = answered, !.mixed = {}]
        /\ call' = call
    BY <1>0, <1>1 DEF Begin, AgentRow
  <2>2. turn \in Nat /\ answered \in SUBSET Nat
    BY <1>0 DEF AgentRow
  <2> HIDE DEF turn, answered
  <2>3. agent' \in AgentRow /\ agent'.step = agent.step
    BY <1>0, <2>1, <2>2 DEF AgentRow
  <2> QED BY <2>1, <2>3 DEF Types
<1>2. CASE CallsTools
  <2>1. agent'.step \subseteq Nat /\ agent'.step \subseteq 1..Len(call')
    BY <1>0, <1>2, StepOfCalls
  <2>2. agent' \in AgentRow
    BY <1>0, <1>2, <2>1, StepOfCalls DEF AgentRow
  <2> QED BY <1>2, <2>1, <2>2, StepOfCalls DEF Types
<1>3. CASE Answers \/ Stops
  <2>1. PICK f \in {agent.files, agent.saved} : agent' = [agent EXCEPT !.node = "end", !.step = {}, !.files = f]
    BY <1>0, <1>3 DEF Answers, Stops, AgentRow
  <2>2. f \in Data
    BY <1>0 DEF AgentRow
  <2>3. agent' \in AgentRow /\ agent'.step = {}
    BY <1>0, <2>1, <2>2 DEF AgentRow
  <2> QED BY <1>0, <1>3, <2>3 DEF Answers, Stops, Types
<1>4. ASSUME NEW c \in agent.step, Tool(c) PROVE Types'
  <2>1. /\ call' \in Seq(CallRow) /\ Len(call') = Len(call)
        /\ agent'.files \in Data /\ agent' = [agent EXCEPT !.files = agent'.files]
    BY <1>4, ToolStep DEF ToolChanges
  <2> DEFINE f == agent'.files
  <2>2. f \in Data /\ agent' = [agent EXCEPT !.files = f]
    BY <2>1
  <2> HIDE DEF f
  <2>3. agent' \in AgentRow /\ agent'.step = agent.step
    BY <1>0, <2>2 DEF AgentRow
  <2> QED BY <2>1, <2>3 DEF Types
<1>5. CASE Joins
  <2>1. /\ Joined \in Data /\ Seen \subseteq Nat
    <3>1. CASE Commands = {}
      BY <1>0, <3>1, DataClosed DEF Joined, Seen, Types, AgentRow
    <3>2. CASE Commands # {}
      <4>1. Commands \subseteq 1..Len(call)
        BY DEF Commands, Types
      <4>2. Max(Commands) \in 1..Len(call)
        BY <1>0, <3>2, <4>1, MaxIs
      <4>3. call[Max(Commands)].data \in Data
        <5> DEFINE last == Max(Commands)
        <5> HIDE DEF last
        <5>1. call[last] \in CallRow
          BY <1>0, <4>2 DEF last
        <5>2. call[last].data \in Data
          BY <5>1 DEF CallRow
        <5> QED BY <5>2 DEF last
      <4>4. Joined = call[Max(Commands)].data /\ Seen = Commands
        BY <3>2, Zenon DEF Joined, Seen
      <4>5. Seen \subseteq Nat
        BY <1>0, <4>1, <4>4
      <4>6. Joined \in Data
        BY <4>3, <4>4, Zenon
      <4> QED BY <4>5, <4>6
    <3> QED BY <3>1, <3>2
  <2>2. \A c \in Commands : Told(c) \subseteq Nat \X Names
    <3>1. ASSUME NEW c \in Commands PROVE Told(c) \subseteq Nat \X Names
      <4>1. c \in Nat /\ call[c].data \in Data
        <5>1. c \in DOMAIN call
          BY <1>0 DEF Commands, Types
        <5>2. call[c] \in CallRow
          BY <1>0, <5>1
        <5> QED BY <1>0, <5>1, <5>2 DEF CallRow
      <4>2. DOMAIN call[c].data \subseteq Names
        BY <4>1, DataIs
      <4>3. ASSUME NEW w \in Told(c) PROVE w \in Nat \X Names
        <5>1. PICK q \in DOMAIN call[c].data : w = <<c, q>>
          BY DEF Told
        <5> QED BY <4>1, <4>2, <5>1
      <4> QED BY <4>3
    <3> QED BY <3>1
  <2>3. agent.told \cup UNION {Told(c) : c \in Commands} \in SUBSET (Nat \X Names)
    <3>1. UNION {Told(c) : c \in Commands} \subseteq Nat \X Names
      BY <2>2
    <3>2. agent.told \subseteq Nat \X Names
      BY <1>0 DEF AgentRow
    <3> HIDE DEF Names
    <3> QED BY <3>1, <3>2, Zenon
  <2>4. Reduced(agent.files, Joined) \in Data
    BY <1>0, <2>1, DataClosed DEF AgentRow
  <2>5. agent' \in AgentRow /\ agent'.step = {} /\ call' = call
    <3> DEFINE f == Reduced(agent.files, Joined)
               answered == agent.answered \cup Seen
               mixed == agent.mixed \cup (agent.step \ Seen)
               told == agent.told \cup UNION {Told(c) : c \in Commands}
    <3>1. /\ agent' = [agent EXCEPT !.node = "model", !.step = {}, !.files = f,
                                   !.answered = answered, !.mixed = mixed, !.told = told]
          /\ call' = call
      BY <1>0, <1>5 DEF Joins, AgentRow
    <3>2. /\ f \in Data /\ told \in SUBSET (Nat \X Names)
          /\ answered \in SUBSET Nat /\ mixed \in SUBSET Nat
      BY <1>0, <2>1, <2>3, <2>4 DEF AgentRow
    <3> HIDE DEF f, answered, mixed, told
    <3> QED BY <1>0, <3>1, <3>2 DEF AgentRow
  <2> QED BY <1>0, <2>5 DEF Types
<1>6. CASE UNCHANGED agentVars
  BY <1>6 DEF agentVars, Types
<1> QED BY <1>1, <1>2, <1>3, <1>4, <1>5, <1>6 DEF AgentNext

\* Every reachable state of the agent is well typed.
LEMMA TypesHold == AgentSpec => []Types
<1>1. AgentInit => Types
  BY DataClosed DEF AgentInit, Types, AgentRow
<1> QED BY <1>1, NextKeepsTypes, PTL DEF AgentSpec
-----------------------------------------------------------------------------
\* The strengthening of CallsAnswered: while the tools of a step run, its calls
\* are the only other ones without an answer.
AnswersInv ==
  /\ CallsAnswered
  /\ agent.node = "tools" => Open \subseteq agent.step \cup agent.mixed

\* Every step keeps it.
LEMMA NextKeepsAnswers == ASSUME Types, AnswersInv, [AgentNext]_agentVars PROVE AnswersInv'
<1>0. agent \in AgentRow /\ DOMAIN call = 1..Len(call) /\ Len(call) \in Nat
  BY DEF Types
<1>1. CASE Begin
  BY <1>0, <1>1 DEF Begin, AnswersInv, CallsAnswered, Open, AgentRow
<1>2. CASE CallsTools
  <2>1. /\ agent'.node = "tools" /\ agent'.answered = agent.answered /\ agent'.mixed = agent.mixed
        /\ agent.node = "model" /\ agent'.step = (Len(call) + 1)..Len(call')
    BY <1>0, <1>2, StepOfCalls DEF AgentRow
  <2>2. DOMAIN call' = 1..Len(call') /\ Len(call') \in Nat /\ Len(call') >= Len(call)
    BY <1>2, StepOfCalls
  <2>3. DOMAIN call' = DOMAIN call \cup agent'.step
    BY <1>0, <2>1, <2>2
  <2> QED BY <2>1, <2>3 DEF AnswersInv, CallsAnswered, Open
<1>3. CASE Answers \/ Stops
  BY <1>0, <1>3 DEF Answers, Stops, AnswersInv, CallsAnswered, AgentRow
<1>4. ASSUME NEW c \in agent.step, Tool(c) PROVE AnswersInv'
  <2>1. /\ agent'.node = agent.node /\ agent'.answered = agent.answered
        /\ agent'.mixed = agent.mixed /\ agent'.step = agent.step
    BY <1>0, <1>4, ToolStep DEF ToolChanges, AgentRow
  <2>2. DOMAIN call' = DOMAIN call
    BY <1>0, <1>4, ToolStep DEF ToolChanges
  <2> QED BY <2>1, <2>2 DEF AnswersInv, CallsAnswered, Open
<1>5. CASE Joins
  <2>1. /\ agent.node = "tools" /\ agent'.node = "model" /\ call' = call
        /\ agent'.answered = agent.answered \cup Seen
        /\ agent'.mixed = agent.mixed \cup (agent.step \ Seen)
    BY <1>0, <1>5 DEF Joins, AgentRow
  <2> QED BY <2>1 DEF AnswersInv, CallsAnswered, Open
<1>6. CASE UNCHANGED agentVars
  BY <1>6 DEF agentVars, AnswersInv, CallsAnswered, Open
<1> QED BY <1>1, <1>2, <1>3, <1>4, <1>5, <1>6 DEF AgentNext

\* However turns end and steps are mixed, the model is called with an answer
\* for every call but those that tool_node_wrapper passes over in this turn.
THEOREM HistoryIsAnswered == AgentSpec => []CallsAnswered
<1>1. AgentInit => AnswersInv
  BY DEF AgentInit, AnswersInv, CallsAnswered
<1>2. AnswersInv => CallsAnswered
  BY DEF AnswersInv
<1> QED BY <1>1, <1>2, NextKeepsAnswers, TypesHold, PTL DEF AgentSpec
-----------------------------------------------------------------------------
\* The work that was told of is in files; it is not missing from the files there are.
Kept(told, had) == \A w \in told : w[2] \in DOMAIN had /\ w[1] \in had[w[2]]
Agrees(told, had) == \A w \in told : w[2] \in DOMAIN had => w[1] \in had[w[2]]

\* A file that was not asked for by its path is that of a call whose result was
\* too large.
Named(calls, had) ==
  \A q \in DOMAIN had :
    q \in Paths \/ (q \in DOMAIN calls /\ calls[q].kind = "big" /\ calls[q].pc # "ready")
PathsGiven(calls) ==
  \A c \in DOMAIN calls :
    /\ calls[c].kind = "big" => calls[c].path = c
    /\ calls[c].kind \in {"write", "edit"} => calls[c].path \in Paths

\* What the data of a call of the step that runs is: it loses none of the work
\* told of, a subagent's has all of it, and a Command's is in the files of the
\* state unless another Command of the step has put the same file there.
HasData(told, had, calls, step, c) ==
  /\ Agrees(told, calls[c].data) /\ Named(calls, calls[c].data)
  /\ calls[c].pc = "ready" => DOMAIN calls[c].data = {}
  /\ calls[c].pc = "sync" => \A p \in DOMAIN calls[c].data : c \in calls[c].data[p]
  /\ calls[c].pc = "works" => Kept(told, calls[c].data)
  /\ calls[c].pc = "command" /\ calls[c].kind # "task" =>
       \A p \in DOMAIN calls[c].data :
         /\ p \in DOMAIN had
         /\ \/ c \in had[p]
            \/ \E d \in step \ {c} : calls[d].pc = "command" /\ p \in DOMAIN calls[d].data

\* The strengthening of WorkKept.
KeepInv ==
  /\ Kept(agent.told, agent.files) /\ Named(call, agent.files) /\ PathsGiven(call)
  /\ agent.node = "tools" =>
       /\ Kept(agent.told, agent.saved) /\ Named(call, agent.saved)
       /\ \A c \in agent.step : HasData(agent.told, agent.files, call, agent.step, c)

\* A step takes no work from the update of the state by files that agree.
LEMMA KeptReduced ==
  ASSUME NEW told, NEW left, NEW right, Kept(told, left), Agrees(told, right)
  PROVE  Kept(told, Reduced(left, right))
<1> DEFINE had == Reduced(left, right)
<1>1. /\ DOMAIN had = DOMAIN left \cup DOMAIN right
      /\ \A p \in DOMAIN right : had[p] = right[p]
      /\ \A p \in DOMAIN left : p \notin DOMAIN right => had[p] = left[p]
  BY ReducedIs
<1> HIDE DEF had
<1>2. ASSUME NEW w \in told PROVE w[2] \in DOMAIN had /\ w[1] \in had[w[2]]
  <2>1. w[2] \in DOMAIN left /\ w[1] \in left[w[2]]
    BY DEF Kept
  <2>2. w[2] \in DOMAIN right => w[1] \in right[w[2]]
    BY DEF Agrees
  <2> QED BY <1>1, <2>1, <2>2
<1> QED BY <1>2 DEF Kept, had

\* Nor does it name a file otherwise.
LEMMA NamedReduced ==
  ASSUME NEW calls, NEW left, NEW right, Named(calls, left), Named(calls, right)
  PROVE  Named(calls, Reduced(left, right))
<1> DEFINE had == Reduced(left, right)
<1>1. DOMAIN had = DOMAIN left \cup DOMAIN right
  BY ReducedIs
<1> HIDE DEF had
<1> QED BY <1>1 DEF Named, had

\* Calls that have moved on are still named as they were.
LEMMA NamedStays ==
  ASSUME NEW calls, NEW next, NEW had, Named(calls, had), DOMAIN calls \subseteq DOMAIN next,
         \A c \in DOMAIN calls : /\ next[c].kind = calls[c].kind
                                 /\ calls[c].pc # "ready" => next[c].pc # "ready"
  PROVE  Named(next, had)
BY DEF Named

\* A tool keeps the invariant.
LEMMA ToolKeeps ==
  ASSUME Types, KeepInv, NEW c \in agent.step, Tool(c)
  PROVE  KeepInv'
<1> DEFINE told == agent.told
           had == agent.files
           step == agent.step
           data == call[c].data
           files2 == agent'.files
           data2 == call'[c].data
<1>0. /\ agent.node = "tools" /\ ToolChanges(c) /\ c \in DOMAIN call /\ c \in Nat
      /\ step \subseteq DOMAIN call
      /\ DOMAIN call = 1..Len(call) /\ agent \in AgentRow
  BY ToolStep DEF Types
<1>1. /\ agent'.node = "tools" /\ agent'.told = told /\ agent'.step = step
      /\ agent'.saved = agent.saved
      /\ \A d \in DOMAIN call : d # c => call'[d] = call[d]
      /\ call'[c].kind = call[c].kind /\ call'[c].path = call[c].path /\ Edge(c)
      /\ DOMAIN call' = DOMAIN call
  BY <1>0 DEF ToolChanges, AgentRow
<1>2. call[c].pc # "command" /\ call'[c].pc # "ready"
  BY <1>1 DEF Edge
<1>3. /\ Kept(told, had) /\ Named(call, had) /\ PathsGiven(call)
      /\ Kept(told, agent.saved) /\ Named(call, agent.saved)
      /\ \A d \in step : HasData(told, had, call, step, d)
  BY <1>0 DEF KeepInv
<1>4. ASSUME NEW f, Named(call, f) PROVE Named(call', f)
  BY <1>1, <1>2, <1>4 DEF Named
<1>5. PathsGiven(call')
  BY <1>1, <1>3 DEF PathsGiven
<1>6. /\ Kept(told, files2) /\ Named(call', files2)
      /\ \A p \in DOMAIN had : p \in DOMAIN files2
      /\ \A p \in DOMAIN had : files2[p] = had[p] \/ (call'[c].pc = "command" /\ p \in DOMAIN data2)
  <2>1. CASE files2 = had
    BY <1>3, <1>4, <2>1
  <2>2. CASE files2 = Reduced(had, data) /\ call'[c].pc = "command" /\ data2 = data
    <3>1. Agrees(told, data) /\ Named(call, data)
      BY <1>3 DEF HasData
    <3>2. Kept(told, files2) /\ Named(call, files2)
      BY <1>3, <2>2, <3>1, KeptReduced, NamedReduced
    <3>3. \A p \in DOMAIN had : p \in DOMAIN files2 /\ (p \notin DOMAIN data => files2[p] = had[p])
      <4> DEFINE reduced == Reduced(had, data)
      <4>1. /\ DOMAIN reduced = DOMAIN had \cup DOMAIN data
            /\ \A p \in DOMAIN data : reduced[p] = data[p]
            /\ \A p \in DOMAIN had : p \notin DOMAIN data => reduced[p] = had[p]
        BY ReducedIs, Zenon
      <4>2. files2 = reduced
        BY <2>2
      <4> HIDE DEF reduced, had, data, files2
      <4> QED BY <4>1, <4>2
    <3> QED BY <1>4, <2>2, <3>2, <3>3
  <2> QED BY <1>1, <2>1, <2>2 DEF Edge
<1>7. ASSUME NEW d \in step, d # c PROVE HasData(told, files2, call', step, d)
  <2>1. call'[d] = call[d] /\ HasData(told, had, call, step, d)
    BY <1>0, <1>1, <1>3, <1>7
  <2>2. Named(call', call'[d].data)
    BY <1>4, <2>1 DEF HasData
  <2>3. ASSUME call'[d].pc = "command", call'[d].kind # "task", NEW p \in DOMAIN call'[d].data
        PROVE  /\ p \in DOMAIN files2
               /\ \/ d \in files2[p]
                  \/ \E e \in step \ {d} : call'[e].pc = "command" /\ p \in DOMAIN call'[e].data
    <3>1. /\ p \in DOMAIN had
          /\ \/ d \in had[p]
             \/ \E e \in step \ {d} : call[e].pc = "command" /\ p \in DOMAIN call[e].data
      BY <2>1, <2>3 DEF HasData
    <3>2. CASE d \in had[p]
      BY <1>6, <1>7, <3>1, <3>2
    <3>3. CASE \E e \in step \ {d} : call[e].pc = "command" /\ p \in DOMAIN call[e].data
      BY <1>0, <1>1, <1>2, <1>6, <3>1, <3>3
    <3> QED BY <3>1, <3>2, <3>3
  <2> QED BY <2>1, <2>2, <2>3 DEF HasData
<1>8. HasData(told, files2, call', step, c)
  <2>0. HasData(told, had, call, step, c)
    BY <1>3
  <2>1. CASE /\ call[c].pc \in {"ready", "works"} /\ call'[c].pc = "message" /\ data2 = data
    BY <1>4, <2>0, <2>1 DEF HasData
  <2>2. CASE call[c].kind = "todo" /\ call[c].pc = "ready" /\ call'[c].pc = "command" /\ data2 = data
    BY <1>4, <2>0, <2>2 DEF HasData
  <2>3. CASE /\ call[c].kind \in {"big", "write", "edit"} /\ call[c].pc = "ready" /\ call'[c].pc = "sync"
             /\ DOMAIN data2 = {call[c].path} /\ c \in data2[call[c].path]
             /\ \/ call[c].kind = "big"
                \/ call[c].kind = "write" /\ call[c].path \notin DOMAIN had
                \/ /\ call[c].kind = "edit" /\ call[c].path \in DOMAIN had
                   /\ had[call[c].path] \subseteq data2[call[c].path]
    <3> DEFINE q == call[c].path
    <3>1. Named(call', data2)
      <4>1. q \in Paths \/ (q = c /\ call'[c].kind = "big")
        BY <1>0, <1>1, <1>3, <2>3 DEF PathsGiven
      <4> QED BY <1>0, <1>1, <2>3, <4>1 DEF Named
    <3>2. Agrees(told, data2)
      <4> SUFFICES ASSUME NEW w \in told, w[2] = q PROVE w[1] \in data2[q]
        BY <2>3 DEF Agrees
      <4>1. q \in DOMAIN had /\ w[1] \in had[q]
        BY <1>3 DEF Kept
      <4>2. call[c].kind # "big"
        <5> SUFFICES ASSUME call[c].kind = "big" PROVE FALSE
          OBVIOUS
        <5>1. q = c
          BY <1>0, <1>3 DEF PathsGiven
        <5>2. c \in Paths
          BY <1>3, <2>3, <4>1, <5>1 DEF Named
        <5> QED BY <1>0, <5>2, AgentAssumption
      <4> QED BY <2>3, <4>1, <4>2
    <3> QED BY <2>3, <3>1, <3>2 DEF HasData
  <2>4. CASE /\ call[c].kind \in {"big", "write", "edit"} /\ call[c].pc = "sync" /\ call'[c].pc = "command"
             /\ data2 = data /\ files2 = Reduced(had, data)
    <3>1. \A p \in DOMAIN data2 : p \in DOMAIN files2 /\ c \in files2[p]
      <4>1. \A p \in DOMAIN data : p \in DOMAIN files2 /\ files2[p] = data[p]
        <5> DEFINE reduced == Reduced(had, data)
        <5>1. /\ DOMAIN reduced = DOMAIN had \cup DOMAIN data
              /\ \A p \in DOMAIN data : reduced[p] = data[p]
              /\ \A p \in DOMAIN had : p \notin DOMAIN data => reduced[p] = had[p]
          BY ReducedIs, Zenon
        <5>2. files2 = reduced
          BY <2>4
        <5> HIDE DEF reduced, had, data, files2
        <5> QED BY <5>1, <5>2
      <4>2. \A p \in DOMAIN data : c \in data[p]
        BY <2>0, <2>4 DEF HasData
      <4> QED BY <2>4, <4>1, <4>2
    <3> QED BY <1>4, <2>0, <2>4, <3>1 DEF HasData
  <2>5. CASE call[c].kind = "task" /\ call'[c].pc = "works" /\ data2 = had
    <3>1. Agrees(told, had)
      BY <1>3 DEF Agrees, Kept
    <3> QED BY <1>3, <1>4, <2>5, <3>1 DEF HasData
  <2>6. CASE /\ call[c].pc = "works" /\ call'[c].pc = "works"
             /\ \E p \in Paths : data2 = Reduced(data, WorkOf(c, data, p))
    <3>1. PICK p \in Paths : data2 = Reduced(data, WorkOf(c, data, p))
      BY <2>6
    <3> DEFINE new == WorkOf(c, data, p)
    <3>2. Kept(told, data) /\ Named(call, data)
      BY <2>0, <2>6 DEF HasData
    <3>3. DOMAIN new = {p} /\ (p \in DOMAIN data => data[p] \subseteq new[p])
      BY WorkOfIs
    <3> HIDE DEF new
    <3>4. Agrees(told, new) /\ Named(call, new)
      BY <3>2, <3>3 DEF Agrees, Named, Kept
    <3>5. Kept(told, data2) /\ Named(call, data2)
      BY <3>1, <3>2, <3>4, KeptReduced, NamedReduced DEF new
    <3>6. Agrees(told, data2)
      BY <3>5 DEF Agrees, Kept
    <3> QED BY <1>4, <2>6, <3>5, <3>6 DEF HasData
  <2>7. CASE /\ call[c].kind = "task" /\ call[c].pc = "works" /\ call'[c].pc = "command" /\ data2 = data
    BY <1>1, <1>4, <2>0, <2>7 DEF HasData
  <2> QED BY <1>1, <2>1, <2>2, <2>3, <2>4, <2>5, <2>6, <2>7 DEF Edge
<1>9. Named(call', agent.saved)
  BY <1>3, <1>4
<1>10. \A d \in step : HasData(told, files2, call', step, d)
  BY <1>7, <1>8
<1> QED BY <1>1, <1>3, <1>5, <1>6, <1>9, <1>10 DEF KeepInv

\* The return of a step keeps it, and what it tells of is in the files.
LEMMA JoinKeeps ==
  ASSUME Types, KeepInv, Joins
  PROVE  KeepInv'
<1> DEFINE files2 == Reduced(agent.files, Joined)
           new == UNION {Told(c) : c \in Commands}
<1>0. /\ agent \in AgentRow /\ Len(call) \in Nat /\ DOMAIN call = 1..Len(call)
      /\ agent.step \subseteq 1..Len(call) /\ Commands \subseteq agent.step
  BY DEF Types, Commands
<1>1. /\ agent'.node = "model" /\ agent'.files = files2 /\ agent'.told = agent.told \cup new
      /\ call' = call /\ agent.node = "tools"
  BY <1>0 DEF Joins, AgentRow
<1>2. /\ Kept(agent.told, agent.files) /\ Named(call, agent.files) /\ PathsGiven(call)
      /\ \A c \in agent.step : HasData(agent.told, agent.files, call, agent.step, c)
  BY <1>1 DEF KeepInv
<1>3. CASE Commands = {}
  <2>1. Joined = <<>> /\ new = {}
    BY <1>3 DEF Joined
  <2>2. Agrees(agent.told, <<>>) /\ Named(call, <<>>)
    BY DEF Agrees, Named
  <2>3. Kept(agent.told, files2) /\ Named(call, files2)
    BY <1>2, <2>1, <2>2, KeptReduced, NamedReduced
  <2>4. agent'.told = agent.told
    BY <1>1, <2>1
  <2> QED BY <1>1, <1>2, <2>3, <2>4 DEF KeepInv
<1>4. CASE Commands # {}
  <2> DEFINE last == Max(Commands)
  <2>1. last \in Commands /\ \A k \in Commands : k <= last
    BY <1>0, <1>4, MaxIs
  <2>2. Joined = call[last].data
    BY <1>4, Zenon DEF Joined
  <2> HIDE DEF last
  <2>3. HasData(agent.told, agent.files, call, agent.step, last)
    BY <1>0, <1>2, <2>1
  <2>4. Kept(agent.told, files2) /\ Named(call, files2)
    BY <1>2, <2>2, <2>3, KeptReduced, NamedReduced DEF HasData
  <2>12. /\ DOMAIN files2 = DOMAIN agent.files \cup DOMAIN Joined
         /\ \A p \in DOMAIN Joined : files2[p] = Joined[p]
         /\ \A p \in DOMAIN agent.files : p \notin DOMAIN Joined => files2[p] = agent.files[p]
    BY ReducedIs, Zenon
  <2>5. ASSUME NEW w \in new PROVE w[2] \in DOMAIN files2 /\ w[1] \in files2[w[2]]
    <3>1. PICK c \in Commands : w \in Told(c)
      BY <2>5
    <3>2. PICK q \in DOMAIN call[c].data :
            /\ w = <<c, q>> /\ c \in call[c].data[q]
            /\ \A d \in Commands \ {c} : q \notin DOMAIN call[d].data /\ (call[c].kind = "task" => d < c)
      BY <3>1 DEF Told
    <3>3. CASE c = last
      <4> HIDE DEF files2
      <4> QED BY <2>2, <2>12, <3>2, <3>3
    <3>4. CASE c # last
      <4>1. q \notin DOMAIN Joined /\ call[c].kind # "task"
        <5>1. last \in Commands \ {c} /\ c <= last /\ c \in Nat /\ last \in Nat
          BY <1>0, <2>1, <3>4
        <5> QED BY <2>2, <3>2, <5>1
      <4>2. HasData(agent.told, agent.files, call, agent.step, c) /\ call[c].pc = "command"
        BY <1>0, <1>2 DEF Commands
      <4>3. q \in DOMAIN agent.files /\ c \in agent.files[q]
        BY <3>2, <4>1, <4>2 DEF HasData, Commands
      <4>4. q \in DOMAIN files2 /\ files2[q] = agent.files[q]
        <5> HIDE DEF files2
        <5> QED BY <2>12, <4>1, <4>3
      <4> HIDE DEF files2
      <4> QED BY <3>2, <4>3, <4>4
    <3> QED BY <3>3, <3>4
  <2>6. Kept(agent'.told, files2)
    BY <1>1, <2>4, <2>5 DEF Kept
  <2> QED BY <1>1, <1>2, <2>4, <2>6 DEF KeepInv
<1> QED BY <1>3, <1>4

\* Every step keeps it.
LEMMA NextKeepsWork == ASSUME Types, KeepInv, [AgentNext]_agentVars PROVE KeepInv'
<1>0. agent \in AgentRow /\ DOMAIN call = 1..Len(call) /\ Len(call) \in Nat
  BY DEF Types
<1>1. CASE Begin
  BY <1>0, <1>1 DEF Begin, KeepInv, AgentRow
<1>2. CASE CallsTools
  <2>1. /\ agent.node = "model" /\ agent'.told = agent.told /\ agent'.files = agent.files
        /\ agent'.saved = agent.files /\ agent'.step = (Len(call) + 1)..Len(call')
    BY <1>0, <1>2, StepOfCalls DEF AgentRow
  <2>2. /\ Len(call') \in Nat /\ Len(call') >= Len(call) /\ DOMAIN call' = 1..Len(call')
        /\ \A c \in 1..Len(call) : call'[c] = call[c]
        /\ \A c \in (Len(call) + 1)..Len(call') :
              /\ call'[c].pc = "ready" /\ DOMAIN call'[c].data = {}
              /\ call'[c].kind = "big" => call'[c].path = c
              /\ call'[c].kind \in {"write", "edit"} => call'[c].path \in Paths
    BY <1>2, StepOfCalls
  <2>3. DOMAIN call \subseteq DOMAIN call'
    BY <1>0, <2>2
  <2>4. Named(call', agent.files)
    BY <1>0, <2>2, <2>3 DEF KeepInv, Named
  <2>5. PathsGiven(call')
    BY <1>0, <2>2 DEF KeepInv, PathsGiven
  <2>6. ASSUME NEW c \in agent'.step
        PROVE  HasData(agent'.told, agent'.files, call', agent'.step, c)
    BY <2>1, <2>2 DEF HasData, Agrees, Named
  <2>7. Kept(agent'.told, agent'.files) /\ Kept(agent'.told, agent'.saved)
    BY <2>1 DEF KeepInv
  <2> QED BY <2>1, <2>4, <2>5, <2>6, <2>7 DEF KeepInv
<1>3. CASE Answers \/ Stops
  <2>1. PICK f \in {agent.files, agent.saved} :
          /\ agent' = [agent EXCEPT !.node = "end", !.step = {}, !.files = f]
          /\ f = agent.files \/ agent.node = "tools"
    BY <1>0, <1>3 DEF Answers, Stops, AgentRow
  <2>2. agent'.node = "end" /\ agent'.files = f /\ agent'.told = agent.told /\ call' = call
    BY <1>0, <1>3, <2>1 DEF Answers, Stops, AgentRow
  <2> QED BY <2>1, <2>2 DEF KeepInv
<1>4. CASE UNCHANGED agentVars
  BY <1>4 DEF agentVars, KeepInv
<1> QED BY <1>1, <1>2, <1>3, <1>4, ToolKeeps, JoinKeeps DEF AgentNext

\* The files of the conversation keep all work a tool was told of, whatever
\* subagents return later and however turns end.
THEOREM FilesKeepWork == AgentSpec => []WorkKept
<1>1. AgentInit => KeepInv
  BY DEF AgentInit, KeepInv, Kept, Named, PathsGiven
<1>2. KeepInv => WorkKept
  BY DEF KeepInv, Kept, WorkKept
<1> QED BY <1>1, <1>2, NextKeepsWork, TypesHold, PTL DEF AgentSpec

-----------------------------------------------------------------------------
(* The loop of an agent. *)

LoopSafety == LoopInit /\ [][LoopNext]_loopVars

\* The wrappers below dynamic_model, and the request with their sections.
Wrappers == <<"todos", "filesystem", "skills", "subagents">>
WholeRequest == [held |-> <<>>, sent |-> Wrappers]

\* The middlewares that have a wrapper, in their order.
LEMMA RealWrappers ==
  Real["wrap_model_call"] = <<"dynamic_model", "todos", "filesystem", "skills", "subagents">>
<1> DEFINE All == {Middleware[i] : i \in 1..11}
           has == HasHook["wrap_model_call"]
           A == Seq(All)
           kept(before, m) == IF m \in has THEN Append(before, m) ELSE before
           step == [before \in A |-> [m \in All |-> kept(before, m)]]
<1>1. "wrap_model_call" \in DOMAIN HasHook /\ has = {"dynamic_model", "todos", "filesystem", "skills", "subagents"}
  BY DEF HasHook
<1>2. DOMAIN Middleware = 1..11 /\ Middleware \in [1..11 -> All]
  <2>1. DOMAIN Middleware = 1..11 /\ Middleware = [i \in 1..11 |-> Middleware[i]]
    BY DEF Middleware
  <2> QED BY <2>1
<1>3. step \in [A -> [All -> A]]
  <2>1. ASSUME NEW before \in A, NEW m \in All PROVE kept(before, m) \in A
    <3>1. Append(before, m) \in A
      BY AppendProperties
    <3> HIDE DEF A, has
    <3> QED BY <3>1
  <2> HIDE DEF A, kept
  <2> QED BY <2>1
<1>4. <<>> \in A
  BY EmptySeq
<1>5. PICK it : Folds(it, step, 11, A, <<>>, Middleware)
  <2> HIDE DEF A, step
  <2> QED BY <1>2, <1>3, <1>4, FoldExists
<1> DEFINE Body(f) == [s \in SUBSET (DOMAIN Middleware) |->
                         IF s = {} THEN <<>> ELSE kept(f[s \ {Max(s)}], Middleware[Max(s)])]
           Iter == CHOOSE f : f = Body(f)
<1>6. Real["wrap_model_call"] = Iter[DOMAIN Middleware]
  BY <1>1 DEF Real, FoldLeft, MapThenFoldSet
<1>7. it = Body(it)
  <2> HIDE DEF A, kept
  <2>1. \A s \in SUBSET (1..11) : s # {} => step[it[s \ {Max(s)}]][Middleware[Max(s)]] = kept(it[s \ {Max(s)}], Middleware[Max(s)])
    <3> TAKE s \in SUBSET (1..11)
    <3> HAVE s # {}
    <3>1. Max(s) \in 1..11 /\ s \ {Max(s)} \in SUBSET (1..11)
      BY MaxIs
    <3>2. it[s \ {Max(s)}] \in A
      <4> HIDE DEF All, step
      <4>1. it \in [SUBSET (1..11) -> A]
        BY <1>5 DEF Folds
      <4> QED BY <3>1, <4>1
    <3>3. Middleware[Max(s)] \in All
      <4> HIDE DEF All, step
      <4> QED BY <1>2, <3>1
    <3> HIDE DEF All
    <3> QED BY <3>2, <3>3
  <2> HIDE DEF step
  <2> QED BY <1>2, <1>5, <2>1 DEF Folds
<1>8. Iter = Body(Iter)
  <2> HIDE DEF Body
  <2> QED BY <1>7
<1>9. Iter[{}] = <<>>
  BY <1>8
<1>10. \A k \in 1..11 : Iter[1..k] = kept(Iter[1..(k - 1)], Middleware[k])
  <2> TAKE k \in 1..11
  <2>1. /\ 1..k \in SUBSET (1..11) /\ 1..k # {} /\ Max(1..k) = k
         /\ (1..k) \ {Max(1..k)} = 1..(k - 1)
    BY FoldSteps
  <2> HIDE DEF kept, Iter
  <2> QED BY <1>2, <1>8, <2>1
<1>11. /\ Middleware[1] = "dynamic_model" /\ Middleware[7] = "todos" /\ Middleware[8] = "filesystem"
       /\ Middleware[9] = "skills" /\ Middleware[10] = "subagents"
       /\ Middleware[2] \notin has /\ Middleware[3] \notin has /\ Middleware[4] \notin has
       /\ Middleware[5] \notin has /\ Middleware[6] \notin has /\ Middleware[11] \notin has
  BY DEF Middleware, HasHook
<1>12. "dynamic_model" \in has /\ "todos" \in has /\ "filesystem" \in has /\ "skills" \in has /\ "subagents" \in has
  BY <1>1
<1> HIDE DEF Iter, Body, has
<1>13. Iter[1..1] = <<"dynamic_model">>
  <2>1. 1..(1 - 1) = {} /\ 1 \in 1..11
    OBVIOUS
  <2>2. Iter[1..1] = Append(<<>>, "dynamic_model")
    BY <1>9, <1>10, <1>11, <1>12, <2>1
  <2> QED BY <2>2
<1>14. Iter[1..6] = Iter[1..1]
  <2>1. Iter[1..2] = Iter[1..1]
    BY <1>10, <1>11
  <2>2. Iter[1..3] = Iter[1..2]
    BY <1>10, <1>11
  <2>3. Iter[1..4] = Iter[1..3]
    BY <1>10, <1>11
  <2>4. Iter[1..5] = Iter[1..4]
    BY <1>10, <1>11
  <2>5. Iter[1..6] = Iter[1..5]
    BY <1>10, <1>11
  <2> QED BY <2>1, <2>2, <2>3, <2>4, <2>5
<1>15. Iter[1..11] = <<"dynamic_model", "todos", "filesystem", "skills", "subagents">>
  <2>1. Iter[1..7] = <<"dynamic_model", "todos">>
    <3>1. Iter[1..7] = kept(Iter[1..6], Middleware[7]) /\ Middleware[7] = "todos"
      BY <1>10, <1>11
    <3>2. kept(<<"dynamic_model">>, "todos") = Append(<<"dynamic_model">>, "todos")
      BY <1>12
    <3> HIDE DEF kept
    <3> QED BY <1>13, <1>14, <3>1, <3>2
  <2>2. Iter[1..8] = <<"dynamic_model", "todos", "filesystem">>
    <3>1. Iter[1..8] = kept(Iter[1..7], Middleware[8]) /\ Middleware[8] = "filesystem"
      BY <1>10, <1>11
    <3>2. kept(<<"dynamic_model", "todos">>, "filesystem") = Append(<<"dynamic_model", "todos">>, "filesystem")
      BY <1>12
    <3> HIDE DEF kept
    <3> QED BY <2>1, <3>1, <3>2
  <2>3. Iter[1..9] = <<"dynamic_model", "todos", "filesystem", "skills">>
    <3>1. Iter[1..9] = kept(Iter[1..8], Middleware[9]) /\ Middleware[9] = "skills"
      BY <1>10, <1>11
    <3>2. kept(<<"dynamic_model", "todos", "filesystem">>, "skills") = Append(<<"dynamic_model", "todos", "filesystem">>, "skills")
      BY <1>12
    <3> HIDE DEF kept
    <3> QED BY <2>2, <3>1, <3>2
  <2>4. Iter[1..10] = <<"dynamic_model", "todos", "filesystem", "skills", "subagents">>
    <3>1. Iter[1..10] = kept(Iter[1..9], Middleware[10]) /\ Middleware[10] = "subagents"
      BY <1>10, <1>11
    <3>2. kept(<<"dynamic_model", "todos", "filesystem", "skills">>, "subagents") = Append(<<"dynamic_model", "todos", "filesystem", "skills">>, "subagents")
      BY <1>12
    <3> HIDE DEF kept
    <3> QED BY <2>3, <3>1, <3>2
  <2>5. Iter[1..11] = Iter[1..10]
    BY <1>10, <1>11
  <2> QED BY <2>4, <2>5
<1> QED BY <1>2, <1>6, <1>15

\* The chain gives a request the section of each wrapper, whatever it had before.
LEMMA ChainedIs ==
  ASSUME NEW x
  PROVE  Chained([held |-> <<>>, sent |-> x]) = WholeRequest
<1> DEFINE All == {Wrappers[i] : i \in 1..4}
           A == [held : {<<>>}, sent : Seq(All)]
           step == [r \in A |-> [m \in All |-> Modified(r, m)]]
           base == [held |-> <<>>, sent |-> <<>>]
           Body(f) == [s \in SUBSET (DOMAIN Wrappers) |->
                         IF s = {} THEN base ELSE Modified(f[s \ {Max(s)}], Wrappers[Max(s)])]
           Iter == CHOOSE f : f = Body(f)
<1>1. Tail(Real["wrap_model_call"]) = Wrappers
  BY RealWrappers DEF Wrappers
<1>2. DOMAIN Wrappers = 1..4 /\ Wrappers \in [1..4 -> All]
  <2>1. DOMAIN Wrappers = 1..4 /\ Wrappers = [i \in 1..4 |-> Wrappers[i]]
    BY DEF Wrappers
  <2> QED BY <2>1
<1>3. ASSUME NEW r \in A, NEW m \in All
      PROVE  Modified(r, m) \in A /\ Modified(r, m) = [held |-> <<>>, sent |-> Append(r.sent, m)]
  <2>1. r.sent \in Seq(All)
    OBVIOUS
  <2>2. Append(r.sent, m) \in Seq(All)
    BY <2>1, AppendProperties
  <2>3. Modified(r, m) = [held |-> <<>>, sent |-> Append(r.sent, m)]
    <3> HIDE DEF All
    <3> QED BY DEF Modified
  <2> HIDE DEF All
  <2> QED BY <2>2, <2>3
<1>4. step \in [A -> [All -> A]] /\ base \in A
  <2> HIDE DEF All
  <2>1. base \in A
    BY EmptySeq
  <2> HIDE DEF A
  <2> QED BY <1>3, <2>1
<1>5. Chained([held |-> <<>>, sent |-> x]) = Iter[DOMAIN Wrappers]
  <2>1. [[held |-> <<>>, sent |-> x] EXCEPT !.sent = [held |-> <<>>, sent |-> x].held] = base
    OBVIOUS
  <2>2. FoldLeft(Modified, base, Wrappers) = Iter[DOMAIN Wrappers]
    BY DEF FoldLeft, MapThenFoldSet
  <2> HIDE DEF Iter, base
  <2> QED BY <1>1, <2>1, <2>2 DEF Chained
<1>6. PICK it : Folds(it, step, 4, A, base, Wrappers)
  <2> HIDE DEF A, All, step, base
  <2> QED BY <1>2, <1>4, FoldExists
<1>7. it = Body(it)
  <2> HIDE DEF A, All, base
  <2>1. ASSUME NEW s \in SUBSET (1..4), s # {}
        PROVE  step[it[s \ {Max(s)}]][Wrappers[Max(s)]] = Modified(it[s \ {Max(s)}], Wrappers[Max(s)])
    <3>1. Max(s) \in 1..4 /\ s \ {Max(s)} \in SUBSET (1..4)
      BY <2>1, MaxIs
    <3>2. it[s \ {Max(s)}] \in A /\ Wrappers[Max(s)] \in All
      BY <1>2, <1>6, <3>1 DEF Folds
    <3> QED BY <3>2
  <2> HIDE DEF step
  <2> QED BY <1>2, <1>6, <2>1 DEF Folds
<1>8. Iter = Body(Iter)
  <2> HIDE DEF Body
  <2> QED BY <1>7
<1>9. Iter[{}] = base
  BY <1>8
<1>10. \A k \in 1..4 : Iter[1..k] = Modified(Iter[1..(k - 1)], Wrappers[k])
  <2> TAKE k \in 1..4
  <2>1. /\ 1..k \in SUBSET (1..4) /\ 1..k # {} /\ Max(1..k) = k
         /\ (1..k) \ {Max(1..k)} = 1..(k - 1)
    BY FoldSteps
  <2> HIDE DEF Iter
  <2> QED BY <1>2, <1>8, <2>1
<1> HIDE DEF Iter, Body
<1>11. Iter[1..1] = [held |-> <<>>, sent |-> <<"todos">>]
  <2>1. 1..(1 - 1) = {} /\ Wrappers[1] = "todos"
    BY DEF Wrappers
  <2>2. Iter[1..1] = Modified(base, "todos")
    BY <1>9, <1>10, <2>1
  <2> QED BY <2>2 DEF Modified
<1>12. Iter[1..2] = [held |-> <<>>, sent |-> <<"todos", "filesystem">>]
  <2>1. Iter[1..2] = Modified(Iter[1..1], Wrappers[2]) /\ Wrappers[2] = "filesystem"
    BY <1>10 DEF Wrappers
  <2>2. Modified([held |-> <<>>, sent |-> <<"todos">>], "filesystem") = [held |-> <<>>, sent |-> Append(<<"todos">>, "filesystem")]
    BY DEF Modified
  <2> QED BY <1>11, <2>1, <2>2
<1>13. Iter[1..3] = [held |-> <<>>, sent |-> <<"todos", "filesystem", "skills">>]
  <2>1. Iter[1..3] = Modified(Iter[1..2], Wrappers[3]) /\ Wrappers[3] = "skills"
    BY <1>10 DEF Wrappers
  <2>2. Modified([held |-> <<>>, sent |-> <<"todos", "filesystem">>], "skills") = [held |-> <<>>, sent |-> Append(<<"todos", "filesystem">>, "skills")]
    BY DEF Modified
  <2> QED BY <1>12, <2>1, <2>2
<1>14. Iter[1..4] = [held |-> <<>>, sent |-> <<"todos", "filesystem", "skills", "subagents">>]
  <2>1. Iter[1..4] = Modified(Iter[1..3], Wrappers[4]) /\ Wrappers[4] = "subagents"
    BY <1>10 DEF Wrappers
  <2>2. Modified([held |-> <<>>, sent |-> <<"todos", "filesystem", "skills">>], "subagents") = [held |-> <<>>, sent |-> Append(<<"todos", "filesystem", "skills">>, "subagents")]
    BY DEF Modified
  <2> QED BY <1>13, <2>1, <2>2
<1> QED BY <1>2, <1>5, <1>14 DEF WholeRequest, Wrappers

\* What a turn knows of its calls of the model. A second attempt is at the default
\* model, and so is the only attempt of a turn that asked for it.
Fields == {"at", "asked", "calls", "ran", "steps", "model", "retried", "request", "refused", "outcome"}
TurnOk(r) ==
  /\ Fields \subseteq DOMAIN r /\ r.retried \in BOOLEAN
  /\ r.retried \/ r.asked = DefaultModel => r.model \in {DefaultModel, None}
  /\ r.retried => r.model # None
  /\ r.asked = None => r.model = None
  /\ r.model # None => r.request = WholeRequest
  /\ r.outcome = "refused" => DefaultModel \in r.refused
LoopInv == DOMAIN loop = Turns /\ \A t \in Turns : TurnOk(loop[t])

\* Ways on that do not call the model.
LEMMA WaysOn ==
  ASSUME NEW r, TurnOk(r)
  PROVE  /\ TurnOk(NoCall(r))
         /\ \A n : TurnOk(Goes(r, n))
         /\ \A why : (why = "refused" => DefaultModel \in r.refused) => TurnOk(Fails(r, why))
         /\ \A n : TurnOk([r EXCEPT !.calls = n])
         /\ \A n, k : TurnOk([r EXCEPT !.calls = n, !.ran = k])
<1>1. TurnOk(NoCall(r)) /\ NoCall(r).refused = r.refused
  BY LoopAssumption DEF TurnOk, Fields, NoCall
<1>2. ASSUME NEW q, TurnOk(q), NEW n, NEW k
      PROVE  TurnOk(Goes(q, n)) /\ TurnOk([q EXCEPT !.calls = n]) /\ TurnOk([q EXCEPT !.calls = n, !.ran = k])
  BY <1>2 DEF TurnOk, Fields, Goes
<1>3. ASSUME NEW why, why = "refused" => DefaultModel \in r.refused PROVE TurnOk(Fails(r, why))
  <2> DEFINE q == NoCall(r)
  <2>1. TurnOk(q) /\ q.refused = r.refused
    BY <1>1
  <2> HIDE DEF q
  <2>2. TurnOk([q EXCEPT !.outcome = why, !.at = EndNode, !.steps = 0, !.calls = 0])
    BY <1>3, <2>1 DEF TurnOk, Fields
  <2> QED BY <2>2 DEF q, Fails
<1> QED BY <1>1, <1>2, <1>3

\* The default model is never put off to another one.
LEMMA DefaultIsResolved == Resolved(DefaultModel) = DefaultModel
BY LoopAssumption DEF Resolved

LEMMA LoopStepKeeps ==
  ASSUME LoopInv, NEW t \in Turns, Begins(t) \/ TurnStep(t)
  PROVE  LoopInv'
<1>1. TurnOk(loop[t]) /\ DOMAIN loop = Turns
  BY DEF LoopInv
<1>2. ASSUME NEW new, TurnOk(new), loop' = [loop EXCEPT ![t] = new] PROVE LoopInv'
  BY <1>1, <1>2 DEF LoopInv
<1>3. CASE Begins(t)
  <2>1. PICK m \in Asked : loop' = [loop EXCEPT ![t].asked = m, ![t].at = EntryNode]
    BY <1>3 DEF Begins
  <2> DEFINE new == [loop[t] EXCEPT !.asked = m, !.at = EntryNode]
  <2>2. loop[t].asked = None /\ loop[t].model = None /\ ~loop[t].retried
    BY <1>1, <1>3 DEF TurnOk, Begins
  <2>3. TurnOk(new)
    BY <1>1, <2>2 DEF TurnOk, Fields
  <2>4. loop' = [loop EXCEPT ![t] = new]
    BY <1>1, <2>1
  <2> HIDE DEF new
  <2> QED BY <1>2, <2>3, <2>4
<1>4. CASE Hook(t)
  <2>1. loop' = [loop EXCEPT ![t] = Goes(loop[t], JumpEdge(loop[t].at, JumpTo(loop[t].at, loop[t].calls)))]
    BY <1>1, <1>4 DEF Hook
  <2> QED BY <1>1, <1>2, <2>1, WaysOn
<1>5. CASE CallsModel(t)
  <2> DEFINE m == Resolved(loop[t].asked)
             q == Chained(NoRequest)
             new == [loop[t] EXCEPT !.model = m, !.request = q]
  <2>1. loop' = [loop EXCEPT ![t] = new] /\ loop[t].model = None /\ loop[t].asked # None
    BY <1>1, <1>5 DEF CallsModel, Runs
  <2>2. q = WholeRequest
    BY ChainedIs DEF NoRequest
  <2>3. loop[t].asked = DefaultModel => m = DefaultModel
    BY DefaultIsResolved
  <2> HIDE DEF m, q
  <2>4. ~loop[t].retried
    BY <1>1, <2>1 DEF TurnOk
  <2>5. TurnOk(new)
    BY <1>1, <2>1, <2>2, <2>3, <2>4 DEF TurnOk, Fields
  <2> HIDE DEF new
  <2> QED BY <1>2, <2>1, <2>5
<1>6. CASE ModelAnswers(t)
  <2>1. PICK n \in 0..MaxPerAnswer :
          loop' = [loop EXCEPT ![t] = Goes([NoCall(loop[t]) EXCEPT !.calls = n], DefaultEdge(ModelNode))]
    BY <1>1, <1>6 DEF ModelAnswers
  <2>2. TurnOk([NoCall(loop[t]) EXCEPT !.calls = n])
    BY <1>1, WaysOn
  <2>3. TurnOk(Goes([NoCall(loop[t]) EXCEPT !.calls = n], DefaultEdge(ModelNode)))
    BY <2>2, WaysOn
  <2> QED BY <1>2, <2>1, <2>3
<1>7. CASE ModelRefuses(t)
  <2> DEFINE turn == [loop[t] EXCEPT !.refused = @ \cup {loop[t].model}]
             q == Chained(loop[t].request)
             again == [turn EXCEPT !.model = DefaultModel, !.retried = TRUE, !.request = q]
  <2>1. /\ loop[t].model # None
        /\ loop' = [loop EXCEPT ![t] = IF GivesUp(t) THEN Fails(turn, "refused")
              ELSE [turn EXCEPT !.model = DefaultModel, !.retried = TRUE, !.request = Chained(turn.request)]]
    BY <1>7 DEF ModelRefuses
  <2>2. /\ TurnOk(turn) /\ turn.model = loop[t].model /\ turn.request = loop[t].request
        /\ turn.refused = loop[t].refused \cup {loop[t].model} /\ turn.asked = loop[t].asked
    BY <1>1 DEF TurnOk, Fields
  <2>3. CASE GivesUp(t)
    <3>1. loop[t].model = DefaultModel
      BY <1>1, <2>1, <2>3, LoopAssumption DEF GivesUp, Fallback, TurnOk
    <3>2. TurnOk(Fails(turn, "refused"))
      <4> HIDE DEF turn
      <4> QED BY <2>2, <3>1, WaysOn
    <3> QED BY <1>2, <2>1, <2>3, <3>2
  <2>4. CASE ~GivesUp(t)
    <3>1. q = WholeRequest
      <4>1. loop[t].request = [held |-> <<>>, sent |-> Wrappers]
        BY <1>1, <2>1 DEF TurnOk, WholeRequest
      <4> QED BY <4>1, ChainedIs
    <3>2. loop' = [loop EXCEPT ![t] = again]
      <4> HIDE DEF turn
      <4> QED BY <2>1, <2>2, <2>4
    <3>3. TurnOk(again)
      <4> HIDE DEF turn, q
      <4> QED BY <2>1, <2>2, <3>1, LoopAssumption DEF TurnOk, Fields
    <3> HIDE DEF again
    <3> QED BY <1>2, <3>2, <3>3
  <2> QED BY <2>3, <2>4
<1>8. CASE ModelRaises(t) \/ Overruns(t)
  <2>1. loop' = [loop EXCEPT ![t] = Fails(loop[t], "failed")]
    BY <1>1, <1>8 DEF ModelRaises, Overruns
  <2> QED BY <1>1, <1>2, <2>1, WaysOn
<1>9. CASE RunsTools(t)
  <2> DEFINE k == loop[t].ran + loop[t].calls
             new == [loop[t] EXCEPT !.calls = 0, !.ran = k]
  <2>1. loop' = [loop EXCEPT ![t] = Goes(new, DefaultEdge(ToolNode))]
    <3>1. loop' = [loop EXCEPT ![t] = Goes([loop[t] EXCEPT !.calls = 0, !.ran = loop[t].ran + loop[t].calls],
                                           DefaultEdge(ToolNode))]
      BY <1>9 DEF RunsTools
    <3> QED BY <3>1
  <2>2. TurnOk(new)
    <3> HIDE DEF k
    <3> QED BY <1>1, WaysOn
  <2> HIDE DEF new
  <2> QED BY <1>2, <2>1, <2>2, WaysOn
<1> QED BY <1>3, <1>4, <1>5, <1>6, <1>7, <1>8, <1>9 DEF TurnStep

\* A model without quota costs a turn neither its answer nor a part of its prompt,
\* for any models, turns, lists of unavailable models and outages: a turn fails for
\* its quota only if the default model refused it, as the one asked for or as the
\* second; and the request of a second attempt, which has been through the chain,
\* has every section once.
THEOREM LoopKeepsServing == LoopSafety => []LoopServes
<1>1. LoopInit => LoopInv
  <2> SUFFICES ASSUME LoopInit PROVE LoopInv
    OBVIOUS
  <2> DEFINE r == [at |-> EndNode, asked |-> None, calls |-> 0, ran |-> 0, steps |-> 0, model |-> None,
        retried |-> FALSE, request |-> NoRequest, refused |-> {}, outcome |-> None]
  <2>1. loop = [t \in Turns |-> r]
    BY DEF LoopInit
  <2>2. TurnOk(r)
    BY LoopAssumption DEF TurnOk, Fields, None
  <2> HIDE DEF r
  <2> QED BY <2>1, <2>2 DEF LoopInv
<1>2. LoopInv /\ [LoopNext]_loopVars => LoopInv'
  <2> SUFFICES ASSUME LoopInv, [LoopNext]_loopVars PROVE LoopInv'
    OBVIOUS
  <2>1. ASSUME UNCHANGED loop PROVE LoopInv'
    BY <2>1 DEF LoopInv
  <2>2. CASE (\E m \in Known : QuotaChanges(m)) \/ TimePasses \/ UNCHANGED loopVars
    BY <2>1, <2>2 DEF QuotaChanges, TimePasses, loopVars
  <2> QED BY <2>2, LoopStepKeeps DEF LoopNext
<1>3. LoopInv => LoopServes
  <2> SUFFICES ASSUME LoopInv, NEW t \in Turns
               PROVE  /\ loop[t].outcome = "refused" => DefaultModel \in loop[t].refused
                      /\ loop[t].model # None => \A m \in ToSet(Tail(Real["wrap_model_call"])) :
                           Cardinality({i \in DOMAIN loop[t].request.sent : loop[t].request.sent[i] = m}) = 1
    BY DEF LoopServes, QuotaNeedsDefault, PromptsAreWhole
  <2>1. TurnOk(loop[t])
    BY DEF LoopInv
  <2>2. Tail(Real["wrap_model_call"]) = Wrappers
    BY RealWrappers DEF Wrappers
  <2>3. ASSUME NEW m \in ToSet(Wrappers) PROVE Cardinality({i \in DOMAIN Wrappers : Wrappers[i] = m}) = 1
    <3>1. PICK k \in 1..4 : Wrappers[k] = m
      BY DEF ToSet, Wrappers
    <3>2. {i \in DOMAIN Wrappers : Wrappers[i] = m} = {k}
      BY <3>1 DEF Wrappers
    <3> QED BY <3>2, FS_Singleton
  <2>4. loop[t].model # None => loop[t].request.sent = Wrappers
    BY <2>1 DEF TurnOk, WholeRequest
  <2>5. loop[t].outcome = "refused" => DefaultModel \in loop[t].refused
    BY <2>1 DEF TurnOk
  <2> HIDE DEF Wrappers
  <2> QED BY <2>2, <2>3, <2>4, <2>5
<1> QED BY <1>1, <1>2, <1>3, PTL DEF LoopSafety

-----------------------------------------------------------------------------
(* The context of a subagent. *)

SummarySafety == SummaryInit /\ [][SummaryNext]_summaryVars

Sizes == {1} \cup {r.full : r \in Results} \cup {r.ref : r \in Results}
Messages ==
  {Human} \cup [kind : {"ai"}, calls : SUBSET (Nat \X Nat), size : {1}]
  \cup [kind : {"tool"}, call : Nat \X Nat, result : Results, size : Sizes, times : Nat]

\* Results follow the message whose calls they answer, with nothing but results
\* between, each call has one, and no call is answered twice.
InOrder(msgs, n) ==
  /\ \A i \in 1..Len(msgs) : IsTool(msgs[i]) =>
       /\ msgs[i].call \in (1..n) \X Nat
       /\ \E j \in 1..(i - 1) :
            /\ msgs[j].kind = "ai" /\ msgs[i].call \in msgs[j].calls
            /\ \A k \in (j + 1)..i : IsTool(msgs[k])
  /\ \A i \in 1..Len(msgs) : msgs[i].kind = "ai" => \A c \in msgs[i].calls : \E j \in (i + 1)..Len(msgs) :
       IsTool(msgs[j]) /\ msgs[j].call = c
  /\ \A i, j \in 1..Len(msgs) : IsTool(msgs[i]) /\ IsTool(msgs[j]) /\ msgs[i].call = msgs[j].call => i = j
Readable(msgs, had) ==
  \A i \in 1..Len(msgs) :
    IsTool(msgs[i]) /\ msgs[i].times = 1 => msgs[i].call \in DOMAIN had /\ had[msgs[i].call] = "result"
SumInv ==
  /\ context \in Seq(Messages) /\ asks \in Nat
  /\ InOrder(context, asks) /\ Readable(context, evicted)

LEMMA MessageIs ==
  ASSUME NEW msg \in Messages
  PROVE  /\ IsTool(msg) => msg \in [kind : {"tool"}, call : Nat \X Nat, result : Results, size : Sizes, times : Nat]
         /\ msg.kind = "ai" => msg \in [kind : {"ai"}, calls : SUBSET (Nat \X Nat), size : {1}]
         /\ msg.kind \in {"human", "ai", "tool"}
BY DEF Messages, IsTool, Human

\* A message that is offloaded stays what it was, and is offloaded once more.
LEMMA OffloadedIs ==
  ASSUME NEW msg \in Messages
  PROVE  /\ _offload_tool_result(msg) \in Messages
         /\ IsTool(_offload_tool_result(msg)) <=> IsTool(msg)
         /\ _offload_tool_result(msg).kind = msg.kind
         /\ IsTool(msg) => _offload_tool_result(msg).call = msg.call
         /\ ~IsTool(msg) => _offload_tool_result(msg) = msg
         /\ _offload_tool_result(msg) # msg =>
              IsTool(msg) /\ _offload_tool_result(msg).times = msg.times + 1
<1>1. CASE ~IsTool(msg) \/ msg.size <= Threshold
  <2>1. _offload_tool_result(msg) = msg
    BY <1>1 DEF _offload_tool_result
  <2> QED BY <1>1, <2>1
<1>2. CASE IsTool(msg) /\ ~(msg.size <= Threshold)
  <2> DEFINE size == IF msg.times = 0 THEN msg.result.ref ELSE 1
  <2>1. _offload_tool_result(msg) = [msg EXCEPT !.times = msg.times + 1, !.size = size]
    BY <1>2 DEF _offload_tool_result
  <2>2. msg \in [kind : {"tool"}, call : Nat \X Nat, result : Results, size : Sizes, times : Nat]
    BY <1>2, MessageIs
  <2>3. size \in Sizes
    BY <2>2 DEF Sizes
  <2> HIDE DEF size
  <2>4. msg.times + 1 \in Nat
    BY <2>2
  <2>5. [msg EXCEPT !.times = msg.times + 1, !.size = size]
          \in [kind : {"tool"}, call : Nat \X Nat, result : Results, size : Sizes, times : Nat]
    BY <2>2, <2>3, <2>4
  <2>6. _offload_tool_result(msg) \in Messages
    BY <2>1, <2>5 DEF Messages
  <2> QED BY <1>2, <2>1, <2>2, <2>6 DEF IsTool
<1> QED BY <1>1, <1>2

LEMMA OffloadKeeps ==
  ASSUME NEW msgs \in Seq(Messages), NEW n \in Nat, InOrder(msgs, n)
  PROVE  /\ _offload_tool_results(msgs) \in Seq(Messages)
         /\ Len(_offload_tool_results(msgs)) = Len(msgs)
         /\ \A i \in 1..Len(msgs) : _offload_tool_results(msgs)[i] = _offload_tool_result(msgs[i])
         /\ InOrder(_offload_tool_results(msgs), n)
<1> DEFINE off == _offload_tool_results(msgs)
<1>1. DOMAIN msgs = 1..Len(msgs) /\ Len(msgs) \in Nat /\ \A i \in 1..Len(msgs) : msgs[i] \in Messages
  OBVIOUS
<1>2. \A i \in 1..Len(msgs) : off[i] = _offload_tool_result(msgs[i])
  BY <1>1 DEF _offload_tool_results
<1>3. off \in Seq(Messages) /\ Len(off) = Len(msgs)
  <2>1. off = [i \in 1..Len(msgs) |-> _offload_tool_result(msgs[i])]
    BY <1>1 DEF _offload_tool_results
  <2>2. off \in [1..Len(msgs) -> Messages]
    BY <1>1, <2>1, OffloadedIs
  <2> HIDE DEF off
  <2> QED BY <1>1, <2>2, LenProperties, SeqDef
<1> HIDE DEF off
<1>4. \A i \in 1..Len(msgs) :
        /\ off[i].kind = msgs[i].kind /\ IsTool(off[i]) <=> IsTool(msgs[i])
        /\ IsTool(msgs[i]) => off[i].call = msgs[i].call
        /\ ~IsTool(msgs[i]) => off[i] = msgs[i]
  BY <1>1, <1>2, OffloadedIs
<1>5. \A i \in 1..Len(msgs) : msgs[i].kind = "ai" => off[i] = msgs[i]
  BY <1>4 DEF IsTool
<1>6. InOrder(off, n)
  <2>1. ASSUME NEW i \in 1..Len(off), IsTool(off[i])
        PROVE  /\ off[i].call \in (1..n) \X Nat
               /\ \E j \in 1..(i - 1) : /\ off[j].kind = "ai" /\ off[i].call \in off[j].calls
                                        /\ \A k \in (j + 1)..i : IsTool(off[k])
    <3>1. msgs[i].call \in (1..n) \X Nat /\ off[i].call = msgs[i].call /\ IsTool(msgs[i])
      BY <1>3, <1>4, <2>1 DEF InOrder
    <3>2. PICK j \in 1..(i - 1) : /\ msgs[j].kind = "ai" /\ msgs[i].call \in msgs[j].calls
                                  /\ \A k \in (j + 1)..i : IsTool(msgs[k])
      BY <1>3, <3>1 DEF InOrder
    <3>3. j \in 1..Len(msgs) /\ \A k \in (j + 1)..i : k \in 1..Len(msgs)
      BY <1>3
    <3>4. off[j] = msgs[j]
      BY <1>5, <3>2, <3>3
    <3>5. \A k \in (j + 1)..i : IsTool(off[k])
      BY <1>4, <3>2, <3>3
    <3> QED BY <3>1, <3>2, <3>4, <3>5
  <2>2. ASSUME NEW i \in 1..Len(off), off[i].kind = "ai", NEW c \in off[i].calls
        PROVE  \E j \in (i + 1)..Len(off) : IsTool(off[j]) /\ off[j].call = c
    <3>1. off[i] = msgs[i] /\ msgs[i].kind = "ai"
      BY <1>3, <1>4, <1>5, <2>2
    <3>2. PICK j \in (i + 1)..Len(msgs) : IsTool(msgs[j]) /\ msgs[j].call = c
      BY <1>3, <2>2, <3>1 DEF InOrder
    <3>3. j \in 1..Len(msgs)
      BY <1>3
    <3> QED BY <1>3, <1>4, <3>2, <3>3
  <2>3. ASSUME NEW i \in 1..Len(off), NEW j \in 1..Len(off), IsTool(off[i]), IsTool(off[j]), off[i].call = off[j].call
        PROVE  i = j
    BY <1>3, <1>4, <2>3 DEF InOrder
  <2> QED BY <2>1, <2>2, <2>3 DEF InOrder
<1> QED BY <1>2, <1>3, <1>6 DEF off

\* A cut is safe if no result comes first after it.
Safe(msgs, cut) == cut \in 0..Len(msgs) /\ (cut < Len(msgs) => ~IsTool(msgs[cut + 1]))

LEMMA SafeCutoff ==
  ASSUME NEW msgs \in Seq(Messages), NEW n \in Nat, InOrder(msgs, n), NEW cut \in 0..Len(msgs)
  PROVE  Safe(msgs, _find_safe_cutoff_point(msgs, cut))
<1>1. CASE cut >= Len(msgs) \/ ~IsTool(msgs[cut + 1])
  BY <1>1 DEF Safe, _find_safe_cutoff_point
<1>2. CASE ~(cut >= Len(msgs) \/ ~IsTool(msgs[cut + 1]))
  <2> DEFINE after == {j \in cut..Len(msgs) : \A k \in (cut + 1)..j : IsTool(msgs[k])}
             ids == {msgs[j].call : j \in after \ {cut}}
             callers == {i \in 1..cut : msgs[i].kind = "ai" /\ msgs[i].calls \cap ids # {}}
  <2>1. _find_safe_cutoff_point(msgs, cut) = IF callers = {} THEN Max(after) ELSE Max(callers) - 1
    BY <1>2 DEF _find_safe_cutoff_point
  <2>2. IsTool(msgs[cut + 1]) /\ cut + 1 \in 1..Len(msgs)
    BY <1>2
  <2>3. PICK j \in 1..cut : msgs[j].kind = "ai" /\ msgs[cut + 1].call \in msgs[j].calls
    BY <2>2 DEF InOrder
  <2>4. cut + 1 \in after \ {cut}
    <3>1. \A k \in (cut + 1)..(cut + 1) : k = cut + 1
      OBVIOUS
    <3>2. cut + 1 \in cut..Len(msgs)
      BY <2>2
    <3> QED BY <2>2, <3>1, <3>2
  <2>5. msgs[cut + 1].call \in ids
    <3> HIDE DEF after
    <3> QED BY <2>4
  <2>6. j \in callers
    <3> HIDE DEF ids
    <3> QED BY <2>3, <2>5
  <2>7. callers \subseteq 1..cut /\ cut \in Nat /\ \A i \in callers : msgs[i].kind = "ai"
    <3> HIDE DEF ids
    <3> QED OBVIOUS
  <2> HIDE DEF after, ids, callers
  <2>8. Max(callers) \in callers
    BY <2>6, <2>7, MaxIs
  <2>9. PICK p \in 1..cut : p = Max(callers) /\ msgs[p].kind = "ai"
    BY <2>7, <2>8
  <2>10. _find_safe_cutoff_point(msgs, cut) = p - 1
    BY <2>1, <2>6, <2>9
  <2>11. p - 1 \in 0..Len(msgs) /\ (p - 1) + 1 = p
    BY <2>9
  <2> QED BY <2>9, <2>10, <2>11 DEF Safe, IsTool
<1> QED BY <1>1, <1>2

\* The cut that is looked for by tokens is safe, wherever the halving ends.
LEMMA TokenCutoff ==
  ASSUME NEW msgs \in Seq(Messages), NEW n \in Nat, InOrder(msgs, n), NEW limit
  PROVE  Safe(msgs, _find_cutoff_by_token_limit(msgs, limit))
<1> DEFINE N == Len(msgs)
           B == BitLength(N) + 1
           A == [left : 0..N, right : 0..N, found : 0..N]
           mid(s) == (s.left + s.right) \div 2
           halve(s, i) ==
             CASE s.left >= s.right -> s
               [] s.left < s.right /\ Tokens(SubSeq(msgs, mid(s) + 1, Len(msgs))) <= limit ->
                    [s EXCEPT !.found = mid(s), !.right = mid(s)]
               [] OTHER -> [s EXCEPT !.left = mid(s) + 1]
           step == [s \in A |-> [i \in 1..B |-> halve(s, i)]]
           base == [left |-> 0, right |-> Len(msgs), found |-> Len(msgs)]
           places == [i \in 1..B |-> i]
           Body(f) == [s \in SUBSET (DOMAIN places) |->
                         IF s = {} THEN base ELSE halve(f[s \ {Max(s)}], places[Max(s)])]
           Iter == CHOOSE f : f = Body(f)
<1>1. N \in Nat
  OBVIOUS
<1>2. B \in Nat
  <2>1. IsFiniteSet(1..N)
    BY <1>1, FS_Interval
  <2>2. IsFiniteSet({2^k : k \in 0..N} \cap (1..N))
    BY <2>1, FS_Subset
  <2>3. Cardinality({2^k : k \in 0..N} \cap (1..N)) \in Nat
    BY <2>2, FS_CardinalityType
  <2> QED BY <2>3 DEF BitLength
<1>3. ASSUME NEW s \in A, NEW i \in 1..B PROVE halve(s, i) \in A
  <2>1. s.left \in 0..N /\ s.right \in 0..N /\ s.found \in 0..N
    OBVIOUS
  <2>2. s.left < s.right => mid(s) \in 0..N /\ mid(s) + 1 \in 0..N
    BY <1>1, <2>1
  <2>3. CASE s.left >= s.right
    BY <2>3
  <2>4. CASE s.left < s.right
    <3> DEFINE m == mid(s)
    <3>1. [s EXCEPT !.found = m, !.right = m] \in A /\ [s EXCEPT !.left = m + 1] \in A
      <4> HIDE DEF m
      <4> QED BY <2>2, <2>4 DEF m
    <3>2. halve(s, i) \in {[s EXCEPT !.found = m, !.right = m], [s EXCEPT !.left = m + 1]}
      <4>1. ~(s.left >= s.right)
        BY <2>1, <2>4
      <4> HIDE DEF m
      <4> QED BY <2>4, <4>1 DEF m
    <3> QED BY <3>1, <3>2
  <2> QED BY <2>1, <2>3, <2>4
<1>4. step \in [A -> [1..B -> A]] /\ base \in A /\ places \in [1..B -> 1..B] /\ DOMAIN places = 1..B
  <2>1. base \in A
    BY <1>1
  <2> HIDE DEF A, B, N, halve
  <2> QED BY <1>3, <2>1
<1>5. PICK it : Folds(it, step, B, A, base, places)
  <2> HIDE DEF A, B, step, base, places
  <2> QED BY <1>2, <1>4, FoldExists
<1>6. it = Body(it)
  <2> HIDE DEF A, B, base, places, halve
  <2>1. ASSUME NEW s \in SUBSET (1..B), s # {}
        PROVE  step[it[s \ {Max(s)}]][places[Max(s)]] = halve(it[s \ {Max(s)}], places[Max(s)])
    <3>1. Max(s) \in 1..B /\ s \ {Max(s)} \in SUBSET (1..B)
      BY <1>2, <2>1, MaxIs
    <3>2. it[s \ {Max(s)}] \in A /\ places[Max(s)] \in 1..B
      BY <1>4, <1>5, <3>1 DEF Folds
    <3> QED BY <3>2
  <2> HIDE DEF step
  <2> QED BY <1>4, <1>5, <2>1 DEF Folds
<1>7. Iter = Body(Iter)
  <2> HIDE DEF Body
  <2> QED BY <1>6
<1>8. _find_cutoff_by_token_limit(msgs, limit) =
        IF Tokens(msgs) <= limit THEN 0
        ELSE _find_safe_cutoff_point(msgs, IF Iter[DOMAIN places].found = Len(msgs) THEN Iter[DOMAIN places].left
                                           ELSE Iter[DOMAIN places].found)
  BY DEF _find_cutoff_by_token_limit, FoldLeft, MapThenFoldSet
<1>9. Iter[{}] = base
  BY <1>7
<1> HIDE DEF Iter
<1>10. \A k \in 1..B : Iter[1..k] = halve(Iter[1..(k - 1)], places[k])
  <2> TAKE k \in 1..B
  <2>1. /\ 1..k \in SUBSET (1..B) /\ 1..k # {} /\ Max(1..k) = k
         /\ (1..k) \ {Max(1..k)} = 1..(k - 1)
    BY <1>2, FoldSteps
  <2> HIDE DEF B, halve, base, places
  <2> QED BY <1>4, <1>7, <2>1
<1>11. Iter[1..B] \in A
  <2> HIDE DEF A, B, halve, base, places, step, Body
  <2> DEFINE Bad == {k \in 0..B : Iter[1..k] \notin A}
  <2>1. Bad = {}
    <3> SUFFICES ASSUME Bad # {} PROVE FALSE
      OBVIOUS
    <3>1. Bad \in SUBSET Nat
      OBVIOUS
    <3>2. PICK k \in Bad : \A y \in Bad : k <= y
      BY <3>1, SmallestOne
    <3>3. k # 0
      <4>1. 1..0 = {}
        OBVIOUS
      <4> QED BY <1>4, <1>9, <3>2, <4>1
    <3>4. k \in 1..B /\ k - 1 \in 0..B /\ k - 1 \notin Bad
      BY <1>2, <3>2, <3>3
    <3>5. Iter[1..(k - 1)] \in A /\ places[k] \in 1..B
      BY <1>4, <3>4
    <3>6. Iter[1..k] \in A
      BY <1>3, <1>10, <3>4, <3>5
    <3> QED BY <3>2, <3>6
  <2> QED BY <1>2, <2>1
<1>12. Safe(msgs, 0)
  BY <1>1 DEF Safe, InOrder
<1>13. ASSUME NEW end, end \in A PROVE (IF end.found = Len(msgs) THEN end.left ELSE end.found) \in 0..Len(msgs)
  BY <1>13
<1> HIDE DEF A, B, places
<1>14. DOMAIN places = 1..B
  BY <1>4
<1>15. Safe(msgs, _find_safe_cutoff_point(msgs, IF Iter[DOMAIN places].found = Len(msgs) THEN Iter[DOMAIN places].left
                                           ELSE Iter[DOMAIN places].found))
  BY <1>11, <1>13, <1>14, SafeCutoff
<1> QED BY <1>8, <1>12, <1>15

\* What is left after a safe cut, behind a message of the user, is in order.
LEMMA CutKeeps ==
  ASSUME NEW msgs \in Seq(Messages), NEW n \in Nat, InOrder(msgs, n), NEW cut, Safe(msgs, cut)
  PROVE  /\ <<Human>> \o SubSeq(msgs, cut + 1, Len(msgs)) \in Seq(Messages)
         /\ InOrder(<<Human>> \o SubSeq(msgs, cut + 1, Len(msgs)), n)
         /\ \A had : Readable(msgs, had) => Readable(<<Human>> \o SubSeq(msgs, cut + 1, Len(msgs)), had)
<1> DEFINE new == <<Human>> \o SubSeq(msgs, cut + 1, Len(msgs))
<1>1. cut \in 0..Len(msgs) /\ Len(msgs) \in Nat /\ (cut < Len(msgs) => ~IsTool(msgs[cut + 1]))
  BY DEF Safe
<1>2. Human \in Messages /\ ~IsTool(Human) /\ Human.kind # "ai"
  BY DEF Human, Messages, IsTool
<1>3. /\ SubSeq(msgs, cut + 1, Len(msgs)) \in Seq(Messages)
      /\ Len(SubSeq(msgs, cut + 1, Len(msgs))) = Len(msgs) - cut
      /\ \A i \in 1..(Len(msgs) - cut) : SubSeq(msgs, cut + 1, Len(msgs))[i] = msgs[cut + i]
  BY <1>1
<1>4. /\ new \in Seq(Messages) /\ Len(new) = Len(msgs) - cut + 1 /\ new[1] = Human
      /\ \A i \in 2..Len(new) : new[i] = msgs[cut + i - 1] /\ cut + i - 1 \in 1..Len(msgs)
  <2> DEFINE rest == SubSeq(msgs, cut + 1, Len(msgs))
  <2>1. <<Human>> \in Seq(Messages) /\ Len(<<Human>>) = 1 /\ <<Human>>[1] = Human
    BY <1>2
  <2>2. rest \in Seq(Messages) /\ Len(rest) = Len(msgs) - cut
    BY <1>3
  <2> HIDE DEF rest
  <2>3. /\ <<Human>> \o rest \in Seq(Messages) /\ Len(<<Human>> \o rest) = Len(msgs) - cut + 1
        /\ (<<Human>> \o rest)[1] = Human
        /\ \A i \in 2..Len(<<Human>> \o rest) : (<<Human>> \o rest)[i] = rest[i - 1]
    BY <1>1, <2>1, <2>2
  <2>4. \A i \in 2..(Len(msgs) - cut + 1) : i - 1 \in 1..(Len(msgs) - cut) /\ cut + (i - 1) = cut + i - 1 /\ cut + i - 1 \in 1..Len(msgs)
    BY <1>1
  <2>5. \A i \in 2..(Len(msgs) - cut + 1) : rest[i - 1] = msgs[cut + i - 1]
    BY <1>3, <2>4 DEF rest
  <2> QED BY <2>3, <2>4, <2>5 DEF rest
<1> HIDE DEF new
<1>5. InOrder(new, n)
  <2>1. ASSUME NEW i \in 1..Len(new), IsTool(new[i])
        PROVE  /\ new[i].call \in (1..n) \X Nat
               /\ \E j \in 1..(i - 1) : /\ new[j].kind = "ai" /\ new[i].call \in new[j].calls
                                        /\ \A k \in (j + 1)..i : IsTool(new[k])
    <3>1. i \in 2..Len(new)
      BY <1>2, <1>4, <2>1
    <3>2. PICK x \in 1..Len(msgs) : x = cut + i - 1 /\ new[i] = msgs[x]
      BY <1>4, <3>1
    <3>3. PICK y \in 1..(x - 1) : /\ msgs[y].kind = "ai" /\ msgs[x].call \in msgs[y].calls
                                  /\ \A k \in (y + 1)..x : IsTool(msgs[k])
      BY <2>1, <3>2 DEF InOrder
    <3>4. y > cut
      <4>1. SUFFICES ASSUME y <= cut PROVE FALSE
        BY <1>1
      <4>2. cut + 1 \in (y + 1)..x /\ cut < Len(msgs)
        BY <1>1, <3>1, <3>2, <4>1
      <4> QED BY <1>1, <3>3, <4>2
    <3>5. PICK j \in 1..(i - 1) : j = y - cut + 1 /\ j >= 2
      BY <1>1, <3>1, <3>2, <3>4
    <3>6. new[j] = msgs[y]
      <4>1. j \in 2..Len(new) /\ cut + j - 1 = y
        BY <1>1, <1>4, <3>1, <3>5
      <4> QED BY <1>4, <4>1
    <3>7. ASSUME NEW k \in (j + 1)..i PROVE IsTool(new[k])
      <4>1. k \in 2..Len(new) /\ cut + k - 1 \in (y + 1)..x
        <5>1. Len(new) \in Nat
          BY <1>4
        <5>2. k \in 2..Len(new)
          BY <3>1, <3>5, <5>1
        <5> QED BY <1>1, <3>2, <3>5, <5>2
      <4>2. new[k] = msgs[cut + k - 1]
        BY <1>4, <4>1
      <4>3. IsTool(msgs[cut + k - 1])
        BY <3>3, <4>1
      <4> QED BY <4>2, <4>3
    <3>8. new[i].call \in (1..n) \X Nat
      BY <2>1, <3>2 DEF InOrder
    <3> QED BY <3>2, <3>3, <3>5, <3>6, <3>7, <3>8
  <2>2. ASSUME NEW i \in 1..Len(new), new[i].kind = "ai", NEW c \in new[i].calls
        PROVE  \E j \in (i + 1)..Len(new) : IsTool(new[j]) /\ new[j].call = c
    <3>1. i \in 2..Len(new)
      BY <1>2, <1>4, <2>2
    <3>2. PICK x \in 1..Len(msgs) : x = cut + i - 1 /\ new[i] = msgs[x]
      BY <1>4, <3>1
    <3>3. PICK y \in (x + 1)..Len(msgs) : IsTool(msgs[y]) /\ msgs[y].call = c
      BY <2>2, <3>2 DEF InOrder
    <3>4. PICK j \in (i + 1)..Len(new) : j = y - cut + 1 /\ j \in 2..Len(new) /\ cut + j - 1 = y
      BY <1>1, <1>4, <3>1, <3>2, <3>3
    <3> QED BY <1>4, <3>3, <3>4
  <2>3. ASSUME NEW i \in 1..Len(new), NEW j \in 1..Len(new), IsTool(new[i]), IsTool(new[j]), new[i].call = new[j].call
        PROVE  i = j
    <3>1. i \in 2..Len(new) /\ j \in 2..Len(new)
      BY <1>2, <1>4, <2>3
    <3>2. PICK x \in 1..Len(msgs) : x = cut + i - 1 /\ new[i] = msgs[x]
      BY <1>4, <3>1
    <3>3. PICK y \in 1..Len(msgs) : y = cut + j - 1 /\ new[j] = msgs[y]
      BY <1>4, <3>1
    <3>4. IsTool(msgs[x]) /\ IsTool(msgs[y]) /\ msgs[x].call = msgs[y].call
      BY <2>3, <3>2, <3>3
    <3>5. x = y
      BY <3>4 DEF InOrder
    <3> QED BY <1>1, <3>2, <3>3, <3>5
  <2> QED BY <2>1, <2>2, <2>3 DEF InOrder
<1>6. ASSUME NEW had, Readable(msgs, had) PROVE Readable(new, had)
  <2> SUFFICES ASSUME NEW i \in 1..Len(new), IsTool(new[i]), new[i].times = 1
               PROVE  new[i].call \in DOMAIN had /\ had[new[i].call] = "result"
    BY DEF Readable
  <2>1. i \in 2..Len(new)
    BY <1>2, <1>4
  <2> QED BY <1>4, <1>6, <2>1 DEF Readable
<1> QED BY <1>4, <1>5, <1>6 DEF new

\* The new calls of the model and their results come after all others.
LEMMA ReturnKeeps ==
  ASSUME NEW msgs \in Seq(Messages), NEW n \in Nat, InOrder(msgs, n),
         NEW k \in Nat, NEW r \in [1..k -> Results]
  PROVE  LET new == Append(msgs, Ai(n + 1, k)) \o [c \in 1..k |-> ToolMessage(<<n + 1, c>>, r[c])] IN
         /\ new \in Seq(Messages) /\ InOrder(new, n + 1)
         /\ \A had : Readable(msgs, had) => Readable(new, had)
<1> DEFINE ai == Ai(n + 1, k)
           tool(c) == ToolMessage(<<n + 1, c>>, r[c])
           tools == [c \in 1..k |-> tool(c)]
           new == Append(msgs, ai) \o tools
           N == Len(msgs)
<1>1. /\ ai \in Messages /\ ai.kind = "ai" /\ ~IsTool(ai)
      /\ \A c : c \in ai.calls <=> \E d \in 1..k : c = <<n + 1, d>>
  <2>1. ai \in [kind : {"ai"}, calls : SUBSET (Nat \X Nat), size : {1}]
    BY DEF Ai
  <2> QED BY <2>1 DEF Messages, Ai, IsTool
<1>2. \A c \in 1..k : /\ tool(c) \in Messages /\ IsTool(tool(c)) /\ tool(c).kind = "tool"
                      /\ tool(c).call = <<n + 1, c>> /\ tool(c).times = 0
  <2> TAKE c \in 1..k
  <2>1. r[c].full \in Sizes
    BY DEF Sizes
  <2>2. tool(c) \in [kind : {"tool"}, call : Nat \X Nat, result : Results, size : Sizes, times : Nat]
    BY <2>1 DEF ToolMessage
  <2> QED BY <2>2 DEF Messages, ToolMessage, IsTool
<1> HIDE DEF ai, tool
<1>3. tools \in Seq(Messages) /\ Len(tools) = k /\ \A c \in 1..k : tools[c] = tool(c)
  <2>1. tools \in [1..k -> Messages]
    BY <1>2
  <2> QED BY <2>1, LenProperties, SeqDef
<1>4. Append(msgs, ai) \in Seq(Messages) /\ Len(Append(msgs, ai)) = N + 1
      /\ Append(msgs, ai)[N + 1] = ai /\ \A i \in 1..N : Append(msgs, ai)[i] = msgs[i]
  BY <1>1, AppendProperties
<1>5. N \in Nat
  OBVIOUS
<1> HIDE DEF tools, N
<1>6. /\ new \in Seq(Messages) /\ Len(new) = N + 1 + k
      /\ \A i \in 1..N : new[i] = msgs[i]
      /\ new[N + 1] = ai
      /\ \A c \in 1..k : new[N + 1 + c] = tool(c)
  <2> DEFINE left == Append(msgs, ai)
  <2>1. left \in Seq(Messages) /\ tools \in Seq(Messages)
    BY <1>3, <1>4
  <2> HIDE DEF left
  <2>2. /\ left \o tools \in Seq(Messages) /\ Len(left \o tools) = Len(left) + Len(tools)
        /\ \A i \in 1..Len(left) : (left \o tools)[i] = left[i]
        /\ \A c \in 1..Len(tools) : (left \o tools)[Len(left) + c] = tools[c]
    BY <2>1
  <2> QED BY <1>3, <1>4, <1>5, <2>2 DEF left
<1> HIDE DEF new
<1>7. \A i \in 1..Len(new) : i \in 1..N \/ i = N + 1 \/ \E c \in 1..k : i = N + 1 + c
  <2> TAKE i \in 1..Len(new)
  <2>1. CASE i > N + 1
    <3>1. i - N - 1 \in 1..k /\ i = N + 1 + (i - N - 1)
      BY <1>5, <1>6, <2>1
    <3> QED BY <3>1
  <2> QED BY <1>5, <1>6, <2>1
<1>8. \A i \in 1..Len(new) : IsTool(new[i]) =>
        \/ i \in 1..N /\ new[i] = msgs[i]
        \/ \E c \in 1..k : i = N + 1 + c /\ new[i] = tool(c) /\ new[i].call = <<n + 1, c>>
  <2> SUFFICES ASSUME NEW i \in 1..Len(new), IsTool(new[i])
               PROVE  \/ i \in 1..N /\ new[i] = msgs[i]
                      \/ \E c \in 1..k : i = N + 1 + c /\ new[i] = tool(c) /\ new[i].call = <<n + 1, c>>
    OBVIOUS
  <2>1. i # N + 1
    BY <1>1, <1>6
  <2>2. ASSUME NEW c \in 1..k, i = N + 1 + c PROVE new[i] = tool(c) /\ new[i].call = <<n + 1, c>>
    BY <1>2, <1>6, <2>2
  <2> QED BY <1>6, <1>7, <2>1, <2>2
<1>9. \A i \in 1..N : IsTool(msgs[i]) => msgs[i].call \in (1..n) \X Nat
  BY DEF InOrder, N
<1>10. InOrder(new, n + 1)
  <2>1. ASSUME NEW i \in 1..Len(new), IsTool(new[i])
        PROVE  /\ new[i].call \in (1..(n + 1)) \X Nat
               /\ \E j \in 1..(i - 1) : /\ new[j].kind = "ai" /\ new[i].call \in new[j].calls
                                        /\ \A m \in (j + 1)..i : IsTool(new[m])
    <3>1. CASE i \in 1..N /\ new[i] = msgs[i]
      <4>1. new[i].call \in (1..n) \X Nat
        BY <1>9, <2>1, <3>1
      <4>2. PICK j \in 1..(i - 1) : /\ msgs[j].kind = "ai" /\ msgs[i].call \in msgs[j].calls
                                    /\ \A m \in (j + 1)..i : IsTool(msgs[m])
        BY <2>1, <3>1 DEF InOrder, N
      <4>3. j \in 1..N /\ \A m \in (j + 1)..i : m \in 1..N
        BY <1>5, <3>1, <4>2
      <4>4. \A m \in (j + 1)..i : IsTool(new[m])
        BY <1>6, <4>2, <4>3
      <4>5. new[j] = msgs[j]
        BY <1>6, <4>3
      <4>6. new[i].call \in (1..(n + 1)) \X Nat
        BY <4>1
      <4> QED BY <3>1, <4>2, <4>4, <4>5, <4>6
    <3>2. ASSUME NEW c \in 1..k, i = N + 1 + c, new[i] = tool(c), new[i].call = <<n + 1, c>>
          PROVE  /\ new[i].call \in (1..(n + 1)) \X Nat
                 /\ \E j \in 1..(i - 1) : /\ new[j].kind = "ai" /\ new[i].call \in new[j].calls
                                          /\ \A m \in (j + 1)..i : IsTool(new[m])
      <4>1. N + 1 \in 1..(i - 1)
        BY <1>5, <3>2
      <4>2. new[N + 1].kind = "ai" /\ new[i].call \in new[N + 1].calls
        BY <1>1, <1>6, <3>2
      <4>3. ASSUME NEW m \in ((N + 1) + 1)..i PROVE IsTool(new[m])
        <5>1. PICK d \in 1..k : m = N + 1 + d
          <6>1. m - N - 1 \in 1..k /\ m = N + 1 + (m - N - 1)
            BY <1>5, <3>2
          <6> QED BY <6>1
        <5> QED BY <1>2, <1>6, <5>1
      <4>4. new[i].call \in (1..(n + 1)) \X Nat
        BY <3>2
      <4> QED BY <4>1, <4>2, <4>3, <4>4
    <3> QED BY <1>8, <2>1, <3>1, <3>2
  <2>2. ASSUME NEW i \in 1..Len(new), new[i].kind = "ai", NEW c \in new[i].calls
        PROVE  \E j \in (i + 1)..Len(new) : IsTool(new[j]) /\ new[j].call = c
    <3>1. CASE i \in 1..N
      <4>1. new[i] = msgs[i]
        BY <1>6, <3>1
      <4>2. PICK j \in (i + 1)..N : IsTool(msgs[j]) /\ msgs[j].call = c
        BY <2>2, <3>1, <4>1 DEF InOrder, N
      <4>3. j \in 1..N /\ j \in (i + 1)..Len(new)
        BY <1>5, <1>6, <3>1
      <4> QED BY <1>6, <4>2, <4>3
    <3>2. CASE i = N + 1
      <4>1. PICK d \in 1..k : c = <<n + 1, d>>
        BY <1>1, <1>6, <2>2, <3>2
      <4>2. N + 1 + d \in (i + 1)..Len(new)
        BY <1>5, <1>6, <3>2
      <4> QED BY <1>2, <1>6, <4>1, <4>2
    <3>3. ASSUME NEW d \in 1..k, i = N + 1 + d PROVE FALSE
      <4>1. new[i] = tool(d)
        BY <1>6, <3>3
      <4> QED BY <1>2, <2>2, <4>1
    <3> QED BY <1>7, <3>1, <3>2, <3>3
  <2>3. ASSUME NEW i \in 1..Len(new), NEW j \in 1..Len(new), IsTool(new[i]), IsTool(new[j]), new[i].call = new[j].call
        PROVE  i = j
    <3>1. ASSUME NEW c, <<n + 1, c>> \in (1..n) \X Nat PROVE FALSE
      BY <3>1
    <3>2. CASE i \in 1..N /\ new[i] = msgs[i] /\ j \in 1..N /\ new[j] = msgs[j]
      BY <2>3, <3>2 DEF InOrder, N
    <3>3. ASSUME NEW c \in 1..k, new[i].call = <<n + 1, c>>, i = N + 1 + c PROVE i = j
      <4>1. ~(j \in 1..N /\ new[j] = msgs[j])
        BY <1>9, <2>3, <3>1, <3>3
      <4>2. PICK d \in 1..k : j = N + 1 + d /\ new[j].call = <<n + 1, d>>
        BY <1>8, <2>3, <4>1
      <4>3. c = d
        <5>1. <<n + 1, c>> = <<n + 1, d>>
          BY <2>3, <3>3, <4>2
        <5> QED BY <5>1
      <4> QED BY <3>3, <4>2, <4>3
    <3>4. ASSUME i \in 1..N, new[i] = msgs[i], NEW c \in 1..k, new[j].call = <<n + 1, c>> PROVE FALSE
      BY <1>9, <2>3, <3>1, <3>4
    <3> QED BY <1>8, <2>3, <3>2, <3>3, <3>4
  <2> QED BY <2>1, <2>2, <2>3 DEF InOrder
<1>11. ASSUME NEW had, Readable(msgs, had) PROVE Readable(new, had)
  <2> SUFFICES ASSUME NEW i \in 1..Len(new), IsTool(new[i]), new[i].times = 1
               PROVE  new[i].call \in DOMAIN had /\ had[new[i].call] = "result"
    BY DEF Readable
  <2>1. CASE i \in 1..N /\ new[i] = msgs[i]
    BY <1>11, <2>1 DEF Readable, N
  <2>2. ASSUME NEW c \in 1..k, new[i] = tool(c) PROVE FALSE
    <3>1. new[i].times = 0
      BY <1>2, <2>2
    <3> QED BY <3>1
  <2> QED BY <1>8, <2>1, <2>2
<1> QED BY <1>6, <1>10, <1>11 DEF new, tools, tool, ai, N

\* A result that goes to its file is what the file has, if it goes there first.
LEMMA OffloadReads ==
  ASSUME NEW msgs \in Seq(Messages), NEW n \in Nat, InOrder(msgs, n), Readable(msgs, evicted)
  PROVE  Readable(_offload_tool_results(msgs), WithFiles(FilesUpdate(msgs)))
<1> DEFINE off == _offload_tool_results(msgs)
           long == {i \in DOMAIN msgs : _offload_tool_result(msgs[i]) # msgs[i]}
           update == FilesUpdate(msgs)
           had == WithFiles(update)
<1>1. /\ Len(off) = Len(msgs) /\ DOMAIN msgs = 1..Len(msgs)
      /\ \A i \in 1..Len(msgs) : off[i] = _offload_tool_result(msgs[i]) /\ msgs[i] \in Messages
  BY OffloadKeeps
<1>2. \A i \in long : /\ i \in 1..Len(msgs) /\ IsTool(msgs[i]) /\ off[i].times = msgs[i].times + 1
  BY <1>1, OffloadedIs
<1>3. \A i \in long : \A j \in 1..Len(msgs) : IsTool(msgs[j]) /\ msgs[j].call = msgs[i].call => j = i
  BY <1>2 DEF InOrder
<1>4. ASSUME NEW i \in long
      PROVE  /\ msgs[i].call \in DOMAIN update
             /\ msgs[i].times = 0 => update[msgs[i].call] = "result"
  <2> DEFINE first(w) == CHOOSE j \in long : msgs[j].call = w
  <2>1. update = [w \in {msgs[j].call : j \in long} |-> IF msgs[first(w)].times = 0 THEN "result" ELSE "placeholder"]
    BY DEF FilesUpdate
  <2>2. first(msgs[i].call) = i
    <3> HIDE DEF long
    <3> QED BY <1>2, <1>3
  <2> HIDE DEF first, long, update
  <2> QED BY <2>1, <2>2
<1>5. DOMAIN update = {msgs[i].call : i \in long}
  BY DEF FilesUpdate
<1>6. /\ DOMAIN had = DOMAIN update \cup DOMAIN evicted
      /\ \A w \in DOMAIN update : had[w] = update[w]
      /\ \A w \in DOMAIN evicted : w \notin DOMAIN update => had[w] = evicted[w]
  <2> HIDE DEF update
  <2> QED BY DEF WithFiles
<1>7. \A i \in 1..Len(msgs) : i \notin long => off[i] = msgs[i]
  BY <1>1
<1> HIDE DEF off, long, update, had
<1> SUFFICES ASSUME NEW i \in 1..Len(off), IsTool(off[i]), off[i].times = 1
             PROVE  off[i].call \in DOMAIN had /\ had[off[i].call] = "result"
  BY DEF Readable, off, had, update
<1>8. i \in 1..Len(msgs) /\ IsTool(msgs[i]) /\ off[i].call = msgs[i].call
  BY <1>1, OffloadedIs
<1>9. CASE i \in long
  <2>1. msgs[i].times = 0
    <3>1. msgs[i].times \in Nat
      BY <1>1, <1>8, MessageIs
    <3> QED BY <1>2, <1>9, <3>1
  <2> QED BY <1>4, <1>6, <1>8, <1>9, <2>1
<1>10. CASE i \notin long
  <2>1. msgs[i].call \in DOMAIN evicted /\ evicted[msgs[i].call] = "result"
    BY <1>7, <1>8, <1>10 DEF Readable
  <2>2. msgs[i].call \notin DOMAIN update
    <3>1. SUFFICES ASSUME NEW j \in long, msgs[j].call = msgs[i].call PROVE FALSE
      BY <1>5
    <3> QED BY <1>3, <1>8, <1>10, <3>1
  <2> QED BY <1>6, <1>8, <2>1, <2>2
<1> QED BY <1>9, <1>10

\* The invariant of the next state, of what that state is.
LEMMA NextIs ==
  ASSUME NEW new, NEW had, NEW n, new \in Seq(Messages), n \in Nat, InOrder(new, n), Readable(new, had),
         context' = new, evicted' = had, asks' = n
  PROVE  SumInv'
<1>1. InOrder(context', asks') /\ Readable(context', evicted')
  OBVIOUS
<1>2. InOrder(context, asks)'
  BY <1>1 DEF InOrder
<1>3. Readable(context, evicted)'
  BY <1>1 DEF Readable
<1>4. context' \in Seq(Messages) /\ asks' \in Nat
  OBVIOUS
<1> QED BY <1>2, <1>3, <1>4 DEF SumInv

\* What the model of a subagent gets after a summary or an offload is whole, for
\* any results, limits and number of calls: the halving may end anywhere, a cut
\* never parts a call from its result, and a result that is offloaded once is in
\* its file, as no two messages answer one call.
THEOREM ContextStaysWhole == SummarySafety => []SummaryIsSafe
<1>1. SummaryInit => SumInv
  <2> SUFFICES ASSUME SummaryInit PROVE SumInv
    OBVIOUS
  <2>1. Human \in Messages /\ ~IsTool(Human) /\ Human.kind # "ai"
    BY DEF Human, Messages, IsTool
  <2>2. context = <<Human>> /\ asks = 0
    BY DEF SummaryInit
  <2>3. context \in Seq(Messages) /\ Len(context) = 1 /\ context[1] = Human
    BY <2>1, <2>2
  <2>4. \A i \in 1..Len(context) : ~IsTool(context[i]) /\ context[i].kind # "ai"
    BY <2>1, <2>3
  <2> QED BY <2>2, <2>3, <2>4 DEF SumInv, InOrder, Readable
<1>2. SumInv /\ [SummaryNext]_summaryVars => SumInv'
  <2> SUFFICES ASSUME SumInv, [SummaryNext]_summaryVars PROVE SumInv'
    OBVIOUS
  <2>1. context \in Seq(Messages) /\ asks \in Nat /\ InOrder(context, asks) /\ Readable(context, evicted)
    BY DEF SumInv
  <2>2. ASSUME NEW new, NEW had, NEW n, new \in Seq(Messages), n \in Nat, InOrder(new, n), Readable(new, had),
               context' = new, evicted' = had, asks' = n
        PROVE  SumInv'
    BY <2>2, NextIs
  <2>3. CASE UNCHANGED summaryVars
    BY <2>1, <2>2, <2>3 DEF summaryVars
  <2>4. CASE ToolsReturn
    <3>1. PICK k \in 1..MaxToolCalls : \E r \in [1..k -> Results] :
            context' = Append(context, Ai(asks + 1, k)) \o [c \in 1..k |-> ToolMessage(<<asks + 1, c>>, r[c])]
      BY <2>4 DEF ToolsReturn
    <3>2. PICK r \in [1..k -> Results] :
            context' = Append(context, Ai(asks + 1, k)) \o [c \in 1..k |-> ToolMessage(<<asks + 1, c>>, r[c])]
      BY <3>1
    <3> DEFINE new == Append(context, Ai(asks + 1, k)) \o [c \in 1..k |-> ToolMessage(<<asks + 1, c>>, r[c])]
    <3>3. new \in Seq(Messages) /\ InOrder(new, asks + 1) /\ Readable(new, evicted)
      <4>1. k \in Nat
        OBVIOUS
      <4> QED BY <2>1, <4>1, ReturnKeeps
    <3> HIDE DEF new
    <3>4. context' = new
      BY <3>2 DEF new
    <3>5. asks' = asks + 1 /\ evicted' = evicted /\ asks + 1 \in Nat
      BY <2>1, <2>4 DEF ToolsReturn
    <3> QED BY <2>2, <3>3, <3>4, <3>5
  <2>5. CASE before_model
    <3> DEFINE off == _offload_tool_results(context)
               cut == _find_cutoff_by_token_limit(off, Retention)
               new == <<Human>> \o SubSeq(off, cut + 1, Len(off))
               had == WithFiles(FilesUpdate(context))
    <3>1. /\ asks' = asks
          /\ \/ context' = context /\ evicted' = evicted
             \/ context' = off /\ evicted' = had
             \/ context' = new /\ evicted' = had
      BY <2>5 DEF before_model
    <3>2. off \in Seq(Messages) /\ InOrder(off, asks)
      BY <2>1, OffloadKeeps
    <3>3. Readable(off, had)
      BY <2>1, OffloadReads
    <3> HIDE DEF off, had
    <3>4. Safe(off, cut)
      BY <2>1, <3>2, TokenCutoff
    <3> HIDE DEF cut
    <3>5. new \in Seq(Messages) /\ InOrder(new, asks) /\ Readable(new, had)
      BY <2>1, <3>2, <3>3, <3>4, CutKeeps
    <3> HIDE DEF new
    <3> QED BY <2>1, <2>2, <3>1, <3>2, <3>3, <3>5
  <2> QED BY <2>3, <2>4, <2>5 DEF SummaryNext
<1>3. SumInv => SummaryIsSafe
  <2> SUFFICES ASSUME SumInv PROVE SummaryIsSafe
    OBVIOUS
  <2>1. DOMAIN context = 1..Len(context) /\ Len(context) \in Nat
    BY DEF SumInv
  <2>2. PairsKept
    BY <2>1 DEF PairsKept, SumInv, InOrder
  <2>3. OffloadedIsReadable
    BY <2>1 DEF OffloadedIsReadable, SumInv, Readable
  <2> QED BY <2>2, <2>3 DEF SummaryIsSafe
<1> QED BY <1>1, <1>2, <1>3, PTL DEF SummarySafety

-----------------------------------------------------------------------------
(* The names of an agent's files. *)

Strings == Seq(PathParts)
Path == Strings \ {<<>>}

\* What a sequence begins with, and what is left of it.
LEMMA FrontIs ==
  ASSUME NEW p \in Strings, NEW n \in 0..Len(p)
  PROVE  /\ SubSeq(p, 1, n) \in Strings /\ Len(SubSeq(p, 1, n)) = n
         /\ \A i \in 1..n : SubSeq(p, 1, n)[i] = p[i]
<1>1. \A i \in 1..n : p[i] \in PathParts
  BY DEF Strings
<1>2. Len(p) \in Nat /\ n \in Int /\ 1 \in Int /\ n \in Nat
  BY DEF Strings
<1>3. /\ SubSeq(p, 1, n) \in Seq(PathParts)
      /\ Len(SubSeq(p, 1, n)) = IF 1 <= n THEN n - 1 + 1 ELSE 0
      /\ \A i \in 1..(n - 1 + 1) : SubSeq(p, 1, n)[i] = p[1 + i - 1]
  BY <1>1, <1>2, SubSeqProperties
<1>4. \A i \in 1..n : i \in 1..(n - 1 + 1) /\ 1 + i - 1 = i
  BY <1>2
<1> QED BY <1>2, <1>3, <1>4 DEF Strings

LEMMA RestIs ==
  ASSUME NEW p \in Strings, NEW d \in Strings, Len(d) <= Len(p)
  PROVE  /\ Rest(p, d) \in Strings /\ Len(Rest(p, d)) = Len(p) - Len(d)
         /\ \A i \in 1..(Len(p) - Len(d)) : Rest(p, d)[i] = p[Len(d) + i]
<1>1. Len(p) \in Nat /\ Len(d) \in Nat /\ Len(d) + 1 \in Int /\ Len(p) \in Int
  BY DEF Strings
<1>2. \A i \in (Len(d) + 1)..Len(p) : p[i] \in PathParts
  BY <1>1 DEF Strings
<1>3. /\ Rest(p, d) \in Seq(PathParts)
      /\ Len(Rest(p, d)) = IF Len(d) + 1 <= Len(p) THEN Len(p) - (Len(d) + 1) + 1 ELSE 0
      /\ \A i \in 1..(Len(p) - (Len(d) + 1) + 1) : Rest(p, d)[i] = p[Len(d) + 1 + i - 1]
  BY <1>1, <1>2, SubSeqProperties DEF Rest
<1>4. Len(p) - (Len(d) + 1) + 1 = Len(p) - Len(d) /\ \A i \in 1..(Len(p) - Len(d)) : Len(d) + 1 + i - 1 = Len(d) + i
  BY <1>1
<1>5. Len(Rest(p, d)) = Len(p) - Len(d)
  <2>1. CASE Len(d) + 1 <= Len(p)
    BY <1>3, <1>4, <2>1
  <2>2. CASE ~(Len(d) + 1 <= Len(p))
    <3>1. Len(Rest(p, d)) = 0
      BY <1>3, <2>2
    <3>2. Len(p) - Len(d) = 0
      BY <1>1, <2>2
    <3> QED BY <3>1, <3>2
  <2> QED BY <2>1, <2>2
<1>6. \A i \in 1..(Len(p) - Len(d)) : Rest(p, d)[i] = p[Len(d) + i]
  BY <1>3, <1>4
<1> QED BY <1>3, <1>5, <1>6 DEF Strings

\* A path below a directory, place by place.
LEMMA BelowIs ==
  ASSUME NEW p \in Strings, NEW d \in Strings
  PROVE  Below(p, d) <=> Len(p) > Len(d) /\ \A i \in 1..Len(d) : p[i] = d[i]
<1>1. Len(p) \in Nat /\ Len(d) \in Nat
  BY DEF Strings
<1>2. CASE Len(p) > Len(d)
  <2>1. Len(d) \in 0..Len(p)
    BY <1>1, <1>2
  <2> DEFINE s == SubSeq(p, 1, Len(d))
  <2>2. SubSeq(p, 1, Len(d)) \in Strings /\ Len(SubSeq(p, 1, Len(d))) = Len(d)
        /\ \A i \in 1..Len(d) : SubSeq(p, 1, Len(d))[i] = p[i]
    BY <2>1, FrontIs
  <2>3. SubSeq(p, 1, Len(d)) = d <=> \A i \in 1..Len(d) : SubSeq(p, 1, Len(d))[i] = d[i]
    <3>1. s \in Seq(PathParts) /\ d \in Seq(PathParts) /\ Len(s) = Len(d)
      BY <2>2 DEF Strings
    <3> HIDE DEF s
    <3>2. (\A i \in 1..Len(s) : s[i] = d[i]) => s = d
      BY <3>1, SeqEqual
    <3>3. s = d <=> \A i \in 1..Len(d) : s[i] = d[i]
      BY <3>1, <3>2
    <3> QED BY <3>3 DEF s
  <2> QED BY <1>2, <2>2, <2>3 DEF Below
<1>3. CASE ~(Len(p) > Len(d))
  BY <1>3 DEF Below
<1> QED BY <1>2, <1>3

\* A path that is put below a directory, and taken out again.
LEMMA JoinIs ==
  ASSUME NEW d \in Strings, NEW q \in Path
  PROVE  d \o q \in Path /\ Below(d \o q, d) /\ Rest(d \o q, d) = q
<1>1. q \in Seq(PathParts) /\ Len(q) \in Nat \ {0} /\ Len(d) \in Nat /\ d \in Seq(PathParts)
  BY EmptySeq DEF Path, Strings
<1>2. /\ d \o q \in Seq(PathParts) /\ Len(d \o q) = Len(d) + Len(q)
      /\ \A i \in 1..(Len(d) + Len(q)) : (d \o q)[i] = IF i <= Len(d) THEN d[i] ELSE q[i - Len(d)]
  BY <1>1, ConcatProperties
<1> DEFINE p == d \o q
<1> HIDE DEF p
<1>3. p \in Strings /\ p # <<>> /\ Len(p) = Len(d) + Len(q)
  BY <1>1, <1>2, EmptySeq DEF p, Strings
<1>4. Below(p, d)
  <2>1. \A i \in 1..Len(d) : p[i] = d[i]
    BY <1>1, <1>2 DEF p
  <2> QED BY <1>1, <1>3, <2>1, BelowIs
<1>5. Rest(p, d) = q
  <2>1. /\ Rest(p, d) \in Strings /\ Len(Rest(p, d)) = Len(p) - Len(d)
        /\ \A i \in 1..(Len(p) - Len(d)) : Rest(p, d)[i] = p[Len(d) + i]
    <3>1. Len(d) <= Len(p)
      BY <1>1, <1>3
    <3> QED BY <1>3, <3>1, RestIs
  <2>2. Len(Rest(p, d)) = Len(q)
    BY <1>1, <1>3, <2>1
  <2>3. ASSUME NEW i \in 1..Len(Rest(p, d)) PROVE Rest(p, d)[i] = q[i]
    <3>1. i \in 1..(Len(p) - Len(d)) /\ Len(d) + i \in 1..(Len(d) + Len(q)) /\ ~(Len(d) + i <= Len(d)) /\ Len(d) + i - Len(d) = i
      BY <1>1, <1>3, <2>1
    <3>2. p[Len(d) + i] = q[Len(d) + i - Len(d)]
      BY <1>2, <3>1 DEF p
    <3> QED BY <2>1, <3>1, <3>2
  <2> QED BY <1>1, <2>1, <2>2, <2>3, SeqEqual DEF Strings
<1> QED BY <1>3, <1>4, <1>5 DEF p, Path

LEMMA SplitIs ==
  ASSUME NEW p \in Strings, NEW d \in Strings, Below(p, d)
  PROVE  Rest(p, d) \in Path /\ d \o Rest(p, d) = p
<1>1. Len(p) \in Nat /\ Len(d) \in Nat /\ Len(d) < Len(p) /\ \A i \in 1..Len(d) : p[i] = d[i]
  BY BelowIs DEF Strings
<1>2. /\ Rest(p, d) \in Strings /\ Len(Rest(p, d)) = Len(p) - Len(d)
      /\ \A i \in 1..(Len(p) - Len(d)) : Rest(p, d)[i] = p[Len(d) + i]
  BY <1>1, RestIs
<1>3. Rest(p, d) # <<>>
  <2>1. Len(Rest(p, d)) # 0
    BY <1>1, <1>2
  <2>2. Len(<<>>) = 0
    BY EmptySeq
  <2> QED BY <2>1, <2>2
<1> DEFINE q == Rest(p, d)
<1> HIDE DEF q
<1>4. /\ d \o q \in Seq(PathParts) /\ Len(d \o q) = Len(d) + Len(q)
      /\ \A i \in 1..(Len(d) + Len(q)) : (d \o q)[i] = IF i <= Len(d) THEN d[i] ELSE q[i - Len(d)]
  BY <1>2, ConcatProperties DEF q, Strings
<1>5. Len(d \o q) = Len(p)
  BY <1>1, <1>2, <1>4 DEF q
<1>6. ASSUME NEW i \in 1..Len(p) PROVE (d \o q)[i] = p[i]
  <2>1. i \in 1..(Len(d) + Len(q))
    BY <1>1, <1>2 DEF q
  <2>2. CASE i <= Len(d)
    BY <1>1, <1>4, <2>1, <2>2
  <2>3. CASE ~(i <= Len(d))
    <3>1. i - Len(d) \in 1..(Len(p) - Len(d)) /\ Len(d) + (i - Len(d)) = i
      BY <1>1, <2>3
    <3> QED BY <1>2, <1>4, <2>1, <2>3, <3>1 DEF q
  <2> QED BY <2>2, <2>3
<1>7. d \o q = p
  BY <1>4, <1>5, <1>6, SeqEqual DEF Strings
<1> QED BY <1>2, <1>3, <1>7 DEF q, Path

\* The mounts there are.
LEMMA RoutesAre ==
  /\ Routes \subseteq {Skills, Docs} /\ Skills # Docs
  /\ Skills \in Path /\ Len(Skills) = 1 /\ Skills[1] = "skills" /\ Last(Skills) = "skills" /\ Front(Skills) = <<>>
  /\ Docs \in Path /\ Len(Docs) = 2 /\ Docs[1] = "app" /\ Docs[2] = "docs" /\ Last(Docs) = "docs" /\ Front(Docs) = <<"app">>
<1>1. Routes \subseteq {Skills, Docs}
  BY DEF Routes
<1>2. Skills \in Strings /\ Len(Skills) = 1 /\ Skills[1] = "skills" /\ Skills # <<>>
  BY FilesAssumption DEF FilesAssumption, Skills, Strings
<1>3. Docs \in Strings /\ Len(Docs) = 2 /\ Docs[1] = "app" /\ Docs[2] = "docs" /\ Docs # <<>>
  BY FilesAssumption DEF FilesAssumption, Docs, Strings
<1>4. Last(Skills) = "skills" /\ Last(Docs) = "docs"
  BY <1>2, <1>3 DEF Last
<1>5. Front(Skills) = <<>>
  BY <1>2, SubSeqEmpty DEF Front
<1>6. Front(Docs) = <<"app">>
  <2>1. Front(Docs) = SubSeq(Docs, 1, 1) /\ 1 \in 0..Len(Docs)
    BY <1>3 DEF Front
  <2>2. Front(Docs) \in Strings /\ Len(Front(Docs)) = 1 /\ Front(Docs)[1] = "app"
    BY <1>3, <2>1, FrontIs
  <2>3. <<"app">> \in Strings /\ Len(<<"app">>) = 1 /\ <<"app">>[1] = "app"
    BY FilesAssumption DEF FilesAssumption, Strings
  <2> DEFINE s == Front(Docs)
             t == <<"app">>
  <2>4. s \in Seq(PathParts) /\ t \in Seq(PathParts) /\ Len(s) = Len(t) /\ \A i \in 1..Len(s) : s[i] = t[i]
    BY <2>2, <2>3 DEF Strings
  <2> HIDE DEF s, t
  <2>5. s = t
    BY <2>4, SeqEqual
  <2> QED BY <2>5 DEF s, t
<1> QED BY <1>1, <1>2, <1>3, <1>4, <1>5, <1>6 DEF Path

\* Names of which ls, glob and grep take the beginning for a route.
GoesOn(n, r) == n = r \/ \E x \in Longer : x[1] = n /\ x[2] = r
LEMMA MatchesIs ==
  ASSUME NEW d \in Strings, NEW r
  PROVE  r \in Matches(d) <=>
           r \in Routes /\ \/ r = Skills /\ Len(d) >= 1 /\ GoesOn(d[1], "skills")
                           \/ r = Docs /\ Len(d) >= 2 /\ d[1] = "app" /\ GoesOn(d[2], "docs")
<1>1. r \in Matches(d) <=>
        r \in Routes /\ Len(d) >= Len(r) /\ SubSeq(d, 1, Len(r) - 1) = Front(r) /\ GoesOn(d[Len(r)], Last(r))
  BY DEF Matches, GoesOn
<1>2. Len(d) \in Nat
  BY DEF Strings
<1>3. CASE r = Skills
  <2>1. SubSeq(d, 1, Len(r) - 1) = <<>>
    BY <1>3, RoutesAre, SubSeqEmpty
  <2> QED BY <1>1, <1>3, <2>1, RoutesAre
<1>4. CASE r = Docs
  <2>1. CASE Len(d) >= 2
    <3>1. 1 \in 0..Len(d)
      BY <1>2, <2>1
    <3> DEFINE s == SubSeq(d, 1, 1)
               t == <<"app">>
    <3>2. s \in Strings /\ Len(s) = 1 /\ s[1] = d[1]
      BY <3>1, FrontIs
    <3>3. t \in Strings /\ Len(t) = 1 /\ t[1] = "app"
      BY FilesAssumption DEF FilesAssumption, Strings
    <3>4. s \in Seq(PathParts) /\ t \in Seq(PathParts) /\ Len(s) = Len(t) /\ Len(s) = 1
      BY <3>2, <3>3 DEF Strings
    <3>5. s = t <=> d[1] = "app"
      <4> HIDE DEF s, t
      <4>1. (\A i \in 1..Len(s) : s[i] = t[i]) => s = t
        BY <3>4, SeqEqual
      <4> QED BY <3>2, <3>3, <3>4, <4>1
    <3>6. SubSeq(d, 1, Len(r) - 1) = s /\ Front(r) = t
      BY <1>4, RoutesAre
    <3> HIDE DEF s, t
    <3> QED BY <1>1, <1>4, <2>1, <3>5, <3>6, RoutesAre
  <2>2. CASE ~(Len(d) >= 2)
    BY <1>1, <1>4, <2>2, RoutesAre
  <2> QED BY <2>1, <2>2
<1>5. CASE r \notin {Skills, Docs}
  BY <1>1, <1>5, RoutesAre
<1> QED BY <1>3, <1>4, <1>5

\* No name begins as two routes do.
LEMMA MatchesOne ==
  ASSUME NEW d \in Strings, NEW r \in Matches(d), NEW s \in Matches(d)
  PROVE  r = s
<1>1. ~GoesOn("app", "skills")
  BY FilesAssumption DEF FilesAssumption, GoesOn
<1> QED BY <1>1, MatchesIs

\* A route is found by what begins with it.
LEMMA BelowMatches ==
  ASSUME NEW d \in Strings, NEW r \in Routes, r = d \/ Below(d, r)
  PROVE  Matches(d) = {r}
<1>1. r \in Strings /\ Len(r) \in Nat /\ Len(d) \in Nat /\ Len(d) >= Len(r) /\ \A i \in 1..Len(r) : d[i] = r[i]
  <2>1. r \in Strings
    BY RoutesAre DEF Path
  <2>2. CASE r = d
    BY <2>1, <2>2 DEF Strings
  <2>3. CASE Below(d, r)
    BY <2>1, <2>3, BelowIs DEF Strings
  <2> QED BY <2>1, <2>2, <2>3
<1>2. r \in Matches(d)
  <2>1. GoesOn("skills", "skills") /\ GoesOn("docs", "docs")
    BY DEF GoesOn
  <2>2. CASE r = Skills
    BY <1>1, <2>1, <2>2, RoutesAre, MatchesIs
  <2>3. CASE r = Docs
    BY <1>1, <2>1, <2>3, RoutesAre, MatchesIs
  <2> QED BY <2>2, <2>3, RoutesAre
<1> QED BY <1>2, MatchesOne
LEMMA KeyIs ==
  ASSUME NEW d \in Strings, NEW r \in Routes, Below(d, r)
  PROVE  _get_backend_and_key(d) = {r}
<1>1. \A s \in Routes : Below(d, s) => s = r
  BY BelowMatches
<1> QED BY <1>1 DEF _get_backend_and_key

\* Where the files are: those of the state are below no mount, and of those on
\* the disk none is below another.
Tidy(fs) == DOMAIN fs \subseteq Path /\ DOMAIN fs # {} /\ \A p, q \in DOMAIN fs : ~Below(p, q)
FilesTypes ==
  /\ \A p \in DOMAIN files : p \in Path /\ \A r \in Routes : ~Below(p, r)
  /\ DOMAIN disk = {Skills, Docs} /\ \A r \in {Skills, Docs} : Tidy(disk[r])

\* A file that there is has the text.
Stands(p, text) ==
  \/ p \in DOMAIN files /\ text = files[p]
  \/ \E r \in Routes : \E q \in DOMAIN disk[r] : p = r \o q /\ text = disk[r][q]

\* Just those can be read.
LEMMA ReadIs ==
  ASSUME FilesTypes, NEW p, NEW text, Stands(p, text)
  PROVE  p \in Path /\ read(p) = {text}
<1>1. CASE p \in DOMAIN files /\ text = files[p]
  <2>1. _get_backend_and_key(p) = {}
    BY <1>1 DEF FilesTypes, _get_backend_and_key
  <2> QED BY <1>1, <2>1 DEF read, FilesTypes
<1>2. CASE \E r \in Routes : \E q \in DOMAIN disk[r] : p = r \o q /\ text = disk[r][q]
  <2>1. PICK r \in Routes : \E q \in DOMAIN disk[r] : p = r \o q /\ text = disk[r][q]
    BY <1>2
  <2>2. PICK q \in DOMAIN disk[r] : p = r \o q /\ text = disk[r][q]
    BY <2>1
  <2>3. r \in Strings /\ q \in Path
    BY RoutesAre DEF FilesTypes, Tidy, Path
  <2>4. p \in Path /\ p \in Strings /\ Below(p, r) /\ Rest(p, r) = q
    BY <2>2, <2>3, JoinIs DEF Path
  <2>5. _get_backend_and_key(p) = {r}
    BY <2>4, KeyIs
  <2>6. read(p) = {disk[r][q]}
    <3>1. (CHOOSE x \in {r} : TRUE) = r
      OBVIOUS
    <3> QED BY <2>4, <2>5, <3>1 DEF read
  <2> QED BY <2>2, <2>4, <2>6
<1> QED BY <1>1, <1>2 DEF Stands
LEMMA ReadStands ==
  ASSUME FilesTypes, NEW p \in Strings, NEW text \in read(p)
  PROVE  Stands(p, text)
<1>1. CASE _get_backend_and_key(p) = {}
  <2>1. read(p) = IF p \in DOMAIN files THEN {files[p]} ELSE {}
    BY <1>1 DEF read
  <2> QED BY <2>1 DEF Stands
<1>2. CASE _get_backend_and_key(p) # {}
  <2>1. PICK r : r = CHOOSE x \in _get_backend_and_key(p) : TRUE
    OBVIOUS
  <2>2. r \in Routes /\ Below(p, r)
    <3>1. r \in _get_backend_and_key(p)
      BY <1>2, <2>1
    <3> QED BY <3>1 DEF _get_backend_and_key
  <2>3. text \in IF Rest(p, r) \in DOMAIN disk[r] THEN {disk[r][Rest(p, r)]} ELSE {}
    BY <1>2, <2>1 DEF read
  <2>4. r \o Rest(p, r) = p
    BY <2>2, SplitIs, RoutesAre DEF Path
  <2> QED BY <2>2, <2>3, <2>4 DEF Stands
<1> QED BY <1>1, <1>2

\* What ls looks at.
LEMMA LsInfoIs ==
  ASSUME NEW d \in Strings
  PROVE  /\ \A r \in Matches(d) :
              /\ ls_info(d).files = Restored(r, Ls(disk[r], Rest(d, r)).files)
              /\ ls_info(d).dirs = Restored(r, Ls(disk[r], Rest(d, r)).dirs)
         /\ Matches(d) = {} =>
              /\ ls_info(d).files = Ls(files, d).files
              /\ ls_info(d).dirs = Ls(files, d).dirs \cup IF d = <<>> THEN Routes ELSE {}
<1>1. ASSUME NEW r \in Matches(d)
      PROVE  /\ ls_info(d).files = Restored(r, Ls(disk[r], Rest(d, r)).files)
             /\ ls_info(d).dirs = Restored(r, Ls(disk[r], Rest(d, r)).dirs)
  <2>1. Matches(d) = {r}
    BY MatchesOne
  <2>2. (CHOOSE x \in {r} : TRUE) = r
    OBVIOUS
  <2>3. ls_info(d) = [f \in {"files", "dirs"} |-> Restored(r, Ls(disk[r], Rest(d, r))[f])]
    BY <2>1, <2>2 DEF ls_info
  <2> QED BY <2>3
<1>2. ASSUME Matches(d) = {}
      PROVE  /\ ls_info(d).files = Ls(files, d).files
             /\ ls_info(d).dirs = Ls(files, d).dirs \cup IF d = <<>> THEN Routes ELSE {}
  <2>1. ls_info(d) = [Ls(files, d) EXCEPT !.dirs = IF d = <<>> THEN @ \cup Routes ELSE @]
    BY <1>2 DEF ls_info
  <2>2. DOMAIN Ls(files, d) = {"files", "dirs"}
    BY DEF Ls
  <2> QED BY <2>1, <2>2
<1> QED BY <1>1, <1>2

\* What each search finds is a file, and its name that of the file.
LEMMA FindsFiles ==
  ASSUME FilesTypes, NEW d \in Strings
  PROVE  /\ \A p \in ls_info(d).files \cup glob_info("*", d) \cup glob_info("**/*", d) : \E text : Stands(p, text)
         /\ \A w, rg : \A p \in grep_raw(w, d, rg) : \E text : Stands(p, text) /\ Has(text, w)
<1>1. \A r \in Matches(d) : r \in Routes
  BY DEF Matches
<1>2. ASSUME NEW p, \/ p \in DOMAIN files
                    \/ \E r \in Routes : \E S : S \subseteq DOMAIN disk[r] /\ p \in Restored(r, S)
      PROVE  \E text : Stands(p, text)
  BY <1>2 DEF Stands, Restored
<1>3. ASSUME NEW p, NEW w,
             \/ p \in DOMAIN files /\ Has(files[p], w)
             \/ \E r \in Routes : \E S : /\ S \subseteq {q \in DOMAIN disk[r] : Has(disk[r][q], w)}
                                         /\ p \in Restored(r, S)
      PROVE  \E text : Stands(p, text) /\ Has(text, w)
  BY <1>3 DEF Stands, Restored
<1>4. \A fs, e : Ls(fs, e).files \subseteq DOMAIN fs /\ DiskGlob(fs, e) \subseteq DOMAIN fs
  <2>1. ASSUME NEW fs, NEW e PROVE Ls(fs, e).files \subseteq DOMAIN fs
    BY DEF Ls
  <2>2. ASSUME NEW fs, NEW e PROVE DiskGlob(fs, e) \subseteq DOMAIN fs
    BY DEF DiskGlob
  <2> QED BY <2>1, <2>2
<1>5. \A fs, e, pattern : StateGlob(fs, e, pattern) \subseteq DOMAIN fs
  BY DEF StateGlob
<1>6. \A fs, e, w : StateGrep(fs, e, w) \subseteq {q \in DOMAIN fs : Has(fs[q], w)}
  BY DEF StateGrep
<1>7. \A fs, e, w, rg : DiskGrep(fs, e, w, rg) \subseteq {q \in DOMAIN fs : Has(fs[q], w)}
  <2>1. ASSUME NEW fs, NEW e, NEW w, NEW rg, NEW p \in DiskGrep(fs, e, w, rg)
        PROVE  p \in DOMAIN fs /\ Has(fs[p], w)
    <3>1. CASE e \notin DOMAIN fs
      BY <2>1, <3>1 DEF DiskGrep
    <3>2. CASE e \in DOMAIN fs /\ rg
      BY <2>1, <3>2 DEF DiskGrep
    <3>3. CASE e \in DOMAIN fs /\ ~rg
      BY <2>1, <3>3 DEF DiskGrep
    <3> QED BY <3>1, <3>2, <3>3
  <2> QED BY <2>1
<1>8. ASSUME NEW p \in ls_info(d).files PROVE \E text : Stands(p, text)
  <2>1. CASE Matches(d) = {}
    BY <1>2, <1>4, <2>1, LsInfoIs
  <2>2. ASSUME NEW r \in Matches(d) PROVE \E text : Stands(p, text)
    <3>1. r \in Routes /\ p \in Restored(r, Ls(disk[r], Rest(d, r)).files)
      BY <1>1, <1>8, LsInfoIs
    <3> QED BY <1>2, <1>4, <3>1
  <2> QED BY <2>1, <2>2
<1>9. ASSUME NEW pattern, NEW p \in glob_info(pattern, d) PROVE \E text : Stands(p, text)
  <2>1. CASE Matches(d) = {}
    <3>1. p \in StateGlob(files, d, pattern) \/ \E r \in Routes : p \in Restored(r, DiskGlob(disk[r], <<>>))
      BY <1>9, <2>1 DEF glob_info
    <3> QED BY <1>2, <1>4, <1>5, <3>1
  <2>2. CASE Matches(d) # {}
    <3>1. PICK r : r = CHOOSE x \in Matches(d) : TRUE
      OBVIOUS
    <3>2. r \in Routes /\ p \in Restored(r, DiskGlob(disk[r], SearchPath(d, r)))
      BY <1>1, <1>9, <2>2, <3>1 DEF glob_info
    <3> QED BY <1>2, <1>4, <3>2
  <2> QED BY <2>1, <2>2
<1>10. ASSUME NEW w, NEW rg, NEW p \in grep_raw(w, d, rg) PROVE \E text : Stands(p, text) /\ Has(text, w)
  <2>1. CASE Matches(d) = {}
    <3>1. p \in StateGrep(files, d, w) \/ \E r \in Routes : p \in Restored(r, DiskGrep(disk[r], <<>>, w, rg))
      BY <1>10, <2>1 DEF grep_raw
    <3> QED BY <1>3, <1>6, <1>7, <3>1
  <2>2. CASE Matches(d) # {}
    <3>1. PICK r : r = CHOOSE x \in Matches(d) : TRUE
      OBVIOUS
    <3>2. r \in Routes /\ p \in Restored(r, DiskGrep(disk[r], SearchPath(d, r), w, rg))
      BY <1>1, <1>10, <2>2, <3>1 DEF grep_raw
    <3> QED BY <1>3, <1>7, <3>2
  <2> QED BY <2>1, <2>2
<1> QED BY <1>8, <1>9, <1>10

\* A directory is what a file is below.
LEMMA LsDirs ==
  ASSUME NEW fs, DOMAIN fs \subseteq Path, NEW d \in Strings, NEW s \in Ls(fs, d).dirs
  PROVE  /\ s \in Path /\ Len(s) = Len(d) + 1 /\ \A i \in 1..Len(d) : s[i] = d[i]
         /\ \E q \in DOMAIN fs : Below(q, s)
<1>1. PICK q \in DOMAIN fs : Below(q, d) /\ Len(q) > Len(d) + 1 /\ s = SubSeq(q, 1, Len(d) + 1)
  BY DEF Ls
<1>2. q \in Strings /\ Len(q) \in Nat /\ Len(d) \in Nat /\ \A i \in 1..Len(d) : q[i] = d[i]
  BY <1>1, BelowIs DEF Path, Strings
<1>3. Len(d) + 1 \in 0..Len(q)
  BY <1>1, <1>2
<1>4. s \in Strings /\ Len(s) = Len(d) + 1 /\ \A i \in 1..(Len(d) + 1) : s[i] = q[i]
  BY <1>1, <1>2, <1>3, FrontIs
<1>5. Below(q, s)
  BY <1>1, <1>2, <1>4, BelowIs
<1>6. s # <<>>
  BY <1>2, <1>4, EmptySeq
<1>7. \A i \in 1..Len(d) : i \in 1..(Len(d) + 1)
  BY <1>2
<1> QED BY <1>2, <1>4, <1>5, <1>6, <1>7 DEF Path
LEMMA LsHas ==
  ASSUME NEW fs, NEW s \in Strings, NEW q \in DOMAIN fs, q \in Path, Below(q, s)
  PROVE  Ls(fs, s).files # {} \/ Ls(fs, s).dirs # {}
<1>1. Len(q) \in Nat /\ Len(s) \in Nat /\ Len(q) > Len(s)
  BY DEF Below, Path, Strings
<1>2. CASE Len(q) = Len(s) + 1
  BY <1>2 DEF Ls
<1>3. CASE Len(q) > Len(s) + 1
  BY <1>3 DEF Ls
<1> QED BY <1>1, <1>2, <1>3

\* The top of a mount has something in it.
LEMMA MountHas ==
  ASSUME FilesTypes, NEW s \in Strings, NEW r \in Matches(s), Len(s) = Len(r)
  PROVE  ls_info(s).files # {} \/ ls_info(s).dirs # {}
<1>1. r \in {Skills, Docs} /\ Len(r) \in Nat
  BY RoutesAre DEF Matches, Path, Strings
<1>2. Rest(s, r) = <<>>
  BY <1>1, SubSeqEmpty DEF Rest
<1>3. PICK q \in DOMAIN disk[r] : q \in Path
  BY <1>1 DEF FilesTypes, Tidy
<1>4. <<>> \in Strings /\ Len(<<>>) = 0 /\ Len(q) > 0
  BY <1>3, EmptySeq DEF Path, Strings
<1>5. Below(q, <<>>)
  BY <1>3, <1>4, BelowIs DEF Path
<1>6. Ls(disk[r], <<>>).files # {} \/ Ls(disk[r], <<>>).dirs # {}
  BY <1>3, <1>4, <1>5, LsHas
<1>7. \A S : S # {} => Restored(r, S) # {}
  BY DEF Restored
<1>8. /\ ls_info(s).files = Restored(r, Ls(disk[r], <<>>).files)
      /\ ls_info(s).dirs = Restored(r, Ls(disk[r], <<>>).dirs)
  BY <1>2, LsInfoIs
<1> QED BY <1>6, <1>7, <1>8

\* What is listed as a directory has something in it.
LEMMA DirsHave ==
  ASSUME FilesTypes, NEW d \in Strings, NEW s \in ls_info(d).dirs
  PROVE  s \in Strings /\ (ls_info(s).files # {} \/ ls_info(s).dirs # {})
<1>1. CASE Matches(d) # {}
  <2>1. PICK r \in Matches(d) : TRUE
    BY <1>1
  <2>2. r \in {Skills, Docs} /\ r \in Routes /\ r \in Strings /\ Len(d) >= Len(r)
    BY <2>1, RoutesAre DEF Matches, Path
  <2>3. Len(r) <= Len(d)
    BY <2>2 DEF Strings
  <2>4. Rest(d, r) \in Strings
    BY <2>2, <2>3, RestIs
  <2>5. PICK t \in Ls(disk[r], Rest(d, r)).dirs : s = r \o t
    BY <2>1, LsInfoIs DEF Restored
  <2>6. DOMAIN disk[r] \subseteq Path
    BY <2>2 DEF FilesTypes, Tidy
  <2>7. t \in Path /\ \E q \in DOMAIN disk[r] : Below(q, t)
    BY <2>4, <2>5, <2>6, LsDirs
  <2>8. s \in Path /\ s \in Strings /\ Below(s, r) /\ Rest(s, r) = t
    BY <2>2, <2>5, <2>7, JoinIs DEF Path
  <2>9. Matches(s) = {r}
    BY <2>2, <2>8, BelowMatches
  <2>10. Ls(disk[r], t).files # {} \/ Ls(disk[r], t).dirs # {}
    BY <2>6, <2>7, LsHas DEF Path
  <2>11. /\ ls_info(s).files = Restored(r, Ls(disk[r], t).files)
         /\ ls_info(s).dirs = Restored(r, Ls(disk[r], t).dirs)
    BY <2>8, <2>9, LsInfoIs
  <2>12. \A S : S # {} => Restored(r, S) # {}
    BY DEF Restored
  <2> QED BY <2>8, <2>10, <2>11, <2>12
<1>2. CASE Matches(d) = {} /\ s \in Ls(files, d).dirs
  <2>1. DOMAIN files \subseteq Path
    BY DEF FilesTypes
  <2>2. /\ s \in Path /\ Len(s) = Len(d) + 1 /\ \A i \in 1..Len(d) : s[i] = d[i]
        /\ \E q \in DOMAIN files : Below(q, s)
    BY <1>2, <2>1, LsDirs
  <2>3. s \in Strings /\ Len(s) \in Nat /\ Len(d) \in Nat
    BY <2>2 DEF Path, Strings
  <2>4. CASE Matches(s) = {}
    <3>1. Ls(files, s).files # {} \/ Ls(files, s).dirs # {}
      BY <2>1, <2>2, <2>3, LsHas
    <3>2. ls_info(s).files = Ls(files, s).files /\ Ls(files, s).dirs \subseteq ls_info(s).dirs
      BY <2>3, <2>4, LsInfoIs
    <3> QED BY <2>3, <3>1, <3>2
  <2>5. CASE Matches(s) # {}
    <3>1. PICK r \in Matches(s) : TRUE
      BY <2>5
    <3>2. r \notin Matches(d)
      BY <1>2
    <3>3. Len(s) = Len(r)
      <4>1. CASE r = Skills
        <5>1. Len(s) >= 1 /\ r \in Routes /\ GoesOn(s[1], "skills")
          BY <2>3, <3>1, <4>1, MatchesIs, RoutesAre
        <5>2. ~(Len(d) >= 1)
          <6> SUFFICES ASSUME Len(d) >= 1 PROVE FALSE
            OBVIOUS
          <6>1. d[1] = s[1]
            BY <2>2, <2>3
          <6> QED BY <3>2, <4>1, <5>1, <6>1, MatchesIs
        <5> QED BY <2>2, <2>3, <4>1, <5>2, RoutesAre
      <4>2. CASE r = Docs
        <5>1. Len(s) >= 2 /\ r \in Routes /\ s[1] = "app" /\ GoesOn(s[2], "docs")
          BY <2>3, <3>1, <4>2, MatchesIs, RoutesAre
        <5>2. ~(Len(d) >= 2)
          <6> SUFFICES ASSUME Len(d) >= 2 PROVE FALSE
            OBVIOUS
          <6>1. d[1] = s[1] /\ d[2] = s[2]
            BY <2>2, <2>3
          <6> QED BY <3>2, <4>2, <5>1, <6>1, MatchesIs
        <5> QED BY <2>2, <2>3, <4>2, <5>1, <5>2, RoutesAre
      <4> QED BY <3>1, <4>1, <4>2, RoutesAre DEF Matches
    <3> QED BY <2>3, <3>3, MountHas
  <2> QED BY <2>4, <2>5
<1>3. CASE Matches(d) = {} /\ s \in Routes
  <2>1. s \in Strings /\ Matches(s) = {s}
    BY <1>3, BelowMatches, RoutesAre DEF Path
  <2> QED BY <2>1, MountHas
<1> QED BY <1>1, <1>2, <1>3, LsInfoIs

\* What the agent was told and the skills that it knows are there.
FilesInv ==
  /\ FilesTypes
  /\ \A p \in DOMAIN wrote : p \in Path /\ Stands(p, wrote[p])
  /\ \A path \in skills : \A n \in DOMAIN path : \E text : Stands(path[n], text)

LEMMA DirsAre ==
  ASSUME NEW d \in Dirs
  PROVE  d \in Strings
<1>1. PICK p \in FileNames : \E n \in 0..Len(p) : d = SubSeq(p, 1, n)
  BY DEF Dirs
<1>2. p \in Strings
  BY FilesAssumption DEF FilesAssumption, Strings
<1> QED BY <1>1, <1>2, FrontIs

LEMMA AllReadable ==
  ASSUME FilesInv
  PROVE  FoundIsReadable
<1>1. FilesTypes
  BY DEF FilesInv
<1>2. \A p, text : Stands(p, text) => read(p) = {text}
  BY <1>1, ReadIs
<1>3. ASSUME NEW d \in Dirs
      PROVE  /\ \A p \in ls_info(d).files \cup glob_info("*", d) \cup glob_info("**/*", d) : read(p) # {}
             /\ \A s \in ls_info(d).dirs : ls_info(s) # [files |-> {}, dirs |-> {}]
             /\ \A w \in Words, rg \in BOOLEAN : \A p \in grep_raw(w, d, rg) :
                  \E text \in read(p) : Has(text, w)
  <2>1. d \in Strings
    BY DirsAre
  <2>2. \A p \in ls_info(d).files \cup glob_info("*", d) \cup glob_info("**/*", d) : read(p) # {}
    BY <1>1, <1>2, <2>1, FindsFiles
  <2>3. ASSUME NEW s \in ls_info(d).dirs PROVE ls_info(s) # [files |-> {}, dirs |-> {}]
    <3>1. ls_info(s).files # {} \/ ls_info(s).dirs # {}
      BY <1>1, <2>1, DirsHave
    <3> QED BY <3>1
  <2>4. ASSUME NEW w \in Words, NEW rg \in BOOLEAN, NEW p \in grep_raw(w, d, rg)
        PROVE  \E text \in read(p) : Has(text, w)
    <3>1. PICK text : Stands(p, text) /\ Has(text, w)
      BY <1>1, <2>1, FindsFiles
    <3> QED BY <1>2, <3>1
  <2> QED BY <2>2, <2>3, <2>4
<1>4. \A path \in skills : \A n \in DOMAIN path : read(path[n]) # {}
  BY <1>2 DEF FilesInv
<1> QED BY <1>3, <1>4 DEF FoundIsReadable

\* The root is no mount, and above all files.
LEMMA RootIs ==
  /\ <<>> \in Strings /\ Matches(<<>>) = {} /\ \A q \in Path : Below(q, <<>>)
<1>1. <<>> \in Strings /\ Len(<<>>) = 0
  BY EmptySeq DEF Strings
<1>2. Matches(<<>>) = {}
  BY <1>1, MatchesIs
<1>3. ASSUME NEW q \in Path PROVE Below(q, <<>>)
  <2>1. q \in Strings /\ Len(q) > 0
    BY EmptySeq DEF Path, Strings
  <2> QED BY <1>1, <2>1, BelowIs
<1> QED BY <1>1, <1>2, <1>3

\* A file lies in its directory.
LEMMA FrontOf ==
  ASSUME NEW p \in Path
  PROVE  /\ Front(p) \in Strings /\ Len(p) = Len(Front(p)) + 1 /\ Below(p, Front(p))
         /\ \A i \in 1..Len(Front(p)) : Front(p)[i] = p[i]
<1>1. p \in Strings /\ Len(p) \in Nat \ {0}
  BY EmptySeq DEF Path, Strings
<1>2. Len(p) - 1 \in 0..Len(p) /\ Len(p) - 1 \in Nat
  BY <1>1
<1>3. Front(p) \in Strings /\ Len(Front(p)) = Len(p) - 1 /\ \A i \in 1..(Len(p) - 1) : Front(p)[i] = p[i]
  BY <1>1, <1>2, FrontIs DEF Front
<1>4. Len(p) > Len(Front(p)) /\ Len(p) = Len(Front(p)) + 1
  BY <1>1, <1>3
<1>5. \A i \in 1..Len(Front(p)) : p[i] = Front(p)[i]
  BY <1>3
<1> QED BY <1>1, <1>3, <1>4, <1>5, BelowIs

\* On the disk its directory is below the mount, or the mount itself.
LEMMA FrontOfJoin ==
  ASSUME NEW r \in Routes, NEW q \in Path
  PROVE  /\ r = Front(r \o q) \/ Below(Front(r \o q), r)
         /\ SearchPath(Front(r \o q), r) = Front(q) /\ Rest(Front(r \o q), r) = Front(q)
<1>1. r \in Strings /\ Len(r) \in Nat \ {0} /\ q \in Strings /\ Len(q) \in Nat \ {0}
  BY RoutesAre DEF Path, Strings
<1>2. /\ Len(r \o q) = Len(r) + Len(q)
      /\ \A i \in 1..(Len(r) + Len(q)) : (r \o q)[i] = IF i <= Len(r) THEN r[i] ELSE q[i - Len(r)]
  BY <1>1, ConcatProperties DEF Strings
<1> DEFINE p == r \o q
           d == Front(p)
<1>3. p \in Path
  BY <1>1, JoinIs
<1> HIDE DEF p
<1>4. d \in Strings /\ Len(p) = Len(d) + 1 /\ \A i \in 1..Len(d) : d[i] = p[i]
  BY <1>3, FrontOf
<1>5. Front(q) \in Strings /\ Len(q) = Len(Front(q)) + 1 /\ \A i \in 1..Len(Front(q)) : Front(q)[i] = q[i]
  BY FrontOf
<1> HIDE DEF d
<1>6. Len(d) = Len(r) + Len(Front(q)) /\ Len(d) \in Nat /\ Len(Front(q)) \in Nat /\ Len(r) <= Len(d)
  <2>1. Len(d) \in Nat /\ Len(Front(q)) \in Nat
    BY <1>4, <1>5 DEF Strings
  <2> QED BY <1>1, <1>2, <1>4, <1>5, <2>1 DEF p
<1>7. \A i \in 1..Len(r) : d[i] = r[i]
  <2>1. ASSUME NEW i \in 1..Len(r) PROVE d[i] = r[i]
    <3>1. i \in 1..Len(d) /\ i \in 1..(Len(r) + Len(q)) /\ i <= Len(r)
      BY <1>1, <1>6
    <3> QED BY <1>2, <1>4, <3>1 DEF p
  <2> QED BY <2>1
<1>8. r = d \/ Below(d, r)
  <2>1. CASE Len(d) = Len(r)
    <3>1. \A i \in 1..Len(r) : r[i] = d[i]
      BY <1>7
    <3>2. r \in Seq(PathParts) /\ d \in Seq(PathParts) /\ Len(r) = Len(d)
      BY <1>1, <1>4, <2>1 DEF Strings
    <3> QED BY <3>1, <3>2, SeqEqual
  <2>2. CASE Len(d) # Len(r)
    <3>1. Len(d) > Len(r)
      BY <1>1, <1>6, <2>2
    <3> QED BY <1>1, <1>4, <1>7, <3>1, BelowIs
  <2> QED BY <2>1, <2>2
<1>9. Rest(d, r) = Front(q)
  <2>1. /\ Rest(d, r) \in Strings /\ Len(Rest(d, r)) = Len(d) - Len(r)
        /\ \A i \in 1..(Len(d) - Len(r)) : Rest(d, r)[i] = d[Len(r) + i]
    BY <1>1, <1>4, <1>6, RestIs
  <2>2. Len(Rest(d, r)) = Len(Front(q))
    BY <1>1, <1>6, <2>1
  <2>3. ASSUME NEW i \in 1..Len(Rest(d, r)) PROVE Rest(d, r)[i] = Front(q)[i]
    <3>1. /\ i \in 1..(Len(d) - Len(r)) /\ i \in 1..Len(Front(q)) /\ Len(r) + i \in 1..Len(d)
          /\ Len(r) + i \in 1..(Len(r) + Len(q)) /\ ~(Len(r) + i <= Len(r)) /\ Len(r) + i - Len(r) = i
      BY <1>1, <1>5, <1>6, <2>2
    <3>2. d[Len(r) + i] = q[Len(r) + i - Len(r)]
      BY <1>2, <1>4, <3>1 DEF p
    <3> QED BY <1>5, <2>1, <3>1, <3>2
  <2>4. Rest(d, r) \in Seq(PathParts) /\ Front(q) \in Seq(PathParts)
    BY <1>5, <2>1 DEF Strings
  <2> QED BY <2>2, <2>3, <2>4, SeqEqual
<1>10. SearchPath(d, r) = Rest(d, r)
  <2>1. Len(r) \in 1..Len(r)
    BY <1>1
  <2>2. d[Len(r)] = Last(r)
    BY <1>7, <2>1 DEF Last
  <2> QED BY <2>2 DEF SearchPath
<1> QED BY <1>8, <1>9, <1>10 DEF d, p

LEMMA WrittenFound ==
  ASSUME FilesInv
  PROVE  WrittenIsFound
<1>1. FilesTypes
  BY DEF FilesInv
<1> SUFFICES ASSUME NEW p \in DOMAIN wrote
    PROVE  /\ read(p) = {wrote[p]}
           /\ p \in glob_info("**/*", <<>>)
           /\ \A w \in Words : Has(wrote[p], w) => p \in grep_raw(w, <<>>, TRUE)
           /\ Matches(Front(p)) = {r \in Routes : r = Front(p) \/ Below(Front(p), r)} =>
                /\ p \in ls_info(Front(p)).files
                /\ Front(p) \notin DOMAIN files =>
                     /\ p \in glob_info("*", Front(p))
                     /\ \A w \in Words, rg \in BOOLEAN : Has(wrote[p], w) => p \in grep_raw(w, Front(p), rg)
  BY DEF WrittenIsFound
<1>2. p \in Path /\ Stands(p, wrote[p]) /\ read(p) = {wrote[p]}
  BY <1>1, ReadIs DEF FilesInv
<1>3. /\ Front(p) \in Strings /\ Len(p) = Len(Front(p)) + 1 /\ Below(p, Front(p))
      /\ \A i \in 1..Len(Front(p)) : Front(p)[i] = p[i]
  BY <1>2, FrontOf
<1>4. <<>> \notin DOMAIN files /\ \A r \in {Skills, Docs} : <<>> \notin DOMAIN disk[r]
  BY <1>1 DEF FilesTypes, Tidy, Path
<1>5. "**/*" # "*"
  OBVIOUS
<1>6. /\ glob_info("**/*", <<>>) = StateGlob(files, <<>>, "**/*") \cup UNION {Restored(r, DiskGlob(disk[r], <<>>)) : r \in Routes}
      /\ \A w : grep_raw(w, <<>>, TRUE) =
           StateGrep(files, <<>>, w) \cup UNION {Restored(r, DiskGrep(disk[r], <<>>, w, TRUE)) : r \in Routes}
  BY RootIs DEF glob_info, grep_raw
<1>7. CASE p \in DOMAIN files /\ wrote[p] = files[p]
  <2>1. p \in StateGlob(files, <<>>, "**/*")
    BY <1>2, <1>4, <1>5, <1>7, RootIs DEF StateGlob
  <2>2. \A w : Has(wrote[p], w) => p \in StateGrep(files, <<>>, w)
    BY <1>2, <1>4, <1>7, RootIs DEF StateGrep
  <2>3. ASSUME Matches(Front(p)) = {r \in Routes : r = Front(p) \/ Below(Front(p), r)}
        PROVE  /\ p \in ls_info(Front(p)).files
               /\ Front(p) \notin DOMAIN files =>
                    /\ p \in glob_info("*", Front(p))
                    /\ \A w \in Words, rg \in BOOLEAN : Has(wrote[p], w) => p \in grep_raw(w, Front(p), rg)
    <3>1. ASSUME NEW r \in Routes, r = Front(p) \/ Below(Front(p), r) PROVE FALSE
      <4>1. r \in Strings /\ p \in Strings /\ Len(r) \in Nat /\ Len(Front(p)) \in Nat
        BY <1>2, <1>3, RoutesAre DEF Path, Strings
      <4>2. Below(p, r)
        <5>1. CASE r = Front(p)
          BY <1>3, <5>1
        <5>2. CASE Below(Front(p), r)
          <6>1. Len(Front(p)) > Len(r) /\ \A i \in 1..Len(r) : Front(p)[i] = r[i]
            BY <1>3, <4>1, <5>2, BelowIs
          <6>2. \A i \in 1..Len(r) : i \in 1..Len(Front(p))
            BY <4>1, <6>1
          <6>3. Len(p) > Len(r) /\ \A i \in 1..Len(r) : p[i] = r[i]
            BY <1>3, <4>1, <6>1, <6>2
          <6> QED BY <4>1, <6>3, BelowIs
        <5> QED BY <3>1, <5>1, <5>2
      <4> QED BY <1>1, <1>7, <4>2 DEF FilesTypes
    <3>2. Matches(Front(p)) = {}
      BY <2>3, <3>1
    <3>3. p \in ls_info(Front(p)).files
      <4>1. p \in Ls(files, Front(p)).files
        BY <1>3, <1>7 DEF Ls
      <4> QED BY <1>3, <3>2, <4>1, LsInfoIs
    <3>4. ASSUME Front(p) \notin DOMAIN files PROVE p \in glob_info("*", Front(p))
      <4>1. p \in StateGlob(files, Front(p), "*")
        BY <1>3, <1>7, <3>4 DEF StateGlob
      <4> QED BY <3>2, <4>1 DEF glob_info
    <3>5. ASSUME Front(p) \notin DOMAIN files, NEW w, NEW rg, Has(wrote[p], w)
          PROVE  p \in grep_raw(w, Front(p), rg)
      <4>1. p \in StateGrep(files, Front(p), w)
        BY <1>3, <1>7, <3>5 DEF StateGrep
      <4> QED BY <3>2, <4>1 DEF grep_raw
    <3> QED BY <3>3, <3>4, <3>5
  <2> QED BY <1>2, <1>6, <2>1, <2>2, <2>3
<1>8. CASE \E r \in Routes : \E q \in DOMAIN disk[r] : p = r \o q /\ wrote[p] = disk[r][q]
  <2>1. PICK r \in Routes : \E q \in DOMAIN disk[r] : p = r \o q /\ wrote[p] = disk[r][q]
    BY <1>8
  <2>2. PICK q \in DOMAIN disk[r] : p = r \o q /\ wrote[p] = disk[r][q]
    BY <2>1
  <2>3. r \in {Skills, Docs} /\ q \in Path /\ Tidy(disk[r])
    BY <1>1, RoutesAre DEF FilesTypes, Tidy
  <2>4. \A S : q \in S => p \in Restored(r, S)
    BY <2>2 DEF Restored
  <2>5. q \in DiskGlob(disk[r], <<>>) /\ \A w : Has(wrote[p], w) => q \in DiskGrep(disk[r], <<>>, w, TRUE)
    <3>1. Below(q, <<>>) /\ <<>> \notin DOMAIN disk[r]
      BY <1>4, <2>3, RootIs
    <3>2. q \in DiskGlob(disk[r], <<>>)
      BY <3>1 DEF DiskGlob
    <3>3. \A w : Has(wrote[p], w) => q \in DiskGrep(disk[r], <<>>, w, TRUE)
      BY <2>2, <3>1 DEF DiskGrep
    <3> QED BY <3>2, <3>3
  <2>6. ASSUME TRUE
        PROVE  /\ p \in ls_info(Front(p)).files
               /\ p \in glob_info("*", Front(p))
               /\ \A w, rg : Has(wrote[p], w) => p \in grep_raw(w, Front(p), rg)
    <3>1. /\ r = Front(p) \/ Below(Front(p), r)
          /\ SearchPath(Front(p), r) = Front(q) /\ Rest(Front(p), r) = Front(q)
      BY <2>2, <2>3, FrontOfJoin
    <3>2. Matches(Front(p)) = {r} /\ (CHOOSE x \in {r} : TRUE) = r
      BY <1>3, <3>1, BelowMatches
    <3>3. Below(q, Front(q)) /\ Len(q) = Len(Front(q)) + 1 /\ Front(q) \notin DOMAIN disk[r]
      BY <2>3, FrontOf DEF Tidy
    <3>4. p \in ls_info(Front(p)).files
      <4>1. q \in Ls(disk[r], Front(q)).files
        BY <3>3 DEF Ls
      <4>2. ls_info(Front(p)).files = Restored(r, Ls(disk[r], Front(q)).files)
        BY <1>3, <3>1, <3>2, LsInfoIs
      <4> QED BY <2>4, <4>1, <4>2
    <3>5. p \in glob_info("*", Front(p))
      <4>1. q \in DiskGlob(disk[r], Front(q))
        BY <3>3 DEF DiskGlob
      <4>2. glob_info("*", Front(p)) = Restored(r, DiskGlob(disk[r], Front(q)))
        BY <3>1, <3>2 DEF glob_info
      <4> QED BY <2>4, <4>1, <4>2
    <3>6. ASSUME NEW w, NEW rg, Has(wrote[p], w) PROVE p \in grep_raw(w, Front(p), rg)
      <4>1. q \in DiskGrep(disk[r], Front(q), w, rg)
        BY <2>2, <3>3, <3>6 DEF DiskGrep
      <4>2. grep_raw(w, Front(p), rg) = Restored(r, DiskGrep(disk[r], Front(q), w, rg))
        BY <3>1, <3>2 DEF grep_raw
      <4> QED BY <2>4, <4>1, <4>2
    <3> QED BY <3>4, <3>5, <3>6
  <2>7. p \in glob_info("**/*", <<>>)
    BY <1>6, <2>4, <2>5
  <2>8. ASSUME NEW w, Has(wrote[p], w) PROVE p \in grep_raw(w, <<>>, TRUE)
    <3>1. p \in Restored(r, DiskGrep(disk[r], <<>>, w, TRUE))
      BY <2>4, <2>5, <2>8
    <3>2. p \in UNION {Restored(x, DiskGrep(disk[x], <<>>, w, TRUE)) : x \in Routes}
      BY <3>1
    <3> QED BY <1>6, <3>2
  <2> QED BY <1>2, <2>6, <2>7, <2>8
<1> QED BY <1>2, <1>7, <1>8 DEF Stands

\* What becomes of the files when one is stored that there is room for, or that is
\* there: the others stay.
LEMMA StoredKeeps ==
  ASSUME FilesTypes, NEW p \in Path, NEW text, Stored(p, text), graph' = graph,
         HasRoom(p) \/ read(p) # {}
  PROVE  /\ FilesTypes' /\ Stands(p, text)'
         /\ \A q, t : Stands(q, t) /\ q # p => Stands(q, t)'
<1>1. p \in Strings /\ Routes' = Routes /\ \A r \in Routes : r \in {Skills, Docs} /\ r \in Strings
  BY RoutesAre DEF Path, Routes
<1>2. CASE _get_backend_and_key(p) = {}
  <2>1. files' = Put(files, p, text) /\ disk' = disk
    BY <1>2 DEF Stored
  <2>2. DOMAIN files' = DOMAIN files \cup {p} /\ files'[p] = text /\ \A q \in DOMAIN files : q # p => files'[q] = files[q]
    BY <2>1 DEF Put
  <2>3. \A r \in Routes : ~Below(p, r)
    BY <1>2 DEF _get_backend_and_key
  <2>4. FilesTypes'
    BY <1>1, <2>1, <2>2, <2>3 DEF FilesTypes, Tidy
  <2>5. Stands(p, text)'
    BY <2>2 DEF Stands
  <2>6. \A q, t : Stands(q, t) /\ q # p => Stands(q, t)'
    BY <1>1, <2>1, <2>2 DEF Stands
  <2> QED BY <2>4, <2>5, <2>6
<1>3. CASE _get_backend_and_key(p) # {}
  <2>1. PICK r \in Routes : Below(p, r) /\ _get_backend_and_key(p) = {r}
    <3>1. PICK r \in Routes : Below(p, r)
      BY <1>3 DEF _get_backend_and_key
    <3> QED BY <1>1, <3>1, KeyIs
  <2>2. (CHOOSE x \in {r} : TRUE) = r
    OBVIOUS
  <2> DEFINE q == Rest(p, r)
             fs == Put(disk[r], q, text)
  <2>3. q \in Path /\ r \o q = p
    BY <1>1, <2>1, SplitIs
  <2>4. disk' = [disk EXCEPT ![r] = fs] /\ files' = files
    BY <1>3, <2>1, <2>2 DEF Stored
  <2>5. DOMAIN fs = DOMAIN disk[r] \cup {q} /\ fs[q] = text /\ \A x \in DOMAIN disk[r] : x # q => fs[x] = disk[r][x]
    BY DEF Put
  <2>6. DOMAIN disk = {Skills, Docs} /\ Tidy(disk[r]) /\ r \in {Skills, Docs}
    BY <1>1 DEF FilesTypes
  <2>7. q \in DOMAIN disk[r] \/ DiskTakes(disk[r], q)
    <3>1. CASE HasRoom(p)
      BY <2>1, <3>1 DEF HasRoom
    <3>2. CASE read(p) # {}
      BY <1>3, <2>1, <2>2, <3>2 DEF read
    <3> QED BY <3>1, <3>2
  <2> HIDE DEF q, fs
  <2>8. Tidy(fs)
    <3>1. CASE q \in DOMAIN disk[r]
      BY <2>5, <2>6, <3>1 DEF Tidy
    <3>2. CASE DiskTakes(disk[r], q)
      <4>1. /\ \A x \in DOMAIN disk[r] : ~Below(x, q) /\ ~Below(q, x)
        BY <3>2 DEF DiskTakes, IsDir
      <4>2. ~Below(q, q)
        BY <2>3 DEF Below, Path, Strings
      <4> QED BY <2>3, <2>5, <2>6, <4>1, <4>2 DEF Tidy
    <3> QED BY <2>7, <3>1, <3>2
  <2>9. disk'[r] = fs /\ DOMAIN disk' = {Skills, Docs} /\ \A x \in {Skills, Docs} : x # r => disk'[x] = disk[x]
    BY <2>4, <2>6
  <2>10. FilesTypes'
    <3>1. \A x \in {Skills, Docs} : Tidy(disk'[x])
      BY <2>8, <2>9 DEF FilesTypes
    <3> QED BY <1>1, <2>4, <2>9, <3>1 DEF FilesTypes, Tidy
  <2>11. Stands(p, text)'
    BY <1>1, <2>1, <2>3, <2>5, <2>9 DEF Stands
  <2>12. ASSUME NEW x, NEW t, Stands(x, t), x # p PROVE Stands(x, t)'
    <3>1. CASE x \in DOMAIN files /\ t = files[x]
      BY <2>4, <3>1 DEF Stands
    <3>2. CASE \E s \in Routes : \E y \in DOMAIN disk[s] : x = s \o y /\ t = disk[s][y]
      <4>1. PICK s \in Routes : \E y \in DOMAIN disk[s] : x = s \o y /\ t = disk[s][y]
        BY <3>2
      <4>2. PICK y \in DOMAIN disk[s] : x = s \o y /\ t = disk[s][y]
        BY <4>1
      <4>3. y \in DOMAIN disk'[s] /\ disk'[s][y] = t
        <5>1. CASE s = r
          BY <2>3, <2>5, <2>9, <2>12, <4>2, <5>1
        <5>2. CASE s # r
          BY <1>1, <2>9, <4>2, <5>2
        <5> QED BY <5>1, <5>2
      <4> QED BY <1>1, <4>2, <4>3 DEF Stands
    <3> QED BY <2>12, <3>1, <3>2 DEF Stands
  <2> QED BY <2>10, <2>11, <2>12
<1> QED BY <1>2, <1>3
LEMMA WrittenStays ==
  ASSUME FilesInv, NEW p \in Path, NEW text, Stored(p, text), UNCHANGED <<graph, skills>>,
         HasRoom(p) \/ read(p) # {}, wrote' = Put(wrote, p, text)
  PROVE  FilesInv'
<1>1. /\ FilesTypes' /\ Stands(p, text)'
      /\ \A q, t : Stands(q, t) /\ q # p => Stands(q, t)'
  BY StoredKeeps DEF FilesInv
<1>2. DOMAIN wrote' = DOMAIN wrote \cup {p} /\ wrote'[p] = text /\ \A q \in DOMAIN wrote : q # p => wrote'[q] = wrote[q]
  BY DEF Put
<1>3. (\A q \in DOMAIN wrote : q \in Path /\ Stands(q, wrote[q]))'
  <2> SUFFICES ASSUME NEW q \in DOMAIN wrote' PROVE q \in Path /\ Stands(q, wrote[q])'
    OBVIOUS
  <2>1. CASE q = p
    BY <1>1, <1>2, <2>1
  <2>2. CASE q # p
    <3>1. q \in DOMAIN wrote /\ wrote'[q] = wrote[q]
      BY <1>2, <2>2
    <3>2. q \in Path /\ Stands(q, wrote[q])
      BY <3>1 DEF FilesInv
    <3> QED BY <1>1, <2>2, <3>1, <3>2
  <2> QED BY <2>1, <2>2
<1>4. \A path \in skills' : \A n \in DOMAIN path : \E t : Stands(path[n], t)'
  BY <1>1 DEF FilesInv
<1> QED BY <1>1, <1>3, <1>4 DEF FilesInv

-----------------------------------------------------------------------------
(* The pages of a large result. *)

\* The pieces of its first lines, line by line.
LEMMA PlacesAre ==
  ASSUME NEW text \in Seq(Seq(STRING))
  PROVE  /\ IsFiniteSet(Places(text)) /\ Size(text) \in Nat
         /\ \A l \in 1..Len(text) :
              /\ Len(text[l]) \in Nat /\ Len(text[l]) <= Size(text)
              /\ Size(SubSeq(text, 1, l)) = Size(SubSeq(text, 1, l - 1)) + Len(text[l])
              /\ Size(SubSeq(text, 1, l - 1)) \in Nat
         /\ Size(SubSeq(text, 1, 0)) = 0 /\ SubSeq(text, 1, Len(text)) = text
<1>1. \A s \in Seq(Seq(STRING)) : IsFiniteSet(Places(s)) /\ Size(s) \in Nat
  <2>1. ASSUME NEW s \in Seq(Seq(STRING)) PROVE IsFiniteSet(Places(s)) /\ Size(s) \in Nat
    <3> DEFINE Part(l) == {l} \X DOMAIN s[l]
               Parts == {Part(l) : l \in DOMAIN s}
    <3>1. DOMAIN s = 1..Len(s) /\ Len(s) \in Nat /\ \A l \in 1..Len(s) : DOMAIN s[l] = 1..Len(s[l]) /\ Len(s[l]) \in Nat
      OBVIOUS
    <3>2. IsFiniteSet(DOMAIN s)
      BY <3>1, FS_Interval
    <3>3. IsFiniteSet(Parts)
      <4> DEFINE f == [l \in DOMAIN s |-> Part(l)]
      <4>1. f \in Surjection(DOMAIN s, Parts)
        BY DEF Surjection
      <4> HIDE DEF f, Parts
      <4> QED BY <3>2, <4>1, FS_Surjection
    <3>4. ASSUME NEW T \in Parts PROVE IsFiniteSet(T)
      <4>1. PICK l \in 1..Len(s) : T = {l} \X DOMAIN s[l]
        BY <3>1
      <4>2. IsFiniteSet({l}) /\ IsFiniteSet(1..Len(s[l]))
        <5>1. IsFiniteSet({l})
          BY FS_Singleton
        <5>2. Len(s[l]) \in Int /\ 1 \in Int
          BY <3>1
        <5> QED BY <5>1, <5>2, FS_Interval
      <4> QED BY <3>1, <4>1, <4>2, FS_Product
    <3>5. IsFiniteSet(UNION Parts)
      <4> HIDE DEF Parts
      <4> QED BY <3>3, <3>4, FS_UNION
    <3>6. Places(s) = UNION Parts
      BY DEF Places
    <3> HIDE DEF Parts
    <3> QED BY <3>5, <3>6, FS_CardinalityType DEF Size
  <2> QED BY <2>1
<1>2. Len(text) \in Nat /\ DOMAIN text = 1..Len(text)
      /\ \A l \in 1..Len(text) : text[l] \in Seq(STRING) /\ DOMAIN text[l] = 1..Len(text[l]) /\ Len(text[l]) \in Nat
  OBVIOUS
<1>3. ASSUME NEW n \in 0..Len(text)
      PROVE  /\ SubSeq(text, 1, n) \in Seq(Seq(STRING)) /\ DOMAIN SubSeq(text, 1, n) = 1..n
             /\ \A l \in 1..n : SubSeq(text, 1, n)[l] = text[l]
  <2>1. /\ SubSeq(text, 1, n) \in Seq(Seq(STRING))
        /\ Len(SubSeq(text, 1, n)) = IF 1 <= n THEN n - 1 + 1 ELSE 0
        /\ \A l \in 1..(n - 1 + 1) : SubSeq(text, 1, n)[l] = text[1 + l - 1]
    <3>1. \A l \in 1..n : text[l] \in Seq(STRING)
      BY <1>2
    <3> QED BY <1>2, <3>1, SubSeqProperties
  <2>2. \A l \in 1..n : l \in 1..(n - 1 + 1) /\ 1 + l - 1 = l
    BY <1>2
  <2>3. Len(SubSeq(text, 1, n)) = n
    BY <1>2, <2>1
  <2> QED BY <2>1, <2>2, <2>3, LenProperties
<1>4. ASSUME NEW l \in 1..Len(text)
      PROVE  /\ Len(text[l]) \in Nat /\ Len(text[l]) <= Size(text)
             /\ Size(SubSeq(text, 1, l)) = Size(SubSeq(text, 1, l - 1)) + Len(text[l])
             /\ Size(SubSeq(text, 1, l - 1)) \in Nat
  <2> DEFINE s == SubSeq(text, 1, l)
             t == SubSeq(text, 1, l - 1)
             line == {l} \X DOMAIN text[l]
  <2>1. l \in 0..Len(text) /\ l - 1 \in 0..Len(text)
    BY <1>2
  <2>2. /\ s \in Seq(Seq(STRING)) /\ DOMAIN s = 1..l /\ \A i \in 1..l : s[i] = text[i]
        /\ t \in Seq(Seq(STRING)) /\ DOMAIN t = 1..(l - 1) /\ \A i \in 1..(l - 1) : t[i] = text[i]
    BY <1>3, <2>1
  <2>3. IsFiniteSet(line) /\ Cardinality(line) = Len(text[l])
    <3>1. IsFiniteSet({l}) /\ Cardinality({l}) = 1
      BY FS_Singleton
    <3> DEFINE k == Len(text[l])
    <3>2. k \in Nat /\ line = {l} \X (1..k)
      <4>1. k \in Nat /\ DOMAIN text[l] = 1..k
        BY <1>2
      <4> HIDE DEF k
      <4> QED BY <4>1
    <3> HIDE DEF k, line
    <3>3. IsFiniteSet(1..k) /\ Cardinality(1..k) = IF 1 > k THEN 0 ELSE k - 1 + 1
      BY <3>2, FS_Interval
    <3>4. Cardinality(1..k) = k
      BY <3>2, <3>3
    <3> DEFINE one == {l}
               all == 1..k
    <3> HIDE DEF one, all
    <3>5. IsFiniteSet(one \X all) /\ Cardinality(one \X all) = Cardinality(one) * Cardinality(all)
      BY <3>1, <3>3, FS_Product DEF one, all
    <3>6. Cardinality(one) = 1 /\ Cardinality(all) = k
      BY <3>1, <3>4 DEF one, all
    <3>7. line = one \X all
      BY <3>2 DEF one, all
    <3>8. Cardinality(one) * Cardinality(all) = k
      BY <3>2, <3>6
    <3>9. IsFiniteSet(line) /\ Cardinality(line) = k
      BY <3>5, <3>7, <3>8
    <3> QED BY <3>9 DEF k
  <2>4. Places(text) = UNION {{i} \X DOMAIN text[i] : i \in 1..Len(text)}
    BY <1>2 DEF Places
  <2>5. line \subseteq Places(text)
    BY <2>4
  <2> HIDE DEF s, t
  <2>6. Places(s) = UNION {{i} \X DOMAIN text[i] : i \in 1..l}
    BY <2>2 DEF Places
  <2>7. Places(t) = UNION {{i} \X DOMAIN text[i] : i \in 1..(l - 1)}
    BY <2>2 DEF Places
  <2>8. 1..l = (1..(l - 1)) \cup {l} /\ l \notin 1..(l - 1)
    BY <1>2
  <2>9. Places(s) = Places(t) \cup line
    BY <2>6, <2>7, <2>8
  <2>10. Places(t) \cap line = {}
    BY <2>7, <2>8
  <2>11. IsFiniteSet(Places(t)) /\ Size(t) \in Nat /\ IsFiniteSet(Places(text)) /\ Size(text) \in Nat
    BY <1>1, <2>2
  <2>12. Len(text[l]) <= Size(text)
    <3> HIDE DEF line
    <3> QED BY <2>3, <2>5, <2>11, FS_Subset DEF Size
  <2>13. Size(s) = Size(t) + Len(text[l])
    <3>1. Cardinality({}) = 0
      BY FS_EmptySet
    <3> HIDE DEF line
    <3>2. Cardinality(Places(t) \cup line) = Cardinality(Places(t)) + Cardinality(line) - Cardinality(Places(t) \cap line)
      BY <2>3, <2>11, FS_Union
    <3>3. Cardinality(Places(s)) = Cardinality(Places(t)) + Len(text[l]) - 0
      BY <2>3, <2>9, <2>10, <3>1, <3>2
    <3>4. Cardinality(Places(t)) \in Nat /\ Len(text[l]) \in Nat
      BY <1>2, <2>11 DEF Size
    <3> QED BY <3>3, <3>4 DEF Size
  <2> QED BY <1>2, <2>11, <2>12, <2>13 DEF s, t
<1>5. Size(SubSeq(text, 1, 0)) = 0
  <2>1. SubSeq(text, 1, 0) = <<>> /\ Places(<<>>) = {}
    BY SubSeqEmpty DEF Places
  <2> QED BY <2>1, FS_EmptySet DEF Size
<1>6. SubSeq(text, 1, Len(text)) = text
  BY SubSeqFull
<1> QED BY <1>1, <1>4, <1>5, <1>6

\* A page that begins with a line and is as long as the line shows all of it.
LEMMA LineIsShown ==
  ASSUME NEW text \in Seq(Seq(STRING)), NEW l \in 1..Len(text), Len(text[l]) > 0, Len(text[l]) < PageSize
  PROVE  read_file(text, l - 1, Len(text[l])) =
           (Size(SubSeq(text, 1, l - 1)) + 1)..(Size(SubSeq(text, 1, l - 1)) + Len(text[l]))
<1> DEFINE k == Len(text[l])
           end == IF l - 1 + k < Len(text) THEN l - 1 + k ELSE Len(text)
           lines == SubSeq(text, l - 1 + 1, end)
<1>1. k \in Nat /\ k > 0 /\ l \in Nat /\ Len(text) \in Nat /\ end \in l..Len(text) /\ l - 1 + 1 = l
  OBVIOUS
<1>2. lines \in Seq(Seq(STRING)) /\ Len(lines) >= 1 /\ lines[1] = text[l]
  <2> HIDE DEF end
  <2>1. \A i \in l..end : text[i] \in Seq(STRING)
    BY <1>1
  <2>2. /\ lines \in Seq(Seq(STRING)) /\ Len(lines) = IF l <= end THEN end - l + 1 ELSE 0
        /\ \A i \in 1..(end - l + 1) : lines[i] = text[l + i - 1]
    BY <1>1, <2>1, SubSeqProperties
  <2>3. 1 \in 1..(end - l + 1) /\ l + 1 - 1 = l /\ l <= end
    BY <1>1
  <2> HIDE DEF lines
  <2>4. Len(lines) = end - l + 1
    BY <2>2, <2>3
  <2> QED BY <1>1, <2>2, <2>3, <2>4
<1> HIDE DEF lines, end
<1>3. Size(lines) \in Nat /\ k <= Size(lines)
  <2>1. 1 \in 1..Len(lines)
    BY <1>2
  <2> QED BY <1>2, <2>1, PlacesAre
<1>4. ~(Size(lines) > k) => Size(lines) = k
  BY <1>1, <1>3
<1> DEFINE before == Size(SubSeq(text, 1, l - 1))
           n == Size(lines)
           shown == IF n > k THEN k ELSE n
<1>5. read_file(text, l - 1, k) = (before + 1)..(before + (IF shown >= PageSize THEN PageSize - 1 ELSE shown))
  BY DEF read_file, lines, end
<1>6. shown = k
  BY <1>4
<1> HIDE DEF shown
<1>7. ~(shown >= PageSize)
  BY <1>1, <1>6, FilesAssumption DEF FilesAssumption
<1> QED BY <1>5, <1>6, <1>7

LEMMA PagesShowAll == OffloadedCanBeRead
<1> SUFFICES ASSUME NEW c \in DOMAIN Outputs, \A n \in DOMAIN Outputs[c] : Len(Outputs[c][n]) < PageSize,
                    NEW i \in 1..Size(Outputs[c])
             PROVE  \E offset \in 0..Len(Outputs[c]), limit \in 0..Size(Outputs[c]) : i \in read_file(Outputs[c], offset, limit)
  BY DEF OffloadedCanBeRead
<1> DEFINE text == Outputs[c]
           Upto(n) == Size(SubSeq(text, 1, n))
           Far == {n \in 0..Len(text) : i <= Upto(n)}
<1>1. text \in Seq(Seq(STRING)) /\ Len(text) \in Nat /\ DOMAIN text = 1..Len(text)
  BY FilesAssumption DEF FilesAssumption
<1> HIDE DEF text
<1>2. /\ Size(text) \in Nat /\ Upto(0) = 0 /\ Upto(Len(text)) = Size(text)
      /\ \A l \in 1..Len(text) : /\ Len(text[l]) \in Nat /\ Len(text[l]) <= Size(text)
                                 /\ Upto(l) = Upto(l - 1) + Len(text[l]) /\ Upto(l - 1) \in Nat
  BY <1>1, PlacesAre
<1> HIDE DEF Upto
<1>3. i \in 1..Size(text)
  BY DEF text
<1>4. PICK l \in Far : \A y \in Far : l <= y
  <2>1. Len(text) \in Far
    BY <1>1, <1>2, <1>3
  <2>2. Far \in SUBSET Nat /\ Far # {}
    BY <1>1, <2>1
  <2> QED BY <2>2, SmallestOne
<1>5. l # 0 /\ l \in 1..Len(text) /\ l - 1 \in 0..Len(text)
  BY <1>1, <1>2, <1>3, <1>4
<1>6. i > Upto(l - 1) /\ i <= Upto(l)
  <2>1. l - 1 \notin Far
    BY <1>1, <1>4, <1>5
  <2> QED BY <1>2, <1>3, <1>4, <1>5, <2>1
<1>7. Len(text[l]) > 0 /\ Len(text[l]) \in 0..Size(text)
  BY <1>2, <1>3, <1>5, <1>6
<1>8. Len(text[l]) < PageSize
  BY <1>1, <1>5 DEF text
<1>9. read_file(text, l - 1, Len(text[l])) = (Upto(l - 1) + 1)..(Upto(l - 1) + Len(text[l]))
  BY <1>1, <1>5, <1>7, <1>8, LineIsShown DEF Upto
<1>10. i \in (Upto(l - 1) + 1)..(Upto(l - 1) + Len(text[l]))
  BY <1>2, <1>3, <1>5, <1>6
<1> QED BY <1>5, <1>7, <1>9, <1>10 DEF text

-----------------------------------------------------------------------------
\* The safety part of the specification of the files.
FilesSafety == FilesInit /\ [][FilesNext]_fileVars

\* The skills that are found can be read.
LEMMA SkillsStand ==
  ASSUME FilesInv, before_agent
  PROVE  FilesInv'
<1>1. PICK path \in [{n \in SkillNames : _list_skills(n) # {}} -> UNION {_list_skills(n) : n \in SkillNames}] :
        /\ \A n \in DOMAIN path : path[n] \in _list_skills(n)
        /\ skills' = {path}
  BY DEF before_agent
<1>2. \A q, t : Stands(q, t) => Stands(q, t)'
  BY DEF before_agent, Stands, Routes
<1>3. Source \in Strings
  <2>1. Skills \in Seq(PathParts) /\ "pre_purchase" \in PathParts
    BY RoutesAre, FilesAssumption DEF Path, Strings, FilesAssumption
  <2> QED BY <2>1, AppendProperties DEF Source, Strings
<1>4. ASSUME NEW n \in DOMAIN path PROVE \E t : Stands(path[n], t)
  <2>1. PICK d \in ls_info(Source).dirs : path[n] = SkillFile(d) /\ read(SkillFile(d)) # {}
    BY <1>1 DEF _list_skills
  <2>2. d \in Strings
    BY <1>3, <2>1, DirsHave DEF FilesInv
  <2>3. SkillFile(d) \in Strings
    <3>1. "SKILL.md" \in PathParts
      BY FilesAssumption DEF FilesAssumption
    <3> QED BY <2>2, <3>1, AppendProperties DEF SkillFile, Strings
  <2> QED BY <2>1, <2>3, ReadStands DEF FilesInv
<1>5. FilesTypes'
  BY DEF before_agent, FilesInv, FilesTypes, Tidy, Routes
<1>6. (\A p \in DOMAIN wrote : p \in Path /\ Stands(p, wrote[p]))'
  <2> SUFFICES ASSUME NEW p \in DOMAIN wrote' PROVE p \in Path /\ Stands(p, wrote[p])'
    OBVIOUS
  <2>1. wrote' = wrote /\ p \in Path /\ Stands(p, wrote[p])
    BY DEF FilesInv, before_agent
  <2> QED BY <1>2, <2>1
<1>7. \A x \in skills' : \A n \in DOMAIN x : \E t : Stands(x[n], t)'
  BY <1>1, <1>2, <1>4
<1> QED BY <1>5, <1>6, <1>7 DEF FilesInv

\* A large result is told of under the name of its call.
LEMMA LargeIs ==
  ASSUME NEW c \in DOMAIN Outputs
  PROVE  Large(c) \in Path
<1>1. c \in PathParts /\ "large_tool_results" \in PathParts
  BY FilesAssumption DEF FilesAssumption
<1>2. Large(c) \in Seq(PathParts) /\ Len(Large(c)) = 2 /\ Large(c) # <<>>
  BY <1>1 DEF Large
<1> QED BY <1>2 DEF Path, Strings

\* Whatever the files of an agent and the directories that are mounted for it: what
\* its tools and its skills name can be read, what it was told that it wrote is found
\* as it was written, and a result that was too large can be read piece by piece.
THEOREM FilesStayFound == FilesSafety => []FilesAreFound
<1>1. FilesInit => FilesInv
  <2> SUFFICES ASSUME FilesInit PROVE FilesInv
    OBVIOUS
  <2>1. files = <<>> /\ disk = Disk /\ skills = {} /\ wrote = <<>>
    BY DEF FilesInit
  <2>2. DOMAIN files = {} /\ DOMAIN wrote = {}
    BY <2>1
  <2>3. DOMAIN Disk = {Skills, Docs}
    BY FilesAssumption DEF FilesAssumption
  <2>4. ASSUME NEW r \in {Skills, Docs} PROVE Tidy(Disk[r])
    <3>1. /\ DOMAIN Disk[r] \subseteq Path /\ DOMAIN Disk[r] # {}
          /\ \A p, q \in DOMAIN Disk[r] : Len(p) > Len(q) => SubSeq(p, 1, Len(q)) # q
      BY <2>3, FilesAssumption DEF FilesAssumption, Path, Strings
    <3> QED BY <3>1 DEF Tidy, Below
  <2> QED BY <2>1, <2>2, <2>3, <2>4 DEF FilesInv, FilesTypes
<1>2. FilesInv /\ [FilesNext]_fileVars => FilesInv'
  <2> SUFFICES ASSUME FilesInv, [FilesNext]_fileVars PROVE FilesInv'
    OBVIOUS
  <2>1. CASE UNCHANGED fileVars
    <3>1. graph' = graph /\ files' = files /\ disk' = disk /\ skills' = skills /\ wrote' = wrote
      BY <2>1 DEF fileVars
    <3>2. FilesTypes'
      BY <3>1 DEF FilesInv, FilesTypes, Tidy, Routes
    <3>3. \A q, t : Stands(q, t) => Stands(q, t)'
      BY <3>1 DEF Stands, Routes
    <3>4. (\A p \in DOMAIN wrote : p \in Path /\ Stands(p, wrote[p]))'
      <4> SUFFICES ASSUME NEW p \in DOMAIN wrote' PROVE p \in Path /\ Stands(p, wrote[p])'
        OBVIOUS
      <4>1. wrote' = wrote /\ p \in Path /\ Stands(p, wrote[p])
        BY <3>1 DEF FilesInv
      <4> QED BY <3>3, <4>1
    <3>5. \A x \in skills' : \A n \in DOMAIN x : \E t : Stands(x[n], t)'
      BY <3>1, <3>3 DEF FilesInv
    <3> QED BY <3>2, <3>4, <3>5 DEF FilesInv
  <2>2. CASE before_agent
    BY <2>2, SkillsStand
  <2>3. ASSUME NEW p \in FileNames, NEW text \in Texts, write_file(p, text) PROVE FilesInv'
    <3>1. p \in Path
      BY FilesAssumption DEF FilesAssumption, Path, Strings
    <3> QED BY <2>3, <3>1, WrittenStays DEF write_file
  <2>4. ASSUME NEW p \in FileNames, NEW w \in Words, NEW v \in Words, NEW all \in BOOLEAN, edit_file(p, w, v, all)
        PROVE  FilesInv'
    <3>1. p \in Path
      BY FilesAssumption DEF FilesAssumption, Path, Strings
    <3>2. PICK text \in read(p) :
            /\ Stored(p, Replaced(text, w, v))
            /\ wrote' = Put(wrote, p, Replaced(IF p \in DOMAIN wrote THEN wrote[p] ELSE text, w, v))
      BY <2>4 DEF edit_file
    <3>3. (IF p \in DOMAIN wrote THEN wrote[p] ELSE text) = text
      <4>1. CASE p \in DOMAIN wrote
        <5>1. read(p) = {wrote[p]}
          BY <4>1, ReadIs DEF FilesInv
        <5> QED BY <4>1, <5>1
      <4>2. CASE p \notin DOMAIN wrote
        BY <4>2
      <4> QED BY <4>1, <4>2
    <3> DEFINE new == Replaced(text, w, v)
    <3>4. Stored(p, new) /\ wrote' = Put(wrote, p, new) /\ UNCHANGED <<graph, skills>> /\ read(p) # {}
      BY <2>4, <3>2, <3>3 DEF edit_file
    <3> HIDE DEF new
    <3> QED BY <3>1, <3>4, WrittenStays
  <2>5. ASSUME NEW c \in DOMAIN Outputs, _process_large_message(c, Outputs[c]) PROVE FilesInv'
    BY <2>5, LargeIs, WrittenStays DEF _process_large_message
  <2> QED BY <2>1, <2>2, <2>3, <2>4, <2>5 DEF FilesNext
<1>3. FilesInv => FilesAreFound
  BY AllReadable, WrittenFound, PagesShowAll DEF FilesAreFound
<1> QED BY <1>1, <1>2, <1>3, PTL DEF FilesSafety
=============================================================================
