------------------------------ MODULE AgentTools ------------------------------
(***************************************************************************)
(* The loop of the master agent between its model and its tools, and the   *)
(* files of the conversation: the tools of a step run at the same time,    *)
(* some answer with a message, some with a Command that also updates the   *)
(* state, and tool_node_wrapper joins what they return.  Subagents work on *)
(* a copy of the files and return it whole.                                *)
(***************************************************************************)
EXTENDS Integers, Sequences, FiniteSets, FiniteSetsExt

CONSTANTS
  Paths,       \* the files that write_file and edit_file are called for
  MaxCalls,    \* bound: the tool calls of the conversation
  MaxPerStep,  \* bound: the tool calls of one answer of the model
  MaxWork,     \* bound: the file operations of one attempt of a subagent
  MaxTurns     \* bound: the turns of the conversation

\* A result that is too large goes to a file named for its call, which no other
\* file is named like.
ASSUME AgentAssumption == MaxPerStep \in Nat /\ \A p \in Paths : p \notin Nat

VARIABLES
  agent,  \* the node the agent is in, and the state of the conversation
  call    \* the tool calls of the model, in order

agentVars == <<agent, call>>

\* What the model may call: a tool that answers with a message (plain), one whose
\* result is too large (big), one whose Command has no files (todo), write_file,
\* edit_file, and task. A call has a path if it is named for one.
Wanted == [kind : {"plain", "big", "todo", "task"}, path : {0}] \cup [kind : {"write", "edit"}, path : Paths]

\* files maps a path to the calls whose work the file has; saved is what the
\* checkpoint before the step has of them; answered are the calls that have a
\* ToolMessage. mixed and told serve the properties only.
AgentInit ==
  /\ agent = [node |-> "end", turn |-> 0, files |-> <<>>, saved |-> <<>>, step |-> {},
              answered |-> {}, mixed |-> {}, told |-> {}]
  /\ call = <<>>

-----------------------------------------------------------------------------
(* Mistakes the code does not make *)

\* The update takes the place of the files.
Reduced_Right(left, right) == right

\* The history goes to the model as the last turn left it.
Begin_NoPatch ==
  /\ agent.node = "end" /\ agent.turn < MaxTurns
  /\ agent' = [agent EXCEPT !.node = "model", !.turn = @ + 1]
  /\ UNCHANGED call
-----------------------------------------------------------------------------
\* _file_data_reducer: what is on the right replaces what is on the left.
Reduced(left, right) ==
  [p \in DOMAIN left \cup DOMAIN right |-> IF p \in DOMAIN right THEN right[p] ELSE left[p]]

\* The file of path once call c has worked on it, as an update of the files.
WorkOf(c, files, path) ==
  [p \in {path} |-> IF p \in DOMAIN files THEN files[p] \cup {c} ELSE {c}]

Open == DOMAIN call \ agent.answered
At(c, kinds, pc) == agent.node = "tools" /\ c \in agent.step /\ call[c].kind \in kinds /\ call[c].pc = pc
Goto(c, pc) == call' = [call EXCEPT ![c].pc = pc]
Yields(c, data) == call' = [call EXCEPT ![c].pc = "sync", ![c].data = data]

-----------------------------------------------------------------------------
(* The model *)

\* A message of the user: before the model sees the history, the middleware
\* PatchToolCalls answers the calls that were left open.
Begin ==
  /\ agent.node = "end" /\ agent.turn < MaxTurns
  /\ agent' = [agent EXCEPT !.node = "model", !.turn = @ + 1,
                            !.answered = DOMAIN call, !.mixed = {}]
  /\ UNCHANGED call

\* It calls tools: thinking_process sends the agent to them, past the hooks that
\* come after it. A result that is too large has a path of its own.
Called(w, c) ==
  [kind |-> w.kind, path |-> IF w.kind = "big" THEN c ELSE w.path, pc |-> "ready",
   data |-> <<>>, attempt |-> 1, work |-> 0]
CallsTools ==
  /\ agent.node = "model"
  /\ \E n \in 1..MaxPerStep : \E w \in [1..n -> Wanted] :
       /\ Len(call) + n <= MaxCalls
       /\ call' = call \o [i \in 1..n |-> Called(w[i], Len(call) + i)]
       /\ agent' = [agent EXCEPT !.node = "tools", !.saved = agent.files,
                                 !.step = (Len(call) + 1)..(Len(call) + n)]

\* It answers without a call, or raises (a provider may refuse a history with
\* open calls): the turn ends.
Answers ==
  /\ agent.node = "model" /\ agent' = [agent EXCEPT !.node = "end", !.step = {}]
  /\ UNCHANGED call

\* The turn ends while its tools run. A checkpoint of the state before the step
\* is all that is left, and it may have been written after a tool had changed
\* the files in place.
Stops ==
  /\ agent.node = "tools"
  /\ \E f \in {agent.files, agent.saved} :
       agent' = [agent EXCEPT !.node = "end", !.step = {}, !.files = f]
  /\ UNCHANGED call

-----------------------------------------------------------------------------
(* The tools of a step *)

Message(c) == At(c, {"plain"}, "ready") /\ Goto(c, "message") /\ UNCHANGED agent
Command(c) == At(c, {"todo"}, "ready") /\ Goto(c, "command") /\ UNCHANGED agent

\* A result that is too large is written to a file of its own, and StateBackend
\* writes and edits in a thread: what is returned goes into the state in Syncs.
Offloads(c) ==
  /\ At(c, {"big"}, "ready") /\ Yields(c, WorkOf(c, <<>>, call[c].path))
  /\ UNCHANGED agent
Writes(c) ==
  /\ At(c, {"write"}, "ready")
  /\ IF call[c].path \in DOMAIN agent.files THEN Goto(c, "message")
       ELSE Yields(c, WorkOf(c, <<>>, call[c].path))
  /\ UNCHANGED agent
Edits(c) ==
  /\ At(c, {"edit"}, "ready")
  /\ \/ Goto(c, "message")  \* no such file, or not the string to replace
     \/ /\ call[c].path \in DOMAIN agent.files
        /\ Yields(c, WorkOf(c, agent.files, call[c].path))
  /\ UNCHANGED agent

\* CompositeBackend puts the update into the files of the state, in place.
Syncs(c) ==
  /\ At(c, {"write", "big", "edit"}, "sync")
  /\ agent' = [agent EXCEPT !.files = Reduced(@, call[c].data)]
  /\ Goto(c, "command")

\* task: a subagent begins with the files of the state, works on its copy,
\* is called a second time, from the files of the state, when its output is not
\* valid, and returns all its files; an exception becomes a message.
Delegates(c) ==
  /\ At(c, {"task"}, "ready")
  /\ call' = [call EXCEPT ![c].pc = "works", ![c].data = agent.files]
  /\ UNCHANGED agent
Works(c) ==
  /\ At(c, {"task"}, "works") /\ call[c].work < MaxWork
  /\ \E p \in Paths :
       call' = [call EXCEPT ![c].work = @ + 1, ![c].data = Reduced(@, WorkOf(c, @, p))]
  /\ UNCHANGED agent
Retries(c) ==
  /\ At(c, {"task"}, "works") /\ call[c].attempt = 1
  /\ call' = [call EXCEPT ![c].attempt = 2, ![c].work = 0, ![c].data = agent.files]
  /\ UNCHANGED agent
TaskReturns(c) ==
  /\ At(c, {"task"}, "works") /\ \E pc \in {"command", "message"} : Goto(c, pc)
  /\ UNCHANGED agent

-----------------------------------------------------------------------------
(* The step returns: tool_node_wrapper *)

Commands == {c \in agent.step : call[c].pc = "command"}

\* ToolNode wraps the messages of a step with Commands in dicts of their own,
\* which the wrapper passes over; of the updates, the last one of a key stays.
Joined == IF Commands = {} THEN <<>> ELSE call[Max(Commands)].data
Seen == IF Commands = {} THEN agent.step ELSE Commands

\* The work the model is told of that nothing in the step competes with: no other
\* call returned the path, and no Command comes after that of a subagent.
Told(c) ==
  {<<c, p>> : p \in {q \in DOMAIN call[c].data :
     /\ c \in call[c].data[q]
     /\ \A d \in Commands \ {c} : q \notin DOMAIN call[d].data /\ (call[c].kind = "task" => d < c)}}

Joins ==
  /\ agent.node = "tools" /\ \A c \in agent.step : call[c].pc \in {"message", "command"}
  /\ agent' = [agent EXCEPT !.node = "model", !.step = {}, !.files = Reduced(@, Joined),
                            !.answered = @ \cup Seen, !.mixed = @ \cup (agent.step \ Seen),
                            !.told = @ \cup UNION {Told(c) : c \in Commands}]
  /\ UNCHANGED call

Tool(c) ==
  \/ Message(c) \/ Command(c) \/ Offloads(c) \/ Writes(c) \/ Edits(c) \/ Syncs(c)
  \/ Delegates(c) \/ Works(c) \/ Retries(c) \/ TaskReturns(c)

AgentNext == Begin \/ CallsTools \/ Answers \/ Stops \/ (\E c \in agent.step : Tool(c)) \/ Joins

AgentSpec == AgentInit /\ [][AgentNext]_agentVars

-----------------------------------------------------------------------------
(* Properties *)

\* When the model is called, every tool call of the history has its answer, as
\* tool_node_wrapper says providers want it, however the turns before ended; but
\* for the messages of a step of this turn in which another tool returned a
\* Command.
CallsAnswered == agent.node = "model" => Open \subseteq agent.mixed

\* What a tool was told to have written stays in the files of the conversation,
\* whatever subagents return later and however turns end, unless another call
\* of the same step had the same file or followed the subagent.
WorkKept == \A w \in agent.told : w[2] \in DOMAIN agent.files /\ w[1] \in agent.files[w[2]]
=============================================================================
