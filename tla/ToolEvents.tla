------------------------------ MODULE ToolEvents ------------------------------
(***************************************************************************)
(* Where the events of a tool call go: every turn of stream_agent_chat     *)
(* compiles an agent of its own, and with it a monitor whose events its    *)
(* stream drains; but every tool runs through the one runtime of the       *)
(* process, which each compilation replaces.                               *)
(***************************************************************************)
EXTENDS Integers

CONSTANTS
  Turns,
  None,     \* no runtime is configured, or the turn is in no call
  MaxCalls  \* bound: the tool calls of one turn

VARIABLES
  runtime,  \* _runtime: the turn whose compilation configured it last
  turn,     \* the phase of each turn
  calls,    \* the tool calls it has begun
  through,  \* the runtime that the tool call a turn is in was given
  monitor,  \* per turn, whose tool events lie in its monitor
  sent      \* per turn, whose tool events its stream has carried

vars == <<runtime, turn, calls, through, monitor, sent>>

Init ==
  /\ runtime = None
  /\ turn = [t \in Turns |-> "new"] /\ calls = [t \in Turns |-> 0]
  /\ through = [t \in Turns |-> None]
  /\ monitor = [t \in Turns |-> {}] /\ sent = [t \in Turns |-> {}]

\* An event of a tool of t: the LifecycleHandler of the runtime that runs the
\* tool hands it to its sink, which puts it into the monitor it was given. The
\* wrapper of SSEMonitoringMiddleware, which would put it into the monitor of
\* t's own graph, is never entered: _chain_async_tool_call nests the innermost
\* wrapper into itself and calls no other.
Reported(t, r) == [m \in Turns |-> IF m = r THEN monitor[m] \cup {t} ELSE monitor[m]]

\* get_graph, when the stream begins. configure_runtime and the sink that
\* follows it have no await between them.
Compile(t) ==
  /\ turn[t] = "new" /\ turn' = [turn EXCEPT ![t] = "stream"]
  /\ runtime' = t
  /\ UNCHANGED <<calls, through, monitor, sent>>

\* runtime_wrapper asks for the runtime; tool_start.
CallTool(t) ==
  /\ turn[t] = "stream" /\ through[t] = None /\ calls[t] < MaxCalls
  /\ calls' = [calls EXCEPT ![t] = @ + 1]
  /\ through' = [through EXCEPT ![t] = runtime]
  /\ monitor' = Reported(t, runtime)
  /\ UNCHANGED <<runtime, turn, sent>>

\* tool_complete or tool_error, of the same runtime.
ToolReturns(t) ==
  /\ turn[t] = "stream" /\ through[t] # None
  /\ through' = [through EXCEPT ![t] = None]
  /\ monitor' = Reported(t, through[t])
  /\ UNCHANGED <<runtime, turn, calls, sent>>

\* With each chunk of its stream, a turn drains its monitor into its session.
Drain(t) ==
  /\ turn[t] = "stream"
  /\ sent' = [sent EXCEPT ![t] = @ \cup monitor[t]]
  /\ monitor' = [monitor EXCEPT ![t] = {}]
  /\ UNCHANGED <<runtime, turn, calls, through>>

\* The stream ends; the runtime of the turn stays.
EndTurn(t) ==
  /\ turn[t] = "stream" /\ turn' = [turn EXCEPT ![t] = "ended"]
  /\ through' = [through EXCEPT ![t] = None]
  /\ UNCHANGED <<runtime, calls, monitor, sent>>

Next == \E t \in Turns : Compile(t) \/ CallTool(t) \/ ToolReturns(t) \/ Drain(t) \/ EndTurn(t)

Spec == Init /\ [][Next]_vars

\* SSEMonitoringMiddleware: a monitor holds "all tool calls" of its graph for
\* the stream of that graph. With a runtime that is configured once, as
\* configure_runtime says it is, nothing else would come into it: the tool
\* events a turn's stream carries are its own.
ToolsAreOwn == \A t \in Turns : sent[t] \subseteq {t}
=============================================================================
