------------------------------- MODULE AgentLoop -------------------------------
(***************************************************************************)
(* The compiled graph of the master agent (create_agent of factory.py):    *)
(* the nodes and edges that it gets from its list of middlewares, the way  *)
(* of a request through their model wrappers, and what dynamic_model does  *)
(* when a provider refuses a model for its quota. Turns of several threads *)
(* run at the same time and share the list of unavailable models. What the *)
(* tools do is in AgentTools.                                              *)
(***************************************************************************)
EXTENDS Integers, Sequences, FiniteSets, SequencesExt

CONSTANTS
  Turns,        \* the messages of users
  Known,        \* the models that load_chat_model can load
  Asked,        \* the models that a page asks for, which may be unknown
  DefaultModel, \* config.default_model
  GraphModel,   \* the model the graph was built with
  Ttl,          \* _UNAVAILABLE_TTL_SECONDS, in clock ticks
  StepLimit,    \* recursion_limit
  RunLimit,     \* run_limit of ToolCallLimitMiddleware
  MaxPerAnswer, \* bound: the tool calls of one answer of the model
  MaxOutages,   \* bound: how often a provider starts or stops to refuse
  MaxClock      \* bound: the clock ticks

VARIABLES
  loop,         \* the state of each turn
  unavailable,  \* _unavailable_models: until when a model is not asked
  broke,        \* the models whose quota is used up
  outages,      \* how often that changed
  clock

loopVars == <<loop, unavailable, broke, outages, clock>>

None == "none"

\* The default model is one of those that the configuration describes.
ASSUME LoopAssumption == DefaultModel \in Known /\ DefaultModel # None

NoRequest == [held |-> <<>>, sent |-> <<>>]

-----------------------------------------------------------------------------
(* The graph *)

\* The list that get_graph gives to create_agent, and which hooks each has.
Middleware ==
  <<"dynamic_model", "sse_monitor", "content_guard", "patch", "offload", "limit", "todos",
    "filesystem", "skills", "subagents", "thinking">>
HasHook ==
  [before_agent |-> {"patch", "skills"},
   wrap_model_call |-> {"dynamic_model", "todos", "filesystem", "skills", "subagents"},
   after_model |-> {"limit", "todos", "thinking"},
   after_agent |-> {"thinking"}]
Real ==
  [hook \in DOMAIN HasHook |->
     LET kept(before, m) == IF m \in HasHook[hook] THEN Append(before, m) ELSE before
     IN  FoldLeft(kept, <<>>, Middleware)]

ModelNode == <<"graph", "model">>
ToolNode == <<"graph", "tools">>
EndNode == <<"graph", "end">>

\* The node of the i-th middleware with the hook, if there is one.
NodeOr(hook, i, otherwise) == IF i \in DOMAIN Real[hook] THEN <<Real[hook][i], hook>> ELSE otherwise
Place(n) == CHOOSE i \in DOMAIN Real[n[2]] : Real[n[2]][i] = n[1]
EntryNode == NodeOr("before_agent", 1, ModelNode)
ExitNode == NodeOr("after_agent", Len(Real["after_agent"]), EndNode)

\* Hooks before the agent run in the order of the list, those after the model
\* and after the agent against it.
DefaultEdge(n) ==
  CASE n = ModelNode -> NodeOr("after_model", Len(Real["after_model"]), ExitNode)
    [] n = ToolNode -> ModelNode
    [] n[2] = "before_agent" -> NodeOr(n[2], Place(n) + 1, ModelNode)
    [] n[2] = "after_model" -> NodeOr(n[2], Place(n) - 1, ExitNode)
    [] n[2] = "after_agent" -> NodeOr(n[2], Place(n) - 1, EndNode)
    [] OTHER -> EndNode
JumpEdge(n, jump_to) ==
  CASE jump_to = "tools" -> ToolNode
    [] jump_to = "model" -> ModelNode
    [] jump_to = "end" -> ExitNode
    [] OTHER -> DefaultEdge(n)

-----------------------------------------------------------------------------
(* Mistakes the code does not make *)

\* thinking_process leaves the way on to the edges.
JumpTo_Never(n, calls) == None

\* A wrapper writes its section into the request it was given.
Modified_InPlace(r, m) == [held |-> Append(r.held, m), sent |-> Append(r.sent, m)]

\* The default model is asked again for as long as it refuses.
GivesUp_Never(t) == loop[t].asked = DefaultModel

\* The page's choice is taken for final.
Fallback_None(t) == None
-----------------------------------------------------------------------------
\* ToolCallLimitMiddleware and TodoListMiddleware jump for tool calls only, which
\* never come to them: thinking_process, their forerunner, sends those to the tools.
JumpTo(n, calls) == IF n = <<"thinking", "after_model">> /\ calls > 0 THEN "tools" ELSE None

\* A wrapper hands on a changed copy of the request it was given.
Modified(r, m) == [r EXCEPT !.sent = Append(@, m)]

\* What dynamic_model, the outermost wrapper, sends: its handler is the chain of
\* all the others.
Chained(r) == FoldLeft(Modified, [r EXCEPT !.sent = r.held], Tail(Real["wrap_model_call"]))

Unavailable(m) == m \in DOMAIN unavailable /\ clock < unavailable[m]

\* load_chat_model_with_fallback; a model that cannot be loaded leaves the model
\* of the graph in the request.
Resolved(m) ==
  LET actual == IF Unavailable(m) /\ DefaultModel # m THEN DefaultModel ELSE m
  IN  IF actual \in Known THEN actual ELSE GraphModel

Marked(m) == [x \in DOMAIN unavailable \cup {m} |-> IF x = m THEN clock + Ttl ELSE unavailable[x]]

\* The model for the second and last attempt, and when there is none.
Fallback(t) == IF DefaultModel = loop[t].asked THEN None ELSE DefaultModel
GivesUp(t) == loop[t].retried \/ Fallback(t) = None

-----------------------------------------------------------------------------
(* A turn *)

\* refused are the models that refused the turn; it serves the properties only.
LoopInit ==
  /\ loop = [t \in Turns |->
       [at |-> EndNode, asked |-> None, calls |-> 0, ran |-> 0, steps |-> 0, model |-> None,
        retried |-> FALSE, request |-> NoRequest, refused |-> {}, outcome |-> None]]
  /\ unavailable = <<>> /\ broke = {} /\ outages = 0 /\ clock = 0

World == <<broke, outages, clock>>

Begins(t) ==
  /\ loop[t].asked = None
  /\ \E m \in Asked : loop' = [loop EXCEPT ![t].asked = m, ![t].at = EntryNode]
  /\ UNCHANGED <<unavailable, World>>

\* The graph goes on to a node while it has supersteps left.
Runs(t, n) == loop[t].outcome = None /\ loop[t].asked # None /\ loop[t].at = n /\ loop[t].steps < StepLimit
Goes(turn, n) == [turn EXCEPT !.steps = @ + 1, !.at = n, !.outcome = IF n = EndNode THEN "answered" ELSE @]
NoCall(turn) == [turn EXCEPT !.model = None, !.retried = FALSE, !.request = NoRequest]
Fails(turn, why) == [NoCall(turn) EXCEPT !.outcome = why, !.at = EndNode, !.steps = 0, !.calls = 0]

Hook(t) ==
  /\ loop[t].at \notin {ModelNode, ToolNode} /\ Runs(t, loop[t].at)
  /\ loop' = [loop EXCEPT ![t] = Goes(@, JumpEdge(@.at, JumpTo(@.at, @.calls)))]
  /\ UNCHANGED <<unavailable, World>>

CallsModel(t) ==
  /\ Runs(t, ModelNode) /\ loop[t].model = None
  /\ loop' = [loop EXCEPT ![t].model = Resolved(loop[t].asked), ![t].request = Chained(NoRequest)]
  /\ UNCHANGED <<unavailable, World>>

ModelAnswers(t) ==
  /\ loop[t].model # None /\ loop[t].model \notin broke
  /\ \E n \in 0..MaxPerAnswer :
       loop' = [loop EXCEPT ![t] = Goes([NoCall(@) EXCEPT !.calls = n], DefaultEdge(ModelNode))]
  /\ UNCHANGED <<unavailable, World>>

\* is_quota_error: the model asked for is marked, and the default one tried; only
\* the first of the two errors is looked at.
ModelRefuses(t) ==
  /\ loop[t].model # None /\ loop[t].model \in broke
  /\ unavailable' = IF loop[t].retried THEN unavailable ELSE Marked(loop[t].asked)
  /\ LET turn == [loop[t] EXCEPT !.refused = @ \cup {loop[t].model}]
     IN  loop' = [loop EXCEPT ![t] =
           IF GivesUp(t) THEN Fails(turn, "refused")
             ELSE [turn EXCEPT !.model = DefaultModel, !.retried = TRUE, !.request = Chained(@)]]
  /\ UNCHANGED World

\* Any other error, a timeout of the request among them.
ModelRaises(t) ==
  /\ loop[t].model # None
  /\ loop' = [loop EXCEPT ![t] = Fails(@, "failed")]
  /\ UNCHANGED <<unavailable, World>>

RunsTools(t) ==
  /\ Runs(t, ToolNode)
  /\ loop' = [loop EXCEPT ![t] = Goes([@ EXCEPT !.calls = 0, !.ran = loop[t].ran + loop[t].calls], DefaultEdge(ToolNode))]
  /\ UNCHANGED <<unavailable, World>>

\* GraphRecursionError
Overruns(t) ==
  /\ loop[t].outcome = None /\ loop[t].steps = StepLimit
  /\ loop' = [loop EXCEPT ![t] = Fails(@, "failed")]
  /\ UNCHANGED <<unavailable, World>>

QuotaChanges(m) ==
  /\ outages < MaxOutages /\ outages' = outages + 1
  /\ broke' = IF m \in broke THEN broke \ {m} ELSE broke \cup {m}
  /\ UNCHANGED <<loop, unavailable, clock>>

TimePasses == clock < MaxClock /\ clock' = clock + 1 /\ UNCHANGED <<loop, unavailable, broke, outages>>

TurnStep(t) ==
  Hook(t) \/ CallsModel(t) \/ ModelAnswers(t) \/ ModelRefuses(t) \/ ModelRaises(t) \/ RunsTools(t) \/ Overruns(t)

LoopNext ==
  \/ \E t \in Turns : Begins(t) \/ TurnStep(t)
  \/ \E m \in Known : QuotaChanges(m)
  \/ TimePasses

LoopSpec == LoopInit /\ [][LoopNext]_loopVars /\ \A t \in Turns : WF_loopVars(TurnStep(t))

-----------------------------------------------------------------------------
(* Properties *)

\* A page that asks for a model without quota still gets its turn: only if the
\* default model refuses as well, the turn fails for its quota (the promise of
\* dynamic_model.py).
QuotaNeedsDefault == \A t \in Turns : loop[t].outcome = "refused" => DefaultModel \in loop[t].refused

\* The model gets the section of every wrapper once, also when it is the second
\* that is asked and the request has been through the chain before.
PromptsAreWhole ==
  \A t \in Turns : loop[t].model # None =>
    \A m \in ToSet(Tail(Real["wrap_model_call"])) :
      Cardinality({i \in DOMAIN loop[t].request.sent : loop[t].request.sent[i] = m}) = 1

\* Every turn comes to an end, whatever the model asks for, and one that ends
\* with an answer has run every tool the model called: the hooks between the
\* model and the end let no call slip by. (What was asked stays: []<> says of a turn
\* what a leads-to would.)
TurnsEnd ==
  \A t \in Turns :
    []<>(loop[t].asked # None => loop[t].outcome # None /\ (loop[t].outcome = "answered" => loop[t].calls = 0))

\* A turn runs no more tools than the run_limit that get_graph gives to
\* ToolCallLimitMiddleware. It does, as the limit is looked at in a hook that no
\* tool call comes to.
LimitHolds == \A t \in Turns : loop[t].ran <= RunLimit

\* Both: a model without quota costs a turn neither its answer nor a part of its
\* prompt.
LoopServes == QuotaNeedsDefault /\ PromptsAreWhole
=============================================================================
