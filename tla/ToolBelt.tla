------------------------------ MODULE ToolBelt ------------------------------
(***************************************************************************)
(* How the tools of the MCP servers come into the hands of the agents: the *)
(* table of servers that the admin page edits, MCP_SERVERS, which a thread *)
(* fills from that table while the first turns already run, the list of    *)
(* tools with its cache, the registry, and the tools that a turn of the    *)
(* shopping agent (a chat) or one search of the planning and gift agents   *)
(* gets. What a server does with a call is McpStdio's.                     *)
(*                                                                         *)
(* Time is the age of the cache: a tick is the passing of a share of       *)
(* _TOOLS_CACHE_TTL.                                                       *)
(***************************************************************************)
EXTENDS Integers, FiniteSets

CONSTANTS
  Servers,     \* the names of MCP servers
  HARDCODED,   \* the ones that MCP_SERVERS holds when the process starts
  ServedBy,    \* the tools that each server lists
  WHITELIST,   \* the ones that are registered: _MCP_TOOL_WHITELIST
  LocalTools,  \* the tools of the toolkits, registered when they are imported
  UserTools,   \* the ones of them that take a user_id
  ALLOWED,     \* what the main agent may hold: _MASTER_ALLOWED_TOOLS
  Configured,  \* what the subagents hold: `tools` in subagents.yaml
  Users,
  Chats,       \* the turns of the shopping agent that may run at a time
  Lookups,     \* and the searches of the planning and gift agents
  CACHE_TTL,   \* _TOOLS_CACHE_TTL, in ticks
  MaxEvents    \* bound: changes of the table, servers that no longer answer or a database
               \* that does not, and restarts

\* The rows and the dictionary are finite, and an id of a user is never "none".
ASSUME BeltAssumption ==
  /\ IsFiniteSet(Servers) /\ HARDCODED \subseteq Servers
  /\ Users # {} /\ "none" \notin Users
  /\ CACHE_TTL \in Nat /\ MaxEvents \in Nat

VARIABLES
  rowsOf,     \* mcp_servers: the rows, by name, and whether each is enabled
  config,     \* MCP_SERVERS: the names
  warmup,     \* what the thread that fills it has before it: its step, the rows left
  answering,  \* the servers that answer
  cache,      \* _tools_cache: the specs and their age
  registry,   \* _all_tool_instances: the names
  scoped,     \* the tools that with_user_id has wrapped, for all turns
  turn,       \* each turn: its user, where it is, its list of tools and what it holds
  happened    \* how many of the bounded events there were

beltVars == <<rowsOf, config, warmup, answering, cache, registry, scoped, turn, happened>>

NoSpecs == [known |-> FALSE, specs |-> {}, age |-> CACHE_TTL]
Askers == Chats \union Lookups
Anyone == CHOOSE u \in Users : TRUE
NoRows == [s \in {} |-> TRUE]
NoTurn == [stage |-> "none", user |-> Anyone, left |-> {}, size |-> 0, specs |-> {}, asked |-> FALSE,
           master |-> {}, sub |-> {}, bound |-> "none"]

BeltInit ==
  /\ rowsOf = NoRows
  /\ config = HARDCODED /\ warmup = [step |-> "migrate", left |-> NoRows]
  /\ answering = Servers
  /\ cache = NoSpecs
  /\ registry = LocalTools /\ scoped = {}
  /\ turn = [t \in Askers |-> NoTurn]
  /\ happened = 0

Happens == happened < MaxEvents /\ happened' = happened + 1
-----------------------------------------------------------------------------
(* The table and the thread.                                               *)

\* create_server, update_server and delete_server: the table, and nothing else.
EditServer(s, enabled) ==
  /\ Happens
  /\ rowsOf' = [r \in DOMAIN rowsOf \union {s} |-> IF r = s THEN enabled ELSE rowsOf[r]]
  /\ UNCHANGED <<config, warmup, answering, cache, registry, scoped, turn>>

DeleteServer(s) ==
  /\ s \in DOMAIN rowsOf /\ Happens
  /\ rowsOf' = [r \in DOMAIN rowsOf \ {s} |-> rowsOf[r]]
  /\ UNCHANGED <<config, warmup, answering, cache, registry, scoped, turn>>

\* migrate_hardcoded_to_db.
Migrates ==
  /\ warmup.step = "migrate"
  /\ rowsOf' = [r \in DOMAIN rowsOf \union HARDCODED |-> r \in DOMAIN rowsOf => rowsOf[r]]
  /\ warmup' = [warmup EXCEPT !.step = "load"]
  /\ UNCHANGED <<config, answering, cache, registry, scoped, turn, happened>>

\* load_mcp_servers_from_db reads all rows, then takes over one after the other.
Loads ==
  /\ warmup.step = "load"
  /\ warmup' = [step |-> "merge", left |-> rowsOf]
  /\ UNCHANGED <<rowsOf, config, answering, cache, registry, scoped, turn, happened>>

Merges(s) ==
  /\ s \in DOMAIN warmup.left
  /\ config' = IF warmup.left[s] THEN config \union {s} ELSE config \ {s}
  /\ warmup' = [warmup EXCEPT !.left = [r \in DOMAIN @ \ {s} |-> @[r]]]
  /\ UNCHANGED <<rowsOf, answering, cache, registry, scoped, turn, happened>>

\* The database is out of reach: what is hardcoded stays.
LoadFails ==
  /\ warmup.step \in {"migrate", "load"} /\ Happens
  /\ warmup' = [step |-> "merge", left |-> NoRows]
  /\ UNCHANGED <<rowsOf, config, answering, cache, registry, scoped, turn>>
-----------------------------------------------------------------------------
(* Mistakes the code does not make.                                        *)

\* The list is kept for good.
Cached_Always(known, age) == known

\* An empty list is kept like any other.
Kept_Always(specs) == TRUE

\* The turn's user is not bound before the agent runs.
Bound_Not(user) == "none"
-----------------------------------------------------------------------------
(* get_tools_from_all_servers.                                             *)

Cached(known, age) == known /\ age < CACHE_TTL
Kept(specs) == specs # {}

\* A turn of the shopping agent builds its graph, a search asks for its tool, for
\* whichever user.
Fetches(t, user) ==
  /\ turn[t] = NoTurn
  /\ LET known == Cached(cache.known, cache.age)
     IN  turn' = [turn EXCEPT ![t] =
           [NoTurn EXCEPT !.stage = IF known THEN "adapt" ELSE "fetch", !.user = user,
                          !.left = IF known THEN {} ELSE config,
                          !.size = IF known THEN 0 ELSE Cardinality(config),
                          !.specs = IF known THEN cache.specs ELSE {}, !.asked = ~known]]
  /\ UNCHANGED <<rowsOf, config, warmup, answering, cache, registry, scoped, happened>>

\* The loop runs over MCP_SERVERS itself: when the thread has added or removed a
\* server meanwhile, it raises.
Intact(t) == turn[t].stage = "fetch" /\ turn[t].size = Cardinality(config)

\* _get_stdio_tool_specs: a server that is not well gives an empty list.
AsksServer(t, s) ==
  /\ Intact(t) /\ s \in turn[t].left
  /\ turn' = [turn EXCEPT ![t].left = @ \ {s},
                          ![t].specs = @ \union (IF s \in answering THEN ServedBy[s] ELSE {})]
  /\ UNCHANGED <<rowsOf, config, warmup, answering, cache, registry, scoped, happened>>

Raises_Loop(t) ==
  /\ turn[t].stage = "fetch" /\ ~Intact(t)
  /\ turn' = [turn EXCEPT ![t] = [@ EXCEPT !.stage = "adapt", !.left = {}, !.size = 0, !.specs = {}]]
  /\ UNCHANGED <<rowsOf, config, warmup, answering, cache, registry, scoped, happened>>

ListEnds(t) ==
  /\ Intact(t) /\ turn[t].left = {}
  /\ cache' = IF Kept(turn[t].specs) THEN [known |-> TRUE, specs |-> turn[t].specs, age |-> 0] ELSE cache
  /\ turn' = [turn EXCEPT ![t] = [@ EXCEPT !.stage = "adapt", !.size = 0]]
  /\ UNCHANGED <<rowsOf, config, warmup, answering, registry, scoped, happened>>
-----------------------------------------------------------------------------
(* The tools in hand.                                                      *)

\* _register_mcp_tool: the servers list more than the agents need.
Whitelisted(specs) == specs \intersect WHITELIST

\* register_external_tool: a name that is known keeps its tool.
Registered(specs) == registry \union Whitelisted(specs)

\* get_tools of the main agent, of all tools in the registry before the servers
\* are asked, and load_subagent, of the ones after.
MasterTools == registry \intersect ALLOWED
SubTools(known) == known \intersect Configured

Bound(user) == user

\* The graph is made, what is left of get_graph has no gap, and the stream binds its
\* user. The planning and gift agents only pick their tool from the list.
Adapts(t) ==
  /\ turn[t].stage = "adapt"
  /\ registry' = Registered(turn[t].specs)
  /\ LET chat == t \in Chats
         held == [master |-> IF chat THEN MasterTools ELSE {},
                  sub |-> IF chat THEN SubTools(registry') ELSE turn[t].specs]
     IN  /\ turn' = [turn EXCEPT ![t] = [@ EXCEPT !.stage = "runs", !.master = held.master, !.sub = held.sub,
                                                  !.bound = Bound(turn[t].user)]]
         /\ scoped' = scoped \union (IF chat THEN (held.master \union held.sub) \intersect UserTools ELSE {})
  /\ UNCHANGED <<rowsOf, config, warmup, answering, cache, happened>>

\* with_user_id, on a tool that takes a user_id: the model fills in anyone, and the
\* wrapper puts in the user who is bound.
RunsFor(t, name, filled) == IF name \in scoped /\ turn[t].bound # "none" THEN turn[t].bound ELSE filled

Finishes(t) ==
  /\ turn[t].stage = "runs"
  /\ turn' = [turn EXCEPT ![t] = NoTurn]
  /\ UNCHANGED <<rowsOf, config, warmup, answering, cache, registry, scoped, happened>>
-----------------------------------------------------------------------------
(* The rest of the world.                                                  *)

Silent(s) ==
  /\ s \in answering /\ Happens
  /\ answering' = answering \ {s}
  /\ UNCHANGED <<rowsOf, config, warmup, cache, registry, scoped, turn>>

AnswersAgain(s) ==
  /\ s \notin answering /\ answering' = answering \union {s}
  /\ UNCHANGED <<rowsOf, config, warmup, cache, registry, scoped, turn, happened>>

TimeGoes ==
  /\ cache.age < CACHE_TTL /\ cache' = [cache EXCEPT !.age = @ + 1]
  /\ UNCHANGED <<rowsOf, config, warmup, answering, registry, scoped, turn, happened>>

ProcessRestarts ==
  /\ Happens
  /\ config' = HARDCODED /\ warmup' = [step |-> "migrate", left |-> NoRows]
  /\ cache' = NoSpecs
  /\ registry' = LocalTools /\ scoped' = {} /\ turn' = [t \in Askers |-> NoTurn]
  /\ UNCHANGED <<rowsOf, answering>>

AskerGoes(t) == (\E s \in Servers : AsksServer(t, s)) \/ Raises_Loop(t) \/ ListEnds(t) \/ Adapts(t) \/ Finishes(t)

BeltNext ==
  \/ \E s \in Servers, enabled \in BOOLEAN : EditServer(s, enabled)
  \/ \E s \in Servers : DeleteServer(s) \/ Merges(s) \/ Silent(s) \/ AnswersAgain(s)
  \/ Migrates \/ Loads \/ LoadFails \/ TimeGoes \/ ProcessRestarts
  \/ \E t \in Chats, user \in Users : Fetches(t, user)
  \/ \E t \in Lookups : Fetches(t, Anyone)
  \/ \E t \in Askers : AskerGoes(t)

\* Time passes, and a turn goes on: a server answers, or it fails within
\* MCP_CALL_TIMEOUT_S.
BeltFairness == WF_beltVars(TimeGoes) /\ \A t \in Askers : WF_beltVars(AskerGoes(t))
-----------------------------------------------------------------------------
(* get_tools_from_all_servers on its cache: what it is for is to spare the five
   seconds of every list, not to keep a failure. A server that is configured and
   answers from some time on is at last in the hands of every turn, whatever
   failed before, whoever asked meanwhile, and though the table was edited.      *)
ServersReturn ==
  \A s \in Servers :
    <>[](s \in config /\ s \in answering) =>
      <>[](\A t \in Askers : turn[t].stage = "runs" =>
             (IF t \in Chats THEN ServedBy[s] \intersect WHITELIST \intersect Configured ELSE ServedBy[s])
               \subseteq turn[t].sub)

(* The same on the empty list, which is not kept ("the next call tries again"): a
   turn that has no tool of any server has asked them itself. And with_user_id:
   whatever the model fills in, a tool that keeps or reads the data of a user runs
   for the user whose turn it is, though all turns share one tool.               *)
NothingMeansAsked == \A t \in Askers : turn[t].stage = "runs" /\ turn[t].specs = {} => turn[t].asked
CallsAreOwn ==
  \A t \in Chats : turn[t].stage = "runs" =>
    \A name \in (turn[t].master \union turn[t].sub) \intersect UserTools, filled \in Users :
      RunsFor(t, name, filled) = turn[t].user
BeltsAreTrue == NothingMeansAsked /\ CallsAreOwn
=============================================================================
