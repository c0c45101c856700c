------------------------------ MODULE MCAgents ------------------------------
(***************************************************************************)
(* What an agent needs to get on, each part by itself: the loop of model   *)
(* and tools (AgentLoop), the end of a single tool call (ToolCall), the    *)
(* tools that a turn gets (ToolBelt), the files of a conversation          *)
(* (AgentTools) and the names they have (AgentFiles), and the messages     *)
(* (Summary). A behaviour is one of a single part, the others stay in      *)
(* their initial state. What a part does to the others is in its module.   *)
(***************************************************************************)
EXTENDS AgentLoop, ToolCall, ToolBelt, AgentTools, Summary, AgentFiles, TLC

CONSTANTS Components, t1, t2, n1

VARIABLE part

Init ==
  /\ part \in Components
  /\ LoopInit /\ ToolInit /\ BeltInit /\ AgentInit /\ SummaryInit /\ FilesInit
  /\ part # "files" => graph = "master"
  /\ part # "tool call" => tool = CHOOSE t \in Tools : TRUE

wayVars == <<loopVars, toolVars, beltVars>>
dataVars == <<agentVars, summaryVars, fileVars>>

Next ==
  \/ part = "loop" /\ LoopNext /\ UNCHANGED <<part, toolVars, beltVars, dataVars>>
  \/ part = "tool call" /\ ToolNext /\ UNCHANGED <<part, loopVars, beltVars, dataVars>>
  \/ part = "belt" /\ BeltNext /\ UNCHANGED <<part, loopVars, toolVars, dataVars>>
  \/ part = "tools" /\ AgentNext /\ UNCHANGED <<part, wayVars, summaryVars, fileVars>>
  \/ part = "context" /\ SummaryNext /\ UNCHANGED <<part, wayVars, agentVars, fileVars>>
  \/ part = "files" /\ FilesNext /\ UNCHANGED <<part, wayVars, agentVars, summaryVars>>

vars == <<part, wayVars, dataVars>>

\* The steps of a turn are taken: requests have a timeout, and tools end. The event
\* loop of the process sees to the next handler of a tool's chain, and to the end of
\* its time limit; nothing is assumed of the tool. Time passes, and who fetches tools
\* goes on, as a server answers or fails within MCP_CALL_TIMEOUT_S.
Spec ==
  /\ Init /\ [][Next]_vars
  /\ \A t \in Turns : WF_loopVars(part = "loop" /\ TurnStep(t))
  /\ WF_toolVars(part = "tool call" /\ GoesThrough)
  /\ WF_beltVars(part = "belt" /\ TimeGoes)
  /\ \A t \in Askers : WF_beltVars(part = "belt" /\ AskerGoes(t))

MCResults == {[full |-> 1, ref |-> 1], [full |-> 4, ref |-> 1], [full |-> 5, ref |-> 3]}

MCPathParts ==
  {"skills", "app", "docs", "pre_purchase", "SKILL.md", "large_tool_results", "c1", "c2", "n", "d", "skillsx",
   "price", "risk", "c", "m"}
MCFileNames ==
  {<<"n">>, <<"d">>, <<"d", "n">>, <<"skills">>, <<"skills", "n">>, <<"skillsx", "n">>, <<"app", "docs", "n">>,
   <<"skills", "pre_purchase", "price", "SKILL.md">>, <<"skills", "pre_purchase", "risk", "SKILL.md">>}
MCLonger == {<<"skillsx", "skills", "x">>}
MCDisk ==
  Skills :> (<<"pre_purchase", "price", "SKILL.md">> :> <<<<"calm">>, <<"u">>>> @@ <<"c", "SKILL.md">> :> <<<<"calm">>>>)
  @@ Docs :> (<<"m">> :> <<<<"u">>>>)
MCTexts == {<<<<"u">>>>, <<<<"bold">>, <<"v">>, <<"v">>>>}
\* One line that fills a page, and several lines that do together.
MCOutputs ==
  "c1" :> <<<<"u", "u", "u">>, <<"v">>>> @@ "c2" :> <<<<"u", "v">>, <<"u">>, <<"v">>>>

MCServed == ("taobao" :> {"search"}) @@ ("other" :> {"goods"})
=============================================================================
