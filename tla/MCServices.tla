----------------------------- MODULE MCServices -----------------------------
(***************************************************************************)
(* The services, each by itself: a behaviour is one of a single component, *)
(* all others stay in their initial state. They share no state in the      *)
(* program either, but for the runs that emit notices (GiftRun), and the   *)
(* way of an answer to the page (ChatStream), which ChatTurns goes on with.*)
(***************************************************************************)
EXTENDS McpStdio, ThreadStore, Monitors, PlanProducts, DecisionArchive, GiftPicks, ChatStream

CONSTANTS Services, a, b

VARIABLE service

Init ==
  /\ service \in Services
  /\ McpInit /\ ThreadInit /\ NoticesInit /\ MonitorsInit /\ PlanInit /\ ArchiveInit /\ GiftInit /\ StreamInit
  /\ service # "monitors" => kind = "agent" /\ named /\ target = 0

serviceVars == <<mcpVars, threadVars, noticeVars, monitorVars, planVars, archiveVars, giftVars>>
vars == <<service, serviceVars, streamVars>>

Next ==
  \/ /\ service = "mcp" /\ McpNext
     /\ UNCHANGED <<service, threadVars, noticeVars, monitorVars, planVars, archiveVars, giftVars, streamVars>>
  \/ /\ service = "threads" /\ ThreadNext
     /\ UNCHANGED <<service, mcpVars, noticeVars, monitorVars, planVars, archiveVars, giftVars, streamVars>>
  \/ /\ service = "monitors" /\ MonitorsNext
     /\ UNCHANGED <<service, mcpVars, threadVars, planVars, archiveVars, giftVars, streamVars>>
  \/ /\ service = "products" /\ PlanNext
     /\ UNCHANGED <<service, mcpVars, threadVars, noticeVars, monitorVars, archiveVars, giftVars, streamVars>>
  \/ /\ service = "archive" /\ ArchiveNext
     /\ UNCHANGED <<service, mcpVars, threadVars, noticeVars, monitorVars, planVars, giftVars, streamVars>>
  \/ /\ service = "gifts" /\ GiftNext
     /\ UNCHANGED <<service, mcpVars, threadVars, noticeVars, monitorVars, planVars, archiveVars, streamVars>>
  \/ /\ service = "chat" /\ StreamNext
     /\ UNCHANGED <<service, serviceVars>>

Spec == Init /\ [][Next]_vars

MCGoods == {[id |-> 1, name |-> "bed"], [id |-> 2, name |-> "bed"], [id |-> 3, name |-> "desk"]}

\* What the searches of a gift find: an offer of the scarf comes in two shops.
MCShelves == {<<>>, <<[id |-> 1, name |-> "scarf"]>>, <<[id |-> 2, name |-> "mug"], [id |-> 3, name |-> "scarf"]>>}

MCPicks == {<<>>, <<FALSE>>, <<TRUE, FALSE>>}
=============================================================================
