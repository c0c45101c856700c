----------------------------- MODULE MCScheduler -----------------------------
(***************************************************************************)
(* Instances of TaskScheduler, with one task and two executions, and of    *)
(* the assistant's page, for TLC. A behaviour is one of either.            *)
(***************************************************************************)
EXTENDS TaskScheduler, AssistantPage

CONSTANTS t1, e1, e2, Sides

VARIABLE side

MCInit == side \in Sides /\ Init /\ AssistantInit

MCNext ==
  \/ side = "scheduler" /\ Next /\ UNCHANGED <<side, assistantVars>>
  \/ side = "page" /\ AssistantNext /\ UNCHANGED <<side, vars>>

mcVars == <<side, vars, assistantVars>>

\* The requests of a page are answered, it reconnects after a pause of at most
\* 30 s, and a creation or an execution goes on to its end.
MCSpec ==
  /\ MCInit /\ [][MCNext]_mcVars
  /\ WF_assistantVars(side = "page" /\ Serves)
  /\ WF_assistantVars(side = "page" /\ Follows)
  /\ WF_assistantVars(side = "page" /\ Goes)
=============================================================================
