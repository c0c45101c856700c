----------------------------- MODULE MCPlanning -----------------------------
(* Instances of PlanningRun for TLC: two segments, one page.                *)
EXTENDS PlanningRun
CONSTANTS a1, a2, p1
=============================================================================
