------------------------------- MODULE MCTools -------------------------------
(* An instance of ToolEvents for TLC: two turns.                            *)
EXTENDS ToolEvents
CONSTANTS c1, c2
=============================================================================
