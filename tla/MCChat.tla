------------------------------- MODULE MCChat -------------------------------
(* Instances of ChatTurns for TLC: two turns, up to two threads, one page.  *)
EXTENDS ChatTurns
CONSTANTS h1, h2, p1
=============================================================================
