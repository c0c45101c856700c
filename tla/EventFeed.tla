------------------------------ MODULE EventFeed ------------------------------
(***************************************************************************)
(* What the event stream of a run promises to the pages that follow it:    *)
(* events form one sequence, and what a page has seen of it is always a    *)
(* beginning of it, that only grows. Nothing is missed, nothing comes out  *)
(* of order.                                                               *)
(***************************************************************************)
EXTENDS Integers, Sequences

CONSTANTS Readers, Kind

VARIABLES feed, seen

Init == feed = <<>> /\ seen = [r \in Readers |-> {}]

Publish == (\E kind \in Kind : feed' = Append(feed, kind)) /\ UNCHANGED seen

Show(r) ==
  /\ \E n \in 1..Len(feed) : seen[r] \subseteq 1..n /\ seen' = [seen EXCEPT ![r] = 1..n]
  /\ UNCHANGED feed

Next == Publish \/ \E r \in Readers : Show(r)

Spec == Init /\ [][Next]_<<feed, seen>>
=============================================================================
