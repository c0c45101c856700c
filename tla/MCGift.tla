------------------------------- MODULE MCGift -------------------------------
(* Instances of GiftRun and ChatPage for TLC, the components a page stands   *)
(* before: a behaviour is one of either, the other stays as it is.           *)
EXTENDS GiftRun, ChatPage
CONSTANTS w1, w2, Pages
VARIABLE page
SeedText == [words |-> {w1}, tail |-> FALSE]
TwoTexts == {[words |-> {w1}, tail |-> TRUE], [words |-> {w1, w2}, tail |-> FALSE]}
OneText == {[words |-> {w1, w2}, tail |-> FALSE]}
MixedBatches == {<<"read_history", "read_preferences">>, <<"read_history", "write_profile">>,
                 <<"compose_gift">>, <<"read_history", "ask_user">>}
ToolThenText == <<[kind |-> "text", round |-> 1, id |-> 1], [kind |-> "start", round |-> 1, id |-> 1],
                  [kind |-> "complete", round |-> 0, id |-> 1], [kind |-> "text", round |-> 2, id |-> 2]>>

PagesInit == page \in Pages /\ Init /\ PageInit
PagesNext ==
  \/ page = "gift" /\ Next /\ UNCHANGED <<page, pageVars>>
  \/ page = "chat" /\ PageNext /\ UNCHANGED <<page, vars>>
PagesSpec ==
  /\ PagesInit /\ [][PagesNext]_<<page, vars, pageVars>>
  /\ \A a \in Advances : page = "gift" => GoesOn(a)
GiftSettles == page = "gift" => Settles
=============================================================================
