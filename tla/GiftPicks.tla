------------------------------- MODULE GiftPicks -------------------------------
(***************************************************************************)
(* What a gift run finds, rules out and puts together, in three copies:    *)
(* the state of the agent, the service's acc, and the products of the      *)
(* run's row. The model calls several tools at once. Each works on the     *)
(* agent's state as it was when the step began; the graph joins what they  *)
(* return in the order of the calls, the service as they come back. A      *)
(* question ends the round, and the answer starts the agent anew.          *)
(***************************************************************************)
EXTENDS Integers, Sequences, FiniteSets, SequencesExt, Bags

CONSTANTS
  Shelves,      \* what a search may return: sequences of [id, name]
  MaxSteps,     \* bound: steps of the model
  MaxGiftCalls, \* bound: calls of a step
  MaxAnswers    \* bound: answers of the user

VARIABLES
  giver,        \* the agent: its state and the node it is at
  calls,        \* the calls of the step, with what each returns
  held,         \* acc
  giftProducts, \* run.products
  sheets,       \* the deliverables as last shown
  rounds,       \* steps of the model and answers of the user
  ever          \* history: all that was found and ruled out

giftVars == <<giver, calls, held, giftProducts, sheets, rounds, ever>>

Empty == [picked |-> <<>>, excluded |-> <<>>, plan |-> <<>>, message |-> <<>>]
GiftNames == UNION {{s[i].name : i \in DOMAIN s} : s \in Shelves}

\* Every offer of the shop has an id and a name, and there are finitely many.
ASSUME ShelvesAssumption == Shelves \subseteq Seq([id : Nat \ {0}, name : GiftNames]) /\ IsFiniteSet(GiftNames)

Counted(s) == [o \in ToSet(s) |-> Cardinality({i \in DOMAIN s : s[i] = o})]

GiftInit ==
  /\ giver = [at |-> "model", state |-> Empty] /\ calls = <<>>
  /\ held = Empty /\ giftProducts = Empty
  /\ sheets = [compare |-> <<>>, plan |-> <<>>, message |-> <<>>, supply |-> <<>>]
  /\ rounds = [steps |-> 0, answers |-> 0]
  /\ ever = [picked |-> EmptyBag, excluded |-> EmptyBag]

-----------------------------------------------------------------------------
(* Mistakes the code does not make *)

\* acc takes what a step adds for the whole.
CollectedOf_Replaces(r, u) ==
  [picked |-> IF u.picked = <<>> THEN r.picked ELSE u.picked,
   excluded |-> IF u.excluded = <<>> THEN r.excluded ELSE u.excluded,
   plan |-> IF u.plan = <<>> THEN r.plan ELSE u.plan,
   message |-> IF u.message = <<>> THEN r.message ELSE u.message]

\* An answered run begins with the products that the agent knows of: none.
SeedAcc_Empty(products) == Empty
-----------------------------------------------------------------------------
(* The tools *)

\* The last offer of a name in a list, as in a dict made of it.
Named(list, n) == SelectLastInSeq(list, LAMBDA o : o.name = n)
\* The offers of the names in turn; a name that is not known is left out.
Offers(list, names) ==
  FoldLeft(LAMBDA kept, n : IF Named(list, n) = 0 THEN kept ELSE Append(kept, list[Named(list, n)]), <<>>, names)

SearchGifts == {[tool |-> "search_gifts", update |-> [Empty EXCEPT !.picked = s]] : s \in Shelves}
Screen(s) == {[tool |-> "screen_candidates", update |-> [Empty EXCEPT !.excluded = Offers(s.picked, <<n>>)]] : n \in GiftNames}
Compose(s) == {[tool |-> "compose_gift", update |-> [Empty EXCEPT !.plan = Offers(s.picked, SetToSeq(ns))]] : ns \in SUBSET GiftNames \ {{}}}
\* The message stands for the plan it was written for.
WriteNote(s) == [tool |-> "write_note", update |-> [Empty EXCEPT !.message = s.plan]]
AskUser == [tool |-> "ask_user", update |-> Empty]
GiftTools(s) == SearchGifts \cup Screen(s) \cup Compose(s) \cup {WriteNote(s), AskUser}

\* The reducers of GiftState: lists grow, of the others the newer stays.
MergedLists(r, u) ==
  [picked |-> r.picked \o u.picked, excluded |-> r.excluded \o u.excluded,
   plan |-> IF u.plan = <<>> THEN r.plan ELSE u.plan,
   message |-> IF u.message = <<>> THEN r.message ELSE u.message]

\* What the service does with an update, by the same rule.
CollectedOf(r, u) == MergedLists(r, u)

\* The products of the first round, from the row.
SeedAcc(products) == products

\* The deliverables of a tool that came back, from acc.
Supply(a) == [i \in DOMAIN a.plan |->
  IF Named(a.picked, a.plan[i].name) = 0 THEN 0 ELSE a.picked[Named(a.picked, a.plan[i].name)].id]
\* build_compare: what was found, then what was ruled out.
CompareSheet(a) == a.picked \o a.excluded
\* build_message takes the note that is there for the plan.
MessageSheet(a) == a.message
Deliverables(tool, a) ==
  CASE tool = "screen_candidates" -> [sheets EXCEPT !.compare = CompareSheet(a)]
    [] tool = "compose_gift" -> [sheets EXCEPT !.plan = IF a.plan = <<>> THEN @ ELSE a.plan]
    [] tool = "write_note" ->
         [sheets EXCEPT !.message = IF MessageSheet(a) = <<>> THEN @ ELSE MessageSheet(a),
                        !.supply = IF Supply(a) = <<>> THEN @ ELSE Supply(a)]
    [] OTHER -> sheets

-----------------------------------------------------------------------------
(* A run *)

\* The model calls tools, which all work on the state of this moment.
AsksTools ==
  /\ giver.at = "model" /\ rounds.steps < MaxSteps
  /\ \E n \in 1..MaxGiftCalls : \E cs \in [1..n -> GiftTools(giver.state)] :
       /\ Cardinality({i \in 1..n : cs[i].tool = "ask_user"}) <= 1
       /\ calls' = [i \in 1..n |-> [tool |-> cs[i].tool, update |-> cs[i].update, back |-> FALSE]]
  /\ giver' = [giver EXCEPT !.at = "tools"]
  /\ rounds' = [rounds EXCEPT !.steps = @ + 1]
  /\ UNCHANGED <<held, giftProducts, sheets, ever>>

\* _on_agent_step for one call. A question ends the round: the stream is left,
\* and what is still under way is lost.
ComesBack(i) ==
  LET u == calls[i].update
      acc == CollectedOf(held, u)
  IN
  /\ giver.at = "tools" /\ ~calls[i].back
  /\ held' = acc /\ giftProducts' = acc
  /\ sheets' = Deliverables(calls[i].tool, acc)
  /\ ever' = [picked |-> ever.picked (+) Counted(u.picked), excluded |-> ever.excluded (+) Counted(u.excluded)]
  /\ IF calls[i].tool = "ask_user"
     THEN giver' = [giver EXCEPT !.at = "asked"] /\ calls' = <<>>
     ELSE calls' = [calls EXCEPT ![i].back = TRUE] /\ UNCHANGED giver
  /\ UNCHANGED rounds

\* The step is over: the graph joins the updates in the order of the calls.
JoinsStep ==
  /\ giver.at = "tools" /\ \A i \in DOMAIN calls : calls[i].back
  /\ giver' = [at |-> "model", state |-> FoldLeft(LAMBDA s, c : MergedLists(s, c.update), giver.state, calls)]
  /\ calls' = <<>>
  /\ UNCHANGED <<held, giftProducts, sheets, rounds, ever>>

\* The model is done.
Concludes ==
  /\ giver.at = "model" /\ giver' = [giver EXCEPT !.at = "end"] /\ giftProducts' = held
  /\ UNCHANGED <<calls, held, sheets, rounds, ever>>

\* advance after the answer: acc comes from the row, while the agent gets what
\* was said and the profile only.
Continues ==
  /\ giver.at = "asked" /\ rounds.answers < MaxAnswers
  /\ giver' = [at |-> "model", state |-> Empty]
  /\ held' = SeedAcc(giftProducts)
  /\ rounds' = [rounds EXCEPT !.answers = @ + 1]
  /\ UNCHANGED <<calls, giftProducts, sheets, ever>>

GiftNext ==
  \/ AsksTools \/ JoinsStep \/ Concludes \/ Continues
  \/ \E i \in DOMAIN calls : ComesBack(i)

-----------------------------------------------------------------------------
(* Properties *)

\* Calls come back in any order and rounds are cut short by questions, yet the
\* service has each product that was found or ruled out exactly as often as it
\* was, in all rounds; in the first round the agent has the same between steps.
AllCollected ==
  LET Lists(r) == [picked |-> Counted(r.picked), excluded |-> Counted(r.excluded)] IN
  /\ giver.at # "tools" => Lists(giftProducts) = ever
  /\ rounds.answers = 0 /\ giver.at \in {"model", "end"} => Lists(giver.state) = ever

\* The sheet of sources names a product of the shop for each piece of the gift,
\* although the gift was put together from the agent's state and the sheet is
\* made of acc, which has other products and another order.
SupplyIsFound == \A i \in DOMAIN sheets.supply : sheets.supply[i] # 0

\* After an answer the agent still has what it found before, so that it can rule
\* it out or use it. It has not: advance hands acc the products, and the agent
\* the profile only.
PoolSurvives == giver.at = "model" => ToSet(giftProducts.picked) \subseteq ToSet(giver.state.picked)

\* Both: nothing that a search found or a look ruled out is lost between the
\* agent's state, the service's products and the sheets.
PicksAreKept == AllCollected /\ SupplyIsFound
=============================================================================
