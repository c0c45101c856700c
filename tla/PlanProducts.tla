---------------------------- MODULE PlanProducts ----------------------------
(***************************************************************************)
(* What a planning run finds, drops and buys, and the documents and the    *)
(* graph that are made of it.                                              *)
(*                                                                         *)
(* The agent's tools add what they find to lists that only grow; the       *)
(* service collects the same additions in acc, keeps acc in the run's row  *)
(* whenever the run stops, and starts the next round from the row. A       *)
(* product may be found again, dropped and bought after all. A call that   *)
(* finds, drops or decides on several products is as many steps.           *)
(*                                                                         *)
(* Every product has an id, as those of the shop have; names may coincide. *)
(* A subtotal of 0 is one that was not given.                              *)
(***************************************************************************)
EXTENDS Integers, Sequences, FiniteSets, SequencesExt

CONSTANTS
  Goods,        \* products of the shop, [id, name]
  Categories,   \* categories the model may search for
  Subtotals,    \* subtotals of a bought product, 0 if unknown
  MAX_PER_CAT,  \* products of a category that the graph draws
  MAX_DECISION_RETRIES,
  MaxFound,     \* bound: entries of the list of candidates
  MaxDropped,   \* bound: entries of the list of exclusions
  MaxDecisions, \* bound: decisions
  MaxRounds     \* bound: rounds after a question

\* The shop numbers its products from 1, each by a number of its own.
ASSUME GoodsAssumption ==
  \A g \in Goods : g.id \in Nat \ {0} /\ \A h \in Goods : h.id = g.id => h.name = g.name
ASSUME DrawnAssumption == MAX_PER_CAT \in Nat /\ Subtotals \subseteq Nat

VARIABLES
  round,     \* the run: "on", "asked", "failed" or "done", and its counters
  lists,     \* the lists in the agent's state
  acc,       \* what the service collected in this round
  products,  \* run.products
  wanted     \* history: the product that was last decided on in each category

planVars == <<round, lists, acc, products, wanted>>

Ids == {g.id : g \in Goods}
NameSet == {g.name : g \in Goods}
Nothing == [cands |-> <<>>, excl |-> <<>>, items |-> <<>>, total |-> 0]
On == round.at = "on"

PlanInit ==
  /\ round = [at |-> "on", tries |-> 0, decisions |-> 0, asked |-> 0]
  /\ lists = [cands |-> <<>>, excl |-> <<>>]
  /\ acc = Nothing /\ products = Nothing
  /\ wanted = [c \in Categories |-> 0]
-----------------------------------------------------------------------------
\* plan_total, and the total of a plan: unknown as soon as one part is.
SumUpTo(items) ==
  LET sum[i \in 0..Len(items)] == IF i = 0 THEN 0 ELSE sum[i - 1] + items[i].sub
  IN sum[Len(items)]
Total(items) ==
  IF \E i \in DOMAIN items : items[i].sub = 0 THEN 0 ELSE SumUpTo(items)

\* dedup_by_item: each id once, at its first place, and none of those in out.
Dedup(s, out) ==
  FoldLeft(LAMBDA left, x : IF x.id \in out \cup {y.id : y \in ToSet(left)} THEN left ELSE Append(left, x), <<>>, s)

\* The product of a request: the first one in the pool with its id, or, when
\* the model gave no id, with its name.
Hits(pool, ask) ==
  {i \in DOMAIN pool : IF ask.id # 0 THEN pool[i].id = ask.id ELSE pool[i].name = ask.name}
Hit(pool, ask) ==
  pool[CHOOSE i \in Hits(pool, ask) : \A j \in Hits(pool, ask) : i <= j]
Asks == {[id |-> g.id, name |-> g.name, sub |-> s] : g \in Goods, s \in Subtotals}
            \cup {[id |-> 0, name |-> n, sub |-> s] : n \in NameSet, s \in Subtotals}
-----------------------------------------------------------------------------
(* Mistakes the code does not make.                                         *)

\* The newest decision takes the place of the whole plan, as it once did.
Merge_Replaces(items, new) == <<new>>

\* A retry reads the row, which has not been written yet.
Continue_FromRow ==
  /\ On /\ acc.items = <<>> /\ round.tries < MAX_DECISION_RETRIES
  /\ round' = [round EXCEPT !.tries = @ + 1]
  /\ lists' = [cands |-> products.cands, excl |-> products.excl]
  /\ UNCHANGED <<acc, products, wanted>>

\* What was dropped stays excluded although it is bought.
EffectiveExcluded_All(p) == Dedup(p.excl, {})
-----------------------------------------------------------------------------
\* _merge_plan: a category takes its newest product and keeps its place.
Merge(items, new) ==
  IF \A i \in DOMAIN items : items[i].cat # new.cat THEN Append(items, new)
  ELSE [i \in DOMAIN items |-> IF items[i].cat = new.cat THEN new ELSE items[i]]

\* search_candidates: what the shop has for a keyword, here one product. Its
\* category is the one that was searched for.
FoundFor(cat, g) == <<[id |-> g.id, name |-> g.name, cat |-> cat]>>

\* search_products.
Search(cat, g) ==
  LET new == FoundFor(cat, g) IN
  /\ On /\ Len(acc.cands) < MaxFound
  /\ lists' = [lists EXCEPT !.cands = @ \o new]
  /\ acc' = [acc EXCEPT !.cands = @ \o new]
  /\ UNCHANGED <<round, products, wanted>>

\* drop_candidates: of candidates with one name the last is excluded.
Drop(name) ==
  LET at == {i \in DOMAIN lists.cands : lists.cands[i].name = name} IN
  /\ On /\ Len(acc.excl) < MaxDropped /\ at # {}
  /\ LET last == lists.cands[CHOOSE i \in at : \A j \in at : j <= i] IN
     /\ lists' = [lists EXCEPT !.excl = Append(@, last)]
     /\ acc' = [acc EXCEPT !.excl = Append(@, last)]
  /\ UNCHANGED <<round, products, wanted>>

\* make_decision: a request that matches nothing leaves the plan as it is.
Decide(ask) ==
  LET pool == lists.cands \o lists.excl
      hit == Hit(pool, ask)
      items == Merge(acc.items, [id |-> hit.id, name |-> hit.name, cat |-> hit.cat, sub |-> ask.sub]) IN
  /\ On /\ round.decisions < MaxDecisions /\ Hits(pool, ask) # {}
  /\ acc' = [acc EXCEPT !.items = items, !.total = Total(items)]
  /\ wanted' = [wanted EXCEPT ![hit.cat] = hit.id]
  /\ round' = [round EXCEPT !.decisions = @ + 1]
  /\ UNCHANGED <<lists, products>>

\* ask_user: the products are kept and the run waits.
Ask ==
  /\ On /\ round.asked < MaxRounds
  /\ products' = acc
  /\ round' = [round EXCEPT !.at = "asked", !.asked = @ + 1]
  /\ UNCHANGED <<lists, acc, wanted>>

\* advance after the answer: _seed_acc and _agent_input read the row.
Resume ==
  /\ round.at = "asked"
  /\ acc' = products
  /\ lists' = [cands |-> products.cands, excl |-> products.excl]
  /\ round' = [round EXCEPT !.at = "on", !.tries = 0]
  /\ UNCHANGED <<products, wanted>>

\* The agent stopped without a decision: it goes on from what was collected,
\* as the row is older.
Continue ==
  /\ On /\ acc.items = <<>> /\ round.tries < MAX_DECISION_RETRIES
  /\ round' = [round EXCEPT !.tries = @ + 1]
  /\ lists' = [cands |-> acc.cands, excl |-> acc.excl]
  /\ UNCHANGED <<acc, products, wanted>>

\* The end of advance: the products are kept; without a decision it failed.
Finish ==
  /\ On /\ (acc.items # <<>> \/ round.tries = MAX_DECISION_RETRIES)
  /\ products' = acc
  /\ round' = [round EXCEPT !.at = IF acc.items = <<>> THEN "failed" ELSE "done"]
  /\ UNCHANGED <<lists, acc, wanted>>

PlanNext ==
  \/ \E c \in Categories, g \in Goods : Search(c, g)
  \/ \E n \in NameSet : Drop(n)
  \/ \E r \in Asks : Decide(r)
  \/ Ask \/ Resume \/ Continue \/ Finish
-----------------------------------------------------------------------------
(* The documents, made from the row.                                        *)

BoughtIds(p) == {i.id : i \in ToSet(p.items)}

\* Each excluded product once, without those that were bought after all.
EffectiveExcluded(p) == Dedup(p.excl, BoughtIds(p))

\* _state_from_run: candidates without the names of what is excluded, as a set,
\* since no document says more by their order.
StageState(p) ==
  LET excl == EffectiveExcluded(p) IN
  [p EXCEPT !.excl = excl,
            !.cands = {c \in ToSet(Dedup(@, {})) : \A e \in ToSet(excl) : e.name # c.name}]

\* build_plan_doc: alternatives of the bought products' categories.
PlanDoc(s) ==
  [bought |-> BoughtIds(s), total |-> Total(s.items),
   others |-> {c.id : c \in {d \in s.cands : /\ d.id \notin BoughtIds(s)
                                                    /\ \E i \in ToSet(s.items) : i.cat = d.cat}},
   excluded |-> {e.id : e \in ToSet(s.excl)}]

\* build_report_doc: a section tells products apart by their names.
ReportDoc(s) ==
  [bought |-> BoughtIds(s), total |-> Total(s.items),
   others |-> UNION {{c.id : c \in {d \in s.cands : d.cat = i.cat /\ d.name # i.name}} : i \in ToSet(s.items)},
   excluded |-> UNION {{e.id : e \in {d \in ToSet(s.excl) : d.cat = i.cat}} : i \in ToSet(s.items)}]

\* build_compare_doc: one table of what was bought, compared and excluded.
CompareDoc(s) ==
  [i \in Ids |->
     IF \E c \in s.cands : c.id = i THEN IF i \in BoughtIds(s) THEN "selected" ELSE "candidate"
     ELSE IF \E e \in ToSet(s.excl) : e.id = i THEN "pruned" ELSE "absent"]

\* build_budget_doc: what was spent, and the categories whose subtotal is unknown.
BudgetDoc(s) ==
  [bought |-> BoughtIds(s), total |-> Total(s.items),
   missing |-> {i.cat : i \in {j \in ToSet(s.items) : j.sub = 0}}]

\* build_list_doc: a row for each product.
ListDoc(s) ==
  [rows |-> [i \in DOMAIN s.items |-> [id |-> s.items[i].id, cat |-> s.items[i].cat, sub |-> s.items[i].sub]],
   total |-> Total(s.items)]

\* _sync_graph draws the first products of each category, the bought ones
\* before the others, then what is excluded over them.
Graph(p) ==
  LET sel(i) == p.cands[i].id \in BoughtIds(p)
      before(i, j) == (sel(i) /\ ~sel(j)) \/ ((sel(i) <=> sel(j)) /\ i < j)
      rank(i) == Cardinality({j \in DOMAIN p.cands : p.cands[j].cat = p.cands[i].cat /\ before(j, i)})
      drawn == {p.cands[i].id : i \in {j \in DOMAIN p.cands : rank(j) < MAX_PER_CAT}}
      excl == EffectiveExcluded(p)
      pruned == {excl[i].id : i \in {j \in DOMAIN excl : j <= MAX_PER_CAT * 2}} IN
  [i \in Ids |-> IF i \in pruned THEN "pruned"
                 ELSE IF i \notin drawn THEN "absent"
                 ELSE IF i \in BoughtIds(p) THEN "selected" ELSE "candidate"]
-----------------------------------------------------------------------------
\* The plan holds, for each category, the product that was decided on last,
\* through questions, retries and changes of mind: a later decision that
\* names some categories leaves the others as they are. And the tools of the agent
\* see all that the service has collected: what the model may drop or decide on is
\* what the documents will be made of.
DecisionsStand ==
  LET items == IF On THEN acc.items ELSE products.items IN
  /\ \A c \in Categories : {i.id : i \in {j \in ToSet(items) : j.cat = c}} = {wanted[c]} \ {0}
  /\ On => lists = [cands |-> acc.cands, excl |-> acc.excl]

\* The finds that compete for the places of a category in the graph: those of
\* all products that are bought, for whichever category.
Crowd(p, c) == {k \in DOMAIN p.cands : p.cands[k].cat = c /\ p.cands[k].id \in BoughtIds(p)}

\* When a run rests, its documents and its graph tell the same story: they
\* buy the same products for the same sum, none of which is offered as an
\* alternative or called excluded, although it may have been dropped before;
\* the table marks each of them unless a product of the same name is excluded,
\* which hides it there; and the graph draws each of them where the category
\* has a place for every find of a bought product, but not surely otherwise.
DocsAgree ==
  ~On =>
    LET s == StageState(products)
        hidden == {i.id : i \in {j \in ToSet(s.items) : \E e \in ToSet(s.excl) : e.name = j.name}} IN
    /\ {row.id : row \in ToSet(ListDoc(s).rows)} = PlanDoc(s).bought /\ Len(ListDoc(s).rows) = Cardinality(PlanDoc(s).bought)
    /\ PlanDoc(s).total = products.total /\ (products.total = 0) = (BudgetDoc(s).missing # {} \/ s.items = <<>>)
    /\ \A d \in {PlanDoc(s), ReportDoc(s)} : d.bought \cap (d.others \cup d.excluded) = {}
    /\ \A i \in BoughtIds(s) : CompareDoc(s)[i] = IF i \in hidden THEN "absent" ELSE "selected"
    /\ \A i \in ToSet(products.items) :
         \/ Graph(products)[i.id] = "selected"
         \/ Cardinality(Crowd(products, i.cat)) > MAX_PER_CAT /\ Graph(products)[i.id] = "absent"
    /\ \A i \in Ids \ BoughtIds(s) : Graph(products)[i] # "selected" /\ CompareDoc(s)[i] # "selected"
=============================================================================
