------------------------------ MODULE Monitors ------------------------------
(***************************************************************************)
(* What a scheduled task does when it runs (task_executors), and what of   *)
(* its result its user is told (from_task_result, emit). One task of one   *)
(* user; the search returns what it likes, and time is counted in days.    *)
(* The scheduling of the runs is TaskScheduler's.                          *)
(***************************************************************************)
EXTENDS Notices

CONSTANTS
  Monitored,  \* the types of tasks that are monitored
  Prices,     \* of an offer; 0: none was found, which drops the offer
  Full,       \* the price before discounts
  Ranks,      \* how many offers a search by rank returns
  WindowDays, \* of the price history
  SoonDays,   \* soon_hours
  MinFace,    \* min_coupon_amount
  MaxDay,     \* bound: days
  MaxChecks   \* bound: runs of one task that are compared with, and its notices

ASSUME MonitorsAssumption ==
  /\ Monitored \subseteq {"price", "deal", "coupon", "rank", "shop", "agent"}
  /\ Prices \subseteq 0..Full
  /\ {Full, Ranks, WindowDays, SoonDays, MinFace, MaxDay, MaxChecks} \subseteq Nat

VARIABLES
  kind, named, target,  \* task_type, and of task_params: whether there is a product or keyword,
                        \* and the price to wait for (0: none)
  day,
  snapshots, \* the price_snapshots rows, in the order of their time
  lastRank,  \* _last_ranks at the key of this task; 0: none, or it was not found
  outcome,   \* of the last run: what it found, what it returned and its notice
  earlier    \* of the runs before it, what they found that a later one is compared with

monitorVars == <<kind, named, target, day, snapshots, lastRank, outcome, earlier>>

Mine == 1  \* the good whose title has the name that is searched for, or of the shop
Titles == {Mine, 2}
NoPromo == [coupon |-> FALSE, face |-> 0, end |-> 0]
EventType == [price |-> "price", deal |-> "deal", coupon |-> "coupon", rank |-> "price", shop |-> "coupon",
            agent |-> "decide"]

\* An offer as a search returns it, in what a task of this kind looks at.
Offer ==
  CASE kind = "price" -> [good : Titles, price : Prices, original : {Full}, promo : {NoPromo}]
    [] kind = "deal" -> [good : {Mine}, price : {Full}, original : {Full},
                         promo : [coupon : {FALSE}, face : {0}, end : 0..MaxDay + 1]]
    [] kind = "coupon" -> [good : {Mine}, price : {Full}, original : {Full},
                           promo : [coupon : BOOLEAN, face : {0, MinFace - 1, MinFace}, end : {MaxDay}]]
    [] kind = "shop" -> [good : Titles, price : Prices, original : {0, Full}, promo : {NoPromo}]

Searches ==
  CASE kind = "rank" ->
         {[i \in 1..Ranks |-> [good |-> IF i = r THEN Mine ELSE 2, price |-> Full, original |-> Full,
                               promo |-> NoPromo]] : r \in 0..Ranks} \cup {<<>>}
    [] kind = "agent" -> {<<>>}
    [] OTHER -> UNION {[1..n -> Offer] : n \in 0..2}

NothingFound == [day |-> 0, offers |-> {}, good |-> 0, price |-> 0, rank |-> 0]
NoOutcome == [found |-> NothingFound, status |-> "none", notice |-> "none"]
Compared == kind \in {"price", "rank"}

MonitorsInit ==
  /\ kind \in Monitored /\ named \in BOOLEAN /\ target \in (IF kind = "price" THEN {0, Full - 10} ELSE {0})
  /\ day = 1 /\ snapshots = <<>> /\ lastRank = 0 /\ outcome = NoOutcome /\ earlier = <<>>
-----------------------------------------------------------------------------
(* Mistakes the code does not make: A_m is what the operator A below would  *)
(* be with one of them. Only the runs that test the properties use them.    *)

\* The key of a snapshot is the item_id, whose first part is new in each search.
stable_id_Whole(good) == <<good, Len(snapshots)>>
-----------------------------------------------------------------------------
\* _normalize_item and parse_search_result.
stable_id(good) == good
coupon_amount(o) == IF o.original > o.price THEN o.original - o.price ELSE 0
parse_search_result(raw) == FoldLeft(LAMBDA out, o : IF o.price = 0 THEN out ELSE Append(out, o), <<>>, raw)

\* The first offer that has the name, or the first one.
find_best_match(products) ==
  LET named_ == {i \in DOMAIN products : products[i].good = Mine} IN
  products[IF named_ = {} THEN 1 ELSE CHOOSE i \in named_ : \A j \in named_ : i <= j]

\* _get_price_history, as the places of its rows, and _calc_trend, as the change
\* in tenths of a percent, rounded.
get_price_history(key, rows) ==
  {i \in DOMAIN rows : rows[i].product_id = key /\ rows[i].at >= day - WindowDays}
calc_trend(rows, history) ==
  LET first == rows[Min(history)].price  last == rows[Max(history)].price IN
  IF Cardinality(history) < 2 THEN 0 ELSE (2 * 1000 * (last - first) + first) \div (2 * first)

\* Each executor returns a status, and whether its notice is due. A task of the
\* price, once it has stored its snapshot:
price_result(products, rows) ==
  LET best == find_best_match(products)
      trend == calc_trend(rows, get_price_history(stable_id(best.good), rows)) IN
  [status |-> "ok", due |-> (target # 0 /\ best.price <= target) \/ trend <= -50]

\* The promotions that have not ended; the first of them ends soon.
deal_result(products) ==
  LET ends == {products[i].promo.end : i \in DOMAIN products} \ 0..day IN
  IF ends = {} THEN [status |-> "no_promotion", due |-> FALSE]
  ELSE [status |-> "ok", due |-> \E e \in ends : e - day <= SoonDays]

\* Only what is called a coupon, with a face of at least the minimum.
coupon_result(products) ==
  LET coupons == {i \in DOMAIN products : /\ products[i].promo.coupon
                                          /\ products[i].promo.face > 0 /\ products[i].promo.face >= MinFace} IN
  IF coupons = {} THEN [status |-> "no_coupon", due |-> FALSE] ELSE [status |-> "ok", due |-> TRUE]

RankIn(products) ==
  LET at == {i \in DOMAIN products : products[i].good = Mine} IN
  IF at = {} THEN 0 ELSE CHOOSE i \in at : \A j \in at : i <= j

\* Without a last rank there is nothing to compare with; a good that is not
\* found has moved.
rank_result(rank) ==
  [status |-> "ok", due |-> lastRank # 0 /\ (rank = 0 \/ lastRank - rank >= 3 \/ rank - lastRank >= 3)]

\* The amount of a coupon is compared with 0, also where it is None: for an
\* offer of the shop that is not discounted the executor raises.
shop_result(products) ==
  LET offers == {products[i] : i \in {j \in DOMAIN products : products[j].good = Mine}}
      deep == {o \in offers : o.original > 0 /\ 10 * (o.original - o.price) > 3 * o.original} IN
  IF \E o \in offers : coupon_amount(o) = 0 THEN [status |-> "raises", due |-> FALSE]
  ELSE [status |-> "ok", due |-> deep # {}]

result_of(products, rows) ==
  CASE ~named -> [status |-> "error", due |-> FALSE]
    [] named /\ products = <<>> -> [status |-> "no_results", due |-> FALSE]
    [] OTHER -> CASE kind = "price" -> price_result(products, rows)
                  [] kind = "deal" -> deal_result(products)
                  [] kind = "coupon" -> coupon_result(products)
                  [] kind = "rank" -> rank_result(RankIn(products))
                  [] kind = "shop" -> shop_result(products)

\* A failure is made known by its error, a result by its event if it is due; of
\* an executor that raised there is no result.
from_task_result(result) ==
  CASE result.status \in {"error", "failed"} -> "review"
    [] result.status = "ok" /\ result.due -> EventType[kind]
    [] OTHER -> "none"

Issue(notice) ==
  IF notice = "none" THEN UNCHANGED noticeVars
  ELSE emit(Notice("task", notice)) \/ emit_fails(Notice("task", notice))

\* What a run finds, as far as a notice can depend on it.
Found(products) ==
  LET best == find_best_match(products) IN
  IF ~named \/ products = <<>> THEN NothingFound
  ELSE [day |-> day, offers |-> IF Compared THEN {} ELSE {products[i] : i \in DOMAIN products},
        good |-> best.good, price |-> best.price, rank |-> RankIn(products)]

\* execute of a monitor.
Check ==
  /\ kind # "agent" /\ Len(earlier) < MaxChecks /\ issued < MaxChecks
  /\ \E raw \in Searches :
       LET products == parse_search_result(raw)
           found == Found(products)
           rows == IF kind = "price" /\ found # NothingFound
                     THEN Append(snapshots, [product_id |-> stable_id(found.good), price |-> found.price, at |-> day])
                     ELSE snapshots
           result == result_of(products, rows)
           notice == from_task_result(result) IN
       /\ snapshots' = rows
       /\ lastRank' = IF kind = "rank" /\ found # NothingFound THEN found.rank ELSE lastRank
       /\ outcome' = [found |-> found, status |-> result.status, notice |-> notice]
       /\ earlier' = IF Compared /\ outcome.found # NothingFound THEN Append(earlier, outcome.found) ELSE earlier
       /\ Issue(notice)
  /\ UNCHANGED <<kind, named, target, day>>

\* execute of an agent's task: the summary is what its user asked for.
AgentTask ==
  /\ kind = "agent" /\ issued < MaxNotices
  /\ \E status \in IF named THEN {"ok", "failed"} ELSE {"error"} :
       LET notice == from_task_result([status |-> status, due |-> TRUE]) IN
       outcome' = [found |-> NothingFound, status |-> status, notice |-> notice] /\ Issue(notice)
  /\ UNCHANGED <<kind, named, target, day, snapshots, lastRank, earlier>>

DayPasses ==
  /\ kind \in {"price", "deal"} /\ day < MaxDay /\ day' = day + 1
  /\ UNCHANGED <<noticeVars, kind, named, target, snapshots, lastRank, outcome, earlier>>

\* The ranks live in the memory of the process: the next run is the first one.
Restarts ==
  /\ kind = "rank" /\ lastRank # 0 /\ lastRank' = 0
  /\ outcome' = NoOutcome /\ earlier' = <<>>
  /\ UNCHANGED <<noticeVars, kind, named, target, day, snapshots>>

MonitorsNext ==
  \/ Check \/ AgentTask \/ DayPasses \/ Restarts
  \/ kind = "agent" /\ NoticesNext /\ UNCHANGED monitorVars
-----------------------------------------------------------------------------
\* What the user of the task waits for is there, by what its runs have found. A
\* price has fallen by 5 percent or more, to the tenth of a percent, from the
\* oldest one of that good in the window: by more than 4.95 percent.
SameGood(i, now) == earlier[i].good = now.good /\ earlier[i].day >= now.day - WindowDays
IsDue(now) ==
  CASE kind = "price" ->
         \/ target # 0 /\ now.price <= target
         \/ \E i \in DOMAIN earlier :
              /\ SameGood(i, now) /\ \A j \in 1..(i - 1) : ~SameGood(j, now)
              /\ 2 * 1000 * (earlier[i].price - now.price) > 99 * earlier[i].price
    [] kind = "deal" -> \E o \in now.offers : o.promo.end \in (now.day + 1)..(now.day + SoonDays)
    [] kind = "coupon" -> \E o \in now.offers : o.promo.coupon /\ o.promo.face > 0 /\ o.promo.face >= MinFace
    [] kind = "rank" -> /\ earlier # <<>> /\ Last(earlier).rank > 0
                        /\ now.rank = 0 \/ now.rank - Last(earlier).rank \notin -2..2
    [] kind = "shop" -> \E o \in now.offers : o.good = Mine /\ o.original # 0 /\ 10 * o.price < 7 * o.original

\* "a push each time that says the price has not changed would be noise"
\* (from_task_result), and what is worth it must not be kept from the user: a
\* run that returned makes a notice if and only if what its task waits for is
\* there, over all its runs.
NoticesAreDue ==
  outcome.status \in {"ok", "no_promotion", "no_coupon"} /\ kind # "agent" =>
    ((outcome.notice # "none") <=> IsDue(outcome.found))

\* What is worth a notice makes one, and the newest that are not dismissed are shown.
NoticesAreTrue == NoticesAreDue /\ RecentIsNewest(1)
=============================================================================
