----------------------------- MODULE GiftProfile -----------------------------
(***************************************************************************)
(* The profile of the recipient in a gift run: a log of operations that    *)
(* tools append to and fold_profile turns into entries; how an entry is    *)
(* found by a text that the model wrote from memory; what of a change the  *)
(* page is told.                                                           *)
(*                                                                         *)
(* A text is its words and whether a price or a stop is written behind     *)
(* them, which rail_norm cuts off. That one text contains another is that  *)
(* its words do.                                                           *)
(***************************************************************************)
EXTENDS Integers, Sequences, FiniteSets, SequencesExt

LOCAL IdsOf(items) == {items[i].id : i \in 1..Len(items)}
LOCAL MaxId(items) == CHOOSE m \in {0} \cup IdsOf(items) : \A k \in IdsOf(items) : k <= m

NoText == [words |-> {}, tail |-> FALSE]
rail_norm(text) == text.words
Other == "other"
RailOf(rail) == IF rail = "" THEN Other ELSE rail

AddOp(rail, text) == [op |-> "add", rail |-> rail, text |-> text, to |-> NoText]
UpdateOp(text, to) == [op |-> "update", rail |-> "", text |-> text, to |-> to]
DropOp(text) == [op |-> "drop", rail |-> "", text |-> text, to |-> NoText]

\* Ids are p1, p2, ...: one more than the largest that an entry has.
next_entry_id(items) == MaxId(items) + 1

\* The first entry with that text, else with that text when both are
\* normalised, else the first that contains it or is contained in it. 0: none.
locate_entry(items, text) ==
  LET n == rail_norm(text)
      all == 1..Len(items)
      exact == {i \in all : items[i].text = text}
      equal == {i \in all : rail_norm(items[i].text) = n}
      part == {i \in all : /\ rail_norm(items[i].text) # {}
                           /\ \/ n \subseteq rail_norm(items[i].text)
                              \/ rail_norm(items[i].text) \subseteq n}
      First(hits) == CHOOSE i \in hits : \A j \in hits : i <= j
  IN CASE text = NoText -> 0
       [] text # NoText /\ exact # {} -> First(exact)
       [] text # NoText /\ exact = {} /\ n # {} /\ equal # {} -> First(equal)
       [] text # NoText /\ exact = {} /\ n # {} /\ equal = {} /\ part # {} -> First(part)
       [] OTHER -> 0

\* An add is compared with the rail it was given, before an empty one becomes
\* "other".
HasEntry(items, rail, text) ==
  \E i \in 1..Len(items) : items[i].rail = rail /\ rail_norm(items[i].text) = rail_norm(text)

fold_op(items, op) ==
  LET i == locate_entry(items, op.text) IN
  CASE op.op = "add" ->
         IF op.text = NoText \/ HasEntry(items, op.rail, op.text) THEN items
         ELSE Append(items, [id |-> next_entry_id(items), rail |-> RailOf(op.rail),
                             text |-> op.text, state |-> "confirmed"])
    [] op.op = "update" ->
         IF i = 0 \/ op.to = NoText THEN items
         ELSE [items EXCEPT ![i].text = op.to]
    [] op.op = "drop" -> IF i = 0 THEN items ELSE RemoveAt(items, i)

fold_profile(ops) ==
  LET f[n \in 0..Len(ops)] == IF n = 0 THEN <<>> ELSE fold_op(f[n - 1], ops[n]) IN f[Len(ops)]

\* How a run that is continued gives the stored entries back as operations.
AsOps(items) == [i \in 1..Len(items) |-> AddOp(items[i].rail, items[i].text)]

\* Whether write_profile accepts an operation, given the profile that the
\* agent's own state folds to.
write_profile(items, op) ==
  CASE op.op = "add" -> op.rail # "" /\ op.text # NoText /\ ~HasEntry(items, op.rail, op.text)
    [] op.op = "update" -> locate_entry(items, op.text) # 0 /\ op.to # NoText
    [] op.op = "drop" -> locate_entry(items, op.text) # 0

\* Mistake: only what is there is compared.
push_profile_delta_NoDrop(pushed, items) ==
  LET ids == {p[1] : p \in pushed}
      told == SelectSeq(items, LAMBDA x : <<x.id, x.text>> \notin pushed)
  IN [i \in 1..Len(told) |->
        [kind |-> "profile", op |-> IF told[i].id \in ids THEN "update" ELSE "add",
         id |-> told[i].id, text |-> told[i].text]]

\* The profile events for a change from the pushed pairs <<id, text>> to the
\* entries: additions and changes in order, then the ids that are gone.
push_profile_delta(pushed, items) ==
  LET ids == {p[1] : p \in pushed}
      changed(x) == <<x.id, x.text>> \notin pushed
      told == SelectSeq(items, changed)
      gone == SetToSeq(ids \ IdsOf(items))
  IN [i \in 1..Len(told) |->
        [kind |-> "profile", op |-> IF told[i].id \in ids THEN "update" ELSE "add",
         id |-> told[i].id, text |-> told[i].text]]
     \o [i \in 1..Len(gone) |-> [kind |-> "profile", op |-> "drop", id |-> gone[i], text |-> NoText]]

PushedOf(items) == {<<items[i].id, items[i].text>> : i \in 1..Len(items)}

\* What the page makes of a profile event: by id, in place or at the end.
ShowEvent(shown, ev) ==
  LET at == {i \in 1..Len(shown) : shown[i].id = ev.id}
      item == [id |-> ev.id, text |-> ev.text]
  IN IF ev.kind # "profile" THEN shown
     ELSE IF ev.op = "drop" THEN SelectSeq(shown, LAMBDA x : x.id # ev.id)
     ELSE IF at = {} THEN Append(shown, item)
     ELSE [i \in 1..Len(shown) |-> IF i \in at THEN item ELSE shown[i]]
\* What it shows after all of them, if it began with that.
ShowProfile(first, events) ==
  LET f[n \in 0..Len(events)] == IF n = 0 THEN first ELSE ShowEvent(f[n - 1], events[n])
  IN f[Len(events)]
=============================================================================
