---------------------------- MODULE StoreProofs ----------------------------
(***************************************************************************)
(* Proofs about what is kept in more places than one: ThreadStore, for any *)
(* threads and any number of requests; DecisionArchive, for any records,   *)
(* any number of saving loops that overlap, and any number of writes and   *)
(* mishaps; PlanProducts, for any products, categories and sums and any    *)
(* number of rounds; and GiftPicks, for any offers, calls and answers.     *)
(***************************************************************************)
EXTENDS ThreadStore, DecisionArchive, PlanProducts, GiftPicks, FoldLemmas, FiniteSetTheorems, FunctionTheorems, SequenceTheorems, TLAPS

Pcs == {"off", "redis", "zadd", "row", "done", "del", "delstub", "zrem", "hset", "read", "touch"}
Req == [kind : Kinds \union {"none"}, of : ThreadIds, pc : Pcs]

StoreTypes ==
  /\ rows \in [ThreadIds -> {"none", "active", "deleted"}]
  /\ hash \in [ThreadIds -> {"none", "stub", "full"}]
  /\ listed \subseteq ThreadIds
  /\ req \in [Requests -> Req]
  /\ \A q \in Requests : req[q].kind = "none" <=> req[q].pc = "off"
  /\ failures \in Nat

At(q, kind, t, pcs) == req[q].kind = kind /\ req[q].of = t /\ req[q].pc \in pcs
Made(q, t) == req[q].kind = "create" /\ req[q].of = t
Busy(q, t) == req[q].kind # "none" /\ req[q].of = t

Bare(t) == rows[t] = "none" /\ hash[t] = "none" /\ t \notin listed

\* A thread that is being created has no other request, and only its hash may be
\* there, then its place on the list.
Coming(q, t) ==
  /\ \A p \in Requests : Busy(p, t) => p = q
  /\ req[q].pc \in {"redis", "zadd", "row"} /\ rows[t] = "none"
  /\ req[q].pc = "redis" => hash[t] = "none"
  /\ req[q].pc # "redis" => hash[t] = "full"
  /\ t \in listed <=> req[q].pc = "row"

\* A thread that was created is whole as long as its hash is. Once the hash is not,
\* the deletion that took it goes on to whatever still shows the thread, and no
\* update puts it on the list again.
Alone(t) == \A p, q \in Under(t) : req[p].kind = "update" => req[q].kind # "delete"
Shown(t) == hash[t] = "full" => rows[t] = "active" /\ t \in listed
RowLeaves(t) == rows[t] = "active" /\ hash[t] # "full" => \E q \in Requests : At(q, "delete", t, {"zrem", "row"})
PlaceGoes(t) == t \in listed /\ hash[t] # "full" => \E q \in Requests : At(q, "delete", t, {"zrem"})
HashGone(t) == \A q \in Requests : At(q, "delete", t, {"zrem", "row", "delstub"}) => hash[t] # "full"
HashStays(t) == \A q \in Requests : At(q, "update", t, {"zadd"}) => hash[t] = "full"
Settled(t) == Alone(t) /\ Shown(t) /\ RowLeaves(t) /\ PlaceGoes(t) /\ HashGone(t) /\ HashStays(t)

Story(t) ==
  /\ (\A q \in Requests : ~Made(q, t)) => Bare(t) /\ \A q \in Requests : ~Busy(q, t)
  /\ \A p, q \in Requests : Made(p, t) /\ Made(q, t) => p = q
  /\ \A q \in Requests : Made(q, t) /\ req[q].pc # "done" => Coming(q, t)
  /\ \A q \in Requests : Made(q, t) /\ req[q].pc = "done" /\ t \notin overlapped => Settled(t)

StoreInv == failures = 0 => \A t \in ThreadIds : Story(t)
-----------------------------------------------------------------------------
LEMMA StoreInit == ThreadInit => StoreTypes /\ StoreInv
<1> SUFFICES ASSUME ThreadInit PROVE StoreTypes /\ StoreInv
  OBVIOUS
<1> DEFINE t0 == CHOOSE t \in ThreadIds : TRUE
<1>1. t0 \in ThreadIds
  BY ThreadAssumption
<1> HIDE DEF t0
<1>2. req = [r \in Requests |-> [kind |-> "none", of |-> t0, pc |-> "off"]]
  BY DEF ThreadInit, t0
<1>3. StoreTypes
  BY <1>1, <1>2 DEF ThreadInit, StoreTypes, Req, Pcs, Kinds
<1>4. \A q \in Requests : req[q].kind = "none"
  BY <1>2
<1>5. ASSUME NEW t \in ThreadIds PROVE Story(t)
  BY <1>4 DEF ThreadInit, Story, Bare, Busy, Made
<1> QED BY <1>3, <1>5 DEF StoreInv

\* A request goes on: it keeps its kind and thread.
LEMMA Moves ==
  ASSUME StoreTypes, NEW r \in Requests, NEW pc \in Pcs \ {"off"}, req[r].pc # "off", To(r, pc)
  PROVE  /\ req' \in [Requests -> Req]
         /\ req'[r].kind = req[r].kind /\ req'[r].of = req[r].of /\ req'[r].pc = pc
         /\ \A q \in Requests \ {r} : req'[q] = req[q]
         /\ \A q \in Requests : req'[q].kind = "none" <=> req'[q].pc = "off"
<1> DEFINE row == [req[r] EXCEPT !.pc = pc]
<1>1. req[r] \in Req /\ req' = [req EXCEPT ![r] = row]
  BY DEF StoreTypes, To
<1>2. row \in Req /\ row.kind = req[r].kind /\ row.of = req[r].of /\ row.pc = pc
  BY <1>1 DEF Req
<1> HIDE DEF row
<1>3. req' \in [Requests -> Req] /\ req'[r] = row /\ \A q \in Requests \ {r} : req'[q] = req[q]
  BY <1>1, <1>2 DEF StoreTypes
<1> QED BY <1>2, <1>3 DEF StoreTypes

\* What a step does to other threads: nothing.
LEMMA Elsewhere ==
  ASSUME StoreTypes, NEW t \in ThreadIds, Story(t), rows'[t] = rows[t], hash'[t] = hash[t],
         t \in listed' <=> t \in listed, overlapped \subseteq overlapped',
         \A q \in Requests : Busy(q, t)' <=> Busy(q, t),
         \A q \in Requests : Busy(q, t) => req'[q] = req[q],
         \A q \in Requests : req'[q].kind = "none" <=> req'[q].pc = "off"
  PROVE  Story(t)'
<1>1. \A q \in Requests : Made(q, t)' <=> Made(q, t)
  BY DEF Made, Busy
<1>2. \A q \in Requests : Made(q, t) => req'[q].pc = req[q].pc
  BY DEF Made, Busy
<1>3. \A pcs : \A q \in Requests, kind \in Kinds : At(q, kind, t, pcs)' <=> At(q, kind, t, pcs)
  BY DEF At, Busy, Kinds
<1>4. Under(t)' = Under(t) /\ \A q \in Under(t) : req'[q].kind = req[q].kind
  BY DEF Under, Busy, StoreTypes
<1>5. Bare(t)' <=> Bare(t)
  BY DEF Bare
<1>6. \A q \in Requests : Made(q, t) => (Coming(q, t)' <=> Coming(q, t))
  BY <1>2 DEF Coming
<1>7. Settled(t) => Settled(t)'
  <2>1. Alone(t) => Alone(t)'
    BY <1>4 DEF Alone
  <2>2. Shown(t)' <=> Shown(t)
    BY DEF Shown
  <2>3. RowLeaves(t)' <=> RowLeaves(t)
    BY <1>3 DEF RowLeaves, Kinds
  <2>4. PlaceGoes(t)' <=> PlaceGoes(t)
    BY <1>3 DEF PlaceGoes, Kinds
  <2>5. HashGone(t)' <=> HashGone(t)
    BY <1>3 DEF HashGone, Kinds
  <2>6. HashStays(t)' <=> HashStays(t)
    BY <1>3 DEF HashStays, Kinds
  <2> QED BY <2>1, <2>2, <2>3, <2>4, <2>5, <2>6 DEF Settled
<1> QED BY <1>1, <1>2, <1>5, <1>6, <1>7 DEF Story

\* A step of a request on its thread leaves the other threads alone.
LEMMA StepElsewhere ==
  ASSUME StoreTypes, StoreInv, failures = 0, NEW r \in Requests, NEW pc \in Pcs \ {"off"}, req[r].pc # "off",
         To(r, pc), overlapped \subseteq overlapped', NEW t \in ThreadIds, t # req[r].of,
         rows'[t] = rows[t], hash'[t] = hash[t], t \in listed' <=> t \in listed
  PROVE  Story(t)'
<1>1. /\ req'[r].kind = req[r].kind /\ req'[r].of = req[r].of
      /\ \A q \in Requests \ {r} : req'[q] = req[q]
      /\ \A q \in Requests : req'[q].kind = "none" <=> req'[q].pc = "off"
  BY Moves
<1>2. Story(t)
  BY DEF StoreInv
<1>3. \A q \in Requests : Busy(q, t)' <=> Busy(q, t)
  BY <1>1 DEF Busy
<1>4. \A q \in Requests : Busy(q, t) => req'[q] = req[q]
  BY <1>1 DEF Busy
<1> QED BY <1>1, <1>2, <1>3, <1>4, Elsewhere

\* A request on a thread that was created: what is left to show is how the stores
\* and the deletions go together after it.
LEMMA Advances ==
  ASSUME StoreTypes, StoreInv, failures = 0, NEW r \in Requests, NEW pc \in Pcs \ {"off"},
         req[r].pc \notin {"off", "done"}, req[r].kind # "create", To(r, pc), overlapped' = overlapped,
         NEW t \in ThreadIds, req[r].of = t,
         \A u \in ThreadIds \ {t} :
           rows'[u] = rows[u] /\ hash'[u] = hash[u] /\ (u \in listed' <=> u \in listed),
         Settled(t) => Shown(t)' /\ RowLeaves(t)' /\ PlaceGoes(t)' /\ HashGone(t)' /\ HashStays(t)'
  PROVE  StoreInv'
<1>1. /\ req'[r].kind = req[r].kind /\ req'[r].of = req[r].of /\ req'[r].pc = pc
      /\ \A q \in Requests \ {r} : req'[q] = req[q]
  BY Moves
<1>2. Story(t) /\ Busy(r, t)
  BY DEF StoreTypes, StoreInv, Busy
<1>t. \A u \in ThreadIds \ {t} : Story(u)'
  BY StepElsewhere
<1>3. \A q \in Requests : (Made(q, t)' <=> Made(q, t)) /\ (Made(q, t) => q # r /\ req'[q] = req[q])
  BY <1>1 DEF Made
<1>4. \A q \in Requests : Made(q, t) => req[q].pc = "done"
  BY <1>2, <1>3 DEF Story, Coming
<1>5. \E q \in Requests : Made(q, t)
  BY <1>2 DEF Story
<1>6. Alone(t) => Alone(t)'
  <2>1. \A q \in Under(t)' : q \in Under(t) /\ req'[q].kind = req[q].kind
    BY <1>1, <1>2 DEF Under
  <2> QED BY <2>1 DEF Alone
<1>7. t \notin overlapped => Settled(t)
  BY <1>2, <1>4, <1>5 DEF Story
<1>8. t \notin overlapped => Settled(t)'
  BY <1>6, <1>7, <1>t DEF Settled
<1>9. Story(t)'
  BY <1>2, <1>3, <1>4, <1>5, <1>8 DEF Story
<1> QED BY <1>9, <1>t DEF StoreInv

\* A creation goes on: its thread has no other request.
LEMMA CreatesKeep ==
  ASSUME StoreTypes, StoreInv, failures = 0, NEW r \in Requests, req[r].kind = "create",
         NEW t \in ThreadIds, req[r].of = t,
         Creates(r) \/ (Row(r) /\ failures' = 0)
  PROVE  StoreInv'
<1>1. Story(t) /\ Made(r, t)
  BY DEF StoreInv, Made
<1>2. req[r].pc \notin {"off", "done"}
  BY DEF Creates, Row, Is
<1>3. Coming(r, t)
  BY <1>1, <1>2 DEF Story
<1>4. \E pc \in Pcs \ {"off"} :
        /\ To(r, pc) /\ overlapped' = overlapped
        /\ \A u \in ThreadIds \ {t} : rows'[u] = rows[u] /\ hash'[u] = hash[u] /\ (u \in listed' <=> u \in listed)
        /\ \/ pc = "zadd" /\ rows'[t] = "none" /\ hash'[t] = "full" /\ t \notin listed'
           \/ pc = "row" /\ rows'[t] = "none" /\ hash'[t] = "full" /\ t \in listed'
           \/ pc = "done" /\ rows'[t] = "active" /\ hash'[t] = "full" /\ t \in listed'
  <2>1. CASE Is(r, "create", "redis") /\ Creates(r)
    <3>1. /\ To(r, "zadd") /\ hash' = [hash EXCEPT ![t] = "full"] /\ UNCHANGED <<rows, listed, overlapped>>
      BY <2>1 DEF Creates, Is
    <3>2. rows[t] = "none" /\ t \notin listed
      BY <1>3, <2>1 DEF Coming, Is
    <3> QED BY <1>1, <3>1, <3>2 DEF Pcs, StoreTypes
  <2>2. CASE Is(r, "create", "zadd") /\ Creates(r)
    <3>1. /\ To(r, "row") /\ listed' = listed \cup {t} /\ UNCHANGED <<rows, hash, overlapped>>
      BY <2>2 DEF Creates, Is
    <3>2. rows[t] = "none" /\ hash[t] = "full"
      BY <1>3, <2>2 DEF Coming, Is
    <3> QED BY <1>1, <3>1, <3>2 DEF Pcs, StoreTypes
  <2>3. CASE Row(r) /\ failures' = 0
    <3>1. /\ To(r, "done") /\ rows' = [rows EXCEPT ![t] = "active"] /\ UNCHANGED <<hash, listed, overlapped>>
      BY <2>3 DEF Row, RowsAfter
    <3>2. hash[t] = "full" /\ t \in listed
      BY <1>3, <2>3 DEF Coming, Row
    <3> QED BY <1>1, <3>1, <3>2 DEF Pcs, StoreTypes
  <2> QED BY <2>1, <2>2, <2>3 DEF Creates
<1>5. PICK pc \in Pcs \ {"off"} : <1>4!(pc)
  BY <1>4
<1>6. /\ req'[r].kind = req[r].kind /\ req'[r].of = t /\ req'[r].pc = pc
      /\ \A q \in Requests \ {r} : req'[q] = req[q]
  BY <1>2, <1>5, Moves
<1>7. \A u \in ThreadIds \ {t} : Story(u)'
  BY <1>2, <1>5, StepElsewhere
<1>8. \A q \in Requests : (Made(q, t)' <=> q = r) /\ (Busy(q, t)' <=> q = r)
  BY <1>1, <1>3, <1>6 DEF Made, Busy, Coming
<1>9. pc # "done" => Coming(r, t)'
  BY <1>5, <1>6, <1>8 DEF Coming
<1>10. pc = "done" => Settled(t)'
  <2> SUFFICES ASSUME pc = "done" PROVE Settled(t)'
    OBVIOUS
  <2>1. rows'[t] = "active" /\ hash'[t] = "full" /\ t \in listed'
    BY <1>5
  <2>2. Under(t)' = {}
    <3>1. \A q \in Requests : req'[q].of = t /\ req'[q].pc # "off" => q = r
      <4>1. \A q \in Requests : req'[q].kind = "none" <=> req'[q].pc = "off"
        BY <1>2, <1>5, Moves
      <4> QED BY <1>8, <4>1 DEF Busy
    <3> QED BY <1>6, <3>1 DEF Under
  <2>3. \A q \in Requests : ~At(q, "delete", t, {"zrem", "row", "delstub"})' /\ ~At(q, "update", t, {"zadd"})'
    BY <2>2 DEF At, Under
  <2> QED BY <2>1, <2>2, <2>3 DEF Settled, Alone, Shown, RowLeaves, PlaceGoes, HashGone, HashStays
<1>11. Story(t)'
  BY <1>6, <1>8, <1>9, <1>10 DEF Story
<1> QED BY <1>7, <1>11 DEF StoreInv

\* A deletion goes on.
LEMMA DeletesKeep ==
  ASSUME StoreTypes, StoreInv, failures = 0, NEW r \in Requests, NEW t \in ThreadIds, req[r].of = t, Deletes(r)
  PROVE  StoreInv'
<1>h. hash[t] \in {"none", "stub", "full"} /\ UNCHANGED <<failures, overlapped>>
  BY DEF StoreTypes, Deletes
<1>m. ASSUME NEW pc \in Pcs \ {"off"}, To(r, pc), req[r].pc # "off"
      PROVE  /\ req'[r].kind = req[r].kind /\ req'[r].of = t /\ req'[r].pc = pc
             /\ \A q \in Requests \ {r} : req'[q] = req[q]
  BY <1>m, Moves
<1>1. ASSUME Is(r, "delete", "redis"), UNCHANGED <<rows, hash, listed>>,
             NEW pc \in {"row", "delstub", "del"}, To(r, pc), pc # "del" => hash[t] # "full"
      PROVE  StoreInv'
  <2>1. /\ req'[r].kind = "delete" /\ req'[r].of = t /\ req'[r].pc = pc /\ req[r].kind = "delete" /\ req[r].pc = "redis"
        /\ \A q \in Requests \ {r} : req'[q] = req[q]
    BY <1>1, <1>m DEF Is, Pcs
  <2>2. Shown(t) => Shown(t)'
    BY <1>1 DEF Shown
  <2>3. RowLeaves(t) => RowLeaves(t)'
    BY <1>1, <2>1 DEF RowLeaves, At
  <2>4. PlaceGoes(t) => PlaceGoes(t)'
    BY <1>1, <2>1 DEF PlaceGoes, At
  <2>5. HashGone(t) => HashGone(t)'
    BY <1>1, <2>1 DEF HashGone, At
  <2>6. HashStays(t) => HashStays(t)'
    BY <1>1, <2>1 DEF HashStays, At
  <2>7. pc \in Pcs \ {"off"}
    BY DEF Pcs
  <2> QED BY <1>1, <1>h, <2>1, <2>2, <2>3, <2>4, <2>5, <2>6, <2>7, Advances DEF Settled
<1>2. ASSUME req[r].kind = "delete", NEW old \in {"del", "delstub"}, req[r].pc = old,
             hash' = [hash EXCEPT ![t] = "none"], UNCHANGED <<rows, listed>>,
             NEW pc \in {"zrem", "row"}, pc = (IF old = "del" THEN "zrem" ELSE "row"), To(r, pc)
      PROVE  StoreInv'
  <2>1. /\ req'[r].kind = "delete" /\ req'[r].of = t /\ req'[r].pc = pc
        /\ \A q \in Requests \ {r} : req'[q] = req[q]
    BY <1>2, <1>m DEF Pcs
  <2>2. hash'[t] = "none" /\ \A u \in ThreadIds \ {t} : hash'[u] = hash[u]
    BY <1>2 DEF StoreTypes
  <2>3. old = "delstub" /\ HashGone(t) => hash[t] # "full"
    BY <1>2 DEF HashGone, At
  <2>4. Shown(t)'
    BY <2>2 DEF Shown
  <2>5. RowLeaves(t)'
    BY <2>1 DEF RowLeaves, At
  <2>6. ASSUME PlaceGoes(t), HashGone(t) PROVE PlaceGoes(t)'
    <3>1. CASE old = "del"
      BY <1>2, <2>1, <3>1 DEF PlaceGoes, At
    <3>2. CASE old = "delstub"
      BY <1>2, <2>1, <2>3, <2>6, <3>2 DEF PlaceGoes, At
    <3> QED BY <3>1, <3>2
  <2>7. HashGone(t)'
    BY <2>2 DEF HashGone
  <2>8. ASSUME Alone(t) PROVE HashStays(t)'
    <3>1. r \in Under(t)
      BY <1>2 DEF Under
    <3>2. \A q \in Requests : At(q, "update", t, {"zadd"})' => q \in Under(t) /\ req[q].kind = "update"
      BY <2>1 DEF At, Under
    <3> QED BY <1>2, <2>8, <3>1, <3>2 DEF HashStays, Alone
  <2>9. pc \in Pcs \ {"off"}
    BY DEF Pcs
  <2> QED BY <1>2, <1>h, <2>2, <2>4, <2>5, <2>6, <2>7, <2>8, <2>9, Advances DEF Settled
<1>3. ASSUME Is(r, "delete", "zrem"), To(r, "row"), listed' = listed \ {t}, UNCHANGED <<rows, hash>> PROVE StoreInv'
  <2>1. /\ req'[r].kind = "delete" /\ req'[r].of = t /\ req'[r].pc = "row" /\ req[r].kind = "delete" /\ req[r].pc = "zrem"
        /\ \A q \in Requests \ {r} : req'[q] = req[q]
    BY <1>3, <1>m DEF Is, Pcs
  <2>2. HashGone(t) => hash[t] # "full"
    BY <2>1 DEF HashGone, At
  <2>3. HashGone(t) => Shown(t)'
    BY <1>3, <2>2 DEF Shown
  <2>4. RowLeaves(t)'
    BY <2>1 DEF RowLeaves, At
  <2>5. PlaceGoes(t)'
    BY <1>3 DEF PlaceGoes
  <2>6. HashGone(t) => HashGone(t)'
    BY <1>3, <2>2 DEF HashGone
  <2>7. HashStays(t) => HashStays(t)'
    BY <1>3, <2>1 DEF HashStays, At
  <2>8. \A u \in ThreadIds \ {t} : u \in listed' <=> u \in listed
    BY <1>3
  <2> QED BY <1>3, <1>h, <2>1, <2>3, <2>4, <2>5, <2>6, <2>7, <2>8, Advances DEF Settled, Pcs
<1> QED BY <1>1, <1>2, <1>3, <1>h DEF Deletes, Is

\* An update, or a message that is saved, goes on.
LEMMA UpdatesKeep ==
  ASSUME StoreTypes, StoreInv, failures = 0, NEW r \in Requests, NEW t \in ThreadIds, req[r].of = t,
         Updates(r) \/ AddsMessage(r)
  PROVE  StoreInv'
<1>h. hash[t] \in {"none", "stub", "full"} /\ UNCHANGED <<rows, failures, overlapped>>
  BY DEF StoreTypes, Updates, UpdateReads, AddsMessage
<1>1. ASSUME NEW pc \in {"row", "hset", "read", "zadd", "touch", "done"}, To(r, pc),
             NEW kind \in {"update", "message"}, req[r].kind = kind, req[r].pc \notin {"off", "done"},
             \/ UNCHANGED <<hash, listed>>
             \/ hash' = [hash EXCEPT ![t] = IF @ = "none" THEN "stub" ELSE @] /\ listed' = listed
             \/ kind = "update" /\ req[r].pc = "zadd" /\ listed' = listed \cup {t} /\ hash' = hash,
             pc = "zadd" => hash[t] = "full" /\ hash' = hash
      PROVE  StoreInv'
  <2>1. /\ req'[r].kind = kind /\ req'[r].of = t /\ req'[r].pc = pc
        /\ \A q \in Requests \ {r} : req'[q] = req[q]
    BY <1>1, Moves DEF Pcs
  <2>2. /\ hash'[t] = "full" <=> hash[t] = "full"
        /\ \A u \in ThreadIds \ {t} : hash'[u] = hash[u] /\ (u \in listed' <=> u \in listed)
    BY <1>1 DEF StoreTypes
  <2>3. /\ t \in listed => t \in listed'
        /\ HashStays(t) /\ t \in listed' => t \in listed \/ hash[t] = "full"
    BY <1>1 DEF HashStays, At
  <2>4. \A pcs : \A q \in Requests : At(q, "delete", t, pcs)' <=> At(q, "delete", t, pcs)
    BY <1>1, <2>1 DEF At
  <2>5. Shown(t) => Shown(t)'
    BY <1>h, <2>2, <2>3 DEF Shown
  <2>6. RowLeaves(t) => RowLeaves(t)'
    BY <1>h, <2>2, <2>4 DEF RowLeaves
  <2>7. PlaceGoes(t) /\ HashStays(t) => PlaceGoes(t)'
    BY <2>2, <2>3, <2>4 DEF PlaceGoes
  <2>8. HashGone(t) => HashGone(t)'
    BY <2>2, <2>4 DEF HashGone
  <2>9. HashStays(t) => HashStays(t)'
    BY <1>1, <2>1, <2>2 DEF HashStays, At
  <2>10. pc \in Pcs \ {"off"}
    BY DEF Pcs
  <2> QED BY <1>1, <1>h, <2>2, <2>5, <2>6, <2>7, <2>8, <2>9, <2>10, Advances DEF Settled
<1>2. CASE Updates(r)
  BY <1>1, <1>2 DEF Updates, UpdateReads, Is
<1>3. CASE AddsMessage(r)
  BY <1>1, <1>3 DEF AddsMessage, Is
<1> QED BY <1>2, <1>3

\* PostgreSQL does its part: only a deletion changes the row of a thread that is there.
LEMMA RowKeeps ==
  ASSUME StoreTypes, StoreInv, failures = 0, NEW r \in Requests, NEW t \in ThreadIds, req[r].of = t,
         Row(r), failures' = 0, req[r].kind # "create"
  PROVE  StoreInv'
<1>1. /\ req[r].pc = "row" /\ UNCHANGED <<hash, listed, overlapped>>
      /\ \E pc \in {"redis", "done"} : To(r, pc) /\ (req[r].kind # "message" => pc = "done")
      /\ rows' = RowsAfter(req[r].kind, t)
  BY DEF Row
<1>2. PICK pc \in {"redis", "done"} : To(r, pc) /\ (req[r].kind # "message" => pc = "done")
  BY <1>1
<1>3. /\ req'[r].kind = req[r].kind /\ req'[r].of = t /\ req'[r].pc = pc
      /\ \A q \in Requests \ {r} : req'[q] = req[q]
  BY <1>1, <1>2, Moves DEF Pcs
<1>4. /\ \A u \in ThreadIds \ {t} : rows'[u] = rows[u]
      /\ req[r].kind # "delete" => rows'[t] = rows[t]
      /\ req[r].kind = "delete" => rows'[t] # "active"
  BY <1>1 DEF RowsAfter, StoreTypes
<1>5. req[r].kind = "delete" /\ HashGone(t) => hash[t] # "full"
  BY <1>1 DEF HashGone, At
<1>6. Shown(t) /\ HashGone(t) => Shown(t)'
  BY <1>1, <1>4, <1>5 DEF Shown
<1>7. RowLeaves(t) => RowLeaves(t)'
  BY <1>1, <1>3, <1>4 DEF RowLeaves, At
<1>8. PlaceGoes(t) => PlaceGoes(t)'
  BY <1>1, <1>3 DEF PlaceGoes, At
<1>9. HashGone(t) => HashGone(t)'
  BY <1>1, <1>3 DEF HashGone, At
<1>10. HashStays(t) => HashStays(t)'
  BY <1>1, <1>3 DEF HashStays, At
<1>11. pc \in Pcs \ {"off"}
  BY DEF Pcs
<1> QED BY <1>1, <1>2, <1>4, <1>6, <1>7, <1>8, <1>9, <1>10, <1>11, Advances DEF Settled

LEMMA RequestRow ==
  ASSUME StoreTypes, NEW r \in Requests, NEW kind \in Kinds, NEW t \in ThreadIds, Request(r, kind, t)
  PROVE  /\ req' \in [Requests -> Req]
         /\ req'[r].kind = kind /\ req'[r].of = t
         /\ req'[r].pc \in {"row", "redis"} /\ (kind # "message" => req'[r].pc = "redis")
         /\ \A q \in Requests \ {r} : req'[q] = req[q]
         /\ req[r].kind = "none" /\ req[r].pc = "off" /\ kind # "none"
<1> DEFINE row == [kind |-> kind, of |-> t, pc |-> IF kind = "message" THEN "row" ELSE "redis"]
<1>1. /\ row \in Req /\ row.kind = kind /\ row.of = t /\ row.pc \in {"row", "redis"}
      /\ kind # "message" => row.pc = "redis"
  BY DEF Req, Pcs
<1>2. req' = [req EXCEPT ![r] = row] /\ req[r].kind = "none"
  BY DEF Request
<1> HIDE DEF row
<1>3. req' \in [Requests -> Req] /\ req'[r] = row /\ \A q \in Requests \ {r} : req'[q] = req[q]
  BY <1>1, <1>2 DEF StoreTypes
<1>4. req[r].pc = "off" /\ kind # "none"
  BY <1>2 DEF StoreTypes, Kinds
<1> QED BY <1>1, <1>2, <1>3, <1>4

\* A request is made: a creation of a thread that nobody has heard of, or anything
\* else on one that is there.
LEMMA RequestKeeps ==
  ASSUME StoreTypes, StoreInv, failures = 0, NEW r \in Requests, NEW kind \in Kinds, NEW t \in ThreadIds,
         Request(r, kind, t)
  PROVE  StoreInv'
<1>1. /\ req'[r].kind = kind /\ req'[r].of = t
      /\ req'[r].pc \in {"row", "redis"} /\ (kind # "message" => req'[r].pc = "redis")
      /\ \A q \in Requests \ {r} : req'[q] = req[q]
      /\ req[r].kind = "none" /\ req[r].pc = "off" /\ kind # "none"
  BY RequestRow
<1>2. UNCHANGED <<rows, hash, listed, failures>> /\ overlapped \subseteq overlapped'
  BY DEF Request
<1>3. ASSUME NEW u \in ThreadIds, u # t PROVE Story(u)'
  <2>1. \A q \in Requests : (Busy(q, u)' <=> Busy(q, u)) /\ (Busy(q, u) => req'[q] = req[q])
    BY <1>1, <1>3 DEF Busy
  <2>2. \A q \in Requests : req'[q].kind = "none" <=> req'[q].pc = "off"
    BY <1>1 DEF StoreTypes
  <2>3. Story(u)
    BY DEF StoreInv
  <2> QED BY <1>2, <2>1, <2>2, <2>3, Elsewhere
<1>4. Story(t)
  BY DEF StoreInv
<1>5. CASE kind = "create"
  <2>1. \A q \in Requests : ~Made(q, t)
    BY <1>5 DEF Request, Drawn, Made
  <2>2. Bare(t) /\ \A q \in Requests : ~Busy(q, t)
    BY <1>4, <2>1 DEF Story
  <2>3. \A q \in Requests : (Made(q, t)' <=> q = r) /\ (Busy(q, t)' => q = r)
    BY <1>1, <1>5, <2>1, <2>2 DEF Made, Busy
  <2>4. Coming(r, t)'
    BY <1>1, <1>2, <1>5, <2>2, <2>3 DEF Coming, Bare
  <2>5. Story(t)'
    BY <1>1, <1>5, <2>3, <2>4 DEF Story
  <2> QED BY <1>3, <2>5 DEF StoreInv
<1>6. CASE kind # "create"
  <2>1. \E q \in Requests : Made(q, t) /\ req[q].pc = "done"
    BY <1>6 DEF Request, Known, Is, Made
  <2>2. \A q \in Requests : (Made(q, t)' <=> Made(q, t)) /\ (Made(q, t) => req'[q].pc = req[q].pc)
    BY <1>1, <1>6 DEF Made
  <2>3. \A q \in Requests : Made(q, t) => req[q].pc = "done"
    BY <1>4, <2>1 DEF Story
  <2>4. t \notin overlapped => Settled(t)
    BY <1>4, <2>1 DEF Story
  <2>5. ASSUME t \notin overlapped', Settled(t) PROVE Settled(t)'
    <3>1. \A q \in Under(t) : {req[q].kind, kind} # {"update", "delete"}
      BY <2>5 DEF Request
    <3>2. \A q \in Under(t)' : q = r \/ (q \in Under(t) /\ req'[q].kind = req[q].kind)
      BY <1>1 DEF Under
    <3>3. Alone(t)'
      <4> SUFFICES ASSUME NEW x \in Under(t)', NEW y \in Under(t)', req'[x].kind = "update", req'[y].kind = "delete"
                   PROVE  FALSE
        BY DEF Alone
      <4>1. CASE x # r /\ y # r
        BY <2>5, <3>2, <4>1 DEF Settled, Alone
      <4>2. CASE x = r
        BY <1>1, <3>1, <3>2, <4>2
      <4>3. CASE y = r
        <5>1. x \in Under(t) /\ req[x].kind = "update" /\ kind = "delete"
          BY <1>1, <3>2, <4>3
        <5> QED BY <3>1, <5>1
      <4> QED BY <4>1, <4>2, <4>3
    <3>4. /\ \A pcs : \A q \in Requests : At(q, "delete", t, pcs) => At(q, "delete", t, pcs)'
          /\ \A q \in Requests : At(q, "delete", t, {"zrem", "row", "delstub"})' => At(q, "delete", t, {"zrem", "row", "delstub"})
          /\ \A q \in Requests : At(q, "update", t, {"zadd"})' => At(q, "update", t, {"zadd"})
      BY <1>1 DEF At
    <3>5. Shown(t)' /\ RowLeaves(t)' /\ PlaceGoes(t)' /\ HashGone(t)' /\ HashStays(t)'
      BY <1>2, <2>5, <3>4 DEF Settled, Shown, RowLeaves, PlaceGoes, HashGone, HashStays
    <3> QED BY <3>3, <3>5 DEF Settled
  <2>6. Story(t)'
    <3>1. \A p, q \in Requests : Made(p, t) /\ Made(q, t) => p = q
      BY <1>4 DEF Story
    <3>2. \A q \in Requests : Made(q, t)' => req'[q].pc = "done"
      BY <2>2, <2>3
    <3>3. t \notin overlapped' => Settled(t)'
      BY <1>2, <2>4, <2>5
    <3>4. ~(\A q \in Requests : ~Made(q, t)')
      BY <2>1, <2>2
    <3> QED BY <2>2, <3>1, <3>2, <3>3, <3>4 DEF Story
  <2> QED BY <1>3, <2>6 DEF StoreInv
<1> QED BY <1>5, <1>6

LEMMA StoreNextTypes == ASSUME StoreTypes, [ThreadNext]_threadVars PROVE StoreTypes'
<1>r. \A r \in Requests : req[r] \in Req /\ req[r].of \in ThreadIds
  BY DEF StoreTypes, Req
<1>1. ASSUME NEW r \in Requests, NEW kind \in Kinds, NEW t \in ThreadIds, Request(r, kind, t) PROVE StoreTypes'
  <2>1. ASSUME NEW q \in Requests PROVE req'[q].kind = "none" <=> req'[q].pc = "off"
    <3>1. CASE q = r
      BY <1>1, <3>1, RequestRow
    <3>2. CASE q # r
      BY <1>1, <3>2, RequestRow DEF StoreTypes
    <3> QED BY <3>1, <3>2
  <2> QED BY <1>1, <2>1, RequestRow DEF Request, StoreTypes
<1>2. ASSUME NEW r \in Requests, NEW pc \in Pcs \ {"off"}, req[r].pc # "off", To(r, pc),
             rows' \in [ThreadIds -> {"none", "active", "deleted"}], hash' \in [ThreadIds -> {"none", "stub", "full"}],
             listed' \subseteq ThreadIds, failures' \in Nat
      PROVE  StoreTypes'
  BY <1>2, Moves DEF StoreTypes
<1>3. ASSUME NEW r \in Requests, Creates(r) PROVE StoreTypes'
  BY <1>2, <1>3, <1>r DEF Creates, Is, StoreTypes, Pcs
<1>4. ASSUME NEW r \in Requests, Deletes(r) PROVE StoreTypes'
  <2>1. CASE Is(r, "delete", "redis")
    <3>1. hash[req[r].of] \in {"none", "stub", "full"}
      BY <1>r DEF StoreTypes
    <3>2. \E pc \in {"row", "delstub", "del"} : To(r, pc)
      BY <1>4, <2>1, <3>1 DEF Deletes, Is
    <3>3. UNCHANGED <<rows, hash, listed, failures>>
      BY <1>4, <2>1 DEF Deletes, Is
    <3> QED BY <1>2, <2>1, <3>2, <3>3 DEF Is, StoreTypes, Pcs
  <2>2. CASE ~Is(r, "delete", "redis")
    <3>1. \E pc \in {"zrem", "row"} : To(r, pc)
      BY <1>4, <2>2 DEF Deletes
    <3>2. /\ rows' = rows /\ failures' = failures /\ listed' \subseteq listed /\ req[r].pc # "off"
          /\ hash' = hash \/ hash' = [hash EXCEPT ![req[r].of] = "none"]
      BY <1>4, <2>2 DEF Deletes, Is
    <3> QED BY <1>2, <3>1, <3>2 DEF StoreTypes, Pcs
  <2> QED BY <2>1, <2>2
<1>5. ASSUME NEW r \in Requests, Updates(r) \/ AddsMessage(r) PROVE StoreTypes'
  <2>1. \E pc \in {"row", "hset", "read", "zadd", "touch", "done"} : To(r, pc)
    BY <1>5 DEF Updates, UpdateReads, AddsMessage
  <2>2. /\ rows' = rows /\ failures' = failures /\ req[r].pc # "off"
        /\ listed' = listed \/ listed' = listed \cup {req[r].of}
        /\ hash' = hash \/ hash' = [hash EXCEPT ![req[r].of] = IF @ = "none" THEN "stub" ELSE @]
    BY <1>5 DEF Updates, UpdateReads, AddsMessage, Is
  <2>3. hash' \in [ThreadIds -> {"none", "stub", "full"}]
    BY <1>r, <2>2 DEF StoreTypes
  <2> QED BY <1>2, <1>r, <2>1, <2>2, <2>3 DEF StoreTypes, Pcs
<1>6. ASSUME NEW r \in Requests, FallsBack(r) PROVE StoreTypes'
  <2>1. UNCHANGED <<rows, hash, listed>> /\ failures' \in Nat /\ req[r].pc # "off"
    BY <1>6 DEF FallsBack, StoreTypes
  <2>2. CASE \E pc \in {"row", "done"} : To(r, pc)
    BY <1>2, <2>1, <2>2 DEF StoreTypes, Pcs
  <2>3. ASSUME NEW t \in ThreadIds, req' = [req EXCEPT ![r].of = t, ![r].pc = "row"] PROVE StoreTypes'
    <3> DEFINE row == [req[r] EXCEPT !.of = t, !.pc = "row"]
    <3>1. row \in Req /\ row.kind = req[r].kind /\ row.pc = "row"
      BY <1>r DEF Req, Pcs
    <3>2. req' = [req EXCEPT ![r] = row]
      BY <2>3
    <3> HIDE DEF row
    <3>3. req' \in [Requests -> Req] /\ req'[r] = row /\ \A q \in Requests \ {r} : req'[q] = req[q]
      BY <3>1, <3>2 DEF StoreTypes
    <3> QED BY <2>1, <3>1, <3>3 DEF StoreTypes
  <2> QED BY <1>6, <2>2, <2>3 DEF FallsBack
<1>7. ASSUME NEW r \in Requests, Row(r) PROVE StoreTypes'
  <2>1. /\ \E pc \in {"redis", "done"} : To(r, pc)
        /\ UNCHANGED <<hash, listed>> /\ failures' \in Nat /\ req[r].pc = "row"
        /\ rows' = rows \/ rows' = RowsAfter(req[r].kind, req[r].of)
    BY <1>7 DEF Row, StoreTypes
  <2>2. rows' \in [ThreadIds -> {"none", "active", "deleted"}]
    BY <1>r, <2>1 DEF RowsAfter, StoreTypes
  <2> QED BY <1>2, <2>1, <2>2 DEF StoreTypes, Pcs
<1>8. CASE UNCHANGED threadVars
  BY <1>8 DEF threadVars, StoreTypes
<1> QED BY <1>1, <1>3, <1>4, <1>5, <1>6, <1>7, <1>8 DEF ThreadNext

LEMMA StoreNext == ASSUME StoreTypes, StoreInv, [ThreadNext]_threadVars PROVE StoreInv'
<1> SUFFICES ASSUME failures' = 0 PROVE StoreInv'
  BY DEF StoreInv
<1>0. \A r \in Requests : ~FallsBack(r)
  BY DEF FallsBack, StoreTypes
<1>r. \A r \in Requests : req[r].of \in ThreadIds
  BY DEF StoreTypes, Req
<1>1. CASE UNCHANGED threadVars
  <2>1. UNCHANGED <<rows, hash, listed, req, failures, overlapped>>
    BY <1>1 DEF threadVars
  <2>2. ASSUME NEW t \in ThreadIds, Story(t) PROVE Story(t)'
    BY <2>1, <2>2, Elsewhere DEF Busy, StoreTypes
  <2> QED BY <2>1, <2>2 DEF StoreInv
<1>2. ASSUME NEW r \in Requests, NEW kind \in Kinds, NEW t \in ThreadIds, Request(r, kind, t) PROVE StoreInv'
  <2>1. failures = 0
    BY <1>2 DEF Request
  <2> QED BY <1>2, <2>1, RequestKeeps
<1>3. ASSUME NEW r \in Requests, Creates(r) \/ Deletes(r) \/ Updates(r) \/ AddsMessage(r) PROVE StoreInv'
  <2>1. failures = 0 /\ (Creates(r) => req[r].kind = "create")
    BY <1>3 DEF Creates, Deletes, Updates, UpdateReads, AddsMessage, Is
  <2> QED BY <1>3, <1>r, <2>1, CreatesKeep, DeletesKeep, UpdatesKeep
<1>4. ASSUME NEW r \in Requests, Row(r) PROVE StoreInv'
  <2>1. failures = 0
    BY <1>4 DEF Row, StoreTypes
  <2> QED BY <1>4, <1>r, <2>1, CreatesKeep, RowKeeps
<1> QED BY <1>0, <1>1, <1>2, <1>3, <1>4 DEF ThreadNext

(***************************************************************************)
(* The stores of threads agree when nothing is under way: a thread is on   *)
(* the list that Redis returns exactly if its row is active, in whatever   *)
(* order the calls of creations, updates, deletions and saved messages     *)
(* came; a message that is saved while its thread is deleted does not      *)
(* bring it back.                                                          *)
(***************************************************************************)
THEOREM StoresAgree == ThreadInit /\ [][ThreadNext]_threadVars => []ListsAgree
<1>1. ASSUME StoreTypes, StoreInv PROVE ListsAgree
  <2> SUFFICES ASSUME NEW t \in ThreadIds, failures = 0, Under(t) = {}, t \notin overlapped
               PROVE  /\ t \in list_threads <=> t \in list_by_user
                      /\ t \in list_threads => hash[t] = "full"
    BY DEF ListsAgree
  <2>1. Story(t)
    BY <1>1 DEF StoreInv
  <2>2. \A q \in Requests : req[q].of = t => req[q].pc \in {"off", "done"}
    BY DEF Under
  <2>3. CASE \A q \in Requests : ~Made(q, t)
    BY <2>1, <2>3 DEF Story, Bare, list_threads, list_by_user
  <2>4. CASE \E q \in Requests : Made(q, t)
    <3>1. PICK q \in Requests : Made(q, t)
      BY <2>4
    <3>2. req[q].pc = "done"
      BY <1>1, <2>2, <3>1 DEF Made, StoreTypes
    <3>3. Settled(t)
      BY <2>1, <3>1, <3>2 DEF Story
    <3>4. /\ hash[t] = "full" => rows[t] = "active" /\ t \in listed
          /\ hash[t] # "full" => rows[t] # "active" /\ t \notin listed
      BY <2>2, <3>3 DEF Settled, Shown, RowLeaves, PlaceGoes, At
    <3> QED BY <3>4 DEF list_threads, list_by_user
  <2> QED BY <2>3, <2>4
<1> QED BY <1>1, StoreInit, StoreNextTypes, StoreNext, PTL

-----------------------------------------------------------------------------
(* The archive.                                                             *)

Data == [phase : Nat, reminders : SUBSET Nat, rating : Nat]
Table == [Records -> Data]
Page == [open : BOOLEAN, records : SUBSET Records, data : Table, snapshot : Table, timer : BOOLEAN]
Loop == [todo : SUBSET Records, id : Records \union {0}, request : {"none", "sent", "selected", "ok", "failed"},
         kind : {"createOne", "saveOne"}, data : Data, base : Data]

ArchiveTypes ==
  /\ table \in Table /\ assured \in Table /\ copy \in Table
  /\ toolCall \in [id : Records, data : Data] \union {NoCall}
  /\ page \in Page
  /\ loop \in [Loops -> Loop]
  /\ removal \in [id : Records \union {0}, done : BOOLEAN]
  /\ filed \subseteq Records /\ touched \subseteq Records
  /\ overtook \in BOOLEAN /\ writes \in Nat /\ mishaps \in Nat

\* No field is newer than the last write.
PhaseInv ==
  /\ \A i \in Records : /\ table[i].phase <= writes /\ copy[i].phase <= writes
                        /\ page.data[i].phase <= writes /\ page.snapshot[i].phase <= writes
  /\ toolCall.data.phase <= writes
  /\ \A l \in Loops : loop[l].data.phase <= writes

\* The page saves what its user changed, and nothing empty.
Sound(l) ==
  Waiting(l) =>
    /\ page.open /\ loop[l].id \in touched /\ loop[l].todo \subseteq touched
    /\ \A i \in loop[l].todo : page.data[i] # Absent
    /\ loop[l].request \in {"sent", "selected"} => loop[l].data # Absent
KeptInv ==
  /\ filed = {i \in Records : InTable(i)}
  /\ \A i \in filed \ touched : table[i] = assured[i]
  /\ page.records # {} => page.open
  /\ \A i \in page.records : page.data[i] # Absent /\ (page.data[i] # page.snapshot[i] => i \in touched)
  /\ \A l \in Loops : Sound(l)

\* A record that is the user's alone, and not being removed from the screen.
Own(i) == i \in page.records /\ assured[i] = Absent /\ ~(removal.done /\ removal.id = i)
Clean(i) == page.data[i] = page.snapshot[i]
OnItsWay(l, i) == Waiting(l) /\ (i \in loop[l].todo \/ (loop[l].id = i /\ loop[l].request # "failed"))

Plain(i) == assured[i] = Absent => table[i].rating = 0 /\ page.data[i].rating = 0
Loaded(i) == page.snapshot[i] # Absent /\ assured[i] = Absent => i \in touched
Saved(i) ==
  /\ page.snapshot[i] # Absent => InTable(i)
  /\ Clean(i) => table[i] = page.data[i]
  /\ Clean(i) \/ page.timer \/ \E l \in Loops : OnItsWay(l, i)

\* What a request knows of its record stays true: only a second request for the same
\* record can insert it before, and that one is answered with "ok".
Fresh(l) == loop[l].request \in {"sent", "selected"} => loop[l].data = page.data[loop[l].id]
PlainBase(l) == loop[l].request = "selected" /\ assured[loop[l].id] = Absent => loop[l].base.rating = 0
Answers(l) ==
  LET i == loop[l].id IN
  Own(i) =>
    /\ loop[l].request = "ok" => table[i] = page.data[i]
    /\ loop[l].request \in {"sent", "selected"} /\ loop[l].kind = "saveOne" => InTable(i)
    /\ loop[l].request = "selected" /\ loop[l].base # Absent => InTable(i)
    /\ loop[l].request = "selected" /\ loop[l].base = Absent /\ InTable(i) =>
         Clean(i) \/ \E k \in Loops : loop[k].id = i /\ loop[k].request = "ok"

\* As long as no request failed, no other client came and no record changed while it was
\* being saved, a record of the user's alone is in the table once it has a snapshot, as
\* the snapshot says, and what differs from the snapshot is timed or on its way.
Undisturbed == mishaps = 0 /\ ~overtook
QuietInv ==
  Undisturbed =>
    /\ \A i \in Records : copy[i] = Absent /\ Plain(i) /\ Loaded(i) /\ (Own(i) => Saved(i))
    /\ \A l \in Loops : Fresh(l) /\ PlainBase(l) /\ Answers(l)
ArchiveInv == ArchiveTypes /\ PhaseInv /\ KeptInv /\ QuietInv
-----------------------------------------------------------------------------
LEMMA AbsentIsData == Absent \in Data /\ Absent.phase = 0 /\ Absent.rating = 0
BY DEF Absent, Data

\* A write leaves something, and what is newer than all else.
LEMMA NewPhase ==
  ASSUME NEW d \in Data, writes \in Nat, FreshWrite
  PROVE  /\ [d EXCEPT !.phase = writes'] \in Data
         /\ [d EXCEPT !.phase = writes'].phase = writes' /\ [d EXCEPT !.phase = writes'].rating = d.rating
         /\ [d EXCEPT !.phase = writes'] # Absent
         /\ \A e \in Data : e.phase <= writes => [d EXCEPT !.phase = writes'] # e
BY DEF FreshWrite, Data, Absent

LEMMA ChangedIsData ==
  ASSUME NEW d \in Data, d.phase <= writes, writes \in Nat, FreshWrite, NEW e \in Changed(d)
  PROVE  e \in Data /\ e.phase <= writes' /\ e # Absent
<1>1. writes' \in Nat /\ writes' > 0 /\ writes' = writes + 1
  BY DEF FreshWrite
<1>2. CASE e = [d EXCEPT !.phase = writes']
  BY <1>1, <1>2 DEF Data, Absent
<1>3. CASE e = [d EXCEPT !.reminders = @ \cup {writes'}]
  <2>1. e.reminders # {} /\ e.phase = d.phase /\ e \in Data
    BY <1>1, <1>3 DEF Data
  <2> QED BY <1>1, <2>1 DEF Absent, Data
<1>4. CASE e = [d EXCEPT !.rating = writes']
  BY <1>1, <1>4 DEF Data, Absent
<1> QED BY <1>2, <1>3, <1>4 DEF Changed

LEMMA MergedIsData ==
  ASSUME NEW base \in Data, NEW patch \in Data
  PROVE  /\ Merged(base, patch) \in Data /\ Merged(base, patch).phase = patch.phase
         /\ patch # Absent => Merged(base, patch) # Absent
         /\ base.rating = 0 /\ patch.rating = 0 => Merged(base, patch) = patch
<1> DEFINE rating == IF patch.rating = 0 THEN base.rating ELSE patch.rating
<1>1. rating \in Nat /\ (patch.rating # 0 => rating = patch.rating)
  BY DEF Data
<1>2. Merged(base, patch) = [phase |-> patch.phase, reminders |-> patch.reminders, rating |-> rating]
  BY DEF Merged, Data
<1>3. patch = [phase |-> patch.phase, reminders |-> patch.reminders, rating |-> patch.rating]
  BY DEF Data
<1> HIDE DEF rating
<1>4. Merged(base, patch) \in Data /\ Merged(base, patch).phase = patch.phase
  BY <1>1, <1>2 DEF Data
<1>5. patch # Absent => Merged(base, patch) # Absent
  <2> SUFFICES ASSUME Merged(base, patch) = Absent PROVE patch = Absent
    OBVIOUS
  <2>1. patch.phase = 0 /\ patch.reminders = {} /\ rating = 0
    BY <1>2 DEF Absent
  <2>2. patch.rating = 0
    BY <1>1, <2>1
  <2> QED BY <1>3, <2>1, <2>2 DEF Absent
<1>6. base.rating = 0 /\ patch.rating = 0 => Merged(base, patch) = patch
  BY <1>2, <1>3 DEF rating
<1> QED BY <1>4, <1>5, <1>6

\* What a step leaves of one loop and changes of another.
LEMMA LoopSet ==
  ASSUME loop \in [Loops -> Loop], NEW l \in Loops, NEW row \in Loop, loop' = [loop EXCEPT ![l] = row]
  PROVE  /\ loop' \in [Loops -> Loop] /\ loop'[l] = row
         /\ \A k \in Loops \ {l} : loop'[k] = loop[k]
OBVIOUS

LEMMA InitHolds == ArchiveInit => ArchiveInv
<1> SUFFICES ASSUME ArchiveInit PROVE ArchiveInv
  OBVIOUS
<1> USE AbsentIsData
<1>1. ArchiveTypes
  <2>1. page \in Page /\ loop \in [Loops -> Loop]
    BY DEF ArchiveInit, Page, Table, NoLoop, Loop
  <2> QED BY <2>1 DEF ArchiveInit, ArchiveTypes, Table, NoCall, NoRemoval
<1>2. PhaseInv
  BY DEF ArchiveInit, PhaseInv, NoCall, NoLoop
<1>3. KeptInv
  BY DEF ArchiveInit, KeptInv, InTable, Sound, Waiting, NoLoop
<1>4. QuietInv
  BY DEF ArchiveInit, QuietInv, Plain, Loaded, Own, Fresh, PlainBase, Answers, NoLoop
<1> QED BY <1>1, <1>2, <1>3, <1>4 DEF ArchiveInv

\* The steps of the agent and of other clients leave the page alone. Of a record
\* whose row they change they tell the agent, or something is amiss.
LEMMA OthersKeepQuiet ==
  ASSUME ArchiveInv, UNCHANGED <<page, loop, removal, touched, overtook>>,
         mishaps' = 0 => mishaps = 0,
         Undisturbed => /\ \A i \in Records : copy'[i] = Absent
                        /\ \A i \in Records : \/ table'[i] = table[i] /\ assured'[i] = assured[i]
                                              \/ assured'[i] # Absent
  PROVE  QuietInv'
<1> SUFFICES ASSUME Undisturbed' PROVE QuietInv'
  BY DEF QuietInv
<1>1. Undisturbed
  BY DEF Undisturbed
<1>2. \A i \in Records : assured'[i] = Absent => table'[i] = table[i] /\ assured[i] = Absent
  BY <1>1
<1>3. \A i \in Records : copy'[i] = Absent
  BY <1>1
<1>4. ASSUME NEW i \in Records PROVE Plain(i)' /\ Loaded(i)' /\ (Own(i)' => Saved(i)')
  <2>1. Plain(i) /\ Loaded(i) /\ (Own(i) => Saved(i))
    BY <1>1 DEF ArchiveInv, QuietInv
  <2>2. Plain(i)' /\ Loaded(i)'
    BY <1>2, <2>1 DEF Plain, Loaded
  <2>3. ASSUME Own(i)' PROVE Saved(i)'
    BY <1>2, <2>1, <2>3 DEF Own, Saved, Clean, InTable, OnItsWay, Waiting
  <2> QED BY <2>2, <2>3
<1>5. ASSUME NEW l \in Loops PROVE Fresh(l)' /\ PlainBase(l)' /\ Answers(l)'
  <2> DEFINE i == loop[l].id
  <2>1. Fresh(l) /\ PlainBase(l) /\ Answers(l)
    BY <1>1 DEF ArchiveInv, QuietInv
  <2>2. loop[l].request # "none" => i \in Records
    BY DEF ArchiveInv, ArchiveTypes, KeptInv, Sound, Waiting
  <2>3. Fresh(l)' /\ PlainBase(l)'
    BY <1>2, <2>1, <2>2 DEF Fresh, PlainBase
  <2>4. ASSUME Own(i)' PROVE Own(i) /\ i \in Records /\ table'[i] = table[i]
    BY <1>2, <2>4 DEF Own, ArchiveInv, ArchiveTypes, Page
  <2>5. Answers(l)'
    BY <2>1, <2>4 DEF Answers, Clean, InTable
  <2> QED BY <2>3, <2>5
<1> QED BY <1>3, <1>4, <1>5 DEF QuietInv

LEMMA PhasesAge ==
  ASSUME ArchiveInv, writes' = writes + 1
  PROVE  /\ \A i \in Records : /\ table[i].phase <= writes' /\ copy[i].phase <= writes'
                               /\ page.data[i].phase <= writes' /\ page.snapshot[i].phase <= writes'
         /\ toolCall.data.phase <= writes'
         /\ \A l \in Loops : loop[l].data.phase <= writes'
<1>1. writes \in Nat
  BY DEF ArchiveInv, ArchiveTypes
<1>2. \A n \in Nat : n <= writes => n <= writes'
  BY <1>1
<1>3. \A d \in Data : d.phase \in Nat
  BY DEF Data
<1>4. ASSUME NEW i \in Records
      PROVE  table[i] \in Data /\ copy[i] \in Data /\ page.data[i] \in Data /\ page.snapshot[i] \in Data
  BY DEF ArchiveInv, ArchiveTypes, Page, Table
<1>5. ASSUME NEW l \in Loops PROVE loop[l].data \in Data
  BY DEF ArchiveInv, ArchiveTypes, Loop
<1>6. toolCall.data \in Data
  BY AbsentIsData DEF ArchiveInv, ArchiveTypes, NoCall
<1> QED BY <1>2, <1>3, <1>4, <1>5, <1>6 DEF ArchiveInv, PhaseInv

\* Rows, as the agent and other clients leave them.
LEMMA SavesNewKeeps == ASSUME ArchiveInv, NEW i \in Records, SavesNew(i) PROVE ArchiveInv'
<1> USE AbsentIsData
<1> DEFINE d == [Absent EXCEPT !.phase = writes']
<1>1. FreshWrite /\ Puts(i, d) /\ assured' = [assured EXCEPT ![i] = table'[i]]
      /\ UNCHANGED <<toolCall, page, loop, removal, copy, touched, overtook, mishaps>>
  BY DEF SavesNew
<1>2. writes \in Nat /\ writes' = writes + 1 /\ d \in Data /\ d.phase = writes' /\ d # Absent
  BY <1>1, NewPhase DEF FreshWrite, ArchiveInv, ArchiveTypes
<1> HIDE DEF d
<1>3. table' = [table EXCEPT ![i] = d] /\ filed' = filed \union {i} /\ table \in Table /\ assured \in Table
  BY <1>1 DEF Puts, ArchiveInv, ArchiveTypes
<1>4. /\ table'[i] = d /\ assured'[i] = d /\ table' \in Table /\ assured' \in Table
      /\ \A j \in Records \ {i} : table'[j] = table[j] /\ assured'[j] = assured[j]
  BY <1>1, <1>2, <1>3 DEF Table
<1>5. ArchiveTypes'
  BY <1>1, <1>2, <1>3, <1>4 DEF ArchiveInv, ArchiveTypes
<1>6. PhaseInv'
  BY <1>1, <1>2, <1>4, PhasesAge DEF ArchiveInv, PhaseInv
<1>7. KeptInv'
  BY <1>1, <1>2, <1>3, <1>4 DEF ArchiveInv, KeptInv, InTable, Sound, Waiting
<1>8. QuietInv'
  <2>1. \A j \in Records : copy[j] = Absent \/ ~Undisturbed
    BY DEF ArchiveInv, QuietInv
  <2> QED BY <1>1, <1>2, <1>4, <2>1, OthersKeepQuiet DEF Undisturbed
<1> QED BY <1>5, <1>6, <1>7, <1>8 DEF ArchiveInv

LEMMA ToolLoadsKeeps == ASSUME ArchiveInv, NEW i \in Records, ToolLoads(i) PROVE ArchiveInv'
<1>1. toolCall' = [id |-> i, data |-> table[i]]
      /\ UNCHANGED <<table, page, loop, removal, copy, assured, filed, touched, overtook, writes, mishaps>>
  BY DEF ToolLoads, history
<1>2. ArchiveTypes'
  BY <1>1 DEF ArchiveInv, ArchiveTypes, Table
<1>3. PhaseInv'
  BY <1>1 DEF ArchiveInv, PhaseInv
<1>4. KeptInv'
  BY <1>1 DEF ArchiveInv, KeptInv, InTable, Sound, Waiting
<1>5. QuietInv'
  <2>1. \A j \in Records : copy[j] = Absent \/ ~Undisturbed
    BY DEF ArchiveInv, QuietInv
  <2> QED BY <1>1, <2>1, OthersKeepQuiet
<1> QED BY <1>2, <1>3, <1>4, <1>5 DEF ArchiveInv

LEMMA ToolCommitsKeeps == ASSUME ArchiveInv, ToolCommits PROVE ArchiveInv'
<1> USE AbsentIsData
<1> DEFINE i == toolCall.id
<1>1. toolCall' = NoCall /\ UNCHANGED <<page, loop, removal, copy, touched, overtook>>
  BY DEF ToolCommits
<1>2. toolCall' = NoCall /\ toolCall'.data.phase = 0
  BY <1>1 DEF NoCall
<1>3. \A j \in Records : copy[j] = Absent \/ ~Undisturbed
  BY DEF ArchiveInv, QuietInv
<1>4. CASE UNCHANGED <<table, assured, filed, writes>> /\ mishaps' \in {mishaps, mishaps + 1}
  <2>1. ArchiveTypes'
    BY <1>1, <1>2, <1>4 DEF ArchiveInv, ArchiveTypes
  <2>2. PhaseInv'
    BY <1>1, <1>2, <1>4 DEF ArchiveInv, PhaseInv, ArchiveTypes
  <2>3. KeptInv'
    BY <1>1, <1>4 DEF ArchiveInv, KeptInv, InTable, Sound, Waiting
  <2>4. QuietInv'
    BY <1>1, <1>3, <1>4, OthersKeepQuiet DEF ArchiveInv, ArchiveTypes
  <2> QED BY <2>1, <2>2, <2>3, <2>4 DEF ArchiveInv
<1>5. ASSUME InTable(i), FreshWrite, NEW d \in Changed(toolCall.data), Puts(i, d),
             assured' = [assured EXCEPT ![i] = table'[i]], mishaps' = mishaps, i \in Records, toolCall.data \in Data
      PROVE  ArchiveInv'
  <2>1. writes \in Nat /\ writes' = writes + 1 /\ d \in Data /\ d.phase <= writes' /\ d # Absent
    BY <1>5, ChangedIsData DEF FreshWrite, ArchiveInv, ArchiveTypes, PhaseInv
  <2>2. table' = [table EXCEPT ![i] = d] /\ filed' = filed \union {i} /\ table \in Table /\ assured \in Table
    BY <1>5 DEF Puts, ArchiveInv, ArchiveTypes
  <2>3. /\ table'[i] = d /\ assured'[i] = d /\ table' \in Table /\ assured' \in Table
        /\ \A j \in Records \ {i} : table'[j] = table[j] /\ assured'[j] = assured[j]
    BY <1>5, <2>1, <2>2 DEF Table
  <2>4. ArchiveTypes'
    BY <1>1, <1>2, <1>5, <2>1, <2>2, <2>3 DEF ArchiveInv, ArchiveTypes
  <2>5. PhaseInv'
    BY <1>1, <1>2, <1>5, <2>1, <2>3, PhasesAge DEF ArchiveInv, PhaseInv
  <2>6. KeptInv'
    BY <1>1, <1>5, <2>1, <2>2, <2>3 DEF ArchiveInv, KeptInv, InTable, Sound, Waiting
  <2>7. QuietInv'
    BY <1>1, <1>3, <1>5, <2>1, <2>3, OthersKeepQuiet
  <2> QED BY <2>4, <2>5, <2>6, <2>7 DEF ArchiveInv
<1>6. i \in Records /\ toolCall.data \in Data
  BY DEF ToolCommits, ArchiveInv, ArchiveTypes
<1> QED BY <1>4, <1>5, <1>6 DEF ToolCommits, Mishap

LEMMA CopyLoadsKeeps == ASSUME ArchiveInv, CopyLoads PROVE ArchiveInv'
<1>1. copy' = table /\ mishaps' = mishaps + 1
      /\ UNCHANGED <<table, toolCall, page, loop, removal, assured, filed, touched, overtook, writes>>
  BY DEF CopyLoads, Mishap, history
<1>2. ArchiveTypes' /\ mishaps' # 0
  BY <1>1 DEF ArchiveInv, ArchiveTypes
<1>3. PhaseInv'
  BY <1>1 DEF ArchiveInv, PhaseInv
<1>4. KeptInv'
  BY <1>1 DEF ArchiveInv, KeptInv, InTable, Sound, Waiting
<1> QED BY <1>2, <1>3, <1>4 DEF ArchiveInv, QuietInv, Undisturbed

LEMMA SyncsCopyKeeps == ASSUME ArchiveInv, SyncsCopy PROVE ArchiveInv'
<1> USE AbsentIsData
<1> DEFINE sent == {i \in Records : copy[i] # Absent}
<1>1. /\ sent # {} /\ table' = Batch /\ filed' = filed \union sent /\ touched' = touched \union sent
      /\ copy' = [i \in Records |-> Absent]
      /\ UNCHANGED <<toolCall, page, loop, removal, assured, overtook, writes, mishaps>>
  BY DEF SyncsCopy
<1>2. \A i \in Records : table'[i] = IF i \in sent THEN copy[i] ELSE table[i]
  BY <1>1 DEF Batch
<1>3. table' \in Table /\ copy' \in Table
  BY <1>1 DEF ArchiveInv, ArchiveTypes, Table, Batch
<1>4. ArchiveTypes'
  BY <1>1, <1>3 DEF ArchiveInv, ArchiveTypes
<1>5. PhaseInv'
  BY <1>1, <1>2 DEF ArchiveInv, PhaseInv, ArchiveTypes
<1>6. KeptInv'
  BY <1>1, <1>2 DEF ArchiveInv, ArchiveTypes, KeptInv, InTable, Sound, Waiting
<1>7. QuietInv'
  BY <1>1 DEF ArchiveInv, QuietInv, Undisturbed
<1> QED BY <1>4, <1>5, <1>6, <1>7 DEF ArchiveInv

LEMMA ResetsKeeps == ASSUME ArchiveInv, Resets PROVE ArchiveInv'
<1> USE AbsentIsData
<1>1. /\ table' = [i \in Records |-> Absent] /\ filed' = {} /\ mishaps' = mishaps + 1
      /\ UNCHANGED <<toolCall, page, loop, removal, copy, assured, touched, overtook, writes>>
  BY DEF Resets, Mishap
<1>2. ArchiveTypes' /\ mishaps' # 0
  BY <1>1 DEF ArchiveInv, ArchiveTypes, Table
<1>3. PhaseInv'
  BY <1>1 DEF ArchiveInv, PhaseInv, ArchiveTypes
<1>4. KeptInv'
  BY <1>1 DEF ArchiveInv, KeptInv, InTable, Sound, Waiting
<1> QED BY <1>2, <1>3, <1>4 DEF ArchiveInv, QuietInv, Undisturbed

\* The page.
LEMMA OpensKeeps == ASSUME ArchiveInv, Opens PROVE ArchiveInv'
<1> USE AbsentIsData
<1> DEFINE empty == [i \in Records |-> Absent]
<1>1. PICK got \in {table, empty} :
        /\ IF got = table THEN UNCHANGED mishaps ELSE Mishap
        /\ page' = [open |-> TRUE, records |-> {i \in Records : got[i] # Absent}, data |-> got,
                    snapshot |-> got, timer |-> TRUE]
  BY DEF Opens
<1>2. ~page.open /\ UNCHANGED <<table, toolCall, loop, removal, copy, assured, filed, touched, overtook, writes>>
  BY DEF Opens, history
<1>3. got \in Table
  BY <1>1 DEF ArchiveInv, ArchiveTypes, Table
<1>4. /\ page' \in Page /\ page'.open /\ page'.timer /\ page'.data = got /\ page'.snapshot = got
      /\ \A i \in page'.records : i \in Records /\ got[i] # Absent
  BY <1>1, <1>3 DEF Page
<1>5. mishaps' \in Nat /\ (mishaps' = 0 => got = table /\ mishaps = 0)
  BY <1>1 DEF Mishap, ArchiveInv, ArchiveTypes
<1>6. \A l \in Loops : ~Waiting(l)
  BY <1>2 DEF ArchiveInv, KeptInv, Sound
<1>7. ArchiveTypes'
  BY <1>2, <1>4, <1>5 DEF ArchiveInv, ArchiveTypes
<1>8. \A i \in Records : got[i].phase <= writes
  BY <1>1 DEF ArchiveInv, ArchiveTypes, PhaseInv
<1>9. PhaseInv'
  BY <1>2, <1>4, <1>8 DEF ArchiveInv, PhaseInv
<1>10. KeptInv'
  BY <1>2, <1>4, <1>6 DEF ArchiveInv, KeptInv, InTable, Sound, Waiting
<1>11. QuietInv'
  <2> SUFFICES ASSUME Undisturbed' PROVE QuietInv'
    BY DEF QuietInv
  <2>1. Undisturbed /\ got = table
    BY <1>2, <1>5 DEF Undisturbed
  <2>2. ASSUME NEW i \in Records PROVE copy'[i] = Absent /\ Plain(i)' /\ Loaded(i)' /\ Saved(i)'
    <3>1. copy'[i] = Absent /\ Plain(i)
      BY <1>2, <2>1 DEF ArchiveInv, QuietInv
    <3>2. Plain(i)'
      BY <1>2, <1>4, <2>1, <3>1 DEF Plain
    <3>3. table[i] # Absent /\ assured[i] = Absent => i \in touched
      BY DEF ArchiveInv, KeptInv, InTable
    <3>4. Loaded(i)'
      BY <1>2, <1>4, <2>1, <3>3 DEF Loaded
    <3>5. Saved(i)'
      BY <1>2, <1>4, <2>1 DEF Saved, Clean, InTable
    <3> QED BY <3>1, <3>2, <3>4, <3>5
  <2>3. ASSUME NEW l \in Loops PROVE Fresh(l)' /\ PlainBase(l)' /\ Answers(l)'
    BY <1>2, <1>6 DEF Fresh, PlainBase, Answers, Waiting
  <2> QED BY <2>2, <2>3 DEF QuietInv
<1> QED BY <1>7, <1>9, <1>10, <1>11 DEF ArchiveInv

\* A change on the screen is dirty, sets the timer, and is of a record that no
\* request is under way for, or overtakes it.
LEMMA ShowsKeeps ==
  ASSUME ArchiveInv, NEW i \in Records, NEW d \in Data, NEW records \in SUBSET Records, Shows(i, d, records),
         d.phase = writes', d # Absent, \A e \in Data : e.phase <= writes => d # e,
         records = page.records \union {i}, Undisturbed /\ assured[i] = Absent => d.rating = 0,
         i \notin page.records /\ assured[i] = Absent => ~InTable(i) /\ i \notin touched
  PROVE  ArchiveInv'
<1> USE AbsentIsData
<1>1. /\ page.open /\ FreshWrite /\ touched' = touched \union {i}
      /\ overtook' = (overtook \/ \E l \in Loops : Waiting(l) /\ loop[l].id = i)
      /\ UNCHANGED <<table, toolCall, loop, removal, copy, assured, filed, mishaps>>
  BY DEF Shows
<1>2. writes' = writes + 1 /\ writes \in Nat
  BY <1>1 DEF FreshWrite, ArchiveInv, ArchiveTypes
<1>3. /\ page' = [page EXCEPT !.data[i] = d, !.records = records, !.timer = TRUE] /\ page \in Page
  BY DEF Shows, ArchiveInv, ArchiveTypes
<1>4. /\ page' \in Page /\ page'.open = page.open /\ page'.timer /\ page'.snapshot = page.snapshot
      /\ page'.records = records /\ page'.data = [page.data EXCEPT ![i] = d]
  BY <1>3 DEF Page, Table
<1>5. page'.data[i] = d /\ \A j \in Records \ {i} : page'.data[j] = page.data[j]
  BY <1>3, <1>4 DEF Page, Table
<1>6. page.snapshot[i] \in Data /\ page.snapshot[i].phase <= writes
  BY <1>3 DEF Page, Table, ArchiveInv, PhaseInv
<1>7. ArchiveTypes'
  BY <1>1, <1>2, <1>4 DEF ArchiveInv, ArchiveTypes
<1>8. PhaseInv'
  BY <1>1, <1>2, <1>4, <1>5, PhasesAge DEF ArchiveInv, PhaseInv
<1>9. KeptInv'
  <2>1. filed' = {j \in Records : InTable(j)}' /\ \A j \in filed' \ touched' : table'[j] = assured'[j]
    BY <1>1 DEF ArchiveInv, KeptInv, InTable
  <2>2. \A j \in page'.records : page'.data[j] # Absent /\ (page'.data[j] # page'.snapshot[j] => j \in touched')
    BY <1>1, <1>4, <1>5 DEF ArchiveInv, KeptInv
  <2>3. ASSUME NEW l \in Loops PROVE Sound(l)'
    <3>1. Sound(l) /\ loop[l].todo \subseteq Records
      BY DEF ArchiveInv, KeptInv, ArchiveTypes, Loop
    <3> QED BY <1>1, <1>4, <1>5, <3>1 DEF Sound, Waiting
  <2> QED BY <1>1, <1>4, <2>1, <2>2, <2>3 DEF KeptInv
<1>10. QuietInv'
  <2> SUFFICES ASSUME Undisturbed' PROVE QuietInv'
    BY DEF QuietInv
  <2>1. Undisturbed /\ \A l \in Loops : Waiting(l) => loop[l].id # i
    BY <1>1 DEF Undisturbed
  <2>2. ~Clean(i)'
    BY <1>4, <1>5, <1>6 DEF Clean
  <2>3. ASSUME NEW j \in Records PROVE copy'[j] = Absent /\ Plain(j)' /\ Loaded(j)' /\ (Own(j)' => Saved(j)')
    <3>1. copy[j] = Absent /\ Plain(j) /\ Loaded(j) /\ (Own(j) => Saved(j))
      BY <2>1 DEF ArchiveInv, QuietInv
    <3>2. Plain(j)' /\ Loaded(j)'
      BY <1>1, <1>4, <1>5, <2>1, <3>1 DEF Plain, Loaded
    <3>3. ASSUME j # i, Own(j)' PROVE Saved(j)'
      BY <1>1, <1>4, <1>5, <3>1, <3>3 DEF Own, Saved, Clean, InTable
    <3>4. ASSUME j = i, Own(j)' PROVE Saved(j)'
      <4>1. page.snapshot[i] # Absent => InTable(i)
        BY <1>1, <3>1, <3>4 DEF Own, Saved, Loaded
      <4> QED BY <1>1, <1>4, <2>2, <3>4, <4>1 DEF Saved, InTable
    <3> QED BY <1>1, <3>1, <3>2, <3>3, <3>4
  <2>4. ASSUME NEW l \in Loops PROVE Fresh(l)' /\ PlainBase(l)' /\ Answers(l)'
    <3>1. Fresh(l) /\ PlainBase(l) /\ Answers(l) /\ (Waiting(l) => loop[l].id # i /\ loop[l].id \in Records)
      BY <2>1 DEF ArchiveInv, QuietInv, KeptInv, Sound, ArchiveTypes
    <3>2. CASE ~Waiting(l)
      BY <1>1, <3>2 DEF Fresh, PlainBase, Answers, Waiting
    <3>3. CASE Waiting(l)
      <4>1. page'.data[loop[l].id] = page.data[loop[l].id] /\ (Own(loop[l].id)' => Own(loop[l].id))
        BY <1>1, <1>4, <1>5, <3>1, <3>3 DEF Own
      <4> QED BY <1>1, <1>4, <3>1, <4>1 DEF Fresh, PlainBase, Answers, Clean, InTable
    <3> QED BY <3>2, <3>3
  <2> QED BY <2>3, <2>4 DEF QuietInv
<1> QED BY <1>7, <1>8, <1>9, <1>10 DEF ArchiveInv

LEMMA PageEditsKeeps == ASSUME ArchiveInv, NEW i \in Records, PageEdits(i) PROVE ArchiveInv'
<1> DEFINE d == [page.data[i] EXCEPT !.phase = writes']
<1>1. i \in page.records /\ Shows(i, d, page.records)
  BY DEF PageEdits, Listed
<1>2. page.data[i] \in Data /\ writes \in Nat /\ page.records \subseteq Records
  BY DEF ArchiveInv, ArchiveTypes, Page, Table
<1>3. FreshWrite
  BY <1>1 DEF Shows
<1>4. /\ d \in Data /\ d.phase = writes' /\ d.rating = page.data[i].rating /\ d # Absent
      /\ \A e \in Data : e.phase <= writes => d # e
  BY <1>2, <1>3, NewPhase
<1>5. Undisturbed /\ assured[i] = Absent => d.rating = 0
  BY <1>4 DEF ArchiveInv, QuietInv, Plain
<1> HIDE DEF d
<1> QED BY <1>1, <1>2, <1>4, <1>5, ShowsKeeps

LEMMA NotesIdeaKeeps == ASSUME ArchiveInv, NEW i \in Records, NotesIdea(i) PROVE ArchiveInv'
<1> DEFINE d == [Absent EXCEPT !.phase = writes']
<1>1. i \notin filed \union touched /\ ~InTable(i) /\ Shows(i, d, page.records \union {i})
  BY DEF NotesIdea
<1>2. writes \in Nat /\ page.records \union {i} \subseteq Records
  BY DEF ArchiveInv, ArchiveTypes, Page, Table
<1>3. FreshWrite
  BY <1>1 DEF Shows
<1>4. /\ d \in Data /\ d.phase = writes' /\ d.rating = 0 /\ d # Absent
      /\ \A e \in Data : e.phase <= writes => d # e
  BY <1>2, <1>3, NewPhase, AbsentIsData
<1> HIDE DEF d
<1> QED BY <1>1, <1>2, <1>4, ShowsKeeps

\* The request that a loop sends, and what that leaves of the others.
LEMMA SendsRow ==
  ASSUME ArchiveInv, page' \in Page, NEW l \in Loops, NEW i \in Records, NEW todo \in SUBSET Records, SendsRecord(l, i, todo)
  PROVE  /\ loop' \in [Loops -> Loop] /\ \A k \in Loops \ {l} : loop'[k] = loop[k]
         /\ loop'[l].todo = todo \ {i} /\ loop'[l].id = i /\ loop'[l].request = "sent"
         /\ loop'[l].data = page.data[i] /\ loop'[l].base = Absent
         /\ loop'[l].kind = "saveOne" => page'.snapshot[i] # Absent
<1> USE AbsentIsData
<1> DEFINE row == [todo |-> todo \ {i}, id |-> i, request |-> "sent", data |-> page.data[i], base |-> Absent,
                   kind |-> IF page'.snapshot[i] = Absent THEN "createOne" ELSE "saveOne"]
<1>1. page.data[i] \in Data /\ loop \in [Loops -> Loop]
  BY DEF ArchiveInv, ArchiveTypes, Page, Table
<1>2. row \in Loop
  BY <1>1 DEF Loop
<1>3. /\ row.todo = todo \ {i} /\ row.id = i /\ row.request = "sent"
      /\ row.data = page.data[i] /\ row.base = Absent
      /\ row.kind = "saveOne" => page'.snapshot[i] # Absent
  OBVIOUS
<1>4. loop' = [loop EXCEPT ![l] = row]
  BY DEF SendsRecord
<1> HIDE DEF row
<1> QED BY <1>1, <1>2, <1>3, <1>4, LoopSet

LEMMA OtherLoops ==
  ASSUME ArchiveInv, Undisturbed, NEW l \in Loops, UNCHANGED <<table, assured, removal>>,
         page'.records = page.records, page'.data = page.data,
         \A j \in Records : page'.snapshot[j] \in {page.snapshot[j], page.data[j]},
         \A k \in Loops \ {l} : loop'[k] = loop[k],
         loop[l].request = "ok" => page'.snapshot[loop[l].id] = page.data[loop[l].id],
         NEW k \in Loops \ {l}
  PROVE  Fresh(k)' /\ PlainBase(k)' /\ Answers(k)'
<1>1. Fresh(k) /\ PlainBase(k) /\ Answers(k)
  BY DEF ArchiveInv, QuietInv
<1>2. Fresh(k)' /\ PlainBase(k)'
  BY <1>1 DEF Fresh, PlainBase
<1>3. Answers(k)'
  <2> DEFINE i == loop[k].id
  <2> SUFFICES ASSUME Own(i)' PROVE
        /\ loop[k].request = "ok" => table[i] = page.data[i]
        /\ loop[k].request \in {"sent", "selected"} /\ loop[k].kind = "saveOne" => InTable(i)
        /\ loop[k].request = "selected" /\ loop[k].base # Absent => InTable(i)
        /\ loop[k].request = "selected" /\ loop[k].base = Absent /\ InTable(i) =>
             Clean(i)' \/ \E n \in Loops : loop'[n].id = i /\ loop'[n].request = "ok"
    BY DEF Answers, InTable
  <2>1. Own(i) /\ i \in Records
    BY DEF Own, ArchiveInv, ArchiveTypes, Page
  <2>2. Clean(i) => Clean(i)'
    BY <2>1 DEF Clean
  <2>3. ASSUME NEW n \in Loops, loop[n].id = i, loop[n].request = "ok"
        PROVE  Clean(i)' \/ \E m \in Loops : loop'[m].id = i /\ loop'[m].request = "ok"
    BY <2>3 DEF Clean
  <2> QED BY <1>1, <2>1, <2>2, <2>3 DEF Answers
<1> QED BY <1>2, <1>3

LEMMA TimerFiresKeeps == ASSUME ArchiveInv, TimerFires PROVE ArchiveInv'
<1>1. page' = [page EXCEPT !.timer = FALSE] /\ page \in Page
      /\ UNCHANGED <<table, toolCall, removal, copy, assured, filed, touched, overtook, writes, mishaps>>
  BY DEF TimerFires, history, ArchiveInv, ArchiveTypes
<1>2. /\ page' \in Page /\ page'.open = page.open /\ page'.records = page.records /\ page'.data = page.data
      /\ page'.snapshot = page.snapshot
  BY <1>1 DEF Page
<1>3. CASE Dirty = {}
  <2>1. loop' = loop
    BY <1>3 DEF TimerFires
  <2>2. ArchiveTypes' /\ PhaseInv'
    BY <1>1, <1>2, <2>1 DEF ArchiveInv, ArchiveTypes, PhaseInv
  <2>3. KeptInv'
    BY <1>1, <1>2, <2>1 DEF ArchiveInv, KeptInv, InTable, Sound, Waiting
  <2>4. QuietInv'
    <3> SUFFICES ASSUME Undisturbed' PROVE QuietInv'
      BY DEF QuietInv
    <3>1. Undisturbed
      BY <1>1 DEF Undisturbed
    <3>2. ASSUME NEW i \in Records PROVE copy'[i] = Absent /\ Plain(i)' /\ Loaded(i)' /\ (Own(i)' => Saved(i)')
      <4>1. copy[i] = Absent /\ Plain(i) /\ Loaded(i) /\ (Own(i) => Saved(i))
        BY <3>1 DEF ArchiveInv, QuietInv
      <4>2. ASSUME Own(i)' PROVE Saved(i)'
        <5>1. Own(i) /\ Clean(i)
          BY <1>1, <1>2, <1>3, <4>2 DEF Own, Clean, Dirty
        <5> QED BY <1>1, <1>2, <4>1, <5>1 DEF Saved, Clean, InTable
      <4> QED BY <1>1, <1>2, <4>1, <4>2 DEF Plain, Loaded
    <3>3. ASSUME NEW l \in Loops PROVE Fresh(l)' /\ PlainBase(l)' /\ Answers(l)'
      <4>1. Fresh(l) /\ PlainBase(l) /\ Answers(l)
        BY <3>1 DEF ArchiveInv, QuietInv
      <4> QED BY <1>1, <1>2, <2>1, <4>1 DEF Fresh, PlainBase, Answers, Own, Clean, InTable
    <3> QED BY <3>2, <3>3 DEF QuietInv
  <2> QED BY <2>2, <2>3, <2>4 DEF ArchiveInv
<1>4. ASSUME NEW l \in Loops, NEW i \in Dirty, ~Waiting(l), SendsRecord(l, i, Dirty) PROVE ArchiveInv'
  <2>1. Dirty \subseteq page.records /\ Dirty \subseteq Records /\ i \in Records /\ Dirty \subseteq touched
    BY <1>1 DEF Dirty, Page, ArchiveInv, KeptInv
  <2>2. /\ loop' \in [Loops -> Loop] /\ \A k \in Loops \ {l} : loop'[k] = loop[k]
        /\ loop'[l].todo = Dirty \ {i} /\ loop'[l].id = i /\ loop'[l].request = "sent"
        /\ loop'[l].data = page.data[i] /\ loop'[l].base = Absent
        /\ loop'[l].kind = "saveOne" => page.snapshot[i] # Absent
    BY <1>2, <1>4, <2>1, SendsRow
  <2>3. ArchiveTypes'
    BY <1>1, <1>2, <2>2 DEF ArchiveInv, ArchiveTypes
  <2>4. PhaseInv'
    <3>1. \A k \in Loops : loop'[k].data.phase <= writes
      BY <2>1, <2>2 DEF ArchiveInv, PhaseInv
    <3> QED BY <1>1, <1>2, <3>1 DEF ArchiveInv, PhaseInv
  <2>5. KeptInv'
    <3>1. page.open
      BY <2>1 DEF ArchiveInv, KeptInv
    <3>2. Sound(l)'
      BY <1>1, <1>2, <2>1, <2>2, <3>1 DEF Sound, Waiting, ArchiveInv, KeptInv
    <3>3. \A k \in Loops \ {l} : Sound(k)'
      BY <1>1, <1>2, <2>2 DEF Sound, Waiting, ArchiveInv, KeptInv
    <3> QED BY <1>1, <1>2, <3>2, <3>3 DEF ArchiveInv, KeptInv, InTable
  <2>6. QuietInv'
    <3> SUFFICES ASSUME Undisturbed' PROVE QuietInv'
      BY DEF QuietInv
    <3>1. Undisturbed
      BY <1>1 DEF Undisturbed
    <3>2. ASSUME NEW j \in Records PROVE copy'[j] = Absent /\ Plain(j)' /\ Loaded(j)' /\ (Own(j)' => Saved(j)')
      <4>1. copy[j] = Absent /\ Plain(j) /\ Loaded(j) /\ (Own(j) => Saved(j))
        BY <3>1 DEF ArchiveInv, QuietInv
      <4>2. ASSUME Own(j)' PROVE Saved(j)'
        <5>1. Own(j) /\ (Clean(j) \/ j \in Dirty)
          BY <1>1, <1>2, <4>2 DEF Own, Clean, Dirty
        <5>2. j \in Dirty => OnItsWay(l, j)'
          BY <2>2 DEF OnItsWay, Waiting
        <5> QED BY <1>1, <1>2, <4>1, <5>1, <5>2 DEF Saved, Clean, InTable
      <4> QED BY <1>1, <1>2, <4>1, <4>2 DEF Plain, Loaded
    <3>3. ASSUME NEW k \in Loops \ {l} PROVE Fresh(k)' /\ PlainBase(k)' /\ Answers(k)'
      BY <1>1, <1>2, <1>4, <2>2, <3>1, OtherLoops DEF Waiting
    <3>4. Fresh(l)' /\ PlainBase(l)' /\ Answers(l)'
      <4>1. Own(i)' /\ page.snapshot[i] # Absent => InTable(i)
        BY <1>1, <1>2, <2>1, <3>1 DEF ArchiveInv, QuietInv, Own, Saved
      <4> QED BY <1>1, <1>2, <2>2, <4>1 DEF Fresh, PlainBase, Answers, InTable
    <3> QED BY <3>2, <3>3, <3>4 DEF QuietInv
  <2> QED BY <2>3, <2>4, <2>5, <2>6 DEF ArchiveInv
<1> QED BY <1>3, <1>4 DEF TimerFires

LEMMA SelectsKeeps == ASSUME ArchiveInv, NEW l \in Loops, Selects(l) PROVE ArchiveInv'
<1> USE AbsentIsData
<1> DEFINE i == loop[l].id
           selected == [loop[l] EXCEPT !.request = "selected", !.base = table[i]]
           failed == LoopOver(l, "failed")
<1>1. loop[l].request = "sent"
      /\ UNCHANGED <<table, toolCall, page, removal, copy, assured, filed, touched, overtook, writes>>
  BY DEF Selects, history
<1>2. loop[l] \in Loop /\ loop \in [Loops -> Loop] /\ i \in Records /\ table[i] \in Data /\ Sound(l) /\ Waiting(l)
  BY <1>1 DEF ArchiveInv, ArchiveTypes, KeptInv, Sound, Waiting, Table
<1>3. /\ selected \in Loop /\ selected.request = "selected" /\ selected.base = table[i]
      /\ selected.data = loop[l].data /\ selected.id = i /\ selected.todo = loop[l].todo /\ selected.kind = loop[l].kind
  BY <1>2 DEF Loop
<1>4. /\ failed \in Loop /\ failed.request = "failed" /\ failed.data = Absent /\ failed.id = i /\ failed.todo = loop[l].todo
  BY <1>2 DEF Loop, LoopOver
<1> HIDE DEF selected, failed
<1>5. \/ loop' = [loop EXCEPT ![l] = selected] /\ mishaps' = mishaps
      \/ loop' = [loop EXCEPT ![l] = failed] /\ mishaps' = mishaps + 1
  BY DEF Selects, Mishap, selected, failed
<1>6. loop' \in [Loops -> Loop] /\ \A k \in Loops \ {l} : loop'[k] = loop[k]
  BY <1>2, <1>3, <1>4, <1>5
<1>7. \/ loop'[l] = selected /\ mishaps' = mishaps
      \/ loop'[l] = failed /\ mishaps' = mishaps + 1
  BY <1>2, <1>3, <1>4, <1>5
<1>8. ArchiveTypes'
  BY <1>1, <1>6, <1>7 DEF ArchiveInv, ArchiveTypes
<1>9. PhaseInv'
  <2>1. \A k \in Loops : loop'[k].data.phase <= writes
    BY <1>3, <1>4, <1>6, <1>7 DEF ArchiveInv, ArchiveTypes, PhaseInv
  <2> QED BY <1>1, <2>1 DEF ArchiveInv, PhaseInv
<1>10. KeptInv'
  <2>1. Sound(l)'
    BY <1>1, <1>2, <1>3, <1>4, <1>7 DEF Sound, Waiting
  <2>2. \A k \in Loops \ {l} : Sound(k)'
    BY <1>1, <1>6 DEF Sound, Waiting, ArchiveInv, KeptInv
  <2> QED BY <1>1, <2>1, <2>2 DEF ArchiveInv, KeptInv, InTable
<1>11. QuietInv'
  <2> SUFFICES ASSUME Undisturbed' PROVE QuietInv'
    BY DEF QuietInv
  <2>1. Undisturbed /\ loop'[l] = selected
    BY <1>1, <1>7 DEF Undisturbed, ArchiveInv, ArchiveTypes
  <2>2. ASSUME NEW j \in Records PROVE copy'[j] = Absent /\ Plain(j)' /\ Loaded(j)' /\ (Own(j)' => Saved(j)')
    <3>1. copy[j] = Absent /\ Plain(j) /\ Loaded(j) /\ (Own(j) => Saved(j))
      BY <2>1 DEF ArchiveInv, QuietInv
    <3>2. \A k \in Loops : OnItsWay(k, j) => OnItsWay(k, j)'
      BY <1>3, <1>6, <2>1 DEF OnItsWay, Waiting
    <3> QED BY <1>1, <3>1, <3>2 DEF Plain, Loaded, Own, Saved, Clean, InTable
  <2>3. ASSUME NEW k \in Loops \ {l} PROVE Fresh(k)' /\ PlainBase(k)' /\ Answers(k)'
    BY <1>1, <1>6, <2>1, OtherLoops
  <2>4. Fresh(l)' /\ PlainBase(l)' /\ Answers(l)'
    <3>1. Fresh(l) /\ Answers(l) /\ Plain(i)
      BY <1>2, <2>1 DEF ArchiveInv, QuietInv
    <3> QED BY <1>1, <1>3, <2>1, <3>1 DEF Fresh, PlainBase, Answers, Plain, Own, InTable
  <2> QED BY <2>2, <2>3, <2>4 DEF QuietInv
<1> QED BY <1>8, <1>9, <1>10, <1>11 DEF ArchiveInv

\* What is committed of a record that is the user's alone is what the page shows of it.
LEMMA CommitsKeeps == ASSUME ArchiveInv, NEW l \in Loops, Commits(l) PROVE ArchiveInv'
<1> USE AbsentIsData
<1> DEFINE i == loop[l].id
           found == loop[l].base # Absent
           stored == found = InTable(i) /\ (loop[l].kind = "createOne" \/ found)
           d == IF loop[l].kind = "createOne" THEN loop[l].data ELSE Merged(loop[l].base, loop[l].data)
           ok == LoopOver(l, "ok")
           failed == LoopOver(l, "failed")
<1>1. loop[l].request = "selected"
      /\ UNCHANGED <<toolCall, page, removal, copy, assured, touched, overtook, writes>>
  BY DEF Commits
<1>2. /\ loop[l] \in Loop /\ loop \in [Loops -> Loop] /\ i \in Records /\ i \in touched /\ Sound(l) /\ Waiting(l)
      /\ table \in Table /\ filed \subseteq Records
  BY <1>1 DEF ArchiveInv, ArchiveTypes, KeptInv, Sound, Waiting
<1>3. /\ ok \in Loop /\ ok.request = "ok" /\ ok.data = Absent /\ ok.id = i /\ ok.todo = loop[l].todo
      /\ failed \in Loop /\ failed.request = "failed" /\ failed.data = Absent /\ failed.id = i /\ failed.todo = loop[l].todo
  BY <1>2 DEF Loop, LoopOver
<1>4. d \in Data /\ d # Absent /\ d.phase <= writes
  <2>1. loop[l].base \in Data /\ loop[l].data \in Data /\ loop[l].data # Absent /\ loop[l].data.phase <= writes
    BY <1>1, <1>2 DEF Loop, Sound, ArchiveInv, PhaseInv
  <2> QED BY <2>1, MergedIsData
<1>5. IF stored THEN Puts(i, d) ELSE UNCHANGED <<table, filed>>
  BY DEF Commits
<1>6. \/ loop' = [loop EXCEPT ![l] = IF stored THEN ok ELSE failed] /\ mishaps' = mishaps
      \/ loop' = [loop EXCEPT ![l] = failed] /\ mishaps' = mishaps + 1
  BY DEF Commits, Mishap
<1>7. Undisturbed /\ assured[i] = Absent => d = page.data[i]
  <2> SUFFICES ASSUME Undisturbed, assured[i] = Absent PROVE d = page.data[i]
    OBVIOUS
  <2>1. Fresh(l) /\ PlainBase(l) /\ Plain(i)
    BY <1>2 DEF ArchiveInv, QuietInv
  <2>2. loop[l].data = page.data[i] /\ loop[l].base.rating = 0 /\ page.data[i].rating = 0
    BY <1>1, <2>1 DEF Fresh, PlainBase, Plain
  <2>3. loop[l].base \in Data /\ loop[l].data \in Data
    BY <1>2 DEF Loop
  <2>4. loop[l].data.rating = 0
    BY <2>2
  <2>5. Merged(loop[l].base, loop[l].data) = loop[l].data
    BY <2>2, <2>3, <2>4, MergedIsData
  <2> QED BY <2>2, <2>5
<1>8. Undisturbed /\ Own(i) /\ ~stored => Clean(i) \/ \E k \in Loops \ {l} : loop[k].id = i /\ loop[k].request = "ok"
  <2> SUFFICES ASSUME Undisturbed, Own(i), ~stored
               PROVE  Clean(i) \/ \E k \in Loops \ {l} : loop[k].id = i /\ loop[k].request = "ok"
    OBVIOUS
  <2>1. Answers(l)
    BY DEF ArchiveInv, QuietInv
  <2>2. loop[l].kind \in {"createOne", "saveOne"}
    BY <1>2 DEF Loop
  <2>3. ~found /\ InTable(i)
    BY <1>1, <2>1, <2>2 DEF Answers, InTable
  <2> QED BY <1>1, <2>1, <2>3 DEF Answers
<1> HIDE DEF d, ok, failed, stored
<1>9. loop' \in [Loops -> Loop] /\ \A k \in Loops \ {l} : loop'[k] = loop[k]
  BY <1>2, <1>3, <1>6
<1>10. \/ loop'[l] = ok /\ stored /\ mishaps' = mishaps
       \/ loop'[l] = failed /\ ~stored /\ mishaps' = mishaps
       \/ loop'[l] = failed /\ mishaps' = mishaps + 1
  BY <1>2, <1>3, <1>6
<1>11. /\ table' \in Table /\ \A j \in Records \ {i} : table'[j] = table[j]
       /\ IF stored THEN table'[i] = d ELSE table'[i] = table[i]
       /\ filed' = IF stored THEN filed \union {i} ELSE filed
  BY <1>2, <1>4, <1>5 DEF Puts, Table
<1>12. ArchiveTypes'
  BY <1>1, <1>2, <1>9, <1>10, <1>11 DEF ArchiveInv, ArchiveTypes
<1>13. PhaseInv'
  <2>1. \A k \in Loops : loop'[k].data.phase <= writes
    BY <1>3, <1>9, <1>10 DEF ArchiveInv, ArchiveTypes, PhaseInv
  <2> QED BY <1>1, <1>4, <1>11, <2>1 DEF ArchiveInv, PhaseInv
<1>14. KeptInv'
  <2>1. Sound(l)'
    BY <1>1, <1>2, <1>3, <1>10 DEF Sound, Waiting
  <2>2. \A k \in Loops \ {l} : Sound(k)'
    BY <1>1, <1>9 DEF Sound, Waiting, ArchiveInv, KeptInv
  <2>3. filed' = {j \in Records : InTable(j)}' /\ \A j \in filed' \ touched' : table'[j] = assured'[j]
    BY <1>1, <1>2, <1>4, <1>11 DEF ArchiveInv, KeptInv, InTable
  <2> QED BY <1>1, <2>1, <2>2, <2>3 DEF ArchiveInv, KeptInv
<1>15. QuietInv'
  <2> SUFFICES ASSUME Undisturbed' PROVE QuietInv'
    BY DEF QuietInv
  <2>1. Undisturbed /\ ((loop'[l] = ok /\ stored) \/ (loop'[l] = failed /\ ~stored))
    BY <1>1, <1>10 DEF Undisturbed, ArchiveInv, ArchiveTypes
  <2>2. \A j \in Records : assured[j] = Absent => table'[j] = table[j] \/ (j = i /\ table'[j] = page.data[j])
    BY <1>7, <1>11, <2>1
  <2>3. ASSUME NEW j \in Records PROVE copy'[j] = Absent /\ Plain(j)' /\ Loaded(j)' /\ (Own(j)' => Saved(j)')
    <3>1. copy[j] = Absent /\ Plain(j) /\ Loaded(j) /\ (Own(j) => Saved(j))
      BY <2>1 DEF ArchiveInv, QuietInv
    <3>2. Plain(j)' /\ Loaded(j)'
      BY <1>1, <2>2, <3>1 DEF Plain, Loaded
    <3>3. ASSUME Own(j)' PROVE Saved(j)'
      <4>1. Own(j) /\ assured[j] = Absent
        BY <1>1, <3>3 DEF Own
      <4>2. page.snapshot[j] # Absent => InTable(j)'
        BY <1>4, <1>11, <3>1, <4>1 DEF Saved, InTable
      <4>3. Clean(j) => table'[j] = page.data[j]
        BY <2>2, <3>1, <4>1 DEF Saved
      <4>4. Clean(j) \/ page.timer \/ \E k \in Loops : OnItsWay(k, j)'
        <5>1. ASSUME NEW k \in Loops \ {l}, OnItsWay(k, j) PROVE OnItsWay(k, j)'
          BY <1>9, <5>1 DEF OnItsWay, Waiting
        <5>2. ASSUME OnItsWay(l, j) PROVE Clean(j) \/ \E k \in Loops : OnItsWay(k, j)'
          <6>1. CASE j \in loop[l].todo
            BY <1>3, <2>1, <6>1 DEF OnItsWay, Waiting
          <6>2. CASE j = i /\ stored
            BY <1>3, <2>1, <6>2 DEF OnItsWay, Waiting
          <6>3. CASE j = i /\ ~stored
            <7>1. Clean(i) \/ \E k \in Loops \ {l} : loop[k].id = i /\ loop[k].request = "ok"
              BY <1>8, <2>1, <4>1, <6>3
            <7> QED BY <1>9, <6>3, <7>1 DEF OnItsWay, Waiting
          <6> QED BY <5>2, <6>1, <6>2, <6>3 DEF OnItsWay
        <5> QED BY <3>1, <4>1, <5>1, <5>2 DEF Saved
      <4> QED BY <1>1, <4>2, <4>3, <4>4 DEF Saved, Clean
    <3> QED BY <1>1, <3>1, <3>2, <3>3
  <2>4. ASSUME NEW k \in Loops \ {l} PROVE Fresh(k)' /\ PlainBase(k)' /\ Answers(k)'
    <3>0. PICK j : j = loop[k].id
      OBVIOUS
    <3>1. Fresh(k) /\ PlainBase(k) /\ Answers(k)
      BY <2>1 DEF ArchiveInv, QuietInv
    <3>2. Fresh(k)' /\ PlainBase(k)'
      BY <1>1, <1>9, <3>1 DEF Fresh, PlainBase
    <3>3. ASSUME Own(j)'
          PROVE  /\ loop[k].request = "ok" => table'[j] = page.data[j]
                 /\ loop[k].request \in {"sent", "selected"} /\ loop[k].kind = "saveOne" => InTable(j)'
                 /\ loop[k].request = "selected" /\ loop[k].base # Absent => InTable(j)'
                 /\ loop[k].request = "selected" /\ loop[k].base = Absent /\ InTable(j)' =>
                      Clean(j)' \/ \E n \in Loops : loop'[n].id = j /\ loop'[n].request = "ok"
      <4>1. Own(j) /\ assured[j] = Absent /\ j \in Records
        BY <1>1, <1>9, <3>3 DEF Own, ArchiveInv, ArchiveTypes, Page
      <4>2. InTable(j) => InTable(j)'
        BY <1>4, <1>9, <1>11, <4>1 DEF InTable
      <4>3. ASSUME ~InTable(j), InTable(j)' PROVE loop'[l].id = j /\ loop'[l].request = "ok"
        BY <1>3, <1>9, <1>11, <2>1, <4>1, <4>3 DEF InTable
      <4>4. ASSUME NEW n \in Loops, loop[n].id = j, loop[n].request = "ok" PROVE loop'[n].id = j /\ loop'[n].request = "ok"
        BY <1>1, <1>9, <4>4
      <4> QED BY <1>1, <1>9, <2>2, <3>0, <3>1, <4>1, <4>2, <4>3, <4>4 DEF Answers, Clean
    <3>4. loop'[k] = loop[k] /\ loop'[k].id = j
      BY <1>9, <3>0
    <3> QED BY <1>1, <3>2, <3>3, <3>4 DEF Answers, Own, Clean, InTable
  <2>5. Fresh(l)' /\ PlainBase(l)' /\ Answers(l)'
    <3>0. PICK j : j = i
      OBVIOUS
    <3>1. ASSUME Own(j)', stored PROVE table'[j] = page'.data[j]
      BY <1>1, <1>7, <1>11, <2>1, <3>0, <3>1 DEF Own
    <3>2. loop'[l].id = j /\ loop'[l].request = (IF stored THEN "ok" ELSE "failed")
      BY <1>3, <2>1, <3>0
    <3> QED BY <3>1, <3>2 DEF Fresh, PlainBase, Answers
  <2> QED BY <2>3, <2>4, <2>5 DEF QuietInv
<1> QED BY <1>12, <1>13, <1>14, <1>15 DEF ArchiveInv

\* A step that changes what is the user's alone only by making less of it so, and
\* the rows of no record that stays so.
LEMMA OwnershipEnds ==
  ASSUME ArchiveInv, UNCHANGED <<page, loop, copy, assured, touched, overtook, mishaps>>,
         \A j \in Records : Own(j)' => Own(j) /\ table'[j] = table[j],
         \A j \in Records : table'[j] \in {table[j], Absent}
  PROVE  QuietInv'
<1> USE AbsentIsData
<1> SUFFICES ASSUME Undisturbed' PROVE QuietInv'
  BY DEF QuietInv
<1>1. Undisturbed
  BY DEF Undisturbed
<1>2. ASSUME NEW j \in Records PROVE copy'[j] = Absent /\ Plain(j)' /\ Loaded(j)' /\ (Own(j)' => Saved(j)')
  <2>1. copy[j] = Absent /\ Plain(j) /\ Loaded(j) /\ (Own(j) => Saved(j))
    BY <1>1 DEF ArchiveInv, QuietInv
  <2>2. Own(j)' => Saved(j)'
    BY <2>1 DEF Saved, Clean, InTable, OnItsWay, Waiting
  <2> QED BY <2>1, <2>2 DEF Plain, Loaded
<1>3. ASSUME NEW k \in Loops PROVE Fresh(k)' /\ PlainBase(k)' /\ Answers(k)'
  <2>1. Fresh(k) /\ PlainBase(k) /\ Answers(k)
    BY <1>1 DEF ArchiveInv, QuietInv
  <2>2. PICK j : j = loop[k].id
    OBVIOUS
  <2>3. loop'[k].id = j /\ loop' = loop /\ page' = page
    BY <2>2
  <2>4. Own(j)' => Own(j) /\ table'[j] = table[j]
    BY DEF Own, ArchiveInv, ArchiveTypes, Page
  <2>5. Answers(k)'
    BY <2>1, <2>2, <2>3, <2>4 DEF Answers, InTable, Clean, Own
  <2> QED BY <2>1, <2>5 DEF Fresh, PlainBase
<1> QED BY <1>2, <1>3 DEF QuietInv

\* A saved record is shown as it is stored, and the loop goes on with the next.
LEMMA SaveAnsweredKeeps == ASSUME ArchiveInv, NEW l \in Loops, SaveAnswered(l) PROVE ArchiveInv'
<1> USE AbsentIsData
<1>0. PICK i : i = loop[l].id
  OBVIOUS
<1>1. /\ loop[l].request \in {"ok", "failed"}
      /\ page' = IF loop[l].request = "ok" THEN [page EXCEPT !.snapshot[i] = page.data[i]] ELSE page
      /\ UNCHANGED <<table, toolCall, removal, copy, assured, filed, touched, overtook, writes, mishaps>>
  BY <1>0 DEF SaveAnswered, history
<1>2. /\ page \in Page /\ loop \in [Loops -> Loop] /\ loop[l] \in Loop /\ Waiting(l) /\ Sound(l)
      /\ i \in touched /\ i \in Records /\ page.data[i] \in Data
  BY <1>0, <1>1 DEF Waiting, Sound, ArchiveInv, ArchiveTypes, KeptInv, Page, Table
<1>3. /\ page' \in Page /\ page'.open = page.open /\ page'.timer = page.timer
      /\ page'.records = page.records /\ page'.data = page.data
      /\ \A j \in Records \ {i} : page'.snapshot[j] = page.snapshot[j]
      /\ page'.snapshot[i] = IF loop[l].request = "ok" THEN page.data[i] ELSE page.snapshot[i]
  BY <1>1, <1>2 DEF Page, Table
<1>4. /\ loop' \in [Loops -> Loop] /\ \A k \in Loops \ {l} : loop'[k] = loop[k]
      /\ \/ loop'[l] = NoLoop /\ loop[l].todo = {}
         \/ /\ loop'[l].request = "sent" /\ loop'[l].base = Absent /\ loop'[l].id \in loop[l].todo
            /\ loop'[l].todo = loop[l].todo \ {loop'[l].id} /\ loop'[l].data = page.data[loop'[l].id]
            /\ loop'[l].kind = "saveOne" => page'.snapshot[loop'[l].id] # Absent
  <2>1. CASE loop[l].todo = {}
    <3>1. loop' = [loop EXCEPT ![l] = NoLoop] /\ NoLoop \in Loop
      BY <2>1 DEF SaveAnswered, NoLoop, Loop
    <3> HIDE DEF NoLoop
    <3> QED BY <1>2, <2>1, <3>1, LoopSet
  <2>2. CASE loop[l].todo # {}
    <3>1. PICK j \in loop[l].todo : SendsRecord(l, j, loop[l].todo)
      BY <2>2 DEF SaveAnswered
    <3>2. loop[l].todo \in SUBSET Records /\ j \in Records
      BY <1>2 DEF Loop
    <3> QED BY <1>3, <3>1, <3>2, SendsRow
  <2> QED BY <2>1, <2>2
<1>5. NoLoop.request = "none" /\ NoLoop.data = Absent /\ NoLoop.todo = {}
  BY DEF NoLoop
<1> HIDE DEF NoLoop
<1>6. ArchiveTypes'
  BY <1>1, <1>3, <1>4 DEF ArchiveInv, ArchiveTypes
<1>7. PhaseInv'
  <2>1. loop[l].todo \subseteq Records
    BY <1>2 DEF Loop
  <2>2. \A k \in Loops : loop'[k].data.phase <= writes
    BY <1>4, <1>5, <2>1 DEF ArchiveInv, ArchiveTypes, PhaseInv
  <2> QED BY <1>1, <1>3, <2>2 DEF ArchiveInv, PhaseInv
<1>8. KeptInv'
  <2>1. Sound(l)'
    BY <1>1, <1>2, <1>3, <1>4, <1>5 DEF Sound, Waiting
  <2>2. \A k \in Loops \ {l} : Sound(k)'
    BY <1>1, <1>3, <1>4 DEF Sound, Waiting, ArchiveInv, KeptInv
  <2>3. \A j \in page'.records : page'.data[j] # Absent /\ (page'.data[j] # page'.snapshot[j] => j \in touched')
    BY <1>1, <1>2, <1>3 DEF ArchiveInv, KeptInv, Page
  <2> QED BY <1>1, <1>3, <2>1, <2>2, <2>3 DEF ArchiveInv, KeptInv, InTable
<1>9. QuietInv'
  <2> SUFFICES ASSUME Undisturbed' PROVE QuietInv'
    BY DEF QuietInv
  <2>1. Undisturbed /\ Answers(l)
    BY <1>1 DEF Undisturbed, ArchiveInv, QuietInv
  <2>2. ASSUME NEW j \in Records PROVE copy'[j] = Absent /\ Plain(j)' /\ Loaded(j)' /\ (Own(j)' => Saved(j)')
    <3>1. copy[j] = Absent /\ Plain(j) /\ Loaded(j) /\ (Own(j) => Saved(j))
      BY <2>1 DEF ArchiveInv, QuietInv
    <3>2. Plain(j)' /\ Loaded(j)'
      BY <1>1, <1>2, <1>3, <3>1 DEF Plain, Loaded
    <3>3. ASSUME Own(j)' PROVE Saved(j)'
      <4>1. Own(j)
        BY <1>1, <1>3, <3>3 DEF Own
      <4>2. CASE j = i /\ loop[l].request = "ok"
        <5>1. table[j] = page.data[j] /\ page.data[j] # Absent
          BY <1>0, <2>1, <4>1, <4>2 DEF Answers, Own, ArchiveInv, KeptInv
        <5> QED BY <1>1, <1>3, <4>2, <5>1 DEF Saved, Clean, InTable
      <4>3. CASE ~(j = i /\ loop[l].request = "ok")
        <5>1. page'.snapshot[j] = page.snapshot[j]
          BY <1>3, <4>3
        <5>2. \A k \in Loops \ {l} : OnItsWay(k, j) => OnItsWay(k, j)'
          BY <1>4 DEF OnItsWay, Waiting
        <5>3. OnItsWay(l, j) => OnItsWay(l, j)'
          BY <1>0, <1>1, <1>4, <4>3 DEF OnItsWay, Waiting
        <5> QED BY <1>1, <1>3, <3>1, <4>1, <5>1, <5>2, <5>3 DEF Saved, Clean, InTable
      <4> QED BY <4>2, <4>3
    <3> QED BY <1>1, <3>1, <3>2, <3>3
  <2>3. ASSUME NEW k \in Loops \ {l} PROVE Fresh(k)' /\ PlainBase(k)' /\ Answers(k)'
    <3>1. \A j \in Records : page'.snapshot[j] \in {page.snapshot[j], page.data[j]}
      BY <1>3
    <3>2. loop[l].request = "ok" => page'.snapshot[loop[l].id] = page.data[loop[l].id]
      BY <1>0, <1>3
    <3> QED BY <1>1, <1>3, <1>4, <2>1, <3>1, <3>2, OtherLoops
  <2>4. Fresh(l)' /\ PlainBase(l)' /\ Answers(l)'
    <3>1. CASE loop'[l] = NoLoop
      BY <1>5, <3>1 DEF Fresh, PlainBase, Answers
    <3>2. CASE loop'[l] # NoLoop
      <4>1. PICK j : j = loop'[l].id
        OBVIOUS
      <4>2. /\ loop'[l].id = j /\ loop'[l].request = "sent" /\ loop'[l].data = page.data[j] /\ j \in Records
            /\ loop'[l].kind = "saveOne" => page'.snapshot[j] # Absent
        BY <1>2, <1>4, <3>2, <4>1 DEF Loop
      <4>3. Own(j)' /\ page'.snapshot[j] # Absent => InTable(j)'
        BY <2>2, <4>2 DEF Saved
      <4>4. Own(j)' /\ loop'[l].kind = "saveOne" => InTable(j)'
        BY <4>2, <4>3
      <4> QED BY <1>3, <4>2, <4>4 DEF Fresh, PlainBase, Answers, Own, InTable
    <3> QED BY <3>1, <3>2
  <2> QED BY <2>2, <2>3, <2>4 DEF QuietInv
<1> QED BY <1>6, <1>7, <1>8, <1>9 DEF ArchiveInv

\* The user's own removal of a record: nothing is owed of it from the answer on.
LEMMA RemovesKeeps == ASSUME ArchiveInv, NEW i \in Records, Removes(i) PROVE ArchiveInv'
<1>1. /\ i \in page.records /\ removal.id = 0 /\ removal' = [id |-> i, done |-> FALSE]
      /\ UNCHANGED <<table, toolCall, page, loop, copy, assured, filed, touched, overtook, writes, mishaps>>
  BY DEF Removes, Listed, history
<1>2. removal' \in [id : Records \union {0}, done : BOOLEAN] /\ ~removal'.done
  BY <1>1
<1>3. ArchiveTypes' /\ PhaseInv'
  BY <1>1, <1>2 DEF ArchiveInv, ArchiveTypes, PhaseInv
<1>4. KeptInv'
  BY <1>1 DEF ArchiveInv, KeptInv, InTable, Sound, Waiting
<1>5. \A j \in Records : Own(j)' => Own(j)
  BY <1>1, ArchiveAssumption DEF Own
<1>6. QuietInv'
  BY <1>1, <1>3, <1>5, OwnershipEnds DEF ArchiveInv
<1> QED BY <1>3, <1>4, <1>6 DEF ArchiveInv

LEMMA RowGoesKeeps == ASSUME ArchiveInv, RowGoes PROVE ArchiveInv'
<1> USE AbsentIsData
<1>1. /\ removal.id # 0 /\ ~removal.done
      /\ removal' = IF InTable(removal.id) THEN [removal EXCEPT !.done = TRUE] ELSE NoRemoval
      /\ table' = [table EXCEPT ![removal.id] = Absent] /\ filed' = filed \ {removal.id}
      /\ UNCHANGED <<toolCall, page, loop, copy, assured, touched, overtook, writes, mishaps>>
  BY DEF RowGoes
<1>2. PICK i \in Records : i = removal.id
  BY <1>1 DEF ArchiveInv, ArchiveTypes
<1>3. /\ table' \in Table /\ table'[i] = Absent /\ \A j \in Records \ {i} : table'[j] = table[j]
      /\ filed' = filed \ {i}
  BY <1>1, <1>2 DEF ArchiveInv, ArchiveTypes, Table
<1>4. /\ removal' \in [id : Records \union {0}, done : BOOLEAN]
      /\ InTable(i) => removal'.done /\ removal'.id = i
  BY <1>1, <1>2 DEF ArchiveInv, ArchiveTypes, NoRemoval
<1>5. ArchiveTypes'
  BY <1>1, <1>3, <1>4 DEF ArchiveInv, ArchiveTypes
<1>6. PhaseInv'
  <2>1. \A j \in Records : table'[j].phase <= writes
    BY <1>3 DEF ArchiveInv, ArchiveTypes, PhaseInv
  <2> QED BY <1>1, <2>1 DEF ArchiveInv, PhaseInv
<1>7. KeptInv'
  BY <1>1, <1>3 DEF ArchiveInv, KeptInv, InTable, Sound, Waiting
<1>8. \A j \in Records : Own(j)' => Own(j) /\ table'[j] = table[j]
  BY <1>1, <1>2, <1>3, <1>4 DEF Own, InTable
<1>9. QuietInv'
  BY <1>1, <1>3, <1>8, OwnershipEnds
<1> QED BY <1>5, <1>6, <1>7, <1>9 DEF ArchiveInv

LEMMA RemovedKeeps == ASSUME ArchiveInv, Removed PROVE ArchiveInv'
<1> USE AbsentIsData
<1>0. PICK i : i = removal.id
  OBVIOUS
<1>1. /\ removal.done /\ removal' = NoRemoval /\ page \in Page
      /\ page' = [page EXCEPT !.snapshot[i] = Absent, !.records = @ \ {i}, !.timer = TRUE]
      /\ UNCHANGED <<table, toolCall, loop, copy, assured, filed, touched, overtook, writes, mishaps>>
  BY <1>0 DEF Removed, history, ArchiveInv, ArchiveTypes
<1>2. /\ page' \in Page /\ page'.open = page.open /\ page'.timer /\ page'.data = page.data
      /\ page'.records = page.records \ {i}
      /\ \A j \in Records : page'.snapshot[j] = IF j = i THEN Absent ELSE page.snapshot[j]
  BY <1>1 DEF Page, Table
<1>3. ArchiveTypes'
  BY <1>1, <1>2 DEF ArchiveInv, ArchiveTypes, NoRemoval
<1>4. PhaseInv'
  <2>1. \A j \in Records : page'.snapshot[j].phase <= writes
    BY <1>2 DEF ArchiveInv, ArchiveTypes, PhaseInv
  <2> QED BY <1>1, <1>2, <2>1 DEF ArchiveInv, PhaseInv
<1>5. KeptInv'
  <2>1. \A j \in page'.records : page'.data[j] # Absent /\ (page'.data[j] # page'.snapshot[j] => j \in touched')
    BY <1>1, <1>2 DEF ArchiveInv, KeptInv, Page
  <2> QED BY <1>1, <1>2, <2>1 DEF ArchiveInv, KeptInv, InTable, Sound, Waiting
<1>6. QuietInv'
  <2> SUFFICES ASSUME Undisturbed' PROVE QuietInv'
    BY DEF QuietInv
  <2>1. Undisturbed
    BY <1>1 DEF Undisturbed
  <2>2. ASSUME NEW j \in Records, Own(j)' PROVE Own(j) /\ j # i
    BY <1>0, <1>1, <1>2, <2>2 DEF Own
  <2>3. ASSUME NEW j \in Records PROVE copy'[j] = Absent /\ Plain(j)' /\ Loaded(j)' /\ (Own(j)' => Saved(j)')
    <3>1. copy[j] = Absent /\ Plain(j) /\ Loaded(j) /\ (Own(j) => Saved(j))
      BY <2>1 DEF ArchiveInv, QuietInv
    <3>2. Own(j)' => Saved(j)'
      BY <1>1, <1>2, <2>2, <3>1 DEF Saved, Clean, InTable
    <3> QED BY <1>1, <1>2, <3>1, <3>2 DEF Plain, Loaded
  <2>4. ASSUME NEW k \in Loops PROVE Fresh(k)' /\ PlainBase(k)' /\ Answers(k)'
    <3>1. Fresh(k) /\ PlainBase(k) /\ Answers(k)
      BY <2>1 DEF ArchiveInv, QuietInv
    <3>2. PICK j : j = loop[k].id
      OBVIOUS
    <3>3. Own(j)' => Own(j) /\ (Clean(j) => Clean(j)')
      BY <1>2, <2>2 DEF Own, Clean, ArchiveInv, ArchiveTypes, Page
    <3>4. Answers(k)'
      BY <1>1, <1>2, <3>1, <3>2, <3>3 DEF Answers, InTable, Own
    <3> QED BY <1>1, <1>2, <3>1, <3>4 DEF Fresh, PlainBase
  <2> QED BY <2>3, <2>4 DEF QuietInv
<1> QED BY <1>3, <1>4, <1>5, <1>6 DEF ArchiveInv

LEMMA ArchiveStep == ArchiveInv /\ [ArchiveNext]_archiveVars => ArchiveInv'
<1> SUFFICES ASSUME ArchiveInv, [ArchiveNext]_archiveVars PROVE ArchiveInv'
  OBVIOUS
<1>1. CASE UNCHANGED archiveVars
  <2>1. UNCHANGED <<table, toolCall, page, loop, removal, copy, assured, filed, touched, overtook, writes, mishaps>>
    BY <1>1 DEF archiveVars
  <2>2. ArchiveTypes' /\ PhaseInv'
    BY <2>1 DEF ArchiveInv, ArchiveTypes, PhaseInv
  <2>3. KeptInv'
    BY <2>1 DEF ArchiveInv, KeptInv, InTable, Sound, Waiting
  <2>4. QuietInv'
    BY <2>1, OwnershipEnds DEF Own
  <2> QED BY <2>2, <2>3, <2>4 DEF ArchiveInv
<1>2. ASSUME NEW i \in Records, SavesNew(i) \/ ToolLoads(i) \/ PageEdits(i) \/ NotesIdea(i) \/ Removes(i)
      PROVE  ArchiveInv'
  BY <1>2, SavesNewKeeps, ToolLoadsKeeps, PageEditsKeeps, NotesIdeaKeeps, RemovesKeeps
<1>3. ASSUME NEW l \in Loops, Selects(l) \/ Commits(l) \/ SaveAnswered(l) PROVE ArchiveInv'
  BY <1>3, SelectsKeeps, CommitsKeeps, SaveAnsweredKeeps
<1> QED BY <1>1, <1>2, <1>3, ToolCommitsKeeps, CopyLoadsKeeps, SyncsCopyKeeps, ResetsKeeps, OpensKeeps,
           TimerFiresKeeps, RowGoesKeeps, RemovedKeeps DEF ArchiveNext

LEMMA ArchiveInvAgrees == ArchiveInv => ArchiveAgrees
<1> SUFFICES ASSUME ArchiveInv PROVE ArchiveAgrees
  OBVIOUS
<1>1. ArchiveKept
  BY DEF ArchiveInv, KeptInv, ArchiveKept
<1>2. ASSUME Rests, mishaps = 0, ~overtook PROVE Agree
  <2>1. ASSUME NEW i \in page.records, assured[i] = Absent PROVE table[i] = page.data[i]
    <3>1. i \in Records /\ Own(i)
      BY <1>2, <2>1, ArchiveAssumption DEF Own, Rests, ArchiveInv, ArchiveTypes, Page
    <3>2. Saved(i) /\ ~page.timer /\ \A l \in Loops : ~OnItsWay(l, i)
      BY <1>2, <3>1 DEF ArchiveInv, QuietInv, Undisturbed, Rests, OnItsWay
    <3> QED BY <3>2 DEF Saved
  <2> QED BY <2>1 DEF Agree
<1> QED BY <1>1, <1>2 DEF ArchiveAgrees, QuietPageIsSaved

\* Whatever the page saves, and however many of its saving loops overlap with each
\* other and with the tools of the agent, no stored record is lost or overwritten
\* by the way, and a page at rest shows what is stored (DecisionLibraryView,
\* decisions_router, archive_tools).
THEOREM ArchiveStaysTrue == ArchiveInit /\ [][ArchiveNext]_archiveVars => []ArchiveAgrees
BY InitHolds, ArchiveStep, ArchiveInvAgrees, PTL

-----------------------------------------------------------------------------
(* The products of a planning run. *)

PlanSafety == PlanInit /\ [][PlanNext]_planVars

Entries == [id : Nat \ {0}, name : NameSet, cat : Categories]
Items == [id : Nat \ {0}, name : NameSet, cat : Categories, sub : Subtotals]
IsRow(p) ==
  /\ {"cands", "excl", "items", "total"} \subseteq DOMAIN p
  /\ p.cands \in Seq(Entries) /\ p.excl \in Seq(Entries) /\ p.items \in Seq(Items)
IdsIn(items, c) == {i.id : i \in {j \in ToSet(items) : j.cat = c}}
Stands(items, want) == \A c \in Categories : IdsIn(items, c) = {want[c]} \ {0}

\* While the run is on, the lists are those of acc, and acc has the plan; else
\* the row has it.
PlanInv ==
  /\ "at" \in DOMAIN round
  /\ IsRow(acc) /\ IsRow(products) /\ wanted \in [Categories -> Nat]
  /\ On => lists = [cands |-> acc.cands, excl |-> acc.excl] /\ Stands(acc.items, wanted)
  /\ ~On => Stands(products.items, wanted)

\* The product that a request is for is one of the pool.
LEMMA HitIsInPool ==
  ASSUME NEW pool \in Seq(Entries), NEW ask, Hits(pool, ask) # {}
  PROVE  Hit(pool, ask) \in Entries
<1> DEFINE S == Hits(pool, ask)
<1>1. S \in SUBSET Nat /\ S # {} /\ S \subseteq DOMAIN pool
  BY DEF Hits
<1> HIDE DEF S
<1>2. PICK m \in S : \A y \in S : m <= y
  BY <1>1, SmallestOne
<1>3. (CHOOSE i \in S : \A j \in S : i <= j) \in S
  BY <1>2
<1> QED BY <1>1, <1>3 DEF Hit, S

\* A merge keeps one product in the category of the new one, the new one, and
\* leaves the other categories as they are.
LEMMA MergeIs ==
  ASSUME NEW items \in Seq(Items), NEW new \in Items
  PROVE  /\ Merge(items, new) \in Seq(Items)
         /\ IdsIn(Merge(items, new), new.cat) = {new.id}
         /\ \A c \in Categories \ {new.cat} : IdsIn(Merge(items, new), c) = IdsIn(items, c)
<1> DEFINE m == Merge(items, new)
<1>1. DOMAIN items = 1..Len(items) /\ Len(items) \in Nat /\ \A i \in 1..Len(items) : items[i] \in Items
  OBVIOUS
<1>2. CASE \A i \in DOMAIN items : items[i].cat # new.cat
  <2>1. m = Append(items, new)
    BY <1>2 DEF Merge
  <2>2. /\ m \in Seq(Items) /\ DOMAIN m = 1..(Len(items) + 1) /\ m[Len(items) + 1] = new
        /\ \A i \in 1..Len(items) : m[i] = items[i]
    BY <2>1, AppendProperties
  <2> HIDE DEF m
  <2>3. ToSet(m) = ToSet(items) \cup {new}
    BY <1>1, <2>2 DEF ToSet
  <2>4. \A k \in ToSet(items) : k.cat # new.cat
    BY <1>2 DEF ToSet
  <2>5. {k \in ToSet(m) : k.cat = new.cat} = {new}
    BY <2>3, <2>4
  <2>6. \A c \in Categories \ {new.cat} : {k \in ToSet(m) : k.cat = c} = {k \in ToSet(items) : k.cat = c}
    BY <2>3
  <2> QED BY <2>2, <2>5, <2>6 DEF IdsIn, m
<1>3. CASE \E i \in DOMAIN items : items[i].cat = new.cat
  <2>1. m = [i \in 1..Len(items) |-> IF items[i].cat = new.cat THEN new ELSE items[i]]
    BY <1>1, <1>3 DEF Merge
  <2>2. m \in [1..Len(items) -> Items]
    BY <1>1, <2>1
  <2>3. m \in Seq(Items)
    <3> HIDE DEF m
    <3> QED BY <1>1, <2>2, SeqDef
  <2>4. DOMAIN m = 1..Len(items) /\ \A i \in 1..Len(items) : m[i] = IF items[i].cat = new.cat THEN new ELSE items[i]
    BY <2>1
  <2> HIDE DEF m
  <2>5. {k \in ToSet(m) : k.cat = new.cat} = {new}
    <3>1. PICK i \in 1..Len(items) : items[i].cat = new.cat
      BY <1>1, <1>3
    <3>2. new \in ToSet(m)
      BY <2>4, <3>1 DEF ToSet
    <3>3. \A k \in ToSet(m) : k.cat = new.cat => k = new
      BY <1>1, <2>4 DEF ToSet
    <3> QED BY <3>2, <3>3
  <2>6. ASSUME NEW c \in Categories \ {new.cat}
        PROVE  {k \in ToSet(m) : k.cat = c} = {k \in ToSet(items) : k.cat = c}
    <3>1. \A i \in 1..Len(items) : (m[i].cat = c <=> items[i].cat = c) /\ (m[i].cat = c => m[i] = items[i])
      BY <2>4
    <3> QED BY <1>1, <2>4, <3>1 DEF ToSet
  <2>7. IdsIn(m, new.cat) = {new.id}
    BY <2>5 DEF IdsIn
  <2>8. \A c \in Categories \ {new.cat} : IdsIn(m, c) = IdsIn(items, c)
    BY <2>6, Zenon DEF IdsIn
  <2> QED BY <2>3, <2>7, <2>8 DEF m
<1> QED BY <1>2, <1>3

LEMMA DecideKeeps ==
  ASSUME PlanInv, NEW ask, ask \in Asks, Decide(ask)
  PROVE  PlanInv'
<1> DEFINE pool == lists.cands \o lists.excl
           hit == Hit(pool, ask)
           new == [id |-> hit.id, name |-> hit.name, cat |-> hit.cat, sub |-> ask.sub]
           items == Merge(acc.items, new)
           total == Total(items)
<1>1. /\ On /\ Hits(pool, ask) # {}
      /\ acc' = [acc EXCEPT !.items = items, !.total = total]
      /\ wanted' = [wanted EXCEPT ![hit.cat] = hit.id]
      /\ round' = [round EXCEPT !.decisions = @ + 1]
      /\ lists' = lists /\ products' = products
  BY DEF Decide
<1>2. pool \in Seq(Entries)
  <2>1. lists.cands = acc.cands /\ lists.excl = acc.excl
    BY <1>1 DEF PlanInv
  <2>2. acc.cands \in Seq(Entries) /\ acc.excl \in Seq(Entries)
    BY DEF PlanInv, IsRow
  <2> QED BY <2>1, <2>2
<1> HIDE DEF pool
<1>3. hit \in Entries
  BY <1>1, <1>2, HitIsInPool
<1> HIDE DEF hit
<1>4. new \in Items /\ new.cat = hit.cat /\ new.id = hit.id
  <2>1. ask.sub \in Subtotals
    BY DEF Asks
  <2> QED BY <1>3, <2>1 DEF Entries, Items
<1> HIDE DEF new
<1>5. acc.items \in Seq(Items) /\ Stands(acc.items, wanted)
  BY <1>1 DEF PlanInv, IsRow
<1>6. /\ items \in Seq(Items) /\ IdsIn(items, new.cat) = {new.id}
      /\ \A c \in Categories \ {new.cat} : IdsIn(items, c) = IdsIn(acc.items, c)
  BY <1>4, <1>5, MergeIs
<1> HIDE DEF items, total
<1>7. IsRow(acc') /\ acc'.items = items /\ acc'.cands = acc.cands /\ acc'.excl = acc.excl
  <2>1. IsRow(acc)
    BY DEF PlanInv
  <2> QED BY <1>1, <1>6, <2>1 DEF IsRow
<1>8. wanted' \in [Categories -> Nat] /\ Stands(items, wanted')
  <2>1. wanted \in [Categories -> Nat] /\ hit.cat \in Categories /\ hit.id \in Nat \ {0}
    BY <1>3 DEF PlanInv, Entries
  <2>2. wanted' \in [Categories -> Nat] /\ wanted'[hit.cat] = hit.id
        /\ \A c \in Categories \ {hit.cat} : wanted'[c] = wanted[c]
    BY <1>1, <2>1
  <2>3. ASSUME NEW c \in Categories PROVE IdsIn(items, c) = {wanted'[c]} \ {0}
    <3>1. CASE c = hit.cat
      BY <1>4, <1>6, <2>1, <2>2, <3>1
    <3>2. CASE c # hit.cat
      BY <1>4, <1>5, <1>6, <2>2, <3>2 DEF Stands
    <3> QED BY <3>1, <3>2
  <2> QED BY <2>2, <2>3 DEF Stands
<1>9. round'.at = round.at /\ "at" \in DOMAIN round'
  BY <1>1 DEF PlanInv
<1>10. lists' = [cands |-> acc'.cands, excl |-> acc'.excl]
  BY <1>1, <1>7 DEF PlanInv
<1>11. On' /\ IsRow(products')
  BY <1>1, <1>9 DEF On, PlanInv
<1> QED BY <1>7, <1>8, <1>9, <1>10, <1>11 DEF PlanInv

\* No step changes a row in any other way than by adding to its lists.
LEMMA AddsKeep ==
  ASSUME PlanInv, On, NEW new, NEW key, key \in {"cands", "excl"}, new \in Seq(Entries),
         lists' = [lists EXCEPT ![key] = new], acc' = [acc EXCEPT ![key] = new],
         UNCHANGED <<round, products, wanted>>
  PROVE  PlanInv'
<1>1. lists = [cands |-> acc.cands, excl |-> acc.excl] /\ IsRow(acc) /\ Stands(acc.items, wanted)
  BY DEF PlanInv
<1>2. IsRow(acc') /\ acc'.items = acc.items
  BY <1>1 DEF IsRow
<1>3. lists' = [cands |-> acc'.cands, excl |-> acc'.excl]
  <2>1. CASE key = "cands"
    <3>1. acc'.cands = new /\ acc'.excl = acc.excl
      BY <1>1, <2>1 DEF IsRow
    <3>2. lists' = [cands |-> new, excl |-> acc.excl]
      BY <1>1, <2>1
    <3> QED BY <3>1, <3>2
  <2>2. CASE key = "excl"
    <3>1. acc'.cands = acc.cands /\ acc'.excl = new
      BY <1>1, <2>2 DEF IsRow
    <3>2. lists' = [cands |-> acc.cands, excl |-> new]
      BY <1>1, <2>2
    <3> QED BY <3>1, <3>2
  <2> QED BY <2>1, <2>2
<1>4. Stands(acc'.items, wanted')
  BY <1>1, <1>2 DEF Stands
<1> QED BY <1>2, <1>3, <1>4 DEF PlanInv, On, IsRow

LEMMA PlanStepKeeps ==
  ASSUME PlanInv, [PlanNext]_planVars
  PROVE  PlanInv'
<1>1. CASE \E c \in Categories, g \in Goods : Search(c, g)
  <2>1. PICK c \in Categories, g \in Goods : Search(c, g)
    BY <1>1
  <2> DEFINE new == acc.cands \o FoundFor(c, g)
  <2>2. new \in Seq(Entries)
    <3>1. [id |-> g.id, name |-> g.name, cat |-> c] \in Entries
      BY GoodsAssumption DEF Entries, NameSet
    <3>2. FoundFor(c, g) \in Seq(Entries) /\ acc.cands \in Seq(Entries)
      BY <3>1 DEF FoundFor, PlanInv, IsRow
    <3> QED BY <3>2
  <2>3. /\ On /\ lists' = [lists EXCEPT !.cands = new] /\ acc' = [acc EXCEPT !.cands = new]
        /\ UNCHANGED <<round, products, wanted>>
    <3>1. lists.cands = acc.cands
      BY <2>1 DEF PlanInv, Search
    <3> QED BY <2>1, <3>1 DEF Search
  <2> HIDE DEF new
  <2> QED BY <2>2, <2>3, AddsKeep
<1>2. CASE \E n \in NameSet : Drop(n)
  <2>1. PICK n \in NameSet : Drop(n)
    BY <1>2
  <2> DEFINE at == {i \in DOMAIN lists.cands : lists.cands[i].name = n}
             last == lists.cands[CHOOSE i \in at : \A j \in at : j <= i]
             new == Append(acc.excl, last)
  <2>2. lists.cands = acc.cands /\ lists.excl = acc.excl /\ acc.cands \in Seq(Entries) /\ acc.excl \in Seq(Entries)
    BY <2>1 DEF PlanInv, Drop, IsRow
  <2>3. at # {} /\ at \subseteq 1..Len(acc.cands)
    <3>1. at # {}
      BY <2>1 DEF Drop
    <3>2. DOMAIN lists.cands = 1..Len(acc.cands)
      BY <2>2
    <3> QED BY <3>1, <3>2
  <2>4. last \in Entries
    <3>1. \E i \in at : \A j \in at : j <= i
      <4> HIDE DEF at
      <4>1. Len(acc.cands) \in Nat
        BY <2>2
      <4> QED BY <2>3, <4>1, MaxIs
    <3> HIDE DEF at
    <3>2. (CHOOSE i \in at : \A j \in at : j <= i) \in at
      BY <3>1
    <3>3. PICK p \in 1..Len(acc.cands) : last = acc.cands[p]
      BY <2>2, <2>3, <3>2
    <3> HIDE DEF last
    <3> QED BY <2>2, <3>3
  <2>5. /\ On /\ lists' = [lists EXCEPT !.excl = new] /\ acc' = [acc EXCEPT !.excl = new]
        /\ UNCHANGED <<round, products, wanted>>
    BY <2>1, <2>2 DEF Drop
  <2> HIDE DEF last
  <2>6. new \in Seq(Entries)
    BY <2>2, <2>4, AppendProperties
  <2> HIDE DEF new
  <2> QED BY <2>5, <2>6, AddsKeep
<1>3. CASE \E r \in Asks : Decide(r)
  BY <1>3, DecideKeeps
<1>4. CASE Ask \/ Finish
  <2>1. On /\ acc' = acc /\ lists' = lists /\ wanted' = wanted /\ products' = acc
    BY <1>4 DEF Ask, Finish
  <2>2. "at" \in DOMAIN round' /\ round'.at # "on"
    BY <1>4 DEF Ask, Finish, PlanInv
  <2>3. IsRow(acc) /\ Stands(acc.items, wanted) /\ wanted \in [Categories -> Nat]
    BY <2>1 DEF PlanInv
  <2> QED BY <2>1, <2>2, <2>3 DEF PlanInv, On
<1>5. CASE Resume
  <2>1. /\ ~On /\ acc' = products /\ products' = products /\ wanted' = wanted
        /\ lists' = [cands |-> products.cands, excl |-> products.excl]
    BY <1>5 DEF Resume, On
  <2>2. "at" \in DOMAIN round'
    BY <1>5 DEF Resume, PlanInv
  <2>3. IsRow(products) /\ Stands(products.items, wanted) /\ wanted \in [Categories -> Nat]
    BY <2>1 DEF PlanInv
  <2>4. round'.at = "on"
    BY <1>5 DEF Resume, PlanInv
  <2> QED BY <2>1, <2>2, <2>3, <2>4 DEF PlanInv, On
<1>6. CASE Continue
  <2>1. /\ On /\ acc' = acc /\ products' = products /\ wanted' = wanted
        /\ lists' = [cands |-> acc.cands, excl |-> acc.excl]
    BY <1>6 DEF Continue
  <2>2. "at" \in DOMAIN round' /\ round'.at = round.at
    BY <1>6 DEF Continue, PlanInv
  <2> QED BY <2>1, <2>2 DEF PlanInv, On
<1>7. CASE UNCHANGED planVars
  BY <1>7 DEF planVars, PlanInv, On
<1> QED BY <1>1, <1>2, <1>3, <1>4, <1>5, <1>6, <1>7 DEF PlanNext

\* A new run has an empty plan.
LEMMA PlanStarts == PlanInit => PlanInv
<1> SUFFICES ASSUME PlanInit PROVE PlanInv
  OBVIOUS
<1>1. <<>> \in Seq(Entries) /\ <<>> \in Seq(Items)
  BY EmptySeq
<1>2. IsRow(Nothing)
  BY <1>1 DEF IsRow, Nothing
<1>3. \A c \in Categories : IdsIn(<<>>, c) = {}
  BY DEF IdsIn, ToSet
<1> QED BY <1>2, <1>3 DEF PlanInit, PlanInv, On, Stands, Nothing

\* The plan of a run has, in each category, the product that was decided on last,
\* and no other, through any questions, retries and changes of mind; and what the
\* model may choose from is what the service has collected. For any products,
\* categories and sums, and any number of rounds.
THEOREM DecisionsLast == PlanSafety => []DecisionsStand
<1>1. PlanInit => PlanInv
  BY PlanStarts
<1>2. PlanInv /\ [PlanNext]_planVars => PlanInv'
  BY PlanStepKeeps
<1>3. PlanInv => DecisionsStand
  BY DEF PlanInv, DecisionsStand, Stands, IdsIn
<1> QED BY <1>1, <1>2, <1>3, PTL DEF PlanSafety

-----------------------------------------------------------------------------
(***************************************************************************)
(* The documents of a planning run. A bought product has the category of   *)
(* its first find, each category has one, and what is dropped was found;   *)
(* so no product is bought twice, and one that another category's search   *)
(* finds again is not offered there.                                       *)
(***************************************************************************)
\* The first entry of s with the id at place k stands there.
FirstAt(s, k) == \A j \in 1..(k - 1) : s[j].id # s[k].id
\* d has, of the first k entries of s, the first of each id that is not in out.
Whole(s, k, out, d) ==
  /\ \A x \in ToSet(d) : x.id \notin out /\ \E i \in 1..k : s[i] = x /\ FirstAt(s, i)
  /\ \A i \in 1..k : s[i].id \in out \/ \E x \in ToSet(d) : x.id = s[i].id

\* What is appended is added to the set of a list.
LEMMA AppendedSet ==
  ASSUME NEW E, NEW d \in Seq(E), NEW x \in E
  PROVE  Append(d, x) \in Seq(E) /\ ToSet(Append(d, x)) = ToSet(d) \cup {x}
<1>1. /\ Append(d, x) \in Seq(E) /\ DOMAIN d = 1..Len(d) /\ Len(d) \in Nat
      /\ DOMAIN Append(d, x) = 1..(Len(d) + 1) /\ Append(d, x)[Len(d) + 1] = x
      /\ \A i \in 1..Len(d) : Append(d, x)[i] = d[i]
  BY AppendProperties
<1>2. ToSet(Append(d, x)) \subseteq ToSet(d) \cup {x}
  BY <1>1 DEF ToSet
<1>3. ToSet(d) \subseteq ToSet(Append(d, x)) /\ x \in ToSet(Append(d, x))
  BY <1>1 DEF ToSet
<1> QED BY <1>1, <1>2, <1>3

\* Dedup leaves the first entry of each id, but for those in out.
LEMMA DedupIs ==
  ASSUME NEW s \in Seq(Entries), NEW out
  PROVE  Dedup(s, out) \in Seq(Entries) /\ Whole(s, Len(s), out, Dedup(s, out))
<1> DEFINE A == Seq(Entries)
           m == Len(s)
           IdsOf(d) == {y.id : y \in ToSet(d)}
           passed(d, x) == IF x.id \in out \cup IdsOf(d) THEN d ELSE Append(d, x)
           step == [d \in A |-> [x \in Entries |-> passed(d, x)]]
<1>1. m \in Nat /\ s \in [1..m -> Entries] /\ DOMAIN s = 1..m
  OBVIOUS
<1>2. <<>> \in A
  BY EmptySeq
<1>3. step \in [A -> [Entries -> A]]
  <2>1. ASSUME NEW d \in A, NEW x \in Entries PROVE passed(d, x) \in A
    <3>1. Append(d, x) \in A
      BY AppendProperties
    <3> QED BY <3>1
  <2> HIDE DEF A, passed
  <2> QED BY <2>1
<1>4. PICK it : Folds(it, step, m, A, <<>>, s)
  <2> HIDE DEF A, step, m
  <2> QED BY <1>1, <1>2, <1>3, FoldExists
<1> DEFINE Body(f) == [t \in SUBSET (DOMAIN s) |->
                         IF t = {} THEN <<>> ELSE passed(f[t \ {Max(t)}], s[Max(t)])]
           Iter == CHOOSE f : f = Body(f)
<1>5. Dedup(s, out) = Iter[DOMAIN s]
  BY DEF Dedup, FoldLeft, MapThenFoldSet
<1>6. \A f, t : f \in [SUBSET (1..m) -> A] /\ t \in SUBSET (1..m) /\ t # {} =>
        step[f[t \ {Max(t)}]][s[Max(t)]] = passed(f[t \ {Max(t)}], s[Max(t)])
  <2> TAKE f, t
  <2> HAVE f \in [SUBSET (1..m) -> A] /\ t \in SUBSET (1..m) /\ t # {}
  <2>1. Max(t) \in 1..m /\ t \ {Max(t)} \in SUBSET (1..m)
    BY <1>1, MaxIs
  <2> HIDE DEF A, passed
  <2>2. f[t \ {Max(t)}] \in A /\ s[Max(t)] \in Entries
    BY <1>1, <2>1
  <2> QED BY <2>2
<1>7. it = Body(it)
  <2> HIDE DEF A, passed, step, m
  <2> QED BY <1>1, <1>4, <1>6 DEF Folds
<1>8. Iter = Body(Iter)
  <2> HIDE DEF Body
  <2> QED BY <1>7
<1> DEFINE W == [k \in 0..m |-> {d \in A : Whole(s, k, out, d)}]
<1>9. Iter[1..0] \in W[0]
  <2>1. 1..0 = {} /\ ToSet(<<>>) = {} /\ 0 \in 0..m
    BY <1>1 DEF ToSet
  <2>2. Iter[1..0] = <<>>
    <3> HIDE DEF A, Iter, passed
    <3> QED BY <1>8, <2>1
  <2>3. Whole(s, 0, out, <<>>)
    BY <2>1 DEF Whole
  <2> HIDE DEF Iter, A
  <2> QED BY <1>2, <2>1, <2>2, <2>3
<1>10. ASSUME NEW k \in 1..m, Iter[1..(k - 1)] \in W[k - 1] PROVE Iter[1..k] \in W[k]
  <2> DEFINE d == Iter[1..(k - 1)]
             x == s[k]
  <2>1. /\ 1..k \in SUBSET (1..m) /\ 1..k # {} /\ Max(1..k) = k
        /\ (1..k) \ {Max(1..k)} = 1..(k - 1)
    BY <1>1, FoldSteps
  <2>2. Iter[1..k] = passed(d, x)
    <3> HIDE DEF A, passed, Iter, step
    <3> QED BY <1>1, <1>8, <2>1
  <2>3. k - 1 \in 0..m /\ k \in 0..m
    BY <1>1
  <2>4. d \in A /\ Whole(s, k - 1, out, d) /\ x \in Entries
    <3> HIDE DEF Iter, A
    <3> QED BY <1>1, <1>10, <2>3
  <2> HIDE DEF d, x, Iter
  <2>5. CASE x.id \in out \cup IdsOf(d)
    <3>1. passed(d, x) = d
      BY <2>5
    <3>2. \A y \in ToSet(d) : y.id \notin out /\ \E i \in 1..k : s[i] = y /\ FirstAt(s, i)
      BY <2>3, <2>4 DEF Whole
    <3>3. \A i \in 1..k : s[i].id \in out \/ \E y \in ToSet(d) : y.id = s[i].id
      <4> TAKE i \in 1..k
      <4>1. CASE i = k
        BY <2>5, <4>1 DEF x
      <4>2. CASE i # k
        <5>1. i \in 1..(k - 1)
          BY <4>2
        <5> QED BY <2>4, <5>1 DEF Whole
      <4> QED BY <4>1, <4>2
    <3>4. Whole(s, k, out, d)
      BY <3>2, <3>3 DEF Whole
    <3> HIDE DEF A, passed
    <3> QED BY <2>2, <2>3, <2>4, <3>1, <3>4
  <2>6. CASE x.id \notin out \cup IdsOf(d)
    <3>1. passed(d, x) = Append(d, x)
      BY <2>6
    <3>2. Append(d, x) \in A /\ ToSet(Append(d, x)) = ToSet(d) \cup {x}
      BY <2>4, AppendedSet
    <3>3. FirstAt(s, k)
      <4> SUFFICES ASSUME NEW j \in 1..(k - 1), s[j].id = s[k].id PROVE FALSE
        BY DEF FirstAt
      <4>1. s[j].id \in out \/ \E y \in ToSet(d) : y.id = s[j].id
        BY <2>4 DEF Whole
      <4> QED BY <2>6, <4>1 DEF x
    <3> DEFINE e == Append(d, x)
    <3> HIDE DEF e
    <3>4. \A y \in ToSet(d) : y.id \notin out /\ \E i \in 1..k : s[i] = y /\ FirstAt(s, i)
      BY <2>3, <2>4 DEF Whole
    <3>5. \A y \in ToSet(e) : y.id \notin out /\ \E i \in 1..k : s[i] = y /\ FirstAt(s, i)
      BY <2>6, <3>2, <3>3, <3>4 DEF e, x
    <3>6. \A i \in 1..k : s[i].id \in out \/ \E y \in ToSet(e) : y.id = s[i].id
      <4> TAKE i \in 1..k
      <4>1. CASE i = k
        BY <3>2, <4>1 DEF x, e
      <4>2. CASE i # k
        <5>1. i \in 1..(k - 1)
          BY <4>2
        <5>2. s[i].id \in out \/ \E y \in ToSet(d) : y.id = s[i].id
          BY <2>4, <5>1 DEF Whole
        <5> QED BY <3>2, <5>2 DEF e
      <4> QED BY <4>1, <4>2
    <3>7. Whole(s, k, out, e)
      BY <3>5, <3>6 DEF Whole
    <3> HIDE DEF A, passed
    <3> QED BY <2>2, <2>3, <3>1, <3>2, <3>7 DEF e
  <2> QED BY <2>5, <2>6
<1>11. Iter[1..m] \in W[m]
  <2> HIDE DEF W, m, Iter
  <2>1. Reaches(Iter, m, W)
    BY <1>9, <1>10 DEF Reaches
  <2> QED BY <1>1, <2>1, FoldReaches
<1>12. m \in 0..m
  BY <1>1
<1> HIDE DEF Iter, A
<1>13. Iter[1..m] \in A /\ Whole(s, m, out, Iter[1..m])
  BY <1>11, <1>12
<1> HIDE DEF m
<1>14. Dedup(s, out) = Iter[1..m]
  BY <1>1, <1>5
<1> QED BY <1>13, <1>14 DEF A, m

IsGood(x) == \E g \in Goods : g.id = x.id /\ g.name = x.name
AreGood(s) == \A i \in DOMAIN s : IsGood(s[i])
\* The first find of the product x is in its category.
FirstFind(cands, x) ==
  \E k \in DOMAIN cands : cands[k].id = x.id /\ cands[k].name = x.name /\ cands[k].cat = x.cat /\ FirstAt(cands, k)
Single(items) == \A i, j \in DOMAIN items : items[i].cat = items[j].cat => i = j
Bought(cands, items) == \A i \in DOMAIN items : FirstFind(cands, items[i])
Given(items) == \A i \in DOMAIN items : items[i].sub # 0

\* A sum of known parts is 0 if there are none.
LEMMA SumIs ==
  ASSUME NEW items \in Seq(Items), Given(items)
  PROVE  SumUpTo(items) = 0 <=> items = <<>>
<1> DEFINE n == Len(items)
           step == [i \in 1..n |-> [x \in Nat |-> x + items[i].sub]]
           Body(f) == [i \in 0..n |-> IF i = 0 THEN 0 ELSE f[i - 1] + items[i].sub]
           Sum == CHOOSE f : f = Body(f)
<1>1. n \in Nat /\ DOMAIN items = 1..n /\ \A i \in 1..n : items[i].sub \in Nat \ {0}
  <2>1. n \in Nat /\ DOMAIN items = 1..n /\ \A i \in 1..n : items[i] \in Items
    OBVIOUS
  <2> HIDE DEF n
  <2>2. \A i \in 1..n : items[i].sub \in Subtotals /\ items[i].sub # 0
    BY <2>1 DEF Items, Given
  <2> QED BY <2>1, <2>2, DrawnAssumption
<1>2. StepsIn(step, n, Nat)
  <2> HIDE DEF n
  <2>1. \A i \in 1..n : \A x \in Nat : x + items[i].sub \in Nat
    BY <1>1
  <2>2. step \in [1..n -> [Nat -> Nat]]
    BY <2>1
  <2> HIDE DEF step
  <2> QED BY <2>2 DEF StepsIn
<1>3. PICK g : Unrolls(g, step, n, Nat, 0)
  <2> HIDE DEF n, step
  <2> QED BY <1>1, <1>2, RecursionExists
<1>4. g = Body(g)
  <2> HIDE DEF n
  <2>1. g \in [0..n -> Nat] /\ g[0] = 0
    BY <1>3 DEF Unrolls
  <2>2. \A i \in 1..n : g[i] = step[i][g[i - 1]] /\ g[i - 1] \in Nat
    <3> HIDE DEF step
    <3> QED BY <1>1, <1>3 DEF Unrolls
  <2>3. \A i \in 1..n : g[i] = g[i - 1] + items[i].sub
    BY <2>2
  <2> HIDE DEF step
  <2> QED BY <1>1, <2>1, <2>3
<1>5. Sum = Body(Sum)
  <2> HIDE DEF Body
  <2> QED BY <1>4
<1>6. SumUpTo(items) = Sum[n]
  BY DEF SumUpTo
<1> HIDE DEF Sum
<1>7. Sum[0] = 0 /\ \A i \in 1..n : Sum[i] = Sum[i - 1] + items[i].sub
  <2> HIDE DEF n
  <2> QED BY <1>1, <1>5
<1> DEFINE Bad == {i \in 1..n : ~(Sum[i] \in Nat \ {0})}
<1>8. Bad = {}
  <2> SUFFICES ASSUME Bad # {} PROVE FALSE
    OBVIOUS
  <2>1. Bad \in SUBSET Nat
    OBVIOUS
  <2>2. PICK i \in Bad : \A y \in Bad : i <= y
    BY <2>1, SmallestOne
  <2> HIDE DEF n
  <2>3. i \in 1..n /\ (i - 1 = 0 \/ (i - 1 \in 1..n /\ i - 1 \notin Bad))
    BY <1>1, <2>2
  <2>4. Sum[i - 1] \in Nat
    BY <1>7, <2>3
  <2>5. Sum[i] \in Nat \ {0}
    <3>1. Sum[i] = Sum[i - 1] + items[i].sub /\ items[i].sub \in Nat \ {0}
      BY <1>1, <1>7, <2>3
    <3> QED BY <2>4, <3>1
  <2> QED BY <2>2, <2>5
<1>9. CASE n = 0
  BY <1>6, <1>7, <1>9
<1>10. CASE n # 0
  <2>1. items # <<>>
    BY <1>10
  <2> HIDE DEF n
  <2>2. n \in 1..n
    BY <1>1, <1>10
  <2>3. Sum[n] \in Nat \ {0}
    BY <1>8, <2>2
  <2> QED BY <1>6, <2>1, <2>3
<1> QED BY <1>9, <1>10

\* Every product that is bought has an id of its own.
LEMMA CountIs ==
  ASSUME NEW cands \in Seq(Entries), NEW items \in Seq(Items), Bought(cands, items), Single(items)
  PROVE  /\ \A i, j \in DOMAIN items : items[i].id = items[j].id => i = j
         /\ Len(items) = Cardinality({x.id : x \in ToSet(items)})
<1> DEFINE S == {x.id : x \in ToSet(items)}
           f == [i \in 1..Len(items) |-> items[i].id]
<1>1. Len(items) \in Nat /\ DOMAIN items = 1..Len(items) /\ Len(cands) \in Nat /\ DOMAIN cands = 1..Len(cands)
  OBVIOUS
<1>2. ASSUME NEW i \in DOMAIN items, NEW j \in DOMAIN items, items[i].id = items[j].id PROVE i = j
  <2>1. PICK k \in DOMAIN cands : cands[k].id = items[i].id /\ cands[k].cat = items[i].cat /\ FirstAt(cands, k)
    BY DEF Bought, FirstFind
  <2>2. PICK l \in DOMAIN cands : cands[l].id = items[j].id /\ cands[l].cat = items[j].cat /\ FirstAt(cands, l)
    BY DEF Bought, FirstFind
  <2>3. k = l
    <3>1. ~(k < l) /\ ~(l < k)
      BY <1>1, <1>2, <2>1, <2>2 DEF FirstAt
    <3> QED BY <1>1, <3>1
  <2> QED BY <2>1, <2>2, <2>3 DEF Single
<1>3. f \in Bijection(1..Len(items), S)
  <2>1. f \in [1..Len(items) -> S]
    <3>1. \A i \in 1..Len(items) : items[i].id \in S
      BY <1>1 DEF ToSet
    <3> HIDE DEF S
    <3> QED BY <3>1
  <2>2. \A i, j \in 1..Len(items) : f[i] = f[j] => i = j
    BY <1>1, <1>2
  <2>3. \A x \in S : \E i \in 1..Len(items) : f[i] = x
    BY <1>1 DEF ToSet
  <2> HIDE DEF f, S
  <2>4. f \in Injection(1..Len(items), S) /\ f \in Surjection(1..Len(items), S)
    BY <2>1, <2>2, <2>3 DEF Injection, Surjection, IsInjective
  <2> QED BY <2>4 DEF Bijection
<1>4. Cardinality(1..Len(items)) = Len(items) /\ IsFiniteSet(1..Len(items))
  <2> DEFINE n == Len(items)
  <2>1. n \in Int /\ 1 \in Int /\ n >= 0
    BY <1>1
  <2> HIDE DEF n
  <2>2. IsFiniteSet(1..n) /\ Cardinality(1..n) = IF 1 > n THEN 0 ELSE n - 1 + 1
    BY <2>1, FS_Interval
  <2> QED BY <2>1, <2>2 DEF n
<1>5. ExistsBijection(1..Len(items), S)
  <2> HIDE DEF f, S
  <2> QED BY <1>3 DEF ExistsBijection
<1> HIDE DEF S, f
<1>6. Len(items) = Cardinality(S)
  BY <1>4, <1>5, FS_Bijection
<1> QED BY <1>2, <1>6 DEF S

\* A request takes a product by its first find.
LEMMA HitIsFirst ==
  ASSUME NEW cands \in Seq(Entries), NEW excl \in Seq(Entries), NEW ask,
         AreGood(cands), ToSet(excl) \subseteq ToSet(cands), Hits(cands \o excl, ask) # {}
  PROVE  FirstFind(cands, Hit(cands \o excl, ask))
<1> DEFINE pool == cands \o excl
           S == Hits(pool, ask)
           m == CHOOSE i \in S : \A j \in S : i <= j
<1>1. /\ Len(cands) \in Nat /\ Len(excl) \in Nat /\ DOMAIN cands = 1..Len(cands) /\ DOMAIN excl = 1..Len(excl)
      /\ DOMAIN pool = 1..(Len(cands) + Len(excl))
      /\ \A i \in 1 .. Len(cands) + Len(excl) : pool[i] = IF i <= Len(cands) THEN cands[i] ELSE excl[i - Len(cands)]
  BY ConcatProperties
<1>2. S \in SUBSET Nat /\ S # {} /\ S \subseteq DOMAIN pool
  <2> HIDE DEF pool
  <2> QED BY <1>1 DEF Hits, pool
<1>3. m \in S /\ \A y \in S : m <= y
  <2> HIDE DEF S
  <2>1. PICK k \in S : \A y \in S : k <= y
    BY <1>2, SmallestOne
  <2> QED BY <2>1
<1>4. Hit(pool, ask) = pool[m]
  BY DEF Hit
<1> HIDE DEF m, S, pool
<1>5. ASSUME NEW j \in DOMAIN pool, pool[j].id = pool[m].id, pool[j].name = pool[m].name PROVE m <= j
  <2>1. j \in S
    BY <1>3, <1>5 DEF S, Hits
  <2> QED BY <1>3, <2>1
<1>6. m <= Len(cands)
  <2> SUFFICES ASSUME ~(m <= Len(cands)) PROVE FALSE
    OBVIOUS
  <2>1. m \in DOMAIN pool
    BY <1>2, <1>3
  <2>2. m - Len(cands) \in DOMAIN excl /\ pool[m] = excl[m - Len(cands)]
    BY <1>1, <2>1
  <2>3. pool[m] \in ToSet(cands)
    BY <2>2 DEF ToSet
  <2>4. PICK j \in DOMAIN cands : cands[j] = pool[m]
    BY <2>3 DEF ToSet
  <2>5. j \in DOMAIN pool /\ pool[j] = pool[m] /\ j < m
    BY <1>1, <2>1, <2>4
  <2> QED BY <1>1, <1>5, <2>1, <2>5
<1>7. m \in DOMAIN cands /\ pool[m] = cands[m]
  BY <1>1, <1>2, <1>3, <1>6
<1>8. FirstAt(cands, m)
  <2> SUFFICES ASSUME NEW j \in 1..(m - 1), cands[j].id = cands[m].id PROVE FALSE
    BY DEF FirstAt
  <2>1. j \in DOMAIN cands /\ j \in DOMAIN pool /\ pool[j] = cands[j] /\ j < m
    BY <1>1, <1>7
  <2>2. cands[j].name = cands[m].name
    BY <1>7, <2>1, GoodsAssumption DEF AreGood, IsGood
  <2> QED BY <1>1, <1>5, <1>7, <2>1, <2>2
<1> QED BY <1>4, <1>7, <1>8 DEF FirstFind, pool

\* A first find stays one when more is found.
LEMMA FindsStay ==
  ASSUME NEW cands \in Seq(Entries), NEW new \in Seq(Entries), NEW x, FirstFind(cands, x)
  PROVE  FirstFind(cands \o new, x)
<1> DEFINE all == cands \o new
<1>1. /\ Len(cands) \in Nat /\ Len(new) \in Nat /\ DOMAIN cands = 1..Len(cands)
      /\ DOMAIN all = 1..(Len(cands) + Len(new))
      /\ \A i \in 1 .. Len(cands) + Len(new) : all[i] = IF i <= Len(cands) THEN cands[i] ELSE new[i - Len(cands)]
  BY ConcatProperties
<1> HIDE DEF all
<1>2. PICK k \in DOMAIN cands : cands[k].id = x.id /\ cands[k].name = x.name /\ cands[k].cat = x.cat /\ FirstAt(cands, k)
  BY DEF FirstFind
<1>3. k \in DOMAIN all /\ \A j \in 1..k : all[j] = cands[j]
  BY <1>1
<1>4. FirstAt(all, k) /\ all[k] = cands[k]
  BY <1>1, <1>2, <1>3 DEF FirstAt
<1> QED BY <1>2, <1>3, <1>4 DEF FirstFind, all

\* A merge keeps one product in each category.
LEMMA MergeKeeps ==
  ASSUME NEW cands, NEW items \in Seq(Items), NEW new \in Items,
         Single(items), Bought(cands, items), FirstFind(cands, new)
  PROVE  Single(Merge(items, new)) /\ Bought(cands, Merge(items, new))
<1> DEFINE r == Merge(items, new)
<1>1. DOMAIN items = 1..Len(items) /\ Len(items) \in Nat
  OBVIOUS
<1>2. CASE \A i \in DOMAIN items : items[i].cat # new.cat
  <2>1. r = Append(items, new)
    BY <1>2 DEF Merge
  <2>2. /\ DOMAIN r = 1..(Len(items) + 1) /\ r[Len(items) + 1] = new
        /\ \A i \in 1..Len(items) : r[i] = items[i]
    BY <2>1, AppendProperties
  <2> HIDE DEF r
  <2>3. Single(r)
    BY <1>1, <1>2, <2>2 DEF Single
  <2>4. Bought(cands, r)
    <3> SUFFICES ASSUME NEW i \in DOMAIN r PROVE FirstFind(cands, r[i])
      BY DEF Bought
    <3>1. CASE i \in 1..Len(items)
      BY <1>1, <2>2, <3>1 DEF Bought
    <3>2. CASE i = Len(items) + 1
      BY <2>2, <3>2
    <3> QED BY <1>1, <2>2, <3>1, <3>2
  <2> QED BY <2>3, <2>4 DEF r
<1>3. CASE \E i \in DOMAIN items : items[i].cat = new.cat
  <2>1. r = [i \in DOMAIN items |-> IF items[i].cat = new.cat THEN new ELSE items[i]]
    BY <1>3 DEF Merge
  <2>2. DOMAIN r = DOMAIN items /\ \A i \in DOMAIN items : r[i] = IF items[i].cat = new.cat THEN new ELSE items[i]
    BY <2>1
  <2> HIDE DEF r
  <2>3. Single(r)
    BY <2>2 DEF Single
  <2>4. Bought(cands, r)
    <3> SUFFICES ASSUME NEW i \in DOMAIN items PROVE FirstFind(cands, r[i])
      BY <2>2 DEF Bought
    <3>1. r[i] = new \/ r[i] = items[i]
      BY <2>2
    <3>2. FirstFind(cands, items[i])
      BY DEF Bought
    <3> QED BY <3>1, <3>2
  <2> QED BY <2>3, <2>4 DEF r
<1> QED BY <1>2, <1>3

\* What holds of acc and of the run's row, on top of PlanInv.
RowInv(p) ==
  /\ AreGood(p.cands) /\ ToSet(p.excl) \subseteq ToSet(p.cands)
  /\ Bought(p.cands, p.items) /\ Single(p.items)
  /\ p.total = Total(p.items)
RowsInv == PlanInv /\ RowInv(acc) /\ RowInv(products)

\* What is found again does not change which find is the first.
LEMMA SearchKeepsRow ==
  ASSUME RowsInv, NEW c \in Categories, NEW g \in Goods, Search(c, g)
  PROVE  RowInv(acc')
<1> DEFINE e == [id |-> g.id, name |-> g.name, cat |-> c]
           new == acc.cands \o <<e>>
<1>1. acc' = [acc EXCEPT !.cands = new] /\ IsRow(acc) /\ RowInv(acc)
  BY DEF Search, FoundFor, RowsInv, PlanInv
<1>2. e \in Entries /\ IsGood(e)
  BY GoodsAssumption DEF Entries, NameSet, IsGood
<1>3. acc.cands \in Seq(Entries) /\ <<e>> \in Seq(Entries) /\ Len(<<e>>) = 1 /\ <<e>>[1] = e
  <2> HIDE DEF e
  <2> QED BY <1>1, <1>2 DEF IsRow
<1> HIDE DEF e
<1>4. /\ Len(acc.cands) \in Nat /\ DOMAIN acc.cands = 1..Len(acc.cands)
      /\ DOMAIN new = 1..(Len(acc.cands) + 1)
      /\ \A i \in 1..(Len(acc.cands) + 1) : new[i] = IF i <= Len(acc.cands) THEN acc.cands[i] ELSE <<e>>[i - Len(acc.cands)]
  BY <1>3, ConcatProperties
<1>5. \A i \in 1..Len(acc.cands) : new[i] = acc.cands[i]
  <2> HIDE DEF new
  <2> QED BY <1>4
<1>6. new[Len(acc.cands) + 1] = e
  <2> HIDE DEF new
  <2> QED BY <1>3, <1>4
<1>7. Bought(new, acc.items)
  <2>1. \A i \in DOMAIN acc.items : FirstFind(acc.cands, acc.items[i])
    BY <1>1 DEF RowInv, Bought
  <2>2. \A i \in DOMAIN acc.items : FirstFind(new, acc.items[i])
    BY <1>3, <2>1, FindsStay
  <2> QED BY <2>2 DEF Bought
<1> HIDE DEF new
<1>8. AreGood(new)
  <2> SUFFICES ASSUME NEW i \in DOMAIN new PROVE IsGood(new[i])
    BY DEF AreGood
  <2>1. CASE i \in 1..Len(acc.cands)
    BY <1>1, <1>4, <1>5, <2>1 DEF RowInv, AreGood
  <2>2. CASE i = Len(acc.cands) + 1
    BY <1>2, <1>6, <2>2
  <2> QED BY <1>4, <2>1, <2>2
<1>9. ToSet(acc.cands) \subseteq ToSet(new)
  BY <1>4, <1>5 DEF ToSet
<1>10. acc'.cands = new /\ acc'.excl = acc.excl /\ acc'.items = acc.items /\ acc'.total = acc.total
  BY <1>1 DEF IsRow
<1> QED BY <1>1, <1>7, <1>8, <1>9, <1>10 DEF RowInv

\* What is dropped has been found.
LEMMA DropKeepsRow ==
  ASSUME RowsInv, NEW n, Drop(n)
  PROVE  RowInv(acc')
<1> DEFINE at == {i \in DOMAIN lists.cands : lists.cands[i].name = n}
           last == lists.cands[CHOOSE i \in at : \A j \in at : j <= i]
           new == Append(acc.excl, last)
<1>1. lists.cands = acc.cands /\ IsRow(acc) /\ RowInv(acc) /\ acc.cands \in Seq(Entries) /\ acc.excl \in Seq(Entries)
  BY DEF Drop, RowsInv, PlanInv, IsRow
<1>2. acc' = [acc EXCEPT !.excl = new] /\ at # {}
  BY DEF Drop
<1>3. last \in ToSet(acc.cands)
  <2>1. at \subseteq 1..Len(acc.cands) /\ Len(acc.cands) \in Nat /\ DOMAIN acc.cands = 1..Len(acc.cands)
    BY <1>1
  <2>2. \E i \in at : \A j \in at : j <= i
    <3> HIDE DEF at
    <3> QED BY <1>2, <2>1, MaxIs
  <2> HIDE DEF at
  <2>3. (CHOOSE i \in at : \A j \in at : j <= i) \in at
    BY <2>2
  <2>4. PICK k \in 1..Len(acc.cands) : last = acc.cands[k]
    BY <1>1, <2>1, <2>3
  <2> HIDE DEF last
  <2> QED BY <2>1, <2>4 DEF ToSet
<1> HIDE DEF last
<1>4. last \in Entries
  BY <1>1, <1>3 DEF ToSet
<1>5. ToSet(new) = ToSet(acc.excl) \cup {last}
  BY <1>1, <1>4, AppendedSet
<1> HIDE DEF new
<1>6. acc'.cands = acc.cands /\ acc'.excl = new /\ acc'.items = acc.items /\ acc'.total = acc.total
  BY <1>1, <1>2 DEF IsRow
<1> QED BY <1>1, <1>3, <1>5, <1>6 DEF RowInv

\* A decision takes a first find into its category, and adds up again.
LEMMA DecideKeepsRow ==
  ASSUME RowsInv, NEW ask \in Asks, Decide(ask)
  PROVE  RowInv(acc')
<1> DEFINE pool == lists.cands \o lists.excl
           hit == Hit(pool, ask)
           new == [id |-> hit.id, name |-> hit.name, cat |-> hit.cat, sub |-> ask.sub]
           items == Merge(acc.items, new)
           total == Total(items)
<1>1. /\ Hits(pool, ask) # {} /\ acc' = [acc EXCEPT !.items = items, !.total = total]
      /\ IsRow(acc) /\ RowInv(acc)
      /\ lists = [cands |-> acc.cands, excl |-> acc.excl]
  BY DEF Decide, RowsInv, PlanInv
<1>2. acc.cands \in Seq(Entries) /\ acc.excl \in Seq(Entries) /\ acc.items \in Seq(Items)
  BY <1>1 DEF IsRow
<1>3. pool = acc.cands \o acc.excl
  BY <1>1
<1>4. hit \in Entries /\ FirstFind(acc.cands, hit)
  <2>1. pool \in Seq(Entries)
    BY <1>2, <1>3
  <2> HIDE DEF pool
  <2>2. hit \in Entries
    BY <1>1, <2>1, HitIsInPool
  <2>3. FirstFind(acc.cands, hit)
    BY <1>1, <1>2, <1>3, HitIsFirst DEF RowInv
  <2> QED BY <2>2, <2>3
<1> HIDE DEF hit
<1>5. new \in Items /\ FirstFind(acc.cands, new)
  <2>1. ask.sub \in Subtotals
    BY DEF Asks
  <2>2. new \in Items
    BY <1>4, <2>1 DEF Entries, Items
  <2> QED BY <1>4, <2>2 DEF FirstFind
<1> HIDE DEF new
<1>6. Single(items) /\ Bought(acc.cands, items)
  BY <1>1, <1>2, <1>5, MergeKeeps DEF RowInv
<1> HIDE DEF items, total
<1>7. acc'.cands = acc.cands /\ acc'.excl = acc.excl /\ acc'.items = items /\ acc'.total = total
  BY <1>1 DEF IsRow
<1> QED BY <1>1, <1>6, <1>7 DEF RowInv, total

\* No step of a run breaks the invariant of its rows.
LEMMA RowsStepKeeps ==
  ASSUME RowsInv, [PlanNext]_planVars
  PROVE  RowsInv'
<1>1. PlanInv'
  BY PlanStepKeeps DEF RowsInv
<1>2. CASE \E c \in Categories, g \in Goods : Search(c, g)
  <2>1. PICK c \in Categories, g \in Goods : Search(c, g)
    BY <1>2
  <2>2. RowInv(acc') /\ products' = products
    BY <2>1, SearchKeepsRow DEF Search
  <2> QED BY <1>1, <2>2 DEF RowsInv, RowInv
<1>3. CASE \E n \in NameSet : Drop(n)
  <2>1. PICK n \in NameSet : Drop(n)
    BY <1>3
  <2>2. RowInv(acc') /\ products' = products
    BY <2>1, DropKeepsRow DEF Drop
  <2> QED BY <1>1, <2>2 DEF RowsInv, RowInv
<1>4. CASE \E r \in Asks : Decide(r)
  <2>1. PICK r \in Asks : Decide(r)
    BY <1>4
  <2>2. RowInv(acc') /\ products' = products
    BY <2>1, DecideKeepsRow DEF Decide
  <2> QED BY <1>1, <2>2 DEF RowsInv, RowInv
<1>5. CASE Ask \/ Resume \/ Continue \/ Finish \/ UNCHANGED planVars
  <2>1. acc' \in {acc, products} /\ products' \in {acc, products}
    BY <1>5 DEF Ask, Resume, Continue, Finish, planVars
  <2> QED BY <1>1, <2>1 DEF RowsInv, RowInv
<1> QED BY <1>2, <1>3, <1>4, <1>5 DEF PlanNext

\* What is excluded in the documents is not bought.
LEMMA ExcludedIsNotBought ==
  ASSUME NEW p, IsRow(p)
  PROVE  /\ EffectiveExcluded(p) \in Seq(Entries)
         /\ \A e \in ToSet(EffectiveExcluded(p)) : e.id \notin BoughtIds(p)
<1>1. p.excl \in Seq(Entries)
  BY DEF IsRow
<1>2. /\ Dedup(p.excl, BoughtIds(p)) \in Seq(Entries)
      /\ Whole(p.excl, Len(p.excl), BoughtIds(p), Dedup(p.excl, BoughtIds(p)))
  BY <1>1, DedupIs
<1> QED BY <1>2 DEF Whole, EffectiveExcluded

\* A bought product is drawn, where it was found first, if there is a place for
\* every find of a bought product.
LEMMA BoughtIsDrawn ==
  ASSUME NEW p, IsRow(p), RowInv(p), NEW x \in ToSet(p.items)
  PROVE  \/ Graph(p)[x.id] = "selected"
         \/ Cardinality(Crowd(p, x.cat)) > MAX_PER_CAT /\ Graph(p)[x.id] = "absent"
<1> DEFINE sel(i) == p.cands[i].id \in BoughtIds(p)
           before(i, j) == (sel(i) /\ ~sel(j)) \/ ((sel(i) <=> sel(j)) /\ i < j)
           ahead(i) == {j \in DOMAIN p.cands : p.cands[j].cat = p.cands[i].cat /\ before(j, i)}
           rank(i) == Cardinality(ahead(i))
           drawn == {p.cands[i].id : i \in {j \in DOMAIN p.cands : rank(j) < MAX_PER_CAT}}
           ex == EffectiveExcluded(p)
           pruned == {ex[i].id : i \in {j \in DOMAIN ex : j <= MAX_PER_CAT * 2}}
           C == Crowd(p, x.cat)
<1>1. /\ p.cands \in Seq(Entries) /\ p.excl \in Seq(Entries) /\ p.items \in Seq(Items)
      /\ DOMAIN p.cands = 1..Len(p.cands) /\ Len(p.cands) \in Nat
  BY DEF IsRow
<1>2. x.id \in BoughtIds(p)
  BY DEF BoughtIds
<1>3. PICK k \in DOMAIN p.cands : p.cands[k].id = x.id /\ p.cands[k].cat = x.cat /\ FirstAt(p.cands, k)
  <2>1. PICK i \in DOMAIN p.items : p.items[i] = x
    BY DEF ToSet
  <2> QED BY <2>1 DEF RowInv, Bought, FirstFind
<1>4. x.id \in Ids
  BY <1>3 DEF RowInv, AreGood, IsGood, Ids
<1>5. x.id \notin pruned
  <2>1. \A i \in DOMAIN ex : ex[i].id \notin BoughtIds(p)
    BY ExcludedIsNotBought DEF ToSet
  <2> HIDE DEF ex
  <2> QED BY <1>2, <2>1
<1>6. Graph(p)[x.id] = IF x.id \notin drawn THEN "absent" ELSE "selected"
  <2>1. Graph(p) = [i \in Ids |-> IF i \in pruned THEN "pruned"
                                  ELSE IF i \notin drawn THEN "absent"
                                  ELSE IF i \in BoughtIds(p) THEN "selected" ELSE "candidate"]
    BY DEF Graph
  <2> HIDE DEF pruned, drawn
  <2> QED BY <1>2, <1>4, <1>5, <2>1
<1>7. ahead(k) \subseteq C \ {k} /\ k \in C
  BY <1>1, <1>2, <1>3 DEF Crowd
<1>8. IsFiniteSet(C) /\ Cardinality(C) \in Nat
  <2>1. IsFiniteSet(1..Len(p.cands))
    BY <1>1, FS_Interval
  <2>2. C \in SUBSET (1..Len(p.cands))
    BY <1>1 DEF Crowd
  <2> HIDE DEF C
  <2>3. IsFiniteSet(C)
    BY <2>1, <2>2, FS_Subset
  <2> QED BY <2>3, FS_CardinalityType
<1>9. rank(k) \in Nat /\ rank(k) <= Cardinality(C) - 1
  <2> HIDE DEF C, ahead
  <2>1. IsFiniteSet(C \ {k}) /\ Cardinality(C \ {k}) = Cardinality(C) - 1
    BY <1>7, <1>8, FS_RemoveElement
  <2>2. IsFiniteSet(ahead(k)) /\ Cardinality(ahead(k)) <= Cardinality(C \ {k})
    BY <1>7, <2>1, FS_Subset
  <2>3. Cardinality(ahead(k)) \in Nat
    BY <2>2, FS_CardinalityType
  <2> QED BY <2>1, <2>2, <2>3
<1>10. CASE Cardinality(C) > MAX_PER_CAT
  <2> HIDE DEF drawn
  <2> QED BY <1>6, <1>10
<1>11. CASE ~(Cardinality(C) > MAX_PER_CAT)
  <2>1. rank(k) < MAX_PER_CAT
    <3> HIDE DEF rank, C
    <3> QED BY <1>8, <1>9, <1>11, DrawnAssumption
  <2>2. x.id \in drawn
    <3> HIDE DEF rank
    <3> QED BY <1>3, <2>1
  <2> HIDE DEF drawn
  <2> QED BY <1>6, <2>2
<1> QED BY <1>10, <1>11

\* The candidates of the documents are first finds, none with an excluded name.
LEMMA StageIs ==
  ASSUME NEW p, IsRow(p)
  PROVE  /\ StageState(p).items = p.items /\ StageState(p).excl = EffectiveExcluded(p)
         /\ BoughtIds(StageState(p)) = BoughtIds(p)
         /\ \A c \in StageState(p).cands :
              /\ \E i \in DOMAIN p.cands : p.cands[i] = c /\ FirstAt(p.cands, i)
              /\ \A e \in ToSet(EffectiveExcluded(p)) : e.name # c.name
         /\ \A i \in DOMAIN p.cands : \E c \in ToSet(p.cands) :
              /\ c.id = p.cands[i].id
              /\ c \in StageState(p).cands \/ \E e \in ToSet(EffectiveExcluded(p)) : e.name = c.name
<1> DEFINE d == Dedup(p.cands, {})
           ex == EffectiveExcluded(p)
           cs == {c \in ToSet(d) : \A e \in ToSet(ex) : e.name # c.name}
<1>1. p.cands \in Seq(Entries) /\ DOMAIN p.cands = 1..Len(p.cands)
  BY DEF IsRow
<1>2. d \in Seq(Entries) /\ Whole(p.cands, Len(p.cands), {}, d)
  BY <1>1, DedupIs
<1>3. StageState(p).items = p.items /\ StageState(p).excl = ex /\ StageState(p).cands = cs
  BY DEF StageState, IsRow
<1>4. BoughtIds(StageState(p)) = BoughtIds(p)
  BY <1>3 DEF BoughtIds
<1> HIDE DEF d, ex
<1>5. \A c \in cs : \E i \in DOMAIN p.cands : p.cands[i] = c /\ FirstAt(p.cands, i)
  BY <1>1, <1>2 DEF Whole
<1>6. ASSUME NEW i \in DOMAIN p.cands
      PROVE  \E c \in ToSet(p.cands) : /\ c.id = p.cands[i].id
                                       /\ c \in cs \/ \E e \in ToSet(ex) : e.name = c.name
  <2>1. PICK c \in ToSet(d) : c.id = p.cands[i].id
    BY <1>1, <1>2 DEF Whole
  <2>2. c \in ToSet(p.cands)
    BY <1>1, <1>2, <2>1 DEF Whole, ToSet
  <2> QED BY <2>1, <2>2
<1>7. \A c \in cs : \A e \in ToSet(ex) : e.name # c.name
  OBVIOUS
<1> HIDE DEF cs
<1> QED BY <1>3, <1>4, <1>5, <1>6, <1>7 DEF ex

\* The list has a row for each product, and all sums are that of the row.
LEMMA SumsAgree ==
  ASSUME NEW p, IsRow(p), RowInv(p), NEW s, s = StageState(p)
  PROVE  /\ {row.id : row \in ToSet(ListDoc(s).rows)} = PlanDoc(s).bought
         /\ Len(ListDoc(s).rows) = Cardinality(PlanDoc(s).bought)
         /\ PlanDoc(s).total = p.total
         /\ (p.total = 0) = (BudgetDoc(s).missing # {} \/ s.items = <<>>)
<1> DEFINE R == [id : Nat \ {0}, cat : Categories, sub : Subtotals]
           rows0 == [i \in DOMAIN p.items |-> [id |-> p.items[i].id, cat |-> p.items[i].cat, sub |-> p.items[i].sub]]
<1>1. /\ p.cands \in Seq(Entries) /\ p.items \in Seq(Items) /\ s.items = p.items /\ BoughtIds(s) = BoughtIds(p)
      /\ Bought(p.cands, p.items) /\ Single(p.items) /\ p.total = Total(p.items)
  BY StageIs DEF IsRow, RowInv
<1>2. /\ DOMAIN p.items = 1..Len(p.items) /\ Len(p.items) \in Nat
      /\ \A i \in 1..Len(p.items) : p.items[i] \in Items
  BY <1>1
<1>3. PlanDoc(s).bought = BoughtIds(p) /\ PlanDoc(s).total = Total(p.items)
  BY <1>1 DEF PlanDoc
<1>4. ListDoc(s).rows = rows0
  BY <1>1 DEF ListDoc
<1>5. DOMAIN rows0 = DOMAIN p.items /\ \A i \in DOMAIN p.items : rows0[i].id = p.items[i].id
  OBVIOUS
<1>6. Len(rows0) = Len(p.items)
  <2>1. \A i \in 1..Len(p.items) : rows0[i] \in R
    BY <1>2 DEF Items
  <2>2. rows0 \in [1..Len(p.items) -> R]
    <3>1. rows0 = [i \in 1..Len(p.items) |-> rows0[i]]
      BY <1>2
    <3> HIDE DEF rows0, R
    <3> QED BY <2>1, <3>1
  <2> HIDE DEF rows0, R
  <2>3. rows0 \in Seq(R)
    BY <1>2, <2>2, SeqDef
  <2>4. DOMAIN rows0 = 1..Len(rows0) /\ Len(rows0) \in Nat
    BY <2>3
  <2> QED BY <1>2, <1>5, <2>4
<1> HIDE DEF rows0
<1>7. {row.id : row \in ToSet(rows0)} = BoughtIds(p)
  BY <1>5 DEF ToSet, BoughtIds
<1>8. Len(p.items) = Cardinality(BoughtIds(p))
  BY <1>1, CountIs DEF BoughtIds
<1>9. BudgetDoc(s).missing # {} <=> ~Given(p.items)
  <2>1. BudgetDoc(s).missing = {i.cat : i \in {j \in ToSet(p.items) : j.sub = 0}}
    BY <1>1 DEF BudgetDoc
  <2> QED BY <2>1 DEF Given, ToSet
<1>10. Total(p.items) = IF Given(p.items) THEN SumUpTo(p.items) ELSE 0
  BY DEF Total, Given
<1>11. p.total = 0 <=> (~Given(p.items) \/ p.items = <<>>)
  <2>1. Given(p.items) => (SumUpTo(p.items) = 0 <=> p.items = <<>>)
    BY <1>1, SumIs
  <2> QED BY <1>1, <1>10, <2>1
<1>12. (p.total = 0) = (BudgetDoc(s).missing # {} \/ s.items = <<>>)
  BY <1>1, <1>9, <1>11
<1> QED BY <1>1, <1>3, <1>4, <1>6, <1>7, <1>8, <1>12

\* Nothing that is bought is an alternative or excluded.
LEMMA NoneIsBoth ==
  ASSUME NEW p, IsRow(p), RowInv(p), NEW s, s = StageState(p)
  PROVE  \A d \in {PlanDoc(s), ReportDoc(s)} : d.bought \cap (d.others \cup d.excluded) = {}
<1>1. /\ p.cands \in Seq(Entries) /\ p.items \in Seq(Items) /\ s.items = p.items /\ BoughtIds(s) = BoughtIds(p)
      /\ s.excl = EffectiveExcluded(p)
      /\ Len(p.cands) \in Nat /\ DOMAIN p.cands = 1..Len(p.cands)
  BY StageIs DEF IsRow
<1>2. \A e \in ToSet(s.excl) : e.id \notin BoughtIds(s)
  BY <1>1, ExcludedIsNotBought
<1>3. PlanDoc(s).bought \cap (PlanDoc(s).others \cup PlanDoc(s).excluded) = {}
  BY <1>2 DEF PlanDoc
<1>4. ASSUME NEW i \in ToSet(s.items), NEW c \in s.cands, c.cat = i.cat, c.name # i.name
      PROVE  c.id \notin BoughtIds(s)
  <2> SUFFICES ASSUME c.id \in BoughtIds(s) PROVE FALSE
    OBVIOUS
  <2>1. PICK a \in DOMAIN p.items : p.items[a].id = c.id
    BY <1>1 DEF BoughtIds, ToSet
  <2>2. PICK b \in DOMAIN p.items : p.items[b] = i
    BY <1>1 DEF ToSet
  <2>3. PICK k \in DOMAIN p.cands : /\ p.cands[k].id = c.id /\ p.cands[k].name = p.items[a].name
                                    /\ p.cands[k].cat = p.items[a].cat /\ FirstAt(p.cands, k)
    <3>1. FirstFind(p.cands, p.items[a])
      BY DEF RowInv, Bought
    <3> QED BY <2>1, <3>1 DEF FirstFind
  <2>4. PICK l \in DOMAIN p.cands : p.cands[l] = c /\ FirstAt(p.cands, l)
    BY StageIs
  <2>5. k = l
    <3>1. ~(k < l) /\ ~(l < k)
      BY <1>1, <2>3, <2>4 DEF FirstAt
    <3> QED BY <1>1, <3>1
  <2>6. a = b
    BY <1>4, <2>2, <2>3, <2>4, <2>5 DEF RowInv, Single
  <2> QED BY <1>4, <2>2, <2>3, <2>4, <2>5, <2>6
<1>5. ReportDoc(s).bought \cap (ReportDoc(s).others \cup ReportDoc(s).excluded) = {}
  <2>1. ReportDoc(s).bought = BoughtIds(s)
    BY DEF ReportDoc
  <2>2. ASSUME NEW x \in ReportDoc(s).others PROVE x \notin BoughtIds(s)
    <3>1. PICK i \in ToSet(s.items), c \in s.cands : x = c.id /\ c.cat = i.cat /\ c.name # i.name
      BY DEF ReportDoc
    <3> QED BY <1>4, <3>1
  <2>3. ASSUME NEW x \in ReportDoc(s).excluded PROVE x \notin BoughtIds(s)
    <3>1. PICK e \in ToSet(s.excl) : x = e.id
      BY DEF ReportDoc
    <3> QED BY <1>2, <3>1
  <2> QED BY <2>1, <2>2, <2>3
<1> QED BY <1>3, <1>5

\* The table marks what is bought, unless its name is excluded.
LEMMA TableIs ==
  ASSUME NEW p, IsRow(p), RowInv(p), NEW s, s = StageState(p), NEW x \in ToSet(p.items)
  PROVE  /\ CompareDoc(s)[x.id] = IF \E e \in ToSet(s.excl) : e.name = x.name THEN "absent" ELSE "selected"
         /\ \A y \in ToSet(p.items) : y.id = x.id => y.name = x.name
<1>1. /\ p.cands \in Seq(Entries) /\ BoughtIds(s) = BoughtIds(p) /\ s.excl = EffectiveExcluded(p)
      /\ AreGood(p.cands) /\ Bought(p.cands, p.items)
  BY StageIs DEF IsRow, RowInv
<1>2. x.id \in BoughtIds(s)
  BY <1>1 DEF BoughtIds
<1>3. \A y \in ToSet(p.items) : \E k \in DOMAIN p.cands : p.cands[k].id = y.id /\ p.cands[k].name = y.name
  BY <1>1 DEF Bought, FirstFind, ToSet
<1>4. \A c, d \in ToSet(p.cands) : c.id = d.id => c.name = d.name
  BY <1>1, GoodsAssumption DEF AreGood, IsGood, ToSet
<1>5. PICK k \in DOMAIN p.cands : p.cands[k].id = x.id /\ p.cands[k].name = x.name
  BY <1>3
<1>6. p.cands[k] \in ToSet(p.cands) /\ x.id \in Ids
  BY <1>1, <1>5 DEF ToSet, AreGood, IsGood, Ids
<1>7. \A y \in ToSet(p.items) : y.id = x.id => y.name = x.name
  <2> TAKE y \in ToSet(p.items)
  <2>1. PICK l \in DOMAIN p.cands : p.cands[l].id = y.id /\ p.cands[l].name = y.name
    BY <1>3
  <2>2. p.cands[l] \in ToSet(p.cands)
    BY DEF ToSet
  <2> QED BY <1>4, <1>5, <1>6, <2>1, <2>2
<1>8. CompareDoc(s)[x.id] = IF \E c \in s.cands : c.id = x.id THEN "selected"
                            ELSE IF \E e \in ToSet(s.excl) : e.id = x.id THEN "pruned" ELSE "absent"
  BY <1>2, <1>6 DEF CompareDoc
<1>9. ~\E e \in ToSet(s.excl) : e.id = x.id
  BY <1>1, <1>2, ExcludedIsNotBought
<1>10. CASE \E e \in ToSet(s.excl) : e.name = x.name
  <2>1. PICK e \in ToSet(s.excl) : e.name = x.name
    BY <1>10
  <2>2. \A c \in s.cands : c.id # x.id
    <3> SUFFICES ASSUME NEW c \in s.cands, c.id = x.id PROVE FALSE
      OBVIOUS
    <3>1. /\ \E i \in DOMAIN p.cands : p.cands[i] = c
          /\ \A f \in ToSet(s.excl) : f.name # c.name
      BY <1>1, StageIs
    <3>2. c \in ToSet(p.cands) /\ e.name # c.name
      BY <2>1, <3>1 DEF ToSet
    <3> QED BY <1>4, <1>5, <1>6, <2>1, <3>2
  <2> QED BY <1>7, <1>8, <1>9, <1>10, <2>2
<1>11. CASE \A e \in ToSet(s.excl) : e.name # x.name
  <2>1. PICK c \in ToSet(p.cands) : /\ c.id = p.cands[k].id
                                    /\ c \in s.cands \/ \E e \in ToSet(s.excl) : e.name = c.name
    BY <1>1, StageIs
  <2>2. c.name = x.name
    BY <1>4, <1>5, <1>6, <2>1
  <2>3. c \in s.cands /\ c.id = x.id
    BY <1>5, <1>11, <2>1, <2>2
  <2> QED BY <1>7, <1>8, <1>11, <2>3
<1> QED BY <1>7, <1>10, <1>11

\* What is not bought is nowhere marked as bought.
LEMMA OthersAreNot ==
  ASSUME NEW p, NEW s, BoughtIds(s) = BoughtIds(p), NEW i \in Ids \ BoughtIds(s)
  PROVE  Graph(p)[i] # "selected" /\ CompareDoc(s)[i] # "selected"
<1>1. CompareDoc(s)[i] # "selected"
  BY DEF CompareDoc
<1>2. Graph(p)[i] # "selected"
  <2> DEFINE sel(k) == p.cands[k].id \in BoughtIds(p)
             before(k, j) == (sel(k) /\ ~sel(j)) \/ ((sel(k) <=> sel(j)) /\ k < j)
             rank(k) == Cardinality({j \in DOMAIN p.cands : p.cands[j].cat = p.cands[k].cat /\ before(j, k)})
             drawn == {p.cands[k].id : k \in {j \in DOMAIN p.cands : rank(j) < MAX_PER_CAT}}
             ex == EffectiveExcluded(p)
             pruned == {ex[k].id : k \in {j \in DOMAIN ex : j <= MAX_PER_CAT * 2}}
  <2>1. Graph(p) = [k \in Ids |-> IF k \in pruned THEN "pruned"
                                  ELSE IF k \notin drawn THEN "absent"
                                  ELSE IF k \in BoughtIds(p) THEN "selected" ELSE "candidate"]
    BY DEF Graph
  <2> HIDE DEF pruned, drawn
  <2> QED BY <2>1
<1> QED BY <1>1, <1>2

\* When a planning run rests, its documents buy the same products for the same sum,
\* and none of these is offered as an alternative or called excluded; the table
\* marks each of them that no excluded name hides, and the graph draws each of them
\* for which its category has a place. For any products, searches, exclusions,
\* decisions and rounds (planning_service, stages).
THEOREM DocumentsAgree == PlanSafety => []DocsAgree
<1>1. PlanInit => RowsInv
  <2> SUFFICES ASSUME PlanInit PROVE RowsInv
    OBVIOUS
  <2>1. PlanInv /\ acc = Nothing /\ products = Nothing
    BY PlanStarts DEF PlanInit
  <2>2. \A i \in DOMAIN <<>> : FALSE
    OBVIOUS
  <2>3. Total(<<>>) = 0
    <3>1. <<>> \in Seq(Items) /\ Given(<<>>)
      BY EmptySeq, <2>2 DEF Given
    <3>2. SumUpTo(<<>>) = 0
      BY <3>1, SumIs
    <3> QED BY <3>2 DEF Total
  <2>4. RowInv(Nothing)
    BY <2>2, <2>3 DEF RowInv, Nothing, AreGood, Bought, Single, ToSet
  <2> QED BY <2>1, <2>4 DEF RowsInv
<1>2. RowsInv /\ [PlanNext]_planVars => RowsInv'
  BY RowsStepKeeps
<1>3. RowsInv => DocsAgree
  <2> SUFFICES ASSUME RowsInv PROVE DocsAgree
    OBVIOUS
  <2> DEFINE s == StageState(products)
             hidden == {i.id : i \in {j \in ToSet(s.items) : \E e \in ToSet(s.excl) : e.name = j.name}}
  <2>1. IsRow(products) /\ RowInv(products)
    BY DEF RowsInv, PlanInv
  <2>2. s.items = products.items /\ BoughtIds(s) = BoughtIds(products)
    BY <2>1, StageIs
  <2> HIDE DEF s
  <2>3. /\ {row.id : row \in ToSet(ListDoc(s).rows)} = PlanDoc(s).bought
        /\ Len(ListDoc(s).rows) = Cardinality(PlanDoc(s).bought)
        /\ PlanDoc(s).total = products.total
        /\ (products.total = 0) = (BudgetDoc(s).missing # {} \/ s.items = <<>>)
    BY <2>1, SumsAgree DEF s
  <2>4. \A d \in {PlanDoc(s), ReportDoc(s)} : d.bought \cap (d.others \cup d.excluded) = {}
    BY <2>1, NoneIsBoth DEF s
  <2>5. \A i \in BoughtIds(s) : CompareDoc(s)[i] = IF i \in hidden THEN "absent" ELSE "selected"
    <3> TAKE i \in BoughtIds(s)
    <3>1. PICK x \in ToSet(products.items) : x.id = i
      BY <2>2 DEF BoughtIds
    <3>2. /\ CompareDoc(s)[x.id] = IF \E e \in ToSet(s.excl) : e.name = x.name THEN "absent" ELSE "selected"
          /\ \A y \in ToSet(products.items) : y.id = x.id => y.name = x.name
      BY <2>1, TableIs DEF s
    <3>3. i \in hidden <=> \E e \in ToSet(s.excl) : e.name = x.name
      BY <2>2, <3>1, <3>2
    <3> HIDE DEF hidden
    <3> QED BY <3>1, <3>2, <3>3
  <2>6. \A i \in ToSet(products.items) :
          \/ Graph(products)[i.id] = "selected"
          \/ Cardinality(Crowd(products, i.cat)) > MAX_PER_CAT /\ Graph(products)[i.id] = "absent"
    BY <2>1, BoughtIsDrawn
  <2>7. \A i \in Ids \ BoughtIds(s) : Graph(products)[i] # "selected" /\ CompareDoc(s)[i] # "selected"
    BY <2>2, OthersAreNot
  <2> QED BY <2>3, <2>4, <2>5, <2>6, <2>7 DEF DocsAgree, s
<1> QED BY <1>1, <1>2, <1>3, PTL DEF PlanSafety

-----------------------------------------------------------------------------
(***************************************************************************)
(* GiftPicks. The number of times that an offer is in a list is kept       *)
(* through the steps: in the first round the service's list has those of   *)
(* the agent and those of the calls that are back, whichever they are.     *)
(***************************************************************************)
GiftOffers == [id : Nat \ {0}, name : GiftNames]
GiftLists == Seq(GiftOffers)

\* The places of an offer in a list, and their number.
Places(s, o) == {i \in DOMAIN s : s[i] = o}
Num(s, o) == Cardinality(Places(s, o))

\* The places of an offer are finitely many; there is one if it is in the list.
LEMMA NumIs ==
  ASSUME NEW s \in GiftLists, NEW o
  PROVE  /\ IsFiniteSet(Places(s, o)) /\ Num(s, o) \in Nat
         /\ Num(s, o) # 0 <=> o \in ToSet(s)
<1>1. Places(s, o) \in SUBSET (1..Len(s)) /\ IsFiniteSet(1..Len(s))
  <2>1. Len(s) \in Nat /\ DOMAIN s = 1..Len(s)
    BY DEF GiftLists
  <2> QED BY <2>1, FS_Interval DEF Places
<1>2. IsFiniteSet(Places(s, o))
  BY <1>1, FS_Subset
<1>3. Num(s, o) \in Nat /\ (Num(s, o) = 0 <=> Places(s, o) = {})
  BY <1>2, FS_CardinalityType, FS_EmptySet DEF Num
<1>4. Places(s, o) # {} <=> o \in ToSet(s)
  BY DEF Places, ToSet, GiftLists
<1> QED BY <1>2, <1>3, <1>4

\* In two lists, one after the other, an offer is as often as in both.
LEMMA NumOfBoth ==
  ASSUME NEW a \in GiftLists, NEW b \in GiftLists, NEW o
  PROVE  Num(a \o b, o) = Num(a, o) + Num(b, o)
<1> DEFINE moved(i) == Len(a) + i
           Later == {moved(i) : i \in Places(b, o)}
           f == [i \in Places(b, o) |-> moved(i)]
<1>1. /\ Len(a) \in Nat /\ Len(b) \in Nat /\ DOMAIN a = 1..Len(a) /\ DOMAIN b = 1..Len(b)
      /\ DOMAIN (a \o b) = 1..(Len(a) + Len(b))
      /\ \A i \in 1 .. Len(a) + Len(b) : (a \o b)[i] = IF i <= Len(a) THEN a[i] ELSE b[i - Len(a)]
  BY ConcatProperties DEF GiftLists
<1>2. Places(a \o b, o) = Places(a, o) \cup Later
  <2>1. ASSUME NEW i \in Places(a, o) PROVE i \in Places(a \o b, o)
    BY <1>1 DEF Places
  <2>2. ASSUME NEW j \in Places(b, o) PROVE moved(j) \in Places(a \o b, o)
    <3>1. j \in 1..Len(b) /\ b[j] = o
      BY <1>1 DEF Places
    <3>2. moved(j) \in 1..(Len(a) + Len(b)) /\ ~(moved(j) <= Len(a)) /\ moved(j) - Len(a) = j
      BY <1>1, <3>1
    <3> HIDE DEF moved
    <3> QED BY <1>1, <3>1, <3>2 DEF Places
  <2>3. ASSUME NEW i \in Places(a \o b, o), i \notin Places(a, o) PROVE i \in Later
    <3>1. i \in 1..(Len(a) + Len(b)) /\ (a \o b)[i] = o
      BY <1>1 DEF Places
    <3>2. ~(i <= Len(a))
      BY <1>1, <2>3, <3>1 DEF Places
    <3>3. i - Len(a) \in 1..Len(b) /\ b[i - Len(a)] = o /\ moved(i - Len(a)) = i
      BY <1>1, <3>1, <3>2
    <3>4. i - Len(a) \in Places(b, o)
      BY <1>1, <3>3 DEF Places
    <3> HIDE DEF moved
    <3> QED BY <3>3, <3>4
  <2> HIDE DEF moved
  <2> QED BY <2>1, <2>2, <2>3
<1>3. Places(a, o) \cap Later = {}
  <2>1. \A i \in Places(a, o) : i \in Nat /\ i <= Len(a)
    BY <1>1 DEF Places
  <2>2. \A i \in Places(b, o) : i \in Nat /\ i > 0
    BY <1>1 DEF Places
  <2> QED BY <1>1, <2>1, <2>2
<1>4. IsFiniteSet(Later) /\ Cardinality(Later) = Num(b, o)
  <2>1. \A i \in Places(b, o) : i \in Nat
    BY <1>1 DEF Places
  <2>2. f \in [Places(b, o) -> Later] /\ (\A i, j \in Places(b, o) : f[i] = f[j] => i = j)
    BY <1>1, <2>1
  <2>3. \A t \in Later : \E i \in Places(b, o) : f[i] = t
    OBVIOUS
  <2>4. f \in Bijection(Places(b, o), Later)
    <3> HIDE DEF f, Later
    <3> QED BY <2>2, <2>3, Fun_IsBij
  <2>5. ExistsBijection(Places(b, o), Later)
    <3> HIDE DEF f, Later
    <3> QED BY <2>4, Fun_ExistsBij
  <2> HIDE DEF Later
  <2> QED BY <2>5, NumIs, FS_Bijection DEF Num
<1>5. IsFiniteSet(Places(a, o)) /\ Num(a, o) \in Nat /\ Num(b, o) \in Nat
  BY NumIs
<1> HIDE DEF Later
<1>6. Cardinality(Places(a, o) \cup Later) = Cardinality(Places(a, o)) + Cardinality(Later) - Cardinality(Places(a, o) \cap Later)
  BY <1>4, <1>5, FS_Union
<1>7. Cardinality(Places(a, o) \cap Later) = 0
  BY <1>3, FS_EmptySet
<1> QED BY <1>2, <1>4, <1>5, <1>6, <1>7 DEF Num

\* The counts of two lists, one after the other, are those of both together.
LEMMA CountedBoth ==
  ASSUME NEW a \in GiftLists, NEW b \in GiftLists
  PROVE  Counted(a \o b) = Counted(a) (+) Counted(b)
<1>1. a \o b \in GiftLists /\ ToSet(a \o b) = ToSet(a) \cup ToSet(b)
  <2>1. a \o b \in GiftLists
    BY ConcatProperties DEF GiftLists
  <2>2. \A o : o \in ToSet(a \o b) <=> o \in ToSet(a) \/ o \in ToSet(b)
    <3> TAKE o
    <3>1. Num(a \o b, o) = Num(a, o) + Num(b, o) /\ Num(a, o) \in Nat /\ Num(b, o) \in Nat
      BY NumOfBoth, NumIs
    <3> QED BY <2>1, <3>1, NumIs
  <2> QED BY <2>1, <2>2
<1>2. \A s : Counted(s) = [o \in ToSet(s) |-> Num(s, o)]
  BY DEF Counted, Num, Places
<1>3. ASSUME NEW o \in ToSet(a \o b)
      PROVE  Num(a \o b, o) = (IF o \in ToSet(a) THEN Num(a, o) ELSE 0) + (IF o \in ToSet(b) THEN Num(b, o) ELSE 0)
  BY NumOfBoth, NumIs
<1> DEFINE A == Counted(a)
           B == Counted(b)
<1>4. A (+) B = [o \in DOMAIN A \cup DOMAIN B |-> (IF o \in DOMAIN A THEN A[o] ELSE 0) + (IF o \in DOMAIN B THEN B[o] ELSE 0)]
  BY DEF (+)
<1>5. DOMAIN A = ToSet(a) /\ DOMAIN B = ToSet(b) /\ (\A o \in ToSet(a) : A[o] = Num(a, o)) /\ (\A o \in ToSet(b) : B[o] = Num(b, o))
  BY <1>2
<1> HIDE DEF A, B
<1>6. A (+) B = [o \in ToSet(a \o b) |-> Num(a \o b, o)]
  BY <1>1, <1>3, <1>4, <1>5
<1> QED BY <1>2, <1>6 DEF A, B

NamesOf(s) == {s[i].name : i \in DOMAIN s}

\* Named finds an offer of that name, if there is one.
LEMMA NamedIs ==
  ASSUME NEW list \in GiftLists, NEW n
  PROVE  /\ Named(list, n) # 0 => Named(list, n) \in DOMAIN list /\ list[Named(list, n)].name = n
         /\ n \in NamesOf(list) => Named(list, n) # 0
<1> DEFINE Fits == {i \in 1..Len(list) : list[i].name = n}
<1>1. Len(list) \in Nat /\ DOMAIN list = 1..Len(list)
  BY DEF GiftLists
<1>2. Named(list, n) = IF Fits # {} THEN Max(Fits) ELSE 0
  BY DEF Named, SelectLastInSeq
<1>3. Fits # {} => Max(Fits) \in Fits
  BY <1>1, MaxIs
<1>4. \A i \in Fits : i # 0 /\ i \in DOMAIN list /\ list[i].name = n
  BY <1>1
<1>5. n \in NamesOf(list) => Fits # {}
  BY <1>1 DEF NamesOf
<1> HIDE DEF Fits
<1> QED BY <1>2, <1>3, <1>4, <1>5

\* What Offers keeps is in the list.
LEMMA OffersAre ==
  ASSUME NEW list \in GiftLists, NEW names \in Seq(GiftNames)
  PROVE  Offers(list, names) \in GiftLists /\ NamesOf(Offers(list, names)) \subseteq NamesOf(list)
<1> DEFINE A == {s \in GiftLists : NamesOf(s) \subseteq NamesOf(list)}
           m == Len(names)
           passed(s, n) == IF Named(list, n) = 0 THEN s ELSE Append(s, list[Named(list, n)])
           step == [s \in A |-> [n \in GiftNames |-> passed(s, n)]]
<1>1. m \in Nat /\ names \in [1..m -> GiftNames] /\ DOMAIN names = 1..m
  OBVIOUS
<1>2. <<>> \in A
  BY EmptySeq DEF GiftLists, NamesOf
<1>3. step \in [A -> [GiftNames -> A]]
  <2>1. ASSUME NEW s \in A, NEW n \in GiftNames PROVE passed(s, n) \in A
    <3>1. CASE Named(list, n) = 0
      BY <3>1
    <3>2. CASE Named(list, n) # 0
      <4> DEFINE x == list[Named(list, n)]
      <4>1. x \in GiftOffers /\ x.name \in NamesOf(list)
        BY <3>2, NamedIs DEF GiftLists, NamesOf
      <4>2. s \in GiftLists /\ NamesOf(s) \subseteq NamesOf(list)
        OBVIOUS
      <4> HIDE DEF x
      <4>3. Append(s, x) \in GiftLists /\ \A i \in DOMAIN Append(s, x) : Append(s, x)[i] = x \/ (i \in DOMAIN s /\ Append(s, x)[i] = s[i])
        BY <4>1, <4>2, AppendProperties DEF GiftLists
      <4>4. NamesOf(Append(s, x)) \subseteq NamesOf(list)
        BY <4>1, <4>2, <4>3 DEF NamesOf
      <4>5. passed(s, n) = Append(s, x)
        BY <3>2 DEF x
      <4> QED BY <4>3, <4>4, <4>5
    <3> QED BY <3>1, <3>2
  <2> HIDE DEF A, passed
  <2> QED BY <2>1
<1>4. PICK it : Folds(it, step, m, A, <<>>, names)
  <2> HIDE DEF A, step, m
  <2> QED BY <1>1, <1>2, <1>3, FoldExists
<1> DEFINE Body(f) == [s \in SUBSET (DOMAIN names) |->
                         IF s = {} THEN <<>> ELSE passed(f[s \ {Max(s)}], names[Max(s)])]
           Iter == CHOOSE f : f = Body(f)
<1>5. Offers(list, names) = Iter[DOMAIN names]
  BY DEF Offers, FoldLeft, MapThenFoldSet
<1>6. \A f, s : f \in [SUBSET (1..m) -> A] /\ s \in SUBSET (1..m) /\ s # {} =>
        step[f[s \ {Max(s)}]][names[Max(s)]] = passed(f[s \ {Max(s)}], names[Max(s)])
  <2> TAKE f, s
  <2> HAVE f \in [SUBSET (1..m) -> A] /\ s \in SUBSET (1..m) /\ s # {}
  <2>1. Max(s) \in 1..m /\ s \ {Max(s)} \in SUBSET (1..m)
    BY <1>1, MaxIs
  <2> HIDE DEF A, passed
  <2>2. f[s \ {Max(s)}] \in A /\ names[Max(s)] \in GiftNames
    BY <1>1, <2>1
  <2> QED BY <2>2
<1>7. it = Body(it)
  <2> HIDE DEF A, passed, step, m
  <2> QED BY <1>1, <1>4, <1>6 DEF Folds
<1>8. Iter = Body(Iter)
  <2> HIDE DEF Body
  <2> QED BY <1>7
<1>9. Iter[1..0] \in A
  <2>1. 1..0 = {}
    OBVIOUS
  <2> HIDE DEF A, Iter
  <2> QED BY <1>2, <1>8, <2>1
<1>10. ASSUME NEW k \in 1..m, Iter[1..(k - 1)] \in A PROVE Iter[1..k] \in A
  <2>1. /\ 1..k \in SUBSET (1..m) /\ 1..k # {} /\ Max(1..k) = k
        /\ (1..k) \ {Max(1..k)} = 1..(k - 1)
    BY <1>1, FoldSteps
  <2> HIDE DEF A, passed, Iter, step
  <2>2. Iter[1..k] = passed(Iter[1..(k - 1)], names[k])
    BY <1>1, <1>8, <2>1
  <2>3. passed(Iter[1..(k - 1)], names[k]) = step[Iter[1..(k - 1)]][names[k]] /\ names[k] \in GiftNames
    BY <1>1, <1>10 DEF step
  <2> QED BY <1>3, <1>10, <2>2, <2>3
<1> HIDE DEF Iter
<1>11. Iter[1..m] \in A
  <2> HIDE DEF A, m
  <2>1. BegunIn(Iter, m, A)
    BY <1>9, <1>10 DEF BegunIn
  <2> QED BY <1>1, <2>1, FoldStays
<1> QED BY <1>1, <1>5, <1>11

GiftUpdates == [picked : GiftLists, excluded : GiftLists, plan : GiftLists, message : GiftLists]
BothLists == {"picked", "excluded"}
\* GiftUpdates whose offers found have names of N.
Among(N) == {u \in GiftUpdates : NamesOf(u.picked) \subseteq N}

\* A merged update is one; what is found and ruled out has grown.
LEMMA MergedIs ==
  ASSUME NEW r \in GiftUpdates, NEW u \in GiftUpdates
  PROVE  /\ MergedLists(r, u) \in GiftUpdates
         /\ \A key \in BothLists : MergedLists(r, u)[key] = r[key] \o u[key] /\ r[key] \in GiftLists /\ u[key] \in GiftLists
         /\ NamesOf(MergedLists(r, u).picked) = NamesOf(r.picked) \cup NamesOf(u.picked)
         /\ MergedLists(r, u).plan \in {r.plan, u.plan}
<1>1. /\ r.picked \in GiftLists /\ r.excluded \in GiftLists /\ r.plan \in GiftLists /\ r.message \in GiftLists
      /\ u.picked \in GiftLists /\ u.excluded \in GiftLists /\ u.plan \in GiftLists /\ u.message \in GiftLists
  BY DEF GiftUpdates
<1>2. r.picked \o u.picked \in GiftLists /\ r.excluded \o u.excluded \in GiftLists
  BY <1>1, ConcatProperties DEF GiftLists
<1>3. MergedLists(r, u) \in GiftUpdates
  BY <1>1, <1>2 DEF GiftUpdates, MergedLists
<1>4. ASSUME NEW a \in GiftLists, NEW b \in GiftLists PROVE NamesOf(a \o b) = NamesOf(a) \cup NamesOf(b)
  <2>1. /\ Len(a) \in Nat /\ Len(b) \in Nat /\ DOMAIN a = 1..Len(a) /\ DOMAIN b = 1..Len(b)
        /\ DOMAIN (a \o b) = 1..(Len(a) + Len(b))
        /\ \A i \in 1 .. Len(a) + Len(b) : (a \o b)[i] = IF i <= Len(a) THEN a[i] ELSE b[i - Len(a)]
    BY ConcatProperties DEF GiftLists
  <2>2. \A i \in DOMAIN (a \o b) : (i \in DOMAIN a /\ (a \o b)[i] = a[i]) \/ (i - Len(a) \in DOMAIN b /\ (a \o b)[i] = b[i - Len(a)])
    BY <2>1
  <2>3. \A i \in DOMAIN a : i \in DOMAIN (a \o b) /\ (a \o b)[i] = a[i]
    BY <2>1
  <2>4. \A i \in DOMAIN b : Len(a) + i \in DOMAIN (a \o b) /\ (a \o b)[Len(a) + i] = b[i]
    <3> TAKE i \in DOMAIN b
    <3> DEFINE j == Len(a) + i
    <3>1. j \in 1..(Len(a) + Len(b)) /\ ~(j <= Len(a)) /\ j - Len(a) = i
      BY <2>1
    <3> HIDE DEF j
    <3>2. (a \o b)[j] = b[i]
      BY <2>1, <3>1
    <3> QED BY <2>1, <3>1, <3>2 DEF j
  <2>5. NamesOf(a \o b) \subseteq NamesOf(a) \cup NamesOf(b)
    BY <2>2 DEF NamesOf
  <2>6. NamesOf(a) \subseteq NamesOf(a \o b)
    BY <2>3 DEF NamesOf
  <2>7. NamesOf(b) \subseteq NamesOf(a \o b)
    <3>1. ASSUME NEW i \in DOMAIN b PROVE b[i].name \in NamesOf(a \o b)
      <4>1. PICK j \in DOMAIN (a \o b) : (a \o b)[j] = b[i]
        BY <2>4
      <4> QED BY <4>1 DEF NamesOf
    <3> QED BY <3>1 DEF NamesOf
  <2> QED BY <2>5, <2>6, <2>7
<1>5. NamesOf(MergedLists(r, u).picked) = NamesOf(r.picked) \cup NamesOf(u.picked)
  <2>1. MergedLists(r, u).picked = r.picked \o u.picked
    BY DEF MergedLists
  <2> QED BY <1>1, <1>4, <2>1
<1>6. MergedLists(r, u).plan \in {r.plan, u.plan}
  BY DEF MergedLists
<1>7. ASSUME NEW key \in BothLists PROVE MergedLists(r, u)[key] = r[key] \o u[key] /\ r[key] \in GiftLists /\ u[key] \in GiftLists
  <2> DEFINE m == MergedLists(r, u)
  <2>1. m.picked = r.picked \o u.picked /\ m.excluded = r.excluded \o u.excluded
    BY DEF MergedLists
  <2> HIDE DEF m
  <2>2. CASE key = "picked"
    BY <1>1, <2>1, <2>2 DEF m
  <2>3. CASE key = "excluded"
    BY <1>1, <2>1, <2>3 DEF m
  <2> QED BY <2>2, <2>3 DEF BothLists
<1> QED BY <1>3, <1>5, <1>6, <1>7

\* The state that the graph makes of a step, one call after the other.
Joins(h, n, A, base, cs) ==
  h \in [0..n -> A] /\ h[0] = base /\ \A k \in 1..n : h[k] = MergedLists(h[k - 1], cs[k].update)
Hands(B, N) == \A c \in B : c.update \in Among(N)
Joined(base, cs) == FoldLeft(LAMBDA s, c : MergedLists(s, c.update), base, cs)

LEMMA JoinedIs ==
  ASSUME NEW N, NEW base \in Among(N), NEW n \in Nat, NEW B, NEW cs \in [1..n -> B], Hands(B, N)
  PROVE  \E h : Joins(h, n, Among(N), base, cs) /\ Joined(base, cs) = h[n]
<1> DEFINE A == Among(N)
           merged(s, c) == MergedLists(s, c.update)
           step == [s \in A |-> [c \in B |-> merged(s, c)]]
<1>1. step \in [A -> [B -> A]]
  <2>1. ASSUME NEW s \in A, NEW c \in B PROVE merged(s, c) \in A
    <3>1. c.update \in GiftUpdates /\ s \in GiftUpdates /\ NamesOf(c.update.picked) \subseteq N /\ NamesOf(s.picked) \subseteq N
      BY DEF Among, Hands
    <3>2. merged(s, c) \in GiftUpdates /\ NamesOf(merged(s, c).picked) \subseteq N
      BY <3>1, MergedIs
    <3> HIDE DEF merged
    <3> QED BY <3>2 DEF Among
  <2> HIDE DEF A, merged
  <2> QED BY <2>1
<1>2. PICK it : Folds(it, step, n, A, base, cs)
  <2>1. base \in A
    OBVIOUS
  <2> HIDE DEF A, step
  <2> QED BY <1>1, <2>1, FoldExists
<1> DEFINE Body(f) == [s \in SUBSET (DOMAIN cs) |->
                         IF s = {} THEN base ELSE merged(f[s \ {Max(s)}], cs[Max(s)])]
           Iter == CHOOSE f : f = Body(f)
<1>3. Joined(base, cs) = Iter[DOMAIN cs] /\ DOMAIN cs = 1..n
  BY DEF Joined, FoldLeft, MapThenFoldSet
<1>4. \A f, s : f \in [SUBSET (1..n) -> A] /\ s \in SUBSET (1..n) /\ s # {} =>
        step[f[s \ {Max(s)}]][cs[Max(s)]] = merged(f[s \ {Max(s)}], cs[Max(s)])
  <2> TAKE f, s
  <2> HAVE f \in [SUBSET (1..n) -> A] /\ s \in SUBSET (1..n) /\ s # {}
  <2>1. Max(s) \in 1..n /\ s \ {Max(s)} \in SUBSET (1..n)
    BY MaxIs
  <2> HIDE DEF A, merged
  <2>2. f[s \ {Max(s)}] \in A /\ cs[Max(s)] \in B
    BY <2>1
  <2> QED BY <2>2
<1>5. it = Body(it)
  <2> HIDE DEF A, merged, step
  <2> QED BY <1>2, <1>3, <1>4 DEF Folds
<1>6. Iter = Body(Iter)
  <2> HIDE DEF Body
  <2> QED BY <1>5
<1>7. Iter[1..0] = base
  <2>1. 1..0 = {}
    OBVIOUS
  <2> HIDE DEF Iter
  <2> QED BY <1>6, <2>1
<1>8. ASSUME NEW k \in 1..n PROVE Iter[1..k] = merged(Iter[1..(k - 1)], cs[k])
  <2>1. /\ 1..k \in SUBSET (1..n) /\ 1..k # {} /\ Max(1..k) = k
        /\ (1..k) \ {Max(1..k)} = 1..(k - 1)
    BY FoldSteps
  <2> HIDE DEF merged, Iter
  <2> QED BY <1>3, <1>6, <2>1
<1> HIDE DEF Iter
<1>9. ASSUME NEW m \in 0..n PROVE Iter[1..m] \in A
  <2>1. BegunIn(Iter, m, A)
    <3>1. Iter[1..0] \in A
      BY <1>7
    <3>2. ASSUME NEW k \in 1..m, Iter[1..(k - 1)] \in A PROVE Iter[1..k] \in A
      <4> HIDE DEF A, step
      <4>1. k \in 1..n /\ cs[k] \in B
        OBVIOUS
      <4>2. step[Iter[1..(k - 1)]][cs[k]] \in A
        BY <1>1, <3>2, <4>1
      <4>3. step[Iter[1..(k - 1)]][cs[k]] = merged(Iter[1..(k - 1)], cs[k])
        BY <3>2, <4>1 DEF step
      <4> QED BY <1>8, <4>1, <4>2, <4>3
    <3> HIDE DEF A
    <3> QED BY <3>1, <3>2 DEF BegunIn
  <2> HIDE DEF A
  <2> QED BY <2>1, FoldStays
<1> DEFINE h == [k \in 0..n |-> Iter[1..k]]
<1>10. h \in [0..n -> A] /\ h[0] = base /\ h[n] = Joined(base, cs)
  <2> HIDE DEF A
  <2> QED BY <1>3, <1>7, <1>9
<1>11. \A k \in 1..n : h[k] = merged(h[k - 1], cs[k])
  <2> HIDE DEF merged
  <2>1. \A k \in 1..n : h[k] = Iter[1..k] /\ h[k - 1] = Iter[1..(k - 1)]
    OBVIOUS
  <2> HIDE DEF h
  <2> QED BY <1>8, <2>1
<1> HIDE DEF h
<1> QED BY <1>10, <1>11 DEF Joins

\* The calls that are back have brought an offer x times.
Brought(cs, key, o, x) ==
  \E g \in [0..Len(cs) -> Nat] :
    /\ g[0] = 0 /\ g[Len(cs)] = x
    /\ \A i \in 1..Len(cs) : g[i] = g[i - 1] + (IF cs[i].back THEN Num(cs[i].update[key], o) ELSE 0)

GiftCalls == [tool : {"search_gifts", "screen_candidates", "compose_gift", "write_note", "ask_user"},
              update : GiftUpdates, back : BOOLEAN]

\* Before any is back, none.
LEMMA NoneBrought ==
  ASSUME NEW cs \in Seq(GiftCalls), \A i \in 1..Len(cs) : ~cs[i].back, NEW key, NEW o
  PROVE  Brought(cs, key, o, 0)
<1> DEFINE g == [i \in 0..Len(cs) |-> 0]
<1>1. Len(cs) \in Nat
  OBVIOUS
<1>2. g \in [0..Len(cs) -> Nat] /\ g[0] = 0 /\ g[Len(cs)] = 0
  BY <1>1
<1>3. \A i \in 1..Len(cs) : g[i] = 0 /\ g[i - 1] = 0
  BY <1>1
<1> HIDE DEF g
<1> QED BY <1>2, <1>3 DEF Brought

\* A call that comes back brings its offers.
LEMMA OneMoreBrought ==
  ASSUME NEW cs \in Seq(GiftCalls), NEW i \in 1..Len(cs), ~cs[i].back, NEW key \in BothLists, NEW o,
         NEW x \in Nat, Brought(cs, key, o, x)
  PROVE  /\ [cs EXCEPT ![i].back = TRUE] \in Seq(GiftCalls)
         /\ Brought([cs EXCEPT ![i].back = TRUE], key, o, x + Num(cs[i].update[key], o))
<1> DEFINE c == [cs[i] EXCEPT !.back = TRUE]
           ds == [cs EXCEPT ![i] = c]
           y == Num(cs[i].update[key], o)
<1>0. cs[i] \in GiftCalls
  BY ElementOfSeq
<1>1. c \in GiftCalls /\ c.back /\ c.update = cs[i].update
  BY <1>0 DEF GiftCalls
<1>2. [cs EXCEPT ![i].back = TRUE] = ds
  OBVIOUS
<1>3. y \in Nat
  <2>1. cs[i].update \in GiftUpdates
    BY <1>0 DEF GiftCalls
  <2>2. cs[i].update[key] \in GiftLists
    BY <2>1, MergedIs
  <2> QED BY <2>2, NumIs
<1> HIDE DEF c
<1>4. ds \in Seq(GiftCalls) /\ Len(ds) = Len(cs) /\ ds[i] = c /\ \A j \in 1..Len(cs) : j # i => ds[j] = cs[j]
  BY <1>1, ExceptSeq
<1>5. PICK g \in [0..Len(cs) -> Nat] :
        /\ g[0] = 0 /\ g[Len(cs)] = x
        /\ \A j \in 1..Len(cs) : g[j] = g[j - 1] + (IF cs[j].back THEN Num(cs[j].update[key], o) ELSE 0)
  BY DEF Brought
<1> HIDE DEF ds, y
<1> DEFINE h == [j \in 0..Len(cs) |-> IF j < i THEN g[j] ELSE g[j] + y]
<1>6. Len(cs) \in Nat /\ i \in Nat /\ i > 0
  OBVIOUS
<1>7. h \in [0..Len(cs) -> Nat] /\ h[0] = 0 /\ h[Len(cs)] = x + y
  BY <1>3, <1>5, <1>6
<1>8. ASSUME NEW j \in 1..Len(cs)
      PROVE  h[j] = h[j - 1] + (IF ds[j].back THEN Num(ds[j].update[key], o) ELSE 0)
  <2>1. j - 1 \in 0..Len(cs) /\ j \in 0..Len(cs) /\ g[j - 1] \in Nat /\ g[j] \in Nat
    BY <1>5, <1>6
  <2>2. h[j] = (IF j < i THEN g[j] ELSE g[j] + y) /\ h[j - 1] = (IF j - 1 < i THEN g[j - 1] ELSE g[j - 1] + y)
    BY <2>1
  <2> HIDE DEF h
  <2>3. CASE j = i
    <3>1. ds[j].back /\ Num(ds[j].update[key], o) = y
      BY <1>1, <1>4, <2>3 DEF y
    <3>2. g[j] = g[j - 1]
      BY <1>5, <2>1, <2>3
    <3> QED BY <1>3, <1>6, <2>1, <2>2, <2>3, <3>1, <3>2
  <2>4. CASE j # i
    <3> DEFINE z == IF cs[j].back THEN Num(cs[j].update[key], o) ELSE 0
    <3>1. z = IF ds[j].back THEN Num(ds[j].update[key], o) ELSE 0
      BY <1>4, <2>4
    <3>2. g[j] = g[j - 1] + z
      BY <1>5
    <3>3. z \in Int
      <4>0. cs[j] \in GiftCalls
        BY ElementOfSeq
      <4>1. cs[j].update \in GiftUpdates
        BY <4>0 DEF GiftCalls
      <4>2. Num(cs[j].update[key], o) \in Nat
        BY <4>1, MergedIs, NumIs
      <4> QED BY <4>2
    <3> HIDE DEF z
    <3>4. h[j] = h[j - 1] + z
      BY <1>3, <1>6, <2>1, <2>2, <2>4, <3>2, <3>3
    <3> QED BY <3>1, <3>4
  <2> QED BY <2>3, <2>4
<1> HIDE DEF h
<1>9. Brought(ds, key, o, x + y)
  BY <1>4, <1>7, <1>8 DEF Brought
<1> QED BY <1>2, <1>4, <1>9 DEF y

\* When all are back, the graph's join has as many more as they brought.
LEMMA JoinedHas ==
  ASSUME NEW N, NEW base \in Among(N), NEW cs \in Seq(GiftCalls),
         \A i \in 1..Len(cs) : cs[i].back /\ cs[i].update \in Among(N)
  PROVE  /\ Joined(base, cs) \in Among(N)
         /\ \A key \in BothLists : \A o, x : Brought(cs, key, o, x) => Num(Joined(base, cs)[key], o) = Num(base[key], o) + x
<1> DEFINE n == Len(cs)
           B == {c \in GiftCalls : c.update \in Among(N)}
<1>1. n \in Nat /\ cs \in [1..n -> B]
  OBVIOUS
<1>2. PICK h : Joins(h, n, Among(N), base, cs) /\ Joined(base, cs) = h[n]
  <2>1. Hands(B, N)
    BY DEF Hands
  <2> HIDE DEF B, n
  <2> QED BY <1>1, <2>1, JoinedIs
<1> HIDE DEF B
<1>3. ASSUME NEW key \in BothLists, NEW o, NEW x, Brought(cs, key, o, x)
      PROVE  Num(Joined(base, cs)[key], o) = Num(base[key], o) + x
  <2>1. PICK g \in [0..n -> Nat] :
          /\ g[0] = 0 /\ g[n] = x
          /\ \A j \in 1..n : g[j] = g[j - 1] + (IF cs[j].back THEN Num(cs[j].update[key], o) ELSE 0)
    BY <1>3 DEF Brought
  <2> DEFINE Bad == {k \in 0..n : Num(h[k][key], o) # Num(base[key], o) + g[k]}
  <2>2. Bad = {}
    <3> SUFFICES ASSUME Bad # {} PROVE FALSE
      OBVIOUS
    <3>1. Bad \in SUBSET Nat
      OBVIOUS
    <3>2. PICK k \in Bad : \A y \in Bad : k <= y
      BY <3>1, SmallestOne
    <3>3. base \in GiftUpdates /\ base[key] \in GiftLists /\ Num(base[key], o) \in Nat
      <4>1. base \in GiftUpdates
        BY DEF Among
      <4> QED BY <4>1, MergedIs, NumIs
    <3>4. k # 0
      <4>1. Num(h[0][key], o) = Num(base[key], o) + g[0]
        BY <1>2, <2>1, <3>3 DEF Joins
      <4> QED BY <4>1
    <3>5. k \in 1..n /\ k - 1 \in 0..n /\ k - 1 \notin Bad
      BY <1>1, <3>2, <3>4
    <3>6. Num(h[k - 1][key], o) = Num(base[key], o) + g[k - 1]
      BY <3>5
    <3>7. Num(h[k][key], o) # Num(base[key], o) + g[k]
      OBVIOUS
    <3> HIDE DEF Bad
    <3>8. h[k - 1] \in GiftUpdates /\ cs[k].update \in GiftUpdates /\ h[k] = MergedLists(h[k - 1], cs[k].update)
      BY <1>2, <3>5 DEF Joins, Among
    <3>9. h[k][key] = h[k - 1][key] \o cs[k].update[key] /\ h[k - 1][key] \in GiftLists /\ cs[k].update[key] \in GiftLists
      BY <3>8, MergedIs
    <3>10. Num(h[k][key], o) = Num(h[k - 1][key], o) + Num(cs[k].update[key], o)
      BY <3>9, NumOfBoth
    <3>11. g[k] = g[k - 1] + Num(cs[k].update[key], o)
      BY <2>1, <3>5
    <3>12. g[k - 1] \in Nat /\ Num(cs[k].update[key], o) \in Nat
      BY <2>1, <3>5, <3>9, NumIs
    <3> QED BY <3>3, <3>6, <3>7, <3>10, <3>11, <3>12
  <2>3. n \in 0..n
    BY <1>1
  <2>4. Num(h[n][key], o) = Num(base[key], o) + g[n]
    BY <2>2, <2>3
  <2> QED BY <1>2, <2>1, <2>4
<1>4. Joined(base, cs) \in Among(N)
  <2>1. n \in 0..n
    BY <1>1
  <2> QED BY <1>2, <2>1 DEF Joins
<1> QED BY <1>3, <1>4

\* What the tools work out of the agent's state.
LEMMA ToolsMake ==
  ASSUME NEW s \in GiftUpdates, NEW c \in GiftTools(s)
  PROVE  /\ c.tool \in {"search_gifts", "screen_candidates", "compose_gift", "write_note", "ask_user"}
         /\ c.update \in GiftUpdates /\ NamesOf(c.update.plan) \subseteq NamesOf(s.picked)
<1>1. Empty \in GiftUpdates /\ <<>> \in GiftLists /\ NamesOf(<<>>) = {} /\ Empty.plan = <<>>
  BY EmptySeq DEF Empty, GiftUpdates, GiftLists, NamesOf
<1>2. s.picked \in GiftLists /\ s.plan \in GiftLists
  BY DEF GiftUpdates
<1>3. CASE c \in SearchGifts
  <2>1. PICK t \in Shelves : c = [tool |-> "search_gifts", update |-> [Empty EXCEPT !.picked = t]]
    BY <1>3 DEF SearchGifts
  <2>2. t \in GiftLists
    BY ShelvesAssumption DEF GiftLists, GiftOffers
  <2> QED BY <1>1, <2>1, <2>2 DEF GiftUpdates, Empty
<1>4. CASE c \in Screen(s)
  <2>1. PICK m \in GiftNames : c = [tool |-> "screen_candidates", update |-> [Empty EXCEPT !.excluded = Offers(s.picked, <<m>>)]]
    BY <1>4 DEF Screen
  <2>2. Offers(s.picked, <<m>>) \in GiftLists
    <3>1. <<m>> \in Seq(GiftNames)
      OBVIOUS
    <3> QED BY <1>2, <3>1, OffersAre
  <2> QED BY <1>1, <2>1, <2>2 DEF GiftUpdates, Empty
<1>5. CASE c \in Compose(s)
  <2>1. PICK ns \in SUBSET GiftNames : c = [tool |-> "compose_gift", update |-> [Empty EXCEPT !.plan = Offers(s.picked, SetToSeq(ns))]]
    BY <1>5 DEF Compose
  <2>2. SetToSeq(ns) \in Seq(GiftNames)
    <3>1. IsFiniteSet(ns)
      BY ShelvesAssumption, FS_Subset
    <3>2. Cardinality(ns) \in Nat /\ ExistsBijection(1..Cardinality(ns), ns)
      BY <3>1, FS_CardinalityType
    <3>3. PICK f : f \in Bijection(1..Cardinality(ns), ns)
      BY <3>2, Fun_ExistsBij
    <3>4. f \in [1..Cardinality(ns) -> ns] /\ \A a, b \in 1..Cardinality(ns) : f[a] = f[b] => a = b
      BY <3>3, Fun_BijectionProperties
    <3>5. IsInjective(f)
      BY <3>4 DEF IsInjective
    <3>6. SetToSeq(ns) \in [1..Cardinality(ns) -> ns]
      BY <3>4, <3>5 DEF SetToSeq
    <3> QED BY <3>2, <3>6
  <2>3. Offers(s.picked, SetToSeq(ns)) \in GiftLists /\ NamesOf(Offers(s.picked, SetToSeq(ns))) \subseteq NamesOf(s.picked)
    BY <1>2, <2>2, OffersAre
  <2> QED BY <1>1, <2>1, <2>3 DEF GiftUpdates, Empty
<1>6. CASE c = WriteNote(s)
  BY <1>1, <1>2, <1>6 DEF WriteNote, GiftUpdates, Empty
<1>7. CASE c = AskUser
  BY <1>1, <1>7 DEF AskUser
<1> QED BY <1>3, <1>4, <1>5, <1>6, <1>7 DEF GiftTools

Ats == {"model", "tools", "asked", "end"}

GiftTypes ==
  /\ giver \in [at : Ats, state : GiftUpdates] /\ calls \in Seq(GiftCalls)
  /\ held \in GiftUpdates /\ giftProducts = held
  /\ sheets \in [compare : GiftLists, plan : GiftLists, message : GiftLists, supply : Seq(Nat \ {0})]
  /\ rounds \in [steps : Nat, answers : Nat]

\* The service has counted what was found and ruled out.
Totals == ever = [picked |-> Counted(held.picked), excluded |-> Counted(held.excluded)]

\* The service knows the name of whatever the agent can put into a gift.
NamesKnown ==
  /\ NamesOf(held.plan) \subseteq NamesOf(held.picked)
  /\ NamesOf(giver.state.picked) \subseteq NamesOf(held.picked)
  /\ \A i \in 1..Len(calls) :
       /\ NamesOf(calls[i].update.plan) \subseteq NamesOf(held.picked)
       /\ calls[i].back => NamesOf(calls[i].update.picked) \subseteq NamesOf(held.picked)

\* In the first round the service is ahead of the agent by what is back of the step.
FirstRound ==
  rounds.answers = 0 =>
    \A key \in BothLists : \A o :
      /\ giver.at \in {"model", "end"} => Num(held[key], o) = Num(giver.state[key], o)
      /\ giver.at = "tools" => \E x \in Nat : Brought(calls, key, o, x) /\ Num(held[key], o) = Num(giver.state[key], o) + x

GiftInv == GiftTypes /\ Totals /\ NamesKnown /\ FirstRound

GiftSafety == GiftInit /\ [][GiftNext]_giftVars

\* The invariant holds in the beginning, when there is nothing.
LEMMA GiftBegins == GiftInit => GiftInv
<1> SUFFICES ASSUME GiftInit PROVE GiftInv
  OBVIOUS
<1> USE DEF GiftInit
<1>1. Empty \in GiftUpdates /\ <<>> \in GiftLists /\ NamesOf(<<>>) = {} /\ Empty.plan = <<>> /\ Empty.picked = <<>> /\ Empty.excluded = <<>>
  BY EmptySeq DEF Empty, GiftUpdates, GiftLists, NamesOf
<1>2. GiftTypes
  BY <1>1, EmptySeq DEF GiftTypes, Ats
<1>3. Counted(<<>>) = EmptyBag
  BY DEF Counted, ToSet, EmptyBag, SetToBag
<1>4. Totals
  BY <1>1, <1>3 DEF Totals
<1>5. NamesKnown
  BY <1>1 DEF NamesKnown
<1>6. FirstRound
  <2>1. giver.at = "model" /\ held = giver.state
    OBVIOUS
  <2> QED BY <2>1 DEF FirstRound
<1> QED BY <1>2, <1>4, <1>5, <1>6 DEF GiftInv

\* A step begins with none of its calls back.
LEMMA AskingKeeps == GiftInv /\ AsksTools => GiftInv'
<1> SUFFICES ASSUME GiftInv, AsksTools PROVE GiftInv'
  OBVIOUS
<1>1. GiftTypes /\ Totals /\ NamesKnown /\ FirstRound
  BY DEF GiftInv
<1>2. /\ giver.at = "model" /\ giver' = [giver EXCEPT !.at = "tools"] /\ rounds' = [rounds EXCEPT !.steps = @ + 1]
      /\ held' = held /\ giftProducts' = giftProducts /\ sheets' = sheets /\ ever' = ever
  BY DEF AsksTools
<1>3. PICK n \in 1..MaxGiftCalls : \E cs \in [1..n -> GiftTools(giver.state)] :
        calls' = [i \in 1..n |-> [tool |-> cs[i].tool, update |-> cs[i].update, back |-> FALSE]]
  BY DEF AsksTools
<1>4. PICK cs \in [1..n -> GiftTools(giver.state)] :
        calls' = [i \in 1..n |-> [tool |-> cs[i].tool, update |-> cs[i].update, back |-> FALSE]]
  BY <1>3
<1>5. giver.state \in GiftUpdates /\ giver'.state = giver.state /\ giver'.at = "tools"
  BY <1>1, <1>2 DEF GiftTypes
<1>6. ASSUME NEW i \in 1..n
      PROVE  /\ calls'[i] \in GiftCalls /\ ~calls'[i].back
             /\ NamesOf(calls'[i].update.plan) \subseteq NamesOf(held.picked)
  <2> DEFINE c == cs[i]
  <2>1. c \in GiftTools(giver.state)
    OBVIOUS
  <2>2. calls'[i] = [tool |-> c.tool, update |-> c.update, back |-> FALSE]
    BY <1>4
  <2> HIDE DEF c
  <2>3. /\ c.tool \in {"search_gifts", "screen_candidates", "compose_gift", "write_note", "ask_user"}
        /\ c.update \in GiftUpdates /\ NamesOf(c.update.plan) \subseteq NamesOf(giver.state.picked)
    BY <1>5, <2>1, ToolsMake
  <2>4. NamesOf(giver.state.picked) \subseteq NamesOf(held.picked)
    BY <1>1 DEF NamesKnown
  <2> QED BY <2>2, <2>3, <2>4 DEF GiftCalls
<1>7. calls' \in Seq(GiftCalls) /\ Len(calls') = n
  <2>1. n \in Nat /\ DOMAIN calls' = 1..n
    BY <1>4
  <2>2. calls' = [i \in 1..n |-> calls'[i]]
    BY <1>4
  <2>3. calls' \in [1..n -> GiftCalls]
    BY <1>6, <2>2
  <2> QED BY <2>1, <2>3
<1>8. GiftTypes'
  <2>1. giver' \in [at : Ats, state : GiftUpdates]
    BY <1>1, <1>2 DEF GiftTypes, Ats
  <2>2. rounds' \in [steps : Nat, answers : Nat]
    BY <1>1, <1>2 DEF GiftTypes
  <2> QED BY <1>1, <1>2, <1>7, <2>1, <2>2 DEF GiftTypes
<1>9. Totals'
  BY <1>1, <1>2 DEF Totals
<1>10. NamesKnown'
  BY <1>1, <1>2, <1>5, <1>6, <1>7 DEF NamesKnown
<1>11. FirstRound'
  <2>1. rounds'.answers = rounds.answers
    BY <1>1, <1>2 DEF GiftTypes
  <2>2. ASSUME NEW key \in BothLists, NEW o, rounds.answers = 0
        PROVE  Brought(calls', key, o, 0) /\ Num(held[key], o) = Num(giver.state[key], o) /\ Num(giver.state[key], o) \in Nat
    <3>1. \A i \in 1..Len(calls') : ~calls'[i].back
      BY <1>6, <1>7
    <3>2. Brought(calls', key, o, 0)
      BY <1>7, <3>1, NoneBrought
    <3>3. Num(held[key], o) = Num(giver.state[key], o)
      BY <1>1, <1>2, <2>2 DEF FirstRound
    <3>4. giver.state[key] \in GiftLists
      BY <1>5, MergedIs
    <3> QED BY <3>2, <3>3, <3>4, NumIs
  <2>3. ASSUME NEW key \in BothLists, NEW o, rounds.answers = 0
        PROVE  \E x \in Nat : Brought(calls', key, o, x) /\ Num(held'[key], o) = Num(giver'.state[key], o) + x
    <3>1. Num(held'[key], o) = Num(giver'.state[key], o) + 0
      BY <1>2, <1>5, <2>2, <2>3
    <3> QED BY <2>2, <2>3, <3>1
  <2> QED BY <1>5, <2>1, <2>3 DEF FirstRound
<1> QED BY <1>8, <1>9, <1>10, <1>11 DEF GiftInv

\* Supply finds a product for each piece whose name acc knows.
LEMMA SupplyIs ==
  ASSUME NEW a \in GiftUpdates, NamesOf(a.plan) \subseteq NamesOf(a.picked)
  PROVE  Supply(a) \in Seq(Nat \ {0})
<1>1. a.plan \in GiftLists /\ a.picked \in GiftLists
  BY DEF GiftUpdates
<1>2. Len(a.plan) \in Nat /\ DOMAIN a.plan = 1..Len(a.plan)
  BY <1>1 DEF GiftLists
<1> DEFINE id(i) == IF Named(a.picked, a.plan[i].name) = 0 THEN 0 ELSE a.picked[Named(a.picked, a.plan[i].name)].id
<1>3. ASSUME NEW i \in 1..Len(a.plan) PROVE id(i) \in Nat \ {0}
  <2> DEFINE p == Named(a.picked, a.plan[i].name)
  <2>1. a.plan[i].name \in NamesOf(a.picked)
    BY <1>2 DEF NamesOf
  <2>2. p # 0 /\ p \in DOMAIN a.picked
    BY <1>1, <2>1, NamedIs
  <2> HIDE DEF p
  <2>3. a.picked[p] \in GiftOffers
    BY <1>1, <2>2, ElementOfSeq DEF GiftLists
  <2>4. a.picked[p].id \in Nat \ {0}
    BY <2>3 DEF GiftOffers
  <2> QED BY <2>2, <2>4 DEF p
<1>4. Supply(a) = [i \in 1..Len(a.plan) |-> id(i)]
  BY <1>2 DEF Supply
<1> HIDE DEF id
<1> QED BY <1>2, <1>3, <1>4, IsASeq

\* A call that comes back: the service takes what it brings, and shows it.
LEMMA ReturningKeeps == ASSUME NEW i \in DOMAIN calls PROVE GiftInv /\ ComesBack(i) => GiftInv'
<1> SUFFICES ASSUME GiftInv, ComesBack(i) PROVE GiftInv'
  OBVIOUS
<1> DEFINE u == calls[i].update
           sum == MergedLists(held, u)
<1>1. GiftTypes /\ Totals /\ NamesKnown /\ FirstRound
  BY DEF GiftInv
<1>2. /\ giver.at = "tools" /\ ~calls[i].back /\ held' = sum /\ giftProducts' = sum
      /\ sheets' = Deliverables(calls[i].tool, sum)
      /\ ever' = [picked |-> ever.picked (+) Counted(u.picked), excluded |-> ever.excluded (+) Counted(u.excluded)]
      /\ rounds' = rounds
  BY DEF ComesBack, CollectedOf
<1>3. \/ giver' = [giver EXCEPT !.at = "asked"] /\ calls' = <<>>
      \/ calls' = [calls EXCEPT ![i].back = TRUE] /\ giver' = giver
  BY DEF ComesBack
<1>4. i \in 1..Len(calls) /\ calls[i] \in GiftCalls
  BY <1>1, ElementOfSeq DEF GiftTypes
<1>5. u \in GiftUpdates /\ held \in GiftUpdates
  BY <1>1, <1>4 DEF GiftTypes, GiftCalls
<1>6. /\ sum \in GiftUpdates
      /\ \A key \in BothLists : sum[key] = held[key] \o u[key] /\ held[key] \in GiftLists /\ u[key] \in GiftLists
      /\ NamesOf(sum.picked) = NamesOf(held.picked) \cup NamesOf(u.picked)
      /\ sum.plan \in {held.plan, u.plan}
  BY <1>5, MergedIs
<1>7. sum.picked = held.picked \o u.picked /\ sum.excluded = held.excluded \o u.excluded
  BY DEF MergedLists
<1> HIDE DEF u, sum
<1>8. NamesOf(sum.plan) \subseteq NamesOf(sum.picked) /\ NamesOf(held.picked) \subseteq NamesOf(sum.picked)
  <2>1. NamesOf(held.plan) \subseteq NamesOf(held.picked) /\ NamesOf(u.plan) \subseteq NamesOf(held.picked)
    BY <1>1, <1>4 DEF NamesKnown, u
  <2> QED BY <1>6, <2>1
<1>9. giver' \in [at : Ats, state : GiftUpdates] /\ giver'.state = giver.state /\ giver'.at \in {"tools", "asked"}
  BY <1>1, <1>2, <1>3 DEF GiftTypes, Ats
<1>10. calls' \in Seq(GiftCalls)
  <2>1. CASE calls' = <<>>
    BY <2>1, EmptySeq
  <2>2. CASE calls' = [calls EXCEPT ![i].back = TRUE]
    <3> DEFINE c == [calls[i] EXCEPT !.back = TRUE]
    <3>1. c \in GiftCalls
      BY <1>4 DEF GiftCalls
    <3>2. calls' = [calls EXCEPT ![i] = c]
      BY <2>2
    <3> HIDE DEF c
    <3> QED BY <1>1, <1>4, <3>1, <3>2, ExceptSeq DEF GiftTypes
  <2> QED BY <1>3, <2>1, <2>2
<1>11. sheets' \in [compare : GiftLists, plan : GiftLists, message : GiftLists, supply : Seq(Nat \ {0})]
  <2> DEFINE S == [compare : GiftLists, plan : GiftLists, message : GiftLists, supply : Seq(Nat \ {0})]
  <2>1. sheets \in S
    BY <1>1 DEF GiftTypes
  <2>2. sum.picked \in GiftLists /\ sum.excluded \in GiftLists /\ sum.plan \in GiftLists /\ sum.message \in GiftLists
    BY <1>6 DEF GiftUpdates
  <2>3. CompareSheet(sum) \in GiftLists
    BY <2>2, ConcatProperties DEF CompareSheet, GiftLists
  <2>4. Supply(sum) \in Seq(Nat \ {0})
    BY <1>6, <1>8, SupplyIs
  <2>5. [sheets EXCEPT !.compare = CompareSheet(sum)] \in S
    BY <2>1, <2>3
  <2>6. [sheets EXCEPT !.plan = IF sum.plan = <<>> THEN @ ELSE sum.plan] \in S
    BY <2>1, <2>2
  <2>7. [sheets EXCEPT !.message = IF MessageSheet(sum) = <<>> THEN @ ELSE MessageSheet(sum),
                        !.supply = IF Supply(sum) = <<>> THEN @ ELSE Supply(sum)] \in S
    BY <2>1, <2>2, <2>4 DEF MessageSheet
  <2> HIDE DEF S
  <2>8. Deliverables(calls[i].tool, sum) \in S
    BY <2>1, <2>5, <2>6, <2>7, Zenon DEF Deliverables
  <2> QED BY <1>2, <2>8 DEF S
<1>12. GiftTypes'
  BY <1>1, <1>2, <1>6, <1>9, <1>10, <1>11 DEF GiftTypes
<1>13. Totals'
  <2>1. ever.picked = Counted(held.picked) /\ ever.excluded = Counted(held.excluded)
    BY <1>1 DEF Totals
  <2>2. u.picked \in GiftLists /\ u.excluded \in GiftLists /\ held.picked \in GiftLists /\ held.excluded \in GiftLists
    BY <1>5 DEF GiftUpdates
  <2>3. Counted(sum.picked) = ever.picked (+) Counted(u.picked) /\ Counted(sum.excluded) = ever.excluded (+) Counted(u.excluded)
    BY <1>7, <2>1, <2>2, CountedBoth
  <2> QED BY <1>2, <2>3 DEF Totals
<1>14. ASSUME calls' = [calls EXCEPT ![i].back = TRUE]
       PROVE  /\ Len(calls') = Len(calls) /\ calls'[i].update = u
              /\ \A j \in 1..Len(calls) : calls'[j].update = calls[j].update /\ (j # i => calls'[j] = calls[j])
  <2> DEFINE c == [calls[i] EXCEPT !.back = TRUE]
  <2>1. c \in GiftCalls /\ c.update = u
    BY <1>4 DEF GiftCalls, u
  <2>2. calls' = [calls EXCEPT ![i] = c]
    BY <1>14
  <2> HIDE DEF c
  <2>3. Len(calls') = Len(calls) /\ calls'[i] = c /\ \A j \in 1..Len(calls) : j # i => calls'[j] = calls[j]
    BY <1>1, <1>4, <2>1, <2>2, ExceptSeq DEF GiftTypes
  <2> QED BY <2>1, <2>3 DEF u
<1>15. NamesKnown'
  <2>1. NamesOf(giver'.state.picked) \subseteq NamesOf(held'.picked) /\ NamesOf(held'.plan) \subseteq NamesOf(held'.picked)
    BY <1>1, <1>2, <1>8, <1>9 DEF NamesKnown
  <2>2. ASSUME NEW j \in 1..Len(calls')
        PROVE  /\ NamesOf(calls'[j].update.plan) \subseteq NamesOf(held'.picked)
               /\ calls'[j].back => NamesOf(calls'[j].update.picked) \subseteq NamesOf(held'.picked)
    <3>1. calls' = [calls EXCEPT ![i].back = TRUE]
      <4>1. calls' = <<>> => FALSE
        BY <2>2
      <4> QED BY <1>3, <4>1
    <3>2. j \in 1..Len(calls) /\ calls'[j].update = calls[j].update /\ (j # i => calls'[j] = calls[j])
      BY <1>14, <3>1
    <3>3. NamesOf(calls[j].update.plan) \subseteq NamesOf(held.picked)
      BY <1>1, <3>2 DEF NamesKnown
    <3>4. CASE j = i
      BY <1>2, <1>6, <1>8, <3>2, <3>3, <3>4 DEF u
    <3>5. CASE j # i
      <4>1. calls[j].back => NamesOf(calls[j].update.picked) \subseteq NamesOf(held.picked)
        BY <1>1, <3>2 DEF NamesKnown
      <4> QED BY <1>2, <1>8, <3>2, <3>3, <3>5, <4>1
    <3> QED BY <3>4, <3>5
  <2> QED BY <2>1, <2>2 DEF NamesKnown
<1>16. FirstRound'
  <2>1. ASSUME NEW key \in BothLists, NEW o, rounds.answers = 0, giver'.at = "tools"
        PROVE  \E x \in Nat : Brought(calls', key, o, x) /\ Num(held'[key], o) = Num(giver'.state[key], o) + x
    <3>1. calls' = [calls EXCEPT ![i].back = TRUE]
      <4>1. giver' = [giver EXCEPT !.at = "asked"] => giver'.at = "asked"
        BY <1>1 DEF GiftTypes
      <4> QED BY <1>3, <2>1, <4>1
    <3>2. PICK x \in Nat : Brought(calls, key, o, x) /\ Num(held[key], o) = Num(giver.state[key], o) + x
      BY <1>1, <1>2, <2>1 DEF FirstRound
    <3>3. Brought(calls', key, o, x + Num(u[key], o))
      <4>1. calls \in Seq(GiftCalls)
        BY <1>1 DEF GiftTypes
      <4>2. i \in 1..Len(calls) /\ ~calls[i].back
        BY <1>2, <1>4
      <4>3. Brought(calls, key, o, x)
        BY <3>2
      <4>4. Brought([calls EXCEPT ![i].back = TRUE], key, o, x + Num(calls[i].update[key], o))
        BY <4>1, <4>2, <4>3, OneMoreBrought
      <4> QED BY <3>1, <4>4 DEF u
    <3>4. Num(sum[key], o) = Num(held[key], o) + Num(u[key], o) /\ Num(u[key], o) \in Nat
      <4>1. sum[key] = held[key] \o u[key] /\ held[key] \in GiftLists /\ u[key] \in GiftLists
        BY <1>6
      <4>2. Num(held[key] \o u[key], o) = Num(held[key], o) + Num(u[key], o)
        BY <4>1, NumOfBoth
      <4> QED BY <4>1, <4>2, NumIs
    <3>5. Num(giver.state[key], o) \in Nat
      <4>1. giver.state \in GiftUpdates
        BY <1>1 DEF GiftTypes
      <4> QED BY <4>1, MergedIs, NumIs
    <3> DEFINE y == Num(u[key], o)
               z == Num(giver.state[key], o)
    <3>6. y \in Nat /\ z \in Nat /\ Num(sum[key], o) = (z + x) + y
      BY <3>2, <3>4, <3>5
    <3>7. Num(sum[key], o) = z + (x + y) /\ x + y \in Nat
      <4> HIDE DEF y, z
      <4> QED BY <3>6
    <3> QED BY <1>2, <1>9, <3>3, <3>7
  <2> QED BY <1>2, <1>9, <2>1 DEF FirstRound
<1> QED BY <1>12, <1>13, <1>15, <1>16 DEF GiftInv

\* The agent gets what all calls of the step brought.
LEMMA JoiningKeeps == GiftInv /\ JoinsStep => GiftInv'
<1> SUFFICES ASSUME GiftInv, JoinsStep PROVE GiftInv'
  OBVIOUS
<1> DEFINE N == NamesOf(held.picked)
           J == Joined(giver.state, calls)
<1>1. GiftTypes /\ Totals /\ NamesKnown /\ FirstRound
  BY DEF GiftInv
<1>2. /\ giver.at = "tools" /\ giver' = [at |-> "model", state |-> J] /\ calls' = <<>>
      /\ held' = held /\ giftProducts' = giftProducts /\ sheets' = sheets /\ rounds' = rounds /\ ever' = ever
  BY DEF JoinsStep, Joined
<1>3. calls \in Seq(GiftCalls) /\ giver.state \in GiftUpdates
  BY <1>1 DEF GiftTypes
<1>4. giver.state \in Among(N)
  BY <1>1, <1>3 DEF NamesKnown, Among
<1>5. \A i \in 1..Len(calls) : calls[i].back /\ calls[i].update \in Among(N)
  <2> TAKE i \in 1..Len(calls)
  <2>0. \A j \in DOMAIN calls : calls[j].back
    BY Zenon DEF JoinsStep
  <2>1. calls[i].back
    BY <1>3, <2>0
  <2>2. calls[i] \in GiftCalls
    BY <1>3, ElementOfSeq
  <2>3. calls[i].update \in GiftUpdates
    BY <2>2 DEF GiftCalls
  <2> QED BY <1>1, <2>1, <2>3 DEF NamesKnown, Among, N
<1> HIDE DEF N
<1>6. /\ Joined(giver.state, calls) \in Among(N)
      /\ \A key \in BothLists : \A o, x : Brought(calls, key, o, x) =>
           Num(Joined(giver.state, calls)[key], o) = Num(giver.state[key], o) + x
  BY <1>3, <1>4, <1>5, JoinedHas
<1>7. J \in GiftUpdates /\ NamesOf(J.picked) \subseteq N
  BY <1>6 DEF Among
<1> HIDE DEF J
<1>8. giver'.state = J /\ giver'.at = "model" /\ giver' \in [at : Ats, state : GiftUpdates]
  BY <1>2, <1>7 DEF Ats
<1>9. GiftTypes'
  BY <1>1, <1>2, <1>8, EmptySeq DEF GiftTypes
<1>10. Totals'
  BY <1>1, <1>2 DEF Totals
<1>11. NamesKnown'
  <2>1. Len(calls') = 0
    BY <1>2
  <2> QED BY <1>1, <1>2, <1>7, <1>8, <2>1 DEF NamesKnown, N
<1>12. FirstRound'
  <2>1. ASSUME NEW key \in BothLists, NEW o, rounds.answers = 0
        PROVE  Num(held'[key], o) = Num(giver'.state[key], o)
    <3>1. PICK x \in Nat : Brought(calls, key, o, x) /\ Num(held[key], o) = Num(giver.state[key], o) + x
      BY <1>1, <1>2, <2>1 DEF FirstRound
    <3>2. Num(J[key], o) = Num(giver.state[key], o) + x
      BY <1>6, <3>1 DEF J
    <3> QED BY <1>2, <1>8, <3>1, <3>2
  <2> QED BY <1>2, <1>8, <2>1 DEF FirstRound
<1> QED BY <1>9, <1>10, <1>11, <1>12 DEF GiftInv

\* The end of the run writes what is there.
LEMMA ConcludingKeeps == GiftInv /\ Concludes => GiftInv'
<1> SUFFICES ASSUME GiftInv, Concludes PROVE GiftInv'
  OBVIOUS
<1>1. GiftTypes /\ Totals /\ NamesKnown /\ FirstRound
  BY DEF GiftInv
<1>2. /\ giver.at = "model" /\ giver' = [giver EXCEPT !.at = "end"] /\ giftProducts' = held
      /\ calls' = calls /\ held' = held /\ sheets' = sheets /\ rounds' = rounds /\ ever' = ever
  BY DEF Concludes
<1>3. giver' \in [at : Ats, state : GiftUpdates] /\ giver'.at = "end" /\ giver'.state = giver.state
  BY <1>1, <1>2 DEF GiftTypes, Ats
<1>4. GiftTypes'
  BY <1>1, <1>2, <1>3 DEF GiftTypes
<1>5. Totals' /\ NamesKnown'
  BY <1>1, <1>2, <1>3 DEF Totals, NamesKnown
<1>6. FirstRound'
  BY <1>1, <1>2, <1>3 DEF FirstRound
<1> QED BY <1>4, <1>5, <1>6 DEF GiftInv

\* After an answer the agent knows of nothing, and the first round is over.
LEMMA ContinuingKeeps == GiftInv /\ Continues => GiftInv'
<1> SUFFICES ASSUME GiftInv, Continues PROVE GiftInv'
  OBVIOUS
<1>1. GiftTypes /\ Totals /\ NamesKnown /\ FirstRound
  BY DEF GiftInv
<1>2. /\ giver' = [at |-> "model", state |-> Empty] /\ held' = held /\ rounds' = [rounds EXCEPT !.answers = @ + 1]
      /\ calls' = calls /\ giftProducts' = giftProducts /\ sheets' = sheets /\ ever' = ever
  BY <1>1 DEF Continues, SeedAcc, GiftTypes
<1>3. Empty \in GiftUpdates /\ NamesOf(Empty.picked) = {}
  BY EmptySeq DEF Empty, GiftUpdates, GiftLists, NamesOf
<1>4. giver' \in [at : Ats, state : GiftUpdates] /\ giver'.state = Empty
  BY <1>2, <1>3 DEF Ats
<1>5. rounds' \in [steps : Nat, answers : Nat] /\ rounds'.answers # 0
  BY <1>1, <1>2 DEF GiftTypes
<1>6. GiftTypes'
  BY <1>1, <1>2, <1>4, <1>5 DEF GiftTypes
<1>7. Totals' /\ NamesKnown'
  BY <1>1, <1>2, <1>3, <1>4 DEF Totals, NamesKnown
<1>8. FirstRound'
  BY <1>5 DEF FirstRound
<1> QED BY <1>6, <1>7, <1>8 DEF GiftInv

\* No step of a gift run breaks the invariant.
LEMMA GiftStepKeeps == GiftInv /\ [GiftNext]_giftVars => GiftInv'
<1> SUFFICES ASSUME GiftInv, [GiftNext]_giftVars PROVE GiftInv'
  OBVIOUS
<1>1. CASE AsksTools
  BY <1>1, AskingKeeps
<1>2. CASE JoinsStep
  BY <1>2, JoiningKeeps
<1>3. CASE Concludes
  BY <1>3, ConcludingKeeps
<1>4. CASE Continues
  BY <1>4, ContinuingKeeps
<1>5. ASSUME NEW i \in DOMAIN calls, ComesBack(i) PROVE GiftInv'
  BY <1>5, ReturningKeeps
<1>6. CASE UNCHANGED giftVars
  BY <1>6 DEF giftVars, GiftInv, GiftTypes, Totals, NamesKnown, FirstRound
<1> QED BY <1>1, <1>2, <1>3, <1>4, <1>5, <1>6 DEF GiftNext

\* What the invariant says of the counts is what the property says of the bags.
LEMMA GiftInvShows == GiftInv => PicksAreKept
<1> SUFFICES ASSUME GiftInv PROVE PicksAreKept
  OBVIOUS
<1>1. GiftTypes /\ Totals /\ FirstRound
  BY DEF GiftInv
<1>2. SupplyIsFound
  <2>1. sheets.supply \in Seq(Nat \ {0})
    BY <1>1 DEF GiftTypes
  <2> QED BY <2>1 DEF SupplyIsFound
<1>3. [picked |-> Counted(giftProducts.picked), excluded |-> Counted(giftProducts.excluded)] = ever
  BY <1>1 DEF Totals, GiftTypes
<1>4. ASSUME rounds.answers = 0, giver.at \in {"model", "end"}
      PROVE  [picked |-> Counted(giver.state.picked), excluded |-> Counted(giver.state.excluded)] = ever
  <2>1. ASSUME NEW a \in GiftLists, NEW b \in GiftLists, \A o : Num(a, o) = Num(b, o) PROVE Counted(a) = Counted(b)
    <3>1. \A s : Counted(s) = [o \in ToSet(s) |-> Num(s, o)]
      BY DEF Counted, Num, Places
    <3>2. \A o : o \in ToSet(a) <=> o \in ToSet(b)
      <4> TAKE o
      <4>1. (Num(a, o) # 0 <=> o \in ToSet(a)) /\ (Num(b, o) # 0 <=> o \in ToSet(b))
        BY NumIs
      <4> QED BY <2>1, <4>1
    <3> QED BY <2>1, <3>1, <3>2
  <2> DEFINE s == giver.state
  <2>2. s.picked \in GiftLists /\ s.excluded \in GiftLists /\ held.picked \in GiftLists /\ held.excluded \in GiftLists
    BY <1>1 DEF GiftTypes, GiftUpdates
  <2>3. \A o : Num(held.picked, o) = Num(s.picked, o)
    <3>1. "picked" \in BothLists
      BY DEF BothLists
    <3> QED BY <1>1, <1>4, <3>1 DEF FirstRound
  <2>4. \A o : Num(held.excluded, o) = Num(s.excluded, o)
    <3>1. "excluded" \in BothLists
      BY DEF BothLists
    <3> QED BY <1>1, <1>4, <3>1 DEF FirstRound
  <2> HIDE DEF s
  <2>5. Counted(s.picked) = Counted(held.picked)
    BY <2>1, <2>2, <2>3
  <2>6. Counted(s.excluded) = Counted(held.excluded)
    BY <2>1, <2>2, <2>4
  <2> QED BY <1>1, <2>5, <2>6 DEF Totals, s
<1>5. AllCollected
  BY <1>3, <1>4 DEF AllCollected
<1> QED BY <1>2, <1>5 DEF PicksAreKept

\* In any gift run, whatever the shop offers, and however many calls a step has,
\* in whatever order they come back and whichever question cuts them short: the
\* service has each product as often as it was found or ruled out, so has the agent
\* in the first round, and the sheet of sources names a product for each piece.
THEOREM PicksStay == GiftSafety => []PicksAreKept
<1> QED BY GiftBegins, GiftStepKeeps, GiftInvShows, PTL DEF GiftSafety
=============================================================================
