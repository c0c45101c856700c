---------------------------- MODULE ThreadStore ----------------------------
(***************************************************************************)
(* The threads of one user in their stores: the rows of PostgreSQL, which  *)
(* are listed while it answers, their shadow in Redis (a hash of the       *)
(* thread, a sorted set of the ids), and the memory of the process, where  *)
(* MessageStoreBridge turns when Redis does not answer.                    *)
(*                                                                         *)
(* A request makes one call of Redis after the other and then one of       *)
(* PostgreSQL, a turn saves its message the other way round, and requests  *)
(* interleave at every call. Titles, pins and the lists of messages are    *)
(* left out.                                                               *)
(***************************************************************************)
EXTENDS Integers, FiniteSets

CONSTANTS
  ThreadIds,   \* the ids that create_thread may draw
  MaxRequests, \* bound: requests and saved messages
  MaxFailures  \* bound: calls of a store that fail

ASSUME ThreadAssumption == ThreadIds # {} /\ MaxRequests \in Nat /\ MaxFailures \in Nat

Kinds == {"create", "delete", "update", "message"}

Requests == 1..MaxRequests

VARIABLES
  rows,        \* conversations: the status by id
  hash,        \* thread:{id}: what the hash holds, a stub if only the time of change
  listed,      \* user:{}:threads
  kept,        \* memory_store: the ids
  req,         \* the requests
  failures,
  overlapped   \* threads that were updated and deleted at the same time

threadVars == <<rows, hash, listed, kept, req, failures, overlapped>>

ThreadInit ==
  /\ rows = [t \in ThreadIds |-> "none"] /\ hash = [t \in ThreadIds |-> "none"]
  /\ listed = {} /\ kept = {}
  /\ req = [r \in Requests |-> [kind |-> "none", of |-> CHOOSE t \in ThreadIds : TRUE, pc |-> "off"]]
  /\ failures = 0 /\ overlapped = {}

Is(r, kind, pc) == req[r].kind = kind /\ req[r].pc = pc
To(r, pc) == req' = [req EXCEPT ![r].pc = pc]
Under(t) == {r \in Requests : req[r].of = t /\ req[r].pc \notin {"off", "done"}}
Drawn == {req[r].of : r \in {q \in Requests : req[q].kind = "create"}}

\* The page knows the threads whose creation was answered.
Known == {t \in ThreadIds : \E r \in Requests : Is(r, "create", "done") /\ req[r].of = t}

\* A request is made: PostgreSQL comes first when a message is saved.
Request(r, kind, t) ==
  /\ req[r].kind = "none" /\ \A q \in 1..(r - 1) : req[q].kind # "none"
  /\ IF kind = "create" THEN t \notin Drawn ELSE t \in Known
  /\ req' = [req EXCEPT ![r] = [kind |-> kind, of |-> t, pc |-> IF kind = "message" THEN "row" ELSE "redis"]]
  /\ overlapped' = IF \E q \in Under(t) : {req[q].kind, kind} = {"update", "delete"}
                   THEN overlapped \cup {t} ELSE overlapped
  /\ UNCHANGED <<rows, hash, listed, kept, failures>>
-----------------------------------------------------------------------------
(* Mistakes the code does not make.                                         *)

\* An id is put on the list whatever its hash holds.
UpdateReads_Any(r) ==
  /\ Is(r, "update", "read") /\ To(r, "zadd")
  /\ UNCHANGED <<rows, hash, listed, kept, failures, overlapped>>
-----------------------------------------------------------------------------
(* RedisStore, one call of Redis at a time                                  *)

Creates(r) ==
  LET t == req[r].of IN
  \/ /\ Is(r, "create", "redis") /\ To(r, "zadd")
     /\ hash' = [hash EXCEPT ![t] = "full"]
     /\ UNCHANGED <<rows, listed, kept, failures, overlapped>>
  \/ /\ Is(r, "create", "zadd") /\ To(r, "row")
     /\ listed' = listed \cup {t}
     /\ UNCHANGED <<rows, hash, kept, failures, overlapped>>

\* Only a hash that names its user leads to the list of ids.
Deletes(r) ==
  LET t == req[r].of IN
  \/ /\ Is(r, "delete", "redis")
     /\ To(r, CASE hash[t] = "none" -> "row" [] hash[t] = "stub" -> "delstub"
                [] hash[t] = "full" -> "del")
     /\ UNCHANGED <<rows, hash, listed, kept, failures, overlapped>>
  \/ /\ req[r].kind = "delete" /\ req[r].pc \in {"del", "delstub"}
     /\ To(r, IF req[r].pc = "del" THEN "zrem" ELSE "row")
     /\ hash' = [hash EXCEPT ![t] = "none"]
     /\ UNCHANGED <<rows, listed, kept, failures, overlapped>>
  \/ /\ Is(r, "delete", "zrem") /\ To(r, "row")
     /\ listed' = listed \ {t}
     /\ UNCHANGED <<rows, hash, kept, failures, overlapped>>

\* The hash is read again after the update: the score of its user's list is
\* set if it names one.
UpdateReads(r) ==
  /\ Is(r, "update", "read")
  /\ To(r, IF hash[req[r].of] = "full" THEN "zadd" ELSE "row")
  /\ UNCHANGED <<rows, hash, listed, kept, failures, overlapped>>

Updates(r) ==
  LET t == req[r].of IN
  \/ /\ Is(r, "update", "redis") /\ To(r, IF hash[t] = "none" THEN "row" ELSE "hset")
     /\ UNCHANGED <<rows, hash, listed, kept, failures, overlapped>>
  \/ /\ Is(r, "update", "hset") /\ To(r, "read")
     /\ hash' = [hash EXCEPT ![t] = IF @ = "none" THEN "stub" ELSE @]
     /\ UNCHANGED <<rows, listed, kept, failures, overlapped>>
  \/ UpdateReads(r)
  \/ /\ Is(r, "update", "zadd") /\ To(r, "row")
     /\ listed' = listed \cup {t}
     /\ UNCHANGED <<rows, hash, kept, failures, overlapped>>

\* The time of change is written to the hash, which makes a stub of none.
AddsMessage(r) ==
  LET t == req[r].of IN
  \/ /\ Is(r, "message", "redis") /\ To(r, "touch")
     /\ UNCHANGED <<rows, hash, listed, kept, failures, overlapped>>
  \/ /\ Is(r, "message", "touch") /\ To(r, "done")
     /\ hash' = [hash EXCEPT ![t] = IF @ = "none" THEN "stub" ELSE @]
     /\ UNCHANGED <<rows, listed, kept, failures, overlapped>>

\* MessageStoreBridge._call: a call of Redis fails, and the whole operation is
\* done in memory instead, what Redis has of it left as it is. A thread that is
\* created then gets a second id.
FallsBack(r) ==
  /\ req[r].pc \notin {"off", "row", "done"} /\ failures < MaxFailures
  /\ failures' = failures + 1
  /\ \/ /\ req[r].kind = "create"
        /\ \E t \in ThreadIds \ Drawn :
             kept' = kept \cup {t} /\ req' = [req EXCEPT ![r].of = t, ![r].pc = "row"]
     \/ /\ req[r].kind = "delete" /\ kept' = kept \ {req[r].of} /\ To(r, "row")
     \/ /\ req[r].kind = "update" /\ UNCHANGED kept /\ To(r, "row")
     \/ /\ req[r].kind = "message" /\ UNCHANGED kept /\ To(r, "done")
  /\ UNCHANGED <<rows, hash, listed, overlapped>>
-----------------------------------------------------------------------------
(* ConversationRepository                                                   *)

\* require_user_conversation finds no row that is deleted; what is not found, and
\* what fails, is logged.
RowsAfter(kind, t) ==
  CASE kind = "create" -> [rows EXCEPT ![t] = "active"]
    [] kind = "delete" /\ rows[t] = "active" -> [rows EXCEPT ![t] = "deleted"]
    [] OTHER -> rows
Row(r) ==
  /\ req[r].pc = "row" /\ To(r, IF req[r].kind = "message" THEN "redis" ELSE "done")
  /\ \/ rows' = RowsAfter(req[r].kind, req[r].of) /\ UNCHANGED failures
     \/ failures < MaxFailures /\ failures' = failures + 1 /\ UNCHANGED rows
  /\ UNCHANGED <<hash, listed, kept, overlapped>>

ThreadNext ==
  \E r \in Requests :
    \/ \E kind \in Kinds, t \in ThreadIds : Request(r, kind, t)
    \/ Creates(r) \/ Deletes(r) \/ Updates(r) \/ AddsMessage(r) \/ FallsBack(r) \/ Row(r)
-----------------------------------------------------------------------------
\* What RedisStore.list_threads returns: the ids of the set that have a hash.
list_threads == {t \in listed : hash[t] # "none"}
\* list_by_user.
list_by_user == {t \in ThreadIds : rows[t] = "active"}

\* When nothing is under way, both stores list the same threads, in whatever
\* order the calls of the requests came, and the list of Redis never shows a
\* stub: a message that is saved while its thread is deleted does not bring the
\* thread back. An update that overlaps the deletion can, so it is excepted.
ListsAgree ==
  \A t \in ThreadIds :
    (failures = 0 /\ Under(t) = {} /\ t \notin overlapped) =>
      /\ t \in list_threads <=> t \in list_by_user
      /\ t \in list_threads => hash[t] = "full"
=============================================================================
