------------------------------ MODULE McpStdio ------------------------------
(***************************************************************************)
(* One MCP server behind a pair of pipes, and the threads that call it.    *)
(* Threads that find no live process take the start lock, look again and   *)
(* start one; a call takes the IO lock for its whole exchange: it writes   *)
(* its request and reads lines until one carries its id.                   *)
(*                                                                         *)
(* A process answers its requests in order, and may print lines of its own *)
(* between them. A line is the id of the request that it answers, or Stray.*)
(***************************************************************************)
EXTENDS Integers, Sequences, FiniteSets

CONSTANTS
  Threads,    \* threads that call the server
  Listing,    \* those of them that ask for the list of tools
  MaxProcs,   \* bound: processes that are started
  MaxIds,     \* bound: requests
  MaxStrays,  \* bound: lines that are no answers
  MaxLate,    \* bound: exchanges that end at their deadline
  MaxDeaths   \* bound: processes that die by themselves

None == 0
Stray == 0

\* A thread is no number that stands for none.
ASSUME McpAssumption == None \notin Threads

VARIABLES
  procs,    \* the processes that were started
  current,  \* _stdio_processes: the process of the server, or None
  starter,  \* the thread that holds the start lock
  talker,   \* the thread that holds the IO lock
  caller,   \* the threads
  ids,      \* _stdio_req_seq: the last id
  failed,   \* exchanges that found no answer, of those late ones
  late, strays, deaths

mcpVars == <<procs, current, starter, talker, caller, ids, failed, late, strays, deaths>>

Procs == 1..Len(procs)
Live(p) == p # None /\ procs[p].alive
Idle == [pc |-> "off", proc |-> None, id |-> 0, reads |-> 0]

McpInit ==
  /\ procs = <<>> /\ current = None /\ starter = None /\ talker = None
  /\ caller = [t \in Threads |-> Idle]
  /\ ids = 0 /\ failed = 0 /\ late = 0 /\ strays = 0 /\ deaths = 0

Goes(t, pc) == caller' = [caller EXCEPT ![t].pc = pc]
\* The exchange is over, the IO lock free.
HangsUp(t) == talker' = None /\ caller' = [caller EXCEPT ![t] = Idle]
-----------------------------------------------------------------------------
(* Mistakes the code does not make.                                         *)

\* Whoever waited for the start lock starts a process of its own.
Start_NoSecondLook(t) ==
  /\ caller[t].pc = "start" /\ starter = None /\ Len(procs) < MaxProcs
  /\ starter' = t /\ Goes(t, "spawned")
  /\ procs' = Append(procs, [alive |-> TRUE, in |-> <<>>, out |-> <<>>])
  /\ UNCHANGED <<current, talker, ids, failed, late, strays, deaths>>

\* The first line is taken for the answer, as the list of tools once did.
GivesUp_First(t, isLate) == TRUE
-----------------------------------------------------------------------------
\* _ensure_stdio_process: a live process is used without a lock.
Ensure(t) ==
  /\ caller[t].pc = "off"
  /\ caller' = [caller EXCEPT ![t] = IF Live(current)
                                     THEN [@ EXCEPT !.pc = "ready", !.proc = current]
                                     ELSE [@ EXCEPT !.pc = "start"]]
  /\ UNCHANGED <<procs, current, starter, talker, ids, failed, late, strays, deaths>>

\* With the lock it looks again; then it starts a process, which may fail.
Start(t) ==
  /\ caller[t].pc = "start" /\ starter = None
  /\ \/ /\ Live(current)
        /\ caller' = [caller EXCEPT ![t].pc = "ready", ![t].proc = current]
        /\ UNCHANGED <<procs, current, starter>>
     \/ /\ ~Live(current) /\ current' = None
        /\ caller' = [caller EXCEPT ![t] = Idle]
        /\ UNCHANGED <<procs, starter>>
     \/ /\ ~Live(current) /\ Len(procs) < MaxProcs
        /\ starter' = t /\ Goes(t, "spawned") /\ current' = None
        /\ procs' = Append(procs, [alive |-> TRUE, in |-> <<>>, out |-> <<>>])
  /\ UNCHANGED <<talker, ids, failed, late, strays, deaths>>

\* The handshake: one line is read and must be the answer. If it is none, or none
\* comes in 30 s, the process is terminated; else only now the others can use it.
Handshake(t) ==
  LET p == Len(procs) IN
  /\ caller[t].pc = "spawned" /\ starter' = None
  /\ \/ /\ Live(p) /\ procs[p].out = <<>>
        /\ current' = p /\ UNCHANGED procs
        /\ caller' = [caller EXCEPT ![t].pc = "ready", ![t].proc = p]
     \/ /\ procs' = [procs EXCEPT ![p].alive = FALSE] /\ UNCHANGED current
        /\ caller' = [caller EXCEPT ![t] = Idle]
  /\ UNCHANGED <<talker, ids, failed, late, strays, deaths>>

\* An id is taken before the IO lock is.
Draw(t) ==
  /\ caller[t].pc = "ready" /\ ids < MaxIds
  /\ ids' = ids + 1
  /\ caller' = [caller EXCEPT ![t].pc = "waits", ![t].id = ids']
  /\ UNCHANGED <<procs, current, starter, talker, failed, late, strays, deaths>>

\* The request is written, to the process that was live at the beginning.
Write(t) ==
  LET p == caller[t].proc IN
  /\ caller[t].pc = "waits" /\ talker = None
  /\ IF Live(p)
     THEN /\ talker' = t /\ Goes(t, "reads")
          /\ procs' = [procs EXCEPT ![p].in = Append(@, caller[t].id)]
     ELSE /\ caller' = [caller EXCEPT ![t] = Idle] /\ UNCHANGED <<procs, talker>>
  /\ UNCHANGED <<current, starter, ids, failed, late, strays, deaths>>

\* Whether the exchange ends after one more line that was no answer: a call reads
\* three lines at most; the list is read until the deadline, which both ask for
\* only between two lines.
GivesUp(t, isLate) == isLate \/ (t \notin Listing /\ caller[t].reads = 2)

\* A line is read; readline waits for it as long as the process lives.
Read(t) ==
  LET p == caller[t].proc
      mine == Head(procs[p].out) = caller[t].id
  IN /\ caller[t].pc = "reads" /\ procs[p].out # <<>>
     /\ procs' = [procs EXCEPT ![p].out = Tail(@)]
     /\ \/ mine /\ HangsUp(t) /\ UNCHANGED <<failed, late>>
        \/ \E isLate \in BOOLEAN :
             /\ ~mine /\ (isLate => late < MaxLate)
             /\ late' = IF isLate THEN late + 1 ELSE late
             /\ IF GivesUp(t, isLate) THEN HangsUp(t) /\ failed' = failed + 1
                ELSE caller' = [caller EXCEPT ![t].reads = @ + 1] /\ UNCHANGED <<talker, failed>>
     /\ UNCHANGED <<current, starter, ids, strays, deaths>>

\* The pipe of a dead process reads as ended: that is an error, for the list at
\* its deadline.
ReadEnd(t) ==
  /\ caller[t].pc = "reads" /\ ~Live(caller[t].proc) /\ procs[caller[t].proc].out = <<>>
  /\ HangsUp(t) /\ failed' = failed + 1
  /\ UNCHANGED <<procs, current, starter, ids, late, strays, deaths>>
-----------------------------------------------------------------------------
(* The process                                                              *)

Replies(p) ==
  /\ Live(p) /\ procs[p].in # <<>>
  /\ procs' = [procs EXCEPT ![p].in = Tail(@), ![p].out = Append(@, Head(procs[p].in))]
  /\ UNCHANGED <<current, starter, talker, caller, ids, failed, late, strays, deaths>>

Strays(p) ==
  /\ Live(p) /\ strays < MaxStrays /\ strays' = strays + 1
  /\ procs' = [procs EXCEPT ![p].out = Append(@, Stray)]
  /\ UNCHANGED <<current, starter, talker, caller, ids, failed, late, deaths>>

Dies(p) ==
  /\ Live(p) /\ deaths < MaxDeaths /\ deaths' = deaths + 1
  /\ procs' = [procs EXCEPT ![p].alive = FALSE]
  /\ UNCHANGED <<current, starter, talker, caller, ids, failed, late, strays>>

McpNext ==
  \/ \E t \in Threads : Ensure(t) \/ Start(t) \/ Handshake(t) \/ Draw(t) \/ Write(t) \/ Read(t) \/ ReadEnd(t)
  \/ \E p \in Procs : Replies(p) \/ Strays(p) \/ Dies(p)
-----------------------------------------------------------------------------
\* There is one process at a time: threads that find none at the same moment do
\* not each start one, and none is left behind that nobody knows.
OneProcess ==
  /\ Cardinality({p \in Procs : Live(p)}) <= 1
  /\ \A p \in Procs : Live(p) => current = p \/ starter # None

\* As long as its process lives, an exchange fails for stray lines or by its
\* deadline, and costs at least two of the former: the answer that it leaves
\* behind is one line too many for the next, but not for all after it. So lines
\* that nobody asked for cannot make the server useless for good.
FailuresArePaid == deaths = 0 => 2 * (failed - late) <= strays
=============================================================================
