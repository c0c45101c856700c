------------------------------ MODULE McpProofs ------------------------------
(***************************************************************************)
(* Proofs about the two sides of MCP: the pipe to a server of McpStdio,    *)
(* for any threads and without its bounds, and the tools of ToolBelt, for  *)
(* any servers, tools, users and turns.                                    *)
(***************************************************************************)
EXTENDS McpStdio, ToolBelt, FiniteSetTheorems, TLAPS

-----------------------------------------------------------------------------
(* The pipe. *)

Process == [alive : BOOLEAN, in : Seq(Nat), out : Seq(Nat)]
Caller == [pc : {"off", "start", "spawned", "ready", "waits", "reads"}, proc : Nat, id : Nat, reads : Nat]

McpTypes ==
  /\ procs \in Seq(Process) /\ current \in 0..Len(procs)
  /\ starter \in Threads \union {None} /\ talker \in Threads \union {None}
  /\ caller \in [Threads -> Caller]
  /\ \A t \in Threads : caller[t].proc <= Len(procs)
  /\ ids \in Nat /\ failed \in Nat /\ late \in Nat /\ strays \in Nat /\ deaths \in Nat

\* The live process is the one that everyone uses, or the one whose handshake
\* its starter makes under the start lock, when there is no other.
OneInv ==
  /\ \A p \in Procs : procs[p].alive => current = p \/ (starter # None /\ p = Len(procs))
  /\ starter # None => current = None /\ Len(procs) > 0
  /\ \A t \in Threads : caller[t].pc = "spawned" => starter = t

\* The answer of an exchange is still to be read.
Pending(t) ==
  LET p == procs[caller[t].proc] IN
  \/ \E i \in DOMAIN p.out : p.out[i] = caller[t].id
  \/ \E i \in DOMAIN p.in : p.in[i] = caller[t].id

\* The lines that are too many in the pipes of the process, and the ones that the
\* exchange under way has read in vain.
Lines(p) == Len(procs[p].out) + Len(procs[p].in)
Backlog ==
  IF current = None THEN 0
  ELSE Lines(current) + (IF talker = None THEN 0 ELSE caller[talker].reads - 1)

Uses(t) == caller[t].pc \in {"ready", "waits", "reads"}
Talks(t) == (caller[t].pc = "reads" <=> talker = t) /\ (caller[t].pc # "reads" => caller[t].reads = 0)

PaidInv ==
  /\ current # None => procs[current].alive
  /\ \A t \in Threads : Uses(t) => current # None /\ caller[t].proc = current
  /\ \A t \in Threads : Talks(t)
  /\ talker # None => Pending(talker)
  /\ starter # None => procs[Len(procs)].in = <<>>
  /\ 2 * (failed - late) + Backlog <= strays
-----------------------------------------------------------------------------
LEMMA IdleType == Idle \in Caller /\ Idle.pc = "off" /\ Idle.proc = 0 /\ Idle.reads = 0
  BY DEF Idle, Caller, None

LEMMA McpInitTypes == McpInit => McpTypes /\ OneInv /\ PaidInv
<1> SUFFICES ASSUME McpInit PROVE McpTypes /\ OneInv /\ PaidInv
  OBVIOUS
<1>1. procs \in Seq(Process) /\ Len(procs) = 0 /\ Procs = {}
  BY DEF McpInit, Procs
<1>2. McpTypes
  BY <1>1, IdleType DEF McpInit, McpTypes, None
<1>3. OneInv
  BY <1>1, IdleType DEF McpInit, OneInv
<1>4. PaidInv
  BY <1>1, IdleType, McpAssumption DEF McpInit, PaidInv, Uses, Talks, Backlog
<1> QED BY <1>2, <1>3, <1>4

\* A process is changed, or one is added: the others are as they were.
LEMMA OneProc ==
  ASSUME McpTypes, NEW p \in Procs, NEW new \in Process, procs' = [procs EXCEPT ![p] = new]
  PROVE  /\ procs' \in Seq(Process) /\ Len(procs') = Len(procs) /\ Procs' = Procs
         /\ procs'[p] = new /\ \A q \in Procs \ {p} : procs'[q] = procs[q]
  BY DEF McpTypes, Procs

LEMMA NewProc ==
  ASSUME McpTypes, NEW new \in Process, procs' = Append(procs, new)
  PROVE  /\ procs' \in Seq(Process) /\ Len(procs') = Len(procs) + 1 /\ Len(procs) \in Nat
         /\ Procs' = Procs \union {Len(procs')}
         /\ procs'[Len(procs')] = new /\ \A q \in Procs : procs'[q] = procs[q]
  BY DEF McpTypes, Procs

LEMMA ProcType ==
  ASSUME McpTypes
  PROVE  /\ \A p \in Procs : /\ procs[p] \in Process
                             /\ procs[p].out \in Seq(Nat) /\ procs[p].in \in Seq(Nat)
                             /\ Len(procs[p].out) \in Nat /\ Len(procs[p].in) \in Nat
         /\ Len(procs) \in Nat /\ current \in 0..Len(procs)
<1>1. \A p \in Procs : procs[p] \in Process
  BY DEF McpTypes, Procs
<1>2. \A row \in Process : row.out \in Seq(Nat) /\ row.in \in Seq(Nat)
  BY DEF Process
<1>3. \A q \in Seq(Nat) : Len(q) \in Nat
  OBVIOUS
<1> QED BY <1>1, <1>2, <1>3 DEF McpTypes

LEMMA LiveIs ==
  ASSUME McpTypes, NEW p \in 0..Len(procs)
  PROVE  Live(p) <=> p \in Procs /\ procs[p].alive
  BY DEF McpTypes, Procs, Live, None

\* A row of the callers is changed.
LEMMA OneCaller ==
  ASSUME McpTypes, NEW t \in Threads, NEW row \in Caller, caller' = [caller EXCEPT ![t] = row],
         row.proc <= Len(procs), Len(procs) <= Len(procs'), Len(procs') \in Nat
  PROVE  /\ caller' \in [Threads -> Caller] /\ caller'[t] = row
         /\ \A u \in Threads \ {t} : caller'[u] = caller[u]
         /\ \A u \in Threads : caller'[u].proc <= Len(procs')
<1>1. Len(procs) \in Nat
  BY DEF McpTypes
<1>2. /\ caller' \in [Threads -> Caller] /\ caller'[t] = row
      /\ \A u \in Threads \ {t} : caller'[u] = caller[u]
  BY DEF McpTypes
<1>3. \A u \in Threads : caller'[u].proc \in Nat /\ caller'[u].proc <= Len(procs)
  BY <1>2 DEF McpTypes, Caller
<1> QED BY <1>1, <1>2, <1>3

\* The row of one caller changes, and no process.
LEMMA SameProcs ==
  ASSUME McpTypes, NEW t \in Threads, NEW row \in Caller, caller' = [caller EXCEPT ![t] = row],
         row.proc <= Len(procs), procs' = procs
  PROVE  /\ caller' \in [Threads -> Caller] /\ caller'[t] = row
         /\ \A u \in Threads \ {t} : caller'[u] = caller[u]
         /\ \A u \in Threads : caller'[u].proc <= Len(procs')
<1>1. Len(procs) \in Nat
  BY DEF McpTypes
<1>2. Len(procs) <= Len(procs') /\ Len(procs') \in Nat
  BY <1>1
<1> QED BY <1>2, OneCaller

LEMMA Ready ==
  ASSUME McpTypes, NEW old \in Caller, NEW p \in 0..Len(procs)
  PROVE  LET row == [old EXCEPT !.pc = "ready", !.proc = p]
         IN  row \in Caller /\ row.pc = "ready" /\ row.proc = p /\ row.proc <= Len(procs) /\ row.reads = old.reads
<1>1. p \in Nat /\ p <= Len(procs)
  BY DEF McpTypes
<1> QED BY <1>1 DEF Caller

\* Who talks has no other row, and the process has no other lines.
LEMMA SameTalk ==
  ASSUME UNCHANGED <<procs, current, talker>>, talker # None => caller'[talker] = caller[talker]
  PROVE  /\ (talker # None => Pending(talker))' <=> (talker # None => Pending(talker))
         /\ Backlog' = Backlog
<1>1. CASE talker = None
  BY <1>1 DEF Backlog, Lines
<1>2. CASE talker # None
  BY <1>2 DEF Backlog, Lines, Pending
<1> QED BY <1>1, <1>2
-----------------------------------------------------------------------------
Paid == deaths = 0 => PaidInv

LEMMA EnsureKeeps ==
  ASSUME McpTypes, OneInv, Paid, NEW t \in Threads, Ensure(t)
  PROVE  McpTypes' /\ OneInv' /\ Paid'
<1> DEFINE old == caller[t]
           row == IF Live(current) THEN [old EXCEPT !.pc = "ready", !.proc = current]
                  ELSE [old EXCEPT !.pc = "start"]
<1>1. old \in Caller /\ old.pc = "off" /\ old.proc <= Len(procs) /\ current \in 0..Len(procs) /\ Len(procs) \in Nat
  BY DEF McpTypes, Ensure
<1>2. caller' = [caller EXCEPT ![t] = row]
  BY DEF Ensure
<1> HIDE DEF old
<1>3. /\ row \in Caller /\ row.proc <= Len(procs) /\ row.reads = old.reads
      /\ row.pc \in {"ready", "start"} /\ (row.pc = "ready" => Live(current) /\ row.proc = current)
  <2>1. CASE Live(current)
    BY <1>1, <2>1, Ready
  <2>2. CASE ~Live(current)
    BY <1>1, <2>2 DEF Caller
  <2> QED BY <2>1, <2>2
<1>p. procs' = procs
  BY DEF Ensure
<1> HIDE DEF row
<1>4. /\ caller' \in [Threads -> Caller] /\ caller'[t] = row
      /\ \A u \in Threads \ {t} : caller'[u] = caller[u]
      /\ \A u \in Threads : caller'[u].proc <= Len(procs')
  BY <1>2, <1>3, <1>p, SameProcs
<1>5. McpTypes'
  BY <1>4 DEF McpTypes, Ensure
<1>6. OneInv'
  BY <1>3, <1>4 DEF OneInv, Ensure, Procs
<1>7. ASSUME PaidInv PROVE PaidInv'
  <2>1. talker # t
    BY <1>1, <1>7 DEF PaidInv, Talks, old
  <2>2. \A u \in Threads : Uses(u)' => current' # None /\ caller'[u].proc = current'
    BY <1>3, <1>4, <1>7 DEF PaidInv, Uses, Ensure, Live
  <2>3. \A u \in Threads : Talks(u)'
    BY <1>1, <1>3, <1>4, <1>7, <2>1 DEF PaidInv, Talks, Ensure
  <2>4. talker # None => talker \in Threads /\ caller'[talker] = caller[talker]
    BY <1>4, <2>1 DEF McpTypes
  <2>5. (talker # None => Pending(talker))' /\ Backlog' = Backlog
    <3>1. UNCHANGED <<procs, current, talker>>
      BY DEF Ensure
    <3> QED BY <1>7, <2>4, <3>1, SameTalk DEF PaidInv
  <2> QED BY <1>7, <2>2, <2>3, <2>5 DEF PaidInv, Ensure
<1> QED BY <1>5, <1>6, <1>7 DEF Paid, Ensure

LEMMA StartKeeps ==
  ASSUME McpTypes, OneInv, Paid, NEW t \in Threads, Start(t)
  PROVE  McpTypes' /\ OneInv' /\ Paid'
<1> DEFINE old == caller[t]
<1>1. old \in Caller /\ old.pc = "start" /\ old.proc <= Len(procs) /\ current \in 0..Len(procs) /\ Len(procs) \in Nat
  BY DEF McpTypes, Start
<1>t. ASSUME PaidInv PROVE talker # t /\ (talker # None => talker \in Threads) /\ old.reads = 0
  BY <1>1, <1>t DEF PaidInv, Talks, McpTypes
<1>2. CASE /\ Live(current) /\ caller' = [caller EXCEPT ![t].pc = "ready", ![t].proc = current]
           /\ UNCHANGED <<procs, current, starter>>
  <2> DEFINE row == [old EXCEPT !.pc = "ready", !.proc = current]
  <2>1. /\ row \in Caller /\ row.proc = current /\ row.proc <= Len(procs) /\ row.reads = old.reads /\ row.pc = "ready"
        /\ current # None
    <3>1. current # None
      BY <1>2 DEF Live
    <3> QED BY <1>1, <3>1, Ready
  <2>2. caller' = [caller EXCEPT ![t] = row]
    BY <1>2
  <2> HIDE DEF row
  <2>3. /\ caller' \in [Threads -> Caller] /\ caller'[t] = row
        /\ \A u \in Threads \ {t} : caller'[u] = caller[u]
        /\ \A u \in Threads : caller'[u].proc <= Len(procs')
    BY <1>2, <2>1, <2>2, SameProcs
  <2>4. McpTypes'
    BY <1>2, <2>3 DEF McpTypes, Start
  <2>5. OneInv'
    BY <1>2, <2>1, <2>3 DEF OneInv, Procs
  <2>6. ASSUME PaidInv PROVE PaidInv'
    <3>1. UNCHANGED <<talker, failed, late, strays, deaths>>
      BY DEF Start
    <3>2. \A u \in Threads : Uses(u)' => current' # None /\ caller'[u].proc = current'
      BY <1>2, <2>1, <2>3, <2>6 DEF PaidInv, Uses
    <3>3. \A u \in Threads : Talks(u)'
      BY <1>t, <2>1, <2>3, <2>6, <3>1 DEF PaidInv, Talks
    <3>4. talker # None => talker \in Threads /\ caller'[talker] = caller[talker]
      BY <1>t, <2>3, <2>6
    <3>5. (talker # None => Pending(talker))' /\ Backlog' = Backlog
      BY <1>2, <2>6, <3>1, <3>4, SameTalk DEF PaidInv
    <3> QED BY <1>2, <2>6, <3>1, <3>2, <3>3, <3>5 DEF PaidInv
  <2> QED BY <2>4, <2>5, <2>6 DEF Paid, Start
<1>3. CASE /\ ~Live(current) /\ current' = None /\ caller' = [caller EXCEPT ![t] = Idle]
           /\ UNCHANGED <<procs, starter>>
  <2>1. /\ caller' \in [Threads -> Caller] /\ caller'[t] = Idle
        /\ \A u \in Threads \ {t} : caller'[u] = caller[u]
        /\ \A u \in Threads : caller'[u].proc <= Len(procs')
    <3>1. Idle.proc <= Len(procs)
      BY <1>1, IdleType
    <3> QED BY <1>3, <3>1, IdleType, SameProcs
  <2>2. McpTypes'
    BY <1>1, <1>3, <2>1 DEF McpTypes, Start, None
  <2>3. \A q \in Procs : ~procs[q].alive
    BY <1>1, <1>3, LiveIs DEF OneInv, Start
  <2>4. OneInv'
    BY <1>3, <2>1, <2>3, IdleType DEF OneInv, Procs
  <2>5. ASSUME PaidInv PROVE PaidInv'
    <3>1. UNCHANGED <<talker, failed, late, strays, deaths>> /\ starter = None
      BY DEF Start
    <3>2. current = None
      BY <1>1, <1>3, <2>5 DEF PaidInv, Live
    <3>3. \A u \in Threads : ~Uses(u) /\ talker # u
      BY <2>5, <3>2 DEF PaidInv, Uses, Talks
    <3>4. talker = None
      BY <3>3 DEF McpTypes
    <3>5. \A u \in Threads : ~Uses(u)' /\ Talks(u)'
      BY <2>1, <2>5, <3>1, <3>3, <3>4, IdleType DEF PaidInv, Uses, Talks
    <3> QED BY <1>3, <2>5, <3>1, <3>2, <3>4, <3>5 DEF PaidInv, Backlog
  <2> QED BY <2>2, <2>4, <2>5 DEF Paid, Start
<1>4. CASE /\ ~Live(current) /\ starter' = t /\ Goes(t, "spawned") /\ current' = None
           /\ procs' = Append(procs, [alive |-> TRUE, in |-> <<>>, out |-> <<>>])
  <2> DEFINE row == [old EXCEPT !.pc = "spawned"]
             new == [alive |-> TRUE, in |-> <<>>, out |-> <<>>]
  <2>1. row \in Caller /\ row.proc <= Len(procs) /\ row.reads = old.reads /\ row.pc = "spawned"
    BY <1>1 DEF Caller
  <2>2. caller' = [caller EXCEPT ![t] = row]
    BY <1>4 DEF Goes
  <2>3. new \in Process /\ new.in = <<>> /\ procs' = Append(procs, new)
    BY <1>4 DEF Process
  <2> HIDE DEF row, new
  <2>4. /\ procs' \in Seq(Process) /\ Len(procs') = Len(procs) + 1 /\ Procs' = Procs \union {Len(procs')}
        /\ procs'[Len(procs')] = new /\ \A q \in Procs : procs'[q] = procs[q]
    BY <2>3, NewProc
  <2>5. /\ caller' \in [Threads -> Caller] /\ caller'[t] = row
        /\ \A u \in Threads \ {t} : caller'[u] = caller[u]
        /\ \A u \in Threads : caller'[u].proc <= Len(procs')
    <3>1. Len(procs) <= Len(procs') /\ Len(procs') \in Nat
      BY <1>1, <2>4
    <3> QED BY <2>1, <2>2, <3>1, OneCaller
  <2>6. McpTypes'
    BY <1>1, <1>4, <2>4, <2>5 DEF McpTypes, Start, None
  <2>7. \A q \in Procs : ~procs[q].alive
    BY <1>1, <1>4, LiveIs DEF OneInv, Start
  <2>8. \A u \in Threads : caller[u].pc # "spawned"
    BY McpAssumption DEF OneInv, Start
  <2>9. OneInv'
    <3>1. starter' # None /\ current' = None /\ Len(procs') > 0
      BY <1>1, <1>4, <2>4, McpAssumption
    <3>2. \A q \in Procs' : procs'[q].alive => q = Len(procs')
      BY <2>4, <2>7
    <3>3. \A u \in Threads : caller'[u].pc = "spawned" => u = t
      BY <2>5, <2>8
    <3> QED BY <1>4, <3>1, <3>2, <3>3 DEF OneInv
  <2>10. ASSUME PaidInv PROVE PaidInv'
    <3>1. UNCHANGED <<talker, failed, late, strays, deaths>>
      BY DEF Start
    <3>2. current = None
      BY <1>1, <1>4, <2>10 DEF PaidInv, Live
    <3>3. \A u \in Threads : ~Uses(u) /\ talker # u
      BY <2>10, <3>2 DEF PaidInv, Uses, Talks
    <3>4. talker = None
      BY <3>3 DEF McpTypes
    <3>5. \A u \in Threads : ~Uses(u)' /\ Talks(u)'
      BY <1>t, <2>1, <2>5, <2>10, <3>1, <3>3, <3>4 DEF PaidInv, Uses, Talks
    <3> QED BY <1>4, <2>3, <2>4, <2>10, <3>1, <3>2, <3>4, <3>5 DEF PaidInv, Backlog
  <2> QED BY <2>6, <2>9, <2>10 DEF Paid, Start
<1> QED BY <1>2, <1>3, <1>4 DEF Start

LEMMA HandshakeKeeps ==
  ASSUME McpTypes, OneInv, Paid, NEW t \in Threads, Handshake(t)
  PROVE  McpTypes' /\ OneInv' /\ Paid'
<1> DEFINE old == caller[t]
           p == Len(procs)
<1>1. /\ old \in Caller /\ old.pc = "spawned" /\ old.proc <= Len(procs) /\ Len(procs) \in Nat
      /\ starter = t /\ t # None /\ current = None /\ p \in Procs /\ procs[p] \in Process
      /\ starter' = None /\ UNCHANGED <<talker, ids, failed, late, strays, deaths>>
  BY McpAssumption DEF McpTypes, Handshake, OneInv, Procs
<1>2. /\ \A q \in Procs : procs[q].alive => q = p
      /\ \A u \in Threads \ {t} : caller[u].pc # "spawned"
  <2>1. \A q \in Procs : q # 0
    BY <1>1 DEF Procs
  <2> QED BY <1>1, <2>1 DEF OneInv, None
<1>3. ASSUME PaidInv
      PROVE  /\ talker = None /\ old.reads = 0
             /\ \A u \in Threads : ~Uses(u)
             /\ procs[p].in = <<>> /\ 2 * (failed - late) <= strays
  <2>1. \A u \in Threads : ~Uses(u) /\ talker # u
    BY <1>1, <1>3 DEF PaidInv, Uses, Talks
  <2>2. talker = None
    BY <2>1 DEF McpTypes
  <2> QED BY <1>1, <1>3, <2>1, <2>2 DEF PaidInv, Talks, Backlog, McpTypes
<1>4. CASE /\ Live(p) /\ procs[p].out = <<>> /\ current' = p /\ UNCHANGED procs
           /\ caller' = [caller EXCEPT ![t].pc = "ready", ![t].proc = p]
  <2> DEFINE row == [old EXCEPT !.pc = "ready", !.proc = p]
  <2>1. /\ row \in Caller /\ row.proc = p /\ row.proc <= Len(procs) /\ row.reads = old.reads /\ row.pc = "ready"
    <3>1. p \in 0..Len(procs)
      BY <1>1
    <3> QED BY <1>1, <3>1, Ready
  <2>2. caller' = [caller EXCEPT ![t] = row]
    BY <1>4
  <2> HIDE DEF row
  <2>3. /\ caller' \in [Threads -> Caller] /\ caller'[t] = row
        /\ \A u \in Threads \ {t} : caller'[u] = caller[u]
        /\ \A u \in Threads : caller'[u].proc <= Len(procs')
    BY <1>4, <2>1, <2>2, SameProcs
  <2>4. McpTypes'
    BY <1>1, <1>4, <2>3 DEF McpTypes
  <2>5. OneInv'
    BY <1>1, <1>2, <1>4, <2>1, <2>3 DEF OneInv, Procs
  <2>6. ASSUME PaidInv PROVE PaidInv'
    <3>1. \A u \in Threads : Uses(u)' => current' # None /\ caller'[u].proc = current'
      BY <1>1, <1>3, <1>4, <2>1, <2>3, <2>6 DEF Uses, Procs, None
    <3>2. \A u \in Threads : Talks(u)'
      BY <1>1, <1>3, <2>1, <2>3, <2>6 DEF PaidInv, Talks
    <3>3. Backlog' = 0
      <4>1. Len(procs[p].out) = 0 /\ Len(procs[p].in) = 0
        BY <1>3, <1>4, <2>6
      <4>2. procs' = procs /\ current' = p /\ talker' = None
        BY <1>1, <1>3, <1>4, <2>6
      <4> HIDE DEF p
      <4>3. Len(procs'[current'].out) = 0 /\ Len(procs'[current'].in) = 0
        BY <4>1, <4>2
      <4>4. Backlog' = IF current' = None THEN 0 ELSE Len(procs'[current'].out) + Len(procs'[current'].in) + 0
        BY <4>2 DEF Backlog, Lines
      <4> QED BY <4>3, <4>4
    <3>4. procs'[current'].alive /\ talker' = None /\ starter' = None /\ failed' = failed /\ late' = late /\ strays' = strays
      BY <1>1, <1>3, <1>4, <2>6 DEF Live
    <3>5. 2 * (failed - late) <= strays /\ failed \in Nat /\ late \in Nat /\ strays \in Nat
      BY <1>3, <2>6 DEF McpTypes
    <3>6. (2 * (failed - late) + Backlog <= strays)'
      BY <3>3, <3>4, <3>5
    <3> QED BY <3>1, <3>2, <3>4, <3>6 DEF PaidInv
  <2> QED BY <1>1, <2>4, <2>5, <2>6 DEF Paid
<1>5. CASE /\ procs' = [procs EXCEPT ![p].alive = FALSE] /\ UNCHANGED current
           /\ caller' = [caller EXCEPT ![t] = Idle]
  <2> DEFINE new == [procs[p] EXCEPT !.alive = FALSE]
  <2>1. new \in Process /\ new.alive = FALSE
    BY <1>1 DEF Process
  <2>2. procs' = [procs EXCEPT ![p] = new]
    BY <1>5
  <2> HIDE DEF new
  <2>3. /\ procs' \in Seq(Process) /\ Len(procs') = Len(procs) /\ Procs' = Procs
        /\ procs'[p] = new /\ \A q \in Procs \ {p} : procs'[q] = procs[q]
    BY <1>1, <2>1, <2>2, OneProc
  <2>4. /\ caller' \in [Threads -> Caller] /\ caller'[t] = Idle
        /\ \A u \in Threads \ {t} : caller'[u] = caller[u]
        /\ \A u \in Threads : caller'[u].proc <= Len(procs')
    <3>1. Idle.proc <= Len(procs) /\ Len(procs) <= Len(procs') /\ Len(procs') \in Nat
      BY <1>1, <2>3, IdleType
    <3> QED BY <1>5, <3>1, IdleType, OneCaller
  <2>5. McpTypes'
    BY <1>1, <1>5, <2>3, <2>4 DEF McpTypes, None
  <2>6. OneInv'
    BY <1>1, <1>2, <2>1, <2>3, <2>4, IdleType DEF OneInv
  <2>7. ASSUME PaidInv PROVE PaidInv'
    <3>1. \A u \in Threads : ~Uses(u)' /\ Talks(u)'
      BY <1>1, <1>3, <2>4, <2>7, IdleType DEF PaidInv, Uses, Talks
    <3> QED BY <1>1, <1>3, <1>5, <2>7, <3>1 DEF PaidInv, Backlog
  <2> QED BY <1>1, <2>5, <2>6, <2>7 DEF Paid
<1> QED BY <1>4, <1>5 DEF Handshake

LEMMA DrawKeeps ==
  ASSUME McpTypes, OneInv, Paid, NEW t \in Threads, Draw(t)
  PROVE  McpTypes' /\ OneInv' /\ Paid'
<1> DEFINE old == caller[t]
           row == [old EXCEPT !.pc = "waits", !.id = ids']
<1>1. old \in Caller /\ old.pc = "ready" /\ old.proc <= Len(procs) /\ ids' \in Nat
  BY DEF McpTypes, Draw
<1>2. caller' = [caller EXCEPT ![t] = row] /\ UNCHANGED <<procs, current, starter, talker, failed, late, strays, deaths>>
  BY DEF Draw
<1>3. row \in Caller /\ row.pc = "waits" /\ row.proc = old.proc /\ row.reads = old.reads
  BY <1>1 DEF Caller
<1> HIDE DEF row
<1>4. /\ caller' \in [Threads -> Caller] /\ caller'[t] = row
      /\ \A u \in Threads \ {t} : caller'[u] = caller[u]
      /\ \A u \in Threads : caller'[u].proc <= Len(procs')
  BY <1>1, <1>2, <1>3, SameProcs
<1>5. McpTypes'
  BY <1>1, <1>2, <1>4 DEF McpTypes
<1>6. OneInv'
  BY <1>2, <1>3, <1>4 DEF OneInv, Procs
<1>7. ASSUME PaidInv PROVE PaidInv'
  <2>1. talker # t
    BY <1>1, <1>7 DEF PaidInv, Talks
  <2>2. \A u \in Threads : Uses(u)' => current' # None /\ caller'[u].proc = current'
    BY <1>1, <1>2, <1>3, <1>4, <1>7 DEF PaidInv, Uses
  <2>3. \A u \in Threads : Talks(u)'
    BY <1>1, <1>2, <1>3, <1>4, <1>7, <2>1 DEF PaidInv, Talks
  <2>4. talker # None => talker \in Threads /\ caller'[talker] = caller[talker]
    BY <1>4, <2>1 DEF McpTypes
  <2>5. (talker # None => Pending(talker))' /\ Backlog' = Backlog
    BY <1>2, <1>7, <2>4, SameTalk DEF PaidInv
  <2> QED BY <1>2, <1>7, <2>2, <2>3, <2>5 DEF PaidInv
<1> QED BY <1>2, <1>5, <1>6, <1>7 DEF Paid

\* Where a live process keeps living, and a row is changed that is not "spawned",
\* it stays the only one.
LEMMA OneStays ==
  ASSUME OneInv, McpTypes, UNCHANGED <<current, starter>>, Len(procs') = Len(procs),
         \A q \in Procs : procs'[q].alive => procs[q].alive,
         \A u \in Threads : caller'[u].pc = "spawned" => caller[u].pc = "spawned"
  PROVE  OneInv'
  BY DEF OneInv, Procs

LEMMA HangsUpRows ==
  ASSUME McpTypes, NEW t \in Threads, caller' = [caller EXCEPT ![t] = Idle], Len(procs') = Len(procs)
  PROVE  /\ caller' \in [Threads -> Caller] /\ caller'[t] = Idle
         /\ \A u \in Threads \ {t} : caller'[u] = caller[u]
         /\ \A u \in Threads : caller'[u].proc <= Len(procs')
<1>1. Len(procs) \in Nat
  BY DEF McpTypes
<1>2. Idle.proc <= Len(procs) /\ Len(procs) <= Len(procs') /\ Len(procs') \in Nat
  BY <1>1, IdleType
<1> QED BY <1>2, IdleType, OneCaller

LEMMA WriteKeeps ==
  ASSUME McpTypes, OneInv, Paid, NEW t \in Threads, Write(t)
  PROVE  McpTypes' /\ OneInv' /\ Paid'
<1> DEFINE old == caller[t]
           p == old.proc
<1>1. /\ old \in Caller /\ old.pc = "waits" /\ p \in 0..Len(procs) /\ Len(procs) \in Nat /\ t # None
      /\ talker = None /\ UNCHANGED <<current, starter, ids, failed, late, strays, deaths>>
  BY McpAssumption DEF McpTypes, Write, Caller
<1>2. CASE ~Live(p)
  <2>1. caller' = [caller EXCEPT ![t] = Idle] /\ UNCHANGED <<procs, talker>>
    BY <1>2 DEF Write
  <2>2. /\ caller' \in [Threads -> Caller] /\ caller'[t] = Idle
        /\ \A u \in Threads \ {t} : caller'[u] = caller[u]
        /\ \A u \in Threads : caller'[u].proc <= Len(procs')
    BY <2>1, HangsUpRows
  <2>3. McpTypes'
    BY <1>1, <2>1, <2>2 DEF McpTypes
  <2>4. OneInv'
    BY <1>1, <2>1, <2>2, IdleType, OneStays
  <2>5. ASSUME PaidInv PROVE PaidInv'
    <3>1. Uses(t)
      BY <1>1 DEF Uses
    <3> QED BY <1>2, <2>5, <3>1 DEF PaidInv, Live
  <2> QED BY <1>1, <2>3, <2>4, <2>5 DEF Paid
<1>3. CASE Live(p)
  <2> DEFINE row == [old EXCEPT !.pc = "reads"]
             new == [procs[p] EXCEPT !.in = Append(procs[p].in, old.id)]
  <2>1. p \in Procs /\ procs[p] \in Process /\ old.id \in Nat
    <3>1. p \in Procs
      BY <1>1, <1>3, LiveIs
    <3>2. old.id \in Nat
      BY <1>1 DEF Caller
    <3> QED BY <3>1, <3>2 DEF McpTypes, Procs
  <2>2. /\ talker' = t /\ caller' = [caller EXCEPT ![t] = row] /\ procs' = [procs EXCEPT ![p] = new]
    BY <1>3 DEF Write, Goes
  <2>3. row \in Caller /\ row.pc = "reads" /\ row.proc = p /\ row.id = old.id /\ row.reads = old.reads
    <3>1. \A was \in Caller : LET r == [was EXCEPT !.pc = "reads"] IN
            r \in Caller /\ r.pc = "reads" /\ r.proc = was.proc /\ r.id = was.id /\ r.reads = was.reads
      BY DEF Caller
    <3> QED BY <1>1, <3>1
  <2>4. /\ new \in Process /\ new.alive = procs[p].alive /\ new.out = procs[p].out
        /\ new.in = Append(procs[p].in, old.id)
    <3> DEFINE was == procs[p]
    <3>1. was \in Process /\ was.in \in Seq(Nat)
      BY <2>1 DEF Process
    <3>2. Append(was.in, old.id) \in Seq(Nat)
      BY <2>1, <3>1
    <3> HIDE DEF was
    <3>3. /\ [was EXCEPT !.in = Append(was.in, old.id)] \in Process
          /\ [was EXCEPT !.in = Append(was.in, old.id)].alive = was.alive
          /\ [was EXCEPT !.in = Append(was.in, old.id)].out = was.out
          /\ [was EXCEPT !.in = Append(was.in, old.id)].in = Append(was.in, old.id)
      BY <3>1, <3>2 DEF Process
    <3> QED BY <3>3 DEF was
  <2> HIDE DEF row, new, p
  <2>5. /\ procs' \in Seq(Process) /\ Len(procs') = Len(procs) /\ Procs' = Procs
        /\ procs'[p] = new /\ \A q \in Procs \ {p} : procs'[q] = procs[q]
    BY <2>1, <2>2, <2>4, OneProc
  <2>6. /\ caller' \in [Threads -> Caller] /\ caller'[t] = row
        /\ \A u \in Threads \ {t} : caller'[u] = caller[u]
        /\ \A u \in Threads : caller'[u].proc <= Len(procs')
    <3>1. row.proc <= Len(procs) /\ Len(procs) <= Len(procs') /\ Len(procs') \in Nat
      BY <1>1, <2>3, <2>5
    <3> QED BY <2>2, <2>3, <3>1, OneCaller
  <2>7. McpTypes'
    BY <1>1, <2>2, <2>5, <2>6 DEF McpTypes
  <2>8. OneInv'
    BY <1>1, <2>3, <2>4, <2>5, <2>6, OneStays
  <2>9. ASSUME PaidInv PROVE PaidInv'
    <3>1. current # None /\ p = current /\ old.reads = 0
      BY <1>1, <2>9 DEF PaidInv, Uses, Talks, p
    <3>2. \A u \in Threads : Uses(u)' => current' # None /\ caller'[u].proc = current'
      <4>1. \A u \in Threads : Uses(u) => caller[u].proc = current
        BY <2>9 DEF PaidInv
      <4>2. caller'[t].proc = current /\ current' = current
        BY <1>1, <2>3, <2>6, <3>1
      <4>3. \A u \in Threads \ {t} : Uses(u)' => Uses(u)
        BY <2>6 DEF Uses
      <4> QED BY <2>6, <3>1, <4>1, <4>2, <4>3
    <3>3. \A u \in Threads : Talks(u)'
      BY <1>1, <2>2, <2>3, <2>6, <2>9, McpAssumption DEF PaidInv, Talks
    <3>4. procs'[current].alive
      BY <2>4, <2>5, <2>9, <3>1 DEF PaidInv
    <3>5. Pending(t)'
      <4>1. Len(procs[p].in) + 1 \in DOMAIN new.in /\ new.in[Len(procs[p].in) + 1] = old.id
        <5>1. procs[p].in \in Seq(Nat)
          BY <2>1 DEF Process
        <5> QED BY <2>1, <2>4, <5>1
      <4>2. caller'[t].proc = p /\ caller'[t].id = old.id
        BY <2>3, <2>6
      <4> QED BY <2>5, <4>1, <4>2 DEF Pending
    <3>6. Len(procs[p].in) \in Nat /\ Len(procs[p].out) \in Nat /\ Len(new.in) = Len(procs[p].in) + 1
      BY <2>1, <2>4 DEF Process
    <3>7. Backlog = Len(procs[p].out) + Len(procs[p].in)
      BY <1>1, <3>1, <3>6 DEF Backlog, Lines
    <3>8. Backlog' = Len(new.out) + Len(new.in) + (0 - 1)
      <4>1. talker' = t /\ t # None /\ current' = p /\ p # None /\ procs'[p] = new /\ caller'[t].reads = 0
        BY <1>1, <2>2, <2>3, <2>5, <2>6, <3>1
      <4> QED BY <4>1 DEF Backlog, Lines
    <3>9. Backlog' = Backlog
      <4> DEFINE a == Len(procs[p].out)
                 b == Len(procs[p].in)
      <4>1. Len(new.out) = a /\ Len(new.in) = b + 1 /\ a \in Nat /\ b \in Nat /\ Backlog = a + b
        BY <2>4, <3>6, <3>7
      <4>2. Backlog' = a + (b + 1) + (0 - 1)
        BY <3>8, <4>1
      <4> HIDE DEF a, b
      <4> QED BY <4>1, <4>2
    <3>10. starter' = None
      BY <1>1, <3>1 DEF OneInv
    <3> QED BY <1>1, <2>2, <2>9, <3>2, <3>3, <3>4, <3>5, <3>9, <3>10 DEF PaidInv
  <2> QED BY <1>1, <2>7, <2>8, <2>9 DEF Paid
<1> QED BY <1>2, <1>3

\* Who uses a process has one.
UseInv == \A t \in Threads : Uses(t) => caller[t].proc # None

LEMMA NextUses == ASSUME McpTypes, UseInv, [McpNext]_mcpVars PROVE UseInv'
<1>1. ASSUME NEW t \in Threads, NEW row \in Caller, caller' = [caller EXCEPT ![t] = row],
             row.pc \in {"ready", "waits", "reads"} => row.proc # None
      PROVE  UseInv'
  <2>1. caller'[t] = row /\ \A u \in Threads \ {t} : caller'[u] = caller[u]
    BY <1>1 DEF McpTypes
  <2> QED BY <1>1, <2>1 DEF UseInv, Uses
<1>2. ASSUME NEW t \in Threads, caller' = [caller EXCEPT ![t] = Idle] PROVE UseInv'
  BY <1>1, <1>2, IdleType
<1>c. \A t \in Threads : caller[t] \in Caller
  BY DEF McpTypes
<1>3. ASSUME NEW t \in Threads, NEW q \in Nat, Live(q), caller' = [caller EXCEPT ![t].pc = "ready", ![t].proc = q]
      PROVE  UseInv'
  <2>1. /\ [caller[t] EXCEPT !.pc = "ready", !.proc = q] \in Caller
        /\ [caller[t] EXCEPT !.pc = "ready", !.proc = q].proc = q
    BY <1>c DEF Caller
  <2>2. q # None
    BY <1>3 DEF Live
  <2> QED BY <1>1, <1>3, <2>1, <2>2
<1>4. ASSUME NEW t \in Threads, NEW pc \in {"start", "spawned"}, Goes(t, pc) PROVE UseInv'
  <2>1. [caller[t] EXCEPT !.pc = pc] \in Caller /\ [caller[t] EXCEPT !.pc = pc].pc = pc
    BY <1>c DEF Caller
  <2> QED BY <1>1, <1>4, <2>1 DEF Goes
<1>5. ASSUME NEW t \in Threads, Uses(t), NEW pc \in {"waits", "reads"}, NEW id \in Nat, NEW n \in Nat,
             caller' = [caller EXCEPT ![t] = [caller[t] EXCEPT !.pc = pc, !.id = id, !.reads = n]]
      PROVE  UseInv'
  <2> DEFINE row == [caller[t] EXCEPT !.pc = pc, !.id = id, !.reads = n]
  <2>1. row \in Caller /\ row.proc = caller[t].proc
    BY <1>c DEF Caller
  <2>2. caller[t].proc # None
    BY <1>5 DEF UseInv
  <2> HIDE DEF row
  <2>3. caller' = [caller EXCEPT ![t] = row]
    BY <1>5 DEF row
  <2> QED BY <1>1, <2>1, <2>2, <2>3
<1>6. current \in Nat /\ Len(procs) \in Nat /\ ids \in Nat
  BY DEF McpTypes
<1>7. ASSUME NEW t \in Threads, Ensure(t) \/ Start(t) \/ Handshake(t) PROVE UseInv'
  <2>1. CASE Ensure(t)
    <3>1. \/ Live(current) /\ caller' = [caller EXCEPT ![t].pc = "ready", ![t].proc = current]
          \/ Goes(t, "start")
      BY <2>1 DEF Ensure, Goes
    <3> QED BY <1>3, <1>4, <1>6, <3>1
  <2>2. CASE Start(t)
    BY <1>2, <1>3, <1>4, <1>6, <2>2 DEF Start
  <2>3. CASE Handshake(t)
    BY <1>2, <1>3, <1>6, <2>3 DEF Handshake
  <2> QED BY <1>7, <2>1, <2>2, <2>3
<1>8. ASSUME NEW t \in Threads, Draw(t) PROVE UseInv'
  <2>1. caller' = [caller EXCEPT ![t] = [caller[t] EXCEPT !.pc = "waits", !.id = ids', !.reads = caller[t].reads]]
    BY <1>8, <1>c DEF Draw, Caller, McpTypes
  <2>2. ids' \in Nat /\ caller[t].reads \in Nat /\ Uses(t)
    BY <1>6, <1>8, <1>c DEF Draw, Uses, Caller
  <2> QED BY <1>5, <2>1, <2>2
<1>9. ASSUME NEW t \in Threads, Write(t) PROVE UseInv'
  <2>1. CASE caller' = [caller EXCEPT ![t] = Idle]
    BY <1>2, <2>1
  <2>2. CASE Goes(t, "reads")
    <3>1. caller' = [caller EXCEPT ![t] = [caller[t] EXCEPT !.pc = "reads", !.id = caller[t].id, !.reads = caller[t].reads]]
      BY <1>c, <2>2 DEF Goes, Caller, McpTypes
    <3> QED BY <1>5, <1>9, <1>c, <3>1 DEF Write, Uses, Caller
  <2> QED BY <1>9, <2>1, <2>2 DEF Write
<1>10. ASSUME NEW t \in Threads, Read(t) \/ ReadEnd(t) PROVE UseInv'
  <2>1. CASE HangsUp(t)
    BY <1>2, <2>1 DEF HangsUp
  <2>2. CASE Read(t) /\ caller' = [caller EXCEPT ![t].reads = @ + 1]
    <3>1. caller' = [caller EXCEPT ![t] = [caller[t] EXCEPT !.pc = "reads", !.id = caller[t].id, !.reads = caller[t].reads + 1]]
      BY <1>c, <2>2 DEF Read, Caller, McpTypes
    <3>2. caller[t].reads + 1 \in Nat /\ caller[t].id \in Nat
      BY <1>c DEF Caller
    <3>3. Uses(t)
      BY <2>2 DEF Read, Uses
    <3> QED BY <1>5, <3>1, <3>2, <3>3
  <2> QED BY <1>10, <2>1, <2>2 DEF Read, ReadEnd
<1>11. CASE UNCHANGED caller
  BY <1>11 DEF UseInv, Uses
<1>12. ASSUME NEW q \in Procs, Replies(q) \/ Strays(q) \/ Dies(q) PROVE UNCHANGED caller
  BY <1>12 DEF Replies, Strays, Dies
<1>13. CASE UNCHANGED mcpVars
  BY <1>11, <1>13 DEF mcpVars
<1> QED BY <1>7, <1>8, <1>9, <1>10, <1>11, <1>12, <1>13 DEF McpNext

\* The next line of a pipe is taken.
LEMMA TakenLine ==
  ASSUME NEW proc \in Process, proc.out # <<>>
  PROVE  LET new == [proc EXCEPT !.out = Tail(proc.out)]
         IN  /\ new \in Process /\ new.alive = proc.alive /\ new.in = proc.in /\ new.out = Tail(proc.out)
             /\ Len(new.out) = Len(proc.out) - 1 /\ Len(proc.out) \in Nat /\ Len(proc.in) \in Nat
             /\ \A i \in DOMAIN proc.out : proc.out[i] # Head(proc.out) =>
                  (i - 1) \in DOMAIN new.out /\ new.out[i - 1] = proc.out[i]
<1> DEFINE out == proc.out
           new == [proc EXCEPT !.out = Tail(out)]
<1>1. out \in Seq(Nat) /\ proc.in \in Seq(Nat) /\ out # <<>>
  BY DEF Process
<1>2. /\ Tail(out) \in Seq(Nat) /\ Len(Tail(out)) = Len(out) - 1 /\ Len(out) \in Nat
      /\ \A i \in 1..Len(out) : i # 1 => (i - 1) \in 1..Len(Tail(out)) /\ Tail(out)[i - 1] = out[i]
      /\ Head(out) = out[1] /\ Len(proc.in) \in Nat
  BY <1>1
<1>3. \A i \in DOMAIN out : out[i] # Head(out) => (i - 1) \in DOMAIN Tail(out) /\ Tail(out)[i - 1] = out[i]
  <2>1. DOMAIN out = 1..Len(out) /\ DOMAIN Tail(out) = 1..Len(Tail(out))
    BY <1>1, <1>2
  <2> HIDE DEF out
  <2> QED BY <1>2, <2>1
<1>4. new \in Process /\ new.alive = proc.alive /\ new.in = proc.in /\ new.out = Tail(out)
  BY <1>2 DEF Process
<1> QED BY <1>2, <1>3, <1>4

LEMMA ReadKeeps ==
  ASSUME McpTypes, OneInv, UseInv, Paid, NEW t \in Threads, Read(t)
  PROVE  McpTypes' /\ OneInv' /\ Paid'
<1> DEFINE old == caller[t]
           p == old.proc
           new == [procs[p] EXCEPT !.out = Tail(procs[p].out)]
           mine == Head(procs[p].out) = old.id
           next == [old EXCEPT !.reads = old.reads + 1]
<1>1. /\ old \in Caller /\ old.pc = "reads" /\ old.reads \in Nat /\ Len(procs) \in Nat /\ t # None
      /\ UNCHANGED <<current, starter, ids, strays, deaths>>
  BY McpAssumption DEF McpTypes, Read, Caller
<1>2. p \in Procs /\ procs[p] \in Process /\ procs[p].out # <<>>
  <2>1. p \in Nat /\ p <= Len(procs) /\ p # 0
    BY <1>1 DEF McpTypes, Caller, UseInv, Uses, None
  <2> QED BY <1>1, <2>1 DEF McpTypes, Procs, Read
<1>3. procs' = [procs EXCEPT ![p] = new]
  BY DEF Read
<1>4. \/ mine /\ HangsUp(t) /\ UNCHANGED <<failed, late>>
      \/ ~mine /\ HangsUp(t) /\ failed' = failed + 1 /\ late' = late + 1
      \/ ~mine /\ HangsUp(t) /\ failed' = failed + 1 /\ late' = late /\ old.reads = 2
      \/ ~mine /\ caller' = [caller EXCEPT ![t] = next] /\ UNCHANGED <<talker, failed, late>>
  <2>1. \/ mine /\ HangsUp(t) /\ UNCHANGED <<failed, late>>
        \/ \E isLate \in BOOLEAN :
             /\ ~mine /\ late' = IF isLate THEN late + 1 ELSE late
             /\ IF GivesUp(t, isLate) THEN HangsUp(t) /\ failed' = failed + 1
                ELSE caller' = [caller EXCEPT ![t].reads = @ + 1] /\ UNCHANGED <<talker, failed>>
    BY DEF Read
  <2>2. caller' = [caller EXCEPT ![t].reads = @ + 1] => caller' = [caller EXCEPT ![t] = next]
    BY DEF McpTypes
  <2> HIDE DEF mine, next
  <2>3. \A isLate \in BOOLEAN : GivesUp(t, isLate) => isLate \/ old.reads = 2
    BY DEF GivesUp
  <2>4. \A isLate \in BOOLEAN : ~GivesUp(t, isLate) => ~isLate
    BY DEF GivesUp
  <2> QED BY <2>1, <2>2, <2>3, <2>4
<1>5. /\ new \in Process /\ new.alive = procs[p].alive /\ new.in = procs[p].in
      /\ Len(new.out) = Len(procs[p].out) - 1 /\ Len(procs[p].out) \in Nat /\ Len(procs[p].in) \in Nat
      /\ ~mine => \A i \in DOMAIN procs[p].out : procs[p].out[i] = old.id =>
                    (i - 1) \in DOMAIN new.out /\ new.out[i - 1] = old.id
  BY <1>2, TakenLine
<1>6. /\ next \in Caller /\ next.pc = "reads" /\ next.proc = p /\ next.id = old.id /\ next.reads = old.reads + 1
      /\ p <= Len(procs)
  BY <1>1, <1>2 DEF Caller, Procs
<1> HIDE DEF new, mine, next, p, old
<1>7. /\ procs' \in Seq(Process) /\ Len(procs') = Len(procs) /\ Procs' = Procs
      /\ procs'[p] = new /\ \A q \in Procs \ {p} : procs'[q] = procs[q]
  BY <1>2, <1>3, <1>5, OneProc
<1>8. /\ old = caller[t] /\ p = old.proc
      /\ failed \in Nat /\ late \in Nat /\ strays \in Nat /\ failed' \in Nat /\ late' \in Nat
      /\ talker \in Threads \union {None}
  BY <1>4 DEF old, p, McpTypes
<1>9. ASSUME PaidInv
      PROVE  /\ current # None /\ p = current /\ talker = t /\ procs'[current].alive
             /\ Backlog = Len(procs[p].out) + Len(procs[p].in) + (old.reads - 1)
             /\ 2 * (failed - late) + Backlog <= strays
             /\ starter' = None
  <2>1. current # None /\ p = current /\ talker = t
    BY <1>1, <1>8, <1>9 DEF PaidInv, Uses, Talks
  <2>2. procs'[current].alive
    BY <1>5, <1>7, <1>9, <2>1 DEF PaidInv
  <2>3. Backlog = Len(procs[p].out) + Len(procs[p].in) + (old.reads - 1)
    BY <1>1, <1>8, <2>1 DEF Backlog, Lines
  <2> QED BY <1>1, <1>9, <2>1, <2>2, <2>3 DEF PaidInv, OneInv
<1>10. CASE HangsUp(t)
  <2>1. talker' = None /\ caller' = [caller EXCEPT ![t] = Idle]
    BY <1>10 DEF HangsUp
  <2>2. /\ caller' \in [Threads -> Caller] /\ caller'[t] = Idle
        /\ \A u \in Threads \ {t} : caller'[u] = caller[u]
        /\ \A u \in Threads : caller'[u].proc <= Len(procs')
    BY <1>7, <2>1, HangsUpRows
  <2>3. McpTypes'
    BY <1>1, <1>7, <1>8, <2>1, <2>2 DEF McpTypes
  <2>4. OneInv'
    BY <1>1, <1>5, <1>7, <2>2, IdleType, OneStays
  <2>5. ASSUME PaidInv PROVE PaidInv'
    <3>1. \A u \in Threads : Uses(u)' => current' # None /\ caller'[u].proc = current'
      BY <1>1, <2>2, <2>5, IdleType DEF PaidInv, Uses
    <3>2. \A u \in Threads : Talks(u)'
      BY <1>9, <2>1, <2>2, <2>5, IdleType, McpAssumption DEF PaidInv, Talks
    <3> DEFINE lines == Len(procs[p].out) + Len(procs[p].in)
    <3>3. Backlog' = Len(new.out) + Len(new.in) + 0
      <4>1. talker' = None /\ current' = p /\ p # None /\ procs'[p] = new
        BY <1>1, <1>7, <1>9, <2>1, <2>5
      <4> QED BY <4>1 DEF Backlog, Lines
    <3>4. Backlog' = lines - 1 /\ Backlog = lines + (old.reads - 1) /\ lines \in Nat
      <4> DEFINE a == Len(procs[p].out)
                 b == Len(procs[p].in)
      <4>1. Len(new.out) = a - 1 /\ Len(new.in) = b /\ a \in Nat /\ b \in Nat /\ lines = a + b
        BY <1>5
      <4>2. Backlog = lines + (old.reads - 1)
        BY <1>9, <2>5
      <4>3. Backlog' = (a - 1) + b + 0
        BY <3>3, <4>1
      <4> HIDE DEF a, b, lines
      <4> QED BY <4>1, <4>2, <4>3
    <3> HIDE DEF lines
    <3>5. (2 * (failed - late) + Backlog <= strays)'
      <4>1. 2 * (failed - late) + Backlog <= strays /\ strays' = strays
        BY <1>1, <1>9, <2>5
      <4>2. \/ failed' = failed /\ late' = late
            \/ failed' = failed + 1 /\ late' = late + 1
            \/ failed' = failed + 1 /\ late' = late /\ old.reads = 2
        <5>1. talker' # talker
          BY <1>1, <1>9, <2>1, <2>5
        <5> QED BY <1>4, <5>1
      <4>3. Backlog' = Backlog - old.reads /\ Backlog \in Int /\ old.reads \in Nat
        BY <1>1, <1>8, <3>4
      <4> QED BY <1>8, <4>1, <4>2, <4>3
    <3> QED BY <1>9, <1>1, <2>1, <2>5, <3>1, <3>2, <3>5 DEF PaidInv
  <2> QED BY <1>1, <2>3, <2>4, <2>5 DEF Paid
<1>11. CASE ~mine /\ caller' = [caller EXCEPT ![t] = next] /\ UNCHANGED <<talker, failed, late>>
  <2>1. /\ caller' \in [Threads -> Caller] /\ caller'[t] = next
        /\ \A u \in Threads \ {t} : caller'[u] = caller[u]
        /\ \A u \in Threads : caller'[u].proc <= Len(procs')
    <3>1. next.proc <= Len(procs) /\ Len(procs) <= Len(procs') /\ Len(procs') \in Nat
      BY <1>1, <1>6, <1>7
    <3> QED BY <1>6, <1>11, <3>1, OneCaller
  <2>2. McpTypes'
    BY <1>1, <1>7, <1>8, <1>11, <2>1 DEF McpTypes
  <2>3. OneInv'
    BY <1>1, <1>5, <1>6, <1>7, <2>1, OneStays
  <2>4. ASSUME PaidInv PROVE PaidInv'
    <3>1. \A u \in Threads : Uses(u)' => current' # None /\ caller'[u].proc = current'
      <4>1. caller'[t].proc = current' /\ current' # None /\ current' = current
        BY <1>1, <1>6, <1>9, <2>1, <2>4
      <4>2. \A u \in Threads : Uses(u) => caller[u].proc = current
        BY <2>4 DEF PaidInv
      <4>3. \A u \in Threads \ {t} : Uses(u)' => Uses(u)
        BY <2>1 DEF Uses
      <4> QED BY <2>1, <4>1, <4>2, <4>3
    <3>2. \A u \in Threads : Talks(u)'
      BY <1>1, <1>6, <1>9, <1>11, <2>1, <2>4 DEF PaidInv, Talks
    <3>3. Pending(t)'
      <4>1. /\ caller'[t].proc = p /\ caller'[t].id = old.id /\ procs'[p] = new
        BY <1>6, <1>7, <2>1
      <4>2. \/ \E i \in DOMAIN procs[p].out : procs[p].out[i] = old.id
            \/ \E i \in DOMAIN procs[p].in : procs[p].in[i] = old.id
        BY <1>1, <1>8, <1>9, <2>4 DEF PaidInv, Pending
      <4>3. \/ \E i \in DOMAIN new.out : new.out[i] = old.id
            \/ \E i \in DOMAIN new.in : new.in[i] = old.id
        BY <1>5, <1>11, <4>2
      <4> QED BY <4>1, <4>3 DEF Pending
    <3>4. Backlog' = Backlog
      <4>1. talker' = t /\ current' = p /\ p # None /\ procs'[p] = new /\ caller'[t].reads = old.reads + 1
        BY <1>1, <1>6, <1>7, <1>9, <1>11, <2>1, <2>4
      <4>2. Backlog' = Len(new.out) + Len(new.in) + ((old.reads + 1) - 1)
        <5>1. talker' # None /\ current' # None
          BY <1>1, <4>1
        <5> QED BY <4>1, <5>1 DEF Backlog, Lines
      <4> DEFINE a == Len(procs[p].out)
                 b == Len(procs[p].in)
                 n == old.reads
      <4>3. Len(new.out) = a - 1 /\ Len(new.in) = b /\ a \in Nat /\ b \in Nat /\ n \in Nat /\ Backlog = a + b + (n - 1)
        BY <1>1, <1>5, <1>8, <1>9, <2>4
      <4>4. Backlog' = (a - 1) + b + ((n + 1) - 1)
        BY <4>2, <4>3
      <4> HIDE DEF a, b, n
      <4> QED BY <4>3, <4>4
    <3> QED BY <1>1, <1>9, <1>11, <2>4, <3>1, <3>2, <3>3, <3>4 DEF PaidInv
  <2> QED BY <1>1, <2>2, <2>3, <2>4 DEF Paid
<1> QED BY <1>4, <1>10, <1>11

LEMMA ReadEndKeeps ==
  ASSUME McpTypes, OneInv, Paid, NEW t \in Threads, ReadEnd(t)
  PROVE  McpTypes' /\ OneInv' /\ Paid'
<1>1. talker' = None /\ caller' = [caller EXCEPT ![t] = Idle] /\ failed' = failed + 1
      /\ UNCHANGED <<procs, current, starter, ids, late, strays, deaths>>
  BY DEF ReadEnd, HangsUp
<1>2. /\ caller' \in [Threads -> Caller] /\ caller'[t] = Idle
      /\ \A u \in Threads \ {t} : caller'[u] = caller[u]
      /\ \A u \in Threads : caller'[u].proc <= Len(procs')
  BY <1>1, HangsUpRows
<1>3. McpTypes'
  BY <1>1, <1>2 DEF McpTypes
<1>4. OneInv'
  BY <1>1, <1>2, IdleType, OneStays
<1>5. ~PaidInv
  BY DEF ReadEnd, PaidInv, Uses, Live
<1> QED BY <1>1, <1>3, <1>4, <1>5 DEF Paid

\* The process does something: nobody else does.
LEMMA ProcessKeeps ==
  ASSUME McpTypes, OneInv, NEW p \in Procs, NEW new \in Process, procs' = [procs EXCEPT ![p] = new],
         new.alive => procs[p].alive, UNCHANGED <<current, starter, talker, caller, ids, failed, late>>,
         strays' \in Nat, deaths' \in Nat
  PROVE  /\ McpTypes' /\ OneInv'
         /\ procs'[p] = new /\ \A q \in Procs \ {p} : procs'[q] = procs[q]
         /\ Len(procs') = Len(procs)
<1>1. /\ procs' \in Seq(Process) /\ Len(procs') = Len(procs) /\ Procs' = Procs
      /\ procs'[p] = new /\ \A q \in Procs \ {p} : procs'[q] = procs[q]
  BY OneProc
<1>2. McpTypes'
  BY <1>1 DEF McpTypes
<1>3. OneInv'
  BY <1>1, OneStays
<1> QED BY <1>1, <1>2, <1>3

\* And while it lives, it keeps what the others count on.
LEMMA LinesKeep ==
  ASSUME McpTypes, PaidInv, NEW p \in Procs, NEW new \in Process, procs' = [procs EXCEPT ![p] = new],
         new.alive = procs[p].alive, UNCHANGED <<current, starter, talker, caller, failed, late>>,
         procs[p].in = <<>> => new.in = <<>>,
         \A id \in Nat : (\E i \in DOMAIN procs[p].out : procs[p].out[i] = id) \/ (\E i \in DOMAIN procs[p].in : procs[p].in[i] = id)
                       => (\E i \in DOMAIN new.out : new.out[i] = id) \/ (\E i \in DOMAIN new.in : new.in[i] = id),
         NEW k \in Nat, Len(new.out) + Len(new.in) = Len(procs[p].out) + Len(procs[p].in) + k,
         strays' = strays + k
  PROVE  PaidInv'
<1>1. /\ Len(procs') = Len(procs) /\ Procs' = Procs /\ Len(procs) \in Nat /\ current \in 0..Len(procs)
      /\ procs'[p] = new /\ \A q \in Procs \ {p} : procs'[q] = procs[q]
  <2>1. Len(procs) \in Nat /\ current \in 0..Len(procs)
    BY ProcType
  <2> QED BY <2>1, OneProc
<1>2. current # None => current \in Procs /\ procs'[current].alive
  BY <1>1 DEF PaidInv, Procs, None
<1>3. \A u \in Threads : Uses(u)' => current' # None /\ caller'[u].proc = current'
  BY DEF PaidInv, Uses
<1>4. \A u \in Threads : Talks(u)'
  BY DEF PaidInv, Talks
<1>5. talker # None => Pending(talker)'
  <2> SUFFICES ASSUME talker # None PROVE Pending(talker)'
    OBVIOUS
  <2> DEFINE q == caller[talker].proc
             id == caller[talker].id
  <2>1. talker \in Threads /\ id \in Nat
    BY DEF McpTypes, Caller
  <2>2. Uses(talker)
    BY <2>1 DEF PaidInv, Talks, Uses
  <2>3. q \in Procs
    BY <1>2, <2>1, <2>2 DEF PaidInv
  <2>4. (\E i \in DOMAIN procs[q].out : procs[q].out[i] = id) \/ (\E i \in DOMAIN procs[q].in : procs[q].in[i] = id)
    BY DEF PaidInv, Pending
  <2> HIDE DEF q, id
  <2>5. (\E i \in DOMAIN procs'[q].out : procs'[q].out[i] = id) \/ (\E i \in DOMAIN procs'[q].in : procs'[q].in[i] = id)
    <3>1. CASE q = p
      BY <1>1, <2>1, <2>4, <3>1
    <3>2. CASE q # p
      BY <1>1, <2>3, <2>4, <3>2
    <3> QED BY <3>1, <3>2
  <2> QED BY <2>5 DEF Pending, q, id
<1>6. starter # None => procs'[Len(procs')].in = <<>>
  <2> SUFFICES ASSUME starter # None PROVE procs'[Len(procs)].in = <<>>
    BY <1>1
  <2>1. procs[Len(procs)].in = <<>>
    BY DEF PaidInv
  <2>2. Len(procs) \in Procs
    <3>1. p \in 1..Len(procs)
      BY DEF Procs
    <3> QED BY <1>1, <3>1 DEF Procs
  <2> QED BY <1>1, <2>1, <2>2
<1>7. Backlog' <= Backlog + k /\ Backlog \in Int /\ Backlog' \in Int
  <2> DEFINE extra == IF talker = None THEN 0 ELSE caller[talker].reads - 1
  <2>1. extra \in Int
    BY DEF McpTypes, Caller
  <2>2. Backlog = IF current = None THEN 0 ELSE (Len(procs[current].out) + Len(procs[current].in)) + extra
    BY DEF Backlog, Lines
  <2>3. Backlog' = IF current = None THEN 0 ELSE (Len(procs'[current].out) + Len(procs'[current].in)) + extra
    BY DEF Backlog, Lines
  <2> HIDE DEF extra
  <2>4. \A q \in Procs : Len(procs[q].out) \in Nat /\ Len(procs[q].in) \in Nat
    BY ProcType
  <2>5. CASE current = None
    BY <2>2, <2>3, <2>5
  <2>6. CASE current # None /\ current # p
    <3>1. Len(procs[current].out) \in Nat /\ Len(procs[current].in) \in Nat /\ procs'[current] = procs[current]
      BY <1>1, <1>2, <2>4, <2>6
    <3> DEFINE x == Len(procs[current].out)
               y == Len(procs[current].in)
    <3>2. Backlog = (x + y) + extra /\ x \in Nat /\ y \in Nat
      BY <2>2, <2>6, <3>1
    <3>3. Backlog' = (x + y) + extra
      BY <2>3, <2>6, <3>1
    <3> HIDE DEF x, y
    <3> QED BY <2>1, <3>2, <3>3
  <2>7. CASE current # None /\ current = p
    <3> DEFINE a == Len(procs[p].out)
               b == Len(procs[p].in)
    <3>1. a \in Nat /\ b \in Nat /\ Backlog = (a + b) + extra
      BY <1>2, <2>2, <2>4, <2>7
    <3>2. Backlog' = (a + b + k) + extra
      BY <1>1, <2>3, <2>7
    <3> HIDE DEF a, b
    <3> QED BY <2>1, <3>1, <3>2
  <2> QED BY <2>5, <2>6, <2>7
<1>8. (2 * (failed - late) + Backlog <= strays)'
  <2>1. failed \in Nat /\ late \in Nat /\ strays \in Nat /\ 2 * (failed - late) + Backlog <= strays
    <3>1. failed \in Nat /\ late \in Nat /\ strays \in Nat
      BY DEF McpTypes
    <3> QED BY <3>1 DEF PaidInv
  <2>2. failed' = failed /\ late' = late /\ strays' = strays + k
    OBVIOUS
  <2> DEFINE B == Backlog
             C == Backlog'
  <2>3. B \in Int /\ C \in Int /\ C <= B + k /\ 2 * (failed - late) + B <= strays
    BY <1>7, <2>1
  <2> HIDE DEF B, C
  <2>4. 2 * (failed - late) + C <= strays + k
    BY <2>1, <2>3
  <2> QED BY <2>2, <2>4 DEF C
<1> QED BY <1>2, <1>3, <1>4, <1>5, <1>6, <1>8 DEF PaidInv

LEMMA RepliesKeeps ==
  ASSUME McpTypes, OneInv, Paid, NEW p \in Procs, Replies(p)
  PROVE  McpTypes' /\ OneInv' /\ Paid'
<1> DEFINE out == procs[p].out
           in == procs[p].in
           new == [procs[p] EXCEPT !.in = Tail(in), !.out = Append(out, Head(in))]
<1>1. procs[p] \in Process /\ out \in Seq(Nat) /\ in \in Seq(Nat) /\ in # <<>>
  BY ProcType DEF Replies
<1>2. /\ Tail(in) \in Seq(Nat) /\ Head(in) \in Nat /\ Append(out, Head(in)) \in Seq(Nat)
      /\ Len(out) \in Nat /\ Len(in) \in Nat /\ Len(Tail(in)) = Len(in) - 1 /\ Len(Append(out, Head(in))) = Len(out) + 1
  BY <1>1
<1>3. \A id \in Nat :
        (\E i \in DOMAIN out : out[i] = id) \/ (\E i \in DOMAIN in : in[i] = id)
        => \/ \E i \in DOMAIN Append(out, Head(in)) : Append(out, Head(in))[i] = id
           \/ \E i \in DOMAIN Tail(in) : Tail(in)[i] = id
  <2> SUFFICES ASSUME NEW id \in Nat, (\E i \in DOMAIN out : out[i] = id) \/ (\E i \in DOMAIN in : in[i] = id)
               PROVE  \/ \E i \in DOMAIN Append(out, Head(in)) : Append(out, Head(in))[i] = id
                      \/ \E i \in DOMAIN Tail(in) : Tail(in)[i] = id
    OBVIOUS
  <2> HIDE DEF out, in
  <2>1. ASSUME NEW i \in DOMAIN out, out[i] = id
        PROVE  i \in DOMAIN Append(out, Head(in)) /\ Append(out, Head(in))[i] = id
    BY <1>1, <1>2, <2>1
  <2>2. ASSUME NEW i \in DOMAIN in, in[i] = id, i = 1
        PROVE  Len(out) + 1 \in DOMAIN Append(out, Head(in)) /\ Append(out, Head(in))[Len(out) + 1] = id
    BY <1>1, <1>2, <2>2
  <2>3. ASSUME NEW i \in DOMAIN in, in[i] = id, i # 1
        PROVE  (i - 1) \in DOMAIN Tail(in) /\ Tail(in)[i - 1] = id
    BY <1>1, <1>2, <2>3
  <2> QED BY <2>1, <2>2, <2>3
<1>4. procs' = [procs EXCEPT ![p] = new]
  BY DEF Replies
<1> DEFINE row == procs[p]
<1> HIDE DEF out, in
<1>5. /\ new \in Process /\ new.alive = procs[p].alive /\ new.in = Tail(in) /\ new.out = Append(out, Head(in))
  BY <1>1, <1>2 DEF Process
<1> HIDE DEF new
<1>6. /\ UNCHANGED <<current, starter, talker, caller, ids, failed, late, strays, deaths>>
      /\ strays' \in Nat /\ deaths' \in Nat /\ strays' = strays + 0
  BY DEF Replies, McpTypes
<1>7. McpTypes' /\ OneInv'
  BY <1>4, <1>5, <1>6, ProcessKeeps
<1>8. ASSUME PaidInv PROVE PaidInv'
  <2>1. in = procs[p].in /\ out = procs[p].out
    BY DEF in, out
  <2>2. Len(new.out) + Len(new.in) = Len(procs[p].out) + Len(procs[p].in) + 0
    <3> DEFINE x == Len(out)
               y == Len(in)
    <3>1. Len(new.out) = x + 1 /\ Len(new.in) = y - 1 /\ x \in Nat /\ y \in Nat
      BY <1>2, <1>5
    <3>2. Len(procs[p].out) = x /\ Len(procs[p].in) = y
      BY <2>1
    <3> HIDE DEF x, y
    <3> QED BY <3>1, <3>2
  <2>3. procs[p].in = <<>> => new.in = <<>>
    BY <1>1, <2>1
  <2>4. \A id \in Nat : (\E i \in DOMAIN procs[p].out : procs[p].out[i] = id) \/ (\E i \in DOMAIN procs[p].in : procs[p].in[i] = id)
                       => (\E i \in DOMAIN new.out : new.out[i] = id) \/ (\E i \in DOMAIN new.in : new.in[i] = id)
    BY <1>3, <1>5, <2>1
  <2> QED BY <1>4, <1>5, <1>6, <1>8, <2>2, <2>3, <2>4, LinesKeep
<1> QED BY <1>6, <1>7, <1>8 DEF Paid

LEMMA StraysKeeps ==
  ASSUME McpTypes, OneInv, Paid, NEW p \in Procs, Strays(p)
  PROVE  McpTypes' /\ OneInv' /\ Paid'
<1> DEFINE was == procs[p]
           new == [was EXCEPT !.out = Append(was.out, Stray)]
<1>1. was \in Process /\ was.out \in Seq(Nat) /\ was.in \in Seq(Nat) /\ Stray \in Nat
  BY ProcType DEF Stray
<1>2. procs' = [procs EXCEPT ![p] = new] /\ was = procs[p]
  BY DEF Strays
<1> HIDE DEF was
<1>3. /\ Append(was.out, Stray) \in Seq(Nat) /\ Len(was.out) \in Nat /\ Len(was.in) \in Nat
      /\ Len(Append(was.out, Stray)) = Len(was.out) + 1
      /\ \A i \in DOMAIN was.out : i \in DOMAIN Append(was.out, Stray) /\ Append(was.out, Stray)[i] = was.out[i]
  BY <1>1
<1>4. new \in Process /\ new.alive = was.alive /\ new.in = was.in /\ new.out = Append(was.out, Stray)
  BY <1>1, <1>3 DEF Process
<1> HIDE DEF new
<1>5. /\ UNCHANGED <<current, starter, talker, caller, ids, failed, late, deaths>>
      /\ strays' \in Nat /\ deaths' \in Nat /\ strays' = strays + 1
  BY DEF Strays, McpTypes
<1>6. McpTypes' /\ OneInv'
  BY <1>2, <1>4, <1>5, ProcessKeeps
<1>7. ASSUME PaidInv PROVE PaidInv'
  <2>1. Len(new.out) + Len(new.in) = Len(procs[p].out) + Len(procs[p].in) + 1
    <3> DEFINE x == Len(was.out)
               y == Len(was.in)
    <3>1. Len(new.out) = x + 1 /\ Len(new.in) = y /\ x \in Nat /\ y \in Nat
      BY <1>3, <1>4
    <3>2. Len(procs[p].out) = x /\ Len(procs[p].in) = y
      BY <1>2
    <3> HIDE DEF x, y
    <3> QED BY <3>1, <3>2
  <2>2. \A id \in Nat : (\E i \in DOMAIN procs[p].out : procs[p].out[i] = id) \/ (\E i \in DOMAIN procs[p].in : procs[p].in[i] = id)
                       => (\E i \in DOMAIN new.out : new.out[i] = id) \/ (\E i \in DOMAIN new.in : new.in[i] = id)
    BY <1>2, <1>3, <1>4
  <2> QED BY <1>2, <1>4, <1>5, <1>7, <2>1, <2>2, LinesKeep
<1> QED BY <1>5, <1>6, <1>7 DEF Paid

LEMMA DiesKeeps ==
  ASSUME McpTypes, OneInv, NEW p \in Procs, Dies(p)
  PROVE  McpTypes' /\ OneInv' /\ Paid'
<1> DEFINE was == procs[p]
           new == [was EXCEPT !.alive = FALSE]
<1>1. was \in Process
  BY DEF McpTypes, Procs
<1>2. new \in Process /\ new.alive = FALSE
  BY <1>1 DEF Process
<1>3. procs' = [procs EXCEPT ![p] = new]
  BY DEF Dies
<1> HIDE DEF new
<1>4. /\ UNCHANGED <<current, starter, talker, caller, ids, failed, late, strays>>
      /\ strays' \in Nat /\ deaths' \in Nat /\ deaths' # 0
  BY DEF Dies, McpTypes
<1>5. McpTypes' /\ OneInv'
  BY <1>2, <1>3, <1>4, ProcessKeeps
<1> QED BY <1>4, <1>5 DEF Paid
-----------------------------------------------------------------------------
LEMMA NextKeeps ==
  ASSUME McpTypes, OneInv, UseInv, Paid, [McpNext]_mcpVars
  PROVE  McpTypes' /\ OneInv' /\ Paid'
<1>1. ASSUME NEW t \in Threads,
             Ensure(t) \/ Start(t) \/ Handshake(t) \/ Draw(t) \/ Write(t) \/ Read(t) \/ ReadEnd(t)
      PROVE  McpTypes' /\ OneInv' /\ Paid'
  BY <1>1, EnsureKeeps, StartKeeps, HandshakeKeeps, DrawKeeps, WriteKeeps, ReadKeeps, ReadEndKeeps
<1>2. ASSUME NEW p \in Procs, Replies(p) \/ Strays(p) \/ Dies(p)
      PROVE  McpTypes' /\ OneInv' /\ Paid'
  BY <1>2, RepliesKeeps, StraysKeeps, DiesKeeps
<1>3. CASE UNCHANGED mcpVars
  <2>1. McpTypes'
    BY <1>3 DEF mcpVars, McpTypes
  <2>2. OneInv'
    BY <1>3 DEF mcpVars, OneInv, Procs
  <2>3. PaidInv => PaidInv'
    BY <1>3 DEF mcpVars, PaidInv, Uses, Talks, Pending, Backlog, Lines
  <2> QED BY <1>3, <2>1, <2>2, <2>3 DEF mcpVars, Paid
<1> QED BY <1>1, <1>2, <1>3 DEF McpNext

LEMMA InvHolds == McpInit /\ [][McpNext]_mcpVars => [](McpTypes /\ OneInv /\ UseInv /\ Paid)
<1>1. McpInit => McpTypes /\ OneInv /\ UseInv /\ Paid
  <2>1. McpInit => UseInv
    BY IdleType DEF McpInit, UseInv, Uses
  <2> QED BY <2>1, McpInitTypes DEF Paid
<1> QED BY <1>1, NextKeeps, NextUses, PTL

(***************************************************************************)
(* _ensure_stdio_process: however many threads find no live process at the *)
(* same moment, and whichever handshake fails, at most one process lives,  *)
(* and it is the one in _stdio_processes or the one being started.         *)
(***************************************************************************)
THEOREM OneProcessAtATime == McpInit /\ [][McpNext]_mcpVars => []OneProcess
<1>1. ASSUME McpTypes, OneInv PROVE OneProcess
  <2> DEFINE alive == {p \in Procs : Live(p)}
             only == IF starter # None THEN Len(procs) ELSE current
  <2>1. \A p \in Procs : Live(p) => procs[p].alive
    BY DEF Live
  <2>2. \A p \in Procs : Live(p) => current = p \/ starter # None
    BY <1>1, <2>1 DEF OneInv
  <2>3. alive \subseteq {only}
    <3>1. \A p \in Procs : p # 0
      BY <1>1 DEF Procs, McpTypes
    <3> QED BY <1>1, <2>1, <3>1 DEF OneInv, None
  <2>4. IsFiniteSet({only}) /\ Cardinality({only}) = 1
    BY FS_Singleton
  <2>5. Cardinality(alive) <= 1
    <3> HIDE DEF alive, only
    <3>1. IsFiniteSet(alive) /\ Cardinality(alive) <= Cardinality({only})
      BY <2>3, <2>4, FS_Subset
    <3> QED BY <2>4, <3>1
  <2> QED BY <2>2, <2>5 DEF OneProcess
<1> QED BY <1>1, InvHolds, PTL

(***************************************************************************)
(* Lines that nobody asked for cannot make the server useless: as long as  *)
(* no process died, an exchange that fails before its deadline has paid    *)
(* for it with two such lines of its own, though it leaves its answer in   *)
(* the pipe for the next exchange to stumble over.                         *)
(***************************************************************************)
THEOREM FailuresStayPaid == McpInit /\ [][McpNext]_mcpVars => []FailuresArePaid
<1>1. ASSUME McpTypes, Paid PROVE FailuresArePaid
  <2> SUFFICES ASSUME deaths = 0 PROVE 2 * (failed - late) <= strays
    BY DEF FailuresArePaid
  <2>1. PaidInv
    BY <1>1 DEF Paid
  <2>2. failed \in Nat /\ late \in Nat /\ strays \in Nat
    BY <1>1 DEF McpTypes
  <2>3. Backlog \in Int /\ Backlog >= 0
    <3>1. CASE current = None
      BY <3>1 DEF Backlog
    <3>2. CASE current # None /\ talker = None
      <4>1. current \in Procs /\ procs[current] \in Process
        BY <1>1, <3>2 DEF McpTypes, Procs, None
      <4> DEFINE x == Len(procs[current].out)
                 y == Len(procs[current].in)
      <4>2. x \in Nat /\ y \in Nat
        BY <1>1, <4>1, ProcType
      <4>3. Backlog = (x + y) + 0
        BY <3>2 DEF Backlog, Lines
      <4> HIDE DEF x, y
      <4> QED BY <4>2, <4>3
    <3>3. CASE current # None /\ talker # None
      <4>1. talker \in Threads /\ caller[talker] \in Caller /\ current \in Procs /\ procs[current] \in Process
        BY <1>1, <3>3 DEF McpTypes, Procs, None
      <4>2. caller[talker].proc = current /\ Pending(talker) /\ caller[talker].reads \in Nat
        BY <2>1, <3>3, <4>1 DEF PaidInv, Uses, Talks, Caller
      <4> DEFINE out == procs[current].out
                 in == procs[current].in
      <4>3. out \in Seq(Nat) /\ in \in Seq(Nat)
        BY <4>1 DEF Process
      <4>4. (\E i \in DOMAIN out : TRUE) \/ (\E i \in DOMAIN in : TRUE)
        BY <4>2 DEF Pending
      <4>5. Backlog = (Len(out) + Len(in)) + (caller[talker].reads - 1)
        BY <3>3 DEF Backlog, Lines
      <4> HIDE DEF out, in
      <4>6. Len(out) \in Nat /\ Len(in) \in Nat /\ Len(out) + Len(in) >= 1
        BY <4>3, <4>4
      <4> QED BY <4>2, <4>5, <4>6
    <3> QED BY <3>1, <3>2, <3>3
  <2>4. 2 * (failed - late) + Backlog <= strays
    BY <2>1 DEF PaidInv
  <2> QED BY <2>2, <2>3, <2>4
<1> QED BY <1>1, InvHolds, PTL

-----------------------------------------------------------------------------
(* The tools. *)

\* All tools there are.
Names == LocalTools \union UNION {ServedBy[s] : s \in Servers}

Stages == {"none", "fetch", "adapt", "runs"}
Turn == [stage : Stages, user : Users, left : SUBSET Servers, size : Nat, specs : SUBSET Names,
         asked : BOOLEAN, master : SUBSET Names, sub : SUBSET Names, bound : Users \union {"none"}]
Rows == UNION {[S -> BOOLEAN] : S \in SUBSET Servers}

TypeOK ==
  /\ rowsOf \in Rows
  /\ config \subseteq Servers
  /\ warmup \in [step : {"migrate", "load", "merge"}, left : Rows]
  /\ answering \subseteq Servers
  /\ cache \in [known : BOOLEAN, specs : SUBSET Names, age : 0..CACHE_TTL]
  /\ registry \subseteq Names /\ scoped \subseteq UserTools
  /\ turn \in [Askers -> Turn]
  /\ happened \in 0..MaxEvents

\* Who has no tool of a server has asked, and so has who is asking; and who runs
\* is bound, with every tool that takes a user wrapped.
Told(row) == row.stage \in {"adapt", "runs"} /\ row.specs = {} => row.asked
Asking(row) == row.stage = "fetch" => row.asked
Wrapped(row, tools) == (row.master \union row.sub) \intersect UserTools \subseteq tools
Own(row, tools) == row.stage = "runs" => row.bound = row.user /\ Wrapped(row, tools)

BeltInv ==
  /\ cache.known => cache.specs # {}
  /\ \A t \in Askers : Told(turn[t]) /\ Asking(turn[t])
  /\ \A t \in Chats : Own(turn[t], scoped)
-----------------------------------------------------------------------------
LEMMA RowsFacts ==
  /\ NoRows \in Rows
  /\ \A f \in Rows : DOMAIN f \in SUBSET Servers /\ \A s \in DOMAIN f : f[s] \in BOOLEAN
  /\ \A S \in SUBSET Servers : \A f : f \in [S -> BOOLEAN] => f \in Rows
<1>1. NoRows \in [{} -> BOOLEAN]
  BY DEF NoRows
<1>2. \A S \in SUBSET Servers : \A f : f \in [S -> BOOLEAN] => f \in Rows
  BY DEF Rows
<1>3. NoRows \in Rows
  BY <1>1, <1>2, {} \in SUBSET Servers
<1>4. \A f \in Rows : \E S \in SUBSET Servers : f \in [S -> BOOLEAN]
  BY DEF Rows
<1> QED BY <1>2, <1>3, <1>4

LEMMA NoTurnType == NoTurn \in Turn /\ Anyone \in Users
<1>1. Anyone \in Users
  BY BeltAssumption DEF Anyone
<1> QED BY <1>1 DEF NoTurn, Turn, Stages

LEMMA InitTypes == BeltInit => TypeOK
<1> SUFFICES ASSUME BeltInit PROVE TypeOK
  OBVIOUS
<1>1. cache \in [known : BOOLEAN, specs : SUBSET Names, age : 0..CACHE_TTL]
  BY BeltAssumption DEF BeltInit, NoSpecs
<1>2. warmup \in [step : {"migrate", "load", "merge"}, left : Rows]
  BY RowsFacts DEF BeltInit
<1>3. turn \in [Askers -> Turn]
  BY NoTurnType DEF BeltInit
<1>4. rowsOf \in Rows
  BY RowsFacts DEF BeltInit
<1> QED BY <1>1, <1>2, <1>3, <1>4, BeltAssumption DEF BeltInit, TypeOK, Names

\* The turns stay turns.
LEMMA AskerKeepsType ==
  ASSUME TypeOK, NEW t \in Askers, AskerGoes(t)
  PROVE  TypeOK'
<1> DEFINE row == turn[t]
<1>1. row \in Turn
  BY DEF TypeOK
<1> HIDE DEF row
<1>2. ASSUME NEW s \in Servers, AsksServer(t, s) PROVE TypeOK'
  <2> DEFINE new == [row EXCEPT !.left = row.left \ {s},
                       !.specs = row.specs \union (IF s \in answering THEN ServedBy[s] ELSE {})]
  <2>1. turn' = [turn EXCEPT ![t] = new]
    BY <1>2 DEF AsksServer, row
  <2>2. ServedBy[s] \subseteq Names
    BY DEF Names
  <2>3. new \in Turn
    BY <1>1, <2>2 DEF Turn
  <2> HIDE DEF new
  <2>4. turn' \in [Askers -> Turn]
    BY <2>1, <2>3 DEF TypeOK
  <2> QED BY <1>2, <2>4 DEF AsksServer, TypeOK
<1>3. CASE Raises_Loop(t)
  <2>1. [row EXCEPT !.stage = "adapt", !.left = {}, !.size = 0, !.specs = {}] \in Turn
    BY <1>1 DEF Turn, Stages
  <2>2. turn' \in [Askers -> Turn]
    BY <1>3, <2>1 DEF Raises_Loop, TypeOK, row
  <2> QED BY <1>3, <2>2 DEF Raises_Loop, TypeOK
<1>4. CASE ListEnds(t)
  <2>1. [row EXCEPT !.stage = "adapt", !.size = 0] \in Turn
    BY <1>1 DEF Turn, Stages
  <2>2. turn' \in [Askers -> Turn]
    BY <1>4, <2>1 DEF ListEnds, TypeOK, row
  <2>3. row.specs \in SUBSET Names
    BY <1>1 DEF Turn
  <2>4. cache' \in [known : BOOLEAN, specs : SUBSET Names, age : 0..CACHE_TTL]
    BY <1>4, <2>3, BeltAssumption DEF ListEnds, TypeOK, row
  <2> QED BY <1>4, <2>2, <2>4 DEF ListEnds, TypeOK
<1>5. CASE Adapts(t)
  <2>1. row.specs \in SUBSET Names /\ row.user \in Users
    BY <1>1 DEF Turn
  <2>2. registry' \subseteq Names
    BY <1>5, <2>1 DEF Adapts, Registered, Whitelisted, TypeOK, row
  <2> DEFINE chat == t \in Chats
             master == IF chat THEN MasterTools ELSE {}
             sub == IF chat THEN SubTools(registry') ELSE row.specs
  <2>3. master \in SUBSET Names /\ sub \in SUBSET Names
    BY <2>1, <2>2 DEF MasterTools, SubTools, TypeOK
  <2>4. turn' = [turn EXCEPT ![t] = [row EXCEPT !.stage = "runs", !.master = master, !.sub = sub,
                                                !.bound = row.user]]
    BY <1>5 DEF Adapts, Bound, row
  <2>5. scoped' \subseteq UserTools
    BY <1>5 DEF Adapts, TypeOK
  <2> HIDE DEF master, sub
  <2>6. [row EXCEPT !.stage = "runs", !.master = master, !.sub = sub, !.bound = row.user] \in Turn
    BY <1>1, <2>1, <2>3 DEF Turn, Stages
  <2>7. turn' \in [Askers -> Turn]
    BY <2>4, <2>6 DEF TypeOK
  <2> QED BY <1>5, <2>2, <2>5, <2>7 DEF Adapts, TypeOK
<1>6. CASE Finishes(t)
  BY <1>6, NoTurnType DEF Finishes, TypeOK
<1> QED BY <1>2, <1>3, <1>4, <1>5, <1>6 DEF AskerGoes

LEMMA FetchKeepsType ==
  ASSUME TypeOK, NEW t \in Askers, NEW user \in Users, Fetches(t, user)
  PROVE  TypeOK'
<1>1. Cardinality(config) \in Nat
  BY BeltAssumption, FS_Subset, FS_CardinalityType DEF TypeOK
<1> DEFINE known == Cached(cache.known, cache.age)
           new == [NoTurn EXCEPT !.stage = IF known THEN "adapt" ELSE "fetch", !.user = user,
                                 !.left = IF known THEN {} ELSE config,
                                 !.size = IF known THEN 0 ELSE Cardinality(config),
                                 !.specs = IF known THEN cache.specs ELSE {}, !.asked = ~known]
<1>2. cache.specs \in SUBSET Names /\ config \in SUBSET Servers
  BY DEF TypeOK
<1>3. turn' = [turn EXCEPT ![t] = new]
  BY DEF Fetches
<1> HIDE DEF known
<1>4. new \in Turn
  <2>1. CASE known
    BY <1>1, <1>2, <2>1, NoTurnType DEF Turn, Stages
  <2>2. CASE ~known
    BY <1>1, <1>2, <2>2, NoTurnType DEF Turn, Stages
  <2> QED BY <2>1, <2>2
<1> HIDE DEF new
<1> QED BY <1>3, <1>4 DEF Fetches, TypeOK

LEMMA NextTypes == TypeOK /\ [BeltNext]_beltVars => TypeOK'
<1> SUFFICES ASSUME TypeOK, [BeltNext]_beltVars PROVE TypeOK'
  OBVIOUS
<1>h. Happens => happened' \in 0..MaxEvents
  BY BeltAssumption DEF Happens, TypeOK
<1>1. ASSUME NEW s \in Servers, NEW enabled \in BOOLEAN, EditServer(s, enabled) PROVE TypeOK'
  <2>1. DOMAIN rowsOf \in SUBSET Servers /\ \A r \in DOMAIN rowsOf : rowsOf[r] \in BOOLEAN
    BY RowsFacts DEF TypeOK
  <2>2. rowsOf' \in [DOMAIN rowsOf \union {s} -> BOOLEAN]
    BY <1>1, <2>1 DEF EditServer
  <2>3. DOMAIN rowsOf \union {s} \in SUBSET Servers
    BY <2>1
  <2>4. rowsOf' \in Rows
    BY <2>2, <2>3, RowsFacts
  <2> QED BY <1>1, <1>h, <2>4 DEF EditServer, TypeOK
<1>2. ASSUME NEW s \in Servers, DeleteServer(s) PROVE TypeOK'
  <2>1. DOMAIN rowsOf \in SUBSET Servers /\ \A r \in DOMAIN rowsOf : rowsOf[r] \in BOOLEAN
    BY RowsFacts DEF TypeOK
  <2>2. rowsOf' \in [DOMAIN rowsOf \ {s} -> BOOLEAN]
    BY <1>2, <2>1 DEF DeleteServer
  <2>3. DOMAIN rowsOf \ {s} \in SUBSET Servers
    BY <2>1
  <2>4. rowsOf' \in Rows
    BY <2>2, <2>3, RowsFacts
  <2> QED BY <1>2, <1>h, <2>4 DEF DeleteServer, TypeOK
<1>3. ASSUME NEW s \in Servers, Merges(s) PROVE TypeOK'
  <2>1. /\ warmup.left \in Rows /\ warmup.step \in {"migrate", "load", "merge"}
    BY DEF TypeOK
  <2>2. DOMAIN warmup.left \in SUBSET Servers /\ \A r \in DOMAIN warmup.left : warmup.left[r] \in BOOLEAN
    BY <2>1, RowsFacts
  <2> DEFINE left == [r \in DOMAIN warmup.left \ {s} |-> warmup.left[r]]
  <2>3. left \in [DOMAIN warmup.left \ {s} -> BOOLEAN]
    BY <2>2
  <2>4. DOMAIN warmup.left \ {s} \in SUBSET Servers
    BY <2>2
  <2>5. left \in Rows
    BY <2>3, <2>4, RowsFacts
  <2>6. warmup' = [warmup EXCEPT !.left = left]
    BY <1>3 DEF Merges
  <2> HIDE DEF left
  <2>7. warmup' \in [step : {"migrate", "load", "merge"}, left : Rows]
    BY <2>1, <2>5, <2>6 DEF TypeOK
  <2> QED BY <1>3, <2>7 DEF Merges, TypeOK
<1>4. ASSUME NEW s \in Servers, Silent(s) \/ AnswersAgain(s) PROVE TypeOK'
  BY <1>4, <1>h DEF Silent, AnswersAgain, TypeOK
<1>5. CASE Migrates
  <2>1. DOMAIN rowsOf \in SUBSET Servers /\ \A r \in DOMAIN rowsOf : rowsOf[r] \in BOOLEAN
    BY RowsFacts DEF TypeOK
  <2>2. rowsOf' \in [DOMAIN rowsOf \union HARDCODED -> BOOLEAN]
    BY <1>5, <2>1 DEF Migrates
  <2>3. DOMAIN rowsOf \union HARDCODED \in SUBSET Servers
    BY <2>1, BeltAssumption
  <2>4. rowsOf' \in Rows
    BY <2>2, <2>3, RowsFacts
  <2>5. warmup' \in [step : {"migrate", "load", "merge"}, left : Rows]
    BY <1>5 DEF Migrates, TypeOK
  <2> QED BY <1>5, <2>4, <2>5 DEF Migrates, TypeOK
<1>6. CASE Loads
  BY <1>6 DEF Loads, TypeOK
<1>7. CASE LoadFails
  BY <1>7, <1>h, RowsFacts DEF LoadFails, TypeOK
<1>8. CASE TimeGoes
  BY <1>8, BeltAssumption DEF TimeGoes, TypeOK
<1>9. CASE ProcessRestarts
  <2>1. cache' \in [known : BOOLEAN, specs : SUBSET Names, age : 0..CACHE_TTL]
    BY <1>9, BeltAssumption DEF ProcessRestarts, NoSpecs
  <2>2. warmup' \in [step : {"migrate", "load", "merge"}, left : Rows]
    BY <1>9, RowsFacts DEF ProcessRestarts
  <2>3. turn' \in [Askers -> Turn]
    BY <1>9, NoTurnType DEF ProcessRestarts
  <2> QED BY <1>9, <1>h, <2>1, <2>2, <2>3, BeltAssumption DEF ProcessRestarts, TypeOK, Names
<1>10. ASSUME NEW t \in Chats, NEW user \in Users, Fetches(t, user) PROVE TypeOK'
  BY <1>10, FetchKeepsType DEF Askers
<1>11. ASSUME NEW t \in Lookups, Fetches(t, Anyone) PROVE TypeOK'
  BY <1>11, FetchKeepsType, NoTurnType DEF Askers
<1>12. ASSUME NEW t \in Askers, AskerGoes(t) PROVE TypeOK'
  BY <1>12, AskerKeepsType
<1>13. CASE UNCHANGED beltVars
  BY <1>13 DEF beltVars, TypeOK
<1> QED BY <1>1, <1>2, <1>3, <1>4, <1>5, <1>6, <1>7, <1>8, <1>9, <1>10, <1>11, <1>12, <1>13 DEF BeltNext

(***************************************************************************)
(* Type correctness: whoever asks, edits or restarts, every row, list and  *)
(* registry is about servers and tools that there are, every turn's lists  *)
(* too, and tools are wrapped only where they take a user.                 *)
(***************************************************************************)
THEOREM BeltTypeCorrect == BeltInit /\ [][BeltNext]_beltVars => []TypeOK
  BY InitTypes, NextTypes, PTL
-----------------------------------------------------------------------------
LEMMA NoTurnFacts == Told(NoTurn) /\ Asking(NoTurn) /\ \A tools : Own(NoTurn, tools)
  BY DEF NoTurn, Told, Asking, Own

\* Where the row of one turn changes, and tools that are wrapped stay so, the
\* others are as they were.
LEMMA OneRow ==
  ASSUME TypeOK, BeltInv, NEW t \in Askers, NEW new, turn' = [turn EXCEPT ![t] = new],
         scoped \subseteq scoped', cache'.known => cache'.specs # {},
         Told(new), Asking(new), t \in Chats => Own(new, scoped')
  PROVE  BeltInv'
<1>1. turn'[t] = new /\ \A u \in Askers \ {t} : turn'[u] = turn[u]
  BY DEF TypeOK
<1>2. \A row : Own(row, scoped) => Own(row, scoped')
  BY DEF Own, Wrapped
<1>3. ASSUME NEW u \in Askers PROVE Told(turn'[u]) /\ Asking(turn'[u])
  BY <1>1 DEF BeltInv
<1>4. ASSUME NEW u \in Chats PROVE Own(turn'[u], scoped')
  BY <1>1, <1>2 DEF BeltInv, Askers
<1> QED BY <1>3, <1>4 DEF BeltInv

LEMMA AskerKeepsBelt ==
  ASSUME TypeOK, BeltInv, NEW t \in Askers, AskerGoes(t)
  PROVE  BeltInv'
<1> DEFINE row == turn[t]
<1>1. row \in Turn /\ Told(row) /\ Asking(row) /\ (t \in Chats => Own(row, scoped))
  BY DEF TypeOK, BeltInv
<1>c. cache.known => cache.specs # {}
  BY DEF BeltInv
<1> HIDE DEF row
<1>2. ASSUME NEW s \in Servers, AsksServer(t, s) PROVE BeltInv'
  <2> DEFINE new == [row EXCEPT !.left = row.left \ {s},
                       !.specs = row.specs \union (IF s \in answering THEN ServedBy[s] ELSE {})]
  <2>1. turn' = [turn EXCEPT ![t] = new]
    BY <1>2 DEF AsksServer, row
  <2>2. row.stage = "fetch"
    BY <1>2 DEF AsksServer, Intact, row
  <2>3. new.stage = row.stage /\ new.asked = row.asked
    BY <1>1 DEF Turn
  <2> HIDE DEF new
  <2>4. Told(new) /\ Asking(new) /\ Own(new, scoped')
    BY <1>1, <2>2, <2>3 DEF Told, Asking, Own
  <2> QED BY <1>2, <1>c, <2>1, <2>4, OneRow DEF AsksServer
<1>3. CASE Raises_Loop(t)
  <2> DEFINE new == [row EXCEPT !.stage = "adapt", !.left = {}, !.size = 0, !.specs = {}]
  <2>1. turn' = [turn EXCEPT ![t] = new]
    BY <1>3 DEF Raises_Loop, row
  <2>2. row.stage = "fetch"
    BY <1>3 DEF Raises_Loop, row
  <2>3. new.stage = "adapt" /\ new.asked = row.asked
    BY <1>1 DEF Turn
  <2> HIDE DEF new
  <2>4. Told(new) /\ Asking(new) /\ Own(new, scoped')
    BY <1>1, <2>2, <2>3 DEF Told, Asking, Own
  <2> QED BY <1>3, <1>c, <2>1, <2>4, OneRow DEF Raises_Loop
<1>4. CASE ListEnds(t)
  <2> DEFINE new == [row EXCEPT !.stage = "adapt", !.size = 0]
  <2>1. turn' = [turn EXCEPT ![t] = new]
    BY <1>4 DEF ListEnds, row
  <2>2. row.stage = "fetch"
    BY <1>4 DEF ListEnds, Intact, row
  <2>3. new.stage = "adapt" /\ new.asked = row.asked
    BY <1>1 DEF Turn
  <2> HIDE DEF new
  <2>4. Told(new) /\ Asking(new) /\ Own(new, scoped')
    BY <1>1, <2>2, <2>3 DEF Told, Asking, Own
  <2>5. cache'.known => cache'.specs # {}
    BY <1>4, <1>c DEF ListEnds, Kept
  <2> QED BY <1>4, <2>1, <2>4, <2>5, OneRow DEF ListEnds
<1>5. CASE Adapts(t)
  <2> DEFINE chat == t \in Chats
             master == IF chat THEN MasterTools ELSE {}
             sub == IF chat THEN SubTools(registry') ELSE row.specs
             new == [row EXCEPT !.stage = "runs", !.master = master, !.sub = sub, !.bound = row.user]
  <2>1. /\ turn' = [turn EXCEPT ![t] = new]
        /\ scoped' = scoped \union (IF chat THEN (master \union sub) \intersect UserTools ELSE {})
        /\ UNCHANGED cache
    BY <1>5 DEF Adapts, Bound, row
  <2>2. row.stage = "adapt"
    BY <1>5 DEF Adapts, row
  <2> HIDE DEF master, sub
  <2>3. /\ new.stage = "runs" /\ new.asked = row.asked /\ new.specs = row.specs
        /\ new.master = master /\ new.sub = sub /\ new.bound = row.user /\ new.user = row.user
    BY <1>1 DEF Turn
  <2> HIDE DEF new
  <2>4. Told(new) /\ Asking(new)
    BY <1>1, <2>2, <2>3 DEF Told, Asking
  <2>5. chat => Own(new, scoped')
    BY <2>1, <2>3 DEF Own, Wrapped
  <2> QED BY <1>c, <2>1, <2>4, <2>5, OneRow
<1>6. CASE Finishes(t)
  <2>1. turn' = [turn EXCEPT ![t] = NoTurn]
    BY <1>6 DEF Finishes
  <2> QED BY <1>6, <1>c, <2>1, NoTurnFacts, OneRow DEF Finishes
<1> QED BY <1>2, <1>3, <1>4, <1>5, <1>6 DEF AskerGoes

LEMMA FetchKeepsBelt ==
  ASSUME TypeOK, BeltInv, NEW t \in Askers, NEW user, Fetches(t, user)
  PROVE  BeltInv'
<1> DEFINE known == Cached(cache.known, cache.age)
           specs == IF known THEN cache.specs ELSE {}
           new == [NoTurn EXCEPT !.stage = IF known THEN "adapt" ELSE "fetch", !.user = user,
                                 !.left = IF known THEN {} ELSE config,
                                 !.size = IF known THEN 0 ELSE Cardinality(config),
                                 !.specs = specs, !.asked = ~known]
<1>1. turn' = [turn EXCEPT ![t] = new] /\ UNCHANGED <<cache, scoped>>
  BY DEF Fetches
<1>2. known => cache.specs # {}
  BY DEF Cached, BeltInv
<1>3. (cache.known => cache.specs # {})'
  BY <1>1 DEF BeltInv
<1> HIDE DEF known
<1>4. new.stage = (IF known THEN "adapt" ELSE "fetch") /\ new.asked = ~known /\ new.specs = specs
  BY DEF NoTurn
<1> HIDE DEF new
<1>5. Told(new) /\ Asking(new) /\ Own(new, scoped')
  BY <1>2, <1>4, Zenon DEF Told, Asking, Own
<1> QED BY <1>1, <1>3, <1>5, OneRow

LEMMA NextBelt == TypeOK /\ BeltInv /\ [BeltNext]_beltVars => BeltInv'
<1> SUFFICES ASSUME TypeOK, BeltInv, [BeltNext]_beltVars PROVE BeltInv'
  OBVIOUS
<1>1. CASE UNCHANGED <<cache, scoped, turn>>
  BY <1>1 DEF BeltInv
<1>2. ASSUME NEW s \in Servers, (\E enabled \in BOOLEAN : EditServer(s, enabled))
                                  \/ DeleteServer(s) \/ Merges(s) \/ Silent(s) \/ AnswersAgain(s)
      PROVE  UNCHANGED <<cache, scoped, turn>>
  BY <1>2 DEF EditServer, DeleteServer, Merges, Silent, AnswersAgain
<1>3. CASE Migrates \/ Loads \/ LoadFails \/ UNCHANGED beltVars
  BY <1>1, <1>3 DEF Migrates, Loads, LoadFails, beltVars
<1>4. CASE TimeGoes
  <2>1. cache'.known = cache.known /\ cache'.specs = cache.specs
    BY <1>4 DEF TimeGoes, TypeOK
  <2> QED BY <1>4, <2>1 DEF TimeGoes, BeltInv
<1>5. CASE ProcessRestarts
  <2>1. cache'.known = FALSE
    BY <1>5 DEF ProcessRestarts, NoSpecs
  <2>2. turn' = [t \in Askers |-> NoTurn]
    BY <1>5 DEF ProcessRestarts
  <2> QED BY <2>1, <2>2, NoTurnFacts DEF BeltInv, Askers
<1>6. ASSUME NEW t \in Chats, NEW user \in Users, Fetches(t, user) PROVE BeltInv'
  BY <1>6, FetchKeepsBelt DEF Askers
<1>7. ASSUME NEW t \in Lookups, Fetches(t, Anyone) PROVE BeltInv'
  BY <1>7, FetchKeepsBelt DEF Askers
<1>8. ASSUME NEW t \in Askers, AskerGoes(t) PROVE BeltInv'
  BY <1>8, AskerKeepsBelt
<1> QED BY <1>1, <1>2, <1>3, <1>4, <1>5, <1>6, <1>7, <1>8 DEF BeltNext

LEMMA BeltInvImplies == TypeOK /\ BeltInv => BeltsAreTrue
<1> SUFFICES ASSUME TypeOK, BeltInv PROVE BeltsAreTrue
  OBVIOUS
<1>1. NothingMeansAsked
  BY DEF NothingMeansAsked, BeltInv, Told
<1>2. ASSUME NEW t \in Chats, turn[t].stage = "runs", NEW name \in (turn[t].master \union turn[t].sub) \intersect UserTools,
             NEW filled \in Users
      PROVE  RunsFor(t, name, filled) = turn[t].user
  <2>1. turn[t].bound = turn[t].user /\ name \in scoped
    BY <1>2 DEF BeltInv, Own, Wrapped
  <2>2. turn[t].user \in Users
    BY DEF TypeOK, Turn, Askers
  <2> QED BY <2>1, <2>2, BeltAssumption DEF RunsFor
<1> QED BY <1>1, <1>2 DEF BeltsAreTrue, CallsAreOwn

(***************************************************************************)
(* A turn that has no tool of any server has asked the servers itself: an  *)
(* empty list of get_tools_from_all_servers never stays in the cache. And  *)
(* a tool that takes a user_id runs for the user whose turn it is,         *)
(* whatever the model fills in: with_user_id has wrapped every such tool   *)
(* that the turn holds, and no other turn's wrapping undoes it.            *)
(***************************************************************************)
THEOREM BeltsStayTrue == BeltInit /\ [][BeltNext]_beltVars => []BeltsAreTrue
<1>1. BeltInit => BeltInv
  <2> SUFFICES ASSUME BeltInit PROVE BeltInv
    OBVIOUS
  <2>1. cache.known = FALSE /\ turn = [t \in Askers |-> NoTurn]
    BY DEF BeltInit, NoSpecs
  <2> QED BY <2>1, NoTurnFacts DEF BeltInv, Askers
<1> QED BY <1>1, InitTypes, NextTypes, NextBelt, BeltInvImplies, PTL
=============================================================================
