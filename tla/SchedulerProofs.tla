--------------------------- MODULE SchedulerProofs ---------------------------
(***************************************************************************)
(* Proofs about TaskScheduler, for any tasks, any number of executions and *)
(* any number of failures; and about AssistantPage, for any number of      *)
(* pages, cards, tasks and requests under way.                             *)
(***************************************************************************)
EXTENDS TaskScheduler, AssistantPage, FiniteSetTheorems, SequenceTheorems, TLAPS

Counters == {crashes, faults, outages} \subseteq Nat /\ crashes + faults + outages <= MaxFailures

\* Every failure is counted, and there are at most MaxFailures.
LEMMA FaultCounts ==
  ASSUME Counters, MaxFailures \in Nat,
         \/ UNCHANGED <<crashes, faults, outages>>
         \/ Fault /\ UNCHANGED <<crashes, outages>>
         \/ Outage /\ UNCHANGED <<crashes, faults>>
         \/ MayFail /\ crashes' = crashes + 1 /\ UNCHANGED <<faults, outages>>
  PROVE  Counters'
BY DEF Counters, Fault, Outage, MayFail

\* An execution that goes on is still one.
LEMMA GotoKeepsType ==
  ASSUME exec \in [Runs -> Execution], NEW e \in Runs,
         NEW l \in {"idle", "lock", "notify", "ended"} \cup InLock, Goto(e, l)
  PROVE  exec' \in [Runs -> Execution]
BY DEF Goto, Execution

\* What ReadTask, RunTask and StatsRead make of an execution.
LEMMA FieldsKeepType ==
  ASSUME exec \in [Runs -> Execution], NEW e \in Runs, NEW l \in InLock
  PROVE  /\ \A o \in Outcome : [exec EXCEPT ![e].pc = l, ![e].outcome = o] \in [Runs -> Execution]
         /\ \A n \in Nat : [exec EXCEPT ![e].pc = l, ![e].n = n] \in [Runs -> Execution]
<1>1. exec[e] \in Execution
  OBVIOUS
<1>2. ASSUME NEW o \in Outcome
      PROVE  [exec EXCEPT ![e].pc = l, ![e].outcome = o] \in [Runs -> Execution]
  <2> DEFINE new == [exec EXCEPT ![e].pc = l, ![e].outcome = o]
  <2>1. new[e] \in Execution
    BY <1>1 DEF Execution
  <2> QED BY <2>1
<1>3. ASSUME NEW n \in Nat
      PROVE  [exec EXCEPT ![e].pc = l, ![e].n = n] \in [Runs -> Execution]
  <2> DEFINE new == [exec EXCEPT ![e].pc = l, ![e].n = n]
  <2>1. new[e] \in Execution
    BY <1>1 DEF Execution
  <2> QED BY <2>1
<1> QED BY <1>2, <1>3

\* The endpoints, the timers and Redis keep the type invariant.
LEMMA RequestKeepsType ==
  ASSUME TypeOK, NEW t \in Tasks,
         \/ \E s \in Sched : Create(t, s)
         \/ \E status \in {"keep", "active", "paused"}, sched \in {"keep", "good", "badCron"} :
              Update(t, status, sched)
         \/ Register(t) \/ Delete(t) \/ Unschedule(t) \/ Expire(t)
         \/ \E e \in Runs : Trigger(e, t) \/ Fire(e, t)
  PROVE  TypeOK'
<1>1. CASE \E s \in Sched : Create(t, s)
  BY <1>1 DEF Create, TypeOK, Row
<1>2. ASSUME NEW status \in {"keep", "active", "paused"},
             NEW sched \in {"keep", "good", "badCron"}, Update(t, status, sched)
      PROVE  TypeOK'
  <2>1. row[t] \in Row /\ row[t].status \in {"active", "paused"}
    BY <1>2 DEF Update, Exists, TypeOK
  <2>2. row' \in [Tasks -> Row]
    BY <1>2, <2>1 DEF Update, TypeOK, Row, Sched
  <2>3. JobAfter(t, status, sched) \in {"none", "scheduled", "paused"}
    BY DEF JobAfter, TypeOK
  <2>4. job' \in [Tasks -> {"none", "scheduled", "paused"}]
    BY <1>2, <2>3 DEF Update, TypeOK
  <2> QED BY <1>2, <2>2, <2>4 DEF Update, TypeOK
<1>3. CASE Register(t) \/ Unschedule(t) \/ Expire(t)
  BY <1>3 DEF Register, Unschedule, Expire, TypeOK
<1>4. CASE Delete(t)
  BY <1>4 DEF Delete, TypeOK, Row
<1>5. ASSUME NEW e \in Runs, NEW by \in {"timer", "hand"}, Starts(e, t, by) PROVE TypeOK'
  <2> DEFINE new == [exec EXCEPT ![e].task = t, ![e].by = by, ![e].pc = "lock"]
  <2>0. exec[e] \in Execution
    BY DEF TypeOK
  <2>3. new[e] \in Execution
    BY <2>0 DEF TypeOK, Execution
  <2>1. exec' \in [Runs -> Execution]
    BY <1>5, <2>3 DEF Starts, TypeOK
  <2> QED BY <1>5, <2>1 DEF Starts, TypeOK
<1> QED BY <1>1, <1>2, <1>3, <1>4, <1>5 DEF Trigger, Fire

\* Every step of an execution keeps the type invariant.
LEMMA StepKeepsType == ASSUME TypeOK, NEW e \in Runs, Step(e) PROVE TypeOK'
<1>1. Counters'
  BY FaultCounts, BoundsAssumption
     DEF TypeOK, Counters, Step, TakeLock, OpenLog, ReadTask, RunTask, CloseLog, StatsRead,
         StatsCommit, Unlock, Tell, Dies
<1>0. exec \in [Runs -> Execution]
  BY DEF TypeOK
<1>g. ASSUME NEW l \in InLock \cup {"ended"}, Goto(e, l) PROVE exec' \in [Runs -> Execution]
  BY <1>0, <1>g, GotoKeepsType
<1> USE <1>1, GotoKeepsType DEF Counters
<1>2. CASE TakeLock(e)
  BY <1>2 DEF TakeLock, InLock, TypeOK
<1>3. CASE OpenLog(e)
  BY <1>3 DEF OpenLog, Dies, InLock, TypeOK
<1>4. CASE ReadTask(e)
  <2>1. exec' \in [Runs -> Execution]
    <3>1. CASE Goto(e, "run")
      BY <1>g, <3>1, Zenon DEF InLock
    <3>2. ASSUME NEW o \in Outcome, exec' = [exec EXCEPT ![e].pc = "close", ![e].outcome = o]
          PROVE  exec' \in [Runs -> Execution]
      BY <3>2, FieldsKeepType DEF TypeOK, InLock
    <3> QED BY <1>4, <3>1, <3>2 DEF ReadTask, Outcome
  <2> QED BY <1>4, <2>1 DEF ReadTask, TypeOK
<1>5. CASE RunTask(e)
  <2>0. PICK o \in Outcome : exec' = [exec EXCEPT ![e].pc = "close", ![e].outcome = o]
    BY <1>5 DEF RunTask, Outcome
  <2>1. exec' \in [Runs -> Execution]
    BY <2>0, FieldsKeepType DEF TypeOK, InLock
  <2> QED BY <1>5, <2>1 DEF RunTask, TypeOK
<1>6. CASE CloseLog(e)
  <2>1. exec[e].outcome \in Outcome
    BY DEF TypeOK, Execution
  <2> QED BY <1>6, <2>1 DEF CloseLog, Dies, InLock, TypeOK
<1>7. CASE StatsRead(e)
  <2>1. exec[e].task \in Tasks /\ row[exec[e].task].count \in Nat
    BY DEF TypeOK, Execution, Row
  <2>2. exec' \in [Runs -> Execution]
    <3>1. CASE Dies(e)
      BY <1>g, <3>1, Zenon DEF Dies
    <3>2. CASE exec' = [exec EXCEPT ![e].pc = "count", ![e].n = row[exec[e].task].count]
      BY <2>1, <3>2, FieldsKeepType DEF TypeOK, InLock
    <3>3. CASE exec' = [exec EXCEPT ![e].pc = "unlock"]
      BY <3>3 DEF TypeOK, Execution, InLock
    <3> QED BY <1>7, <3>1, <3>2, <3>3 DEF StatsRead
  <2> QED BY <1>7, <2>2 DEF StatsRead, TypeOK
<1>8. CASE StatsCommit(e)
  <2>1. exec' \in [Runs -> Execution]
    BY <1>8 DEF StatsCommit, Dies, TypeOK, InLock
  <2>2. row' \in [Tasks -> Row]
    <3>1. CASE row' = [row EXCEPT ![exec[e].task].count = exec[e].n + 1]
      <4>1. exec[e].task \in Tasks /\ exec[e].n + 1 \in Nat
        BY DEF TypeOK, Execution, NoCount
      <4> QED BY <3>1, <4>1 DEF TypeOK, Row
    <3> QED BY <1>8, <3>1 DEF StatsCommit, TypeOK
  <2> QED BY <1>8, <2>1, <2>2 DEF StatsCommit, TypeOK
<1>9. CASE Unlock(e)
  BY <1>9 DEF Unlock, TypeOK
<1>10. CASE Tell(e)
  BY <1>10 DEF Tell, TypeOK
<1> QED BY <1>2, <1>3, <1>4, <1>5, <1>6, <1>7, <1>8, <1>9, <1>10 DEF Step

\* The first state is well typed.
LEMMA InitType == Init => TypeOK
<1> SUFFICES ASSUME Init PROVE TypeOK
  OBVIOUS
<1>1. (CHOOSE t \in Tasks : TRUE) \in Tasks
  BY TasksAssumption
<1>2. exec \in [Runs -> Execution]
  BY <1>1 DEF Init, Execution, Outcome
<1> QED BY <1>2, BoundsAssumption DEF Init, TypeOK, Row, Sched

\* The type invariant is inductive.
LEMMA NextKeepsType == TypeOK /\ [Next]_vars => TypeOK'
<1> SUFFICES ASSUME TypeOK, [Next]_vars PROVE TypeOK'
  OBVIOUS
<1>1. CASE \E e \in Runs : Step(e)
  BY <1>1, StepKeepsType
<1>2. CASE Restart
  <2>1. Counters'
    BY <1>2, FaultCounts, BoundsAssumption DEF Restart, TypeOK, Counters
  <2>2. ASSUME NEW e \in Runs
        PROVE  [exec[e] EXCEPT !.pc = IF @ = "idle" THEN @ ELSE "ended"] \in Execution
    <3>1. exec[e] \in Execution
      BY DEF TypeOK
    <3> QED BY <3>1 DEF Execution
  <2>3. exec' \in [Runs -> Execution]
    BY <1>2, <2>2 DEF Restart
  <2> QED BY <1>2, <2>1, <2>3 DEF Restart, TypeOK, Counters
<1>3. CASE UNCHANGED vars
  BY <1>3 DEF vars, TypeOK
<1> QED BY <1>1, <1>2, <1>3, RequestKeepsType DEF Next

\* Every reachable state of rows, jobs, locks and executions is well formed.
THEOREM TypeCorrect == Spec => []TypeOK
<1> QED BY InitType, NextKeepsType, PTL DEF Spec
-----------------------------------------------------------------------------
\* The strengthening of OneAtATime: an execution in the region of the lock has
\* the key. It is the key, and nothing about the executions, that TakeLock
\* looks at.
LockInv ==
  outages = 0 => /\ \A t \in Tasks : \A e, f \in Holders(t) : e = f
                 /\ \A e \in Runs : exec[e].pc \in InLock => lock[exec[e].task] = TRUE

\* Every step of an execution keeps the lock and its holder together.
LEMMA StepKeepsLock ==
  ASSUME TypeOK, LockInv, NEW e \in Runs, Step(e), outages' = 0
  PROVE  LockInv'
<1> USE DEF TypeOK, Execution
<1>1. outages = 0
  BY DEF Step, TakeLock, OpenLog, ReadTask, RunTask, CloseLog, StatsRead, StatsCommit, Unlock, Tell,
         Outage, Counters
<1>2. CASE TakeLock(e) /\ exec'[e].pc = "log"
  <2>1. /\ lock[exec[e].task] = FALSE /\ lock' = [lock EXCEPT ![exec[e].task] = TRUE]
        /\ exec' = [exec EXCEPT ![e].pc = "log"]
    BY <1>1, <1>2 DEF TakeLock, Outage, Goto
  <2>2. \A f \in Runs : exec[f].pc \in InLock => exec[f].task # exec[e].task
    BY <1>1, <2>1 DEF LockInv
  <2> QED BY <1>1, <2>1, <2>2 DEF LockInv, Holders, InLock
<1>3. CASE Unlock(e)
  <2>1. /\ exec[e].pc = "unlock" /\ exec' = [exec EXCEPT ![e].pc = "notify"]
        /\ lock' = [lock EXCEPT ![exec[e].task] = FALSE]
    BY <1>1, <1>3 DEF Unlock, At, Goto, Outage
  <2>2. \A f \in Runs : f # e /\ exec[f].pc \in InLock => exec[f].task # exec[e].task
    BY <1>1, <2>1 DEF LockInv, Holders, InLock
  <2> QED BY <1>1, <2>1, <2>2 DEF LockInv, Holders, InLock
<1>4. CASE ~(TakeLock(e) /\ exec'[e].pc = "log") /\ ~Unlock(e)
  <2>1. lock' = lock
    BY <1>1, <1>4 DEF Step, TakeLock, OpenLog, ReadTask, RunTask, CloseLog, StatsRead, StatsCommit,
       Tell, Goto, Outage
  <2>2. /\ \A f \in Runs : exec'[f].task = exec[f].task
        /\ \A f \in Runs : exec'[f].pc \in InLock => exec[f].pc \in InLock
    <3>1. CASE TakeLock(e) /\ exec'[e].pc # "log"
      BY <1>1, <3>1 DEF TakeLock, Goto, InLock, Outage
    <3>2. CASE OpenLog(e) \/ CloseLog(e)
      BY <3>2 DEF OpenLog, CloseLog, Dies, At, Goto, InLock
    <3>3. CASE ReadTask(e)
      <4>1. exec[e].pc = "read"
        BY <3>3 DEF ReadTask, At
      <4>2. \A f \in Runs : exec'[f].task = exec[f].task /\ (f # e => exec'[f].pc = exec[f].pc)
        BY <3>3 DEF ReadTask, Goto
      <4> QED BY <4>1, <4>2 DEF InLock
    <3>4. CASE RunTask(e)
      <4>1. PICK o \in Outcome : exec' = [exec EXCEPT ![e].pc = "close", ![e].outcome = o]
        BY <3>4 DEF RunTask, Outcome
      <4>2. exec[e].pc = "run"
        BY <3>4 DEF RunTask, At
      <4>3. \A f \in Runs : exec'[f].task = exec[f].task /\ (f # e => exec'[f].pc = exec[f].pc)
        BY <4>1
      <4> QED BY <4>2, <4>3 DEF InLock
    <3>5. CASE StatsRead(e)
      <4>1. exec[e].pc = "stats"
        BY <3>5 DEF StatsRead, At
      <4>2. \A f \in Runs : exec'[f].task = exec[f].task /\ (f # e => exec'[f].pc = exec[f].pc)
        <5>1. CASE Dies(e)
          BY <5>1 DEF Dies, Goto
        <5>2. CASE exec' = [exec EXCEPT ![e].pc = "count", ![e].n = row[exec[e].task].count]
          BY <5>2
        <5>3. CASE exec' = [exec EXCEPT ![e].pc = "unlock"]
          BY <5>3
        <5> QED BY <3>5, <5>1, <5>2, <5>3 DEF StatsRead
      <4> QED BY <4>1, <4>2 DEF InLock
    <3>6. CASE StatsCommit(e) \/ Tell(e)
      BY <3>6 DEF StatsCommit, Tell, Dies, At, Goto, InLock
    <3> QED BY <1>4, <3>1, <3>2, <3>3, <3>4, <3>5, <3>6 DEF Step
  <2> QED BY <1>1, <2>1, <2>2 DEF LockInv, Holders
<1> QED BY <1>2, <1>3, <1>4

\* The strengthening of OneAtATime is inductive, if no executor outlives the lock.
LEMMA NextKeepsLock ==
  ASSUME LockOutlived = FALSE, TypeOK, LockInv, [Next]_vars, outages' = 0
  PROVE  LockInv'
<1>1. ASSUME NEW e \in Runs, Step(e) PROVE LockInv'
  BY <1>1, StepKeepsLock
<1>2. ASSUME NEW t \in Tasks, Expire(t) PROVE LockInv'
  <2>1. Holders(t) = {} /\ lock' = [lock EXCEPT ![t] = FALSE] /\ exec' = exec /\ outages' = outages
    BY <1>2 DEF Expire
  <2> QED BY <2>1 DEF LockInv, Holders, TypeOK
<1>3. ASSUME NEW e \in Runs, NEW t \in Tasks, Trigger(e, t) \/ Fire(e, t) PROVE LockInv'
  <2>1. lock' = lock /\ outages' = outages /\ \A f \in Runs : f # e => exec'[f] = exec[f]
    BY <1>3 DEF Trigger, Fire, Starts, TypeOK
  <2>2. exec'[e].pc = "lock"
    BY <1>3 DEF Trigger, Fire, Starts, TypeOK, Execution
  <2> QED BY <2>1, <2>2 DEF LockInv, Holders, InLock
<1>4. CASE Restart
  <2>1. \A e \in Runs : exec'[e].pc \in {"idle", "ended"}
    BY <1>4 DEF Restart, TypeOK, Execution
  <2> QED BY <2>1 DEF LockInv, Holders, InLock
<1>5. CASE UNCHANGED <<exec, lock, outages>>
  BY <1>5 DEF LockInv, Holders
<1> QED BY <1>1, <1>2, <1>3, <1>4, <1>5
    DEF Next, Create, Update, Register, Delete, Unschedule, vars

\* The lock does what it is for, for any number of timers and triggers, with
\* crashes and database errors, as long as Redis answers and no executor works
\* longer than the key lives.
THEOREM OneExecutionAtATime == ASSUME LockOutlived = FALSE PROVE Spec => []OneAtATime
<1>1. Init => LockInv
  BY DEF Init, LockInv, Holders, InLock
<1>2. TypeOK /\ LockInv /\ [Next]_vars => LockInv'
  BY NextKeepsLock DEF LockInv
<1>3. LockInv => OneAtATime
  BY DEF LockInv, OneAtATime
<1> QED BY <1>1, <1>2, <1>3, TypeCorrect, PTL DEF Spec
-----------------------------------------------------------------------------
\* The strengthening of ActiveHasJobUntilRestart: what an update may turn into
\* an active task has a job too, and only deleted tasks are unscheduled.
JobInv ==
  crashes = 0 =>
    /\ \A t \in deleting : row[t].status = "deleted"
    /\ \A t \in Tasks :
         Exists(t) /\ row[t].sched = "good" /\ creating[t] # "good"
         => \/ job[t] = "scheduled"
            \/ job[t] = "paused" /\ row[t].status = "paused"

\* The strengthening of ActiveHasJobUntilRestart is inductive.
LEMMA NextKeepsJob ==
  ASSUME TypeOK, JobInv, [Next]_vars, crashes' = 0
  PROVE  JobInv'
<1> USE DEF TypeOK, Row, Exists
<1>1. ASSUME NEW t \in Tasks, NEW s \in Sched, Create(t, s) PROVE JobInv'
  BY <1>1 DEF Create, JobInv, Sched
<1>2. ASSUME NEW t \in Tasks, NEW status \in {"keep", "active", "paused"},
             NEW sched \in {"keep", "good", "badCron"}, Update(t, status, sched)
      PROVE  JobInv'
  <2>1. /\ crashes = 0 /\ Exists(t)
        /\ creating' = creating /\ deleting' = deleting
        /\ \A u \in Tasks : u # t => row'[u] = row[u] /\ job'[u] = job[u]
    BY <1>2 DEF Update
  <2>2. /\ row'[t].status = IF status = "keep" THEN row[t].status ELSE status
        /\ row'[t].sched = IF sched = "keep" \/ row[t].sched = "badType" THEN row[t].sched ELSE sched
        /\ job'[t] = JobAfter(t, status, sched)
    BY <1>2 DEF Update
  <2>3. row'[t].sched = "good" /\ creating[t] # "good" =>
          \/ job'[t] = "scheduled"
          \/ job'[t] = "paused" /\ row'[t].status = "paused"
    <3>1. CASE sched # "keep"
      BY <2>2, <3>1 DEF JobAfter
    <3>2. CASE sched = "keep" /\ status = "keep"
      BY <2>1, <2>2, <3>2 DEF JobAfter, JobInv
    <3>3. CASE sched = "keep" /\ status = "paused"
      BY <2>1, <2>2, <3>3 DEF JobAfter, JobInv
    <3>4. CASE sched = "keep" /\ status = "active"
      BY <2>1, <2>2, <3>4 DEF JobAfter, JobInv
    <3> QED BY <3>1, <3>2, <3>3, <3>4
  <2> QED BY <2>1, <2>2, <2>3 DEF JobInv
<1>3. ASSUME NEW t \in Tasks, Register(t) \/ Delete(t) PROVE JobInv'
  BY <1>3 DEF Register, Delete, JobInv
<1>4. ASSUME NEW t \in Tasks, Unschedule(t) PROVE JobInv'
  BY <1>4 DEF Unschedule, JobInv
<1>5. ASSUME UNCHANGED <<creating, deleting, job, crashes>>,
             \A t \in Tasks : row'[t].status = row[t].status /\ row'[t].sched = row[t].sched
      PROVE  JobInv'
  BY <1>5 DEF JobInv
<1>6. ASSUME NEW e \in Runs, Step(e)
      PROVE  /\ UNCHANGED <<creating, deleting, job, crashes>>
             /\ \A t \in Tasks : row'[t].status = row[t].status /\ row'[t].sched = row[t].sched
  <2>1. UNCHANGED <<creating, deleting, job, crashes>>
    BY <1>6 DEF Step, TakeLock, OpenLog, ReadTask, RunTask, CloseLog, StatsRead, StatsCommit, Unlock, Tell
  <2>2. CASE ~StatsCommit(e)
    <3>1. row' = row
      BY <1>6, <2>2 DEF Step, TakeLock, OpenLog, ReadTask, RunTask, CloseLog, StatsRead, Unlock, Tell
    <3> QED BY <2>1, <3>1
  <2>3. CASE StatsCommit(e)
    <3>1. row' = row \/ row' = [row EXCEPT ![exec[e].task].count = exec[e].n + 1]
      BY <2>3 DEF StatsCommit
    <3> DEFINE n == exec[e].n + 1
    <3> HIDE DEF n
    <3>2. CASE row' = [row EXCEPT ![exec[e].task].count = n]
      BY <2>1, <3>2
    <3> QED BY <2>1, <3>1, <3>2 DEF n
  <2> QED BY <2>2, <2>3
<1>7. ASSUME NEW t \in Tasks, Expire(t) \/ (\E e \in Runs : Trigger(e, t) \/ Fire(e, t)) PROVE JobInv'
  BY <1>7, <1>5 DEF Expire, Trigger, Fire, Starts
<1>8. ~Restart
  BY DEF Restart
<1>9. CASE UNCHANGED vars
  BY <1>5, <1>9 DEF vars
<1> QED BY <1>1, <1>2, <1>3, <1>4, <1>5, <1>6, <1>7, <1>8, <1>9 DEF Next

\* Until the process restarts, no order of creations, updates and deletions
\* leaves an active task without its job.
THEOREM JobsFollowRows == Spec => []ActiveHasJobUntilRestart
<1>1. Init => JobInv
  BY DEF Init, JobInv, Exists
<1>2. TypeOK /\ JobInv /\ [Next]_vars => JobInv'
  BY NextKeepsJob DEF JobInv
<1>3. JobInv => ActiveHasJobUntilRestart
  BY DEF JobInv, ActiveHasJobUntilRestart, ActiveHasJob, Exists
<1> QED BY <1>1, <1>2, <1>3, TypeCorrect, PTL DEF Spec
-----------------------------------------------------------------------------
Done == {"stats", "count", "unlock", "notify"}

\* Where an execution stands and what its log row says go together, and only a
\* task that was created has jobs and executions.
BookInv ==
  /\ \A t \in Tasks : job[t] # "none" \/ creating[t] # "no" => row[t].status # "none"
  /\ \A e \in Runs :
       /\ exec[e].pc # "idle" => row[exec[e].task].status # "none"
       /\ exec[e].pc \in {"idle", "lock", "log"} => log[e] = "none"
       /\ exec[e].pc \in {"read", "run", "close"} => log[e] = "running"
       /\ exec[e].pc \in Done => log[e] = exec[e].outcome
       /\ exec[e].pc = "count" => exec[e].n \in Nat

\* A step of an execution leaves the others, and the rows but for a count.
LEMMA StepFrame ==
  ASSUME TypeOK, NEW e \in Runs, Step(e)
  PROVE  /\ \A f \in Runs : f # e => exec'[f] = exec[f] /\ log'[f] = log[f]
         /\ exec'[e].task = exec[e].task
         /\ UNCHANGED <<creating, deleting, job, crashes>>
         /\ \A t \in Tasks : row'[t].status = row[t].status
         /\ \A t \in Tasks : row'[t].count # row[t].count => StatsCommit(e) /\ t = exec[e].task
         /\ \A f \in Runs : f # e /\ f \in told => f \in told'
         /\ faults' = 0 => faults = 0
         /\ outages' = 0 => outages = 0
<1> USE DEF TypeOK, Execution, Row
<1>1. /\ \A f \in Runs : f # e => exec'[f] = exec[f]
      /\ exec'[e].task = exec[e].task
  <2>1. CASE TakeLock(e) \/ OpenLog(e) \/ CloseLog(e) \/ StatsCommit(e) \/ Unlock(e) \/ Tell(e)
    BY <2>1 DEF TakeLock, OpenLog, CloseLog, StatsCommit, Unlock, Tell, Dies, Goto
  <2>2. CASE ReadTask(e)
    BY <2>2 DEF ReadTask, Goto
  <2>3. CASE RunTask(e)
    <3>1. PICK o \in Outcome : exec' = [exec EXCEPT ![e].pc = "close", ![e].outcome = o]
      BY <2>3 DEF RunTask, Outcome
    <3> QED BY <3>1
  <2>4. CASE StatsRead(e)
    <3>1. CASE Dies(e)
      BY <3>1 DEF Dies, Goto
    <3>2. CASE exec' = [exec EXCEPT ![e].pc = "count", ![e].n = row[exec[e].task].count]
      BY <3>2
    <3>3. CASE exec' = [exec EXCEPT ![e].pc = "unlock"]
      BY <3>3
    <3> QED BY <2>4, <3>1, <3>2, <3>3 DEF StatsRead
  <2> QED BY <2>1, <2>2, <2>3, <2>4 DEF Step
<1>2. \A f \in Runs : f # e => log'[f] = log[f]
  BY DEF Step, TakeLock, OpenLog, ReadTask, RunTask, CloseLog, StatsRead, StatsCommit, Unlock, Tell
<1>3. UNCHANGED <<creating, deleting, job, crashes>>
  BY DEF Step, TakeLock, OpenLog, ReadTask, RunTask, CloseLog, StatsRead, StatsCommit, Unlock, Tell
<1>4. /\ \A t \in Tasks : row'[t].status = row[t].status
      /\ \A t \in Tasks : row'[t].count # row[t].count => StatsCommit(e) /\ t = exec[e].task
  <2>1. CASE StatsCommit(e) /\ row' = [row EXCEPT ![exec[e].task].count = exec[e].n + 1]
    BY <2>1
  <2>2. CASE row' = row
    BY <2>2
  <2>3. CASE ~StatsCommit(e)
    BY <2>2, <2>3 DEF Step, TakeLock, OpenLog, ReadTask, RunTask, CloseLog, StatsRead, Unlock, Tell
  <2> QED BY <2>1, <2>2, <2>3 DEF StatsCommit
<1>5. \A f \in Runs : f # e /\ f \in told => f \in told'
  BY DEF Step, TakeLock, OpenLog, ReadTask, RunTask, CloseLog, StatsRead, StatsCommit, Unlock, Tell
<1>6. (faults' = 0 => faults = 0) /\ (outages' = 0 => outages = 0)
  BY DEF Step, TakeLock, OpenLog, ReadTask, RunTask, CloseLog, StatsRead, StatsCommit, Unlock, Tell,
         Dies, Fault, Outage
<1> QED BY <1>1, <1>2, <1>3, <1>4, <1>5, <1>6

\* What a step does to its own execution: the edges of _execute_with_lock.
LEMMA StepMoves ==
  ASSUME TypeOK, NEW e \in Runs, Step(e)
  PROVE  \/ /\ exec[e].pc = "lock" /\ exec'[e].pc \in {"log", "ended"} /\ log' = log
         \/ exec[e].pc = "log" /\ exec'[e].pc = "read" /\ log'[e] = "running"
         \/ /\ exec[e].pc = "read" /\ exec'[e].pc \in {"run", "close"} /\ log' = log
         \/ /\ exec[e].pc = "run" /\ exec'[e].pc = "close" /\ log' = log
         \/ /\ exec[e].pc = "close" /\ exec'[e].pc = "stats" /\ log'[e] = exec[e].outcome
            /\ exec'[e].outcome = exec[e].outcome
         \/ /\ exec[e].pc = "stats" /\ log' = log /\ exec'[e].outcome = exec[e].outcome
            /\ \/ /\ Exists(exec[e].task)
                  /\ exec'[e].pc = "count" /\ exec'[e].n = row[exec[e].task].count
               \/ ~Exists(exec[e].task) /\ exec'[e].pc = "unlock"
         \/ /\ exec[e].pc = "count" /\ log' = log /\ exec'[e].outcome = exec[e].outcome
            /\ \/ /\ Exists(exec[e].task) /\ exec'[e].n = exec[e].n /\ exec'[e].pc = "unlock"
                  /\ row' = [row EXCEPT ![exec[e].task].count = exec[e].n + 1]
               \/ ~Exists(exec[e].task) /\ exec'[e].pc = "ended"
         \/ /\ exec[e].pc = "unlock" /\ exec'[e].pc = "notify" /\ log' = log
            /\ exec'[e].n = exec[e].n /\ exec'[e].outcome = exec[e].outcome
         \/ /\ exec[e].pc = "notify" /\ exec'[e].pc = "ended" /\ log' = log
            /\ exec[e].n # NoCount /\ exec[e].outcome = "success" => e \in told'
         \/ /\ exec'[e].pc = "ended" /\ log' = log /\ faults' # 0
            /\ exec[e].pc \in {"log", "close", "stats", "count"}
<1> USE DEF TypeOK, Execution
<1>1. CASE Dies(e) /\ log' = log /\ exec[e].pc \in {"log", "close", "stats", "count"}
  BY <1>1 DEF Dies, Fault, Goto
<1>2. CASE TakeLock(e)
  BY <1>2 DEF TakeLock, At, Goto
<1>3. CASE OpenLog(e)
  BY <1>1, <1>3 DEF OpenLog, At, Goto
<1>4. CASE ReadTask(e)
  BY <1>4 DEF ReadTask, At, Goto
<1>5. CASE RunTask(e)
  <2>1. PICK o \in Outcome : exec' = [exec EXCEPT ![e].pc = "close", ![e].outcome = o]
    BY <1>5 DEF RunTask, Outcome
  <2> QED BY <1>5, <2>1 DEF RunTask, At
<1>6. CASE CloseLog(e)
  BY <1>1, <1>6 DEF CloseLog, At, Goto
<1>7. CASE StatsRead(e)
  <2>1. CASE Dies(e)
    BY <1>1, <1>7, <2>1 DEF StatsRead, At
  <2>2. CASE exec' = [exec EXCEPT ![e].pc = "count", ![e].n = row[exec[e].task].count]
             /\ Exists(exec[e].task)
    <3>1. exec'[e] = [exec[e] EXCEPT !.pc = "count", !.n = row[exec[e].task].count]
      BY <2>2
    <3> QED BY <1>7, <2>2, <3>1 DEF StatsRead, At
  <2>3. CASE exec' = [exec EXCEPT ![e].pc = "unlock"] /\ ~Exists(exec[e].task)
    BY <1>7, <2>3 DEF StatsRead, At
  <2> QED BY <1>7, <2>1, <2>2, <2>3 DEF StatsRead
<1>8. CASE StatsCommit(e)
  BY <1>1, <1>8 DEF StatsCommit, At, Goto
<1>9. CASE Unlock(e)
  BY <1>9 DEF Unlock, At, Goto
<1>10. CASE Tell(e)
  BY <1>10 DEF Tell, At, Goto
<1> QED BY <1>2, <1>3, <1>4, <1>5, <1>6, <1>7, <1>8, <1>9, <1>10 DEF Step

\* The books are kept by every step.
LEMMA NextKeepsBook == ASSUME TypeOK, BookInv, [Next]_vars PROVE BookInv'
<1> USE DEF TypeOK, Execution, Row
<1>1. ASSUME NEW e \in Runs, Step(e) PROVE BookInv'
  <2>1. \A t \in Tasks : job'[t] # "none" \/ creating'[t] # "no" => row'[t].status # "none"
    BY <1>1, StepFrame DEF BookInv
  <2>5. /\ exec[e].pc # "idle" /\ exec[e].task \in Tasks /\ exec'[e].task = exec[e].task
        /\ row'[exec[e].task].status = row[exec[e].task].status
    <3>1. exec[e].pc # "idle"
      BY <1>1, StepMoves
    <3> QED BY <1>1, <3>1, StepFrame
  <2>2. exec'[e].pc # "idle" => row'[exec'[e].task].status # "none"
    BY <2>5 DEF BookInv
  <2>3. row[exec[e].task].count \in Nat
    BY <2>5
  <2>4. /\ exec'[e].pc \in {"idle", "lock", "log"} => log'[e] = "none"
        /\ exec'[e].pc \in {"read", "run", "close"} => log'[e] = "running"
        /\ exec'[e].pc \in Done => log'[e] = exec'[e].outcome
        /\ exec'[e].pc = "count" => exec'[e].n \in Nat
    <3>1. /\ exec[e].pc \in {"idle", "lock", "log"} => log[e] = "none"
          /\ exec[e].pc \in {"read", "run", "close"} => log[e] = "running"
          /\ exec[e].pc \in Done => log[e] = exec[e].outcome
          /\ row[exec[e].task].count \in Nat
      BY <2>3, <2>5 DEF BookInv
    <3> HIDE DEF TypeOK
    <3> QED BY <1>1, <3>1, StepMoves DEF Done
  <2>6. \A f \in Runs : f # e =>
          /\ exec'[f] = exec[f] /\ log'[f] = log[f]
          /\ row'[exec[f].task].status = row[exec[f].task].status
    BY <1>1, StepFrame
  <2> HIDE DEF TypeOK
  <2>7. ASSUME NEW f \in Runs
        PROVE  /\ exec'[f].pc # "idle" => row'[exec'[f].task].status # "none"
               /\ exec'[f].pc \in {"idle", "lock", "log"} => log'[f] = "none"
               /\ exec'[f].pc \in {"read", "run", "close"} => log'[f] = "running"
               /\ exec'[f].pc \in Done => log'[f] = exec'[f].outcome
               /\ exec'[f].pc = "count" => exec'[f].n \in Nat
    <3>1. CASE f = e
      BY <2>2, <2>4, <3>1
    <3>2. CASE f # e
      BY <2>6, <3>2 DEF BookInv
    <3> QED BY <3>1, <3>2
  <2> QED BY <2>1, <2>7 DEF BookInv
<1>2. ASSUME NEW t \in Tasks, NEW s \in Sched, Create(t, s) PROVE BookInv'
  BY <1>2 DEF Create, BookInv
<1>3. ASSUME NEW t \in Tasks, NEW status \in {"keep", "active", "paused"},
             NEW sched \in {"keep", "good", "badCron"}, Update(t, status, sched)
      PROVE  BookInv'
  <2>1. /\ UNCHANGED <<creating, exec, log>>
        /\ row'[t].status # "none" /\ \A u \in Tasks : u # t => row'[u] = row[u] /\ job'[u] = job[u]
    BY <1>3 DEF Update, Exists
  <2> QED BY <1>3, <2>1 DEF BookInv, Update, Exists
<1>4. ASSUME NEW t \in Tasks, Register(t) \/ Delete(t) \/ Unschedule(t) \/ Expire(t) PROVE BookInv'
  BY <1>4 DEF Register, Delete, Unschedule, Expire, BookInv
<1>5. ASSUME NEW e \in Runs, NEW t \in Tasks, Trigger(e, t) \/ Fire(e, t) PROVE BookInv'
  <2>1. /\ UNCHANGED <<row, creating, job, log>> /\ exec[e].pc = "idle"
        /\ exec'[e].pc = "lock" /\ exec'[e].task = t
        /\ \A f \in Runs : f # e => exec'[f] = exec[f]
    BY <1>5 DEF Trigger, Fire, Starts, At
  <2>2. row[t].status # "none"
    BY <1>5 DEF Trigger, Fire, Exists, BookInv
  <2> QED BY <2>1, <2>2 DEF BookInv, Done
<1>6. CASE Restart
  <2>1. \A e \in Runs : exec'[e].task = exec[e].task /\ exec'[e].pc \in {"idle", "ended"}
                        /\ (exec'[e].pc = "idle" => exec[e].pc = "idle")
                        /\ (exec[e].pc = "idle" => exec'[e].pc = "idle")
    BY <1>6 DEF Restart
  <2>2. \A t \in Tasks : job'[t] # "none" => row[t].status # "none"
    BY <1>6 DEF Restart
  <2>3. UNCHANGED <<row, log>> /\ \A t \in Tasks : creating'[t] = "no"
    BY <1>6 DEF Restart
  <2>4. \A t \in Tasks : job'[t] # "none" \/ creating'[t] # "no" => row'[t].status # "none"
    BY <2>2, <2>3
  <2> HIDE DEF TypeOK
  <2> QED BY <2>1, <2>3, <2>4 DEF BookInv, Done
<1>7. CASE UNCHANGED vars
  BY <1>7 DEF vars, BookInv
<1> QED BY <1>1, <1>2, <1>3, <1>4, <1>5, <1>6, <1>7 DEF Next

\* The books are in order.
THEOREM BooksAreKept == Spec => []BookInv
<1>1. Init => BookInv
  BY DEF Init, BookInv, Done
<1> QED BY <1>1, NextKeepsBook, TypeCorrect, PTL DEF Spec
-----------------------------------------------------------------------------
\* What holds of an execution until the process or the database fails.
ResultOf(e) ==
  /\ log[e] = "running" => exec[e].pc # "ended"
  /\ exec[e].pc \in {"unlock", "notify"} /\ Exists(exec[e].task) => exec[e].n \in Nat
  /\ exec[e].pc = "ended" /\ log[e] = "success" /\ Exists(exec[e].task) => e \in told

ResultInv == crashes = 0 /\ faults = 0 => \A e \in Runs : ResultOf(e)

\* Every step keeps it.
LEMMA NextKeepsResult ==
  ASSUME TypeOK, BookInv, ResultInv, [Next]_vars, crashes' = 0, faults' = 0
  PROVE  ResultInv'
<1> USE DEF TypeOK, Execution, Row
<1>1. ASSUME NEW e \in Runs, Step(e) PROVE ResultInv'
  <2>1. \A t \in Tasks : row'[t].status = row[t].status
    BY <1>1, StepFrame
  <2>2. ResultOf(e)
    BY <1>1, StepFrame DEF ResultInv
  <2>3. exec'[e].task = exec[e].task /\ exec[e].task \in Tasks
    BY <1>1, StepFrame
  <2>4. log'[e] = "running" => exec'[e].pc # "ended"
    <3>1. /\ exec[e].pc \in {"lock", "log"} => log[e] = "none"
          /\ exec[e].pc \in {"count", "notify"} => log[e] \in {"success", "failed", "cancelled"}
      BY DEF BookInv, Done, Outcome
    <3>2. faults' = 0
      BY DEF ResultInv
    <3> HIDE DEF TypeOK, Execution, Row
    <3> QED BY <1>1, <3>1, <3>2, StepMoves
  <2>5. exec'[e].pc \in {"unlock", "notify"} /\ Exists(exec[e].task) => exec'[e].n \in Nat
    BY <1>1, <2>2, StepMoves DEF BookInv, ResultOf
  <2>6. exec'[e].pc = "ended" /\ log'[e] = "success" /\ Exists(exec[e].task)
           => e \in told'
    <3>1. /\ exec[e].pc \in {"lock", "log"} => log[e] = "none"
          /\ exec[e].pc = "notify" => log[e] = exec[e].outcome
      BY DEF BookInv, Done
    <3>2. exec[e].pc = "notify" /\ Exists(exec[e].task) => exec[e].n # NoCount
      BY <2>2 DEF ResultOf, NoCount
    <3> HIDE DEF TypeOK, Execution, Row
    <3> QED BY <1>1, <3>1, <3>2, StepMoves
  <2>7. ResultOf(e)'
    BY <2>1, <2>3, <2>4, <2>5, <2>6 DEF ResultOf, Exists
  <2>8. ASSUME NEW f \in Runs, f # e PROVE ResultOf(f)'
    <3>1. exec'[f] = exec[f] /\ log'[f] = log[f] /\ (f \in told => f \in told')
      BY <1>1, <2>8, StepFrame
    <3>2. ResultOf(f) /\ exec[f].task \in Tasks
      BY <1>1, StepFrame DEF ResultInv
    <3> HIDE DEF TypeOK
    <3> QED BY <2>1, <3>1, <3>2 DEF ResultOf, Exists
  <2> QED BY <2>7, <2>8 DEF ResultInv
<1>2. ASSUME UNCHANGED <<exec, log, told, crashes, faults>>,
             \A u \in Tasks : row'[u].status = row[u].status \/ row[u].status = "none"
                              \/ Exists(u) \/ row'[u].status = "deleted"
      PROVE  ResultInv'
  BY <1>2 DEF ResultInv, ResultOf, BookInv, Exists
<1>3. ASSUME NEW t \in Tasks,
             \/ \E s \in Sched : Create(t, s)
             \/ \E status \in {"keep", "active", "paused"}, sched \in {"keep", "good", "badCron"} :
                  Update(t, status, sched)
             \/ Register(t) \/ Delete(t) \/ Unschedule(t) \/ Expire(t)
      PROVE  ResultInv'
  BY <1>2, <1>3 DEF Create, Update, Register, Delete, Unschedule, Expire, Exists
<1>4. ASSUME NEW e \in Runs, NEW t \in Tasks, Trigger(e, t) \/ Fire(e, t) PROVE ResultInv'
  <2>1. /\ UNCHANGED <<row, log, told, crashes, faults>> /\ exec'[e].pc = "lock"
        /\ \A f \in Runs : f # e => exec'[f] = exec[f]
    BY <1>4 DEF Trigger, Fire, Starts, At
  <2> QED BY <2>1 DEF ResultInv, ResultOf, Exists
<1>5. ~Restart
  BY DEF Restart
<1>6. CASE UNCHANGED vars
  BY <1>2, <1>6 DEF vars
<1> QED BY <1>1, <1>3, <1>4, <1>5, <1>6 DEF Next

\* Until the process or the database fails, the three facts hold.
LEMMA ResultsAreKept == Spec => []ResultInv
<1>1. Init => ResultInv
  BY DEF Init, ResultInv, ResultOf
<1>2. TypeOK /\ BookInv /\ ResultInv /\ [Next]_vars => ResultInv'
  BY NextKeepsResult DEF ResultInv
<1> QED BY <1>1, <1>2, TypeCorrect, BooksAreKept, PTL DEF Spec

\* Whatever the user and the timers do, an execution closes its log unless the
\* process or the database fails.
THEOREM LogsAreClosed == Spec => []RunningLogIsTrue
<1>1. TypeOK /\ BookInv /\ ResultInv => RunningLogIsTrue
  BY DEF ResultInv, ResultOf, BookInv, RunningLogIsTrue, InFlight
<1> QED BY <1>1, TypeCorrect, BooksAreKept, ResultsAreKept, PTL

\* And its user is told of its result.
THEOREM ResultsAreTold == Spec => []FinishedIsTold
<1>1. ResultInv => FinishedIsTold
  BY DEF ResultInv, ResultOf, FinishedIsTold, Reported, At
<1> QED BY <1>1, ResultsAreKept, PTL
-----------------------------------------------------------------------------
Finished(t) ==
  {e \in Runs : exec[e].task = t /\ log[e] \in Outcome /\ exec[e].pc \in {"unlock", "notify", "ended"}}

\* The count of a task against its finished runs; who will write it has read
\* what it is now.
CountOf(t) ==
  /\ row[t].count <= Cardinality(Finished(t))
  /\ crashes = 0 /\ faults = 0 => row[t].count = Cardinality(Finished(t))
  /\ \A e \in Runs : exec[e].task = t /\ exec[e].pc = "count" => exec[e].n = row[t].count

CountInv == outages = 0 => \A t \in Tasks : Exists(t) => CountOf(t)

\* A count that nothing touches stays right.
LEMMA CountStays ==
  ASSUME NEW t \in Tasks, CountOf(t), row'[t].count = row[t].count, Finished(t)' = Finished(t),
         crashes' = 0 /\ faults' = 0 => crashes = 0 /\ faults = 0,
         \A e \in Runs : exec'[e].task = t /\ exec'[e].pc = "count" =>
                           exec[e] = exec'[e] \/ exec'[e].n = row[t].count
  PROVE  CountOf(t)'
BY DEF CountOf

\* A step of an execution, for its task.
LEMMA StepKeepsCount ==
  ASSUME IsFiniteSet(Runs), TypeOK, BookInv, LockInv, CountInv, NEW e \in Runs, Step(e), outages' = 0,
         NEW t \in Tasks, Exists(t)'
  PROVE  CountOf(t)'
<1>1. /\ outages = 0 /\ Exists(t) /\ CountOf(t)
      /\ crashes' = 0 /\ faults' = 0 => crashes = 0 /\ faults = 0
  BY StepFrame DEF Exists, CountInv
<1>2. /\ \A f \in Runs : f # e => exec'[f] = exec[f] /\ log'[f] = log[f]
      /\ exec'[e].task = exec[e].task
      /\ row'[t].count # row[t].count => StatsCommit(e) /\ t = exec[e].task
  BY StepFrame
<1>3. /\ IsFiniteSet(Finished(t)) /\ IsFiniteSet(Finished(t)')
      /\ Cardinality(Finished(t)) \in Nat /\ Cardinality(Finished(t)') \in Nat
  BY FS_Subset, FS_CardinalityType DEF Finished
<1>4. e \in Finished(t) => exec[e].pc \in {"unlock", "notify"}
  BY StepMoves DEF Finished
<1>5. exec[e].pc \in {"idle", "lock", "log", "read", "run", "close"} => log[e] \notin Outcome
  BY DEF BookInv, Outcome
<1>6. exec[e].pc \in Done => log[e] \in Outcome
  BY DEF BookInv, TypeOK, Execution
<1>7. \A f \in Runs : f # e => (f \in Finished(t)' <=> f \in Finished(t))
  BY <1>2 DEF Finished
<1>8. CASE t # exec[e].task
  <2>1. Finished(t)' = Finished(t)
    BY <1>2, <1>7, <1>8 DEF Finished
  <2> QED BY <1>1, <1>2, <1>8, <2>1, CountStays
<1>9. CASE t = exec[e].task /\ exec[e].pc = "count" /\ exec'[e].pc = "unlock"
  <2>1. exec[e].n = row[t].count /\ row'[t].count = row[t].count + 1 /\ log' = log
    <3>1. row[t].count \in Nat /\ row \in [Tasks -> Row]
      BY DEF TypeOK, Row
    <3>2. exec[e].n = row[t].count
      BY <1>1, <1>9 DEF CountOf
    <3>3. row' = [row EXCEPT ![t].count = exec[e].n + 1] /\ log' = log
      BY <1>9, StepMoves
    <3> QED BY <3>1, <3>2, <3>3 DEF Row
  <2>2. e \in Finished(t)' /\ e \notin Finished(t)
    BY <1>2, <1>6, <1>9, <2>1 DEF Finished, Done
  <2>3. Finished(t)' = Finished(t) \cup {e}
    BY <1>7, <2>2 DEF Finished
  <2>4. Cardinality(Finished(t)') = Cardinality(Finished(t)) + 1
    BY <1>3, <2>2, <2>3, FS_AddElement
  <2>5. \A f \in Runs : ~(exec'[f].task = t /\ exec'[f].pc = "count")
    BY <1>1, <1>2, <1>9 DEF LockInv, Holders, InLock
  <2>6. row[t].count \in Nat
    BY DEF TypeOK, Row
  <2> QED BY <1>1, <1>3, <2>1, <2>4, <2>5, <2>6 DEF CountOf
<1>10. CASE t = exec[e].task /\ ~(exec[e].pc = "count" /\ exec'[e].pc = "unlock")
  <2>1. row'[t].count = row[t].count
    <3>1. CASE StatsCommit(e) /\ row' # row
      BY <1>1, <1>10, <3>1 DEF StatsCommit, At, Goto, Dies, TypeOK, Execution
    <3> QED BY <1>2, <3>1
  <2>2. Finished(t) \subseteq Finished(t)'
    <3>1. e \in Finished(t) => e \in Finished(t)'
      BY <1>2, <1>4, StepMoves DEF Finished
    <3> QED BY <1>7, <3>1 DEF Finished
  <2>3. Cardinality(Finished(t)) <= Cardinality(Finished(t)')
    BY <1>3, <2>2, FS_Subset
  <2>4. faults' = 0 => Finished(t)' = Finished(t)
    <3>1. ASSUME faults' = 0, e \in Finished(t)' PROVE e \in Finished(t)
      BY <1>1, <1>2, <1>5, <1>10, <3>1, StepMoves DEF Finished
    <3> QED BY <1>7, <2>2, <3>1 DEF Finished
  <2>5. exec'[e].pc = "count" => exec'[e].n = row[t].count
    BY <1>10, StepMoves
  <2>6. row[t].count \in Nat
    BY DEF TypeOK, Row
  <2> QED BY <1>1, <1>2, <1>3, <2>1, <2>3, <2>4, <2>5, <2>6 DEF CountOf
<1> QED BY <1>8, <1>9, <1>10

\* Every step keeps the counts.
LEMMA NextKeepsCount ==
  ASSUME IsFiniteSet(Runs), LockOutlived = FALSE, TypeOK, BookInv, LockInv, CountInv, [Next]_vars,
         outages' = 0
  PROVE  CountInv'
<1>1. ASSUME NEW e \in Runs, Step(e) PROVE CountInv'
  BY <1>1, StepKeepsCount DEF CountInv
<1>2. ASSUME NEW t \in Tasks, NEW s \in Sched, Create(t, s) PROVE CountInv'
  <2>1. /\ UNCHANGED <<exec, log, crashes, faults, outages>>
        /\ row[t].status = "none" /\ row'[t].count = 0
        /\ \A u \in Tasks : u # t => row'[u] = row[u]
    BY <1>2 DEF Create, TypeOK
  <2>2. \A e \in Runs : exec[e].task = t => exec[e].pc = "idle"
    BY <2>1 DEF BookInv
  <2>3. Finished(t)' = {}
    BY <2>1, <2>2 DEF Finished
  <2>4. CountOf(t)'
    BY <2>1, <2>2, <2>3, FS_EmptySet DEF CountOf
  <2>5. ASSUME NEW u \in Tasks, u # t, Exists(u)' PROVE CountOf(u)'
    <3>1. Exists(u) /\ CountOf(u) /\ Finished(u)' = Finished(u)
      BY <2>1, <2>5 DEF Exists, CountInv, Finished
    <3> QED BY <2>1, <2>5, <3>1, CountStays
  <2> QED BY <2>4, <2>5 DEF CountInv
<1>3. ASSUME UNCHANGED <<exec, log, crashes, faults, outages>>,
             \A u \in Tasks : row'[u].count = row[u].count /\ (Exists(u)' => Exists(u))
      PROVE  CountInv'
  <2>1. ASSUME NEW u \in Tasks, Exists(u)' PROVE CountOf(u)'
    <3>1. CountOf(u) /\ Finished(u)' = Finished(u)
      BY <1>3, <2>1 DEF CountInv, Finished
    <3> QED BY <1>3, <3>1, CountStays
  <2> QED BY <2>1 DEF CountInv
<1>4. ASSUME NEW t \in Tasks,
             \/ \E status \in {"keep", "active", "paused"}, sched \in {"keep", "good", "badCron"} :
                  Update(t, status, sched)
             \/ Register(t) \/ Delete(t) \/ Unschedule(t) \/ Expire(t)
      PROVE  CountInv'
  BY <1>3, <1>4 DEF Update, Register, Delete, Unschedule, Expire, Exists, TypeOK, Row
<1>5. ASSUME NEW e \in Runs, NEW t \in Tasks, Trigger(e, t) \/ Fire(e, t) PROVE CountInv'
  <2>1. /\ UNCHANGED <<row, log, crashes, faults, outages>> /\ exec[e].pc = "idle"
        /\ exec'[e].pc = "lock" /\ \A f \in Runs : f # e => exec'[f] = exec[f]
    BY <1>5 DEF Trigger, Fire, Starts, At, TypeOK, Execution
  <2>2. ASSUME NEW u \in Tasks, Exists(u)' PROVE CountOf(u)'
    <3>1. CountOf(u)
      BY <2>1, <2>2 DEF CountInv, Exists
    <3>2. \A f \in Runs : f \in Finished(u)' <=> f \in Finished(u)
      BY <2>1 DEF Finished
    <3>3. Finished(u)' = Finished(u)
      BY <3>2 DEF Finished
    <3> QED BY <2>1, <3>1, <3>3, CountStays
  <2> QED BY <2>2 DEF CountInv
<1>6. CASE Restart
  <2>1. /\ UNCHANGED <<row, log>> /\ crashes' # 0 /\ outages' = outages
        /\ \A e \in Runs : /\ exec'[e].task = exec[e].task /\ exec'[e].pc \in {"idle", "ended"}
                           /\ exec[e].pc # "idle" => exec'[e].pc = "ended"
    BY <1>6 DEF Restart, TypeOK, Execution
  <2>2. ASSUME NEW u \in Tasks, Exists(u)' PROVE CountOf(u)'
    <3>1. CountOf(u) /\ row[u].count \in Nat
      BY <2>1, <2>2 DEF CountInv, Exists, TypeOK, Row
    <3>2. Finished(u) \subseteq Finished(u)' /\ Finished(u) \subseteq Runs /\ Finished(u)' \subseteq Runs
      BY <2>1 DEF Finished
    <3>3. /\ Cardinality(Finished(u)) <= Cardinality(Finished(u)')
          /\ Cardinality(Finished(u)) \in Nat /\ Cardinality(Finished(u)') \in Nat
      BY <3>2, FS_Subset, FS_CardinalityType
    <3> QED BY <2>1, <3>1, <3>3 DEF CountOf
  <2> QED BY <2>2 DEF CountInv
<1>7. CASE UNCHANGED vars
  BY <1>3, <1>7 DEF vars, Exists
<1> QED BY <1>1, <1>2, <1>4, <1>5, <1>6, <1>7 DEF Next

\* The read and the write of a count are two transactions, and yet no run is
\* lost from it or counted twice, for any tasks and any finite number of
\* executions: the lock keeps them apart as long as Redis answers.
THEOREM CountsAreExact == ASSUME IsFiniteSet(Runs), LockOutlived = FALSE PROVE Spec => []CountsExact
<1>1. Init => LockInv /\ CountInv
  BY DEF Init, LockInv, Holders, InLock, CountInv, Exists
<1>2. TypeOK /\ BookInv /\ LockInv /\ CountInv /\ [Next]_vars => LockInv' /\ CountInv'
  BY NextKeepsLock, NextKeepsCount DEF LockInv, CountInv
<1>3. CountInv => CountsExact
  BY DEF CountInv, CountOf, CountsExact, Finished
<1> QED BY <1>1, <1>2, <1>3, TypeCorrect, BooksAreKept, PTL DEF Spec

-----------------------------------------------------------------------------
(* The page of the assistant. *)

PageSafety == AssistantInit /\ [][AssistantNext]_assistantVars

TaskRow == [at : {"asked", "written", "added", "failed", "scheduled"}, by : Tabs \cup {"nobody"}]
RequestRow == [at : {"dismissed", "feed", "tasks", "answer"}, hid : SUBSET Nat, cards : SUBSET Nat, tasks : SUBSET Nat]
LogRow == [hit : BOOLEAN, told : BOOLEAN, to : SUBSET Tabs]
TabRow == [open : BOOLEAN, on : Nat, asks : Seq(RequestRow), cards : SUBSET Nat, tasks : SUBSET Nat,
           ignored : SUBSET Nat, made : SUBSET Nat]
PageType ==
  /\ tab \in [Tabs -> TabRow] /\ hidden \in SUBSET Nat
  /\ watched \in Seq(TaskRow) /\ logged \in Seq(LogRow)
  /\ channel \in [current : Nat, queue : Seq(Nat), past : Seq(Nat)]

\* The tasks whose creation was reported, which stay.
Scheduled == {i \in DOMAIN watched : watched[i].at = "scheduled"}

\* What a request knows of the acts on a page, by how far it is.
Sees(r, ignored, made) ==
  /\ r.at = "feed" => ignored \subseteq r.hid
  /\ r.at \in {"tasks", "answer"} => ignored \cap r.cards = {}
  /\ r.at = "answer" => made \subseteq r.tasks

\* The last request of a page will show all acts, or what it shows already does.
TabGood(p, hid, scheduled) ==
  /\ p.ignored \subseteq hid /\ p.made \subseteq scheduled
  /\ p.asks = <<>> => p.ignored \cap p.cards = {} /\ p.made \subseteq p.tasks
  /\ p.asks # <<>> => Sees(p.asks[Len(p.asks)], p.ignored, p.made)

PageInv == PageType /\ \A t \in Tabs : TabGood(tab[t], hidden, Scheduled)

\* A page that asks again will show everything.
LEMMA AskingShowsAll ==
  ASSUME NEW p \in TabRow, NEW hid, NEW sch, p.ignored \subseteq hid, p.made \subseteq sch
  PROVE  LET new == [p EXCEPT !.asks = Append(@, Request)] IN
         new \in TabRow /\ TabGood(new, hid, sch)
<1> DEFINE new == [p EXCEPT !.asks = Append(@, Request)]
<1>1. Request \in RequestRow /\ Request.at = "dismissed"
  BY DEF Request, RequestRow
<1>2. /\ p.asks \in Seq(RequestRow) /\ new.asks = Append(p.asks, Request) /\ new.ignored = p.ignored /\ new.made = p.made
  BY DEF TabRow
<1>3. new.asks \in Seq(RequestRow) /\ new.asks # <<>> /\ new.asks[Len(new.asks)] = Request
  BY <1>1, <1>2
<1>4. new \in TabRow
  BY <1>3 DEF TabRow
<1> HIDE DEF new
<1>5. TabGood(new, hid, sch)
  BY <1>1, <1>2, <1>3 DEF TabGood, Sees
<1> QED BY <1>4, <1>5 DEF new

\* A step of one page that keeps what was dismissed and reported.
LEMMA OnePage ==
  ASSUME PageInv, PageType', NEW t \in Tabs, NEW new, tab' = [tab EXCEPT ![t] = new],
         hidden \subseteq hidden', Scheduled \subseteq Scheduled', TabGood(new, hidden', Scheduled')
  PROVE  PageInv'
<1>1. tab \in [Tabs -> TabRow]
  BY DEF PageInv, PageType
<1>2. ASSUME NEW u \in Tabs PROVE TabGood(tab'[u], hidden', Scheduled')
  <2>1. CASE u = t
    BY <1>1, <2>1
  <2>2. CASE u # t
    <3>1. tab'[u] = tab[u] /\ TabGood(tab[u], hidden, Scheduled)
      BY <1>1, <2>2 DEF PageInv
    <3> QED BY <3>1 DEF TabGood
  <2> QED BY <2>1, <2>2
<1> QED BY <1>2 DEF PageInv

\* A step that changes no page.
LEMMA NoPage ==
  ASSUME PageInv, PageType', tab' = tab, hidden \subseteq hidden', Scheduled \subseteq Scheduled'
  PROVE  PageInv'
BY DEF PageInv, TabGood

\* What a step on the queues of the channel leaves.
LEMMA QueuesStay ==
  ASSUME NEW q \in Seq(Nat), NEW k, NEW n, k \in DOMAIN q => n \in Nat
  PROVE  [q EXCEPT ![k] = n] \in Seq(Nat)
<1>1. PICK l \in Nat : l = Len(q)
  OBVIOUS
<1>2. q \in [1..l -> Nat] /\ DOMAIN q = 1..l
  BY <1>1
<1>3. [q EXCEPT ![k] = n] \in [1..l -> Nat]
  <2>1. CASE k \in 1..l
    BY <1>2, <2>1
  <2>2. CASE k \notin 1..l
    BY <1>2, <2>2
  <2> QED BY <2>1, <2>2
<1> QED BY <1>3

\* The reads of a request. Only those of the last request matter to the page.
LEMMA ReadsKeeps ==
  ASSUME PageInv, NEW t \in Tabs, NEW i \in DOMAIN tab[t].asks, Reads(t, i)
  PROVE  PageInv'
<1>1. /\ tab \in [Tabs -> TabRow] /\ tab[t] \in TabRow /\ tab[t].asks \in Seq(RequestRow)
      /\ TabGood(tab[t], hidden, Scheduled) /\ hidden \in SUBSET Nat /\ watched \in Seq(TaskRow) /\ logged \in Seq(LogRow)
  BY DEF PageInv, PageType, TabRow
<1>2. PICK r \in RequestRow : r = tab[t].asks[i]
  BY <1>1
<1>3. r.hid \in SUBSET Nat /\ r.at \in {"dismissed", "feed", "tasks", "answer"} /\ r.cards \in SUBSET Nat
  BY <1>2 DEF RequestRow
<1> DEFINE next == CASE r.at = "dismissed" -> [r EXCEPT !.at = "feed", !.hid = hidden]
                [] r.at = "feed" -> [r EXCEPT !.at = "tasks", !.cards = build_messages(build_feed(r.hid)), !.hid = {}]
                [] OTHER -> [r EXCEPT !.at = "answer", !.tasks = build_watching]
           feed == build_messages(build_feed(r.hid))
<1>4. tab' = [tab EXCEPT ![t].asks[i] = next] /\ r.at # "answer" /\ UNCHANGED <<watched, logged, hidden, channel, happened>>
  BY <1>2, Zenon DEF Reads
<1>5. feed \in SUBSET Nat /\ feed \cap r.hid = {} /\ build_watching \in SUBSET Nat /\ Scheduled \subseteq build_watching
  <2>1. feed \subseteq DOMAIN logged /\ feed \cap r.hid = {}
    BY DEF build_messages, build_feed
  <2>2. DOMAIN logged \subseteq Nat /\ DOMAIN watched \subseteq Nat
    BY <1>1
  <2> QED BY <2>1, <2>2 DEF build_watching, Scheduled
<1>6. /\ next \in RequestRow
      /\ r.at = "dismissed" => next.at = "feed" /\ next.hid = hidden
      /\ r.at = "feed" => next.at = "tasks" /\ next.cards = feed
      /\ r.at = "tasks" => next.at = "answer" /\ next.tasks = build_watching /\ next.cards = r.cards
  <2>1. CASE r.at = "dismissed"
    <3>1. next = [r EXCEPT !.at = "feed", !.hid = hidden]
      BY <2>1
    <3> QED BY <1>1, <1>2, <2>1, <3>1 DEF RequestRow
  <2>2. CASE r.at = "feed"
    <3> HIDE DEF feed
    <3>1. next = [r EXCEPT !.at = "tasks", !.cards = feed, !.hid = {}]
      BY <2>2 DEF feed
    <3> HIDE DEF next
    <3> QED BY <1>2, <1>5, <2>2, <3>1 DEF RequestRow
  <2>3. CASE r.at = "tasks"
    <3> DEFINE w == build_watching
    <3>1. next = [r EXCEPT !.at = "answer", !.tasks = w]
      BY <2>3
    <3>2. w \in SUBSET Nat
      BY <1>5
    <3> HIDE DEF w, next
    <3>3. next.at = "answer" /\ next.tasks = w /\ next.cards = r.cards /\ next \in RequestRow
      BY <1>2, <3>1, <3>2 DEF RequestRow
    <3> QED BY <2>3, <3>3 DEF w
  <2> QED BY <1>3, <1>4, <2>1, <2>2, <2>3
<1> DEFINE asks == [tab[t].asks EXCEPT ![i] = next]
           new == [tab[t] EXCEPT !.asks = asks]
<1>7. PICK nx \in RequestRow : nx = next
  BY <1>6
<1>8. asks \in Seq(RequestRow) /\ Len(asks) = Len(tab[t].asks) /\ asks # <<>>
      /\ \A k \in 1..Len(asks) : asks[k] = IF k = i THEN next ELSE tab[t].asks[k]
  <2> HIDE DEF next
  <2>1. asks = [tab[t].asks EXCEPT ![i] = nx]
    BY <1>7
  <2> HIDE DEF asks
  <2>2. PICK n \in Nat : n = Len(tab[t].asks)
    BY <1>1
  <2>3. tab[t].asks \in [1..n -> RequestRow]
    BY <1>1, <2>2
  <2>4. asks \in [1..n -> RequestRow] /\ \A k \in 1..n : asks[k] = IF k = i THEN nx ELSE tab[t].asks[k]
    BY <2>1, <2>3
  <2>5. i \in 1..n
    BY <2>3
  <2> QED BY <2>2, <2>4, <2>5, <1>7
<1>9. tab' = [tab EXCEPT ![t] = new]
  BY <1>1, <1>4
<1>10. new \in TabRow
  <2> HIDE DEF asks
  <2> QED BY <1>1, <1>8 DEF TabRow
<1>11. new.asks = asks /\ new.ignored = tab[t].ignored /\ new.made = tab[t].made
  BY <1>1 DEF TabRow
<1>12. asks[Len(asks)] = IF i = Len(tab[t].asks) THEN next ELSE tab[t].asks[Len(tab[t].asks)]
  <2> HIDE DEF asks, next
  <2> QED BY <1>1, <1>8
<1>13. TabGood(new, hidden, Scheduled)
  <2> HIDE DEF asks, new, next, feed
  <2>1. tab[t].ignored \subseteq hidden /\ tab[t].made \subseteq Scheduled /\ tab[t].asks # <<>>
    BY <1>1 DEF TabGood
  <2>2. Sees(tab[t].asks[Len(tab[t].asks)], tab[t].ignored, tab[t].made)
    BY <1>1, <2>1 DEF TabGood
  <2>3. Sees(asks[Len(asks)], tab[t].ignored, tab[t].made)
    <3>1. CASE i # Len(tab[t].asks)
      BY <1>12, <2>2, <3>1
    <3>2. CASE i = Len(tab[t].asks)
      <4>1. asks[Len(asks)] = next /\ Sees(r, tab[t].ignored, tab[t].made)
        BY <1>2, <1>12, <2>2, <3>2
      <4> QED BY <1>3, <1>4, <1>5, <1>6, <2>1, <4>1 DEF Sees
    <3> QED BY <3>1, <3>2
  <2> QED BY <1>8, <1>11, <2>1, <2>3 DEF TabGood
<1>14. PageType' /\ Scheduled' = Scheduled
  <2> HIDE DEF new
  <2>1. tab' \in [Tabs -> TabRow]
    BY <1>1, <1>9, <1>10
  <2> QED BY <1>4, <2>1 DEF PageType, PageInv, Scheduled
<1> HIDE DEF new
<1> QED BY <1>4, <1>9, <1>13, <1>14, OnePage

\* An answer is that of the oldest request, so that the last one arrives with
\* no other under way.
LEMMA ArrivesKeeps ==
  ASSUME PageInv, ~Overtakes, NEW t \in Tabs, NEW i \in DOMAIN tab[t].asks, Arrives(t, i)
  PROVE  PageInv'
<1>1. /\ tab \in [Tabs -> TabRow] /\ tab[t] \in TabRow /\ tab[t].asks \in Seq(RequestRow)
      /\ TabGood(tab[t], hidden, Scheduled)
  BY DEF PageInv, PageType, TabRow
<1>2. i = 1 /\ tab[t].asks # <<>>
  <2>1. ~(i > 1) /\ i \in 1..Len(tab[t].asks)
    BY <1>1 DEF Arrives
  <2> QED BY <1>1, <2>1
<1>3. PICK r \in RequestRow : r = tab[t].asks[1] /\ r.at = "answer"
  <2>1. tab[t].asks[1] \in RequestRow /\ tab[t].asks[1].at = "answer"
    BY <1>1, <1>2 DEF Arrives
  <2> QED BY <2>1
<1> DEFINE left == RemoveAt(tab[t].asks, 1)
           new == [tab[t] EXCEPT !.asks = left, !.cards = r.cards, !.tasks = r.tasks]
<1>4. tab' = [tab EXCEPT ![t] = new] /\ UNCHANGED <<watched, logged, hidden, channel, happened>>
  BY <1>1, <1>2, <1>3 DEF Arrives
<1>5. left = Tail(tab[t].asks) /\ left \in Seq(RequestRow)
  <2> DEFINE s == tab[t].asks
  <2>1. SubSeq(s, 1, 1 - 1) = <<>> /\ SubSeq(s, 1 + 1, Len(s)) = Tail(s) /\ Tail(s) \in Seq(RequestRow)
    BY <1>1, <1>2
  <2>2. left = SubSeq(s, 1, 1 - 1) \o SubSeq(s, 1 + 1, Len(s))
    BY DEF RemoveAt
  <2>3. left = <<>> \o Tail(s)
    BY <2>1, <2>2
  <2> HIDE DEF left, s
  <2>4. left = Tail(s) /\ left \in Seq(RequestRow)
    BY <2>1, <2>3, ConcatEmptySeq
  <2> QED BY <2>4 DEF s
<1>6. /\ left = <<>> => Len(tab[t].asks) = 1
      /\ left # <<>> => left[Len(left)] = tab[t].asks[Len(tab[t].asks)]
  <2> DEFINE s == tab[t].asks
  <2>1. s \in Seq(RequestRow) /\ s # <<>> /\ left = Tail(s) /\ left \in Seq(RequestRow)
    BY <1>1, <1>2, <1>5
  <2> HIDE DEF left, s
  <2>2. PICK n \in Nat : n = Len(s) /\ n >= 1
    BY <2>1
  <2>3. Len(left) = n - 1 /\ \A k \in 1..(n - 1) : left[k] = s[k + 1]
    BY <2>1, <2>2
  <2>4. (left = <<>> => n = 1) /\ (left # <<>> => n - 1 \in 1..(n - 1))
    <3>1. (left = <<>>) <=> Len(left) = 0
      BY <2>1, EmptySeq
    <3>2. Len(left) = n - 1 /\ n \in Nat /\ n >= 1
      BY <2>2, <2>3
    <3>3. (left = <<>> => n = 1) /\ (left # <<>> => n # 1)
      BY <3>1, <3>2
    <3>4. n # 1 => n - 1 \in 1..(n - 1)
      BY <3>2
    <3> QED BY <3>3, <3>4
  <2> QED BY <2>2, <2>3, <2>4 DEF s
<1>7. new.asks = left /\ new.cards = r.cards /\ new.tasks = r.tasks /\ new.ignored = tab[t].ignored /\ new.made = tab[t].made
  <2> HIDE DEF left
  <2> QED BY <1>1 DEF TabRow
<1>8. new \in TabRow
  <2>1. r.cards \in SUBSET Nat /\ r.tasks \in SUBSET Nat
    BY <1>3 DEF RequestRow
  <2> HIDE DEF left
  <2> QED BY <1>1, <1>5, <2>1 DEF TabRow
<1> HIDE DEF new, left
<1>9. TabGood(new, hidden, Scheduled)
  <2>1. /\ tab[t].ignored \subseteq hidden /\ tab[t].made \subseteq Scheduled
        /\ Sees(tab[t].asks[Len(tab[t].asks)], tab[t].ignored, tab[t].made)
    BY <1>1, <1>2 DEF TabGood
  <2>2. left = <<>> => new.ignored \cap new.cards = {} /\ new.made \subseteq new.tasks
    BY <1>3, <1>6, <1>7, <2>1 DEF Sees
  <2> QED BY <1>6, <1>7, <2>1, <2>2 DEF TabGood
<1>10. PageType' /\ Scheduled' = Scheduled
  <2>1. tab' \in [Tabs -> TabRow]
    BY <1>1, <1>4, <1>8
  <2> QED BY <1>4, <2>1 DEF PageType, PageInv, Scheduled
<1> QED BY <1>4, <1>9, <1>10, OnePage

\* The steps of the pages and of what they are connected to.
LEMMA VisitsKeep ==
  ASSUME PageInv, NEW t \in Tabs,
         \/ OpensPage(t) \/ LeavesPage(t) \/ ComesToFront(t)
         \/ Connects(t) \/ Pushes(t) \/ Breaks(t) \/ Says(t)
         \/ \E i \in tab[t].cards : Ignores(t, i)
  PROVE  PageInv'
<1>1. /\ tab \in [Tabs -> TabRow] /\ tab[t] \in TabRow /\ tab[t].asks \in Seq(RequestRow)
      /\ TabGood(tab[t], hidden, Scheduled) /\ hidden \in SUBSET Nat /\ watched \in Seq(TaskRow)
      /\ channel \in [current : Nat, queue : Seq(Nat), past : Seq(Nat)]
      /\ tab[t].ignored \subseteq hidden /\ tab[t].made \subseteq Scheduled /\ logged \in Seq(LogRow)
  BY DEF PageInv, PageType, TabRow, TabGood
<1>2. channel.current \in Nat /\ channel.queue \in Seq(Nat) /\ channel.past \in Seq(Nat)
  BY <1>1
<1>3. NoTab \in TabRow /\ TabGood(NoTab, hidden, Scheduled)
  BY DEF NoTab, TabRow, TabGood
<1>4. Asked(t) \in TabRow /\ TabGood(Asked(t), hidden, Scheduled)
  BY <1>1, AskingShowsAll DEF Asked
<1>5. ASSUME NEW p \in TabRow, NEW n \in Nat, TabGood(p, hidden, Scheduled)
      PROVE  [p EXCEPT !.on = n] \in TabRow /\ TabGood([p EXCEPT !.on = n], hidden, Scheduled)
  BY <1>5 DEF TabRow, TabGood
<1>6. ASSUME NEW new \in TabRow, tab' = [tab EXCEPT ![t] = new], UNCHANGED <<watched, logged, hidden>>,
             channel' \in [current : Nat, queue : Seq(Nat), past : Seq(Nat)], TabGood(new, hidden, Scheduled)
      PROVE  PageInv'
  <2>1. PageType' /\ Scheduled' = Scheduled
    <3>1. tab' \in [Tabs -> TabRow]
      BY <1>1, <1>6
    <3> QED BY <1>1, <1>6, <3>1 DEF PageType, Scheduled
  <2> QED BY <1>6, <2>1, OnePage
<1>7. CASE OpensPage(t)
  <2> DEFINE p == [NoTab EXCEPT !.open = TRUE]
             new == [NoTab EXCEPT !.open = TRUE, !.asks = <<Request>>]
  <2>1. p \in TabRow /\ p.ignored = {} /\ p.made = {}
    <3>1. p \in TabRow /\ p.ignored = NoTab.ignored /\ p.made = NoTab.made
      BY <1>3 DEF TabRow
    <3> QED BY <3>1 DEF NoTab
  <2>2. [p EXCEPT !.asks = Append(@, Request)] = new
    BY DEF NoTab
  <2>3. new \in TabRow /\ TabGood(new, hidden, Scheduled)
    <3>1. p.ignored \subseteq hidden /\ p.made \subseteq Scheduled
      BY <2>1
    <3> HIDE DEF p, new
    <3> QED BY <2>1, <2>2, <3>1, AskingShowsAll
  <2>4. tab' = [tab EXCEPT ![t] = new] /\ UNCHANGED <<watched, logged, hidden, channel>>
    BY <1>7 DEF OpensPage
  <2> QED BY <1>1, <1>6, <2>3, <2>4
<1>8. CASE LeavesPage(t)
  <2>1. /\ tab' = [tab EXCEPT ![t] = NoTab] /\ UNCHANGED <<logged, hidden, channel>>
        /\ watched' = [i \in DOMAIN watched |-> [watched[i] EXCEPT !.by = IF @ = t THEN "nobody" ELSE @]]
    BY <1>8 DEF LeavesPage
  <2>2. /\ DOMAIN watched' = DOMAIN watched /\ watched' \in Seq(TaskRow)
        /\ \A i \in DOMAIN watched : watched'[i].at = watched[i].at
    <3>1. watched \in [1..Len(watched) -> TaskRow] /\ Len(watched) \in Nat
      BY <1>1
    <3>2. ASSUME NEW i \in 1..Len(watched) PROVE watched'[i] \in TaskRow /\ watched'[i].at = watched[i].at
      <4> DEFINE by == IF watched[i].by = t THEN "nobody" ELSE watched[i].by
      <4>1. watched'[i] = [watched[i] EXCEPT !.by = by] /\ watched[i] \in TaskRow
        BY <2>1, <3>1
      <4>2. by \in Tabs \cup {"nobody"}
        <5>1. watched[i].by \in Tabs \cup {"nobody"}
          BY <4>1 DEF TaskRow
        <5> QED BY <5>1
      <4> HIDE DEF by
      <4> QED BY <4>1, <4>2 DEF TaskRow
    <3>3. PICK n \in Nat : n = Len(watched)
      BY <3>1
    <3>4. DOMAIN watched = 1..n /\ DOMAIN watched' = 1..n /\ watched' = [i \in 1..n |-> watched'[i]]
      BY <2>1, <3>1, <3>3
    <3>5. watched' \in [1..n -> TaskRow]
      BY <3>2, <3>3, <3>4
    <3> QED BY <3>2, <3>3, <3>4, <3>5
  <2>3. PageType' /\ Scheduled' = Scheduled
    <3>1. tab' \in [Tabs -> TabRow]
      BY <1>1, <1>3, <2>1
    <3> QED BY <1>1, <2>1, <2>2, <3>1 DEF PageType, Scheduled
  <2> QED BY <1>3, <2>1, <2>3, OnePage
<1>9. CASE ComesToFront(t)
  <2>1. tab' = [tab EXCEPT ![t] = Asked(t)] /\ UNCHANGED <<watched, logged, hidden, channel>>
    BY <1>9 DEF ComesToFront
  <2> QED BY <1>1, <1>4, <1>6, <2>1
<1>10. CASE Connects(t)
  <2> DEFINE made == channel.current = 0
             s == IF made THEN Len(channel.queue) + 1 ELSE channel.current
             replays == ~made /\ channel.past[s] > 1
             p == IF replays THEN Asked(t) ELSE tab[t]
  <2>1. /\ tab' = [tab EXCEPT ![t] = [p EXCEPT !.on = s]] /\ UNCHANGED <<watched, logged, hidden>>
        /\ channel' = IF made THEN [current |-> s, queue |-> Append(channel.queue, 0), past |-> Append(channel.past, 0)]
                      ELSE channel
    BY <1>1, <1>10 DEF Connects
  <2>2. s \in Nat
    BY <1>2
  <2>3. p \in TabRow /\ TabGood(p, hidden, Scheduled)
    BY <1>1, <1>4
  <2>4. channel' \in [current : Nat, queue : Seq(Nat), past : Seq(Nat)]
    <3> HIDE DEF s
    <3> QED BY <1>1, <1>2, <2>1, <2>2
  <2> HIDE DEF p, s
  <2> QED BY <1>5, <1>6, <2>1, <2>2, <2>3, <2>4
<1>11. CASE Pushes(t)
  <2>1. /\ tab' = [tab EXCEPT ![t] = Asked(t)] /\ UNCHANGED <<watched, logged, hidden>>
        /\ channel' = [channel EXCEPT !.queue[tab[t].on] = @ - 1] /\ channel.queue[tab[t].on] > 0
    BY <1>11 DEF Pushes
  <2>2. [channel.queue EXCEPT ![tab[t].on] = @ - 1] \in Seq(Nat)
    <3> DEFINE k == tab[t].on
               n == channel.queue[k] - 1
    <3>1. k \in DOMAIN channel.queue => n \in Nat
      <4>1. k \in DOMAIN channel.queue => channel.queue[k] \in Nat
        BY <1>2
      <4> QED BY <2>1, <4>1
    <3> HIDE DEF n, k
    <3>2. [channel.queue EXCEPT ![k] = n] \in Seq(Nat)
      BY <1>2, <3>1, QueuesStay
    <3> QED BY <3>2 DEF n, k
  <2>3. channel' \in [current : Nat, queue : Seq(Nat), past : Seq(Nat)]
    BY <1>1, <2>1, <2>2
  <2> QED BY <1>4, <1>6, <2>1, <2>3
<1>12. CASE Breaks(t)
  <2>1. tab' = [tab EXCEPT ![t] = [tab[t] EXCEPT !.on = 0]] /\ UNCHANGED <<watched, logged, hidden, channel>>
    BY <1>1, <1>12 DEF Breaks
  <2> QED BY <1>1, <1>5, <1>6, <2>1
<1>13. CASE Says(t)
  <2>1. UNCHANGED <<tab, logged, hidden, channel>> /\ watched' = Append(watched, [at |-> "asked", by |-> t])
    BY <1>13 DEF Says
  <2>2. PageType'
    <3>1. [at |-> "asked", by |-> t] \in TaskRow
      BY DEF TaskRow
    <3> QED BY <1>1, <2>1, <3>1 DEF PageType
  <2>3. Scheduled \subseteq Scheduled'
    BY <1>1, <2>1 DEF Scheduled
  <2> QED BY <2>1, <2>2, <2>3, NoPage
<1>14. ASSUME NEW i \in tab[t].cards, Ignores(t, i) PROVE PageInv'
  <2> DEFINE p == [tab[t] EXCEPT !.ignored = @ \cup {i}]
             new == [Asked(t) EXCEPT !.ignored = @ \cup {i}]
  <2>1. tab' = [tab EXCEPT ![t] = new] /\ hidden' = hidden \cup {i} /\ UNCHANGED <<watched, logged, channel>>
    BY <1>14 DEF Ignores
  <2>2. i \in Nat
    BY <1>1 DEF TabRow
  <2>3. p \in TabRow /\ p.ignored \subseteq hidden' /\ p.made \subseteq Scheduled
    BY <1>1, <2>1, <2>2 DEF TabRow
  <2>4. [p EXCEPT !.asks = Append(@, Request)] = new
    BY <1>1 DEF Asked, TabRow
  <2>5. new \in TabRow /\ TabGood(new, hidden', Scheduled)
    <3> HIDE DEF p, new
    <3> QED BY <2>3, <2>4, AskingShowsAll
  <2>6. PageType' /\ Scheduled' = Scheduled
    <3> HIDE DEF new
    <3>1. tab' \in [Tabs -> TabRow]
      BY <1>1, <2>1, <2>5
    <3> QED BY <1>1, <2>1, <2>2, <3>1 DEF PageType, Scheduled
  <2> HIDE DEF new
  <2> QED BY <2>1, <2>5, <2>6, OnePage
<1> QED BY <1>7, <1>8, <1>9, <1>10, <1>11, <1>12, <1>13, <1>14

\* A creation on its way. The one whose end a page is told of, it asks for.
LEMMA TasksKeep ==
  ASSUME PageInv, NEW i \in DOMAIN watched, WritesTask(i) \/ AddsJob(i) \/ Replies(i)
  PROVE  PageInv'
<1>1. /\ tab \in [Tabs -> TabRow] /\ hidden \in SUBSET Nat /\ watched \in Seq(TaskRow) /\ logged \in Seq(LogRow)
      /\ channel \in [current : Nat, queue : Seq(Nat), past : Seq(Nat)] /\ watched[i] \in TaskRow /\ i \in Nat
  BY DEF PageInv, PageType
<1>2. ASSUME NEW new \in TaskRow, watched' = [watched EXCEPT ![i] = new]
      PROVE  watched' \in Seq(TaskRow) /\ DOMAIN watched' = DOMAIN watched
             /\ \A j \in DOMAIN watched : watched'[j] = IF j = i THEN new ELSE watched[j]
  <2>1. watched \in [1..Len(watched) -> TaskRow] /\ Len(watched) \in Nat
    BY <1>1
  <2> QED BY <1>2, <2>1
<1>3. CASE WritesTask(i) \/ AddsJob(i)
  <2>1. PICK new \in TaskRow : watched' = [watched EXCEPT ![i] = new]
    <3>1. [watched[i] EXCEPT !.at = "written"] \in TaskRow /\ [watched[i] EXCEPT !.at = "added"] \in TaskRow
          /\ [at |-> "failed", by |-> "nobody"] \in TaskRow
      BY <1>1 DEF TaskRow
    <3>2. \/ watched' = [watched EXCEPT ![i] = [watched[i] EXCEPT !.at = "written"]]
          \/ watched' = [watched EXCEPT ![i] = [watched[i] EXCEPT !.at = "added"]]
          \/ watched' = [watched EXCEPT ![i] = [at |-> "failed", by |-> "nobody"]]
      BY <1>1, <1>3 DEF WritesTask, AddsJob
    <3> QED BY <3>1, <3>2
  <2>2. UNCHANGED <<tab, logged, hidden, channel>> /\ watched[i].at \in {"asked", "written"}
    BY <1>3 DEF WritesTask, AddsJob
  <2>3. PageType' /\ Scheduled \subseteq Scheduled'
    BY <1>1, <1>2, <2>1, <2>2 DEF PageType, Scheduled
  <2> QED BY <2>2, <2>3, NoPage
<1>4. CASE Replies(i)
  <2> DEFINE done == [at |-> "scheduled", by |-> "nobody"]
  <2>1. /\ watched' = [watched EXCEPT ![i] = done] /\ UNCHANGED <<logged, hidden, channel>> /\ done \in TaskRow
        /\ IF watched[i].by \in Tabs
             THEN tab' = [tab EXCEPT ![watched[i].by] = [Asked(watched[i].by) EXCEPT !.made = @ \cup {i}]]
             ELSE tab' = tab
    BY <1>4 DEF Replies, TaskRow
  <2>2. watched' \in Seq(TaskRow) /\ Scheduled' = Scheduled \cup {i}
    <3> HIDE DEF done
    <3>1. watched' \in Seq(TaskRow) /\ DOMAIN watched' = DOMAIN watched
             /\ \A j \in DOMAIN watched : watched'[j] = IF j = i THEN done ELSE watched[j]
      BY <1>2, <2>1
    <3> QED BY <3>1 DEF done, Scheduled
  <2>3. CASE watched[i].by \notin Tabs
    <3>1. PageType' /\ Scheduled \subseteq Scheduled' /\ tab' = tab /\ hidden' = hidden
      BY <1>1, <2>1, <2>2, <2>3 DEF PageType
    <3> QED BY <3>1, NoPage
  <2>4. CASE watched[i].by \in Tabs
    <3>1. PICK t \in Tabs : t = watched[i].by
      BY <2>4
    <3> DEFINE p == [tab[t] EXCEPT !.made = @ \cup {i}]
               new == [Asked(t) EXCEPT !.made = @ \cup {i}]
    <3>2. tab' = [tab EXCEPT ![t] = new]
      BY <2>1, <3>1
    <3>3. tab[t] \in TabRow /\ tab[t].ignored \subseteq hidden /\ tab[t].made \subseteq Scheduled
      BY <1>1 DEF PageInv, TabGood
    <3>4. p \in TabRow /\ p.ignored \subseteq hidden /\ p.made \subseteq Scheduled'
      BY <1>1, <2>2, <3>3 DEF TabRow
    <3>5. [p EXCEPT !.asks = Append(@, Request)] = new
      BY <3>3 DEF Asked, TabRow
    <3>6. new \in TabRow /\ TabGood(new, hidden, Scheduled')
      <4> HIDE DEF p, new
      <4> QED BY <3>4, <3>5, AskingShowsAll
    <3>7. PageType'
      <4> HIDE DEF new
      <4>1. tab' \in [Tabs -> TabRow]
        BY <1>1, <3>2, <3>6
      <4> QED BY <1>1, <2>1, <2>2, <4>1 DEF PageType
    <3> HIDE DEF new
    <3>8. Scheduled \subseteq Scheduled' /\ hidden' = hidden
      BY <2>1, <2>2
    <3> QED BY <3>2, <3>6, <3>7, <3>8, OnePage
  <2> QED BY <2>3, <2>4
<1> QED BY <1>3, <1>4

\* Executions and the clean-up change nothing that a page has asked for.
LEMMA OthersKeep ==
  ASSUME PageInv, \/ \E h \in BOOLEAN : Executes(h)
                  \/ \E i \in DOMAIN logged : Tells(i)
                  \/ CleansUp \/ UNCHANGED assistantVars
  PROVE  PageInv'
<1>1. /\ hidden \in SUBSET Nat /\ logged \in Seq(LogRow) /\ tab \in [Tabs -> TabRow] /\ watched \in Seq(TaskRow)
      /\ channel \in [current : Nat, queue : Seq(Nat), past : Seq(Nat)]
      /\ channel.current \in Nat /\ channel.queue \in Seq(Nat) /\ channel.past \in Seq(Nat)
  BY DEF PageInv, PageType
<1>2. UNCHANGED <<watched, hidden, tab>>
  BY DEF Executes, Tells, CleansUp, assistantVars
<1>3. logged' \in Seq(LogRow) /\ channel' \in [current : Nat, queue : Seq(Nat), past : Seq(Nat)]
  <2>1. ASSUME NEW h \in BOOLEAN, Executes(h)
        PROVE  logged' \in Seq(LogRow) /\ channel' \in [current : Nat, queue : Seq(Nat), past : Seq(Nat)]
    <3>1. [hit |-> h, told |-> FALSE, to |-> {}] \in LogRow
      BY DEF LogRow
    <3> QED BY <1>1, <2>1, <3>1 DEF Executes
  <2>2. ASSUME NEW i \in DOMAIN logged, Tells(i)
        PROVE  logged' \in Seq(LogRow) /\ channel' \in [current : Nat, queue : Seq(Nat), past : Seq(Nat)]
    <3> DEFINE to == {t \in Tabs : tab[t].on # 0}
               c == channel.current
               q == [channel.queue EXCEPT ![c] = @ + 1]
               past == [channel.past EXCEPT ![c] = @ + 1]
    <3>1. logged' = [logged EXCEPT ![i].told = TRUE, ![i].to = to]
      BY <2>2 DEF Tells
    <3>2. logged' \in Seq(LogRow)
      <4>1. logged \in [1..Len(logged) -> LogRow] /\ Len(logged) \in Nat /\ to \in SUBSET Tabs
        BY <1>1
      <4> HIDE DEF to
      <4>2. logged' \in [1..Len(logged) -> LogRow]
        BY <3>1, <4>1 DEF LogRow
      <4> QED BY <4>1, <4>2
    <3>3. \A s \in Seq(Nat), n \in Nat : [s EXCEPT ![n] = @ + 1] \in Seq(Nat)
      <4> TAKE s \in Seq(Nat), n \in Nat
      <4> DEFINE new == s[n] + 1
      <4>1. n \in DOMAIN s => new \in Nat
        OBVIOUS
      <4> HIDE DEF new
      <4>2. [s EXCEPT ![n] = new] \in Seq(Nat)
        BY <4>1, QueuesStay
      <4> QED BY <4>2 DEF new
    <3>4. channel' \in [current : Nat, queue : Seq(Nat), past : Seq(Nat)]
      <4>1. channel' = channel \/ channel' = [channel EXCEPT !.queue = q, !.past = past]
        BY <1>1, <2>2 DEF Tells
      <4>2. q \in Seq(Nat) /\ past \in Seq(Nat)
        BY <1>1, <3>3
      <4> HIDE DEF q, past
      <4> QED BY <1>1, <4>1, <4>2
    <3> HIDE DEF to, c, q, past
    <3> QED BY <3>2, <3>4, Zenon
  <2>3. CASE CleansUp \/ UNCHANGED assistantVars
    <3>1. logged' = logged
      BY <2>3 DEF CleansUp, assistantVars
    <3>2. CASE CleansUp
      <4>1. channel' = [channel EXCEPT !.current = 0]
        BY <3>2 DEF CleansUp
      <4>2. [channel EXCEPT !.current = 0] \in [current : Nat, queue : Seq(Nat), past : Seq(Nat)]
        BY <1>1
      <4> QED BY <1>1, <3>1, <4>1, <4>2
    <3>3. CASE UNCHANGED assistantVars
      BY <1>1, <3>3 DEF assistantVars
    <3> QED BY <2>3, <3>2, <3>3
  <2> QED BY <2>1, <2>2, <2>3
<1>4. PageType' /\ Scheduled' = Scheduled
  BY <1>1, <1>2, <1>3 DEF PageType, Scheduled
<1> QED BY <1>2, <1>4, NoPage

\* The page, which never says what it was told but asks for everything again,
\* shows what its user did, whatever requests overlap with the acts and with one
\* another, for any number of pages, cards and tasks: the last request reads
\* after the last act or is followed by another. It needs that the answers of a
\* page arrive in the order of its requests.
THEOREM OwnActsStay == ASSUME ~Overtakes PROVE PageSafety => []OwnActsShow
<1>1. AssistantInit => PageInv
  <2> SUFFICES ASSUME AssistantInit PROVE PageInv
    OBVIOUS
  <2>1. NoTab \in TabRow /\ TabGood(NoTab, hidden, Scheduled)
    BY DEF NoTab, TabRow, TabGood
  <2>2. tab = [t \in Tabs |-> NoTab] /\ hidden = {} /\ watched = <<>> /\ logged = <<>>
        /\ channel = [current |-> 0, queue |-> <<>>, past |-> <<>>]
    BY DEF AssistantInit
  <2> QED BY <2>1, <2>2 DEF PageInv, PageType
<1>2. PageInv /\ [AssistantNext]_assistantVars => PageInv'
  <2> SUFFICES ASSUME PageInv, [AssistantNext]_assistantVars PROVE PageInv'
    OBVIOUS
  <2>1. CASE Serves
    BY <2>1, ReadsKeeps, ArrivesKeeps DEF Serves
  <2>2. CASE \/ Follows
             \/ \E t \in Tabs : OpensPage(t) \/ LeavesPage(t) \/ ComesToFront(t) \/ Breaks(t) \/ Says(t)
             \/ \E t \in Tabs : \E i \in tab[t].cards : Ignores(t, i)
    BY <2>2, VisitsKeep DEF Follows
  <2>3. CASE \/ Goes \/ CleansUp \/ UNCHANGED assistantVars
             \/ \E h \in BOOLEAN : Executes(h)
    BY <2>3, TasksKeep, OthersKeep DEF Goes
  <2> QED BY <2>1, <2>2, <2>3 DEF AssistantNext
<1>3. PageInv => OwnActsShow
  BY DEF PageInv, TabGood, OwnActsShow
<1> QED BY <1>1, <1>2, <1>3, PTL DEF PageSafety
=============================================================================
