---------------------------- MODULE TaskScheduler ----------------------------
(***************************************************************************)
(* The scheduled tasks: their rows in PostgreSQL, written by task_router;  *)
(* the jobs of APScheduler, which live in the memory of the one server     *)
(* process; and the executions that a job or a manual trigger starts under *)
(* a Redis lock with a time to live (scheduler_service).                   *)
(*                                                                         *)
(* An execution is used once: its log row keeps its number.                *)
(***************************************************************************)
EXTENDS Integers, FiniteSets

CONSTANTS
  Tasks,
  Runs,          \* bound: the executions there may be
  LockOutlived,  \* whether an executor may work longer than the lock's 30 s
  MaxFailures    \* bound: restarts, database errors and Redis errors together

ASSUME TasksAssumption == Tasks # {}
ASSUME SwitchAssumption == LockOutlived \in BOOLEAN
ASSUME BoundsAssumption == MaxFailures \in Nat

VARIABLES
  row,      \* the task_records row of each task
  creating, \* per task, what create_task has committed and will register
  deleting, \* the tasks that delete_task will take off the scheduler
  job,      \* the job of each task in APScheduler
  lock,     \* whether the lock key of each task exists
  exec,     \* the executions
  log,      \* the task_execution_logs row of each execution
  told,     \* the executions whose result was sent to the user
  crashes,  \* restarts of the process,
  faults,   \* database errors,
  outages   \* and calls of Redis that failed, so far

vars == <<row, creating, deleting, job, lock, exec, log, told, crashes, faults, outages>>

\* What _add_job makes of the task's configuration: a job, or a ValueError for
\* its cron expression or for its task_type.
Sched == {"good", "badCron", "badType"}
Row == [status : {"none", "active", "paused", "deleted"}, sched : Sched, count : Nat]
Outcome == {"success", "failed", "cancelled"}
NoCount == -1
InLock == {"log", "read", "run", "close", "stats", "count", "unlock"}
Execution == [task : Tasks, by : {"timer", "hand"}, outcome : Outcome, n : Nat \cup {NoCount},
              pc : {"idle", "lock", "notify", "ended"} \cup InLock]

Exists(t) == row[t].status \in {"active", "paused"}
InFlight(e) == exec[e].pc \notin {"idle", "ended"}
Holders(t) == {e \in Runs : exec[e].task = t /\ exec[e].pc \in InLock}
At(e, l) == exec[e].pc = l
Goto(e, l) == exec' = [exec EXCEPT ![e].pc = l]
MayFail == crashes + faults + outages < MaxFailures
Fault == MayFail /\ faults' = faults + 1
Outage == MayFail /\ outages' = outages + 1
\* An exception that leaves _execute_with_lock: the lock stays.
Dies(e) == Fault /\ Goto(e, "ended")

Init ==
  /\ row = [t \in Tasks |-> [status |-> "none", sched |-> "good", count |-> 0]]
  /\ creating = [t \in Tasks |-> "no"] /\ deleting = {}
  /\ job = [t \in Tasks |-> "none"]
  /\ lock = [t \in Tasks |-> FALSE]
  /\ exec = [e \in Runs |-> [task |-> CHOOSE t \in Tasks : TRUE, by |-> "timer",
                              outcome |-> "success", n |-> NoCount, pc |-> "idle"]]
  /\ log = [e \in Runs |-> "none"]
  /\ told = {} /\ crashes = 0 /\ faults = 0 /\ outages = 0
-----------------------------------------------------------------------------
(* Mistakes the code does not make: A_m is what the operator A below would  *)
(* be with one of them. Only the runs that test the properties use them.    *)

\* resume_task leaves the job as it is.
JobAfter_NoResume(t, status, sched) ==
  LET moved == IF status = "paused" /\ job[t] = "scheduled" THEN "paused" ELSE job[t] IN
  IF sched = "keep" THEN moved
  ELSE IF row'[t].sched = "good" THEN "scheduled" ELSE "none"

\* The key is set without nx.
TakeLock_Overwrites(e) ==
  /\ At(e, "lock")
  /\ Goto(e, "log") /\ lock' = [lock EXCEPT ![exec[e].task] = TRUE]
  /\ UNCHANGED <<row, creating, deleting, job, log, told, crashes, faults, outages>>

\* A cancelled execution returns without its clean-up.
ReadTask_Returns(e) ==
  /\ At(e, "read")
  /\ IF row[exec[e].task].status = "active" THEN Goto(e, "run") ELSE Goto(e, "ended")
  /\ UNCHANGED <<row, creating, deleting, job, lock, log, told, crashes, faults, outages>>

\* The count is written from the task as it was read before the executor ran.
StatsRead_Skipped(e) ==
  /\ At(e, "stats") /\ Goto(e, "unlock")
  /\ UNCHANGED <<row, creating, deleting, job, lock, log, told, crashes, faults, outages>>

\* Nothing is told of a task that was paused while it ran.
Tell_ActiveOnly(e) ==
  /\ At(e, "notify") /\ Goto(e, "ended")
  /\ told' = IF exec[e].outcome = "success" /\ row[exec[e].task].status = "active"
               THEN told \cup {e} ELSE told
  /\ UNCHANGED <<row, creating, deleting, job, lock, log, crashes, faults, outages>>
-----------------------------------------------------------------------------
(* task_router. Between two of its awaits the process may die or another    *)
(* coroutine run; a commit and the call into APScheduler that follows it    *)
(* without an await are one action.                                         *)

Create(t, s) ==
  /\ row[t].status = "none"
  /\ row' = [row EXCEPT ![t] = [status |-> "active", sched |-> s, count |-> 0]]
  /\ creating' = [creating EXCEPT ![t] = s]
  /\ UNCHANGED <<deleting, job, lock, exec, log, told, crashes, faults, outages>>

\* add_task, with the task as it was created: the row of a task that cannot be
\* scheduled stays.
Register(t) ==
  /\ creating[t] \in Sched /\ creating' = [creating EXCEPT ![t] = "no"]
  /\ job' = IF creating[t] = "good" THEN [job EXCEPT ![t] = "scheduled"] ELSE job
  /\ UNCHANGED <<row, deleting, lock, exec, log, told, crashes, faults, outages>>

\* pause_task and resume_task, which ignore that there is no job, then
\* remove_task and add_task if the update names a schedule.
JobAfter(t, status, sched) ==
  LET moved == CASE status = "paused" /\ job[t] = "scheduled" -> "paused"
                 [] status = "active" /\ job[t] = "paused" -> "scheduled"
                 [] OTHER -> job[t] IN
  IF sched = "keep" THEN moved
  ELSE IF row'[t].sched = "good" THEN "scheduled" ELSE "none"

Update(t, status, sched) ==
  /\ Exists(t)
  /\ row' = [row EXCEPT ![t].status = IF status = "keep" THEN @ ELSE status,
                        ![t].sched = IF sched = "keep" \/ @ = "badType" THEN @ ELSE sched]
  /\ job' = [job EXCEPT ![t] = JobAfter(t, status, sched)]
  /\ UNCHANGED <<creating, deleting, lock, exec, log, told, crashes, faults, outages>>

Delete(t) ==
  /\ Exists(t)
  /\ row' = [row EXCEPT ![t].status = "deleted"]
  /\ deleting' = deleting \cup {t}
  /\ UNCHANGED <<creating, job, lock, exec, log, told, crashes, faults, outages>>

Unschedule(t) ==
  /\ t \in deleting /\ deleting' = deleting \ {t}
  /\ job' = [job EXCEPT ![t] = "none"]
  /\ UNCHANGED <<row, creating, lock, exec, log, told, crashes, faults, outages>>

Starts(e, t, by) ==
  /\ At(e, "idle")
  /\ exec' = [exec EXCEPT ![e].task = t, ![e].by = by, ![e].pc = "lock"]
  /\ UNCHANGED <<row, creating, deleting, job, lock, log, told, crashes, faults, outages>>

\* trigger_task and trigger_now.
Trigger(e, t) == Exists(t) /\ row[t].sched # "badType" /\ Starts(e, t, "hand")

\* The trigger of a job fires; max_instances is 1.
Fire(e, t) ==
  /\ job[t] = "scheduled"
  /\ \A f \in Runs : exec[f].task = t /\ exec[f].by = "timer" => ~InFlight(f)
  /\ Starts(e, t, "timer")
-----------------------------------------------------------------------------
(* _execute_with_lock.                                                      *)

\* set nx ex: the lock is taken, or it exists and the execution is skipped; or
\* Redis fails and the execution goes on without a lock.
TakeLock(e) ==
  /\ At(e, "lock")
  /\ \/ /\ ~lock[exec[e].task] /\ lock' = [lock EXCEPT ![exec[e].task] = TRUE]
        /\ Goto(e, "log") /\ UNCHANGED outages
     \/ lock[exec[e].task] /\ Goto(e, "ended") /\ UNCHANGED <<lock, outages>>
     \/ Outage /\ Goto(e, "log") /\ UNCHANGED lock
  /\ UNCHANGED <<row, creating, deleting, job, log, told, crashes, faults>>

OpenLog(e) ==
  /\ At(e, "log")
  /\ \/ Goto(e, "read") /\ log' = [log EXCEPT ![e] = "running"] /\ UNCHANGED faults
     \/ Dies(e) /\ UNCHANGED log
  /\ UNCHANGED <<row, creating, deleting, job, lock, told, crashes, outages>>

\* The task is read again: one that was paused or deleted is not executed.
ReadTask(e) ==
  /\ At(e, "read")
  /\ \/ /\ row[exec[e].task].status = "active"
        /\ Goto(e, "run") /\ UNCHANGED faults
     \/ /\ row[exec[e].task].status # "active"
        /\ exec' = [exec EXCEPT ![e].pc = "close", ![e].outcome = "cancelled"]
        /\ UNCHANGED faults
     \/ Fault /\ exec' = [exec EXCEPT ![e].pc = "close", ![e].outcome = "failed"]
  /\ UNCHANGED <<row, creating, deleting, job, lock, log, told, crashes, outages>>

\* The executor returns or raises.
RunTask(e) ==
  /\ At(e, "run")
  /\ \E o \in {"success", "failed"} : exec' = [exec EXCEPT ![e].pc = "close", ![e].outcome = o]
  /\ UNCHANGED <<row, creating, deleting, job, lock, log, told, crashes, faults, outages>>

CloseLog(e) ==
  /\ At(e, "close")
  /\ \/ Goto(e, "stats") /\ log' = [log EXCEPT ![e] = exec[e].outcome] /\ UNCHANGED faults
     \/ Dies(e) /\ UNCHANGED log
  /\ UNCHANGED <<row, creating, deleting, job, lock, told, crashes, outages>>

StatsRead(e) ==
  LET t == exec[e].task IN
  /\ At(e, "stats")
  /\ \/ /\ exec' = IF Exists(t) THEN [exec EXCEPT ![e].pc = "count", ![e].n = row[t].count]
                               ELSE [exec EXCEPT ![e].pc = "unlock"]
        /\ UNCHANGED faults
     \/ Dies(e)
  /\ UNCHANGED <<row, creating, deleting, job, lock, log, told, crashes, outages>>

\* The update of a row that is gone by now raises.
StatsCommit(e) ==
  LET t == exec[e].task IN
  /\ At(e, "count")
  /\ \/ /\ Exists(t) /\ row' = [row EXCEPT ![t].count = exec[e].n + 1]
        /\ Goto(e, "unlock") /\ UNCHANGED faults
     \/ ~Exists(t) /\ Goto(e, "ended") /\ UNCHANGED <<row, faults>>
     \/ Dies(e) /\ UNCHANGED row
  /\ UNCHANGED <<creating, deleting, job, lock, log, told, crashes, outages>>

\* The key is deleted, whoever set it.
Unlock(e) ==
  /\ At(e, "unlock") /\ Goto(e, "notify")
  /\ \/ lock' = [lock EXCEPT ![exec[e].task] = FALSE] /\ UNCHANGED outages
     \/ Outage /\ UNCHANGED lock
  /\ UNCHANGED <<row, creating, deleting, job, log, told, crashes, faults>>

\* _persist_next_run, whose column nothing here reads, then emit with what
\* from_task_result makes of the result. It makes nothing of None, the result of
\* an executor that raised.
Tell(e) ==
  /\ At(e, "notify") /\ Goto(e, "ended")
  /\ told' = IF exec[e].n # NoCount /\ exec[e].outcome = "success" THEN told \cup {e} ELSE told
  /\ UNCHANGED <<row, creating, deleting, job, lock, log, crashes, faults, outages>>

Step(e) ==
  \/ TakeLock(e) \/ OpenLog(e) \/ ReadTask(e) \/ RunTask(e) \/ CloseLog(e)
  \/ StatsRead(e) \/ StatsCommit(e) \/ Unlock(e) \/ Tell(e)

\* Redis drops the key. Unless executors outlive the lock, only a key whose
\* execution is gone lives that long.
Expire(t) ==
  /\ lock[t] /\ (LockOutlived \/ Holders(t) = {})
  /\ lock' = [lock EXCEPT ![t] = FALSE]
  /\ UNCHANGED <<row, creating, deleting, job, exec, log, told, crashes, faults, outages>>

\* The process ends and is started again: _reload_all adds the jobs of the
\* active tasks.
Restart ==
  /\ MayFail /\ crashes' = crashes + 1
  /\ creating' = [t \in Tasks |-> "no"] /\ deleting' = {}
  /\ job' = [t \in Tasks |-> IF row[t].status = "active" /\ row[t].sched = "good"
                               THEN "scheduled" ELSE "none"]
  /\ exec' = [e \in Runs |-> [exec[e] EXCEPT !.pc = IF @ = "idle" THEN @ ELSE "ended"]]
  /\ UNCHANGED <<row, lock, log, told, faults, outages>>

Next ==
  \/ \E t \in Tasks :
       \/ \E s \in Sched : Create(t, s)
       \/ \E status \in {"keep", "active", "paused"}, sched \in {"keep", "good", "badCron"} :
            Update(t, status, sched)
       \/ Register(t) \/ Delete(t) \/ Unschedule(t) \/ Expire(t)
       \/ \E e \in Runs : Trigger(e, t) \/ Fire(e, t)
  \/ \E e \in Runs : Step(e)
  \/ Restart

Spec == Init /\ [][Next]_vars
-----------------------------------------------------------------------------
TypeOK ==
  /\ row \in [Tasks -> Row]
  /\ creating \in [Tasks -> {"no"} \cup Sched] /\ deleting \subseteq Tasks
  /\ job \in [Tasks -> {"none", "scheduled", "paused"}]
  /\ lock \in [Tasks -> BOOLEAN]
  /\ exec \in [Runs -> Execution]
  /\ log \in [Runs -> {"none", "running"} \cup Outcome]
  /\ told \subseteq Runs
  /\ {crashes, faults, outages} \subseteq Nat /\ crashes + faults + outages <= MaxFailures

\* "a distributed lock in Redis against repeated execution" (the header of
\* scheduler_service): no task has two executions under its lock, whether a
\* timer or a user starts them, as long as Redis answers.
OneAtATime == outages = 0 => \A t \in Tasks : \A e, f \in Holders(t) : e = f

\* run_count is read, then written, in two transactions of each execution; yet
\* the count of a task is the number of its finished runs, and never more,
\* for the lock orders them.
CountsExact ==
  outages = 0 => \A t \in Tasks : Exists(t) =>
    LET finished == {e \in Runs : exec[e].task = t /\ log[e] \in Outcome
                                    /\ exec[e].pc \in {"unlock", "notify", "ended"}} IN
    /\ row[t].count <= Cardinality(finished)
    /\ crashes = 0 /\ faults = 0 => row[t].count = Cardinality(finished)

\* The clean-up of an execution closes its log on every path: a log that says
\* "running" belongs to an execution in flight, unless the process or the
\* database failed.
RunningLogIsTrue ==
  crashes = 0 /\ faults = 0 => \A e \in Runs : log[e] = "running" => InFlight(e)

Reported(outcome) ==
  crashes = 0 /\ faults = 0 =>
    \A e \in Runs : At(e, "ended") /\ log[e] = outcome /\ Exists(exec[e].task) => e \in told

\* The result of every run that worked goes through from_task_result and emit,
\* if the task exists and neither process nor database failed; whatever was
\* paused or resumed while it ran.
FinishedIsTold == Reported("success")

\* Every active task that can be scheduled has a job that will fire.
ActiveHasJob ==
  \A t \in Tasks : row[t].status = "active" /\ row[t].sched = "good" /\ creating[t] = "no"
                    => job[t] = "scheduled"

\* That holds as long as the process lives, whatever the order of updates.
ActiveHasJobUntilRestart == crashes = 0 => ActiveHasJob
=============================================================================
