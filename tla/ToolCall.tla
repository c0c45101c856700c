------------------------------ MODULE ToolCall ------------------------------
(***************************************************************************)
(* One call of one tool through the chain of handlers that                 *)
(* configure_runtime builds: permission, life cycle, time limit and        *)
(* retries, wrapping of the result, execution. Three handlers of the chain *)
(* let every call pass as it is: the limiter's _check returns True, the    *)
(* idempotency store finds and keeps nothing, no tool is registered with   *)
(* the execution mode of the watchdog.                                     *)
(*                                                                         *)
(* A plain function runs in a thread, which a time limit cannot end: it    *)
(* goes on beside the next attempt.                                        *)
(***************************************************************************)
EXTENDS Integers, Sequences

CONSTANTS
  MaxRetries,  \* max_retries of the tool
  InThread,    \* the tools that are plain functions, not coroutines
  Tools        \* the tools

VARIABLES
  tool,    \* the tool that is called
  step,    \* where the call is
  tried,   \* its executions, the last one last
  result,  \* the status that it returned
  events   \* what the life cycle told its sinks

toolVars == <<tool, step, tried, result, events>>

ToolInit == tool \in Tools /\ step = "called" /\ tried = <<>> /\ result = "none" /\ events = <<>>

Attempt == Len(tried)
Working == step = "attempt" /\ tried[Attempt] = "working"
EventOf(status) == IF status = "success" THEN "tool_complete" ELSE "tool_error"
-----------------------------------------------------------------------------
(* Mistakes the code does not make.                                         *)

\* An exception that is not listed as retryable leaves the chain.
Raises_Through(retryable, late) ==
  /\ Working /\ tried' = [tried EXCEPT ![Attempt] = "raised"]
  /\ IF retryable /\ Attempt <= MaxRetries
     THEN step' = "execute" /\ UNCHANGED <<result, events>>
     ELSE step' = "over" /\ result' = "error" /\ UNCHANGED events
  /\ UNCHANGED tool
-----------------------------------------------------------------------------
\* PermissionHandler and the first half of LifecycleHandler. Whoever calls has no
\* permission, as execute is given no caller.
Enter(required) ==
  /\ step = "called"
  /\ IF required
     THEN step' = "over" /\ result' = "forbidden" /\ UNCHANGED events
     ELSE step' = "execute" /\ events' = Append(events, "tool_start") /\ UNCHANGED result
  /\ UNCHANGED <<tool, tried>>

\* ExecuteHandler, inside wait_for.
Execute ==
  /\ step = "execute" /\ step' = "attempt" /\ tried' = Append(tried, "working")
  /\ UNCHANGED <<tool, result, events>>

\* The second half of LifecycleHandler.
Ends(status) ==
  /\ step' = "over" /\ result' = status
  /\ events' = Append(events, EventOf(status))

\* ResultWrapHandler: a value becomes a success; a ToolResult is kept as it is.
Returns(status) ==
  /\ Working /\ tried' = [tried EXCEPT ![Attempt] = "returned"]
  /\ Ends(status)
  /\ UNCHANGED tool

\* What TimeoutRetryHandler does with an attempt that gave no result.
Again(retry, status) ==
  IF retry /\ Attempt <= MaxRetries
  THEN step' = "execute" /\ UNCHANGED <<result, events>>
  ELSE Ends(status)

\* Of the last error only the text is left: one that speaks of a time limit is
\* reported as a timeout.
Raises(retryable, late) ==
  /\ Working /\ tried' = [tried EXCEPT ![Attempt] = "raised"]
  /\ Again(retryable, IF late THEN "timeout" ELSE "error")
  /\ UNCHANGED tool

\* The time limit: a coroutine is cancelled, a thread goes on by itself.
TimesOut ==
  /\ Working
  /\ tried' = [tried EXCEPT ![Attempt] = IF tool \in InThread THEN "adrift" ELSE "cancelled"]
  /\ Again(TRUE, "timeout")
  /\ UNCHANGED tool

\* A thread whose attempt was given up comes to its end: nobody reads it.
Lands(i) ==
  /\ i \in 1..Attempt /\ tried[i] = "adrift"
  /\ tried' = [tried EXCEPT ![i] = "landed"]
  /\ UNCHANGED <<tool, step, result, events>>

\* The turn is cancelled: no handler catches that.
Cancelled ==
  /\ step \in {"called", "execute", "attempt"} /\ step' = "cancelled"
  /\ tried' = IF ~Working THEN tried
              ELSE [tried EXCEPT ![Attempt] = IF tool \in InThread THEN "adrift" ELSE "cancelled"]
  /\ UNCHANGED <<tool, result, events>>

\* What the event loop sees to: the next step, or the end of the time limit.
GoesThrough == Enter(FALSE) \/ Execute \/ TimesOut

ToolNext ==
  \/ Enter(TRUE) \/ GoesThrough \/ Cancelled
  \/ \E status \in {"success", "error"} : Returns(status)
  \/ \E retryable, late \in BOOLEAN : Raises(retryable, late)
  \/ \E i \in 1..Attempt : Lands(i)

\* Who was told that a tool starts is told once how it ended, with the status that
\* the agent gets, whatever the tool does: it returns, raises, or its thread
\* never comes back. Only a turn that is cancelled leaves it open. (A start that was
\* told stays told.)
EveryStartEnds ==
  []<>(events # <<>> => step = "cancelled" \/ (result # "none" /\ events = <<"tool_start", EventOf(result)>>))
=============================================================================
