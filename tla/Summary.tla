------------------------------- MODULE Summary -------------------------------
(***************************************************************************)
(* The context of a subagent and SummaryOffloadMiddleware, which makes     *)
(* room in it before the model is called: long results of tools go to      *)
(* files, and if that is not enough, the older messages become a summary.  *)
(* Sizes are token counts. What the summary says is left out: it is one    *)
(* message of the user.                                                    *)
(***************************************************************************)
EXTENDS Integers, Sequences, FiniteSets, SequencesExt

CONSTANTS
  Results,      \* what tools return: its size, and that of its placeholder
  Trigger,      \* ("tokens", 50000)
  Retention,    \* max_retention_ratio of it
  Threshold,    \* summary_offload_threshold
  MaxModelCalls, MaxToolCalls

VARIABLES
  context,    \* the messages
  evicted,    \* files: the results of offloaded messages, by the message
  asks,       \* how often the model was called
  atModel     \* the step before the model is next

summaryVars == <<context, evicted, asks, atModel>>

Tokens(msgs) == FoldLeft(LAMBDA n, msg : n + msg.size, 0, msgs)
IsTool(msg) == msg.kind = "tool"
Human == [kind |-> "human", size |-> 1]
Ai(n, calls) == [kind |-> "ai", calls |-> {<<n, c>> : c \in 1..calls}, size |-> 1]
ToolMessage(call, r) == [kind |-> "tool", call |-> call, result |-> r, size |-> r.full, times |-> 0]

SummaryInit ==
  context = <<Human>> /\ evicted = <<>> /\ asks = 0 /\ atModel = TRUE

\* The placeholder takes the place of what the message has, and what it has
\* goes to the file of the message, whatever that is and whatever was there.
\* The second time the preview is mostly that of the first placeholder.
_offload_tool_result(msg) ==
  IF ~IsTool(msg) \/ msg.size <= Threshold THEN msg
  ELSE [msg EXCEPT !.times = @ + 1, !.size = IF msg.times = 0 THEN msg.result.ref ELSE 1]
_offload_tool_results(msgs) == [i \in DOMAIN msgs |-> _offload_tool_result(msgs[i])]
FilesUpdate(msgs) ==
  LET long == {i \in DOMAIN msgs : _offload_tool_result(msgs[i]) # msgs[i]} IN
  [call \in {msgs[i].call : i \in long} |->
     LET i == CHOOSE j \in long : msgs[j].call = call IN
     IF msgs[i].times = 0 THEN "result" ELSE "placeholder"]

\* A mutant: the cut is where the tokens say.
_find_safe_cutoff_point_Any(msgs, cut) == cut

\* Cuts are numbers of messages before them. One within the results of a
\* message's calls moves before that message.
_find_safe_cutoff_point(msgs, cut) ==
  IF cut >= Len(msgs) \/ ~IsTool(msgs[cut + 1]) THEN cut
  ELSE LET after == {j \in cut..Len(msgs) : \A k \in (cut + 1)..j : IsTool(msgs[k])}
           ids == {msgs[j].call : j \in after \ {cut}}
           callers == {i \in 1..cut : msgs[i].kind = "ai" /\ msgs[i].calls \cap ids # {}} IN
       IF callers = {} THEN Max(after) ELSE Max(callers) - 1

\* The number of powers of two up to n.
BitLength(n) == Cardinality({2^k : k \in 0..n} \cap (1..n))
_find_cutoff_by_token_limit(msgs, limit) ==
  LET halve(s, i) ==
        LET mid == (s.left + s.right) \div 2 IN
        CASE s.left >= s.right -> s
          [] s.left < s.right /\ Tokens(SubSeq(msgs, mid + 1, Len(msgs))) <= limit ->
               [s EXCEPT !.found = mid, !.right = mid]
          [] OTHER -> [s EXCEPT !.left = mid + 1]
      end == FoldLeft(halve, [left |-> 0, right |-> Len(msgs), found |-> Len(msgs)],
                      [i \in 1..(BitLength(Len(msgs)) + 1) |-> i]) IN
  IF Tokens(msgs) <= limit THEN 0
  ELSE _find_safe_cutoff_point(msgs, IF end.found = Len(msgs) THEN end.left ELSE end.found)

\* The files of the agent, with an update of some of them (_file_data_reducer).
WithFiles(update) ==
  [call \in DOMAIN update \cup DOMAIN evicted |-> IF call \in DOMAIN update THEN update[call] ELSE evicted[call]]

\* A mutant: a summary forgets the files of what is left after it.
before_model_NoFiles ==
  LET offloaded == _offload_tool_results(context)
      cut == _find_cutoff_by_token_limit(offloaded, Retention) IN
  /\ atModel /\ atModel' = FALSE
  /\ IF Tokens(context) < Trigger THEN UNCHANGED <<context, evicted>>
     ELSE IF Tokens(offloaded) <= Retention \/ cut = 0
     THEN context' = offloaded /\ evicted' = WithFiles(FilesUpdate(context))
     ELSE context' = <<Human>> \o SubSeq(offloaded, cut + 1, Len(offloaded)) /\ UNCHANGED evicted
  /\ UNCHANGED asks

before_model ==
  LET offloaded == _offload_tool_results(context)
      cut == _find_cutoff_by_token_limit(offloaded, Retention) IN
  /\ atModel /\ atModel' = FALSE
  /\ IF Tokens(context) < Trigger THEN UNCHANGED <<context, evicted>>
     ELSE /\ evicted' = WithFiles(FilesUpdate(context))
          /\ context' = IF Tokens(offloaded) <= Retention \/ cut = 0 THEN offloaded
                        ELSE <<Human>> \o SubSeq(offloaded, cut + 1, Len(offloaded))
  /\ UNCHANGED asks

\* The model calls tools, and they return.
ToolsReturn ==
  /\ ~atModel /\ asks < MaxModelCalls
  /\ asks' = asks + 1 /\ atModel' = TRUE
  /\ \E n \in 1..MaxToolCalls : \E r \in [1..n -> Results] :
       context' = Append(context, Ai(asks + 1, n)) \o [c \in 1..n |-> ToolMessage(<<asks + 1, c>>, r[c])]
  /\ UNCHANGED evicted
SummaryNext == before_model \/ ToolsReturn

\* The model is called with every result after the call it answers, and with
\* the results of every call: no provider takes anything else. The cut is
\* looked for by tokens, which know nothing of calls.
PairsKept ==
  ~atModel =>
    \A i \in DOMAIN context :
      /\ IsTool(context[i]) => \E j \in 1..(i - 1) :
           context[j].kind = "ai" /\ context[i].call \in context[j].calls
      /\ context[i].kind = "ai" => \A c \in context[i].calls : \E j \in (i + 1)..Len(context) :
           IsTool(context[j]) /\ context[j].call = c

\* A placeholder that says where the whole result can be read says the truth:
\* the file is there, and has the result. Not claimed of a message that was
\* offloaded twice, as its placeholder was still long: the file has the first
\* placeholder then.
OffloadedIsReadable ==
  \A i \in DOMAIN context :
    IsTool(context[i]) /\ context[i].times = 1 =>
      context[i].call \in DOMAIN evicted /\ evicted[context[i].call] = "result"

\* Both: what the model gets after a summary or an offload is whole.
SummaryIsSafe == PairsKept /\ OffloadedIsReadable
=============================================================================
