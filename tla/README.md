# Formal models of ShoppingClaw

ShoppingClaw is a shopping assistant: a FastAPI server (one uvicorn process, one asyncio event
loop) over PostgreSQL and Redis, LangGraph agents that stream their work, and a Vue front end that
follows it over server-sent events. This directory holds TLA+ models of the parts of the program
whose correctness depends on the order of things: background tasks that write one row from several
places, event streams that a page joins late or loses, a scheduler under a distributed lock, turns
that end in half a dozen ways, tools that return in parallel, processes behind a pipe, two stores
that should agree, and pages that mix what they were pushed with what they read.

Paths below are relative to the repository.

- [Components](#components): what the system consists of
- [Modules](#modules): what is modelled, and how it maps to the code
- [Runs](#runs): what TLC checks, the bounds, the fairness
- [Findings](#findings): where the code does not do what it says
- [Proofs](#proofs): what TLAPS proves, for every value of the constants
- [Not modelled](#not-modelled) and [What is left](#what-is-left)

To check: `tlc -config chat_turns.cfg MCChat.tla` and so on (the table of runs names the module of
each configuration), `tlapm PlanningRunProofs.tla`, likewise for the other modules of proofs.
`PROJECT.json` maps every definition to the lines it translates, and lists components, runs,
hazards, theorems and, per property, a mistake in the code that the property would notice.


## Components

| Component | Code | State | Correct when | Modules |
|---|---|---|---|---|
| Planning runs | `src/services/planning_service.py`, `src/agents/independent/planning/`, `common_llm.py` | `planning_runs` and `planning_events` rows, background tasks, the pump's buffer | event numbers have no gap; a waiting run has its question; no run hangs; nothing found is lost; the documents agree | `PlanningRun`, `EventFeed`, `PlanProducts` |
| Planning event stream | `server/routers/planning_router.py`, `PurchaseWorkbenchView.vue` | a cursor per connection, `lastSeq` on the page | a page sees each event once, in order | `PlanningRun`, `EventFeed` |
| Scheduled tasks | `src/services/scheduler_service.py`, `server/routers/task_router.py` | `task_records`, `task_execution_logs`, jobs in memory, a Redis key per task | one execution per task at a time; logs and counts are true; active tasks fire | `TaskScheduler` |
| SSE sessions | `src/services/sse_session_manager.py` | per thread a history of 1000 events, a queue, `is_active` | a connection misses nothing and ends | `ChatTurns`, `AssistantPage` |
| Chat turns | `src/services/chat_stream_service.py`, `sse_adapter.py`, `orchestration_composer.py` | per turn its text, reasoning, cards and tasks | the end is told after the answer was saved; history and page tell the same | `ChatTurns`, `ChatStream` |
| Tool runtime and monitor | `src/agents/common/toolkits/runtime.py`, `registry.py`, `middleware/sse_monitor.py` | one `_runtime` per process with its sinks; one monitor per graph | a tool's events reach the turn that called it, and every start has its end | `ToolEvents`, `ToolCall` |
| Task executors | `src/services/task_executors/` | price snapshots, last ranks | what is worth a notice makes one | `Monitors` |
| Notifications | `src/services/notify_service.py`, `server/routers/events_router.py` | a capped list, a dismissed set and a told set per user | an end is told once; dismissed stays dismissed | `Notices` |
| Gift runs | `src/services/gift_service.py`, `src/agents/independent/gift/` | `gift_runs` row and events, `_pending`, `_pushed_profile` | as planning runs; the pushed profile is the stored one | `GiftRun`, `GiftProfile`, `GiftPicks` |
| Decision archive | `server/routers/decisions_router.py`, `archive_tools.py`, `DecisionLibraryView.vue` | `shopping_decisions`, the page's records, snapshot and timer | no write wipes out another | `DecisionArchive` |
| MCP service | `src/services/mcp_service.py`, `mcp_tool_adapter.py`, `user_scope.py` | rows, subprocesses, pipes, a cached list, the registry | one process per server; answers reach their request; tools run for their user | `McpStdio`, `ToolBelt` |
| Conversation store, memory bridge | `src/services/redis_store.py`, `memory_store.py`, `conversation_service.py`, `src/repositories/` | hashes and lists in Redis, rows in PostgreSQL | the stores agree | `ThreadStore` |
| Assistant | `src/services/assistant_service.py`, `AssistantView.vue` | cards from logs, dismissals | the page shows hits and its user's own acts | `AssistantPage` |
| Agent graph and tools | `src/agents/master_agent/`, `src/agents/common/` (base, llm, middleware) | messages, state files, unavailable models | turns end; calls are answered; work is kept | `AgentLoop`, `AgentTools` |
| Files and context of agents | `src/agents/common/backends/`, `filesystem.py`, `summarization.py`, `skills.py` | state files, three mounts, the context | what is found can be read; a cut parts no call from its answer | `AgentFiles`, `Summary` |
| Chat page | `AgentChatComponent.vue`, `useStreamSmoother.js` | messages, the entries that stream, the smoother's buffer | it shows what was stored, once, and ended | `ChatPage` |
| Prompts, other toolkits, intent, knowledge base, models, limiter, cache, auth, scripts | see [Not modelled](#not-modelled) | | | - |

How they interact. A planning page posts a request; `create_run` commits a row and starts
`advance` as a background task of the loop. `advance` consumes the agent's stream, patches the row
with whole-column updates (`_patch_run`) and appends events (`emit`), both in transactions of their
own that never raise; at the same time a DeltaPump task flushes streamed text through the same
`emit`. Pages do not talk to the task: `stream_events` polls the table. An answer patches the row
and starts the next `advance`. `_finish` hands the converged run to the notifications. Gift runs
repeat that design with tools in parallel. The scheduler is the other source of background work:
jobs of APScheduler, which live in memory only, and manual triggers start `_execute_with_lock`,
which serialises by a Redis key, executes (the executors ask the MCP servers for prices), and
notifies; the notices are a list in Redis and a push on an SSE session `notify:{uid}`, on which
the assistant page asks for its overview again. The chat side pushes instead of storing: a turn
creates a session in memory, compiles its agent with the tools it can get, `emit`s every chunk into
history and queue of the session, and saves its answer through the memory bridge to both stores;
pages that reload read the stored messages, replay the session and follow its queue.

What is hard here:

- **Read then write across an await.** `emit` (max(seq), then insert), `run_count` (read, then
  commit), `_seed_acc` (products read at the start of an advance, written at its end), the archive's
  `select` and `commit`.
- **Status before event.** Each terminal status is committed before its event; streams look at the
  status.
- **Who may run next.** `answer_question` has no status guard, triggers race timers, a second turn
  of a thread replaces its session, two threads find no MCP process.
- **Every exit counts.** Exceptions in a stream, in a continuation, in a `finally`; database and
  Redis errors that are swallowed; a client that leaves at a yield (`GeneratorExit` passes the
  handlers) or in an await (`CancelledError` does not); tools that time out in a thread.
- **Several copies of one thing.** Agent state and row, page and row, Redis and PostgreSQL, stream
  and history, a subagent's files and the conversation's.
- **Parallel tools.** Their results come in any order, their reports beside the stream.
- **Restart.** Jobs, sessions, caches, processes and background tasks are memory; rows, logs and
  locks are not.
- **Time.** 30 s lock, 600 s stream, 60 s queue timeouts, 5 min cache, hourly clean-up.

`PROJECT.json` lists these as hazards, each at its line, with the properties that watch it.


## Modules

| Module | What |
|---|---|
| `EventFeed` | What an event stream promises its readers: each page has seen a beginning of one sequence, which only grows |
| `PlanningRun` | One planning run: row, events, advance tasks, pumps, answers, delivery, pages |
| `PlanProducts` | What a planning run finds, drops and buys; its documents and graph |
| `GiftRun`, `GiftProfile` | One gift run: row, events, parallel tools, questions, the notice of its end; the log of operations that makes a profile |
| `GiftPicks` | Products of a gift run between the agent's state, the row and the sheets |
| `Notices` | The notices of a user |
| `Monitors` | The executors of the scheduled tasks, and what their results tell |
| `TaskScheduler` | Task rows, jobs, lock, executions, logs |
| `AssistantPage` | The assistant's page, its overview and its push channel |
| `ChatTurns` | Turns of the chat, their sessions, the connections that follow them |
| `ChatStream` | What becomes of a turn's texts, reasoning, cards and tasks on the page and in the history |
| `ChatPage` | The chat page between stream, replay and history |
| `ToolEvents`, `ToolCall` | Where the events of tool calls go; one call through the handler chain |
| `AgentLoop`, `AgentTools` | The compiled graph and its models; steps of parallel tools, subagents and their files |
| `AgentFiles`, `Summary` | Names and backends of the agent's files, skills; the cut of a context |
| `McpStdio`, `ToolBelt` | Processes and pipes of MCP servers; rows, list, cache and registry of their tools |
| `ThreadStore`, `DecisionArchive` | The two stores of conversations; the shopping archive |
| `…Proofs` (seven) | Theorems: `SchedulerProofs` about `TaskScheduler` and `AssistantPage`; `AgentProofs` about `AgentTools`, `AgentLoop`, `Summary` and `AgentFiles`; `McpProofs` about `ToolBelt` and `McpStdio`; `StoreProofs` about `ThreadStore`, `DecisionArchive`, `PlanProducts` and `GiftPicks`; `GiftRunProofs` about `GiftRun`, `Monitors` and `Notices`; `PlanningRunProofs` and `ChatTurnsProofs` about the module of their name |
| `FoldLemmas` | What these proofs cite of recursion and folds |
| `MCPlanning`, `MCScheduler`, `MCChat`, `MCTools`, `MCGift`, `MCServices`, `MCAgents` | Instances for TLC |

A step of a model is what the code does between two points at which something else can run: an
await that ends a transaction, a yield of a generator, a call into another process or thread. `A_m`
below the heading "Mistakes the code does not make" in a module is the action or operator `A` with a
plausible mistake; nothing refers to it, except that the mutants in `PROJECT.json` put it in the
place of `A`.

### PlanningRun

*Row.* `run` keeps the columns that control reads: `status`, whether there is a `question`, the
`products` (candidates and plan), the agent's `messages`, `delivered`. Products are abstracted to
the segments whose finds they hold and whether the plan names an item, which is what
`_has_decision` tests. *Events.* `log` holds rows in commit order with their `seq`; the many types
are four kinds: `question`, `deliverable`, `done`, and `work` for the rest. *Tasks.* A segment is one `advance`: the first
belongs to `create_run`, the others to answers. `pc` is its place in the code, `local` what it
carries (accumulated products, history, steps of the stream, continuations tried). `out` and `base`
are the emits a task has still to do and the max(seq) the current one has read: each task emits for
itself (`main`) and through its pump.

| Action | Code |
|---|---|
| `EmitRead`, `EmitInsert`, `EmitDrops` | `emit`: the queries; the insert; the limit and errors, which drop the event |
| `Answer`, `AnswerPatch` | `answer_question`: its event, the patch that clears the question and sets `running`, the new task |
| `Start`, `MarkRunning` | `advance` until its stream: `_seed_acc`, `_agent_input`, the status |
| `Token` | `DeltaPump.feed` and the drain task |
| `AgentStep`, `AgentAsks` | `_on_agent_step`: results that grow the products; a question, with `_persist_products` |
| `StreamEnds` | the end of the stream, with `DeltaPump.close` |
| `SaveHistory`, `Ask` | stop to ask: `_persist_history`, the patch to `awaiting`, the question event |
| `Retry`, `ContinueEnds`, `ContinueAsks`, `SaveHistoryLate` | `_continue_for_decision` and the loop around it |
| `SaveFinal`, `SaveFinalHistory`, `SaveProducts`, `Decide` | the end without a question |
| `Converge`, `Notify`, `FinishRaises` | `_finish` |
| `Raises`, `Fail` | the exception handlers of `advance` and `_finish` |
| `DeliverRead`, `DeliverCommit` | `mark_delivered` |
| `ReaderPoll`, `ReaderCheck`, `ReaderLast`, `ReaderTimeout` | `stream_events` |
| `ReaderBreaks`, `ReaderReopens` | `subscribe` and `onAnswer` of the page |
| `Crash` | the process ends and is restarted |

A page offers the question from its event on until an event takes its place (`QuestionShown`); with
`AnswersAnytime`, answers come at any time, from a second click or a stale tab.

Consecutive emits of one task without a patch between them are one event of the model. A failing
patch or emit is logged and forgotten in the code; `MaxFaults` bounds how many there are.

### TaskScheduler

`row`, `job`, `lock`, `log` and `exec` are the task rows, APScheduler's jobs, the Redis keys, the log rows and the executions. `creating` and `deleting` are the endpoints between their commit and
their call of the scheduler. A task's configuration is `good`, has a cron expression that does not
parse, or a type without an executor: `_add_job` raises for the last two.

| Action | Code |
|---|---|
| `Create`, `Register` | `create_task`, `add_task` |
| `Update` (with `JobAfter`) | `update_task`: the commit, then `pause_task` / `resume_task`, then `remove_task` and `add_task` |
| `Delete`, `Unschedule` | `delete_task` |
| `Trigger`, `Fire` | `trigger_now`; a job fires (`max_instances=1`) |
| `TakeLock` ... `Tell` | the stages 1 to 8 of `_execute_with_lock`, with every exit of its `try` and `finally` |
| `Expire` | Redis drops the key |
| `Restart` | the process restarts: `_reload_all` |

### ChatTurns

`table` is `_sessions` (a session is named by the turn that created it), `session` the session
objects: `events` in order of their id, the position `head` of the first one still in the queue,
`active`. A turn is in its stream, past it (`done`), in the handler of a cancellation (`stopping`)
or ended; `unsaved` says whether it has text that the history was not given yet. A page keeps the
positions it was sent (`got`) and where its replay began (`first`).

| Action | Code |
|---|---|
| `Begin` | `create_session` and the init chunk |
| `NoAgent`, `Chunk`, `Flush`, `SaveAnswer`, `Deactivate` | `stream_agent_chat` on its way |
| `Cancels`, `Interrupted`, `Reports`, `Dropped` | its other ends: cancelled, an exception, closed at a yield |
| `Stop`, `Clean` | the stop endpoint; `cleanup_inactive_sessions` |
| `Connect`, `Test`, `Take`, `Heartbeat`, `TimesOut`, `Leave` | `event_generator` |

Two details of the code that look like omissions of the model: the chunk `interrupted` that a
cancelled turn yields is one that `legacy_chunk_to_events` turns into no event, and the stop
endpoint does nothing but deactivate the session.

### ToolEvents

Each turn compiles a graph, and `get_graph` then configures the one runtime of the process with a
sink to this graph's monitor. `Compile`, `CallTool`, `ToolReturns`, `Drain` and `EndTurn` follow
the events of a tool from the runtime it was looked up in to the session they are sent to. A report
reaches this one sink only: in the asynchronous graphs `_chain_async_tool_call` nests the innermost
wrapper into itself, so the outer ones (the monitor's own, ContentGuard, ToolResultOffload) never run.


### PlanProducts

`acc` is what `advance` carries, `agent` what the tools see, `products` the row. A planning run
searches, drops and decides in steps of one product; names may coincide although ids do not.

| Action | Code |
|---|---|
| `Search`, `Drop`, `Decide`, `Ask` | `search_candidates`, `drop_candidates`, `make_decision`, `ask_user`, with `_on_agent_step` and `_merge_plan` |
| `Resume`, `Continue`, `Finish` | `answer_question` and `_agent_input`; `_continue_for_decision`; the end of `advance` |
| `PlanDoc`, `ReportDoc`, `CompareDoc`, `BudgetDoc`, `ListDoc`, `Graph` | the builders of the documents and `_sync_graph`, as operators on the row |

What the code does with corner cases shows in the guards of `DocsAgree`: a bought product that shares
its name with an excluded one disappears from the list of candidates, two picks of one category in
one decision keep the last, a decided category cannot be removed, and a category whose finds are mostly of
products that were bought, for whichever category, may have no place in the graph for its own (`Crowd`).

### GiftRun, GiftProfile, GiftPicks

The agent is an environment: in each step it calls tools, in parallel, whose results come back in any
order (`Calls`, `Result`). `pending` counts the calls per step of the page, as `_close_phase` does,
and `pushed` is the profile the page was told of.

| Action | Code |
|---|---|
| `Start`, `Calls`, `Result`, `StreamEnds`, `Reread`, `Converge` | `advance` with `_on_agent_step`, `_close_phase`, `_push_profile_delta`, `_persist_products` |
| `Stop`, `Ask`, `Answer` | a question: the row waits, then the page hears of it; `answer_question` |
| `Raises`, `Mark`, `Send`, `End` | the handler of exceptions; `notify_run_once` in its two writes; the done event |
| `Crash` | the process ends and is restarted |
| `SearchGifts`, `Screen`, `Compose`, `WriteNote`, `AskUser` (`GiftPicks`) | the tools on the agent's state, `_merge_lists` joins a step |
| `Supply`, `Deliverables` (`GiftPicks`) | `build_supply`, `_emit_deliverables_for` |

`GiftProfile` translates `fold_profile`, `write_profile` and the page's `handleEvent` as operators on
the log of operations, folded without recursion. Known and not claimed: a question asked with other
calls out leaves their `_pending` counts, so that step is never closed again; the first push takes
the page for empty, so a seed dropped before stays on it; `fold_profile` says that any order gives the
same profile, which holds for commuting operations only; a run that failed, was told, and converges
after an answer is not told again.

### Monitors, Notices

One task; `Check` is a run of its executor with what the search returned, `earlier` the snapshots that
`calc_trend` reads. The results are abstracted to what `from_task_result` tests. `Notices` has a
capped list, the dismissed and the told; `notify_run_once` is two writes, each of which can fail. A trend
is rounded to a tenth of a per cent before it is compared, so a price that falls by 4.95 % counts as one that
fell by 5 %: `IsDue` has that threshold, and the run has prices on both sides of it. Not
claimed: a failed task makes no notice, although `scheduler_service.py` says failures are told too
(`from_task_result` has nothing to say of `None`); the shop executor compares a missing coupon with
0 and raises; the parsed `min_discount` is not used; the rank memory is per keyword and product, for
all users, and lost on a restart.

### AssistantPage

| Action | Code |
|---|---|
| `OpensPage`, `LeavesPage`, `ComesToFront`, `Connects`, `Breaks` | `AssistantView.vue`: mount, visibility, the stream and its reconnects |
| `Asked`, `Reads`, `Arrives` | `initState`; the three reads of `get_overview`; its answer |
| `Executes`, `Tells`, `Pushes` | a log; `notify_service.emit`; the session's queue |
| `Says`, `WritesTask`, `AddsJob`, `Replies`, `Ignores` | a message that makes a task (`create_monitor_task`); dismissal |
| `CleansUp` | the hourly clean-up of sessions |

Known and not claimed: two tabs share one queue; `get_events_since(0)` leaves out event 0; answers of
overview requests that overtake each other leave older data (`Overtakes`); dismissing `log-N` does not
dismiss the notice `ev-…` on the home page; a hit between the first read and the first connection of a
user without a session is missed until the next read.

### ChatStream, ChatPage

`turn` is the agent, `wire` the chunks and reports that were not handled yet, `chat` the handler:
its buffers, the page, the store. `Says`, `Calls`, `Progress`, `Starts`, `Completes`, `ToolBegins`, `ToolEnds`
are the agent's steps, `Takes` handles a chunk with its whole cascade (`TaskCard`, `CallCard`,
`Adopted`, `Closed`), `ShowsReason`, `SavesReason`, `SavesProduct` the cards of products,
`StreamEnds`, `StreamStopped`, `StreamFails` the ends. `ChatPage` has the other end: `Sends`, `Reads`,
`tick`, `StreamIsOver`, `Stops`, `Selects`, `Reloads`, `resumeInProgressStream`, `syncThreadHistory`,
with a server that is one event ahead at most.

Known and not claimed: a lagging report gets a card of its own and its end goes to a task's row; two
parallel tasks whose first chunk has no arguments never get a slug; a turn without tools never stores
its reasoning; reports that a cancelled turn left are drained by the next one; a thread that is opened
in the middle of an answer, or asked again after a stop, shows doubled or missing texts until it is
opened the next time (`overtaken`): `resumeInProgressStream` keeps only user messages of the whole
history although its comment says of the current turn.

### ToolCall, AgentLoop, AgentTools

`ToolCall` is one call in `configure_runtime`'s chain: permission, life cycle, time limit and retries,
wrapping, execution; limiter, idempotency and watchdog let everything pass. A plain function runs in a
thread that a time limit cannot end (`Lands`).

`AgentLoop` derives nodes and edges from the list of middlewares with the functions of `factory.py`
(`EntryNode`, `ExitNode`, `JumpEdge`, ...) and runs turns over them: `Hook`, `CallsModel`,
`ModelAnswers`, `ModelRefuses` (quota; `Fallback`, `Marked`), `ModelRaises`, `RunsTools`, `Overruns`.
The hook of `thinking_process` sends every tool call to the tools, past the hook of
`ToolCallLimitMiddleware`: its limit of ten is never looked at.

`AgentTools` has the steps of parallel tools: `CallsTools`, `Tool`, `Joins` (`tool_node_wrapper`),
`Stops`, `Begin` (with `PatchToolCalls`). What a tool returns is a message, a Command or a Command with
files. Plain answers of a step in which another tool returned a Command are dropped (the `else: pass`
of `tool_node_wrapper`); the provider refuses the next request, and the next turn repairs the history.
Of several Commands only the last `files` survive; a subagent returns its whole copy. `CallsAnswered`
and `WorkKept` say what remains true.

### AgentFiles, Summary

Paths are sequences of names, files are lines of pieces, counted by their places (`Places`, `Size`); three graphs (master, subagent, planning) have
their own mounts. `ls`, `glob`, `grep` and `read_file` are operators that translate composite, state and
file system backends, `write_file`, `edit_file`, `_process_large_message` and `before_agent` actions.
Known and not claimed: `/skillsx` is searched in the route `/skills`; a glob outside of a route also
returns the routes' files; an offloaded line that fills the 80,000 characters of a page is cut, and cannot be read on; where the state
has a file of the name of a directory of other files, `glob` and `grep` of that name look at the file only.

`Summary` is `before_model` of the summarisation: offload long results, then cut. A placeholder whose
preview is itself over the threshold is offloaded again under the same name, which overwrites the
result; a subagent whose only human message is its task can lose it to the cut.

### McpStdio, ToolBelt

| Action of `McpStdio` | Code |
|---|---|
| `Ensure`, `Start`, `Handshake` | `_ensure_stdio_process` under its lock, `_spawn_stdio_process` |
| `Draw`, `Write`, `Read`, `ReadEnd`, `GivesUp` | `_call_stdio_tool`, `_get_stdio_tool_specs` under the I/O lock |
| `Replies`, `Strays`, `Dies` | the server process (external) |

`ToolBelt` follows a tool from the row of its server to the turn that holds it: `EditServer`,
`DeleteServer`, `Migrates`, `Loads`, `Merges`, `LoadFails`, `Fetches`, `Cached`, `AsksServer`, `ListEnds`,
`Adapts`, `Bound`. Time is the age of the cached list. Known and not claimed: a list that lacks one of two
servers is cached for five minutes, although the comment says that failures are not; an admin's edits
take effect after a restart; the registry never forgets a tool; tools of the second adaptation
(planning and gift runs) have no runtime wrapper; `readline` blocks, so MCP_CALL_TIMEOUT_S is not
enforced on a silent process.

### ThreadStore, DecisionArchive

`ThreadStore`: requests create, update, delete and write to threads; each is the calls of
`RedisStore` and of the repository, one step each, with the fallback to memory when Redis fails.
`DecisionArchive`: the page edits, waits 300 ms, and saves record by record (`TimerFires`, `Selects`,
`Commits`, `SaveAnswered`), while a tool of the agent loads a row and commits it (`ToolLoads`,
`ToolCommits`), another client sends a copy of the whole archive (`CopyLoads`, `SyncsCopy`), and records are
noted, deleted or reset (`SavesNew`, `NotesIdea`, `Removes`, `RowGoes`, `Removed`, `Resets`). Known and not
claimed: an edit made while the save of its record is under way is covered by the snapshot taken after the
answer (`overtook`); a record deleted while the loop is at an earlier one is created again; the page's save
overwrites what the agent wrote meanwhile; a failed save is not tried again before the next edit.


## Runs

| Configuration | Module | Question | Result |
|---|---|---|---|
| `planning_tasks` | `MCPlanning` | Two advance tasks at a time, answers at any time, pumps, a crash, a fault and a full table: do row and event table stay consistent? `TypeOK`, `SeqsDense`, `RunningHasTask` | holds |
| `planning_orderly` | `MCPlanning` | Segments one after the other, as the workbench drives them, with a page that breaks and reconnects: is the feed its reader's feed, is nothing lost, does every run end? `DeliveredHasPlan`, `FeedSpec`, `ProductsKept`, `Settles` | holds |
| `scheduler_runs` | `MCScheduler` | One task, two executions, every endpoint, one failure of any kind: `OneAtATime`, `CountsExact`, `RunningLogIsTrue`, `FinishedIsTold`, `ActiveHasJobUntilRestart`; or the assistant's page with overlapping reads, a broken stream, a clean-up: `OwnActsShow`, `HitsAreShown` | holds |
| `chat_turns` | `MCChat` | Two turns of one thread with every end, a page, the stop endpoint, the clean-up: `NothingSkipped`, `EndMeansSaved`, `OneStory`, `ConnectionsEnd` | holds |
| `pages` | `MCGift` | A gift run with parallel tools, a question, overlapping advances, a crash or a failing write: `ShownIsStored`, `ToldInTheEnd`, `GiftSettles`; or the chat page with two answers, a stop, another thread, a reload: `PageShowsAll` | holds |
| `services` | `MCServices` | Seven components, each by itself: `OneProcess`, `FailuresArePaid` (MCP pipe), `ListsAgree` (threads), `NoticesAreTrue` (monitors), `DecisionsStand`, `DocsAgree` (products), `ArchiveAgrees` (archive), `PicksAreKept` (gifts), `PageIsHistory` (a turn's stream) | holds |
| `agents` | `MCAgents` | Six parts of the agents, each by itself: `LoopServes`, `TurnsEnd` (turns with quotas and fallbacks), `EveryStartEnds` (a tool call in its chain), `BeltsAreTrue`, `ServersReturn` (tools of two MCP servers), `CallsAnswered`, `WorkKept` (parallel tools), `SummaryIsSafe` (context), `FilesAreFound` (files) | holds |
| `planning_missed` | `MCPlanning` | Is no event missed while text streams? `NoEventMissed` | violated |
| `scheduler_outlived` | `MCScheduler` | The scheduler with an executor that works for more than 30 s: `OneAtATime` | violated |
| `chat_tools` | `MCTools` | Does a turn carry its own tool events only? `ToolsAreOwn` | violated |
| `gift_resumed` | `MCServices` | Does the agent of an answered gift run still have what it found? `PoolSurvives` | violated |
| `page_unpushed` | `MCScheduler` | Does an assistant page that stays open for hours still show hits? `HitsAreShown` | violated |

Where a run has several components, a behaviour is one of a single component, chosen in the initial
state; the others stay as they are. They share no state in the program, or what they share is in the
module of its own. That keeps the number of runs small and each component's state space whole.

### Bounds

- *Planning.* Two segments are the smallest number at which tasks overlap or an answer meets a
  running task; the hazards are between pairs. `MaxSteps = 1`: one chunk per stream, which may find
  items, decide or ask; a second chunk repeats the first. `MaxRetries = 1` of 2: no continuation and
  a last one. `planning_tasks` has `MaxEvents = 3` so that the limit is met, in the middle of a segment;
  `planning_orderly` has more than it can use, and `MaxBatch = 2` of 500 so that batches are cut.
  `planning_tasks` has no page, as its properties are about tasks; pages write nothing but what they
  were sent. `planning_orderly` has no streamed text (`StreamsText = FALSE`): with it, `FeedSpec` is
  what `planning_missed` refutes.
- *Scheduler.* One task: tasks share nothing but the process. Two executions are needed for an
  overlap, a timer against a hand. One failure (restart, database error or Redis error) is met at
  each step of each execution. *Assistant page.* One tab, a feed of one card out of two logs (so that
  a newer card takes a place), two requests under way, one broken stream, one clean-up.
- *Chat.* Two turns on one thread: overlapping and successive turns, a replaced session, a
  connection that outlives its session. `MaxChunks = 1`, `MaxHistory = 2` of 1000: a turn with one
  chunk has three events, so the history is trimmed. *Stream.* `MaxTexts 1`, `MaxStreamCalls 3`,
  `MaxAtOnce 2`, `MaxParts 4`, `MaxLag 1`: parallel tasks beside a tool, with the agent one chunk ahead.
  *Chat page.* Two answers, one stream at a time, one change of thread, one reload.
- *Gift runs.* Three advances of which two may overlap, two steps with two tools each, one trouble;
  `MAX_EVENTS = 2`. *Picks.* Three steps of two tools, one answer, offers that share a name.
- *Services.* Two threads on one pipe, two processes, one death, one late answer; two threads of
  conversations with four requests, one failure; two archive records, three writes, one mishap, one saving
  loop (the theorem has any number); three days, two checks, prices on both sides of each threshold (0, 6600,
  9504, 10000); two rounds of products with two products of one name.
- *Agents.* Two turns, the asked model known, default or gone, a time to live of one tick, two outages;
  two servers, two users, one chat and one lookup, two events (edits, silences, database failures and
  restarts together); two steps of two tools; four model calls before and after a cut; two changes of files,
  with one name that is a directory of others, pages of three pieces and one line that fills a page.
- *Tools.* Two turns, one call each.

`CHECK_DEADLOCK FALSE` everywhere: all of these systems come to rest, because turns, segments,
requests and executions are used once.

### Fairness

Weak fairness stands for the one event loop, which goes on with every coroutine it holds: `Emit` and
`Advance` of each planning task, `Works` of a turn, `Follows` of a connection, `GoesOn` of a gift run's
advance, `GoesThrough` of a handler chain, `TurnStep` of a graph. Included in that: an agent's stream
ends and a request to a model returns (both have time limits), a tool ends. `TimesOut` is strongly fair:
a loop that comes to its test again and again does so once after `max_timeout`. `TimeGoes` and
`AskerGoes`: time passes, and who asks a server gets an answer or an error within MCP_CALL_TIMEOUT_S.
`Serves`, `Follows` and `Goes` of the assistant page: its requests are answered, it reconnects after at
most 30 s, an execution that has started ends. Nothing is assumed of users, failures and tools' choices:
answers, connections, triggers, stops, crashes and errors may or may not happen. `scheduler_runs`
assumes nothing of the scheduler, whose properties are all safety. `Settles` is checked without a crash
or a lost patch, since the code has no recovery from either.


## Findings

What a document or comment of the repository says and the code does not do; each is a run that ends
in a counterexample, quoted in `PROJECT.json`.

1. `planning_missed`. `planning_router.py:92-93` says that the cursor misses no event and
   `planning_service.py:226-227` that a run has one writer. One `advance` has two: its pump emits
   while it handles the agent's step. Both read the same max(seq), both insert it; a page that polled
   between the two has passed the second.
2. `scheduler_outlived`. `scheduler_service.py:6` and `:219` promise no repeated execution. The
   key lives 30 s, executors have no such limit, and the first execution deletes the key of the second.
3. `chat_tools`. `runtime.py:504` says that the runtime is configured once. Each turn does, and the
   tools of the turns before report to the last one.
4. `gift_resumed`. `gift_service.py:443-445` says that a continued run remembers its products. The
   state its agent starts from has the profile only.
5. `page_unpushed`. `AssistantView.vue:273-276` has its connection so that hits appear while the page
   is open. A session without an event for an hour is cleaned up under the page, which sees no error.

Smaller differences met while modelling, which no run is about, besides those named with the modules: the
planning status is committed before its done event, so that a stream in between closes without it
(`planning_service.py:1175`); a page that reconnects to a chat is replayed what its queue still holds;
pause, restart, resume leaves an active task without a job (`scheduler_service.py:163`); an update that
pauses a task and names a schedule adds its job again (`task_router.py:193`); a task that is deleted
between its commit and its registration leaves a job without a row (`task_router.py:105`); the stop
endpoint only deactivates the session (`chat_rounter.py:444`).


## Proofs

TLC shows the properties for two or three of everything. TLAPS proves the following for every value of
the constants: any number of segments, pages, tasks, executions, threads, turns, servers, processes,
requests, tools, products, records, files and notices, any limit, any number of crashes and errors, and any
interleaving. `…Safety` is the initial states and the steps of a component, without fairness.

| Theorem | Says | Argument |
|---|---|---|
| `PlanningRunProofs!TypeCorrect` | `Spec => []TypeOK` | inductive; one lemma for emits, one for the advance tasks (a step per action), one for pages, one for the crash |
| `PlanningRunProofs!SeqsAreDense` | `Spec => []SeqsDense` | not inductive alone: an insert writes `base + 1`, which was read earlier. `DenseInv` adds `BaseStored`, that what an emit has read is 0 or a stored seq. Rows are never deleted, so it stays one, and `base + 1` extends 1..top or repeats a number |
| `PlanningRunProofs!NothingReplayed` | `Spec => []CursorExact` | inductive with `TypeOK`: what is sent lies after the cursor, and the cursor moves to its largest seq |
| `PlanningRunProofs!WaitingIsForAnAnswer` | `Spec => []AwaitingHasQuestion` | inductive: `awaiting` is written only together with a question, and a question is cleared only together with `running`, in one patch that happens or does not |
| `PlanningRunProofs!NoOrphanRun` | `Spec => []RunningHasTask` | inductive: who writes `running` is at, or goes to, a control point ahead of a final patch; who leaves these points writes another status |
| `PlanningRunProofs!DeliveredRunsHavePlans`, `!ProductsAreKept` | `Spec => []DeliveredHasPlan`, `Spec => ProductsKept`, assuming `AnswersAnytime = FALSE`, `MaxFaults = 0` | `OrderInv`: one task works at a time, on what the row has; what it carries has all that the row has; converged and delivered runs have a plan |
| `PlanningRunProofs!FeedIsKept` | `Spec => FeedSpec`: the run implements `EventFeed`, assuming `AnswersAnytime = FALSE`, `StreamsText = FALSE`, `MaxFaults = 0` | step simulation under `FeedInv`: row *i* has number *i*, a cursor stands for all rows before it, one task emits at a time, and while a question is the last event nobody has more to write. An insert is an `Append` of the feed, a poll a delivery, all else stutters |
| `SchedulerProofs!TypeCorrect` | `Spec => []TypeOK` | inductive, with a lemma on the sum of the failures |
| `SchedulerProofs!OneExecutionAtATime` | `Spec => []OneAtATime`, assuming `LockOutlived = FALSE` | `LockInv`: while Redis has answered every call, an execution between lock and unlock implies that the key exists, and there is one such execution. The key goes by the unlock of its one holder, or by expiry when nobody holds it |
| `SchedulerProofs!JobsFollowRows` | `Spec => []ActiveHasJobUntilRestart` | `JobInv`: until the first restart, every task whose creation is complete and that can be scheduled has a job, which is paused only if the task is; and only deleted tasks are unscheduled |
| `SchedulerProofs!LogsAreClosed`, `!ResultsAreTold` | `Spec => []RunningLogIsTrue`, `Spec => []FinishedIsTold` | `BookInv`: what the log of an execution says is what its control point implies |
| `SchedulerProofs!CountsAreExact` | `Spec => []CountsExact`, assuming `LockOutlived = FALSE` and finitely many executions | `CountInv`: a task's count against the number of its finished executions; who will write it has read what it is now, because of the lock |
| `SchedulerProofs!OwnActsStay` | `PageSafety => []OwnActsShow`, assuming `Overtakes = FALSE` | `PageInv`: the last request of a page will show all that its user did, by how far it is (`Sees`: the dismissals before it reads the feed, its cards after that, the tasks once it has read them); without a request, what the page shows does. Who acts asks again, and answers do not overtake each other, so the last is the one that counts |
| `ChatTurnsProofs!TypeCorrect` | `Spec => []TypeOK` | inductive; `TurnActs` sorts every step of a turn into silent ones, pieces of text and ends, and the other proofs work with these three |
| `ChatTurnsProofs!SessionsTellOneStory` | `Spec => []OneStory` | `StoryInv`: a running turn finds its own session or none in the table, and the turn of a session with an end emits no more |
| `ChatTurnsProofs!EndIsToldAfterSave` | `Spec => []EndMeansSaved` | `SavedInv`: text is unsaved only after a chunk, and a turn whose end is in some session has none and makes none. Holds also for turns that overlap |
| `ChatTurnsProofs!ReplayJoinsQueue` | `Spec => []NothingSkipped`, assuming one page | `CursorInv`: what was taken off the queue lies before the replay of the connected page or went to it; no connection is on a session that is still to be created |
| `AgentProofs!HistoryIsAnswered` | `AgentSpec => []CallsAnswered` | `AnswersInv`: while the tools of a step run, its calls are the only other ones without an answer |
| `AgentProofs!FilesKeepWork` | `AgentSpec => []WorkKept` | `KeepInv`: the work told of is in the files now, in those saved with the step and in every copy that a call of the step will return, or is in another result of the step |
| `AgentProofs!LoopKeepsServing` | `LoopSafety => []LoopServes` | The order of nodes and wrappers is computed from the list of middlewares by folds, which `RealWrappers` and its lemmas evaluate: the request has gone through the four wrappers once. `LoopInv`: a second attempt is at the default model, and so is the only one of a turn that asked for it; what is sent is the whole request |
| `AgentProofs!ContextStaysWhole` | `SummarySafety => []SummaryIsSafe` | `SumInv` adds to `PairsKept` that nothing but results lies between a call and its results and that no call is answered twice. An offload changes sizes only; the cut goes back to the message of the calls. The fold that looks for the cut stays within the context |
| `AgentProofs!FilesStayFound` | `FilesSafety => []FilesAreFound` | `FilesInv`: the state's files lie below no mount, on the disk none lies below another, and what was told of and the skills stand where they should (`Stands`). The rest is of operators: the names of a mount are put together and taken apart again (`JoinIs`, `SplitIs`, `KeyIs`, `MatchesIs`), a listed directory has content (`DirsHave`), the pieces of a text are counted by their places, and the pages of lines that are shorter than a page show all of them (`LineIsShown`, `PagesShowAll`) |
| `McpProofs!BeltTypeCorrect` | `[]TypeOK` | inductive |
| `McpProofs!BeltsStayTrue` | `[]BeltsAreTrue` | `BeltInv`: a known list in the cache is not empty, who has no tool of a server has asked, and who runs is bound to its user with every tool that takes one wrapped; wrapped tools stay wrapped |
| `McpProofs!OneProcessAtATime` | `[]OneProcess` | `OneInv`: a live process is the current one, or the last one started, by who holds the start lock while there is no current one |
| `McpProofs!FailuresStayPaid` | `[]FailuresArePaid` | `PaidInv` is a potential: twice the failures that were not late, plus the backlog of lines in the pipes and the lines the talker has read in vain, is at most the stray lines. An exchange that gives up leaves one line and has read three |
| `StoreProofs!StoresAgree` | `[]ListsAgree` | `StoreInv` tells the story of each thread by itself: not made, being made by one request, or settled, where every list that still shows what another no longer does has a deletion under way that goes on to it |
| `StoreProofs!ArchiveStaysTrue` | `[]ArchiveAgrees` | `KeptInv`: the page sends only what its user changed, and never an empty record. `QuietInv`: while nothing failed, overtook or interfered, a record of the user's alone is in the table as its snapshot says, what differs from the snapshot is timed or on its way, and what a request knows of its row stays true; of two loops that insert one record, the second is answered by the first. `PhaseInv`: numbers of writes are fresh |
| `StoreProofs!DecisionsLast` | `PlanSafety => []DecisionsStand` | `PlanInv`: while the run is on, its lists are those of `acc`, and the plan is `acc`'s, else the row's. `MergeIs` and the lemmas on folds carry one merge to a decision of several |
| `StoreProofs!DocumentsAgree` | `PlanSafety => []DocsAgree` | `RowInv`: what was excluded was found, what was bought is the first find of its product, there is one of a category, and the total is the sum. Then each document by itself, as a set of ids; the places of a category in the graph go to the finds of bought products first, so there is one for each unless they are more than the places |
| `StoreProofs!PicksStay` | `GiftSafety => []PicksAreKept` | Products are counted (`Num`), as the order of returns differs. `Totals`: the service has counted what was found; `FirstRound`: it is ahead of the agent by what is back of the step; `NamesKnown`: it knows the name of whatever the agent can put into a gift |
| `GiftRunProofs!EndIsToldOnce` | `Spec => []ToldInTheEnd` | `AdvanceEdges` reduces all steps of an advance to five kinds as far as the notice goes. `OnceInv`: one advance at most is between the two writes of `notify_run_once`, and none once the notice is in. `TellInv`: a run with something to tell was told, or an advance comes to tell it |
| `GiftRunProofs!NoticesStayTrue` | `MonitorsSafety => []NoticesAreTrue` | `FindsInv`: the snapshots are the finds so far, place by place, and the last rank is that of the last find. So what an executor compares with is what `IsDue` speaks of: `TrendFalls` for the rounded trend, and a lemma per executor. `InboxInv`: the list has the newest first; `recent`'s fold takes of each beginning of it the open notices up to the limit (`Taken`) |

`FoldLemmas` has what those proofs cite of recursion. The provers know a recursive function, and so a fold,
only as a choice; the lemmas say that what is chosen exists (`RecursionExists`, `FoldExists`, from the smallest
number for which it would not) and what a fold is on each beginning of its sequence (`FoldSteps`, `FoldStays`,
`FoldReaches`).

Assumptions: those named in the modules (`FirstAssumption`, `BoundsAssumption`, `SwitchAssumption`,
`TasksAssumption`, `ThreadsAssumption`, `AgentAssumption`, `LoopAssumption`, `FilesAssumption`,
`BeltAssumption`, `McpAssumption`, `ThreadAssumption`, `ArchiveAssumption`, `GoodsAssumption`,
`DrawnAssumption`, `ShelvesAssumption`, `MonitorsAssumption`, `NoticesAssumption`), which TLC evaluates in
the runs, and what the table names. Most say of what type a constant is. `FilesAssumption` also says that the
mounts have files, none below another, as on a disk, and that none of the names that the mounts are made of
is another one that goes on.
Without `LockOutlived = FALSE`, `scheduler_outlived` is the counterexample; with streamed text,
`planning_missed` is; two pages of a chat would take events from each other; an answer that overtakes a
later one leaves older data on the assistant's page. `AnswersAnytime = FALSE` is the
workbench's use: a page answers the question it shows, once.

The proofs had their say on the models:

- The attempt at `FailuresStayPaid` met a slip of precedence in the guard of `McpStdio!Read` that let an
  exchange give up more often than the bound says.
- The attempt at `FeedIsKept` met states in which a page answered a question that had been answered while
  its next segment was about to ask again; TLC confirmed it with three segments, and `QuestionShown` now
  says what the page shows.
- `DocsAgree` said that the graph draws every product of the plan. It does not where the finds of products
  that were bought, for another category too, are more than the places of a category (`Crowd`).
- `IsDue` said 5 %, where the rounding of the trend makes it 4.95 %.
- `DiskGrep` had two cases that overlapped, of which TLC took the first; they are disjoint now.
- Two statements of `FilesAreFound` were wrong beyond the first instance: `glob` and `grep` of a name that
  is also a file of the state look at this file only, and a line that exactly fills a page loses its end.
  TLC confirmed both, and the instance has both cases now.

Only model-checked:

- Liveness, which is beyond the prover: `Settles`, `HitsAreShown`, `ConnectionsEnd`, `GiftSettles`,
  `TurnsEnd`, `EveryStartEnds`, `ServersReturn`.
- Three invariants, for the reasons below: `PageShowsAll`, `PageIsHistory`, `ShownIsStored`.

## Not modelled

- *Planning*: deletion of a run, the texts; the cut of the agent's history to 60 messages
  (`planning_service.py:819`, which may part a call from its answer); runs interact in nothing.
- *Scheduler*: `next_run_at`, a column for display; the endpoints that read. The monitor tasks that
  `set_reminder` creates.
- *Sessions*: two connections to one chat session at a time. They compete for its one queue, each event
  reaches one of them; nothing in the code or the page says what should happen. A request without a
  `thread_id`, whose session and turn get different ids (the page always sends one).
- *Chat*: titles, state snapshots, the order of bubbles, product cards beside the chat, `deleteChat`.
- *Gift runs*: revising and deleting a run, narration. The race of two emits for a number and streamed
  text are `PlanningRun`'s.
- *Conversations*: titles, pins, attachments, the `/sessions` endpoints, which touch PostgreSQL only.
- *MCP*: `test_server`, which blocks the event loop and leaves its process.
- *Rate limiter*: `check_rate_limit` takes the answer of EXPIRE for the number of requests, and refuses
  nothing. `cache_decorator`, `HistoryManager`, `create_subagent_from_config`, the store and memory
  backends are used nowhere.
- *Models*: `ModelConfigManager` uses names it does not import, so every endpoint of `models_router`
  fails. Knowledge base, intent classifier, authentication, audit: calls of external services or
  functions without state. Prompts: the agent's choices are nondeterministic in every module.
- Most views of the front end, scripts, data, docker.


## What is left

Every part of the plan is modelled, and 30 of the 40 properties of the passing runs are theorems. Of what is
only model-checked, the seven liveness properties are out of the prover's reach. The three invariants are not:

1. `PageShowsAll` and `PageIsHistory` compare what was streamed with what is stored, two lists made in
   different order by nested folds and `SelectSeq`.
2. `ShownIsStored` needs the deltas of one log, folded by the page, to give the row that the service made by
   applying them one by one.
