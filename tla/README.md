# A verification development for exgentic

exgentic evaluates agents on benchmarks.  A *run* is a benchmark, an agent and
a list of tasks; each task becomes a *session* with a directory of its own; in
a session an agent instance and a benchmark session exchange actions and
observations until one of them ends it.  Runs may be repeated, resumed after a
crash, and worked on by several processes at once, and what they share is the
file system.  Around this core stand the runners that host agents and
benchmarks in threads, processes and containers, the environments these are
installed in, the observers that write what happened, and the batch commands
and the dashboard that start runs.

The modules here are written from the Python code under `src/exgentic/`;
`PROJECT.json` gives, for each definition, the lines it was translated from.

Contents: [1 Inventory](#1-inventory) · [2 Modules](#2-modules) ·
[3 Runs](#3-runs) · [4 Fairness](#4-fairness) ·
[5 What is proved](#5-what-is-proved) ·
[6 Where code and docs part](#6-where-the-code-does-other-than-one-might-expect) ·
[7 Not modelled](#7-not-modelled)

## 1. Inventory

| Component | State it keeps | Operations | Interacts with |
|---|---|---|---|
| **Session claim** (`core/orchestrator/execution.py`, `core/types/session.py`) | session directory, `session.lock`, `results.json` | `_run_task_with_lock`, `SessionStatus.from_config`, reuse, cleanup | every other process and thread, through the files; the session loop inside the lock |
| **Session loop** (`core/orchestrator/session.py`, `controller.py`, `tracker.py`, `termination.py`) | last observation, counters of the `LimitController`, exception in flight | `run_session_config`, `run_session`, controllers, except clauses | agent and benchmark (calls that return or raise), tracker (callbacks) |
| **Results recording** (`observers/handlers/results.py`, `session_ledger.py`) | step counts, list of session results, the JSON files | observer callbacks, `_write_run_results` | called by the tracker; its files are what the session claim reads |
| **Run executor** (`core/orchestrator/run.py`, `execution.py`, `core/types/run.py`) | plan, futures, the tracker's final state | `core_execute`, `core_evaluate`, `core_aggregate` | a pool of session claims; scans of all directories |
| **Batch evaluation and commands** (`core/orchestrator/run.py`, `interfaces/cli/commands/batch.py`, `interfaces/lib/api.py`) | config files, one pool for several of them, session directories by name, the published dataset | `core_batch_evaluate`, evaluate, execute, aggregate, prepare, patch, publish | session directories, the run's `results.json` |
| **Agent coordinator** (`adapters/agents/coordinator.py`, `code_agent.py`, `mcp_agent.py`) | pending actions, turn counter, current observation, closed flag | `react`, `execute`, `_submit_finish_action`, `close`, the agent thread | environment thread, agent thread, tool threads on one condition variable |
| **Runners and transports** (`adapters/runners/`) | request and response queues, worker thread, process, server or container | `with_runner`, `call`, `get`, `set`, `close` | any object hosted elsewhere |
| **Container reaper** (`utils/container_reaper.py`) | labels with the owner's PID | reaping at start, at exit, on a signal | docker runner |
| **Environment manager** (`environment/`) | environment directories, `.installed`, install lock | `install`, `uninstall`, venv, docker and local backends | other processes that install the same; runners that start services |
| **Context and tracing** (`core/context.py`, `observers/handlers/otel.py`, `utils/otel.py`, `integrations/litellm/trace_logger.py`) | context variable, process-wide fallback, `runtime.json`, span stacks, `otel_spans.jsonl` | enter and leave a session, span begin and end, the callbacks of an LLM call | session threads, services, LiteLLM's callback threads |
| **Console, log file and recap** (`observers/handlers/logger.py`, `file_logger.py`) | progress bars, end reasons, `tracker.log` | observer callbacks | threads of parallel sessions, the main thread |
| **Dashboard** (`interfaces/dashboard/`, `observers/handlers/dashboard_events.py`) | worker threads, a bounded event queue, the page's view | start, refresh, history | the run, the files it writes |
| **Tool-calling agent and action types** (`agents/litellm_tool_calling/`, `core/actions.py`, `integrations/litellm/health.py`) | conversation, tool calls without an answer | health check, completion, actions from calls, messages from observations | the model, the benchmark's handler |
| **Agents' services** (`agents/cli/`, `agents/openai/`, `adapters/agents/mcp_server.py`, `integrations/litellm/proxy.py`, `utils/sync.py`) | server thread and socket, proxy process, CLI process or container, a coroutine | start, use, close | coordinator, session thread |
| **Proxy executor** (`adapters/executors/proxy.py`) | two queues, one staging slot | `step`, `close`, stage, pair, unstage | a foreign driver |
| **Caches, settings, cost, paths, logging**; **benchmarks**; **other commands** | | keys and files, numbers, formatting, wrappers, tables | |

Where the behaviour is hard, and what makes each part correct:

* *Session claim.*  Status is read before the lock is taken; the probe of a
  lock takes it; removing a directory unlinks the lock file inside; results are
  written in place; any step may be the last one before a crash.  Correct
  means: a finished session is executed again only for a reason, no session is
  lost between invocations that step aside for each other, and a crash leaves
  something a later run can finish.
* *Session loop.*  Every call may raise, also inside an except clause.
  Correct means: limits hold, a session is recorded once and with the outcome
  it had, and what was opened is closed.
* *Coordinator.*  Three kinds of threads, an accumulation window, a crash of
  the agent and `close()` at any moment.  Correct means: no action is lost,
  duplicated or reordered, `None` means the agent is done, a tool call gets the
  observation of its own action, and everyone gets out.
* *Run executor.*  Failures, cancellation and Ctrl-C while futures are in
  flight, other processes on the same directories.  Correct means: the
  observers hear of the end once, success means nothing was lost, only
  completed sessions are scored.
* *Runners.*  Two queues without a lock around a call, hosts that die between
  a liveness test and an answer, ports found free and bound later.  Correct
  means: an answer goes to the call that asked, every call ends, and a host is
  reaped.
* *Environment manager.*  Several installers, a removal that takes no lock, a
  marker file rewritten in place, two renames that publish a venv.  Correct
  means: one build, a complete one, and a failure keeps what there was.
* *Batch.*  One pool for several config files, names that collide, a patch that
  dies half way.  Correct means: no session is forgotten, no result is lost.
* *Tracing, observers, dashboard.*  Callbacks of concurrent sessions on shared,
  mostly unlocked state.  Correct means: what is written belongs to the session
  it is written for, is complete, and all views agree.
* *Agents.*  Services that start while the session is being closed; models that
  answer anything.  Correct means: nothing outlives its session, services are
  there as long as they are used, and the conversation stays well-formed.

`PROJECT.json` lists each hazard at its line, with the properties that cover it
or the reason why none does.

## 2. Modules

| Module | What it is |
|---|---|
| `SessionSlot` | abstract specification: a slot that one worker at a time executes and that keeps its settled outcome |
| `SessionClaim`, `MCSessionClaim`, `RunProofs` | the session directory, one step per file system operation; implements `SessionSlot` when used serially |
| `ObserverProtocol` | abstract specification: the life cycle of callbacks an observer may rely on |
| `SessionLoop`, `SessionProofs` | one session, one step per call; implements `ObserverProtocol` |
| `Coordinator`, `SessionProofs` | the coordinator's monitor and its threads; its names differ from those of `SessionLoop` so that one module proves about both |
| `RunExecutor`, `MCRunExecutor`, `RunProofs` | one run over several sessions; its names differ from those of `SessionClaim` so that one module proves about both |
| `RemoteObject`, `RemoteObjectProofs` | an object behind any of the six runners, with its callers, its host's death and the reaper |
| `Environment`, `EnvironmentProofs` | one environment directory, its lock and marker, installers and removers |
| `Batch`, `MCBatch`, `BatchProofs` | the batch commands over the config files of one run directory |
| `Tracing`, `MCTracing`, `TracingProofs` | which session a span, a row and a timing are recorded for |
| `Observers`, `ObserversProofs` | results, log file and console over parallel sessions; the proofs of this module and of `Dashboard` |
| `Dashboard`, `MCDashboard` | worker threads, event queue, page and history; its names differ from those of `Observers` so that one module, `ObserversProofs`, proves about both |
| `ToolCalling` | health check, conversation and action handling of the tool-calling agent |
| `AgentServices` | processes, threads and sockets of an agent, and who ends them |
| `Agents`, `AgentsProofs` | the composition of the two: the agents of the package |

How they compose.  `SessionClaim` takes the loop as one run with an outcome;
`SessionLoop` says what a run does and that it ends; `RunExecutor` takes a task
as claim and end, which is what those two say of it, and `Batch` a
configuration as plan, pool and aggregation, which is what `RunExecutor` says
of it.  `ObserverProtocol` is what `Observers`, `Tracing` and `Dashboard` take
as the callbacks of a session.  `AgentServices` has the coordinator as open or
closed; its turns are `Coordinator`'s.

A definition commented *Variant* is not part of any specification: it is the
definition below it with a plausible bug, and is used to see that the
properties notice.

### SessionClaim

`dir`, `lockFile` and `results` are the files; `results` is `"partial"` while
`ResultsObserver._record_session` writes it.  An actor is a worker inside
`_run_task_with_lock` or a reader that only asks for a status.  `flock[a]` is
`"orphan"` when the lock the actor holds is on a file that has been unlinked:
such a lock excludes nobody, which is what `flock` on an inode does.  The steps
follow the code: `Enter` (mkdir), `Stat`, `Probe`, `Unprobe`, `Read`
(`SessionStatus.from_config`), `Acquire` or `Skip`, `Refresh` (RUNNING samples
only), `Reuse`, `RefuseReuse` or `Cleanup`, `Configure`, `OpenResults`, `WriteResults`,
`Release`; `Fail` is an exception of the session, `Crash` the death of the
process.  A partial write is one that a reader can see or a crash can leave.
Creating and locking the lock file is one call of filelock and one step.
Results that parse but do not validate are `"invalid"`: their status is that of
a finished session, and `CanReuse` refuses them (`execution.py:62-64`).
`RefuseReuse` is the except clause of `_try_reuse_completed`, which any observer
may run into: the session is then executed in place, as it is when its
directory need not be removed.
`fresh` is a history variable: the invocations that began on settled results
which have not changed since; `doubt` is one too: why an invocation may run a
finished session after all, because its results were refused, or because its
sample was RUNNING and was refreshed by the function that takes `limit_reached`
for incomplete.  `SessionSlot` knows the first as `Refuse`, a step of the worker
that says so before it executes, and `Withdraw`, its death in between.

### SessionLoop

`pc` is the next call; an except clause is a `plan`, the sequence of calls it
makes, carried out one by one, so that each may raise.  `HandlerPlan` is the
table of except clauses of `run_session`.  `Raise` is a jump into a clause,
`Escape` an exception that leaves `run_session`; the nested finally clauses of
`run_session_config` are `CloseBenchmark` and `CloseAgentFactory`.
`Limited = TRUE` is the tracker with its defaults, `FALSE` the one a batch
makes.  The benchmark and the agent are the environment: what their calls
return or raise is chosen freely, from the values the code tells apart.  The
user's controllers may raise, as may any callback of theirs.  A score is what
`_resolve_session_status` looks at: success, finished, the limit mark and the
source of an error, which the benchmark may name itself
(`bfcl_eval.py:403-413`).  `Record` has two ends: the call that records
(`RecordError`, `RecordScored`) asks agent and session for their costs and
writes files (`results.py:243-277`), any of which may raise before or after the
result is appended; the exception leaves `run_session`, whose other except
clauses do not cover it.  `reported` is the history variable for "the recording call
returned".  The console's own exception is in `Observers`.

### Coordinator

A method under the condition variable is atomic up to its next wait; `asleep`
is the set of threads in `wait()`, emptied by `notify_all`.  `react()` is
`React`, then `ReactWakes` and `WindowEnds` where it waits; `execute()` is
`Execute` and `Returns`; the agent thread is `AgentStarts` to `AgentEnds`, with
`ExecuteNone` (the finally clause of `CodeAgentInstance.run`) and `RecordCrash`
(the except clause of `_run_internal_agent`) as the separate critical sections
they are.  An observation is represented by the actions it answers, which is
what rewiring and selection of observations keep track of; `passed` and
`alone` are history variables.

### RunExecutor

A session task is picked up by a thread of the pool (`PickUp`), claims its
directory and ends (`StartSession`, `EndSession`): it reuses, skips, or runs and
then ends with a result, a cancellation or a failure.  Between the pick-up and
the start its future can no longer be cancelled, which is why `CancelFutures`
leaves the picked-up ones alone.  `ReuseRefused` is the except clause of
`_try_reuse_completed`: the session goes on to its execution, and the observers
before the one that raised, the `ResultsObserver` possibly among them, keep what
they were told; `refused` remembers it.  `LoadReused` reports the results of the
plan's reused sessions that load and validate; the others are left out without a
word (`execution.py:377-379`), and `LoadFails` is an observer that raises there.
`work` is the future of each task, `doneSet` what `wait()` returned and the loop
has not consumed.  `invalid` are the sessions whose results do not validate.
A serial run is the case of one worker.  `OtherTakes` and `OtherEnds` are other processes on the same run;
they do not overwrite completed sessions.  A scan of all session directories is
one step.

### RemoteObject

`kind` is the runner.  A call through the queues is `put` and `get`, two steps
without a lock in between (`thread.py`, `process.py`), so that `resps` may
hand an answer to another caller; the HTTP runners serve several requests at
once (`serving`).  `worker` is the host: it boots, may fail to, serves, is asked
to stop, and may die at any step.  `taken` is the port that another service
bound between `find_free_port()` and the server's own bind.  `closing` follows
`ObjectProxy.close()` through remote close, shutdown and join, and on to the
death of the owner (`"killed"`) and the reuse of its PID (`"replaced"`), which
is what the reaper looks at.  Values are left out; an answer belongs to a
request, and an outcome is a value, an AttributeError (which the proxy treats
apart) or another exception, which may be one that cannot be rebuilt.

### Environment

One environment directory: the marker with the version of each type, torn
while it is rewritten in place, the lock file in the directory itself, the
scratch and trash directories of a venv build.  `InstallStep` follows
`EnvironmentManager.install`: check, lock, check again, unmark, build, mark;
the venv build fills a scratch directory, moves the old venv aside and
publishes the new one (`VenvFill`, `PublishAside`, `PublishVenv`); when the
second rename fails `Restore` moves the old venv back, or fails at that too, and
`DropVenv` is then the finally clause that deletes it.  `UninstallStep` follows `uninstall`, which takes no
lock; `blemished` is the history variable for "uninstall() overlapped with
something", and the properties are conditional on its absence: removing an
environment while it is being installed is not protected by the code.

### Batch

The commands run one at a time over `file` (the config files), `dir` (the
session directories by *name*, since patch is about names) and `dataset`.
A config is abstracted to a model, the copy of the model that normalisation
keeps in `agent_kwargs`, and one more parameter, which is the least that
distinguishes what patch does to ids.  `evaluate` plans all files, runs one
pool of futures (`Claim`, `Finish`, `Skip`), joins it and aggregates per file;
`patch` rewrites the config files, `run/config.json` and the session configs,
each one a step, then renames directories one by one.  A legacy session, which
has no config of its own, steps aside when its name is taken (`DupName`), and
the rename raises when that name is taken too; `Recover` raises on any taken
name, except that a directory that was just made and is still empty is
replaced, which is what `rename(2)` does.  Whatever raises does so after the id
in `results.json` has been changed (`Retold`).  `Interrupt` is Ctrl-C, `Crash`
the death of any command at any step: a config under the pen is torn
(`TornFiles`, `TornRun`, `TornSessions`), and results whose id is being changed
are changed already or lost (`DeathAt`).  `Init` has what earlier runs leave
behind: nothing, sessions with and without a config, and a patch that died with
a session set aside (`LeftAside`).

### Tracing

Each read of the context is a step (`WriteRow`, `InitOtel`, `ReadSession`,
`EmitSpan`, `RecordTiming`), since an LLM call's callback runs in a thread of
LiteLLM's and the sessions go on meanwhile.  `Current` is
`try_get_context()`: the context variable, else the process-wide fallback,
which `ServiceRunner` writes and clears.  `runtime` is the snapshot a service
process starts from.  Two ways around the context are left out of `ContextOf`:
a context handed over in the call's own metadata, which nothing in the
repository does, and the log file named by an environment variable, which takes
rows only.  `SortRead` and `SortWrite` are the read and the rewrite
of `otel_spans.jsonl` at the end of a session.

### Observers

`Tell` hands a callback to the three observers, one step each in the tracker's
order; `LookAtProgress` and `UseProgress` are the console's unlocked test and
use of `_progress`.  `TellReused` are the results of the plan's reused sessions,
told by the main thread; a session a pool thread has picked up may be found
running (`Skip`), told as reused by that thread (`Reuse`) or started (`Start`),
also when the run is over already.  `Raise` is the console's exception: out of
`run_session` (`Escape`), or, in a reuse, into `_try_reuse_completed`, after
which the session runs (`Rerun`).  What the other two were told of the reuse is then
replaced by what they are told of the execution; the bar of the run is gone by
then and counts neither.  `EndRun...` are the
callbacks at the end of a run, which after an abort come before the pool has
been joined.  `Marked` are scores whose metadata the benchmark gave an error;
the numbers of sessions in `tracker.log` are left out, as they only name them.

### Dashboard

`phase` is the worker thread of each run ("recorded", "flushed" and "final" are
the places in `emit_saved()`), `place`, `sessionSteps` and `outcome` are its
sessions, `pending` the events of an observer that were not flushed yet, `queue`
the bounded queue, `shown` what the page has made of the events it took.

`EmitNow` is an event that goes straight to the queue, `EmitLater` one that is
collected and flushed once there are `Batch` of them or time has passed.  A put
into a full queue takes out the oldest event and tries again; if another thread
of the run put one in between, the new one is lost too.  A flush stops at the
first event that is lost in this way and keeps the rest for later, so its result
is one of the prefixes in `Flush`; a flush holds the observer's lock and is one
step.  `Newest` is what a queue of `Capacity` keeps of a sequence of puts.

A refresh is `TakeEvent` for each event, at most `Burst` of them, and
`EndRefresh`, which looks whether the thread is dead; observers may put events
between any two of these.  `taken` counts the events of the refresh under way; a
run is started between two refreshes, as both are on the page's one loop.
`records` and `report` are what the results observer has written, and
`HistoryStatus` is the classification of the history view, `LiveStatus` that of
the live one.

### ToolCalling, AgentServices, Agents

`ToolCalling` numbers the model's tool calls; `messages` is the conversation
with, for each message, the calls it makes or answers.  `Reply` is any answer
of the model (calls of unknown tools, invalid arguments, calls without an id,
several at once), `StepSession` any answer of the handler under any policy.
`AgentServices` has the agent's thread and the session's thread, which both
look at, use and clear the same fields (`Look`, `UseCli`, `ClearCli`, ...), the
MCP server with its thread and socket, the LiteLLM proxy, the CLI process or
container, and the coroutine of the OpenAI agent on the shared loop.  `Told`
and `Reaches` are the addresses the CLIs are told, which differ between process
and container.  In `Agents` a session has one kind of agent; the services are
used only if the health check succeeded.

## 3. Runs

| Run | Question | Bounds | Distinct states |
|---|---|---|---|
| `claim_solo` | does the directory behave as a slot when invocations follow each other, with crashes and failures anywhere? | two workers, a status reader, three faults, any file left behind, invalid ones included | 1,015 |
| `claim_shared` | do invocations at the same time rerun or lose a session? | three workers, one of which overwrites, one fault | 375,094 |
| `loop` | limits, recording, outcome, closing, life cycle, termination | 3 steps, 4 actions, 2 actions in parallel | 37,883 |
| `coordinator` | actions exactly once, `None` at the end only, own observations, orderly shutdown | two tool threads, three turns, two calls each | 324,371 |
| `executor` | one result per task, one end, success without losses, no new start after an abort, termination | three tasks on three disks, five configurations of one or two workers, one interference | 1,236,803 |
| `remote` | who gets which answer, does every call end, is every host reaped? | two callers, two calls each, six runners | 92,726 |
| `environment` | one build, a complete one, and a failure keeps what was there? | two installers, one remover, two calls, one death or failure | 94,222 |
| `dashboard` | do page, queue and history agree once a run is over? | a run of two sessions and one of none, one reaction, two outcomes, queue, batches and bursts of 2 | 502,419 |
| `batch` | is a session forgotten or a result lost? | two files of one run, two tasks, two workers, two commands, one fault | 291,710 |
| `tracing` | does what is written belong to its session, and is it complete? | two sessions of two runs, one step, one LLM call, up to two exporters, two pairs of runners | 1,671,616 |
| `observers` | do log, results and console agree on the ends of sessions? | two parallel sessions, one reused, one step, one visible bar | 1,383,181 |
| `agents` | is every tool call answered, does anything outlive its session, does it end? | two steps, two calls per reply, one retry of each kind; every CLI in process and container | 419,232 |

What the properties of each run say:

* `claim_solo`: `ImplementsSlot` – through the refinement mapping the directory
  is a slot: one worker at a time executes it, and a settled outcome is kept
  until somebody discards it on purpose or refuses it; `EventuallySettled` –
  with failures and refusals bounded, re-running the
  configuration settles the session whatever died before.
* `claim_shared`: `FreshNeverReruns` – an invocation that begins on finished
  results, which stay, executes the session only if it overwrites, if the
  results were refused, or if its sample was RUNNING and they say
  `limit_reached`; `NoSessionLost` –
  not everyone steps aside: if all invocations skipped, somebody ran it.
* `loop`: `LimitRespected`, `RecordedOnce`, `OutcomeFaithful` (the recorded
  status is the one the session's end and the score's own metadata imply),
  `ClosedAtEnd` (factories are closed, and a session whose score was recorded
  and reported is closed), `FollowsProtocol` (the callbacks are
  those of `ObserverProtocol`), `Terminates`.
* `coordinator`: `EachActionOnce`, `NoneMeansOver`, `TurnsKept` (a call that
  overlaps no other gets the observation of its own action; nothing is handed
  out after close), `Shutdown`.
* `executor`: `ReportedOnce` (one result per task, two at most where a reuse was
  refused; one end of the run), `SuccessIsComplete` (every task has a result, or
  was running elsewhere, or had results that were invalid from the start),
  `ScoredCompleted`, `NoStartAfterAbort` (only sessions a thread had picked up),
  `RunEnds`.
* `remote`: `AnswersSafe` – an answer is the caller's own unless calls through
  the queues overlapped or a port was taken, and the object is asked to close
  before its host is stopped; `CallsEnd`; `Reaped`.
* `environment`: `BuildsSafe` – any number of callers build an environment
  once, and no one tidies away another's build; `InstallsKeep` – what install
  returns is complete, and a failed one leaves the venv there was, unless neither
  rename of the exchange could be done.
* `dashboard`: `ViewsAgree` – when nothing is under way and nothing was dropped
  the page shows each session as it is, and the history view agrees;
  `RunSettles` – the page becomes ready for another run, also after a crash of
  the worker or when the last event was dropped.
* `batch`: `BatchSafe` – an evaluation that returns has scored or reported each
  session, and a patch leaves each under the name the next evaluation looks
  for; `PatchLosesNothing` – no step of a patch costs a finished session, except
  that its death may cost the one whose results it is writing; `CommandsEnd`.
* `tracing`: `TracesSafe` – the span file of a recorded session has each of its
  own spans once per exporter and no other run's; `CallsTraced` – an LLM call
  is traced in the session that made it unless the callback has only the
  process-wide fallback to go by.
* `observers`: `EndsAgree` – results and `tracker.log` agree on steps and status
  of every session that ended (on the status unless the benchmark put an error
  into the score), and the bar of the run has counted each; `RunEnds`.
* `agents`: `ConversationSafe`, `ServicesSafe`, `AgentsEnd`.

Each property of each run has a mutant in `PROJECT.json`: the mapped definition
with a plausible bug, under which the run must report the property violated.

Why these bounds are enough.  Claim: the races need one invocation that
samples, one that acts and one that destroys, hence three workers, of whom the
overwriting one tells the two kinds apart; the other two are interchangeable
(symmetry, and no liveness in that run).  With one fault there is a crash or
failed run at every point; a crash of the second run after that of the first is
in `claim_solo`.  Loop: three steps and four actions make the two limits
reachable in either order, and a pair of parallel actions steps over the action
limit.  Coordinator: two tools are the least that can overlap, three turns
leave one before, one during and one after the overlap, and two calls tell the
order of a thread's actions.  Executor: with three tasks and two workers one
future runs, one is queued and one is done at the same time; the disks have
nothing, one result to reuse, and one besides a result that does not validate.  Remote: two
callers are what it takes to mix up answers; one of them owns the object.
Environment: two installers meet at the lock, a third process removes; two
calls let one follow a finished or failed one.  Dashboard: a run emits more
events than the queue holds, and more than two refreshes' worth; the second run
starts while the first still drains.  Two outcomes, a score and a cancellation,
are those after which a run ends differently; the classification of the others
is covered by the theorem about `ViewsAgree`, which holds for all of them.  Batch: two files of one run share every
session, and a patch of one makes the names of both collide; a second command
sees what the first left.  Tracing: one session's callback has to meet another
session's start and end; the second session makes no call of its own, which
keeps the space small and leaves it as the one who disturbs.  Observers: with
one visible bar every further end trims one.  Agents: two calls in one reply
make a parallel action, two steps reach the limit with an open call.

`CHECK_DEADLOCK FALSE` is set where the system may really stop: in `batch` the
user may issue no further command, in `tracing`, `observers` and `agents` the
sessions end.  All other runs check for deadlock; what is done there stutters
explicitly (`Finished`) or goes on for ever.

## 4. Fairness

* `SessionClaim`: an invocation that started takes its steps (it is a running
  process; only `Crash` stops it, and crashes are bounded by `MaxFaults`), and
  the run is started again until the session is settled, which is strong
  fairness of `Enter` because status readers come in between.  The second part
  is the user's promise: `EventuallySettled` says what re-running achieves.
* `SessionLoop`: every call into agent and benchmark returns or raises.
  Neither is obliged to end the session, so `Terminates` rests on the limits.
* `Coordinator`: threads that can run do run, the benchmark answers, and the
  agent's code returns once no tool call blocks it.  Nothing makes an agent
  call a tool or crash.  There is no fairness on single kinds of steps of the
  environment: it may close at once.
* `RunExecutor`: the main thread goes on and each session ends (that is
  `Terminates` of `SessionLoop`).
* `RemoteObject`: a live host serves each request it accepted and its callers
  go on; nothing makes it die.  The reaper runs when a later process starts.
* `Environment`: each process inside install or uninstall goes on until it is
  killed.
* `Dashboard`: the page's timer fires, and as long as something in a run can go
  on, something does: a worker's thread, or one of its sessions.  Nothing makes
  the user start a run.
* `Batch`: a command's own code goes on and each session of the pool ends.
  Nothing makes the user issue a command.
* `Observers`: every thread is scheduled; a session's loop ends by its limit.
* `Agents`: threads, loops and servers go on, the model answers or fails, a
  process, a container and a coroutine end because their turns are bounded, and
  the session's thread closes the agent in the end.
* `Tracing`: none; only safety is checked.

## 5. What is proved

All theorems are proved for every value of the constants, under the named
assumptions of the modules (`ClaimAssumption`, `LoopAssumption`,
`CoordinatorAssumption`, `ExecutorAssumption`,
`RemoteAssumption`, `EnvironmentAssumption`, `ObserversAssumption`,
`TracingAssumption`, `ToolCallingAssumption`, `BatchAssumption`,
`DashboardAssumption`, `OutcomesAssumption`), which TLC also
evaluates, and `NoneAssumption`: the placeholder for no results is none of the
records that stand for results.

| Theorem | States | Along which argument |
|---|---|---|
| `RunProofs!TypeCorrect` | `[]TypeOK` | step by step, `DecideTypes` and `RemoveTypes` for the shared parts |
| `RunProofs!FinishedSessionsAreNotRerun` | `[]FreshNeverReruns` | `FreshInv`: while an invocation is fresh, the results it began with are on disk; so each value it can have read leads to "completed" or "running", and after the refresh to "completed", unless it met the session running and they say `limit_reached` (`MayRerun`); hence it reuses, skips, or has one of the two doubts |
| `RunProofs!SessionIsRecorded` | `[]NoSessionLost`, if no half written or invalid file is there to begin with | `SafeSession`, while there are no faults and no status readers: one holder of the path's flock, and who decides or removes is that holder (`PathExclusive`, `HoldsPath`); a truncated file has its writer, removed results have the remover about to execute, a directory without results has an invocation under way |
| `RunProofs!ImplementsTheSlot` | `ImplementsSlot`, if `Solo` | `Serial`: one actor at a time, so nobody meets a lock; `SoloDecision`: what the worker has read is still so when it acts on it, and who executes a settled session overwrites or has refused it |
| `SessionProofs!TypeCorrect` | `[]TypeOK` | step by step |
| `SessionProofs!LimitsHold` | `[]LimitRespected` under the `LimitController` | `LimitInv`: a loop iteration is entered strictly below both limits, and the ledger never runs ahead of the controller's count |
| `SessionProofs!SingleRecord` | `[]RecordedOnce` | `RecordInv`: before the record the active plan still has its recording call, afterwards only closing calls |
| `SessionProofs!ImplementsProtocol` | `FollowsProtocol` | `CallbackInv`: each place of the loop, and each call an except clause still has before it, knows which callback came last; so every step is one the protocol allows, or a stutter |
| `SessionProofs!OutcomeTells` | `[]OutcomeFaithful` | `ReasonInv`: only a termination and the limit are scored, and the limit only after a step that reached it; the status recorded is then read off the score case by case |
| `SessionProofs!EndsClosed` | `[]ClosedAtEnd` | `CloseInv`: the factories are closed one after the other, the agent is bound once it is created, and a success whose recording returned is followed by the call that closes both |
| `SessionProofs!MonitorTypeCorrect` | `[]MonitorTypeOK` | `TurnBound`: the turn is counted at most once more by `close()` and once more by the record of a crash |
| `SessionProofs!NoneIsTheEnd` | `[]NoneMeansOver` | `ClosedInv`: who closes is the environment, which then no longer reacts, or an agent whose code has ended; only a closed coordinator has None among its actions or finds none after a window |
| `SessionProofs!TurnsAreKept` | `TurnsKept` | `LoneInv`: the action of a lone call is pending (`Waits`), then with the benchmark (`Steps`), then answered by the observation published (`HasAnswer`); the turn is past the call's own only in the last of the three |
| `SessionProofs!ActionsKept` | `[]EachActionOnce` | `OrderInv`: no action is numbered beyond the calls of its thread, so each append continues the order; a step leaves what was submitted alone, extends it by one, or closes and forgets what was pending |
| `RunProofs!RunTypeCorrect` | `[]RunTypeOK` | step by step |
| `RunProofs!EverythingOnce` | `[]ReportedOnce` | `FinalInv`: the tracker's state tells the count; `OneResultInv`: a task that may still get a result has none, or the one of a refused reuse, and one to be reused is never submitted |
| `RunProofs!OnlyCompletedScored` | `[]ScoredCompleted` | `QuietInv`: when sessions are chosen nothing of this run is in flight |
| `RunProofs!AbortStopsStarts` | `NoStartAfterAbort` | `AbortInv`: once the run unwinds no future is waiting for a thread and the submitting loop is left; so what starts was picked up |
| `RunProofs!SuccessLosesNone` | `[]SuccessIsComplete` | `CompleteInv`: unless the run is aborted each task is to be submitted, in the pool, skipped, recorded, or to be reused and invalid |
| `RemoteObjectProofs!TypeCorrect` | `[]TypeOK` | `CallInv`: only the close may exceed the bound on calls |
| `RemoteObjectProofs!AnswersAreOwn` | `[]AnswersSafe` | `LoneInv`: while calls over the queues do not overlap, one caller asks at a time, and the queues hold its request or its answer and nothing else; `CloseInv`: how far the remote close has got at each place of the owner's `close()`; `PortInv`: where a taken port stays unnoticed. Each step is first reduced to its effect (`StepEffects`), then each part of the invariant is shown from the effects |
| `EnvironmentProofs!TypeCorrect` | `[]TypeOK` | step by step, `FinishType` and `FailsType` for the shared parts |
| `EnvironmentProofs!EnvironmentsBuiltOnce` | `[]BuildsSafe` | `Exclusive` and `Alone`: one process at a time is behind the lock or uninstalls; `Trusted`, `Counted` and `Uncounted`: a counted build is in the marker, about to be written, or about to be replaced, and what can be read is true. Each step is shown for a lone process (`Narrow`), and the invariant follows again (`Widen`) |
| `EnvironmentProofs!InstallsAreKept` | `InstallsKeep` | the same invariant: `Complete` for what the marker says when it is read, and when it is written; `Kept` for what a failed build puts back, and for the place where it cannot |
| `BatchProofs!BatchIsSafe` | `[]BatchSafe`, types included | `PhaseInv`: which command is at which place, with what before it; `PoolInv`: the queue holds the queued items once each (`QueueInv`), and a worker that read "completed" read it of a session that is done or had trouble (`ItemInv`); `CoverInv`: each session of a file already planned is in the pool or done, and of one already aggregated is among its scores or had trouble; `PatchInv`: the directories a recovery is through with, and those it need not visit, have the name of their config |
| `BatchProofs!PatchKeepsResults` | `PatchLosesNothing` | the same invariant; a rename to a free name, or onto an empty directory, is a bijection of the finished sessions (`RenamedAsMany`), a death takes at most one of them (`DeathLeaves`, `CrashLoses`) |
| `ObserversProofs!TypeCorrect` | `[]TypeOK` | one lemma per step of a thread (`OwnStep` for the thread that moves, `TypeStep` for what is shared) |
| `ObserversProofs!ObserversAgree` | `[]EndsAgree` | `StepsInv`: an observer earlier in the tracker's order is `Ahead` of the console by the callback under way, one later is `Behind`, so the ledgers meet at its end; `RecordInv`: what a ledger or a log line says is what the callback said; `EscapeInv`: an end that is missing was interrupted, which takes a bar that is gone; `TodoInv` and `CountInv`: the run's bar counts the sessions whose end the console is through with, and the finished bars it keeps are bounded whatever two threads trim at once |
| `ObserversProofs!ViewsAlwaysAgree` | `[]ViewsAgree`, types included | `SessionStory`, for each session of each run: `EndInv`: at most one end of it is under way, it is behind all its other events, and a session that is over has its outcome; `StreamInv`: while nothing was lost, the queue and then the pending events hold its remaining events, in the order and with the numbers in which they happened; `ShownInv`: the page shows what the events already taken make of it. `QueuesInv` bounds queue, batch and burst, `RunInv` says which runs have begun and what their phase allows |
| `TracingProofs!TracesAreSafe` | `[]TracesSafe` | `OpenInv`: the open spans, and the number of the next one, go with the place of the session's thread; `FileInv`: so does how often each own span is in its file and in the sort under way (`AddedTo`: an export adds to one count only, an LLM span to none of these) |
| `TracingProofs!CallsAreTraced` | `[]CallsTraced` | `ContextInv`: what a session's thread and its child processes are given; `ReadInv`: what a callback has read so far it may find (`Found`), and its two reads agree unless it was told; `TraceInv`: each span and timing is where its call may be. What may be found only grows (`Grows`), so nothing that was right becomes wrong |
| `AgentsProofs!TypeCorrect` | `[]TypeOK` | `ChatFields`, `ChatNumbers` and `ChatBounds` for the conversation: one step asks for one reply, so the replies so far bound the calls; `PlacesOK`, `FlagsOK`, `ValuesOK` for the services |
| `AgentsProofs!ConversationIsSafe` | `[]ConversationSafe` | `ChatActing`: an action's calls are those of the last reply, unobserved, each once; `ChatObserved`: so are the calls of what the agent is given next; `ChatAnswers`: every other observed call has its one answer, after its reply and before the next |
| `AgentsProofs!ServicesAreSafe` | `[]ServicesSafe` | `ServerInv`: only the agent's own exit tells the server to end, since `close()` joins the agent's thread first; `SocketInv`: a bound socket belongs to a server that a stop is still to come for; `CliInv`: `run_mcp_agent` ends the CLI itself; `ProxyInv`: a running proxy is in its field unless `close()` met it too early, and a thread that finds the field cleared knows the other is past it |

The invariants by themselves are not inductive: `FreshNeverReruns` says
nothing of what a worker has sampled, `NoSessionLost` nothing of the time in
which somebody is at work, `LimitRespected` nothing of the counter before a
step, `RecordedOnce` nothing of what the clause is still going to do,
`OutcomeFaithful` nothing of a score not yet recorded, `ClosedAtEnd` and
`SuccessIsComplete` nothing of the time before the end, `NoneMeansOver` nothing
of how the coordinator came to be closed, `TurnsKept` nothing of where the
action is while its call is blocked, `AnswersSafe` nothing of what is in the
queues, `BuildsSafe` nothing of what the marker promises, `EndsAgree` nothing of
how far each observer is in the callback or what the console still has to do
for it, `ConversationSafe` nothing of the calls that are with the environment or
on their way back, `ServicesSafe` nothing of the time before both threads are
done, `TracesSafe` nothing of what a file holds before its session is recorded
or of what the sort has read, `CallsTraced` nothing of what a callback has read
and not yet written, `ViewsAgree` nothing of the events under way, `BatchSafe` nothing of the sessions before the command
returns; the strengthenings add exactly that.

The assumptions about `SessionClaim` are necessary: before anybody has begun, a
file that a killed run left half written is no outcome, and one that does not
validate none that could be reused; and invocations that are not serial may
execute one session at the same time (the first entry of section 6).

Only model-checked: the liveness properties (`EventuallySettled`,
`Terminates`, `Shutdown`, `RunEnds`, `CallsEnd`, `Reaped`, `RunSettles`,
`CommandsEnd`, `AgentsEnd`), which need fairness and ENABLED and are outside
what TLAPS proves.  Every safety invariant and every action property that a
run checks, and both refinements, are theorems as well.

`Dashboard` could be reasoned about once it said what a flush does to the queue
in closed form and let the page take its events one by one: the library's folds
are defined recursively, and what a fold returns for every sequence takes an
induction over data, which is out of the provers' reach.

## 6. Where the code does other than one might expect

Found while modelling.  The properties say what holds, so each of these is
either in a condition of a property or outside all of them; none is hidden by
leaving the code out of a module, unless said so.

Session claim, loop and run

1. A stale sample other than RUNNING is not refreshed under the lock
   (`execution.py:221`), and removing the directory drops the lock that the
   process holds (`execution.py:95`): two invocations may execute one session
   at the same time.
2. The refresh counts `limit_reached` as incomplete (`execution.py:141`),
   `from_config` counts it as completed.  An invocation that meets the session
   running and then takes the lock runs such a session again.  The same happens,
   without overwriting, to a finished session whose results do not validate, or
   on whose reuse an observer raises (`execution.py:72`): it is run again in
   place.  In a run its first result may have been recorded by then, and it is
   recorded twice.
3. Three except clauses of `run_session` leave the session open
   (`session.py:105`), and so does a recording that raises, since the closing
   call comes after it (`results.py:243,277`, `session.py:96`); `ClosedAtEnd`
   says what is closed.  A session that was scored may be recorded as `error`
   or `cancelled`, when its score's metadata say so (`results.py:290-300`); that
   of the limit takes precedence over an error.
4. A batch never registers the `LimitController` (`run.py:242`): its sessions
   end by the agent or the benchmark only.
5. Scoring and report scan the directories separately (`results.py:342`): with
   another process on the run the sessions reported as aggregated may differ
   from those that were scored.  A run may end in success without a session that
   the plan wanted to reuse, when its results do not load
   (`execution.py:377-379`).  After an abort the sessions that a thread of the
   pool had picked up still start: `future.cancel()` cannot cancel these
   (`execution.py:310`).

Coordinator

6. A tool call made late in a turn returns with the observation of another
   call (`coordinator.py:266`): it waits for the turn counter.  `TurnsKept` is
   about calls that overlap no other.
7. `react()` returns `None`, a clean end, between the two critical sections of
   a crashing agent (`coordinator.py:262`).
8. When the agent ends cleanly while the environment steps, the next `react()`
   raises (`coordinator.py:291`).
9. A finish action submitted just before the agent returns is dropped when
   `execute(None)` follows in the same turn (`mcp_agent.py:68`).

Runners and environments

10. A caller stays waiting on a queue when the worker process died after the
    liveness test (`process.py:138`), or when `close()` was quicker; calls that
    overlap may get each other's answers.
11. The container of an owner whose PID was given to a new process is not
    reaped; the server of a service whose start or remote close failed stays.
12. `uninstall()` takes no lock; installing at the same time may hand over an
    environment that is being deleted.  "If the final rename fails, the prior
    venv is restored" (`venv.py:130`) is best effort: when the restoring rename
    fails too, the finally clause deletes the prior venv (`venv.py:150`).

Batch

13. A patch that aborts on a name collision, or dies between the update of the
    id and the rename, leaves `results.json` with an id that is not its
    directory's, and patching back does not repair it (`PatchedFound` asks for
    the id only where all agreed before); one that dies while it rewrites a
    `results.json` in place leaves results that do not parse (`batch.py:237`,
    the one loss `PatchLosesNothing` allows).
14. `batch evaluate` with a SessionConfig aborts while planning, though the
    help offers it; prepared or edited session configs are discarded when they
    are executed (`docs/batch.md:149`); a patch of a config with an automatic
    run id changes the run, whose patched sessions are then not found; a patch
    may leave a config that cannot be loaded.
15. Ctrl-C in `batch evaluate` lets all queued sessions run and skips the
    aggregation; in `batch execute` the next config goes on.
16. Two files of one run overwrite each other's `results.json`; publishing
    drops other rows than `docs/batch.md` says (`batch.py:1043`); the removal
    of an incomplete session's directory always unlinks the lock just taken.

Tracing, observers, dashboard

17. The process-wide fallback (`context.py:157`, `service.py:236,260`) is
    shared by concurrent sessions, which overwrite and clear each other's; a
    service whose constructor fails leaves it set.  LLM calls without a context
    variable are traced in the wrong session or in none.
18. The sort at the end of a session loses spans that are appended meanwhile
    (`otel.py:454`); spans of sessions that leave with an exception are never
    ended; two `on_run_start` for one run write every span twice; the
    `TraceLogger` writes later sessions' rows into the first one's `otel.log`;
    timings taken in a child process never reach the results
    (`session_timings.py:4`).
19. The console tests its progress bar and uses it without a lock; when an
    aborted run removes it in between, the AttributeError escapes
    `run_session`, and the session is not recorded.  `tracker.log` calls a
    session that stopped at a limit with a score a success, the results call it
    `limit_reached`; one whose score has error metadata is "unfinished" in the
    first (`file_logger.py:318`) and "error" in the second.  The results of an aborted run are written before its
    running sessions have ended (`results.py:148`).
20. The overview (`panels.py:40`) counts sessions as running after their run
    is over.

Agents

21. `close()` that comes before the proxy's process is started clears the
    field, and the process stays (`proxy.py:64`).  The MCP server's start-up
    timeout raises without a stop (`mcp_server.py:195`), and a stop that comes
    before the thread has built its server is missed.
22. Test and use of `_cli`, `_proxy` and the server are not atomic
    (`base.py:168,239,283`): either thread may meet None.
23. A synchronous tool blocks the server's loop until the coordinator answers
    or closes; a call of `run_sync` that times out leaves its coroutine on the
    shared loop; killing the docker client leaves the container until the
    reaper comes.
24. A tool call named "message" is never answered by a tool message, a dropped
    validation error leaves one call of a parallel action unanswered, and a
    call without an id raises; `CallsAnswered` is about calls with an
    observation.

Where a property excepts the harm itself, it would not notice it and is not
listed as covering the hazard: the late call of entry 6 (`TurnsKept`), overlapping
calls, the taken port and the lost wait of entry 10 (`AnswersSafe`, `CallsEnd`),
the fallback of 17 (`CallsTraced`), the sort of 18 (`TracesSafe`), the escape of
19 (`EndsAgree`), the early proxy and the missed stop of 21 (`ServicesSafe`,
`AgentsEnd`) and the call named "message" of 24 (`ConversationSafe`).

## 7. Not modelled

Left out of the modules: costs, timings, trajectories, log files and the layout
of the JSON files; names and ids, except in `Batch`, which is about them; the
content of actions and observations beyond whether they are legal, empty and
whose they are; command lines and their parsing.  Docker, HTTP, pip and the
LiteLLM library are input and output around control that is modelled where it
matters: as calls that may raise.  The smolagents interrupt flag, the chaining
of signal handlers and the class-level patch of the docker client are left out.

Components without a module:

* *Proxy executor* – only the tau2 benchmark uses it; its two queues and its
  staging slot are a protocol of their own with a foreign driver, whose code is
  not in the repository.  Its hazard is listed without a property.
* *Response and disk caches* – what could go wrong is in the bytes of a key.
* *Benchmarks* – wrappers of third-party evaluations; `SessionLoop` lets their
  calls return or raise anything the callers tell apart.
* *CLI agents' command lines, the replay agent* – sequential construction of
  arguments and playback, without shared state.
* *Analysis and comparison commands* – they read finished results and print.
* *Settings, cost, paths and logging utilities* – no control state.

Bounds that are assumptions of a model rather than of the code: one run
directory and one command at a time in `Batch`; one environment directory in
`Environment`; one process in `Tracing` besides its services.
