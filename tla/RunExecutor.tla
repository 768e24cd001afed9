----------------------------- MODULE RunExecutor -----------------------------
(***************************************************************************)
(* One run over several tasks: core_run (core/orchestrator/run.py) plans   *)
(* from the status of each session directory, execute_sessions             *)
(* (core/orchestrator/execution.py) runs the sessions one after another or *)
(* in a thread pool, and the results are aggregated and written.           *)
(*                                                                         *)
(* A session task is one claim of its directory (module SessionClaim)      *)
(* around one session (module SessionLoop); here it starts in one step and *)
(* ends in another.  Other processes of the same run hold and complete     *)
(* session directories at any time; they do not overwrite completed ones,  *)
(* and their observers take them.                                          *)
(* The tasks are run in the order of the plan, which no property depends   *)
(* on: the plan is a set.                                                  *)
(***************************************************************************)
EXTENDS Naturals, FiniteSets

CONSTANTS
  Tasks,      \* the task ids of the run configuration
  OnDisk,     \* what the session directories may hold to begin with
  Configs,    \* entry points and settings: [mode, workers, overwrite]
  MaxVisits   \* bound: directories other processes take during the run

\* A session without results, missing or left half-way, is one to run; so is
\* one whose results tell of an error.  Results that are "invalid" have the
\* status of a completed session, but SessionResults.model_validate or the
\* reading of the whole file fails.
Files == {"absent", "error", "completed", "invalid"}

\* core_execute, core_evaluate and core_aggregate.
Modes == {"execute", "evaluate", "aggregate"}

ASSUME ExecutorAssumption ==
  /\ IsFiniteSet(Tasks)
  /\ OnDisk \subseteq [Tasks -> Files]
  /\ Configs \subseteq [mode : Modes, workers : Nat \ {0}, overwrite : BOOLEAN]
  /\ MaxVisits \in Nat

VARIABLES
  disk,      \* the results file of each session: an element of Files
  held,      \* the directories whose lock another process holds
  visits,    \* how many of those locks were taken
  mode,      \* the entry point
  workers,   \* run_config.max_workers (unused when only aggregating)
  overwrite, \* run_config.overwrite_sessions (likewise)
  invalid,   \* history: the sessions whose results were invalid to begin with
  phase,     \* where core_run is
  reuse,     \* plan.reuse, or the results to load when only aggregating
  todo,      \* plan.to_run: the tasks not yet submitted
  skipped,   \* tasks another process was running when they came up
  work,      \* the future of each task
  doneSet,   \* the futures wait() returned that were not consumed yet
  unwinding, \* execution was aborted by "none", "cancel" or "failure"
  records,   \* how many results each task has in the ResultsObserver
  refused,   \* history: the sessions an observer raised on when it was handed
             \* their results for reuse
  runState,  \* tracker._run_state
  finals,    \* how many on_run_success and on_run_error observers saw
  scored,    \* the sessions given to evaluator.aggregate_sessions
  report,    \* the run results written last
  outcome    \* how core_run ended: "none", "returned" or "raised"

disks == <<disk, held, visits>>
config == <<mode, workers, overwrite, invalid>>
futures == <<work, doneSet>>
tracked == <<runState, finals, report>>
runVars == <<disk, held, visits, mode, workers, overwrite, invalid, phase,
             reuse, todo, skipped, work, doneSet, unwinding, records, refused,
             runState, finals, scored, report, outcome>>

Running == {t \in Tasks : work[t] = "running"}
Picked == {t \in Tasks : work[t] = "picked"}
Done == {t \in Tasks : work[t] \in {"ok", "cancel", "failed"}}
Awaited == {"submitted", "picked", "running"}
InFlight == Done \cup {t \in Tasks : work[t] \in Awaited}
Recorded == {t \in Tasks : records[t] > 0}

\* SessionStatus.from_config, which probes the lock first.
StatusOf(t) == IF t \in held \cup Running THEN "running"
               ELSE IF disk[t] = "invalid" THEN "completed" ELSE disk[t]
Completed == {t \in Tasks : StatusOf(t) = "completed"}

NoReport == [state |-> "none", sessions |-> {}, aggregated |-> {}]

\* ResultsObserver._write_run_results: a snapshot of the session results, and
\* the status of the run as of now.
Report(state) ==
  [state |-> state, sessions |-> Recorded, aggregated |-> Completed]
-----------------------------------------------------------------------------
RunInit ==
  /\ disk \in OnDisk
  /\ held = {} /\ visits = 0
  /\ \E c \in Configs : /\ mode = c.mode /\ workers = c.workers
                        /\ overwrite = c.overwrite
  /\ invalid = {t \in Tasks : disk[t] = "invalid"}
  /\ phase = "plan"
  /\ reuse = {} /\ todo = {} /\ skipped = {}
  /\ work = [t \in Tasks |-> "none"] /\ doneSet = {}
  /\ unwinding = "none"
  /\ records = [t \in Tasks |-> 0] /\ refused = {}
  /\ runState = "none" /\ finals = 0
  /\ scored = {}
  /\ report = NoReport
  /\ outcome = "none"

\* RunStatus.from_config and RunPlan.from_config_and_status.
Plan ==
  /\ phase = "plan" /\ mode # "aggregate"
  /\ reuse' = IF overwrite THEN {} ELSE Completed
  /\ skipped' = {t \in Tasks : StatusOf(t) = "running"}
  /\ todo' = Tasks \ (reuse' \cup skipped')
  /\ phase' = "reuse"
  /\ UNCHANGED <<disks, config, futures, unwinding, records, refused, tracked,
                 scored, outcome>>

\* core_aggregate takes whatever results are on disk; its status is not
\* refreshed before the aggregation.
PlanAggregation ==
  /\ phase = "plan" /\ mode = "aggregate"
  /\ reuse' = Tasks
  /\ scored' = Completed
  /\ phase' = "reuse"
  /\ UNCHANGED <<disks, config, todo, skipped, futures, unwinding, records,
                 refused, tracked, outcome>>

\* load_reused_results leaves out the results that do not load;
\* on_session_reuse is called for each of the others.
Loaded == {t \in reuse : disk[t] \in {"error", "completed"}}

Record(some) ==
  records' = [t \in Tasks |-> IF t \in some THEN records[t] + 1 ELSE records[t]]

LoadReused ==
  /\ phase = "reuse"
  /\ Record(Loaded)
  /\ phase' = IF mode = "aggregate" THEN "score" ELSE "execute"
  /\ UNCHANGED <<disks, config, reuse, todo, skipped, futures, unwinding,
                 refused, tracked, scored, outcome>>

\* An observer raises on one of them, here in the main thread: core_run is
\* left before any session was submitted.
LoadFails ==
  /\ phase = "reuse" /\ Loaded # {}
  /\ \E some \in SUBSET Loaded : Record(some)
  /\ phase' = "end" /\ outcome' = "raised"
  /\ UNCHANGED <<disks, config, reuse, todo, skipped, futures, unwinding,
                 refused, tracked, scored>>
-----------------------------------------------------------------------------
(***************************************************************************)
(* The main thread while sessions execute.  With one worker it runs the    *)
(* session itself: one future in flight is all there ever is.              *)
(***************************************************************************)
Submit(t) ==
  /\ phase = "execute" /\ t \in todo /\ doneSet = {}
  /\ Cardinality(InFlight) < workers
  /\ todo' = todo \ {t}
  /\ work' = [work EXCEPT ![t] = "submitted"]
  /\ UNCHANGED <<disks, config, phase, reuse, skipped, doneSet, unwinding,
                 records, refused, tracked, scored, outcome>>

\* Variant: the first caller wins, but the second one is told so too.
MarkRunFinalTwice(state, callers) ==
  /\ finals' = finals + callers
  /\ runState' = state
  /\ report' = Report(state)

\* Tracker._mark_run_final for that many calls in a row: the first one passes
\* on to the observers, the ResultsObserver among them.
MarkRunFinal(state, callers) ==
  IF runState # "none" THEN UNCHANGED tracked
  ELSE /\ finals' = finals + 1
       /\ runState' = state
       /\ report' = Report(state)

\* future.cancel() stops what no thread of the pool has picked up yet.
CancelFutures(future) ==
  [t \in Tasks |-> IF future[t] = "submitted" THEN "cancelled" ELSE future[t]]

\* wait(FIRST_COMPLETED) returns the futures that are done, when some are; the
\* main thread waits only when it can submit nothing.
Wait ==
  /\ phase = "execute" /\ doneSet = {}
  /\ todo = {} \/ Cardinality(InFlight) >= workers
  /\ Done # {}
  /\ doneSet' = Done
  /\ UNCHANGED <<disks, config, phase, reuse, todo, skipped, work, unwinding,
                 records, refused, tracked, scored, outcome>>

MayConsume(t, result) ==
  phase = "execute" /\ t \in doneSet /\ work[t] = result

Consume(t) == [work EXCEPT ![t] = "consumed"]

\* Variant: the future is read but not popped.
ConsumeResultKept(t) == MayConsume(t, "ok") /\ UNCHANGED runVars

ConsumeResult(t) ==
  /\ MayConsume(t, "ok")
  /\ work' = Consume(t)
  /\ doneSet' = doneSet \ {t}
  /\ UNCHANGED <<disks, config, phase, reuse, todo, skipped, unwinding,
                 records, refused, tracked, scored, outcome>>

\* RunCancelError: on_run_error is called where the result is read and again
\* in the outer clause, which cancels what has not started.
ConsumeCancel(t) ==
  /\ MayConsume(t, "cancel")
  /\ MarkRunFinal("error", IF workers > 1 THEN 2 ELSE 1)
  /\ work' = CancelFutures(Consume(t))
  /\ unwinding' = "cancel" /\ phase' = "drain" /\ doneSet' = {}
  /\ UNCHANGED <<disks, config, reuse, todo, skipped, records, refused,
                 scored, outcome>>

\* Variant: a failure does not cancel the sessions that have not started.
ConsumeFailureOnly(t) ==
  /\ MayConsume(t, "failed")
  /\ IF workers > 1 THEN MarkRunFinal("error", 1) ELSE UNCHANGED tracked
  /\ work' = Consume(t)
  /\ unwinding' = "failure" /\ phase' = "drain" /\ doneSet' = {}
  /\ UNCHANGED <<disks, config, reuse, todo, skipped, records, refused,
                 scored, outcome>>

\* Any other exception of a session task leaves core_run; only the pool tells
\* the tracker and cancels what has not started.
ConsumeFailure(t) ==
  /\ MayConsume(t, "failed")
  /\ IF workers > 1 THEN MarkRunFinal("error", 1) ELSE UNCHANGED tracked
  /\ work' = CancelFutures(Consume(t))
  /\ unwinding' = "failure" /\ phase' = "drain" /\ doneSet' = {}
  /\ UNCHANGED <<disks, config, reuse, todo, skipped, records, refused,
                 scored, outcome>>

\* Ctrl-C while the main thread waits for the pool.
Interrupt ==
  /\ phase = "execute" /\ workers > 1 /\ InFlight # {}
  /\ MarkRunFinal("error", 1)
  /\ work' = CancelFutures(work)
  /\ unwinding' = "cancel" /\ phase' = "drain" /\ doneSet' = {}
  /\ UNCHANGED <<disks, config, reuse, todo, skipped, records, refused,
                 scored, outcome>>

\* Variant: the loop stops when the last session has been submitted.
ExecutedEarly ==
  /\ phase = "execute" /\ todo = {}
  /\ phase' = "drain"
  /\ UNCHANGED <<disks, config, reuse, todo, skipped, futures, unwinding,
                 records, refused, tracked, scored, outcome>>

\* The loop ends when every future was consumed.
Executed ==
  /\ phase = "execute" /\ todo = {} /\ InFlight = {}
  /\ phase' = "drain"
  /\ UNCHANGED <<disks, config, reuse, todo, skipped, futures, unwinding,
                 records, refused, tracked, scored, outcome>>

\* Leaving the pool waits for the sessions that still run.
Drain ==
  /\ phase = "drain"
  /\ \A t \in Tasks : work[t] \notin Awaited
  /\ \/ /\ unwinding = "none"
        /\ phase' = IF mode = "evaluate" THEN "rescan" ELSE "finish"
        /\ UNCHANGED outcome
     \/ /\ unwinding # "none"
        /\ phase' = "end"
        /\ outcome' = IF unwinding = "cancel" THEN "returned" ELSE "raised"
  /\ UNCHANGED <<disks, config, reuse, todo, skipped, futures, unwinding,
                 records, refused, tracked, scored>>
-----------------------------------------------------------------------------
(***************************************************************************)
(* Aggregation.                                                            *)
(***************************************************************************)
\* Variant: a session counts once its results file exists.
RescanResults ==
  /\ phase = "rescan"
  /\ scored' = {t \in Tasks : disk[t] \in {"error", "completed"}}
  /\ phase' = "score"
  /\ UNCHANGED <<disks, config, reuse, todo, skipped, futures, unwinding,
                 records, refused, tracked, outcome>>

\* The status is refreshed, and only completed sessions are aggregated.
Rescan ==
  /\ phase = "rescan"
  /\ scored' = Completed
  /\ phase' = "score"
  /\ UNCHANGED <<disks, config, reuse, todo, skipped, futures, unwinding,
                 records, refused, tracked, outcome>>

\* Loading the benchmark and evaluator.aggregate_sessions, which may raise.
AggregateSessions ==
  /\ phase = "score"
  /\ \/ phase' = "finish" /\ UNCHANGED outcome
     \/ phase' = "end" /\ outcome' = "raised"
  /\ UNCHANGED <<disks, config, reuse, todo, skipped, futures, unwinding,
                 records, refused, tracked, scored>>

\* tracker.on_run_success.
Finish ==
  /\ phase = "finish"
  /\ MarkRunFinal("success", 1)
  /\ phase' = "end" /\ outcome' = "returned"
  /\ UNCHANGED <<disks, config, reuse, todo, skipped, futures, unwinding,
                 records, refused, scored>>
-----------------------------------------------------------------------------
(***************************************************************************)
(* The session tasks, in the threads of the pool: _run_task_with_lock.     *)
(***************************************************************************)
\* A thread of the pool picks the future up; it can no longer be cancelled.
PickUp(t) ==
  /\ work[t] = "submitted"
  /\ work' = [work EXCEPT ![t] = "picked"]
  /\ UNCHANGED <<disks, config, phase, reuse, todo, skipped, doneSet,
                 unwinding, records, refused, tracked, scored, outcome>>

\* Another process holds the lock: the task returns and nothing is recorded.
SkipRunning(t) ==
  /\ work[t] = "picked" /\ t \in held
  /\ skipped' = skipped \cup {t}
  /\ work' = [work EXCEPT ![t] = "ok"]
  /\ UNCHANGED <<disks, config, phase, reuse, todo, doneSet, unwinding,
                 records, refused, tracked, scored, outcome>>

\* The session was completed since the plan was made: it is reused.
ReuseCompleted(t) ==
  /\ work[t] = "picked" /\ t \notin held
  /\ disk[t] = "completed" /\ ~overwrite
  /\ Record({t})
  /\ work' = [work EXCEPT ![t] = "ok"]
  /\ UNCHANGED <<disks, config, phase, reuse, todo, skipped, doneSet,
                 unwinding, refused, tracked, scored, outcome>>

\* An observer raises on it, after the ResultsObserver took it or before: the
\* session is executed in its place.
ReuseRefused(t) ==
  /\ work[t] = "picked" /\ t \notin held
  /\ disk[t] = "completed" /\ ~overwrite
  /\ Record({t}) \/ UNCHANGED records
  /\ refused' = refused \cup {t}
  /\ work' = [work EXCEPT ![t] = "running"]
  /\ UNCHANGED <<disks, config, phase, reuse, todo, skipped, doneSet,
                 unwinding, tracked, scored, outcome>>

\* The session starts, in a directory that was removed, as far as it could
\* be; one whose results turn out to be invalid is left in place.
StartSession(t) ==
  /\ work[t] = "picked" /\ t \notin held
  /\ disk[t] # "completed" \/ overwrite
  /\ \E left \in {disk[t], "absent"} :
       /\ disk[t] = "invalid" /\ ~overwrite => left = disk[t]
       /\ disk' = [disk EXCEPT ![t] = left]
  /\ work' = [work EXCEPT ![t] = "running"]
  /\ UNCHANGED <<held, visits, config, phase, reuse, todo, skipped, doneSet,
                 unwinding, records, refused, tracked, scored, outcome>>

\* Variant: the task returns the status of the session.
EndSessionStatus(t) ==
  /\ work[t] = "running"
  /\ \E left \in Files :
       /\ work' = [work EXCEPT ![t] = left]
       /\ disk' = [disk EXCEPT ![t] = left]
  /\ UNCHANGED <<held, visits, config, phase, reuse, todo, skipped, doneSet,
                 unwinding, records, refused, tracked, scored, outcome>>

\* run_session_config returns when the session was recorded and written; it
\* raises then too, or before, or when its results were only half written.
EndSession(t) ==
  /\ work[t] = "running"
  /\ \/ \E result \in {"ok", "cancel", "failed"}, left \in {"error", "completed"} :
          /\ Record({t})
          /\ work' = [work EXCEPT ![t] = result]
          /\ disk' = [disk EXCEPT ![t] = left]
     \/ \E result \in {"cancel", "failed"}, left \in {disk[t], "absent"} :
          /\ Record({t}) \/ UNCHANGED records
          /\ work' = [work EXCEPT ![t] = result]
          /\ disk' = [disk EXCEPT ![t] = left]
  /\ UNCHANGED <<held, visits, config, phase, reuse, todo, skipped, doneSet,
                 unwinding, refused, tracked, scored, outcome>>

(***************************************************************************)
(* Other processes: a rerun of the same configuration, or a batch.         *)
(***************************************************************************)
OtherTakes(t) ==
  /\ t \notin held \cup Running /\ visits < MaxVisits
  /\ held' = held \cup {t}
  /\ visits' = visits + 1
  /\ UNCHANGED <<disk, config, phase, reuse, todo, skipped, futures,
                 unwinding, records, refused, tracked, scored, outcome>>

OtherEnds(t) ==
  /\ t \in held
  /\ held' = held \ {t}
  /\ IF disk[t] = "completed" THEN UNCHANGED disk
     ELSE \E left \in {disk[t], "absent", "error", "completed"} :
            disk' = [disk EXCEPT ![t] = left]
  /\ UNCHANGED <<visits, config, phase, reuse, todo, skipped, futures,
                 unwinding, records, refused, tracked, scored, outcome>>

Finished == phase = "end" /\ UNCHANGED runVars

Main ==
  \/ Plan \/ PlanAggregation \/ LoadReused \/ LoadFails
  \/ (\E t \in Tasks : \/ Submit(t) \/ ConsumeResult(t) \/ ConsumeCancel(t)
                       \/ ConsumeFailure(t))
  \/ Wait \/ Executed \/ Drain \/ Rescan \/ AggregateSessions \/ Finish

Session(t) ==
  \/ PickUp(t) \/ SkipRunning(t) \/ ReuseCompleted(t) \/ ReuseRefused(t)
  \/ StartSession(t) \/ EndSession(t)

RunNext ==
  \/ Main \/ Interrupt
  \/ \E t \in Tasks : Session(t) \/ OtherTakes(t) \/ OtherEnds(t)
  \/ Finished

RunSpec == RunInit /\ [][RunNext]_runVars

\* The main thread goes on, and every session ends (module SessionLoop).
FairRun ==
  /\ RunSpec
  /\ WF_runVars(Main)
  /\ \A t \in Tasks : WF_runVars(Session(t))
-----------------------------------------------------------------------------
Futures == {"none", "submitted", "picked", "running", "ok", "cancel",
            "failed", "cancelled", "consumed"}

RunTypeOK ==
  /\ disk \in [Tasks -> Files]
  /\ held \in SUBSET Tasks
  /\ visits \in 0..MaxVisits
  /\ mode \in Modes
  /\ workers \in Nat \ {0}
  /\ overwrite \in BOOLEAN
  /\ invalid \in SUBSET Tasks
  /\ phase \in {"plan", "reuse", "execute", "drain", "rescan", "score",
                "finish", "end"}
  /\ reuse \in SUBSET Tasks /\ todo \in SUBSET Tasks
  /\ skipped \in SUBSET Tasks
  /\ work \in [Tasks -> Futures]
  /\ doneSet \in SUBSET Tasks
  /\ unwinding \in {"none", "cancel", "failure"}
  /\ records \in [Tasks -> Nat]
  /\ refused \in SUBSET Tasks
  /\ runState \in {"none", "success", "error"}
  /\ finals \in Nat
  /\ scored \in SUBSET Tasks
  /\ report \in [state : {"none", "success", "error"},
                 sessions : SUBSET Tasks, aggregated : SUBSET Tasks]
  /\ outcome \in {"none", "returned", "raised"}

\* A task has at most one result in a run, reused or executed, never both:
\* except that a session executed because an observer refused its results may
\* have those besides its own, when the ResultsObserver came first.
OneResultPerTask ==
  \A t \in Tasks : records[t] <= IF t \in refused THEN 2 ELSE 1

\* The observers learn of the end of the run at most once, however many
\* clauses report it.
FinalizedOnce == finals <= 1

\* Nothing of a run is told twice: no task has two results, reused or executed
\* (execute_sessions), and the run has one end (on_run_success, on_run_error).
ReportedOnce == OneResultPerTask /\ FinalizedOnce

\* A run that ends in success lost no session: each planned task has a result
\* in the written run results unless another process was running it, or it
\* was to be reused and its results were invalid from the start; no session
\* failed or was cancelled unnoticed.
SuccessIsComplete ==
  report.state = "success" /\ mode # "aggregate" =>
    /\ report.sessions \cup skipped \cup (reuse \cap invalid) = Tasks
    /\ report.sessions = Recorded
    /\ \A t \in Tasks : work[t] \in {"none", "consumed"}

\* Only sessions with a completed result are scored, and they still have it
\* when the run ends; the status does not tell whether results are valid.
ScoredCompleted == \A t \in scored : disk[t] = "completed" \/ t \in invalid

\* Once the run is being aborted and its futures were cancelled, only those
\* sessions start that a thread of the pool had picked up by then.
NoStartAfterAbort ==
  [][unwinding # "none" =>
       Running' \cup Picked' \subseteq Running \cup Picked]_runVars

\* core_run ends, whatever its sessions do.
RunEnds == <>(phase = "end")
=============================================================================
