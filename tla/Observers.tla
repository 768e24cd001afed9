------------------------------ MODULE Observers ------------------------------
(***************************************************************************)
(* What a run tells its observers and what they make of it.  The tracker   *)
(* (core/orchestrator/tracker.py) hands every callback of a session's      *)
(* thread to the ResultsObserver, the FileLoggerObserver and the           *)
(* ConsoleLoggerObserver in this order (observers/handlers/results.py,     *)
(* file_logger.py, logger.py); an exception of one skips the rest and      *)
(* leaves through run_session, or makes _try_reuse_completed run the       *)
(* session again.  The sessions run in parallel, and the main thread may   *)
(* tell the end of the run while they do.                                  *)
(*                                                                         *)
(* Each observer's part of a callback is a step.  The console looks at its *)
(* progress bar and then uses it, without a lock: two steps.               *)
(***************************************************************************)
EXTENDS Naturals, Sequences, FiniteSets, SequencesExt

CONSTANTS
  Sessions,   \* the sessions to run
  Reused,     \* the sessions whose results are reused before the run
  None,
  MaxSteps,   \* run_config.max_steps
  MaxVisible  \* _MAX_VISIBLE_SESSIONS

ASSUME ObserversAssumption ==
  /\ IsFiniteSet(Sessions \cup Reused)
  /\ Sessions \cap Reused = {}
  /\ MaxSteps \in Nat \ {0}
  /\ MaxVisible \in Nat \ {0}

VARIABLES
  at,        \* [Sessions -> where its thread is, see Places]
  call,      \* [Sessions -> the callback under way, see Callbacks]
  todo,      \* [Sessions -> what the console still does for the callback]
  excess,    \* [Sessions -> the finished bars it is about to remove]
  steps,     \* [Observed -> [Sessions -> the steps of its SessionLedger]]
  reasons,   \* [Sessions -> FileLoggerObserver._session_reasons]
  recorded,  \* [Sessions -> the SessionResults recorded, or None]
  logged,    \* [Sessions -> what tracker.log says of its end, or None]
  reran,     \* [Sessions -> it runs after a reuse that failed; what the
             \*   reuse recorded and logged stays beside what it tells now]
  progress,  \* the console's progress bar is there
  bars,      \* the sessions in _session_tasks
  completed, \* _completed_session_tasks, oldest first
  runDone,   \* how far the bar of the run was advanced
  main,      \* the main thread's next call
  final,     \* Tracker._run_state
  snapshot   \* the sessions in the results of the run, or None

vars == <<at, call, todo, excess, steps, reasons, recorded, logged, reran,
          progress, bars, completed, runDone, main, final, snapshot>>
console == <<progress, bars, completed, runDone>>
run == <<main, final, snapshot>>

Observed == {"results", "file", "console"}
Places == {"idle", "picked", "again", "results", "file", "console", "use",
           "measure", "return", "trim", "loop", "stepping", "score", "done",
           "skipped", "raised", "escaped"}
Ends == {"agent", "benchmark", "cancelled"}
\* What a score's metadata say of an error: a source that is "cancelled", or
\* another source or text.
Sources == {"none", "cancelled", "error"}
\* A callback: what it is about, how the session ended, and its score.
Callbacks == [name : {"none", "start", "react", "reactError", "step",
                      "stepError", "scoring", "error", "success", "reuse"},
              what : {"none", "legal", "illegal"},
              why : {"none", "limit"} \cup Ends,
              source : Sources,
              success : BOOLEAN, finished : {"true", "false", "unset"}]
Quiet == [name |-> "none", what |-> "none", why |-> "none",
          source |-> "none", success |-> FALSE, finished |-> "unset"]
Reasons == {"ended", "by agent", "by benchmark", "illegal action",
            "illegal observation", "agent exception", "session exception",
            "benchmark exception", "cancelled"}
Uses == {"touch", "add", "stop", "finish", "advanceRun"}
Statuses == {"success", "unsuccessful", "unfinished", "limit_reached",
             "error", "cancelled", "unknown"}
Labels == {"success", "unsuccessful", "unfinished", "agent error",
           "benchmark error", "cancelled", "error"}

\* None is not a result of a session.
ASSUME NoneAssumption ==
  None \notin [status : Statuses, steps : Nat] \cup [label : Labels, steps : Nat]
-----------------------------------------------------------------------------
Init ==
  /\ at = [s \in Sessions |-> "idle"]
  /\ call = [s \in Sessions |-> Quiet]
  /\ todo = [s \in Sessions |-> <<>>]
  /\ excess = [s \in Sessions |-> 0]
  /\ steps = [o \in Observed |-> [s \in Sessions |-> 0]]
  /\ reasons = [s \in Sessions |-> "ended"]
  /\ recorded = [s \in Sessions |-> None]
  /\ logged = [s \in Sessions |-> None]
  /\ reran = [s \in Sessions |-> FALSE]
  /\ progress = TRUE /\ bars = {} /\ completed = <<>> /\ runDone = 0
  /\ main = "reuse" /\ final = "none" /\ snapshot = None

Move(s, to) == at' = [at EXCEPT ![s] = to]
\* The thread goes on; it leaves run_session by an exception.
GoOn(s, to) == Move(s, to) /\ UNCHANGED call
Leaves(s) == /\ Move(s, "raised")
             /\ call' = [call EXCEPT ![s] = Quiet]
Tell(s, what) == /\ call' = [call EXCEPT ![s] = what]
                 /\ Move(s, "results")
-----------------------------------------------------------------------------
(***************************************************************************)
(* SessionLedger: each observer counts on its own; the numbers it gives    *)
(* the sessions only name them and are left out.                           *)
(***************************************************************************)
Register(o, s) == steps' = [steps EXCEPT ![o][s] = 0]
IncrementSteps(o, s) == steps' = [steps EXCEPT ![o][s] = @ + 1]
PopState(o, s) == steps' = [steps EXCEPT ![o][s] = 0]

IsLegalAction(c) == c.name = "react" /\ c.what = "legal"

Counts(o, s) ==
  CASE call[s].name = "start" -> Register(o, s)
    [] IsLegalAction(call[s]) -> IncrementSteps(o, s)
    [] OTHER -> UNCHANGED steps
-----------------------------------------------------------------------------
(***************************************************************************)
(* ResultsObserver._resolve_session_status: the metadata of the score come *)
(* first, and a benchmark may have scored a session with an error of its   *)
(* own; on_session_error gives a score of zero that names the source and   *)
(* says neither finished nor unfinished.                                   *)
(***************************************************************************)
StatusOf(c) ==
  IF c.source = "cancelled" THEN "cancelled"
  ELSE IF c.why = "limit"
  THEN IF c.finished = "true" /\ c.success THEN "success" ELSE "limit_reached"
  ELSE IF c.source = "error" THEN "error"
  ELSE CASE c.finished = "true" ->
              IF c.success THEN "success" ELSE "unsuccessful"
         [] c.finished = "false" -> "unfinished"
         [] c.finished = "unset" -> IF c.success THEN "unknown" ELSE "error"

\* The last callback of a session; a reused session has no other.
IsEnd(c) == c.name \in {"error", "success", "reuse"}

\* The callbacks that write an entry of the trajectory.
Writes(c) == \/ c.name = "start" \/ IsLegalAction(c)
             \/ c.name = "step" /\ c.what # "illegal"

Record(s, n) == recorded' = [recorded EXCEPT ![s] =
                               [status |-> StatusOf(call[s]), steps |-> n]]

\* _record_session: the cost may be unknown, the file may not be writable.
RecordEnd(s) ==
  /\ call[s].name \in {"error", "success"} /\ PopState("results", s)
  /\ \/ /\ Record(s, steps["results"][s])
        /\ GoOn(s, "file") \/ Leaves(s)
     \/ UNCHANGED recorded /\ Leaves(s)

\* on_session_reuse appends what the file says, its steps included.
RecordReuse(s) ==
  /\ call[s].name = "reuse"
  /\ \E n \in 0..MaxSteps : Record(s, n)
  /\ GoOn(s, "file") /\ UNCHANGED steps

RecordEvent(s) ==
  /\ ~IsEnd(call[s]) /\ Counts("results", s) /\ UNCHANGED recorded
  /\ \/ GoOn(s, "file")
     \/ Writes(call[s]) /\ Leaves(s)

TellResults(s) ==
  /\ at[s] = "results"
  /\ RecordEnd(s) \/ RecordReuse(s) \/ RecordEvent(s)
  /\ UNCHANGED <<excess, todo, reasons, logged, reran, console, run>>
-----------------------------------------------------------------------------
(***************************************************************************)
(* FileLoggerObserver.  A reason is kept once it is set; the end of the    *)
(* session by an error overwrites it.                                      *)
(***************************************************************************)
FirstReason(c) ==
  CASE c.name = "react" /\ c.what = "none" -> "by agent"
    [] c.name = "react" /\ c.what = "illegal" -> "illegal action"
    [] c.name = "reactError" -> "agent exception"
    [] c.name = "step" /\ c.what = "none" -> "by benchmark"
    [] c.name = "step" /\ c.what = "illegal" -> "illegal observation"
    [] c.name = "stepError" -> "session exception"
    [] OTHER -> "ended"

LastReason(c) ==
  CASE c.why = "cancelled" -> "cancelled"
    [] c.why = "agent" -> "agent exception"
    [] OTHER -> "benchmark exception"

\* _status_label: the success flag comes first, the metadata of the score are
\* not looked at, and an error is told from the words of its reason.
ErrorLabel(reason) ==
  CASE reason \in {"by agent", "illegal action", "agent exception"} ->
         "agent error"
    [] reason \in {"by benchmark", "benchmark exception",
                   "session exception", "illegal observation"} ->
         "benchmark error"
    [] reason = "cancelled" -> "cancelled"
    [] OTHER -> "error"

Label(c, reason) ==
  IF c.success THEN "success"
  ELSE CASE c.finished = "true" -> "unsuccessful"
         [] c.finished = "false" -> "unfinished"
         [] c.finished = "unset" -> ErrorLabel(reason)

\* Variant: the reason of an error does not replace an earlier one, and
\* none was set for it before.
EndReasonKept(s) == reasons[s]

EndReason(s) == IF call[s].name = "error" THEN LastReason(call[s])
                ELSE reasons[s]

Log(s, n) == logged' = [logged EXCEPT ![s] =
                          [label |-> Label(call[s], EndReason(s)), steps |-> n]]

LogEnd(s) ==
  /\ call[s].name \in {"error", "success"}
  /\ Log(s, steps["file"][s])
  /\ reasons' = [reasons EXCEPT ![s] = "ended"]
  /\ PopState("file", s)

\* The ledger is left alone; the steps are those of the results.
LogReuse(s) ==
  /\ call[s].name = "reuse"
  /\ Log(s, recorded[s].steps)
  /\ UNCHANGED <<reasons, steps>>

LogEvent(s) ==
  /\ ~IsEnd(call[s])
  /\ reasons' = [reasons EXCEPT ![s] =
                    IF @ = "ended" THEN FirstReason(call[s]) ELSE @]
  /\ Counts("file", s)
  /\ UNCHANGED logged

TellFile(s) ==
  /\ at[s] = "file"
  /\ LogEnd(s) \/ LogReuse(s) \/ LogEvent(s)
  /\ Move(s, "console")
  /\ UNCHANGED <<excess, call, todo, recorded, reran, console, run>>
-----------------------------------------------------------------------------
(***************************************************************************)
(* ConsoleLoggerObserver.  Every helper returns when _progress is None and *)
(* otherwise reads it again to use it.                                     *)
(***************************************************************************)
UsesOf(c) ==
  CASE c.name = "start" -> <<"add">>
    [] IsLegalAction(c) -> <<"touch">>
    [] c.name = "scoring" -> <<"touch">>
    [] c.name \in {"error", "success"} -> <<"touch", "stop", "advanceRun">>
    [] c.name = "reuse" -> <<"finish", "advanceRun">>
    [] OTHER -> <<>>

TellConsole(s) ==
  /\ at[s] = "console" /\ todo[s] = <<>>
  /\ Counts("console", s)
  /\ LET uses == UsesOf(call[s])
     IN /\ todo' = [todo EXCEPT ![s] = uses]
        /\ Move(s, IF uses = <<>> THEN "return" ELSE "console")
  /\ UNCHANGED <<excess, call, reasons, recorded, logged, reran, console, run>>

\* What a failing reuse makes the executor forget of the session.
told == <<call, recorded, logged, reran>>

\* The next helper, or the end of the callback.
Helped(s) == /\ todo' = [todo EXCEPT ![s] = Tail(@)]
             /\ Move(s, IF Len(todo[s]) = 1 THEN "return" ELSE "console")

\* "if self._progress is None: return"
LookAtProgress(s) ==
  /\ at[s] = "console" /\ todo[s] # <<>>
  /\ IF progress THEN Move(s, "use") /\ UNCHANGED todo ELSE Helped(s)
  /\ UNCHANGED <<excess, steps, reasons, told, console, run>>

\* An exception of the console leaves through the tracker and run_session,
\* which names no AttributeError or IndexError.
Escape(s) ==
  /\ call[s].name # "reuse"
  /\ todo' = [todo EXCEPT ![s] = <<>>]
  /\ Move(s, "escaped")
  /\ UNCHANGED told

\* _try_reuse_completed catches it and has the session run, in place, though
\* the other observers were told of its reuse.
Rerun(s) ==
  /\ call[s].name = "reuse"
  /\ todo' = [todo EXCEPT ![s] = <<>>]
  /\ Move(s, "again")
  /\ call' = [call EXCEPT ![s] = Quiet]
  /\ recorded' = [recorded EXCEPT ![s] = None]
  /\ logged' = [logged EXCEPT ![s] = None]
  /\ reran' = [reran EXCEPT ![s] = TRUE]

Raise(s) == Escape(s) \/ Rerun(s)

\* add_task, update, stop_task and advance of the bars.
AddBar(s) ==
  /\ Head(todo[s]) = "add" /\ Helped(s)
  /\ bars' = bars \cup {s} /\ UNCHANGED <<completed, runDone>>

FinishBar(s) ==
  /\ \/ Head(todo[s]) = "finish"
     \/ Head(todo[s]) = "stop" /\ s \in bars
  /\ bars' = bars \ {s} /\ completed' = Append(completed, s)
  /\ Move(s, "measure") /\ UNCHANGED <<runDone, todo>>

AdvanceRun(s) ==
  /\ Head(todo[s]) = "advanceRun" /\ Helped(s)
  /\ runDone' = runDone + 1 /\ UNCHANGED <<bars, completed>>

TouchBar(s) ==
  /\ \/ Head(todo[s]) = "touch"
     \/ Head(todo[s]) = "stop" /\ s \notin bars
  /\ Helped(s) /\ UNCHANGED <<bars, completed, runDone>>

\* The bar goes while the helper works with it: that raises, unless the
\* helper finds its entry gone with the bar, or was done with the bar.
UseProgress(s) ==
  /\ at[s] = "use"
  /\ IF progress
     THEN /\ AddBar(s) \/ FinishBar(s) \/ AdvanceRun(s) \/ TouchBar(s)
          /\ UNCHANGED told
     ELSE /\ \/ Raise(s)
             \/ Head(todo[s]) # "advanceRun" /\ Helped(s) /\ UNCHANGED told
          /\ UNCHANGED <<bars, completed, runDone>>
  /\ UNCHANGED <<excess, steps, reasons, progress, run>>

\* _track_completed_session_task: the length is read, then as many of the
\* oldest are popped; another thread may have popped them.
Measure(s) ==
  /\ at[s] = "measure"
  /\ IF Len(completed) > MaxVisible
     THEN /\ excess' = [excess EXCEPT ![s] = Len(completed) - MaxVisible]
          /\ Move(s, "trim") /\ UNCHANGED todo
     ELSE Helped(s) /\ UNCHANGED excess
  /\ UNCHANGED <<steps, reasons, told, console, run>>

Trim(s) ==
  /\ at[s] = "trim"
  /\ IF excess[s] <= Len(completed)
     THEN /\ completed' = SubSeq(completed, excess[s] + 1, Len(completed))
          /\ Helped(s) /\ UNCHANGED told
     ELSE completed' = <<>> /\ Raise(s)
  /\ excess' = [excess EXCEPT ![s] = 0]
  /\ UNCHANGED <<steps, reasons, progress, bars, runDone, run>>
-----------------------------------------------------------------------------
(***************************************************************************)
(* The session's thread: _run_task_with_lock, run_session and the          *)
(* controllers.                                                            *)
(***************************************************************************)
\* A thread of the pool takes a submitted session; until the futures are
\* cancelled it may while the run is told its end.
PickUp(s) ==
  /\ at[s] = "idle" /\ main \in {"running", "results", "console"}
  /\ GoOn(s, "picked")
  /\ UNCHANGED <<excess, todo, steps, reasons, recorded, logged, reran, console, run>>

\* Another run holds the session's lock.
Skip(s) ==
  /\ at[s] = "picked"
  /\ GoOn(s, "skipped")
  /\ UNCHANGED <<excess, todo, steps, reasons, recorded, logged, reran, console, run>>

\* Another run has completed the session since this one planned it.
Reuse(s) ==
  /\ at[s] = "picked"
  /\ \E success \in BOOLEAN, finished \in {"true", "false"} :
       Tell(s, [Quiet EXCEPT !.name = "reuse", !.success = success,
                             !.finished = finished])
  /\ UNCHANGED <<excess, todo, steps, reasons, recorded, logged, reran, console, run>>

Start(s) ==
  /\ at[s] \in {"picked", "again"}
  /\ \/ Tell(s, [Quiet EXCEPT !.name = "start"])
     \* get_session, get_instance or a start raises
     \/ Leaves(s)
  /\ UNCHANGED <<excess, todo, steps, reasons, recorded, logged, reran, console, run>>

Scoring(s, why) == Tell(s, [Quiet EXCEPT !.name = "scoring", !.why = why])
Error(s, why) ==
  Tell(s, [Quiet EXCEPT !.name = "error", !.why = why,
             !.source = IF why = "cancelled" THEN "cancelled" ELSE "error"])

\* The react of the loop, or its end; the run may be cancelled meanwhile.
React(s) ==
  /\ at[s] = "loop"
  /\ \/ Scoring(s, "none")
     \/ \E what \in {"none", "legal", "illegal"} :
          Tell(s, [Quiet EXCEPT !.name = "react", !.what = what])
     \/ Tell(s, [Quiet EXCEPT !.name = "reactError"])
     \/ Error(s, "cancelled")
  /\ UNCHANGED <<excess, todo, steps, reasons, recorded, logged, reran, console, run>>

StepEnv(s) ==
  /\ at[s] = "stepping"
  /\ \/ \E what \in {"none", "legal", "illegal"} :
          Tell(s, [Quiet EXCEPT !.name = "step", !.what = what])
     \/ Tell(s, [Quiet EXCEPT !.name = "stepError"])
     \/ Error(s, "cancelled")
  /\ UNCHANGED <<excess, todo, steps, reasons, recorded, logged, reran, console, run>>

\* LimitController: the steps it counted are those the console counted.
LimitReached(s) == steps["console"][s] >= MaxSteps

\* The callback is over; the controllers and the except clauses decide.
Return(s) ==
  /\ at[s] = "return"
  /\ LET c == call[s]
     IN CASE c.name = "start" -> GoOn(s, "loop")
          [] IsLegalAction(c) -> GoOn(s, "stepping")
          [] c.name = "step" /\ c.what = "legal" ->
               IF LimitReached(s) THEN Scoring(s, "limit")
               ELSE GoOn(s, "loop")
          [] c.name \in {"react", "step"} /\ c.what = "none" ->
               Scoring(s, "none")
          [] c.name = "reactError" \/ (c.name = "react" /\ c.what = "illegal")
               -> Error(s, "agent")
          [] c.name = "stepError" \/ (c.name = "step" /\ c.what = "illegal")
               -> Error(s, "benchmark")
          [] c.name = "scoring" -> GoOn(s, "score")
          [] IsEnd(c) -> GoOn(s, "done")
  /\ UNCHANGED <<excess, todo, steps, reasons, recorded, logged, reran, console, run>>

\* session.score() answers, or raises past every except clause.
Score(s) ==
  /\ at[s] = "score"
  /\ \/ \E success \in BOOLEAN, finished \in {"true", "false"},
             source \in Sources :
          /\ call[s].why = "limit" => finished = "false"
          /\ Tell(s, [call[s] EXCEPT !.name = "success", !.success = success,
                                     !.finished = finished, !.source = source])
     \/ Leaves(s)
  /\ UNCHANGED <<excess, todo, steps, reasons, recorded, logged, reran, console, run>>
-----------------------------------------------------------------------------
(***************************************************************************)
(* The main thread: core_run and execute_sessions.                         *)
(***************************************************************************)
\* load_reused_results, told before a session starts; every bar it adds is
\* a finished one.
TellReused ==
  /\ main = "reuse"
  /\ \E all \in SetToAllKPermutations(Reused) :
       /\ Len(all) = Cardinality(Reused)
       /\ completed' = SubSeq(all, Len(all) - (IF Len(all) < MaxVisible
                                THEN Len(all) ELSE MaxVisible) + 1, Len(all))
       /\ runDone' = Len(all)
  /\ main' = "running"
  /\ UNCHANGED <<excess, at, call, todo, steps, reasons, recorded, logged, reran,
                 progress, bars, final, snapshot>>

Ended(s) == at[s] \in {"done", "skipped", "raised", "escaped"}
\* A cancelled session raises again once it is closed, an exception that
\* leaves run_session fails its future: either makes the main thread tell the
\* run's end at once.
Fails(s) == \/ at[s] \in {"raised", "escaped"}
            \/ at[s] = "done" /\ call[s].why = "cancelled"

\* on_run_error and on_run_success: only the first is told.
EndRun(state) ==
  /\ main = "running" /\ final = "none"
  /\ IF state = "error" THEN \E s \in Sessions : Fails(s)
     ELSE \A s \in Sessions : Ended(s) /\ ~Fails(s)
  /\ final' = state /\ main' = "results"

\* _write_run_results, then the file log, then _stop_progress.
EndRunResults ==
  /\ main = "results"
  /\ snapshot' = {s \in Sessions : recorded[s] # None \/ reran[s]}
  /\ main' = "console"
  /\ UNCHANGED <<console, final>>

StopProgress ==
  /\ main = "console"
  /\ progress' = FALSE /\ bars' = {}
  /\ main' = "join"
  /\ UNCHANGED <<completed, runDone, final, snapshot>>

\* Variant: what never started is waited for, too.
JoinEvery ==
  /\ main = "join"
  /\ \A s \in Sessions : Ended(s)
  /\ main' = "over"
  /\ UNCHANGED <<console, final, snapshot>>

\* The executor waits for what it submitted; what is left never starts.
Join ==
  /\ main = "join"
  /\ \A s \in Sessions : Ended(s) \/ at[s] = "idle"
  /\ main' = "over"
  /\ UNCHANGED <<console, final, snapshot>>

Main ==
  \/ TellReused
  \/ /\ \/ \E state \in {"success", "error"} :
             EndRun(state) /\ UNCHANGED <<console, snapshot>>
        \/ EndRunResults \/ StopProgress \/ Join
     /\ UNCHANGED <<excess, at, call, todo, steps, reasons, recorded, logged, reran>>

Session(s) ==
  \/ PickUp(s) \/ Skip(s) \/ Reuse(s)
  \/ Start(s) \/ React(s) \/ StepEnv(s) \/ Return(s) \/ Score(s)
  \/ TellResults(s) \/ TellFile(s) \/ TellConsole(s)
  \/ LookAtProgress(s) \/ UseProgress(s) \/ Measure(s) \/ Trim(s)

Next == Main \/ \E s \in Sessions : Session(s)

\* Every thread is scheduled.
Spec == /\ Init /\ [][Next]_vars
        /\ WF_vars(Main) /\ \A s \in Sessions : WF_vars(Session(s))
-----------------------------------------------------------------------------
\* Type invariant.
TypeOK ==
  /\ at \in [Sessions -> Places]
  /\ call \in [Sessions -> Callbacks]
  /\ todo \in [Sessions -> Seq(Uses)]
  /\ excess \in [Sessions -> Nat]
  /\ steps \in [Observed -> [Sessions -> 0..MaxSteps]]
  /\ reasons \in [Sessions -> Reasons]
  /\ recorded \in [Sessions -> [status : Statuses, steps : Nat] \cup {None}]
  /\ logged \in [Sessions -> [label : Labels, steps : Nat] \cup {None}]
  /\ reran \in [Sessions -> BOOLEAN]
  /\ progress \in BOOLEAN /\ bars \subseteq Sessions
  /\ completed \in Seq(Sessions \cup Reused)
  /\ runDone \in 0..Cardinality(Sessions \cup Reused)
  /\ main \in {"reuse", "running", "results", "console", "join", "over"}
  /\ final \in {"none", "success", "error"}
  /\ snapshot \in (SUBSET Sessions) \cup {None}

\* The labels tracker.log may give a session of a recorded status: a session
\* stopped by a limit counts there as a success when its score does.
LabelsFor(status) ==
  CASE status = "success" -> {"success"}
    [] status = "unsuccessful" -> {"unsuccessful"}
    [] status = "unfinished" -> {"unfinished", "success"}
    [] status = "limit_reached" -> {"unfinished", "success"}
    [] status = "error" -> {"agent error", "benchmark error"}
    [] status = "cancelled" -> {"cancelled"}
    [] status = "unknown" -> {"success"}

\* The benchmark scored the session and reports an error in the score.
Marked(c) == c.name = "success" /\ c.source # "none"

(***************************************************************************)
(* results.json and tracker.log tell the same story of a session: both     *)
(* count the same steps, whichever way the session ended or was reused,    *)
(* and the label agrees with the status, unless the benchmark put an error *)
(* into the score, which only the status tells (_resolve_session_status,   *)
(* _status_label, SessionLedger).                                          *)
(***************************************************************************)
LogAgrees ==
  \A s \in Sessions : logged[s] # None =>
    /\ recorded[s] # None
    /\ logged[s].steps = recorded[s].steps
    /\ logged[s].label \in LabelsFor(recorded[s].status) \/ Marked(call[s])

(***************************************************************************)
(* A session that ended and was told to the observers is in its results    *)
(* and in the log, and while the bar is up the run's bar counts it once,   *)
(* rerun after a failing reuse or not; the console loses a session before  *)
(* its end is recorded only when the run was told its end while the        *)
(* session ran (on_run_error before the executor has joined, logger.py     *)
(* _stop_progress).                                                        *)
(***************************************************************************)
EndsTold ==
  /\ \A s \in Sessions : at[s] = "done" =>
       recorded[s] # None /\ logged[s] # None
  /\ progress /\ main = "running" /\ (\A s \in Sessions : Ended(s)) =>
       runDone = Cardinality({s \in Sessions : at[s] = "done"} \cup Reused)
  /\ \A s \in Sessions :
       at[s] = "escaped" /\ recorded[s] = None => final # "none" /\ ~progress

\* The results, tracker.log and the console agree on how a session ended, and
\* none of them misses its end (the loops over Tracker._observers).
EndsAgree == TypeOK /\ LogAgrees /\ EndsTold

(***************************************************************************)
(* The run is told its end and every session it started ends: the limit    *)
(* ends every loop, and neither the console's races nor an exception of a  *)
(* session keep the main thread waiting.                                   *)
(***************************************************************************)
RunEnds == <>(main = "over" /\ \A s \in Sessions : Ended(s) \/ at[s] = "idle")
=============================================================================
