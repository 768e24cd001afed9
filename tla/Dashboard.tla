------------------------------ MODULE Dashboard ------------------------------
(***************************************************************************)
(* The dashboard: each run it starts has a worker thread and an observer   *)
(* whose events reach the page through a bounded queue; a timer of the     *)
(* page takes them out one by one, a burst at a time.  Next to the live    *)
(* view stands the history view, which reads what the run wrote to disk.   *)
(* A flush of the observer, under its lock, is one step.                   *)
(***************************************************************************)
EXTENDS Naturals, Sequences, FiniteSets

CONSTANTS SessionIds,   \* session ids, which are the same in every run
          Planned,      \* the sessions of the 1st, 2nd ... run that is started
          Outcomes,     \* what a session may end with
          MaxReactions, \* bound: reactions of a session
          Workers,      \* max_workers of a parallel run
          Capacity,     \* Queue(maxsize)
          Batch,        \* pending events that force a flush
          Burst         \* max_events: what the page takes per refresh

ASSUME DashboardAssumption ==
    /\ Planned \in Seq(SUBSET SessionIds) /\ MaxReactions \in Nat
    /\ {Workers, Capacity, Batch, Burst} \subseteq Nat \ {0}

VARIABLES
    \* per run: the worker thread, its sessions, and what they wrote
    phase, serial, place, sessionSteps, outcome, raised, records, report,
    \* per run: the observer
    pending, queue, dropped,
    \* the page
    tracker, active, scope, shown,
    taken          \* the events of the refresh under way

worker  == <<phase, serial, place, sessionSteps, outcome, raised, records, report>>
emitter == <<pending, queue, dropped>>
page    == <<tracker, active, scope, shown, taken>>
dashboardVars == <<worker, emitter, page>>

Runs     == 1..Len(Planned)     \* bound: runs that are started
NoRun    == 0
NoSession == "none"
ShownStatuses == {"success", "unsuccessful", "unfinished", "agent error",
                  "benchmark error", "cancelled", "error", "running"}
NotShown == [status |-> "absent", steps |-> 0]

-----------------------------------------------------------------------------
(* What ends a session, as the observers are told.                          *)

Errors  == {"AgentError", "BenchmarkError", "SessionCancelError", "RunCancelError"}
Scores  == [error : {"none"}, success : BOOLEAN, finished : {"yes", "no"}]
Failed  == [error : Errors, success : {FALSE}, finished : {"unset"}]
NoneYet == [error |-> "none", success |-> FALSE, finished |-> "unset"]
ASSUME OutcomesAssumption == Outcomes \subseteq Scores \cup Failed

\* Two observers classify an error, each for itself.
LiveSource(e) ==
    IF e = "AgentError" THEN "agent"
    ELSE IF e = "BenchmarkError" THEN "benchmark" ELSE "cancelled"

RecordedSource(e) ==
    IF e \in {"SessionCancelError", "RunCancelError"} THEN "cancelled"
    ELSE IF e = "AgentError" THEN "agent" ELSE "benchmark"

StatusFromOutcome(success, finished, source) ==
    CASE success -> "success"
      [] ~success /\ finished = "yes" -> "unsuccessful"
      [] ~success /\ finished = "no"  -> "unfinished"
      [] OTHER -> CASE source = "agent"     -> "agent error"
                    [] source = "benchmark" -> "benchmark error"
                    [] source = "cancelled" -> "cancelled"
                    [] OTHER                -> "error"

LiveStatus(o) ==
    StatusFromOutcome(o.success, o.finished,
                      IF o.error = "none" THEN "none" ELSE LiveSource(o.error))

\* The history view: success, is_finished and error_source of the results.
HistoryStatus(o) ==
    StatusFromOutcome(o.success, o.finished,
                      IF o.error = "none" THEN "none" ELSE RecordedSource(o.error))

-----------------------------------------------------------------------------
DashboardTypeOK ==
    /\ phase \in [Runs -> {"off", "worker", "running", "recorded", "flushed", "final", "over"}]
    /\ serial \in [Runs -> BOOLEAN] /\ raised \in [Runs -> SUBSET {"cancel", "failure"}]
    /\ place \in [Runs -> [SessionIds -> {"waiting", "setup", "running", "acted", "stopping",
                                         "ending", "ended", "lost"}]]
    /\ sessionSteps \in [Runs -> [SessionIds -> 0..MaxReactions]]
    /\ outcome \in [Runs -> [SessionIds -> Scores \cup Failed \cup {NoneYet}]]
    /\ records \in [Runs -> SUBSET SessionIds]
    /\ report \in [Runs -> SUBSET SessionIds]
    /\ \A r \in Runs : Len(queue[r]) <= Capacity /\ Len(pending[r]) < Batch
    /\ dropped \in [Runs -> BOOLEAN]
    /\ tracker \in {NoRun} \cup Runs
    /\ active \in BOOLEAN /\ scope = IF active THEN tracker ELSE NoRun
    /\ shown \in [SessionIds -> [status : ShownStatuses \cup {"absent"}, steps : Nat]]
    /\ taken \in 0..Burst

DashboardInit ==
    /\ phase = [r \in Runs |-> "off"] /\ serial = [r \in Runs |-> FALSE]
    /\ place = [r \in Runs |-> [s \in SessionIds |-> "waiting"]]
    /\ sessionSteps = [r \in Runs |-> [s \in SessionIds |-> 0]]
    /\ outcome = [r \in Runs |-> [s \in SessionIds |-> NoneYet]]
    /\ raised = [r \in Runs |-> {}]
    /\ records = [r \in Runs |-> {}] /\ report = [r \in Runs |-> {}]
    /\ pending = [r \in Runs |-> <<>>] /\ queue = [r \in Runs |-> <<>>]
    /\ dropped = [r \in Runs |-> FALSE]
    /\ tracker = NoRun /\ active = FALSE /\ scope = NoRun
    /\ shown = [s \in SessionIds |-> NotShown] /\ taken = 0

-----------------------------------------------------------------------------
(* The observer's queue.  A full queue loses its oldest event to the new    *)
(* one; if another thread of the run is faster, it is lost as well.         *)

Newest(q) == IF Len(q) > Capacity THEN SubSeq(q, Len(q) - Capacity + 1, Len(q)) ELSE q

Overflow(r, n) ==
    dropped' = [dropped EXCEPT ![r] = @ \/ Len(queue[r]) + n > Capacity]

\* Session starts and ends, the run id and "saved" go straight to the queue.
EmitNow(r, e) ==
    /\ Overflow(r, 1)
    /\ \/ queue' = [queue EXCEPT ![r] = Newest(Append(@, e))]
       \/ /\ ~serial[r] /\ Len(queue[r]) = Capacity
          /\ queue' = [queue EXCEPT ![r] = Tail(@)]
    /\ UNCHANGED pending

\* _flush_batch(): the first event that is lost ends it, the rest stays.
Flush(r, events) ==
    /\ Overflow(r, Len(events))
    /\ \/ /\ queue' = [queue EXCEPT ![r] = Newest(@ \o events)]
          /\ pending' = [pending EXCEPT ![r] = <<>>]
       \/ \E k \in 1..Len(events) :
             /\ ~serial[r] /\ Len(queue[r]) + k > Capacity
             /\ queue' = [queue EXCEPT ![r] = Tail(Newest(@ \o SubSeq(events, 1, k - 1)))]
             /\ pending' = [pending EXCEPT ![r] = SubSeq(events, k + 1, Len(events))]

\* The rest is collected; it goes on when enough is there or time has passed.
EmitLater(r, e) ==
    \E due \in BOOLEAN :
        IF due \/ Len(pending[r]) + 1 >= Batch
        THEN Flush(r, Append(pending[r], e))
        ELSE pending' = [pending EXCEPT ![r] = Append(@, e)] /\ UNCHANGED <<queue, dropped>>

\* Variant: the end of a session overtakes its last steps.
FlushPendingNot(r) == UNCHANGED emitter

FlushPending(r) == Flush(r, pending[r])

Event(type, s, n) == [type |-> type, sid |-> s, n |-> n]

-----------------------------------------------------------------------------
(* The worker thread of run r and the threads of its sessions.              *)

Busy(r) == {s \in SessionIds : place[r][s] \in {"setup", "running", "acted", "stopping", "ending"}}

Moves(r, s, to) == place' = [place EXCEPT ![r][s] = to]

\* evaluate() reaches the observers; the run id is sent once.
Begin(r) ==
    /\ phase[r] = "worker"
    /\ phase' = [phase EXCEPT ![r] = "running"]
    /\ EmitNow(r, Event("run_meta", NoSession, 0))
    /\ UNCHANGED <<serial, place, sessionSteps, outcome, raised, records, report, page>>

\* Or it raises before: the log has it, no event does.
CrashEarly(r) ==
    /\ phase[r] = "worker"
    /\ phase' = [phase EXCEPT ![r] = "over"]
    /\ UNCHANGED <<serial, place, sessionSteps, outcome, raised, records, report, emitter, page>>

Setup(r, s) ==
    /\ phase[r] = "running" /\ (serial[r] => raised[r] = {})
    /\ s \in Planned[r] /\ place[r][s] = "waiting"
    /\ Cardinality(Busy(r)) < IF serial[r] THEN 1 ELSE Workers
    /\ Moves(r, s, "setup")
    /\ UNCHANGED <<phase, serial, sessionSteps, outcome, raised, records, report, emitter, page>>

SessionStart(r, s) ==
    /\ place[r][s] = "setup"
    /\ Moves(r, s, "running")
    /\ sessionSteps' = [sessionSteps EXCEPT ![r][s] = 0]
    /\ EmitNow(r, Event("session_started", s, 0))
    /\ UNCHANGED <<phase, serial, outcome, raised, records, report, page>>

\* Every reaction counts, also the one without an action, which ends the loop.
ReactSuccess(r, s) ==
    /\ place[r][s] = "running" /\ sessionSteps[r][s] < MaxReactions
    /\ \E next \in {"acted", "stopping"} : Moves(r, s, next)
    /\ sessionSteps' = [sessionSteps EXCEPT ![r][s] = @ + 1]
    /\ EmitLater(r, Event("step", s, sessionSteps'[r][s]))
    /\ UNCHANGED <<phase, serial, outcome, raised, records, report, page>>

StepSuccess(r, s) ==
    /\ place[r][s] = "acted"
    /\ Moves(r, s, "running")
    /\ EmitLater(r, Event("observation", s, sessionSteps[r][s]))
    /\ UNCHANGED <<phase, serial, sessionSteps, outcome, raised, records, report, page>>

\* on_session_success or on_session_error: what is pending goes first.  An
\* error may come before the session was started, a score may not.
EndSession(r, s) ==
    /\ place[r][s] \in {"setup", "running", "acted", "stopping"}
    /\ \E o \in Outcomes :
           /\ place[r][s] = "setup" => o \in Failed
           /\ outcome' = [outcome EXCEPT ![r][s] = o]
    /\ Moves(r, s, "ending")
    /\ FlushPending(r)
    /\ UNCHANGED <<phase, serial, sessionSteps, raised, records, report, page>>

SessionFinished(r, s) ==
    /\ place[r][s] = "ending"
    /\ Moves(r, s, "ended")
    /\ records' = [records EXCEPT ![r] = @ \cup {s}]
    /\ EmitNow(r, Event("session_finished", s, sessionSteps[r][s]))
    /\ raised' = IF outcome[r][s].error = "RunCancelError"
                 THEN [raised EXCEPT ![r] = @ \cup {"cancel"}] ELSE raised
    /\ UNCHANGED <<phase, serial, sessionSteps, outcome, report, page>>

\* An exception run_session does not handle, or one of score() itself: no
\* observer hears of the end of this session.
SessionLost(r, s) ==
    /\ place[r][s] \in {"setup", "running", "acted", "stopping"}
    /\ Moves(r, s, "lost")
    /\ raised' = [raised EXCEPT ![r] = @ \cup {"failure"}]
    /\ UNCHANGED <<phase, serial, sessionSteps, outcome, records, report, emitter, page>>

\* The end of the run: the results are written, and the observer is told.
Recorded(r) ==
    /\ phase' = [phase EXCEPT ![r] = "recorded"]
    /\ report' = [report EXCEPT ![r] = records[r]]
    /\ UNCHANGED <<serial, place, sessionSteps, outcome, raised, records, page>>

RunSuccess(r) ==
    /\ phase[r] = "running" /\ raised[r] = {}
    /\ \A s \in Planned[r] : place[r][s] = "ended"
    /\ Recorded(r)
    /\ EmitLater(r, Event("benchmark_recorded", NoSession, 0))

\* In a pool any exception of a session ends the run while other sessions
\* are still under way; in a serial run only a cancellation is reported.
RunError(r) ==
    /\ phase[r] = "running"
    /\ raised[r] # {} /\ (serial[r] => "cancel" \in raised[r])
    /\ Recorded(r) /\ UNCHANGED emitter

\* emit_saved(): what is pending goes out, and "saved" after it.
LastFlush(r) ==
    /\ phase[r] = "recorded"
    /\ phase' = [phase EXCEPT ![r] = "flushed"]
    /\ FlushPending(r)
    /\ UNCHANGED <<serial, place, sessionSteps, outcome, raised, records, report, page>>

Saved(r) ==
    /\ phase[r] = "flushed"
    /\ phase' = [phase EXCEPT ![r] = "final"]
    /\ EmitNow(r, Event("saved", NoSession, 0))
    /\ UNCHANGED <<serial, place, sessionSteps, outcome, raised, records, report, page>>

\* Any other exception leaves the serial run, and only the log has it.
CrashLate(r) ==
    /\ phase[r] = "running" /\ serial[r] /\ raised[r] = {"failure"}
    /\ phase' = [phase EXCEPT ![r] = "over"]
    /\ UNCHANGED <<serial, place, sessionSteps, outcome, raised, records, report, emitter, page>>

ThreadEnds(r) ==
    /\ phase[r] = "final" /\ Busy(r) = {}
    /\ phase' = [phase EXCEPT ![r] = "over"]
    /\ UNCHANGED <<serial, place, sessionSteps, outcome, raised, records, report, emitter, page>>

-----------------------------------------------------------------------------
(* The page.                                                                *)

CleanSlate == [s \in SessionIds |-> NotShown]

StartRun ==
    /\ ~active /\ taken = 0 /\ tracker < Len(Planned)
    /\ tracker' = tracker + 1 /\ scope' = tracker'
    /\ active' = TRUE
    /\ shown' = CleanSlate
    /\ phase' = [phase EXCEPT ![tracker'] = "worker"]
    /\ \E one \in BOOLEAN : serial' = [serial EXCEPT ![tracker'] = one]
    /\ UNCHANGED <<taken, place, sessionSteps, outcome, raised, records, report, emitter>>

ShowStep(view, s) == [view EXCEPT ![s].steps = @ + 1]

\* One event of the queue; what is unknown of a session is not shown.
Show(view, e) ==
    CASE e.type = "session_started" ->
            [view EXCEPT ![e.sid] = [status |-> "running", steps |-> 0]]
      [] e.type = "step" /\ view[e.sid] # NotShown -> ShowStep(view, e.sid)
      [] e.type = "session_finished" /\ view[e.sid] # NotShown ->
            [view EXCEPT ![e.sid] = [status |-> LiveStatus(outcome[tracker][e.sid]), steps |-> e.n]]
      [] OTHER -> view

\* Variant: only "saved" ends a run.
ThreadDeadNot == FALSE

ThreadDead == tracker # NoRun /\ phase[tracker] = "over"

\* process_new_events() takes up to Burst events, as long as there are any.
TakeEvent ==
    /\ tracker # NoRun /\ taken < Burst /\ queue[tracker] # <<>>
    /\ LET e == Head(queue[tracker]) IN
          /\ shown' = Show(shown, e)
          /\ active' = (active /\ e.type # "saved")
          /\ scope' = IF e.type = "saved" THEN NoRun ELSE scope
    /\ queue' = [queue EXCEPT ![tracker] = Tail(@)] /\ taken' = taken + 1
    /\ UNCHANGED <<worker, pending, dropped, tracker>>

\* Then the thread is looked at.
EndRefresh ==
    /\ tracker # NoRun /\ (taken = Burst \/ queue[tracker] = <<>>)
    /\ taken' = 0
    /\ active' = (active /\ ~ThreadDead)
    /\ scope' = IF active /\ ThreadDead THEN NoRun ELSE scope
    /\ UNCHANGED <<worker, emitter, tracker, shown>>

Refresh == TakeEvent \/ EndRefresh

-----------------------------------------------------------------------------
SessionStep(r, s) ==
    \/ SessionStart(r, s) \/ ReactSuccess(r, s) \/ StepSuccess(r, s)
    \/ EndSession(r, s) \/ SessionFinished(r, s) \/ SessionLost(r, s)

RunStep(r) ==
    \/ Begin(r) \/ CrashEarly(r) \/ RunSuccess(r) \/ RunError(r)
    \/ LastFlush(r) \/ Saved(r) \/ CrashLate(r) \/ ThreadEnds(r)
    \/ \E s \in SessionIds : Setup(r, s)

DashboardNext ==
    \/ \E r \in Runs : RunStep(r)
    \/ \E r \in Runs, s \in SessionIds : SessionStep(r, s)
    \/ StartRun \/ Refresh

Work(r) == RunStep(r) \/ \E s \in SessionIds : SessionStep(r, s)

\* The page's timer goes on, and so does each run: somewhere in it a call of
\* an agent or a benchmark ends.
Fairness ==
    /\ WF_dashboardVars(Refresh)
    /\ \A r \in Runs : WF_dashboardVars(Work(r))

DashboardSpec == DashboardInit /\ [][DashboardNext]_dashboardVars /\ Fairness

-----------------------------------------------------------------------------
(* Properties.                                                              *)

Drained == tracker # NoRun /\ queue[tracker] = <<>> /\ pending[tracker] = <<>>

\* What the page shows of session s when no event is under way or was lost.
Truth(s) ==
    LET r == tracker IN
    CASE place[r][s] \in {"waiting", "setup"} -> {NotShown}
      [] place[r][s] = "ended" /\ sessionSteps[r][s] > 0 ->
             {[status |-> LiveStatus(outcome[r][s]), steps |-> sessionSteps[r][s]]}
      [] place[r][s] = "ended" /\ sessionSteps[r][s] = 0 ->       \* perhaps never started
             {[status |-> LiveStatus(outcome[r][s]), steps |-> 0], NotShown}
      [] place[r][s] \in {"running", "acted", "stopping"} ->
             {[status |-> "running", steps |-> sessionSteps[r][s]]}
      [] OTHER -> {[status |-> "running", steps |-> sessionSteps[r][s]], NotShown}

\* Events of several threads take two ways into the queue, in any order and
\* in bursts, and a run may be started while the last one still drains:
\* once nothing is under way the page shows each session of its run as it is.
ShownFaithful == Drained /\ ~dropped[tracker] => \A s \in SessionIds : shown[s] \in Truth(s)

\* A session the page shows as over has the same status in the history view,
\* which the results file of another observer is read for.
HistoryAgrees ==
    tracker # NoRun =>
        \A s \in report[tracker] :
            shown[s].status \in {"absent", "running", HistoryStatus(outcome[tracker][s])}

\* What both views show of a run that is over agrees with how its sessions
\* ended, and with each other.
ViewsAgree == DashboardTypeOK /\ ShownFaithful /\ HistoryAgrees

\* The page always becomes ready for another run: "saved" was seen, or the
\* thread is found dead because the run crashed or the event was lost.
RunSettles == active ~> ~active
=============================================================================
