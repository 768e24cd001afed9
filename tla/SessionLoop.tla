----------------------------- MODULE SessionLoop -----------------------------
(***************************************************************************)
(* One session from run_session_config (core/orchestrator/execution.py)    *)
(* through run_session (core/orchestrator/session.py): the react/step loop *)
(* between the agent instance and the benchmark session, the controllers   *)
(* that may stop it, the except clauses that end it, and what the          *)
(* ResultsObserver records of it.                                          *)
(*                                                                         *)
(* Each call to the agent, the benchmark or the tracker is a step; what it *)
(* returns or raises is chosen by the environment.  A handler is the plan  *)
(* of calls its except clause makes, carried out one call at a time.       *)
(***************************************************************************)
EXTENDS Naturals, Sequences

CONSTANTS
  MaxSteps, MaxActions,  \* run_config.max_steps and max_actions
  MaxParallel,           \* bound: single actions in one (parallel) action
  Limited,               \* the tracker has a LimitController (use_defaults)
  Horizon                \* bound: the ledger counts steps up to it

ASSUME LoopAssumption ==
  /\ MaxSteps \in Nat \ {0}
  /\ MaxActions \in Nat \ {0}
  /\ MaxParallel \in Nat \ {0}
  /\ Limited \in BOOLEAN
  /\ Horizon \in Nat \ {0}

VARIABLES
  pc,         \* the call to make next
  observation,\* the last observation: "none", "some"
  done,       \* what session.done() answers
  session,    \* the session: "none", "open" or "closed" (close was called)
  agent,      \* the agent instance: "unbound", "open" or "closed"
  factories,  \* the subset of {"benchmark", "agent"} whose close was called
  exc,        \* the exception in flight or that left the call, or "none"
  plan,       \* the calls the active except clause has still to make
  counts,     \* LimitController: [steps, actions] of this session
  ledger,     \* the steps SessionLedger counted (0 when not registered)
  score,      \* what session.score() returned, or NoScore
  records,    \* the SessionResults recorded for the session
  reported,   \* history: the call that records the session returned
  callback    \* the last observer callback

vars == <<pc, observation, done, session, agent, factories, exc, plan, counts,
          ledger, score, records, reported, callback>>

Cancels == {"KeyboardInterrupt", "RunCancel"}
Terminations == {"AgentTermination", "BenchmarkTermination"}
\* What a call into benchmark or agent code may raise outside the loop.
\* HealthCheckError is a RuntimeError; "Other" is any other exception.
CallErrors == {"KeyboardInterrupt", "HealthCheckError", "RuntimeError", "Other"}
\* What a user's controller may raise to stop the session or the run.
ControllerErrors == {"SessionCancel", "RunCancel", "RuntimeError"}
Exceptions == Cancels \cup Terminations \cup CallErrors \cup ControllerErrors
                \cup {"AgentError", "BenchmarkError", "LimitReached"}

\* source is the trouble that the score's own metadata tells of: the
\* error_source, or "error" for a message that has none.
NoScore == [success |-> FALSE, finished |-> "none", limit |-> FALSE,
            source |-> "none"]
Scores == [success : BOOLEAN, finished : {"none", "true", "false"},
           limit : BOOLEAN,
           source : {"none", "cancelled", "agent", "benchmark", "error"}]

Calls == {"record", "score", "recordScored", "closeBoth", "closeAgent",
          "raise"}

(***************************************************************************)
(* The except clauses of run_session, in the order Python tries them.      *)
(***************************************************************************)
HandlerPlan(e) ==
  CASE e \in Cancels -> <<"record", "closeBoth", "raise">>
    [] e \in {"AgentError", "SessionCancel"} -> <<"record", "closeBoth">>
    [] e \in Terminations \cup {"LimitReached"} ->
         <<"score", "recordScored", "closeBoth">>
    [] e = "BenchmarkError" -> <<"record", "closeAgent">>
    [] e = "HealthCheckError" -> <<"record">>
    [] OTHER -> <<"raise">>

\* Control leaves the try block with exception e.
Raise(e) == /\ exc' = e
            /\ plan' = HandlerPlan(e)
            /\ pc' = "handle"

\* An exception leaves run_session itself; only the finally clauses remain.
Escape(e) == /\ exc' = e
             /\ plan' = <<>>
             /\ pc' = "closeBenchmark"

Proceed(to) == pc' = to /\ UNCHANGED <<exc, plan>>

(***************************************************************************)
(* ResultsObserver._resolve_session_status.                                *)
(***************************************************************************)
ErrorStatus(e) ==
  IF e \in Cancels \cup {"SessionCancel"} THEN "cancelled" ELSE "error"

ScoreStatus(s) ==
  IF s.source = "cancelled" THEN "cancelled"
  ELSE IF s.limit
    THEN IF s.finished = "true" /\ s.success THEN "success" ELSE "limit_reached"
  ELSE IF s.source # "none" THEN "error"
  ELSE CASE s.finished = "true" ->
              IF s.success THEN "success" ELSE "unsuccessful"
         [] s.finished = "false" -> "unfinished"
         [] s.finished = "none" -> IF s.success THEN "unknown" ELSE "error"

Statuses == {"success", "unsuccessful", "unfinished", "limit_reached",
             "error", "cancelled", "unknown"}

\* What an except clause does between its calls.
Handling(call) == pc = "handle" /\ plan # <<>> /\ Head(plan) = call
NextCall == plan' = Tail(plan) /\ UNCHANGED <<pc, exc>>

\* ResultsObserver._record_session and the observers after it: the ledger
\* entry is popped (a session that never started has no steps), then the
\* result is appended.  Asking for the costs before that, writing the file
\* and the later observers may raise, which leaves run_session.
Record(status) ==
  LET recorded == Append(records, [status |-> status, steps |-> ledger]) IN
  /\ ledger' = 0
  /\ \/ records' = recorded /\ reported' = TRUE /\ NextCall
     \/ /\ records' \in {records, recorded}
        /\ \E e \in CallErrors : Escape(e)
        /\ UNCHANGED reported
-----------------------------------------------------------------------------
Init ==
  /\ pc = "construct"
  /\ observation = "none" /\ done = FALSE
  /\ session = "none" /\ agent = "unbound" /\ factories = {}
  /\ exc = "none" /\ plan = <<>>
  /\ counts = [steps |-> 0, actions |-> 0]
  /\ ledger = 0
  /\ score = NoScore
  /\ records = <<>> /\ reported = FALSE
  /\ callback = "none"

\* Loading and instantiating the benchmark and the agent; on_session_enter.
Construct ==
  /\ pc = "construct"
  /\ \/ /\ Proceed("getSession")
        /\ callback' = "enter"
     \/ /\ \E e \in CallErrors : exc' = e
        /\ pc' = "done"
        /\ UNCHANGED <<plan, callback>>
  /\ UNCHANGED <<observation, done, session, agent, factories, counts,
                 ledger, score, records, reported>>

\* benchmark.get_session is outside the try block whose finally closes the
\* benchmark and the agent.
GetSession ==
  /\ pc = "getSession"
  /\ \/ /\ session' = "open"
        /\ callback' = "creation"
        /\ Proceed("getInstance")
     \/ /\ \E e \in CallErrors : exc' = e
        /\ pc' = "done"
        /\ UNCHANGED <<session, callback, plan>>
  /\ UNCHANGED <<observation, done, agent, factories, counts, ledger, score,
                 records, reported>>

GetInstance ==
  /\ pc = "getInstance"
  /\ \/ agent' = "open" /\ Proceed("start")
     \/ (\E e \in CallErrors : Raise(e)) /\ UNCHANGED agent
  /\ UNCHANGED <<observation, done, session, factories, counts, ledger,
                 score, records, reported, callback>>

\* session.start() returns the first observation, which may be None.
Start ==
  /\ pc = "start"
  /\ \/ /\ observation' \in {"none", "some"}
        /\ done' \in BOOLEAN
        /\ Proceed("agentStart")
     \/ (\E e \in CallErrors : Raise(e)) /\ UNCHANGED <<observation, done>>
  /\ UNCHANGED <<session, agent, factories, counts, ledger, score, records,
                 reported, callback>>

\* agent_instance.start(), then on_session_start, which registers the ledger.
AgentStart ==
  /\ pc = "agentStart"
  /\ \/ /\ ledger' = 0
        /\ callback' = "start"
        /\ Proceed("check")
     \/ (\E e \in CallErrors : Raise(e)) /\ UNCHANGED <<ledger, callback>>
  /\ UNCHANGED <<observation, done, session, agent, factories, counts, score,
                 records, reported>>

\* The while condition, and the terminations raised when the loop ends.
Check ==
  /\ pc = "check"
  /\ \/ ~done /\ observation # "none" /\ Proceed("react")
     \/ done /\ Raise("BenchmarkTermination")
     \/ ~done /\ observation = "none" /\ Raise("AgentTermination")
  /\ UNCHANGED <<observation, done, session, agent, factories, counts,
                 ledger, score, records, reported, callback>>

\* react() raises: on_react_error turns every Exception into an AgentError.
ReactRaises ==
  /\ pc = "react"
  /\ \/ Raise("AgentError") /\ callback' = "react_error"
     \/ Raise("KeyboardInterrupt") /\ UNCHANGED callback
  /\ UNCHANGED <<observation, done, session, agent, factories, counts,
                 ledger, score, records, reported>>

\* Variant: a new _LimitState is made for every action.
CountActionAnew(n) ==
  IF Limited THEN counts' = [steps |-> 1, actions |-> n] ELSE UNCHANGED counts

\* LimitController.on_react_success.
CountAction(n) ==
  IF Limited
    THEN counts' = [steps |-> counts.steps + 1, actions |-> counts.actions + n]
    ELSE UNCHANGED counts

\* react() returns a legal action of n single actions: the observers record
\* it, the LimitController counts it, and a user's controller may object.
ReactAction(n) ==
  /\ pc = "react"
  /\ ledger' = IF ledger < Horizon THEN ledger + 1 ELSE ledger
  /\ CountAction(n)
  /\ callback' = "react_success"
  /\ \/ Proceed("step")
     \/ \E e \in ControllerErrors : Raise(e)
  /\ UNCHANGED <<observation, done, session, agent, factories, score,
                 records, reported>>

\* react() returns None or something illegal: the CoreController, which runs
\* after the user's controllers, ends the session.
ReactNoAction ==
  /\ pc = "react"
  /\ callback' = "react_success"
  /\ \E e \in ControllerErrors \cup {"BenchmarkTermination", "AgentError"} :
       Raise(e)
  /\ UNCHANGED <<observation, done, session, agent, factories, counts,
                 ledger, score, records, reported>>

\* step() raises: on_step_error turns every Exception into a BenchmarkError.
StepRaises ==
  /\ pc = "step"
  /\ \/ Raise("BenchmarkError") /\ callback' = "step_error"
     \/ Raise("KeyboardInterrupt") /\ UNCHANGED callback
  /\ UNCHANGED <<observation, done, session, agent, factories, counts,
                 ledger, score, records, reported>>

\* Variant: the limits are exceeded before they stop the session.
LimitPassed == Limited /\ \/ counts.steps > MaxSteps
                          \/ counts.actions > MaxActions

\* LimitController.on_step_success, for an observation that is not None.
LimitHit == Limited /\ \/ counts.steps >= MaxSteps
                       \/ counts.actions >= MaxActions

\* What the controllers make of step()'s result: LimitController first, then
\* the user's, then the CoreController.
StepVerdict(result) ==
  IF result # "none" /\ LimitHit THEN {"LimitReached"}
  ELSE ControllerErrors \cup
         CASE result = "none" -> {"AgentTermination"}
           [] result = "illegal" -> {"BenchmarkError"}
           [] OTHER -> {"continue"}

\* step() returns an observation, None or something illegal.
StepReturns ==
  /\ pc = "step"
  /\ callback' = "step_success"
  /\ done' \in BOOLEAN
  /\ \E result \in {"some", "none", "illegal"} :
       /\ observation' = IF result = "none" THEN "none" ELSE "some"
       /\ \E verdict \in StepVerdict(result) :
            IF verdict = "continue" THEN Proceed("check") ELSE Raise(verdict)
  /\ UNCHANGED <<session, agent, factories, counts, ledger, score, records,
                 reported>>
-----------------------------------------------------------------------------
(***************************************************************************)
(* The except clauses, one call at a time.                                 *)
(***************************************************************************)
\* tracker.on_session_error: the session is recorded without a score.
RecordError ==
  /\ Handling("record")
  /\ callback' = "error"
  /\ Record(ErrorStatus(exc))
  /\ UNCHANGED <<observation, done, session, agent, factories, counts, score>>

\* Variant: the limit clause keeps the benchmark's own is_finished.
FinishedMarkKept(e, finished) == IF finished = "none" THEN "true" ELSE finished

\* Variant: the limit clause stores the outcome in is_finished.
FinishedMarkOutcome(e, finished) ==
  IF e = "LimitReached" THEN "limit_reached"
  ELSE IF finished = "none" THEN "true" ELSE finished

\* What the clause makes of the is_finished that session.score() answers.
FinishedMark(e, finished) ==
  IF e = "LimitReached" THEN "false"
  ELSE IF finished = "none" THEN "true" ELSE finished

\* The score that is recorded: the limit clause adds to the metadata.
Marked(own) == [own EXCEPT !.finished = FinishedMark(exc, own.finished),
                           !.limit = exc = "LimitReached"]

\* Variant: on_session_scoring is not reported.
ScoreSilently ==
  /\ Handling("score")
  /\ \E own \in Scores : ~own.limit /\ score' = Marked(own)
  /\ NextCall
  /\ UNCHANGED <<observation, done, session, agent, factories, counts,
                 ledger, records, reported, callback>>

\* on_session_scoring and session.score(), which may raise.
Score ==
  /\ Handling("score")
  /\ callback' = "scoring"
  /\ \/ (\E own \in Scores : ~own.limit /\ score' = Marked(own)) /\ NextCall
     \/ (\E e \in CallErrors : Escape(e)) /\ UNCHANGED score
  /\ UNCHANGED <<observation, done, session, agent, factories, counts,
                 ledger, records, reported>>

\* tracker.on_session_success.
RecordScored ==
  /\ Handling("recordScored")
  /\ callback' = "success"
  /\ Record(ScoreStatus(score))
  /\ UNCHANGED <<observation, done, session, agent, factories, counts, score>>

\* Variant: a close that raises is handled as an error of the agent.
CloseBothHandled ==
  /\ Handling("closeBoth")
  /\ session' = "closed"
  /\ \/ agent' = "closed" /\ NextCall
     \/ agent' \in {agent, "closed"} /\ Raise("AgentError")
  /\ UNCHANGED <<observation, done, factories, counts, ledger, score,
                 records, reported, callback>>

\* _close_session_agent: the arguments are evaluated first, so an agent that
\* was never bound raises UnboundLocalError and nothing is closed.
CloseBoth ==
  /\ Handling("closeBoth")
  /\ \/ agent = "unbound" /\ Escape("Other") /\ UNCHANGED <<session, agent>>
     \/ /\ agent # "unbound"
        /\ session' = "closed"
        /\ \/ agent' = "closed" /\ NextCall
           \/ agent' \in {agent, "closed"} /\ \E e \in CallErrors : Escape(e)
  /\ UNCHANGED <<observation, done, factories, counts, ledger, score,
                 records, reported, callback>>

CloseAgent ==
  /\ Handling("closeAgent")
  /\ agent' = "closed"
  /\ \/ NextCall
     \/ \E e \in CallErrors : Escape(e)
  /\ UNCHANGED <<observation, done, session, factories, counts, ledger,
                 score, records, reported, callback>>

\* The clause ends with a raise, or by falling through.
HandlerEnds ==
  /\ pc = "handle"
  /\ \/ Handling("raise") /\ Escape(exc)
     \/ plan = <<>> /\ Escape("none")
  /\ UNCHANGED <<observation, done, session, agent, factories, counts,
                 ledger, score, records, reported, callback>>

\* Variant: the finally clauses are not nested.
CloseBenchmarkFlat ==
  /\ pc = "closeBenchmark"
  /\ factories' = factories \cup {"benchmark"}
  /\ \/ pc' = "closeAgentFactory" /\ UNCHANGED exc
     \/ pc' = "done" /\ exc' = "Other"
  /\ UNCHANGED <<observation, done, session, agent, plan, counts, ledger,
                 score, records, reported, callback>>

\* The nested finally clauses of run_session_config: agent.close() is called
\* even when benchmark.close() raises.
CloseBenchmark ==
  /\ pc = "closeBenchmark"
  /\ factories' = factories \cup {"benchmark"}
  /\ exc' \in {exc, "Other"}
  /\ pc' = "closeAgentFactory"
  /\ UNCHANGED <<observation, done, session, agent, plan, counts, ledger,
                 score, records, reported, callback>>

CloseAgentFactory ==
  /\ pc = "closeAgentFactory"
  /\ factories' = factories \cup {"agent"}
  /\ exc' \in {exc, "Other"}
  /\ pc' = "done"
  /\ UNCHANGED <<observation, done, session, agent, plan, counts, ledger,
                 score, records, reported, callback>>

Finished == pc = "done" /\ UNCHANGED vars

Work ==
  \/ Construct \/ GetSession \/ GetInstance \/ Start \/ AgentStart \/ Check
  \/ ReactRaises \/ (\E n \in 1..MaxParallel : ReactAction(n))
  \/ ReactNoAction \/ StepRaises \/ StepReturns
  \/ RecordError \/ Score \/ RecordScored \/ CloseBoth \/ CloseAgent
  \/ HandlerEnds \/ CloseBenchmark \/ CloseAgentFactory

Next == Work \/ Finished

Spec == Init /\ [][Next]_vars

\* Every call into the agent and the benchmark eventually returns or raises.
FairSpec == Spec /\ WF_vars(Work)
-----------------------------------------------------------------------------
(***************************************************************************)
(* The order of the observer callbacks.                                    *)
(***************************************************************************)
Protocol == INSTANCE ObserverProtocol WITH event <- callback

PCs == {"construct", "getSession", "getInstance", "start", "agentStart",
        "check", "react", "step", "handle", "closeBenchmark",
        "closeAgentFactory", "done"}

TypeOK ==
  /\ pc \in PCs
  /\ observation \in {"none", "some"}
  /\ done \in BOOLEAN
  /\ session \in {"none", "open", "closed"}
  /\ agent \in {"unbound", "open", "closed"}
  /\ factories \in SUBSET {"benchmark", "agent"}
  /\ exc \in Exceptions \cup {"none"}
  /\ plan \in Seq(Calls)
  /\ counts \in [steps : Nat, actions : Nat]
  /\ ledger \in Nat
  /\ score \in Scores
  /\ records \in Seq([status : Statuses, steps : Nat])
  /\ reported \in BOOLEAN
  /\ callback \in DOMAIN Protocol!Follows

\* A session never takes more than max_steps steps, and it enters a step with
\* fewer than max_actions single actions behind it.
LimitRespected ==
  /\ ledger <= MaxSteps
  /\ \A i \in DOMAIN records : records[i].steps <= MaxSteps
  /\ pc = "react" => counts.actions < MaxActions

\* Whatever ends the session, it is recorded at most once, and from then on
\* nothing runs but the closing of what was opened.
RecordedOnce ==
  /\ Len(records) <= 1
  /\ records # <<>> => pc \in {"handle", "closeBenchmark",
                               "closeAgentFactory", "done"}

\* The outcomes of a session that ran to its score.
Completed == {"success", "unsuccessful", "unfinished", "limit_reached"}

\* The recorded outcome agrees with how the session ended: a result counts as
\* completed only if the session was scored, and then unless the score itself
\* tells of an error; it is limit_reached exactly if the LimitController
\* stopped the session, a success only if the score says finished and
\* successful, and a cancelled session is recorded as such.
OutcomeFaithful ==
  \A i \in DOMAIN records :
    LET status == records[i].status IN
    /\ status \in Completed => callback = "success"
    /\ callback = "success" =>
         /\ status = "limit_reached" <=>
              score.limit /\ score.source # "cancelled"
         /\ status \in Completed <=>
              score.source = "none" \/ status = "limit_reached"
    /\ status = "limit_reached" => LimitHit /\ records[i].steps > 0
    /\ status = "success" => score.success /\ score.finished = "true"
    /\ exc \in Cancels /\ pc = "handle" => status = "cancelled"
    /\ status # "unknown"

\* run_session_config never leaves the benchmark or the agent object open
\* once it has a session, whatever raised on the way.
FactoriesClosed ==
  pc = "done" /\ session # "none" => factories = {"benchmark", "agent"}

\* A session whose score was recorded and reported has closed both its ends
\* when it is done, whatever is raised while it closes.  (One whose recording
\* raises leaves run_session before the closing call.)
ScoredMeansClosed ==
  pc = "done" /\ callback = "success" /\ reported =>
    session = "closed" /\ (exc = "none" => agent = "closed")

\* What run_session and run_session_config have closed when they are done: the
\* two factories always, the session whenever its score was reported.
ClosedAtEnd == FactoriesClosed /\ ScoredMeansClosed

\* The LimitController makes every session end, even one whose agent always
\* acts and whose benchmark always answers.
Terminates == <>(pc = "done")

\* Observers see the callbacks of a session in the documented life cycle.
FollowsProtocol == Protocol!Spec
=============================================================================
