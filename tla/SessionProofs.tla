---------------------------- MODULE SessionProofs ----------------------------
(***************************************************************************)
(* The proofs about what runs inside one session.  First SessionLoop, for  *)
(* any limits: type correctness, that the LimitController bounds the steps *)
(* of a session, that a session is recorded at most once and its outcome   *)
(* tells how it ended, what is closed in the end, and that the callbacks   *)
(* follow ObserverProtocol.  Then Coordinator, behind which an agent that  *)
(* is a thread answers that loop, for any set of tool threads and any      *)
(* number of turns and calls: its types, what None means, the order of     *)
(* actions, and the observation a lone call returns with.                  *)
(***************************************************************************)
EXTENDS SessionLoop, Coordinator, TLAPS

\* What an except clause does is a sequence of the calls it may make.
LEMMA HandlerPlanType == \A e : HandlerPlan(e) \in Seq(Calls)
<1>1. /\ <<"record", "closeBoth", "raise">> \in Seq(Calls)
      /\ <<"record", "closeBoth">> \in Seq(Calls)
      /\ <<"score", "recordScored", "closeBoth">> \in Seq(Calls)
      /\ <<"record", "closeAgent">> \in Seq(Calls)
      /\ <<"record">> \in Seq(Calls)
      /\ <<"raise">> \in Seq(Calls)
  BY DEF Calls
<1>2. QED
  BY <1>1, Zenon DEF HandlerPlan

\* The callbacks are those the protocol orders.
LEMMA CallbackNames ==
  DOMAIN Protocol!Follows =
    {"none", "enter", "creation", "start", "react_success", "react_error",
     "step_success", "step_error", "scoring", "success", "error"}
  BY DEF Protocol!Follows

\* Raising an exception keeps the variables it sets in type.
LEMMA RaiseTypes ==
  ASSUME NEW e \in Exceptions, Raise(e)
  PROVE  /\ pc' \in PCs
         /\ exc' \in Exceptions \cup {"none"}
         /\ plan' \in Seq(Calls)
  BY HandlerPlanType DEF Raise, PCs

\* Leaving run_session keeps the variables it sets in type.
LEMMA EscapeTypes ==
  ASSUME NEW e \in Exceptions \cup {"none"}, Escape(e)
  PROVE  /\ pc' \in PCs
         /\ exc' \in Exceptions \cup {"none"}
         /\ plan' \in Seq(Calls)
  BY DEF Escape, PCs

\* The controllers' verdicts are "continue" or an exception.
LEMMA VerdictTypes ==
  \A result \in {"some", "none", "illegal"} :
    StepVerdict(result) \subseteq Exceptions \cup {"continue"}
  BY DEF StepVerdict, Exceptions, ControllerErrors, Terminations

\* A recorded session has one of the outcome statuses.
LEMMA StatusTypes ==
  /\ \A e : ErrorStatus(e) \in Statuses
  /\ TypeOK => ScoreStatus(score) \in Statuses
<1>1. \A e : ErrorStatus(e) \in Statuses
  BY DEF ErrorStatus, Statuses
<1>2. ASSUME TypeOK PROVE ScoreStatus(score) \in Statuses
  <2>1. score.finished \in {"none", "true", "false"}
    BY <1>2 DEF TypeOK, Scores
  <2>2. QED
    BY <2>1 DEF ScoreStatus, Statuses
<1>3. QED
  BY <1>1, <1>2

\* A clause that goes on to its next call stays in type.
LEMMA NextCallTypes ==
  ASSUME TypeOK, NEW call, Handling(call), NextCall
  PROVE  /\ pc' \in PCs
         /\ exc' \in Exceptions \cup {"none"}
         /\ plan' \in Seq(Calls)
<1>1. Tail(plan) \in Seq(Calls)
  BY DEF TypeOK, Handling
<1>2. QED
  BY <1>1 DEF TypeOK, NextCall

\* Recording a session keeps the variables it sets in type.
LEMMA RecordTypes ==
  ASSUME TypeOK, NEW status \in Statuses, NEW call, Handling(call), Record(status)
  PROVE  /\ records' \in Seq([status : Statuses, steps : Nat])
         /\ ledger' \in Nat /\ reported' \in BOOLEAN
         /\ pc' \in PCs
         /\ exc' \in Exceptions \cup {"none"}
         /\ plan' \in Seq(Calls)
<1>1. [status |-> status, steps |-> ledger] \in [status : Statuses, steps : Nat]
  BY DEF TypeOK
<1>2. /\ pc' \in PCs
      /\ exc' \in Exceptions \cup {"none"}
      /\ plan' \in Seq(Calls)
  <2>1. CallErrors \subseteq Exceptions
    BY DEF Exceptions
  <2>2. QED
    BY <2>1, NextCallTypes, EscapeTypes DEF Record
<1>3. records' \in Seq([status : Statuses, steps : Nat])
  <2>1. /\ records \in Seq([status : Statuses, steps : Nat])
        /\ Append(records, [status |-> status, steps |-> ledger])
             \in Seq([status : Statuses, steps : Nat])
    BY <1>1 DEF TypeOK
  <2>2. QED
    BY <2>1, Zenon DEF Record
<1>4. QED
  BY <1>2, <1>3 DEF TypeOK, Record

\* TypeOK is preserved by every step.
LEMMA TypeOKStep == TypeOK /\ [Next]_vars => TypeOK'
<1> SUFFICES ASSUME TypeOK, [Next]_vars PROVE TypeOK'
  OBVIOUS
<1>a. CallErrors \subseteq Exceptions /\ ControllerErrors \subseteq Exceptions
  BY DEF CallErrors, ControllerErrors, Exceptions
<1>b. {"AgentError", "BenchmarkError", "KeyboardInterrupt", "LimitReached",
       "BenchmarkTermination", "AgentTermination", "Other"} \subseteq Exceptions
  BY DEF Exceptions, Cancels, CallErrors, Terminations
<1> USE LoopAssumption, CallbackNames DEF TypeOK
<1>1. CASE Construct
  BY <1>1, <1>a DEF Construct, Proceed, PCs
<1>2. CASE GetSession
  BY <1>2, <1>a DEF GetSession, Proceed, PCs
<1>3. CASE GetInstance
  BY <1>3, <1>a, RaiseTypes DEF GetInstance, Proceed, PCs
<1>4. CASE Start
  BY <1>4, <1>a, RaiseTypes DEF Start, Proceed, PCs
<1>5. CASE AgentStart
  BY <1>5, <1>a, RaiseTypes DEF AgentStart, Proceed, PCs
<1>6. CASE Check
  BY <1>6, <1>b, RaiseTypes DEF Check, Proceed, PCs
<1>7. CASE ReactRaises
  BY <1>7, <1>b, RaiseTypes DEF ReactRaises
<1>8. ASSUME NEW n \in 1..MaxParallel, ReactAction(n) PROVE TypeOK'
  <2>1. counts' \in [steps : Nat, actions : Nat]
    BY <1>8 DEF ReactAction, CountAction
  <2>2. ledger' \in Nat
    BY <1>8 DEF ReactAction
  <2>3. /\ pc' \in PCs
        /\ exc' \in Exceptions \cup {"none"}
        /\ plan' \in Seq(Calls)
    BY <1>8, <1>a, RaiseTypes DEF ReactAction, Proceed, PCs
  <2>4. QED
    BY <1>8, <2>1, <2>2, <2>3 DEF ReactAction
<1>9. CASE ReactNoAction
  <2>1. PICK e \in ControllerErrors \cup {"BenchmarkTermination", "AgentError"} :
          Raise(e)
    BY <1>9 DEF ReactNoAction
  <2>2. e \in Exceptions
    BY <1>a, <1>b
  <2>3. QED
    BY <1>9, <2>1, <2>2, RaiseTypes DEF ReactNoAction
<1>10. CASE StepRaises
  BY <1>10, <1>b, RaiseTypes DEF StepRaises
<1>11. CASE StepReturns
  <2>1. PICK result \in {"some", "none", "illegal"} :
          /\ observation' = IF result = "none" THEN "none" ELSE "some"
          /\ \E verdict \in StepVerdict(result) :
               IF verdict = "continue" THEN Proceed("check") ELSE Raise(verdict)
    BY <1>11 DEF StepReturns
  <2>2. /\ pc' \in PCs
        /\ exc' \in Exceptions \cup {"none"}
        /\ plan' \in Seq(Calls)
    BY <2>1, VerdictTypes, RaiseTypes DEF Proceed, PCs
  <2>3. QED
    BY <1>11, <2>1, <2>2 DEF StepReturns
<1>12. CASE RecordError
  BY <1>12, StatusTypes, RecordTypes DEF RecordError
<1>13. CASE Score
  <2>1. /\ pc' \in PCs
        /\ exc' \in Exceptions \cup {"none"}
        /\ plan' \in Seq(Calls)
    BY <1>13, <1>a, NextCallTypes, EscapeTypes DEF Score
  <2>2. score' \in Scores
    <3>1. ASSUME NEW own \in Scores PROVE Marked(own) \in Scores
      <4>1. FinishedMark(exc, own.finished) \in {"none", "true", "false"}
        BY DEF FinishedMark, Scores
      <4>2. QED
        BY <4>1 DEF Marked, Scores
    <3>2. QED
      BY <1>13, <3>1 DEF Score
  <2>3. QED
    BY <1>13, <2>1, <2>2 DEF Score
<1>14. CASE RecordScored
  BY <1>14, StatusTypes, RecordTypes DEF RecordScored
<1>15. CASE CloseBoth
  <2>1. /\ pc' \in PCs
        /\ exc' \in Exceptions \cup {"none"}
        /\ plan' \in Seq(Calls)
    BY <1>15, <1>a, <1>b, NextCallTypes, EscapeTypes DEF CloseBoth
  <2>2. QED
    BY <1>15, <2>1 DEF CloseBoth
<1>16. CASE CloseAgent
  <2>1. /\ pc' \in PCs
        /\ exc' \in Exceptions \cup {"none"}
        /\ plan' \in Seq(Calls)
    BY <1>16, <1>a, NextCallTypes, EscapeTypes DEF CloseAgent
  <2>2. QED
    BY <1>16, <2>1 DEF CloseAgent
<1>17. CASE HandlerEnds
  <2>1. /\ pc' \in PCs
        /\ exc' \in Exceptions \cup {"none"}
        /\ plan' \in Seq(Calls)
    BY <1>17, EscapeTypes DEF HandlerEnds
  <2>2. QED
    BY <1>17, <2>1 DEF HandlerEnds
<1>18. CASE CloseBenchmark
  BY <1>18, <1>b DEF CloseBenchmark, PCs
<1>19. CASE CloseAgentFactory
  BY <1>19, <1>b DEF CloseAgentFactory, PCs
<1>20. CASE UNCHANGED vars
  BY <1>20 DEF vars
<1>21. QED
  BY <1>1, <1>2, <1>3, <1>4, <1>5, <1>6, <1>7, <1>8, <1>9, <1>10, <1>11, <1>12,
     <1>13, <1>14, <1>15, <1>16, <1>17, <1>18, <1>19, <1>20
     DEF Next, Work, Finished

\* Every variable of SessionLoop keeps its type: for one, every outcome that
\* is recorded is a SessionOutcomeStatus.
THEOREM TypeCorrect == Spec => []TypeOK
<1>1. Init => TypeOK
  <2>1. <<>> \in Seq(Calls) /\ <<>> \in Seq([status : Statuses, steps : Nat])
    OBVIOUS
  <2>2. NoScore \in Scores
    BY DEF NoScore, Scores
  <2>3. [steps |-> 0, actions |-> 0] \in [steps : Nat, actions : Nat]
    OBVIOUS
  <2>4. QED
    BY <2>1, <2>2, <2>3, CallbackNames DEF Init, TypeOK, PCs
<1>2. QED
  BY <1>1, TypeOKStep, PTL DEF Spec
-----------------------------------------------------------------------------
(***************************************************************************)
(* The limit.  A loop iteration is entered below both limits, and the      *)
(* ledger never counts more steps than the LimitController.                *)
(***************************************************************************)
Before == {"construct", "getSession", "getInstance", "start", "agentStart"}

LimitInv ==
  /\ pc \in Before => ledger = 0 /\ counts.steps = 0 /\ counts.actions = 0
  /\ pc \in {"check", "react"} => /\ ledger <= counts.steps
                                 /\ counts.steps < MaxSteps
                                 /\ counts.actions < MaxActions
  /\ pc = "step" => ledger <= counts.steps /\ counts.steps <= MaxSteps
  /\ ledger <= MaxSteps
  /\ \A i \in DOMAIN records : records[i].steps <= MaxSteps

\* A call that leaves the counters alone and goes towards the end.
LEMMA LeavingKeepsLimit ==
  ASSUME TypeOK, LimitInv, UNCHANGED <<ledger, records>>,
         pc' \in {"handle", "closeBenchmark", "closeAgentFactory", "done"}
  PROVE  LimitInv'
  BY DEF LimitInv, Before

\* Recording a session stores the steps the ledger counted.
LEMMA RecordKeepsLimit ==
  ASSUME TypeOK, LimitInv, NEW status \in Statuses, Record(status),
         pc' \in {"handle", "closeBenchmark", "closeAgentFactory", "done"}
  PROVE  LimitInv'
<1>1. ledger' <= MaxSteps
  BY LoopAssumption DEF Record
<1>2. CASE records' = records
  BY <1>1, <1>2 DEF LimitInv, Before
<1>3. CASE records' = Append(records, [status |-> status, steps |-> ledger])
  <2>1. ASSUME NEW i \in DOMAIN records' PROVE records'[i].steps <= MaxSteps
    <3>1. /\ DOMAIN records = 1..Len(records)
          /\ DOMAIN records' = 1..(Len(records) + 1)
          /\ Len(records) \in Nat
      BY <1>3 DEF TypeOK
    <3>2. CASE i \in 1..Len(records)
      BY <1>3, <3>1, <3>2 DEF TypeOK, LimitInv
    <3>3. CASE i = Len(records) + 1
      <4>1. records'[i] = [status |-> status, steps |-> ledger]
        BY <1>3, <3>3 DEF TypeOK
      <4>2. QED
        BY <4>1 DEF LimitInv
    <3>4. QED
      BY <2>1, <3>1, <3>2, <3>3
  <2>2. QED
    BY <1>1, <2>1 DEF LimitInv, Before
<1>4. QED
  BY <1>2, <1>3 DEF Record

\* LimitInv is preserved by every step.
LEMMA LimitStep ==
  ASSUME Limited, TypeOK, LimitInv, [Next]_vars
  PROVE  LimitInv'
<1> USE LoopAssumption
<1>1. CASE Construct \/ GetSession
  BY <1>1 DEF Construct, GetSession, Proceed, LimitInv, Before
<1>2. CASE GetInstance \/ Start
  BY <1>2 DEF GetInstance, Start, Proceed, Raise, LimitInv, Before
<1>3. CASE AgentStart
  BY <1>3 DEF AgentStart, Proceed, Raise, LimitInv, Before, TypeOK
<1>4. CASE Check
  BY <1>4 DEF Check, Proceed, Raise, LimitInv, Before
<1>5. CASE ReactRaises \/ ReactNoAction
  BY <1>5, LeavingKeepsLimit DEF ReactRaises, ReactNoAction, Raise
<1>6. ASSUME NEW n \in 1..MaxParallel, ReactAction(n) PROVE LimitInv'
  <2>1. /\ counts'.steps = counts.steps + 1
        /\ counts.steps < MaxSteps /\ ledger <= counts.steps
    BY <1>6 DEF ReactAction, CountAction, LimitInv
  <2>2. ledger' \in Nat /\ ledger' <= ledger + 1
    BY <1>6 DEF ReactAction, TypeOK
  <2>3. ledger' <= counts'.steps /\ counts'.steps <= MaxSteps
    BY <2>1, <2>2 DEF TypeOK
  <2>4. pc' \in {"step", "handle"} /\ records' = records
    BY <1>6 DEF ReactAction, Proceed, Raise
  <2>5. ledger' <= MaxSteps
    BY <2>1, <2>2 DEF TypeOK
  <2>6. QED
    BY <2>3, <2>4, <2>5 DEF LimitInv, Before
<1>7. CASE StepRaises
  BY <1>7, LeavingKeepsLimit DEF StepRaises, Raise
<1>8. CASE StepReturns
  <2>1. PICK result \in {"some", "none", "illegal"} :
          \E verdict \in StepVerdict(result) :
            IF verdict = "continue" THEN Proceed("check") ELSE Raise(verdict)
    BY <1>8 DEF StepReturns
  <2>2. PICK verdict \in StepVerdict(result) :
          IF verdict = "continue" THEN Proceed("check") ELSE Raise(verdict)
    BY <2>1
  <2>3. UNCHANGED <<counts, ledger, records>> /\ pc = "step"
    BY <1>8 DEF StepReturns
  <2>4. CASE verdict = "continue"
    <3>1. result # "none" /\ ~LimitHit
      BY <2>4, Zenon DEF StepVerdict, ControllerErrors
    <3>2. counts.steps < MaxSteps /\ counts.actions < MaxActions
      BY <3>1 DEF LimitHit, TypeOK
    <3>3. pc' = "check"
      BY <2>2, <2>4 DEF Proceed
    <3>4. QED
      BY <2>3, <3>2, <3>3 DEF LimitInv, Before
  <2>5. CASE verdict # "continue"
    BY <2>2, <2>3, <2>5, LeavingKeepsLimit DEF Raise
  <2>6. QED
    BY <2>4, <2>5
<1>9. CASE RecordError \/ RecordScored
  <2>1. pc' \in {"handle", "closeBenchmark"}
    BY <1>9 DEF RecordError, RecordScored, Record, NextCall, Escape, Handling
  <2>2. QED
    BY <1>9, <2>1, StatusTypes, RecordKeepsLimit DEF RecordError, RecordScored
<1>10. CASE Score \/ CloseBoth \/ CloseAgent
  <2>1. pc' \in {"handle", "closeBenchmark"}
    BY <1>10 DEF Score, CloseBoth, CloseAgent, NextCall, Escape, Handling
  <2>2. QED
    BY <1>10, <2>1, LeavingKeepsLimit DEF Score, CloseBoth, CloseAgent
<1>11. CASE HandlerEnds \/ CloseBenchmark \/ CloseAgentFactory
  BY <1>11, LeavingKeepsLimit
     DEF HandlerEnds, CloseBenchmark, CloseAgentFactory, Escape
<1>12. CASE UNCHANGED vars
  BY <1>12 DEF vars, LimitInv, Before
<1>13. QED
  BY <1>1, <1>2, <1>3, <1>4, <1>5, <1>6, <1>7, <1>8, <1>9, <1>10, <1>11, <1>12
     DEF Next, Work, Finished

\* Under a LimitController no session takes more than max_steps steps,
\* whatever the agent, the benchmark and the user's controllers do, and no
\* recorded result tells of more.
THEOREM LimitsHold ==
  ASSUME Limited
  PROVE  Spec => []LimitRespected
<1>1. Init => LimitInv
  BY LoopAssumption DEF Init, LimitInv, Before
<1>2. TypeOK /\ LimitInv /\ [Next]_vars => LimitInv'
  BY LimitStep
<1>3. LimitInv => LimitRespected
  BY DEF LimitInv, LimitRespected
<1>4. QED
  BY <1>1, <1>2, <1>3, TypeCorrect, PTL DEF Spec
-----------------------------------------------------------------------------
(***************************************************************************)
(* Recording.  While nothing is recorded, the clause that runs has its     *)
(* recording call still before it; afterwards it has only calls left that  *)
(* close something or raise.                                               *)
(***************************************************************************)
FreshPlans == {<<"record", "closeBoth", "raise">>, <<"record", "closeBoth">>,
               <<"score", "recordScored", "closeBoth">>,
               <<"recordScored", "closeBoth">>, <<"record", "closeAgent">>,
               <<"record">>, <<"raise">>}
SpentPlans == {<<"closeBoth", "raise">>, <<"closeBoth">>, <<"closeAgent">>,
               <<"raise">>, <<>>}
After == {"closeBenchmark", "closeAgentFactory", "done"}

RecordInv ==
  /\ records = <<>> \/ Len(records) = 1
  /\ reported => records # <<>>
  /\ pc \notin After \cup {"handle"} => records = <<>>
  /\ pc = "handle" /\ records = <<>> => plan \in FreshPlans
  /\ pc = "handle" /\ records # <<>> => plan \in SpentPlans

\* Every except clause begins with its recording call before it.
LEMMA HandlerPlanFresh == \A e : HandlerPlan(e) \in FreshPlans
  BY Zenon DEF HandlerPlan, FreshPlans

\* What is left of a plan after its first call.
LEMMA PlanTails ==
  /\ Tail(<<"record", "closeBoth", "raise">>) = <<"closeBoth", "raise">>
  /\ Tail(<<"record", "closeBoth">>) = <<"closeBoth">>
  /\ Tail(<<"score", "recordScored", "closeBoth">>) =
       <<"recordScored", "closeBoth">>
  /\ Tail(<<"recordScored", "closeBoth">>) = <<"closeBoth">>
  /\ Tail(<<"record", "closeAgent">>) = <<"closeAgent">>
  /\ Tail(<<"record">>) = <<>>
  /\ Tail(<<"closeBoth", "raise">>) = <<"raise">>
  /\ Tail(<<"closeBoth">>) = <<>>
  /\ Tail(<<"closeAgent">>) = <<>>
  /\ Tail(<<"raise">>) = <<>>
  OBVIOUS

\* The first call of a plan.
LEMMA PlanHeads ==
  /\ Head(<<"record", "closeBoth", "raise">>) = "record"
  /\ Head(<<"record", "closeBoth">>) = "record"
  /\ Head(<<"score", "recordScored", "closeBoth">>) = "score"
  /\ Head(<<"recordScored", "closeBoth">>) = "recordScored"
  /\ Head(<<"record", "closeAgent">>) = "record"
  /\ Head(<<"record">>) = "record"
  /\ Head(<<"closeBoth", "raise">>) = "closeBoth"
  /\ Head(<<"closeBoth">>) = "closeBoth"
  /\ Head(<<"closeAgent">>) = "closeAgent"
  /\ Head(<<"raise">>) = "raise"
  OBVIOUS

\* What is left of a clause once it has recorded the session.
LEMMA PlanAfterRecord ==
  ASSUME NEW p \in FreshPlans, Head(p) \in {"record", "recordScored"}
  PROVE  Tail(p) \in SpentPlans
<1>1. p # <<"score", "recordScored", "closeBoth">> /\ p # <<"raise">>
  BY PlanHeads, Zenon
<1>2. QED
  BY <1>1, PlanTails, Zenon DEF FreshPlans, SpentPlans

\* What is left of a clause once it has scored the session.
LEMMA PlanAfterScore ==
  ASSUME NEW p \in FreshPlans, Head(p) = "score"
  PROVE  Tail(p) \in FreshPlans
<1>1. p = <<"score", "recordScored", "closeBoth">>
  BY PlanHeads, Zenon DEF FreshPlans
<1>2. QED
  BY <1>1, PlanTails, Zenon DEF FreshPlans

\* A clause that has recorded goes on to calls that do not record, and one
\* that has not closes nothing.
LEMMA PlanAfterClose ==
  /\ \A p \in SpentPlans \ {<<>>} : Tail(p) \in SpentPlans
  /\ \A p \in FreshPlans : Head(p) \notin {"closeBoth", "closeAgent"}
  /\ \A p \in SpentPlans \ {<<>>} :
       Head(p) \notin {"record", "recordScored", "score"}
<1>1. ASSUME NEW p \in SpentPlans \ {<<>>} PROVE Tail(p) \in SpentPlans
  BY PlanTails, Zenon DEF SpentPlans
<1>2. ASSUME NEW p \in FreshPlans
      PROVE  Head(p) \notin {"closeBoth", "closeAgent"}
  BY PlanHeads, Zenon DEF FreshPlans
<1>3. ASSUME NEW p \in SpentPlans \ {<<>>}
      PROVE  Head(p) \notin {"record", "recordScored", "score"}
  BY PlanHeads, Zenon DEF SpentPlans
<1>4. QED
  BY <1>1, <1>2, <1>3

\* RecordInv is preserved by every step.
LEMMA RecordStep == TypeOK /\ RecordInv /\ [Next]_vars => RecordInv'
<1> SUFFICES ASSUME TypeOK, RecordInv, [Next]_vars PROVE RecordInv'
  OBVIOUS
<1> USE DEF RecordInv, After
<1>1. CASE Construct \/ GetSession
  BY <1>1 DEF Construct, GetSession, Proceed
<1>2. CASE GetInstance \/ Start \/ AgentStart \/ Check
  BY <1>2, HandlerPlanFresh
     DEF GetInstance, Start, AgentStart, Check, Proceed, Raise
<1>3. CASE ReactRaises \/ ReactNoAction \/ StepRaises
  BY <1>3, HandlerPlanFresh DEF ReactRaises, ReactNoAction, StepRaises, Raise
<1>4. ASSUME NEW n \in 1..MaxParallel, ReactAction(n) PROVE RecordInv'
  BY <1>4, HandlerPlanFresh DEF ReactAction, Proceed, Raise
<1>5. CASE StepReturns
  BY <1>5, HandlerPlanFresh DEF StepReturns, Proceed, Raise
<1>6. CASE RecordError \/ RecordScored
  <2>1. /\ pc = "handle" /\ plan # <<>>
        /\ Head(plan) \in {"record", "recordScored"}
    BY <1>6 DEF RecordError, RecordScored, Handling
  <2>2. records = <<>> /\ plan \in FreshPlans
    BY <2>1, PlanAfterClose
  <2>3. Tail(plan) \in SpentPlans
    BY <2>1, <2>2, PlanAfterRecord
  <2>4. PICK status \in Statuses : Record(status)
    BY <1>6, StatusTypes DEF RecordError, RecordScored
  <2>5. CASE /\ records' = Append(records, [status |-> status, steps |-> ledger])
             /\ NextCall
    <3>1. Len(records') = 1 /\ records' # <<>>
      BY <2>2, <2>5
    <3>2. QED
      BY <2>1, <2>3, <2>5, <3>1 DEF NextCall
  <2>6. CASE /\ records' \in {records, Append(records, [status |-> status, steps |-> ledger])}
             /\ \E e \in CallErrors : Escape(e)
             /\ UNCHANGED reported
    <3>1. records' = <<>> \/ Len(records') = 1
      BY <2>2, <2>6
    <3>2. ~reported' /\ pc' = "closeBenchmark"
      BY <2>2, <2>6 DEF Escape
    <3>3. QED
      BY <3>1, <3>2
  <2>7. QED
    BY <2>4, <2>5, <2>6 DEF Record
<1>7. CASE Score
  <2>1. /\ pc = "handle" /\ plan # <<>> /\ Head(plan) = "score"
        /\ records' = records /\ reported' = reported
    BY <1>7 DEF Score, Handling
  <2>2. records = <<>> /\ plan \in FreshPlans
    BY <2>1, PlanAfterClose
  <2>3. Tail(plan) \in FreshPlans
    BY <2>1, <2>2, PlanAfterScore
  <2>4. \/ pc' = "handle" /\ plan' = Tail(plan)
        \/ pc' = "closeBenchmark"
    BY <1>7, <2>1 DEF Score, NextCall, Escape
  <2>5. QED
    BY <2>1, <2>2, <2>3, <2>4
<1>8. CASE CloseBoth \/ CloseAgent
  <2>1. /\ pc = "handle" /\ plan # <<>> /\ UNCHANGED <<records, reported>>
        /\ Head(plan) \in {"closeBoth", "closeAgent"}
    BY <1>8 DEF CloseBoth, CloseAgent, Handling
  <2>2. records # <<>> /\ plan \in SpentPlans
    BY <2>1, PlanAfterClose
  <2>3. Tail(plan) \in SpentPlans
    BY <2>1, <2>2, PlanAfterClose
  <2>4. \/ pc' = "handle" /\ plan' = Tail(plan)
        \/ pc' = "closeBenchmark"
    BY <1>8, <2>1 DEF CloseBoth, CloseAgent, NextCall, Escape
  <2>5. QED
    BY <2>1, <2>2, <2>3, <2>4
<1>9. CASE HandlerEnds \/ CloseBenchmark \/ CloseAgentFactory
  BY <1>9 DEF HandlerEnds, CloseBenchmark, CloseAgentFactory, Escape
<1>10. CASE UNCHANGED vars
  BY <1>10 DEF vars
<1>11. QED
  BY <1>1, <1>2, <1>3, <1>4, <1>5, <1>6, <1>7, <1>8, <1>9, <1>10
     DEF Next, Work, Finished

\* A session is recorded at most once, whatever ends it and whatever score()
\* or close() raise on the way out, and nothing of the loop runs afterwards.
THEOREM SingleRecord == Spec => []RecordedOnce
<1>1. Init => RecordInv
  BY DEF Init, RecordInv, After
<1>2. RecordInv => RecordedOnce
  <2>1. ASSUME RecordInv PROVE Len(records) <= 1
    <3>1. records = <<>> \/ Len(records) = 1
      BY <2>1, Zenon DEF RecordInv
    <3>2. CASE records = <<>>
      BY <3>2
    <3>3. CASE Len(records) = 1
      BY <3>3
    <3>4. QED
      BY <3>1, <3>2, <3>3
  <2>2. ASSUME RecordInv, records # <<>>
        PROVE  pc \in {"handle", "closeBenchmark", "closeAgentFactory", "done"}
    BY <2>2, Zenon DEF RecordInv, After
  <2>3. QED
    BY <2>1, <2>2, Zenon DEF RecordedOnce
<1>3. QED
  BY <1>1, <1>2, RecordStep, TypeCorrect, PTL DEF Spec
-----------------------------------------------------------------------------
(***************************************************************************)
(* Callbacks.  Each place of the loop knows the last callback, and so does *)
(* each call an except clause has before it.                               *)
(***************************************************************************)
Scoring == Terminations \cup {"LimitReached"}
Running == {"start", "react_success", "step_success"}

CallbackAt ==
  /\ pc = "construct" => callback = "none"
  /\ pc = "getSession" => callback = "enter"
  /\ pc \in {"getInstance", "start", "agentStart"} => callback = "creation"
  /\ pc \in {"check", "react"} => callback \in {"start", "step_success"}
  /\ pc = "step" => callback = "react_success"

CallbackDue ==
  pc = "handle" /\ plan # <<>> =>
    /\ Head(plan) = "record" =>
         callback \in Running \cup {"creation", "react_error", "step_error"}
    /\ Head(plan) = "score" => callback \in Running
    /\ Head(plan) = "recordScored" => callback = "scoring"

CallbackInv == CallbackAt /\ CallbackDue

\* Only terminations and the limit are scored, and nothing is recorded scored
\* before it is.
LEMMA HandlerHeads ==
  \A e : /\ Head(HandlerPlan(e)) \in {"record", "score", "raise"}
         /\ Head(HandlerPlan(e)) = "score" => e \in Scoring
         /\ e \in Cancels \cup {"AgentError", "BenchmarkError"} => Head(HandlerPlan(e)) # "score"
<1>1. \A e : e \notin Scoring => HandlerPlan(e) # <<"score", "recordScored", "closeBoth">>
  <2>1. <<"score", "recordScored", "closeBoth">> \notin
          {<<"record", "closeBoth", "raise">>, <<"record", "closeBoth">>,
           <<"record", "closeAgent">>, <<"record">>, <<"raise">>}
    BY PlanHeads, Zenon
  <2>2. QED
    BY <2>1, Zenon DEF HandlerPlan, Scoring
<1>2. \A e : HandlerPlan(e) \in FreshPlans \ {<<"recordScored", "closeBoth">>}
  BY PlanHeads, Zenon DEF HandlerPlan, FreshPlans
<1>3. \A e : Head(HandlerPlan(e)) \in {"record", "score", "raise"}
  BY <1>2, PlanHeads, Zenon DEF FreshPlans
<1>4. \A e : Head(HandlerPlan(e)) = "score" => e \in Scoring
  BY <1>1, <1>2, PlanHeads, Zenon DEF FreshPlans
<1>5. Scoring \cap (Cancels \cup {"AgentError", "BenchmarkError"}) = {}
  BY DEF Scoring, Cancels, Terminations
<1>6. QED
  BY <1>3, <1>4, <1>5

\* Raising e is in order if the last callback may be followed by its clause.
LEMMA RaiseCallback ==
  ASSUME NEW e, Raise(e), callback' \in Running \cup {"creation", "react_error", "step_error"},
         e \in Scoring => callback' \in Running
  PROVE  CallbackInv'
<1>1. pc' = "handle" /\ plan' = HandlerPlan(e)
  BY DEF Raise
<1>2. QED
  BY <1>1, HandlerHeads DEF CallbackInv, CallbackAt, CallbackDue

\* A step keeps the callbacks in order, and makes at most the one that may
\* come next.
LEMMA CallbackStep ==
  ASSUME TypeOK, RecordInv, CallbackInv, [Next]_vars
  PROVE  CallbackInv' /\ (callback' = callback \/ callback' \in Protocol!Follows[callback])
<1> DEFINE Ordered == callback' = callback \/ callback' \in Protocol!Follows[callback]
<1>a. /\ CallErrors \cap Scoring = {} /\ ControllerErrors \cap Scoring = {}
      /\ {"AgentError", "BenchmarkError", "KeyboardInterrupt"} \cap Scoring = {}
  BY DEF CallErrors, ControllerErrors, Scoring, Terminations
<1>b. RecordInv'
  BY RecordStep
<1>c. /\ Protocol!Follows["none"] = {"enter"} /\ Protocol!Follows["enter"] = {"creation"}
      /\ Protocol!Follows["creation"] = {"start", "error"}
      /\ Protocol!Follows["start"] = {"react_success", "react_error", "scoring", "error"}
      /\ Protocol!Follows["step_success"] = {"react_success", "react_error", "scoring", "error"}
      /\ Protocol!Follows["react_success"] = {"step_success", "step_error", "scoring", "error"}
      /\ Protocol!Follows["react_error"] = {"error"} /\ Protocol!Follows["step_error"] = {"error"}
      /\ Protocol!Follows["scoring"] = {"success"}
  BY DEF Protocol!Follows
<1>1. CASE Construct \/ GetSession
  <2>1. Ordered
    BY <1>1, <1>c DEF Construct, GetSession, CallbackInv, CallbackAt
  <2>2. CallbackInv'
    BY <1>1 DEF Construct, GetSession, Proceed, CallbackInv, CallbackAt, CallbackDue
  <2>3. QED
    BY <2>1, <2>2
<1>2. CASE GetInstance \/ Start \/ AgentStart
  <2>1. callback = "creation" /\ Ordered
    BY <1>2, <1>c DEF GetInstance, Start, AgentStart, CallbackInv, CallbackAt
  <2>2. CASE \E e \in CallErrors : Raise(e) /\ callback' = callback
    BY <2>1, <2>2, <1>a, RaiseCallback
  <2>3. CASE ~\E e \in CallErrors : Raise(e) /\ callback' = callback
    BY <1>2, <2>1, <2>3
       DEF GetInstance, Start, AgentStart, Proceed, CallbackInv, CallbackAt, CallbackDue
  <2>4. QED
    BY <2>1, <2>2, <2>3
<1>3. CASE Check
  <2>1. callback' = callback /\ callback \in {"start", "step_success"}
    BY <1>3 DEF Check, CallbackInv, CallbackAt
  <2>2. CASE \E e : Raise(e)
    BY <2>1, <2>2, RaiseCallback DEF Running
  <2>3. CASE Proceed("react")
    BY <2>1, <2>3 DEF Proceed, CallbackInv, CallbackAt, CallbackDue
  <2>4. QED
    BY <1>3, <2>1, <2>2, <2>3 DEF Check
<1>4. CASE ReactRaises \/ StepRaises
  <2>1. /\ callback \in Running /\ Ordered
        /\ callback' \in Running \cup {"react_error", "step_error"}
    BY <1>4, <1>c DEF ReactRaises, StepRaises, CallbackInv, CallbackAt, Running
  <2>2. \E e \in {"AgentError", "BenchmarkError", "KeyboardInterrupt"} : Raise(e)
    BY <1>4 DEF ReactRaises, StepRaises
  <2>3. QED
    BY <2>1, <2>2, <1>a, RaiseCallback
<1>5. ASSUME ReactNoAction \/ \E n \in 1..MaxParallel : ReactAction(n)
      PROVE  CallbackInv' /\ Ordered
  <2>1. callback' = "react_success" /\ Ordered
    BY <1>5, <1>c DEF ReactNoAction, ReactAction, CallbackInv, CallbackAt
  <2>2. CASE \E e : Raise(e)
    BY <2>1, <2>2, RaiseCallback DEF Running
  <2>3. CASE Proceed("step")
    BY <2>1, <2>3 DEF Proceed, CallbackInv, CallbackAt, CallbackDue
  <2>4. QED
    BY <1>5, <2>1, <2>2, <2>3 DEF ReactNoAction, ReactAction
<1>6. CASE StepReturns
  <2>1. callback' = "step_success" /\ Ordered
    BY <1>6, <1>c DEF StepReturns, CallbackInv, CallbackAt
  <2>2. CASE \E e : Raise(e)
    BY <2>1, <2>2, RaiseCallback DEF Running
  <2>3. CASE Proceed("check")
    BY <2>1, <2>3 DEF Proceed, CallbackInv, CallbackAt, CallbackDue
  <2>4. QED
    BY <1>6, <2>1, <2>2, <2>3 DEF StepReturns
<1>7. CASE RecordError \/ RecordScored
  <2>1. \/ pc' = "handle" /\ Len(records') # 0
        \/ pc' = "closeBenchmark"
    BY <1>7 DEF RecordError, RecordScored, Handling, NextCall, Escape, Record, TypeOK
  <2>2. pc' = "handle" => plan' \in SpentPlans
    BY <1>b, <2>1 DEF RecordInv
  <2>3. CallbackInv'
    BY <2>1, <2>2, PlanAfterClose DEF CallbackInv, CallbackAt, CallbackDue
  <2>4. Ordered
    BY <1>7, <1>c DEF RecordError, RecordScored, Handling, CallbackInv, CallbackDue, Running
  <2>5. QED
    BY <2>3, <2>4
<1>8. CASE Score
  <2>1. /\ pc = "handle" /\ plan # <<>> /\ Head(plan) = "score" /\ callback' = "scoring"
        /\ callback \in Running
    BY <1>8 DEF Score, Handling, CallbackInv, CallbackDue
  <2>2. records = <<>> /\ plan \in FreshPlans
    BY <2>1, PlanAfterClose DEF RecordInv
  <2>3. plan = <<"score", "recordScored", "closeBoth">>
    BY <2>1, <2>2, PlanHeads, Zenon DEF FreshPlans
  <2>4. Head(Tail(plan)) = "recordScored"
    BY <2>3, PlanTails, PlanHeads
  <2>5. \/ pc' = "handle" /\ plan' = Tail(plan)
        \/ pc' = "closeBenchmark"
    BY <1>8, <2>1 DEF Score, NextCall, Escape
  <2>6. CallbackInv'
    BY <2>1, <2>4, <2>5 DEF CallbackInv, CallbackAt, CallbackDue
  <2>7. QED
    BY <1>c, <2>1, <2>6 DEF Running
<1>9. CASE CloseBoth \/ CloseAgent
  <2>1. /\ pc = "handle" /\ plan # <<>> /\ UNCHANGED <<records, callback>>
        /\ Head(plan) \in {"closeBoth", "closeAgent"}
        /\ pc' \in {"handle", "closeBenchmark"}
    BY <1>9 DEF CloseBoth, CloseAgent, Handling, NextCall, Escape
  <2>2. records # <<>>
    BY <2>1, PlanAfterClose DEF RecordInv
  <2>3. pc' = "handle" => plan' \in SpentPlans
    BY <1>b, <2>1, <2>2 DEF RecordInv
  <2>4. QED
    BY <2>1, <2>3, PlanAfterClose DEF CallbackInv, CallbackAt, CallbackDue
<1>10. CASE HandlerEnds \/ CloseBenchmark \/ CloseAgentFactory
  BY <1>10 DEF HandlerEnds, CloseBenchmark, CloseAgentFactory, Escape, CallbackInv, CallbackAt, CallbackDue
<1>11. CASE UNCHANGED vars
  BY <1>11 DEF vars, CallbackInv, CallbackAt, CallbackDue
<1>12. QED
  BY <1>1, <1>2, <1>3, <1>4, <1>5, <1>6, <1>7, <1>8, <1>9, <1>10, <1>11
     DEF Next, Work, Finished

\* What is proved of recording and of the callbacks holds throughout.
LEMMA CallbackInvariant == Spec => [](TypeOK /\ RecordInv /\ CallbackInv)
<1>1. Init => RecordInv /\ CallbackInv
  BY DEF Init, RecordInv, After, CallbackInv, CallbackAt, CallbackDue
<1>2. TypeOK /\ RecordInv /\ CallbackInv /\ [Next]_vars => RecordInv' /\ CallbackInv'
  BY RecordStep, CallbackStep
<1>3. QED
  BY <1>1, <1>2, TypeCorrect, PTL DEF Spec

\* The session loop implements the life cycle of callbacks: whatever is raised,
\* an observer sees them in the documented order and none after the last.
THEOREM ImplementsProtocol == Spec => FollowsProtocol
<1>1. Init => Protocol!Init
  BY DEF Init, Protocol!Init
<1>2. TypeOK /\ RecordInv /\ CallbackInv /\ [Next]_vars => [Protocol!Next]_callback
  BY CallbackStep DEF Protocol!Next
<1>3. QED
  BY <1>1, <1>2, CallbackInvariant, PTL DEF Spec, FollowsProtocol, Protocol!Spec
-----------------------------------------------------------------------------
(***************************************************************************)
(* The outcome.  A clause that scores has a termination or the limit in    *)
(* flight, the limit only after a step that reached it, and what is        *)
(* recorded later is what was scored.                                      *)
(***************************************************************************)
\* What score() has to leave for the recording of exception e.
ScoreOf(e) ==
  /\ score.finished \in {"true", "false"}
  /\ score.limit <=> e = "LimitReached"
  /\ score.limit => score.finished = "false"

Due == pc = "handle" /\ records = <<>>
ReasonInv ==
  /\ pc = "step" => ledger > 0
  /\ Due /\ exc = "LimitReached" => LimitHit /\ ledger > 0
  /\ Due /\ Head(plan) \in {"score", "recordScored"} => exc \in Scoring
  /\ Due /\ Head(plan) = "recordScored" => ScoreOf(exc)

OutcomeInv == ReasonInv /\ OutcomeFaithful

\* The status of a scored session, and of one that is not.
LEMMA StatusMeans ==
  /\ \A s \in Scores : s.finished \in {"true", "false"} /\ (s.limit => s.finished = "false") =>
        /\ ScoreStatus(s) # "unknown"
        /\ ScoreStatus(s) = "limit_reached" <=> s.limit /\ s.source # "cancelled"
        /\ ScoreStatus(s) \in Completed
             <=> s.source = "none" \/ ScoreStatus(s) = "limit_reached"
        /\ ScoreStatus(s) = "success" => s.success /\ s.finished = "true"
  /\ \A e : /\ ErrorStatus(e) \in {"cancelled", "error"}
            /\ e \in Cancels => ErrorStatus(e) = "cancelled"
<1>1. ASSUME NEW s \in Scores, s.finished \in {"true", "false"}, s.limit => s.finished = "false"
      PROVE  /\ ScoreStatus(s) # "unknown"
             /\ ScoreStatus(s) = "limit_reached" <=> s.limit /\ s.source # "cancelled"
             /\ ScoreStatus(s) \in Completed
                  <=> s.source = "none" \/ ScoreStatus(s) = "limit_reached"
             /\ ScoreStatus(s) = "success" => s.success /\ s.finished = "true"
  <2>1. s.limit \in BOOLEAN /\ s.success \in BOOLEAN
    BY DEF Scores
  <2>2. CASE s.source = "cancelled"
    <3>1. ScoreStatus(s) = "cancelled"
      BY <2>2 DEF ScoreStatus
    <3>2. QED
      BY <2>2, <3>1 DEF Completed
  <2>3. CASE s.source # "cancelled" /\ s.limit
    <3>1. ScoreStatus(s) = "limit_reached"
      BY <1>1, <2>3 DEF ScoreStatus
    <3>2. QED
      BY <2>3, <3>1 DEF Completed
  <2>4. CASE s.source \notin {"cancelled", "none"} /\ ~s.limit
    <3>1. ScoreStatus(s) = "error"
      BY <2>4 DEF ScoreStatus
    <3>2. QED
      BY <2>4, <3>1 DEF Completed
  <2>5. CASE s.source = "none" /\ ~s.limit /\ s.finished = "true"
    <3>1. ScoreStatus(s) = IF s.success THEN "success" ELSE "unsuccessful"
      BY <2>5 DEF ScoreStatus
    <3>2. QED
      BY <2>5, <3>1 DEF Completed
  <2>6. CASE s.source = "none" /\ ~s.limit /\ s.finished = "false"
    <3>1. ScoreStatus(s) = "unfinished"
      BY <2>6 DEF ScoreStatus
    <3>2. QED
      BY <2>6, <3>1 DEF Completed
  <2>7. QED
    BY <1>1, <2>1, <2>2, <2>3, <2>4, <2>5, <2>6
<1>2. \A e : /\ ErrorStatus(e) \in {"cancelled", "error"}
             /\ e \in Cancels => ErrorStatus(e) = "cancelled"
  BY DEF ErrorStatus
<1>3. QED
  BY <1>1, <1>2

\* With nothing recorded there is nothing to be faithful to.
LEMMA NothingRecorded == records' = <<>> => OutcomeFaithful'
<1>1. SUFFICES ASSUME records' = <<>> PROVE OutcomeFaithful'
  OBVIOUS
<1>2. DOMAIN records' = {}
  BY <1>1
<1>3. QED
  BY <1>2 DEF OutcomeFaithful

\* Raising e is in order if the limit is only raised when it is reached.
LEMMA RaiseOutcome ==
  ASSUME NEW e, Raise(e), records' = <<>>,
         e = "LimitReached" => LimitHit' /\ ledger' > 0
  PROVE  OutcomeInv'
<1>1. pc' = "handle" /\ plan' = HandlerPlan(e) /\ exc' = e
  BY DEF Raise
<1>2. QED
  BY <1>1, HandlerHeads, NothingRecorded DEF OutcomeInv, ReasonInv, Due

\* A step towards the end, once the session is recorded or beyond it.
LEMMA EndingOutcome ==
  ASSUME OutcomeInv, UNCHANGED <<records, callback, score, counts>>,
         pc' # "step", ~Due', pc' = "handle" => pc = "handle" /\ exc' = exc
  PROVE  OutcomeInv'
<1>1. ReasonInv'
  BY DEF ReasonInv
<1>2. LimitHit' = LimitHit
  BY DEF LimitHit
<1>3. OutcomeFaithful'
  BY <1>2 DEF OutcomeInv, OutcomeFaithful
<1>4. QED
  BY <1>1, <1>3 DEF OutcomeInv

\* The outcome is preserved by every step.
LEMMA OutcomeStep ==
  ASSUME TypeOK, RecordInv, CallbackInv, OutcomeInv, [Next]_vars
  PROVE  OutcomeInv'
<1>a. RecordInv'
  BY RecordStep
<1>b. "LimitReached" \notin CallErrors \cup ControllerErrors \cup Terminations \cup
                             {"AgentError", "BenchmarkError", "KeyboardInterrupt", "continue"}
  BY DEF CallErrors, ControllerErrors, Terminations
<1>1. CASE Construct \/ GetSession
  BY <1>1, NothingRecorded
     DEF Construct, GetSession, Proceed, RecordInv, After, OutcomeInv, ReasonInv, Due
<1>2. CASE GetInstance \/ Start \/ AgentStart \/ Check \/ ReactRaises \/ ReactNoAction \/ StepRaises
  <2>1. records' = <<>>
    BY <1>2 DEF GetInstance, Start, AgentStart, Check, ReactRaises, ReactNoAction, StepRaises,
                RecordInv, After
  <2>2. CASE \E e : Raise(e) /\ e # "LimitReached"
    BY <2>1, <2>2, RaiseOutcome
  <2>3. CASE \E to \in {"start", "agentStart", "check", "react"} : Proceed(to)
    BY <2>1, <2>3, NothingRecorded DEF Proceed, OutcomeInv, ReasonInv, Due
  <2>4. QED
    BY <1>2, <1>b, <2>2, <2>3
       DEF GetInstance, Start, AgentStart, Check, ReactRaises, ReactNoAction, StepRaises, Terminations
<1>3. ASSUME NEW n \in 1..MaxParallel, ReactAction(n) PROVE OutcomeInv'
  <2>1. records' = <<>>
    BY <1>3 DEF ReactAction, RecordInv, After
  <2>2. ledger' > 0
    BY <1>3, LoopAssumption DEF ReactAction, TypeOK
  <2>3. CASE \E e \in ControllerErrors : Raise(e)
    BY <1>b, <2>1, <2>3, RaiseOutcome
  <2>4. CASE Proceed("step")
    BY <2>1, <2>2, <2>4, NothingRecorded DEF Proceed, OutcomeInv, ReasonInv, Due
  <2>5. QED
    BY <1>3, <2>3, <2>4 DEF ReactAction
<1>4. CASE StepReturns
  <2>1. records' = <<>> /\ ledger' > 0 /\ LimitHit' = LimitHit
    BY <1>4 DEF StepReturns, RecordInv, After, OutcomeInv, ReasonInv, LimitHit
  <2>2. PICK result \in {"some", "none", "illegal"} :
          \E verdict \in StepVerdict(result) :
            IF verdict = "continue" THEN Proceed("check") ELSE Raise(verdict)
    BY <1>4 DEF StepReturns
  <2>3. PICK verdict \in StepVerdict(result) :
         IF verdict = "continue" THEN Proceed("check") ELSE Raise(verdict)
    BY <2>2
  <2>4. CASE verdict = "continue"
    BY <2>1, <2>3, <2>4, NothingRecorded DEF Proceed, OutcomeInv, ReasonInv, Due
  <2>5. CASE verdict # "continue"
    <3>1. verdict = "LimitReached" => LimitHit
      BY <1>b, Zenon DEF StepVerdict, Terminations
    <3>2. QED
      BY <2>1, <2>3, <2>5, <3>1, RaiseOutcome
  <2>6. QED
    BY <2>4, <2>5
<1>5. CASE RecordError \/ RecordScored
  <2>1. /\ pc = "handle" /\ plan # <<>> /\ UNCHANGED <<counts, score>>
        /\ Head(plan) \in {"record", "recordScored"}
        /\ pc' \in {"handle", "closeBenchmark"} /\ (pc' = "handle" => exc' = exc)
    BY <1>5 DEF RecordError, RecordScored, Record, Handling, NextCall, Escape
  <2>2. records = <<>>
    BY <2>1, PlanAfterClose DEF RecordInv
  <2>3. ASSUME NEW status \in Statuses, Record(status)
        PROVE  \/ pc' = "closeBenchmark" /\ records' = <<>>
               \/ /\ ~Due' /\ DOMAIN records' = {1}
                  /\ records'[1].status = status /\ records'[1].steps = ledger
    <3>1. \/ pc' = "closeBenchmark" /\ records' = <<>>
          \/ records' = <<[status |-> status, steps |-> ledger]>>
      BY <2>2, <2>3 DEF Record, Escape
    <3>2. QED
      BY <3>1 DEF Due
  <2>4. CASE records' = <<>>
    <3>1. pc' = "closeBenchmark"
      BY <1>5, <2>3, <2>4, StatusTypes DEF RecordError, RecordScored
    <3>2. QED
      BY <2>4, <3>1, NothingRecorded DEF OutcomeInv, ReasonInv, Due
  <2>5. CASE RecordError /\ records' # <<>>
    <3>1. Record(ErrorStatus(exc)) /\ callback' = "error"
      BY <2>5 DEF RecordError
    <3>2. /\ ErrorStatus(exc) \in {"cancelled", "error"}
          /\ exc \in Cancels => ErrorStatus(exc) = "cancelled"
      BY StatusMeans
    <3>3. ErrorStatus(exc) \notin Completed \cup {"unknown"}
      BY <3>2 DEF Completed
    <3>4. /\ ~Due' /\ DOMAIN records' = {1} /\ records'[1].status = ErrorStatus(exc)
      BY <2>3, <2>5, <3>1, StatusTypes
    <3>5. ReasonInv'
      BY <2>1, <3>4 DEF ReasonInv
    <3>6. OutcomeFaithful'
      BY <2>1, <3>1, <3>2, <3>3, <3>4 DEF OutcomeFaithful, Completed
    <3>7. QED
      BY <3>5, <3>6 DEF OutcomeInv
  <2>6. CASE RecordScored /\ records' # <<>>
    <3>1. Record(ScoreStatus(score)) /\ callback' = "success" /\ Head(plan) = "recordScored"
      BY <2>6 DEF RecordScored, Handling
    <3>2. exc \in Scoring /\ ScoreOf(exc) /\ (exc = "LimitReached" => LimitHit /\ ledger > 0)
      BY <2>1, <2>2, <3>1 DEF OutcomeInv, ReasonInv, Due
    <3>3. /\ ScoreStatus(score) # "unknown"
          /\ ScoreStatus(score) = "limit_reached" <=> score.limit /\ score.source # "cancelled"
          /\ ScoreStatus(score) \in Completed
               <=> score.source = "none" \/ ScoreStatus(score) = "limit_reached"
          /\ ScoreStatus(score) = "success" => score.success /\ score.finished = "true"
      BY <3>2, StatusMeans DEF ScoreOf, TypeOK
    <3>4. exc \notin Cancels /\ LimitHit' = LimitHit
      BY <2>1, <3>2 DEF Scoring, Cancels, Terminations, LimitHit
    <3>5. /\ ~Due' /\ DOMAIN records' = {1} /\ records'[1].status = ScoreStatus(score)
          /\ records'[1].steps = ledger
      BY <2>3, <2>6, <3>1, StatusTypes
    <3>6. ReasonInv'
      BY <2>1, <3>5 DEF ReasonInv
    <3>7. OutcomeFaithful'
      <4>1. ScoreStatus(score) = "limit_reached" => LimitHit' /\ ledger > 0
        BY <3>2, <3>3, <3>4 DEF ScoreOf
      <4>2. QED
        BY <2>1, <3>1, <3>3, <3>4, <3>5, <4>1 DEF OutcomeFaithful
    <3>8. QED
      BY <3>6, <3>7 DEF OutcomeInv
  <2>7. QED
    BY <1>5, <2>4, <2>5, <2>6
<1>6. CASE Score
  <2>1. /\ pc = "handle" /\ plan # <<>> /\ Head(plan) = "score"
        /\ UNCHANGED <<records, ledger, counts>>
    BY <1>6 DEF Score, Handling
  <2>2. records = <<>> /\ exc \in Scoring
    BY <2>1, PlanAfterClose DEF RecordInv, OutcomeInv, ReasonInv, Due
  <2>3. CASE pc' # "handle"
    BY <1>6, <2>1, <2>2, <2>3, NothingRecorded DEF Score, NextCall, Escape, OutcomeInv, ReasonInv, Due, After
  <2>4. CASE pc' = "handle"
    <3>1. exc' = exc /\ \E own \in Scores : ~own.limit /\ score' = Marked(own)
      BY <1>6, <2>4 DEF Score, NextCall, Escape
    <3>2. PICK own \in Scores : score' = Marked(own)
      BY <3>1
    <3>3. /\ score'.finished = FinishedMark(exc, own.finished)
          /\ score'.limit = (exc = "LimitReached")
          /\ own.finished \in {"none", "true", "false"}
      BY <3>2 DEF Marked, Scores
    <3>4. ScoreOf(exc)'
      BY <3>1, <3>3 DEF FinishedMark, ScoreOf
    <3>5. QED
      BY <2>1, <2>2, <2>4, <3>1, <3>4, NothingRecorded
         DEF OutcomeInv, ReasonInv, Due, LimitHit
  <2>5. QED
    BY <2>3, <2>4
<1>7. CASE CloseBoth \/ CloseAgent
  <2>1. /\ pc = "handle" /\ plan # <<>> /\ UNCHANGED <<records, callback, score, counts>>
        /\ Head(plan) \in {"closeBoth", "closeAgent"}
        /\ pc' \in {"handle", "closeBenchmark"} /\ (pc' = "handle" => exc' = exc)
    BY <1>7 DEF CloseBoth, CloseAgent, Handling, NextCall, Escape
  <2>2. records # <<>>
    BY <2>1, PlanAfterClose DEF RecordInv
  <2>3. QED
    BY <2>1, <2>2, EndingOutcome DEF Due
<1>8. CASE HandlerEnds \/ CloseBenchmark \/ CloseAgentFactory
  <2>1. UNCHANGED <<records, callback, score, counts>> /\ pc' \in After
    BY <1>8 DEF HandlerEnds, CloseBenchmark, CloseAgentFactory, Escape, After
  <2>2. QED
    BY <2>1, EndingOutcome DEF Due, After
<1>9. CASE UNCHANGED vars
  BY <1>9 DEF vars, OutcomeInv, ReasonInv, OutcomeFaithful, Due, LimitHit, ScoreOf
<1>10. QED
  BY <1>1, <1>2, <1>3, <1>4, <1>5, <1>6, <1>7, <1>8, <1>9 DEF Next, Work, Finished

\* The recorded outcome agrees with how the session ended, for any limits and
\* whatever agent, benchmark and controllers do: scored if and only if it is
\* reported so, limit_reached only at the limit, a cancelled session as such.
THEOREM OutcomeTells == Spec => []OutcomeFaithful
<1>1. Init => OutcomeInv
  BY DEF Init, OutcomeInv, ReasonInv, OutcomeFaithful, Due
<1>2. TypeOK /\ RecordInv /\ CallbackInv /\ OutcomeInv /\ [Next]_vars => OutcomeInv'
  BY OutcomeStep
<1>3. OutcomeInv => OutcomeFaithful
  BY DEF OutcomeInv
<1>4. QED
  BY <1>1, <1>2, <1>3, CallbackInvariant, PTL DEF Spec
-----------------------------------------------------------------------------
(***************************************************************************)
(* Closing.  The finally clauses close one factory after the other, and a  *)
(* session whose success was reported is closed by what is left to do.     *)
(***************************************************************************)
FactoryInv ==
  /\ pc \in {"construct", "getSession"} => session = "none"
  /\ pc = "closeAgentFactory" => "benchmark" \in factories
  /\ pc = "done" => session = "none" \/ factories = {"benchmark", "agent"}

\* The agent instance is bound from its creation on.
BoundInv ==
  /\ pc \in {"start", "agentStart"} => agent # "unbound"
  /\ callback \notin {"none", "enter", "creation", "error"} => agent # "unbound"

SuccessInv ==
  callback = "success" /\ reported =>
    /\ pc = "handle" => \/ plan = <<"closeBoth">>
                        \/ plan = <<>> /\ session = "closed" /\ agent = "closed"
    /\ pc \in After => session = "closed" /\ (exc = "none" => agent = "closed")

CloseInv == FactoryInv /\ BoundInv /\ SuccessInv

\* No place of the loop has success behind it.
LEMMA SuccessIsLate ==
  ASSUME CallbackInv, pc \in PCs, callback = "success"
  PROVE  pc \in After \cup {"handle"}
BY DEF CallbackInv, CallbackAt, PCs, After

\* A step keeps the agent bound once it is.
LEMMA BoundStep ==
  ASSUME TypeOK, CallbackInv, BoundInv, [Next]_vars
  PROVE  BoundInv'
<1>1. CASE Construct \/ GetSession
  BY <1>1 DEF Construct, GetSession, Proceed, BoundInv, CallbackInv, CallbackAt
<1>2. CASE GetInstance \/ Start \/ AgentStart \/ Check \/ ReactRaises \/ ReactNoAction
           \/ StepRaises \/ StepReturns \/ \E n \in 1..MaxParallel : ReactAction(n)
  BY <1>2 DEF GetInstance, Start, AgentStart, Check, ReactRaises, ReactNoAction, StepRaises,
     StepReturns, ReactAction, Proceed, Raise, BoundInv, CallbackInv, CallbackAt
<1>3. CASE RecordError \/ RecordScored \/ Score
  BY <1>3 DEF RecordError, RecordScored, Record, Score, Handling, NextCall, Escape, BoundInv, CallbackInv,
     CallbackDue, Running
<1>4. CASE CloseBoth \/ CloseAgent
  BY <1>4 DEF CloseBoth, CloseAgent, Handling, NextCall, Escape, BoundInv
<1>5. CASE HandlerEnds \/ CloseBenchmark \/ CloseAgentFactory
  BY <1>5 DEF HandlerEnds, CloseBenchmark, CloseAgentFactory, Escape, BoundInv
<1>6. CASE UNCHANGED vars
  BY <1>6 DEF vars, BoundInv
<1>7. QED
  BY <1>1, <1>2, <1>3, <1>4, <1>5, <1>6 DEF Next, Work, Finished

\* The factories are closed one after the other.
LEMMA FactoryStep ==
  ASSUME TypeOK, FactoryInv, [Next]_vars
  PROVE  FactoryInv'
<1>1. CASE Construct \/ GetSession \/ GetInstance \/ Start \/ AgentStart \/ Check \/ ReactRaises
           \/ ReactNoAction \/ StepRaises \/ StepReturns \/ \E n \in 1..MaxParallel : ReactAction(n)
  BY <1>1 DEF Construct, GetSession, GetInstance, Start, AgentStart, Check, ReactRaises, ReactNoAction,
     StepRaises, StepReturns, ReactAction, Proceed, Raise, FactoryInv
<1>2. CASE RecordError \/ RecordScored \/ Score \/ CloseBoth \/ CloseAgent \/ HandlerEnds
  <2>1. pc' \in {"handle", "closeBenchmark"}
    BY <1>2 DEF RecordError, RecordScored, Record, Score, CloseBoth, CloseAgent, HandlerEnds, Handling,
                NextCall, Escape
  <2>2. QED
    BY <2>1 DEF FactoryInv
<1>3. CASE CloseBenchmark
  BY <1>3 DEF CloseBenchmark, FactoryInv
<1>4. CASE CloseAgentFactory
  <2>1. "benchmark" \in factories /\ factories \subseteq {"benchmark", "agent"}
    BY <1>4 DEF CloseAgentFactory, FactoryInv, TypeOK
  <2>2. factories' = {"benchmark", "agent"}
    BY <1>4, <2>1 DEF CloseAgentFactory
  <2>3. QED
    BY <1>4, <2>2 DEF CloseAgentFactory, FactoryInv
<1>5. CASE UNCHANGED vars
  BY <1>5 DEF vars, FactoryInv
<1>6. QED
  BY <1>1, <1>2, <1>3, <1>4, <1>5 DEF Next, Work, Finished

\* After success the session and the agent are closed before run_session ends.
LEMMA SuccessStep ==
  ASSUME TypeOK, RecordInv, CallbackInv, BoundInv, SuccessInv, [Next]_vars
  PROVE  SuccessInv'
<1>1. SUFFICES ASSUME callback' = "success", reported' PROVE SuccessInv'
  BY DEF SuccessInv
<1>a. RecordScored => NextCall
  <2>1. SUFFICES ASSUME RecordScored, ~NextCall PROVE FALSE
    OBVIOUS
  <2>2. reported
    BY <1>1, <2>1 DEF RecordScored, Record
  <2>3. pc = "handle" /\ plan # <<>> /\ Head(plan) = "recordScored"
    BY <2>1 DEF RecordScored, Handling
  <2>4. QED
    BY <2>2, <2>3, PlanAfterClose DEF RecordInv
<1>2. CASE RecordScored
  <2>1. /\ pc = "handle" /\ pc' = "handle" /\ plan # <<>> /\ plan' = Tail(plan)
        /\ Head(plan) = "recordScored"
    BY <1>2, <1>a DEF RecordScored, Handling, NextCall
  <2>2. plan \in FreshPlans
    BY <2>1, PlanAfterClose DEF RecordInv
  <2>3. plan = <<"recordScored", "closeBoth">>
    BY <2>1, <2>2, PlanHeads, Zenon DEF FreshPlans
  <2>4. plan' = <<"closeBoth">>
    BY <2>1, <2>3, PlanTails
  <2>5. QED
    BY <2>1, <2>4 DEF SuccessInv, After
<1>3. ASSUME ~RecordScored
      PROVE  callback = "success" /\ reported /\ pc \in After \cup {"handle"}
  <2>1. callback = "success" /\ reported
    BY <1>1, <1>3 DEF Next, Work, Finished, Construct, GetSession, GetInstance, Start, AgentStart, Check,
       ReactRaises, ReactNoAction, StepRaises, StepReturns, ReactAction, RecordError, Score, CloseBoth,
       CloseAgent, HandlerEnds, CloseBenchmark, CloseAgentFactory, vars
  <2>2. QED
    BY <2>1, SuccessIsLate DEF TypeOK
<1>4. pc = "handle" /\ callback = "success" /\ reported /\ plan # <<>> => Head(plan) = "closeBoth" /\ Tail(plan) = <<>>
  BY PlanHeads, PlanTails DEF SuccessInv
<1>5. CASE CloseBoth
  <2>1. /\ pc = "handle" /\ plan # <<>> /\ callback = "success" /\ reported /\ agent # "unbound"
    BY <1>1, <1>5 DEF CloseBoth, Handling, BoundInv
  <2>2. session' = "closed"
    BY <1>5, <2>1 DEF CloseBoth
  <2>3. \/ pc' = "handle" /\ plan' = <<>> /\ agent' = "closed"
        \/ pc' = "closeBenchmark" /\ exc' # "none"
    BY <1>4, <1>5, <2>1 DEF CloseBoth, NextCall, Escape, CallErrors
  <2>4. QED
    BY <2>2, <2>3 DEF SuccessInv, After
<1>6. CASE HandlerEnds
  <2>1. /\ pc = "handle" /\ callback = "success" /\ reported
        /\ UNCHANGED <<session, agent>> /\ pc' \in After
    BY <1>1, <1>6 DEF HandlerEnds, Escape, After
  <2>2. plan = <<>>
    BY <1>4, <1>6, <2>1 DEF HandlerEnds, Handling
  <2>3. session = "closed" /\ agent = "closed"
    BY <2>1, <2>2 DEF SuccessInv
  <2>4. QED
    BY <2>1, <2>3 DEF SuccessInv, After
<1>7. CASE CloseBenchmark \/ CloseAgentFactory
  BY <1>1, <1>7 DEF CloseBenchmark, CloseAgentFactory, SuccessInv, After
<1>8. ASSUME RecordError \/ Score \/ CloseAgent PROVE FALSE
  <2>1. ~RecordScored
    BY <1>8 DEF RecordError, Score, CloseAgent, RecordScored, Handling
  <2>2. pc = "handle" /\ callback = "success" /\ reported /\ plan # <<>> /\ Head(plan) \in {"record", "score", "closeAgent"}
    BY <1>3, <1>8, <2>1 DEF RecordError, Score, CloseAgent, Handling
  <2>3. QED
    BY <1>4, <2>2
<1>9. CASE UNCHANGED vars
  BY <1>9 DEF vars, SuccessInv, After
<1>10. ASSUME \/ Construct \/ GetSession \/ GetInstance \/ Start \/ AgentStart \/ Check \/ ReactRaises
              \/ ReactNoAction \/ StepRaises \/ StepReturns \/ \E n \in 1..MaxParallel : ReactAction(n)
       PROVE  FALSE
  <2>1. pc \notin After \cup {"handle"} /\ ~RecordScored
    BY <1>10 DEF Construct, GetSession, GetInstance, Start, AgentStart, Check, ReactRaises, ReactNoAction,
       StepRaises, StepReturns, ReactAction, After, RecordScored, Handling
  <2>2. QED
    BY <1>3, <2>1
<1>11. QED
  BY <1>2, <1>5, <1>6, <1>7, <1>8, <1>9, <1>10 DEF Next, Work, Finished

\* What run_session and run_session_config have closed when they are done,
\* whatever was raised on the way.
THEOREM EndsClosed == Spec => []ClosedAtEnd
<1>1. Init => CloseInv
  BY DEF Init, CloseInv, FactoryInv, BoundInv, SuccessInv
<1>2. TypeOK /\ RecordInv /\ CallbackInv /\ CloseInv /\ [Next]_vars => CloseInv'
  BY FactoryStep, BoundStep, SuccessStep DEF CloseInv
<1>3. CloseInv => ClosedAtEnd
  BY DEF CloseInv, FactoryInv, SuccessInv, After, ClosedAtEnd, FactoriesClosed, ScoredMeansClosed
<1>4. QED
  BY <1>1, <1>2, <1>3, CallbackInvariant, PTL DEF Spec
-----------------------------------------------------------------------------
(***************************************************************************)
(* The coordinator: what react() of such an agent does.                    *)
(***************************************************************************)
Submission == Action \cup {Nothing}

(***************************************************************************)
(* Sequences of actions.                                                   *)
(***************************************************************************)
\* The members of a sequence are those of its set.
LEMMA Members ==
  ASSUME NEW S, NEW s \in Seq(S)
  PROVE  /\ ToSet(s) \subseteq S
         /\ \A x : x \in ToSet(s) <=> \E i \in 1..Len(s) : s[i] = x
  BY DEF ToSet

\* Without the None of execute(None) only actions are left.
LEMMA WithoutNothing ==
  ASSUME NEW s \in Seq(Submission), Nothing \notin ToSet(s)
  PROVE  s \in Seq(Action)
<1>1. \A i \in 1..Len(s) : s[i] \in Action
  BY Members DEF Submission
<1>2. s = [i \in 1..Len(s) |-> s[i]] /\ Len(s) \in Nat
  OBVIOUS
<1>3. QED
  BY <1>1, <1>2

\* Appending keeps what is there and adds one member.
LEMMA Appended ==
  ASSUME NEW S, NEW s \in Seq(S), NEW x \in S
  PROVE  /\ Append(s, x) \in Seq(S)
         /\ ToSet(Append(s, x)) = ToSet(s) \cup {x}
         /\ Append(s, x) # <<>>
<1>1. /\ Append(s, x) \in Seq(S) /\ Len(Append(s, x)) = Len(s) + 1
      /\ \A i \in 1..Len(s) : Append(s, x)[i] = s[i]
      /\ Append(s, x)[Len(s) + 1] = x
  OBVIOUS
<1>2. Append(s, x) # <<>>
  BY <1>1
<1>3. ASSUME NEW y
      PROVE  y \in ToSet(Append(s, x)) <=> y \in ToSet(s) \/ y = x
  <2>1. ToSet(Append(s, x)) = {Append(s, x)[i] : i \in 1..(Len(s) + 1)}
    BY <1>1 DEF ToSet
  <2>2. ToSet(s) = {s[i] : i \in 1..Len(s)} /\ Len(s) \in Nat
    BY DEF ToSet
  <2>3. \A i \in 1..(Len(s) + 1) : i \in 1..Len(s) \/ i = Len(s) + 1
    BY <2>2
  <2>4. Len(s) + 1 \in 1..(Len(s) + 1) /\ 1..Len(s) \subseteq 1..(Len(s) + 1)
    BY <2>2
  <2>5. QED
    BY <1>1, <2>1, <2>2, <2>3, <2>4
<1>4. ToSet(Append(s, x)) = ToSet(s) \cup {x}
  BY <1>3
<1>5. QED
  BY <1>1, <1>2, <1>4

\* No sequence is shorter than the empty one.
LEMMA Empty ==
  /\ ToSet(<<>>) = {}
  /\ \A x : ToSet(<<x>>) = {x}
  BY DEF ToSet
-----------------------------------------------------------------------------
(***************************************************************************)
(* Types.  The turn is counted once more by close() and once more by the   *)
(* record of a crash, in either order.                                     *)
(***************************************************************************)
TurnBound ==
  /\ ~closed => turn <= MaxTurns
  /\ internal \notin {"ending", "ended"} => turn <= MaxTurns + 1
  /\ internal \in {"ending", "ended"} => closed

TypeInv == MonitorTypeOK /\ TurnBound

\* Overlap gives each tool a Boolean.
LEMMA OverlapType ==
  ASSUME NEW t \in Tools, Overlap(t)
  PROVE  alone' \in [Tools -> BOOLEAN]
<1> DEFINE B(u) == IF u = t THEN /\ pending = <<>> /\ env = "waiting"
                                 /\ \A v \in Tools \ {t} : tool[v] = "ready"
                   ELSE tool[u] = "ready" /\ alone[u]
<1>1. \A u \in Tools : B(u) \in BOOLEAN
  BY Zenon
<1>2. alone' = [u \in Tools |-> B(u)]
  BY Zenon DEF Overlap
<1> HIDE DEF B
<1>3. QED
  BY <1>1, <1>2, Zenon

\* A call is counted, remembers the turn and may wait.
LEMMA CallTypes ==
  ASSUME MonitorTypeOK, NEW t \in Tools, Execute(t) \/ SubmitFinish(t)
  PROVE  /\ NextAction(t) \in Action
         /\ calls' \in [Tools -> 0..MaxCalls]
         /\ since' \in [Tools -> 0..(MaxTurns + 2)]
         /\ tool' \in [Tools -> {"ready", "blocked"}]
<1>1. calls \in [Tools -> 0..MaxCalls] /\ calls[t] < MaxCalls /\ MaxCalls \in Nat
  BY CoordinatorAssumption DEF MonitorTypeOK, Execute, SubmitFinish, MayCall
<1>2. calls[t] + 1 \in 1..MaxCalls /\ calls' = [calls EXCEPT ![t] = calls[t] + 1]
  BY <1>1 DEF Execute, SubmitFinish
<1>3. NextAction(t) \in Action /\ calls' \in [Tools -> 0..MaxCalls]
  BY <1>1, <1>2 DEF NextAction, Action
<1> DEFINE Turn == 0..(MaxTurns + 2)
<1>4. turn \in Turn /\ since \in [Tools -> Turn] /\ tool \in [Tools -> {"ready", "blocked"}]
  BY DEF MonitorTypeOK
<1> HIDE DEF Turn
<1>5. since' \in [Tools -> Turn] /\ tool' \in [Tools -> {"ready", "blocked"}]
  <2>1. CASE Execute(t)
    BY <1>4, <2>1 DEF Execute
  <2>2. CASE SubmitFinish(t)
    BY <1>4, <2>2 DEF SubmitFinish
  <2>3. QED
    BY <2>1, <2>2
<1>6. QED
  BY <1>3, <1>5 DEF Turn

\* Each step keeps the types.
LEMMA TypeStep ==
  ASSUME TypeInv, [MonitorNext]_monitorVars
  PROVE  TypeInv'
<1> USE CoordinatorAssumption
      DEF TypeInv, MonitorTypeOK, TurnBound, Submission, Threads
<1>1. ASSUME Flush, pending \in Seq(Submission)
      PROVE  /\ pending' \in Seq(Submission) /\ batch' \in SUBSET Action
             /\ passed' \in Seq(Action) /\ reaction' \in {"none", "action"}
             /\ env' \in {"leaving", "idle"}
  <2>1. CASE pending = <<>> \/ Nothing \in ToSet(pending)
    BY <1>1, <2>1 DEF Flush
  <2>2. CASE pending # <<>> /\ Nothing \notin ToSet(pending)
    <3>1. pending \in Seq(Action) /\ ToSet(pending) \subseteq Action
      BY <2>2, <1>1, WithoutNothing, Members
    <3>2. passed \o pending \in Seq(Action)
      BY <3>1
    <3>3. /\ pending' = <<>> /\ passed' = passed \o pending
          /\ batch' = ToSet(pending) /\ reaction' = "action" /\ env' = "idle"
      BY <1>1, <2>2 DEF Flush
    <3>4. QED
      BY <3>1, <3>2, <3>3
  <2>3. QED
    BY <2>1, <2>2
<1>2. ASSUME Collect
      PROVE  /\ pending' \in Seq(Submission) /\ batch' \in SUBSET Action
             /\ passed' \in Seq(Action) /\ reaction' \in {"action", "none", "error"}
             /\ env' \in {"leaving", "idle", "accumulating"}
  BY <1>1, <1>2 DEF Collect
<1>3. ASSUME Shut
      PROVE  /\ closed' /\ pending' \in Seq(Submission)
             /\ current' \in [some : BOOLEAN, of : SUBSET Action]
             /\ turn' \in Nat /\ asleep' \in SUBSET Threads
             /\ closed => turn' = turn
             /\ ~closed => turn' = turn + 1
  <2>1. CASE closed
    BY <1>3, <2>1 DEF Shut
  <2>2. CASE ~closed
    <3>1. /\ closed' = TRUE /\ turn' = turn + 1 /\ pending' = <<>>
          /\ current' = [some |-> FALSE, of |-> {}] /\ asleep' = {}
      BY <1>3, <2>2 DEF Shut, NoObservation, Notify
    <3>2. [some |-> FALSE, of |-> {}] \in [some : BOOLEAN, of : SUBSET Action]
      OBVIOUS
    <3>3. pending' \in Seq(Submission) /\ asleep' \in SUBSET Threads
      BY <3>1
    <3>4. turn' \in Nat
      BY <3>1
    <3>5. QED
      BY <2>2, <3>1, <3>2, <3>3, <3>4
  <2>3. QED
    BY <2>1, <2>2
<1>4. CASE React
  <2>1. current' \in [some : BOOLEAN, of : SUBSET Action] /\ turn' \in Nat
        /\ turn' <= MaxTurns
    BY <1>4 DEF React, Observe
  <2>2. /\ pending' \in Seq(Submission) /\ batch' \in SUBSET Action
        /\ passed' \in Seq(Action) /\ reaction' \in {"action", "none", "error"}
        /\ env' \in {"leaving", "idle", "accumulating", "waiting"}
    BY <1>2, <1>4 DEF React
  <2>3. asleep' \in SUBSET Threads
    BY <1>4 DEF React, Notify
  <2>4. QED
    BY <1>4, <2>1, <2>2, <2>3 DEF React
<1>5. CASE ReactWakes
  <2>1. /\ pending' \in Seq(Submission) /\ batch' \in SUBSET Action
        /\ passed' \in Seq(Action) /\ reaction' \in {"action", "none", "error"}
        /\ env' \in {"leaving", "idle", "accumulating"}
        /\ asleep' \in SUBSET Threads
    BY <1>2, <1>5 DEF ReactWakes
  <2>2. QED
    BY <1>5, <2>1 DEF ReactWakes
<1>6. CASE WindowEnds
  BY <1>1, <1>6 DEF WindowEnds
<1>7. CASE Close
  BY <1>3, <1>7 DEF Close
<1>8. CASE AgentEnds
  BY <1>3, <1>8 DEF AgentEnds
<1>9. CASE ReactRefused \/ Join \/ AgentStarts \/ AgentReturns \/ AgentCrashes
  BY <1>9
    DEF ReactRefused, Join, AgentStarts, AgentReturns, AgentCrashes, shared
<1>10. CASE AgentFailsEarly
  BY <1>10 DEF AgentFailsEarly, shared
<1>11. CASE ExecuteNone
  <2>1. Append(pending, Nothing) \in Seq(Submission)
    BY Appended
  <2>2. pending' \in Seq(Submission)
    BY <1>11, <2>1 DEF ExecuteNone
  <2>3. asleep' \in SUBSET Threads
    BY <1>11 DEF ExecuteNone, Notify
  <2>4. QED
    BY <1>11, <2>2, <2>3 DEF ExecuteNone
<1>12. CASE RecordCrash
  BY <1>12 DEF RecordCrash, NoObservation, Notify
<1>13. ASSUME NEW t \in Tools, Execute(t) \/ SubmitFinish(t) PROVE TypeInv'
  <2>1. /\ NextAction(t) \in Action
        /\ calls' \in [Tools -> 0..MaxCalls]
        /\ since' \in [Tools -> 0..(MaxTurns + 2)]
        /\ tool' \in [Tools -> {"ready", "blocked"}]
    BY <1>13, CallTypes
  <2>2. Append(pending, NextAction(t)) \in Seq(Submission)
    BY <2>1, Appended
  <2>3. alone' \in [Tools -> BOOLEAN]
    BY <1>13, OverlapType DEF Execute, SubmitFinish
  <2>4. asleep' \in SUBSET Threads
    BY <1>13 DEF Execute, SubmitFinish, Notify
  <2>5. /\ pending' = Append(pending, NextAction(t))
        /\ UNCHANGED <<turn, current, batch, closed, error, window, env,
                       reaction, internal, fate, passed>>
    BY <1>13 DEF Execute, SubmitFinish
  <2>6. MonitorTypeOK'
    BY <2>1, <2>2, <2>3, <2>4, <2>5
  <2>7. QED
    BY <2>5, <2>6
<1>14. ASSUME NEW t \in Tools, CallRefused(t) PROVE TypeInv'
  <2>1. calls' \in [Tools -> 0..MaxCalls]
    BY <1>14 DEF CallRefused, MayCall
  <2>2. QED
    BY <1>14, <2>1 DEF CallRefused, shared
<1>15. ASSUME NEW t \in Tools, Returns(t) \/ SleepsAgain(t) PROVE TypeInv'
  <2>1. /\ tool' \in [Tools -> {"ready", "blocked"}]
        /\ asleep' \in SUBSET Threads
    BY <1>15 DEF Returns, SleepsAgain
  <2>2. QED
    BY <1>15, <2>1 DEF Returns, SleepsAgain, shared
<1>16. CASE UNCHANGED monitorVars
  BY <1>16 DEF monitorVars
<1>17. QED
  BY <1>4, <1>5, <1>6, <1>7, <1>8, <1>9, <1>10, <1>11, <1>12, <1>13, <1>14,
     <1>15, <1>16 DEF MonitorNext, Environment, AllEnded

\* Every variable of Coordinator keeps its type.
THEOREM MonitorTypeCorrect == MonitorSpec => []MonitorTypeOK
<1>1. ASSUME MonitorInit PROVE TypeInv
  <2>1. /\ turn \in 0..(MaxTurns + 2) /\ turn <= MaxTurns
        /\ calls \in [Tools -> 0..MaxCalls]
        /\ since \in [Tools -> 0..(MaxTurns + 2)]
    BY <1>1, CoordinatorAssumption DEF MonitorInit
  <2>2. current \in [some : BOOLEAN, of : SUBSET Action]
    BY <1>1 DEF MonitorInit, NoObservation
  <2>3. tool \in [Tools -> {"ready", "blocked"}] /\ asleep \in SUBSET Threads
    BY <1>1 DEF MonitorInit, Threads
  <2>4. alone \in [Tools -> BOOLEAN]
    BY <1>1, Zenon DEF MonitorInit
  <2>5. /\ pending \in Seq(Submission) /\ passed \in Seq(Action)
        /\ batch \in SUBSET Action
    BY <1>1 DEF MonitorInit
  <2>6. /\ closed = FALSE /\ error = FALSE /\ window \in BOOLEAN
        /\ env = "idle" /\ reaction = "none" /\ internal = "starting"
        /\ fate = "none"
    BY <1>1 DEF MonitorInit
  <2>7. MonitorTypeOK
    BY <2>1, <2>2, <2>3, <2>4, <2>5, <2>6 DEF MonitorTypeOK, Submission
  <2>8. QED
    BY <2>1, <2>6, <2>7, CoordinatorAssumption DEF TypeInv, TurnBound
<1>2. TypeInv /\ [MonitorNext]_monitorVars => TypeInv'
  BY TypeStep
<1>3. TypeInv => MonitorTypeOK
  BY DEF TypeInv
<1>4. QED
  BY <1>1, <1>2, <1>3, PTL DEF MonitorSpec
-----------------------------------------------------------------------------
(***************************************************************************)
(* What None means.  The coordinator is closed by the environment, which   *)
(* then no longer reacts, or by an agent whose code has ended; and only a  *)
(* closed coordinator has None among its actions, or none after a window.  *)
(***************************************************************************)
ClosedInv ==
  /\ error => closed
  /\ Nothing \in ToSet(pending) => closed
  /\ closed => pending = <<>> \/ Nothing \in ToSet(pending)
  /\ closed => fate # "none" \/ env \in {"joining", "closed"}
  /\ internal \in {"finishing", "crashing", "ending", "ended"} => fate # "none"
  /\ env = "accumulating" => pending # <<>> \/ closed
  /\ NoneMeansOver

\* Each step keeps these facts.
LEMMA ClosedStep ==
  ASSUME MonitorTypeOK, ClosedInv, [MonitorNext]_monitorVars
  PROVE  ClosedInv'
<1> USE DEF ClosedInv, NoneMeansOver
<1>1. pending \in Seq(Submission) /\ closed \in BOOLEAN
  BY DEF MonitorTypeOK, Submission
<1>2. ASSUME Shut
      PROVE  /\ closed' /\ (pending' = <<>> \/ pending' = pending)
             /\ closed => pending' = pending
             /\ ~closed => pending' = <<>>
  BY <1>2, <1>1 DEF Shut
<1>3. CASE React
  <2>1. CASE pending = <<>>
    BY <1>3, <2>1, Empty DEF React
  <2>2. CASE pending # <<>>
    BY <1>3, <2>2, Empty DEF React, Collect, Flush
  <2>3. QED
    BY <2>1, <2>2
<1>4. CASE ReactWakes
  <2>1. CASE closed
    BY <1>4, <2>1 DEF ReactWakes
  <2>2. CASE ~closed
    BY <1>4, <2>2, Empty DEF ReactWakes, Collect, Flush
  <2>3. QED
    BY <2>1, <2>2
<1>5. CASE WindowEnds
  BY <1>5, Empty DEF WindowEnds, Flush
<1>6. CASE Close
  BY <1>2, <1>6, Empty DEF Close
<1>7. CASE AgentEnds
  BY <1>2, <1>7, Empty DEF AgentEnds
<1>8. CASE ReactRefused \/ Join \/ AgentStarts
  BY <1>8 DEF ReactRefused, Join, AgentStarts, shared
<1>9. CASE AgentFailsEarly \/ AgentReturns \/ AgentCrashes
  BY <1>9 DEF AgentFailsEarly, AgentReturns, AgentCrashes, shared
<1>10. CASE ExecuteNone
  <2>1. CASE closed
    BY <1>10, <2>1 DEF ExecuteNone
  <2>2. CASE ~closed
    <3>1. Nothing \in ToSet(Append(pending, Nothing))
      BY <1>1, Appended DEF Submission
    <3>2. QED
      BY <1>10, <2>2, <3>1 DEF ExecuteNone
  <2>3. QED
    BY <2>1, <2>2
<1>11. CASE RecordCrash
  BY <1>11, Empty DEF RecordCrash
<1>12. ASSUME NEW t \in Tools, Execute(t) \/ SubmitFinish(t) PROVE ClosedInv'
  <2>1. /\ NextAction(t) \in Submission /\ NextAction(t) # Nothing
    BY <1>12, CoordinatorAssumption
       DEF Execute, SubmitFinish, MayCall, NextAction, Nothing, Submission,
           Action, MonitorTypeOK
  <2>2. /\ pending' = Append(pending, NextAction(t)) /\ pending' # <<>>
        /\ Nothing \notin ToSet(pending')
    <3>1. pending' = Append(pending, NextAction(t)) /\ Nothing \notin ToSet(pending)
      BY <1>12 DEF Execute, SubmitFinish
    <3>2. /\ ToSet(Append(pending, NextAction(t))) = ToSet(pending) \cup {NextAction(t)}
          /\ Append(pending, NextAction(t)) # <<>>
      BY <1>1, <2>1, Appended
    <3>3. QED
      BY <2>1, <3>1, <3>2
  <2>3. QED
    BY <1>12, <2>2 DEF Execute, SubmitFinish
<1>13. ASSUME NEW t \in Tools, CallRefused(t) \/ Returns(t) \/ SleepsAgain(t)
       PROVE  ClosedInv'
  BY <1>13 DEF CallRefused, Returns, SleepsAgain, shared
<1>14. CASE UNCHANGED monitorVars
  BY <1>14 DEF monitorVars
<1>15. QED
  BY <1>3, <1>4, <1>5, <1>6, <1>7, <1>8, <1>9, <1>10, <1>11, <1>12, <1>13,
     <1>14 DEF MonitorNext, Environment, AllEnded

LEMMA ClosedInvariant == MonitorSpec => []ClosedInv
<1>1. MonitorInit => ClosedInv
  BY Empty DEF MonitorInit, ClosedInv, NoneMeansOver
<1>2. MonitorTypeOK /\ ClosedInv /\ [MonitorNext]_monitorVars => ClosedInv'
  BY ClosedStep
<1>3. QED
  BY <1>1, <1>2, MonitorTypeCorrect, PTL DEF MonitorSpec

\* When react() returns None the agent's code has ended, or never began.
THEOREM NoneIsTheEnd == MonitorSpec => []NoneMeansOver
<1>1. ClosedInv => NoneMeansOver
  BY DEF ClosedInv
<1>2. QED
  BY <1>1, ClosedInvariant, PTL
-----------------------------------------------------------------------------
(***************************************************************************)
(* The observation of a lone call.  Its action goes round by itself: it is *)
(* pending until react() takes it, then with the benchmark, and then the   *)
(* next react() has published what it led to.                              *)
(***************************************************************************)
Waits(t) == /\ pending = <<LastAction(t)>> /\ turn = since[t]
            /\ env \in {"waiting", "accumulating"}
Steps(t) == /\ pending = <<>> /\ turn = since[t]
            /\ batch = {LastAction(t)} /\ env = "idle"
HasAnswer(t) == /\ pending = <<>> /\ turn > since[t] /\ env = "waiting"
                /\ LastAction(t) \in current.of

LoneInv ==
  \A t \in Tools :
    tool[t] = "blocked" /\ alone[t] /\ ~closed =>
      Waits(t) \/ Steps(t) \/ HasAnswer(t)

\* Each step keeps the lone calls on their way.
LEMMA LoneStep ==
  ASSUME MonitorTypeOK, ClosedInv, LoneInv, [MonitorNext]_monitorVars
  PROVE  LoneInv'
<1> SUFFICES ASSUME NEW t \in Tools,
                    tool'[t] = "blocked", alone'[t], ~closed'
             PROVE  (Waits(t) \/ Steps(t) \/ HasAnswer(t))'
  BY DEF LoneInv
<1> DEFINE OnItsWay == Waits(t) \/ Steps(t) \/ HasAnswer(t)
<1>1. /\ pending \in Seq(Submission) /\ turn \in Nat /\ since[t] \in Nat
      /\ calls[t] \in Nat /\ closed \in BOOLEAN
  BY CoordinatorAssumption DEF MonitorTypeOK, Submission
<1>2. ~closed => ~error /\ Nothing \notin ToSet(pending)
  BY DEF ClosedInv
<1>3. ASSUME UNCHANGED <<tool, alone, calls, since>>, ~closed
      PROVE  OnItsWay /\ LastAction(t)' = LastAction(t) /\ since'[t] = since[t]
  BY <1>3 DEF LoneInv, LastAction
<1>4. ASSUME Collect, Waits(t), ~closed, UNCHANGED <<calls, since, turn>>
      PROVE  OnItsWay'
  <2>1. CASE window
    BY <1>4, <2>1 DEF Collect, Waits, LastAction
  <2>2. CASE ~window
    BY <1>2, <1>4, <2>2, Empty DEF Collect, Flush, Waits, Steps, LastAction
  <2>3. QED
    BY <2>1, <2>2
<1>5. CASE React
  <2>1. ~closed /\ Steps(t)
    BY <1>3, <1>5 DEF React, Waits, HasAnswer
  <2>2. /\ pending = <<>> /\ batch = {LastAction(t)} /\ turn = since[t]
        /\ current'.of = batch /\ turn' = turn + 1
    BY <1>5, <2>1 DEF React, Steps, Observe
  <2>3. pending' = <<>> /\ env' = "waiting" /\ since' = since /\ calls' = calls
    BY <1>5, <2>2 DEF React
  <2>4. HasAnswer(t)'
    BY <1>1, <2>2, <2>3 DEF HasAnswer, LastAction
  <2>5. QED
    BY <2>4
<1>6. CASE ReactWakes
  <2>1. ~closed /\ Waits(t)
    BY <1>3, <1>6 DEF ReactWakes, Steps, HasAnswer
  <2>2. Collect /\ UNCHANGED <<calls, since, turn>>
    BY <1>2, <1>6, <2>1 DEF ReactWakes
  <2>3. QED
    BY <1>4, <2>1, <2>2
<1>7. CASE WindowEnds
  <2>1. ~closed /\ Waits(t)
    BY <1>3, <1>7 DEF WindowEnds, Steps, HasAnswer
  <2>2. QED
    BY <1>2, <1>7, <2>1, Empty DEF WindowEnds, Flush, Waits, Steps, LastAction
<1>8. CASE Close \/ AgentEnds \/ ExecuteNone \/ RecordCrash \/ ReactRefused \/ Join
  <2>1. ASSUME Shut PROVE closed'
    BY <2>1 DEF Shut
  <2>2. CASE ReactRefused
    BY <1>2, <2>2, <1>3 DEF ReactRefused, shared
  <2>3. CASE Join
    BY <2>3, <1>3 DEF Join, shared, Waits, Steps, HasAnswer
  <2>4. QED
    BY <1>8, <2>1, <2>2, <2>3 DEF Close, AgentEnds, ExecuteNone, RecordCrash
<1>9. CASE AgentStarts \/ AgentFailsEarly \/ AgentReturns \/ AgentCrashes
  <2>1. UNCHANGED <<shared, env, tool, alone, calls, since>>
    BY <1>9 DEF AgentStarts, AgentFailsEarly, AgentReturns, AgentCrashes
  <2>2. QED
    BY <2>1, <1>3 DEF shared, Waits, Steps, HasAnswer, LastAction
<1>10. ASSUME NEW u \in Tools, Execute(u) PROVE OnItsWay'
  <2>1. u = t
    <3>1. u # t => tool'[t] = tool[t] /\ alone'[t] = (tool[t] = "ready" /\ alone[t])
      BY <1>10 DEF Execute, Overlap, MonitorTypeOK
    <3>2. QED
      BY <3>1
  <2>2. pending = <<>> /\ env = "waiting"
    BY <1>10, <2>1 DEF Execute, Overlap
  <2>3. /\ pending' = <<NextAction(t)>> /\ turn' = turn /\ env' = env
        /\ since'[t] = turn /\ calls'[t] = calls[t] + 1
    BY <1>10, <2>1, <2>2 DEF Execute, MonitorTypeOK
  <2>4. LastAction(t)' = NextAction(t)
    BY <2>3 DEF LastAction, NextAction
  <2>5. QED
    BY <2>2, <2>3, <2>4 DEF Waits
<1>11. ASSUME NEW u \in Tools, SubmitFinish(u) PROVE OnItsWay'
  <2>1. tool[t] = "blocked" /\ u # t /\ alone'[t] = (tool[t] = "ready" /\ alone[t])
    BY <1>11 DEF SubmitFinish, MayCall, Overlap
  <2>2. QED
    BY <2>1
<1>12. ASSUME NEW u \in Tools, CallRefused(u) PROVE OnItsWay'
  BY <1>2, <1>12 DEF CallRefused, shared
<1>13. ASSUME NEW u \in Tools, Returns(u) \/ SleepsAgain(u) PROVE OnItsWay'
  <2>1. tool[t] = "blocked" /\ UNCHANGED <<shared, env, alone, calls, since>>
    BY <1>13 DEF Returns, SleepsAgain, MonitorTypeOK
  <2>2. OnItsWay
    BY <2>1 DEF LoneInv, shared
  <2>3. QED
    BY <2>1, <2>2 DEF shared, Waits, Steps, HasAnswer, LastAction
<1>14. CASE UNCHANGED monitorVars
  BY <1>14, <1>3 DEF monitorVars, Waits, Steps, HasAnswer, LastAction
<1>15. QED
  BY <1>5, <1>6, <1>7, <1>8, <1>9, <1>10, <1>11, <1>12, <1>13, <1>14
     DEF MonitorNext, Environment, AllEnded

LEMMA LoneInvariant == MonitorSpec => []LoneInv
<1>1. MonitorInit => LoneInv
  BY DEF MonitorInit, LoneInv
<1>2. MonitorTypeOK /\ ClosedInv /\ LoneInv /\ [MonitorNext]_monitorVars => LoneInv'
  BY LoneStep
<1>3. QED
  BY <1>1, <1>2, MonitorTypeCorrect, ClosedInvariant, PTL DEF MonitorSpec

\* Only the end of its wait lets a call return; while the coordinator is open
\* that is after a turn.
LEMMA AnswersAreReturns ==
  ASSUME MonitorTypeOK, [MonitorNext]_monitorVars, NEW t \in Tools, Answered(t)
  PROVE  turn # since[t]
<1> USE DEF Answered
<1>1. tool' # tool
  OBVIOUS
<1>2. PICK u \in Tools : Execute(u) \/ Returns(u)
  BY <1>1
    DEF MonitorNext, Environment, AllEnded, monitorVars, React, ReactRefused,
        ReactWakes, WindowEnds, Close, Join, AgentStarts, AgentFailsEarly,
        AgentReturns, AgentCrashes, ExecuteNone, RecordCrash, AgentEnds,
        CallRefused, SubmitFinish, SleepsAgain
<1>3. ~Execute(u)
  BY DEF Execute, MonitorTypeOK
<1>4. Returns(u) /\ u = t
  BY <1>2, <1>3 DEF Returns, MonitorTypeOK
<1>5. QED
  BY <1>4 DEF Returns

\* A closed coordinator hands out nothing and stays closed.
LEMMA ClosedStays ==
  ASSUME MonitorTypeOK, ClosedInv, [MonitorNext]_monitorVars, closed
  PROVE  closed' /\ passed' = passed
<1>1. ASSUME Flush PROVE passed' = passed
  BY <1>1 DEF Flush, ClosedInv
<1>2. CASE React
  BY <1>2 DEF React
<1>3. CASE ReactWakes \/ WindowEnds
  BY <1>1, <1>3 DEF ReactWakes, WindowEnds
<1>4. CASE Close \/ AgentEnds
  <2>1. closed' /\ passed' = passed
    BY <1>4, Zenon DEF Close, AgentEnds, Shut
  <2>2. QED
    BY <2>1
<1>5. CASE ReactRefused \/ Join \/ ExecuteNone \/ RecordCrash
  BY <1>5 DEF ReactRefused, Join, ExecuteNone, RecordCrash, shared
<1>6. CASE AgentStarts \/ AgentFailsEarly \/ AgentReturns \/ AgentCrashes
  BY <1>6 DEF AgentStarts, AgentFailsEarly, AgentReturns, AgentCrashes, shared
<1>7. ASSUME NEW t \in Tools,
             Execute(t) \/ SubmitFinish(t) \/ CallRefused(t) \/ Returns(t)
               \/ SleepsAgain(t)
      PROVE  closed' /\ passed' = passed
  BY <1>7 DEF Execute, SubmitFinish, CallRefused, Returns, SleepsAgain, shared
<1>8. CASE UNCHANGED monitorVars
  BY <1>8 DEF monitorVars
<1>9. QED
  BY <1>2, <1>3, <1>4, <1>5, <1>6, <1>7, <1>8
    DEF MonitorNext, Environment, AllEnded

\* A lone call returns with the observation of its own action, and a closed
\* coordinator hands out no action.
THEOREM TurnsAreKept == MonitorSpec => TurnsKept
<1>1. MonitorTypeOK /\ ClosedInv /\ LoneInv /\ [MonitorNext]_monitorVars =>
        [\A t \in Tools :
           Answered(t) /\ alone[t] => LastAction(t) \in current.of]_monitorVars
  <2>1. SUFFICES ASSUME MonitorTypeOK, ClosedInv, LoneInv, [MonitorNext]_monitorVars,
                        NEW t \in Tools, Answered(t), alone[t]
                 PROVE  LastAction(t) \in current.of
    OBVIOUS
  <2>2. turn # since[t]
    BY <2>1, AnswersAreReturns
  <2>3. Waits(t) \/ Steps(t) \/ HasAnswer(t)
    BY <2>1 DEF LoneInv, Answered
  <2>4. QED
    BY <2>2, <2>3 DEF Waits, Steps, HasAnswer
<1>2. MonitorTypeOK /\ ClosedInv /\ [MonitorNext]_monitorVars => [closed => closed' /\ passed' = passed]_monitorVars
  BY ClosedStays
<1>3. QED
  BY <1>1, <1>2, MonitorTypeCorrect, ClosedInvariant, LoneInvariant, PTL
     DEF MonitorSpec, TurnsKept, LoneCallAnswered, ClosedForGood
-----------------------------------------------------------------------------
(***************************************************************************)
(* The order of actions.  A step leaves what was submitted as it is, adds  *)
(* one action at its end, or closes the coordinator and forgets what was   *)
(* pending.                                                                *)
(***************************************************************************)
\* No action of a tool is numbered beyond its calls.
Counted ==
  \A i \in DOMAIN Submitted :
    Submitted[i].by \in Tools => Submitted[i].n <= calls[Submitted[i].by]

OrderInv == EachActionOnce /\ Counted

\* The members of a sequence with one more.
LEMMA Extended ==
  ASSUME NEW S, NEW s \in Seq(S), NEW x \in S
  PROVE  /\ DOMAIN Append(s, x) = DOMAIN s \cup {Len(s) + 1}
         /\ \A i \in DOMAIN s : i <= Len(s) /\ i \in Nat /\ Append(s, x)[i] = s[i]
         /\ Append(s, x)[Len(s) + 1] = x
  OBVIOUS

\* A later action may follow those of its thread.
LEMMA OrderedAppend ==
  ASSUME NEW s \in Seq(Submission), InOrder(s), NEW x \in Submission,
         \A i \in DOMAIN s : s[i].by = x.by => s[i].n < x.n
  PROVE  InOrder(Append(s, x))
<1>1. SUFFICES ASSUME NEW i \in DOMAIN Append(s, x), NEW j \in DOMAIN Append(s, x),
                      i < j, Append(s, x)[i].by = Append(s, x)[j].by
               PROVE  Append(s, x)[i].n < Append(s, x)[j].n
  BY DEF InOrder
<1>2. i \in DOMAIN s /\ Append(s, x)[i] = s[i]
  BY <1>1, Extended
<1>3. CASE j \in DOMAIN s
  BY <1>1, <1>2, <1>3, Extended DEF InOrder
<1>4. CASE j = Len(s) + 1
  BY <1>1, <1>2, <1>4, Extended
<1>5. QED
  BY <1>3, <1>4, Extended

\* Less of a sequence is in order too.
LEMMA OrderedPrefix ==
  ASSUME NEW p \in Seq(Submission), NEW q \in Seq(Submission)
  PROVE  /\ DOMAIN p \subseteq DOMAIN (p \o q)
         /\ \A i \in DOMAIN p : (p \o q)[i] = p[i]
         /\ InOrder(p \o q) => InOrder(p)
<1>1. /\ DOMAIN p = 1..Len(p) /\ DOMAIN (p \o q) = 1..(Len(p) + Len(q))
      /\ Len(p) \in Nat /\ Len(q) \in Nat
      /\ \A i \in 1..Len(p) : (p \o q)[i] = p[i]
  OBVIOUS
<1>2. DOMAIN p \subseteq DOMAIN (p \o q)
  BY <1>1
<1>3. QED
  BY <1>1, <1>2 DEF InOrder

\* Each step keeps the order.
LEMMA OrderStep ==
  ASSUME MonitorTypeOK, ClosedInv, OrderInv, [MonitorNext]_monitorVars
  PROVE  OrderInv'
<1>1. /\ pending \in Seq(Submission) /\ passed \in Seq(Submission)
      /\ closed \in BOOLEAN /\ calls \in [Tools -> Nat]
  <2>1. passed \in Seq(Submission)
    BY DEF MonitorTypeOK, Submission
  <2>2. calls \in [Tools -> Nat]
    BY CoordinatorAssumption DEF MonitorTypeOK
  <2>3. QED
    BY <2>1, <2>2 DEF MonitorTypeOK, Submission
<1>2. ASSUME Submitted' = Submitted, calls' = calls, closed => closed'
      PROVE  OrderInv'
  BY <1>1, <1>2 DEF OrderInv, EachActionOnce, Counted
<1>3. ASSUME pending' = <<>>, passed' = passed, calls' = calls, closed'
      PROVE  OrderInv'
  <2>1. Submitted' = passed
    BY <1>1, <1>3 DEF Submitted
  <2>2. QED
    BY <1>1, <1>3, <2>1, OrderedPrefix
       DEF OrderInv, EachActionOnce, Counted, Submitted
<1>4. ASSUME Flush, UNCHANGED <<calls, closed>>
      PROVE  OrderInv'
  <2>1. CASE pending = <<>>
    <3>1. Submitted' = Submitted
      BY <1>4, <2>1 DEF Flush, Submitted
    <3>2. QED
      BY <1>2, <1>4, <3>1
  <2>2. CASE Nothing \in ToSet(pending)
    BY <1>3, <1>4, <2>2 DEF Flush, ClosedInv
  <2>3. CASE pending # <<>> /\ Nothing \notin ToSet(pending)
    <3>1. pending' = <<>> /\ passed' = passed \o pending
      BY <1>4, <2>3 DEF Flush
    <3>2. Submitted' = Submitted
      BY <1>1, <3>1 DEF Submitted
    <3>3. QED
      BY <1>2, <1>4, <3>2
  <2>4. QED
    BY <2>1, <2>2, <2>3
<1>5. ASSUME Collect, UNCHANGED <<calls, closed>>
      PROVE  OrderInv'
  <2>1. CASE window
    <3>1. Submitted' = Submitted
      BY <1>5, <2>1 DEF Collect, Submitted
    <3>2. QED
      BY <1>2, <1>5, <3>1
  <2>2. CASE ~window
    BY <1>4, <1>5, <2>2 DEF Collect
  <2>3. QED
    BY <2>1, <2>2
<1>6. ASSUME Shut, UNCHANGED <<calls, passed>>
      PROVE  OrderInv'
  <2>1. CASE closed
    <3>1. Submitted' = Submitted /\ closed'
      BY <1>6, <2>1 DEF Shut, Submitted
    <3>2. QED
      BY <1>2, <1>6, <3>1
  <2>2. CASE ~closed
    BY <1>3, <1>6, <2>2 DEF Shut
  <2>3. QED
    BY <2>1, <2>2
<1>7. ASSUME UNCHANGED <<shared, passed, calls>> PROVE OrderInv'
  <2>1. Submitted' = Submitted /\ calls' = calls /\ closed' = closed
    BY <1>7 DEF shared, Submitted
  <2>2. QED
    BY <1>2, <2>1
<1>8. CASE React
  <2>1. CASE pending = <<>>
    <3>1. Submitted' = Submitted /\ calls' = calls /\ closed' = closed
      BY <1>8, <2>1 DEF React, Submitted
    <3>2. QED
      BY <1>2, <3>1
  <2>2. CASE pending # <<>>
    BY <1>5, <1>8, <2>2 DEF React
  <2>3. QED
    BY <2>1, <2>2
<1>9. CASE ReactWakes
  <2>1. CASE closed
    <3>1. Submitted' = Submitted /\ calls' = calls /\ closed' = closed
      BY <1>9, <2>1 DEF ReactWakes, Submitted
    <3>2. QED
      BY <1>2, <3>1
  <2>2. CASE ~closed
    BY <1>5, <1>9, <2>2 DEF ReactWakes, ClosedInv
  <2>3. QED
    BY <1>1, <2>1, <2>2
<1>10. CASE WindowEnds
  BY <1>4, <1>10 DEF WindowEnds
<1>11. CASE Close \/ AgentEnds
  BY <1>6, <1>11 DEF Close, AgentEnds
<1>12. CASE ReactRefused \/ Join
  BY <1>7, <1>12 DEF ReactRefused, Join
<1>13. CASE AgentStarts \/ AgentFailsEarly \/ AgentReturns \/ AgentCrashes
  BY <1>7, <1>13 DEF AgentStarts, AgentFailsEarly, AgentReturns, AgentCrashes
<1>14. ASSUME NEW x \in Submission, pending' = Append(pending, x), passed' = passed
       PROVE  Submitted \in Seq(Submission) /\ Submitted' = Append(Submitted, x)
  BY <1>1, <1>14 DEF Submitted
<1>15. CASE ExecuteNone
  <2>1. CASE closed
    <3>1. Submitted' = Submitted /\ calls' = calls /\ closed'
      BY <1>15, <2>1 DEF ExecuteNone, Submitted
    <3>2. QED
      BY <1>2, <3>1
  <2>2. CASE ~closed
    <3>1. /\ closed' /\ calls' = calls /\ Nothing \in Submission
          /\ Submitted \in Seq(Submission) /\ Submitted' = Append(Submitted, Nothing)
      BY <1>14, <1>15, <2>2 DEF ExecuteNone, Submission
    <3>2. passed \in Seq(Action) /\ pending \in Seq(Action)
      BY <1>1, <2>2, WithoutNothing DEF ClosedInv, MonitorTypeOK
    <3>3. Submitted \in Seq(Action)
      BY <3>2 DEF Submitted
    <3>4. Nothing.by \notin Tools
      BY CoordinatorAssumption DEF Nothing
    <3>5. \A i \in DOMAIN Submitted : Submitted[i].by # Nothing.by
      <4>1. \A i \in DOMAIN Submitted : Submitted[i] \in Action
        BY <3>3
      <4>2. QED
        BY <3>4, <4>1 DEF Action
    <3>6. InOrder(Submitted')
      BY <3>1, <3>5, OrderedAppend DEF OrderInv, EachActionOnce
    <3>7. Counted'
      BY <3>1, <3>4, Extended DEF OrderInv, Counted
    <3>8. QED
      BY <3>1, <3>6, <3>7 DEF OrderInv, EachActionOnce
  <2>3. QED
    BY <1>1, <2>1, <2>2
<1>16. CASE RecordCrash
  BY <1>3, <1>16 DEF RecordCrash
<1>17. ASSUME NEW t \in Tools, Execute(t) \/ SubmitFinish(t) PROVE OrderInv'
  <2> DEFINE x == NextAction(t)
  <2>1. /\ x \in Submission /\ x.by = t /\ x.n = calls[t] + 1
        /\ calls' = [calls EXCEPT ![t] = calls[t] + 1]
        /\ pending' = Append(pending, x) /\ passed' = passed
        /\ ~closed
    <3>1. calls[t] \in Nat /\ calls[t] < MaxCalls /\ MaxCalls \in Nat
      BY <1>1, <1>17, CoordinatorAssumption DEF Execute, SubmitFinish, MayCall
    <3>2. x \in Action /\ x.by = t /\ x.n = calls[t] + 1
      BY <3>1 DEF NextAction, Action
    <3>3. QED
      BY <1>17, <3>2 DEF Execute, SubmitFinish, Submission
  <2> HIDE DEF x
  <2>2. Submitted \in Seq(Submission) /\ Submitted' = Append(Submitted, x)
    BY <1>14, <2>1
  <2>3. /\ DOMAIN Submitted' = DOMAIN Submitted \cup {Len(Submitted) + 1}
        /\ \A i \in DOMAIN Submitted : Submitted'[i] = Submitted[i]
        /\ Submitted'[Len(Submitted) + 1] = x
    BY <2>1, <2>2, Extended
  <2>4. /\ calls'[t] = calls[t] + 1 /\ calls[t] \in Nat
        /\ \A u \in Tools \ {t} : calls'[u] = calls[u]
    BY <1>1, <2>1
  <2>5. InOrder(Submitted')
    <3>1. \A i \in DOMAIN Submitted : Submitted[i].by = t => Submitted[i].n \in Nat
      BY <2>2 DEF Submission, Action, Nothing
    <3>2. \A i \in DOMAIN Submitted : Submitted[i].by = x.by => Submitted[i].n < x.n
      BY <2>1, <2>4, <3>1 DEF OrderInv, Counted
    <3>3. QED
      BY <2>1, <2>2, <3>2, OrderedAppend DEF OrderInv, EachActionOnce
  <2>6. Counted'
    <3>1. SUFFICES ASSUME NEW i \in DOMAIN Submitted', Submitted'[i].by \in Tools
                   PROVE  Submitted'[i].n <= calls'[Submitted'[i].by]
      BY DEF Counted
    <3>2. CASE i = Len(Submitted) + 1
      BY <2>1, <2>3, <2>4, <3>2
    <3>3. CASE i \in DOMAIN Submitted
      <4>1. /\ Submitted'[i] = Submitted[i] /\ Submitted[i].n \in Nat
            /\ Submitted[i].n <= calls[Submitted[i].by]
        BY <2>2, <2>3, <3>1, <3>3
          DEF OrderInv, Counted, Submission, Action, Nothing
      <4>2. QED
        BY <1>1, <2>4, <3>1, <4>1
    <3>4. QED
      BY <2>3, <3>2, <3>3
  <2>7. ASSUME NEW u \in Tools, NEW n \in 1..calls'[u]
        PROVE  \E i \in DOMAIN Submitted' : Submitted'[i] = [by |-> u, n |-> n]
    <3>1. CASE u = t /\ n = calls[t] + 1
      BY <2>3, <3>1 DEF x, NextAction
    <3>2. CASE n \in 1..calls[u]
      BY <2>1, <2>3, <3>2 DEF OrderInv, EachActionOnce
    <3>3. QED
      BY <1>1, <2>4, <3>1, <3>2
  <2>8. QED
    BY <2>5, <2>6, <2>7 DEF OrderInv, EachActionOnce
<1>18. ASSUME NEW t \in Tools, CallRefused(t) PROVE OrderInv'
  <2>1. /\ closed /\ closed' /\ Submitted' = Submitted
        /\ calls' = [calls EXCEPT ![t] = calls[t] + 1]
    BY <1>18 DEF CallRefused, shared, Submitted, ClosedInv
  <2>2. \A u \in Tools : calls[u] \in Nat /\ calls'[u] >= calls[u] /\ calls'[u] \in Nat
    BY <1>1, <2>1
  <2>3. \A i \in DOMAIN Submitted : Submitted[i].n \in Nat
    <3>1. Submitted \in Seq(Submission)
      BY <1>1 DEF Submitted
    <3>2. QED
      BY <3>1 DEF Submission, Action, Nothing
  <2>4. QED
    BY <2>1, <2>2, <2>3 DEF OrderInv, EachActionOnce, Counted
<1>19. ASSUME NEW t \in Tools, Returns(t) \/ SleepsAgain(t) PROVE OrderInv'
  BY <1>7, <1>19 DEF Returns, SleepsAgain
<1>20. CASE UNCHANGED monitorVars
  BY <1>7, <1>20 DEF monitorVars, shared
<1>21. QED
  BY <1>8, <1>9, <1>10, <1>11, <1>12, <1>13, <1>15, <1>16, <1>17, <1>18,
     <1>19, <1>20 DEF MonitorNext, Environment, AllEnded

\* react() hands out each action once and those of a thread in the order of
\* its calls, and loses none while the coordinator is open.
THEOREM ActionsKept == MonitorSpec => []EachActionOnce
<1>1. MonitorInit => OrderInv
  <2>1. ASSUME MonitorInit PROVE Submitted = <<>> /\ \A t \in Tools : calls[t] = 0
    BY <2>1 DEF MonitorInit, Submitted
  <2>2. QED
    BY <2>1 DEF OrderInv, EachActionOnce, InOrder, Counted
<1>2. MonitorTypeOK /\ ClosedInv /\ OrderInv /\ [MonitorNext]_monitorVars => OrderInv'
  BY OrderStep
<1>3. OrderInv => EachActionOnce
  BY DEF OrderInv
<1>4. QED
  BY <1>1, <1>2, <1>3, MonitorTypeCorrect, ClosedInvariant, PTL DEF MonitorSpec
=============================================================================
