---------------------------- MODULE ToolCalling ----------------------------
(***************************************************************************)
(* The tool-calling agent and the environment it talks to: the health      *)
(* check of the model (integrations/litellm/health.py), the conversation   *)
(* LiteLLMToolCallingAgentInstance keeps with the model, the actions it    *)
(* builds from the model's tool calls (agents/litellm_tool_calling/) and   *)
(* the ActionsHandler that executes them (core/actions.py).                *)
(*                                                                         *)
(* The model may answer anything: any number of calls, of tools that do    *)
(* not exist, with arguments that do not validate, without an id; or fail. *)
(* Texts, tokens and delays are left out.                                  *)
(***************************************************************************)
EXTENDS Naturals, Sequences, FiniteSets, SequencesExt

CONSTANTS
  MaxSteps,      \* max_steps of the agent
  NumRetries,    \* model_settings.num_retries
  HealthRetries, \* max(num_retries, _HEALTH_MIN_RETRIES)
  MaxCalls       \* tool calls of one reply (bound of the model)

ASSUME ToolCallingAssumption ==
  /\ MaxSteps \in Nat \ {0}
  /\ NumRetries \in Nat /\ HealthRetries \in Nat
  /\ MaxCalls \in Nat \ {0}

VARIABLES
  turn,        \* what the agent's thread is at, see Turns
  probe,       \* the coroutine of the health check
  probes,      \* its attempt
  attempt,     \* the attempt of the completion under way
  stepCount,   \* _step_count
  issued,      \* the tool calls the model made so far, which number them
  messages,    \* the conversation: role, and the calls it makes or answers
  action,      \* the calls of the action the environment is given
  observation, \* what it returns, <<>> for None
  observed,    \* the calls of the history it gave an observation for
  policy       \* the choices of the agent and of the benchmark's handler

chat == <<turn, probe, probes, attempt, stepCount, issued, messages, action,
          observation, observed, policy>>

Turns == {"checking", "observing", "shortlisting", "completing", "acting",
          "done", "failed"}
Policies == [validation : {"warn", "custom", "drop"}, customUnknown : BOOLEAN,
             messaging : BOOLEAN, shortlisting : BOOLEAN]
\* Of a tool call: its name, whether the arguments validate, whether it has
\* an id.  Its number stands for the id.
Names == {"tool", "unknown", "message"}
Shapes == {s \in [name : Names, valid : BOOLEAN, known : BOOLEAN] :
             s.name = "tool" \/ s.valid}
Kinds == {"empty", "text", "payload"}
User == [role |-> "user", calls |-> <<>>]
\* The action of a plain reply, and an observation no action invoked.
MessageAction == [name |-> "message", valid |-> TRUE, known |-> TRUE, call |-> 0]
Uninvoked(kind) == [name |-> "none", known |-> FALSE, call |-> 0, kind |-> kind]

ChatInit ==
  /\ turn = "checking" /\ probe = "calling" /\ probes = 0 /\ attempt = 0
  /\ stepCount = 0 /\ issued = 0 /\ messages = <<User>> /\ action = <<>>
  /\ observation \in {<<>>} \cup {<<Uninvoked(kind)>> : kind \in Kinds}
  /\ observed = {}
  /\ policy \in Policies
-----------------------------------------------------------------------------
(***************************************************************************)
(* classify_error: an exception is of one of four categories; the health   *)
(* check passes on REACHABLE, and only TRANSIENT is ever retried.          *)
(***************************************************************************)
Categories == {"transient", "reachable", "permanent", "unknown"}

Retried(category, done, retries) == category = "transient" /\ done < retries

\* acheck_model_accessible, on the loop all sessions of the process share.
Probe ==
  /\ probe = "calling"
  /\ \E answer \in Categories \cup {"ok"} :
       IF Retried(answer, probes, HealthRetries)
       THEN probes' = probes + 1 /\ UNCHANGED probe
       ELSE /\ probe' = IF answer \in {"ok", "reachable"} THEN "passed"
                        ELSE "raised"
            /\ UNCHANGED probes
  /\ UNCHANGED <<turn, attempt, stepCount, issued, messages, action,
                 observation, observed, policy>>

\* check_model_accessible_sync: the result, or the end of the 240 seconds;
\* the coroutine is then not cancelled.
Checked ==
  /\ turn = "checking"
  /\ turn' = IF probe = "passed" THEN "observing" ELSE "failed"
  /\ UNCHANGED <<probe, probes, attempt, stepCount, issued, messages, action,
                 observation, observed, policy>>
-----------------------------------------------------------------------------
(***************************************************************************)
(* react, up to the completion.                                            *)
(***************************************************************************)
\* Variant: an empty observation is skipped whoever invoked it.
SkippedEmpty(obs) == \A i \in DOMAIN obs : obs[i].kind = "empty"

Skipped(obs) ==
  \A i \in DOMAIN obs : obs[i].kind = "empty" /\ obs[i].name = "none"

IsToolResult(obs) == obs.kind # "payload" /\ obs.name \notin {"none", "message"}
MessageOf(obs) == IF IsToolResult(obs)
                  THEN [role |-> "tool", calls |-> <<obs.call>>]
                  ELSE User

\* The turn that follows the observations: _assistant_tools asks the model
\* for a shortlist first.
Ask == /\ attempt' = 0
       /\ turn' = IF policy.shortlisting THEN "shortlisting" ELSE "completing"

\* A tool result whose call has no id cannot be sent: RuntimeError.
Observe ==
  /\ turn = "observing"
  /\ stepCount' = stepCount + 1
  /\ IF stepCount >= MaxSteps
     THEN turn' = "done" /\ UNCHANGED <<attempt, messages>>
     ELSE IF Skipped(observation)
     THEN Ask /\ UNCHANGED messages
     ELSE IF \E i \in DOMAIN observation :
               IsToolResult(observation[i]) /\ ~observation[i].known
     THEN turn' = "failed" /\ UNCHANGED <<attempt, messages>>
     ELSE /\ messages' = messages \o [i \in DOMAIN observation |->
                                        MessageOf(observation[i])]
          /\ Ask
  /\ observation' = <<>>
  /\ UNCHANGED <<probe, probes, issued, action, observed, policy>>
-----------------------------------------------------------------------------
(***************************************************************************)
(* _completion_with_retries.  A truncated reply is never retried (unless   *)
(* truncated messages are allowed it is an error), a reply without content *)
(* is a ValueError, which is of the category UNKNOWN.                      *)
(***************************************************************************)
CompletionFails ==
  /\ turn \in {"shortlisting", "completing"}
  /\ \E category \in Categories \cup {"truncated"} :
       IF Retried(category, attempt, NumRetries)
       THEN attempt' = attempt + 1 /\ UNCHANGED turn
       ELSE turn' = "failed" /\ UNCHANGED attempt
  /\ UNCHANGED <<probe, probes, stepCount, issued, messages, action,
                 observation, observed, policy>>

\* The shortlist: the completion follows with the tools it names.
Shortlist ==
  /\ turn = "shortlisting"
  /\ turn' = "completing" /\ attempt' = 0
  /\ UNCHANGED <<probe, probes, stepCount, issued, messages, action,
                 observation, observed, policy>>

\* tool_calls_to_action: one action or several, in the order of the calls.
ActionOf(shapes) ==
  [i \in DOMAIN shapes |-> [name |-> shapes[i].name, valid |-> shapes[i].valid,
                            known |-> shapes[i].known, call |-> issued + i]]

Say(message) == messages' = Append(messages, message)

\* finish_reason "tool_calls": the calls become the action, none ends it.
CallTools ==
  /\ turn = "completing"
  /\ \E shapes \in BoundedSeq(Shapes, MaxCalls) :
       /\ issued' = issued + Len(shapes)
       /\ Say([role |-> "assistant",
               calls |-> [i \in DOMAIN shapes |-> issued + i]])
       /\ action' = ActionOf(shapes)
       /\ turn' = IF shapes = <<>> THEN "done" ELSE "acting"
  /\ attempt' = 0
  /\ UNCHANGED <<probe, probes, stepCount, observation, observed, policy>>

\* Any other finish_reason: the reply is a `message` action.
Reply ==
  /\ turn = "completing"
  /\ Say([role |-> "assistant", calls |-> <<>>])
  /\ action' = <<MessageAction>>
  /\ turn' = "acting" /\ attempt' = 0
  /\ UNCHANGED <<probe, probes, stepCount, issued, observation, observed, policy>>

\* The tokens of the reply have no known price: _register_cost raises.
NoPrice ==
  /\ turn \in {"shortlisting", "completing"}
  /\ turn' = "failed"
  /\ UNCHANGED <<probe, probes, attempt, stepCount, issued, messages, action,
                 observation, observed, policy>>
-----------------------------------------------------------------------------
(***************************************************************************)
(* ActionsHandler._execute_single: what may come back for an action.       *)
(***************************************************************************)
Registered(act) == \/ act.name = "tool"
                   \/ act.name = "message" /\ policy.messaging
\* The arguments do not validate; the tool is known.
Rejected(act) == Registered(act) /\ ~act.valid
Refusal == "text"

AnswersTo(act) ==
  CASE ~Registered(act) ->
         IF policy.customUnknown THEN {"none", "text"} ELSE {Refusal}
    [] Rejected(act) ->
         (CASE policy.validation = "warn" -> {Refusal}
            [] policy.validation = "custom" -> {"none", "text"}
            [] policy.validation = "drop" -> {"none"})
    [] OTHER -> {"none", "empty", "text"} \cup
                (IF act.name = "message" THEN {"payload"} ELSE {})

\* The orders in which the calls that gave an observation are gone through:
\* one, that of the action.
InOrder(given) == {order \in [1..Cardinality(given) -> given] :
                     \A i, j \in DOMAIN order : i < j => order[i] < order[j]}
Observation(act, answer) == [name |-> act.name, known |-> act.known,
                             call |-> act.call, kind |-> answer]

\* session.step; the loop ends on None, or when the session is done.
StepSession ==
  /\ turn = "acting"
  /\ \E answers \in [DOMAIN action -> Kinds \cup {"none"}] :
       /\ \A i \in DOMAIN action : answers[i] \in AnswersTo(action[i])
       /\ \E order \in InOrder({i \in DOMAIN action : answers[i] # "none"}) :
            observation' = [i \in DOMAIN order |->
                              Observation(action[order[i]], answers[order[i]])]
  /\ turn' \in IF observation' = <<>> THEN {"done"} ELSE {"observing", "done"}
  /\ observed' = observed \cup
       {observation'[i].call : i \in
          {j \in DOMAIN observation' : IsToolResult(observation'[j])}}
  /\ action' = <<>>
  /\ UNCHANGED <<probe, probes, attempt, stepCount, issued, messages, policy>>
-----------------------------------------------------------------------------
CheckModel == Probe \/ Checked
Converse == \/ Observe \/ CompletionFails \/ Shortlist \/ CallTools \/ Reply
            \/ NoPrice \/ StepSession

ChatTypeOK ==
  /\ turn \in Turns
  /\ probe \in {"calling", "passed", "raised"}
  /\ probes \in 0..HealthRetries /\ attempt \in 0..NumRetries
  /\ stepCount \in 0..(MaxSteps + 1)
  /\ issued \in 0..(MaxSteps * MaxCalls)
  /\ \A i \in DOMAIN messages :
       /\ messages[i].role \in {"user", "assistant", "tool"}
       /\ \A j \in DOMAIN messages[i].calls : messages[i].calls[j] \in 1..issued
  /\ observed \subseteq 1..issued
  /\ policy \in Policies

\* What the model is sent is a conversation its interface accepts: each call
\* the environment gave an observation for is answered by one tool message,
\* which follows the reply that made it and precedes the next reply; and
\* there is no tool message but for such a call.  ("Preserve tool results
\* even when the result payload is empty.")
Answers(i, call) == messages[i].role = "tool" /\ messages[i].calls = <<call>>
Made(i, call) == /\ messages[i].role = "assistant"
                 /\ Contains(messages[i].calls, call)
CallsAnswered ==
  turn \in {"shortlisting", "completing"} =>
    /\ \A call \in observed :
         \E i \in DOMAIN messages :
           /\ Answers(i, call)
           /\ \A j \in DOMAIN messages : Answers(j, call) => j = i
           /\ \E k \in 1..(i - 1) :
                /\ Made(k, call)
                /\ \A j \in (k + 1)..(i - 1) : messages[j].role # "assistant"
    /\ \A i \in DOMAIN messages :
         messages[i].role = "tool" =>
           \E call \in observed : Answers(i, call)
=============================================================================
