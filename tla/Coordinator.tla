----------------------------- MODULE Coordinator -----------------------------
(***************************************************************************)
(* AgentCoordinator (adapters/agents/coordinator.py) as CodeAgentInstance  *)
(* and MCPAgentInstance use it: a monitor between the environment thread,  *)
(* which calls react() and close(), the internal agent thread, which runs  *)
(* the agent, and the tool threads, which call execute() and               *)
(* _submit_finish_action() on the agent's behalf.                          *)
(*                                                                         *)
(* A method runs under one condition variable, so it is atomic up to its   *)
(* next wait.  A waiting thread is in "asleep" until notify_all empties    *)
(* that set; it then looks at its wait condition again.  An observation is *)
(* represented by the actions it answers, which is what the rewiring and   *)
(* selection of observations keep track of.                                *)
(***************************************************************************)
EXTENDS Naturals, Sequences, FiniteSets, SequencesExt

CONSTANTS
  Tools,     \* the threads that may call a tool at the same time
  MaxTurns,  \* bound: observations the environment publishes
  MaxCalls   \* bound: calls of each tool thread

ASSUME CoordinatorAssumption ==
  /\ IsFiniteSet(Tools) /\ {"env", "agent"} \cap Tools = {}
  /\ MaxTurns \in Nat
  /\ MaxCalls \in Nat

VARIABLES
  turn,        \* _turn
  current,     \* _current_observation: [some, of]
  pending,     \* _pending_actions
  batch,       \* _last_actions: what react returned last
  closed,      \* _closed
  error,       \* _agent_error is set
  window,      \* _accumulate_window_seconds is set
  env,         \* where the environment thread is
  reaction,    \* what the last react() gave: "action", "none" or "error"
  internal,    \* where the internal agent thread is
  fate,        \* how the agent's own code ended: "none", "clean" or "crash"
  tool,        \* where each tool thread is
  calls,       \* how many calls each tool thread has made
  since,       \* my_turn of each tool thread's execute()
  asleep,      \* the threads that wait on the condition variable
  passed,      \* history: the actions react() returned
  alone        \* history: no other call overlapped this execute()

shared == <<turn, current, pending, batch, closed, error>>
monitorVars == <<turn, current, pending, batch, closed, error, window, env,
                 reaction, internal, fate, tool, calls, since, asleep, passed,
                 alone>>

Threads == Tools \cup {"env", "agent"}

Action == [by : Tools, n : 1..MaxCalls]
\* What execute(None) appends.
Nothing == [by |-> "agent", n |-> 0]

NoObservation == [some |-> FALSE, of |-> {}]
Observe(actions) == [some |-> TRUE, of |-> actions]

NextAction(t) == [by |-> t, n |-> calls[t] + 1]
LastAction(t) == [by |-> t, n |-> calls[t]]
-----------------------------------------------------------------------------
MonitorInit ==
  /\ turn = 0 /\ current = NoObservation
  /\ pending = <<>> /\ batch = {}
  /\ closed = FALSE /\ error = FALSE
  /\ window \in BOOLEAN
  /\ env = "idle" /\ reaction = "none"
  /\ internal = "starting" /\ fate = "none"
  /\ tool = [t \in Tools |-> "ready"]
  /\ calls = [t \in Tools |-> 0]
  /\ since = [t \in Tools |-> 0]
  /\ asleep = {"agent"}
  /\ passed = <<>>
  /\ alone = [t \in Tools |-> FALSE]

\* notify_all; the threads of "then" go on to wait.
Notify(then) == asleep' = then

\* Variant: the waiting threads are not notified.
ShutQuietly ==
  IF closed THEN UNCHANGED <<closed, turn, current, pending, asleep>>
  ELSE /\ closed' = TRUE
       /\ turn' = turn + 1
       /\ current' = NoObservation
       /\ pending' = <<>>
       /\ UNCHANGED asleep

\* The locked part of close().
Shut ==
  IF closed THEN UNCHANGED <<closed, turn, current, pending, asleep>>
  ELSE /\ closed' = TRUE
       /\ turn' = turn + 1
       /\ current' = NoObservation
       /\ pending' = <<>>
       /\ Notify({})

(***************************************************************************)
(* The environment thread: react() between two steps of the benchmark, and *)
(* close() when the session ends.                                          *)
(***************************************************************************)
\* Variant: _flush_actions does not look for None.
FlushAnything ==
  /\ pending' = <<>>
  /\ IF pending = <<>>
       THEN /\ reaction' = "none" /\ env' = "leaving" /\ batch' = {}
            /\ UNCHANGED passed
       ELSE /\ reaction' = "action" /\ env' = "idle" /\ batch' = ToSet(pending)
            /\ passed' = passed \o pending

\* Variant: the pending list is returned but not replaced by a new one.
FlushKept ==
  /\ UNCHANGED pending
  /\ IF pending = <<>> \/ Nothing \in ToSet(pending)
       THEN /\ reaction' = "none" /\ env' = "leaving" /\ batch' = {}
            /\ UNCHANGED passed
       ELSE /\ reaction' = "action" /\ env' = "idle" /\ batch' = ToSet(pending)
            /\ passed' = passed \o pending

\* _flush_actions and _remember_actions: the end of react().  A None among
\* the actions sets _closed, which execute(None) has set already.
Flush ==
  /\ pending' = <<>>
  /\ IF pending = <<>> \/ Nothing \in ToSet(pending)
       THEN /\ reaction' = "none" /\ env' = "leaving" /\ batch' = {}
            /\ UNCHANGED passed
       ELSE /\ reaction' = "action" /\ env' = "idle" /\ batch' = ToSet(pending)
            /\ passed' = passed \o pending

\* _accumulate_pending_actions: with a window, wait for more actions.
Collect ==
  IF window
    THEN /\ env' = "accumulating" /\ batch' = {}
         /\ UNCHANGED <<pending, reaction, passed>>
    ELSE Flush

\* react() refuses when the agent failed or the coordinator is closed.
ReactRefused ==
  /\ env = "idle"
  /\ error \/ closed
  /\ reaction' = "error"
  /\ env' = "leaving"
  /\ UNCHANGED <<shared, window, internal, fate, tool, calls, since, asleep,
                 passed, alone>>

\* Variant: react() flushes without waiting for an action.
ReactAtOnce ==
  /\ env = "idle" /\ turn < MaxTurns
  /\ ~error /\ ~closed
  /\ turn' = turn + 1
  /\ current' = Observe(batch)
  /\ Notify({})
  /\ Flush
  /\ UNCHANGED <<closed, error, window, internal, fate, tool, calls, since,
                 alone>>

\* react(): publish the observation that answers the last actions; then wait
\* for an action unless some are pending.
React ==
  /\ env = "idle" /\ turn < MaxTurns
  /\ ~error /\ ~closed
  /\ turn' = turn + 1
  /\ current' = Observe(batch)
  /\ \/ /\ pending = <<>>
        /\ env' = "waiting" /\ batch' = {}
        /\ Notify({"env"})
        /\ UNCHANGED <<pending, reaction, passed>>
     \/ /\ pending # <<>>
        /\ Notify(IF window THEN {"env"} ELSE {})
        /\ Collect
  /\ UNCHANGED <<closed, error, window, internal, fate, tool, calls, since,
                 alone>>

\* _wait_for_pending_actions returns.
ReactWakes ==
  /\ env = "waiting" /\ "env" \notin asleep
  /\ closed \/ pending # <<>>
  /\ CASE error -> /\ reaction' = "error" /\ env' = "leaving"
                   /\ UNCHANGED <<pending, batch, passed, asleep>>
       [] ~error /\ closed -> /\ reaction' = "none" /\ env' = "leaving"
                              /\ UNCHANGED <<pending, batch, passed, asleep>>
       [] OTHER -> /\ Collect
                   /\ asleep' = IF window THEN asleep \cup {"env"} ELSE asleep
  /\ UNCHANGED <<turn, current, closed, error, window, internal, fate, tool,
                 calls, since, alone>>

\* The window ends: it timed out, or the coordinator was closed meanwhile.
WindowEnds ==
  /\ env = "accumulating"
  /\ asleep' = asleep \ {"env"}
  /\ Flush
  /\ UNCHANGED <<turn, current, closed, error, window, internal, fate, tool,
                 calls, since, alone>>

\* close(), when run_session closes the agent instance.
Close ==
  /\ env \in {"idle", "leaving"}
  /\ Shut
  /\ env' = "joining"
  /\ UNCHANGED <<batch, error, window, reaction, internal, fate, tool, calls,
                 since, passed, alone>>

\* The end of close(): the agent thread is joined.
Join ==
  /\ env = "joining" /\ internal = "ended"
  /\ env' = "closed"
  /\ UNCHANGED <<shared, window, reaction, internal, fate, tool, calls, since,
                 asleep, passed, alone>>

Environment ==
  ReactRefused \/ React \/ ReactWakes \/ WindowEnds \/ Close \/ Join
-----------------------------------------------------------------------------
(***************************************************************************)
(* The internal agent thread: _run_internal_agent and run().               *)
(***************************************************************************)
\* get_observation() returns the first observation, or None when closed.
AgentStarts ==
  /\ internal = "starting" /\ "agent" \notin asleep
  /\ closed \/ current.some
  /\ internal' = "running"
  /\ UNCHANGED <<shared, window, env, reaction, fate, tool, calls, since,
                 asleep, passed, alone>>

\* run() fails before the agent's own code is entered.
AgentFailsEarly ==
  /\ internal = "starting"
  /\ internal' = "crashing" /\ fate' = "crash"
  /\ asleep' = asleep \ {"agent"}
  /\ UNCHANGED <<shared, window, env, reaction, tool, calls, since, passed,
                 alone>>

\* run_code_agent returns; it does not while a tool call is under way.
AgentReturns ==
  /\ internal = "running"
  /\ \A t \in Tools : tool[t] = "ready"
  /\ internal' = "finishing" /\ fate' = "clean"
  /\ UNCHANGED <<shared, window, env, reaction, tool, calls, since, asleep,
                 passed, alone>>

\* run_code_agent raises.
AgentCrashes ==
  /\ internal = "running"
  /\ internal' = "finishing" /\ fate' = "crash"
  /\ UNCHANGED <<shared, window, env, reaction, tool, calls, since, asleep,
                 passed, alone>>

\* The finally clause of run(): execute(None).
ExecuteNone ==
  /\ internal = "finishing"
  /\ IF closed THEN UNCHANGED <<pending, closed, asleep>>
     ELSE /\ pending' = Append(pending, Nothing)
          /\ Notify({})
          /\ closed' = TRUE
  /\ internal' = IF fate = "crash" THEN "crashing" ELSE "ending"
  /\ UNCHANGED <<turn, current, batch, error, window, env, reaction, fate,
                 tool, calls, since, passed, alone>>

\* The except clause of _run_internal_agent.
RecordCrash ==
  /\ internal = "crashing"
  /\ error' = TRUE /\ closed' = TRUE
  /\ turn' = turn + 1
  /\ current' = NoObservation
  /\ pending' = <<>>
  /\ Notify({})
  /\ internal' = "ending"
  /\ UNCHANGED <<batch, window, env, reaction, fate, tool, calls, since,
                 passed, alone>>

\* Its finally clause: close(), which does not join its own thread.
AgentEnds ==
  /\ internal = "ending"
  /\ Shut
  /\ internal' = "ended"
  /\ UNCHANGED <<batch, error, window, env, reaction, fate, tool, calls, since,
                 passed, alone>>
-----------------------------------------------------------------------------
(***************************************************************************)
(* The tool threads.                                                       *)
(***************************************************************************)
\* The tools exist once the agent's own code runs; its threads may outlive it.
MayCall(t) == /\ tool[t] = "ready" /\ calls[t] < MaxCalls
              /\ internal \in {"running", "finishing"}

\* This call is alone if no action is pending or with the environment; it
\* overlaps every call that is still blocked.
Overlap(t) ==
  alone' = [u \in Tools |->
    IF u = t THEN /\ pending = <<>> /\ env = "waiting"
                  /\ \A v \in Tools \ {t} : tool[v] = "ready"
    ELSE tool[u] = "ready" /\ alone[u]]

\* execute(action) and _submit_finish_action raise when closed.
CallRefused(t) ==
  /\ MayCall(t)
  /\ error \/ closed
  /\ calls' = [calls EXCEPT ![t] = @ + 1]
  /\ UNCHANGED <<shared, window, env, reaction, internal, fate, tool, since,
                 asleep, passed, alone>>

\* Variant: the turn to wait out is the one before.
ExecuteSeen(t) ==
  /\ MayCall(t)
  /\ ~error /\ ~closed
  /\ pending' = Append(pending, NextAction(t))
  /\ calls' = [calls EXCEPT ![t] = @ + 1]
  /\ since' = [since EXCEPT ![t] = turn - 1]
  /\ tool' = [tool EXCEPT ![t] = "blocked"]
  /\ Notify({})
  /\ Overlap(t)
  /\ UNCHANGED <<turn, current, batch, closed, error, window, env,
                 reaction, internal, fate, passed>>

\* execute(action): submit it and wait for the next turn.
Execute(t) ==
  /\ MayCall(t)
  /\ ~error /\ ~closed
  /\ pending' = Append(pending, NextAction(t))
  /\ calls' = [calls EXCEPT ![t] = @ + 1]
  /\ since' = [since EXCEPT ![t] = turn]
  /\ tool' = [tool EXCEPT ![t] = "blocked"]
  /\ Notify({t})
  /\ Overlap(t)
  /\ UNCHANGED <<turn, current, batch, closed, error, window, env,
                 reaction, internal, fate, passed>>

\* _submit_finish_action: submit the action and return.
SubmitFinish(t) ==
  /\ MayCall(t)
  /\ ~error /\ ~closed
  /\ pending' = Append(pending, NextAction(t))
  /\ calls' = [calls EXCEPT ![t] = @ + 1]
  /\ Notify({})
  /\ Overlap(t)
  /\ UNCHANGED <<turn, current, batch, closed, error, window, env,
                 reaction, internal, fate, tool, since, passed>>

\* The wait of execute() ends with the current observation, or without one
\* when the coordinator is closed.
Returns(t) ==
  /\ tool[t] = "blocked" /\ t \notin asleep
  /\ closed \/ turn # since[t]
  /\ tool' = [tool EXCEPT ![t] = "ready"]
  /\ UNCHANGED <<shared, window, env, reaction, internal, fate, calls, since,
                 asleep, passed, alone>>

\* A notified call finds its wait condition still true.
SleepsAgain(t) ==
  /\ tool[t] = "blocked" /\ t \notin asleep
  /\ ~closed /\ turn = since[t]
  /\ asleep' = asleep \cup {t}
  /\ UNCHANGED <<shared, window, env, reaction, internal, fate, tool, calls,
                 since, passed, alone>>

AllEnded ==
  /\ env = "closed" /\ internal = "ended"
  /\ \A t \in Tools : tool[t] = "ready"
  /\ UNCHANGED monitorVars

MonitorNext ==
  \/ Environment
  \/ AgentStarts \/ AgentFailsEarly \/ AgentReturns \/ AgentCrashes
  \/ ExecuteNone \/ RecordCrash \/ AgentEnds
  \/ \E t \in Tools : \/ CallRefused(t) \/ Execute(t) \/ SubmitFinish(t)
                      \/ Returns(t) \/ SleepsAgain(t)
  \/ AllEnded

MonitorSpec == MonitorInit /\ [][MonitorNext]_monitorVars

\* The benchmark answers, a window times out, a woken thread gets the lock,
\* and the agent's own code returns once no tool call holds it up.  Nothing
\* makes an agent call a tool or crash.
FairMonitor ==
  /\ MonitorSpec
  /\ WF_monitorVars(Environment)
  /\ WF_monitorVars(AgentStarts)
  /\ WF_monitorVars(AgentReturns)
  /\ WF_monitorVars(ExecuteNone \/ RecordCrash \/ AgentEnds)
  /\ \A t \in Tools : WF_monitorVars(Returns(t))
-----------------------------------------------------------------------------
MonitorTypeOK ==
  /\ turn \in 0..(MaxTurns + 2)
  /\ current \in [some : BOOLEAN, of : SUBSET Action]
  /\ pending \in Seq(Action \cup {Nothing})
  /\ batch \in SUBSET Action
  /\ closed \in BOOLEAN /\ error \in BOOLEAN /\ window \in BOOLEAN
  /\ env \in {"idle", "waiting", "accumulating", "leaving", "joining",
              "closed"}
  /\ reaction \in {"action", "none", "error"}
  /\ internal \in {"starting", "running", "finishing", "crashing", "ending",
                "ended"}
  /\ fate \in {"none", "clean", "crash"}
  /\ tool \in [Tools -> {"ready", "blocked"}]
  /\ calls \in [Tools -> 0..MaxCalls]
  /\ since \in [Tools -> 0..(MaxTurns + 2)]
  /\ asleep \in SUBSET Threads
  /\ passed \in Seq(Action)
  /\ alone \in [Tools -> BOOLEAN]

\* The actions that were submitted, those react() returned first.
Submitted == passed \o pending

\* Of a thread's actions the earlier call comes first, and none comes twice.
InOrder(actions) ==
  \A i, j \in DOMAIN actions :
    i < j /\ actions[i].by = actions[j].by => actions[i].n < actions[j].n

\* react() returns no action twice and those of a thread in the order of its
\* calls; and as long as the coordinator is open, every action a tool
\* submitted was returned by react() or is still pending.
EachActionOnce ==
  /\ InOrder(Submitted)
  /\ ~closed =>
       \A t \in Tools : \A n \in 1..calls[t] :
         \E i \in DOMAIN Submitted : Submitted[i] = [by |-> t, n |-> n]

\* react() returns None only when the agent's run is over.
NoneMeansOver == env = "leaving" /\ reaction = "none" => fate # "none"

\* Once the coordinator is closed, react() returns no further action.
ClosedForGood == [][closed => closed' /\ passed' = passed]_monitorVars

\* t's execute() returns an observation to its caller.
Answered(t) == tool[t] = "blocked" /\ tool'[t] = "ready" /\ ~closed

\* A tool call that no other call overlaps gets the observation of its own
\* action.
LoneCallAnswered ==
  [][\A t \in Tools :
       Answered(t) /\ alone[t] => LastAction(t) \in current.of]_monitorVars

\* The turns of the monitor (execute and react of coordinator.py): a tool call
\* that is alone returns with the observation of its own action, and after
\* close() the environment is handed no action any more.
TurnsKept == LoneCallAnswered /\ ClosedForGood

\* Everyone gets out: the environment's close() returns, the agent thread has
\* ended and no tool call stays blocked.
Shutdown ==
  <>[](/\ env = "closed" /\ internal = "ended"
       /\ \A t \in Tools : tool[t] = "ready")
=============================================================================
