------------------------------- MODULE Tracing -------------------------------
(***************************************************************************)
(* Which session an LLM call is recorded for.  core/context.py carries the *)
(* session and its root span in a ContextVar, in a process-wide fallback   *)
(* and in the runtime.json a service process is started with; the          *)
(* OtelTracingObserver (observers/handlers/otel.py) opens and ends the     *)
(* spans of a session, the exporters (utils/otel.py) append each ended     *)
(* span to its session's file, and the TraceLogger                         *)
(* (integrations/litellm/trace_logger.py) writes a row, a span and a       *)
(* timing for every LLM call, from a callback thread of LiteLLM's own.     *)
(*                                                                         *)
(* One process runs the sessions in parallel threads.  A callback reads    *)
(* the context once for the row, twice for the span and once for the       *)
(* timing; each read is a step, and sessions run in between.               *)
(***************************************************************************)
EXTENDS Naturals, Sequences, FiniteSets, SequencesExt

CONSTANTS
  Sessions, Runs, RunOf,  \* the sessions of the process, the run of each
  Runners,                \* the runners the two services may have
  None,                   \* no context, no session
  MaxSteps,               \* bound: actions of a session
  MaxCalls,               \* bounds: the LLM calls of each session
  MaxExporters            \* bound: on_run_start calls for one run id

ASSUME TracingAssumption ==
  /\ RunOf \in [Sessions -> Runs]
  /\ Runners \subseteq [{"benchmark", "agent"} ->
                          {"thread", "service", "child"}]
  /\ None \notin Sessions
  /\ MaxSteps \in Nat
  /\ MaxCalls \in [Sessions -> Nat]
  /\ MaxExporters \in Nat \ {0}

VARIABLES
  runner,    \* the runners of the sessions' services, in Runners
  exporters, \* [Runs -> 1..MaxExporters]: PerSessionFileExporters registered
  pc,        \* [Sessions -> the session thread's next call]
  context,   \* [Sessions -> Contexts]: _CONTEXT of the session's thread
  fallback,  \* _SUBPROCESS_CONTEXT of the process
  runtime,   \* [Sessions -> [Roles -> Contexts]]: runtime.json of a service
  stack,     \* [Sessions -> the open spans, SessionSpanManager._span_stack]
  steps,     \* [Sessions -> _session_step_counters]
  file,      \* [Runs -> [Sessions -> the spans in otel_spans.jsonl]]
  sorting,   \* [Sessions -> the spans _sort_session_spans has read]
  calls,     \* [Sessions -> the LLM calls made for it, see CallStates]
  tracer,    \* the session whose otel.log the process's TraceLogger writes
  timings,   \* [Sessions -> the calls in SessionLLMTimings]
  counted,   \* [Sessions -> the calls the session's results count]
  wrote      \* history: the sessions a ServiceRunner wrote fallback for

vars == <<runner, exporters, pc, context, fallback, runtime, stack, steps,
          file, sorting, calls, tracer, timings, counted, wrote>>

Roles == {"benchmark", "agent"}
\* A context of a session whose root span was published: the session's name
\* stands for both; get_otel_context() is set before anything reads it.
Contexts == Sessions \cup {None}
\* Spans: the root, the tool spans by number (0 is initial_observation).
Root == [kind |-> "root", n |-> 0]
Tool(n) == [kind |-> "tool", n |-> n]
OwnSpan == [kind : {"root", "tool"}, n : 0..MaxSteps]
\* An LLM span: the session of its attributes and the one whose root span is
\* its parent are read apart.
LlmSpan == [kind : {"llm"}, of : Sessions, n : Nat,
            parent : Contexts]

Stages == {"row", "otel", "span", "parent", "timing", "logged", "lost"}
CallStates == [by : Roles, inherits : BOOLEAN, stage : Stages,
               row : Contexts, seen : Contexts, moved : BOOLEAN]
PCs == {"idle", "benchmark", "agent", "start", "loop", "step", "record",
        "finalize", "sortRead", "sortWrite", "close", "closeAgent", "done",
        "left"}
-----------------------------------------------------------------------------
Init ==
  /\ runner \in Runners
  /\ exporters \in [Runs -> 1..MaxExporters]
  /\ pc = [s \in Sessions |-> "idle"]
  /\ context = [s \in Sessions |-> None]
  /\ fallback = None
  /\ runtime = [s \in Sessions |-> [r \in Roles |-> None]]
  /\ stack = [s \in Sessions |-> <<>>]
  /\ steps = [s \in Sessions |-> 0]
  /\ file = [r \in Runs |-> [s \in Sessions |-> <<>>]]
  /\ sorting = [s \in Sessions |-> <<>>]
  /\ calls = [s \in Sessions |-> <<>>]
  /\ tracer = None
  /\ timings = [s \in Sessions |-> {}]
  /\ counted = [s \in Sessions |-> {}]
  /\ wrote = {}

Goto(s, to) == pc' = [pc EXCEPT ![s] = to]
-----------------------------------------------------------------------------
(***************************************************************************)
(* Exporting.  Every exporter of the process's provider is handed every    *)
(* ended span; it keeps those whose exgentic.run.id is its own.  A child   *)
(* process registers one exporter, for the run of its runtime.json.        *)
(***************************************************************************)
Repeat(span, n) == [i \in 1..n |-> span]

RoutedTo(s) == {RunOf[s]}

Copies(r, s, inChild) ==
  IF r \notin RoutedTo(s) THEN 0 ELSE IF inChild THEN 1 ELSE exporters[r]

\* A span ends and is appended to the file of session s.
Exported(f, s, span, inChild) ==
  [r \in Runs |->
     [f[r] EXCEPT ![s] = @ \o Repeat(span, Copies(r, s, inChild))]]
-----------------------------------------------------------------------------
(***************************************************************************)
(* The session's thread, from run_session_config to the end of             *)
(* run_session.                                                            *)
(***************************************************************************)
\* session_scope sets the ContextVar; on_session_enter starts the root span
\* and publishes it before a service is spawned.
Enter(s) ==
  /\ pc[s] = "idle"
  /\ context' = [context EXCEPT ![s] = s]
  /\ stack' = [stack EXCEPT ![s] = <<Root>>]
  /\ Goto(s, "benchmark")
  /\ UNCHANGED <<runner, exporters, fallback, runtime, steps, file, sorting,
                 calls, tracer, timings, counted, wrote>>

\* try_get_context in the session's thread.
Current(s) == IF context[s] # None THEN context[s] ELSE fallback

\* The fallback is overwritten: a callback between its two reads of the
\* context for one span is told so by the history.
WriteFallback(s, to) ==
  /\ fallback' = to
  /\ wrote' = wrote \cup {s}
  /\ calls' = [t \in Sessions |-> [i \in DOMAIN calls[t] |->
       IF calls[t][i].stage = "parent" THEN [calls[t][i] EXCEPT !.moved = TRUE]
       ELSE calls[t][i]]]

KeepFallback == UNCHANGED <<fallback, wrote, calls>>

\* get_session and get_instance: the thread runner copies the context, the
\* service runner publishes it to the whole process, the others write it to
\* the runtime.json of the process they start.
Spawn(s, role) ==
  /\ pc[s] = role
  /\ IF runner[role] = "service" THEN WriteFallback(s, Current(s))
     ELSE KeepFallback
  /\ runtime' = [runtime EXCEPT ![s][role] =
                   IF runner[role] = "child" THEN Current(s) ELSE @]
  /\ Goto(s, IF role = "benchmark" THEN "agent" ELSE "start")
  /\ UNCHANGED <<runner, exporters, context, stack, steps, file, sorting,
                 tracer, timings, counted>>

\* The target's constructor raises after the fallback was written; nothing
\* takes it back, and no observer is told.
SpawnFails(s, role) ==
  /\ pc[s] = role
  /\ IF runner[role] = "service" THEN WriteFallback(s, Current(s))
     ELSE KeepFallback
  /\ context' = [context EXCEPT ![s] = None]
  /\ Goto(s, "left")
  /\ UNCHANGED <<runner, exporters, runtime, stack, steps, file, sorting,
                 tracer, timings, counted>>

\* on_session_start: the initial observation is a span of its own.
Start(s) ==
  /\ pc[s] = "start"
  /\ file' = Exported(file, s, Tool(0), FALSE)
  /\ steps' = [steps EXCEPT ![s] = 1]
  /\ Goto(s, "loop")
  /\ UNCHANGED <<runner, exporters, context, stack, sorting, tracer, timings,
                 counted>> /\ UNCHANGED runtime /\ KeepFallback

\* on_react_success: the action's span opens.
React(s) ==
  /\ pc[s] = "loop"
  /\ steps[s] <= MaxSteps
  /\ stack' = [stack EXCEPT ![s] = Append(@, Tool(steps[s]))]
  /\ Goto(s, "step")
  /\ UNCHANGED <<runner, exporters, context, runtime, steps, file, sorting,
                 tracer, timings, counted>> /\ KeepFallback

\* on_step_success: it ends with the observation.
Step(s) ==
  /\ pc[s] = "step"
  /\ file' = Exported(file, s, Last(stack[s]), FALSE)
  /\ stack' = [stack EXCEPT ![s] = Front(@)]
  /\ steps' = [steps EXCEPT ![s] = @ + 1]
  /\ Goto(s, "loop")
  /\ UNCHANGED <<runner, exporters, context, runtime, sorting, tracer,
                 timings, counted>> /\ KeepFallback

\* The loop ends, by termination, limit, cancellation or an error of either
\* side, and the observers are told; or an exception no clause names leaves.
Stop(s) ==
  /\ pc[s] \in {"start", "loop", "step"}
  /\ \/ Goto(s, "record") /\ UNCHANGED context
     \/ Goto(s, "left") /\ context' = [context EXCEPT ![s] = None]
  /\ UNCHANGED <<runner, exporters, runtime, stack, steps, file, sorting,
                 tracer, timings, counted>> /\ KeepFallback

\* The ResultsObserver comes first: the timings are popped and counted.
Record(s) ==
  /\ pc[s] = "record"
  /\ counted' = [counted EXCEPT ![s] = timings[s]]
  /\ timings' = [timings EXCEPT ![s] = {}]
  /\ Goto(s, "finalize")
  /\ UNCHANGED <<runner, exporters, context, runtime, stack, steps, file,
                 sorting, tracer>> /\ KeepFallback

\* Variant: a span left open by a failed step is not looked for.
FinalizeTopOnly(s) ==
  /\ pc[s] = "finalize"
  /\ file' = Exported(file, s, Last(stack[s]), FALSE)
  /\ stack' = [stack EXCEPT ![s] = Front(@)]
  /\ Goto(s, "sortRead")
  /\ UNCHANGED <<runner, exporters, context, runtime, steps, sorting, tracer,
                 timings, counted>> /\ KeepFallback

\* Then the OtelTracingObserver ends a trailing tool span and the root.
Finalize(s) ==
  /\ pc[s] = "finalize"
  /\ LET trailing == IF Len(stack[s]) > 1
                     THEN Exported(file, s, Last(stack[s]), FALSE) ELSE file
     IN file' = Exported(trailing, s, Head(stack[s]), FALSE)
  /\ stack' = [stack EXCEPT ![s] = <<>>]
  /\ Goto(s, "sortRead")
  /\ UNCHANGED <<runner, exporters, context, runtime, steps, sorting, tracer,
                 timings, counted>> /\ KeepFallback

\* The file is read, then truncated and written again: what others append
\* in between is lost.
SortRead(s) ==
  /\ pc[s] = "sortRead"
  /\ sorting' = [sorting EXCEPT ![s] = file[RunOf[s]][s]]
  /\ Goto(s, "sortWrite")
  /\ UNCHANGED <<runner, exporters, context, runtime, stack, steps, file,
                 tracer, timings, counted>> /\ KeepFallback

SortWrite(s) ==
  /\ pc[s] = "sortWrite"
  /\ file' = [file EXCEPT ![RunOf[s]][s] = sorting[s]]
  /\ sorting' = [sorting EXCEPT ![s] = <<>>]
  /\ Goto(s, "close")
  /\ UNCHANGED <<runner, exporters, context, runtime, stack, steps, tracer,
                 timings, counted>> /\ KeepFallback

Leave(s) == context' = [context EXCEPT ![s] = None] /\ Goto(s, "done")

\* _close_session_agent closes both; a BenchmarkError closes the agent only,
\* a HealthCheckError neither.  Closing a service clears the fallback,
\* whoever wrote it.
Close(s) ==
  /\ pc[s] = "close"
  /\ \/ /\ Goto(s, "closeAgent") /\ UNCHANGED context
        /\ IF runner["benchmark"] = "service" THEN WriteFallback(s, None)
           ELSE KeepFallback
     \/ Goto(s, "closeAgent") /\ UNCHANGED context /\ KeepFallback
     \/ Leave(s) /\ KeepFallback
  /\ UNCHANGED <<runner, exporters, runtime, stack, steps, file, sorting,
                 tracer, timings, counted>>

CloseAgent(s) ==
  /\ pc[s] = "closeAgent"
  /\ Leave(s)
  /\ IF runner["agent"] = "service" THEN WriteFallback(s, None)
     ELSE KeepFallback
  /\ UNCHANGED <<runner, exporters, runtime, stack, steps, file, sorting,
                 tracer, timings, counted>>
-----------------------------------------------------------------------------
(***************************************************************************)
(* LLM calls.  LiteLLM runs the callback in a thread that may or may not   *)
(* carry the ContextVar of the caller.                                     *)
(***************************************************************************)
\* A service makes a call while the session's thread waits for it: the agent
\* in react, the benchmark in start and step.
CallLLM(s, role) ==
  /\ Len(calls[s]) < MaxCalls[s]
  /\ pc[s] \in (IF role = "agent" THEN {"loop"} ELSE {"start", "step"})
  /\ \E inherits \in BOOLEAN :
       /\ inherits => runner[role] = "thread"
       /\ calls' = [calls EXCEPT ![s] = Append(@,
            [by |-> role, inherits |-> inherits, stage |-> "row",
             row |-> None, seen |-> None, moved |-> FALSE])]
  /\ UNCHANGED <<runner, exporters, pc, context, fallback, runtime, stack,
                 steps, file, sorting, tracer, timings, counted, wrote>>

InChild(c) == runner[c.by] = "child"
\* Whether the callback finds a context of the call's own: in a child the
\* ContextVar, the fallback and try_init_context all give the runtime.json;
\* uvicorn's threads never carry the session's ContextVar.
Carries(c) == InChild(c) \/ (runner[c.by] = "thread" /\ c.inherits)

\* Variant: the process-wide fallback has precedence over the ContextVar.
ContextOfFallbackFirst(s, c) ==
  IF InChild(c) THEN runtime[s][c.by]
  ELSE IF fallback # None THEN fallback
  ELSE IF Carries(c) THEN s ELSE None

\* TraceLogger.get_context in the callback of call c of session s.  A Context
\* among the call's arguments would come first, but nothing in src/ passes
\* one (browsecomp_eval.py puts it into the metadata, which are not looked
\* at); EXGENTIC_LLM_LOG_FILE, which would replace the path of the row, is set
\* for the process of the LiteLLM proxy only, whose calls are left out.
ContextOf(s, c) ==
  IF InChild(c) THEN runtime[s][c.by]
  ELSE IF Carries(c) THEN s ELSE fallback

At(s, i, stage) == i \in DOMAIN calls[s] /\ calls[s][i].stage = stage
Update(s, i, c) == calls' = [calls EXCEPT ![s][i] = c]

\* _write_row: the path of trace.jsonl, the working directory's without a
\* context.
WriteRow(s, i) ==
  /\ At(s, i, "row")
  /\ Update(s, i, [calls[s][i] EXCEPT !.stage = "otel",
                                      !.row = ContextOf(s, calls[s][i])])
  /\ UNCHANGED <<file, tracer, timings>>

\* _write_otel: the tracer and the session log it writes to are set once in
\* a process, from the first call that has a context; a child has its own.
InitOtel(s, i) ==
  /\ At(s, i, "otel")
  /\ LET c == calls[s][i]
         now == ContextOf(s, c)
         ready == IF InChild(c) THEN now # None
                  ELSE tracer # None \/ now # None
     IN /\ Update(s, i, [c EXCEPT !.stage = IF ready THEN "span"
                                            ELSE "timing"])
        /\ tracer' = IF ~InChild(c) /\ tracer = None THEN now ELSE tracer
  /\ UNCHANGED <<file, timings>>

\* _emit_llm_span reads the context for the session of the span.
ReadSession(s, i) ==
  /\ At(s, i, "span")
  /\ Update(s, i, [calls[s][i] EXCEPT !.stage = "parent",
                                      !.seen = ContextOf(s, calls[s][i])])
  /\ UNCHANGED <<file, tracer, timings>>

\* _get_parent_context reads it again; without one either read raises, and
\* the span is dropped.
EmitSpan(s, i) ==
  /\ At(s, i, "parent")
  /\ LET c == calls[s][i]
         parent == ContextOf(s, c)
     IN /\ Update(s, i, [c EXCEPT !.stage = "timing"])
        /\ file' = IF None \in {parent, c.seen} THEN file
                   ELSE Exported(file, c.seen,
                          [kind |-> "llm", of |-> s, n |-> i,
                           parent |-> parent], InChild(c))
  /\ UNCHANGED <<tracer, timings>>

\* _record_session_timing: into the dictionary of the process it runs in;
\* the results are written by the parent process from its own.
RecordTiming(s, i) ==
  /\ At(s, i, "timing")
  /\ LET c == calls[s][i]
         now == ContextOf(s, c)
     IN /\ Update(s, i, [c EXCEPT !.stage = "logged"])
        /\ timings' = IF InChild(c) \/ now = None THEN timings
                      ELSE [timings EXCEPT ![now] = @ \cup {<<s, i>>}]
  /\ UNCHANGED <<file, tracer>>

\* A callback that is still running when its process is stopped dies with it.
LoseCallback(s, i) ==
  /\ i \in DOMAIN calls[s]
  /\ calls[s][i].stage \notin {"logged", "lost"}
  /\ InChild(calls[s][i])
  /\ pc[s] \in {"done", "left"}
  /\ Update(s, i, [calls[s][i] EXCEPT !.stage = "lost"])
  /\ UNCHANGED <<file, tracer, timings>>

Callback(s, i) ==
  /\ \/ WriteRow(s, i) \/ InitOtel(s, i) \/ ReadSession(s, i)
     \/ EmitSpan(s, i) \/ RecordTiming(s, i) \/ LoseCallback(s, i)
  /\ UNCHANGED <<runner, exporters, pc, context, fallback, runtime, stack,
                 steps, sorting, counted, wrote>>

SessionStep(s) ==
  \/ Enter(s) \/ Start(s) \/ React(s) \/ Step(s) \/ Stop(s)
  \/ Record(s) \/ Finalize(s) \/ SortRead(s) \/ SortWrite(s)
  \/ Close(s) \/ CloseAgent(s)
  \/ \E role \in Roles : Spawn(s, role) \/ SpawnFails(s, role)
                         \/ CallLLM(s, role)

Next == \E s \in Sessions :
          SessionStep(s) \/ \E i \in 1..MaxCalls[s] : Callback(s, i)

Spec == Init /\ [][Next]_vars
-----------------------------------------------------------------------------
\* Type invariant.
TypeOK ==
  /\ runner \in Runners
  /\ exporters \in [Runs -> 1..MaxExporters]
  /\ pc \in [Sessions -> PCs]
  /\ context \in [Sessions -> Contexts]
  /\ fallback \in Contexts
  /\ runtime \in [Sessions -> [Roles -> Contexts]]
  /\ stack \in [Sessions -> Seq(OwnSpan)]
  /\ \A s \in Sessions : Len(stack[s]) <= 2
  /\ steps \in [Sessions -> 0..(MaxSteps + 1)]
  /\ file \in [Runs -> [Sessions -> Seq(OwnSpan \cup LlmSpan)]]
  /\ sorting \in [Sessions -> Seq(OwnSpan \cup LlmSpan)]
  /\ calls \in [Sessions -> Seq(CallStates)]
  /\ tracer \in Contexts
  /\ timings \in [Sessions -> SUBSET (Sessions \X Nat)]
  /\ counted \in [Sessions -> SUBSET (Sessions \X Nat)]
  /\ wrote \subseteq Sessions

\* How often a span is in a file.
Times(span, f) == Cardinality({k \in DOMAIN f : f[k] = span})

(***************************************************************************)
(* When the tracing observer has been told the end of a session, the       *)
(* session's file holds its root span, the initial observation and one     *)
(* span for every action, whether its step succeeded or not, each exactly  *)
(* once per exporter of its run, whatever callbacks write meanwhile and    *)
(* whatever they lose in the sort; the files of the other runs hold none   *)
(* (PerSessionFileExporter, _finalize_session, _sort_session_spans).       *)
(***************************************************************************)
TracesComplete ==
  \A s \in Sessions, r \in Runs :
    LET own == {Root} \cup {Tool(n) : n \in 0..MaxSteps}
        present(span) == Times(span, file[r][s])
        begun == steps[s] # 0
    IN /\ r # RunOf[s] => file[r][s] = <<>>
       /\ r = RunOf[s] /\ pc[s] \in {"close", "closeAgent", "done"} =>
            /\ present(Root) = exporters[r]
            /\ begun => present(Tool(0)) = exporters[r]
            /\ \A span \in own : present(span) \in {0, exporters[r]}
            /\ \A n \in 1..(steps[s] - 1) : present(Tool(n)) = exporters[r]

\* The sessions call i of session s left a trace in.
TracedIn(s, i) ==
  {t \in Sessions : \/ \E r \in Runs : \E k \in DOMAIN file[r][t] :
                         LET x == file[r][t][k]
                         IN x.kind = "llm" /\ x.of = s /\ x.n = i
                    \/ <<s, i>> \in timings[t] \cup counted[t]}

(***************************************************************************)
(* The row, the span and the timing of an LLM call are those of the        *)
(* session that made it, unless the callback runs in the parent process in *)
(* a thread without the caller's ContextVar: then they are nobody's, or    *)
(* those of a session whose ServiceRunner wrote the process-wide fallback  *)
(* (context.py try_get_context, service.py start and close).               *)
(***************************************************************************)
OwnSession ==
  \A s \in Sessions : \A i \in DOMAIN calls[s] :
    LET c == calls[s][i]
        written == c.stage # "row" /\ ~(c.stage = "lost" /\ c.row = None)
        places == TracedIn(s, i) \cup (IF written THEN {c.row} ELSE {})
    IN \A t \in places \ {s} : ~Carries(c) /\ t \in wrote \cup {None}

(***************************************************************************)
(* Every LLM span in a session's file hangs under that session's root      *)
(* span, unless a ServiceRunner started or closed between the two times    *)
(* the callback reads the context for it (_emit_llm_span,                  *)
(* _get_parent_context).                                                   *)
(***************************************************************************)
OneTrace ==
  \A s \in Sessions, r \in Runs : \A k \in DOMAIN file[r][s] :
    LET x == file[r][s][k]
    IN x.kind = "llm" /\ x.parent # s => calls[x.of][x.n].moved

\* otel_spans.jsonl of a recorded session holds its own spans, every one of
\* them, and no other run's.
TracesSafe == TypeOK /\ TracesComplete

\* What is traced of an LLM call: to the session that made it, in its trace.
CallsTraced == OwnSession /\ OneTrace
=============================================================================
