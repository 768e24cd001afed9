--------------------------- MODULE AgentServices ---------------------------
(***************************************************************************)
(* The processes, threads and sockets an agent starts to do its work, and  *)
(* who ends them.  The agent runs in the thread of its coordinator; the    *)
(* session's thread reacts and, at any time, closes it.                    *)
(*   cli    agents/cli/: an MCP server for the tools of the environment, a *)
(*          LiteLLM proxy process, and the CLI process that uses both;     *)
(*   openai agents/openai/: the MCP server and a coroutine on the loop all *)
(*          sessions of the process share;                                 *)
(*   smol   agents/smolagents/: no more than the thread.                   *)
(*   litellm agents/litellm_tool_calling/: nothing.                        *)
(*                                                                         *)
(* A service object is a field both threads look at, use and clear without *)
(* a lock.  The turns of the coordinator are Coordinator.tla's; here it is *)
(* open or closed.                                                         *)
(***************************************************************************)
EXTENDS Naturals

VARIABLES
  kind,      \* the kind of agent
  cli,       \* of a CLI agent: which CLI
  backend,   \* of a CLI agent: it runs as a process or in a container
  at,        \* [{"main", "agent"} -> where the thread is]
  closed,    \* the coordinator's _closed
  failed,    \* the agent's thread has an exception
  ref,       \* [{"cli", "proxy"} -> the field _cli, _proxy is set]
  proc,      \* [{"cli", "proxy"} -> its process]
  early,     \* the proxy was closed before its process was started
  server,    \* the field _mcp_server is set
  sock,      \* the listening socket of the MCP server
  thread,    \* its thread
  told,      \* its uvicorn server's should_exit, see Tell
  call,      \* a tool call waits for the environment, in the server's thread
  container, \* the container outlived the docker client that ran it
  coroutine  \* run_mcp_agent_async

services == <<kind, cli, backend, at, closed, failed, ref, proc, early, server, sock, thread,
              told, call, container, coroutine>>
agent == <<kind, cli, backend>>
mcp == <<server, sock, thread, told>>
children == <<ref, proc, early, container>>

Threads == {"main", "agent"}
Clis == {"claude", "codex", "gemini"}
Closing == {"lookCli", "useCli", "clearCli", "lookProxy", "useProxy",
            "clearProxy", "shut", "join", "stop", "stopping", "done", "raised"}
Running == {"wait", "construct", "bind", "started", "ready", "launch", "popen",
            "proxyUp", "build", "spawn", "communicate", "endLook", "endUse",
            "endClear", "endProxy", "clear", "leave", "leaving", "unwind",
            "unwinding", "await", "smol", "finish"}
Go(t, to) == at' = [at EXCEPT ![t] = to]

ServicesInit ==
  /\ kind \in {"cli", "openai", "smol", "litellm"}
  /\ IF kind = "cli" THEN cli \in Clis /\ backend \in {"process", "docker"}
     ELSE cli = "none" /\ backend = "none"
  /\ at = [t \in Threads |-> IF t = "main" THEN "loop" ELSE "wait"]
  /\ closed = FALSE /\ failed = FALSE
  /\ ref = [r \in {"cli", "proxy"} |-> FALSE]
  /\ proc = [r \in {"cli", "proxy"} |-> "none"]
  /\ early = FALSE /\ server = FALSE /\ sock = "none" /\ thread = "none"
  /\ told = "no" /\ call = FALSE /\ container = FALSE /\ coroutine = "none"
-----------------------------------------------------------------------------
(***************************************************************************)
(* Where a CLI is told to find the MCP server and the proxy, which are at  *)
(* the host's loopback address.  From inside a container the host is at    *)
(* the gateway's.                                                          *)
(***************************************************************************)
Loopback == "127.0.0.1"
Gateway == "host.docker.internal"

\* The addresses in the command, for a ContainerRunner.
Rewritten(host, b) == IF b = "docker" /\ host = Loopback THEN Gateway ELSE host
\* _container_env_from: the variables passed on to the container.
Forwarded(host, b) == IF b = "docker" /\ host = Loopback THEN Gateway ELSE host
\* _patch_mcp_json: the file Claude's command names.
Patched(host, b) == IF b = "docker" /\ host = Loopback THEN Gateway ELSE host

ClaudeServer(b) == Patched(Rewritten(Loopback, b), b)
ClaudeProvider(b) == Forwarded(Loopback, b)
CodexServer(b) == Rewritten(Loopback, b)
CodexProvider(b) == Rewritten(Loopback, b)
GeminiServer(b) == Rewritten(Loopback, b)
GeminiProvider(b) == Forwarded(Loopback, b)

Told(c, b) == CASE c = "claude" -> {ClaudeServer(b), ClaudeProvider(b)}
                [] c = "codex" -> {CodexServer(b), CodexProvider(b)}
                [] c = "gemini" -> {GeminiServer(b), GeminiProvider(b)}
\* The host as the CLI sees it: a container is started with --add-host.
HostSeen(b) == IF b = "docker" THEN Gateway ELSE Loopback
Reaches(c, b) == Told(c, b) = {HostSeen(b)}
-----------------------------------------------------------------------------
(***************************************************************************)
(* The MCP server.                                                         *)
(***************************************************************************)
\* _thread_entry: the server is built, which may fail, and runs on the bound
\* socket; when stop() has closed that one, uvicorn opens its own.
ServerThread ==
  /\ thread = "building"
  /\ thread' \in {"dead", "serving"}
  /\ UNCHANGED <<agent, at, closed, failed, children, server, sock, told, call, coroutine>>

\* uvicorn leaves when it is told to, and its loop is not in a tool call.
ServerExits ==
  /\ thread = "serving" /\ told = "yes" /\ ~call
  /\ thread' = "dead"
  /\ UNCHANGED <<agent, at, closed, failed, children, server, sock, told,
                 call, coroutine>>

\* A tool is a function that calls execute() on the server's own loop: the
\* server answers nobody else until the environment has answered it.
CallTool ==
  /\ thread = "serving" /\ ~call /\ ~closed
  /\ \/ proc["cli"] = "running" /\ Reaches(cli, backend)
     \/ container \/ coroutine = "running"
  /\ call' = TRUE
  /\ UNCHANGED <<agent, at, closed, failed, children, mcp, coroutine>>

\* Variant: only the environment ends the wait.
AnswerToolOpen ==
  /\ call /\ at["main"] = "loop"
  /\ call' = FALSE
  /\ UNCHANGED <<agent, at, closed, failed, children, mcp, coroutine>>

AnswerTool ==
  /\ call /\ (at["main"] = "loop" \/ closed)
  /\ call' = FALSE
  /\ UNCHANGED <<agent, at, closed, failed, children, mcp, coroutine>>

\* should_exit is a field of an object the server's thread makes: a stop()
\* that comes before it has made it is missed.
Tell == told' = CASE thread = "serving" -> "yes"
                  [] thread = "building" -> "missed"
                  [] OTHER -> told
-----------------------------------------------------------------------------
(***************************************************************************)
(* The agent's thread: MCPAgentInstance.run and run_code_agent.            *)
(***************************************************************************)
\* get_observation returns None once the coordinator is closed, and the
\* agent is then started all the same.
GetObservation ==
  /\ at["agent"] = "wait"
  /\ Go("agent", IF kind = "smol" THEN "smol" ELSE "construct")
  /\ UNCHANGED <<agent, closed, failed, children, mcp, call, coroutine>>

Construct ==
  /\ at["agent"] = "construct"
  /\ server' = TRUE
  /\ Go("agent", "bind")
  /\ UNCHANGED <<agent, closed, failed, children, sock, thread, told, call, coroutine>>

Fail(to) == failed' = TRUE /\ Go("agent", to)

\* start: the socket is bound and the thread started; or bind fails.
Bind ==
  /\ at["agent"] = "bind"
  /\ \/ /\ sock' = "bound" /\ thread' = "building"
        /\ Go("agent", "started") /\ UNCHANGED failed
     \/ Fail("finish") /\ UNCHANGED <<sock, thread>>
  /\ UNCHANGED <<agent, closed, children, server, told, call, coroutine>>

\* The thread signals within a minute, or start() raises: __exit__ is not
\* called, and thread and socket are left to close().
WaitStarted ==
  /\ at["agent"] = "started"
  /\ \/ thread = "serving" /\ Go("agent", "ready") /\ UNCHANGED failed
     \/ thread # "serving" /\ Fail("finish")
  /\ UNCHANGED <<agent, closed, children, mcp, call, coroutine>>

\* The server answers a ping, or start() stops it and raises.
WaitReady ==
  /\ at["agent"] = "ready"
  /\ \/ Go("agent", IF kind = "cli" THEN "launch" ELSE "await") /\ UNCHANGED failed
     \/ Fail("unwind")
  /\ coroutine' = IF kind = "openai" /\ at'["agent"] = "await" THEN "running"
                  ELSE coroutine
  /\ UNCHANGED <<agent, closed, children, mcp, call>>

\* stop() in __exit__, or in start(): told, and the join of ten seconds.
Leave ==
  /\ at["agent"] \in {"leave", "unwind"}
  /\ Tell
  /\ Go("agent", IF at["agent"] = "leave" THEN "leaving" ELSE "unwinding")
  /\ UNCHANGED <<agent, closed, failed, children, server, sock, thread,
                 call, coroutine>>

\* An exit without an exception raises when the join times out, and leaves
\* the socket to close().
Left ==
  /\ at["agent"] \in {"leaving", "unwinding"}
  /\ IF thread # "dead" /\ ~failed
     THEN Fail("finish") /\ UNCHANGED sock
     ELSE sock' = "closed" /\ Go("agent", "finish") /\ UNCHANGED failed
  /\ UNCHANGED <<agent, closed, children, server, thread, told, call, coroutine>>

\* execute(None) and, after an exception, the coordinator's crash handling:
\* it is closed either way, and close() follows in this thread.
Finish ==
  /\ at["agent"] = "finish"
  /\ closed' = TRUE
  /\ Go("agent", IF kind = "cli" THEN "lookCli" ELSE "shut")
  /\ UNCHANGED <<agent, failed, children, mcp, call, coroutine>>
-----------------------------------------------------------------------------
(***************************************************************************)
(* run_mcp_agent of a CLI agent: proxy, CLI and their end.                 *)
(***************************************************************************)
SetProxy ==
  /\ at["agent"] = "launch"
  /\ ref' = [ref EXCEPT !["proxy"] = TRUE]
  /\ Go("agent", "popen")
  /\ UNCHANGED <<agent, closed, failed, proc, early, container, mcp, call, coroutine>>

\* LitellmProxy.start up to the process; what it writes first may fail.
StartProxy ==
  /\ at["agent"] = "popen"
  /\ \/ /\ proc' = [proc EXCEPT !["proxy"] = "running"]
        /\ Go("agent", "proxyUp") /\ UNCHANGED failed
     \/ Fail("leave") /\ UNCHANGED proc
  /\ UNCHANGED <<agent, closed, ref, early, container, mcp, call, coroutine>>

\* The port answers, with a status or a demand to log in.
ProxyReady == proc["proxy"] = "running"

\* _wait_for_startup: it is ready, or it is dead, or its time is over; an
\* exception is not caught here, and the proxy is left to close().
AwaitProxy ==
  /\ at["agent"] = "proxyUp"
  /\ \/ ProxyReady /\ Go("agent", "build") /\ UNCHANGED failed
     \/ Fail("leave")
  /\ UNCHANGED <<agent, closed, children, mcp, call, coroutine>>

BuildCli ==
  /\ at["agent"] = "build"
  /\ \/ /\ ref' = [ref EXCEPT !["cli"] = TRUE]
        /\ Go("agent", "spawn") /\ UNCHANGED failed
     \/ Fail("endLook") /\ UNCHANGED ref
  /\ UNCHANGED <<agent, closed, proc, early, container, mcp, call, coroutine>>

\* The environment and the command of the CLI (of docker, if there is one),
\* and its process.
RunCli ==
  /\ at["agent"] = "spawn"
  /\ \/ /\ proc' = [proc EXCEPT !["cli"] = "running"]
        /\ Go("agent", "communicate") /\ UNCHANGED failed
     \/ Fail("endLook") /\ UNCHANGED proc
  /\ UNCHANGED <<agent, closed, ref, early, container, mcp, call, coroutine>>

\* communicate() has no timeout; a status other than zero is an exception.
Communicate ==
  /\ at["agent"] = "communicate" /\ proc["cli"] = "dead"
  /\ Go("agent", "endLook")
  /\ failed' \in BOOLEAN
  /\ UNCHANGED <<agent, closed, children, mcp, call, coroutine>>

\* The finally clause holds the proxy in a local variable.
EndProxy ==
  /\ at["agent"] = "endProxy"
  /\ proc' = [proc EXCEPT !["proxy"] = "dead"]
  /\ Go("agent", "clear")
  /\ UNCHANGED <<agent, closed, failed, ref, early, container, mcp, call, coroutine>>

EndClear ==
  /\ at["agent"] = "clear"
  /\ ref' = [ref EXCEPT !["proxy"] = FALSE]
  /\ Go("agent", "leave")
  /\ UNCHANGED <<agent, closed, failed, proc, early, container, mcp, call, coroutine>>

\* A process ends by itself; the CLI because its turns are bounded.
CliExits ==
  /\ proc["cli"] = "running"
  /\ proc' = [proc EXCEPT !["cli"] = "dead"]
  /\ UNCHANGED <<agent, at, closed, failed, ref, early, container, mcp, call, coroutine>>

ProxyDies ==
  /\ proc["proxy"] = "running"
  /\ proc' = [proc EXCEPT !["proxy"] = "dead"]
  /\ UNCHANGED <<agent, at, closed, failed, ref, early, container, mcp, call, coroutine>>
-----------------------------------------------------------------------------
(***************************************************************************)
(* The other agents.                                                       *)
(***************************************************************************)
\* run_sync waits ten minutes; the coroutine is not cancelled.
AwaitCoroutine ==
  /\ at["agent"] = "await"
  /\ \/ coroutine = "over" /\ failed' \in BOOLEAN
     \/ coroutine = "running" /\ failed' = TRUE
  /\ Go("agent", "leave")
  /\ UNCHANGED <<agent, closed, children, mcp, call, coroutine>>

\* Runner.run: max_turns bounds it.
CoroutineEnds ==
  /\ coroutine = "running"
  /\ coroutine' = "over"
  /\ UNCHANGED <<agent, at, closed, failed, children, mcp, call>>

\* agent.run of smolagents: it ends after max_steps, when it is interrupted,
\* or with the AgentError a tool raises after close.
RunSmolagent ==
  /\ at["agent"] = "smol"
  /\ failed' \in BOOLEAN
  /\ Go("agent", "finish")
  /\ UNCHANGED <<agent, closed, children, mcp, call, coroutine>>
-----------------------------------------------------------------------------
(***************************************************************************)
(* close(), by either thread, and the same tests in the finally clause.    *)
(***************************************************************************)
StartClose ==
  /\ at["main"] = "loop"
  /\ Go("main", IF kind = "cli" THEN "lookCli" ELSE "shut")
  /\ UNCHANGED <<agent, closed, failed, children, mcp, call, coroutine>>

\* "if self._cli is not None", "if self._proxy is not None"
Look(t) ==
  /\ at[t] \in {"lookCli", "lookProxy", "endLook"}
  /\ Go(t, CASE at[t] = "lookCli" ->
                  IF ref["cli"] THEN "useCli" ELSE "lookProxy"
             [] at[t] = "lookProxy" ->
                  IF ref["proxy"] THEN "useProxy" ELSE "shut"
             [] at[t] = "endLook" ->
                  IF ref["cli"] THEN "endUse" ELSE "endProxy")
  /\ UNCHANGED <<agent, closed, failed, children, mcp, call, coroutine>>

\* The process is ended, when there is one yet: terminated, and killed when
\* it does not end.  Killing the docker client leaves the container.
Terminate(r) ==
  /\ proc' = [proc EXCEPT ![r] = IF @ = "running" THEN "dead" ELSE @]
  /\ \/ UNCHANGED container
     \/ /\ r = "cli" /\ proc[r] = "running" /\ backend = "docker"
        /\ container' = TRUE

ContainerEnds ==
  /\ container
  /\ container' = FALSE
  /\ UNCHANGED <<agent, at, closed, failed, ref, proc, early, mcp, call, coroutine>>

\* The field may have become None: AttributeError.
UseCli(t) ==
  /\ at[t] \in {"useCli", "endUse"}
  /\ IF ref["cli"]
     THEN /\ Terminate("cli") /\ UNCHANGED failed
          /\ Go(t, IF at[t] = "useCli" THEN "clearCli" ELSE "endClear")
     ELSE /\ UNCHANGED <<proc, container>>
          /\ IF at[t] = "endUse" THEN Fail("leave")
             ELSE UNCHANGED failed /\ Go(t, "raised")
  /\ UNCHANGED <<agent, closed, ref, early, mcp, call, coroutine>>

ClearCli(t) ==
  /\ at[t] \in {"clearCli", "endClear"}
  /\ ref' = [ref EXCEPT !["cli"] = FALSE]
  /\ Go(t, IF at[t] = "clearCli" THEN "lookProxy" ELSE "endProxy")
  /\ UNCHANGED <<agent, closed, failed, proc, early, container, mcp, call, coroutine>>

UseProxy(t) ==
  /\ at[t] = "useProxy"
  /\ IF ref["proxy"]
     THEN /\ Terminate("proxy") /\ Go(t, "clearProxy")
          /\ early' = (early \/ proc["proxy"] = "none")
     ELSE UNCHANGED <<proc, early, container>> /\ Go(t, "raised")
  /\ UNCHANGED <<agent, closed, failed, ref, mcp, call, coroutine>>

ClearProxy(t) ==
  /\ at[t] = "clearProxy"
  /\ ref' = [ref EXCEPT !["proxy"] = FALSE]
  /\ Go(t, "shut")
  /\ UNCHANGED <<agent, closed, failed, proc, early, container, mcp, call, coroutine>>

\* Variant: the agent's thread is not joined.
ShutNoJoin(t) ==
  /\ at[t] = "shut"
  /\ closed' = TRUE
  /\ Go(t, "stop")
  /\ UNCHANGED <<agent, failed, children, mcp, call, coroutine>>

\* AgentCoordinator.close, which joins the agent's thread from another one.
Shut(t) ==
  /\ at[t] = "shut"
  /\ closed' = TRUE
  /\ Go(t, IF t = "main" THEN "join" ELSE "stop")
  /\ UNCHANGED <<agent, failed, children, mcp, call, coroutine>>

\* A thread that ends with an exception of close() is joined as well.
JoinAgent ==
  /\ at["main"] = "join" /\ at["agent"] \in {"done", "raised"}
  /\ Go("main", "stop")
  /\ UNCHANGED <<agent, closed, failed, children, mcp, call, coroutine>>

StopServer(t) ==
  /\ at[t] = "stop"
  /\ IF server THEN Tell /\ Go(t, "stopping")
     ELSE Go(t, "done") /\ UNCHANGED told
  /\ UNCHANGED <<agent, closed, failed, children, server, sock, thread,
                 call, coroutine>>

\* The join of ten seconds is over, with the thread or without.
ServerStopped(t) ==
  /\ at[t] = "stopping"
  /\ sock' = IF sock = "bound" THEN "closed" ELSE sock
  /\ server' = FALSE
  /\ Go(t, "done")
  /\ UNCHANGED <<agent, closed, failed, children, thread, told, call, coroutine>>
-----------------------------------------------------------------------------
AgentSteps ==
  \/ GetObservation \/ Construct \/ Bind \/ WaitStarted \/ WaitReady \/ Leave
  \/ Left \/ Finish \/ SetProxy \/ StartProxy \/ AwaitProxy \/ BuildCli
  \/ RunCli \/ Communicate \/ EndProxy \/ EndClear \/ AwaitCoroutine
  \/ RunSmolagent
CloseSteps(t) == \/ Look(t) \/ UseCli(t) \/ ClearCli(t) \/ UseProxy(t)
                 \/ ClearProxy(t) \/ Shut(t) \/ StopServer(t)
                 \/ ServerStopped(t)
AgentThread == AgentSteps \/ CloseSteps("agent")
MainThread == StartClose \/ JoinAgent \/ CloseSteps("main")
ServerSteps == ServerThread \/ ServerExits
ServicesNext ==
  \/ AgentThread \/ MainThread \/ ServerSteps \/ CallTool \/ AnswerTool
  \/ CliExits \/ ProxyDies \/ ContainerEnds \/ CoroutineEnds

Over(t) == at[t] \in {"done", "raised"}
ServicesEnded == Over("main") /\ Over("agent")
\* Neither a tool call, nor the coroutine, nor the server's thread goes on,
\* except for a server that missed every stop().
NothingRuns == /\ ~call /\ coroutine # "running" /\ ~container
               /\ thread = "serving" => told = "missed"

ServicesTypeOK ==
  /\ at["main"] \in Closing \cup {"loop"} /\ at["agent"] \in Closing \cup Running
  /\ closed \in BOOLEAN /\ failed \in BOOLEAN /\ early \in BOOLEAN
  /\ \A r \in {"cli", "proxy"} :
       ref[r] \in BOOLEAN /\ proc[r] \in {"none", "running", "dead"}
  /\ server \in BOOLEAN /\ sock \in {"none", "bound", "closed"}
  /\ thread \in {"none", "building", "serving", "dead"}
  /\ told \in {"no", "yes", "missed"} /\ call \in BOOLEAN
  /\ container \in BOOLEAN /\ coroutine \in {"none", "running", "over"}

\* Whatever fails and whenever the session is closed: once both threads are
\* through, no CLI process and no socket of the session is left, and no
\* proxy process, except one that close() cleared before it was started.
NothingLeft ==
  ServicesEnded =>
    /\ proc["cli"] # "running"
    /\ sock # "bound" /\ ~server
    /\ proc["proxy"] = "running" => early

\* As long as the CLI process runs, and as long as the agent's thread waits
\* for the coroutine, the MCP server they use serves and was not told to end;
\* and the CLI was told addresses it reaches server and proxy at.
ServesWhileUsed ==
  (proc["cli"] = "running" \/ at["agent"] = "await") =>
    /\ thread = "serving" /\ sock = "bound" /\ told # "yes"
    /\ kind = "cli" => Reaches(cli, backend)
=============================================================================
