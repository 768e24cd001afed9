---------------------------- MODULE AgentsProofs ----------------------------
(***************************************************************************)
(* Theorems about Agents, for any bounds on steps, retries and tool calls, *)
(* and every kind of agent: type correctness, that the tool-calling        *)
(* agent's conversation answers each call once and in its place, and that  *)
(* the processes and the server of the other agents are there while they   *)
(* are used and gone when both threads are.                                *)
(***************************************************************************)
EXTENDS Agents, FiniteSetTheorems, SequenceTheorems, TLAPS

(***************************************************************************)
(* The services.                                                           *)
(***************************************************************************)
\* The processes an agent holds.
Members == {"cli", "proxy"}

\* The types of the services' variables, as far as the invariants need them:
\* the places of the threads,
PlacesOK ==
  /\ at \in [Threads -> Closing \cup Running \cup {"loop"}]
  /\ at["main"] \in Closing \cup {"loop"}
  /\ at["agent"] \in Closing \cup Running
\* the flags,
FlagsOK ==
  /\ closed \in BOOLEAN /\ failed \in BOOLEAN /\ early \in BOOLEAN
  /\ server \in BOOLEAN /\ call \in BOOLEAN /\ container \in BOOLEAN
  /\ ref \in [Members -> BOOLEAN]
\* and what is one of several values.
ValuesOK ==
  /\ sock \in {"none", "bound", "closed"}
  /\ thread \in {"none", "building", "serving", "dead"}
  /\ told \in {"no", "yes", "missed"}
  /\ coroutine \in {"none", "running", "over"}
  /\ proc \in [Members -> {"none", "running", "dead"}]

\* Only a CLI agent has a proxy.
KindInv ==
  /\ kind = "cli" => cli \in Clis /\ backend \in {"process", "docker"}
  /\ kind # "cli" => ~ref["proxy"] /\ at["agent"] # "launch"

\* The agent's thread before the server answers,
BeforeServer == {"wait", "construct", "bind", "started"}
\* and between that and the stop() of its own exit.
Served == {"ready", "launch", "popen", "proxyUp", "build", "spawn",
           "communicate", "endLook", "endUse", "endClear", "endProxy",
           "clear", "leave", "unwind", "await"}

\* The server is up in between, because only the agent's own exit tells it to
\* end: a close() from the session's thread joins the agent's first.
ServerInv ==
  /\ at["agent"] \in Served => thread = "serving"
  /\ at["agent"] \in Served \cup {"started"} => sock = "bound"
  /\ at["agent"] \in Served \cup BeforeServer => told = "no"
  /\ at["main"] \in {"stop", "stopping", "done"} => Over("agent")

\* A bound socket belongs to the server object until a stop() of close().
SocketInv ==
  /\ sock = "bound" => server
  /\ at["agent"] = "bind" => server
  /\ at["main"] = "done" \/ at["agent"] = "done" => ~server

\* The CLI is an affair of run_mcp_agent: its own finally clause leaves the
\* agent's close() nothing to end.
CliInv ==
  /\ ref["cli"] => at["agent"] \in {"spawn", "communicate", "endLook",
                                   "endUse", "endClear"}
  /\ proc["cli"] = "running" => at["agent"] = "communicate"
  /\ at["agent"] \notin {"useCli", "clearCli"}

\* The places of a close() that is past the proxy.
PastProxy == {"shut", "join", "stop", "stopping", "done"}

\* A running proxy is still in its field, or close() met it too early.  When
\* the agent's thread finds the field cleared under it, the session's thread
\* is past the proxy, so not both of them raise.
ProxyInv ==
  /\ at["agent"] \in BeforeServer \cup {"ready", "launch", "popen"} =>
       proc["proxy"] = "none"
  /\ proc["proxy"] = "running" \/ at["agent"] = "popen" =>
       ref["proxy"] \/ early
  /\ \A t \in Threads :
       at[t] = "clearProxy" => proc["proxy"] = "dead" \/ early
  /\ at["agent"] = "clear" => proc["proxy"] = "dead"
  /\ at["agent"] \in PastProxy \cup {"raised"} => ~ref["proxy"]
  /\ at["agent"] \in {"useProxy", "clearProxy", "raised"} =>
       ref["proxy"] \/ at["main"] \in PastProxy

\* The inductive invariant of the services.
ServicesInv ==
  /\ PlacesOK /\ FlagsOK /\ ValuesOK
  /\ KindInv /\ ServerInv /\ SocketInv /\ CliInv /\ ProxyInv

\* Every step keeps the threads at places of theirs.
LEMMA PlacesStep == ServicesInv /\ ServicesNext => PlacesOK'
<1> SUFFICES ASSUME ServicesInv, ServicesNext PROVE PlacesOK'
  OBVIOUS
<1> USE DEF ServicesInv, Threads, Closing, Running, agent, children, mcp
<1>1. CASE ServerThread \/ ServerExits \/ CallTool \/ AnswerTool \/ CliExits \/
           ProxyDies \/ CoroutineEnds \/ ContainerEnds
  BY <1>1
    DEF PlacesOK, ServerThread, ServerExits, CallTool, AnswerTool, CliExits,
      ProxyDies, CoroutineEnds, ContainerEnds
<1>2. CASE GetObservation
  BY <1>2 DEF GetObservation, Go, PlacesOK
<1>3. CASE Construct
  BY <1>3 DEF Construct, Go, PlacesOK
<1>4. CASE Bind
  BY <1>4 DEF Bind, Go, Fail, PlacesOK
<1>5. CASE WaitStarted
  BY <1>5 DEF WaitStarted, Go, Fail, PlacesOK
<1>6. CASE WaitReady
  BY <1>6 DEF WaitReady, Go, Fail, PlacesOK
<1>7. CASE Leave
  BY <1>7 DEF Leave, Go, Tell, PlacesOK
<1>8. CASE Left
  BY <1>8 DEF Left, Go, Fail, PlacesOK
<1>9. CASE Finish
  BY <1>9 DEF Finish, Go, PlacesOK
<1>10. CASE SetProxy
  BY <1>10 DEF SetProxy, Go, PlacesOK
<1>11. CASE StartProxy
  BY <1>11 DEF StartProxy, Go, Fail, PlacesOK
<1>12. CASE AwaitProxy
  BY <1>12 DEF AwaitProxy, Go, Fail, PlacesOK
<1>13. CASE BuildCli
  BY <1>13 DEF BuildCli, Go, Fail, PlacesOK
<1>14. CASE RunCli
  BY <1>14 DEF RunCli, Go, Fail, PlacesOK
<1>15. CASE Communicate
  BY <1>15 DEF Communicate, Go, PlacesOK
<1>16. CASE EndProxy
  BY <1>16 DEF EndProxy, Go, PlacesOK
<1>17. CASE EndClear
  BY <1>17 DEF EndClear, Go, PlacesOK
<1>18. CASE AwaitCoroutine
  BY <1>18 DEF AwaitCoroutine, Go, PlacesOK
<1>19. CASE RunSmolagent
  BY <1>19 DEF RunSmolagent, Go, PlacesOK
<1>20. CASE StartClose
  BY <1>20 DEF StartClose, Go, PlacesOK
<1>21. CASE JoinAgent
  BY <1>21 DEF JoinAgent, Go, PlacesOK
<1>22. ASSUME NEW t \in Threads, Look(t) PROVE PlacesOK'
  BY <1>22 DEF Look, Go, PlacesOK
<1>23. ASSUME NEW t \in Threads, UseCli(t) PROVE PlacesOK'
  BY <1>23 DEF UseCli, Go, Fail, Terminate, PlacesOK
<1>24. ASSUME NEW t \in Threads, ClearCli(t) PROVE PlacesOK'
  BY <1>24 DEF ClearCli, Go, PlacesOK
<1>25. ASSUME NEW t \in Threads, UseProxy(t) PROVE PlacesOK'
  BY <1>25 DEF UseProxy, Go, Terminate, PlacesOK
<1>26. ASSUME NEW t \in Threads, ClearProxy(t) PROVE PlacesOK'
  BY <1>26 DEF ClearProxy, Go, PlacesOK
<1>27. ASSUME NEW t \in Threads, Shut(t) PROVE PlacesOK'
  BY <1>27 DEF Shut, Go, PlacesOK
<1>28. ASSUME NEW t \in Threads, StopServer(t) PROVE PlacesOK'
  BY <1>28 DEF StopServer, Go, Tell, PlacesOK
<1>29. ASSUME NEW t \in Threads, ServerStopped(t) PROVE PlacesOK'
  BY <1>29 DEF ServerStopped, Go, PlacesOK
<1> QED
  BY <1>1, <1>2, <1>3, <1>4, <1>5, <1>6, <1>7, <1>8, <1>9, <1>10, <1>11, <1>12,
    <1>13, <1>14, <1>15, <1>16, <1>17, <1>18, <1>19, <1>20, <1>21, <1>22,
    <1>23, <1>24, <1>25, <1>26, <1>27, <1>28, <1>29
       DEF ServicesNext, AgentThread, MainThread, ServerSteps, AgentSteps,
           CloseSteps

\* Every step keeps the flags.
LEMMA FlagsStep == ServicesInv /\ ServicesNext => FlagsOK'
<1> SUFFICES ASSUME ServicesInv, ServicesNext PROVE FlagsOK'
  OBVIOUS
<1> USE DEF ServicesInv, Threads, Closing, Running, agent, children, mcp
<1>1. CASE ServerThread \/ ServerExits \/ CliExits \/ ProxyDies \/
           CoroutineEnds \/ GetObservation \/ Leave \/ EndProxy \/ StartClose
           \/ JoinAgent
  BY <1>1
    DEF FlagsOK, ServerThread, ServerExits, CliExits, ProxyDies, CoroutineEnds,
      GetObservation, Leave, EndProxy, StartClose, JoinAgent
<1>2. ASSUME NEW t \in Threads, Look(t) \/ StopServer(t)
      PROVE  FlagsOK'
  BY <1>2 DEF FlagsOK, Look, StopServer
<1>3. CASE CallTool
  BY <1>3 DEF CallTool, FlagsOK
<1>4. CASE AnswerTool
  BY <1>4 DEF AnswerTool, FlagsOK
<1>5. CASE ContainerEnds
  BY <1>5 DEF ContainerEnds, FlagsOK
<1>6. CASE Construct
  BY <1>6 DEF Construct, Go, FlagsOK
<1>7. CASE Bind
  BY <1>7 DEF Bind, Go, Fail, FlagsOK
<1>8. CASE WaitStarted
  BY <1>8 DEF WaitStarted, Go, Fail, FlagsOK
<1>9. CASE WaitReady
  BY <1>9 DEF WaitReady, Go, Fail, FlagsOK
<1>10. CASE Left
  BY <1>10 DEF Left, Go, Fail, FlagsOK
<1>11. CASE Finish
  BY <1>11 DEF Finish, Go, FlagsOK
<1>12. CASE SetProxy
  BY <1>12 DEF SetProxy, Go, FlagsOK
<1>13. CASE StartProxy
  BY <1>13 DEF StartProxy, Go, Fail, FlagsOK
<1>14. CASE AwaitProxy
  BY <1>14 DEF AwaitProxy, Go, Fail, FlagsOK
<1>15. CASE BuildCli
  BY <1>15 DEF BuildCli, Go, Fail, FlagsOK
<1>16. CASE RunCli
  BY <1>16 DEF RunCli, Go, Fail, FlagsOK
<1>17. CASE Communicate
  BY <1>17 DEF Communicate, Go, FlagsOK
<1>18. CASE EndClear
  BY <1>18 DEF EndClear, Go, FlagsOK
<1>19. CASE AwaitCoroutine
  BY <1>19 DEF AwaitCoroutine, Go, FlagsOK
<1>20. CASE RunSmolagent
  BY <1>20 DEF RunSmolagent, Go, FlagsOK
<1>21. ASSUME NEW t \in Threads, UseCli(t) PROVE FlagsOK'
  BY <1>21 DEF UseCli, Go, Fail, Terminate, FlagsOK
<1>22. ASSUME NEW t \in Threads, ClearCli(t) PROVE FlagsOK'
  BY <1>22 DEF ClearCli, Go, FlagsOK
<1>23. ASSUME NEW t \in Threads, UseProxy(t) PROVE FlagsOK'
  BY <1>23 DEF UseProxy, Go, Terminate, FlagsOK
<1>24. ASSUME NEW t \in Threads, ClearProxy(t) PROVE FlagsOK'
  BY <1>24 DEF ClearProxy, Go, FlagsOK
<1>25. ASSUME NEW t \in Threads, Shut(t) PROVE FlagsOK'
  BY <1>25 DEF Shut, Go, FlagsOK
<1>26. ASSUME NEW t \in Threads, ServerStopped(t) PROVE FlagsOK'
  BY <1>26 DEF ServerStopped, Go, FlagsOK
<1> QED
  BY <1>1, <1>2, <1>3, <1>4, <1>5, <1>6, <1>7, <1>8, <1>9, <1>10, <1>11, <1>12,
    <1>13, <1>14, <1>15, <1>16, <1>17, <1>18, <1>19, <1>20, <1>21, <1>22,
    <1>23, <1>24, <1>25, <1>26
       DEF ServicesNext, AgentThread, MainThread, ServerSteps, AgentSteps,
           CloseSteps

\* Every step keeps the other values in their types.
LEMMA ValuesStep == ServicesInv /\ ServicesNext => ValuesOK'
<1> SUFFICES ASSUME ServicesInv, ServicesNext PROVE ValuesOK'
  OBVIOUS
<1> USE DEF ServicesInv, Threads, Closing, Running, agent, children, mcp
<1>1. CASE CallTool \/ AnswerTool \/ ContainerEnds \/ GetObservation \/
           Construct \/ WaitStarted \/ Finish \/ SetProxy \/ AwaitProxy \/
           BuildCli \/ Communicate \/ EndClear \/ AwaitCoroutine \/
           RunSmolagent \/ StartClose \/ JoinAgent
  BY <1>1
    DEF ValuesOK, CallTool, AnswerTool, ContainerEnds, GetObservation,
      Construct, WaitStarted, Finish, SetProxy, AwaitProxy, BuildCli,
      Communicate, EndClear, AwaitCoroutine, RunSmolagent, StartClose,
      JoinAgent
<1>2. ASSUME NEW t \in Threads, Look(t) \/ ClearCli(t) \/ ClearProxy(t) \/
             Shut(t)
      PROVE  ValuesOK'
  BY <1>2 DEF ValuesOK, Look, ClearCli, ClearProxy, Shut
<1>3. CASE ServerThread
  BY <1>3 DEF ServerThread, ValuesOK
<1>4. CASE ServerExits
  BY <1>4 DEF ServerExits, ValuesOK
<1>5. CASE CliExits
  BY <1>5 DEF CliExits, ValuesOK
<1>6. CASE ProxyDies
  BY <1>6 DEF ProxyDies, ValuesOK
<1>7. CASE CoroutineEnds
  BY <1>7 DEF CoroutineEnds, ValuesOK
<1>8. CASE Bind
  BY <1>8 DEF Bind, Go, ValuesOK
<1>9. CASE WaitReady
  BY <1>9 DEF WaitReady, Go, ValuesOK
<1>10. CASE Leave
  BY <1>10 DEF Leave, Go, Tell, ValuesOK
<1>11. CASE Left
  BY <1>11 DEF Left, Go, ValuesOK
<1>12. CASE StartProxy
  BY <1>12 DEF StartProxy, Go, ValuesOK
<1>13. CASE RunCli
  BY <1>13 DEF RunCli, Go, ValuesOK
<1>14. CASE EndProxy
  BY <1>14 DEF EndProxy, Go, ValuesOK
<1>15. ASSUME NEW t \in Threads, UseCli(t) PROVE ValuesOK'
  BY <1>15 DEF UseCli, Go, Terminate, ValuesOK
<1>16. ASSUME NEW t \in Threads, UseProxy(t) PROVE ValuesOK'
  BY <1>16 DEF UseProxy, Go, Terminate, ValuesOK
<1>17. ASSUME NEW t \in Threads, StopServer(t) PROVE ValuesOK'
  BY <1>17 DEF StopServer, Go, Tell, ValuesOK
<1>18. ASSUME NEW t \in Threads, ServerStopped(t) PROVE ValuesOK'
  BY <1>18 DEF ServerStopped, Go, ValuesOK
<1> QED
  BY <1>1, <1>2, <1>3, <1>4, <1>5, <1>6, <1>7, <1>8, <1>9, <1>10, <1>11, <1>12,
    <1>13, <1>14, <1>15, <1>16, <1>17, <1>18
       DEF ServicesNext, AgentThread, MainThread, ServerSteps, AgentSteps,
           CloseSteps

\* Every step keeps to the kind of the agent.
LEMMA KindStep == ServicesInv /\ ServicesNext => KindInv'
<1> SUFFICES ASSUME ServicesInv, ServicesNext PROVE KindInv'
  OBVIOUS
<1> USE DEF ServicesInv, Threads, Closing, Running, agent, children, mcp
<1>1. CASE ServerThread \/ ServerExits \/ CallTool \/ AnswerTool \/ CliExits \/
           ProxyDies \/ CoroutineEnds \/ ContainerEnds
  BY <1>1
    DEF KindInv, ServerThread, ServerExits, CallTool, AnswerTool, CliExits,
      ProxyDies, CoroutineEnds, ContainerEnds
<1>2. CASE GetObservation
  BY <1>2 DEF GetObservation, Go, KindInv
<1>3. CASE Construct
  BY <1>3 DEF Construct, Go, KindInv
<1>4. CASE Bind
  BY <1>4 DEF Bind, Go, Fail, PlacesOK, KindInv
<1>5. CASE WaitStarted
  BY <1>5 DEF WaitStarted, Go, Fail, PlacesOK, KindInv
<1>6. CASE WaitReady
  BY <1>6 DEF WaitReady, Go, Fail, PlacesOK, KindInv
<1>7. CASE Leave
  BY <1>7 DEF Leave, Go, Tell, KindInv
<1>8. CASE Left
  BY <1>8 DEF Left, Go, Fail, PlacesOK, KindInv
<1>9. CASE Finish
  BY <1>9 DEF Finish, Go, KindInv
<1>10. CASE SetProxy
  BY <1>10 DEF SetProxy, Go, KindInv
<1>11. CASE StartProxy
  BY <1>11 DEF StartProxy, Go, Fail, PlacesOK, KindInv
<1>12. CASE AwaitProxy
  BY <1>12 DEF AwaitProxy, Go, Fail, PlacesOK, KindInv
<1>13. CASE BuildCli
  BY <1>13 DEF BuildCli, Go, Fail, PlacesOK, FlagsOK, KindInv, Members
<1>14. CASE RunCli
  BY <1>14 DEF RunCli, Go, Fail, PlacesOK, KindInv
<1>15. CASE Communicate
  BY <1>15 DEF Communicate, Go, KindInv
<1>16. CASE EndProxy
  BY <1>16 DEF EndProxy, Go, KindInv
<1>17. CASE EndClear
  BY <1>17 DEF EndClear, Go, KindInv
<1>18. CASE AwaitCoroutine
  BY <1>18 DEF AwaitCoroutine, Go, KindInv
<1>19. CASE RunSmolagent
  BY <1>19 DEF RunSmolagent, Go, KindInv
<1>20. CASE StartClose
  BY <1>20 DEF StartClose, Go, KindInv
<1>21. CASE JoinAgent
  BY <1>21 DEF JoinAgent, Go, KindInv
<1>22. ASSUME NEW t \in Threads, Look(t) PROVE KindInv'
  BY <1>22 DEF Look, Go, KindInv
<1>23. ASSUME NEW t \in Threads, UseCli(t) PROVE KindInv'
  BY <1>23 DEF UseCli, Go, Fail, Terminate, PlacesOK, KindInv
<1>24. ASSUME NEW t \in Threads, ClearCli(t) PROVE KindInv'
  BY <1>24 DEF ClearCli, Go, KindInv
<1>25. ASSUME NEW t \in Threads, UseProxy(t) PROVE KindInv'
  BY <1>25 DEF UseProxy, Go, Terminate, PlacesOK, KindInv
<1>26. ASSUME NEW t \in Threads, ClearProxy(t) PROVE KindInv'
  BY <1>26 DEF ClearProxy, Go, KindInv
<1>27. ASSUME NEW t \in Threads, Shut(t) PROVE KindInv'
  BY <1>27 DEF Shut, Go, KindInv
<1>28. ASSUME NEW t \in Threads, StopServer(t) PROVE KindInv'
  BY <1>28 DEF StopServer, Go, Tell, PlacesOK, KindInv
<1>29. ASSUME NEW t \in Threads, ServerStopped(t) PROVE KindInv'
  BY <1>29 DEF ServerStopped, Go, KindInv
<1> QED
  BY <1>1, <1>2, <1>3, <1>4, <1>5, <1>6, <1>7, <1>8, <1>9, <1>10, <1>11, <1>12,
    <1>13, <1>14, <1>15, <1>16, <1>17, <1>18, <1>19, <1>20, <1>21, <1>22,
    <1>23, <1>24, <1>25, <1>26, <1>27, <1>28, <1>29
       DEF ServicesNext, AgentThread, MainThread, ServerSteps, AgentSteps,
           CloseSteps

\* Every step keeps the server up for the agent.
LEMMA ServerStep == ServicesInv /\ ServicesNext => ServerInv'
<1> SUFFICES ASSUME ServicesInv, ServicesNext PROVE ServerInv'
  OBVIOUS
<1> USE DEF ServicesInv, Threads, Closing, Running, agent, children, mcp
<1>1. CASE CallTool \/ AnswerTool \/ CliExits \/ ProxyDies \/ CoroutineEnds \/
           ContainerEnds
  BY <1>1
    DEF ServerInv, CallTool, AnswerTool, CliExits, ProxyDies, CoroutineEnds,
      ContainerEnds, Over
<1>2. CASE ServerThread
  BY <1>2 DEF ServerThread, ServerInv, Over
<1>3. CASE ServerExits
  BY <1>3 DEF ServerExits, ServerInv, Over
<1>4. CASE GetObservation
  BY <1>4 DEF GetObservation, Go, ServerInv, Over, Served, BeforeServer
<1>5. CASE Construct
  BY <1>5 DEF Construct, Go, ServerInv, Over, Served, BeforeServer
<1>6. CASE Bind
  BY <1>6 DEF Bind, Go, Fail, PlacesOK, ServerInv, Over, Served, BeforeServer
<1>7. CASE WaitStarted
  BY <1>7
    DEF WaitStarted, Go, Fail, PlacesOK, ServerInv, Over, Served, BeforeServer
<1>8. CASE WaitReady
  BY <1>8 DEF WaitReady, Go, Fail, PlacesOK, ServerInv, Over, Served
<1>9. CASE Leave
  BY <1>9 DEF Leave, Go, Tell, PlacesOK, ServerInv, Over, Served, BeforeServer
<1>10. CASE Left
  BY <1>10 DEF Left, Go, Fail, PlacesOK, ServerInv, Over, Served, BeforeServer
<1>11. CASE Finish
  BY <1>11 DEF Finish, Go, ServerInv, Over, Served, BeforeServer
<1>12. CASE SetProxy
  BY <1>12 DEF SetProxy, Go, ServerInv, Over, Served
<1>13. CASE StartProxy
  BY <1>13 DEF StartProxy, Go, Fail, PlacesOK, ServerInv, Over, Served
<1>14. CASE AwaitProxy
  BY <1>14 DEF AwaitProxy, Go, Fail, PlacesOK, ServerInv, Over, Served
<1>15. CASE BuildCli
  BY <1>15 DEF BuildCli, Go, Fail, PlacesOK, ServerInv, Over, Served
<1>16. CASE RunCli
  BY <1>16 DEF RunCli, Go, Fail, PlacesOK, ServerInv, Over, Served
<1>17. CASE Communicate
  BY <1>17 DEF Communicate, Go, ServerInv, Over, Served
<1>18. CASE EndProxy
  BY <1>18 DEF EndProxy, Go, ServerInv, Over, Served
<1>19. CASE EndClear
  BY <1>19 DEF EndClear, Go, ServerInv, Over, Served
<1>20. CASE AwaitCoroutine
  BY <1>20 DEF AwaitCoroutine, Go, ServerInv, Over, Served
<1>21. CASE RunSmolagent
  BY <1>21 DEF RunSmolagent, Go, ServerInv, Over, Served, BeforeServer
<1>22. CASE StartClose
  BY <1>22 DEF StartClose, Go, ServerInv
<1>23. CASE JoinAgent
  BY <1>23 DEF JoinAgent, Go, Over, ServerInv, Over
<1>24. ASSUME NEW t \in Threads, Look(t) PROVE ServerInv'
  BY <1>24 DEF Look, Go, ServerInv, Over, Served, BeforeServer
<1>25. ASSUME NEW t \in Threads, UseCli(t) PROVE ServerInv'
  BY <1>25
    DEF UseCli, Go, Fail, Terminate, PlacesOK, ServerInv, Over, Served,
      BeforeServer
<1>26. ASSUME NEW t \in Threads, ClearCli(t) PROVE ServerInv'
  BY <1>26 DEF ClearCli, Go, ServerInv, Over, Served, BeforeServer
<1>27. ASSUME NEW t \in Threads, UseProxy(t) PROVE ServerInv'
  BY <1>27
    DEF UseProxy, Go, Terminate, PlacesOK, ServerInv, Over, Served,
      BeforeServer
<1>28. ASSUME NEW t \in Threads, ClearProxy(t) PROVE ServerInv'
  BY <1>28 DEF ClearProxy, Go, ServerInv, Over, Served, BeforeServer
<1>29. ASSUME NEW t \in Threads, Shut(t) PROVE ServerInv'
  BY <1>29 DEF Shut, Go, ServerInv, Over, Served, BeforeServer
<1>30. ASSUME NEW t \in Threads, StopServer(t) PROVE ServerInv'
  BY <1>30
    DEF StopServer, Go, Tell, PlacesOK, ServerInv, Over, Served, BeforeServer
<1>31. ASSUME NEW t \in Threads, ServerStopped(t) PROVE ServerInv'
  BY <1>31 DEF ServerStopped, Go, ServerInv, Over, Served, BeforeServer
<1> QED
  BY <1>1, <1>2, <1>3, <1>4, <1>5, <1>6, <1>7, <1>8, <1>9, <1>10, <1>11, <1>12,
    <1>13, <1>14, <1>15, <1>16, <1>17, <1>18, <1>19, <1>20, <1>21, <1>22,
    <1>23, <1>24, <1>25, <1>26, <1>27, <1>28, <1>29, <1>30, <1>31
       DEF ServicesNext, AgentThread, MainThread, ServerSteps, AgentSteps,
           CloseSteps

\* Every step keeps the socket with its server object.
LEMMA SocketStep == ServicesInv /\ ServicesNext => SocketInv'
<1> SUFFICES ASSUME ServicesInv, ServicesNext PROVE SocketInv'
  OBVIOUS
<1> USE DEF ServicesInv, Threads, Closing, Running, agent, children, mcp
<1>1. CASE ServerThread \/ ServerExits \/ CallTool \/ AnswerTool \/ CliExits \/
           ProxyDies \/ CoroutineEnds \/ ContainerEnds
  BY <1>1
    DEF SocketInv, ServerThread, ServerExits, CallTool, AnswerTool, CliExits,
      ProxyDies, CoroutineEnds, ContainerEnds
<1>2. CASE GetObservation
  BY <1>2 DEF GetObservation, Go, SocketInv
<1>3. CASE Construct
  BY <1>3 DEF Construct, Go, ServerInv, SocketInv, Over
<1>4. CASE Bind
  BY <1>4 DEF Bind, Go, Fail, PlacesOK, SocketInv
<1>5. CASE WaitStarted
  BY <1>5 DEF WaitStarted, Go, Fail, PlacesOK, SocketInv
<1>6. CASE WaitReady
  BY <1>6 DEF WaitReady, Go, Fail, PlacesOK, SocketInv
<1>7. CASE Leave
  BY <1>7 DEF Leave, Go, Tell, SocketInv
<1>8. CASE Left
  BY <1>8 DEF Left, Go, Fail, PlacesOK, SocketInv
<1>9. CASE Finish
  BY <1>9 DEF Finish, Go, SocketInv
<1>10. CASE SetProxy
  BY <1>10 DEF SetProxy, Go, SocketInv
<1>11. CASE StartProxy
  BY <1>11 DEF StartProxy, Go, Fail, PlacesOK, SocketInv
<1>12. CASE AwaitProxy
  BY <1>12 DEF AwaitProxy, Go, Fail, PlacesOK, SocketInv
<1>13. CASE BuildCli
  BY <1>13 DEF BuildCli, Go, Fail, PlacesOK, SocketInv
<1>14. CASE RunCli
  BY <1>14 DEF RunCli, Go, Fail, PlacesOK, SocketInv
<1>15. CASE Communicate
  BY <1>15 DEF Communicate, Go, SocketInv
<1>16. CASE EndProxy
  BY <1>16 DEF EndProxy, Go, SocketInv
<1>17. CASE EndClear
  BY <1>17 DEF EndClear, Go, SocketInv
<1>18. CASE AwaitCoroutine
  BY <1>18 DEF AwaitCoroutine, Go, SocketInv
<1>19. CASE RunSmolagent
  BY <1>19 DEF RunSmolagent, Go, SocketInv
<1>20. CASE StartClose
  BY <1>20 DEF StartClose, Go, SocketInv
<1>21. CASE JoinAgent
  BY <1>21 DEF JoinAgent, Go, SocketInv
<1>22. ASSUME NEW t \in Threads, Look(t) PROVE SocketInv'
  BY <1>22 DEF Look, Go, SocketInv
<1>23. ASSUME NEW t \in Threads, UseCli(t) PROVE SocketInv'
  BY <1>23 DEF UseCli, Go, Fail, Terminate, PlacesOK, SocketInv
<1>24. ASSUME NEW t \in Threads, ClearCli(t) PROVE SocketInv'
  BY <1>24 DEF ClearCli, Go, SocketInv
<1>25. ASSUME NEW t \in Threads, UseProxy(t) PROVE SocketInv'
  BY <1>25 DEF UseProxy, Go, Terminate, PlacesOK, SocketInv
<1>26. ASSUME NEW t \in Threads, ClearProxy(t) PROVE SocketInv'
  BY <1>26 DEF ClearProxy, Go, SocketInv
<1>27. ASSUME NEW t \in Threads, Shut(t) PROVE SocketInv'
  BY <1>27 DEF Shut, Go, SocketInv
<1>28. ASSUME NEW t \in Threads, StopServer(t) PROVE SocketInv'
  BY <1>28 DEF StopServer, Go, Tell, PlacesOK, SocketInv
<1>29. ASSUME NEW t \in Threads, ServerStopped(t) PROVE SocketInv'
  BY <1>29 DEF ServerStopped, Go, ServerInv, SocketInv, Over
<1> QED
  BY <1>1, <1>2, <1>3, <1>4, <1>5, <1>6, <1>7, <1>8, <1>9, <1>10, <1>11, <1>12,
    <1>13, <1>14, <1>15, <1>16, <1>17, <1>18, <1>19, <1>20, <1>21, <1>22,
    <1>23, <1>24, <1>25, <1>26, <1>27, <1>28, <1>29
       DEF ServicesNext, AgentThread, MainThread, ServerSteps, AgentSteps,
           CloseSteps

\* Every step keeps the CLI within run_mcp_agent.
LEMMA CliStep == ServicesInv /\ ServicesNext => CliInv'
<1> SUFFICES ASSUME ServicesInv, ServicesNext PROVE CliInv'
  OBVIOUS
<1> USE DEF ServicesInv, Threads, Closing, Running, agent, children, mcp
<1>1. CASE ServerThread \/ ServerExits \/ CallTool \/ AnswerTool \/
           CoroutineEnds \/ ContainerEnds
  BY <1>1
    DEF CliInv, ServerThread, ServerExits, CallTool, AnswerTool, CoroutineEnds,
      ContainerEnds
<1>2. CASE CliExits
  BY <1>2 DEF CliExits, CliInv
<1>3. CASE ProxyDies
  BY <1>3 DEF ProxyDies, CliInv
<1>4. CASE GetObservation
  BY <1>4 DEF GetObservation, Go, CliInv
<1>5. CASE Construct
  BY <1>5 DEF Construct, Go, CliInv
<1>6. CASE Bind
  BY <1>6 DEF Bind, Go, Fail, PlacesOK, CliInv
<1>7. CASE WaitStarted
  BY <1>7 DEF WaitStarted, Go, Fail, PlacesOK, CliInv
<1>8. CASE WaitReady
  BY <1>8 DEF WaitReady, Go, Fail, PlacesOK, CliInv
<1>9. CASE Leave
  BY <1>9 DEF Leave, Go, Tell, CliInv
<1>10. CASE Left
  BY <1>10 DEF Left, Go, Fail, PlacesOK, CliInv
<1>11. CASE Finish
  BY <1>11 DEF Finish, Go, CliInv
<1>12. CASE SetProxy
  BY <1>12 DEF SetProxy, Go, CliInv
<1>13. CASE StartProxy
  BY <1>13 DEF StartProxy, Go, Fail, PlacesOK, ValuesOK, CliInv, Members
<1>14. CASE AwaitProxy
  BY <1>14 DEF AwaitProxy, Go, Fail, PlacesOK, CliInv
<1>15. CASE BuildCli
  BY <1>15 DEF BuildCli, Go, Fail, PlacesOK, CliInv
<1>16. CASE RunCli
  BY <1>16 DEF RunCli, Go, Fail, PlacesOK, CliInv
<1>17. CASE Communicate
  BY <1>17 DEF Communicate, Go, CliInv
<1>18. CASE EndProxy
  BY <1>18 DEF EndProxy, Go, CliInv
<1>19. CASE EndClear
  BY <1>19 DEF EndClear, Go, CliInv
<1>20. CASE AwaitCoroutine
  BY <1>20 DEF AwaitCoroutine, Go, CliInv
<1>21. CASE RunSmolagent
  BY <1>21 DEF RunSmolagent, Go, CliInv
<1>22. CASE StartClose
  BY <1>22 DEF StartClose, Go, CliInv
<1>23. CASE JoinAgent
  BY <1>23 DEF JoinAgent, Go, CliInv
<1>24. ASSUME NEW t \in Threads, Look(t) PROVE CliInv'
  BY <1>24 DEF Look, Go, CliInv
<1>25. ASSUME NEW t \in Threads, UseCli(t) PROVE CliInv'
  BY <1>25 DEF UseCli, Go, Fail, Terminate, PlacesOK, ValuesOK, CliInv
<1>26. ASSUME NEW t \in Threads, ClearCli(t) PROVE CliInv'
  BY <1>26 DEF ClearCli, Go, FlagsOK, CliInv, Members
<1>27. ASSUME NEW t \in Threads, UseProxy(t) PROVE CliInv'
  BY <1>27 DEF UseProxy, Go, Terminate, PlacesOK, ValuesOK, CliInv, Members
<1>28. ASSUME NEW t \in Threads, ClearProxy(t) PROVE CliInv'
  BY <1>28 DEF ClearProxy, Go, CliInv
<1>29. ASSUME NEW t \in Threads, Shut(t) PROVE CliInv'
  BY <1>29 DEF Shut, Go, CliInv
<1>30. ASSUME NEW t \in Threads, StopServer(t) PROVE CliInv'
  BY <1>30 DEF StopServer, Go, Tell, PlacesOK, CliInv
<1>31. ASSUME NEW t \in Threads, ServerStopped(t) PROVE CliInv'
  BY <1>31 DEF ServerStopped, Go, CliInv
<1> QED
  BY <1>1, <1>2, <1>3, <1>4, <1>5, <1>6, <1>7, <1>8, <1>9, <1>10, <1>11, <1>12,
    <1>13, <1>14, <1>15, <1>16, <1>17, <1>18, <1>19, <1>20, <1>21, <1>22,
    <1>23, <1>24, <1>25, <1>26, <1>27, <1>28, <1>29, <1>30, <1>31
       DEF ServicesNext, AgentThread, MainThread, ServerSteps, AgentSteps,
           CloseSteps

\* Every step keeps track of the proxy.
LEMMA ProxyStep == ServicesInv /\ ServicesNext => ProxyInv'
<1> SUFFICES ASSUME ServicesInv, ServicesNext PROVE ProxyInv'
  OBVIOUS
<1> USE DEF ServicesInv, Threads, Closing, Running, agent, children, mcp
<1>1. CASE ServerThread \/ ServerExits \/ CallTool \/ AnswerTool \/
           CoroutineEnds \/ ContainerEnds
  BY <1>1
    DEF ProxyInv, ServerThread, ServerExits, CallTool, AnswerTool,
      CoroutineEnds, ContainerEnds
<1>2. CASE CliExits
  BY <1>2 DEF CliExits, ProxyInv
<1>3. CASE ProxyDies
  BY <1>3 DEF ProxyDies, ProxyInv
<1>4. CASE GetObservation
  BY <1>4 DEF GetObservation, Go, ProxyInv, PastProxy, BeforeServer
<1>5. CASE Construct
  BY <1>5 DEF Construct, Go, ProxyInv, PastProxy, BeforeServer
<1>6. CASE Bind
  BY <1>6 DEF Bind, Go, Fail, PlacesOK, ProxyInv, PastProxy, BeforeServer
<1>7. CASE WaitStarted
  BY <1>7
    DEF WaitStarted, Go, Fail, PlacesOK, ProxyInv, PastProxy, BeforeServer
<1>8. CASE WaitReady
  BY <1>8 DEF WaitReady, Go, Fail, PlacesOK, ProxyInv, PastProxy
<1>9. CASE Leave
  BY <1>9 DEF Leave, Go, Tell, ProxyInv, PastProxy, BeforeServer
<1>10. CASE Left
  BY <1>10 DEF Left, Go, Fail, PlacesOK, ProxyInv, PastProxy, BeforeServer
<1>11. CASE Finish
  BY <1>11 DEF Finish, Go, KindInv, ProxyInv, PastProxy, BeforeServer
<1>12. CASE SetProxy
  BY <1>12 DEF SetProxy, Go, FlagsOK, ProxyInv, PastProxy, Members
<1>13. CASE StartProxy
  <2>1. /\ ref' = ref /\ early' = early /\ at["agent"] = "popen"
        /\ at'["main"] = at["main"] /\ at'["agent"] \in {"proxyUp", "leave"}
        /\ proc'["proxy"] = "running" \/ proc' = proc
    BY <1>13 DEF StartProxy, Go, Fail, PlacesOK, ValuesOK
  <2>2. proc["proxy"] = "none" /\ ref["proxy"] \in BOOLEAN
    BY <2>1 DEF ProxyInv, FlagsOK, Members
  <2>3. ref["proxy"] \/ early
    BY <2>1 DEF ProxyInv
  <2> QED BY <2>1, <2>2, <2>3 DEF ProxyInv, PastProxy, BeforeServer
<1>14. CASE AwaitProxy
  BY <1>14
    DEF AwaitProxy, Go, Fail, PlacesOK, ProxyInv, PastProxy, BeforeServer
<1>15. CASE BuildCli
  BY <1>15
    DEF BuildCli, Go, Fail, PlacesOK, FlagsOK, ProxyInv, PastProxy,
      BeforeServer, Members
<1>16. CASE RunCli
  BY <1>16
    DEF RunCli, Go, Fail, PlacesOK, ValuesOK, ProxyInv, PastProxy,
      BeforeServer, Members
<1>17. CASE Communicate
  BY <1>17 DEF Communicate, Go, ProxyInv, PastProxy, BeforeServer
<1>18. CASE EndProxy
  BY <1>18
    DEF EndProxy, Go, ValuesOK, ProxyInv, PastProxy, BeforeServer, Members
<1>19. CASE EndClear
  BY <1>19 DEF EndClear, Go, ProxyInv, PastProxy, BeforeServer
<1>20. CASE AwaitCoroutine
  BY <1>20 DEF AwaitCoroutine, Go, ProxyInv, PastProxy, BeforeServer
<1>21. CASE RunSmolagent
  BY <1>21 DEF RunSmolagent, Go, ProxyInv, PastProxy, BeforeServer
<1>22. CASE StartClose
  BY <1>22 DEF StartClose, Go, ProxyInv, PastProxy
<1>23. CASE JoinAgent
  BY <1>23 DEF JoinAgent, Go, ProxyInv, PastProxy
<1>24. ASSUME NEW t \in Threads, Look(t) PROVE ProxyInv'
  BY <1>24 DEF Look, Go, ProxyInv, PastProxy, BeforeServer
<1>25. ASSUME NEW t \in Threads, UseCli(t) PROVE ProxyInv'
  BY <1>25
    DEF UseCli, Go, Fail, Terminate, PlacesOK, ValuesOK, CliInv, ProxyInv,
      PastProxy, BeforeServer, Members
<1>26. ASSUME NEW t \in Threads, ClearCli(t) PROVE ProxyInv'
  BY <1>26 DEF ClearCli, Go, ProxyInv, PastProxy, BeforeServer
<1>27. ASSUME NEW t \in Threads, UseProxy(t) PROVE ProxyInv'
  BY <1>27
    DEF UseProxy, Go, Terminate, PlacesOK, FlagsOK, ValuesOK, ProxyInv,
      PastProxy, BeforeServer, Members
<1>28. ASSUME NEW t \in Threads, ClearProxy(t) PROVE ProxyInv'
  BY <1>28
    DEF ClearProxy, Go, PlacesOK, FlagsOK, ProxyInv, PastProxy, BeforeServer,
      Members
<1>29. ASSUME NEW t \in Threads, Shut(t) PROVE ProxyInv'
  BY <1>29 DEF Shut, Go, ProxyInv, PastProxy, BeforeServer
<1>30. ASSUME NEW t \in Threads, StopServer(t) PROVE ProxyInv'
  BY <1>30
    DEF StopServer, Go, Tell, PlacesOK, ProxyInv, PastProxy, BeforeServer
<1>31. ASSUME NEW t \in Threads, ServerStopped(t) PROVE ProxyInv'
  BY <1>31 DEF ServerStopped, Go, ProxyInv, PastProxy, BeforeServer
<1> QED
  BY <1>1, <1>2, <1>3, <1>4, <1>5, <1>6, <1>7, <1>8, <1>9, <1>10, <1>11, <1>12,
    <1>13, <1>14, <1>15, <1>16, <1>17, <1>18, <1>19, <1>20, <1>21, <1>22,
    <1>23, <1>24, <1>25, <1>26, <1>27, <1>28, <1>29, <1>30, <1>31
       DEF ServicesNext, AgentThread, MainThread, ServerSteps, AgentSteps,
           CloseSteps

-----------------------------------------------------------------------------
(***************************************************************************)
(* The conversation.                                                       *)
(***************************************************************************)

\* The types of the messages,
Message == [role : {"user", "assistant", "tool"}, calls : Seq(Nat)]
\* of the calls of an action
Act == [name : Names, valid : BOOLEAN, known : BOOLEAN, call : Nat]
\* and of observations.
Obs == [name : Names \cup {"none"}, known : BOOLEAN, call : Nat, kind : Kinds]

\* The types of the conversation's variables.
ChatFields ==
  /\ turn \in Turns /\ probe \in {"calling", "passed", "raised"}
  /\ probes \in 0..HealthRetries /\ attempt \in 0..NumRetries
  /\ stepCount \in Nat /\ issued \in Nat
  /\ messages \in Seq(Message) /\ action \in Seq(Act)
  /\ observation \in Seq(Obs) /\ policy \in Policies

\* Only calls that were made are mentioned.
ChatNumbers ==
  /\ \A i \in DOMAIN messages : \A j \in DOMAIN messages[i].calls :
       messages[i].calls[j] \in 1..issued
  /\ observed \subseteq 1..issued

\* A step asks for one reply: the replies so far bound the calls.
ChatBounds ==
  /\ stepCount <= MaxSteps + 1 /\ issued <= MaxSteps * MaxCalls
  /\ turn \notin {"done", "failed"} => stepCount <= MaxSteps
  /\ turn = "checking" => issued = 0
  /\ turn \in {"shortlisting", "completing"} =>
       stepCount # 0 /\ issued <= (stepCount - 1) * MaxCalls
  /\ turn \in {"observing", "acting"} => issued <= stepCount * MaxCalls

\* The calls whose observations the agent is given and has not sent yet.
Pending == {observation[i].call :
              i \in {j \in DOMAIN observation : IsToolResult(observation[j])}}

\* The call is answered as CallsAnswered has it.
AnsweredOnce(id) ==
  \E i \in DOMAIN messages :
    /\ Answers(i, id)
    /\ \A j \in DOMAIN messages : Answers(j, id) => j = i
    /\ \E k \in 1..(i - 1) :
         /\ Made(k, id)
         /\ \A j \in (k + 1)..(i - 1) : messages[j].role # "assistant"

\* While the conversation goes on, all but the pending calls are answered.
ChatAnswers ==
  turn \notin {"done", "failed"} =>
    /\ \A id \in observed \ Pending : AnsweredOnce(id)
    /\ \A i \in DOMAIN messages : messages[i].role = "tool" =>
         \E id \in observed \ Pending : Answers(i, id)

\* The last message is the reply that made the call.
LastMade(id) == messages # <<>> /\ Made(Len(messages), id)

\* What the agent is given are observations of the last reply's calls, one of
\* each call.
ChatObserved ==
  /\ turn \notin {"checking", "observing", "done", "failed"}
       => observation = <<>>
  /\ turn = "checking" =>
       /\ observed = {}
       /\ \A i \in DOMAIN observation : observation[i].name = "none"
  /\ turn = "observing" =>
       \A i \in DOMAIN observation : IsToolResult(observation[i]) =>
         /\ LastMade(observation[i].call)
         /\ observation[i].call \in observed
         /\ \A j \in DOMAIN observation :
              /\ IsToolResult(observation[j])
              /\ observation[j].call = observation[i].call
              => j = i

\* The call is one of the model's reply, not a plain message's.
Fresh(i) == action[i].name # "message"

\* What the environment is given are the last reply's calls, none of which has
\* been observed.
ChatActing ==
  turn = "acting" =>
    \A i \in DOMAIN action : Fresh(i) =>
      /\ LastMade(action[i].call)
      /\ action[i].call \in (1..issued) \ observed
      /\ \A j \in DOMAIN action :
           Fresh(j) /\ action[j].call = action[i].call => j = i

\* The inductive invariant of the conversation.
ChatInv ==
  /\ ChatFields /\ ChatNumbers /\ ChatBounds
  /\ ChatAnswers /\ ChatObserved /\ ChatActing

\* One more step's calls, in the bound on the calls.
LEMMA Times ==
  ASSUME NEW n \in Nat \ {0}, NEW m \in Nat
  PROVE  (n - 1) * m + m = n * m
OBVIOUS

\* More steps bound more calls.
LEMMA TimesMonotone ==
  ASSUME NEW n \in Nat, NEW k \in Nat, n <= k, NEW m \in Nat
  PROVE  n * m <= k * m
OBVIOUS

\* The messages for the observations, in their order.
Sent == [i \in DOMAIN observation |-> MessageOf(observation[i])]

\* A user's message is one.
LEMMA UserIsMessage == User \in Message
BY DEF User, Message

\* There is one message for each observation.
LEMMA SentTypes ==
  ASSUME observation \in Seq(Obs)
  PROVE  Sent \in Seq(Message) /\ Len(Sent) = Len(observation)
<1>1. ASSUME NEW i \in 1..Len(observation)
      PROVE  MessageOf(observation[i]) \in Message
  <2>1. observation[i] \in Obs
    OBVIOUS
  <2>2. observation[i].call \in Nat
    BY <2>1 DEF Obs
  <2>3. <<observation[i].call>> \in Seq(Nat)
    BY <2>2
  <2> QED BY <2>3, UserIsMessage DEF MessageOf, Message
<1>2. Sent = [i \in 1..Len(observation) |-> MessageOf(observation[i])]
  BY DEF Sent
<1> QED BY <1>1, <1>2, IsASeq

\* The reply that makes calls of these shapes.
SaidBy(shapes) == [role |-> "assistant",
                   calls |-> [i \in DOMAIN shapes |-> issued + i]]

\* A reply numbers its calls on from the calls before.
LEMMA ReplyTypes ==
  ASSUME issued \in Nat, NEW shapes \in BoundedSeq(Shapes, MaxCalls)
  PROVE  /\ Len(shapes) \in 0..MaxCalls /\ DOMAIN shapes = 1..Len(shapes)
         /\ SaidBy(shapes) \in Message
         /\ ActionOf(shapes) \in Seq(Act)
         /\ Len(ActionOf(shapes)) = Len(shapes)
         /\ Len(SaidBy(shapes).calls) = Len(shapes)
         /\ \A i \in 1..Len(shapes) : SaidBy(shapes).calls[i] = issued + i
<1>1. PICK m \in 0..MaxCalls : shapes \in [1..m -> Shapes]
  BY ToolCallingAssumption DEF BoundedSeq, SeqOf
<1>2. shapes \in Seq(Shapes) /\ Len(shapes) = m
  BY <1>1, IsASeq, ToolCallingAssumption
<1>3. \A i \in 1..m :
        shapes[i] \in [name : Names, valid : BOOLEAN, known : BOOLEAN]
  BY <1>1 DEF Shapes
<1>4. [i \in 1..m |-> issued + i] \in Seq(Nat)
        /\ Len([i \in 1..m |-> issued + i]) = m
  BY ToolCallingAssumption, IsASeq
<1>5. \A i \in 1..m : [name |-> shapes[i].name, valid |-> shapes[i].valid,
                       known |-> shapes[i].known, call |-> issued + i] \in Act
  BY <1>3 DEF Act
<1>6. ActionOf(shapes) \in Seq(Act) /\ Len(ActionOf(shapes)) = m
  BY <1>1, <1>5, IsASeq, ToolCallingAssumption DEF ActionOf
<1> QED BY <1>1, <1>2, <1>4, <1>6, ToolCallingAssumption DEF SaidBy, Message

\* A plain reply makes no call.
LEMMA PlainTypes ==
  /\ [role |-> "assistant", calls |-> <<>>] \in Message
  /\ <<MessageAction>> \in Seq(Act)
BY DEF Message, MessageAction, Act, Names

\* Going through the answered calls meets each of them once.
LEMMA OrderTypes ==
  ASSUME action \in Seq(Act), NEW given \in SUBSET DOMAIN action,
         NEW order \in InOrder(given)
  PROVE  /\ order \in Seq(given)
         /\ \A i, j \in DOMAIN order : order[i] = order[j] => i = j
<1>1. Cardinality(given) \in Nat
  <2>1. given \subseteq 1..Len(action) /\ Len(action) \in Nat
    OBVIOUS
  <2>2. IsFiniteSet(1..Len(action))
    BY <2>1, FS_Interval
  <2>3. IsFiniteSet(given)
    BY <2>1, <2>2, FS_Subset
  <2> QED BY <2>3, FS_CardinalityType
<1>2. order \in [1..Cardinality(given) -> given]
  BY DEF InOrder
<1>3. \A i, j \in DOMAIN order : i < j => order[i] < order[j]
  BY DEF InOrder
<1>4. given \subseteq Nat
  OBVIOUS
<1>5. ASSUME NEW i \in DOMAIN order, NEW j \in DOMAIN order,
             order[i] = order[j]
      PROVE  i = j
  <2>1. order[i] \in Nat /\ order[j] \in Nat /\ i \in Nat /\ j \in Nat
    BY <1>1, <1>2, <1>4
  <2> QED BY <1>3, <1>5, <2>1
<1> QED BY <1>1, <1>2, <1>5, IsASeq

\* Where the messages for the observations come to stand.
LEMMA SentAt ==
  ASSUME messages \in Seq(Message), observation \in Seq(Obs)
  PROVE  /\ messages \o Sent \in Seq(Message)
         /\ Len(messages \o Sent) = Len(messages) + Len(observation)
         /\ \A i \in 1..Len(messages) : (messages \o Sent)[i] = messages[i]
         /\ \A i \in 1..Len(observation) :
              (messages \o Sent)[Len(messages) + i] = MessageOf(observation[i])
<1>1. Sent \in Seq(Message) /\ Len(Sent) = Len(observation)
  BY SentTypes
<1>2. \A i \in 1..Len(observation) : Sent[i] = MessageOf(observation[i])
  BY DEF Sent
<1>3. /\ messages \o Sent \in Seq(Message)
      /\ Len(messages \o Sent) = Len(messages) + Len(Sent)
      /\ \A i \in 1 .. Len(messages) + Len(Sent) : (messages \o Sent)[i] =
           IF i <= Len(messages) THEN messages[i] ELSE Sent[i - Len(messages)]
  BY <1>1, ConcatProperties
<1>4. Len(messages) \in Nat /\ Len(observation) \in Nat
  OBVIOUS
<1>5. \A i \in 1..Len(messages) : (messages \o Sent)[i] = messages[i]
  BY <1>1, <1>3, <1>4
<1>6. ASSUME NEW i \in 1..Len(observation)
      PROVE  (messages \o Sent)[Len(messages) + i] = MessageOf(observation[i])
  <2>1. (messages \o Sent)[Len(messages) + i] = Sent[i]
    BY <1>1, <1>3, <1>4
  <2> QED BY <1>2, <2>1
<1> QED BY <1>1, <1>3, <1>5, <1>6

\* The conversation was added to.
Prolonged ==
  /\ messages' \in Seq(Message) /\ Len(messages) <= Len(messages')
  /\ \A i \in 1..Len(messages) : messages'[i] = messages[i]

\* What is added does not disturb an answered call it does not answer.
LEMMA StillAnswered ==
  ASSUME messages \in Seq(Message), Prolonged, NEW id, AnsweredOnce(id),
         \A j \in 1..Len(messages') : j > Len(messages) => ~Answers(j, id)'
  PROVE  AnsweredOnce(id)'
<1>1. PICK i \in DOMAIN messages :
        /\ Answers(i, id)
        /\ \A j \in DOMAIN messages : Answers(j, id) => j = i
        /\ \E k \in 1..(i - 1) :
             /\ Made(k, id)
             /\ \A j \in (k + 1)..(i - 1) : messages[j].role # "assistant"
  BY DEF AnsweredOnce
<1>2. PICK k \in 1..(i - 1) :
        /\ Made(k, id)
        /\ \A j \in (k + 1)..(i - 1) : messages[j].role # "assistant"
  BY <1>1
<1>3. /\ DOMAIN messages = 1..Len(messages)
      /\ DOMAIN messages' = 1..Len(messages')
      /\ Len(messages) \in Nat /\ Len(messages') \in Nat
      /\ Len(messages) <= Len(messages')
      /\ \A j \in 1..Len(messages) : messages'[j] = messages[j]
  BY DEF Prolonged
<1>4. i \in DOMAIN messages' /\ Answers(i, id)'
  BY <1>1, <1>3 DEF Answers
<1>5. \A j \in DOMAIN messages' : Answers(j, id)' => j = i
  <2>1. \A j \in 1..Len(messages) : Answers(j, id)' => Answers(j, id)
    BY <1>3 DEF Answers
  <2>2. \A j \in 1..Len(messages') : j \in 1..Len(messages)
          \/ j > Len(messages)
    BY <1>3
  <2> QED BY <1>1, <1>3, <2>1, <2>2
<1>6. Made(k, id)'
      /\ \A j \in (k + 1)..(i - 1) : messages'[j].role # "assistant"
  <2>1. k \in 1..Len(messages) /\ (k + 1)..(i - 1) \subseteq 1..Len(messages)
    BY <1>3
  <2> QED BY <1>2, <1>3, <2>1 DEF Made
<1> QED BY <1>4, <1>5, <1>6 DEF AnsweredOnce

\* A message that is said is the last one.
LEMMA SaidAt ==
  ASSUME messages \in Seq(Message), NEW message \in Message, Say(message)
  PROVE  /\ Prolonged /\ messages' # <<>>
         /\ Len(messages') = Len(messages) + 1
         /\ messages'[Len(messages')] = message
         /\ \A j \in 1..Len(messages') : j > Len(messages)
              => messages'[j] = message
<1>1. messages' = Append(messages, message)
  BY DEF Say
<1>2. /\ messages' \in Seq(Message) /\ Len(messages') = Len(messages) + 1
      /\ \A i \in 1..Len(messages) : messages'[i] = messages[i]
      /\ messages'[Len(messages) + 1] = message
  BY <1>1, AppendProperties
<1>3. Len(messages) \in Nat
  OBVIOUS
<1>4. \A j \in 1..Len(messages') : j > Len(messages) => j = Len(messages) + 1
  BY <1>2, <1>3
<1> QED BY <1>2, <1>3, <1>4 DEF Prolonged

\* What the environment returns are answers to different calls of the action.
LEMMA SessionAnswers ==
  ASSUME ChatFields, StepSession
  PROVE  \E given \in SUBSET DOMAIN action :
           \E order \in Seq(given) :
             /\ \A i, j \in DOMAIN order : order[i] = order[j] => i = j
             /\ DOMAIN observation' = DOMAIN order
             /\ observation' \in Seq(Obs)
             /\ \A i \in DOMAIN order :
                  /\ observation'[i].name = action[order[i]].name
                  /\ observation'[i].call = action[order[i]].call
<1> USE DEF ChatFields
<1>1. PICK answers \in [DOMAIN action -> Kinds \cup {"none"}] :
        \E order \in InOrder({i \in DOMAIN action : answers[i] # "none"}) :
          observation' = [i \in DOMAIN order |->
                            Observation(action[order[i]], answers[order[i]])]
  BY DEF StepSession
<1> DEFINE given == {i \in DOMAIN action : answers[i] # "none"}
<1>2. PICK order \in InOrder(given) :
        observation' = [i \in DOMAIN order |->
                          Observation(action[order[i]], answers[order[i]])]
  BY <1>1
<1>3. given \in SUBSET DOMAIN action
  OBVIOUS
<1>4. /\ order \in Seq(given)
      /\ \A i, j \in DOMAIN order : order[i] = order[j] => i = j
  BY <1>2, <1>3, OrderTypes
<1>5. \A i \in DOMAIN order : /\ action[order[i]] \in Act
                              /\ answers[order[i]] \in Kinds
  <2>1. \A i \in DOMAIN order : order[i] \in given
    BY <1>4
  <2>2. \A i \in given : action[i] \in Act /\ answers[i] \in Kinds
    OBVIOUS
  <2> HIDE DEF given
  <2> QED BY <2>1, <2>2
<1>6. \A i \in DOMAIN order :
        Observation(action[order[i]], answers[order[i]]) \in Obs
  BY <1>5 DEF Observation, Act, Obs
<1>7. DOMAIN order = 1..Len(order) /\ Len(order) \in Nat
  BY <1>4
<1>8. observation' \in Seq(Obs)
  BY <1>2, <1>6, <1>7, IsASeq
<1>9. \A i \in DOMAIN order :
        /\ observation'[i].name = action[order[i]].name
        /\ observation'[i].call = action[order[i]].call
  BY <1>2 DEF Observation
<1>10. DOMAIN observation' = DOMAIN order
  BY <1>2
<1> HIDE DEF given
<1> QED BY <1>3, <1>4, <1>8, <1>9, <1>10

\* Observations add to the conversation only when the agent goes on.
LEMMA Observes ==
  ASSUME ChatFields, Observe, messages' # messages
  PROVE  turn' \in {"shortlisting", "completing"}
         /\ messages' = messages \o Sent
BY DEF Observe, Ask, Sent

\* Every step keeps the types of the conversation.
LEMMA ChatFieldsStep == ChatInv /\ (CheckModel \/ Converse) => ChatFields'
<1> SUFFICES ASSUME ChatInv, CheckModel \/ Converse PROVE ChatFields'
  OBVIOUS
<1> USE ToolCallingAssumption DEF ChatInv, ChatFields, Turns
<1>1. CASE Probe
  BY <1>1 DEF Probe, Retried
<1>2. CASE Checked
  BY <1>2 DEF Checked
<1>3. CASE Observe
  <2>1. messages' \in Seq(Message)
    <3>1. CASE messages' = messages
      BY <3>1
    <3>2. CASE messages' # messages
      <4>1. messages' = messages \o Sent
        BY <1>3, <3>2, Observes
      <4>2. Sent \in Seq(Message)
        BY SentTypes
      <4> QED BY <4>1, <4>2, ConcatProperties
    <3> QED BY <3>1, <3>2
  <2>2. turn' \in Turns /\ attempt' \in 0..NumRetries /\ stepCount' \in Nat
    BY <1>3 DEF Observe, Ask
  <2>3. observation' \in Seq(Obs)
    BY <1>3 DEF Observe
  <2> QED BY <1>3, <2>1, <2>2, <2>3 DEF Observe
<1>4. CASE CompletionFails
  BY <1>4 DEF CompletionFails, Retried
<1>5. CASE Shortlist
  BY <1>5 DEF Shortlist
<1>6. CASE CallTools
  <2>1. PICK shapes \in BoundedSeq(Shapes, MaxCalls) :
          /\ issued' = issued + Len(shapes)
          /\ messages' = Append(messages, SaidBy(shapes))
          /\ action' = ActionOf(shapes)
          /\ turn' = IF shapes = <<>> THEN "done" ELSE "acting"
    BY <1>6 DEF CallTools, Say, SaidBy
  <2>2. /\ Len(shapes) \in 0..MaxCalls /\ SaidBy(shapes) \in Message
        /\ ActionOf(shapes) \in Seq(Act)
    BY ReplyTypes
  <2>3. messages' \in Seq(Message)
    BY <2>1, <2>2, AppendProperties
  <2> QED BY <1>6, <2>1, <2>2, <2>3 DEF CallTools
<1>7. CASE Reply
  <2>1. messages' \in Seq(Message)
    BY <1>7, PlainTypes, AppendProperties DEF Reply, Say
  <2> QED BY <1>7, <2>1, PlainTypes DEF Reply
<1>8. CASE NoPrice
  BY <1>8 DEF NoPrice
<1>9. CASE StepSession
  <2>1. observation' \in Seq(Obs)
    BY <1>9, SessionAnswers
  <2>2. turn' \in Turns /\ action' \in Seq(Act)
    BY <1>9 DEF StepSession
  <2> QED BY <1>9, <2>1, <2>2 DEF StepSession
<1> QED BY <1>1, <1>2, <1>3, <1>4, <1>5, <1>6, <1>7, <1>8, <1>9
        DEF CheckModel, Converse

\* Every step keeps the bounds.
LEMMA ChatBoundsStep == ChatInv /\ (CheckModel \/ Converse) => ChatBounds'
<1> SUFFICES ASSUME ChatInv, CheckModel \/ Converse PROVE ChatBounds'
  OBVIOUS
<1> USE ToolCallingAssumption DEF ChatInv, ChatFields, Turns, ChatBounds
<1>1. CASE Probe
  BY <1>1 DEF Probe
<1>2. CASE Checked
  BY <1>2 DEF Checked
<1>3. CASE Observe
  <2>1. /\ stepCount' = stepCount + 1 /\ issued' = issued
        /\ turn = "observing"
        /\ stepCount >= MaxSteps => turn' = "done"
        /\ turn' \in {"done", "failed", "shortlisting", "completing"}
    BY <1>3 DEF Observe, Ask
  <2>2. issued <= stepCount * MaxCalls
    BY <2>1
  <2>3. (stepCount' - 1) * MaxCalls = stepCount * MaxCalls
    BY <2>1
  <2> QED BY <2>1, <2>2, <2>3
<1>4. CASE CompletionFails
  BY <1>4 DEF CompletionFails, Retried
<1>5. CASE Shortlist
  BY <1>5 DEF Shortlist
<1>6. CASE CallTools
  <2>1. PICK shapes \in BoundedSeq(Shapes, MaxCalls) :
          /\ issued' = issued + Len(shapes)
          /\ turn' = IF shapes = <<>> THEN "done" ELSE "acting"
    BY <1>6 DEF CallTools
  <2>2. Len(shapes) \in 0..MaxCalls
    BY ReplyTypes
  <2>3. /\ issued <= (stepCount - 1) * MaxCalls /\ stepCount # 0
        /\ stepCount <= MaxSteps /\ stepCount' = stepCount
    BY <1>6 DEF CallTools
  <2>4. (stepCount - 1) * MaxCalls \in Nat /\ stepCount * MaxCalls \in Nat
        /\ MaxSteps * MaxCalls \in Nat
    BY <2>3
  <2>5. (stepCount - 1) * MaxCalls + MaxCalls = stepCount * MaxCalls
    BY <2>3, Times
  <2>6. stepCount * MaxCalls <= MaxSteps * MaxCalls
    BY <2>3, TimesMonotone
  <2>7. issued' <= stepCount * MaxCalls
    BY <2>1, <2>2, <2>3, <2>4, <2>5
  <2>8. issued' \in Nat
    BY <2>1, <2>2
  <2>9. issued' <= MaxSteps * MaxCalls
    BY <2>4, <2>6, <2>7, <2>8, SMTT(30)
  <2> QED BY <2>1, <2>3, <2>7, <2>9
<1>7. CASE Reply
  <2>1. /\ issued <= (stepCount - 1) * MaxCalls /\ stepCount # 0
        /\ stepCount <= MaxSteps /\ stepCount' = stepCount /\ issued' = issued
        /\ turn' = "acting"
    BY <1>7 DEF Reply
  <2>2. (stepCount - 1) * MaxCalls \in Nat /\ stepCount * MaxCalls \in Nat
    BY <2>1
  <2>3. (stepCount - 1) * MaxCalls + MaxCalls = stepCount * MaxCalls
    BY <2>1, Times
  <2>4. issued' <= stepCount' * MaxCalls
    BY <2>1, <2>2, <2>3
  <2> QED BY <2>1, <2>4
<1>8. CASE NoPrice
  BY <1>8 DEF NoPrice
<1>9. CASE StepSession
  BY <1>9 DEF StepSession
<1> QED BY <1>1, <1>2, <1>3, <1>4, <1>5, <1>6, <1>7, <1>8, <1>9
        DEF CheckModel, Converse

\* Every step keeps to the calls that were made.
LEMMA ChatNumbersStep == ChatInv /\ (CheckModel \/ Converse) => ChatNumbers'
<1> SUFFICES ASSUME ChatInv, CheckModel \/ Converse PROVE ChatNumbers'
  OBVIOUS
<1> USE ToolCallingAssumption DEF ChatInv, ChatFields
<1>1. ASSUME messages' = messages, issued' = issued, observed' = observed
      PROVE  ChatNumbers'
  BY <1>1 DEF ChatNumbers
<1>2. CASE Probe \/ Checked \/ CompletionFails \/ Shortlist \/ NoPrice
  BY <1>1, <1>2 DEF Probe, Checked, CompletionFails, Shortlist, NoPrice
<1>3. CASE Observe
  <2>1. CASE messages' = messages
    BY <1>1, <1>3, <2>1 DEF Observe
  <2>2. CASE messages' # messages
    <3>1. messages' = messages \o Sent
      BY <1>3, <2>2, Observes
    <3>2. issued' = issued /\ observed' = observed /\ turn = "observing"
      BY <1>3 DEF Observe
    <3>3. ASSUME NEW i \in 1..Len(messages'),
                 NEW j \in DOMAIN messages'[i].calls
          PROVE  messages'[i].calls[j] \in 1..issued
      <4>1. CASE i \in 1..Len(messages)
        BY <3>1, <3>3, <4>1, SentAt DEF ChatNumbers
      <4>2. CASE i \notin 1..Len(messages)
        <5> DEFINE k == i - Len(messages)
        <5>1. k \in 1..Len(observation) /\ i = Len(messages) + k
          <6>1. Len(messages') = Len(messages) + Len(observation)
            BY <3>1, SentAt
          <6> QED BY <4>2, <6>1
        <5> HIDE DEF k
        <5>2. messages'[i] = MessageOf(observation[k])
          BY <3>1, <5>1, SentAt
        <5>3. IsToolResult(observation[k]) => observation[k].call \in 1..issued
          <6>1. k \in DOMAIN observation
            BY <5>1
          <6>2. IsToolResult(observation[k])
                  => observation[k].call \in observed
            BY <3>2, <6>1 DEF ChatObserved
          <6> QED BY <6>2 DEF ChatNumbers
        <5> QED BY <3>3, <5>2, <5>3 DEF MessageOf, User
      <4> QED BY <4>1, <4>2
    <3>4. DOMAIN messages' = 1..Len(messages')
      BY <3>1, SentAt
    <3> QED BY <3>2, <3>3, <3>4 DEF ChatNumbers
  <2> QED BY <2>1, <2>2
<1>6. CASE CallTools
  <2>1. PICK shapes \in BoundedSeq(Shapes, MaxCalls) :
          issued' = issued + Len(shapes) /\ Say(SaidBy(shapes))
    BY <1>6 DEF CallTools, SaidBy
  <2>2. /\ Len(shapes) \in 0..MaxCalls /\ SaidBy(shapes) \in Message
        /\ DOMAIN SaidBy(shapes).calls = 1..Len(shapes)
        /\ \A i \in 1..Len(shapes) : SaidBy(shapes).calls[i] = issued + i
    <3>1. DOMAIN shapes = 1..Len(shapes)
      BY ReplyTypes
    <3> QED BY <3>1, ReplyTypes DEF SaidBy
  <2>3. Prolonged /\ \A j \in 1..Len(messages') :
                       j > Len(messages) => messages'[j] = SaidBy(shapes)
    BY <2>1, <2>2, SaidAt
  <2>4. observed' = observed
    BY <1>6 DEF CallTools
  <2>5. ASSUME NEW i \in 1..Len(messages'), NEW j \in DOMAIN messages'[i].calls
        PROVE  messages'[i].calls[j] \in 1..issued'
    <3>1. CASE i \in 1..Len(messages)
      <4>1. messages'[i].calls[j] \in 1..issued
        BY <2>3, <2>5, <3>1 DEF Prolonged, ChatNumbers
      <4> QED BY <2>1, <2>2, <4>1
    <3>2. CASE i \notin 1..Len(messages)
      <4>1. messages'[i] = SaidBy(shapes)
        BY <2>3, <3>2
      <4>2. j \in 1..Len(shapes) /\ messages'[i].calls[j] = issued + j
        BY <2>2, <2>5, <4>1
      <4> QED BY <2>1, <2>2, <4>2
    <3> QED BY <3>1, <3>2
  <2>6. DOMAIN messages' = 1..Len(messages')
    BY <2>3 DEF Prolonged
  <2>7. observed' \subseteq 1..issued'
    BY <2>1, <2>2, <2>4 DEF ChatNumbers
  <2> QED BY <2>5, <2>6, <2>7 DEF ChatNumbers
<1>7. CASE Reply
  <2>1. Say([role |-> "assistant", calls |-> <<>>]) /\ issued' = issued
        /\ observed' = observed
    BY <1>7 DEF Reply
  <2>2. Prolonged /\ \A j \in 1..Len(messages') : j > Len(messages) =>
                       messages'[j] = [role |-> "assistant", calls |-> <<>>]
    BY <2>1, PlainTypes, SaidAt
  <2>3. ASSUME NEW i \in 1..Len(messages'), NEW j \in DOMAIN messages'[i].calls
        PROVE  messages'[i].calls[j] \in 1..issued
    <3>1. CASE i \in 1..Len(messages)
      BY <2>2, <2>3, <3>1 DEF Prolonged, ChatNumbers
    <3>2. CASE i \notin 1..Len(messages)
      BY <2>2, <2>3, <3>2
    <3> QED BY <3>1, <3>2
  <2>4. DOMAIN messages' = 1..Len(messages')
    BY <2>2 DEF Prolonged
  <2> QED BY <2>1, <2>3, <2>4 DEF ChatNumbers
<1>9. CASE StepSession
  <2>1. PICK given \in SUBSET DOMAIN action :
          \E order \in Seq(given) :
             /\ DOMAIN observation' = DOMAIN order
             /\ \A i \in DOMAIN order :
                  /\ observation'[i].name = action[order[i]].name
                  /\ observation'[i].call = action[order[i]].call
    BY <1>9, SessionAnswers
  <2>2. PICK order \in Seq(given) :
             /\ DOMAIN observation' = DOMAIN order
             /\ \A i \in DOMAIN order :
                  /\ observation'[i].name = action[order[i]].name
                  /\ observation'[i].call = action[order[i]].call
    BY <2>1
  <2>3. ASSUME NEW i \in DOMAIN observation', IsToolResult(observation'[i])
        PROVE  observation'[i].call \in 1..issued
    <3>1. order[i] \in DOMAIN action
      BY <2>2
    <3>2. Fresh(order[i])
      BY <2>2, <2>3 DEF Fresh, IsToolResult
    <3>3. action[order[i]].call \in 1..issued
      BY <1>9, <3>1, <3>2 DEF ChatActing, StepSession
    <3> QED BY <2>2, <3>3
  <2>4. observed' \subseteq 1..issued
    BY <1>9, <2>3 DEF StepSession, ChatNumbers
  <2> QED BY <1>9, <2>4 DEF StepSession, ChatNumbers
<1> QED BY <1>2, <1>3, <1>6, <1>7, <1>9 DEF CheckModel, Converse

\* Every step keeps the action that of the last reply.
LEMMA ChatActingStep == ChatInv /\ (CheckModel \/ Converse) => ChatActing'
<1> SUFFICES ASSUME ChatInv, CheckModel \/ Converse, turn' = "acting"
             PROVE  ChatActing'
  BY DEF ChatActing
<1> USE ToolCallingAssumption DEF ChatInv, ChatFields
<1>1. CASE CallTools
  <2>1. PICK shapes \in BoundedSeq(Shapes, MaxCalls) :
          /\ issued' = issued + Len(shapes)
          /\ Say(SaidBy(shapes))
          /\ action' = ActionOf(shapes)
    BY <1>1 DEF CallTools, SaidBy
  <2>2. /\ Len(shapes) \in 0..MaxCalls /\ DOMAIN shapes = 1..Len(shapes)
        /\ SaidBy(shapes) \in Message
        /\ Len(SaidBy(shapes).calls) = Len(shapes)
        /\ \A i \in 1..Len(shapes) : SaidBy(shapes).calls[i] = issued + i
    BY ReplyTypes
  <2>3. /\ messages' # <<>> /\ messages'[Len(messages')] = SaidBy(shapes)
    BY <2>1, <2>2, SaidAt
  <2>4. /\ DOMAIN action' = 1..Len(shapes)
        /\ \A i \in DOMAIN action' : action'[i].call = issued + i
    BY <2>1, <2>2 DEF ActionOf
  <2>5. observed' = observed /\ observed \subseteq 1..issued
    BY <1>1 DEF CallTools, ChatNumbers
  <2>6. ASSUME NEW i \in DOMAIN action'
        PROVE  /\ LastMade(action[i].call)'
               /\ action'[i].call \in (1..issued') \ observed'
               /\ \A j \in DOMAIN action' :
                    action'[j].call = action'[i].call => j = i
    <3>1. Contains(SaidBy(shapes).calls, issued + i)
      BY <2>2, <2>4 DEF Contains
    <3>2. LastMade(action[i].call)'
      BY <2>3, <2>4, <3>1 DEF LastMade, Made, SaidBy
    <3> QED BY <2>1, <2>2, <2>4, <2>5, <3>2
  <2> QED BY <2>6 DEF ChatActing
<1>2. CASE Reply
  BY <1>2 DEF Reply, ChatActing, Fresh, MessageAction
<1>3. CASE Probe
  BY <1>3 DEF Probe, ChatActing, Fresh, LastMade, Made
<1>4. CASE Checked \/ Observe \/ CompletionFails \/ Shortlist \/ NoPrice
           \/ StepSession
  BY <1>4
    DEF Checked, Observe, Ask, CompletionFails, Shortlist, NoPrice, StepSession
<1> QED BY <1>1, <1>2, <1>3, <1>4 DEF CheckModel, Converse

\* Every step keeps the observations those of the last reply.
LEMMA ChatObservedStep == ChatInv /\ (CheckModel \/ Converse) => ChatObserved'
<1> SUFFICES ASSUME ChatInv, CheckModel \/ Converse PROVE ChatObserved'
  OBVIOUS
<1> USE DEF ChatInv, ChatFields, Turns
<1>1. CASE Probe \/ CompletionFails \/ Shortlist \/ NoPrice
  BY <1>1
    DEF Probe, CompletionFails, Shortlist, NoPrice, ChatObserved, LastMade,
      Made, IsToolResult
<1>2. CASE Checked
  BY <1>2 DEF Checked, ChatObserved, IsToolResult
<1>3. CASE Observe
  BY <1>3 DEF Observe, Ask, ChatObserved
<1>4. CASE CallTools \/ Reply
  BY <1>4 DEF CallTools, Reply, ChatObserved
<1>5. CASE StepSession
  <2>1. PICK given \in SUBSET DOMAIN action :
          \E order \in Seq(given) :
             /\ \A i, j \in DOMAIN order : order[i] = order[j] => i = j
             /\ DOMAIN observation' = DOMAIN order
             /\ \A i \in DOMAIN order :
                  /\ observation'[i].name = action[order[i]].name
                  /\ observation'[i].call = action[order[i]].call
    BY <1>5, SessionAnswers
  <2>2. PICK order \in Seq(given) :
             /\ \A i, j \in DOMAIN order : order[i] = order[j] => i = j
             /\ DOMAIN observation' = DOMAIN order
             /\ \A i \in DOMAIN order :
                  /\ observation'[i].name = action[order[i]].name
                  /\ observation'[i].call = action[order[i]].call
    BY <2>1
  <2>3. \A i \in DOMAIN observation' :
          /\ order[i] \in DOMAIN action
          /\ IsToolResult(observation'[i]) => Fresh(order[i])
    BY <2>2 DEF Fresh, IsToolResult
  <2>4. ASSUME NEW i \in DOMAIN observation', IsToolResult(observation'[i])
        PROVE  /\ LastMade(observation[i].call)'
               /\ observation'[i].call \in observed'
               /\ \A j \in DOMAIN observation' :
                    /\ IsToolResult(observation'[j])
                    /\ observation'[j].call = observation'[i].call
                    => j = i
    <3>1. LastMade(action[order[i]].call)
      BY <1>5, <2>3, <2>4 DEF StepSession, ChatActing
    <3>2. LastMade(observation[i].call)'
      BY <1>5, <2>2, <3>1 DEF StepSession, LastMade, Made
    <3>3. observation'[i].call \in observed'
      BY <1>5, <2>4 DEF StepSession
    <3>4. ASSUME NEW j \in DOMAIN observation', IsToolResult(observation'[j]),
                 observation'[j].call = observation'[i].call
          PROVE  j = i
      <4>1. action[order[j]].call = action[order[i]].call
        BY <2>2, <3>4
      <4>2. order[j] = order[i]
        BY <1>5, <2>3, <2>4, <3>4, <4>1 DEF StepSession, ChatActing
      <4> QED BY <2>2, <4>2
    <3> QED BY <3>2, <3>3, <3>4
  <2>5. turn' # "checking"
          /\ (turn' \notin {"observing", "done"} => observation' = <<>>)
    BY <1>5 DEF StepSession
  <2> QED BY <2>4, <2>5 DEF ChatObserved
<1> QED BY <1>1, <1>2, <1>3, <1>4, <1>5 DEF CheckModel, Converse

\* Without observations nothing is pending.
LEMMA NonePending == observation = <<>> => Pending = {}
BY DEF Pending

\* Every step keeps the calls answered.
LEMMA ChatAnswersStep == ChatInv /\ (CheckModel \/ Converse) => ChatAnswers'
<1> SUFFICES ASSUME ChatInv, CheckModel \/ Converse,
                    turn' \notin {"done", "failed"}
             PROVE  ChatAnswers'
  BY DEF ChatAnswers
<1> USE DEF ChatInv, ChatFields
<1>1. ASSUME messages' = messages, observed' \ Pending' = observed \ Pending,
             turn \notin {"done", "failed"}
      PROVE  ChatAnswers'
  <2>1. \A id \in observed \ Pending : AnsweredOnce(id)'
    BY <1>1 DEF ChatAnswers, AnsweredOnce, Answers, Made
  <2>2. \A i \in DOMAIN messages : messages[i].role = "tool" =>
          \E id \in observed \ Pending : Answers(i, id)'
    BY <1>1 DEF ChatAnswers, Answers
  <2> QED BY <1>1, <2>1, <2>2 DEF ChatAnswers
<1>2. ASSUME observation' = observation PROVE Pending' = Pending
  BY <1>2 DEF Pending, IsToolResult
<1>3. CASE Probe \/ Checked \/ CompletionFails \/ Shortlist \/ NoPrice
  BY <1>1, <1>2, <1>3 DEF Probe, Checked, CompletionFails, Shortlist, NoPrice
<1>4. ASSUME NEW message \in Message, message.role = "assistant", Say(message),
             observed' \ Pending' = observed \ Pending,
             turn \notin {"done", "failed"}
      PROVE  ChatAnswers'
  <2>1. /\ Prolonged
        /\ \A j \in 1..Len(messages') : j > Len(messages)
             => messages'[j] = message
    BY <1>4, SaidAt
  <2>2. ASSUME NEW id \in observed' \ Pending' PROVE AnsweredOnce(id)'
    <3>1. AnsweredOnce(id)
      BY <1>4 DEF ChatAnswers
    <3>2. \A j \in 1..Len(messages') : j > Len(messages) => ~Answers(j, id)'
      BY <1>4, <2>1 DEF Answers
    <3> QED BY <2>1, <3>1, <3>2, StillAnswered
  <2>3. ASSUME NEW i \in 1..Len(messages'), messages'[i].role = "tool"
        PROVE  \E id \in observed' \ Pending' : Answers(i, id)'
    <3>1. i \in 1..Len(messages) /\ messages'[i] = messages[i]
      BY <1>4, <2>1, <2>3 DEF Prolonged
    <3>2. PICK id \in observed \ Pending : Answers(i, id)
      BY <1>4, <2>3, <3>1 DEF ChatAnswers
    <3> QED BY <1>4, <3>1, <3>2 DEF Answers
  <2>4. DOMAIN messages' = 1..Len(messages')
    BY <2>1 DEF Prolonged
  <2> QED BY <2>2, <2>3, <2>4 DEF ChatAnswers
<1>5. CASE CallTools
  <2>1. PICK shapes \in BoundedSeq(Shapes, MaxCalls) : Say(SaidBy(shapes))
    BY <1>5 DEF CallTools, SaidBy
  <2>2. SaidBy(shapes) \in Message /\ SaidBy(shapes).role = "assistant"
    BY ReplyTypes DEF SaidBy
  <2> QED BY <1>2, <1>4, <1>5, <2>1, <2>2 DEF CallTools
<1>6. CASE Reply
  BY <1>2, <1>4, <1>6, PlainTypes DEF Reply
<1>7. CASE StepSession
  <2>1. turn = "acting" /\ messages' = messages /\ Pending = {}
    BY <1>7, NonePending DEF StepSession, ChatObserved
  <2>2. observed' = observed \cup Pending'
    BY <1>7 DEF StepSession, Pending
  <2>3. PICK given \in SUBSET DOMAIN action :
          \E order \in Seq(given) :
             /\ DOMAIN observation' = DOMAIN order
             /\ \A i \in DOMAIN order :
                  /\ observation'[i].name = action[order[i]].name
                  /\ observation'[i].call = action[order[i]].call
    BY <1>7, SessionAnswers
  <2>4. PICK order \in Seq(given) :
             /\ DOMAIN observation' = DOMAIN order
             /\ \A i \in DOMAIN order :
                  /\ observation'[i].name = action[order[i]].name
                  /\ observation'[i].call = action[order[i]].call
    BY <2>3
  <2>5. ASSUME NEW i \in DOMAIN observation', IsToolResult(observation'[i])
        PROVE  observation'[i].call \notin observed
    <3>1. order[i] \in DOMAIN action /\ Fresh(order[i])
      BY <2>4, <2>5 DEF Fresh, IsToolResult
    <3> QED BY <2>1, <2>4, <3>1 DEF ChatActing
  <2>6. Pending' \cap observed = {}
    BY <2>5 DEF Pending
  <2> QED BY <1>1, <2>1, <2>2, <2>6
<1>8. CASE Observe
  <2>1. /\ turn = "observing" /\ observed' = observed /\ observation' = <<>>
    BY <1>8 DEF Observe
  <2>2. Pending' = {}
    BY <2>1 DEF Pending
  <2>3. CASE Skipped(observation)
    <3>1. Pending = {}
      BY <2>3 DEF Skipped, Pending, IsToolResult
    <3>2. messages' = messages
      BY <1>8, <2>3 DEF Observe
    <3> QED BY <1>1, <2>1, <2>2, <3>1, <3>2
  <2>4. CASE ~Skipped(observation)
    <3>1. messages' = messages \o Sent
      BY <1>8, <2>4 DEF Observe, Ask, Sent
    <3>2. /\ messages' \in Seq(Message)
          /\ Len(messages') = Len(messages) + Len(observation)
          /\ \A i \in 1..Len(messages) : messages'[i] = messages[i]
          /\ \A i \in 1..Len(observation) :
               messages'[Len(messages) + i] = MessageOf(observation[i])
      BY <3>1, SentAt
    <3>3. Len(messages) \in Nat /\ Len(observation) \in Nat /\ Prolonged
      BY <3>2 DEF Prolonged
    <3>4. ASSUME NEW j \in 1..Len(messages'), j > Len(messages), NEW id,
                 Answers(j, id)'
          PROVE  \E p \in DOMAIN observation :
                   /\ j = Len(messages) + p /\ IsToolResult(observation[p])
                   /\ observation[p].call = id
      <4> DEFINE p == j - Len(messages)
      <4>1. p \in 1..Len(observation) /\ j = Len(messages) + p
        BY <3>2, <3>3, <3>4
      <4> HIDE DEF p
      <4>2. messages'[j] = MessageOf(observation[p])
        BY <3>2, <4>1
      <4>3. messages'[j].role = "tool" /\ messages'[j].calls = <<id>>
        BY <3>4 DEF Answers
      <4>4. IsToolResult(observation[p])
        BY <4>2, <4>3 DEF MessageOf, User
      <4>5. <<observation[p].call>> = <<id>>
        BY <4>2, <4>3, <4>4 DEF MessageOf
      <4> QED BY <4>1, <4>4, <4>5
    <3>5. ASSUME NEW id \in observed PROVE AnsweredOnce(id)'
      <4>1. CASE id \notin Pending
        <5>1. AnsweredOnce(id)
          BY <2>1, <4>1 DEF ChatAnswers
        <5>2. \A j \in 1..Len(messages') : j > Len(messages)
                => ~Answers(j, id)'
          BY <3>4, <4>1 DEF Pending
        <5> QED BY <3>3, <5>1, <5>2, StillAnswered
      <4>2. CASE id \in Pending
        <5>1. PICK p \in DOMAIN observation :
                IsToolResult(observation[p]) /\ observation[p].call = id
          BY <4>2 DEF Pending
        <5>2. p \in 1..Len(observation)
          OBVIOUS
        <5>3. PICK i \in 1..Len(messages') :
                i = Len(messages) + p
                  /\ messages'[i] = MessageOf(observation[p])
          <6>1. Len(messages) + p \in 1..Len(messages')
            BY <3>2, <3>3, <5>2
          <6> QED BY <3>2, <5>2, <6>1
        <5>4. Answers(i, id)'
          BY <5>1, <5>3 DEF Answers, MessageOf
        <5>5. ASSUME NEW j \in 1..Len(messages'), Answers(j, id)' PROVE j = i
          <6>1. CASE j \in 1..Len(messages)
            <7>1. messages[j].role = "tool" /\ messages[j].calls = <<id>>
              BY <3>2, <5>5, <6>1 DEF Answers
            <7>2. PICK other \in observed \ Pending : Answers(j, other)
              BY <2>1, <6>1, <7>1 DEF ChatAnswers
            <7>3. <<other>> = <<id>>
              BY <7>1, <7>2 DEF Answers
            <7> QED BY <4>2, <7>2, <7>3
          <6>2. CASE j \notin 1..Len(messages)
            <7>1. j > Len(messages)
              BY <3>3, <6>2
            <7>2. PICK q \in DOMAIN observation :
                    /\ j = Len(messages) + q /\ IsToolResult(observation[q])
                    /\ observation[q].call = id
              BY <3>4, <5>5, <7>1
            <7>3. q = p
              BY <2>1, <5>1, <7>2 DEF ChatObserved
            <7> QED BY <5>3, <7>2, <7>3
          <6> QED BY <6>1, <6>2
        <5>6. LastMade(id)
          BY <2>1, <5>1 DEF ChatObserved
        <5>7. PICK k \in 1..(i - 1) :
                k = Len(messages) /\ k \in 1..Len(messages)
          BY <3>3, <5>2, <5>3, <5>6 DEF LastMade
        <5>8. Made(k, id)'
          <6>1. Made(k, id)
            BY <5>6, <5>7 DEF LastMade
          <6> QED BY <3>2, <5>7, <6>1 DEF Made
        <5>9. ASSUME NEW j \in (k + 1)..(i - 1)
              PROVE  messages'[j].role # "assistant"
          <6> DEFINE q == j - Len(messages)
          <6>1. q \in 1..Len(observation) /\ j = Len(messages) + q
            BY <3>3, <5>2, <5>3, <5>7
          <6> HIDE DEF q
          <6>2. messages'[j] = MessageOf(observation[q])
            BY <3>2, <6>1
          <6> QED BY <6>2 DEF MessageOf, User
        <5>10. DOMAIN messages' = 1..Len(messages')
          BY <3>2
        <5> QED BY <5>3, <5>4, <5>5, <5>7, <5>8, <5>9, <5>10 DEF AnsweredOnce
      <4> QED BY <4>1, <4>2
    <3>6. ASSUME NEW i \in 1..Len(messages'), messages'[i].role = "tool"
          PROVE  \E id \in observed : Answers(i, id)'
      <4>1. CASE i \in 1..Len(messages)
        <5>1. PICK id \in observed \ Pending : Answers(i, id)
          BY <2>1, <3>2, <3>6, <4>1 DEF ChatAnswers
        <5> QED BY <3>2, <4>1, <5>1 DEF Answers
      <4>2. CASE i \notin 1..Len(messages)
        <5> DEFINE p == i - Len(messages)
        <5>1. p \in 1..Len(observation) /\ i = Len(messages) + p
          BY <3>2, <3>3, <4>2
        <5> HIDE DEF p
        <5>2. messages'[i] = MessageOf(observation[p])
          BY <3>2, <5>1
        <5>3. IsToolResult(observation[p])
          BY <3>6, <5>2 DEF MessageOf, User
        <5>4. observation[p].call \in observed
          BY <2>1, <5>1, <5>3 DEF ChatObserved
        <5> QED BY <5>2, <5>3, <5>4 DEF Answers, MessageOf
      <4> QED BY <4>1, <4>2
    <3>7. DOMAIN messages' = 1..Len(messages')
      BY <3>2
    <3> QED BY <2>1, <2>2, <3>5, <3>6, <3>7 DEF ChatAnswers
  <2> QED BY <2>3, <2>4
<1> QED BY <1>3, <1>5, <1>6, <1>7, <1>8 DEF CheckModel, Converse

-----------------------------------------------------------------------------
\* The services at first.
LEMMA ServicesStart == ServicesInit => ServicesInv
<1> SUFFICES ASSUME ServicesInit PROVE ServicesInv
  OBVIOUS
<1>1. PlacesOK /\ FlagsOK /\ ValuesOK
  BY DEF ServicesInit, PlacesOK, FlagsOK, ValuesOK, Threads, Closing, Running,
    Members
<1>2. KindInv /\ ServerInv /\ SocketInv /\ CliInv
  BY DEF ServicesInit, KindInv, ServerInv, SocketInv, CliInv, Threads, Members,
    Served, BeforeServer
<1>3. ProxyInv
  BY DEF ServicesInit, ProxyInv, Threads, Members, PastProxy, BeforeServer
<1> QED BY <1>1, <1>2, <1>3 DEF ServicesInv

\* A step of the conversation leaves the services alone.
LEMMA ServicesKept == ServicesInv /\ UNCHANGED services => ServicesInv'
<1> SUFFICES ASSUME ServicesInv, UNCHANGED services PROVE ServicesInv'
  OBVIOUS
<1> USE DEF ServicesInv, services
<1>1. PlacesOK' /\ FlagsOK' /\ ValuesOK'
  BY DEF PlacesOK, FlagsOK, ValuesOK
<1>2. KindInv' /\ ServerInv' /\ SocketInv' /\ CliInv'
  BY DEF KindInv, ServerInv, SocketInv, CliInv, Over
<1>3. ProxyInv'
  BY DEF ProxyInv
<1> QED BY <1>1, <1>2, <1>3

\* The conversation at first.
LEMMA ChatStart == ChatInit => ChatInv
<1> SUFFICES ASSUME ChatInit PROVE ChatInv
  OBVIOUS
<1> USE ToolCallingAssumption DEF ChatInit
<1>1. /\ observation \in Seq(Obs)
      /\ \A i \in DOMAIN observation : observation[i].name = "none"
  <2>1. CASE observation = <<>>
    BY <2>1
  <2>2. ASSUME NEW k \in Kinds, observation = <<Uninvoked(k)>>
        PROVE  /\ observation \in Seq(Obs)
               /\ \A i \in DOMAIN observation : observation[i].name = "none"
    BY <2>2 DEF Uninvoked, Obs
  <2> QED BY <2>1, <2>2
<1>2. messages \in Seq(Message) /\ messages = <<User>>
  BY UserIsMessage
<1>3. ChatFields
  BY <1>1, <1>2 DEF ChatFields, Turns
<1>4. ChatNumbers
  BY <1>2 DEF ChatNumbers, User
<1>5. ChatBounds
  BY DEF ChatBounds
<1>6. ChatAnswers
  BY <1>2 DEF ChatAnswers, User
<1>7. ChatObserved /\ ChatActing
  BY <1>1 DEF ChatObserved, ChatActing
<1> QED BY <1>3, <1>4, <1>5, <1>6, <1>7 DEF ChatInv

\* A step of the services leaves the conversation alone.
LEMMA ChatKept == ChatInv /\ UNCHANGED chat => ChatInv'
<1> SUFFICES ASSUME ChatInv, UNCHANGED chat PROVE ChatInv'
  OBVIOUS
<1> USE DEF ChatInv, chat
<1>1. ChatFields' /\ ChatNumbers' /\ ChatBounds'
  BY DEF ChatFields, ChatNumbers, ChatBounds
<1>2. ChatAnswers'
  BY DEF ChatAnswers, AnsweredOnce, Answers, Made, Pending, IsToolResult
<1>3. ChatObserved' /\ ChatActing'
  BY DEF ChatObserved, ChatActing, LastMade, Made, IsToolResult, Fresh
<1> QED BY <1>1, <1>2, <1>3

-----------------------------------------------------------------------------
\* The inductive invariant holds at first.
LEMMA InitInv == Init => ChatInv /\ ServicesInv
  BY ChatStart, ServicesStart DEF Init

\* Every step preserves the inductive invariant.
LEMMA StepInv ==
  ChatInv /\ ServicesInv /\ [Next]_vars => ChatInv' /\ ServicesInv'
<1> SUFFICES ASSUME ChatInv, ServicesInv, [Next]_vars
             PROVE  ChatInv' /\ ServicesInv'
  OBVIOUS
<1>1. CASE Health \/ Conversation
  <2>1. (CheckModel \/ Converse) /\ UNCHANGED services
    BY <1>1 DEF Health, Conversation
  <2>2. ChatInv'
    BY <2>1, ChatFieldsStep, ChatNumbersStep, ChatBoundsStep, ChatAnswersStep,
      ChatObservedStep, ChatActingStep DEF ChatInv
  <2> QED BY <2>1, <2>2, ServicesKept
<1>2. CASE Serving(ServicesNext)
  <2>1. ServicesNext /\ UNCHANGED chat
    BY <1>2 DEF Serving
  <2>2. ServicesInv'
    BY <2>1, PlacesStep, FlagsStep, ValuesStep, KindStep, ServerStep,
      SocketStep, CliStep, ProxyStep DEF ServicesInv
  <2> QED BY <2>1, <2>2, ChatKept
<1>3. CASE UNCHANGED vars
  BY <1>3, ChatKept, ServicesKept DEF vars
<1> QED BY <1>1, <1>2, <1>3 DEF Next

\* The invariants give the types.
LEMMA Types == ChatInv /\ ServicesInv => TypeOK
<1> SUFFICES ASSUME ChatInv, ServicesInv PROVE ChatTypeOK /\ ServicesTypeOK
  BY DEF TypeOK
<1>1. ChatTypeOK
  <2> USE ToolCallingAssumption DEF ChatInv
  <2>1. stepCount \in 0..(MaxSteps + 1) /\ issued \in 0..(MaxSteps * MaxCalls)
    BY DEF ChatFields, ChatBounds
  <2>2. \A i \in DOMAIN messages :
          messages[i].role \in {"user", "assistant", "tool"}
    <3>1. \A i \in DOMAIN messages : messages[i] \in Message
      BY DEF ChatFields
    <3> QED BY <3>1 DEF Message
  <2> QED BY <2>1, <2>2 DEF ChatTypeOK, ChatFields, ChatNumbers
<1>2. ServicesTypeOK
  BY DEF ServicesInv, PlacesOK, FlagsOK, ValuesOK, Members, ServicesTypeOK
<1> QED BY <1>1, <1>2

\* Every variable of Agents keeps its type, for any bounds.
THEOREM TypeCorrect == Spec => []TypeOK
  BY InitInv, StepInv, Types, PTL DEF Spec

\* For any number of steps, retries and calls of a reply, and whatever becomes
\* of the calls, the conversation the model is sent answers each call that got
\* an observation once, after the reply that made it and before the next one.
THEOREM ConversationIsSafe == Spec => []ConversationSafe
<1>1. ChatInv => CallsAnswered
  <2> SUFFICES ASSUME ChatInv, turn \in {"shortlisting", "completing"}
               PROVE  CallsAnswered
    BY DEF CallsAnswered
  <2>1. Pending = {}
    BY NonePending DEF ChatInv, ChatObserved
  <2> QED BY <2>1 DEF ChatInv, ChatAnswers, AnsweredOnce, CallsAnswered
<1> QED BY <1>1, InitInv, StepInv, Types, PTL DEF Spec, ConversationSafe

\* Whatever fails and whenever the session is closed, no process, socket or
\* server of an agent outlives its two threads, except a proxy that close()
\* met before it was started, and the server is up while a CLI or a coroutine
\* uses it.
THEOREM ServicesAreSafe == Spec => []ServicesSafe
<1>1. ServicesInv => NothingLeft
  <2> SUFFICES ASSUME ServicesInv, ServicesEnded
               PROVE  /\ proc["cli"] # "running" /\ sock # "bound" /\ ~server
                      /\ proc["proxy"] = "running" => early
    BY DEF NothingLeft
  <2> USE DEF ServicesInv, ServicesEnded, Over
  <2>1. proc["cli"] # "running"
    BY DEF CliInv
  <2>2. ~server
    BY DEF SocketInv, ProxyInv, PastProxy
  <2>3. sock # "bound"
    BY <2>2 DEF SocketInv
  <2>4. proc["proxy"] = "running" => early
    BY DEF ProxyInv, PastProxy
  <2> QED BY <2>1, <2>2, <2>3, <2>4
<1>2. ServicesInv => ServesWhileUsed
  <2> SUFFICES ASSUME ServicesInv,
                      proc["cli"] = "running" \/ at["agent"] = "await"
               PROVE  ServesWhileUsed
    BY DEF ServesWhileUsed
  <2>1. at["agent"] \in Served
    BY DEF ServicesInv, CliInv, Served
  <2>2. thread = "serving" /\ sock = "bound" /\ told = "no"
    BY <2>1 DEF ServicesInv, ServerInv
  <2>3. kind = "cli" => Reaches(cli, backend)
    BY DEF ServicesInv, KindInv, Clis, Reaches, Told, HostSeen, ClaudeServer,
      ClaudeProvider, CodexServer, CodexProvider, GeminiServer, GeminiProvider,
      Patched, Rewritten, Forwarded, Loopback, Gateway
  <2> QED BY <2>2, <2>3 DEF ServesWhileUsed
<1> QED BY <1>1, <1>2, InitInv, StepInv, PTL DEF Spec, ServicesSafe
=============================================================================
