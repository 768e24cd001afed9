------------------------------- MODULE Agents -------------------------------
(***************************************************************************)
(* The agents of the package, one of them per session: the conversation    *)
(* of the tool-calling agent (ToolCalling.tla), and the services of the    *)
(* CLI, OpenAI and smolagents agents (AgentServices.tla).  All but the     *)
(* OpenAI agent check the model when they are constructed, and are used    *)
(* only when that succeeds; the OpenAI agent does so in its coroutine.     *)
(***************************************************************************)
EXTENDS ToolCalling, AgentServices

vars == <<chat, services>>

Init ==
  /\ ChatInit /\ ServicesInit
  \* A conversation only the tool-calling agent has.
  /\ kind # "litellm" =>
       /\ observation = <<>>
       /\ policy = [validation |-> "warn", customUnknown |-> FALSE,
                    messaging |-> FALSE, shortlisting |-> FALSE]

Constructed == kind = "openai" \/ turn = "observing"

Health == kind # "openai" /\ CheckModel /\ UNCHANGED services
Conversation == kind = "litellm" /\ Converse /\ UNCHANGED services
Serving(A) == kind # "litellm" /\ Constructed /\ A /\ UNCHANGED chat

Next == Health \/ Conversation \/ Serving(ServicesNext)

\* Threads, loops and servers go on when they can; the model answers or
\* fails; a process, a coroutine and a smolagent end because their turns are
\* bounded; the session's thread closes the agent in the end.
Fairness ==
  /\ WF_vars(Health) /\ WF_vars(Conversation)
  /\ WF_vars(Serving(AgentThread)) /\ WF_vars(Serving(MainThread))
  /\ WF_vars(Serving(ServerSteps)) /\ WF_vars(Serving(AnswerTool))
  /\ WF_vars(Serving(CliExits)) /\ WF_vars(Serving(CoroutineEnds))
  /\ WF_vars(Serving(ContainerEnds))

Spec == Init /\ [][Next]_vars /\ Fairness

TypeOK == ChatTypeOK /\ ServicesTypeOK

\* What LiteLLMToolCallingAgentInstance sends the model is a conversation the
\* interface accepts: whatever calls the model makes and whatever becomes of
\* them, a call with an observation has one tool message, in its place.
ConversationSafe == TypeOK /\ CallsAnswered

\* The server, proxy and CLI processes of CLIAgentInstance and of the OpenAI
\* agent are there as long as they are used, and none of them outlives the two
\* threads of the session, wherever close() meets the start.
ServicesSafe == NothingLeft /\ ServesWhileUsed

\* Every session of an agent ends: the health check, the conversation
\* whatever the model answers, or both threads and all they started, at
\* whatever point the session is closed.
Ended ==
  /\ kind = "openai" \/ probe # "calling"
  /\ IF kind = "litellm" THEN turn \in {"done", "failed"}
     ELSE turn = "failed" \/ (ServicesEnded /\ NothingRuns)
AgentsEnd == <>[]Ended
=============================================================================
