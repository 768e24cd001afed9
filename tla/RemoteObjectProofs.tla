------------------------- MODULE RemoteObjectProofs -------------------------
(***************************************************************************)
(* Theorems about RemoteObject, for any number of callers and calls and    *)
(* every kind of runner: type correctness, and that an answer belongs to   *)
(* the call that receives it and close() reaches the object, with the      *)
(* exceptions AnswersSafe names.                                           *)
(***************************************************************************)
EXTENDS RemoteObject, TLAPS

\* The caller has a request in the queues or with the server.
Asking(c) == pc[c] \in {"sent", "waiting"}

\* The owner has not told the worker to end.
Before == {"open", "calling", "stopping", "raised"}

\* Nobody calls before the start is over; a new worker has been sent nothing.
StartInv ==
  /\ \A c \in Callers : pc[c] = "starting" => c = Owner
  /\ kind = "direct" => \A c \in Callers : pc[c] = "idle"
  /\ \A c \in Callers : pc[c] = "sent" => Queued
  /\ pc[Owner] = "starting" =>
       closing = "open" /\ \A c \in Callers \ {Owner} : pc[c] = "idle"
  /\ worker = "new" => /\ pc[Owner] = "starting" /\ ~taken
                       /\ reqs = <<>> /\ resps = <<>>

\* Only the close may be one call more than the bound.
CallInv ==
  \A c \in Callers : calls[c] <= MaxCalls \/ (c = Owner /\ closing # "open")

\* A container, or a service in this process, notices a port that is taken.
PortInv ==
  /\ kind = "docker" => ~taken
  /\ kind = "service" => worker # "booting" /\ (taken => worker = "dead")

\* While calls over the queues do not overlap, one caller at a time asks, its
\* request is queued or answered, and otherwise the queues are empty.
LoneInv ==
  Queued /\ ~blurred =>
    /\ \A c, d \in Callers : Asking(c) /\ Asking(d) => c = d
    /\ \A c \in Callers : Asking(c) =>
         /\ now[c] \in Requests
         /\ worker # "dead" =>
              closing = IF now[c].op = "close" THEN "calling" ELSE "open"
         /\ \/ resps = <<>> /\ (worker # "dead" => reqs = <<now[c]>>)
            \/ /\ worker # "dead" => reqs = <<>>
               /\ now[c].op = "close" => closeRan
               /\ \E out \in Outcomes : resps = <<[to |-> now[c], out |-> out]>>
    /\ (\A c \in Callers : ~Asking(c)) /\ worker = "up" /\ closing \in Before =>
         reqs = <<>> /\ resps = <<>>
    /\ closing \in Before => worker \in {"new", "up", "dead"}

\* Where the remote close has got to when the owner has given up, or stops the
\* worker.
CloseInv ==
  /\ kind = "direct" /\ closing \notin {"open", "killed", "replaced"} =>
       closeRan
  /\ Queued /\ ~blurred /\ worker # "dead"
       /\ closing \in {"stopping", "raised", "joining", "returned"} => closeRan
  /\ kind = "service" /\ worker # "dead"
       /\ closing \in {"stopping", "joining", "returned"} => closeRan

\* The inductive invariant, next to TypeOK.
IInv == StartInv /\ CallInv /\ PortInv /\ LoneInv /\ CloseInv /\ OwnAnswer

-----------------------------------------------------------------------------
\* What a proxy learns is one of the outcomes.
LEMMA HandledType == Handled \subseteq Outcomes
  BY DEF Handled, Rebuilt, Outcomes

\* A caller turns to the proxy: it is idle, and has a request of its own now.
BeginsEffect(c, op) ==
  /\ calls' \in [Callers -> 0..MaxCalls + 1]
  /\ now' \in [Callers -> Requests \cup {NoRequest}]
  /\ now'[c] \in Requests /\ now'[c].op = op /\ now'[c].by = c
  /\ \A d \in Callers \ {c} : now'[d] = now[d] /\ calls'[d] = calls[d]
  /\ calls'[c] <= MaxCalls \/ (op = "close" /\ c = Owner)
  /\ pc[c] = "idle" /\ pc[Owner] # "starting"
  /\ closing \notin {"nostart", "killed", "replaced"}
  /\ op = "close" => c = Owner /\ closing = "open"
  /\ c = Owner => closing = "open"

\* Begins has that effect.
LEMMA BeginsFacts ==
  ASSUME TypeOK, CallInv, NEW c \in Callers, NEW op \in Ops, Begins(c, op)
  PROVE  BeginsEffect(c, op)
<1> USE RemoteAssumption DEF BeginsEffect, TypeOK, CallInv, Begins
<1>1. calls[c] \in 0..MaxCalls + 1 /\ calls[c] <= MaxCalls
  OBVIOUS
<1>2. [by |-> c, n |-> calls[c] + 1, op |-> op] \in Requests
  BY <1>1 DEF Requests
<1>3. QED
  BY <1>1, <1>2

\* What a caller asks for is always an operation.
LEMMA NowOp == TypeOK => \A c \in Callers : now[c].op \in Ops
  BY RemoteAssumption DEF TypeOK, Requests, NoRequest, Ops

\* The two queues as sequences.
LEMMA QueueTypes ==
  ASSUME NEW S, NEW q \in Seq(S)
  PROVE  /\ \A e \in S : Append(q, e) \in Seq(S)
         /\ q # <<>> => Head(q) \in S /\ Tail(q) \in Seq(S)
  OBVIOUS

\* The request is put into the queue, or refused at once.
QueueEffect(c, op) ==
  /\ Queued /\ UNCHANGED <<kind, worker, taken, resps, serving, closeRan,
                           right>>
  /\ pc' \in [Callers -> {"starting", "idle", "sent", "waiting"}]
  /\ \A d \in Callers \ {c} : pc'[d] = pc[d]
  /\ \/ /\ worker = "up" /\ pc'[c] \in {"sent", "waiting"}
        /\ reqs' = Append(reqs, now'[c])
        /\ closing' = IF op = "close" THEN "calling" ELSE closing
        /\ blurred' = (blurred \/ closing # "open"
                        \/ \E d \in Callers \ {c} : pc[d] # "idle")
     \/ /\ worker # "up" \/ Severed
        /\ pc'[c] = "idle" /\ UNCHANGED <<reqs, blurred>>
        /\ closing' = IF op = "use" THEN closing ELSE "raised"

\* _rpc of the thread and of the process have that effect.
LEMMA QueueFacts ==
  ASSUME TypeOK, CallInv, NEW c \in Callers, NEW op \in Ops,
         ThreadRequest(c, op) \/ ProcessRequest(c, op)
  PROVE  QueueEffect(c, op)
<1> USE DEF QueueEffect
<1>1. Queued /\ UNCHANGED <<kind, worker, taken, resps, serving, closeRan,
                            right>>
  BY DEF ThreadRequest, ProcessRequest, Queued
<1>2. \/ /\ worker = "up"
         /\ \E next \in {"sent", "waiting"} : Put(c, op, next)
      \/ /\ worker # "up" \/ Severed
         /\ Ends(c, op, "error") /\ UNCHANGED <<reqs, blurred>>
  BY DEF ThreadRequest, ProcessRequest
<1>3. CASE worker = "up" /\ \E next \in {"sent", "waiting"} : Put(c, op, next)
  BY <1>1, <1>3 DEF Put, TypeOK
<1>4. CASE /\ worker # "up" \/ Severed
           /\ Ends(c, op, "error") /\ UNCHANGED <<reqs, blurred>>
  BY <1>1, <1>4 DEF Ends, AfterClose, TypeOK, Queued, Ops
<1>5. QED
  BY <1>2, <1>3, <1>4

\* The request is with a server, another object has answered it, or it failed.
HttpEffect(c, op) ==
  /\ Http /\ UNCHANGED <<kind, worker, taken, reqs, resps, closeRan, blurred>>
  /\ pc' \in [Callers -> {"starting", "idle", "sent", "waiting"}]
  /\ pc'[c] \in {"idle", "waiting"}
  /\ \A d \in Callers \ {c} : pc'[d] = pc[d]
  /\ serving' \subseteq Requests
  /\ right' = right \/ (taken /\ right' = FALSE)
  /\ op = "use" => closing' = closing
  /\ op = "close" => closing' \in {"calling", "stopping", "raised"}
  /\ op = "close" /\ ~taken /\ kind = "service" => closing' # "stopping"

\* A request over HTTP has that effect.
LEMMA HttpFacts ==
  ASSUME TypeOK, CallInv, NEW c \in Callers, NEW op \in Ops, HttpRequest(c, op)
  PROVE  HttpEffect(c, op)
<1> USE DEF HttpEffect
<1>1. Http /\ UNCHANGED <<kind, worker, taken, reqs, resps, closeRan, blurred>>
  BY DEF HttpRequest
<1>2. now'[c] \in Requests
  BY BeginsFacts DEF HttpRequest, BeginsEffect
<1>3. \/ Ends(c, op, "error") /\ UNCHANGED <<serving, right>>
      \/ /\ taken /\ right' = FALSE /\ UNCHANGED serving
         /\ \E out \in Handled : Ends(c, op, out)
      \/ /\ serving' = serving \cup {now'[c]} /\ UNCHANGED right
         /\ pc' = [pc EXCEPT ![c] = "waiting"]
         /\ closing' = IF op = "close" THEN "calling" ELSE closing
  BY DEF HttpRequest
<1>4. CASE Ends(c, op, "error") /\ UNCHANGED <<serving, right>>
  BY <1>1, <1>4 DEF Ends, AfterClose, AfterMadeClose, TypeOK, Ops
<1>5. CASE /\ taken /\ right' = FALSE /\ UNCHANGED serving
           /\ \E out \in Handled : Ends(c, op, out)
  BY <1>1, <1>5 DEF Ends, AfterClose, AfterMadeClose, TypeOK, Ops
<1>6. CASE /\ serving' = serving \cup {now'[c]} /\ UNCHANGED right
           /\ pc' = [pc EXCEPT ![c] = "waiting"]
           /\ closing' = IF op = "close" THEN "calling" ELSE closing
  BY <1>1, <1>2, <1>6 DEF TypeOK, Ops
<1>7. QED
  BY <1>3, <1>4, <1>5, <1>6

\* What a call that is over leaves behind: Recheck, Receive, GivesUp, Serve.
LEMMA AnswerFacts ==
  ASSUME TypeOK, NEW c \in Callers, NEW op \in Ops, NEW out, Ends(c, op, out)
  PROVE  /\ pc' \in [Callers -> {"starting", "idle", "sent", "waiting"}]
         /\ pc'[c] = "idle"
         /\ \A d \in Callers \ {c} : pc'[d] = pc[d]
         /\ op = "use" => closing' = closing
         /\ op = "close" => closing' \in {"stopping", "raised"}
         /\ op = "close" /\ out = "error" /\ kind \notin {"venv", "docker"} =>
              closing' = "raised"
  BY DEF TypeOK, Ends, AfterClose, AfterMadeClose, Ops

\* The second test of the process, after the put.
RecheckEffect(c) ==
  /\ UNCHANGED <<kind, worker, taken, reqs, resps, serving, now, calls,
                 closeRan, blurred, right>>
  /\ pc' \in [Callers -> {"starting", "idle", "sent", "waiting"}]
  /\ pc[c] = "sent"
  /\ \A d \in Callers \ {c} : pc'[d] = pc[d]
  /\ \/ pc'[c] = "waiting" /\ closing' = closing
     \/ /\ worker # "up" /\ pc'[c] = "idle"
        /\ closing' \in {closing, "stopping", "raised"}

\* Recheck has that effect.
LEMMA RecheckFacts ==
  ASSUME TypeOK, NEW c \in Callers, Recheck(c)
  PROVE  RecheckEffect(c)
<1> USE DEF RecheckEffect
<1>1. now[c].op \in Ops
  BY NowOp
<1>2. CASE worker = "up"
  BY <1>2 DEF Recheck, TypeOK
<1>3. CASE worker # "up"
  BY <1>1, <1>3, AnswerFacts DEF Recheck, Ops
<1>4. QED
  BY <1>2, <1>3

\* The oldest answer is taken.
ReceiveEffect(c) ==
  /\ Queued /\ pc[c] = "waiting" /\ resps # <<>>
  /\ UNCHANGED <<kind, worker, taken, reqs, serving, now, calls, closeRan,
                 blurred>>
  /\ resps' = Tail(resps) /\ right' = (right /\ Head(resps).to = now[c])
  /\ pc' \in [Callers -> {"starting", "idle", "sent", "waiting"}]
  /\ pc'[c] = "idle"
  /\ \A d \in Callers \ {c} : pc'[d] = pc[d]
  /\ now[c].op = "use" => closing' = closing
  /\ now[c].op = "close" => closing' \in {"stopping", "raised"}
  /\ now[c].op \in Ops

\* Receive has that effect.
LEMMA ReceiveFacts ==
  ASSUME TypeOK, NEW c \in Callers, Receive(c)
  PROVE  ReceiveEffect(c)
<1> USE DEF ReceiveEffect
<1>1. now[c].op \in Ops
  BY NowOp
<1>2. QED
  BY <1>1, AnswerFacts DEF Receive

\* A client of HTTP goes on with an error.
GivesUpEffect(c) ==
  /\ Http /\ pc[c] = "waiting"
  /\ UNCHANGED <<kind, worker, taken, reqs, resps, serving, now, calls,
                 closeRan, blurred, right>>
  /\ pc' \in [Callers -> {"starting", "idle", "sent", "waiting"}]
  /\ pc'[c] = "idle"
  /\ \A d \in Callers \ {c} : pc'[d] = pc[d]
  /\ closing' \in {closing, "stopping", "raised"}
  /\ kind = "service" => closing' \in {closing, "raised"}

\* GivesUp has that effect.
LEMMA GivesUpFacts ==
  ASSUME TypeOK, NEW c \in Callers, GivesUp(c)
  PROVE  GivesUpEffect(c)
<1> USE DEF GivesUpEffect
<1>1. now[c].op \in Ops
  BY NowOp
<1>2. QED
  BY <1>1, AnswerFacts DEF GivesUp, Ops

\* A request is handled by the server.
ServeEffect(r) ==
  /\ Http /\ worker = "up"
  /\ UNCHANGED <<kind, worker, taken, reqs, resps, now, calls, blurred, right>>
  /\ serving' \subseteq Requests
  /\ closeRan' = (closeRan \/ r.op = "close")
  /\ pc' \in [Callers -> {"starting", "idle", "sent", "waiting"}]
  /\ \A d \in Callers : pc'[d] = pc[d] \/ (pc[d] = "waiting" /\ pc'[d] = "idle")
  /\ \/ closing' = closing
     \/ /\ closing' \in {"stopping", "raised"} /\ closeRan'
        /\ \E d \in Callers : pc[d] = "waiting"

\* Serve has that effect.
LEMMA ServeFacts ==
  ASSUME TypeOK, NEW r \in serving, Serve(r)
  PROVE  ServeEffect(r)
<1> USE DEF ServeEffect
<1>1. r \in Requests /\ r.by \in Callers /\ r.op \in Ops
  BY DEF TypeOK, Requests
<1>2. CASE pc[r.by] = "waiting" /\ now[r.by] = r
  <2>1. PICK out \in Handled : Ends(r.by, r.op, out)
    BY <1>2 DEF Serve
  <2>2. QED
    BY <1>1, <1>2, <2>1, AnswerFacts DEF Serve, Ran, Ops, TypeOK
<1>3. CASE ~(pc[r.by] = "waiting" /\ now[r.by] = r)
  BY <1>3 DEF Serve, Ran, TypeOK
<1>4. QED
  BY <1>2, <1>3

\* A turn of the worker's loop.
WorkEffect ==
  /\ Queued /\ worker = "up" /\ reqs # <<>>
  /\ UNCHANGED <<kind, taken, serving, pc, now, calls, closing, blurred,
                 right>>
  /\ reqs' = Tail(reqs)
  /\ \/ Head(reqs) = SHUTDOWN /\ worker' = "over" /\ UNCHANGED <<resps,
                                                                 closeRan>>
     \/ /\ Head(reqs) \in Requests /\ UNCHANGED worker
        /\ closeRan' = (closeRan \/ Head(reqs).op = "close")
        /\ \E out \in Outcomes :
             resps' = Append(resps, [to |-> Head(reqs), out |-> out])

\* Work has that effect.
LEMMA WorkFacts ==
  ASSUME TypeOK, Work
  PROVE  WorkEffect
<1> USE DEF WorkEffect
<1>1. Head(reqs) \in Requests \cup {SHUTDOWN}
  BY DEF Work, TypeOK
<1>2. QED
  BY <1>1, HandledType DEF Work, Answer, Ran

\* A call in place.
DirectEffect(c, op) ==
  /\ kind = "direct"
  /\ UNCHANGED <<kind, worker, taken, reqs, resps, serving, blurred, right>>
  /\ closeRan' = (closeRan \/ op = "close")
  /\ pc' \in [Callers -> {"starting", "idle", "sent", "waiting"}]
  /\ pc'[c] = "idle"
  /\ \A d \in Callers \ {c} : pc'[d] = pc[d]
  /\ op = "use" => closing' = closing
  /\ op = "close" => closing' \in {"stopping", "raised"}

\* DirectCall has that effect.
LEMMA DirectFacts ==
  ASSUME TypeOK, NEW c \in Callers, NEW op \in Ops, DirectCall(c, op)
  PROVE  DirectEffect(c, op)
  BY AnswerFacts DEF DirectEffect, DirectCall, Ran

\* What one step does, in terms of these effects.
StepEffect ==
  \/ \E c \in Callers, op \in Ops :
       /\ BeginsEffect(c, op)
       /\ DirectEffect(c, op) \/ QueueEffect(c, op) \/ HttpEffect(c, op)
  \/ \E c \in Callers : RecheckEffect(c) \/ ReceiveEffect(c) \/ GivesUpEffect(c)
  \/ WorkEffect
  \/ \E r \in serving : ServeEffect(r)
  \/ Construct \/ Launch \/ Stop \/ Collect \/ Joined \/ ServerExits
  \/ Die \/ Interrupt \/ Killed \/ ReapOrphans
  \/ UNCHANGED vars

\* Every step is one of these.
LEMMA StepEffects == TypeOK /\ CallInv /\ [Next]_vars => StepEffect
<1> SUFFICES ASSUME TypeOK, CallInv, [Next]_vars PROVE StepEffect
  OBVIOUS
<1>1. CASE Request
  <2>1. PICK c \in Callers, op \in Ops :
          \/ DirectCall(c, op) \/ ThreadRequest(c, op)
          \/ ProcessRequest(c, op) \/ HttpRequest(c, op)
    BY <1>1 DEF Request
  <2>2. BeginsEffect(c, op)
    BY <2>1, BeginsFacts
       DEF DirectCall, ThreadRequest, ProcessRequest, HttpRequest
  <2>3. DirectEffect(c, op) \/ QueueEffect(c, op) \/ HttpEffect(c, op)
    BY <2>1, DirectFacts, QueueFacts, HttpFacts
  <2>4. QED
    BY <2>2, <2>3 DEF StepEffect
<1>2. ASSUME NEW c \in Callers, Caller(c) PROVE StepEffect
  BY <1>2, RecheckFacts, ReceiveFacts, GivesUpFacts DEF Caller, StepEffect
<1>3. ASSUME NEW r \in serving, Serve(r) PROVE StepEffect
  BY <1>3, ServeFacts DEF StepEffect
<1>4. CASE Work
  BY <1>4, WorkFacts DEF StepEffect
<1>5. CASE \/ Construct \/ Launch \/ Ending
           \/ Die \/ Interrupt \/ Killed \/ ReapOrphans \/ Finished
           \/ UNCHANGED vars
  BY <1>5 DEF Ending, Finished, StepEffect
<1>6. QED
  BY <1>1, <1>2, <1>3, <1>4, <1>5 DEF Next

-----------------------------------------------------------------------------
\* TypeOK is preserved by every step.
LEMMA TypeStep == TypeOK /\ CallInv /\ [Next]_vars => TypeOK'
<1> SUFFICES ASSUME TypeOK, CallInv, [Next]_vars PROVE TypeOK'
  OBVIOUS
<1>1. ASSUME NEW c \in Callers, NEW op \in Ops,
             BeginsEffect(c, op), DirectEffect(c, op)
      PROVE  TypeOK'
  BY <1>1 DEF BeginsEffect, DirectEffect, TypeOK, Ops
<1>2. ASSUME NEW c \in Callers, NEW op \in Ops,
             BeginsEffect(c, op), QueueEffect(c, op)
      PROVE  TypeOK'
  <2>1. reqs' \in Seq(Requests \cup {SHUTDOWN})
    <3>1. /\ reqs \in Seq(Requests \cup {SHUTDOWN})
          /\ now'[c] \in Requests \cup {SHUTDOWN}
      BY <1>2 DEF BeginsEffect, TypeOK
    <3>2. Append(reqs, now'[c]) \in Seq(Requests \cup {SHUTDOWN})
      BY <3>1, QueueTypes
    <3>3. QED
      BY <1>2, <3>1, <3>2 DEF QueueEffect
  <2>2. blurred' \in BOOLEAN
    BY <1>2 DEF QueueEffect, TypeOK
  <2>3. QED
    BY <1>2, <2>1, <2>2 DEF BeginsEffect, QueueEffect, TypeOK
<1>3. ASSUME NEW c \in Callers, NEW op \in Ops,
             BeginsEffect(c, op), HttpEffect(c, op)
      PROVE  TypeOK'
  BY <1>3 DEF BeginsEffect, HttpEffect, TypeOK, Ops
<1>4. ASSUME NEW c \in Callers, RecheckEffect(c)
      PROVE  TypeOK'
  BY <1>4 DEF RecheckEffect, TypeOK
<1>5. ASSUME NEW c \in Callers, ReceiveEffect(c)
      PROVE  TypeOK'
  BY <1>5 DEF ReceiveEffect, TypeOK, Ops
<1>6. ASSUME NEW c \in Callers, GivesUpEffect(c)
      PROVE  TypeOK'
  BY <1>6 DEF GivesUpEffect, TypeOK
<1>7. CASE Construct
  BY <1>7 DEF Construct, TypeOK
<1>8. CASE Launch
  BY <1>8
     DEF Launch, LaunchService, LaunchVenv, LaunchDocker, Launched, NoStart,
         Healthy, Unhealthy, Boots, TypeOK
<1>9. CASE WorkEffect
  <2>1. reqs' \in Seq(Requests \cup {SHUTDOWN})
    BY <1>9, QueueTypes DEF WorkEffect, TypeOK
  <2>2. resps' \in Seq([to : Requests, out : Outcomes])
    <3>1. resps \in Seq([to : Requests, out : Outcomes])
      BY DEF TypeOK
    <3>2. CASE Head(reqs) \in Requests /\ \E out \in Outcomes :
                 resps' = Append(resps, [to |-> Head(reqs), out |-> out])
      <4>1. PICK out \in Outcomes :
              resps' = Append(resps, [to |-> Head(reqs), out |-> out])
        BY <3>2
      <4>2. [to |-> Head(reqs), out |-> out] \in [to : Requests, out : Outcomes]
        BY <3>2
      <4>3. QED
        BY <3>1, <4>1, <4>2, QueueTypes
    <3>3. CASE UNCHANGED resps
      BY <3>1, <3>3
    <3>4. QED
      BY <1>9, <3>2, <3>3 DEF WorkEffect
  <2>3. QED
    BY <1>9, <2>1, <2>2 DEF WorkEffect, TypeOK
<1>10. CASE Stop
  <2>1. reqs' \in {reqs, Append(reqs, SHUTDOWN)} /\ serving' \in {serving, {}}
    BY <1>10
       DEF Stop, StopDirect, StopThread, StopProcess, StopService, StopVenv,
           StopDocker
  <2>2. reqs' \in Seq(Requests \cup {SHUTDOWN})
    <3>1. reqs \in Seq(Requests \cup {SHUTDOWN})
      BY DEF TypeOK
    <3>2. Append(reqs, SHUTDOWN) \in Seq(Requests \cup {SHUTDOWN})
      BY <3>1, QueueTypes
    <3>3. QED
      BY <2>1, <3>1, <3>2
  <2>3. QED
    BY <1>10, <2>1, <2>2
       DEF Stop, StopDirect, StopThread, StopProcess, StopService, StopVenv,
           StopDocker, TypeOK
<1>11. CASE Collect
  <2>1. reqs' \in {reqs, Append(reqs, SHUTDOWN)} /\ serving' \in {serving, {}}
    BY <1>11
       DEF Collect, StopDirect, StopThread, StopProcess, StopVenv, StopDocker
  <2>2. reqs' \in Seq(Requests \cup {SHUTDOWN})
    <3>1. reqs \in Seq(Requests \cup {SHUTDOWN})
      BY DEF TypeOK
    <3>2. Append(reqs, SHUTDOWN) \in Seq(Requests \cup {SHUTDOWN})
      BY <3>1, QueueTypes
    <3>3. QED
      BY <2>1, <3>1, <3>2
  <2>3. QED
    BY <1>11, <2>1, <2>2
       DEF Collect, StopDirect, StopThread, StopProcess, StopVenv, StopDocker,
           TypeOK
<1>12. CASE Joined
  BY <1>12 DEF Joined, TypeOK
<1>13. CASE ServerExits
  BY <1>13 DEF ServerExits, TypeOK
<1>14. CASE Die
  BY <1>14 DEF Die, TypeOK
<1>15. CASE Interrupt
  BY <1>15 DEF Interrupt, ReapOwn, Remove, TypeOK
<1>16. CASE Killed
  BY <1>16 DEF Killed, ReapOwn, Remove, TypeOK
<1>17. CASE ReapOrphans
  BY <1>17 DEF ReapOrphans, Remove, TypeOK
<1>18. ASSUME NEW r \in serving, ServeEffect(r)
      PROVE  TypeOK'
  BY <1>18 DEF ServeEffect, TypeOK
<1>19. CASE UNCHANGED vars
  BY <1>19 DEF vars, TypeOK
<1>20. QED
  BY <1>1, <1>2, <1>3, <1>4, <1>5, <1>6, <1>7, <1>8, <1>9, <1>10, <1>11,
     <1>12, <1>13, <1>14, <1>15, <1>16, <1>17, <1>18, <1>19, StepEffects DEF
     StepEffect

\* The start is over before anybody calls.
LEMMA StartStep == TypeOK /\ CallInv /\ StartInv /\ [Next]_vars => StartInv'
<1> SUFFICES ASSUME TypeOK, CallInv, StartInv, [Next]_vars PROVE StartInv'
  OBVIOUS
<1>1. ASSUME NEW c \in Callers, NEW op \in Ops,
             BeginsEffect(c, op), DirectEffect(c, op)
      PROVE  StartInv'
  BY <1>1, RemoteAssumption DEF DirectEffect, StartInv
<1>2. ASSUME NEW c \in Callers, NEW op \in Ops,
             BeginsEffect(c, op), QueueEffect(c, op)
      PROVE  StartInv'
  BY <1>2, RemoteAssumption DEF BeginsEffect, QueueEffect, StartInv, Queued
<1>3. ASSUME NEW c \in Callers, NEW op \in Ops,
             BeginsEffect(c, op), HttpEffect(c, op)
      PROVE  StartInv'
  BY <1>3, RemoteAssumption
     DEF BeginsEffect, HttpEffect, StartInv, Queued, Http
<1>4. ASSUME NEW c \in Callers, RecheckEffect(c)
      PROVE  StartInv'
  BY <1>4, RemoteAssumption DEF RecheckEffect, StartInv, Queued
<1>5. ASSUME NEW c \in Callers, ReceiveEffect(c)
      PROVE  StartInv'
  BY <1>5, RemoteAssumption DEF ReceiveEffect, StartInv, Queued
<1>6. ASSUME NEW c \in Callers, GivesUpEffect(c)
      PROVE  StartInv'
  BY <1>6, RemoteAssumption DEF GivesUpEffect, StartInv, Queued
<1>7. CASE Construct
  BY <1>7, RemoteAssumption DEF Construct, TypeOK, StartInv
<1>8. CASE Launch
  BY <1>8, RemoteAssumption
     DEF Launch, LaunchService, LaunchVenv, LaunchDocker, Launched, NoStart,
         Healthy, Unhealthy, Boots, TypeOK, StartInv, Queued
<1>9. CASE WorkEffect
  BY <1>9 DEF WorkEffect, StartInv, Queued
<1>10. CASE Stop
  BY <1>10
     DEF Stop, StopDirect, StopThread, StopProcess, StopService, StopVenv,
         StopDocker, StartInv, Queued
<1>11. CASE Collect
  BY <1>11
     DEF Collect, StopDirect, StopThread, StopProcess, StopVenv, StopDocker,
         StartInv, Queued
<1>12. CASE Joined
  BY <1>12 DEF Joined, StartInv, Queued
<1>13. CASE ServerExits
  BY <1>13 DEF ServerExits, StartInv, Queued
<1>14. CASE Die
  BY <1>14 DEF Die, StartInv, Queued
<1>15. CASE Interrupt
  BY <1>15 DEF Interrupt, ReapOwn, Remove, StartInv, Queued
<1>16. CASE Killed
  BY <1>16, RemoteAssumption DEF Killed, ReapOwn, Remove, StartInv
<1>17. CASE ReapOrphans
  BY <1>17 DEF ReapOrphans, Remove, StartInv, Queued
<1>18. ASSUME NEW r \in serving, ServeEffect(r)
      PROVE  StartInv'
  BY <1>18, RemoteAssumption DEF ServeEffect, StartInv, Queued
<1>19. CASE UNCHANGED vars
  BY <1>19 DEF vars, StartInv, Queued
<1>20. QED
  BY <1>1, <1>2, <1>3, <1>4, <1>5, <1>6, <1>7, <1>8, <1>9, <1>10, <1>11,
     <1>12, <1>13, <1>14, <1>15, <1>16, <1>17, <1>18, <1>19, StepEffects DEF
     StepEffect

\* The bound on the calls.
LEMMA CallStep == TypeOK /\ CallInv /\ [Next]_vars => CallInv'
<1> SUFFICES ASSUME TypeOK, CallInv, [Next]_vars PROVE CallInv'
  OBVIOUS
<1>1. ASSUME NEW c \in Callers, NEW op \in Ops,
             BeginsEffect(c, op), DirectEffect(c, op)
      PROVE  CallInv'
  BY <1>1 DEF BeginsEffect, DirectEffect, CallInv, Ops
<1>2. ASSUME NEW c \in Callers, NEW op \in Ops,
             BeginsEffect(c, op), QueueEffect(c, op)
      PROVE  CallInv'
  BY <1>2 DEF BeginsEffect, QueueEffect, CallInv
<1>3. ASSUME NEW c \in Callers, NEW op \in Ops,
             BeginsEffect(c, op), HttpEffect(c, op)
      PROVE  CallInv'
  BY <1>3 DEF BeginsEffect, HttpEffect, CallInv, Ops
<1>4. ASSUME NEW c \in Callers, RecheckEffect(c)
      PROVE  CallInv'
  BY <1>4 DEF RecheckEffect, CallInv
<1>5. ASSUME NEW c \in Callers, ReceiveEffect(c)
      PROVE  CallInv'
  BY <1>5 DEF ReceiveEffect, CallInv, Ops
<1>6. ASSUME NEW c \in Callers, GivesUpEffect(c)
      PROVE  CallInv'
  BY <1>6 DEF GivesUpEffect, CallInv
<1>7. CASE Construct
  BY <1>7 DEF Construct, CallInv
<1>8. CASE Launch
  BY <1>8
     DEF Launch, LaunchService, LaunchVenv, LaunchDocker, Launched, NoStart,
         Healthy, Unhealthy, Boots, CallInv
<1>9. CASE WorkEffect
  BY <1>9 DEF WorkEffect, CallInv
<1>10. CASE Stop
  BY <1>10
     DEF Stop, StopDirect, StopThread, StopProcess, StopService, StopVenv,
         StopDocker, CallInv
<1>11. CASE Collect
  BY <1>11
     DEF Collect, StopDirect, StopThread, StopProcess, StopVenv, StopDocker,
         CallInv
<1>12. CASE Joined
  BY <1>12 DEF Joined, CallInv
<1>13. CASE ServerExits
  BY <1>13 DEF ServerExits, CallInv
<1>14. CASE Die
  BY <1>14 DEF Die, CallInv
<1>15. CASE Interrupt
  BY <1>15 DEF Interrupt, CallInv
<1>16. CASE Killed
  BY <1>16 DEF Killed, CallInv
<1>17. CASE ReapOrphans
  BY <1>17 DEF ReapOrphans, CallInv
<1>18. ASSUME NEW r \in serving, ServeEffect(r)
      PROVE  CallInv'
  BY <1>18 DEF ServeEffect, CallInv
<1>19. CASE UNCHANGED vars
  BY <1>19 DEF vars, CallInv
<1>20. QED
  BY <1>1, <1>2, <1>3, <1>4, <1>5, <1>6, <1>7, <1>8, <1>9, <1>10, <1>11,
     <1>12, <1>13, <1>14, <1>15, <1>16, <1>17, <1>18, <1>19, StepEffects DEF
     StepEffect

\* A port that is taken stays so, and only where it can go unnoticed.
LEMMA PortStep ==
  TypeOK /\ CallInv /\ StartInv /\ PortInv /\ [Next]_vars => PortInv'
<1> SUFFICES ASSUME TypeOK, CallInv, StartInv, PortInv, [Next]_vars
             PROVE  PortInv'
  OBVIOUS
<1>1. ASSUME NEW c \in Callers, NEW op \in Ops,
             BeginsEffect(c, op), DirectEffect(c, op)
      PROVE  PortInv'
  BY <1>1 DEF DirectEffect, PortInv
<1>2. ASSUME NEW c \in Callers, NEW op \in Ops,
             BeginsEffect(c, op), QueueEffect(c, op)
      PROVE  PortInv'
  BY <1>2 DEF QueueEffect, PortInv
<1>3. ASSUME NEW c \in Callers, NEW op \in Ops,
             BeginsEffect(c, op), HttpEffect(c, op)
      PROVE  PortInv'
  BY <1>3 DEF HttpEffect, PortInv
<1>4. ASSUME NEW c \in Callers, RecheckEffect(c)
      PROVE  PortInv'
  BY <1>4 DEF RecheckEffect, PortInv
<1>5. ASSUME NEW c \in Callers, ReceiveEffect(c)
      PROVE  PortInv'
  BY <1>5 DEF ReceiveEffect, PortInv
<1>6. ASSUME NEW c \in Callers, GivesUpEffect(c)
      PROVE  PortInv'
  BY <1>6 DEF GivesUpEffect, PortInv
<1>7. CASE Construct
  BY <1>7 DEF Construct, PortInv
<1>8. CASE Launch
  BY <1>8
     DEF Launch, LaunchService, LaunchVenv, LaunchDocker, Launched, NoStart,
         Healthy, Unhealthy, Boots, PortInv
<1>9. CASE WorkEffect
  BY <1>9 DEF WorkEffect, PortInv
<1>10. CASE Stop
  BY <1>10
     DEF Stop, StopDirect, StopThread, StopProcess, StopService, StopVenv,
         StopDocker, PortInv
<1>11. CASE Collect
  BY <1>11
     DEF Collect, StopDirect, StopThread, StopProcess, StopVenv, StopDocker,
         PortInv
<1>12. CASE Joined
  BY <1>12 DEF Joined, PortInv
<1>13. CASE ServerExits
  BY <1>13 DEF ServerExits, PortInv
<1>14. CASE Die
  BY <1>14 DEF Die, PortInv
<1>15. CASE Interrupt
  BY <1>15 DEF Interrupt, ReapOwn, Labelled, PortInv
<1>16. CASE Killed
  BY <1>16 DEF Killed, PortInv
<1>17. CASE ReapOrphans
  BY <1>17 DEF ReapOrphans, Labelled, PortInv
<1>18. ASSUME NEW r \in serving, ServeEffect(r)
      PROVE  PortInv'
  BY <1>18 DEF ServeEffect, PortInv
<1>19. CASE UNCHANGED vars
  BY <1>19 DEF vars, PortInv
<1>20. QED
  BY <1>1, <1>2, <1>3, <1>4, <1>5, <1>6, <1>7, <1>8, <1>9, <1>10, <1>11,
     <1>12, <1>13, <1>14, <1>15, <1>16, <1>17, <1>18, <1>19, StepEffects DEF
     StepEffect

\* While calls do not overlap, the one answer in the queue is the caller's.
LEMMA LoneAnswer ==
  ASSUME TypeOK, LoneInv, ~blurred, NEW c \in Callers, ReceiveEffect(c)
  PROVE  /\ resps' = <<>> /\ right' = right
         /\ now[c].op = "close" => closeRan
         /\ worker # "dead" => reqs = <<>> /\ closing \in {"open", "calling"}
         /\ \A d \in Callers : Asking(d) => d = c
<1>1. Asking(c) /\ Queued /\ resps # <<>>
  BY DEF ReceiveEffect, Asking
<1>2. PICK out \in Outcomes : resps = <<[to |-> now[c], out |-> out]>>
  BY <1>1 DEF LoneInv
<1>3. Head(resps) = [to |-> now[c], out |-> out] /\ Tail(resps) = <<>>
  BY <1>2
<1>4. Head(resps).to = now[c]
  BY <1>3
<1>5. resps' = <<>> /\ right' = right
  BY <1>3, <1>4 DEF ReceiveEffect, TypeOK
<1>6. QED
  BY <1>1, <1>5 DEF LoneInv

\* Without overlapping calls the queues hold what their one user has there.
LEMMA LoneStep ==
  TypeOK /\ CallInv /\ StartInv /\ LoneInv /\ [Next]_vars => LoneInv'
<1> SUFFICES ASSUME TypeOK, CallInv, StartInv, LoneInv, [Next]_vars
             PROVE  LoneInv'
  OBVIOUS
<1>1. ASSUME NEW c \in Callers, NEW op \in Ops,
             BeginsEffect(c, op), DirectEffect(c, op)
      PROVE  LoneInv'
  BY <1>1 DEF DirectEffect, LoneInv, Queued
<1>2. ASSUME NEW c \in Callers, NEW op \in Ops,
             BeginsEffect(c, op), QueueEffect(c, op)
      PROVE  LoneInv'
  <2> SUFFICES ASSUME Queued, ~blurred' PROVE LoneInv'
    BY <1>2 DEF LoneInv, QueueEffect
  <2>1. ~blurred
    BY <1>2 DEF QueueEffect
  <2>2. worker # "new"
    BY <1>2 DEF BeginsEffect, StartInv
  <2>3. CASE worker = "up" /\ pc'[c] \in {"sent", "waiting"}
    <3>1. /\ closing = "open"
          /\ \A d \in Callers : pc[d] = "idle"
          /\ reqs' = Append(reqs, now'[c])
      BY <1>2, <2>3 DEF BeginsEffect, QueueEffect
    <3>2. reqs = <<>> /\ resps = <<>>
      BY <2>1, <2>3, <3>1 DEF LoneInv, Asking, Before
    <3>3. reqs' = <<now'[c]>> /\ resps' = <<>>
      BY <1>2, <3>1, <3>2 DEF QueueEffect
    <3>4. \A d \in Callers : Asking(d)' => d = c
      BY <1>2, <3>1 DEF QueueEffect, Asking
    <3>5. closing' = IF now'[c].op = "close" THEN "calling" ELSE "open"
      BY <1>2, <2>3, <3>1 DEF QueueEffect, BeginsEffect
    <3>6. now'[c] \in Requests /\ Asking(c)' /\ worker' = "up"
      BY <1>2, <2>3 DEF QueueEffect, BeginsEffect, Asking
    <3>7. QED
      BY <3>3, <3>4, <3>5, <3>6 DEF LoneInv
  <2>4. CASE worker # "up" \/ Severed
    <3>1. CASE pc'[c] \in {"sent", "waiting"}
      BY <1>2, <2>3, <3>1 DEF QueueEffect
    <3>2. CASE pc'[c] = "idle"
      <4>1. /\ UNCHANGED <<worker, reqs, resps, blurred, closeRan>>
            /\ closing' = IF op = "use" THEN closing ELSE "raised"
        BY <1>2, <3>2 DEF QueueEffect
      <4>2. \A d \in Callers : Asking(d)' => Asking(d) /\ now'[d] = now[d]
        BY <1>2, <3>2 DEF QueueEffect, BeginsEffect, Asking
      <4>3. \A d \in Callers : Asking(d) => worker = "dead"
        BY <1>2, <2>1, <2>2, <2>4 DEF LoneInv, Before, Severed
      <4>4. worker' = "up" =>
              closing' = closing /\ \A d \in Callers : ~Asking(d)
        BY <1>2, <2>4, <4>1, <4>3 DEF BeginsEffect, Severed, Ops
      <4>5. closing' \in Before => closing \in Before
        BY <1>2, <4>1 DEF BeginsEffect, Before, Ops
      <4>6. QED
        BY <2>1, <4>1, <4>2, <4>3, <4>4, <4>5 DEF LoneInv
    <3>3. QED
      BY <1>2, <3>1, <3>2 DEF QueueEffect
  <2>5. QED
    BY <1>2, <2>3, <2>4 DEF QueueEffect
<1>3. ASSUME NEW c \in Callers, NEW op \in Ops,
             BeginsEffect(c, op), HttpEffect(c, op)
      PROVE  LoneInv'
  BY <1>3 DEF HttpEffect, LoneInv, Queued, Http
<1>4. ASSUME NEW c \in Callers, RecheckEffect(c)
      PROVE  LoneInv'
  BY <1>4 DEF RecheckEffect, StartInv, LoneInv, Asking, Before
<1>5. ASSUME NEW c \in Callers, ReceiveEffect(c)
      PROVE  LoneInv'
  <2> SUFFICES ASSUME Queued, ~blurred PROVE LoneInv'
    BY <1>5 DEF LoneInv, ReceiveEffect
  <2>1. /\ resps' = <<>> /\ (worker # "dead" => reqs = <<>>)
        /\ worker # "dead" => closing \in {"open", "calling"}
        /\ \A d \in Callers : Asking(d) => d = c
    BY <1>5, LoneAnswer
  <2>2. \A d \in Callers : ~Asking(d)'
    BY <1>5, <2>1 DEF ReceiveEffect, Asking
  <2>3. QED
    BY <1>5, <2>1, <2>2 DEF ReceiveEffect, LoneInv, Before
<1>6. ASSUME NEW c \in Callers, GivesUpEffect(c)
      PROVE  LoneInv'
  BY <1>6 DEF GivesUpEffect, LoneInv, Queued, Http
<1>7. CASE Construct
  BY <1>7 DEF Construct, TypeOK, StartInv, LoneInv, Asking, Before
<1>8. CASE Launch
  BY <1>8
     DEF Launch, LaunchService, LaunchVenv, LaunchDocker, Healthy, Unhealthy,
         Boots, LoneInv, Queued, Http
<1>9. CASE WorkEffect
  <2> SUFFICES ASSUME Queued, ~blurred PROVE LoneInv'
    BY <1>9 DEF LoneInv, WorkEffect
  <2>1. CASE \E c \in Callers : Asking(c)
    <3>1. PICK c \in Callers : Asking(c)
      BY <2>1
    <3>2. reqs = <<now[c]>> /\ resps = <<>> /\ now[c] \in Requests
      BY <1>9, <3>1 DEF WorkEffect, LoneInv
    <3>3. Head(reqs) = now[c] /\ Tail(reqs) = <<>>
      BY <3>2
    <3>4. now[c] # SHUTDOWN
      BY <3>2 DEF Requests, SHUTDOWN
    <3>5. PICK out \in Outcomes :
            resps' = Append(resps, [to |-> now[c], out |-> out])
      BY <1>9, <3>3, <3>4 DEF WorkEffect
    <3>6. resps' = <<[to |-> now[c], out |-> out]>>
      BY <3>2, <3>5
    <3>7. /\ UNCHANGED <<worker, pc, now, closing, blurred>>
          /\ reqs' = <<>> /\ (now[c].op = "close" => closeRan')
      BY <1>9, <3>3, <3>4 DEF WorkEffect
    <3>8. \A d \in Callers : Asking(d)' => d = c
      BY <3>1, <3>7 DEF LoneInv, Asking
    <3>9. QED
      BY <1>9, <3>1, <3>2, <3>6, <3>7, <3>8 DEF LoneInv, Asking, WorkEffect
  <2>2. CASE \A c \in Callers : ~Asking(c)
    <3>1. closing \notin Before
      BY <1>9, <2>2 DEF LoneInv, WorkEffect
    <3>2. QED
      BY <1>9, <2>2, <3>1 DEF LoneInv, WorkEffect, Asking
  <2>3. QED
    BY <2>1, <2>2
<1>10. CASE Stop
  BY <1>10
     DEF Stop, StopDirect, StopThread, StopProcess, StopService, StopVenv,
         StopDocker, LoneInv, Asking, Before, Queued
<1>11. CASE Collect
  BY <1>11
     DEF Collect, StopDirect, StopThread, StopProcess, StopVenv, StopDocker,
         LoneInv, Asking, Before, Queued
<1>12. CASE Joined
  BY <1>12 DEF Joined, LoneInv, Asking, Before, Queued
<1>13. CASE ServerExits
  BY <1>13 DEF ServerExits, LoneInv, Queued
<1>14. CASE Die
  BY <1>14 DEF Die, LoneInv, Asking, Queued
<1>15. CASE Interrupt
  BY <1>15 DEF Interrupt, LoneInv
<1>16. CASE Killed
  BY <1>16 DEF Killed, LoneInv, Asking, Before
<1>17. CASE ReapOrphans
  BY <1>17 DEF ReapOrphans, Labelled, LoneInv, Queued
<1>18. ASSUME NEW r \in serving, ServeEffect(r)
      PROVE  LoneInv'
  BY <1>18 DEF ServeEffect, LoneInv, Queued, Http
<1>19. CASE UNCHANGED vars
  BY <1>19 DEF vars, LoneInv, Asking, Queued
<1>20. QED
  BY <1>1, <1>2, <1>3, <1>4, <1>5, <1>6, <1>7, <1>8, <1>9, <1>10, <1>11,
     <1>12, <1>13, <1>14, <1>15, <1>16, <1>17, <1>18, <1>19, StepEffects DEF
     StepEffect

\* The worker is stopped only after the remote close, unless it died.
LEMMA CloseStep ==
  /\ TypeOK /\ CallInv /\ StartInv /\ PortInv /\ LoneInv /\ CloseInv
  /\ [Next]_vars
  => CloseInv'
<1> SUFFICES ASSUME TypeOK, CallInv, StartInv, PortInv, LoneInv, CloseInv,
                    [Next]_vars
             PROVE  CloseInv'
  OBVIOUS
<1>1. ASSUME NEW c \in Callers, NEW op \in Ops,
             BeginsEffect(c, op), DirectEffect(c, op)
      PROVE  CloseInv'
  BY <1>1 DEF DirectEffect, CloseInv, Ops
<1>2. ASSUME NEW c \in Callers, NEW op \in Ops,
             BeginsEffect(c, op), QueueEffect(c, op)
      PROVE  CloseInv'
  BY <1>2
     DEF BeginsEffect, QueueEffect, TypeOK, StartInv, LoneInv, Before,
         Severed, CloseInv, Queued
<1>3. ASSUME NEW c \in Callers, NEW op \in Ops,
             BeginsEffect(c, op), HttpEffect(c, op)
      PROVE  CloseInv'
  BY <1>3 DEF HttpEffect, PortInv, CloseInv, Queued, Http, Ops
<1>4. ASSUME NEW c \in Callers, RecheckEffect(c)
      PROVE  CloseInv'
  <2>1. Queued /\ ~blurred /\ worker # "dead" => closing' = closing
    <3>1. Asking(c) /\ worker # "new"
      BY <1>4 DEF RecheckEffect, Asking, StartInv
    <3>2. QED
      BY <1>4, <3>1 DEF RecheckEffect, LoneInv, Before
  <2>2. kind = "direct" => FALSE
    BY <1>4 DEF RecheckEffect, StartInv
  <2>3. QED
    BY <1>4, <2>1, <2>2 DEF RecheckEffect, StartInv, CloseInv, Queued
<1>5. ASSUME NEW c \in Callers, ReceiveEffect(c)
      PROVE  CloseInv'
  BY <1>5 DEF ReceiveEffect, LoneInv, Asking, CloseInv, Queued, Ops
<1>6. ASSUME NEW c \in Callers, GivesUpEffect(c)
      PROVE  CloseInv'
  BY <1>6 DEF GivesUpEffect, CloseInv, Queued, Http
<1>7. CASE Construct
  BY <1>7 DEF Construct, CloseInv, Queued
<1>8. CASE Launch
  BY <1>8
     DEF Launch, LaunchService, LaunchVenv, LaunchDocker, Launched, NoStart,
         Healthy, Unhealthy, Boots, CloseInv, Queued
<1>9. CASE WorkEffect
  BY <1>9 DEF WorkEffect, TypeOK, CloseInv
<1>10. CASE Stop
  BY <1>10
     DEF Stop, StopDirect, StopThread, StopProcess, StopService, StopVenv,
         StopDocker, CloseInv, Queued
<1>11. CASE Collect
  BY <1>11
     DEF Collect, StopDirect, StopThread, StopProcess, StopVenv, StopDocker,
         CloseInv, Queued
<1>12. CASE Joined
  BY <1>12 DEF Joined, CloseInv, Queued
<1>13. CASE ServerExits
  BY <1>13 DEF ServerExits, CloseInv
<1>14. CASE Die
  BY <1>14 DEF Die, CloseInv
<1>15. CASE Interrupt
  BY <1>15, RemoteAssumption
     DEF Interrupt, ReapOwn, Labelled, StartInv, CloseInv
<1>16. CASE Killed
  BY <1>16 DEF Killed, CloseInv
<1>17. CASE ReapOrphans
  BY <1>17 DEF ReapOrphans, CloseInv
<1>18. ASSUME NEW r \in serving, ServeEffect(r)
      PROVE  CloseInv'
  BY <1>18 DEF ServeEffect, CloseInv, Queued
<1>19. CASE UNCHANGED vars
  BY <1>19 DEF vars, CloseInv, Queued
<1>20. QED
  BY <1>1, <1>2, <1>3, <1>4, <1>5, <1>6, <1>7, <1>8, <1>9, <1>10, <1>11,
     <1>12, <1>13, <1>14, <1>15, <1>16, <1>17, <1>18, <1>19, StepEffects DEF
     StepEffect

\* An answer goes to its own call, with the exceptions OwnAnswer names.
LEMMA OwnStep ==
  /\ TypeOK /\ CallInv /\ StartInv /\ PortInv /\ LoneInv /\ OwnAnswer
  /\ [Next]_vars
  => OwnAnswer'
<1> SUFFICES ASSUME TypeOK, CallInv, StartInv, PortInv, LoneInv, OwnAnswer,
                    [Next]_vars
             PROVE  OwnAnswer'
  OBVIOUS
<1>1. ASSUME NEW c \in Callers, NEW op \in Ops,
             BeginsEffect(c, op), DirectEffect(c, op)
      PROVE  OwnAnswer'
  BY <1>1 DEF DirectEffect, OwnAnswer, Queued
<1>2. ASSUME NEW c \in Callers, NEW op \in Ops,
             BeginsEffect(c, op), QueueEffect(c, op)
      PROVE  OwnAnswer'
  BY <1>2 DEF QueueEffect, TypeOK, OwnAnswer, Queued
<1>3. ASSUME NEW c \in Callers, NEW op \in Ops,
             BeginsEffect(c, op), HttpEffect(c, op)
      PROVE  OwnAnswer'
  BY <1>3 DEF HttpEffect, PortInv, OwnAnswer, Queued, Http
<1>4. ASSUME NEW c \in Callers, RecheckEffect(c)
      PROVE  OwnAnswer'
  BY <1>4 DEF RecheckEffect, OwnAnswer, Queued
<1>5. ASSUME NEW c \in Callers, ReceiveEffect(c)
      PROVE  OwnAnswer'
  BY <1>5, LoneAnswer DEF ReceiveEffect, OwnAnswer, Queued
<1>6. ASSUME NEW c \in Callers, GivesUpEffect(c)
      PROVE  OwnAnswer'
  BY <1>6 DEF GivesUpEffect, OwnAnswer, Queued
<1>7. CASE Construct
  BY <1>7 DEF Construct, OwnAnswer, Queued
<1>8. CASE Launch
  BY <1>8
     DEF Launch, LaunchService, LaunchVenv, LaunchDocker, Healthy, Unhealthy,
         Boots, StartInv, OwnAnswer, Queued
<1>9. CASE WorkEffect
  BY <1>9 DEF WorkEffect, OwnAnswer, Queued
<1>10. CASE Stop
  BY <1>10 DEF Stop, OwnAnswer, Queued
<1>11. CASE Collect
  BY <1>11 DEF Collect, OwnAnswer, Queued
<1>12. CASE Joined
  BY <1>12 DEF Joined, OwnAnswer, Queued
<1>13. CASE ServerExits
  BY <1>13 DEF ServerExits, OwnAnswer, Queued
<1>14. CASE Die
  BY <1>14 DEF Die, OwnAnswer, Queued
<1>15. CASE Interrupt
  BY <1>15 DEF Interrupt, OwnAnswer
<1>16. CASE Killed
  BY <1>16 DEF Killed, OwnAnswer, Queued
<1>17. CASE ReapOrphans
  BY <1>17 DEF ReapOrphans, OwnAnswer, Queued
<1>18. ASSUME NEW r \in serving, ServeEffect(r)
      PROVE  OwnAnswer'
  BY <1>18 DEF ServeEffect, OwnAnswer, Queued
<1>19. CASE UNCHANGED vars
  BY <1>19 DEF vars, OwnAnswer, Queued
<1>20. QED
  BY <1>1, <1>2, <1>3, <1>4, <1>5, <1>6, <1>7, <1>8, <1>9, <1>10, <1>11,
     <1>12, <1>13, <1>14, <1>15, <1>16, <1>17, <1>18, <1>19, StepEffects DEF
     StepEffect

\* The inductive invariant holds at first.
LEMMA InitInv == Init => TypeOK /\ IInv
<1> SUFFICES ASSUME Init PROVE TypeOK /\ IInv
  OBVIOUS
<1>1. TypeOK
  <2>1. /\ reqs \in Seq(Requests \cup {SHUTDOWN})
        /\ resps \in Seq([to : Requests, out : Outcomes])
    BY DEF Init
  <2>2. /\ pc \in [Callers -> {"starting", "idle", "sent", "waiting"}]
        /\ now \in [Callers -> Requests \cup {NoRequest}]
        /\ calls \in [Callers -> 0..MaxCalls + 1]
    BY RemoteAssumption DEF Init
  <2>3. QED
    BY <2>1, <2>2 DEF Init, TypeOK
<1>2. StartInv /\ CallInv /\ PortInv
  BY RemoteAssumption DEF Init, StartInv, CallInv, PortInv
<1>3. LoneInv /\ CloseInv /\ OwnAnswer
  BY DEF Init, LoneInv, Asking, CloseInv, OwnAnswer
<1>4. QED
  BY <1>1, <1>2, <1>3 DEF IInv

\* Every step preserves the inductive invariant.
LEMMA StepInv == TypeOK /\ IInv /\ [Next]_vars => TypeOK' /\ IInv'
  BY TypeStep, StartStep, CallStep, PortStep, LoneStep, CloseStep, OwnStep
     DEF IInv

\* Every variable of RemoteObject keeps its type, for any number of callers
\* and calls and every kind of runner.
THEOREM TypeCorrect == Spec => []TypeOK
  BY InitInv, StepInv, PTL DEF Spec

\* For any number of callers and calls, and whatever dies, a caller gets the
\* answer to its own call and close() reaches the object before its worker is
\* stopped, with the exceptions AnswersSafe names.
THEOREM AnswersAreOwn == Spec => []AnswersSafe
<1>1. TypeOK /\ IInv => AnswersSafe
  <2> SUFFICES ASSUME TypeOK, IInv PROVE OwnAnswer /\ CloseReachesObject
    BY DEF AnswersSafe
  <2>1. CloseReachesObject
    BY DEF IInv, CloseInv, CloseReachesObject, TypeOK, Kinds, Queued
  <2>2. QED
    BY <2>1 DEF IInv
<1>2. QED
  BY <1>1, InitInv, StepInv, PTL DEF Spec
=============================================================================
