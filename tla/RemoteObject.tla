---------------------------- MODULE RemoteObject ----------------------------
(***************************************************************************)
(* An object hosted by a runner and used through an ObjectProxy: calls go  *)
(* to the object itself ("direct"), to a worker thread or process over two *)
(* queues, or to an HTTP service in this process ("service"), in a         *)
(* subprocess ("venv") or in a container ("docker").  The life of the      *)
(* worker goes from with_runner() to close(), to the exit or the death of  *)
(* the process that owns it, and to the container reaper of a later run.   *)
(***************************************************************************)
EXTENDS Naturals, Sequences

CONSTANTS Callers,    \* the threads that hold the proxy
          Owner,      \* the one that made it, and closes it
          MaxCalls    \* bound: calls of each caller

ASSUME RemoteAssumption == Owner \in Callers /\ MaxCalls \in Nat \ {0}

VARIABLES kind,       \* the runner
          worker,     \* "new", "booting", "up", "failed", "over" or "dead"
          taken,      \* another service listens on the port that was chosen
          reqs,       \* request queue
          resps,      \* response queue
          serving,    \* requests accepted by the HTTP server
          pc, now,    \* what each caller is doing, and its request
          calls,      \* calls made
          closing,    \* ObjectProxy.close()
          closeRan,   \* history: the object was asked to close
          blurred,    \* history: calls overlapped (each other, or the end of the
                      \* transport), or a wait was interrupted
          right       \* history: each answer went to the one who asked

vars == <<kind, worker, taken, reqs, resps, serving, pc, now, calls, closing,
          closeRan, blurred, right>>

Queued == kind \in {"thread", "process"}
Http   == kind \in {"service", "venv", "docker"}
Kinds  == {"direct", "thread", "process", "service", "venv", "docker"}

SHUTDOWN == [by |-> Owner, n |-> 0, op |-> "shutdown"]
Ops      == {"use", "close"}
Requests == [by : Callers, n : 1..MaxCalls + 1, op : Ops]
NoRequest == [by |-> Owner, n |-> 0, op |-> "use"]

\* How a request ends: a value, an AttributeError, another exception.
Outcomes == {"ok", "attr", "error"}

TypeOK ==
    /\ kind \in Kinds
    /\ worker \in {"new", "booting", "up", "failed", "over", "dead"}
    /\ taken \in BOOLEAN
    /\ reqs \in Seq(Requests \cup {SHUTDOWN})
    /\ resps \in Seq([to : Requests, out : Outcomes])
    /\ serving \subseteq Requests
    /\ pc \in [Callers -> {"starting", "idle", "sent", "waiting"}]
    /\ now \in [Callers -> Requests \cup {NoRequest}]
    /\ calls \in [Callers -> 0..MaxCalls + 1]
    /\ closing \in {"open", "calling", "stopping", "joining", "returned",
                     "raised", "nostart", "killed", "replaced"}
    /\ closeRan \in BOOLEAN /\ blurred \in BOOLEAN /\ right \in BOOLEAN

Init ==
    /\ kind \in Kinds
    /\ worker = IF kind = "direct" THEN "up" ELSE "new"
    /\ taken = FALSE
    /\ reqs = <<>> /\ resps = <<>> /\ serving = {}
    /\ pc = [c \in Callers |-> IF kind # "direct" /\ c = Owner THEN "starting" ELSE "idle"]
    /\ now = [c \in Callers |-> NoRequest]
    /\ calls = [c \in Callers |-> 0]
    /\ closing = "open"
    /\ closeRan = FALSE /\ blurred = FALSE /\ right = TRUE

-----------------------------------------------------------------------------
(* What an exception is after the wire: pickled copies keep their type, so  *)
(* do builtin types by their name; any other becomes a RuntimeError.        *)

Rebuilt(out, pickles, builtin) == IF pickles \/ builtin THEN out ELSE "error"

\* What a proxy can learn of an operation of the object: AttributeError is a
\* builtin, a subclass of it that cannot be pickled is not recognised.
Handled == {Rebuilt(out, p, b) : out \in Outcomes \ {"ok"}, p \in BOOLEAN, b \in BOOLEAN} \cup {"ok"}

-----------------------------------------------------------------------------
(* How a caller goes on once its request r has ended with out. *)

\* ObjectProxy.close() of the thread, process and direct runners, and the one
\* of ServiceRunner: only an AttributeError of the remote close is ignored.
AfterClose(out) == IF out \in {"ok", "attr"} THEN "stopping" ELSE "raised"

\* make_close() of the venv and docker runners ignores every exception.
AfterMadeClose(out) == "stopping"

Ends(c, op, out) ==
    /\ pc' = [pc EXCEPT ![c] = "idle"]
    /\ closing' = IF op = "use" THEN closing
                  ELSE IF kind \in {"venv", "docker"} THEN AfterMadeClose(out)
                  ELSE AfterClose(out)

\* Clients of HTTP are closed first; queues are dropped when join() is over.
Severed == closing \in {"returned", "nostart"} \/ (Http /\ closing = "joining")

\* A caller turns to the proxy; after close() only others still try.
Begins(c, op) ==
    /\ pc[c] = "idle" /\ pc[Owner] # "starting"
    /\ closing \notin {"nostart", "killed", "replaced"}
    /\ IF op = "close" THEN c = Owner /\ closing = "open"
       ELSE calls[c] < MaxCalls /\ (c = Owner => closing = "open")
    /\ calls' = [calls EXCEPT ![c] = @ + 1]
    /\ now' = [now EXCEPT ![c] = [by |-> c, n |-> calls[c] + 1, op |-> op]]

Ran(op) == closeRan' = (closeRan \/ op = "close")

-----------------------------------------------------------------------------
(* Direct: the object is called in place. *)

DirectCall(c, op) ==
    /\ kind = "direct" /\ Begins(c, op) /\ Ran(op)
    /\ \E out \in Outcomes : Ends(c, op, out)
    /\ UNCHANGED <<kind, worker, taken, reqs, resps, serving, blurred, right>>

-----------------------------------------------------------------------------
(* Thread and process: two queues, and a worker that answers in order. *)

\* The worker constructs the object; start() waits for the verdict.
Construct ==
    /\ Queued /\ worker = "new" /\ pc[Owner] = "starting"
    /\ \/ worker' = "up" /\ pc' = [pc EXCEPT ![Owner] = "idle"] /\ UNCHANGED closing
       \/ worker' = "failed" /\ closing' = "nostart" /\ pc' = [pc EXCEPT ![Owner] = "idle"]
       \/ worker' = "dead" /\ UNCHANGED <<pc, closing>>
    /\ UNCHANGED <<kind, taken, reqs, resps, serving, now, calls, closeRan, blurred, right>>

Put(c, op, next) ==
    /\ reqs' = Append(reqs, now'[c])
    /\ pc' = [pc EXCEPT ![c] = next]
    /\ closing' = IF op = "close" THEN "calling" ELSE closing
    /\ blurred' = (blurred \/ closing # "open" \/ \E d \in Callers \ {c} : pc[d] # "idle")

\* _rpc of the thread: test the thread, put, and wait on the shared queue.
ThreadRequest(c, op) ==
    /\ kind = "thread" /\ Begins(c, op)
    /\ IF worker = "up" /\ ~Severed THEN Put(c, op, "waiting")
       ELSE Ends(c, op, "error") /\ UNCHANGED <<reqs, blurred>>
    /\ UNCHANGED <<kind, worker, taken, resps, serving, closeRan, right>>

\* _rpc of the process: the same, with a second test of the process ...
ProcessRequest(c, op) ==
    /\ kind = "process" /\ Begins(c, op)
    /\ IF worker = "up" /\ ~Severed THEN Put(c, op, "sent")
       ELSE Ends(c, op, "error") /\ UNCHANGED <<reqs, blurred>>
    /\ UNCHANGED <<kind, worker, taken, resps, serving, closeRan, right>>

\* ... before the get, which has no timeout.
Recheck(c) ==
    /\ pc[c] = "sent"
    /\ IF worker = "up" THEN pc' = [pc EXCEPT ![c] = "waiting"] /\ UNCHANGED closing
       ELSE Ends(c, now[c].op, "error")
    /\ UNCHANGED <<kind, worker, taken, reqs, resps, serving, now, calls, closeRan, blurred, right>>

\* Whoever gets first takes the oldest answer, whoever it was meant for.
Receive(c) ==
    /\ Queued /\ pc[c] = "waiting" /\ resps # <<>>
    /\ resps' = Tail(resps)
    /\ right' = (right /\ Head(resps).to = now[c])
    /\ Ends(c, now[c].op, Head(resps).out)
    /\ UNCHANGED <<kind, worker, taken, reqs, serving, now, calls, closeRan, blurred>>

\* Variants: a failed request is answered twice; not at all.
AnswerTwice(r, out) ==
    resps' = resps \o (IF out = "error" THEN <<[to |-> r, out |-> out], [to |-> r, out |-> "ok"]>>
                       ELSE <<[to |-> r, out |-> out]>>)

AnswerNone(r, out) ==
    resps' = IF out = "error" THEN resps ELSE Append(resps, [to |-> r, out |-> out])

\* One turn of the worker's loop: a request is handled and answered.
Answer(r, out) == resps' = Append(resps, [to |-> r, out |-> out])

Work ==
    /\ Queued /\ worker = "up" /\ reqs # <<>>
    /\ reqs' = Tail(reqs)
    /\ IF Head(reqs) = SHUTDOWN
       THEN worker' = "over" /\ UNCHANGED <<resps, closeRan>>
       ELSE /\ \E out \in Handled : Answer(Head(reqs), out)
            /\ Ran(Head(reqs).op) /\ UNCHANGED worker
    /\ UNCHANGED <<kind, taken, serving, pc, now, calls, closing, blurred, right>>

-----------------------------------------------------------------------------
(* HTTP: each request has its own connection and its own server thread. *)

\* start() of the three services: the environment may be missing, the
\* constructor may fail, and the port found free may be another's by now.
Launched(state, start) ==
    /\ worker' = state /\ start \in {"starting", "idle"}
    /\ pc' = [pc EXCEPT ![Owner] = start]
    /\ UNCHANGED closing

NoStart(state) ==
    /\ worker' = state /\ closing' = "nostart"
    /\ pc' = [pc EXCEPT ![Owner] = "idle"]

\* Here the health check is answered by whoever holds the port, and a timeout
\* leaves the server running.
LaunchService ==
    /\ kind = "service" /\ worker = "new"
    /\ \/ NoStart("failed") /\ UNCHANGED taken
       \/ Launched("dead", "idle") /\ taken' = TRUE
       \/ Launched("up", "idle") /\ UNCHANGED taken
       \/ NoStart("up") /\ UNCHANGED taken

\* The subprocess boots while the health check polls the port.
LaunchVenv ==
    /\ kind = "venv" /\ worker = "new"
    /\ \/ NoStart("failed") /\ UNCHANGED taken
       \/ Launched("booting", "starting") /\ taken' \in BOOLEAN

\* EnvironmentManager or docker build provides the image, or fails.
EnsureImage == {"image", "raised"}

\* docker run itself fails when the port is taken.
LaunchDocker ==
    /\ kind = "docker" /\ worker = "new" /\ UNCHANGED taken
    /\ \E image \in EnsureImage :
          \/ NoStart("failed")
          \/ image = "image" /\ Launched("booting", "starting")

\* _wait_for_health(): any service on the port will do.
Healthy ==
    /\ Http /\ pc[Owner] = "starting" /\ worker # "new" /\ (worker = "up" \/ taken)
    /\ Launched(worker, "idle") /\ UNCHANGED taken

\* It gives up after its timeout, and the runner stops what it has started.
Unhealthy ==
    /\ kind \in {"venv", "docker"} /\ pc[Owner] = "starting" /\ worker \in {"booting", "dead"}
    /\ NoStart("over") /\ UNCHANGED taken

\* The server in the subprocess binds its port, or finds it taken and exits.
Boots ==
    /\ Http /\ worker = "booting"
    /\ worker' = IF taken THEN "dead" ELSE "up"
    /\ UNCHANGED <<pc, closing, taken>>

Launch ==
    /\ (LaunchService \/ LaunchVenv \/ LaunchDocker \/ Healthy \/ Unhealthy \/ Boots)
    /\ UNCHANGED <<kind, reqs, resps, serving, now, calls, closeRan, blurred, right>>

\* The process test of the venv runner; the others try the connection.
Alive == kind = "venv" => worker \in {"booting", "up"}

HttpRequest(c, op) ==
    /\ Http /\ Begins(c, op)
    /\ CASE Severed \/ ~Alive -> Ends(c, op, "error") /\ UNCHANGED <<serving, right>>
         [] ~Severed /\ Alive /\ taken ->      \* another object answers
                /\ right' = FALSE /\ UNCHANGED serving
                /\ \E out \in Handled : Ends(c, op, out)
         [] ~Severed /\ Alive /\ ~taken /\ worker = "up" ->
                /\ serving' = serving \cup {now'[c]} /\ UNCHANGED right
                /\ pc' = [pc EXCEPT ![c] = "waiting"]
                /\ closing' = IF op = "close" THEN "calling" ELSE closing
         [] OTHER -> Ends(c, op, "error") /\ UNCHANGED <<serving, right>>
    /\ UNCHANGED <<kind, worker, taken, reqs, resps, closeRan, blurred>>

\* The service handles a request, also one whose caller has given up.
Serve(r) ==
    /\ Http /\ worker = "up" /\ r \in serving
    /\ serving' = serving \ {r} /\ Ran(r.op)
    /\ IF pc[r.by] = "waiting" /\ now[r.by] = r
       THEN \E out \in Handled : Ends(r.by, r.op, out)
       ELSE UNCHANGED <<pc, closing>>
    /\ UNCHANGED <<kind, worker, taken, reqs, resps, now, calls, blurred, right>>

\* The timeout of the client, or the end of the connection.
GivesUp(c) ==
    /\ Http /\ pc[c] = "waiting" /\ Ends(c, now[c].op, "error")
    /\ UNCHANGED <<kind, worker, taken, reqs, resps, serving, now, calls, closeRan, blurred, right>>

-----------------------------------------------------------------------------
(* The end of the transport. *)

\* Variant: join without the sentinel.
StopThreadSilently ==
    /\ kind = "thread" /\ closing' = "joining" /\ UNCHANGED <<worker, reqs, serving>>

\* Transport.close() of the thread: the sentinel, then join with a timeout.
StopThread ==
    /\ kind = "thread"
    /\ reqs' = IF worker = "up" THEN Append(reqs, SHUTDOWN) ELSE reqs
    /\ closing' = "joining"
    /\ UNCHANGED <<worker, serving>>

\* _terminate(): the sentinel, join with a timeout, then a signal (Joined).
StopProcess ==
    /\ kind = "process"
    /\ reqs' = Append(reqs, SHUTDOWN)
    /\ closing' = "joining"
    /\ UNCHANGED <<worker, serving>>

\* _close() of ServiceRunner tells the server to exit.
StopService ==
    /\ kind = "service" /\ closing' = "joining"
    /\ UNCHANGED <<worker, reqs, serving>>

\* _stop_process(): SIGTERM for the process group, SIGKILL if it stays.
StopVenv ==
    /\ kind = "venv" /\ closing' = "returned"
    /\ worker' = "over" /\ serving' = {} /\ UNCHANGED reqs

\* _stop_container(): docker stop, docker rm -f.
StopDocker ==
    /\ kind = "docker" /\ closing' = "returned"
    /\ worker' = "over" /\ serving' = {} /\ UNCHANGED reqs

StopDirect ==
    /\ kind = "direct" /\ closing' = "returned"
    /\ UNCHANGED <<worker, reqs, serving>>

Stop ==
    /\ closing = "stopping"
    /\ (StopDirect \/ StopThread \/ StopProcess \/ StopService \/ StopVenv \/ StopDocker)
    /\ UNCHANGED <<kind, taken, resps, pc, now, calls, closeRan, blurred, right>>

\* close() raised: the proxy is dropped, and __del__ closes the transport.
\* Process groups and containers are no part of it but stop at exit; the server
\* of a "service" is left.
Collect ==
    /\ closing = "raised"
    /\ (StopThread \/ StopProcess \/ StopDirect \/ StopVenv \/ StopDocker)
    /\ UNCHANGED <<kind, taken, resps, pc, now, calls, closeRan, blurred, right>>

\* join() has returned, or its timeout has passed: a thread may go on, a
\* process is terminated, a server finishes what it has accepted.
Joined ==
    /\ closing = "joining" /\ closing' = "returned"
    /\ worker' = IF kind = "process" /\ worker = "up" THEN "over" ELSE worker
    /\ UNCHANGED <<kind, taken, reqs, resps, serving, pc, now, calls, closeRan, blurred, right>>

ServerExits ==
    /\ kind = "service" /\ worker = "up" /\ closing \in {"joining", "returned"} /\ serving = {}
    /\ worker' = "over"
    /\ UNCHANGED <<kind, taken, reqs, resps, serving, pc, now, calls, closing, closeRan, blurred, right>>

-----------------------------------------------------------------------------
(* Faults. *)

\* A worker dies: killed, or by an exception the loop does not catch
\* (SystemExit, a request that cannot be unpickled).
Die ==
    /\ kind \notin {"direct", "service"} /\ worker \in {"booting", "up"}
    /\ worker' = "dead" /\ serving' = {}
    /\ UNCHANGED <<kind, taken, reqs, resps, pc, now, calls, closing, closeRan, blurred, right>>

\* The reaper knows containers by the labels that docker run and the patched
\* SDK give them, and takes an owner for dead when its PID is.
Labelled == kind = "docker" /\ worker \in {"booting", "up"}
PidAlive == closing # "killed"

\* docker rm -f
Remove == worker' = "over" /\ serving' = {}

\* At a signal and at exit a process removes the containers it labelled.
ReapOwn == IF Labelled THEN Remove ELSE UNCHANGED <<worker, serving>>

\* Ctrl-C while the main thread waits, at most once: containers go at once,
\* the request stays where it is, and no close() catches the exception.
Interrupt ==
    /\ pc[Owner] \in {"sent", "waiting"} /\ ~blurred
    /\ ReapOwn
    /\ blurred' = TRUE
    /\ pc' = [pc EXCEPT ![Owner] = "idle"]
    /\ closing' = IF now[Owner].op = "close" THEN "raised" ELSE closing
    /\ UNCHANGED <<kind, taken, reqs, resps, now, calls, closeRan, right>>

\* The owning process is killed: by SIGTERM, whose handler cleans up first, or
\* by SIGKILL.  Threads go with it, other processes and containers do not.
\* Its PID may be given to a new process ("replaced").
Killed ==
    /\ pc[Owner] # "starting" /\ closing \notin {"nostart", "killed", "replaced", "returned"}
    /\ closing' \in {"killed", "replaced"}
    /\ pc' = [c \in Callers |-> "idle"]
    /\ \/ ReapOwn /\ kind = "docker"
       \/ /\ worker' = IF kind \in {"thread", "service"} /\ worker = "up" THEN "over" ELSE worker
          /\ UNCHANGED serving
    /\ UNCHANGED <<kind, taken, reqs, resps, now, calls, closeRan, blurred, right>>

\* The next run, of any process, begins with the containers of dead owners.
ReapOrphans ==
    /\ Labelled /\ closing \in {"killed", "replaced"} /\ ~PidAlive
    /\ Remove
    /\ UNCHANGED <<kind, taken, reqs, resps, pc, now, calls, closing, closeRan, blurred, right>>

\* No caller is owed an answer that can still come.
Stuck(c) == Queued /\ worker # "up" /\ resps = <<>> /\ pc[c] \in {"starting", "waiting"}

Finished == (\A c \in Callers : pc[c] = "idle" \/ Stuck(c)) /\ UNCHANGED vars

Request == \E c \in Callers, op \in Ops :
    \/ DirectCall(c, op)  \/ ThreadRequest(c, op)
    \/ ProcessRequest(c, op) \/ HttpRequest(c, op)

Caller(c) == Recheck(c) \/ Receive(c) \/ GivesUp(c)

Ending == Stop \/ Collect \/ Joined \/ ServerExits

Next ==
    \/ Construct \/ Launch \/ Request \/ Work \/ Ending
    \/ Die \/ Interrupt \/ Killed \/ ReapOrphans \/ Finished
    \/ \E c \in Callers : Caller(c)
    \/ \E r \in serving : Serve(r)

\* The worker runs, its object's methods return, timeouts pass, and a proxy
\* whose close() raised is collected.  After a death there is another run.
\* Nobody has to make calls.
Fairness ==
    /\ WF_vars(Construct) /\ WF_vars(Launch) /\ WF_vars(Work) /\ WF_vars(Ending)
    /\ WF_vars(ReapOrphans)
    /\ WF_vars(\E r \in serving : Serve(r))
    /\ \A c \in Callers : WF_vars(Caller(c))

Spec == Init /\ [][Next]_vars /\ Fairness

-----------------------------------------------------------------------------
(* Correctness. *)

\* An answer belongs to the call that receives it, unless calls through the
\* two shared queues overlapped or the wait of an earlier one was interrupted
\* (thread.py _rpc and process.py _rpc put and get without a lock), or the port
\* was taken between find_free_port() and bind; a container notices that.
OwnAnswer == right \/ (Queued /\ blurred) \/ (kind \in {"service", "venv"} /\ taken)

\* When close() is over, the object has been asked to close before its worker
\* was stopped, unless the worker died or calls were mixed up.  The closes that
\* make_close() builds do not promise it: they also ignore a timeout.
CloseReachesObject ==
    closing = "returned" /\ kind \notin {"venv", "docker"} /\ worker # "dead" /\ ~blurred
        => closeRan

\* A caller of an ObjectProxy gets the answer to its own call, and close() ends
\* the worker only after the object itself was asked to close.
AnswersSafe == TypeOK /\ OwnAnswer /\ CloseReachesObject

\* A call ends, whatever dies; only the queues can leave a caller waiting, when
\* the worker died on the call, or, if calls overlap, when close() was quicker.
CallsEnd ==
    \A c \in Callers :
        pc[c] # "idle" ~>
            pc[c] = "idle" \/ (Queued /\ (worker = "dead" \/ (worker = "over" /\ blurred)))

\* Once close() is over, by an exception or not, the start has failed or the
\* owner is dead, nothing of the runner keeps running, except: the server of a
\* service whose start or remote close failed; subprocesses of an owner that was
\* killed; and a container whose owner's PID was given to a new process.
Over == {"returned", "raised", "nostart", "killed", "replaced"}

Survives ==
    \/ kind = "direct"
    \/ kind = "service" /\ closing \in {"raised", "nostart"}
    \/ kind \in {"process", "venv"} /\ closing \in {"killed", "replaced"}
    \/ kind = "docker" /\ closing = "replaced"

Reaped == closing \in Over ~> (worker \notin {"booting", "up"} \/ Survives)

=============================================================================
