---------------------------- MODULE SessionClaim ----------------------------
(***************************************************************************)
(* How the processes and threads of one or several evaluation runs decide, *)
(* through the files of ONE session directory, which of them executes the  *)
(* session: _run_task_with_lock (core/orchestrator/execution.py) and the   *)
(* status probe SessionStatus.from_config (core/types/session.py).         *)
(*                                                                         *)
(* The directory holds session.lock, which filelock takes with flock on    *)
(* the inode the path names.  flock[a] is "path" when actor a holds the    *)
(* flock of the file the path names now, and "orphan" when that file has   *)
(* been unlinked since: an orphaned flock excludes nobody.                 *)
(*                                                                         *)
(* opening and locking the file (one call of filelock) is one step; so is  *)
(* each other file system operation the code performs.                     *)
(***************************************************************************)
EXTENDS Naturals, FiniteSets

CONSTANTS
  Workers,          \* callers of _run_task_with_lock for this session id
  Readers,          \* callers of from_config only: planning, "batch status"
  Overwriters,      \* the workers whose config sets overwrite_sessions
  RunOutcomes,      \* outcomes a run may record
  SettledOutcomes,  \* outcomes after which a later invocation must not rerun
  Existing,         \* what results.json may hold when the behaviour begins
  Solo,             \* TRUE: one invocation at a time (one serial process)
  MaxFaults         \* bound on crashes, failing runs and refused reuses

Outcome == {"success", "unsuccessful", "unfinished", "limit_reached",
            "error", "cancelled"}
FailedOutcomes == {"error", "cancelled"}

ASSUME ClaimAssumption ==
  /\ Overwriters \subseteq Workers
  /\ Workers \cap Readers = {}
  /\ RunOutcomes \subseteq Outcome
  /\ SettledOutcomes \subseteq Outcome \ FailedOutcomes
  /\ Existing \subseteq Outcome \cup {"absent", "partial", "invalid"}
  /\ Solo \in BOOLEAN
  /\ MaxFaults \in Nat

VARIABLES
  dir,       \* the session directory exists
  lockFile,  \* session.lock exists in it
  results,   \* results.json: "absent", "partial" (being written), an outcome,
             \* or "invalid": finished by its status, but not valid results
  pc,        \* where each actor is
  seen,      \* from_config's early existence tests, [results, dir]
  status,    \* the SessionExecutionStatus the actor decided on
  flock,     \* the flock the actor holds: "none", "path" or "orphan"
  linked,    \* the results file the actor is writing is still at the path
  fresh,     \* history: the invocations begun on settled, unchanged results
  doubt,     \* history: why a worker may run a finished session, "refused" (an
             \* observer raised on it) or "met_running" (its status was sampled
             \* under another's lock), or "none"
  faults     \* crashes, failures and refusals so far (bounded by MaxFaults)

vars == <<dir, lockFile, results, pc, seen, status, flock, linked, fresh,
          doubt, faults>>

Actors == Workers \cup Readers

PCs == {"idle", "stat", "probe", "unprobe", "read", "acquire", "refresh",
        "locked", "declined", "configure", "running", "writing", "release"}
ResultsFile == Outcome \cup {"absent", "partial", "invalid"}
Doubts == {"none", "refused", "met_running"}
Statuses == {"none", "missing", "incomplete", "completed", "running"}

(***************************************************************************)
(* The two readings of results.json.  A file that does not parse, or is    *)
(* gone by the time it is opened, reads as UNKNOWN; one that is no valid   *)
(* SessionResults still has the status of a finished session.  from_config *)
(* counts limit_reached as completed; the refresh under the lock does not. *)
(***************************************************************************)
ExtractResultStatus(file) ==
  CASE file \in Outcome -> file
    [] file = "invalid" -> "success"
    [] OTHER -> "unknown"

\* Variant: the outcome itself is returned for a finished session.
FromConfigStatusRaw(sawResults, sawDir, file) ==
  IF sawResults THEN ExtractResultStatus(file)
  ELSE IF sawDir THEN "incomplete" ELSE "missing"

\* Variant: limit_reached is taken as incomplete here too.
FromConfigStatusLimitRetried(sawResults, sawDir, file) ==
  IF sawResults
    THEN IF ExtractResultStatus(file)
              \in FailedOutcomes \cup {"limit_reached", "unknown"}
           THEN "incomplete" ELSE "completed"
    ELSE IF sawDir THEN "incomplete" ELSE "missing"

\* Variant: any results.json that parses counts as completed.
FromConfigStatusAnyResult(sawResults, sawDir, file) ==
  IF sawResults
    THEN IF ExtractResultStatus(file) = "unknown" THEN "incomplete"
                                                  ELSE "completed"
    ELSE IF sawDir THEN "incomplete" ELSE "missing"

FromConfigStatus(sawResults, sawDir, file) ==
  IF sawResults
    THEN IF ExtractResultStatus(file) \in FailedOutcomes \cup {"unknown"}
           THEN "incomplete" ELSE "completed"
    ELSE IF sawDir THEN "incomplete" ELSE "missing"

\* Variant: the directory is tested before the results.
StatusFromPathsDirFirst(file, dirExists) ==
  IF dirExists THEN "incomplete"
  ELSE IF file # "absent" THEN "completed" ELSE "missing"

StatusFromPathsWithoutLock(file, dirExists) ==
  IF file # "absent"
    THEN IF ExtractResultStatus(file)
              \in FailedOutcomes \cup {"limit_reached", "unknown"}
           THEN "incomplete" ELSE "completed"
    ELSE IF dirExists THEN "incomplete" ELSE "missing"

LockedByOther(a) == \E b \in Actors \ {a} : flock[b] = "path"
Executing == {w \in Workers : pc[w] \in {"configure", "running", "writing"}}
Quiet == \A a \in Actors : pc[a] = "idle"

Unsampled == [results |-> FALSE, dir |-> FALSE]

Goto(a, to) == pc' = [pc EXCEPT ![a] = to]

\* The invocations that remain fresh when results.json becomes file.
StillFresh(file) == IF file = results THEN fresh ELSE {}

\* The actor returns (or dies): its local variables are gone.
Return(a) == /\ Goto(a, "idle")
             /\ seen' = [seen EXCEPT ![a] = Unsampled]
             /\ status' = [status EXCEPT ![a] = "none"]
             /\ fresh' = fresh \ {a}
             /\ doubt' = [w \in Workers |-> IF w = a THEN "none" ELSE doubt[w]]
-----------------------------------------------------------------------------
Init ==
  /\ results \in Existing
  /\ dir = (results # "absent")
  /\ lockFile \in {FALSE, dir}
  /\ pc = [a \in Actors |-> "idle"]
  /\ seen = [a \in Actors |-> Unsampled]
  /\ status = [a \in Actors |-> "none"]
  /\ flock = [a \in Actors |-> "none"]
  /\ linked = [w \in Workers |-> FALSE]
  /\ fresh = {}
  /\ doubt = [w \in Workers |-> "none"]
  /\ faults = 0

\* _run_task_with_lock creates the directory before it looks at the status.
Enter(w) ==
  /\ pc[w] = "idle"
  /\ Solo => Quiet
  /\ dir' = TRUE
  /\ fresh' = IF results \in SettledOutcomes THEN fresh \cup {w} ELSE fresh
  /\ Goto(w, "stat")
  /\ UNCHANGED <<lockFile, results, seen, status, flock, linked, doubt,
                 faults>>

\* A planner or a status command asks for the status only.
Look(r) ==
  /\ pc[r] = "idle"
  /\ Solo => Quiet
  /\ Goto(r, "stat")
  /\ UNCHANGED <<dir, lockFile, results, seen, status, flock, linked, fresh,
                 doubt, faults>>

\* from_config: the existence tests, made before the lock is probed.
Stat(a) ==
  /\ pc[a] = "stat"
  /\ seen' = [seen EXCEPT ![a] = [results |-> results # "absent", dir |-> dir]]
  /\ Goto(a, "probe")
  /\ UNCHANGED <<dir, lockFile, results, status, flock, linked, fresh, doubt,
                 faults>>

\* from_config returns: a worker goes on to lock, a reader is done.
Decide(a, s) ==
  \/ /\ a \in Workers
     /\ status' = [status EXCEPT ![a] = s]
     /\ seen' = [seen EXCEPT ![a] = Unsampled]
     /\ Goto(a, "acquire")
     /\ UNCHANGED <<fresh, doubt>>
  \/ a \notin Workers /\ Return(a)

\* _is_session_locked: no lock file means unlocked; a busy one means RUNNING;
\* otherwise the probe itself holds the lock until it releases it.
Probe(a) ==
  /\ pc[a] = "probe"
  /\ \/ /\ ~lockFile
        /\ Goto(a, "read")
        /\ UNCHANGED <<seen, status, flock, fresh, doubt>>
     \/ /\ lockFile /\ LockedByOther(a)
        /\ Decide(a, "running")
        /\ UNCHANGED flock
     \/ /\ lockFile /\ ~LockedByOther(a)
        /\ flock' = [flock EXCEPT ![a] = "path"]
        /\ Goto(a, "unprobe")
        /\ UNCHANGED <<seen, status, fresh, doubt>>
  /\ UNCHANGED <<dir, lockFile, results, linked, faults>>

Unprobe(a) ==
  /\ pc[a] = "unprobe"
  /\ flock' = [flock EXCEPT ![a] = "none"]
  /\ Goto(a, "read")
  /\ UNCHANGED <<dir, lockFile, results, seen, status, linked, fresh,
                 doubt, faults>>

\* from_config after the probe: results.json is read only now.
Read(a) ==
  /\ pc[a] = "read"
  /\ Decide(a, FromConfigStatus(seen[a].results, seen[a].dir, results))
  /\ UNCHANGED <<dir, lockFile, results, flock, linked, faults>>
-----------------------------------------------------------------------------
\* lock.acquire(timeout=0) fails: the session is taken to be running and is
\* skipped.
Skip(w) ==
  /\ pc[w] = "acquire"
  /\ lockFile /\ LockedByOther(w)
  /\ Return(w)
  /\ UNCHANGED <<dir, lockFile, results, flock, linked, faults>>

\* lock.acquire(timeout=0) succeeds, on a new file when the path names none
\* (filelock creates the parent directory as well).
Acquire(w) ==
  /\ pc[w] = "acquire"
  /\ ~(lockFile /\ LockedByOther(w))
  /\ dir' = TRUE
  /\ lockFile' = TRUE
  /\ flock' = [flock EXCEPT ![w] = "path"]
  /\ Goto(w, IF status[w] = "running" THEN "refresh" ELSE "locked")
  /\ UNCHANGED <<results, seen, status, linked, fresh, doubt, faults>>

\* Only a RUNNING sample is refreshed once the lock is held.
Refresh(w) ==
  /\ pc[w] = "refresh"
  /\ doubt' = [doubt EXCEPT ![w] = "met_running"]
  /\ status' = [status EXCEPT ![w] = StatusFromPathsWithoutLock(results, dir)]
  /\ Goto(w, "locked")
  /\ UNCHANGED <<dir, lockFile, results, seen, flock, linked, fresh,
                 faults>>

\* _try_reuse_completed gets as far as the observers: results.json parses and
\* passes SessionResults.model_validate.
CanReuse(w) == /\ status[w] = "completed"
               /\ w \notin Overwriters
               /\ results \in Outcome

\* _try_reuse_completed: the observers take the recorded results.
Reuse(w) ==
  /\ pc[w] = "locked"
  /\ CanReuse(w)
  /\ Goto(w, "release")
  /\ UNCHANGED <<dir, lockFile, results, seen, status, flock, linked, fresh,
                 doubt, faults>>

\* An observer raises on them: the session is executed after all.
RefuseReuse(w) ==
  /\ pc[w] = "locked"
  /\ CanReuse(w)
  /\ faults < MaxFaults
  /\ faults' = faults + 1
  /\ doubt' = [doubt EXCEPT ![w] = "refused"]
  /\ Goto(w, "declined")
  /\ UNCHANGED <<dir, lockFile, results, seen, status, flock, linked, fresh>>

ShouldRemove(w) == dir /\ (w \in Overwriters \/ status[w] = "incomplete")

\* shutil.rmtree unlinks what it removes, the lock file included, whoever
\* holds it; it may fail part way and leave the directory and some files.
Remove(removed) ==
  /\ lockFile' = (lockFile /\ "lock" \notin removed)
  /\ results' = IF "results" \in removed THEN "absent" ELSE results
  /\ flock' = [a \in Actors |->
                 IF "lock" \in removed /\ flock[a] = "path" THEN "orphan"
                                                            ELSE flock[a]]
  /\ linked' = [v \in Workers |-> linked[v] /\ "results" \notin removed]
  /\ fresh' = StillFresh(results')

\* _cleanup_session_dir, after _try_reuse_completed returned False.
Cleanup(w) ==
  /\ \/ pc[w] = "locked" /\ ~CanReuse(w)
     \/ pc[w] = "declined"
  /\ \/ /\ ShouldRemove(w)
        /\ \/ Remove({"lock", "results"}) /\ dir' = FALSE
           \/ /\ \E removed \in SUBSET {"lock", "results"} : Remove(removed)
              /\ dir' = TRUE
     \/ /\ ~ShouldRemove(w)
        /\ UNCHANGED <<dir, lockFile, results, flock, linked, fresh>>
  /\ Goto(w, "configure")
  /\ UNCHANGED <<seen, status, doubt, faults>>

\* _write_session_config creates the directory again; the run starts.
Configure(w) ==
  /\ pc[w] = "configure"
  /\ dir' = TRUE
  /\ Goto(w, "running")
  /\ UNCHANGED <<lockFile, results, seen, status, flock, linked, fresh, doubt,
                 faults>>

\* ResultsObserver opens results.json for writing, which truncates it.
OpenResults(w) ==
  /\ pc[w] = "running"
  /\ dir' = TRUE
  /\ results' = "partial"
  /\ linked' = [linked EXCEPT ![w] = TRUE]
  /\ fresh' = {}
  /\ Goto(w, "writing")
  /\ UNCHANGED <<lockFile, seen, status, flock, doubt, faults>>

\* The outcome is complete on disk, if the open file is still at the path.
WriteResults(w, outcome) ==
  /\ pc[w] = "writing"
  /\ \/ outcome \notin FailedOutcomes /\ UNCHANGED faults
     \/ /\ outcome \in FailedOutcomes
        /\ faults < MaxFaults
        /\ faults' = faults + 1
  /\ results' = IF linked[w] THEN outcome ELSE results
  /\ linked' = [linked EXCEPT ![w] = FALSE]
  /\ fresh' = StillFresh(results')
  /\ Goto(w, "release")
  /\ UNCHANGED <<dir, lockFile, seen, status, flock, doubt>>

\* run_session_config raises, before it opens results.json or while writing.
Fail(w) ==
  /\ pc[w] \in {"running", "writing"}
  /\ faults < MaxFaults
  /\ faults' = faults + 1
  /\ linked' = [linked EXCEPT ![w] = FALSE]
  /\ Goto(w, "release")
  /\ UNCHANGED <<dir, lockFile, results, seen, status, flock, linked, fresh,
                 doubt>>

\* Variant: an incomplete directory is removed on the way out, not before
\* the run.
ReleaseThenCleanup(w) ==
  /\ pc[w] = "release"
  /\ IF status[w] = "incomplete"
       THEN /\ results' = "absent"
            /\ lockFile' = FALSE
            /\ linked' = [v \in Workers |-> FALSE]
       ELSE UNCHANGED <<results, lockFile, linked>>
  /\ flock' = [flock EXCEPT ![w] = "none"]
  /\ Return(w)
  /\ UNCHANGED <<dir, faults>>

\* The finally clause of _run_task_with_lock.
Release(w) ==
  /\ pc[w] = "release"
  /\ flock' = [flock EXCEPT ![w] = "none"]
  /\ Return(w)
  /\ UNCHANGED <<dir, lockFile, results, linked, faults>>

\* The process dies; the kernel drops its flock and the files stay.
Crash(w) ==
  /\ pc[w] # "idle"
  /\ faults < MaxFaults
  /\ faults' = faults + 1
  /\ flock' = [flock EXCEPT ![w] = "none"]
  /\ linked' = [linked EXCEPT ![w] = FALSE]
  /\ Return(w)
  /\ UNCHANGED <<dir, lockFile, results>>
-----------------------------------------------------------------------------
StatusStep(a) == Stat(a) \/ Probe(a) \/ Unprobe(a) \/ Read(a)

ClaimStep(w) ==
  \/ StatusStep(w) \/ Skip(w) \/ Acquire(w) \/ Refresh(w) \/ Reuse(w)
  \/ Cleanup(w) \/ Configure(w) \/ OpenResults(w) \/ Release(w)
  \/ \E outcome \in RunOutcomes : WriteResults(w, outcome)

Next ==
  \/ \E w \in Workers : Enter(w) \/ ClaimStep(w) \/ RefuseReuse(w)
                        \/ Fail(w) \/ Crash(w)
  \/ \E r \in Readers : Look(r) \/ StatusStep(r)

Spec == Init /\ [][Next]_vars

\* An invocation that started runs on unless it crashes, and the run is
\* started again and again, although status commands get in between.
Fairness == /\ \A w \in Workers : WF_vars(ClaimStep(w)) /\ SF_vars(Enter(w))
            /\ \A r \in Readers : WF_vars(StatusStep(r))

FairSpec == Spec /\ Fairness
-----------------------------------------------------------------------------
TypeOK ==
  /\ dir \in BOOLEAN
  /\ lockFile \in BOOLEAN
  /\ results \in ResultsFile
  /\ pc \in [Actors -> PCs]
  /\ seen \in [Actors -> [results : BOOLEAN, dir : BOOLEAN]]
  /\ status \in [Actors -> Statuses]
  /\ flock \in [Actors -> {"none", "path", "orphan"}]
  /\ linked \in [Workers -> BOOLEAN]
  /\ fresh \in SUBSET Workers
  /\ doubt \in [Workers -> Doubts]
  /\ faults \in 0..MaxFaults

\* An invocation of _run_task_with_lock that begins when the session has
\* already finished, and stays so in place, executes it again for three
\* reasons only, whatever other processes probe, lock, delete or write
\* meanwhile: overwrite_sessions asks for it, an observer raised on the
\* results to reuse, or the status was sampled while another held the lock
\* and the session had stopped at a limit.
FreshNeverReruns ==
  \A w \in fresh \cap Executing :
    \/ w \in Overwriters
    \/ doubt[w] = "refused"
    \/ doubt[w] = "met_running" /\ results = "limit_reached"

\* No session is lost between invocations that skip for each other: when all
\* of them have returned, without crashes, failed runs or status readers in
\* between, one of them has recorded an outcome that is still on disk.
NoSessionLost ==
  Quiet /\ dir /\ faults = 0 /\ Readers = {} => results \in Outcome

\* With failures bounded, re-running the same configuration gets the session
\* finished for good: every crash, partial write, refused reuse or recorded error
\* leaves a directory that some later invocation cleans up and executes.
EventuallySettled == <>[](results \in SettledOutcomes)

(***************************************************************************)
(* The abstract slot of SessionSlot, for one invocation at a time.         *)
(***************************************************************************)
Refusing == {w \in Workers : doubt[w] = "refused" /\ pc[w] # "release"}

Slot == INSTANCE SessionSlot WITH
  executing <- Executing,
  refused <- Refusing,
  outcome <- IF results \in SettledOutcomes THEN results ELSE "todo"

\* Used one invocation at a time, the session directory behaves as a slot
\* that one worker at a time executes and that keeps its settled outcome,
\* except where a worker overwrites it or its observers refuse it.
ImplementsSlot == Slot!Spec
=============================================================================
