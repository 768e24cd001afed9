------------------------------ MODULE RunProofs ------------------------------
(***************************************************************************)
(* The proofs about a run and its session directories.  First SessionClaim,*)
(* for any sets of workers, readers and overwriters: type correctness,     *)
(* for what reasons an invocation which begins on a finished session may   *)
(* execute it again, that concurrent invocations lose no session, and that *)
(* serial ones implement SessionSlot.  Then RunExecutor, whose session     *)
(* tasks are such claims, for any set of tasks, any number of workers and  *)
(* any interference of other processes: type correctness, that the end of  *)
(* a run is reported at most once, that a task has at most one result,     *)
(* that only completed sessions are scored, that an aborted run starts no  *)
(* session its pool had not picked up, and that a run that ends in success *)
(* lost none.                                                              *)
(***************************************************************************)
EXTENDS SessionClaim, RunExecutor, TLAPS

\* Whatever status from_config returns, the variables it sets keep their type.
LEMMA DecideTypes ==
  ASSUME TypeOK, NEW a \in Actors, NEW s \in Statuses, Decide(a, s)
  PROVE  /\ pc' \in [Actors -> PCs]
         /\ seen' \in [Actors -> [results : BOOLEAN, dir : BOOLEAN]]
         /\ status' \in [Actors -> Statuses]
         /\ fresh' \in SUBSET Workers
         /\ doubt' \in [Workers -> Doubts]
<1>1. Unsampled \in [results : BOOLEAN, dir : BOOLEAN]
  BY DEF Unsampled
<1>2. /\ \E to \in PCs : pc' = [pc EXCEPT ![a] = to]
      /\ seen' = [seen EXCEPT ![a] = Unsampled]
      /\ \E st \in Statuses : status' = [status EXCEPT ![a] = st]
      /\ fresh' \in {fresh, fresh \ {a}}
  BY DEF Decide, Return, Goto, PCs, Statuses
<1>3. doubt' \in [Workers -> Doubts]
  BY DEF Decide, Return, TypeOK, Doubts
<1>4. QED
  BY <1>1, <1>2, <1>3 DEF TypeOK

\* Removing any part of the directory keeps the variables it sets in type.
LEMMA RemoveTypes ==
  ASSUME TypeOK, NEW removed \in SUBSET {"lock", "results"}, Remove(removed)
  PROVE  /\ lockFile' \in BOOLEAN
         /\ results' \in ResultsFile
         /\ flock' \in [Actors -> {"none", "path", "orphan"}]
         /\ linked' \in [Workers -> BOOLEAN]
         /\ fresh' \in SUBSET Workers
  BY DEF TypeOK, Remove, ResultsFile, StillFresh

\* TypeOK is preserved by every step.
LEMMA TypeOKStep == TypeOK /\ [Next]_vars => TypeOK'
<1> SUFFICES ASSUME TypeOK, [Next]_vars PROVE TypeOK'
  OBVIOUS
<1> USE ClaimAssumption
    DEF TypeOK, Actors, PCs, ResultsFile, Outcome, FailedOutcomes, Statuses,
        Doubts, Goto, Return, Unsampled, StillFresh
<1>1. ASSUME NEW w \in Workers, Enter(w) PROVE TypeOK'
  BY <1>1 DEF Enter
<1>2. ASSUME NEW r \in Readers, Look(r) PROVE TypeOK'
  BY <1>2 DEF Look
<1>3. ASSUME NEW a \in Actors, StatusStep(a) PROVE TypeOK'
  <2>1. CASE Stat(a)
    BY <2>1 DEF Stat
  <2>2. CASE Probe(a)
    <3>1. CASE ~lockFile
      BY <2>2, <3>1 DEF Probe
    <3>2. CASE lockFile /\ LockedByOther(a)
      BY <2>2, <3>2, DecideTypes DEF Probe
    <3>3. CASE lockFile /\ ~LockedByOther(a)
      <4>1. /\ flock' = [flock EXCEPT ![a] = "path"]
            /\ pc' = [pc EXCEPT ![a] = "unprobe"]
            /\ UNCHANGED <<seen, status, fresh, doubt, dir, lockFile,
                           results, linked, faults>>
        BY <2>2, <3>3 DEF Probe
      <4> QED BY <4>1
    <3>4. QED
      BY <2>2, <3>1, <3>2, <3>3
  <2>3. CASE Unprobe(a)
    BY <2>3 DEF Unprobe
  <2>4. CASE Read(a)
    <3>1. FromConfigStatus(seen[a].results, seen[a].dir, results) \in Statuses
      BY DEF FromConfigStatus
    <3>2. QED
      BY <2>4, <3>1, DecideTypes DEF Read
  <2>5. QED
    BY <1>3, <2>1, <2>2, <2>3, <2>4 DEF StatusStep
<1>4. ASSUME NEW w \in Workers, ClaimStep(w) PROVE TypeOK'
  <2>1. CASE StatusStep(w)
    BY <1>3, <2>1
  <2>2. CASE Skip(w)
    BY <2>2 DEF Skip
  <2>3. CASE Acquire(w)
    BY <2>3 DEF Acquire
  <2>4. CASE Refresh(w)
    BY <2>4 DEF Refresh, StatusFromPathsWithoutLock, ExtractResultStatus
  <2>5. CASE Reuse(w)
    BY <2>5 DEF Reuse
  <2>6. CASE Cleanup(w)
    <3>1. CASE ShouldRemove(w)
      <4>1. PICK removed \in SUBSET {"lock", "results"} : Remove(removed)
        BY <2>6, <3>1 DEF Cleanup
      <4>2. QED
        BY <2>6, <3>1, <4>1, RemoveTypes DEF Cleanup
    <3>2. CASE ~ShouldRemove(w)
      BY <2>6, <3>2 DEF Cleanup
    <3>3. QED
      BY <3>1, <3>2
  <2>7. CASE Configure(w)
    BY <2>7 DEF Configure
  <2>8. CASE OpenResults(w)
    BY <2>8 DEF OpenResults
  <2>9. CASE Release(w)
    BY <2>9 DEF Release
  <2>10. ASSUME NEW o \in RunOutcomes, WriteResults(w, o)
         PROVE TypeOK'
    BY <2>10 DEF WriteResults
  <2>11. QED
    BY <1>4, <2>1, <2>2, <2>3, <2>4, <2>5, <2>6, <2>7, <2>8, <2>9, <2>10
       DEF ClaimStep
<1>5. ASSUME NEW w \in Workers, Fail(w) PROVE TypeOK'
  BY <1>5 DEF Fail
<1>6. ASSUME NEW w \in Workers, Crash(w) PROVE TypeOK'
  BY <1>6 DEF Crash
<1>7. ASSUME NEW w \in Workers, RefuseReuse(w) PROVE TypeOK'
  BY <1>7 DEF RefuseReuse
<1>8. CASE UNCHANGED vars
  BY <1>8 DEF vars
<1>9. QED
  BY <1>1, <1>2, <1>3, <1>4, <1>5, <1>6, <1>7, <1>8 DEF Next

\* Every variable of SessionClaim keeps its type, with any number of workers,
\* readers and faults.
THEOREM TypeCorrect == Spec => []TypeOK
<1>1. Init => TypeOK
  <2> SUFFICES ASSUME Init PROVE TypeOK
    OBVIOUS
  <2>1. results \in ResultsFile /\ dir \in BOOLEAN
    BY ClaimAssumption DEF Init, ResultsFile
  <2>2. lockFile \in BOOLEAN
    BY <2>1 DEF Init
  <2>3. /\ pc \in [Actors -> PCs]
        /\ status \in [Actors -> Statuses]
        /\ flock \in [Actors -> {"none", "path", "orphan"}]
        /\ linked \in [Workers -> BOOLEAN]
    BY DEF Init, PCs, Statuses
  <2>4. seen \in [Actors -> [results : BOOLEAN, dir : BOOLEAN]]
    BY DEF Init, Unsampled
  <2>5. /\ fresh \in SUBSET Workers /\ faults \in 0..MaxFaults
        /\ doubt \in [Workers -> Doubts]
    BY ClaimAssumption DEF Init, Doubts
  <2>6. QED
    BY <2>1, <2>2, <2>3, <2>4, <2>5 DEF TypeOK
<1>2. QED
  BY <1>1, TypeOKStep, PTL DEF Spec

-----------------------------------------------------------------------------
\* Why an invocation may execute a session whose finished results are still
\* in place.
MayRerun(w) == \/ doubt[w] = "refused"
               \/ doubt[w] = "met_running" /\ results = "limit_reached"

\* What the code knows of a session that was finished when the invocation
\* began: without such a reason every decision it can still take leads to
\* reuse or to a skip.
FreshDecision(w) ==
  /\ results \in SettledOutcomes
  /\ pc[w] # "idle"
  /\ pc[w] \in {"probe", "unprobe", "read"} => seen[w].results
  /\ pc[w] = "acquire" => status[w] \in {"completed", "running"}
  /\ pc[w] = "locked" => status[w] = "completed" \/ MayRerun(w)
  /\ pc[w] \in {"declined", "configure", "running", "writing"} => MayRerun(w)

FreshInv == \A w \in fresh \ Overwriters : FreshDecision(w)

\* from_config reads a settled results.json as completed; so does the refresh
\* under the lock, unless the session stopped at a limit.
LEMMA SettledReadsCompleted ==
  ASSUME NEW file \in SettledOutcomes, NEW sawDir
  PROVE  /\ FromConfigStatus(TRUE, sawDir, file) = "completed"
         /\ \/ StatusFromPathsWithoutLock(file, sawDir) = "completed"
            \/ file = "limit_reached"
  BY ClaimAssumption
     DEF FromConfigStatus, StatusFromPathsWithoutLock, ExtractResultStatus,
         Outcome, FailedOutcomes

\* A step of another actor that leaves results.json alone leaves the decision
\* of a fresh invocation alone.
LEMMA FreshFrame ==
  ASSUME TypeOK, NEW w, FreshDecision(w), results' = results,
         pc'[w] = pc[w], seen'[w] = seen[w], status'[w] = status[w],
         doubt'[w] = doubt[w]
  PROVE  FreshDecision(w)'
  BY DEF FreshDecision, MayRerun

\* FreshInv is preserved by every step.
LEMMA FreshStep == TypeOK /\ FreshInv /\ [Next]_vars => FreshInv'
<1> SUFFICES ASSUME TypeOK, FreshInv, [Next]_vars,
                    NEW v \in fresh' \ Overwriters
             PROVE  FreshDecision(v)'
  BY DEF FreshInv
<1>t. v \in Workers /\ v \in Actors
  BY TypeOKStep DEF TypeOK, Actors
<1>f. ASSUME v \in fresh PROVE FreshDecision(v)
  BY <1>f DEF FreshInv
<1> USE <1>t, ClaimAssumption
    DEF TypeOK, Actors, Goto, Return, Unsampled, StillFresh
<1>1. ASSUME NEW w \in Workers, Enter(w) PROVE FreshDecision(v)'
  BY <1>1, <1>f DEF Enter, FreshDecision, MayRerun
<1>2. ASSUME NEW r \in Readers, Look(r) PROVE FreshDecision(v)'
  BY <1>2, <1>f DEF Look, FreshDecision, MayRerun
<1>3. ASSUME NEW a \in Actors, StatusStep(a) PROVE FreshDecision(v)'
  <2>1. CASE Stat(a)
    BY <2>1, <1>f DEF Stat, FreshDecision, MayRerun, Outcome, FailedOutcomes
  <2>2. CASE Probe(a)
    BY <2>2, <1>f DEF Probe, Decide, FreshDecision, MayRerun
  <2>3. CASE Unprobe(a)
    BY <2>3, <1>f DEF Unprobe, FreshDecision, MayRerun
  <2>4. CASE Read(a)
    <3>1. CASE a = v
      <4>1. v \in fresh /\ results' = results
        BY <2>4, <3>1 DEF Read, Decide
      <4>2. FreshDecision(v) /\ seen[v].results
        BY <2>4, <3>1, <4>1, <1>f DEF Read, FreshDecision, MayRerun
      <4>3. FromConfigStatus(TRUE, seen[v].dir, results) = "completed"
        BY <4>2, SettledReadsCompleted DEF FreshDecision, MayRerun
      <4>4. seen[v].results = TRUE
        BY <4>2
      <4>5. Decide(v, "completed")
        BY <2>4, <3>1, <4>3, <4>4 DEF Read
      <4>6. QED
        BY <4>1, <4>2, <4>5 DEF Decide, FreshDecision, MayRerun
    <3>2. CASE a # v
      BY <2>4, <3>2, <1>f DEF Read, Decide, FreshDecision, MayRerun
    <3>3. QED
      BY <3>1, <3>2
  <2>5. QED
    BY <1>3, <2>1, <2>2, <2>3, <2>4 DEF StatusStep
<1>4. ASSUME NEW w \in Workers, ClaimStep(w) PROVE FreshDecision(v)'
  <2>1. CASE StatusStep(w)
    BY <1>3, <2>1
  <2>2. CASE Skip(w)
    BY <2>2, <1>f DEF Skip, FreshDecision, MayRerun
  <2>3. CASE Acquire(w)
    BY <2>3, <1>f DEF Acquire, FreshDecision, MayRerun
  <2>4. CASE Refresh(w)
    BY <2>4, <1>f, SettledReadsCompleted DEF Refresh, FreshDecision, MayRerun
  <2>5. CASE Reuse(w)
    BY <2>5, <1>f DEF Reuse, FreshDecision, MayRerun
  <2>6. CASE Cleanup(w)
    <3>1. results' = results /\ v \in fresh
      BY <2>6 DEF Cleanup, Remove
    <3>2. CASE v = w
      <4>1. FreshDecision(w) /\ results \in Outcome /\ w \notin Overwriters
        BY <3>1, <3>2, <1>f DEF FreshDecision
      <4>2. MayRerun(w)
        BY <2>6, <4>1 DEF Cleanup, CanReuse, FreshDecision
      <4>3. pc'[v] = "configure" /\ doubt' = doubt
        BY <2>6, <3>2 DEF Cleanup
      <4>4. QED
        BY <3>1, <3>2, <4>1, <4>2, <4>3 DEF FreshDecision, MayRerun
    <3>3. CASE v # w
      BY <2>6, <3>1, <3>3, <1>f, FreshFrame DEF Cleanup
    <3>4. QED
      BY <3>2, <3>3
  <2>7. CASE Configure(w)
    BY <2>7, <1>f DEF Configure, FreshDecision, MayRerun
  <2>8. CASE OpenResults(w)
    BY <2>8 DEF OpenResults
  <2>9. CASE Release(w)
    BY <2>9, <1>f DEF Release, FreshDecision, MayRerun
  <2>10. ASSUME NEW o \in RunOutcomes, WriteResults(w, o)
         PROVE FreshDecision(v)'
    BY <2>10, <1>f DEF WriteResults, FreshDecision, MayRerun
  <2>11. QED
    BY <1>4, <2>1, <2>2, <2>3, <2>4, <2>5, <2>6, <2>7, <2>8, <2>9, <2>10
       DEF ClaimStep
<1>5. ASSUME NEW w \in Workers, Fail(w) PROVE FreshDecision(v)'
  BY <1>5, <1>f DEF Fail, FreshDecision, MayRerun
<1>6. ASSUME NEW w \in Workers, Crash(w) PROVE FreshDecision(v)'
  BY <1>6, <1>f DEF Crash, FreshDecision, MayRerun
<1>7. ASSUME NEW w \in Workers, RefuseReuse(w) PROVE FreshDecision(v)'
  BY <1>7, <1>f DEF RefuseReuse, FreshDecision, MayRerun
<1>8. CASE UNCHANGED vars
  BY <1>8, <1>f DEF vars, FreshDecision, MayRerun
<1>9. QED
  BY <1>1, <1>2, <1>3, <1>4, <1>5, <1>6, <1>7, <1>8 DEF Next

\* FreshNeverReruns for any number of concurrent invocations, of workers
\* that overwrite and of settled outcomes, limit_reached among them or not.
THEOREM FinishedSessionsAreNotRerun == Spec => []FreshNeverReruns
<1>1. Init => FreshInv
  BY DEF Init, FreshInv
<1>2. TypeOK /\ FreshInv => FreshNeverReruns
  BY DEF FreshInv, FreshDecision, MayRerun, FreshNeverReruns, Executing
<1>3. QED
  BY <1>1, <1>2, FreshStep, TypeCorrect, PTL DEF Spec

-----------------------------------------------------------------------------
(***************************************************************************)
(* No session is lost.  The invariant is about behaviours without faults   *)
(* and status readers, as NoSessionLost is.                                *)
(***************************************************************************)

\* The flock of the file at the path is held by one actor at most, and only
\* while the file is there.
PathExclusive ==
  /\ \A a, b \in Actors : flock[a] = "path" /\ flock[b] = "path" => a = b
  /\ ~lockFile => \A a \in Actors : flock[a] # "path"

\* Who is to decide or to remove holds that flock; who has not got as far
\* holds none.
HoldsPath ==
  \A a \in Actors :
    /\ pc[a] \in {"unprobe", "refresh", "locked", "declined"} =>
         flock[a] = "path"
    /\ pc[a] \in {"idle", "stat", "probe", "read", "acquire"} =>
         flock[a] = "none"

\* A results.json that holds no outcome has a writer that will complete it.
PartialIsWritten ==
  results \in {"partial", "invalid"} =>
    \E w \in Workers : pc[w] = "writing" /\ linked[w]

\* If the results were removed although somebody has executed the session,
\* the one that removed them is about to execute it.
RemovedIsReplaced ==
  results = "absent" /\ (\E w \in Workers : pc[w] \in {"writing", "release"})
    => \E w \in Workers : pc[w] \in {"configure", "running"}

\* Where a worker is that may still have to execute the session.
Pending == PCs \ {"idle", "writing", "release"}

\* A directory without results has an invocation under way.
AbsentIsPending ==
  dir /\ results = "absent" => \E w \in Workers : pc[w] \in Pending

SafeSession == /\ PathExclusive /\ HoldsPath
               /\ PartialIsWritten /\ RemovedIsReplaced /\ AbsentIsPending

LostInv == faults = 0 /\ Readers = {} => SafeSession

\* One step of a worker that keeps the results and stays pending keeps what
\* is said of the results.
LEMMA PendingKeeps ==
  ASSUME TypeOK, SafeSession, NEW w \in Workers,
         pc[w] \notin {"configure", "running", "writing"},
         NEW to \in PCs \ {"idle", "writing", "release"}, Goto(w, to),
         UNCHANGED <<results, linked>>
  PROVE  PartialIsWritten' /\ RemovedIsReplaced' /\ AbsentIsPending'
<1>1. /\ pc'[w] = to /\ pc'[w] \in Pending
      /\ \A v \in Workers \ {w} : pc'[v] = pc[v]
  BY DEF TypeOK, Goto, Actors, Pending
<1>2. PartialIsWritten'
  BY <1>1 DEF SafeSession, PartialIsWritten
<1>3. RemovedIsReplaced'
  BY <1>1 DEF SafeSession, RemovedIsReplaced, Pending
<1>4. AbsentIsPending'
  BY <1>1 DEF AbsentIsPending
<1>5. QED
  BY <1>2, <1>3, <1>4

\* A step of a worker that returns, or goes on to release, while there are
\* complete results.
LEMMA OutcomeSuffices ==
  ASSUME ClaimAssumption, results' \in Outcome
  PROVE  PartialIsWritten' /\ RemovedIsReplaced' /\ AbsentIsPending'
  BY DEF Outcome, PartialIsWritten, RemovedIsReplaced, AbsentIsPending

\* What is said of the locks does not change unless somebody locks, unlocks
\* or moves between the places that need it.
LEMMA LockFrame ==
  ASSUME TypeOK, SafeSession, UNCHANGED <<flock, lockFile>>,
         NEW w \in Actors, NEW to \in PCs, Goto(w, to),
         to \in {"unprobe", "refresh", "locked", "declined"} =>
           flock[w] = "path",
         to \in {"idle", "stat", "probe", "read", "acquire"} =>
           flock[w] = "none"
  PROVE  PathExclusive' /\ HoldsPath'
  BY DEF TypeOK, SafeSession, PathExclusive, HoldsPath, Goto

LEMMA SafeSessionStep ==
  ASSUME TypeOK, SafeSession, Readers = {}, faults = 0, faults' = 0, Next
  PROVE  SafeSession'
<1> USE ClaimAssumption DEF TypeOK, Actors, PCs
<1>a. Actors = Workers
  OBVIOUS
<1>1. ASSUME NEW w \in Workers, Enter(w) PROVE SafeSession'
  <2>1. PathExclusive' /\ HoldsPath'
    BY <1>1, LockFrame DEF Enter, SafeSession, HoldsPath
  <2>2. PartialIsWritten' /\ RemovedIsReplaced' /\ AbsentIsPending'
    BY <1>1, PendingKeeps DEF Enter
  <2>3. QED
    BY <2>1, <2>2 DEF SafeSession
<1>2. ASSUME NEW w \in Workers, StatusStep(w) PROVE SafeSession'
  <2>1. CASE Stat(w)
    <3>1. PathExclusive' /\ HoldsPath'
      BY <2>1, LockFrame DEF Stat, SafeSession, HoldsPath
    <3>2. PartialIsWritten' /\ RemovedIsReplaced' /\ AbsentIsPending'
      BY <2>1, PendingKeeps DEF Stat
    <3>3. QED
      BY <3>1, <3>2 DEF SafeSession
  <2>2. CASE Probe(w)
    <3>1. PICK to \in {"read", "acquire", "unprobe"} : Goto(w, to)
      BY <2>2 DEF Probe, Decide
    <3>2. PartialIsWritten' /\ RemovedIsReplaced' /\ AbsentIsPending'
      BY <2>2, <3>1, PendingKeeps DEF Probe
    <3>3. PathExclusive' /\ HoldsPath'
      <4>1. CASE lockFile /\ ~LockedByOther(w)
        BY <2>2, <4>1 DEF Probe, Goto, LockedByOther, SafeSession,
           PathExclusive, HoldsPath
      <4>2. CASE ~lockFile \/ LockedByOther(w)
        BY <2>2, <4>2, LockFrame DEF Probe, Decide, SafeSession, HoldsPath
      <4>3. QED
        BY <4>1, <4>2
    <3>4. QED
      BY <3>2, <3>3 DEF SafeSession
  <2>3. CASE Unprobe(w)
    <3>1. PathExclusive' /\ HoldsPath'
      BY <2>3 DEF Unprobe, Goto, SafeSession, PathExclusive, HoldsPath
    <3>2. PartialIsWritten' /\ RemovedIsReplaced' /\ AbsentIsPending'
      BY <2>3, PendingKeeps DEF Unprobe
    <3>3. QED
      BY <3>1, <3>2 DEF SafeSession
  <2>4. CASE Read(w)
    <3>1. Goto(w, "acquire")
      BY <2>4 DEF Read, Decide
    <3>2. PathExclusive' /\ HoldsPath'
      BY <2>4, <3>1, LockFrame DEF Read, SafeSession, HoldsPath
    <3>3. PartialIsWritten' /\ RemovedIsReplaced' /\ AbsentIsPending'
      BY <2>4, <3>1, PendingKeeps DEF Read
    <3>4. QED
      BY <3>2, <3>3 DEF SafeSession
  <2>5. QED
    BY <1>2, <2>1, <2>2, <2>3, <2>4 DEF StatusStep
<1>3. ASSUME NEW w \in Workers, Skip(w) PROVE SafeSession'
  <2>1. PathExclusive' /\ HoldsPath'
    BY <1>3, LockFrame DEF Skip, Return, SafeSession, HoldsPath
  <2>2. PICK b \in Workers \ {w} : flock[b] = "path"
    BY <1>3, <1>a DEF Skip, LockedByOther
  <2>3. /\ pc[w] = "acquire" /\ pc'[w] = "idle"
        /\ \A v \in Workers \ {w} : pc'[v] = pc[v]
        /\ UNCHANGED <<dir, results, linked>>
    BY <1>3 DEF Skip, Return, Goto
  <2>4. PartialIsWritten' /\ RemovedIsReplaced'
    BY <2>3 DEF SafeSession, PartialIsWritten, RemovedIsReplaced
  <2>5. ASSUME dir, results = "absent"
        PROVE  \E v \in Workers : pc'[v] \in Pending
    <3>1. CASE pc[b] \in Pending
      BY <2>2, <2>3, <3>1
    <3>2. CASE pc[b] \in {"writing", "release"}
      <4>1. PICK d \in Workers : pc[d] \in {"configure", "running"}
        BY <2>2, <2>5, <3>2 DEF SafeSession, RemovedIsReplaced
      <4>2. QED
        BY <2>3, <4>1 DEF Pending
    <3>3. pc[b] # "idle"
      BY <2>2 DEF SafeSession, HoldsPath
    <3>4. QED
      BY <2>2, <3>1, <3>2, <3>3 DEF Pending
  <2>6. AbsentIsPending'
    BY <2>3, <2>5 DEF AbsentIsPending
  <2>7. QED
    BY <2>1, <2>4, <2>6 DEF SafeSession
<1>4. ASSUME NEW w \in Workers, Acquire(w) PROVE SafeSession'
  <2>1. PICK to \in {"refresh", "locked"} : Goto(w, to)
    BY <1>4 DEF Acquire
  <2>2. PartialIsWritten' /\ RemovedIsReplaced' /\ AbsentIsPending'
    BY <1>4, <2>1, PendingKeeps DEF Acquire
  <2>3. PathExclusive' /\ HoldsPath'
    BY <1>4, <2>1 DEF Acquire, Goto, LockedByOther, SafeSession,
       PathExclusive, HoldsPath
  <2>4. QED
    BY <2>2, <2>3 DEF SafeSession
<1>5. ASSUME NEW w \in Workers, Refresh(w) PROVE SafeSession'
  <2>1. PathExclusive' /\ HoldsPath'
    BY <1>5, LockFrame DEF Refresh, SafeSession, HoldsPath
  <2>2. PartialIsWritten' /\ RemovedIsReplaced' /\ AbsentIsPending'
    BY <1>5, PendingKeeps DEF Refresh
  <2>3. QED
    BY <2>1, <2>2 DEF SafeSession
<1>6. ASSUME NEW w \in Workers, Reuse(w) PROVE SafeSession'
  <2>1. PathExclusive' /\ HoldsPath'
    BY <1>6, LockFrame DEF Reuse
  <2>2. PartialIsWritten' /\ RemovedIsReplaced' /\ AbsentIsPending'
    BY <1>6, OutcomeSuffices DEF Reuse, CanReuse
  <2>3. QED
    BY <2>1, <2>2 DEF SafeSession
<1>7. ASSUME NEW w \in Workers, Cleanup(w) PROVE SafeSession'
  <2>1. /\ pc[w] \in {"locked", "declined"} /\ pc'[w] = "configure"
        /\ \A v \in Workers \ {w} : pc'[v] = pc[v]
    BY <1>7 DEF Cleanup, Goto
  <2>2. /\ flock[w] = "path"
        /\ \A v \in Workers \ {w} : flock[v] # "path"
        /\ \A v \in Workers \ {w} :
             pc[v] \notin {"unprobe", "refresh", "locked", "declined"}
    BY <2>1 DEF SafeSession, HoldsPath, PathExclusive
  <2>3. RemovedIsReplaced' /\ AbsentIsPending'
    BY <2>1 DEF RemovedIsReplaced, AbsentIsPending, Pending
  <2>4. CASE UNCHANGED <<dir, lockFile, results, flock, linked, fresh>>
    <3>1. PathExclusive' /\ HoldsPath'
      BY <1>7, <2>4, LockFrame DEF Cleanup
    <3>2. PartialIsWritten'
      BY <2>1, <2>4 DEF SafeSession, PartialIsWritten
    <3>3. QED
      BY <2>3, <3>1, <3>2 DEF SafeSession
  <2>5. ASSUME NEW removed \in SUBSET {"lock", "results"}, Remove(removed)
        PROVE  SafeSession'
    <3>1. \A v \in Workers \ {w} : flock'[v] = flock[v]
      BY <2>2, <2>5 DEF Remove
    <3>2. HoldsPath'
      BY <2>1, <2>2, <3>1 DEF SafeSession, HoldsPath
    <3>3. PathExclusive'
      <4>1. CASE "lock" \in removed
        BY <2>5, <4>1 DEF Remove, PathExclusive
      <4>2. CASE "lock" \notin removed
        BY <2>5, <4>2 DEF Remove, SafeSession, PathExclusive
      <4>3. QED
        BY <4>1, <4>2
    <3>4. PartialIsWritten'
      BY <2>1, <2>5 DEF Remove, SafeSession, PartialIsWritten
    <3>5. QED
      BY <2>3, <3>2, <3>3, <3>4 DEF SafeSession
  <2>6. QED
    BY <1>7, <2>4, <2>5 DEF Cleanup
<1>8. ASSUME NEW w \in Workers, Configure(w) PROVE SafeSession'
  <2>1. PathExclusive' /\ HoldsPath'
    BY <1>8, LockFrame DEF Configure
  <2>2. /\ pc[w] = "configure" /\ pc'[w] = "running"
        /\ \A v \in Workers \ {w} : pc'[v] = pc[v]
        /\ UNCHANGED <<results, linked>>
    BY <1>8 DEF Configure, Goto
  <2>3. PartialIsWritten' /\ RemovedIsReplaced' /\ AbsentIsPending'
    BY <2>2 DEF SafeSession, PartialIsWritten, RemovedIsReplaced,
       AbsentIsPending, Pending
  <2>4. QED
    BY <2>1, <2>3 DEF SafeSession
<1>9. ASSUME NEW w \in Workers, OpenResults(w) PROVE SafeSession'
  <2>1. PathExclusive' /\ HoldsPath'
    BY <1>9, LockFrame DEF OpenResults
  <2>2. results' = "partial" /\ pc'[w] = "writing" /\ linked'[w]
    BY <1>9 DEF OpenResults, Goto
  <2>3. QED
    BY <2>1, <2>2 DEF SafeSession, PartialIsWritten, RemovedIsReplaced,
       AbsentIsPending
<1>10. ASSUME NEW w \in Workers, NEW o \in RunOutcomes,
              WriteResults(w, o)
       PROVE  SafeSession'
  <2>1. PathExclusive' /\ HoldsPath'
    BY <1>10, LockFrame DEF WriteResults
  <2>2. CASE linked[w]
    <3>1. results' \in Outcome
      BY <1>10, <2>2 DEF WriteResults
    <3>2. QED
      BY <2>1, <3>1, OutcomeSuffices DEF SafeSession
  <2>3. CASE ~linked[w]
    <3>1. /\ pc[w] = "writing" /\ pc'[w] = "release"
          /\ \A v \in Workers \ {w} : pc'[v] = pc[v] /\ linked'[v] = linked[v]
          /\ UNCHANGED <<dir, results>>
      BY <1>10, <2>3 DEF WriteResults, Goto
    <3>2. PartialIsWritten'
      BY <2>3, <3>1 DEF SafeSession, PartialIsWritten
    <3>3. results = "absent" =>
            \E d \in Workers \ {w} : pc[d] \in {"configure", "running"}
      BY <3>1 DEF SafeSession, RemovedIsReplaced
    <3>4. RemovedIsReplaced' /\ AbsentIsPending'
      BY <3>1, <3>3 DEF RemovedIsReplaced, AbsentIsPending, Pending
    <3>5. QED
      BY <2>1, <3>2, <3>4 DEF SafeSession
  <2>4. QED
    BY <2>2, <2>3
<1>11. ASSUME NEW w \in Workers, Release(w) PROVE SafeSession'
  <2>1. /\ pc[w] = "release" /\ pc'[w] = "idle"
        /\ \A v \in Workers \ {w} : pc'[v] = pc[v]
        /\ flock' = [flock EXCEPT ![w] = "none"]
        /\ UNCHANGED <<dir, lockFile, results, linked>>
    BY <1>11 DEF Release, Return, Goto
  <2>2. PathExclusive' /\ HoldsPath'
    BY <2>1 DEF SafeSession, PathExclusive, HoldsPath
  <2>3. PartialIsWritten'
    BY <2>1 DEF SafeSession, PartialIsWritten
  <2>4. results = "absent" =>
          \E d \in Workers \ {w} : pc[d] \in {"configure", "running"}
    BY <2>1 DEF SafeSession, RemovedIsReplaced
  <2>5. RemovedIsReplaced' /\ AbsentIsPending'
    BY <2>1, <2>4 DEF RemovedIsReplaced, AbsentIsPending, Pending
  <2>6. QED
    BY <2>2, <2>3, <2>5 DEF SafeSession
<1>12. ASSUME NEW w \in Workers PROVE ~Fail(w) /\ ~Crash(w) /\ ~RefuseReuse(w)
  BY DEF Fail, Crash, RefuseReuse
<1>13. QED
  BY <1>1, <1>2, <1>3, <1>4, <1>5, <1>6, <1>7, <1>8, <1>9, <1>10, <1>11,
     <1>12 DEF Next, ClaimStep

\* faults only grows.
LEMMA FaultsGrow == TypeOK /\ [Next]_vars /\ faults' = 0 => faults = 0
<1> SUFFICES ASSUME TypeOK, [Next]_vars, faults' = 0 PROVE faults = 0
  OBVIOUS
<1>1. faults' = faults \/ faults' = faults + 1
  BY DEF Next, vars, Enter, Look, ClaimStep, StatusStep, Stat, Probe, Unprobe,
     Read, Skip, Acquire, Refresh, Reuse, Cleanup, Configure, OpenResults,
     WriteResults, Release, RefuseReuse, Fail, Crash
<1>2. faults \in Nat
  BY ClaimAssumption DEF TypeOK
<1>3. QED
  BY <1>1, <1>2

\* However many invocations skip for each other, and whatever they remove of
\* each other's, the last of them leaves an outcome on disk, if none crashed
\* and the results there were to begin with, if any, were complete and valid.
THEOREM SessionIsRecorded ==
  ASSUME "partial" \notin Existing, "invalid" \notin Existing
  PROVE  Spec => []NoSessionLost
<1>1. Init => LostInv
  <2> SUFFICES ASSUME Init PROVE SafeSession
    BY DEF LostInv
  <2>1. PathExclusive /\ HoldsPath
    BY DEF Init, PathExclusive, HoldsPath
  <2>2. PartialIsWritten /\ RemovedIsReplaced /\ AbsentIsPending
    <3>1. \A w \in Workers : pc[w] = "idle"
      BY DEF Init, Actors
    <3>2. results \notin {"partial", "invalid"} /\ (results = "absent" => ~dir)
      BY DEF Init
    <3>3. QED
      BY <3>1, <3>2 DEF PartialIsWritten, RemovedIsReplaced, AbsentIsPending
  <2>3. QED
    BY <2>1, <2>2 DEF SafeSession
<1>2. TypeOK /\ LostInv /\ [Next]_vars => LostInv'
  <2> SUFFICES ASSUME TypeOK, LostInv, [Next]_vars, faults' = 0, Readers = {}
               PROVE  SafeSession'
    BY DEF LostInv
  <2>1. faults = 0 /\ SafeSession
    BY FaultsGrow DEF LostInv
  <2>2. CASE Next
    BY <2>1, <2>2, SafeSessionStep
  <2>3. CASE UNCHANGED vars
    BY <2>1, <2>3 DEF vars, SafeSession, PathExclusive, HoldsPath,
       PartialIsWritten, RemovedIsReplaced, AbsentIsPending
  <2>4. QED
    BY <2>2, <2>3
<1>3. TypeOK /\ LostInv => NoSessionLost
  <2> SUFFICES ASSUME TypeOK, Quiet, dir, SafeSession PROVE results \in Outcome
    BY DEF LostInv, NoSessionLost
  <2>1. \A w \in Workers : pc[w] = "idle"
    BY DEF Quiet, Actors
  <2>2. results \notin {"partial", "invalid", "absent"}
    BY <2>1 DEF SafeSession, PartialIsWritten, AbsentIsPending, Pending
  <2>3. QED
    BY <2>2 DEF TypeOK, ResultsFile
<1>4. QED
  BY <1>1, <1>2, <1>3, TypeCorrect, PTL DEF Spec

-----------------------------------------------------------------------------
(***************************************************************************)
(* The refinement.  With one invocation at a time nobody meets a lock, and *)
(* what an invocation has read is still so when it acts on it.             *)
(***************************************************************************)

\* One actor at a time is under way, and an actor that is not holds no lock.
Serial ==
  /\ \A a, b \in Actors : pc[a] # "idle" /\ pc[b] # "idle" => a = b
  /\ \A a \in Actors :
       pc[a] \in {"idle", "stat", "probe", "read", "acquire"} =>
         flock[a] = "none"

ExecutionPCs == {"configure", "running", "writing"}

\* What is left for a worker to do once the session is settled: to overwrite
\* it, if so configured, to find it completed, or to execute it because its
\* observers refused the outcome.
SoloDecision(w) ==
  /\ pc[w] # "refresh"
  /\ pc[w] = "acquire" => status[w] # "running"
  /\ pc[w] = "writing" => results = "partial"
  /\ pc[w] = "declined" =>
       doubt[w] = "refused" /\ status[w] = "completed" /\ w \notin Overwriters
  /\ pc[w] \notin ExecutionPCs \cup {"declined", "release"} =>
       doubt[w] # "refused"
  /\ results \in SettledOutcomes =>
       /\ pc[w] \in {"probe", "unprobe", "read"} => seen[w].results
       /\ pc[w] = "acquire" => status[w] = "completed"
       /\ pc[w] = "locked" => status[w] = "completed"
       /\ pc[w] \in {"configure", "running"} =>
            w \in Overwriters \/ doubt[w] = "refused"

SerialInv == Serial /\ \A w \in Workers : SoloDecision(w)

\* The outcome the abstract slot sees, and what it sees of the directory.
SlotOutcome == IF results \in SettledOutcomes THEN results ELSE "todo"

slotVars == <<Executing, Refusing, SlotOutcome>>

\* The worker is among those whose observers refused the outcome.
Refuses(w) == doubt[w] = "refused" /\ pc[w] # "release"

\* What happens to the actors when one of them moves.
LEMMA OneMoves ==
  ASSUME TypeOK, Serial, NEW a \in Actors, pc[a] # "idle" \/ Quiet,
         NEW to \in PCs, Goto(a, to),
         to \in {"idle", "stat", "probe", "read", "acquire"} =>
           flock'[a] = "none",
         \A b \in Actors \ {a} : flock'[b] = flock[b] \/ flock[b] = "path"
  PROVE  /\ Serial'
         /\ pc'[a] = to
         /\ \A b \in Actors \ {a} : pc[b] = "idle" /\ pc'[b] = "idle"
<1>1. pc'[a] = to /\ \A b \in Actors \ {a} : pc'[b] = pc[b]
  BY DEF TypeOK, Goto
<1>2. \A b \in Actors \ {a} : pc[b] = "idle"
  BY DEF Serial, Quiet
<1>3. \A b \in Actors \ {a} : flock'[b] = "none"
  BY <1>2 DEF Serial
<1>4. QED
  BY <1>1, <1>2, <1>3 DEF Serial

\* Who executes when the other workers are idle.
LEMMA OneExecutes ==
  ASSUME NEW w \in Workers,
         \A v \in Workers \ {w} : pc[v] = "idle" /\ pc'[v] = "idle"
  PROVE  /\ Executing = IF pc[w] \in ExecutionPCs THEN {w} ELSE {}
         /\ Executing' = IF pc'[w] \in ExecutionPCs THEN {w} ELSE {}
  BY DEF Executing, ExecutionPCs

\* A reader's step keeps the invariant and is a stutter of the slot.
LEMMA ReaderMoves ==
  ASSUME TypeOK, SerialInv, NEW r \in Readers, pc[r] # "idle" \/ Quiet,
         NEW to \in PCs, Goto(r, to),
         to \in {"idle", "stat", "probe", "read", "acquire"} =>
           flock'[r] = "none",
         \A b \in Actors \ {r} : flock'[b] = flock[b],
         \A v \in Workers : doubt'[v] = doubt[v],
         UNCHANGED results
  PROVE  SerialInv' /\ UNCHANGED slotVars
<1>1. r \in Actors /\ r \notin Workers /\ Workers \subseteq Actors
  BY ClaimAssumption DEF Actors
<1>2. Serial' /\ \A w \in Workers : pc[w] = "idle" /\ pc'[w] = "idle"
  BY <1>1, OneMoves DEF SerialInv
<1>3. \A w \in Workers : SoloDecision(w)'
  BY <1>2 DEF SoloDecision, SerialInv, ExecutionPCs
<1>4. UNCHANGED slotVars
  BY <1>2 DEF slotVars, Executing, Refusing, SlotOutcome
<1>5. QED
  BY <1>2, <1>3, <1>4 DEF SerialInv

\* A worker's step keeps the invariant if it keeps its own part, and what it
\* does to the slot is known from where the worker was and is.
LEMMA WorkerMoves ==
  ASSUME TypeOK, SerialInv, NEW w \in Workers, pc[w] # "idle" \/ Quiet,
         NEW to \in PCs, Goto(w, to),
         to \in {"idle", "stat", "probe", "read", "acquire"} =>
           flock'[w] = "none",
         \A b \in Actors \ {w} : flock'[b] = flock[b] \/ flock[b] = "path",
         \A v \in Workers \ {w} : doubt'[v] = doubt[v],
         SoloDecision(w)'
  PROVE  /\ SerialInv'
         /\ Executing = IF pc[w] \in ExecutionPCs THEN {w} ELSE {}
         /\ Executing' = IF to \in ExecutionPCs THEN {w} ELSE {}
         /\ Refusing = IF Refuses(w) THEN {w} ELSE {}
         /\ Refusing' = IF Refuses(w)' THEN {w} ELSE {}
<1>1. Workers \subseteq Actors
  BY DEF Actors
<1>2. /\ Serial' /\ pc'[w] = to
      /\ \A v \in Workers \ {w} : pc[v] = "idle" /\ pc'[v] = "idle"
  BY <1>1, OneMoves DEF SerialInv
<1>3. \A v \in Workers \ {w} : doubt[v] # "refused" /\ SoloDecision(v)'
  BY <1>2 DEF SoloDecision, SerialInv, ExecutionPCs
<1>4. /\ Refusing = IF Refuses(w) THEN {w} ELSE {}
      /\ Refusing' = IF Refuses(w)' THEN {w} ELSE {}
  BY <1>3 DEF Refusing, Refuses
<1>5. QED
  BY <1>2, <1>3, <1>4, OneExecutes DEF SerialInv

\* Nobody meets a lock.
LEMMA NobodyLocks ==
  ASSUME TypeOK, Serial, NEW a \in Actors, pc[a] # "idle"
  PROVE  ~LockedByOther(a)
  BY DEF Serial, LockedByOther

SlotStep == Slot!Next \/ UNCHANGED slotVars

\* from_config, called by a worker or by a reader.
LEMMA StatusSerial ==
  ASSUME TypeOK, SerialInv, NEW a \in Actors, StatusStep(a)
  PROVE  SerialInv' /\ UNCHANGED slotVars
<1> USE ClaimAssumption DEF Actors, PCs
<1>n. ~LockedByOther(a)
  BY NobodyLocks DEF SerialInv, StatusStep, Stat, Probe, Unprobe, Read
<1>1. /\ pc[a] # "idle" /\ pc[a] \notin ExecutionPCs
      /\ UNCHANGED results
      /\ \A b \in Actors \ {a} : flock'[b] = flock[b]
      /\ \A v \in Workers \ {a} : doubt'[v] = doubt[v]
      /\ a \in Workers => doubt'[a] = doubt[a]
  BY DEF StatusStep, Decide, Return, Stat, Probe, Unprobe, Read,
     ExecutionPCs, TypeOK
<1>2. PICK to \in {"idle", "probe", "read", "unprobe", "acquire"} :
        /\ Goto(a, to)
        /\ to # "unprobe" => flock'[a] = "none"
        /\ to = "idle" => a \notin Workers
  <2>1. CASE Stat(a)
    BY <2>1 DEF Stat, SerialInv, Serial
  <2>2. CASE Probe(a)
    BY <2>2, <1>n DEF Probe, SerialInv, Serial
  <2>3. CASE Unprobe(a)
    BY <2>3 DEF Unprobe, TypeOK
  <2>4. CASE Read(a)
    BY <2>4 DEF Read, Decide, Return, SerialInv, Serial
  <2>5. QED
    BY <2>1, <2>2, <2>3, <2>4 DEF StatusStep
<1>3. CASE a \in Readers
  BY <1>1, <1>2, <1>3, ReaderMoves
<1>4. CASE a \in Workers
  <2>0. doubt[a] # "refused" /\ doubt'[a] = doubt[a]
    BY <1>1, <1>4 DEF StatusStep, Stat, Probe, Unprobe, Read, ExecutionPCs,
       SerialInv, SoloDecision
  <2>1. SoloDecision(a)'
    <3>1. CASE Stat(a)
      BY <3>1, <2>0, <1>4
         DEF Stat, Goto, SoloDecision, TypeOK, Outcome, ExecutionPCs
    <3>2. CASE Probe(a)
      BY <3>2, <2>0, <1>4, <1>n
         DEF Probe, Goto, SoloDecision, SerialInv, TypeOK, ExecutionPCs
    <3>3. CASE Unprobe(a)
      BY <3>3, <2>0, <1>4
         DEF Unprobe, Goto, SoloDecision, SerialInv, TypeOK, ExecutionPCs
    <3>4. CASE Read(a)
      <4>1. pc'[a] = "acquire" /\ UNCHANGED results
        BY <3>4, <1>4 DEF Read, Decide, Goto, TypeOK
      <4>2. ASSUME results \in SettledOutcomes
            PROVE  status'[a] = "completed"
        <5>1. seen[a].results
          BY <3>4, <1>4, <4>2 DEF Read, SerialInv, SoloDecision
        <5>2. FromConfigStatus(seen[a].results, seen[a].dir, results)
                = "completed"
          BY <4>2, <5>1 DEF FromConfigStatus, ExtractResultStatus, Outcome,
             FailedOutcomes
        <5>3. QED
          BY <3>4, <1>4, <5>2 DEF Read, Decide, TypeOK
      <4>3. status'[a] # "running"
        BY <3>4, <1>4 DEF Read, Decide, TypeOK, FromConfigStatus
      <4>4. QED
        BY <4>1, <4>2, <4>3, <2>0 DEF SoloDecision, ExecutionPCs
    <3>5. QED
      BY <3>1, <3>2, <3>3, <3>4 DEF StatusStep
  <2>2. SerialInv' /\ Executing' = Executing /\ Refusing' = Refusing
    BY <1>1, <1>2, <1>4, <2>0, <2>1, WorkerMoves DEF ExecutionPCs, Refuses
  <2>3. QED
    BY <1>1, <2>2 DEF slotVars, SlotOutcome
<1>5. QED
  BY <1>3, <1>4

\* A step of _run_task_with_lock that neither begins nor ends an execution
\* and leaves results.json alone.
LEMMA QuietMoves ==
  ASSUME TypeOK, SerialInv, NEW w \in Workers, pc[w] # "idle" \/ Quiet,
         NEW to \in PCs, Goto(w, to),
         to \in {"idle", "stat", "probe", "read", "acquire"} =>
           flock'[w] = "none",
         \A b \in Actors \ {w} : flock'[b] = flock[b],
         \A v \in Workers \ {w} : doubt'[v] = doubt[v],
         SoloDecision(w)', UNCHANGED results,
         Refuses(w)' <=> Refuses(w),
         pc[w] \in ExecutionPCs <=> to \in ExecutionPCs
  PROVE  SerialInv' /\ UNCHANGED slotVars
<1>1. SerialInv' /\ Executing' = Executing /\ Refusing' = Refusing
  BY WorkerMoves
<1>2. QED
  BY <1>1 DEF slotVars, SlotOutcome

\* A step that ends the execution is a Finish of the slot.
LEMMA FinishMoves ==
  ASSUME TypeOK, SerialInv, NEW w \in Workers, pc[w] \in ExecutionPCs,
         NEW to \in PCs \ ExecutionPCs, Goto(w, to),
         to = "idle" => flock'[w] = "none",
         to \notin {"stat", "probe", "read", "acquire"},
         \A b \in Actors \ {w} : flock'[b] = flock[b],
         \A v \in Workers \ {w} : doubt'[v] = doubt[v],
         SoloDecision(w)', ~Refuses(w)',
         results' \in SettledOutcomes \/ SlotOutcome' = SlotOutcome
  PROVE  SerialInv' /\ Slot!Next
<1>1. /\ SerialInv' /\ Executing = {w} /\ Executing' = {}
      /\ Refusing \in {{w}, {}} /\ Refusing' = {}
  BY WorkerMoves DEF ExecutionPCs
<1>2. Slot!Finish(w)
  BY <1>1 DEF Slot!Finish, SlotOutcome
<1>3. QED
  BY <1>1, <1>2 DEF Slot!Next

\* Every step of a serial invocation keeps the invariant and is a step of the
\* slot or a stutter.
LEMMA SerialStep ==
  ASSUME Solo, TypeOK, SerialInv, Next
  PROVE  SerialInv' /\ SlotStep
<1> USE ClaimAssumption DEF PCs, ExecutionPCs
<1>a. Workers \subseteq Actors /\ Readers \subseteq Actors
  BY DEF Actors
<1>1. ASSUME NEW w \in Workers, Enter(w) PROVE SerialInv' /\ SlotStep
  <2>1. SoloDecision(w)' /\ ~Refuses(w) /\ ~Refuses(w)'
    BY <1>1, <1>a DEF Enter, Goto, SoloDecision, SerialInv, Refuses, TypeOK
  <2>2. QED
    BY <1>1, <1>a, <2>1, QuietMoves DEF Enter, SlotStep, SerialInv, Serial
<1>2. ASSUME NEW r \in Readers, Look(r) PROVE SerialInv' /\ SlotStep
  BY <1>2, <1>a, ReaderMoves DEF Look, SlotStep, SerialInv, Serial
<1>3. ASSUME NEW a \in Actors, StatusStep(a) PROVE SerialInv' /\ SlotStep
  BY <1>3, StatusSerial DEF SlotStep
<1>4. ASSUME NEW w \in Workers PROVE ~Skip(w)
  BY <1>a, NobodyLocks DEF Skip, SerialInv
<1>5. ASSUME NEW w \in Workers, Acquire(w) PROVE SerialInv' /\ SlotStep
  <2>1. /\ status[w] # "running" /\ Goto(w, "locked") /\ SoloDecision(w)'
        /\ ~Refuses(w) /\ ~Refuses(w)'
    BY <1>5, <1>a
       DEF Acquire, Goto, SoloDecision, SerialInv, Refuses, TypeOK
  <2>2. QED
    BY <1>5, <1>a, <2>1, QuietMoves DEF Acquire, SlotStep, TypeOK
<1>6. ASSUME NEW w \in Workers PROVE ~Refresh(w)
  BY DEF Refresh, SerialInv, SoloDecision
<1>7. ASSUME NEW w \in Workers, Reuse(w) PROVE SerialInv' /\ SlotStep
  <2>1. SoloDecision(w)' /\ ~Refuses(w) /\ ~Refuses(w)'
    BY <1>7, <1>a DEF Reuse, Goto, SoloDecision, SerialInv, Refuses, TypeOK
  <2>2. QED
    BY <1>7, <1>a, <2>1, QuietMoves DEF Reuse, SlotStep
<1>8. ASSUME NEW w \in Workers, Cleanup(w) PROVE SerialInv' /\ SlotStep
  <2>1. results \in SettledOutcomes => w \in Overwriters \/ Refuses(w)
    BY <1>8 DEF Cleanup, CanReuse, SerialInv, SoloDecision, Refuses
  <2>2. /\ results' \in {results, "absent"}
        /\ \A b \in Actors \ {w} : flock'[b] = flock[b] \/ flock[b] = "path"
    BY <1>8, <1>a DEF Cleanup, Remove, TypeOK
  <2>3. SoloDecision(w)'
    BY <1>8, <1>a, <2>1, <2>2
       DEF Cleanup, Goto, SoloDecision, Refuses, TypeOK, Outcome
  <2>r. Refuses(w)' <=> Refuses(w)
    BY <1>8, <1>a DEF Cleanup, Goto, Refuses, TypeOK
  <2>4. /\ SerialInv' /\ Executing = {} /\ Executing' = {w}
        /\ Refusing' = Refusing /\ (Refuses(w) => w \in Refusing)
    BY <1>8, <2>2, <2>3, <2>r, WorkerMoves DEF Cleanup
  <2>5. SlotOutcome' \in {SlotOutcome, "todo"}
    BY <2>2 DEF SlotOutcome, Outcome
  <2>6. Slot!Claim(w)
    <3>1. CASE w \in Overwriters \/ results \notin SettledOutcomes
      BY <2>2, <2>4, <2>5, <3>1 DEF Slot!Claim, SlotOutcome, Outcome
    <3>2. CASE w \notin Overwriters /\ results \in SettledOutcomes
      <4>1. w \in Refusing /\ pc[w] = "declined"
        BY <1>8, <2>1, <2>4, <3>2
           DEF Cleanup, Refuses, SerialInv, SoloDecision, ExecutionPCs
      <4>2. ~ShouldRemove(w)
        BY <3>2, <4>1 DEF ShouldRemove, SerialInv, SoloDecision
      <4>3. results' = results
        BY <1>8, <4>2 DEF Cleanup
      <4>4. QED
        BY <2>4, <4>1, <4>3 DEF Slot!Claim, SlotOutcome
    <3>3. QED
      BY <3>1, <3>2
  <2>7. QED
    BY <2>4, <2>6 DEF SlotStep, Slot!Next
<1>9. ASSUME NEW w \in Workers, Configure(w) PROVE SerialInv' /\ SlotStep
  <2>1. SoloDecision(w)' /\ (Refuses(w)' <=> Refuses(w))
    BY <1>9, <1>a
       DEF Configure, Goto, SoloDecision, SerialInv, Refuses, TypeOK
  <2>2. QED
    BY <1>9, <1>a, <2>1, QuietMoves DEF Configure, SlotStep
<1>10. ASSUME NEW w \in Workers, OpenResults(w) PROVE SerialInv' /\ SlotStep
  <2>1. SoloDecision(w)'
    BY <1>10, <1>a DEF OpenResults, Goto, SoloDecision, TypeOK, Outcome
  <2>r. Refuses(w)' <=> Refuses(w)
    BY <1>10, <1>a DEF OpenResults, Goto, Refuses, TypeOK
  <2>2. /\ SerialInv' /\ Executing = {w} /\ Executing' = {w}
        /\ Refusing' = Refusing /\ (Refuses(w) => w \in Refusing)
    BY <1>10, <2>1, <2>r, WorkerMoves DEF OpenResults
  <2>3. SlotOutcome' = "todo"
    BY <1>10 DEF OpenResults, SlotOutcome, Outcome
  <2>4. CASE w \in Overwriters \/ Refuses(w)
    BY <2>2, <2>3, <2>4 DEF SlotStep, Slot!Next, Slot!Discard, SlotOutcome
  <2>5. CASE w \notin Overwriters /\ ~Refuses(w)
    <3>1. SlotOutcome = "todo"
      BY <1>10, <2>5
         DEF OpenResults, SerialInv, SoloDecision, Refuses, SlotOutcome
    <3>2. QED
      BY <2>2, <2>3, <3>1 DEF SlotStep, slotVars
  <2>6. QED
    BY <2>4, <2>5
<1>11. ASSUME NEW w \in Workers, NEW o \in RunOutcomes,
              WriteResults(w, o)
       PROVE  SerialInv' /\ SlotStep
  <2>1. SlotOutcome = "todo"
    BY <1>11 DEF WriteResults, SerialInv, SoloDecision, SlotOutcome, Outcome
  <2>2. results' \in SettledOutcomes \/ SlotOutcome' = SlotOutcome
    BY <2>1 DEF SlotOutcome
  <2>3. SoloDecision(w)' /\ ~Refuses(w)'
    BY <1>11, <1>a DEF WriteResults, Goto, SoloDecision, Refuses, TypeOK
  <2>4. QED
    BY <1>11, <2>2, <2>3, FinishMoves DEF WriteResults, SlotStep
<1>12. ASSUME NEW w \in Workers, Release(w) PROVE SerialInv' /\ SlotStep
  <2>1. SoloDecision(w)' /\ ~Refuses(w) /\ ~Refuses(w)'
    BY <1>12, <1>a DEF Release, Return, Goto, SoloDecision, Refuses, TypeOK
  <2>2. QED
    BY <1>12, <1>a, <2>1, QuietMoves DEF Release, Return, SlotStep, TypeOK
<1>13. ASSUME NEW w \in Workers, Fail(w) PROVE SerialInv' /\ SlotStep
  <2>1. SoloDecision(w)' /\ ~Refuses(w)'
    BY <1>13, <1>a DEF Fail, Goto, SoloDecision, Refuses, TypeOK
  <2>2. QED
    BY <1>13, <2>1, FinishMoves DEF Fail, SlotStep, SlotOutcome
<1>14. ASSUME NEW w \in Workers, Crash(w) PROVE SerialInv' /\ SlotStep
  <2>1. SoloDecision(w)' /\ ~Refuses(w)'
    BY <1>14, <1>a DEF Crash, Return, Goto, SoloDecision, Refuses, TypeOK
  <2>2. /\ flock'[w] = "none" /\ Goto(w, "idle")
        /\ \A b \in Actors \ {w} : flock'[b] = flock[b]
        /\ \A v \in Workers \ {w} : doubt'[v] = doubt[v]
        /\ pc[w] # "idle" /\ UNCHANGED results
    BY <1>14, <1>a DEF Crash, Return, TypeOK
  <2>3. CASE pc[w] \in ExecutionPCs
    BY <2>1, <2>2, <2>3, FinishMoves DEF SlotStep, SlotOutcome
  <2>4. CASE pc[w] \notin ExecutionPCs
    <3>1. /\ SerialInv' /\ Executing = {} /\ Executing' = {}
          /\ Refusing \in {{w}, {}} /\ Refusing' = {}
      BY <2>1, <2>2, <2>4, WorkerMoves
    <3>2. Slot!Withdraw(w)
      BY <2>2, <3>1 DEF Slot!Withdraw, SlotOutcome
    <3>3. QED
      BY <3>1, <3>2 DEF SlotStep, Slot!Next
  <2>5. QED
    BY <2>3, <2>4
<1>15. ASSUME NEW w \in Workers, RefuseReuse(w)
       PROVE  SerialInv' /\ SlotStep
  <2>1. SoloDecision(w)' /\ ~Refuses(w) /\ Refuses(w)'
    BY <1>15, <1>a
       DEF RefuseReuse, CanReuse, Goto, SoloDecision, SerialInv, Refuses,
           TypeOK
  <2>2. /\ SerialInv' /\ Executing = {} /\ Executing' = {}
        /\ Refusing = {} /\ Refusing' = {w}
    BY <1>15, <1>a, <2>1, WorkerMoves DEF RefuseReuse
  <2>3. Slot!Refuse(w)
    BY <1>15, <2>2 DEF RefuseReuse, Slot!Refuse, SlotOutcome
  <2>4. QED
    BY <2>2, <2>3 DEF SlotStep, Slot!Next
<1>16. QED
  BY <1>a, <1>1, <1>2, <1>3, <1>4, <1>5, <1>6, <1>7, <1>8, <1>9, <1>10,
     <1>11, <1>12, <1>13, <1>14, <1>15 DEF Next, ClaimStep

\* Used by one invocation at a time, and whatever crashes, the session
\* directory implements the slot: one worker executes, and a settled outcome
\* stays unless a worker overwrites it or its observers refuse it.
THEOREM ImplementsTheSlot ==
  ASSUME Solo
  PROVE  Spec => ImplementsSlot
<1>1. Init => Slot!Init /\ SerialInv
  <2> SUFFICES ASSUME Init PROVE Slot!Init /\ SerialInv
    OBVIOUS
  <2>1. /\ \A a \in Actors : pc[a] = "idle" /\ flock[a] = "none"
        /\ Workers \subseteq Actors
    BY DEF Init, Actors
  <2>2. SerialInv
    BY <2>1 DEF Init, SerialInv, Serial, SoloDecision
  <2>3. Executing = {} /\ Refusing = {}
    BY <2>1 DEF Init, Executing, Refusing
  <2>4. QED
    BY <2>2, <2>3 DEF Slot!Init
<1>2. TypeOK /\ SerialInv /\ [Next]_vars =>
        /\ SerialInv'
        /\ [Slot!Next]_<<Executing, Refusing,
                         IF results \in SettledOutcomes THEN results ELSE "todo">>
  <2> SUFFICES ASSUME TypeOK, SerialInv, [Next]_vars
               PROVE  SerialInv' /\ SlotStep
    BY DEF SlotStep, slotVars, SlotOutcome
  <2>1. CASE Next
    BY <2>1, SerialStep
  <2>2. CASE UNCHANGED vars
    BY <2>2 DEF vars, SerialInv, Serial, SoloDecision, SlotStep, slotVars,
       SlotOutcome, Executing, Refusing
  <2>3. QED
    BY <2>1, <2>2
<1>3. QED
  BY <1>1, <1>2, TypeCorrect, PTL DEF Spec, ImplementsSlot, Slot!Spec
-----------------------------------------------------------------------------
(***************************************************************************)
(* A run: RunExecutor, each of whose session tasks is one claim as above.  *)
(***************************************************************************)
\* The status of a session is "running" or what its results file tells.
LEMMA StatusRange ==
  ASSUME RunTypeOK, NEW t \in Completed
  PROVE  t \in Tasks /\ disk[t] \in {"completed", "invalid"}
  BY DEF RunTypeOK, Completed, StatusOf

\* The tracker's mark and the report keep their types.
LEMMA MarkTypes ==
  ASSUME RunTypeOK, NEW state \in {"success", "error"}, NEW k,
         MarkRunFinal(state, k)
  PROVE  /\ runState' \in {"none", "success", "error"}
         /\ finals' \in Nat
         /\ report' \in [state : {"none", "success", "error"},
                         sessions : SUBSET Tasks, aggregated : SUBSET Tasks]
<1>1. Recorded \in SUBSET Tasks /\ Completed \in SUBSET Tasks
  BY DEF Recorded, Completed
<1>2. Report(state) \in [state : {"none", "success", "error"},
                         sessions : SUBSET Tasks, aggregated : SUBSET Tasks]
  BY <1>1 DEF Report
<1>3. QED
  BY <1>2 DEF MarkRunFinal, RunTypeOK, tracked

\* Cancelling futures keeps the futures in type.
LEMMA CancelTypes ==
  ASSUME NEW future \in [Tasks -> Futures]
  PROVE  CancelFutures(future) \in [Tasks -> Futures]
  BY DEF CancelFutures, Futures

\* RunTypeOK is preserved by every step.
LEMMA RunTypeStep == RunTypeOK /\ [RunNext]_runVars => RunTypeOK'
<1> SUFFICES ASSUME RunTypeOK, [RunNext]_runVars PROVE RunTypeOK'
  OBVIOUS
<1> USE ExecutorAssumption DEF RunTypeOK, disks, config, futures, tracked
<1>0. Completed \in SUBSET Tasks
  BY DEF Completed
<1>1. CASE Plan
  BY <1>0, <1>1 DEF Plan
<1>2. CASE PlanAggregation
  BY <1>0, <1>2 DEF PlanAggregation
<1>3. CASE LoadReused \/ LoadFails
  BY <1>3 DEF LoadReused, LoadFails, Record
<1>4. ASSUME NEW t \in Tasks, Submit(t) PROVE RunTypeOK'
  BY <1>4 DEF Submit, Futures
<1>5. ASSUME NEW t \in Tasks, ConsumeResult(t) PROVE RunTypeOK'
  BY <1>5 DEF ConsumeResult, Consume, Futures
<1>6. ASSUME NEW t \in Tasks, ConsumeCancel(t) \/ ConsumeFailure(t)
      PROVE RunTypeOK'
  <2>1. Consume(t) \in [Tasks -> Futures]
    BY DEF Consume, Futures
  <2>2. work' \in [Tasks -> Futures]
    BY <1>6, <2>1, CancelTypes DEF ConsumeCancel, ConsumeFailure
  <2>3. /\ runState' \in {"none", "success", "error"}
        /\ finals' \in Nat
        /\ report' \in [state : {"none", "success", "error"},
                        sessions : SUBSET Tasks, aggregated : SUBSET Tasks]
    BY <1>6, MarkTypes DEF ConsumeCancel, ConsumeFailure
  <2>4. QED
    BY <1>6, <2>2, <2>3 DEF ConsumeCancel, ConsumeFailure
<1>7. CASE Interrupt
  BY <1>7, MarkTypes, CancelTypes DEF Interrupt
<1>8. CASE Wait \/ Executed
  BY <1>8 DEF Wait, Done, Executed
<1>9. CASE Drain
  BY <1>9 DEF Drain
<1>10. CASE Rescan
  BY <1>0, <1>10 DEF Rescan
<1>11. CASE AggregateSessions
  BY <1>11 DEF AggregateSessions
<1>12. CASE Finish
  BY <1>12, MarkTypes DEF Finish
<1>13. ASSUME NEW t \in Tasks, Session(t) PROVE RunTypeOK'
  <2>1. CASE SkipRunning(t)
    BY <2>1 DEF SkipRunning, Futures
  <2>2. CASE ReuseCompleted(t) \/ ReuseRefused(t)
    BY <2>2 DEF ReuseCompleted, ReuseRefused, Record, Futures
  <2>3. CASE StartSession(t)
    BY <2>3 DEF StartSession, Futures, Files
  <2>4. CASE EndSession(t)
    BY <2>4 DEF EndSession, Record, Futures, Files
  <2>5. CASE PickUp(t)
    BY <2>5 DEF PickUp, Futures
  <2>6. QED
    BY <1>13, <2>1, <2>2, <2>3, <2>4, <2>5 DEF Session
<1>14. ASSUME NEW t \in Tasks, OtherTakes(t) PROVE RunTypeOK'
  BY <1>14 DEF OtherTakes
<1>15. ASSUME NEW t \in Tasks, OtherEnds(t) PROVE RunTypeOK'
  BY <1>15 DEF OtherEnds, Files
<1>16. CASE UNCHANGED runVars
  BY <1>16 DEF runVars
<1> HIDE DEF RunTypeOK, disks, config, futures, tracked
<1>17. QED
  BY <1>1, <1>2, <1>3, <1>4, <1>5, <1>6, <1>7, <1>8, <1>9, <1>10, <1>11, <1>12,
     <1>13, <1>14, <1>15, <1>16 DEF RunNext, Main, Finished

\* Every variable of RunExecutor keeps its type.
THEOREM RunTypeCorrect == RunSpec => []RunTypeOK
<1>1. ASSUME RunInit PROVE RunTypeOK
  <2>1. PICK c \in Configs : /\ mode = c.mode /\ workers = c.workers
                            /\ overwrite = c.overwrite
    BY <1>1 DEF RunInit
  <2>2. c \in [mode : Modes, workers : Nat \ {0}, overwrite : BOOLEAN]
    BY ExecutorAssumption
  <2>3. mode \in Modes /\ workers \in Nat \ {0} /\ overwrite \in BOOLEAN
    BY <2>1, <2>2
  <2>4. disk \in [Tasks -> Files] /\ visits \in 0..MaxVisits
    BY <1>1, ExecutorAssumption DEF RunInit
  <2>5. QED
    BY <1>1, <2>3, <2>4 DEF RunInit, RunTypeOK, Futures, NoReport
<1>2. QED
  BY <1>1, RunTypeStep, PTL DEF RunSpec
-----------------------------------------------------------------------------
(***************************************************************************)
(* The end of the run is reported once: _mark_run_final counts as the      *)
(* number of reports whether there was one.                                *)
(***************************************************************************)
FinalInv == finals = IF runState = "none" THEN 0 ELSE 1

\* Reporting the end of the run keeps the count.
LEMMA MarkKeepsFinal ==
  ASSUME FinalInv, NEW state \in {"success", "error"}, NEW k,
         MarkRunFinal(state, k)
  PROVE  FinalInv'
  BY DEF FinalInv, MarkRunFinal, tracked

\* The observers learn of the end of a run at most once, however many
\* clauses of the executor report it and in whatever order they do.
THEOREM FinalizedAtMostOnce == RunSpec => []FinalizedOnce
<1>1. RunInit => FinalInv
  BY DEF RunInit, FinalInv
<1>2. FinalInv /\ [RunNext]_runVars => FinalInv'
  <2> SUFFICES ASSUME FinalInv, [RunNext]_runVars PROVE FinalInv'
    OBVIOUS
  <2>1. ASSUME NEW t \in Tasks, ConsumeCancel(t) \/ ConsumeFailure(t)
        PROVE FinalInv'
    BY <2>1, MarkKeepsFinal
      DEF ConsumeCancel, ConsumeFailure, FinalInv, tracked
  <2>2. CASE Interrupt \/ Finish
    BY <2>2, MarkKeepsFinal DEF Interrupt, Finish
  <2>3. ASSUME UNCHANGED tracked PROVE FinalInv'
    BY <2>3 DEF tracked, FinalInv
  <2>4. CASE \/ Plan \/ PlanAggregation \/ LoadReused \/ LoadFails
             \/ Wait \/ Executed
             \/ Drain \/ Rescan \/ AggregateSessions
    BY <2>3, <2>4
      DEF Plan, PlanAggregation, LoadReused, LoadFails, Wait, Executed, Drain,
          Rescan, AggregateSessions
  <2>5. ASSUME NEW t \in Tasks,
               \/ Submit(t) \/ ConsumeResult(t) \/ Session(t)
               \/ OtherTakes(t) \/ OtherEnds(t)
        PROVE FinalInv'
    BY <2>3, <2>5 DEF Submit, ConsumeResult, Session, PickUp, SkipRunning,
                      ReuseCompleted, ReuseRefused, StartSession, EndSession,
                      OtherTakes, OtherEnds
  <2>6. CASE UNCHANGED runVars
    BY <2>3, <2>6 DEF runVars, tracked
  <2>7. QED
    BY <2>1, <2>2, <2>4, <2>5, <2>6 DEF RunNext, Main, Finished
<1>3. FinalInv => FinalizedOnce
  BY DEF FinalInv, FinalizedOnce
<1>4. QED
  BY <1>1, <1>2, <1>3, PTL DEF RunSpec
-----------------------------------------------------------------------------
(***************************************************************************)
(* One result per task.  A task that may still get a result has none yet,  *)
(* or the one its observers refused, and a task to be reused is never      *)
(* submitted.                                                              *)
(***************************************************************************)
OneResultInv ==
  /\ phase = "plan" => reuse = {} /\ todo = {}
  /\ phase \in {"plan", "reuse"} =>
       \A t \in Tasks : records[t] = 0 /\ work[t] = "none"
  /\ \A t \in todo : work[t] = "none" /\ records[t] = 0
  /\ \A t \in reuse : t \notin todo /\ work[t] = "none"
  /\ \A t \in Tasks : work[t] \in {"submitted", "picked"} => records[t] = 0
  /\ \A t \in Tasks : work[t] = "running" =>
       records[t] <= IF t \in refused THEN 1 ELSE 0
  /\ OneResultPerTask

\* The invariant is preserved by every step.
LEMMA OneResultStep ==
  ASSUME RunTypeOK, OneResultInv, [RunNext]_runVars
  PROVE  OneResultInv'
<1> USE DEF OneResultInv, OneResultPerTask, Awaited, RunTypeOK, Futures,
            futures
<1>1. CASE Plan
  <2>1. /\ \A t \in Tasks : records[t] = 0 /\ work[t] = "none"
        /\ UNCHANGED <<records, work>> /\ phase' = "reuse"
    BY <1>1 DEF Plan
  <2>2. /\ reuse' \subseteq Tasks /\ todo' \subseteq Tasks
        /\ \A t \in reuse' : t \notin todo'
    BY <1>1 DEF Plan, Completed
  <2>3. QED
    BY <2>1, <2>2
<1>2. CASE PlanAggregation
  BY <1>2 DEF PlanAggregation
<1>3. CASE LoadReused \/ LoadFails
  <2>1. PICK some \in SUBSET Loaded : Record(some)
    BY <1>3 DEF LoadReused, LoadFails
  <2>2. some \subseteq reuse /\ reuse \subseteq Tasks
    BY <2>1 DEF Loaded
  <2>3. \A t \in Tasks : /\ records[t] = 0 /\ work[t] = "none"
                         /\ records'[t] = IF t \in some THEN 1 ELSE 0
    BY <1>3, <2>1 DEF LoadReused, LoadFails, Record
  <2>4. /\ phase' \in {"score", "execute", "end"}
        /\ UNCHANGED <<reuse, todo, work, refused>>
    BY <1>3 DEF LoadReused, LoadFails
  <2>5. QED
    BY <2>2, <2>3, <2>4
<1>4. ASSUME NEW t \in Tasks, Submit(t) PROVE OneResultInv'
  BY <1>4 DEF Submit
<1>5. ASSUME NEW t \in Tasks, ConsumeResult(t) PROVE OneResultInv'
  BY <1>5 DEF ConsumeResult, MayConsume, Consume
<1>6. ASSUME NEW t \in Tasks, ConsumeCancel(t) \/ ConsumeFailure(t)
      PROVE OneResultInv'
  BY <1>6 DEF ConsumeCancel, ConsumeFailure, MayConsume, Consume, CancelFutures
<1>7. CASE Interrupt
  BY <1>7 DEF Interrupt, CancelFutures
<1>8. CASE Wait \/ Executed \/ Drain \/ Rescan \/ AggregateSessions \/ Finish
  BY <1>8 DEF Wait, Executed, Drain, Rescan, AggregateSessions, Finish
<1>9. ASSUME NEW t \in Tasks, Session(t) PROVE OneResultInv'
  <2>1. CASE SkipRunning(t)
    BY <2>1 DEF SkipRunning
  <2>2. CASE ReuseCompleted(t)
    BY <2>2 DEF ReuseCompleted, Record
  <2>3. CASE ReuseRefused(t)
    BY <2>3 DEF ReuseRefused, Record
  <2>4. CASE StartSession(t)
    BY <2>4 DEF StartSession
  <2>5. CASE EndSession(t)
    <3>1. /\ work[t] = "running"
          /\ Record({t}) \/ UNCHANGED records
          /\ UNCHANGED <<phase, reuse, todo, refused>>
      BY <2>5 DEF EndSession
    <3>2. PICK result \in {"ok", "cancel", "failed"} :
            work' = [work EXCEPT ![t] = result]
      BY <2>5 DEF EndSession
    <3>3. \A u \in Tasks \ {t} : records'[u] = records[u] /\ work'[u] = work[u]
      BY <3>1, <3>2 DEF Record
    <3>4. records'[t] \in {records[t], records[t] + 1} /\ work'[t] = result
      BY <3>1, <3>2 DEF Record
    <3>5. QED
      BY <3>1, <3>3, <3>4
  <2>6. CASE PickUp(t)
    BY <2>6 DEF PickUp
  <2>7. QED
    BY <1>9, <2>1, <2>2, <2>3, <2>4, <2>5, <2>6 DEF Session
<1>10. ASSUME NEW t \in Tasks, OtherTakes(t) \/ OtherEnds(t)
       PROVE OneResultInv'
  BY <1>10 DEF OtherTakes, OtherEnds
<1>11. CASE UNCHANGED runVars
  BY <1>11 DEF runVars
<1>12. QED
  BY <1>1, <1>2, <1>3, <1>4, <1>5, <1>6, <1>7, <1>8, <1>9, <1>10, <1>11
     DEF RunNext, Main, Finished

\* No task gets two results in one run: a session that is reused is not
\* executed, unless an observer refuses its results, and one that is executed
\* is recorded once, whatever other processes do to its directory meanwhile.
THEOREM OneResult == RunSpec => []OneResultPerTask
<1>1. RunInit => OneResultInv
  BY DEF RunInit, OneResultInv, OneResultPerTask, Awaited
<1>2. RunTypeOK /\ OneResultInv /\ [RunNext]_runVars => OneResultInv'
  BY OneResultStep
<1>3. OneResultInv => OneResultPerTask
  BY DEF OneResultInv
<1>4. QED
  BY <1>1, <1>2, <1>3, RunTypeCorrect, PTL DEF RunSpec

\* What a run says of itself it says once: no task has two results, but for
\* what an observer refused, and the end of the run is reported at most once.
THEOREM EverythingOnce == RunSpec => []ReportedOnce
  BY OneResult, FinalizedAtMostOnce, PTL DEF ReportedOnce
-----------------------------------------------------------------------------
(***************************************************************************)
(* Scoring.  Sessions are chosen for scoring when none of this run's can   *)
(* start or end any more, and other processes do not undo a completed one, *)
(* unless its results were invalid from the start.                         *)
(***************************************************************************)
QuietInv ==
  /\ phase \notin {"execute", "drain"} =>
       \A t \in Tasks : work[t] \notin Awaited
  /\ mode = "aggregate" => phase \notin {"execute", "drain"}
  /\ scored # {} => phase \notin {"execute", "drain", "rescan"}
  /\ phase = "plan" => scored = {}
  /\ phase = "reuse" /\ scored # {} => mode = "aggregate"
  /\ \A t \in Tasks : disk[t] = "invalid" => t \in invalid
  /\ ScoredCompleted

\* A session task and another process leave no invalid results that were not
\* there before, and completed ones only other processes leave alone.
LEMMA NoNewInvalid ==
  ASSUME RunTypeOK, NEW t \in Tasks,
         Session(t) \/ OtherTakes(t) \/ OtherEnds(t)
  PROVE  /\ \A u \in Tasks : disk'[u] = "invalid" => disk[u] = "invalid"
         /\ invalid' = invalid
  BY DEF RunTypeOK, Session, PickUp, SkipRunning, ReuseCompleted, ReuseRefused,
         StartSession, EndSession, OtherTakes, OtherEnds, disks, config

\* QuietInv is preserved by every step.
LEMMA QuietStep ==
  RunTypeOK /\ OneResultInv /\ QuietInv /\ [RunNext]_runVars => QuietInv'
<1> SUFFICES ASSUME RunTypeOK, OneResultInv, QuietInv, [RunNext]_runVars
             PROVE  QuietInv'
  OBVIOUS
<1> USE DEF QuietInv, ScoredCompleted, Awaited, RunTypeOK, Futures, disks,
            config, futures
<1>1. CASE Plan
  BY <1>1 DEF Plan, OneResultInv
<1>2. CASE PlanAggregation
  BY <1>2, StatusRange DEF PlanAggregation
<1>3. CASE LoadReused \/ LoadFails
  BY <1>3 DEF LoadReused, LoadFails
<1>4. ASSUME NEW t \in Tasks, Submit(t) \/ ConsumeResult(t) PROVE QuietInv'
  BY <1>4 DEF Submit, ConsumeResult, MayConsume
<1>5. ASSUME NEW t \in Tasks, ConsumeCancel(t) \/ ConsumeFailure(t)
      PROVE QuietInv'
  BY <1>5 DEF ConsumeCancel, ConsumeFailure, MayConsume
<1>6. CASE Interrupt \/ Wait \/ Executed
  BY <1>6 DEF Interrupt, Wait, Executed
<1>7. CASE Drain
  BY <1>7 DEF Drain
<1>8. CASE Rescan
  BY <1>8, StatusRange DEF Rescan
<1>9. CASE AggregateSessions \/ Finish
  BY <1>9 DEF AggregateSessions, Finish
<1>10. ASSUME NEW t \in Tasks, Session(t) PROVE QuietInv'
  <2>1. phase \in {"execute", "drain"} /\ phase' = phase /\ scored' = scored
    BY <1>10 DEF Session, PickUp, SkipRunning, ReuseCompleted, ReuseRefused,
                 StartSession, EndSession
  <2>2. scored = {} /\ mode' = mode
    BY <1>10, <2>1 DEF Session, PickUp, SkipRunning, ReuseCompleted,
                       ReuseRefused, StartSession, EndSession
  <2>3. QED
    BY <1>10, <2>1, <2>2, NoNewInvalid
<1>11. ASSUME NEW t \in Tasks, OtherTakes(t) \/ OtherEnds(t) PROVE QuietInv'
  BY <1>11, NoNewInvalid DEF OtherTakes, OtherEnds
<1>12. CASE UNCHANGED runVars
  BY <1>12 DEF runVars
<1>13. QED
  BY <1>1, <1>2, <1>3, <1>4, <1>5, <1>6, <1>7, <1>8, <1>9, <1>10, <1>11,
     <1>12 DEF RunNext, Main, Finished

\* Only completed sessions are ever scored, and they are still completed when
\* the run ends.
THEOREM OnlyCompletedScored == RunSpec => []ScoredCompleted
<1>1. RunInit => QuietInv
  BY DEF RunInit, QuietInv, ScoredCompleted, Awaited
<1>2. RunInit => OneResultInv
  BY DEF RunInit, OneResultInv, OneResultPerTask, Awaited
<1>3. QuietInv => ScoredCompleted
  BY DEF QuietInv
<1>4. RunTypeOK /\ OneResultInv /\ [RunNext]_runVars => OneResultInv'
  BY OneResultStep
<1>5. QED
  BY <1>1, <1>2, <1>3, <1>4, QuietStep, RunTypeCorrect, PTL DEF RunSpec
-----------------------------------------------------------------------------
(***************************************************************************)
(* Aborting.  Once the run unwinds, no future waits to be started and the  *)
(* loop that submits them has been left for good.                          *)
(***************************************************************************)
AbortInv ==
  unwinding # "none" => /\ phase \notin {"plan", "reuse", "execute"}
                        /\ \A t \in Tasks : work[t] # "submitted"

\* Cancelling the futures leaves none that waits to be started.
LEMMA NoneSubmitted ==
  ASSUME NEW future \in [Tasks -> Futures], NEW t \in Tasks
  PROVE  CancelFutures(future)[t] # "submitted"
  BY DEF CancelFutures

\* AbortInv is preserved by every step.
LEMMA AbortStep == RunTypeOK /\ AbortInv /\ [RunNext]_runVars => AbortInv'
<1> SUFFICES ASSUME RunTypeOK, AbortInv, [RunNext]_runVars PROVE AbortInv'
  OBVIOUS
<1> USE DEF AbortInv, RunTypeOK, futures
<1>1. CASE Plan \/ PlanAggregation \/ LoadReused \/ LoadFails
  BY <1>1 DEF Plan, PlanAggregation, LoadReused, LoadFails
<1>2. ASSUME NEW t \in Tasks, Submit(t) \/ ConsumeResult(t) PROVE AbortInv'
  BY <1>2 DEF Submit, ConsumeResult, MayConsume
<1>3. ASSUME NEW t \in Tasks, ConsumeCancel(t) \/ ConsumeFailure(t)
      PROVE AbortInv'
  <2>1. Consume(t) \in [Tasks -> Futures]
    BY DEF Consume, Futures
  <2>2. \A u \in Tasks : work'[u] # "submitted"
    BY <1>3, <2>1, NoneSubmitted DEF ConsumeCancel, ConsumeFailure
  <2>3. phase' = "drain"
    BY <1>3 DEF ConsumeCancel, ConsumeFailure
  <2>4. QED
    BY <2>2, <2>3
<1>4. CASE Interrupt
  BY <1>4, NoneSubmitted DEF Interrupt
<1>5. CASE Wait \/ Executed \/ Drain \/ Rescan \/ AggregateSessions \/ Finish
  BY <1>5 DEF Wait, Executed, Drain, Rescan, AggregateSessions, Finish
<1>6. ASSUME NEW t \in Tasks, Session(t) PROVE AbortInv'
  BY <1>6 DEF Session, PickUp, SkipRunning, ReuseCompleted, ReuseRefused,
              StartSession, EndSession
<1>7. ASSUME NEW t \in Tasks, OtherTakes(t) \/ OtherEnds(t) PROVE AbortInv'
  BY <1>7 DEF OtherTakes, OtherEnds
<1>8. CASE UNCHANGED runVars
  BY <1>8 DEF runVars
<1>9. QED
  BY <1>1, <1>2, <1>3, <1>4, <1>5, <1>6, <1>7, <1>8 DEF RunNext, Main, Finished

\* Only a future that waits to be picked up gets into the hands of a thread.
LEMMA StartNeedsSubmitted ==
  ASSUME RunTypeOK, [RunNext]_runVars, NEW u \in Tasks,
         work[u] \notin {"picked", "running"},
         work'[u] \in {"picked", "running"}
  PROVE  work[u] = "submitted"
<1> USE DEF RunTypeOK, futures
<1>1. CASE Plan \/ PlanAggregation \/ LoadReused \/ LoadFails
  BY <1>1 DEF Plan, PlanAggregation, LoadReused, LoadFails
<1>2. ASSUME NEW t \in Tasks, Submit(t) \/ ConsumeResult(t)
      PROVE work[u] = "submitted"
  BY <1>2 DEF Submit, ConsumeResult, Consume
<1>3. ASSUME NEW t \in Tasks, ConsumeCancel(t) \/ ConsumeFailure(t)
      PROVE work[u] = "submitted"
  BY <1>3 DEF ConsumeCancel, ConsumeFailure, Consume, CancelFutures
<1>4. CASE Interrupt
  BY <1>4 DEF Interrupt, CancelFutures
<1>5. CASE Wait \/ Executed \/ Drain \/ Rescan \/ AggregateSessions \/ Finish
  BY <1>5 DEF Wait, Executed, Drain, Rescan, AggregateSessions, Finish
<1>6. ASSUME NEW t \in Tasks, Session(t) PROVE work[u] = "submitted"
  BY <1>6 DEF Session, PickUp, SkipRunning, ReuseCompleted, ReuseRefused,
              StartSession, EndSession
<1>7. ASSUME NEW t \in Tasks, OtherTakes(t) \/ OtherEnds(t)
      PROVE work[u] = "submitted"
  BY <1>7 DEF OtherTakes, OtherEnds
<1>8. CASE UNCHANGED runVars
  BY <1>8 DEF runVars
<1>9. QED
  BY <1>1, <1>2, <1>3, <1>4, <1>5, <1>6, <1>7, <1>8 DEF RunNext, Main, Finished

\* Once the run is aborted no session of it starts that a thread of the pool
\* had not picked up, however many futures were queued.
THEOREM AbortStopsStarts == RunSpec => NoStartAfterAbort
<1>1. RunInit => AbortInv
  BY DEF RunInit, AbortInv
<1>2. RunTypeOK /\ AbortInv /\ [RunNext]_runVars =>
        [unwinding # "none" =>
           Running' \cup Picked' \subseteq Running \cup Picked]_runVars
  <2> SUFFICES ASSUME RunTypeOK, AbortInv, [RunNext]_runVars,
                      unwinding # "none", NEW u \in Running' \cup Picked'
               PROVE  u \in Running \cup Picked
    OBVIOUS
  <2>1. u \in Tasks /\ work'[u] \in {"picked", "running"}
    BY DEF Running, Picked
  <2>2. work[u] # "submitted"
    BY <2>1 DEF AbortInv
  <2>3. work[u] \in {"picked", "running"}
    BY <2>1, <2>2, StartNeedsSubmitted
  <2>4. QED
    BY <2>1, <2>3 DEF Running, Picked
<1>3. QED
  BY <1>1, <1>2, AbortStep, RunTypeCorrect, PTL DEF RunSpec, NoStartAfterAbort
-----------------------------------------------------------------------------
(***************************************************************************)
(* Completeness.  While the run goes on without being aborted, each task   *)
(* has a result, was skipped, is still to be submitted, or is in the hands *)
(* of the pool, whose failures abort the run; or its results did not load. *)
(***************************************************************************)
Accounted(t) == \/ t \in todo \cup skipped \cup (reuse \cap invalid)
                \/ records[t] > 0
                \/ work[t] \in Awaited \cup {"cancel", "failed"}

Normal == mode # "aggregate" /\ unwinding = "none" /\ outcome # "raised"

CompleteInv ==
  /\ unwinding # "none" => phase \in {"drain", "end"}
  /\ phase # "end" => outcome = "none"
  /\ Normal =>
       /\ \A t \in Tasks : work[t] # "cancelled"
       /\ phase = "reuse" =>
            /\ reuse \cup todo \cup skipped = Tasks
            /\ \A t \in reuse : disk[t] = "completed" \/ t \in invalid
       /\ phase = "execute" => \A t \in Tasks : Accounted(t)
       /\ phase \notin {"plan", "reuse", "execute"} =>
            \A t \in Tasks : /\ \/ t \in skipped \cup (reuse \cap invalid)
                               \/ records[t] > 0
                            /\ work[t] \in {"none", "consumed"}
  /\ report.state = "success" =>
       /\ phase = "end" /\ unwinding = "none" /\ outcome = "returned"
       /\ report.sessions = Recorded

\* A step that leaves the report alone keeps what is said of it, unless it
\* records a session or leaves the end.
LEMMA ReportKept ==
  ASSUME CompleteInv, UNCHANGED <<report, records>>,
         phase = "end" => /\ phase' = "end" /\ unwinding' = unwinding
                          /\ outcome' = outcome
  PROVE  report'.state = "success" =>
           /\ phase' = "end" /\ unwinding' = "none" /\ outcome' = "returned"
           /\ report'.sessions = Recorded'
  BY DEF CompleteInv, Recorded

\* A step of a session task, which runs only while the pool does.
LEMMA SessionKeepsComplete ==
  ASSUME RunTypeOK, QuietInv, CompleteInv, NEW t \in Tasks, Session(t)
  PROVE  CompleteInv'
<1> USE DEF CompleteInv, RunTypeOK, Normal, Accounted, Awaited, Futures
<1>1. /\ work[t] \in Awaited
      /\ UNCHANGED <<phase, unwinding, mode, invalid, report, todo, reuse,
                     outcome>>
  BY DEF Session, PickUp, SkipRunning, ReuseCompleted, ReuseRefused,
         StartSession, EndSession, config, tracked
<1>2. phase \in {"execute", "drain"}
  BY <1>1 DEF QuietInv
<1>3. report.state # "success"
  BY <1>2
<1>4. CASE ~Normal
  BY <1>1, <1>2, <1>3, <1>4
<1>5. CASE Normal
  <2>1. phase = "execute" /\ Normal'
    BY <1>1, <1>2, <1>5
  <2>2. CASE SkipRunning(t)
    BY <2>1, <2>2, <1>1, <1>3, <1>5 DEF SkipRunning
  <2>3. CASE ReuseCompleted(t)
    BY <2>1, <2>3, <1>1, <1>3, <1>5 DEF ReuseCompleted, Record
  <2>4. CASE StartSession(t) \/ PickUp(t)
    BY <2>1, <2>4, <1>1, <1>3, <1>5 DEF StartSession, PickUp
  <2>5. CASE ReuseRefused(t)
    <3>1. \A u \in Tasks : records'[u] \in {records[u], records[u] + 1}
      BY <2>5 DEF ReuseRefused, Record
    <3>2. \A u \in Tasks : work'[u] = IF u = t THEN "running" ELSE work[u]
      BY <2>5 DEF ReuseRefused
    <3>3. skipped' = skipped
      BY <2>5 DEF ReuseRefused
    <3>4. QED
      BY <1>1, <1>3, <1>5, <2>1, <3>1, <3>2, <3>3
  <2>6. CASE EndSession(t)
    <3>1. PICK result \in {"ok", "cancel", "failed"} :
            work' = [work EXCEPT ![t] = result]
      BY <2>6 DEF EndSession
    <3>2. /\ skipped' = skipped
          /\ \A u \in Tasks : records'[u] \in {records[u], records[u] + 1}
          /\ result = "ok" => records'[t] = records[t] + 1
      BY <2>6, <3>1 DEF EndSession, Record
    <3>3. \A u \in Tasks : work'[u] # "cancelled"
      BY <3>1, <1>5
    <3>4. Accounted(t)'
      BY <3>1, <3>2
    <3>5. ASSUME NEW u \in Tasks, u # t PROVE Accounted(u)'
      BY <2>1, <3>1, <3>2, <3>5, <1>1, <1>5
    <3>6. \A u \in Tasks : Accounted(u)'
      BY <3>4, <3>5
    <3>7. QED
      BY <1>1, <1>3, <2>1, <3>3, <3>6
  <2>7. QED
    BY <2>2, <2>3, <2>4, <2>5, <2>6 DEF Session
<1>6. QED
  BY <1>4, <1>5

\* CompleteInv is preserved by every step.
LEMMA CompleteStep ==
  ASSUME RunTypeOK, OneResultInv, QuietInv, CompleteInv, [RunNext]_runVars
  PROVE  CompleteInv'
<1> USE DEF CompleteInv, RunTypeOK, Normal, Accounted, Awaited, Futures, disks,
            config, futures, tracked
<1>1. CASE Plan
  <2>1. \A t \in Tasks : work[t] = "none"
    BY <1>1 DEF Plan, OneResultInv
  <2>2. reuse' \cup todo' \cup skipped' = Tasks
    BY <1>1 DEF Plan, Completed
  <2>3. \A t \in reuse' : disk'[t] = "completed" \/ t \in invalid'
    BY <1>1, StatusRange DEF Plan, QuietInv
  <2>4. QED
    BY <1>1, <2>1, <2>2, <2>3 DEF Plan
<1>2. CASE PlanAggregation
  BY <1>2 DEF PlanAggregation
<1>3. CASE LoadReused
  <2>1. report.state # "success" /\ unwinding = "none"
    BY <1>3 DEF LoadReused
  <2>2. CASE ~Normal
    BY <1>3, <2>1, <2>2 DEF LoadReused
  <2>3. CASE Normal
    <3>1. ASSUME NEW t \in Tasks PROVE Accounted(t)'
      <4>1. t \in reuse \cup todo \cup skipped
        BY <1>3, <2>1, <2>3 DEF LoadReused
      <4>2. CASE t \in reuse
        BY <1>3, <2>1, <2>3, <4>2 DEF LoadReused, Loaded, Record
      <4>3. QED
        BY <1>3, <4>1, <4>2 DEF LoadReused
    <3>2. phase' = "execute"
      BY <1>3, <2>3 DEF LoadReused
    <3>3. QED
      BY <1>3, <2>1, <2>3, <3>1, <3>2 DEF LoadReused
  <2>4. QED
    BY <2>2, <2>3
<1>17. CASE LoadFails
  BY <1>17 DEF LoadFails
<1>4. ASSUME NEW t \in Tasks, Submit(t) PROVE CompleteInv'
  BY <1>4 DEF Submit
<1>5. ASSUME NEW t \in Tasks, ConsumeResult(t) PROVE CompleteInv'
  BY <1>5 DEF ConsumeResult, MayConsume, Consume
<1>6. ASSUME NEW t \in Tasks, ConsumeCancel(t) \/ ConsumeFailure(t)
      PROVE CompleteInv'
  <2>1. report'.state # "success"
    BY <1>6 DEF ConsumeCancel, ConsumeFailure, MayConsume, MarkRunFinal, Report
  <2>2. phase' = "drain" /\ unwinding' # "none" /\ outcome' = "none"
    BY <1>6 DEF ConsumeCancel, ConsumeFailure, MayConsume
  <2>3. QED
    BY <2>1, <2>2
<1>7. CASE Interrupt
  <2>1. report'.state # "success"
    BY <1>7 DEF Interrupt, MarkRunFinal, Report
  <2>2. QED
    BY <1>7, <2>1 DEF Interrupt
<1>8. CASE Wait
  BY <1>8 DEF Wait
<1>9. CASE Executed
  <2>1. \A t \in Tasks : work[t] \notin Awaited \cup {"ok", "cancel", "failed"}
    BY <1>9 DEF Executed, InFlight, Done
  <2>2. QED
    BY <1>9, <2>1 DEF Executed
<1>10. CASE Drain
  BY <1>10, ReportKept DEF Drain
<1>11. CASE Rescan \/ AggregateSessions
  BY <1>11, ReportKept DEF Rescan, AggregateSessions
<1>12. CASE Finish
  <2>1. unwinding = "none" /\ phase' = "end" /\ records' = records
    BY <1>12 DEF Finish
  <2>2. report'.state = "success" => report'.sessions = Recorded
    BY <1>12 DEF Finish, MarkRunFinal, Report
  <2>3. Recorded' = Recorded
    BY <2>1 DEF Recorded
  <2>4. QED
    BY <1>12, <2>1, <2>2, <2>3 DEF Finish
<1>13. ASSUME NEW t \in Tasks, Session(t) PROVE CompleteInv'
  BY <1>13, SessionKeepsComplete
<1>14. ASSUME NEW t \in Tasks, OtherTakes(t) \/ OtherEnds(t)
       PROVE CompleteInv'
  <2>1. \A u \in Tasks : disk[u] = "completed" => disk'[u] = "completed"
    BY <1>14 DEF OtherTakes, OtherEnds
  <2>2. UNCHANGED <<mode, invalid, phase, reuse, todo, skipped, work,
                    unwinding, records, report, outcome>>
    BY <1>14 DEF OtherTakes, OtherEnds
  <2>3. QED
    BY <2>1, <2>2, ReportKept
<1>15. CASE UNCHANGED runVars
  BY <1>15, ReportKept DEF runVars
<1>16. QED
  BY <1>1, <1>2, <1>3, <1>4, <1>5, <1>6, <1>7, <1>8, <1>9, <1>10, <1>11, <1>12,
     <1>13, <1>14, <1>15, <1>17 DEF RunNext, Main, Finished

\* A run that ends in success lost no session, for any number of tasks and
\* workers: each has a result in the written run results, or was skipped
\* because another process was running it, or was to be reused although its
\* results were invalid from the start.
THEOREM SuccessLosesNone == RunSpec => []SuccessIsComplete
<1>1. RunInit => CompleteInv
  BY DEF RunInit, CompleteInv, Normal, NoReport
<1>2. RunInit => QuietInv /\ OneResultInv
  BY DEF RunInit, QuietInv, ScoredCompleted, OneResultInv, OneResultPerTask,
         Awaited
<1>3. RunTypeOK /\ OneResultInv /\ [RunNext]_runVars => OneResultInv'
  BY OneResultStep
<1>4. RunTypeOK /\ OneResultInv /\ QuietInv /\ CompleteInv /\ [RunNext]_runVars
        => CompleteInv'
  BY CompleteStep
<1>5. RunTypeOK /\ CompleteInv => SuccessIsComplete
  <2> SUFFICES ASSUME RunTypeOK, CompleteInv,
                      report.state = "success", mode # "aggregate"
               PROVE  /\ report.sessions \cup skipped \cup (reuse \cap invalid)
                           = Tasks
                      /\ report.sessions = Recorded
                      /\ \A t \in Tasks : work[t] \in {"none", "consumed"}
    BY DEF SuccessIsComplete
  <2>1. /\ report.sessions = Recorded
        /\ \A t \in Tasks : /\ \/ t \in skipped \cup (reuse \cap invalid)
                               \/ records[t] > 0
                            /\ work[t] \in {"none", "consumed"}
    BY DEF CompleteInv, Normal
  <2>2. QED
    BY <2>1 DEF Recorded, RunTypeOK
<1>6. QED
  BY <1>1, <1>2, <1>3, <1>4, <1>5, QuietStep, RunTypeCorrect, PTL DEF RunSpec
=============================================================================
