--------------------------- MODULE ObserversProofs ---------------------------
(***************************************************************************)
(* The proofs about Observers, for every set of sessions, of reused ones,  *)
(* and every limit: its type invariant, and that the results, tracker.log  *)
(* and the console agree on how a session ended.  What EndsAgree says does *)
(* not follow from itself: that the log counts the steps the results count *)
(* rests on how far each observer is in the callback under way, and that   *)
(* the bar of the run counts every session on what the console still does  *)
(* for each.                                                               *)
(*                                                                         *)
(* Then those about Dashboard, for every number of runs, sessions, workers *)
(* and every size of the queue and the batches: both views of a run agree. *)
(***************************************************************************)
EXTENDS Observers, Dashboard, FiniteSetTheorems, SequenceTheorems, TLAPS

-----------------------------------------------------------------------------
\* The places of a thread in the console's part of a callback.
Telling == {"console", "use", "measure", "trim"}

\* The places of a thread before the session's first callback.
Fresh == {"idle", "picked", "again"}

\* What the console does for the end of a session or for its reuse, and what
\* is left of it.
OfEnd == <<"touch", "stop", "advanceRun">>
OfReuse == <<"finish", "advanceRun">>
AfterTouch == <<"stop", "advanceRun">>
AfterStop == <<"advanceRun">>

\* What a callback says of the end goes with its name.
Consistent(c) ==
  /\ ~IsEnd(c) => ~c.success /\ c.finished = "unset"
  /\ c.name = "error" =>
       /\ c.why \in Ends /\ ~c.success /\ c.finished = "unset"
       /\ c.source = IF c.why = "cancelled" THEN "cancelled" ELSE "error"
  /\ c.name = "scoring" => c.why \in {"none", "limit"}
  /\ c.name = "success" =>
       /\ c.why \in {"none", "limit"} /\ c.finished \in {"true", "false"}
       /\ c.why = "limit" => c.finished = "false"
  /\ c.name = "reuse" =>
       /\ c.why = "none" /\ c.source = "none"
       /\ c.finished \in {"true", "false"}

\* The callback a session's thread is in goes with its place.
CallInv(s) ==
  /\ Consistent(call[s])
  /\ at[s] \in Fresh \cup {"skipped", "raised"} <=> call[s].name = "none"
  /\ at[s] = "score" => call[s].name = "scoring"
  /\ at[s] = "loop" \/ at[s] = "stepping" => ~IsEnd(call[s])
  /\ at[s] = "done" => IsEnd(call[s])

\* What the console still has to do for the callback.
TodoInv(s) ==
  /\ at[s] \notin Telling => todo[s] = <<>>
  /\ call[s].name \in {"error", "success"} =>
       todo[s] \in {<<>>, OfEnd, AfterTouch, AfterStop}
  /\ call[s].name = "reuse" => todo[s] \in {<<>>, OfReuse, AfterStop}
  /\ ~IsEnd(call[s]) => todo[s] \in {<<>>, <<"add">>, <<"touch">>}
  /\ at[s] = "use" => todo[s] # <<>>
  /\ at[s] \in {"measure", "trim"} =>
       IsEnd(call[s]) /\ todo[s] \in {AfterTouch, OfReuse}

\* The console has not counted the callback under way.
Behind(s) == \/ at[s] \in {"results", "file"}
             \/ at[s] = "console" /\ todo[s] = <<>>

\* An observer counts the steps the console counts.
Equal(o, s) == steps[o][s] = steps["console"][s]

\* An observer has counted the callback the console has not.
Ahead(o, s) ==
  /\ call[s].name = "start" => steps[o][s] = 0
  /\ IsLegalAction(call[s]) => steps[o][s] = steps["console"][s] + 1
  /\ call[s].name # "start" /\ ~IsLegalAction(call[s]) => Equal(o, s)

\* The observers count the same steps, but for the callback under way, and
\* no loop goes on past the limit.
StepsInv(s) ==
  /\ at[s] \in Fresh \cup {"results"} \/ call[s].name = "reuse" =>
       Equal("results", s) /\ Equal("file", s)
  /\ at[s] = "file" => Equal("file", s)
  /\ ~IsEnd(call[s]) =>
       /\ at[s] = "file" => Ahead("results", s)
       /\ at[s] = "console" /\ todo[s] = <<>> =>
            Ahead("results", s) /\ Ahead("file", s)
       /\ ~Behind(s) /\ at[s] \notin {"raised", "escaped"} =>
            Equal("results", s) /\ Equal("file", s)
  /\ Behind(s) /\ IsLegalAction(call[s]) => steps["console"][s] < MaxSteps
  /\ at[s] = "loop" => steps["console"][s] < MaxSteps
  /\ ~Behind(s) /\ call[s].name = "start" =>
       /\ at[s] \in Telling \cup {"return", "loop", "escaped"}
       /\ steps["console"][s] = 0

\* What was recorded and logged of a session.
RecordInv(s) ==
  /\ recorded[s] # None =>
       at[s] = "raised" \/ (IsEnd(call[s]) /\ at[s] # "results")
  /\ logged[s] # None => IsEnd(call[s]) /\ at[s] \notin {"results", "file"}
  /\ IsEnd(call[s]) /\ at[s] # "results" => recorded[s] # None
  /\ IsEnd(call[s]) /\ at[s] \notin {"results", "file"} => logged[s] # None
  /\ IsEnd(call[s]) /\ at[s] = "file" =>
       /\ recorded[s].status = StatusOf(call[s])
       /\ call[s].name # "reuse" => recorded[s].steps = steps["file"][s]
  /\ logged[s] # None =>
       /\ recorded[s] # None
       /\ logged[s].steps = recorded[s].steps
       /\ logged[s].label \in LabelsFor(recorded[s].status) \/ Marked(call[s])

\* The console loses a session before its end only once the bar is gone.
EscapeInv(s) == at[s] = "escaped" /\ ~IsEnd(call[s]) => ~progress

\* What holds of each session.
SessionInv(s) ==
  /\ CallInv(s) /\ TodoInv(s) /\ StepsInv(s)
  /\ RecordInv(s) /\ EscapeInv(s)

\* Where the main thread is.
MainInv ==
  /\ progress <=> main \notin {"join", "over"}
  /\ final = "none" <=> main \in {"reuse", "running"}
  /\ main = "reuse" => runDone = 0 /\ \A s \in Sessions : at[s] = "idle"

\* The sessions whose end the console has counted.
Counted == {s \in Sessions : IsEnd(call[s]) /\ at[s] \in {"return", "done"}}

\* While the bar is up it counts each of them once.
CountInv ==
  progress /\ main # "reuse" =>
    runDone = Cardinality(Reused) + Cardinality(Counted)

\* The inductive invariant.
IInv == /\ TypeOK
        /\ \A s \in Sessions : SessionInv(s)
        /\ MainInv
        /\ CountInv
-----------------------------------------------------------------------------
\* What the constants are.
LEMMA Constants ==
  /\ IsFiniteSet(Sessions) /\ IsFiniteSet(Reused)
  /\ IsFiniteSet(Sessions \cup Reused)
  /\ Cardinality(Sessions) \in Nat /\ Cardinality(Reused) \in Nat
  /\ Cardinality(Sessions \cup Reused)
       = Cardinality(Sessions) + Cardinality(Reused)
  /\ MaxSteps \in Nat /\ MaxSteps > 0
  /\ MaxVisible \in Nat /\ MaxVisible > 0
<1>1. IsFiniteSet(Sessions) /\ IsFiniteSet(Reused)
  BY ObserversAssumption, FS_Subset
<1>2. Cardinality(Sessions \cap Reused) = 0
  BY ObserversAssumption, FS_EmptySet
<1>3. Cardinality(Sessions \cup Reused)
        = Cardinality(Sessions) + Cardinality(Reused)
            - Cardinality(Sessions \cap Reused)
  BY <1>1, FS_Union
<1>4. Cardinality(Sessions) \in Nat /\ Cardinality(Reused) \in Nat
  BY <1>1, FS_CardinalityType
<1> QED
  BY <1>1, <1>2, <1>3, <1>4, ObserversAssumption

\* The sequences of what the console does, one helper after the other.
LEMMA Tails ==
  /\ OfEnd # <<>> /\ AfterTouch # <<>> /\ AfterStop # <<>>
  /\ <<"add">> # <<>> /\ <<"touch">> # <<>>
  /\ Len(OfEnd) = 3 /\ Head(OfEnd) = "touch" /\ Tail(OfEnd) = AfterTouch
  /\ OfReuse # <<>> /\ Len(OfReuse) = 2 /\ Head(OfReuse) = "finish"
  /\ Tail(OfReuse) = AfterStop
  /\ Len(AfterTouch) = 2 /\ Head(AfterTouch) = "stop"
  /\ Tail(AfterTouch) = AfterStop
  /\ Len(AfterStop) = 1 /\ Head(AfterStop) = "advanceRun"
  /\ Tail(AfterStop) = <<>>
  /\ Len(<<"add">>) = 1 /\ Head(<<"add">>) = "add" /\ Tail(<<"add">>) = <<>>
  /\ Len(<<"touch">>) = 1 /\ Head(<<"touch">>) = "touch"
  /\ Tail(<<"touch">>) = <<>>
  /\ {OfEnd, OfReuse, AfterTouch, AfterStop, <<"add">>, <<"touch">>, <<>>}
       \subseteq Seq(Uses)
BY DEF OfEnd, OfReuse, AfterTouch, AfterStop, Uses

\* None is none of the results of a session.
LEMMA NoneIsNone ==
  /\ \A status \in Statuses, n \in Nat :
       [status |-> status, steps |-> n] # None
  /\ \A label \in Labels, n \in Nat :
       [label |-> label, steps |-> n] # None
BY NoneAssumption

\* The statuses, the reasons and the labels are the ones of the code.
LEMMA WordsOK ==
  ASSUME NEW c \in Callbacks, NEW reason \in Reasons
  PROVE  /\ StatusOf(c) \in Statuses
         /\ FirstReason(c) \in Reasons
         /\ LastReason(c) \in Reasons
         /\ Label(c, reason) \in Labels
BY DEF Callbacks, Sources, Ends, StatusOf, Statuses, FirstReason, LastReason, Reasons,
  Label, ErrorLabel, Labels

\* At the end of a session the label says what the status says, unless the
\* score has an error of its own (_resolve_session_status, _status_label).
LEMMA LabelAgrees ==
  ASSUME NEW c \in Callbacks, Consistent(c), NEW reason \in Reasons,
         IsEnd(c), c.name = "error" => reason = LastReason(c), ~Marked(c)
  PROVE  Label(c, reason) \in LabelsFor(StatusOf(c))
<1>1. CASE c.name = "error"
  BY <1>1 DEF Callbacks, Ends, Consistent, LastReason, StatusOf, Label,
    ErrorLabel, LabelsFor
<1>2. CASE c.name \in {"success", "reuse"}
  <2>1. /\ c.why \in {"none", "limit"} /\ c.finished \in {"true", "false"}
        /\ c.why = "limit" => c.finished = "false"
        /\ c.source = "none"
    BY <1>2 DEF Consistent, Marked
  <2>2. CASE c.success
    BY <2>1, <2>2 DEF StatusOf, Label, LabelsFor
  <2>3. CASE ~c.success
    BY <2>1, <2>3 DEF StatusOf, Label, LabelsFor
  <2> QED
    BY <2>2, <2>3
<1> QED
  BY <1>1, <1>2 DEF IsEnd

\* What a session's entries are.
LEMMA Entries ==
  ASSUME TypeOK, NEW s \in Sessions
  PROVE  /\ at[s] \in Places /\ call[s] \in Callbacks /\ excess[s] \in Nat
         /\ todo[s] \in Seq(Uses) /\ reasons[s] \in Reasons
         /\ \A o \in Observed : steps[o][s] \in 0..MaxSteps
BY DEF TypeOK
-----------------------------------------------------------------------------
(***************************************************************************)
(* The sessions do not meet: a step of one leaves the others' entries.     *)
(***************************************************************************)
\* The entries of a session stay.
Same(s) ==
  /\ at'[s] = at[s] /\ call'[s] = call[s] /\ todo'[s] = todo[s]
  /\ \A o \in Observed : steps'[o][s] = steps[o][s]
  /\ recorded'[s] = recorded[s] /\ logged'[s] = logged[s]

\* What holds of a session stays when its entries do, and the bar may go.
LEMMA SameKept ==
  ASSUME NEW s \in Sessions, SessionInv(s), Same(s), progress' => progress
  PROVE  SessionInv(s)'
<1>1. CallInv(s)' /\ TodoInv(s)' /\ EscapeInv(s)'
  BY DEF SessionInv, Same, CallInv, TodoInv, EscapeInv
<1>2. StepsInv(s)'
  <2>1. \A o \in Observed : (Equal(o, s)' <=> Equal(o, s))
    BY DEF Same, Equal, Observed
  <2>2. \A o \in Observed : (Ahead(o, s)' <=> Ahead(o, s))
    BY <2>1 DEF Same, Ahead, Observed
  <2>3. Behind(s)' <=> Behind(s)
    BY DEF Same, Behind
  <2>4. steps'["console"][s] = steps["console"][s]
    BY DEF Same, Observed
  <2> QED
    BY <2>1, <2>2, <2>3, <2>4 DEF SessionInv, StepsInv, Same, Observed
<1>3. RecordInv(s)'
  <2>1. steps'["file"][s] = steps["file"][s]
    BY DEF Same, Observed
  <2> QED
    BY <2>1 DEF SessionInv, RecordInv, Same
<1> QED
  BY <1>1, <1>2, <1>3 DEF SessionInv
-----------------------------------------------------------------------------
(***************************************************************************)
(* A callback is told: the observers have counted the same steps.          *)
(***************************************************************************)
\* The entries of the observers, which the session's thread leaves alone.
Kept == UNCHANGED <<excess, todo, steps, reasons, recorded, logged, reran>>

\* A callback of the session's thread begins.
LEMMA Told ==
  ASSUME TypeOK, NEW s \in Sessions, SessionInv(s),
         at[s] \in Fresh \cup {"loop", "stepping", "return", "score"},
         ~IsEnd(call[s]),
         NEW c \in Callbacks, Consistent(c), c.name # "none",
         IsLegalAction(c) => steps["console"][s] < MaxSteps,
         Tell(s, c), Kept
  PROVE  SessionInv(s)'
<1>1. /\ at'[s] = "results" /\ call'[s] = c /\ todo'[s] = todo[s]
      /\ steps' = steps /\ recorded'[s] = recorded[s] /\ logged'[s] = logged[s]
  BY DEF TypeOK, Tell, Move, Kept
<1>2. todo[s] = <<>> /\ Equal("results", s) /\ Equal("file", s)
  BY Tails DEF SessionInv, TodoInv, StepsInv, Telling, Behind, Fresh
<1>3. recorded[s] = None /\ logged[s] = None
  BY DEF SessionInv, RecordInv, Fresh
<1>4. CallInv(s)' /\ TodoInv(s)' /\ EscapeInv(s)'
  BY <1>1, <1>2 DEF CallInv, TodoInv, EscapeInv, Telling, Fresh, IsEnd
<1>5. StepsInv(s)'
  BY <1>1, <1>2 DEF StepsInv, Behind, Equal, Observed, Fresh
<1>6. RecordInv(s)'
  BY <1>1, <1>3 DEF RecordInv
<1> QED
  BY <1>4, <1>5, <1>6 DEF SessionInv

\* The session's thread goes on without a callback.
LEMMA Moved ==
  ASSUME TypeOK, NEW s \in Sessions, SessionInv(s),
         at[s] \in {"idle", "picked", "return"},
         NEW to \in {"picked", "skipped", "loop", "stepping", "score", "done"},
         at[s] = "idle" => to = "picked",
         at[s] = "picked" => to = "skipped",
         at[s] = "return" =>
           /\ to = "loop" => /\ call[s].name \in {"start", "step"}
                             /\ steps["console"][s] < MaxSteps
           /\ to = "stepping" => IsLegalAction(call[s])
           /\ to = "score" => call[s].name = "scoring"
           /\ to = "done" => IsEnd(call[s])
           /\ to \notin {"picked", "skipped"},
         GoOn(s, to), Kept
  PROVE  SessionInv(s)'
<1>1. /\ at'[s] = to /\ call'[s] = call[s] /\ todo'[s] = todo[s]
      /\ steps' = steps /\ recorded'[s] = recorded[s] /\ logged'[s] = logged[s]
  BY DEF TypeOK, GoOn, Move, Kept
<1>2. todo[s] = <<>>
  BY Tails DEF SessionInv, TodoInv, Telling
<1>3. call[s].name = "start" => at[s] = "return" /\ to = "loop"
  BY DEF SessionInv, CallInv, StepsInv, Behind, Telling, IsLegalAction, IsEnd,
    Fresh
<1>4. CallInv(s)' /\ TodoInv(s)' /\ EscapeInv(s)'
  BY <1>1, <1>2 DEF SessionInv, CallInv, TodoInv, EscapeInv, Telling, IsEnd,
    IsLegalAction, Fresh
<1>5. StepsInv(s)'
  BY <1>1, <1>2, <1>3 DEF SessionInv, StepsInv, Behind, Equal, Observed,
    Telling, CallInv, IsEnd, Fresh
<1>6. RecordInv(s)'
  BY <1>1 DEF SessionInv, RecordInv, CallInv, IsEnd, Fresh
<1> QED
  BY <1>4, <1>5, <1>6 DEF SessionInv

\* The session's thread is gone; what it counted and recorded may differ.
LEMMA LeftOK ==
  ASSUME TypeOK, NEW s \in Sessions, Leaves(s), todo'[s] = <<>>,
         logged'[s] = None
  PROVE  SessionInv(s)'
<1>1. at'[s] = "raised" /\ call'[s] = Quiet
  BY DEF TypeOK, Leaves, Move
<1>2. CallInv(s)' /\ TodoInv(s)' /\ EscapeInv(s)'
  BY <1>1 DEF CallInv, TodoInv, EscapeInv, Telling, Fresh, Quiet, Consistent,
    IsEnd
<1>3. StepsInv(s)'
  BY <1>1 DEF StepsInv, Behind, Fresh, Quiet, IsEnd, IsLegalAction
<1>4. RecordInv(s)'
  BY <1>1 DEF RecordInv, Quiet, IsEnd
<1> QED
  BY <1>2, <1>3, <1>4 DEF SessionInv

-----------------------------------------------------------------------------
(***************************************************************************)
(* The three observers' parts of a callback.                               *)
(***************************************************************************)
\* An observer counts a callback: its own steps of the session, no other's.
LEMMA CountsOne ==
  ASSUME TypeOK, NEW s \in Sessions, NEW o \in Observed, Counts(o, s)
  PROVE  /\ call[s].name = "start" => steps'[o][s] = 0
         /\ IsLegalAction(call[s]) => steps'[o][s] = steps[o][s] + 1
         /\ call[s].name # "start" /\ ~IsLegalAction(call[s]) =>
              steps'[o][s] = steps[o][s]
         /\ \A p \in Observed \ {o} : steps'[p] = steps[p]
         /\ \A t \in Sessions \ {s} : steps'[o][t] = steps[o][t]
         /\ DOMAIN steps' = Observed /\ DOMAIN steps'[o] = Sessions
         /\ steps' = [p \in Observed |-> steps'[p]]
<1>1. CASE call[s].name = "start"
  <2>1. steps' = [steps EXCEPT ![o][s] = 0] /\ ~IsLegalAction(call[s])
    BY <1>1 DEF Counts, Register, IsLegalAction
  <2> QED
    BY <1>1, <2>1 DEF TypeOK
<1>2. CASE IsLegalAction(call[s])
  <2>1. steps' = [steps EXCEPT ![o][s] = @ + 1] /\ call[s].name # "start"
    BY <1>2 DEF Counts, IncrementSteps, IsLegalAction
  <2> QED
    BY <1>2, <2>1 DEF TypeOK
<1>3. CASE call[s].name # "start" /\ ~IsLegalAction(call[s])
  <2>1. steps' = steps
    BY <1>3 DEF Counts
  <2> QED
    BY <1>3, <2>1 DEF TypeOK
<1> QED
  BY <1>1, <1>2, <1>3

\* An observer forgets a session it was told the end of.
LEMMA PopOne ==
  ASSUME TypeOK, NEW s \in Sessions, NEW o \in Observed, PopState(o, s)
  PROVE  /\ steps'[o][s] = 0
         /\ \A p \in Observed \ {o} : steps'[p] = steps[p]
         /\ \A t \in Sessions \ {s} : steps'[o][t] = steps[o][t]
         /\ DOMAIN steps' = Observed /\ DOMAIN steps'[o] = Sessions
         /\ steps' = [p \in Observed |-> steps'[p]]
BY DEF TypeOK, PopState

\* The results are told.
LEMMA OwnResults ==
  ASSUME IInv, NEW s \in Sessions, TellResults(s)
  PROVE  SessionInv(s)'
<1> TypeOK /\ SessionInv(s)
  BY DEF IInv
<1>1. /\ at[s] = "results" /\ todo'[s] = todo[s] /\ logged'[s] = logged[s]
      /\ call[s] \in Callbacks
  BY DEF TypeOK, TellResults
<1>2. /\ todo[s] = <<>> /\ Equal("results", s) /\ Equal("file", s)
      /\ recorded[s] = None /\ logged[s] = None
      /\ IsLegalAction(call[s]) => steps["console"][s] < MaxSteps
  BY <1>1 DEF SessionInv, TodoInv, StepsInv, RecordInv, Telling, Behind
<1>3. CASE Leaves(s)
  BY <1>1, <1>2, <1>3, LeftOK
<1>4. ASSUME GoOn(s, "file")
      PROVE  /\ at'[s] = "file" /\ call'[s] = call[s]
             /\ CallInv(s)' /\ TodoInv(s)' /\ EscapeInv(s)'
  <2>1. at'[s] = "file" /\ call'[s] = call[s]
    BY <1>4 DEF TypeOK, GoOn, Move
  <2> QED
    BY <1>1, <1>2, <2>1
       DEF SessionInv, CallInv, TodoInv, EscapeInv, Telling, Fresh
<1>5. ASSUME NEW n \in Nat, Record(s, n)
      PROVE  /\ recorded'[s] = [status |-> StatusOf(call[s]), steps |-> n]
             /\ recorded'[s] # None
  BY <1>1, <1>5, WordsOK, Entries, NoneIsNone DEF Record, TypeOK
<1>6. CASE RecordEnd(s) /\ GoOn(s, "file")
  <2>1. /\ call[s].name \in {"error", "success"} /\ IsEnd(call[s])
        /\ PopState("results", s)
    BY <1>6 DEF RecordEnd, IsEnd
  <2>2. Record(s, steps["results"][s])
    BY <1>1, <1>4, <1>6 DEF RecordEnd, Leaves, Move, TypeOK
  <2>3. /\ recorded'[s] = [status |-> StatusOf(call[s]),
                           steps |-> steps["results"][s]]
        /\ recorded'[s] # None
    BY <1>5, <2>2, Entries, Constants DEF Observed
  <2>4. /\ steps'["file"][s] = steps["file"][s]
        /\ steps'["console"][s] = steps["console"][s]
    BY <2>1, PopOne DEF Observed
  <2>5. steps["results"][s] = steps["file"][s]
    BY <1>2 DEF Equal
  <2>6. RecordInv(s)'
    BY <1>1, <1>2, <1>4, <1>6, <2>1, <2>3, <2>4, <2>5 DEF RecordInv
  <2>7. StepsInv(s)'
    BY <1>1, <1>2, <1>4, <1>6, <2>1, <2>4
       DEF StepsInv, Behind, Equal, IsEnd, IsLegalAction, Fresh
  <2> QED
    BY <1>4, <1>6, <2>6, <2>7 DEF SessionInv
<1>7. CASE RecordReuse(s)
  <2>1. /\ call[s].name = "reuse" /\ IsEnd(call[s]) /\ GoOn(s, "file")
        /\ steps' = steps
    BY <1>7 DEF RecordReuse, IsEnd
  <2>2. PICK n \in 0..MaxSteps : Record(s, n)
    BY <1>7 DEF RecordReuse
  <2>3. /\ recorded'[s] = [status |-> StatusOf(call[s]), steps |-> n]
        /\ recorded'[s] # None
    BY <1>5, <2>2, Constants
  <2>4. RecordInv(s)'
    BY <1>1, <1>2, <1>4, <2>1, <2>3 DEF RecordInv
  <2>5. StepsInv(s)'
    BY <1>1, <1>2, <1>4, <2>1
       DEF StepsInv, Behind, Equal, IsEnd, IsLegalAction, Fresh
  <2> QED
    BY <1>4, <2>1, <2>4, <2>5 DEF SessionInv
<1>8. CASE RecordEvent(s) /\ GoOn(s, "file")
  <2>1. /\ ~IsEnd(call[s]) /\ call[s].name # "reuse"
        /\ Counts("results", s) /\ recorded'[s] = recorded[s]
    BY <1>8 DEF RecordEvent, IsEnd
  <2>2. /\ steps'["file"][s] = steps["file"][s]
        /\ steps'["console"][s] = steps["console"][s]
    BY <2>1, CountsOne DEF Observed
  <2>3. Ahead("results", s)'
    BY <1>1, <1>2, <1>4, <1>8, <2>1, <2>2, CountsOne
       DEF Ahead, Equal, Observed
  <2>4. StepsInv(s)'
    BY <1>1, <1>2, <1>4, <1>8, <2>1, <2>2, <2>3
       DEF StepsInv, Behind, Equal, Fresh
  <2>5. RecordInv(s)'
    BY <1>1, <1>2, <1>4, <1>8, <2>1 DEF RecordInv
  <2> QED
    BY <1>4, <1>8, <2>4, <2>5 DEF SessionInv
<1>9. \/ Leaves(s)
      \/ RecordEnd(s) /\ GoOn(s, "file")
      \/ RecordReuse(s)
      \/ RecordEvent(s) /\ GoOn(s, "file")
  BY DEF TellResults, RecordEnd, RecordEvent
<1> QED
  BY <1>3, <1>6, <1>7, <1>8, <1>9

\* The file log is told.
LEMMA OwnFile ==
  ASSUME IInv, NEW s \in Sessions, TellFile(s)
  PROVE  SessionInv(s)'
<1> TypeOK /\ SessionInv(s)
  BY DEF IInv
<1>1. /\ at[s] = "file" /\ at'[s] = "console" /\ call'[s] = call[s]
      /\ todo'[s] = todo[s] /\ recorded'[s] = recorded[s]
      /\ call[s] \in Callbacks
  BY DEF TypeOK, TellFile, Move
<1>2. /\ todo[s] = <<>> /\ Equal("file", s) /\ logged[s] = None
      /\ IsLegalAction(call[s]) => steps["console"][s] < MaxSteps
      /\ call[s].name = "reuse" => Equal("results", s)
  BY <1>1 DEF SessionInv, TodoInv, StepsInv, RecordInv, Telling, Behind
<1>3. CallInv(s)' /\ TodoInv(s)' /\ EscapeInv(s)'
  BY <1>1, <1>2 DEF SessionInv, CallInv, TodoInv, EscapeInv, Telling, Fresh
<1>4. ASSUME IsEnd(call[s]), NEW n \in Nat, Log(s, n), recorded[s].steps = n
      PROVE  RecordInv(s)'
  <2>1. logged'[s] = [label |-> Label(call[s], EndReason(s)), steps |-> n]
    BY <1>4 DEF TypeOK, Log
  <2>2. /\ EndReason(s) \in Reasons
        /\ call[s].name = "error" => EndReason(s) = LastReason(call[s])
    BY <1>1, Entries, WordsOK DEF EndReason
  <2>3. /\ Label(call[s], EndReason(s)) \in Labels
        /\ \/ Label(call[s], EndReason(s)) \in LabelsFor(StatusOf(call[s]))
           \/ Marked(call[s])
    BY <1>1, <1>4, <2>2, WordsOK, LabelAgrees DEF SessionInv, CallInv
  <2>4. logged'[s] # None
    BY <2>1, <2>3, NoneIsNone
  <2>5. recorded[s].status = StatusOf(call[s]) /\ recorded[s] # None
    BY <1>1, <1>4 DEF SessionInv, RecordInv
  <2> QED
    BY <1>1, <1>4, <2>1, <2>3, <2>4, <2>5 DEF RecordInv
<1>5. CASE LogEnd(s)
  <2>1. /\ call[s].name \in {"error", "success"} /\ IsEnd(call[s])
        /\ Log(s, steps["file"][s]) /\ PopState("file", s)
    BY <1>5 DEF LogEnd, IsEnd
  <2>2. steps["file"][s] \in Nat /\ recorded[s].steps = steps["file"][s]
    BY <1>1, <2>1, Entries, Constants DEF SessionInv, RecordInv, Observed
  <2>3. steps'["console"][s] = steps["console"][s]
    BY <2>1, PopOne DEF Observed
  <2>4. RecordInv(s)'
    BY <1>4, <2>1, <2>2
  <2>5. StepsInv(s)'
    BY <1>1, <1>2, <2>1, <2>3
       DEF StepsInv, Behind, Equal, IsEnd, IsLegalAction, Fresh
  <2> QED
    BY <1>3, <2>4, <2>5 DEF SessionInv
<1>6. CASE LogReuse(s)
  <2>1. /\ call[s].name = "reuse" /\ IsEnd(call[s]) /\ steps' = steps
        /\ Log(s, recorded[s].steps)
    BY <1>6 DEF LogReuse, IsEnd
  <2>2. recorded[s] # None /\ recorded[s].steps \in Nat
    BY <1>1, <2>1 DEF SessionInv, RecordInv, TypeOK
  <2>3. RecordInv(s)'
    BY <1>4, <2>1, <2>2
  <2>4. StepsInv(s)'
    BY <1>1, <1>2, <2>1
       DEF StepsInv, Behind, Equal, IsEnd, IsLegalAction, Fresh
  <2> QED
    BY <1>3, <2>3, <2>4 DEF SessionInv
<1>7. CASE LogEvent(s)
  <2>1. /\ ~IsEnd(call[s]) /\ call[s].name # "reuse"
        /\ Counts("file", s) /\ logged'[s] = logged[s]
    BY <1>7 DEF LogEvent, IsEnd
  <2>2. /\ steps'["results"][s] = steps["results"][s]
        /\ steps'["console"][s] = steps["console"][s]
    BY <2>1, CountsOne DEF Observed
  <2>3. Ahead("results", s)' /\ Ahead("file", s)'
    <3>1. Ahead("results", s)
      BY <1>1, <2>1 DEF SessionInv, StepsInv
    <3>2. Ahead("results", s)'
      BY <1>1, <2>2, <3>1 DEF Ahead, Equal
    <3>3. Ahead("file", s)'
      BY <1>1, <1>2, <2>1, <2>2, CountsOne DEF Ahead, Equal, Observed
    <3> QED
      BY <3>2, <3>3
  <2>4. StepsInv(s)'
    BY <1>1, <1>2, <2>1, <2>2, <2>3 DEF StepsInv, Behind, Fresh
  <2>5. RecordInv(s)'
    BY <1>1, <1>2, <2>1 DEF SessionInv, RecordInv
  <2> QED
    BY <1>3, <2>4, <2>5 DEF SessionInv
<1> QED
  BY <1>5, <1>6, <1>7 DEF TellFile

\* What the console does for a callback goes with its name.
LEMMA UsesOK ==
  ASSUME NEW c \in Callbacks
  PROVE  /\ c.name \in {"error", "success"} => UsesOf(c) = OfEnd
         /\ c.name = "reuse" => UsesOf(c) = OfReuse
         /\ ~IsEnd(c) => UsesOf(c) \in {<<>>, <<"add">>, <<"touch">>}
BY DEF UsesOf, IsEnd, IsLegalAction, OfEnd, OfReuse

\* The console is told and counts.
LEMMA OwnConsole ==
  ASSUME IInv, NEW s \in Sessions, TellConsole(s)
  PROVE  SessionInv(s)'
<1> TypeOK /\ SessionInv(s)
  BY DEF IInv
<1>1. /\ at[s] = "console" /\ todo[s] = <<>> /\ call'[s] = call[s]
      /\ Counts("console", s) /\ call[s] \in Callbacks
      /\ recorded'[s] = recorded[s] /\ logged'[s] = logged[s]
      /\ todo'[s] = UsesOf(call[s])
      /\ at'[s] = IF UsesOf(call[s]) = <<>> THEN "return" ELSE "console"
  BY DEF TypeOK, TellConsole, Move
<1>2. /\ at'[s] \in {"console", "return"}
      /\ at'[s] = "return" <=> todo'[s] = <<>>
      /\ call[s].name \in {"error", "success"} => todo'[s] = OfEnd
      /\ call[s].name = "reuse" => todo'[s] = OfReuse
      /\ ~IsEnd(call[s]) => todo'[s] \in {<<>>, <<"add">>, <<"touch">>}
  BY <1>1, UsesOK, Tails
<1>3. CallInv(s)' /\ TodoInv(s)' /\ EscapeInv(s)'
  BY <1>1, <1>2 DEF SessionInv, CallInv, TodoInv, EscapeInv, Telling, Fresh,
    IsEnd
<1>4. RecordInv(s)'
  BY <1>1, <1>2 DEF SessionInv, RecordInv
<1>5. StepsInv(s)'
  <2>1. steps'["results"] = steps["results"] /\ steps'["file"] = steps["file"]
    BY <1>1, CountsOne DEF Observed
  <2>2. ~Behind(s)'
    BY <1>1, <1>2 DEF Behind
  <2>3. call[s].name = "start" => steps'["console"][s] = 0
    BY <1>1, CountsOne DEF Observed
  <2>4. ASSUME ~IsEnd(call[s])
        PROVE  Equal("results", s)' /\ Equal("file", s)'
    <3>1. Ahead("results", s) /\ Ahead("file", s)
      BY <1>1, <2>4 DEF SessionInv, StepsInv
    <3> QED
      BY <1>1, <2>1, <3>1, CountsOne DEF Ahead, Equal, Observed
  <2>5. ASSUME call[s].name = "reuse"
        PROVE  Equal("results", s)' /\ Equal("file", s)'
    <3>1. steps'["console"][s] = steps["console"][s]
      BY <1>1, <2>5, CountsOne DEF IsLegalAction, Observed
    <3> QED
      BY <2>1, <2>5, <3>1 DEF SessionInv, StepsInv, Equal
  <2> QED
    BY <1>1, <1>2, <2>2, <2>3, <2>4, <2>5 DEF StepsInv, Telling, Fresh
<1> QED
  BY <1>3, <1>4, <1>5 DEF SessionInv
-----------------------------------------------------------------------------
(***************************************************************************)
(* What the console does for a callback.                                   *)
(***************************************************************************)
\* The entries of a session the console's helpers leave alone.
Noted(s) ==
  /\ call'[s] = call[s] /\ steps' = steps
  /\ recorded'[s] = recorded[s] /\ logged'[s] = logged[s]

\* A helper is done.
LEMMA HelpedOK ==
  ASSUME TypeOK, NEW s \in Sessions, SessionInv(s),
         at[s] \in Telling, todo[s] # <<>>, Helped(s), Noted(s)
  PROVE  SessionInv(s)'
<1>1. /\ todo'[s] = Tail(todo[s])
      /\ at'[s] = IF Len(todo[s]) = 1 THEN "return" ELSE "console"
  BY DEF TypeOK, Helped, Move
<1>2. /\ at'[s] \in {"console", "return"}
      /\ at'[s] = "return" <=> todo'[s] = <<>>
      /\ call[s].name \in {"error", "success"} =>
           todo'[s] \in {<<>>, AfterTouch, AfterStop}
      /\ call[s].name = "reuse" => todo'[s] \in {<<>>, AfterStop}
      /\ ~IsEnd(call[s]) => todo'[s] = <<>>
  BY <1>1, Tails DEF SessionInv, TodoInv
<1>3. ~Behind(s) /\ ~Behind(s)'
  BY <1>1, <1>2 DEF Behind, Telling
<1>4. CallInv(s)' /\ TodoInv(s)' /\ EscapeInv(s)'
  BY <1>1, <1>2 DEF SessionInv, CallInv, TodoInv, EscapeInv, Telling, Noted,
    Fresh
<1>5. StepsInv(s)'
  BY <1>2, <1>3 DEF SessionInv, StepsInv, Equal, Telling, Noted, Fresh
<1>6. RecordInv(s)'
  BY <1>2 DEF SessionInv, RecordInv, Noted, Telling
<1> QED
  BY <1>4, <1>5, <1>6 DEF SessionInv

\* The console goes on with the same helper.
LEMMA WithinOK ==
  ASSUME TypeOK, NEW s \in Sessions, SessionInv(s),
         at[s] \in Telling, todo[s] # <<>>, todo'[s] = todo[s],
         at'[s] \in {"use", "measure", "trim"},
         at'[s] \in {"measure", "trim"} =>
           IsEnd(call[s]) /\ todo[s] \in {AfterTouch, OfReuse},
         Noted(s)
  PROVE  SessionInv(s)'
<1>1. ~Behind(s) /\ ~Behind(s)'
  BY DEF Behind, Telling
<1>2. CallInv(s)' /\ TodoInv(s)' /\ EscapeInv(s)'
  BY DEF SessionInv, CallInv, TodoInv, EscapeInv, Telling, Noted, Fresh
<1>3. StepsInv(s)'
  BY <1>1 DEF SessionInv, StepsInv, Equal, Telling, Noted, Fresh
<1>4. RecordInv(s)'
  BY DEF SessionInv, RecordInv, Noted, Telling
<1> QED
  BY <1>2, <1>3, <1>4 DEF SessionInv

\* The console raises: the bar is gone, or the end of the session is told;
\* what it makes of a reuse is forgotten.
LEMMA RaiseOK ==
  ASSUME TypeOK, NEW s \in Sessions, SessionInv(s),
         at[s] \in Telling, todo[s] # <<>>, Raise(s), steps' = steps,
         ~IsEnd(call[s]) => ~progress'
  PROVE  SessionInv(s)'
<1>1. todo'[s] = <<>> /\ ~Behind(s)
  BY DEF TypeOK, Raise, Escape, Rerun, Behind, Telling
<1>2. CASE Escape(s)
  <2>1. /\ at'[s] = "escaped" /\ Noted(s) /\ ~Behind(s)'
        /\ call[s].name \notin {"none", "reuse"}
    BY <1>2 DEF TypeOK, Escape, Move, Noted, told, Behind, SessionInv,
      CallInv, Telling, Fresh
  <2>2. CallInv(s)' /\ TodoInv(s)' /\ EscapeInv(s)'
    BY <1>1, <2>1 DEF SessionInv, CallInv, TodoInv, EscapeInv, Telling, Noted,
      Fresh
  <2>3. StepsInv(s)'
    BY <1>1, <2>1 DEF SessionInv, StepsInv, Telling, Noted, Fresh
  <2>4. RecordInv(s)'
    BY <2>1 DEF SessionInv, RecordInv, Noted, Telling
  <2> QED
    BY <2>2, <2>3, <2>4 DEF SessionInv
<1>3. CASE Rerun(s)
  <2>1. /\ at'[s] = "again" /\ call'[s] = Quiet
        /\ recorded'[s] = None /\ logged'[s] = None
        /\ call[s].name = "reuse"
    BY <1>3 DEF TypeOK, Rerun, Move
  <2>2. Quiet.name = "none" /\ ~IsEnd(Quiet) /\ Consistent(Quiet)
    BY DEF Quiet, IsEnd, Consistent
  <2>3. CallInv(s)' /\ TodoInv(s)' /\ EscapeInv(s)'
    BY <1>1, <2>1, <2>2 DEF CallInv, TodoInv, EscapeInv, Telling, Fresh, IsEnd
  <2>4. Equal("results", s) /\ Equal("file", s)
    BY <2>1 DEF SessionInv, StepsInv
  <2>5. StepsInv(s)'
    BY <2>1, <2>2, <2>4 DEF StepsInv, Behind, Equal, IsLegalAction
  <2>6. RecordInv(s)'
    BY <2>1, <2>2 DEF RecordInv
  <2> QED
    BY <2>3, <2>5, <2>6 DEF SessionInv
<1> QED
  BY <1>2, <1>3 DEF Raise

\* The console looks at the bar.
LEMMA OwnLook ==
  ASSUME IInv, NEW s \in Sessions, LookAtProgress(s)
  PROVE  SessionInv(s)'
<1> TypeOK /\ SessionInv(s)
  BY DEF IInv
<1>1. at[s] \in Telling /\ todo[s] # <<>> /\ Noted(s)
  BY DEF LookAtProgress, Telling, Noted, told
<1>2. CASE progress
  BY <1>1, <1>2, WithinOK DEF LookAtProgress, Move, TypeOK
<1>3. CASE ~progress
  BY <1>1, <1>3, HelpedOK DEF LookAtProgress
<1> QED
  BY <1>2, <1>3

\* The console uses the bar.
LEMMA OwnUse ==
  ASSUME IInv, NEW s \in Sessions, UseProgress(s)
  PROVE  SessionInv(s)'
<1> TypeOK /\ SessionInv(s)
  BY DEF IInv
<1> DEFINE use == Head(todo[s])
<1>1. /\ at[s] \in Telling /\ todo[s] # <<>> /\ steps' = steps
      /\ progress' = progress
  BY DEF UseProgress, Telling, SessionInv, TodoInv
<1>2. \/ ~progress /\ Raise(s)
      \/ Helped(s) /\ UNCHANGED told
      \/ /\ use \in {"stop", "finish"} /\ Move(s, "measure")
         /\ UNCHANGED <<todo, told>>
  BY DEF UseProgress, AddBar, FinishBar, AdvanceRun, TouchBar, told
<1>3. CASE ~progress /\ Raise(s)
  BY <1>1, <1>3, RaiseOK
<1>4. CASE Helped(s) /\ UNCHANGED told
  BY <1>1, <1>4, HelpedOK DEF Noted, told
<1>5. CASE /\ use \in {"stop", "finish"} /\ Move(s, "measure")
           /\ UNCHANGED <<todo, told>>
  <2>1. at'[s] = "measure" /\ todo'[s] = todo[s] /\ Noted(s)
    BY <1>1, <1>5 DEF Move, TypeOK, Noted, told
  <2>2. IsEnd(call[s]) /\ todo[s] \in {AfterTouch, OfReuse}
    BY <1>1, <1>5, Tails DEF SessionInv, TodoInv, IsEnd
  <2> QED
    BY <1>1, <2>1, <2>2, WithinOK
<1> QED
  BY <1>2, <1>3, <1>4, <1>5

\* The console measures its list of finished bars.
LEMMA OwnMeasure ==
  ASSUME IInv, NEW s \in Sessions, Measure(s)
  PROVE  SessionInv(s)'
<1> TypeOK /\ SessionInv(s)
  BY DEF IInv
<1>1. /\ at[s] = "measure" /\ Noted(s)
      /\ IsEnd(call[s]) /\ todo[s] \in {AfterTouch, OfReuse} /\ todo[s] # <<>>
  BY Tails DEF Measure, Noted, told, SessionInv, TodoInv
<1>2. CASE Len(completed) > MaxVisible
  BY <1>1, <1>2, WithinOK DEF Measure, Move, TypeOK, Telling
<1>3. CASE ~(Len(completed) > MaxVisible)
  BY <1>1, <1>3, HelpedOK DEF Measure, Telling
<1> QED
  BY <1>2, <1>3

\* The console removes finished bars.
LEMMA OwnTrim ==
  ASSUME IInv, NEW s \in Sessions, Trim(s)
  PROVE  SessionInv(s)'
<1> TypeOK /\ SessionInv(s)
  BY DEF IInv
<1>1. /\ at[s] = "trim" /\ steps' = steps
      /\ IsEnd(call[s]) /\ todo[s] \in {AfterTouch, OfReuse} /\ todo[s] # <<>>
  BY Tails DEF Trim, SessionInv, TodoInv
<1>2. (Helped(s) /\ Noted(s)) \/ Raise(s)
  BY <1>1 DEF Trim, Noted, told
<1> QED
  BY <1>1, <1>2, HelpedOK, RaiseOK DEF Telling
-----------------------------------------------------------------------------
(***************************************************************************)
(* The session's thread.                                                   *)
(***************************************************************************)
\* The callbacks the thread tells.
LEMMA CallbacksOK ==
  /\ Quiet \in Callbacks /\ Quiet.name = "none"
  /\ Quiet.success = FALSE /\ Quiet.finished = "unset" /\ Quiet.why = "none"
  /\ Quiet.what = "none" /\ Quiet.source = "none"
BY DEF Quiet, Callbacks, Sources

\* A callback about an action, an observation or the start says no more.
LEMMA PlainOK ==
  ASSUME NEW name \in {"start", "react", "reactError", "step", "stepError"},
         NEW what \in {"none", "legal", "illegal"}
  PROVE  LET c == [Quiet EXCEPT !.name = name, !.what = what]
             b == [Quiet EXCEPT !.name = name]
         IN /\ c \in Callbacks /\ Consistent(c) /\ c.name = name
            /\ c.what = what
            /\ b \in Callbacks /\ Consistent(b) /\ b.name = name
            /\ b.what = "none"
<1> DEFINE c == [Quiet EXCEPT !.name = name, !.what = what]
           b == [Quiet EXCEPT !.name = name]
<1>1. /\ c.name = name /\ c.success = FALSE /\ c.finished = "unset"
      /\ c.what = what /\ c.why = "none"
      /\ b.name = name /\ b.success = FALSE /\ b.finished = "unset"
      /\ b.what = "none" /\ b.why = "none"
  BY DEF Quiet
<1>2. c \in Callbacks /\ b \in Callbacks
  BY CallbacksOK DEF Callbacks, Sources
<1> QED
  BY <1>1, <1>2 DEF Consistent, IsEnd

\* The end of the loop and an error say why.
LEMMA WhyOK ==
  /\ \A why \in {"none", "limit"} :
       LET c == [Quiet EXCEPT !.name = "scoring", !.why = why]
       IN c \in Callbacks /\ Consistent(c) /\ c.name = "scoring" /\ c.why = why
  /\ \A why \in Ends :
       LET c == [Quiet EXCEPT !.name = "error", !.why = why,
                   !.source = IF why = "cancelled" THEN "cancelled" ELSE "error"]
       IN c \in Callbacks /\ Consistent(c) /\ c.name = "error" /\ c.why = why
<1>1. ASSUME NEW why \in {"none", "limit"}
      PROVE  LET c == [Quiet EXCEPT !.name = "scoring", !.why = why]
             IN /\ c \in Callbacks /\ Consistent(c) /\ c.name = "scoring"
                /\ c.why = why
  <2> DEFINE c == [Quiet EXCEPT !.name = "scoring", !.why = why]
  <2>1. /\ c.name = "scoring" /\ c.success = FALSE /\ c.finished = "unset"
        /\ c.why = why
    BY DEF Quiet
  <2>2. c \in Callbacks
    BY CallbacksOK DEF Callbacks
  <2> QED
    BY <2>1, <2>2 DEF Consistent, IsEnd
<1>2. ASSUME NEW why \in Ends
      PROVE  LET c == [Quiet EXCEPT !.name = "error", !.why = why,
                         !.source = IF why = "cancelled" THEN "cancelled"
                                    ELSE "error"]
             IN /\ c \in Callbacks /\ Consistent(c) /\ c.name = "error"
                /\ c.why = why
  <2> DEFINE source == IF why = "cancelled" THEN "cancelled" ELSE "error"
             c == [Quiet EXCEPT !.name = "error", !.why = why,
                                !.source = source]
  <2>1. /\ c.name = "error" /\ c.success = FALSE /\ c.finished = "unset"
        /\ c.why = why /\ c.source = source
    BY DEF Quiet
  <2>2. c \in Callbacks
    BY CallbacksOK DEF Callbacks, Sources
  <2> QED
    BY <2>1, <2>2 DEF Consistent, IsEnd
<1> QED
  BY <1>1, <1>2

\* The callback of a reuse says what the results say.
LEMMA ReuseOK ==
  ASSUME NEW success \in BOOLEAN, NEW finished \in {"true", "false"}
  PROVE  LET c == [Quiet EXCEPT !.name = "reuse", !.success = success,
                                !.finished = finished]
         IN c \in Callbacks /\ Consistent(c) /\ c.name = "reuse"
<1> DEFINE c == [Quiet EXCEPT !.name = "reuse", !.success = success,
                              !.finished = finished]
<1>1. /\ c.name = "reuse" /\ c.finished = finished /\ c.why = "none"
      /\ c.source = "none"
  BY DEF Quiet
<1>2. c \in Callbacks
  BY CallbacksOK DEF Callbacks, Sources
<1> QED
  BY <1>1, <1>2 DEF Consistent, IsEnd

\* A thread takes the session and skips it, reuses it or starts it.
LEMMA OwnStart ==
  ASSUME IInv, NEW s \in Sessions,
         PickUp(s) \/ Skip(s) \/ Reuse(s) \/ Start(s)
  PROVE  SessionInv(s)'
<1> TypeOK /\ SessionInv(s)
  BY DEF IInv
<1>1. at[s] \in Fresh /\ Kept /\ ~IsEnd(call[s])
  BY DEF PickUp, Skip, Reuse, Start, Kept, SessionInv, CallInv, IsEnd, Fresh
<1>2. CASE PickUp(s)
  BY <1>1, <1>2, Moved DEF PickUp
<1>3. CASE Skip(s)
  BY <1>1, <1>3, Moved DEF Skip
<1>4. CASE Reuse(s)
  BY <1>1, <1>4, ReuseOK, Told DEF Reuse, IsLegalAction
<1>5. CASE Tell(s, [Quiet EXCEPT !.name = "start"])
  BY <1>1, <1>5, PlainOK, Told DEF IsLegalAction
<1>6. CASE Leaves(s)
  <2>1. todo'[s] = <<>> /\ logged'[s] = None
    BY <1>1 DEF SessionInv, TodoInv, RecordInv, Kept, Fresh, Telling
  <2> QED
    BY <1>6, <2>1, LeftOK
<1> QED
  BY <1>2, <1>3, <1>4, <1>5, <1>6 DEF Start

\* The agent reacts, or the loop ends.
LEMMA OwnReact ==
  ASSUME IInv, NEW s \in Sessions, React(s)
  PROVE  SessionInv(s)'
<1> TypeOK /\ SessionInv(s)
  BY DEF IInv
<1>1. /\ at[s] = "loop" /\ Kept /\ ~IsEnd(call[s])
      /\ steps["console"][s] < MaxSteps
  BY DEF React, Kept, SessionInv, CallInv, StepsInv
<1>2. CASE Scoring(s, "none")
  BY <1>1, <1>2, WhyOK, Told DEF Scoring, IsLegalAction
<1>3. CASE \E what \in {"none", "legal", "illegal"} :
             Tell(s, [Quiet EXCEPT !.name = "react", !.what = what])
  BY <1>1, <1>3, PlainOK, Told
<1>4. CASE Tell(s, [Quiet EXCEPT !.name = "reactError"])
  BY <1>1, <1>4, PlainOK, Told
<1>5. CASE Error(s, "cancelled")
  BY <1>1, <1>5, WhyOK, Told DEF Error, Ends
<1> QED
  BY <1>2, <1>3, <1>4, <1>5 DEF React

\* The environment steps.
LEMMA OwnStepEnv ==
  ASSUME IInv, NEW s \in Sessions, StepEnv(s)
  PROVE  SessionInv(s)'
<1> TypeOK /\ SessionInv(s)
  BY DEF IInv
<1>1. at[s] = "stepping" /\ Kept /\ ~IsEnd(call[s])
  BY DEF StepEnv, Kept, SessionInv, CallInv
<1>2. CASE \E what \in {"none", "legal", "illegal"} :
             Tell(s, [Quiet EXCEPT !.name = "step", !.what = what])
  BY <1>1, <1>2, PlainOK, Told DEF IsLegalAction
<1>3. CASE Tell(s, [Quiet EXCEPT !.name = "stepError"])
  BY <1>1, <1>3, PlainOK, Told DEF IsLegalAction
<1>4. CASE Error(s, "cancelled")
  BY <1>1, <1>4, WhyOK, Told DEF Error, Ends, IsLegalAction
<1> QED
  BY <1>2, <1>3, <1>4 DEF StepEnv

\* The callback is over.
LEMMA OwnReturn ==
  ASSUME IInv, NEW s \in Sessions, Return(s)
  PROVE  SessionInv(s)'
<1> TypeOK /\ SessionInv(s)
  BY DEF IInv
<1>1. at[s] = "return" /\ Kept /\ call[s] \in Callbacks
  BY DEF Return, Kept, TypeOK
<1>2. /\ steps["console"][s] \in 0..MaxSteps /\ MaxSteps \in Nat
      /\ call[s].name # "none"
      /\ call[s].name = "start" => steps["console"][s] < MaxSteps
  BY <1>1, Constants, Entries
     DEF SessionInv, CallInv, StepsInv, Behind, Observed, Fresh
<1>3. CASE call[s].name = "start"
  BY <1>1, <1>2, <1>3, Moved DEF Return, IsLegalAction, IsEnd
<1>4. CASE IsLegalAction(call[s])
  BY <1>1, <1>2, <1>4, Moved DEF Return, IsLegalAction, IsEnd
<1>5. CASE call[s].name = "step" /\ call[s].what = "legal"
  <2>1. CASE LimitReached(s)
    <3>1. Scoring(s, "limit")
      BY <1>5, <2>1 DEF Return, IsLegalAction, IsEnd
    <3> QED
      BY <1>1, <1>5, <3>1, WhyOK, Told DEF Scoring, IsLegalAction, IsEnd
  <2>2. CASE ~LimitReached(s)
    <3>1. GoOn(s, "loop")
      BY <1>5, <2>2 DEF Return, IsLegalAction, IsEnd
    <3> QED
      BY <1>1, <1>2, <1>5, <2>2, <3>1, Moved DEF LimitReached
  <2> QED
    BY <2>1, <2>2
<1>6. CASE call[s].name \in {"react", "step"} /\ call[s].what = "none"
  <2>1. Scoring(s, "none")
    BY <1>6 DEF Return, IsLegalAction, IsEnd
  <2> QED
    BY <1>1, <1>6, <2>1, WhyOK, Told DEF Scoring, IsLegalAction, IsEnd
<1>7. CASE \/ call[s].name = "reactError"
           \/ call[s].name = "react" /\ call[s].what = "illegal"
  <2>1. Error(s, "agent")
    BY <1>7 DEF Return, IsLegalAction, IsEnd
  <2> QED
    BY <1>1, <1>7, <2>1, WhyOK, Told DEF Error, Ends, IsLegalAction, IsEnd
<1>8. CASE \/ call[s].name = "stepError"
           \/ call[s].name = "step" /\ call[s].what = "illegal"
  <2>1. Error(s, "benchmark")
    BY <1>8 DEF Return, IsLegalAction, IsEnd
  <2> QED
    BY <1>1, <1>8, <2>1, WhyOK, Told DEF Error, Ends, IsLegalAction, IsEnd
<1>9. CASE call[s].name = "scoring"
  BY <1>1, <1>2, <1>9, Moved DEF Return, IsLegalAction, IsEnd
<1>10. CASE IsEnd(call[s])
  <2>1. GoOn(s, "done")
    BY <1>10 DEF Return, IsLegalAction, IsEnd
  <2> QED
    BY <1>1, <1>10, <2>1, Moved DEF IsEnd, IsLegalAction
<1> QED
  BY <1>1, <1>2, <1>3, <1>4, <1>5, <1>6, <1>7, <1>8, <1>9, <1>10
     DEF Callbacks, IsLegalAction, IsEnd

\* The score is known, or session.score() raises.
LEMMA OwnScore ==
  ASSUME IInv, NEW s \in Sessions, Score(s)
  PROVE  SessionInv(s)'
<1> TypeOK /\ SessionInv(s)
  BY DEF IInv
<1>1. /\ at[s] = "score" /\ Kept /\ call[s] \in Callbacks
      /\ call[s].name = "scoring" /\ call[s].why \in {"none", "limit"}
      /\ ~IsEnd(call[s])
  BY DEF Score, Kept, SessionInv, CallInv, Consistent, TypeOK, IsEnd
<1>2. ASSUME NEW success \in BOOLEAN, NEW finished \in {"true", "false"},
             NEW source \in Sources,
             call[s].why = "limit" => finished = "false",
             Tell(s, [call[s] EXCEPT !.name = "success",
                                     !.success = success,
                                     !.finished = finished,
                                     !.source = source])
      PROVE  SessionInv(s)'
  <2> DEFINE c == [call[s] EXCEPT !.name = "success", !.success = success,
                                  !.finished = finished, !.source = source]
  <2>1. c \in Callbacks
    BY <1>1 DEF Callbacks
  <2>2. c.name = "success" /\ c.finished = finished /\ c.why = call[s].why
    BY <1>1 DEF Callbacks
  <2>3. Consistent(c) /\ ~IsLegalAction(c)
    BY <1>1, <1>2, <2>2 DEF Consistent, IsLegalAction, IsEnd
  <2> QED
    BY <1>1, <1>2, <2>1, <2>2, <2>3, Told
<1>3. CASE Leaves(s)
  <2>1. todo'[s] = <<>> /\ logged'[s] = None
    BY <1>1 DEF SessionInv, TodoInv, RecordInv, Kept, Telling
  <2> QED
    BY <1>3, <2>1, LeftOK
<1> QED
  BY <1>2, <1>3 DEF Score

\* A step of a session keeps what holds of it.
LEMMA OwnStep ==
  ASSUME IInv, NEW s \in Sessions, Session(s)
  PROVE  SessionInv(s)'
BY OwnStart, OwnReact, OwnStepEnv, OwnReturn, OwnScore, OwnResults, OwnFile,
   OwnConsole, OwnLook, OwnUse, OwnMeasure, OwnTrim DEF Session
-----------------------------------------------------------------------------
(***************************************************************************)
(* A step of a session and the rest.                                       *)
(***************************************************************************)
\* A thread moves to a place, and no other does.
LEMMA MoveOK ==
  ASSUME TypeOK, NEW s \in Sessions, NEW to \in Places, Move(s, to)
  PROVE  /\ at' \in [Sessions -> Places] /\ at'[s] = to
         /\ \A t \in Sessions \ {s} : at'[t] = at[t]
BY DEF TypeOK, Move

\* A callback begins.
LEMMA TellOK ==
  ASSUME TypeOK, NEW s \in Sessions, NEW c \in Callbacks, Tell(s, c)
  PROVE  /\ at' \in [Sessions -> Places] /\ call' \in [Sessions -> Callbacks]
         /\ at'[s] = "results"
         /\ \A t \in Sessions \ {s} : at'[t] = at[t] /\ call'[t] = call[t]
BY DEF TypeOK, Tell, Move, Places

\* A helper of the console is done.
LEMMA HelpedTypes ==
  ASSUME TypeOK, NEW s \in Sessions, todo[s] # <<>>, Helped(s)
  PROVE  /\ at' \in [Sessions -> Places] /\ todo' \in [Sessions -> Seq(Uses)]
         /\ at'[s] \in {"return", "console"}
         /\ \A t \in Sessions \ {s} : at'[t] = at[t] /\ todo'[t] = todo[t]
<1>1. Tail(todo[s]) \in Seq(Uses)
  BY Entries, HeadTailProperties
<1> QED
  BY <1>1 DEF TypeOK, Helped, Move, Places

\* The console raises.
LEMMA RaiseTypes ==
  ASSUME TypeOK, NEW s \in Sessions, Raise(s)
  PROVE  /\ at' \in [Sessions -> Places] /\ todo' \in [Sessions -> Seq(Uses)]
         /\ at'[s] \in {"escaped", "again"}
         /\ call' \in [Sessions -> Callbacks]
         /\ recorded' \in
              [Sessions -> [status : Statuses, steps : Nat] \cup {None}]
         /\ logged' \in
              [Sessions -> [label : Labels, steps : Nat] \cup {None}]
         /\ reran' \in [Sessions -> BOOLEAN]
         /\ \A t \in Sessions \ {s} :
              /\ at'[t] = at[t] /\ todo'[t] = todo[t] /\ call'[t] = call[t]
              /\ recorded'[t] = recorded[t] /\ logged'[t] = logged[t]
<1>1. <<>> \in Seq(Uses) /\ Quiet \in Callbacks
  BY Tails, CallbacksOK
<1>2. CASE Escape(s)
  BY <1>1, <1>2 DEF TypeOK, Escape, Move, Places, told
<1>3. CASE Rerun(s)
  BY <1>1, <1>3 DEF TypeOK, Rerun, Move, Places
<1> QED
  BY <1>2, <1>3 DEF Raise

\* A callback begins; or the thread goes on without one; or it is gone.
Begins(s) == \E c \in Callbacks : Tell(s, c)
Goes(s) == \E to \in {"picked", "skipped", "loop", "stepping", "score", "done"} :
             GoOn(s, to)

\* The thread's own steps.
Own(s) == \/ PickUp(s) \/ Skip(s) \/ Reuse(s) \/ Start(s)
          \/ React(s) \/ StepEnv(s) \/ Return(s) \/ Score(s)

\* The thread is gone, and no other.
LEMMA LeavesOK ==
  ASSUME TypeOK, NEW s \in Sessions, Leaves(s)
  PROVE  /\ at' \in [Sessions -> Places] /\ call' \in [Sessions -> Callbacks]
         /\ at'[s] = "raised"
         /\ \A t \in Sessions \ {s} : at'[t] = at[t] /\ call'[t] = call[t]
BY CallbacksOK DEF TypeOK, Leaves, Move, Places

\* The callbacks that say why begin.
LEMMA WhyBegins ==
  ASSUME NEW s \in Sessions
  PROVE  /\ \A why \in {"none", "limit"} : Scoring(s, why) => Begins(s)
         /\ \A why \in Ends : Error(s, why) => Begins(s)
<1>1. ASSUME NEW why \in {"none", "limit"}, Scoring(s, why)
      PROVE  Begins(s)
  BY <1>1, WhyOK DEF Scoring, Begins
<1>2. ASSUME NEW why \in Ends, Error(s, why)
      PROVE  Begins(s)
  BY <1>2, WhyOK DEF Error, Begins
<1> QED
  BY <1>1, <1>2

\* The other callbacks of the loop begin.
LEMMA PlainBegins ==
  ASSUME NEW s \in Sessions,
         NEW name \in {"start", "react", "reactError", "step", "stepError"},
         NEW what \in {"none", "legal", "illegal"}
  PROVE  /\ Tell(s, [Quiet EXCEPT !.name = name]) => Begins(s)
         /\ Tell(s, [Quiet EXCEPT !.name = name, !.what = what]) => Begins(s)
<1>1. /\ [Quiet EXCEPT !.name = name] \in Callbacks
      /\ [Quiet EXCEPT !.name = name, !.what = what] \in Callbacks
  BY CallbacksOK DEF Callbacks, Sources
<1> QED
  BY <1>1 DEF Begins

\* The thread's own steps: a callback begins, the thread goes on or is gone.
LEMMA ThreadStep ==
  ASSUME IInv, NEW s \in Sessions, Own(s)
  PROVE  /\ Kept /\ UNCHANGED console /\ UNCHANGED run
         /\ Begins(s) \/ Goes(s) \/ Leaves(s)
<1> TypeOK /\ SessionInv(s)
  BY DEF IInv
<1>1. Kept /\ UNCHANGED console /\ UNCHANGED run
  BY DEF Kept, Own, PickUp, Skip, Reuse, Start, React, StepEnv, Return, Score
<1> SUFFICES Begins(s) \/ Goes(s) \/ Leaves(s)
  BY <1>1
<1>2. CASE PickUp(s) \/ Skip(s) \/ Reuse(s) \/ Start(s)
  BY <1>2, PlainBegins, ReuseOK DEF PickUp, Skip, Reuse, Start, Goes, Begins
<1>3. CASE React(s)
  BY <1>3, PlainBegins, WhyBegins DEF React, Ends
<1>4. CASE StepEnv(s)
  BY <1>4, PlainBegins, WhyBegins DEF StepEnv, Ends
<1>5. CASE Return(s)
  <2>1. call[s] \in Callbacks /\ call[s].name # "none"
    BY <1>5, Entries DEF Return, SessionInv, CallInv, Fresh
  <2>2. \/ Scoring(s, "limit") \/ Scoring(s, "none")
        \/ Error(s, "agent") \/ Error(s, "benchmark")
        \/ Goes(s)
    BY <1>5, <2>1 DEF Return, Callbacks, IsLegalAction, IsEnd, Goes
  <2> QED
    BY <2>2, WhyBegins DEF Ends
<1>6. CASE Score(s)
  <2>1. ASSUME NEW success \in BOOLEAN, NEW finished \in {"true", "false"},
               NEW source \in Sources,
               Tell(s, [call[s] EXCEPT !.name = "success",
                                       !.success = success,
                                       !.finished = finished,
                                       !.source = source])
        PROVE  Begins(s)
    <3>1. [call[s] EXCEPT !.name = "success", !.success = success,
                          !.finished = finished, !.source = source]
            \in Callbacks
      BY Entries DEF Callbacks
    <3> QED
      BY <2>1, <3>1 DEF Begins
  <2> QED
    BY <1>6, <2>1 DEF Score
<1> QED
  BY <1>2, <1>3, <1>4, <1>5, <1>6 DEF Own

\* The entries of the other sessions stay, and so do the bar's being there
\* and the main thread.
LEMMA OthersKept ==
  ASSUME IInv, NEW s \in Sessions, Session(s)
  PROVE  /\ \A t \in Sessions \ {s} : Same(t)
         /\ progress' = progress /\ UNCHANGED run
<1> TypeOK /\ SessionInv(s)
  BY DEF IInv
<1>1. CASE Own(s)
  <2>1. /\ UNCHANGED <<todo, steps, recorded, logged, progress>>
        /\ UNCHANGED run
    BY <1>1, ThreadStep DEF Kept, console
  <2>2. \A t \in Sessions \ {s} : at'[t] = at[t] /\ call'[t] = call[t]
    <3>1. CASE Begins(s)
      BY <3>1, TellOK DEF Begins
    <3>2. CASE Goes(s)
      BY <3>2, MoveOK DEF Goes, GoOn, Places
    <3> QED
      BY <1>1, <3>1, <3>2, ThreadStep, LeavesOK
  <2> QED
    BY <2>1, <2>2 DEF Same
<1>2. CASE TellResults(s)
  <2>1. UNCHANGED <<todo, logged, progress>> /\ UNCHANGED run
    BY <1>2 DEF TellResults, console
  <2>2. \A t \in Sessions \ {s} : at'[t] = at[t] /\ call'[t] = call[t]
    <3>1. GoOn(s, "file") \/ Leaves(s)
      BY <1>2 DEF TellResults, RecordEnd, RecordReuse, RecordEvent
    <3> QED
      BY <3>1, MoveOK, LeavesOK DEF GoOn, Places
  <2>3. \A t \in Sessions \ {s} : recorded'[t] = recorded[t]
    BY <1>2 DEF TellResults, RecordEnd, RecordReuse, RecordEvent, Record,
      TypeOK
  <2>4. PopState("results", s) \/ Counts("results", s) \/ UNCHANGED steps
    BY <1>2 DEF TellResults, RecordEnd, RecordReuse, RecordEvent
  <2>5. \A t \in Sessions \ {s} :
          \A o \in Observed : steps'[o][t] = steps[o][t]
    BY <2>4, PopOne, CountsOne DEF Observed
  <2> QED
    BY <2>1, <2>2, <2>3, <2>5 DEF Same
<1>3. CASE TellFile(s)
  <2>1. /\ UNCHANGED <<call, todo, recorded, progress>> /\ UNCHANGED run
        /\ Move(s, "console")
    BY <1>3 DEF TellFile, console
  <2>2. \A t \in Sessions \ {s} : logged'[t] = logged[t]
    BY <1>3 DEF TellFile, LogEnd, LogReuse, LogEvent, Log, TypeOK
  <2>3. PopState("file", s) \/ Counts("file", s) \/ UNCHANGED steps
    BY <1>3 DEF TellFile, LogEnd, LogReuse, LogEvent
  <2>4. \A t \in Sessions \ {s} :
          \A o \in Observed : steps'[o][t] = steps[o][t]
    BY <2>3, PopOne, CountsOne DEF Observed
  <2> QED
    BY <2>1, <2>2, <2>4, MoveOK DEF Same, Places
<1>4. CASE TellConsole(s)
  <2>1. /\ UNCHANGED <<call, recorded, logged, progress>> /\ UNCHANGED run
        /\ Counts("console", s)
    BY <1>4 DEF TellConsole, console
  <2>2. \A t \in Sessions \ {s} : at'[t] = at[t] /\ todo'[t] = todo[t]
    BY <1>4 DEF TellConsole, Move, TypeOK
  <2>3. \A t \in Sessions \ {s} :
          \A o \in Observed : steps'[o][t] = steps[o][t]
    BY <2>1, CountsOne DEF Observed
  <2> QED
    BY <2>1, <2>2, <2>3 DEF Same
<1>5. CASE LookAtProgress(s) \/ UseProgress(s) \/ Measure(s) \/ Trim(s)
  <2>1. UNCHANGED <<steps, progress>> /\ UNCHANGED run
    BY <1>5 DEF LookAtProgress, UseProgress, Measure, Trim, console
  <2>2. \/ Raise(s)
        \/ Helped(s) /\ UNCHANGED told
        \/ (\E to \in Places : Move(s, to)) /\ UNCHANGED <<todo, told>>
    BY <1>5 DEF LookAtProgress, UseProgress, AddBar, FinishBar, AdvanceRun,
      TouchBar, Measure, Trim, Places, told
  <2>3. CASE Raise(s)
    BY <2>1, <2>3, RaiseTypes DEF Same
  <2>4. CASE \/ Helped(s) /\ UNCHANGED told
             \/ (\E to \in Places : Move(s, to)) /\ UNCHANGED <<todo, told>>
    <3>1. \A t \in Sessions \ {s} : at'[t] = at[t] /\ todo'[t] = todo[t]
      BY <2>4 DEF Helped, Move, TypeOK
    <3> QED
      BY <2>1, <2>4, <3>1 DEF Same, told
  <2> QED
    BY <2>2, <2>3, <2>4
<1> QED
  BY <1>1, <1>2, <1>3, <1>4, <1>5 DEF Session, Own
-----------------------------------------------------------------------------
(***************************************************************************)
(* The types and the count.                                                *)
(***************************************************************************)
\* The count goes up when the console counts a session's end, and stays
\* otherwise.
LEMMA CountKept ==
  ASSUME IInv, NEW s \in Sessions, Session(s), Counted' = Counted,
         runDone' = runDone
  PROVE  CountInv'
BY OthersKept DEF IInv, CountInv, run

\* A session is counted once it is, and the others stay.
LEMMA CountedOthers ==
  ASSUME IInv, NEW s \in Sessions, Session(s)
  PROVE  /\ (s \in Counted' <=> s \in Counted) => Counted' = Counted
         /\ s \in Counted' /\ s \notin Counted =>
              /\ Counted' = Counted \cup {s}
              /\ Cardinality(Counted') = Cardinality(Counted) + 1
         /\ Cardinality(Counted) \in Nat
<1>1. \A t \in Sessions \ {s} : t \in Counted' <=> t \in Counted
  BY OthersKept DEF Same, Counted
<1>2. Counted \subseteq Sessions /\ Counted' \subseteq Sessions
  BY DEF Counted
<1>3. IsFiniteSet(Counted)
  BY <1>2, Constants, FS_Subset
<1>4. Cardinality(Counted) \in Nat
  BY <1>3, FS_CardinalityType
<1>5. (s \in Counted' <=> s \in Counted) => Counted' = Counted
  BY <1>1, <1>2
<1>6. ASSUME s \in Counted' /\ s \notin Counted
      PROVE  Counted' = Counted \cup {s}
  BY <1>1, <1>2, <1>6
<1>7. s \notin Counted =>
        Cardinality(Counted \cup {s}) = Cardinality(Counted) + 1
  BY <1>3, FS_AddElement
<1> QED
  BY <1>4, <1>5, <1>6, <1>7

\* The bar of the run counts every session once.
LEMMA CountStep ==
  ASSUME IInv, NEW s \in Sessions, Session(s)
  PROVE  CountInv'
<1> TypeOK /\ SessionInv(s)
  BY DEF IInv
<1>1. CASE Own(s)
  <2>1. runDone' = runDone /\ UNCHANGED todo
    BY <1>1, ThreadStep DEF console, Kept
  <2>2. s \in Counted' <=> s \in Counted
    <3>1. CASE Return(s)
      <4>1. CASE IsEnd(call[s])
        <5>1. GoOn(s, "done")
          BY <3>1, <4>1 DEF Return, IsLegalAction, IsEnd
        <5> QED
          BY <3>1, <4>1, <5>1 DEF TypeOK, GoOn, Move, Counted, Return
      <4>2. CASE ~IsEnd(call[s])
        <5>1. SessionInv(s)'
          BY <3>1, OwnReturn
        <5>2. CASE Begins(s)
          BY <4>2, <5>2, TellOK DEF Begins, Counted
        <5>3. CASE Goes(s)
          <6>1. call'[s] = call[s]
            BY <5>3 DEF Goes, GoOn
          <6> QED
            BY <4>2, <6>1 DEF Counted
        <5>4. CASE Leaves(s)
          BY <4>2, <5>4, LeavesOK DEF Counted
        <5> QED
          BY <1>1, <5>2, <5>3, <5>4, ThreadStep
      <4> QED
        BY <4>1, <4>2
    <3>2. CASE ~Return(s)
      <4>1. at[s] \in Fresh \cup {"loop", "stepping", "score"}
        BY <1>1, <3>2 DEF Own, PickUp, Skip, Reuse, Start, React, StepEnv,
          Score, Fresh
      <4>2. ~IsEnd(call[s])
        BY <4>1 DEF SessionInv, CallInv, IsEnd
      <4>3. CASE Begins(s)
        BY <4>1, <4>3, TellOK DEF Begins, Counted, Fresh
      <4>4. CASE Goes(s)
        BY <4>2, <4>4 DEF Goes, GoOn, Counted
      <4>5. CASE Leaves(s)
        BY <4>2, <4>5, LeavesOK DEF Counted
      <4> QED
        BY <1>1, <4>3, <4>4, <4>5, ThreadStep
    <3> QED
      BY <3>1, <3>2
  <2> QED
    BY <2>1, <2>2, CountKept, CountedOthers
<1>2. CASE TellResults(s) \/ TellFile(s) \/ TellConsole(s)
  <2>1. runDone' = runDone
    BY <1>2 DEF TellResults, TellFile, TellConsole, console
  <2>2. s \in Counted' <=> s \in Counted
    <3>1. at[s] \notin {"return", "done"}
      BY <1>2 DEF TellResults, TellFile, TellConsole
    <3>2. CASE TellResults(s)
      <4>1. GoOn(s, "file") \/ Leaves(s)
        BY <3>2 DEF TellResults, RecordEnd, RecordReuse, RecordEvent
      <4>2. at'[s] \in {"file", "raised"}
        BY <4>1, MoveOK, LeavesOK DEF GoOn, Places
      <4> QED
        BY <3>1, <4>2 DEF Counted
    <3>3. CASE TellFile(s)
      <4>1. at'[s] = "console"
        BY <3>3, MoveOK DEF TellFile, Places
      <4> QED
        BY <3>1, <4>1 DEF Counted
    <3>4. CASE TellConsole(s) /\ IsEnd(call[s])
      <4>1. at'[s] = "console"
        BY <3>4, Entries, UsesOK, Tails DEF TellConsole, Move, TypeOK, IsEnd
      <4> QED
        BY <3>1, <4>1 DEF Counted
    <3>5. CASE TellConsole(s) /\ ~IsEnd(call[s])
      BY <3>1, <3>5 DEF Counted, TellConsole
    <3> QED
      BY <1>2, <3>2, <3>3, <3>4, <3>5
  <2> QED
    BY <2>1, <2>2, CountKept, CountedOthers
<1>3. CASE LookAtProgress(s) \/ UseProgress(s) \/ Measure(s) \/ Trim(s)
  <2>1. /\ at[s] \in Telling /\ todo[s] # <<>>
        /\ Raise(s) \/ call'[s] = call[s]
    BY <1>3, Tails DEF LookAtProgress, UseProgress, Measure, Trim, Telling,
      SessionInv, TodoInv, told
  <2>2. s \notin Counted
    BY <2>1 DEF Counted, Telling
  <2>3. \/ runDone' = runDone
        \/ /\ UseProgress(s) /\ progress /\ Head(todo[s]) = "advanceRun"
           /\ runDone' = runDone + 1 /\ Helped(s) /\ UNCHANGED told
    BY <1>3 DEF LookAtProgress, UseProgress, AddBar, FinishBar, AdvanceRun,
      TouchBar, Measure, Trim, console
  <2>4. CASE /\ UseProgress(s) /\ progress /\ Head(todo[s]) = "advanceRun"
             /\ runDone' = runDone + 1 /\ Helped(s) /\ UNCHANGED told
    <3>1. IsEnd(call[s]) /\ todo[s] = AfterStop /\ call'[s] = call[s]
      BY <2>1, <2>4, Tails DEF SessionInv, TodoInv, IsEnd, told
    <3>2. at'[s] = "return"
      BY <2>4, <3>1, Tails DEF Helped, Move, TypeOK
    <3>3. s \in Counted'
      BY <2>1, <3>1, <3>2 DEF Counted
    <3>4. Cardinality(Counted') = Cardinality(Counted) + 1
      BY <2>2, <3>3, CountedOthers
    <3>5. main # "reuse"
      BY <2>1 DEF IInv, MainInv, Telling
    <3>6. Cardinality(Counted) \in Nat /\ Cardinality(Reused) \in Nat
      BY CountedOthers, Constants
    <3> QED
      BY <2>4, <3>4, <3>5, <3>6, OthersKept DEF IInv, CountInv, run
  <2>5. CASE runDone' = runDone
    <3>1. CASE ~progress
      BY <3>1, OthersKept DEF CountInv
    <3>2. CASE progress
      <4>1. s \notin Counted'
        <5>1. CASE Raise(s)
          BY <5>1, RaiseTypes DEF Counted
        <5>2. CASE ~IsEnd(call[s]) /\ ~Raise(s)
          BY <2>1, <5>2 DEF Counted
        <5>3. CASE IsEnd(call[s]) /\ ~Raise(s)
          <6>1. todo[s] # AfterStop \/ LookAtProgress(s)
            <7>1. CASE UseProgress(s)
              <8>1. Head(todo[s]) # "advanceRun"
                BY <2>5, <3>2, <7>1 DEF UseProgress, AddBar, FinishBar,
                  AdvanceRun, TouchBar, IInv, TypeOK
              <8> QED
                BY <8>1, Tails
            <7>2. CASE Measure(s) \/ Trim(s)
              BY <7>2, Tails DEF Measure, Trim, SessionInv, TodoInv,
                AfterTouch, AfterStop
            <7> QED
              BY <1>3, <7>1, <7>2
          <6>2. at'[s] \in {"use", "console", "measure", "trim"}
            <7>1. CASE LookAtProgress(s)
              BY <3>2, <7>1 DEF LookAtProgress, Move, TypeOK
            <7>2. CASE ~LookAtProgress(s)
              <8>1. /\ todo[s] \in {OfEnd, OfReuse, AfterTouch}
                    /\ Len(todo[s]) # 1
                BY <2>1, <5>3, <6>1, <7>2, Tails
                   DEF SessionInv, TodoInv, IsEnd
              <8>2. Helped(s) \/ Move(s, "measure") \/ Move(s, "trim")
                BY <1>3, <5>3, <7>2 DEF UseProgress, AddBar, FinishBar,
                  AdvanceRun, TouchBar, Measure, Trim
              <8> QED
                BY <8>1, <8>2 DEF Helped, Move, TypeOK
            <7> QED
              BY <7>1, <7>2
          <6> QED
            BY <6>2 DEF Counted
        <5> QED
          BY <5>1, <5>2, <5>3
      <4> QED
        BY <2>2, <2>5, <4>1, CountKept, CountedOthers
    <3> QED
      BY <3>1, <3>2
  <2> QED
    BY <2>3, <2>4, <2>5
<1> QED
  BY <1>1, <1>2, <1>3 DEF Session, Own

\* An observer counts a callback within the limit.
LEMMA CountsTypes ==
  ASSUME TypeOK, NEW s \in Sessions, NEW o \in Observed, Counts(o, s),
         IsLegalAction(call[s]) => steps[o][s] < MaxSteps
  PROVE  steps' \in [Observed -> [Sessions -> 0..MaxSteps]]
<1>1. MaxSteps \in Nat /\ steps[o][s] \in 0..MaxSteps
  BY Constants, Entries
<1>2. CASE call[s].name = "start"
  <2>1. steps' = [steps EXCEPT ![o][s] = 0]
    BY <1>2 DEF Counts, Register, IsLegalAction
  <2> QED
    BY <1>1, <2>1 DEF TypeOK
<1>3. CASE IsLegalAction(call[s])
  <2>1. steps' = [steps EXCEPT ![o][s] = @ + 1]
    BY <1>3 DEF Counts, IncrementSteps, IsLegalAction
  <2>2. steps[o][s] + 1 \in 0..MaxSteps
    BY <1>1, <1>3
  <2> QED
    BY <2>1, <2>2 DEF TypeOK
<1>4. CASE call[s].name # "start" /\ ~IsLegalAction(call[s])
  BY <1>4 DEF Counts, TypeOK
<1> QED
  BY <1>2, <1>3, <1>4

\* An observer forgets a session.
LEMMA PopTypes ==
  ASSUME TypeOK, NEW s \in Sessions, NEW o \in Observed, PopState(o, s)
  PROVE  steps' \in [Observed -> [Sessions -> 0..MaxSteps]]
<1>1. 0 \in 0..MaxSteps
  BY Constants
<1> QED
  BY <1>1 DEF TypeOK, PopState

\* What TypeOK says of the main thread and the console's counter.
RunTypes ==
  /\ runDone \in 0..Cardinality(Sessions \cup Reused)
  /\ main \in {"reuse", "running", "results", "console", "join", "over"}
  /\ final \in {"none", "success", "error"}
  /\ snapshot \in (SUBSET Sessions) \cup {None}

\* The bar of the run never counts more sessions than there are.
LEMMA RunDoneOK ==
  ASSUME IInv, NEW s \in Sessions, Session(s)
  PROVE  RunTypes'
<1> TypeOK
  BY DEF IInv
<1>1. UNCHANGED run /\ progress' = progress
  BY OthersKept
<1>2. runDone' \in 0..Cardinality(Sessions \cup Reused)
  <2>1. CASE runDone' = runDone
    BY <2>1 DEF TypeOK
  <2>2. CASE runDone' # runDone
    <3>1. UseProgress(s) /\ progress
      <4>1. ~Own(s)
        BY <2>2, ThreadStep DEF console
      <4>2. UseProgress(s)
        BY <2>2, <4>1 DEF Session, Own, TellResults, TellFile, TellConsole,
          LookAtProgress, Measure, Trim, console
      <4> QED
        BY <2>2, <4>2 DEF UseProgress
    <3>2. main # "reuse"
      BY <3>1 DEF IInv, MainInv, UseProgress
    <3>3. runDone' = Cardinality(Reused) + Cardinality(Counted')
      BY <1>1, <3>1, <3>2, CountStep DEF CountInv, run
    <3>4. Counted' \subseteq Sessions
      BY DEF Counted
    <3>5. /\ Cardinality(Counted') \in Nat
          /\ Cardinality(Counted') <= Cardinality(Sessions)
      BY <3>4, Constants, FS_Subset, FS_CardinalityType
    <3> QED
      BY <3>3, <3>5, Constants
  <2> QED
    BY <2>1, <2>2
<1> QED
  BY <1>1, <1>2 DEF TypeOK, RunTypes, run

\* A step of a session keeps the types.
LEMMA TypeStep ==
  ASSUME IInv, NEW s \in Sessions, Session(s)
  PROVE  TypeOK'
<1> TypeOK /\ SessionInv(s)
  BY DEF IInv
<1>1. RunTypes' /\ progress' \in BOOLEAN
  BY RunDoneOK, OthersKept DEF TypeOK
<1>2. /\ call[s] \in Callbacks /\ reasons[s] \in Reasons
      /\ \A o \in Observed : steps[o][s] \in 0..MaxSteps
      /\ MaxSteps \in Nat /\ MaxVisible \in Nat
  BY Entries, Constants
<1>3. CASE Own(s)
  <2>1. Kept /\ UNCHANGED console
    BY <1>3, ThreadStep
  <2>2. /\ at' \in [Sessions -> Places] /\ call' \in [Sessions -> Callbacks]
    <3>1. CASE Begins(s)
      BY <3>1, TellOK DEF Begins
    <3>2. CASE Goes(s)
      BY <3>2, MoveOK DEF Goes, GoOn, Places, TypeOK
    <3> QED
      BY <1>3, <3>1, <3>2, ThreadStep, LeavesOK
  <2> QED
    BY <1>1, <2>1, <2>2 DEF TypeOK, RunTypes, Kept, console
<1>4. CASE TellResults(s)
  <2>1. UNCHANGED <<excess, todo, reasons, logged, reran, bars, completed>>
    BY <1>4 DEF TellResults, console
  <2>2. at' \in [Sessions -> Places] /\ call' \in [Sessions -> Callbacks]
    <3>1. GoOn(s, "file") \/ Leaves(s)
      BY <1>4 DEF TellResults, RecordEnd, RecordReuse, RecordEvent
    <3> QED
      BY <3>1, MoveOK, LeavesOK DEF GoOn, Places, TypeOK
  <2>3. ASSUME NEW n \in Nat, Record(s, n)
        PROVE  recorded' \in
                 [Sessions -> [status : Statuses, steps : Nat] \cup {None}]
    <3>1. [status |-> StatusOf(call[s]), steps |-> n]
            \in [status : Statuses, steps : Nat]
      BY <1>2, WordsOK
    <3> QED
      BY <2>3, <3>1 DEF Record, TypeOK
  <2>4. recorded' \in
          [Sessions -> [status : Statuses, steps : Nat] \cup {None}]
    <3>1. steps["results"][s] \in Nat /\ 0..MaxSteps \subseteq Nat
      BY <1>2 DEF Observed
    <3>2. recorded' = recorded \/ \E n \in Nat : Record(s, n)
      BY <1>4, <3>1 DEF TellResults, RecordEnd, RecordReuse, RecordEvent
    <3> QED
      BY <2>3, <3>2 DEF TypeOK
  <2>5. steps' \in [Observed -> [Sessions -> 0..MaxSteps]]
    <3>1. IsLegalAction(call[s]) => steps["results"][s] < MaxSteps
      BY <1>4 DEF TellResults, SessionInv, StepsInv, Behind, Equal
    <3>2. \/ PopState("results", s) \/ Counts("results", s)
          \/ UNCHANGED steps
      BY <1>4 DEF TellResults, RecordEnd, RecordReuse, RecordEvent
    <3> QED
      BY <3>1, <3>2, PopTypes, CountsTypes DEF TypeOK, Observed
  <2> QED
    BY <1>1, <2>1, <2>2, <2>4, <2>5 DEF TypeOK, RunTypes
<1>5. CASE TellFile(s)
  <2>1. /\ UNCHANGED <<excess, call, todo, recorded, reran, bars, completed>>
        /\ at' \in [Sessions -> Places]
    BY <1>5, MoveOK DEF TellFile, Places, console
  <2>2. ASSUME NEW n \in Nat, Log(s, n)
        PROVE  logged' \in
                 [Sessions -> [label : Labels, steps : Nat] \cup {None}]
    <3>1. EndReason(s) \in Reasons
      BY <1>2, WordsOK DEF EndReason
    <3>2. [label |-> Label(call[s], EndReason(s)), steps |-> n]
            \in [label : Labels, steps : Nat]
      BY <1>2, <3>1, WordsOK
    <3> QED
      BY <2>2, <3>2 DEF Log, TypeOK
  <2>3. logged' \in [Sessions -> [label : Labels, steps : Nat] \cup {None}]
    <3>1. CASE LogEnd(s)
      <4>1. steps["file"][s] \in Nat
        BY <1>2 DEF Observed
      <4> QED
        BY <2>2, <3>1, <4>1 DEF LogEnd
    <3>2. CASE LogReuse(s)
      <4>1. recorded[s] # None
        BY <1>5, <3>2 DEF TellFile, LogReuse, SessionInv, RecordInv, IsEnd
      <4>2. recorded[s].steps \in Nat
        BY <4>1 DEF TypeOK
      <4> QED
        BY <2>2, <3>2, <4>2 DEF LogReuse
    <3>3. CASE LogEvent(s)
      BY <3>3 DEF LogEvent, TypeOK
    <3> QED
      BY <1>5, <3>1, <3>2, <3>3 DEF TellFile
  <2>4. reasons' \in [Sessions -> Reasons]
    <3>1. "ended" \in Reasons /\ FirstReason(call[s]) \in Reasons
      BY <1>2, WordsOK DEF Reasons
    <3> QED
      BY <1>5, <3>1 DEF TellFile, LogEnd, LogReuse, LogEvent, TypeOK
  <2>5. steps' \in [Observed -> [Sessions -> 0..MaxSteps]]
    <3>1. IsLegalAction(call[s]) => steps["file"][s] < MaxSteps
      BY <1>5 DEF TellFile, SessionInv, StepsInv, Behind, Equal
    <3>2. PopState("file", s) \/ Counts("file", s) \/ UNCHANGED steps
      BY <1>5 DEF TellFile, LogEnd, LogReuse, LogEvent
    <3> QED
      BY <3>1, <3>2, PopTypes, CountsTypes DEF TypeOK, Observed
  <2> QED
    BY <1>1, <2>1, <2>3, <2>4, <2>5 DEF TypeOK, RunTypes
<1>6. CASE TellConsole(s)
  <2>1. UNCHANGED <<excess, call, reasons, recorded, logged, reran, bars,
                    completed>>
    BY <1>6 DEF TellConsole, console
  <2>2. UsesOf(call[s]) \in Seq(Uses)
    BY <1>2, UsesOK, Tails DEF IsEnd
  <2>3. at' \in [Sessions -> Places] /\ todo' \in [Sessions -> Seq(Uses)]
    BY <1>6, <2>2 DEF TellConsole, Move, TypeOK, Places
  <2>4. IsLegalAction(call[s]) => steps["console"][s] < MaxSteps
    BY <1>6 DEF TellConsole, SessionInv, StepsInv, Behind
  <2>5. steps' \in [Observed -> [Sessions -> 0..MaxSteps]]
    BY <1>6, <2>4, CountsTypes DEF TellConsole, Observed
  <2> QED
    BY <1>1, <2>1, <2>3, <2>5 DEF TypeOK, RunTypes
<1>7. CASE LookAtProgress(s) \/ UseProgress(s) \/ Measure(s) \/ Trim(s)
  <2>1. UNCHANGED <<steps, reasons>> /\ todo[s] # <<>>
    BY <1>7, Tails DEF LookAtProgress, UseProgress, Measure, Trim, SessionInv,
      TodoInv
  <2>2. /\ at' \in [Sessions -> Places] /\ todo' \in [Sessions -> Seq(Uses)]
        /\ call' \in [Sessions -> Callbacks]
        /\ recorded' \in
             [Sessions -> [status : Statuses, steps : Nat] \cup {None}]
        /\ logged' \in
             [Sessions -> [label : Labels, steps : Nat] \cup {None}]
        /\ reran' \in [Sessions -> BOOLEAN]
    <3>1. \/ Raise(s)
          \/ Helped(s) /\ UNCHANGED told
          \/ (\E to \in Places : Move(s, to)) /\ UNCHANGED <<todo, told>>
      BY <1>7 DEF LookAtProgress, UseProgress, AddBar, FinishBar, AdvanceRun,
        TouchBar, Measure, Trim, Places, told
    <3>2. CASE (\E to \in Places : Move(s, to)) /\ UNCHANGED <<todo, told>>
      BY <3>2, MoveOK DEF TypeOK, told
    <3>3. CASE Helped(s) /\ UNCHANGED told
      BY <2>1, <3>3, HelpedTypes DEF TypeOK, told
    <3> QED
      BY <3>1, <3>2, <3>3, RaiseTypes
  <2>3. /\ excess' \in [Sessions -> Nat] /\ bars' \subseteq Sessions
        /\ completed' \in Seq(Sessions \cup Reused)
    <3>1. Len(completed) \in Nat
      BY LenProperties DEF TypeOK
    <3>2. Append(completed, s) \in Seq(Sessions \cup Reused)
      BY AppendProperties DEF TypeOK
    <3>3. CASE LookAtProgress(s)
      BY <3>3 DEF LookAtProgress, TypeOK, console
    <3>4. CASE UseProgress(s)
      <4>1. excess' = excess
        BY <3>4 DEF UseProgress
      <4>2. bars' \in {bars, bars \cup {s}, bars \ {s}}
        BY <3>4 DEF UseProgress, AddBar, FinishBar, AdvanceRun, TouchBar
      <4>3. completed' \in {completed, Append(completed, s)}
        BY <3>4 DEF UseProgress, AddBar, FinishBar, AdvanceRun, TouchBar
      <4> QED
        BY <3>2, <4>1, <4>2, <4>3 DEF TypeOK
    <3>5. CASE Measure(s)
      <4>1. UNCHANGED <<bars, completed>>
        BY <3>5 DEF Measure, console
      <4>2. excess' \in [Sessions -> Nat]
        <5>1. CASE Len(completed) > MaxVisible
          <6>1. Len(completed) - MaxVisible \in Nat
            BY <1>2, <3>1, <5>1
          <6> QED
            BY <3>5, <5>1, <6>1 DEF Measure, TypeOK
        <5>2. CASE ~(Len(completed) > MaxVisible)
          BY <3>5, <5>2 DEF Measure, TypeOK
        <5> QED
          BY <5>1, <5>2
      <4> QED
        BY <4>1, <4>2 DEF TypeOK
    <3>6. CASE Trim(s)
      <4>1. excess' \in [Sessions -> Nat] /\ bars' = bars
        BY <3>6 DEF Trim, TypeOK
      <4>2. CASE excess[s] <= Len(completed)
        <5>1. excess[s] + 1 \in 1..Len(completed) + 1
          BY <3>1, <4>2, Entries
        <5>2. SubSeq(completed, excess[s] + 1, Len(completed))
                \in Seq(Sessions \cup Reused)
          BY <3>1, <5>1, SubSeqProperties DEF TypeOK
        <5> QED
          BY <3>6, <4>1, <4>2, <5>2 DEF Trim, TypeOK
      <4>3. CASE ~(excess[s] <= Len(completed))
        BY <3>6, <4>1, <4>3 DEF Trim, TypeOK
      <4> QED
        BY <4>2, <4>3
    <3> QED
      BY <1>7, <3>3, <3>4, <3>5, <3>6
  <2> QED
    BY <1>1, <2>1, <2>2, <2>3 DEF TypeOK, RunTypes
<1> QED
  BY <1>3, <1>4, <1>5, <1>6, <1>7 DEF Session, Own
-----------------------------------------------------------------------------
(***************************************************************************)
(* The main thread.                                                        *)
(***************************************************************************)
\* The initial state.
LEMMA InitInv == Init => IInv
<1> SUFFICES ASSUME Init PROVE IInv
  OBVIOUS
<1>1. TypeOK
  <2>1. 0 \in 0..Cardinality(Sessions \cup Reused) /\ 0 \in 0..MaxSteps
    BY Constants
  <2> QED
    BY <2>1 DEF Init, TypeOK, Places, Quiet, Callbacks, Sources, Reasons
<1>2. ASSUME NEW s \in Sessions PROVE SessionInv(s)
  <2>1. /\ at[s] = "idle" /\ call[s] = Quiet /\ todo[s] = <<>>
        /\ recorded[s] = None /\ logged[s] = None
        /\ \A o \in Observed : steps[o][s] = 0
    BY DEF Init
  <2>2. CallInv(s) /\ TodoInv(s) /\ RecordInv(s) /\ EscapeInv(s)
    BY <2>1, CallbacksOK DEF CallInv, Consistent, TodoInv, RecordInv,
      EscapeInv, IsEnd, Telling, Fresh
  <2>3. StepsInv(s)
    BY <2>1, CallbacksOK DEF StepsInv, Equal, Behind, Observed, Fresh
  <2> QED
    BY <2>2, <2>3 DEF SessionInv
<1>3. MainInv /\ CountInv
  BY DEF Init, MainInv, CountInv
<1> QED
  BY <1>1, <1>2, <1>3 DEF IInv

\* The reused results are told in some order, each once.
LEMMA OrderOK ==
  ASSUME NEW all \in SetToAllKPermutations(Reused)
  PROVE  all \in Seq(Reused)
<1>1. PICK T \in SUBSET Reused : all \in SetToSeqs(T)
  BY DEF SetToAllKPermutations
<1>2. all \in [1..Cardinality(T) -> T]
  BY <1>1 DEF SetToSeqs
<1>3. Cardinality(T) \in Nat
  BY Constants, FS_Subset, FS_CardinalityType
<1>4. all \in Seq(T)
  BY <1>2, <1>3
<1> QED
  BY <1>4

\* The reused results are told.
LEMMA ReusedStep ==
  ASSUME IInv, TellReused
  PROVE  IInv'
<1>1. PICK all \in SetToAllKPermutations(Reused) :
        /\ Len(all) = Cardinality(Reused)
        /\ completed' = SubSeq(all, Len(all) - (IF Len(all) < MaxVisible
                                 THEN Len(all) ELSE MaxVisible) + 1, Len(all))
        /\ runDone' = Len(all)
  BY DEF TellReused
<1>2. all \in Seq(Sessions \cup Reused) /\ Len(all) \in Nat
  BY OrderOK, LenProperties
<1>3. completed' \in Seq(Sessions \cup Reused)
  <2> DEFINE first == Len(all) - (IF Len(all) < MaxVisible
                                  THEN Len(all) ELSE MaxVisible) + 1
  <2>1. first \in Nat /\ first >= 1
    BY <1>2, Constants
  <2>2. \A i \in first..Len(all) : all[i] \in Sessions \cup Reused
    BY <1>2, <2>1, ElementOfSeq
  <2>3. SubSeq(all, first, Len(all)) \in Seq(Sessions \cup Reused)
    BY <1>2, <2>1, <2>2, SubSeqProperties
  <2> QED
    BY <1>1, <2>3
<1>5. runDone' = Cardinality(Reused)
      /\ runDone' \in 0..Cardinality(Sessions \cup Reused)
  BY <1>1, Constants
<1>6. /\ UNCHANGED <<excess, at, call, todo, steps, reasons, recorded, logged,
                     reran, progress, bars, final, snapshot>>
      /\ main = "reuse" /\ main' = "running"
  BY DEF TellReused
<1>7. TypeOK'
  BY <1>3, <1>5, <1>6 DEF IInv, TypeOK
<1>8. \A s \in Sessions : SessionInv(s)'
  BY <1>6, SameKept DEF IInv, Same
<1>9. MainInv'
  BY <1>6 DEF IInv, MainInv
<1>10. CountInv'
  <2>1. \A s \in Sessions : at[s] = "idle"
    BY <1>6 DEF IInv, MainInv
  <2>2. Counted' = {}
    BY <1>6, <2>1 DEF Counted
  <2>3. Cardinality(Counted') = 0
    BY <2>2, FS_EmptySet
  <2> QED
    BY <1>5, <2>3, Constants DEF CountInv
<1> QED
  BY <1>7, <1>8, <1>9, <1>10 DEF IInv

\* The end of the run is told, and the executor joins its threads.
LEMMA EndStep ==
  ASSUME IInv, Main, ~TellReused
  PROVE  IInv'
<1>1. /\ UNCHANGED <<excess, at, call, todo, steps, reasons, recorded,
                     logged, reran, completed, runDone>>
      /\ main # "reuse" /\ main' # "reuse"
      /\ progress' => progress
  BY DEF Main, EndRun, EndRunResults, StopProgress, Join, console
<1>2. TypeOK'
  <2>1. /\ bars' \subseteq Sessions /\ progress' \in BOOLEAN
        /\ main' \in {"reuse", "running", "results", "console", "join", "over"}
        /\ final' \in {"none", "success", "error"}
    BY DEF IInv, TypeOK, Main, EndRun, EndRunResults, StopProgress, Join,
      console
  <2>2. snapshot' \in (SUBSET Sessions) \cup {None}
    BY DEF IInv, TypeOK, Main, EndRun, EndRunResults, StopProgress, Join
  <2> QED
    BY <1>1, <2>1, <2>2 DEF IInv, TypeOK
<1>3. \A s \in Sessions : SessionInv(s)'
  BY <1>1, SameKept DEF IInv, Same
<1>4. MainInv'
  BY DEF IInv, MainInv, Main, EndRun, EndRunResults, StopProgress, Join,
    console
<1>5. CountInv'
  <2>1. Counted' = Counted
    BY <1>1 DEF Counted
  <2> QED
    BY <1>1, <2>1 DEF IInv, CountInv
<1> QED
  BY <1>2, <1>3, <1>4, <1>5 DEF IInv

\* Every step keeps the invariant.
LEMMA StepInv == IInv /\ [Next]_vars => IInv'
<1> SUFFICES ASSUME IInv, [Next]_vars PROVE IInv'
  OBVIOUS
<1>1. ASSUME NEW s \in Sessions, Session(s)
      PROVE  IInv'
  <2>1. TypeOK' /\ CountInv'
    BY <1>1, TypeStep, CountStep
  <2>2. \A t \in Sessions : SessionInv(t)'
    BY <1>1, OwnStep, OthersKept, SameKept DEF IInv
  <2>3. MainInv'
    <3>1. main # "reuse"
      BY <1>1 DEF IInv, MainInv, Session, PickUp, Skip, Reuse, Start, React,
        StepEnv, Return, Score, TellResults, TellFile, TellConsole,
        LookAtProgress, UseProgress, Measure, Trim
    <3>2. UNCHANGED <<main, final, progress>>
      BY <1>1, OthersKept DEF run
    <3> QED
      BY <3>1, <3>2 DEF IInv, MainInv
  <2> QED
    BY <2>1, <2>2, <2>3 DEF IInv
<1>2. CASE TellReused
  BY <1>2, ReusedStep
<1>3. CASE Main /\ ~TellReused
  BY <1>3, EndStep
<1>4. CASE UNCHANGED vars
  <2>1. UNCHANGED <<at, call, todo, excess, steps, reasons, recorded,
                    logged, reran, progress, bars, completed, runDone, main, final,
                    snapshot>>
    BY <1>4 DEF vars
  <2>2. TypeOK'
    BY <2>1 DEF IInv, TypeOK
  <2>3. \A s \in Sessions : SessionInv(s)'
    BY <2>1, SameKept DEF IInv, Same
  <2>4. MainInv' /\ CountInv'
    BY <2>1 DEF IInv, MainInv, CountInv, Counted
  <2> QED
    BY <2>2, <2>3, <2>4 DEF IInv
<1> QED
  BY <1>1, <1>2, <1>3, <1>4 DEF Next

\* The invariant says what the observers promise.
LEMMA InvEnds == IInv => EndsAgree
<1> SUFFICES ASSUME IInv PROVE LogAgrees /\ EndsTold
  BY DEF IInv, EndsAgree
<1>1. LogAgrees
  BY DEF IInv, SessionInv, RecordInv, LogAgrees
<1>2. \A s \in Sessions : at[s] = "done" =>
        recorded[s] # None /\ logged[s] # None
  BY DEF IInv, SessionInv, CallInv, RecordInv
<1>3. ASSUME progress, main = "running", \A s \in Sessions : Ended(s)
      PROVE  runDone = Cardinality({s \in Sessions : at[s] = "done"} \cup Reused)
  <2> DEFINE done == {s \in Sessions : at[s] = "done"}
  <2>1. Counted = done
    BY <1>3 DEF Counted, Ended, IInv, SessionInv, CallInv
  <2>2. IsFiniteSet(done) /\ done \cap Reused = {}
    BY Constants, ObserversAssumption, FS_Subset
  <2>3. Cardinality(done \cup Reused)
          = Cardinality(done) + Cardinality(Reused) - Cardinality(done \cap Reused)
    BY <2>2, Constants, FS_Union
  <2>4. Cardinality(done \cap Reused) = 0 /\ Cardinality(done) \in Nat
    BY <2>2, FS_EmptySet, FS_CardinalityType
  <2> HIDE DEF done
  <2>5. runDone = Cardinality(Reused) + Cardinality(done)
    BY <1>3, <2>1 DEF IInv, CountInv
  <2>6. runDone = Cardinality(done \cup Reused)
    BY <2>3, <2>4, <2>5, Constants
  <2> QED
    BY <2>6 DEF done
<1>4. ASSUME NEW s \in Sessions, at[s] = "escaped", recorded[s] = None
      PROVE  final # "none" /\ ~progress
  <2>1. ~progress
    BY <1>4 DEF IInv, SessionInv, RecordInv, EscapeInv
  <2> QED
    BY <2>1 DEF IInv, MainInv
<1> QED
  BY <1>1, <1>2, <1>3, <1>4 DEF EndsTold

\* The types of the observers' state and of the sessions' threads hold, for
\* every set of sessions and every limit.
THEOREM TypeCorrect == Spec => []TypeOK
<1>1. IInv => TypeOK
  BY DEF IInv
<1> QED
  BY <1>1, InitInv, StepInv, PTL DEF Spec

\* The results, tracker.log and the console agree on how every session ended,
\* but for the error a benchmark puts into a score, and none misses its end
\* while the run goes on (the loops over Tracker._observers,
\* observers/handlers/results.py, file_logger.py and logger.py).
THEOREM ObserversAgree == Spec => []EndsAgree
BY InitInv, StepInv, InvEnds, PTL DEF Spec

-----------------------------------------------------------------------------
(***************************************************************************)
(* The dashboard.  ViewsAgree speaks of a page with nothing under way; it  *)
(* rests on what is said of each session at any time: what the page shows, *)
(* and the events still in the queue or pending, make up what happened     *)
(* (View).  For that the events of a session must be in order and complete *)
(* (Ordered, Coming), although they take two ways into the queue.          *)
(***************************************************************************)

\* The events that are collected, and all events.
Later  == {"step", "observation", "benchmark_recorded"}
Events ==
    [type : {"session_started", "step", "observation", "session_finished"},
     sid : SessionIds, n : 0..MaxReactions]
    \cup [type : {"run_meta", "benchmark_recorded", "saved"}, sid : {NoSession}, n : {0}]
Collected == {e \in Events : e.type \in Later}

StartOf(e, s) == e.type = "session_started" /\ e.sid = s
StepOf(e, s)  == e.type = "step" /\ e.sid = s
EndOf(e, s)   == e.type = "session_finished" /\ e.sid = s
About(e, s)   == StartOf(e, s) \/ StepOf(e, s) \/ EndOf(e, s)

\* Nothing in st is about s.
Silent(st, s) == \A k \in DOMAIN st : ~About(st[k], s)

Early == {"waiting", "setup"}
Late  == {"ending", "ended"}

\* The events under way of run r, in the order in which the page takes them.
Stream(r) == queue[r] \o pending[r]

QueuesInv == queue \in [Runs -> Seq(Events)] /\ pending \in [Runs -> Seq(Collected)]

\* A run that was not started has done nothing; a record is of a session that
\* has ended.
RunFacts(r) ==
    /\ phase[r] \in {"off", "worker"} =>
           /\ \A s \in SessionIds : place[r][s] = "waiting"
           /\ queue[r] = <<>> /\ pending[r] = <<>> /\ records[r] = {}
    /\ r > tracker => phase[r] = "off"
    /\ report[r] \subseteq records[r]
    /\ \A s \in records[r] : place[r][s] = "ended"

RunInv == \A r \in Runs : RunFacts(r)

\* What a session has told about its end is so.
EndInv(r, s) ==
    /\ place[r][s] \in Early => sessionSteps[r][s] = 0
    /\ place[r][s] \in Late => outcome[r][s] \in Scores \cup Failed
    /\ \A k \in DOMAIN queue[r] :
           EndOf(queue[r][k], s) => place[r][s] = "ended" /\ queue[r][k].n = sessionSteps[r][s]

\* Of what is told about s the start comes first, the end last, and each once;
\* the steps are in order and not beyond the n-th.
Ordered(st, s, n) ==
    \A i, j \in DOMAIN st :
        /\ StartOf(st[i], s) /\ About(st[j], s) => i <= j
        /\ EndOf(st[j], s) /\ About(st[i], s) => i <= j
        /\ StepOf(st[i], s) => st[i].n \in 1..n
        /\ StepOf(st[i], s) /\ StepOf(st[j], s) /\ i < j => st[i].n < st[j].n

StreamInv(r, s) == ~dropped[r] =>
    /\ Ordered(Stream(r), s, sessionSteps[r][s])
    /\ place[r][s] \in Early => Silent(Stream(r), s)
    /\ place[r][s] \in Late => Silent(pending[r], s)

\* From step m + 1 to n, every step is in the stream.
Coming(st, s, m, n) == \A x \in (m + 1)..n : \E k \in DOMAIN st : StepOf(st[k], s) /\ st[k].n = x
EndTold(st, s, p) == p = "ended" => \E k \in DOMAIN st : EndOf(st[k], s)
Started(st, s) == \E k \in DOMAIN st : StartOf(st[k], s)

\* The page does not show s yet, shows it as running, shows it as over: what
\* it shows, with what is still under way, makes up what has happened.
Unseen(st, s, p, n) ==
    \/ Started(st, s) /\ Coming(st, s, 0, n) /\ EndTold(st, s, p)
    \/ ~Started(st, s) /\ n = 0 /\ p \in Early \cup Late \cup {"lost"}

Seen(st, s, p, n, v) ==
    /\ ~Started(st, s) /\ v <= n /\ p \notin Early
    /\ Coming(st, s, v, n) /\ EndTold(st, s, p)
    /\ \A k \in DOMAIN st : StepOf(st[k], s) => st[k].n > v

Past(st, s, p, n, v) == p = "ended" /\ v = n /\ Silent(st, s)

View(st, s, p, n, v) ==
    /\ v.status = "absent" => Unseen(st, s, p, n)
    /\ v.status = "running" => Seen(st, s, p, n, v.steps)
    /\ v.status \notin {"absent", "running"} => Past(st, s, p, n, v.steps)

ShownInv(r, s) ==
    /\ shown[s].status = "absent" => shown[s] = NotShown
    /\ shown[s].status \notin {"absent", "running"} =>
           place[r][s] = "ended" /\ shown[s].status = LiveStatus(outcome[r][s])
    /\ ~dropped[r] => View(Stream(r), s, place[r][s], sessionSteps[r][s], shown[s])

SessionStory(r, s) == EndInv(r, s) /\ StreamInv(r, s) /\ (tracker = r => ShownInv(r, s))

DashboardInv ==
    /\ DashboardTypeOK /\ QueuesInv /\ RunInv
    /\ \A r \in Runs, s \in SessionIds : SessionStory(r, s)

-----------------------------------------------------------------------------
\* The bounds are positive numbers.
LEMMA BoundsOK ==
  /\ Capacity \in Nat \ {0} /\ Batch \in Nat \ {0} /\ Burst \in Nat \ {0}
  /\ MaxReactions \in Nat /\ Len(Planned) \in Nat /\ Runs \subseteq Nat \ {0}
  /\ NoRun \notin Runs /\ Workers \in Nat \ {0}
BY DashboardAssumption DEF Runs, NoRun

\* What the bound leaves of a queue: its newest events, all if there is room.
LEMMA NewestOK ==
  ASSUME NEW q \in Seq(Events)
  PROVE  /\ Newest(q) \in Seq(Events) /\ Len(Newest(q)) <= Capacity
         /\ Len(Newest(q)) <= Len(q)
         /\ Len(q) <= Capacity => Newest(q) = q
         /\ Len(q) >= Capacity => Len(Newest(q)) = Capacity
         /\ \A k \in DOMAIN Newest(q) : \E j \in DOMAIN q : Newest(q)[k] = q[j]
<1>1. CASE Len(q) <= Capacity
  BY <1>1, BoundsOK DEF Newest
<1>2. CASE Len(q) > Capacity
  <2>1. Newest(q) = SubSeq(q, Len(q) - Capacity + 1, Len(q))
    BY <1>2 DEF Newest
  <2>2. /\ Len(q) - Capacity + 1 \in 1..Len(q) /\ Len(q) \in Nat
        /\ Len(Newest(q)) = Capacity /\ Newest(q) \in Seq(Events)
        /\ \A k \in 1..Capacity : Newest(q)[k] = q[Len(q) - Capacity + k]
    BY <1>2, <2>1, BoundsOK, SubSeqProperties
  <2>3. \A k \in 1..Capacity : Len(q) - Capacity + k \in DOMAIN q
    BY <1>2, <2>2, BoundsOK
  <2>4. DOMAIN Newest(q) = 1..Capacity
    BY <2>2
  <2>5. \A k \in DOMAIN Newest(q) : \E j \in DOMAIN q : Newest(q)[k] = q[j]
    BY <2>2, <2>3, <2>4
  <2>6. QED
    BY <1>2, <2>2, <2>5, BoundsOK
<1>3. QED
  BY <1>1, <1>2, BoundsOK

\* su is st with e put in at x.
PutAt(st, su, x, e) ==
  /\ Len(su) = Len(st) + 1 /\ x \in 1..Len(su) /\ su[x] = e
  /\ \A k \in DOMAIN su : /\ k < x => su[k] = st[k]
                          /\ k > x => su[k] = st[k - 1]

\* Where an event of su was in st.
Was(x, k) == IF k < x THEN k ELSE k - 1

\* What an insertion leaves in place, and in order.
LEMMA PutAtOK ==
  ASSUME NEW st \in Seq(Events), NEW su \in Seq(Events), NEW x, NEW e, PutAt(st, su, x, e)
  PROVE  /\ \A k \in DOMAIN su : k # x => Was(x, k) \in DOMAIN st /\ su[k] = st[Was(x, k)]
         /\ \A k \in DOMAIN st : \E j \in DOMAIN su : j # x /\ su[j] = st[k]
         /\ \A k, j \in DOMAIN su : k # x /\ j # x =>
                /\ Was(x, k) <= Was(x, j) => k <= j
                /\ k < j => Was(x, k) < Was(x, j)
<1>1. /\ DOMAIN st = 1..Len(st) /\ DOMAIN su = 1..Len(su) /\ Len(st) \in Nat
      /\ Len(su) = Len(st) + 1 /\ x \in 1..Len(su)
  BY DEF PutAt
<1>2. \A k \in DOMAIN su : k # x => Was(x, k) \in DOMAIN st /\ su[k] = st[Was(x, k)]
  BY <1>1 DEF PutAt, Was
<1>3. ASSUME NEW k \in DOMAIN st
      PROVE  \E j \in DOMAIN su : j # x /\ su[j] = st[k]
  <2>1. CASE k < x
    BY <1>1, <2>1 DEF PutAt
  <2>2. CASE k >= x
    <3>1. k + 1 \in DOMAIN su /\ k + 1 # x /\ k + 1 > x /\ (k + 1) - 1 = k
      BY <1>1, <2>2
    <3>2. su[k + 1] = st[k]
      BY <1>1, <3>1 DEF PutAt
    <3>3. QED
      BY <3>1, <3>2
  <2>3. QED
    BY <1>1, <2>1, <2>2
<1>4. \A k, j \in DOMAIN su : k # x /\ j # x =>
          /\ Was(x, k) <= Was(x, j) => k <= j
          /\ k < j => Was(x, k) < Was(x, j)
  BY <1>1 DEF Was
<1>5. QED
  BY <1>2, <1>3, <1>4

\* An event that is not about s changes nothing that is said of s.
LEMMA ForeignEvent ==
  ASSUME NEW st \in Seq(Events), NEW su \in Seq(Events), NEW x, NEW e, PutAt(st, su, x, e),
         NEW s, ~About(e, s), NEW p, NEW n, NEW v
  PROVE  /\ Ordered(st, s, n) => Ordered(su, s, n)
         /\ Silent(st, s) => Silent(su, s)
         /\ View(st, s, p, n, v) => View(su, s, p, n, v)
<1>1. /\ \A k \in DOMAIN su : k # x => Was(x, k) \in DOMAIN st /\ su[k] = st[Was(x, k)]
      /\ \A k \in DOMAIN st : \E j \in DOMAIN su : j # x /\ su[j] = st[k]
      /\ \A k, j \in DOMAIN su : k # x /\ j # x =>
             /\ Was(x, k) <= Was(x, j) => k <= j
             /\ k < j => Was(x, k) < Was(x, j)
  BY PutAtOK
<1>2. su[x] = e /\ \A k \in DOMAIN su : About(su[k], s) => k # x
  BY DEF PutAt
<1>3. Ordered(st, s, n) => Ordered(su, s, n)
  <2>1. SUFFICES ASSUME Ordered(st, s, n), NEW i \in DOMAIN su, NEW j \in DOMAIN su
                 PROVE  /\ StartOf(su[i], s) /\ About(su[j], s) => i <= j
                        /\ EndOf(su[j], s) /\ About(su[i], s) => i <= j
                        /\ StepOf(su[i], s) => su[i].n \in 1..n
                        /\ StepOf(su[i], s) /\ StepOf(su[j], s) /\ i < j => su[i].n < su[j].n
    BY DEF Ordered
  <2>2. (StartOf(su[i], s) \/ StepOf(su[i], s) \/ EndOf(su[i], s)) => i # x
    BY <1>2 DEF About
  <2>3. (StartOf(su[j], s) \/ StepOf(su[j], s) \/ EndOf(su[j], s)) => j # x
    BY <1>2 DEF About
  <2>4. i # x => Was(x, i) \in DOMAIN st /\ su[i] = st[Was(x, i)]
    BY <1>1
  <2>5. j # x => Was(x, j) \in DOMAIN st /\ su[j] = st[Was(x, j)]
    BY <1>1
  <2>6. i # x /\ j # x => /\ Was(x, i) <= Was(x, j) => i <= j
                          /\ i < j => Was(x, i) < Was(x, j)
    BY <1>1
  <2>7. QED
    BY <2>1, <2>2, <2>3, <2>4, <2>5, <2>6 DEF Ordered, About
<1>4. Silent(st, s) => Silent(su, s)
  BY <1>1, <1>2 DEF Silent
<1>5. Started(su, s) = Started(st, s)
  BY <1>1, <1>2 DEF Started, About
<1>6. \A m : Coming(st, s, m, n) => Coming(su, s, m, n)
  BY <1>1 DEF Coming
<1>7. EndTold(st, s, p) => EndTold(su, s, p)
  BY <1>1 DEF EndTold
<1>8. \A m : (\A k \in DOMAIN st : StepOf(st[k], s) => st[k].n > m)
               => \A k \in DOMAIN su : StepOf(su[k], s) => su[k].n > m
  BY <1>1, <1>2 DEF About
<1>9. View(st, s, p, n, v) => View(su, s, p, n, v)
  <2>1. Unseen(st, s, p, n) => Unseen(su, s, p, n)
    BY <1>5, <1>6, <1>7 DEF Unseen
  <2>2. Seen(st, s, p, n, v.steps) => Seen(su, s, p, n, v.steps)
    BY <1>5, <1>6, <1>7, <1>8 DEF Seen
  <2>3. Past(st, s, p, n, v.steps) => Past(su, s, p, n, v.steps)
    BY <1>4 DEF Past
  <2>4. QED
    BY <2>1, <2>2, <2>3 DEF View
<1>10. QED
  BY <1>3, <1>4, <1>9

\* A session that goes on, without an event of its own.
Calm(p, q) ==
  /\ p \in Early \cup Late \cup {"lost"} => q \in Early \cup Late \cup {"lost"}
  /\ q \in Early => p \in Early
  /\ q = "ended" => p = "ended"
  /\ p = "ended" => q = "ended"

\* While s goes on so, what the page shows of it stays as right as it was.
LEMMA CalmView ==
  ASSUME NEW st, NEW s, NEW p, NEW q, NEW n, NEW v, Calm(p, q), View(st, s, p, n, v)
  PROVE  View(st, s, q, n, v)
<1>1. EndTold(st, s, p) => EndTold(st, s, q)
  BY DEF EndTold, Calm
<1>2. QED
  BY <1>1 DEF View, Unseen, Seen, Past, Calm

\* The start of s: nothing was told about it.
LEMMA StartEvent ==
  ASSUME NEW st \in Seq(Events), NEW su \in Seq(Events), NEW x, NEW e, PutAt(st, su, x, e),
         NEW s, StartOf(e, s), Silent(st, s), NEW v
  PROVE  Ordered(su, s, 0) /\ (View(st, s, "setup", 0, v) => View(su, s, "running", 0, v))
<1>1. \A k \in DOMAIN su : k # x => Was(x, k) \in DOMAIN st /\ su[k] = st[Was(x, k)]
  BY PutAtOK
<1>2. su[x] = e /\ x \in DOMAIN su
  BY DEF PutAt
<1>3. \A k \in DOMAIN su : About(su[k], s) => k = x
  BY <1>1 DEF Silent
<1>4. \A k \in DOMAIN su : ~StepOf(su[k], s) /\ ~EndOf(su[k], s)
  BY <1>2, <1>3 DEF About, StartOf, StepOf, EndOf
<1>5. x \in Nat
  BY <1>2
<1>6. Ordered(su, s, 0)
  BY <1>3, <1>4, <1>5 DEF Ordered, About
<1>7. View(st, s, "setup", 0, v) => v.status = "absent"
  BY DEF View, Seen, Past, Early
<1>8. Unseen(su, s, "running", 0)
  BY <1>2 DEF Unseen, Started, Coming, EndTold
<1>9. QED
  BY <1>6, <1>7, <1>8 DEF View

\* The next step of s comes after all that was told about s, its end is not.
LEMMA StepEvent ==
  ASSUME NEW st \in Seq(Events), NEW su \in Seq(Events), NEW e, PutAt(st, su, Len(su), e),
         NEW s, NEW n \in Nat, StepOf(e, s), e.n = n + 1, Ordered(st, s, n),
         \A k \in DOMAIN st : ~EndOf(st[k], s),
         NEW q \in {"acted", "stopping"}
  PROVE  /\ Ordered(su, s, n + 1)
         /\ \A v : v.steps \in Nat /\ View(st, s, "running", n, v) => View(su, s, q, n + 1, v)
<1> DEFINE x == Len(su)
<1>1. /\ \A k \in DOMAIN su : k # x => Was(x, k) \in DOMAIN st /\ su[k] = st[Was(x, k)]
      /\ \A k \in DOMAIN st : \E j \in DOMAIN su : j # x /\ su[j] = st[k]
      /\ \A k, j \in DOMAIN su : k # x /\ j # x =>
             /\ Was(x, k) <= Was(x, j) => k <= j
             /\ k < j => Was(x, k) < Was(x, j)
  BY PutAtOK
<1>2. /\ su[x] = e /\ x \in DOMAIN su /\ x \in Nat
      /\ \A k \in DOMAIN su : k <= x /\ k \in Nat
  BY DEF PutAt
<1>3. ~StartOf(e, s) /\ ~EndOf(e, s)
  BY DEF StartOf, StepOf, EndOf
<1>4. \A k \in DOMAIN st : StepOf(st[k], s) => st[k].n \in 1..n
  BY DEF Ordered
<1>5. Ordered(su, s, n + 1)
  <2>1. SUFFICES ASSUME NEW i \in DOMAIN su, NEW j \in DOMAIN su
                 PROVE  /\ StartOf(su[i], s) /\ About(su[j], s) => i <= j
                        /\ EndOf(su[j], s) /\ About(su[i], s) => i <= j
                        /\ StepOf(su[i], s) => su[i].n \in 1..(n + 1)
                        /\ StepOf(su[i], s) /\ StepOf(su[j], s) /\ i < j => su[i].n < su[j].n
    BY DEF Ordered
  <2>2. ~EndOf(su[j], s) /\ ~EndOf(su[i], s)
    BY <1>1, <1>2, <1>3
  <2>3. i # x => Was(x, i) \in DOMAIN st /\ su[i] = st[Was(x, i)]
    BY <1>1
  <2>4. j # x => Was(x, j) \in DOMAIN st /\ su[j] = st[Was(x, j)]
    BY <1>1
  <2>5. i # x /\ j # x => /\ Was(x, i) <= Was(x, j) => i <= j
                          /\ i < j => Was(x, i) < Was(x, j)
    BY <1>1
  <2>6. StartOf(su[i], s) /\ About(su[j], s) => i <= j
    BY <1>2, <1>3, <2>3, <2>4, <2>5 DEF Ordered
  <2>7. StepOf(su[i], s) => su[i].n \in 1..(n + 1)
    BY <1>2, <1>4, <2>3
  <2>8. StepOf(su[i], s) /\ StepOf(su[j], s) /\ i < j => su[i].n < su[j].n
    <3>1. SUFFICES ASSUME StepOf(su[i], s), StepOf(su[j], s), i < j
                   PROVE  su[i].n < su[j].n
      OBVIOUS
    <3>2. i # x
      BY <1>2, <3>1
    <3>3. CASE j = x
      BY <1>2, <1>4, <2>3, <3>1, <3>2, <3>3
    <3>4. CASE j # x
      BY <2>3, <2>4, <2>5, <3>1, <3>2, <3>4 DEF Ordered
    <3>5. QED
      BY <3>3, <3>4
  <2>9. QED
    BY <2>2, <2>6, <2>7, <2>8
<1>6. Started(su, s) = Started(st, s)
  BY <1>1, <1>2, <1>3 DEF Started
<1>7. ASSUME NEW m \in Nat, Coming(st, s, m, n)
      PROVE  Coming(su, s, m, n + 1)
  <2>1. SUFFICES ASSUME NEW y \in (m + 1)..(n + 1)
                 PROVE  \E k \in DOMAIN su : StepOf(su[k], s) /\ su[k].n = y
    BY DEF Coming
  <2>2. CASE y = n + 1
    BY <1>2, <2>2
  <2>3. CASE y # n + 1
    <3>1. y \in (m + 1)..n
      BY <2>3
    <3>2. PICK k \in DOMAIN st : StepOf(st[k], s) /\ st[k].n = y
      BY <1>7, <3>1 DEF Coming
    <3>3. QED
      BY <1>1, <3>2
  <2>4. QED
    BY <2>2, <2>3
<1>8. ~Unseen(st, s, "running", n) \/ Unseen(su, s, q, n + 1)
  BY <1>6, <1>7 DEF Unseen, EndTold, Early, Late
<1>9. ASSUME NEW v, v.steps \in Nat, Seen(st, s, "running", n, v.steps)
      PROVE  Seen(su, s, q, n + 1, v.steps)
  <2>1. v.steps <= n + 1 /\ ~Started(su, s) /\ q \notin Early /\ EndTold(su, s, q)
    BY <1>6, <1>9 DEF Seen, Early, EndTold
  <2>2. Coming(su, s, v.steps, n + 1)
    BY <1>7, <1>9 DEF Seen
  <2>3. \A k \in DOMAIN su : StepOf(su[k], s) => su[k].n > v.steps
    <3>1. SUFFICES ASSUME NEW k \in DOMAIN su, StepOf(su[k], s)
                   PROVE  su[k].n > v.steps
      OBVIOUS
    <3>2. CASE k = x
      BY <1>2, <1>9, <3>2 DEF Seen
    <3>3. CASE k # x
      BY <1>1, <1>9, <3>1, <3>3 DEF Seen
    <3>4. QED
      BY <3>2, <3>3
  <2>4. QED
    BY <2>1, <2>2, <2>3 DEF Seen
<1>10. \A v : ~Past(st, s, "running", n, v.steps)
  BY DEF Past
<1>11. QED
  BY <1>5, <1>8, <1>9, <1>10 DEF View

\* The end of s comes after all that was told about s.
LEMMA EndEvent ==
  ASSUME NEW st \in Seq(Events), NEW su \in Seq(Events), NEW x, NEW e, PutAt(st, su, x, e),
         NEW s, NEW n \in Nat, EndOf(e, s), Ordered(st, s, n),
         \A k \in DOMAIN st : ~EndOf(st[k], s) /\ (About(st[k], s) => k < x),
         NEW v
  PROVE  Ordered(su, s, n) /\ (View(st, s, "ending", n, v) => View(su, s, "ended", n, v))
<1>1. /\ \A k \in DOMAIN su : k # x => Was(x, k) \in DOMAIN st /\ su[k] = st[Was(x, k)]
      /\ \A k \in DOMAIN st : \E j \in DOMAIN su : j # x /\ su[j] = st[k]
      /\ \A k, j \in DOMAIN su : k # x /\ j # x =>
             /\ Was(x, k) <= Was(x, j) => k <= j
             /\ k < j => Was(x, k) < Was(x, j)
  BY PutAtOK
<1>2. /\ su[x] = e /\ x \in DOMAIN su /\ x \in Nat
      /\ \A k \in DOMAIN su : k \in Nat
  BY DEF PutAt
<1>3. ~StartOf(e, s) /\ ~StepOf(e, s)
  BY DEF StartOf, StepOf, EndOf
<1>4. ASSUME NEW k \in DOMAIN su, About(su[k], s)
      PROVE  k <= x
  <2>1. CASE k # x
    <3>1. Was(x, k) \in DOMAIN st /\ About(st[Was(x, k)], s)
      BY <1>1, <1>4, <2>1
    <3>2. Was(x, k) < x
      BY <3>1
    <3>3. QED
      BY <1>2, <3>2 DEF Was
  <2>2. QED
    BY <1>2, <2>1
<1>5. Ordered(su, s, n)
  <2>1. SUFFICES ASSUME NEW i \in DOMAIN su, NEW j \in DOMAIN su
                 PROVE  /\ StartOf(su[i], s) /\ About(su[j], s) => i <= j
                        /\ EndOf(su[j], s) /\ About(su[i], s) => i <= j
                        /\ StepOf(su[i], s) => su[i].n \in 1..n
                        /\ StepOf(su[i], s) /\ StepOf(su[j], s) /\ i < j => su[i].n < su[j].n
    BY DEF Ordered
  <2>2. i # x => Was(x, i) \in DOMAIN st /\ su[i] = st[Was(x, i)]
    BY <1>1
  <2>3. j # x => Was(x, j) \in DOMAIN st /\ su[j] = st[Was(x, j)]
    BY <1>1
  <2>4. i # x /\ j # x => /\ Was(x, i) <= Was(x, j) => i <= j
                          /\ i < j => Was(x, i) < Was(x, j)
    BY <1>1
  <2>5. StartOf(su[i], s) /\ About(su[j], s) => i <= j
    <3>1. SUFFICES ASSUME StartOf(su[i], s), About(su[j], s)
                   PROVE  i <= j
      OBVIOUS
    <3>2. i # x
      BY <1>2, <1>3, <3>1
    <3>3. CASE j = x
      BY <1>4, <3>1, <3>3 DEF About
    <3>4. CASE j # x
      BY <2>2, <2>3, <2>4, <3>1, <3>2, <3>4 DEF Ordered
    <3>5. QED
      BY <3>3, <3>4
  <2>6. EndOf(su[j], s) /\ About(su[i], s) => i <= j
    BY <1>2, <1>4, <2>3
  <2>7. StepOf(su[i], s) => su[i].n \in 1..n
    BY <1>2, <1>3, <2>2 DEF Ordered
  <2>8. StepOf(su[i], s) /\ StepOf(su[j], s) /\ i < j => su[i].n < su[j].n
    BY <1>2, <1>3, <2>2, <2>3, <2>4 DEF Ordered
  <2>9. QED
    BY <2>5, <2>6, <2>7, <2>8
<1>6. Started(su, s) = Started(st, s)
  BY <1>1, <1>2, <1>3 DEF Started
<1>7. \A m : Coming(st, s, m, n) => Coming(su, s, m, n)
  BY <1>1 DEF Coming
<1>8. EndTold(su, s, "ended")
  BY <1>2 DEF EndTold
<1>9. \A m : (\A k \in DOMAIN st : StepOf(st[k], s) => st[k].n > m)
               => \A k \in DOMAIN su : StepOf(su[k], s) => su[k].n > m
  BY <1>1, <1>2, <1>3
<1>10. Unseen(st, s, "ending", n) => Unseen(su, s, "ended", n)
  BY <1>6, <1>7, <1>8 DEF Unseen, Late
<1>11. Seen(st, s, "ending", n, v.steps) => Seen(su, s, "ended", n, v.steps)
  BY <1>6, <1>7, <1>8, <1>9 DEF Seen, Early
<1>12. ~Past(st, s, "ending", n, v.steps)
  BY DEF Past
<1>13. QED
  BY <1>5, <1>10, <1>11, <1>12 DEF View

\* What the page may show of a session.
Displays == [status : ShownStatuses \cup {"absent"}, steps : Nat]

\* The page takes the first event: what it shows of s, and what is left.
Shown(h, s, v, o) ==
  CASE StartOf(h, s) -> [status |-> "running", steps |-> 0]
    [] StepOf(h, s) /\ v # NotShown -> [v EXCEPT !.steps = @ + 1]
    [] EndOf(h, s) /\ v # NotShown -> [status |-> LiveStatus(o), steps |-> h.n]
    [] OTHER -> v

\* What is left of a sequence when its first element is taken.
LEMMA TailOK ==
  ASSUME NEW st \in Seq(Events), st # <<>>
  PROVE  /\ Tail(st) \in Seq(Events) /\ Len(Tail(st)) = Len(st) - 1
         /\ Len(st) \in Nat \ {0} /\ Head(st) = st[1]
         /\ \A k \in DOMAIN Tail(st) : k \in Nat /\ k + 1 \in DOMAIN st /\ Tail(st)[k] = st[k + 1]
         /\ \A k \in DOMAIN st : k # 1 =>
                k \in Nat /\ k - 1 \in DOMAIN Tail(st) /\ Tail(st)[k - 1] = st[k]
<1>1. Len(st) \in Nat /\ Len(st) # 0
  BY EmptySeq
<1>2. Tail(st) \in Seq(Events) /\ Len(Tail(st)) = Len(st) - 1
  BY <1>1, HeadTailProperties
<1>3. \A k \in 1..(Len(st) - 1) : Tail(st)[k] = st[k + 1]
  BY <1>1, HeadTailProperties
<1>4. DOMAIN st = 1..Len(st) /\ DOMAIN Tail(st) = 1..(Len(st) - 1)
  BY <1>1, <1>2
<1>5. ASSUME NEW k \in DOMAIN st, k # 1
      PROVE  k \in Nat /\ k - 1 \in DOMAIN Tail(st) /\ Tail(st)[k - 1] = st[k]
  <2>1. k - 1 \in 1..(Len(st) - 1) /\ (k - 1) + 1 = k /\ k \in Nat
    BY <1>1, <1>4, <1>5
  <2>2. QED
    BY <1>3, <1>4, <2>1
<1>6. QED
  BY <1>1, <1>2, <1>3, <1>4, <1>5

\* What the page takes first comes from the queue, as long as it has any.
LEMMA TailConcat ==
  ASSUME NEW q \in Seq(Events), NEW w \in Seq(Events), q # <<>>
  PROVE  q \o w # <<>> /\ (q \o w)[1] = Head(q) /\ Tail(q \o w) = Tail(q) \o w
<1> DEFINE st == q \o w
<1>1. /\ st \in Seq(Events) /\ Len(st) = Len(q) + Len(w) /\ Len(w) \in Nat
      /\ \A k \in 1..(Len(q) + Len(w)) : st[k] = IF k <= Len(q) THEN q[k] ELSE w[k - Len(q)]
  BY ConcatProperties
<1>2. /\ Len(q) \in Nat \ {0} /\ Head(q) = q[1] /\ Tail(q) \in Seq(Events)
      /\ Len(Tail(q)) = Len(q) - 1
      /\ \A k \in 1..(Len(q) - 1) : Tail(q)[k] = q[k + 1]
  BY TailOK
<1>3. Len(st) # 0 /\ st # <<>>
  BY <1>1, <1>2
<1> HIDE DEF st
<1>4. /\ Tail(st) \in Seq(Events) /\ Len(Tail(st)) = Len(st) - 1
      /\ \A k \in 1..(Len(st) - 1) : Tail(st)[k] = st[k + 1]
  BY <1>1, <1>3, TailOK
<1>5. /\ Tail(q) \o w \in Seq(Events) /\ Len(Tail(q) \o w) = Len(q) - 1 + Len(w)
      /\ \A k \in 1..(Len(q) - 1 + Len(w)) :
             (Tail(q) \o w)[k] = IF k <= Len(q) - 1 THEN Tail(q)[k] ELSE w[k - (Len(q) - 1)]
  BY <1>2, ConcatProperties
<1>6. ASSUME NEW k \in 1..Len(Tail(st))
      PROVE  Tail(st)[k] = (Tail(q) \o w)[k]
  <2>1. /\ k \in 1..(Len(st) - 1) /\ k + 1 \in 1..(Len(q) + Len(w))
        /\ k \in 1..(Len(q) - 1 + Len(w)) /\ (k + 1) - Len(q) = k - (Len(q) - 1)
    BY <1>1, <1>2, <1>4
  <2>2. Tail(st)[k] = IF k + 1 <= Len(q) THEN q[k + 1] ELSE w[k - (Len(q) - 1)]
    BY <1>1, <1>4, <2>1
  <2>3. CASE k <= Len(q) - 1
    <3>1. k \in 1..(Len(q) - 1) /\ k + 1 <= Len(q)
      BY <1>2, <2>1, <2>3
    <3>2. QED
      BY <1>2, <1>5, <2>1, <2>2, <2>3, <3>1
  <2>4. CASE ~(k <= Len(q) - 1)
    <3>1. ~(k + 1 <= Len(q))
      BY <1>2, <2>1, <2>4
    <3>2. QED
      BY <1>5, <2>1, <2>2, <2>4, <3>1
  <2>5. QED
    BY <2>3, <2>4
<1>7. Len(Tail(st)) = Len(Tail(q) \o w)
  BY <1>1, <1>2, <1>4, <1>5
<1>8. Tail(st) = Tail(q) \o w
  BY <1>4, <1>5, <1>6, <1>7, SeqEqual
<1>9. st[1] = Head(q)
  <2>1. 1 \in 1..(Len(q) + Len(w)) /\ 1 <= Len(q)
    BY <1>1, <1>2
  <2>2. QED
    BY <1>1, <1>2, <2>1
<1>10. QED
  BY <1>3, <1>8, <1>9 DEF st

\* With the first event of the stream taken, what is left is in order, and what
\* the page now shows of s fits it: a step taken is always the next one to show.
LEMMA TakenView ==
  ASSUME NEW st \in Seq(Events), st # <<>>, NEW s, NEW n \in Nat, Ordered(st, s, n),
         NEW p, p \in Early => Silent(st, s),
         NEW v, View(st, s, p, n, v), v.status = "absent" => v = NotShown, v.steps \in Nat,
         v \in Displays,
         NEW o,
         EndOf(st[1], s) =>
             st[1].n = n /\ p = "ended" /\ LiveStatus(o) \notin {"absent", "running"}
  PROVE  Ordered(Tail(st), s, n) /\ View(Tail(st), s, p, n, Shown(st[1], s, v, o))
<1> DEFINE su == Tail(st)
<1> DEFINE h == st[1]
<1>1. /\ \A k \in DOMAIN su : k \in Nat /\ k + 1 \in DOMAIN st /\ su[k] = st[k + 1]
      /\ \A k \in DOMAIN st : k # 1 => k \in Nat /\ k - 1 \in DOMAIN su /\ su[k - 1] = st[k]
      /\ 1 \in DOMAIN st
  BY TailOK
<1>2. Ordered(su, s, n)
  <2>1. SUFFICES ASSUME NEW i \in DOMAIN su, NEW j \in DOMAIN su
                 PROVE  /\ StartOf(su[i], s) /\ About(su[j], s) => i <= j
                        /\ EndOf(su[j], s) /\ About(su[i], s) => i <= j
                        /\ StepOf(su[i], s) => su[i].n \in 1..n
                        /\ StepOf(su[i], s) /\ StepOf(su[j], s) /\ i < j => su[i].n < su[j].n
    BY DEF Ordered
  <2>2. /\ i \in Nat /\ i + 1 \in DOMAIN st /\ su[i] = st[i + 1]
        /\ j \in Nat /\ j + 1 \in DOMAIN st /\ su[j] = st[j + 1]
    BY <1>1
  <2>3. /\ i + 1 <= j + 1 => i <= j
        /\ i < j => i + 1 < j + 1
    BY <2>2
  <2>4. QED
    BY <2>2, <2>3 DEF Ordered
<1>3. \A k \in DOMAIN su : su[k] = st[k + 1] /\ k + 1 > 1 /\ k + 1 \in DOMAIN st
  BY <1>1
<1>4. /\ Started(st, s) => StartOf(h, s) \/ Started(su, s)
      /\ ~Started(st, s) => ~Started(su, s)
  BY <1>1 DEF Started
<1>5. ~EndOf(h, s) /\ EndTold(st, s, p) => EndTold(su, s, p)
  BY <1>1 DEF EndTold
<1>6. ASSUME ~StepOf(h, s), NEW m, Coming(st, s, m, n)
      PROVE  Coming(su, s, m, n)
  <2>1. SUFFICES ASSUME NEW y \in (m + 1)..n
                 PROVE  \E k \in DOMAIN su : StepOf(su[k], s) /\ su[k].n = y
    BY DEF Coming
  <2>2. PICK k \in DOMAIN st : StepOf(st[k], s) /\ st[k].n = y
    BY <1>6 DEF Coming
  <2>3. k # 1
    BY <1>6, <2>2
  <2>4. QED
    BY <1>1, <2>2, <2>3
<1>7. \A k \in DOMAIN st : StepOf(st[k], s) => st[k].n \in 1..n
  BY DEF Ordered
<1>8. \A k \in DOMAIN su : StepOf(su[k], s) => su[k].n \in 1..n
  BY <1>3, <1>7
<1>9. v.status \notin {"absent", "running"} => ~About(h, s)
  BY <1>1 DEF View, Past, Silent
<1>10. CASE ~About(h, s)
  <2>1. Shown(h, s, v, o) = v
    BY <1>10 DEF Shown, About
  <2>2. Unseen(st, s, p, n) => Unseen(su, s, p, n)
    BY <1>4, <1>5, <1>6, <1>10 DEF Unseen, About
  <2>3. Seen(st, s, p, n, v.steps) => Seen(su, s, p, n, v.steps)
    BY <1>3, <1>4, <1>5, <1>6, <1>10 DEF Seen, About
  <2>4. Past(st, s, p, n, v.steps) => Past(su, s, p, n, v.steps)
    BY <1>3 DEF Past, Silent
  <2>5. QED
    BY <1>2, <2>1, <2>2, <2>3, <2>4 DEF View
<1>11. CASE StartOf(h, s)
  <2>1. ~StepOf(h, s) /\ ~EndOf(h, s)
    BY <1>11 DEF StartOf, StepOf, EndOf
  <2>2. Shown(h, s, v, o) = [status |-> "running", steps |-> 0]
    BY <1>11, <2>1 DEF Shown
  <2>3. Unseen(st, s, p, n) /\ Started(st, s)
    BY <1>1, <1>9, <1>11 DEF View, Seen, Started, About
  <2>4. p \notin Early
    BY <1>1, <1>11 DEF Silent, About
  <2>5. ~Started(su, s)
    <3>1. SUFFICES ASSUME NEW k \in DOMAIN su, StartOf(su[k], s)
                   PROVE  FALSE
      BY DEF Started
    <3>2. k + 1 \in DOMAIN st /\ StartOf(st[k + 1], s) /\ k + 1 > 1
      BY <1>3, <3>1
    <3>3. k + 1 <= 1
      BY <1>1, <1>11, <3>2 DEF Ordered, About
    <3>4. QED
      BY <1>1, <3>2, <3>3
  <2>6. Coming(su, s, 0, n) /\ EndTold(su, s, p)
    BY <1>5, <1>6, <2>1, <2>3 DEF Unseen
  <2>7. \A k \in DOMAIN su : StepOf(su[k], s) => su[k].n > 0
    BY <1>8
  <2>8. Seen(su, s, p, n, 0)
    BY <2>4, <2>5, <2>6, <2>7 DEF Seen
  <2>9. QED
    BY <1>2, <2>2, <2>8 DEF View
<1>12. CASE StepOf(h, s)
  <2>1. ~StartOf(h, s) /\ ~EndOf(h, s)
    BY <1>12 DEF StartOf, StepOf, EndOf
  <2>2. ~Unseen(st, s, p, n)
    <3>1. ~Started(st, s)
      <4>1. SUFFICES ASSUME NEW k \in DOMAIN st, StartOf(st[k], s)
                     PROVE  FALSE
        BY DEF Started
      <4>2. k # 1 /\ k <= 1
        BY <1>1, <1>12, <2>1, <4>1 DEF Ordered, About
      <4>3. k \in Nat /\ k # 0
        BY <4>1, <4>2
      <4>4. QED
        BY <4>2, <4>3
    <3>2. h.n \in 1..n
      BY <1>1, <1>7, <1>12
    <3>3. n # 0
      BY <3>2
    <3>4. QED
      BY <3>1, <3>3 DEF Unseen
  <2>3. v.status = "running" /\ Seen(st, s, p, n, v.steps) /\ v # NotShown
    BY <1>9, <1>12, <2>2 DEF View, About, NotShown
  <2>4. Shown(h, s, v, o) = [v EXCEPT !.steps = @ + 1]
    BY <1>12, <2>1, <2>3 DEF Shown
  <2>5. Shown(h, s, v, o).status = "running" /\ Shown(h, s, v, o).steps = v.steps + 1
    BY <2>3, <2>4
  <2>6. h.n \in Nat /\ h.n <= n /\ h.n > v.steps
    BY <1>1, <1>7, <1>12, <2>3 DEF Seen
  <2>7. h.n = v.steps + 1
    <3>1. v.steps + 1 \in (v.steps + 1)..n
      BY <2>6
    <3>2. PICK k \in DOMAIN st : StepOf(st[k], s) /\ st[k].n = v.steps + 1
      BY <2>3, <3>1 DEF Seen, Coming
    <3>3. k # 1 => h.n < st[k].n
      BY <1>1, <1>12, <3>2 DEF Ordered
    <3>4. QED
      BY <2>6, <3>2, <3>3
  <2>8. Coming(su, s, v.steps + 1, n)
    <3>1. SUFFICES ASSUME NEW y \in (v.steps + 1 + 1)..n
                   PROVE  \E k \in DOMAIN su : StepOf(su[k], s) /\ su[k].n = y
      BY DEF Coming
    <3>2. y \in (v.steps + 1)..n /\ y # h.n
      BY <2>7, <3>1
    <3>3. PICK k \in DOMAIN st : StepOf(st[k], s) /\ st[k].n = y
      BY <2>3, <3>2 DEF Seen, Coming
    <3>4. QED
      BY <1>1, <3>2, <3>3
  <2>9. \A k \in DOMAIN su : StepOf(su[k], s) => su[k].n > v.steps + 1
    <3>1. SUFFICES ASSUME NEW k \in DOMAIN su, StepOf(su[k], s)
                   PROVE  su[k].n > v.steps + 1
      OBVIOUS
    <3>2. k + 1 \in DOMAIN st /\ k + 1 > 1 /\ su[k] = st[k + 1]
      BY <1>3
    <3>3. h.n < st[k + 1].n
      BY <1>1, <1>12, <3>1, <3>2 DEF Ordered
    <3>4. su[k].n \in Nat
      BY <1>8, <3>1
    <3>5. QED
      BY <2>7, <3>2, <3>3, <3>4
  <2>10. ~Started(su, s) /\ EndTold(su, s, p) /\ p \notin Early /\ v.steps + 1 <= n
    BY <1>4, <1>5, <2>1, <2>3, <2>6, <2>7 DEF Seen
  <2>11. Seen(su, s, p, n, v.steps + 1)
    BY <2>8, <2>9, <2>10 DEF Seen
  <2>12. QED
    BY <1>2, <2>5, <2>11 DEF View
<1>13. CASE EndOf(h, s)
  <2>1. ~StartOf(h, s) /\ ~StepOf(h, s)
    BY <1>13 DEF StartOf, StepOf, EndOf
  <2>2. Silent(su, s)
    <3>1. SUFFICES ASSUME NEW k \in DOMAIN su, About(su[k], s)
                   PROVE  FALSE
      BY DEF Silent
    <3>2. k + 1 \in DOMAIN st /\ About(st[k + 1], s) /\ k + 1 > 1
      BY <1>3, <3>1
    <3>3. k + 1 <= 1
      BY <1>1, <1>13, <3>2 DEF Ordered
    <3>4. QED
      BY <1>1, <3>2, <3>3
  <2>3. ~Started(su, s)
    BY <2>2 DEF Silent, Started, About
  <2>4. ~Started(st, s)
    BY <1>4, <2>1, <2>3
  <2>5. CASE v.status = "absent"
    <3>1. Shown(h, s, v, o) = v
      BY <2>1, <2>5 DEF Shown
    <3>2. Unseen(su, s, p, n)
      BY <2>3, <2>4, <2>5 DEF View, Unseen
    <3>3. QED
      BY <1>2, <2>5, <3>1, <3>2 DEF View
  <2>6. CASE v.status # "absent"
    <3>1. v # NotShown
      BY <2>6 DEF NotShown
    <3>2. Shown(h, s, v, o) = [status |-> LiveStatus(o), steps |-> h.n]
      BY <1>13, <2>1, <3>1 DEF Shown
    <3>3. Past(su, s, p, n, h.n)
      BY <1>13, <2>2 DEF Past
    <3>4. QED
      BY <1>2, <1>13, <3>2, <3>3 DEF View
  <2>7. QED
    BY <2>5, <2>6
<1>14. QED
  BY <1>10, <1>11, <1>12, <1>13 DEF About

-----------------------------------------------------------------------------
(* What the observer of run r sends, of the new events in new.              *)

Sends(r, new) ==
  /\ QueuesInv' /\ dropped' \in [Runs -> BOOLEAN]
  /\ Len(queue'[r]) <= Capacity /\ Len(pending'[r]) < Batch
  /\ dropped[r] => dropped'[r]
  /\ \A t \in Runs \ {r} :
         queue'[t] = queue[t] /\ pending'[t] = pending[t] /\ dropped'[t] = dropped[t]
  /\ \A k \in DOMAIN queue'[r] :
         \/ queue'[r][k].type \in Later \/ queue'[r][k] \in new
         \/ \E j \in DOMAIN queue[r] : queue'[r][k] = queue[r][j]

\* What is collected are events, none of them a start or an end.
LEMMA CollectedAreEvents ==
  ASSUME NEW q \in Seq(Collected)
  PROVE  /\ q \in Seq(Events) /\ \A k \in DOMAIN q : q[k].type \in Later
<1>1. Len(q) \in Nat /\ \A k \in 1..Len(q) : q[k] \in Collected
  BY ElementOfSeq
<1>2. \A e \in Collected : e \in Events /\ e.type \in Later
  BY DEF Collected, Events
<1>3. \A k \in 1..Len(q) : q[k] \in Events /\ q[k].type \in Later
  BY <1>1, <1>2
<1>4. q = [k \in 1..Len(q) |-> q[k]] /\ DOMAIN q = 1..Len(q)
  BY <1>1
<1>5. q \in [1..Len(q) -> Events]
  BY <1>3, <1>4
<1>6. q \in Seq(Events)
  BY <1>1, <1>5, SeqDef
<1>7. QED
  BY <1>3, <1>4, <1>6

\* What an overflow leaves of dropped: only run r's can change, to true.
LEMMA OverflowOK ==
  ASSUME DashboardTypeOK, NEW r \in Runs, NEW n \in Nat, Overflow(r, n), queue[r] \in Seq(Events)
  PROVE  /\ dropped' \in [Runs -> BOOLEAN] /\ (dropped[r] => dropped'[r])
         /\ \A t \in Runs \ {r} : dropped'[t] = dropped[t]
         /\ Len(queue[r]) + n > Capacity => dropped'[r]
BY DEF DashboardTypeOK, Overflow

\* An event that goes straight to the queue is its newest, if nothing is lost.
LEMMA EmitNowOK ==
  ASSUME DashboardTypeOK, QueuesInv, NEW r \in Runs, NEW e \in Events, EmitNow(r, e)
  PROVE  /\ Sends(r, {e}) /\ pending' = pending
         /\ ~dropped'[r] => queue'[r] = Append(queue[r], e)
<1> DEFINE q == queue[r]
<1>1. q \in Seq(Events) /\ Len(q) \in Nat /\ Len(q) <= Capacity
  BY DEF QueuesInv, DashboardTypeOK
<1>2. /\ dropped' \in [Runs -> BOOLEAN] /\ (dropped[r] => dropped'[r])
      /\ \A t \in Runs \ {r} : dropped'[t] = dropped[t]
      /\ Len(q) + 1 > Capacity => dropped'[r]
  BY <1>1, OverflowOK DEF EmitNow
<1>3. /\ pending' = pending /\ pending' \in [Runs -> Seq(Collected)] /\ Len(pending'[r]) < Batch
      /\ \A t \in Runs \ {r} : pending'[t] = pending[t]
  BY DEF EmitNow, DashboardTypeOK, QueuesInv
<1>4. /\ Append(q, e) \in Seq(Events) /\ Len(Append(q, e)) = Len(q) + 1
      /\ \A k \in DOMAIN Append(q, e) :
             Append(q, e)[k] = e \/ \E j \in DOMAIN q : Append(q, e)[k] = q[j]
  BY <1>1, AppendProperties
<1>5. CASE queue' = [queue EXCEPT ![r] = Newest(Append(@, e))]
  <2> DEFINE new == Newest(Append(q, e))
  <2>0. /\ new \in Seq(Events) /\ Len(new) <= Capacity
        /\ Len(Append(q, e)) <= Capacity => new = Append(q, e)
        /\ \A k \in DOMAIN new : \E j \in DOMAIN Append(q, e) : new[k] = Append(q, e)[j]
    BY <1>4, NewestOK
  <2>1. queue'[r] = Newest(Append(q, e)) /\ \A t \in Runs \ {r} : queue'[t] = queue[t]
    BY <1>5 DEF QueuesInv
  <2>2. queue' \in [Runs -> Seq(Events)]
    BY <1>5, <2>0 DEF QueuesInv
  <2>3. Len(queue'[r]) <= Capacity
    BY <2>0, <2>1
  <2>4. ASSUME NEW k \in DOMAIN new
        PROVE  new[k] \in {e} \/ \E j \in DOMAIN q : new[k] = q[j]
    <3>1. PICK j \in DOMAIN Append(q, e) : new[k] = Append(q, e)[j]
      BY <2>0
    <3>2. QED
      BY <1>4, <3>1
  <2>5. ~dropped'[r] => queue'[r] = Append(q, e)
    <3>1. ~(Len(q) + 1 > Capacity) => Len(Append(q, e)) <= Capacity
      BY <1>1, <1>4, BoundsOK
    <3>2. QED
      BY <1>2, <2>0, <2>1, <3>1
  <2>6. QueuesInv'
    BY <1>3, <2>2 DEF QueuesInv
  <2>7. \A k \in DOMAIN queue'[r] :
            \/ queue'[r][k].type \in Later \/ queue'[r][k] \in {e}
            \/ \E j \in DOMAIN queue[r] : queue'[r][k] = queue[r][j]
    BY <2>1, <2>4
  <2>8. Sends(r, {e})
    BY <1>2, <1>3, <2>1, <2>3, <2>6, <2>7, Zenon DEF Sends
  <2>9. QED
    BY <1>3, <2>5, <2>8
<1>6. CASE Len(q) = Capacity /\ queue' = [queue EXCEPT ![r] = Tail(@)]
  <2>1. q # <<>>
    BY <1>1, <1>6, BoundsOK
  <2>2. /\ Tail(q) \in Seq(Events) /\ Len(Tail(q)) = Len(q) - 1
        /\ \A k \in DOMAIN Tail(q) : \E j \in DOMAIN q : Tail(q)[k] = q[j]
    BY <1>1, <2>1, TailOK
  <2>3. queue'[r] = Tail(q) /\ \A t \in Runs \ {r} : queue'[t] = queue[t]
    BY <1>6 DEF QueuesInv
  <2>4. queue' \in [Runs -> Seq(Events)]
    BY <1>6, <2>2 DEF QueuesInv
  <2>5. Len(queue'[r]) <= Capacity
    BY <1>1, <2>2, <2>3, BoundsOK
  <2>6. dropped'[r]
    <3>1. Len(q) + 1 > Capacity
      BY <1>1, <1>6, BoundsOK
    <3>2. QED
      BY <1>2, <3>1
  <2>7. QueuesInv'
    BY <1>3, <2>4 DEF QueuesInv
  <2>8. \A k \in DOMAIN queue'[r] :
            \/ queue'[r][k].type \in Later \/ queue'[r][k] \in {e}
            \/ \E j \in DOMAIN queue[r] : queue'[r][k] = queue[r][j]
    BY <2>2, <2>3
  <2>9. Sends(r, {e})
    BY <1>2, <1>3, <2>3, <2>5, <2>7, <2>8, Zenon DEF Sends
  <2>10. QED
    BY <1>3, <2>6, <2>9
<1>7. QED
  BY <1>5, <1>6 DEF EmitNow

\* A flush moves its events to the queue in order, if nothing is lost.
LEMMA FlushOK ==
  ASSUME DashboardTypeOK, QueuesInv, NEW r \in Runs, NEW events \in Seq(Collected),
         Len(events) <= Batch, Flush(r, events)
  PROVE  /\ Sends(r, {})
         /\ ~dropped'[r] => queue'[r] = queue[r] \o events /\ pending'[r] = <<>>
<1> DEFINE q == queue[r]
<1> DEFINE all == q \o events
<1>1. q \in Seq(Events) /\ Len(q) \in Nat /\ Len(q) <= Capacity /\ Len(events) \in Nat
  BY DEF QueuesInv, DashboardTypeOK
<1>2. events \in Seq(Events) /\ \A k \in DOMAIN events : events[k].type \in Later
  BY CollectedAreEvents
<1>3. /\ dropped' \in [Runs -> BOOLEAN] /\ (dropped[r] => dropped'[r])
      /\ \A t \in Runs \ {r} : dropped'[t] = dropped[t]
      /\ Len(q) + Len(events) > Capacity => dropped'[r]
  BY <1>1, OverflowOK DEF Flush
<1>4. CASE /\ queue' = [queue EXCEPT ![r] = Newest(@ \o events)]
           /\ pending' = [pending EXCEPT ![r] = <<>>]
  <2>1. /\ all \in Seq(Events) /\ Len(all) = Len(q) + Len(events)
        /\ \A k \in DOMAIN all : all[k].type \in Later \/ \E j \in DOMAIN q : all[k] = q[j]
    <3>1. all \in Seq(Events) /\ Len(all) = Len(q) + Len(events)
      BY <1>1, <1>2, ConcatProperties
    <3>2. \A k \in 1..Len(all) : all[k] = IF k <= Len(q) THEN q[k] ELSE events[k - Len(q)]
      BY <1>1, <1>2, ConcatProperties
    <3>3. \A k \in 1..Len(all) : /\ k <= Len(q) => k \in DOMAIN q
                                 /\ k > Len(q) => k - Len(q) \in DOMAIN events
      BY <1>1, <3>1
    <3>4. DOMAIN all = 1..Len(all)
      BY <3>1
    <3>5. \A k \in DOMAIN all : all[k].type \in Later \/ \E j \in DOMAIN q : all[k] = q[j]
      BY <1>1, <1>2, <3>2, <3>3, <3>4
    <3>6. QED
      BY <3>1, <3>5
  <2> DEFINE new == Newest(all)
  <2>0. /\ new \in Seq(Events) /\ Len(new) <= Capacity
        /\ Len(all) <= Capacity => new = all
        /\ \A k \in DOMAIN new : \E j \in DOMAIN all : new[k] = all[j]
    BY <2>1, NewestOK
  <2>2. queue'[r] = new /\ \A t \in Runs \ {r} : queue'[t] = queue[t]
    BY <1>4 DEF QueuesInv
  <2>3. queue' \in [Runs -> Seq(Events)]
    BY <1>4, <2>0 DEF QueuesInv
  <2>4. /\ pending' \in [Runs -> Seq(Collected)] /\ pending'[r] = <<>>
        /\ \A t \in Runs \ {r} : pending'[t] = pending[t]
    BY <1>4 DEF QueuesInv
  <2>5. Len(queue'[r]) <= Capacity /\ Len(pending'[r]) < Batch
    <3>1. Len(queue'[r]) <= Capacity
      BY <2>0, <2>2
    <3>2. Len(pending'[r]) = 0
      BY <2>4
    <3>3. QED
      BY <3>1, <3>2, BoundsOK
  <2>6. ASSUME NEW k \in DOMAIN new
        PROVE  new[k].type \in Later \/ \E j \in DOMAIN q : new[k] = q[j]
    <3>1. PICK j \in DOMAIN all : new[k] = all[j]
      BY <2>0
    <3>2. QED
      BY <2>1, <3>1
  <2>7. ~dropped'[r] => queue'[r] = all
    <3>1. ~(Len(q) + Len(events) > Capacity) => Len(all) <= Capacity
      BY <1>1, <2>1, BoundsOK
    <3>2. QED
      BY <1>3, <2>0, <2>2, <3>1
  <2>8. QueuesInv'
    BY <2>3, <2>4 DEF QueuesInv
  <2>9. \A k \in DOMAIN queue'[r] :
            \/ queue'[r][k].type \in Later \/ queue'[r][k] \in {}
            \/ \E j \in DOMAIN queue[r] : queue'[r][k] = queue[r][j]
    BY <2>2, <2>6
  <2>10. Sends(r, {})
    BY <1>3, <2>2, <2>4, <2>5, <2>8, <2>9, Zenon DEF Sends
  <2>11. QED
    BY <2>4, <2>7, <2>10
<1>5. ASSUME NEW k \in 1..Len(events), Len(q) + k > Capacity,
             queue' = [queue EXCEPT ![r] = Tail(Newest(@ \o SubSeq(events, 1, k - 1)))],
             pending' = [pending EXCEPT ![r] = SubSeq(events, k + 1, Len(events))]
      PROVE  Sends(r, {}) /\ dropped'[r]
  <2> DEFINE sent == SubSeq(events, 1, k - 1)
  <2> DEFINE some == q \o sent
  <2> DEFINE left == SubSeq(events, k + 1, Len(events))
  <2>1. /\ sent \in Seq(Events) /\ Len(sent) = k - 1
        /\ \A j \in DOMAIN sent : sent[j].type \in Later
    <3>1. sent \in Seq(Collected) /\ Len(sent) = k - 1
      BY <1>1, <1>5, SubSeqProperties
    <3>2. QED
      BY <3>1, CollectedAreEvents
  <2>2. left \in Seq(Collected) /\ Len(left) < Batch
    <3>1. left \in Seq(Collected) /\ Len(left) = Len(events) - k
      BY <1>1, <1>5, SubSeqProperties
    <3>2. QED
      BY <1>1, <1>5, <3>1, BoundsOK
  <2>3. /\ some \in Seq(Events) /\ Len(some) = Len(q) + Len(sent)
        /\ \A j \in DOMAIN some : some[j].type \in Later \/ \E i \in DOMAIN q : some[j] = q[i]
    <3>0. sent \in Seq(Events)
      BY <2>1
    <3> HIDE DEF sent
    <3>1. some \in Seq(Events) /\ Len(some) = Len(q) + Len(sent)
      BY <1>1, <3>0, ConcatProperties
    <3>2. \A j \in 1..Len(some) : some[j] = IF j <= Len(q) THEN q[j] ELSE sent[j - Len(q)]
      BY <1>1, <3>0, ConcatProperties
    <3>3. Len(sent) \in Nat
      BY <2>1
    <3>4. \A j \in 1..Len(some) : /\ j <= Len(q) => j \in DOMAIN q
                                  /\ j > Len(q) => j - Len(q) \in DOMAIN sent
      BY <1>1, <2>1, <3>1, <3>3
    <3>5. DOMAIN some = 1..Len(some)
      BY <3>1
    <3>6. \A j \in DOMAIN some : some[j].type \in Later \/ \E i \in DOMAIN q : some[j] = q[i]
      BY <1>1, <2>1, <3>2, <3>4, <3>5
    <3>7. QED
      BY <3>1, <3>6
  <2>4. Len(some) >= Capacity
    <3>1. k \in Nat
      BY <1>1, <1>5
    <3>2. Len(sent) = k - 1 /\ Len(some) = Len(q) + Len(sent)
      BY <2>1, <2>3
    <3> HIDE DEF sent, some
    <3>3. QED
      BY <1>1, <1>5, <3>1, <3>2, BoundsOK
  <2>5. /\ Newest(some) \in Seq(Events) /\ Len(Newest(some)) = Capacity
        /\ \A j \in DOMAIN Newest(some) : \E i \in DOMAIN some : Newest(some)[j] = some[i]
    BY <2>3, <2>4, NewestOK
  <2>6. Newest(some) # <<>>
    BY <2>5, BoundsOK
  <2>7. /\ Tail(Newest(some)) \in Seq(Events) /\ Len(Tail(Newest(some))) = Capacity - 1
        /\ \A j \in DOMAIN Tail(Newest(some)) :
               \E i \in DOMAIN Newest(some) : Tail(Newest(some))[j] = Newest(some)[i]
    BY <2>5, <2>6, TailOK
  <2>8. queue'[r] = Tail(Newest(some)) /\ \A t \in Runs \ {r} : queue'[t] = queue[t]
    BY <1>5 DEF QueuesInv
  <2>9. queue' \in [Runs -> Seq(Events)]
    BY <1>5, <2>7 DEF QueuesInv
  <2>10. /\ pending' \in [Runs -> Seq(Collected)] /\ pending'[r] = left
         /\ \A t \in Runs \ {r} : pending'[t] = pending[t]
    BY <1>5, <2>2 DEF QueuesInv
  <2>11. Len(queue'[r]) <= Capacity
    BY <2>7, <2>8, BoundsOK
  <2>12. ASSUME NEW j \in DOMAIN Tail(Newest(some))
         PROVE  \/ Tail(Newest(some))[j].type \in Later
                \/ \E i \in DOMAIN q : Tail(Newest(some))[j] = q[i]
    <3>1. PICK i \in DOMAIN Newest(some) : Tail(Newest(some))[j] = Newest(some)[i]
      BY <2>7
    <3>2. PICK h \in DOMAIN some : Newest(some)[i] = some[h]
      BY <2>5
    <3>3. QED
      BY <2>3, <3>1, <3>2
  <2>13. dropped'[r]
    <3>1. Len(q) + Len(events) > Capacity
      BY <1>1, <1>5, BoundsOK
    <3>2. QED
      BY <1>3, <3>1
  <2>14. QueuesInv'
    BY <2>9, <2>10 DEF QueuesInv
  <2>15. \A j \in DOMAIN queue'[r] :
             \/ queue'[r][j].type \in Later \/ queue'[r][j] \in {}
             \/ \E i \in DOMAIN queue[r] : queue'[r][j] = queue[r][i]
    BY <2>8, <2>12
  <2>16. Len(pending'[r]) < Batch
    BY <2>2, <2>10
  <2>17. Sends(r, {})
    BY <1>3, <2>8, <2>10, <2>11, <2>14, <2>15, <2>16, Zenon DEF Sends
  <2>18. QED
    BY <2>13, <2>17
<1>6. QED
  BY <1>4, <1>5 DEF Flush

\* An event that is collected comes last, and stays pending or is flushed.
LEMMA EmitLaterOK ==
  ASSUME DashboardTypeOK, QueuesInv, NEW r \in Runs, NEW e \in Collected, EmitLater(r, e)
  PROVE  /\ Sends(r, {})
         /\ ~dropped'[r] => \/ queue'[r] = queue[r] /\ pending'[r] = Append(pending[r], e)
                            \/ queue'[r] = queue[r] \o Append(pending[r], e) /\ pending'[r] = <<>>
<1>1. /\ pending[r] \in Seq(Collected) /\ Len(pending[r]) \in Nat /\ Len(pending[r]) < Batch
      /\ queue[r] \in Seq(Events) /\ Len(queue[r]) <= Capacity
  BY DEF QueuesInv, DashboardTypeOK
<1>2. /\ Append(pending[r], e) \in Seq(Collected)
      /\ Len(Append(pending[r], e)) = Len(pending[r]) + 1
  BY <1>1, AppendProperties
<1>3. CASE Flush(r, Append(pending[r], e))
  <2>1. Len(Append(pending[r], e)) <= Batch
    BY <1>1, <1>2, BoundsOK
  <2>2. QED
    BY <1>2, <1>3, <2>1, FlushOK
<1>4. CASE /\ Len(pending[r]) + 1 < Batch
           /\ pending' = [pending EXCEPT ![r] = Append(@, e)] /\ UNCHANGED <<queue, dropped>>
  <2>1. QueuesInv'
    BY <1>2, <1>4 DEF QueuesInv
  <2>2. dropped' \in [Runs -> BOOLEAN] /\ dropped' = dropped
    BY <1>4 DEF DashboardTypeOK
  <2>3. pending'[r] = Append(pending[r], e) /\ \A t \in Runs \ {r} : pending'[t] = pending[t]
    BY <1>4 DEF QueuesInv
  <2>4. QED
    BY <1>1, <1>2, <1>4, <2>1, <2>2, <2>3 DEF Sends
<1>5. QED
  <2>1. ~(Len(pending[r]) + 1 >= Batch) => Len(pending[r]) + 1 < Batch
    BY <1>1, BoundsOK
  <2>2. QED
    BY <1>3, <1>4, <2>1 DEF EmitLater

\* What is pending moves to the end of the queue, if nothing is lost.
LEMMA FlushPendingOK ==
  ASSUME DashboardTypeOK, QueuesInv, NEW r \in Runs, FlushPending(r)
  PROVE  /\ Sends(r, {})
         /\ ~dropped'[r] => queue'[r] = queue[r] \o pending[r] /\ pending'[r] = <<>>
<1>1. /\ pending[r] \in Seq(Collected) /\ Len(pending[r]) \in Nat /\ Len(pending[r]) < Batch
  BY DEF QueuesInv, DashboardTypeOK
<1>2. Len(pending[r]) <= Batch
  BY <1>1, BoundsOK
<1>3. QED
  BY <1>1, <1>2, FlushOK DEF FlushPending

\* Who sends nothing leaves the queues as they are.
LEMMA NothingSent ==
  ASSUME DashboardTypeOK, QueuesInv, NEW r \in Runs, UNCHANGED emitter
  PROVE  Sends(r, {})
BY DEF DashboardTypeOK, QueuesInv, Sends, emitter

-----------------------------------------------------------------------------
(* A step in which s of run t goes on, with no event of its own.            *)

Unmentioned(t, s) ==
  /\ dropped[t] => dropped'[t]
  /\ \A k \in DOMAIN queue'[t] :
         EndOf(queue'[t][k], s) => \E j \in DOMAIN queue[t] : queue'[t][k] = queue[t][j]
  /\ ~dropped'[t] =>
         /\ \/ Stream(t)' = Stream(t)
            \/ \E x, e : PutAt(Stream(t), Stream(t)', x, e) /\ ~About(e, s)
         /\ Silent(pending[t], s) => Silent(pending'[t], s)

Stays(t, s) ==
  /\ place'[t][s] = place[t][s] /\ sessionSteps'[t][s] = sessionSteps[t][s]
  /\ outcome'[t][s] = outcome[t][s]

\* The queue, what is pending and the stream are sequences of events.
LEMMA StreamOK ==
  ASSUME QueuesInv, NEW t \in Runs
  PROVE  /\ queue[t] \in Seq(Events) /\ pending[t] \in Seq(Events) /\ Stream(t) \in Seq(Events)
         /\ \A k \in DOMAIN pending[t] : pending[t][k].type \in Later
<1>1. queue[t] \in Seq(Events) /\ pending[t] \in Seq(Collected)
  BY DEF QueuesInv
<1>2. pending[t] \in Seq(Events) /\ \A k \in DOMAIN pending[t] : pending[t][k].type \in Later
  BY <1>1, CollectedAreEvents
<1>3. QED
  BY <1>1, <1>2, ConcatProperties DEF Stream

\* A session that goes on without an event of its own keeps its story.
LEMMA UnmentionedStory ==
  ASSUME QueuesInv, QueuesInv', NEW t \in Runs, NEW s \in SessionIds, SessionStory(t, s),
         Unmentioned(t, s),
         tracker' = tracker, shown' = shown, sessionSteps'[t][s] = sessionSteps[t][s],
         Calm(place[t][s], place'[t][s]),
         place[t][s] \in Late => outcome'[t][s] = outcome[t][s],
         place'[t][s] \in Late /\ place[t][s] \notin Late =>
             outcome'[t][s] \in Scores \cup Failed /\ (~dropped'[t] => Silent(pending'[t], s))
  PROVE  SessionStory(t, s)'
<1>1. EndInv(t, s)'
  BY DEF SessionStory, EndInv, Unmentioned, Calm
<1>2. Stream(t) \in Seq(Events) /\ Stream(t)' \in Seq(Events)
  <2>1. Stream(t) \in Seq(Events)
    BY StreamOK
  <2>2. queue'[t] \in Seq(Events) /\ pending'[t] \in Seq(Collected)
    BY DEF QueuesInv
  <2>3. QED
    BY <2>1, <2>2, CollectedAreEvents, ConcatProperties DEF Stream
<1>3. ASSUME ~dropped'[t]
      PROVE  /\ ~dropped[t]
             /\ \A n : Ordered(Stream(t), s, n) => Ordered(Stream(t)', s, n)
             /\ Silent(Stream(t), s) => Silent(Stream(t)', s)
             /\ \A p, n, v : View(Stream(t), s, p, n, v) => View(Stream(t)', s, p, n, v)
  <2>1. ~dropped[t]
    BY <1>3 DEF Unmentioned
  <2>2. CASE Stream(t)' = Stream(t)
    BY <2>1, <2>2
  <2>3. CASE \E x, e : PutAt(Stream(t), Stream(t)', x, e) /\ ~About(e, s)
    BY <1>2, <2>1, <2>3, ForeignEvent
  <2>4. QED
    BY <1>3, <2>2, <2>3 DEF Unmentioned
<1>4. StreamInv(t, s)'
  <2>1. SUFFICES ASSUME ~dropped'[t]
                 PROVE  /\ Ordered(Stream(t)', s, sessionSteps'[t][s])
                        /\ place'[t][s] \in Early => Silent(Stream(t)', s)
                        /\ place'[t][s] \in Late => Silent(pending'[t], s)
    BY DEF StreamInv
  <2>2. StreamInv(t, s) /\ ~dropped[t]
    BY <1>3, <2>1 DEF SessionStory
  <2>3. Ordered(Stream(t)', s, sessionSteps'[t][s])
    BY <1>3, <2>1, <2>2 DEF StreamInv
  <2>4. place'[t][s] \in Early => Silent(Stream(t)', s)
    BY <1>3, <2>1, <2>2 DEF StreamInv, Calm
  <2>5. place'[t][s] \in Late => Silent(pending'[t], s)
    BY <2>1, <2>2 DEF StreamInv, Unmentioned
  <2>6. QED
    BY <2>3, <2>4, <2>5
<1>5. ASSUME tracker' = t
      PROVE  ShownInv(t, s)'
  <2>1. ShownInv(t, s)
    BY <1>5 DEF SessionStory
  <2>2. shown'[s].status \notin {"absent", "running"} =>
            place'[t][s] = "ended" /\ shown'[s].status = LiveStatus(outcome'[t][s])
    BY <2>1 DEF ShownInv, Calm, Late
  <2>3. ~dropped'[t] => View(Stream(t)', s, place'[t][s], sessionSteps'[t][s], shown'[s])
    BY <1>3, <2>1, CalmView DEF ShownInv
  <2>4. QED
    BY <2>1, <2>2, <2>3 DEF ShownInv
<1>6. QED
  BY <1>1, <1>4, <1>5 DEF SessionStory

\* So does one that does not go on.
LEMMA StaysStory ==
  ASSUME QueuesInv, QueuesInv', NEW t \in Runs, NEW s \in SessionIds, SessionStory(t, s),
         Unmentioned(t, s),
         tracker' = tracker, shown' = shown, Stays(t, s)
  PROVE  SessionStory(t, s)'
<1>1. Calm(place[t][s], place'[t][s])
  BY DEF Stays, Calm
<1>2. QED
  BY <1>1, UnmentionedStory DEF Stays

\* How an event changes what is under way, when nothing is lost.
LEMMA StreamShapes ==
  ASSUME NEW q \in Seq(Events), NEW w \in Seq(Events), NEW e \in Events
  PROVE  /\ PutAt(q \o w, Append(q, e) \o w, Len(q) + 1, e)
         /\ PutAt(q \o w, q \o Append(w, e), Len(q \o Append(w, e)), e)
         /\ \A u \in Seq(Events) : (q \o u) \o <<>> = q \o u
<1>1. /\ Len(q) \in Nat /\ Len(w) \in Nat
      /\ Len(q \o w) = Len(q) + Len(w) /\ q \o w \in Seq(Events)
      /\ \A k \in 1..(Len(q) + Len(w)) : (q \o w)[k] = IF k <= Len(q) THEN q[k] ELSE w[k - Len(q)]
  BY ConcatProperties
<1>2. /\ Append(q, e) \in Seq(Events) /\ Len(Append(q, e)) = Len(q) + 1
      /\ Append(q, e)[Len(q) + 1] = e
      /\ \A k \in 1..Len(q) : Append(q, e)[k] = q[k]
  BY AppendProperties
<1>3. /\ Append(w, e) \in Seq(Events) /\ Len(Append(w, e)) = Len(w) + 1
      /\ Append(w, e)[Len(w) + 1] = e
      /\ \A k \in 1..Len(w) : Append(w, e)[k] = w[k]
  BY AppendProperties
<1>4. PutAt(q \o w, Append(q, e) \o w, Len(q) + 1, e)
  <2> DEFINE su == Append(q, e) \o w
  <2>1. /\ Len(su) = Len(q) + 1 + Len(w) /\ su \in Seq(Events)
        /\ \A k \in 1..(Len(q) + 1 + Len(w)) :
               su[k] = IF k <= Len(q) + 1 THEN Append(q, e)[k] ELSE w[k - (Len(q) + 1)]
    BY <1>2, ConcatProperties
  <2> HIDE DEF su
  <2>2. DOMAIN su = 1..(Len(q) + 1 + Len(w))
    BY <2>1
  <2>3. su[Len(q) + 1] = e
    BY <1>1, <1>2, <2>1
  <2>4. ASSUME NEW k \in DOMAIN su
        PROVE  /\ k < Len(q) + 1 => su[k] = (q \o w)[k]
               /\ k > Len(q) + 1 => su[k] = (q \o w)[k - 1]
    <3>1. CASE k < Len(q) + 1
      <4>1. k \in 1..Len(q) /\ k \in 1..(Len(q) + Len(w)) /\ k <= Len(q)
        BY <1>1, <2>2, <3>1
      <4>2. QED
        BY <1>1, <1>2, <2>1, <2>2, <3>1, <4>1
    <3>2. CASE k > Len(q) + 1
      <4>1. /\ k - 1 \in 1..(Len(q) + Len(w)) /\ k - 1 > Len(q)
            /\ (k - 1) - Len(q) = k - (Len(q) + 1)
        BY <1>1, <2>2, <3>2
      <4>2. su[k] = w[k - (Len(q) + 1)]
        BY <1>1, <2>1, <2>2, <3>2
      <4>3. (q \o w)[k - 1] = w[(k - 1) - Len(q)]
        BY <1>1, <4>1
      <4>4. QED
        BY <1>1, <2>2, <3>2, <4>1, <4>2, <4>3
    <3>3. QED
      BY <1>1, <2>2, <3>1, <3>2
  <2>5. QED
    BY <1>1, <2>1, <2>3, <2>4 DEF PutAt, su
<1>5. PutAt(q \o w, q \o Append(w, e), Len(q \o Append(w, e)), e)
  <2> DEFINE su == q \o Append(w, e)
  <2>1. /\ Len(su) = Len(q) + Len(w) + 1 /\ su \in Seq(Events)
        /\ \A k \in 1..(Len(q) + Len(w) + 1) :
               su[k] = IF k <= Len(q) THEN q[k] ELSE Append(w, e)[k - Len(q)]
    BY <1>1, <1>3, ConcatProperties
  <2> HIDE DEF su
  <2>2. DOMAIN su = 1..(Len(q) + Len(w) + 1)
    BY <2>1
  <2>3. su[Len(su)] = e
    <3>1. /\ Len(su) \in 1..(Len(q) + Len(w) + 1) /\ ~(Len(su) <= Len(q))
          /\ Len(su) - Len(q) = Len(w) + 1
      BY <1>1, <2>1
    <3>2. QED
      BY <1>3, <2>1, <3>1
  <2>4. ASSUME NEW k \in DOMAIN su, k < Len(su)
        PROVE  su[k] = (q \o w)[k]
    <3>1. k \in 1..(Len(q) + Len(w)) /\ k \in 1..(Len(q) + Len(w) + 1)
      BY <1>1, <2>1, <2>2, <2>4
    <3>2. k > Len(q) => k - Len(q) \in 1..Len(w)
      BY <1>1, <3>1
    <3>3. CASE k <= Len(q)
      BY <1>1, <2>1, <3>1, <3>3
    <3>4. CASE ~(k <= Len(q))
      <4>1. k - Len(q) \in 1..Len(w)
        BY <1>1, <3>1, <3>2, <3>4
      <4>2. QED
        BY <1>1, <1>3, <2>1, <3>1, <3>4, <4>1
    <3>5. QED
      BY <3>3, <3>4
  <2>5. \A k \in DOMAIN su : ~(k > Len(su))
    BY <1>1, <2>1, <2>2
  <2>6. Len(su) \in 1..Len(su) /\ Len(su) = Len(q \o w) + 1
    BY <1>1, <2>1
  <2>7. QED
    BY <2>3, <2>4, <2>5, <2>6 DEF PutAt, su
<1>6. ASSUME NEW u \in Seq(Events)
      PROVE  (q \o u) \o <<>> = q \o u
  BY ConcatProperties, ConcatEmptySeq
<1>7. QED
  BY <1>4, <1>5, <1>6

\* What is sent of others, and what is not sent, is quiet for s of run t.
LEMMA SentUnmentioned ==
  ASSUME DashboardTypeOK, QueuesInv, NEW r \in Runs, NEW new \in SUBSET Events, Sends(r, new),
         NEW t \in Runs, NEW s, t = r => \A e \in new : ~EndOf(e, s),
         ~dropped'[t] => /\ \/ Stream(t)' = Stream(t)
                            \/ \E x, e : PutAt(Stream(t), Stream(t)', x, e) /\ ~About(e, s)
                         /\ Silent(pending[t], s) => Silent(pending'[t], s)
  PROVE  Unmentioned(t, s)
<1>1. CASE t = r
  <2>1. \A k \in DOMAIN queue'[t] :
            EndOf(queue'[t][k], s) => \E j \in DOMAIN queue[t] : queue'[t][k] = queue[t][j]
    BY <1>1 DEF Sends, EndOf, Later
  <2>2. dropped[t] => dropped'[t]
    BY <1>1 DEF Sends
  <2>3. QED
    BY <2>1, <2>2 DEF Unmentioned
<1>2. CASE t # r
  <2>1. queue'[t] = queue[t] /\ pending'[t] = pending[t] /\ dropped'[t] = dropped[t]
    BY <1>2 DEF Sends
  <2>2. Stream(t)' = Stream(t)
    BY <2>1 DEF Stream
  <2>3. QED
    BY <2>1, <2>2 DEF Unmentioned
<1>3. QED
  BY <1>1, <1>2

\* The streams of the other runs are left alone.
LEMMA OtherRunStreams ==
  ASSUME NEW r \in Runs, NEW new, Sends(r, new), NEW t \in Runs \ {r}
  PROVE  Stream(t)' = Stream(t) /\ pending'[t] = pending[t]
BY DEF Sends, Stream

\* An event that goes straight to the queue tells nothing of other sessions.
LEMMA NowUnmentioned ==
  ASSUME DashboardTypeOK, QueuesInv, NEW r \in Runs, NEW e \in Events, EmitNow(r, e),
         NEW t \in Runs, NEW s, t = r => ~About(e, s)
  PROVE  Unmentioned(t, s)
<1>1. /\ Sends(r, {e}) /\ pending' = pending
      /\ ~dropped'[r] => queue'[r] = Append(queue[r], e)
  BY EmitNowOK
<1>2. ASSUME ~dropped'[t], t = r
      PROVE  \E x, d : PutAt(Stream(t), Stream(t)', x, d) /\ ~About(d, s)
  <2>1. queue[r] \in Seq(Events) /\ pending[r] \in Seq(Events)
    BY StreamOK
  <2>2. Stream(t)' = Append(queue[r], e) \o pending[r]
    BY <1>1, <1>2 DEF Stream
  <2>3. PutAt(Stream(t), Stream(t)', Len(queue[r]) + 1, e)
    BY <1>2, <2>1, <2>2, StreamShapes DEF Stream
  <2>4. QED
    BY <1>2, <2>3
<1>3. Silent(pending[t], s) => Silent(pending'[t], s)
  BY <1>1
<1>4. t = r => \A d \in {e} : ~EndOf(d, s)
  BY DEF About
<1>5. t # r => Stream(t)' = Stream(t)
  BY <1>1, OtherRunStreams
<1>6. QED
  BY <1>1, <1>2, <1>3, <1>4, <1>5, SentUnmentioned

\* Nor does one that is collected,
LEMMA LaterUnmentioned ==
  ASSUME DashboardTypeOK, QueuesInv, NEW r \in Runs, NEW e \in Collected, EmitLater(r, e),
         NEW t \in Runs, NEW s, t = r => ~About(e, s)
  PROVE  Unmentioned(t, s)
<1>1. /\ Sends(r, {})
      /\ ~dropped'[r] => \/ queue'[r] = queue[r] /\ pending'[r] = Append(pending[r], e)
                         \/ queue'[r] = queue[r] \o Append(pending[r], e) /\ pending'[r] = <<>>
  BY EmitLaterOK
<1>2. ASSUME ~dropped'[t], t = r
      PROVE  /\ \E x, d : PutAt(Stream(t), Stream(t)', x, d) /\ ~About(d, s)
             /\ Silent(pending[t], s) => Silent(pending'[t], s)
  <2>1. queue[r] \in Seq(Events) /\ pending[r] \in Seq(Events) /\ e \in Events
    BY StreamOK DEF Collected, Events
  <2>2. /\ Append(pending[r], e) \in Seq(Events) /\ Len(pending[r]) \in Nat
        /\ Len(Append(pending[r], e)) = Len(pending[r]) + 1
        /\ Append(pending[r], e)[Len(pending[r]) + 1] = e
        /\ \A k \in 1..Len(pending[r]) : Append(pending[r], e)[k] = pending[r][k]
    BY <2>1, AppendProperties
  <2>3. Stream(t)' = queue[r] \o Append(pending[r], e)
    BY <1>1, <1>2, <2>1, <2>2, StreamShapes DEF Stream
  <2>4. \E x : PutAt(Stream(t), Stream(t)', x, e)
    BY <1>2, <2>1, <2>3, StreamShapes DEF Stream
  <2>5. Silent(pending[r], s) => Silent(Append(pending[r], e), s)
    BY <1>2, <2>2 DEF Silent
  <2>6. Silent(<<>>, s)
    BY DEF Silent
  <2>7. QED
    BY <1>1, <1>2, <2>4, <2>5, <2>6
<1>3. t # r => Stream(t)' = Stream(t) /\ pending'[t] = pending[t]
  BY <1>1, OtherRunStreams
<1>4. QED
  BY <1>1, <1>2, <1>3, SentUnmentioned

\* or a flush,
LEMMA FlushUnmentioned ==
  ASSUME DashboardTypeOK, QueuesInv, NEW r \in Runs, FlushPending(r), NEW t \in Runs, NEW s
  PROVE  Unmentioned(t, s)
<1>1. /\ Sends(r, {})
      /\ ~dropped'[r] => queue'[r] = queue[r] \o pending[r] /\ pending'[r] = <<>>
  BY FlushPendingOK
<1>2. ASSUME ~dropped'[t], t = r
      PROVE  Stream(t)' = Stream(t) /\ Silent(pending'[t], s)
  <2>1. queue[r] \in Seq(Events) /\ pending[r] \in Seq(Events)
    BY StreamOK
  <2>2. Stream(t)' = (queue[r] \o pending[r]) \o <<>>
    BY <1>1, <1>2 DEF Stream
  <2>3. Stream(t)' = Stream(t)
    BY <1>2, <2>1, <2>2, ConcatProperties, ConcatEmptySeq DEF Stream
  <2>4. Silent(<<>>, s)
    BY DEF Silent
  <2>5. QED
    BY <1>1, <1>2, <2>3, <2>4
<1>3. t # r => Stream(t)' = Stream(t) /\ pending'[t] = pending[t]
  BY <1>1, OtherRunStreams
<1>4. QED
  BY <1>1, <1>2, <1>3, SentUnmentioned

\* or no event at all.
LEMMA NothingUnmentioned ==
  ASSUME UNCHANGED emitter, NEW t \in Runs, NEW s
  PROVE  Unmentioned(t, s)
BY DEF emitter, Unmentioned, Stream

-----------------------------------------------------------------------------
(* The parts of the state a step leaves alone.                              *)

Positions == {"waiting", "setup", "running", "acted", "stopping", "ending", "ended", "lost"}
RunPhases == {"off", "worker", "running", "recorded", "flushed", "final", "over"}

\* A move of a session changes its place and no other.
LEMMA MovesOK ==
  ASSUME DashboardTypeOK, NEW r \in Runs, NEW s \in SessionIds, NEW to \in Positions,
         Moves(r, s, to)
  PROVE  /\ place' \in [Runs -> [SessionIds -> Positions]] /\ place'[r][s] = to
         /\ \A t \in Runs, z \in SessionIds : t # r \/ z # s => place'[t][z] = place[t][z]
BY DEF DashboardTypeOK, Moves, Positions

\* The types, from those of what a step of a run changes.
LEMMA TypesKept ==
  ASSUME DashboardTypeOK, NEW r \in Runs, NEW new, Sends(r, new), UNCHANGED page,
         phase' \in [Runs -> RunPhases], UNCHANGED serial,
         raised' \in [Runs -> SUBSET {"cancel", "failure"}],
         place' \in [Runs -> [SessionIds -> Positions]],
         sessionSteps' \in [Runs -> [SessionIds -> 0..MaxReactions]],
         outcome' \in [Runs -> [SessionIds -> Scores \cup Failed \cup {NoneYet}]],
         records' \in [Runs -> SUBSET SessionIds], report' \in [Runs -> SUBSET SessionIds]
  PROVE  DashboardTypeOK'
<1>1. \A t \in Runs : Len(queue'[t]) <= Capacity /\ Len(pending'[t]) < Batch
  BY DEF Sends, DashboardTypeOK
<1>2. dropped' \in [Runs -> BOOLEAN]
  BY DEF Sends
<1>3. /\ tracker' = tracker /\ active' = active /\ scope' = scope /\ shown' = shown
      /\ taken' = taken
  BY DEF page
<1>4. QED
  BY <1>1, <1>2, <1>3 DEF DashboardTypeOK, RunPhases, Positions

\* A run is left alone, in what RunFacts says of it.
LEMMA RunKept ==
  ASSUME NEW t \in Runs, RunFacts(t), phase'[t] = phase[t], tracker' = tracker,
         queue'[t] = queue[t], pending'[t] = pending[t],
         \A s \in SessionIds : place'[t][s] = place[t][s],
         records[t] \subseteq SessionIds, records'[t] = records[t], report'[t] = report[t]
  PROVE  RunFacts(t)'
BY DEF RunFacts

\* A run that has begun goes on.
LEMMA RunGoesOn ==
  ASSUME NEW r \in Runs, RunFacts(r), phase'[r] \notin {"off", "worker"}, phase[r] # "off",
         tracker' = tracker, report'[r] \subseteq records'[r],
         \A s \in records'[r] : place'[r][s] = "ended"
  PROVE  RunFacts(r)'
BY DEF RunFacts

\* A step of run r that leaves its sessions where they are.
LEMMA RunLevel ==
  ASSUME DashboardInv, NEW r \in Runs, NEW new, Sends(r, new),
         UNCHANGED <<serial, place, sessionSteps, outcome, raised, records, page>>,
         NEW to \in RunPhases \ {"off", "worker"}, phase[r] # "off",
         phase' = [phase EXCEPT ![r] = to],
         report' = report \/ report' = [report EXCEPT ![r] = records[r]],
         \A t \in Runs, s \in SessionIds : Unmentioned(t, s)
  PROVE  DashboardInv'
<1>1. DashboardTypeOK /\ QueuesInv /\ RunInv /\ QueuesInv'
  BY DEF DashboardInv, Sends
<1>2. /\ phase' \in [Runs -> RunPhases] /\ phase'[r] = to
      /\ \A t \in Runs \ {r} : phase'[t] = phase[t]
  BY <1>1 DEF DashboardTypeOK, RunPhases
<1>3. /\ report' \in [Runs -> SUBSET SessionIds]
      /\ \A t \in Runs \ {r} : report'[t] = report[t]
      /\ report'[r] = report[r] \/ report'[r] = records[r]
  BY <1>1 DEF DashboardTypeOK
<1>4. DashboardTypeOK'
  BY <1>1, <1>2, <1>3, TypesKept DEF DashboardTypeOK, Positions
<1>5. tracker' = tracker /\ shown' = shown
  BY DEF page
<1>6. RunInv'
  <2>1. RunFacts(r)'
    BY <1>1, <1>2, <1>3, <1>5, RunGoesOn DEF RunInv, RunFacts
  <2>2. ASSUME NEW t \in Runs \ {r}
        PROVE  RunFacts(t)'
    <3>1. queue'[t] = queue[t] /\ pending'[t] = pending[t]
      BY DEF Sends
    <3>2. QED
      BY <1>1, <1>2, <1>3, <1>5, <3>1, RunKept DEF RunInv, DashboardTypeOK
  <2>3. QED
    BY <2>1, <2>2 DEF RunInv
<1>7. ASSUME NEW t \in Runs, NEW s \in SessionIds
      PROVE  SessionStory(t, s)'
  <2>1. SessionStory(t, s) /\ Stays(t, s)
    BY DEF DashboardInv, Stays
  <2>2. QED
    BY <1>1, <1>5, <2>1, StaysStory
<1>8. QED
  BY <1>1, <1>4, <1>6, <1>7 DEF DashboardInv

\* A step of session s of run r.
LEMMA SessionLevel ==
  ASSUME DashboardInv, NEW r \in Runs, NEW s \in SessionIds, NEW new, Sends(r, new),
         UNCHANGED <<phase, serial, report, page>>, phase[r] \notin {"off", "worker"},
         NEW to \in Positions, Moves(r, s, to), place[r][s] # "ended",
         sessionSteps' \in [Runs -> [SessionIds -> 0..MaxReactions]],
         outcome' \in [Runs -> [SessionIds -> Scores \cup Failed \cup {NoneYet}]],
         raised' \in [Runs -> SUBSET {"cancel", "failure"}],
         \A t \in Runs, z \in SessionIds : t # r \/ z # s =>
             /\ sessionSteps'[t][z] = sessionSteps[t][z] /\ outcome'[t][z] = outcome[t][z]
             /\ Unmentioned(t, z),
         records' = records \/ (to = "ended" /\ records' = [records EXCEPT ![r] = @ \cup {s}]),
         SessionStory(r, s)'
  PROVE  DashboardInv'
<1>1. DashboardTypeOK /\ QueuesInv /\ RunInv /\ QueuesInv'
  BY DEF DashboardInv, Sends
<1>2. /\ place' \in [Runs -> [SessionIds -> Positions]] /\ place'[r][s] = to
      /\ \A t \in Runs, z \in SessionIds : t # r \/ z # s => place'[t][z] = place[t][z]
  BY <1>1, MovesOK
<1>3. /\ records' \in [Runs -> SUBSET SessionIds] /\ records[r] \subseteq records'[r]
      /\ \A t \in Runs \ {r} : records'[t] = records[t]
      /\ \A z \in records'[r] : z \in records[r] \/ (z = s /\ to = "ended")
  <2>1. CASE records' = records
    BY <1>1, <2>1 DEF DashboardTypeOK
  <2>2. CASE to = "ended" /\ records' = [records EXCEPT ![r] = @ \cup {s}]
    <3>1. records \in [Runs -> SUBSET SessionIds]
      BY <1>1 DEF DashboardTypeOK
    <3>2. records'[r] = records[r] \cup {s} /\ \A t \in Runs \ {r} : records'[t] = records[t]
      BY <2>2, <3>1
    <3>3. records' \in [Runs -> SUBSET SessionIds]
      BY <2>2, <3>1
    <3>4. QED
      BY <2>2, <3>2, <3>3
  <2>3. QED
    BY <2>1, <2>2
<1>4. DashboardTypeOK'
  BY <1>1, <1>2, <1>3, TypesKept DEF DashboardTypeOK, RunPhases
<1>5. tracker' = tracker /\ shown' = shown
  BY DEF page
<1>6. RunInv'
  <2>1. /\ report[r] \subseteq records[r]
        /\ \A z \in records[r] : z \in SessionIds /\ place[r][z] = "ended"
    BY <1>1 DEF RunInv, RunFacts, DashboardTypeOK
  <2>2. ASSUME NEW z \in records'[r]
        PROVE  place'[r][z] = "ended"
    <3>1. CASE z \in records[r] /\ z # s
      BY <1>2, <2>1, <3>1
    <3>2. CASE z = s /\ to = "ended"
      BY <1>2, <3>2
    <3>3. QED
      BY <1>3, <2>1, <3>1, <3>2
  <2>3. RunFacts(r)'
    <3>1. report'[r] \subseteq records'[r] /\ phase'[r] = phase[r]
      BY <1>3, <2>1
    <3>2. QED
      BY <1>1, <1>5, <2>2, <3>1, RunGoesOn DEF RunInv
  <2>4. ASSUME NEW t \in Runs \ {r}
        PROVE  RunFacts(t)'
    <3>1. queue'[t] = queue[t] /\ pending'[t] = pending[t]
      BY DEF Sends
    <3>2. \A z \in SessionIds : place'[t][z] = place[t][z]
      BY <1>2
    <3>3. phase'[t] = phase[t] /\ report'[t] = report[t] /\ records'[t] = records[t]
      BY <1>3
    <3>4. records[t] \subseteq SessionIds /\ RunFacts(t)
      BY <1>1 DEF RunInv, DashboardTypeOK
    <3>5. QED
      BY <1>5, <3>1, <3>2, <3>3, <3>4, RunKept
  <2>5. QED
    BY <2>3, <2>4 DEF RunInv
<1>7. ASSUME NEW t \in Runs, NEW z \in SessionIds
      PROVE  SessionStory(t, z)'
  <2>1. CASE t = r /\ z = s
    BY <2>1
  <2>2. CASE t # r \/ z # s
    <3>1. SessionStory(t, z) /\ Stays(t, z) /\ Unmentioned(t, z)
      BY <1>2, <2>2 DEF DashboardInv, Stays
    <3>2. QED
      BY <1>1, <1>5, <3>1, StaysStory
  <2>3. QED
    BY <2>1, <2>2
<1>8. QED
  BY <1>1, <1>4, <1>6, <1>7 DEF DashboardInv

-----------------------------------------------------------------------------
(* The steps of a run.                                                      *)

\* What the observer sends are events, of the session they name.
LEMMA EventOK ==
  /\ \A s \in SessionIds, n \in 0..MaxReactions :
         /\ Event("session_started", s, n) \in Events
         /\ Event("session_finished", s, n) \in Events
         /\ Event("step", s, n) \in Collected /\ Event("observation", s, n) \in Collected
  /\ Event("run_meta", NoSession, 0) \in Events /\ Event("saved", NoSession, 0) \in Events
  /\ Event("benchmark_recorded", NoSession, 0) \in Collected
  /\ \A type, s, n, z :
         /\ type \notin {"session_started", "step", "session_finished"} \/ z # s
                => ~About(Event(type, s, n), z)
         /\ Event(type, s, n).type = type /\ Event(type, s, n).sid = s /\ Event(type, s, n).n = n
BY BoundsOK DEF Event, Events, Collected, Later, About, StartOf, StepOf, EndOf

\* The run id is about no session.
LEMMA BeginInv ==
  ASSUME DashboardInv, NEW r \in Runs, Begin(r)
  PROVE  DashboardInv'
<1> DEFINE e == Event("run_meta", NoSession, 0)
<1>1. DashboardTypeOK /\ QueuesInv /\ e \in Events /\ \A s : ~About(e, s)
  BY EventOK DEF DashboardInv
<1>2. EmitNow(r, e)
  BY DEF Begin
<1> HIDE DEF e
<1>3. Sends(r, {e}) /\ \A t \in Runs, s \in SessionIds : Unmentioned(t, s)
  BY <1>1, <1>2, EmitNowOK, NowUnmentioned
<1>4. QED
  BY <1>3, RunLevel DEF Begin, RunPhases

\* Nor is "saved".
LEMMA SavedInv ==
  ASSUME DashboardInv, NEW r \in Runs, Saved(r)
  PROVE  DashboardInv'
<1> DEFINE e == Event("saved", NoSession, 0)
<1>1. DashboardTypeOK /\ QueuesInv /\ e \in Events /\ \A s : ~About(e, s)
  BY EventOK DEF DashboardInv
<1>2. EmitNow(r, e)
  BY DEF Saved
<1> HIDE DEF e
<1>3. Sends(r, {e}) /\ \A t \in Runs, s \in SessionIds : Unmentioned(t, s)
  BY <1>1, <1>2, EmitNowOK, NowUnmentioned
<1>4. QED
  BY <1>3, RunLevel DEF Saved, RunPhases

\* Nor is the event of a run that succeeded.
LEMMA RunSuccessInv ==
  ASSUME DashboardInv, NEW r \in Runs, RunSuccess(r)
  PROVE  DashboardInv'
<1> DEFINE e == Event("benchmark_recorded", NoSession, 0)
<1>1. DashboardTypeOK /\ QueuesInv /\ e \in Collected /\ \A s : ~About(e, s)
  BY EventOK DEF DashboardInv
<1>2. EmitLater(r, e)
  BY DEF RunSuccess
<1> HIDE DEF e
<1>3. Sends(r, {}) /\ \A t \in Runs, s \in SessionIds : Unmentioned(t, s)
  BY <1>1, <1>2, EmitLaterOK, LaterUnmentioned
<1>4. QED
  BY <1>3, RunLevel DEF RunSuccess, Recorded, RunPhases

\* The last flush moves what is pending.
LEMMA LastFlushInv ==
  ASSUME DashboardInv, NEW r \in Runs, LastFlush(r)
  PROVE  DashboardInv'
<1>1. DashboardTypeOK /\ QueuesInv /\ FlushPending(r)
  BY DEF DashboardInv, LastFlush
<1>2. Sends(r, {}) /\ \A t \in Runs, s \in SessionIds : Unmentioned(t, s)
  BY <1>1, FlushPendingOK, FlushUnmentioned
<1>3. QED
  BY <1>2, RunLevel DEF LastFlush, RunPhases

\* The other steps of a run send nothing.
LEMMA UnsentInv ==
  ASSUME DashboardInv, NEW r \in Runs,
         CrashEarly(r) \/ RunError(r) \/ CrashLate(r) \/ ThreadEnds(r)
  PROVE  DashboardInv'
<1>1. DashboardTypeOK /\ QueuesInv /\ UNCHANGED emitter
  BY DEF DashboardInv, CrashEarly, RunError, CrashLate, ThreadEnds
<1>2. Sends(r, {}) /\ \A t \in Runs, s \in SessionIds : Unmentioned(t, s)
  BY <1>1, NothingSent, NothingUnmentioned
<1>3. QED
  BY <1>2, RunLevel DEF CrashEarly, RunError, Recorded, CrashLate, ThreadEnds, RunPhases

-----------------------------------------------------------------------------
(* The steps of a session.                                                  *)

\* A session that is under way belongs to a run that has begun.
LEMMA BegunOK ==
  ASSUME DashboardInv, NEW r \in Runs, NEW s \in SessionIds, place[r][s] # "waiting"
  PROVE  phase[r] \notin {"off", "worker"}
BY DEF DashboardInv, RunInv, RunFacts

\* A session that is set up has told nothing.
LEMMA SetupInv ==
  ASSUME DashboardInv, NEW r \in Runs, NEW s \in SessionIds, Setup(r, s)
  PROVE  DashboardInv'
<1>1. DashboardTypeOK /\ QueuesInv /\ UNCHANGED emitter
  BY DEF DashboardInv, Setup
<1>2. Sends(r, {}) /\ QueuesInv' /\ \A t \in Runs, z \in SessionIds : Unmentioned(t, z)
  BY <1>1, NothingSent, NothingUnmentioned DEF Sends
<1>3. /\ UNCHANGED <<phase, serial, sessionSteps, outcome, raised, records, report, page>>
      /\ phase[r] = "running" /\ place[r][s] = "waiting" /\ Moves(r, s, "setup")
  BY DEF Setup
<1>4. place'[r][s] = "setup"
  BY <1>1, <1>3, MovesOK DEF Positions
<1>5. SessionStory(r, s)'
  <2>1. SessionStory(r, s) /\ Calm(place[r][s], place'[r][s])
    BY <1>3, <1>4 DEF DashboardInv, Calm, Early, Late
  <2>2. place'[r][s] \notin Late
    BY <1>4 DEF Late
  <2>3. tracker' = tracker /\ shown' = shown
    BY <1>3 DEF page
  <2>4. QED
    BY <1>1, <1>2, <1>3, <2>1, <2>2, <2>3, UnmentionedStory
<1>6. QED
  BY <1>1, <1>2, <1>3, <1>5, SessionLevel DEF DashboardTypeOK, Positions

\* A session that is lost tells nothing of its end.
LEMMA SessionLostInv ==
  ASSUME DashboardInv, NEW r \in Runs, NEW s \in SessionIds, SessionLost(r, s)
  PROVE  DashboardInv'
<1>1. DashboardTypeOK /\ QueuesInv /\ UNCHANGED emitter
  BY DEF DashboardInv, SessionLost
<1>2. Sends(r, {}) /\ QueuesInv' /\ \A t \in Runs, z \in SessionIds : Unmentioned(t, z)
  BY <1>1, NothingSent, NothingUnmentioned DEF Sends
<1>3. /\ UNCHANGED <<phase, serial, sessionSteps, outcome, records, report, page>>
      /\ place[r][s] \in {"setup", "running", "acted", "stopping"} /\ Moves(r, s, "lost")
      /\ raised' = [raised EXCEPT ![r] = @ \cup {"failure"}]
  BY DEF SessionLost
<1>4. place'[r][s] = "lost"
  BY <1>1, <1>3, MovesOK DEF Positions
<1>5. SessionStory(r, s)'
  <2>1. SessionStory(r, s) /\ Calm(place[r][s], place'[r][s])
    BY <1>3, <1>4 DEF DashboardInv, Calm, Early, Late
  <2>2. place'[r][s] \notin Late
    BY <1>4 DEF Late
  <2>3. place[r][s] \notin Late
    BY <1>3 DEF Late
  <2>4. tracker' = tracker /\ shown' = shown
    BY <1>3 DEF page
  <2>5. QED
    BY <1>1, <1>2, <1>3, <2>1, <2>2, <2>3, <2>4, UnmentionedStory
<1>6. raised' \in [Runs -> SUBSET {"cancel", "failure"}]
  BY <1>1, <1>3 DEF DashboardTypeOK
<1>7. phase[r] \notin {"off", "worker"}
  BY <1>3, BegunOK
<1>8. QED
  BY <1>1, <1>2, <1>3, <1>5, <1>6, <1>7, SessionLevel DEF DashboardTypeOK, Positions

\* An observation is not shown.
LEMMA StepSuccessInv ==
  ASSUME DashboardInv, NEW r \in Runs, NEW s \in SessionIds, StepSuccess(r, s)
  PROVE  DashboardInv'
<1> DEFINE e == Event("observation", s, sessionSteps[r][s])
<1>0. sessionSteps[r][s] \in 0..MaxReactions
  BY DEF DashboardInv, DashboardTypeOK
<1>1. DashboardTypeOK /\ QueuesInv /\ e \in Collected /\ \A z : ~About(e, z)
  BY <1>0, EventOK DEF DashboardInv
<1>2. EmitLater(r, e)
  BY DEF StepSuccess
<1> HIDE DEF e
<1>3. Sends(r, {}) /\ QueuesInv' /\ \A t \in Runs, z \in SessionIds : Unmentioned(t, z)
  BY <1>1, <1>2, EmitLaterOK, LaterUnmentioned DEF Sends
<1>4. /\ UNCHANGED <<phase, serial, sessionSteps, outcome, raised, records, report, page>>
      /\ place[r][s] = "acted" /\ Moves(r, s, "running")
  BY DEF StepSuccess
<1>5. place'[r][s] = "running"
  BY <1>1, <1>4, MovesOK DEF Positions
<1>6. SessionStory(r, s)'
  <2>1. SessionStory(r, s) /\ Calm(place[r][s], place'[r][s])
    BY <1>4, <1>5 DEF DashboardInv, Calm, Early, Late
  <2>2. place'[r][s] \notin Late /\ place[r][s] \notin Late
    BY <1>4, <1>5 DEF Late
  <2>3. tracker' = tracker /\ shown' = shown
    BY <1>4 DEF page
  <2>4. QED
    BY <1>1, <1>3, <1>4, <2>1, <2>2, <2>3, UnmentionedStory
<1>7. phase[r] \notin {"off", "worker"}
  BY <1>4, BegunOK
<1>8. QED
  BY <1>1, <1>3, <1>4, <1>6, <1>7, SessionLevel DEF DashboardTypeOK, Positions

\* What is pending goes out: what comes after it is the end.
LEMMA EndSessionInv ==
  ASSUME DashboardInv, NEW r \in Runs, NEW s \in SessionIds, EndSession(r, s)
  PROVE  DashboardInv'
<1>1. DashboardTypeOK /\ QueuesInv /\ FlushPending(r)
  BY DEF DashboardInv, EndSession
<1>2. /\ Sends(r, {}) /\ QueuesInv' /\ \A t \in Runs, z \in SessionIds : Unmentioned(t, z)
      /\ ~dropped'[r] => Silent(pending'[r], s)
  <2>1. Sends(r, {}) /\ \A t \in Runs, z \in SessionIds : Unmentioned(t, z)
    BY <1>1, FlushPendingOK, FlushUnmentioned
  <2>2. ~dropped'[r] => pending'[r] = <<>>
    BY <1>1, FlushPendingOK
  <2>3. Silent(<<>>, s)
    BY DEF Silent
  <2>4. QED
    BY <2>1, <2>2, <2>3 DEF Sends
<1>3. /\ UNCHANGED <<phase, serial, sessionSteps, raised, records, report, page>>
      /\ place[r][s] \in {"setup", "running", "acted", "stopping"} /\ Moves(r, s, "ending")
  BY DEF EndSession
<1>4. place'[r][s] = "ending"
  BY <1>1, <1>3, MovesOK DEF Positions
<1>5. PICK o \in Scores \cup Failed : outcome' = [outcome EXCEPT ![r][s] = o]
  BY OutcomesAssumption DEF EndSession
<1>6. /\ outcome' \in [Runs -> [SessionIds -> Scores \cup Failed \cup {NoneYet}]]
      /\ outcome'[r][s] = o
      /\ \A t \in Runs, z \in SessionIds : t # r \/ z # s => outcome'[t][z] = outcome[t][z]
  BY <1>1, <1>5 DEF DashboardTypeOK
<1>7. SessionStory(r, s)'
  <2>1. SessionStory(r, s) /\ Calm(place[r][s], place'[r][s])
    BY <1>3, <1>4 DEF DashboardInv, Calm, Early, Late
  <2>2. place[r][s] \notin Late
    BY <1>3 DEF Late
  <2>3. outcome'[r][s] \in Scores \cup Failed
    BY <1>6
  <2>4. tracker' = tracker /\ shown' = shown
    BY <1>3 DEF page
  <2>5. QED
    BY <1>1, <1>2, <1>3, <2>1, <2>2, <2>3, <2>4, UnmentionedStory
<1>8. phase[r] \notin {"off", "worker"}
  BY <1>3, BegunOK
<1>9. place[r][s] # "ended" /\ sessionSteps' \in [Runs -> [SessionIds -> 0..MaxReactions]]
  BY <1>1, <1>3 DEF DashboardTypeOK
<1>10. raised' \in [Runs -> SUBSET {"cancel", "failure"}]
  BY <1>1, <1>3 DEF DashboardTypeOK
<1>11. QED
  BY <1>2, <1>3, <1>6, <1>7, <1>8, <1>9, <1>10, SessionLevel DEF Positions

\* The start is the first that is told of a session, also if events of other
\* sessions are still pending.
LEMMA SessionStartInv ==
  ASSUME DashboardInv, NEW r \in Runs, NEW s \in SessionIds, SessionStart(r, s)
  PROVE  DashboardInv'
<1> DEFINE e == Event("session_started", s, 0)
<1>1. /\ DashboardTypeOK /\ QueuesInv /\ e \in Events /\ StartOf(e, s) /\ ~EndOf(e, s)
      /\ \A z \in SessionIds : z # s => ~About(e, z)
  BY EventOK, BoundsOK DEF DashboardInv, StartOf, EndOf
<1>2. EmitNow(r, e)
  BY DEF SessionStart
<1> HIDE DEF e
<1>3. /\ Sends(r, {e}) /\ QueuesInv' /\ pending' = pending
      /\ ~dropped'[r] => queue'[r] = Append(queue[r], e)
  BY <1>1, <1>2, EmitNowOK DEF Sends
<1>4. /\ UNCHANGED <<phase, serial, outcome, raised, records, report, page>>
      /\ place[r][s] = "setup" /\ Moves(r, s, "running")
      /\ sessionSteps' = [sessionSteps EXCEPT ![r][s] = 0]
  BY DEF SessionStart
<1>5. place'[r][s] = "running"
  BY <1>1, <1>4, MovesOK DEF Positions
<1>6. /\ sessionSteps' \in [Runs -> [SessionIds -> 0..MaxReactions]]
      /\ sessionSteps'[r][s] = 0 /\ sessionSteps[r][s] = 0
      /\ \A t \in Runs, z \in SessionIds :
             t # r \/ z # s => sessionSteps'[t][z] = sessionSteps[t][z]
  <2>1. sessionSteps[r][s] = 0
    BY <1>4 DEF DashboardInv, SessionStory, EndInv, Early
  <2>2. QED
    BY <1>1, <1>4, <2>1, BoundsOK DEF DashboardTypeOK
<1>7. \A t \in Runs, z \in SessionIds : t # r \/ z # s => Unmentioned(t, z)
  BY <1>1, <1>2, NowUnmentioned
<1>8. SessionStory(r, s)'
  <2>1. SessionStory(r, s)
    BY DEF DashboardInv
  <2>2. tracker' = tracker /\ shown' = shown
    BY <1>4 DEF page
  <2>3. EndInv(r, s)'
    <3>1. ASSUME NEW k \in DOMAIN queue'[r], EndOf(queue'[r][k], s)
          PROVE  FALSE
      <4>1. \E j \in DOMAIN queue[r] : queue'[r][k] = queue[r][j]
        BY <1>1, <1>3, <3>1 DEF Sends, EndOf, Later
      <4>2. QED
        BY <1>4, <2>1, <3>1, <4>1 DEF SessionStory, EndInv
    <3>2. QED
      BY <1>5, <3>1 DEF EndInv, Early, Late
  <2>4. ASSUME ~dropped'[r]
        PROVE  /\ ~dropped[r] /\ Silent(Stream(r), s)
               /\ PutAt(Stream(r), Stream(r)', Len(queue[r]) + 1, e)
               /\ Stream(r) \in Seq(Events) /\ Stream(r)' \in Seq(Events)
    <3>1. ~dropped[r]
      BY <1>3, <2>4 DEF Sends
    <3>2. Silent(Stream(r), s)
      BY <1>4, <2>1, <3>1 DEF SessionStory, StreamInv, Early
    <3>3. queue[r] \in Seq(Events) /\ pending[r] \in Seq(Events)
      BY <1>1, StreamOK
    <3>4. Stream(r)' = Append(queue[r], e) \o pending[r]
      BY <1>3, <2>4 DEF Stream
    <3>5. /\ Append(queue[r], e) \o pending[r] \in Seq(Events)
          /\ queue[r] \o pending[r] \in Seq(Events)
      BY <1>1, <3>3, AppendProperties, ConcatProperties
    <3>6. QED
      BY <1>1, <3>1, <3>2, <3>3, <3>4, <3>5, StreamShapes DEF Stream
  <2>5. ~dropped'[r] /\ View(Stream(r), s, "setup", 0, shown[s])
            => View(Stream(r)', s, "running", 0, shown[s])
    BY <1>1, <2>4, StartEvent
  <2>6. ~dropped'[r] => Ordered(Stream(r)', s, 0)
    BY <1>1, <2>4, StartEvent
  <2>7. StreamInv(r, s)'
    BY <1>5, <1>6, <2>6 DEF StreamInv, Early, Late
  <2>8. tracker' = r => ShownInv(r, s)'
    BY <1>4, <1>5, <1>6, <2>1, <2>2, <2>4, <2>5 DEF SessionStory, ShownInv
  <2>9. QED
    BY <2>3, <2>7, <2>8 DEF SessionStory
<1>9. phase[r] \notin {"off", "worker"} /\ place[r][s] # "ended"
  BY <1>4, BegunOK
<1>10. /\ outcome' \in [Runs -> [SessionIds -> Scores \cup Failed \cup {NoneYet}]]
       /\ raised' \in [Runs -> SUBSET {"cancel", "failure"}] /\ outcome' = outcome
  BY <1>1, <1>4 DEF DashboardTypeOK
<1>11. QED
  BY <1>3, <1>4, <1>6, <1>7, <1>8, <1>9, <1>10, SessionLevel DEF Positions

\* Of s nothing has told an end before it ended.
LEMMA NoEndYet ==
  ASSUME QueuesInv, NEW r \in Runs, NEW s \in SessionIds, EndInv(r, s), place[r][s] # "ended"
  PROVE  \A k \in DOMAIN Stream(r) :
             /\ ~EndOf(Stream(r)[k], s)
             /\ k > Len(queue[r]) => \E j \in DOMAIN pending[r] : Stream(r)[k] = pending[r][j]
<1>1. /\ queue[r] \in Seq(Events) /\ pending[r] \in Seq(Events) /\ Stream(r) \in Seq(Events)
      /\ \A k \in DOMAIN pending[r] : pending[r][k].type \in Later
  BY StreamOK
<1>2. /\ Len(Stream(r)) = Len(queue[r]) + Len(pending[r])
      /\ \A k \in 1..Len(Stream(r)) :
             Stream(r)[k] = IF k <= Len(queue[r]) THEN queue[r][k]
                            ELSE pending[r][k - Len(queue[r])]
  <2>1. \A q, w \in Seq(Events) :
            /\ Len(q \o w) = Len(q) + Len(w)
            /\ \A k \in 1..Len(q \o w) :
                   (q \o w)[k] = IF k <= Len(q) THEN q[k] ELSE w[k - Len(q)]
    BY ConcatProperties
  <2>2. QED
    BY <1>1, <2>1 DEF Stream
<1>3. /\ Len(queue[r]) \in Nat /\ DOMAIN queue[r] = 1..Len(queue[r])
      /\ Len(pending[r]) \in Nat /\ DOMAIN pending[r] = 1..Len(pending[r])
      /\ DOMAIN Stream(r) = 1..Len(Stream(r))
  BY <1>1
<1>4. SUFFICES ASSUME NEW k \in DOMAIN Stream(r)
               PROVE  /\ ~EndOf(Stream(r)[k], s)
                      /\ k > Len(queue[r]) => \E j \in DOMAIN pending[r] : Stream(r)[k] = pending[r][j]
  OBVIOUS
<1>5. k \in 1..(Len(queue[r]) + Len(pending[r])) /\ k \in 1..Len(Stream(r))
  BY <1>2, <1>3
<1>6. CASE k <= Len(queue[r])
  <2>1. k \in DOMAIN queue[r] /\ Stream(r)[k] = queue[r][k] /\ ~(k > Len(queue[r]))
    <3>1. Stream(r)[k] = queue[r][k]
      BY <1>2, <1>5, <1>6
    <3>2. k \in 1..Len(queue[r]) /\ ~(k > Len(queue[r]))
      BY <1>3, <1>5, <1>6
    <3>3. QED
      BY <1>3, <3>1, <3>2
  <2>2. QED
    BY <2>1 DEF EndInv
<1>7. CASE ~(k <= Len(queue[r]))
  <2>1. k - Len(queue[r]) \in DOMAIN pending[r] /\ Stream(r)[k] = pending[r][k - Len(queue[r])]
    <3>1. Stream(r)[k] = pending[r][k - Len(queue[r])]
      BY <1>2, <1>5, <1>7
    <3>2. k - Len(queue[r]) \in 1..Len(pending[r])
      <4>1. \A a, b \in Nat : \A i \in 1..(a + b) : ~(i <= a) => i - a \in 1..b
        OBVIOUS
      <4>2. QED
        BY <1>3, <1>5, <1>7, <4>1
    <3>3. QED
      BY <1>3, <3>1, <3>2
  <2>2. QED
    BY <1>1, <2>1 DEF EndOf, Later
<1>8. QED
  BY <1>6, <1>7

\* A step is the last that is told of a session: none of it ended before.
LEMMA ReactSuccessInv ==
  ASSUME DashboardInv, NEW r \in Runs, NEW s \in SessionIds, ReactSuccess(r, s)
  PROVE  DashboardInv'
<1> DEFINE n == sessionSteps[r][s]
<1> DEFINE e == Event("step", s, n + 1)
<1>1. PICK to \in {"acted", "stopping"} : Moves(r, s, to)
  BY DEF ReactSuccess
<1>2. /\ UNCHANGED <<phase, serial, outcome, raised, records, report, page>>
      /\ place[r][s] = "running" /\ n < MaxReactions
      /\ sessionSteps' = [sessionSteps EXCEPT ![r][s] = n + 1]
      /\ EmitLater(r, Event("step", s, sessionSteps'[r][s]))
  BY DEF ReactSuccess
<1>3. DashboardTypeOK /\ QueuesInv /\ n \in Nat /\ n + 1 \in 0..MaxReactions
  <2>1. n \in 0..MaxReactions
    BY DEF DashboardInv, DashboardTypeOK
  <2>2. n \in Nat /\ n + 1 \in 0..MaxReactions
    BY <1>2, <2>1, BoundsOK
  <2>3. QED
    BY <2>2 DEF DashboardInv
<1>4. /\ sessionSteps' \in [Runs -> [SessionIds -> 0..MaxReactions]]
      /\ sessionSteps'[r][s] = n + 1
      /\ \A t \in Runs, z \in SessionIds :
             t # r \/ z # s => sessionSteps'[t][z] = sessionSteps[t][z]
  BY <1>2, <1>3 DEF DashboardTypeOK
<1>5. place'[r][s] = to /\ to \in Positions
  BY <1>1, <1>3, MovesOK DEF Positions
<1>6. EmitLater(r, e)
  BY <1>2, <1>4
<1>7. /\ e \in Collected /\ e \in Events /\ StepOf(e, s) /\ e.n = n + 1
      /\ \A z \in SessionIds : z # s => ~About(e, z)
  <2>1. e \in Collected
    BY <1>3, EventOK
  <2>2. e \in Events
    BY <2>1 DEF Collected, Events
  <2>3. StepOf(e, s) /\ e.n = n + 1 /\ \A z \in SessionIds : z # s => ~About(e, z)
    BY EventOK DEF StepOf
  <2>4. QED
    BY <2>1, <2>2, <2>3
<1> HIDE DEF e
<1>8. /\ Sends(r, {}) /\ QueuesInv'
      /\ ~dropped'[r] => \/ queue'[r] = queue[r] /\ pending'[r] = Append(pending[r], e)
                         \/ queue'[r] = queue[r] \o Append(pending[r], e) /\ pending'[r] = <<>>
  BY <1>3, <1>6, <1>7, EmitLaterOK DEF Sends
<1>9. \A t \in Runs, z \in SessionIds : t # r \/ z # s => Unmentioned(t, z)
  BY <1>3, <1>6, <1>7, LaterUnmentioned
<1>10. SessionStory(r, s)'
  <2>1. SessionStory(r, s) /\ EndInv(r, s)
    BY DEF DashboardInv, SessionStory
  <2>2. tracker' = tracker /\ shown' = shown
    BY <1>2 DEF page
  <2>3. EndInv(r, s)'
    <3>1. ASSUME NEW k \in DOMAIN queue'[r], EndOf(queue'[r][k], s)
          PROVE  FALSE
      <4>1. \E j \in DOMAIN queue[r] : queue'[r][k] = queue[r][j]
        BY <1>8, <3>1 DEF Sends, EndOf, Later
      <4>2. QED
        BY <1>2, <2>1, <3>1, <4>1 DEF EndInv
    <3>2. place'[r][s] \notin Early \cup Late
      BY <1>1, <1>5 DEF Early, Late
    <3>3. QED
      BY <3>1, <3>2 DEF EndInv
  <2>4. ASSUME ~dropped'[r]
        PROVE  /\ ~dropped[r] /\ Ordered(Stream(r), s, n)
               /\ PutAt(Stream(r), Stream(r)', Len(Stream(r)'), e)
               /\ Stream(r) \in Seq(Events) /\ Stream(r)' \in Seq(Events)
    <3>1. ~dropped[r]
      BY <1>8, <2>4 DEF Sends
    <3>2. Ordered(Stream(r), s, n)
      BY <2>1, <3>1 DEF SessionStory, StreamInv
    <3>3. queue[r] \in Seq(Events) /\ pending[r] \in Seq(Events)
      BY <1>3, StreamOK
    <3>4. Append(pending[r], e) \in Seq(Events)
      BY <1>7, <3>3, AppendProperties
    <3>5. Stream(r)' = queue[r] \o Append(pending[r], e)
      <4>1. (queue[r] \o Append(pending[r], e)) \o <<>> = queue[r] \o Append(pending[r], e)
        BY <1>7, <3>3, <3>4, StreamShapes
      <4>2. QED
        BY <1>8, <2>4, <4>1 DEF Stream
    <3>6. /\ queue[r] \o Append(pending[r], e) \in Seq(Events)
          /\ queue[r] \o pending[r] \in Seq(Events)
      BY <3>3, <3>4, ConcatProperties
    <3>7. QED
      BY <1>7, <3>1, <3>2, <3>3, <3>5, <3>6, StreamShapes DEF Stream
  <2>5. \A k \in DOMAIN Stream(r) : ~EndOf(Stream(r)[k], s)
    BY <1>2, <1>3, <2>1, NoEndYet
  <2>6. ~dropped'[r] => Ordered(Stream(r)', s, n + 1)
    BY <1>3, <1>7, <2>4, <2>5, StepEvent
  <2>7. StreamInv(r, s)'
    BY <1>1, <1>4, <1>5, <2>6 DEF StreamInv, Early, Late
  <2>8. ASSUME tracker' = r
        PROVE  ShownInv(r, s)'
    <3>1. ShownInv(r, s) /\ shown[s].steps \in Nat
      BY <1>3, <2>1, <2>2, <2>8 DEF SessionStory, DashboardTypeOK
    <3>2. ~dropped'[r] /\ View(Stream(r), s, "running", n, shown[s])
              => View(Stream(r)', s, to, n + 1, shown[s])
      BY <1>1, <1>3, <1>7, <2>4, <2>5, <3>1, StepEvent
    <3>3. QED
      BY <1>2, <1>4, <1>5, <2>2, <2>4, <3>1, <3>2 DEF ShownInv
  <2>9. QED
    BY <2>3, <2>7, <2>8 DEF SessionStory
<1>11. phase[r] \notin {"off", "worker"} /\ place[r][s] # "ended"
  BY <1>2, BegunOK
<1>12. /\ outcome' \in [Runs -> [SessionIds -> Scores \cup Failed \cup {NoneYet}]]
       /\ raised' \in [Runs -> SUBSET {"cancel", "failure"}] /\ outcome' = outcome
  BY <1>2, <1>3 DEF DashboardTypeOK
<1>13. \A t \in Runs, z \in SessionIds : t # r \/ z # s =>
           /\ sessionSteps'[t][z] = sessionSteps[t][z] /\ outcome'[t][z] = outcome[t][z]
           /\ Unmentioned(t, z)
  BY <1>4, <1>9, <1>12
<1>14. UNCHANGED <<phase, serial, report, page>> /\ records' = records
  BY <1>2
<1>15. QED
  BY <1>1, <1>4, <1>5, <1>8, <1>10, <1>11, <1>12, <1>13, <1>14, SessionLevel

\* The end overtakes what is pending, but that is of other sessions.
LEMMA SessionFinishedInv ==
  ASSUME DashboardInv, NEW r \in Runs, NEW s \in SessionIds, SessionFinished(r, s)
  PROVE  DashboardInv'
<1> DEFINE n == sessionSteps[r][s]
<1> DEFINE e == Event("session_finished", s, n)
<1>1. /\ UNCHANGED <<phase, serial, sessionSteps, outcome, report, page>>
      /\ place[r][s] = "ending" /\ Moves(r, s, "ended")
      /\ records' = [records EXCEPT ![r] = @ \cup {s}] /\ EmitNow(r, e)
      /\ raised' = IF outcome[r][s].error = "RunCancelError"
                   THEN [raised EXCEPT ![r] = @ \cup {"cancel"}] ELSE raised
  BY DEF SessionFinished
<1>2. DashboardTypeOK /\ QueuesInv /\ n \in 0..MaxReactions /\ n \in Nat
  <2>1. n \in 0..MaxReactions
    BY DEF DashboardInv, DashboardTypeOK
  <2>2. QED
    BY <2>1, BoundsOK DEF DashboardInv
<1>3. place'[r][s] = "ended"
  BY <1>1, <1>2, MovesOK DEF Positions
<1>4. /\ e \in Events /\ EndOf(e, s) /\ e.n = n
      /\ \A z \in SessionIds : z # s => ~About(e, z)
  BY <1>2, EventOK DEF EndOf
<1> HIDE DEF e
<1>5. /\ Sends(r, {e}) /\ QueuesInv' /\ pending' = pending
      /\ ~dropped'[r] => queue'[r] = Append(queue[r], e)
  BY <1>1, <1>2, <1>4, EmitNowOK DEF Sends
<1>6. \A t \in Runs, z \in SessionIds : t # r \/ z # s => Unmentioned(t, z)
  BY <1>1, <1>2, <1>4, NowUnmentioned
<1>7. SessionStory(r, s)'
  <2>1. SessionStory(r, s) /\ EndInv(r, s)
    BY DEF DashboardInv, SessionStory
  <2>2. tracker' = tracker /\ shown' = shown /\ sessionSteps' = sessionSteps /\ outcome' = outcome
    BY <1>1 DEF page
  <2>3. EndInv(r, s)'
    <3>1. ASSUME NEW k \in DOMAIN queue'[r], EndOf(queue'[r][k], s)
          PROVE  queue'[r][k].n = n
      <4>1. queue'[r][k] = e \/ \E j \in DOMAIN queue[r] : queue'[r][k] = queue[r][j]
        BY <1>5, <3>1 DEF Sends, EndOf, Later
      <4>2. QED
        BY <1>4, <2>1, <3>1, <4>1 DEF EndInv
    <3>2. outcome[r][s] \in Scores \cup Failed
      BY <1>1, <2>1 DEF EndInv, Late
    <3>3. QED
      BY <1>3, <2>2, <3>1, <3>2 DEF EndInv, Early
  <2>4. \A k \in DOMAIN Stream(r) :
            /\ ~EndOf(Stream(r)[k], s)
            /\ k > Len(queue[r]) => \E j \in DOMAIN pending[r] : Stream(r)[k] = pending[r][j]
    BY <1>1, <1>2, <2>1, NoEndYet
  <2>5. ASSUME ~dropped'[r]
        PROVE  /\ ~dropped[r] /\ Ordered(Stream(r), s, n) /\ Silent(pending[r], s)
               /\ PutAt(Stream(r), Stream(r)', Len(queue[r]) + 1, e)
               /\ Stream(r) \in Seq(Events) /\ Stream(r)' \in Seq(Events)
               /\ \A k \in DOMAIN Stream(r) : About(Stream(r)[k], s) => k < Len(queue[r]) + 1
    <3>1. ~dropped[r]
      BY <1>5, <2>5 DEF Sends
    <3>2. Ordered(Stream(r), s, n) /\ Silent(pending[r], s)
      BY <1>1, <2>1, <3>1 DEF SessionStory, StreamInv, Late
    <3>3. queue[r] \in Seq(Events) /\ pending[r] \in Seq(Events)
      BY <1>2, StreamOK
    <3>4. Stream(r)' = Append(queue[r], e) \o pending[r]
      BY <1>5, <2>5 DEF Stream
    <3>5. Append(queue[r], e) \o pending[r] \in Seq(Events) /\ Stream(r) \in Seq(Events)
      BY <1>4, <3>3, AppendProperties, ConcatProperties DEF Stream
    <3>6. PutAt(Stream(r), Stream(r)', Len(queue[r]) + 1, e)
      BY <1>4, <3>3, <3>4, StreamShapes DEF Stream
    <3>7. ASSUME NEW k \in DOMAIN Stream(r), About(Stream(r)[k], s)
          PROVE  k < Len(queue[r]) + 1
      <4>1. ~(k > Len(queue[r]))
        BY <2>4, <3>2, <3>7 DEF Silent
      <4>2. k \in Nat /\ Len(queue[r]) \in Nat
        BY <3>3, <3>5
      <4>3. QED
        BY <4>1, <4>2
    <3>8. QED
      BY <3>1, <3>2, <3>4, <3>5, <3>6, <3>7
  <2>6. /\ ~dropped'[r] => Ordered(Stream(r)', s, n)
        /\ ~dropped'[r] /\ View(Stream(r), s, "ending", n, shown[s])
               => View(Stream(r)', s, "ended", n, shown[s])
    BY <1>2, <1>4, <2>4, <2>5, EndEvent
  <2>7. StreamInv(r, s)'
    BY <1>3, <1>5, <2>2, <2>5, <2>6 DEF StreamInv, Early
  <2>8. tracker' = r => ShownInv(r, s)'
    BY <1>1, <1>3, <2>1, <2>2, <2>5, <2>6 DEF SessionStory, ShownInv
  <2>9. QED
    BY <2>3, <2>7, <2>8 DEF SessionStory
<1>8. phase[r] \notin {"off", "worker"} /\ place[r][s] # "ended"
  BY <1>1, BegunOK
<1>9. raised' \in [Runs -> SUBSET {"cancel", "failure"}]
  <2>1. raised \in [Runs -> SUBSET {"cancel", "failure"}]
    BY <1>2 DEF DashboardTypeOK
  <2>2. [raised EXCEPT ![r] = @ \cup {"cancel"}] \in [Runs -> SUBSET {"cancel", "failure"}]
    BY <2>1
  <2>3. QED
    BY <1>1, <2>1, <2>2
<1>10. /\ outcome' \in [Runs -> [SessionIds -> Scores \cup Failed \cup {NoneYet}]]
       /\ sessionSteps' \in [Runs -> [SessionIds -> 0..MaxReactions]]
       /\ outcome' = outcome /\ sessionSteps' = sessionSteps
  BY <1>1, <1>2 DEF DashboardTypeOK
<1>11. QED
  BY <1>1, <1>5, <1>6, <1>7, <1>8, <1>9, <1>10, SessionLevel DEF Positions

-----------------------------------------------------------------------------
(* The steps of the page.                                                   *)

\* The live view and the history view call an outcome the same.
LEMMA StatusOK ==
  ASSUME NEW o \in Scores \cup Failed
  PROVE  LiveStatus(o) \in ShownStatuses \ {"running"} /\ LiveStatus(o) = HistoryStatus(o)
<1>1. CASE o \in Scores
  <2>1. o.error = "none" /\ o.success \in BOOLEAN /\ o.finished \in {"yes", "no"}
    BY <1>1 DEF Scores
  <2>2. CASE o.success
    BY <2>1, <2>2 DEF LiveStatus, HistoryStatus, StatusFromOutcome, ShownStatuses
  <2>3. CASE ~o.success
    BY <2>1, <2>3 DEF LiveStatus, HistoryStatus, StatusFromOutcome, ShownStatuses
  <2>4. QED
    BY <2>1, <2>2, <2>3
<1>2. CASE o \in Failed
  <2>1. o.error \in Errors /\ ~o.success /\ o.finished = "unset" /\ o.error # "none"
    BY <1>2 DEF Failed, Errors
  <2>2. LiveSource(o.error) = RecordedSource(o.error)
    BY <2>1 DEF Errors, LiveSource, RecordedSource
  <2>3. LiveSource(o.error) \in {"agent", "benchmark", "cancelled"}
    BY DEF LiveSource
  <2>4. LiveStatus(o) = HistoryStatus(o)
    BY <2>2 DEF LiveStatus, HistoryStatus
  <2>5. LiveStatus(o) \in {"agent error", "benchmark error", "cancelled"}
    BY <2>1, <2>3 DEF LiveStatus, StatusFromOutcome
  <2>6. QED
    BY <2>4, <2>5 DEF ShownStatuses
<1>3. QED
  BY <1>1, <1>2

\* What the page then shows of s is what Shown says of the event taken.
LEMMA ShowOK ==
  ASSUME NEW view \in [SessionIds -> Displays],
         NEW h \in Events, tracker \in Runs, DashboardTypeOK,
         \A s \in SessionIds : EndOf(h, s) =>
             LiveStatus(outcome[tracker][s]) \in ShownStatuses
  PROVE  /\ Show(view, h) \in [SessionIds -> Displays]
         /\ \A s \in SessionIds : Show(view, h)[s] = Shown(h, s, view[s], outcome[tracker][s])
<1>1. /\ h.type \in {"session_started", "step", "session_finished"} => h.sid \in SessionIds
      /\ h.n \in Nat
  BY BoundsOK DEF Events
<1>2. CASE h.type = "session_started"
  <2>1. Show(view, h) = [view EXCEPT ![h.sid] = [status |-> "running", steps |-> 0]]
    BY <1>2 DEF Show
  <2>2. \A s \in SessionIds : Shown(h, s, view[s], outcome[tracker][s]) =
                                 IF s = h.sid THEN [status |-> "running", steps |-> 0] ELSE view[s]
    BY <1>2 DEF Shown, StartOf, StepOf, EndOf
  <2>3. [status |-> "running", steps |-> 0] \in Displays
    BY DEF ShownStatuses, Displays
  <2>4. QED
    BY <1>1, <1>2, <2>1, <2>2, <2>3
<1>3. CASE h.type = "step"
  <2>1. Show(view, h) = IF view[h.sid] # NotShown THEN ShowStep(view, h.sid) ELSE view
    BY <1>3 DEF Show
  <2>2. \A s \in SessionIds : Shown(h, s, view[s], outcome[tracker][s]) =
            IF s = h.sid /\ view[s] # NotShown THEN [view[s] EXCEPT !.steps = @ + 1] ELSE view[s]
    BY <1>3 DEF Shown, StartOf, StepOf, EndOf
  <2>3. ShowStep(view, h.sid) = [view EXCEPT ![h.sid] = [view[h.sid] EXCEPT !.steps = @ + 1]]
    BY DEF ShowStep
  <2>4. \A s \in SessionIds : [view[s] EXCEPT !.steps = @ + 1]
                                 \in Displays
    BY DEF Displays
  <2>5. h.sid \in SessionIds /\ DOMAIN view = SessionIds
    BY <1>1, <1>3
  <2>6. ShowStep(view, h.sid) \in [SessionIds -> Displays]
    BY <2>3, <2>4, <2>5
  <2>7. \A s \in SessionIds : ShowStep(view, h.sid)[s] =
            IF s = h.sid THEN [view[s] EXCEPT !.steps = @ + 1] ELSE view[s]
    BY <2>3, <2>5
  <2>8. QED
    BY <2>1, <2>2, <2>5, <2>6, <2>7
<1>4. CASE h.type = "session_finished"
  <2> DEFINE over == [status |-> LiveStatus(outcome[tracker][h.sid]), steps |-> h.n]
  <2>1. Show(view, h) = IF view[h.sid] # NotShown THEN [view EXCEPT ![h.sid] = over] ELSE view
    BY <1>4 DEF Show
  <2>2. \A s \in SessionIds : Shown(h, s, view[s], outcome[tracker][s]) =
            IF s = h.sid /\ view[s] # NotShown THEN over ELSE view[s]
    BY <1>4 DEF Shown, StartOf, StepOf, EndOf
  <2>3. over \in Displays
    BY <1>1, <1>4 DEF EndOf, Displays
  <2> HIDE DEF over
  <2>4. QED
    BY <1>1, <1>4, <2>1, <2>2, <2>3
<1>5. CASE h.type \notin {"session_started", "step", "session_finished"}
  BY <1>5 DEF Show, Shown, StartOf, StepOf, EndOf
<1>6. QED
  BY <1>2, <1>3, <1>4, <1>5

\* The page takes one event of its run.
LEMMA TakeEventInv ==
  ASSUME DashboardInv, TakeEvent
  PROVE  DashboardInv'
<1>0. PICK r \in Runs : r = tracker
  BY DEF DashboardInv, DashboardTypeOK, TakeEvent
<1> DEFINE h == Head(queue[r])
<1>1. /\ DashboardTypeOK /\ QueuesInv /\ RunInv /\ r \in Runs /\ queue[r] # <<>>
      /\ queue[r] \in Seq(Events)
  BY <1>0 DEF DashboardInv, DashboardTypeOK, TakeEvent, QueuesInv
<1>2. /\ Tail(queue[r]) \in Seq(Events) /\ Len(Tail(queue[r])) = Len(queue[r]) - 1
      /\ Len(queue[r]) \in Nat \ {0} /\ h = queue[r][1] /\ 1 \in DOMAIN queue[r]
      /\ \A k \in DOMAIN Tail(queue[r]) :
             k + 1 \in DOMAIN queue[r] /\ Tail(queue[r])[k] = queue[r][k + 1]
  BY <1>1, TailOK
<1>3. h \in Events
  BY <1>1, <1>2
<1>4. /\ UNCHANGED <<worker, pending, dropped, tracker>> /\ taken' = taken + 1 /\ taken < Burst
      /\ queue' = [queue EXCEPT ![r] = Tail(queue[r])] /\ shown' = Show(shown, h)
      /\ active' = (active /\ h.type # "saved")
      /\ scope' = IF h.type = "saved" THEN NoRun ELSE scope
  BY <1>0 DEF TakeEvent
<1>5. UNCHANGED <<phase, serial, place, sessionSteps, outcome, raised, records, report>>
  BY <1>4 DEF worker
<1>6. /\ queue' \in [Runs -> Seq(Events)] /\ queue'[r] = Tail(queue[r])
      /\ \A t \in Runs \ {r} : queue'[t] = queue[t]
  BY <1>1, <1>2, <1>4 DEF QueuesInv
<1>7. QueuesInv'
  BY <1>1, <1>4, <1>6 DEF QueuesInv
<1>8. ASSUME NEW s \in SessionIds, EndOf(h, s)
      PROVE  /\ place[r][s] = "ended" /\ h.n = sessionSteps[r][s]
             /\ outcome[r][s] \in Scores \cup Failed
             /\ LiveStatus(outcome[r][s]) \in ShownStatuses \ {"running"}
  <2>1. EndInv(r, s)
    BY DEF DashboardInv, SessionStory
  <2>2. place[r][s] = "ended" /\ h.n = sessionSteps[r][s]
    BY <1>2, <1>8, <2>1 DEF EndInv
  <2>3. outcome[r][s] \in Scores \cup Failed
    BY <2>1, <2>2 DEF EndInv, Late
  <2>4. QED
    BY <2>2, <2>3, StatusOK
<1>9. /\ shown' \in [SessionIds -> Displays]
      /\ \A s \in SessionIds : shown'[s] = Shown(h, s, shown[s], outcome[r][s])
  <2>1. \A s \in SessionIds : EndOf(h, s) => LiveStatus(outcome[tracker][s]) \in ShownStatuses
    BY <1>0, <1>8
  <2>2. shown \in [SessionIds -> Displays]
    BY <1>1 DEF DashboardTypeOK, Displays
  <2> HIDE DEF h
  <2>3. QED
    BY <1>0, <1>1, <1>3, <1>4, <2>1, <2>2, ShowOK
<1>10. DashboardTypeOK'
  <2>1. \A t \in Runs : Len(queue'[t]) <= Capacity /\ Len(pending'[t]) < Batch
    <3>1. \A t \in Runs : Len(queue[t]) <= Capacity /\ Len(pending[t]) < Batch
      BY <1>1 DEF DashboardTypeOK
    <3>2. Len(queue'[r]) <= Capacity
      BY <1>1, <1>2, <1>6, <3>1, BoundsOK
    <3>3. QED
      BY <1>4, <1>6, <3>1, <3>2
  <2>2. taken' \in 0..Burst
    BY <1>1, <1>4, BoundsOK DEF DashboardTypeOK
  <2>3. active' \in BOOLEAN /\ scope' = IF active' THEN tracker' ELSE NoRun
    BY <1>0, <1>1, <1>4 DEF DashboardTypeOK
  <2>4. QED
    BY <1>1, <1>4, <1>5, <1>9, <2>1, <2>2, <2>3 DEF DashboardTypeOK, Displays
<1>11. RunInv'
  <2>1. ASSUME NEW t \in Runs \ {r}
        PROVE  RunFacts(t)'
    BY <1>1, <1>4, <1>5, <1>6, RunKept DEF RunInv, DashboardTypeOK
  <2>2. RunFacts(r)'
    BY <1>1, <1>4, <1>5 DEF RunInv, RunFacts
  <2>3. QED
    BY <2>1, <2>2 DEF RunInv
<1>12. ASSUME NEW t \in Runs \ {r}, NEW s \in SessionIds
       PROVE  SessionStory(t, s)'
  <2>1. SessionStory(t, s)
    BY DEF DashboardInv
  <2>2. queue'[t] = queue[t] /\ pending' = pending /\ dropped' = dropped /\ tracker' # t
    BY <1>0, <1>4, <1>6
  <2>3. QED
    BY <1>5, <2>1, <2>2 DEF SessionStory, EndInv, StreamInv, Stream
<1>13. ASSUME NEW s \in SessionIds
       PROVE  SessionStory(r, s)'
  <2> DEFINE st == Stream(r)
  <2>1. SessionStory(r, s) /\ EndInv(r, s) /\ ShownInv(r, s)
    BY <1>0 DEF DashboardInv, SessionStory
  <2>2. pending[r] \in Seq(Events) /\ st \in Seq(Events)
    BY <1>1, StreamOK
  <2>3. st # <<>> /\ st[1] = h /\ Tail(st) = Tail(queue[r]) \o pending[r]
    <3>1. \A q, w \in Seq(Events) : q # <<>> =>
              q \o w # <<>> /\ (q \o w)[1] = Head(q) /\ Tail(q \o w) = Tail(q) \o w
      BY TailConcat
    <3>2. QED
      BY <1>1, <2>2, <3>1 DEF Stream
  <2>4. Stream(r)' = Tail(st)
    BY <1>4, <1>6, <2>3 DEF Stream
  <2>5. EndInv(r, s)'
    BY <1>2, <1>4, <1>5, <1>6, <2>1 DEF EndInv
  <2>6. sessionSteps[r][s] \in Nat /\ shown[s].steps \in Nat
        /\ shown[s] \in Displays
    BY <1>1, BoundsOK DEF DashboardTypeOK, Displays
  <2>7. ASSUME ~dropped'[r]
        PROVE  /\ Ordered(st, s, sessionSteps[r][s])
               /\ place[r][s] \in Early => Silent(st, s)
               /\ place[r][s] \in Late => Silent(pending[r], s)
               /\ View(st, s, place[r][s], sessionSteps[r][s], shown[s])
    BY <1>4, <2>1, <2>7 DEF SessionStory, StreamInv, ShownInv
  <2> DEFINE v == Shown(h, s, shown[s], outcome[r][s])
  <2>8. ASSUME ~dropped'[r]
        PROVE  /\ Ordered(Tail(st), s, sessionSteps[r][s])
               /\ View(Tail(st), s, place[r][s], sessionSteps[r][s], v)
    <3>1. shown[s].status = "absent" => shown[s] = NotShown
      BY <2>1 DEF ShownInv
    <3>2. EndOf(st[1], s) => /\ st[1].n = sessionSteps[r][s] /\ place[r][s] = "ended"
                             /\ LiveStatus(outcome[r][s]) \notin {"absent", "running"}
      BY <1>8, <2>3 DEF ShownStatuses
    <3> HIDE DEF st, h
    <3>3. QED
      BY <2>2, <2>3, <2>6, <2>7, <2>8, <3>1, <3>2, TakenView
  <2>9. StreamInv(r, s)'
    <3>1. ASSUME ~dropped'[r], place[r][s] \in Early
          PROVE  Silent(Tail(st), s)
      <4>1. \A k \in DOMAIN Tail(st) : k + 1 \in DOMAIN st /\ Tail(st)[k] = st[k + 1]
        BY <2>2, <2>3, TailOK
      <4>2. QED
        BY <2>7, <3>1, <4>1 DEF Silent
    <3>2. QED
      BY <1>4, <1>5, <2>4, <2>7, <2>8, <3>1 DEF StreamInv
  <2>10. ShownInv(r, s)'
    <3>1. shown'[s] = v
      BY <1>9
    <3>2. v.status = "absent" => v = NotShown
      BY <1>8, <2>1, <2>6 DEF Shown, ShownInv, NotShown, ShownStatuses, Displays
    <3>3. v.status \notin {"absent", "running"} =>
              place[r][s] = "ended" /\ v.status = LiveStatus(outcome[r][s])
      <4>1. CASE StartOf(h, s)
        BY <4>1 DEF Shown, StartOf, StepOf, EndOf
      <4>2. CASE StepOf(h, s) /\ shown[s] # NotShown
        <5>1. v.status = shown[s].status
          BY <2>6, <4>2 DEF Shown, StartOf, StepOf, EndOf
        <5>2. QED
          BY <2>1, <5>1 DEF ShownInv
      <4>3. CASE EndOf(h, s) /\ shown[s] # NotShown
        BY <1>8, <4>3 DEF Shown, StartOf, StepOf, EndOf
      <4>4. CASE ~StartOf(h, s) /\ (About(h, s) => shown[s] = NotShown)
        <5>1. v = shown[s]
          BY <4>4 DEF Shown, About
        <5>2. QED
          BY <2>1, <5>1 DEF ShownInv
      <4>5. QED
        BY <4>1, <4>2, <4>3, <4>4 DEF About
    <3> HIDE DEF v
    <3>4. QED
      BY <1>4, <1>5, <2>4, <2>8, <3>1, <3>2, <3>3 DEF ShownInv
  <2>11. QED
    BY <2>5, <2>9, <2>10 DEF SessionStory
<1>14. QED
  BY <1>7, <1>10, <1>11, <1>12, <1>13 DEF DashboardInv

\* At the end of a refresh it looks at the thread.
LEMMA EndRefreshInv ==
  ASSUME DashboardInv, EndRefresh
  PROVE  DashboardInv'
<1>1. /\ DashboardTypeOK /\ QueuesInv /\ RunInv
      /\ UNCHANGED <<phase, serial, place, sessionSteps, outcome, raised, records, report>>
      /\ UNCHANGED emitter /\ tracker' = tracker /\ shown' = shown
  BY DEF DashboardInv, EndRefresh, worker
<1>2. queue' = queue /\ pending' = pending /\ dropped' = dropped
  BY <1>1 DEF emitter
<1>3. taken' \in 0..Burst /\ active' \in BOOLEAN /\ scope' = IF active' THEN tracker' ELSE NoRun
  <2>1. taken' \in 0..Burst
    BY BoundsOK DEF EndRefresh
  <2>2. active \in BOOLEAN /\ scope = IF active THEN tracker ELSE NoRun
    BY <1>1 DEF DashboardTypeOK
  <2>3. CASE active /\ ThreadDead
    BY <1>1, <2>1, <2>3 DEF EndRefresh
  <2>4. CASE ~(active /\ ThreadDead)
    <3>1. active' = active /\ scope' = scope
      BY <2>2, <2>4 DEF EndRefresh
    <3>2. QED
      BY <1>1, <2>1, <2>2, <3>1
  <2>5. QED
    BY <2>3, <2>4
<1>4. DashboardTypeOK'
  BY <1>1, <1>2, <1>3 DEF DashboardTypeOK
<1>5. QueuesInv' /\ RunInv'
  BY <1>1, <1>2 DEF QueuesInv, RunInv, RunFacts
<1>6. \A t \in Runs, s \in SessionIds : SessionStory(t, s)'
  <2>1. ASSUME NEW t \in Runs, NEW s \in SessionIds
        PROVE  SessionStory(t, s)'
    <3>1. SessionStory(t, s) /\ Stays(t, s) /\ Unmentioned(t, s)
      BY <1>1, NothingUnmentioned DEF DashboardInv, Stays
    <3>2. QED
      BY <1>1, <1>5, <3>1, StaysStory
  <2>2. QED
    BY <2>1
<1>7. QED
  BY <1>4, <1>5, <1>6 DEF DashboardInv

\* The new run has told nothing yet, and the page shows nothing of it.
LEMMA StartRunInv ==
  ASSUME DashboardInv, StartRun
  PROVE  DashboardInv'
<1> DEFINE r == tracker + 1
<1>1. /\ UNCHANGED <<taken, place, sessionSteps, outcome, raised, records, report>>
      /\ UNCHANGED emitter /\ tracker' = r /\ tracker < Len(Planned)
      /\ scope' = r /\ active' = TRUE /\ shown' = CleanSlate
      /\ phase' = [phase EXCEPT ![r] = "worker"]
      /\ \E one \in BOOLEAN : serial' = [serial EXCEPT ![r] = one]
  BY DEF StartRun
<1>2. DashboardTypeOK /\ QueuesInv /\ RunInv
  BY DEF DashboardInv
<1>3. r \in Runs /\ tracker \in Nat /\ \A t \in Runs : t \in Nat
  BY <1>1, <1>2, BoundsOK DEF DashboardTypeOK, Runs, NoRun
<1>4. queue' = queue /\ pending' = pending /\ dropped' = dropped
  BY <1>1 DEF emitter
<1>5. phase' \in [Runs -> RunPhases] /\ serial' \in [Runs -> BOOLEAN]
  BY <1>1, <1>2 DEF DashboardTypeOK, RunPhases
<1>6. shown' \in [SessionIds -> Displays]
  BY <1>1 DEF CleanSlate, NotShown, Displays
<1> HIDE DEF r
<1>7. DashboardTypeOK'
  BY <1>1, <1>2, <1>3, <1>4, <1>5, <1>6 DEF DashboardTypeOK, RunPhases, Displays
<1>8. phase[r] = "off"
  <2>1. r > tracker
    BY <1>3 DEF r
  <2>2. QED
    BY <1>2, <1>3, <2>1 DEF RunInv, RunFacts
<1>9. /\ \A s \in SessionIds : place[r][s] = "waiting"
      /\ queue[r] = <<>> /\ pending[r] = <<>> /\ records[r] = {}
  BY <1>2, <1>3, <1>8 DEF RunInv, RunFacts
<1>10. QueuesInv' /\ RunInv'
  <2>1. \A t \in Runs : t > r => t > tracker
    BY <1>3 DEF r
  <2>2. phase \in [Runs -> RunPhases] /\ ~(r > r)
    BY <1>2, <1>3 DEF DashboardTypeOK, RunPhases
  <2>3. ASSUME NEW t \in Runs
        PROVE  RunFacts(t)'
    <3>1. RunFacts(t)
      BY <1>2 DEF RunInv
    <3>2. CASE t = r
      BY <1>1, <1>3, <1>4, <1>9, <2>2, <3>1, <3>2 DEF RunFacts
    <3>3. CASE t # r
      <4>1. phase'[t] = phase[t]
        BY <1>1, <2>2, <3>3
      <4>2. QED
        BY <1>1, <1>3, <1>4, <2>1, <3>1, <4>1 DEF RunFacts
    <3>4. QED
      BY <3>2, <3>3
  <2>4. QED
    BY <1>2, <1>4, <2>3 DEF QueuesInv, RunInv
<1>11. ASSUME NEW t \in Runs, NEW s \in SessionIds
       PROVE  SessionStory(t, s)'
  <2>1. SessionStory(t, s)
    BY DEF DashboardInv
  <2>2. EndInv(t, s)' /\ StreamInv(t, s)'
    BY <1>1, <1>4, <2>1 DEF SessionStory, EndInv, StreamInv, Stream
  <2>3. ASSUME t = r
        PROVE  ShownInv(t, s)'
    <3>1. shown'[s] = NotShown
      BY <1>1 DEF CleanSlate
    <3>2. place'[t][s] = "waiting" /\ sessionSteps'[t][s] = 0
      BY <1>1, <1>9, <2>1, <2>3 DEF SessionStory, EndInv, Early
    <3>3. ~Started(Stream(t)', s)
      <4>1. Stream(t)' = <<>> \o <<>>
        BY <1>4, <1>9, <2>3 DEF Stream
      <4>2. Stream(t)' = <<>>
        BY <4>1
      <4>3. QED
        BY <4>2 DEF Started
    <3>4. Unseen(Stream(t)', s, "waiting", 0)
      BY <3>3 DEF Unseen, Early
    <3>5. QED
      BY <3>1, <3>2, <3>4 DEF ShownInv, View, NotShown
  <2>4. QED
    BY <1>1, <2>2, <2>3 DEF SessionStory
<1>12. QED
  BY <1>7, <1>10, <1>11 DEF DashboardInv

-----------------------------------------------------------------------------
\* Nothing is started yet.
LEMMA DashboardInit_Inv ==
  ASSUME DashboardInit
  PROVE  DashboardInv
<1>1. DashboardTypeOK
  <2>1. \A r \in Runs : Len(queue[r]) = 0 /\ Len(pending[r]) = 0
    BY DEF DashboardInit
  <2>2. \A r \in Runs : Len(queue[r]) <= Capacity /\ Len(pending[r]) < Batch
    BY <2>1, BoundsOK
  <2>3. /\ tracker = NoRun /\ active = FALSE /\ scope = NoRun /\ taken \in 0..Burst
        /\ shown \in [SessionIds -> Displays]
    BY BoundsOK DEF DashboardInit, NotShown, Displays
  <2>4. /\ phase \in [Runs -> RunPhases] /\ serial \in [Runs -> BOOLEAN]
        /\ raised \in [Runs -> SUBSET {"cancel", "failure"}]
        /\ place \in [Runs -> [SessionIds -> Positions]] /\ dropped \in [Runs -> BOOLEAN]
        /\ records \in [Runs -> SUBSET SessionIds] /\ report \in [Runs -> SUBSET SessionIds]
    BY DEF DashboardInit, RunPhases, Positions
  <2>5. /\ sessionSteps \in [Runs -> [SessionIds -> 0..MaxReactions]]
        /\ outcome \in [Runs -> [SessionIds -> Scores \cup Failed \cup {NoneYet}]]
    BY BoundsOK DEF DashboardInit
  <2>6. QED
    BY <2>2, <2>3, <2>4, <2>5 DEF DashboardTypeOK, RunPhases, Positions, Displays
<1>2. QueuesInv
  BY DEF DashboardInit, QueuesInv
<1>3. RunInv
  BY DEF DashboardInit, RunInv, RunFacts
<1>4. ASSUME NEW t \in Runs, NEW s \in SessionIds
      PROVE  SessionStory(t, s)
  <2>1. /\ queue[t] = <<>> /\ pending[t] = <<>> /\ place[t][s] = "waiting"
        /\ sessionSteps[t][s] = 0 /\ tracker # t
    BY BoundsOK DEF DashboardInit
  <2>2. Stream(t) = <<>>
    BY <2>1 DEF Stream
  <2>3. EndInv(t, s)
    BY <2>1 DEF EndInv, Late
  <2>4. StreamInv(t, s)
    BY <2>1, <2>2 DEF StreamInv, Ordered, Silent, Late
  <2>5. QED
    BY <2>1, <2>3, <2>4 DEF SessionStory
<1>5. QED
  BY <1>1, <1>2, <1>3, <1>4 DEF DashboardInv

\* Every step keeps the invariant.
LEMMA DashboardNext_Inv ==
  ASSUME DashboardInv, [DashboardNext]_dashboardVars
  PROVE  DashboardInv'
<1>1. CASE UNCHANGED dashboardVars
  BY <1>1 DEF dashboardVars, worker, emitter, page, DashboardInv, DashboardTypeOK, QueuesInv,
     RunInv, RunFacts, SessionStory, EndInv, StreamInv, Stream, ShownInv
<1>2. ASSUME NEW r \in Runs, RunStep(r)
      PROVE  DashboardInv'
  BY <1>2, BeginInv, SavedInv, RunSuccessInv, LastFlushInv, UnsentInv, SetupInv DEF RunStep
<1>3. ASSUME NEW r \in Runs, NEW s \in SessionIds, SessionStep(r, s)
      PROVE  DashboardInv'
  BY <1>3, SessionStartInv, ReactSuccessInv, StepSuccessInv, EndSessionInv, SessionFinishedInv,
     SessionLostInv DEF SessionStep
<1>4. CASE StartRun \/ Refresh
  BY <1>4, StartRunInv, TakeEventInv, EndRefreshInv DEF Refresh
<1>5. QED
  BY <1>1, <1>2, <1>3, <1>4 DEF DashboardNext

\* Nothing is under way: what the page shows is all there is.
LEMMA DrainedIsTrue ==
  ASSUME DashboardInv, Drained, ~dropped[tracker], NEW s \in SessionIds
  PROVE  shown[s] \in Truth(s)
<1> DEFINE r == tracker
<1> DEFINE n == sessionSteps[r][s]
<1> DEFINE v == shown[s]
<1>1. DashboardTypeOK /\ r \in Runs /\ SessionStory(r, s)
  BY DEF DashboardInv, DashboardTypeOK, Drained
<1>2. /\ n \in Nat /\ place[r][s] \in Positions
      /\ v \in Displays
  BY <1>1, BoundsOK DEF DashboardTypeOK, Positions, Displays
<1>3. Stream(r) = <<>>
  BY DEF Drained, Stream
<1>4. /\ v.status = "absent" => v = NotShown
      /\ v.status \notin {"absent", "running"} => v.status = LiveStatus(outcome[r][s])
      /\ View(<<>>, s, place[r][s], n, v)
  BY <1>1, <1>3 DEF SessionStory, ShownInv
<1>5. v = [status |-> v.status, steps |-> v.steps]
  BY <1>2 DEF Displays
<1>6. CASE v.status = "absent"
  <2>1. n = 0 /\ place[r][s] \in Early \cup Late \cup {"lost"}
    BY <1>4, <1>6 DEF View, Unseen, Started
  <2>2. QED
    BY <1>4, <1>6, <2>1 DEF Truth, Early, Late
<1>7. CASE v.status = "running"
  <2>1. Seen(<<>>, s, place[r][s], n, v.steps)
    BY <1>4, <1>7 DEF View
  <2>2. place[r][s] \notin Early /\ place[r][s] # "ended" /\ v.steps <= n
    BY <2>1 DEF Seen, EndTold
  <2>3. v.steps = n
    <3>1. SUFFICES ASSUME v.steps < n
                   PROVE  FALSE
      BY <1>2, <2>2 DEF Displays
    <3>2. n \in (v.steps + 1)..n
      BY <1>2, <3>1 DEF Displays
    <3>3. QED
      BY <2>1, <3>2 DEF Seen, Coming
  <2>4. v = [status |-> "running", steps |-> n]
    BY <1>5, <1>7, <2>3
  <2>5. QED
    BY <1>2, <2>2, <2>4 DEF Truth, Early, Positions
<1>8. CASE v.status \notin {"absent", "running"}
  <2>1. place[r][s] = "ended" /\ v.steps = n
    BY <1>4, <1>8 DEF View, Past
  <2>2. v = [status |-> LiveStatus(outcome[r][s]), steps |-> n]
    BY <1>4, <1>5, <1>8, <2>1
  <2>3. QED
    BY <1>2, <2>1, <2>2 DEF Truth
<1>9. QED
  BY <1>6, <1>7, <1>8

\* Both views agree in every state of the invariant.
LEMMA ViewsFollow ==
  ASSUME DashboardInv
  PROVE  ViewsAgree
<1>1. ShownFaithful
  BY DrainedIsTrue DEF ShownFaithful
<1>2. HistoryAgrees
  <2>1. SUFFICES ASSUME tracker # NoRun, NEW s \in report[tracker]
                 PROVE  shown[s].status \in {"absent", "running", HistoryStatus(outcome[tracker][s])}
    BY DEF HistoryAgrees
  <2>2. DashboardTypeOK /\ RunInv /\ tracker \in Runs
    BY <2>1 DEF DashboardInv, DashboardTypeOK
  <2>3. s \in SessionIds /\ place[tracker][s] = "ended"
    BY <2>1, <2>2 DEF RunInv, RunFacts, DashboardTypeOK
  <2>4. SessionStory(tracker, s)
    BY <2>2, <2>3 DEF DashboardInv
  <2>5. outcome[tracker][s] \in Scores \cup Failed
    BY <2>3, <2>4 DEF SessionStory, EndInv, Late
  <2>6. shown[s].status \notin {"absent", "running"} =>
            shown[s].status = LiveStatus(outcome[tracker][s])
    BY <2>4 DEF SessionStory, ShownInv
  <2>7. QED
    BY <2>5, <2>6, StatusOK
<1>3. QED
  BY <1>1, <1>2 DEF ViewsAgree, DashboardInv

\* Whatever is sent in two ways, lost in a full queue or taken out in bursts,
\* once nothing is under way the page shows each session of its run as it is,
\* and in no state a session that is over other than the results file does.
THEOREM ViewsAlwaysAgree == DashboardSpec => []ViewsAgree
<1>1. DashboardInit => DashboardInv
  BY DashboardInit_Inv
<1>2. DashboardInv /\ [DashboardNext]_dashboardVars => DashboardInv'
  BY DashboardNext_Inv
<1>3. DashboardInv => ViewsAgree
  BY ViewsFollow
<1>4. QED
  BY <1>1, <1>2, <1>3, PTL DEF DashboardSpec
=============================================================================
