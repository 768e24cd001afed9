----------------------------- MODULE SessionSlot -----------------------------
(***************************************************************************)
(* What a session directory promises to the runs that share it: nobody or  *)
(* one worker executes the session; an outcome that settles the session    *)
(* stays, and only a worker that overwrites it, or whose observers refuse  *)
(* it when they are handed it, may execute the session again.              *)
(***************************************************************************)
CONSTANTS Workers, Overwriters, SettledOutcomes

VARIABLES
  executing,  \* the set of workers that execute the session
  refused,    \* the workers whose observers refused the outcome
  outcome     \* the settled outcome, or "todo"

Init == /\ executing = {} /\ refused = {}
        /\ outcome \in SettledOutcomes \cup {"todo"}

\* An observer of a worker raises on the outcome it is to reuse.
Refuse(w) == /\ executing = {}
             /\ refused' = refused \cup {w}
             /\ UNCHANGED <<executing, outcome>>

\* That worker dies before it starts the session.
Withdraw(w) == /\ executing = {}
               /\ refused' = refused \ {w}
               /\ UNCHANGED <<executing, outcome>>

\* A worker starts the session; an overwriting one may drop its outcome.
Claim(w) ==
  /\ executing = {}
  /\ executing' = {w}
  /\ \/ (outcome = "todo" \/ w \in refused) /\ UNCHANGED outcome
     \/ w \in Overwriters /\ outcome' \in {outcome, "todo"}
  /\ UNCHANGED refused

\* The outcome goes when the worker records one of its own.
Discard ==
  /\ executing # {}
  /\ executing \subseteq Overwriters \cup refused
  /\ outcome' = "todo"
  /\ UNCHANGED <<executing, refused>>

\* The session ends with an outcome, or without one.
Finish(w) ==
  /\ executing = {w}
  /\ executing' = {}
  /\ refused' = refused \ {w}
  /\ outcome' \in SettledOutcomes \cup {outcome}

Next == Discard \/ \E w \in Workers :
          Refuse(w) \/ Withdraw(w) \/ Claim(w) \/ Finish(w)

Spec == Init /\ [][Next]_<<executing, refused, outcome>>
=============================================================================
