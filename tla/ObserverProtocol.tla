--------------------------- MODULE ObserverProtocol ---------------------------
(***************************************************************************)
(* The life cycle an observer may rely on (core/orchestrator/observer.py): *)
(* the order of the session callbacks, of which event is the last one.     *)
(* A session may stop being reported at any point.                         *)
(***************************************************************************)
VARIABLE event

\* The callbacks that may follow each callback.
Follows == [
  none          |-> {"enter"},
  enter         |-> {"creation"},
  creation      |-> {"start", "error"},
  start         |-> {"react_success", "react_error", "scoring", "error"},
  react_success |-> {"step_success", "step_error", "scoring", "error"},
  react_error   |-> {"error"},
  step_success  |-> {"react_success", "react_error", "scoring", "error"},
  step_error    |-> {"error"},
  scoring       |-> {"success"},
  success       |-> {},
  error         |-> {}]

Init == event = "none"

Next == event' \in Follows[event]

Spec == Init /\ [][Next]_event
=============================================================================
