---------------------------- MODULE MCDashboard ----------------------------
(* Two runs of the dashboard; the second reuses the results of the first. *)
EXTENDS Dashboard
CONSTANTS s1, s2

MCIds      == {s1, s2}
MCPlanned  == <<{s1, s2}, {}>>

\* A score of a session that stopped at a limit, and a cancellation.
MCOutcomes ==
    {o \in Scores \cup Failed :
        \/ o.success /\ o.finished = "no"
        \/ o.error = "RunCancelError"}
=============================================================================
