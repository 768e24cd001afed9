------------------------------ MODULE MCBatch ------------------------------
(* Instances of Batch for TLC. *)
EXTENDS Batch

CONSTANTS a, b, t1, t2

\* Two config files of one run, which ask for the same sessions.
MCTwins == <<a, b>>
\* RunConfigs, or the second one is a SessionConfig that overwrites.
MCKinds == {[f \in {a, b} |-> {}], [f \in {a, b} |-> IF f = b THEN {"single", "overwrite"} ELSE {}]}
MCTasks == {t1, t2}
=============================================================================
