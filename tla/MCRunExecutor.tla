---------------------------- MODULE MCRunExecutor ----------------------------
(* Instances of RunExecutor for TLC. *)
EXTENDS RunExecutor

CONSTANTS t1, t2, t3

MCTasks == {t1, t2, t3}

Config(m, w, o) == [mode |-> m, workers |-> w, overwrite |-> o]

\* Every pair of entry point, serial or pooled execution, and overwriting.
MCConfigs == {Config("evaluate", 2, FALSE), Config("execute", 2, TRUE),
              Config("evaluate", 1, TRUE), Config("execute", 1, FALSE),
              Config("aggregate", 1, FALSE)}

\* What the three sessions have on disk, with and without sessions to reuse.
Disk(a, b, c) == [t \in MCTasks |-> CASE t = t1 -> a [] t = t2 -> b
                                      [] OTHER -> c]
MCOnDisk == {Disk("absent", "absent", "absent"),
             Disk("absent", "absent", "completed"),
             Disk("absent", "completed", "invalid")}
=============================================================================
