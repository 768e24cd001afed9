------------------------------ MODULE MCTracing ------------------------------
(* Two sessions, each of a run of its own (batch evaluate).                  *)
EXTENDS Tracing
CONSTANTS a, b, r1, r2
MCSessions == {a, b}
MCRuns == {r1, r2}
MCRunOf == (a :> r1) @@ (b :> r2)
MCRunners == {[benchmark |-> "service", agent |-> "thread"],
              [benchmark |-> "child", agent |-> "service"]}
MCCalls == (a :> 1) @@ (b :> 0)
=============================================================================
