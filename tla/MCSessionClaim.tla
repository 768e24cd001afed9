--------------------------- MODULE MCSessionClaim ---------------------------
(* Instances of SessionClaim for TLC. *)
EXTENDS SessionClaim, TLC

CONSTANTS w1, w2, w3, r1

MCPair == {w1, w2}
MCTrio == {w1, w2, w3}
MCReader == {r1}
MCOne == {w3}
MCNone == {}

\* What survives in results.json from earlier runs, killed ones included.
MCAnyFile == {"absent", "partial", "invalid", "success", "limit_reached",
              "error"}
MCWholeFile == MCAnyFile \ {"partial", "invalid"}
MCOutcomes == {"success", "limit_reached", "error"}
MCSettled == {"success", "unsuccessful", "unfinished", "limit_reached"}

\* The workers that do not overwrite are interchangeable.
MCSymmetry == Permutations({w1, w2})
=============================================================================
