-------------------------- MODULE EnvironmentProofs --------------------------
(***************************************************************************)
(* Theorems about Environment, for any number of processes that install    *)
(* and uninstall: its types, that an environment is built once, and what   *)
(* an install hands over or leaves when it fails.                          *)
(***************************************************************************)
EXTENDS Environment, TLAPS

\* Where a process is that went through the lock.
Building == {"unmark", "unmarking", "build", "fill", "aside", "base", "bench",
             "image", "publish", "restore", "lost"}
Marking  == {"mark", "marking"}
Busy(a)  == pc[a] \in {"check"} \cup Building \cup Marking

\* The marker has been truncated by a, which knows what to write.
Writing(a) == pc[a] \in {"unmarking", "marking"}

\* What a marker entry of the running version promises.
Complete(t) ==
  /\ t = "venv" => built["venv"] = "current"
  /\ t = "docker" => built["docker"] # "none"

-----------------------------------------------------------------------------
(***************************************************************************)
(* The invariant, in parts.                                                *)
(***************************************************************************)
Named == \A a \in Installers : want[a] \in EnvType
Bare  == ~dir => marker = Empty

\* The lock is with the one installer behind it, and a process that uninstalls
\* is alone as long as nothing is blemished.
Exclusive == \A a \in Installers : Busy(a) => lock = a /\ dir
Alone ==
  \A u \in Removers : Active(u) => dir /\ \A a \in Actors \ {u} : ~Active(a)

\* Which backend is at work, its directories, and what a failed build puts back.
Placed(a) ==
  /\ pc[a] \in {"fill", "aside", "publish", "restore", "lost"} => want[a] = "venv"
  /\ pc[a] \in {"base", "bench", "image"} => want[a] = "docker"
Kept(a) ==
  /\ pc[a] \in {"fill", "aside", "publish", "restore", "lost"} => a \in scratch
  /\ had[a] /\ pc[a] \in {"fill", "aside"} => VenvExists
  /\ had[a] /\ pc[a] \in {"publish", "restore"} => VenvExists \/ trash # "none"

\* A truncated marker will say what is there, and of the type that is being
\* built nothing until it is complete.
Written(a) ==
  Writing(a) => torn /\ \A t \in EnvType : tmp[a][t] = "current" => Complete(t)
Marked(a) ==
  /\ pc[a] \in Marking => Complete(want[a])
  /\ pc[a] = "marking" => tmp[a][want[a]] = "current"
  /\ pc[a] = "unmarking" => tmp[a][want[a]] = "none"
  /\ pc[a] \in Building \ {"unmark", "unmarking"} =>
       ReadMarker[want[a]] # "current"

\* An entry that can be read is true, unless it is about to be removed.
Removing(u, t) ==
  pc[u] \in {"delete", "deleting", "unmark", "deleted"} /\ t \in Asked(u)
Trusted ==
  \A t \in EnvType : ReadMarker[t] = "current" =>
    Complete(t) \/ \E u \in Removers : Removing(u, t)

\* A build that is counted is in the marker, on its way there, or about to be
\* replaced; one that is not forced finds none.
Recorded(a, t) == Writing(a) /\ tmp[a][t] = "current"
Pending(a, t) ==
  want[a] = t /\ (pc[a] \in Marking \/ (force[a] /\ pc[a] \in Building))
Counted ==
  \A t \in EnvType :
    /\ builds[t] \in 0..1
    /\ builds[t] = 1 => \/ ReadMarker[t] = "current"
                        \/ \E a \in Actors : Recorded(a, t)
                        \/ \E a \in Installers : Pending(a, t)
Uncounted(a) == ~force[a] /\ pc[a] \in Building => builds[want[a]] = 0
Dropped(u) ==
  pc[u] \in {"unmark", "unmarking"} => want[u] \in EnvType /\ builds[want[u]] = 0

InstallersSafe ==
  \A a \in Installers : Placed(a) /\ Kept(a) /\ Marked(a) /\ Uncounted(a)
Safe ==
  /\ Exclusive /\ Alone /\ InstallersSafe
  /\ \A a \in Actors : Written(a)
  /\ \A u \in Removers : Dropped(u)
  /\ Trusted /\ Counted

IInv == TypeOK /\ Named /\ Bare /\ (~blemished => Safe)
-----------------------------------------------------------------------------
(***************************************************************************)
(* Types.                                                                  *)
(***************************************************************************)
Labels == {"idle", "lock", "check", "unmark", "unmarking", "build", "fill",
           "aside", "base", "bench", "image", "publish", "restore", "lost",
           "mark", "marking", "ready", "raised", "delete", "deleting", "deleted", "empty"}

\* What a reader makes of the marker is a marker.
LEMMA ReadMarkerType ==
  ASSUME TypeOK
  PROVE  /\ ReadMarker \in [EnvType -> Versions] /\ Empty \in [EnvType -> Versions]
         /\ \A t \in EnvType : Empty[t] = "none"
<1>1. Empty \in [EnvType -> Versions] /\ \A t \in EnvType : Empty[t] = "none"
  BY DEF Empty, Versions
<1>2. QED
  BY <1>1 DEF ReadMarker, TypeOK

\* A place, the locals and the counts of a process may be set to new ones.
LEMMA PlaceType ==
  ASSUME TypeOK, NEW a \in Actors, NEW x \in Labels
  PROVE  [pc EXCEPT ![a] = x] \in [Actors -> Labels]
BY DEF TypeOK, Labels

\* The count of a type may be set.
LEMMA CountType ==
  ASSUME TypeOK, NEW t, NEW n \in Nat
  PROVE  [builds EXCEPT ![t] = n] \in [EnvType -> Nat]
BY DEF TypeOK

\* What is there of a type may be set.
LEMMA BuiltType ==
  ASSUME TypeOK, NEW t, NEW v \in Versions \cup {"partial"}
  PROVE  [built EXCEPT ![t] = v] \in [EnvType -> Versions \cup {"partial"}]
BY DEF TypeOK

\* The locals of a call that is over are of their types.
LEMMA LocalsType ==
  ASSUME TypeOK, NEW a \in Actors, Forget(a)
  PROVE  /\ want' \in [Actors -> EnvType \cup {"all"}]
         /\ force' \in [Actors -> BOOLEAN] /\ had' \in [Actors -> BOOLEAN]
         /\ tmp' \in [Actors -> [EnvType -> Versions]]
<1>1. "venv" \in EnvType \cup {"all"}
  BY DEF EnvType
<1>2. QED
  BY <1>1, ReadMarkerType DEF TypeOK, Forget

\* So is what an exception leaves.
LEMMA FailsType ==
  ASSUME TypeOK, NEW a \in Actors, Fails(a)
  PROVE  /\ pc' \in [Actors -> Labels] /\ lock' \in Installers \cup {None}
         /\ builds' \in [EnvType -> Nat]
<1>1. pc' = [pc EXCEPT ![a] = "raised"] /\ "raised" \in Labels
  BY DEF Fails, Leave, Goto, Labels
<1>2. lock' \in Installers \cup {None}
  BY DEF Fails, Leave, TypeOK
<1>3. builds' = [builds EXCEPT ![want[a]] = 0] /\ 0 \in Nat
  BY DEF Fails
<1>4. QED
  BY <1>1, <1>2, <1>3, PlaceType, CountType

\* A build of t that comes to its end, for the backends that have no more to do.
Finishes(a, t) ==
  /\ built' = [built EXCEPT ![t] = "current"]
  /\ builds' = [builds EXCEPT ![t] = IF force[a] THEN 1 ELSE @ + 1]
  /\ Goto(a, "mark") /\ UNCHANGED lock

Others == UNCHANGED <<dir, marker, torn, scratch, trash, want, force, tmp, had,
                      blemished, budget, faults>>

\* The end of a build, or its failure, keeps the types.
LEMMA FinishType ==
  ASSUME TypeOK, NEW a \in Installers, NEW t \in EnvType, Others,
         Finishes(a, t) \/ (Fails(a) /\ UNCHANGED built)
  PROVE  TypeOK'
<1>0. a \in Actors
  BY DEF Actors
<1>1. ASSUME Finishes(a, t)
      PROVE  /\ pc' \in [Actors -> Labels] /\ lock' \in Installers \cup {None}
             /\ builds' \in [EnvType -> Nat]
             /\ built' \in [EnvType -> Versions \cup {"partial"}]
  <2>1. "current" \in Versions /\ builds[t] + 1 \in Nat /\ "mark" \in Labels
    BY DEF Versions, TypeOK, Labels
  <2>2. pc' \in [Actors -> Labels] /\ lock' \in Installers \cup {None}
    BY <1>0, <1>1, <2>1, PlaceType DEF Finishes, Goto, TypeOK
  <2>3. builds' \in [EnvType -> Nat]
    BY <1>1, <2>1, CountType DEF Finishes
  <2>4. QED
    BY <1>1, <2>1, <2>2, <2>3, BuiltType DEF Finishes
<1>2. ASSUME Fails(a), UNCHANGED built
      PROVE  /\ pc' \in [Actors -> Labels] /\ lock' \in Installers \cup {None}
             /\ builds' \in [EnvType -> Nat]
             /\ built' \in [EnvType -> Versions \cup {"partial"}]
  BY <1>0, <1>2, FailsType DEF TypeOK
<1>3. QED
  BY <1>1, <1>2 DEF TypeOK, Labels, Others

\* Each step of an installer keeps the types.
LEMMA InstallerType ==
  ASSUME TypeOK, NEW a \in Installers, InstallStep(a)
  PROVE  TypeOK'
<1> USE DEF Labels
<1>0. a \in Actors
  BY DEF Actors
<1>1. \A x \in Labels : Goto(a, x) => pc' \in [Actors -> Labels]
  BY <1>0, PlaceType DEF Goto
<1>2. \A x \in Labels : Leave(a, x) => pc' \in [Actors -> Labels] /\ lock' \in Installers \cup {None}
  BY <1>1 DEF Leave, TypeOK
<1>3. Fails(a) => /\ pc' \in [Actors -> Labels] /\ lock' \in Installers \cup {None}
                  /\ builds' \in [EnvType -> Nat]
  BY <1>0, FailsType
<1>4. \A t \in EnvType : \A n \in {1, builds[t] + 1} :
        [builds EXCEPT ![t] = n] \in [EnvType -> Nat]
  BY CountType DEF TypeOK
<1>5. CASE Acquire(a)
  BY <1>1, <1>5 DEF Acquire, TypeOK
<1>6. CASE Check(a)
  BY <1>1, <1>2, <1>6 DEF Check, TypeOK
<1>7. CASE Unmark(a)
  <2>1. [ReadMarker EXCEPT ![want[a]] = "none"] \in [EnvType -> Versions]
    BY ReadMarkerType DEF Versions
  <2>2. marker' \in [EnvType -> Versions] /\ torn' \in BOOLEAN
        /\ tmp' \in [Actors -> [EnvType -> Versions]]
    BY <1>7, <2>1, ReadMarkerType DEF Unmark, TypeOK
  <2>3. pc' \in [Actors -> Labels]
    BY <1>1, <1>7 DEF Unmark
  <2>4. QED
    BY <1>7, <2>2, <2>3 DEF Unmark, TypeOK
<1>8. CASE UnmarkWrites(a) \/ MarkWrites(a)
  <2>1. marker' \in [EnvType -> Versions] /\ torn' = FALSE
        /\ tmp' \in [Actors -> [EnvType -> Versions]]
    BY <1>0, <1>8, ReadMarkerType DEF UnmarkWrites, MarkWrites, Write, TypeOK
  <2>2. pc' \in [Actors -> Labels] /\ lock' \in Installers \cup {None}
    BY <1>1, <1>2, <1>8 DEF UnmarkWrites, MarkWrites, TypeOK
  <2>3. QED
    BY <1>8, <2>1, <2>2 DEF UnmarkWrites, MarkWrites, TypeOK
<1>9. CASE VenvScratch(a)
  <2>1. had' \in [Actors -> BOOLEAN] /\ scratch' \subseteq Installers
        /\ dir' \in BOOLEAN /\ trash' \in Versions
    BY <1>9 DEF VenvScratch, VenvExists, TypeOK, Versions
  <2>2. pc' \in [Actors -> Labels] /\ lock' \in Installers \cup {None}
        /\ builds' \in [EnvType -> Nat]
    BY <1>1, <1>3, <1>9 DEF VenvScratch, TypeOK
  <2>3. QED
    BY <1>9, <2>1, <2>2 DEF VenvScratch, TypeOK
<1>10. CASE VenvFill(a)
  <2>1. pc' \in [Actors -> Labels] /\ lock' \in Installers \cup {None}
        /\ builds' \in [EnvType -> Nat] /\ scratch' \subseteq Installers
    BY <1>1, <1>3, <1>10 DEF VenvFill, TypeOK
  <2>2. QED
    BY <1>10, <2>1 DEF VenvFill, TypeOK
<1>11. CASE PublishAside(a)
  <2>1. trash' \in Versions \cup {"partial"}
        /\ built' \in [EnvType -> Versions \cup {"partial"}]
    <3>1. "none" \in Versions /\ built["venv"] \in Versions \cup {"partial"}
      BY DEF Versions, TypeOK, EnvType
    <3>2. trash \in Versions \cup {"partial"} /\ built \in [EnvType -> Versions \cup {"partial"}]
      BY DEF TypeOK
    <3>3. [built EXCEPT !["venv"] = "none"] \in [EnvType -> Versions \cup {"partial"}]
      BY <3>1, BuiltType
    <3>4. QED
      BY <1>11, <3>1, <3>2, <3>3 DEF PublishAside
  <2>2. /\ pc' \in [Actors -> Labels] /\ lock' \in Installers \cup {None}
        /\ builds' \in [EnvType -> Nat] /\ scratch' \subseteq Installers
    BY <1>1, <1>3, <1>11 DEF PublishAside, TypeOK
  <2>3. QED
    BY <1>11, <2>1, <2>2 DEF PublishAside, TypeOK
<1>12. CASE PublishVenv(a)
  <2>1. "current" \in Versions /\ "none" \in Versions /\ "venv" \in EnvType
    BY DEF Versions, EnvType
  <2>2. built' \in [EnvType -> Versions \cup {"partial"}]
    BY <1>12, <2>1, BuiltType DEF PublishVenv, TypeOK
  <2>3. builds' \in [EnvType -> Nat]
    BY <1>4, <1>12, <2>1 DEF PublishVenv, TypeOK
  <2>4. pc' \in [Actors -> Labels]
    BY <1>1, <1>12 DEF PublishVenv
  <2>5. scratch' \subseteq Installers /\ trash' \in Versions \cup {"partial"}
    BY <1>12, <2>1 DEF PublishVenv, TypeOK
  <2>6. QED
    BY <1>12, <2>2, <2>3, <2>4, <2>5 DEF PublishVenv, TypeOK
<1>12a. CASE Restore(a)
  <2>1. /\ "none" \in Versions /\ "venv" \in EnvType
        /\ built["venv"] \in Versions \cup {"partial"}
        /\ trash \in Versions \cup {"partial"}
    BY DEF Versions, TypeOK, EnvType
  <2>2. built' \in [EnvType -> Versions \cup {"partial"}]
    BY <1>12a, <2>1, BuiltType DEF Restore, TypeOK
  <2>3. /\ pc' \in [Actors -> Labels] /\ lock' \in Installers \cup {None}
        /\ builds' \in [EnvType -> Nat]
    BY <1>1, <1>3, <1>12a DEF Restore, TypeOK
  <2>4. scratch' \subseteq Installers /\ trash' \in Versions \cup {"partial"}
    BY <1>12a, <2>1 DEF Restore, TypeOK
  <2>5. QED
    BY <1>12a, <2>2, <2>3, <2>4 DEF Restore, TypeOK
<1>12b. CASE DropVenv(a)
  <2>1. scratch' \subseteq Installers /\ trash' \in Versions
    BY <1>12b DEF DropVenv, TypeOK, Versions
  <2>2. QED
    BY <1>3, <1>12b, <2>1 DEF DropVenv, TypeOK
<1>13. CASE DockerBuild(a)
  BY <1>1, <1>13 DEF DockerBuild, TypeOK
<1>14. CASE BuildBase(a)
  <2>1. /\ pc' \in [Actors -> Labels] /\ lock' \in Installers \cup {None}
        /\ builds' \in [EnvType -> Nat]
    <3>1. CASE Fails(a)
      BY <1>3, <3>1
    <3>2. CASE Goto(a, "bench") /\ UNCHANGED <<lock, builds>>
      BY <1>1, <3>2 DEF TypeOK
    <3>3. QED
      BY <1>14, <3>1, <3>2 DEF BuildBase
  <2>2. QED
    BY <1>14, <2>1 DEF BuildBase, TypeOK
<1>15. CASE BuildBench(a) \/ BuildImage(a)
  <2>1. Finishes(a, "docker") \/ (Fails(a) /\ UNCHANGED built)
    BY <1>15 DEF BuildBench, BuildImage, Built, Finishes
  <2>2. "docker" \in EnvType
    BY DEF EnvType
  <2>3. Others
    BY <1>15 DEF BuildBench, BuildImage, Built, Others
  <2>4. QED
    BY <2>1, <2>2, <2>3, FinishType
<1>16. CASE LocalInstall(a)
  <2>1. Finishes(a, "local") \/ (Fails(a) /\ UNCHANGED built)
    BY <1>16 DEF LocalInstall, Finishes
  <2>2. "local" \in EnvType
    BY DEF EnvType
  <2>3. Others
    BY <1>16 DEF LocalInstall, Others
  <2>4. QED
    BY <2>1, <2>2, <2>3, FinishType
<1>17. CASE Mark(a)
  <2>1. [ReadMarker EXCEPT ![want[a]] = "current"] \in [EnvType -> Versions]
    BY ReadMarkerType DEF Versions
  <2>2. tmp' \in [Actors -> [EnvType -> Versions]] /\ marker' \in [EnvType -> Versions]
    BY <1>17, <2>1, ReadMarkerType DEF Mark, TypeOK
  <2>3. QED
    BY <1>1, <1>17, <2>2 DEF Mark, TypeOK
<1>18. CASE Return(a)
  BY <1>0, <1>1, <1>18, LocalsType DEF Return, TypeOK
<1>19. QED
  BY <1>5, <1>6, <1>7, <1>8, <1>9, <1>10, <1>11, <1>12, <1>13, <1>14, <1>15,
     <1>16, <1>17, <1>18, <1>12a, <1>12b DEF InstallStep

\* So does each step of a process that uninstalls.
LEMMA RemoverType ==
  ASSUME TypeOK, NEW u \in Removers, UninstallStep(u)
  PROVE  TypeOK'
<1> USE DEF Labels
<1>0. u \in Actors
  BY DEF Actors
<1>1. \A x \in Labels : Goto(u, x) => pc' \in [Actors -> Labels]
  BY <1>0, PlaceType DEF Goto
<1>2. CASE DeleteVenv(u)
  <2>1. "none" \in Versions /\ built["venv"] \in Versions \cup {"partial"}
    BY DEF Versions, TypeOK, EnvType
  <2>2. built' \in [EnvType -> Versions \cup {"partial"}]
    BY <1>2, <2>1, BuiltType DEF DeleteVenv
  <2>3. QED
    BY <1>1, <1>2, <2>2 DEF DeleteVenv, TypeOK
<1>3. CASE DeleteRest(u)
  <2>1. built' \in [EnvType -> Versions \cup {"partial"}]
    BY <1>3 DEF DeleteRest, TypeOK, Versions
  <2>2. builds' \in [EnvType -> Nat]
    BY <1>3 DEF DeleteRest, TypeOK
  <2>3. QED
    BY <1>1, <1>3, <2>1, <2>2 DEF DeleteRest, TypeOK
<1>4. CASE Unmark(u)
  <2>1. [ReadMarker EXCEPT ![want[u]] = "none"] \in [EnvType -> Versions]
    BY ReadMarkerType DEF Versions
  <2>2. marker' \in [EnvType -> Versions] /\ torn' \in BOOLEAN
        /\ tmp' \in [Actors -> [EnvType -> Versions]]
    BY <1>4, <2>1, ReadMarkerType DEF Unmark, TypeOK
  <2>3. pc' \in [Actors -> Labels]
    BY <1>1, <1>4 DEF Unmark
  <2>4. QED
    BY <1>4, <2>2, <2>3 DEF Unmark, TypeOK
<1>5. CASE UnmarkWrites(u)
  <2>1. marker' \in [EnvType -> Versions] /\ torn' = FALSE
        /\ tmp' \in [Actors -> [EnvType -> Versions]]
    BY <1>0, <1>5, ReadMarkerType DEF UnmarkWrites, Write, TypeOK
  <2>2. pc' \in [Actors -> Labels]
    BY <1>1, <1>5 DEF UnmarkWrites
  <2>3. QED
    BY <1>5, <2>1, <2>2 DEF UnmarkWrites, TypeOK
<1>6. CASE Empties(u)
  BY <1>0, <1>1, <1>6, LocalsType DEF Empties, TypeOK
<1>7. CASE RemoveDirectory(u)
  <2>1. "none" \in Versions
    BY DEF Versions
  <2>2. built' \in [EnvType -> Versions \cup {"partial"}]
    BY <1>7, <2>1, BuiltType DEF RemoveDirectory
  <2>3. marker' \in [EnvType -> Versions] /\ builds' \in [EnvType -> Nat]
    BY <1>7, ReadMarkerType DEF RemoveDirectory
  <2>4. QED
    BY <1>0, <1>1, <1>7, <2>1, <2>2, <2>3, LocalsType DEF RemoveDirectory, TypeOK
<1>8. QED
  BY <1>2, <1>3, <1>4, <1>5, <1>6, <1>7 DEF UninstallStep

\* Each step keeps the types.
LEMMA TypeStep ==
  ASSUME TypeOK, [Next]_vars
  PROVE  TypeOK'
<1> USE DEF Labels
<1>1. \A a \in Actors, x \in Labels : Goto(a, x) => pc' \in [Actors -> Labels]
  BY PlaceType DEF Goto
<1>2. budget < MaxCalls /\ budget' = budget + 1 => budget' \in 0..MaxCalls
  BY EnvironmentAssumption DEF TypeOK
<1>3. ASSUME NEW a \in Installers, NEW t \in EnvType, NEW f \in BOOLEAN,
             Install(a, t, f)
      PROVE  TypeOK'
  <2>1. a \in Actors
    BY DEF Actors
  <2>2. /\ want' \in [Actors -> EnvType \cup {"all"}]
        /\ force' \in [Actors -> BOOLEAN] /\ dir' \in BOOLEAN
        /\ blemished' \in BOOLEAN
    BY <1>3, <2>1 DEF Install, TypeOK
  <2>3. pc' \in [Actors -> Labels]
    BY <1>1, <1>3, <2>1 DEF Install
  <2>4. QED
    BY <1>2, <1>3, <2>2, <2>3 DEF Install, TypeOK
<1>4. ASSUME NEW u \in Removers, NEW t \in EnvType \cup {"all"}, Uninstall(u, t)
      PROVE  TypeOK'
  <2>1. u \in Actors
    BY DEF Actors
  <2>2. /\ want' \in [Actors -> EnvType \cup {"all"}]
        /\ tmp' \in [Actors -> [EnvType -> Versions]] /\ blemished' \in BOOLEAN
    BY <1>4, <2>1, ReadMarkerType DEF Uninstall, TypeOK
  <2>3. pc' \in [Actors -> Labels]
    BY <1>1, <1>4, <2>1 DEF Uninstall
  <2>4. QED
    BY <1>2, <1>4, <2>2, <2>3 DEF Uninstall, TypeOK
<1>5. ASSUME NEW a \in Actors, Die(a)
      PROVE  TypeOK'
  <2>1. faults' \in 0..MaxFaults
    BY <1>5, EnvironmentAssumption DEF Die, TypeOK
  <2>2. pc' \in [Actors -> Labels] /\ lock' \in Installers \cup {None}
    BY <1>1, <1>5 DEF Die, Leave, TypeOK
  <2>3. builds' \in [EnvType -> Nat] /\ blemished' \in BOOLEAN
    BY <1>5 DEF Die, TypeOK
  <2>4. QED
    BY <1>5, <2>1, <2>2, <2>3, LocalsType DEF Die, TypeOK
<1>6. CASE UNCHANGED vars
  BY <1>6 DEF vars, TypeOK
<1>7. QED
  BY <1>3, <1>4, <1>5, <1>6, InstallerType, RemoverType DEF Next, Finished

\* The initial states are of their types.
LEMMA InitType == Init => TypeOK
<1>1. ASSUME NEW old \in SUBSET EnvType, 
             dir = (old # {}),
             marker = [t \in EnvType |-> IF t \in old THEN "stale" ELSE "none"],
             built = marker,
             lock = None, torn = FALSE, scratch = {}, trash = "none",
             pc = [a \in Actors |-> "idle"], want = [a \in Actors |-> "venv"],
             force = [a \in Actors |-> FALSE], had = [a \in Actors |-> FALSE],
             tmp = [a \in Actors |-> Empty], builds = [t \in EnvType |-> 0],
             blemished = FALSE, budget = 0, faults = 0
      PROVE  TypeOK
  <2>1. marker \in [EnvType -> Versions] /\ Empty \in [EnvType -> Versions]
    BY <1>1 DEF Versions, Empty
  <2>2. built \in [EnvType -> Versions \cup {"partial"}]
    BY <1>1, <2>1
  <2>3. "venv" \in EnvType /\ trash \in Versions
    BY <1>1 DEF EnvType, Versions
  <2>4. budget \in 0..MaxCalls /\ faults \in 0..MaxFaults
    BY <1>1, EnvironmentAssumption
  <2>5. QED
    BY <1>1, <2>1, <2>2, <2>3, <2>4 DEF TypeOK
<1>2. QED
  BY <1>1 DEF Init

\* Every variable of Environment keeps its type.
THEOREM TypeCorrect == Spec => []TypeOK
<1>1. TypeOK /\ [Next]_vars => TypeOK'
  BY TypeStep
<1>2. QED
  BY <1>1, InitType, PTL DEF Spec

-----------------------------------------------------------------------------
(***************************************************************************)
(* One process at a time: what the invariant says when the installer a, or *)
(* the process u that uninstalls, is the only one at work.                 *)
(***************************************************************************)
Lone(a) ==
  /\ \A b \in Installers \ {a} : ~Busy(b)
  /\ \A u \in Removers : ~Active(u)
Own(a) == Placed(a) /\ Kept(a) /\ Marked(a) /\ Uncounted(a) /\ Written(a)
TrueMarker == \A t \in EnvType : ReadMarker[t] = "current" => Complete(t)
Tally(a) ==
  \A t \in EnvType :
    /\ builds[t] \in 0..1
    /\ builds[t] = 1 => ReadMarker[t] = "current" \/ Recorded(a, t) \/ Pending(a, t)

Solo(u) == \A a \in Actors \ {u} : ~Active(a)
TrueExcept(u) ==
  \A t \in EnvType : ReadMarker[t] = "current" => Complete(t) \/ Removing(u, t)
TallyOf(u) ==
  \A t \in EnvType :
    /\ builds[t] \in 0..1
    /\ builds[t] = 1 => ReadMarker[t] = "current" \/ Recorded(u, t)

\* A process that is not behind the lock has nothing of its own to keep.
LEMMA NotBusy ==
  ASSUME NEW b, pc[b] \notin {"check"} \cup Building \cup Marking
  PROVE  /\ Own(b) /\ \A t : ~Recorded(b, t) /\ ~Pending(b, t)
BY DEF Own, Placed, Kept, Marked, Uncounted, Written, Writing, Recorded, Pending, Building, Marking

\* Nor has a process that is in no call.
LEMMA IdleInNothing ==
  ASSUME NEW u, ~Active(u)
  PROVE  /\ \A t : ~Recorded(u, t) /\ ~Removing(u, t)
         /\ Written(u) /\ Dropped(u) /\ ~Busy(u)
BY DEF Active, Recorded, Writing, Removing, Written, Dropped, Busy, Building, Marking

\* Who holds the lock is alone.
LEMMA LoneHolder ==
  ASSUME Safe, NEW a \in Installers, Busy(a)
  PROVE  Lone(a) /\ lock = a /\ dir
<1>1. lock = a /\ dir /\ \A b \in Installers \ {a} : ~Busy(b)
  BY DEF Safe, Exclusive
<1>2. Active(a) /\ a \in Actors
  BY DEF Busy, Active, Building, Marking, Actors
<1>3. ASSUME NEW u \in Removers, Active(u) PROVE FALSE
  <2>1. a # u
    BY EnvironmentAssumption
  <2>2. QED
    BY <1>2, <1>3, <2>1 DEF Safe, Alone
<1>4. QED
  BY <1>1, <1>3 DEF Lone

\* What the invariant says of an installer that is alone ...
LEMMA Narrow ==
  ASSUME Safe, NEW a \in Installers, Lone(a)
  PROVE  Own(a) /\ TrueMarker /\ Tally(a)
<1>1. Own(a)
  BY DEF Safe, InstallersSafe, Own, Actors
<1>2. TrueMarker
  BY IdleInNothing DEF Safe, Trusted, TrueMarker, Lone
<1>3. ASSUME NEW t \in EnvType, NEW b \in Actors, b # a PROVE ~Recorded(b, t)
  BY <1>3, NotBusy, IdleInNothing DEF Lone, Actors, Busy
<1>4. ASSUME NEW t \in EnvType, NEW b \in Installers, b # a PROVE ~Pending(b, t)
  BY <1>4, NotBusy DEF Lone, Busy
<1>5. Tally(a)
  BY <1>3, <1>4 DEF Safe, Counted, Tally
<1>6. QED
  BY <1>1, <1>2, <1>5

\* ... and all it has to say when there is only that one.
LEMMA Widen ==
  ASSUME NEW a \in Installers, Lone(a)', Own(a)', TrueMarker', Tally(a)',
         Busy(a)' => lock' = a /\ dir'
  PROVE  Safe'
<1>1. Exclusive'
  BY DEF Exclusive, Lone, Busy
<1>2. Alone'
  BY DEF Alone, Lone
<1>3. ASSUME NEW b \in Installers, b # a PROVE Own(b)'
  <2>1. pc'[b] \notin {"check"} \cup Building \cup Marking
    BY <1>3 DEF Lone, Busy
  <2>2. QED
    BY <2>1 DEF Own, Placed, Kept, Marked, Uncounted, Written, Writing, Building, Marking
<1>4. ASSUME NEW u \in Removers PROVE Written(u)' /\ Dropped(u)'
  BY DEF Lone, Active, Written, Writing, Dropped
<1>5. InstallersSafe'
  BY <1>3 DEF InstallersSafe, Own
<1>6. \A b \in Actors : Written(b)'
  BY <1>3, <1>4 DEF Actors, Own
<1>7. Trusted'
  BY DEF Trusted, TrueMarker
<1>8. Counted'
  BY DEF Counted, Tally, Actors
<1>9. QED
  BY <1>1, <1>2, <1>4, <1>5, <1>6, <1>7, <1>8 DEF Safe

\* A step of a leaves it alone.
LEMMA StillLone ==
  ASSUME NEW a \in Installers, Lone(a), NEW x, pc' = [pc EXCEPT ![a] = x]
  PROVE  Lone(a)'
BY EnvironmentAssumption DEF Lone, Busy, Active

\* The same for a process that uninstalls.
LEMMA NarrowSolo ==
  ASSUME Safe, NEW u \in Removers, Solo(u)
  PROVE  Written(u) /\ Dropped(u) /\ TrueExcept(u) /\ TallyOf(u)
<1>1. Written(u) /\ Dropped(u)
  BY DEF Safe, Actors
<1>2. ASSUME NEW v \in Actors, v # u, NEW t \in EnvType
      PROVE  ~Recorded(v, t) /\ ~Removing(v, t)
  BY <1>2, IdleInNothing DEF Solo
<1>3. TrueExcept(u)
  BY <1>2 DEF Safe, Trusted, TrueExcept, Actors
<1>4. ASSUME NEW a \in Installers, NEW t \in EnvType PROVE ~Pending(a, t)
  <2>1. ~Active(a)
    BY EnvironmentAssumption DEF Solo, Actors
  <2>2. QED
    BY <2>1 DEF Active, Pending, Marking, Building
<1>5. TallyOf(u)
  BY <1>2, <1>4 DEF Safe, Counted, TallyOf, Actors
<1>6. QED
  BY <1>1, <1>3, <1>5

\* And when it is the only one, that is the invariant.
LEMMA WidenSolo ==
  ASSUME NEW u \in Removers, Solo(u)', Written(u)', Dropped(u)', TrueExcept(u)', TallyOf(u)',
         Active(u)' => dir'
  PROVE  Safe'
<1>1. ASSUME NEW a \in Installers PROVE Own(a)' /\ ~Busy(a)'
  <2>1. pc'[a] \in {"idle", "raised"}
    BY EnvironmentAssumption DEF Solo, Actors, Active
  <2>2. QED
    BY <2>1 DEF Own, Placed, Kept, Marked, Uncounted, Written, Writing, Building, Marking, Busy
<1>2. Exclusive' /\ InstallersSafe'
  BY <1>1 DEF Exclusive, InstallersSafe, Own
<1>3. Alone'
  BY DEF Alone, Solo, Actors
<1>4. ASSUME NEW v \in Removers PROVE Written(v)' /\ Dropped(v)'
  BY DEF Solo, Actors, Active, Written, Writing, Dropped
<1>5. \A b \in Actors : Written(b)'
  BY <1>1, <1>4 DEF Actors, Own
<1>6. Trusted'
  BY DEF Trusted, TrueExcept
<1>7. Counted'
  BY DEF Counted, TallyOf, Actors
<1>8. QED
  BY <1>2, <1>3, <1>4, <1>5, <1>6, <1>7 DEF Safe

\* A step of u leaves it alone.
LEMMA StillSolo ==
  ASSUME NEW u \in Removers, Solo(u), NEW x, pc' = [pc EXCEPT ![u] = x]
  PROVE  Solo(u)'
BY DEF Solo, Active

-----------------------------------------------------------------------------
(***************************************************************************)
(* The steps of the installer that holds the lock.                         *)
(***************************************************************************)
Held(a) == Own(a) /\ TrueMarker /\ Tally(a)

\* A process that has left the lock behind has nothing to keep.
LEMMA NotBusyNext ==
  ASSUME NEW b, pc'[b] \notin {"check"} \cup Building \cup Marking
  PROVE  /\ Own(b)' /\ \A t : ~Recorded(b, t)' /\ ~Pending(b, t)'
BY DEF Own, Placed, Kept, Marked, Uncounted, Written, Writing, Recorded, Pending, Building, Marking

\* A marker that is not touched reads the same.
LEMMA SameMarker ==
  ASSUME UNCHANGED <<marker, torn>>, dir' = dir
  PROVE  ReadMarker' = ReadMarker
BY DEF ReadMarker, Empty

\* What a label change does to the place of a.
LEMMA Moves ==
  ASSUME TypeOK, NEW a \in Installers, NEW x, Goto(a, x) \/ Leave(a, x)
  PROVE  pc'[a] = x /\ pc' = [pc EXCEPT ![a] = x]
BY DEF TypeOK, Goto, Leave, Actors

\* A build that fails is no longer counted, and its entry is not in the marker.
LEMMA FailStep ==
  ASSUME TypeOK, NEW a \in Installers, want[a] \in EnvType, Held(a), Fails(a),
         pc[a] \in Building \ {"unmark", "unmarking"},
         ReadMarker' = ReadMarker,
         \A t \in EnvType \ {want[a]} : built'[t] = built[t]
  PROVE  Held(a)'
<1>1. pc'[a] = "raised"
  BY Moves DEF Fails
<1>2. Own(a)' /\ \A t : ~Recorded(a, t)' /\ ~Pending(a, t)'
  BY <1>1, NotBusyNext DEF Building, Marking
<1>3. ReadMarker[want[a]] # "current"
  BY DEF Held, Own, Marked
<1>4. ASSUME NEW t \in EnvType, ReadMarker'[t] = "current" PROVE Complete(t)'
  <2>1. t # want[a] /\ Complete(t)
    BY <1>3, <1>4 DEF Held, TrueMarker
  <2>2. built'[t] = built[t]
    BY <2>1
  <2>3. QED
    BY <2>1, <2>2 DEF Complete
<1>5. ASSUME NEW t \in EnvType
      PROVE  builds'[t] \in 0..1 /\ (builds'[t] = 1 => ReadMarker'[t] = "current")
  <2>1. builds'[t] = IF t = want[a] THEN 0 ELSE builds[t]
    BY DEF Fails, TypeOK
  <2>2. CASE t = want[a]
    BY <2>1, <2>2
  <2>3. CASE t # want[a]
    <3>1. ~Recorded(a, t) /\ ~Pending(a, t)
      BY <2>3 DEF Recorded, Writing, Pending, Building
    <3>2. QED
      BY <2>1, <2>3, <3>1 DEF Held, Tally
  <2>4. QED
    BY <2>2, <2>3
<1>6. QED
  BY <1>2, <1>4, <1>5 DEF Held, TrueMarker, Tally

\* A build that ends is counted, complete, and about to be recorded.
LEMMA FinishStep ==
  ASSUME TypeOK, NEW a \in Installers, want[a] \in EnvType, Held(a), Finishes(a, want[a]),
         pc[a] \in Building \ {"unmark", "unmarking"},
         ReadMarker' = ReadMarker, UNCHANGED <<want, force>>
  PROVE  Held(a)'
<1>1. pc'[a] = "mark"
  BY Moves DEF Finishes
<1>2. /\ built'[want[a]] = "current"
      /\ builds'[want[a]] = IF force[a] THEN 1 ELSE builds[want[a]] + 1
      /\ \A t \in EnvType \ {want[a]} : built'[t] = built[t] /\ builds'[t] = builds[t]
  BY DEF Finishes, TypeOK
<1>3. Own(a)'
  BY <1>1, <1>2 DEF Own, Placed, Kept, Marked, Uncounted, Written, Writing, Building, Marking, Complete
<1>4. ASSUME NEW t \in EnvType, ReadMarker'[t] = "current" PROVE Complete(t)'
  <2>1. Complete(t)
    BY <1>4 DEF Held, TrueMarker
  <2>2. built'[t] = built[t] \/ built'[t] = "current"
    BY <1>2
  <2>3. QED
    BY <2>1, <2>2 DEF Complete
<1>5. ASSUME NEW t \in EnvType
      PROVE  /\ builds'[t] \in 0..1
             /\ builds'[t] = 1 => ReadMarker'[t] = "current" \/ Pending(a, t)'
  <2>1. CASE t = want[a]
    <3>1. ~force[a] => builds[t] = 0
      BY <2>1 DEF Held, Own, Uncounted
    <3>2. builds'[t] = 1
      BY <1>2, <2>1, <3>1
    <3>3. Pending(a, t)'
      BY <1>1, <2>1 DEF Pending, Marking
    <3>4. QED
      BY <3>2, <3>3
  <2>2. CASE t # want[a]
    <3>1. ~Recorded(a, t) /\ ~Pending(a, t)
      BY <2>2 DEF Recorded, Writing, Pending, Building
    <3>2. QED
      BY <1>2, <2>2, <3>1 DEF Held, Tally
  <2>3. QED
    BY <2>1, <2>2
<1>6. QED
  BY <1>3, <1>4, <1>5 DEF Held, TrueMarker, Tally

\* From one place of a build to another, with nothing built and nothing written.
LEMMA MoveStep ==
  ASSUME TypeOK, NEW a \in Installers, Held(a), NEW x, Goto(a, x),
         pc[a] \in Building \ {"unmark", "unmarking"}, x \in Building \ {"unmark", "unmarking"},
         ReadMarker' = ReadMarker, UNCHANGED <<want, force, builds>>,
         Placed(a)', Kept(a)',
         \A t \in EnvType : t # want[a] => built'[t] = built[t]
  PROVE  Held(a)'
<1>1. pc'[a] = x
  BY Moves
<1>2. Own(a)'
  BY <1>1 DEF Held, Own, Marked, Uncounted, Written, Writing, Building, Marking
<1>3. ASSUME NEW t \in EnvType, ReadMarker'[t] = "current" PROVE Complete(t)'
  <2>1. t # want[a] /\ Complete(t)
    BY <1>3 DEF Held, TrueMarker, Own, Marked
  <2>2. built'[t] = built[t]
    BY <2>1
  <2>3. QED
    BY <2>1, <2>2 DEF Complete
<1>4. ASSUME NEW t \in EnvType
      PROVE  /\ builds'[t] \in 0..1
             /\ builds'[t] = 1 => ReadMarker'[t] = "current" \/ Pending(a, t)'
  <2>1. ~Recorded(a, t)
    BY DEF Recorded, Writing, Building
  <2>2. Pending(a, t) => Pending(a, t)'
    BY <1>1 DEF Pending, Marking, Building
  <2>3. QED
    BY <2>1, <2>2 DEF Held, Tally
<1>5. QED
  BY <1>2, <1>3, <1>4 DEF Held, TrueMarker, Tally

\* The second look.
LEMMA CheckStep ==
  ASSUME TypeOK, NEW a \in Installers, want[a] \in EnvType, Held(a), Check(a)
  PROVE  Held(a)'
<1>1. ReadMarker' = ReadMarker
  BY SameMarker DEF Check
<1>2. pc[a] = "check" /\ UNCHANGED <<built, builds, want, force, tmp, had, scratch, trash, torn>>
  BY DEF Check
<1>3. TrueMarker'
  BY <1>1, <1>2 DEF Held, TrueMarker, Complete
<1>4. ASSUME NEW t \in EnvType
      PROVE  builds[t] \in 0..1 /\ (builds[t] = 1 => ReadMarker[t] = "current")
  <2>1. ~Recorded(a, t) /\ ~Pending(a, t)
    BY <1>2 DEF Recorded, Writing, Pending, Marking, Building
  <2>2. QED
    BY <2>1 DEF Held, Tally
<1>5. Tally(a)'
  BY <1>1, <1>2, <1>4 DEF Tally
<1>6. CASE ~force[a] /\ IsInstalled(want[a])
  <2>1. pc'[a] = "ready"
    BY <1>6, Moves DEF Check
  <2>2. Own(a)'
    BY <2>1, NotBusyNext DEF Building, Marking
  <2>3. QED
    BY <1>3, <1>5, <2>2 DEF Held
<1>7. CASE ~(~force[a] /\ IsInstalled(want[a]))
  <2>1. pc'[a] = "unmark"
    BY <1>7, Moves DEF Check
  <2>2. ~force[a] => builds[want[a]] = 0
    <3>1. SUFFICES ASSUME ~force[a], builds[want[a]] # 0 PROVE FALSE
      OBVIOUS
    <3>2. ReadMarker[want[a]] = "current"
      BY <1>4, <3>1
    <3>3. Complete(want[a])
      BY <3>2 DEF Held, TrueMarker
    <3>4. IsInstalled(want[a])
      BY <3>2, <3>3 DEF IsInstalled, VersionStale, VenvExists, LocalExists, DockerExists,
                        Complete, EnvType
    <3>5. QED
      BY <1>7, <3>1, <3>4
  <2>3. Own(a)'
    BY <1>2, <2>1, <2>2 DEF Own, Placed, Kept, Marked, Uncounted, Written, Writing, Building, Marking
  <2>4. QED
    BY <1>3, <1>5, <2>3 DEF Held
<1>8. QED
  BY <1>6, <1>7

\* Taking the entry out: it is gone, the others can be read or will be written.
LEMMA UnmarkStep ==
  ASSUME TypeOK, NEW a \in Installers, want[a] \in EnvType, dir, Held(a), Unmark(a)
  PROVE  Held(a)'
<1> DEFINE rest == [ReadMarker EXCEPT ![want[a]] = "none"]
<1>1. pc[a] = "unmark" /\ UNCHANGED <<built, builds, want, force, had, scratch, trash, dir>>
  BY DEF Unmark
<1>2. /\ rest[want[a]] = "none"
      /\ \A t \in EnvType \ {want[a]} : rest[t] = ReadMarker[t]
      /\ \A t \in EnvType : Empty[t] = "none"
  BY ReadMarkerType
<1>3. \A t \in EnvType : rest[t] = "current" => Complete(t)
  BY <1>2 DEF Held, TrueMarker
<1>4. ASSUME NEW t \in EnvType
      PROVE  /\ builds[t] \in 0..1
             /\ builds[t] = 1 => rest[t] = "current" \/ (t = want[a] /\ force[a])
  <2>1. ~Recorded(a, t) /\ (Pending(a, t) => t = want[a] /\ force[a])
    BY <1>1 DEF Recorded, Writing, Pending, Marking
  <2>2. ~force[a] => builds[want[a]] = 0
    BY <1>1 DEF Held, Own, Uncounted, Building
  <2>3. QED
    BY <1>2, <2>1, <2>2 DEF Held, Tally
<1>5. CASE rest = Empty
  <2>1. marker' = Empty /\ torn' = FALSE /\ UNCHANGED tmp /\ pc'[a] = "build"
    BY <1>5, Moves DEF Unmark
  <2>2. ReadMarker' = Empty
    BY <2>1 DEF ReadMarker, Empty
  <2>3. Own(a)'
    BY <1>1, <1>2, <2>1, <2>2 DEF Held, Own, Placed, Kept, Marked, Uncounted, Written, Writing, Building, Marking
  <2>4. TrueMarker'
    BY <1>2, <2>2 DEF TrueMarker
  <2>5. Tally(a)'
    BY <1>1, <1>2, <1>4, <1>5, <2>1 DEF Tally, Pending, Building
  <2>6. QED
    BY <2>3, <2>4, <2>5 DEF Held
<1>6. CASE rest # Empty
  <2>1. tmp'[a] = rest /\ torn' = TRUE /\ pc'[a] = "unmarking"
    BY <1>6, Moves DEF Unmark, TypeOK, Actors
  <2>2. ReadMarker' = Empty
    BY <2>1 DEF ReadMarker, Empty
  <2>3. \A t \in EnvType : Complete(t)' = Complete(t)
    BY <1>1 DEF Complete
  <2>4. Own(a)'
    BY <1>1, <1>2, <1>3, <2>1, <2>3 DEF Held, Own, Placed, Kept, Marked, Uncounted, Written, Writing, Building, Marking
  <2>5. TrueMarker'
    BY <1>2, <2>2 DEF TrueMarker
  <2>6. Tally(a)'
    BY <1>1, <1>4, <2>1 DEF Tally, Pending, Recorded, Writing, Building
  <2>7. QED
    BY <2>4, <2>5, <2>6 DEF Held
<1>7. QED
  BY <1>5, <1>6

\* Writing what was meant: the marker says again what is there.
LEMMA WriteStep ==
  ASSUME TypeOK, NEW a \in Installers, want[a] \in EnvType, dir, Held(a),
         UnmarkWrites(a) \/ MarkWrites(a)
  PROVE  Held(a)'
<1>1. /\ UNCHANGED <<built, builds, want, force, had, scratch, trash, dir>>
      /\ Writing(a) /\ marker' = tmp[a] /\ torn' = FALSE
  BY DEF UnmarkWrites, MarkWrites, Write, Writing
<1>2. ReadMarker' = tmp[a]
  BY <1>1 DEF ReadMarker, Empty
<1>3. TrueMarker'
  BY <1>1, <1>2 DEF Held, Own, Written, TrueMarker, Complete
<1>4. ~torn => FALSE
  BY <1>1 DEF Held, Own, Written
<1>5. \A t \in EnvType : ReadMarker[t] # "current"
  BY <1>4 DEF ReadMarker, Empty
<1>6. CASE UnmarkWrites(a)
  <2>1. pc[a] = "unmarking" /\ pc'[a] = "build"
    BY <1>6, Moves DEF UnmarkWrites
  <2>2. Own(a)'
    BY <1>1, <1>2, <2>1 DEF Held, Own, Placed, Kept, Marked, Uncounted, Written, Writing, Building, Marking
  <2>3. Tally(a)'
    BY <1>1, <1>2, <1>5, <2>1 DEF Held, Tally, Recorded, Pending, Building, Marking
  <2>4. QED
    BY <1>3, <2>2, <2>3 DEF Held
<1>7. CASE MarkWrites(a)
  <2>1. pc[a] = "marking" /\ pc'[a] = "ready"
    BY <1>7, Moves DEF MarkWrites
  <2>2. Own(a)'
    BY <2>1, NotBusyNext DEF Building, Marking
  <2>3. ASSUME NEW t \in EnvType
        PROVE  builds[t] \in 0..1 /\ (builds[t] = 1 => tmp[a][t] = "current")
    <3>1. Pending(a, t) => tmp[a][t] = "current"
      BY <2>1 DEF Held, Own, Marked, Pending, Building
    <3>2. QED
      BY <1>5, <3>1 DEF Held, Tally, Recorded
  <2>4. Tally(a)'
    BY <1>1, <1>2, <2>3 DEF Tally
  <2>5. QED
    BY <1>3, <2>2, <2>4 DEF Held
<1>8. QED
  BY <1>6, <1>7

\* What is complete will be recorded with what could be read.
LEMMA MarkStep ==
  ASSUME TypeOK, NEW a \in Installers, want[a] \in EnvType, dir, Held(a), Mark(a)
  PROVE  Held(a)'
<1>1. /\ pc[a] = "mark" /\ pc'[a] = "marking"
      /\ UNCHANGED <<built, builds, want, force, had, scratch, trash>>
      /\ torn' = TRUE
  BY Moves DEF Mark
<1>2. /\ tmp'[a][want[a]] = "current"
      /\ \A t \in EnvType \ {want[a]} : tmp'[a][t] = ReadMarker[t]
  <2>1. tmp'[a] = [ReadMarker EXCEPT ![want[a]] = "current"]
    BY DEF Mark, TypeOK, Actors
  <2>2. QED
    BY <2>1, ReadMarkerType
<1>3. ReadMarker' = Empty /\ \A t \in EnvType : Empty[t] = "none"
  BY <1>1, ReadMarkerType DEF ReadMarker, Empty
<1>4. TrueMarker'
  BY <1>3 DEF TrueMarker
<1>5. \A t \in EnvType : tmp'[a][t] = "current" => Complete(t)'
  <2>1. Complete(want[a])
    BY <1>1 DEF Held, Own, Marked, Marking
  <2>2. ASSUME NEW t \in EnvType, tmp'[a][t] = "current" PROVE Complete(t)
    BY <1>2, <2>1, <2>2 DEF Held, TrueMarker
  <2>3. QED
    BY <1>1, <2>2 DEF Complete
<1>6. Own(a)'
  BY <1>1, <1>2, <1>5 DEF Held, Own, Placed, Kept, Marked, Uncounted, Written, Writing, Building, Marking
<1>7. ASSUME NEW t \in EnvType
      PROVE  /\ builds[t] \in 0..1
             /\ builds[t] = 1 => Recorded(a, t)'
  <2>1. ~Recorded(a, t) /\ (Pending(a, t) => t = want[a])
    BY <1>1 DEF Recorded, Writing, Pending
  <2>2. tmp'[a][t] = "current" => Recorded(a, t)'
    BY <1>1 DEF Recorded, Writing
  <2>3. QED
    BY <1>2, <2>1, <2>2 DEF Held, Tally
<1>8. Tally(a)'
  BY <1>1, <1>7 DEF Tally
<1>9. QED
  BY <1>4, <1>6, <1>8 DEF Held

\* The venv: scratch directory, filling it, and the exchange.
LEMMA VenvStep ==
  ASSUME TypeOK, NEW a \in Installers, want[a] \in EnvType, dir, Held(a),
         VenvScratch(a) \/ VenvFill(a) \/ PublishAside(a) \/ PublishVenv(a) \/ Restore(a) \/ DropVenv(a)
  PROVE  Held(a)'
<1> DEFINE Inner == Building \ {"unmark", "unmarking"}
<1>1. ReadMarker' = ReadMarker /\ UNCHANGED <<want, force, tmp, marker, torn, dir>>
  BY SameMarker DEF VenvScratch, VenvFill, PublishAside, PublishVenv, Restore, DropVenv
<1>2. pc[a] \in Inner /\ want[a] = "venv"
  BY DEF VenvScratch, VenvFill, PublishAside, PublishVenv, Restore, DropVenv, Held, Own, Placed, Building
<1>3. CASE VenvScratch(a)
  <2>1. CASE Fails(a)
    BY <1>1, <1>2, <1>3, <2>1, FailStep DEF VenvScratch
  <2>2. CASE ~Fails(a)
    <3>1. Goto(a, "fill") /\ scratch' = {a} /\ had'[a] = VenvExists /\ UNCHANGED <<built, builds>>
      BY <1>3, <2>2 DEF VenvScratch, TypeOK, Actors
    <3>2. pc'[a] = "fill" /\ "fill" \in Inner
      BY <3>1, Moves DEF Building
    <3>3. Placed(a)' /\ Kept(a)'
      BY <1>1, <1>2, <3>1, <3>2 DEF Placed, Kept, VenvExists
    <3>4. QED
      BY <1>1, <1>2, <3>1, <3>2, <3>3, MoveStep
  <2>3. QED
    BY <2>1, <2>2
<1>4. CASE VenvFill(a)
  <2>1. CASE Fails(a)
    BY <1>1, <1>2, <1>4, <2>1, FailStep DEF VenvFill
  <2>2. CASE ~Fails(a)
    <3>1. /\ pc[a] = "fill" /\ Goto(a, "aside")
          /\ UNCHANGED <<built, builds, scratch, had, trash>>
      BY <1>4, <2>2 DEF VenvFill
    <3>2. pc'[a] = "aside" /\ "aside" \in Inner
      BY <3>1, Moves DEF Building
    <3>3. Placed(a)' /\ Kept(a)'
      BY <1>1, <1>2, <3>1, <3>2 DEF Held, Own, Placed, Kept, VenvExists
    <3>4. QED
      BY <1>1, <1>2, <3>1, <3>2, <3>3, MoveStep
  <2>3. QED
    BY <2>1, <2>2
<1>5. CASE PublishAside(a)
  <2>1. CASE Fails(a)
    <3>1. \A t \in EnvType \ {want[a]} : built'[t] = built[t]
      BY <1>2, <1>5 DEF PublishAside, TypeOK
    <3>2. QED
      BY <1>1, <1>2, <2>1, <3>1, FailStep
  <2>2. CASE ~Fails(a)
    <3>1. /\ pc[a] = "aside" /\ Goto(a, "publish") /\ UNCHANGED <<builds, scratch, had>>
          /\ VenvExists => trash' # "none"
          /\ ~VenvExists => UNCHANGED <<trash, built>>
      BY <1>5, <2>2 DEF PublishAside, VenvExists
    <3>2. \A t \in EnvType \ {"venv"} : built'[t] = built[t]
      BY <1>5 DEF PublishAside, TypeOK
    <3>3. pc'[a] = "publish" /\ "publish" \in Inner
      BY <3>1, Moves DEF Building
    <3>4. Placed(a)' /\ Kept(a)'
      BY <1>1, <1>2, <3>1, <3>3 DEF Held, Own, Placed, Kept
    <3>5. QED
      BY <1>1, <1>2, <3>1, <3>2, <3>3, <3>4, MoveStep
  <2>3. QED
    BY <2>1, <2>2
<1>6. CASE PublishVenv(a)
  <2>1. CASE Goto(a, "restore") /\ UNCHANGED <<scratch, trash, built, builds>>
    <3>1. pc'[a] = "restore" /\ "restore" \in Inner /\ pc[a] = "publish" /\ UNCHANGED had
      BY <1>6, <2>1, Moves DEF Building, PublishVenv
    <3>2. Placed(a)' /\ Kept(a)'
      BY <1>1, <1>2, <2>1, <3>1 DEF Held, Own, Placed, Kept, VenvExists
    <3>3. QED
      BY <1>1, <1>2, <2>1, <3>1, <3>2, MoveStep
  <2>2. CASE ~(Goto(a, "restore") /\ UNCHANGED <<scratch, trash, built, builds>>)
    <3>1. Finishes(a, "venv")
      BY <1>6, <2>2 DEF PublishVenv, Finishes
    <3>2. QED
      BY <1>1, <1>2, <3>1, FinishStep
  <2>3. QED
    BY <2>1, <2>2
<1>7. CASE Restore(a)
  <2>1. CASE Fails(a)
    <3>1. \A t \in EnvType \ {want[a]} : built'[t] = built[t]
      BY <1>2, <1>7 DEF Restore, TypeOK
    <3>2. QED
      BY <1>1, <1>2, <2>1, <3>1, FailStep
  <2>2. CASE ~Fails(a)
    <3>1. Goto(a, "lost") /\ UNCHANGED <<scratch, trash, built, builds, had>> /\ pc[a] = "restore"
      BY <1>7, <2>2 DEF Restore
    <3>2. pc'[a] = "lost" /\ "lost" \in Inner
      BY <3>1, Moves DEF Building
    <3>3. Placed(a)' /\ Kept(a)'
      BY <1>1, <1>2, <3>1, <3>2 DEF Held, Own, Placed, Kept
    <3>4. QED
      BY <1>1, <1>2, <3>1, <3>2, <3>3, MoveStep
  <2>3. QED
    BY <2>1, <2>2
<1>8. CASE DropVenv(a)
  BY <1>1, <1>2, <1>8, FailStep DEF DropVenv
<1>9. QED
  BY <1>3, <1>4, <1>5, <1>6, <1>7, <1>8

\* The image and the running Python.
LEMMA BackendStep ==
  ASSUME TypeOK, NEW a \in Installers, want[a] \in EnvType, dir, Held(a),
         DockerBuild(a) \/ BuildBase(a) \/ BuildBench(a) \/ BuildImage(a) \/ LocalInstall(a)
  PROVE  Held(a)'
<1> DEFINE Inner == Building \ {"unmark", "unmarking"}
<1>1. /\ ReadMarker' = ReadMarker
      /\ UNCHANGED <<want, force, tmp, marker, torn, dir, scratch, trash, had>>
  BY SameMarker DEF DockerBuild, BuildBase, BuildBench, BuildImage, Built, LocalInstall
<1>2. pc[a] \in Inner
  BY DEF DockerBuild, BuildBase, BuildBench, BuildImage, LocalInstall, Building
<1>3. CASE Fails(a)
  <2>1. \A t \in EnvType \ {want[a]} : built'[t] = built[t]
    <3>1. CASE UNCHANGED built
      BY <3>1
    <3>2. CASE ~UNCHANGED built
      <4>1. pc'[a] = "raised"
        BY <1>3, Moves DEF Fails
      <4>2. Goto(a, "mark")
        BY <3>2 DEF DockerBuild, BuildBase, BuildBench, BuildImage, Built, LocalInstall
      <4>3. pc'[a] = "mark"
        BY <4>2, Moves
      <4>4. QED
        BY <4>1, <4>3
    <3>3. QED
      BY <3>1, <3>2
  <2>2. QED
    BY <1>1, <1>2, <1>3, <2>1, FailStep
<1>4. CASE ~Fails(a) /\ (BuildBench(a) \/ BuildImage(a))
  <2>1. Finishes(a, "docker") /\ want[a] = "docker"
    BY <1>4 DEF BuildBench, BuildImage, Built, Finishes, Held, Own, Placed
  <2>2. QED
    BY <1>1, <1>2, <2>1, FinishStep
<1>5. CASE ~Fails(a) /\ LocalInstall(a)
  <2>1. Finishes(a, "local") /\ want[a] = "local"
    BY <1>5 DEF LocalInstall, Finishes
  <2>2. QED
    BY <1>1, <1>2, <2>1, FinishStep
<1>6. ASSUME ~Fails(a), DockerBuild(a) \/ BuildBase(a), ~Goto(a, "mark") PROVE Held(a)'
  <2>1. /\ want[a] = "docker" /\ UNCHANGED <<built, builds>>
        /\ \E x \in {"base", "image", "bench"} : Goto(a, x)
    BY <1>6 DEF DockerBuild, BuildBase, Held, Own, Placed
  <2>2. PICK x \in {"base", "image", "bench"} : Goto(a, x)
    BY <2>1
  <2>3. pc'[a] = x /\ x \in Inner
    BY <2>2, Moves DEF Building
  <2>4. Placed(a)' /\ Kept(a)'
    BY <1>1, <2>1, <2>3 DEF Placed, Kept
  <2>5. QED
    BY <1>1, <1>2, <2>1, <2>2, <2>3, <2>4, MoveStep
<1>7. ASSUME DockerBuild(a), Goto(a, "mark") PROVE Held(a)'
  <2>1. /\ want[a] = "docker" /\ UNCHANGED <<built, builds>> /\ pc'[a] = "mark"
    BY <1>7, Moves DEF DockerBuild
  <2>2. ~force[a] /\ ImageThere
    <3>1. \A x \in {"base", "image", "bench"} : ~Goto(a, x)
      BY <1>7, Moves
    <3>2. QED
      BY <1>7, <3>1 DEF DockerBuild
  <2>3. Complete(want[a])'
    BY <1>1, <2>1, <2>2 DEF Complete, ImageThere
  <2>4. Own(a)'
    BY <1>1, <2>1, <2>3 DEF Own, Placed, Kept, Marked, Uncounted, Written, Writing, Building, Marking
  <2>5. TrueMarker'
    BY <1>1, <2>1 DEF Held, TrueMarker, Complete
  <2>6. ASSUME NEW t \in EnvType
        PROVE  builds[t] \in 0..1 /\ (builds[t] = 1 => ReadMarker[t] = "current")
    <3>1. ~Recorded(a, t) /\ ~Pending(a, t)
      BY <1>2, <2>2 DEF Recorded, Writing, Pending, Building, Marking
    <3>2. QED
      BY <3>1 DEF Held, Tally
  <2>7. Tally(a)'
    BY <1>1, <2>1, <2>6 DEF Tally
  <2>8. QED
    BY <2>4, <2>5, <2>7 DEF Held
<1>8. BuildBase(a) => ~Goto(a, "mark")
  <2>1. SUFFICES ASSUME BuildBase(a), Goto(a, "mark") PROVE FALSE
    OBVIOUS
  <2>2. pc'[a] = "mark"
    BY <2>1, Moves
  <2>3. pc'[a] \in {"bench", "raised"}
    BY <2>1, Moves DEF BuildBase, Fails
  <2>4. QED
    BY <2>2, <2>3
<1>9. QED
  BY <1>3, <1>4, <1>5, <1>6, <1>7, <1>8

\* Whatever the holder of the lock does, the invariant is kept.
LEMMA HolderStep ==
  ASSUME TypeOK, Named, Safe, NEW a \in Installers, Busy(a), InstallStep(a)
  PROVE  Safe'
<1>1. Lone(a) /\ lock = a /\ dir /\ want[a] \in EnvType
  BY LoneHolder DEF Named
<1>2. Held(a)
  BY <1>1, Narrow DEF Held
<1>3. ~Acquire(a) /\ ~Return(a)
  BY DEF Acquire, Return, Busy, Building, Marking
<1>4. Held(a)'
  BY <1>1, <1>2, <1>3, CheckStep, UnmarkStep, WriteStep, MarkStep, VenvStep, BackendStep
     DEF InstallStep
<1>5. dir'
  BY <1>1, <1>3 DEF InstallStep, Check, Unmark, UnmarkWrites, MarkWrites, Mark, VenvScratch,
     VenvFill, PublishAside, PublishVenv, Restore, DropVenv, DockerBuild, BuildBase, BuildBench, BuildImage,
     Built, LocalInstall
<1>6. \E x : Goto(a, x) /\ (lock' = lock \/ x \in {"ready", "raised"})
  <2>1. CASE Fails(a)
    BY <2>1 DEF Fails, Leave
  <2>2. CASE Leave(a, "ready")
    BY <2>2 DEF Leave
  <2>3. CASE ~Fails(a) /\ ~Leave(a, "ready")
    <3>1. lock' = lock
      BY <1>3, <2>3 DEF InstallStep, Check, Unmark, UnmarkWrites, MarkWrites, Mark, VenvScratch,
         VenvFill, PublishAside, PublishVenv, Restore, DropVenv, DockerBuild, BuildBase, BuildBench, BuildImage,
         Built, LocalInstall
    <3>2. \E x : Goto(a, x)
      BY <1>3, <2>3 DEF InstallStep, Check, Unmark, UnmarkWrites, MarkWrites, Mark, VenvScratch,
         VenvFill, PublishAside, PublishVenv, Restore, DropVenv, DockerBuild, BuildBase, BuildBench, BuildImage,
         Built, LocalInstall
    <3>3. QED
      BY <3>1, <3>2
  <2>4. QED
    BY <2>1, <2>2, <2>3
<1>7. PICK x : Goto(a, x) /\ (lock' = lock \/ x \in {"ready", "raised"})
  BY <1>6
<1>8. pc'[a] = x /\ Lone(a)'
  BY <1>1, <1>7, Moves, StillLone
<1>9. Busy(a)' => lock' = a
  BY <1>1, <1>7, <1>8 DEF Busy, Building, Marking
<1>10. QED
  BY <1>4, <1>5, <1>8, <1>9, Widen DEF Held

\* The lock is free: nobody is behind it.
LEMMA AcquireStep ==
  ASSUME TypeOK, Bare, Safe, NEW a \in Installers, Acquire(a), lock = None
  PROVE  Safe'
<1>1. Lone(a)
  <2>1. Active(a) /\ a \in Actors
    BY DEF Acquire, Active, Actors
  <2>2. ASSUME NEW u \in Removers PROVE ~Active(u)
    <3>1. a # u
      BY EnvironmentAssumption
    <3>2. QED
      BY <2>1, <3>1 DEF Safe, Alone
  <2>3. \A b \in Installers : ~Busy(b)
    BY EnvironmentAssumption DEF Safe, Exclusive
  <2>4. QED
    BY <2>2, <2>3 DEF Lone
<1>2. Own(a) /\ TrueMarker /\ Tally(a)
  BY <1>1, Narrow
<1>3. /\ pc[a] = "lock" /\ lock' = a /\ dir' /\ Goto(a, "check")
      /\ UNCHANGED <<marker, torn, built, scratch, trash, want, force, tmp, had, builds>>
  BY DEF Acquire
<1>4. pc'[a] = "check" /\ Lone(a)'
  BY <1>1, <1>3, Moves, StillLone
<1>5. ReadMarker' = ReadMarker
  BY <1>3 DEF ReadMarker, Bare, Empty
<1>6. Own(a)'
  BY <1>4 DEF Own, Placed, Kept, Marked, Uncounted, Written, Writing, Building, Marking
<1>7. TrueMarker'
  BY <1>2, <1>3, <1>5 DEF TrueMarker, Complete
<1>8. Tally(a)'
  BY <1>2, <1>3, <1>5 DEF Tally, Recorded, Writing, Pending, Building, Marking
<1>9. QED
  BY <1>3, <1>4, <1>6, <1>7, <1>8, Widen

-----------------------------------------------------------------------------
(***************************************************************************)
(* The steps that do not touch what is built, and a death.                 *)
(***************************************************************************)
\* The installer a is outside the lock afterwards, nobody else has moved, and
\* the builds are as they were or no longer counted.
LEMMA FrameStep ==
  ASSUME TypeOK, Named, Safe, NEW a \in Installers,
         NEW x \in {"idle", "lock", "ready", "raised"}, pc' = [pc EXCEPT ![a] = x],
         x \in {"lock", "ready"} => \A u \in Removers : ~Active(u),
         \A b \in Actors \ {a} : /\ want'[b] = want[b] /\ force'[b] = force[b]
                                 /\ tmp'[b] = tmp[b] /\ had'[b] = had[b],
         ReadMarker' = ReadMarker, UNCHANGED <<torn, built, scratch, trash>>,
         dir => dir',
         lock' = lock \/ lock = a,
         \/ ~Busy(a) /\ UNCHANGED builds
         \/ \A t \in EnvType : builds'[t] = 0
  PROVE  Safe'
<1>0. a \in Actors /\ a \notin Removers
  BY EnvironmentAssumption DEF Actors
<1>1. pc'[a] = x /\ \A b \in Actors \ {a} : pc'[b] = pc[b]
  BY <1>0 DEF TypeOK
<1>2. ~Busy(a)' /\ Own(a)' /\ \A t : ~Recorded(a, t)' /\ ~Pending(a, t)'
  BY <1>1, NotBusyNext DEF Busy, Building, Marking
<1>3. \A b \in Installers \ {a} :
        /\ b \in Actors /\ (Busy(b)' <=> Busy(b))
        /\ Placed(b)' /\ Kept(b)' /\ Marked(b)'
  <2>1. SUFFICES ASSUME NEW b \in Installers, b # a
                 PROVE  /\ b \in Actors /\ (Busy(b)' <=> Busy(b))
                        /\ Placed(b)' /\ Kept(b)' /\ Marked(b)'
    OBVIOUS
  <2>2. b \in Actors /\ pc'[b] = pc[b] /\ want'[b] = want[b] /\ tmp'[b] = tmp[b] /\ had'[b] = had[b]
    BY <1>1, <2>1 DEF Actors
  <2>3. Placed(b) /\ Kept(b) /\ Marked(b)
    BY DEF Safe, InstallersSafe
  <2>4. QED
    BY <2>2, <2>3 DEF Busy, Placed, Kept, Marked, VenvExists, Complete
<1>4. \A b \in Installers \ {a} : Uncounted(b)'
  <2>1. SUFFICES ASSUME NEW b \in Installers, b # a, ~force'[b], pc'[b] \in Building
                 PROVE  builds'[want'[b]] = 0
    BY DEF Uncounted
  <2>2. b \in Actors /\ pc'[b] = pc[b] /\ want'[b] = want[b] /\ force'[b] = force[b]
    BY <1>1, <2>1 DEF Actors
  <2>3. builds[want[b]] = 0
    BY <2>1, <2>2 DEF Safe, InstallersSafe, Uncounted
  <2>4. want[b] \in EnvType
    BY DEF Named
  <2>5. QED
    BY <2>2, <2>3, <2>4
<1>5. InstallersSafe'
  BY <1>2, <1>3, <1>4 DEF InstallersSafe, Own
<1>6. Exclusive'
  <2>1. SUFFICES ASSUME NEW b \in Installers, b # a, Busy(b)' PROVE lock' = b /\ dir'
    BY <1>2 DEF Exclusive
  <2>2. Busy(b)
    BY <1>3, <2>1
  <2>3. QED
    BY <2>1, <2>2 DEF Safe, Exclusive
<1>7. Alone'
  <2>1. SUFFICES ASSUME NEW u \in Removers, Active(u)'
                 PROVE  dir' /\ \A b \in Actors \ {u} : ~Active(b)'
    BY DEF Alone
  <2>2. u # a /\ Active(u)
    BY <1>0, <1>1, <2>1 DEF Active, Actors
  <2>3. dir /\ \A b \in Actors \ {u} : ~Active(b)
    BY <2>2 DEF Safe, Alone
  <2>4. x \in {"idle", "raised"}
    BY <2>2
  <2>5. QED
    BY <1>1, <2>3, <2>4 DEF Active
<1>8. \A b \in Actors \ {a} : Written(b)' /\ \A t : Recorded(b, t)' <=> Recorded(b, t)
  BY <1>1 DEF Safe, Written, Writing, Recorded, Complete
<1>9. \A b \in Actors : Written(b)'
  BY <1>2, <1>8 DEF Own
<1>10. \A u \in Removers : Dropped(u)' /\ \A t : Removing(u, t)' <=> Removing(u, t)
  <2>1. SUFFICES ASSUME NEW u \in Removers
                 PROVE  Dropped(u)' /\ \A t : Removing(u, t)' <=> Removing(u, t)
    OBVIOUS
  <2>2. u \in Actors \ {a} /\ pc'[u] = pc[u] /\ want'[u] = want[u] /\ tmp'[u] = tmp[u]
    BY <1>0, <1>1 DEF Actors
  <2>3. Dropped(u)'
    BY <2>2 DEF Safe, Dropped
  <2>4. QED
    BY <2>2, <2>3 DEF Removing, Asked
<1>11. Trusted'
  BY <1>10 DEF Safe, Trusted, Complete
<1>12. Counted'
  <2>1. CASE \A t \in EnvType : builds'[t] = 0
    BY <2>1 DEF Counted
  <2>2. CASE ~Busy(a) /\ UNCHANGED builds
    <3>1. \A t : ~Recorded(a, t) /\ ~Pending(a, t)
      BY <2>2, NotBusy DEF Busy
    <3>2. \A b \in Installers \ {a}, t \in EnvType : Pending(b, t) => Pending(b, t)'
      BY <1>1 DEF Pending, Actors
    <3>3. QED
      BY <1>8, <2>2, <3>1, <3>2 DEF Safe, Counted
  <2>3. QED
    BY <2>1, <2>2
<1>13. QED
  BY <1>5, <1>6, <1>7, <1>9, <1>10, <1>11, <1>12 DEF Safe

\* The locals of the others, when those of a are set anew.
LEMMA ForgetOthers ==
  ASSUME NEW a, Forget(a)
  PROVE  \A b \in Actors \ {a} : /\ want'[b] = want[b] /\ force'[b] = force[b]
                                /\ tmp'[b] = tmp[b] /\ had'[b] = had[b]
BY DEF Forget

\* The timeout of the lock, and the end of a call.
LEMMA OutsideStep ==
  ASSUME TypeOK, Named, Safe, NEW a \in Installers, ~Busy(a), InstallStep(a), ~(Acquire(a) /\ lock = None)
  PROVE  Safe'
<1>1. Acquire(a) \/ Return(a)
  BY DEF InstallStep, Busy, Building, Marking, Check, Unmark, UnmarkWrites, MarkWrites, Mark,
         VenvScratch, VenvFill, PublishAside, PublishVenv, Restore, DropVenv, DockerBuild, BuildBase, BuildBench,
         BuildImage, LocalInstall
<1>2. CASE Acquire(a)
  <2>1. /\ Goto(a, "raised")
        /\ UNCHANGED <<lock, dir, marker, torn, built, scratch, trash, want, force, tmp, had, builds>>
    BY <1>2 DEF Acquire
  <2>2. ReadMarker' = ReadMarker /\ pc' = [pc EXCEPT ![a] = "raised"]
    BY <2>1, SameMarker, Moves
  <2>3. QED
    BY <2>1, <2>2, FrameStep
<1>3. CASE Return(a)
  <2>1. /\ Goto(a, "idle") /\ Forget(a)
        /\ UNCHANGED <<lock, dir, marker, torn, built, scratch, trash, builds>>
    BY <1>3 DEF Return
  <2>2. ReadMarker' = ReadMarker /\ pc' = [pc EXCEPT ![a] = "idle"]
    BY <2>1, SameMarker, Moves
  <2>3. QED
    BY <2>1, <2>2, FrameStep, ForgetOthers
<1>4. QED
  BY <1>1, <1>2, <1>3

\* install() is called: the fast path, or the way to the lock.
LEMMA InstallCall ==
  ASSUME TypeOK, Named, Bare, Safe, ~blemished', NEW a \in Installers,
         NEW t \in EnvType, NEW f \in BOOLEAN, Install(a, t, f)
  PROVE  Safe'
<1>1. /\ pc[a] = "idle" /\ \A u \in Removers : ~Active(u)
      /\ UNCHANGED <<lock, marker, torn, built, scratch, trash, tmp, had, builds>>
      /\ dir => dir'
  BY DEF Install
<1>2. ReadMarker' = ReadMarker
  <2>1. UNCHANGED dir \/ dir' = TRUE
    BY DEF Install
  <2>2. QED
    BY <1>1, <2>1 DEF ReadMarker, Bare, Empty
<1>3. \A b \in Actors \ {a} : want'[b] = want[b] /\ force'[b] = force[b]
  BY DEF Install
<1>4. PICK x \in {"ready", "lock"} : Goto(a, x)
  BY DEF Install
<1>5. pc' = [pc EXCEPT ![a] = x] /\ ~Busy(a)
  BY <1>1, <1>4, Moves DEF Busy, Building, Marking
<1>6. QED
  BY <1>1, <1>2, <1>3, <1>4, <1>5, FrameStep

\* A death gives up the lock, and the builds are counted from none.
LEMMA DeathStep ==
  ASSUME TypeOK, Named, Safe, NEW a \in Installers, Die(a)
  PROVE  Safe'
<1>1. /\ Leave(a, "idle") /\ Forget(a) /\ \A t \in EnvType : builds'[t] = 0
      /\ UNCHANGED <<dir, marker, torn, built, scratch, trash>>
  BY DEF Die
<1>2. ReadMarker' = ReadMarker /\ pc' = [pc EXCEPT ![a] = "idle"]
  BY <1>1, SameMarker, Moves
<1>3. lock' = lock \/ lock = a
  BY <1>1 DEF Leave
<1>4. QED
  BY <1>1, <1>2, <1>3, FrameStep, ForgetOthers

-----------------------------------------------------------------------------
(***************************************************************************)
(* The steps of a process that uninstalls and has the directory to itself. *)
(***************************************************************************)
Sole(u) == Written(u) /\ Dropped(u) /\ TrueExcept(u) /\ TallyOf(u)

\* uninstall() is called, and nobody else is in a call.
LEMMA UninstallCall ==
  ASSUME TypeOK, Safe, ~blemished', NEW u \in Removers, NEW t \in EnvType \cup {"all"},
         Uninstall(u, t)
  PROVE  Safe'
<1>1. /\ pc[u] = "idle" /\ dir /\ Solo(u) /\ Goto(u, "delete")
      /\ UNCHANGED <<dir, marker, torn, built, builds>>
  BY DEF Uninstall, Solo
<1>2. Written(u) /\ Dropped(u) /\ TrueExcept(u) /\ TallyOf(u)
  BY <1>1, NarrowSolo
<1>3. pc'[u] = "delete" /\ Solo(u)'
  BY <1>1, StillSolo DEF Goto, TypeOK, Actors
<1>4. ReadMarker' = ReadMarker
  BY <1>1, SameMarker
<1>5. Written(u)' /\ Dropped(u)'
  BY <1>3 DEF Written, Writing, Dropped
<1>6. TrueExcept(u)'
  BY <1>1, <1>2, <1>4 DEF TrueExcept, Removing, Complete
<1>7. TallyOf(u)'
  BY <1>1, <1>2, <1>4 DEF TallyOf, Recorded, Writing
<1>8. QED
  BY <1>1, <1>3, <1>5, <1>6, <1>7, WidenSolo

\* What is asked for is deleted; the entry that still says so is about to go.
LEMMA DeleteStep ==
  ASSUME TypeOK, NEW u \in Removers, Sole(u), DeleteVenv(u) \/ DeleteRest(u)
  PROVE  Sole(u)'
<1>1. ReadMarker' = ReadMarker /\ Asked(u)' = Asked(u) /\ UNCHANGED <<want, tmp>>
  BY SameMarker DEF DeleteVenv, DeleteRest, Asked
<1>2. u \in Actors /\ want[u] \in EnvType \cup {"all"}
  BY DEF Actors, TypeOK
<1>3. \A t \in EnvType : t \notin Asked(u) => built'[t] = built[t]
  BY DEF DeleteVenv, DeleteRest, TypeOK
<1>4. CASE DeleteVenv(u)
  <2>1. pc[u] = "delete" /\ pc'[u] = "deleting" /\ UNCHANGED builds
    BY <1>2, <1>4 DEF DeleteVenv, Goto, TypeOK
  <2>2. Written(u)' /\ Dropped(u)'
    BY <2>1 DEF Written, Writing, Dropped
  <2>3. TrueExcept(u)'
    BY <1>1, <1>3, <2>1 DEF Sole, TrueExcept, Removing, Complete
  <2>4. TallyOf(u)'
    BY <1>1, <2>1 DEF Sole, TallyOf, Recorded, Writing
  <2>5. QED
    BY <2>2, <2>3, <2>4 DEF Sole
<1>5. CASE DeleteRest(u)
  <2>1. /\ pc[u] = "deleting" /\ pc'[u] = (IF want[u] = "all" THEN "deleted" ELSE "unmark")
        /\ \A t \in EnvType : builds'[t] = IF t \in Asked(u) THEN 0 ELSE builds[t]
    BY <1>2, <1>5 DEF DeleteRest, Goto, TypeOK
  <2>2. want[u] # "all" => want[u] \in EnvType /\ want[u] \in Asked(u)
    BY <1>2 DEF Asked
  <2>3. Written(u)' /\ Dropped(u)'
    BY <1>1, <2>1, <2>2 DEF Written, Writing, Dropped
  <2>4. TrueExcept(u)'
    BY <1>1, <1>3, <2>1 DEF Sole, TrueExcept, Removing, Complete
  <2>5. TallyOf(u)'
    BY <1>1, <2>1 DEF Sole, TallyOf, Recorded, Writing
  <2>6. QED
    BY <2>3, <2>4, <2>5 DEF Sole
<1>6. QED
  BY <1>4, <1>5

\* The entry of the one type that was removed.
LEMMA DropStep ==
  ASSUME TypeOK, dir, NEW u \in Removers, Sole(u), Unmark(u)
  PROVE  Sole(u)'
<1> DEFINE rest == [ReadMarker EXCEPT ![want[u]] = "none"]
<1>1. /\ pc[u] = "unmark" /\ UNCHANGED <<built, builds, want, dir>>
      /\ u \in Actors /\ u \notin Installers /\ want[u] \in EnvType /\ builds[want[u]] = 0
  BY EnvironmentAssumption DEF Unmark, Sole, Dropped, Actors
<1>2. /\ rest[want[u]] = "none"
      /\ \A t \in EnvType \ {want[u]} : rest[t] = ReadMarker[t]
      /\ \A t \in EnvType : Empty[t] = "none"
  BY <1>1, ReadMarkerType
<1>3. Asked(u) = {want[u]}
  BY <1>1 DEF Asked, EnvType
<1>4. \A t \in EnvType : rest[t] = "current" => Complete(t)
  BY <1>2, <1>3 DEF Sole, TrueExcept, Removing
<1>5. \A t \in EnvType : builds[t] \in 0..1 /\ (builds[t] = 1 => rest[t] = "current")
  BY <1>1, <1>2 DEF Sole, TallyOf, Recorded, Writing
<1>6. CASE rest = Empty
  <2>1. marker' = Empty /\ torn' = FALSE /\ pc'[u] = "empty"
    BY <1>1, <1>6 DEF Unmark, Goto, TypeOK
  <2>2. ReadMarker' = Empty
    BY <2>1 DEF ReadMarker, Empty
  <2>3. Written(u)' /\ Dropped(u)' /\ TrueExcept(u)'
    BY <1>2, <2>1, <2>2 DEF Written, Writing, Dropped, TrueExcept
  <2>4. TallyOf(u)'
    BY <1>1, <1>2, <1>5, <1>6 DEF TallyOf
  <2>5. QED
    BY <2>3, <2>4 DEF Sole
<1>7. CASE rest # Empty
  <2>1. tmp'[u] = rest /\ torn' = TRUE /\ pc'[u] = "unmarking"
    BY <1>1, <1>7 DEF Unmark, Goto, TypeOK
  <2>2. ReadMarker' = Empty
    BY <2>1 DEF ReadMarker, Empty
  <2>3. \A t \in EnvType : Complete(t)' = Complete(t)
    BY <1>1 DEF Complete
  <2>4. Written(u)' /\ Dropped(u)' /\ TrueExcept(u)'
    BY <1>1, <1>2, <1>4, <2>1, <2>2, <2>3 DEF Written, Writing, Dropped, TrueExcept
  <2>5. TallyOf(u)'
    BY <1>1, <1>5, <2>1 DEF TallyOf, Recorded, Writing
  <2>6. QED
    BY <2>4, <2>5 DEF Sole
<1>8. QED
  BY <1>6, <1>7

\* The marker without the entry is written.
LEMMA DropWrites ==
  ASSUME TypeOK, dir, NEW u \in Removers, Sole(u), UnmarkWrites(u)
  PROVE  Sole(u)'
<1>1. /\ pc[u] = "unmarking" /\ pc'[u] = "empty" /\ UNCHANGED <<built, builds, dir>>
      /\ marker' = tmp[u] /\ torn' = FALSE
  BY EnvironmentAssumption DEF UnmarkWrites, Write, Goto, TypeOK, Actors
<1>2. ReadMarker' = tmp[u]
  BY <1>1 DEF ReadMarker, Empty
<1>3. torn /\ \A t \in EnvType : tmp[u][t] = "current" => Complete(t)
  BY <1>1 DEF Sole, Written, Writing
<1>4. \A t \in EnvType : ReadMarker[t] # "current"
  BY <1>3 DEF ReadMarker, Empty
<1>5. Written(u)' /\ Dropped(u)'
  BY <1>1 DEF Written, Writing, Dropped
<1>6. TrueExcept(u)'
  BY <1>1, <1>2, <1>3 DEF TrueExcept, Complete
<1>7. TallyOf(u)'
  BY <1>1, <1>2, <1>4 DEF Sole, TallyOf, Recorded
<1>8. QED
  BY <1>5, <1>6, <1>7 DEF Sole

\* The directory goes with the last entry.
LEMMA EmptiesStep ==
  ASSUME TypeOK, NEW u \in Removers, Sole(u), Empties(u)
  PROVE  Sole(u)'
<1>1. /\ pc[u] = "empty" /\ UNCHANGED <<built, builds>> /\ ReadMarker' = ReadMarker
      /\ pc'[u] = (IF ReadMarker = Empty /\ dir THEN "deleted" ELSE "idle")
  BY SameMarker DEF Empties, Goto, TypeOK, Actors
<1>2. Written(u)' /\ Dropped(u)'
  BY <1>1 DEF Written, Writing, Dropped
<1>3. TrueExcept(u)'
  BY <1>1 DEF Sole, TrueExcept, Removing, Complete
<1>4. TallyOf(u)'
  BY <1>1 DEF Sole, TallyOf, Recorded, Writing
<1>5. QED
  BY <1>2, <1>3, <1>4 DEF Sole

\* After the directory there is nothing to say.
LEMMA RemoveStep ==
  ASSUME TypeOK, NEW u \in Removers, RemoveDirectory(u)
  PROVE  Sole(u)' /\ pc'[u] = "idle"
<1>1. /\ pc'[u] = "idle" /\ \A t \in EnvType : builds'[t] = 0
      /\ marker' = Empty
  BY DEF RemoveDirectory, Goto, TypeOK, Actors
<1>2. ReadMarker' = Empty
  BY <1>1 DEF ReadMarker, Empty
<1>3. QED
  BY <1>1, <1>2, ReadMarkerType DEF Sole, Written, Writing, Dropped, TrueExcept, TallyOf

\* Whatever a lone process that uninstalls does, the invariant is kept.
LEMMA RemoverStep ==
  ASSUME TypeOK, Safe, NEW u \in Removers, UninstallStep(u)
  PROVE  Safe'
<1>1. Active(u)
  BY DEF UninstallStep, DeleteVenv, DeleteRest, Unmark, UnmarkWrites, Empties, RemoveDirectory, Active
<1>2. Solo(u) /\ dir
  BY <1>1 DEF Safe, Alone, Solo
<1>3. Sole(u)
  BY <1>2, NarrowSolo DEF Sole
<1>4. Sole(u)'
  BY <1>2, <1>3, DeleteStep, DropStep, DropWrites, EmptiesStep, RemoveStep DEF UninstallStep
<1>5. \E x : pc' = [pc EXCEPT ![u] = x]
  BY DEF UninstallStep, DeleteVenv, DeleteRest, Unmark, UnmarkWrites, Empties, RemoveDirectory, Goto
<1>6. Solo(u)'
  BY <1>2, <1>5, StillSolo
<1>7. Active(u)' => dir'
  <2>1. CASE RemoveDirectory(u)
    BY <2>1, RemoveStep DEF Active
  <2>2. CASE ~RemoveDirectory(u)
    BY <1>2, <2>2 DEF UninstallStep, DeleteVenv, DeleteRest, Unmark, UnmarkWrites, Empties
  <2>3. QED
    BY <2>1, <2>2
<1>8. QED
  BY <1>4, <1>6, <1>7, WidenSolo DEF Sole

-----------------------------------------------------------------------------
(***************************************************************************)
(* The invariant.                                                          *)
(***************************************************************************)
LEMMA InitSafe == Init => IInv
<1>1. SUFFICES ASSUME Init PROVE IInv
  OBVIOUS
<1>2. /\ pc = [a \in Actors |-> "idle"] /\ want = [a \in Actors |-> "venv"]
      /\ builds = [t \in EnvType |-> 0]
  BY <1>1 DEF Init
<1>3. Named
  BY <1>2 DEF Named, Actors, EnvType
<1>4. Bare /\ \A t \in EnvType : marker[t] # "current"
  <2>1. PICK old \in SUBSET EnvType :
          /\ dir = (old # {})
          /\ marker = [t \in EnvType |-> IF t \in old THEN "stale" ELSE "none"]
    BY <1>1 DEF Init
  <2>2. \A t \in EnvType : marker[t] # "current"
    BY <2>1
  <2>3. Bare
    <3>1. SUFFICES ASSUME old = {} PROVE marker = Empty
      BY <2>1 DEF Bare
    <3>2. QED
      BY <2>1, <3>1 DEF Empty
  <2>4. QED
    BY <2>2, <2>3
<1>5. \A a \in Actors : pc[a] = "idle"
  BY <1>2
<1>6. \A a \in Actors : ~Active(a) /\ ~Busy(a) /\ Written(a) /\ Dropped(a)
  BY <1>5, IdleInNothing DEF Active
<1>7. \A a \in Installers : Own(a)
  BY <1>6, NotBusy DEF Busy, Actors
<1>8. \A t \in EnvType : ReadMarker[t] # "current" /\ builds[t] = 0
  BY <1>2, <1>4 DEF ReadMarker, Empty
<1>9. Safe
  <2>1. Exclusive /\ Alone
    BY <1>6 DEF Exclusive, Alone, Actors
  <2>2. InstallersSafe
    BY <1>7 DEF InstallersSafe, Own
  <2>3. Trusted /\ Counted
    BY <1>8 DEF Trusted, Counted
  <2>4. QED
    BY <1>6, <2>1, <2>2, <2>3 DEF Safe, Actors
<1>10. TypeOK
  BY <1>1, InitType
<1>11. QED
  BY <1>3, <1>4, <1>9, <1>10 DEF IInv

\* What install() was called for is a type, in every step.
LEMMA NamedStep ==
  ASSUME TypeOK, Named, [Next]_vars
  PROVE  Named'
<1>1. ASSUME NEW b \in Actors, Forget(b) PROVE Named'
  BY <1>1 DEF Named, Forget, TypeOK, Actors, EnvType
<1>2. CASE UNCHANGED want
  BY <1>2 DEF Named
<1>3. ASSUME NEW a \in Installers, NEW t \in EnvType, NEW f \in BOOLEAN, Install(a, t, f)
      PROVE  Named'
  BY <1>3 DEF Named, Install, TypeOK, Actors
<1>4. ASSUME NEW u \in Removers, NEW t \in EnvType \cup {"all"}, Uninstall(u, t) PROVE Named'
  <2>1. \A a \in Installers : want'[a] = want[a]
    BY <1>4, EnvironmentAssumption DEF Uninstall
  <2>2. QED
    BY <2>1 DEF Named
<1>5. ASSUME NEW a \in Installers, InstallStep(a), ~UNCHANGED want PROVE Forget(a) /\ a \in Actors
  BY <1>5 DEF InstallStep, Acquire, Check, Unmark, UnmarkWrites, MarkWrites, Mark, VenvScratch,
     VenvFill, PublishAside, PublishVenv, Restore, DropVenv, DockerBuild, BuildBase, BuildBench, BuildImage,
     Built, LocalInstall, Return, Actors
<1>6. ASSUME NEW u \in Removers, UninstallStep(u), ~UNCHANGED want PROVE Forget(u) /\ u \in Actors
  BY <1>6 DEF UninstallStep, DeleteVenv, DeleteRest, Unmark, UnmarkWrites, Empties,
     RemoveDirectory, Actors
<1>7. ASSUME NEW a \in Actors, Die(a) PROVE Forget(a)
  BY <1>7 DEF Die
<1>8. (UNCHANGED vars \/ Finished) => UNCHANGED want
  BY DEF Finished, vars
<1>9. QED
  BY <1>1, <1>2, <1>3, <1>4, <1>5, <1>6, <1>7, <1>8 DEF Next

\* A directory that is gone has no marker.
LEMMA BareStep ==
  ASSUME TypeOK, Bare, [Next]_vars
  PROVE  Bare'
<1>1. CASE UNCHANGED <<dir, marker>>
  BY <1>1 DEF Bare, Empty
<1>2. CASE dir' = TRUE \/ marker' = Empty
  BY <1>2 DEF Bare, Empty
<1>3. ASSUME NEW a \in Installers, InstallStep(a)
      PROVE  UNCHANGED <<dir, marker>> \/ dir' = TRUE \/ marker' = Empty
  BY <1>3 DEF InstallStep, Acquire, Check, Unmark, UnmarkWrites, Write, MarkWrites, Mark, VenvScratch,
     VenvFill, PublishAside, PublishVenv, Restore, DropVenv, DockerBuild, BuildBase, BuildBench, BuildImage,
     Built, LocalInstall, Return, TypeOK
<1>4. ASSUME NEW u \in Removers, UninstallStep(u)
      PROVE  UNCHANGED <<dir, marker>> \/ dir' = TRUE \/ marker' = Empty
  BY <1>4 DEF UninstallStep, DeleteVenv, DeleteRest, Unmark, UnmarkWrites, Write, Empties,
     RemoveDirectory, TypeOK
<1>5. ASSUME NEW a \in Installers, NEW t \in EnvType, NEW f \in BOOLEAN, Install(a, t, f)
      PROVE  UNCHANGED <<dir, marker>> \/ dir' = TRUE
  BY <1>5 DEF Install
<1>6. QED
  BY <1>1, <1>2, <1>3, <1>4, <1>5 DEF Next, Uninstall, Die, Finished, vars

\* Once blemished, always.
LEMMA NotBlemished ==
  ASSUME [Next]_vars, ~blemished'
  PROVE  ~blemished
<1>1. ASSUME NEW a \in Installers, InstallStep(a) PROVE UNCHANGED blemished
  BY <1>1 DEF InstallStep, Acquire, Check, Unmark, UnmarkWrites, MarkWrites, Mark, VenvScratch,
     VenvFill, PublishAside, PublishVenv, Restore, DropVenv, DockerBuild, BuildBase, BuildBench,
     BuildImage, Built, LocalInstall, Return
<1>2. ASSUME NEW u \in Removers, UninstallStep(u) PROVE UNCHANGED blemished
  BY <1>2 DEF UninstallStep, DeleteVenv, DeleteRest, Unmark, UnmarkWrites, Empties, RemoveDirectory
<1>3. QED
  BY <1>1, <1>2 DEF Next, Install, Uninstall, Die, Finished, vars

\* The invariant is kept as long as nothing is blemished.
LEMMA SafeStep ==
  ASSUME IInv, [Next]_vars, ~blemished'
  PROVE  Safe'
<1>1. ~blemished
  BY NotBlemished
<1>2. Safe /\ TypeOK /\ Named /\ Bare
  BY <1>1 DEF IInv
<1>3. ASSUME NEW a \in Installers, InstallStep(a) PROVE Safe'
  BY <1>2, <1>3, HolderStep, AcquireStep, OutsideStep
<1>4. ASSUME NEW a \in Installers, NEW t \in EnvType, NEW f \in BOOLEAN, Install(a, t, f)
      PROVE  Safe'
  BY <1>2, <1>4, InstallCall
<1>5. ASSUME NEW u \in Removers, UninstallStep(u) PROVE Safe'
  BY <1>2, <1>5, RemoverStep
<1>6. ASSUME NEW u \in Removers, NEW t \in EnvType \cup {"all"}, Uninstall(u, t) PROVE Safe'
  BY <1>2, <1>6, UninstallCall
<1>7. ASSUME NEW a \in Actors, Die(a) PROVE Safe'
  <2>1. a \in Installers
    BY <1>7 DEF Die, Actors
  <2>2. QED
    BY <1>2, <1>7, <2>1, DeathStep
<1>8. CASE UNCHANGED vars
  BY <1>2, <1>8 DEF vars, Safe, Exclusive, Alone, InstallersSafe, Placed, Kept, Marked, Uncounted,
     Written, Writing, Dropped, Trusted, Counted, Recorded, Pending, Removing, Asked, Complete,
     Busy, Active, ReadMarker, VenvExists
<1>9. QED
  BY <1>3, <1>4, <1>5, <1>6, <1>7, <1>8 DEF Next, Finished

\* The invariant is one: types, names and the bare directory support the rest.
LEMMA Inductive == Spec => []IInv
<1>1. IInv /\ [Next]_vars => IInv'
  <2>1. SUFFICES ASSUME IInv, [Next]_vars PROVE IInv'
    OBVIOUS
  <2>2. TypeOK' /\ Named' /\ Bare'
    BY <2>1, TypeStep, NamedStep, BareStep DEF IInv
  <2>3. QED
    BY <2>1, <2>2, SafeStep DEF IInv
<1>2. QED
  BY <1>1, InitSafe, PTL DEF Spec

\* As long as uninstall() has the environment to itself, any number of
\* callers of EnvironmentManager.install() build it once, and an install under
\* way keeps its scratch directory.
THEOREM EnvironmentsBuiltOnce == Spec => []BuildsSafe
<1>1. IInv => BuildsSafe
  <2>1. SUFFICES ASSUME IInv PROVE BuildsSafe
    OBVIOUS
  <2>2. BuiltOnce
    <3>1. SUFFICES ASSUME ~blemished, NEW t \in EnvType PROVE builds[t] <= 1
      BY DEF BuiltOnce
    <3>2. builds[t] \in 0..1
      BY <2>1, <3>1 DEF IInv, Safe, Counted
    <3>3. QED
      BY <3>2
  <2>3. ScratchKept
    BY <2>1 DEF IInv, Safe, InstallersSafe, Kept, ScratchKept
  <2>4. QED
    BY <2>1, <2>2, <2>3 DEF BuildsSafe, IInv
<1>2. QED
  BY <1>1, Inductive, PTL

\* Where one process goes in a step that another takes.
LEMMA OneMoves ==
  ASSUME TypeOK, [Next]_vars, NEW a \in Installers, pc'[a] # pc[a]
  PROVE  \/ InstallStep(a) \/ (\E t \in EnvType, f \in BOOLEAN : Install(a, t, f)) \/ Die(a)
<1> USE DEF Goto, Leave, Fails
<1>1. ASSUME NEW b, NEW x, pc' = [pc EXCEPT ![b] = x] PROVE a = b
  BY <1>1
<1>2. ASSUME NEW b \in Installers, InstallStep(b) PROVE \E x : pc' = [pc EXCEPT ![b] = x]
  BY <1>2 DEF InstallStep, Acquire, Check, Unmark, UnmarkWrites, MarkWrites, Mark, VenvScratch,
     VenvFill, PublishAside, PublishVenv, Restore, DropVenv, DockerBuild, BuildBase, BuildBench, BuildImage,
     Built, LocalInstall, Return
<1>3. ASSUME NEW b \in Installers, NEW t \in EnvType, NEW f \in BOOLEAN, Install(b, t, f)
      PROVE  \E x : pc' = [pc EXCEPT ![b] = x]
  BY <1>3 DEF Install
<1>4. ASSUME NEW u \in Removers, UninstallStep(u) PROVE \E x : pc' = [pc EXCEPT ![u] = x]
  BY <1>4 DEF UninstallStep, DeleteVenv, DeleteRest, Unmark, UnmarkWrites, Empties, RemoveDirectory
<1>5. ASSUME NEW u \in Removers, NEW t \in EnvType \cup {"all"}, Uninstall(u, t)
      PROVE  \E x : pc' = [pc EXCEPT ![u] = x]
  BY <1>5 DEF Uninstall
<1>6. ASSUME NEW b \in Actors, Die(b) PROVE \E x : pc' = [pc EXCEPT ![b] = x]
  BY <1>6 DEF Die
<1>7. a \notin Removers
  BY EnvironmentAssumption
<1>8. ~UNCHANGED vars /\ ~Finished
  BY DEF vars, Finished
<1>9. QED
  BY <1>1, <1>2, <1>3, <1>4, <1>5, <1>6, <1>7, <1>8 DEF Next

\* What EnvironmentManager.install() returns is complete, and for a venv of the
\* running version; a failed install leaves the venv there was, unless it could
\* not be moved back.
HandedOver ==
  \A a \in Installers :
    pc[a] # "ready" /\ pc'[a] = "ready" /\ ~blemished'
      => /\ want'[a] = "venv" => built'["venv"] = "current"
         /\ want'[a] = "docker" => built'["docker"] # "none"
LeftThere ==
  \A a \in Installers :
    pc[a] \in {"fill", "aside", "restore"} /\ pc'[a] = "raised"
      /\ had[a] /\ ~blemished'
      => built'["venv"] # "none"

\* An entry of the running version, read with no uninstall under way.
LEMMA InstalledIsComplete ==
  ASSUME Safe, NEW t \in EnvType, IsInstalled(t), \A u \in Removers : ~Active(u)
  PROVE  Complete(t)
BY IdleInNothing DEF Safe, Trusted, IsInstalled, VersionStale

\* install() returns on the fast path, after the second look, or having recorded.
LEMMA HandedStep ==
  ASSUME IInv, [Next]_vars
  PROVE  HandedOver
<1>1. SUFFICES ASSUME NEW a \in Installers, pc[a] # "ready", pc'[a] = "ready", ~blemished'
               PROVE  /\ want'[a] = "venv" => built'["venv"] = "current"
                      /\ want'[a] = "docker" => built'["docker"] # "none"
  BY DEF HandedOver
<1>2. TypeOK /\ Named /\ Safe
  BY <1>1, NotBlemished DEF IInv
<1>3. InstallStep(a) \/ (\E t \in EnvType, f \in BOOLEAN : Install(a, t, f)) \/ Die(a)
  BY <1>1, <1>2, OneMoves
<1>4. CASE \E t \in EnvType, f \in BOOLEAN : Install(a, t, f)
  <2>1. PICK t \in EnvType, f \in BOOLEAN : Install(a, t, f)
    BY <1>4
  <2>2. want'[a] = t /\ UNCHANGED built
    BY <1>2, <2>1 DEF Install, TypeOK, Actors
  <2>3. IsInstalled(t)
    <3>1. Goto(a, "lock") => pc'[a] = "lock"
      BY <1>2, Moves
    <3>2. QED
      BY <1>1, <2>1, <3>1 DEF Install
  <2>4. \A u \in Removers : ~Active(u)
    BY <1>1, <2>1 DEF Install
  <2>5. Complete(t)
    BY <1>2, <2>3, <2>4, InstalledIsComplete
  <2>6. QED
    BY <2>2, <2>5 DEF Complete
<1>5. CASE Check(a)
  <2>1. Busy(a)
    BY <1>5 DEF Check, Busy
  <2>2. want[a] \in EnvType /\ \A u \in Removers : ~Active(u)
    BY <1>2, <2>1, LoneHolder DEF Named, Lone
  <2>3. IsInstalled(want[a])
    <3>1. Goto(a, "unmark") => pc'[a] = "unmark"
      BY <1>2, Moves
    <3>2. QED
      BY <1>1, <1>5, <3>1 DEF Check
  <2>4. Complete(want[a])
    BY <1>2, <2>2, <2>3, InstalledIsComplete
  <2>5. UNCHANGED <<want, built>>
    BY <1>5 DEF Check
  <2>6. QED
    BY <2>4, <2>5 DEF Complete
<1>6. CASE MarkWrites(a)
  <2>1. Complete(want[a]) /\ UNCHANGED <<want, built>>
    BY <1>2, <1>6 DEF MarkWrites, Safe, InstallersSafe, Marked, Marking
  <2>2. QED
    BY <2>1 DEF Complete
<1>7. ~Die(a)
  BY <1>1, <1>2, Moves DEF Die
<1>8. ASSUME InstallStep(a), ~Check(a), ~MarkWrites(a) PROVE FALSE
  <2>1. \E x : x # "ready" /\ (Goto(a, x) \/ Leave(a, x))
    BY <1>8 DEF InstallStep, Acquire, Unmark, UnmarkWrites, Mark, VenvScratch, VenvFill,
       PublishAside, PublishVenv, Restore, DropVenv, DockerBuild, BuildBase, BuildBench, BuildImage, Built,
       LocalInstall, Return, Fails
  <2>2. QED
    BY <1>1, <1>2, <2>1, Moves
<1>9. QED
  BY <1>3, <1>4, <1>5, <1>6, <1>7, <1>8

\* A failing install has not touched the venv, or puts the old one back.
LEMMA LeftStep ==
  ASSUME IInv, [Next]_vars
  PROVE  LeftThere
<1>1. SUFFICES ASSUME NEW a \in Installers, pc[a] \in {"fill", "aside", "restore"},
                      pc'[a] = "raised", had[a], ~blemished'
               PROVE  built'["venv"] # "none"
  BY DEF LeftThere
<1>2. TypeOK /\ Named /\ Safe
  BY <1>1, NotBlemished DEF IInv
<1>3. InstallStep(a) \/ Die(a)
  BY <1>1, <1>2, OneMoves DEF Install
<1>4. ~Die(a)
  BY <1>1, <1>2, Moves DEF Die
<1>5. VenvFill(a) \/ PublishAside(a) \/ Restore(a)
  BY <1>1, <1>3, <1>4 DEF InstallStep, Acquire, Check, Unmark, UnmarkWrites, MarkWrites, Mark,
     VenvScratch, PublishVenv, DropVenv, DockerBuild, BuildBase, BuildBench, BuildImage, LocalInstall,
     Return
<1>6. Kept(a)
  BY <1>2 DEF Safe, InstallersSafe
<1>7. CASE VenvFill(a)
  BY <1>1, <1>6, <1>7 DEF VenvFill, Kept, VenvExists
<1>8. CASE PublishAside(a)
  <2>1. ~Goto(a, "publish")
    BY <1>1, <1>2, Moves
  <2>2. VenvExists /\ UNCHANGED built
    BY <1>8, <2>1 DEF PublishAside
  <2>3. QED
    BY <2>2 DEF VenvExists
<1>9. CASE Restore(a)
  <2>1. pc[a] = "restore" /\ (built["venv"] # "none" \/ trash # "none")
    BY <1>1, <1>6, <1>9 DEF Restore, Kept, VenvExists
  <2>2. ~Goto(a, "lost")
    BY <1>1, <1>2, Moves
  <2>3. built' = [built EXCEPT !["venv"] = IF @ = "none" THEN trash ELSE @]
    BY <1>9, <2>2 DEF Restore
  <2>4. "venv" \in DOMAIN built
    BY <1>2 DEF TypeOK, EnvType
  <2>5. QED
    BY <2>1, <2>3, <2>4
<1>10. QED
  BY <1>5, <1>7, <1>8, <1>9

\* What install() hands over is complete, and its failure costs no venv unless
\* both renames of the exchange fail, for any number of processes and whatever
\* dies on the way.
THEOREM InstallsAreKept == Spec => InstallsKeep
<1>1. IInv /\ [Next]_vars => [HandedOver]_vars /\ [LeftThere]_vars
  BY HandedStep, LeftStep
<1>2. Spec => [][HandedOver]_vars /\ [][LeftThere]_vars
  BY <1>1, Inductive, PTL DEF Spec
<1>3. QED
  BY <1>2 DEF InstallsKeep, HandedComplete, FailureKeepsVenv, HandedOver, LeftThere
=============================================================================
