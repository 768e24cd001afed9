----------------------------- MODULE Environment -----------------------------
(***************************************************************************)
(* One environment directory of the EnvironmentManager: the marker file,   *)
(* the install lock inside the directory, and what the venv, docker and    *)
(* local backends build.  Installers take the lock, uninstall() does not,  *)
(* and any process may die.                                                *)
(***************************************************************************)
EXTENDS Naturals, FiniteSets

CONSTANTS Installers,   \* processes or threads inside install()
          Removers,     \* processes inside uninstall()
          None,         \* nobody holds the lock
          MaxCalls,     \* bound: calls of install() and uninstall() in all
          MaxFaults     \* bound: deaths

ASSUME EnvironmentAssumption ==
    /\ Installers \cap Removers = {} /\ None \notin Installers
    /\ MaxCalls \in Nat /\ MaxFaults \in Nat

VARIABLES dir,        \* the directory exists
          lock,       \* who holds the lock file in it
          marker,     \* .installed: the version recorded for each type
          torn,       \* it has been truncated and not yet written
          built,      \* what is there of each type
          scratch,    \* the installs whose scratch directory is there
          trash,      \* the venv that was moved aside
          pc, want, force, tmp, had,
          builds,     \* history: completed builds since the last reason for one
          blemished,  \* history: uninstall() overlapped with something or died
          budget, faults

vars == <<dir, lock, marker, torn, built, scratch, trash, pc, want, force, tmp, had,
          builds, blemished, budget, faults>>

Actors   == Installers \cup Removers
EnvType  == {"venv", "docker", "local"}
Versions == {"none", "stale", "current"}     \* stale: of another exgentic
Empty    == [t \in EnvType |-> "none"]

TypeOK ==
    /\ dir \in BOOLEAN /\ torn \in BOOLEAN /\ blemished \in BOOLEAN
    /\ lock \in Installers \cup {None}
    /\ marker \in [EnvType -> Versions]
    /\ built \in [EnvType -> Versions \cup {"partial"}]
    /\ scratch \subseteq Installers
    /\ trash \in Versions \cup {"partial"}
    /\ pc \in [Actors -> {"idle", "lock", "check", "unmark", "unmarking", "build", "fill", "aside",
                          "base", "bench", "image",
                          "publish", "restore", "lost", "mark", "marking", "ready", "raised", "delete", "deleting",
                          "deleted", "empty"}]
    /\ want \in [Actors -> EnvType \cup {"all"}]
    /\ force \in [Actors -> BOOLEAN] /\ had \in [Actors -> BOOLEAN]
    /\ tmp \in [Actors -> [EnvType -> Versions]]
    /\ builds \in [EnvType -> Nat]
    /\ budget \in 0..MaxCalls /\ faults \in 0..MaxFaults

\* Whatever an older exgentic has installed may be there.
Init ==
    \E old \in SUBSET EnvType :
        /\ dir = (old # {})
        /\ marker = [t \in EnvType |-> IF t \in old THEN "stale" ELSE "none"]
        /\ built = marker
        /\ lock = None /\ torn = FALSE /\ scratch = {} /\ trash = "none"
        /\ pc = [a \in Actors |-> "idle"] /\ want = [a \in Actors |-> "venv"]
        /\ force = [a \in Actors |-> FALSE] /\ had = [a \in Actors |-> FALSE]
        /\ tmp = [a \in Actors |-> Empty]
        /\ builds = [t \in EnvType |-> 0]
        /\ blemished = FALSE /\ budget = 0 /\ faults = 0

-----------------------------------------------------------------------------
(* Reading. *)

\* A marker that is missing, truncated or not JSON reads as empty.
ReadMarker == IF torn \/ ~dir THEN Empty ELSE marker

VenvExists   == built["venv"] # "none"        \* bin/python is there
LocalExists  == TRUE                          \* the running Python
DockerExists == TRUE                          \* "trust the marker"

VersionStale(t) == ReadMarker[t] # "current"

IsInstalled(t) ==
    /\ ~VersionStale(t)
    /\ CASE t = "venv" -> VenvExists [] t = "local" -> LocalExists [] t = "docker" -> DockerExists

Active(a) == pc[a] \notin {"idle", "raised"}

-----------------------------------------------------------------------------
(* install() *)

Goto(a, label) == pc' = [pc EXCEPT ![a] = label]

\* Leaving the with block gives up the lock, if its file is still there.
Leave(a, label) ==
    /\ Goto(a, label)
    /\ lock' = IF lock = a THEN None ELSE lock

\* An exception: the entry of the type has been removed from the marker.
Fails(a) ==
    /\ Leave(a, "raised")
    /\ builds' = [builds EXCEPT ![want[a]] = 0]

\* The local variables of a call that is over.
Forget(a) ==
    /\ want' = [want EXCEPT ![a] = "venv"] /\ force' = [force EXCEPT ![a] = FALSE]
    /\ tmp' = [tmp EXCEPT ![a] = Empty] /\ had' = [had EXCEPT ![a] = FALSE]

\* The fast path, then mkdir.
Install(a, t, f) ==
    /\ pc[a] = "idle" /\ budget < MaxCalls /\ budget' = budget + 1
    /\ want' = [want EXCEPT ![a] = t] /\ force' = [force EXCEPT ![a] = f]
    /\ blemished' = (blemished \/ \E u \in Removers : Active(u))
    /\ IF ~f /\ IsInstalled(t) THEN Goto(a, "ready") /\ UNCHANGED dir
       ELSE Goto(a, "lock") /\ dir' = TRUE
    /\ UNCHANGED <<lock, marker, torn, built, scratch, trash, tmp, had, builds, faults>>

\* FileLock makes the directory again if it has gone.
Acquire(a) ==
    /\ pc[a] = "lock"
    /\ \/ lock = None /\ lock' = a /\ dir' = TRUE /\ Goto(a, "check")
       \/ lock # None /\ Goto(a, "raised") /\ UNCHANGED <<lock, dir>>    \* Timeout
    /\ UNCHANGED <<marker, torn, built, scratch, trash, want, force, tmp, had, builds,
                   blemished, budget, faults>>

\* Variant: no second look once the lock is held.
CheckNot(a) ==
    /\ pc[a] = "check" /\ Goto(a, "unmark")
    /\ UNCHANGED <<dir, lock, marker, torn, built, scratch, trash, want, force, tmp, had,
                   builds, blemished, budget, faults>>

\* The double check.
Check(a) ==
    /\ pc[a] = "check"
    /\ IF ~force[a] /\ IsInstalled(want[a]) THEN Leave(a, "ready")
       ELSE Goto(a, "unmark") /\ UNCHANGED lock
    /\ UNCHANGED <<dir, marker, torn, built, scratch, trash, want, force, tmp, had,
                   builds, blemished, budget, faults>>

\* _remove_marker_entry(): read, then rewrite in place, or unlink when empty.
Unmark(a) ==
    /\ pc[a] = "unmark"
    /\ LET rest == [ReadMarker EXCEPT ![want[a]] = "none"] IN
          IF rest = Empty
          THEN marker' = Empty /\ torn' = FALSE /\ UNCHANGED tmp
          ELSE tmp' = [tmp EXCEPT ![a] = rest] /\ torn' = TRUE /\ UNCHANGED marker
    /\ Goto(a, IF torn' THEN "unmarking" ELSE IF a \in Installers THEN "build" ELSE "empty")
    /\ UNCHANGED <<dir, lock, built, scratch, trash, want, force, had, builds, blemished,
                   budget, faults>>

\* The write itself; into a directory that is gone it has no effect.
Write(a) ==
    /\ marker' = IF dir THEN tmp[a] ELSE marker
    /\ torn' = FALSE
    /\ tmp' = [tmp EXCEPT ![a] = Empty]

UnmarkWrites(a) ==
    /\ pc[a] = "unmarking" /\ Write(a)
    /\ Goto(a, IF a \in Installers THEN "build" ELSE "empty")
    /\ UNCHANGED <<dir, lock, built, scratch, trash, want, force, had, builds,
                   blemished, budget, faults>>

\* VenvBackend.install(): scratch and trash of crashed installs are removed,
\* a scratch directory of its own is made.
VenvScratch(a) ==
    /\ pc[a] = "build" /\ want[a] = "venv"
    /\ dir' = TRUE /\ trash' = "none"
    /\ had' = [had EXCEPT ![a] = VenvExists]
    /\ \/ scratch' = {a} /\ Goto(a, "fill") /\ UNCHANGED <<lock, builds>>
       \/ scratch' = {} /\ Fails(a)
    /\ UNCHANGED <<marker, torn, built, want, force, tmp, blemished, budget, faults>>

\* uv venv, install_project, install_packages, install_requirements, setup.sh:
\* any of them may fail, and does when the directory has been removed.
VenvFill(a) ==
    /\ pc[a] = "fill"
    /\ \/ a \in scratch /\ Goto(a, "aside") /\ UNCHANGED <<scratch, lock, builds>>
       \/ scratch' = scratch \ {a} /\ Fails(a)
    /\ UNCHANGED <<dir, marker, torn, built, trash, want, force, tmp, had, blemished,
                   budget, faults>>

\* _publish_atomic(): the old venv is moved aside, which may fail ...
PublishAside(a) ==
    /\ pc[a] = "aside"
    /\ \/ /\ IF VenvExists
             THEN trash' = built["venv"] /\ built' = [built EXCEPT !["venv"] = "none"]
             ELSE UNCHANGED <<trash, built>>
          /\ Goto(a, "publish") /\ UNCHANGED <<scratch, lock, builds>>
       \/ /\ VenvExists /\ Fails(a)
          /\ scratch' = scratch \ {a} /\ UNCHANGED <<trash, built>>
    /\ UNCHANGED <<dir, marker, torn, want, force, tmp, had, blemished, budget, faults>>

\* ... and the scratch directory moved in, and the old venv deleted.
PublishVenv(a) ==
    /\ pc[a] = "publish"
    /\ \/ /\ a \in scratch /\ scratch' = scratch \ {a} /\ trash' = "none"
          /\ built' = [built EXCEPT !["venv"] = "current"]
          /\ Goto(a, "mark")
          /\ builds' = [builds EXCEPT !["venv"] = IF force[a] THEN 1 ELSE @ + 1]
       \/ Goto(a, "restore") /\ UNCHANGED <<scratch, trash, built, builds>>
    /\ UNCHANGED <<dir, lock, marker, torn, want, force, tmp, had, blemished, budget, faults>>

\* Variant: the old venv is not moved back.
RestoreNever(a) ==
    /\ pc[a] = "restore" /\ Fails(a)
    /\ scratch' = scratch \ {a} /\ trash' = "none"
    /\ UNCHANGED <<dir, marker, torn, built, want, force, tmp, had, blemished, budget, faults>>

\* The second rename failed: the old venv, if there was one, is moved back and
\* the exception goes on, or moving it back fails as well.
Restore(a) ==
    /\ pc[a] = "restore"
    /\ \/ /\ built' = [built EXCEPT !["venv"] = IF @ = "none" THEN trash ELSE @]
          /\ scratch' = scratch \ {a} /\ trash' = "none" /\ Fails(a)
       \/ /\ trash # "none" /\ ~VenvExists
          /\ Goto(a, "lost") /\ UNCHANGED <<lock, scratch, trash, built, builds>>
    /\ UNCHANGED <<dir, marker, torn, want, force, tmp, had, blemished, budget, faults>>

\* Then the finally clauses delete the old venv and the scratch directory.
DropVenv(a) ==
    /\ pc[a] = "lost" /\ Fails(a)
    /\ scratch' = scratch \ {a} /\ trash' = "none"
    /\ UNCHANGED <<dir, marker, torn, built, want, force, tmp, had, blemished, budget, faults>>

\* The tag depends on pyproject.toml, requirements and scripts, not on the
\* version, so an image of another version may have it.
ImageThere == built["docker"] # "none"

\* DockerBackend.install(): an image with the tag is taken as it is; otherwise
\* one image is built, or two when the project is at hand.
DockerBuild(a) ==
    /\ pc[a] = "build" /\ want[a] = "docker"
    /\ IF ~force[a] /\ ImageThere THEN Goto(a, "mark")
       ELSE \/ Goto(a, "base") \/ Goto(a, "image") \/ Goto(a, "bench")
    /\ UNCHANGED <<dir, lock, marker, torn, built, scratch, trash, want, force, tmp, had,
                   builds, blemished, budget, faults>>

\* _build_base_image(), when the base is missing or the build is forced.
BuildBase(a) ==
    /\ pc[a] = "base"
    /\ \/ Goto(a, "bench") /\ UNCHANGED <<lock, builds>>
       \/ Fails(a)
    /\ UNCHANGED <<dir, marker, torn, built, scratch, trash, want, force, tmp, had,
                   blemished, budget, faults>>

Built(a) ==
    /\ \/ /\ built' = [built EXCEPT !["docker"] = "current"]
          /\ builds' = [builds EXCEPT !["docker"] = IF force[a] THEN 1 ELSE @ + 1]
          /\ Goto(a, "mark") /\ UNCHANGED lock
       \/ Fails(a) /\ UNCHANGED built
    /\ UNCHANGED <<dir, marker, torn, scratch, trash, want, force, tmp, had, blemished,
                   budget, faults>>

\* _build_bench_image(), on top of the base, and _build_image(), without one.
BuildBench(a) == pc[a] = "bench" /\ Built(a)
BuildImage(a) == pc[a] = "image" /\ Built(a)

\* LocalBackend.install() installs into the running Python.
LocalInstall(a) ==
    /\ pc[a] = "build" /\ want[a] = "local"
    /\ \/ /\ built' = [built EXCEPT !["local"] = "current"]
          /\ builds' = [builds EXCEPT !["local"] = IF force[a] THEN 1 ELSE @ + 1]
          /\ Goto(a, "mark") /\ UNCHANGED lock
       \/ Fails(a) /\ UNCHANGED built
    /\ UNCHANGED <<dir, marker, torn, scratch, trash, want, force, tmp, had, blemished,
                   budget, faults>>

\* _add_marker_entry(): read, mkdir, rewrite in place.
Mark(a) ==
    /\ pc[a] = "mark" /\ Goto(a, "marking")
    /\ tmp' = [tmp EXCEPT ![a] = [ReadMarker EXCEPT ![want[a]] = "current"]]
    /\ dir' = TRUE /\ torn' = TRUE
    /\ marker' = IF dir THEN marker ELSE Empty
    /\ UNCHANGED <<lock, built, scratch, trash, want, force, had, builds, blemished, budget, faults>>

MarkWrites(a) ==
    /\ pc[a] = "marking" /\ Write(a) /\ Leave(a, "ready")
    /\ UNCHANGED <<dir, built, scratch, trash, want, force, had, builds, blemished, budget, faults>>

\* The caller is done with the environment, or with the exception.
Return(a) ==
    /\ pc[a] \in {"ready", "raised"} /\ Goto(a, "idle") /\ Forget(a)
    /\ UNCHANGED <<dir, lock, marker, torn, built, scratch, trash, builds, blemished, budget, faults>>

-----------------------------------------------------------------------------
(* uninstall(), which takes no lock. *)

Uninstall(u, t) ==
    /\ pc[u] = "idle" /\ dir /\ budget < MaxCalls /\ budget' = budget + 1
    /\ want' = [want EXCEPT ![u] = t] /\ tmp' = [tmp EXCEPT ![u] = ReadMarker]
    /\ blemished' = (blemished \/ \E a \in Actors \ {u} : Active(a))
    /\ Goto(u, "delete")
    /\ UNCHANGED <<dir, lock, marker, torn, built, scratch, trash, force, had, builds, faults>>

\* Those of the backends that are asked to uninstall: all in the marker, or one.
Asked(u) == IF want[u] = "all" THEN {t \in EnvType : tmp[u][t] # "none"} ELSE {want[u]}

\* VenvBackend.uninstall() is an rmtree, which takes its time ...
DeleteVenv(u) ==
    /\ pc[u] = "delete" /\ Goto(u, "deleting")
    /\ built' = [built EXCEPT !["venv"] = IF "venv" \in Asked(u) /\ @ # "none" THEN "partial" ELSE @]
    /\ UNCHANGED <<dir, lock, marker, torn, scratch, trash, want, force, tmp, had, builds,
                   blemished, budget, faults>>

\* ... docker rmi needs the tag from the marker, and nothing is done for local.
DeleteRest(u) ==
    /\ pc[u] = "deleting"
    /\ built' = [t \in EnvType |->
                   IF t = "venv" /\ t \in Asked(u) THEN "none"
                   ELSE IF t = "docker" /\ t \in Asked(u) /\ tmp[u][t] # "none" THEN "none"
                   ELSE built[t]]
    /\ builds' = [t \in EnvType |-> IF t \in Asked(u) THEN 0 ELSE builds[t]]
    /\ Goto(u, IF want[u] = "all" THEN "deleted" ELSE "unmark")
    /\ UNCHANGED <<dir, lock, marker, torn, scratch, trash, want, force, tmp, had,
                   blemished, budget, faults>>

\* A single type: the directory goes with the last entry.
Empties(u) ==
    /\ pc[u] = "empty"
    /\ Goto(u, IF ReadMarker = Empty /\ dir THEN "deleted" ELSE "idle")
    /\ Forget(u)
    /\ UNCHANGED <<dir, lock, marker, torn, built, scratch, trash, builds, blemished, budget, faults>>

\* shutil.rmtree(env_dir): marker, venv, scratch, and the lock file.
RemoveDirectory(u) ==
    /\ pc[u] = "deleted" /\ Goto(u, "idle") /\ Forget(u)
    /\ dir' = FALSE /\ marker' = Empty /\ torn' = FALSE /\ scratch' = {} /\ trash' = "none"
    /\ lock' = None
    /\ built' = [built EXCEPT !["venv"] = "none"]
    /\ builds' = [t \in EnvType |-> 0]
    /\ UNCHANGED <<blemished, budget, faults>>

-----------------------------------------------------------------------------
\* A process dies; the kernel drops its lock.
Die(a) ==
    /\ Active(a) /\ faults < MaxFaults /\ faults' = faults + 1
    /\ Leave(a, "idle") /\ Forget(a)
    /\ builds' = [t \in EnvType |-> 0]
    /\ blemished' = (blemished \/ a \in Removers)
    /\ UNCHANGED <<dir, marker, torn, built, scratch, trash, budget>>

InstallStep(a) ==
    \/ Acquire(a) \/ Check(a) \/ Unmark(a) \/ UnmarkWrites(a)
    \/ VenvScratch(a) \/ VenvFill(a) \/ PublishAside(a) \/ PublishVenv(a) \/ Restore(a)
    \/ DropVenv(a)
    \/ DockerBuild(a) \/ BuildBase(a) \/ BuildBench(a) \/ BuildImage(a) \/ LocalInstall(a) \/ Mark(a) \/ MarkWrites(a) \/ Return(a)

UninstallStep(u) ==
    DeleteVenv(u) \/ DeleteRest(u) \/ Unmark(u) \/ UnmarkWrites(u) \/ Empties(u) \/ RemoveDirectory(u)

Finished == budget = MaxCalls /\ (\A a \in Actors : pc[a] = "idle") /\ UNCHANGED vars

Next ==
    \/ \E a \in Installers :
          InstallStep(a) \/ (\E t \in EnvType, f \in BOOLEAN : Install(a, t, f))
    \/ \E u \in Removers : UninstallStep(u) \/ \E t \in EnvType \cup {"all"} : Uninstall(u, t)
    \/ \E a \in Actors : Die(a)
    \/ Finished

\* Processes that run go on.
Fairness ==
    /\ \A a \in Installers : WF_vars(InstallStep(a))
    /\ \A u \in Removers : WF_vars(UninstallStep(u))

Spec == Init /\ [][Next]_vars /\ Fairness

-----------------------------------------------------------------------------
(* Correctness, as long as uninstall() has the environment to itself. *)

\* Any number of callers that find the environment missing build it once, until
\* it is forced, uninstalled, or a build fails or dies: the reason for the check
\* before and the check behind the lock.
BuiltOnce == ~blemished => \A t \in EnvType : builds[t] <= 1

\* An install under way keeps its scratch directory: cleaning up after crashed
\* installs never meets a live one.
ScratchKept ==
    ~blemished => \A a \in Installers :
        pc[a] \in {"fill", "aside", "publish", "restore", "lost"} => a \in scratch

\* What install() returns is complete, and for a venv of the running version,
\* through forced rebuilds, crashes at any point and a torn marker.
HandedComplete ==
    [][\A a \in Installers :
          pc[a] # "ready" /\ pc'[a] = "ready" /\ ~blemished'
              => /\ want'[a] = "venv" => built'["venv"] = "current"
                 /\ want'[a] = "docker" => built'["docker"] # "none"]_vars

\* An install that fails leaves the venv there was, whichever of its steps
\* fails, unless neither rename of the exchange could be done ("lost").
FailureKeepsVenv ==
    [][\A a \in Installers :
          pc[a] \in {"fill", "aside", "restore"} /\ pc'[a] = "raised"
              /\ had[a] /\ ~blemished'
              => built'["venv"] # "none"]_vars

\* The lock and the second check of EnvironmentManager.install(): any number of
\* processes build an environment once, and none tidies another's build away;
\* and what install() returns is complete, whoever failed or died before.
BuildsSafe == TypeOK /\ BuiltOnce /\ ScratchKept
InstallsKeep == HandedComplete /\ FailureKeepsVenv
=============================================================================
