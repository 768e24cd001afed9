-------------------------------- MODULE Batch --------------------------------
(***************************************************************************)
(* The batch commands over several config files of ONE run directory:      *)
(* evaluate with its global pool, execute, aggregate, prepare, patch and   *)
(* publish (interfaces/cli/commands/batch.py, core_batch_evaluate in       *)
(* core/orchestrator/run.py).  One command runs at a time, may be          *)
(* interrupted with Ctrl-C or die, and is issued again.                    *)
(*                                                                         *)
(* A config is abstracted to three fields: a model, the copy of the model  *)
(* that normalisation keeps in agent_kwargs, and one more parameter.       *)
(***************************************************************************)
EXTENDS Naturals, Sequences, FiniteSets, Functions

CONSTANTS Files,        \* the config files, in the order given: a sequence
          Kinds,        \* what kinds they may be of: [AllFiles -> SUBSET Kind]
          Tasks,        \* the tasks of a RunConfig
          TaskOf,       \* the task of a SessionConfig
          NumWorkers,   \* --max-workers
          MaxCommands,  \* bound: commands issued
          MaxFaults     \* bound: deaths, interrupts and failures

AllFiles == {Files[i] : i \in 1..Len(Files)}
Kind     == {"single", "overwrite"}    \* a SessionConfig; sets overwrite_sessions

\* The paths are expanded into a list without repetitions.
ASSUME BatchAssumption ==
    /\ Files \in Seq(AllFiles)
    /\ \A i, j \in 1..Len(Files) : Files[i] = Files[j] => i = j
    /\ IsFiniteSet(Tasks)
    /\ Kinds \subseteq [AllFiles -> SUBSET Kind]
    /\ TaskOf \in Tasks /\ NumWorkers \in Nat \ {0}
    /\ MaxCommands \in Nat /\ MaxFaults \in Nat

VARIABLES kind,      \* what the config files are
          file,      \* what they say
          runCfg,    \* run/config.json
          dir,       \* sessions/: what each session directory holds, by name
          scores,    \* results.json of the run: the sessions it aggregates
          dataset,   \* the rows of the published dataset
          cmd, pc, todo, left, arg,   \* the command: its place, files and names to do
          queue, stage, seen, holders, \* the pool: futures, and who holds a session lock
          interrupted,
          scored,    \* history: what evaluate aggregated for each file
          failed,    \* history: files whose aggregation failed, sessions that had trouble
          commands, faults

vars == <<kind, file, runCfg, dir, scores, dataset, cmd, pc, todo, left, arg, queue, stage,
          seen, holders, interrupted, scored, failed, commands, faults>>
disk == <<kind, file, runCfg, dir, scores, dataset>>
pool == <<queue, stage, seen, holders, interrupted>>
history == <<scored, failed>>

Items    == AllFiles \X Tasks
Values   == {1, 2}

-----------------------------------------------------------------------------
(* Configs and names. *)

Content == [temp : Values, model : Values, kw : Values \cup {0}]    \* kw 0: not set
Absent  == [temp |-> 0, model |-> 0, kw |-> 0]
Torn    == [temp |-> 0, model |-> 0, kw |-> 1]                      \* not JSON any more
Text    == Content \cup {Absent, Torn}

\* model is copied into agent_kwargs, where a different one is a conflict.
Normal(c) == IF c.kw = 0 THEN [c EXCEPT !.kw = c.model] ELSE c
Loads(c)  == c \in Content /\ c.kw \in {0, c.model}

SessionId(t, c) == <<t, c.temp, c.model>>
DupName(id, old) == id \o old                 \* "{new}__dup__{old}"

ApplyPatch(c, u) == [c EXCEPT ![u.key] = u.value]

TasksOf(f) == IF "single" \in kind[f] THEN {TaskOf} ELSE Tasks
Name(i)    == SessionId(i[2], file[i[1]])
IdsOf(f)   == {SessionId(t, file[f]) : t \in TasksOf(f)}

NoArg == [none |-> TRUE]
Empty == [cfg |-> Absent, res |-> "none", sid |-> <<>>]
Put(n, d) == [m \in DOMAIN dir \cup {n} |-> IF m = n THEN d ELSE dir[m]]
\* A directory whose results record the session id s; the name to for it.
Retold(d, s) == [d EXCEPT !.sid = IF d.res = "none" THEN <<>> ELSE s]
Rename(n, to, s) == [m \in (DOMAIN dir \ {n}) \cup {to} |->
                        IF m = to THEN Retold(dir[n], s) ELSE dir[m]]

TypeOK ==
    /\ kind \in [AllFiles -> SUBSET Kind] /\ file \in [AllFiles -> Text] /\ runCfg \in Text
    /\ \A n \in DOMAIN dir :
           dir[n].cfg \in Text /\ dir[n].res \in {"none", "ok", "error"}
    /\ scores.written \in BOOLEAN /\ dataset \subseteq {"mine", "other"}
    /\ cmd \in {"none", "evaluate", "execute", "aggregate", "prepare", "patch"}
    /\ pc \in {"idle", "plan", "pool", "score", "files", "run", "configs", "legacy",
               "recover", "returned", "raised"}
    /\ Len(todo) <= Len(Files) /\ left \subseteq DOMAIN dir
    /\ stage \in [Items -> {"out", "queued", "sampled", "running"}]
    /\ seen \in [Items -> {"", "running", "completed", "incomplete"}]
    /\ \A i \in holders : stage[i] = "running"
    /\ \A i, j \in holders : Name(i) = Name(j) => i = j
    /\ interrupted \in BOOLEAN
    /\ scored \in [AllFiles -> SUBSET DOMAIN dir]
    /\ commands \in 0..MaxCommands /\ faults \in 0..MaxFaults

\* What earlier runs left: sessions of this and of another parameter, some
\* without a config.json, as runs of older versions wrote them.
Original == [temp |-> 1, model |-> 1, kw |-> 0]
OldNames == {<<TaskOf, 1, 1>>, <<TaskOf, 2, 1>>}
OldRecords(n) ==
    {[cfg |-> c, res |-> r, sid |-> n] :
        c \in {Absent, [temp |-> n[2], model |-> n[3], kw |-> n[3]]}, r \in {"ok", "error"}}
\* Or what a patch left that made one step aside, and died in the way back.
Aside == DupName(<<TaskOf, 2, 1>>, <<TaskOf, 1, 1>>)
LeftAside == [n \in OldNames \cup {Aside} |->
                 [cfg |-> Absent, res |-> "ok", sid |-> IF n = Aside THEN <<TaskOf, 2, 1>> ELSE n]]

Init ==
    /\ kind \in Kinds /\ file = [f \in AllFiles |-> Original]
    /\ \/ dir = LeftAside
       \/ \E S \in SUBSET OldNames :
             dir \in {d \in [S -> UNION {OldRecords(n) : n \in S}] :
                          \A n \in S : d[n] \in OldRecords(n)}
    /\ runCfg \in IF DOMAIN dir = {} THEN {Absent} ELSE {Absent, Normal(Original)}
    /\ scores = [written |-> FALSE, ids |-> {}] /\ dataset = {"other"}
    /\ cmd = "none" /\ pc = "idle" /\ todo = <<>> /\ left = {} /\ arg = NoArg
    /\ queue = <<>> /\ stage = [i \in Items |-> "out"] /\ seen = [i \in Items |-> ""]
    /\ holders = {} /\ interrupted = FALSE
    /\ scored = [f \in AllFiles |-> {}] /\ failed = {}
    /\ commands = 0 /\ faults = 0

-----------------------------------------------------------------------------
(* The status of a session. *)

Locked(n) == \E i \in holders : Name(i) = n

\* Once its directory exists a session is never missing.
StatusOnDisk(n) == IF dir[n].res = "ok" THEN "completed" ELSE "incomplete"
Status(n) == IF n \notin DOMAIN dir THEN "missing"
             ELSE IF Locked(n) THEN "running" ELSE StatusOnDisk(n)

ToRun(f) == {t \in TasksOf(f) :
                LET s == Status(SessionId(t, file[f])) IN
                s # "running" /\ (s = "completed" => "overwrite" \in kind[f])}

-----------------------------------------------------------------------------
(* Issuing a command; a command that is over. *)

Goto(label) == pc' = label
Abort == Goto("raised") /\ todo' = <<>> /\ left' = {}

\* The history is of the evaluate under way.
Fresh(c) ==
    /\ cmd' = c
    /\ scored' = [f \in AllFiles |-> {}] /\ failed' = {}
    /\ UNCHANGED pool

Issue ==
    pc \in {"idle", "returned", "raised"} /\ commands < MaxCommands /\ commands' = commands + 1

\* All the files are loaded first: one that is not valid ends the command.
StartEvaluate ==
    /\ Issue /\ Fresh("evaluate") /\ arg' = NoArg
    /\ IF \A f \in AllFiles : Loads(file[f])
         THEN Goto("plan") /\ todo' = Files /\ left' = {}
         ELSE Abort
    /\ UNCHANGED <<disk, faults>>

\* The others load each file in its turn and collect what goes wrong.
StartExecute ==
    /\ Issue /\ Fresh("execute") /\ arg' = NoArg
    /\ Goto("plan") /\ todo' = Files /\ left' = {}
    /\ UNCHANGED <<disk, faults>>

StartAggregate ==
    /\ Issue /\ Fresh("aggregate") /\ arg' = NoArg
    /\ Goto("score") /\ todo' = Files /\ left' = {}
    /\ UNCHANGED <<disk, faults>>

StartPrepare ==
    /\ Issue /\ Fresh("prepare")
    /\ \E overwrite \in BOOLEAN : arg' = [overwrite |-> overwrite]
    /\ Goto("plan") /\ todo' = Files /\ left' = {}
    /\ UNCHANGED <<disk, faults>>

\* History: the results in every directory tell its name.
IdsAgree == \A n \in DOMAIN dir : dir[n].res # "none" => dir[n].sid = n

StartPatch ==
    /\ Issue /\ Fresh("patch")
    /\ \E key \in {"temp", "model"}, v \in Values, apply \in BOOLEAN :
          arg' = [key |-> key, value |-> v, apply |-> apply, agreed |-> IdsAgree]
    /\ Goto("files") /\ todo' = Files /\ left' = {}
    /\ UNCHANGED <<disk, faults>>

-----------------------------------------------------------------------------
(* evaluate and execute: planning. *)

Enqueue(f, ts) ==
    \E s \in Bijection(1..Cardinality(ts), ts) :
        /\ queue' = queue \o [i \in DOMAIN s |-> <<f, s[i]>>]
        /\ stage' = [i \in Items |-> IF i[1] = f /\ i[2] \in ts THEN "queued" ELSE stage[i]]

\* The futures no worker has begun are given up.
Drop(st) ==
    /\ queue' = <<>>
    /\ stage' = [i \in Items |-> IF st[i] = "queued" THEN "out" ELSE st[i]]

\* _plan_config(): a SessionConfig has no max_steps, and that ends the batch.
PlanConfig ==
    /\ cmd = "evaluate" /\ pc = "plan" /\ todo # <<>>
    /\ LET f == Head(todo) IN
          IF "single" \in kind[f] THEN Abort /\ Drop(stage) /\ UNCHANGED runCfg
          ELSE /\ runCfg' = Normal(file[f]) /\ Enqueue(f, ToRun(f))
               /\ todo' = Tail(todo) /\ UNCHANGED <<pc, left>>
    /\ UNCHANGED <<kind, file, dir, scores, dataset, cmd, arg, seen, holders, interrupted, history,
                   commands, faults>>

SubmitAll ==
    /\ cmd = "evaluate" /\ pc = "plan" /\ todo = <<>>
    /\ Goto("pool")
    /\ UNCHANGED <<disk, cmd, todo, left, arg, pool, history, commands, faults>>

\* execute(): one file after the other, with a pool of its own each.
ExecuteConfig ==
    /\ cmd = "execute" /\ pc = "plan" /\ todo # <<>>
    /\ LET f == Head(todo) IN
          IF Loads(file[f])
            THEN /\ runCfg' = Normal(file[f]) /\ Enqueue(f, ToRun(f)) /\ Goto("pool")
                 /\ UNCHANGED failed
            ELSE /\ failed' = failed \cup {f} /\ UNCHANGED <<runCfg, queue, stage, pc>>
    /\ todo' = Tail(todo)
    /\ UNCHANGED <<kind, file, dir, scores, dataset, cmd, left, arg, seen, holders, interrupted,
                   scored, commands, faults>>

ExecuteEnds ==
    /\ cmd = "execute" /\ pc = "plan" /\ todo = <<>>
    /\ Goto(IF failed \cap AllFiles = {} THEN "returned" ELSE "raised")
    /\ UNCHANGED <<disk, cmd, todo, left, arg, pool, history, commands, faults>>

-----------------------------------------------------------------------------
(* The pool. *)

Busy == {i \in Items : stage[i] \in {"sampled", "running"}}

\* A worker takes the next future: it makes the directory and reads the status.
Sample ==
    /\ pc = "pool" /\ queue # <<>> /\ Cardinality(Busy) < NumWorkers
    /\ LET i == Head(queue)
           n == Name(i) IN
          /\ queue' = Tail(queue) /\ stage' = [stage EXCEPT ![i] = "sampled"]
          /\ dir' = IF n \in DOMAIN dir THEN dir ELSE Put(n, Empty)
          /\ seen' = [seen EXCEPT ![i] = IF Status(n) = "missing" THEN "incomplete" ELSE Status(n)]
    /\ UNCHANGED <<kind, file, runCfg, scores, dataset, cmd, pc, todo, left, arg, holders,
                   interrupted, history, commands, faults>>

Overwrites(i) == "overwrite" \in kind[i[1]]
KnownStatus(i) == IF seen[i] = "running" THEN StatusOnDisk(Name(i)) ELSE seen[i]
Reusable(i) == /\ KnownStatus(i) = "completed" /\ ~Overwrites(i)
               /\ dir[Name(i)].res # "none"

\* The session is locked by another, or finished and not to be done again.
Skip(i) ==
    /\ pc = "pool" /\ stage[i] = "sampled"
    /\ Locked(Name(i)) \/ Reusable(i)
    /\ stage' = [stage EXCEPT ![i] = "out"] /\ seen' = [seen EXCEPT ![i] = ""]
    /\ failed' = IF Locked(Name(i)) THEN failed \cup {Name(i)} ELSE failed
    /\ UNCHANGED <<disk, cmd, pc, todo, left, arg, queue, holders, interrupted, scored,
                   commands, faults>>

\* Removing the directory unlinks the lock file that has just been taken; it
\* may not be possible.
Claim(i) ==
    /\ pc = "pool" /\ stage[i] = "sampled" /\ ~Locked(Name(i)) /\ ~Reusable(i)
    /\ stage' = [stage EXCEPT ![i] = "running"] /\ seen' = [seen EXCEPT ![i] = ""]
    /\ LET n == Name(i)
           cleanup == Overwrites(i) \/ KnownStatus(i) = "incomplete" IN
          \E removed \in (IF cleanup THEN BOOLEAN ELSE {FALSE}) :
              /\ dir' = [dir EXCEPT ![n] = [(IF removed THEN Empty ELSE @)
                                                EXCEPT !.cfg = Normal(file[i[1]])]]
              /\ holders' = IF removed THEN holders ELSE holders \cup {i}
              /\ failed' = IF dir[n].res = "ok" THEN failed \cup {n} ELSE failed
              /\ IF cleanup /\ ~removed THEN faults < MaxFaults /\ faults' = faults + 1
                                        ELSE UNCHANGED faults
    /\ UNCHANGED <<kind, file, runCfg, scores, dataset, cmd, pc, todo, left, arg, queue,
                   interrupted, scored, commands>>

\* The session records its results, or raises before it has any: evaluate logs
\* the exception, execute gives up this file.
Finish(i) ==
    /\ pc = "pool" /\ stage[i] = "running" /\ holders' = holders \ {i}
    /\ \E o \in {"ok", "error", "none"} :
          /\ IF o = "ok" THEN UNCHANGED faults ELSE faults < MaxFaults /\ faults' = faults + 1
          /\ dir' = IF o = "none" THEN dir
                    ELSE [dir EXCEPT ![Name(i)].res = o, ![Name(i)].sid = Name(i)]
          /\ IF o = "none" /\ cmd = "execute"
               THEN Drop([stage EXCEPT ![i] = "out"])
               ELSE stage' = [stage EXCEPT ![i] = "out"] /\ UNCHANGED queue
          /\ failed' = failed \cup (IF o = "ok" THEN {} ELSE {Name(i)})
                              \cup (IF o = "none" /\ cmd = "execute" THEN {i[1]} ELSE {})
    /\ UNCHANGED <<kind, file, runCfg, scores, dataset, cmd, pc, todo, left, arg, seen,
                   interrupted, scored, commands>>

\* Ctrl-C reaches the main thread.  evaluate has handed all its futures to the
\* pool and waits for them; execute has kept what was not submitted.
Interrupt ==
    /\ pc = "pool" /\ faults < MaxFaults /\ faults' = faults + 1
    /\ interrupted' = TRUE
    /\ IF cmd = "execute" THEN Drop(stage) ELSE UNCHANGED <<queue, stage>>
    /\ UNCHANGED <<disk, cmd, pc, todo, left, arg, seen, holders, history, commands>>

\* Leaving the with block of the pool.
Join ==
    /\ pc = "pool" /\ queue = <<>> /\ Busy = {}
    /\ IF cmd = "execute" THEN Goto("plan") /\ UNCHANGED <<todo, left>>
       ELSE IF interrupted THEN Abort
       ELSE Goto("score") /\ todo' = Files /\ UNCHANGED left
    /\ interrupted' = FALSE
    /\ UNCHANGED <<disk, cmd, arg, queue, stage, seen, holders, history, commands, faults>>

-----------------------------------------------------------------------------
(* Aggregating, preparing, publishing. *)

Completed(f) == {n \in IdsOf(f) : Status(n) = "completed"}

\* core_aggregate() for the next file.
Score ==
    /\ pc = "score" /\ todo # <<>> /\ Loads(file[Head(todo)])
    /\ LET f == Head(todo) IN
          /\ runCfg' = Normal(file[f])
          /\ scores' = [written |-> TRUE, ids |-> Completed(f)]
          /\ scored' = [scored EXCEPT ![f] = Completed(f)]
    /\ todo' = Tail(todo)
    /\ UNCHANGED <<kind, file, dir, dataset, cmd, pc, left, arg, pool, failed, commands, faults>>

\* Variant: the same file is taken again.
ScoreFailsAgain ==
    /\ pc = "score" /\ todo # <<>> /\ failed' = failed \cup {Head(todo)}
    /\ UNCHANGED <<disk, cmd, pc, todo, left, arg, pool, scored, commands, faults>>

\* The file does not load, or the evaluator raises: the next one is taken.
ScoreFails ==
    /\ pc = "score" /\ todo # <<>>
    /\ LET f == Head(todo) IN
          /\ failed' = failed \cup {f}
          /\ IF Loads(file[f]) THEN faults < MaxFaults /\ faults' = faults + 1
                               ELSE UNCHANGED faults
    /\ todo' = Tail(todo)
    /\ UNCHANGED <<disk, cmd, pc, left, arg, pool, scored, commands>>

\* evaluate has logged its failures, aggregate reports them.
ScoreEnds ==
    /\ pc = "score" /\ todo = <<>>
    /\ Goto(IF cmd = "aggregate" /\ failed # {} THEN "raised" ELSE "returned")
    /\ UNCHANGED <<disk, cmd, todo, left, arg, pool, history, commands, faults>>

\* The session configs of one file are written where there is none.
Prepare ==
    /\ cmd = "prepare" /\ pc = "plan" /\ todo # <<>>
    /\ LET f == Head(todo) IN
          IF Loads(file[f])
            THEN /\ dir' = [n \in DOMAIN dir \cup IdsOf(f) |->
                               LET d == IF n \in DOMAIN dir THEN dir[n] ELSE Empty IN
                               IF n \in IdsOf(f) /\ (arg.overwrite \/ d.cfg = Absent)
                                 THEN [d EXCEPT !.cfg = Normal(file[f])] ELSE d]
                 /\ UNCHANGED failed
            ELSE failed' = failed \cup {f} /\ UNCHANGED dir
    /\ todo' = Tail(todo)
    /\ UNCHANGED <<kind, file, runCfg, scores, dataset, cmd, pc, left, arg, pool, scored, commands,
                   faults>>

PrepareEnds ==
    /\ cmd = "prepare" /\ pc = "plan" /\ todo = <<>>
    /\ Goto(IF failed = {} THEN "returned" ELSE "raised")
    /\ UNCHANGED <<disk, cmd, todo, left, arg, pool, history, commands, faults>>

\* The columns the rows are compared by are not among those of RunResults
\* (which has benchmark_name, agent_name, model_name): the key of every row is
\* (None, None, None).
DedupKey(row) == <<"None", "None", "None">>

\* publish --append.  Results are looked up with the raw run_id of a file.
Publish ==
    /\ Issue /\ Fresh("none") /\ arg' = NoArg /\ Goto("idle") /\ todo' = <<>> /\ left' = {}
    /\ scores.written /\ \E f \in AllFiles : file[f] # Torn
    /\ dataset' = {r \in dataset : DedupKey(r) # DedupKey("mine")} \cup {"mine"}
    /\ UNCHANGED <<kind, file, runCfg, dir, scores, faults>>

-----------------------------------------------------------------------------
(* patch. *)

Apply == arg.apply
Patched(c) == ApplyPatch(c, arg)

\* Every config file is loaded, patched and written before anything else.
PatchFile ==
    /\ pc = "files" /\ todo # <<>>
    /\ LET f == Head(todo) IN
          IF ~Loads(file[f]) THEN Abort /\ UNCHANGED file
          ELSE /\ file' = IF Apply THEN [file EXCEPT ![f] = Patched(@)] ELSE file
               /\ todo' = Tail(todo) /\ UNCHANGED <<pc, left>>
    /\ UNCHANGED <<kind, runCfg, dir, scores, dataset, cmd, arg, pool, history, commands, faults>>

PatchFilesEnd ==
    /\ pc = "files" /\ todo = <<>> /\ Goto("run")
    /\ UNCHANGED <<disk, cmd, todo, left, arg, pool, history, commands, faults>>

\* The names to visit are listed before the first of them is.
Configured   == {n \in DOMAIN dir : dir[n].cfg # Absent}
Unconfigured == {n \in DOMAIN dir : dir[n].cfg = Absent}

\* run/config.json is written before it is validated.
PatchRunConfig ==
    /\ pc = "run"
    /\ runCfg' = IF Apply /\ runCfg \in Content THEN Patched(runCfg) ELSE runCfg
    /\ IF DOMAIN dir = {} \/ (runCfg # Absent /\ ~(runCfg \in Content /\ Loads(Patched(runCfg))))
         THEN Abort
         ELSE Goto("configs") /\ left' = Configured /\ UNCHANGED todo
    /\ UNCHANGED <<kind, file, dir, scores, dataset, cmd, arg, pool, history, commands, faults>>

\* One config.json; the session id is computed before it is written.
PatchSession ==
    /\ pc = "configs"
    /\ \E n \in left :
          LET c == dir[n].cfg IN
          IF c = Torn \/ ~Loads(Patched(c)) THEN Abort /\ UNCHANGED dir
          ELSE /\ dir' = IF Apply THEN [dir EXCEPT ![n].cfg = Patched(c)] ELSE dir
               /\ left' = left \ {n} /\ UNCHANGED <<pc, todo>>
    /\ UNCHANGED <<kind, file, runCfg, scores, dataset, cmd, arg, pool, history, commands, faults>>

PatchSessionsEnd ==
    /\ pc = "configs" /\ left = {}
    /\ Goto("legacy") /\ left' = IF runCfg = Absent THEN {} ELSE Unconfigured
    /\ UNCHANGED <<disk, cmd, todo, arg, pool, history, commands, faults>>

\* The run config as patched, also when it is only a dry run.
RunConfigNow == IF Apply THEN runCfg ELSE Patched(runCfg)

\* Variant: what is at the new name is replaced.
RenameLegacyOver ==
    /\ pc = "legacy"
    /\ \E n \in left :
          LET id == SessionId(n[1], RunConfigNow) IN
          /\ dir' = IF Apply /\ dir[n].res # "none" /\ id # n THEN Rename(n, id, id) ELSE dir
          /\ left' = (left \ {n}) \cap DOMAIN dir'
    /\ UNCHANGED <<kind, file, runCfg, scores, dataset, cmd, pc, todo, arg, pool, history, commands,
                   faults>>

\* A session without config.json is named after its task and the run config;
\* it steps aside when the name is taken, and when that one is taken as well,
\* by results an earlier patch has left there, the rename raises.
RenameLegacy ==
    /\ pc = "legacy"
    /\ \E n \in left :
          LET id == SessionId(n[1], RunConfigNow)
              to == IF id \in DOMAIN dir THEN DupName(id, n) ELSE id
              renames == Apply /\ dir[n].res # "none" /\ id # n IN
          IF renames /\ to \in DOMAIN dir
            THEN Abort /\ dir' = [dir EXCEPT ![n] = Retold(@, id)]
            ELSE /\ dir' = IF renames THEN Rename(n, to, id) ELSE dir
                 /\ left' = left \ {n} /\ UNCHANGED <<pc, todo>>
    /\ UNCHANGED <<kind, file, runCfg, scores, dataset, cmd, arg, pool, history, commands, faults>>

RenameLegacyEnd ==
    /\ pc = "legacy" /\ left = {}
    /\ IF Apply THEN Goto("recover") /\ left' = Configured
                ELSE Goto("returned") /\ UNCHANGED left
    /\ UNCHANGED <<disk, cmd, todo, arg, pool, history, commands, faults>>

\* Variant: the results keep the id they have.
RecoverNameOnly ==
    /\ pc = "recover"
    /\ \E n \in left :
          LET id == SessionId(n[1], dir[n].cfg) IN
          IF id # n /\ id \in DOMAIN dir
            THEN Abort /\ UNCHANGED dir
            ELSE /\ dir' = IF id = n THEN dir ELSE Rename(n, id, dir[n].sid)
                 /\ left' = left \ {n} /\ UNCHANGED <<pc, todo>>
    /\ UNCHANGED <<kind, file, runCfg, scores, dataset, cmd, arg, pool, history, commands, faults>>

\* _recover_session_hashes(): the id in the results, then the directory, which
\* cannot take the name of another, unless that one has just been made and not
\* even a lock file is in it.
Recover ==
    /\ pc = "recover"
    /\ \E n \in left :
          LET id == SessionId(n[1], dir[n].cfg)
              taken == id # n /\ id \in DOMAIN dir IN
          \/ taken /\ Abort /\ dir' = [dir EXCEPT ![n] = Retold(@, id)]
          \/ /\ taken => dir[id] = Empty
             /\ dir' = IF id = n THEN dir ELSE Rename(n, id, id)
             /\ left' = left \ {n} /\ UNCHANGED <<pc, todo>>
    /\ UNCHANGED <<kind, file, runCfg, scores, dataset, cmd, arg, pool, history, commands, faults>>

RecoverEnds ==
    /\ pc = "recover" /\ left = {} /\ Goto("returned")
    /\ UNCHANGED <<disk, cmd, todo, left, arg, pool, history, commands, faults>>

-----------------------------------------------------------------------------
(* Death. *)

\* A file that patch is writing has been truncated.
TornFiles == IF pc = "files" /\ todo # <<>> /\ Apply /\ Loads(file[Head(todo)])
             THEN {[file EXCEPT ![Head(todo)] = Torn]} ELSE {}
TornRun == IF pc = "run" /\ Apply /\ runCfg \in Content THEN {Torn} ELSE {}
TornSessions == IF pc = "configs" /\ Apply
                THEN {[dir EXCEPT ![n].cfg = Torn] : n \in left} ELSE {}

\* The id in the results is changed before the directory is renamed; results
\* that were being written are as good as none.
DeathAt(n) ==
    LET id == SessionId(n[1], IF pc = "recover" THEN dir[n].cfg ELSE RunConfigNow)
    IN IF id = n THEN {dir}
       ELSE {[dir EXCEPT ![n] = Retold(@, id)],
             [dir EXCEPT ![n] = [@ EXCEPT !.res = "none", !.sid = <<>>]]}
HalfRenamed == IF pc \in {"legacy", "recover"} /\ Apply
               THEN UNION {DeathAt(n) : n \in {m \in left : dir[m].res # "none"}} ELSE {}

\* A process that dies takes its locks along.
Crash ==
    /\ pc \notin {"idle", "returned", "raised"} /\ Abort
    /\ faults < MaxFaults /\ faults' = faults + 1
    /\ file' \in {file} \cup TornFiles /\ runCfg' \in {runCfg} \cup TornRun
    /\ dir' \in {dir} \cup TornSessions \cup HalfRenamed
    /\ queue' = <<>> /\ stage' = [i \in Items |-> "out"] /\ seen' = [i \in Items |-> ""]
    /\ holders' = {} /\ interrupted' = FALSE
    /\ UNCHANGED <<kind, scores, dataset, cmd, arg, history, commands>>

-----------------------------------------------------------------------------
Command == \/ StartEvaluate \/ StartExecute \/ StartAggregate \/ StartPrepare
           \/ StartPatch \/ Publish

Work(i) == Skip(i) \/ Claim(i) \/ Finish(i)

Proceed ==
    \/ PlanConfig \/ SubmitAll \/ ExecuteConfig \/ ExecuteEnds \/ Sample \/ Join
    \/ Score \/ ScoreFails \/ ScoreEnds \/ Prepare \/ PrepareEnds
    \/ PatchFile \/ PatchFilesEnd \/ PatchRunConfig \/ PatchSession \/ PatchSessionsEnd
    \/ RenameLegacy \/ RenameLegacyEnd \/ Recover \/ RecoverEnds

Next == Command \/ Proceed \/ (\E i \in Items : Work(i)) \/ Interrupt \/ Crash

\* Every session of the pool ends, and the command's own code goes on.
Fairness == WF_vars(Proceed) /\ \A i \in Items : WF_vars(Work(i))

Spec == Init /\ [][Next]_vars /\ Fairness

-----------------------------------------------------------------------------
(* Properties. *)

Over == pc \in {"idle", "returned", "raised"}

\* A batch evaluation that returns has forgotten nobody: each session of each
\* file is among the scores of that file, unless the session failed, was locked
\* or was run again in this batch, or the aggregation of the file failed.
NobodyForgotten ==
    cmd = "evaluate" /\ pc = "returned" =>
        \A f \in AllFiles \ failed : IdsOf(f) \subseteq scored[f] \cup failed

\* A patch never loses a finished session, whatever the names collide with;
\* one that dies loses at most the one whose results.json it is writing.
Results == {n \in DOMAIN dir : dir[n].res = "ok"}
PatchLosesNothing ==
    [][cmd = "patch" /\ cmd' = "patch" =>
           Cardinality(Results') + (faults' - faults) >= Cardinality(Results)]_vars

\* After a patch that was applied without an error every session directory has
\* the name that its config has, so that the next evaluation finds it; its
\* results tell the same name if those of all directories did before.
PatchedFound ==
    cmd = "patch" /\ pc = "returned" /\ arg.apply =>
        \A n \in Configured :
            /\ n = SessionId(n[1], dir[n].cfg)
            /\ arg.agreed /\ dir[n].res # "none" => dir[n].sid = n

\* A command ends, also when it is interrupted or sessions raise.
CommandsEnd == ~Over ~> Over

\* What core_batch_evaluate and `batch patch` promise of the sessions: an
\* evaluation that returns has scored or reported each of them, and a patch
\* leaves each under the name by which the next evaluation looks for it.
BatchSafe == TypeOK /\ NobodyForgotten /\ PatchedFound
=============================================================================
