---------------------------- MODULE BatchProofs ----------------------------
(***************************************************************************)
(* Proofs about Batch: an evaluation forgets no session, and a patch loses *)
(* no results and leaves each session where the next evaluation looks.     *)
(***************************************************************************)
EXTENDS Batch, FiniteSetTheorems, SequenceTheorems, TLAPS

\* The session has succeeded, or the history notes that it had trouble.
Done(n) == n \in failed \/ (n \in DOMAIN dir /\ dir[n].res = "ok")

\* A directory record; only results record a session id.
Shaped(d) == /\ d = [cfg |-> d.cfg, res |-> d.res, sid |-> d.sid]
             /\ d.cfg \in Text /\ d.res \in {"none", "ok", "error"}
             /\ d.res = "none" => d.sid = <<>>

\* sessions/ holds finitely many directories.
DirInv == /\ IsFiniteSet(DOMAIN dir)
          /\ dir = [n \in DOMAIN dir |-> dir[n]]
          /\ \A n \in DOMAIN dir : Shaped(dir[n])

\* The command has the file still before it.
Ahead(f) == \E k \in DOMAIN todo : todo[k] = f

\* What patch is called with.
PatchArg == [key : {"temp", "model"}, value : Values, apply : BOOLEAN,
             agreed : BOOLEAN]
Patching == {"files", "run", "configs", "legacy", "recover"}

\* Which commands are where, and what they have to do.
PhaseInv ==
  /\ todo \in Seq(AllFiles)
  /\ \A i, j \in DOMAIN todo : todo[i] = todo[j] => i = j
  /\ pc = "idle" => cmd = "none"
  /\ cmd = "none" => pc = "idle"
  /\ pc = "plan" => cmd \in {"evaluate", "execute", "prepare"}
  /\ pc = "pool" => cmd \in {"evaluate", "execute"}
  /\ pc = "score" => cmd \in {"evaluate", "aggregate"}
  /\ pc \in Patching => cmd = "patch"
  /\ cmd = "patch" => arg \in PatchArg
  /\ pc = "recover" => arg.apply
  /\ pc \notin {"configs", "legacy", "recover"} => left = {}
  /\ cmd = "evaluate" /\ pc \in {"plan", "pool", "score"} =>
       \A f \in AllFiles : Loads(file[f])
  /\ cmd = "patch" => \A f \in AllFiles : scored[f] = {}

\* The queue holds the items that are queued, each once.
QueueInv ==
  /\ queue \in Seq(Items)
  /\ \A j, k \in DOMAIN queue : queue[j] = queue[k] => j = k
  /\ \A k \in DOMAIN queue : stage[queue[k]] = "queued"
  /\ \A i \in Items : stage[i] = "queued" => \E k \in DOMAIN queue : queue[k] = i

\* An item of the pool.
ItemInv(i) ==
  /\ stage[i] = "sampled" <=> seen[i] # ""
  /\ stage[i] \in {"sampled", "running"} =>
       Name(i) \in DOMAIN dir /\ pc = "pool"
  /\ stage[i] # "out" =>
       /\ Loads(file[i[1]])
       /\ \/ pc = "pool"
          \/ pc = "plan" /\ cmd = "evaluate" /\ ~Ahead(i[1])
  /\ seen[i] = "completed" => Done(Name(i))

\* The pool.
PoolInv ==
  /\ QueueInv
  /\ holders \subseteq Items
  /\ \A i \in Items : ItemInv(i)
  /\ interrupted => pc = "pool"

\* An evaluation has each session in the pool, on disk or reported.
CoverInv ==
  cmd = "evaluate" =>
    /\ pc \in {"plan", "pool", "score"} =>
         \A f \in AllFiles : \A t \in TasksOf(f) :
           \/ pc = "plan" /\ Ahead(f)
           \/ stage[<<f, t>>] # "out"
           \/ Done(SessionId(t, file[f]))
    /\ pc = "score" =>
         \A f \in AllFiles \ failed :
           Ahead(f) \/ IdsOf(f) \subseteq scored[f] \cup failed
    /\ pc = "returned" => NobodyForgotten

\* A patch.
PatchInv ==
  cmd = "patch" =>
    /\ pc \in Patching \cup {"returned"} /\ arg.agreed =>
         \A n \in Configured : dir[n].res # "none" => dir[n].sid = n
    /\ pc \in {"configs", "recover"} => left \subseteq Configured
    /\ pc = "legacy" => left \subseteq Unconfigured
    /\ pc = "recover" =>
         \A n \in Configured \ left : n = SessionId(n[1], dir[n].cfg)
    /\ pc = "returned" => PatchedFound

BatchInv == TypeOK /\ DirInv /\ PhaseInv /\ PoolInv /\ CoverInv /\ PatchInv

-----------------------------------------------------------------------------
\* The parts of the type invariant.
TypeDisk == /\ kind \in [AllFiles -> SUBSET Kind] /\ file \in [AllFiles -> Text]
            /\ runCfg \in Text /\ scores.written \in BOOLEAN
            /\ dataset \subseteq {"mine", "other"}
            /\ scored \in [AllFiles -> SUBSET DOMAIN dir]
TypeCmd == /\ cmd \in {"none", "evaluate", "execute", "aggregate", "prepare", "patch"}
           /\ pc \in {"idle", "plan", "pool", "score", "files", "run", "configs", "legacy",
                      "recover", "returned", "raised"}
           /\ Len(todo) <= Len(Files) /\ left \subseteq DOMAIN dir
           /\ commands \in 0..MaxCommands /\ faults \in 0..MaxFaults
TypeItems == /\ stage \in [Items -> {"out", "queued", "sampled", "running"}]
             /\ seen \in [Items -> {"", "running", "completed", "incomplete"}]
             /\ interrupted \in BOOLEAN
TypeHolders == /\ \A i \in holders : stage[i] = "running"
               /\ \A i, j \in holders : Name(i) = Name(j) => i = j

\* They are all of it, together with what a directory holds.
LEMMA TypeParts ==
  /\ TypeOK => TypeDisk /\ TypeCmd /\ TypeItems /\ TypeHolders
  /\ DirInv' /\ TypeDisk' /\ TypeCmd' /\ TypeItems' /\ TypeHolders' => TypeOK'
BY DEF TypeOK, TypeDisk, TypeCmd, TypeItems, TypeHolders, DirInv, Shaped

\* The first of a sequence without repetitions is not among the rest.
LEMMA TailOK ==
  ASSUME NEW S, NEW s \in Seq(S), s # <<>>,
         \A i, j \in DOMAIN s : s[i] = s[j] => i = j
  PROVE  /\ Head(s) \in S /\ Tail(s) \in Seq(S) /\ Len(Tail(s)) <= Len(s)
         /\ \A i, j \in DOMAIN Tail(s) : Tail(s)[i] = Tail(s)[j] => i = j
         /\ \A k \in DOMAIN Tail(s) : Tail(s)[k] # Head(s)
         /\ \A k \in DOMAIN Tail(s) : \E j \in DOMAIN s : s[j] = Tail(s)[k]
         /\ \A k \in DOMAIN s : \/ s[k] = Head(s)
                                \/ \E j \in DOMAIN Tail(s) : Tail(s)[j] = s[k]
         /\ \E k \in DOMAIN s : s[k] = Head(s)
<1>1. /\ Len(s) \in Nat \ {0} /\ DOMAIN s = 1..Len(s) /\ Head(s) = s[1]
      /\ Tail(s) \in Seq(S) /\ Len(Tail(s)) = Len(s) - 1
      /\ DOMAIN Tail(s) = 1..(Len(s) - 1)
      /\ \A k \in 1..(Len(s) - 1) : Tail(s)[k] = s[k + 1]
  OBVIOUS
<1>2. ASSUME NEW k \in DOMAIN s
      PROVE  \/ s[k] = Head(s)
             \/ \E j \in DOMAIN Tail(s) : Tail(s)[j] = s[k]
  <2>1. CASE k = 1
    BY <1>1, <2>1
  <2>2. CASE k # 1
    <3>1. k - 1 \in DOMAIN Tail(s) /\ Tail(s)[k - 1] = s[k]
      BY <1>1, <2>2
    <3> QED BY <3>1
  <2> QED BY <2>1, <2>2
<1>3. \A k \in DOMAIN Tail(s) : k + 1 \in DOMAIN s /\ Tail(s)[k] = s[k + 1]
                                /\ k + 1 # 1
  BY <1>1
<1>4. s[1] \in S /\ 1 \in DOMAIN s
  BY <1>1
<1>5. \A i, j \in DOMAIN Tail(s) : Tail(s)[i] = Tail(s)[j] => i = j
  BY <1>1, <1>3
<1> QED BY <1>1, <1>2, <1>3, <1>4, <1>5

\* The files that are left once the first is dealt with.
LEMMA FilesLeft ==
  ASSUME BatchAssumption, PhaseInv, Len(todo) <= Len(Files), todo # <<>>
  PROVE  /\ Head(todo) \in AllFiles /\ Ahead(Head(todo))
         /\ Tail(todo) \in Seq(AllFiles) /\ Len(Tail(todo)) <= Len(Files)
         /\ \A i, j \in DOMAIN Tail(todo) : Tail(todo)[i] = Tail(todo)[j] => i = j
         /\ todo' = Tail(todo) => \A g : Ahead(g)' <=> Ahead(g) /\ g # Head(todo)
<1>1. /\ todo \in Seq(AllFiles) /\ Files \in Seq(AllFiles)
      /\ \A i, j \in DOMAIN todo : todo[i] = todo[j] => i = j
  BY DEF PhaseInv, BatchAssumption
<1>2. /\ Head(todo) \in AllFiles /\ Tail(todo) \in Seq(AllFiles)
      /\ Len(Tail(todo)) <= Len(todo)
      /\ \A i, j \in DOMAIN Tail(todo) : Tail(todo)[i] = Tail(todo)[j] => i = j
      /\ \A k \in DOMAIN Tail(todo) : Tail(todo)[k] # Head(todo)
      /\ \A k \in DOMAIN Tail(todo) : \E j \in DOMAIN todo : todo[j] = Tail(todo)[k]
      /\ \A k \in DOMAIN todo : \/ todo[k] = Head(todo)
                                \/ \E j \in DOMAIN Tail(todo) : Tail(todo)[j] = todo[k]
      /\ \E k \in DOMAIN todo : todo[k] = Head(todo)
  <2> HIDE DEF AllFiles
  <2> QED BY ONLY <1>1, todo # <<>>, TailOK
<1>3. Len(Tail(todo)) <= Len(Files)
  <2>1. Len(todo) \in Nat /\ Len(Files) \in Nat /\ Len(Tail(todo)) \in Nat
    BY ONLY <1>1, <1>2, LenProperties
  <2> QED BY <1>2, <2>1
<1>4. ASSUME todo' = Tail(todo), NEW g
      PROVE  Ahead(g)' <=> Ahead(g) /\ g # Head(todo)
  <2>1. Ahead(g)' <=> \E k \in DOMAIN Tail(todo) : Tail(todo)[k] = g
    BY <1>4 DEF Ahead
  <2>2. Ahead(g) <=> \E k \in DOMAIN todo : todo[k] = g
    BY DEF Ahead
  <2> QED BY ONLY <1>2, <2>1, <2>2
<1>5. Ahead(Head(todo))
  BY <1>2 DEF Ahead
<1> QED BY <1>2, <1>3, <1>4, <1>5

\* The items of a file are put at the end of the queue, each once.
LEMMA EnqueueOK ==
  ASSUME BatchAssumption, QueueInv,
         stage \in [Items -> {"out", "queued", "sampled", "running"}],
         NEW f \in AllFiles, NEW ts \in SUBSET Tasks, Enqueue(f, ts),
         \A t \in ts : stage[<<f, t>>] = "out"
  PROVE  /\ QueueInv'
         /\ stage' = [i \in Items |-> IF i[1] = f /\ i[2] \in ts
                                      THEN "queued" ELSE stage[i]]
<1> DEFINE n == Cardinality(ts)
           m == Len(queue)
<1>1. n \in Nat
  BY FS_Subset, FS_CardinalityType DEF BatchAssumption
<1>2. PICK s \in Bijection(1..n, ts) : queue' = queue \o [i \in DOMAIN s |-> <<f, s[i]>>]
  BY DEF Enqueue
<1> HIDE DEF n
<1>3. /\ s \in [1..n -> ts]
      /\ \A i, j \in 1..n : s[i] = s[j] => i = j
      /\ \A t \in ts : \E i \in 1..n : s[i] = t
  BY <1>2 DEF Bijection, Injection, Surjection, IsInjective
<1> DEFINE more == [i \in 1..n |-> <<f, s[i]>>]
<1>4. /\ more \in Seq(Items) /\ Len(more) = n
      /\ \A i \in 1..n : more[i] = <<f, s[i]>>
  <2>1. more \in [1..n -> Items]
    BY <1>3 DEF Items
  <2>2. \A i \in 1..n : more[i] = <<f, s[i]>>
    OBVIOUS
  <2> HIDE DEF more
  <2> QED BY <1>1, <2>1, <2>2
<1>5. queue' = queue \o more
  BY <1>2, <1>3
<1> HIDE DEF more
<1>6. /\ queue' \in Seq(Items) /\ m \in Nat
      /\ DOMAIN queue' = 1..(m + n) /\ DOMAIN queue = 1..m
      /\ \A k \in 1..m : queue'[k] = queue[k]
      /\ \A k \in 1..n : queue'[m + k] = <<f, s[k]>>
  BY <1>1, <1>4, <1>5 DEF QueueInv
<1> HIDE DEF m
<1>7. stage' = [i \in Items |-> IF i[1] = f /\ i[2] \in ts
                                THEN "queued" ELSE stage[i]]
  BY DEF Enqueue
<1>8. ASSUME NEW k \in DOMAIN queue'
      PROVE  \/ k \in 1..m /\ queue'[k] = queue[k] /\ stage[queue'[k]] = "queued"
             \/ /\ k - m \in 1..n /\ queue'[k] = <<f, s[k - m]>>
                /\ stage[queue'[k]] = "out"
  <2>1. CASE k \in 1..m
    BY <1>6, <2>1 DEF QueueInv
  <2>2. CASE k \notin 1..m
    <3>1. k - m \in 1..n /\ k = m + (k - m)
      BY <1>1, <1>6, <2>2
    <3>2. queue'[k] = <<f, s[k - m]>> /\ s[k - m] \in ts
      BY <1>3, <1>6, <3>1
    <3> QED BY <3>1, <3>2
  <2> QED BY <2>1, <2>2
<1>9. ASSUME NEW j \in DOMAIN queue', NEW k \in DOMAIN queue', queue'[j] = queue'[k]
      PROVE  j = k
  <2>1. CASE j \in 1..m /\ k \in 1..m
    BY <1>6, <1>9, <2>1 DEF QueueInv
  <2>2. CASE /\ j - m \in 1..n /\ queue'[j] = <<f, s[j - m]>>
             /\ k - m \in 1..n /\ queue'[k] = <<f, s[k - m]>>
    <3>1. s[j - m] = s[k - m]
      <4>1. <<f, s[j - m]>> = <<f, s[k - m]>>
        BY <1>9, <2>2
      <4> QED BY ONLY <4>1
    <3>2. j - m = k - m
      BY <1>3, <2>2, <3>1
    <3> QED BY <1>1, <1>6, <3>2
  <2> QED BY <1>8, <1>9, <2>1, <2>2
<1>10. ASSUME NEW k \in DOMAIN queue' PROVE stage'[queue'[k]] = "queued"
  <2>a. \A i \in 1..n : s[i] \in ts
    BY <1>3
  <2>1. queue'[k] \in Items
    <3>1. ASSUME NEW q \in Seq(Items), NEW j \in 1..Len(q)
          PROVE  q[j] \in Items
      BY ONLY ElementOfSeq, q \in Seq(Items), j \in 1..Len(q)
    <3>2. \A j \in 1..m : queue[j] \in Items
      BY <3>1 DEF m, QueueInv
    <3>3. \A j \in 1..n : <<f, s[j]>> \in Items
      BY <2>a DEF Items
    <3> QED BY <1>8, <3>2, <3>3
  <2> QED BY <1>7, <1>8, <2>1, <2>a
<1>11. ASSUME NEW i \in Items, stage'[i] = "queued"
       PROVE  \E k \in DOMAIN queue' : queue'[k] = i
  <2>1. CASE i[1] = f /\ i[2] \in ts
    <3>1. PICK k \in 1..n : s[k] = i[2]
      BY <1>3, <2>1
    <3>2. i = <<f, s[k]>>
      BY <2>1, <3>1 DEF Items
    <3>3. m + k \in DOMAIN queue' /\ queue'[m + k] = i
      BY <1>1, <1>6, <3>2
    <3> QED BY <3>3
  <2>2. CASE ~(i[1] = f /\ i[2] \in ts)
    <3>1. stage[i] = "queued"
      BY <1>7, <1>11, <2>2
    <3>2. PICK k \in DOMAIN queue : queue[k] = i
      BY <3>1 DEF QueueInv
    <3>3. k \in DOMAIN queue' /\ queue'[k] = i
      BY <1>1, <1>6, <3>2
    <3> QED BY <3>3
  <2> QED BY <2>1, <2>2
<1> QED BY <1>6, <1>7, <1>9, <1>10, <1>11 DEF QueueInv

-----------------------------------------------------------------------------
\* What is in the queue.
LEMMA QueueItems ==
  QueueInv => \A k \in DOMAIN queue : queue[k] \in Items /\ stage[queue[k]] = "queued"
<1> SUFFICES ASSUME QueueInv, NEW k \in DOMAIN queue PROVE queue[k] \in Items
  BY DEF QueueInv
<1>1. queue \in Seq(Items) /\ k \in 1..Len(queue)
  BY DEF QueueInv
<1> QED BY <1>1, ElementOfSeq

\* Nothing is in the pool.
Quiet == /\ queue = <<>> /\ holders = {} /\ ~interrupted
         /\ \A i \in Items : stage[i] = "out" /\ seen[i] = ""

\* So it is between the commands, and in those that have no pool.
LEMMA QuietOutside ==
  ASSUME TypeOK, PoolInv, pc # "pool", ~(pc = "plan" /\ cmd = "evaluate")
  PROVE  Quiet
<1>1. \A i \in Items : stage[i] = "out" /\ seen[i] = ""
  BY DEF PoolInv, ItemInv, TypeOK
<1>2. holders = {}
  BY <1>1 DEF PoolInv, ItemInv, TypeOK
<1>3. queue = <<>>
  <2> SUFFICES ASSUME queue # <<>> PROVE FALSE
    OBVIOUS
  <2>1. 1 \in DOMAIN queue /\ queue[1] \in Items
    <3>1. queue \in Seq(Items)
      BY DEF PoolInv, ItemInv, QueueInv
    <3> QED BY ONLY <3>1, queue # <<>>
  <2> QED BY <1>1, <2>1 DEF PoolInv, ItemInv, QueueInv
<1> QED BY <1>1, <1>2, <1>3 DEF Quiet, PoolInv, ItemInv

\* And a pool that is quiet is as it should be.
LEMMA QuietKept == Quiet' => PoolInv'
<1> SUFFICES ASSUME Quiet' PROVE PoolInv'
  OBVIOUS
<1>1. queue' \in Seq(Items) /\ DOMAIN queue' = {}
  <2>1. <<>> \in Seq(Items) /\ DOMAIN <<>> = {}
    OBVIOUS
  <2> QED BY <2>1 DEF Quiet
<1> QED BY <1>1 DEF Quiet, PoolInv, ItemInv, QueueInv

\* Where all is on disk still.
LEMMA DirKept == DirInv /\ UNCHANGED dir => DirInv'
BY DEF DirInv, Shaped

\* The bound on faults.
LEMMA FaultsKept ==
  ASSUME BatchAssumption, faults \in 0..MaxFaults,
         faults' = faults \/ (faults < MaxFaults /\ faults' = faults + 1)
  PROVE  faults' \in 0..MaxFaults
<1>1. MaxFaults \in Nat
  BY DEF BatchAssumption
<1> QED BY <1>1

\* What a command that is issued finds.
LEMMA CommandKept ==
  ASSUME BatchAssumption, BatchInv, Command
  PROVE  BatchInv'
<1> USE DEF BatchInv
<1>1. /\ pc \in {"idle", "returned", "raised"} /\ commands < MaxCommands
      /\ commands' = commands + 1
      /\ scored' = [f \in AllFiles |-> {}] /\ failed' = {} /\ UNCHANGED pool
      /\ UNCHANGED <<kind, file, runCfg, dir, scores, faults>>
      /\ \/ cmd' = "evaluate" /\ pc' = "plan" /\ todo' = Files /\ left' = {}
            /\ \A f \in AllFiles : Loads(file[f])
         \/ cmd' = "evaluate" /\ pc' = "raised" /\ todo' = <<>> /\ left' = {}
         \/ cmd' = "execute" /\ pc' = "plan" /\ todo' = Files /\ left' = {}
         \/ cmd' = "aggregate" /\ pc' = "score" /\ todo' = Files /\ left' = {}
         \/ cmd' = "prepare" /\ pc' = "plan" /\ todo' = Files /\ left' = {}
         \/ /\ cmd' = "patch" /\ pc' = "files" /\ todo' = Files /\ left' = {}
            /\ arg' \in PatchArg /\ arg'.agreed = IdsAgree
         \/ cmd' = "none" /\ pc' = "idle" /\ todo' = <<>> /\ left' = {}
      /\ \/ dataset' = dataset
         \/ dataset' = {r \in dataset : DedupKey(r) # DedupKey("mine")} \cup {"mine"}
  <2>1. CASE StartEvaluate
    BY <2>1 DEF StartEvaluate, Issue, Fresh, Goto, Abort, disk
  <2>2. CASE StartExecute \/ StartAggregate \/ StartPrepare
    BY <2>2 DEF StartExecute, StartAggregate, StartPrepare, Issue, Fresh, Goto, disk
  <2>3. CASE StartPatch
    <3>1. arg' \in PatchArg /\ arg'.agreed = IdsAgree
      BY <2>3 DEF StartPatch, PatchArg, IdsAgree
    <3> QED BY <2>3, <3>1 DEF StartPatch, Issue, Fresh, Goto, disk
  <2>4. CASE Publish
    BY <2>4 DEF Publish, Issue, Fresh, Goto
  <2> QED BY <2>1, <2>2, <2>3, <2>4 DEF Command
<1>2. Quiet'
  <2>1. Quiet
    BY <1>1, QuietOutside
  <2> QED BY <1>1, <2>1 DEF Quiet, pool
<1>3. DirInv'
  BY <1>1, DirKept
<1>4. PoolInv'
  BY <1>2, QuietKept
<1>5. TypeOK'
  <2>1. /\ commands' \in 0..MaxCommands /\ dataset' \subseteq {"mine", "other"}
    <3>1. commands' \in 0..MaxCommands
      <4>1. commands \in 0..MaxCommands /\ MaxCommands \in Nat
        BY DEF TypeOK, BatchAssumption
      <4>2. commands < MaxCommands /\ commands' = commands + 1
        BY <1>1
      <4> QED BY ONLY <4>1, <4>2
    <3>2. dataset' \subseteq {"mine", "other"}
      BY <1>1 DEF TypeOK
    <3> QED BY <3>1, <3>2
  <2>2. /\ stage' \in [Items -> {"out", "queued", "sampled", "running"}]
        /\ seen' \in [Items -> {"", "running", "completed", "incomplete"}]
        /\ interrupted' \in BOOLEAN
    BY <1>1 DEF TypeOK, pool
  <2>3. Len(todo') <= Len(Files) /\ Len(Files) \in Nat /\ Len(<<>>) = 0
    BY <1>1 DEF BatchAssumption
  <2> QED BY <1>1, <1>2, <2>1, <2>2, <2>3 DEF TypeOK, Quiet
<1>6. PhaseInv'
  <2>1. todo' \in Seq(AllFiles) /\ \A i, j \in DOMAIN todo' : todo'[i] = todo'[j] => i = j
    <3>1. todo' = Files \/ todo' = <<>>
      BY <1>1
    <3>2. <<>> \in Seq(AllFiles) /\ DOMAIN <<>> = {}
      OBVIOUS
    <3>3. /\ Files \in Seq(AllFiles)
          /\ \A i, j \in DOMAIN Files : Files[i] = Files[j] => i = j
      BY DEF BatchAssumption
    <3> QED BY <3>1, <3>2, <3>3
  <2> QED BY <1>1, <2>1 DEF PhaseInv, Patching
<1>7. CoverInv'
  <2>1. \A f \in AllFiles : \E k \in DOMAIN Files : Files[k] = f
    BY DEF AllFiles, BatchAssumption
  <2> QED BY <1>1, <2>1 DEF CoverInv, Ahead
<1>8. PatchInv'
  BY <1>1 DEF PatchInv, Patching, IdsAgree, Configured
<1> QED BY <1>3, <1>4, <1>5, <1>6, <1>7, <1>8

-----------------------------------------------------------------------------
\* Configs, and what is made of one.
LEMMA ConfigsOK ==
  /\ Content \subseteq Text /\ Absent \in Text /\ Torn \in Text
  /\ \A c : Loads(c) => Normal(c) \in Content
  /\ \A c \in Content, u \in PatchArg : ApplyPatch(c, u) \in Content
  /\ Absent \notin Content /\ Torn # Absent
<1>1. \A c : Loads(c) => Normal(c) \in Content
  BY DEF Loads, Normal, Content, Values
<1>2. ASSUME NEW c \in Content, NEW u \in PatchArg
      PROVE  ApplyPatch(c, u) \in Content
  <2>1. CASE u.key = "temp"
    BY <2>1 DEF ApplyPatch, PatchArg, Content
  <2>2. CASE u.key = "model"
    BY <2>2 DEF ApplyPatch, PatchArg, Content
  <2> QED BY <2>1, <2>2 DEF PatchArg
<1>3. Absent \notin Content /\ Torn # Absent
  BY DEF Absent, Torn, Content, Values
<1> QED BY <1>1, <1>2, <1>3 DEF Text

\* A directory with another config.
LEMMA ConfigWritten ==
  ASSUME NEW d, Shaped(d), NEW c \in Text
  PROVE  LET e == [d EXCEPT !.cfg = c]
         IN Shaped(e) /\ e.cfg = c /\ e.res = d.res /\ e.sid = d.sid
<1> DEFINE e == [d EXCEPT !.cfg = c]
<1>1. e = [cfg |-> c, res |-> d.res, sid |-> d.sid]
  BY DEF Shaped
<1> HIDE DEF e
<1>2. e.cfg = c /\ e.res = d.res /\ e.sid = d.sid
  BY <1>1
<1>3. Shaped(e)
  BY <1>1, <1>2 DEF Shaped
<1> QED BY <1>2, <1>3 DEF e

\* A directory with other results.
LEMMA ResultWritten ==
  ASSUME NEW d, Shaped(d), NEW o, NEW s
  PROVE  [d EXCEPT !.res = o, !.sid = s] = [cfg |-> d.cfg, res |-> o, sid |-> s]
<1>1. /\ d = [cfg |-> d.cfg, res |-> d.res, sid |-> d.sid]
      /\ DOMAIN d = {"cfg", "res", "sid"}
  BY DEF Shaped
<1> DEFINE e == [d EXCEPT !.res = o]
<1>2. e = [cfg |-> d.cfg, res |-> o, sid |-> d.sid]
  BY <1>1
<1>3. [d EXCEPT !.res = o, !.sid = s] = [e EXCEPT !.sid = s]
  OBVIOUS
<1> HIDE DEF e
<1>4. [e EXCEPT !.sid = s] = [cfg |-> d.cfg, res |-> o, sid |-> s]
  BY <1>2
<1> QED BY <1>3, <1>4

\* A directory whose results tell another id.
LEMMA RetoldOK ==
  ASSUME NEW d, Shaped(d), NEW s
  PROVE  LET e == Retold(d, s)
         IN /\ Shaped(e) /\ e.cfg = d.cfg /\ e.res = d.res
            /\ e.res # "none" => e.sid = s
<1> DEFINE e == Retold(d, s)
           x == IF d.res = "none" THEN <<>> ELSE s
<1>1. e = [cfg |-> d.cfg, res |-> d.res, sid |-> x]
  BY DEF Shaped, Retold
<1> HIDE DEF e
<1>2. e.cfg = d.cfg /\ e.res = d.res /\ e.sid = x
  BY <1>1
<1>3. Shaped(e)
  BY <1>1, <1>2 DEF Shaped
<1> QED BY <1>2, <1>3 DEF e

\* A file asks for finitely many sessions.
LEMMA IdsFinite ==
  ASSUME BatchAssumption, NEW f PROVE IsFiniteSet(IdsOf(f))
<1> DEFINE g == [t \in TasksOf(f) |-> SessionId(t, file[f])]
<1>1. IsFiniteSet(TasksOf(f))
  BY FS_Singleton DEF TasksOf, BatchAssumption
<1>2. g \in Surjection(TasksOf(f), IdsOf(f))
  BY DEF Surjection, IdsOf
<1> QED BY <1>1, <1>2, FS_Surjection

\* A directory that has just been made.
LEMMA EmptyOK == Shaped(Empty) /\ Empty.res = "none" /\ Empty.cfg = Absent
BY ConfigsOK DEF Shaped, Empty

\* A session that is not run has its results.
LEMMA NotRun ==
  ASSUME holders = {}, NEW f, NEW t \in TasksOf(f), t \notin ToRun(f)
  PROVE  Done(SessionId(t, file[f]))
BY DEF ToRun, Status, StatusOnDisk, Locked, Done

\* Planning an evaluation.
LEMMA PlanConfigKept ==
  ASSUME BatchAssumption, BatchInv, PlanConfig
  PROVE  BatchInv'
<1> USE DEF BatchInv
<1> DEFINE f == Head(todo)
<1>1. /\ cmd = "evaluate" /\ pc = "plan" /\ todo # <<>> /\ cmd' = cmd
      /\ UNCHANGED <<kind, file, dir, scores, dataset, arg, seen, holders, interrupted, scored,
                     failed, commands, faults>>
  BY DEF PlanConfig, history
<1>2. /\ f \in AllFiles /\ Ahead(f)
      /\ Tail(todo) \in Seq(AllFiles) /\ Len(Tail(todo)) <= Len(Files)
      /\ \A i, j \in DOMAIN Tail(todo) : Tail(todo)[i] = Tail(todo)[j] => i = j
      /\ todo' = Tail(todo) => \A g : Ahead(g)' <=> Ahead(g) /\ g # f
  BY <1>1, FilesLeft DEF TypeOK
<1>3. /\ holders = {} /\ \A i \in Items : seen[i] = "" /\ stage[i] \in {"out", "queued"}
  BY <1>1 DEF PoolInv, ItemInv, TypeOK
<1>4. DirInv'
  BY <1>1, DirKept
<1>5. PatchInv'
  BY <1>1 DEF PatchInv
<1>6. CASE "single" \in kind[f]
  <2>1. /\ pc' = "raised" /\ todo' = <<>> /\ left' = {} /\ queue' = <<>> /\ runCfg' = runCfg
        /\ stage' = [i \in Items |-> IF stage[i] = "queued" THEN "out" ELSE stage[i]]
    BY <1>6 DEF PlanConfig, Abort, Goto, Drop
  <2>2. Quiet'
    BY <1>1, <1>3, <2>1 DEF Quiet, PoolInv, ItemInv
  <2>3. <<>> \in Seq(AllFiles) /\ DOMAIN <<>> = {} /\ Len(<<>>) = 0 /\ Len(Files) \in Nat
    BY DEF BatchAssumption
  <2>4. TypeOK'
    <3>1. stage' \in [Items -> {"out", "queued", "sampled", "running"}]
      BY <1>3, <2>1
    <3>2. Len(todo') <= Len(Files)
      BY <2>1, <2>3
    <3>3. holders' = {} /\ left' \subseteq DOMAIN dir'
      BY <2>1, <2>2 DEF Quiet
    <3> QED BY <1>1, <2>1, <3>1, <3>2, <3>3 DEF TypeOK
  <2>5. PhaseInv'
    BY <1>1, <2>1, <2>3 DEF PhaseInv, Patching
  <2>6. CoverInv'
    BY <1>1, <2>1 DEF CoverInv
  <2> QED BY <1>4, <1>5, <2>2, <2>4, <2>5, <2>6, QuietKept
<1>7. CASE "single" \notin kind[f]
  <2>1. /\ runCfg' = Normal(file[f]) /\ Enqueue(f, ToRun(f))
        /\ todo' = Tail(todo) /\ UNCHANGED <<pc, left>>
    BY <1>7 DEF PlanConfig
  <2>2. TasksOf(f) = Tasks /\ ToRun(f) \in SUBSET Tasks
    BY <1>7 DEF TasksOf, ToRun
  <2>3. \A t \in Tasks : stage[<<f, t>>] = "out"
    <3> HIDE DEF f
    <3> SUFFICES ASSUME NEW t \in Tasks PROVE stage[<<f, t>>] = "out"
      OBVIOUS
    <3>1. <<f, t>> \in Items /\ <<f, t>>[1] = f
      BY <1>2 DEF Items
    <3> QED BY <1>1, <1>2, <3>1 DEF PoolInv, ItemInv
  <2>4. /\ QueueInv'
        /\ stage' = [i \in Items |-> IF i[1] = f /\ i[2] \in ToRun(f)
                                     THEN "queued" ELSE stage[i]]
    <3> HIDE DEF f
    <3>1. QueueInv /\ stage \in [Items -> {"out", "queued", "sampled", "running"}]
      BY DEF TypeOK, PoolInv, ItemInv
    <3>2. \A t \in ToRun(f) : stage[<<f, t>>] = "out"
      BY <2>2, <2>3
    <3>3. f \in AllFiles /\ Enqueue(f, ToRun(f))
      BY <1>2, <2>1
    <3> QED BY ONLY BatchAssumption, <2>2, <3>1, <3>2, <3>3, EnqueueOK
  <2>5. \A g : Ahead(g)' <=> Ahead(g) /\ g # f
    BY <1>2, <2>1
  <2>6. Loads(file[f]) /\ runCfg' \in Text
    BY <1>1, <1>2, <2>1, ConfigsOK DEF PhaseInv
  <2>7. TypeOK'
    <3>1. Len(todo') <= Len(Files)
      BY <1>2, <2>1
    <3>2. stage' \in [Items -> {"out", "queued", "sampled", "running"}]
      BY <2>4 DEF TypeOK
    <3> QED BY <1>1, <1>3, <2>1, <2>6, <3>1, <3>2 DEF TypeOK
  <2>8. PhaseInv'
    BY <1>1, <1>2, <2>1 DEF PhaseInv, Patching
  <2>9. PoolInv'
    <3>1. ASSUME NEW i \in Items, stage'[i] # "out"
          PROVE  Loads(file[i[1]]) /\ ~Ahead(i[1])'
      BY <1>1, <2>4, <2>5, <2>6, <3>1 DEF PoolInv, ItemInv
    <3>2. \A i \in Items : stage'[i] \in {"out", "queued"} /\ seen'[i] = ""
      BY <1>1, <1>3, <2>4
    <3> QED BY <1>1, <1>3, <2>1, <2>4, <3>1, <3>2 DEF PoolInv, ItemInv
  <2>10. CoverInv'
    <3>1. ASSUME NEW g \in AllFiles, NEW t \in TasksOf(g)
          PROVE  \/ Ahead(g)'
                 \/ stage'[<<g, t>>] # "out"
                 \/ Done(SessionId(t, file[g]))
      <4>1. CASE g = f
        <5>1. CASE t \in ToRun(f)
          BY <1>2, <2>2, <2>4, <4>1, <5>1 DEF Items
        <5>2. CASE t \notin ToRun(f)
          BY <1>3, <4>1, <5>2, NotRun
        <5> QED BY <5>1, <5>2
      <4>2. CASE g # f
        <5>1. Ahead(g) => Ahead(g)'
          BY <2>5, <4>2
        <5>2. <<g, t>> \in Items
          BY DEF Items, TasksOf, BatchAssumption
        <5>3. stage'[<<g, t>>] = stage[<<g, t>>]
          BY <2>4, <4>2, <5>2
        <5> QED BY <1>1, <5>1, <5>3 DEF CoverInv
      <4> QED BY <4>1, <4>2
    <3> QED BY <1>1, <2>1, <3>1 DEF CoverInv, TasksOf, Done
  <2> QED BY <1>4, <1>5, <2>7, <2>8, <2>9, <2>10
<1> QED BY <1>6, <1>7

-----------------------------------------------------------------------------
\* From one part of a command to the next.
Turns == \/ SubmitAll \/ ExecuteEnds \/ ScoreEnds \/ PrepareEnds \/ PatchFilesEnd
         \/ PatchSessionsEnd \/ RenameLegacyEnd \/ RecoverEnds

\* It keeps the invariant.
LEMMA TurnsKept ==
  ASSUME BatchAssumption, BatchInv, Turns
  PROVE  BatchInv'
<1> USE DEF BatchInv
<1>1. /\ UNCHANGED <<kind, file, runCfg, dir, scores, dataset, cmd, todo, arg, queue, stage, seen,
                     holders, interrupted, scored, failed, commands, faults>>
      /\ left' \subseteq DOMAIN dir
      /\ pc' \in {"pool", "returned", "raised", "run", "legacy", "recover"}
  BY DEF Turns, SubmitAll, ExecuteEnds, ScoreEnds, PrepareEnds, PatchFilesEnd, PatchSessionsEnd,
         RenameLegacyEnd, RecoverEnds, Goto, disk, pool, history, TypeOK, Configured, Unconfigured
<1>2. DirInv'
  BY <1>1, DirKept
<1>3. TypeOK'
  BY <1>1 DEF TypeOK, Name
<1>4. PhaseInv'
  <2>1. CASE SubmitAll \/ ExecuteEnds \/ ScoreEnds \/ PrepareEnds
    BY <1>1, <2>1 DEF PhaseInv, SubmitAll, ExecuteEnds, ScoreEnds, PrepareEnds, Goto, Patching
  <2>2. CASE PatchFilesEnd \/ PatchSessionsEnd \/ RenameLegacyEnd \/ RecoverEnds
    BY <1>1, <2>2 DEF PhaseInv, PatchFilesEnd, PatchSessionsEnd, RenameLegacyEnd, RecoverEnds,
                      Goto, Patching, Apply
  <2> QED BY <2>1, <2>2 DEF Turns
<1>5. PoolInv'
  <2>1. CASE SubmitAll
    <3>1. pc' = "pool" /\ pc = "plan"
      BY <2>1 DEF SubmitAll, Goto
    <3>2. QueueInv' /\ \A i \in Items : Name(i)' = Name(i) /\ Done(Name(i))' = Done(Name(i))
      BY <1>1 DEF PoolInv, ItemInv, QueueInv, Name, Done
    <3> QED BY <1>1, <3>1, <3>2 DEF PoolInv, ItemInv
  <2>2. CASE ~SubmitAll
    <3>1. pc # "pool" /\ ~(pc = "plan" /\ cmd = "evaluate")
      BY <2>2 DEF Turns, ExecuteEnds, ScoreEnds, PrepareEnds, PatchFilesEnd, PatchSessionsEnd,
                  RenameLegacyEnd, RecoverEnds
    <3>2. Quiet
      BY <3>1, QuietOutside
    <3> QED BY <1>1, <3>2, QuietKept DEF Quiet
  <2> QED BY <2>1, <2>2
<1>6. CoverInv'
  <2>1. CASE SubmitAll
    <3>1. pc' = "pool" /\ pc = "plan" /\ \A f : ~Ahead(f)
      <4>1. DOMAIN <<>> = {}
        OBVIOUS
      <4> QED BY <2>1, <4>1 DEF SubmitAll, Goto, Ahead
    <3> QED BY <1>1, <3>1 DEF CoverInv, TasksOf, Done
  <2>2. CASE ScoreEnds
    <3>1. pc' \in {"raised", "returned"} /\ pc = "score" /\ \A f : ~Ahead(f)
      <4>1. DOMAIN <<>> = {}
        OBVIOUS
      <4> QED BY <2>2, <4>1 DEF ScoreEnds, Goto, Ahead
    <3> QED BY <1>1, <3>1 DEF CoverInv, NobodyForgotten, IdsOf, TasksOf
  <2>3. CASE ~SubmitAll /\ ~ScoreEnds
    BY <1>1, <2>3 DEF CoverInv, Turns, ExecuteEnds, PrepareEnds, PatchFilesEnd, PatchSessionsEnd,
                      RenameLegacyEnd, RecoverEnds, PhaseInv, Patching
  <2> QED BY <2>1, <2>2, <2>3
<1>7. PatchInv'
  <2>1. CASE SubmitAll \/ ExecuteEnds \/ ScoreEnds \/ PrepareEnds
    BY <1>1, <2>1 DEF PatchInv, SubmitAll, ExecuteEnds, ScoreEnds, PrepareEnds, PhaseInv
  <2>2. CASE PatchFilesEnd
    BY <1>1, <2>2 DEF PatchInv, PatchFilesEnd, Goto, Patching, Configured
  <2>3. CASE PatchSessionsEnd
    BY <1>1, <2>3 DEF PatchInv, PatchSessionsEnd, Goto, Patching, Configured, Unconfigured
  <2>4. CASE RenameLegacyEnd
    BY <1>1, <2>4 DEF PatchInv, RenameLegacyEnd, Goto, Patching, Configured, Unconfigured,
                      PatchedFound, Apply
  <2>5. CASE RecoverEnds
    BY <1>1, <2>5 DEF PatchInv, RecoverEnds, Goto, Patching, Configured, PatchedFound
  <2> QED BY <2>1, <2>2, <2>3, <2>4, <2>5 DEF Turns
<1> QED BY <1>2, <1>3, <1>4, <1>5, <1>6, <1>7

\* execute() takes the next file.
LEMMA ExecuteConfigKept ==
  ASSUME BatchAssumption, BatchInv, ExecuteConfig
  PROVE  BatchInv'
<1> USE DEF BatchInv
<1> DEFINE f == Head(todo)
<1>1. /\ cmd = "execute" /\ pc = "plan" /\ todo # <<>> /\ cmd' = cmd /\ todo' = Tail(todo)
      /\ UNCHANGED <<kind, file, dir, scores, dataset, left, arg, seen, holders, interrupted,
                     scored, commands, faults>>
  BY DEF ExecuteConfig
<1>2. /\ f \in AllFiles /\ todo' \in Seq(AllFiles) /\ Len(todo') <= Len(Files)
      /\ \A i, j \in DOMAIN todo' : todo'[i] = todo'[j] => i = j
  BY <1>1, FilesLeft DEF TypeOK
<1>3. Quiet
  BY <1>1, QuietOutside
<1>4. DirInv' /\ CoverInv' /\ PatchInv'
  BY <1>1, DirKept DEF CoverInv, PatchInv
<1>5. PhaseInv'
  <2>1. pc' \in {"plan", "pool"}
    BY <1>1 DEF ExecuteConfig, Goto
  <2> QED BY <1>1, <1>2, <2>1 DEF PhaseInv, Patching
<1>6. CASE ~Loads(file[f])
  <2>1. UNCHANGED <<runCfg, queue, stage, pc>>
    BY <1>6 DEF ExecuteConfig
  <2>2. TypeOK'
    BY <1>1, <1>2, <2>1 DEF TypeOK, Name
  <2>3. Quiet'
    BY <1>1, <1>3, <2>1 DEF Quiet
  <2> QED BY <1>4, <1>5, <2>2, <2>3, QuietKept
<1>7. CASE Loads(file[f])
  <2>1. runCfg' = Normal(file[f]) /\ Enqueue(f, ToRun(f)) /\ pc' = "pool" /\ failed' = failed
    BY <1>7 DEF ExecuteConfig, Goto
  <2>2. ToRun(f) \in SUBSET Tasks
    BY DEF TasksOf, ToRun, BatchAssumption
  <2>3. runCfg' \in Text
    BY <1>7, <2>1, ConfigsOK
  <2> HIDE DEF f
  <2>4. /\ QueueInv'
        /\ stage' = [i \in Items |-> IF i[1] = f /\ i[2] \in ToRun(f)
                                     THEN "queued" ELSE stage[i]]
    <3>1. QueueInv /\ stage \in [Items -> {"out", "queued", "sampled", "running"}]
      BY DEF TypeOK, PoolInv, ItemInv
    <3>2. \A t \in ToRun(f) : stage[<<f, t>>] = "out"
      BY <1>2, <1>3, <2>2 DEF Quiet, Items
    <3>3. f \in AllFiles /\ Enqueue(f, ToRun(f))
      BY <1>2, <2>1
    <3> QED BY ONLY BatchAssumption, <2>2, <3>1, <3>2, <3>3, EnqueueOK
  <2>5. TypeOK'
    <3>1. stage' \in [Items -> {"out", "queued", "sampled", "running"}]
      BY <2>4 DEF TypeOK
    <3>2. holders' = {}
      BY <1>1, <1>3 DEF Quiet
    <3> QED BY <1>1, <1>2, <2>1, <2>3, <3>1, <3>2 DEF TypeOK
  <2>6. PoolInv'
    <3>1. \A i \in Items : stage'[i] # "out" => Loads(file[i[1]]) /\ stage'[i] = "queued"
      BY <1>3, <1>7, <2>4 DEF Quiet
    <3> QED BY <1>1, <1>3, <2>1, <2>4, <3>1 DEF PoolInv, ItemInv, Quiet
  <2> QED BY <1>4, <1>5, <2>5, <2>6
<1> QED BY <1>6, <1>7

-----------------------------------------------------------------------------
\* Finished sessions stay so, or are reported.
LEMMA DoneGrows ==
  ASSUME failed \subseteq failed',
         \A n \in DOMAIN dir : dir[n].res = "ok" =>
           n \in failed' \/ (n \in DOMAIN dir' /\ dir'[n].res = "ok")
  PROVE  \A n : Done(n) => Done(n)'
BY DEF Done

\* While the pool is at work.
LEMMA PoolCovers ==
  ASSUME BatchAssumption, CoverInv, pc = "pool", pc' = "pool",
         UNCHANGED <<kind, file, cmd>>,
         \A n : Done(n) => Done(n)',
         cmd = "evaluate" => \A i \in Items : stage[i] # "out" =>
           stage'[i] # "out" \/ (\A n : n = Name(i) => Done(n)')
  PROVE  CoverInv'
<1> SUFFICES ASSUME cmd = "evaluate", NEW f \in AllFiles, NEW t \in TasksOf(f),
                    NEW n, n = SessionId(t, file[f])
             PROVE  stage'[<<f, t>>] # "out" \/ Done(n)'
  BY DEF CoverInv, TasksOf
<1>1. <<f, t>> \in Items /\ Name(<<f, t>>) = n
  BY DEF Items, TasksOf, BatchAssumption, Name
<1>2. stage[<<f, t>>] # "out" \/ Done(n)
  BY DEF CoverInv
<1> QED BY <1>1, <1>2

\* What an item is afterwards, while the files stay as they are.
ItemKept(i) ==
  /\ stage'[i] = "sampled" <=> seen'[i] # ""
  /\ stage'[i] \in {"sampled", "running"} => Name(i) \in DOMAIN dir'
  /\ stage'[i] # "out" => Loads(file[i[1]])
  /\ seen'[i] = "completed" => \A n : n = Name(i) => Done(n)'

\* Then the pool is as it should be.
LEMMA PoolKept ==
  ASSUME pc = "pool", UNCHANGED <<file, pc>>, QueueInv', holders' \subseteq Items,
         \A i \in Items : ItemKept(i)
  PROVE  PoolInv'
<1>1. ASSUME NEW i \in Items, NEW n, n = Name(i) PROVE n = Name(i)'
  BY <1>1 DEF Name
<1>2. ASSUME NEW i \in Items PROVE ItemInv(i)'
  BY <1>1, <1>2 DEF ItemInv, ItemKept, Name
<1> QED BY <1>2 DEF PoolInv

\* An item whose place is the same.
LEMMA ItemStays ==
  ASSUME NEW i \in Items, ItemInv(i), stage'[i] = stage[i], seen'[i] = seen[i],
         DOMAIN dir \subseteq DOMAIN dir', \A n : Done(n) => Done(n)'
  PROVE  ItemKept(i)
BY DEF ItemInv, ItemKept

\* A worker takes an item of the queue.
LEMMA SampleKept ==
  ASSUME BatchAssumption, BatchInv, Sample
  PROVE  BatchInv'
<1> USE DEF BatchInv
<1> DEFINE i == Head(queue)
           n == Name(i)
<1>1. /\ pc = "pool" /\ queue # <<>> /\ queue' = Tail(queue)
      /\ stage' = [stage EXCEPT ![i] = "sampled"]
      /\ dir' = IF n \in DOMAIN dir THEN dir ELSE Put(n, Empty)
      /\ seen' = [seen EXCEPT ![i] = IF Status(n) = "missing" THEN "incomplete" ELSE Status(n)]
      /\ UNCHANGED <<kind, file, runCfg, scores, dataset, cmd, pc, todo, left, arg, holders,
                     interrupted, scored, failed, commands, faults>>
  BY DEF Sample, history
<1>2. /\ i \in Items /\ Tail(queue) \in Seq(Items)
      /\ \A j, k \in DOMAIN Tail(queue) : Tail(queue)[j] = Tail(queue)[k] => j = k
      /\ \A k \in DOMAIN Tail(queue) : Tail(queue)[k] # i
      /\ \A k \in DOMAIN Tail(queue) : \E j \in DOMAIN queue : queue[j] = Tail(queue)[k]
      /\ \A k \in DOMAIN queue : \/ queue[k] = i
                                 \/ \E j \in DOMAIN Tail(queue) : Tail(queue)[j] = queue[k]
      /\ \E k \in DOMAIN queue : queue[k] = i
  BY <1>1, TailOK DEF PoolInv, QueueInv
<1>t. /\ stage \in [Items -> {"out", "queued", "sampled", "running"}]
      /\ seen \in [Items -> {"", "running", "completed", "incomplete"}]
  BY DEF TypeOK
<1>q. /\ queue \in Seq(Items)
      /\ \A k \in DOMAIN queue : stage[queue[k]] = "queued"
      /\ \A x \in Items : stage[x] = "queued" => \E k \in DOMAIN queue : queue[k] = x
      /\ \A x \in Items : ItemInv(x)
  BY DEF PoolInv, QueueInv
<1> HIDE DEF i
<1>3. stage[i] = "queued" /\ Loads(file[i[1]])
  <2>1. stage[i] = "queued"
    <3>1. PICK k \in DOMAIN queue : queue[k] = i
      BY ONLY <1>2
    <3> QED BY ONLY <1>q, <3>1
  <2>2. ItemInv(i)
    BY ONLY <1>2, <1>q
  <2> QED BY ONLY <2>1, <2>2 DEF ItemInv
<1>s. /\ stage'[i] = "sampled" /\ \A x \in Items \ {i} : stage'[x] = stage[x]
      /\ \A x \in Items \ {i} : seen'[x] = seen[x]
      /\ seen'[i] = IF Status(n) = "missing" THEN "incomplete" ELSE Status(n)
  BY <1>1, <1>2, <1>t
<1>4. QueueInv'
  <2>a. queue' = Tail(queue)
    BY <1>1
  <2>1. ASSUME NEW k \in DOMAIN queue' PROVE stage'[queue'[k]] = "queued"
    <3>1. PICK j \in DOMAIN queue : queue[j] = queue'[k]
      BY ONLY <1>2, <2>a, k \in DOMAIN queue'
    <3>2. queue'[k] # i
      BY ONLY <1>2, <2>a, k \in DOMAIN queue'
    <3>3. stage[queue'[k]] = "queued" /\ queue'[k] \in Items
      BY ONLY <1>q, <3>1, QueueItems DEF QueueInv
    <3> QED BY <1>s, <3>2, <3>3
  <2>2. ASSUME NEW x \in Items, stage'[x] = "queued"
        PROVE  \E k \in DOMAIN queue' : queue'[k] = x
    <3>1. x # i /\ stage[x] = "queued"
      BY <1>s, <2>2
    <3>2. PICK k \in DOMAIN queue : queue[k] = x
      BY <1>q, <3>1
    <3> QED BY ONLY <1>2, <2>a, <3>1, <3>2
  <2> QED BY <1>2, <2>a, <2>1, <2>2 DEF QueueInv
<1> HIDE DEF n
<1>5. /\ DOMAIN dir' = DOMAIN dir \cup {n} /\ IsFiniteSet(DOMAIN dir')
      /\ dir' = [m \in DOMAIN dir' |-> dir'[m]]
      /\ \A m \in DOMAIN dir : dir'[m] = dir[m]
      /\ n \notin DOMAIN dir => dir'[n] = Empty
  <2>1. IsFiniteSet(DOMAIN dir \cup {n}) /\ dir = [m \in DOMAIN dir |-> dir[m]]
    BY FS_AddElement DEF DirInv
  <2>2. CASE n \in DOMAIN dir
    <3>1. dir' = dir /\ DOMAIN dir \cup {n} = DOMAIN dir
      BY <1>1, <2>2
    <3> QED BY <2>1, <2>2, <3>1
  <2>3. CASE n \notin DOMAIN dir
    <3>1. dir' = [m \in DOMAIN dir \cup {n} |-> IF m = n THEN Empty ELSE dir[m]]
      BY <1>1, <2>3 DEF Put
    <3> QED BY <2>1, <2>3, <3>1
  <2> QED BY <2>2, <2>3
<1>6. DirInv'
  <2>1. \A m \in DOMAIN dir' : Shaped(dir'[m])
    BY <1>5, EmptyOK DEF DirInv
  <2> QED BY <1>5, <2>1 DEF DirInv, Shaped
<1>7. \A x : Done(x) => Done(x)'
  BY <1>1, <1>5, DoneGrows
<1>8. /\ seen'[i] \in {"running", "completed", "incomplete"}
      /\ seen'[i] = "completed" => Done(n)
  <2>1. /\ Status(n) \in {"missing", "running", "completed", "incomplete"}
        /\ Status(n) = "completed" => Done(n)
    BY DEF Status, StatusOnDisk, Done
  <2>2. \A s : /\ s \in {"missing", "running", "completed", "incomplete"}
               /\ seen'[i] = (IF s = "missing" THEN "incomplete" ELSE s)
               => /\ seen'[i] \in {"running", "completed", "incomplete"}
                  /\ seen'[i] = "completed" => s = "completed"
    OBVIOUS
  <2>3. seen'[i] = (IF Status(n) = "missing" THEN "incomplete" ELSE Status(n))
    BY <1>s
  <2> QED BY <2>1, <2>2, <2>3
<1>9. TypeOK'
  <2>1. TypeItems'
    BY <1>1, <1>2, <1>t, <1>8 DEF TypeItems, TypeOK
  <2>2. TypeHolders'
    <3>1. i \notin holders /\ holders \subseteq Items
      BY <1>3 DEF TypeOK, PoolInv
    <3>2. \A x : Name(x)' = Name(x)
      BY <1>1 DEF Name
    <3>3. \A j \in holders : stage'[j] = "running"
      BY <1>s, <3>1 DEF TypeOK
    <3> QED BY <1>1, <3>2, <3>3 DEF TypeOK, TypeHolders
  <2>3. TypeDisk'
    BY <1>1, <1>5 DEF TypeOK, TypeDisk
  <2>4. TypeCmd'
    BY <1>1, <1>5 DEF TypeOK, TypeCmd
  <2> QED BY <1>6, <2>1, <2>2, <2>3, <2>4, TypeParts
<1>10. PhaseInv'
  BY <1>1 DEF PhaseInv, Patching
<1>11. PoolInv'
  <2>1. ASSUME NEW x \in Items PROVE ItemKept(x)
    <3>1. CASE x = i
      <4>1. Name(x) = n
        BY <3>1 DEF n
      <4> QED BY <1>3, <1>5, <1>7, <1>8, <1>s, <3>1, <4>1 DEF ItemKept
    <3>2. CASE x # i
      BY <1>5, <1>7, <1>q, <1>s, <3>2, ItemStays
    <3> QED BY <3>1, <3>2
  <2>2. holders' \subseteq Items
    BY <1>1 DEF PoolInv
  <2> QED BY <1>1, <1>4, <2>1, <2>2, PoolKept
<1>12. CoverInv'
  <2>1. \A x \in Items : stage[x] # "out" => stage'[x] # "out"
    BY <1>2, <1>s
  <2> QED BY <1>1, <1>7, <2>1, PoolCovers
<1>13. PatchInv'
  BY <1>1 DEF PatchInv, PhaseInv
<1> QED BY <1>6, <1>9, <1>10, <1>11, <1>12, <1>13

\* A worker leaves an item alone.
LEMMA SkipKept ==
  ASSUME BatchAssumption, BatchInv, NEW i \in Items, Skip(i)
  PROVE  BatchInv'
<1> USE DEF BatchInv
<1>1. /\ pc = "pool" /\ stage[i] = "sampled" /\ stage' = [stage EXCEPT ![i] = "out"]
      /\ seen' = [seen EXCEPT ![i] = ""] /\ failed \subseteq failed'
      /\ UNCHANGED <<kind, file, runCfg, dir, scores, dataset, cmd, pc, todo, left, arg, queue,
                     holders, interrupted, scored, commands, faults>>
  BY DEF Skip, disk
<1>t. /\ stage \in [Items -> {"out", "queued", "sampled", "running"}]
      /\ seen \in [Items -> {"", "running", "completed", "incomplete"}]
  BY DEF TypeOK
<1>q. /\ QueueInv /\ \A x \in Items : ItemInv(x)
  BY DEF PoolInv
<1>s. /\ stage'[i] = "out" /\ \A x \in Items \ {i} : stage'[x] = stage[x]
      /\ seen'[i] = "" /\ \A x \in Items \ {i} : seen'[x] = seen[x]
  BY <1>1, <1>t
<1>3. \A x : Done(x) => Done(x)'
  BY <1>1, DoneGrows
<1>2. ASSUME NEW n, n = Name(i) PROVE Done(n)'
  <2>1. CASE Locked(n)
    <3>1. n \in failed'
      BY <1>2, <2>1 DEF Skip
    <3> QED BY <3>1 DEF Done
  <2>2. CASE Reusable(i)
    <3>1. KnownStatus(i) = "completed" /\ n \in DOMAIN dir
      BY <1>1, <1>2, <1>q, <2>2 DEF Reusable, ItemInv
    <3>2. Done(n)
      BY <1>2, <1>q, <3>1 DEF KnownStatus, StatusOnDisk, ItemInv, Done
    <3> QED BY <1>3, <3>2
  <2> QED BY <1>2, <2>1, <2>2 DEF Skip
<1>4. DirInv' /\ PhaseInv' /\ PatchInv'
  BY <1>1, DirKept DEF PhaseInv, Patching, PatchInv
<1>5. TypeOK'
  <2>1. TypeItems'
    BY <1>1, <1>t DEF TypeItems, TypeOK
  <2>2. TypeHolders'
    <3>1. i \notin holders /\ holders \subseteq Items
      BY <1>1 DEF TypeOK, PoolInv
    <3>2. \A x : Name(x)' = Name(x)
      BY <1>1 DEF Name
    <3>3. \A j \in holders : stage'[j] = "running"
      BY <1>s, <3>1 DEF TypeOK
    <3> QED BY <1>1, <3>2, <3>3 DEF TypeOK, TypeHolders
  <2>3. TypeDisk' /\ TypeCmd'
    BY <1>1 DEF TypeOK, TypeDisk, TypeCmd
  <2> QED BY <1>4, <2>1, <2>2, <2>3, TypeParts
<1>6. QueueInv'
  <2>1. \A k \in DOMAIN queue : queue[k] \in Items /\ queue[k] # i
    BY <1>1, <1>q, QueueItems
  <2>2. \A x \in Items : stage'[x] = "queued" => x # i /\ stage[x] = "queued"
    BY <1>s
  <2>3. \A k \in DOMAIN queue : stage'[queue[k]] = "queued"
    BY <1>q, <1>s, <2>1 DEF QueueInv
  <2>4. QueueInv /\ queue' = queue
    BY <1>1, <1>q
  <2> QED BY ONLY <2>2, <2>3, <2>4 DEF QueueInv
<1>7. PoolInv'
  <2>1. ASSUME NEW x \in Items PROVE ItemKept(x)
    <3>1. CASE x = i
      BY <1>s, <3>1 DEF ItemKept
    <3>2. CASE x # i
      BY <1>1, <1>3, <1>q, <1>s, <3>2, ItemStays
    <3> QED BY <3>1, <3>2
  <2>2. holders' \subseteq Items
    BY <1>1 DEF PoolInv
  <2> QED BY <1>1, <1>6, <2>1, <2>2, PoolKept
<1>8. CoverInv'
  <2>1. \A x \in Items : stage[x] # "out" => stage'[x] # "out" \/ (\A n : n = Name(x) => Done(n)')
    BY <1>2, <1>s
  <2> QED BY <1>1, <1>3, <2>1, PoolCovers
<1> QED BY <1>4, <1>5, <1>7, <1>8

\* A directory whose contents are replaced.
LEMMA Replaced ==
  ASSUME DirInv, NEW n \in DOMAIN dir, NEW d, Shaped(d),
         dir' = [m \in DOMAIN dir |-> IF m = n THEN d ELSE dir[m]]
  PROVE  DirInv' /\ DOMAIN dir' = DOMAIN dir
<1>1. DOMAIN dir' = DOMAIN dir /\ dir' = [m \in DOMAIN dir' |-> dir'[m]]
  OBVIOUS
<1>2. \A m \in DOMAIN dir' : Shaped(dir'[m])
  BY DEF DirInv
<1> QED BY <1>1, <1>2 DEF DirInv, Shaped

\* A worker begins a session.
LEMMA ClaimKept ==
  ASSUME BatchAssumption, BatchInv, NEW i \in Items, Claim(i)
  PROVE  BatchInv'
<1> USE DEF BatchInv
<1> DEFINE n == Name(i)
           cfg == Normal(file[i[1]])
<1>t. /\ stage \in [Items -> {"out", "queued", "sampled", "running"}]
      /\ seen \in [Items -> {"", "running", "completed", "incomplete"}]
  BY DEF TypeOK
<1>q. /\ QueueInv /\ \A x \in Items : ItemInv(x)
      /\ holders \subseteq Items /\ \A j \in holders : stage[j] = "running"
  BY DEF PoolInv, TypeOK
<1>a. PICK cleanup \in BOOLEAN, removed \in BOOLEAN :
        /\ dir' = [dir EXCEPT ![n] = [(IF removed THEN Empty ELSE @) EXCEPT !.cfg = cfg]]
        /\ holders' = IF removed THEN holders ELSE holders \cup {i}
        /\ failed' = IF dir[n].res = "ok" THEN failed \cup {n} ELSE failed
        /\ IF cleanup /\ ~removed THEN faults < MaxFaults /\ faults' = faults + 1
                                  ELSE UNCHANGED faults
  BY DEF Claim
<1>1. /\ pc = "pool" /\ stage[i] = "sampled" /\ stage' = [stage EXCEPT ![i] = "running"]
      /\ seen' = [seen EXCEPT ![i] = ""] /\ ~Locked(n)
      /\ failed' = IF dir[n].res = "ok" THEN failed \cup {n} ELSE failed
      /\ holders' \subseteq holders \cup {i}
      /\ faults' = faults \/ (faults < MaxFaults /\ faults' = faults + 1)
      /\ UNCHANGED <<kind, file, runCfg, scores, dataset, cmd, pc, todo, left, arg, queue,
                     interrupted, scored, commands>>
  <2>1. /\ pc = "pool" /\ stage[i] = "sampled" /\ stage' = [stage EXCEPT ![i] = "running"]
        /\ seen' = [seen EXCEPT ![i] = ""] /\ ~Locked(n)
        /\ UNCHANGED <<kind, file, runCfg, scores, dataset, cmd, pc, todo, left, arg, queue,
                       interrupted, scored, commands>>
    BY DEF Claim
  <2>2. failed' = IF dir[n].res = "ok" THEN failed \cup {n} ELSE failed
    BY <1>a
  <2>3. faults' = faults \/ (faults < MaxFaults /\ faults' = faults + 1)
    BY <1>a
  <2>4. holders' \subseteq holders \cup {i}
    BY <1>a
  <2> QED BY ONLY <2>1, <2>2, <2>3, <2>4
<1>2. n \in DOMAIN dir /\ cfg \in Text
  BY <1>1, <1>q, ConfigsOK DEF ItemInv
<1> DEFINE before == IF removed THEN Empty ELSE dir[n]
           d == [before EXCEPT !.cfg = cfg]
<1>s. /\ stage'[i] = "running" /\ \A x \in Items \ {i} : stage'[x] = stage[x]
      /\ seen'[i] = "" /\ \A x \in Items \ {i} : seen'[x] = seen[x]
  BY <1>1, <1>t
<1> HIDE DEF n, cfg
<1>4. Shaped(before)
  BY <1>2, EmptyOK DEF DirInv
<1>5. Shaped(d)
  <2> HIDE DEF before
  <2> QED BY <1>2, <1>4, ConfigWritten
<1>6. dir' = [m \in DOMAIN dir |-> IF m = n THEN d ELSE dir[m]]
  <2>1. dir' = [dir EXCEPT ![n] = d]
    BY <1>a
  <2>2. dir = [m \in DOMAIN dir |-> dir[m]]
    BY DEF DirInv
  <2> HIDE DEF d
  <2> QED BY <2>1, <2>2
<1> HIDE DEF d, before
<1>7. DirInv' /\ DOMAIN dir' = DOMAIN dir /\ \A m \in DOMAIN dir \ {n} : dir'[m] = dir[m]
  BY <1>2, <1>5, <1>6, Replaced
<1>8. \A x : Done(x) => Done(x)'
  <2>1. failed \subseteq failed' /\ (dir[n].res = "ok" => n \in failed')
    BY <1>1
  <2> QED BY <1>7, <2>1, DoneGrows
<1>9. TypeOK'
  <2>1. TypeItems'
    BY <1>1, <1>t DEF TypeItems, TypeOK
  <2>2. TypeHolders'
    <3>1. \A x : Name(x)' = Name(x)
      BY <1>1 DEF Name
    <3>2. \A j \in holders' : stage'[j] = "running"
      BY <1>1, <1>q, <1>s
    <3>3. \A j \in holders : Name(j) # Name(i)
      BY <1>1 DEF Locked, n
    <3>4. \A j, k \in holders : Name(j) = Name(k) => j = k
      BY DEF TypeOK
    <3>5. \A j, k \in holders' : Name(j) = Name(k) => j = k
      BY <1>1, <3>3, <3>4
    <3> QED BY <3>1, <3>2, <3>5 DEF TypeHolders
  <2>3. TypeDisk'
    BY <1>1, <1>7 DEF TypeOK, TypeDisk
  <2>4. TypeCmd'
    <3>1. faults' \in 0..MaxFaults
      BY <1>1, FaultsKept DEF TypeOK
    <3> QED BY <1>1, <1>7, <3>1 DEF TypeOK, TypeCmd
  <2> QED BY <1>7, <2>1, <2>2, <2>3, <2>4, TypeParts
<1>10. PhaseInv' /\ PatchInv'
  BY <1>1 DEF PhaseInv, Patching, PatchInv
<1>11. QueueInv'
  <2>1. \A k \in DOMAIN queue : queue[k] \in Items /\ queue[k] # i
    BY <1>1, <1>q, QueueItems
  <2>2. \A x \in Items : stage'[x] = "queued" => x # i /\ stage[x] = "queued"
    BY <1>s
  <2>3. \A k \in DOMAIN queue : stage'[queue[k]] = "queued"
    BY <1>q, <1>s, <2>1 DEF QueueInv
  <2>4. QueueInv /\ queue' = queue
    BY <1>1, <1>q
  <2> QED BY ONLY <2>2, <2>3, <2>4 DEF QueueInv
<1>12. PoolInv'
  <2>1. ASSUME NEW x \in Items PROVE ItemKept(x)
    <3>1. CASE x = i
      <4>1. Loads(file[i[1]]) /\ Name(i) \in DOMAIN dir
        BY <1>1, <1>q DEF ItemInv
      <4> QED BY <1>7, <1>s, <3>1, <4>1 DEF ItemKept
    <3>2. CASE x # i
      BY <1>7, <1>8, <1>q, <1>s, <3>2, ItemStays
    <3> QED BY <3>1, <3>2
  <2>2. holders' \subseteq Items
    BY <1>1, <1>q
  <2> QED BY <1>1, <1>11, <2>1, <2>2, PoolKept
<1>13. CoverInv'
  <2>1. \A x \in Items : stage[x] # "out" => stage'[x] # "out"
    BY <1>s
  <2> QED BY <1>1, <1>8, <2>1, PoolCovers
<1> QED BY <1>7, <1>9, <1>10, <1>12, <1>13

\* A session comes to its end.
LEMMA FinishKept ==
  ASSUME BatchAssumption, BatchInv, NEW i \in Items, Finish(i)
  PROVE  BatchInv'
<1> USE DEF BatchInv
<1> DEFINE n == Name(i)
<1>t. /\ stage \in [Items -> {"out", "queued", "sampled", "running"}]
      /\ seen \in [Items -> {"", "running", "completed", "incomplete"}]
  BY DEF TypeOK
<1>q. /\ QueueInv /\ \A x \in Items : ItemInv(x)
      /\ holders \subseteq Items /\ \A j \in holders : stage[j] = "running"
  BY DEF PoolInv, TypeOK
<1>1. /\ pc = "pool" /\ stage[i] = "running" /\ holders' = holders \ {i}
      /\ UNCHANGED <<kind, file, runCfg, scores, dataset, cmd, pc, todo, left, arg, seen,
                     interrupted, scored, commands>>
  BY DEF Finish
<1>a. PICK o \in {"ok", "error", "none"} :
        /\ IF o = "ok" THEN UNCHANGED faults ELSE faults < MaxFaults /\ faults' = faults + 1
        /\ dir' = IF o = "none" THEN dir
                  ELSE [dir EXCEPT ![n].res = o, ![n].sid = n]
        /\ IF o = "none" /\ cmd = "execute"
             THEN Drop([stage EXCEPT ![i] = "out"])
             ELSE stage' = [stage EXCEPT ![i] = "out"] /\ UNCHANGED queue
        /\ failed' = failed \cup (IF o = "ok" THEN {} ELSE {n})
                            \cup (IF o = "none" /\ cmd = "execute" THEN {i[1]} ELSE {})
  BY DEF Finish
<1>2. /\ faults' = faults \/ (faults < MaxFaults /\ faults' = faults + 1)
      /\ failed \subseteq failed' /\ (o # "ok" => n \in failed')
  BY <1>a
<1>3. n \in DOMAIN dir /\ Shaped(dir[n])
  BY <1>1, <1>q DEF ItemInv, DirInv
<1> HIDE DEF n
<1> DEFINE d == IF o = "none" THEN dir[n] ELSE [cfg |-> dir[n].cfg, res |-> o, sid |-> n]
<1>4. Shaped(d) /\ (o # "none" => d.res = o)
  BY <1>3 DEF Shaped
<1>5. dir' = [m \in DOMAIN dir |-> IF m = n THEN d ELSE dir[m]]
  <2>1. dir = [m \in DOMAIN dir |-> dir[m]]
    BY DEF DirInv
  <2>2. CASE o = "none"
    BY <1>a, <2>1, <2>2
  <2>3. CASE o # "none"
    <3>a. dir' = [dir EXCEPT ![n].res = o, ![n].sid = n]
      BY <1>a, <2>3
    <3>1. dir' = [dir EXCEPT ![n] = [dir[n] EXCEPT !.res = o, !.sid = n]]
      BY <1>3, <3>a
    <3>2. [dir[n] EXCEPT !.res = o, !.sid = n] = d
      BY <1>3, <2>3, ResultWritten
    <3> HIDE DEF d
    <3> QED BY <2>1, <3>1, <3>2
  <2> QED BY <2>2, <2>3
<1> HIDE DEF d
<1>6. DirInv' /\ DOMAIN dir' = DOMAIN dir /\ \A m \in DOMAIN dir \ {n} : dir'[m] = dir[m]
  BY <1>3, <1>4, <1>5, Replaced
<1>7. n \in failed' \/ (n \in DOMAIN dir' /\ dir'[n].res = "ok")
  <2>1. dir'[n] = d
    BY <1>3, <1>5
  <2> QED BY <1>2, <1>3, <1>4, <1>6, <2>1
<1>8. \A x : Done(x) => Done(x)'
  BY <1>2, <1>6, <1>7, DoneGrows
<1>9. /\ stage'[i] = "out" /\ stage' \in [Items -> {"out", "queued", "sampled", "running"}]
      /\ \A x \in Items \ {i} : \/ stage'[x] = stage[x]
                               \/ /\ stage[x] = "queued" /\ stage'[x] = "out"
                                  /\ cmd = "execute"
      /\ QueueInv'
  <2> DEFINE st == [stage EXCEPT ![i] = "out"]
  <2>1. /\ st[i] = "out" /\ st \in [Items -> {"out", "queued", "sampled", "running"}]
        /\ \A x \in Items \ {i} : st[x] = stage[x]
    BY <1>t
  <2> HIDE DEF st
  <2>2. CASE o = "none" /\ cmd = "execute"
    <3>1. /\ queue' = <<>>
          /\ stage' = [x \in Items |-> IF st[x] = "queued" THEN "out" ELSE st[x]]
      BY <1>a, <2>2 DEF Drop, st
    <3>2. QueueInv'
      <4>1. <<>> \in Seq(Items) /\ DOMAIN <<>> = {}
        OBVIOUS
      <4>2. \A x \in Items : stage'[x] # "queued"
        BY <3>1
      <4> QED BY <3>1, <4>1, <4>2 DEF QueueInv
    <3>3. \A x \in Items \ {i} : \/ stage'[x] = stage[x]
                                 \/ /\ stage[x] = "queued" /\ stage'[x] = "out"
                                    /\ cmd = "execute"
      BY <2>1, <2>2, <3>1
    <3>4. stage'[i] = "out"
      BY <2>1, <3>1
    <3>5. stage' \in [Items -> {"out", "queued", "sampled", "running"}]
      BY <2>1, <3>1
    <3> QED BY ONLY <3>2, <3>3, <3>4, <3>5
  <2>3. CASE ~(o = "none" /\ cmd = "execute")
    <3>1. stage' = st /\ queue' = queue
      BY <1>a, <2>3 DEF st
    <3>2. \A k \in DOMAIN queue : queue[k] \in Items /\ queue[k] # i
      BY <1>1, <1>q, QueueItems
    <3>3. \A x \in Items : stage'[x] = "queued" => x # i /\ stage[x] = "queued"
      BY <2>1, <3>1
    <3>4. \A k \in DOMAIN queue : stage'[queue[k]] = "queued"
      BY <1>q, <2>1, <3>1, <3>2 DEF QueueInv
    <3>5. QueueInv'
      BY <1>q, <3>1, <3>3, <3>4 DEF QueueInv
    <3> QED BY ONLY <2>1, <3>1, <3>5
  <2> QED BY <2>2, <2>3
<1>10. TypeOK'
  <2>1. TypeItems'
    BY <1>1, <1>t, <1>9 DEF TypeItems, TypeOK
  <2>2. TypeHolders'
    <3>1. \A x : Name(x)' = Name(x)
      BY <1>1 DEF Name
    <3>2. \A j \in holders' : stage'[j] = "running"
      BY <1>1, <1>q, <1>9
    <3> QED BY <1>1, <3>1, <3>2 DEF TypeOK, TypeHolders
  <2>3. TypeDisk'
    BY <1>1, <1>6 DEF TypeOK, TypeDisk
  <2>4. TypeCmd'
    <3>1. faults' \in 0..MaxFaults
      BY <1>2, FaultsKept DEF TypeOK
    <3> QED BY <1>1, <1>6, <3>1 DEF TypeOK, TypeCmd
  <2> QED BY <1>6, <2>1, <2>2, <2>3, <2>4, TypeParts
<1>11. PhaseInv' /\ PatchInv'
  BY <1>1 DEF PhaseInv, Patching, PatchInv
<1>12. PoolInv'
  <2>1. ASSUME NEW x \in Items PROVE ItemKept(x)
    <3>1. CASE stage'[x] = "out"
      <4>1. stage[x] # "sampled" /\ seen'[x] = seen[x]
        BY <1>1, <1>9, <3>1
      <4>2. seen[x] = ""
        BY <1>q, <4>1 DEF ItemInv
      <4> QED BY <3>1, <4>1, <4>2 DEF ItemKept
    <3>2. CASE stage'[x] # "out"
      <4>1. stage'[x] = stage[x] /\ seen'[x] = seen[x]
        BY <1>1, <1>9, <3>2
      <4> QED BY <1>6, <1>8, <1>q, <4>1, ItemStays
    <3> QED BY <3>1, <3>2
  <2>2. holders' \subseteq Items
    BY <1>1, <1>q
  <2> QED BY <1>1, <1>9, <2>1, <2>2, PoolKept
<1>13. CoverInv'
  <2>1. ASSUME cmd = "evaluate", NEW x \in Items, stage[x] # "out"
        PROVE  stage'[x] # "out" \/ (\A m : m = Name(x) => Done(m)')
    <3>1. CASE x = i
      <4>1. ASSUME NEW m, m = Name(x) PROVE Done(m)'
        <5>1. m = n
          BY <3>1, <4>1 DEF n
        <5> QED BY <1>7, <5>1 DEF Done
      <4> QED BY <4>1
    <3>2. CASE x # i
      BY <1>9, <2>1, <3>2
    <3> QED BY <3>1, <3>2
  <2> QED BY <1>1, <1>8, <2>1, PoolCovers
<1> QED BY <1>6, <1>10, <1>11, <1>12, <1>13

\* Ctrl-C while the pool is at work.
LEMMA InterruptKept ==
  ASSUME BatchAssumption, BatchInv, Interrupt
  PROVE  BatchInv'
<1> USE DEF BatchInv
<1>t. /\ stage \in [Items -> {"out", "queued", "sampled", "running"}]
      /\ seen \in [Items -> {"", "running", "completed", "incomplete"}]
  BY DEF TypeOK
<1>q. /\ QueueInv /\ \A x \in Items : ItemInv(x)
      /\ holders \subseteq Items /\ \A j \in holders : stage[j] = "running"
  BY DEF PoolInv, TypeOK
<1>1. /\ pc = "pool" /\ interrupted' = TRUE
      /\ faults' = faults \/ (faults < MaxFaults /\ faults' = faults + 1)
      /\ UNCHANGED <<kind, file, runCfg, dir, scores, dataset, cmd, pc, todo, left, arg, seen,
                     holders, scored, failed, commands>>
  BY DEF Interrupt, disk, history
<1>2. /\ stage' \in [Items -> {"out", "queued", "sampled", "running"}]
      /\ \A x \in Items : \/ stage'[x] = stage[x]
                          \/ /\ stage[x] = "queued" /\ stage'[x] = "out"
                             /\ cmd = "execute"
      /\ QueueInv'
  <2>1. CASE cmd = "execute"
    <3>1. /\ queue' = <<>>
          /\ stage' = [x \in Items |-> IF stage[x] = "queued" THEN "out" ELSE stage[x]]
      BY <2>1 DEF Interrupt, Drop
    <3>2. <<>> \in Seq(Items) /\ DOMAIN <<>> = {}
      OBVIOUS
    <3>3. \A x \in Items : stage'[x] # "queued"
      BY <1>t, <3>1
    <3>4. QueueInv'
      BY <3>1, <3>2, <3>3 DEF QueueInv
    <3>5. /\ stage' \in [Items -> {"out", "queued", "sampled", "running"}]
          /\ \A x \in Items : \/ stage'[x] = stage[x]
                              \/ stage[x] = "queued" /\ stage'[x] = "out"
      BY <1>t, <3>1
    <3> QED BY <2>1, <3>4, <3>5
  <2>2. CASE cmd # "execute"
    <3>1. UNCHANGED <<queue, stage>>
      BY <2>2 DEF Interrupt
    <3> QED BY <1>t, <1>q, <3>1 DEF QueueInv
  <2> QED BY <2>1, <2>2
<1>3. DirInv' /\ PhaseInv' /\ PatchInv'
  BY <1>1, DirKept DEF PhaseInv, Patching, PatchInv
<1>4. \A x : Done(x) => Done(x)'
  BY <1>1, DoneGrows
<1>5. TypeOK'
  <2>1. TypeItems'
    BY <1>1, <1>t, <1>2 DEF TypeItems
  <2>2. TypeHolders'
    <3>1. \A x : Name(x)' = Name(x)
      BY <1>1 DEF Name
    <3>2. \A j \in holders : stage'[j] = "running"
      BY <1>q, <1>2
    <3> QED BY <1>1, <3>1, <3>2 DEF TypeOK, TypeHolders
  <2>3. TypeDisk' /\ TypeCmd'
    <3>1. faults' \in 0..MaxFaults
      BY <1>1, FaultsKept DEF TypeOK
    <3> QED BY <1>1, <3>1 DEF TypeOK, TypeDisk, TypeCmd
  <2> QED BY <1>3, <2>1, <2>2, <2>3, TypeParts
<1>6. PoolInv'
  <2>1. ASSUME NEW x \in Items PROVE ItemKept(x)
    <3>1. CASE stage'[x] = stage[x]
      BY <1>1, <1>4, <1>q, <3>1, ItemStays
    <3>2. CASE stage[x] = "queued" /\ stage'[x] = "out"
      <4>1. seen[x] = "" /\ seen'[x] = ""
        BY <1>1, <1>q, <3>2 DEF ItemInv
      <4> QED BY <3>2, <4>1 DEF ItemKept
    <3> QED BY <1>2, <3>1, <3>2
  <2> QED BY <1>1, <1>2, <1>q, <2>1, PoolKept
<1>7. CoverInv'
  BY <1>1, <1>2, <1>4, PoolCovers
<1> QED BY <1>3, <1>5, <1>6, <1>7

\* Leaving the pool.
LEMMA JoinKept ==
  ASSUME BatchAssumption, BatchInv, Join
  PROVE  BatchInv'
<1> USE DEF BatchInv
<1>1. /\ pc = "pool" /\ queue = <<>> /\ Busy = {} /\ interrupted' = FALSE
      /\ UNCHANGED <<kind, file, runCfg, dir, scores, dataset, cmd, arg, queue, stage, seen,
                     holders, scored, failed, commands, faults>>
  BY DEF Join, disk, history
<1>2. \/ cmd = "execute" /\ pc' = "plan" /\ UNCHANGED <<todo, left>>
      \/ cmd = "evaluate" /\ pc' = "raised" /\ todo' = <<>> /\ left' = {}
      \/ cmd = "evaluate" /\ pc' = "score" /\ todo' = Files /\ UNCHANGED left
  BY <1>1 DEF Join, Goto, Abort, PhaseInv
<1>3. Quiet'
  <2>1. ASSUME NEW x \in Items PROVE stage[x] = "out"
    <3>1. stage[x] \in {"out", "queued", "sampled", "running"}
      BY DEF TypeOK
    <3>2. stage[x] # "queued"
      <4>1. DOMAIN <<>> = {}
        OBVIOUS
      <4> QED BY <1>1, <4>1 DEF PoolInv, QueueInv
    <3> QED BY <1>1, <3>1, <3>2 DEF Busy
  <2>2. \A x \in Items : seen[x] = ""
    BY <2>1 DEF PoolInv, ItemInv
  <2>3. holders = {}
    BY <2>1 DEF PoolInv, TypeOK
  <2> QED BY <1>1, <2>1, <2>2, <2>3 DEF Quiet
<1>4. DirInv' /\ PoolInv'
  BY <1>1, <1>3, DirKept, QuietKept
<1>5. /\ Files \in Seq(AllFiles)
      /\ \A i, j \in DOMAIN Files : Files[i] = Files[j] => i = j
      /\ <<>> \in Seq(AllFiles) /\ DOMAIN <<>> = {} /\ Len(<<>>) = 0
      /\ Len(Files) \in Nat
      /\ \A f \in AllFiles : \E k \in DOMAIN Files : Files[k] = f
  BY DEF BatchAssumption, AllFiles
<1>6. TypeOK'
  <2>1. TypeItems' /\ TypeHolders'
    BY <1>1, <1>3 DEF TypeOK, TypeItems, TypeHolders, Quiet
  <2>2. TypeDisk'
    BY <1>1 DEF TypeOK, TypeDisk
  <2>3. Len(todo') <= Len(Files) /\ left' \subseteq DOMAIN dir'
    <3>1. Len(todo) <= Len(Files) /\ left \subseteq DOMAIN dir
      BY DEF TypeOK
    <3>2. todo' \in {todo, Files, <<>>} /\ left' \in {left, {}}
      BY <1>2
    <3>3. 0 <= Len(Files) /\ Len(Files) <= Len(Files)
      BY <1>5
    <3> QED BY <1>1, <1>5, <3>1, <3>2, <3>3
  <2>4. TypeCmd'
    BY <1>1, <1>2, <2>3 DEF TypeOK, TypeCmd
  <2> QED BY <1>4, <2>1, <2>2, <2>4, TypeParts
<1>7. PhaseInv'
  <2>1. todo' \in Seq(AllFiles) /\ \A i, j \in DOMAIN todo' : todo'[i] = todo'[j] => i = j
    BY <1>2, <1>5 DEF PhaseInv
  <2> QED BY <1>1, <1>2, <2>1 DEF PhaseInv, Patching
<1>8. CoverInv'
  <2>1. ASSUME cmd = "evaluate", NEW f \in AllFiles, NEW t \in TasksOf(f)
        PROVE  Done(SessionId(t, file[f]))
    <3>1. <<f, t>> \in Items
      BY DEF Items, TasksOf, BatchAssumption
    <3>2. stage[<<f, t>>] = "out"
      BY <1>1, <1>3, <3>1 DEF Quiet
    <3> QED BY <1>1, <2>1, <3>2 DEF CoverInv
  <2> QED BY <1>1, <1>2, <1>5, <2>1 DEF CoverInv, TasksOf, Done, Ahead
<1>9. PatchInv'
  BY <1>1, <1>2 DEF PatchInv
<1> QED BY <1>4, <1>6, <1>7, <1>8, <1>9

-----------------------------------------------------------------------------
\* A step that leaves the pool alone, where there is nothing in it.
LEMMA QuietStep ==
  ASSUME TypeOK, PoolInv, pc # "pool", ~(pc = "plan" /\ cmd = "evaluate"), UNCHANGED pool
  PROVE  Quiet /\ Quiet' /\ TypeItems' /\ TypeHolders' /\ PoolInv'
<1>1. Quiet
  BY QuietOutside
<1>2. Quiet' /\ UNCHANGED <<queue, stage, seen, holders, interrupted>>
  BY <1>1 DEF Quiet, pool
<1>3. TypeItems' /\ TypeHolders'
  BY <1>2 DEF TypeOK, TypeItems, TypeHolders, Quiet
<1> QED BY <1>1, <1>2, <1>3, QuietKept

\* A file is aggregated.
LEMMA ScoreKept ==
  ASSUME BatchAssumption, BatchInv, Score
  PROVE  BatchInv'
<1> USE DEF BatchInv
<1> DEFINE f == Head(todo)
<1>1. /\ pc = "score" /\ todo # <<>> /\ Loads(file[f]) /\ runCfg' = Normal(file[f])
      /\ scores' = [written |-> TRUE, ids |-> Completed(f)]
      /\ scored' = [scored EXCEPT ![f] = Completed(f)] /\ todo' = Tail(todo)
      /\ UNCHANGED <<kind, file, dir, dataset, cmd, pc, left, arg, failed, commands, faults>>
      /\ UNCHANGED pool
  BY DEF Score
<1>2. Quiet /\ TypeItems' /\ TypeHolders' /\ PoolInv'
  BY <1>1, QuietStep
<1>3. /\ f \in AllFiles
      /\ todo' \in Seq(AllFiles) /\ Len(todo') <= Len(Files)
      /\ \A i, j \in DOMAIN todo' : todo'[i] = todo'[j] => i = j
      /\ \A g : Ahead(g)' <=> Ahead(g) /\ g # f
  BY <1>1, FilesLeft DEF TypeOK
<1>4. DirInv'
  BY <1>1, DirKept
<1> HIDE DEF f
<1>5. Completed(f) \subseteq DOMAIN dir
  BY DEF Completed, Status
<1>6. TypeOK'
  <2>1. TypeDisk'
    <3>1. runCfg' \in Text
      BY <1>1, ConfigsOK
    <3>2. scored' \in [AllFiles -> SUBSET DOMAIN dir]
      BY <1>1, <1>5 DEF TypeOK
    <3> QED BY <1>1, <3>1, <3>2 DEF TypeOK, TypeDisk
  <2>2. TypeCmd'
    BY <1>1, <1>3 DEF TypeOK, TypeCmd
  <2> QED BY <1>2, <1>4, <2>1, <2>2, TypeParts
<1>7. PhaseInv'
  BY <1>1, <1>3 DEF PhaseInv, Patching
<1>8. CoverInv'
  <2>1. ASSUME cmd = "evaluate", NEW g \in AllFiles \ failed
        PROVE  Ahead(g)' \/ IdsOf(g) \subseteq scored'[g] \cup failed
    <3>1. CASE g = f
      <4>1. ASSUME NEW t \in TasksOf(f)
            PROVE  SessionId(t, file[f]) \in Completed(f) \cup failed
        <5>1. <<f, t>> \in Items
          BY <1>3 DEF Items, TasksOf, BatchAssumption
        <5>2. stage[<<f, t>>] = "out"
          BY <1>2, <5>1 DEF Quiet
        <5>3. Done(SessionId(t, file[f]))
          BY <1>1, <1>3, <2>1, <5>2 DEF CoverInv
        <5>4. SessionId(t, file[f]) \in IdsOf(f)
          BY DEF IdsOf
        <5> QED BY <1>2, <5>3, <5>4 DEF Done, Completed, Status, StatusOnDisk, Locked, Quiet
      <4>2. scored'[f] = Completed(f)
        BY <1>1, <1>3 DEF TypeOK
      <4> QED BY <3>1, <4>1, <4>2 DEF IdsOf
    <3>2. CASE g # f
      <4>1. scored'[g] = scored[g]
        BY <1>1, <3>2 DEF TypeOK
      <4> QED BY <1>1, <1>3, <2>1, <3>2, <4>1 DEF CoverInv
    <3> QED BY <3>1, <3>2
  <2>2. ASSUME cmd = "evaluate", NEW g \in AllFiles, NEW t \in TasksOf(g)
        PROVE  Done(SessionId(t, file[g]))
    <3>1. <<g, t>> \in Items
      BY DEF Items, TasksOf, BatchAssumption
    <3>2. stage[<<g, t>>] = "out"
      BY <1>2, <3>1 DEF Quiet
    <3> QED BY <1>1, <2>2, <3>2 DEF CoverInv
  <2> QED BY <1>1, <2>1, <2>2 DEF CoverInv, TasksOf, IdsOf, Done
<1>9. PatchInv'
  BY <1>1 DEF PatchInv, PhaseInv
<1> QED BY <1>2, <1>4, <1>6, <1>7, <1>8, <1>9

\* A file is not aggregated.
LEMMA ScoreFailsKept ==
  ASSUME BatchAssumption, BatchInv, ScoreFails
  PROVE  BatchInv'
<1> USE DEF BatchInv
<1> DEFINE f == Head(todo)
<1>1. /\ pc = "score" /\ todo # <<>> /\ failed' = failed \cup {f} /\ todo' = Tail(todo)
      /\ faults' = faults \/ (faults < MaxFaults /\ faults' = faults + 1)
      /\ UNCHANGED <<kind, file, runCfg, dir, scores, dataset, cmd, pc, left, arg, scored,
                     commands>>
      /\ UNCHANGED pool
  BY DEF ScoreFails, disk
<1>2. Quiet /\ TypeItems' /\ TypeHolders' /\ PoolInv'
  BY <1>1, QuietStep
<1>3. /\ todo' \in Seq(AllFiles) /\ Len(todo') <= Len(Files)
      /\ \A i, j \in DOMAIN todo' : todo'[i] = todo'[j] => i = j
      /\ \A g : Ahead(g)' <=> Ahead(g) /\ g # f
  BY <1>1, FilesLeft DEF TypeOK
<1>4. DirInv'
  BY <1>1, DirKept
<1> HIDE DEF f
<1>6. TypeOK'
  <2>1. TypeDisk'
    BY <1>1 DEF TypeOK, TypeDisk
  <2>2. TypeCmd'
    <3>1. faults' \in 0..MaxFaults
      BY <1>1, FaultsKept DEF TypeOK
    <3> QED BY <1>1, <1>3, <3>1 DEF TypeOK, TypeCmd
  <2> QED BY <1>2, <1>4, <2>1, <2>2, TypeParts
<1>7. PhaseInv'
  BY <1>1, <1>3 DEF PhaseInv, Patching
<1>8. CoverInv'
  <2>1. ASSUME cmd = "evaluate", NEW g \in AllFiles \ failed'
        PROVE  Ahead(g)' \/ IdsOf(g) \subseteq scored[g] \cup failed'
    BY <1>1, <1>3, <2>1 DEF CoverInv
  <2>2. ASSUME cmd = "evaluate", NEW g \in AllFiles, NEW t \in TasksOf(g)
        PROVE  Done(SessionId(t, file[g]))
    <3>1. <<g, t>> \in Items
      BY DEF Items, TasksOf, BatchAssumption
    <3>2. stage[<<g, t>>] = "out"
      BY <1>2, <3>1 DEF Quiet
    <3> QED BY <1>1, <2>2, <3>2 DEF CoverInv
  <2> QED BY <1>1, <2>1, <2>2 DEF CoverInv, TasksOf, IdsOf, Done
<1>9. PatchInv'
  BY <1>1 DEF PatchInv, PhaseInv
<1> QED BY <1>2, <1>4, <1>6, <1>7, <1>8, <1>9

-----------------------------------------------------------------------------
\* The session configs of a file are prepared.
LEMMA PrepareKept ==
  ASSUME BatchAssumption, BatchInv, Prepare
  PROVE  BatchInv'
<1> USE DEF BatchInv
<1> DEFINE f == Head(todo)
<1>1. /\ cmd = "prepare" /\ pc = "plan" /\ todo # <<>> /\ todo' = Tail(todo)
      /\ UNCHANGED <<kind, file, runCfg, scores, dataset, cmd, pc, left, arg, scored, commands,
                     faults>>
      /\ UNCHANGED pool
  BY DEF Prepare
<1>2. Quiet /\ TypeItems' /\ TypeHolders' /\ PoolInv'
  BY <1>1, QuietStep
<1>3. /\ todo' \in Seq(AllFiles) /\ Len(todo') <= Len(Files)
      /\ \A i, j \in DOMAIN todo' : todo'[i] = todo'[j] => i = j
  BY <1>1, FilesLeft DEF TypeOK
<1>4. DirInv' /\ DOMAIN dir \subseteq DOMAIN dir'
  <2>1. CASE Loads(file[f])
    <3> DEFINE own(n) == IF n \in DOMAIN dir THEN dir[n] ELSE Empty
               new(n) == IF n \in IdsOf(f) /\ (arg.overwrite \/ own(n).cfg = Absent)
                           THEN [own(n) EXCEPT !.cfg = Normal(file[f])] ELSE own(n)
    <3>1. dir' = [n \in DOMAIN dir \cup IdsOf(f) |-> new(n)]
      BY <2>1 DEF Prepare
    <3>2. ASSUME NEW n PROVE Shaped(own(n))
      BY EmptyOK DEF DirInv
    <3>3. Normal(file[f]) \in Text
      BY <2>1, ConfigsOK
    <3>4. ASSUME NEW n PROVE Shaped(new(n))
      <4>1. Shaped([own(n) EXCEPT !.cfg = Normal(file[f])])
        <5> HIDE DEF own
        <5> QED BY <3>2, <3>3, ConfigWritten
      <4>2. Shaped(own(n))
        BY <3>2
      <4> HIDE DEF own
      <4> QED BY <4>1, <4>2
    <3> HIDE DEF new
    <3>5. IsFiniteSet(DOMAIN dir \cup IdsOf(f))
      BY IdsFinite, FS_Union DEF DirInv
    <3>6. DOMAIN dir' = DOMAIN dir \cup IdsOf(f) /\ \A n \in DOMAIN dir' : Shaped(dir'[n])
      BY <3>1, <3>4
    <3>7. dir' = [n \in DOMAIN dir' |-> dir'[n]]
      BY <3>1
    <3> QED BY <3>5, <3>6, <3>7 DEF DirInv, Shaped
  <2>2. CASE ~Loads(file[f])
    <3>1. UNCHANGED dir
      BY <2>2 DEF Prepare
    <3> QED BY <3>1, DirKept
  <2> QED BY <2>1, <2>2
<1>5. TypeOK'
  <2>1. TypeDisk'
    BY <1>1, <1>4 DEF TypeOK, TypeDisk
  <2>2. TypeCmd'
    BY <1>1, <1>3, <1>4 DEF TypeOK, TypeCmd
  <2> QED BY <1>2, <1>4, <2>1, <2>2, TypeParts
<1>6. PhaseInv'
  BY <1>1, <1>3 DEF PhaseInv, Patching
<1>7. CoverInv' /\ PatchInv'
  BY <1>1 DEF CoverInv, PatchInv
<1> QED BY <1>2, <1>4, <1>5, <1>6, <1>7

-----------------------------------------------------------------------------
\* No file is left to do.
LEMMA NoFiles ==
  BatchAssumption => /\ <<>> \in Seq(AllFiles) /\ DOMAIN <<>> = {} /\ Len(<<>>) = 0
                     /\ Len(<<>>) <= Len(Files)
<1>1. BatchAssumption => Len(Files) \in Nat
  BY DEF BatchAssumption
<1>2. <<>> \in Seq(AllFiles) /\ DOMAIN <<>> = {} /\ Len(<<>>) = 0
  OBVIOUS
<1> QED BY <1>1, <1>2

\* A step of a patch, on the configs and the directories.
LEMMA PatchStep ==
  ASSUME BatchAssumption, BatchInv, cmd = "patch", pc \in Patching, DirInv',
         UNCHANGED <<kind, scores, dataset, cmd, arg, scored, failed, commands>>,
         UNCHANGED pool,
         file' \in [AllFiles -> Text], runCfg' \in Text, faults' \in 0..MaxFaults,
         left' \subseteq DOMAIN dir',
         \/ todo' = todo
         \/ todo' = <<>>
         \/ todo # <<>> /\ todo' = Tail(todo),
         pc' \in Patching \cup {"raised"},
         pc' = "recover" => arg.apply,
         pc' \notin {"configs", "legacy", "recover"} => left' = {}
  PROVE  TypeOK' /\ PhaseInv' /\ PoolInv' /\ CoverInv'
<1> USE DEF BatchInv
<1>1. /\ pc \notin {"pool", "plan", "idle", "score", "returned"}
      /\ pc' \notin {"pool", "plan", "idle", "score", "returned"}
  BY DEF Patching
<1>2. Quiet /\ TypeItems' /\ TypeHolders' /\ PoolInv'
  BY <1>1, QuietStep
<1>3. /\ todo' \in Seq(AllFiles) /\ Len(todo') <= Len(Files)
      /\ \A i, j \in DOMAIN todo' : todo'[i] = todo'[j] => i = j
  <2>1. CASE todo' = todo
    BY <2>1 DEF TypeOK, PhaseInv
  <2>2. CASE todo' = <<>>
    BY <2>2, NoFiles
  <2>3. CASE todo # <<>> /\ todo' = Tail(todo)
    BY <2>3, FilesLeft DEF TypeOK
  <2> QED BY <2>1, <2>2, <2>3
<1>4. TypeOK'
  <2>1. TypeDisk'
    <3>1. \A f \in AllFiles : scored[f] = {}
      BY DEF PhaseInv
    <3>2. scored' \in [AllFiles -> SUBSET DOMAIN dir']
      BY <3>1 DEF TypeOK
    <3> QED BY <3>2 DEF TypeOK, TypeDisk
  <2>2. TypeCmd'
    BY <1>3 DEF TypeOK, TypeCmd, Patching
  <2> QED BY <1>2, <2>1, <2>2, TypeParts
<1>5. PhaseInv'
  <2>1. pc' # "idle" /\ cmd' = "patch" /\ arg' = arg /\ scored' = scored
    BY <1>1
  <2> QED BY <1>1, <1>3, <2>1 DEF PhaseInv
<1>6. CoverInv'
  BY DEF CoverInv
<1> QED BY <1>2, <1>4, <1>5, <1>6

\* A config file is patched.
LEMMA PatchFileKept ==
  ASSUME BatchAssumption, BatchInv, PatchFile
  PROVE  BatchInv'
<1> USE DEF BatchInv
<1> DEFINE f == Head(todo)
<1>1. /\ pc = "files" /\ todo # <<>> /\ cmd = "patch" /\ left = {} /\ arg \in PatchArg
      /\ UNCHANGED <<kind, runCfg, dir, scores, dataset, cmd, arg, scored, failed, commands,
                     faults>>
      /\ UNCHANGED pool
  BY DEF PatchFile, history, PhaseInv, Patching
<1>2. /\ left' = {} /\ \/ pc' = "raised" /\ todo' = <<>>
                       \/ pc' = pc /\ todo' = Tail(todo)
      /\ file' \in [AllFiles -> Text]
  <2>1. CASE ~Loads(file[f])
    BY <1>1, <2>1 DEF PatchFile, Abort, Goto, TypeOK
  <2>2. CASE Loads(file[f])
    <3>1. /\ file' = IF Apply THEN [file EXCEPT ![f] = Patched(@)] ELSE file
          /\ todo' = Tail(todo) /\ UNCHANGED <<pc, left>>
      BY <2>2 DEF PatchFile
    <3>2. Patched(file[f]) \in Text
      BY <1>1, <2>2, ConfigsOK DEF Patched, Loads
    <3>3. file \in [AllFiles -> Text]
      BY DEF TypeOK
    <3> HIDE DEF f
    <3>4. file' \in [AllFiles -> Text]
      BY <3>1, <3>2, <3>3
    <3> QED BY <1>1, <3>1, <3>4 DEF f
  <2> QED BY <2>1, <2>2
<1>3. DirInv'
  BY <1>1, DirKept
<1>4. TypeOK' /\ PhaseInv' /\ PoolInv' /\ CoverInv'
  <2>1. runCfg' \in Text /\ faults' \in 0..MaxFaults
    BY <1>1 DEF TypeOK
  <2> QED BY <1>1, <1>2, <1>3, <2>1, PatchStep DEF Patching
<1>5. PatchInv'
  BY <1>1, <1>2 DEF PatchInv, Patching, Configured
<1> QED BY <1>3, <1>4, <1>5

\* The run config is patched.
LEMMA PatchRunConfigKept ==
  ASSUME BatchAssumption, BatchInv, PatchRunConfig
  PROVE  BatchInv'
<1> USE DEF BatchInv
<1>1. /\ pc = "run" /\ cmd = "patch" /\ left = {} /\ arg \in PatchArg
      /\ UNCHANGED <<kind, file, dir, scores, dataset, cmd, arg, scored, failed, commands,
                     faults>>
      /\ UNCHANGED pool
  BY DEF PatchRunConfig, history, PhaseInv, Patching
<1>2. \/ pc' = "raised" /\ todo' = <<>> /\ left' = {}
      \/ pc' = "configs" /\ todo' = todo /\ left' = Configured
  BY DEF PatchRunConfig, Abort, Goto
<1>3. runCfg' \in Text
  BY <1>1, ConfigsOK DEF PatchRunConfig, Patched, TypeOK
<1>4. DirInv'
  BY <1>1, DirKept
<1>5. TypeOK' /\ PhaseInv' /\ PoolInv' /\ CoverInv'
  <2>1. file' \in [AllFiles -> Text] /\ faults' \in 0..MaxFaults
    BY <1>1 DEF TypeOK
  <2>2. left' \subseteq DOMAIN dir'
    BY <1>1, <1>2 DEF Configured
  <2> QED BY <1>1, <1>2, <1>3, <1>4, <2>1, <2>2, PatchStep DEF Patching
<1>6. PatchInv'
  BY <1>1, <1>2 DEF PatchInv, Patching, Configured
<1> QED BY <1>4, <1>5, <1>6

\* A session config is patched.
LEMMA PatchSessionKept ==
  ASSUME BatchAssumption, BatchInv, PatchSession
  PROVE  BatchInv'
<1> USE DEF BatchInv
<1>1. /\ pc = "configs" /\ cmd = "patch" /\ arg \in PatchArg
      /\ UNCHANGED <<kind, file, runCfg, scores, dataset, cmd, arg, scored, failed, commands,
                     faults>>
      /\ UNCHANGED pool
  BY DEF PatchSession, history, PhaseInv, Patching
<1>t. file' \in [AllFiles -> Text] /\ runCfg' \in Text /\ faults' \in 0..MaxFaults
  BY <1>1 DEF TypeOK
<1>2. PICK n \in left :
        IF dir[n].cfg = Torn \/ ~Loads(Patched(dir[n].cfg)) THEN Abort /\ UNCHANGED dir
        ELSE /\ dir' = IF Apply THEN [dir EXCEPT ![n].cfg = Patched(dir[n].cfg)] ELSE dir
             /\ left' = left \ {n} /\ UNCHANGED <<pc, todo>>
  BY DEF PatchSession
<1>3. /\ n \in Configured /\ n \in DOMAIN dir /\ left \subseteq Configured
      /\ Shaped(dir[n]) /\ left \subseteq DOMAIN dir
  BY <1>1 DEF PatchInv, Configured, DirInv
<1>4. CASE Abort /\ UNCHANGED dir
  <2>1. pc' = "raised" /\ todo' = <<>> /\ left' = {}
    BY <1>4 DEF Abort, Goto
  <2>2. DirInv'
    BY <1>4, DirKept
  <2>3. TypeOK' /\ PhaseInv' /\ PoolInv' /\ CoverInv'
    BY <1>1, <1>t, <2>1, <2>2, PatchStep DEF Patching
  <2>4. PatchInv'
    BY <2>1 DEF PatchInv, Patching
  <2> QED BY <2>2, <2>3, <2>4
<1>5. CASE ~(Abort /\ UNCHANGED dir)
  <2> DEFINE c == Patched(dir[n].cfg)
             d == IF Apply THEN [dir[n] EXCEPT !.cfg = c] ELSE dir[n]
  <2>1. /\ dir' = IF Apply THEN [dir EXCEPT ![n].cfg = c] ELSE dir
        /\ left' = left \ {n} /\ UNCHANGED <<pc, todo>> /\ dir[n].cfg # Torn
    BY <1>2, <1>5
  <2>2. c \in Text /\ c # Absent
    <3>1. dir[n].cfg \in Content
      BY <1>3, <2>1 DEF Shaped, Text, Configured
    <3> QED BY <1>1, <3>1, ConfigsOK DEF Patched
  <2> HIDE DEF c
  <2>3. Shaped(d) /\ d.cfg # Absent /\ d.res = dir[n].res /\ d.sid = dir[n].sid
    BY <1>3, <2>2, ConfigWritten DEF Configured
  <2>4. dir' = [m \in DOMAIN dir |-> IF m = n THEN d ELSE dir[m]]
    <3>1. dir = [m \in DOMAIN dir |-> dir[m]]
      BY DEF DirInv
    <3>2. CASE Apply
      BY <2>1, <3>1, <3>2
    <3>3. CASE ~Apply
      BY <2>1, <3>1, <3>3
    <3> QED BY <3>2, <3>3
  <2> HIDE DEF d
  <2>5. DirInv' /\ DOMAIN dir' = DOMAIN dir
    BY <1>3, <2>3, <2>4, Replaced
  <2>6. TypeOK' /\ PhaseInv' /\ PoolInv' /\ CoverInv'
    BY <1>1, <1>t, <1>3, <2>1, <2>5, PatchStep DEF Patching
  <2>7. /\ Configured' = Configured
        /\ \A m \in Configured : dir'[m].res = dir[m].res /\ dir'[m].sid = dir[m].sid
    BY <1>3, <2>3, <2>4 DEF Configured
  <2>8. PatchInv'
    BY <1>1, <1>3, <2>1, <2>7 DEF PatchInv, Patching
  <2> QED BY <2>5, <2>6, <2>8
<1> QED BY <1>4, <1>5

-----------------------------------------------------------------------------
\* A directory that is renamed, where nothing but an empty one may be.
LEMMA Renamed ==
  ASSUME DirInv, NEW n \in DOMAIN dir, NEW to, NEW s, dir' = Rename(n, to, s)
  PROVE  /\ DirInv' /\ DOMAIN dir' = (DOMAIN dir \ {n}) \cup {to}
         /\ dir'[to] = Retold(dir[n], s)
         /\ \A m \in DOMAIN dir \ {n, to} : dir'[m] = dir[m]
<1> DEFINE e == Retold(dir[n], s)
<1>1. dir' = [m \in (DOMAIN dir \ {n}) \cup {to} |-> IF m = to THEN e ELSE dir[m]]
  BY DEF Rename
<1>2. Shaped(e)
  BY RetoldOK DEF DirInv
<1> HIDE DEF e
<1>3. /\ DOMAIN dir' = (DOMAIN dir \ {n}) \cup {to} /\ dir'[to] = e
      /\ \A m \in DOMAIN dir \ {n, to} : dir'[m] = dir[m]
      /\ dir' = [m \in DOMAIN dir' |-> dir'[m]]
  BY <1>1
<1>4. \A m \in DOMAIN dir' : Shaped(dir'[m])
  BY <1>2, <1>3 DEF DirInv
<1>5. IsFiniteSet(DOMAIN dir')
  <2>1. IsFiniteSet(DOMAIN dir \ {n})
    BY FS_RemoveElement DEF DirInv
  <2>2. IsFiniteSet((DOMAIN dir \ {n}) \cup {to})
    BY <2>1, FS_AddElement
  <2> QED BY <1>3, <2>2
<1>6. DirInv'
  BY <1>3, <1>4, <1>5 DEF DirInv, Shaped
<1> QED BY <1>3, <1>6 DEF e

\* A directory whose results are told another id, under the name it has.
LEMMA Relabelled ==
  ASSUME DirInv, NEW n \in DOMAIN dir, NEW s, dir' = [dir EXCEPT ![n] = Retold(@, s)]
  PROVE  /\ DirInv' /\ DOMAIN dir' = DOMAIN dir
         /\ \A m \in DOMAIN dir : dir'[m].res = dir[m].res
<1> DEFINE e == Retold(dir[n], s)
<1>1. Shaped(e) /\ e.res = dir[n].res
  BY RetoldOK DEF DirInv
<1>2. dir' = [dir EXCEPT ![n] = e] /\ dir = [m \in DOMAIN dir |-> dir[m]]
  BY DEF DirInv
<1> HIDE DEF e
<1>3. dir' = [m \in DOMAIN dir |-> IF m = n THEN e ELSE dir[m]]
  BY <1>2
<1>4. DirInv' /\ DOMAIN dir' = DOMAIN dir
  BY <1>1, <1>3, Replaced
<1> QED BY <1>1, <1>3, <1>4

\* A session without a config is renamed.
LEMMA RenameLegacyKept ==
  ASSUME BatchAssumption, BatchInv, RenameLegacy
  PROVE  BatchInv'
<1> USE DEF BatchInv
<1>1. /\ pc = "legacy" /\ cmd = "patch"
      /\ UNCHANGED <<kind, file, runCfg, scores, dataset, cmd, arg, scored, failed, commands,
                     faults>>
      /\ UNCHANGED pool
  BY DEF RenameLegacy, history, PhaseInv, Patching
<1>t. file' \in [AllFiles -> Text] /\ runCfg' \in Text /\ faults' \in 0..MaxFaults
  BY <1>1 DEF TypeOK
<1>2. PICK n \in left :
        LET id == SessionId(n[1], RunConfigNow)
            to == IF id \in DOMAIN dir THEN DupName(id, n) ELSE id
            renames == Apply /\ dir[n].res # "none" /\ id # n IN
        IF renames /\ to \in DOMAIN dir
          THEN Abort /\ dir' = [dir EXCEPT ![n] = Retold(@, id)]
          ELSE /\ dir' = IF renames THEN Rename(n, to, id) ELSE dir
               /\ left' = left \ {n} /\ UNCHANGED <<pc, todo>>
  BY DEF RenameLegacy
<1> DEFINE id == SessionId(n[1], RunConfigNow)
           to == IF id \in DOMAIN dir THEN DupName(id, n) ELSE id
           renames == Apply /\ dir[n].res # "none" /\ id # n
<1>r. IF renames /\ to \in DOMAIN dir
        THEN Abort /\ dir' = [dir EXCEPT ![n] = Retold(@, id)]
        ELSE /\ dir' = IF renames THEN Rename(n, to, id) ELSE dir
             /\ left' = left \ {n} /\ UNCHANGED <<pc, todo>>
  BY <1>2
<1> HIDE DEF id, to, renames
<1>3. n \in Unconfigured /\ n \in DOMAIN dir /\ left \subseteq Unconfigured
  BY <1>1 DEF PatchInv, Unconfigured
<1>4. CASE renames /\ to \in DOMAIN dir
  <2>1. pc' = "raised" /\ todo' = <<>> /\ left' = {} /\ DirInv'
    BY <1>r, <1>3, <1>4, Relabelled DEF Abort, Goto
  <2>2. TypeOK' /\ PhaseInv' /\ PoolInv' /\ CoverInv'
    BY <1>1, <1>t, <2>1, PatchStep DEF Patching
  <2>3. PatchInv'
    BY <2>1 DEF PatchInv, Patching
  <2> QED BY <2>1, <2>2, <2>3
<1>5. CASE ~(renames /\ to \in DOMAIN dir)
  <2>1. left' = left \ {n} /\ UNCHANGED <<pc, todo>>
    BY <1>r, <1>5
  <2>2. /\ DirInv' /\ Configured' = Configured
        /\ \A m \in Configured : dir'[m] = dir[m]
        /\ left' \subseteq Unconfigured'
    <3>1. CASE renames
      <4>1. dir' = Rename(n, to, id) /\ to \notin DOMAIN dir
        BY <1>r, <1>5, <3>1
      <4>2. /\ DirInv' /\ DOMAIN dir' = (DOMAIN dir \ {n}) \cup {to}
            /\ dir'[to] = Retold(dir[n], id)
            /\ \A m \in DOMAIN dir \ {n, to} : dir'[m] = dir[m]
        <5>1. DirInv /\ n \in DOMAIN dir
          BY <1>3
        <5> QED BY ONLY <5>1, <4>1, Renamed
      <4>3. dir'[to].cfg = Absent
        BY <1>3, <4>2, RetoldOK DEF DirInv, Unconfigured
      <4>4. \A m \in Configured : m \in DOMAIN dir \ {n, to}
        BY <1>3, <4>1 DEF Configured, Unconfigured
      <4> QED BY <1>3, <2>1, <4>1, <4>2, <4>3, <4>4 DEF Configured, Unconfigured
    <3>2. CASE ~renames
      <4>1. dir' = dir
        BY <1>r, <1>5, <3>2
      <4> QED BY <1>3, <2>1, <4>1, DirKept DEF Configured, Unconfigured
    <3> QED BY <3>1, <3>2
  <2>3. TypeOK' /\ PhaseInv' /\ PoolInv' /\ CoverInv'
    <3>1. left' \subseteq DOMAIN dir'
      BY <2>2 DEF Unconfigured
    <3> QED BY <1>1, <1>t, <2>1, <2>2, <3>1, PatchStep DEF Patching
  <2>4. PatchInv'
    BY <1>1, <2>1, <2>2 DEF PatchInv, Patching
  <2> QED BY <2>2, <2>3, <2>4
<1> QED BY <1>4, <1>5

\* A session is given the name that its config has.
LEMMA RecoverKept ==
  ASSUME BatchAssumption, BatchInv, Recover
  PROVE  BatchInv'
<1> USE DEF BatchInv
<1>1. /\ pc = "recover" /\ cmd = "patch" /\ arg.apply
      /\ UNCHANGED <<kind, file, runCfg, scores, dataset, cmd, arg, scored, failed, commands,
                     faults>>
      /\ UNCHANGED pool
  BY DEF Recover, history, PhaseInv, Patching
<1>t. file' \in [AllFiles -> Text] /\ runCfg' \in Text /\ faults' \in 0..MaxFaults
  BY <1>1 DEF TypeOK
<1>2. PICK n \in left :
        LET id == SessionId(n[1], dir[n].cfg)
            taken == id # n /\ id \in DOMAIN dir IN
        \/ taken /\ Abort /\ dir' = [dir EXCEPT ![n] = Retold(@, id)]
        \/ /\ taken => dir[id] = Empty
           /\ dir' = IF id = n THEN dir ELSE Rename(n, id, id)
           /\ left' = left \ {n} /\ UNCHANGED <<pc, todo>>
  BY DEF Recover
<1> DEFINE id == SessionId(n[1], dir[n].cfg)
           taken == id # n /\ id \in DOMAIN dir
<1>3. \/ Abort /\ dir' = [dir EXCEPT ![n] = Retold(@, id)]
      \/ /\ taken => dir[id] = Empty
         /\ dir' = IF id = n THEN dir ELSE Rename(n, id, id)
         /\ left' = left \ {n} /\ UNCHANGED <<pc, todo>>
  BY <1>2
<1>4. /\ n \in Configured /\ n \in DOMAIN dir /\ left \subseteq Configured
      /\ id[1] = n[1]
  BY <1>1 DEF PatchInv, Configured, SessionId
<1>5. CASE Abort /\ dir' = [dir EXCEPT ![n] = Retold(@, id)]
  <2>1. pc' = "raised" /\ todo' = <<>> /\ left' = {} /\ DirInv'
    BY <1>4, <1>5, Relabelled DEF Abort, Goto
  <2>2. TypeOK' /\ PhaseInv' /\ PoolInv' /\ CoverInv'
    BY <1>1, <1>t, <2>1, PatchStep DEF Patching
  <2>3. PatchInv'
    BY <2>1 DEF PatchInv, Patching
  <2> QED BY <2>1, <2>2, <2>3
<1>6. CASE /\ taken => dir[id] = Empty
           /\ dir' = IF id = n THEN dir ELSE Rename(n, id, id)
           /\ left' = left \ {n} /\ UNCHANGED <<pc, todo>>
  <2>1. /\ DirInv' /\ Configured' = (Configured \ {n}) \cup {id}
        /\ \A m \in Configured \ {n} : dir'[m] = dir[m] /\ m # id
        /\ id = SessionId(id[1], dir'[id].cfg)
        /\ id # n /\ dir'[id].res # "none" => dir'[id].sid = id
        /\ id = n => dir'[id] = dir[id]
    <3>1. CASE id = n
      <4>1. dir' = dir
        BY <1>6, <3>1
      <4> QED BY <1>4, <3>1, <4>1, DirKept DEF Configured
    <3>2. CASE id # n
      <4>1. dir' = Rename(n, id, id)
        BY <1>6, <3>2
      <4>2. id \in DOMAIN dir => dir[id].cfg = Absent
        BY <1>6, <3>2, EmptyOK
      <4>3. SessionId(id[1], dir[n].cfg) = id
        BY <1>4
      <4> HIDE DEF id
      <4>4. /\ DirInv' /\ DOMAIN dir' = (DOMAIN dir \ {n}) \cup {id}
            /\ dir'[id] = Retold(dir[n], id)
            /\ \A m \in DOMAIN dir \ {n, id} : dir'[m] = dir[m]
        BY <1>4, <4>1, Renamed
      <4>5. /\ dir'[id].cfg = dir[n].cfg
            /\ dir'[id].res # "none" => dir'[id].sid = id
        BY <1>4, <4>4, RetoldOK DEF DirInv
      <4>6. \A m \in Configured \ {n} : m \in DOMAIN dir \ {n, id}
        BY <4>2 DEF Configured
      <4>7. id \in Configured'
        BY <1>4, <4>4, <4>5 DEF Configured
      <4>8. \A m \in DOMAIN dir' : m # id => m \in DOMAIN dir \ {n, id} /\ dir'[m] = dir[m]
        BY <4>4
      <4>9. Configured' = (Configured \ {n}) \cup {id}
        BY <4>4, <4>6, <4>7, <4>8 DEF Configured
      <4> QED BY <3>2, <4>3, <4>4, <4>5, <4>6, <4>9
    <3> QED BY <3>1, <3>2
  <2> HIDE DEF id
  <2>2. left' = left \ {n} /\ UNCHANGED <<pc, todo>> /\ left' \subseteq Configured'
    BY <1>4, <1>6, <2>1
  <2>3. TypeOK' /\ PhaseInv' /\ PoolInv' /\ CoverInv'
    <3>1. left' \subseteq DOMAIN dir'
      BY <2>2 DEF Configured
    <3> QED BY <1>1, <1>t, <2>1, <2>2, <3>1, PatchStep DEF Patching
  <2>4. PatchInv'
    <3>1. \A m \in Configured' \ left' : m = SessionId(m[1], dir'[m].cfg)
      BY <1>1, <1>4, <2>1, <2>2 DEF PatchInv
    <3>2. arg.agreed =>
            \A m \in Configured' : dir'[m].res # "none" => dir'[m].sid = m
      BY <1>1, <1>4, <2>1 DEF PatchInv, Patching
    <3> QED BY <1>1, <2>2, <3>1, <3>2 DEF PatchInv, Patching
  <2> QED BY <2>1, <2>3, <2>4
<1> QED BY <1>3, <1>5, <1>6

-----------------------------------------------------------------------------
\* What a death leaves of the directories: at most one has lost its results.
LEMMA DeathLeaves ==
  ASSUME BatchInv, dir' \in {dir} \cup TornSessions \cup HalfRenamed
  PROVE  /\ DirInv' /\ DOMAIN dir' = DOMAIN dir
         /\ \E n : \A m \in DOMAIN dir : m # n => dir'[m].res = dir[m].res
<1> USE DEF BatchInv
<1>1. CASE dir' = dir
  BY <1>1, DirKept
<1>2. CASE dir' \in TornSessions
  <2>1. PICK n \in left : dir' = [dir EXCEPT ![n].cfg = Torn]
    BY <1>2 DEF TornSessions
  <2>2. n \in DOMAIN dir
    BY DEF TypeOK
  <2> DEFINE d == [dir[n] EXCEPT !.cfg = Torn]
  <2>3. Shaped(d) /\ d.res = dir[n].res
    BY <2>2, ConfigsOK, ConfigWritten DEF DirInv
  <2>4. dir' = [m \in DOMAIN dir |-> IF m = n THEN d ELSE dir[m]]
    BY <2>1 DEF DirInv
  <2> HIDE DEF d
  <2> QED BY <2>2, <2>3, <2>4, Replaced
<1>3. CASE dir' \in HalfRenamed
  <2>1. PICK n \in left : dir' \in DeathAt(n)
    BY <1>3 DEF HalfRenamed
  <2>2. n \in DOMAIN dir
    BY DEF TypeOK
  <2>3. PICK id : \/ dir' = dir
                  \/ dir' = [dir EXCEPT ![n] = Retold(@, id)]
                  \/ dir' = [dir EXCEPT ![n] = [@ EXCEPT !.res = "none", !.sid = <<>>]]
    BY <2>1 DEF DeathAt
  <2>4. CASE dir' = [dir EXCEPT ![n] = Retold(@, id)]
    BY <2>2, <2>4, Relabelled
  <2>5. CASE dir' = [dir EXCEPT ![n] = [@ EXCEPT !.res = "none", !.sid = <<>>]]
    <3> DEFINE d == [cfg |-> dir[n].cfg, res |-> "none", sid |-> <<>>]
    <3>1. Shaped(d)
      BY <2>2 DEF DirInv, Shaped
    <3>2. dir' = [dir EXCEPT ![n] = [dir[n] EXCEPT !.res = "none", !.sid = <<>>]]
      BY <2>5
    <3>3. [dir[n] EXCEPT !.res = "none", !.sid = <<>>] = d
      BY <2>2, ResultWritten DEF DirInv
    <3>4. dir = [m \in DOMAIN dir |-> dir[m]]
      BY DEF DirInv
    <3> HIDE DEF d
    <3>5. dir' = [m \in DOMAIN dir |-> IF m = n THEN d ELSE dir[m]]
      BY <3>2, <3>3, <3>4
    <3> QED BY <2>2, <3>1, <3>5, Replaced
  <2> QED BY <1>1, <2>3, <2>4, <2>5
<1> QED BY <1>1, <1>2, <1>3

\* A command dies.
LEMMA CrashKept ==
  ASSUME BatchAssumption, BatchInv, Crash
  PROVE  BatchInv'
<1> USE DEF BatchInv
<1>1. /\ pc \notin {"idle", "returned", "raised"}
      /\ pc' = "raised" /\ todo' = <<>> /\ left' = {}
      /\ queue' = <<>> /\ stage' = [i \in Items |-> "out"] /\ seen' = [i \in Items |-> ""]
      /\ holders' = {} /\ interrupted' = FALSE
      /\ UNCHANGED <<kind, scores, dataset, cmd, arg, scored, failed, commands>>
      /\ faults < MaxFaults /\ faults' = faults + 1
  BY DEF Crash, Abort, Goto, history
<1>2. DirInv' /\ DOMAIN dir' = DOMAIN dir
  BY DeathLeaves DEF Crash
<1>3. file' \in [AllFiles -> Text] /\ runCfg' \in Text
  <2>1. file \in [AllFiles -> Text] /\ runCfg \in Text /\ Torn \in Text
    BY ConfigsOK DEF TypeOK
  <2>2. runCfg' \in {runCfg, Torn}
    BY DEF Crash, TornRun
  <2>3. file' = file \/ \E f : file' = [file EXCEPT ![f] = Torn]
    BY DEF Crash, TornFiles
  <2> QED BY <2>1, <2>2, <2>3
<1>4. Quiet'
  BY <1>1 DEF Quiet
<1>5. PoolInv'
  BY <1>4, QuietKept
<1>6. TypeOK'
  <2>1. TypeItems' /\ TypeHolders'
    BY <1>1 DEF TypeItems, TypeHolders
  <2>2. TypeDisk'
    BY <1>1, <1>2, <1>3 DEF TypeOK, TypeDisk
  <2>3. faults' \in 0..MaxFaults
    BY <1>1, FaultsKept DEF TypeOK
  <2>4. TypeCmd'
    BY <1>1, <2>3, NoFiles DEF TypeOK, TypeCmd
  <2> QED BY <1>2, <2>1, <2>2, <2>4, TypeParts
<1>7. PhaseInv'
  BY <1>1, NoFiles DEF PhaseInv, Patching
<1>8. CoverInv' /\ PatchInv'
  BY <1>1 DEF CoverInv, PatchInv, Patching
<1> QED BY <1>2, <1>5, <1>6, <1>7, <1>8

-----------------------------------------------------------------------------
\* What earlier runs left.
LEMMA InitHolds == BatchAssumption /\ Init => BatchInv
<1> SUFFICES ASSUME BatchAssumption, Init PROVE BatchInv
  OBVIOUS
<1>1. DirInv
  <2>1. Original \in Content
    BY DEF Original, Content, Values
  <2>2. ASSUME NEW n \in OldNames
        PROVE  [temp |-> n[2], model |-> n[3], kw |-> n[3]] \in Text
    <3>1. n[2] \in Values /\ n[3] \in Values
      BY DEF OldNames, Values
    <3> QED BY <3>1 DEF Text, Content
  <2>3. ASSUME NEW n \in OldNames, NEW d \in OldRecords(n) PROVE Shaped(d)
    <3>1. PICK c \in {Absent, [temp |-> n[2], model |-> n[3], kw |-> n[3]]},
               o \in {"ok", "error"} : d = [cfg |-> c, res |-> o, sid |-> n]
      BY DEF OldRecords
    <3>2. c \in Text
      BY <2>2, ConfigsOK
    <3> QED BY <3>1, <3>2 DEF Shaped
  <2>4. IsFiniteSet(OldNames) /\ IsFiniteSet(OldNames \cup {Aside})
    <3>1. IsFiniteSet({<<TaskOf, 1, 1>>}) /\ IsFiniteSet({<<TaskOf, 1, 1>>} \cup {<<TaskOf, 2, 1>>})
      BY FS_EmptySet, FS_AddElement, FS_Singleton
    <3>2. OldNames = {<<TaskOf, 1, 1>>} \cup {<<TaskOf, 2, 1>>}
      BY DEF OldNames
    <3>3. IsFiniteSet(OldNames)
      BY <3>1, <3>2
    <3> QED BY <3>3, FS_AddElement
  <2>5. CASE dir = LeftAside
    <3>1. DOMAIN dir = OldNames \cup {Aside} /\ dir = [n \in DOMAIN dir |-> dir[n]]
      BY <2>5 DEF LeftAside
    <3>2. ASSUME NEW n \in DOMAIN dir PROVE Shaped(dir[n])
      <4> DEFINE x == IF n = Aside THEN <<TaskOf, 2, 1>> ELSE n
      <4>1. dir[n] = [cfg |-> Absent, res |-> "ok", sid |-> x]
        BY <2>5, <3>1, <3>2 DEF LeftAside
      <4> HIDE DEF x
      <4> QED BY <4>1, ConfigsOK DEF Shaped
    <3> QED BY <2>4, <3>1, <3>2 DEF DirInv, Shaped
  <2>6. ASSUME NEW S \in SUBSET OldNames,
               dir \in {d \in [S -> UNION {OldRecords(n) : n \in S}] :
                           \A n \in S : d[n] \in OldRecords(n)}
        PROVE  DirInv
    <3>1. DOMAIN dir = S /\ dir = [n \in DOMAIN dir |-> dir[n]]
      BY <2>6
    <3>2. \A n \in S : dir[n] \in OldRecords(n)
      BY <2>6
    <3>3. IsFiniteSet(S)
      BY <2>4, FS_Subset
    <3> QED BY <2>3, <3>1, <3>2, <3>3 DEF DirInv, Shaped
  <2> QED BY <2>5, <2>6 DEF Init
<1>2. Quiet
  BY DEF Init, Quiet
<1>3. PoolInv
  <2>1. queue \in Seq(Items) /\ DOMAIN queue = {}
    <3>1. <<>> \in Seq(Items) /\ DOMAIN <<>> = {}
      OBVIOUS
    <3> QED BY <3>1 DEF Init
  <2> QED BY <1>2, <2>1 DEF Quiet, PoolInv, ItemInv, QueueInv
<1>4. TypeOK
  <2>1. Original \in Content /\ Loads(Original)
    BY DEF Original, Content, Values, Loads
  <2>2. Original \in Text /\ Absent \in Text /\ Normal(Original) \in Text
    BY <2>1, ConfigsOK DEF Text
  <2>3. /\ kind \in [AllFiles -> SUBSET Kind] /\ file \in [AllFiles -> Text]
        /\ runCfg \in Text
    BY <2>2 DEF Init, BatchAssumption
  <2>4. commands \in 0..MaxCommands /\ faults \in 0..MaxFaults /\ Len(todo) <= Len(Files)
    <3>1. MaxCommands \in Nat /\ MaxFaults \in Nat
      BY DEF BatchAssumption
    <3>2. commands = 0 /\ faults = 0 /\ todo = <<>>
      BY DEF Init
    <3> QED BY <3>1, <3>2, NoFiles
  <2>5. /\ scores.written \in BOOLEAN /\ dataset \subseteq {"mine", "other"}
        /\ left \subseteq DOMAIN dir /\ scored \in [AllFiles -> SUBSET DOMAIN dir]
        /\ cmd = "none" /\ pc = "idle"
    BY DEF Init
  <2>6. /\ stage \in [Items -> {"out", "queued", "sampled", "running"}]
        /\ seen \in [Items -> {"", "running", "completed", "incomplete"}]
        /\ holders = {} /\ interrupted \in BOOLEAN
    BY DEF Init
  <2>7. \A n \in DOMAIN dir : dir[n].cfg \in Text /\ dir[n].res \in {"none", "ok", "error"}
    BY <1>1 DEF DirInv, Shaped
  <2> QED BY <2>3, <2>4, <2>5, <2>6, <2>7 DEF TypeOK
<1>5. PhaseInv
  <2>1. todo = <<>> /\ pc = "idle" /\ cmd = "none" /\ left = {}
    BY DEF Init
  <2> QED BY <2>1, NoFiles DEF PhaseInv, Patching
<1>6. CoverInv /\ PatchInv
  BY DEF Init, CoverInv, PatchInv
<1> QED BY <1>1, <1>3, <1>4, <1>5, <1>6 DEF BatchInv

\* No step changes anything.
LEMMA StutterKept ==
  ASSUME BatchInv, UNCHANGED vars PROVE BatchInv'
<1> USE DEF BatchInv
<1>1. UNCHANGED <<kind, file, runCfg, dir, scores, dataset, cmd, pc, todo, left, arg, queue,
                  stage, seen, holders, interrupted, scored, failed, commands, faults>>
  BY DEF vars
<1>2. DirInv'
  BY <1>1, DirKept
<1>3. \A x : Name(x)' = Name(x) /\ Done(x)' = Done(x)
  BY <1>1 DEF Name, Done
<1>4. TypeOK'
  BY <1>1, <1>3 DEF TypeOK
<1>5. PhaseInv'
  BY <1>1 DEF PhaseInv, Patching
<1>6. PoolInv'
  <2>1. QueueInv' /\ holders' \subseteq Items /\ (interrupted' => pc' = "pool")
    BY <1>1 DEF PoolInv, QueueInv
  <2>2. ASSUME NEW i \in Items PROVE ItemInv(i)'
    <3>1. ItemInv(i)
      BY DEF PoolInv
    <3>2. ASSUME NEW n, n = Name(i) PROVE n = Name(i)' /\ Done(n)' = Done(n)
      BY <1>1, <3>2 DEF Name, Done
    <3> QED BY <1>1, <3>1, <3>2 DEF ItemInv, Ahead
  <2> QED BY <2>1, <2>2 DEF PoolInv
<1>7. CoverInv'
  BY <1>1 DEF CoverInv, NobodyForgotten, TasksOf, IdsOf, Done, Ahead
<1>8. PatchInv'
  BY <1>1 DEF PatchInv, PatchedFound, Configured, Unconfigured, Patching
<1> QED BY <1>2, <1>4, <1>5, <1>6, <1>7, <1>8

\* Every step keeps the invariant.
LEMMA StepKept ==
  ASSUME BatchAssumption, BatchInv, [Next]_vars PROVE BatchInv'
<1>1. CASE Command
  BY <1>1, CommandKept
<1>2. CASE Turns
  BY <1>2, TurnsKept
<1>3. CASE PlanConfig \/ ExecuteConfig \/ Sample \/ Join \/ Score \/ ScoreFails \/ Prepare
  BY <1>3, PlanConfigKept, ExecuteConfigKept, SampleKept, JoinKept, ScoreKept, ScoreFailsKept,
     PrepareKept
<1>4. CASE PatchFile \/ PatchRunConfig \/ PatchSession \/ RenameLegacy \/ Recover
  BY <1>4, PatchFileKept, PatchRunConfigKept, PatchSessionKept, RenameLegacyKept, RecoverKept
<1>5. ASSUME NEW i \in Items, Work(i) PROVE BatchInv'
  BY <1>5, SkipKept, ClaimKept, FinishKept DEF Work
<1>6. CASE Interrupt \/ Crash
  BY <1>6, InterruptKept, CrashKept
<1>7. CASE UNCHANGED vars
  BY <1>7, StutterKept
<1> QED BY <1>1, <1>2, <1>3, <1>4, <1>5, <1>6, <1>7 DEF Next, Proceed, Turns

\* The invariant is one.
LEMMA BatchInvariant == Spec => []BatchInv
<1>1. Init => BatchInv
  BY InitHolds, BatchAssumption
<1>2. BatchInv /\ [Next]_vars => BatchInv'
  BY StepKept, BatchAssumption
<1> QED BY <1>1, <1>2, PTL DEF Spec

\* An evaluation that returns has scored or reported each session of each
\* file, and a patch that was applied without an error has left each under the
\* name by which the next evaluation looks for it.
THEOREM BatchIsSafe == Spec => []BatchSafe
<1>1. BatchInv => BatchSafe
  <2> SUFFICES ASSUME BatchInv PROVE BatchSafe
    OBVIOUS
  <2>1. TypeOK
    BY DEF BatchInv
  <2>2. NobodyForgotten
    <3>1. CASE cmd = "evaluate" /\ pc = "returned"
      BY <3>1 DEF BatchInv, CoverInv
    <3>2. CASE ~(cmd = "evaluate" /\ pc = "returned")
      BY <3>2 DEF NobodyForgotten
    <3> QED BY <3>1, <3>2
  <2>3. PatchedFound
    <3>1. CASE cmd = "patch" /\ pc = "returned"
      BY <3>1 DEF BatchInv, PatchInv
    <3>2. CASE ~(cmd = "patch" /\ pc = "returned")
      BY <3>2 DEF PatchedFound
    <3> QED BY <3>1, <3>2
  <2> QED BY <2>1, <2>2, <2>3 DEF BatchSafe
<1> QED BY <1>1, BatchInvariant, PTL

-----------------------------------------------------------------------------
\* What a step of a patch loses is told by the faults.
LosesNothing == Cardinality(Results') + (faults' - faults) >= Cardinality(Results)

\* The finished sessions are finitely many.
LEMMA ResultsFinite ==
  ASSUME DirInv
  PROVE  IsFiniteSet(Results) /\ Cardinality(Results) \in Nat
<1>1. Results \subseteq DOMAIN dir
  BY DEF Results
<1>2. IsFiniteSet(Results)
  BY <1>1, FS_Subset DEF DirInv
<1> QED BY <1>2, FS_CardinalityType

\* Nothing is lost where the sessions finished are as many.
LEMMA AsMany ==
  ASSUME TypeOK, DirInv, faults' = faults, Cardinality(Results') = Cardinality(Results)
  PROVE  LosesNothing
<1>1. faults \in Nat
  <2>1. faults \in 0..MaxFaults /\ MaxFaults \in Nat
    BY BatchAssumption DEF TypeOK, BatchAssumption
  <2> QED BY <2>1
<1>2. Cardinality(Results) \in Nat
  BY ResultsFinite
<1> QED BY <1>1, <1>2 DEF LosesNothing

\* Nor where a directory takes a name no finished session has.
LEMMA RenamedAsMany ==
  ASSUME DirInv, NEW n \in DOMAIN dir, NEW to, NEW s, dir' = Rename(n, to, s),
         to \notin Results, to # n
  PROVE  Cardinality(Results') = Cardinality(Results)
<1>1. /\ DOMAIN dir' = (DOMAIN dir \ {n}) \cup {to}
      /\ dir'[to] = Retold(dir[n], s)
      /\ \A m \in DOMAIN dir \ {n, to} : dir'[m] = dir[m]
  BY Renamed
<1>2. dir'[to].res = dir[n].res
  BY <1>1, RetoldOK DEF DirInv
<1>3. CASE n \in Results
  <2>1. Results' = (Results \ {n}) \cup {to}
    BY <1>1, <1>2, <1>3 DEF Results
  <2>2. /\ IsFiniteSet(Results \ {n})
        /\ Cardinality(Results \ {n}) = Cardinality(Results) - 1
    BY <1>3, ResultsFinite, FS_RemoveElement
  <2>3. Cardinality((Results \ {n}) \cup {to}) = Cardinality(Results \ {n}) + 1
    BY <2>2, FS_AddElement
  <2>4. Cardinality(Results) \in Nat
    BY ResultsFinite
  <2> QED BY <2>1, <2>2, <2>3, <2>4
<1>4. CASE n \notin Results
  <2>1. Results' = Results
    BY <1>1, <1>2, <1>4 DEF Results
  <2> QED BY <2>1
<1> QED BY <1>3, <1>4

\* Renaming sessions without a config.
LEMMA RenameLegacyLoses ==
  ASSUME BatchInv, RenameLegacy PROVE LosesNothing
<1> USE DEF BatchInv
<1>1. faults' = faults
  BY DEF RenameLegacy
<1>2. PICK n \in left :
        LET id == SessionId(n[1], RunConfigNow)
            to == IF id \in DOMAIN dir THEN DupName(id, n) ELSE id
            renames == Apply /\ dir[n].res # "none" /\ id # n IN
        IF renames /\ to \in DOMAIN dir
          THEN Abort /\ dir' = [dir EXCEPT ![n] = Retold(@, id)]
          ELSE /\ dir' = IF renames THEN Rename(n, to, id) ELSE dir
               /\ left' = left \ {n} /\ UNCHANGED <<pc, todo>>
  BY DEF RenameLegacy
<1> DEFINE id == SessionId(n[1], RunConfigNow)
           to == IF id \in DOMAIN dir THEN DupName(id, n) ELSE id
           renames == Apply /\ dir[n].res # "none" /\ id # n
<1>r. IF renames /\ to \in DOMAIN dir
        THEN Abort /\ dir' = [dir EXCEPT ![n] = Retold(@, id)]
        ELSE /\ dir' = IF renames THEN Rename(n, to, id) ELSE dir
             /\ left' = left \ {n} /\ UNCHANGED <<pc, todo>>
  BY <1>2
<1> HIDE DEF id, to, renames
<1>3. n \in DOMAIN dir
  BY DEF TypeOK
<1>4. CASE renames /\ to \in DOMAIN dir
  <2>1. Results' = Results
    BY <1>3, <1>4, <1>r, Relabelled DEF Results
  <2> QED BY <1>1, <2>1, AsMany
<1>5. CASE renames /\ to \notin DOMAIN dir
  <2>1. dir' = Rename(n, to, id) /\ to \notin Results /\ to # n
    BY <1>3, <1>5, <1>r DEF Results
  <2> QED BY <1>1, <1>3, <2>1, RenamedAsMany, AsMany
<1>6. CASE ~renames
  <2>1. Results' = Results
    BY <1>6, <1>r DEF Results
  <2> QED BY <1>1, <2>1, AsMany
<1> QED BY <1>4, <1>5, <1>6

\* Renaming the others.
LEMMA RecoverLoses ==
  ASSUME BatchInv, Recover PROVE LosesNothing
<1> USE DEF BatchInv
<1>1. faults' = faults
  BY DEF Recover
<1>2. PICK n \in left :
        LET id == SessionId(n[1], dir[n].cfg)
            taken == id # n /\ id \in DOMAIN dir IN
        \/ taken /\ Abort /\ dir' = [dir EXCEPT ![n] = Retold(@, id)]
        \/ /\ taken => dir[id] = Empty
           /\ dir' = IF id = n THEN dir ELSE Rename(n, id, id)
           /\ left' = left \ {n} /\ UNCHANGED <<pc, todo>>
  BY DEF Recover
<1> DEFINE id == SessionId(n[1], dir[n].cfg)
<1>3. \/ dir' = [dir EXCEPT ![n] = Retold(@, id)]
      \/ id = n /\ dir' = dir
      \/ /\ id # n /\ dir' = Rename(n, id, id)
         /\ id \in DOMAIN dir => dir[id] = Empty
  BY <1>2
<1> HIDE DEF id
<1>4. n \in DOMAIN dir
  BY DEF TypeOK
<1>5. CASE dir' = [dir EXCEPT ![n] = Retold(@, id)]
  <2>1. Results' = Results
    BY <1>4, <1>5, Relabelled DEF Results
  <2> QED BY <1>1, <2>1, AsMany
<1>6. CASE dir' = dir
  <2>1. Results' = Results
    BY <1>6 DEF Results
  <2> QED BY <1>1, <2>1, AsMany
<1>7. CASE /\ id # n /\ dir' = Rename(n, id, id)
           /\ id \in DOMAIN dir => dir[id] = Empty
  <2>1. id \notin Results
    BY <1>7, EmptyOK DEF Results
  <2> QED BY <1>1, <1>4, <1>7, <2>1, RenamedAsMany, AsMany
<1> QED BY <1>3, <1>5, <1>6, <1>7

\* A death.
LEMMA CrashLoses ==
  ASSUME BatchInv, Crash PROVE LosesNothing
<1> USE DEF BatchInv
<1>1. faults \in Nat /\ faults' = faults + 1
  <2>1. faults \in 0..MaxFaults /\ MaxFaults \in Nat
    BY BatchAssumption DEF TypeOK, BatchAssumption
  <2>2. faults' = faults + 1
    BY DEF Crash
  <2> QED BY <2>1, <2>2
<1>2. /\ DirInv' /\ DOMAIN dir' = DOMAIN dir
      /\ \E n : \A m \in DOMAIN dir : m # n => dir'[m].res = dir[m].res
  BY DeathLeaves DEF Crash
<1>3. PICK n : \A m \in DOMAIN dir : m # n => dir'[m].res = dir[m].res
  BY <1>2
<1>4. Results \ {n} \subseteq Results'
  BY <1>2, <1>3 DEF Results
<1>5. /\ IsFiniteSet(Results) /\ Cardinality(Results) \in Nat
      /\ IsFiniteSet(Results') /\ Cardinality(Results') \in Nat
  <2>1. IsFiniteSet(Results) /\ Cardinality(Results) \in Nat
    BY ResultsFinite
  <2>2. Results' \subseteq DOMAIN dir'
    BY DEF Results
  <2>3. IsFiniteSet(Results')
    BY <1>2, <2>2, FS_Subset DEF DirInv
  <2> QED BY <2>1, <2>3, FS_CardinalityType
<1>6. Cardinality(Results \ {n}) \in Nat
      /\ Cardinality(Results \ {n}) >= Cardinality(Results) - 1
  <2>1. CASE n \in Results
    <3>1. Cardinality(Results \ {n}) = Cardinality(Results) - 1
      BY <1>5, <2>1, FS_RemoveElement
    <3>2. IsFiniteSet(Results \ {n})
      BY <1>5, FS_RemoveElement
    <3>3. Cardinality(Results \ {n}) \in Nat
      BY <3>2, FS_CardinalityType
    <3> QED BY <1>5, <3>1, <3>3
  <2>2. CASE n \notin Results
    <3>1. Results \ {n} = Results
      BY <2>2
    <3> QED BY <1>5, <3>1
  <2> QED BY <2>1, <2>2
<1>7. Cardinality(Results \ {n}) <= Cardinality(Results')
  BY <1>4, <1>5, FS_Subset
<1> QED BY <1>1, <1>5, <1>6, <1>7 DEF LosesNothing

\* No step of a patch loses a finished session, whatever the names collide
\* with; a patch that dies loses at most the one it is writing.
THEOREM PatchKeepsResults == Spec => PatchLosesNothing
<1>1. ASSUME BatchInv, Next, cmd = "patch", cmd' = "patch" PROVE LosesNothing
  <2>1. CASE UNCHANGED <<dir, faults>>
    <3>1. Results' = Results
      BY <2>1 DEF Results
    <3> QED BY <1>1, <2>1, <3>1, AsMany DEF BatchInv
  <2>2. CASE Command
    <3>1. UNCHANGED <<dir, faults>>
      BY <2>2 DEF Command, StartEvaluate, StartExecute, StartAggregate, StartPrepare, StartPatch,
                  Publish, disk
    <3> QED BY <2>1, <3>1
  <2>3. CASE PatchFile \/ PatchRunConfig \/ Turns
    <3>1. UNCHANGED <<dir, faults>>
      BY <2>3 DEF PatchFile, PatchRunConfig, Turns, SubmitAll, ExecuteEnds, ScoreEnds,
                  PrepareEnds, PatchFilesEnd, PatchSessionsEnd, RenameLegacyEnd, RecoverEnds, disk
    <3> QED BY <2>1, <3>1
  <2>4. CASE PatchSession
    <3>1. PICK n \in left :
            IF dir[n].cfg = Torn \/ ~Loads(Patched(dir[n].cfg)) THEN Abort /\ UNCHANGED dir
            ELSE /\ dir' = IF Apply THEN [dir EXCEPT ![n].cfg = Patched(dir[n].cfg)] ELSE dir
                 /\ left' = left \ {n} /\ UNCHANGED <<pc, todo>>
      BY <2>4 DEF PatchSession
    <3> DEFINE c == Patched(dir[n].cfg)
               d == [dir[n] EXCEPT !.cfg = c]
    <3>2. dir' = dir \/ dir' = [dir EXCEPT ![n] = d]
      BY <3>1
    <3>3. d.res = dir[n].res /\ n \in DOMAIN dir
      <4>1. n \in DOMAIN dir /\ Shaped(dir[n])
        BY <1>1 DEF BatchInv, TypeOK, DirInv
      <4> HIDE DEF c
      <4> QED BY <4>1 DEF Shaped
    <3> HIDE DEF d
    <3>4. Results' = Results
      BY <3>2, <3>3 DEF Results
    <3>5. faults' = faults
      BY <2>4 DEF PatchSession
    <3> QED BY <1>1, <3>4, <3>5, AsMany DEF BatchInv
  <2>5. CASE RenameLegacy \/ Recover \/ Crash
    BY <1>1, <2>5, RenameLegacyLoses, RecoverLoses, CrashLoses
  <2>6. pc \notin {"pool", "plan", "score"}
    BY <1>1 DEF BatchInv, PhaseInv
  <2> QED BY <1>1, <2>2, <2>3, <2>4, <2>5, <2>6
         DEF Next, Proceed, Turns, Work, Skip, Claim, Finish, Interrupt, PlanConfig,
             ExecuteConfig, Sample, Join, Score, ScoreFails, Prepare
<1>2. BatchInv /\ [Next]_vars =>
        [cmd = "patch" /\ cmd' = "patch" => LosesNothing]_vars
  BY <1>1
<1>3. Spec => [][cmd = "patch" /\ cmd' = "patch" => LosesNothing]_vars
  BY <1>2, BatchInvariant, PTL DEF Spec
<1> QED BY <1>3 DEF PatchLosesNothing, LosesNothing
=============================================================================
