---------------------------- MODULE TracingProofs ----------------------------
(***************************************************************************)
(* The proofs about Tracing, for every set of sessions and runs, whatever  *)
(* runners their services have, and every limit: that the file of a        *)
(* session whose end was told holds its spans, each once per exporter of   *)
(* its run, and that what is traced of an LLM call is where it may be.     *)
(* The files are counted in, span by span; the calls are followed from the *)
(* contexts their callbacks may find to the places they leave a trace in.  *)
(***************************************************************************)
EXTENDS Tracing, FiniteSetTheorems, SequenceTheorems, TLAPS

-----------------------------------------------------------------------------
(***************************************************************************)
(* The inductive invariant.  First, what a session's file holds.           *)
(***************************************************************************)
\* The places of a session's thread before its root span has ended, and
\* those after.
Entering == {"idle", "benchmark", "agent"}
Before == {"benchmark", "agent", "start", "loop", "step", "record", "finalize"}
After == {"sortRead", "sortWrite", "close", "closeAgent", "done"}

\* The spans that are open go with the place of the thread.
OpenInv(s) ==
  /\ pc[s] = "idle" \/ pc[s] \in After => stack[s] = <<>>
  /\ pc[s] \in {"benchmark", "agent", "start", "loop"} => stack[s] = <<Root>>
  /\ pc[s] = "step" => stack[s] = <<Root, Tool(steps[s])>>
  /\ pc[s] \in {"record", "finalize"} =>
       stack[s] = <<Root>> \/ stack[s] = <<Root, Tool(steps[s])>>
  /\ pc[s] \in {"loop", "step"} => steps[s] # 0
  /\ pc[s] \in Entering \cup {"start"} => steps[s] = 0
  /\ stack[s] = <<Root, Tool(steps[s])>> =>
       steps[s] # 0 /\ steps[s] <= MaxSteps

\* What a file of s with n exporters holds while the root is open, and
\* afterwards.
OpenSpans(s, f, n) ==
  /\ Times(Root, f) = 0
  /\ \A k \in 0..MaxSteps : Times(Tool(k), f) = IF k < steps[s] THEN n ELSE 0
EndedSpans(s, f, n) ==
  /\ Times(Root, f) = n
  /\ \A k \in 0..MaxSteps : /\ Times(Tool(k), f) \in {0, n}
                            /\ k < steps[s] => Times(Tool(k), f) = n

\* What a session's file holds goes with the place of its thread.
FileInv(s) ==
  LET own == RunOf[s]
  IN /\ \A r \in Runs \ {own} : file[r][s] = <<>>
     /\ pc[s] \in Before \cup {"idle"} =>
          OpenSpans(s, file[own][s], exporters[own])
     /\ pc[s] \in After => EndedSpans(s, file[own][s], exporters[own])
     /\ pc[s] = "sortWrite" => EndedSpans(s, sorting[s], exporters[own])

-----------------------------------------------------------------------------
(***************************************************************************)
(* Then, what is traced of the LLM calls.                                  *)
(***************************************************************************)
\* The contexts a session's thread and its services are given.
ContextInv(s) ==
  /\ pc[s] \notin {"idle", "left", "done"} => context[s] = s
  /\ pc[s] \in Entering => calls[s] = <<>>
  /\ pc[s] = "agent" /\ runner["benchmark"] = "child" =>
       runtime[s]["benchmark"] = s
  /\ pc[s] \notin Entering \cup {"left"} \/ calls[s] # <<>> =>
       \A role \in Roles : runner[role] = "child" => runtime[s][role] = s

\* The contexts a callback of call c of session s may find.
Found(s, c) == IF Carries(c) THEN {s} ELSE {s, None} \cup wrote

\* The session of a call, and whether its two reads of the context agree.
ReadInv(s) ==
  \A i \in DOMAIN calls[s] :
    LET c == calls[s][i]
    IN /\ c.stage \notin {"row", "lost"} => c.row \in Found(s, c)
       /\ c.stage = "lost" => c.row \in Found(s, c) \cup {None}
       /\ c.stage = "row" => c.row = None
       /\ c.stage = "parent" => c.seen \in Found(s, c)
       /\ c.stage = "parent" /\ ~c.moved => c.seen = ContextOf(s, c)

\* A span of an LLM call in a file of session t.
SpanOK(t, x) ==
  x.kind = "llm" =>
    /\ x.of \in Sessions /\ x.n \in DOMAIN calls[x.of]
    /\ t \in Found(x.of, calls[x.of][x.n])
    /\ x.parent # t => calls[x.of][x.n].moved

\* A timing of an LLM call kept for session t.
TimingOK(t, p) == /\ p[1] \in Sessions /\ p[2] \in DOMAIN calls[p[1]]
                  /\ t \in Found(p[1], calls[p[1]][p[2]])

\* Every trace of a call is in a session where it may be.
TraceInv(t) ==
  /\ \A r \in Runs : \A k \in DOMAIN file[r][t] : SpanOK(t, file[r][t][k])
  /\ \A k \in DOMAIN sorting[t] : SpanOK(t, sorting[t][k])
  /\ \A p \in timings[t] \cup counted[t] : TimingOK(t, p)

\* The inductive invariant.
SpansInv == \A s \in Sessions : OpenInv(s) /\ FileInv(s)
LLMInv == /\ \A s \in Sessions : ContextInv(s) /\ ReadInv(s) /\ TraceInv(s)
          /\ fallback \in wrote \cup {None}
TracingInv == TypeOK /\ SpansInv /\ LLMInv
-----------------------------------------------------------------------------
(***************************************************************************)
(* Exporting a span.                                                       *)
(***************************************************************************)
\* The spans a file may hold.
Spans == OwnSpan \cup LlmSpan

\* What is appended to a file: copies of one span.
LEMMA RepeatOK ==
  ASSUME NEW y \in Spans, NEW n \in Nat
  PROVE  /\ Repeat(y, n) \in Seq(Spans) /\ Len(Repeat(y, n)) = n
         /\ \A i \in 1..n : Repeat(y, n)[i] = y
<1>1. Repeat(y, n) \in Seq(Spans)
  BY IsASeq DEF Repeat
<1> QED BY <1>1, LenProperties DEF Repeat

\* What a file is that n copies of a span are appended to.
Extended(g, f, y, n) ==
  /\ g \in Seq(Spans) /\ DOMAIN g = 1..(Len(f) + n)
  /\ \A k \in 1..Len(f) : g[k] = f[k]
  /\ \A k \in (Len(f) + 1)..(Len(f) + n) : g[k] = y

\* So it is.
LEMMA Appended ==
  ASSUME NEW f \in Seq(Spans), NEW y \in Spans, NEW n \in Nat
  PROVE  Extended(f \o Repeat(y, n), f, y, n)
<1> DEFINE R == Repeat(y, n)
           g == f \o R
<1>1. R \in Seq(Spans) /\ Len(R) = n /\ \A i \in 1..n : R[i] = y
  BY RepeatOK
<1>2. g = f \o R
  OBVIOUS
<1> HIDE DEF R, g
<1>3. /\ g \in Seq(Spans) /\ Len(g) = Len(f) + n
      /\ \A k \in 1..Len(g) : g[k] = IF k <= Len(f) THEN f[k]
                                     ELSE R[k - Len(f)]
  <2>1. /\ f \o R \in Seq(Spans) /\ Len(f \o R) = Len(f) + Len(R)
        /\ \A k \in 1..(Len(f) + Len(R)) :
             (f \o R)[k] = IF k <= Len(f) THEN f[k] ELSE R[k - Len(f)]
    BY <1>1, ConcatProperties
  <2>2. /\ g \in Seq(Spans) /\ Len(g) = Len(f) + Len(R)
        /\ \A k \in 1..(Len(f) + Len(R)) :
             g[k] = IF k <= Len(f) THEN f[k] ELSE R[k - Len(f)]
    BY <1>2, <2>1
  <2> QED BY <1>1, <2>2
<1>4. Len(f) \in Nat /\ DOMAIN g = 1..Len(g)
  BY <1>3, LenProperties
<1>5. ASSUME NEW k \in (Len(f) + 1)..(Len(f) + n)
      PROVE  g[k] = y
  <2>1. k \in 1..Len(g) /\ ~(k <= Len(f)) /\ k - Len(f) \in 1..n
    BY <1>3, <1>4
  <2> QED BY <1>1, <1>3, <2>1
<1>6. ASSUME NEW k \in 1..Len(f)
      PROVE  g[k] = f[k]
  <2>1. k \in 1..Len(g) /\ k <= Len(f)
    BY <1>3, <1>4
  <2> QED BY <1>3, <2>1
<1>7. g \in Seq(Spans) /\ DOMAIN g = 1..(Len(f) + n)
  BY <1>3, <1>4
<1> QED BY <1>5, <1>6, <1>7 DEF R, g, Extended

\* How often a span is in that file.
LEMMA TimesAppended ==
  ASSUME NEW f \in Seq(Spans), NEW y \in Spans, NEW n \in Nat, NEW x
  PROVE  /\ Times(x, f) \in Nat
         /\ Times(x, f \o Repeat(y, n))
              = Times(x, f) + IF x = y THEN n ELSE 0
<1> DEFINE g == f \o Repeat(y, n)
           m == Len(f)
           F == {k \in DOMAIN f : f[k] = x}
           G == {k \in DOMAIN g : g[k] = x}
           N == IF x = y THEN (m + 1)..(m + n) ELSE {}
<1>1. /\ m \in Nat /\ DOMAIN f = 1..m /\ DOMAIN g = 1..(m + n)
      /\ \A k \in 1..m : g[k] = f[k]
      /\ \A k \in (m + 1)..(m + n) : g[k] = y
  <2>1. Len(f) \in Nat /\ DOMAIN f = 1..Len(f)
    BY LenProperties
  <2>2. Extended(g, f, y, n)
    BY Appended
  <2> HIDE DEF g
  <2> QED BY <2>1, <2>2 DEF Extended
<1> HIDE DEF g, m
<1>2. IsFiniteSet(F) /\ Cardinality(F) \in Nat
  <2>1. IsFiniteSet(1..m)
    BY <1>1, FS_Interval
  <2>2. F \in SUBSET (1..m)
    BY <1>1
  <2> QED BY <2>1, <2>2, FS_Subset, FS_CardinalityType
<1>3. IsFiniteSet(N) /\ Cardinality(N) = IF x = y THEN n ELSE 0
  <2>1. m + 1 \in Int /\ m + n \in Int
    BY <1>1
  <2>2. /\ IsFiniteSet((m + 1)..(m + n))
        /\ Cardinality((m + 1)..(m + n))
             = IF m + 1 > m + n THEN 0 ELSE (m + n) - (m + 1) + 1
    BY ONLY <2>1, FS_Interval
  <2>3. Cardinality((m + 1)..(m + n)) = n
    BY <1>1, <2>2
  <2> QED BY <2>2, <2>3, FS_EmptySet
<1>4. F \cap N = {} /\ G = F \cup N
  BY <1>1
<1>5. Cardinality(G) = Cardinality(F) + Cardinality(N)
  <2>1. Cardinality(G) = Cardinality(F) + Cardinality(N)
                         - Cardinality(F \cap N)
    BY <1>2, <1>3, <1>4, FS_Union
  <2> HIDE DEF F, G, N
  <2>2. Cardinality(F \cap N) = 0
    BY <1>4, FS_EmptySet
  <2>3. Cardinality(N) \in Nat
    BY <1>3
  <2> QED BY <1>2, <2>1, <2>2, <2>3
<1> QED BY <1>2, <1>3, <1>5 DEF Times, g

\* The empty file holds no span.
LEMMA TimesEmpty == \A x : Times(x, <<>>) = 0
<1> SUFFICES ASSUME NEW x PROVE Times(x, <<>>) = 0
  OBVIOUS
<1>1. {k \in DOMAIN <<>> : <<>>[k] = x} = {}
  OBVIOUS
<1> QED BY <1>1, FS_EmptySet DEF Times

\* Exporting a span of session s changes its own run's file only.
ExportedAs(f, s, y, b) ==
  LET g == Exported(f, s, y, b)
      n == IF b THEN 1 ELSE exporters[RunOf[s]]
  IN /\ g \in [Runs -> [Sessions -> Seq(Spans)]]
     /\ \A r \in Runs : \A t \in Sessions :
          t # s \/ r # RunOf[s] => g[r][t] = f[r][t]
     /\ g[RunOf[s]][s] = f[RunOf[s]][s] \o Repeat(y, n)

\* So it does.
LEMMA ExportOK ==
  ASSUME TracingAssumption, TypeOK, NEW s \in Sessions, NEW y \in Spans,
         NEW f \in [Runs -> [Sessions -> Seq(Spans)]], NEW b
  PROVE  ExportedAs(f, s, y, b)
<1> DEFINE n == IF b THEN 1 ELSE exporters[RunOf[s]]
           g == Exported(f, s, y, b)
<1>1. n \in Nat /\ RunOf[s] \in Runs
  BY DEF TracingAssumption, TypeOK
<1>2. ASSUME NEW r \in Runs
      PROVE  Copies(r, s, b) = IF r = RunOf[s] THEN n ELSE 0
  BY DEF Copies, RoutedTo
<1>3. ASSUME NEW r \in Runs
      PROVE  /\ g[r] = [f[r] EXCEPT ![s] =
                          f[r][s] \o Repeat(y, Copies(r, s, b))]
             /\ f[r] \in [Sessions -> Seq(Spans)]
  BY DEF Exported
<1>4. ASSUME NEW r \in Runs
      PROVE  /\ g[r][s] \in Seq(Spans)
             /\ r # RunOf[s] => g[r][s] = f[r][s]
             /\ r = RunOf[s] => g[r][s] = f[r][s] \o Repeat(y, n)
  <2>1. /\ g[r][s] = f[r][s] \o Repeat(y, Copies(r, s, b))
        /\ f[r][s] \in Seq(Spans)
    BY <1>3
  <2>2. Repeat(y, Copies(r, s, b)) \in Seq(Spans)
    BY <1>1, <1>2, RepeatOK
  <2>3. Repeat(y, 0) = <<>>
    BY DEF Repeat
  <2> HIDE DEF g, n
  <2>4. g[r][s] \in Seq(Spans)
    BY <2>1, <2>2, ConcatProperties
  <2>5. f[r][s] \o <<>> = f[r][s]
    BY <2>1, ConcatEmptySeq
  <2> QED BY <2>1, <2>3, <2>4, <2>5, <1>2
<1>5. \A r \in Runs : \A t \in Sessions \ {s} : g[r][t] = f[r][t]
  <2> SUFFICES ASSUME NEW r \in Runs, NEW t \in Sessions \ {s}
               PROVE  g[r][t] = f[r][t]
    OBVIOUS
  <2>1. \E v : g[r] = [f[r] EXCEPT ![s] = v]
    BY <1>3
  <2>2. f[r] \in [Sessions -> Seq(Spans)]
    BY <1>3
  <2> HIDE DEF g
  <2> QED BY ONLY <2>1, <2>2, t \in Sessions \ {s}
<1>6. g \in [Runs -> [Sessions -> Seq(Spans)]]
  <2>1. ASSUME NEW r \in Runs
        PROVE  g[r] \in [Sessions -> Seq(Spans)]
    <3>1. f[r] \in [Sessions -> Seq(Spans)]
      BY <1>3
    <3>2. f[r][s] \o Repeat(y, Copies(r, s, b)) \in Seq(Spans)
      <4>1. g[r][s] = f[r][s] \o Repeat(y, Copies(r, s, b))
        BY <1>3
      <4> QED BY <4>1, <1>4
    <3>3. g[r] = [f[r] EXCEPT ![s] = f[r][s] \o Repeat(y, Copies(r, s, b))]
      BY <1>3
    <3> HIDE DEF g
    <3> QED BY <3>1, <3>2, <3>3
  <2>2. g = [r \in Runs |-> g[r]]
    BY DEF Exported
  <2> HIDE DEF g
  <2> QED BY <2>1, <2>2
<1> HIDE DEF g
<1> QED BY <1>1, <1>4, <1>5, <1>6 DEF g, ExportedAs

\* How often a span is in the file then, and where the spans come from.
AddedTo(f, s, y, b) ==
  LET g == Exported(f, s, y, b)
      n == IF b THEN 1 ELSE exporters[RunOf[s]]
      own == RunOf[s]
  IN /\ \A x : /\ Times(x, f[own][s]) \in Nat
               /\ Times(x, g[own][s])
                    = Times(x, f[own][s]) + IF x = y THEN n ELSE 0
     /\ \A r \in Runs : \A t \in Sessions : \A k \in DOMAIN g[r][t] :
          \/ t = s /\ g[r][t][k] = y
          \/ k \in DOMAIN f[r][t] /\ g[r][t][k] = f[r][t][k]

\* So it does.
LEMMA ExportTimes ==
  ASSUME TracingAssumption, TypeOK, NEW s \in Sessions, NEW y \in Spans,
         NEW f \in [Runs -> [Sessions -> Seq(Spans)]], NEW b
  PROVE  AddedTo(f, s, y, b)
<1> DEFINE g == Exported(f, s, y, b)
           n == IF b THEN 1 ELSE exporters[RunOf[s]]
           own == RunOf[s]
<1>1. n \in Nat /\ own \in Runs /\ f[own][s] \in Seq(Spans)
  BY DEF TracingAssumption, TypeOK
<1>2. /\ \A r \in Runs : \A t \in Sessions :
           t # s \/ r # own => g[r][t] = f[r][t]
      /\ g[own][s] = f[own][s] \o Repeat(y, n)
  <2>1. ExportedAs(f, s, y, b)
    BY ONLY TracingAssumption, TypeOK, s \in Sessions, y \in Spans,
            f \in [Runs -> [Sessions -> Seq(Spans)]], ExportOK
  <2> QED BY <2>1 DEF ExportedAs
<1> HIDE DEF g, n, own
<1>3. \A x : /\ Times(x, f[own][s]) \in Nat
             /\ Times(x, g[own][s])
                  = Times(x, f[own][s]) + IF x = y THEN n ELSE 0
  BY <1>1, <1>2, TimesAppended
<1>4. ASSUME NEW k \in DOMAIN g[own][s]
      PROVE  \/ g[own][s][k] = y
             \/ k \in DOMAIN f[own][s] /\ g[own][s][k] = f[own][s][k]
  <2> DEFINE m == Len(f[own][s])
  <2>1. Extended(g[own][s], f[own][s], y, n)
    BY <1>1, <1>2, Appended
  <2>2. m \in Nat /\ DOMAIN f[own][s] = 1..m
    BY <1>1, LenProperties
  <2> HIDE DEF m
  <2> QED BY <1>1, <2>1, <2>2 DEF Extended, m
<1> QED BY <1>2, <1>3, <1>4 DEF g, n, own, AddedTo
-----------------------------------------------------------------------------
(***************************************************************************)
(* Types.                                                                  *)
(***************************************************************************)
\* The spans of a session are spans.
LEMMA OwnSpans ==
  /\ TracingAssumption => Root \in OwnSpan
  /\ \A k \in 0..MaxSteps : Tool(k) \in OwnSpan
  /\ \A k, j : Tool(k) = Tool(j) <=> k = j
  /\ \A k : Tool(k) # Root
  /\ \A x \in OwnSpan : x \in Spans /\ x.kind # "llm"
BY DEF TracingAssumption, OwnSpan, Root, Tool, Spans

\* Stacks of one span and of two.
LEMMA Stacks ==
  ASSUME NEW x, NEW y
  PROVE  /\ Append(<<x>>, y) = <<x, y>>
         /\ SubSeq(<<x, y>>, 1, 1) = <<x>>
<1> DEFINE S == {x, y}
<1>1. <<x>> \in Seq(S) /\ <<x, y>> \in Seq(S) /\ Len(<<x>>) = 1
  OBVIOUS
<1>2. /\ Append(<<x>>, y) \in Seq(S) /\ Len(Append(<<x>>, y)) = 2
      /\ Append(<<x>>, y)[1] = x /\ Append(<<x>>, y)[2] = y
  <2>1. x \in S /\ y \in S
    OBVIOUS
  <2> HIDE DEF S
  <2> QED BY <1>1, <2>1, AppendProperties
<1>3. Append(<<x>>, y) = <<x, y>>
  <2>1. Len(<<x, y>>) = 2 /\ <<x, y>>[1] = x /\ <<x, y>>[2] = y
    OBVIOUS
  <2>2. \A i \in 1..2 : Append(<<x>>, y)[i] = <<x, y>>[i]
    BY <1>2, <2>1
  <2> QED BY <1>1, <1>2, <2>1, <2>2, SeqEqual
<1>4. SubSeq(<<x, y>>, 1, 1) = <<x>>
  <2>1. /\ SubSeq(<<x, y>>, 1, 1) \in Seq(S)
        /\ Len(SubSeq(<<x, y>>, 1, 1)) = 1
        /\ SubSeq(<<x, y>>, 1, 1)[1] = x
    BY <1>1, SubSeqProperties
  <2>2. Len(<<x>>) = 1 /\ <<x>>[1] = x
    OBVIOUS
  <2>3. \A i \in 1..1 : SubSeq(<<x, y>>, 1, 1)[i] = <<x>>[i]
    BY <2>1, <2>2
  <2> QED BY <1>1, <2>1, <2>2, <2>3, SeqEqual
<1> QED BY <1>3, <1>4

\* The spans on the stack and their number.
LEMMA OpenOK ==
  ASSUME TracingAssumption, TypeOK, NEW s \in Sessions, OpenInv(s)
  PROVE  /\ stack[s] = <<Root>> =>
              /\ Len(stack[s]) = 1 /\ Head(stack[s]) = Root
              /\ Append(stack[s], Tool(steps[s]))
                   = <<Root, Tool(steps[s])>>
         /\ stack[s] = <<Root, Tool(steps[s])>> =>
              /\ Len(stack[s]) = 2 /\ Head(stack[s]) = Root
              /\ Last(stack[s]) = Tool(steps[s])
              /\ Front(stack[s]) = <<Root>>
              /\ steps[s] \in 1..MaxSteps
<1>1. CASE stack[s] = <<Root>>
  <2>1. Len(<<Root>>) = 1 /\ Len(<<Root, Tool(steps[s])>>) = 2
    OBVIOUS
  <2>2. Head(<<Root>>) = Root
    OBVIOUS
  <2>3. Append(<<Root>>, Tool(steps[s])) = <<Root, Tool(steps[s])>>
    BY Stacks
  <2> QED BY <1>1, <2>1, <2>2, <2>3
<1>2. CASE stack[s] = <<Root, Tool(steps[s])>>
  <2>1. steps[s] \in 1..MaxSteps
    BY <1>2 DEF OpenInv, TypeOK, TracingAssumption
  <2>2. Len(stack[s]) = 2 /\ Head(stack[s]) = Root
    BY <1>2
  <2>3. Front(stack[s]) = <<Root>>
    <3>1. SubSeq(<<Root, Tool(steps[s])>>, 1, 1) = <<Root>>
      BY Stacks
    <3> QED BY <1>2, <2>2, <3>1 DEF Front
  <2>4. Last(stack[s]) = Tool(steps[s])
    BY <1>2, <2>2 DEF Last
  <2> QED BY <1>2, <2>1, <2>2, <2>3, <2>4
<1> QED BY <1>1, <1>2

\* Writing the fallback.
LEMMA WriteTypes ==
  ASSUME TypeOK, NEW s \in Sessions, NEW to \in Contexts,
         WriteFallback(s, to) \/ KeepFallback
  PROVE  /\ fallback' \in Contexts /\ wrote' \subseteq Sessions
         /\ calls' \in [Sessions -> Seq(CallStates)]
<1>1. CASE KeepFallback
  BY <1>1 DEF TypeOK, KeepFallback
<1>2. CASE WriteFallback(s, to)
  <2>1. ASSUME NEW t \in Sessions
        PROVE  calls'[t] \in Seq(CallStates)
    <3> DEFINE e(i) == IF calls[t][i].stage = "parent"
                       THEN [calls[t][i] EXCEPT !.moved = TRUE]
                       ELSE calls[t][i]
    <3>1. /\ Len(calls[t]) \in Nat /\ DOMAIN calls[t] = 1..Len(calls[t])
          /\ \A i \in 1..Len(calls[t]) : calls[t][i] \in CallStates
      BY ElementOfSeq, LenProperties DEF TypeOK
    <3>2. \A i \in 1..Len(calls[t]) : e(i) \in CallStates
      BY <3>1 DEF CallStates
    <3>3. calls'[t] = [i \in 1..Len(calls[t]) |-> e(i)]
      BY <1>2, <3>1 DEF WriteFallback
    <3> HIDE DEF e
    <3> QED BY <3>1, <3>2, <3>3, IsASeq
  <2>2. calls' = [t \in Sessions |-> calls'[t]]
    BY <1>2 DEF WriteFallback
  <2>3. fallback' \in Contexts /\ wrote' \subseteq Sessions
    BY <1>2 DEF TypeOK, WriteFallback
  <2> QED BY <2>1, <2>2, <2>3
<1> QED BY <1>1, <1>2

\* Types of what a session's thread does to spans, to its place and so on.
LEMMA SessionTypes ==
  ASSUME TracingAssumption, TypeOK, NEW s \in Sessions, OpenInv(s),
         SessionStep(s)
  PROVE  TypeOK'
<1>1. /\ None \in Contexts /\ s \in Contexts /\ Current(s) \in Contexts
      /\ Root \in OwnSpan
  BY OwnSpans DEF TypeOK, Contexts, Current
<1>2. CASE Enter(s)
  <2>1. <<Root>> \in Seq(OwnSpan) /\ Len(<<Root>>) <= 2
    BY <1>1
  <2> QED BY <1>1, <1>2, <2>1 DEF TypeOK, Enter, Goto, PCs
<1>3. ASSUME NEW role \in Roles, Spawn(s, role)
      PROVE  TypeOK'
  <2>1. /\ fallback' \in Contexts /\ wrote' \subseteq Sessions
        /\ calls' \in [Sessions -> Seq(CallStates)]
    BY <1>1, <1>3, WriteTypes DEF Spawn
  <2>2. runtime' \in [Sessions -> [Roles -> Contexts]]
    BY <1>1, <1>3 DEF Spawn, TypeOK
  <2> QED BY <1>1, <1>3, <2>1, <2>2 DEF TypeOK, Spawn, Goto, PCs
<1>4. ASSUME NEW role \in Roles, SpawnFails(s, role)
      PROVE  TypeOK'
  <2>1. /\ fallback' \in Contexts /\ wrote' \subseteq Sessions
        /\ calls' \in [Sessions -> Seq(CallStates)]
    BY <1>1, <1>4, WriteTypes DEF SpawnFails
  <2> QED BY <1>1, <1>4, <2>1 DEF TypeOK, SpawnFails, Goto, PCs
<1>5. CASE Start(s)
  <2>1. Tool(0) \in Spans
    BY OwnSpans DEF TracingAssumption
  <2>2. file' \in [Runs -> [Sessions -> Seq(Spans)]]
    BY <1>5, <2>1, ExportOK DEF Start, TypeOK, ExportedAs, Spans
  <2>3. steps' \in [Sessions -> 0..(MaxSteps + 1)]
    BY <1>5 DEF Start, TypeOK, TracingAssumption
  <2>4. pc' \in [Sessions -> PCs]
    BY <1>5 DEF Start, TypeOK, Goto, PCs
  <2> QED BY <1>5, <2>2, <2>3, <2>4 DEF TypeOK, Start, KeepFallback, Spans
<1>6. CASE React(s)
  <2>1. /\ stack[s] = <<Root>> /\ Tool(steps[s]) \in OwnSpan
    BY <1>6, OwnSpans DEF React, OpenInv, TypeOK
  <2>2. stack'[s] = <<Root, Tool(steps[s])>>
    BY <1>6, <2>1, OpenOK DEF React, TypeOK
  <2>3. <<Root, Tool(steps[s])>> \in Seq(OwnSpan)
        /\ Len(<<Root, Tool(steps[s])>>) <= 2
    BY <1>1, <2>1
  <2> QED BY <1>6, <2>2, <2>3 DEF TypeOK, React, Goto, PCs, KeepFallback
<1>7. CASE Step(s)
  <2>1. /\ Last(stack[s]) = Tool(steps[s]) /\ Front(stack[s]) = <<Root>>
        /\ steps[s] \in 1..MaxSteps
    BY <1>7, OpenOK DEF Step, OpenInv
  <2>2. Last(stack[s]) \in Spans
    BY <2>1, OwnSpans
  <2>3. file' \in [Runs -> [Sessions -> Seq(Spans)]]
    BY <1>7, <2>2, ExportOK DEF Step, TypeOK, ExportedAs, Spans
  <2>4. <<Root>> \in Seq(OwnSpan) /\ Len(<<Root>>) <= 2
    BY <1>1
  <2>5. steps' \in [Sessions -> 0..(MaxSteps + 1)]
    BY <1>7, <2>1 DEF Step, TypeOK, TracingAssumption
  <2> QED BY <1>7, <2>1, <2>3, <2>4, <2>5
          DEF TypeOK, Step, Goto, PCs, KeepFallback, Spans
<1>8. CASE Stop(s)
  <2>1. pc' \in [Sessions -> PCs] /\ context' \in [Sessions -> Contexts]
    <3>1. CASE Goto(s, "record") /\ UNCHANGED context
      BY <3>1 DEF TypeOK, Goto, PCs
    <3>2. CASE Goto(s, "left") /\ context' = [context EXCEPT ![s] = None]
      BY <1>1, <3>2 DEF TypeOK, Goto, PCs
    <3> QED BY <1>8, <3>1, <3>2 DEF Stop
  <2> QED BY <1>8, <2>1 DEF TypeOK, Stop, KeepFallback
<1>9. CASE Record(s)
  BY <1>9 DEF TypeOK, Record, Goto, PCs, KeepFallback
<1>10. CASE Finalize(s)
  <2>1. file' \in [Runs -> [Sessions -> Seq(Spans)]]
    <3> DEFINE trailing == IF Len(stack[s]) > 1
                           THEN Exported(file, s, Last(stack[s]), FALSE)
                           ELSE file
    <3>1. /\ Head(stack[s]) \in Spans
          /\ Len(stack[s]) > 1 => Last(stack[s]) \in Spans
      <4>1. CASE stack[s] = <<Root>>
        BY <1>1, <4>1, OpenOK, OwnSpans
      <4>2. CASE stack[s] = <<Root, Tool(steps[s])>>
        <5>1. Tool(steps[s]) \in OwnSpan
          BY <4>2, OpenOK, OwnSpans
        <5> QED BY <1>1, <4>2, <5>1, OpenOK, OwnSpans
      <4> QED BY <1>10, <4>1, <4>2 DEF Finalize, OpenInv
    <3>2. trailing \in [Runs -> [Sessions -> Seq(Spans)]]
      BY <3>1, ExportOK DEF ExportedAs, TypeOK, Spans
    <3>3. file' = Exported(trailing, s, Head(stack[s]), FALSE)
      BY <1>10 DEF Finalize
    <3> HIDE DEF trailing
    <3> QED BY <3>1, <3>2, <3>3, ExportOK DEF ExportedAs
  <2>2. <<>> \in Seq(OwnSpan) /\ Len(<<>>) <= 2
    OBVIOUS
  <2> QED BY <1>10, <2>1, <2>2
          DEF TypeOK, Finalize, Goto, PCs, KeepFallback, Spans
<1>11. CASE SortRead(s)
  <2>1. file[RunOf[s]][s] \in Seq(OwnSpan \cup LlmSpan)
    BY DEF TypeOK, TracingAssumption
  <2>2. pc' \in [Sessions -> PCs]
    BY <1>11 DEF SortRead, TypeOK, Goto, PCs
  <2> QED BY <1>11, <2>1, <2>2 DEF TypeOK, SortRead, KeepFallback
<1>12. CASE SortWrite(s)
  <2>1. <<>> \in Seq(Spans)
    OBVIOUS
  <2> QED BY <1>12, <2>1 DEF TypeOK, SortWrite, Goto, PCs, KeepFallback, Spans
<1>13. CASE Close(s)
  <2>1. /\ fallback' \in Contexts /\ wrote' \subseteq Sessions
        /\ calls' \in [Sessions -> Seq(CallStates)]
    BY <1>1, <1>13, WriteTypes DEF Close
  <2>2. pc' \in [Sessions -> PCs] /\ context' \in [Sessions -> Contexts]
    <3>1. CASE Goto(s, "closeAgent") /\ UNCHANGED context
      BY <3>1 DEF TypeOK, Goto, PCs
    <3>2. CASE Leave(s)
      BY <1>1, <3>2 DEF Leave, TypeOK, Goto, PCs
    <3> QED BY <1>13, <3>1, <3>2 DEF Close
  <2> QED BY <1>13, <2>1, <2>2 DEF TypeOK, Close
<1>14. CASE CloseAgent(s)
  <2>1. /\ fallback' \in Contexts /\ wrote' \subseteq Sessions
        /\ calls' \in [Sessions -> Seq(CallStates)]
    BY <1>1, <1>14, WriteTypes DEF CloseAgent
  <2> QED BY <1>1, <1>14, <2>1 DEF TypeOK, CloseAgent, Leave, Goto, PCs
<1>15. ASSUME NEW role \in Roles, CallLLM(s, role)
       PROVE  TypeOK'
  <2>1. PICK inherits \in BOOLEAN :
          calls' = [calls EXCEPT ![s] = Append(@,
            [by |-> role, inherits |-> inherits, stage |-> "row",
             row |-> None, seen |-> None, moved |-> FALSE])]
    BY <1>15 DEF CallLLM
  <2>2. [by |-> role, inherits |-> inherits, stage |-> "row",
         row |-> None, seen |-> None, moved |-> FALSE] \in CallStates
    BY <1>1 DEF CallStates, Stages
  <2>3. calls' \in [Sessions -> Seq(CallStates)]
    BY <2>1, <2>2, AppendProperties DEF TypeOK
  <2> QED BY <1>15, <2>3 DEF TypeOK, CallLLM
<1> QED BY <1>2, <1>3, <1>4, <1>5, <1>6, <1>7, <1>8, <1>9, <1>10, <1>11,
           <1>12, <1>13, <1>14, <1>15 DEF SessionStep

\* A call under way and what its callback finds.
LEMMA CallOK ==
  ASSUME TypeOK, NEW s \in Sessions, NEW i \in DOMAIN calls[s]
  PROVE  /\ i \in Nat /\ i \in 1..Len(calls[s])
         /\ calls[s] \in Seq(CallStates) /\ calls[s][i] \in CallStates
         /\ ContextOf(s, calls[s][i]) \in Contexts
<1>1. calls[s] \in Seq(CallStates) /\ i \in 1..Len(calls[s])
  BY LenProperties DEF TypeOK
<1>2. calls[s][i] \in CallStates
  BY <1>1, ElementOfSeq
<1>3. Len(calls[s]) \in Nat
  BY <1>1, LenProperties
<1>4. ContextOf(s, calls[s][i]) \in Contexts
  BY <1>2 DEF TypeOK, Contexts, ContextOf, CallStates
<1> QED BY <1>1, <1>2, <1>3, <1>4

\* Types of what a callback does.
LEMMA CallbackTypes ==
  ASSUME TracingAssumption, TypeOK, NEW s \in Sessions,
         NEW i \in 1..MaxCalls[s], Callback(s, i)
  PROVE  TypeOK'
<1>1. i \in DOMAIN calls[s]
  BY DEF Callback, WriteRow, InitOtel, ReadSession, EmitSpan, RecordTiming,
         LoseCallback, At
<1>2. /\ i \in Nat /\ i \in 1..Len(calls[s])
      /\ calls[s] \in Seq(CallStates) /\ calls[s][i] \in CallStates
      /\ ContextOf(s, calls[s][i]) \in Contexts
  BY <1>1, CallOK
<1>3. \A c \in CallStates : [calls EXCEPT ![s][i] = c]
                              \in [Sessions -> Seq(CallStates)]
  <2>1. \A c \in CallStates : [calls[s] EXCEPT ![i] = c] \in Seq(CallStates)
    BY <1>2, ExceptSeq
  <2> QED BY <2>1 DEF TypeOK
<1>4. ASSUME NEW c \in CallStates, Update(s, i, c)
      PROVE  calls' \in [Sessions -> Seq(CallStates)]
  BY <1>3, <1>4 DEF Update
<1>5. /\ runner' = runner /\ exporters' = exporters /\ pc' = pc
      /\ context' = context /\ fallback' = fallback /\ runtime' = runtime
      /\ stack' = stack /\ steps' = steps /\ sorting' = sorting
      /\ counted' = counted /\ wrote' = wrote
  BY DEF Callback
<1> SUFFICES /\ calls' \in [Sessions -> Seq(CallStates)]
             /\ file' \in [Runs -> [Sessions -> Seq(OwnSpan \cup LlmSpan)]]
             /\ tracer' \in Contexts
             /\ timings' \in [Sessions -> SUBSET (Sessions \X Nat)]
  BY <1>5 DEF TypeOK
<1>6. /\ file \in [Runs -> [Sessions -> Seq(OwnSpan \cup LlmSpan)]]
      /\ tracer \in Contexts
      /\ timings \in [Sessions -> SUBSET (Sessions \X Nat)]
  BY DEF TypeOK
<1> DEFINE c == calls[s][i]
           now == ContextOf(s, c)
<1>7. /\ c \in CallStates /\ now \in Contexts
      /\ \A st \in Stages : [c EXCEPT !.stage = st] \in CallStates
      /\ \A st \in Stages : \A x \in Contexts :
           /\ [c EXCEPT !.stage = st, !.row = x] \in CallStates
           /\ [c EXCEPT !.stage = st, !.seen = x] \in CallStates
  BY <1>2 DEF CallStates, Contexts
<1> HIDE DEF c, now
<1>8. {"row", "otel", "span", "parent", "timing", "logged", "lost"} = Stages
  BY DEF Stages
<1>9. CASE WriteRow(s, i)
  BY <1>4, <1>6, <1>7, <1>8, <1>9 DEF WriteRow, c, now
<1>10. CASE InitOtel(s, i)
  BY <1>4, <1>6, <1>7, <1>8, <1>10 DEF InitOtel, c, now
<1>11. CASE ReadSession(s, i)
  BY <1>4, <1>6, <1>7, <1>8, <1>11 DEF ReadSession, c, now
<1>12. CASE EmitSpan(s, i)
  <2>1. /\ Update(s, i, [c EXCEPT !.stage = "timing"])
        /\ file' = IF None \in {now, c.seen} THEN file
                   ELSE Exported(file, c.seen,
                          [kind |-> "llm", of |-> s, n |-> i,
                           parent |-> now], InChild(c))
        /\ UNCHANGED <<tracer, timings>>
    BY <1>12 DEF EmitSpan, c, now
  <2>2. [kind |-> "llm", of |-> s, n |-> i, parent |-> now] \in Spans
    BY <1>2, <1>7 DEF Spans, LlmSpan
  <2>3. c.seen \in Contexts
    BY <1>7 DEF CallStates
  <2>4. CASE c.seen # None
    <3>1. c.seen \in Sessions
      BY <2>3, <2>4 DEF Contexts
    <3>2. Exported(file, c.seen, [kind |-> "llm", of |-> s, n |-> i,
                                  parent |-> now], InChild(c))
            \in [Runs -> [Sessions -> Seq(Spans)]]
      BY <1>6, <2>2, <3>1, ExportOK DEF ExportedAs, Spans
    <3> QED BY <1>4, <1>6, <1>7, <1>8, <2>1, <3>2 DEF Spans
  <2>5. CASE c.seen = None
    BY <1>4, <1>6, <1>7, <1>8, <2>1, <2>5
  <2> QED BY <2>4, <2>5
<1>13. CASE RecordTiming(s, i)
  <2>1. /\ Update(s, i, [c EXCEPT !.stage = "logged"])
        /\ timings' = IF InChild(c) \/ now = None THEN timings
                      ELSE [timings EXCEPT ![now] = @ \cup {<<s, i>>}]
        /\ UNCHANGED <<file, tracer>>
    BY <1>13 DEF RecordTiming, c, now
  <2>2. now # None => now \in Sessions
    BY <1>7 DEF Contexts
  <2>3. timings' \in [Sessions -> SUBSET (Sessions \X Nat)]
    BY <1>2, <1>6, <2>1, <2>2
  <2> QED BY <1>4, <1>6, <1>7, <1>8, <2>1, <2>3
<1>14. CASE LoseCallback(s, i)
  BY <1>4, <1>6, <1>7, <1>8, <1>14 DEF LoseCallback, c
<1> QED BY <1>9, <1>10, <1>11, <1>12, <1>13, <1>14 DEF Callback

-----------------------------------------------------------------------------
(***************************************************************************)
(* The spans of the sessions.                                              *)
(***************************************************************************)
\* What the spans of session t depend on has not changed.
SameSpans(t) ==
  /\ pc'[t] = pc[t] /\ stack'[t] = stack[t] /\ steps'[t] = steps[t]
  /\ sorting'[t] = sorting[t] /\ exporters' = exporters
  /\ \A r \in Runs : file'[r][t] = file[r][t]

\* Then neither have its spans.
LEMMA SpansKept ==
  ASSUME TracingAssumption, NEW t \in Sessions, OpenInv(t), FileInv(t),
         SameSpans(t)
  PROVE  OpenInv(t)' /\ FileInv(t)'
<1>1. RunOf[t] \in Runs
  BY DEF TracingAssumption
<1>2. OpenInv(t)'
  BY DEF OpenInv, SameSpans
<1>3. \A f, n : /\ OpenSpans(t, f, n) <=> OpenSpans(t, f, n)'
                /\ EndedSpans(t, f, n) <=> EndedSpans(t, f, n)'
  BY DEF OpenSpans, EndedSpans, SameSpans
<1>4. FileInv(t)'
  BY <1>1, <1>3 DEF FileInv, SameSpans
<1> QED BY <1>2, <1>4

\* The two exports of the end of a session.
LEMMA FinalizeOK ==
  ASSUME TracingAssumption, TypeOK, NEW s \in Sessions, OpenInv(s),
         FileInv(s), Finalize(s)
  PROVE  /\ \A r \in Runs : \A t \in Sessions \ {s} :
              file'[r][t] = file[r][t]
         /\ \A r \in Runs \ {RunOf[s]} : file'[r][s] = <<>>
         /\ EndedSpans(s, file'[RunOf[s]][s], exporters[RunOf[s]])
         /\ file' \in [Runs -> [Sessions -> Seq(Spans)]]
<1> DEFINE own == RunOf[s]
           n == exporters[own]
           top == Tool(steps[s])
           two == stack[s] = <<Root, top>>
           trailing == IF two THEN Exported(file, s, top, FALSE) ELSE file
<1>1. /\ file' = Exported(trailing, s, Root, FALSE)
      /\ two => steps[s] \in 1..MaxSteps
  <2>1. CASE two
    <3>1. /\ Len(stack[s]) > 1 /\ Last(stack[s]) = top
          /\ Head(stack[s]) = Root /\ steps[s] \in 1..MaxSteps
      <4>1. stack[s] = <<Root, Tool(steps[s])>> =>
              /\ Len(stack[s]) = 2 /\ Head(stack[s]) = Root
              /\ Last(stack[s]) = Tool(steps[s])
              /\ steps[s] \in 1..MaxSteps
        BY OpenOK
      <4>2. stack[s] = <<Root, Tool(steps[s])>>
        BY <2>1
      <4>3. Len(stack[s]) > 1
        BY <4>1, <4>2
      <4> QED BY <4>1, <4>2, <4>3
    <3> QED BY <2>1, <3>1 DEF Finalize
  <2>2. CASE ~two
    <3>1. stack[s] = <<Root>>
      BY <2>2 DEF Finalize, OpenInv
    <3>2. ~(Len(stack[s]) > 1) /\ Head(stack[s]) = Root
      BY <3>1, OpenOK
    <3> QED BY <2>2, <3>2 DEF Finalize
  <2> QED BY <2>1, <2>2
<1>2. /\ own \in Runs /\ n \in Nat \ {0} /\ Root \in Spans
      /\ two => top \in Spans
      /\ file \in [Runs -> [Sessions -> Seq(Spans)]]
      /\ OpenSpans(s, file[own][s], n)
      /\ \A r \in Runs \ {own} : file[r][s] = <<>>
  <2>1. own \in Runs /\ n \in Nat \ {0}
    BY DEF TypeOK, TracingAssumption
  <2>2. Root \in Spans /\ (two => top \in Spans)
    BY <1>1, OwnSpans DEF TracingAssumption
  <2>3. file \in [Runs -> [Sessions -> Seq(Spans)]]
    BY DEF TypeOK, Spans
  <2>4. /\ OpenSpans(s, file[own][s], n)
        /\ \A r \in Runs \ {own} : file[r][s] = <<>>
    BY DEF FileInv, Finalize, Before
  <2> QED BY <2>1, <2>2, <2>3, <2>4
<1> HIDE DEF own, n, two, top
<1>3. /\ trailing \in [Runs -> [Sessions -> Seq(Spans)]]
      /\ \A r \in Runs : \A t \in Sessions :
           t # s \/ r # own => trailing[r][t] = file[r][t]
      /\ \A x : Times(x, trailing[own][s])
                  = IF two /\ x = top THEN Times(x, file[own][s]) + n
                    ELSE Times(x, file[own][s])
      /\ \A x : Times(x, file[own][s]) \in Nat
  <2>1. CASE two
    <3>1. ExportedAs(file, s, top, FALSE)
      BY <1>2, <2>1, ExportOK
    <3>2. \A x : /\ Times(x, file[own][s]) \in Nat
                 /\ Times(x, Exported(file, s, top, FALSE)[own][s])
                      = Times(x, file[own][s]) + IF x = top THEN n ELSE 0
      <4>1. AddedTo(file, s, top, FALSE)
        BY <1>2, <2>1, ExportTimes
      <4> QED BY <4>1 DEF AddedTo, own, n
    <3>3. trailing = Exported(file, s, top, FALSE)
      BY <2>1
    <3>4. /\ trailing \in [Runs -> [Sessions -> Seq(Spans)]]
          /\ \A r \in Runs : \A t \in Sessions :
               t # s \/ r # own => trailing[r][t] = file[r][t]
      BY <3>1, <3>3 DEF ExportedAs, own
    <3> HIDE DEF trailing
    <3>5. \A x : Times(x, trailing[own][s])
                    = IF x = top THEN Times(x, file[own][s]) + n
                      ELSE Times(x, file[own][s])
      <4> SUFFICES ASSUME NEW x
                   PROVE  Times(x, trailing[own][s])
                            = IF x = top THEN Times(x, file[own][s]) + n
                              ELSE Times(x, file[own][s])
        OBVIOUS
      <4>1. /\ Times(x, file[own][s]) \in Nat
            /\ Times(x, trailing[own][s])
                 = Times(x, file[own][s]) + IF x = top THEN n ELSE 0
        BY <3>2, <3>3
      <4> QED BY <4>1
    <3> QED BY <2>1, <3>2, <3>4, <3>5
  <2>2. CASE ~two
    <3>1. \A x : Times(x, file[own][s]) \in Nat
      <4>1. AddedTo(file, s, Root, FALSE)
        BY <1>2, ExportTimes
      <4> QED BY <4>1 DEF AddedTo, own
    <3> QED BY <1>2, <2>2, <3>1
  <2> QED BY <2>1, <2>2
<1> HIDE DEF trailing
<1>4. /\ file' \in [Runs -> [Sessions -> Seq(Spans)]]
      /\ \A r \in Runs : \A t \in Sessions :
           t # s \/ r # own => file'[r][t] = trailing[r][t]
  <2>1. ExportedAs(trailing, s, Root, FALSE)
    BY <1>2, <1>3, ExportOK
  <2> QED BY <1>1, <2>1 DEF ExportedAs, own
<1>5. \A x : Times(x, file'[own][s])
               = Times(x, trailing[own][s]) + IF x = Root THEN n ELSE 0
  <2>1. AddedTo(trailing, s, Root, FALSE)
    BY <1>2, <1>3, ExportTimes
  <2> QED BY <1>1, <2>1 DEF AddedTo, own, n
<1>6. EndedSpans(s, file'[own][s], n)
  <2>1. Times(Root, file'[own][s]) = n
    BY <1>2, <1>3, <1>5, OwnSpans DEF OpenSpans, top
  <2>2. ASSUME NEW k \in 0..MaxSteps
        PROVE  /\ Times(Tool(k), file'[own][s]) \in {0, n}
               /\ k < steps[s] => Times(Tool(k), file'[own][s]) = n
    <3>1. /\ Tool(k) # Root
          /\ top = Tool(k) <=> steps[s] = k
      BY OwnSpans DEF top
    <3>2. Times(Tool(k), file'[own][s]) = Times(Tool(k), trailing[own][s])
      BY <1>2, <1>3, <1>5, <3>1
    <3>3. Times(Tool(k), file[own][s]) = IF k < steps[s] THEN n ELSE 0
      BY <1>2 DEF OpenSpans
    <3> QED BY <1>2, <1>3, <3>1, <3>2, <3>3
  <2> QED BY <2>1, <2>2 DEF EndedSpans
<1> QED BY <1>2, <1>3, <1>4, <1>6 DEF own, n

\* A step of a session's thread leaves the spans of the others alone.
LEMMA SpansOthers ==
  ASSUME TracingAssumption, TypeOK, NEW s \in Sessions, OpenInv(s),
         FileInv(s), SessionStep(s), NEW t \in Sessions, t # s
  PROVE  SameSpans(t)
<1> USE DEF SameSpans, Goto
<1>1. CASE Enter(s) \/ Stop(s) \/ Record(s) \/ SortRead(s) \/ Close(s)
           \/ CloseAgent(s) \/ React(s)
  BY <1>1 DEF TypeOK, Enter, Stop, Record, SortRead, Close, CloseAgent,
              React, Leave
<1>2. ASSUME NEW role \in Roles,
             Spawn(s, role) \/ SpawnFails(s, role) \/ CallLLM(s, role)
      PROVE  SameSpans(t)
  BY <1>2 DEF TypeOK, Spawn, SpawnFails, CallLLM
<1>3. CASE Start(s)
  <2>1. Tool(0) \in Spans
    BY OwnSpans DEF TracingAssumption
  <2>2. \A r \in Runs : file'[r][t] = file[r][t]
    <3>1. ExportedAs(file, s, Tool(0), FALSE)
      BY <2>1, ExportOK DEF TypeOK, Spans
    <3> QED BY <1>3, <3>1 DEF Start, ExportedAs
  <2> QED BY <1>3, <2>2 DEF Start, TypeOK
<1>4. CASE Step(s)
  <2>1. Last(stack[s]) \in Spans
    <3>1. stack[s] = <<Root, Tool(steps[s])>>
      BY <1>4 DEF Step, OpenInv
    <3>2. Last(stack[s]) = Tool(steps[s]) /\ steps[s] \in 1..MaxSteps
      BY <3>1, OpenOK
    <3>3. steps[s] \in 0..MaxSteps
      BY <3>2
    <3> QED BY <3>2, <3>3, OwnSpans
  <2>2. \A r \in Runs : file'[r][t] = file[r][t]
    <3>1. ExportedAs(file, s, Last(stack[s]), FALSE)
      BY <2>1, ExportOK DEF TypeOK, Spans
    <3> QED BY <1>4, <3>1 DEF Step, ExportedAs
  <2> QED BY <1>4, <2>2 DEF Step, TypeOK
<1>5. CASE Finalize(s)
  <2>1. \A r \in Runs : file'[r][t] = file[r][t]
    BY <1>5, FinalizeOK
  <2> QED BY <1>5, <2>1 DEF Finalize, TypeOK
<1>6. CASE SortWrite(s)
  <2>1. \A r \in Runs : file'[r][t] = file[r][t]
    BY <1>6 DEF SortWrite, TypeOK, TracingAssumption
  <2> QED BY <1>6, <2>1 DEF SortWrite, TypeOK
<1> QED BY <1>1, <1>2, <1>3, <1>4, <1>5, <1>6 DEF SessionStep

\* What the file of s holds once an own span has been exported to it.
GrownBy(s, y) ==
  LET own == RunOf[s]
  IN /\ \A r \in Runs \ {own} : file'[r][s] = <<>>
     /\ \A x : /\ Times(x, file[own][s]) \in Nat
               /\ Times(x, file'[own][s])
                    = Times(x, file[own][s])
                      + IF x = y THEN exporters[own] ELSE 0
     /\ exporters[own] \in Nat \ {0} /\ own \in Runs

\* So it does.
LEMMA SpanAdded ==
  ASSUME TracingAssumption, TypeOK, NEW s \in Sessions, FileInv(s),
         NEW y \in OwnSpan, file' = Exported(file, s, y, FALSE)
  PROVE  GrownBy(s, y)
<1>1. y \in Spans /\ file \in [Runs -> [Sessions -> Seq(Spans)]]
  BY OwnSpans DEF TypeOK, Spans
<1>2. \A r \in Runs \ {RunOf[s]} : file'[r][s] = file[r][s]
  <2>1. ExportedAs(file, s, y, FALSE)
    BY <1>1, ExportOK
  <2> QED BY <2>1 DEF ExportedAs
<1>3. \A x : /\ Times(x, file[RunOf[s]][s]) \in Nat
             /\ Times(x, file'[RunOf[s]][s])
                  = Times(x, file[RunOf[s]][s])
                    + IF x = y THEN exporters[RunOf[s]] ELSE 0
  <2>1. AddedTo(file, s, y, FALSE)
    BY <1>1, ExportTimes
  <2> QED BY <2>1 DEF AddedTo
<1>4. exporters[RunOf[s]] \in Nat \ {0} /\ RunOf[s] \in Runs
  BY DEF TypeOK, TracingAssumption
<1> QED BY <1>2, <1>3, <1>4 DEF FileInv, GrownBy

\* The places are apart.
LEMMA PlacesApart ==
  /\ Before \cap After = {} /\ "idle" \notin Before \cup After
  /\ "left" \notin Before \cup After
  /\ "sortWrite" \in After
BY DEF Before, After

\* A step of a session's thread keeps its own spans in order.
LEMMA SpansOwn ==
  ASSUME TracingAssumption, TypeOK, NEW s \in Sessions, OpenInv(s),
         FileInv(s), SessionStep(s)
  PROVE  OpenInv(s)' /\ FileInv(s)'
<1> DEFINE own == RunOf[s]
<1>1. own \in Runs /\ pc[s] \in PCs
  BY DEF TracingAssumption, TypeOK
<1>2. \A f, n : steps'[s] = steps[s] =>
        /\ OpenSpans(s, f, n) <=> OpenSpans(s, f, n)'
        /\ EndedSpans(s, f, n) <=> EndedSpans(s, f, n)'
  BY DEF OpenSpans, EndedSpans
\* Steps that leave the files, the spans and the step counter alone.
<1>3. ASSUME file' = file, sorting' = sorting, exporters' = exporters,
             steps' = steps, stack' = stack,
             \/ pc'[s] = "left"
             \/ pc'[s] \in Before /\ pc[s] \in Before
             \/ pc'[s] \in After \ {"sortWrite"} /\ pc[s] \in After
      PROVE  FileInv(s)'
  BY <1>2, <1>3, PlacesApart DEF FileInv
<1>4. CASE Enter(s)
  <2>1. FileInv(s)'
    BY <1>2, <1>4, PlacesApart DEF FileInv, Enter, Goto, TypeOK, Before
  <2>2. OpenInv(s)'
    <3>1. stack'[s] = <<Root>> /\ pc'[s] = "benchmark" /\ steps'[s] = 0
      BY <1>4 DEF Enter, Goto, TypeOK, OpenInv, Entering
    <3>2. <<Root>> # <<Root, Tool(0)>>
      <4>1. Len(<<Root>>) = 1 /\ Len(<<Root, Tool(0)>>) = 2
        OBVIOUS
      <4> QED BY <4>1
    <3> QED BY <3>1, <3>2 DEF OpenInv, After, Entering
  <2> QED BY <2>1, <2>2
<1>5. ASSUME NEW role \in Roles, Spawn(s, role)
      PROVE  OpenInv(s)' /\ FileInv(s)'
  <2>1. /\ pc[s] = role /\ pc'[s] \in {"agent", "start"}
        /\ pc[s] \in {"benchmark", "agent"}
        /\ UNCHANGED <<file, sorting, exporters, steps, stack>>
    BY <1>5 DEF Spawn, Goto, TypeOK, Roles
  <2>2. FileInv(s)'
    BY <1>3, <2>1 DEF Before
  <2>3. OpenInv(s)'
    BY <2>1 DEF OpenInv, After, Entering
  <2> QED BY <2>2, <2>3
<1>6. ASSUME NEW role \in Roles, SpawnFails(s, role)
      PROVE  OpenInv(s)' /\ FileInv(s)'
  <2>1. /\ pc'[s] = "left"
        /\ UNCHANGED <<file, sorting, exporters, steps, stack>>
    BY <1>6 DEF SpawnFails, Goto, TypeOK
  <2>2. FileInv(s)'
    BY <1>3, <2>1
  <2>3. OpenInv(s)'
    BY <2>1 DEF OpenInv, After, Entering
  <2> QED BY <2>2, <2>3
<1>7. CASE Stop(s)
  <2>1. /\ pc[s] \in {"start", "loop", "step"}
        /\ pc'[s] \in {"record", "left"}
        /\ UNCHANGED <<file, sorting, exporters, steps, stack>>
    BY <1>7 DEF Stop, Goto, TypeOK
  <2>2. FileInv(s)'
    BY <1>3, <2>1 DEF Before
  <2>3. OpenInv(s)'
    BY <2>1 DEF OpenInv, After, Entering
  <2> QED BY <2>2, <2>3
<1>8. CASE Record(s)
  <2>1. /\ pc[s] = "record" /\ pc'[s] = "finalize"
        /\ UNCHANGED <<file, sorting, exporters, steps, stack>>
    BY <1>8 DEF Record, Goto, TypeOK
  <2>2. FileInv(s)'
    BY <1>3, <2>1 DEF Before
  <2>3. OpenInv(s)'
    BY <2>1 DEF OpenInv, After, Entering
  <2> QED BY <2>2, <2>3
<1>9. CASE React(s)
  <2>1. /\ pc[s] = "loop" /\ pc'[s] = "step" /\ steps[s] <= MaxSteps
        /\ UNCHANGED <<file, sorting, exporters, steps>>
        /\ stack'[s] = Append(stack[s], Tool(steps[s]))
    BY <1>9 DEF React, Goto, TypeOK
  <2>2. FileInv(s)'
    BY <1>2, <2>1, PlacesApart DEF FileInv, Before
  <2>3. stack'[s] = <<Root, Tool(steps[s])>>
    BY <2>1, OpenOK DEF OpenInv
  <2>4. OpenInv(s)'
    BY <2>1, <2>3 DEF OpenInv, After, Entering
  <2> QED BY <2>2, <2>4
<1>10. CASE SortRead(s)
  <2>1. /\ pc[s] = "sortRead" /\ pc'[s] = "sortWrite"
        /\ UNCHANGED <<file, exporters, steps, stack>>
        /\ sorting'[s] = file[own][s]
    BY <1>10 DEF SortRead, Goto, TypeOK
  <2>2. FileInv(s)'
    BY <1>2, <2>1, PlacesApart DEF FileInv, After
  <2>3. OpenInv(s)'
    BY <2>1 DEF OpenInv, After, Entering
  <2> QED BY <2>2, <2>3
<1>11. CASE SortWrite(s)
  <2>1. /\ pc[s] = "sortWrite" /\ pc'[s] = "close"
        /\ UNCHANGED <<exporters, steps, stack>>
        /\ file'[own][s] = sorting[s]
        /\ \A r \in Runs \ {own} : file'[r][s] = file[r][s]
    BY <1>1, <1>11 DEF SortWrite, Goto, TypeOK
  <2>2. FileInv(s)'
    BY <1>2, <2>1, PlacesApart DEF FileInv, After
  <2>3. OpenInv(s)'
    BY <2>1 DEF OpenInv, After, Entering
  <2> QED BY <2>2, <2>3
<1>12. CASE Close(s) \/ CloseAgent(s)
  <2>1. /\ pc[s] \in {"close", "closeAgent"}
        /\ pc'[s] \in {"closeAgent", "done"}
        /\ UNCHANGED <<file, sorting, exporters, steps, stack>>
    BY <1>12 DEF Close, CloseAgent, Leave, Goto, TypeOK
  <2>2. FileInv(s)'
    BY <1>3, <2>1 DEF After
  <2>3. OpenInv(s)'
    BY <2>1 DEF OpenInv, After, Entering
  <2> QED BY <2>2, <2>3
<1>13. ASSUME NEW role \in Roles, CallLLM(s, role)
       PROVE  OpenInv(s)' /\ FileInv(s)'
  <2>1. SameSpans(s)
    BY <1>13 DEF CallLLM, SameSpans
  <2> QED BY <2>1, SpansKept
<1>14. CASE Start(s)
  <2>1. /\ pc[s] = "start" /\ pc'[s] = "loop" /\ steps'[s] = 1
        /\ steps[s] = 0 /\ UNCHANGED <<exporters, stack, sorting>>
        /\ file' = Exported(file, s, Tool(0), FALSE)
    BY <1>14 DEF Start, Goto, TypeOK, OpenInv, Entering
  <2>2. Tool(0) \in OwnSpan
    BY OwnSpans DEF TracingAssumption
  <2>3. OpenSpans(s, file[own][s], exporters[own])
    BY <2>1 DEF FileInv, Before
  <2>4. GrownBy(s, Tool(0))
    BY <2>1, <2>2, SpanAdded
  <2>5. OpenSpans(s, file[own][s], exporters[own])'
    <3>1. Times(Root, file'[own][s]) = 0
      BY <2>3, <2>4, OwnSpans DEF OpenSpans, GrownBy
    <3>2. ASSUME NEW k \in 0..MaxSteps
          PROVE  Times(Tool(k), file'[own][s])
                   = IF k < steps'[s] THEN exporters[own] ELSE 0
      <4>1. Tool(k) = Tool(0) <=> k = 0
        BY OwnSpans
      <4>2. Times(Tool(k), file[own][s])
              = IF k < steps[s] THEN exporters[own] ELSE 0
        BY <2>3 DEF OpenSpans
      <4>3. k \in Nat
        BY DEF TracingAssumption
      <4>4. Times(Tool(k), file'[own][s])
              = Times(Tool(k), file[own][s])
                + IF Tool(k) = Tool(0) THEN exporters[own] ELSE 0
        BY <2>4 DEF GrownBy
      <4>5. exporters[own] \in Nat
        BY <2>4 DEF GrownBy
      <4>6. /\ steps[s] \in Nat /\ steps'[s] = steps[s] + 1
            /\ Tool(k) = Tool(0) <=> k = steps[s]
        BY <2>1, <4>1 DEF TracingAssumption
      <4>7. CASE k = steps[s]
        BY <4>2, <4>3, <4>4, <4>5, <4>6, <4>7
      <4>8. CASE k # steps[s]
        BY <4>2, <4>3, <4>4, <4>5, <4>6, <4>8
      <4> QED BY <4>7, <4>8
    <3> QED BY <2>1, <3>1, <3>2 DEF OpenSpans
  <2>6. FileInv(s)'
    BY <2>1, <2>5, <2>4, PlacesApart DEF FileInv, Before, GrownBy
  <2>7. OpenInv(s)'
    BY <2>1 DEF OpenInv, After, Entering
  <2> QED BY <2>6, <2>7
<1>15. CASE Step(s)
  <2>1. /\ pc[s] = "step" /\ pc'[s] = "loop" /\ steps'[s] = steps[s] + 1
        /\ UNCHANGED <<exporters, sorting>>
        /\ file' = Exported(file, s, Tool(steps[s]), FALSE)
        /\ stack'[s] = <<Root>> /\ steps[s] \in 1..MaxSteps
    BY <1>15, OpenOK DEF Step, Goto, TypeOK, OpenInv
  <2>2. Tool(steps[s]) \in OwnSpan
    BY <2>1, OwnSpans DEF TracingAssumption
  <2>3. OpenSpans(s, file[own][s], exporters[own])
    BY <2>1 DEF FileInv, Before
  <2>4. GrownBy(s, Tool(steps[s]))
    BY <2>1, <2>2, SpanAdded
  <2>5. OpenSpans(s, file[own][s], exporters[own])'
    <3>1. Times(Root, file'[own][s]) = 0
      BY <2>3, <2>4, OwnSpans DEF OpenSpans, GrownBy
    <3>2. ASSUME NEW k \in 0..MaxSteps
          PROVE  Times(Tool(k), file'[own][s])
                   = IF k < steps'[s] THEN exporters[own] ELSE 0
      <4>1. Tool(k) = Tool(steps[s]) <=> k = steps[s]
        BY OwnSpans
      <4>2. Times(Tool(k), file[own][s])
              = IF k < steps[s] THEN exporters[own] ELSE 0
        BY <2>3 DEF OpenSpans
      <4>3. k \in Nat
        BY DEF TracingAssumption
      <4>4. Times(Tool(k), file'[own][s])
              = Times(Tool(k), file[own][s])
                + IF Tool(k) = Tool(steps[s]) THEN exporters[own] ELSE 0
        BY <2>4 DEF GrownBy
      <4>5. exporters[own] \in Nat
        BY <2>4 DEF GrownBy
      <4>6. /\ steps[s] \in Nat /\ steps'[s] = steps[s] + 1
            /\ Tool(k) = Tool(steps[s]) <=> k = steps[s]
        BY <2>1, <4>1 DEF TracingAssumption
      <4>7. CASE k = steps[s]
        BY <4>2, <4>3, <4>4, <4>5, <4>6, <4>7
      <4>8. CASE k # steps[s]
        BY <4>2, <4>3, <4>4, <4>5, <4>6, <4>8
      <4> QED BY <4>7, <4>8
    <3> QED BY <2>1, <3>1, <3>2 DEF OpenSpans
  <2>6. FileInv(s)'
    BY <2>1, <2>5, <2>4, PlacesApart DEF FileInv, Before, GrownBy
  <2>7. OpenInv(s)'
    <3>1. \A k : <<Root>> # <<Root, Tool(k)>>
      <4>1. \A k : Len(<<Root>>) = 1 /\ Len(<<Root, Tool(k)>>) = 2
        OBVIOUS
      <4> QED BY <4>1
    <3> QED BY <2>1, <3>1 DEF OpenInv, After, Entering
  <2> QED BY <2>6, <2>7
<1>16. CASE Finalize(s)
  <2>1. /\ pc[s] = "finalize" /\ pc'[s] = "sortRead" /\ steps' = steps
        /\ UNCHANGED <<exporters, sorting>> /\ stack'[s] = <<>>
    BY <1>16 DEF Finalize, Goto, TypeOK
  <2>2. EndedSpans(s, file'[own][s], exporters[own])
        /\ \A r \in Runs \ {own} : file'[r][s] = <<>>
    BY <1>16, FinalizeOK
  <2>3. FileInv(s)'
    BY <1>2, <2>1, <2>2, PlacesApart DEF FileInv, After
  <2>4. OpenInv(s)'
    <3>1. \A k : <<>> # <<Root, Tool(k)>>
      OBVIOUS
    <3> QED BY <2>1, <3>1 DEF OpenInv, After, Entering
  <2> QED BY <2>3, <2>4
<1> QED BY <1>4, <1>5, <1>6, <1>7, <1>8, <1>9, <1>10, <1>11, <1>12, <1>13,
           <1>14, <1>15, <1>16 DEF SessionStep

\* A callback of LiteLLM's leaves the own spans of every session alone.
LEMMA SpansCallback ==
  ASSUME TracingAssumption, TypeOK, NEW s \in Sessions,
         NEW i \in 1..MaxCalls[s], Callback(s, i),
         NEW t \in Sessions, OpenInv(t), FileInv(t)
  PROVE  OpenInv(t)' /\ FileInv(t)'
<1>1. UNCHANGED <<pc, stack, steps, sorting, exporters>>
  BY DEF Callback
<1>2. CASE file' = file
  <2>1. SameSpans(t)
    BY <1>1, <1>2 DEF SameSpans
  <2> QED BY <2>1, SpansKept
<1>3. CASE file' # file
  <2> DEFINE c == calls[s][i]
             x == [kind |-> "llm", of |-> s, n |-> i,
                   parent |-> ContextOf(s, c)]
             own == RunOf[t]
  <2>1. EmitSpan(s, i)
    BY <1>3 DEF Callback, WriteRow, InitOtel, ReadSession, RecordTiming,
                LoseCallback
  <2>2. /\ i \in Nat /\ c \in CallStates /\ ContextOf(s, c) \in Contexts
    BY <2>1, CallOK DEF EmitSpan, At
  <2>3. /\ file' = Exported(file, c.seen, x, InChild(c))
        /\ c.seen \in Sessions
    BY <1>3, <2>1, <2>2 DEF EmitSpan, CallStates, Contexts
  <2>4. x \in Spans /\ x.kind = "llm"
    BY <2>2 DEF Spans, LlmSpan
  <2> HIDE DEF x
  <2>5. /\ ExportedAs(file, c.seen, x, InChild(c))
        /\ AddedTo(file, c.seen, x, InChild(c))
    BY <2>3, <2>4, ExportOK, ExportTimes DEF TypeOK, Spans
  <2> DEFINE g == Exported(file, c.seen, x, InChild(c))
  <2>6. /\ \A r \in Runs : \A u \in Sessions :
             u # c.seen \/ r # RunOf[c.seen] => g[r][u] = file[r][u]
        /\ \A y : /\ Times(y, file[RunOf[c.seen]][c.seen]) \in Nat
                  /\ y # x => Times(y, g[RunOf[c.seen]][c.seen])
                               = Times(y, file[RunOf[c.seen]][c.seen])
    <3>1. ASSUME NEW y
          PROVE  /\ Times(y, file[RunOf[c.seen]][c.seen]) \in Nat
                 /\ y # x => Times(y, g[RunOf[c.seen]][c.seen])
                              = Times(y, file[RunOf[c.seen]][c.seen])
      <4>1. /\ Times(y, file[RunOf[c.seen]][c.seen]) \in Nat
            /\ Times(y, g[RunOf[c.seen]][c.seen])
                 = Times(y, file[RunOf[c.seen]][c.seen])
                   + IF y = x THEN IF InChild(c) THEN 1
                                   ELSE exporters[RunOf[c.seen]] ELSE 0
        BY <2>5 DEF AddedTo
      <4> HIDE DEF g, c
      <4> QED BY <4>1
    <3> QED BY <2>5, <3>1 DEF ExportedAs
  <2>7. file' = g
    BY <2>3
  <2> HIDE DEF g, c
  <2>8. \A r \in Runs \ {own} : file'[r][t] = file[r][t]
    BY <2>6, <2>7
  <2>9. ASSUME NEW y, y # x
        PROVE  Times(y, file'[own][t]) = Times(y, file[own][t])
    <3>1. CASE t = c.seen
      BY <2>9, <2>6, <2>7, <3>1
    <3>2. CASE t # c.seen
      BY <2>6, <2>7, <3>2 DEF TracingAssumption
    <3> QED BY <3>1, <3>2
  <2>10. \A k \in 0..MaxSteps : Tool(k) # x
    BY <2>4, OwnSpans
  <2>11. Root # x
    BY <2>4, OwnSpans
  <2>12. \A n : /\ OpenSpans(t, file[own][t], n)
                     => OpenSpans(t, file'[own][t], n)
                /\ EndedSpans(t, file[own][t], n)
                     => EndedSpans(t, file'[own][t], n)
    BY <2>9, <2>10, <2>11 DEF OpenSpans, EndedSpans
  <2>13. \A f, n : /\ OpenSpans(t, f, n) <=> OpenSpans(t, f, n)'
                   /\ EndedSpans(t, f, n) <=> EndedSpans(t, f, n)'
    BY <1>1 DEF OpenSpans, EndedSpans
  <2>14. FileInv(t)'
    BY <1>1, <2>8, <2>12, <2>13 DEF FileInv
  <2>15. OpenInv(t)'
    BY <1>1 DEF OpenInv
  <2> QED BY <2>14, <2>15
<1> QED BY <1>2, <1>3

\* The spans stay in order, whoever moves.
LEMMA SpansStep ==
  ASSUME TracingAssumption, TypeOK, SpansInv, Next
  PROVE  SpansInv'
<1>1. ASSUME NEW s \in Sessions, SessionStep(s)
      PROVE  SpansInv'
  <2>1. OpenInv(s)' /\ FileInv(s)'
    BY <1>1, SpansOwn DEF SpansInv
  <2>2. \A t \in Sessions \ {s} : OpenInv(t)' /\ FileInv(t)'
    BY <1>1, SpansOthers, SpansKept DEF SpansInv
  <2> QED BY <2>1, <2>2 DEF SpansInv
<1>2. ASSUME NEW s \in Sessions, NEW i \in 1..MaxCalls[s], Callback(s, i)
      PROVE  SpansInv'
  BY <1>2, SpansCallback DEF SpansInv
<1> QED BY <1>1, <1>2 DEF Next

\* Every variable keeps its type, whoever moves.
LEMMA TracingTypes ==
  ASSUME TracingAssumption, TypeOK, SpansInv, Next
  PROVE  TypeOK'
BY SessionTypes, CallbackTypes DEF SpansInv, Next

-----------------------------------------------------------------------------
(***************************************************************************)
(* The LLM calls.                                                          *)
(***************************************************************************)
\* What stays of call i of session s.
Stays(s, i) ==
  /\ i \in DOMAIN calls'[s]
  /\ calls'[s][i].by = calls[s][i].by
  /\ calls'[s][i].inherits = calls[s][i].inherits
  /\ calls[s][i].moved => calls'[s][i].moved

\* Every step leaves who made a call alone, and the histories only grow.
Grows ==
  /\ runner' = runner /\ wrote \subseteq wrote'
  /\ \A s \in Sessions : \A i \in DOMAIN calls[s] : Stays(s, i)

\* So what a callback may find does.
LEMMA FoundGrows ==
  ASSUME Grows, NEW s \in Sessions, NEW i \in DOMAIN calls[s]
  PROVE  Found(s, calls[s][i]) \subseteq Found(s, calls[s][i])'
BY DEF Grows, Stays, Found, Carries, InChild

\* What was traced rightly stays so.
LEMMA TracesStay ==
  ASSUME Grows, NEW t
  PROVE  /\ \A x : SpanOK(t, x) => SpanOK(t, x)'
         /\ \A p : TimingOK(t, p) => TimingOK(t, p)'
<1>1. ASSUME NEW x, SpanOK(t, x) PROVE SpanOK(t, x)'
  <2>1. CASE x.kind = "llm"
    <3>1. x.of \in Sessions /\ x.n \in DOMAIN calls[x.of]
      BY <1>1, <2>1 DEF SpanOK
    <3>2. Stays(x.of, x.n)
      BY <3>1 DEF Grows
    <3>3. Found(x.of, calls[x.of][x.n])
         \subseteq Found(x.of, calls[x.of][x.n])'
      BY <3>1, FoundGrows
    <3> QED BY <1>1, <2>1, <3>1, <3>2, <3>3 DEF SpanOK, Stays
  <2>2. CASE x.kind # "llm"
    BY <2>2 DEF SpanOK
  <2> QED BY <2>1, <2>2
<1>2. ASSUME NEW p, TimingOK(t, p) PROVE TimingOK(t, p)'
  <2>1. p[1] \in Sessions /\ p[2] \in DOMAIN calls[p[1]]
    BY <1>2 DEF TimingOK
  <2>2. Stays(p[1], p[2])
    BY <2>1 DEF Grows
  <2>3. Found(p[1], calls[p[1]][p[2]])
         \subseteq Found(p[1], calls[p[1]][p[2]])'
    BY <2>1, FoundGrows
  <2> QED BY <1>2, <2>1, <2>2, <2>3 DEF TimingOK, Stays
<1> QED BY <1>1, <1>2

\* An own span is no trace of a call.
LEMMA OwnIsOK == \A t : \A x \in OwnSpan : SpanOK(t, x) /\ SpanOK(t, x)'
BY OwnSpans DEF SpanOK

\* What overwriting the fallback does to the calls.
Warned ==
  \A t \in Sessions :
    /\ DOMAIN calls'[t] = DOMAIN calls[t]
    /\ calls'[t] = <<>> <=> calls[t] = <<>>
    /\ \A i \in DOMAIN calls[t] :
         LET c == calls[t][i]
             d == calls'[t][i]
         IN /\ d.by = c.by /\ d.inherits = c.inherits /\ d.stage = c.stage
            /\ d.row = c.row /\ d.seen = c.seen
            /\ c.moved => d.moved
            /\ c.stage = "parent" => d.moved

\* It tells the callbacks between two reads, and them only.
LEMMA WritesWarn ==
  ASSUME TypeOK, NEW s, NEW to, WriteFallback(s, to)
  PROVE  Warned
<1> SUFFICES ASSUME NEW t \in Sessions
             PROVE  /\ DOMAIN calls'[t] = DOMAIN calls[t]
                    /\ calls'[t] = <<>> <=> calls[t] = <<>>
                    /\ \A i \in DOMAIN calls[t] :
                         LET c == calls[t][i]
                             d == calls'[t][i]
                         IN /\ d.by = c.by /\ d.inherits = c.inherits
                            /\ d.stage = c.stage
                            /\ d.row = c.row /\ d.seen = c.seen
                            /\ c.moved => d.moved
                            /\ c.stage = "parent" => d.moved
  BY DEF Warned
<1>1. calls'[t] = [i \in DOMAIN calls[t] |->
                     IF calls[t][i].stage = "parent"
                     THEN [calls[t][i] EXCEPT !.moved = TRUE]
                     ELSE calls[t][i]]
  BY DEF WriteFallback
<1>2. /\ calls[t] \in Seq(CallStates)
      /\ \A i \in DOMAIN calls[t] : calls[t][i] \in CallStates
  BY CallOK DEF TypeOK
<1>3. calls'[t] = <<>> <=> calls[t] = <<>>
  <2>1. DOMAIN calls'[t] = DOMAIN calls[t]
    BY <1>1
  <2>2. CASE calls[t] = <<>>
    <3>1. DOMAIN calls[t] = {}
      BY <2>2
    <3> QED BY <1>1, <2>2, <3>1
  <2>3. CASE calls[t] # <<>>
    <3>1. DOMAIN calls[t] # {}
      BY <1>2, <2>3, EmptySeq, LenProperties
    <3> QED BY <2>1, <2>3, <3>1
  <2> QED BY <2>2, <2>3
<1>4. ASSUME NEW i \in DOMAIN calls[t]
      PROVE  LET c == calls[t][i]
                 d == calls'[t][i]
             IN /\ d.by = c.by /\ d.inherits = c.inherits
                /\ d.stage = c.stage /\ d.row = c.row /\ d.seen = c.seen
                /\ c.moved => d.moved
                /\ c.stage = "parent" => d.moved
  BY <1>1, <1>2 DEF CallStates
<1> QED BY <1>1, <1>3, <1>4

\* What a step of a session's thread does to the calls and the fallback.
Overwrites(s) ==
  /\ wrote' = wrote \cup {s} /\ fallback' \in {s, None} /\ Warned
LEMMA SessionEffects ==
  ASSUME TracingAssumption, TypeOK, NEW s \in Sessions, ContextInv(s),
         SessionStep(s)
  PROVE  /\ runner' = runner
         /\ \/ Overwrites(s)
            \/ UNCHANGED <<fallback, wrote, calls>>
            \/ \E role \in Roles : CallLLM(s, role)
         /\ \A t \in Sessions \ {s} :
              pc'[t] = pc[t] /\ context'[t] = context[t]
              /\ runtime'[t] = runtime[t]
<1> USE DEF Goto
<1>1. CASE \/ Enter(s) \/ Start(s) \/ React(s) \/ Step(s) \/ Stop(s)
           \/ Record(s) \/ Finalize(s) \/ SortRead(s) \/ SortWrite(s)
  BY <1>1 DEF TypeOK, Enter, Start, React, Step, Stop, Record, Finalize,
              SortRead, SortWrite, KeepFallback
<1>2. ASSUME NEW role \in Roles, Spawn(s, role) \/ SpawnFails(s, role)
      PROVE  /\ runner' = runner
             /\ Overwrites(s) \/ UNCHANGED <<fallback, wrote, calls>>
             /\ \A t \in Sessions \ {s} :
                  pc'[t] = pc[t] /\ context'[t] = context[t]
                  /\ runtime'[t] = runtime[t]
  <2>1. Current(s) = s
    BY <1>2 DEF ContextInv, Spawn, SpawnFails, Current, Roles,
                TracingAssumption
  <2>2. WriteFallback(s, s) \/ KeepFallback
    BY <1>2, <2>1 DEF Spawn, SpawnFails
  <2>3. Overwrites(s) \/ UNCHANGED <<fallback, wrote, calls>>
    BY <2>2, WritesWarn DEF Overwrites, WriteFallback, KeepFallback
  <2> QED BY <1>2, <2>3 DEF TypeOK, Spawn, SpawnFails
<1>3. CASE Close(s) \/ CloseAgent(s)
  <2>1. WriteFallback(s, None) \/ KeepFallback
    BY <1>3 DEF Close, CloseAgent
  <2>2. Overwrites(s) \/ UNCHANGED <<fallback, wrote, calls>>
    BY <2>1, WritesWarn DEF Overwrites, WriteFallback, KeepFallback
  <2> QED BY <1>3, <2>2 DEF TypeOK, Close, CloseAgent, Leave
<1>4. ASSUME NEW role \in Roles, CallLLM(s, role)
      PROVE  /\ runner' = runner
             /\ \A t \in Sessions \ {s} :
                  pc'[t] = pc[t] /\ context'[t] = context[t]
                  /\ runtime'[t] = runtime[t]
  BY <1>4 DEF CallLLM
<1> QED BY <1>1, <1>2, <1>3, <1>4 DEF SessionStep

\* A new call comes after the others, without a row.
Calls(s) ==
  /\ \A t \in Sessions \ {s} : calls'[t] = calls[t]
  /\ DOMAIN calls[s] \subseteq DOMAIN calls'[s] /\ calls'[s] # <<>>
  /\ \A i \in DOMAIN calls[s] : calls'[s][i] = calls[s][i]
  /\ \A i \in DOMAIN calls'[s] \ DOMAIN calls[s] :
       calls'[s][i].stage = "row" /\ calls'[s][i].row = None
  /\ UNCHANGED <<runner, pc, context, fallback, runtime, wrote>>
  /\ pc[s] \in {"loop", "start", "step"}
LEMMA CallsOK ==
  ASSUME TracingAssumption, TypeOK, NEW s \in Sessions, NEW role \in Roles,
         CallLLM(s, role)
  PROVE  Calls(s)
<1>1. PICK inherits \in BOOLEAN :
        calls' = [calls EXCEPT ![s] = Append(@,
          [by |-> role, inherits |-> inherits, stage |-> "row",
           row |-> None, seen |-> None, moved |-> FALSE])]
  BY DEF CallLLM
<1> DEFINE c == [by |-> role, inherits |-> inherits, stage |-> "row",
                 row |-> None, seen |-> None, moved |-> FALSE]
<1>2. c \in CallStates
  BY DEF CallStates, Stages, Contexts
<1>3. c.stage = "row" /\ c.row = None
  OBVIOUS
<1>4. /\ calls'[s] = Append(calls[s], c) /\ calls[s] \in Seq(CallStates)
      /\ \A t \in Sessions \ {s} : calls'[t] = calls[t]
  BY <1>1 DEF TypeOK
<1> HIDE DEF c
<1>5. /\ calls'[s] \in Seq(CallStates) /\ calls'[s] # <<>>
      /\ Len(calls'[s]) = Len(calls[s]) + 1
      /\ \A i \in 1..Len(calls[s]) : calls'[s][i] = calls[s][i]
      /\ calls'[s][Len(calls[s]) + 1] = c
  BY <1>2, <1>4, AppendProperties
<1>6. /\ Len(calls[s]) \in Nat /\ DOMAIN calls[s] = 1..Len(calls[s])
      /\ DOMAIN calls'[s] = 1..Len(calls'[s])
  BY <1>4, <1>5, LenProperties
<1>7. /\ DOMAIN calls[s] \subseteq DOMAIN calls'[s]
      /\ \A i \in DOMAIN calls'[s] \ DOMAIN calls[s] : calls'[s][i] = c
  BY <1>5, <1>6
<1>8. /\ UNCHANGED <<runner, pc, context, fallback, runtime, wrote>>
      /\ pc[s] \in {"loop", "start", "step"}
  BY DEF CallLLM
<1> QED BY <1>3, <1>4, <1>5, <1>6, <1>7, <1>8 DEF Calls

\* What a callback of call i of session s does to the calls.
Continues(s, i, d) ==
  LET c == calls[s][i]
  IN /\ d.by = c.by /\ d.inherits = c.inherits /\ d.moved = c.moved
     /\ d.stage # "row"
     /\ d.row = IF c.stage = "row" /\ d.stage # "lost" THEN ContextOf(s, c)
                ELSE c.row
     /\ c.stage # "lost"
     /\ d.stage = "parent" => d.seen = ContextOf(s, c)

\* It is one step of that call, and leaves the others alone.
Continued(s, i) ==
  /\ i \in DOMAIN calls[s]
  /\ \E d \in CallStates :
       /\ calls' = [calls EXCEPT ![s][i] = d]
       /\ Continues(s, i, d)
  /\ UNCHANGED <<runner, pc, context, fallback, runtime, wrote, sorting,
                 counted>>

\* So every callback does.
LEMMA CallbackEffects ==
  ASSUME TracingAssumption, TypeOK, NEW s \in Sessions,
         NEW i \in 1..MaxCalls[s], Callback(s, i)
  PROVE  Continued(s, i)
<1> DEFINE c == calls[s][i]
           now == ContextOf(s, c)
<1>1. i \in DOMAIN calls[s]
  BY DEF Callback, WriteRow, InitOtel, ReadSession, EmitSpan, RecordTiming,
         LoseCallback, At
<1>2. c \in CallStates /\ now \in Contexts
  BY <1>1, CallOK
<1>3. UNCHANGED <<runner, pc, context, fallback, runtime, wrote, sorting,
                  counted>>
  BY DEF Callback
<1> SUFFICES \E d \in CallStates : Update(s, i, d) /\ Continues(s, i, d)
  BY <1>1, <1>3 DEF Continued, Update
<1> HIDE DEF now
<1>4. CASE WriteRow(s, i)
  <2> DEFINE d == [c EXCEPT !.stage = "otel", !.row = now]
  <2>1. d \in CallStates /\ Update(s, i, d)
    BY <1>2, <1>4 DEF CallStates, Stages, WriteRow, now
  <2>2. Continues(s, i, d)
    BY <1>2, <1>4 DEF CallStates, Continues, WriteRow, At, now
  <2> QED BY <2>1, <2>2
<1>5. CASE InitOtel(s, i)
  <2>1. PICK st \in {"span", "timing"} : Update(s, i, [c EXCEPT !.stage = st])
    BY <1>5 DEF InitOtel
  <2> DEFINE d == [c EXCEPT !.stage = st]
  <2>2. d \in CallStates /\ Update(s, i, d)
    BY <1>2, <2>1 DEF CallStates, Stages
  <2>3. Continues(s, i, d)
    BY <1>2, <1>5 DEF CallStates, Continues, InitOtel, At
  <2> QED BY <2>2, <2>3
<1>6. CASE ReadSession(s, i)
  <2> DEFINE d == [c EXCEPT !.stage = "parent", !.seen = now]
  <2>1. d \in CallStates /\ Update(s, i, d)
    BY <1>2, <1>6 DEF CallStates, Stages, ReadSession, now
  <2>2. Continues(s, i, d)
    BY <1>2, <1>6 DEF CallStates, Continues, ReadSession, At, now
  <2> QED BY <2>1, <2>2
<1>7. CASE EmitSpan(s, i)
  <2> DEFINE d == [c EXCEPT !.stage = "timing"]
  <2>1. d \in CallStates /\ Update(s, i, d)
    BY <1>2, <1>7 DEF CallStates, Stages, EmitSpan
  <2>2. Continues(s, i, d)
    BY <1>2, <1>7 DEF CallStates, Continues, EmitSpan, At
  <2> QED BY <2>1, <2>2
<1>8. CASE RecordTiming(s, i)
  <2> DEFINE d == [c EXCEPT !.stage = "logged"]
  <2>1. d \in CallStates /\ Update(s, i, d)
    BY <1>2, <1>8 DEF CallStates, Stages, RecordTiming
  <2>2. Continues(s, i, d)
    BY <1>2, <1>8 DEF CallStates, Continues, RecordTiming, At
  <2> QED BY <2>1, <2>2
<1>9. CASE LoseCallback(s, i)
  <2> DEFINE d == [c EXCEPT !.stage = "lost"]
  <2>1. d \in CallStates /\ Update(s, i, d)
    BY <1>2, <1>9 DEF CallStates, Stages, LoseCallback
  <2>2. Continues(s, i, d)
    BY <1>2, <1>9 DEF CallStates, Continues, LoseCallback
  <2> QED BY <2>1, <2>2
<1> QED BY <1>4, <1>5, <1>6, <1>7, <1>8, <1>9 DEF Callback

\* What the call is after that, and the other calls.
LEMMA ContinuedOK ==
  ASSUME TypeOK, NEW s \in Sessions, NEW i, Continued(s, i)
  PROVE  /\ Continues(s, i, calls'[s][i])
         /\ \A t \in Sessions : DOMAIN calls'[t] = DOMAIN calls[t]
         /\ \A t \in Sessions : calls'[t] = <<>> <=> calls[t] = <<>>
         /\ \A t \in Sessions : \A j \in DOMAIN calls[t] :
              t # s \/ j # i => calls'[t][j] = calls[t][j]
<1>1. PICK d \in CallStates : /\ calls' = [calls EXCEPT ![s][i] = d]
                              /\ Continues(s, i, d)
  BY DEF Continued
<1>2. /\ calls'[s] = [calls[s] EXCEPT ![i] = d] /\ i \in DOMAIN calls[s]
      /\ \A t \in Sessions \ {s} : calls'[t] = calls[t]
      /\ calls[s] \in Seq(CallStates)
  BY <1>1 DEF TypeOK, Continued
<1>3. DOMAIN calls'[s] = DOMAIN calls[s] /\ DOMAIN calls[s] # {}
      /\ calls'[s][i] = d
      /\ \A j \in DOMAIN calls[s] : j # i => calls'[s][j] = calls[s][j]
  BY <1>2
<1>4. calls[s] # <<>> /\ calls'[s] # <<>>
  BY <1>3
<1> QED BY <1>1, <1>2, <1>3, <1>4

\* Every step lets the histories grow.
LEMMA GrowsAlways ==
  ASSUME TracingAssumption, TypeOK, LLMInv, Next
  PROVE  Grows
<1>1. ASSUME NEW s \in Sessions, SessionStep(s)
      PROVE  Grows
  <2>1. /\ runner' = runner
        /\ \/ Overwrites(s)
           \/ UNCHANGED <<fallback, wrote, calls>>
           \/ Calls(s)
    BY <1>1, SessionEffects, CallsOK DEF LLMInv
  <2>2. CASE Overwrites(s)
    BY <2>1, <2>2 DEF Grows, Stays, Overwrites, Warned
  <2>3. CASE UNCHANGED <<fallback, wrote, calls>>
    BY <2>1, <2>3 DEF Grows, Stays
  <2>4. CASE Calls(s)
    <3>1. ASSUME NEW t \in Sessions, NEW j \in DOMAIN calls[t]
          PROVE  Stays(t, j)
      BY <2>4 DEF Calls, Stays
    <3> QED BY <2>4, <3>1 DEF Calls, Grows
  <2> QED BY <2>1, <2>2, <2>3, <2>4
<1>2. ASSUME NEW s \in Sessions, NEW i \in 1..MaxCalls[s], Callback(s, i)
      PROVE  Grows
  <2>1. Continued(s, i)
    BY <1>2, CallbackEffects
  <2>2. ASSUME NEW t \in Sessions, NEW j \in DOMAIN calls[t]
        PROVE  Stays(t, j)
    <3>1. CASE t = s /\ j = i
      BY <2>1, <3>1, ContinuedOK DEF Stays, Continues
    <3>2. CASE ~(t = s /\ j = i)
      BY <2>1, <3>2, ContinuedOK DEF Stays
    <3> QED BY <3>1, <3>2
  <2> QED BY <2>1, <2>2 DEF Grows, Continued
<1> QED BY <1>1, <1>2 DEF Next

\* What a call's callback reads is what it may find.
LEMMA ReadsFound ==
  ASSUME TypeOK, LLMInv, NEW s \in Sessions, NEW i \in DOMAIN calls[s]
  PROVE  ContextOf(s, calls[s][i]) \in Found(s, calls[s][i])
<1> DEFINE c == calls[s][i]
<1>1. CASE InChild(c)
  <2>1. c.by \in Roles /\ runner[c.by] = "child" /\ calls[s] # <<>>
    BY <1>1, CallOK DEF CallStates, InChild
  <2>2. runtime[s][c.by] = s
    BY <2>1 DEF LLMInv, ContextInv
  <2> QED BY <1>1, <2>2 DEF ContextOf, Found, Carries
<1>2. CASE ~InChild(c)
  BY <1>2 DEF ContextOf, Found, Carries, LLMInv
<1> QED BY <1>1, <1>2

\* The contexts stay what they are given.
LEMMA ContextStep ==
  ASSUME TracingAssumption, TypeOK, LLMInv, Next, NEW t \in Sessions
  PROVE  ContextInv(t)'
<1> USE DEF Goto
<1>1. ContextInv(t)
  BY DEF LLMInv
\* The session's own thread and calls have not moved.
<1>2. ASSUME runner' = runner, pc'[t] = pc[t], context'[t] = context[t],
             runtime'[t] = runtime[t], calls'[t] = <<>> <=> calls[t] = <<>>
      PROVE  ContextInv(t)'
  BY <1>1, <1>2 DEF ContextInv
<1>3. ASSUME NEW s \in Sessions, NEW i \in 1..MaxCalls[s], Callback(s, i)
      PROVE  ContextInv(t)'
  <2>1. Continued(s, i)
    BY <1>3, CallbackEffects
  <2> QED BY <1>2, <2>1, ContinuedOK DEF Continued
<1>4. ASSUME NEW s \in Sessions, SessionStep(s), t # s
      PROVE  ContextInv(t)'
  <2>1. /\ runner' = runner
        /\ \/ Overwrites(s)
           \/ UNCHANGED <<fallback, wrote, calls>>
           \/ Calls(s)
        /\ pc'[t] = pc[t] /\ context'[t] = context[t]
        /\ runtime'[t] = runtime[t]
    BY <1>4, SessionEffects, CallsOK DEF LLMInv
  <2>2. calls'[t] = <<>> <=> calls[t] = <<>>
    BY <1>4, <2>1 DEF Overwrites, Warned, Calls
  <2> QED BY <1>2, <2>1, <2>2
<1>5. ASSUME SessionStep(t)
      PROVE  ContextInv(t)'
  <2>1. /\ runner' = runner
        /\ \/ Overwrites(t)
           \/ UNCHANGED <<fallback, wrote, calls>>
           \/ Calls(t)
    BY <1>5, SessionEffects, CallsOK DEF LLMInv
  <2>2. ASSUME \A role \in Roles : ~CallLLM(t, role)
        PROVE  calls'[t] = <<>> <=> calls[t] = <<>>
    BY <1>5, <2>2, SessionEffects DEF LLMInv, Overwrites, Warned
  <2>3. CASE Enter(t)
    BY <1>1, <2>1, <2>3 DEF Enter, ContextInv, Entering, TypeOK
  <2>4. ASSUME NEW role \in Roles, Spawn(t, role)
        PROVE  ContextInv(t)'
    <3>1. /\ pc[t] = role /\ runner' = runner /\ context' = context
          /\ pc'[t] = IF role = "benchmark" THEN "agent" ELSE "start"
          /\ runtime'[t][role] = IF runner[role] = "child" THEN Current(t)
                                 ELSE runtime[t][role]
          /\ \A o \in Roles \ {role} : runtime'[t][o] = runtime[t][o]
      BY <2>4 DEF Spawn, TypeOK
    <3>2. calls[t] = <<>> /\ context[t] = t /\ Current(t) = t
      BY <1>1, <3>1 DEF ContextInv, Entering, Roles, Current, TracingAssumption
    <3>3. calls'[t] = <<>>
      BY <2>4, <3>2, WritesWarn DEF Spawn, Warned, KeepFallback
    <3> QED BY <1>1, <3>1, <3>2, <3>3 DEF ContextInv, Entering, Roles
  <2>5. ASSUME NEW role \in Roles, SpawnFails(t, role)
        PROVE  ContextInv(t)'
    <3>1. /\ pc[t] = role /\ pc'[t] = "left"
      BY <2>5 DEF SpawnFails, TypeOK
    <3>2. calls[t] = <<>>
      BY <1>1, <3>1 DEF ContextInv, Entering, Roles
    <3>3. calls'[t] = <<>>
      BY <2>5, <3>2, WritesWarn DEF SpawnFails, Warned, KeepFallback
    <3> QED BY <3>1, <3>3 DEF ContextInv, Entering
  <2>6. ASSUME NEW role \in Roles, CallLLM(t, role)
        PROVE  ContextInv(t)'
    <3>1. Calls(t)
      BY <2>6, CallsOK
    <3> QED BY <1>1, <3>1 DEF ContextInv, Entering, Calls
  <2>7. CASE \/ Start(t) \/ React(t) \/ Step(t) \/ Stop(t) \/ Record(t)
             \/ Finalize(t) \/ SortRead(t) \/ SortWrite(t) \/ Close(t)
             \/ CloseAgent(t)
    <3>1. /\ pc[t] \notin Entering \cup {"left", "idle", "done"}
          /\ pc'[t] \notin Entering
          /\ pc'[t] \notin {"idle", "left", "done"} => context' = context
          /\ runtime' = runtime
      BY <2>7 DEF Start, React, Step, Stop, Record, Finalize, SortRead,
                  SortWrite, Close, CloseAgent, Leave, Entering, TypeOK
    <3> QED BY <1>1, <2>1, <3>1 DEF ContextInv, Entering
  <2> QED BY <1>5, <2>3, <2>4, <2>5, <2>6, <2>7 DEF SessionStep
<1> QED BY <1>3, <1>4, <1>5 DEF Next

\* The fallback is nobody's, or a writer's.
LEMMA FallbackStep ==
  ASSUME TracingAssumption, TypeOK, LLMInv, Next
  PROVE  fallback' \in wrote' \cup {None}
<1>1. ASSUME NEW s \in Sessions, SessionStep(s)
      PROVE  fallback' \in wrote' \cup {None}
  BY <1>1, SessionEffects, CallsOK DEF LLMInv, Overwrites, Calls
<1>2. ASSUME NEW s \in Sessions, NEW i \in 1..MaxCalls[s], Callback(s, i)
      PROVE  fallback' \in wrote' \cup {None}
  BY <1>2, CallbackEffects DEF LLMInv, Continued
<1> QED BY <1>1, <1>2 DEF Next

\* What is known of call c of session s.
ReadOK(s, c) ==
  /\ c.stage \notin {"row", "lost"} => c.row \in Found(s, c)
  /\ c.stage = "lost" => c.row \in Found(s, c) \cup {None}
  /\ c.stage = "row" => c.row = None
  /\ c.stage = "parent" => c.seen \in Found(s, c)
  /\ c.stage = "parent" /\ ~c.moved => c.seen = ContextOf(s, c)

\* A call whose contexts stay the same is read as before.
LEMMA ReadKept ==
  ASSUME TypeOK, LLMInv, Grows, NEW s \in Sessions, NEW i \in DOMAIN calls[s],
         calls'[s][i] = calls[s][i], fallback' = fallback,
         runtime'[s] = runtime[s]
  PROVE  ReadOK(s, calls[s][i])'
<1> DEFINE c == calls[s][i]
<1>1. ReadOK(s, c)
  BY DEF LLMInv, ReadInv, ReadOK
<1>2. Found(s, c) \subseteq Found(s, c)'
  BY FoundGrows
<1>3. ContextOf(s, c)' = ContextOf(s, c)
  BY DEF ContextOf, InChild, Carries, Grows
<1> QED BY <1>1, <1>2, <1>3 DEF ReadOK

\* The reads of every call stay what they may find.
LEMMA ReadStep ==
  ASSUME TracingAssumption, TypeOK, LLMInv, Next, NEW t \in Sessions
  PROVE  ReadInv(t)'
<1>1. Grows
  BY GrowsAlways
<1> SUFFICES ASSUME NEW j \in DOMAIN calls'[t]
             PROVE  ReadOK(t, calls[t][j])'
  BY DEF ReadInv, ReadOK
<1>2. ASSUME NEW s \in Sessions, SessionStep(s)
      PROVE  ReadOK(t, calls[t][j])'
  <2>1. /\ runner' = runner
        /\ \/ Overwrites(s)
           \/ UNCHANGED <<fallback, wrote, calls>>
           \/ Calls(s)
        /\ t # s => runtime'[t] = runtime[t]
    BY <1>2, SessionEffects, CallsOK DEF LLMInv
  <2>2. CASE Overwrites(s)
    <3> DEFINE c == calls[t][j]
               d == calls'[t][j]
    <3>1. /\ j \in DOMAIN calls[t] /\ d.stage = c.stage /\ d.row = c.row
          /\ d.seen = c.seen /\ (c.stage = "parent" => d.moved)
      BY <2>2 DEF Overwrites, Warned
    <3>2. ReadOK(t, c)
      BY <3>1 DEF LLMInv, ReadInv, ReadOK
    <3>3. Found(t, c) \subseteq Found(t, c)'
      BY <1>1, <3>1, FoundGrows
    <3> QED BY <3>1, <3>2, <3>3 DEF ReadOK
  <2>3. CASE UNCHANGED <<fallback, wrote, calls>>
    <3>1. calls[t] # <<>>
      BY <2>3
    <3>2. runtime'[t] = runtime[t]
      <4>1. CASE t = s
        <5>1. pc[s] \notin Entering
          BY <3>1, <4>1 DEF LLMInv, ContextInv
        <5> QED BY <1>2, <4>1, <5>1
                DEF SessionStep, Entering, Roles, Enter, Spawn, SpawnFails,
                    Start, React, Step, Stop, Record, Finalize, SortRead,
                    SortWrite, Close, CloseAgent, CallLLM
      <4> QED BY <2>1, <4>1
    <3> QED BY <1>1, <2>3, <3>2, ReadKept
  <2>4. CASE Calls(s)
    <3>1. CASE j \in DOMAIN calls[t]
      BY <1>1, <2>4, <3>1, ReadKept DEF Calls
    <3>2. CASE j \notin DOMAIN calls[t]
      BY <2>4, <3>2 DEF Calls, ReadOK
    <3> QED BY <3>1, <3>2
  <2> QED BY <2>1, <2>2, <2>3, <2>4
<1>3. ASSUME NEW s \in Sessions, NEW i \in 1..MaxCalls[s], Callback(s, i)
      PROVE  ReadOK(t, calls[t][j])'
  <2>1. Continued(s, i)
    BY <1>3, CallbackEffects
  <2>2. j \in DOMAIN calls[t]
    BY <2>1, ContinuedOK
  <2>3. CASE ~(t = s /\ j = i)
    BY <1>1, <2>1, <2>2, <2>3, ContinuedOK, ReadKept DEF Continued
  <2>4. CASE t = s /\ j = i
    <3> DEFINE c == calls[s][i]
               d == calls'[s][i]
    <3>1. Continues(s, i, d)
      BY <2>1, ContinuedOK
    <3>2. ReadOK(s, c)
      BY <2>2, <2>4 DEF LLMInv, ReadInv, ReadOK
    <3>3. ContextOf(s, c) \in Found(s, c)
      BY <2>2, <2>4, ReadsFound
    <3>4. Found(s, c) \subseteq Found(s, c)'
      BY <1>1, <2>2, <2>4, FoundGrows
    <3>5. ContextOf(s, c)' = ContextOf(s, c)
      BY <2>1, <3>1 DEF ContextOf, InChild, Carries, Continued, Continues
    <3> QED BY <2>4, <3>1, <3>2, <3>3, <3>4, <3>5 DEF ReadOK, Continues
  <2> QED BY <2>3, <2>4
<1> QED BY <1>2, <1>3 DEF Next

\* The spans of the files and of a sort under way come from what was there,
\* are own spans, or are right.
LEMMA TraceKept ==
  ASSUME LLMInv, Grows, NEW t \in Sessions,
         \A r \in Runs : \A k \in DOMAIN file'[r][t] :
           \/ \E j \in DOMAIN file[r][t] : file'[r][t][k] = file[r][t][j]
           \/ \E j \in DOMAIN sorting[t] : file'[r][t][k] = sorting[t][j]
           \/ SpanOK(t, file[r][t][k])',
         \/ sorting'[t] \in {sorting[t], <<>>}
         \/ \E r \in Runs : sorting'[t] = file[r][t],
         \A p \in timings'[t] \cup counted'[t] :
           p \in timings[t] \cup counted[t] \/ TimingOK(t, p)'
  PROVE  TraceInv(t)'
<1>1. TraceInv(t)
  BY DEF LLMInv
<1>2. ASSUME NEW r \in Runs, NEW k \in DOMAIN file'[r][t]
      PROVE  SpanOK(t, file[r][t][k])'
  <2>1. PICK x : x = file'[r][t][k]
    OBVIOUS
  <2>2. SpanOK(t, x) \/ SpanOK(t, x)'
    BY <1>1, <2>1 DEF TraceInv
  <2>3. SpanOK(t, x)'
    BY <2>2, TracesStay
  <2> QED BY <2>1, <2>3
<1>3. ASSUME NEW k \in DOMAIN sorting'[t]
      PROVE  SpanOK(t, sorting[t][k])'
  <2>1. PICK x : x = sorting'[t][k]
    OBVIOUS
  <2>2. CASE sorting'[t] = <<>>
    BY <2>2
  <2>3. CASE sorting'[t] # <<>>
    <3>1. SpanOK(t, x)
      BY <1>1, <2>1, <2>3 DEF TraceInv
    <3>2. SpanOK(t, x)'
      BY <3>1, TracesStay
    <3> QED BY <2>1, <3>2
  <2> QED BY <2>2, <2>3
<1>4. \A p \in timings'[t] \cup counted'[t] : TimingOK(t, p)'
  BY <1>1, TracesStay DEF TraceInv
<1> QED BY <1>2, <1>3, <1>4 DEF TraceInv

\* Every span of t's files in g is an own span, or one of those in f.
From(g, f, t) ==
  \A r \in Runs : \A k \in DOMAIN g[r][t] :
    \/ g[r][t][k] \in OwnSpan
    \/ \E j \in DOMAIN f[r][t] : g[r][t][k] = f[r][t][j]

\* Two steps of it make one.
LEMMA FromAll ==
  ASSUME NEW t, NEW f, NEW g, NEW h, From(g, f, t), From(h, g, t)
  PROVE  From(h, f, t)
<1> SUFFICES ASSUME NEW r \in Runs, NEW k \in DOMAIN h[r][t],
                    h[r][t][k] \notin OwnSpan
             PROVE  \E j \in DOMAIN f[r][t] : h[r][t][k] = f[r][t][j]
  BY DEF From
<1>1. PICK j \in DOMAIN g[r][t] : h[r][t][k] = g[r][t][j]
  BY DEF From
<1>2. g[r][t][j] \notin OwnSpan
  BY <1>1
<1>3. PICK i \in DOMAIN f[r][t] : g[r][t][j] = f[r][t][i]
  BY <1>2 DEF From
<1> QED BY <1>1, <1>3

\* So it is when an own span is exported.
LEMMA ExportFrom ==
  ASSUME TracingAssumption, TypeOK, NEW s \in Sessions, NEW t \in Sessions,
         NEW y \in OwnSpan, NEW f \in [Runs -> [Sessions -> Seq(Spans)]]
  PROVE  /\ From(Exported(f, s, y, FALSE), f, t)
         /\ Exported(f, s, y, FALSE) \in [Runs -> [Sessions -> Seq(Spans)]]
<1>1. y \in Spans
  BY OwnSpans
<1>2. AddedTo(f, s, y, FALSE) /\ ExportedAs(f, s, y, FALSE)
  BY <1>1, ExportTimes, ExportOK
<1>3. \A r \in Runs : \A k \in DOMAIN Exported(f, s, y, FALSE)[r][t] :
        \/ t = s /\ Exported(f, s, y, FALSE)[r][t][k] = y
        \/ /\ k \in DOMAIN f[r][t]
           /\ Exported(f, s, y, FALSE)[r][t][k] = f[r][t][k]
  BY <1>2 DEF AddedTo
<1> QED BY <1>2, <1>3 DEF From, ExportedAs

\* Where the spans come from that a session's thread moves.
LEMMA SpanSources ==
  ASSUME TracingAssumption, TypeOK, SpansInv, NEW s \in Sessions,
         SessionStep(s), NEW t \in Sessions
  PROVE  /\ \A r \in Runs : \A k \in DOMAIN file'[r][t] :
              \/ \E j \in DOMAIN file[r][t] : file'[r][t][k] = file[r][t][j]
              \/ \E j \in DOMAIN sorting[t] : file'[r][t][k] = sorting[t][j]
              \/ file'[r][t][k] \in OwnSpan
         /\ \/ sorting'[t] \in {sorting[t], <<>>}
            \/ \E r \in Runs : sorting'[t] = file[r][t]
         /\ timings'[t] \cup counted'[t] \subseteq timings[t] \cup counted[t]
<1>1. OpenInv(s) /\ FileInv(s)
  BY DEF SpansInv
<1>3. file \in [Runs -> [Sessions -> Seq(Spans)]]
  BY DEF TypeOK, Spans
<1>4. CASE Start(s)
  <2>1. Tool(0) \in OwnSpan
    BY OwnSpans DEF TracingAssumption
  <2>2. From(file', file, t)
    BY <1>3, <1>4, <2>1, ExportFrom DEF Start
  <2> QED BY <1>4, <2>2 DEF Start, From
<1>5. CASE Step(s)
  <2>1. Last(stack[s]) \in OwnSpan
    <3>1. stack[s] = <<Root, Tool(steps[s])>>
      BY <1>1, <1>5 DEF Step, OpenInv
    <3>2. Last(stack[s]) = Tool(steps[s]) /\ steps[s] \in 1..MaxSteps
      BY <1>1, <3>1, OpenOK
    <3>3. steps[s] \in 0..MaxSteps
      BY <3>2
    <3> QED BY <3>2, <3>3, OwnSpans
  <2>2. From(file', file, t)
    BY <1>3, <1>5, <2>1, ExportFrom DEF Step
  <2> QED BY <1>5, <2>2 DEF Step, From
<1>6. CASE Finalize(s)
  <2> DEFINE trailing == IF Len(stack[s]) > 1
                         THEN Exported(file, s, Last(stack[s]), FALSE)
                         ELSE file
  <2>1. /\ Head(stack[s]) \in OwnSpan
        /\ Len(stack[s]) > 1 => Last(stack[s]) \in OwnSpan
    <3>1. CASE stack[s] = <<Root>>
      BY <3>1, OpenOK, OwnSpans
    <3>2. CASE stack[s] = <<Root, Tool(steps[s])>>
      <4>1. Tool(steps[s]) \in OwnSpan
        BY <1>1, <3>2, OpenOK, OwnSpans
      <4> QED BY <1>1, <3>2, <4>1, OpenOK, OwnSpans
    <3> QED BY <1>1, <1>6, <3>1, <3>2 DEF Finalize, OpenInv
  <2>2. /\ trailing \in [Runs -> [Sessions -> Seq(Spans)]]
        /\ From(trailing, file, t)
    <3>1. CASE Len(stack[s]) > 1
      BY <1>3, <2>1, <3>1, ExportFrom
    <3>2. CASE ~(Len(stack[s]) > 1)
      BY <1>3, <3>2 DEF From
    <3> QED BY <3>1, <3>2
  <2>3. /\ file' = Exported(trailing, s, Head(stack[s]), FALSE)
        /\ UNCHANGED <<sorting, timings, counted>>
    BY <1>6 DEF Finalize
  <2> HIDE DEF trailing
  <2>4. From(file', trailing, t)
    BY <2>1, <2>2, <2>3, ExportFrom
  <2>5. From(file', file, t)
    BY <2>2, <2>4, FromAll
  <2> QED BY <2>3, <2>5 DEF From
<1>7. CASE SortRead(s)
  BY <1>7 DEF SortRead, TypeOK, TracingAssumption
<1>8. CASE SortWrite(s)
  BY <1>8 DEF SortWrite, TypeOK, TracingAssumption
<1>9. CASE Record(s)
  BY <1>9 DEF Record, TypeOK
<1>10. CASE \/ Enter(s) \/ React(s) \/ Stop(s) \/ Close(s) \/ CloseAgent(s)
            \/ \E role \in Roles : \/ Spawn(s, role) \/ SpawnFails(s, role)
                                   \/ CallLLM(s, role)
  BY <1>10 DEF Enter, React, Stop, Close, CloseAgent, Spawn, SpawnFails,
               CallLLM
<1> QED BY <1>4, <1>5, <1>6, <1>7, <1>8, <1>9, <1>10 DEF SessionStep

\* The traces of the calls stay where they may be.
LEMMA TraceStep ==
  ASSUME TracingAssumption, TypeOK, SpansInv, LLMInv, Next,
         NEW t \in Sessions
  PROVE  TraceInv(t)'
<1>1. Grows
  BY GrowsAlways
<1>2. ASSUME NEW s \in Sessions, SessionStep(s)
      PROVE  TraceInv(t)'
  <2>1. /\ \A r \in Runs : \A k \in DOMAIN file'[r][t] :
             \/ \E j \in DOMAIN file[r][t] : file'[r][t][k] = file[r][t][j]
             \/ \E j \in DOMAIN sorting[t] : file'[r][t][k] = sorting[t][j]
             \/ file'[r][t][k] \in OwnSpan
        /\ \/ sorting'[t] \in {sorting[t], <<>>}
           \/ \E r \in Runs : sorting'[t] = file[r][t]
        /\ timings'[t] \cup counted'[t] \subseteq timings[t] \cup counted[t]
    BY <1>2, SpanSources
  <2>2. \A r \in Runs : \A k \in DOMAIN file'[r][t] :
          file'[r][t][k] \in OwnSpan => SpanOK(t, file[r][t][k])'
    BY OwnSpans DEF SpanOK
  <2> QED BY <1>1, <2>1, <2>2, TraceKept
<1>3. ASSUME NEW s \in Sessions, NEW i \in 1..MaxCalls[s], Callback(s, i)
      PROVE  TraceInv(t)'
  <2> DEFINE c == calls[s][i]
             now == ContextOf(s, c)
             x == [kind |-> "llm", of |-> s, n |-> i, parent |-> now]
  <2>1. Continued(s, i)
    BY <1>3, CallbackEffects
  <2>2. /\ i \in DOMAIN calls[s] /\ UNCHANGED <<sorting, counted>>
    BY <2>1 DEF Continued
  <2>3. /\ c \in CallStates /\ now \in Contexts /\ now \in Found(s, c)
        /\ Found(s, c) \subseteq Found(s, c)' /\ Stays(s, i)
        /\ ReadOK(s, c)
    BY <1>1, <2>2, CallOK, ReadsFound, FoundGrows
       DEF Grows, LLMInv, ReadInv, ReadOK
  <2>4. CASE file' = file /\ timings' = timings
    BY <1>1, <2>2, <2>4, TraceKept
  <2>5. CASE EmitSpan(s, i) /\ file' # file
    <3>1. /\ file' = Exported(file, c.seen, x, InChild(c))
          /\ c.seen \in Sessions /\ c.stage = "parent" /\ timings' = timings
      BY <2>3, <2>5 DEF EmitSpan, At, CallStates, Contexts
    <3>2. x \in Spans
      BY <2>2, <2>3, CallOK DEF Spans, LlmSpan
    <3>3. c.seen \in Found(s, c) /\ (~c.moved => c.seen = now)
      BY <2>3, <3>1 DEF ReadOK
    <3>4. ASSUME NEW u, NEW y, u = c.seen, y = x
          PROVE  SpanOK(u, y)'
      <4>1. y.of = s /\ y.n = i /\ y.parent = now
        BY <3>4
      <4>2. u \in Found(s, calls[s][i])' /\ i \in DOMAIN calls'[s]
        BY <2>3, <3>3, <3>4 DEF Stays
      <4>3. y.parent # u => calls'[s][i].moved
        BY <2>3, <3>3, <3>4, <4>1 DEF Stays
      <4> QED BY <4>1, <4>2, <4>3 DEF SpanOK
    <3> HIDE DEF x
    <3>5. AddedTo(file, c.seen, x, InChild(c))
      BY <3>1, <3>2, ExportTimes DEF TypeOK, Spans
    <3>6. \A r \in Runs : \A k \in DOMAIN file'[r][t] :
            \/ t = c.seen /\ file'[r][t][k] = x
            \/ k \in DOMAIN file[r][t] /\ file'[r][t][k] = file[r][t][k]
      <4> HIDE DEF c
      <4>1. ASSUME NEW f, f = file'
            PROVE  \A r \in Runs : \A k \in DOMAIN f[r][t] :
                     \/ t = c.seen /\ f[r][t][k] = x
                     \/ k \in DOMAIN file[r][t] /\ f[r][t][k] = file[r][t][k]
        <5>1. f = Exported(file, c.seen, x, InChild(c)) /\ t \in Sessions
          BY <3>1, <4>1
        <5> QED BY ONLY <5>1, <3>5 DEF AddedTo
      <4> QED BY ONLY <4>1
    <3>7. \A r \in Runs : \A k \in DOMAIN file'[r][t] :
            \/ \E j \in DOMAIN file[r][t] : file'[r][t][k] = file[r][t][j]
            \/ SpanOK(t, file[r][t][k])'
      <4> SUFFICES ASSUME NEW r \in Runs, NEW k \in DOMAIN file'[r][t],
                          t = c.seen, file'[r][t][k] = x
                   PROVE  SpanOK(t, file[r][t][k])'
        BY <3>6
      <4>1. PICK y : y = file'[r][t][k]
        OBVIOUS
      <4>2. SpanOK(t, y)'
        BY <3>4, <4>1
      <4> QED BY <4>1, <4>2
    <3> QED BY <1>1, <2>2, <3>1, <3>7, TraceKept
  <2>6. CASE RecordTiming(s, i)
    <3>1. \A p \in timings'[t] : p \in timings[t] \/ TimingOK(t, p)'
      <4>1. \A p \in timings'[t] :
              p \in timings[t] \/ (t = now /\ p = <<s, i>>)
        BY <2>6 DEF RecordTiming, TypeOK
      <4>2. t = now => TimingOK(t, <<s, i>>)'
        <5>1. t = now => t \in Found(s, calls[s][i])'
          BY <2>3
        <5> QED BY <2>3, <5>1 DEF TimingOK, Stays
      <4> QED BY <4>1, <4>2
    <3>2. file' = file
      BY <2>6 DEF RecordTiming
    <3> QED BY <1>1, <2>2, <3>1, <3>2, TraceKept
  <2> QED BY <1>3, <2>4, <2>5, <2>6
          DEF Callback, WriteRow, InitOtel, ReadSession, EmitSpan,
              LoseCallback
<1> QED BY <1>2, <1>3 DEF Next

-----------------------------------------------------------------------------
(***************************************************************************)
(* The theorems.                                                           *)
(***************************************************************************)
\* The invariant holds in the beginning.
LEMMA TracingInit == TracingAssumption /\ Init => TracingInv
<1> SUFFICES ASSUME TracingAssumption, Init PROVE TracingInv
  OBVIOUS
<1>1. TypeOK
  <2>1. /\ <<>> \in Seq(OwnSpan) /\ <<>> \in Seq(OwnSpan \cup LlmSpan)
        /\ <<>> \in Seq(CallStates) /\ Len(<<>>) <= 2
    OBVIOUS
  <2> QED BY <2>1 DEF Init, TypeOK, TracingAssumption, PCs, Contexts, Roles
<1>2. ASSUME NEW s \in Sessions PROVE OpenInv(s)
  <2>1. <<>> # <<Root, Tool(0)>>
    OBVIOUS
  <2> QED BY <2>1 DEF Init, OpenInv, After, Entering
<1>3. ASSUME NEW s \in Sessions PROVE FileInv(s)
  BY TimesEmpty
     DEF Init, FileInv, OpenSpans, After, TracingAssumption
<1>4. ASSUME NEW s \in Sessions PROVE ContextInv(s)
  BY DEF Init, ContextInv, Entering
<1>5. ASSUME NEW s \in Sessions PROVE ReadInv(s) /\ TraceInv(s)
  <2>1. DOMAIN <<>> = {}
    OBVIOUS
  <2> QED BY <2>1 DEF Init, ReadInv, TraceInv
<1>6. fallback \in wrote \cup {None}
  BY DEF Init
<1> QED BY <1>1, <1>2, <1>3, <1>4, <1>5, <1>6
        DEF TracingInv, SpansInv, LLMInv

\* And every step keeps it.
LEMMA TracingKept ==
  TracingAssumption /\ TracingInv /\ [Next]_vars => TracingInv'
<1> SUFFICES ASSUME TracingAssumption, TracingInv, [Next]_vars
             PROVE  TracingInv'
  OBVIOUS
<1>1. CASE Next
  <2>1. TypeOK' /\ SpansInv'
    BY <1>1, TracingTypes, SpansStep DEF TracingInv
  <2>2. \A t \in Sessions : ContextInv(t)' /\ ReadInv(t)' /\ TraceInv(t)'
    BY <1>1, ContextStep, ReadStep, TraceStep DEF TracingInv
  <2>3. fallback' \in wrote' \cup {None}
    BY <1>1, FallbackStep DEF TracingInv
  <2> QED BY <2>1, <2>2, <2>3 DEF TracingInv, LLMInv
<1>2. CASE UNCHANGED vars
  <2> USE <1>2 DEF vars
  <2>1. TypeOK'
    BY DEF TracingInv, TypeOK
  <2>2. SpansInv'
    <3>1. \A t \in Sessions : SameSpans(t)
      BY DEF SameSpans
    <3> QED BY <3>1, SpansKept DEF TracingInv, SpansInv
  <2>3. /\ \A t, x : SpanOK(t, x) <=> SpanOK(t, x)'
        /\ \A t, p : TimingOK(t, p) <=> TimingOK(t, p)'
    BY DEF SpanOK, TimingOK, Found, Carries, InChild
  <2>4. ASSUME NEW t \in Sessions
        PROVE  ContextInv(t)' /\ ReadInv(t)' /\ TraceInv(t)'
    <3>1. ContextInv(t)'
      BY DEF TracingInv, LLMInv, ContextInv
    <3>2. ReadInv(t)'
      <4>1. \A u, c : /\ Found(u, c) = Found(u, c)'
                      /\ ContextOf(u, c) = ContextOf(u, c)'
        BY DEF Found, Carries, InChild, ContextOf
      <4>2. ReadInv(t)
        BY DEF TracingInv, LLMInv
      <4> QED BY <4>1, <4>2 DEF ReadInv
    <3>3. TraceInv(t)'
      BY <2>3 DEF TracingInv, LLMInv, TraceInv
    <3> QED BY <3>1, <3>2, <3>3
  <2> QED BY <2>1, <2>2, <2>4 DEF TracingInv, LLMInv
<1> QED BY <1>1, <1>2

\* When a session's end is recorded, its file holds its spans.
LEMMA SpansComplete == TracingAssumption /\ TracingInv => TracesComplete
<1> SUFFICES ASSUME TracingAssumption, TracingInv,
                    NEW s \in Sessions, NEW r \in Runs
             PROVE  LET own == {Root} \cup {Tool(n) : n \in 0..MaxSteps}
                        present(span) == Times(span, file[r][s])
                    IN /\ r # RunOf[s] => file[r][s] = <<>>
                       /\ r = RunOf[s]
                          /\ pc[s] \in {"close", "closeAgent", "done"} =>
                            /\ present(Root) = exporters[r]
                            /\ steps[s] # 0 => present(Tool(0)) = exporters[r]
                            /\ \A span \in own :
                                 present(span) \in {0, exporters[r]}
                            /\ \A n \in 1..(steps[s] - 1) :
                                 present(Tool(n)) = exporters[r]
  BY DEF TracesComplete
<1>1. FileInv(s) /\ steps[s] \in 0..(MaxSteps + 1) /\ MaxSteps \in Nat
  BY DEF TracingInv, SpansInv, TypeOK, TracingAssumption
<1>2. CASE r = RunOf[s] /\ pc[s] \in {"close", "closeAgent", "done"}
  <2>1. EndedSpans(s, file[r][s], exporters[r])
    BY <1>1, <1>2 DEF FileInv, After
  <2>2. \A n \in 1..(steps[s] - 1) : n \in 0..MaxSteps /\ n < steps[s]
    BY <1>1
  <2>3. steps[s] # 0 => 0 \in 0..MaxSteps /\ 0 < steps[s]
    BY <1>1
  <2> QED BY <1>2, <2>1, <2>2, <2>3 DEF EndedSpans
<1> QED BY <1>1, <1>2 DEF FileInv

\* What is traced of a call is where it may be.
LEMMA TracesPlaced == TracingInv => CallsTraced
<1> SUFFICES ASSUME TracingInv PROVE CallsTraced
  OBVIOUS
<1>1. \A t \in Sessions : ReadInv(t) /\ TraceInv(t)
  BY DEF TracingInv, LLMInv
<1>2. OwnSession
  <2> SUFFICES ASSUME NEW s \in Sessions, NEW i \in DOMAIN calls[s],
                      NEW t,
                      \/ t \in TracedIn(s, i)
                      \/ /\ calls[s][i].stage # "row"
                         /\ ~(calls[s][i].stage = "lost"
                              /\ calls[s][i].row = None)
                         /\ t = calls[s][i].row,
                      t # s
               PROVE  ~Carries(calls[s][i]) /\ t \in wrote \cup {None}
    BY DEF OwnSession
  <2> DEFINE c == calls[s][i]
  <2>1. t \in Found(s, c)
    <3>1. CASE t \in TracedIn(s, i)
      <4>1. t \in Sessions /\ TraceInv(t)
        BY <1>1, <3>1 DEF TracedIn
      <4>2. CASE <<s, i>> \in timings[t] \cup counted[t]
        BY <4>1, <4>2 DEF TraceInv, TimingOK
      <4>3. CASE <<s, i>> \notin timings[t] \cup counted[t]
        <5>1. PICK r \in Runs : \E k \in DOMAIN file[r][t] :
                LET y == file[r][t][k]
                IN y.kind = "llm" /\ y.of = s /\ y.n = i
          BY <3>1, <4>3 DEF TracedIn
        <5> QED BY <4>1, <5>1 DEF TraceInv, SpanOK
      <4> QED BY <4>2, <4>3
    <3>2. CASE t \notin TracedIn(s, i)
      BY <1>1, <3>2 DEF ReadInv
    <3> QED BY <3>1, <3>2
  <2> QED BY <2>1 DEF Found
<1>3. OneTrace
  BY <1>1 DEF TraceInv, SpanOK, OneTrace
<1> QED BY <1>2, <1>3 DEF CallsTraced

\* For every number of sessions, runs and calls, and whatever runners the
\* services have: the file of a session whose end was told holds its spans,
\* each once per exporter of its run, and the variables keep their types.
THEOREM TracesAreSafe == Spec => []TracesSafe
<1>1. TracingInv => TracesSafe
  BY TracingAssumption, SpansComplete DEF TracingInv, TracesSafe
<1> QED BY <1>1, TracingAssumption, TracingInit, TracingKept, PTL DEF Spec

\* And an LLM call is traced in its own session, or, without the caller's
\* ContextVar, in none or in one that wrote the process-wide fallback; its
\* span hangs under that session's root, unless the fallback was overwritten
\* between the two reads.
THEOREM CallsAreTraced == Spec => []CallsTraced
<1> QED BY TracingAssumption, TracingInit, TracingKept, TracesPlaced, PTL
        DEF Spec
=============================================================================
