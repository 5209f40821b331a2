--------------------------- MODULE EvalRunsProofs ---------------------------
(***************************************************************************)
(* What TLAPS proves of EvalRuns, for any number of runners and jobs, any  *)
(* models, metrics and thresholds, and any number of faults: a run that    *)
(* passes was judged on clean answers, a span gets no more cases than      *)
(* there were jobs, and what a row says of a run is true for ever: its     *)
(* score lies between the grades, its verdict fits the run it was compared *)
(* with, and what was published rests on such a row.                       *)
(***************************************************************************)
EXTENDS EvalRuns, SumTheorems

Early    == {"guard", "generatorMode", "judgeMode", "list", "trace", "insert"}
Totalled == {"deployment", "baseline", "finish"}
Inserted == Totalled \cup {"case", "judge", "report"}
Labels   == Early \cup Inserted \cup {"idle"}

FrameFields ==
  {"version", "mode", "run", "traced", "total", "left", "obeys", "judged", "obeyed",
   "passed", "scored", "sum", "errors", "degraded", "against", "base", "fed"}

IsFrame(f) == DOMAIN f = FrameFields /\ f.mode \in Modes /\ f.fed \in SUBSET Flaws

\* A sequence of whatever it holds: what the rows are is a matter of RowsInv.
IsSeq(s) == s \in Seq({s[i] : i \in DOMAIN s})

RunnersInv ==
  /\ pc \in [Runners -> Labels]
  /\ frame = [p \in Runners |-> frame[p]]
  /\ \A p \in Runners : pc[p] # "idle" => IsFrame(frame[p])
  /\ \A p \in Runners : pc[p] = "judge" => Weights # <<>>

TablesInv ==
  /\ def \in [Models -> ModelDefs]
  /\ IsSeq(runs)
  /\ \A r \in 1 .. Len(runs) : "verdict" \in DOMAIN runs[r]
  /\ degraded \in Seq(Nat)
  /\ fed \in Seq(SUBSET Flaws)
  /\ Len(degraded) = Len(runs) /\ Len(fed) = Len(runs)

\* An answer of a stand-in is known: from its span, or the span was lost.
Told(f, count) == "standin" \in f.fed => "unrecorded" \in f.fed \/ count > 0

StandinKnown(p) ==
  /\ pc[p] \in Early => "standin" \notin frame[p].fed
  /\ pc[p] \in Inserted => /\ frame[p].run \in 1 .. Len(runs)
                           /\ Told(frame[p], degraded[frame[p].run])
  /\ pc[p] \in Totalled => Told(frame[p], frame[p].degraded)

\* A run that calls itself an evaluation has seen that no model is a mock, and
\* hears of it when one is redefined.
MockKnown(p) ==
  \/ "resynced" \in frame[p].fed
  \/ /\ "mock" \notin frame[p].fed
     /\ frame[p].mode = "evaluation" =>
          /\ pc[p] \notin {"guard", "generatorMode"} => ~def[Generator].mock
          /\ pc[p] \notin {"guard", "generatorMode", "judgeMode"} /\ Weights # <<>>
               => ~def[JudgeModel].mock

RunnerInv(p) ==
  pc[p] # "idle" => StandinKnown(p) /\ (MockIsWiringCheck => MockKnown(p))

CleanInv == RunnersInv /\ TablesInv /\ (\A p \in Runners : RunnerInv(p)) /\ PassIsClean

-----------------------------------------------------------------------------
(* Sequences and frames *)

LEMMA SeqBasics ==
  ASSUME NEW S, NEW s \in Seq(S)
  PROVE  /\ Len(s) \in Nat
         /\ DOMAIN s = 1 .. Len(s)
         /\ \A i \in 1 .. Len(s) : s[i] \in S
         /\ IsSeq(s)
<1>1. Len(s) \in Nat /\ DOMAIN s = 1 .. Len(s) /\ \A i \in 1 .. Len(s) : s[i] \in S
  OBVIOUS
<1>2. s \in [1 .. Len(s) -> {s[i] : i \in DOMAIN s}]
  BY <1>1
<1>3. IsSeq(s)
  BY SMTT(30), <1>1, <1>2 DEF IsSeq
<1> QED BY <1>1, <1>3

LEMMA SeqAppend ==
  ASSUME NEW s, IsSeq(s), NEW x
  PROVE  /\ IsSeq(Append(s, x))
         /\ Len(Append(s, x)) = Len(s) + 1
         /\ \A i \in 1 .. Len(s) : Append(s, x)[i] = s[i]
         /\ Append(s, x)[Len(s) + 1] = x
<1> DEFINE S == {s[i] : i \in DOMAIN s}
           T == S \cup {x}
<1>1. s \in Seq(S)
  BY DEF IsSeq
<1>2. s \in Seq(T) /\ x \in T
  <2>1. Len(s) \in Nat /\ s \in [1 .. Len(s) -> T]
    BY <1>1
  <2> QED BY <2>1
<1> HIDE DEF T
<1>3. Append(s, x) \in Seq(T)
  BY <1>2
<1>4. IsSeq(Append(s, x))
  BY <1>3, SeqBasics
<1> QED BY <1>2, <1>4

LEMMA SeqUpdate ==
  ASSUME NEW s, IsSeq(s), NEW T, NEW t \in [1 .. Len(s) -> T]
  PROVE  IsSeq(t) /\ Len(t) = Len(s)
<1>1. Len(s) \in Nat
  BY DEF IsSeq
<1>2. t \in Seq(T) /\ Len(t) = Len(s)
  BY <1>1
<1> QED BY <1>2, SeqBasics

LEMMA CaseFrame ==
  ASSUME NEW f, DOMAIN f = FrameFields, NEW score
  PROVE  LET g == WithCase(f, score)
         IN  /\ DOMAIN g = FrameFields
             /\ g.mode = f.mode /\ g.run = f.run /\ g.fed = f.fed
             /\ g.traced = f.traced /\ g.degraded = f.degraded
BY DEF WithCase, FrameFields

-----------------------------------------------------------------------------
(* Steps that touch only the frame of one runner *)

LEMMA FrameStep ==
  ASSUME RunnersInv, NEW p \in Runners, NEW l \in Labels, NEW g,
         pc' = [pc EXCEPT ![p] = l], frame' = [frame EXCEPT ![p] = g],
         l # "idle" => IsFrame(g), l = "judge" => Weights # <<>>
  PROVE  RunnersInv' /\ pc'[p] = l /\ frame'[p] = g
BY DEF RunnersInv

LEMMA OthersKeep ==
  ASSUME RunnersInv, TablesInv, TablesInv', \A q \in Runners : RunnerInv(q),
         NEW p \in Runners, NEW l, NEW g,
         pc' = [pc EXCEPT ![p] = l], frame' = [frame EXCEPT ![p] = g], def' = def,
         Len(runs') >= Len(runs),
         \A r \in 1 .. Len(runs) : degraded'[r] >= degraded[r],
         RunnerInv(p)'
  PROVE  (\A q \in Runners : RunnerInv(q))'
<1> SUFFICES ASSUME NEW q \in Runners, q # p, pc[q] # "idle"
             PROVE  RunnerInv(q)'
  BY DEF RunnersInv, RunnerInv
<1>1. pc'[q] = pc[q] /\ frame'[q] = frame[q]
  BY DEF RunnersInv
<1>2. Len(runs) \in Nat /\ Len(runs') \in Nat
  BY SeqBasics DEF TablesInv, IsSeq
<1>3. \A r \in 1 .. Len(runs) : degraded[r] \in Nat /\ degraded'[r] \in Nat
  BY <1>2 DEF TablesInv
<1>4. StandinKnown(q)'
  BY <1>1, <1>2, <1>3 DEF RunnerInv, StandinKnown, Told
<1>5. MockIsWiringCheck => MockKnown(q)'
  BY <1>1 DEF RunnerInv, MockKnown
<1> QED BY <1>4, <1>5 DEF RunnerInv

LEMMA LocalStep ==
  ASSUME CleanInv, NEW p \in Runners, NEW l \in Labels, NEW g,
         pc' = [pc EXCEPT ![p] = l], frame' = [frame EXCEPT ![p] = g],
         l # "idle" => IsFrame(g), l = "judge" => Weights # <<>>,
         UNCHANGED <<def, runs, degraded, fed>>,
         l # "idle" => RunnerInv(p)'
  PROVE  CleanInv'
<1>1. RunnersInv' /\ pc'[p] = l
  BY FrameStep DEF CleanInv
<1>2. TablesInv'
  BY DEF CleanInv, TablesInv
<1>3. RunnerInv(p)'
  BY <1>1 DEF RunnerInv
<1>4. Len(runs') >= Len(runs) /\ \A r \in 1 .. Len(runs) : degraded'[r] >= degraded[r]
  <2>1. Len(runs) \in Nat /\ \A r \in 1 .. Len(runs) : degraded[r] \in Nat
    BY SeqBasics DEF CleanInv, TablesInv, IsSeq
  <2> QED BY <2>1
<1>5. (\A q \in Runners : RunnerInv(q))'
  BY <1>2, <1>3, <1>4, OthersKeep DEF CleanInv
<1>6. PassIsClean'
  BY DEF CleanInv, PassIsClean
<1> QED BY <1>1, <1>2, <1>5, <1>6 DEF CleanInv

LEMMA InitClean ==
  ASSUME Init
  PROVE  CleanInv
<1>1. RunnersInv
  BY DEF Init, RunnersInv, Labels
<1>2. TablesInv
  <2>1. bounds.defs \subseteq ModelDefs
    BY EvalRunsAssumption DEF Init, Bounds
  <2> QED BY <2>1 DEF Init, TablesInv, IsSeq
<1> QED BY <1>1, <1>2 DEF Init, CleanInv, RunnerInv, PassIsClean

LEMMA StartClean ==
  ASSUME CleanInv, NEW p \in Runners, Start(p)
  PROVE  CleanInv'
<1>1. PICK v \in Versions : frame' = [frame EXCEPT ![p] = NewFrame(v)]
  BY DEF Start
<1> DEFINE l == IF Weights = <<>> THEN "generatorMode" ELSE "guard"
<1>2. l \in Labels /\ l # "judge" /\ pc' = [pc EXCEPT ![p] = l]
  BY DEF Start, Goto, Labels, Early
<1>3. IsFrame(NewFrame(v)) /\ NewFrame(v).fed = {}
  BY DEF IsFrame, NewFrame, FrameFields, Modes
<1>4. pc'[p] = l /\ frame'[p] = NewFrame(v)
  BY <1>1, <1>2 DEF CleanInv, RunnersInv
<1>5. RunnerInv(p)'
  BY <1>3, <1>4 DEF RunnerInv, StandinKnown, MockKnown, Inserted, Totalled
<1> QED BY <1>1, <1>2, <1>3, <1>5, LocalStep DEF Start, tables, setup, history, others

\* The frame stays, or all that changes is outside of what the invariant needs.
LEMMA QuietStep ==
  ASSUME CleanInv, NEW p \in Runners, NEW l \in Labels, NEW g, pc[p] # "idle", l # "idle",
         pc' = [pc EXCEPT ![p] = l], frame' = [frame EXCEPT ![p] = g],
         DOMAIN g = FrameFields,
         g.mode = frame[p].mode, g.run = frame[p].run, g.fed = frame[p].fed,
         g.degraded = frame[p].degraded,
         UNCHANGED <<def, runs, degraded, fed>>,
         l = "judge" => Weights # <<>>,
         pc[p] \in Early <=> l \in Early,
         l \in Totalled => pc[p] \in Totalled,
         pc[p] \in {"guard", "generatorMode", "judgeMode"} => pc[p] = l
  PROVE  CleanInv'
<1>1. IsFrame(g)
  BY DEF CleanInv, RunnersInv, IsFrame
<1>2. pc'[p] = l /\ frame'[p] = g
  BY DEF CleanInv, RunnersInv
<1>3. RunnerInv(p)
  BY DEF CleanInv
<1>4. pc[p] \in Labels
  BY DEF CleanInv, RunnersInv
<1>5. StandinKnown(p)'
  BY <1>2, <1>3, <1>4 DEF RunnerInv, StandinKnown, Told, Labels, Early, Inserted, Totalled
<1>6. MockIsWiringCheck => MockKnown(p)'
  BY <1>2, <1>3, <1>4 DEF RunnerInv, MockKnown, Labels, Early, Inserted, Totalled
<1> QED BY <1>1, <1>5, <1>6, LocalStep DEF RunnerInv

LEMMA ReturnClean ==
  ASSUME CleanInv, NEW p \in Runners, Return(p), UNCHANGED <<def, runs, degraded, fed>>
  PROVE  CleanInv'
BY LocalStep DEF Return, Goto, Labels

LEMMA GuardJudgeClean ==
  ASSUME CleanInv, NEW p \in Runners, GuardJudge(p)
  PROVE  CleanInv'
<1>0. UNCHANGED <<def, runs, degraded, fed>>
  BY DEF GuardJudge, tables, setup, history
<1>1. CASE Return(p)
  BY <1>0, <1>1, ReturnClean
<1>2. CASE Goto(p, "generatorMode") /\ UNCHANGED frame
  <2>1. pc[p] = "guard" /\ IsFrame(frame[p]) /\ RunnerInv(p)
    BY DEF GuardJudge, CleanInv, RunnersInv
  <2>2. /\ "generatorMode" \in Labels
        /\ pc' = [pc EXCEPT ![p] = "generatorMode"]
        /\ frame' = [frame EXCEPT ![p] = frame[p]]
        /\ pc'[p] = "generatorMode" /\ frame'[p] = frame[p]
    BY <1>2 DEF CleanInv, RunnersInv, Goto, Labels, Early
  <2>3. RunnerInv(p)'
    BY <1>0, <2>1, <2>2 DEF RunnerInv, StandinKnown, MockKnown, Early, Inserted, Totalled
  <2> QED BY <1>0, <2>1, <2>2, <2>3, LocalStep
<1> QED BY <1>1, <1>2 DEF GuardJudge

\* What a runner knows of a model once it has looked at it.
LEMMA KnownModeClean ==
  ASSUME CleanInv, NEW p \in Runners, ~Return(p),
         \/ ReadGeneratorMode(p)
         \/ ReadJudgeMode(p)
  PROVE  CleanInv'
<1> DEFINE model  == IF pc[p] = "judgeMode" THEN JudgeModel ELSE Generator
           onward == IF pc[p] = "judgeMode" \/ Weights = <<>> THEN "list" ELSE "judgeMode"
           isMock == MockIsWiringCheck /\ def[model].mock
           l == IF isMock THEN "list" ELSE onward
           g == IF isMock THEN [frame[p] EXCEPT !.mode = "wiring_check"] ELSE frame[p]
<1>1. pc[p] \in {"generatorMode", "judgeMode"}
  BY DEF ReadGeneratorMode, ReadJudgeMode, ReadMode
<1>2. IsFrame(frame[p]) /\ RunnerInv(p) /\ frame = [q \in Runners |-> frame[q]]
  BY <1>1 DEF CleanInv, RunnersInv
<1>3. /\ pc' = [pc EXCEPT ![p] = l]
      /\ frame' = [frame EXCEPT ![p] = g]
      /\ UNCHANGED <<def, runs, degraded, fed>>
  <2>1. CASE ReadGeneratorMode(p)
    BY <1>2, <2>1 DEF ReadGeneratorMode, ReadMode, Goto, tables, setup, history
  <2>2. CASE ReadJudgeMode(p)
    BY <1>2, <2>2 DEF ReadJudgeMode, ReadMode, Goto, tables, setup, history
  <2> QED BY <2>1, <2>2
<1>4. l \in {"list", "judgeMode"} /\ l \in Labels
  BY DEF Labels, Early
<1>5. IsFrame(g) /\ g.fed = frame[p].fed
  BY <1>2 DEF IsFrame, FrameFields, Modes
<1>6. pc'[p] = l /\ frame'[p] = g
  BY <1>3 DEF CleanInv, RunnersInv
<1>7. StandinKnown(p)'
  BY <1>1, <1>2, <1>4, <1>5, <1>6
  DEF RunnerInv, StandinKnown, Early, Inserted, Totalled
<1>8. MockIsWiringCheck => MockKnown(p)'
  <2> SUFFICES ASSUME MockIsWiringCheck PROVE MockKnown(p)'
    OBVIOUS
  <2>1. CASE isMock
    <3>1. g.mode = "wiring_check"
      BY <1>2, <2>1 DEF IsFrame, FrameFields
    <3> QED BY <1>1, <1>2, <1>5, <1>6, <3>1 DEF RunnerInv, MockKnown, Modes
  <2>2. CASE ~isMock
    <3>1. g = frame[p] /\ l = onward /\ ~def[model].mock
      BY <2>2
    <3> QED BY <1>1, <1>2, <1>3, <1>6, <3>1 DEF RunnerInv, MockKnown
  <2> QED BY <2>1, <2>2
<1> HIDE DEF l, g
<1>9. RunnerInv(p)'
  BY <1>7, <1>8 DEF RunnerInv
<1> QED BY <1>3, <1>4, <1>5, <1>9, LocalStep

\* It looks at a model, or stops at one that is not active.
LEMMA ReadModeClean ==
  ASSUME CleanInv, NEW p \in Runners,
         \/ ReadGeneratorMode(p)
         \/ ReadJudgeMode(p)
  PROVE  CleanInv'
<1>1. UNCHANGED <<def, runs, degraded, fed>>
  BY DEF ReadGeneratorMode, ReadJudgeMode, ReadMode, tables, setup, history
<1> QED BY <1>1, ReturnClean, KnownModeClean

LEMMA ListCasesClean ==
  ASSUME CleanInv, NEW p \in Runners, ListCases(p)
  PROVE  CleanInv'
<1> DEFINE g == [frame[p] EXCEPT !.total = Len(cases), !.left = Len(cases)]
<1>1. DOMAIN frame[p] = FrameFields /\ frame = [q \in Runners |-> frame[q]]
  BY DEF ListCases, CleanInv, RunnersInv, IsFrame
<1>2. frame' = [frame EXCEPT ![p] = g]
  BY <1>1 DEF ListCases
<1>3. /\ DOMAIN g = FrameFields /\ g.mode = frame[p].mode /\ g.run = frame[p].run
      /\ g.fed = frame[p].fed /\ g.degraded = frame[p].degraded
  BY <1>1 DEF FrameFields
<1> HIDE DEF g
<1> QED BY <1>2, <1>3, QuietStep
        DEF ListCases, Goto, Labels, Early, Inserted, Totalled, tables, setup, history

LEMMA StartTraceClean ==
  ASSUME CleanInv, NEW p \in Runners, StartTrace(p)
  PROVE  CleanInv'
<1>1. DOMAIN frame[p] = FrameFields /\ frame = [q \in Runners |-> frame[q]]
  BY DEF StartTrace, CleanInv, RunnersInv, IsFrame
<1>2. PICK g \in {frame[p], [frame[p] EXCEPT !.traced = FALSE]} :
        frame' = [frame EXCEPT ![p] = g]
  BY <1>1 DEF StartTrace
<1>3. /\ DOMAIN g = FrameFields /\ g.mode = frame[p].mode /\ g.run = frame[p].run
      /\ g.fed = frame[p].fed /\ g.degraded = frame[p].degraded
  BY <1>1, <1>2 DEF FrameFields
<1> QED BY <1>2, <1>3, QuietStep
        DEF StartTrace, Goto, Labels, Early, Inserted, Totalled, tables, setup, history

-----------------------------------------------------------------------------
(* The row of the run, and its cases *)

LEMMA InsertRunClean ==
  ASSUME CleanInv, NEW p \in Runners, InsertRun(p)
  PROVE  CleanInv'
<1> DEFINE g == [frame[p] EXCEPT !.run = Len(runs) + 1]
<1>0. /\ pc[p] = "insert" /\ IsFrame(frame[p]) /\ RunnerInv(p)
      /\ frame = [q \in Runners |-> frame[q]]
  BY DEF InsertRun, CleanInv, RunnersInv
<1>1. /\ pc' = [pc EXCEPT ![p] = "case"] /\ def' = def
      /\ frame' = [frame EXCEPT ![p] = g]
  BY <1>0 DEF InsertRun, Goto, setup
<1>2. /\ IsFrame(g) /\ g.mode = frame[p].mode /\ g.fed = frame[p].fed
      /\ g.run = Len(runs) + 1
  BY <1>0 DEF IsFrame, FrameFields
<1>3. /\ IsSeq(runs') /\ Len(runs') = Len(runs) + 1
      /\ \A i \in 1 .. Len(runs) : runs'[i] = runs[i]
      /\ runs'[Len(runs) + 1].verdict = "running"
      /\ "verdict" \in DOMAIN runs'[Len(runs) + 1]
  BY SeqAppend DEF InsertRun, CleanInv, TablesInv
<1>4. /\ degraded' = Append(degraded, 0) /\ fed' = Append(fed, {})
      /\ degraded \in Seq(Nat) /\ fed \in Seq(SUBSET Flaws)
      /\ Len(degraded) = Len(runs) /\ Len(fed) = Len(runs)
  BY DEF InsertRun, CleanInv, TablesInv
<1>5. TablesInv'
  <2>1. Len(runs) \in Nat
    BY <1>4
  <2>2. \A r \in 1 .. Len(runs') : "verdict" \in DOMAIN runs'[r]
    BY <1>3, <2>1 DEF CleanInv, TablesInv
  <2>3. /\ degraded' \in Seq(Nat) /\ Len(degraded') = Len(runs')
        /\ fed' \in Seq(SUBSET Flaws) /\ Len(fed') = Len(runs')
    BY <1>3, <1>4
  <2> QED BY <1>1, <1>3, <2>2, <2>3 DEF CleanInv, TablesInv
<1> HIDE DEF g
<1>6. RunnersInv' /\ pc'[p] = "case" /\ frame'[p] = g
  <2>1. "case" \in Labels
    BY DEF Labels, Inserted
  <2> QED BY <1>1, <1>2, <2>1, FrameStep DEF CleanInv
<1>7. Len(runs) \in Nat
  BY <1>4
<1>8. RunnerInv(p)'
  <2>1. StandinKnown(p)'
    BY <1>0, <1>2, <1>3, <1>6, <1>7
    DEF RunnerInv, StandinKnown, Told, Early, Inserted, Totalled
  <2>2. MockIsWiringCheck => MockKnown(p)'
    BY <1>0, <1>1, <1>2, <1>6 DEF RunnerInv, MockKnown
  <2> QED BY <2>1, <2>2 DEF RunnerInv
<1>9. \A r \in 1 .. Len(runs) : degraded'[r] >= degraded[r]
  BY <1>4
<1>10. (\A q \in Runners : RunnerInv(q))'
  <2>1. Len(runs') >= Len(runs)
    BY <1>3, <1>7
  <2> QED BY <1>1, <1>5, <1>8, <1>9, <2>1, OthersKeep DEF CleanInv
<1>11. PassIsClean'
  <2> SUFFICES ASSUME NEW r \in DOMAIN runs', runs'[r].verdict = "pass"
               PROVE  r \in DOMAIN runs /\ runs'[r] = runs[r] /\ fed'[r] = fed[r]
    BY DEF CleanInv, PassIsClean
  <2>1. DOMAIN runs' = 1 .. Len(runs) + 1 /\ DOMAIN runs = 1 .. Len(runs)
    BY <1>3, SeqBasics DEF IsSeq, CleanInv, TablesInv
  <2>2. r \in 1 .. Len(runs)
    BY <1>3, <1>7, <2>1
  <2> QED BY <1>3, <1>4, <2>1, <2>2
<1> QED BY <1>5, <1>6, <1>10, <1>11 DEF CleanInv

\* An answer: what it adds to the flaws of a run, its spans tell.
LEMMA AnswerClean ==
  ASSUME CleanInv, NEW p \in Runners, pc[p] \in {"case", "judge"},
         NEW model \in Models, model = Generator \/ Weights # <<>>,
         NEW standin \in BOOLEAN, NEW f,
         DOMAIN f = FrameFields, f.mode = frame[p].mode, f.run = frame[p].run,
         f.fed = frame[p].fed,
         NEW l \in {"case", "judge"}, pc' = [pc EXCEPT ![p] = l],
         l = "judge" => Weights # <<>>,
         Answer(p, model, standin, f), UNCHANGED <<def, runs, fed>>
  PROVE  CleanInv'
<1> DEFINE r == frame[p].run
<1>0. IsFrame(frame[p]) /\ RunnerInv(p) /\ r \in 1 .. Len(runs)
  BY DEF CleanInv, RunnersInv, RunnerInv, StandinKnown, Inserted
<1>1. /\ degraded \in Seq(Nat) /\ Len(degraded) = Len(runs) /\ r \in DOMAIN degraded
      /\ degraded[r] \in Nat
  BY <1>0 DEF CleanInv, TablesInv
<1>2. PICK flaws \in SUBSET Flaws :
        /\ frame' = [frame EXCEPT ![p] = [f EXCEPT !.fed = @ \cup flaws]]
        /\ "resynced" \notin flaws
        /\ "mock" \in flaws => def[model].mock /\ f.mode = "evaluation"
        /\ \/ degraded' = [degraded EXCEPT ![r] = @ + 1]
           \/ degraded' = degraded /\ "standin" \notin flaws
           \/ degraded' = degraded /\ "unrecorded" \in flaws
  <2> DEFINE mock == IF def[model].mock /\ f.mode = "evaluation" THEN {"mock"} ELSE {}
             seen == IF standin THEN {"standin"} ELSE mock
  <2>1. seen \in SUBSET Flaws /\ seen \cup {"unrecorded"} \in SUBSET Flaws
    BY DEF Flaws
  <2>2. f.fed \cup seen \cup {"unrecorded"} = f.fed \cup (seen \cup {"unrecorded"})
    OBVIOUS
  <2>3. CASE /\ frame' = [frame EXCEPT ![p] = [f EXCEPT !.fed = @ \cup seen]]
             /\ degraded' = IF standin THEN [degraded EXCEPT ![r] = @ + 1] ELSE degraded
    BY <2>1, <2>3
  <2>4. CASE /\ frame' = [frame EXCEPT ![p] =
                            [f EXCEPT !.fed = @ \cup seen \cup {"unrecorded"}]]
             /\ standin /\ UNCHANGED degraded
    <3>1. frame' = [frame EXCEPT ![p] = [f EXCEPT !.fed = @ \cup (seen \cup {"unrecorded"})]]
      BY <2>2, <2>4
    <3> QED BY <2>1, <2>4, <3>1
  <2> QED BY <2>3, <2>4 DEF Answer
<1> DEFINE g == [f EXCEPT !.fed = @ \cup flaws]
<1>3. IsFrame(g) /\ g.fed = frame[p].fed \cup flaws /\ g.mode = frame[p].mode /\ g.run = r
  BY <1>0, <1>2 DEF IsFrame, FrameFields
<1> HIDE DEF g
<1>4. /\ TablesInv'
      /\ \A q \in 1 .. Len(runs) : degraded'[q] >= degraded[q]
      /\ degraded'[r] \in Nat
      /\ degraded' # degraded => degraded'[r] > 0
  <2>1. degraded' = degraded \/ degraded' = [degraded EXCEPT ![r] = @ + 1]
    BY <1>2
  <2>2. degraded' \in Seq(Nat) /\ Len(degraded') = Len(degraded)
    BY <1>1, <2>1
  <2>3. TablesInv'
    BY <2>2 DEF CleanInv, TablesInv
  <2>4. \A q \in 1 .. Len(runs) : degraded[q] \in Nat
    BY <1>1
  <2> QED BY SMTT(30), <1>1, <2>1, <2>3, <2>4
<1>5. RunnersInv' /\ pc'[p] = l /\ frame'[p] = g
  <2>1. frame' = [frame EXCEPT ![p] = g] /\ l \in Labels
    BY <1>2 DEF g, Labels, Inserted
  <2> QED BY <1>3, <2>1, FrameStep DEF CleanInv
<1>6. StandinKnown(p)'
  <2>1. Told(frame[p], degraded[r])
    BY <1>0 DEF RunnerInv, StandinKnown, Inserted
  <2>2. Told(g, degraded'[r])
    <3>1. CASE degraded' # degraded
      BY <1>4, <3>1 DEF Told
    <3>2. CASE degraded' = degraded
      <4>1. CASE "unrecorded" \in flaws
        BY <1>3, <4>1 DEF Told
      <4>2. CASE "standin" \notin flaws
        BY <1>3, <2>1, <3>2, <4>2 DEF Told
      <4>3. CASE degraded' = [degraded EXCEPT ![r] = @ + 1]
        BY <1>1, <3>2, <4>3
      <4> QED BY <1>2, <4>1, <4>2, <4>3
    <3> QED BY <3>1, <3>2
  <2>3. (Told(frame[p], degraded[frame[p].run]))'
    BY <1>3, <1>5, <2>2 DEF Told
  <2> QED BY <1>0, <1>3, <1>5, <2>3 DEF StandinKnown, Early, Totalled
<1>7. MockIsWiringCheck => MockKnown(p)'
  <2> SUFFICES ASSUME MockIsWiringCheck, "resynced" \notin frame[p].fed
               PROVE  /\ "mock" \notin g.fed
                      /\ g.mode = "evaluation" =>
                           /\ ~def[Generator].mock
                           /\ Weights # <<>> => ~def[JudgeModel].mock
    BY <1>3, <1>5 DEF MockKnown
  <2>1. /\ "mock" \notin frame[p].fed
        /\ frame[p].mode = "evaluation" =>
             /\ ~def[Generator].mock
             /\ Weights # <<>> => ~def[JudgeModel].mock
    BY <1>0 DEF RunnerInv, MockKnown
  <2>2. "mock" \notin flaws
    BY <1>2, <2>1 DEF Models
  <2> QED BY <1>3, <2>1, <2>2
<1>8. (\A q \in Runners : RunnerInv(q))'
  <2>1. Len(runs') >= Len(runs) /\ RunnerInv(p)'
    BY <1>1, <1>6, <1>7 DEF RunnerInv
  <2>2. frame' = [frame EXCEPT ![p] = g]
    BY <1>2 DEF g
  <2> QED BY <1>4, <2>1, <2>2, OthersKeep DEF CleanInv
<1>9. PassIsClean'
  BY DEF CleanInv, PassIsClean
<1> QED BY <1>4, <1>5, <1>8, <1>9 DEF CleanInv

LEMMA GenerateClean ==
  ASSUME CleanInv, NEW p \in Runners, Generate(p)
  PROVE  CleanInv'
<1>0. pc[p] = "case" /\ IsFrame(frame[p]) /\ pc \in [Runners -> Labels]
  BY DEF Generate, CleanInv, RunnersInv
<1>1. UNCHANGED <<def, runs, fed>>
  BY DEF Generate, setup, history
<1>2. PICK standin \in BOOLEAN, obeys \in BOOLEAN :
        LET f == [frame[p] EXCEPT !.obeys = obeys]
        IN  IF GoesToJudge(f)
            THEN Goto(p, "judge") /\ Answer(p, Generator, standin, f)
            ELSE /\ UNCHANGED pc
                 /\ Answer(p, Generator, standin, WithCase(f, ScoreWithoutJudge(f)))
  BY DEF Generate
<1> DEFINE f == [frame[p] EXCEPT !.obeys = obeys]
<1>3. /\ DOMAIN f = FrameFields /\ f.mode = frame[p].mode /\ f.run = frame[p].run
      /\ f.fed = frame[p].fed
  BY <1>0 DEF IsFrame, FrameFields
<1>4. Generator \in Models
  BY DEF Models
<1> HIDE DEF f
<1>5. CASE GoesToJudge(f)
  <2>1. /\ pc' = [pc EXCEPT ![p] = "judge"] /\ Answer(p, Generator, standin, f)
        /\ Weights # <<>>
    BY <1>2, <1>5 DEF Goto, GoesToJudge, f
  <2> QED BY <1>0, <1>1, <1>3, <1>4, <2>1, AnswerClean
<1>6. CASE ~GoesToJudge(f)
  <2> DEFINE g == WithCase(f, ScoreWithoutJudge(f))
  <2>1. pc' = [pc EXCEPT ![p] = "case"] /\ Answer(p, Generator, standin, g)
    BY <1>0, <1>2, <1>6 DEF f
  <2>2. DOMAIN g = FrameFields /\ g.mode = f.mode /\ g.run = f.run /\ g.fed = f.fed
    BY <1>3, CaseFrame
  <2> HIDE DEF g
  <2> QED BY <1>0, <1>1, <1>3, <1>4, <2>1, <2>2, AnswerClean
<1> QED BY <1>5, <1>6

LEMMA GradedFrame ==
  ASSUME NEW p, NEW f, DOMAIN f = FrameFields
  PROVE  LET after == Graded(p, f)
         IN  /\ DOMAIN after.f = FrameFields
             /\ after.f.mode = f.mode /\ after.f.run = f.run /\ after.f.fed = f.fed
             /\ after.f.degraded = f.degraded
             /\ after.next \in {"case", "judge"}
BY CaseFrame DEF Graded

LEMMA AskJudgeClean ==
  ASSUME CleanInv, NEW p \in Runners, AskJudge(p)
  PROVE  CleanInv'
<1>0. pc[p] = "judge" /\ IsFrame(frame[p]) /\ Weights # <<>>
  BY DEF AskJudge, CleanInv, RunnersInv
<1>1. UNCHANGED <<def, runs, fed>>
  BY DEF AskJudge, setup, history
<1>2. PICK payload \in Payloads, standin \in BOOLEAN :
        LET grade == Parsed(payload)
            f     == [frame[p] EXCEPT
                        !.judged = Append(@, grade),
                        !.errors = IF grade = NoScore THEN @ + 1 ELSE @]
            after == Graded(p, f)
        IN  Goto(p, after.next) /\ Answer(p, JudgeModel, standin, after.f)
  BY DEF AskJudge
<1> DEFINE grade == Parsed(payload)
           f     == [frame[p] EXCEPT
                       !.judged = Append(@, grade),
                       !.errors = IF grade = NoScore THEN @ + 1 ELSE @]
           after == Graded(p, f)
<1>3. /\ DOMAIN f = FrameFields /\ f.mode = frame[p].mode /\ f.run = frame[p].run
      /\ f.fed = frame[p].fed
  BY <1>0 DEF IsFrame, FrameFields
<1>4. Goto(p, after.next) /\ Answer(p, JudgeModel, standin, after.f)
  BY <1>2
<1> HIDE DEF f
<1>5. /\ DOMAIN after.f = FrameFields /\ after.f.mode = f.mode /\ after.f.run = f.run
      /\ after.f.fed = f.fed /\ after.next \in {"case", "judge"}
  BY <1>3, GradedFrame
<1> HIDE DEF after
<1>6. JudgeModel \in Models
  BY DEF Models
<1> QED BY <1>0, <1>1, <1>3, <1>4, <1>5, <1>6, AnswerClean DEF Goto

LEMMA FailsClean ==
  ASSUME CleanInv, NEW p \in Runners, GenerateFails(p) \/ JudgeFails(p)
  PROVE  CleanInv'
<1>0. /\ pc[p] \in {"case", "judge"} /\ IsFrame(frame[p]) /\ pc \in [Runners -> Labels]
      /\ pc[p] = "judge" => Weights # <<>>
  BY DEF GenerateFails, JudgeFails, CleanInv, RunnersInv
<1>1. UNCHANGED <<def, runs, degraded, fed>>
  BY DEF GenerateFails, JudgeFails, setup, history
<1>2. CASE GenerateFails(p)
  <2> DEFINE g == [frame[p] EXCEPT !.left = @ - 1, !.errors = @ + 1]
  <2>1. /\ DOMAIN g = FrameFields /\ g.mode = frame[p].mode /\ g.run = frame[p].run
        /\ g.fed = frame[p].fed /\ g.degraded = frame[p].degraded
    BY <1>0 DEF IsFrame, FrameFields
  <2>2. frame' = [frame EXCEPT ![p] = g] /\ pc' = [pc EXCEPT ![p] = "case"] /\ pc[p] = "case"
    BY <1>0, <1>2 DEF GenerateFails
  <2> HIDE DEF g
  <2> QED BY <1>1, <2>1, <2>2, QuietStep DEF Labels, Early, Inserted, Totalled
<1>3. CASE JudgeFails(p)
  <2> DEFINE f     == [frame[p] EXCEPT !.judged = Append(@, NoScore), !.errors = @ + 1]
             after == Graded(p, f)
  <2>1. /\ DOMAIN f = FrameFields /\ f.mode = frame[p].mode /\ f.run = frame[p].run
        /\ f.fed = frame[p].fed /\ f.degraded = frame[p].degraded
    BY <1>0 DEF IsFrame, FrameFields
  <2>2. /\ pc' = [pc EXCEPT ![p] = after.next] /\ frame' = [frame EXCEPT ![p] = after.f]
        /\ Weights # <<>>
    BY <1>0, <1>3 DEF JudgeFails, Goto
  <2> HIDE DEF f
  <2>3. /\ DOMAIN after.f = FrameFields /\ after.f.mode = f.mode /\ after.f.run = f.run
        /\ after.f.fed = f.fed /\ after.f.degraded = f.degraded
        /\ after.next \in {"case", "judge"}
    BY <2>1, GradedFrame
  <2>4. pc[p] = "judge"
    BY <1>3 DEF JudgeFails
  <2> DEFINE g == after.f
             l == after.next
  <2>5. /\ DOMAIN g = FrameFields /\ g.mode = frame[p].mode /\ g.run = frame[p].run
        /\ g.fed = frame[p].fed /\ g.degraded = frame[p].degraded
        /\ l \in Labels /\ l \notin Early /\ l \notin Totalled /\ l # "idle"
        /\ pc' = [pc EXCEPT ![p] = l] /\ frame' = [frame EXCEPT ![p] = g]
    BY <2>1, <2>2, <2>3 DEF Labels, Early, Inserted, Totalled
  <2> HIDE DEF after, g, l
  <2> QED BY <1>1, <2>2, <2>4, <2>5, QuietStep DEF Early
<1> QED BY <1>2, <1>3

-----------------------------------------------------------------------------
(* The end of a run *)

LEMMA ReadTotalsClean ==
  ASSUME CleanInv, NEW p \in Runners, ReadTotals(p)
  PROVE  CleanInv'
<1> DEFINE count == degraded[frame[p].run]
           g == [frame[p] EXCEPT !.degraded = count]
<1>0. /\ pc[p] = "case" /\ IsFrame(frame[p]) /\ RunnerInv(p)
      /\ frame = [q \in Runners |-> frame[q]]
  BY DEF ReadTotals, CleanInv, RunnersInv
<1>1. /\ pc' = [pc EXCEPT ![p] = "deployment"] /\ frame' = [frame EXCEPT ![p] = g]
      /\ UNCHANGED <<def, runs, degraded, fed>>
  BY <1>0 DEF ReadTotals, Goto, tables, setup, history
<1>2. /\ IsFrame(g) /\ g.mode = frame[p].mode /\ g.run = frame[p].run
      /\ g.fed = frame[p].fed /\ g.degraded = count
  BY <1>0 DEF IsFrame, FrameFields
<1> HIDE DEF g
<1>3. pc'[p] = "deployment" /\ frame'[p] = g
  BY <1>1 DEF CleanInv, RunnersInv
<1>4. StandinKnown(p)'
  BY <1>0, <1>1, <1>2, <1>3
  DEF RunnerInv, StandinKnown, Told, Early, Inserted, Totalled
<1>5. MockIsWiringCheck => MockKnown(p)'
  BY <1>0, <1>1, <1>2, <1>3 DEF RunnerInv, MockKnown
<1> QED BY <1>1, <1>2, <1>4, <1>5, LocalStep DEF RunnerInv, Labels, Inserted, Totalled

LEMMA ReadBaseClean ==
  ASSUME CleanInv, NEW p \in Runners, ReadDeployment(p) \/ ReadBaseline(p)
  PROVE  CleanInv'
<1>0. /\ pc[p] \in {"deployment", "baseline"} /\ IsFrame(frame[p])
      /\ frame = [q \in Runners |-> frame[q]]
      /\ UNCHANGED <<def, runs, degraded, fed>>
  BY DEF ReadDeployment, ReadBaseline, CleanInv, RunnersInv, tables, setup, history
<1>1. PICK l \in {"baseline", "finish"},
           g \in {frame[p], [frame[p] EXCEPT !.against = active]}
                   \cup {[frame[p] EXCEPT !.base = r] : r \in DOMAIN runs \cup {NoRun}} :
        pc' = [pc EXCEPT ![p] = l] /\ frame' = [frame EXCEPT ![p] = g]
  <2>1. CASE ReadDeployment(p)
    BY <1>0, <2>1 DEF ReadDeployment, Goto
  <2>2. CASE ReadBaseline(p)
    <3>1. CASE UNCHANGED frame
      BY <1>0, <2>2, <3>1 DEF ReadBaseline, Goto
    <3>2. CASE \E r \in Latest(frame[p].against) :
                 frame' = [frame EXCEPT ![p].base = IF runs[r].score = NoScore THEN NoRun ELSE r]
      <4>1. PICK r \in Latest(frame[p].against) :
              frame' = [frame EXCEPT ![p].base = IF runs[r].score = NoScore THEN NoRun ELSE r]
        BY <3>2
      <4> DEFINE b == IF runs[r].score = NoScore THEN NoRun ELSE r
      <4>2. b \in DOMAIN runs \cup {NoRun}
        BY DEF Latest
      <4>3. frame' = [frame EXCEPT ![p] = [frame[p] EXCEPT !.base = b]]
        BY <4>1
      <4> QED BY <2>2, <4>2, <4>3 DEF ReadBaseline, Goto
    <3> QED BY <2>2, <3>1, <3>2 DEF ReadBaseline
  <2> QED BY <2>1, <2>2
<1>2. /\ DOMAIN g = FrameFields /\ g.mode = frame[p].mode /\ g.run = frame[p].run
      /\ g.fed = frame[p].fed /\ g.degraded = frame[p].degraded
  BY <1>0, <1>1 DEF IsFrame, FrameFields
<1> QED BY <1>0, <1>1, <1>2, QuietStep DEF Labels, Early, Inserted, Totalled

\* A verdict 'pass' on a run that is no wiring check, without degraded spans.
LEMMA FinishClean ==
  ASSUME CleanInv, NEW p \in Runners, Finish(p)
  PROVE  CleanInv'
<1> DEFINE f == frame[p]
           k == f.run
           row == [runs[k] EXCEPT !.verdict  = Verdict(f),
                                  !.passed   = f.passed,
                                  !.score    = Score(f),
                                  !.base     = NamedBase(f),
                                  !.errors   = f.errors,
                                  !.degraded = f.degraded]
<1>0. /\ pc[p] = "finish" /\ IsFrame(f) /\ RunnerInv(p) /\ k \in 1 .. Len(runs)
      /\ Told(f, f.degraded) /\ frame = [q \in Runners |-> frame[q]]
      /\ MockIsWiringCheck => MockKnown(p)
  BY DEF Finish, CleanInv, RunnersInv, RunnerInv, StandinKnown, Inserted, Totalled
<1>1. /\ pc' = [pc EXCEPT ![p] = "report"] /\ frame' = [frame EXCEPT ![p] = f]
      /\ UNCHANGED <<def, degraded>>
      /\ runs' = [runs EXCEPT ![k] = row]
      /\ fed' = [fed EXCEPT ![k] = f.fed]
  BY <1>0 DEF Finish, Goto, setup
<1>2. /\ IsSeq(runs) /\ fed \in Seq(SUBSET Flaws) /\ Len(fed) = Len(runs)
      /\ Len(degraded) = Len(runs) /\ degraded \in Seq(Nat)
  BY DEF CleanInv, TablesInv
<1>3. row.verdict = Verdict(f) /\ DOMAIN row = DOMAIN runs[k]
  BY <1>0 DEF CleanInv, TablesInv
<1> HIDE DEF row
<1>4. /\ IsSeq(runs') /\ Len(runs') = Len(runs)
      /\ \A i \in 1 .. Len(runs) : runs'[i] = IF i = k THEN row ELSE runs[i]
  <2> DEFINE T == {runs[i] : i \in DOMAIN runs} \cup {row}
  <2>1. runs \in [1 .. Len(runs) -> {runs[i] : i \in DOMAIN runs}]
    BY <1>2 DEF IsSeq
  <2>2. runs' \in [1 .. Len(runs) -> T]
    BY <1>0, <1>1, <2>1
  <2>3. \A i \in 1 .. Len(runs) : runs'[i] = IF i = k THEN row ELSE runs[i]
    BY <1>0, <1>1, <2>1
  <2> HIDE DEF T
  <2>4. IsSeq(runs') /\ Len(runs') = Len(runs)
    BY <1>2, <2>2, SeqUpdate
  <2> QED BY <2>3, <2>4
<1>5. /\ fed' \in Seq(SUBSET Flaws) /\ Len(fed') = Len(fed)
      /\ \A i \in 1 .. Len(runs) : fed'[i] = IF i = k THEN f.fed ELSE fed[i]
  <2>1. f.fed \in SUBSET Flaws /\ k \in 1 .. Len(fed)
    BY <1>0, <1>2 DEF IsFrame
  <2>2. fed \in [1 .. Len(fed) -> SUBSET Flaws] /\ Len(fed) \in Nat
    BY <1>2
  <2>3. fed' \in [1 .. Len(fed) -> SUBSET Flaws]
    BY <1>1, <2>1, <2>2
  <2>4. fed' \in Seq(SUBSET Flaws) /\ Len(fed') = Len(fed)
    BY <2>2, <2>3
  <2>5. \A i \in 1 .. Len(runs) : fed'[i] = IF i = k THEN f.fed ELSE fed[i]
    BY <1>1, <1>2, <2>2
  <2> QED BY <2>4, <2>5
<1>6. TablesInv'
  <2>1. \A r \in 1 .. Len(runs') : "verdict" \in DOMAIN runs'[r]
    BY <1>0, <1>3, <1>4 DEF CleanInv, TablesInv
  <2> QED BY <1>1, <1>2, <1>4, <1>5, <2>1 DEF CleanInv, TablesInv
<1>7. RunnersInv' /\ pc'[p] = "report" /\ frame'[p] = f
  BY <1>0, <1>1, FrameStep DEF CleanInv, Labels, Inserted
<1>8. RunnerInv(p)'
  BY <1>0, <1>1, <1>4, <1>7
  DEF RunnerInv, StandinKnown, MockKnown, Early, Inserted, Totalled
<1>9. (\A q \in Runners : RunnerInv(q))'
  <2>1. Len(runs) \in Nat /\ \A r \in 1 .. Len(runs) : degraded[r] \in Nat
    BY <1>2
  <2>2. Len(runs') >= Len(runs) /\ \A r \in 1 .. Len(runs) : degraded'[r] >= degraded[r]
    BY <1>1, <1>4, <2>1
  <2> QED BY <1>1, <1>6, <1>8, <2>2, OthersKeep DEF CleanInv
<1>10. PassIsClean'
  <2>1. DOMAIN runs = 1 .. Len(runs) /\ DOMAIN runs' = 1 .. Len(runs)
    BY <1>2, <1>4, SeqBasics DEF IsSeq
  <2> SUFFICES ASSUME NEW r \in 1 .. Len(runs), runs'[r].verdict = "pass"
               PROVE  /\ FailOnDegraded /\ "standin" \in fed'[r] => "unrecorded" \in fed'[r]
                      /\ MockIsWiringCheck /\ "mock" \in fed'[r] => "resynced" \in fed'[r]
    BY <2>1 DEF PassIsClean
  <2>2. CASE r # k
    BY <1>4, <1>5, <2>1, <2>2 DEF CleanInv, PassIsClean
  <2>3. CASE r = k
    <3>1. Verdict(f) = "pass" /\ fed'[r] = f.fed
      BY <1>3, <1>4, <1>5, <2>3
    <3>2. ~Broken(f) /\ f.mode # "wiring_check"
      BY <3>1 DEF Verdict
    <3>3. FailOnDegraded /\ "standin" \in f.fed => "unrecorded" \in f.fed
      BY <1>0, <3>2 DEF Broken, Told
    <3>4. MockIsWiringCheck /\ "mock" \in f.fed => "resynced" \in f.fed
      BY <1>0 DEF MockKnown
    <3> QED BY <3>1, <3>3, <3>4
  <2> QED BY <2>2, <2>3
<1> QED BY <1>6, <1>7, <1>9, <1>10 DEF CleanInv

-----------------------------------------------------------------------------
(* Everything together *)

LEMMA SyncModelClean ==
  ASSUME CleanInv, NEW m \in Models, SyncModel(m)
  PROVE  CleanInv'
<1> DEFINE g(q) == IF pc[q] \in {"idle", "guard"} THEN frame[q]
                   ELSE [frame[q] EXCEPT !.fed = @ \cup {"resynced"}]
<1>1. /\ pc' = pc /\ frame' = [q \in Runners |-> g(q)]
      /\ def' \in [Models -> ModelDefs]
      /\ UNCHANGED <<runs, degraded, fed>>
  <2>1. pc' = pc /\ UNCHANGED <<runs, degraded, fed>>
    BY DEF SyncModel, history
  <2>2. frame' = [q \in Runners |-> g(q)]
    BY DEF SyncModel
  <2>3. PICK d \in ModelDefs : def' = [def EXCEPT ![m] = d]
    BY DEF SyncModel
  <2>4. def' \in [Models -> ModelDefs]
    BY <2>3 DEF CleanInv, TablesInv
  <2> QED BY <2>1, <2>2, <2>4
<1>2. ASSUME NEW q \in Runners, pc[q] # "idle"
      PROVE  /\ IsFrame(g(q)) /\ g(q).run = frame[q].run /\ g(q).mode = frame[q].mode
             /\ g(q).degraded = frame[q].degraded
             /\ g(q).fed = frame[q].fed \/ g(q).fed = frame[q].fed \cup {"resynced"}
             /\ pc[q] # "guard" => "resynced" \in g(q).fed
             /\ pc[q] = "guard" => g(q) = frame[q]
  <2>1. IsFrame(frame[q])
    BY <1>2 DEF CleanInv, RunnersInv
  <2> QED BY <1>2, <2>1 DEF IsFrame, FrameFields, Flaws
<1> HIDE DEF g
<1>3. RunnersInv'
  <2>1. frame' = [q \in Runners |-> frame'[q]]
    BY <1>1
  <2> QED BY <1>1, <1>2, <2>1 DEF CleanInv, RunnersInv
<1>4. TablesInv'
  BY <1>1 DEF CleanInv, TablesInv
<1>5. ASSUME NEW q \in Runners
      PROVE  RunnerInv(q)'
  <2> SUFFICES ASSUME pc[q] # "idle" PROVE RunnerInv(q)'
    BY <1>1 DEF RunnerInv
  <2>1. RunnerInv(q) /\ frame'[q] = g(q) /\ pc'[q] = pc[q]
    BY <1>1 DEF CleanInv
  <2>2. StandinKnown(q)'
    BY <1>1, <1>2, <2>1 DEF RunnerInv, StandinKnown, Told
  <2>3. MockIsWiringCheck => MockKnown(q)'
    BY <1>1, <1>2, <2>1 DEF RunnerInv, MockKnown
  <2> QED BY <2>2, <2>3 DEF RunnerInv
<1>6. PassIsClean'
  BY <1>1 DEF CleanInv, PassIsClean
<1> QED BY <1>3, <1>4, <1>5, <1>6 DEF CleanInv

\* Steps of the gate, of the jobs and of the clock.
LEMMA ElsewhereClean ==
  ASSUME CleanInv, UNCHANGED <<pc, frame, def, runs, degraded, fed>>
  PROVE  CleanInv'
<1>1. RunnersInv' /\ TablesInv' /\ PassIsClean'
  BY DEF CleanInv, RunnersInv, TablesInv, PassIsClean
<1>2. (\A p \in Runners : RunnerInv(p))'
  BY DEF CleanInv, RunnerInv, StandinKnown, MockKnown, Told
<1> QED BY <1>1, <1>2 DEF CleanInv

LEMMA StepClean ==
  ASSUME CleanInv, NEW p \in Runners, Step(p)
  PROVE  CleanInv'
<1>1. CASE Report(p) \/ Crash(p)
  BY <1>1, ReturnClean DEF Report, Crash, tables, setup, history
<1> QED BY <1>1, StartClean, GuardJudgeClean, ReadModeClean, ListCasesClean,
           StartTraceClean, InsertRunClean, GenerateClean, AskJudgeClean, FailsClean,
           ReadTotalsClean, ReadBaseClean, FinishClean
        DEF Step

LEMMA NextClean ==
  ASSUME CleanInv, [Next]_vars
  PROVE  CleanInv'
<1>1. CASE \E p \in Runners : Step(p)
  BY <1>1, StepClean
<1>2. CASE \E j \in Jobs : CheckCase(j) \/ AddCase(j)
  BY <1>2, ElsewhereClean DEF CheckCase, AddCase, tables, setup, history
<1>3. CASE \E m \in Models : SyncModel(m)
  BY <1>3, SyncModelClean
<1>4. CASE PassGate \/ Publish \/ GoBack \/ AddManualCase \/ Tick
  BY <1>4, ElsewhereClean
  DEF PassGate, Publish, GoBack, AddManualCase, Tick, tables, setup, history
<1>5. CASE UNCHANGED vars
  BY <1>5, ElsewhereClean DEF vars, tables, setup, history
<1> QED BY <1>1, <1>2, <1>3, <1>4, <1>5 DEF Next

\* The invariant behind EvaluationPassIsClean: while a run goes on, a flaw of
\* what it was fed is in its spans or in what it saw of the models.
THEOREM EvaluationClean == Spec => []CleanInv
<1>1. Init => CleanInv
  BY InitClean
<1>2. CleanInv /\ [Next]_vars => CleanInv'
  BY NextClean
<1> QED BY <1>1, <1>2, PTL DEF Spec

\* No run passes on answers of a stand-in whose span was stored, or on mock
\* answers of models it could have known to be mocks, however runs, deaths, lost
\* spans and `llmops sync` interleave (runner.py, regression.py).
THEOREM EvaluationPassIsClean == Spec => []PassIsClean
<1>1. CleanInv => PassIsClean
  BY DEF CleanInv
<1> QED BY <1>1, EvaluationClean, PTL

-----------------------------------------------------------------------------
(* The closed loop *)

CasesOf(s) == {i \in DOMAIN cases : cases[i] = s}
Adding(s)  == {j \in Jobs : checked[j] = s}

\* A span that has a case is not checked again, so what is added later was
\* checked before there was one.
CasesInv ==
  /\ cases \in Seq(Spans \cup {ManualCase})
  /\ checked \in [Jobs -> Spans \cup {NoFrame}]
  /\ \A s \in Spans :
       Cardinality(CasesOf(s)) + Cardinality(Adding(s)) <= Cardinality(Jobs)

LEMMA CasesFinite ==
  ASSUME CasesInv, NEW s
  PROVE  /\ IsFiniteSet(CasesOf(s)) /\ Cardinality(CasesOf(s)) \in Nat
         /\ IsFiniteSet(Adding(s)) /\ Cardinality(Adding(s)) \in Nat
         /\ Cardinality(Adding(s)) <= Cardinality(Jobs)
         /\ Cardinality(Jobs) \in Nat
<1>1. IsFiniteSet(Jobs) /\ Adding(s) \subseteq Jobs
  BY EvalRunsAssumption DEF Adding
<1>2. IsFiniteSet(1 .. Len(cases)) /\ CasesOf(s) \subseteq 1 .. Len(cases)
  <2>1. Len(cases) \in Nat /\ DOMAIN cases = 1 .. Len(cases)
    BY DEF CasesInv
  <2> QED BY <2>1, FS_Interval DEF CasesOf
<1> QED BY <1>1, <1>2, FS_Subset, FS_CardinalityType

LEMMA InitCases ==
  ASSUME Init
  PROVE  CasesInv
<1>1. cases \in Seq(Spans \cup {ManualCase}) /\ checked \in [Jobs -> Spans \cup {NoFrame}]
  BY DEF Init
<1>2. ASSUME NEW s \in Spans
      PROVE  CasesOf(s) = {} /\ Adding(s) = {}
  BY <1>2, EvalRunsAssumption DEF Init, CasesOf, Adding
<1>3. Cardinality(Jobs) \in Nat
  BY EvalRunsAssumption, FS_CardinalityType
<1>4. ASSUME NEW s \in Spans
      PROVE  Cardinality(CasesOf(s)) + Cardinality(Adding(s)) <= Cardinality(Jobs)
  BY <1>2, <1>3, FS_EmptySet
<1> QED BY <1>1, <1>4 DEF CasesInv

LEMMA CheckCaseCases ==
  ASSUME CasesInv, NEW j \in Jobs, CheckCase(j)
  PROVE  CasesInv'
<1>1. PICK s \in Spans : /\ ~CaseExists(s) /\ checked[j] = NoFrame /\ cases' = cases
                         /\ checked' = [checked EXCEPT ![j] = s]
  BY DEF CheckCase, tables, setup
<1>2. cases' \in Seq(Spans \cup {ManualCase}) /\ checked' \in [Jobs -> Spans \cup {NoFrame}]
  BY <1>1 DEF CasesInv
<1>3. ASSUME NEW t \in Spans
      PROVE  (Cardinality(CasesOf(t)) + Cardinality(Adding(t)) <= Cardinality(Jobs))'
  <2>1. CASE t = s
    <3>1. CasesOf(t)' = {}
      BY <1>1, <2>1 DEF CasesOf, CaseExists
    <3>2. Adding(t)' \subseteq Jobs /\ IsFiniteSet(Jobs)
      BY EvalRunsAssumption DEF Adding
    <3> QED BY <3>1, <3>2, FS_EmptySet, FS_Subset, FS_CardinalityType
  <2>2. CASE t # s
    <3>1. Adding(t)' = Adding(t) /\ CasesOf(t)' = CasesOf(t)
      BY <1>1, <2>2, EvalRunsAssumption DEF Adding, CasesOf, CasesInv
    <3> QED BY <3>1 DEF CasesInv
  <2> QED BY <2>1, <2>2
<1> QED BY <1>2, <1>3 DEF CasesInv

LEMMA AddCaseCases ==
  ASSUME CasesInv, NEW j \in Jobs, AddCase(j)
  PROVE  CasesInv'
<1> DEFINE s == checked[j]
<1>1. /\ s \in Spans /\ cases' = Append(cases, s)
      /\ checked' = [checked EXCEPT ![j] = NoFrame]
  BY DEF AddCase, CasesInv
<1>2. cases' \in Seq(Spans \cup {ManualCase}) /\ checked' \in [Jobs -> Spans \cup {NoFrame}]
  BY <1>1 DEF CasesInv
<1>3. /\ Len(cases) \in Nat /\ DOMAIN cases = 1 .. Len(cases)
      /\ DOMAIN cases' = 1 .. Len(cases) + 1
      /\ cases'[Len(cases) + 1] = s
      /\ \A i \in 1 .. Len(cases) : cases'[i] = cases[i]
  BY <1>1 DEF CasesInv
<1>4. ASSUME NEW t \in Spans
      PROVE  (Cardinality(CasesOf(t)) + Cardinality(Adding(t)) <= Cardinality(Jobs))'
  <2>1. CASE t = s
    <3>1. CasesOf(t)' = CasesOf(t) \cup {Len(cases) + 1} /\ Len(cases) + 1 \notin CasesOf(t)
      BY <1>3, <2>1 DEF CasesOf
    <3>2. Adding(t)' = Adding(t) \ {j} /\ j \in Adding(t)
      BY <1>1, <2>1, EvalRunsAssumption DEF Adding, CasesInv
    <3>3. Cardinality(CasesOf(t)') = Cardinality(CasesOf(t)) + 1
      BY <3>1, CasesFinite, FS_AddElement
    <3>4. Cardinality(Adding(t)') = Cardinality(Adding(t)) - 1
      BY <3>2, CasesFinite, FS_RemoveElement
    <3> QED BY <3>3, <3>4, CasesFinite DEF CasesInv
  <2>2. CASE t # s
    <3>1. CasesOf(t)' = CasesOf(t)
      BY <1>3, <2>2 DEF CasesOf
    <3>2. Adding(t)' = Adding(t)
      BY <1>1, <2>2, EvalRunsAssumption DEF Adding, CasesInv
    <3> QED BY <3>1, <3>2 DEF CasesInv
  <2> QED BY <2>1, <2>2
<1> QED BY <1>2, <1>4 DEF CasesInv

LEMMA ManualCases ==
  ASSUME CasesInv, AddManualCase
  PROVE  CasesInv'
<1>1. cases' = Append(cases, ManualCase) /\ checked' = checked
  BY DEF AddManualCase, others
<1>2. cases' \in Seq(Spans \cup {ManualCase})
  BY <1>1 DEF CasesInv
<1>3. ASSUME NEW s \in Spans
      PROVE  CasesOf(s)' = CasesOf(s) /\ Adding(s)' = Adding(s)
  BY <1>1, EvalRunsAssumption DEF CasesInv, CasesOf, Adding
<1> QED BY <1>1, <1>2, <1>3 DEF CasesInv

LEMMA NextCases ==
  ASSUME CasesInv, [Next]_vars
  PROVE  CasesInv'
<1>1. CASE UNCHANGED <<cases, checked>>
  BY <1>1 DEF CasesInv, CasesOf, Adding
<1>2. CASE \E p \in Runners : Step(p)
  <2>1. UNCHANGED <<cases, checked>>
    BY ZenonT(30), <1>2
    DEF Step, Start, GuardJudge, ReadGeneratorMode, ReadJudgeMode, ReadMode, ListCases,
        StartTrace, InsertRun, Generate, GenerateFails, AskJudge, JudgeFails, ReadTotals,
        ReadDeployment, ReadBaseline, Finish, Report, Crash, tables, setup, others
  <2> QED BY <2>1, <1>1
<1>3. CASE \E m \in Models : SyncModel(m)
  BY <1>1, <1>3 DEF SyncModel, others
<1>4. CASE PassGate \/ Publish \/ GoBack \/ Tick \/ UNCHANGED vars
  BY <1>1, <1>4 DEF PassGate, Publish, GoBack, Tick, tables, setup, others, vars
<1> QED BY <1>2, <1>3, <1>4, CheckCaseCases, AddCaseCases, ManualCases DEF Next

\* A failed span gets at most one case for each job, although every job looks
\* for the case before it inserts one (closed_loop.py, add_case_from_span).
THEOREM EvaluationDuplicatesBounded == Spec => []DuplicatesBounded
<1>1. Init => CasesInv
  BY InitCases
<1>2. CasesInv /\ [Next]_vars => CasesInv'
  BY NextCases
<1>3. CasesInv => DuplicatesBounded
  <2> SUFFICES ASSUME CasesInv, NEW s \in Spans
               PROVE  Cardinality({i \in DOMAIN cases : cases[i] = s}) <= Cardinality(Jobs)
    BY DEF DuplicatesBounded
  <2>1. Cardinality(CasesOf(s)) + Cardinality(Adding(s)) <= Cardinality(Jobs)
    BY DEF CasesInv
  <2> QED BY <2>1, CasesFinite DEF CasesOf
<1> QED BY <1>1, <1>2, <1>3, PTL DEF Spec

-----------------------------------------------------------------------------
(* Rows of runs and what runners know of them *)

\* A runner whose row is still 'running'.
Working == Totalled \cup {"case", "judge"}

ResultRows == [errors : Nat, grades : SUBSET (0 .. Full)]

FrameOK(f) ==
  /\ IsFrame(f) /\ f.version \in Versions
  /\ f.run \in Nat /\ f.base \in Nat
  /\ f.total \in Nat /\ f.passed \in Nat /\ f.errors \in Nat /\ f.degraded \in Nat
  /\ f.judged \in Seq(Scores)
  /\ f.scored \in Nat /\ f.sum \in Nat /\ f.sum <= Full * f.scored

Progress(f, l) ==
  /\ l \in Early => f.run = NoRun /\ f.errors = 0 /\ f.scored = 0
  /\ l # "judge" => f.judged = <<>>
  /\ l = "judge" => Len(f.judged) < Len(Weights)
  /\ l \notin {"finish", "report"} => f.base = NoRun
  /\ l = "baseline" => f.against # f.version

\* x is the sum of n numbers that lie between some of G.
Between(x, n, G) == \E lo, hi \in G : lo * n <= x /\ x <= hi * n

\* The counts of a runner agree with the rows of eval_results it has written.
Tally(f, row) ==
  /\ f.errors = row.errors
  /\ Weights # <<>> =>
       /\ \A i \in DOMAIN f.judged : f.judged[i] \in row.grades \cup {NoScore}
       /\ f.scored # 0 => Between(f.sum, f.scored, row.grades)
       /\ row.grades # {} =>
            f.scored # 0 \/ \E i \in DOMAIN f.judged : f.judged[i] # NoScore

\* A finished evaluation of another version than v.
IsBase(b, v, rs) ==
  /\ b \in 1 .. Len(rs)
  /\ rs[b].version # v /\ rs[b].mode = "evaluation" /\ rs[b].verdict # "running"
  /\ rs[b].score # NoScore

RunnerOK(f, l, rs, res) ==
  /\ FrameOK(f) /\ Progress(f, l)
  /\ l \in Inserted => f.run \in 1 .. Len(rs) /\ f.base \in 0 .. Len(rs)
  /\ l \in Working =>
       /\ rs[f.run].version = f.version /\ rs[f.run].mode = f.mode
       /\ rs[f.run].verdict = "running"
       /\ Tally(f, res[f.run])
  /\ l = "finish" /\ f.base # NoRun => IsBase(f.base, f.version, rs)

Scored(row, result) ==
  /\ row.errors = result.errors
  /\ row.score = NoScore <=> result.grades = {}
  /\ row.score # NoScore => Between(row.score, 1, result.grades)

Compared(row, rs) ==
  row.base # NoRun =>
    /\ IsBase(row.base, row.version, rs)
    /\ row.verdict = "pass" => rs[row.base].score - row.score <= Tolerance
    /\ row.verdict = "regressed" => rs[row.base].score - row.score > Tolerance

RowOK(r, rs, res) ==
  /\ rs[r].verdict = "running" => rs[r].base = NoRun
  /\ rs[r].verdict # "running" /\ Weights # <<>> => Scored(rs[r], res[r])
  /\ rs[r].verdict = "regressed" => rs[r].base # NoRun
  /\ rs[r].verdict = "pass" => rs[r].score \in MinScore .. Full
  /\ Compared(rs[r], rs)

\* What the gate has seen, of rows that will not change any more.
Cites(e, rs) ==
  /\ e.version \in Versions /\ e.run \in 1 .. Len(rs)
  /\ rs[e.run].version = e.version /\ rs[e.run].mode = "evaluation"
  /\ rs[e.run].verdict = "pass"
  /\ \A q \in e.known :
       /\ q \in 1 .. Len(rs) /\ rs[q].verdict # "running"
       /\ rs[q].version = e.version /\ rs[q].mode = "evaluation"
            => rs[q].started <= rs[e.run].started

\* Nobody else writes to the row of a runner.
OwnRows ==
  \A p, q \in Runners :
    p # q /\ pc[p] \in Working /\ pc[q] \in Working => frame[p].run # frame[q].run

RunTables(rs, res) ==
  /\ rs \in Seq(RunRows) /\ res \in Seq(ResultRows) /\ Len(res) = Len(rs)
  /\ \A r \in 1 .. Len(rs) : RowOK(r, rs, res)

Others(rs) ==
  /\ published \subseteq Versions /\ active \in published \cup {NoVersion}
  /\ now \in Nat /\ reported \subseteq 1 .. Len(rs)

Citations(rs) ==
  /\ clearing # NoFrame => Cites(clearing, rs)
  /\ \A e \in evidence : Cites(e, rs)

RowsInv ==
  /\ RunTables(runs, results)
  /\ \A p \in Runners : IF pc[p] = "idle" THEN frame[p] = NoFrame
                        ELSE RunnerOK(frame[p], pc[p], runs, results)
  /\ OwnRows /\ Others(runs) /\ Citations(runs)

-----------------------------------------------------------------------------
(* Averages *)

LEMMA Division ==
  ASSUME NEW a \in Nat, NEW d \in Nat \ {0}, NEW lo \in Nat, NEW hi \in Nat,
         lo * d <= a, a <= hi * d
  PROVE  a \div d \in lo .. hi
<1>1. a \div d \in Nat
  OBVIOUS
<1>2. lo <= a \div d
  OBVIOUS
<1>3. a \div d <= hi
  OBVIOUS
<1> QED BY <1>1, <1>2, <1>3

LEMMA Monotone ==
  ASSUME NEW a \in Nat, NEW b \in Nat, a <= b, NEW n \in Nat
  PROVE  a * n <= b * n /\ a * n \in Nat /\ b * n \in Nat
OBVIOUS

LEMMA OneMore ==
  ASSUME NEW c \in Nat, NEW n \in Nat, NEW x \in Nat, x <= c * n, NEW s \in Nat, s <= c
  PROVE  x + s <= c * (n + 1)
<1>1. c * (n + 1) = c * n + c /\ c * n \in Nat
  OBVIOUS
<1> QED BY <1>1

LEMMA Assumed ==
  /\ Weights \in Seq(Nat \ {0}) /\ Full \in Nat /\ MinScore \in 0 .. Full
  /\ Tolerance \in Nat /\ NoScore \notin Int
BY EvalRunsAssumption

\* One more number of a set, and what the sum lies between.
LEMMA BetweenAdd ==
  ASSUME NEW G \in SUBSET (0 .. Full), NEW x \in Nat, NEW n \in Nat,
         n # 0 => Between(x, n, G), n = 0 => x = 0,
         NEW s \in Nat, Between(s, 1, G)
  PROVE  Between(x + s, n + 1, G)
<1>1. G \subseteq Nat
  BY Assumed
<1>2. PICK a \in G, b \in G : a * 1 <= s /\ s <= b * 1
  BY DEF Between
<1>3. CASE n = 0
  BY <1>1, <1>2, <1>3 DEF Between
<1>4. CASE n # 0
  <2>1. PICK lo \in G, hi \in G : lo * n <= x /\ x <= hi * n
    BY <1>4 DEF Between
  <2> DEFINE low  == IF lo <= a THEN lo ELSE a
             high == IF hi <= b THEN b ELSE hi
  <2>2. /\ low \in G /\ high \in G /\ low \in Nat /\ high \in Nat
        /\ lo \in Nat /\ hi \in Nat /\ a \in Nat /\ b \in Nat
        /\ low <= lo /\ low <= a /\ hi <= high /\ b <= high
    BY <1>1, <1>2, <2>1
  <2> HIDE DEF low, high
  <2>3. low * n <= lo * n /\ low * n \in Nat /\ lo * n \in Nat
    BY <2>2, Monotone
  <2>4. hi * n <= high * n /\ hi * n \in Nat /\ high * n \in Nat
    BY <2>2, Monotone
  <2>5. low * (n + 1) = low * n + low /\ high * (n + 1) = high * n + high
    BY <2>2
  <2>6. low * (n + 1) <= x + s /\ x + s <= high * (n + 1)
    BY <1>2, <2>1, <2>2, <2>3, <2>4, <2>5
  <2> QED BY <2>2, <2>6 DEF Between
<1> QED BY <1>3, <1>4

LEMMA BetweenMore ==
  ASSUME NEW x, NEW n, NEW G, NEW H, G \subseteq H, Between(x, n, G)
  PROVE  Between(x, n, H)
BY DEF Between

\* The mean of numbers lies between them.
LEMMA BetweenMean ==
  ASSUME NEW G \in SUBSET (0 .. Full), NEW x \in Nat, NEW n \in Nat \ {0}, Between(x, n, G)
  PROVE  x \div n \in 0 .. Full /\ Between(x \div n, 1, G)
<1>1. PICK lo \in G, hi \in G : lo * n <= x /\ x <= hi * n
  BY DEF Between
<1>2. lo \in Nat /\ hi \in Nat /\ hi <= Full /\ Full \in Nat
  BY Assumed
<1>3. x \div n \in lo .. hi
  BY <1>1, <1>2, Division
<1>4. lo * 1 = lo /\ hi * 1 = hi
  BY <1>2
<1> QED BY <1>2, <1>3, <1>4 DEF Between

\* weighted_average is between the grades it is made of.
LEMMA AverageBetween ==
  ASSUME NEW judged \in Seq(Scores), Len(judged) = Len(Weights),
         NEW G \in SUBSET (0 .. Full), \A i \in DOMAIN judged : judged[i] \in G \cup {NoScore},
         \E i \in DOMAIN judged : judged[i] # NoScore
  PROVE  WeightedAverage(judged) \in 0 .. Full /\ Between(WeightedAverage(judged), 1, G)
<1> DEFINE usable == {i \in DOMAIN judged : judged[i] # NoScore}
           grades == {judged[i] : i \in usable}
           v == [i \in usable |-> Weights[i] * judged[i]]
<1>1. /\ DOMAIN judged = 1 .. Len(judged) /\ Len(judged) \in Nat
      /\ IsFiniteSet(usable) /\ usable # {}
  <2>1. DOMAIN judged = 1 .. Len(judged) /\ Len(judged) \in Nat
    OBVIOUS
  <2>2. IsFiniteSet(1 .. Len(judged))
    BY <2>1, FS_Interval
  <2>3. usable \subseteq 1 .. Len(judged) /\ usable # {}
    BY <2>1
  <2> QED BY <2>1, <2>2, <2>3, FS_Subset
<1>2. \A i \in usable : Weights[i] \in Nat \ {0} /\ judged[i] \in G
  BY <1>1, Assumed
<1>3. grades \subseteq G /\ grades \subseteq Nat /\ grades # {} /\ IsFiniteSet(grades)
  <2>1. grades \subseteq G /\ grades # {}
    BY <1>1, <1>2
  <2>2. IsFiniteSet(0 .. Full)
    BY FS_Interval, Assumed
  <2> HIDE DEF grades
  <2>3. grades \subseteq 0 .. Full /\ grades \subseteq Nat
    BY <2>1
  <2> QED BY <2>1, <2>2, <2>3, FS_Subset
<1> DEFINE lo == Min(grades)
           hi == Max(grades)
           W == SumFunctionOnSet(Weights, usable)
           V == SumFunctionOnSet(v, usable)
<1>4. lo \in grades /\ hi \in grades /\ \A x \in grades : lo <= x /\ x <= hi
  <2> HIDE DEF grades
  <2> QED BY <1>3, MinOfNats, MaxOfNats
<1>5. \A i \in usable : v[i] \in Nat /\ lo * Weights[i] <= v[i] /\ v[i] <= hi * Weights[i]
  <2> SUFFICES ASSUME NEW i \in usable
               PROVE  v[i] \in Nat /\ lo * Weights[i] <= v[i] /\ v[i] <= hi * Weights[i]
    OBVIOUS
  <2>1. /\ judged[i] \in Nat /\ lo \in Nat /\ hi \in Nat /\ Weights[i] \in Nat
        /\ lo <= judged[i] /\ judged[i] <= hi /\ v[i] = Weights[i] * judged[i]
    BY <1>2, <1>3, <1>4
  <2> HIDE DEF lo, hi, v
  <2>2. lo * Weights[i] <= judged[i] * Weights[i] /\ judged[i] * Weights[i] \in Nat
    BY <2>1, Monotone
  <2>3. judged[i] * Weights[i] <= hi * Weights[i]
    BY <2>1, Monotone
  <2>4. judged[i] * Weights[i] = Weights[i] * judged[i]
    BY <2>1
  <2> QED BY <2>1, <2>2, <2>3, <2>4
<1>6. lo \in Nat /\ hi \in Nat
  BY <1>3, <1>4
<1>7. W \in Nat \ {0}
  <2> HIDE DEF usable
  <2> QED BY <1>1, <1>2, SumPositive
<1>8. V \in Nat
  <2> HIDE DEF usable, v
  <2> QED BY <1>1, <1>5, SumType
<1>9. lo * W <= V /\ V <= hi * W
  <2>1. \A i \in usable : Weights[i] \in Nat /\ v[i] \in Nat
    BY <1>2, <1>5
  <2>2. \A i \in usable : lo * Weights[i] <= v[i] /\ v[i] <= hi * Weights[i]
    BY <1>5
  <2> HIDE DEF usable, v, lo, hi
  <2> QED BY <1>1, <1>6, <2>1, <2>2, SumWithin
<1>10. WeightedAverage(judged) = V \div W
  <2>1. DOMAIN v = usable
    OBVIOUS
  <2> QED BY <1>1, <2>1 DEF WeightedAverage, SumFunction
<1>11. Between(V, W, G)
  BY <1>3, <1>4, <1>9 DEF Between
<1> HIDE DEF V, W
<1> QED BY <1>7, <1>8, <1>10, <1>11, BetweenMean

-----------------------------------------------------------------------------
(* One row at a time *)

\* Nothing but row k changes, or is new.
RowsMove(k) ==
  /\ \A r \in 1 .. Len(runs') : r # k =>
       r \in 1 .. Len(runs) /\ runs'[r] = runs[r] /\ results'[r] = results[r]
  /\ k \in 1 .. Len(runs) => runs[k].verdict = "running"
  /\ Len(runs) <= Len(runs')

LEMMA Lengths ==
  ASSUME RunTables(runs, results)
  PROVE  /\ Len(runs) \in Nat /\ DOMAIN runs = 1 .. Len(runs)
         /\ DOMAIN results = 1 .. Len(runs) /\ Len(results) = Len(runs)
         /\ \A r \in 1 .. Len(runs) : runs[r] \in RunRows /\ results[r] \in ResultRows
BY DEF RunTables

LEMMA FinishedStays ==
  ASSUME RunTables(runs, results), NEW k, RowsMove(k), Len(runs') \in Nat,
         NEW r \in 1 .. Len(runs), runs[r].verdict # "running"
  PROVE  r \in 1 .. Len(runs') /\ runs'[r] = runs[r] /\ r # k
<1>1. r \in 1 .. Len(runs')
  BY Lengths DEF RowsMove
<1>2. r # k
  BY DEF RowsMove
<1> QED BY <1>1, <1>2 DEF RowsMove

LEMMA BaseStays ==
  ASSUME RunTables(runs, results), NEW k, RowsMove(k), Len(runs') \in Nat,
         NEW b, NEW v, IsBase(b, v, runs)
  PROVE  IsBase(b, v, runs') /\ runs'[b] = runs[b]
BY FinishedStays DEF IsBase

LEMMA CitesStay ==
  ASSUME RunTables(runs, results), NEW k, RowsMove(k), Len(runs') \in Nat,
         NEW e, Cites(e, runs)
  PROVE  Cites(e, runs')
<1>1. e.run \in 1 .. Len(runs') /\ runs'[e.run] = runs[e.run]
  BY FinishedStays DEF Cites
<1>2. \A q \in e.known : q \in 1 .. Len(runs') /\ runs'[q] = runs[q]
  BY FinishedStays DEF Cites
<1> QED BY <1>1, <1>2 DEF Cites

LEMMA TablesMove ==
  ASSUME RunTables(runs, results), NEW k, RowsMove(k),
         runs' \in Seq(RunRows), results' \in Seq(ResultRows), Len(results') = Len(runs'),
         k \in 1 .. Len(runs') => RowOK(k, runs', results')
  PROVE  RunTables(runs', results')
<1>1. Len(runs') \in Nat
  OBVIOUS
<1>2. ASSUME NEW r \in 1 .. Len(runs'), r # k
      PROVE  RowOK(r, runs', results')
  <2>1. /\ r \in 1 .. Len(runs) /\ runs'[r] = runs[r] /\ results'[r] = results[r]
        /\ RowOK(r, runs, results)
    BY <1>2 DEF RowsMove, RunTables
  <2>2. Compared(runs[r], runs')
    <3> SUFFICES ASSUME runs[r].base # NoRun PROVE Compared(runs[r], runs')
      BY DEF Compared
    <3>1. IsBase(runs[r].base, runs[r].version, runs)
      BY <2>1 DEF RowOK, Compared
    <3>2. /\ IsBase(runs[r].base, runs[r].version, runs')
          /\ runs'[runs[r].base] = runs[runs[r].base]
      BY <1>1, <3>1, BaseStays
    <3> QED BY <2>1, <3>2 DEF RowOK, Compared
  <2> QED BY <2>1, <2>2 DEF RowOK
<1> QED BY <1>1, <1>2 DEF RunTables

LEMMA CitationsStay ==
  ASSUME RunTables(runs, results), NEW k, RowsMove(k), Len(runs') \in Nat,
         Citations(runs), UNCHANGED <<clearing, evidence>>
  PROVE  Citations(runs)'
BY CitesStay DEF Citations

\* A runner that is not at work on row k keeps what it knows.
LEMMA RunnerStays ==
  ASSUME RunTables(runs, results), NEW k, RowsMove(k), Len(runs') \in Nat,
         NEW f, NEW l, RunnerOK(f, l, runs, results),
         l \in Working => f.run # k
  PROVE  RunnerOK(f, l, runs', results')
<1>1. Len(runs) \in Nat /\ Len(runs) <= Len(runs')
  BY Lengths DEF RowsMove
<1>2. l \in Inserted => f.run \in 1 .. Len(runs') /\ f.base \in 0 .. Len(runs')
  BY <1>1 DEF RunnerOK
<1>3. Working \subseteq Inserted
  BY DEF Working, Inserted
<1>4. ASSUME l \in Working
      PROVE  runs'[f.run] = runs[f.run] /\ results'[f.run] = results[f.run]
  BY <1>2, <1>3, <1>4 DEF RowsMove
<1>5. l = "finish" /\ f.base # NoRun => IsBase(f.base, f.version, runs')
  BY BaseStays DEF RunnerOK
<1> QED BY <1>2, <1>4, <1>5 DEF RunnerOK

\* Runner p goes on to the label l with the frame g and writes to row k only.
LEMMA RunnerMoves ==
  ASSUME RunnersInv, RowsInv, NEW p \in Runners, NEW l, NEW g, NEW k,
         pc' = [pc EXCEPT ![p] = l], frame' = [frame EXCEPT ![p] = g],
         RowsMove(k), RunTables(runs, results)',
         k \in 1 .. Len(runs) => pc[p] \in Working /\ k = frame[p].run,
         IF l = "idle" THEN g = NoFrame ELSE RunnerOK(g, l, runs', results'),
         l \in Working => \/ pc[p] \in Working /\ g.run = frame[p].run
                          \/ g.run = Len(runs) + 1,
         UNCHANGED <<published, active, clearing, evidence, now>>,
         reported' \subseteq 1 .. Len(runs')
  PROVE  RowsInv'
<1>1. RunTables(runs, results) /\ Len(runs) \in Nat /\ Len(runs') \in Nat
  BY Lengths DEF RowsInv, RunTables
<1>2. /\ pc'[p] = l /\ frame'[p] = g
      /\ \A q \in Runners : q # p => pc'[q] = pc[q] /\ frame'[q] = frame[q]
  BY DEF RunnersInv
<1>3. ASSUME NEW q \in Runners, q # p, pc[q] # "idle"
      PROVE  RunnerOK(frame[q], pc[q], runs', results')
  <2>1. RunnerOK(frame[q], pc[q], runs, results)
    BY <1>3 DEF RowsInv
  <2>2. ASSUME pc[q] \in Working PROVE frame[q].run # k
    <3>1. frame[q].run \in 1 .. Len(runs)
      BY <2>1, <2>2 DEF RunnerOK, Working, Inserted
    <3> QED BY <1>3, <2>2, <3>1 DEF RowsInv, OwnRows
  <2> QED BY <1>1, <2>1, <2>2, RunnerStays
<1>4. ASSUME NEW q \in Runners
      PROVE  IF pc'[q] = "idle" THEN frame'[q] = NoFrame
             ELSE RunnerOK(frame'[q], pc'[q], runs', results')
  BY <1>2, <1>3 DEF RowsInv
<1>5. OwnRows'
  <2>1. ASSUME NEW q \in Runners, q # p, pc[q] \in Working, l \in Working
        PROVE  frame[q].run # g.run
    <3>1. frame[q].run \in 1 .. Len(runs)
      BY <2>1 DEF RowsInv, RunnerOK, Working, Totalled, Inserted
    <3>2. CASE pc[p] \in Working /\ g.run = frame[p].run
      BY <2>1, <3>2 DEF RowsInv, OwnRows
    <3>3. CASE g.run = Len(runs) + 1
      BY <1>1, <3>1, <3>3
    <3> QED BY <2>1, <3>2, <3>3
  <2> QED BY <1>2, <2>1 DEF RowsInv, OwnRows
<1>6. Others(runs)'
  BY DEF RowsInv, Others
<1>7. Citations(runs)'
  BY <1>1, CitationsStay DEF RowsInv
<1> QED BY <1>4, <1>5, <1>6, <1>7 DEF RowsInv

\* A step that leaves the tables of runs and results alone.
LEMMA RunnerReads ==
  ASSUME RunnersInv, RowsInv, NEW p \in Runners, NEW l, NEW g,
         pc' = [pc EXCEPT ![p] = l], frame' = [frame EXCEPT ![p] = g],
         IF l = "idle" THEN g = NoFrame ELSE RunnerOK(g, l, runs, results),
         l \in Working => pc[p] \in Working /\ g.run = frame[p].run,
         UNCHANGED <<runs, results, published, active, clearing, evidence, now>>,
         reported' \subseteq 1 .. Len(runs)
  PROVE  RowsInv'
<1>1. RunTables(runs, results)' /\ Len(runs) \in Nat
  BY Lengths DEF RowsInv, RunTables, RowOK, Compared
<1>2. RowsMove(0)
  BY <1>1 DEF RowsMove
<1>3. 0 \notin 1 .. Len(runs)
  OBVIOUS
<1>4. IF l = "idle" THEN g = NoFrame ELSE RunnerOK(g, l, runs', results')
  OBVIOUS
<1> QED BY <1>1, <1>2, <1>3, <1>4, RunnerMoves

-----------------------------------------------------------------------------
(* Before the first case *)

LEMMA InitRows ==
  ASSUME Init
  PROVE  RowsInv
<1>1. RunTables(runs, results)
  BY DEF Init, RunTables
<1>2. published \subseteq Versions /\ active \in published \cup {NoVersion}
  BY DEF Init
<1> QED BY <1>1, <1>2 DEF Init, RowsInv, OwnRows, Others, Citations, Working, Totalled

\* A runner without a row.
Fresh(f) ==
  /\ FrameOK(f)
  /\ f.run = NoRun /\ f.errors = 0 /\ f.scored = 0 /\ f.judged = <<>> /\ f.base = NoRun

LEMMA FreshOK ==
  ASSUME NEW f, NEW l \in Early, NEW rs, NEW res
  PROVE  Fresh(f) <=> RunnerOK(f, l, rs, res)
BY DEF Fresh, RunnerOK, Progress, Early, Inserted, Totalled, Working

LEMMA FreshMoves ==
  ASSUME RunnersInv, RowsInv, NEW p \in Runners, NEW l \in Early, NEW g, Fresh(g),
         pc' = [pc EXCEPT ![p] = l], frame' = [frame EXCEPT ![p] = g],
         UNCHANGED <<runs, results, published, active, clearing, evidence, now, reported>>
  PROVE  RowsInv'
<1>1. RunnerOK(g, l, runs, results) /\ l # "idle" /\ l \notin Working
  BY FreshOK DEF Early, Working, Totalled
<1>2. reported' \subseteq 1 .. Len(runs)
  BY DEF RowsInv, Others
<1> QED BY <1>1, <1>2, RunnerReads

LEMMA ReturnRows ==
  ASSUME RunnersInv, RowsInv, NEW p \in Runners, Return(p),
         UNCHANGED <<runs, results, published, active, clearing, evidence, now>>,
         reported' \subseteq 1 .. Len(runs)
  PROVE  RowsInv'
BY RunnerReads DEF Return, Goto, Working, Totalled

LEMMA FreshFrame ==
  ASSUME RunnersInv, RowsInv, NEW p \in Runners, pc[p] \in Early
  PROVE  /\ Fresh(frame[p]) /\ DOMAIN frame[p] = FrameFields
         /\ frame = [frame EXCEPT ![p] = frame[p]]
<1>1. pc[p] # "idle"
  BY DEF Early
<1> QED BY <1>1, FreshOK DEF RowsInv, RunnersInv, IsFrame

LEMMA StartRows ==
  ASSUME RunnersInv, RowsInv, NEW p \in Runners, Start(p)
  PROVE  RowsInv'
<1>1. PICK v \in Versions : frame' = [frame EXCEPT ![p] = NewFrame(v)]
  BY DEF Start
<1>2. Fresh(NewFrame(v))
  <2>1. NewFrame(v).judged \in Seq(Scores)
    BY DEF NewFrame
  <2>2. Full * 0 = 0
    BY Assumed
  <2> QED BY <2>1, <2>2 DEF Fresh, FrameOK, IsFrame, NewFrame, FrameFields, Modes, NoRun
<1>3. \E l \in Early : pc' = [pc EXCEPT ![p] = l]
  BY DEF Start, Goto, Early
<1> QED BY <1>1, <1>2, <1>3, FreshMoves DEF Start, others, tables, setup, history

LEMMA FreshStepRows ==
  ASSUME RunnersInv, RowsInv, NEW p \in Runners,
         GuardJudge(p) \/ ReadGeneratorMode(p) \/ ReadJudgeMode(p) \/ ListCases(p)
           \/ StartTrace(p),
         Len(cases) \in Nat
  PROVE  RowsInv'
<1>0. UNCHANGED <<runs, results, published, active, clearing, evidence, now, reported>>
  BY DEF GuardJudge, ReadGeneratorMode, ReadJudgeMode, ReadMode, ListCases, StartTrace,
         others, tables, setup, history
<1>1. CASE Return(p)
  BY <1>0, <1>1, ReturnRows DEF RowsInv, Others
<1>2. CASE ~Return(p)
  <2>1. pc[p] \in Early
    BY DEF GuardJudge, ReadGeneratorMode, ReadJudgeMode, ReadMode, ListCases, StartTrace, Early
  <2>2. Fresh(frame[p]) /\ DOMAIN frame[p] = FrameFields
        /\ frame = [frame EXCEPT ![p] = frame[p]]
    BY <2>1, FreshFrame
  <2>3. PICK l \in Early : pc' = [pc EXCEPT ![p] = l]
    BY <1>2 DEF GuardJudge, ReadGeneratorMode, ReadJudgeMode, ReadMode, ListCases,
                StartTrace, Goto, Early
  <2> DEFINE f == frame[p]
             counted == [f EXCEPT !.total = Len(cases), !.left = Len(cases)]
             wired == [f EXCEPT !.mode = "wiring_check"]
             blind == [f EXCEPT !.traced = FALSE]
  <2>4. PICK g \in {f, counted, wired, blind} : frame' = [frame EXCEPT ![p] = g]
    <3>1. CASE GuardJudge(p)
      BY <1>2, <2>2, <3>1 DEF GuardJudge
    <3>2. CASE ReadGeneratorMode(p) \/ ReadJudgeMode(p)
      BY <1>2, <2>2, <3>2 DEF ReadGeneratorMode, ReadJudgeMode, ReadMode
    <3>3. CASE ListCases(p)
      BY <2>2, <3>3 DEF ListCases
    <3>4. CASE StartTrace(p)
      BY <2>2, <3>4 DEF StartTrace
    <3> QED BY <3>1, <3>2, <3>3, <3>4
  <2>5. Fresh(counted) /\ Fresh(wired) /\ Fresh(blind)
    <3>1. Fresh(counted)
      BY <2>2 DEF Fresh, FrameOK, IsFrame, FrameFields
    <3>2. Fresh(wired)
      BY <2>2 DEF Fresh, FrameOK, IsFrame, FrameFields, Modes
    <3>3. Fresh(blind)
      BY <2>2 DEF Fresh, FrameOK, IsFrame, FrameFields
    <3> QED BY <3>1, <3>2, <3>3
  <2> HIDE DEF f, counted, wired, blind
  <2>6. Fresh(g)
    BY <2>2, <2>4, <2>5 DEF f
  <2> QED BY <1>0, <2>3, <2>4, <2>6, FreshMoves
<1> QED BY <1>1, <1>2

LEMMA InsertRunRows ==
  ASSUME RunnersInv, RowsInv, NEW p \in Runners, InsertRun(p)
  PROVE  RowsInv'
<1> DEFINE f == frame[p]
           k == Len(runs) + 1
           g == [f EXCEPT !.run = k]
           row == [version |-> f.version, mode |-> f.mode, started |-> now,
                   verdict |-> "running", total |-> f.total, passed |-> 0,
                   score |-> NoScore, base |-> NoRun, errors |-> 0, degraded |-> 0]
           none == [errors |-> 0, grades |-> {}]
<1>0. /\ RunTables(runs, results) /\ Len(runs) \in Nat /\ Len(results) = Len(runs)
      /\ runs \in Seq(RunRows) /\ results \in Seq(ResultRows)
      /\ now \in Nat /\ reported \subseteq 1 .. Len(runs)
  BY Lengths DEF RowsInv, RunTables, Others
<1>1. pc[p] = "insert" /\ Fresh(f) /\ DOMAIN f = FrameFields
  BY FreshFrame DEF InsertRun, Early
<1>2. /\ pc' = [pc EXCEPT ![p] = "case"] /\ frame' = [frame EXCEPT ![p] = g]
      /\ runs' = Append(runs, row) /\ results' = Append(results, none)
      /\ UNCHANGED <<published, active, clearing, evidence, now, reported>>
  BY <1>1 DEF InsertRun, Goto, others, setup, RunnersInv
<1>3. row \in RunRows /\ none \in ResultRows
  BY <1>0, <1>1 DEF RunRows, ResultRows, Fresh, FrameOK, IsFrame, Verdicts, Scores, NoRun
<1> HIDE DEF row, none
<1>4. /\ runs' \in Seq(RunRows) /\ results' \in Seq(ResultRows)
      /\ Len(runs') = k /\ Len(results') = k
      /\ \A r \in 1 .. Len(runs) : runs'[r] = runs[r] /\ results'[r] = results[r]
      /\ runs'[k] = row /\ results'[k] = none
  BY <1>0, <1>2, <1>3
<1>5. RowsMove(k)
  BY <1>0, <1>4 DEF RowsMove
<1>6. RowOK(k, runs', results')
  BY <1>4 DEF RowOK, Compared, row
<1>7. RunTables(runs, results)'
  BY <1>0, <1>4, <1>5, <1>6, TablesMove
<1>8. RunnerOK(g, "case", runs', results')
  <2>0. k \in Nat
    BY <1>0
  <2>1. FrameOK(g) /\ g.run = k /\ g.base = NoRun /\ g.judged = <<>> /\ g.errors = 0
        /\ g.scored = 0 /\ g.version = f.version /\ g.mode = f.mode
    <3> HIDE DEF k
    <3> QED BY <2>0, <1>1 DEF Fresh, FrameOK, IsFrame, FrameFields
  <2> HIDE DEF g
  <2>2. Progress(g, "case")
    BY <2>1 DEF Progress, Early
  <2>3. Tally(g, none)
    BY <2>1 DEF Tally, none
  <2>4. k \in 1 .. Len(runs') /\ NoRun \in 0 .. Len(runs')
    BY <1>0, <1>4 DEF NoRun
  <2>5. row.version = f.version /\ row.mode = f.mode /\ row.verdict = "running"
    BY DEF row
  <2> QED BY <1>4, <2>1, <2>2, <2>3, <2>4, <2>5 DEF RunnerOK
<1>9. k \notin 1 .. Len(runs) /\ g.run = k /\ reported' \subseteq 1 .. Len(runs')
  BY <1>0, <1>1, <1>2, <1>4 DEF FrameFields
<1> HIDE DEF g, k
<1>10. g.run = Len(runs) + 1
  BY <1>9 DEF k
<1> QED BY <1>2, <1>5, <1>7, <1>8, <1>9, <1>10, RunnerMoves

-----------------------------------------------------------------------------
(* The cases *)

Same(g, f) == g.run = f.run /\ g.version = f.version /\ g.mode = f.mode /\ g.base = f.base

\* A runner in the middle of its cases, whose results are row.
CaseOK(f, l, row) == FrameOK(f) /\ Progress(f, l) /\ Tally(f, row)

LEMMA AtWork ==
  ASSUME RunnersInv, RowsInv, NEW p \in Runners, pc[p] \in {"case", "judge"}
  PROVE  /\ CaseOK(frame[p], pc[p], results[frame[p].run])
         /\ frame[p].run \in 1 .. Len(runs) /\ frame[p].base = NoRun
         /\ results[frame[p].run] \in ResultRows
         /\ DOMAIN frame[p] = FrameFields
         /\ pc = [pc EXCEPT ![p] = pc[p]]
<1>1. RunnerOK(frame[p], pc[p], runs, results)
  BY DEF RowsInv
<1>2. RunTables(runs, results)
  BY DEF RowsInv
<1>3. frame[p].run \in 1 .. Len(runs)
  BY <1>1 DEF RunnerOK, Inserted
<1>4. results[frame[p].run] \in ResultRows
  BY <1>2, <1>3, Lengths
<1>5. FrameOK(frame[p]) /\ Progress(frame[p], pc[p]) /\ Tally(frame[p], results[frame[p].run])
  BY <1>1 DEF RunnerOK, Working
<1>6. frame[p].base = NoRun
  BY <1>5 DEF Progress
<1>7. DOMAIN frame[p] = FrameFields
  BY <1>5 DEF FrameOK, IsFrame
<1>8. pc = [pc EXCEPT ![p] = pc[p]]
  BY DEF RunnersInv
<1> QED BY <1>3, <1>4, <1>5, <1>6, <1>7, <1>8 DEF CaseOK

LEMMA CaseMoves ==
  ASSUME RunnersInv, RowsInv, NEW p \in Runners, pc[p] \in {"case", "judge"},
         NEW l \in {"case", "judge"}, NEW g, NEW row \in ResultRows,
         pc' = [pc EXCEPT ![p] = l], frame' = [frame EXCEPT ![p] = g],
         Same(g, frame[p]), CaseOK(g, l, row),
         results' = [results EXCEPT ![frame[p].run] = row],
         UNCHANGED <<runs, published, active, clearing, evidence, now, reported>>
  PROVE  RowsInv'
<1> DEFINE k == frame[p].run
<1>1. RunTables(runs, results) /\ k \in 1 .. Len(runs)
  BY AtWork DEF RowsInv
<1>2. RunnerOK(frame[p], pc[p], runs, results)
  BY DEF RowsInv
<1>3. /\ Len(runs) \in Nat /\ runs \in Seq(RunRows) /\ results \in Seq(ResultRows)
      /\ Len(results) = Len(runs) /\ runs[k].verdict = "running"
      /\ runs[k].version = frame[p].version /\ runs[k].mode = frame[p].mode
  BY <1>1, <1>2, Lengths DEF RunTables, RunnerOK, Working
<1>4. /\ results' \in Seq(ResultRows) /\ Len(results') = Len(runs)
      /\ results'[k] = row /\ \A r \in 1 .. Len(runs) : r # k => results'[r] = results[r]
  BY <1>1, <1>3
<1>5. RowsMove(k)
  BY <1>3, <1>4 DEF RowsMove
<1>6. RowOK(k, runs', results')
  <2>1. RowOK(k, runs, results)
    BY <1>1 DEF RunTables
  <2> QED BY <1>3, <2>1 DEF RowOK
<1>7. RunTables(runs, results)'
  BY <1>1, <1>3, <1>4, <1>5, <1>6, TablesMove
<1>8. RunnerOK(g, l, runs', results')
  <2>1. g.base \in 0 .. Len(runs) /\ l \in Inserted
    BY <1>2 DEF RunnerOK, Same, Inserted
  <2> QED BY <1>1, <1>3, <1>4, <2>1 DEF CaseOK, RunnerOK, Same
<1>9. pc[p] \in Working /\ l # "idle" /\ g.run = k
  BY DEF Working, Same
<1>10. reported' \subseteq 1 .. Len(runs')
  BY DEF RowsInv, Others
<1> HIDE DEF k
<1>11. k = frame[p].run
  BY DEF k
<1> QED BY <1>5, <1>7, <1>8, <1>9, <1>10, <1>11, RunnerMoves

\* The gateway answers: what it adds to the frame is not counted.
LEMMA AnswerRows ==
  ASSUME RunnersInv, RowsInv, NEW p \in Runners, pc[p] \in {"case", "judge"},
         NEW model, NEW standin \in BOOLEAN, NEW f,
         NEW l \in {"case", "judge"}, NEW row \in ResultRows,
         CaseOK(f, l, row), Same(f, frame[p]),
         pc' = [pc EXCEPT ![p] = l], Answer(p, model, standin, f),
         results' = [results EXCEPT ![frame[p].run] = row],
         UNCHANGED <<runs, published, active, clearing, evidence, now, reported>>
  PROVE  RowsInv'
<1> DEFINE mock == IF def[model].mock /\ f.mode = "evaluation" THEN {"mock"} ELSE {}
           seen == IF standin THEN {"standin"} ELSE mock
<1>1. seen \in SUBSET Flaws /\ seen \cup {"unrecorded"} \in SUBSET Flaws
  BY DEF Flaws
<1>2. f.fed \cup seen \cup {"unrecorded"} = f.fed \cup (seen \cup {"unrecorded"})
  OBVIOUS
<1>3. \/ frame' = [frame EXCEPT ![p] = [f EXCEPT !.fed = @ \cup seen]]
      \/ frame' = [frame EXCEPT ![p] = [f EXCEPT !.fed = @ \cup seen \cup {"unrecorded"}]]
  BY DEF Answer
<1> HIDE DEF seen
<1>4. PICK flaws \in SUBSET Flaws :
        frame' = [frame EXCEPT ![p] = [f EXCEPT !.fed = @ \cup flaws]]
  BY <1>1, <1>2, <1>3
<1> DEFINE g == [f EXCEPT !.fed = @ \cup flaws]
<1>5. /\ FrameOK(g) /\ Same(g, f)
      /\ g.errors = f.errors /\ g.judged = f.judged /\ g.scored = f.scored /\ g.sum = f.sum
      /\ g.against = f.against
  BY DEF CaseOK, FrameOK, IsFrame, FrameFields, Same
<1>6. frame' = [frame EXCEPT ![p] = g]
  BY <1>4
<1> HIDE DEF g
<1>7. Progress(g, l) /\ Tally(g, row)
  BY <1>5 DEF CaseOK, Progress, Tally, Same
<1>8. CaseOK(g, l, row) /\ Same(g, frame[p])
  BY <1>5, <1>7 DEF CaseOK, Same
<1> QED BY <1>6, <1>8, CaseMoves

\* One case is done.
LEMMA WithCaseOK ==
  ASSUME NEW f, FrameOK(f), f.base = NoRun, NEW score \in Scores,
         NEW row \in ResultRows, f.errors = row.errors,
         Weights # <<>> =>
           /\ f.scored # 0 => Between(f.sum, f.scored, row.grades)
           /\ score # NoScore => Between(score, 1, row.grades)
           /\ row.grades # {} => f.scored # 0 \/ score # NoScore
  PROVE  CaseOK(WithCase(f, score), "case", row) /\ Same(WithCase(f, score), f)
<1> DEFINE g == WithCase(f, score)
<1>1. /\ DOMAIN f = FrameFields /\ f.scored \in Nat /\ f.sum \in Nat /\ f.passed \in Nat
      /\ f.sum <= Full * f.scored /\ f.errors \in Nat
  BY DEF FrameOK, IsFrame
<1>2. /\ DOMAIN g = FrameFields /\ Same(g, f) /\ g.fed = f.fed /\ g.total = f.total
      /\ g.errors = f.errors /\ g.degraded = f.degraded /\ g.judged = <<>>
      /\ g.passed \in {f.passed, f.passed + 1}
      /\ g.scored = (IF score = NoScore THEN f.scored ELSE f.scored + 1)
      /\ g.sum = (IF score = NoScore THEN f.sum ELSE f.sum + score)
  BY <1>1 DEF WithCase, FrameFields, Same
<1> HIDE DEF g
<1>3. score # NoScore => score \in Nat /\ score <= Full
  BY Assumed DEF Scores
<1>4. g.scored \in Nat /\ g.sum \in Nat /\ g.passed \in Nat /\ g.sum <= Full * g.scored
  <2>1. CASE score = NoScore
    BY <1>1, <1>2, <2>1
  <2>2. CASE score # NoScore
    <3>1. /\ g.scored = f.scored + 1 /\ g.sum = f.sum + score
          /\ score \in Nat /\ score <= Full /\ Full \in Nat
      BY <1>2, <1>3, <2>2, Assumed
    <3>2. f.sum + score <= Full * (f.scored + 1)
      BY <1>1, <3>1, OneMore
    <3>3. g.passed \in Nat /\ g.scored \in Nat /\ g.sum \in Nat
      BY SMTT(30), <1>1, <1>2, <3>1
    <3> QED BY <3>1, <3>2, <3>3
  <2> QED BY <2>1, <2>2
<1>5. FrameOK(g)
  <2>1. g.judged \in Seq(Scores)
    BY <1>2
  <2> QED BY <1>2, <1>4, <2>1 DEF FrameOK, IsFrame, Same
<1>6. Progress(g, "case")
  BY <1>2 DEF Progress, Early, Same
<1>7. Tally(g, row)
  <2> SUFFICES ASSUME Weights # <<>>
               PROVE  /\ g.scored # 0 => Between(g.sum, g.scored, row.grades)
                      /\ row.grades # {} => g.scored # 0
    BY <1>2 DEF Tally
  <2>1. CASE score = NoScore
    BY <1>2, <2>1
  <2>2. CASE score # NoScore
    <3>1. f.scored = 0 => f.sum = 0
      BY <1>1, Assumed
    <3>2. row.grades \in SUBSET (0 .. Full)
      BY DEF ResultRows
    <3>3. Between(f.sum + score, f.scored + 1, row.grades)
      BY <1>1, <1>3, <2>2, <3>1, <3>2, BetweenAdd
    <3> QED BY <1>1, <1>2, <2>2, <3>3
  <2> QED BY <2>1, <2>2
<1> QED BY <1>2, <1>5, <1>6, <1>7 DEF CaseOK, g

\* The judge's last metric is graded, or another one comes.
LEMMA GradedOK ==
  ASSUME NEW p, NEW f, FrameOK(f), f.base = NoRun, Weights # <<>>,
         NEW row \in ResultRows, Tally(f, row), Len(f.judged) <= Len(Weights)
  PROVE  LET after == Graded(p, f)
         IN  /\ after.next \in {"case", "judge"}
             /\ CaseOK(after.f, after.next, row) /\ Same(after.f, f)
<1>0. f.judged \in Seq(Scores) /\ Len(f.judged) \in Nat /\ Len(Weights) \in Nat
  BY SMTT(30), Assumed DEF FrameOK
<1>1. CASE Len(f.judged) < Len(Weights)
  <2>1. Progress(f, "judge")
    BY <1>1 DEF Progress, Early
  <2> QED BY <1>1, <2>1 DEF Graded, CaseOK, Same
<1>2. CASE Len(f.judged) = Len(Weights)
  <2> DEFINE score == WeightedAverage(f.judged)
  <2>1. row.grades \in SUBSET (0 .. Full)
    BY DEF ResultRows
  <2>2. \A i \in DOMAIN f.judged : f.judged[i] \in row.grades \cup {NoScore}
    BY DEF Tally
  <2>3. CASE \E i \in DOMAIN f.judged : f.judged[i] # NoScore
    <3>1. score \in 0 .. Full /\ Between(score, 1, row.grades)
      BY <1>0, <1>2, <2>1, <2>2, <2>3, AverageBetween
    <3>2. score \in Scores /\ score # NoScore
      BY <3>1, Assumed DEF Scores
    <3> HIDE DEF score
    <3>3. CaseOK(WithCase(f, score), "case", row) /\ Same(WithCase(f, score), f)
      BY <3>1, <3>2, WithCaseOK DEF Tally
    <3> QED BY <1>0, <1>2, <3>3 DEF Graded, score
  <2>4. CASE \A i \in DOMAIN f.judged : f.judged[i] = NoScore
    <3>1. score = NoScore
      BY <2>4 DEF WeightedAverage
    <3>2. score \in Scores
      BY <3>1 DEF Scores
    <3> HIDE DEF score
    <3>3. CaseOK(WithCase(f, score), "case", row) /\ Same(WithCase(f, score), f)
      BY <2>4, <3>1, <3>2, WithCaseOK DEF Tally
    <3> QED BY <1>0, <1>2, <3>3 DEF Graded, score
  <2> QED BY <2>3, <2>4
<1> QED BY <1>0, <1>1, <1>2

\* A row of results with one error, or one grade, more.
LEMMA ErrorRow ==
  ASSUME NEW row \in ResultRows
  PROVE  LET wrong == [row EXCEPT !.errors = @ + 1]
         IN  /\ wrong \in ResultRows /\ wrong.grades = row.grades
             /\ wrong.errors = row.errors + 1
BY DEF ResultRows

LEMMA GradeRow ==
  ASSUME NEW row \in ResultRows, NEW s \in 0 .. Full
  PROVE  LET graded == [row EXCEPT !.grades = @ \cup {s}]
         IN  /\ graded \in ResultRows /\ graded.errors = row.errors
             /\ graded.grades = row.grades \cup {s}
BY DEF ResultRows

LEMMA GenerateFailsRows ==
  ASSUME RunnersInv, RowsInv, NEW p \in Runners, GenerateFails(p)
  PROVE  RowsInv'
<1> DEFINE f == frame[p]
           old == results[f.run]
           row == [old EXCEPT !.errors = @ + 1]
           g == [f EXCEPT !.left = @ - 1, !.errors = @ + 1]
<1>1. pc[p] = "case"
  BY DEF GenerateFails
<1>2. /\ CaseOK(f, "case", old) /\ old \in ResultRows /\ DOMAIN f = FrameFields
      /\ pc = [pc EXCEPT ![p] = "case"]
  BY <1>1, AtWork
<1>3. row \in ResultRows /\ row.grades = old.grades /\ row.errors = old.errors + 1
  BY <1>2, ErrorRow
<1>4. FrameOK(f) /\ Progress(f, "case") /\ Tally(f, old)
  BY <1>2 DEF CaseOK
<1>5. /\ FrameOK(g) /\ Same(g, f) /\ g.errors = f.errors + 1
      /\ g.judged = f.judged /\ g.scored = f.scored /\ g.sum = f.sum /\ g.against = f.against
  BY <1>4 DEF FrameOK, IsFrame, FrameFields, Same
<1>6. frame' = [frame EXCEPT ![p] = g] /\ results' = [results EXCEPT ![f.run] = row]
  BY DEF GenerateFails, RecordError
<1>7. /\ pc' = [pc EXCEPT ![p] = "case"]
      /\ UNCHANGED <<runs, published, active, clearing, evidence, now, reported>>
  BY <1>2 DEF GenerateFails, others, setup, history
<1> HIDE DEF g, row, old
<1>8. Progress(g, "case")
  BY <1>4, <1>5 DEF Progress, Early, Same
<1>9. Tally(g, row)
  BY <1>3, <1>4, <1>5 DEF Tally
<1>10. CaseOK(g, "case", row) /\ Same(g, frame[p])
  BY <1>5, <1>8, <1>9 DEF CaseOK
<1> HIDE DEF f
<1>11. results' = [results EXCEPT ![frame[p].run] = row]
  BY <1>6 DEF f
<1> QED BY <1>1, <1>3, <1>6, <1>7, <1>10, <1>11, CaseMoves

LEMMA GenerateRows ==
  ASSUME RunnersInv, RowsInv, NEW p \in Runners, Generate(p)
  PROVE  RowsInv'
<1> DEFINE row == results[frame[p].run]
<1>1. pc[p] = "case"
  BY DEF Generate
<1>2. /\ CaseOK(frame[p], "case", row) /\ row \in ResultRows
      /\ DOMAIN frame[p] = FrameFields /\ frame[p].run \in 1 .. Len(runs)
      /\ frame[p].base = NoRun /\ pc = [pc EXCEPT ![p] = "case"]
  BY <1>1, AtWork
<1>3. results' = [results EXCEPT ![frame[p].run] = row]
  BY <1>2, Lengths DEF RowsInv, RunTables, Generate
<1>4. UNCHANGED <<runs, published, active, clearing, evidence, now, reported>>
  BY DEF Generate, others, setup, history
<1> HIDE DEF row
<1>5. PICK standin \in BOOLEAN, obeys \in BOOLEAN :
        LET f == [frame[p] EXCEPT !.obeys = obeys]
        IN  IF GoesToJudge(f)
            THEN Goto(p, "judge") /\ Answer(p, Generator, standin, f)
            ELSE /\ UNCHANGED pc
                 /\ Answer(p, Generator, standin, WithCase(f, ScoreWithoutJudge(f)))
  BY DEF Generate
<1> DEFINE f == [frame[p] EXCEPT !.obeys = obeys]
<1>6. /\ FrameOK(f) /\ Same(f, frame[p]) /\ f.base = NoRun /\ f.errors = frame[p].errors
      /\ f.judged = frame[p].judged /\ f.scored = frame[p].scored
      /\ f.sum = frame[p].sum /\ f.against = frame[p].against
  BY <1>2 DEF CaseOK, FrameOK, IsFrame, FrameFields, Same
<1>7. IF GoesToJudge(f)
      THEN Goto(p, "judge") /\ Answer(p, Generator, standin, f)
      ELSE UNCHANGED pc /\ Answer(p, Generator, standin, WithCase(f, ScoreWithoutJudge(f)))
  BY <1>5
<1> HIDE DEF f
<1>8. Tally(f, row) /\ f.judged = <<>> /\ f.errors = row.errors
  BY <1>2, <1>6 DEF CaseOK, Progress, Tally
<1>9. PICK l \in {"case", "judge"}, h \in {f, WithCase(f, ScoreWithoutJudge(f))} :
        pc' = [pc EXCEPT ![p] = l] /\ Answer(p, Generator, standin, h)
        /\ CaseOK(h, l, row) /\ Same(h, f)
  <2>1. CASE GoesToJudge(f)
    <3>1. Weights # <<>>
      BY <2>1 DEF GoesToJudge
    <3>2. Len(f.judged) < Len(Weights)
      BY <1>8, <3>1, Assumed
    <3>3. Progress(f, "judge")
      BY <1>6, <3>2 DEF Progress, Early
    <3>4. CaseOK(f, "judge", row) /\ Same(f, f)
      BY <1>6, <1>8, <3>3 DEF CaseOK, Same
    <3> QED BY <1>7, <2>1, <3>4 DEF Goto
  <2>2. CASE ~GoesToJudge(f)
    <3> DEFINE score == ScoreWithoutJudge(f)
    <3>1. score \in Scores /\ (Weights # <<>> => score = NoScore)
      BY Assumed, <1>6, <2>2 DEF ScoreWithoutJudge, Scores, GoesToJudge
    <3> HIDE DEF score
    <3>2. Weights # <<>> =>
            /\ f.scored # 0 => Between(f.sum, f.scored, row.grades)
            /\ score # NoScore => Between(score, 1, row.grades)
            /\ row.grades # {} => f.scored # 0 \/ score # NoScore
      BY <1>8, <3>1 DEF Tally
    <3>3. CaseOK(WithCase(f, score), "case", row) /\ Same(WithCase(f, score), f)
      BY <1>2, <1>6, <1>8, <3>1, <3>2, WithCaseOK
    <3> QED BY <1>2, <1>7, <2>2, <3>3 DEF score
  <2> QED BY <2>1, <2>2
<1>10. Same(h, frame[p])
  BY <1>6, <1>9 DEF Same
<1> QED BY ZenonT(30), <1>1, <1>2, <1>3, <1>4, <1>9, <1>10, AnswerRows

\* The judge's answer to one metric, a grade or none.
LEMMA GradeTally ==
  ASSUME NEW f, CaseOK(f, "judge", results[f.run]), NEW row \in ResultRows,
         NEW grade \in Scores, NEW g,
         g = [f EXCEPT !.judged = Append(@, grade),
                       !.errors = IF grade = NoScore THEN @ + 1 ELSE @],
         row.errors = (IF grade = NoScore THEN results[f.run].errors + 1
                       ELSE results[f.run].errors),
         row.grades = (IF grade = NoScore THEN results[f.run].grades
                       ELSE results[f.run].grades \cup {grade})
  PROVE  /\ FrameOK(g) /\ Same(g, f) /\ Len(g.judged) <= Len(Weights)
         /\ Tally(g, row)
<1> DEFINE old == results[f.run]
<1>1. /\ FrameOK(f) /\ Progress(f, "judge") /\ Tally(f, old)
      /\ f.judged \in Seq(Scores) /\ DOMAIN f = FrameFields /\ f.errors \in Nat
  BY DEF CaseOK, FrameOK, IsFrame
<1> DEFINE more == Append(f.judged, grade)
           wrong == IF grade = NoScore THEN f.errors + 1 ELSE f.errors
<1>2. /\ more \in Seq(Scores) /\ Len(more) = Len(f.judged) + 1 /\ Len(f.judged) \in Nat
      /\ \A i \in DOMAIN f.judged : i \in DOMAIN more /\ more[i] = f.judged[i]
      /\ Len(more) \in DOMAIN more /\ more[Len(more)] = grade
      /\ \A i \in DOMAIN more : i \in DOMAIN f.judged \/ i = Len(more)
      /\ wrong \in Nat
  BY <1>1
<1>3. /\ g.judged = more /\ g.errors = wrong
      /\ g = [f EXCEPT !.judged = more, !.errors = wrong]
  BY <1>1 DEF FrameFields
<1> HIDE DEF more, wrong
<1>4. /\ FrameOK(g) /\ Same(g, f) /\ g.scored = f.scored /\ g.sum = f.sum
  BY <1>1, <1>2, <1>3 DEF FrameOK, IsFrame, FrameFields, Same
<1>5. Len(g.judged) <= Len(Weights)
  <2>1. Len(f.judged) < Len(Weights) /\ Len(Weights) \in Nat
    BY <1>1, Assumed DEF Progress
  <2> QED BY <1>2, <1>3, <2>1
<1>6. g.errors = row.errors
  BY <1>1, <1>3 DEF Tally, wrong
<1>7. ASSUME Weights # <<>>
      PROVE  /\ \A i \in DOMAIN more : more[i] \in row.grades \cup {NoScore}
             /\ f.scored # 0 => Between(f.sum, f.scored, row.grades)
             /\ row.grades # {} =>
                  f.scored # 0 \/ \E i \in DOMAIN more : more[i] # NoScore
  <2>1. /\ \A i \in DOMAIN f.judged : f.judged[i] \in old.grades \cup {NoScore}
        /\ f.scored # 0 => Between(f.sum, f.scored, old.grades)
        /\ old.grades # {} =>
             f.scored # 0 \/ \E i \in DOMAIN f.judged : f.judged[i] # NoScore
    BY <1>1, <1>7 DEF Tally
  <2>2. old.grades \subseteq row.grades /\ grade \in row.grades \cup {NoScore}
    OBVIOUS
  <2>3. \A i \in DOMAIN more : more[i] \in row.grades \cup {NoScore}
    BY <1>2, <2>1, <2>2
  <2>4. f.scored # 0 => Between(f.sum, f.scored, row.grades)
    BY <2>1, <2>2, BetweenMore
  <2>5. ASSUME row.grades # {}
        PROVE  f.scored # 0 \/ \E i \in DOMAIN more : more[i] # NoScore
    <3>1. CASE grade = NoScore
      BY <1>2, <2>1, <2>5, <3>1
    <3>2. CASE grade # NoScore
      BY <1>2, <3>2
    <3> QED BY <3>1, <3>2
  <2> QED BY <2>3, <2>4, <2>5
<1>8. Tally(g, row)
  BY <1>3, <1>4, <1>6, <1>7 DEF Tally
<1> QED BY <1>4, <1>5, <1>8

LEMMA AskJudgeRows ==
  ASSUME RunnersInv, RowsInv, NEW p \in Runners, AskJudge(p)
  PROVE  RowsInv'
<1> DEFINE f == frame[p]
           old == results[f.run]
<1>1. pc[p] = "judge"
  BY DEF AskJudge
<1>2. /\ CaseOK(f, "judge", old) /\ old \in ResultRows /\ f.base = NoRun
      /\ Weights # <<>>
  BY <1>1, AtWork DEF RunnersInv
<1>3. UNCHANGED <<runs, published, active, clearing, evidence, now, reported>>
  BY DEF AskJudge, others, setup, history
<1>4. PICK payload \in Payloads, standin \in BOOLEAN :
        LET grade == Parsed(payload)
            g     == [f EXCEPT !.judged = Append(@, grade),
                               !.errors = IF grade = NoScore THEN @ + 1 ELSE @]
            after == Graded(p, g)
        IN  /\ Goto(p, after.next)
            /\ Answer(p, JudgeModel, standin, after.f)
            /\ IF grade = NoScore THEN RecordError(p) ELSE RecordGrade(p, grade)
  BY DEF AskJudge
<1> DEFINE grade == Parsed(payload)
           g == [f EXCEPT !.judged = Append(@, grade),
                          !.errors = IF grade = NoScore THEN @ + 1 ELSE @]
           after == Graded(p, g)
           row == IF grade = NoScore THEN [old EXCEPT !.errors = @ + 1]
                  ELSE [old EXCEPT !.grades = @ \cup {grade}]
<1>5. /\ pc' = [pc EXCEPT ![p] = after.next]
      /\ Answer(p, JudgeModel, standin, after.f)
      /\ results' = [results EXCEPT ![f.run] = row]
  BY <1>4 DEF Goto, RecordError, RecordGrade
<1>6. grade \in Scores /\ (grade # NoScore => grade \in 0 .. Full)
  BY DEF Parsed, Scores
<1> HIDE DEF grade
<1>7. /\ row \in ResultRows
      /\ row.errors = (IF grade = NoScore THEN old.errors + 1 ELSE old.errors)
      /\ row.grades = (IF grade = NoScore THEN old.grades ELSE old.grades \cup {grade})
  <2>1. CASE grade = NoScore
    BY <1>2, <2>1, ErrorRow
  <2>2. CASE grade # NoScore
    BY <1>2, <1>6, <2>2, GradeRow
  <2> QED BY <2>1, <2>2
<1> HIDE DEF row
<1>8. FrameOK(g) /\ Same(g, f) /\ Len(g.judged) <= Len(Weights) /\ Tally(g, row)
  BY <1>2, <1>6, <1>7, GradeTally
<1> HIDE DEF g
<1>9. g.base = NoRun
  BY <1>2, <1>8 DEF Same
<1>10. /\ after.next \in {"case", "judge"}
       /\ CaseOK(after.f, after.next, row) /\ Same(after.f, g)
  BY <1>2, <1>7, <1>8, <1>9, GradedOK
<1> DEFINE l == after.next
           h == after.f
<1>11. /\ pc' = [pc EXCEPT ![p] = l] /\ Answer(p, JudgeModel, standin, h)
       /\ l \in {"case", "judge"} /\ CaseOK(h, l, row) /\ Same(h, g)
  BY <1>5, <1>10
<1> HIDE DEF l, h
<1>12. Same(h, frame[p])
  BY <1>8, <1>11 DEF Same
<1>13. results' = [results EXCEPT ![frame[p].run] = row]
  BY <1>5
<1> QED BY <1>1, <1>3, <1>7, <1>11, <1>12, <1>13, AnswerRows

LEMMA JudgeFailsRows ==
  ASSUME RunnersInv, RowsInv, NEW p \in Runners, JudgeFails(p)
  PROVE  RowsInv'
<1> DEFINE f == frame[p]
           old == results[f.run]
           row == [old EXCEPT !.errors = @ + 1]
           g == [f EXCEPT !.judged = Append(@, NoScore), !.errors = @ + 1]
           after == Graded(p, g)
<1>1. pc[p] = "judge"
  BY DEF JudgeFails
<1>2. /\ CaseOK(f, "judge", old) /\ old \in ResultRows /\ f.base = NoRun
      /\ Weights # <<>>
  BY <1>1, AtWork DEF RunnersInv
<1>3. /\ pc' = [pc EXCEPT ![p] = after.next] /\ frame' = [frame EXCEPT ![p] = after.f]
      /\ results' = [results EXCEPT ![frame[p].run] = row]
      /\ UNCHANGED <<runs, published, active, clearing, evidence, now, reported>>
  BY DEF JudgeFails, RecordError, Goto, others, setup, history
<1>4. row \in ResultRows /\ row.errors = old.errors + 1 /\ row.grades = old.grades
  BY <1>2, ErrorRow
<1> HIDE DEF row
<1>5. NoScore \in Scores
  BY DEF Scores
<1>6. g = [f EXCEPT !.judged = Append(@, NoScore),
                    !.errors = IF NoScore = NoScore THEN @ + 1 ELSE @]
  OBVIOUS
<1>7. FrameOK(g) /\ Same(g, f) /\ Len(g.judged) <= Len(Weights) /\ Tally(g, row)
  <2> HIDE DEF g
  <2> QED BY <1>2, <1>4, <1>5, <1>6, GradeTally
<1> HIDE DEF g
<1>8. g.base = NoRun
  BY <1>2, <1>7 DEF Same
<1>9. /\ after.next \in {"case", "judge"}
      /\ CaseOK(after.f, after.next, row) /\ Same(after.f, g)
  BY <1>2, <1>4, <1>7, <1>8, GradedOK
<1> DEFINE l == after.next
           h == after.f
<1>10. /\ pc' = [pc EXCEPT ![p] = l] /\ frame' = [frame EXCEPT ![p] = h]
       /\ l \in {"case", "judge"} /\ CaseOK(h, l, row) /\ Same(h, g)
  BY <1>3, <1>9
<1> HIDE DEF l, h
<1>11. Same(h, frame[p])
  BY <1>7, <1>10 DEF Same
<1> QED BY <1>1, <1>3, <1>4, <1>10, <1>11, CaseMoves

-----------------------------------------------------------------------------
(* The verdict *)

LEMMA KnowsItsRow ==
  ASSUME RunnersInv, RowsInv, NEW p \in Runners, pc[p] \in Inserted
  PROVE  /\ RunnerOK(frame[p], pc[p], runs, results)
         /\ FrameOK(frame[p]) /\ DOMAIN frame[p] = FrameFields
         /\ frame[p].run \in 1 .. Len(runs)
         /\ RunTables(runs, results) /\ reported \subseteq 1 .. Len(runs)
<1>1. pc[p] # "idle"
  BY DEF Inserted, Totalled
<1>2. RunnerOK(frame[p], pc[p], runs, results)
  BY <1>1 DEF RowsInv
<1> QED BY <1>2 DEF RowsInv, RunnerOK, FrameOK, IsFrame, Others

LEMMA ReadTotalsRows ==
  ASSUME RunnersInv, TablesInv, RowsInv, NEW p \in Runners, ReadTotals(p)
  PROVE  RowsInv'
<1> DEFINE f == frame[p]
           d == degraded[f.run]
           g == [f EXCEPT !.degraded = d]
<1>1. pc[p] = "case" /\ pc[p] \in Inserted /\ pc[p] \in Working
  BY DEF ReadTotals, Inserted, Working
<1>2. /\ RunnerOK(f, "case", runs, results) /\ FrameOK(f) /\ DOMAIN f = FrameFields
      /\ f.run \in 1 .. Len(runs) /\ reported \subseteq 1 .. Len(runs)
  BY <1>1, KnowsItsRow
<1>3. d \in Nat
  BY <1>2 DEF TablesInv
<1>4. /\ pc' = [pc EXCEPT ![p] = "deployment"] /\ frame' = [frame EXCEPT ![p] = g]
      /\ UNCHANGED <<runs, results, published, active, clearing, evidence, now, reported>>
  BY DEF ReadTotals, Goto, others, tables, setup, history
<1> HIDE DEF d
<1>5. /\ FrameOK(g) /\ Same(g, f) /\ g.errors = f.errors /\ g.judged = f.judged
      /\ g.scored = f.scored /\ g.sum = f.sum
  BY <1>2, <1>3 DEF FrameOK, IsFrame, FrameFields, Same
<1> HIDE DEF g
<1>6. /\ Progress(f, "case") /\ Tally(f, results[f.run])
      /\ runs[f.run].version = f.version /\ runs[f.run].mode = f.mode
      /\ runs[f.run].verdict = "running" /\ f.base \in 0 .. Len(runs)
  BY <1>2 DEF RunnerOK, Working, Inserted
<1>7. Progress(g, "deployment")
  BY <1>5, <1>6 DEF Progress, Early, Same
<1>8. Tally(g, results[f.run])
  BY <1>5, <1>6 DEF Tally
<1>9. RunnerOK(g, "deployment", runs, results)
  BY <1>2, <1>5, <1>6, <1>7, <1>8 DEF RunnerOK, Same
<1> QED BY <1>1, <1>2, <1>4, <1>5, <1>9, RunnerReads DEF Same

LEMMA ReadDeploymentRows ==
  ASSUME RunnersInv, RowsInv, NEW p \in Runners, ReadDeployment(p)
  PROVE  RowsInv'
<1> DEFINE f == frame[p]
           g == [f EXCEPT !.against = active]
<1>1. pc[p] = "deployment" /\ pc[p] \in Inserted /\ pc[p] \in Working
  BY DEF ReadDeployment, Inserted, Working, Totalled
<1>2. /\ RunnerOK(f, "deployment", runs, results) /\ FrameOK(f) /\ DOMAIN f = FrameFields
      /\ f.run \in 1 .. Len(runs) /\ reported \subseteq 1 .. Len(runs)
  BY <1>1, KnowsItsRow
<1>3. UNCHANGED <<runs, results, published, active, clearing, evidence, now, reported>>
  BY DEF ReadDeployment, others, tables, setup, history
<1>4. /\ Progress(f, "deployment") /\ Tally(f, results[f.run])
      /\ runs[f.run].version = f.version /\ runs[f.run].mode = f.mode
      /\ runs[f.run].verdict = "running" /\ f.base \in 0 .. Len(runs) /\ f.base = NoRun
  BY <1>2 DEF RunnerOK, Working, Totalled, Inserted, Progress
<1>5. CASE Comparable(p)
  <2>1. pc' = [pc EXCEPT ![p] = "baseline"] /\ frame' = [frame EXCEPT ![p] = g]
    BY <1>5 DEF ReadDeployment, Goto
  <2>2. /\ FrameOK(g) /\ Same(g, f) /\ g.errors = f.errors /\ g.judged = f.judged
        /\ g.scored = f.scored /\ g.sum = f.sum /\ g.against = active
    BY <1>2 DEF FrameOK, IsFrame, FrameFields, Same
  <2> HIDE DEF g
  <2>3. Progress(g, "baseline")
    BY <1>4, <1>5, <2>2 DEF Progress, Early, Same, Comparable
  <2>4. Tally(g, results[f.run])
    BY <1>4, <2>2 DEF Tally
  <2>5. RunnerOK(g, "baseline", runs, results)
    BY <1>2, <1>4, <2>2, <2>3, <2>4 DEF RunnerOK, Same
  <2> QED BY <1>1, <1>2, <1>3, <2>1, <2>2, <2>5, RunnerReads DEF Same
<1>6. CASE ~Comparable(p)
  <2>1. pc' = [pc EXCEPT ![p] = "finish"] /\ frame' = [frame EXCEPT ![p] = f]
    BY <1>6 DEF ReadDeployment, Goto, RunnersInv
  <2>2. Progress(f, "finish")
    BY <1>4 DEF Progress, Early
  <2>3. RunnerOK(f, "finish", runs, results)
    BY <1>2, <1>4, <2>2 DEF RunnerOK
  <2> QED BY <1>1, <1>2, <1>3, <2>1, <2>3, RunnerReads
<1> QED BY <1>5, <1>6

LEMMA ReadBaselineRows ==
  ASSUME RunnersInv, RowsInv, NEW p \in Runners, ReadBaseline(p)
  PROVE  RowsInv'
<1> DEFINE f == frame[p]
<1>1. pc[p] = "baseline" /\ pc[p] \in Inserted /\ pc[p] \in Working
  BY DEF ReadBaseline, Inserted, Working, Totalled
<1>2. /\ RunnerOK(f, "baseline", runs, results) /\ FrameOK(f) /\ DOMAIN f = FrameFields
      /\ f.run \in 1 .. Len(runs) /\ reported \subseteq 1 .. Len(runs)
      /\ RunTables(runs, results)
  BY <1>1, KnowsItsRow
<1>3. UNCHANGED <<runs, results, published, active, clearing, evidence, now, reported>>
  BY DEF ReadBaseline, others, tables, setup, history
<1>4. /\ Progress(f, "baseline") /\ Tally(f, results[f.run])
      /\ runs[f.run].version = f.version /\ runs[f.run].mode = f.mode
      /\ runs[f.run].verdict = "running" /\ f.base = NoRun /\ f.against # f.version
  BY <1>2 DEF RunnerOK, Working, Totalled, Inserted, Progress
<1>5. Len(runs) \in Nat /\ DOMAIN runs = 1 .. Len(runs)
  BY <1>2, Lengths
<1>6. pc' = [pc EXCEPT ![p] = "finish"]
  BY DEF ReadBaseline, Goto
<1>7. CASE frame' = frame
  <2>1. frame' = [frame EXCEPT ![p] = f]
    BY <1>7 DEF RunnersInv
  <2>2. Progress(f, "finish")
    BY <1>4 DEF Progress, Early
  <2>3. f.base \in 0 .. Len(runs)
    BY <1>4, <1>5 DEF NoRun
  <2>4. RunnerOK(f, "finish", runs, results)
    BY <1>2, <1>4, <2>2, <2>3 DEF RunnerOK
  <2> QED BY <1>1, <1>2, <1>3, <1>6, <2>1, <2>4, RunnerReads
<1>8. ASSUME NEW r \in Latest(f.against),
             frame' = [frame EXCEPT ![p].base =
                         IF runs[r].score = NoScore THEN NoRun ELSE r]
      PROVE  RowsInv'
  <2> DEFINE b == IF runs[r].score = NoScore THEN NoRun ELSE r
             g == [f EXCEPT !.base = b]
  <2>1. /\ r \in 1 .. Len(runs) /\ runs[r].version = f.against
        /\ runs[r].mode = "evaluation" /\ runs[r].verdict # "running"
    BY <1>5 DEF Latest
  <2>2. b # NoRun => IsBase(b, f.version, runs)
    BY <1>4, <2>1 DEF IsBase
  <2>3. b \in 0 .. Len(runs) /\ b \in Nat
    BY <1>5, <2>1 DEF NoRun
  <2>4. frame' = [frame EXCEPT ![p] = g]
    BY <1>8
  <2> HIDE DEF b
  <2>5. /\ FrameOK(g) /\ g.run = f.run /\ g.version = f.version /\ g.mode = f.mode
        /\ g.base = b /\ g.errors = f.errors /\ g.judged = f.judged
        /\ g.scored = f.scored /\ g.sum = f.sum
    BY <1>2, <2>3 DEF FrameOK, IsFrame, FrameFields
  <2> HIDE DEF g
  <2>6. Progress(g, "finish")
    BY <1>4, <2>5 DEF Progress, Early
  <2>7. Tally(g, results[f.run])
    BY <1>4, <2>5 DEF Tally
  <2>8. RunnerOK(g, "finish", runs, results)
    BY <1>2, <1>4, <2>2, <2>3, <2>5, <2>6, <2>7 DEF RunnerOK
  <2> QED BY <1>1, <1>2, <1>3, <1>6, <2>4, <2>5, <2>8, RunnerReads
<1> QED BY <1>7, <1>8 DEF ReadBaseline

\* The mean over the cases is a score ...
LEMMA ScoreType ==
  ASSUME NEW f, FrameOK(f)
  PROVE  /\ Score(f) \in Scores
         /\ f.scored # 0 => Score(f) \in 0 .. Full /\ Score(f) # NoScore
<1>1. f.scored \in Nat /\ f.sum \in Nat /\ f.sum <= Full * f.scored /\ Full \in Nat
  BY Assumed DEF FrameOK
<1>2. CASE f.scored = 0
  BY <1>2 DEF Score, Scores
<1>3. CASE f.scored # 0
  <2>1. 0 * f.scored <= f.sum /\ f.scored \in Nat \ {0} /\ 0 \in Nat
    BY <1>1, <1>3
  <2>2. f.sum \div f.scored \in 0 .. Full
    BY <1>1, <2>1, Division
  <2> QED BY <1>3, <2>2, Assumed DEF Score, Scores
<1> QED BY <1>2, <1>3

\* ... and lies between the grades, if there are any.
LEMMA ScoreOK ==
  ASSUME NEW f, FrameOK(f), NEW row \in ResultRows, Tally(f, row), f.judged = <<>>,
         Weights # <<>>
  PROVE  /\ Score(f) = NoScore <=> row.grades = {}
         /\ Score(f) # NoScore => Between(Score(f), 1, row.grades)
<1>1. f.scored \in Nat /\ f.sum \in Nat
  BY DEF FrameOK
<1>2. CASE f.scored = 0
  BY <1>2 DEF Score, Tally
<1>3. CASE f.scored # 0
  <2>1. Between(f.sum, f.scored, row.grades)
    BY <1>3 DEF Tally
  <2>2. row.grades \in SUBSET (0 .. Full)
    BY DEF ResultRows
  <2>3. Between(f.sum \div f.scored, 1, row.grades)
    BY <1>1, <1>3, <2>1, <2>2, BetweenMean
  <2>4. row.grades # {}
    BY <2>1 DEF Between
  <2> QED BY <1>3, <2>3, <2>4, ScoreType DEF Score
<1> QED BY <1>2, <1>3

\* What the verdict says of a frame.
LEMMA VerdictOf ==
  ASSUME NEW f
  PROVE  /\ Verdict(f) \in Verdicts \ {"running"}
         /\ Verdict(f) \in {"pass", "regressed"} => ~Broken(f) /\ f.mode # "wiring_check"
         /\ Verdict(f) = "pass" => f.scored # 0 /\ ~(Score(f) < MinScore) /\ ~Regressed(f)
         /\ Verdict(f) = "regressed" => Regressed(f)
         /\ NamedBase(f) = NoRun \/ NamedBase(f) = f.base
         /\ ~Broken(f) /\ f.mode # "wiring_check" => NamedBase(f) = f.base
<1>1. Verdict(f) \in Verdicts \ {"running"}
  BY DEF Verdict, Verdicts
<1>2. Verdict(f) \in {"pass", "regressed"} => ~Broken(f) /\ f.mode # "wiring_check"
  BY DEF Verdict
<1>3. Verdict(f) = "pass" => ~(Score(f) < MinScore) /\ ~Regressed(f)
  BY DEF Verdict
<1>4. Verdict(f) = "regressed" => Regressed(f)
  BY DEF Verdict
<1>5. ~Broken(f) => f.scored # 0
  BY DEF Broken
<1>6. /\ NamedBase(f) = NoRun \/ NamedBase(f) = f.base
      /\ ~Broken(f) /\ f.mode # "wiring_check" => NamedBase(f) = f.base
  BY DEF NamedBase
<1> QED BY <1>1, <1>2, <1>3, <1>4, <1>5, <1>6

LEMMA FinishRows ==
  ASSUME RunnersInv, RowsInv, NEW p \in Runners, Finish(p)
  PROVE  RowsInv'
<1> DEFINE f == frame[p]
           k == f.run
           row == [runs[k] EXCEPT !.verdict  = Verdict(f),
                                  !.passed   = f.passed,
                                  !.score    = Score(f),
                                  !.base     = NamedBase(f),
                                  !.errors   = f.errors,
                                  !.degraded = f.degraded]
<1>1. pc[p] = "finish" /\ pc[p] \in Inserted /\ pc[p] \in Working
  BY DEF Finish, Inserted, Working, Totalled
<1>2. /\ RunnerOK(f, "finish", runs, results) /\ FrameOK(f) /\ DOMAIN f = FrameFields
      /\ k \in 1 .. Len(runs) /\ reported \subseteq 1 .. Len(runs)
      /\ RunTables(runs, results)
  BY <1>1, KnowsItsRow
<1>3. /\ pc' = [pc EXCEPT ![p] = "report"] /\ frame' = [frame EXCEPT ![p] = f]
      /\ runs' = [runs EXCEPT ![k] = row]
      /\ UNCHANGED <<results, published, active, clearing, evidence, now, reported>>
  BY DEF Finish, Goto, others, setup, RunnersInv
<1>4. /\ Progress(f, "finish") /\ Tally(f, results[k])
      /\ runs[k].version = f.version /\ runs[k].mode = f.mode
      /\ runs[k].verdict = "running" /\ f.judged = <<>>
      /\ f.base # NoRun => IsBase(f.base, f.version, runs)
      /\ f.base \in 0 .. Len(runs)
  BY <1>2 DEF RunnerOK, Working, Totalled, Inserted, Progress
<1>5. /\ Len(runs) \in Nat /\ runs[k] \in RunRows /\ results[k] \in ResultRows
      /\ runs \in Seq(RunRows) /\ results \in Seq(ResultRows) /\ Len(results) = Len(runs)
  BY <1>2, Lengths DEF RunTables
<1>6. /\ Score(f) \in Scores
      /\ f.scored # 0 => Score(f) \in 0 .. Full
      /\ Weights # <<>> =>
           /\ Score(f) = NoScore <=> results[k].grades = {}
           /\ Score(f) # NoScore => Between(Score(f), 1, results[k].grades)
  BY <1>2, <1>4, <1>5, ScoreType, ScoreOK
<1>7. NamedBase(f) \in Nat /\ f.errors \in Nat /\ f.degraded \in Nat /\ f.passed \in Nat
  BY <1>2, VerdictOf DEF FrameOK, NoRun
<1>8. Verdict(f) \in Verdicts
  BY VerdictOf
<1>9. /\ row \in RunRows
      /\ row.version = f.version /\ row.verdict = Verdict(f) /\ row.score = Score(f)
      /\ row.base = NamedBase(f) /\ row.errors = f.errors
  BY <1>4, <1>5, <1>6, <1>7, <1>8 DEF RunRows
<1> HIDE DEF row
<1>10. /\ runs' \in Seq(RunRows) /\ Len(runs') = Len(runs) /\ runs'[k] = row
       /\ \A r \in 1 .. Len(runs) : r # k => runs'[r] = runs[r]
  BY <1>2, <1>3, <1>5, <1>9
<1>11. RowsMove(k)
  BY <1>3, <1>4, <1>5, <1>10 DEF RowsMove
<1>12. RowOK(k, runs', results')
  <2>1. runs'[k].verdict # "running"
    BY <1>9, <1>10, VerdictOf
  <2>2. Weights # <<>> => Scored(runs'[k], results'[k])
    BY <1>3, <1>4, <1>6, <1>9, <1>10 DEF Scored, Tally
  <2>3. row.verdict = "regressed" => row.base # NoRun
    BY <1>9, VerdictOf DEF Regressed
  <2>4. ASSUME row.verdict = "pass"
        PROVE  row.score \in MinScore .. Full
    <3>1. f.scored # 0 /\ ~(Score(f) < MinScore)
      BY <1>9, <2>4, VerdictOf
    <3>2. Score(f) \in 0 .. Full /\ MinScore \in Nat /\ Full \in Nat
      BY <1>6, <3>1, Assumed
    <3> QED BY <1>9, <3>1, <3>2
  <2>5. Compared(row, runs')
    <3> SUFFICES ASSUME row.base # NoRun
                 PROVE  /\ IsBase(row.base, row.version, runs')
                        /\ row.verdict = "pass" =>
                             runs'[row.base].score - row.score <= Tolerance
                        /\ row.verdict = "regressed" =>
                             runs'[row.base].score - row.score > Tolerance
      BY DEF Compared
    <3>1. row.base = f.base /\ f.base # NoRun
      BY <1>9, VerdictOf
    <3>2. IsBase(f.base, f.version, runs)
      BY <1>4, <3>1
    <3>3. IsBase(f.base, f.version, runs') /\ runs'[f.base] = runs[f.base]
      BY <1>2, <1>5, <1>10, <1>11, <3>2, BaseStays
    <3>4. row.verdict = "regressed" => runs[f.base].score - Score(f) > Tolerance
      BY <1>9, VerdictOf DEF Regressed
    <3>5. ASSUME row.verdict = "pass"
          PROVE  runs[f.base].score - Score(f) <= Tolerance
      <4>1. f.scored # 0 /\ ~(runs[f.base].score - Score(f) > Tolerance)
        BY <1>9, <3>1, <3>5, VerdictOf DEF Regressed
      <4>2. runs[f.base].score \in Int
        <5>1. runs[f.base] \in RunRows /\ runs[f.base].score # NoScore
          BY <1>2, <3>2, Lengths DEF IsBase
        <5> QED BY <5>1, Assumed DEF RunRows, Scores
      <4>3. Score(f) \in Int /\ Tolerance \in Int
        BY <1>6, <4>1, Assumed
      <4> QED BY <4>1, <4>2, <4>3
    <3> QED BY <1>9, <3>1, <3>3, <3>4, <3>5
  <2> QED BY <1>10, <2>1, <2>2, <2>3, <2>4, <2>5 DEF RowOK
<1>13. RunTables(runs, results)'
  BY <1>2, <1>3, <1>5, <1>10, <1>11, <1>12, TablesMove
<1>14. RunnerOK(f, "report", runs', results')
  <2>1. Progress(f, "report")
    BY <1>4 DEF Progress, Early
  <2>2. "report" \notin Working
    BY DEF Working, Totalled
  <2> QED BY <1>2, <1>4, <1>10, <2>1, <2>2 DEF RunnerOK
<1>15. reported' \subseteq 1 .. Len(runs') /\ "report" \notin Working
  BY <1>2, <1>3, <1>10 DEF Working, Totalled
<1> HIDE DEF k, f
<1>16. k = frame[p].run
  BY DEF k, f
<1> QED BY <1>1, <1>3, <1>11, <1>13, <1>14, <1>15, <1>16, RunnerMoves

LEMMA ReportRows ==
  ASSUME RunnersInv, RowsInv, NEW p \in Runners, Report(p)
  PROVE  RowsInv'
<1>1. pc[p] \in Inserted
  BY DEF Report, Inserted
<1>2. frame[p].run \in 1 .. Len(runs) /\ reported \subseteq 1 .. Len(runs)
  BY <1>1, KnowsItsRow
<1>3. reported' \subseteq 1 .. Len(runs)
  BY <1>2 DEF Report
<1> QED BY <1>3, ReturnRows DEF Report, others, setup, history

LEMMA CrashRows ==
  ASSUME RunnersInv, RowsInv, NEW p \in Runners, Crash(p)
  PROVE  RowsInv'
<1>1. reported' \subseteq 1 .. Len(runs)
  BY DEF RowsInv, Others, Crash, tables
<1> QED BY <1>1, ReturnRows DEF Crash, others, tables, setup, history

-----------------------------------------------------------------------------
(* The gate, the operator, the clock and the models *)

LEMMA TablesStay ==
  ASSUME RunTables(runs, results), UNCHANGED <<runs, results>>
  PROVE  RunTables(runs, results)'
BY DEF RunTables, RowOK, Compared

LEMMA CitationOK ==
  ASSUME RunTables(runs, results), UNCHANGED runs, NEW e, Cites(e, runs)
  PROVE  Cites(e, runs')
OBVIOUS

\* A step of nobody who evaluates.
LEMMA NoRunnerMoves ==
  ASSUME RowsInv, UNCHANGED <<pc, frame, runs, results, reported>>,
         published' \subseteq Versions, active' \in published' \cup {NoVersion}, now' \in Nat,
         Citations(runs)'
  PROVE  RowsInv'
<1>1. RunTables(runs, results)'
  BY TablesStay DEF RowsInv
<1>2. \A q \in Runners : IF pc'[q] = "idle" THEN frame'[q] = NoFrame
                         ELSE RunnerOK(frame'[q], pc'[q], runs', results')
  BY DEF RowsInv
<1>3. OwnRows'
  BY DEF RowsInv, OwnRows
<1>4. Others(runs)'
  BY DEF RowsInv, Others
<1> QED BY <1>1, <1>2, <1>3, <1>4 DEF RowsInv

LEMMA PassGateRows ==
  ASSUME RowsInv, PassGate
  PROVE  RowsInv'
<1>1. PICK v \in Versions \ published : \E r \in Latest(v) :
        /\ runs[r].verdict = "pass"
        /\ clearing' = [version |-> v, run |-> r,
                        known |-> {q \in DOMAIN runs : runs[q].verdict # "running"}]
  BY DEF PassGate
<1>2. PICK r \in Latest(v) :
        /\ runs[r].verdict = "pass"
        /\ clearing' = [version |-> v, run |-> r,
                        known |-> {q \in DOMAIN runs : runs[q].verdict # "running"}]
  BY <1>1
<1>3. Len(runs) \in Nat /\ DOMAIN runs = 1 .. Len(runs)
  BY Lengths DEF RowsInv
<1>4. /\ UNCHANGED <<pc, frame, runs, results, reported, published, active, now, evidence>>
      /\ published \subseteq Versions /\ active \in published \cup {NoVersion} /\ now \in Nat
  BY DEF PassGate, RowsInv, Others, tables, setup, history
<1>5. /\ r \in 1 .. Len(runs) /\ runs[r].version = v /\ runs[r].mode = "evaluation"
      /\ \A q \in 1 .. Len(runs) :
           runs[q].version = v /\ runs[q].mode = "evaluation" /\ runs[q].verdict # "running"
             => runs[q].started <= runs[r].started
  BY <1>3 DEF Latest
<1>6. Cites(clearing', runs)
  BY <1>1, <1>2, <1>3, <1>5 DEF Cites
<1>7. Citations(runs)'
  BY <1>4, <1>6 DEF RowsInv, Citations
<1> QED BY <1>4, <1>7, NoRunnerMoves

LEMMA PublishRows ==
  ASSUME RowsInv, Publish
  PROVE  RowsInv'
<1>1. Cites(clearing, runs)
  BY DEF Publish, RowsInv, Citations
<1>2. clearing.version \in Versions
  BY <1>1 DEF Cites
<1>3. /\ UNCHANGED <<pc, frame, runs, results, reported, now>>
      /\ published' = published \cup {clearing.version} /\ active' = clearing.version
      /\ evidence' = evidence \cup {clearing} /\ clearing' = NoFrame
      /\ published \subseteq Versions /\ now \in Nat
  BY DEF Publish, RowsInv, Others
<1>4. Citations(runs)'
  BY <1>1, <1>3 DEF RowsInv, Citations
<1> QED BY <1>2, <1>3, <1>4, NoRunnerMoves

\* Rollbacks, cases and time.
LEMMA AsideRows ==
  ASSUME RowsInv,
         \/ GoBack \/ AddManualCase \/ Tick
         \/ \E j \in Jobs : CheckCase(j) \/ AddCase(j)
         \/ UNCHANGED vars
  PROVE  RowsInv'
<1>1. UNCHANGED <<pc, frame, runs, results, reported, published, clearing, evidence>>
  BY DEF GoBack, AddManualCase, Tick, CheckCase, AddCase, vars, others, tables, setup, history
<1>2. published \subseteq Versions /\ active \in published \cup {NoVersion} /\ now \in Nat
  BY DEF RowsInv, Others
<1>3. active' \in published \cup {active}
  BY DEF GoBack, AddManualCase, Tick, CheckCase, AddCase, vars, others, tables, setup, history
<1>4. now' \in Nat
  BY <1>2 DEF GoBack, AddManualCase, Tick, CheckCase, AddCase, vars, others, tables, setup, history
<1>5. Citations(runs)'
  BY <1>1 DEF RowsInv, Citations
<1> QED BY <1>1, <1>2, <1>3, <1>4, <1>5, NoRunnerMoves

\* What a runner hears of the models is not counted.
LEMMA RunnerHears ==
  ASSUME NEW f, NEW l, NEW rs, NEW res, RunnerOK(f, l, rs, res)
  PROVE  LET g == [f EXCEPT !.fed = @ \cup {"resynced"}]
         IN  RunnerOK(g, l, rs, res) /\ g.run = f.run
<1> DEFINE g == [f EXCEPT !.fed = @ \cup {"resynced"}]
<1>1. FrameOK(f) /\ Progress(f, l)
  BY DEF RunnerOK
<1>2. /\ FrameOK(g) /\ Same(g, f) /\ g.errors = f.errors /\ g.judged = f.judged
      /\ g.scored = f.scored /\ g.sum = f.sum /\ g.against = f.against
  BY <1>1 DEF FrameOK, IsFrame, FrameFields, Same, Flaws
<1> HIDE DEF g
<1>3. Progress(g, l)
  BY <1>1, <1>2 DEF Progress, Same
<1>4. ASSUME l \in Working
      PROVE  Tally(g, res[f.run])
  BY <1>2, <1>4 DEF RunnerOK, Tally
<1>5. RunnerOK(g, l, rs, res) /\ g.run = f.run
  BY <1>2, <1>3, <1>4 DEF RunnerOK, Same
<1> QED BY <1>5 DEF g

LEMMA SyncModelRows ==
  ASSUME RowsInv, NEW m \in Models, SyncModel(m)
  PROVE  RowsInv'
<1>1. /\ UNCHANGED <<pc, runs, results, reported, published, active, clearing, now, evidence>>
      /\ frame' = [q \in Runners |-> IF pc[q] \in {"idle", "guard"} THEN frame[q]
                                     ELSE [frame[q] EXCEPT !.fed = @ \cup {"resynced"}]]
  BY DEF SyncModel, others, history
<1>2. ASSUME NEW q \in Runners
      PROVE  /\ IF pc[q] = "idle" THEN frame'[q] = NoFrame
                ELSE RunnerOK(frame'[q], pc[q], runs, results)
             /\ pc[q] \in Working => frame'[q].run = frame[q].run
  <2>1. CASE pc[q] \in {"idle", "guard"}
    BY <1>1, <2>1 DEF RowsInv
  <2>2. CASE pc[q] \notin {"idle", "guard"}
    <3>1. RunnerOK(frame[q], pc[q], runs, results)
      BY <2>2 DEF RowsInv
    <3>2. frame'[q] = [frame[q] EXCEPT !.fed = @ \cup {"resynced"}]
      BY <1>1, <2>2
    <3> QED BY <2>2, <3>1, <3>2, RunnerHears
  <2> QED BY <2>1, <2>2
<1>3. RunTables(runs, results)'
  BY <1>1, TablesStay DEF RowsInv
<1>4. OwnRows'
  BY <1>1, <1>2 DEF RowsInv, OwnRows
<1>5. Others(runs)'
  BY <1>1 DEF RowsInv, Others
<1>6. Citations(runs)'
  BY <1>1 DEF RowsInv, Citations
<1> QED BY <1>1, <1>2, <1>3, <1>4, <1>5, <1>6 DEF RowsInv

LEMMA StepRows ==
  ASSUME RunnersInv, TablesInv, RowsInv, Len(cases) \in Nat, NEW p \in Runners, Step(p)
  PROVE  RowsInv'
BY StartRows, FreshStepRows, InsertRunRows, GenerateRows, GenerateFailsRows, AskJudgeRows,
   JudgeFailsRows, ReadTotalsRows, ReadDeploymentRows, ReadBaselineRows, FinishRows,
   ReportRows, CrashRows DEF Step

LEMMA NextRows ==
  ASSUME RunnersInv, TablesInv, RowsInv, Len(cases) \in Nat, [Next]_vars
  PROVE  RowsInv'
<1>1. CASE \E p \in Runners : Step(p)
  BY <1>1, StepRows
<1>2. CASE \E m \in Models : SyncModel(m)
  BY <1>2, SyncModelRows
<1>3. CASE PassGate
  BY <1>3, PassGateRows
<1>4. CASE Publish
  BY <1>4, PublishRows
<1>5. CASE \/ GoBack \/ AddManualCase \/ Tick
           \/ \E j \in Jobs : CheckCase(j) \/ AddCase(j)
           \/ UNCHANGED vars
  BY <1>5, AsideRows
<1> QED BY <1>1, <1>2, <1>3, <1>4, <1>5 DEF Next

-----------------------------------------------------------------------------
(* What the rows say *)

\* Every row, every runner and everything the gate has seen fits together, and
\* no two runners write to one row: the invariant the next three theorems rest
\* on (runner.py, judge.py, regression.py, gate.py).
THEOREM EvaluationRows == Spec => [](CleanInv /\ RowsInv)
<1>1. Init => CleanInv /\ CasesInv /\ RowsInv
  BY InitClean, InitCases, InitRows
<1>2. CleanInv /\ CasesInv /\ RowsInv /\ [Next]_vars => (CleanInv /\ CasesInv /\ RowsInv)'
  <2> SUFFICES ASSUME CleanInv, CasesInv, RowsInv, [Next]_vars
               PROVE  (CleanInv /\ CasesInv /\ RowsInv)'
    OBVIOUS
  <2>1. CleanInv' /\ CasesInv'
    BY NextClean, NextCases
  <2>2. Len(cases) \in Nat
    BY DEF CasesInv
  <2>3. RowsInv'
    BY <2>2, NextRows DEF CleanInv
  <2> QED BY <2>1, <2>3
<1> QED BY <1>1, <1>2, PTL DEF Spec

LEMMA RowsType ==
  ASSUME CleanInv, RowsInv
  PROVE  TypeOK
<1>1. RunTables(runs, results)
  BY DEF RowsInv
<1>2. /\ Len(runs) \in Nat /\ DOMAIN runs = 1 .. Len(runs)
      /\ DOMAIN results = 1 .. Len(runs)
      /\ \A r \in 1 .. Len(runs) : runs[r] \in RunRows
  BY <1>1, Lengths
<1>3. /\ DOMAIN degraded = 1 .. Len(runs)
      /\ \A r \in 1 .. Len(runs) : fed[r] \subseteq Flaws
  BY <1>2 DEF CleanInv, TablesInv
<1>4. ASSUME NEW p \in Runners, pc[p] # "idle"
      PROVE  /\ frame[p].version \in Versions /\ frame[p].mode \in Modes
             /\ frame[p].run \in 0 .. Len(runs) /\ frame[p].base \in 0 .. Len(runs)
             /\ Score(frame[p]) \in Scores /\ frame[p].fed \subseteq Flaws
  <2>1. RunnerOK(frame[p], pc[p], runs, results) /\ FrameOK(frame[p])
    BY <1>4 DEF RowsInv, RunnerOK
  <2>2. pc[p] \in Early \/ pc[p] \in Inserted
    BY <1>4 DEF CleanInv, RunnersInv, Labels
  <2>3. frame[p].run \in 0 .. Len(runs) /\ frame[p].base \in 0 .. Len(runs)
    <3>1. CASE pc[p] \in Early
      BY <1>2, <2>1, <3>1 DEF RunnerOK, Progress, Early, NoRun
    <3>2. CASE pc[p] \in Inserted
      BY <1>2, <2>1, <3>2 DEF RunnerOK
    <3> QED BY <2>2, <3>1, <3>2
  <2>4. Score(frame[p]) \in Scores
    BY <2>1, ScoreType
  <2> QED BY <2>1, <2>3, <2>4 DEF FrameOK, IsFrame
<1>5. ASSUME NEW r \in 1 .. Len(runs)
      PROVE  runs[r].base \in 0 .. Len(runs)
  BY <1>1, <1>2 DEF RunTables, RowOK, Compared, IsBase, NoRun, RunRows
<1>6. \A p \in Runners : pc[p] = "idle" => frame[p] = NoFrame
  BY DEF RowsInv
<1>7. /\ published \subseteq Versions /\ active \in published \cup {NoVersion}
      /\ reported \subseteq 1 .. Len(runs)
  BY DEF RowsInv, Others
<1> QED BY <1>2, <1>3, <1>4, <1>5, <1>6, <1>7 DEF TypeOK

\* Rows, frames and processes keep their shape; in particular an average of
\* grades, whatever the weights, is a score between 0.0 and 1.0 (judge.py,
\* weighted_average; runner.py, _finish).
THEOREM EvaluationTypeOK == Spec => []TypeOK
BY EvaluationRows, RowsType, PTL

\* What was published through the gate rests for ever on a finished evaluation
\* of that version that passed, and that no later one contradicted when the
\* gate looked (gate.py, PublishGate; runner.py).
THEOREM EvaluationEvidenceSound == Spec => []EvidenceSound
<1>1. CleanInv /\ RowsInv => EvidenceSound
  <2> SUFFICES ASSUME RowsInv, NEW e \in evidence
               PROVE  /\ runs[e.run].version = e.version
                      /\ runs[e.run].mode = "evaluation"
                      /\ runs[e.run].verdict = "pass"
                      /\ runs[e.run].score \in MinScore .. Full
                      /\ \A q \in e.known :
                           runs[q].version = e.version /\ runs[q].mode = "evaluation"
                             => runs[q].started <= runs[e.run].started
    BY DEF EvidenceSound
  <2>1. Cites(e, runs)
    BY DEF RowsInv, Citations
  <2>2. RowOK(e.run, runs, results)
    BY <2>1 DEF RowsInv, RunTables, Cites
  <2> QED BY <2>1, <2>2 DEF Cites, RowOK
<1> QED BY <1>1, EvaluationRows, PTL

LEMMA RowsScore ==
  ASSUME RowsInv
  PROVE  ScoreFromResults
<1> SUFFICES ASSUME NEW r \in DOMAIN runs, runs[r].verdict # "running", Weights # <<>>
             PROVE  LET grades == results[r].grades
                    IN  /\ runs[r].errors = results[r].errors
                        /\ runs[r].score = NoScore <=> grades = {}
                        /\ grades # {} => runs[r].score \in Min(grades) .. Max(grades)
  BY DEF ScoreFromResults
<1> DEFINE grades == results[r].grades
           score == runs[r].score
<1>1. RunTables(runs, results) /\ r \in 1 .. Len(runs)
  BY Lengths DEF RowsInv
<1>2. Scored(runs[r], results[r])
  BY <1>1 DEF RunTables, RowOK
<1>3. grades \in SUBSET (0 .. Full) /\ score \in Scores
  BY <1>1, Lengths DEF ResultRows, RunRows
<1>4. ASSUME grades # {}
      PROVE  score \in Min(grades) .. Max(grades)
  <2>1. score # NoScore /\ Between(score, 1, grades)
    BY <1>2, <1>4 DEF Scored
  <2>2. PICK lo \in grades, hi \in grades : lo * 1 <= score /\ score <= hi * 1
    BY <2>1 DEF Between
  <2>3. IsFiniteSet(grades)
    <3>1. IsFiniteSet(0 .. Full)
      BY FS_Interval, Assumed
    <3> HIDE DEF grades
    <3> QED BY <1>3, <3>1, FS_Subset
  <2>4. grades \in SUBSET Nat /\ score \in Nat
    BY <1>3, <2>1, Assumed DEF Scores
  <2> HIDE DEF grades, score
  <2>5. /\ Min(grades) \in grades /\ Min(grades) <= lo
        /\ Max(grades) \in grades /\ hi <= Max(grades)
    BY <1>4, <2>2, <2>3, <2>4, MinOfNats, MaxOfNats
  <2>6. lo \in Nat /\ hi \in Nat /\ Min(grades) \in Nat /\ Max(grades) \in Nat
    BY <2>2, <2>4, <2>5
  <2> QED BY <2>2, <2>4, <2>5, <2>6
<1> QED BY <1>2, <1>4 DEF Scored

LEMMA RowsBaseline ==
  ASSUME RowsInv
  PROVE  BaselineSound
<1>1. ASSUME NEW r \in DOMAIN runs
      PROVE  RowOK(r, runs, results)
  BY <1>1, Lengths DEF RowsInv, RunTables
<1> QED BY <1>1 DEF BaselineSound, RowOK, Compared, IsBase

\* A finished row tells what happened: its score lies between the judge's
\* grades, its errors are those on record, and the verdict fits the baseline's
\* row, whatever happened in between (runner.py, regression.py).
THEOREM EvaluationVerdictSound == Spec => []VerdictSound
<1>1. CleanInv /\ RowsInv => VerdictSound
  BY RowsScore, RowsBaseline DEF VerdictSound
<1> QED BY <1>1, EvaluationRows, PTL
=============================================================================
