-------------------------- MODULE SdkTracesProofs --------------------------
(***************************************************************************)
(* Theorems about SdkTraces for any number of processes and articles, any  *)
(* limits and retries, and any number of calls, restarts, faults and       *)
(* deaths: what a process remembers of a trace is true of its row, the     *)
(* client opens one trace for an article, the calls it makes stay within   *)
(* the limit, and what is still running is held by somebody.               *)
(***************************************************************************)
EXTENDS SdkTraces, SumTheorems, SequenceTheorems

-----------------------------------------------------------------------------
(* The inductive invariants *)

Closings == {"success", "partial", "failed"}
SpanCounts == [total : Nat, ok : Nat, own : Nat]
Blocks == [trace : Nat, status : Closings]

\* The shape of every variable.
ShapesOK ==
  /\ pc \in [Processes -> PCs]
  /\ job \in [Processes -> Jobs \cup {NoJob}]
  /\ traceOf \in [Processes -> [Keys -> Nat]]
  /\ opened \in [Processes -> SUBSET Nat]
  /\ stack \in [Processes -> Seq(Blocks)]
  /\ traces \in Seq(TraceRows)
  /\ spans \in Seq(SpanCounts)
  /\ Len(spans) = Len(traces)
  /\ now \in Nat
  /\ made \in [Articles -> Nat] /\ lost \in [Articles -> Nat]
  /\ bounds \in Bounds

\* Inside a call.
Calling == {"lookup", "open", "adhoc", "budget", "audit", "guard", "record", "answer"}

\* A process has a job exactly while it is inside the client; the job of a call
\* for an article names a trace of that article, and has attempts left.
JobOK(p) ==
  /\ pc[p] \in {"down", "idle", "exit"} <=> job[p] = NoJob
  /\ pc[p] \in {"budget", "guard", "record", "answer", "derive", "close"} =>
       job[p].trace # NoTrace
  /\ job[p] # NoJob /\ job[p].trace # NoTrace =>
       /\ job[p].trace \in DOMAIN traces
       /\ job[p].article # NoArticle => traces[job[p].trace].article = job[p].article
  /\ pc[p] \in Calling =>
       /\ job[p].needed \in Reserve /\ job[p].left <= job[p].needed
       /\ job[p].left > 0 \/ pc[p] = "answer"
  /\ pc[p] = "lookup" => job[p].article # NoArticle
  /\ pc[p] = "adhoc" => job[p].trace = NoTrace
  /\ pc[p] \in {"audit", "adhoc"} /\ job[p].trace = NoTrace => job[p].article = NoArticle

JobsOK == \A p \in Processes : JobOK(p)

\* A remembered trace is one of that article.
NameOK(p) ==
  \A a \in Keys : traceOf[p][a] # NoTrace =>
    traceOf[p][a] \in DOMAIN traces /\ traces[traceOf[p][a]].article = a

NamesOK == \A p \in Processes : NameOK(p)

\* What a client opened is open, nobody else's, and closed by itself only.
OpensOK(p) ==
  \A t \in opened[p] : /\ t \in DOMAIN traces
                        /\ traces[t].by = "client" /\ traces[t].status = "running"
                        /\ \A q \in Processes \ {p} : t \notin opened[q]

ClosingOK(p) ==
  /\ pc[p] \in {"derive", "close"} => job[p].trace \in opened[p]
  /\ pc[p] = "close" => job[p].status # "running"

OpenedOK == \A p \in Processes : OpensOK(p) /\ ClosingOK(p)

\* The traces of `with` blocks are not the client's.
BlocksOK(p) ==
  \A i \in DOMAIN stack[p] :
    LET t == stack[p][i].trace
    IN  t \in DOMAIN traces /\ traces[t].by = "with"

StackOK == \A p \in Processes : BlocksOK(p)

\* Attempts whose answer may still count as a success.
Answering(l, j, t) ==
  {p \in Processes : l[p] = "answer" /\ j[p].stored /\ j[p].trace = t}

CountsOK ==
  \A t \in DOMAIN spans : spans[t].ok + Cardinality(Answering(pc, job, t)) <= spans[t].total

BasicInv == ShapesOK /\ JobsOK /\ NamesOK /\ OpenedOK /\ StackOK /\ CountsOK

\* The rows of an article and those a client opened, processes that found none and
\* will open one, and processes in the middle of a call for the article.
RowsOf(tr, a) == {t \in DOMAIN tr : tr[t].article = a /\ tr[t].kept}
ClientRows(tr, a) == {t \in RowsOf(tr, a) : tr[t].by = "client"}
Openers(l, j, a) == {p \in Processes : l[p] = "open" /\ j[p].article = a}
Callers(l, j, a) == {p \in Processes : l[p] \in Calling /\ j[p].article = a}

SoleCaller ==
  \A a \in Articles \ overlapped : \A p, q \in Callers(pc, job, a) : p = q

\* Who found none opens one, at most once.
FewTraces ==
  \A a \in Articles :
    Cardinality(ClientRows(traces, a)) + Cardinality(Openers(pc, job, a))
      <= Cardinality(Processes)

\* While nothing overlaps, none appears in the meantime.
ClientFirst ==
  \A a \in Articles \ overlapped :
    /\ Openers(pc, job, a) # {} => RowsOf(traces, a) = {}
    /\ \A t \in ClientRows(traces, a), u \in RowsOf(traces, a) : t <= u

\* Who calls under a trace it will not close has excused it, and what is about
\* to be written is what the rows say.
CallsExcused ==
  \A p \in Processes :
    pc[p] = "answer" /\ job[p].trace \notin excused => job[p].trace \in opened[p]

StatusFrom(s) == IF s.total = s.ok THEN "success" ELSE "partial"

StatusReady ==
  \A p \in Processes :
    pc[p] = "close" /\ job[p].trace \notin excused =>
      job[p].status = StatusFrom(spans[job[p].trace])

StatusInv == CallsExcused /\ StatusReady /\ StatusTrue

\* The rows of the calls made for an article, over all its traces.
Owns(s) == [t \in DOMAIN s |-> s[t].own]

RowsAreCalls ==
  /\ \A t \in DOMAIN spans : spans[t].own <= spans[t].total
  /\ \A a \in Articles :
       /\ made[a] >= lost[a]
       /\ made[a] - lost[a] = SumFunctionOnSet(Owns(spans), RowsOf(traces, a))

\* What a call at l, with the job j, has left fits under the ceiling of a trace
\* with so many rows.
Room(l, j, rows) ==
  /\ l \in {"lookup", "open", "budget", "audit"} => ~j.standin /\ j.left = j.needed
  /\ j.standin => Fallback
  /\ l \in {"audit", "guard"} /\ ~j.standin =>
       rows + j.needed <= CallLimit /\ j.left = j.needed
  /\ l = "guard" /\ j.standin => rows <= CallLimit /\ j.left = j.needed
  /\ l \in {"record", "answer"} /\ ~j.standin => rows + j.left <= CallLimit
  /\ l \in {"record", "answer"} /\ j.standin =>
       /\ rows + j.left <= CallLimit + j.needed
       /\ GatewayLimit > 0 => rows + j.left <= GatewayLimit

LeftFits ==
  \A a \in Articles \ overlapped :
    /\ \A t \in RowsOf(traces, a) : spans[t].own <= Ceiling
    /\ \A p \in Callers(pc, job, a) : Room(pc[p], job[p], spans[job[p].trace].own)

-----------------------------------------------------------------------------
(* What a step changes *)

\* The actions that leave the tables alone but for the counts of spans.
Quiet(p) ==
  \/ Launch(p) \/ Call(p) \/ LookUp(p) \/ EnsureBudget(p) \/ AuditRaw(p)
  \/ GuardCalls(p) \/ AnswerFails(p) \/ Finish(p) \/ Exit(p) \/ Derive(p)
  \/ OpsCall(p) \/ Mark(p) \/ Crash(p)

Opens(p)  == Open(p) \/ OpenAdhoc(p) \/ Enter(p)
Counts(p) == Record(p) \/ AnswerOk(p)
Closes(p) == Close(p) \/ Leave(p)

Counters == {"launches", "calls", "withs", "opsCalls", "finishes", "seconds", "faults",
             "crashes"}

LEMMA OnceType ==
  ASSUME bounds \in Bounds, NEW b \in Counters, Once(b)
  PROVE  bounds' \in Bounds
BY DEF Bounds, Once, Counters

\* The bounds stay what they are.
LEMMA BoundsStep ==
  ASSUME bounds \in Bounds, [Next]_vars
  PROVE  bounds' \in Bounds
<1>1. \A b \in Counters : Once(b) => bounds' \in Bounds
  BY OnceType
<1>2. ASSUME Tick PROVE bounds' \in Bounds
  BY <1>1, <1>2 DEF Tick, Counters
<1>3. ASSUME NEW p \in Processes, Step(p) PROVE bounds' \in Bounds
  <2>1. CASE Quiet(p)
    BY <1>1, <2>1 DEF Quiet, Launch, Call, LookUp, EnsureBudget, AuditRaw, GuardCalls,
       AnswerFails, Finish, Exit, Derive, OpsCall, Mark, Crash, Counters
  <2>2. CASE Open(p) \/ OpenAdhoc(p)
    BY <1>1, <2>2 DEF Open, OpenAdhoc, StartTrace, Counters
  <2>3. CASE Enter(p)
    <3>1. PICK kept \in BOOLEAN :
            /\ bounds.withs > 0 /\ (kept \/ bounds.faults > 0)
            /\ bounds' = [bounds EXCEPT !.withs = @ - 1, !.faults = IF kept THEN @ ELSE @ - 1]
      BY <2>3 DEF Enter
    <3>2. bounds.withs - 1 \in Nat /\ (IF kept THEN bounds.faults ELSE bounds.faults - 1) \in Nat
      BY <3>1 DEF Bounds
    <3>3. QED
      BY <3>1, <3>2 DEF Bounds
  <2>4. CASE Counts(p)
    BY <1>1, <2>4 DEF Counts, Record, AnswerOk, Counters
  <2>5. CASE Closes(p)
    BY <1>1, <2>5 DEF Closes, Close, Leave, EndTrace, Counters
  <2>6. QED
    BY <1>3, <2>1, <2>2, <2>3, <2>4, <2>5 DEF Step, Quiet, Opens, Counts, Closes
<1>4. QED
  BY <1>2, <1>3 DEF Next, vars

\* A process changes nothing of what another one knows.
LEMMA Others ==
  ASSUME ShapesOK, NEW p \in Processes, Step(p), NEW q \in Processes, q # p
  PROVE  /\ pc'[q] = pc[q] /\ job'[q] = job[q] /\ traceOf'[q] = traceOf[q]
         /\ opened'[q] = opened[q] /\ stack'[q] = stack[q]
<1>1. /\ DOMAIN pc = Processes /\ DOMAIN job = Processes /\ DOMAIN traceOf = Processes
      /\ DOMAIN opened = Processes /\ DOMAIN stack = Processes
  BY DEF ShapesOK
<1>2. CASE Quiet(p)
  BY <1>1, <1>2 DEF Quiet, Launch, Call, LookUp, EnsureBudget, AuditRaw, GuardCalls,
     AnswerFails, Finish, Exit, Derive, OpsCall, Mark, Crash, Goto, Done, Stop, local
<1>3. CASE Opens(p)
  BY <1>1, <1>3 DEF Opens, Open, OpenAdhoc, Enter, Goto
<1>4. CASE Counts(p)
  BY <1>1, <1>4 DEF Counts, Record, AnswerOk, Goto, Done
<1>5. CASE Closes(p)
  BY <1>1, <1>5 DEF Closes, Close, Leave, Goto, Done
<1>6. QED
  BY <1>2, <1>3, <1>4, <1>5 DEF Step, Quiet, Opens, Counts, Closes

\* Closing changes the status of one row.
LEMMA EndTraceRows ==
  ASSUME ShapesOK, NEW t \in DOMAIN traces, NEW s \in Statuses, EndTrace(t, s)
  PROVE  /\ traces' \in Seq(TraceRows) /\ Len(traces') = Len(traces)
         /\ DOMAIN traces' = DOMAIN traces
         /\ \A u \in DOMAIN traces :
              /\ traces'[u].article = traces[u].article /\ traces'[u].by = traces[u].by
              /\ traces'[u].started = traces[u].started /\ traces'[u].kept = traces[u].kept
              /\ traces'[u].status = traces[u].status \/ (u = t /\ traces'[u].status = s)
<1>1. traces \in Seq(TraceRows) /\ traces[t] \in TraceRows
  BY ElementOfSeq DEF ShapesOK
<1>2. CASE UNCHANGED traces
  BY <1>1, <1>2
<1>3. CASE traces' = [traces EXCEPT ![t].status = s]
  <2>1. [traces[t] EXCEPT !.status = s] \in TraceRows
    BY <1>1 DEF TraceRows
  <2>2. traces' = [traces EXCEPT ![t] = [traces[t] EXCEPT !.status = s]]
    BY <1>3
  <2>3. /\ traces' \in Seq(TraceRows) /\ Len(traces') = Len(traces)
        /\ \A u \in 1..Len(traces) :
             traces'[u] = IF u = t THEN [traces[t] EXCEPT !.status = s] ELSE traces[u]
    BY <1>1, <2>1, <2>2, ExceptSeq, LenProperties
  <2>4. DOMAIN traces = 1..Len(traces) /\ DOMAIN traces' = DOMAIN traces
    BY <1>1, <2>3, LenProperties
  <2>5. ASSUME NEW u \in DOMAIN traces
        PROVE  /\ traces'[u].article = traces[u].article /\ traces'[u].by = traces[u].by
               /\ traces'[u].started = traces[u].started /\ traces'[u].kept = traces[u].kept
               /\ traces'[u].status = traces[u].status \/ (u = t /\ traces'[u].status = s)
    BY <1>1, <2>3, <2>4 DEF TraceRows
  <2>6. QED
    BY <2>3, <2>4, <2>5
<1>4. QED
  BY <1>2, <1>3 DEF EndTrace

\* A new trace is the last row; the others stay.
LEMMA AppendRows ==
  ASSUME ShapesOK, NEW a \in Keys, NEW by \in Kinds, NEW kept \in BOOLEAN,
         traces' = Append(traces, NewTrace(a, by, kept)),
         spans' = Append(spans, NoSpans)
  PROVE  /\ traces' \in Seq(TraceRows) /\ Len(traces') = Len(traces) + 1
         /\ spans' \in Seq(SpanCounts) /\ Len(spans') = Len(traces')
         /\ DOMAIN traces = 1..Len(traces) /\ DOMAIN traces' = 1..(Len(traces) + 1)
         /\ DOMAIN spans = DOMAIN traces /\ DOMAIN spans' = DOMAIN traces'
         /\ \A t \in DOMAIN traces : traces'[t] = traces[t] /\ spans'[t] = spans[t]
         /\ traces'[Len(traces) + 1] = NewTrace(a, by, kept)
         /\ spans'[Len(traces) + 1] = NoSpans
<1>1. NewTrace(a, by, kept) \in TraceRows
  BY DEF ShapesOK, NewTrace, TraceRows, Statuses
<1>2. NoSpans \in SpanCounts
  BY DEF SpanCounts, NoSpans
<1>3. traces \in Seq(TraceRows) /\ spans \in Seq(SpanCounts) /\ Len(spans) = Len(traces)
  BY DEF ShapesOK
<1>4. /\ traces' \in Seq(TraceRows) /\ Len(traces') = Len(traces) + 1
      /\ \A t \in 1..Len(traces) : traces'[t] = traces[t]
      /\ traces'[Len(traces) + 1] = NewTrace(a, by, kept)
  BY <1>1, <1>3, AppendProperties
<1>5. /\ spans' \in Seq(SpanCounts) /\ Len(spans') = Len(spans) + 1
      /\ \A t \in 1..Len(spans) : spans'[t] = spans[t]
      /\ spans'[Len(spans) + 1] = NoSpans
  BY <1>2, <1>3, AppendProperties
<1>6. /\ DOMAIN traces = 1..Len(traces) /\ DOMAIN spans = 1..Len(spans)
      /\ DOMAIN traces' = 1..Len(traces') /\ DOMAIN spans' = 1..Len(spans')
  BY <1>3, <1>4, <1>5, LenProperties
<1>7. QED
  BY <1>3, <1>4, <1>5, <1>6

\* A span counted, or counted as a success.
LEMMA CountRows ==
  ASSUME ShapesOK, NEW t \in DOMAIN traces, NEW c \in SpanCounts,
         spans' = [spans EXCEPT ![t] = c]
  PROVE  /\ spans' \in Seq(SpanCounts) /\ Len(spans') = Len(spans)
         /\ DOMAIN spans' = DOMAIN spans
         /\ \A u \in DOMAIN spans : spans'[u] = IF u = t THEN c ELSE spans[u]
<1>1. spans \in Seq(SpanCounts) /\ traces \in Seq(TraceRows) /\ Len(spans) = Len(traces)
  BY DEF ShapesOK
<1>2. DOMAIN spans = 1..Len(spans) /\ t \in 1..Len(spans)
  BY <1>1, LenProperties
<1>3. /\ spans' \in Seq(SpanCounts) /\ Len(spans') = Len(spans)
      /\ \A u \in 1..Len(spans) : spans'[u] = IF u = t THEN c ELSE spans[u]
  BY <1>1, <1>2, ExceptSeq
<1>4. DOMAIN spans' = 1..Len(spans')
  BY <1>3, LenProperties
<1>5. QED
  BY <1>2, <1>3, <1>4

\* One row for each trace in both tables.
LEMMA Rows ==
  ASSUME ShapesOK
  PROVE  /\ Len(traces) \in Nat
         /\ DOMAIN traces = 1..Len(traces) /\ DOMAIN spans = DOMAIN traces
         /\ \A t \in DOMAIN traces : traces[t] \in TraceRows /\ spans[t] \in SpanCounts
<1>1. traces \in Seq(TraceRows) /\ spans \in Seq(SpanCounts) /\ Len(spans) = Len(traces)
  BY DEF ShapesOK
<1>2. DOMAIN traces = 1..Len(traces) /\ DOMAIN spans = 1..Len(spans) /\ Len(traces) \in Nat
  BY <1>1, LenProperties
<1>3. \A t \in DOMAIN traces : traces[t] \in TraceRows
  BY <1>1, ElementOfSeq, <1>2
<1>4. \A t \in DOMAIN spans : spans[t] \in SpanCounts
  BY <1>1, ElementOfSeq, <1>2
<1>5. QED
  BY <1>1, <1>2, <1>3, <1>4

\* A job under way, and the trace it names.
LEMMA JobAt ==
  ASSUME BasicInv, NEW p \in Processes, pc[p] \notin {"down", "idle", "exit"}
  PROVE  /\ job[p] \in Jobs
         /\ job[p].trace # NoTrace =>
              /\ job[p].trace \in DOMAIN traces
              /\ job[p].article # NoArticle => traces[job[p].trace].article = job[p].article
BY DEF BasicInv, ShapesOK, JobsOK, JobOK

\* The block a process is in.
LEMMA TopOfStack ==
  ASSUME BasicInv, NEW p \in Processes, stack[p] # <<>>
  PROVE  /\ Len(stack[p]) \in DOMAIN stack[p]
         /\ stack[p] \in Seq(Blocks)
         /\ Last(stack[p]) = stack[p][Len(stack[p])]
         /\ Last(stack[p]) \in Blocks
         /\ Last(stack[p]).trace \in DOMAIN traces
         /\ traces[Last(stack[p]).trace].by = "with"
<1>1. stack[p] \in Seq(Blocks)
  BY DEF BasicInv, ShapesOK
<1>2. Len(stack[p]) \in DOMAIN stack[p]
  BY <1>1, EmptySeq, LenProperties
<1>3. Last(stack[p]) = stack[p][Len(stack[p])]
  BY DEF Last
<1>4. Last(stack[p]) \in Blocks
  <2>1. Len(stack[p]) \in 1..Len(stack[p])
    BY <1>1, <1>2, LenProperties
  <2>2. stack[p][Len(stack[p])] \in Blocks
    BY <1>1, <2>1, ElementOfSeq
  <2>3. QED
    BY <1>3, <2>2
<1>5. QED
  BY <1>1, <1>2, <1>3, <1>4 DEF BasicInv, StackOK, BlocksOK

\* Whoever opens a trace appends a running row without spans.
LEMMA OpenedRow ==
  ASSUME BasicInv, NEW p \in Processes, Opens(p)
  PROVE  \E a \in Keys, by \in Kinds, kept \in BOOLEAN :
           /\ Open(p) => a = job[p].article
           /\ OpenAdhoc(p) => a = NoArticle
           /\ by = IF Open(p) THEN "client" ELSE IF Enter(p) THEN "with" ELSE "adhoc"
           /\ Open(p) => ~Enter(p)
           /\ Len(traces) + 1 \notin DOMAIN traces
           /\ DOMAIN traces' = DOMAIN traces \cup {Len(traces) + 1}
           /\ DOMAIN spans = DOMAIN traces /\ DOMAIN spans' = DOMAIN traces'
           /\ \A t \in DOMAIN traces : traces'[t] = traces[t] /\ spans'[t] = spans[t]
           /\ traces'[Len(traces) + 1] = NewTrace(a, by, kept)
           /\ spans'[Len(traces) + 1] = NoSpans
           /\ traces' \in Seq(TraceRows) /\ spans' \in Seq(SpanCounts)
           /\ Len(spans') = Len(traces')
<1>1. ShapesOK
  BY DEF BasicInv
<1>2. \E a \in Keys, by \in Kinds, kept \in BOOLEAN :
        /\ Open(p) => a = job[p].article
        /\ OpenAdhoc(p) => a = NoArticle
        /\ by = IF Open(p) THEN "client" ELSE IF Enter(p) THEN "with" ELSE "adhoc"
        /\ Open(p) => ~Enter(p)
        /\ traces' = Append(traces, NewTrace(a, by, kept))
        /\ spans' = Append(spans, NoSpans)
  <2>1. CASE Open(p)
    <3>1. job[p].article \in Keys
      BY <2>1, JobAt DEF Open, Jobs
    <3>2. ~Enter(p) /\ ~OpenAdhoc(p)
      BY <2>1 DEF Open, Enter, OpenAdhoc
    <3>3. QED
      BY <2>1, <3>1, <3>2 DEF Open, StartTrace, Kinds
  <2>2. CASE OpenAdhoc(p)
    <3>1. ~Open(p) /\ ~Enter(p)
      BY <2>2 DEF Open, Enter, OpenAdhoc
    <3>2. QED
      BY <2>2, <3>1 DEF OpenAdhoc, StartTrace, Kinds, Keys
  <2>3. CASE Enter(p)
    <3>1. ~Open(p) /\ ~OpenAdhoc(p)
      BY <2>3 DEF Open, Enter, OpenAdhoc
    <3>2. bounds.keys \cup {NoArticle} \subseteq Keys
      BY DEF BasicInv, ShapesOK, Bounds, Keys
    <3>3. QED
      BY <2>3, <3>1, <3>2 DEF Enter, Kinds
  <2>4. QED
    BY <2>1, <2>2, <2>3 DEF Opens
<1>3. PICK a \in Keys, by \in Kinds, kept \in BOOLEAN :
        /\ Open(p) => a = job[p].article
        /\ OpenAdhoc(p) => a = NoArticle
        /\ by = IF Open(p) THEN "client" ELSE IF Enter(p) THEN "with" ELSE "adhoc"
        /\ Open(p) => ~Enter(p)
        /\ traces' = Append(traces, NewTrace(a, by, kept))
        /\ spans' = Append(spans, NoSpans)
  BY <1>2
<1>4. /\ traces' \in Seq(TraceRows) /\ spans' \in Seq(SpanCounts) /\ Len(spans') = Len(traces')
      /\ DOMAIN traces = 1..Len(traces) /\ DOMAIN traces' = 1..(Len(traces) + 1)
      /\ DOMAIN spans = DOMAIN traces /\ DOMAIN spans' = DOMAIN traces'
      /\ \A t \in DOMAIN traces : traces'[t] = traces[t] /\ spans'[t] = spans[t]
      /\ traces'[Len(traces) + 1] = NewTrace(a, by, kept)
      /\ spans'[Len(traces) + 1] = NoSpans
  BY <1>1, <1>3, AppendRows
<1>5. /\ Len(traces) + 1 \notin DOMAIN traces
      /\ DOMAIN traces' = DOMAIN traces \cup {Len(traces) + 1}
  BY <1>1, <1>4, Rows
<1>6. QED
  BY <1>3, <1>4, <1>5

\* Whoever closes a trace changes the status of its row at most.
LEMMA ClosesRow ==
  ASSUME BasicInv, NEW p \in Processes, Closes(p)
  PROVE  UNCHANGED spans /\ \E t \in DOMAIN traces, s \in Statuses : EndTrace(t, s)
<1>1. CASE Close(p)
  <2>1. job[p] \in Jobs /\ job[p].trace \in DOMAIN traces
    BY <1>1, JobAt DEF Close, BasicInv, JobsOK, JobOK
  <2>2. QED
    BY <1>1, <2>1 DEF Close, Jobs
<1>2. CASE Leave(p)
  <2>1. Last(stack[p]).trace \in DOMAIN traces
        /\ Last(stack[p]) \in Blocks
    BY <1>2, TopOfStack DEF Leave
  <2>2. QED
    BY <1>2, <2>1 DEF Leave, Blocks, Closings, Statuses
<1>3. QED
  BY <1>1, <1>2 DEF Closes

\* What a call adds to the counts of its trace.
LEMMA CountedIs ==
  ASSUME NEW s \in SpanCounts, NEW a
  PROVE  /\ Counted(s, a) \in SpanCounts
         /\ Counted(s, a).total = s.total + 1 /\ Counted(s, a).ok = s.ok
         /\ Counted(s, a).own = IF a = NoArticle THEN s.own ELSE s.own + 1
<1>1. Counted(s, a) = [total |-> s.total + 1, ok |-> s.ok,
                       own |-> IF a = NoArticle THEN s.own ELSE s.own + 1]
  <2>1. CASE a = NoArticle
    <3>1. Counted(s, a) = [s EXCEPT !.total = s.total + 1, !.own = s.own]
      BY <2>1 DEF Counted
    <3>2. QED
      BY <2>1, <3>1 DEF SpanCounts
  <2>2. CASE a # NoArticle
    <3>1. Counted(s, a) = [s EXCEPT !.total = s.total + 1, !.own = s.own + 1]
      BY <2>2 DEF Counted
    <3>2. QED
      BY <2>2, <3>1 DEF SpanCounts
  <2>3. QED
    BY <2>1, <2>2
<1>2. s.total + 1 \in Nat /\ s.ok \in Nat /\ s.own + 1 \in Nat /\ s.own \in Nat
  BY DEF SpanCounts
<1>3. QED
  BY <1>1, <1>2 DEF SpanCounts

\* Rows stay, and keep what they say of who opened them and what for.
LEMMA TablesStep ==
  ASSUME BasicInv, [Next]_vars
  PROVE  /\ traces' \in Seq(TraceRows) /\ spans' \in Seq(SpanCounts)
         /\ Len(spans') = Len(traces')
         /\ DOMAIN traces \subseteq DOMAIN traces'
         /\ \A t \in DOMAIN traces :
              /\ traces'[t].article = traces[t].article /\ traces'[t].by = traces[t].by
              /\ traces'[t].started = traces[t].started /\ traces'[t].kept = traces[t].kept
<1>1. ShapesOK /\ traces \in Seq(TraceRows) /\ spans \in Seq(SpanCounts)
      /\ Len(spans) = Len(traces)
  BY DEF BasicInv, ShapesOK
<1>2. CASE UNCHANGED tables
  BY <1>1, <1>2 DEF tables
<1>3. ASSUME NEW p \in Processes, Opens(p)
      PROVE  /\ \A t \in DOMAIN traces : traces'[t] = traces[t] /\ t \in DOMAIN traces'
             /\ traces' \in Seq(TraceRows) /\ spans' \in Seq(SpanCounts)
             /\ Len(spans') = Len(traces')
  BY <1>3, OpenedRow
<1>4. ASSUME NEW p \in Processes, Counts(p)
      PROVE  UNCHANGED traces /\ spans' \in Seq(SpanCounts) /\ Len(spans') = Len(spans)
  <2> DEFINE t == job[p].trace
  <2>1. t \in DOMAIN traces /\ spans[t] \in SpanCounts
    BY <1>1, <1>4, JobAt, Rows DEF Counts, Record, AnswerOk, BasicInv, JobsOK, JobOK
  <2> DEFINE c == Counted(spans[t], job[p].article)
  <2>2. c \in SpanCounts /\ [spans[t] EXCEPT !.ok = @ + 1] \in SpanCounts
    BY <2>1, CountedIs DEF SpanCounts
  <2>3. UNCHANGED traces
    BY <1>4 DEF Counts, Record, AnswerOk
  <2>4. \/ spans' = spans
        \/ spans' = [spans EXCEPT ![t] = c]
        \/ spans' = [spans EXCEPT ![t] = [spans[t] EXCEPT !.ok = @ + 1]]
    BY <1>4 DEF Counts, Record, AnswerOk
  <2> HIDE DEF t, c
  <2>5. QED
    BY <1>1, <2>1, <2>2, <2>3, <2>4, CountRows
<1>5. ASSUME NEW p \in Processes, Closes(p)
      PROVE  UNCHANGED spans /\ \E t \in DOMAIN traces, s \in Statuses : EndTrace(t, s)
  BY <1>5, ClosesRow
<1>6. ASSUME NEW p \in Processes, Closes(p)
      PROVE
        /\ traces' \in Seq(TraceRows) /\ Len(traces') = Len(traces)
        /\ DOMAIN traces' = DOMAIN traces
        /\ \A t \in DOMAIN traces :
              /\ traces'[t].article = traces[t].article /\ traces'[t].by = traces[t].by
              /\ traces'[t].started = traces[t].started /\ traces'[t].kept = traces[t].kept
  BY <1>1, <1>5, <1>6, EndTraceRows
<1>7. ASSUME NEW p \in Processes, Quiet(p) PROVE UNCHANGED tables
  BY <1>7 DEF Quiet, Launch, Call, LookUp, EnsureBudget, AuditRaw, GuardCalls,
     AnswerFails, Finish, Exit, Derive, OpsCall, Mark, Crash, tables
<1>8. ASSUME NEW p \in Processes, Step(p)
       PROVE  Quiet(p) \/ Opens(p) \/ Counts(p) \/ Closes(p)
  BY <1>8 DEF Step, Quiet, Opens, Counts, Closes
<1>9. CASE Tick \/ UNCHANGED vars
  BY <1>2, <1>9 DEF Tick, vars, tables
<1>10. ASSUME NEW p \in Processes, Counts(p) \/ Closes(p) PROVE
        /\ traces' \in Seq(TraceRows) /\ spans' \in Seq(SpanCounts)
         /\ Len(spans') = Len(traces')
         /\ DOMAIN traces \subseteq DOMAIN traces'
         /\ \A t \in DOMAIN traces :
              /\ traces'[t].article = traces[t].article /\ traces'[t].by = traces[t].by
              /\ traces'[t].started = traces[t].started /\ traces'[t].kept = traces[t].kept
  BY <1>1, <1>4, <1>5, <1>6, <1>10
<1>11. ASSUME NEW p \in Processes, Opens(p) PROVE
         /\ DOMAIN traces \subseteq DOMAIN traces'
         /\ \A t \in DOMAIN traces :
              /\ traces'[t].article = traces[t].article /\ traces'[t].by = traces[t].by
              /\ traces'[t].started = traces[t].started /\ traces'[t].kept = traces[t].kept
  BY <1>3, <1>11
<1>12. QED
  BY <1>2, <1>3, <1>7, <1>8, <1>9, <1>10, <1>11 DEF Next

LEMMA NewJobType ==
  ASSUME NEW a \in Keys, NEW t \in Nat, NEW raw \in BOOLEAN, NEW n \in Nat
  PROVE  NewJob(a, t, raw, n) \in Jobs
BY DEF NewJob, Jobs, Statuses

\* A new value for one process keeps the shape of a variable.
LEMMA ExceptType ==
  ASSUME NEW S, NEW T, NEW f \in [S -> T], NEW x \in S, NEW y \in T
  PROVE  [f EXCEPT ![x] = y] \in [S -> T]
OBVIOUS

\* Every action sends its process somewhere.
LEMMA PcType ==
  ASSUME BasicInv, [Next]_vars
  PROVE  pc' \in [Processes -> PCs]
<1>1. pc \in [Processes -> PCs]
  BY DEF BasicInv, ShapesOK
<1>2. \A p \in Processes : \A l \in PCs : Goto(p, l) => pc' \in [Processes -> PCs]
  BY <1>1 DEF Goto
<1>3. \A p \in Processes : \A l \in PCs : Done(p, l) => pc' \in [Processes -> PCs]
  BY <1>2 DEF Done
<1>4. /\ "down" \in PCs /\ "idle" \in PCs /\ "exit" \in PCs /\ "lookup" \in PCs
      /\ "open" \in PCs /\ "adhoc" \in PCs /\ "budget" \in PCs /\ "audit" \in PCs
      /\ "guard" \in PCs /\ "record" \in PCs /\ "answer" \in PCs /\ "derive" \in PCs
      /\ "close" \in PCs
  BY DEF PCs
<1>5. ASSUME NEW p \in Processes, Step(p) PROVE pc' \in [Processes -> PCs]
  <2>1. CASE Launch(p) \/ Call(p) \/ LookUp(p) \/ Open(p) \/ OpsCall(p) \/ OpenAdhoc(p)
             \/ Record(p) \/ Derive(p)
    BY <1>2, <1>4, <2>1 DEF Launch, Call, LookUp, Open, OpsCall, OpenAdhoc, Record, Derive
  <2>2. CASE EnsureBudget(p) \/ AuditRaw(p) \/ GuardCalls(p) \/ AnswerFails(p)
    BY <1>2, <1>3, <1>4, <2>2 DEF EnsureBudget, AuditRaw, GuardCalls, AnswerFails
  <2>3. CASE AnswerOk(p) \/ Close(p) \/ Crash(p)
    BY <1>3, <1>4, <2>3 DEF AnswerOk, Close, Crash, Stop
  <2>4. CASE Finish(p) \/ Exit(p)
    BY <1>2, <1>3, <1>4, <2>4 DEF Finish, Exit, Stop
  <2>5. CASE Enter(p) \/ Mark(p) \/ Leave(p)
    BY <1>1, <2>5 DEF Enter, Mark, Leave
  <2>6. QED
    BY <1>5, <2>1, <2>2, <2>3, <2>4, <2>5 DEF Step
<1>6. QED
  BY <1>1, <1>5 DEF Next, Tick, vars

\* Every action leaves its process with a job, or without one.
LEMMA JobType ==
  ASSUME BasicInv, [Next]_vars
  PROVE  job' \in [Processes -> Jobs \cup {NoJob}]
<1>1. job \in [Processes -> Jobs \cup {NoJob}] /\ traceOf \in [Processes -> [Keys -> Nat]]
  BY DEF BasicInv, ShapesOK
<1>2. ASSUME NEW p \in Processes, Step(p)
      PROVE  UNCHANGED job \/ \E j \in Jobs \cup {NoJob} : job' = [job EXCEPT ![p] = j]
  <2>1. CASE Launch(p) \/ Enter(p) \/ Mark(p) \/ Leave(p)
    BY <2>1 DEF Launch, Enter, Mark, Leave, local
  <2>2. CASE AnswerOk(p) \/ Close(p) \/ Crash(p)
    BY <2>2 DEF AnswerOk, Close, Crash, Stop, Done
  <2>3. CASE Call(p)
    <3>1. bounds.keys \subseteq Keys /\ Reserve \subseteq Nat
      BY SdkTracesAssumption DEF BasicInv, ShapesOK, Bounds
    <3>2. PICK a \in bounds.keys, raw \in BOOLEAN, n \in Reserve :
            job' = [job EXCEPT ![p] = NewJob(a, traceOf[p][a], raw, n)]
      BY <2>3 DEF Call
    <3>3. traceOf[p][a] \in Nat /\ NewJob(a, traceOf[p][a], raw, n) \in Jobs
      BY <1>1, <3>1, NewJobType
    <3>4. QED
      BY <3>2, <3>3
  <2>4. CASE OpsCall(p)
    <3>1. stack[p] # <<>> => Last(stack[p]).trace \in Nat
      BY TopOfStack DEF Blocks
    <3>2. PICK raw \in BOOLEAN, n \in Reserve :
            job' = [job EXCEPT ![p] = NewJob(NoArticle,
                      IF stack[p] = <<>> THEN NoTrace ELSE Last(stack[p]).trace, raw, n)]
      BY <2>4 DEF OpsCall
    <3>3. QED
      BY <3>1, <3>2, NewJobType, SdkTracesAssumption DEF Keys, NoTrace
  <2>5. CASE Finish(p)
    <3>1. PICK a \in Keys, status \in {"running", "failed"} :
            job' = [job EXCEPT ![p] = [NewJob(a, traceOf[p][a], FALSE, 0)
                                         EXCEPT !.status = status]]
      BY <2>5 DEF Finish
    <3>2. NewJob(a, traceOf[p][a], FALSE, 0) \in Jobs
      BY <1>1, NewJobType
    <3>3. [NewJob(a, traceOf[p][a], FALSE, 0) EXCEPT !.status = status] \in Jobs
      BY <3>2 DEF Jobs, Statuses
    <3>4. QED
      BY <3>1, <3>3
  <2>6. CASE Exit(p)
    <3>1. \A t \in opened[p] : t \in Nat /\ traces[t].article \in Keys
      BY Rows DEF BasicInv, OpenedOK, OpensOK, ClosingOK, TraceRows
    <3>2. QED
      BY <2>6, <3>1, NewJobType DEF Exit, Stop, Done
  <2>7. CASE LookUp(p) \/ Open(p) \/ OpenAdhoc(p)
    <3>1. job[p] \in Jobs /\ Len(traces) + 1 \in Nat /\ \A t \in DOMAIN traces : t \in Nat
      BY <2>7, JobAt, Rows DEF LookUp, Open, OpenAdhoc, BasicInv
    <3>2. \A t \in Nat : [job[p] EXCEPT !.trace = t] \in Jobs
      BY <3>1 DEF Jobs
    <3>3. UNCHANGED job \/ \E t \in Nat : job' = [job EXCEPT ![p].trace = t]
      BY <2>7, <3>1 DEF LookUp, Open, OpenAdhoc, Found
    <3>4. UNCHANGED job \/ \E t \in Nat : job' = [job EXCEPT ![p] = [job[p] EXCEPT !.trace = t]]
      BY <3>3
    <3>5. QED
      BY <3>2, <3>4
  <2>8. CASE EnsureBudget(p) \/ AuditRaw(p) \/ GuardCalls(p)
    BY <2>8 DEF EnsureBudget, AuditRaw, GuardCalls, Done
  <2>9. CASE AnswerFails(p)
    <3>1. job[p] \in Jobs
      BY <2>9, JobAt DEF AnswerFails
    <3>2. [[job[p] EXCEPT !.standin = TRUE] EXCEPT !.left = job[p].needed] \in Jobs
      BY <3>1 DEF Jobs
    <3>3. \/ UNCHANGED job \/ job' = [job EXCEPT ![p] = NoJob]
          \/ job' = [job EXCEPT ![p].standin = TRUE, ![p].left = job[p].needed]
      BY <2>9 DEF AnswerFails, Done
    <3>4. CASE job' = [job EXCEPT ![p].standin = TRUE, ![p].left = job[p].needed]
      <4>1. job' = [job EXCEPT ![p] = [[job[p] EXCEPT !.standin = TRUE]
                                          EXCEPT !.left = job[p].needed]]
        BY <1>1, <3>4
      <4>2. QED
        BY <3>2, <4>1
    <3>5. QED
      BY <3>3, <3>4
  <2>10. CASE Record(p)
    <3>1. job[p] \in Jobs /\ job[p].left - 1 \in Nat
      <4>1. job[p] \in Jobs /\ job[p].left > 0
        BY <2>10, JobAt DEF Record, BasicInv, JobsOK, JobOK, Calling
      <4>2. QED
        BY <4>1 DEF Jobs
    <3>2. \A b \in BOOLEAN :
            [[job[p] EXCEPT !.stored = b] EXCEPT !.left = job[p].left - 1] \in Jobs
      BY <3>1 DEF Jobs
    <3>3. \E b \in BOOLEAN : job' = [job EXCEPT ![p].stored = b, ![p].left = @ - 1]
      BY <2>10 DEF Record
    <3>4. \E b \in BOOLEAN :
            job' = [job EXCEPT ![p] = [[job[p] EXCEPT !.stored = b]
                                          EXCEPT !.left = job[p].left - 1]]
      BY <1>1, <3>3
    <3>5. QED
      BY <3>2, <3>4
  <2>11. CASE Derive(p)
    <3>1. job[p] \in Jobs
      BY <2>11, JobAt DEF Derive
    <3>2. \A s \in Statuses : [job[p] EXCEPT !.status = s] \in Jobs
      BY <3>1 DEF Jobs
    <3>3. \E s \in Statuses : job' = [job EXCEPT ![p].status = s]
      BY <2>11 DEF Derive, Derived, Statuses
    <3>4. \E s \in Statuses : job' = [job EXCEPT ![p] = [job[p] EXCEPT !.status = s]]
      BY <3>3
    <3>5. QED
      BY <3>2, <3>4
  <2>12. QED
    BY <1>2, <2>1, <2>2, <2>3, <2>4, <2>5, <2>6, <2>7, <2>8, <2>9, <2>10, <2>11 DEF Step
<1>3. QED
  BY <1>1, <1>2 DEF Next, Tick, vars, local

\* The top of a stack replaced.
LEMMA TopReplaced ==
  ASSUME NEW s \in Seq(Blocks), s # <<>>, NEW x \in Closings
  PROVE  [s EXCEPT ![Len(s)].status = x] \in Seq(Blocks)
<1>1. Len(s) \in 1..Len(s)
  BY EmptySeq, LenProperties
<1>2. s[Len(s)] \in Blocks
  BY <1>1, ElementOfSeq
<1>3. [s[Len(s)] EXCEPT !.status = x] \in Blocks
  BY <1>2 DEF Blocks
<1>4. [s EXCEPT ![Len(s)] = [s[Len(s)] EXCEPT !.status = x]] \in Seq(Blocks)
  BY <1>1, <1>3, ExceptSeq
<1>5. QED
  BY <1>4

\* All but the top of a stack.
LEMMA FrontType ==
  ASSUME NEW s \in Seq(Blocks), s # <<>>
  PROVE  /\ Front(s) \in Seq(Blocks) /\ Len(Front(s)) = Len(s) - 1
         /\ \A i \in 1..(Len(s) - 1) : Front(s)[i] = s[i]
<1>1. Len(s) \in Nat /\ Len(s) >= 1
  BY EmptySeq, LenProperties
<1>2. \A i \in 1..(Len(s) - 1) : s[i] \in Blocks
  <2> SUFFICES ASSUME NEW i \in 1..(Len(s) - 1) PROVE s[i] \in Blocks
    OBVIOUS
  <2>1. i \in 1..Len(s)
    BY <1>1
  <2>2. QED
    BY <2>1, ElementOfSeq
<1> DEFINE n == Len(s) - 1
           f == SubSeq(s, 1, n)
<1>3. n \in Nat /\ 1 \in Int /\ n \in Int /\ \A i \in 1..n : s[i] \in Blocks
  BY <1>1, <1>2
<1> HIDE DEF n
<1>4. /\ f \in Seq(Blocks) /\ Len(f) = IF 1 <= n THEN n - 1 + 1 ELSE 0
      /\ \A i \in 1..(n - 1 + 1) : f[i] = s[1 + i - 1]
  BY <1>3, SubSeqProperties
<1> HIDE DEF f
<1>5. Len(f) = n /\ 1..(n - 1 + 1) = 1..n /\ \A i \in 1..n : 1 + i - 1 = i
  BY <1>3, <1>4
<1>6. f \in Seq(Blocks) /\ Len(f) = n /\ \A i \in 1..n : f[i] = s[i]
  BY <1>4, <1>5
<1>7. QED
  BY <1>6 DEF f, n, Front

\* What a process remembers keeps its shape.
LEMMA MemoryType ==
  ASSUME BasicInv, [Next]_vars
  PROVE  /\ traceOf' \in [Processes -> [Keys -> Nat]]
         /\ opened' \in [Processes -> SUBSET Nat]
         /\ stack' \in [Processes -> Seq(Blocks)]
<1>1. /\ traceOf \in [Processes -> [Keys -> Nat]] /\ opened \in [Processes -> SUBSET Nat]
      /\ stack \in [Processes -> Seq(Blocks)]
  BY DEF BasicInv, ShapesOK
<1>2. Len(traces) + 1 \in Nat /\ \A t \in DOMAIN traces : t \in Nat
  BY Rows DEF BasicInv
<1>3. ASSUME NEW p \in Processes, Step(p)
      PROVE  UNCHANGED traceOf \/ \E f \in [Keys -> Nat] : traceOf' = [traceOf EXCEPT ![p] = f]
  <2>1. CASE Open(p) \/ LookUp(p)
    <3>1. job[p].article \in Keys
      BY <2>1, JobAt DEF Open, LookUp, Jobs
    <3>2. traceOf[p] \in [Keys -> Nat]
      BY <1>1
    <3>3. \A t \in Nat : [traceOf[p] EXCEPT ![job[p].article] = t] \in [Keys -> Nat]
      BY <3>1, <3>2
    <3>4. \/ UNCHANGED traceOf
          \/ \E t \in Nat : traceOf' = [traceOf EXCEPT ![p][job[p].article] = t]
      BY <1>2, <2>1 DEF Open, LookUp, Found
    <3>5. \/ UNCHANGED traceOf
          \/ \E t \in Nat :
               traceOf' = [traceOf EXCEPT ![p] = [traceOf[p] EXCEPT ![job[p].article] = t]]
      BY <3>4
    <3>6. QED
      BY <3>3, <3>5
  <2>2. CASE Exit(p) \/ Crash(p)
    <3>1. [a \in Keys |-> NoTrace] \in [Keys -> Nat]
      BY DEF NoTrace
    <3>2. QED
      BY <2>2, <3>1 DEF Exit, Crash, Stop
  <2>3. CASE Launch(p) \/ Call(p) \/ EnsureBudget(p) \/ AuditRaw(p) \/ OpenAdhoc(p)
             \/ GuardCalls(p) \/ Record(p) \/ AnswerOk(p) \/ AnswerFails(p) \/ Finish(p)
             \/ Derive(p) \/ Close(p) \/ Enter(p) \/ OpsCall(p) \/ Mark(p) \/ Leave(p)
    BY <2>3 DEF Launch, Call, EnsureBudget, AuditRaw, OpenAdhoc, GuardCalls, Record,
       AnswerOk, AnswerFails, Finish, Derive, Close, Enter, OpsCall, Mark, Leave, local
  <2>4. QED
    BY <1>3, <2>1, <2>2, <2>3 DEF Step
<1>4. ASSUME NEW p \in Processes, Step(p)
      PROVE  UNCHANGED opened \/ \E S \in SUBSET Nat : opened' = [opened EXCEPT ![p] = S]
  <2>1. opened[p] \in SUBSET Nat
    BY <1>1
  <2>2. CASE Open(p)
    BY <1>2, <2>1, <2>2 DEF Open
  <2>3. CASE Exit(p) \/ Crash(p) \/ Close(p)
    BY <2>1, <2>3 DEF Exit, Crash, Stop, Close, Remaining
  <2>4. CASE Launch(p) \/ Call(p) \/ EnsureBudget(p) \/ AuditRaw(p) \/ OpenAdhoc(p)
             \/ GuardCalls(p) \/ Record(p) \/ AnswerOk(p) \/ AnswerFails(p) \/ Finish(p)
             \/ Derive(p) \/ LookUp(p) \/ Enter(p) \/ OpsCall(p) \/ Mark(p) \/ Leave(p)
    BY <2>4 DEF Launch, Call, EnsureBudget, AuditRaw, OpenAdhoc, GuardCalls, Record,
       AnswerOk, AnswerFails, Finish, Derive, LookUp, Enter, OpsCall, Mark, Leave, local
  <2>5. QED
    BY <1>4, <2>2, <2>3, <2>4 DEF Step
<1>5. ASSUME NEW p \in Processes, Step(p)
      PROVE  UNCHANGED stack \/ \E s \in Seq(Blocks) : stack' = [stack EXCEPT ![p] = s]
  <2>1. stack[p] \in Seq(Blocks)
    BY <1>1
  <2>2. CASE Enter(p)
    <3>1. [trace |-> Len(traces) + 1, status |-> "success"] \in Blocks
      BY <1>2 DEF Blocks, Closings
    <3>2. Append(stack[p], [trace |-> Len(traces) + 1, status |-> "success"]) \in Seq(Blocks)
      BY <2>1, <3>1, AppendProperties
    <3>3. QED
      BY <2>2, <3>2 DEF Enter
  <2>3. CASE Mark(p)
    <3>1. PICK x \in {"failed", "partial"} :
            stack[p] # <<>> /\ stack' = [stack EXCEPT ![p][Len(stack[p])].status = x]
      BY <2>3 DEF Mark
    <3>2. stack' = [stack EXCEPT ![p] = [stack[p] EXCEPT ![Len(stack[p])].status = x]]
      BY <3>1
    <3>3. [stack[p] EXCEPT ![Len(stack[p])].status = x] \in Seq(Blocks)
      BY <2>1, <3>1, TopReplaced DEF Closings
    <3>4. QED
      BY <3>2, <3>3
  <2>4. CASE Leave(p)
    BY <2>1, <2>4, FrontType DEF Leave
  <2>5. CASE Exit(p) \/ Crash(p)
    <3>1. <<>> \in Seq(Blocks)
      BY EmptySeq
    <3>2. QED
      BY <2>5, <3>1 DEF Exit, Crash, Stop
  <2>6. CASE Launch(p) \/ Call(p) \/ EnsureBudget(p) \/ AuditRaw(p) \/ OpenAdhoc(p)
             \/ GuardCalls(p) \/ Record(p) \/ AnswerOk(p) \/ AnswerFails(p) \/ Finish(p)
             \/ Derive(p) \/ LookUp(p) \/ OpsCall(p) \/ Open(p) \/ Close(p)
    BY <2>6 DEF Launch, Call, EnsureBudget, AuditRaw, OpenAdhoc, GuardCalls, Record,
       AnswerOk, AnswerFails, Finish, Derive, LookUp, OpsCall, Open, Close, local
  <2>7. QED
    BY <1>5, <2>2, <2>3, <2>4, <2>5, <2>6 DEF Step
<1>6. ASSUME NEW p \in Processes, Step(p) PROVE traceOf' \in [Processes -> [Keys -> Nat]]
  BY <1>1, <1>3, <1>6
<1>7. ASSUME NEW p \in Processes, Step(p) PROVE opened' \in [Processes -> SUBSET Nat]
  BY <1>1, <1>4, <1>7
<1>8. ASSUME NEW p \in Processes, Step(p) PROVE stack' \in [Processes -> Seq(Blocks)]
  BY <1>1, <1>5, <1>8
<1>9. CASE Tick \/ UNCHANGED vars
  BY <1>1, <1>9 DEF Tick, vars, local
<1>10. QED
  BY <1>6, <1>7, <1>8, <1>9 DEF Next

\* The clock and the history keep their shapes.
LEMMA HistoryType ==
  ASSUME BasicInv, [Next]_vars
  PROVE  now' \in Nat /\ made' \in [Articles -> Nat] /\ lost' \in [Articles -> Nat]
<1>1. now \in Nat /\ made \in [Articles -> Nat] /\ lost \in [Articles -> Nat]
  BY DEF BasicInv, ShapesOK
<1>2. CASE Tick
  BY <1>1, <1>2 DEF Tick, history
<1>3. ASSUME NEW p \in Processes, Record(p)
      PROVE  now' \in Nat /\ made' \in [Articles -> Nat] /\ lost' \in [Articles -> Nat]
  <2>1. job[p].article \in Keys
    BY <1>3, JobAt DEF Record, Jobs
  <2>2. /\ UNCHANGED made \/ made' = [made EXCEPT ![job[p].article] = @ + 1]
        /\ UNCHANGED lost \/ lost' = [lost EXCEPT ![job[p].article] = @ + 1]
        /\ UNCHANGED now
    BY <1>3 DEF Record
  <2>3. \A a \in Articles : made[a] + 1 \in Nat /\ lost[a] + 1 \in Nat
    BY <1>1
  <2>4. QED
    BY <1>1, <2>2, <2>3
<1>4. ASSUME NEW p \in Processes, Step(p), ~Record(p) PROVE UNCHANGED <<now, made, lost>>
  BY <1>4 DEF Step, Launch, Call, EnsureBudget, AuditRaw, OpenAdhoc, GuardCalls, Enter,
     AnswerOk, AnswerFails, Finish, Exit, Derive, LookUp, OpsCall, Open, Close, Mark, Leave,
     Crash, history
<1>5. QED
  BY <1>1, <1>2, <1>3, <1>4 DEF Next, vars, history

LEMMA ShapesStep ==
  ASSUME BasicInv, [Next]_vars
  PROVE  ShapesOK'
<1>1. bounds \in Bounds
  BY DEF BasicInv, ShapesOK
<1>2. QED
  BY <1>1, PcType, JobType, MemoryType, TablesStep, HistoryType, BoundsStep DEF ShapesOK

\* What did not change at a process still holds of its job, when the rows stay.
LEMMA SameJob ==
  ASSUME BasicInv, [Next]_vars, NEW p \in Processes,
         pc'[p] = pc[p], job'[p] = job[p]
  PROVE  JobOK(p)'
<1>1. JobOK(p)
  BY DEF BasicInv, JobsOK
<1>2. \A t \in DOMAIN traces : t \in DOMAIN traces' /\ traces'[t].article = traces[t].article
  BY TablesStep
<1>3. QED
  BY <1>1, <1>2 DEF JobOK

LEMMA JobsStep ==
  ASSUME BasicInv, [Next]_vars
  PROVE  JobsOK'
<1>1. /\ pc \in [Processes -> PCs] /\ job \in [Processes -> Jobs \cup {NoJob}]
      /\ \A a \in Keys : NoArticle \in Keys
  BY DEF BasicInv, ShapesOK, Keys
<1>2. CASE Tick \/ UNCHANGED vars
  <2>1. UNCHANGED <<pc, job>>
    BY <1>2 DEF Tick, vars, local
  <2>2. QED
    BY <2>1, SameJob DEF JobsOK
<1>3. ASSUME NEW p \in Processes, Step(p) PROVE JobsOK'
  <2>1. ASSUME NEW q \in Processes, q # p PROVE JobOK(q)'
    BY <1>3, <2>1, Others, SameJob DEF BasicInv
  <2>2. /\ JobOK(p) /\ NameOK(p)
        /\ job[p] \in Jobs \/ job[p] = NoJob
    BY <1>1 DEF BasicInv, JobsOK, NamesOK
  <2>3. \A t \in DOMAIN traces : t \in DOMAIN traces' /\ traces'[t].article = traces[t].article
    BY TablesStep
  <2>4. \A l : Done(p, l) => pc'[p] = l /\ job'[p] = NoJob
    BY <1>1 DEF Done, Goto
  <2>5. \A l : Goto(p, l) => pc'[p] = l
    BY <1>1 DEF Goto
  <2>6. ASSUME NEW l \in {"down", "idle", "exit"}, Done(p, l) PROVE JobOK(p)'
    BY <2>4, <2>6 DEF JobOK, Calling
  <2>7. JobOK(p)'
    <3>1. CASE Launch(p) \/ Enter(p) \/ Mark(p) \/ Leave(p)
      <4>1. UNCHANGED job
        BY <3>1 DEF Launch, Enter, Mark, Leave, local
      <4>2. pc'[p] = "idle" /\ pc[p] \in {"down", "idle"}
        BY <2>5, <3>1 DEF Launch, Enter, Mark, Leave
      <4>3. QED
        BY <2>2, <4>1, <4>2 DEF JobOK, Calling
    <3>2. CASE AnswerOk(p) \/ Close(p) \/ Crash(p)
      BY <2>6, <3>2 DEF AnswerOk, Close, Crash, Stop
    <3>3. CASE Call(p)
      <4>1. PICK a \in bounds.keys, raw \in BOOLEAN, n \in Reserve :
              /\ job' = [job EXCEPT ![p] = NewJob(a, traceOf[p][a], raw, n)]
              /\ Goto(p, IF traceOf[p][a] # NoTrace THEN "budget"
                         ELSE IF a = NoArticle THEN "open" ELSE "lookup")
        BY <3>3 DEF Call
      <4>2. a \in Keys /\ n \in Nat /\ n > 0 /\ traceOf[p][a] \in Nat
        BY SdkTracesAssumption DEF BasicInv, ShapesOK, Bounds
      <4>3. job'[p] = NewJob(a, traceOf[p][a], raw, n) /\ job'[p] # NoJob
        BY <1>1, <4>1, <4>2, NewJobType, JobsAssumption
      <4>4. traceOf[p][a] # NoTrace =>
              traceOf[p][a] \in DOMAIN traces' /\ traces'[traceOf[p][a]].article = a
        BY <2>2, <2>3, <4>2 DEF NameOK
      <4>5. pc'[p] = IF traceOf[p][a] # NoTrace THEN "budget"
                     ELSE IF a = NoArticle THEN "open" ELSE "lookup"
        BY <2>5, <4>1
      <4>6. QED
        BY <4>2, <4>3, <4>4, <4>5 DEF JobOK, NewJob, Calling
    <3>4. CASE OpsCall(p)
      <4> DEFINE t == IF stack[p] = <<>> THEN NoTrace ELSE Last(stack[p]).trace
      <4>1. PICK raw \in BOOLEAN, n \in Reserve :
              /\ job' = [job EXCEPT ![p] = NewJob(NoArticle, t, raw, n)]
              /\ Goto(p, IF raw THEN "audit" ELSE IF t = NoTrace THEN "adhoc" ELSE "guard")
        BY <3>4 DEF OpsCall
      <4>2. t = NoTrace \/ t \in DOMAIN traces
        BY TopOfStack
      <4> HIDE DEF t
      <4>3. n \in Nat /\ n > 0 /\ t \in Nat /\ NoArticle \in Keys
        BY <4>2, SdkTracesAssumption, Rows DEF BasicInv, NoTrace, Keys
      <4>4. job'[p] = NewJob(NoArticle, t, raw, n) /\ job'[p] # NoJob
        BY <1>1, <4>1, <4>3, NewJobType, JobsAssumption
      <4>5. pc'[p] = IF raw THEN "audit" ELSE IF t = NoTrace THEN "adhoc" ELSE "guard"
        BY <2>5, <4>1
      <4>6. QED
        BY <2>3, <4>2, <4>3, <4>4, <4>5 DEF JobOK, NewJob, Calling
    <3>5. CASE Finish(p)
      <4>1. PICK a \in Keys, status \in {"running", "failed"} :
              /\ traceOf[p][a] \in opened[p]
              /\ job' = [job EXCEPT ![p] = [NewJob(a, traceOf[p][a], FALSE, 0)
                                              EXCEPT !.status = status]]
              /\ Goto(p, IF status = "running" THEN "derive" ELSE "close")
        BY <3>5 DEF Finish
      <4>2. traceOf[p][a] \in DOMAIN traces /\ traceOf[p][a] # NoTrace
        BY <4>1, Rows DEF BasicInv, OpenedOK, OpensOK, ClosingOK, NoTrace
      <4>3. traces[traceOf[p][a]].article = a /\ traceOf[p][a] \in Nat
        BY <2>2, <4>2, Rows DEF NameOK, BasicInv
      <4>4. [NewJob(a, traceOf[p][a], FALSE, 0) EXCEPT !.status = status] \in Jobs
        <5>1. NewJob(a, traceOf[p][a], FALSE, 0) \in Jobs
          BY <4>3, NewJobType
        <5>2. status \in Statuses
          BY DEF Statuses
        <5>3. QED
          BY <5>1, <5>2 DEF Jobs
      <4>5. job'[p] = [NewJob(a, traceOf[p][a], FALSE, 0) EXCEPT !.status = status]
            /\ job'[p] # NoJob
        BY <1>1, <4>1, <4>4, JobsAssumption
      <4>6. pc'[p] \in {"derive", "close"}
        BY <2>5, <4>1
      <4>7. QED
        BY <2>3, <4>2, <4>3, <4>5, <4>6 DEF JobOK, NewJob, Calling
    <3>6. CASE Exit(p)
      <4>1. CASE Stop(p)
        BY <2>6, <4>1 DEF Stop
      <4>2. ASSUME NEW t \in opened[p], Goto(p, "derive"),
                   job' = [job EXCEPT ![p] = NewJob(traces[t].article, t, TRUE, 0)]
            PROVE  JobOK(p)'
        <5>1. t \in DOMAIN traces /\ t # NoTrace /\ t \in Nat /\ traces[t].article \in Keys
          BY Rows DEF BasicInv, OpenedOK, OpensOK, ClosingOK, NoTrace, TraceRows
        <5>2. job'[p] = NewJob(traces[t].article, t, TRUE, 0) /\ job'[p] # NoJob
          BY <1>1, <4>2, <5>1, NewJobType, JobsAssumption
        <5>3. pc'[p] = "derive"
          BY <2>5, <4>2
        <5>4. QED
          BY <2>3, <5>1, <5>2, <5>3 DEF JobOK, NewJob, Calling
      <4>3. QED
        BY <3>6, <4>1, <4>2 DEF Exit
    <3>7. CASE LookUp(p)
      <4>1. job[p] \in Jobs /\ job[p] # NoJob /\ job[p].article # NoArticle
        BY <2>2, <3>7, JobsAssumption DEF LookUp, JobOK
      <4>2. CASE Goto(p, "open") /\ UNCHANGED job
        <5>1. pc'[p] = "open" /\ pc[p] = "lookup"
          BY <2>5, <3>7, <4>2 DEF LookUp
        <5>2. QED
          BY <2>2, <2>3, <4>1, <4>2, <5>1 DEF JobOK, Calling
      <4>3. ASSUME NEW t \in Found(job[p].article), job' = [job EXCEPT ![p].trace = t],
                   Goto(p, "budget")
            PROVE  JobOK(p)'
        <5>1. t \in DOMAIN traces /\ traces[t].article = job[p].article
              /\ t # NoTrace /\ t \in Nat
          BY Rows DEF Found, BasicInv, NoTrace
        <5>2. job'[p] = [job[p] EXCEPT !.trace = t] /\ job'[p] \in Jobs
          BY <1>1, <4>1, <4>3, <5>1 DEF Jobs
        <5>3. /\ job'[p].trace = t /\ job'[p].article = job[p].article
              /\ job'[p].needed = job[p].needed /\ job'[p].left = job[p].left
              /\ job'[p] # NoJob
          BY <4>1, <5>2, JobsAssumption DEF Jobs
        <5>4. pc'[p] = "budget" /\ pc[p] = "lookup"
          BY <2>5, <3>7, <4>3 DEF LookUp
        <5>5. QED
          BY <2>2, <2>3, <5>1, <5>3, <5>4 DEF JobOK, Calling
      <4>4. QED
        BY <3>7, <4>2, <4>3 DEF LookUp
    <3>8. CASE Open(p) \/ OpenAdhoc(p)
      <4> DEFINE t == Len(traces) + 1
      <4>1. job[p] \in Jobs /\ job[p] # NoJob
        BY <2>2, <3>8, JobsAssumption DEF Open, OpenAdhoc, JobOK
      <4>2. PICK by \in Kinds, kept \in BOOLEAN, a \in Keys :
              /\ a = job[p].article \/ (OpenAdhoc(p) /\ a = NoArticle)
              /\ traces' = Append(traces, NewTrace(a, by, kept))
              /\ spans' = Append(spans, NoSpans)
        BY <1>1, <3>8, <4>1 DEF Open, OpenAdhoc, StartTrace, Kinds, Keys, Jobs
      <4>3. t \in DOMAIN traces' /\ traces'[t] = NewTrace(a, by, kept) /\ t \in Nat /\ t # NoTrace
        BY <4>2, AppendRows, Rows DEF BasicInv, NoTrace
      <4>4. pc[p] = "adhoc" \/ pc[p] = "open"
        BY <3>8 DEF Open, OpenAdhoc
      <4>5. job' = [job EXCEPT ![p].trace = t]
        BY <3>8 DEF Open, OpenAdhoc
      <4> HIDE DEF t
      <4>6. job'[p] = [job[p] EXCEPT !.trace = t] /\ job'[p] \in Jobs
        BY <1>1, <4>1, <4>3, <4>5 DEF Jobs
      <4>7. /\ job'[p].trace = t /\ job'[p].article = job[p].article
            /\ job'[p].needed = job[p].needed /\ job'[p].left = job[p].left
            /\ job'[p] # NoJob
        BY <4>1, <4>6, JobsAssumption DEF Jobs
      <4>8. traces'[t].article = a
        BY <4>3 DEF NewTrace
      <4>9. job[p].article = a
        <5>1. CASE OpenAdhoc(p)
          <6>1. job[p].article = NoArticle /\ job[p] \in Jobs
            BY <2>2, <4>1, <5>1 DEF OpenAdhoc, JobOK
          <6>2. QED
            BY <4>2, <6>1
        <5>2. QED
          BY <4>2, <5>1
      <4>10. pc'[p] \in {"budget", "guard"}
        BY <2>5, <3>8 DEF Open, OpenAdhoc
      <4>11. QED
        BY <2>2, <4>3, <4>4, <4>7, <4>8, <4>9, <4>10 DEF JobOK, Calling
    <3>9. CASE EnsureBudget(p) \/ AuditRaw(p) \/ GuardCalls(p)
      <4>1. CASE Done(p, "idle")
        BY <2>6, <4>1
      <4>2. CASE UNCHANGED job /\ ~Done(p, "idle")
        <5>1. job[p] # NoJob
          BY <2>2, <3>9 DEF EnsureBudget, AuditRaw, GuardCalls, JobOK
        <5>2. /\ pc[p] \in {"budget", "audit", "guard"}
              /\ pc'[p] \in {"audit", "guard", "record", "adhoc"}
              /\ job[p].trace # NoTrace \/ pc'[p] = "adhoc"
              /\ pc'[p] = "adhoc" => pc[p] = "audit" /\ job[p].trace = NoTrace
          BY <2>2, <2>5, <3>9, <4>2 DEF EnsureBudget, AuditRaw, GuardCalls, JobOK
        <5>3. QED
          BY <2>2, <2>3, <4>2, <5>1, <5>2 DEF JobOK, Calling
      <4>3. QED
        BY <3>9, <4>1, <4>2 DEF EnsureBudget, AuditRaw, GuardCalls
    <3>10. CASE Record(p)
      <4>1. job[p] \in Jobs /\ job[p] # NoJob /\ pc[p] = "record" /\ pc'[p] = "answer"
        BY <2>2, <2>5, <3>10, JobsAssumption DEF Record, JobOK
      <4>2. PICK b \in BOOLEAN : job' = [job EXCEPT ![p].stored = b, ![p].left = @ - 1]
        BY <3>10 DEF Record
      <4>3. /\ job'[p].trace = job[p].trace /\ job'[p].article = job[p].article
            /\ job'[p].needed = job[p].needed /\ job'[p].left = job[p].left - 1
        BY <1>1, <4>1, <4>2 DEF Jobs
      <4>4. job'[p] # NoJob
        <5>1. job[p].left - 1 \in Nat
          BY <2>2, <4>1 DEF JobOK, Calling, Jobs
        <5>2. [[job[p] EXCEPT !.stored = b] EXCEPT !.left = job[p].left - 1] \in Jobs
          BY <4>1, <5>1 DEF Jobs
        <5>3. job'[p] = [[job[p] EXCEPT !.stored = b] EXCEPT !.left = job[p].left - 1]
          BY <1>1, <4>2
        <5>4. QED
          BY <5>2, <5>3, JobsAssumption
      <4>5. job[p].left \in Nat /\ job[p].needed \in Nat
        BY <4>1 DEF Jobs
      <4>6. QED
        BY <2>2, <2>3, <4>1, <4>3, <4>4, <4>5 DEF JobOK, Calling
    <3>11. CASE AnswerFails(p)
      <4>1. job[p] \in Jobs /\ job[p] # NoJob /\ pc[p] = "answer"
        BY <2>2, <3>11, JobsAssumption DEF AnswerFails, JobOK
      <4>2. CASE Done(p, "idle")
        BY <2>6, <4>2
      <4>3. CASE job[p].left > 0 /\ Goto(p, "record") /\ UNCHANGED job
        <5>1. pc'[p] = "record"
          BY <2>5, <4>3
        <5>2. QED
          BY <2>2, <2>3, <4>1, <4>3, <5>1 DEF JobOK, Calling
      <4>4. CASE /\ Goto(p, "guard")
                 /\ job' = [job EXCEPT ![p].standin = TRUE, ![p].left = job[p].needed]
        <5>1. /\ job'[p].trace = job[p].trace /\ job'[p].article = job[p].article
              /\ job'[p].needed = job[p].needed /\ job'[p].left = job[p].needed
          BY <1>1, <4>1, <4>4 DEF Jobs
        <5>2. pc'[p] = "guard" /\ job'[p] # NoJob
          <6>1. [[job[p] EXCEPT !.standin = TRUE] EXCEPT !.left = job[p].needed] \in Jobs
            BY <4>1 DEF Jobs
          <6>2. job'[p] = [[job[p] EXCEPT !.standin = TRUE] EXCEPT !.left = job[p].needed]
            BY <1>1, <4>4
          <6>3. QED
            BY <2>5, <4>4, <6>1, <6>2, JobsAssumption
        <5>3. job[p].needed \in Nat /\ job[p].needed > 0
          <6>1. job[p].needed \in Reserve
            BY <2>2, <4>1 DEF JobOK, Calling
          <6>2. Reserve \subseteq Nat \ {0}
            BY SdkTracesAssumption
          <6>3. \A n \in Nat \ {0} : n \in Nat /\ n > 0
            OBVIOUS
          <6>4. QED
            BY <6>1, <6>2, <6>3
        <5>4. QED
          BY <2>2, <2>3, <4>1, <5>1, <5>2, <5>3 DEF JobOK, Calling
      <4>5. QED
        BY <3>11, <4>2, <4>3, <4>4 DEF AnswerFails
    <3>12. CASE Derive(p)
      <4>1. job[p] \in Jobs /\ job[p] # NoJob /\ pc[p] = "derive" /\ pc'[p] = "close"
        BY <2>2, <2>5, <3>12, JobsAssumption DEF Derive, JobOK
      <4>2. PICK s \in Statuses : job' = [job EXCEPT ![p].status = s]
        BY <3>12 DEF Derive, Derived, Statuses
      <4>3. job'[p] = [job[p] EXCEPT !.status = s] /\ job'[p] \in Jobs
        BY <1>1, <4>1, <4>2 DEF Jobs
      <4>4. job'[p].trace = job[p].trace /\ job'[p].article = job[p].article /\ job'[p] # NoJob
        BY <4>1, <4>3, JobsAssumption DEF Jobs
      <4>5. QED
        BY <2>2, <2>3, <4>1, <4>4 DEF JobOK, Calling
    <3>13. QED
      BY <1>3, <3>1, <3>2, <3>3, <3>4, <3>5, <3>6, <3>7, <3>8, <3>9, <3>10, <3>11, <3>12
         DEF Step
  <2>8. QED
    BY <2>1, <2>7 DEF JobsOK
<1>4. QED
  BY <1>2, <1>3 DEF Next

LEMMA NamesStep ==
  ASSUME BasicInv, [Next]_vars
  PROVE  NamesOK'
<1>1. traceOf \in [Processes -> [Keys -> Nat]] /\ NoTrace \in Nat
  BY DEF BasicInv, ShapesOK, NoTrace
<1>2. \A t \in DOMAIN traces : t \in DOMAIN traces' /\ traces'[t].article = traces[t].article
  BY TablesStep
<1>3. ASSUME NEW p \in Processes, traceOf'[p] = traceOf[p] PROVE NameOK(p)'
  BY <1>2, <1>3 DEF BasicInv, NamesOK, NameOK
<1>4. ASSUME NEW p \in Processes, Step(p) PROVE NamesOK'
  <2>1. ASSUME NEW q \in Processes, q # p PROVE NameOK(q)'
    BY <1>3, <1>4, <2>1, Others DEF BasicInv
  <2>2. CASE LookUp(p) \/ Open(p)
    <3>1. job[p].article \in Keys
      BY <2>2, JobAt DEF Open, LookUp, Jobs
    <3>2. \/ UNCHANGED traceOf
          \/ \E t \in DOMAIN traces' : /\ traces'[t].article = job[p].article
                                       /\ traceOf' = [traceOf EXCEPT ![p][job[p].article] = t]
      <4>1. CASE LookUp(p)
        BY <1>2, <4>1 DEF LookUp, Found
      <4>2. CASE Open(p)
        <5>1. PICK kept \in BOOLEAN :
                /\ traces' = Append(traces, NewTrace(job[p].article, "client", kept))
                /\ spans' = Append(spans, NoSpans)
          BY <4>2 DEF Open, StartTrace
        <5>2. /\ Len(traces) + 1 \in DOMAIN traces'
              /\ traces'[Len(traces) + 1] = NewTrace(job[p].article, "client", kept)
          <6>1. Len(traces) + 1 \in 1..(Len(traces) + 1)
            BY Rows DEF BasicInv
          <6>2. QED
            BY <3>1, <5>1, <6>1, AppendRows DEF BasicInv, Kinds
        <5>3. traces'[Len(traces) + 1].article = job[p].article
          BY <5>2 DEF NewTrace
        <5>4. QED
          BY <4>2, <5>2, <5>3 DEF Open
      <4>3. QED
        BY <2>2, <4>1, <4>2
    <3>3. CASE UNCHANGED traceOf
      BY <1>3, <3>3 DEF NamesOK
    <3>4. ASSUME NEW t \in DOMAIN traces', traces'[t].article = job[p].article,
                 traceOf' = [traceOf EXCEPT ![p][job[p].article] = t]
          PROVE  NameOK(p)'
      <4>1. \A a \in Keys : traceOf'[p][a] = IF a = job[p].article THEN t ELSE traceOf[p][a]
        BY <1>1, <3>1, <3>4
      <4>2. NameOK(p)
        BY DEF BasicInv, NamesOK
      <4>3. QED
        BY <1>2, <3>4, <4>1, <4>2 DEF NameOK
    <3>5. QED
      BY <2>1, <3>2, <3>3, <3>4 DEF NamesOK
  <2>3. CASE Stop(p)
    <3>1. \A a \in Keys : traceOf'[p][a] = NoTrace
      BY <1>1, <2>3 DEF Stop
    <3>2. NameOK(p)'
      BY <3>1 DEF NameOK
    <3>3. QED
      BY <2>1, <3>2 DEF NamesOK
  <2>4. CASE UNCHANGED traceOf
    BY <1>3, <2>4 DEF NamesOK
  <2>5. QED
    BY <1>4, <2>2, <2>3, <2>4 DEF Step, Launch, Call, EnsureBudget, AuditRaw, OpenAdhoc,
       GuardCalls, Record, AnswerOk, AnswerFails, Finish, Exit, Derive, Close, Enter,
       OpsCall, Mark, Leave, Crash, local
<1>5. CASE Tick \/ UNCHANGED vars
  BY <1>3, <1>5 DEF Tick, vars, local, NamesOK
<1>6. QED
  BY <1>4, <1>5 DEF Next

\* Only closing changes a status, and only that of the trace it closes.
LEMMA StatusStep ==
  ASSUME BasicInv, NEW p \in Processes, Step(p), NEW t \in DOMAIN traces
  PROVE  \/ traces'[t].status = traces[t].status
         \/ Close(p) /\ t = job[p].trace
         \/ Leave(p) /\ t = Last(stack[p]).trace
<1>1. ShapesOK
  BY DEF BasicInv
<1>2. CASE Close(p)
  <2>1. job[p].trace \in DOMAIN traces /\ job[p].status \in Statuses
    BY <1>2, JobAt DEF Close, BasicInv, JobsOK, JobOK, Jobs
  <2>2. EndTrace(job[p].trace, job[p].status)
    BY <1>2 DEF Close
  <2>3. QED
    BY <1>1, <1>2, <2>1, <2>2, EndTraceRows
<1>3. CASE Leave(p)
  <2>1. Last(stack[p]).trace \in DOMAIN traces /\ Last(stack[p]) \in Blocks
    BY <1>3, TopOfStack DEF Leave
  <2>2. \E s \in Statuses : EndTrace(Last(stack[p]).trace, s)
    BY <1>3, <2>1 DEF Leave, Blocks, Closings, Statuses
  <2>3. QED
    BY <1>1, <1>3, <2>1, <2>2, EndTraceRows
<1>4. CASE Opens(p)
  BY <1>4, OpenedRow
<1>5. CASE UNCHANGED traces
  BY <1>5
<1>6. QED
  BY <1>2, <1>3, <1>4, <1>5 DEF Step, Opens, Launch, Call, LookUp, EnsureBudget, AuditRaw,
     GuardCalls, Record, AnswerOk, AnswerFails, Finish, Exit, Derive, OpsCall, Mark, Crash,
     tables

LEMMA OpensStep ==
  ASSUME BasicInv, NEW p \in Processes, Step(p)
  PROVE  \A q \in Processes : OpensOK(q)'
<1>1. opened \in [Processes -> SUBSET Nat]
  BY DEF BasicInv, ShapesOK
<1>2. \A t \in DOMAIN traces : t \in DOMAIN traces' /\ traces'[t].by = traces[t].by
  BY TablesStep DEF Next
<1>3. /\ \A q \in Processes : OpensOK(q)
      /\ \A q \in Processes : q # p => opened'[q] = opened[q]
  BY Others DEF BasicInv, OpenedOK
<1>4. CASE opened'[p] \subseteq opened[p] /\ ~Close(p)
  <2>1. ASSUME NEW q \in Processes, NEW t \in opened'[q]
        PROVE  /\ t \in DOMAIN traces'
               /\ traces'[t].by = "client" /\ traces'[t].status = "running"
               /\ \A r \in Processes \ {q} : t \notin opened'[r]
    <3>1. /\ t \in opened[q] /\ t \in DOMAIN traces
          /\ traces[t].by = "client" /\ traces[t].status = "running"
          /\ \A r \in Processes \ {q} : t \notin opened[r]
      BY <1>3, <1>4, <2>1 DEF OpensOK
    <3>2. ~(Leave(p) /\ t = Last(stack[p]).trace)
      BY <3>1, TopOfStack DEF Leave
    <3>3. traces'[t].status = "running"
      BY <1>4, <3>1, <3>2, StatusStep
    <3>4. \A r \in Processes \ {q} : t \notin opened'[r]
      BY <1>3, <1>4, <3>1
    <3>5. QED
      BY <1>2, <3>1, <3>3, <3>4
  <2>2. QED
    BY <2>1 DEF OpensOK
<1>5. CASE Close(p)
  <2>1. job[p].trace \in opened[p] /\ opened'[p] = opened[p] \ {job[p].trace}
    BY <1>1, <1>5 DEF Close, Remaining, BasicInv, OpenedOK, ClosingOK
  <2>2. ASSUME NEW q \in Processes, NEW t \in opened'[q]
        PROVE  /\ t \in DOMAIN traces'
               /\ traces'[t].by = "client" /\ traces'[t].status = "running"
               /\ \A r \in Processes \ {q} : t \notin opened'[r]
    <3>1. /\ t \in opened[q] /\ t \in DOMAIN traces
          /\ traces[t].by = "client" /\ traces[t].status = "running"
          /\ \A r \in Processes \ {q} : t \notin opened[r]
      BY <1>3, <2>1, <2>2 DEF OpensOK
    <3>2. t # job[p].trace
      BY <2>1, <2>2, <3>1
    <3>3. ~Leave(p)
      BY <1>5 DEF Close, Leave
    <3>4. traces'[t].status = "running"
      BY <3>1, <3>2, <3>3, StatusStep
    <3>5. \A r \in Processes \ {q} : t \notin opened'[r]
      BY <1>3, <2>1, <3>1
    <3>6. QED
      BY <1>2, <3>1, <3>4, <3>5
  <2>3. QED
    BY <2>2 DEF OpensOK
<1>6. CASE Open(p)
  <2> DEFINE n == Len(traces) + 1
  <2>1. PICK kept \in BOOLEAN, a \in Keys :
          /\ n \notin DOMAIN traces /\ n \in DOMAIN traces'
          /\ traces'[n] = NewTrace(a, "client", kept)
          /\ \A t \in DOMAIN traces : traces'[t] = traces[t]
    BY <1>6, OpenedRow DEF Opens
  <2>2. traces'[n].by = "client" /\ traces'[n].status = "running"
    BY <2>1 DEF NewTrace
  <2>3. opened'[p] = opened[p] \cup {n}
    BY <1>1, <1>6 DEF Open
  <2> HIDE DEF n
  <2>4. \A q \in Processes : n \notin opened[q]
    BY <1>3, <2>1 DEF OpensOK
  <2>5. ASSUME NEW q \in Processes, NEW t \in opened'[q]
        PROVE  /\ t \in DOMAIN traces'
               /\ traces'[t].by = "client" /\ traces'[t].status = "running"
               /\ \A r \in Processes \ {q} : t \notin opened'[r]
    <3>1. CASE t = n
      BY <1>3, <2>1, <2>2, <2>3, <2>4, <2>5, <3>1
    <3>2. CASE t # n
      <4>1. t \in opened[q]
        BY <1>3, <2>3, <2>5, <3>2
      <4>2. QED
        BY <1>2, <1>3, <2>1, <2>3, <3>2, <4>1 DEF OpensOK
    <3>3. QED
      BY <3>1, <3>2
  <2>6. QED
    BY <2>5 DEF OpensOK
<1>7. Open(p) \/ opened'[p] \subseteq opened[p]
  <2>1. CASE Stop(p)
    BY <1>1, <2>1 DEF Stop
  <2>2. CASE Close(p)
    BY <1>1, <2>2 DEF Close, Remaining
  <2>3. QED
    BY <2>1, <2>2 DEF Step, Launch, Call, LookUp, EnsureBudget,
     AuditRaw, OpenAdhoc, GuardCalls, Record, AnswerOk, AnswerFails, Finish, Exit, Derive,
     Enter, OpsCall, Mark, Leave, Crash, local
<1>8. QED
  BY <1>4, <1>5, <1>6, <1>7

LEMMA ClosingStep ==
  ASSUME BasicInv, NEW p \in Processes, Step(p)
  PROVE  \A q \in Processes : ClosingOK(q)'
<1>1. /\ pc \in [Processes -> PCs] /\ job \in [Processes -> Jobs \cup {NoJob}]
      /\ traceOf \in [Processes -> [Keys -> Nat]]
  BY DEF BasicInv, ShapesOK
<1>2. \A q \in Processes : ClosingOK(q)
  BY DEF BasicInv, OpenedOK
<1>3. ASSUME NEW q \in Processes, q # p PROVE ClosingOK(q)'
  BY <1>2, <1>3, Others DEF BasicInv, ClosingOK
<1>4. \A l : Done(p, l) => pc'[p] = l
  BY <1>1 DEF Done, Goto
<1>5. \A l : Goto(p, l) => pc'[p] = l
  BY <1>1 DEF Goto
<1>6. CASE Finish(p)
  <2>1. PICK a \in Keys, status \in {"running", "failed"} :
          /\ traceOf[p][a] \in opened[p]
          /\ job' = [job EXCEPT ![p] = [NewJob(a, traceOf[p][a], FALSE, 0)
                                          EXCEPT !.status = status]]
          /\ Goto(p, IF status = "running" THEN "derive" ELSE "close")
    BY <1>6 DEF Finish
  <2>2. job'[p].trace = traceOf[p][a] /\ job'[p].status = status
    BY <1>1, <2>1 DEF NewJob
  <2>3. pc'[p] = IF status = "running" THEN "derive" ELSE "close"
    BY <1>5, <2>1
  <2>4. opened'[p] = opened[p]
    BY <1>6 DEF Finish
  <2>5. QED
    BY <1>3, <2>1, <2>2, <2>3, <2>4 DEF ClosingOK
<1>7. CASE Exit(p)
  <2>1. ASSUME Stop(p) PROVE ClosingOK(p)'
    BY <1>4, <2>1 DEF Stop, ClosingOK
  <2>2. ASSUME NEW t \in opened[p], Goto(p, "derive"), UNCHANGED opened,
               job' = [job EXCEPT ![p] = NewJob(traces[t].article, t, TRUE, 0)]
        PROVE  ClosingOK(p)'
    <3>1. job'[p].trace = t
      BY <1>1, <2>2 DEF NewJob
    <3>2. pc'[p] = "derive"
      BY <1>5, <2>2
    <3>3. QED
      BY <2>2, <3>1, <3>2 DEF ClosingOK
  <2>3. QED
    BY <1>3, <1>7, <2>1, <2>2 DEF Exit
<1>8. CASE Derive(p)
  <2>1. job[p] \in Jobs /\ job[p].trace \in opened[p] /\ pc'[p] = "close"
    BY <1>2, <1>5, <1>8, JobAt DEF Derive, ClosingOK
  <2>2. PICK s \in {"success", "partial"} : job' = [job EXCEPT ![p].status = s]
    BY <1>8 DEF Derive, Derived
  <2>3. job'[p].trace = job[p].trace /\ job'[p].status = s
    BY <1>1, <2>1, <2>2 DEF Jobs
  <2>4. UNCHANGED opened
    BY <1>8 DEF Derive
  <2>5. QED
    BY <1>3, <2>1, <2>2, <2>3, <2>4 DEF ClosingOK
<1>9. CASE ~Finish(p) /\ ~Exit(p) /\ ~Derive(p)
  <2>1. CASE Enter(p) \/ Mark(p) \/ Leave(p)
    <3>1. pc[p] = "idle" /\ UNCHANGED pc
      BY <2>1 DEF Enter, Mark, Leave
    <3>2. QED
      BY <1>3, <3>1 DEF ClosingOK
  <2>2. CASE ~Enter(p) /\ ~Mark(p) /\ ~Leave(p)
    <3>1. pc'[p] \in {"down", "idle", "exit", "lookup", "open", "adhoc", "budget", "audit",
                      "guard", "record", "answer"}
      BY <1>4, <1>5, <1>9, <2>2 DEF Step, Launch, Call, LookUp, Open, EnsureBudget, AuditRaw,
         OpenAdhoc, GuardCalls, Record, AnswerOk, AnswerFails, Close, OpsCall, Crash, Stop
    <3>2. QED
      BY <1>3, <3>1 DEF ClosingOK
  <2>3. QED
    BY <2>1, <2>2
<1>10. QED
  BY <1>6, <1>7, <1>8, <1>9

LEMMA OpenedStep ==
  ASSUME BasicInv, [Next]_vars
  PROVE  OpenedOK'
<1>1. ASSUME NEW p \in Processes, Step(p) PROVE OpenedOK'
  BY <1>1, OpensStep, ClosingStep DEF OpenedOK
<1>2. CASE Tick \/ UNCHANGED vars
  <2>1. UNCHANGED <<pc, job, opened, traces>>
    BY <1>2 DEF Tick, vars, local, tables
  <2>2. QED
    BY <2>1 DEF BasicInv, OpenedOK, OpensOK, ClosingOK
<1>3. QED
  BY <1>1, <1>2 DEF Next

LEMMA StackStep ==
  ASSUME BasicInv, [Next]_vars
  PROVE  StackOK'
<1>1. stack \in [Processes -> Seq(Blocks)]
  BY DEF BasicInv, ShapesOK
<1>2. \A t \in DOMAIN traces :
        /\ t \in DOMAIN traces' /\ traces'[t].by = traces[t].by
        /\ traces'[t].article = traces[t].article
  BY TablesStep
<1>3. ASSUME NEW p \in Processes, stack'[p] = stack[p] PROVE BlocksOK(p)'
  BY <1>2, <1>3 DEF BasicInv, StackOK, BlocksOK
<1>4. CASE Tick \/ UNCHANGED vars
  BY <1>3, <1>4 DEF Tick, vars, local, StackOK
<1>5. ASSUME NEW p \in Processes, Step(p) PROVE StackOK'
  <2>1. ASSUME NEW q \in Processes, q # p PROVE BlocksOK(q)'
    BY <1>3, <1>5, <2>1, Others DEF BasicInv
  <2>2. BlocksOK(p) /\ stack[p] \in Seq(Blocks) /\ DOMAIN stack[p] = 1..Len(stack[p])
        /\ Len(stack[p]) \in Nat
    BY <1>1, LenProperties DEF BasicInv, StackOK
  <2>3. CASE UNCHANGED stack
    BY <1>3, <2>3 DEF StackOK
  <2>4. CASE Stop(p)
    <3>1. stack'[p] = <<>>
      BY <1>1, <2>4 DEF Stop
    <3>2. DOMAIN stack'[p] = {}
      BY <3>1
    <3>3. BlocksOK(p)'
      BY <3>2 DEF BlocksOK
    <3>4. QED
      BY <2>1, <3>3 DEF StackOK
  <2>5. CASE Enter(p)
    <3> DEFINE n == Len(traces) + 1
               b == [trace |-> n, status |-> "success"]
    <3>1. PICK kept \in BOOLEAN :
            n \in DOMAIN traces' /\ \E a \in Keys : traces'[n] = NewTrace(a, "with", kept)
      BY <2>5, OpenedRow DEF Opens
    <3>2. traces'[n].by = "with"
      BY <3>1 DEF NewTrace
    <3>3. stack'[p] = Append(stack[p], b)
      BY <1>1, <2>5 DEF Enter
    <3>4. b \in Blocks /\ b.trace = n
      BY Rows DEF Blocks, Closings, BasicInv
    <3> HIDE DEF b, n
    <3>5. /\ DOMAIN stack'[p] = 1..(Len(stack[p]) + 1)
          /\ \A i \in 1..Len(stack[p]) : stack'[p][i] = stack[p][i]
          /\ stack'[p][Len(stack[p]) + 1] = b
      BY <2>2, <3>3, <3>4, AppendProperties, LenProperties
    <3>6. ASSUME NEW i \in DOMAIN stack'[p]
          PROVE  LET t == stack'[p][i].trace
                 IN  t \in DOMAIN traces' /\ traces'[t].by = "with"
      <4>1. i = Len(stack[p]) + 1 \/ i \in DOMAIN stack[p]
        BY <2>2, <3>5, <3>6
      <4>2. CASE i = Len(stack[p]) + 1
        BY <3>1, <3>2, <3>4, <3>5, <4>2
      <4>3. CASE i \in DOMAIN stack[p]
        BY <1>2, <2>2, <3>5, <4>3 DEF BlocksOK
      <4>4. QED
        BY <4>1, <4>2, <4>3
    <3>7. QED
      BY <2>1, <3>6 DEF StackOK, BlocksOK
  <2>6. CASE Mark(p)
    <3>1. PICK x \in {"failed", "partial"} :
            stack[p] # <<>> /\ stack' = [stack EXCEPT ![p][Len(stack[p])].status = x]
      BY <2>6 DEF Mark
    <3>2. stack'[p] = [stack[p] EXCEPT ![Len(stack[p])] = [@ EXCEPT !.status = x]]
      BY <1>1, <3>1
    <3>3. stack[p][Len(stack[p])] \in Blocks
      BY <3>1, TopOfStack
    <3>4. /\ DOMAIN stack'[p] = DOMAIN stack[p]
          /\ \A i \in DOMAIN stack[p] : stack'[p][i].trace = stack[p][i].trace
      BY <3>2, <3>3 DEF Blocks
    <3>5. BlocksOK(p)'
      BY <1>2, <2>2, <3>4 DEF BlocksOK
    <3>6. QED
      BY <2>1, <3>5 DEF StackOK
  <2>7. CASE Leave(p)
    <3>1. stack'[p] = Front(stack[p]) /\ stack[p] # <<>>
      BY <1>1, <2>7 DEF Leave
    <3>2. /\ DOMAIN stack'[p] \subseteq DOMAIN stack[p]
          /\ \A i \in DOMAIN stack'[p] : stack'[p][i] = stack[p][i]
      <4>1. /\ Front(stack[p]) \in Seq(Blocks) /\ Len(Front(stack[p])) = Len(stack[p]) - 1
            /\ \A i \in 1..(Len(stack[p]) - 1) : Front(stack[p])[i] = stack[p][i]
        BY <2>2, <3>1, FrontType
      <4>2. DOMAIN Front(stack[p]) = 1..(Len(stack[p]) - 1)
        BY <4>1, LenProperties
      <4>3. \A i \in 1..(Len(stack[p]) - 1) : i \in DOMAIN stack[p]
        BY <2>2
      <4>4. QED
        BY <3>1, <4>1, <4>2, <4>3
    <3>3. BlocksOK(p)'
      BY <1>2, <2>2, <3>2 DEF BlocksOK
    <3>4. QED
      BY <2>1, <3>3 DEF StackOK
  <2>8. QED
    BY <1>5, <2>3, <2>4, <2>5, <2>6, <2>7 DEF Step, Launch, Call, LookUp, EnsureBudget,
       AuditRaw, Open, OpenAdhoc, GuardCalls, Record, AnswerOk, AnswerFails, Finish, Exit,
       Derive, Close, OpsCall, Crash, local
<1>6. QED
  BY <1>4, <1>5 DEF Next

\* Nobody but who makes a call starts to wait for an answer.
LEMMA NotAnswering ==
  ASSUME BasicInv, NEW p \in Processes, Step(p), ~Record(p)
  PROVE  pc'[p] # "answer"
<1>1. pc \in [Processes -> PCs]
  BY DEF BasicInv, ShapesOK
<1>2. \A l : Goto(p, l) \/ Done(p, l) => pc'[p] = l
  BY <1>1 DEF Goto, Done
<1>3. CASE Enter(p) \/ Mark(p) \/ Leave(p)
  BY <1>3 DEF Enter, Mark, Leave
<1>4. CASE ~Enter(p) /\ ~Mark(p) /\ ~Leave(p)
  BY <1>2, <1>4 DEF Step, Launch, Call, LookUp, Open, EnsureBudget, AuditRaw,
     OpenAdhoc, GuardCalls, AnswerOk, AnswerFails, Finish, Exit, Derive, Close, OpsCall,
     Crash, Stop
<1>5. QED
  BY <1>3, <1>4

LEMMA AnsweringShrinks ==
  ASSUME BasicInv, NEW p \in Processes, Step(p), ~Record(p), NEW t
  PROVE  Answering(pc', job', t) \subseteq Answering(pc, job, t)
<1>1. \A q \in Processes : q # p => pc'[q] = pc[q] /\ job'[q] = job[q]
  BY Others DEF BasicInv
<1>2. QED
  BY <1>1, NotAnswering DEF Answering

LEMMA AnsweringFinite ==
  ASSUME NEW l, NEW j, NEW t
  PROVE  IsFiniteSet(Answering(l, j, t)) /\ Cardinality(Answering(l, j, t)) \in Nat
<1>1. IsFiniteSet(Processes) /\ Answering(l, j, t) \subseteq Processes
  BY SdkTracesAssumption DEF Answering
<1>2. QED
  BY <1>1, FS_Subset, FS_CardinalityType

LEMMA CountsStep ==
  ASSUME BasicInv, [Next]_vars
  PROVE  CountsOK'
<1>1. ShapesOK /\ CountsOK
  BY DEF BasicInv
<1>2. /\ DOMAIN spans = DOMAIN traces
      /\ \A t \in DOMAIN traces : /\ spans[t] \in SpanCounts
                                  /\ spans[t].ok \in Nat /\ spans[t].total \in Nat
  BY <1>1, Rows DEF SpanCounts
<1>3. /\ \A t : IsFiniteSet(Answering(pc, job, t)) /\ Cardinality(Answering(pc, job, t)) \in Nat
      /\ \A t \in DOMAIN traces : spans[t].ok + Cardinality(Answering(pc, job, t)) <= spans[t].total
  BY <1>1, <1>2, AnsweringFinite DEF CountsOK
<1>4. CASE Tick \/ UNCHANGED vars
  <2>1. UNCHANGED <<pc, job, spans>>
    BY <1>4 DEF Tick, vars, local, tables
  <2>2. QED
    BY <1>1, <2>1 DEF CountsOK, Answering
<1>5. ASSUME NEW p \in Processes, Step(p), ~Record(p), NEW t \in DOMAIN traces
      PROVE  /\ IsFiniteSet(Answering(pc', job', t)) /\ Cardinality(Answering(pc', job', t)) \in Nat
             /\ Cardinality(Answering(pc', job', t)) <= Cardinality(Answering(pc, job, t))
  BY <1>3, <1>5, AnsweringShrinks, FS_Subset, FS_CardinalityType
<1>6. ASSUME NEW p \in Processes, Step(p), ~Record(p), ~AnswerOk(p) PROVE CountsOK'
  <2>1. CASE UNCHANGED spans
    BY <1>2, <1>3, <1>5, <1>6, <2>1 DEF CountsOK
  <2>2. CASE Opens(p)
    <3> DEFINE n == Len(traces) + 1
    <3>1. /\ n \notin DOMAIN traces /\ DOMAIN spans' = DOMAIN traces \cup {n}
          /\ spans'[n].total = 0 /\ spans'[n].ok = 0
          /\ \A t \in DOMAIN traces : spans'[t] = spans[t]
      <4>1. /\ n \notin DOMAIN traces
            /\ DOMAIN traces' = DOMAIN traces \cup {n} /\ DOMAIN spans' = DOMAIN traces'
            /\ \A t \in DOMAIN traces : spans'[t] = spans[t]
            /\ spans'[n] = NoSpans
        BY <2>2, OpenedRow
      <4>2. QED
        BY <4>1 DEF NoSpans
    <3> HIDE DEF n
    <3>2. Answering(pc, job, n) = {}
      <4>1. ASSUME NEW q \in Processes, pc[q] = "answer", job[q].trace = n PROVE FALSE
        BY <3>1, <4>1, JobAt DEF BasicInv, JobsOK, JobOK
      <4>2. QED
        BY <4>1 DEF Answering
    <3>3. Answering(pc', job', n) = {}
      BY <1>6, <3>2, AnsweringShrinks
    <3>4. Cardinality(Answering(pc', job', n)) = 0
      BY <3>3, FS_EmptySet
    <3>5. ASSUME NEW t \in DOMAIN spans'
          PROVE  spans'[t].ok + Cardinality(Answering(pc', job', t)) <= spans'[t].total
      BY <1>2, <1>3, <1>5, <1>6, <3>1, <3>4, <3>5
    <3>6. QED
      BY <3>5 DEF CountsOK
  <2>3. QED
    BY <1>6, <2>1, <2>2 DEF Step, Opens, Launch, Call, LookUp, EnsureBudget,
       AuditRaw, GuardCalls, AnswerFails, Finish, Exit, Derive, Close, OpsCall, Mark, Leave,
       Crash, tables
<1>7. ASSUME NEW p \in Processes, AnswerOk(p) PROVE CountsOK'
  <2> DEFINE t == job[p].trace
  <2>1. pc[p] = "answer" /\ t \in DOMAIN traces
    BY <1>7, JobAt DEF AnswerOk, BasicInv, JobsOK, JobOK
  <2>2. Step(p) /\ ~Record(p)
    BY <1>7 DEF Step, AnswerOk, Record
  <2>3. CASE ~job[p].stored
    <3>1. UNCHANGED spans
      BY <1>7, <2>3 DEF AnswerOk
    <3>2. QED
      BY <1>2, <1>3, <1>5, <2>2, <3>1 DEF CountsOK
  <2>4. CASE job[p].stored
    <3>1. spans' = [spans EXCEPT ![t] = [spans[t] EXCEPT !.ok = @ + 1]]
      BY <1>7, <2>4 DEF AnswerOk
    <3>2. pc' = [pc EXCEPT ![p] = "idle"]
      BY <1>7 DEF AnswerOk, Done, Goto
    <3>3. p \in Answering(pc, job, t) /\ p \notin Answering(pc', job', t)
      BY <1>1, <2>1, <2>4, <3>2 DEF Answering, ShapesOK
    <3> HIDE DEF t
    <3>4. [spans[t] EXCEPT !.ok = @ + 1] \in SpanCounts
      BY <1>2, <2>1 DEF SpanCounts
    <3>5. /\ DOMAIN spans' = DOMAIN spans
          /\ \A u \in DOMAIN spans :
               spans'[u] = IF u = t THEN [spans[t] EXCEPT !.ok = @ + 1] ELSE spans[u]
      BY <1>1, <2>1, <3>1, <3>4, CountRows
    <3>6. Cardinality(Answering(pc', job', t)) <= Cardinality(Answering(pc, job, t)) - 1
      <4>1. Answering(pc', job', t) \subseteq Answering(pc, job, t) \ {p}
        BY <2>2, <3>3, AnsweringShrinks
      <4>2. IsFiniteSet(Answering(pc, job, t) \ {p})
            /\ Cardinality(Answering(pc, job, t) \ {p}) = Cardinality(Answering(pc, job, t)) - 1
        BY <1>3, <3>3, FS_RemoveElement
      <4>3. QED
        BY <4>1, <4>2, FS_Subset
    <3>7. spans'[t].ok = spans[t].ok + 1 /\ spans'[t].total = spans[t].total
      BY <1>2, <2>1, <3>5 DEF SpanCounts
    <3>8. spans'[t].ok + Cardinality(Answering(pc', job', t)) <= spans'[t].total
      BY <1>2, <1>3, <1>5, <2>1, <2>2, <3>6, <3>7
    <3>9. ASSUME NEW u \in DOMAIN spans, u # t
          PROVE  spans'[u].ok + Cardinality(Answering(pc', job', u)) <= spans'[u].total
      BY <1>2, <1>3, <1>5, <2>2, <3>5, <3>9
    <3>10. QED
      BY <3>5, <3>8, <3>9 DEF CountsOK
  <2>5. QED
    BY <2>3, <2>4
<1>8. ASSUME NEW p \in Processes, Record(p) PROVE CountsOK'
  <2> DEFINE t == job[p].trace
  <2>1. /\ pc[p] = "record" /\ t \in DOMAIN traces /\ job[p] \in Jobs
        /\ pc' = [pc EXCEPT ![p] = "answer"]
    BY <1>8, JobAt DEF Record, Goto, BasicInv, JobsOK, JobOK
  <2>2. PICK stored \in BOOLEAN :
          /\ spans' = IF stored THEN [spans EXCEPT ![t] = Counted(spans[t], job[p].article)]
                      ELSE spans
          /\ job' = [job EXCEPT ![p].stored = stored, ![p].left = @ - 1]
    BY <1>8 DEF Record
  <2>3. job'[p].stored = stored /\ job'[p].trace = t /\ pc'[p] = "answer"
    BY <1>1, <2>1, <2>2 DEF ShapesOK, Jobs
  <2>4. \A q \in Processes : q # p => pc'[q] = pc[q] /\ job'[q] = job[q]
    BY <1>1, <2>1, <2>2 DEF ShapesOK
  <2> HIDE DEF t
  <2>5. /\ \A u : u # t => Answering(pc', job', u) = Answering(pc, job, u)
        /\ ~stored => Answering(pc', job', t) = Answering(pc, job, t)
        /\ stored => /\ Answering(pc', job', t) = Answering(pc, job, t) \cup {p}
                     /\ p \notin Answering(pc, job, t)
    BY <2>1, <2>3, <2>4 DEF Answering
  <2>6. CASE ~stored
    <3>1. \A u : Answering(pc', job', u) = Answering(pc, job, u)
      BY <2>5, <2>6
    <3>2. QED
      BY <1>2, <1>3, <2>2, <2>6, <3>1 DEF CountsOK
  <2>7. CASE stored
    <3> DEFINE c == Counted(spans[t], job[p].article)
    <3> HIDE DEF c
    <3>1. spans' = [spans EXCEPT ![t] = c]
      BY <2>2, <2>7 DEF c
    <3>2. c \in SpanCounts
      BY <1>2, <2>1, CountedIs DEF c
    <3>3. /\ DOMAIN spans' = DOMAIN spans
          /\ \A u \in DOMAIN spans :
               spans'[u] = IF u = t THEN c ELSE spans[u]
      BY <1>1, <2>1, <3>1, <3>2, CountRows
    <3>4. Cardinality(Answering(pc', job', t)) = Cardinality(Answering(pc, job, t)) + 1
      BY <1>3, <2>5, <2>7, FS_AddElement
    <3>5. spans'[t].ok = spans[t].ok /\ spans'[t].total = spans[t].total + 1
      BY <1>2, <2>1, <3>3, CountedIs DEF c
    <3>6. spans'[t].ok + Cardinality(Answering(pc', job', t)) <= spans'[t].total
      BY <1>2, <1>3, <2>1, <3>4, <3>5
    <3>7. ASSUME NEW u \in DOMAIN spans, u # t
          PROVE  spans'[u].ok + Cardinality(Answering(pc', job', u)) <= spans'[u].total
      BY <1>2, <1>3, <2>5, <3>3, <3>7
    <3>8. QED
      BY <3>3, <3>6, <3>7 DEF CountsOK
  <2>8. QED
    BY <2>6, <2>7
<1>9. QED
  BY <1>4, <1>6, <1>7, <1>8 DEF Next

LEMMA BasicInitially ==
  ASSUME Init
  PROVE  BasicInv
<1>1. bounds \in Bounds
  BY SdkTracesAssumption DEF Init
<1>2. ShapesOK
  <2>1. <<>> \in Seq(TraceRows) /\ <<>> \in Seq(SpanCounts) /\ <<>> \in Seq(Blocks)
    BY EmptySeq
  <2>2. QED
    BY <1>1, <2>1 DEF Init, ShapesOK, PCs, NoTrace
<1>3. DOMAIN traces = {} /\ DOMAIN spans = {}
  BY DEF Init
<1>4. JobsOK /\ OpenedOK
  BY DEF Init, JobsOK, JobOK, OpenedOK, OpensOK, ClosingOK, Calling
<1>5. NamesOK
  BY DEF Init, NamesOK, NameOK
<1>6. StackOK
  <2>1. \A p \in Processes : DOMAIN stack[p] = {}
    BY DEF Init
  <2>2. QED
    BY <2>1 DEF StackOK, BlocksOK
<1>7. CountsOK
  BY <1>3 DEF CountsOK
<1>8. QED
  BY <1>2, <1>4, <1>5, <1>6, <1>7 DEF BasicInv

\* The invariant behind the others holds of every run.
THEOREM SdkTracesBasics == Spec => []BasicInv
<1>1. BasicInv /\ [Next]_vars => BasicInv'
  BY ShapesStep, JobsStep, NamesStep, OpenedStep, StackStep, CountsStep DEF BasicInv
<1>2. QED
  BY BasicInitially, <1>1, PTL DEF Spec

\* A process that names a trace names one it found or opened for that very
\* article, whatever other processes, closings and deaths come between, and a
\* trace never has more successes than spans (compat.py _trace_id, end_span).
THEOREM SdkTracesType == Spec => []TypeOK
<1>1. BasicInv => TypeOK
  <2> SUFFICES ASSUME BasicInv PROVE TypeOK
    OBVIOUS
  <2>1. ShapesOK /\ NamesOK /\ OpenedOK /\ CountsOK
    BY DEF BasicInv
  <2>2. \A t \in DOMAIN spans : spans[t].ok <= spans[t].total
    <3> SUFFICES ASSUME NEW t \in DOMAIN spans PROVE spans[t].ok <= spans[t].total
      OBVIOUS
    <3>1. spans[t].ok \in Nat /\ spans[t].total \in Nat
      BY <2>1, Rows DEF SpanCounts
    <3>2. QED
      BY <2>1, <3>1, AnsweringFinite DEF CountsOK
  <2>3. QED
    BY <2>1, <2>2 DEF TypeOK, ShapesOK, NamesOK, NameOK, OpenedOK, OpensOK
<1>2. QED
  BY <1>1, SdkTracesBasics, PTL

-----------------------------------------------------------------------------
(* What is running is held *)

\* The traces that are closed by whoever opened `o` and is in the blocks `s`.
Holding(o, s) == o \cup {s[i].trace : i \in DOMAIN s}

\* Only opening a trace makes a row.
LEMMA RowsFromOpens ==
  ASSUME BasicInv, NEW p \in Processes, Step(p), DOMAIN traces' # DOMAIN traces
  PROVE  Opens(p)
<1>1. CASE Closes(p)
  <2>1. PICK t \in DOMAIN traces, s \in Statuses : EndTrace(t, s)
    BY <1>1, ClosesRow
  <2>2. DOMAIN traces' = DOMAIN traces
    BY <2>1, EndTraceRows DEF BasicInv
  <2>3. QED
    BY <2>2
<1>2. CASE UNCHANGED traces
  BY <1>2
<1>3. QED
  BY <1>1, <1>2 DEF Step, Opens, Closes, Launch, Call, LookUp, EnsureBudget, AuditRaw,
     GuardCalls, Record, AnswerOk, AnswerFails, Finish, Exit, Derive, OpsCall, Mark, Crash,
     tables

\* How a trace ends: with a status, unless that was lost.
LEMMA Ended ==
  ASSUME BasicInv, NEW p \in Processes, NEW t,
         (Close(p) /\ t = job[p].trace) \/ (Leave(p) /\ t = Last(stack[p]).trace)
  PROVE  /\ t \in DOMAIN traces
         /\ traces[t].kept => traces'[t].status # "running" \/ t \in abandoned'
<1>1. traces \in Seq(TraceRows) /\ ShapesOK
  BY DEF BasicInv, ShapesOK
<1>2. t \in DOMAIN traces /\ \E s \in Closings : EndTrace(t, s)
  <2>1. CASE Close(p) /\ t = job[p].trace
    <3>1. job[p] \in Jobs /\ t \in DOMAIN traces /\ job[p].status # "running"
      BY <2>1, JobAt DEF Close, BasicInv, JobsOK, JobOK, OpenedOK, ClosingOK
    <3>2. QED
      BY <2>1, <3>1 DEF Close, Jobs, Statuses, Closings
  <2>2. CASE Leave(p) /\ t = Last(stack[p]).trace
    <3>1. t \in DOMAIN traces /\ Last(stack[p]) \in Blocks
      BY <2>2, TopOfStack DEF Leave
    <3>2. QED
      BY <2>2, <3>1 DEF Leave, Blocks, Closings
  <2>3. QED
    BY <2>1, <2>2
<1>3. PICK s \in Closings : EndTrace(t, s)
  BY <1>2
<1>4. traces[t] \in TraceRows
  BY <1>1, <1>2, Rows
<1>5. CASE traces' = IF traces[t].kept THEN [traces EXCEPT ![t].status = s] ELSE traces
  BY <1>2, <1>4, <1>5 DEF TraceRows, Closings
<1>6. CASE abandoned' = abandoned \cup {t}
  BY <1>2, <1>6
<1>7. QED
  BY <1>3, <1>2, <1>5, <1>6 DEF EndTrace

\* What a process holds it goes on to hold, unless it ends it, or dies.
LEMMA HoldsOn ==
  ASSUME BasicInv, NEW p \in Processes, Step(p), NEW t \in Holding(opened[p], stack[p])
  PROVE  \/ t \in Holding(opened'[p], stack'[p])
         \/ t \in abandoned'
         \/ Close(p) /\ t = job[p].trace
         \/ Leave(p) /\ t = Last(stack[p]).trace
<1>1. /\ opened \in [Processes -> SUBSET Nat] /\ stack \in [Processes -> Seq(Blocks)]
      /\ stack[p] \in Seq(Blocks)
      /\ DOMAIN stack[p] = 1..Len(stack[p]) /\ Len(stack[p]) \in Nat
  BY LenProperties DEF BasicInv, ShapesOK
<1>2. CASE UNCHANGED <<opened, stack>>
  BY <1>2
<1>3. CASE Open(p)
  BY <1>1, <1>3 DEF Open, Holding
<1>4. CASE Close(p)
  BY <1>1, <1>4 DEF Close, Remaining, Holding
<1>5. CASE Exit(p) /\ opened[p] = {}
  <2>1. DOMAIN stack[p] = {}
    BY <1>5 DEF Exit
  <2>2. QED
    BY <1>5, <2>1 DEF Holding
<1>6. CASE Crash(p)
  BY <1>6 DEF Crash, Held, Holding
<1>7. CASE Enter(p)
  <2> DEFINE b == [trace |-> Len(traces) + 1, status |-> "success"]
  <2>1. stack'[p] = Append(stack[p], b) /\ opened'[p] = opened[p]
    BY <1>1, <1>7 DEF Enter
  <2>2. b \in Blocks
    BY Rows DEF Blocks, Closings, BasicInv
  <2> HIDE DEF b
  <2>3. /\ DOMAIN stack'[p] = 1..(Len(stack[p]) + 1)
        /\ \A i \in 1..Len(stack[p]) : stack'[p][i] = stack[p][i]
    BY <1>1, <2>1, <2>2, AppendProperties, LenProperties
  <2>4. \A i \in DOMAIN stack[p] : i \in DOMAIN stack'[p] /\ stack'[p][i] = stack[p][i]
    BY <1>1, <2>3
  <2>5. QED
    BY <2>1, <2>4 DEF Holding
<1>8. CASE Mark(p)
  <2>1. PICK x \in {"failed", "partial"} :
          stack[p] # <<>> /\ stack' = [stack EXCEPT ![p][Len(stack[p])].status = x]
    BY <1>8 DEF Mark
  <2>2. stack'[p] = [stack[p] EXCEPT ![Len(stack[p])] = [@ EXCEPT !.status = x]]
    BY <1>1, <2>1
  <2>3. stack[p][Len(stack[p])] \in Blocks
    BY <2>1, TopOfStack
  <2>4. \A i \in DOMAIN stack[p] : i \in DOMAIN stack'[p] /\ stack'[p][i].trace = stack[p][i].trace
    BY <2>2, <2>3 DEF Blocks
  <2>5. opened'[p] = opened[p]
    BY <1>8 DEF Mark
  <2>6. QED
    BY <2>4, <2>5 DEF Holding
<1>9. CASE Leave(p)
  <2>1. stack'[p] = Front(stack[p]) /\ stack[p] # <<>> /\ opened'[p] = opened[p]
    BY <1>1, <1>9 DEF Leave
  <2>2. /\ Front(stack[p]) \in Seq(Blocks) /\ Len(Front(stack[p])) = Len(stack[p]) - 1
        /\ \A i \in 1..(Len(stack[p]) - 1) : Front(stack[p])[i] = stack[p][i]
    BY <1>1, <2>1, FrontType
  <2>3. DOMAIN Front(stack[p]) = 1..(Len(stack[p]) - 1)
    BY <2>2, LenProperties
  <2>4. Last(stack[p]) = stack[p][Len(stack[p])]
    BY <2>1, TopOfStack
  <2>5. \A i \in DOMAIN stack[p] :
          \/ i = Len(stack[p])
          \/ i \in DOMAIN stack'[p] /\ stack'[p][i] = stack[p][i]
    BY <1>1, <2>1, <2>2, <2>3
  <2>6. QED
    BY <1>9, <2>1, <2>4, <2>5 DEF Holding
<1>10. QED
  BY <1>2, <1>3, <1>4, <1>5, <1>6, <1>7, <1>8, <1>9 DEF Step, Launch, Call, LookUp,
     EnsureBudget, AuditRaw, OpenAdhoc, GuardCalls, Record, AnswerOk, AnswerFails, Finish,
     Exit, Derive, OpsCall, Stop, local

LEMMA HeldStep ==
  ASSUME BasicInv, RunningIsHeld, [Next]_vars
  PROVE  RunningIsHeld'
<1>1. \A q \in Processes : Held(q) = Holding(opened[q], stack[q])
  BY DEF Held, Holding
<1>2. SUFFICES ASSUME NEW t \in DOMAIN traces', traces'[t].kept,
                      traces'[t].status = "running", traces'[t].by # "adhoc"
               PROVE  t \in abandoned' \/ \E q \in Processes : t \in Holding(opened'[q], stack'[q])
  BY DEF RunningIsHeld, Held, Holding
<1>3. CASE Tick \/ UNCHANGED vars
  <2>1. UNCHANGED <<traces, opened, stack, abandoned>>
    BY <1>3 DEF Tick, vars, local, tables, history
  <2>2. QED
    BY <1>1, <1>2, <2>1 DEF RunningIsHeld
<1>4. ASSUME NEW p \in Processes, Step(p)
      PROVE  t \in abandoned' \/ \E q \in Processes : t \in Holding(opened'[q], stack'[q])
  <2>1. abandoned \subseteq abandoned'
    BY <1>4 DEF Step, Launch, Call, LookUp, Open, EnsureBudget, AuditRaw, OpenAdhoc,
       GuardCalls, Record, AnswerOk, AnswerFails, Finish, Exit, Derive, Close, Enter,
       OpsCall, Mark, Leave, Crash, EndTrace, history
  <2>2. CASE t \in DOMAIN traces
    <3>1. traces[t].kept /\ traces[t].by # "adhoc"
      BY <1>2, <1>4, <2>2, TablesStep DEF Next
    <3>2. CASE (Close(p) /\ t = job[p].trace) \/ (Leave(p) /\ t = Last(stack[p]).trace)
      BY <1>2, <3>1, <3>2, Ended
    <3>3. CASE ~((Close(p) /\ t = job[p].trace) \/ (Leave(p) /\ t = Last(stack[p]).trace))
      <4>1. traces[t].status = "running"
        BY <1>2, <1>4, <2>2, <3>3, StatusStep
      <4>2. CASE t \in abandoned
        BY <2>1, <4>2
      <4>3. ASSUME NEW q \in Processes, t \in Holding(opened[q], stack[q])
            PROVE  t \in abandoned' \/ \E r \in Processes : t \in Holding(opened'[r], stack'[r])
        <5>1. CASE q = p
          BY <1>4, <3>3, <4>3, <5>1, HoldsOn
        <5>2. CASE q # p
          BY <1>4, <4>3, <5>2, Others DEF BasicInv
        <5>3. QED
          BY <5>1, <5>2
      <4>4. QED
        BY <1>1, <2>2, <3>1, <4>1, <4>2, <4>3 DEF RunningIsHeld
    <3>4. QED
      BY <3>2, <3>3
  <2>3. CASE t \notin DOMAIN traces
    <3> DEFINE n == Len(traces) + 1
    <3>1. Opens(p)
      BY <1>2, <1>4, <2>3, RowsFromOpens
    <3>2. PICK a \in Keys, by \in Kinds, kept \in BOOLEAN :
            /\ by = IF Open(p) THEN "client" ELSE IF Enter(p) THEN "with" ELSE "adhoc"
            /\ DOMAIN traces' = DOMAIN traces \cup {n}
            /\ traces'[n] = NewTrace(a, by, kept)
      BY <3>1, OpenedRow
    <3>3. t = n
      BY <1>2, <2>3, <3>2
    <3>4. traces'[n].by = by
      BY <3>2 DEF NewTrace
    <3>5. CASE Open(p)
      <4>1. n \in opened'[p]
        BY <3>5 DEF Open, BasicInv, ShapesOK
      <4>2. QED
        BY <3>3, <4>1 DEF Holding
    <3>6. CASE Enter(p)
      <4> DEFINE b == [trace |-> n, status |-> "success"]
      <4>1. stack'[p] = Append(stack[p], b) /\ stack[p] \in Seq(Blocks)
        BY <3>6 DEF Enter, BasicInv, ShapesOK
      <4>2. b \in Blocks /\ b.trace = n
        BY Rows DEF Blocks, Closings, BasicInv
      <4> HIDE DEF b
      <4>3. Len(stack[p]) + 1 \in DOMAIN stack'[p] /\ stack'[p][Len(stack[p]) + 1] = b
        <5>1. /\ stack'[p] \in Seq(Blocks) /\ Len(stack'[p]) = Len(stack[p]) + 1
              /\ stack'[p][Len(stack[p]) + 1] = b
          BY <4>1, <4>2, AppendProperties
        <5>2. Len(stack[p]) \in Nat /\ DOMAIN stack'[p] = 1..Len(stack'[p])
          BY <4>1, <5>1, LenProperties
        <5>3. QED
          BY <5>1, <5>2
      <4>4. QED
        BY <3>3, <4>2, <4>3 DEF Holding
    <3>7. QED
      BY <1>2, <3>2, <3>3, <3>4, <3>5, <3>6
  <2>4. QED
    BY <2>2, <2>3
<1>5. QED
  BY <1>3, <1>4 DEF Next

\* What is still 'running' will be closed by a living process, or its process
\* died, or its closing got lost, or nobody closes it: finish_open_traces and
\* __exit__ forget nothing.
THEOREM SdkTracesRunningIsHeld == Spec => []RunningIsHeld
<1>1. Init => RunningIsHeld
  <2>1. Init => DOMAIN traces = {}
    BY DEF Init
  <2>2. QED
    BY <2>1 DEF RunningIsHeld
<1>2. BasicInv /\ RunningIsHeld /\ [Next]_vars => RunningIsHeld'
  BY HeldStep
<1>3. QED
  BY <1>1, <1>2, SdkTracesBasics, PTL DEF Spec

-----------------------------------------------------------------------------
(* The derived status is the truth *)

\* What is excused stays excused.
LEMMA ExcusedGrows ==
  ASSUME [Next]_vars
  PROVE  excused \subseteq excused'
<1>1. CASE Tick \/ UNCHANGED vars
  BY <1>1 DEF Tick, vars, history
<1>2. ASSUME NEW p \in Processes, Step(p) PROVE excused \subseteq excused'
  <2>1. CASE Record(p)
    BY <2>1 DEF Record
  <2>2. CASE Finish(p)
    BY <2>2 DEF Finish
  <2>3. CASE Derive(p)
    BY <2>3 DEF Derive
  <2>4. CASE Launch(p) \/ LookUp(p) \/ Open(p) \/ EnsureBudget(p) \/ AuditRaw(p)
             \/ OpenAdhoc(p) \/ GuardCalls(p) \/ AnswerOk(p) \/ AnswerFails(p) \/ Exit(p)
             \/ Enter(p) \/ OpsCall(p) \/ Mark(p)
    BY <2>4 DEF Launch, LookUp, Open, EnsureBudget, AuditRaw, OpenAdhoc, GuardCalls,
       AnswerOk, AnswerFails, Exit, Enter, OpsCall, Mark, history
  <2>5. CASE Call(p) \/ Close(p) \/ Leave(p) \/ Crash(p)
    BY <2>5 DEF Call, Close, Leave, Crash
  <2>6. QED
    BY <1>2, <2>1, <2>2, <2>3, <2>4, <2>5 DEF Step
<1>3. QED
  BY <1>1, <1>2 DEF Next

\* Spans of a trace change only under who will close it, or who excuses it.
LEMMA SpansStep ==
  ASSUME BasicInv, CallsExcused, NEW p \in Processes, Step(p),
         NEW t \in DOMAIN traces, t \notin excused', spans'[t] # spans[t]
  PROVE  t \in opened[p] /\ t = job[p].trace /\ pc[p] \in {"record", "answer"}
<1>1. ShapesOK
  BY DEF BasicInv
<1>2. Counts(p)
  <2>1. CASE Opens(p)
    BY <2>1, OpenedRow
  <2>2. CASE UNCHANGED spans
    BY <2>2
  <2>3. QED
    BY <2>1, <2>2 DEF Step, Opens, Counts, Launch, Call, LookUp, EnsureBudget, AuditRaw,
       GuardCalls, AnswerFails, Finish, Exit, Derive, Close, OpsCall, Mark, Leave, Crash,
       tables
<1> DEFINE u == job[p].trace
<1>3. u \in DOMAIN traces /\ spans[u] \in SpanCounts /\ pc[p] \in {"record", "answer"}
  BY <1>1, <1>2, JobAt, Rows DEF Counts, Record, AnswerOk, BasicInv, JobsOK, JobOK
<1>4. \/ spans' = spans
      \/ spans' = [spans EXCEPT ![u] = Counted(spans[u], job[p].article)]
      \/ spans' = [spans EXCEPT ![u] = [spans[u] EXCEPT !.ok = @ + 1]]
  BY <1>2 DEF Counts, Record, AnswerOk
<1>5. t = u
  BY <1>1, <1>4, Rows
<1>6. CASE Record(p)
  BY <1>3, <1>5, <1>6 DEF Record
<1>7. CASE AnswerOk(p)
  <2>1. pc[p] = "answer" /\ u \notin excused
    BY <1>5, <1>7 DEF AnswerOk, history
  <2>2. QED
    BY <1>3, <1>5, <2>1 DEF CallsExcused
<1>8. QED
  BY <1>2, <1>6, <1>7 DEF Counts

LEMMA CallsExcusedStep ==
  ASSUME BasicInv, CallsExcused, [Next]_vars
  PROVE  CallsExcused'
<1>1. pc \in [Processes -> PCs] /\ job \in [Processes -> Jobs \cup {NoJob}]
  BY DEF BasicInv, ShapesOK
<1>2. excused \subseteq excused'
  BY ExcusedGrows
<1>3. ASSUME NEW q \in Processes, UNCHANGED <<pc[q], job[q], opened[q]>>
      PROVE  pc'[q] = "answer" /\ job'[q].trace \notin excused' => job'[q].trace \in opened'[q]
  BY <1>2, <1>3 DEF CallsExcused
<1>4. CASE Tick \/ UNCHANGED vars
  BY <1>3, <1>4 DEF Tick, vars, local, CallsExcused
<1>5. ASSUME NEW p \in Processes, Step(p) PROVE CallsExcused'
  <2>1. \A q \in Processes : q # p => UNCHANGED <<pc[q], job[q], opened[q]>>
    BY <1>5, Others DEF BasicInv
  <2>2. pc'[p] = "answer" /\ job'[p].trace \notin excused' => job'[p].trace \in opened'[p]
    <3>1. CASE Record(p)
      <4>1. job[p] \in Jobs
        BY <3>1, JobAt DEF Record
      <4>2. \E b \in BOOLEAN : job' = [job EXCEPT ![p].stored = b, ![p].left = @ - 1]
        BY <3>1 DEF Record
      <4>3. job'[p].trace = job[p].trace
        BY <1>1, <4>1, <4>2 DEF Jobs
      <4>4. QED
        BY <3>1, <4>3 DEF Record
    <3>2. CASE ~Record(p)
      <4>1. pc'[p] # "answer"
        BY <1>5, <3>2, NotAnswering
      <4>2. QED
        BY <4>1
    <3>3. QED
      BY <3>1, <3>2
  <2>3. QED
    BY <1>3, <2>1, <2>2 DEF CallsExcused
<1>6. QED
  BY <1>4, <1>5 DEF Next

\* Nobody else calls under the trace a process opened, or it is excused.
LEMMA OwnSpans ==
  ASSUME BasicInv, CallsExcused, NEW p \in Processes, Step(p), NEW q \in Processes, q # p,
         NEW t \in opened[q], t \notin excused'
  PROVE  spans'[t] = spans[t]
<1>1. t \in DOMAIN traces /\ t \notin opened[p]
  BY DEF BasicInv, OpenedOK, OpensOK
<1>2. QED
  BY <1>1, SpansStep

LEMMA StatusReadyStep ==
  ASSUME BasicInv, CallsExcused, StatusReady, [Next]_vars
  PROVE  StatusReady'
<1>1. /\ pc \in [Processes -> PCs] /\ job \in [Processes -> Jobs \cup {NoJob}]
      /\ traceOf \in [Processes -> [Keys -> Nat]]
  BY DEF BasicInv, ShapesOK
<1>2. excused \subseteq excused'
  BY ExcusedGrows
<1>3. CASE Tick \/ UNCHANGED vars
  <2>1. UNCHANGED <<pc, job, excused, spans>>
    BY <1>3 DEF Tick, vars, local, tables, history
  <2>2. QED
    BY <2>1 DEF StatusReady
<1>4. ASSUME NEW p \in Processes, Step(p) PROVE StatusReady'
  <2>1. ASSUME NEW q \in Processes, q # p, pc'[q] = "close", job'[q].trace \notin excused'
        PROVE  job'[q].status = StatusFrom(spans'[job'[q].trace])
    <3>1. pc[q] = "close" /\ job'[q] = job[q]
      BY <1>4, <2>1, Others DEF BasicInv
    <3>2. job[q].trace \in opened[q] /\ job[q].status = StatusFrom(spans[job[q].trace])
      BY <1>2, <2>1, <3>1 DEF BasicInv, OpenedOK, ClosingOK, StatusReady
    <3>3. spans'[job[q].trace] = spans[job[q].trace]
      BY <1>4, <2>1, <3>1, <3>2, OwnSpans
    <3>4. QED
      BY <3>1, <3>2, <3>3
  <2>2. ASSUME pc'[p] = "close", job'[p].trace \notin excused'
        PROVE  job'[p].status = StatusFrom(spans'[job'[p].trace])
    <3>1. CASE Derive(p)
      <4>1. job[p] \in Jobs
        BY <3>1, JobAt DEF Derive
      <4>2. CASE job' = [job EXCEPT ![p].status = Derived(job[p].trace)]
        <5>1. job'[p].status = Derived(job[p].trace) /\ job'[p].trace = job[p].trace
          BY <1>1, <4>1, <4>2 DEF Jobs
        <5>2. UNCHANGED spans
          BY <3>1 DEF Derive, tables
        <5>3. QED
          BY <5>1, <5>2 DEF Derived, StatusFrom
      <4>3. CASE /\ job' = [job EXCEPT ![p].status = "success"]
                 /\ excused' = excused \cup {job[p].trace}
        <5>1. job'[p].trace = job[p].trace
          BY <1>1, <4>1, <4>3 DEF Jobs
        <5>2. QED
          BY <2>2, <4>3, <5>1
      <4>4. QED
        BY <3>1, <4>2, <4>3 DEF Derive
    <3>2. CASE Finish(p)
      <4>1. PICK a \in Keys, status \in {"running", "failed"} :
              /\ job' = [job EXCEPT ![p] = [NewJob(a, traceOf[p][a], FALSE, 0)
                                              EXCEPT !.status = status]]
              /\ Goto(p, IF status = "running" THEN "derive" ELSE "close")
              /\ excused' = IF status = "running" THEN excused ELSE excused \cup {traceOf[p][a]}
        BY <3>2 DEF Finish
      <4>2. job'[p].trace = traceOf[p][a]
        BY <1>1, <4>1 DEF NewJob
      <4>3. pc'[p] = IF status = "running" THEN "derive" ELSE "close"
        BY <1>1, <4>1 DEF Goto
      <4>4. status # "running"
        BY <2>2, <4>3
      <4>5. excused' = excused \cup {traceOf[p][a]}
        BY <4>1, <4>4
      <4>6. FALSE
        BY <2>2, <4>2, <4>5
      <4>7. QED
        BY <4>6
    <3>3. CASE ~Derive(p) /\ ~Finish(p)
      <4>1. \A l : Goto(p, l) \/ Done(p, l) => pc'[p] = l
        BY <1>1 DEF Goto, Done
      <4>2. CASE Enter(p) \/ Mark(p) \/ Leave(p)
        BY <2>2, <4>2 DEF Enter, Mark, Leave
      <4>3. CASE ~Enter(p) /\ ~Mark(p) /\ ~Leave(p)
        BY <1>4, <2>2, <3>3, <4>1, <4>3 DEF Step, Launch, Call, LookUp, Open, EnsureBudget,
           AuditRaw, OpenAdhoc, GuardCalls, Record, AnswerOk, AnswerFails, Exit, Close,
           OpsCall, Crash, Stop
      <4>4. QED
        BY <4>2, <4>3
    <3>4. QED
      BY <3>1, <3>2, <3>3
  <2>3. QED
    BY <2>1, <2>2 DEF StatusReady
<1>5. QED
  BY <1>3, <1>4 DEF Next

LEMMA StatusTrueStep ==
  ASSUME BasicInv, StatusInv, [Next]_vars
  PROVE  StatusTrue'
<1>1. ShapesOK /\ CallsExcused /\ StatusReady /\ StatusTrue
  BY DEF BasicInv, StatusInv
<1>2. excused \subseteq excused'
  BY ExcusedGrows
<1>3. CASE Tick \/ UNCHANGED vars
  <2>1. UNCHANGED <<excused, traces, spans>>
    BY <1>3 DEF Tick, vars, tables, history
  <2>2. QED
    BY <1>1, <2>1 DEF StatusTrue
<1>4. ASSUME NEW p \in Processes, Step(p), NEW t \in DOMAIN traces' \ excused',
             traces'[t].by = "client", traces'[t].kept
      PROVE  /\ traces'[t].status = "success" => spans'[t].ok = spans'[t].total
             /\ traces'[t].status = "partial" => spans'[t].ok < spans'[t].total
  <2>1. CASE t \in DOMAIN traces
    <3>1. t \notin excused /\ traces[t].by = "client" /\ traces[t].kept
      BY <1>2, <1>4, <2>1, TablesStep DEF Next
    <3>2. spans[t].ok \in Nat /\ spans[t].total \in Nat /\ spans[t].ok <= spans[t].total
      <4>1. spans[t] \in SpanCounts /\ t \in DOMAIN spans
        BY <1>1, <2>1, Rows
      <4>2. QED
        BY <4>1, AnsweringFinite DEF SpanCounts, BasicInv, CountsOK
    <3>3. ~(Leave(p) /\ t = Last(stack[p]).trace)
      BY <3>1, TopOfStack DEF Leave
    <3>4. CASE Close(p) /\ t = job[p].trace
      <4>1. job[p].status = Derived(t)
        BY <1>1, <3>1, <3>4 DEF Close, StatusReady, StatusFrom, Derived
      <4>2. UNCHANGED spans
        BY <3>4 DEF Close
      <4>3. traces[t].status = "running"
        BY <3>4 DEF Close, BasicInv, OpenedOK, OpensOK, ClosingOK
      <4>4. traces'[t].status = "running" \/ traces'[t].status = Derived(t)
        <5>1. EndTrace(t, Derived(t))
          BY <3>4, <4>1 DEF Close
        <5>2. Derived(t) \in Statuses
          BY DEF Derived, Statuses
        <5>3. traces'[t].status \in {traces[t].status, Derived(t)}
          BY <1>1, <2>1, <5>1, <5>2, EndTraceRows
        <5>4. QED
          BY <4>3, <5>3
      <4>5. QED
        BY <3>2, <4>2, <4>4 DEF Derived
    <3>5. CASE ~(Close(p) /\ t = job[p].trace)
      <4>1. traces'[t].status = traces[t].status
        BY <1>4, <2>1, <3>3, <3>5, StatusStep
      <4>2. CASE spans'[t] = spans[t]
        BY <1>1, <2>1, <3>1, <4>1, <4>2 DEF StatusTrue
      <4>3. CASE spans'[t] # spans[t]
        <5>1. t \in opened[p]
          BY <1>1, <1>4, <2>1, <4>3, SpansStep
        <5>2. traces[t].status = "running"
          BY <5>1 DEF BasicInv, OpenedOK, OpensOK
        <5>3. QED
          BY <4>1, <5>2
      <4>4. QED
        BY <4>2, <4>3
    <3>6. QED
      BY <3>4, <3>5
  <2>2. CASE t \notin DOMAIN traces
    <3>1. Opens(p)
      BY <1>4, <2>2, RowsFromOpens
    <3>2. PICK a \in Keys, by \in Kinds, kept \in BOOLEAN :
            /\ DOMAIN traces' = DOMAIN traces \cup {Len(traces) + 1}
            /\ traces'[Len(traces) + 1] = NewTrace(a, by, kept)
      BY <3>1, OpenedRow
    <3>3. t = Len(traces) + 1
      BY <1>4, <2>2, <3>2
    <3>4. traces'[t].status = "running"
      BY <3>2, <3>3 DEF NewTrace
    <3>5. QED
      BY <3>4
  <2>3. QED
    BY <2>1, <2>2
<1>5. QED
  BY <1>3, <1>4 DEF Next, StatusTrue

\* A trace is 'success' only if every recorded attempt was, and 'partial' only if
\* one was not: between counting the spans (_derive) and writing the status
\* nobody counts under it whom the history does not name.
THEOREM SdkTracesStatusTrue == Spec => []StatusTrue
<1>1. Init => StatusInv
  <2>1. Init => DOMAIN traces = {}
    BY DEF Init
  <2>2. QED
    BY <2>1 DEF StatusInv, StatusTrue, CallsExcused, StatusReady, Init
<1>2. BasicInv /\ StatusInv /\ [Next]_vars => StatusInv'
  BY CallsExcusedStep, StatusReadyStep, StatusTrueStep DEF StatusInv
<1>3. StatusInv => StatusTrue
  BY DEF StatusInv
<1>4. QED
  BY <1>1, <1>2, <1>3, SdkTracesBasics, PTL DEF Spec

-----------------------------------------------------------------------------
(* One article, one trace *)

\* Inside a call the article stays, and so does what it needs.
LEMMA SameCall ==
  ASSUME BasicInv, NEW p \in Processes, Step(p), ~Call(p), pc'[p] \in Calling,
         job'[p].article # NoArticle
  PROVE  /\ pc[p] \in Calling
         /\ job'[p].article = job[p].article /\ job'[p].needed = job[p].needed
<1>1. pc \in [Processes -> PCs] /\ job \in [Processes -> Jobs \cup {NoJob}]
  BY DEF BasicInv, ShapesOK
<1>2. \A l : Goto(p, l) \/ Done(p, l) => pc'[p] = l
  BY <1>1 DEF Goto, Done
<1>3. CASE Enter(p) \/ Mark(p) \/ Leave(p) \/ Launch(p) \/ Finish(p) \/ Derive(p)
           \/ Close(p) \/ Crash(p) \/ AnswerOk(p) \/ Exit(p)
  BY <1>2, <1>3 DEF Enter, Mark, Leave, Launch, Finish, Derive, Close, Crash, AnswerOk,
     Exit, Stop, Calling
<1>4. CASE OpsCall(p)
  <2> DEFINE t == IF stack[p] = <<>> THEN NoTrace ELSE Last(stack[p]).trace
  <2>1. PICK raw \in BOOLEAN, n \in Reserve :
          job' = [job EXCEPT ![p] = NewJob(NoArticle, t, raw, n)]
    BY <1>4 DEF OpsCall
  <2> HIDE DEF t
  <2>2. job'[p].article = NoArticle
    BY <1>1, <2>1 DEF NewJob
  <2>3. QED
    BY <2>2
<1>5. CASE LookUp(p) \/ Open(p) \/ OpenAdhoc(p) \/ EnsureBudget(p) \/ AuditRaw(p)
           \/ GuardCalls(p) \/ Record(p) \/ AnswerFails(p)
  <2>1. pc[p] \in Calling
    BY <1>5 DEF LookUp, Open, OpenAdhoc, EnsureBudget, AuditRaw, GuardCalls, Record,
       AnswerFails, Calling
  <2>2. job[p] \in Jobs
    BY <2>1, JobAt DEF Calling
  <2>3. \/ UNCHANGED job
        \/ Done(p, "idle")
        \/ \E t : job' = [job EXCEPT ![p].trace = t]
        \/ \E b : job' = [job EXCEPT ![p].stored = b, ![p].left = @ - 1]
        \/ job' = [job EXCEPT ![p].standin = TRUE, ![p].left = job[p].needed]
    BY <1>5 DEF LookUp, Open, OpenAdhoc, EnsureBudget, AuditRaw, GuardCalls, Record,
       AnswerFails
  <2>4. ~Done(p, "idle")
    BY <1>2 DEF Calling
  <2>5. job'[p].article = job[p].article /\ job'[p].needed = job[p].needed
    <3>1. CASE \E t : job' = [job EXCEPT ![p].trace = t]
      BY <1>1, <2>2, <3>1 DEF Jobs
    <3>2. CASE \E b : job' = [job EXCEPT ![p].stored = b, ![p].left = @ - 1]
      BY <1>1, <2>2, <3>2 DEF Jobs
    <3>3. CASE job' = [job EXCEPT ![p].standin = TRUE, ![p].left = job[p].needed]
      BY <1>1, <2>2, <3>3 DEF Jobs
    <3>4. QED
      BY <2>3, <2>4, <3>1, <3>2, <3>3
  <2>6. QED
    BY <2>1, <2>5
<1>6. QED
  BY <1>3, <1>4, <1>5 DEF Step

\* Only a new call makes a caller.
LEMMA CallersStep ==
  ASSUME BasicInv, NEW p \in Processes, Step(p), NEW a \in Articles,
         NEW q \in Callers(pc', job', a)
  PROVE  q \in Callers(pc, job, a) \/ (q = p /\ Call(p))
<1>1. q \in Processes /\ pc'[q] \in Calling /\ job'[q].article = a
  BY DEF Callers
<1>2. a # NoArticle
  BY SdkTracesAssumption
<1>3. CASE q # p
  BY <1>1, <1>3, Others DEF BasicInv, Callers
<1>4. CASE q = p /\ ~Call(p)
  BY <1>1, <1>2, <1>4, SameCall DEF Callers
<1>5. QED
  BY <1>3, <1>4

LEMMA OverlappedGrows ==
  ASSUME [Next]_vars
  PROVE  overlapped \subseteq overlapped'
<1>1. CASE Tick \/ UNCHANGED vars
  BY <1>1 DEF Tick, vars, history
<1>2. ASSUME NEW p \in Processes, Step(p) PROVE overlapped \subseteq overlapped'
  <2>1. CASE Call(p) \/ Enter(p)
    BY <2>1 DEF Call, Enter, Overlap
  <2>2. CASE Launch(p) \/ LookUp(p) \/ Open(p) \/ EnsureBudget(p) \/ AuditRaw(p)
             \/ OpenAdhoc(p) \/ GuardCalls(p) \/ AnswerOk(p) \/ AnswerFails(p) \/ Exit(p)
             \/ OpsCall(p) \/ Mark(p)
    BY <2>2 DEF Launch, LookUp, Open, EnsureBudget, AuditRaw, OpenAdhoc, GuardCalls,
       AnswerOk, AnswerFails, Exit, OpsCall, Mark, history
  <2>3. CASE Record(p) \/ Finish(p) \/ Derive(p) \/ Close(p) \/ Leave(p) \/ Crash(p)
    BY <2>3 DEF Record, Finish, Derive, Close, Leave, Crash
  <2>4. QED
    BY <1>2, <2>1, <2>2, <2>3 DEF Step
<1>3. QED
  BY <1>1, <1>2 DEF Next

\* Callers are in the middle of a call.
LEMMA CallersUnderWay ==
  ASSUME BasicInv, NEW a \in Articles, NEW q \in Callers(pc, job, a)
  PROVE  UnderWay(a)
<1>1. q \in Processes /\ pc[q] \in Calling /\ job[q].article = a
  BY DEF Callers
<1>2. job[q] # NoJob
  BY <1>1 DEF Calling, BasicInv, JobsOK, JobOK
<1>3. QED
  BY <1>1, <1>2 DEF UnderWay, Calling

\* A call that begins while another one for the article is under way is on record.
LEMMA CallAlone ==
  ASSUME BasicInv, NEW p \in Processes, Call(p), NEW a \in Articles, a \notin overlapped',
         NEW q \in Callers(pc, job, a)
  PROVE  job'[p].article # a
<1>1. job \in [Processes -> Jobs \cup {NoJob}]
  BY DEF BasicInv, ShapesOK
<1>2. PICK b \in bounds.keys, raw \in BOOLEAN, n \in Reserve :
        /\ job' = [job EXCEPT ![p] = NewJob(b, traceOf[p][b], raw, n)]
        /\ overlapped' = Overlap(b)
  BY DEF Call
<1>3. job'[p].article = b
  BY <1>1, <1>2 DEF NewJob
<1>4. UnderWay(a)
  BY CallersUnderWay
<1>5. QED
  BY <1>2, <1>3, <1>4 DEF Overlap

LEMMA SoleCallerStep ==
  ASSUME BasicInv, SoleCaller, [Next]_vars
  PROVE  SoleCaller'
<1>1. overlapped \subseteq overlapped'
  BY OverlappedGrows
<1>2. CASE Tick \/ UNCHANGED vars
  <2>1. UNCHANGED <<pc, job, overlapped>>
    BY <1>2 DEF Tick, vars, local, history
  <2>2. QED
    BY <2>1 DEF SoleCaller, Callers
<1>3. ASSUME NEW p \in Processes, Step(p), NEW a \in Articles \ overlapped',
             NEW q \in Callers(pc', job', a), NEW r \in Callers(pc', job', a)
      PROVE  q = r
  <2>1. a \in Articles \ overlapped
    BY <1>1, <1>3
  <2>2. \A x \in Callers(pc', job', a) : x \in Callers(pc, job, a) \/ (x = p /\ Call(p))
    BY <1>3, CallersStep
  <2>3. CASE q \in Callers(pc, job, a) /\ r \in Callers(pc, job, a)
    BY <2>1, <2>3 DEF SoleCaller
  <2>4. CASE q \notin Callers(pc, job, a) \/ r \notin Callers(pc, job, a)
    <3>1. Call(p) /\ p \in Callers(pc', job', a)
      BY <1>3, <2>2, <2>4
    <3>2. job'[p].article = a
      BY <3>1 DEF Callers
    <3>3. Callers(pc, job, a) = {}
      BY <1>3, <3>1, <3>2, CallAlone
    <3>4. QED
      BY <1>3, <2>2, <3>3
  <2>5. QED
    BY <2>3, <2>4
<1>4. ASSUME NEW p \in Processes, Step(p) PROVE SoleCaller'
  <2>1. \A a \in Articles \ overlapped' : \A q, r \in Callers(pc', job', a) : q = r
    BY <1>3, <1>4
  <2>2. QED
    BY <2>1 DEF SoleCaller, Callers
<1>5. QED
  BY <1>2, <1>4 DEF Next

\* The rows of an article change only by the row of who found none, and by that of
\* a block, which is on record when somebody is in the middle of a call.
LEMMA RowsOfStep ==
  ASSUME BasicInv, NEW p \in Processes, Step(p), NEW a \in Articles
  PROVE  \/ /\ RowsOf(traces', a) = RowsOf(traces, a)
            /\ ClientRows(traces', a) = ClientRows(traces, a)
         \/ /\ Len(traces) + 1 \notin DOMAIN traces /\ Len(traces) + 1 \in DOMAIN traces'
            /\ RowsOf(traces', a) = RowsOf(traces, a) \cup {Len(traces) + 1}
            /\ spans'[Len(traces) + 1] = NoSpans
            /\ \/ /\ Open(p) /\ job[p].article = a
                  /\ ClientRows(traces', a) = ClientRows(traces, a) \cup {Len(traces) + 1}
               \/ /\ Enter(p) /\ ClientRows(traces', a) = ClientRows(traces, a)
                  /\ overlapped' = Overlap(a)
<1>1. \A t \in DOMAIN traces : /\ t \in DOMAIN traces'
                               /\ traces'[t].article = traces[t].article
                               /\ traces'[t].kept = traces[t].kept
                               /\ traces'[t].by = traces[t].by
  BY TablesStep DEF Next
<1>2. CASE DOMAIN traces' = DOMAIN traces
  BY <1>1, <1>2 DEF RowsOf, ClientRows
<1>3. CASE Opens(p)
  <2> DEFINE n == Len(traces) + 1
  <2>1. PICK b \in Keys, by \in Kinds, kept \in BOOLEAN :
          /\ Open(p) => b = job[p].article
          /\ OpenAdhoc(p) => b = NoArticle
          /\ by = IF Open(p) THEN "client" ELSE IF Enter(p) THEN "with" ELSE "adhoc"
          /\ Open(p) => ~Enter(p)
          /\ n \notin DOMAIN traces
          /\ DOMAIN traces' = DOMAIN traces \cup {n}
          /\ traces'[n] = NewTrace(b, by, kept)
          /\ spans'[n] = NoSpans
    BY <1>3, OpenedRow
  <2>2. traces'[n].article = b /\ traces'[n].by = by /\ traces'[n].kept = kept
    BY <2>1 DEF NewTrace
  <2>3. a # NoArticle
    BY SdkTracesAssumption
  <2>4. Enter(p) /\ b = a => overlapped' = Overlap(a)
    <3>1. SUFFICES ASSUME Enter(p), b = a PROVE overlapped' = Overlap(a)
      OBVIOUS
    <3>2. PICK d \in Keys, k \in BOOLEAN :
            traces' = Append(traces, NewTrace(d, "with", k)) /\ overlapped' = Overlap(d)
      <4>1. bounds.keys \cup {NoArticle} \subseteq Keys
        BY DEF BasicInv, ShapesOK, Bounds, Keys
      <4>2. QED
        BY <3>1, <4>1 DEF Enter
    <3>3. spans' = Append(spans, NoSpans) /\ "with" \in Kinds
      BY <3>1 DEF Enter, Kinds
    <3>4. traces'[n] = NewTrace(d, "with", k)
      BY <3>2, <3>3, AppendRows DEF BasicInv
    <3>5. d = b
      BY <2>2, <3>4 DEF NewTrace
    <3>6. QED
      BY <3>1, <3>2, <3>5
  <2> HIDE DEF n
  <2>5. CASE b = a /\ kept
    <3>1. RowsOf(traces', a) = RowsOf(traces, a) \cup {n}
      BY <1>1, <2>1, <2>2, <2>5 DEF RowsOf
    <3>2. CASE Open(p)
      <4>1. ClientRows(traces', a) = ClientRows(traces, a) \cup {n}
        BY <1>1, <2>1, <2>2, <3>1, <3>2 DEF ClientRows, RowsOf
      <4>2. QED
        BY <2>1, <2>5, <3>1, <3>2, <4>1 DEF n
    <3>3. CASE Enter(p)
      <4>1. by # "client"
        BY <2>1, <3>3
      <4>2. ClientRows(traces', a) = ClientRows(traces, a)
        BY <1>1, <2>1, <2>2, <3>1, <4>1 DEF ClientRows, RowsOf
      <4>3. QED
        BY <2>1, <2>4, <2>5, <3>1, <3>3, <4>2 DEF n
    <3>4. QED
      BY <1>3, <2>1, <2>3, <2>5, <3>2, <3>3 DEF Opens
  <2>6. CASE ~(b = a /\ kept)
    <3>1. RowsOf(traces', a) = RowsOf(traces, a)
      BY <1>1, <2>1, <2>2, <2>6 DEF RowsOf
    <3>2. ClientRows(traces', a) = ClientRows(traces, a)
      BY <1>1, <3>1 DEF ClientRows, RowsOf
    <3>3. QED
      BY <3>1, <3>2
  <2>7. QED
    BY <2>5, <2>6
<1>4. QED
  BY <1>2, <1>3, RowsFromOpens

\* Only who finds no row goes on to open one.
LEMMA OpenersStep ==
  ASSUME BasicInv, NEW p \in Processes, Step(p), NEW a \in Articles,
         NEW q \in Openers(pc', job', a)
  PROVE  \/ q \in Openers(pc, job, a) /\ ~(Open(p) /\ q = p)
         \/ q = p /\ LookUp(p) /\ RowsOf(traces, a) = {} /\ UNCHANGED traces
<1>1. pc \in [Processes -> PCs] /\ job \in [Processes -> Jobs \cup {NoJob}]
  BY DEF BasicInv, ShapesOK
<1>2. \A l : Goto(p, l) \/ Done(p, l) => pc'[p] = l
  BY <1>1 DEF Goto, Done
<1>3. q \in Processes /\ pc'[q] = "open" /\ job'[q].article = a
  BY DEF Openers
<1>4. CASE q # p
  BY <1>3, <1>4, Others DEF BasicInv, Openers
<1>5. CASE q = p /\ LookUp(p)
  <2>1. Found(job[p].article) = {} /\ UNCHANGED job /\ UNCHANGED traces
    BY <1>2, <1>3, <1>5 DEF LookUp, tables
  <2>2. job[p].article = a
    BY <1>3, <1>5, <2>1
  <2>3. RowsOf(traces, a) = {}
    BY <2>1, <2>2 DEF Found, RowsOf
  <2>4. QED
    BY <1>5, <2>1, <2>3
<1>6. CASE q = p /\ Call(p)
  <2>1. PICK b \in bounds.keys, raw \in BOOLEAN, n \in Reserve :
          /\ job' = [job EXCEPT ![p] = NewJob(b, traceOf[p][b], raw, n)]
          /\ Goto(p, IF traceOf[p][b] # NoTrace THEN "budget"
                     ELSE IF b = NoArticle THEN "open" ELSE "lookup")
    BY <1>6 DEF Call
  <2>2. job'[p].article = b
    BY <1>1, <2>1 DEF NewJob
  <2>3. b = NoArticle
    BY <1>2, <1>3, <1>6, <2>1
  <2>4. QED
    BY <1>3, <1>6, <2>2, <2>3, SdkTracesAssumption
<1>7. CASE q = p /\ ~LookUp(p) /\ ~Call(p)
  <2>1. CASE Enter(p) \/ Mark(p) \/ Leave(p)
    BY <1>3, <1>7, <2>1 DEF Enter, Mark, Leave
  <2>2. CASE ~Enter(p) /\ ~Mark(p) /\ ~Leave(p)
    BY <1>2, <1>3, <1>7, <2>2 DEF Step, Launch, Open, EnsureBudget, AuditRaw, OpenAdhoc,
       GuardCalls, Record, AnswerOk, AnswerFails, Finish, Exit, Derive, Close, OpsCall,
       Crash, Stop
  <2>3. QED
    BY <2>1, <2>2
<1>8. QED
  BY <1>4, <1>5, <1>6, <1>7

LEMMA FiniteRows ==
  ASSUME ShapesOK, NEW a
  PROVE  /\ IsFiniteSet(RowsOf(traces, a)) /\ Cardinality(RowsOf(traces, a)) \in Nat
         /\ IsFiniteSet(ClientRows(traces, a)) /\ Cardinality(ClientRows(traces, a)) \in Nat
<1>1. DOMAIN traces = 1..Len(traces) /\ Len(traces) \in Nat
  BY Rows
<1>2. IsFiniteSet(1..Len(traces))
  BY <1>1, FS_Interval
<1>3. RowsOf(traces, a) \subseteq 1..Len(traces) /\ ClientRows(traces, a) \subseteq 1..Len(traces)
  BY <1>1 DEF RowsOf, ClientRows
<1>4. QED
  BY <1>2, <1>3, FS_Subset, FS_CardinalityType

LEMMA FiniteOpeners ==
  ASSUME NEW l, NEW j, NEW a
  PROVE  IsFiniteSet(Openers(l, j, a)) /\ Cardinality(Openers(l, j, a)) \in Nat
         /\ Cardinality(Openers(l, j, a)) <= Cardinality(Processes)
<1>1. IsFiniteSet(Processes) /\ Openers(l, j, a) \subseteq Processes
  BY SdkTracesAssumption DEF Openers
<1>2. QED
  BY <1>1, FS_Subset, FS_CardinalityType

LEMMA FewTracesStep ==
  ASSUME BasicInv, FewTraces, [Next]_vars
  PROVE  FewTraces'
<1>1. ShapesOK
  BY DEF BasicInv
<1>2. CASE Tick \/ UNCHANGED vars
  <2>1. UNCHANGED <<pc, job, traces>>
    BY <1>2 DEF Tick, vars, local, tables
  <2>2. QED
    BY <2>1 DEF FewTraces, Openers, ClientRows, RowsOf
<1>3. ASSUME NEW p \in Processes, Step(p), NEW a \in Articles
      PROVE  Cardinality(ClientRows(traces', a)) + Cardinality(Openers(pc', job', a))
               <= Cardinality(Processes)
  <2> DEFINE R == Cardinality(ClientRows(traces, a))
             O == Cardinality(Openers(pc, job, a))
             P == Cardinality(Processes)
  <2>1. P \in Nat
    BY SdkTracesAssumption, FS_CardinalityType
  <2>2. /\ IsFiniteSet(ClientRows(traces, a)) /\ R \in Nat
        /\ IsFiniteSet(Openers(pc, job, a)) /\ O \in Nat
        /\ IsFiniteSet(Openers(pc', job', a))
        /\ Cardinality(Openers(pc', job', a)) \in Nat
        /\ Cardinality(Openers(pc', job', a)) <= P
    BY <1>1, FiniteRows, FiniteOpeners
  <2>3. R + O <= P
    BY DEF FewTraces
  <2> HIDE DEF R, O, P
  <2>4. CASE LookUp(p) /\ RowsOf(traces, a) = {} /\ UNCHANGED traces
    <3>1. ClientRows(traces', a) = {}
      BY <2>4 DEF ClientRows
    <3>2. Cardinality(ClientRows(traces', a)) = 0
      BY <3>1, FS_EmptySet
    <3>3. QED
      BY <2>1, <2>2, <3>2 DEF P
  <2>5. CASE Open(p) /\ job[p].article = a
    <3>1. p \in Openers(pc, job, a)
      BY <2>5 DEF Open, Openers
    <3>2. ~LookUp(p) /\ ~Enter(p)
      BY <2>5 DEF Open, LookUp, Enter
    <3>3. Openers(pc', job', a) \subseteq Openers(pc, job, a) \ {p}
      BY <1>3, <2>5, <3>2, OpenersStep
    <3>4. IsFiniteSet(Openers(pc, job, a) \ {p})
          /\ Cardinality(Openers(pc, job, a) \ {p}) = O - 1
      BY <2>2, <3>1, FS_RemoveElement DEF O
    <3>5. Cardinality(Openers(pc', job', a)) <= O - 1
      BY <3>3, <3>4, FS_Subset
    <3>6. Cardinality(ClientRows(traces', a)) \in {R, R + 1}
      <4>1. \/ ClientRows(traces', a) = ClientRows(traces, a)
            \/ /\ Len(traces) + 1 \notin ClientRows(traces, a)
               /\ ClientRows(traces', a) = ClientRows(traces, a) \cup {Len(traces) + 1}
        BY <1>3, <3>2, RowsOfStep DEF ClientRows, RowsOf
      <4>2. QED
        BY <2>2, <4>1, FS_AddElement DEF R
    <3>7. QED
      BY <2>1, <2>2, <2>3, <3>5, <3>6 DEF P
  <2>6. CASE /\ ~(LookUp(p) /\ RowsOf(traces, a) = {} /\ UNCHANGED traces)
             /\ ~(Open(p) /\ job[p].article = a)
    <3>1. Openers(pc', job', a) \subseteq Openers(pc, job, a)
      BY <1>3, <2>6, OpenersStep
    <3>2. ClientRows(traces', a) = ClientRows(traces, a)
      BY <1>3, <2>6, RowsOfStep
    <3>3. Cardinality(Openers(pc', job', a)) <= O
      BY <2>2, <3>1, FS_Subset DEF O
    <3>4. Cardinality(ClientRows(traces', a)) = R
      BY <3>2 DEF R
    <3>5. QED
      BY <2>1, <2>2, <2>3, <3>3, <3>4 DEF P
  <2>7. QED
    BY <2>4, <2>5, <2>6
<1>4. ASSUME NEW p \in Processes, Step(p) PROVE FewTraces'
  <2>1. \A a \in Articles :
          Cardinality(ClientRows(traces', a)) + Cardinality(Openers(pc', job', a))
            <= Cardinality(Processes)
    BY <1>3, <1>4
  <2>2. QED
    BY <2>1 DEF FewTraces, ClientRows, RowsOf, Openers
<1>5. QED
  BY <1>2, <1>4 DEF Next

\* A trace of the article appears while somebody goes to open one only where that
\* is on record, and the newest row is the last.
LEMMA ClientFirstStep ==
  ASSUME BasicInv, SoleCaller, ClientFirst, [Next]_vars
  PROVE  ClientFirst'
<1>1. ShapesOK
  BY DEF BasicInv
<1>2. overlapped \subseteq overlapped'
  BY OverlappedGrows
<1>3. CASE Tick \/ UNCHANGED vars
  <2>1. UNCHANGED <<pc, job, overlapped, traces>>
    BY <1>3 DEF Tick, vars, local, tables, history
  <2>2. QED
    BY <2>1 DEF ClientFirst, Openers, RowsOf, ClientRows
<1>4. ASSUME NEW p \in Processes, Step(p), NEW a \in Articles \ overlapped'
      PROVE  /\ Openers(pc', job', a) # {} => RowsOf(traces', a) = {}
             /\ \A t \in ClientRows(traces', a), u \in RowsOf(traces', a) : t <= u
  <2> DEFINE n == Len(traces) + 1
  <2>1. a \in Articles \ overlapped
    BY <1>2, <1>4
  <2>2. /\ Openers(pc, job, a) # {} => RowsOf(traces, a) = {}
        /\ \A t \in ClientRows(traces, a), u \in RowsOf(traces, a) : t <= u
    BY <2>1 DEF ClientFirst
  <2>3. Openers(pc, job, a) \subseteq Callers(pc, job, a)
    BY DEF Openers, Callers, Calling
  <2>4. \A t \in RowsOf(traces, a) : t <= n
    <3>1. Len(traces) \in Nat /\ DOMAIN traces = 1..Len(traces)
      BY <1>1, Rows
    <3>2. QED
      BY <3>1 DEF RowsOf
  <2>5. ClientRows(traces, a) \subseteq RowsOf(traces, a)
    BY DEF ClientRows
  <2>6. n <= n
    BY <1>1, Rows
  <2>7. CASE Open(p) /\ job[p].article = a
    <3>1. p \in Openers(pc, job, a) /\ ~LookUp(p) /\ ~Enter(p)
      BY <2>7 DEF Open, Openers, LookUp, Enter
    <3>2. RowsOf(traces, a) = {}
      BY <2>2, <3>1
    <3>3. Openers(pc', job', a) = {}
      <4>1. ASSUME NEW q \in Openers(pc', job', a) PROVE FALSE
        <5>1. q \in Openers(pc, job, a) /\ q # p
          BY <1>4, <2>7, <3>1, OpenersStep
        <5>2. QED
          BY <2>1, <2>3, <3>1, <5>1 DEF SoleCaller
      <4>2. QED
        BY <4>1
    <3>4. RowsOf(traces', a) \subseteq {n} /\ ClientRows(traces', a) \subseteq {n}
      BY <1>4, <2>5, <3>1, <3>2, RowsOfStep
    <3>5. QED
      BY <2>6, <3>3, <3>4
  <2>8. CASE ~(Open(p) /\ job[p].article = a) /\ RowsOf(traces', a) = RowsOf(traces, a)
    <3>1. ClientRows(traces', a) = ClientRows(traces, a)
      BY <1>4, <2>8, RowsOfStep
    <3>2. Openers(pc', job', a) # {} => Openers(pc, job, a) # {} \/ RowsOf(traces, a) = {}
      BY <1>4, OpenersStep
    <3>3. QED
      BY <2>2, <2>8, <3>1, <3>2
  <2>9. CASE ~(Open(p) /\ job[p].article = a) /\ RowsOf(traces', a) # RowsOf(traces, a)
    <3>1. /\ RowsOf(traces', a) = RowsOf(traces, a) \cup {n} /\ Enter(p)
          /\ ClientRows(traces', a) = ClientRows(traces, a) /\ overlapped' = Overlap(a)
      BY <1>4, <2>9, RowsOfStep
    <3>2. ~UnderWay(a)
      BY <1>4, <3>1 DEF Overlap
    <3>3. Openers(pc, job, a) = {}
      BY <2>1, <2>3, <3>2, CallersUnderWay
    <3>4. ~LookUp(p)
      BY <3>1 DEF Enter, LookUp
    <3>5. Openers(pc', job', a) = {}
      BY <1>4, <3>3, <3>4, OpenersStep
    <3>6. QED
      BY <2>2, <2>4, <2>5, <3>1, <3>5
  <2>10. QED
    BY <2>7, <2>8, <2>9
<1>5. ASSUME NEW p \in Processes, Step(p) PROVE ClientFirst'
  <2>1. \A a \in Articles \ overlapped' :
          /\ Openers(pc', job', a) # {} => RowsOf(traces', a) = {}
          /\ \A t \in ClientRows(traces', a), u \in RowsOf(traces', a) : t <= u
    BY <1>4, <1>5
  <2>2. QED
    BY <2>1 DEF ClientFirst, ClientRows, RowsOf, Openers
<1>6. QED
  BY <1>3, <1>5 DEF Next

LEMMA OneTraceInitially ==
  ASSUME Init
  PROVE  SoleCaller /\ FewTraces /\ ClientFirst
<1>1. SoleCaller
  BY DEF Init, SoleCaller, Callers, Calling
<1>2. ASSUME NEW a \in Articles
      PROVE  /\ RowsOf(traces, a) = {} /\ ClientRows(traces, a) = {}
             /\ Openers(pc, job, a) = {}
  <2>1. DOMAIN traces = {} /\ \A p \in Processes : pc[p] = "down"
    BY DEF Init
  <2>2. QED
    BY <2>1 DEF RowsOf, ClientRows, Openers
<1>3. Cardinality({}) = 0 /\ Cardinality(Processes) \in Nat
  BY FS_EmptySet, FS_CardinalityType, SdkTracesAssumption
<1>4. FewTraces
  BY <1>2, <1>3 DEF FewTraces
<1>5. ClientFirst
  BY <1>2 DEF ClientFirst
<1>6. QED
  BY <1>1, <1>4, <1>5

\* Calls for an article that are not on record as overlapping come from one
\* process at a time, so whoever finds no trace of the article is the only one
\* to open one (find_trace_by_external_id, then start_trace), and no block for
\* the article begins in between.
THEOREM SdkTracesOneTrace == Spec => [](SoleCaller /\ FewTraces /\ ClientFirst)
<1>1. BasicInv /\ SoleCaller /\ FewTraces /\ ClientFirst /\ [Next]_vars
        => SoleCaller' /\ FewTraces' /\ ClientFirst'
  BY SoleCallerStep, FewTracesStep, ClientFirstStep
<1>2. QED
  BY OneTraceInitially, <1>1, SdkTracesBasics, PTL DEF Spec

\* The client opens a trace for an article only while it has none, over all runs
\* of the application (_trace_id), and where something overlaps at most one from
\* each process.
THEOREM SdkTracesTracesPerArticle == Spec => []TracesPerArticle
<1>1. BasicInv /\ FewTraces /\ ClientFirst => TracesPerArticle
  <2> SUFFICES ASSUME BasicInv, FewTraces, ClientFirst, NEW a \in Articles
               PROVE  IF a \in overlapped
                      THEN Cardinality(ClientTraces(a)) <= Cardinality(Processes)
                      ELSE \A t \in ClientTraces(a), u \in TracesOf(a) : t <= u
    BY DEF TracesPerArticle
  <2>1. ClientTraces(a) = ClientRows(traces, a) /\ TracesOf(a) = RowsOf(traces, a)
    BY DEF ClientTraces, ClientRows, TracesOf, RowsOf
  <2>2. Cardinality(ClientRows(traces, a)) \in Nat /\ Cardinality(Openers(pc, job, a)) \in Nat
    BY FiniteRows, FiniteOpeners DEF BasicInv
  <2>3. Cardinality(ClientRows(traces, a)) + Cardinality(Openers(pc, job, a))
          <= Cardinality(Processes)
    BY DEF FewTraces
  <2>4. Cardinality(Processes) \in Nat
    BY SdkTracesAssumption, FS_CardinalityType
  <2>5. Cardinality(ClientTraces(a)) <= Cardinality(Processes)
    BY <2>1, <2>2, <2>3, <2>4
  <2>6. a \notin overlapped => \A t \in ClientTraces(a), u \in TracesOf(a) : t <= u
    BY <2>1 DEF ClientFirst
  <2>7. QED
    BY <2>5, <2>6
<1>2. QED
  BY <1>1, SdkTracesBasics, SdkTracesOneTrace, PTL

-----------------------------------------------------------------------------
(* The calls made for an article, and its limit *)

\* What a provider call counts.
LEMMA RecordEffect ==
  ASSUME BasicInv, NEW p \in Processes, Record(p)
  PROVE  \E stored \in BOOLEAN :
           /\ stored => traces[job[p].trace].kept
           /\ pc[p] = "record" /\ pc'[p] = "answer" /\ UNCHANGED <<traces, overlapped>>
           /\ job[p].trace \in DOMAIN traces
           /\ job[p].article # NoArticle =>
                traces[job[p].trace].article = job[p].article
           /\ job[p] \in Jobs
           /\ job'[p].trace = job[p].trace /\ job'[p].article = job[p].article
           /\ job'[p].needed = job[p].needed /\ job'[p].left = job[p].left - 1
           /\ job'[p].standin = job[p].standin
           /\ DOMAIN spans' = DOMAIN spans
           /\ \A u \in DOMAIN traces :
                IF stored /\ u = job[p].trace
                THEN /\ spans'[u].total = spans[u].total + 1
                     /\ spans'[u].own = IF job[p].article = NoArticle THEN spans[u].own
                                        ELSE spans[u].own + 1
                ELSE spans'[u] = spans[u]
           /\ \A b \in Articles :
                /\ made'[b] = IF b = job[p].article THEN made[b] + 1 ELSE made[b]
                /\ lost'[b] = IF b = job[p].article /\ ~stored THEN lost[b] + 1 ELSE lost[b]
<1> DEFINE t == job[p].trace
           a == job[p].article
<1>1. /\ job \in [Processes -> Jobs \cup {NoJob}] /\ pc \in [Processes -> PCs]
      /\ made \in [Articles -> Nat] /\ lost \in [Articles -> Nat] /\ ShapesOK
  BY DEF BasicInv, ShapesOK
<1>2. /\ pc[p] = "record" /\ t \in DOMAIN traces /\ job[p] \in Jobs
      /\ a # NoArticle => traces[t].article = a
  BY JobAt DEF Record, BasicInv, JobsOK, JobOK
<1>3. pc'[p] = "answer" /\ UNCHANGED <<traces, overlapped>>
  BY <1>1 DEF Record, Goto
<1>4. PICK stored \in BOOLEAN :
        /\ stored => traces[t].kept
        /\ spans' = IF stored THEN [spans EXCEPT ![t] = Counted(spans[t], a)] ELSE spans
        /\ lost'  = IF stored \/ a = NoArticle THEN lost ELSE [lost EXCEPT ![a] = @ + 1]
        /\ job'   = [job EXCEPT ![p].stored = stored, ![p].left = @ - 1]
  BY DEF Record
<1>5. made' = IF a = NoArticle THEN made ELSE [made EXCEPT ![a] = @ + 1]
  BY DEF Record
<1>6. /\ job'[p].trace = job[p].trace /\ job'[p].article = job[p].article
      /\ job'[p].needed = job[p].needed /\ job'[p].left = job[p].left - 1
      /\ job'[p].standin = job[p].standin
  BY <1>1, <1>2, <1>4 DEF Jobs
<1> HIDE DEF t, a
<1>7. NoArticle \notin Articles
  BY SdkTracesAssumption
<1>8. \A b \in Articles :
        /\ made'[b] = IF b = a THEN made[b] + 1 ELSE made[b]
        /\ lost'[b] = IF b = a /\ ~stored THEN lost[b] + 1 ELSE lost[b]
  BY <1>1, <1>4, <1>5, <1>7
<1>9. /\ DOMAIN spans' = DOMAIN spans
      /\ \A u \in DOMAIN traces :
           IF stored /\ u = t
           THEN /\ spans'[u].total = spans[u].total + 1
                /\ spans'[u].own = IF a = NoArticle THEN spans[u].own ELSE spans[u].own + 1
           ELSE spans'[u] = spans[u]
  <2>1. CASE ~stored
    BY <1>4, <2>1
  <2>2. CASE stored
    <3> DEFINE c == Counted(spans[t], a)
    <3>1. spans[t] \in SpanCounts /\ DOMAIN spans = DOMAIN traces
      BY <1>1, <1>2, Rows
    <3>2. spans' = [spans EXCEPT ![t] = c]
      BY <1>4, <2>2
    <3>3. /\ c \in SpanCounts /\ c.total = spans[t].total + 1
          /\ c.own = IF a = NoArticle THEN spans[t].own ELSE spans[t].own + 1
      BY <3>1, CountedIs
    <3> HIDE DEF c
    <3>4. /\ DOMAIN spans' = DOMAIN spans
          /\ \A u \in DOMAIN spans : spans'[u] = IF u = t THEN c ELSE spans[u]
      BY <1>1, <1>2, <3>2, <3>3, CountRows
    <3>5. QED
      BY <2>2, <3>1, <3>3, <3>4
  <2>3. QED
    BY <2>1, <2>2
<1>10. QED
  BY <1>2, <1>3, <1>4, <1>6, <1>8, <1>9 DEF t, a

\* Nothing else counts one.
LEMMA TotalsStep ==
  ASSUME BasicInv, NEW p \in Processes, Step(p), ~Record(p)
  PROVE  /\ UNCHANGED <<made, lost>>
         /\ \A u \in DOMAIN traces : /\ spans'[u].total = spans[u].total
                                       /\ spans'[u].own = spans[u].own
<1>1. UNCHANGED <<made, lost>>
  BY DEF Step, Launch, Call, EnsureBudget, AuditRaw, OpenAdhoc, GuardCalls, Enter,
     AnswerOk, AnswerFails, Finish, Exit, Derive, LookUp, OpsCall, Open, Close, Mark, Leave,
     Crash, history
<1>2. CASE UNCHANGED spans
  BY <1>1, <1>2
<1>3. CASE Opens(p)
  <2>1. \A u \in DOMAIN traces : spans'[u] = spans[u]
    BY <1>3, OpenedRow
  <2>2. QED
    BY <1>1, <2>1
<1>4. CASE AnswerOk(p)
  <2> DEFINE t == job[p].trace
  <2>1. ShapesOK /\ t \in DOMAIN traces
    BY <1>4, JobAt DEF AnswerOk, BasicInv, JobsOK, JobOK
  <2>2. spans[t] \in SpanCounts /\ DOMAIN spans = DOMAIN traces
    BY <2>1, Rows
  <2>3. UNCHANGED spans \/ spans' = [spans EXCEPT ![t] = [spans[t] EXCEPT !.ok = @ + 1]]
    BY <1>4 DEF AnswerOk
  <2> HIDE DEF t
  <2>4. [spans[t] EXCEPT !.ok = @ + 1] \in SpanCounts
        /\ [spans[t] EXCEPT !.ok = @ + 1].total = spans[t].total
        /\ [spans[t] EXCEPT !.ok = @ + 1].own = spans[t].own
    BY <2>2 DEF SpanCounts
  <2>5. CASE spans' = [spans EXCEPT ![t] = [spans[t] EXCEPT !.ok = @ + 1]]
    <3>1. \A u \in DOMAIN spans :
            spans'[u] = IF u = t THEN [spans[t] EXCEPT !.ok = @ + 1] ELSE spans[u]
      BY <2>1, <2>4, <2>5, CountRows
    <3>2. QED
      BY <1>1, <2>2, <2>4, <3>1
  <2>6. QED
    BY <1>2, <2>3, <2>5
<1>5. QED
  BY <1>2, <1>3, <1>4 DEF Step, Opens, Launch, Call, LookUp, EnsureBudget,
     AuditRaw, GuardCalls, Record, AnswerFails, Finish, Exit, Derive, Close, OpsCall, Mark,
     Leave, Crash, tables

\* The rows of the calls of an article, before and after a step.
LEMMA OwnedRows ==
  ASSUME ShapesOK, NEW a
  PROVE  /\ IsFiniteSet(RowsOf(traces, a))
         /\ \A t \in RowsOf(traces, a) : /\ t \in DOMAIN traces /\ traces[t].article = a
                                           /\ Owns(spans)[t] = spans[t].own
                                           /\ spans[t].own \in Nat
         /\ SumFunctionOnSet(Owns(spans), RowsOf(traces, a)) \in Nat
<1>1. IsFiniteSet(RowsOf(traces, a))
  BY FiniteRows
<1>2. DOMAIN spans = DOMAIN traces /\ \A t \in DOMAIN traces : spans[t] \in SpanCounts
  BY Rows
<1>3. \A t \in RowsOf(traces, a) : /\ t \in DOMAIN traces /\ traces[t].article = a
                                     /\ Owns(spans)[t] = spans[t].own
                                     /\ spans[t].own \in Nat
  BY <1>2 DEF RowsOf, Owns, SpanCounts
<1>4. QED
  BY <1>1, <1>3, SumType

LEMMA RowsAreCallsStep ==
  ASSUME BasicInv, BasicInv', RowsAreCalls, [Next]_vars
  PROVE  RowsAreCalls'
<1>1. /\ ShapesOK /\ made \in [Articles -> Nat] /\ lost \in [Articles -> Nat]
      /\ traces' \in Seq(TraceRows) /\ spans' \in Seq(SpanCounts) /\ Len(spans') = Len(traces')
  BY DEF BasicInv, ShapesOK
<1>2. CASE Tick \/ UNCHANGED vars
  <2>1. UNCHANGED <<made, lost, traces, spans>>
    BY <1>2 DEF Tick, vars, tables, history
  <2>2. QED
    BY <2>1 DEF RowsAreCalls, RowsOf, Owns
<1>3. /\ DOMAIN spans = DOMAIN traces /\ DOMAIN spans' = DOMAIN traces'
      /\ \A t \in DOMAIN spans : spans[t] \in SpanCounts
      /\ \A t \in DOMAIN spans' : spans'[t] \in SpanCounts
  <2>1. /\ DOMAIN spans' = 1..Len(spans') /\ DOMAIN traces' = 1..Len(traces')
        /\ \A t \in 1..Len(spans') : spans'[t] \in SpanCounts
    BY <1>1, LenProperties, ElementOfSeq
  <2>2. QED
    BY <1>1, <2>1, Rows
<1>4. ASSUME NEW p \in Processes, Step(p), NEW t \in DOMAIN spans'
      PROVE  spans'[t].own <= spans'[t].total
  <2>1. CASE t \in DOMAIN traces
    <3>1. spans[t].own <= spans[t].total /\ spans[t].own \in Nat /\ spans[t].total \in Nat
      BY <1>3, <2>1 DEF RowsAreCalls, SpanCounts
    <3>2. CASE Record(p)
      <4>1. PICK stored \in BOOLEAN :
              IF stored /\ t = job[p].trace
              THEN /\ spans'[t].total = spans[t].total + 1
                   /\ spans'[t].own = IF job[p].article = NoArticle THEN spans[t].own
                                      ELSE spans[t].own + 1
              ELSE spans'[t] = spans[t]
        BY <2>1, <3>2, RecordEffect
      <4>2. QED
        BY <3>1, <4>1
    <3>3. CASE ~Record(p)
      BY <1>4, <2>1, <3>1, <3>3, TotalsStep
    <3>4. QED
      BY <3>2, <3>3
  <2>2. CASE t \notin DOMAIN traces
    <3>1. Opens(p)
      BY <1>3, <1>4, <2>2, RowsFromOpens
    <3>2. spans'[t] = NoSpans
      BY <1>3, <1>4, <2>2, <3>1, OpenedRow
    <3>3. QED
      BY <3>2 DEF NoSpans
  <2>3. QED
    BY <2>1, <2>2
<1>5. ASSUME NEW p \in Processes, Step(p), NEW a \in Articles
      PROVE  /\ made'[a] >= lost'[a]
             /\ made'[a] - lost'[a] = SumFunctionOnSet(Owns(spans'), RowsOf(traces', a))
  <2> DEFINE R  == RowsOf(traces, a)
             f  == Owns(spans)
             f2 == Owns(spans')
             n  == Len(traces) + 1
  <2>1. /\ made[a] >= lost[a] /\ made[a] \in Nat /\ lost[a] \in Nat
        /\ made[a] - lost[a] = SumFunctionOnSet(f, R)
    BY <1>1 DEF RowsAreCalls
  <2>2. /\ IsFiniteSet(R) /\ SumFunctionOnSet(f, R) \in Nat
        /\ \A t \in R : t \in DOMAIN traces /\ traces[t].article = a
        /\ \A t \in R : f[t] = spans[t].own /\ f[t] \in Nat
    BY <1>1, OwnedRows
  <2>3. /\ \A t \in R : t \in DOMAIN spans'
        /\ \A t \in DOMAIN spans' : f2[t] = spans'[t].own /\ f2[t] \in Nat
    <3>1. \A t \in DOMAIN traces : t \in DOMAIN traces'
      BY TablesStep
    <3>2. \A t \in DOMAIN spans' : f2[t] = spans'[t].own /\ f2[t] \in Nat
      BY <1>3 DEF Owns, SpanCounts
    <3>3. QED
      BY <1>3, <2>2, <3>1, <3>2
  <2> HIDE DEF f, f2
  <2>4. CASE Record(p)
    <3>1. PICK stored \in BOOLEAN :
            /\ stored => traces[job[p].trace].kept
            /\ UNCHANGED traces
            /\ job[p].trace \in DOMAIN traces
            /\ job[p].article # NoArticle => traces[job[p].trace].article = job[p].article
            /\ \A u \in DOMAIN traces :
                 IF stored /\ u = job[p].trace
                 THEN spans'[u].own = IF job[p].article = NoArticle THEN spans[u].own
                                      ELSE spans[u].own + 1
                 ELSE spans'[u] = spans[u]
            /\ made'[a] = IF a = job[p].article THEN made[a] + 1 ELSE made[a]
            /\ lost'[a] = IF a = job[p].article /\ ~stored THEN lost[a] + 1 ELSE lost[a]
      BY <2>4, RecordEffect
    <3>2. RowsOf(traces', a) = R /\ a # NoArticle
      BY <3>1, SdkTracesAssumption
    <3>3. CASE a = job[p].article /\ stored
      <4> DEFINE t == job[p].trace
      <4>1. t \in R
        BY <3>1, <3>2, <3>3 DEF RowsOf
      <4>2. f2[t] = f[t] + 1
        BY <2>2, <2>3, <3>1, <3>2, <3>3, <4>1
      <4>3. \A u \in R : u # t => f[u] = f2[u]
        BY <2>2, <2>3, <3>1
      <4>4. \A u \in R : f[u] \in Nat /\ f2[u] \in Nat
        BY <2>2, <2>3
      <4> HIDE DEF t, R
      <4>5. /\ SumFunctionOnSet(f2, R) \in Nat
            /\ SumFunctionOnSet(f2, R) + f[t] = SumFunctionOnSet(f, R) + f2[t]
        <5>1. IsFiniteSet(R)
          BY <2>2
        <5>2. QED
          BY <4>1, <4>3, <4>4, <5>1, SumUpdate
      <4>6. SumFunctionOnSet(f2, R) = SumFunctionOnSet(f, R) + 1
        BY <2>2, <4>1, <4>2, <4>4, <4>5
      <4>7. made'[a] = made[a] + 1 /\ lost'[a] = lost[a]
        BY <3>1, <3>3
      <4>8. QED
        BY <2>1, <3>2, <4>6, <4>7 DEF f2
    <3>4. CASE ~(a = job[p].article /\ stored)
      <4>1. \A u \in R : f[u] = f2[u]
        <5>1. ASSUME NEW u \in R PROVE spans'[u].own = spans[u].own
          <6>1. u \in DOMAIN traces /\ traces[u].article = a
            BY <2>2
          <6>2. ~(stored /\ u = job[p].trace) \/ job[p].article = NoArticle
            BY <3>1, <3>4, <6>1
          <6>3. QED
            BY <3>1, <6>1, <6>2
        <5>2. QED
          BY <2>2, <2>3, <5>1
      <4>2. SumFunctionOnSet(f2, R) = SumFunctionOnSet(f, R)
        BY <2>2, <4>1, SumEqual
      <4>3. made'[a] - lost'[a] = made[a] - lost[a] /\ made'[a] >= lost'[a]
        BY <2>1, <3>1, <3>4
      <4>4. QED
        BY <2>1, <3>2, <4>2, <4>3 DEF f2
    <3>5. QED
      BY <3>3, <3>4
  <2>5. CASE ~Record(p)
    <3>1. made'[a] = made[a] /\ lost'[a] = lost[a]
          /\ \A u \in DOMAIN traces : spans'[u].own = spans[u].own
      BY <1>5, <2>5, TotalsStep
    <3>2. SumFunctionOnSet(f2, R) = SumFunctionOnSet(f, R)
      <4>1. \A u \in R : f[u] = f2[u]
        BY <2>2, <2>3, <3>1
      <4>2. QED
        BY <2>2, <4>1, SumEqual
    <3>3. CASE RowsOf(traces', a) = R
      BY <2>1, <3>1, <3>2, <3>3 DEF f2
    <3>4. CASE RowsOf(traces', a) # R
      <4>1. /\ n \notin DOMAIN traces /\ n \in DOMAIN spans'
            /\ RowsOf(traces', a) = R \cup {n} /\ spans'[n] = NoSpans
        BY <1>3, <1>5, <3>4, RowsOfStep
      <4>2. n \notin R /\ f2[n] = 0
        BY <2>2, <2>3, <4>1 DEF NoSpans
      <4>3. \A u \in R \cup {n} : f2[u] \in Nat
        BY <2>3, <4>1
      <4> HIDE DEF n, R
      <4>4. SumFunctionOnSet(f2, R \cup {n}) = f2[n] + SumFunctionOnSet(f2, R)
        BY <2>2, <4>2, <4>3, SumAdd
      <4>5. SumFunctionOnSet(f2, R \cup {n}) = SumFunctionOnSet(f, R)
        BY <2>2, <3>2, <4>2, <4>4
      <4>6. QED
        BY <2>1, <3>1, <4>1, <4>5 DEF f2
    <3>5. QED
      BY <3>3, <3>4
  <2>6. QED
    BY <2>4, <2>5
<1>6. ASSUME NEW p \in Processes, Step(p) PROVE RowsAreCalls'
  <2>1. \A t \in DOMAIN spans' : spans'[t].own <= spans'[t].total
    BY <1>4, <1>6
  <2>2. \A a \in Articles :
          /\ made'[a] >= lost'[a]
          /\ made'[a] - lost'[a] = SumFunctionOnSet(Owns(spans'), RowsOf(traces', a))
    BY <1>5, <1>6
  <2>3. QED
    BY <2>1, <2>2 DEF RowsAreCalls, RowsOf, Owns
<1>7. QED
  BY <1>2, <1>6 DEF Next

LEMMA MaxOfTwo ==
  ASSUME NEW x \in Nat, NEW y \in Nat
  PROVE  Max({x, y}) = IF x >= y THEN x ELSE y
<1> DEFINE S == {x, y}
           m == IF x >= y THEN x ELSE y
<1>1. m \in S /\ \A z \in S : m >= z
  OBVIOUS
<1>2. \A n \in S : (\A z \in S : n >= z) => n = m
  OBVIOUS
<1> HIDE DEF m
<1>3. QED
  BY <1>1, <1>2 DEF Max, m

LEMMA MinOfTwo ==
  ASSUME NEW x \in Nat, NEW y \in Nat
  PROVE  Min({x, y}) = IF x <= y THEN x ELSE y
<1> DEFINE S == {x, y}
           m == IF x <= y THEN x ELSE y
<1>1. m \in S /\ \A z \in S : m <= z
  OBVIOUS
<1>2. \A n \in S : (\A z \in S : n <= z) => n = m
  OBVIOUS
<1> HIDE DEF m
<1>3. QED
  BY <1>1, <1>2 DEF Min, m

\* The ceiling is between the limit of the application and the most a fallback
\* may add to it.
LEMMA CeilingIs ==
  /\ Ceiling \in Nat /\ CallLimit <= Ceiling
  /\ \A r, n \in Nat :
       Fallback /\ n \in Reserve /\ r <= CallLimit + n
         /\ (GatewayLimit > 0 => r <= GatewayLimit) => r <= Ceiling
<1> DEFINE M == Max(Reserve)
<1>1. CallLimit \in Nat /\ GatewayLimit \in Nat
  BY SdkTracesAssumption
<1>2. M \in Nat /\ \A n \in Reserve : n <= M
  <2>1. Reserve \in SUBSET Nat /\ IsFiniteSet(Reserve) /\ Reserve # {}
    BY SdkTracesAssumption
  <2>2. M \in Reserve /\ \A n \in Reserve : M >= n
    BY <2>1, MaxOfNats
  <2>3. \A n \in Reserve : n \in Nat
    BY <2>1
  <2>4. QED
    BY <2>2, <2>3
<1>3. CASE ~Fallback
  BY <1>1, <1>3 DEF Ceiling
<1>4. CASE Fallback /\ GatewayLimit = 0
  <2>1. Ceiling = CallLimit + M
    BY <1>4 DEF Ceiling
  <2> HIDE DEF M
  <2>2. \A r, n \in Nat : n \in Reserve /\ r <= CallLimit + n => r <= CallLimit + M
    BY <1>1, <1>2
  <2>3. QED
    BY <1>1, <1>2, <2>1, <2>2
<1>5. CASE Fallback /\ GatewayLimit # 0
  <2> DEFINE m == Min({GatewayLimit, CallLimit + M})
  <2>1. Ceiling = Max({CallLimit, m})
    BY <1>5 DEF Ceiling
  <2>2. CallLimit + M \in Nat
    BY <1>1, <1>2
  <2>3. m = IF GatewayLimit <= CallLimit + M THEN GatewayLimit ELSE CallLimit + M
    BY <1>1, <2>2, MinOfTwo
  <2> HIDE DEF m, M
  <2>4. m \in Nat /\ m <= GatewayLimit /\ m <= CallLimit + M
        /\ (m = GatewayLimit \/ m = CallLimit + M)
    BY <1>1, <2>2, <2>3
  <2>5. Ceiling = IF CallLimit >= m THEN CallLimit ELSE m
    BY <1>1, <2>1, <2>4, MaxOfTwo
  <2>6. Ceiling \in Nat /\ CallLimit <= Ceiling /\ m <= Ceiling
    BY <1>1, <2>4, <2>5
  <2>7. ASSUME NEW r \in Nat, NEW n \in Nat, n \in Reserve, r <= CallLimit + n,
               GatewayLimit > 0 => r <= GatewayLimit
        PROVE  r <= Ceiling
    <3>1. r <= GatewayLimit /\ n <= M
      BY <1>1, <1>2, <1>5, <2>7
    <3>2. r <= m
      BY <1>1, <1>2, <2>4, <2>7, <3>1
    <3>3. QED
      BY <2>4, <2>6, <3>2
  <2>8. QED
    BY <2>6, <2>7
<1>6. Fallback \in BOOLEAN
  BY SdkTracesAssumption
<1>7. QED
  BY <1>1, <1>3, <1>4, <1>5, <1>6

\* Numbers of a call under way for an article.
LEMMA CallNumbers ==
  ASSUME BasicInv, NEW a \in Articles, NEW p \in Callers(pc, job, a)
  PROVE  /\ p \in Processes /\ pc[p] \in Calling /\ job[p] \in Jobs /\ job[p].article = a
         /\ job[p].needed \in Reserve /\ job[p].needed \in Nat /\ job[p].left \in Nat
         /\ job[p].left > 0 \/ pc[p] = "answer"
         /\ pc[p] # "adhoc"
         /\ job[p].trace = NoTrace => pc[p] \in {"lookup", "open"}
         /\ job[p].trace # NoTrace =>
              /\ job[p].trace \in DOMAIN traces /\ traces[job[p].trace].article = a
              /\ spans[job[p].trace].total \in Nat /\ spans[job[p].trace].own \in Nat
<1>1. p \in Processes /\ pc[p] \in Calling /\ job[p].article = a /\ JobOK(p)
  BY DEF Callers, BasicInv, JobsOK
<1>2. job[p] \in Jobs /\ a # NoArticle
  BY <1>1, JobAt, SdkTracesAssumption DEF Calling
<1>3. job[p].trace # NoTrace =>
              /\ job[p].trace \in DOMAIN traces /\ traces[job[p].trace].article = a
  BY <1>1, <1>2, JobAt DEF Calling
<1>4. job[p].trace # NoTrace =>
        spans[job[p].trace].total \in Nat /\ spans[job[p].trace].own \in Nat
  BY <1>3, Rows DEF BasicInv, SpanCounts
<1>5. /\ job[p].needed \in Reserve /\ job[p].needed \in Nat /\ job[p].left \in Nat
      /\ job[p].left > 0 \/ pc[p] = "answer"
  BY <1>1, <1>2 DEF JobOK, Jobs
<1>6. pc[p] # "adhoc" /\ (job[p].trace = NoTrace => pc[p] \in {"lookup", "open"})
  BY <1>1, <1>2 DEF JobOK, Calling
<1>7. QED
  BY <1>1, <1>2, <1>3, <1>4, <1>5, <1>6

\* A call goes on within its room.
LEMMA RoomStep ==
  ASSUME BasicInv, RowsAreCalls, NEW p \in Processes, Step(p), ~Call(p), NEW a \in Articles,
         p \in Callers(pc, job, a), p \in Callers(pc', job', a),
         Room(pc[p], job[p], spans[job[p].trace].own)
  PROVE  Room(pc'[p], job'[p], spans'[job'[p].trace].own)
<1> DEFINE j == job[p]
           rows == spans[job[p].trace].own
           all == spans[job[p].trace].total
<1>1. pc \in [Processes -> PCs] /\ job \in [Processes -> Jobs \cup {NoJob}]
  BY DEF BasicInv, ShapesOK
<1>2. \A l : Goto(p, l) \/ Done(p, l) => pc'[p] = l
  BY <1>1 DEF Goto, Done
<1>3. /\ j \in Jobs /\ j.article = a /\ j.needed \in Nat /\ j.left \in Nat
      /\ j.left > 0 \/ pc[p] = "answer"
      /\ pc[p] # "adhoc" /\ pc[p] \in Calling
      /\ j.trace = NoTrace => pc[p] \in {"lookup", "open"}
      /\ j.trace # NoTrace => j.trace \in DOMAIN traces /\ rows \in Nat
  BY CallNumbers
<1>4. pc'[p] \in Calling /\ a # NoArticle
  BY SdkTracesAssumption DEF Callers
<1>5. CallLimit \in Nat /\ GatewayLimit \in Nat
  BY SdkTracesAssumption
<1>6. CASE LookUp(p) \/ Open(p)
  <2>1. pc[p] \in {"lookup", "open"} /\ pc'[p] \in {"open", "budget"}
    BY <1>2, <1>6 DEF LookUp, Open
  <2>2. UNCHANGED job \/ \E t : job' = [job EXCEPT ![p].trace = t]
    BY <1>6 DEF LookUp, Open
  <2>3. job'[p].standin = j.standin /\ job'[p].left = j.left /\ job'[p].needed = j.needed
    BY <1>1, <1>3, <2>2 DEF Jobs
  <2>4. ~j.standin /\ j.left = j.needed
    BY <2>1 DEF Room
  <2>5. QED
    BY <2>1, <2>3, <2>4 DEF Room
<1>7. CASE EnsureBudget(p) \/ AuditRaw(p) \/ GuardCalls(p) \/ AnswerFails(p)
  <2>1. pc[p] \in {"budget", "audit", "guard", "answer"}
    BY <1>7 DEF EnsureBudget, AuditRaw, GuardCalls, AnswerFails
  <2>2. j.trace \in DOMAIN traces /\ rows \in Nat /\ j.trace # NoTrace
    BY <1>3, <2>1
  <2>3. ~Record(p) /\ ~Done(p, "idle")
    BY <1>2, <1>4, <2>1 DEF Record, Calling
  <2>4. spans'[j.trace].own = rows
    BY <2>2, <2>3, TotalsStep
  <2>10. all \in Nat /\ rows <= all
    BY <2>2, CallNumbers, Rows DEF BasicInv, RowsAreCalls
  <2>5. CASE EnsureBudget(p)
    <3>0. /\ all + j.needed <= CallLimit /\ UNCHANGED job /\ pc[p] = "budget"
          /\ pc'[p] \in {"audit", "guard"}
      BY <1>2, <1>3, <1>4, <2>3, <2>5 DEF EnsureBudget, Fits
    <3>1. /\ rows + j.needed <= CallLimit /\ UNCHANGED job /\ pc[p] = "budget"
          /\ pc'[p] \in {"audit", "guard"}
      BY <1>3, <1>5, <2>2, <2>10, <3>0
    <3>2. ~j.standin /\ j.left = j.needed
      BY <3>1 DEF Room
    <3>3. QED
      BY <2>4, <3>1, <3>2 DEF Room
  <2>6. CASE AuditRaw(p)
    <3>1. UNCHANGED job /\ pc[p] = "audit" /\ pc'[p] = "guard"
      BY <1>2, <2>2, <2>3, <2>6 DEF AuditRaw
    <3>2. ~j.standin /\ j.left = j.needed /\ rows + j.needed <= CallLimit
      BY <3>1 DEF Room
    <3>3. QED
      BY <2>4, <3>1, <3>2 DEF Room
  <2>7. CASE GuardCalls(p)
    <3>0. /\ GatewayLimit > 0 => all + j.needed <= GatewayLimit
          /\ UNCHANGED job /\ pc[p] = "guard" /\ pc'[p] = "record"
      BY <1>2, <2>3, <2>7 DEF GuardCalls
    <3>1. /\ GatewayLimit > 0 => rows + j.needed <= GatewayLimit
          /\ UNCHANGED job /\ pc[p] = "guard" /\ pc'[p] = "record"
      BY <1>3, <1>5, <2>2, <2>10, <3>0
    <3>2. CASE j.standin
      <4>1. Fallback /\ rows <= CallLimit /\ j.left = j.needed
        BY <3>1, <3>2 DEF Room
      <4>2. rows + j.left <= CallLimit + j.needed
        BY <1>3, <1>5, <2>2, <4>1
      <4>3. GatewayLimit > 0 => rows + j.left <= GatewayLimit
        BY <3>1, <4>1
      <4>4. QED
        BY <2>4, <3>1, <3>2, <4>1, <4>2, <4>3 DEF Room
    <3>3. CASE ~j.standin
      <4>1. rows + j.needed <= CallLimit /\ j.left = j.needed
        BY <3>1, <3>3 DEF Room
      <4>2. QED
        BY <2>4, <3>1, <3>3, <4>1 DEF Room
    <3>4. QED
      BY <3>2, <3>3
  <2>8. CASE AnswerFails(p)
    <3>1. pc[p] = "answer"
      BY <2>8 DEF AnswerFails
    <3>2. \/ UNCHANGED job /\ pc'[p] = "record"
          \/ /\ Fallback /\ ~j.standin /\ ~(j.left > 0) /\ pc'[p] = "guard"
             /\ job' = [job EXCEPT ![p].standin = TRUE, ![p].left = job[p].needed]
      BY <1>2, <2>3, <2>8 DEF AnswerFails
    <3>3. CASE UNCHANGED job /\ pc'[p] = "record"
      BY <2>4, <3>1, <3>3 DEF Room
    <3>4. CASE /\ Fallback /\ ~j.standin /\ ~(j.left > 0) /\ pc'[p] = "guard"
               /\ job' = [job EXCEPT ![p].standin = TRUE, ![p].left = job[p].needed]
      <4>1. /\ job'[p].trace = j.trace /\ job'[p].standin = TRUE
            /\ job'[p].left = j.needed /\ job'[p].needed = j.needed
        BY <1>1, <1>3, <3>4 DEF Jobs
      <4>2. rows + j.left <= CallLimit
        BY <3>1, <3>4 DEF Room
      <4>3. rows <= CallLimit
        BY <1>3, <1>5, <2>2, <4>2
      <4>4. QED
        BY <2>4, <3>4, <4>1, <4>3 DEF Room
    <3>5. QED
      BY <3>2, <3>3, <3>4
  <2>9. QED
    BY <1>7, <2>5, <2>6, <2>7, <2>8
<1>8. CASE Record(p)
  <2>1. PICK stored \in BOOLEAN :
          /\ pc[p] = "record" /\ pc'[p] = "answer" /\ j.trace \in DOMAIN traces
          /\ job'[p].trace = j.trace /\ job'[p].needed = j.needed
          /\ job'[p].left = j.left - 1 /\ job'[p].standin = j.standin
          /\ spans'[j.trace].own = IF stored THEN rows + 1 ELSE rows
    BY <1>3, <1>4, <1>8, RecordEffect
  <2>2. rows \in Nat
    BY <1>3, <2>1
  <2> DEFINE rows2 == spans'[job'[p].trace].own
  <2>3. rows2 \in Nat /\ rows2 + job'[p].left <= rows + j.left
    BY <1>3, <2>1, <2>2
  <2>4. job'[p].left \in Int
    BY <1>3, <2>1
  <2>5. CASE j.standin
    <3>1. /\ Fallback /\ rows + j.left <= CallLimit + j.needed
          /\ GatewayLimit > 0 => rows + j.left <= GatewayLimit
      BY <2>1, <2>5 DEF Room
    <3>2. /\ rows2 + job'[p].left <= CallLimit + j.needed
          /\ GatewayLimit > 0 => rows2 + job'[p].left <= GatewayLimit
      BY <1>3, <1>5, <2>2, <2>3, <2>4, <3>1
    <3> HIDE DEF rows2
    <3>3. Room(pc'[p], job'[p], rows2)
      BY <2>1, <2>5, <3>1, <3>2 DEF Room
    <3>4. QED
      BY <3>3 DEF rows2
  <2>6. CASE ~j.standin
    <3>1. rows + j.left <= CallLimit
      BY <2>1, <2>6 DEF Room
    <3>2. rows2 + job'[p].left <= CallLimit
      BY <1>3, <1>5, <2>2, <2>3, <2>4, <3>1
    <3> HIDE DEF rows2
    <3>3. Room(pc'[p], job'[p], rows2)
      BY <2>1, <2>6, <3>2 DEF Room
    <3>4. QED
      BY <3>3 DEF rows2
  <2>7. QED
    BY <2>5, <2>6
<1>9. CASE ~(LookUp(p) \/ Open(p) \/ EnsureBudget(p) \/ AuditRaw(p) \/ GuardCalls(p)
             \/ AnswerFails(p) \/ Record(p))
  <2>1. CASE Enter(p) \/ Mark(p) \/ Leave(p) \/ Launch(p) \/ OpsCall(p) \/ Finish(p)
             \/ Exit(p) \/ Derive(p) \/ Close(p) \/ OpenAdhoc(p)
    BY <1>3, <2>1 DEF Enter, Mark, Leave, Launch, OpsCall, Finish, Exit, Derive, Close,
       OpenAdhoc, Calling
  <2>2. CASE AnswerOk(p) \/ Crash(p)
    BY <1>2, <1>4, <2>2 DEF AnswerOk, Crash, Stop, Calling
  <2>3. QED
    BY <1>9, <2>1, <2>2 DEF Step
<1>10. QED
  BY <1>6, <1>7, <1>8, <1>9

LEMMA LeftFitsStep ==
  ASSUME BasicInv, SoleCaller, RowsAreCalls, LeftFits, [Next]_vars
  PROVE  LeftFits'
<1>1. /\ ShapesOK /\ pc \in [Processes -> PCs] /\ job \in [Processes -> Jobs \cup {NoJob}]
  BY DEF BasicInv, ShapesOK
<1>2. overlapped \subseteq overlapped'
  BY OverlappedGrows
<1>3. CASE Tick \/ UNCHANGED vars
  <2>1. UNCHANGED <<overlapped, pc, job, traces, spans>>
    BY <1>3 DEF Tick, vars, local, tables, history
  <2>2. QED
    BY <2>1 DEF LeftFits, Callers, RowsOf
<1>4. ASSUME NEW p \in Processes, Step(p), NEW a \in Articles \ overlapped',
             NEW t \in RowsOf(traces', a)
      PROVE  spans'[t].own <= Ceiling
  <2>1. a \in Articles \ overlapped /\ a \in Articles /\ a # NoArticle
    BY <1>2, <1>4, SdkTracesAssumption
  <2>2. CASE t \notin RowsOf(traces, a)
    <3>1. spans'[t] = NoSpans
      BY <1>4, <2>1, <2>2, RowsOfStep
    <3>2. QED
      BY <3>1, CeilingIs DEF NoSpans
  <2>3. CASE t \in RowsOf(traces, a) /\ ~Record(p)
    <3>1. spans'[t].own = spans[t].own
      BY <1>4, <2>3, TotalsStep DEF RowsOf
    <3>2. QED
      BY <2>1, <2>3, <3>1 DEF LeftFits
  <2>4. CASE t \in RowsOf(traces, a) /\ Record(p)
    <3>1. t \in DOMAIN traces /\ traces[t].article = a /\ spans[t].own <= Ceiling
      BY <2>1, <2>4 DEF RowsOf, LeftFits
    <3>2. PICK stored \in BOOLEAN :
            /\ pc[p] = "record" /\ job[p].trace \in DOMAIN traces
            /\ job[p].article # NoArticle => traces[job[p].trace].article = job[p].article
            /\ IF stored /\ t = job[p].trace
               THEN spans'[t].own = IF job[p].article = NoArticle THEN spans[t].own
                                    ELSE spans[t].own + 1
               ELSE spans'[t] = spans[t]
      BY <2>4, <3>1, RecordEffect
    <3>3. CASE stored /\ t = job[p].trace /\ job[p].article # NoArticle
      <4> DEFINE rows == spans[job[p].trace].own
                 left == job[p].left
                 needed == job[p].needed
      <4>1. p \in Callers(pc, job, a)
        BY <3>1, <3>2, <3>3 DEF Callers, Calling
      <4>2. Room("record", job[p], rows)
        BY <2>1, <3>2, <4>1 DEF LeftFits
      <4>3. left \in Nat /\ left > 0 /\ needed \in Reserve /\ needed \in Nat /\ rows \in Nat
        <5>1. job[p].trace # NoTrace
          BY <1>1, <3>2, Rows DEF NoTrace
        <5>2. QED
          BY <2>1, <3>2, <4>1, <5>1, CallNumbers
      <4>4. spans'[t].own = rows + 1
        BY <3>2, <3>3
      <4>5. CASE job[p].standin
        <5>1. /\ Fallback /\ rows + left <= CallLimit + needed
              /\ GatewayLimit > 0 => rows + left <= GatewayLimit
          BY <4>2, <4>5 DEF Room
        <5> HIDE DEF rows, left, needed
        <5>2. /\ rows + 1 <= CallLimit + needed /\ rows + 1 \in Nat
              /\ GatewayLimit > 0 => rows + 1 <= GatewayLimit
          BY <4>3, <5>1, SdkTracesAssumption
        <5>3. rows + 1 <= Ceiling
          BY <4>3, <5>1, <5>2, CeilingIs
        <5>4. QED
          BY <4>4, <5>3
      <4>6. CASE ~job[p].standin
        <5>1. rows + left <= CallLimit
          BY <4>2, <4>6 DEF Room
        <5> HIDE DEF rows, left, needed
        <5>2. rows + 1 <= CallLimit /\ CallLimit \in Nat
          BY <4>3, <5>1, SdkTracesAssumption
        <5>3. QED
          BY <4>3, <4>4, <5>2, CeilingIs
      <4>7. QED
        BY <4>5, <4>6
    <3>4. CASE ~(stored /\ t = job[p].trace /\ job[p].article # NoArticle)
      <4>1. spans'[t].own = spans[t].own
        BY <3>2, <3>4
      <4>2. QED
        BY <3>1, <4>1
    <3>5. QED
      BY <3>3, <3>4
  <2>5. QED
    BY <2>2, <2>3, <2>4
<1>5. ASSUME NEW p \in Processes, Step(p), NEW a \in Articles \ overlapped',
             NEW q \in Callers(pc', job', a)
      PROVE  Room(pc'[q], job'[q], spans'[job'[q].trace].own)
  <2>1. a \in Articles \ overlapped /\ a \in Articles /\ a # NoArticle
    BY <1>2, <1>5, SdkTracesAssumption
  <2>2. q \in Callers(pc, job, a) \/ (q = p /\ Call(p))
    BY <1>5, <2>1, CallersStep
  <2>3. q \in Callers(pc, job, a) => Room(pc[q], job[q], spans[job[q].trace].own)
    BY <2>1 DEF LeftFits
  <2>4. CASE Call(p) /\ q = p
    <3>1. PICK b \in bounds.keys, raw \in BOOLEAN, n \in Reserve :
            /\ job' = [job EXCEPT ![p] = NewJob(b, traceOf[p][b], raw, n)]
            /\ Goto(p, IF traceOf[p][b] # NoTrace THEN "budget"
                       ELSE IF b = NoArticle THEN "open" ELSE "lookup")
      BY <2>4 DEF Call
    <3>2. job'[p].standin = FALSE /\ job'[p].left = n /\ job'[p].needed = n
      BY <1>1, <3>1 DEF NewJob
    <3>3. pc'[p] \in {"budget", "open", "lookup"}
      BY <1>1, <3>1 DEF Goto
    <3>4. QED
      BY <2>4, <3>2, <3>3 DEF Room
  <2>5. CASE ~Call(p) /\ q = p
    BY <1>5, <2>1, <2>2, <2>3, <2>5, RoomStep
  <2>6. CASE q # p
    <3>1. /\ q \in Callers(pc, job, a) /\ q \in Processes
          /\ pc'[q] = pc[q] /\ job'[q] = job[q]
      BY <1>1, <1>5, <2>2, <2>6, Others DEF Callers
    <3>2. CASE job[q].trace = NoTrace
      <4>1. pc[q] \in {"lookup", "open"}
        BY <2>1, <3>1, <3>2, CallNumbers
      <4>2. QED
        BY <2>3, <3>1, <4>1 DEF Room
    <3>3. CASE job[q].trace # NoTrace
      <4>1. job[q].trace \in DOMAIN traces /\ traces[job[q].trace].article = a
        BY <2>1, <3>1, <3>3, CallNumbers
      <4>2. spans'[job[q].trace].own = spans[job[q].trace].own
        <5>1. CASE Record(p)
          <6>1. PICK stored \in BOOLEAN :
                  /\ pc[p] = "record"
                  /\ job[p].article # NoArticle =>
                       traces[job[p].trace].article = job[p].article
                  /\ \A u \in DOMAIN traces :
                       IF stored /\ u = job[p].trace
                       THEN spans'[u].own = IF job[p].article = NoArticle THEN spans[u].own
                                            ELSE spans[u].own + 1
                       ELSE spans'[u] = spans[u]
            BY <5>1, RecordEffect
          <6>2. job[q].trace # job[p].trace \/ job[p].article = NoArticle
            <7>1. ASSUME job[q].trace = job[p].trace, job[p].article # NoArticle PROVE FALSE
              <8>1. p \in Callers(pc, job, a)
                BY <4>1, <6>1, <7>1 DEF Callers, Calling
              <8>2. QED
                BY <2>1, <2>6, <3>1, <8>1 DEF SoleCaller
            <7>2. QED
              BY <7>1
          <6>3. QED
            BY <4>1, <6>1, <6>2
        <5>2. CASE ~Record(p)
          BY <1>5, <4>1, <5>2, TotalsStep
        <5>3. QED
          BY <5>1, <5>2
      <4>3. QED
        BY <2>3, <3>1, <4>2
    <3>4. QED
      BY <3>2, <3>3
  <2>7. QED
    BY <2>2, <2>4, <2>5, <2>6
<1>6. ASSUME NEW p \in Processes, Step(p) PROVE LeftFits'
  <2>1. \A a \in Articles \ overlapped' :
          /\ \A t \in RowsOf(traces', a) : spans'[t].own <= Ceiling
          /\ \A q \in Callers(pc', job', a) :
               Room(pc'[q], job'[q], spans'[job'[q].trace].own)
    BY <1>4, <1>5, <1>6
  <2>2. Ceiling' = Ceiling
    BY DEF Ceiling
  <2>3. QED
    BY <2>1, <2>2 DEF LeftFits, Callers, RowsOf, Room
<1>7. QED
  BY <1>3, <1>6 DEF Next

\* The calls made for an article one after the other stay within the limit of
\* the application, over all its runs, once for each trace of the article,
\* whatever closings, restarts and deaths come between: ensure_budget counts the
\* rows of the trace a call goes under, and the call has room for every attempt it
\* reserved (CGMP rule 3, calls_used); the rows of all the traces together are the
\* calls that left one.
THEOREM SdkTracesArticleWithinLimit == Spec => []ArticleWithinLimit
<1>1. Init => RowsAreCalls /\ LeftFits
  <2> SUFFICES ASSUME Init PROVE RowsAreCalls /\ LeftFits
    OBVIOUS
  <2>1. /\ DOMAIN traces = {} /\ DOMAIN spans = {} /\ \A p \in Processes : pc[p] = "down"
        /\ \A a \in Articles : made[a] = 0 /\ lost[a] = 0
    BY DEF Init
  <2>2. \A a \in Articles : RowsOf(traces, a) = {} /\ Callers(pc, job, a) = {}
    BY <2>1 DEF RowsOf, Callers, Calling
  <2>3. SumFunctionOnSet(Owns(spans), {}) = 0
    BY SumEmpty
  <2>4. RowsAreCalls
    <3>1. \A a \in Articles : SumFunctionOnSet(Owns(spans), RowsOf(traces, a)) = 0
      BY <2>2, <2>3
    <3>2. QED
      BY <2>1, <3>1 DEF RowsAreCalls
  <2>5. LeftFits
    BY <2>2 DEF LeftFits
  <2>6. QED
    BY <2>4, <2>5
<1>2. BasicInv /\ BasicInv' /\ SoleCaller /\ RowsAreCalls /\ LeftFits /\ [Next]_vars
        => RowsAreCalls' /\ LeftFits'
  BY RowsAreCallsStep, LeftFitsStep
<1>3. BasicInv /\ RowsAreCalls /\ LeftFits => ArticleWithinLimit
  <2> SUFFICES ASSUME BasicInv, RowsAreCalls, LeftFits, NEW a \in Articles \ overlapped
               PROVE  made[a] - lost[a] <= Ceiling * Cardinality(TracesOf(a))
    BY DEF ArticleWithinLimit
  <2>1. TracesOf(a) = RowsOf(traces, a)
    BY DEF TracesOf, RowsOf
  <2>2. \A t \in RowsOf(traces, a) : Owns(spans)[t] \in Nat /\ Owns(spans)[t] <= Ceiling
    BY OwnedRows DEF LeftFits, BasicInv
  <2>3. IsFiniteSet(RowsOf(traces, a)) /\ Ceiling \in Nat
    BY OwnedRows, CeilingIs DEF BasicInv
  <2>4. SumFunctionOnSet(Owns(spans), RowsOf(traces, a))
          <= Ceiling * Cardinality(RowsOf(traces, a))
    BY <2>2, <2>3, SumBounded
  <2>5. made[a] - lost[a] = SumFunctionOnSet(Owns(spans), RowsOf(traces, a))
    BY DEF RowsAreCalls
  <2>6. QED
    BY <2>1, <2>4, <2>5
<1>4. QED
  BY <1>1, <1>2, <1>3, SdkTracesBasics, SdkTracesOneTrace, PTL DEF Spec

=============================================================================
