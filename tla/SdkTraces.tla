----------------------------- MODULE SdkTraces -----------------------------
(***************************************************************************)
(* Who opens a trace, which calls go under it and who closes it: the       *)
(* drop-in LLMClient of the migrated applications (sdk/compat.py), which   *)
(* keeps one trace per article across processes and counts its calls, and  *)
(* the `with ops.trace(...)` of the SDK (sdk/client.py), over the rows the *)
(* tracer keeps of traces (observability/tracer.py).                       *)
(*                                                                         *)
(* A process is one run of an application; it may be started again after   *)
(* it exits or dies, and then remembers nothing.  One action is one        *)
(* committed statement or one read.  The steps of the gateway below a call *)
(* are the subject of Gateway; here it counts the spans of the trace,      *)
(* makes its attempts, and may fall back once.                             *)
(***************************************************************************)
EXTENDS Integers, Sequences, FiniteSets, SequencesExt, FiniteSetsExt

CONSTANTS
  Processes,    \* applications of one system that run at the same time
  Articles,     \* request_id, the external_id of a trace
  NoArticle,    \* request_id or external_id None
  CallLimit,    \* LLMClient.call_limit
  GatewayLimit, \* guard.calls_per_trace_limit of the gateway; 0 = off
  Reserve,      \* gateway.retry_max, and 1 for retry=False
  Fallback,     \* the model has a fallback
  AllowRaw,     \* gateway.allow_raw_completion of each process
  NoJob,        \* no call and no closing under way
  Scenarios     \* bounds: how often each thing may happen, see Bounds

NoTrace == 0
Keys    == Articles \cup {NoArticle}

\* What calls and blocks may name; processes started, calls of LLMClient, `with` blocks,
\* calls of LLMOps, explicit finish(), seconds that pass, statements that fail,
\* deaths.
Bounds == [keys : SUBSET Keys, launches : Nat, calls : Nat, withs : Nat, opsCalls : Nat,
           finishes : Nat, seconds : Nat, faults : Nat, crashes : Nat]

ASSUME SdkTracesAssumption ==
  /\ IsFiniteSet(Processes)
  /\ NoArticle \notin Articles
  /\ CallLimit \in Nat /\ GatewayLimit \in Nat
  /\ Reserve \subseteq Nat \ {0} /\ Reserve # {} /\ IsFiniteSet(Reserve)
  /\ Fallback \in BOOLEAN
  /\ AllowRaw \in [Processes -> BOOLEAN]
  /\ Scenarios \subseteq Bounds

Kinds    == {"client", "with", "adhoc"}
Statuses == {"running", "success", "partial", "failed"}

VARIABLES
  pc,         \* where each process is inside the client
  job,        \* the call or the closing it is busy with
  traceOf,    \* LLMClient._traces
  opened,     \* LLMClient._opened
  stack,      \* LLMOps._stack: traces of the `with` blocks it is in
  traces,     \* table traces, in insertion order
  spans,      \* table spans: rows and successful rows of each trace, and (own)
              \* the rows of calls LLMClient made for an article
  now,        \* utcnow(), in seconds
  made,       \* history: provider calls for each article
  lost,       \* history: those of them without a row
  overlapped, \* history: articles for which a call or a block began during a call
  excused,    \* history: traces whose status need not tell of their spans
  abandoned,  \* history: traces whose process died, or whose closing got lost
  bounds      \* how often things may still happen

local   == <<job, traceOf, opened, stack>>
tables  == <<traces, spans>>
history == <<made, lost, overlapped, excused, abandoned>>
vars    == <<pc, local, tables, now, history, bounds>>

\* kept: the row exists.  A lost INSERT leaves an id that no row has.
TraceRows == [article : Keys, started : Nat, status : Statuses, kept : BOOLEAN,
              by : Kinds]

\* left: attempts still to make.  standin: the model is the fallback.
\* stored: the row of the current span exists.  status: what to close with.
Jobs == [article : Keys, trace : Nat, raw : BOOLEAN, needed : Nat, left : Nat,
         standin : BOOLEAN, stored : BOOLEAN, status : Statuses]

ASSUME JobsAssumption == NoJob \notin Jobs

PCs == {"down", "idle", "exit", "lookup", "open", "adhoc", "budget", "audit", "guard",
        "record", "answer", "derive", "close"}

Init ==
  /\ pc         = [p \in Processes |-> "down"]
  /\ job        = [p \in Processes |-> NoJob]
  /\ traceOf    = [p \in Processes |-> [a \in Keys |-> NoTrace]]
  /\ opened     = [p \in Processes |-> {}]
  /\ stack      = [p \in Processes |-> <<>>]
  /\ traces     = <<>>
  /\ spans      = <<>>
  /\ now        = 0
  /\ made       = [a \in Articles |-> 0]
  /\ lost       = [a \in Articles |-> 0]
  /\ overlapped = {}
  /\ excused    = {}
  /\ abandoned  = {}
  /\ bounds     \in Scenarios

-----------------------------------------------------------------------------
(* Building blocks *)

Goto(p, l) == pc' = [pc EXCEPT ![p] = l]

\* One of the bounded things happens.
Once(b) == bounds[b] > 0 /\ bounds' = [bounds EXCEPT ![b] = @ - 1]

\* The call or the closing is over, by returning or by raising.
Done(p, l) == Goto(p, l) /\ job' = [job EXCEPT ![p] = NoJob]

\* The process is gone, and what it remembered with it.
Stop(p) ==
  /\ Done(p, "down")
  /\ traceOf' = [traceOf EXCEPT ![p] = [a \in Keys |-> NoTrace]]
  /\ opened'  = [opened EXCEPT ![p] = {}]
  /\ stack'   = [stack EXCEPT ![p] = <<>>]

NewTrace(article, by, kept) ==
  [article |-> article, started |-> now, status |-> "running", kept |-> kept, by |-> by]

NoSpans == [total |-> 0, ok |-> 0, own |-> 0]

\* Tracer.start_trace: the id is valid even when its row could not be stored.
StartTrace(article, by) ==
  /\ \E kept \in BOOLEAN :
       /\ IF kept THEN UNCHANGED bounds ELSE Once("faults")
       /\ traces' = Append(traces, NewTrace(article, by, kept))
  /\ spans' = Append(spans, NoSpans)

\* Tracer.end_trace, which is best-effort too.
EndTrace(t, status) ==
  \/ /\ traces' = IF traces[t].kept THEN [traces EXCEPT ![t].status = status] ELSE traces
     /\ UNCHANGED <<abandoned, bounds>>
  \/ /\ traces[t].kept /\ Once("faults")
     /\ abandoned' = abandoned \cup {t}
     /\ UNCHANGED traces

NewJob(article, trace, raw, n) ==
  [article |-> article, trace |-> trace, raw |-> raw, needed |-> n, left |-> n,
   standin |-> FALSE, stored |-> FALSE, status |-> "running"]

Launch(p) ==
  /\ pc[p] = "down"
  /\ Once("launches")
  /\ Goto(p, "idle")
  /\ UNCHANGED <<local, tables, now, history>>

-----------------------------------------------------------------------------
(* LLMClient._complete and _call_raw *)

\* Somebody is in the middle of a call for the article.
UnderWay(a) ==
  \E q \in Processes : /\ job[q] # NoJob /\ job[q].article = a
                       /\ pc[q] \notin {"derive", "close"}

Overlap(a) == IF UnderWay(a) THEN overlapped \cup {a} ELSE overlapped

\* complete_json, complete_text (raw = FALSE), call_json, call_text, call.
Call(p) ==
  /\ pc[p] = "idle"
  /\ Once("calls")
  /\ \E a \in bounds.keys, raw \in BOOLEAN, n \in Reserve :
       /\ job' = [job EXCEPT ![p] = NewJob(a, traceOf[p][a], raw, n)]
       /\ Goto(p, IF traceOf[p][a] # NoTrace THEN "budget"
                  ELSE IF a = NoArticle THEN "open" ELSE "lookup")
       /\ overlapped' = Overlap(a)
  /\ UNCHANGED <<traceOf, opened, stack, tables, now, made, lost, excused, abandoned>>

\* Bug: any trace of the system will do.
FoundAny(a) == {t \in DOMAIN traces : traces[t].kept}

\* Bug: only traces that are not closed are found again.
FoundRunning(a) == {t \in DOMAIN traces : /\ traces[t].kept /\ traces[t].article = a
                                          /\ traces[t].status = "running"}

Found(a) == {t \in DOMAIN traces : traces[t].kept /\ traces[t].article = a}

\* find_trace_by_external_id: any of the newest, to the second, whoever opened
\* it and whatever became of it.
LookUp(p) ==
  /\ pc[p] = "lookup"
  /\ LET found == Found(job[p].article)
     IN  \/ /\ found = {}
            /\ Goto(p, "open")
            /\ UNCHANGED <<job, traceOf>>
         \/ \E t \in found :
              /\ \A u \in found : traces[u].started <= traces[t].started
              /\ traceOf' = [traceOf EXCEPT ![p][job[p].article] = t]
              /\ job' = [job EXCEPT ![p].trace = t]
              /\ Goto(p, "budget")
  /\ UNCHANGED <<opened, stack, tables, now, history, bounds>>

Open(p) ==
  /\ pc[p] = "open"
  /\ StartTrace(job[p].article, "client")
  /\ LET t == Len(traces) + 1
     IN  /\ traceOf' = [traceOf EXCEPT ![p][job[p].article] = t]
         /\ opened'  = [opened EXCEPT ![p] = @ \cup {t}]
         /\ job'     = [job EXCEPT ![p].trace = t]
  /\ Goto(p, "budget")
  /\ UNCHANGED <<stack, now, history>>

\* Bug: the retries a call may need are not reserved.
FitsOne(p) ==
  job[p].article # NoArticle => spans[job[p].trace].total + 1 <= CallLimit

\* ensure_budget, for calls that name an article.
Fits(p) ==
  job[p].article # NoArticle =>
    spans[job[p].trace].total + job[p].needed <= CallLimit

EnsureBudget(p) ==
  /\ pc[p] = "budget"
  /\ IF Fits(p)
     THEN Goto(p, IF job[p].raw THEN "audit" ELSE "guard") /\ UNCHANGED job
     ELSE Done(p, "idle")
  /\ UNCHANGED <<traceOf, opened, stack, tables, now, history, bounds>>

\* complete_raw writes an audit row and goes on, or writes one and refuses; an
\* INSERT that fails reaches the caller.  Outside of any `with` it then opens a
\* trace that nobody closes (_trace_id_for); complete does so at once.
AuditRaw(p) ==
  /\ pc[p] = "audit"
  /\ \/ /\ AllowRaw[p]
        /\ Goto(p, IF job[p].trace = NoTrace THEN "adhoc" ELSE "guard")
        /\ UNCHANGED <<job, bounds>>
     \/ ~AllowRaw[p] /\ Done(p, "idle") /\ UNCHANGED bounds
     \/ Once("faults") /\ Done(p, "idle")
  /\ UNCHANGED <<traceOf, opened, stack, tables, now, history>>

OpenAdhoc(p) ==
  /\ pc[p] = "adhoc"
  /\ StartTrace(NoArticle, "adhoc")
  /\ job' = [job EXCEPT ![p].trace = Len(traces) + 1]
  /\ Goto(p, "guard")
  /\ UNCHANGED <<traceOf, opened, stack, now, history>>

\* Guard._check_calls, at the call and again at the fallback.
GuardCalls(p) ==
  /\ pc[p] = "guard"
  /\ IF GatewayLimit > 0 => spans[job[p].trace].total + job[p].needed <= GatewayLimit
     THEN Goto(p, "record") /\ UNCHANGED job
     ELSE Done(p, "idle")
  /\ UNCHANGED <<traceOf, opened, stack, tables, now, history, bounds>>

Counted(s, a) ==
  [s EXCEPT !.total = @ + 1, !.own = IF a = NoArticle THEN @ ELSE @ + 1]

\* Tracer.start_span, then the call.  Without the row of the trace there is no
\* row of the span.  A call by anybody but the one who will close the trace
\* may come after the status was derived.
Record(p) ==
  LET t == job[p].trace
      a == job[p].article
  IN  /\ pc[p] = "record"
      /\ Goto(p, "answer")
      /\ \E stored \in BOOLEAN :
           /\ IF stored THEN traces[t].kept /\ UNCHANGED bounds
              ELSE IF traces[t].kept THEN Once("faults") ELSE UNCHANGED bounds
           /\ spans' = IF stored THEN [spans EXCEPT ![t] = Counted(@, a)] ELSE spans
           /\ lost'  = IF stored \/ a = NoArticle THEN lost ELSE [lost EXCEPT ![a] = @ + 1]
           /\ job'   = [job EXCEPT ![p].stored = stored, ![p].left = @ - 1]
      /\ made'    = IF a = NoArticle THEN made ELSE [made EXCEPT ![a] = @ + 1]
      /\ excused' = IF t \in opened[p] THEN excused ELSE excused \cup {t}
      /\ UNCHANGED <<traceOf, opened, stack, traces, now, overlapped, abandoned>>

\* The provider answers; end_span.
AnswerOk(p) ==
  /\ pc[p] = "answer"
  /\ spans' = IF job[p].stored THEN [spans EXCEPT ![job[p].trace].ok = @ + 1] ELSE spans
  /\ Done(p, "idle")
  /\ UNCHANGED <<traceOf, opened, stack, traces, now, history, bounds>>

\* It fails: the next attempt, the fallback, or the end.
AnswerFails(p) ==
  /\ pc[p] = "answer"
  /\ IF job[p].left > 0 THEN Goto(p, "record") /\ UNCHANGED job
     ELSE IF Fallback /\ ~job[p].standin
     THEN /\ Goto(p, "guard")
          /\ job' = [job EXCEPT ![p].standin = TRUE, ![p].left = job[p].needed]
     ELSE Done(p, "idle")
  /\ UNCHANGED <<traceOf, opened, stack, tables, now, history, bounds>>

-----------------------------------------------------------------------------
(* Closing *)

\* Bug: a failed attempt that was repeated does not count.
DerivedLenient(t) == IF spans[t].total = 0 \/ spans[t].ok > 0 THEN "success" ELSE "partial"

\* _derive
Derived(t) == IF spans[t].total = spans[t].ok THEN "success" ELSE "partial"

\* finish(request_id), here "running", and finish(request_id, status).
Finish(p) ==
  /\ pc[p] = "idle"
  /\ Once("finishes")
  /\ \E a \in Keys, status \in {"running", "failed"} :
       LET t == traceOf[p][a]
       IN  /\ t \in opened[p]
           /\ job' = [job EXCEPT ![p] = [NewJob(a, t, FALSE, 0) EXCEPT !.status = status]]
           /\ Goto(p, IF status = "running" THEN "derive" ELSE "close")
           /\ excused' = IF status = "running" THEN excused ELSE excused \cup {t}
  /\ UNCHANGED <<traceOf, opened, stack, tables, now, made, lost, overlapped, abandoned>>

\* finish_open_traces at exit, one trace after the other.
Exit(p) ==
  /\ pc[p] \in {"idle", "exit"} /\ stack[p] = <<>>
  /\ \/ /\ opened[p] = {}
        /\ Stop(p)
     \/ \E t \in opened[p] :
          /\ job' = [job EXCEPT ![p] = NewJob(traces[t].article, t, TRUE, 0)]
          /\ Goto(p, "derive")
          /\ UNCHANGED <<traceOf, opened, stack>>
  /\ UNCHANGED <<tables, now, history, bounds>>

\* Counting them may fail: then 'success'.
Derive(p) ==
  /\ pc[p] = "derive"
  /\ \/ /\ job' = [job EXCEPT ![p].status = Derived(job[p].trace)]
        /\ UNCHANGED <<excused, bounds>>
     \/ /\ Once("faults")
        /\ job' = [job EXCEPT ![p].status = "success"]
        /\ excused' = excused \cup {job[p].trace}
  /\ Goto(p, "close")
  /\ UNCHANGED <<traceOf, opened, stack, tables, now, made, lost, overlapped, abandoned>>

\* Bug: the first failure to close one trace ends the closing of all.
RestDropped(p, t) == {}

Remaining(p, t) == opened[p] \ {t}

\* end_trace; job.raw marks the closing at exit.
Close(p) ==
  /\ pc[p] = "close"
  /\ EndTrace(job[p].trace, job[p].status)
  /\ opened' = [opened EXCEPT ![p] = Remaining(p, job[p].trace)]
  /\ Done(p, IF job[p].raw THEN "exit" ELSE "idle")
  /\ UNCHANGED <<traceOf, stack, spans, now, made, lost, overlapped, excused>>

-----------------------------------------------------------------------------
(* with ops.trace(...), and the calls inside *)

\* The traces a process will close.
Held(p) == opened[p] \cup {stack[p][i].trace : i \in DOMAIN stack[p]}

\* trace() and TraceContext.__enter__: always a new trace, with or without an
\* external_id.
Enter(p) ==
  /\ pc[p] = "idle" /\ bounds.withs > 0
  /\ \E a \in bounds.keys \cup {NoArticle}, kept \in BOOLEAN :
       /\ kept \/ bounds.faults > 0
       /\ bounds' = [bounds EXCEPT !.withs = @ - 1, !.faults = IF kept THEN @ ELSE @ - 1]
       /\ traces' = Append(traces, NewTrace(a, "with", kept))
       /\ overlapped' = Overlap(a)
  /\ spans' = Append(spans, NoSpans)
  /\ stack' = [stack EXCEPT ![p] = Append(@, [trace |-> Len(traces) + 1, status |-> "success"])]
  /\ UNCHANGED <<pc, job, traceOf, opened, now, made, lost, excused, abandoned>>

\* LLMOps.complete and complete_raw, without a trace_id of their own; the limit
\* of the application does not count here.
OpsCall(p) ==
  /\ pc[p] = "idle"
  /\ Once("opsCalls")
  /\ \E raw \in BOOLEAN, n \in Reserve :
       LET t == IF stack[p] = <<>> THEN NoTrace ELSE Last(stack[p]).trace
       IN  /\ job' = [job EXCEPT ![p] = NewJob(NoArticle, t, raw, n)]
           /\ Goto(p, IF raw THEN "audit" ELSE IF t = NoTrace THEN "adhoc" ELSE "guard")
  /\ UNCHANGED <<traceOf, opened, stack, tables, now, history>>

\* TraceContext.fail and partial
Mark(p) ==
  /\ pc[p] = "idle" /\ stack[p] # <<>>
  /\ \E status \in {"failed", "partial"} :
       stack' = [stack EXCEPT ![p][Len(stack[p])].status = status]
  /\ UNCHANGED <<pc, job, traceOf, opened, tables, now, history, bounds>>

\* TraceContext.__exit__, with an exception or without.
Leave(p) ==
  /\ pc[p] = "idle" /\ stack[p] # <<>>
  /\ \E raised \in BOOLEAN :
       EndTrace(Last(stack[p]).trace, IF raised THEN "failed" ELSE Last(stack[p]).status)
  /\ stack' = [stack EXCEPT ![p] = Front(@)]
  /\ UNCHANGED <<pc, job, traceOf, opened, spans, now, made, lost, overlapped, excused>>

-----------------------------------------------------------------------------
(* The surroundings *)

\* The process dies; what it opened stays 'running'.
Crash(p) ==
  /\ pc[p] # "down"
  /\ Once("crashes")
  /\ Stop(p)
  /\ abandoned' = abandoned \cup Held(p)
  /\ UNCHANGED <<tables, now, made, lost, overlapped, excused>>

Tick ==
  /\ Once("seconds")
  /\ now' = now + 1
  /\ UNCHANGED <<pc, local, tables, history>>

Step(p) ==
  \/ Launch(p) \/ Call(p) \/ LookUp(p) \/ Open(p) \/ EnsureBudget(p)
  \/ AuditRaw(p) \/ OpenAdhoc(p) \/ GuardCalls(p) \/ Record(p)
  \/ AnswerOk(p) \/ AnswerFails(p)
  \/ Finish(p) \/ Exit(p) \/ Derive(p) \/ Close(p)
  \/ Enter(p) \/ OpsCall(p) \/ Mark(p) \/ Leave(p) \/ Crash(p)

Next == Tick \/ \E p \in Processes : Step(p)

Spec == Init /\ [][Next]_vars

-----------------------------------------------------------------------------
(* Properties *)

\* Every variable keeps its shape; a process that names a trace names one it
\* found or opened for that very article, never another one's.
TypeOK ==
  /\ pc \in [Processes -> PCs]
  /\ job \in [Processes -> Jobs \cup {NoJob}]
  /\ traces \in Seq(TraceRows) /\ Len(spans) = Len(traces)
  /\ \A t \in DOMAIN spans : spans[t].ok <= spans[t].total
  /\ \A p \in Processes : /\ opened[p] \subseteq DOMAIN traces
                          /\ \A a \in Keys : traceOf[p][a] # NoTrace =>
                                              traces[traceOf[p][a]].article = a
  /\ now \in Nat /\ bounds \in Bounds

TracesOf(a)     == {t \in DOMAIN traces : traces[t].article = a /\ traces[t].kept}
ClientTraces(a) == {t \in TracesOf(a) : traces[t].by = "client"}

\* The client adds a trace to an article only while it has none, however often
\* the application is started again, closes its trace or dies (_trace_id): its
\* own trace is the first of the article, before those of `with` blocks, which
\* open one each (trace).  Where a call or a block began during a call for the
\* article, there is at most one from each process.
TracesPerArticle ==
  \A a \in Articles :
    IF a \in overlapped
    THEN Cardinality(ClientTraces(a)) <= Cardinality(Processes)
    ELSE \A t \in ClientTraces(a), u \in TracesOf(a) : t <= u

\* ensure_budget reserves the retries of a call and not those of the fallback,
\* which only the limit of the gateway holds back.
Ceiling == IF ~Fallback THEN CallLimit
           ELSE IF GatewayLimit = 0 THEN CallLimit + Max(Reserve)
           ELSE Max({CallLimit, Min({GatewayLimit, CallLimit + Max(Reserve)})})

\* The calls LLMClient makes for an article one after the other stay within the
\* limit of the application, over all its runs, once for each trace of the
\* article (CGMP rule 3, calls_used): a `with` block for the article renews the
\* allowance, and nothing else does, except that calls without a row and the
\* retries of a fallback are not reserved.
ArticleWithinLimit ==
  \A a \in Articles \ overlapped :
    made[a] - lost[a] <= Ceiling * Cardinality(TracesOf(a))

\* The status derived at the end is the truth about all the calls of the trace:
\* a trace is 'success' only if every recorded attempt was (_derive), unless
\* calls went on under it by a process that does not close it.
StatusTrue ==
  \A t \in DOMAIN traces \ excused :
    traces[t].by = "client" /\ traces[t].kept =>
      /\ traces[t].status = "success" => spans[t].ok = spans[t].total
      /\ traces[t].status = "partial" => spans[t].ok < spans[t].total

\* What is still 'running' is being worked on: a living process will close it
\* (finish_open_traces, __exit__), unless its process died, or the closing got
\* lost, or it is one that _trace_id_for opened.
RunningIsHeld ==
  \A t \in DOMAIN traces :
    traces[t].kept /\ traces[t].status = "running" /\ traces[t].by # "adhoc" =>
      t \in abandoned \/ \E p \in Processes : t \in Held(p)
=============================================================================
