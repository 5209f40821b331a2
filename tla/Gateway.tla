------------------------------ MODULE Gateway ------------------------------
(***************************************************************************)
(* The single passage of every LLM call (gateway/gateway.py), with the     *)
(* guard it consults first (guard/quota.py), the best-effort recorder      *)
(* (observability/tracer.py) and the cost ledger (observability/cost.py).  *)
(*                                                                         *)
(* Clients are the processes and threads that hold an LLMOps handle on one *)
(* SQLite file.  Every Repository method commits by itself, so one action  *)
(* is one committed statement (or one read), and other clients may run     *)
(* between any two of them.  The provider behind an adapter is external:   *)
(* it answers or fails, and charges what it likes.                         *)
(*                                                                         *)
(* An operator marked "Bug:" is a plausible mistake in the operator below  *)
(* it.  Nothing uses it: it is there to show that a property notices.      *)
(***************************************************************************)
EXTENDS Integers, Sequences, FiniteSets, FiniteSetsExt

CONSTANTS
  Clients,        \* processes / threads that call the gateway
  Traces,         \* trace ids; their rows in `traces` already exist
  TracesOf,       \* the traces each client records under
  Systems,        \* 'cgmp', 'dde', 'harness', ...
  SystemOf,       \* the system each client runs as
  Models,         \* logical model names
  NoModel,        \* fallback_to: null
  NoRequest,      \* no complete() in progress
  FallbackTo,     \* models.yaml fallback_to
  Billable,       \* models.yaml billable
  Priced,         \* is the cost booked for an answer what it costs?  The answer has
                  \* a cost, or its token counts and the prices are right.
  Estimate,       \* CostTracker.estimate of one call, per model
  Charges,        \* what one call may cost
  AttemptChoices, \* gateway.retry_max, and 1 for retry=False
  CallsLimit,     \* guard.calls_per_trace_limit (by system); 0 = unlimited
  Budget,         \* monthly limit per scope ("global" and the systems)
  NoBudget,       \* scope without an enabled budget row
  HardLimit,      \* budgets.hard_limit per scope
  HardQuota,      \* guard.hard_quota
  FallbackEnabled,\* gateway.fallback_enabled
  Strict,         \* trace.strict
  MaxRequests,    \* bound: requests per client
  MaxFaults,      \* bound: failing database statements
  MaxCrashes      \* bound: process crashes

Scopes == {"global"} \cup Systems

Requests == [trace : Traces, asked : Models, model : Models,
             attempts : AttemptChoices, noFallback : BOOLEAN,
             degraded : BOOLEAN]

ASSUME GatewayAssumption ==
  /\ IsFiniteSet(Clients)
  /\ TracesOf \in [Clients -> SUBSET Traces]
  /\ SystemOf \in [Clients -> Systems]
  /\ NoModel \notin Models
  /\ NoRequest \notin Requests
  /\ FallbackTo \in [Models -> Models \cup {NoModel}]
  /\ Billable \in [Models -> BOOLEAN]
  /\ Priced \in [Models -> BOOLEAN]
  /\ Estimate \in [Models -> Nat]
  /\ Charges \subseteq Nat
  /\ AttemptChoices \subseteq Nat
  /\ CallsLimit \in [Systems -> Nat]
  /\ NoBudget \notin Nat
  /\ Budget \in [Scopes -> Nat \cup {NoBudget}]
  /\ HardLimit \in [Scopes -> BOOLEAN]
  /\ HardQuota \in BOOLEAN
  /\ FallbackEnabled \in BOOLEAN
  /\ Strict \in BOOLEAN
  /\ MaxRequests \in Nat /\ MaxFaults \in Nat /\ MaxCrashes \in Nat

\* The tables are finite, and one call has a highest cost.
ASSUME TablesAssumption ==
  /\ \A S \in {Traces, Systems, Models, Charges} : IsFiniteSet(S)
  /\ Charges # {}

VARIABLES
  pc,       \* where each client is inside complete()
  req,      \* its CompletionRequest
  over,     \* the budgets its guard found too small for the call
  attempt,  \* number of the current attempt, 0 before the first
  seqno,    \* the value next_span_seq returned
  row,      \* its span's position in spans[trace]; 0 = the INSERT failed
  amount,   \* resolve_cost of the usable response
  result,   \* how its last request ended
  spans,    \* table spans, per trace, in insertion order
  cost,     \* table cost_daily of the month, per system and model
  audited,  \* traces and scopes with a quota.exceeded row in audit_logs
  made,     \* history: provider invocations under each trace
  bill,     \* history: what the provider charged, per system and model
  lost,     \* history: calls whose span INSERT failed, per trace
  requests, \* bound counter
  faults,   \* bound counter
  crashes   \* bound counter

local   == <<req, over, attempt, seqno, row, amount>>
tables  == <<spans, cost, audited>>
history == <<made, bill, lost>>
bounds  == <<requests, faults, crashes>>
vars    == <<pc, result, local, tables, history, bounds>>

PCs == {"idle", "prepare", "guard", "global", "system", "budget", "loop",
        "seq", "insert", "invoke", "close", "accrue", "closeFailed"}

Results == {"none", "ok", "rejected", "callsExceeded", "quotaExceeded",
            "allFailed", "error", "crashed"}

SpanStates == {"open", "ok", "failed"}

SpanRows == [model : Models, seq : Nat, state : SpanStates,
             degraded : BOOLEAN, cost : Nat]

Init ==
  /\ pc       = [c \in Clients |-> "idle"]
  /\ req      = [c \in Clients |-> NoRequest]
  /\ over     = [c \in Clients |-> {}]
  /\ attempt  = [c \in Clients |-> 0]
  /\ seqno    = [c \in Clients |-> 0]
  /\ row      = [c \in Clients |-> 0]
  /\ amount   = [c \in Clients |-> 0]
  /\ result   = [c \in Clients |-> "none"]
  /\ spans    = [t \in Traces |-> <<>>]
  /\ cost     = [s \in Systems |-> [m \in Models |-> 0]]
  /\ audited  = {}
  /\ made     = [t \in Traces |-> 0]
  /\ bill     = [s \in Systems |-> [m \in Models |-> 0]]
  /\ lost     = [t \in Traces |-> 0]
  /\ requests = [c \in Clients |-> 0]
  /\ faults   = 0
  /\ crashes  = 0

-----------------------------------------------------------------------------
(* Building blocks *)

Trace(c)  == req[c].trace
Model(c)  == req[c].model
System(c) == SystemOf[c]

Goto(c, l) == pc' = [pc EXCEPT ![c] = l]

\* complete() returns or raises: its frame is gone.
Return(c, r) ==
  /\ Goto(c, "idle")
  /\ result'  = [result EXCEPT ![c] = r]
  /\ req'     = [req EXCEPT ![c] = NoRequest]
  /\ over'    = [over EXCEPT ![c] = {}]
  /\ attempt' = [attempt EXCEPT ![c] = 0]
  /\ seqno'   = [seqno EXCEPT ![c] = 0]
  /\ row'     = [row EXCEPT ![c] = 0]
  /\ amount'  = [amount EXCEPT ![c] = 0]

\* A database statement raises (locked, disk full, missing trace row).
Fault ==
  /\ faults < MaxFaults
  /\ faults' = faults + 1
  /\ UNCHANGED <<requests, crashes>>

\* Bug: a limit that only warns leaves no audit row.
AuditHardOnly(what) ==
  /\ audited' = IF HardQuota THEN audited \cup {what} ELSE audited
  /\ UNCHANGED bounds

\* Guard._audit swallows every error.
Audit(what) ==
  \/ audited' = audited \cup {what} /\ UNCHANGED bounds
  \/ Fault /\ UNCHANGED audited

NextSeq(t) == Max({0} \cup {spans[t][i].seq : i \in DOMAIN spans[t]}) + 1

\* A value per system and model, as a value per row of cost_daily.
ByRow(table) == [sm \in Systems \X Models |-> table[sm[1]][sm[2]]]

\* Bug: subscription models count against the budget.
UsedByAll(scope) ==
  SumFunctionOnSet(ByRow(cost), {sm \in Systems \X Models : scope \in {"global", sm[1]}})

\* The rows of billable models in a scope.
BudgetRows(scope) ==
  {sm \in Systems \X Models : Billable[sm[2]] /\ scope \in {"global", sm[1]}}

\* repo.month_cost: only rows of billable models.
Used(scope) == SumFunctionOnSet(ByRow(cost), BudgetRows(scope))

-----------------------------------------------------------------------------
(* complete() *)

\* The application calls complete(); the SDK never sets no_fallback itself.
Submit(c) ==
  /\ pc[c] = "idle"
  /\ requests[c] < MaxRequests
  /\ \E t \in TracesOf[c], m \in Models, n \in AttemptChoices :
       req' = [req EXCEPT ![c] =
                 [trace |-> t, asked |-> m, model |-> m, attempts |-> n,
                  noFallback |-> FALSE, degraded |-> FALSE]]
  /\ Goto(c, "prepare")
  /\ result'   = [result EXCEPT ![c] = "none"]
  /\ requests' = [requests EXCEPT ![c] = @ + 1]
  /\ UNCHANGED <<over, attempt, seqno, row, amount,
                 tables, history, faults, crashes>>

\* The prompt resolves and renders, the model resolves.
Prepare(c) ==
  /\ pc[c] = "prepare"
  /\ Goto(c, "guard")
  /\ UNCHANGED <<result, local, tables, history, bounds>>

\* Unpublished prompt, mismatching text, unknown or inactive model, ...
PrepareRejected(c) ==
  /\ pc[c] = "prepare"
  /\ Return(c, "rejected")
  /\ UNCHANGED <<tables, history, bounds>>

AfterCalls(c) == IF Billable[Model(c)] THEN "global" ELSE "loop"

\* Bug: the retries the call may need are not reserved.
CallsFitOneCall(c) ==
  LET limit == CallsLimit[System(c)]
  IN  limit > 0 => Len(spans[Trace(c)]) + 1 <= limit

CallsFit(c) ==
  LET limit == CallsLimit[System(c)]
  IN  limit > 0 => Len(spans[Trace(c)]) + req[c].attempts <= limit

\* Guard._check_calls: SELECT COUNT(*) and compare.
GuardCallsPass(c) ==
  /\ pc[c] = "guard"
  /\ CallsFit(c)
  /\ Goto(c, AfterCalls(c))
  /\ UNCHANGED <<result, local, tables, history, bounds>>

GuardCallsExceeded(c) ==
  /\ pc[c] = "guard"
  /\ ~CallsFit(c)
  /\ Audit(Trace(c))
  /\ IF HardQuota
     THEN Return(c, "callsExceeded")
     ELSE Goto(c, AfterCalls(c)) /\ UNCHANGED <<result, local>>
  /\ UNCHANGED <<spans, cost, history>>

\* Bug: the estimate of the call is left out.
BudgetFitsSpentOnly(c, scope) ==
  Budget[scope] # NoBudget => Used(scope) <= Budget[scope]

BudgetFits(c, scope) ==
  Budget[scope] # NoBudget =>
    Used(scope) + Estimate[Model(c)] * req[c].attempts <= Budget[scope]

\* Guard.budget_states reads the month's total of one scope.
ReadBudget(c, scope, here, next) ==
  /\ pc[c] = here
  /\ over' = [over EXCEPT ![c] = IF BudgetFits(c, scope) THEN @ ELSE @ \cup {scope}]
  /\ Goto(c, next)
  /\ UNCHANGED <<result, req, attempt, seqno, row, amount,
                 tables, history, bounds>>

ReadGlobalBudget(c) == ReadBudget(c, "global", "global", "system")
ReadSystemBudget(c) == ReadBudget(c, System(c), "system", "budget")

\* Guard._check_budget, when no budget (any more) is too small.
BudgetsPass(c) ==
  /\ pc[c] = "budget"
  /\ over[c] = {}
  /\ Goto(c, "loop")
  /\ UNCHANGED <<result, local, tables, history, bounds>>

\* The first budget of the loop in _check_budget that is too small.
FirstOver(c) == IF "global" \in over[c] THEN "global" ELSE System(c)

\* Guard._check_budget on that budget: refuse, or go on to the next one.
BudgetExceeded(c) ==
  /\ pc[c] = "budget"
  /\ over[c] # {}
  /\ Audit(FirstOver(c))
  /\ \/ /\ HardQuota /\ HardLimit[FirstOver(c)]
        /\ Return(c, "quotaExceeded")
     \/ /\ ~(HardQuota /\ HardLimit[FirstOver(c)])
        /\ over' = [over EXCEPT ![c] = @ \ {FirstOver(c)}]
        /\ UNCHANGED <<pc, result, req, attempt, seqno, row, amount>>
  /\ UNCHANGED <<spans, cost, history>>

\* The guard's reads are not best-effort: their errors reach the caller.
GuardReadFails(c) ==
  /\ pc[c] \in {"guard", "global", "system"}
  /\ pc[c] = "guard" => CallsLimit[System(c)] > 0
  /\ Fault
  /\ Return(c, "error")
  /\ UNCHANGED <<tables, history>>

-----------------------------------------------------------------------------
(* The attempt loop and _invoke_once() *)

NextAttempt(c) ==
  /\ pc[c] = "loop"
  /\ attempt[c] < req[c].attempts
  /\ attempt' = [attempt EXCEPT ![c] = @ + 1]
  /\ Goto(c, "seq")
  /\ UNCHANGED <<result, req, over, seqno, row, amount,
                 tables, history, bounds>>

\* An exception inside _invoke_once: logged, then the loop goes on.
AttemptFailed(c) == Goto(c, "loop")

\* Tracer.start_span, first statement; a failed read counts as 1.
ReadSeq(c) ==
  /\ pc[c] = "seq"
  /\ \/ /\ seqno' = [seqno EXCEPT ![c] = NextSeq(Trace(c))]
        /\ Goto(c, "insert")
        /\ UNCHANGED bounds
     \/ /\ Fault
        /\ IF Strict
           THEN AttemptFailed(c) /\ UNCHANGED seqno
           ELSE Goto(c, "insert") /\ seqno' = [seqno EXCEPT ![c] = 1]
  /\ UNCHANGED <<result, req, over, attempt, row, amount,
                 tables, history>>

\* Bug: the row is found again by its number within the trace.
NewRowBySeq(c) == seqno[c]

\* cursor.lastrowid, as a position in the trace.
NewRow(c) == Len(spans[Trace(c)]) + 1

OpenSpan(c) == [model |-> Model(c), seq |-> seqno[c], state |-> "open",
                degraded |-> FALSE, cost |-> 0]

\* Tracer.start_span, second statement: the row exists before the call.
InsertSpan(c) ==
  /\ pc[c] = "insert"
  /\ \/ /\ spans' = [spans EXCEPT ![Trace(c)] = Append(@, OpenSpan(c))]
        /\ row' = [row EXCEPT ![c] = NewRow(c)]
        /\ Goto(c, "invoke")
        /\ UNCHANGED <<lost, bounds>>
     \/ /\ Fault
        /\ row' = [row EXCEPT ![c] = 0]
        /\ IF Strict
           THEN AttemptFailed(c) /\ UNCHANGED lost
           ELSE Goto(c, "invoke") /\ lost' = [lost EXCEPT ![Trace(c)] = @ + 1]
        /\ UNCHANGED spans
  /\ UNCHANGED <<result, req, over, attempt, seqno, amount,
                 cost, audited, made, bill>>

\* The adapter is called, and charged, whatever becomes of the answer.
Called(c, charge) ==
  /\ made'  = [made EXCEPT ![Trace(c)] = @ + 1]
  /\ bill'  = [bill EXCEPT ![System(c)][Model(c)] = @ + charge]

\* A usable answer: parsed as JSON, or a body that is not empty.
InvokeOk(c) ==
  /\ pc[c] = "invoke"
  /\ \E charge \in Charges :
       /\ Called(c, charge)
       /\ \E a \in IF Priced[Model(c)] THEN {charge} ELSE Charges :
            amount' = [amount EXCEPT ![c] = a]
  /\ Goto(c, "close")
  /\ UNCHANGED <<result, req, over, attempt, seqno, row, tables, lost, bounds>>

\* The adapter raises, or it answers and the answer cannot be used.
InvokeFails(c) ==
  /\ pc[c] = "invoke"
  /\ \E charge \in Charges \cup {0} : Called(c, charge)
  /\ Goto(c, "closeFailed")
  /\ UNCHANGED <<result, req, over, attempt, seqno, row, amount,
                 tables, lost, bounds>>

\* Bug: a failed attempt is recorded with the estimate.
UpdateSpanEstimated(c, state, degraded, usd) ==
  spans' = IF row[c] = 0 THEN spans
           ELSE [spans EXCEPT ![Trace(c)][row[c]] =
                   [@ EXCEPT !.state = state, !.degraded = degraded,
                             !.cost = IF state = "ok" THEN usd ELSE Estimate[Model(c)]]]

\* UPDATE spans ... WHERE id = ?: no row, nothing happens.
UpdateSpan(c, state, degraded, usd) ==
  spans' = IF row[c] = 0 THEN spans
           ELSE [spans EXCEPT ![Trace(c)][row[c]] =
                   [@ EXCEPT !.state = state, !.degraded = degraded, !.cost = usd]]

\* Tracer.end_span after a usable answer.
CloseSpan(c) ==
  /\ pc[c] = "close"
  /\ \/ /\ UpdateSpan(c, "ok", req[c].degraded, amount[c])
        /\ Goto(c, "accrue")
        /\ UNCHANGED bounds
     \/ /\ Fault
        /\ IF Strict THEN AttemptFailed(c) ELSE Goto(c, "accrue")
        /\ UNCHANGED spans
  /\ UNCHANGED <<result, local, cost, audited, history>>

\* CostTracker.accrue, then the result is returned.
Accrue(c) ==
  /\ pc[c] = "accrue"
  /\ \/ /\ cost' = [cost EXCEPT ![System(c)][Model(c)] = @ + amount[c]]
        /\ UNCHANGED bounds
     \/ Fault /\ UNCHANGED cost
  /\ Return(c, "ok")
  /\ UNCHANGED <<spans, audited, history>>

\* _end_failed: success = 0, no cost, not degraded; the exception goes on.
CloseFailed(c) ==
  /\ pc[c] = "closeFailed"
  /\ \/ UpdateSpan(c, "failed", FALSE, 0) /\ UNCHANGED bounds
     \/ Fault /\ UNCHANGED spans
  /\ AttemptFailed(c)
  /\ UNCHANGED <<result, local, cost, audited, history>>

-----------------------------------------------------------------------------
(* _fallback() *)

\* Bug: fallback_to may be null.
CanFallbackToNull(c) == FallbackEnabled /\ ~req[c].noFallback

\* Bug: a fallback may fall back again.
CanFallbackAgain(c) == FallbackEnabled /\ FallbackTo[Model(c)] # NoModel

CanFallback(c) ==
  /\ FallbackEnabled
  /\ FallbackTo[Model(c)] # NoModel
  /\ ~req[c].noFallback

Exhausted(c) == pc[c] = "loop" /\ attempt[c] = req[c].attempts

\* complete(replace(req, model=fallback_to, no_fallback=True, degraded=True))
Fallback(c) ==
  /\ Exhausted(c)
  /\ CanFallback(c)
  /\ req' = [req EXCEPT ![c] =
                [@ EXCEPT !.model = FallbackTo[Model(c)], !.noFallback = TRUE,
                          !.degraded = TRUE]]
  /\ attempt' = [attempt EXCEPT ![c] = 0]
  /\ Goto(c, "prepare")
  /\ UNCHANGED <<result, over, seqno, row, amount,
                 tables, history, bounds>>

GiveUp(c) ==
  /\ Exhausted(c)
  /\ ~CanFallback(c)
  /\ Return(c, "allFailed")
  /\ UNCHANGED <<tables, history, bounds>>

\* The process dies; what it committed stays.
Crash(c) ==
  /\ pc[c] # "idle"
  /\ crashes < MaxCrashes
  /\ crashes' = crashes + 1
  /\ Return(c, "crashed")
  /\ UNCHANGED <<tables, history, requests, faults>>

-----------------------------------------------------------------------------

Step(c) ==
  \/ Prepare(c) \/ PrepareRejected(c)
  \/ GuardCallsPass(c) \/ GuardCallsExceeded(c)
  \/ ReadGlobalBudget(c) \/ ReadSystemBudget(c) \/ GuardReadFails(c)
  \/ BudgetsPass(c) \/ BudgetExceeded(c)
  \/ NextAttempt(c) \/ ReadSeq(c) \/ InsertSpan(c)
  \/ InvokeOk(c) \/ InvokeFails(c)
  \/ CloseSpan(c) \/ Accrue(c) \/ CloseFailed(c)
  \/ Fallback(c) \/ GiveUp(c)

\* Every application has made its calls: the library just waits.
Quiescent ==
  /\ \A c \in Clients : pc[c] = "idle" /\ requests[c] = MaxRequests
  /\ UNCHANGED vars

Next ==
  \/ \E c \in Clients : Submit(c) \/ Step(c) \/ Crash(c)
  \/ Quiescent

Spec == Init /\ [][Next]_vars

\* A started complete() runs on: statements return, and every adapter call
\* ends (claude_cli passes a timeout to subprocess.run).  Nothing makes an
\* application call complete() again.
FairSpec == Spec /\ \A c \in Clients : WF_vars(Step(c))

-----------------------------------------------------------------------------
(* Properties *)

\* The frames of complete() and its callees.
LocalsOK ==
  /\ pc      \in [Clients -> PCs]
  /\ req     \in [Clients -> Requests \cup {NoRequest}]
  /\ over    \in [Clients -> SUBSET Scopes]
  /\ attempt \in [Clients -> Nat]
  /\ seqno   \in [Clients -> Nat]
  /\ row     \in [Clients -> Nat]
  /\ amount  \in [Clients -> Nat]
  /\ result  \in [Clients -> Results]
  /\ \A c \in Clients : pc[c] # "idle" => /\ req[c] \in Requests
                                          /\ req[c].trace \in TracesOf[c]

TablesOK ==
  /\ spans   \in [Traces -> Seq(SpanRows)]
  /\ cost    \in [Systems -> [Models -> Nat]]
  /\ audited \in SUBSET (Traces \cup Scopes)

HistoryOK ==
  /\ made \in [Traces -> Nat]
  /\ bill \in [Systems -> [Models -> Nat]]
  /\ lost \in [Traces -> Nat]

BoundsOK ==
  /\ requests \in [Clients -> 0..MaxRequests]
  /\ faults   \in 0..MaxFaults
  /\ crashes  \in 0..MaxCrashes

\* Every table, counter and local of the gateway has the shape the code
\* gives it, and a client inside complete() has a request of its own.
TypeOK == LocalsOK /\ TablesOK /\ HistoryOK /\ BoundsOK

SpanStep(t) ==
  \A i \in DOMAIN spans[t] :
    /\ i \in DOMAIN spans'[t]
    /\ spans'[t][i].model = spans[t][i].model
    /\ spans'[t][i].seq = spans[t][i].seq
    /\ spans[t][i].state # "open" => spans'[t][i] = spans[t][i]

\* A span that was closed is never rewritten, and no span disappears or
\* changes its model or number, however the clients of a trace interleave.
ClosedSpanFinal == [][\A t \in Traces : SpanStep(t)]_spans

Exclusive(t, c) ==
  t \in TracesOf[c] /\ \A d \in Clients \ {c} : t \notin TracesOf[d]

Capped(c) == HardQuota /\ CallsLimit[System(c)] > 0

\* guard/quota.py:6: a trace that one client records under never sees more
\* provider calls than the limit, retries and fallbacks included; a span
\* whose INSERT failed escapes the count.
CallsWithinLimit ==
  \A c \in Clients, t \in Traces :
    Exclusive(t, c) /\ Capped(c) => made[t] <= CallsLimit[System(c)] + lost[t]

\* The claim of guard/quota.py:6 for every trace, shared ones included.
LimitEnforced ==
  \A c \in Clients : Capped(c) =>
    \A t \in TracesOf[c] : made[t] <= CallsLimit[System(c)] + lost[t]

Sharers(t) == {c \in Clients : t \in TracesOf[c]}

\* The count is read before the rows are inserted, so clients that share a
\* trace can pass the limit L, but only by one reservation A of each of the
\* other clients.
SharedOvershootBounded ==
  \A t \in Traces, A \in AttemptChoices,
     L \in {CallsLimit[System(c)] : c \in Clients} :
    (/\ HardQuota /\ Sharers(t) # {}
     /\ \A c \in Sharers(t) : CallsLimit[System(c)] \in 1..L
     /\ \A n \in AttemptChoices : n <= A) =>
       made[t] <= L + lost[t] + (Cardinality(Sharers(t)) - 1) * A

\* With hard_quota off the limits only warn, but a trace that one client
\* took beyond its limit is in the audit log (guard/quota.py:13).
OverrunsAudited ==
  \A c \in Clients, t \in Traces :
    (Exclusive(t, c) /\ CallsLimit[System(c)] > 0 /\ faults = 0
       /\ Len(spans[t]) > CallsLimit[System(c)]) => t \in audited

LedgerTotal == SumFunction(ByRow(cost))

CostOf(rows) == SumFunction([i \in DOMAIN rows |-> rows[i].cost])

SpanTotal == SumFunction([t \in Traces |-> CostOf(spans[t])])

\* Answers that are recorded and not yet booked.
Unbooked == [c \in Clients |-> IF pc[c] = "accrue" THEN amount[c] ELSE 0]

\* cost_daily is a derivation of spans (repository.py:199): without failed
\* writes or crashes they differ only by the answers just being booked.
LedgerDerived ==
  faults = 0 /\ crashes = 0 => SpanTotal = LedgerTotal + SumFunction(Unbooked)

\* What the provider charged for billable models in a scope.
Billed(scope) == SumFunctionOnSet(ByRow(bill), BudgetRows(scope))

BillableArePriced == \A m \in Models : Billable[m] => Priced[m]

\* The guard looks before the call, and the ledger moves after it: a hard
\* budget can be exceeded, but the booked use is at most what one accepted
\* answer of every spender adds to a total that still left room for the
\* estimate of one call, even when estimates are below what calls cost.
BudgetOvershootBounded ==
  HardQuota => \A scope \in Scopes :
    LET spenders == {c \in Clients : scope \in {"global", System(c)}}
    IN  (Budget[scope] # NoBudget /\ HardLimit[scope]) =>
          \/ Used(scope) = 0
          \/ \E m \in Models :
               /\ Billable[m]
               /\ Used(scope) + Estimate[m]
                    <= Budget[scope] + Cardinality(spenders) * Max(Charges)

RefusalStep(c) ==
  (BillableArePriced /\ pc[c] # "idle" /\ result'[c] = "quotaExceeded") =>
    \E scope \in {"global", System(c)} :
      /\ Budget[scope] # NoBudget
      /\ Billed(scope) + Estimate[Model(c)] * req[c].attempts > Budget[scope]

\* A request is refused for money only when the provider's bill for billable
\* models really leaves no room for its estimate (NOTES N-045).
RefusalJustified == [][\A c \in Clients : RefusalStep(c)]_vars

\* docs/01 FR-034: beyond the monthly budget, calls stop: a billable call
\* starts only while the bill leaves room for it.
QuotaStops ==
  [][\A c \in Clients :
       (pc[c] = "budget" /\ pc'[c] = "loop") =>
         \A scope \in {"global", System(c)} :
           Budget[scope] # NoBudget => Billed(scope) <= Budget[scope]]_vars

-----------------------------------------------------------------------------
(* The gateway keeps the promise of AdmittedCalls *)

Admitted(c) == pc[c] \notin {"idle", "prepare", "guard"}

AdmittedOn(c) == IF Admitted(c) THEN {Trace(c)} ELSE {}

CallsLeft(c) ==
  IF ~Admitted(c) THEN 0
  ELSE req[c].attempts - attempt[c] + (IF pc[c] \in {"seq", "insert"} THEN 1 ELSE 0)

Admission == INSTANCE AdmittedCalls WITH
  Rounds   <- AttemptChoices,
  MaxLost  <- MaxFaults,
  LimitOf  <- [c \in Clients |-> CallsLimit[System(c)]],
  Enforced <- HardQuota,
  on       <- [c \in Clients |-> AdmittedOn(c)],
  left     <- [c \in Clients |-> CallsLeft(c)],
  armed    <- {c \in Clients : pc[c] = "invoke"},
  rows     <- [t \in Traces |-> Len(spans[t])],
  calls    <- made

\* Guard before call, span before call, and never more calls than admitted:
\* the whole request path is an implementation of AdmittedCalls.
ImplementsAdmission == Admission!Spec

-----------------------------------------------------------------------------

\* Every complete() returns or raises: retries and fallbacks come to an end.
RequestEnds == \A c \in Clients : pc[c] # "idle" ~> pc[c] = "idle"

=============================================================================
