--------------------------- MODULE GatewayProofs ---------------------------
(***************************************************************************)
(* Theorems about Gateway for any number of clients, traces, models and    *)
(* retries, and for any limits and charges: types, who writes which row of *)
(* spans, the ledger as a derivation of the spans, and what the budgets    *)
(* refuse and let pass.  GatewayRefinement has the limits on calls.        *)
(***************************************************************************)
EXTENDS Gateway, SumTheorems, SequenceTheorems

-----------------------------------------------------------------------------
(* Sequence numbers *)

\* The number given to the next span of a trace is a natural number.
LEMMA NextSeqType ==
  ASSUME TypeOK, NEW t \in Traces
  PROVE  NextSeq(t) \in Nat
<1> DEFINE D == DOMAIN spans[t]
<1> DEFINE f == [i \in D |-> spans[t][i].seq]
<1> DEFINE T == {spans[t][i].seq : i \in D}
<1>1. spans[t] \in Seq(SpanRows)
  BY DEF TypeOK, TablesOK
<1>2. D = 1..Len(spans[t]) /\ Len(spans[t]) \in Nat
  BY <1>1, LenProperties
<1>3. IsFiniteSet(D)
  BY <1>2, FS_Interval
<1>4. f \in Surjection(D, T)
  BY DEF Surjection
<1>5. IsFiniteSet(T)
  BY <1>3, <1>4, FS_Surjection
<1>6. T \subseteq Nat
  <2>1. \A i \in D : spans[t][i] \in SpanRows
    BY <1>1, <1>2, ElementOfSeq
  <2>2. QED
    BY <2>1 DEF SpanRows
<1>7. {0} \cup T = T \cup {0}
  OBVIOUS
<1>8. IsFiniteSet({0} \cup T)
  BY <1>5, <1>7, FS_AddElement
<1>9. Max({0} \cup T) \in {0} \cup T
  <2> HIDE DEF T
  <2>1. {0} \cup T \in SUBSET Nat /\ {0} \cup T # {}
    BY <1>6
  <2>2. QED
    BY <1>8, <2>1, MaxOfNats
<1>10. QED
  BY <1>6, <1>9 DEF NextSeq

\* Writing the row of a span keeps the trace a sequence of span rows.
LEMMA UpdateSpanType ==
  ASSUME TypeOK, NEW c \in Clients, Trace(c) \in Traces,
         NEW state \in SpanStates, NEW degraded \in BOOLEAN, NEW usd \in Nat,
         UpdateSpan(c, state, degraded, usd)
  PROVE  /\ spans' \in [Traces -> Seq(SpanRows)]
         /\ \A t \in Traces : Len(spans'[t]) = Len(spans[t])
<1> DEFINE t0 == Trace(c)
<1> DEFINE r  == row[c]
<1> DEFINE x  == [spans[t0][r] EXCEPT !.state = state, !.degraded = degraded, !.cost = usd]
<1> DEFINE s1 == [spans[t0] EXCEPT ![r] = x]
<1>0. spans \in [Traces -> Seq(SpanRows)] /\ spans[t0] \in Seq(SpanRows)
  BY DEF TypeOK, TablesOK
<1>1. CASE r = 0
  BY <1>0, <1>1 DEF UpdateSpan
<1>2. CASE r # 0
  <2>1. spans' = [spans EXCEPT ![t0] = s1]
    BY <1>2 DEF UpdateSpan
  <2>2. s1 \in Seq(SpanRows) /\ Len(s1) = Len(spans[t0])
    <3>1. CASE r \in 1..Len(spans[t0])
      <4>1. spans[t0][r] \in SpanRows
        BY <1>0, <3>1, ElementOfSeq
      <4>2. x \in SpanRows
        BY <4>1 DEF SpanRows
      <4> HIDE DEF x, r, t0
      <4>3. QED
        BY <1>0, <3>1, <4>2, ExceptSeq
    <3>2. CASE r \notin 1..Len(spans[t0])
      <4>1. DOMAIN spans[t0] = 1..Len(spans[t0])
        BY <1>0, LenProperties
      <4>2. s1 = spans[t0]
        BY <1>0, <3>2, <4>1, LenProperties
      <4>3. QED
        BY <1>0, <4>2
    <3>3. QED
      BY <3>1, <3>2
  <2> HIDE DEF s1
  <2>3. QED
    BY <1>0, <2>1, <2>2
<1>3. QED
  BY <1>1, <1>2

-----------------------------------------------------------------------------
(* Type correctness *)

\* What every client inside complete() holds.
LEMMA Inside ==
  ASSUME LocalsOK, NEW c \in Clients, pc[c] # "idle"
  PROVE  /\ req[c] \in Requests
         /\ Trace(c) \in TracesOf[c] /\ Trace(c) \in Traces
         /\ Model(c) \in Models /\ System(c) \in Systems
BY GatewayAssumption DEF LocalsOK, Requests, Trace, Model, System

\* Returning from complete() leaves well-formed frames.
LEMMA ReturnType ==
  ASSUME LocalsOK, NEW c \in Clients, NEW r \in Results, Return(c, r)
  PROVE  LocalsOK'
BY DEF LocalsOK, Return, Goto, PCs

\* A failing statement only counts.
LEMMA FaultType ==
  ASSUME BoundsOK, Fault
  PROVE  BoundsOK'
BY GatewayAssumption DEF BoundsOK, Fault

\* An audit row names a trace or a scope.
LEMMA AuditType ==
  ASSUME BoundsOK, TablesOK, NEW what \in Traces \cup Scopes, Audit(what),
         UNCHANGED <<spans, cost>>
  PROVE  BoundsOK' /\ TablesOK'
BY FaultType DEF BoundsOK, TablesOK, Audit, bounds

\* Going on to another label of complete() leaves well-formed frames.
LEMMA GotoType ==
  ASSUME LocalsOK, NEW c \in Clients, pc[c] # "idle", NEW l \in PCs, Goto(c, l),
         UNCHANGED <<result, local>>
  PROVE  LocalsOK'
BY DEF LocalsOK, Goto, local

\* The state of the gateway is well formed, whatever the clients, limits,
\* prices and retries.
THEOREM GatewayTypeOK == Spec => []TypeOK
<1> USE GatewayAssumption
<1>1. Init => TypeOK
  <2> SUFFICES ASSUME Init PROVE TypeOK
    OBVIOUS
  <2>1. [t \in Traces |-> <<>>] \in [Traces -> Seq(SpanRows)]
    BY EmptySeq
  <2>2. QED
    BY <2>1 DEF Init, TypeOK, LocalsOK, TablesOK, HistoryOK, BoundsOK, PCs,
       Results
<1>2. TypeOK /\ [Next]_vars => TypeOK'
  <2> SUFFICES ASSUME TypeOK, [Next]_vars PROVE TypeOK'
    OBVIOUS
  <2>0. LocalsOK /\ TablesOK /\ HistoryOK /\ BoundsOK
    BY DEF TypeOK
  <2>1. ASSUME NEW c \in Clients, Submit(c) PROVE TypeOK'
    <3>1. LocalsOK'
      BY <2>0, <2>1 DEF Submit, Goto, LocalsOK, Requests, PCs, Results
    <3>2. BoundsOK'
      BY <2>0, <2>1 DEF Submit, BoundsOK
    <3>3. TablesOK' /\ HistoryOK'
      BY <2>0, <2>1 DEF Submit, tables, TablesOK, history, HistoryOK
    <3>4. QED
      BY <3>1, <3>2, <3>3 DEF TypeOK
  <2>2. ASSUME NEW c \in Clients, Prepare(c) PROVE TypeOK'
    <3>1. LocalsOK'
      BY <2>0, <2>2, GotoType DEF Prepare, PCs
    <3>2. TablesOK' /\ HistoryOK' /\ BoundsOK'
      BY <2>0, <2>2 DEF Prepare, tables, TablesOK, history, HistoryOK,
         bounds, BoundsOK
    <3>3. QED
      BY <3>1, <3>2 DEF TypeOK
  <2>3. ASSUME NEW c \in Clients, PrepareRejected(c) PROVE TypeOK'
    <3>1. LocalsOK'
      BY <2>0, <2>3, ReturnType DEF PrepareRejected, Results
    <3>2. TablesOK' /\ HistoryOK' /\ BoundsOK'
      BY <2>0, <2>3 DEF PrepareRejected, tables, TablesOK, history,
         HistoryOK, bounds, BoundsOK
    <3>3. QED
      BY <3>1, <3>2 DEF TypeOK
  <2>4. ASSUME NEW c \in Clients, GuardCallsPass(c) PROVE TypeOK'
    <3>1. LocalsOK'
      BY <2>0, <2>4, GotoType DEF GuardCallsPass, AfterCalls, PCs
    <3>2. TablesOK' /\ HistoryOK' /\ BoundsOK'
      BY <2>0, <2>4 DEF GuardCallsPass, tables, TablesOK, history,
         HistoryOK, bounds, BoundsOK
    <3>3. QED
      BY <3>1, <3>2 DEF TypeOK
  <2>5. ASSUME NEW c \in Clients, GuardCallsExceeded(c) PROVE TypeOK'
    <3>1. pc[c] # "idle" /\ Trace(c) \in Traces
      BY <2>0, <2>5, Inside DEF GuardCallsExceeded
    <3>2. LocalsOK'
      BY <2>0, <2>5, <3>1, ReturnType, GotoType DEF GuardCallsExceeded,
         Results, AfterCalls, PCs
    <3>3. TablesOK' /\ BoundsOK'
      BY <2>0, <2>5, <3>1, AuditType DEF GuardCallsExceeded
    <3>4. HistoryOK'
      BY <2>0, <2>5 DEF GuardCallsExceeded, history, HistoryOK
    <3>5. QED
      BY <3>2, <3>3, <3>4 DEF TypeOK
  <2>6. ASSUME NEW c \in Clients, ReadGlobalBudget(c) PROVE TypeOK'
    <3>1. LocalsOK'
      BY <2>0, <2>6 DEF ReadGlobalBudget, ReadBudget, Goto, LocalsOK,
         PCs, Scopes
    <3>2. TablesOK' /\ HistoryOK' /\ BoundsOK'
      BY <2>0, <2>6 DEF ReadGlobalBudget, ReadBudget, tables, TablesOK,
         history, HistoryOK, bounds, BoundsOK
    <3>3. QED
      BY <3>1, <3>2 DEF TypeOK
  <2>7. ASSUME NEW c \in Clients, ReadSystemBudget(c) PROVE TypeOK'
    <3>1. LocalsOK'
      BY <2>0, <2>7 DEF ReadSystemBudget, ReadBudget, Goto, LocalsOK,
         PCs, Scopes, System
    <3>2. TablesOK' /\ HistoryOK' /\ BoundsOK'
      BY <2>0, <2>7 DEF ReadSystemBudget, ReadBudget, tables, TablesOK,
         history, HistoryOK, bounds, BoundsOK
    <3>3. QED
      BY <3>1, <3>2 DEF TypeOK
  <2>8. ASSUME NEW c \in Clients, GuardReadFails(c) PROVE TypeOK'
    <3>1. LocalsOK'
      BY <2>0, <2>8, ReturnType DEF GuardReadFails, Results
    <3>2. BoundsOK'
      BY <2>0, <2>8, FaultType DEF GuardReadFails
    <3>3. TablesOK' /\ HistoryOK'
      BY <2>0, <2>8 DEF GuardReadFails, tables, TablesOK, history, HistoryOK
    <3>4. QED
      BY <3>1, <3>2, <3>3 DEF TypeOK
  <2>9. ASSUME NEW c \in Clients, BudgetsPass(c) PROVE TypeOK'
    <3>1. LocalsOK'
      BY <2>0, <2>9, GotoType DEF BudgetsPass, PCs
    <3>2. TablesOK' /\ HistoryOK' /\ BoundsOK'
      BY <2>0, <2>9 DEF BudgetsPass, tables, TablesOK, history,
         HistoryOK, bounds, BoundsOK
    <3>3. QED
      BY <3>1, <3>2 DEF TypeOK
  <2>10. ASSUME NEW c \in Clients, BudgetExceeded(c) PROVE TypeOK'
    <3>1. FirstOver(c) \in Traces \cup Scopes
      BY DEF FirstOver, Scopes, System
    <3>2. ASSUME Return(c, "quotaExceeded") PROVE LocalsOK'
      BY <2>0, <3>2, ReturnType DEF Results
    <3>3. ASSUME over' = [over EXCEPT ![c] = @ \ {FirstOver(c)}],
                 UNCHANGED <<pc, result, req, attempt, seqno, row, amount>>
          PROVE  LocalsOK'
      BY <2>0, <3>3 DEF LocalsOK
    <3>4. LocalsOK'
      BY <2>0, <2>10, <3>2, <3>3 DEF BudgetExceeded
    <3>5. TablesOK' /\ BoundsOK'
      BY <2>0, <2>10, <3>1, AuditType DEF BudgetExceeded
    <3>6. HistoryOK'
      BY <2>0, <2>10 DEF BudgetExceeded, history, HistoryOK
    <3>7. QED
      BY <3>4, <3>5, <3>6 DEF TypeOK
  <2>11. ASSUME NEW c \in Clients, NextAttempt(c) PROVE TypeOK'
    <3>1. LocalsOK'
      BY <2>0, <2>11 DEF NextAttempt, Goto, LocalsOK, PCs
    <3>2. TablesOK' /\ HistoryOK' /\ BoundsOK'
      BY <2>0, <2>11 DEF NextAttempt, tables, TablesOK, history,
         HistoryOK, bounds, BoundsOK
    <3>3. QED
      BY <3>1, <3>2 DEF TypeOK
  <2>12. ASSUME NEW c \in Clients, ReadSeq(c) PROVE TypeOK'
    <3>1. NextSeq(Trace(c)) \in Nat
      BY <2>0, <2>12, Inside, NextSeqType DEF ReadSeq, TypeOK
    <3>2. LocalsOK'
      BY <2>0, <2>12, <3>1 DEF ReadSeq, AttemptFailed, Goto, LocalsOK, PCs
    <3>3. BoundsOK'
      BY <2>0, <2>12, FaultType DEF ReadSeq, bounds, BoundsOK
    <3>4. TablesOK' /\ HistoryOK'
      BY <2>0, <2>12 DEF ReadSeq, tables, TablesOK, history, HistoryOK
    <3>5. QED
      BY <3>2, <3>3, <3>4 DEF TypeOK
  <2>13. ASSUME NEW c \in Clients, InsertSpan(c) PROVE TypeOK'
    <3>1. Trace(c) \in Traces /\ Model(c) \in Models
      BY <2>0, <2>13, Inside DEF InsertSpan
    <3>2. OpenSpan(c) \in SpanRows
      BY <2>0, <3>1 DEF OpenSpan, SpanRows, SpanStates, LocalsOK
    <3>3. NewRow(c) \in Nat
      <4>1. spans[Trace(c)] \in Seq(SpanRows)
        BY <2>0, <3>1 DEF TablesOK
      <4>2. QED
        BY <4>1, LenProperties DEF NewRow
    <3>4. spans' \in [Traces -> Seq(SpanRows)]
      <4>1. Append(spans[Trace(c)], OpenSpan(c)) \in Seq(SpanRows)
        BY <2>0, <3>1, <3>2, AppendProperties DEF TablesOK
      <4>2. \/ spans' = [spans EXCEPT ![Trace(c)] = Append(@, OpenSpan(c))]
            \/ spans' = spans
        BY <2>13 DEF InsertSpan
      <4>3. QED
        BY <2>0, <3>1, <4>1, <4>2 DEF TablesOK
    <3>5. /\ row' \in [Clients -> Nat]
          /\ pc' = [pc EXCEPT ![c] = "invoke"] \/ pc' = [pc EXCEPT ![c] = "loop"]
          /\ UNCHANGED <<result, req, over, attempt, seqno, amount>>
      <4>1. UNCHANGED <<result, req, over, attempt, seqno, amount>>
        BY <2>13 DEF InsertSpan, AttemptFailed, Goto
      <4>2. pc' = [pc EXCEPT ![c] = "invoke"] \/ pc' = [pc EXCEPT ![c] = "loop"]
        BY <2>13 DEF InsertSpan, AttemptFailed, Goto
      <4>3. row' = [row EXCEPT ![c] = NewRow(c)] \/ row' = [row EXCEPT ![c] = 0]
        BY <2>13 DEF InsertSpan
      <4>4. row \in [Clients -> Nat]
        BY <2>0 DEF LocalsOK
      <4>5. row' \in [Clients -> Nat]
        BY <3>3, <4>3, <4>4
      <4>6. QED
        BY <4>1, <4>2, <4>5
    <3>6. pc[c] = "insert"
      BY <2>13 DEF InsertSpan
    <3>7. /\ UNCHANGED <<made, bill>>
          /\ \/ lost' = [lost EXCEPT ![Trace(c)] = @ + 1]
             \/ lost' = lost
      BY <2>13 DEF InsertSpan
    <3>8. LocalsOK'
      BY <2>0, <3>5, <3>6 DEF LocalsOK, PCs
    <3>9. TablesOK'
      BY <2>0, <2>13, <3>4 DEF InsertSpan, TablesOK
    <3>10. HistoryOK'
      BY <2>0, <3>1, <3>7 DEF HistoryOK
    <3>11. BoundsOK'
      BY <2>0, <2>13, FaultType DEF InsertSpan, bounds, BoundsOK
    <3>12. QED
      BY <3>8, <3>9, <3>10, <3>11 DEF TypeOK
  <2>14. ASSUME NEW c \in Clients, InvokeOk(c) PROVE TypeOK'
    <3>1. Trace(c) \in Traces /\ Model(c) \in Models /\ System(c) \in Systems
      BY <2>0, <2>14, Inside DEF InvokeOk
    <3>2. LocalsOK'
      BY <2>0, <2>14, <3>1 DEF InvokeOk, Called, Goto, LocalsOK, PCs
    <3>3. HistoryOK'
      BY <2>0, <2>14, <3>1 DEF InvokeOk, Called, HistoryOK
    <3>4. TablesOK' /\ BoundsOK'
      BY <2>0, <2>14 DEF InvokeOk, tables, TablesOK, bounds, BoundsOK
    <3>5. QED
      BY <3>2, <3>3, <3>4 DEF TypeOK
  <2>15. ASSUME NEW c \in Clients, InvokeFails(c) PROVE TypeOK'
    <3>1. Trace(c) \in Traces /\ Model(c) \in Models /\ System(c) \in Systems
      BY <2>0, <2>15, Inside DEF InvokeFails
    <3>2. LocalsOK'
      BY <2>0, <2>15, <3>1 DEF InvokeFails, Called, Goto, LocalsOK, PCs
    <3>3. HistoryOK'
      BY <2>0, <2>15, <3>1 DEF InvokeFails, Called, HistoryOK
    <3>4. TablesOK' /\ BoundsOK'
      BY <2>0, <2>15 DEF InvokeFails, tables, TablesOK, bounds, BoundsOK
    <3>5. QED
      BY <3>2, <3>3, <3>4 DEF TypeOK
  <2>16. ASSUME NEW c \in Clients, CloseSpan(c) PROVE TypeOK'
    <3>1. Trace(c) \in Traces /\ req[c] \in Requests
      BY <2>0, <2>16, Inside DEF CloseSpan
    <3>2. "ok" \in SpanStates /\ req[c].degraded \in BOOLEAN /\ amount[c] \in Nat
      BY <2>0, <3>1 DEF Requests, SpanStates, LocalsOK
    <3>3. UpdateSpan(c, "ok", req[c].degraded, amount[c]) \/ spans' = spans
      BY <2>16 DEF CloseSpan
    <3>4. spans' \in [Traces -> Seq(SpanRows)]
      <4>1. CASE UpdateSpan(c, "ok", req[c].degraded, amount[c])
        BY <3>1, <3>2, <4>1, UpdateSpanType
      <4>2. CASE spans' = spans
        BY <2>0, <4>2 DEF TablesOK
      <4>3. QED
        BY <3>3, <4>1, <4>2
    <3>5. LocalsOK'
      BY <2>0, <2>16 DEF CloseSpan, AttemptFailed, Goto, LocalsOK, PCs, local
    <3>6. TablesOK'
      BY <2>0, <2>16, <3>4 DEF CloseSpan, TablesOK
    <3>7. BoundsOK'
      BY <2>0, <2>16, FaultType DEF CloseSpan, bounds, BoundsOK
    <3>8. HistoryOK'
      BY <2>0, <2>16 DEF CloseSpan, history, HistoryOK
    <3>9. QED
      BY <3>5, <3>6, <3>7, <3>8 DEF TypeOK
  <2>17. ASSUME NEW c \in Clients, Accrue(c) PROVE TypeOK'
    <3>1. Model(c) \in Models /\ System(c) \in Systems /\ amount[c] \in Nat
      BY <2>0, <2>17, Inside DEF Accrue, LocalsOK
    <3>2. /\ UNCHANGED <<spans, audited>>
          /\ \/ cost' = [cost EXCEPT ![System(c)][Model(c)] = @ + amount[c]]
             \/ cost' = cost
      BY <2>17 DEF Accrue
    <3>3. cost' \in [Systems -> [Models -> Nat]]
      <4>1. cost \in [Systems -> [Models -> Nat]]
        BY <2>0 DEF TablesOK
      <4>2. cost[System(c)][Model(c)] + amount[c] \in Nat
        BY <3>1, <4>1
      <4>3. QED
        <5>1. CASE cost' = cost
          BY <4>1, <5>1
        <5>2. CASE cost' = [cost EXCEPT ![System(c)][Model(c)] = @ + amount[c]]
          BY <3>1, <4>1, <4>2, <5>2
        <5>3. QED
          BY <3>2, <5>1, <5>2
    <3>4. LocalsOK'
      BY <2>0, <2>17, ReturnType DEF Accrue, Results
    <3>5. TablesOK'
      BY <2>0, <3>2, <3>3 DEF TablesOK
    <3>6. BoundsOK'
      BY <2>0, <2>17, FaultType DEF Accrue, bounds, BoundsOK
    <3>7. HistoryOK'
      BY <2>0, <2>17 DEF Accrue, history, HistoryOK
    <3>8. QED
      BY <3>4, <3>5, <3>6, <3>7 DEF TypeOK
  <2>18. ASSUME NEW c \in Clients, CloseFailed(c) PROVE TypeOK'
    <3>1. Trace(c) \in Traces
      BY <2>0, <2>18, Inside DEF CloseFailed
    <3>2. "failed" \in SpanStates
      BY DEF SpanStates
    <3>3. UpdateSpan(c, "failed", FALSE, 0) \/ spans' = spans
      BY <2>18 DEF CloseFailed
    <3>4. spans' \in [Traces -> Seq(SpanRows)]
      <4>1. CASE UpdateSpan(c, "failed", FALSE, 0)
        BY <3>1, <3>2, <4>1, UpdateSpanType
      <4>2. CASE spans' = spans
        BY <2>0, <4>2 DEF TablesOK
      <4>3. QED
        BY <3>3, <4>1, <4>2
    <3>5. LocalsOK'
      BY <2>0, <2>18 DEF CloseFailed, AttemptFailed, Goto, LocalsOK, PCs, local
    <3>6. TablesOK'
      BY <2>0, <2>18, <3>4 DEF CloseFailed, TablesOK
    <3>7. BoundsOK'
      BY <2>0, <2>18, FaultType DEF CloseFailed, bounds, BoundsOK
    <3>8. HistoryOK'
      BY <2>0, <2>18 DEF CloseFailed, history, HistoryOK
    <3>9. QED
      BY <3>5, <3>6, <3>7, <3>8 DEF TypeOK
  <2>19. ASSUME NEW c \in Clients, Fallback(c) PROVE TypeOK'
    <3>1. pc[c] = "loop" /\ req[c] \in Requests /\ FallbackTo[Model(c)] \in Models
      BY <2>0, <2>19, Inside DEF Fallback, Exhausted, CanFallback
    <3>2. [req[c] EXCEPT !.model = FallbackTo[Model(c)], !.noFallback = TRUE,
                         !.degraded = TRUE] \in Requests
      BY <3>1 DEF Requests
    <3>3. /\ req' = [req EXCEPT ![c] = [@ EXCEPT !.model = FallbackTo[Model(c)],
                                               !.noFallback = TRUE, !.degraded = TRUE]]
          /\ pc' = [pc EXCEPT ![c] = "prepare"]
          /\ attempt' = [attempt EXCEPT ![c] = 0]
          /\ UNCHANGED <<result, over, seqno, row, amount>>
          /\ req'[c].trace = req[c].trace /\ pc[c] = "loop"
      BY <2>0, <3>1, <2>19 DEF Fallback, Goto, LocalsOK, Requests
    <3>4. LocalsOK'
      BY <2>0, <3>2, <3>3 DEF LocalsOK, PCs
    <3>5. TablesOK' /\ HistoryOK' /\ BoundsOK'
      BY <2>0, <2>19 DEF Fallback, tables, TablesOK, history, HistoryOK,
         bounds, BoundsOK
    <3>6. QED
      BY <3>4, <3>5 DEF TypeOK
  <2>20. ASSUME NEW c \in Clients, GiveUp(c) PROVE TypeOK'
    <3>1. LocalsOK'
      BY <2>0, <2>20, ReturnType DEF GiveUp, Results
    <3>2. TablesOK' /\ HistoryOK' /\ BoundsOK'
      BY <2>0, <2>20 DEF GiveUp, tables, TablesOK, history, HistoryOK,
         bounds, BoundsOK
    <3>3. QED
      BY <3>1, <3>2 DEF TypeOK
  <2>21. ASSUME NEW c \in Clients, Crash(c) PROVE TypeOK'
    <3>1. LocalsOK'
      BY <2>0, <2>21, ReturnType DEF Crash, Results
    <3>2. BoundsOK'
      BY <2>0, <2>21 DEF Crash, BoundsOK
    <3>3. TablesOK' /\ HistoryOK'
      BY <2>0, <2>21 DEF Crash, tables, TablesOK, history, HistoryOK
    <3>4. QED
      BY <3>1, <3>2, <3>3 DEF TypeOK
  <2>22. CASE UNCHANGED vars
    BY <2>0, <2>22 DEF TypeOK, LocalsOK, TablesOK, HistoryOK, BoundsOK,
       vars, local, tables, history, bounds
  <2>23. QED
    BY <2>1, <2>2, <2>3, <2>4, <2>5, <2>6, <2>7, <2>8, <2>9, <2>10, <2>11,
       <2>12, <2>13, <2>14, <2>15, <2>16, <2>17, <2>18, <2>19, <2>20,
       <2>21, <2>22
       DEF Next, Step, Quiescent
<1>3. QED
  BY <1>1, <1>2, PTL DEF Spec

-----------------------------------------------------------------------------
(* Rows of spans and the clients that write them *)

\* Inside _invoke_once, with a row that start_span returned.
InCall == {"invoke", "close", "closeFailed"}

Holds(c) == pc[c] \in InCall /\ row[c] # 0

\* The row a client holds is open, and nobody else's.
RowsHeld ==
  \A c \in Clients : Holds(c) =>
    /\ row[c] \in DOMAIN spans[Trace(c)]
    /\ spans[Trace(c)][row[c]].state = "open"
    /\ \A d \in Clients \ {c} : Holds(d) /\ Trace(d) = Trace(c) => row[d] # row[c]

\* Only usable answers are recorded with a cost.
OnlyAnswersCost ==
  \A t \in Traces : \A i \in DOMAIN spans[t] :
    spans[t][i].state # "ok" => spans[t][i].cost = 0

RowInv == RowsHeld /\ OnlyAnswersCost

\* Without failing statements every call has its row.
EveryCallHasRow ==
  faults = 0 /\ crashes = 0 => \A c \in Clients : pc[c] \in InCall => row[c] # 0

LedgerInv == LedgerDerived /\ EveryCallHasRow

\* The budgets found too small are remembered between their reads and the
\* decision only.
OverOK ==
  \A c \in Clients :
    /\ over[c] # {} => pc[c] \in {"system", "budget"}
    /\ over[c] \subseteq {"global", System(c)}

\* A budget that was found too small still is, for the bill only grows.
OverTrue ==
  BillableArePriced => \A c \in Clients : \A scope \in over[c] :
    /\ Budget[scope] # NoBudget
    /\ Billed(scope) + Estimate[Model(c)] * req[c].attempts > Budget[scope]

\* Answers of a system and a model that are not booked yet.
ToBook(s, m) ==
  [c \in Clients |-> IF pc[c] \in {"close", "accrue"} /\ System(c) = s /\ Model(c) = m
                     THEN amount[c] ELSE 0]

\* What is booked, or about to be, was charged.
BookedWasBilled ==
  \A s \in Systems, m \in Models : Priced[m] =>
    cost[s][m] + SumFunction(ToBook(s, m)) <= bill[s][m]

\* Only complete() that ended has a result.
ResultOK == \A c \in Clients : pc[c] # "idle" => result[c] = "none"

RefusalInv == OverOK /\ OverTrue /\ BookedWasBilled /\ ResultOK

\* What the attempt loop and the answers carry.
AnswersOK ==
  \A c \in Clients :
    /\ pc[c] \in {"close", "accrue"} => amount[c] \in Charges
    /\ pc[c] \in InCall \cup {"seq", "insert", "accrue"} => req[c].attempts # 0

\* A client that found room in a budget and may still book an answer on it.
Spends(c, scope) ==
  /\ scope \in {"global", System(c)} /\ scope \notin over[c]
  /\ pc[c] \in InCall \cup {"budget", "loop", "seq", "insert", "accrue"}
       \/ (pc[c] = "system" /\ scope = "global")
  /\ Billable[Model(c)] /\ req[c].attempts # 0

Spending(scope) == {c \in Clients : Spends(c, scope)}

Spenders(scope) == {c \in Clients : scope \in {"global", System(c)}}

\* Every client that found room leaves room for one answer of each of the
\* others that may still come.
RoomLeft(scope) ==
  \/ Used(scope) = 0 /\ Spending(scope) = {}
  \/ \E m \in Models :
       /\ Billable[m]
       /\ Used(scope) + Estimate[m] + Cardinality(Spending(scope)) * Max(Charges)
            <= Budget[scope] + Cardinality(Spenders(scope)) * Max(Charges)

OvershootInv ==
  /\ OverOK /\ AnswersOK
  /\ HardQuota => \A scope \in Scopes :
       (Budget[scope] # NoBudget /\ HardLimit[scope]) => RoomLeft(scope)

\* A step of one client leaves the frames of the others alone.
LEMMA OtherClients ==
  ASSUME TypeOK, NEW c \in Clients, Submit(c) \/ Step(c) \/ Crash(c),
         NEW d \in Clients \ {c}
  PROVE  /\ pc'[d] = pc[d] /\ req'[d] = req[d] /\ row'[d] = row[d]
         /\ amount'[d] = amount[d] /\ over'[d] = over[d]
<1>1. /\ pc \in [Clients -> PCs] /\ req \in [Clients -> Requests \cup {NoRequest}]
      /\ row \in [Clients -> Nat] /\ amount \in [Clients -> Nat]
      /\ over \in [Clients -> SUBSET Scopes]
  BY DEF TypeOK, LocalsOK
<1>2. CASE Submit(c) \/ Crash(c)
  BY <1>1, <1>2 DEF Submit, Crash, Return, Goto
<1>3. CASE Step(c)
  BY <1>1, <1>3 DEF Step, Prepare, PrepareRejected, GuardCallsPass, GuardCallsExceeded,
     ReadGlobalBudget, ReadSystemBudget, ReadBudget, GuardReadFails, BudgetsPass,
     BudgetExceeded, NextAttempt, ReadSeq, InsertSpan, InvokeOk, InvokeFails, CloseSpan,
     Accrue, CloseFailed, Fallback, GiveUp, AttemptFailed, Return, Goto, local
<1>4. QED
  BY <1>2, <1>3

\* Steps outside the call itself, from the row to the booking.
QuietStep(c) ==
  /\ Submit(c) \/ Step(c) \/ Crash(c)
  /\ ~InsertSpan(c) /\ ~InvokeOk(c) /\ ~InvokeFails(c)
  /\ ~CloseSpan(c) /\ ~CloseFailed(c) /\ ~Accrue(c)

\* They change neither spans nor ledger nor bill.
LEMMA QuietSteps ==
  ASSUME TypeOK, NEW c \in Clients, QuietStep(c)
  PROVE  /\ UNCHANGED <<spans, cost, made, bill, lost>>
         /\ pc'[c] \notin InCall \cup {"accrue"}
         /\ crashes' = 0 => crashes = 0 /\ pc[c] \notin InCall \cup {"accrue"}
         /\ faults' = 0 => faults = 0
<1>1. pc \in [Clients -> PCs] /\ faults \in Nat /\ crashes \in Nat
  BY GatewayAssumption DEF TypeOK, LocalsOK, BoundsOK
<1>2. CASE Submit(c) \/ Crash(c)
  BY <1>1, <1>2 DEF Submit, Crash, Return, Goto, tables, history, InCall
<1>3. CASE Step(c)
  BY <1>1, <1>3 DEF QuietStep, Step, Prepare, PrepareRejected, GuardCallsPass,
     GuardCallsExceeded, ReadGlobalBudget, ReadSystemBudget, ReadBudget, GuardReadFails,
     BudgetsPass, BudgetExceeded, NextAttempt, ReadSeq, Fallback, GiveUp, AttemptFailed,
     Return, Goto, local, tables, history, bounds, Audit, Fault, Exhausted, AfterCalls, InCall
<1>4. QED
  BY <1>2, <1>3 DEF QuietStep

\* A step is quiet, or part of a call, or changes nothing.
LEMMA StepKinds ==
  ASSUME [Next]_vars
  PROVE  \/ \E c \in Clients : \/ QuietStep(c) \/ InsertSpan(c)
                               \/ InvokeOk(c) \/ InvokeFails(c)
                               \/ CloseSpan(c) \/ CloseFailed(c) \/ Accrue(c)
         \/ UNCHANGED vars
BY DEF Next, QuietStep, Quiescent

\* Which row an UPDATE of spans writes.
LEMMA UpdateSpanRow ==
  ASSUME TypeOK, NEW c \in Clients, Trace(c) \in Traces, NEW state, NEW degraded, NEW usd,
         row[c] # 0, row[c] \in DOMAIN spans[Trace(c)],
         UpdateSpan(c, state, degraded, usd)
  PROVE  /\ \A t \in Traces : /\ DOMAIN spans'[t] = DOMAIN spans[t]
                              /\ t # Trace(c) => spans'[t] = spans[t]
                              /\ \A i \in DOMAIN spans[t] : t # Trace(c) \/ i # row[c] =>
                                   spans'[t][i] = spans[t][i]
         /\ spans'[Trace(c)][row[c]].state = state
         /\ spans'[Trace(c)][row[c]].cost = usd
         /\ spans'[Trace(c)][row[c]].model = spans[Trace(c)][row[c]].model
         /\ spans'[Trace(c)][row[c]].seq = spans[Trace(c)][row[c]].seq
<1>1. spans \in [Traces -> Seq(SpanRows)]
  BY DEF TypeOK, TablesOK
<1>2. spans[Trace(c)][row[c]] \in SpanRows
  BY <1>1, ElementOfSeq, LenProperties
<1> DEFINE t0 == Trace(c)
           x  == [spans[t0][row[c]] EXCEPT !.state = state, !.degraded = degraded,
                                           !.cost = usd]
           s1 == [spans[t0] EXCEPT ![row[c]] = x]
<1>3. spans' = [spans EXCEPT ![t0] = s1]
  BY DEF UpdateSpan
<1>4. /\ x.state = state /\ x.cost = usd
      /\ x.model = spans[t0][row[c]].model /\ x.seq = spans[t0][row[c]].seq
  BY <1>2 DEF SpanRows
<1> HIDE DEF x
<1>5. /\ DOMAIN s1 = DOMAIN spans[t0] /\ s1[row[c]] = x
      /\ \A i \in DOMAIN spans[t0] : i # row[c] => s1[i] = spans[t0][i]
  OBVIOUS
<1> HIDE DEF s1
<1>6. /\ spans'[t0] = s1
      /\ \A t \in Traces : t # t0 => spans'[t] = spans[t]
  BY <1>1, <1>3
<1>7. QED
  BY <1>4, <1>5, <1>6

\* The row an INSERT into spans adds.
LEMMA AppendSpanRow ==
  ASSUME TypeOK, NEW c \in Clients, Trace(c) \in Traces, Model(c) \in Models,
         spans' = [spans EXCEPT ![Trace(c)] = Append(@, OpenSpan(c))]
  PROVE  /\ NewRow(c) \in Nat \ {0}
         /\ NewRow(c) \notin DOMAIN spans[Trace(c)]
         /\ \A t \in Traces : t # Trace(c) => spans'[t] = spans[t]
         /\ DOMAIN spans'[Trace(c)] = DOMAIN spans[Trace(c)] \cup {NewRow(c)}
         /\ \A i \in DOMAIN spans[Trace(c)] : spans'[Trace(c)][i] = spans[Trace(c)][i]
         /\ spans'[Trace(c)][NewRow(c)] = OpenSpan(c)
<1>1. /\ spans \in [Traces -> Seq(SpanRows)] /\ spans[Trace(c)] \in Seq(SpanRows)
      /\ OpenSpan(c) \in SpanRows
  BY DEF TypeOK, TablesOK, LocalsOK, OpenSpan, SpanRows, SpanStates
<1>2. /\ Len(spans[Trace(c)]) \in Nat /\ DOMAIN spans[Trace(c)] = 1..Len(spans[Trace(c)])
  BY <1>1, LenProperties
<1>3. spans'[Trace(c)] = Append(spans[Trace(c)], OpenSpan(c))
  BY <1>1
<1>4. \A t \in Traces : t # Trace(c) => spans'[t] = spans[t]
  BY <1>1
<1> HIDE DEF Trace, OpenSpan
<1>5. QED
  BY <1>1, <1>2, <1>3, <1>4, AppendProperties DEF NewRow

\* Every step keeps the rows apart.
LEMMA NextRows ==
  ASSUME TypeOK, RowInv, [Next]_vars
  PROVE  RowInv'
<1>0. pc \in [Clients -> PCs] /\ req \in [Clients -> Requests \cup {NoRequest}]
      /\ row \in [Clients -> Nat]
  BY DEF TypeOK, LocalsOK
<1>1. ASSUME NEW c \in Clients, QuietStep(c) PROVE RowInv'
  <2>1. \A d \in Clients \ {c} : /\ pc'[d] = pc[d] /\ req'[d] = req[d] /\ row'[d] = row[d]
                                 /\ amount'[d] = amount[d] /\ over'[d] = over[d]
    BY <1>1, OtherClients DEF QuietStep
  <2>2. pc'[c] \notin InCall /\ UNCHANGED spans
    BY <1>1, QuietSteps
  <2>3. QED
    BY <2>1, <2>2 DEF RowInv, RowsHeld, OnlyAnswersCost, Holds, Trace
<1>2. ASSUME NEW c \in Clients, InsertSpan(c) PROVE RowInv'
  <2>1. \A d \in Clients \ {c} : pc'[d] = pc[d] /\ req'[d] = req[d] /\ row'[d] = row[d]
    BY <1>2, OtherClients DEF Step
  <2>2. Trace(c) \in Traces /\ Model(c) \in Models /\ req' = req
    BY <1>2, Inside DEF TypeOK, InsertSpan
  <2>3. CASE spans' = [spans EXCEPT ![Trace(c)] = Append(@, OpenSpan(c))]
             /\ row' = [row EXCEPT ![c] = NewRow(c)]
    <3>1. /\ NewRow(c) \in Nat \ {0} /\ NewRow(c) \notin DOMAIN spans[Trace(c)]
          /\ \A t \in Traces : t # Trace(c) => spans'[t] = spans[t]
          /\ DOMAIN spans'[Trace(c)] = DOMAIN spans[Trace(c)] \cup {NewRow(c)}
          /\ \A i \in DOMAIN spans[Trace(c)] : spans'[Trace(c)][i] = spans[Trace(c)][i]
          /\ spans'[Trace(c)][NewRow(c)] = OpenSpan(c)
      BY <2>2, <2>3, AppendSpanRow
    <3>2. row'[c] = NewRow(c) /\ OpenSpan(c).state = "open" /\ OpenSpan(c).cost = 0
      BY <1>0, <2>3 DEF OpenSpan
    <3>3. \A d \in Clients \ {c} : Holds(d) => Trace(d) \in Traces
      BY Inside DEF TypeOK, Holds, InCall
    <3> HIDE DEF OpenSpan, NewRow
    <3>4. RowsHeld'
      <4>1. \A d \in Clients \ {c} : Holds(d)' <=> Holds(d)
        BY <2>1 DEF Holds
      <4>2. \A d \in Clients : Trace(d)' = Trace(d)
        BY <2>2 DEF Trace
      <4>3. \A d \in Clients \ {c} : Holds(d) =>
              /\ row'[d] = row[d] /\ row[d] \in DOMAIN spans[Trace(d)]
              /\ spans[Trace(d)][row[d]].state = "open"
              /\ \A e \in Clients \ {c, d} : Holds(e) /\ Trace(e) = Trace(d) => row[e] # row[d]
        BY <2>1 DEF RowInv, RowsHeld
      <4>4. \A d \in Clients \ {c} : Holds(d) =>
              /\ row[d] \in DOMAIN spans'[Trace(d)]
              /\ spans'[Trace(d)][row[d]].state = "open"
              /\ Trace(d) = Trace(c) => row[d] # NewRow(c)
        BY <3>1, <3>3, <4>3
      <4>5. /\ row'[c] \in DOMAIN spans'[Trace(c)]
            /\ spans'[Trace(c)][row'[c]].state = "open"
        BY <3>1, <3>2
      <4>6. ASSUME NEW d \in Clients, Holds(d)'
            PROVE  /\ row'[d] \in DOMAIN spans'[Trace(d)]
                   /\ spans'[Trace(d)][row'[d]].state = "open"
                   /\ \A e \in Clients \ {d} :
                        Holds(e)' /\ Trace(e) = Trace(d) => row'[e] # row'[d]
        BY <2>1, <3>2, <4>1, <4>3, <4>4, <4>5, <4>6
      <4>7. QED
        BY <4>2, <4>6 DEF RowsHeld
    <3>5. OnlyAnswersCost'
      BY <2>2, <3>1, <3>2 DEF RowInv, OnlyAnswersCost
    <3>6. QED
      BY <3>4, <3>5 DEF RowInv
  <2>4. CASE row' = [row EXCEPT ![c] = 0] /\ UNCHANGED spans
    BY <1>0, <2>1, <2>2, <2>4 DEF RowInv, RowsHeld, OnlyAnswersCost, Holds, Trace
  <2>5. QED
    BY <1>2, <2>3, <2>4 DEF InsertSpan
<1>3. ASSUME NEW c \in Clients, InvokeOk(c) \/ InvokeFails(c) PROVE RowInv'
  <2>1. /\ UNCHANGED <<spans, req, row>>
        /\ pc[c] \in InCall
        /\ \A d \in Clients \ {c} : pc'[d] = pc[d]
    BY <1>0, <1>3 DEF InvokeOk, InvokeFails, tables, Goto, InCall
  <2>2. \A d \in Clients : Holds(d)' => Holds(d)
    BY <2>1 DEF Holds
  <2>3. QED
    BY <2>1, <2>2 DEF RowInv, RowsHeld, OnlyAnswersCost, Trace
<1>4. ASSUME NEW c \in Clients, CloseSpan(c) \/ CloseFailed(c) PROVE RowInv'
  <2>1. /\ pc[c] \in InCall /\ pc'[c] \notin InCall /\ UNCHANGED <<req, row>>
        /\ \A d \in Clients \ {c} : pc'[d] = pc[d]
    BY <1>0, <1>4 DEF CloseSpan, CloseFailed, AttemptFailed, local, Goto, InCall
  <2>2. CASE UNCHANGED spans
    BY <2>1, <2>2 DEF RowInv, RowsHeld, OnlyAnswersCost, Holds, Trace
  <2>3. CASE spans' # spans
    <3>1. \/ UpdateSpan(c, "ok", req[c].degraded, amount[c])
          \/ UpdateSpan(c, "failed", FALSE, 0)
      BY <1>4, <2>3 DEF CloseSpan, CloseFailed
    <3>2. Holds(c)
      BY <2>1, <2>3, <3>1 DEF UpdateSpan, Holds
    <3>3. Trace(c) \in Traces
      BY <2>1, Inside DEF TypeOK, InCall
    <3>4. /\ row[c] \in DOMAIN spans[Trace(c)]
          /\ \A d \in Clients \ {c} : Holds(d) /\ Trace(d) = Trace(c) => row[d] # row[c]
      BY <3>2 DEF RowInv, RowsHeld
    <3>5. /\ \A t \in Traces : /\ DOMAIN spans'[t] = DOMAIN spans[t]
                               /\ t # Trace(c) => spans'[t] = spans[t]
                               /\ \A i \in DOMAIN spans[t] : t # Trace(c) \/ i # row[c] =>
                                    spans'[t][i] = spans[t][i]
          /\ LET r == spans'[Trace(c)][row[c]] IN r.state = "ok" \/ r.cost = 0
      <4>1. PICK state, degraded, usd :
              UpdateSpan(c, state, degraded, usd) /\ (state = "ok" \/ usd = 0)
        BY <3>1
      <4>2. QED
        BY <3>2, <3>3, <3>4, <4>1, UpdateSpanRow DEF Holds
    <3>6. \A d \in Clients \ {c} : Holds(d) => Trace(d) \in Traces
      BY Inside DEF TypeOK, Holds, InCall
    <3>7. RowsHeld'
      BY <2>1, <3>4, <3>5, <3>6 DEF RowInv, RowsHeld, Holds, Trace
    <3>8. OnlyAnswersCost'
      BY <3>3, <3>5 DEF RowInv, OnlyAnswersCost
    <3>9. QED
      BY <3>7, <3>8 DEF RowInv
  <2>4. QED
    BY <2>2, <2>3
<1>5. ASSUME NEW c \in Clients, Accrue(c) PROVE RowInv'
  <2>1. /\ \A d \in Clients \ {c} : pc'[d] = pc[d] /\ req'[d] = req[d] /\ row'[d] = row[d]
        /\ pc'[c] \notin InCall /\ UNCHANGED spans
    BY <1>0, <1>5 DEF Accrue, Return, Goto, InCall
  <2>2. QED
    BY <2>1 DEF RowInv, RowsHeld, OnlyAnswersCost, Holds, Trace
<1>6. CASE UNCHANGED vars
  BY <1>6 DEF vars, local, tables, RowInv, RowsHeld, OnlyAnswersCost, Holds, Trace
<1>7. QED
  BY <1>1, <1>2, <1>3, <1>4, <1>5, <1>6, StepKinds

\* Whoever is inside a call writes the row it inserted and no other.
THEOREM GatewayRows == Spec => []RowInv
<1>1. Init => RowInv
  BY DEF Init, RowInv, RowsHeld, OnlyAnswersCost, Holds, InCall
<1>2. TypeOK /\ RowInv /\ [Next]_vars => RowInv'
  BY NextRows
<1>3. QED
  BY <1>1, <1>2, GatewayTypeOK, PTL DEF Spec

\* docs/03: a span that was closed is final, whatever the clients that share
\* its trace do, and no span goes or changes its number or model.
THEOREM GatewayClosedSpanFinal == Spec => ClosedSpanFinal
<1>1. TypeOK /\ RowInv /\ [Next]_vars => [\A t \in Traces : SpanStep(t)]_spans
  <2> SUFFICES ASSUME TypeOK, RowInv, [Next]_vars, spans' # spans, NEW t \in Traces
               PROVE  SpanStep(t)
    OBVIOUS
  <2>1. PICK c \in Clients : InsertSpan(c) \/ CloseSpan(c) \/ CloseFailed(c)
    BY StepKinds, QuietSteps DEF InvokeOk, InvokeFails, Accrue, tables, vars
  <2>2. Trace(c) \in Traces /\ Model(c) \in Models /\ pc[c] # "idle"
    BY <2>1, Inside DEF TypeOK, InsertSpan, CloseSpan, CloseFailed
  <2>3. CASE InsertSpan(c)
    <3>1. spans' = [spans EXCEPT ![Trace(c)] = Append(@, OpenSpan(c))]
      BY <2>3 DEF InsertSpan
    <3>2. \A i \in DOMAIN spans[t] : i \in DOMAIN spans'[t] /\ spans'[t][i] = spans[t][i]
      BY <2>2, <3>1, AppendSpanRow
    <3>3. QED
      BY <3>2 DEF SpanStep
  <2>4. CASE CloseSpan(c) \/ CloseFailed(c)
    <3>1. \/ UpdateSpan(c, "ok", req[c].degraded, amount[c])
          \/ UpdateSpan(c, "failed", FALSE, 0)
      BY <2>4 DEF CloseSpan, CloseFailed
    <3>2. Holds(c)
      BY <2>4, <3>1 DEF UpdateSpan, Holds, InCall, CloseSpan, CloseFailed
    <3>3. /\ row[c] \in DOMAIN spans[Trace(c)]
          /\ spans[Trace(c)][row[c]].state = "open"
      BY <3>2 DEF RowInv, RowsHeld
    <3>4. /\ DOMAIN spans'[t] = DOMAIN spans[t]
          /\ \A i \in DOMAIN spans[t] : t # Trace(c) \/ i # row[c] =>
               spans'[t][i] = spans[t][i]
          /\ spans'[Trace(c)][row[c]].model = spans[Trace(c)][row[c]].model
          /\ spans'[Trace(c)][row[c]].seq = spans[Trace(c)][row[c]].seq
      BY <2>2, <3>1, <3>2, <3>3, UpdateSpanRow DEF Holds
    <3>5. QED
      BY <3>3, <3>4 DEF SpanStep
  <2>5. QED
    BY <2>1, <2>3, <2>4
<1>2. QED
  BY <1>1, GatewayTypeOK, GatewayRows, PTL DEF Spec, ClosedSpanFinal

-----------------------------------------------------------------------------
(* The ledger is a derivation of the spans *)

\* The costs of the rows of one trace.
LEMMA CostOfType ==
  ASSUME NEW s \in Seq(SpanRows)
  PROVE  /\ CostOf(s) = SumFunctionOnSet([i \in DOMAIN s |-> s[i].cost], DOMAIN s)
         /\ IsFiniteSet(DOMAIN s)
         /\ \A i \in DOMAIN s : s[i].cost \in Nat
         /\ CostOf(s) \in Nat
<1> DEFINE f == [i \in DOMAIN s |-> s[i].cost]
<1>1. DOMAIN s = 1..Len(s) /\ Len(s) \in Nat
  BY LenProperties
<1>2. IsFiniteSet(DOMAIN s)
  BY <1>1, FS_Interval
<1>3. \A i \in DOMAIN s : s[i].cost \in Nat
  <2>1. \A i \in DOMAIN s : s[i] \in SpanRows
    BY <1>1, ElementOfSeq
  <2>2. QED
    BY <2>1 DEF SpanRows
<1>4. CostOf(s) = SumFunctionOnSet(f, DOMAIN s)
  BY DEF CostOf, SumFunction
<1>5. \A i \in DOMAIN s : f[i] \in Nat
  BY <1>3
<1> HIDE DEF f
<1>6. CostOf(s) \in Nat
  BY <1>2, <1>4, <1>5, SumType
<1>7. QED
  BY <1>2, <1>3, <1>4, <1>6 DEF f

\* A new row that costs nothing.
LEMMA CostOfAppend ==
  ASSUME NEW s \in Seq(SpanRows), NEW u \in Seq(SpanRows), NEW n,
         n \notin DOMAIN s, DOMAIN u = DOMAIN s \cup {n},
         \A i \in DOMAIN s : u[i] = s[i], u[n].cost = 0
  PROVE  CostOf(u) = CostOf(s)
<1> DEFINE f == [i \in DOMAIN s |-> s[i].cost]
           g == [i \in DOMAIN u |-> u[i].cost]
<1>1. /\ CostOf(s) = SumFunctionOnSet(f, DOMAIN s) /\ IsFiniteSet(DOMAIN s)
      /\ CostOf(u) = SumFunctionOnSet(g, DOMAIN u)
      /\ \A i \in DOMAIN u : g[i] \in Nat
  BY CostOfType
<1>2. g[n] = 0 /\ \A i \in DOMAIN s : g[i] = f[i]
  OBVIOUS
<1>3. SumFunctionOnSet(f, DOMAIN s) \in Nat
  BY <1>1, CostOfType
<1> HIDE DEF f, g
<1>4. SumFunctionOnSet(g, DOMAIN u) = g[n] + SumFunctionOnSet(g, DOMAIN s)
  BY <1>1, SumAdd
<1>5. SumFunctionOnSet(g, DOMAIN s) = SumFunctionOnSet(f, DOMAIN s)
  BY <1>1, <1>2, SumEqual
<1>6. QED
  BY <1>1, <1>2, <1>3, <1>4, <1>5

\* A row that cost nothing gets its cost.
LEMMA CostOfUpdate ==
  ASSUME NEW s \in Seq(SpanRows), NEW u \in Seq(SpanRows), NEW n \in DOMAIN s,
         DOMAIN u = DOMAIN s, \A i \in DOMAIN s \ {n} : u[i] = s[i], s[n].cost = 0
  PROVE  CostOf(u) = CostOf(s) + u[n].cost
<1> DEFINE f == [i \in DOMAIN s |-> s[i].cost]
           g == [i \in DOMAIN s |-> u[i].cost]
<1>1. /\ CostOf(s) = SumFunctionOnSet(f, DOMAIN s) /\ IsFiniteSet(DOMAIN s)
      /\ CostOf(u) = SumFunctionOnSet(g, DOMAIN s)
      /\ \A i \in DOMAIN s : f[i] \in Nat /\ g[i] \in Nat
  BY CostOfType
<1>2. f[n] = 0 /\ g[n] = u[n].cost /\ \A i \in DOMAIN s \ {n} : f[i] = g[i]
  OBVIOUS
<1> HIDE DEF f, g
<1>3. /\ SumFunctionOnSet(f, DOMAIN s) \in Nat /\ SumFunctionOnSet(g, DOMAIN s) \in Nat
      /\ SumFunctionOnSet(g, DOMAIN s) + f[n] = SumFunctionOnSet(f, DOMAIN s) + g[n]
  BY <1>1, <1>2, SumChange
<1>4. QED
  BY <1>1, <1>2, <1>3

\* The total of all traces when one of them changes.
LEMMA SpanTotalChange ==
  ASSUME TypeOK, TypeOK', NEW t0 \in Traces,
         \A t \in Traces : t # t0 => spans'[t] = spans[t]
  PROVE  /\ SpanTotal \in Nat /\ SpanTotal' \in Nat
         /\ SpanTotal' + CostOf(spans[t0]) = SpanTotal + CostOf(spans'[t0])
<1> DEFINE f == [t \in Traces |-> CostOf(spans[t])]
           g == [t \in Traces |-> CostOf(spans'[t])]
<1>1. \A t \in Traces : spans[t] \in Seq(SpanRows) /\ spans'[t] \in Seq(SpanRows)
  BY DEF TypeOK, TablesOK
<1>2. \A t \in Traces : f[t] \in Nat /\ g[t] \in Nat
  BY <1>1, CostOfType
<1>3. \A t \in Traces \ {t0} : f[t] = g[t]
  OBVIOUS
<1>4. /\ SpanTotal = SumFunctionOnSet(f, Traces)
      /\ SpanTotal' = SumFunctionOnSet(g, Traces)
  BY DEF SpanTotal, SumFunction
<1>5. f[t0] = CostOf(spans[t0]) /\ g[t0] = CostOf(spans'[t0]) /\ IsFiniteSet(Traces)
  BY TablesAssumption
<1> HIDE DEF f, g
<1>6. /\ SumFunctionOnSet(f, Traces) \in Nat /\ SumFunctionOnSet(g, Traces) \in Nat
      /\ SumFunctionOnSet(g, Traces) + f[t0] = SumFunctionOnSet(f, Traces) + g[t0]
  BY <1>2, <1>3, <1>5, SumChange
<1>7. QED
  BY <1>4, <1>5, <1>6

\* The rows of the ledger are finitely many and hold natural numbers.
LEMMA ByRowType ==
  ASSUME NEW t, \A s \in Systems, m \in Models : t[s][m] \in Nat
  PROVE  /\ IsFiniteSet(Systems \X Models)
         /\ \A sm \in Systems \X Models : ByRow(t)[sm] \in Nat
         /\ \A s \in Systems, m \in Models : ByRow(t)[<<s, m>>] = t[s][m]
<1>1. IsFiniteSet(Systems \X Models)
  BY TablesAssumption, FS_Product
<1>2. QED
  BY <1>1 DEF ByRow

\* Two tables that differ in one row only.
LEMMA ByRowOther ==
  ASSUME NEW t1, NEW t2, NEW s \in Systems, NEW m \in Models,
         \A x \in Systems, y \in Models : ~(x = s /\ y = m) => t2[x][y] = t1[x][y]
  PROVE  \A sm \in Systems \X Models : sm # <<s, m>> => ByRow(t1)[sm] = ByRow(t2)[sm]
BY DEF ByRow

\* What is not booked yet changes with one client at a time.
LEMMA UnbookedChange ==
  ASSUME TypeOK, TypeOK', NEW c \in Clients,
         \A d \in Clients \ {c} : pc'[d] = pc[d] /\ amount'[d] = amount[d]
  PROVE  /\ SumFunction(Unbooked) \in Nat /\ SumFunction(Unbooked)' \in Nat
         /\ SumFunction(Unbooked)' + Unbooked[c] = SumFunction(Unbooked) + Unbooked'[c]
<1> DEFINE f == Unbooked
           g == Unbooked'
<1>1. \A d \in Clients : f[d] \in Nat /\ g[d] \in Nat
  BY DEF TypeOK, LocalsOK, Unbooked
<1>2. \A d \in Clients \ {c} : f[d] = g[d]
  BY DEF Unbooked
<1>3. /\ SumFunction(Unbooked) = SumFunctionOnSet(f, Clients)
      /\ SumFunction(Unbooked)' = SumFunctionOnSet(g, Clients)
      /\ IsFiniteSet(Clients)
  BY GatewayAssumption DEF SumFunction, Unbooked
<1> HIDE DEF f, g
<1>4. /\ SumFunctionOnSet(f, Clients) \in Nat /\ SumFunctionOnSet(g, Clients) \in Nat
      /\ SumFunctionOnSet(g, Clients) + f[c] = SumFunctionOnSet(f, Clients) + g[c]
  BY <1>1, <1>2, <1>3, SumChange
<1>5. QED
  BY <1>3, <1>4 DEF f, g

\* Every step keeps spans, ledger and the answers between them in balance.
LEMMA NextLedger ==
  ASSUME TypeOK, TypeOK', RowInv, LedgerInv, [Next]_vars, faults' = 0, crashes' = 0
  PROVE  LedgerInv'
<1>0. /\ pc \in [Clients -> PCs] /\ row \in [Clients -> Nat] /\ amount \in [Clients -> Nat]
      /\ faults \in Nat /\ crashes \in Nat
  BY GatewayAssumption DEF TypeOK, LocalsOK, BoundsOK
<1>00. ~Fault
  BY <1>0 DEF Fault
<1>1. ASSUME NEW c \in Clients, QuietStep(c) PROVE LedgerInv'
  <2>1. \A d \in Clients \ {c} : /\ pc'[d] = pc[d] /\ row'[d] = row[d]
                                 /\ amount'[d] = amount[d]
    BY <1>1, OtherClients DEF QuietStep
  <2>2. /\ pc'[c] \notin InCall \cup {"accrue"} /\ UNCHANGED <<spans, cost>>
        /\ faults = 0 /\ crashes = 0 /\ pc[c] # "accrue"
    BY <1>1, QuietSteps
  <2>3. Unbooked' = Unbooked
    BY <2>1, <2>2 DEF Unbooked
  <2>4. SpanTotal' = SpanTotal /\ LedgerTotal' = LedgerTotal
    BY <2>2 DEF SpanTotal, LedgerTotal
  <2>5. QED
    BY <2>1, <2>2, <2>3, <2>4 DEF LedgerInv, LedgerDerived, EveryCallHasRow
<1>2. ASSUME NEW c \in Clients, InsertSpan(c) PROVE LedgerInv'
  <2>1. /\ \A d \in Clients \ {c} : /\ pc'[d] = pc[d] /\ row'[d] = row[d]
        /\ amount' = amount /\ cost' = cost /\ pc[c] = "insert"
    BY <1>2, OtherClients DEF Step, InsertSpan
  <2>2. /\ spans' = [spans EXCEPT ![Trace(c)] = Append(@, OpenSpan(c))]
        /\ row' = [row EXCEPT ![c] = NewRow(c)] /\ pc'[c] = "invoke"
        /\ faults = 0 /\ crashes = 0
    BY <1>0, <1>00, <1>2 DEF InsertSpan, bounds, Goto
  <2>3. Trace(c) \in Traces /\ Model(c) \in Models
    BY <2>1, Inside DEF TypeOK
  <2>4. /\ NewRow(c) \in Nat \ {0} /\ NewRow(c) \notin DOMAIN spans[Trace(c)]
        /\ \A t \in Traces : t # Trace(c) => spans'[t] = spans[t]
        /\ DOMAIN spans'[Trace(c)] = DOMAIN spans[Trace(c)] \cup {NewRow(c)}
        /\ \A i \in DOMAIN spans[Trace(c)] : spans'[Trace(c)][i] = spans[Trace(c)][i]
        /\ spans'[Trace(c)][NewRow(c)].cost = 0
    <3>1. spans'[Trace(c)][NewRow(c)] = OpenSpan(c)
      BY <2>2, <2>3, AppendSpanRow
    <3>2. spans'[Trace(c)][NewRow(c)].cost = 0
      BY <3>1 DEF OpenSpan
    <3>3. QED
      BY <2>2, <2>3, <3>2, AppendSpanRow
  <2>5. CostOf(spans'[Trace(c)]) = CostOf(spans[Trace(c)]) /\ CostOf(spans[Trace(c)]) \in Nat
    BY <2>3, <2>4, CostOfAppend, CostOfType DEF TypeOK, TablesOK
  <2>6. SpanTotal' = SpanTotal
    BY <2>3, <2>4, <2>5, SpanTotalChange
  <2>7. Unbooked' = Unbooked /\ LedgerTotal' = LedgerTotal
    BY <2>1, <2>2 DEF Unbooked, LedgerTotal
  <2>8. EveryCallHasRow'
    BY <1>0, <2>1, <2>2, <2>4 DEF LedgerInv, EveryCallHasRow
  <2>9. QED
    BY <2>1, <2>2, <2>6, <2>7, <2>8 DEF LedgerInv, LedgerDerived
<1>3. ASSUME NEW c \in Clients, InvokeOk(c) \/ InvokeFails(c) PROVE LedgerInv'
  <2>1. /\ UNCHANGED <<spans, cost, row, faults, crashes>>
        /\ pc[c] \in InCall /\ pc'[c] \in InCall
        /\ \A d \in Clients \ {c} : pc'[d] = pc[d] /\ amount'[d] = amount[d]
    BY <1>0, <1>3 DEF InvokeOk, InvokeFails, tables, Goto, InCall, bounds
  <2>2. Unbooked' = Unbooked
    BY <2>1 DEF Unbooked, InCall
  <2>3. SpanTotal' = SpanTotal /\ LedgerTotal' = LedgerTotal
    BY <2>1 DEF SpanTotal, LedgerTotal
  <2>4. QED
    BY <2>1, <2>2, <2>3 DEF LedgerInv, LedgerDerived, EveryCallHasRow
<1>4. ASSUME NEW c \in Clients, CloseSpan(c) \/ CloseFailed(c) PROVE LedgerInv'
  <2>1. /\ pc[c] \in {"close", "closeFailed"} /\ pc'[c] \notin InCall
        /\ UNCHANGED <<req, row, amount, cost, faults, crashes>>
        /\ \A d \in Clients \ {c} : pc'[d] = pc[d]
    <3>1. CASE CloseSpan(c)
      BY <1>0, <1>00, <3>1 DEF CloseSpan, local, Goto, InCall, bounds
    <3>2. CASE CloseFailed(c)
      BY <1>0, <1>00, <3>2 DEF CloseFailed, AttemptFailed, local, Goto, InCall, bounds
    <3>3. QED
      BY <1>4, <3>1, <3>2
  <2>2. row[c] # 0 /\ Holds(c)
    BY <2>1 DEF LedgerInv, EveryCallHasRow, InCall, Holds
  <2>3. /\ Trace(c) \in Traces /\ row[c] \in DOMAIN spans[Trace(c)]
        /\ spans[Trace(c)][row[c]].cost = 0
    BY <2>1, <2>2, Inside DEF TypeOK, RowInv, RowsHeld, OnlyAnswersCost
  <2>4. PICK state, degraded, usd :
          /\ UpdateSpan(c, state, degraded, usd)
          /\ usd = IF pc'[c] = "accrue" THEN amount[c] ELSE 0
    <3>1. CASE CloseSpan(c)
      <4>1. UpdateSpan(c, "ok", req[c].degraded, amount[c]) /\ pc'[c] = "accrue"
        BY <1>0, <1>00, <3>1 DEF CloseSpan, Goto
      <4>2. QED
        BY <4>1
    <3>2. CASE CloseFailed(c)
      <4>1. UpdateSpan(c, "failed", FALSE, 0) /\ pc'[c] # "accrue"
        BY <1>0, <1>00, <3>2 DEF CloseFailed, AttemptFailed, Goto
      <4>2. QED
        BY <4>1
    <3>3. QED
      BY <1>4, <3>1, <3>2
  <2>5. /\ \A t \in Traces : t # Trace(c) => spans'[t] = spans[t]
        /\ DOMAIN spans'[Trace(c)] = DOMAIN spans[Trace(c)]
        /\ \A i \in DOMAIN spans[Trace(c)] : i # row[c] =>
             spans'[Trace(c)][i] = spans[Trace(c)][i]
        /\ spans'[Trace(c)][row[c]].cost = usd
    BY <2>2, <2>3, <2>4, UpdateSpanRow
  <2>6. /\ CostOf(spans'[Trace(c)]) = CostOf(spans[Trace(c)]) + usd
        /\ CostOf(spans[Trace(c)]) \in Nat
    <3>1. spans[Trace(c)] \in Seq(SpanRows) /\ spans'[Trace(c)] \in Seq(SpanRows)
      BY <2>3 DEF TypeOK, TablesOK
    <3> DEFINE s == spans[Trace(c)]
               u == spans'[Trace(c)]
    <3>2. /\ row[c] \in DOMAIN s /\ DOMAIN u = DOMAIN s /\ s[row[c]].cost = 0
          /\ \A i \in DOMAIN s \ {row[c]} : u[i] = s[i]
          /\ u[row[c]].cost = usd /\ s \in Seq(SpanRows) /\ u \in Seq(SpanRows)
      BY <2>3, <2>5, <3>1
    <3> HIDE DEF s, u
    <3>3. CostOf(u) = CostOf(s) + usd /\ CostOf(s) \in Nat
      BY <3>2, CostOfUpdate, CostOfType
    <3>4. QED
      BY <3>3 DEF s, u
  <2>7. usd \in Nat
    BY <1>0, <2>4
  <2>8. SpanTotal' = SpanTotal + usd
    BY <2>3, <2>5, <2>6, <2>7, SpanTotalChange
  <2>9. Unbooked[c] = 0 /\ Unbooked'[c] = usd
    BY <2>1, <2>4 DEF Unbooked
  <2>10. SumFunction(Unbooked)' = SumFunction(Unbooked) + usd
    BY <2>1, <2>7, <2>9, UnbookedChange
  <2>11. LedgerTotal' = LedgerTotal /\ LedgerTotal \in Nat
    <3>1. LedgerTotal' = LedgerTotal
      BY <2>1 DEF LedgerTotal
    <3>2. cost \in [Systems -> [Models -> Nat]] /\ DOMAIN ByRow(cost) = Systems \X Models
      BY DEF TypeOK, TablesOK, ByRow
    <3>3. \A sm \in Systems \X Models : ByRow(cost)[sm] \in Nat
      BY <3>2 DEF ByRow
    <3>4. IsFiniteSet(Systems \X Models)
      BY TablesAssumption, FS_Product
    <3>5. LedgerTotal \in Nat
      BY <3>2, <3>3, <3>4, SumType DEF LedgerTotal, SumFunction
    <3>6. QED
      BY <3>1, <3>5
  <2>12. SumFunction(Unbooked) \in Nat
    BY <2>1, UnbookedChange
  <2>13. SpanTotal = LedgerTotal + SumFunction(Unbooked)
    BY <2>1 DEF LedgerInv, LedgerDerived
  <2>14. SpanTotal' = LedgerTotal' + SumFunction(Unbooked)'
    BY <2>7, <2>8, <2>10, <2>11, <2>12, <2>13
  <2>15. EveryCallHasRow'
    BY <2>1 DEF LedgerInv, EveryCallHasRow
  <2>16. QED
    BY <2>14, <2>15 DEF LedgerInv, LedgerDerived
<1>5. ASSUME NEW c \in Clients, Accrue(c) PROVE LedgerInv'
  <2>1. /\ pc[c] = "accrue" /\ pc'[c] = "idle" /\ UNCHANGED <<spans, faults, crashes>>
        /\ cost' = [cost EXCEPT ![System(c)][Model(c)] = @ + amount[c]]
        /\ \A d \in Clients \ {c} : pc'[d] = pc[d] /\ row'[d] = row[d] /\ amount'[d] = amount[d]
    BY <1>0, <1>00, <1>5 DEF Accrue, Return, Goto, bounds
  <2>2. System(c) \in Systems /\ Model(c) \in Models /\ amount[c] \in Nat
    BY <1>0, <2>1, Inside DEF TypeOK
  <2>3. /\ cost \in [Systems -> [Models -> Nat]] /\ cost' \in [Systems -> [Models -> Nat]]
        /\ cost'[System(c)][Model(c)] = cost[System(c)][Model(c)] + amount[c]
        /\ \A x \in Systems, y \in Models : ~(x = System(c) /\ y = Model(c)) =>
             cost'[x][y] = cost[x][y]
    BY <2>1, <2>2 DEF TypeOK, TablesOK
  <2>4. /\ LedgerTotal = SumFunctionOnSet(ByRow(cost), Systems \X Models)
        /\ LedgerTotal' = SumFunctionOnSet(ByRow(cost'), Systems \X Models)
    BY DEF LedgerTotal, SumFunction, ByRow
  <2>5. LedgerTotal \in Nat /\ LedgerTotal' = LedgerTotal + amount[c]
    <3> DEFINE a == <<System(c), Model(c)>>
               f == ByRow(cost)
               g == ByRow(cost')
               R == Systems \X Models
    <3>1. R \in SUBSET (Systems \X Models) /\ a \in R
      BY <2>2
    <3>2. /\ IsFiniteSet(R) /\ \A sm \in R : f[sm] \in Nat /\ g[sm] \in Nat
          /\ \A sm \in R : sm # a => f[sm] = g[sm]
          /\ f[a] \in Nat /\ g[a] = f[a] + amount[c]
      <4>1. /\ IsFiniteSet(R) /\ \A sm \in R : f[sm] \in Nat /\ g[sm] \in Nat
            /\ \A sm \in R : sm # a => f[sm] = g[sm]
            /\ f[a] = cost[System(c)][Model(c)] /\ g[a] = cost'[System(c)][Model(c)]
        <5>1. \A x \in Systems, y \in Models : cost[x][y] \in Nat /\ cost'[x][y] \in Nat
          BY <2>3
        <5>2. IsFiniteSet(R) /\ \A sm \in R : f[sm] \in Nat /\ g[sm] \in Nat
          BY <5>1, ByRowType
        <5>3. f[a] = cost[System(c)][Model(c)] /\ g[a] = cost'[System(c)][Model(c)]
          BY <2>2, <5>1, ByRowType
        <5>4. \A sm \in R : sm # a => f[sm] = g[sm]
          BY <2>2, <2>3, ByRowOther
        <5>5. QED
          BY <5>2, <5>3, <5>4
      <4>2. cost[System(c)][Model(c)] \in Nat
        BY <2>2, <2>3
      <4> HIDE DEF f, g, R, a
      <4>3. QED
        BY <2>3, <4>1, <4>2
    <3>3. LedgerTotal = SumFunctionOnSet(f, R) /\ LedgerTotal' = SumFunctionOnSet(g, R)
      BY <2>4
    <3> HIDE DEF a, f, g, R
    <3>4. /\ SumFunctionOnSet(f, R) \in Nat /\ SumFunctionOnSet(g, R) \in Nat
          /\ SumFunctionOnSet(g, R) + f[a] = SumFunctionOnSet(f, R) + g[a]
      BY <3>1, <3>2, SumUpdate
    <3>5. QED
      BY <2>2, <3>2, <3>3, <3>4
  <2>6. Unbooked[c] = amount[c] /\ Unbooked'[c] = 0
    BY <2>1 DEF Unbooked
  <2>7. /\ SumFunction(Unbooked) \in Nat /\ SumFunction(Unbooked)' \in Nat
        /\ SumFunction(Unbooked)' + amount[c] = SumFunction(Unbooked)
    BY <2>1, <2>6, UnbookedChange
  <2>8. SpanTotal' = SpanTotal
    BY <2>1 DEF SpanTotal
  <2>9. SpanTotal = LedgerTotal + SumFunction(Unbooked)
    BY <2>1 DEF LedgerInv, LedgerDerived
  <2>10. SpanTotal' = LedgerTotal' + SumFunction(Unbooked)'
    BY <2>2, <2>5, <2>7, <2>8, <2>9
  <2>11. EveryCallHasRow'
    BY <2>1 DEF LedgerInv, EveryCallHasRow, InCall
  <2>12. QED
    BY <2>10, <2>11 DEF LedgerInv, LedgerDerived
<1>6. CASE UNCHANGED vars
  BY <1>6 DEF vars, local, tables, bounds, LedgerInv, LedgerDerived, EveryCallHasRow,
     SpanTotal, LedgerTotal, Unbooked
<1>7. QED
  BY <1>1, <1>2, <1>3, <1>4, <1>5, <1>6, StepKinds

\* Nothing is booked before the first call.
LEMMA InitLedger == Init => LedgerInv
<1> SUFFICES ASSUME Init PROVE LedgerInv
  OBVIOUS
<1>1. SpanTotal = 0
  <2> DEFINE f == [t \in Traces |-> CostOf(spans[t])]
  <2>1. \A t \in Traces : spans[t] = <<>>
    BY DEF Init
  <2>2. CostOf(<<>>) = 0
    <3>1. CostOf(<<>>) = SumFunctionOnSet([i \in DOMAIN <<>> |-> <<>>[i].cost], {})
      BY DEF CostOf, SumFunction
    <3>2. QED
      BY <3>1, SumEmpty
  <2>3. \A t \in Traces : f[t] = 0
    BY <2>1, <2>2
  <2>4. SpanTotal = SumFunctionOnSet(f, Traces) /\ IsFiniteSet(Traces)
    BY TablesAssumption DEF SpanTotal, SumFunction
  <2> HIDE DEF f
  <2>5. QED
    BY <2>3, <2>4, SumZero
<1>2. LedgerTotal = 0
  <2> DEFINE f == ByRow(cost)
             R == Systems \X Models
  <2>1. \A sm \in R : f[sm] = 0
    BY DEF Init, ByRow
  <2>2. LedgerTotal = SumFunctionOnSet(f, R) /\ IsFiniteSet(R)
    BY TablesAssumption, FS_Product DEF LedgerTotal, SumFunction, ByRow
  <2> HIDE DEF f, R
  <2>3. QED
    BY <2>1, <2>2, SumZero
<1>3. SumFunction(Unbooked) = 0
  <2> DEFINE f == Unbooked
  <2>1. \A c \in Clients : f[c] = 0
    BY DEF Init, Unbooked
  <2>2. SumFunction(Unbooked) = SumFunctionOnSet(f, Clients) /\ IsFiniteSet(Clients)
    BY GatewayAssumption DEF SumFunction, Unbooked
  <2> HIDE DEF f
  <2>3. QED
    BY <2>1, <2>2, SumZero
<1>4. EveryCallHasRow
  BY DEF Init, EveryCallHasRow, InCall
<1>5. QED
  BY <1>1, <1>2, <1>3, <1>4 DEF LedgerInv, LedgerDerived

\* cost_daily is a derivation of spans (repository.py:199): for any number of
\* clients, systems and models, ledger and spans differ by the answers just
\* being booked, as long as no statement failed and no process died.
THEOREM GatewayLedgerDerived == Spec => []LedgerDerived
<1>1. TypeOK /\ TypeOK' /\ RowInv /\ LedgerInv /\ [Next]_vars => LedgerInv'
  BY NextLedger DEF LedgerInv, LedgerDerived, EveryCallHasRow
<1>2. LedgerInv => LedgerDerived
  BY DEF LedgerInv
<1>3. QED
  BY <1>1, <1>2, InitLedger, GatewayTypeOK, GatewayRows, PTL DEF Spec

-----------------------------------------------------------------------------
(* Budgets: what was booked was billed *)

\* The rows a budget adds up.
LEMMA RowsOfBudget ==
  ASSUME NEW scope
  PROVE  /\ IsFiniteSet(BudgetRows(scope))
         /\ \A sm \in BudgetRows(scope) :
              /\ sm[1] \in Systems /\ sm[2] \in Models /\ Billable[sm[2]]
              /\ \A t : ByRow(t)[sm] = t[sm[1]][sm[2]]
<1>1. BudgetRows(scope) \subseteq Systems \X Models
  BY DEF BudgetRows
<1>2. IsFiniteSet(BudgetRows(scope))
  BY <1>1, TablesAssumption, FS_Product, FS_Subset
<1>3. ASSUME NEW sm \in BudgetRows(scope)
      PROVE  /\ sm[1] \in Systems /\ sm[2] \in Models /\ Billable[sm[2]]
             /\ \A t : ByRow(t)[sm] = t[sm[1]][sm[2]]
  BY DEF BudgetRows, ByRow
<1>4. QED
  BY <1>2, <1>3

\* A bill never gets smaller.
LEMMA BillGrows ==
  ASSUME TypeOK, TypeOK', [Next]_vars, NEW scope
  PROVE  /\ Billed(scope) \in Nat /\ Billed(scope)' \in Nat
         /\ Billed(scope) <= Billed(scope)'
<1>1. \A s \in Systems, m \in Models :
        /\ bill[s][m] \in Nat /\ bill'[s][m] \in Nat /\ bill[s][m] <= bill'[s][m]
  <2>1. bill \in [Systems -> [Models -> Nat]] /\ bill' \in [Systems -> [Models -> Nat]]
    BY DEF TypeOK, HistoryOK
  <2>2. CASE UNCHANGED bill
    BY <2>1, <2>2
  <2>3. ASSUME NEW c \in Clients, NEW charge \in Nat,
               bill' = [bill EXCEPT ![System(c)][Model(c)] = @ + charge]
        PROVE  \A s \in Systems, m \in Models :
                 /\ bill[s][m] \in Nat /\ bill'[s][m] \in Nat /\ bill[s][m] <= bill'[s][m]
    BY <2>1, <2>3
  <2>4. ASSUME NEW c \in Clients, InvokeOk(c) \/ InvokeFails(c)
        PROVE  \E charge \in Nat : bill' = [bill EXCEPT ![System(c)][Model(c)] = @ + charge]
    BY <2>4, GatewayAssumption DEF InvokeOk, InvokeFails, Called
  <2>5. QED
    BY <2>2, <2>3, <2>4, StepKinds, QuietSteps DEF InsertSpan, CloseSpan, CloseFailed,
       Accrue, history, vars
<1> DEFINE f == ByRow(bill)
           g == ByRow(bill')
           R == BudgetRows(scope)
<1>2. IsFiniteSet(R) /\ \A sm \in R : f[sm] \in Nat /\ g[sm] \in Nat /\ f[sm] <= g[sm]
  BY <1>1, RowsOfBudget
<1>3. Billed(scope) = SumFunctionOnSet(f, R) /\ Billed(scope)' = SumFunctionOnSet(g, R)
  BY DEF Billed, BudgetRows, ByRow
<1> HIDE DEF f, g, R
<1>4. /\ SumFunctionOnSet(f, R) \in Nat /\ SumFunctionOnSet(g, R) \in Nat
      /\ SumFunctionOnSet(f, R) <= SumFunctionOnSet(g, R)
  BY <1>2, SumType, SumMonotone
<1>5. QED
  BY <1>3, <1>4

\* Answers to book change with one client at a time.
LEMMA ToBookChange ==
  ASSUME TypeOK, TypeOK', NEW s, NEW m, NEW c \in Clients,
         \A d \in Clients \ {c} : pc'[d] = pc[d] /\ req'[d] = req[d] /\ amount'[d] = amount[d]
  PROVE  /\ SumFunction(ToBook(s, m)) \in Nat /\ SumFunction(ToBook(s, m))' \in Nat
         /\ ToBook(s, m)[c] \in Nat /\ ToBook(s, m)'[c] \in Nat
         /\ SumFunction(ToBook(s, m))' + ToBook(s, m)[c]
              = SumFunction(ToBook(s, m)) + ToBook(s, m)'[c]
<1> DEFINE f == ToBook(s, m)
           g == ToBook(s, m)'
<1>1. \A d \in Clients : f[d] \in Nat /\ g[d] \in Nat
  BY DEF TypeOK, LocalsOK, ToBook
<1>2. \A d \in Clients \ {c} : f[d] = g[d]
  BY DEF ToBook, Model
<1>3. /\ SumFunction(ToBook(s, m)) = SumFunctionOnSet(f, Clients)
      /\ SumFunction(ToBook(s, m))' = SumFunctionOnSet(g, Clients)
      /\ IsFiniteSet(Clients)
  BY GatewayAssumption DEF SumFunction, ToBook
<1> HIDE DEF f, g
<1>4. /\ SumFunctionOnSet(f, Clients) \in Nat /\ SumFunctionOnSet(g, Clients) \in Nat
      /\ SumFunctionOnSet(g, Clients) + f[c] = SumFunctionOnSet(f, Clients) + g[c]
  BY <1>1, <1>2, <1>3, SumChange
<1>5. QED
  BY <1>1, <1>3, <1>4 DEF f, g

\* The ledger never books more than was billed.
LEMMA UsedIsBilled ==
  ASSUME TypeOK, BookedWasBilled, BillableArePriced, NEW scope
  PROVE  /\ Used(scope) \in Nat /\ Billed(scope) \in Nat
         /\ Used(scope) <= Billed(scope)
<1>1. \A s \in Systems, m \in Models : cost[s][m] \in Nat /\ bill[s][m] \in Nat
  BY DEF TypeOK, TablesOK, HistoryOK
<1>2. ASSUME NEW s \in Systems, NEW m \in Models, Billable[m] PROVE cost[s][m] <= bill[s][m]
  <2>1. SumFunction(ToBook(s, m)) \in Nat
    <3> DEFINE f == ToBook(s, m)
    <3>1. \A d \in Clients : f[d] \in Nat
      BY DEF TypeOK, LocalsOK, ToBook
    <3>2. SumFunction(ToBook(s, m)) = SumFunctionOnSet(f, Clients) /\ IsFiniteSet(Clients)
      BY GatewayAssumption DEF SumFunction, ToBook
    <3> HIDE DEF f
    <3>3. QED
      BY <3>1, <3>2, SumType
  <2>2. cost[s][m] + SumFunction(ToBook(s, m)) <= bill[s][m]
    BY <1>2 DEF BookedWasBilled, BillableArePriced
  <2>3. QED
    BY <1>1, <2>1, <2>2
<1> DEFINE f == ByRow(cost)
           g == ByRow(bill)
           R == BudgetRows(scope)
<1>3. IsFiniteSet(R) /\ \A sm \in R : f[sm] \in Nat /\ g[sm] \in Nat /\ f[sm] <= g[sm]
  BY <1>1, <1>2, RowsOfBudget
<1>4. Used(scope) = SumFunctionOnSet(f, R) /\ Billed(scope) = SumFunctionOnSet(g, R)
  BY DEF Used, Billed
<1> HIDE DEF f, g, R
<1>5. /\ SumFunctionOnSet(f, R) \in Nat /\ SumFunctionOnSet(g, R) \in Nat
      /\ SumFunctionOnSet(f, R) <= SumFunctionOnSet(g, R)
  BY <1>3, SumType, SumMonotone
<1>6. QED
  BY <1>4, <1>5

\* Every step keeps booked and billed apart.
LEMMA NextBooked ==
  ASSUME TypeOK, TypeOK', BookedWasBilled, [Next]_vars
  PROVE  BookedWasBilled'
<1>0. /\ pc \in [Clients -> PCs] /\ amount \in [Clients -> Nat]
      /\ cost \in [Systems -> [Models -> Nat]] /\ bill \in [Systems -> [Models -> Nat]]
  BY DEF TypeOK, LocalsOK, TablesOK, HistoryOK
<1> DEFINE B(s, m) == SumFunction(ToBook(s, m))
<1>1. ASSUME NEW c \in Clients, UNCHANGED <<cost, bill>>,
             Submit(c) \/ Step(c) \/ Crash(c),
             \A s, m : ToBook(s, m)'[c] <= ToBook(s, m)[c]
      PROVE  BookedWasBilled'
  <2>1. \A d \in Clients \ {c} : pc'[d] = pc[d] /\ req'[d] = req[d] /\ amount'[d] = amount[d]
    BY <1>1, OtherClients
  <2> SUFFICES ASSUME NEW s \in Systems, NEW m \in Models, Priced[m]
               PROVE  cost'[s][m] + B(s, m)' <= bill'[s][m]
    BY DEF BookedWasBilled
  <2>2. /\ B(s, m) \in Nat /\ B(s, m)' \in Nat
        /\ ToBook(s, m)[c] \in Nat /\ ToBook(s, m)'[c] \in Nat
        /\ B(s, m)' + ToBook(s, m)[c] = B(s, m) + ToBook(s, m)'[c]
    BY <2>1, ToBookChange
  <2>3. cost[s][m] + B(s, m) <= bill[s][m]
    BY DEF BookedWasBilled
  <2>4. cost[s][m] \in Nat /\ bill[s][m] \in Nat
    BY <1>0
  <2> HIDE DEF B
  <2>5. ToBook(s, m)'[c] <= ToBook(s, m)[c]
    BY <1>1
  <2>6. QED
    BY <1>1, <2>2, <2>3, <2>4, <2>5
<1>2. ASSUME NEW c \in Clients, QuietStep(c) PROVE BookedWasBilled'
  <2>1. UNCHANGED <<cost, bill>> /\ pc'[c] \notin {"close", "accrue"}
    BY <1>2, QuietSteps DEF InCall
  <2>2. ASSUME NEW s, NEW m PROVE ToBook(s, m)'[c] <= ToBook(s, m)[c]
    BY <1>0, <2>1 DEF ToBook
  <2>3. QED
    BY <1>1, <1>2, <2>1, <2>2 DEF QuietStep
<1>3. ASSUME NEW c \in Clients, InsertSpan(c) \/ CloseSpan(c) \/ CloseFailed(c)
      PROVE BookedWasBilled'
  <2>1. UNCHANGED <<cost, bill>> /\ req' = req /\ amount' = amount
    BY <1>3 DEF InsertSpan, CloseSpan, CloseFailed, history, local
  <2>2. pc'[c] \in {"close", "accrue"} => pc[c] \in {"close", "accrue"}
    BY <1>0, <1>3 DEF InsertSpan, CloseSpan, CloseFailed, Goto, AttemptFailed
  <2>3. ASSUME NEW s, NEW m PROVE ToBook(s, m)'[c] <= ToBook(s, m)[c]
    BY <1>0, <2>1, <2>2 DEF ToBook, Model
  <2>4. Step(c)
    BY <1>3 DEF Step
  <2>5. QED
    BY <1>1, <2>1, <2>3, <2>4
<1>4. ASSUME NEW c \in Clients, InvokeOk(c) \/ InvokeFails(c) PROVE BookedWasBilled'
  <2>1. /\ UNCHANGED <<cost, req>> /\ pc[c] = "invoke"
        /\ \A d \in Clients \ {c} : pc'[d] = pc[d] /\ req'[d] = req[d] /\ amount'[d] = amount[d]
    BY <1>4, OtherClients DEF InvokeOk, InvokeFails, tables, Step
  <2>2. System(c) \in Systems /\ Model(c) \in Models
    BY <2>1, Inside DEF TypeOK
  <2>3. PICK charge \in Nat :
          /\ bill' = [bill EXCEPT ![System(c)][Model(c)] = @ + charge]
          /\ pc'[c] \in {"close", "accrue"} /\ Priced[Model(c)] => amount'[c] = charge
    <3>1. CASE InvokeOk(c)
      <4>1. PICK charge \in Charges :
              /\ bill' = [bill EXCEPT ![System(c)][Model(c)] = @ + charge]
              /\ \E a \in IF Priced[Model(c)] THEN {charge} ELSE Charges :
                   amount' = [amount EXCEPT ![c] = a]
        BY <3>1 DEF InvokeOk, Called
      <4>2. QED
        BY ZenonT(30), <1>0, <4>1, GatewayAssumption
    <3>2. CASE InvokeFails(c)
      <4>1. PICK charge \in Charges \cup {0} :
              bill' = [bill EXCEPT ![System(c)][Model(c)] = @ + charge]
        BY <3>2 DEF InvokeFails, Called
      <4>2. pc'[c] = "closeFailed"
        BY <1>0, <3>2 DEF InvokeFails, Goto
      <4>3. QED
        BY <4>1, <4>2, GatewayAssumption
    <3>3. QED
      BY <1>4, <3>1, <3>2
  <2> SUFFICES ASSUME NEW s \in Systems, NEW m \in Models, Priced[m]
               PROVE  cost'[s][m] + B(s, m)' <= bill'[s][m]
    BY DEF BookedWasBilled
  <2>4. /\ B(s, m) \in Nat /\ B(s, m)' \in Nat
        /\ ToBook(s, m)[c] \in Nat /\ ToBook(s, m)'[c] \in Nat
        /\ B(s, m)' + ToBook(s, m)[c] = B(s, m) + ToBook(s, m)'[c]
    BY <2>1, ToBookChange
  <2>5. cost[s][m] + B(s, m) <= bill[s][m]
    BY DEF BookedWasBilled
  <2>6. cost[s][m] \in Nat /\ bill[s][m] \in Nat /\ bill'[s][m] \in Nat
    BY <1>0, <2>3
  <2>7. CASE s = System(c) /\ m = Model(c)
    <3>1. bill'[s][m] = bill[s][m] + charge
      BY <1>0, <2>2, <2>3, <2>7
    <3>2. ToBook(s, m)[c] = 0
      BY <2>1 DEF ToBook
    <3>3. ToBook(s, m)'[c] <= charge
      BY <2>1, <2>3, <2>7 DEF ToBook, Model
    <3> HIDE DEF B
    <3>4. QED
      BY <2>1, <2>4, <2>5, <2>6, <3>1, <3>2, <3>3
  <2>8. CASE ~(s = System(c) /\ m = Model(c))
    <3>1. bill'[s][m] = bill[s][m]
      BY <1>0, <2>2, <2>3, <2>8
    <3>2. ToBook(s, m)[c] = 0 /\ ToBook(s, m)'[c] = 0
      BY <2>1, <2>8 DEF ToBook, Model
    <3> HIDE DEF B
    <3>3. QED
      BY <2>1, <2>4, <2>5, <2>6, <3>1, <3>2
  <2>9. QED
    BY <2>7, <2>8
<1>5. ASSUME NEW c \in Clients, Accrue(c) PROVE BookedWasBilled'
  <2>1. /\ bill' = bill /\ pc[c] = "accrue" /\ pc'[c] = "idle"
        /\ \A d \in Clients \ {c} : pc'[d] = pc[d] /\ req'[d] = req[d] /\ amount'[d] = amount[d]
    BY <1>0, <1>5, OtherClients DEF Accrue, history, Step, Return, Goto
  <2>2. System(c) \in Systems /\ Model(c) \in Models
    BY <2>1, Inside DEF TypeOK
  <2> SUFFICES ASSUME NEW s \in Systems, NEW m \in Models, Priced[m]
               PROVE  cost'[s][m] + B(s, m)' <= bill'[s][m]
    BY DEF BookedWasBilled
  <2>3. /\ B(s, m) \in Nat /\ B(s, m)' \in Nat
        /\ ToBook(s, m)[c] \in Nat /\ ToBook(s, m)'[c] \in Nat
        /\ B(s, m)' + ToBook(s, m)[c] = B(s, m) + ToBook(s, m)'[c]
    BY <2>1, ToBookChange
  <2>4. cost[s][m] + B(s, m) <= bill[s][m]
    BY DEF BookedWasBilled
  <2>5. ToBook(s, m)'[c] = 0
    BY <2>1 DEF ToBook
  <2>6. cost'[s][m] \in Nat /\ cost[s][m] \in Nat /\ bill[s][m] \in Nat
        /\ cost'[s][m] <= cost[s][m] + ToBook(s, m)[c]
    <3>1. CASE cost' = cost
      BY <1>0, <2>3, <3>1
    <3>2. CASE cost' = [cost EXCEPT ![System(c)][Model(c)] = @ + amount[c]]
      <4>1. s = System(c) /\ m = Model(c) => ToBook(s, m)[c] = amount[c]
        BY <2>1 DEF ToBook
      <4>2. /\ s = System(c) /\ m = Model(c) => cost'[s][m] = cost[s][m] + amount[c]
            /\ ~(s = System(c) /\ m = Model(c)) => cost'[s][m] = cost[s][m]
        BY <1>0, <2>2, <3>2
      <4>3. cost[s][m] \in Nat /\ bill[s][m] \in Nat /\ amount[c] \in Nat
        BY <1>0
      <4>4. QED
        BY <2>3, <4>1, <4>2, <4>3
    <3>3. QED
      BY <1>5, <3>1, <3>2 DEF Accrue
  <2> HIDE DEF B
  <2>7. QED
    BY <2>1, <2>3, <2>4, <2>5, <2>6
<1>6. CASE UNCHANGED vars
  BY <1>6 DEF vars, local, tables, history, BookedWasBilled, ToBook, Model
<1>7. QED
  BY <1>2, <1>3, <1>4, <1>5, <1>6, StepKinds

\* Who remembers a budget that is too small found it so, and kept its request.
LEMMA OverChange ==
  ASSUME TypeOK, OverOK, NEW c \in Clients, Submit(c) \/ Step(c) \/ Crash(c)
  PROVE  /\ over'[c] # {} => /\ pc[c] # "idle" /\ pc'[c] \in {"system", "budget"}
                              /\ req'[c] = req[c]
         /\ over'[c] \subseteq {"global", System(c)}
         /\ \A scope \in over'[c] : scope \in over[c] \/ ~BudgetFits(c, scope)
<1>1. /\ pc \in [Clients -> PCs] /\ over \in [Clients -> SUBSET Scopes]
      /\ over[c] # {} => pc[c] \in {"system", "budget"}
      /\ over[c] \subseteq {"global", System(c)}
  BY DEF TypeOK, LocalsOK, OverOK
<1>2. CASE Submit(c) \/ Crash(c)
  BY <1>1, <1>2 DEF Submit, Crash, Return, Goto
<1>3. CASE ReadGlobalBudget(c) \/ ReadSystemBudget(c)
  <2>1. PICK scope \in {"global", System(c)}, next \in {"system", "budget"} :
          \E here \in {"global", "system"} : ReadBudget(c, scope, here, next)
    BY <1>3 DEF ReadGlobalBudget, ReadSystemBudget
  <2>2. /\ over'[c] = IF BudgetFits(c, scope) THEN over[c] ELSE over[c] \cup {scope}
        /\ pc'[c] = next /\ req' = req /\ pc[c] # "idle"
    BY <1>1, <2>1 DEF ReadBudget, Goto
  <2>3. QED
    BY <1>1, <2>1, <2>2
<1>4. CASE BudgetExceeded(c)
  <2>1. CASE over' = [over EXCEPT ![c] = {}]
    BY <1>1, <2>1
  <2>2. CASE over' = [over EXCEPT ![c] = @ \ {FirstOver(c)}] /\ UNCHANGED <<pc, req>>
    BY <1>1, <2>2
  <2>3. QED
    BY <1>4, <2>1, <2>2 DEF BudgetExceeded, Return
<1>5. CASE over' = [over EXCEPT ![c] = {}]
  BY <1>1, <1>5
<1>6. CASE over' = over /\ pc[c] \notin {"system", "budget"}
  BY <1>1, <1>6
<1>7. CASE BudgetsPass(c)
  BY <1>1, <1>7 DEF BudgetsPass, local
<1>8. CASE \/ Prepare(c) \/ GuardCallsPass(c) \/ NextAttempt(c) \/ ReadSeq(c)
           \/ InsertSpan(c) \/ InvokeOk(c) \/ InvokeFails(c) \/ CloseSpan(c)
           \/ CloseFailed(c) \/ Fallback(c)
  <2>1. over' = over /\ pc[c] \notin {"system", "budget"}
    BY <1>8 DEF Prepare, GuardCallsPass, NextAttempt, ReadSeq, InsertSpan, InvokeOk,
       InvokeFails, CloseSpan, CloseFailed, Fallback, Exhausted, local
  <2>2. QED
    BY <1>6, <2>1
<1>9. CASE \/ PrepareRejected(c) \/ GuardCallsExceeded(c) \/ GuardReadFails(c)
           \/ Accrue(c) \/ GiveUp(c)
  <2>1. \/ over' = over /\ pc[c] \notin {"system", "budget"}
        \/ over' = [over EXCEPT ![c] = {}]
    BY <1>9 DEF PrepareRejected, GuardCallsExceeded, GuardReadFails, Accrue, GiveUp,
       Return, local
  <2>2. QED
    BY <1>5, <1>6, <2>1
<1>10. QED
  BY <1>2, <1>3, <1>4, <1>7, <1>8, <1>9 DEF Step

\* A budget of a client that is too small was too small when it was read, and
\* the bill has only grown since.
LEMMA NextOver ==
  ASSUME TypeOK, TypeOK', BookedWasBilled, OverOK, OverTrue, [Next]_vars
  PROVE  OverOK' /\ OverTrue'
<1> DEFINE Need(c) == Estimate[Model(c)] * req[c].attempts
<1>1. CASE UNCHANGED vars
  BY <1>1 DEF vars, local, history, OverOK, OverTrue, Billed, Model
<1>2. ASSUME NEW c \in Clients, Submit(c) \/ Step(c) \/ Crash(c)
      PROVE  OverOK' /\ OverTrue'
  <2>1. \A d \in Clients \ {c} : pc'[d] = pc[d] /\ req'[d] = req[d] /\ over'[d] = over[d]
    BY <1>2, OtherClients
  <2>2. OverOK'
    BY <1>2, <2>1, OverChange DEF OverOK
  <2>3. ASSUME BillableArePriced, NEW d \in Clients, NEW scope \in over'[d]
        PROVE  /\ Budget[scope] # NoBudget
               /\ Billed(scope)' + (Need(d))' > Budget[scope]
    <3>1. pc[d] # "idle" /\ req'[d] = req[d] /\ scope \in Scopes
      BY <1>2, <2>1, OverChange DEF OverOK, TypeOK, LocalsOK
    <3>2. Model(d) \in Models /\ req[d].attempts \in Nat
      BY <3>1, Inside, GatewayAssumption DEF TypeOK, Requests
    <3>3. Need(d) \in Nat /\ (Need(d))' = Need(d)
      BY <3>1, <3>2, GatewayAssumption DEF Model
    <3>4. /\ Used(scope) \in Nat /\ Billed(scope) \in Nat /\ Billed(scope)' \in Nat
          /\ Used(scope) <= Billed(scope) /\ Billed(scope) <= Billed(scope)'
      BY <2>3, UsedIsBilled, BillGrows
    <3>5. Budget[scope] \in Nat \cup {NoBudget}
      BY <3>1, GatewayAssumption
    <3>6. scope \in over[d] \/ ~BudgetFits(d, scope)
      BY <1>2, <2>1, OverChange
    <3>7. scope \in over[d] => /\ Budget[scope] # NoBudget
                               /\ Billed(scope) + Need(d) > Budget[scope]
      BY <2>3 DEF OverTrue
    <3>8. ~BudgetFits(d, scope) => /\ Budget[scope] # NoBudget
                                   /\ ~(Used(scope) + Need(d) <= Budget[scope])
      BY DEF BudgetFits
    <3> HIDE DEF Need
    <3>9. QED
      BY <3>3, <3>4, <3>5, <3>6, <3>7, <3>8
  <2>4. OverTrue'
    BY <2>3 DEF OverTrue, BillableArePriced
  <2>5. QED
    BY <2>2, <2>4
<1>3. QED
  BY <1>1, <1>2 DEF Next, Quiescent

\* A result is there only when complete() has ended.
LEMMA NextResult ==
  ASSUME TypeOK, ResultOK, [Next]_vars
  PROVE  ResultOK'
<1>1. pc \in [Clients -> PCs] /\ result \in [Clients -> Results]
  BY DEF TypeOK, LocalsOK
<1>2. ASSUME NEW c \in Clients, Submit(c) \/ Step(c) \/ Crash(c) PROVE ResultOK'
  <2>1. CASE Submit(c) \/ Crash(c)
    BY <1>1, <2>1 DEF ResultOK, Submit, Crash, Return, Goto
  <2>2. CASE Step(c)
    BY <1>1, <2>2 DEF ResultOK, Step, Prepare, PrepareRejected, GuardCallsPass,
       GuardCallsExceeded, ReadGlobalBudget, ReadSystemBudget, ReadBudget, GuardReadFails,
       BudgetsPass, BudgetExceeded, NextAttempt, ReadSeq, InsertSpan, InvokeOk, InvokeFails,
       CloseSpan, Accrue, CloseFailed, Fallback, GiveUp, AttemptFailed, Return, Goto, Exhausted
  <2>3. QED
    BY <1>2, <2>1, <2>2
<1>3. CASE UNCHANGED vars
  BY <1>3 DEF vars, ResultOK
<1>4. QED
  BY <1>2, <1>3 DEF Next, Quiescent

\* Before the first call nothing was booked and no budget was read.
LEMMA InitRefusal == Init => RefusalInv
<1> SUFFICES ASSUME Init PROVE RefusalInv
  OBVIOUS
<1>1. OverOK /\ OverTrue /\ ResultOK
  BY DEF Init, OverOK, OverTrue, ResultOK
<1>2. ASSUME NEW s \in Systems, NEW m \in Models
      PROVE  cost[s][m] + SumFunction(ToBook(s, m)) <= bill[s][m]
  <2> DEFINE f == ToBook(s, m)
  <2>1. \A c \in Clients : f[c] = 0
    BY DEF Init, ToBook
  <2>2. SumFunction(ToBook(s, m)) = SumFunctionOnSet(f, Clients) /\ IsFiniteSet(Clients)
    BY GatewayAssumption DEF SumFunction, ToBook
  <2> HIDE DEF f
  <2>3. SumFunction(ToBook(s, m)) = 0
    BY <2>1, <2>2, SumZero
  <2>4. cost[s][m] = 0 /\ bill[s][m] = 0
    BY DEF Init
  <2>5. QED
    BY <2>3, <2>4
<1>3. QED
  BY <1>1, <1>2 DEF RefusalInv, BookedWasBilled

\* Budgets found too small stay too small, and nothing is booked unbilled.
LEMMA GatewayRefusalInv == Spec => []RefusalInv
<1>1. TypeOK /\ TypeOK' /\ RefusalInv /\ [Next]_vars => RefusalInv'
  BY NextBooked, NextOver, NextResult DEF RefusalInv
<1>2. QED
  BY <1>1, InitRefusal, GatewayTypeOK, PTL DEF Spec

\* A request is refused for money only when the provider's bill leaves no room
\* for its estimate (NOTES N-045): whatever the other clients booked since the
\* guard's reads, and whatever statements fail.
THEOREM GatewayRefusalJustified == Spec => RefusalJustified
<1>1. TypeOK /\ RefusalInv /\ [Next]_vars => [\A c \in Clients : RefusalStep(c)]_vars
  <2> SUFFICES ASSUME TypeOK, RefusalInv, Next, NEW c \in Clients, BillableArePriced,
                      pc[c] # "idle", result'[c] = "quotaExceeded"
               PROVE  \E scope \in {"global", System(c)} :
                        /\ Budget[scope] # NoBudget
                        /\ Billed(scope) + Estimate[Model(c)] * req[c].attempts > Budget[scope]
    BY DEF RefusalStep
  <2>1. result \in [Clients -> Results] /\ result[c] = "none"
    BY DEF TypeOK, LocalsOK, RefusalInv, ResultOK
  <2>2. BudgetExceeded(c)
    <3>1. PICK d \in Clients : Submit(d) \/ Step(d) \/ Crash(d)
      BY <2>1 DEF Next, Quiescent, vars
    <3>2. CASE Submit(d) \/ Crash(d)
      BY <2>1, <3>2 DEF Submit, Crash, Return
    <3>3. CASE \/ Prepare(d) \/ GuardCallsPass(d) \/ ReadGlobalBudget(d)
               \/ ReadSystemBudget(d) \/ BudgetsPass(d) \/ NextAttempt(d) \/ ReadSeq(d)
               \/ InsertSpan(d) \/ InvokeOk(d) \/ InvokeFails(d) \/ CloseSpan(d)
               \/ CloseFailed(d) \/ Fallback(d)
      <4>1. result' = result
        BY <3>3 DEF Prepare, GuardCallsPass, ReadGlobalBudget, ReadSystemBudget, ReadBudget,
           BudgetsPass, NextAttempt, ReadSeq, InsertSpan, InvokeOk, InvokeFails, CloseSpan,
           CloseFailed, Fallback
      <4>2. QED
        BY <2>1, <4>1
    <3>4. CASE \/ PrepareRejected(d) \/ GuardCallsExceeded(d) \/ GuardReadFails(d)
               \/ Accrue(d) \/ GiveUp(d)
      <4>1. \/ result' = result
            \/ \E r \in Results \ {"quotaExceeded"} : result' = [result EXCEPT ![d] = r]
        BY <3>4 DEF PrepareRejected, GuardCallsExceeded, GuardReadFails, Accrue, GiveUp,
           Return, Results
      <4>2. QED
        BY <2>1, <4>1
    <3>5. CASE BudgetExceeded(d)
      <4>1. result' = result \/ result' = [result EXCEPT ![d] = "quotaExceeded"]
        BY <3>5 DEF BudgetExceeded, Return
      <4>2. d = c
        BY <2>1, <4>1
      <4>3. QED
        BY <3>5, <4>2
    <3>6. QED
      BY <3>1, <3>2, <3>3, <3>4, <3>5 DEF Step
  <2>3. FirstOver(c) \in over[c] /\ FirstOver(c) \in {"global", System(c)}
    BY <2>2 DEF BudgetExceeded, FirstOver, RefusalInv, OverOK
  <2>4. QED
    BY <2>3 DEF RefusalInv, OverTrue
<1>2. QED
  BY <1>1, GatewayRefusalInv, GatewayTypeOK, PTL DEF Spec, RefusalJustified

-----------------------------------------------------------------------------
(* How far a hard budget can be exceeded *)

LEMMA Monotone ==
  ASSUME NEW a \in Nat, NEW b \in Nat, a <= b, NEW M \in Nat
  PROVE  a * M \in Nat /\ b * M \in Nat /\ a * M <= b * M
<1>1. PICK d \in Nat : b = a + d
  <2>1. b - a \in Nat /\ b = a + (b - a)
    OBVIOUS
  <2>2. QED
    BY <2>1
<1>2. b * M = a * M + d * M /\ a * M \in Nat /\ d * M \in Nat
  BY <1>1
<1>3. QED
  BY <1>2

\* What the attempt loop and the answers carry, step by step.
LEMMA NextAnswers ==
  ASSUME TypeOK, AnswersOK, [Next]_vars
  PROVE  AnswersOK'
<1>1. /\ pc \in [Clients -> PCs] /\ req \in [Clients -> Requests \cup {NoRequest}]
      /\ amount \in [Clients -> Nat] /\ attempt \in [Clients -> Nat]
  BY DEF TypeOK, LocalsOK
<1>2. ASSUME NEW c \in Clients, Submit(c) \/ Step(c) \/ Crash(c)
      PROVE  /\ pc'[c] \in {"close", "accrue"} => amount'[c] \in Charges
             /\ pc'[c] \in InCall \cup {"seq", "insert", "accrue"} => req'[c].attempts # 0
  <2>1. CASE QuietStep(c) /\ ~NextAttempt(c) /\ ~ReadSeq(c)
    <3>1. pc'[c] \notin InCall \cup {"seq", "insert", "accrue"}
      BY <1>1, <2>1 DEF QuietStep, Submit, Crash, Step, Prepare, PrepareRejected,
         GuardCallsPass, GuardCallsExceeded, ReadGlobalBudget, ReadSystemBudget, ReadBudget,
         GuardReadFails, BudgetsPass, BudgetExceeded, Fallback, GiveUp, Return, Goto,
         AfterCalls, InCall
    <3>2. QED
      BY <3>1 DEF InCall
  <2>2. CASE NextAttempt(c)
    <3>1. /\ req' = req /\ attempt[c] < req[c].attempts /\ pc'[c] = "seq" /\ pc[c] # "idle"
      BY <1>1, <2>2 DEF NextAttempt, Goto
    <3>2. req[c].attempts \in Nat
      BY <3>1, Inside, GatewayAssumption DEF TypeOK, Requests
    <3>3. QED
      BY <1>1, <3>1, <3>2
  <2>3. CASE ReadSeq(c) \/ InsertSpan(c) \/ InvokeFails(c)
    BY <1>1, <2>3 DEF AnswersOK, ReadSeq, InsertSpan, InvokeFails, Goto, AttemptFailed, InCall
  <2>4. CASE InvokeOk(c)
    <3>1. \E a \in Charges : amount' = [amount EXCEPT ![c] = a]
      BY <2>4 DEF InvokeOk
    <3>2. req' = req /\ pc[c] = "invoke"
      BY <2>4 DEF InvokeOk
    <3>3. QED
      BY <1>1, <3>1, <3>2 DEF AnswersOK, InCall
  <2>5. CASE CloseSpan(c) \/ CloseFailed(c)
    BY <1>1, <2>5 DEF AnswersOK, CloseSpan, CloseFailed, Goto, AttemptFailed, InCall, local
  <2>6. CASE Accrue(c)
    BY <1>1, <2>6 DEF Accrue, Return, Goto, InCall
  <2>7. QED
    BY <1>2, <2>1, <2>2, <2>3, <2>4, <2>5, <2>6 DEF QuietStep
<1>3. CASE UNCHANGED vars
  BY <1>3 DEF vars, local, AnswersOK
<1>4. ASSUME NEW c \in Clients, Submit(c) \/ Step(c) \/ Crash(c) PROVE AnswersOK'
  BY <1>2, <1>4, OtherClients DEF AnswersOK
<1>5. QED
  BY <1>3, <1>4 DEF Next, Quiescent

\* A client begins to spend on a hard budget only when it read room for itself.
LEMMA SpendsStep ==
  ASSUME TypeOK, OverOK, NEW c \in Clients, Submit(c) \/ Step(c) \/ Crash(c),
         NEW scope, HardQuota, HardLimit[scope], Spends(c, scope)', ~Spends(c, scope)
  PROVE  /\ scope \in {"global", System(c)} /\ BudgetFits(c, scope)
         /\ Billable[Model(c)] /\ req[c].attempts # 0
         /\ UNCHANGED cost /\ pc[c] # "idle"
<1>1. /\ pc \in [Clients -> PCs] /\ over \in [Clients -> SUBSET Scopes]
      /\ req \in [Clients -> Requests \cup {NoRequest}]
      /\ over[c] \subseteq {"global", System(c)}
      /\ over[c] # {} => pc[c] \in {"system", "budget"}
  BY DEF TypeOK, LocalsOK, OverOK
<1>2. /\ scope \in {"global", System(c)} /\ scope \notin over'[c]
      /\ pc'[c] \in InCall \cup {"budget", "loop", "seq", "insert", "accrue"}
           \/ (pc'[c] = "system" /\ scope = "global")
      /\ Billable[req'[c].model] /\ req'[c].attempts # 0
  BY DEF Spends, Model
<1>3. CASE \/ Submit(c) \/ Crash(c) \/ Prepare(c) \/ PrepareRejected(c) \/ GuardReadFails(c)
           \/ Accrue(c) \/ Fallback(c) \/ GiveUp(c)
  BY <1>1, <1>2, <1>3 DEF Submit, Crash, Prepare, PrepareRejected, GuardReadFails, Accrue,
     Fallback, GiveUp, Return, Goto, InCall
<1>4. CASE GuardCallsPass(c) \/ GuardCallsExceeded(c)
  BY <1>1, <1>2, <1>4 DEF GuardCallsPass, GuardCallsExceeded, Return, Goto, InCall,
     AfterCalls, Model, local
<1>5. CASE ReadGlobalBudget(c)
  <2>1. /\ over'[c] = IF BudgetFits(c, "global") THEN over[c] ELSE over[c] \cup {"global"}
        /\ pc'[c] = "system" /\ req' = req /\ cost' = cost /\ pc[c] = "global"
    BY <1>1, <1>5 DEF ReadGlobalBudget, ReadBudget, Goto, tables
  <2>2. QED
    BY <1>2, <2>1 DEF InCall, Model
<1>6. CASE ReadSystemBudget(c)
  <2>1. /\ over'[c] = IF BudgetFits(c, System(c)) THEN over[c] ELSE over[c] \cup {System(c)}
        /\ pc'[c] = "budget" /\ req' = req /\ cost' = cost /\ pc[c] = "system"
    BY <1>1, <1>6 DEF ReadSystemBudget, ReadBudget, Goto, tables
  <2>2. QED
    BY <1>2, <2>1 DEF Spends, InCall, Model
<1>7. CASE BudgetExceeded(c)
  <2>1. pc'[c] = "budget" /\ req' = req /\ pc[c] = "budget"
        /\ over'[c] = over[c] \ {FirstOver(c)} /\ ~HardLimit[FirstOver(c)]
    BY <1>1, <1>2, <1>7 DEF BudgetExceeded, Return, Goto, InCall
  <2>2. QED
    BY <1>2, <2>1 DEF Spends, InCall, Model
<1>8. CASE \/ BudgetsPass(c) \/ NextAttempt(c) \/ ReadSeq(c) \/ InsertSpan(c)
           \/ InvokeOk(c) \/ InvokeFails(c) \/ CloseSpan(c) \/ CloseFailed(c)
  <2>1. /\ req' = req /\ over' = over
        /\ pc[c] \in InCall \cup {"budget", "loop", "seq", "insert", "accrue"}
    BY <1>8 DEF BudgetsPass, NextAttempt, ReadSeq, InsertSpan, InvokeOk, InvokeFails,
       CloseSpan, CloseFailed, InCall, local
  <2>2. QED
    BY <1>2, <2>1 DEF Spends, Model
<1>9. QED
  BY <1>3, <1>4, <1>5, <1>6, <1>7, <1>8 DEF Step

\* What a budget adds up, of a table of natural numbers.
LEMMA BudgetSumType ==
  ASSUME NEW t, \A s \in Systems, m \in Models : t[s][m] \in Nat, NEW scope
  PROVE  SumFunctionOnSet(ByRow(t), BudgetRows(scope)) \in Nat
<1> DEFINE f == ByRow(t)
           R == BudgetRows(scope)
<1>1. IsFiniteSet(R) /\ \A sm \in R : f[sm] \in Nat
  BY RowsOfBudget
<1> HIDE DEF f, R
<1>2. SumFunctionOnSet(f, R) \in Nat
  BY <1>1, SumType
<1>3. QED
  BY <1>2 DEF f, R

\* The booked use of a scope.
LEMMA UsedType ==
  ASSUME TypeOK, NEW scope
  PROVE  Used(scope) \in Nat
<1>1. \A s \in Systems, m \in Models : cost[s][m] \in Nat
  BY DEF TypeOK, TablesOK
<1>2. QED
  BY <1>1, BudgetSumType DEF Used

\* Booking an answer moves the budgets of its system, if its model is billable.
LEMMA UsedChange ==
  ASSUME TypeOK, TypeOK', NEW c \in Clients, Accrue(c), NEW scope
  PROVE  /\ Used(scope) \in Nat /\ Used(scope)' \in Nat
         /\ Used(scope)' = Used(scope)
              \/ /\ Billable[Model(c)] /\ scope \in {"global", System(c)}
                 /\ Used(scope)' = Used(scope) + amount[c]
<1>1. Used(scope) \in Nat /\ Used(scope)' \in Nat
  <2>1. Used(scope) \in Nat
    BY UsedType
  <2>2. Used(scope)' \in Nat
    <3>1. \A s \in Systems, m \in Models : cost'[s][m] \in Nat
      BY DEF TypeOK, TablesOK
    <3>2. Used(scope)' = SumFunctionOnSet(ByRow(cost'), BudgetRows(scope))
      BY DEF Used, BudgetRows
    <3>3. QED
      BY <3>1, <3>2, BudgetSumType
  <2>3. QED
    BY <2>1, <2>2
<1>2. CASE UNCHANGED cost
  BY <1>1, <1>2 DEF Used
<1>3. CASE cost' = [cost EXCEPT ![System(c)][Model(c)] = @ + amount[c]]
  <2>1. /\ cost \in [Systems -> [Models -> Nat]] /\ cost' \in [Systems -> [Models -> Nat]]
        /\ System(c) \in Systems /\ Model(c) \in Models /\ amount[c] \in Nat
    BY Inside DEF TypeOK, TablesOK, LocalsOK, Accrue
  <2>2. /\ cost'[System(c)][Model(c)] = cost[System(c)][Model(c)] + amount[c]
        /\ \A x \in Systems, y \in Models : ~(x = System(c) /\ y = Model(c)) =>
             cost'[x][y] = cost[x][y]
    BY <1>3, <2>1
  <2> DEFINE a == <<System(c), Model(c)>>
             f == ByRow(cost)
             g == ByRow(cost')
             R == BudgetRows(scope)
  <2>3. R \subseteq Systems \X Models /\ a \in Systems \X Models
    BY <2>1 DEF BudgetRows
  <2>4. a \in R => Billable[Model(c)] /\ scope \in {"global", System(c)}
    BY DEF BudgetRows
  <2>5. /\ \A sm \in Systems \X Models : f[sm] \in Nat /\ g[sm] \in Nat
        /\ f[a] = cost[System(c)][Model(c)] /\ g[a] = cost'[System(c)][Model(c)]
    <3>1. \A s \in Systems, m \in Models : cost[s][m] \in Nat /\ cost'[s][m] \in Nat
      BY <2>1
    <3>2. QED
      BY <2>1, <3>1, ByRowType
  <2>6. \A sm \in Systems \X Models : sm # a => f[sm] = g[sm]
    BY <2>1, <2>2, ByRowOther
  <2>7. IsFiniteSet(R)
    BY RowsOfBudget
  <2>8. Used(scope) = SumFunctionOnSet(f, R) /\ Used(scope)' = SumFunctionOnSet(g, R)
    BY DEF Used, BudgetRows
  <2>9. f[a] \in Nat /\ g[a] = f[a] + amount[c]
    BY <2>2, <2>3, <2>5
  <2>10. \A sm \in R : f[sm] \in Nat /\ g[sm] \in Nat /\ (sm # a => f[sm] = g[sm])
    BY <2>3, <2>5, <2>6
  <2> HIDE DEF a, f, g, R
  <2>11. /\ SumFunctionOnSet(f, R) \in Nat /\ SumFunctionOnSet(g, R) \in Nat
         /\ a \notin R => SumFunctionOnSet(g, R) = SumFunctionOnSet(f, R)
         /\ a \in R => SumFunctionOnSet(g, R) + f[a] = SumFunctionOnSet(f, R) + g[a]
    BY <2>7, <2>10, SumUpdate
  <2>12. CASE a \notin R
    BY <1>1, <2>8, <2>11, <2>12
  <2>13. CASE a \in R
    <3>1. amount[c] \in Nat
      BY <2>1
    <3>2. SumFunctionOnSet(g, R) = SumFunctionOnSet(f, R) + amount[c]
      BY <2>9, <2>11, <2>13, <3>1
    <3>3. QED
      BY <1>1, <2>4, <2>8, <2>13, <3>2
  <2>14. QED
    BY <2>12, <2>13
<1>4. QED
  BY <1>2, <1>3 DEF Accrue

\* The invariant of one hard budget under a step of one client.
LEMMA NextRoomLeft ==
  ASSUME TypeOK, TypeOK', OverOK, OverOK', AnswersOK,
         NEW c \in Clients, Submit(c) \/ Step(c) \/ Crash(c),
         NEW scope \in Scopes, HardQuota, HardLimit[scope], Budget[scope] # NoBudget,
         RoomLeft(scope)
  PROVE  RoomLeft(scope)'
<1> DEFINE M == Max(Charges)
           S == Spending(scope)
           T == Spending(scope)'
           C == Spenders(scope)
<1>1. M \in Nat /\ (\A x \in Charges : x <= M) /\ Budget[scope] \in Nat
  <2>1. Charges \in SUBSET Nat /\ IsFiniteSet(Charges) /\ Charges # {}
    BY GatewayAssumption, TablesAssumption
  <2>2. Max(Charges) \in Charges /\ \A x \in Charges : Max(Charges) >= x
    BY <2>1, MaxOfNats
  <2>3. Max(Charges) \in Nat /\ \A x \in Charges : x <= Max(Charges)
    BY <2>1, <2>2
  <2>4. QED
    BY <2>3, GatewayAssumption
<1>2. \A d \in Clients \ {c} : d \in T <=> d \in S
  BY OtherClients DEF Spending, Spends, Model
<1>3. S \in SUBSET C /\ T \in SUBSET C /\ IsFiniteSet(C) /\ T \ {c} \in SUBSET S
  <2>1. IsFiniteSet(Clients) /\ C \in SUBSET Clients
    BY GatewayAssumption DEF Spenders
  <2>2. S \in SUBSET C /\ T \in SUBSET C
    BY DEF Spending, Spends, Spenders
  <2>3. QED
    BY <1>2, <2>1, <2>2, FS_Subset
<1>4. /\ IsFiniteSet(S) /\ IsFiniteSet(T)
      /\ Cardinality(S) \in Nat /\ Cardinality(T) \in Nat /\ Cardinality(C) \in Nat
      /\ Cardinality(T) <= Cardinality(C)
  <2> HIDE DEF S, T, C
  <2>1. QED
    BY <1>3, FS_Subset, FS_CardinalityType
<1>5. Used(scope) \in Nat
  BY UsedType
<1>6. /\ S = {} /\ Used(scope) = 0
      \/ \E m \in Models :
           /\ Billable[m]
           /\ Used(scope) + Estimate[m] + Cardinality(S) * M <= Budget[scope] + Cardinality(C) * M
  BY DEF RoomLeft
<1>7. SUFFICES \/ T = {} /\ Used(scope)' = 0
               \/ \E m \in Models :
                    /\ Billable[m]
                    /\ Used(scope)' + Estimate[m] + Cardinality(T) * M
                         <= Budget[scope] + Cardinality(C) * M
  BY DEF RoomLeft, Spenders
<1>8. Estimate \in [Models -> Nat]
  BY GatewayAssumption
<1>9. CASE T \subseteq S /\ Used(scope)' = Used(scope)
  <2> HIDE DEF S, T, C, M
  <2>1. Cardinality(T) <= Cardinality(S)
    BY <1>4, <1>9, FS_Subset
  <2>2. /\ Cardinality(T) * M \in Nat /\ Cardinality(S) * M \in Nat
        /\ Cardinality(T) * M <= Cardinality(S) * M
    BY <1>1, <1>4, <2>1, Monotone
  <2>3. Cardinality(C) * M \in Nat
    BY <1>1, <1>4
  <2>4. CASE S = {} /\ Used(scope) = 0
    BY <1>9, <2>4
  <2>5. ASSUME NEW m \in Models, Billable[m],
               Used(scope) + Estimate[m] + Cardinality(S) * M <= Budget[scope] + Cardinality(C) * M
        PROVE  Used(scope)' + Estimate[m] + Cardinality(T) * M <= Budget[scope] + Cardinality(C) * M
    BY <1>1, <1>5, <1>8, <1>9, <2>2, <2>3, <2>5
  <2>6. QED
    BY <1>6, <2>4, <2>5
<1>10. CASE c \in T \ S
  <2>1. /\ BudgetFits(c, scope) /\ Billable[Model(c)] /\ req[c].attempts # 0
        /\ UNCHANGED cost /\ pc[c] # "idle"
    BY <1>10, SpendsStep DEF Spending
  <2>2. Model(c) \in Models /\ req[c].attempts \in Nat
    BY <2>1, Inside, GatewayAssumption DEF TypeOK, Requests
  <2>3. Used(scope) + Estimate[Model(c)] * req[c].attempts <= Budget[scope]
    BY <2>1 DEF BudgetFits
  <2>4. Used(scope)' = Used(scope)
    BY <2>1 DEF Used
  <2> DEFINE e == Estimate[Model(c)]
             n == req[c].attempts
  <2>5. e \in Nat /\ n \in Nat /\ 1 <= n
    BY <1>8, <2>1, <2>2
  <2> HIDE DEF S, T, C, M, e, n
  <2>6. 1 * e <= n * e /\ n * e \in Nat
    BY <2>5, Monotone
  <2>7. e * n = n * e /\ 1 * e = e
    BY <2>5
  <2>8. Used(scope) + e * n <= Budget[scope]
    BY <2>3 DEF e, n
  <2>9. Used(scope) + e <= Budget[scope]
    BY <1>1, <1>5, <2>5, <2>6, <2>7, <2>8
  <2>10. /\ Cardinality(T) * M \in Nat /\ Cardinality(C) * M \in Nat
         /\ Cardinality(T) * M <= Cardinality(C) * M
    BY <1>1, <1>4, Monotone
  <2>11. Used(scope)' + e + Cardinality(T) * M <= Budget[scope] + Cardinality(C) * M
    BY <1>1, <1>5, <2>4, <2>5, <2>9, <2>10
  <2>12. QED
    BY <2>1, <2>2, <2>11 DEF e
<1>11. CASE Accrue(c) /\ Used(scope)' # Used(scope)
  <2>1. /\ Used(scope)' = Used(scope) + amount[c] /\ Used(scope)' \in Nat
        /\ Billable[Model(c)] /\ scope \in {"global", System(c)}
    BY <1>11, UsedChange
  <2>2. pc[c] = "accrue" /\ amount[c] \in Charges /\ req[c].attempts # 0 /\ over[c] = {}
    BY <1>11 DEF Accrue, AnswersOK, OverOK
  <2>3. c \in S
    BY <2>1, <2>2 DEF Spending, Spends
  <2>4. c \notin T
    <3>1. pc \in [Clients -> PCs]
      BY DEF TypeOK, LocalsOK
    <3>2. pc'[c] = "idle"
      BY <1>11, <3>1 DEF Accrue, Return, Goto
    <3>3. QED
      BY <3>2 DEF Spending, Spends, InCall
  <2> HIDE DEF S, T, C, M
  <2>5. Cardinality(T) <= Cardinality(S) - 1
    <3>1. IsFiniteSet(S \ {c}) /\ Cardinality(S \ {c}) = Cardinality(S) - 1
      BY <1>4, <2>3, FS_RemoveElement
    <3>2. T \in SUBSET (S \ {c})
      BY <1>3, <2>4
    <3>3. QED
      BY <3>1, <3>2, FS_Subset
  <2> DEFINE k == Cardinality(S) - 1
  <2>6. k \in Nat /\ Cardinality(S) * M = k * M + M
    <3>1. k \in Nat /\ Cardinality(S) = k + 1
      BY <1>4, <2>5
    <3> HIDE DEF k
    <3>2. QED
      BY <1>1, <3>1
  <2>7. /\ Cardinality(T) * M \in Nat /\ k * M \in Nat
        /\ Cardinality(T) * M <= k * M
    <3>1. Cardinality(T) <= k
      BY <2>5
    <3> HIDE DEF k
    <3>2. QED
      BY <1>1, <1>4, <2>6, <3>1, Monotone
  <2>8. amount[c] \in Nat /\ amount[c] <= M
    BY <1>1, <2>2, GatewayAssumption
  <2>9. Cardinality(C) * M \in Nat
    BY <1>1, <1>4
  <2>10. PICK m \in Models :
           /\ Billable[m]
           /\ Used(scope) + Estimate[m] + Cardinality(S) * M <= Budget[scope] + Cardinality(C) * M
    BY <1>6, <2>3
  <2>11. Estimate[m] \in Nat
    BY <1>8
  <2> HIDE DEF k
  <2>12. Used(scope)' + Estimate[m] + Cardinality(T) * M <= Budget[scope] + Cardinality(C) * M
    BY <1>1, <1>5, <2>1, <2>6, <2>7, <2>8, <2>9, <2>10, <2>11
  <2>13. QED
    BY <2>10, <2>12
<1>12. Accrue(c) \/ Used(scope)' = Used(scope)
  <2>1. Accrue(c) \/ UNCHANGED cost
    BY QuietSteps DEF QuietStep, InsertSpan, InvokeOk, InvokeFails, CloseSpan, CloseFailed, tables
  <2>2. QED
    BY <2>1 DEF Used
<1>13. T \subseteq S \/ c \in T \ S
  BY <1>2, <1>3
<1>14. QED
  BY <1>9, <1>10, <1>11, <1>12, <1>13

\* Each hard budget keeps its room.
LEMMA NextOvershoot ==
  ASSUME TypeOK, TypeOK', OverOK', OvershootInv, [Next]_vars
  PROVE  OvershootInv'
<1>1. CASE UNCHANGED vars
  BY <1>1 DEF vars, local, tables, OvershootInv, OverOK, AnswersOK, RoomLeft, Used, Spending,
     Spends, Model
<1>2. ASSUME NEW c \in Clients, Submit(c) \/ Step(c) \/ Crash(c) PROVE OvershootInv'
  <2>1. AnswersOK'
    BY NextAnswers DEF OvershootInv
  <2>2. ASSUME HardQuota, NEW scope \in Scopes, Budget[scope] # NoBudget, HardLimit[scope]
        PROVE  RoomLeft(scope)'
    BY <1>2, <2>2, NextRoomLeft DEF OvershootInv
  <2>3. QED
    BY <2>1, <2>2 DEF OvershootInv
<1>3. QED
  BY <1>1, <1>2 DEF Next, Quiescent

\* At the start nothing is used and nobody spends.
LEMMA InitOvershoot == Init => OvershootInv
<1> SUFFICES ASSUME Init PROVE OvershootInv
  OBVIOUS
<1>1. OverOK /\ AnswersOK
  BY DEF Init, OverOK, AnswersOK, InCall
<1>2. ASSUME NEW scope PROVE RoomLeft(scope)
  <2> DEFINE f == ByRow(cost)
             R == BudgetRows(scope)
  <2>1. IsFiniteSet(R) /\ \A sm \in R : f[sm] = 0
    BY RowsOfBudget DEF Init
  <2>2. Used(scope) = SumFunctionOnSet(f, R)
    BY DEF Used
  <2> HIDE DEF f, R
  <2>3. Used(scope) = 0
    BY <2>1, <2>2, SumZero
  <2>4. Spending(scope) = {}
    BY DEF Init, Spending, Spends, InCall
  <2>5. QED
    BY <2>3, <2>4 DEF RoomLeft
<1>3. QED
  BY <1>1, <1>2 DEF OvershootInv

\* The room that is left bounds the booked use.
LEMMA RoomBoundsUse ==
  ASSUME TypeOK, OvershootInv
  PROVE  BudgetOvershootBounded
<1> SUFFICES ASSUME HardQuota, NEW scope \in Scopes, Budget[scope] # NoBudget,
                    HardLimit[scope]
             PROVE  \/ Used(scope) = 0
                    \/ \E m \in Models :
                         /\ Billable[m]
                         /\ Used(scope) + Estimate[m]
                              <= Budget[scope] + Cardinality(Spenders(scope)) * Max(Charges)
  BY DEF BudgetOvershootBounded, Spenders
<1>1. CASE Used(scope) = 0
  BY <1>1
<1>2. CASE Used(scope) # 0
  <2> DEFINE k == Cardinality(Spending(scope)) * Max(Charges)
             r == Budget[scope] + Cardinality(Spenders(scope)) * Max(Charges)
  <2>1. PICK m \in Models : Billable[m] /\ Used(scope) + Estimate[m] + k <= r
    BY <1>2 DEF OvershootInv, RoomLeft
  <2>2. Max(Charges) \in Nat /\ Estimate[m] \in Nat /\ Budget[scope] \in Nat
    BY MaxOfNats, GatewayAssumption, TablesAssumption
  <2>3. IsFiniteSet(Clients) /\ Spending(scope) \in SUBSET Clients
        /\ Spenders(scope) \in SUBSET Clients
    BY GatewayAssumption DEF Spending, Spenders
  <2>4. Cardinality(Spending(scope)) \in Nat /\ Cardinality(Spenders(scope)) \in Nat
    BY <2>3, FS_Subset, FS_CardinalityType
  <2>5. k \in Nat /\ r \in Nat /\ Used(scope) \in Nat
    BY <2>2, <2>4, UsedType
  <2> HIDE DEF k, r
  <2>6. Used(scope) + Estimate[m] <= r
    BY <2>1, <2>2, <2>5
  <2>7. QED
    BY <2>1, <2>6 DEF r
<1>3. QED
  BY <1>1, <1>2

\* However many clients read a hard budget before any of them books, the use
\* exceeds it by at most one answer of each, less the estimate of one call.
THEOREM GatewayBudgetOvershootBounded == Spec => []BudgetOvershootBounded
<1>1. TypeOK /\ TypeOK' /\ RefusalInv' /\ OvershootInv /\ [Next]_vars => OvershootInv'
  BY NextOvershoot DEF RefusalInv
<1>2. TypeOK /\ OvershootInv => BudgetOvershootBounded
  BY RoomBoundsUse
<1>3. QED
  BY <1>1, <1>2, InitOvershoot, GatewayTypeOK, GatewayRefusalInv, PTL DEF Spec
=============================================================================
