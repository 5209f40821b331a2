------------------------- MODULE GatewayRefinement -------------------------
(***************************************************************************)
(* Gateway implements AdmittedCalls, for any number of clients, traces and *)
(* retries, and so inherits its limits on provider calls; where they only  *)
(* warn, what went beyond them is in the audit log.                        *)
(***************************************************************************)
EXTENDS GatewayProofs

-----------------------------------------------------------------------------
(* Attempts are counted from the guard on, and never beyond the request's. *)

BeforeLoop == {"idle", "prepare", "guard", "global", "system", "budget"}

CountInv ==
  /\ \A c \in Clients :
       /\ pc[c] \in BeforeLoop => attempt[c] = 0
       /\ pc[c] # "idle" => attempt[c] <= req[c].attempts
  /\ \A t \in Traces : lost[t] <= faults

\* What a step of one client leaves alone of the others.
Frame(c) == \A d \in Clients \ {c} : /\ pc'[d] = pc[d]
                                     /\ req'[d] = req[d]
                                     /\ attempt'[d] = attempt[d]

\* A client changes only its own frames.
LEMMA StepFrame ==
  ASSUME LocalsOK, NEW c \in Clients, Submit(c) \/ Step(c) \/ Crash(c)
  PROVE  Frame(c)
<1> USE DEF LocalsOK, Frame, Goto
<1>1. CASE Submit(c)
  BY <1>1 DEF Submit
<1>2. ASSUME NEW r, Return(c, r) PROVE Frame(c)
  BY <1>2 DEF Return
<1>3. CASE Prepare(c) \/ GuardCallsPass(c) \/ BudgetsPass(c) \/ NextAttempt(c)
  BY <1>3 DEF Prepare, GuardCallsPass, BudgetsPass, NextAttempt, local
<1>4. CASE PrepareRejected(c) \/ GuardReadFails(c) \/ Accrue(c) \/ GiveUp(c) \/ Crash(c)
  BY <1>2, <1>4 DEF PrepareRejected, GuardReadFails, Accrue, GiveUp, Crash
<1>5. CASE GuardCallsExceeded(c)
  BY <1>2, <1>5 DEF GuardCallsExceeded, local
<1>6. CASE ReadGlobalBudget(c) \/ ReadSystemBudget(c)
  BY <1>6 DEF ReadGlobalBudget, ReadSystemBudget, ReadBudget
<1>7. CASE BudgetExceeded(c)
  BY <1>2, <1>7 DEF BudgetExceeded
<1>8. CASE ReadSeq(c) \/ InsertSpan(c)
  BY <1>8 DEF ReadSeq, InsertSpan, AttemptFailed
<1>9. CASE InvokeOk(c) \/ InvokeFails(c)
  BY <1>9 DEF InvokeOk, InvokeFails
<1>10. CASE CloseSpan(c) \/ CloseFailed(c)
  BY <1>10 DEF CloseSpan, CloseFailed, AttemptFailed, local
<1>11. CASE Fallback(c)
  BY <1>11 DEF Fallback
<1>12. QED
  BY <1>1, <1>3, <1>4, <1>5, <1>6, <1>7, <1>8, <1>9, <1>10, <1>11 DEF Step

-----------------------------------------------------------------------------
(* The effect of a step on what AdmittedCalls sees: the client's label,    *)
(* request and attempt, and the number of rows, calls and lost records.    *)

NoRecord == \A t \in Traces : Len(spans'[t]) = Len(spans[t])

Quiet == NoRecord /\ made' = made /\ lost' = lost /\ faults' \in {faults, faults + 1}

KeepsRequest(c) == req'[c] = req[c] /\ attempt'[c] = attempt[c]

Enters(c) ==
  /\ pc[c] = "idle" /\ pc'[c] = "prepare"
  /\ req'[c] \in Requests /\ attempt'[c] = attempt[c] /\ Quiet

Prepared(c) ==
  pc[c] = "prepare" /\ pc'[c] = "guard" /\ KeepsRequest(c) /\ Quiet

Leaves(c) == pc[c] # "idle" /\ pc'[c] = "idle" /\ attempt'[c] = 0 /\ Quiet

IsAdmitted(c) ==
  /\ pc[c] = "guard" /\ pc'[c] \in {"global", "loop"}
  /\ HardQuota => CallsFit(c)
  /\ KeepsRequest(c) /\ Quiet

GoesOn(c) ==
  /\ \/ pc[c] \in {"global", "system", "budget"} /\ pc'[c] \in {"system", "budget", "loop"}
     \/ pc[c] = "seq" /\ pc'[c] = "insert"
     \/ pc[c] \in {"close", "closeFailed"} /\ pc'[c] \in {"accrue", "loop"}
  /\ KeepsRequest(c) /\ Quiet

Counts(c) ==
  /\ pc[c] = "loop" /\ pc'[c] = "seq" /\ req'[c] = req[c]
  /\ attempt[c] < req[c].attempts /\ attempt'[c] = attempt[c] + 1 /\ Quiet

Records(c) ==
  /\ pc[c] = "insert" /\ pc'[c] = "invoke" /\ KeepsRequest(c) /\ made' = made
  /\ \/ /\ spans' = [spans EXCEPT ![Trace(c)] = Append(@, OpenSpan(c))]
        /\ lost' = lost /\ faults' = faults
     \/ /\ spans' = spans /\ lost' = [lost EXCEPT ![Trace(c)] = @ + 1]
        /\ faults' = faults + 1

Forgoes(c) ==
  pc[c] \in {"seq", "insert"} /\ pc'[c] = "loop" /\ KeepsRequest(c) /\ Quiet

Calls(c) ==
  /\ pc[c] = "invoke" /\ pc'[c] \in {"close", "closeFailed"} /\ KeepsRequest(c)
  /\ spans' = spans /\ lost' = lost /\ faults' = faults
  /\ made' = [made EXCEPT ![Trace(c)] = @ + 1]

FallsBack(c) ==
  /\ pc[c] = "loop" /\ pc'[c] = "prepare"
  /\ req'[c] \in Requests /\ attempt'[c] = 0 /\ Quiet

Effect(c) ==
  \/ Enters(c) \/ Prepared(c) \/ Leaves(c) \/ IsAdmitted(c) \/ GoesOn(c)
  \/ Counts(c) \/ Records(c) \/ Forgoes(c) \/ Calls(c) \/ FallsBack(c)

\* Every step of a client has one of these effects.
LEMMA StepEffect ==
  ASSUME TypeOK, TypeOK', NEW c \in Clients, Submit(c) \/ Step(c) \/ Crash(c)
  PROVE  Effect(c)
<1>0. LocalsOK /\ TablesOK /\ HistoryOK /\ BoundsOK /\ LocalsOK'
  BY DEF TypeOK
<1>1. spans' = spans => NoRecord
  BY DEF NoRecord
<1>2. ASSUME NEW r, Return(c, r) PROVE pc'[c] = "idle" /\ attempt'[c] = 0
  BY <1>0, <1>2 DEF Return, Goto, LocalsOK
<1>3. ASSUME Fault PROVE faults' = faults + 1
  BY <1>3 DEF Fault
<1>4. ASSUME NEW what, Audit(what) PROVE faults' \in {faults, faults + 1}
  BY <1>3, <1>4 DEF Audit, bounds
<1>5. ASSUME NEW l, Goto(c, l) PROVE pc'[c] = l
  BY <1>0, <1>5 DEF Goto, LocalsOK
<1>6. CASE Submit(c)
  <2>1. pc'[c] = "prepare" /\ req'[c] \in Requests
    BY <1>0, <1>5, <1>6 DEF Submit, LocalsOK
  <2>2. Enters(c)
    BY <1>1, <1>6, <2>1 DEF Submit, Enters, Quiet, tables, history
  <2>3. QED
    BY <2>2 DEF Effect
<1>7. CASE Prepare(c)
  <2>1. Prepared(c)
    BY <1>1, <1>5, <1>7 DEF Prepare, Prepared, KeepsRequest, Quiet,
       local, tables, history, bounds
  <2>2. QED
    BY <2>1 DEF Effect
<1>8. CASE PrepareRejected(c) \/ GiveUp(c) \/ Crash(c)
  <2>1. Leaves(c)
    BY <1>1, <1>2, <1>8 DEF PrepareRejected, GiveUp, Exhausted, Crash, Leaves, Quiet,
       tables, history, bounds
  <2>2. QED
    BY <2>1 DEF Effect
<1>9. CASE GuardCallsPass(c)
  <2>1. IsAdmitted(c)
    BY <1>1, <1>5, <1>9 DEF GuardCallsPass, AfterCalls, IsAdmitted, KeepsRequest, Quiet,
       local, tables, history, bounds
  <2>2. QED
    BY <2>1 DEF Effect
<1>10. CASE GuardCallsExceeded(c)
  <2>1. Quiet
    BY <1>1, <1>4, <1>10 DEF GuardCallsExceeded, Quiet, history
  <2>2. CASE HardQuota
    BY <1>2, <1>10, <2>1, <2>2 DEF GuardCallsExceeded, Leaves, Effect
  <2>3. CASE ~HardQuota
    BY <1>5, <1>10, <2>1, <2>3 DEF GuardCallsExceeded, AfterCalls, IsAdmitted,
       KeepsRequest, local, Effect
  <2>4. QED
    BY <2>2, <2>3
<1>11. CASE ReadGlobalBudget(c)
  <2>1. GoesOn(c)
    BY <1>1, <1>5, <1>11 DEF ReadGlobalBudget, ReadBudget, GoesOn, KeepsRequest, Quiet,
       tables, history, bounds
  <2>2. QED
    BY <2>1 DEF Effect
<1>12. CASE ReadSystemBudget(c)
  <2>1. GoesOn(c)
    BY <1>1, <1>5, <1>12 DEF ReadSystemBudget, ReadBudget, GoesOn, KeepsRequest, Quiet,
       tables, history, bounds
  <2>2. QED
    BY <2>1 DEF Effect
<1>13. CASE GuardReadFails(c)
  <2>1. Leaves(c)
    BY <1>1, <1>2, <1>3, <1>13 DEF GuardReadFails, Leaves, Quiet, tables, history
  <2>2. QED
    BY <2>1 DEF Effect
<1>14. CASE BudgetsPass(c)
  <2>1. GoesOn(c)
    BY <1>1, <1>5, <1>14 DEF BudgetsPass, GoesOn, KeepsRequest, Quiet,
       local, tables, history, bounds
  <2>2. QED
    BY <2>1 DEF Effect
<1>15. CASE BudgetExceeded(c)
  <2>1. Quiet /\ pc[c] = "budget"
    BY <1>1, <1>4, <1>15 DEF BudgetExceeded, Quiet, history
  <2>2. \/ pc'[c] = "idle" /\ attempt'[c] = 0
        \/ pc'[c] = "budget" /\ KeepsRequest(c)
    BY <1>2, <1>15 DEF BudgetExceeded, KeepsRequest
  <2>3. QED
    BY <2>1, <2>2 DEF Leaves, GoesOn, Effect
<1>16. CASE NextAttempt(c)
  <2>1. Counts(c)
    BY <1>0, <1>1, <1>5, <1>16 DEF NextAttempt, Counts, Quiet, LocalsOK,
       tables, history, bounds
  <2>2. QED
    BY <2>1 DEF Effect
<1>17. CASE ReadSeq(c)
  <2>1. Quiet /\ KeepsRequest(c) /\ pc[c] = "seq"
    BY <1>1, <1>3, <1>17 DEF ReadSeq, Quiet, KeepsRequest, tables, history, bounds
  <2>2. pc'[c] \in {"insert", "loop"}
    BY <1>5, <1>17 DEF ReadSeq, AttemptFailed
  <2>3. QED
    BY <2>1, <2>2 DEF GoesOn, Forgoes, Effect
<1>18. CASE InsertSpan(c)
  <2>1. KeepsRequest(c) /\ pc[c] = "insert" /\ made' = made
    BY <1>18 DEF InsertSpan, KeepsRequest
  <2>2. \/ /\ pc'[c] = "invoke" /\ lost' = lost /\ faults' = faults
           /\ spans' = [spans EXCEPT ![Trace(c)] = Append(@, OpenSpan(c))]
        \/ /\ pc'[c] = "invoke" /\ lost' = [lost EXCEPT ![Trace(c)] = @ + 1]
           /\ spans' = spans /\ faults' = faults + 1
        \/ /\ pc'[c] = "loop" /\ lost' = lost
           /\ spans' = spans /\ faults' = faults + 1
    BY <1>3, <1>5, <1>18 DEF InsertSpan, AttemptFailed, bounds
  <2>3. QED
    BY <1>1, <2>1, <2>2 DEF Records, Forgoes, Quiet, Effect
<1>19. CASE InvokeOk(c) \/ InvokeFails(c)
  <2>1. Calls(c)
    BY <1>5, <1>19 DEF InvokeOk, InvokeFails, Called, Calls, KeepsRequest, tables, bounds
  <2>2. QED
    BY <2>1 DEF Effect
<1>20. CASE CloseSpan(c) \/ CloseFailed(c)
  <2>1. /\ pc[c] \in {"close", "closeFailed"} /\ pc'[c] \in {"accrue", "loop"}
        /\ KeepsRequest(c)
    BY <1>5, <1>20 DEF CloseSpan, CloseFailed, AttemptFailed, KeepsRequest, local
  <2>2. made' = made /\ lost' = lost /\ faults' \in {faults, faults + 1}
    BY <1>3, <1>20 DEF CloseSpan, CloseFailed, history, bounds
  <2>3. NoRecord
    <3>1. /\ req[c] \in Requests /\ Trace(c) \in Traces /\ amount[c] \in Nat
          /\ req[c].degraded \in BOOLEAN
      BY <1>0, <2>1, Inside DEF Requests, LocalsOK
    <3>2. \/ spans' = spans
          \/ UpdateSpan(c, "ok", req[c].degraded, amount[c])
          \/ UpdateSpan(c, "failed", FALSE, 0)
      BY <1>20 DEF CloseSpan, CloseFailed
    <3>3. QED
      BY <1>1, <3>1, <3>2, UpdateSpanType DEF NoRecord, SpanStates
  <2>4. QED
    BY <2>1, <2>2, <2>3 DEF GoesOn, Quiet, Effect
<1>21. CASE Accrue(c)
  <2>1. Leaves(c)
    BY <1>1, <1>2, <1>3, <1>21 DEF Accrue, Leaves, Quiet, history, bounds
  <2>2. QED
    BY <2>1 DEF Effect
<1>22. CASE Fallback(c)
  <2>1. pc[c] = "loop" /\ pc'[c] = "prepare" /\ attempt'[c] = 0
    BY <1>0, <1>5, <1>22 DEF Fallback, Exhausted, LocalsOK
  <2>2. req'[c] \in Requests
    BY <1>0, <2>1 DEF LocalsOK
  <2>3. Quiet
    BY <1>1, <1>22 DEF Fallback, Quiet, tables, history, bounds
  <2>4. QED
    BY <2>1, <2>2, <2>3 DEF FallsBack, Effect
<1>23. QED
  BY <1>6, <1>7, <1>8, <1>9, <1>10, <1>11, <1>12, <1>13, <1>14, <1>15, <1>16, <1>17,
     <1>18, <1>19, <1>20, <1>21, <1>22 DEF Step

-----------------------------------------------------------------------------
(* The counts stay within the request's. *)

\* One step of one client keeps the counts.
LEMMA CountStep ==
  ASSUME TypeOK, TypeOK', CountInv,
         NEW c \in Clients, Submit(c) \/ Step(c) \/ Crash(c)
  PROVE  CountInv'
<1>1. Frame(c) /\ Effect(c)
  BY StepFrame, StepEffect DEF TypeOK
<1>2. /\ \A d \in Clients : attempt[d] \in Nat /\ attempt'[d] \in Nat
      /\ \A d \in Clients : pc[d] # "idle" => req[d] \in Requests
      /\ lost \in [Traces -> Nat] /\ lost' \in [Traces -> Nat]
      /\ faults \in Nat /\ faults' \in Nat
  BY GatewayAssumption DEF TypeOK, LocalsOK, HistoryOK, BoundsOK
<1>3. \A r \in Requests : r.attempts \in Nat
  BY GatewayAssumption DEF Requests
<1>4. /\ pc'[c] \in BeforeLoop => attempt'[c] = 0
      /\ pc'[c] # "idle" => attempt'[c] <= req'[c].attempts
  <2>1. CASE Enters(c) \/ Leaves(c) \/ FallsBack(c)
    BY <1>2, <1>3, <2>1 DEF CountInv, BeforeLoop, Enters, Leaves, FallsBack
  <2>2. CASE Prepared(c) \/ IsAdmitted(c)
    BY <1>2, <2>2 DEF CountInv, BeforeLoop, Prepared, IsAdmitted, KeepsRequest
  <2>3. CASE GoesOn(c)
    BY <1>2, <2>3 DEF CountInv, BeforeLoop, GoesOn, KeepsRequest
  <2>4. CASE Counts(c)
    BY <1>2, <1>3, <2>4 DEF CountInv, BeforeLoop, Counts
  <2>5. CASE Records(c) \/ Forgoes(c) \/ Calls(c)
    BY <1>2, <2>5 DEF CountInv, BeforeLoop, Records, Forgoes, Calls, KeepsRequest
  <2>6. QED
    BY <1>1, <2>1, <2>2, <2>3, <2>4, <2>5 DEF Effect
<1>5. \A d \in Clients : /\ pc'[d] \in BeforeLoop => attempt'[d] = 0
                         /\ pc'[d] # "idle" => attempt'[d] <= req'[d].attempts
  BY <1>1, <1>4 DEF Frame, CountInv
<1>6. \A t \in Traces : lost'[t] <= faults'
  <2>1. CASE Quiet \/ Calls(c)
    BY <1>2, <2>1 DEF CountInv, Quiet, Calls
  <2>2. CASE Records(c)
    BY <1>2, <2>2 DEF CountInv, Records
  <2>3. QED
    BY <1>1, <2>1, <2>2 DEF Effect, Enters, Prepared, Leaves, IsAdmitted, GoesOn,
       Counts, Forgoes, FallsBack
<1>7. QED
  BY <1>5, <1>6 DEF CountInv

\* Attempts never exceed retry_max, and every lost record is a fault.
THEOREM GatewayCounts == Spec => []CountInv
<1>1. Init => CountInv
  BY DEF Init, CountInv, BeforeLoop
<1>2. TypeOK /\ TypeOK' /\ CountInv /\ [Next]_vars => CountInv'
  <2> SUFFICES ASSUME TypeOK, TypeOK', CountInv, [Next]_vars PROVE CountInv'
    OBVIOUS
  <2>1. CASE UNCHANGED vars
    BY <2>1 DEF CountInv, vars, local, history, bounds
  <2>2. ASSUME NEW c \in Clients, Submit(c) \/ Step(c) \/ Crash(c) PROVE CountInv'
    BY <2>2, CountStep
  <2>3. QED
    BY <2>1, <2>2 DEF Next, Quiescent
<1>3. QED
  BY <1>1, <1>2, GatewayTypeOK, PTL DEF Spec

-----------------------------------------------------------------------------
(* The refinement mapping, one operator for each variable of AdmittedCalls *)

On    == [c \in Clients |-> AdmittedOn(c)]
Left  == [c \in Clients |-> CallsLeft(c)]
Armed == {c \in Clients : pc[c] = "invoke"}
Rows  == [t \in Traces |-> Len(spans[t])]

\* A step of c changes the mapped frames of c only.
LEMMA MappedFrame ==
  ASSUME NEW c \in Clients, Frame(c)
  PROVE  /\ On'   = [On EXCEPT ![c] = AdmittedOn(c)']
         /\ Left' = [Left EXCEPT ![c] = CallsLeft(c)']
         /\ Armed' = IF pc'[c] = "invoke" THEN Armed \cup {c} ELSE Armed \ {c}
<1>1. \A d \in Clients \ {c} : AdmittedOn(d)' = AdmittedOn(d)
  BY DEF Frame, AdmittedOn, Admitted, Trace
<1>2. \A d \in Clients \ {c} : CallsLeft(d)' = CallsLeft(d)
  BY DEF Frame, CallsLeft, Admitted
<1>3. On' = [On EXCEPT ![c] = AdmittedOn(c)']
  BY <1>1 DEF On
<1>4. Left' = [Left EXCEPT ![c] = CallsLeft(c)']
  BY <1>2 DEF Left
<1>5. Armed' = IF pc'[c] = "invoke" THEN Armed \cup {c} ELSE Armed \ {c}
  BY DEF Frame, Armed
<1>6. QED
  BY <1>3, <1>4, <1>5

\* A quiet step changes no counter.
LEMMA QuietCounters ==
  ASSUME Quiet PROVE Rows' = Rows /\ lost' = lost /\ made' = made
BY DEF Quiet, NoRecord, Rows

\* An effect that AdmittedCalls does not see.
LEMMA MapsToStutter ==
  ASSUME TypeOK, TypeOK', CountInv, NEW c \in Clients, Frame(c),
         \/ Enters(c) \/ Prepared(c) \/ GoesOn(c) \/ Counts(c)
         \/ (Leaves(c) /\ ~Admitted(c))
  PROVE  UNCHANGED <<On, Left, Armed, Rows, lost, made>>
<1>1. /\ attempt[c] \in Nat /\ pc \in [Clients -> PCs] /\ pc' \in [Clients -> PCs]
      /\ pc[c] # "idle" => req[c].attempts \in Nat
  BY GatewayAssumption DEF TypeOK, LocalsOK, Requests
<1>2. UNCHANGED <<Rows, lost, made>>
  BY QuietCounters DEF Enters, Prepared, GoesOn, Counts, Leaves
<1>3. AdmittedOn(c)' = AdmittedOn(c)
  BY DEF Enters, Prepared, GoesOn, Counts, Leaves, KeepsRequest, AdmittedOn, Admitted, Trace
<1>4. CallsLeft(c)' = CallsLeft(c)
  <2>1. CASE Enters(c) \/ Prepared(c) \/ (Leaves(c) /\ ~Admitted(c))
    BY <2>1 DEF Enters, Prepared, Leaves, CallsLeft, Admitted
  <2>2. CASE GoesOn(c)
    BY <1>1, <2>2 DEF GoesOn, KeepsRequest, CallsLeft, Admitted
  <2>3. CASE Counts(c)
    BY <1>1, <2>3 DEF Counts, CallsLeft, Admitted
  <2>4. QED
    BY <2>1, <2>2, <2>3
<1>5. pc[c] # "invoke" /\ pc'[c] # "invoke"
  BY DEF Enters, Prepared, GoesOn, Counts, Leaves, Admitted
<1>6. On' = On /\ Left' = Left /\ Armed' = Armed
  <2>1. On = [On EXCEPT ![c] = AdmittedOn(c)]
    BY DEF On
  <2>2. Left = [Left EXCEPT ![c] = CallsLeft(c)]
    BY DEF Left
  <2>3. Armed = Armed \ {c}
    BY <1>5 DEF Armed
  <2>4. QED
    BY <1>3, <1>4, <1>5, <2>1, <2>2, <2>3, MappedFrame
<1>7. QED
  BY <1>2, <1>6

\* Passing the check of the calls is the admission.
LEMMA MapsToAdmit ==
  ASSUME TypeOK, CountInv, NEW c \in Clients, Frame(c), IsAdmitted(c)
  PROVE  /\ Trace(c) \in TracesOf[c] /\ req[c].attempts \in AttemptChoices
         /\ Admission!Admit(c, Trace(c), req[c].attempts)
<1>1. /\ req[c] \in Requests /\ Trace(c) \in TracesOf[c] /\ Trace(c) \in Traces
      /\ req[c].attempts \in AttemptChoices /\ req[c].attempts \in Nat
  BY GatewayAssumption DEF IsAdmitted, TypeOK, LocalsOK, Requests, Trace
<1>2. attempt[c] = 0
  BY DEF IsAdmitted, CountInv, BeforeLoop
<1>3. On[c] = {}
  BY DEF On, AdmittedOn, Admitted, IsAdmitted
<1>4. AdmittedOn(c)' = {Trace(c)}
  BY DEF AdmittedOn, Admitted, IsAdmitted, KeepsRequest, Trace
<1>5. CallsLeft(c)' = req[c].attempts
  BY <1>1, <1>2 DEF CallsLeft, Admitted, IsAdmitted, KeepsRequest
<1>6. Armed' = Armed
  BY MappedFrame DEF IsAdmitted, Armed
<1>7. UNCHANGED <<Rows, lost, made>>
  BY QuietCounters DEF IsAdmitted
<1>8. (HardQuota /\ CallsLimit[System(c)] > 0) =>
        Rows[Trace(c)] + req[c].attempts <= CallsLimit[System(c)]
  BY <1>1 DEF IsAdmitted, CallsFit, Rows
<1>9. On' = [On EXCEPT ![c] = {Trace(c)}] /\ Left' = [Left EXCEPT ![c] = req[c].attempts]
  BY <1>4, <1>5, MappedFrame
<1>10. QED
  BY <1>1, <1>3, <1>6, <1>7, <1>8, <1>9
     DEF Admission!Admit, On, Left, Armed, Rows

\* Returning, raising, crashing and falling back end the admission.
LEMMA MapsToWithdraw ==
  ASSUME NEW c \in Clients, Frame(c), Admitted(c), Leaves(c) \/ FallsBack(c)
  PROVE  Admission!Withdraw(c)
<1>1. On[c] # {}
  BY DEF On, AdmittedOn
<1>2. AdmittedOn(c)' = {} /\ CallsLeft(c)' = 0 /\ pc'[c] # "invoke"
  BY DEF AdmittedOn, CallsLeft, Admitted, Leaves, FallsBack
<1>3. UNCHANGED <<Rows, lost, made>>
  BY QuietCounters DEF Leaves, FallsBack
<1>4. /\ On' = [On EXCEPT ![c] = {}] /\ Left' = [Left EXCEPT ![c] = 0]
      /\ Armed' = Armed \ {c}
  BY <1>2, MappedFrame
<1>5. QED
  BY <1>1, <1>3, <1>4 DEF Admission!Withdraw, On, Left, Armed, Rows

\* The frame of a client between its guard and its answer.
LEMMA InsideAdmission ==
  ASSUME TypeOK, CountInv, NEW c \in Clients, Admitted(c)
  PROVE  /\ Trace(c) \in TracesOf[c] /\ Trace(c) \in Traces
         /\ On[c] = {Trace(c)} /\ Left[c] = CallsLeft(c)
         /\ attempt[c] \in Nat /\ req[c].attempts \in Nat
         /\ attempt[c] <= req[c].attempts
<1>1. pc[c] # "idle"
  BY DEF Admitted
<1>2. req[c] \in Requests /\ req[c].trace \in TracesOf[c] /\ attempt[c] \in Nat
  BY <1>1 DEF TypeOK, LocalsOK
<1>3. req[c].trace \in Traces /\ req[c].attempts \in Nat
  BY <1>2, GatewayAssumption DEF Requests
<1>4. On[c] = {Trace(c)} /\ Left[c] = CallsLeft(c)
  BY DEF On, AdmittedOn, Left
<1>5. QED
  BY <1>1, <1>2, <1>3, <1>4 DEF CountInv, Trace

\* The INSERT of the span records the call, or loses its record.
LEMMA MapsToRecord ==
  ASSUME TypeOK, TypeOK', CountInv, NEW c \in Clients, Frame(c), Records(c)
  PROVE  \E t \in TracesOf[c] : Admission!Record(c, t)
<1>0. Admitted(c) /\ pc[c] = "insert" /\ pc'[c] = "invoke" /\ KeepsRequest(c)
  BY DEF Records, Admitted
<1>1. /\ Trace(c) \in TracesOf[c] /\ Trace(c) \in Traces
      /\ On[c] = {Trace(c)} /\ Left[c] = CallsLeft(c)
      /\ attempt[c] \in Nat /\ req[c].attempts \in Nat
      /\ attempt[c] <= req[c].attempts
  BY <1>0, InsideAdmission
<1>2. CallsLeft(c) > 0 /\ CallsLeft(c)' = CallsLeft(c) - 1
  BY <1>0, <1>1 DEF CallsLeft, Admitted, KeepsRequest
<1>3. AdmittedOn(c)' = On[c]
  BY <1>0, <1>1 DEF AdmittedOn, Admitted, KeepsRequest, Trace
<1>4. On' = On /\ Left' = [Left EXCEPT ![c] = Left[c] - 1] /\ Armed' = Armed \cup {c}
  <2>1. On = [On EXCEPT ![c] = On[c]]
    BY DEF On
  <2>2. QED
    BY <1>0, <1>1, <1>2, <1>3, <2>1, MappedFrame
<1>5. c \notin Armed
  BY <1>0 DEF Armed
<1>6. \/ Rows' = [Rows EXCEPT ![Trace(c)] = Rows[Trace(c)] + 1] /\ lost' = lost
      \/ /\ lost[Trace(c)] < MaxFaults /\ Rows' = Rows
         /\ lost' = [lost EXCEPT ![Trace(c)] = lost[Trace(c)] + 1]
  <2>1. /\ spans \in [Traces -> Seq(SpanRows)] /\ lost \in [Traces -> Nat]
        /\ lost[Trace(c)] <= faults /\ faults \in Nat /\ faults' <= MaxFaults
        /\ MaxFaults \in Nat
    BY SMTT(30), <1>1, GatewayAssumption DEF TypeOK, TablesOK, HistoryOK, BoundsOK, CountInv
  <2>2. CASE spans' = [spans EXCEPT ![Trace(c)] = Append(spans[Trace(c)], OpenSpan(c))]
    <3>1. /\ Len(spans'[Trace(c)]) = Len(spans[Trace(c)]) + 1
          /\ \A t \in Traces \ {Trace(c)} : spans'[t] = spans[t]
      <4>1. spans'[Trace(c)] = Append(spans[Trace(c)], OpenSpan(c))
        BY <1>1, <2>1, <2>2
      <4>2. spans[Trace(c)] \in Seq(SpanRows) /\ spans'[Trace(c)] \in Seq(SpanRows)
        BY <1>1 DEF TypeOK, TablesOK
      <4>3. Len(Append(spans[Trace(c)], OpenSpan(c))) = Len(spans[Trace(c)]) + 1
        BY <4>2
      <4>4. QED
        BY <1>1, <2>1, <2>2, <4>1, <4>3
    <3>2. Rows' = [Rows EXCEPT ![Trace(c)] = Rows[Trace(c)] + 1]
      BY <1>1, <3>1 DEF Rows
    <3>3. lost' = lost \/ (spans' = spans)
      BY DEF Records
    <3>4. spans' # spans
      BY <3>1, <2>1, <1>1
    <3>5. QED
      BY <3>2, <3>3, <3>4
  <2>3. CASE /\ spans' = spans /\ faults' = faults + 1
             /\ lost' = [lost EXCEPT ![Trace(c)] = lost[Trace(c)] + 1]
    BY <1>1, <2>1, <2>3 DEF Rows
  <2>4. QED
    BY <2>2, <2>3 DEF Records
<1>7. made' = made
  BY DEF Records
<1>8. QED
  BY <1>1, <1>2, <1>4, <1>5, <1>6, <1>7 DEF Admission!Record, On, Left, Armed, Rows

\* With trace.strict a failing record ends the attempt before its call.
LEMMA MapsToForgo ==
  ASSUME TypeOK, CountInv, NEW c \in Clients, Frame(c), Forgoes(c)
  PROVE  Admission!Forgo(c)
<1>0. /\ Admitted(c) /\ pc[c] \in {"seq", "insert"} /\ pc'[c] = "loop"
      /\ KeepsRequest(c)
  BY DEF Forgoes, Admitted
<1>1. /\ On[c] = {Trace(c)} /\ Left[c] = CallsLeft(c)
      /\ attempt[c] \in Nat /\ req[c].attempts \in Nat
      /\ attempt[c] <= req[c].attempts
  BY <1>0, InsideAdmission
<1>2. CallsLeft(c) > 0 /\ CallsLeft(c)' = CallsLeft(c) - 1
  BY <1>0, <1>1 DEF CallsLeft, Admitted, KeepsRequest
<1>3. AdmittedOn(c)' = On[c]
  BY <1>0, <1>1 DEF AdmittedOn, Admitted, KeepsRequest, Trace
<1>4. On' = On /\ Left' = [Left EXCEPT ![c] = Left[c] - 1] /\ Armed' = Armed \ {c}
  <2>1. On = [On EXCEPT ![c] = On[c]]
    BY DEF On
  <2>2. QED
    BY <1>0, <1>1, <1>2, <1>3, <2>1, MappedFrame
<1>5. c \notin Armed /\ Armed' = Armed
  BY <1>0, <1>4 DEF Armed
<1>6. UNCHANGED <<Rows, lost, made>>
  BY QuietCounters DEF Forgoes
<1>7. QED
  BY <1>1, <1>2, <1>4, <1>5, <1>6 DEF Admission!Forgo, On, Left, Armed, Rows

\* Invoking the adapter is the call.
LEMMA MapsToCall ==
  ASSUME TypeOK, CountInv, NEW c \in Clients, Frame(c), Calls(c)
  PROVE  \E t \in TracesOf[c] : Admission!Call(c, t)
<1>0. /\ Admitted(c) /\ pc[c] = "invoke" /\ pc'[c] \in {"close", "closeFailed"}
      /\ KeepsRequest(c)
  BY DEF Calls, Admitted
<1>1. /\ Trace(c) \in TracesOf[c] /\ On[c] = {Trace(c)} /\ Left[c] = CallsLeft(c)
  BY <1>0, InsideAdmission
<1>2. CallsLeft(c)' = CallsLeft(c) /\ AdmittedOn(c)' = On[c]
  BY <1>0, <1>1 DEF CallsLeft, AdmittedOn, Admitted, KeepsRequest, Trace
<1>3. On' = On /\ Left' = Left /\ Armed' = Armed \ {c} /\ c \in Armed
  <2>1. On = [On EXCEPT ![c] = On[c]] /\ Left = [Left EXCEPT ![c] = Left[c]]
    BY DEF On, Left
  <2>2. c \in Armed
    BY <1>0 DEF Armed
  <2>3. QED
    BY <1>0, <1>1, <1>2, <2>1, <2>2, MappedFrame
<1>4. /\ Rows' = Rows /\ lost' = lost
      /\ made' = [made EXCEPT ![Trace(c)] = made[Trace(c)] + 1]
  BY DEF Calls, Rows
<1>5. QED
  BY <1>1, <1>3, <1>4 DEF Admission!Call, On, Left, Armed, Rows

-----------------------------------------------------------------------------
(* The theorem *)

\* Every step of a client is a step of the promise, or invisible to it.
LEMMA MapsToStep ==
  ASSUME TypeOK, TypeOK', CountInv, NEW c \in Clients,
         Submit(c) \/ Step(c) \/ Crash(c)
  PROVE  Admission!Next \/ UNCHANGED <<On, Left, Armed, Rows, lost, made>>
<1>1. Frame(c) /\ Effect(c)
  BY StepFrame, StepEffect DEF TypeOK
<1>2. CASE IsAdmitted(c)
  BY <1>1, <1>2, MapsToAdmit DEF Admission!Next
<1>3. CASE (Leaves(c) \/ FallsBack(c)) /\ Admitted(c)
  BY <1>1, <1>3, MapsToWithdraw DEF Admission!Next
<1>4. CASE Records(c)
  BY <1>1, <1>4, MapsToRecord DEF Admission!Next
<1>5. CASE Forgoes(c)
  BY <1>1, <1>5, MapsToForgo DEF Admission!Next
<1>6. CASE Calls(c)
  BY <1>1, <1>6, MapsToCall DEF Admission!Next
<1>7. FallsBack(c) => Admitted(c)
  BY DEF FallsBack, Admitted
<1>8. CASE \/ Enters(c) \/ Prepared(c) \/ GoesOn(c) \/ Counts(c)
           \/ (Leaves(c) /\ ~Admitted(c))
  BY <1>1, <1>8, MapsToStutter
<1>9. QED
  BY <1>1, <1>2, <1>3, <1>4, <1>5, <1>6, <1>7, <1>8 DEF Effect

\* The gateway implements the promise: for any number of clients, retries and
\* faults, a provider call is made only inside an admission that fitted the
\* limit, after its span was recorded or lost, and never more often than the
\* admission covers (gateway.py:84-115, 219-255).
THEOREM GatewayImplementsAdmission == Spec => ImplementsAdmission
<1>1. Init => Admission!Init
  <2> SUFFICES ASSUME Init PROVE Admission!Init
    OBVIOUS
  <2>1. \A c \in Clients : AdmittedOn(c) = {} /\ CallsLeft(c) = 0 /\ pc[c] # "invoke"
    BY DEF Init, AdmittedOn, CallsLeft, Admitted
  <2>2. \A t \in Traces : Len(spans[t]) = 0
    BY DEF Init
  <2>3. QED
    BY <2>1, <2>2 DEF Admission!Init, Init
<1>2. TypeOK /\ TypeOK' /\ CountInv /\ [Next]_vars => [Admission!Next]_(Admission!vars)
  <2> SUFFICES ASSUME TypeOK, TypeOK', CountInv, [Next]_vars
               PROVE  [Admission!Next]_(Admission!vars)
    OBVIOUS
  <2>1. ASSUME UNCHANGED <<On, Left, Armed, Rows, lost, made>>
        PROVE  UNCHANGED Admission!vars
    BY <2>1 DEF Admission!vars, On, Left, Armed, Rows
  <2>2. CASE UNCHANGED vars
    <3>1. UNCHANGED <<On, Left, Armed, Rows, lost, made>>
      BY <2>2 DEF On, Left, Armed, Rows, AdmittedOn, CallsLeft, Admitted, Trace,
         vars, local, tables, history
    <3>2. QED
      BY <2>1, <3>1
  <2>3. ASSUME NEW c \in Clients, Submit(c) \/ Step(c) \/ Crash(c)
        PROVE  [Admission!Next]_(Admission!vars)
    BY <2>1, <2>3, MapsToStep
  <2>4. QED
    BY <2>2, <2>3 DEF Next, Quiescent
<1>3. QED
  BY <1>1, <1>2, GatewayTypeOK, GatewayCounts, PTL
     DEF Spec, ImplementsAdmission, Admission!Spec

-----------------------------------------------------------------------------
(* What is proved of the promise holds of the gateway.  Promise is the same *)
(* instance as Admission, of the module that holds the proofs.              *)

Promise == INSTANCE AdmittedCallsProofs WITH
  Rounds   <- AttemptChoices,
  MaxLost  <- MaxFaults,
  LimitOf  <- [c \in Clients |-> CallsLimit[System(c)]],
  Enforced <- HardQuota,
  on       <- On,
  left     <- Left,
  armed    <- Armed,
  rows     <- Rows,
  calls    <- made

\* The gateway's constants satisfy the promise's assumption.
LEMMA PromiseAssumption == Promise!AdmissionAssumption
<1>1. Promise!IsFiniteSet(Clients) = IsFiniteSet(Clients)
  BY DEF Promise!IsFiniteSet, IsFiniteSet
<1>2. [c \in Clients |-> CallsLimit[System(c)]] \in [Clients -> Nat]
  BY GatewayAssumption DEF System
<1>3. QED
  BY <1>1, <1>2, GatewayAssumption DEF Promise!AdmissionAssumption

\* Both instances are the same specification.
LEMMA PromiseKept == Spec => Promise!Spec
<1>1. Promise!Init <=> Admission!Init
  BY DEF Promise!Init, Admission!Init, On, Left, Armed, Rows
<1>2. [Promise!Next]_(Promise!vars) <=> [Admission!Next]_(Admission!vars)
  BY DEF Promise!Next, Promise!vars, Promise!Admit, Promise!Record, Promise!Call,
         Promise!Forgo, Promise!Withdraw,
         Admission!Next, Admission!vars, Admission!Admit, Admission!Record,
         Admission!Call, Admission!Forgo, Admission!Withdraw,
         On, Left, Armed, Rows
<1>3. Promise!Spec <=> Admission!Spec
  BY <1>1, <1>2, PTL DEF Promise!Spec, Admission!Spec
<1>4. QED
  BY <1>3, GatewayImplementsAdmission, PTL DEF ImplementsAdmission

\* guard/quota.py:6, 81-98 for any number of clients: those that share a trace
\* exceed the limit by at most one reservation of each other client.
THEOREM GatewaySharedOvershootBounded == Spec => []SharedOvershootBounded
<1>1. Promise!Spec => []Promise!OvershootBounded
  BY PromiseAssumption, Promise!AdmissionOvershootBounded, PTL
<1>2. Promise!OvershootBounded => SharedOvershootBounded
  <2>1. \A S : Promise!Cardinality(S) = Cardinality(S)
    BY DEF Promise!Cardinality, Cardinality
  <2>2. QED
    BY <2>1 DEF Promise!OvershootBounded, Promise!Sharers, SharedOvershootBounded, Sharers
<1>3. QED
  BY <1>1, <1>2, PromiseKept, PTL

\* guard/quota.py:6: on a trace of its own no client passes the limit,
\* whatever fails, is retried or falls back.
THEOREM GatewayCallsWithinLimit == Spec => []CallsWithinLimit
<1>1. Promise!Spec => []Promise!OwnTraceWithinLimit
  BY PromiseAssumption, Promise!AdmissionOwnTraceWithinLimit, PTL
<1>2. Promise!OwnTraceWithinLimit => CallsWithinLimit
  <2> SUFFICES ASSUME Promise!OwnTraceWithinLimit,
                      NEW c \in Clients, NEW t \in Traces, Exclusive(t, c), Capped(c)
               PROVE  made[t] <= CallsLimit[System(c)] + lost[t]
    BY DEF CallsWithinLimit
  <2>1. t \in TracesOf[c] /\ Promise!Sharers(t) = {c}
    BY DEF Exclusive, Promise!Sharers
  <2>2. HardQuota /\ CallsLimit[System(c)] > 0
    BY DEF Capped
  <2>3. QED
    BY <2>1, <2>2 DEF Promise!OwnTraceWithinLimit
<1>3. QED
  BY <1>1, <1>2, PromiseKept, PTL

-----------------------------------------------------------------------------
(* Warnings: what goes beyond a limit is in the audit log *)

\* The calls a client may still record in a trace.
Reserved(c, t) == IF Admitted(c) /\ Trace(c) = t THEN CallsLeft(c) ELSE 0

\* A trace of one client that is not in the audit log has room for all the
\* calls its client may still record there.
AuditInv ==
  faults = 0 => \A c \in Clients, t \in Traces :
    (Exclusive(t, c) /\ CallsLimit[System(c)] > 0 /\ t \notin audited) =>
      Len(spans[t]) + Reserved(c, t) <= CallsLimit[System(c)]

\* The audit log only grows, and who passes the guard fits, or is in the log,
\* or its audit row failed.
LEMMA AuditStep ==
  ASSUME TypeOK, NEW c \in Clients, Submit(c) \/ Step(c) \/ Crash(c)
  PROVE  /\ audited \subseteq audited'
         /\ pc[c] = "guard" /\ pc'[c] # "idle" =>
              CallsFit(c) \/ Trace(c) \in audited' \/ faults' = faults + 1
<1>1. pc \in [Clients -> PCs]
  BY DEF TypeOK, LocalsOK
<1>2. ASSUME NEW what, Audit(what)
      PROVE  audited \subseteq audited' /\ (what \in audited' \/ faults' = faults + 1)
  BY <1>2 DEF Audit, Fault
<1>3. CASE GuardCallsExceeded(c)
  BY <1>2, <1>3 DEF GuardCallsExceeded
<1>4. CASE BudgetExceeded(c)
  <2>1. pc[c] = "budget" /\ Audit(FirstOver(c))
    BY <1>4 DEF BudgetExceeded
  <2>2. QED
    BY <1>2, <2>1
<1>5. CASE GuardCallsPass(c)
  BY <1>5 DEF GuardCallsPass, tables
<1>6. CASE GuardReadFails(c)
  BY <1>1, <1>6 DEF GuardReadFails, Return, Goto, tables
<1>7. CASE Crash(c)
  BY <1>1, <1>7 DEF Crash, Return, Goto, tables
<1>8. CASE \/ Submit(c) \/ Prepare(c) \/ PrepareRejected(c)
           \/ ReadGlobalBudget(c) \/ ReadSystemBudget(c) \/ BudgetsPass(c)
  BY <1>8 DEF Submit, Prepare, PrepareRejected, ReadGlobalBudget, ReadSystemBudget,
     ReadBudget, BudgetsPass, tables
<1>9. CASE \/ NextAttempt(c) \/ ReadSeq(c) \/ InsertSpan(c) \/ InvokeOk(c) \/ InvokeFails(c)
           \/ CloseSpan(c) \/ Accrue(c) \/ CloseFailed(c) \/ Fallback(c) \/ GiveUp(c)
  BY <1>9 DEF NextAttempt, ReadSeq, InsertSpan, InvokeOk, InvokeFails, CloseSpan, Accrue,
     CloseFailed, Fallback, GiveUp, Exhausted, tables
<1>10. QED
  BY <1>3, <1>4, <1>5, <1>6, <1>7, <1>8, <1>9 DEF Step

\* Reservations are never negative.
LEMMA ReservedType ==
  ASSUME TypeOK, CountInv, NEW c \in Clients, NEW t
  PROVE  Reserved(c, t) \in Nat
<1>1. CASE Admitted(c)
  <2>1. pc[c] # "idle"
    BY <1>1 DEF Admitted
  <2>2. /\ req[c].attempts \in Nat /\ attempt[c] \in Nat
        /\ attempt[c] <= req[c].attempts
    BY <2>1, Inside, GatewayAssumption DEF TypeOK, LocalsOK, CountInv, Requests
  <2>3. QED
    BY <1>1, <2>2 DEF Reserved, CallsLeft
<1>2. CASE ~Admitted(c)
  BY <1>2 DEF Reserved
<1>3. QED
  BY <1>1, <1>2

\* The client of a trace records no more there than it reserved.
LEMMA ReservedStep ==
  ASSUME TypeOK, TypeOK', CountInv, faults' = 0,
         NEW c \in Clients, Submit(c) \/ Step(c) \/ Crash(c),
         NEW t \in Traces, t \notin audited'
  PROVE  \/ Len(spans'[t]) + Reserved(c, t)' <= Len(spans[t]) + Reserved(c, t)
         \/ /\ CallsFit(c) /\ Trace(c) = t
            /\ Len(spans'[t]) + Reserved(c, t)' = Len(spans[t]) + req[c].attempts
<1>1. Effect(c) /\ faults \in Nat /\ faults' # faults + 1
  BY StepEffect, GatewayAssumption DEF TypeOK, BoundsOK
<1>2. /\ Len(spans[t]) \in Nat /\ Len(spans'[t]) \in Nat
      /\ attempt[c] \in Nat /\ attempt'[c] \in Nat
      /\ pc[c] # "idle" => req[c].attempts \in Nat /\ attempt[c] <= req[c].attempts
  BY LenProperties, Inside, GatewayAssumption DEF TypeOK, TablesOK, LocalsOK, CountInv, Requests
<1>3. Reserved(c, t) \in Nat
  BY <1>2 DEF Reserved, Admitted, CallsLeft
<1>4. Quiet => Len(spans'[t]) = Len(spans[t])
  BY DEF Quiet, NoRecord
<1>5. KeepsRequest(c) => Trace(c)' = Trace(c) /\ attempt'[c] = attempt[c]
                         /\ req'[c].attempts = req[c].attempts
  BY DEF KeepsRequest, Trace
<1>6. CASE Enters(c) \/ Prepared(c) \/ Leaves(c) \/ FallsBack(c)
  <2>1. Reserved(c, t)' = 0 /\ Quiet
    BY <1>6 DEF Enters, Prepared, Leaves, FallsBack, Reserved, Admitted
  <2>2. QED
    BY <1>2, <1>3, <1>4, <2>1
<1>7. CASE IsAdmitted(c)
  <2>1. pc[c] = "guard" /\ pc'[c] \in {"global", "loop"} /\ KeepsRequest(c) /\ Quiet
    BY <1>7 DEF IsAdmitted
  <2>2. attempt[c] = 0
    BY <2>1 DEF CountInv, BeforeLoop
  <2>3. CASE Trace(c) = t
    <3>1. CallsFit(c)
      BY <1>1, <2>1, <2>3, AuditStep
    <3>2. Reserved(c, t)' = req[c].attempts
      BY <1>2, <1>5, <2>1, <2>2, <2>3 DEF Reserved, Admitted, CallsLeft
    <3>3. QED
      BY <1>4, <2>1, <2>3, <3>1, <3>2
  <2>4. CASE Trace(c) # t
    BY <1>2, <1>3, <1>4, <1>5, <2>1, <2>4 DEF Reserved
  <2>5. QED
    BY <2>3, <2>4
<1>8. CASE GoesOn(c)
  <2>1. /\ KeepsRequest(c) /\ Quiet /\ pc[c] # "idle"
        /\ Admitted(c) /\ Admitted(c)'
        /\ pc[c] \in {"seq", "insert"} <=> pc'[c] \in {"seq", "insert"}
    BY <1>8 DEF GoesOn, Admitted
  <2>2. Reserved(c, t)' = Reserved(c, t)
    BY <1>5, <2>1 DEF Reserved, CallsLeft
  <2>3. QED
    BY <1>2, <1>3, <1>4, <2>1, <2>2
<1>9. CASE Counts(c)
  <2>1. Reserved(c, t)' = Reserved(c, t)
    BY <1>2, <1>9 DEF Counts, Reserved, CallsLeft, Admitted, Trace
  <2>2. QED
    BY <1>2, <1>3, <1>4, <1>9, <2>1 DEF Counts
<1>10. CASE Records(c)
  <2>1. /\ pc[c] = "insert" /\ pc'[c] = "invoke" /\ KeepsRequest(c)
        /\ spans' = [spans EXCEPT ![Trace(c)] = Append(@, OpenSpan(c))]
    BY <1>1, <1>10 DEF Records
  <2>2. Trace(c) \in Traces /\ Trace(c) = t => Reserved(c, t) = Reserved(c, t)' + 1
    BY <1>2, <1>5, <2>1 DEF Reserved, CallsLeft, Admitted
  <2>3. Trace(c) # t => Reserved(c, t) = Reserved(c, t)'
    BY <1>5, <2>1 DEF Reserved
  <2>4. spans \in [Traces -> Seq(SpanRows)] /\ spans' \in [Traces -> Seq(SpanRows)]
        /\ Trace(c) \in Traces /\ Model(c) \in Models
    BY <2>1, Inside DEF TypeOK, TablesOK
  <2>5. OpenSpan(c) \in SpanRows
    BY <2>4 DEF TypeOK, LocalsOK, OpenSpan, SpanRows, SpanStates
  <2>6. /\ Trace(c) = t => Len(spans'[t]) = Len(spans[t]) + 1
        /\ Trace(c) # t => spans'[t] = spans[t]
    <3> HIDE DEF OpenSpan, Trace
    <3>1. QED
      BY <2>1, <2>4, <2>5, AppendProperties
  <2>7. Reserved(c, t)' \in Nat
    BY <1>2, <1>3, <1>5, <2>1, <2>2, <2>3, <2>4 DEF Reserved, CallsLeft, Admitted
  <2>8. QED
    BY <1>2, <1>3, <2>2, <2>3, <2>4, <2>6, <2>7
<1>11. CASE Forgoes(c)
  <2>1. pc[c] \in {"seq", "insert"} /\ pc'[c] = "loop" /\ KeepsRequest(c) /\ Quiet
    BY <1>11 DEF Forgoes
  <2>2. Reserved(c, t)' <= Reserved(c, t)
    BY <1>2, <1>3, <1>5, <2>1 DEF Reserved, CallsLeft, Admitted
  <2>3. Reserved(c, t)' \in Nat
    BY <1>2, <1>5, <2>1 DEF Reserved, CallsLeft, Admitted
  <2>4. QED
    BY <1>2, <1>3, <1>4, <2>1, <2>2, <2>3
<1>12. CASE Calls(c)
  <2>1. pc[c] = "invoke" /\ pc'[c] \in {"close", "closeFailed"} /\ KeepsRequest(c)
        /\ spans' = spans
    BY <1>12 DEF Calls
  <2>2. Reserved(c, t)' = Reserved(c, t)
    BY <1>5, <2>1 DEF Reserved, CallsLeft, Admitted
  <2>3. QED
    BY <1>2, <1>3, <2>1, <2>2
<1>13. QED
  BY <1>1, <1>6, <1>7, <1>8, <1>9, <1>10, <1>11, <1>12 DEF Effect

\* A step of another client leaves the trace alone.
LEMMA OtherTrace ==
  ASSUME TypeOK, TypeOK', NEW c \in Clients, NEW t \in Traces, Exclusive(t, c),
         NEW d \in Clients \ {c}, Submit(d) \/ Step(d) \/ Crash(d)
  PROVE  Len(spans'[t]) = Len(spans[t]) /\ Reserved(c, t)' = Reserved(c, t)
<1>1. Frame(d) /\ Effect(d)
  BY StepFrame, StepEffect DEF TypeOK
<1>2. Reserved(c, t)' = Reserved(c, t)
  BY <1>1 DEF Frame, Reserved, Admitted, CallsLeft, Trace
<1>3. CASE Quiet \/ Calls(d)
  BY <1>2, <1>3 DEF Quiet, NoRecord, Calls
<1>4. CASE Records(d)
  <2>1. Trace(d) # t /\ spans \in [Traces -> Seq(SpanRows)]
    BY <1>4, Inside DEF TypeOK, TablesOK, Records, Exclusive
  <2>2. spans'[t] = spans[t]
    <3> HIDE DEF Trace
    <3>1. QED
      BY <1>4, <2>1 DEF Records
  <2>3. QED
    BY <1>2, <2>2
<1>5. Quiet \/ Calls(d) \/ Records(d)
  BY <1>1 DEF Effect, Enters, Prepared, Leaves, IsAdmitted, GoesOn, Counts, Forgoes, FallsBack
<1>6. QED
  BY <1>2, <1>3, <1>4, <1>5

\* guard/quota.py:13: with hard_quota off the limits only warn, but a trace
\* that its client took beyond the limit is in the audit log.
THEOREM GatewayOverrunsAudited == Spec => []OverrunsAudited
<1>1. Init => AuditInv
  <2> SUFFICES ASSUME Init, NEW c \in Clients, NEW t \in Traces, CallsLimit[System(c)] > 0
               PROVE  Len(spans[t]) + Reserved(c, t) <= CallsLimit[System(c)]
    BY DEF AuditInv
  <2>1. spans[t] = <<>> /\ Reserved(c, t) = 0
    BY DEF Init, Reserved, Admitted
  <2>2. CallsLimit[System(c)] \in Nat
    BY GatewayAssumption DEF System
  <2>3. QED
    BY <2>1, <2>2
<1>2. TypeOK /\ TypeOK' /\ CountInv /\ AuditInv /\ [Next]_vars => AuditInv'
  <2> SUFFICES ASSUME TypeOK, TypeOK', CountInv, AuditInv, [Next]_vars, faults' = 0,
                      NEW c \in Clients, NEW t \in Traces, Exclusive(t, c),
                      CallsLimit[System(c)] > 0, t \notin audited'
               PROVE  Len(spans'[t]) + Reserved(c, t)' <= CallsLimit[System(c)]
    BY DEF AuditInv, Exclusive, System
  <2>1. CASE UNCHANGED vars
    BY <2>1 DEF vars, local, tables, bounds, AuditInv, Reserved, Admitted, CallsLeft, Trace
  <2>2. ASSUME NEW d \in Clients, Submit(d) \/ Step(d) \/ Crash(d)
        PROVE  Len(spans'[t]) + Reserved(c, t)' <= CallsLimit[System(c)]
    <3>1. /\ faults = 0 /\ t \notin audited /\ CallsLimit[System(c)] \in Nat
          /\ Len(spans[t]) \in Nat /\ Len(spans'[t]) \in Nat
      <4>1. Effect(d) /\ faults \in Nat
        BY <2>2, StepEffect, GatewayAssumption DEF TypeOK, BoundsOK
      <4>2. faults' \in {faults, faults + 1}
        BY <4>1 DEF Effect, Enters, Prepared, Leaves, IsAdmitted, GoesOn, Counts, Records,
           Forgoes, Calls, FallsBack, Quiet
      <4>3. QED
        BY <2>2, <4>1, <4>2, AuditStep, GatewayAssumption, LenProperties
           DEF TypeOK, TablesOK, System
    <3>2. Len(spans[t]) + Reserved(c, t) <= CallsLimit[System(c)]
      BY <3>1 DEF AuditInv
    <3>3. CASE d # c
      BY <2>2, <3>2, <3>3, OtherTrace
    <3>4. CASE d = c
      <4>1. CASE Len(spans'[t]) + Reserved(c, t)' <= Len(spans[t]) + Reserved(c, t)
        <5>1. Reserved(c, t) \in Nat
          BY ReservedType
        <5>2. Reserved(c, t)' \in Nat
          <6>1. CASE Admitted(c)'
            <7>1. pc'[c] # "idle" /\ CountInv'
              BY <2>2, <6>1, CountStep DEF Admitted
            <7>2. /\ req'[c].attempts \in Nat /\ attempt'[c] \in Nat
                  /\ attempt'[c] <= req'[c].attempts
              BY <7>1, GatewayAssumption DEF TypeOK, LocalsOK, CountInv, Requests
            <7>3. QED
              BY <6>1, <7>2 DEF Reserved, CallsLeft
          <6>2. CASE ~Admitted(c)'
            BY <6>2 DEF Reserved
          <6>3. QED
            BY <6>1, <6>2
        <5>3. QED
          BY <3>1, <3>2, <4>1, <5>1, <5>2
      <4>2. CASE /\ CallsFit(c) /\ Trace(c) = t
                 /\ Len(spans'[t]) + Reserved(c, t)' = Len(spans[t]) + req[c].attempts
        BY <4>2 DEF CallsFit
      <4>3. QED
        BY <2>2, <3>4, <4>1, <4>2, ReservedStep
    <3>5. QED
      BY <3>3, <3>4
  <2>3. QED
    BY <2>1, <2>2 DEF Next, Quiescent
<1>3. TypeOK /\ CountInv /\ AuditInv => OverrunsAudited
  <2> SUFFICES ASSUME TypeOK, CountInv, AuditInv, faults = 0,
                      NEW c \in Clients, NEW t \in Traces, Exclusive(t, c),
                      CallsLimit[System(c)] > 0, t \notin audited
               PROVE  ~(Len(spans[t]) > CallsLimit[System(c)])
    BY DEF OverrunsAudited
  <2>1. Len(spans[t]) + Reserved(c, t) <= CallsLimit[System(c)]
    BY DEF AuditInv
  <2>2. Reserved(c, t) \in Nat
    BY ReservedType
  <2>3. Len(spans[t]) \in Nat /\ CallsLimit[System(c)] \in Nat
    BY GatewayAssumption, LenProperties DEF TypeOK, TablesOK, System
  <2>4. QED
    BY <2>1, <2>2, <2>3
<1>4. QED
  BY <1>1, <1>2, <1>3, GatewayTypeOK, GatewayCounts, PTL DEF Spec
=============================================================================
