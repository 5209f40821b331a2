---------------------------- MODULE AdmittedCalls ----------------------------
(***************************************************************************)
(* What the gateway promises about provider calls, without prompts, models,*)
(* money or answers: a call is made only under an admission, an admission  *)
(* is for a fixed number of calls that fits the trace's limit when it is   *)
(* given, and every call is on record before it is made, unless the record *)
(* was lost.  Gateway implements this specification.                       *)
(***************************************************************************)
EXTENDS Integers, FiniteSets

CONSTANTS
  Clients,
  Traces,
  TracesOf,       \* the traces each client calls under
  Rounds,         \* how many calls one admission may be for
  LimitOf,        \* limit of calls per trace, by client; 0 = unlimited
  Enforced,       \* are the limits enforced, or do they only warn?
  MaxLost         \* bound: records lost per trace

ASSUME AdmissionAssumption ==
  /\ IsFiniteSet(Clients)
  /\ TracesOf \in [Clients -> SUBSET Traces]
  /\ Rounds \subseteq Nat
  /\ LimitOf \in [Clients -> Nat]
  /\ Enforced \in BOOLEAN
  /\ MaxLost \in Nat

VARIABLES
  on,     \* the trace each client is admitted under; {} = not admitted
  left,   \* calls its admission still covers
  armed,  \* clients whose next call is already on record
  rows,   \* calls on record, per trace
  lost,   \* calls whose record was lost, per trace
  calls   \* calls made, per trace

vars == <<on, left, armed, rows, lost, calls>>

Init ==
  /\ on    = [c \in Clients |-> {}]
  /\ left  = [c \in Clients |-> 0]
  /\ armed = {}
  /\ rows  = [t \in Traces |-> 0]
  /\ lost  = [t \in Traces |-> 0]
  /\ calls = [t \in Traces |-> 0]

\* Bug: an admission checks that one call fits, whatever it is for.
AdmitForOne(c, t, n) ==
  /\ on[c] = {}
  /\ (Enforced /\ LimitOf[c] > 0) => rows[t] + 1 <= LimitOf[c]
  /\ on'   = [on EXCEPT ![c] = {t}]
  /\ left' = [left EXCEPT ![c] = n]
  /\ UNCHANGED <<armed, rows, lost, calls>>

Admit(c, t, n) ==
  /\ on[c] = {}
  /\ (Enforced /\ LimitOf[c] > 0) => rows[t] + n <= LimitOf[c]
  /\ on'   = [on EXCEPT ![c] = {t}]
  /\ left' = [left EXCEPT ![c] = n]
  /\ UNCHANGED <<armed, rows, lost, calls>>

\* The next call of c is put on record, or its record is lost.
Record(c, t) ==
  /\ on[c] = {t} /\ left[c] > 0 /\ c \notin armed
  /\ left'  = [left EXCEPT ![c] = @ - 1]
  /\ armed' = armed \cup {c}
  /\ \/ rows' = [rows EXCEPT ![t] = @ + 1] /\ UNCHANGED lost
     \/ /\ lost[t] < MaxLost
        /\ lost' = [lost EXCEPT ![t] = @ + 1]
        /\ UNCHANGED rows
  /\ UNCHANGED <<on, calls>>

\* Bug: nothing stops a client from giving up calls it does not have.
ForgoMore(c) ==
  /\ left' = [left EXCEPT ![c] = @ - 1]
  /\ UNCHANGED <<on, armed, rows, lost, calls>>

\* One covered call is given up before it is recorded.
Forgo(c) ==
  /\ left[c] > 0 /\ c \notin armed
  /\ left' = [left EXCEPT ![c] = @ - 1]
  /\ UNCHANGED <<on, armed, rows, lost, calls>>

\* Bug: one record serves any number of calls.
CallAgain(c, t) ==
  /\ on[c] = {t} /\ c \in armed
  /\ calls' = [calls EXCEPT ![t] = @ + 1]
  /\ UNCHANGED <<on, left, armed, rows, lost>>

Call(c, t) ==
  /\ on[c] = {t} /\ c \in armed
  /\ armed' = armed \ {c}
  /\ calls' = [calls EXCEPT ![t] = @ + 1]
  /\ UNCHANGED <<on, left, rows, lost>>

\* Refused later, answered, failed for good, or crashed.
Withdraw(c) ==
  /\ on[c] # {}
  /\ on'    = [on EXCEPT ![c] = {}]
  /\ left'  = [left EXCEPT ![c] = 0]
  /\ armed' = armed \ {c}
  /\ UNCHANGED <<rows, lost, calls>>

Next ==
  \E c \in Clients :
    \/ \E t \in TracesOf[c], n \in Rounds : Admit(c, t, n)
    \/ \E t \in TracesOf[c] : Record(c, t) \/ Call(c, t)
    \/ Forgo(c)
    \/ Withdraw(c)

Spec == Init /\ [][Next]_vars

-----------------------------------------------------------------------------

\* The state of the promise is well formed.
TypeOK ==
  /\ on    \in [Clients -> SUBSET Traces]
  /\ left  \in [Clients -> Nat]
  /\ armed \in SUBSET Clients
  /\ rows  \in [Traces -> Nat]
  /\ lost  \in [Traces -> Nat]
  /\ calls \in [Traces -> Nat]
  /\ \A c \in Clients : on[c] = {} \/ \E t \in TracesOf[c] : on[c] = {t}

\* No call escapes the record other than those whose record was lost.
CallsRecorded == \A t \in Traces : calls[t] <= rows[t] + lost[t]

Sharers(t) == {c \in Clients : t \in TracesOf[c]}

\* A trace whose clients all have a limit of at most L sees at most L calls,
\* and one round of A calls of each other client admitted at the same time.
OvershootBounded ==
  \A t \in Traces, A \in Rounds, L \in {LimitOf[c] : c \in Clients} :
    (/\ Enforced /\ Sharers(t) # {}
     /\ \A c \in Sharers(t) : LimitOf[c] \in 1..L
     /\ \A n \in Rounds : n <= A) =>
       calls[t] <= L + lost[t] + (Cardinality(Sharers(t)) - 1) * A

\* The limit is exact on a trace that only one client may use.
OwnTraceWithinLimit ==
  \A c \in Clients : \A t \in TracesOf[c] :
    (Enforced /\ LimitOf[c] > 0 /\ Sharers(t) = {c}) =>
      calls[t] <= LimitOf[c] + lost[t]
=============================================================================
