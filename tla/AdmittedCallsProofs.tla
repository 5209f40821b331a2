------------------------- MODULE AdmittedCallsProofs -------------------------
(***************************************************************************)
(* What the admission promise is worth, for any number of clients, traces  *)
(* and limits: no call escapes the record, and clients that share a trace  *)
(* overshoot its limit by no more than they reserved.                      *)
(***************************************************************************)
EXTENDS AdmittedCalls, FiniteSetTheorems, TLAPS

\* The promise's state stays well formed, whatever clients, limits and rounds.
THEOREM AdmissionTypeOK == Spec => []TypeOK
<1>1. Init => TypeOK
  BY AdmissionAssumption DEF Init, TypeOK
<1>2. TypeOK /\ [Next]_vars => TypeOK'
  <2> SUFFICES ASSUME TypeOK, [Next]_vars PROVE TypeOK'
    OBVIOUS
  <2> USE AdmissionAssumption DEF TypeOK
  <2>1. ASSUME NEW c \in Clients, NEW t \in TracesOf[c], NEW n \in Rounds,
               Admit(c, t, n)
        PROVE  TypeOK'
    BY <2>1 DEF Admit
  <2>2. ASSUME NEW c \in Clients, NEW t \in TracesOf[c], Record(c, t)
        PROVE  TypeOK'
    BY <2>2 DEF Record
  <2>3. ASSUME NEW c \in Clients, NEW t \in TracesOf[c], Call(c, t)
        PROVE  TypeOK'
    BY <2>3 DEF Call
  <2>4. ASSUME NEW c \in Clients, Forgo(c) PROVE TypeOK'
    BY <2>4 DEF Forgo
  <2>5. ASSUME NEW c \in Clients, Withdraw(c) PROVE TypeOK'
    BY <2>5 DEF Withdraw
  <2>6. CASE UNCHANGED vars
    BY <2>6 DEF vars
  <2>7. QED
    BY <2>1, <2>2, <2>3, <2>4, <2>5, <2>6 DEF Next
<1>3. QED
  BY <1>1, <1>2, PTL DEF Spec

-----------------------------------------------------------------------------
(* CallsRecorded: an armed client holds one record that no call has used. *)

Armed(t) == {c \in armed : on[c] = {t}}

RecordInv ==
  /\ TypeOK
  /\ \A c \in armed : on[c] # {}
  /\ \A t \in Traces : calls[t] + Cardinality(Armed(t)) <= rows[t] + lost[t]

\* Every subset of the clients is finite.
LEMMA ClientSets ==
  ASSUME NEW S \in SUBSET Clients
  PROVE  IsFiniteSet(S) /\ Cardinality(S) \in Nat
BY AdmissionAssumption, FS_Subset, FS_CardinalityType

\* A record is there for every call that was made, except the calls whose
\* record was lost: the recorder never lets a call go unnoticed.
THEOREM AdmissionCallsRecorded == Spec => []CallsRecorded
<1>1. Init => RecordInv
  <2> SUFFICES ASSUME Init PROVE RecordInv
    OBVIOUS
  <2>1. TypeOK
    BY AdmissionAssumption DEF Init, TypeOK
  <2>2. \A t \in Traces : Armed(t) = {}
    BY DEF Init, Armed
  <2>3. QED
    BY <2>1, <2>2, FS_EmptySet DEF RecordInv, Init
<1>2. RecordInv /\ TypeOK' /\ [Next]_vars => RecordInv'
  <2> SUFFICES ASSUME RecordInv, TypeOK', [Next]_vars PROVE RecordInv'
    OBVIOUS
  <2> USE AdmissionAssumption
  <2>0. \A t \in Traces : /\ Armed(t) \in SUBSET Clients
                          /\ Armed(t)' \in SUBSET Clients
    BY DEF RecordInv, TypeOK, Armed
  <2>f. \A t \in Traces : /\ IsFiniteSet(Armed(t))
                          /\ Cardinality(Armed(t)) \in Nat
                          /\ Cardinality(Armed(t)') \in Nat
    BY <2>0, ClientSets
  <2>1. ASSUME NEW c \in Clients, NEW t \in TracesOf[c], NEW n \in Rounds,
               Admit(c, t, n)
        PROVE  RecordInv'
    <3>1. c \notin armed
      BY <2>1 DEF Admit, RecordInv
    <3>2. \A u \in Traces : Armed(u)' = Armed(u)
      BY <2>1, <3>1 DEF Admit, Armed, RecordInv, TypeOK
    <3>3. \A d \in armed' : on'[d] # {}
      BY <2>1, <3>1 DEF Admit, RecordInv, TypeOK
    <3>4. QED
      BY <2>1, <3>2, <3>3 DEF Admit, RecordInv
  <2>2. ASSUME NEW c \in Clients, NEW t \in TracesOf[c], Record(c, t)
        PROVE  RecordInv'
    <3>1. /\ Armed(t)' = Armed(t) \cup {c}
          /\ c \notin Armed(t)
      BY <2>2 DEF Record, Armed
    <3>2. Cardinality(Armed(t)') = Cardinality(Armed(t)) + 1
      BY <3>1, <2>f, FS_AddElement
    <3>3. \A u \in Traces \ {t} : Armed(u)' = Armed(u)
      BY <2>2 DEF Record, Armed
    <3>4. /\ calls' = calls
          /\ t \in Traces
          /\ rows'[t] + lost'[t] = rows[t] + lost[t] + 1
          /\ \A u \in Traces \ {t} : rows'[u] = rows[u] /\ lost'[u] = lost[u]
      BY <2>2 DEF Record, RecordInv, TypeOK
    <3>5. \A u \in Traces : calls'[u] + Cardinality(Armed(u)') <= rows'[u] + lost'[u]
      BY <2>f, <3>2, <3>3, <3>4 DEF RecordInv, TypeOK
    <3>6. \A d \in armed' : on'[d] # {}
      BY <2>2 DEF Record, RecordInv, TypeOK
    <3>7. QED
      BY <3>5, <3>6 DEF RecordInv, Armed
  <2>3. ASSUME NEW c \in Clients, NEW t \in TracesOf[c], Call(c, t)
        PROVE  RecordInv'
    <3>1. /\ Armed(t)' = Armed(t) \ {c}
          /\ c \in Armed(t)
      BY <2>3 DEF Call, Armed
    <3>2. t \in Traces
      OBVIOUS
    <3>3. Cardinality(Armed(t)') = Cardinality(Armed(t)) - 1
      BY <3>1, <3>2, <2>f, FS_RemoveElement
    <3>4. \A u \in Traces \ {t} : Armed(u)' = Armed(u)
      BY <2>3 DEF Call, Armed
    <3>5. /\ rows' = rows /\ lost' = lost
          /\ calls'[t] = calls[t] + 1
          /\ \A u \in Traces \ {t} : calls'[u] = calls[u]
      BY <2>3, <3>2 DEF Call, RecordInv, TypeOK
    <3>6. \A u \in Traces : calls'[u] + Cardinality(Armed(u)') <= rows'[u] + lost'[u]
      BY <2>f, <3>2, <3>3, <3>4, <3>5 DEF RecordInv, TypeOK
    <3>7. \A d \in armed' : on'[d] # {}
      BY <2>3 DEF Call, RecordInv, TypeOK
    <3>8. QED
      BY <3>6, <3>7 DEF RecordInv, Armed
  <2>4. ASSUME NEW c \in Clients, Forgo(c) PROVE RecordInv'
    BY <2>4 DEF Forgo, RecordInv, Armed
  <2>5. ASSUME NEW c \in Clients, Withdraw(c) PROVE RecordInv'
    <3>1. \A u \in Traces : Armed(u)' \in SUBSET Armed(u)
      BY <2>5 DEF Withdraw, Armed, RecordInv, TypeOK
    <3>2. \A u \in Traces : Cardinality(Armed(u)') <= Cardinality(Armed(u))
      BY <3>1, <2>f, FS_Subset
    <3>3. \A u \in Traces : calls'[u] + Cardinality(Armed(u)') <= rows'[u] + lost'[u]
      BY <2>5, <2>f, <3>2 DEF Withdraw, RecordInv, TypeOK
    <3>4. \A d \in armed' : on'[d] # {}
      BY <2>5 DEF Withdraw, RecordInv, TypeOK
    <3>5. QED
      BY <3>3, <3>4 DEF RecordInv, Armed
  <2>6. CASE UNCHANGED vars
    BY <2>6 DEF vars, RecordInv, TypeOK, Armed
  <2>7. QED
    BY <2>1, <2>2, <2>3, <2>4, <2>5, <2>6 DEF Next
<1>3. RecordInv => CallsRecorded
  <2> SUFFICES ASSUME RecordInv, NEW t \in Traces
               PROVE  calls[t] <= rows[t] + lost[t]
    BY DEF CallsRecorded
  <2>1. Armed(t) \in SUBSET Clients
    BY DEF Armed, RecordInv, TypeOK
  <2>2. QED
    BY <2>1, ClientSets DEF RecordInv, TypeOK
<1>4. QED
  BY <1>1, <1>2, <1>3, AdmissionTypeOK, PTL DEF Spec

-----------------------------------------------------------------------------
(* OvershootBounded: a ticket is one call that an admission still covers.  *)

\* The premises of OvershootBounded for one trace, round and limit.
Shared(t, A, L) ==
  /\ Enforced /\ Sharers(t) # {}
  /\ \A c \in Sharers(t) : LimitOf[c] \in 1..L
  /\ \A n \in Rounds : n <= A

\* The tickets of the clients in S on trace t.
TicketsOf(S, t, A) == {p \in S \X (1..A) : on[p[1]] = {t} /\ p[2] <= left[p[1]]}

Tickets(t, A) == TicketsOf(Clients, t, A)

TicketInv(t, A, L) ==
  /\ TypeOK
  /\ \A c \in Clients : left[c] <= A
  /\ rows[t] + Cardinality(Tickets(t, A)) <= L + (Cardinality(Sharers(t)) - 1) * A

\* The tickets of some clients are finitely many, at most A for each of those
\* that may use the trace.
LEMMA TicketsFinite ==
  ASSUME TypeOK, NEW t \in Traces, NEW A \in Nat, NEW S \in SUBSET Clients
  PROVE  /\ IsFiniteSet(TicketsOf(S, t, A))
         /\ Cardinality(TicketsOf(S, t, A)) \in Nat
         /\ Cardinality(TicketsOf(S, t, A))
              <= Cardinality(S \cap Sharers(t)) * A
<1> DEFINE U == S \cap Sharers(t)
<1>1. TicketsOf(S, t, A) \in SUBSET (U \X (1..A))
  BY DEF TicketsOf, TypeOK, Sharers
<1>2. IsFiniteSet(U) /\ Cardinality(U) \in Nat
  BY ClientSets
<1>3. IsFiniteSet(1..A) /\ Cardinality(1..A) = A
  BY FS_Interval
<1>4. IsFiniteSet(U \X (1..A)) /\ Cardinality(U \X (1..A)) = Cardinality(U) * A
  BY <1>2, <1>3, FS_Product
<1>5. QED
  BY <1>1, <1>4, FS_Subset, FS_CardinalityType

\* A step that takes no record and gives nobody new tickets keeps TicketInv.
LEMMA TicketsShrink ==
  ASSUME NEW t \in Traces, NEW A \in Nat, NEW L \in Nat,
         TicketInv(t, A, L), TypeOK',
         \A c \in Clients : left'[c] <= left[c] /\ on'[c] \in {on[c], {}},
         rows' = rows
  PROVE  TicketInv(t, A, L)'
<1>1. Tickets(t, A)' \in SUBSET Tickets(t, A)
  <2>1. ASSUME NEW c \in Clients, NEW k \in 1..A, on'[c] = {t}, k <= left'[c]
        PROVE  on[c] = {t} /\ k <= left[c]
    <3>1. left[c] \in Nat /\ left'[c] \in Nat
      BY DEF TicketInv, TypeOK
    <3>2. {t} # {}
      OBVIOUS
    <3>3. QED
      BY <2>1, <3>1, <3>2
  <2>2. Tickets(t, A)' = {p \in Clients \X (1..A) : on'[p[1]] = {t} /\ p[2] <= left'[p[1]]}
    BY DEF Tickets, TicketsOf
  <2>3. QED
    BY <2>1, <2>2 DEF Tickets, TicketsOf
<1>2. IsFiniteSet(Tickets(t, A)) /\ Cardinality(Tickets(t, A)) \in Nat
  BY TicketsFinite DEF TicketInv, Tickets
<1>3. /\ Cardinality(Tickets(t, A)') <= Cardinality(Tickets(t, A))
      /\ Cardinality(Tickets(t, A)') \in Nat
  BY <1>1, <1>2, FS_Subset, FS_CardinalityType
<1>4. \A c \in Clients : left'[c] <= A
  BY DEF TicketInv, TypeOK
<1>5. Cardinality(Sharers(t)) \in Nat
  BY ClientSets DEF Sharers
<1>6. (Cardinality(Sharers(t)) - 1) * A \in Int
  BY <1>5
<1>7. rows'[t] + Cardinality(Tickets(t, A)') <= L + (Cardinality(Sharers(t)) - 1) * A
  BY <1>2, <1>3, <1>6 DEF TicketInv, TypeOK
<1>8. QED
  BY <1>4, <1>7 DEF TicketInv, Sharers

\* An admission that fits the limit keeps TicketInv: the clients other than
\* the admitted one hold at most A tickets each.
LEMMA AdmitTickets ==
  ASSUME NEW t \in Traces, NEW A \in Nat, NEW L \in Nat, Shared(t, A, L),
         TicketInv(t, A, L), TypeOK',
         NEW c \in Clients, NEW n \in Rounds, t \in TracesOf[c], Admit(c, t, n)
  PROVE  TicketInv(t, A, L)'
<1> USE AdmissionAssumption
<1> DEFINE Others == TicketsOf(Clients \ {c}, t, A)
<1> DEFINE Mine == {c} \X (1..n)
<1>1. c \in Sharers(t) /\ n \in Nat /\ n <= A
  BY DEF Sharers, Shared
<1>2. rows[t] + n <= L
  BY <1>1 DEF Admit, Shared, TicketInv, TypeOK
<1>3. /\ IsFiniteSet(Others) /\ Cardinality(Others) \in Nat
      /\ Cardinality(Others) <= (Cardinality(Sharers(t)) - 1) * A
  <2>1. (Clients \ {c}) \cap Sharers(t) = Sharers(t) \ {c}
    BY DEF Sharers
  <2>2. Cardinality(Sharers(t) \ {c}) = Cardinality(Sharers(t)) - 1
    BY SMTT(30), <1>1, ClientSets, FS_RemoveElement DEF Sharers
  <2>3. QED
    BY <2>1, <2>2, TicketsFinite DEF TicketInv
<1>4. IsFiniteSet(Mine) /\ Cardinality(Mine) = n
  <2>1. IsFiniteSet({c}) /\ Cardinality({c}) = 1
    BY FS_Singleton
  <2>2. IsFiniteSet(1..n) /\ Cardinality(1..n) = n
    BY <1>1, FS_Interval
  <2>3. /\ IsFiniteSet({c} \X (1..n))
        /\ Cardinality({c} \X (1..n)) = Cardinality({c}) * Cardinality(1..n)
    BY <2>1, <2>2, FS_Product
  <2>4. QED
    BY <1>1, <2>1, <2>2, <2>3
<1>5. Tickets(t, A)' \in SUBSET (Mine \cup Others)
  <2>1. ASSUME NEW d \in Clients, NEW k \in 1..A, on'[d] = {t}, k <= left'[d]
        PROVE  <<d, k>> \in Mine \cup Others
    <3>1. CASE d = c
      <4>1. left'[d] = n
        BY <3>1 DEF Admit, TicketInv, TypeOK
      <4>2. k \in 1..n
        BY <1>1, <2>1, <4>1
      <4>3. QED
        BY <3>1, <4>2
    <3>2. CASE d # c
      <4>1. on[d] = {t} /\ k <= left[d]
        BY <2>1, <3>2 DEF Admit, TicketInv, TypeOK
      <4>2. QED
        BY <3>2, <4>1 DEF TicketsOf
    <3>3. QED
      BY <3>1, <3>2
  <2>2. Tickets(t, A)' = {p \in Clients \X (1..A) : on'[p[1]] = {t} /\ p[2] <= left'[p[1]]}
    BY DEF Tickets, TicketsOf
  <2> HIDE DEF Mine, Others
  <2>3. QED
    BY <2>1, <2>2
<1> HIDE DEF Mine, Others
<1>6. /\ IsFiniteSet(Mine \cup Others)
      /\ Cardinality(Mine \cup Others) <= n + Cardinality(Others)
  <2>1. Cardinality(Mine \cap Others) \in Nat
    BY <1>4, FS_Intersection, FS_CardinalityType
  <2>2. /\ IsFiniteSet(Mine \cup Others)
        /\ Cardinality(Mine \cup Others)
             = Cardinality(Mine) + Cardinality(Others) - Cardinality(Mine \cap Others)
    BY <1>3, <1>4, FS_Union
  <2>3. QED
    BY <1>1, <1>3, <1>4, <2>1, <2>2
<1>7. /\ Cardinality(Tickets(t, A)') \in Nat
      /\ Cardinality(Tickets(t, A)') <= n + Cardinality(Others)
  BY <1>5, <1>6, <1>1, <1>3, FS_Subset, FS_CardinalityType
<1>8. rows' = rows /\ rows[t] \in Nat
  BY DEF Admit, TicketInv, TypeOK
<1>9. Cardinality(Sharers(t)) \in Nat
  BY ClientSets DEF Sharers
<1>10. rows'[t] + Cardinality(Tickets(t, A)') <= L + (Cardinality(Sharers(t)) - 1) * A
  BY <1>1, <1>2, <1>3, <1>7, <1>8, <1>9
<1>11. \A d \in Clients : left'[d] <= A
  BY <1>1 DEF Admit, TicketInv, TypeOK
<1>12. QED
  BY <1>10, <1>11 DEF TicketInv, Sharers

\* Recording a call uses up a ticket.
LEMMA RecordTickets ==
  ASSUME NEW t \in Traces, NEW A \in Nat, NEW L \in Nat,
         TicketInv(t, A, L), TypeOK',
         NEW c \in Clients, Record(c, t)
  PROVE  TicketInv(t, A, L)'
<1>1. IsFiniteSet(Tickets(t, A)) /\ Cardinality(Tickets(t, A)) \in Nat
  BY TicketsFinite DEF TicketInv, Tickets
<1>2. <<c, left[c]>> \in Tickets(t, A)
  BY DEF Record, Tickets, TicketsOf, TicketInv, TypeOK
<1>3. Tickets(t, A)' \in SUBSET (Tickets(t, A) \ {<<c, left[c]>>})
  <2>1. ASSUME NEW d \in Clients, NEW k \in 1..A, on'[d] = {t}, k <= left'[d]
        PROVE  on[d] = {t} /\ k <= left[d] /\ (d = c => k # left[c])
    BY <2>1 DEF Record, TicketInv, TypeOK
  <2>2. Tickets(t, A)' = {p \in Clients \X (1..A) : on'[p[1]] = {t} /\ p[2] <= left'[p[1]]}
    BY DEF Tickets, TicketsOf
  <2>3. QED
    BY <2>1, <2>2 DEF Tickets, TicketsOf
<1>4. /\ Cardinality(Tickets(t, A)') \in Nat
      /\ Cardinality(Tickets(t, A)') <= Cardinality(Tickets(t, A)) - 1
  BY <1>1, <1>2, <1>3, FS_RemoveElement, FS_Subset, FS_CardinalityType
<1>5. rows'[t] <= rows[t] + 1
  BY DEF Record, TicketInv, TypeOK
<1>6. Cardinality(Sharers(t)) \in Nat
  BY ClientSets DEF Sharers
<1>7. (Cardinality(Sharers(t)) - 1) * A \in Int
  BY <1>6
<1>8. rows'[t] + Cardinality(Tickets(t, A)') <= L + (Cardinality(Sharers(t)) - 1) * A
  BY <1>1, <1>4, <1>5, <1>7 DEF TicketInv, TypeOK
<1>9. \A d \in Clients : left'[d] <= A
  BY DEF Record, TicketInv, TypeOK
<1>10. QED
  BY <1>8, <1>9 DEF TicketInv, Sharers

\* Nobody holds a ticket at first.
LEMMA TicketsInit ==
  ASSUME NEW t \in Traces, NEW A \in Nat, NEW L \in Nat, Shared(t, A, L), Init
  PROVE  TicketInv(t, A, L)
<1> USE AdmissionAssumption
<1>s. Cardinality(Sharers(t)) \in Nat /\ Cardinality(Sharers(t)) >= 1
  <2>1. PICK c \in Clients : c \in Sharers(t)
    BY DEF Shared, Sharers
  <2>2. IsFiniteSet(Sharers(t)) /\ Cardinality(Sharers(t)) \in Nat
    BY ClientSets DEF Sharers
  <2>3. Cardinality(Sharers(t)) # 0
    BY <2>1, <2>2, FS_EmptySet
  <2>4. QED
    BY <2>2, <2>3
<1>1. TypeOK
  BY DEF Init, TypeOK
<1>2. Tickets(t, A) = {}
  BY DEF Init, Tickets, TicketsOf
<1>3. Cardinality(Tickets(t, A)) = 0
  BY <1>2, FS_EmptySet
<1>4. (Cardinality(Sharers(t)) - 1) * A >= 0
  <2>1. Cardinality(Sharers(t)) - 1 \in Nat
    BY <1>s
  <2>2. QED
    BY <2>1
<1>5. rows[t] + Cardinality(Tickets(t, A))
        <= L + (Cardinality(Sharers(t)) - 1) * A
  <2>1. (Cardinality(Sharers(t)) - 1) * A \in Int
    BY <1>s
  <2>2. QED
    BY <1>3, <1>4, <2>1 DEF Init
<1>6. \A c \in Clients : left[c] <= A
  BY DEF Init
<1>7. QED
  BY <1>1, <1>5, <1>6 DEF TicketInv

\* Every step keeps the tickets within the bound.
LEMMA TicketsStep ==
  ASSUME NEW t \in Traces, NEW A \in Nat, NEW L \in Nat, Shared(t, A, L),
         TicketInv(t, A, L), TypeOK', [Next]_vars
  PROVE  TicketInv(t, A, L)'
<1> USE AdmissionAssumption
<1>1. ASSUME NEW c \in Clients, NEW u \in TracesOf[c], NEW n \in Rounds,
             Admit(c, u, n)
      PROVE  TicketInv(t, A, L)'
  <2>1. CASE u = t
    BY <1>1, <2>1, AdmitTickets
  <2>2. CASE u # t
    <3>1. n <= A /\ A \in Nat
      BY DEF Shared
    <3>2. \A d \in Clients : left'[d] <= A
      BY <1>1, <3>1 DEF Admit, TicketInv, TypeOK
    <3>3. Tickets(t, A)' = Tickets(t, A)
      <4>1. ASSUME NEW d \in Clients, NEW k \in 1..A
            PROVE  (on'[d] = {t} /\ k <= left'[d]) <=> (on[d] = {t} /\ k <= left[d])
        BY ZenonT(30), <1>1, <2>2 DEF Admit, TicketInv, TypeOK
      <4>2. Tickets(t, A)' = {p \in Clients \X (1..A) :
                                on'[p[1]] = {t} /\ p[2] <= left'[p[1]]}
        BY DEF Tickets, TicketsOf
      <4>3. QED
        BY <4>1, <4>2 DEF Tickets, TicketsOf
    <3>4. QED
      BY <1>1, <3>2, <3>3 DEF Admit, TicketInv, Sharers
  <2>3. QED
    BY <2>1, <2>2
<1>2. ASSUME NEW c \in Clients, NEW u \in TracesOf[c], Record(c, u)
      PROVE  TicketInv(t, A, L)'
  <2>1. CASE u = t
    BY <1>2, <2>1, RecordTickets
  <2>2. CASE u # t
    <3>1. u \in Traces
      OBVIOUS
    <3>2. rows'[t] = rows[t]
      BY <1>2, <2>2, <3>1 DEF Record, TicketInv, TypeOK
    <3>3. Tickets(t, A)' = Tickets(t, A)
      <4>1. on[c] # {t} /\ on' = on /\ \A d \in Clients \ {c} : left'[d] = left[d]
        BY <1>2, <2>2 DEF Record, TicketInv, TypeOK
      <4>2. Tickets(t, A)' = {p \in Clients \X (1..A) :
                                on'[p[1]] = {t} /\ p[2] <= left'[p[1]]}
        BY DEF Tickets, TicketsOf
      <4>3. QED
        BY <4>1, <4>2 DEF Tickets, TicketsOf
    <3>4. \A d \in Clients : left'[d] <= A
      BY <1>2 DEF Record, TicketInv, TypeOK
    <3>5. QED
      BY <3>2, <3>3, <3>4 DEF TicketInv, Sharers
  <2>3. QED
    BY <2>1, <2>2
<1>3. ASSUME NEW c \in Clients, NEW u \in TracesOf[c], Call(c, u)
      PROVE  TicketInv(t, A, L)'
  <2>1. \A d \in Clients : left'[d] <= left[d] /\ on'[d] \in {on[d], {}}
    BY <1>3 DEF Call, TicketInv, TypeOK
  <2>2. rows' = rows
    BY <1>3 DEF Call
  <2>3. QED
    BY <2>1, <2>2, TicketsShrink
<1>4. ASSUME NEW c \in Clients, Forgo(c) PROVE TicketInv(t, A, L)'
  <2>1. \A d \in Clients : left'[d] <= left[d] /\ on'[d] \in {on[d], {}}
    BY <1>4 DEF Forgo, TicketInv, TypeOK
  <2>2. rows' = rows
    BY <1>4 DEF Forgo
  <2>3. QED
    BY <2>1, <2>2, TicketsShrink
<1>5. ASSUME NEW c \in Clients, Withdraw(c) PROVE TicketInv(t, A, L)'
  <2>1. \A d \in Clients : left'[d] <= left[d] /\ on'[d] \in {on[d], {}}
    BY <1>5 DEF Withdraw, TicketInv, TypeOK
  <2>2. rows' = rows
    BY <1>5 DEF Withdraw
  <2>3. QED
    BY <2>1, <2>2, TicketsShrink
<1>6. CASE UNCHANGED vars
  <2>1. \A d \in Clients : left'[d] <= left[d] /\ on'[d] \in {on[d], {}}
    BY <1>6 DEF vars, TicketInv, TypeOK
  <2>2. rows' = rows
    BY <1>6 DEF vars
  <2>3. QED
    BY <2>1, <2>2, TicketsShrink
<1>7. QED
  BY <1>1, <1>2, <1>3, <1>4, <1>5, <1>6 DEF Next

\* Clients that share a trace overshoot its limit by at most one reservation
\* of each other client, for every number of clients and every limit.
THEOREM AdmissionOvershootBounded == Spec => []OvershootBounded
<1> USE AdmissionAssumption
<1> DEFINE Limits == {LimitOf[c] : c \in Clients}
<1> DEFINE AllTickets == \A t \in Traces, A \in Rounds, L \in Limits :
                           Shared(t, A, L) => TicketInv(t, A, L)
<1>0. Rounds \subseteq Nat /\ Limits \subseteq Nat
  OBVIOUS
<1>1. Init => AllTickets
  BY <1>0, TicketsInit
<1>2. AllTickets /\ TypeOK' /\ [Next]_vars => AllTickets'
  <2> SUFFICES ASSUME AllTickets, TypeOK', [Next]_vars,
                      NEW t \in Traces, NEW A \in Rounds, NEW L \in Limits,
                      Shared(t, A, L)
               PROVE  TicketInv(t, A, L)'
    BY DEF Shared, Sharers
  <2>1. TicketInv(t, A, L) /\ A \in Nat /\ L \in Nat
    BY <1>0
  <2>2. QED
    BY <2>1, TicketsStep
<1>3. TypeOK /\ AllTickets /\ CallsRecorded => OvershootBounded
  <2> SUFFICES ASSUME TypeOK, AllTickets, CallsRecorded,
                      NEW t \in Traces, NEW A \in Rounds, NEW L \in Limits,
                      Shared(t, A, L)
               PROVE  calls[t] <= L + lost[t] + (Cardinality(Sharers(t)) - 1) * A
    BY DEF OvershootBounded, Shared
  <2>1. A \in Nat /\ L \in Nat
    BY <1>0
  <2>2. Cardinality(Tickets(t, A)) \in Nat
    BY <2>1, TicketsFinite DEF Tickets
  <2>3. (Cardinality(Sharers(t)) - 1) * A \in Int
    BY <2>1, ClientSets DEF Sharers
  <2>4. rows[t] + Cardinality(Tickets(t, A)) <= L + (Cardinality(Sharers(t)) - 1) * A
    BY DEF TicketInv
  <2>5. QED
    BY <2>1, <2>2, <2>3, <2>4 DEF CallsRecorded, TypeOK
<1>4. QED
  BY <1>1, <1>2, <1>3, AdmissionTypeOK, AdmissionCallsRecorded, PTL DEF Spec

-----------------------------------------------------------------------------
(* OwnTraceWithinLimit: what an only user still holds fits the limit.      *)

OwnsLimited(c, t) == Enforced /\ LimitOf[c] > 0 /\ Sharers(t) = {c}

Held(c, t) == IF on[c] = {t} THEN left[c] ELSE 0

OwnInv ==
  \A c \in Clients : \A t \in TracesOf[c] :
    OwnsLimited(c, t) => rows[t] + Held(c, t) <= LimitOf[c]

\* A trace that only one client may use never sees more calls than its limit,
\* lost records aside.
THEOREM AdmissionOwnTraceWithinLimit == Spec => []OwnTraceWithinLimit
<1> USE AdmissionAssumption
<1>1. Init => OwnInv
  BY DEF Init, OwnInv, OwnsLimited, Held
<1>2. TypeOK /\ OwnInv /\ [Next]_vars => OwnInv'
  <2> SUFFICES ASSUME TypeOK, OwnInv, [Next]_vars,
                      NEW c \in Clients, NEW t \in TracesOf[c], OwnsLimited(c, t)
               PROVE  rows'[t] + Held(c, t)' <= LimitOf[c]
    BY DEF OwnInv, OwnsLimited, Sharers
  <2>0. /\ t \in Traces /\ rows[t] + Held(c, t) <= LimitOf[c]
        /\ {t} # {} /\ rows[t] \in Nat /\ left[c] \in Nat /\ LimitOf[c] \in Nat
    BY DEF OwnInv, TypeOK
  <2>1. ASSUME NEW d \in Clients, NEW u \in TracesOf[d], NEW n \in Rounds,
               Admit(d, u, n)
        PROVE  rows'[t] + Held(c, t)' <= LimitOf[c]
    <3>1. CASE d = c
      BY <2>0, <2>1, <3>1 DEF Admit, Held, TypeOK, OwnsLimited
    <3>2. CASE d # c
      BY <2>0, <2>1, <3>2 DEF Admit, Held, TypeOK
    <3>3. QED
      BY <3>1, <3>2
  <2>2. ASSUME NEW d \in Clients, NEW u \in TracesOf[d], Record(d, u)
        PROVE  rows'[t] + Held(c, t)' <= LimitOf[c]
    <3>1. CASE d = c
      <4>1. u \in Traces
        OBVIOUS
      <4>2. CASE u = t
        BY <2>0, <2>2, <3>1, <4>2 DEF Record, Held, TypeOK
      <4>3. CASE u # t
        <5>1. on[c] = {u} /\ on' = on
          BY <2>2, <3>1 DEF Record
        <5>2. on[c] # {t}
          BY <4>3, <5>1
        <5>3. rows' = rows \/ rows' = [rows EXCEPT ![u] = @ + 1]
          BY <2>2 DEF Record
        <5>4. rows'[t] = rows[t]
          BY <2>0, <4>3, <5>3 DEF TypeOK
        <5>5. QED
          BY <2>0, <5>1, <5>2, <5>4 DEF Held
      <4>4. QED
        BY <4>2, <4>3
    <3>2. CASE d # c
      <4>1. u # t
        BY <2>2, <3>2 DEF OwnsLimited, Sharers
      <4>2. rows'[t] = rows[t] /\ left'[c] = left[c] /\ on' = on
        BY <2>0, <2>2, <3>2, <4>1 DEF Record, TypeOK
      <4>3. QED
        BY <2>0, <4>2 DEF Held
    <3>3. QED
      BY <3>1, <3>2
  <2>3. ASSUME NEW d \in Clients, NEW u \in TracesOf[d], Call(d, u)
        PROVE  rows'[t] + Held(c, t)' <= LimitOf[c]
    BY <2>0, <2>3 DEF Call, Held
  <2>4. ASSUME NEW d \in Clients, Forgo(d)
        PROVE  rows'[t] + Held(c, t)' <= LimitOf[c]
    BY <2>0, <2>4 DEF Forgo, Held, TypeOK
  <2>5. ASSUME NEW d \in Clients, Withdraw(d)
        PROVE  rows'[t] + Held(c, t)' <= LimitOf[c]
    BY <2>0, <2>5 DEF Withdraw, Held, TypeOK
  <2>6. CASE UNCHANGED vars
    BY <2>0, <2>6 DEF vars, Held
  <2>7. QED
    BY <2>1, <2>2, <2>3, <2>4, <2>5, <2>6 DEF Next
<1>3. TypeOK /\ OwnInv /\ CallsRecorded => OwnTraceWithinLimit
  <2> SUFFICES ASSUME TypeOK, OwnInv, CallsRecorded,
                      NEW c \in Clients, NEW t \in TracesOf[c], OwnsLimited(c, t)
               PROVE  calls[t] <= LimitOf[c] + lost[t]
    BY DEF OwnTraceWithinLimit, OwnsLimited
  <2>1. /\ rows[t] + Held(c, t) <= LimitOf[c] /\ Held(c, t) \in Nat
        /\ t \in Traces /\ calls[t] <= rows[t] + lost[t]
    BY DEF OwnInv, Held, CallsRecorded, TypeOK
  <2>2. QED
    BY <2>1 DEF TypeOK
<1>4. QED
  BY <1>1, <1>2, <1>3, AdmissionTypeOK, AdmissionCallsRecorded, PTL DEF Spec
=============================================================================
