----------------------------- MODULE MCGateway -----------------------------
(***************************************************************************)
(* Small instances of Gateway for TLC.                                     *)
(***************************************************************************)
EXTENDS Gateway, TLC

CONSTANTS c1, c2, t1, t2, sA, sB, main, alt, spare

\* Two clients of one system under one shared trace.
OneSharedTrace   == (c1 :> {t1}) @@ (c2 :> {t1})
\* One client with two traces of its own.
OwnTraces        == c1 :> {t1, t2}
OneTrace         == c1 :> {t1}
\* Two clients, each with its trace.
SeparateTraces   == (c1 :> {t1}) @@ (c2 :> {t2})
SameSystem       == [c \in Clients |-> sA]
TwoSystems       == (c1 :> sA) @@ (c2 :> sB)

\* main falls back to alt and alt back to main: a configured cycle.
FallbackCycle    == (main :> alt) @@ (alt :> main)
\* A subscription model that falls back to one that is charged.
FallbackToMain   == (main :> NoModel) @@ (alt :> main)
FallbackChain    == (main :> alt) @@ (alt :> spare) @@ (spare :> NoModel)
NoFallback       == [m \in Models |-> NoModel]
AllBillable      == [m \in Models |-> TRUE]
NoneBillable     == [m \in Models |-> FALSE]
\* alt is a subscription model.
AltSubscription  == [m \in Models |-> m = main]
AllPriced        == [m \in Models |-> TRUE]
UnitEstimate     == [m \in Models |-> 1]
LimitTwo         == [s \in Systems |-> 2]
LimitThree       == [s \in Systems |-> 3]
NoLimit          == [s \in Systems |-> 0]
NoBudgets        == [s \in Scopes |-> NoBudget]
GlobalTwo        == [s \in Scopes |-> IF s = "global" THEN 2 ELSE NoBudget]
\* One budget for all, and one for each system; that of sB only warns.
AllAndEach       == [s \in Scopes |-> IF s = "global" THEN 3 ELSE 2]
AllHard          == [s \in Scopes |-> TRUE]
SoftB            == [s \in Scopes |-> s # sB]
=============================================================================
