----------------------------- MODULE MCEvalRuns -----------------------------
(***************************************************************************)
(* Small instances of EvalRuns for TLC.                                    *)
(***************************************************************************)
EXTENDS EvalRuns, TLC

CONSTANTS r1, r2, j1, j2, v1, v2

Plain    == [mock |-> FALSE, fallback |-> FALSE, active |-> TRUE]
Mock     == [mock |-> TRUE,  fallback |-> FALSE, active |-> TRUE]
Fallback == [mock |-> FALSE, fallback |-> TRUE,  active |-> TRUE]
Blocked  == [mock |-> FALSE, fallback |-> TRUE,  active |-> FALSE]
AllDefs  == {Plain, Mock, Fallback, Blocked}

\* Two metrics of different weight.
TwoMetrics == <<2, 1>>
\* Two runs and one tick of the clock; one run while models change, a span is
\* lost and the process may die; one run to which a case is added; four cases
\* more, from two jobs and by hand.
Scenario(defs, starts, added, seconds, syncs, lost, crashes) ==
  [defs |-> defs, starts |-> starts, cases |-> added, seconds |-> seconds,
   syncs |-> syncs, lost |-> lost, crashes |-> crashes]
FourScenarios == {Scenario({Plain, Mock}, 2, 0, 1, 0, 0, 0),
                  Scenario(AllDefs, 1, 0, 0, 1, 1, 1),
                  Scenario(AllDefs, 1, 1, 0, 0, 0, 0),
                  Scenario({Plain}, 0, 4, 0, 0, 0, 0)}
\* Processes of one kind are alike, and so are versions: nothing here depends
\* on their order.
Symmetry == {a @@ b @@ c : a \in Permutations(Runners), b \in Permutations(Jobs),
                           c \in Permutations(Versions)}
=============================================================================
