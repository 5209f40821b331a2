---------------------------- MODULE MCSdkTraces ----------------------------
(***************************************************************************)
(* Small instances of SdkTraces for TLC.                                   *)
(***************************************************************************)
EXTENDS SdkTraces, TLC

CONSTANTS p1, p2, a1

OnlyFirst == [p \in Processes |-> p = p1]

Scenario(keys, launches, calls, finishes, seconds) ==
  [keys |-> keys, launches |-> launches, calls |-> calls, finishes |-> finishes,
   seconds |-> seconds, withs |-> 0, opsCalls |-> 0, faults |-> 0, crashes |-> 0]

\* Overlapping calls for one article, over a restart and a closing; more calls,
\* up to the limit; calls with and without an article, under faults and deaths;
\* `with` blocks and calls inside and outside of them, under the same; a block
\* for the article before, between or around calls for it, over a restart, and
\* with a call inside that no article is named for.
SixScenarios == {Scenario({a1}, 3, 2, 1, 1),
                 Scenario({a1}, 2, 3, 0, 0),
                 [Scenario(Keys, 2, 2, 1, 0) EXCEPT !.faults = 1, !.crashes = 1],
                 [Scenario({}, 1, 0, 0, 0) EXCEPT !.withs = 2, !.opsCalls = 2,
                                                 !.faults = 1, !.crashes = 1],
                 [Scenario({a1}, 2, 2, 0, 1) EXCEPT !.withs = 1],
                 [Scenario({a1}, 1, 2, 0, 0) EXCEPT !.withs = 1, !.opsCalls = 1]}
=============================================================================
