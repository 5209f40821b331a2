------------------------------ MODULE MCUpkeep ------------------------------
(***************************************************************************)
(* Small instances of Upkeep for TLC.                                      *)
(***************************************************************************)
EXTENDS Upkeep, TLC

CONSTANTS p1, p2, s1, s2, s3

MigratedColumns == {"mode", "trace_id", "models", "spans", "costs"}
MigratedOrder   == <<"mode", "trace_id", "models", "spans", "costs">>
MigratedTables  == {"eval_runs", "model_versions", "spans", "cost_daily"}
MigratedTableOf == [mode |-> "eval_runs", trace_id |-> "eval_runs",
                    models |-> "model_versions", spans |-> "spans", costs |-> "cost_daily"]

Empty  == [tables |-> {}, has |-> {}]
Phase1 == [tables |-> MigratedTables, has |-> {}]
Phase2 == [tables |-> MigratedTables, has |-> {"mode", "trace_id"}]
Latest == [tables |-> MigratedTables, has |-> MigratedColumns]
AllReleases == {Empty, Phase1, Phase2, Latest}

Scenario(release, old, paid, flat, opens, calls, retentions, refreshes, syncs, faults,
         crashes) ==
  [release |-> release, old |-> old, paid |-> paid, flat |-> flat, opens |-> opens,
   calls |-> calls, retentions |-> retentions, refreshes |-> refreshes,
   owners |-> Min({refreshes, 1}), syncs |-> syncs, faults |-> faults, crashes |-> crashes]

\* Migrations that overlap and die, then a call; days that the backfill takes out
\* of the budget; retention that overlaps, over calls and parents, or dies; a call
\* while the model is redefined; refreshes that overlap, or that retention comes
\* between; calls whose writes fail.
TenScenarios == {Scenario(Empty,  {},       FALSE, TRUE,  3, 1, 0, 0, 0, 0, 1),
                 Scenario(Phase1, {s1},     FALSE, TRUE,  2, 1, 0, 0, 0, 0, 1),
                 Scenario(Phase2, {s1},     FALSE, TRUE,  4, 0, 0, 0, 0, 0, 2),
                 Scenario(Phase2, {s1},     TRUE,  TRUE,  2, 1, 0, 0, 0, 0, 0),
                 Scenario(Latest, {s1},     FALSE, TRUE,  2, 1, 2, 0, 0, 0, 0),
                 Scenario(Latest, {s2, s3}, FALSE, TRUE,  2, 0, 2, 0, 0, 0, 1),
                 Scenario(Latest, {s1},     FALSE, TRUE,  2, 1, 0, 0, 2, 0, 0),
                 Scenario(Latest, {s1},     FALSE, TRUE,  2, 1, 0, 2, 0, 0, 0),
                 Scenario(Latest, {s1},     FALSE, TRUE,  1, 1, 1, 2, 0, 0, 0),
                 Scenario(Latest, {},       TRUE,  FALSE, 1, 2, 1, 0, 0, 1, 0)}
Symmetry == Permutations(Processes) \cup Permutations({s2, s3})
=============================================================================
