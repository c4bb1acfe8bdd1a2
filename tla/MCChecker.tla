------------------------------ MODULE MCChecker ------------------------------
(* Small configurations of the checker: two tasks, one with points given to  *)
(* one of its tests; valgrind asked for by the task or by a test; fields left*)
(* out; and one whose distribution gives away more than the task has.        *)
EXTENDS Checker, TLC

Given(points, count, dist, valgrind, some) ==
    [points |-> points * One, tests |-> count,
     points_distribution |-> [n \in DOMAIN dist |-> dist[n] * One],
     valgrind |-> valgrind, tests_valgrind |-> some]

Two == <<Given(60, 2, (1 :> 20), TRUE, {}), Given(20, 1, <<>>, FALSE, {})>>
Some == <<Given(100, 3, (3 :> 40), FALSE, {2})>>
Over100 == <<Given(10, 2, (2 :> 10), FALSE, {})>>

Full == [coding_style |-> 10 * One, penalty_warnings |-> 5 * One,
         penalty_readme |-> 10 * One]

MCRawConfigs ==
    {[fields |-> Full, tasks |-> Two],
     [fields |-> [coding_style |-> 10 * One, penalty_readme |-> 10 * One],
      tasks |-> Some],
     [fields |-> [penalty_readme |-> 0], tasks |-> Some],
     [fields |-> [coding_style |-> 10 * One], tasks |-> Two],
     [fields |-> Full, tasks |-> Over100]}

\* The configurations meet the hypothesis of VmrListsDeductions.
ASSUME PointsAssumption == PointsAddUp
=============================================================================
