---------------------------- MODULE MCMaintenance ----------------------------
(***************************************************************************)
(* Two tasks on one meter: T1 has a time assignment, every day from the    *)
(* first half day on, and a meter assignment; T2 has only its rule, which   *)
(* names the meter.  For the endpoint, which looks at rules, T1 is a task   *)
(* with a cron expression.  Two readings, 2 and 4, so that the second       *)
(* reaches both thresholds; one ConditionRule that each of them matches;    *)
(* one call of the ingestion beside two runs; two of all of these under way *)
(* at once (MaxInFlight), one of them may fail (MaxFaults), over three half *)
(* days (MaxClock), so that the next date of T1 comes.                      *)
(***************************************************************************)
EXTENDS Maintenance, TLC

WeekdayCron == [weekday |-> 1, hour |-> 0]
MCTasks == <<"T1", "T2">>
MCPlan ==
    [T1 |-> [rule |-> "calendar", cron |-> WeekdayCron, threshold |-> 0,
             assignments |-> <<[trigger |-> "time", every |-> 2, first |-> 0, threshold |-> 0],
                               [trigger |-> "meter", every |-> 0, first |-> Never, threshold |-> 4]>>],
     T2 |-> [rule |-> "meter", cron |-> WeekdayCron, threshold |-> 4, assignments |-> <<>>]]
MCValue == <<2, 4>>
MCBatches == {[readings |-> <<1, 2>>, meters |-> FALSE], [readings |-> <<1>>, meters |-> TRUE]}
Symmetry == Permutations(Runners)
=============================================================================
