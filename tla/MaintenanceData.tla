--------------------------- MODULE MaintenanceData ---------------------------
(***************************************************************************)
(* What preventive maintenance keeps in the database: the PMTask documents, *)
(* one meter with its readings, and the work orders generated from them,    *)
(* with the calculations the scheduler and the telemetry service share.     *)
(*                                                                          *)
(* Time goes in half days: a cron expression can name an hour of the day,   *)
(* and a run that is started in one half day may end in the next.           *)
(***************************************************************************)
EXTENDS Naturals, Sequences, FiniteSets, SequencesExt

CONSTANTS
    Tasks,      \* the active PMTask documents, in the order a query returns them
    Plan,       \* for each task its rule, cron, threshold and assignments
    Rules,      \* the active ConditionRules of the metric
    Limit,      \* what a reading must exceed for a ConditionRule to match
    Value,      \* the readings of the meter in the order they are taken
    Never,      \* a date that is not set
    Runners,    \* runs that can be under way at once, of the job and of the endpoint
    Deliveries, \* the calls of ingestTelemetryBatch
    MaxClock,   \* bound: the last half day
    MaxInterval,\* bound: the longest interval of an assignment
    MaxFaults   \* bound: calls that throw and processes that die

TaskSet == Range(Tasks)
Slots(t) == DOMAIN Plan[t].assignments
Readings == DOMAIN Value
Dates == 0 .. MaxClock + 16 + MaxInterval

\* A schedule of a task, as far as the code reads it: an interval is a number of
\* whole days, 0 when there is none; a cron expression names an hour and perhaps a
\* weekday.  It stands for what parseInt makes of the text: of a list, a range or a
\* step the code reads the first number, or nothing that any day matches.
AssignmentType ==
    [trigger : {"time", "meter"}, every : {d \in 0 .. MaxInterval : d % 2 = 0},
     first : 0 .. MaxClock \cup {Never}, threshold : Nat]
CronType == [weekday : 0 .. 6 \cup {Never}, hour : 0 .. 1]
PlanType ==
    [rule : {"calendar", "meter"}, cron : CronType, threshold : Nat,
     assignments : Seq(AssignmentType)]

\* The assignments a run follows by their date.
Timed(t, i) == Plan[t].assignments[i].trigger = "time" /\ Plan[t].assignments[i].every > 0

\* A trigger of a work order: a task's rule (slot 0), one of its assignments, or
\* a ConditionRule.
Triggers ==
    {<<t, 0>> : t \in TaskSet} \cup {<<r, 0>> : r \in Rules}
        \cup UNION {{t} \X Slots(t) : t \in TaskSet}

ASSUME DataAssumption ==
    /\ MaxClock \in Nat
    /\ MaxInterval \in Nat
    /\ Limit \in Nat
    /\ Value \in Seq(Nat \ {0})
    /\ Never \notin Nat
    /\ MaxFaults \in Nat
    /\ TaskSet \cap Rules = {}
    /\ Tasks \in Seq(TaskSet)
    /\ Plan \in [TaskSet -> PlanType]

VARIABLES
    clock,      \* the current half day
    task,       \* the PMTask documents; "generated" says that lastGeneratedAt is set
    meter,      \* the Meter document: currentValue and lastWOValue
    latest,     \* the newest MeterReading by its timestamp, 0 when there is none
    sensed,     \* the newest SensorReading by its timestamp, 0 when there is none
    orders,     \* the work orders that were generated; those of rules while they are open
    faults      \* the calls that have thrown and the processes that have died

data == <<clock, task, meter, latest, sensed, orders, faults>>

DataInit ==
    /\ clock = 0
    /\ task = [t \in TaskSet |->
                 [generated |-> FALSE, nextDue |-> [i \in Slots(t) |-> Plan[t].assignments[i].first]]]
    /\ meter = [current |-> 0, base |-> 0]
    /\ latest = 0
    /\ sensed = 0
    /\ orders = {}
    /\ faults = 0

MaxDate(a, b) == IF a > b THEN a ELSE b

----------------------------------------------------------------------------
\* Dates.

Day(d) == d \div 2
HourOfDay(d) == d % 2

\* Mutant: an interval in days is taken for one in weeks.
InWeeks(now, interval) == now + 14 * interval

\* calcNextDue: the interval is counted from now, not from the date that was due.
CalcNextDue(now, interval) == now + interval

\* One iteration of nextCronOccurrenceWithin: the given day at the hour of the
\* expression.
Candidate(cron, from, i) == 2 * (Day(from) + i) + cron.hour

Matches(cron, d) == cron.weekday = Never \/ Day(d) % 7 = cron.weekday

\* Mutant: the last day of the window is left out.
OccurrencesBefore(cron, from, days) ==
    {Candidate(cron, from, i) : i \in {j \in 0 .. days - 1 :
        Matches(cron, Candidate(cron, from, j)) /\ Candidate(cron, from, j) > from}}

\* The iterations that can return, and what they return.
Occurrences(cron, from, days) ==
    {Candidate(cron, from, i) : i \in {j \in 0 .. days :
        Matches(cron, Candidate(cron, from, j)) /\ Candidate(cron, from, j) > from}}

\* nextCronOccurrenceWithin: the first of them, or null.
NextCronOccurrenceWithin(cron, from, days) ==
    IF Occurrences(cron, from, days) = {} THEN Never
    ELSE Min(Occurrences(cron, from, days))

----------------------------------------------------------------------------
\* Work orders.

\* "due" is set for a date that was planned ahead, not for the present day;
\* "val" is the reading at which the work order was generated for a meter.  Work
\* orders alike are one element: no property counts them.
OrderType ==
    [trigger : Triggers, due : Dates \cup {Never}, val : Nat]

NewOrder(trigger, due, val) == [trigger |-> trigger, due |-> due, val |-> val]

\* The query for a work order of this title that is requested, assigned or in
\* progress.
HasOpenOrder(trigger) == \E o \in orders : o.trigger = trigger

\* sinceLast >= threshold, on a copy of the meter.
Reached(value, base, threshold) == value >= base + threshold
=============================================================================
