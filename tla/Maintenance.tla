----------------------------- MODULE Maintenance -----------------------------
(***************************************************************************)
(* Preventive maintenance as a whole: the scheduler, the telemetry service  *)
(* and the meter endpoints on one database.  They share no lock and no      *)
(* transaction; what holds between them is stated here.                     *)
(***************************************************************************)
EXTENDS PMScheduler, Telemetry

CONSTANT
    MaxInFlight \* bound: runs and calls under way at once

ASSUME BoundsAssumption ==
    /\ MaxInFlight \in Nat \ {0}
    /\ NoEntry \notin Readings
    /\ Rules # {}
    /\ Batches \subseteq [readings : Seq(Readings) \ {<<>>}, meters : BOOLEAN]

vars == <<data, scheduler, telemetry>>

Init == DataInit /\ SchedulerInit /\ TelemetryInit

InFlight ==
    Cardinality({w \in Runners : run[w].on})
        + Cardinality({c \in Deliveries : ingest[c].step \notin {"idle", "done"}})
        + Cardinality({entry} \ {NoEntry})

Next ==
    /\ \/ SchedulerNext /\ UNCHANGED telemetry
       \/ TelemetryNext /\ UNCHANGED scheduler
    /\ InFlight' <= MaxInFlight

Spec == Init /\ [][Next]_vars

----------------------------------------------------------------------------

TypeOK ==
    /\ clock \in 0 .. MaxClock
    /\ task \in [TaskSet -> [generated : BOOLEAN,
                             nextDue : Seq(Dates \cup {Never})]]
    /\ meter \in [current : Nat, base : Nat]
    /\ {latest, sensed} \subseteq Readings \cup {0}
    /\ orders \subseteq OrderType
    /\ run \in [Runners -> RunType]
    /\ ingest \in [Deliveries -> IngestType]
    /\ entry \in Readings \cup {NoEntry}

\* A date that a run has generated and recorded is never generated by a run that
\* starts later: whatever runs overlap, fail or die, the saves of stale copies
\* do not bring the date back, as long as no run outlasts the next date.
RecordedDateIsFinal ==
    \A w \in Runners : IsDue(w) =>
        <<Current(w), run[w].slot, run[w].copy[Current(w)][run[w].slot]>> \notin run[w].settled

\* The marks that stop a work order from being generated again, the baseline of
\* the meter and the task's lastGeneratedAt, are never there without one: the
\* work order comes first in every path, and whichever of the scheduler, the
\* endpoint and the ingestion dies in between, no service is lost.
MarksHaveOrders ==
    /\ meter.base # 0 => \E o \in orders : o.val = meter.base
    /\ \A t \in TaskSet : task[t].generated => \E o \in orders : o.trigger[1] = t

\* While a rule has an open work order no reading adds a second one: not a later
\* reading of the batch that created it, not a call that began after it was made.
OpenOrderHoldsReadings ==
    \A c \in Deliveries : ingest[c].step = "create" => ingest[c].rule \notin ingest[c].open

\* No date of a time assignment stays behind: whatever fails or dies between the work order and the
\* save, a date that has come is generated, and the next one set, by the end of
\* the half day.
DatesKeepUp ==
    \A t \in TaskSet : \A i \in Slots(t) :
        Timed(t, i) /\ task[t].nextDue[i] # Never => task[t].nextDue[i] >= clock

\* The scan over the days of nextCronOccurrenceWithin finds the first date of the
\* expression after now, later today and a week from today included.  This is the
\* scan alone, on a weekday and an hour that are one number or "*": parseInt makes
\* the first number of a list, a range or a step and nothing of the rest.
CronFindsNext ==
    \A w \in Runners :
        (AtRule(w) /\ Rule(w).rule = "calendar") =>
            NextCronOccurrenceWithin(Rule(w).cron, run[w].now, 7) =
                Min({d \in Dates : d > run[w].now /\ Matches(Rule(w).cron, d)
                                    /\ HourOfDay(d) = Rule(w).cron.hour})
=============================================================================
