------------------------------ MODULE Telemetry ------------------------------
(***************************************************************************)
(* ingestTelemetryBatch of backend/services/iotIngestionService.ts, called  *)
(* over HTTP and MQTT, and the meter endpoints of                           *)
(* backend/controllers/MeterController.ts.                                  *)
(*                                                                          *)
(* A call stores its readings, looks for each of them through the           *)
(* ConditionRules, and, where the endpoint asks for it, moves the meter and *)
(* generates the work orders of the tasks that name it.  Calls run side by  *)
(* side, readings come late, twice and in any order, and a call that fails  *)
(* leaves behind what it has written.                                       *)
(***************************************************************************)
EXTENDS MaintenanceData, FiniteSetsExt

CONSTANTS
    Batches,    \* what a call may carry: its readings, and whether the endpoint moves meters
    NoEntry     \* no reading is being entered by hand

VARIABLES
    ingest,     \* the calls of ingestTelemetryBatch
    entry       \* the reading that addMeterReading is about to put on the meter

telemetry == <<ingest, entry>>

\* "pos" is the reading the loop is at, "copy" the meter as the call read it;
\* "open" are the rules that have had an open work order ever since the call
\* began or created one.
IngestType ==
    [step : {"idle", "rules", "create", "meter", "current", "fire", "task", "base", "done"},
     batch : Seq(Readings), meters : BOOLEAN, pos : Nat, left : SUBSET Rules,
     rule : Rules \cup {Never},
     copy : [current : Nat, base : Nat], task : TaskSet \cup {Never}, open : SUBSET Rules]

NoMeter == [current |-> 0, base |-> 0]

TelemetryInit ==
    /\ ingest = [c \in Deliveries |->
                   [step |-> "idle", batch |-> <<>>, meters |-> FALSE, pos |-> 1, left |-> {},
                    rule |-> Never, copy |-> NoMeter, task |-> Never, open |-> {}]]
    /\ entry = NoEntry

Put(c, i) == ingest' = [ingest EXCEPT ![c] = i]
AddOrder(o) == orders' = orders \cup {o}
OpenRules == {r \in Rules : HasOpenOrder(<<r, 0>>)}

\* latestByMeter: the newest reading of the batch by its timestamp.
Newest(b) == Max(Range(b))
AtMeter(c) == Value[Newest(ingest[c].batch)]

\* A call that is over keeps nothing.
Over(i) == [i EXCEPT !.step = "done", !.batch = <<>>, !.left = {}, !.task = Never, !.open = {},
                     !.copy = NoMeter, !.pos = 1, !.rule = Never, !.meters = FALSE]

\* insertMany: the readings are stored, and the loop over them begins.
Receive(c, b) ==
    /\ ingest[c].step = "idle"
    /\ sensed' = MaxDate(sensed, Newest(b.readings))
    /\ Put(c, [ingest[c] EXCEPT !.step = "rules", !.batch = b.readings, !.meters = b.meters,
                               !.left = Rules, !.open = OpenRules])
    /\ UNCHANGED <<clock, task, meter, latest, orders, faults, entry>>

\* The loop after one rule of one reading; after the last reading the meter
\* follows, if the endpoint asks for it.
After(i, r) ==
    IF i.left # {r} THEN [i EXCEPT !.step = "rules", !.rule = Never, !.left = @ \ {r}]
    ELSE IF i.pos < Len(i.batch)
    THEN [i EXCEPT !.step = "rules", !.rule = Never, !.left = Rules, !.pos = @ + 1]
    ELSE IF i.meters THEN [i EXCEPT !.step = "meter", !.rule = Never, !.left = {}] ELSE Over(i)

\* Mutant: the query for an open work order finds none.
MatchesAnyway(c, r) == Value[ingest[c].batch[ingest[c].pos]] > Limit

\* matchesRule, and the query of createWorkOrderFromRule: there is no open work
\* order of this title.
NeedsOrder(c, r) ==
    /\ Value[ingest[c].batch[ingest[c].pos]] > Limit
    /\ ~HasOpenOrder(<<r, 0>>)

LookUp(c, r) ==
    /\ ingest[c].step = "rules" /\ r \in ingest[c].left
    /\ Put(c, IF NeedsOrder(c, r) THEN [ingest[c] EXCEPT !.step = "create", !.rule = r]
              ELSE After(ingest[c], r))
    /\ UNCHANGED <<data, entry>>

\* WorkOrder.create, on what the query found.
CreateFromRule(c) ==
    /\ ingest[c].step = "create"
    /\ AddOrder(NewOrder(<<ingest[c].rule, 0>>, Never, 0))
    /\ Put(c, After([ingest[c] EXCEPT !.open = @ \cup {ingest[c].rule}], ingest[c].rule))
    /\ UNCHANGED <<clock, task, meter, latest, sensed, faults, entry>>

\* Meter.findOne and MeterReading.create: the call has a copy of the meter.
ReadMeter(c) ==
    /\ ingest[c].step = "meter"
    /\ latest' = MaxDate(latest, Newest(ingest[c].batch))
    /\ Put(c, [ingest[c] EXCEPT !.step = "current", !.copy = meter])
    /\ UNCHANGED <<clock, task, meter, sensed, orders, faults, entry>>

\* The tasks triggerMeterPmFromMeter fires for: they name the meter, and their
\* interval has been run through.
Fires(t, value, base) ==
    /\ Plan[t].rule = "meter" /\ Plan[t].threshold > 0
    /\ Reached(value, base, Plan[t].threshold)

\* meter.save: the value of the call's reading, late or not, unless the copy has
\* it already.  Of the tasks that are loaded next only the first can fire: it
\* moves the baseline in the copy of the meter up to the value.
MoveMeter(c) ==
    /\ ingest[c].step = "current"
    /\ meter' = IF ingest[c].copy.current = AtMeter(c) THEN meter
                ELSE [meter EXCEPT !.current = AtMeter(c)]
    /\ LET firing == {p \in DOMAIN Tasks : Fires(Tasks[p], AtMeter(c), ingest[c].copy.base)} IN
       Put(c, IF firing = {} THEN Over(ingest[c])
              ELSE [ingest[c] EXCEPT !.step = "fire", !.task = Tasks[Min(firing)]])
    /\ UNCHANGED <<clock, task, latest, sensed, orders, faults, entry>>

\* WorkOrder.create.
FireTask(c) ==
    /\ ingest[c].step = "fire"
    /\ AddOrder(NewOrder(<<ingest[c].task, 0>>, Never, AtMeter(c)))
    /\ Put(c, [ingest[c] EXCEPT !.step = "task"])
    /\ UNCHANGED <<clock, task, meter, latest, sensed, faults, entry>>

\* task.save.
SaveFiredTask(c) ==
    /\ ingest[c].step = "task"
    /\ task' = [task EXCEPT ![ingest[c].task].generated = TRUE]
    /\ Put(c, [ingest[c] EXCEPT !.step = "base"])
    /\ UNCHANGED <<clock, meter, latest, sensed, orders, faults, entry>>

\* The last save of the meter.
SaveBaseline(c) ==
    /\ ingest[c].step = "base"
    /\ meter' = [meter EXCEPT !.base = AtMeter(c)]
    /\ Put(c, Over(ingest[c]))
    /\ UNCHANGED <<clock, task, latest, sensed, orders, faults, entry>>

\* A database call throws or the process dies: nothing is taken back.
Abort(c) ==
    /\ ingest[c].step \notin {"idle", "done"}
    /\ faults < MaxFaults /\ clock < MaxClock
    /\ faults' = faults + 1
    /\ Put(c, Over(ingest[c]))
    /\ UNCHANGED <<clock, task, meter, latest, sensed, orders, entry>>

\* addMeterReading: the reading is stored with the present time, and put on the
\* meter by the save that follows.
EnterReading(k) ==
    /\ entry = NoEntry
    /\ k > latest /\ k > sensed
    /\ latest' = k
    /\ entry' = k
    /\ UNCHANGED <<clock, task, meter, sensed, orders, faults, ingest>>

SaveEntry ==
    /\ entry # NoEntry
    /\ meter' = [meter EXCEPT !.current = Value[entry]]
    /\ entry' = NoEntry
    /\ UNCHANGED <<clock, task, latest, sensed, orders, faults, ingest>>

\* The open work orders of a rule are completed or cancelled: no query of this
\* component finds them from here on.
CloseOrders(r) ==
    /\ HasOpenOrder(<<r, 0>>)
    /\ orders' = {o \in orders : o.trigger # <<r, 0>>}
    /\ ingest' = [c \in Deliveries |-> [ingest[c] EXCEPT !.open = @ \ {r}]]
    /\ UNCHANGED <<clock, task, meter, latest, sensed, faults, entry>>

IngestStep(c) ==
    \/ \E r \in Rules : LookUp(c, r)
    \/ CreateFromRule(c) \/ ReadMeter(c) \/ MoveMeter(c)
    \/ FireTask(c) \/ SaveFiredTask(c) \/ SaveBaseline(c)

TelemetryNext ==
    \/ \E c \in Deliveries :
         \/ \E b \in Batches : Receive(c, b)
         \/ IngestStep(c)
         \/ Abort(c)
    \/ \E k \in Readings : EnterReading(k)
    \/ SaveEntry
    \/ \E r \in Rules : CloseOrders(r)
=============================================================================
