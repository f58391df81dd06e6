----------------------------- MODULE PMScheduler -----------------------------
(***************************************************************************)
(* runPMScheduler of backend/services/PMScheduler.ts, started by node-cron  *)
(* on every pod and again while an earlier run goes on, and                 *)
(* generatePMWorkOrders of backend/controllers/PMTaskController.ts, which   *)
(* does by hand what a run does for tasks without assignments.              *)
(*                                                                          *)
(* A run loads the active tasks once and works on these copies.  For an     *)
(* assignment it creates the work order first, and saves the next due dates *)
(* of the task after its last assignment: a run that dies or fails between  *)
(* the two leaves the date as it was, and a second run that loaded the task *)
(* before the save has the old date too.                                    *)
(***************************************************************************)
EXTENDS MaintenanceData

VARIABLES
    run,        \* the run of each pod and of each caller
    ran,        \* a run of the job has gone through in this half day
    settled     \* <<task, slot, date>> generated and recorded in the task

scheduler == <<run, ran, settled>>

RunType ==
    [on : BOOLEAN, byHand : BOOLEAN, clean : BOOLEAN, now : Nat \cup {Never},
     todo : SUBSET (DOMAIN Tasks), copy : [TaskSet -> Seq(Dates \cup {Never})],
     dirty : [TaskSet -> SUBSET Nat], made : SUBSET (Nat \X (Dates \cup {Never})), slot : Nat, step : {"task", "meter", "save"},
     val : Nat, left : SUBSET Rules, settled : SUBSET (TaskSet \X Nat \X Dates)]

\* No run.
Idle ==
    [on |-> FALSE, byHand |-> FALSE, clean |-> FALSE, now |-> Never, todo |-> {},
     copy |-> [t \in TaskSet |-> <<>>], dirty |-> [t \in TaskSet |-> {}], made |-> {},
     slot |-> 0, step |-> "task", val |-> 0, left |-> {}, settled |-> {}]

SchedulerInit ==
    /\ run = [w \in Runners |-> Idle]
    /\ ran = FALSE
    /\ settled = {}

\* The loop takes the tasks in the order of the query: "todo" has the positions
\* of those it has not done.
First(r) == Tasks[Min(r.todo)]
Current(w) == First(run[w])
Busy(w) == run[w].on /\ run[w].todo # {}

\* Only the job follows assignments; generatePMWorkOrders reads the rule of every
\* task.
ByAssignments(r, t) == ~r.byHand /\ Slots(t) # {}

\* The dates a run has in its copy of a task: in the job a time assignment without
\* one gets its first.
CopyOf(t, byHand) ==
    [i \in Slots(t) |->
        IF ~byHand /\ Timed(t, i) /\ task[t].nextDue[i] = Never
        THEN CalcNextDue(clock, Plan[t].assignments[i].every) ELSE task[t].nextDue[i]]

\* The assignments of a task the loop does something for: a date that has come,
\* a meter with a threshold.
Stops(r, t) ==
    {i \in Slots(t) :
        \/ Timed(t, i) /\ r.copy[t][i] # Never /\ r.copy[t][i] <= r.now
        \/ Plan[t].assignments[i].trigger = "meter" /\ Plan[t].assignments[i].threshold > 0}

\* Where the loops go on.  What they pass over changes the run's own memory at
\* most and is part of the step before.
Enter(r) ==
    IF r.todo = {} THEN IF r.left = {} THEN Idle ELSE r
    ELSE LET stops == Stops(r, First(r)) IN
         IF ~ByAssignments(r, First(r)) THEN r
         ELSE IF stops = {} THEN [r EXCEPT !.step = "save"] ELSE [r EXCEPT !.slot = Min(stops)]

NextTask(r) ==
    Enter([r EXCEPT !.todo = @ \ {Min(@)}, !.slot = 0, !.step = "task", !.made = {}, !.val = 0])

NextSlot(r) ==
    LET t == First(r)
        next == {i \in Stops(r, t) : i > r.slot}
    IN  IF next # {} THEN [r EXCEPT !.slot = Min(next), !.step = "task", !.val = 0]
        ELSE IF r.made # {} \/ r.dirty[t] # {}
        THEN [r EXCEPT !.slot = 0, !.step = "save", !.val = 0]
        ELSE NextTask(r)

\* The run goes on as r.  One of the job that ends in its half day, and no task of
\* which has failed, has done what the day asks for.
Set(w, r) ==
    /\ run' = [run EXCEPT ![w] = r]
    /\ ran' = (ran \/ (~r.on /\ run[w].clean /\ run[w].now = clock))
Add(o) == orders' = orders \cup {o}

----------------------------------------------------------------------------

\* The cron job fires, or the endpoint is called: the active tasks are loaded.
Start(w, byHand) ==
    /\ ~run[w].on
    /\ LET first == [t \in TaskSet |-> {i \in Slots(t) : CopyOf(t, byHand)[i] # task[t].nextDue[i]}]
           loaded == [Idle EXCEPT
                        !.on = TRUE, !.byHand = byHand, !.clean = ~byHand, !.now = clock,
                        !.copy = [t \in TaskSet |-> CopyOf(t, byHand)], !.dirty = first,
                        !.left = IF byHand THEN {} ELSE Rules, !.settled = settled]
           todo == {p \in DOMAIN Tasks :
                       ByAssignments(loaded, Tasks[p]) =>
                           Stops(loaded, Tasks[p]) # {} \/ first[Tasks[p]] # {}}
       IN  Set(w, Enter([loaded EXCEPT !.todo = todo]))
    /\ UNCHANGED <<data, settled>>

AtSlot(w) == Busy(w) /\ ByAssignments(run[w], Current(w)) /\ run[w].step = "task"
AtRule(w) == Busy(w) /\ ~ByAssignments(run[w], Current(w)) /\ run[w].step = "task"
Assignment(w) == Plan[Current(w)].assignments[run[w].slot]
Rule(w) == Plan[Current(w)]
DueDate(w) == run[w].copy[Current(w)][run[w].slot]

\* The newest reading by its timestamp; the meter's own value when it has none.
LatestValue == IF latest = 0 THEN meter.current ELSE Value[latest]

\* Mutant: the date stays as it is.
SameDue(w, due) == due

\* The date the copy has after a work order.
NextDue(w, due) == CalcNextDue(run[w].now, Assignment(w).every)

\* The loop has stopped at a time assignment: its date has come.
IsDue(w) == AtSlot(w) /\ Assignment(w).trigger = "time"

\* WorkOrder.create, the notification, and the next date in the copy.
GenerateDue(w) ==
    /\ IsDue(w)
    /\ Add(NewOrder(<<Current(w), run[w].slot>>, DueDate(w), 0))
    /\ Set(w, NextSlot([run[w] EXCEPT
                 !.copy[Current(w)][run[w].slot] = NextDue(w, DueDate(w)),
                 !.dirty[Current(w)] = @ \cup {run[w].slot},
                 !.made = @ \cup {<<run[w].slot, DueDate(w)>>}]))
    /\ UNCHANGED <<clock, task, meter, latest, sensed, faults, settled>>

\* A meter assignment: a work order when the newest reading is far enough from
\* the baseline.  The read of the meter and the creation are one step: what
\* others do in between can come before both or after both.
GenerateAtReading(w) ==
    /\ AtSlot(w)
    /\ Assignment(w).trigger = "meter"
    /\ IF Reached(LatestValue, meter.base, Assignment(w).threshold)
       THEN /\ Add(NewOrder(<<Current(w), run[w].slot>>, Never, LatestValue))
            /\ Set(w, [run[w] EXCEPT !.step = "meter", !.val = LatestValue,
                                     !.made = @ \cup {<<run[w].slot, Never>>}])
       ELSE Set(w, NextSlot(run[w])) /\ UNCHANGED orders
    /\ UNCHANGED <<clock, task, meter, latest, sensed, faults, settled>>

\* A task without assignments, by its cron expression: a work order for the next
\* occurrence, whether an earlier run has made one for it or not.
GenerateByCron(w) ==
    /\ AtRule(w)
    /\ Rule(w).rule = "calendar"
    /\ LET next == NextCronOccurrenceWithin(Rule(w).cron, run[w].now, 7) IN
       IF next = Never
       THEN Set(w, NextTask(run[w])) /\ UNCHANGED orders
       ELSE /\ Add(NewOrder(<<Current(w), 0>>, next, 0))
            /\ Set(w, [run[w] EXCEPT !.step = "save", !.made = {<<0, Never>>}])
    /\ UNCHANGED <<clock, task, meter, latest, sensed, faults, settled>>

\* A task without assignments, by the meter it names.  The baseline is written
\* only when it differs from the one that was read.
GenerateByMeter(w) ==
    /\ AtRule(w)
    /\ Rule(w).rule = "meter"
    /\ IF Reached(meter.current, meter.base, Rule(w).threshold)
       THEN /\ Add(NewOrder(<<Current(w), 0>>, Never, meter.current))
            /\ Set(w, [run[w] EXCEPT
                         !.step = "meter", !.made = {<<0, Never>>},
                         !.val = IF meter.current = meter.base THEN 0 ELSE meter.current])
       ELSE Set(w, NextTask(run[w])) /\ UNCHANGED orders
    /\ UNCHANGED <<clock, task, meter, latest, sensed, faults, settled>>

\* Mutant: the baseline is the value the meter has when it is saved.
AtPresent(w) == [meter EXCEPT !.base = meter.current]

\* The meter after meter.save: only lastWOValue has changed.
Serviced(w) == IF run[w].val = 0 THEN meter ELSE [meter EXCEPT !.base = run[w].val]

SaveMeter(w) ==
    /\ Busy(w)
    /\ run[w].step = "meter"
    /\ meter' = Serviced(w)
    /\ Set(w, IF ByAssignments(run[w], Current(w)) THEN NextSlot(run[w])
              ELSE [run[w] EXCEPT !.step = "save"])
    /\ UNCHANGED <<clock, task, latest, sensed, orders, faults, settled>>

\* Mutant: the dates are not among the paths that are saved.
WithoutDates(r, t, doc) == [doc EXCEPT !.generated = @ \/ r.made # {}]

\* What task.save writes: the dates the run has changed, by their position, and
\* the time of the run.
Written(r, t, doc) ==
    [doc EXCEPT !.nextDue = [i \in DOMAIN @ |-> IF i \in r.dirty[t] THEN r.copy[t][i] ELSE @[i]],
                !.generated = @ \/ r.made # {}]

\* task.save.
SaveTask(w) ==
    /\ Busy(w)
    /\ run[w].step = "save"
    /\ task' = [task EXCEPT ![Current(w)] = Written(run[w], Current(w), @)]
    /\ settled' = settled \cup
         {<<Current(w), m[1], m[2]>> : m \in {x \in run[w].made : x[2] # Never}}
    /\ Set(w, NextTask(run[w]))
    /\ UNCHANGED <<clock, meter, latest, sensed, orders, faults>>

\* A database call or notifyPmDue throws: the rest of the task is abandoned, its
\* save included, and the run goes on with the next; a call of the endpoint ends.
Fail(w) ==
    /\ Busy(w)
    /\ faults < MaxFaults /\ clock < MaxClock
    /\ faults' = faults + 1
    /\ run' = [run EXCEPT ![w] =
                  IF run[w].byHand THEN Idle ELSE NextTask([run[w] EXCEPT !.clean = FALSE])]
    /\ UNCHANGED <<clock, task, meter, latest, sensed, orders, ran, settled>>

\* The process dies.
Crash(w) ==
    /\ run[w].on
    /\ faults < MaxFaults /\ clock < MaxClock
    /\ faults' = faults + 1
    /\ run' = [run EXCEPT ![w] = Idle]
    /\ UNCHANGED <<clock, task, meter, latest, sensed, orders, ran, settled>>

\* After the tasks: every ConditionRule whose newest reading matches gets a work
\* order, whether it has an open one or not.
CheckCondition(w, r) ==
    /\ run[w].on /\ run[w].todo = {}
    /\ r \in run[w].left
    /\ Set(w, Enter([run[w] EXCEPT !.left = @ \ {r}]))
    /\ IF sensed # 0 /\ Value[sensed] > Limit
       THEN Add(NewOrder(<<r, 0>>, Never, 0))
       ELSE UNCHANGED orders
    /\ UNCHANGED <<clock, task, meter, latest, sensed, faults, settled>>

----------------------------------------------------------------------------

\* Time goes on.  The job fires every few minutes and a run takes minutes: one of
\* them goes through in half a day, and a run ends in the half day it was started
\* in or in the next.
RunsAreShort == \A w \in Runners : run[w].on => run[w].now = clock

Tick ==
    /\ clock < MaxClock
    /\ ran /\ RunsAreShort
    /\ clock' = clock + 1
    /\ ran' = FALSE
    /\ UNCHANGED <<task, meter, latest, sensed, orders, faults, run, settled>>

Advance(w) ==
    \/ GenerateDue(w) \/ GenerateAtReading(w) \/ GenerateByCron(w) \/ GenerateByMeter(w)
    \/ SaveMeter(w) \/ SaveTask(w)
    \/ \E r \in Rules : CheckCondition(w, r)

SchedulerNext ==
    \/ \E w \in Runners : (\E h \in BOOLEAN : Start(w, h)) \/ Advance(w) \/ Fail(w) \/ Crash(w)
    \/ Tick
=============================================================================
