-------------------------- MODULE MaintenanceProofs --------------------------
(***************************************************************************)
(* Proofs about Maintenance, for any tasks, schedules, readings, rules,    *)
(* runs and calls.                                                         *)
(*                                                                         *)
(* What is true of a run depends on the documents only through the dates   *)
(* of the tasks and the work orders, so it is stated of a run r beside any *)
(* dates, orders and clock.  A run has one lemma for each way it goes on   *)
(* (Enter, NextTask, NextSlot); the others bear what it writes, because a  *)
(* date is only ever replaced by one that lies ahead (Apart).              *)
(***************************************************************************)
EXTENDS Maintenance, SequenceTheorems, WellFoundedInduction, TLAPS

----------------------------------------------------------------------------
\* The invariant.

\* The date d is set and lies after the half day c.
Later(d, c) == d # Never /\ d > c

\* The dates of a task that its schedule uses lie ahead.
Fresh(tasks, t, c) == \A i \in Slots(t) : Timed(t, i) => Later(tasks[t].nextDue[i], c)

\* A work order of the task t, and one for the reading v.
Ordered(os, t) == \E o \in os : o.trigger[1] = t
Served(os, v) == \E o \in os : o.trigger[1] \in TaskSet /\ o.val = v

TaskType == [generated : BOOLEAN, nextDue : Seq(Dates \cup {Never})]

\* The documents: types, and as many dates as assignments.
DataTypes ==
    /\ clock \in 0 .. MaxClock
    /\ task \in [TaskSet -> TaskType]
    /\ \A t \in TaskSet : DOMAIN task[t].nextDue = Slots(t)
    /\ meter \in [current : Nat, base : Nat]
    /\ latest \in Readings \cup {0}
    /\ sensed \in Readings \cup {0}
    /\ orders \subseteq OrderType
    /\ entry \in Readings \cup {NoEntry}
    /\ faults \in Nat

\* Where a run r is: its half day, and the assignment it has stopped at.
Placed(r, c) ==
    /\ r.now \in Nat /\ r.now <= c /\ c <= r.now + 1
    /\ \A t \in TaskSet : DOMAIN r.copy[t] = Slots(t)
    /\ r.byHand => ~r.clean

AtStop(r) ==
    /\ r.todo = {} => r.made = {} /\ r.step = "task"
    /\ (r.todo # {} /\ ByAssignments(r, First(r)) /\ r.step = "task") =>
           r.slot \in Stops(r, First(r))
    /\ (r.todo # {} /\ ByAssignments(r, First(r)) /\ r.step = "meter") =>
           r.slot \in Slots(First(r)) /\ ~Timed(First(r), r.slot)

\* The dates a run has changed are an interval from its own half day, and what
\* it has generated, or found recorded when it began, is behind them.
Dated(r) ==
    /\ \A t \in TaskSet : \A i \in r.dirty[t] :
           i \in Slots(t) /\ Timed(t, i) /\ r.copy[t][i] = r.now + Plan[t].assignments[i].every
    /\ \A s \in r.settled :
           s[2] \in Slots(s[1]) /\ s[3] <= r.now /\ Later(r.copy[s[1]][s[2]], s[3])
    /\ \A m \in r.made :
           m[2] # Never => r.todo # {} /\ m[1] \in r.dirty[First(r)] /\ m[2] <= r.now

\* What a run is about to record has its work order.
Backed(r, os) ==
    /\ r.made # {} => Ordered(os, First(r))
    /\ r.step = "meter" /\ r.val # 0 => Served(os, r.val)

\* A run of the job that no task has failed in: its copy is the document's or the
\* document is ahead, and what it has passed lies ahead.
Agrees(r, tasks) ==
    \A t \in TaskSet : \A i \in Slots(t) : Timed(t, i) =>
        /\ r.copy[t][i] # Never
        /\ i \notin r.dirty[t] =>
               tasks[t].nextDue[i] = r.copy[t][i] \/ Later(tasks[t].nextDue[i], r.now)

Passed(r, tasks) ==
    \A t \in TaskSet : (\E p \in r.todo : Tasks[p] = t) \/ Fresh(tasks, t, r.now)

PassedSlots(r) ==
    r.todo # {} =>
        \A i \in Slots(First(r)) :
            Timed(First(r), i) /\ (r.step = "save" \/ i < r.slot) =>
                Later(r.copy[First(r)][i], r.now)

Steady(r, c) == r.clean /\ r.now = c

RunSound(r, tasks, os, c) ==
    /\ r \in RunType
    /\ ~r.on => ~r.clean
    /\ r.on =>
         /\ Placed(r, c) /\ AtStop(r) /\ Dated(r) /\ Backed(r, os)
         /\ Steady(r, c) => Agrees(r, tasks) /\ Passed(r, tasks) /\ PassedSlots(r)

\* A call of the ingestion.
CallSound(i, os) ==
    /\ i \in IngestType
    /\ i.step = "idle" => i.pos = 1
    /\ i.step \notin {"idle", "done"} => i.batch # <<>> /\ i.pos \in 1 .. Len(i.batch)
    /\ i.step = "create" => i.rule \in Rules /\ i.rule \notin i.open
    /\ \A r \in i.open : \E o \in os : o.trigger = <<r, 0>>
    /\ i.step \in {"fire", "task", "base"} => i.task \in TaskSet
    /\ i.step \in {"task", "base"} =>
           \E o \in os : o.trigger[1] = i.task /\ o.val = Value[Newest(i.batch)]

\* The marks have work orders.
Marked ==
    /\ meter.base # 0 => Served(orders, meter.base)
    /\ \A t \in TaskSet : task[t].generated => Ordered(orders, t)

\* What was recorded lies behind the dates.
Recorded ==
    /\ settled \subseteq TaskSet \X Nat \X Dates
    /\ \A s \in settled :
           s[2] \in Slots(s[1]) /\ s[3] <= clock /\ Later(task[s[1]].nextDue[s[2]], s[3])

\* The dates keep up with the clock, and are ahead of it when a run of the half
\* day has gone through.
Ahead ==
    /\ DatesKeepUp
    /\ ran => \A t \in TaskSet : Fresh(task, t, clock)

IInv ==
    /\ DataTypes
    /\ run \in [Runners -> RunType]
    /\ \A w \in Runners : RunSound(run[w], task, orders, clock)
    /\ ingest \in [Deliveries -> IngestType]
    /\ \A c \in Deliveries : CallSound(ingest[c], orders)
    /\ Marked /\ Recorded /\ Ahead /\ ran \in BOOLEAN

----------------------------------------------------------------------------
\* Numbers and dates.

\* A set of numbers has a least element.
LEMMA LeastNat ==
    ASSUME NEW S \in SUBSET Nat, S # {}
    PROVE  Min(S) \in S /\ \A y \in S : Min(S) <= y
<1>1. PICK x \in S : \A y \in S : <<y, x>> \notin OpToRel(<, Nat)
    BY NatLessThanWellFounded, WFMin
<1>2. \A y \in S : x <= y
  <2> TAKE y \in S
  <2>1. <<y, x>> \in Nat \X Nat
      OBVIOUS
  <2>2. ~(y < x)
      BY <1>1, <2>1, Zenon DEF OpToRel
  <2>3. x \in Nat /\ y \in Nat
      OBVIOUS
  <2> QED BY <2>2, <2>3
<1>3. QED
    BY <1>2 DEF Min

\* A set of numbers that is bounded has a greatest element.
LEMMA GreatestNat ==
    ASSUME NEW n \in Nat, NEW S \in SUBSET (0 .. n), S # {}
    PROVE  Max(S) \in S /\ \A y \in S : y <= Max(S)
<1> DEFINE T == {n - x : x \in S}
<1>1. T \in SUBSET Nat /\ T # {}
  <2>1. \A x \in S : n - x \in Nat
      OBVIOUS
  <2>2. \A y \in T : y \in Nat
      BY <2>1, Zenon
  <2> QED BY <2>2
<1>2. Min(T) \in T /\ \A y \in T : Min(T) <= y
  <2> HIDE DEF T
  <2> QED BY <1>1, LeastNat
<1>3. PICK x \in S : Min(T) = n - x
    BY <1>2
<1>4. \A y \in S : y <= x
  <2> TAKE y \in S
  <2>1. n - y \in T
      OBVIOUS
  <2>2. n - x <= n - y
      BY <2>1, <1>2, <1>3
  <2>3. x \in Nat /\ y \in Nat
      OBVIOUS
  <2> HIDE DEF T
  <2> QED BY <2>2, <2>3
<1>5. QED
    BY <1>4 DEF Max

\* A task's schedule: its assignments are numbered, and an interval is at least a
\* whole day.
LEMMA Schedules ==
    ASSUME NEW t \in TaskSet
    PROVE  /\ Plan[t] \in PlanType
           /\ Slots(t) \in SUBSET (Nat \ {0})
           /\ \A i \in Slots(t) : Plan[t].assignments[i] \in AssignmentType
           /\ \A i \in Slots(t) : Plan[t].assignments[i].every \in 0 .. MaxInterval
           /\ \A i \in Slots(t) : Timed(t, i) => Plan[t].assignments[i].every >= 2
<1>1. Plan[t] \in PlanType
    BY DataAssumption
<1>2. Plan[t].assignments \in Seq(AssignmentType)
    BY <1>1 DEF PlanType
<1>3. Slots(t) = 1 .. Len(Plan[t].assignments) /\ Len(Plan[t].assignments) \in Nat
    BY <1>2 DEF Slots
<1>4. \A i \in Slots(t) : Plan[t].assignments[i] \in AssignmentType
    BY <1>2, <1>3, ElementOfSeq
<1>5. \A i \in Slots(t) :
          Plan[t].assignments[i].every \in {d \in 0 .. MaxInterval : d % 2 = 0}
    BY <1>4 DEF AssignmentType
<1>6. \A i \in Slots(t) : Timed(t, i) => Plan[t].assignments[i].every >= 2
  <2> TAKE i \in Slots(t)
  <2> DEFINE e == Plan[t].assignments[i].every
  <2>1. e \in Nat /\ e % 2 = 0
      BY <1>5, DataAssumption
  <2>2. Timed(t, i) => e > 0
      BY DEF Timed
  <2> HIDE DEF e
  <2>3. e > 0 => e >= 2
      BY <2>1
  <2> QED BY <2>2, <2>3 DEF e
<1>7. QED
    BY <1>1, <1>3, <1>4, <1>5, <1>6

\* The positions of the tasks are numbers, and each names a task.
LEMMA Positions ==
    /\ DOMAIN Tasks \in SUBSET Nat
    /\ \A p \in DOMAIN Tasks : Tasks[p] \in TaskSet
BY DataAssumption DEF TaskSet, Range

\* The task a run is at.
LEMMA FirstIsPending ==
    ASSUME NEW r, r.todo \in SUBSET (DOMAIN Tasks), r.todo # {}
    PROVE  /\ First(r) \in TaskSet
           /\ Min(r.todo) \in r.todo
           /\ First(r) = Tasks[Min(r.todo)]
<1>1. Min(r.todo) \in r.todo
    BY Positions, LeastNat
<1>2. QED
    BY <1>1, Positions DEF First

\* A date between the half day and the longest interval from it is a date; a date
\* is a number.
LEMMA DatesAre ==
    /\ Dates \in SUBSET Nat
    /\ Never \notin Nat
    /\ \A d \in Nat : d <= MaxClock + 16 + MaxInterval => d \in Dates
BY DataAssumption DEF Dates

----------------------------------------------------------------------------
\* Where a run goes on.

\* A run that is about to enter what is left of it.
Ready(r, tasks, c) ==
    /\ r \in RunType
    /\ r.on /\ r.step = "task" /\ r.made = {}
    /\ Placed(r, c) /\ Dated(r)
    /\ Steady(r, c) => Agrees(r, tasks) /\ Passed(r, tasks)

\* The runs a and b differ in their place at most.
SamePast(a, b) ==
    /\ a.on = b.on /\ a.byHand = b.byHand /\ a.clean = b.clean /\ a.now = b.now
    /\ a.todo = b.todo /\ a.copy = b.copy /\ a.dirty = b.dirty /\ a.made = b.made
    /\ a.left = b.left /\ a.settled = b.settled

\* No run is a run's state.
LEMMA IdleIsSound ==
    ASSUME NEW tasks, NEW os, NEW c
    PROVE  Idle \in RunType /\ ~Idle.on /\ ~Idle.clean /\ RunSound(Idle, tasks, os, c)
<1>1. <<>> \in Seq(Dates \cup {Never})
    OBVIOUS
<1>2. Idle \in RunType
    BY <1>1 DEF Idle, RunType
<1>3. ~Idle.on /\ ~Idle.clean
    BY DEF Idle
<1>4. QED
    BY <1>2, <1>3 DEF RunSound

\* A run that is put at another step.
LEMMA PutAtStep ==
    ASSUME NEW r \in RunType, NEW s \in {"task", "meter", "save"},
           NEW new, new = [r EXCEPT !.step = s]
    PROVE  new \in RunType /\ SamePast(new, r) /\ new.step = s /\ new.slot = r.slot
BY DEF RunType, SamePast

\* A run that is put at another assignment.
LEMMA PutAtSlot ==
    ASSUME NEW r \in RunType, NEW n \in Nat, NEW new, new = [r EXCEPT !.slot = n]
    PROVE  new \in RunType /\ SamePast(new, r) /\ new.slot = n /\ new.step = r.step
BY DEF RunType, SamePast

\* An assignment that is passed over has its date ahead.
LEMMA PassedOver ==
    ASSUME NEW r, NEW tasks, NEW t \in TaskSet, NEW i \in Slots(t), Timed(t, i),
           Agrees(r, tasks), i \notin Stops(r, t), r.now \in Nat, r \in RunType,
           DOMAIN r.copy[t] = Slots(t)
    PROVE  Later(r.copy[t][i], r.now)
<1>1. r.copy[t][i] # Never
    BY DEF Agrees
<1>2. r.copy[t] \in Seq(Dates \cup {Never})
    BY DEF RunType
<1>3. r.copy[t][i] \in Dates \cup {Never}
  <2>1. i \in 1 .. Len(r.copy[t])
      BY <1>2
  <2> QED BY <1>2, <2>1, ElementOfSeq
<1>4. r.copy[t][i] \in Nat
    BY <1>1, <1>3, DatesAre
<1>5. ~(r.copy[t][i] <= r.now)
    BY <1>1 DEF Stops
<1>6. QED
    BY <1>1, <1>4, <1>5 DEF Later

\* A run that has stopped at an assignment, or before the save of a task, with its
\* earlier dates ahead.
LEMMA StoppedIsSound ==
    ASSUME NEW r, NEW new, NEW tasks, NEW os, NEW c,
           r \in RunType, r.on, r.todo # {}, ByAssignments(r, First(r)),
           Placed(r, c), Dated(r), r.made # {} => Ordered(os, First(r)),
           Steady(r, c) => Agrees(r, tasks) /\ Passed(r, tasks),
           new \in RunType, SamePast(new, r), new.step # "meter",
           new.step = "task" => new.slot \in Stops(r, First(r)),
           Steady(r, c) => \A i \in Slots(First(r)) :
               Timed(First(r), i) /\ (new.step = "save" \/ i < new.slot) =>
                   Later(r.copy[First(r)][i], r.now)
    PROVE  RunSound(new, tasks, os, c) /\ new.on
<1> DEFINE t == First(r)
<1>1. First(new) = t /\ ByAssignments(new, t)
    BY DEF SamePast, First, ByAssignments
<1>2. Stops(new, t) = Stops(r, t)
    BY DEF SamePast, Stops
<1>3. Placed(new, c) /\ Dated(new)
    BY <1>1 DEF SamePast, Placed, Dated
<1>4. AtStop(new) /\ Backed(new, os)
    BY <1>1, <1>2 DEF SamePast, AtStop, Backed
<1>5. ASSUME Steady(new, c)
      PROVE  Agrees(new, tasks) /\ Passed(new, tasks) /\ PassedSlots(new)
  <2>1. Steady(r, c)
      BY <1>5 DEF SamePast, Steady
  <2>2. PassedSlots(new)
      BY <2>1, <1>1 DEF PassedSlots, SamePast
  <2> QED BY <2>1, <2>2 DEF SamePast, Agrees, Passed
<1>6. new.on
    BY DEF SamePast
<1> QED BY <1>3, <1>4, <1>5, <1>6 DEF RunSound

\* A run that enters what is left of it is sound, and ends only when nothing is.
LEMMA EnterIsSound ==
    ASSUME NEW r, NEW tasks, NEW os, NEW c, Ready(r, tasks, c)
    PROVE  /\ RunSound(Enter(r), tasks, os, c)
           /\ ~Enter(r).on => r.todo = {}
<1> DEFINE t == First(r)
           stops == Stops(r, t)
<1>1. r \in RunType /\ r.on /\ Placed(r, c) /\ Dated(r) /\ r.made = {} /\ r.step = "task"
    BY DEF Ready
<1>2. CASE r.todo = {} /\ r.left = {}
  <2>1. Enter(r) = Idle
      BY <1>2 DEF Enter
  <2> QED BY <2>1, <1>2, IdleIsSound
<1>3. CASE r.todo = {} /\ r.left # {}
  <2>1. Enter(r) = r
      BY <1>3 DEF Enter
  <2> QED BY <2>1, <1>1, <1>3 DEF Ready, RunSound, AtStop, Backed, PassedSlots
<1>4. CASE r.todo # {}
  <2>1. t \in TaskSet
      BY <1>1, <1>4, FirstIsPending DEF RunType
  <2>2. stops \in SUBSET Slots(t) /\ Slots(t) \in SUBSET (Nat \ {0})
      BY <2>1, Schedules DEF Stops
  <2>3. CASE ~ByAssignments(r, t)
    <3>1. Enter(r) = r
        BY <1>4, <2>3 DEF Enter
    <3>2. Steady(r, c) => PassedSlots(r)
      <4> SUFFICES ASSUME r.clean PROVE PassedSlots(r)
          BY DEF Steady
      <4>1. ~r.byHand
          BY <1>1 DEF Placed
      <4>2. Slots(t) = {}
          BY <4>1, <2>3 DEF ByAssignments
      <4> QED BY <4>2 DEF PassedSlots
    <3> QED BY <3>1, <3>2, <1>1, <2>3 DEF Ready, RunSound, AtStop, Backed
  <2>4. CASE ByAssignments(r, t)
    <3>1. \A i \in Slots(t) :
              Steady(r, c) /\ Timed(t, i) /\ i \notin stops => Later(r.copy[t][i], r.now)
        BY <1>1, <2>1, PassedOver DEF Placed, Ready
    <3>2. CASE stops = {}
      <4>1. Enter(r) = [r EXCEPT !.step = "save"]
          BY <1>4, <2>4, <3>2 DEF Enter
      <4>2. Enter(r) \in RunType /\ SamePast(Enter(r), r) /\ Enter(r).step = "save"
          BY <4>1, <1>1, PutAtStep
      <4> QED BY <4>2, <3>1, <3>2, <1>1, <1>4, <2>4, StoppedIsSound DEF Ready
    <3>3. CASE stops # {}
      <4>1. Enter(r) = [r EXCEPT !.slot = Min(stops)]
          BY <1>4, <2>4, <3>3 DEF Enter
      <4>2. Min(stops) \in stops /\ \A i \in stops : Min(stops) <= i
        <5> HIDE DEF stops
        <5> QED BY <2>2, <3>3, LeastNat
      <4>3. Min(stops) \in Nat /\ stops \in SUBSET Nat
          BY <4>2, <2>2
      <4>4. /\ Enter(r) \in RunType /\ SamePast(Enter(r), r)
            /\ Enter(r).step = "task" /\ Enter(r).slot = Min(stops)
          BY <4>1, <4>3, <1>1, PutAtSlot
      <4>5. \A i \in Slots(t) : i < Enter(r).slot => i \notin stops
        <5> HIDE DEF stops
        <5> QED BY <2>2, <4>2, <4>3, <4>4
      <4> QED BY <4>2, <4>4, <4>5, <3>1, <1>1, <1>4, <2>4, StoppedIsSound DEF Ready
    <3> QED BY <3>2, <3>3
  <2> QED BY <2>3, <2>4
<1> QED BY <1>2, <1>3, <1>4

\* When the run r goes on as new and has gone through, no date is behind.
Ends(r, new, tasks, c) ==
    ~new.on /\ Steady(r, c) => \A t \in TaskSet : Fresh(tasks, t, c)

\* A run that leaves the task it is at, whose dates are ahead if nothing failed.
LEMMA NextTaskIsSound ==
    ASSUME NEW r, NEW tasks, NEW os, NEW c,
           r \in RunType, r.on, r.todo # {}, Placed(r, c), Dated(r),
           Steady(r, c) => /\ Agrees(r, tasks) /\ Passed(r, tasks)
                           /\ Fresh(tasks, First(r), r.now)
    PROVE  /\ RunSound(NextTask(r), tasks, os, c)
           /\ Ends(r, NextTask(r), tasks, c)
<1> DEFINE rest == r.todo \ {Min(r.todo)}
           n == [r EXCEPT !.todo = @ \ {Min(@)}, !.slot = 0, !.step = "task", !.made = {},
                          !.val = 0]
<1>1. NextTask(r) = Enter(n)
    BY DEF NextTask
<1>2. rest \in SUBSET (DOMAIN Tasks)
    BY DEF RunType
<1>3. n = [r EXCEPT !.todo = rest, !.slot = 0, !.step = "task", !.made = {}, !.val = 0]
    BY DEF RunType
<1>4. /\ n \in RunType /\ n.on = r.on /\ n.byHand = r.byHand /\ n.clean = r.clean
      /\ n.now = r.now /\ n.copy = r.copy /\ n.dirty = r.dirty /\ n.settled = r.settled
      /\ n.todo = rest /\ n.slot = 0 /\ n.step = "task" /\ n.made = {} /\ n.val = 0
  <2> HIDE DEF n, rest
  <2> QED BY <1>2, <1>3 DEF RunType
<1> HIDE DEF n
<1>5. Placed(n, c) /\ Dated(n)
    BY <1>4 DEF Placed, Dated
<1>6. First(r) = Tasks[Min(r.todo)]
    BY DEF First
<1>7. Steady(r, c) => Agrees(n, tasks) /\ Passed(n, tasks)
    BY <1>4, <1>6 DEF Agrees, Passed
<1>8. Steady(n, c) = Steady(r, c)
    BY <1>4 DEF Steady
<1>9. Ready(n, tasks, c)
    BY <1>4, <1>5, <1>7, <1>8 DEF Ready
<1>10. RunSound(Enter(n), tasks, os, c) /\ (~Enter(n).on => n.todo = {})
    BY <1>9, EnterIsSound
<1>11. Steady(r, c) /\ n.todo = {} => \A t \in TaskSet : Fresh(tasks, t, c)
    BY <1>4, <1>7 DEF Passed, Steady
<1> QED BY <1>1, <1>10, <1>11 DEF Ends

\* A run that leaves the assignment it is at, which is no longer one it stops at.
LEMMA NextSlotIsSound ==
    ASSUME NEW r, NEW tasks, NEW os, NEW c,
           r \in RunType, r.on, r.todo # {}, ByAssignments(r, First(r)),
           r.slot \in Slots(First(r)), Placed(r, c), Dated(r),
           r.made # {} => Ordered(os, First(r)),
           Steady(r, c) => /\ Agrees(r, tasks) /\ Passed(r, tasks)
                           /\ \A i \in Slots(First(r)) :
                                  Timed(First(r), i) /\ i <= r.slot =>
                                      Later(r.copy[First(r)][i], r.now)
    PROVE  /\ RunSound(NextSlot(r), tasks, os, c)
           /\ Ends(r, NextSlot(r), tasks, c)
<1> DEFINE t == First(r)
           next == {i \in Stops(r, t) : i > r.slot}
<1>1. t \in TaskSet
    BY FirstIsPending DEF RunType
<1>2. Slots(t) \in SUBSET (Nat \ {0}) /\ next \in SUBSET Nat /\ next \in SUBSET Stops(r, t)
    BY <1>1, Schedules DEF Stops
<1>3. \A i \in Slots(t) :
          Steady(r, c) /\ Timed(t, i) /\ i \notin Stops(r, t) => Later(r.copy[t][i], r.now)
    BY <1>1, PassedOver DEF Placed
<1>4. \A i \in Slots(t) :
          Steady(r, c) /\ Timed(t, i) /\ i \notin next => Later(r.copy[t][i], r.now)
    BY <1>2, <1>3
<1>5. CASE next # {}
  <2> DEFINE new == [r EXCEPT !.slot = Min(next), !.step = "task", !.val = 0]
  <2>1. NextSlot(r) = new
      BY <1>5 DEF NextSlot
  <2>2. Min(next) \in next /\ \A y \in next : Min(next) <= y
    <3> HIDE DEF next
    <3> QED BY <1>2, <1>5, LeastNat
  <2>3. Min(next) \in Nat
      BY <2>2, <1>2
  <2>4. new \in RunType /\ SamePast(new, r) /\ new.step = "task" /\ new.slot = Min(next)
    <3> HIDE DEF next
    <3> QED BY <2>3 DEF RunType, SamePast
  <2> HIDE DEF new
  <2>5. \A i \in Slots(t) : i < new.slot => i \notin next
    <3> HIDE DEF next
    <3> QED BY <2>2, <2>3, <2>4, <1>2
  <2>6. RunSound(new, tasks, os, c) /\ new.on
      BY <1>4, <1>2, <2>2, <2>4, <2>5, StoppedIsSound
  <2> QED BY <2>1, <2>6 DEF Ends
<1>6. CASE next = {} /\ (r.made # {} \/ r.dirty[t] # {})
  <2> DEFINE new == [r EXCEPT !.slot = 0, !.step = "save", !.val = 0]
  <2>1. NextSlot(r) = new
      BY <1>6 DEF NextSlot
  <2>2. new \in RunType /\ SamePast(new, r) /\ new.step = "save" /\ new.slot = 0
      BY DEF RunType, SamePast
  <2> HIDE DEF new
  <2>3. RunSound(new, tasks, os, c) /\ new.on
      BY <1>4, <1>6, <2>2, StoppedIsSound
  <2> QED BY <2>1, <2>3 DEF Ends
<1>7. CASE next = {} /\ r.made = {} /\ r.dirty[t] = {}
  <2>1. NextSlot(r) = NextTask(r)
      BY <1>7 DEF NextSlot
  <2>2. Steady(r, c) => Fresh(tasks, t, r.now)
      BY <1>1, <1>4, <1>7 DEF Agrees, Fresh
  <2> QED BY <2>1, <2>2, NextTaskIsSound
<1> QED BY <1>5, <1>6, <1>7

----------------------------------------------------------------------------
\* What the others bear.

\* A date is what it was, or lies ahead.
Apart(tasks, new, c) ==
    \A t \in TaskSet : \A i \in Slots(t) :
        new[t].nextDue[i] = tasks[t].nextDue[i] \/ Later(new[t].nextDue[i], c)

\* No work order of a task is lost.
Kept(os, new) == \A o \in os : o.trigger[1] \in TaskSet => o \in new

\* A run stays sound while others write dates that lie ahead and add work orders.
LEMMA RunBears ==
    ASSUME NEW r, NEW tasks, NEW tasks2, NEW os, NEW os2, NEW c,
           RunSound(r, tasks, os, c), Apart(tasks, tasks2, c), Kept(os, os2)
    PROVE  RunSound(r, tasks2, os2, c)
<1> SUFFICES ASSUME r.on
             PROVE  /\ Backed(r, os2)
                    /\ Steady(r, c) => Agrees(r, tasks2) /\ Passed(r, tasks2)
    BY DEF RunSound
<1>1. AtStop(r) /\ Backed(r, os) /\ r \in RunType
    BY DEF RunSound
<1>2. Backed(r, os2)
  <2>1. r.made # {} => First(r) \in TaskSet
      BY <1>1, FirstIsPending DEF AtStop, RunType
  <2> QED BY <1>1, <2>1 DEF Backed, Ordered, Served, Kept
<1>3. ASSUME Steady(r, c) PROVE Agrees(r, tasks2) /\ Passed(r, tasks2)
  <2>1. Agrees(r, tasks) /\ Passed(r, tasks) /\ r.now = c
      BY <1>3 DEF RunSound, Steady
  <2>2. Agrees(r, tasks2)
      BY <2>1 DEF Agrees, Apart
  <2>3. ASSUME NEW t \in TaskSet, Fresh(tasks, t, c) PROVE Fresh(tasks2, t, c)
      BY <2>3 DEF Fresh, Apart
  <2> QED BY <2>1, <2>2, <2>3 DEF Passed
<1> QED BY <1>2, <1>3

\* A run that was started in the present half day stays sound when it passes.
LEMMA RunOutlasts ==
    ASSUME NEW r, NEW tasks, NEW os, NEW c \in Nat,
           RunSound(r, tasks, os, c), r.on => r.now = c
    PROVE  RunSound(r, tasks, os, c + 1)
<1> SUFFICES ASSUME r.on PROVE Placed(r, c + 1) /\ ~Steady(r, c + 1)
    BY DEF RunSound
<1> QED BY DEF RunSound, Placed, Steady

\* A call stays sound while work orders are added.
LEMMA CallBears ==
    ASSUME NEW i, NEW os, NEW os2, CallSound(i, os), os \subseteq os2
    PROVE  CallSound(i, os2)
<1> USE DEF CallSound
<1>1. \A r \in i.open : \E o \in os2 : o.trigger = <<r, 0>>
    OBVIOUS
<1>2. i.step \in {"task", "base"} =>
          \E o \in os2 : o.trigger[1] = i.task /\ o.val = Value[Newest(i.batch)]
    OBVIOUS
<1> QED BY <1>1, <1>2

\* The dates keep up, and stay behind what is recorded, while they are replaced by
\* ones that lie ahead.
LEMMA DatesBear ==
    ASSUME DatesKeepUp, Recorded, DataTypes, DataTypes', clock' = clock,
           Apart(task, task', clock)
    PROVE  /\ DatesKeepUp'
           /\ settled' = settled => Recorded'
           /\ \A t \in TaskSet : Fresh(task, t, clock) => Fresh(task', t, clock)
<1>1. ASSUME NEW t \in TaskSet, NEW i \in Slots(t)
      PROVE  task'[t].nextDue[i] \in Dates \cup {Never}
  <2>1. task'[t].nextDue \in Seq(Dates \cup {Never}) /\ DOMAIN task'[t].nextDue = Slots(t)
      BY DEF DataTypes, TaskType
  <2>2. i \in 1 .. Len(task'[t].nextDue)
      BY <2>1
  <2> QED BY <2>1, <2>2, ElementOfSeq
<1>2. clock \in Nat
    BY DataAssumption DEF DataTypes
<1>3. DatesKeepUp'
  <2> SUFFICES ASSUME NEW t \in TaskSet, NEW i \in Slots(t), Timed(t, i),
                      task'[t].nextDue[i] # Never
               PROVE  task'[t].nextDue[i] >= clock
      BY DEF DatesKeepUp
  <2>1. task'[t].nextDue[i] \in Nat
      BY <1>1, DatesAre
  <2>2. CASE task'[t].nextDue[i] = task[t].nextDue[i]
      BY <2>2 DEF DatesKeepUp
  <2>3. CASE Later(task'[t].nextDue[i], clock)
      BY <1>2, <2>1, <2>3 DEF Later
  <2> QED BY <2>2, <2>3 DEF Apart
<1>4. ASSUME settled' = settled PROVE Recorded'
  <2> SUFFICES ASSUME NEW s \in settled
               PROVE  Later(task'[s[1]].nextDue[s[2]], s[3])
      BY <1>4 DEF Recorded
  <2>1. s[1] \in TaskSet /\ s[2] \in Slots(s[1]) /\ s[3] \in Nat /\ s[3] <= clock
      BY DatesAre DEF Recorded
  <2>2. CASE task'[s[1]].nextDue[s[2]] = task[s[1]].nextDue[s[2]]
      BY <2>2 DEF Recorded
  <2>3. CASE Later(task'[s[1]].nextDue[s[2]], clock)
    <3>1. task'[s[1]].nextDue[s[2]] \in Nat
        BY <1>1, <2>1, <2>3, DatesAre DEF Later
    <3> QED BY <1>2, <2>1, <2>3, <3>1 DEF Later
  <2> QED BY <2>1, <2>2, <2>3 DEF Apart
<1>5. ASSUME NEW t \in TaskSet, Fresh(task, t, clock) PROVE Fresh(task', t, clock)
    BY <1>5 DEF Fresh, Apart
<1> QED BY <1>3, <1>4, <1>5

\* A run goes on as new: what has to be shown of its step.
LEMMA RunSteps ==
    ASSUME IInv, NEW w \in Runners, NEW new,
           run' = [run EXCEPT ![w] = new], clock' = clock, ingest' = ingest,
           DataTypes', Kept(orders, orders'), orders \subseteq orders',
           Apart(task, task', clock), RunSound(new, task', orders', clock),
           Marked', settled' = settled \/ Recorded', ran' \in BOOLEAN,
           ran' => ran \/ \A t \in TaskSet : Fresh(task', t, clock)
    PROVE  IInv'
<1>1. new \in RunType
    BY DEF RunSound
<1>2. run' \in [Runners -> RunType]
    BY <1>1 DEF IInv
<1>3. \A v \in Runners : RunSound(run'[v], task', orders', clock)
  <2> TAKE v \in Runners
  <2>1. RunSound(run[v], task, orders, clock)
      BY DEF IInv
  <2>2. RunSound(run[v], task', orders', clock)
      BY <2>1, RunBears
  <2>3. run'[v] = IF v = w THEN new ELSE run[v]
      BY DEF IInv
  <2> QED BY <2>2, <2>3
<1>4. \A c \in Deliveries : CallSound(ingest'[c], orders')
    BY CallBears DEF IInv
<1>5. DatesKeepUp' /\ Recorded' /\ (ran' => \A t \in TaskSet : Fresh(task', t, clock))
    BY DatesBear DEF IInv, Ahead
<1>6. Ahead'
    BY <1>5 DEF Ahead
<1> QED BY <1>2, <1>3, <1>4, <1>5, <1>6 DEF IInv

----------------------------------------------------------------------------
\* The steps of the scheduler.

\* What is known of a run that is at a task.
LEMMA AtWork ==
    ASSUME IInv, NEW w \in Runners, Busy(w)
    PROVE  /\ run[w] \in RunType /\ run[w].on /\ run[w].todo # {}
           /\ Placed(run[w], clock) /\ AtStop(run[w]) /\ Dated(run[w])
           /\ Backed(run[w], orders)
           /\ Steady(run[w], clock) =>
                  Agrees(run[w], task) /\ Passed(run[w], task) /\ PassedSlots(run[w])
           /\ Current(w) = First(run[w]) /\ Current(w) \in TaskSet
           /\ clock \in Nat /\ clock <= MaxClock
           /\ run[w].now \in Nat /\ run[w].now <= clock /\ clock <= run[w].now + 1
<1>1. RunSound(run[w], task, orders, clock) /\ clock \in 0 .. MaxClock
    BY DEF IInv, DataTypes
<1>2. run[w].on /\ run[w].todo # {}
    BY DEF Busy
<1>3. First(run[w]) \in TaskSet
    BY <1>1, <1>2, FirstIsPending DEF RunSound, RunType
<1>4. Placed(run[w], clock)
    BY <1>1, <1>2 DEF RunSound
<1> QED BY <1>1, <1>2, <1>3, <1>4, DataAssumption DEF RunSound, Placed, Current

\* What is known of a run of the job that has stopped at an assignment.
LEMMA AtAssignment ==
    ASSUME IInv, NEW w \in Runners, AtSlot(w)
    PROVE  /\ Busy(w) /\ ByAssignments(run[w], First(run[w])) /\ run[w].step = "task"
           /\ run[w].slot \in Stops(run[w], Current(w))
           /\ run[w].slot \in Slots(Current(w)) /\ run[w].slot \in Nat
           /\ Assignment(w) = Plan[Current(w)].assignments[run[w].slot]
           /\ Assignment(w) \in AssignmentType
<1>1. Busy(w) /\ ByAssignments(run[w], First(run[w])) /\ run[w].step = "task"
    BY DEF AtSlot, Current
<1>2. AtStop(run[w]) /\ run[w].todo # {} /\ Current(w) = First(run[w]) /\ Current(w) \in TaskSet
    BY <1>1, AtWork
<1>3. run[w].slot \in Stops(run[w], Current(w))
    BY <1>1, <1>2 DEF AtStop
<1> QED BY <1>1, <1>2, <1>3, Schedules DEF Stops, Assignment

\* The dates of a task and of a copy are dates.
LEMMA CopyIsDated ==
    ASSUME NEW r \in RunType, NEW t \in TaskSet, DOMAIN r.copy[t] = Slots(t), NEW i \in Slots(t)
    PROVE  r.copy[t][i] \in Dates \cup {Never}
<1>1. r.copy[t] \in Seq(Dates \cup {Never})
    BY DEF RunType
<1>2. i \in 1 .. Len(r.copy[t])
    BY <1>1
<1> QED BY <1>1, <1>2, ElementOfSeq

\* The same of the documents.
LEMMA DocumentIsDated ==
    ASSUME DataTypes, NEW t \in TaskSet, NEW i \in Slots(t)
    PROVE  task[t].nextDue[i] \in Dates \cup {Never}
<1>1. task[t].nextDue \in Seq(Dates \cup {Never}) /\ DOMAIN task[t].nextDue = Slots(t)
    BY DEF DataTypes, TaskType
<1>2. i \in 1 .. Len(task[t].nextDue)
    BY <1>1
<1> QED BY <1>1, <1>2, ElementOfSeq

\* An interval counted from a half day gives a date after it and after the next.
LEMMA NextDueIsDate ==
    ASSUME NEW now \in Nat, NEW c \in Nat, now <= c, c <= now + 1, c <= MaxClock,
           NEW t \in TaskSet, NEW i \in Slots(t), Timed(t, i)
    PROVE  /\ now + Plan[t].assignments[i].every \in Dates
           /\ now + Plan[t].assignments[i].every # Never
           /\ Later(now + Plan[t].assignments[i].every, now)
           /\ Later(now + Plan[t].assignments[i].every, c)
<1> DEFINE e == Plan[t].assignments[i].every
<1>1. e \in 0 .. MaxInterval /\ e >= 2
    BY Schedules
<1>2. MaxClock \in Nat /\ MaxInterval \in Nat
    BY DataAssumption
<1> HIDE DEF e
<1>3. now + e \in Nat /\ now + e <= MaxClock + 16 + MaxInterval /\ now + e > c /\ now + e > now
    BY <1>1, <1>2
<1>4. now + e \in Dates /\ now + e # Never
    BY <1>3, DatesAre
<1> QED BY <1>3, <1>4 DEF Later, e

\* A date after one half day is after an earlier one.
LEMMA LaterThanBefore ==
    ASSUME NEW d \in Dates \cup {Never}, NEW a \in Nat, NEW b \in Nat, Later(d, a), b <= a
    PROVE  Later(d, b)
<1>1. d \in Nat
    BY DatesAre DEF Later
<1> QED BY <1>1 DEF Later

\* The marks stay backed while the marks are the same and no work order goes.
LEMMA MarksBear ==
    ASSUME Marked, orders \subseteq orders', meter'.base = meter.base,
           \A t \in TaskSet : task'[t].generated = task[t].generated
    PROVE  Marked'
BY DEF Marked, Served, Ordered

\* The job, or the endpoint, loads the tasks.
LEMMA StartKeeps ==
    ASSUME IInv, NEW w \in Runners, NEW h \in BOOLEAN, Start(w, h), UNCHANGED telemetry
    PROVE  IInv'
<1> DEFINE copy == [t \in TaskSet |-> CopyOf(t, h)]
           first == [t \in TaskSet |-> {i \in Slots(t) : CopyOf(t, h)[i] # task[t].nextDue[i]}]
           loaded == [Idle EXCEPT
                        !.on = TRUE, !.byHand = h, !.clean = ~h, !.now = clock,
                        !.copy = copy, !.dirty = first,
                        !.left = IF h THEN {} ELSE Rules, !.settled = settled]
           todo == {p \in DOMAIN Tasks :
                       ByAssignments(loaded, Tasks[p]) =>
                           Stops(loaded, Tasks[p]) # {} \/ first[Tasks[p]] # {}}
           r == [loaded EXCEPT !.todo = todo]
<1>1. Set(w, Enter(r)) /\ ~run[w].on /\ UNCHANGED <<data, settled>>
    BY DEF Start
<1>2. clock \in Nat /\ clock <= MaxClock /\ DataTypes /\ Recorded
    BY DataAssumption DEF IInv, DataTypes
<1>3. ASSUME NEW t \in TaskSet, NEW i \in Slots(t)
      PROVE  /\ CopyOf(t, h)[i] \in Dates \cup {Never}
             /\ CopyOf(t, h)[i] # task[t].nextDue[i] =>
                    /\ Timed(t, i) /\ task[t].nextDue[i] = Never
                    /\ CopyOf(t, h)[i] = clock + Plan[t].assignments[i].every
             /\ ~h /\ Timed(t, i) => CopyOf(t, h)[i] # Never
  <2>1. CopyOf(t, h)[i] = IF ~h /\ Timed(t, i) /\ task[t].nextDue[i] = Never
                          THEN clock + Plan[t].assignments[i].every ELSE task[t].nextDue[i]
      BY <1>3 DEF CopyOf, CalcNextDue
  <2>2. task[t].nextDue[i] \in Dates \cup {Never}
      BY <1>2, <1>3, DocumentIsDated
  <2>3. Timed(t, i) => /\ clock + Plan[t].assignments[i].every \in Dates
                       /\ clock + Plan[t].assignments[i].every # Never
    <3>1. clock <= clock /\ clock <= clock + 1
        BY <1>2
    <3> QED BY <1>2, <1>3, <3>1, NextDueIsDate
  <2> QED BY <2>1, <2>2, <2>3
<1>4. ASSUME NEW t \in TaskSet
      PROVE  CopyOf(t, h) \in Seq(Dates \cup {Never}) /\ DOMAIN CopyOf(t, h) = Slots(t)
  <2>1. DOMAIN CopyOf(t, h) = Slots(t)
      BY DEF CopyOf
  <2>2. PICK n \in Nat : Slots(t) = 1 .. n
    <3>1. Plan[t].assignments \in Seq(AssignmentType)
        BY <1>4, Schedules DEF PlanType
    <3> QED BY <3>1 DEF Slots
  <2>3. CopyOf(t, h) = [i \in 1 .. n |-> CopyOf(t, h)[i]]
      BY <2>2 DEF CopyOf
  <2>4. CopyOf(t, h) \in [1 .. n -> Dates \cup {Never}]
      BY <1>3, <1>4, <2>2, <2>3
  <2> QED BY <2>1, <2>4
<1>5. copy \in [TaskSet -> Seq(Dates \cup {Never})]
    BY <1>4
<1>6. first \in [TaskSet -> SUBSET Nat]
    BY Schedules
<1>7. settled \in SUBSET (TaskSet \X Nat \X Dates)
    BY <1>2 DEF Recorded
<1> HIDE DEF copy, first
<1>8. /\ loaded \in RunType /\ loaded.copy = copy /\ loaded.dirty = first
      /\ loaded.now = clock /\ loaded.clean = ~h
      /\ loaded.byHand = h /\ loaded.settled = settled /\ loaded.on = TRUE
      /\ loaded.step = "task" /\ loaded.made = {}
    BY <1>2, <1>5, <1>6, <1>7, IdleIsSound DEF Idle, RunType
<1> HIDE DEF loaded
<1>9. todo \in SUBSET (DOMAIN Tasks)
    OBVIOUS
<1>10. /\ r \in RunType /\ r.copy = copy /\ r.dirty = first
       /\ r.now = clock /\ r.clean = ~h
       /\ r.byHand = h /\ r.settled = settled /\ r.on = TRUE
       /\ r.step = "task" /\ r.made = {} /\ r.todo = todo
  <2> HIDE DEF todo
  <2> QED BY <1>8, <1>9 DEF RunType
<1> HIDE DEF r
<1>11. Placed(r, clock)
  <2>1. clock \in Nat /\ clock <= clock /\ clock <= clock + 1
      BY <1>2
  <2>2. \A t \in TaskSet : DOMAIN copy[t] = Slots(t)
      BY <1>4, Zenon DEF copy
  <2> HIDE DEF todo
  <2>3. r.byHand => ~r.clean
      BY <1>10, Zenon
  <2> QED BY <1>10, <2>1, <2>2, <2>3, Zenon DEF Placed
<1>12. Dated(r)
  <2>1. \A t \in TaskSet : \A i \in first[t] :
            i \in Slots(t) /\ Timed(t, i) /\ copy[t][i] = clock + Plan[t].assignments[i].every
      BY <1>3 DEF first, copy
  <2>2. ASSUME NEW s \in settled
        PROVE  s[2] \in Slots(s[1]) /\ s[3] <= clock /\ Later(copy[s[1]][s[2]], s[3])
    <3>1. /\ s[1] \in TaskSet /\ s[2] \in Slots(s[1]) /\ s[3] <= clock
          /\ Later(task[s[1]].nextDue[s[2]], s[3])
        BY <1>2, <2>2 DEF Recorded
    <3>2. CopyOf(s[1], h)[s[2]] = task[s[1]].nextDue[s[2]]
        BY <1>3, <3>1 DEF Later
    <3> QED BY <3>1, <3>2 DEF copy
  <2> QED BY <1>10, <2>1, <2>2 DEF Dated
<1>13. ASSUME Steady(r, clock) PROVE Agrees(r, task) /\ Passed(r, task)
  <2>1. ~h
      BY <1>10, <1>13 DEF Steady
  <2>2. Agrees(r, task)
      BY <1>3, <1>10, <2>1 DEF Agrees, copy, first
  <2>3. ASSUME NEW t \in TaskSet, ~ \E p \in todo : Tasks[p] = t
        PROVE  Fresh(task, t, clock)
    <3>1. PICK p \in DOMAIN Tasks : Tasks[p] = t
        BY <2>3 DEF TaskSet, Range
    <3>2. Stops(loaded, t) = {} /\ first[t] = {}
        BY <2>3, <3>1
    <3>3. Stops(r, t) = {}
        BY <3>2, <1>8, <1>10 DEF Stops
    <3>4. \A i \in Slots(t) : Timed(t, i) => Later(r.copy[t][i], r.now)
        BY <2>2, <2>3, <3>3, <1>10, <1>11, <1>2, PassedOver DEF Placed
    <3>5. \A i \in Slots(t) : copy[t][i] = task[t].nextDue[i]
        BY <2>3, <3>2 DEF first, copy
    <3> QED BY <3>4, <3>5, <1>10 DEF Fresh
  <2>4. Passed(r, task)
      BY <2>3, <1>10 DEF Passed
  <2> QED BY <2>2, <2>4
<1>14. Ready(r, task, clock)
    BY <1>10, <1>11, <1>12, <1>13 DEF Ready
<1>15. RunSound(Enter(r), task, orders, clock)
    BY <1>14, EnterIsSound
<1>16. ~Steady(run[w], clock)
    BY <1>1 DEF IInv, RunSound, Steady
<1>17. run' = [run EXCEPT ![w] = Enter(r)] /\ ran' = ran
  <2>1. ~(run[w].clean /\ run[w].now = clock)
      BY <1>16 DEF Steady
  <2>2. ran' = (ran \/ (~Enter(r).on /\ run[w].clean /\ run[w].now = clock))
      BY <1>1 DEF Set
  <2>3. ran' = ran
      BY <2>1, <2>2, Zenon DEF IInv
  <2> QED BY <1>1, <2>3 DEF Set
<1>18. /\ clock' = clock /\ task' = task /\ meter' = meter /\ orders' = orders /\ faults' = faults
       /\ latest' = latest /\ sensed' = sensed /\ ingest' = ingest /\ entry' = entry
       /\ settled' = settled
    BY <1>1 DEF data, telemetry
<1>19. DataTypes' /\ Marked' /\ Apart(task, task', clock) /\ Kept(orders, orders')
    BY <1>18 DEF IInv, DataTypes, Marked, Served, Ordered, Apart, Kept
<1> QED BY <1>15, <1>17, <1>18, <1>19, RunSteps DEF IInv

\* How a step of a run ends: ran' is told by Ends.
LEMMA SetTells ==
    ASSUME IInv, NEW w \in Runners, NEW new, NEW tasks, Set(w, new),
           ~new.on /\ Steady(run[w], clock) => \A t \in TaskSet : Fresh(tasks, t, clock)
    PROVE  /\ run' = [run EXCEPT ![w] = new] /\ ran' \in BOOLEAN
           /\ ran' => ran \/ \A t \in TaskSet : Fresh(tasks, t, clock)
<1>1. ran' = (ran \/ (~new.on /\ run[w].clean /\ run[w].now = clock))
    BY DEF Set
<1>2. ran \in BOOLEAN
    BY DEF IInv
<1>3. (~new.on /\ run[w].clean /\ run[w].now = clock) =>
          \A t \in TaskSet : Fresh(tasks, t, clock)
    BY DEF Steady
<1>4. ran' => ran \/ \A t \in TaskSet : Fresh(tasks, t, clock)
    BY <1>1, <1>3, Zenon
<1>5. ran' \in BOOLEAN
    BY <1>1, Zenon
<1> QED BY <1>4, <1>5 DEF Set

\* A work order for a task is added: the types, the marks, and what it backs.
LEMMA OrderIsAdded ==
    ASSUME IInv, NEW t \in TaskSet, NEW i \in Slots(t) \cup {0},
           NEW due \in Dates \cup {Never}, NEW v \in Nat,
           Add(NewOrder(<<t, i>>, due, v)), UNCHANGED <<clock, task, meter, latest, sensed, faults>>,
           entry' = entry
    PROVE  /\ DataTypes' /\ Marked' /\ orders \subseteq orders' /\ Kept(orders, orders')
           /\ Ordered(orders', t) /\ Served(orders', v)
           /\ Apart(task, task', clock)
<1> DEFINE o == NewOrder(<<t, i>>, due, v)
<1>1. o \in OrderType /\ o.trigger[1] = t /\ o.val = v
  <2>1. <<t, i>> \in Triggers
    <3>1. CASE i = 0
        BY <3>1 DEF Triggers
    <3>2. CASE i \in Slots(t)
      <4>1. <<t, i>> \in {t} \X Slots(t)
          BY <3>2
      <4> QED BY <4>1, Zenon DEF Triggers
    <3> QED BY <3>1, <3>2
  <2> QED BY <2>1 DEF NewOrder, OrderType
<1>2. orders' = orders \cup {o}
    BY DEF Add
<1> HIDE DEF o
<1>3. Marked'
    BY <1>2, MarksBear DEF IInv
<1>4. DataTypes'
    BY <1>1, <1>2 DEF IInv, DataTypes
<1> QED BY <1>1, <1>2, <1>3, <1>4 DEF Kept, Ordered, Served, Apart

\* Nothing but the run and the date in its copy changes.
LEMMA NothingIsWritten ==
    ASSUME IInv, UNCHANGED <<clock, task, meter, latest, sensed, orders, faults>>, entry' = entry
    PROVE  /\ DataTypes' /\ Marked' /\ orders \subseteq orders' /\ Kept(orders, orders')
           /\ Apart(task, task', clock)
<1>1. Marked'
    BY MarksBear DEF IInv
<1> QED BY <1>1 DEF IInv, DataTypes, Kept, Apart

\* A sequence with one element replaced.
LEMMA SeqExcept ==
    ASSUME NEW S, NEW s \in Seq(S), NEW i \in DOMAIN s, NEW x \in S
    PROVE  [s EXCEPT ![i] = x] \in Seq(S)
<1>1. PICK n \in Nat : s \in [1 .. n -> S]
    OBVIOUS
<1>2. [s EXCEPT ![i] = x] \in [1 .. n -> S]
    BY <1>1
<1> QED BY <1>2

\* A time assignment whose date has come.
LEMMA GenerateDueKeeps ==
    ASSUME IInv, NEW w \in Runners, GenerateDue(w), UNCHANGED telemetry
    PROVE  IInv'
<1> DEFINE t == Current(w)
           i == run[w].slot
           d == DueDate(w)
           e == Plan[t].assignments[i].every
           date == run[w].now + e
           r == [run[w] EXCEPT
                   !.copy[Current(w)][run[w].slot] = NextDue(w, DueDate(w)),
                   !.dirty[Current(w)] = @ \cup {run[w].slot},
                   !.made = @ \cup {<<run[w].slot, DueDate(w)>>}]
<1>1. /\ AtSlot(w) /\ Assignment(w).trigger = "time" /\ Add(NewOrder(<<t, i>>, d, 0))
      /\ Set(w, NextSlot(r)) /\ UNCHANGED <<clock, task, meter, latest, sensed, faults, settled>>
    BY DEF GenerateDue, IsDue
<1>2. /\ Busy(w) /\ ByAssignments(run[w], First(run[w])) /\ run[w].step = "task"
      /\ i \in Stops(run[w], t) /\ i \in Slots(t) /\ i \in Nat
      /\ Assignment(w) = Plan[t].assignments[i]
    BY <1>1, AtAssignment
<1>3. /\ run[w] \in RunType /\ run[w].on /\ run[w].todo # {}
      /\ Placed(run[w], clock) /\ AtStop(run[w]) /\ Dated(run[w])
      /\ Backed(run[w], orders)
      /\ Steady(run[w], clock) =>
             Agrees(run[w], task) /\ Passed(run[w], task) /\ PassedSlots(run[w])
      /\ t = First(run[w]) /\ t \in TaskSet
      /\ clock \in Nat /\ clock <= MaxClock
      /\ run[w].now \in Nat /\ run[w].now <= clock /\ clock <= run[w].now + 1
    BY <1>2, AtWork
<1>4. Timed(t, i) /\ d # Never /\ d <= run[w].now /\ d = run[w].copy[t][i]
    BY <1>1, <1>2 DEF Stops, DueDate
<1>5. d \in Dates
    BY <1>2, <1>3, <1>4, CopyIsDated DEF Placed
<1>6. date \in Dates /\ date # Never /\ Later(date, run[w].now) /\ Later(date, clock)
    BY <1>2, <1>3, <1>4, NextDueIsDate
<1>7. NextDue(w, d) = date
    BY <1>2 DEF NextDue, CalcNextDue
<1> DEFINE copy == [run[w].copy EXCEPT ![t][i] = date]
           dirty == [run[w].dirty EXCEPT ![t] = @ \cup {i}]
           made == run[w].made \cup {<<i, d>>}
<1>8. r = [run[w] EXCEPT !.copy = copy, !.dirty = dirty, !.made = made]
    BY <1>7, <1>3 DEF RunType
<1>9. copy \in [TaskSet -> Seq(Dates \cup {Never})]
  <2>1. run[w].copy \in [TaskSet -> Seq(Dates \cup {Never})]
      BY <1>3 DEF RunType
  <2>2. [run[w].copy[t] EXCEPT ![i] = date] \in Seq(Dates \cup {Never})
    <3>1. run[w].copy[t] \in Seq(Dates \cup {Never}) /\ i \in DOMAIN run[w].copy[t]
        BY <2>1, <1>2, <1>3 DEF Placed
    <3> HIDE DEF date
    <3> QED BY <3>1, <1>6, SeqExcept
  <2>3. copy = [run[w].copy EXCEPT ![t] = [run[w].copy[t] EXCEPT ![i] = date]]
      BY <2>1, <1>3
  <2> HIDE DEF copy, date
  <2> QED BY <2>1, <2>2, <2>3, <1>3
<1>10. dirty \in [TaskSet -> SUBSET Nat] /\ made \in SUBSET (Nat \X (Dates \cup {Never}))
    BY <1>2, <1>3, <1>5 DEF RunType
<1>11. \A u \in TaskSet : \A j \in Slots(u) :
           copy[u][j] = IF u = t /\ j = i THEN date ELSE run[w].copy[u][j]
  <2>1. DOMAIN run[w].copy = TaskSet /\ \A u \in TaskSet : DOMAIN run[w].copy[u] = Slots(u)
      BY <1>3 DEF RunType, Placed
  <2> HIDE DEF date
  <2> QED BY <2>1, <1>2, <1>3
<1>12. \A u \in TaskSet : DOMAIN copy[u] = Slots(u)
    BY <1>3 DEF Placed, RunType
<1>13. \A u \in TaskSet : dirty[u] = IF u = t THEN run[w].dirty[u] \cup {i} ELSE run[w].dirty[u]
    BY <1>3 DEF RunType
<1> HIDE DEF r, copy, dirty, made, date, d
<1>14. /\ r \in RunType /\ r.copy = copy /\ r.dirty = dirty /\ r.made = made
       /\ r.on = run[w].on /\ r.byHand = run[w].byHand /\ r.clean = run[w].clean
       /\ r.now = run[w].now /\ r.todo = run[w].todo /\ r.slot = i /\ r.step = run[w].step
       /\ r.settled = run[w].settled
    BY <1>3, <1>8, <1>9, <1>10 DEF RunType
<1>15. First(r) = t /\ ByAssignments(r, t)
    BY <1>2, <1>3, <1>14 DEF First, ByAssignments
<1>16. Placed(r, clock)
    BY <1>3, <1>12, <1>14 DEF Placed
<1>17. Dated(r)
  <2>1. \A u \in TaskSet : \A j \in dirty[u] :
            j \in Slots(u) /\ Timed(u, j)
                /\ copy[u][j] = run[w].now + Plan[u].assignments[j].every
    <3> SUFFICES ASSUME NEW u \in TaskSet, NEW j \in dirty[u]
                 PROVE  j \in Slots(u) /\ Timed(u, j)
                            /\ copy[u][j] = run[w].now + Plan[u].assignments[j].every
        OBVIOUS
    <3>1. CASE u = t /\ j = i
        BY <3>1, <1>2, <1>3, <1>4, <1>11 DEF date
    <3>2. CASE ~(u = t /\ j = i)
      <4>1. j \in run[w].dirty[u]
          BY <3>2, <1>13
      <4>2. j \in Slots(u) /\ Timed(u, j)
                /\ run[w].copy[u][j] = run[w].now + Plan[u].assignments[j].every
          BY <4>1, <1>3 DEF Dated
      <4> QED BY <4>2, <3>2, <1>11
    <3> QED BY <3>1, <3>2
  <2>2. ASSUME NEW s \in run[w].settled
        PROVE  s[2] \in Slots(s[1]) /\ s[3] <= run[w].now /\ Later(copy[s[1]][s[2]], s[3])
    <3>1. /\ s[1] \in TaskSet /\ s[2] \in Slots(s[1]) /\ s[3] <= run[w].now
          /\ Later(run[w].copy[s[1]][s[2]], s[3]) /\ s[3] \in Nat
        BY <2>2, <1>3, DatesAre DEF Dated, RunType
    <3>2. Later(date, s[3])
        BY <3>1, <1>3, <1>6, DatesAre DEF Later
    <3> QED BY <3>1, <3>2, <1>11
  <2>3. \A m \in made : m[2] # Never => m[1] \in dirty[t] /\ m[2] <= run[w].now
    <3>1. \A m \in run[w].made : m[2] # Never => m[1] \in run[w].dirty[t] /\ m[2] <= run[w].now
        BY <1>3 DEF Dated
    <3>2. \A m \in made : m \in run[w].made \/ (m[1] = i /\ m[2] = d)
        BY DEF made
    <3>3. run[w].dirty[t] \subseteq dirty[t] /\ i \in dirty[t]
        BY <1>3, <1>13
    <3> QED BY <3>1, <3>2, <3>3, <1>4
  <2> QED BY <2>1, <2>2, <2>3, <1>3, <1>14, <1>15 DEF Dated
<1>18. Steady(r, clock) => Steady(run[w], clock) /\ r.now = clock
    BY <1>14 DEF Steady
<1>19. ASSUME Steady(r, clock)
       PROVE  /\ Agrees(r, task) /\ Passed(r, task)
              /\ \A j \in Slots(t) : Timed(t, j) /\ j <= i => Later(r.copy[t][j], r.now)
  <2>1. Agrees(run[w], task) /\ Passed(run[w], task) /\ PassedSlots(run[w])
      BY <1>3, <1>18, <1>19
  <2>2. Agrees(r, task)
    <3> SUFFICES ASSUME NEW u \in TaskSet, NEW j \in Slots(u), Timed(u, j)
                 PROVE  /\ copy[u][j] # Never
                        /\ j \notin dirty[u] => task[u].nextDue[j] = copy[u][j]
                                                 \/ Later(task[u].nextDue[j], run[w].now)
        BY <1>14 DEF Agrees
    <3>1. CASE u = t /\ j = i
        BY <3>1, <1>3, <1>6, <1>11, <1>13
    <3>2. CASE ~(u = t /\ j = i)
      <4>1. copy[u][j] = run[w].copy[u][j] /\ (j \notin dirty[u] => j \notin run[w].dirty[u])
          BY <3>2, <1>11, <1>13
      <4> QED BY <4>1, <2>1 DEF Agrees
    <3> QED BY <3>1, <3>2
  <2>3. Passed(r, task)
      BY <2>1, <1>14 DEF Passed
  <2>4. ASSUME NEW j \in Slots(t), Timed(t, j), j <= i PROVE Later(copy[t][j], run[w].now)
    <3>1. CASE j = i
        BY <3>1, <1>3, <1>6, <1>11
    <3>2. CASE j # i
      <4>1. j < i
          BY <3>2, <2>4, <1>2, <1>3, Schedules
      <4>2. Later(run[w].copy[t][j], run[w].now)
          BY <4>1, <2>1, <2>4, <1>3 DEF PassedSlots
      <4> QED BY <4>2, <3>2, <1>3, <1>11
    <3> QED BY <3>1, <3>2
  <2> QED BY <2>2, <2>3, <2>4, <1>14
<1>20. /\ DataTypes' /\ Marked' /\ orders \subseteq orders' /\ Kept(orders, orders')
       /\ Ordered(orders', t) /\ Apart(task, task', clock)
    BY <1>1, <1>2, <1>3, <1>5, OrderIsAdded DEF telemetry
<1>21. /\ RunSound(NextSlot(r), task, orders', clock)
       /\ Ends(r, NextSlot(r), task, clock)
    BY <1>2, <1>3, <1>14, <1>15, <1>16, <1>17, <1>19, <1>20, NextSlotIsSound
<1>22. Steady(run[w], clock) => Steady(r, clock)
    BY <1>14 DEF Steady
<1>23. /\ run' = [run EXCEPT ![w] = NextSlot(r)] /\ ran' \in BOOLEAN
       /\ ran' => ran \/ \A u \in TaskSet : Fresh(task, u, clock)
    BY <1>1, <1>21, <1>22, SetTells DEF Ends
<1> QED BY <1>1, <1>20, <1>21, <1>23, RunSteps DEF telemetry

\* A value of a reading, and the newest reading, are numbers.
LEMMA ReadingsAreNumbers ==
    ASSUME DataTypes
    PROVE  /\ \A k \in Readings : Value[k] \in Nat /\ Value[k] # 0
           /\ LatestValue \in Nat /\ meter.current \in Nat /\ meter.base \in Nat
<1>1. Value \in Seq(Nat \ {0})
    BY DataAssumption
<1>2. \A k \in Readings : Value[k] \in Nat \ {0}
    BY <1>1, ElementOfSeq DEF Readings
<1>3. meter.current \in Nat /\ meter.base \in Nat
    BY DEF DataTypes
<1> QED BY <1>2, <1>3 DEF DataTypes, LatestValue

\* The runs a and b differ in their place and in what they have made at most.
SameCourse(a, b) ==
    /\ a.on = b.on /\ a.byHand = b.byHand /\ a.clean = b.clean /\ a.now = b.now
    /\ a.todo = b.todo /\ a.copy = b.copy /\ a.dirty = b.dirty /\ a.settled = b.settled

\* A run goes on with a task it looks at by its rule.
LEMMA RuleGoesOn ==
    ASSUME NEW r, NEW new, NEW tasks, NEW os, NEW os2, NEW c,
           RunSound(r, tasks, os, c), r.on, r.todo # {}, ~ByAssignments(r, First(r)),
           new \in RunType, SameCourse(new, r),
           \A m \in new.made : m \in r.made \/ m[2] = Never,
           new.made # {} => Ordered(os2, First(r)),
           new.step = "meter" /\ new.val # 0 => Served(os2, new.val)
    PROVE  RunSound(new, tasks, os2, c) /\ new.on
<1>1. First(new) = First(r) /\ ~ByAssignments(new, First(new))
    BY DEF SameCourse, First, ByAssignments
<1>2. Placed(r, c) /\ Dated(r)
    BY DEF RunSound
<1>3. Placed(new, c) /\ Dated(new)
    BY <1>2, <1>1 DEF SameCourse, Placed, Dated
<1>4. AtStop(new) /\ Backed(new, os2)
    BY <1>1 DEF SameCourse, AtStop, Backed
<1>5. ASSUME Steady(new, c)
      PROVE  Agrees(new, tasks) /\ Passed(new, tasks) /\ PassedSlots(new)
  <2>1. Agrees(r, tasks) /\ Passed(r, tasks)
      BY <1>5 DEF SameCourse, Steady, RunSound
  <2>2. Slots(First(new)) = {}
      BY <1>1, <1>3, <1>5 DEF Steady, Placed, ByAssignments
  <2>3. PassedSlots(new)
      BY <2>2 DEF PassedSlots
  <2> QED BY <2>1, <2>3 DEF SameCourse, Agrees, Passed
<1>6. new.on
    BY DEF SameCourse
<1> QED BY <1>3, <1>4, <1>5, <1>6 DEF RunSound

\* A meter assignment.
LEMMA GenerateAtReadingKeeps ==
    ASSUME IInv, NEW w \in Runners, GenerateAtReading(w), UNCHANGED telemetry
    PROVE  IInv'
<1> DEFINE t == Current(w)
           i == run[w].slot
           r == run[w]
<1>1. /\ AtSlot(w) /\ Assignment(w).trigger = "meter"
      /\ UNCHANGED <<clock, task, meter, latest, sensed, faults, settled>>
      /\ ingest' = ingest /\ entry' = entry
    BY DEF GenerateAtReading, telemetry
<1>2. /\ Busy(w) /\ ByAssignments(r, First(r)) /\ r.step = "task"
      /\ i \in Slots(t) /\ i \in Nat
      /\ Assignment(w) = Plan[t].assignments[i]
    BY <1>1, AtAssignment
<1>3. /\ r \in RunType /\ r.on /\ r.todo # {}
      /\ Placed(r, clock) /\ AtStop(r) /\ Dated(r) /\ Backed(r, orders)
      /\ Steady(r, clock) => Agrees(r, task) /\ Passed(r, task) /\ PassedSlots(r)
      /\ t = First(r) /\ t \in TaskSet
    BY <1>2, AtWork
<1>4. ~Timed(t, i)
    BY <1>1, <1>2 DEF Timed
<1>5. CASE Reached(LatestValue, meter.base, Assignment(w).threshold)
  <2> DEFINE made == r.made \cup {<<i, Never>>}
             new == [r EXCEPT !.step = "meter", !.val = LatestValue, !.made = made]
  <2>1. /\ Add(NewOrder(<<t, i>>, Never, LatestValue)) /\ Set(w, new)
      BY <1>5 DEF GenerateAtReading
  <2>2. LatestValue \in Nat
      BY ReadingsAreNumbers DEF IInv
  <2>3. made \in SUBSET (Nat \X (Dates \cup {Never}))
      BY <1>2, <1>3 DEF RunType
  <2>4. /\ new \in RunType /\ SameCourse(new, r) /\ new.step = "meter" /\ new.slot = i
        /\ new.val = LatestValue /\ new.made = made
    <3> HIDE DEF made
    <3> QED BY <1>3, <2>2, <2>3 DEF RunType, SameCourse
  <2> HIDE DEF new
  <2>5. First(new) = t
      BY <1>3, <2>4 DEF SameCourse, First
  <2>6. /\ DataTypes' /\ Marked' /\ orders \subseteq orders' /\ Kept(orders, orders')
        /\ Ordered(orders', t) /\ Served(orders', LatestValue) /\ Apart(task, task', clock)
      BY <1>1, <1>2, <1>3, <2>1, <2>2, OrderIsAdded
  <2>7. Placed(new, clock)
      BY <1>3, <2>4 DEF SameCourse, Placed
  <2>8. Dated(new)
    <3>1. \A m \in made : m[2] # Never => m \in r.made
        OBVIOUS
    <3>2. \A m \in made : m[2] # Never => m[1] \in r.dirty[t] /\ m[2] <= r.now
        BY <3>1, <1>3 DEF Dated
    <3> HIDE DEF made
    <3> QED BY <3>2, <1>3, <2>4, <2>5 DEF Dated, SameCourse
  <2>9. AtStop(new) /\ Backed(new, orders')
      BY <1>2, <1>3, <1>4, <2>4, <2>5, <2>6 DEF AtStop, Backed, SameCourse
  <2>10. ASSUME Steady(new, clock)
         PROVE  Agrees(new, task) /\ Passed(new, task) /\ PassedSlots(new)
    <3>1. Agrees(r, task) /\ Passed(r, task) /\ PassedSlots(r)
        BY <2>10, <1>3, <2>4 DEF SameCourse, Steady
    <3>2. PassedSlots(new)
        BY <3>1, <1>3, <2>4, <2>5 DEF PassedSlots, SameCourse
    <3> QED BY <3>1, <3>2, <2>4 DEF SameCourse, Agrees, Passed
  <2>11. RunSound(new, task, orders', clock) /\ new.on
      BY <1>3, <2>4, <2>7, <2>8, <2>9, <2>10 DEF RunSound, SameCourse
  <2>12. /\ run' = [run EXCEPT ![w] = new] /\ ran' \in BOOLEAN
         /\ ran' => ran \/ \A u \in TaskSet : Fresh(task, u, clock)
      BY <2>1, <2>11, SetTells
  <2> QED BY <1>1, <2>6, <2>11, <2>12, RunSteps
<1>6. CASE ~Reached(LatestValue, meter.base, Assignment(w).threshold)
  <2>1. Set(w, NextSlot(r)) /\ orders' = orders
      BY <1>6 DEF GenerateAtReading
  <2>2. /\ DataTypes' /\ Marked' /\ orders \subseteq orders' /\ Kept(orders, orders')
        /\ Apart(task, task', clock)
      BY <1>1, <2>1, NothingIsWritten
  <2>3. ASSUME Steady(r, clock), NEW j \in Slots(t), Timed(t, j), j <= i
        PROVE  Later(r.copy[t][j], r.now)
    <3>1. j < i
        BY <2>3, <1>2, <1>3, <1>4, Schedules
    <3> QED BY <3>1, <2>3, <1>3 DEF PassedSlots
  <2>4. r.made # {} => Ordered(orders, First(r))
      BY <1>3 DEF Backed
  <2>5. RunSound(NextSlot(r), task, orders, clock) /\ Ends(r, NextSlot(r), task, clock)
      BY <1>2, <1>3, <2>3, <2>4, NextSlotIsSound
  <2>6. /\ run' = [run EXCEPT ![w] = NextSlot(r)] /\ ran' \in BOOLEAN
        /\ ran' => ran \/ \A u \in TaskSet : Fresh(task, u, clock)
      BY <2>1, <2>5, SetTells DEF Ends
  <2> QED BY <1>1, <2>1, <2>2, <2>5, <2>6, RunSteps
<1> QED BY <1>5, <1>6

\* The run saves the meter.
LEMMA SaveMeterKeeps ==
    ASSUME IInv, NEW w \in Runners, SaveMeter(w), UNCHANGED telemetry
    PROVE  IInv'
<1> DEFINE t == Current(w)
           r == run[w]
<1>1. /\ Busy(w) /\ r.step = "meter" /\ meter' = Serviced(w)
      /\ Set(w, IF ByAssignments(r, t) THEN NextSlot(r) ELSE [r EXCEPT !.step = "save"])
      /\ UNCHANGED <<clock, task, latest, sensed, orders, faults, settled>>
      /\ ingest' = ingest /\ entry' = entry
    BY DEF SaveMeter, telemetry
<1>2. /\ r \in RunType /\ r.on /\ r.todo # {}
      /\ Placed(r, clock) /\ AtStop(r) /\ Dated(r) /\ Backed(r, orders)
      /\ Steady(r, clock) => Agrees(r, task) /\ Passed(r, task) /\ PassedSlots(r)
      /\ t = First(r) /\ t \in TaskSet
    BY <1>1, AtWork
<1>3. DataTypes' /\ Marked' /\ Kept(orders, orders') /\ Apart(task, task', clock)
  <2>1. r.val \in Nat
      BY <1>2 DEF RunType
  <2>2. /\ meter' \in [current : Nat, base : Nat]
        /\ meter'.base = meter.base \/ (r.val # 0 /\ meter'.base = r.val)
      BY <1>1, <2>1 DEF IInv, DataTypes, Serviced
  <2>3. Marked'
      BY <1>1, <1>2, <2>2 DEF IInv, Marked, Backed, Served, Ordered
  <2>4. DataTypes'
      BY <1>1, <2>2 DEF IInv, DataTypes
  <2> QED BY <1>1, <2>3, <2>4 DEF Kept, Apart
<1>4. CASE ByAssignments(r, t)
  <2>1. r.slot \in Slots(t) /\ ~Timed(t, r.slot)
      BY <1>1, <1>2, <1>4 DEF AtStop
  <2>2. ASSUME Steady(r, clock), NEW j \in Slots(t), Timed(t, j), j <= r.slot
        PROVE  Later(r.copy[t][j], r.now)
    <3>1. j < r.slot
        BY <2>1, <2>2, <1>2, Schedules
    <3> QED BY <3>1, <2>2, <1>2 DEF PassedSlots
  <2>3. r.made # {} => Ordered(orders, First(r))
      BY <1>2 DEF Backed
  <2>4. RunSound(NextSlot(r), task, orders, clock) /\ Ends(r, NextSlot(r), task, clock)
      BY <1>2, <1>4, <2>1, <2>2, <2>3, NextSlotIsSound
  <2>5. /\ run' = [run EXCEPT ![w] = NextSlot(r)] /\ ran' \in BOOLEAN
        /\ ran' => ran \/ \A u \in TaskSet : Fresh(task, u, clock)
      BY <1>1, <1>4, <2>4, SetTells DEF Ends
  <2> QED BY <1>1, <1>3, <2>4, <2>5, RunSteps
<1>5. CASE ~ByAssignments(r, t)
  <2> DEFINE new == [r EXCEPT !.step = "save"]
  <2>1. new \in RunType /\ SamePast(new, r) /\ new.step = "save"
      BY <1>2, PutAtStep
  <2> HIDE DEF new
  <2>2. Set(w, new)
      BY <1>1, <1>5 DEF new
  <2>3. RunSound(r, task, orders, clock)
      BY DEF IInv
  <2>4. r.made # {} => Ordered(orders, First(r))
      BY <1>2 DEF Backed
  <2>5. RunSound(new, task, orders, clock) /\ new.on
      BY <1>2, <1>5, <2>1, <2>3, <2>4, RuleGoesOn DEF SamePast, SameCourse
  <2>6. /\ run' = [run EXCEPT ![w] = new] /\ ran' \in BOOLEAN
        /\ ran' => ran \/ \A u \in TaskSet : Fresh(task, u, clock)
      BY <2>2, <2>5, SetTells
  <2> QED BY <1>1, <1>3, <2>5, <2>6, RunSteps
<1> QED BY <1>4, <1>5

\* The days and hours of a half day.
LEMMA HalfDays ==
    /\ \A d \in Nat : Day(d) \in Nat /\ HourOfDay(d) \in 0 .. 1 /\ d = 2 * Day(d) + HourOfDay(d)
    /\ \A k \in Nat : \A h \in 0 .. 1 : Day(2 * k + h) = k /\ HourOfDay(2 * k + h) = h
BY DEF Day, HourOfDay

\* A week holds every weekday.
LEMMA WeekHoldsDays ==
    ASSUME NEW k \in Nat, NEW wd \in 0 .. 6
    PROVE  \E i \in 1 .. 7 : (k + i) % 7 = wd
OBVIOUS

\* The scan of nextCronOccurrenceWithin finds the first date of the expression.
LEMMA CronFinds ==
    ASSUME NEW cron \in CronType, NEW now \in Nat, now <= MaxClock
    PROVE  LET all == {d \in Dates : d > now /\ Matches(cron, d) /\ HourOfDay(d) = cron.hour}
           IN  /\ NextCronOccurrenceWithin(cron, now, 7) = Min(all)
               /\ Min(all) \in Dates
<1> DEFINE all == {d \in Dates : d > now /\ Matches(cron, d) /\ HourOfDay(d) = cron.hour}
           found == Occurrences(cron, now, 7)
           k == Day(now)
           at(i) == 2 * (k + i) + cron.hour
<1>1. /\ cron.hour \in 0 .. 1 /\ cron.weekday \in 0 .. 6 \cup {Never}
      /\ k \in Nat /\ now = 2 * k + HourOfDay(now) /\ HourOfDay(now) \in 0 .. 1
    BY HalfDays DEF CronType
<1>2. \A i \in Nat : at(i) \in Nat /\ Day(at(i)) = k + i /\ HourOfDay(at(i)) = cron.hour
  <2> TAKE i \in Nat
  <2>1. k + i \in Nat
      BY <1>1
  <2>2. at(i) \in Nat
      BY <1>1
  <2> QED BY <2>1, <2>2, <1>1, HalfDays
<1>3. \A i \in 0 .. 7 : at(i) \in Dates
  <2> TAKE i \in 0 .. 7
  <2>1. at(i) \in Nat /\ at(i) <= now + 15
    <3> HIDE DEF k
    <3> QED BY <1>1
  <2>2. at(i) <= MaxClock + 16 + MaxInterval
    <3> HIDE DEF at
    <3> QED BY <2>1, DataAssumption
  <2> QED BY <2>1, <2>2, DatesAre
<1>4. found = {at(i) : i \in {j \in 0 .. 7 : Matches(cron, at(j)) /\ at(j) > now}}
    BY DEF Occurrences, Candidate
<1>5. found \subseteq all
  <2> HIDE DEF at, k
  <2> QED BY <1>2, <1>3, <1>4
<1>6. found # {}
  <2>1. PICK i \in 1 .. 7 : Matches(cron, at(i))
    <3>1. CASE cron.weekday = Never
        BY <3>1 DEF Matches
    <3>2. CASE cron.weekday \in 0 .. 6
      <4>1. PICK i \in 1 .. 7 : (k + i) % 7 = cron.weekday
        <5> HIDE DEF k
        <5> QED BY <1>1, <3>2, WeekHoldsDays
      <4> HIDE DEF at, k
      <4> QED BY <4>1, <1>2 DEF Matches
    <3> QED BY <3>1, <3>2, <1>1
  <2>2. at(i) > now
    <3> HIDE DEF k
    <3> QED BY <1>1
  <2> HIDE DEF at, k
  <2> QED BY <1>4, <2>1, <2>2
<1>7. \A d \in all : d \in found \/ \A o \in found : o <= d
  <2> SUFFICES ASSUME NEW d \in all, d \notin found, NEW o \in found PROVE o <= d
      OBVIOUS
  <2>1. /\ d \in Nat /\ d > now /\ Matches(cron, d) /\ HourOfDay(d) = cron.hour
        /\ Day(d) \in Nat /\ d = 2 * Day(d) + cron.hour
      BY DatesAre, HalfDays
  <2>2. Day(d) >= k
    <3> HIDE DEF k
    <3> QED BY <1>1, <2>1
  <2>3. Day(d) - k \in Nat /\ d = at(Day(d) - k)
    <3> HIDE DEF k
    <3> QED BY <1>1, <2>1, <2>2
  <2>4. ~(Day(d) - k \in 0 .. 7)
    <3> HIDE DEF at, k
    <3> QED BY <1>4, <2>1, <2>3
  <2>5. PICK i \in 0 .. 7 : o = at(i)
    <3> HIDE DEF at, k
    <3> QED BY <1>4
  <2> HIDE DEF k
  <2> QED BY <1>1, <2>1, <2>3, <2>4, <2>5
<1>8. found \in SUBSET Nat /\ all \in SUBSET Nat /\ all \in SUBSET Dates
    BY <1>5, DatesAre
<1> HIDE DEF all, found
<1>9. Min(found) \in found /\ \A o \in found : Min(found) <= o
    BY <1>6, <1>8, LeastNat
<1>10. all # {}
    BY <1>5, <1>6
<1>11. Min(all) \in all /\ \A d \in all : Min(all) <= d
    BY <1>10, <1>8, LeastNat
<1>12. Min(found) <= Min(all)
    BY <1>7, <1>9, <1>11
<1>13. Min(all) <= Min(found)
    BY <1>5, <1>9, <1>11
<1>14. Min(found) \in Nat /\ Min(all) \in Nat
    BY <1>8, <1>9, <1>11
<1>15. Min(found) = Min(all)
    BY <1>12, <1>13, <1>14
<1>16. NextCronOccurrenceWithin(cron, now, 7) = Min(found)
    BY <1>6 DEF NextCronOccurrenceWithin, found
<1>17. Min(all) \in Dates
    BY <1>11, <1>8
<1> QED BY <1>15, <1>16, <1>17 DEF all

\* A run that looks at a task by its rule.
LEMMA AtItsRule ==
    ASSUME IInv, NEW w \in Runners, AtRule(w)
    PROVE  /\ Busy(w) /\ ~ByAssignments(run[w], First(run[w]))
           /\ run[w].now \in Nat /\ run[w].now <= MaxClock
           /\ Rule(w) \in PlanType
<1>1. Busy(w) /\ ~ByAssignments(run[w], First(run[w]))
    BY DEF AtRule, Current
<1>2. /\ run[w].now \in Nat /\ clock \in Nat /\ run[w].now <= clock /\ clock <= MaxClock
      /\ Current(w) \in TaskSet
    BY <1>1, AtWork
<1>3. run[w].now <= MaxClock
    BY <1>2, DataAssumption
<1> QED BY <1>1, <1>2, <1>3, Schedules DEF Rule

\* A run goes on with a task by its rule: it has made a work order and is at the
\* save of the meter or of the task, or it leaves the task.
LEMMA RuleStepKeeps ==
    ASSUME IInv, NEW w \in Runners, AtRule(w), NEW due \in Dates \cup {Never},
           NEW v \in Nat, NEW new,
           UNCHANGED <<clock, task, meter, latest, sensed, faults, settled>>,
           UNCHANGED telemetry,
           \/ /\ Add(NewOrder(<<Current(w), 0>>, due, v))
              /\ Set(w, new)
              /\ new \in RunType /\ SameCourse(new, run[w]) /\ new.made = {<<0, Never>>}
              /\ new.step = "meter" /\ new.val # 0 => new.val = v
           \/ Set(w, NextTask(run[w])) /\ UNCHANGED orders
    PROVE  IInv'
<1> DEFINE t == Current(w)
           r == run[w]
<1>1. Busy(w) /\ ~ByAssignments(r, First(r))
    BY AtItsRule
<1>2. /\ r \in RunType /\ r.on /\ r.todo # {}
      /\ Placed(r, clock) /\ Dated(r)
      /\ Steady(r, clock) => Agrees(r, task) /\ Passed(r, task)
      /\ t = First(r) /\ t \in TaskSet
    BY <1>1, AtWork
<1>3. RunSound(r, task, orders, clock)
    BY DEF IInv
<1>4. ingest' = ingest /\ entry' = entry
    BY DEF telemetry
<1>5. CASE /\ Add(NewOrder(<<t, 0>>, due, v))
           /\ Set(w, new)
           /\ new \in RunType /\ SameCourse(new, run[w]) /\ new.made = {<<0, Never>>}
           /\ new.step = "meter" /\ new.val # 0 => new.val = v
  <2>4. /\ DataTypes' /\ Marked' /\ orders \subseteq orders' /\ Kept(orders, orders')
        /\ Ordered(orders', t) /\ Served(orders', v) /\ Apart(task, task', clock)
    <3>1. 0 \in Slots(t) \cup {0}
        OBVIOUS
    <3> QED BY <1>2, <1>4, <1>5, <3>1, OrderIsAdded
  <2>5. \A m \in new.made : m[2] = Never
      BY <1>5
  <2>6. new.step = "meter" /\ new.val # 0 => Served(orders', new.val)
      BY <1>5, <2>4
  <2>7. RunSound(new, task, orders', clock) /\ new.on
    <3>1. new \in RunType /\ SameCourse(new, r) /\ \A m \in new.made : m \in r.made \/ m[2] = Never
        BY <1>5, <2>5
    <3>2. Ordered(orders', First(r))
        BY <1>2, <2>4
    <3>3. r.on /\ r.todo # {} /\ ~ByAssignments(r, First(r))
        BY <1>1, <1>2
    <3> HIDE DEF r
    <3> QED BY <1>3, <2>6, <3>1, <3>2, <3>3, RuleGoesOn
  <2>8. /\ run' = [run EXCEPT ![w] = new] /\ ran' \in BOOLEAN
        /\ ran' => ran \/ \A u \in TaskSet : Fresh(task, u, clock)
      BY <1>5, <2>7, SetTells
  <2> QED BY <1>4, <2>4, <2>7, <2>8, RunSteps
<1>6. CASE Set(w, NextTask(r)) /\ UNCHANGED orders
  <2>1. /\ DataTypes' /\ Marked' /\ orders \subseteq orders' /\ Kept(orders, orders')
        /\ Apart(task, task', clock)
      BY <1>4, <1>6, NothingIsWritten
  <2>2. Steady(r, clock) => Fresh(task, First(r), r.now)
      BY <1>1, <1>2 DEF Steady, Placed, ByAssignments, Fresh
  <2>3. RunSound(NextTask(r), task, orders, clock) /\ Ends(r, NextTask(r), task, clock)
      BY <1>2, <2>2, NextTaskIsSound
  <2>4. /\ run' = [run EXCEPT ![w] = NextTask(r)] /\ ran' \in BOOLEAN
        /\ ran' => ran \/ \A u \in TaskSet : Fresh(task, u, clock)
      BY <1>6, <2>3, SetTells DEF Ends
  <2> QED BY <1>4, <1>6, <2>1, <2>3, <2>4, RunSteps
<1> QED BY <1>5, <1>6

\* A task without assignments, by its cron expression.
LEMMA GenerateByCronKeeps ==
    ASSUME IInv, NEW w \in Runners, GenerateByCron(w), UNCHANGED telemetry
    PROVE  IInv'
<1> DEFINE next == NextCronOccurrenceWithin(Rule(w).cron, run[w].now, 7)
<1>1. AtRule(w) /\ UNCHANGED <<clock, task, meter, latest, sensed, faults, settled>>
    BY DEF GenerateByCron
<1>2. /\ run[w] \in RunType
      /\ run[w].now \in Nat /\ run[w].now <= MaxClock /\ Rule(w).cron \in CronType
    BY <1>1, AtItsRule, AtWork DEF PlanType
<1>3. next \in Dates
    BY <1>2, CronFinds
<1>4. CASE next = Never
  <2>1. Set(w, NextTask(run[w])) /\ UNCHANGED orders
      BY <1>4 DEF GenerateByCron
  <2>2. 0 \in Nat
      OBVIOUS
  <2> HIDE DEF next
  <2> QED BY <1>1, <1>3, <2>1, <2>2, RuleStepKeeps
<1>5. CASE next # Never
  <2> DEFINE new == [run[w] EXCEPT !.step = "save", !.made = {<<0, Never>>}]
  <2>1. /\ Add(NewOrder(<<Current(w), 0>>, next, 0))
        /\ Set(w, new)
      BY <1>5 DEF GenerateByCron
  <2>2. {<<0, Never>>} \in SUBSET (Nat \X (Dates \cup {Never}))
      OBVIOUS
  <2>3. /\ new \in RunType /\ SameCourse(new, run[w]) /\ new.made = {<<0, Never>>}
        /\ new.step = "save"
      BY <1>2, <2>2 DEF RunType, SameCourse
  <2>4. 0 \in Nat /\ next \in Dates \cup {Never}
      BY <1>3
  <2> HIDE DEF next, new
  <2> QED BY <1>1, <2>1, <2>3, <2>4, RuleStepKeeps
<1> QED BY <1>4, <1>5

\* A task without assignments, by the meter it names.
LEMMA GenerateByMeterKeeps ==
    ASSUME IInv, NEW w \in Runners, GenerateByMeter(w), UNCHANGED telemetry
    PROVE  IInv'
<1> DEFINE value == meter.current
<1>1. AtRule(w) /\ UNCHANGED <<clock, task, meter, latest, sensed, faults, settled>>
    BY DEF GenerateByMeter
<1>2. run[w] \in RunType
    BY <1>1, AtItsRule, AtWork
<1>3. value \in Nat /\ Never \in Dates \cup {Never}
    BY ReadingsAreNumbers DEF IInv
<1>4. CASE Reached(value, meter.base, Rule(w).threshold)
  <2> DEFINE v == IF value = meter.base THEN 0 ELSE value
             new == [run[w] EXCEPT !.step = "meter", !.made = {<<0, Never>>}, !.val = v]
  <2>1. Add(NewOrder(<<Current(w), 0>>, Never, value)) /\ Set(w, new)
      BY <1>4 DEF GenerateByMeter
  <2>2. {<<0, Never>>} \in SUBSET (Nat \X (Dates \cup {Never}))
      OBVIOUS
  <2>3. v \in Nat /\ (v # 0 => v = value)
      BY <1>3
  <2>4. /\ new \in RunType /\ SameCourse(new, run[w]) /\ new.made = {<<0, Never>>}
        /\ new.val = v
    <3> HIDE DEF v
    <3> QED BY <1>2, <2>2, <2>3 DEF RunType, SameCourse
  <2> HIDE DEF value, v, new
  <2> QED BY <1>1, <1>3, <2>1, <2>3, <2>4, RuleStepKeeps
<1>5. CASE ~Reached(value, meter.base, Rule(w).threshold)
  <2>1. Set(w, NextTask(run[w])) /\ UNCHANGED orders
      BY <1>5 DEF GenerateByMeter
  <2> HIDE DEF value
  <2> QED BY <1>1, <1>3, <2>1, RuleStepKeeps
<1> QED BY <1>4, <1>5

\* The run saves the task.
LEMMA SaveTaskKeeps ==
    ASSUME IInv, NEW w \in Runners, SaveTask(w), UNCHANGED telemetry
    PROVE  IInv'
<1> DEFINE t == Current(w)
           r == run[w]
           doc == Written(r, t, task[t])
<1>1. /\ Busy(w) /\ r.step = "save" /\ task' = [task EXCEPT ![t] = doc]
      /\ settled' = settled \cup {<<t, m[1], m[2]>> : m \in {x \in r.made : x[2] # Never}}
      /\ Set(w, NextTask(r))
      /\ UNCHANGED <<clock, meter, latest, sensed, orders, faults>>
      /\ ingest' = ingest /\ entry' = entry
    BY DEF SaveTask, telemetry
<1>2. /\ r \in RunType /\ r.on /\ r.todo # {}
      /\ Placed(r, clock) /\ AtStop(r) /\ Dated(r) /\ Backed(r, orders)
      /\ Steady(r, clock) => Agrees(r, task) /\ Passed(r, task) /\ PassedSlots(r)
      /\ t = First(r) /\ t \in TaskSet
      /\ clock \in Nat /\ clock <= MaxClock
      /\ r.now \in Nat /\ r.now <= clock /\ clock <= r.now + 1
    BY <1>1, AtWork
<1>3. /\ task \in [TaskSet -> TaskType] /\ task[t] \in TaskType
      /\ DOMAIN task[t].nextDue = Slots(t) /\ DataTypes /\ Recorded /\ Marked
    BY <1>2 DEF IInv, DataTypes
<1>4. \A i \in Slots(t) : r.copy[t][i] \in Dates \cup {Never}
    BY <1>2, CopyIsDated DEF Placed
<1>5. \A i \in Slots(t) : task[t].nextDue[i] \in Dates \cup {Never}
    BY <1>2, <1>3, DocumentIsDated
<1> DEFINE dates == [i \in Slots(t) |-> IF i \in r.dirty[t] THEN r.copy[t][i] ELSE task[t].nextDue[i]]
           g == (task[t].generated \/ r.made # {})
<1>6. dates \in Seq(Dates \cup {Never})
  <2>1. PICK n \in Nat : Slots(t) = 1 .. n
    <3>1. Plan[t].assignments \in Seq(AssignmentType)
        BY <1>2, Schedules DEF PlanType
    <3> QED BY <3>1 DEF Slots
  <2>2. dates \in [1 .. n -> Dates \cup {Never}]
      BY <1>4, <1>5, <2>1
  <2> HIDE DEF dates
  <2> QED BY <2>2
<1>7. doc = [task[t] EXCEPT !.nextDue = dates, !.generated = g]
    BY <1>3, Zenon DEF Written
<1>8. g \in BOOLEAN
    OBVIOUS
<1>9. \A i \in Slots(t) : dates[i] = IF i \in r.dirty[t] THEN r.copy[t][i] ELSE task[t].nextDue[i]
    OBVIOUS
<1>10. DOMAIN dates = Slots(t)
    OBVIOUS
<1> HIDE DEF doc, dates
<1>11. doc \in TaskType /\ doc.nextDue = dates /\ doc.generated = g
  <2> HIDE DEF g
  <2> QED BY <1>3, <1>6, <1>7, <1>8 DEF TaskType
<1>12. /\ task' \in [TaskSet -> TaskType]
       /\ \A u \in TaskSet : task'[u] = IF u = t THEN doc ELSE task[u]
    BY <1>1, <1>2, <1>3, <1>11
<1>13. DataTypes'
    BY <1>1, <1>10, <1>11, <1>12 DEF IInv, DataTypes
<1>14. ASSUME NEW i \in r.dirty[t]
       PROVE  i \in Slots(t) /\ Later(dates[i], clock) /\ Later(dates[i], r.now)
  <2>1. i \in Slots(t) /\ Timed(t, i) /\ r.copy[t][i] = r.now + Plan[t].assignments[i].every
      BY <1>2, <1>14 DEF Dated
  <2>2. Later(r.copy[t][i], clock) /\ Later(r.copy[t][i], r.now)
      BY <1>2, <2>1, NextDueIsDate
  <2> QED BY <2>1, <2>2, <1>9, <1>14
<1>15. Apart(task, task', clock)
    BY <1>9, <1>11, <1>12, <1>14 DEF Apart
<1>16. Marked'
  <2>1. ASSUME NEW u \in TaskSet, task'[u].generated PROVE Ordered(orders, u)
    <3>1. CASE u = t /\ r.made # {}
        BY <3>1, <1>2 DEF Backed
    <3>2. CASE ~(u = t /\ r.made # {})
      <4>1. task[u].generated
          BY <2>1, <3>2, <1>11, <1>12
      <4> QED BY <4>1, <1>3 DEF Marked
    <3> QED BY <3>1, <3>2
  <2> QED BY <2>1, <1>1, <1>3 DEF Marked
<1>17. Recorded'
  <2> DEFINE new == {<<t, m[1], m[2]>> : m \in {x \in r.made : x[2] # Never}}
  <2>1. ASSUME NEW s \in settled
        PROVE  /\ s \in TaskSet \X Nat \X Dates
               /\ s[2] \in Slots(s[1]) /\ s[3] <= clock /\ Later(task'[s[1]].nextDue[s[2]], s[3])
    <3>1. /\ s \in TaskSet \X Nat \X Dates /\ s[3] \in Nat
          /\ s[2] \in Slots(s[1]) /\ s[3] <= clock /\ Later(task[s[1]].nextDue[s[2]], s[3])
        BY <1>3, <2>1, DatesAre DEF Recorded
    <3>2. CASE task'[s[1]].nextDue[s[2]] = task[s[1]].nextDue[s[2]]
        BY <3>1, <3>2
    <3>3. CASE Later(task'[s[1]].nextDue[s[2]], clock)
      <4>1. s[1] = t \/ task'[s[1]] = task[s[1]]
          BY <3>1, <1>12
      <4>2. CASE s[1] = t
        <5>1. task'[s[1]].nextDue[s[2]] \in Dates \cup {Never}
            BY <4>2, <3>1, <1>4, <1>5, <1>9, <1>11, <1>12
        <5> QED BY <5>1, <3>1, <3>3, <1>2, LaterThanBefore
      <4> QED BY <4>1, <4>2, <3>1
    <3> QED BY <3>1, <3>2, <3>3, <1>15 DEF Apart
  <2>2. ASSUME NEW m \in r.made, m[2] # Never
        PROVE  /\ m[1] \in Slots(t) /\ m[1] \in Nat /\ m[2] \in Dates
               /\ m[2] <= clock /\ Later(task'[t].nextDue[m[1]], m[2])
    <3>1. m[1] \in r.dirty[t] /\ m[2] <= r.now /\ m[1] \in Nat /\ m[2] \in Dates
        BY <2>2, <1>2 DEF Dated, RunType
    <3>2. m[1] \in Slots(t) /\ Later(dates[m[1]], r.now)
        BY <3>1, <1>14
    <3>3. dates[m[1]] \in Dates \cup {Never}
        BY <3>2, <1>4, <1>5, <1>9
    <3>4. Later(dates[m[1]], m[2]) /\ m[2] <= clock
      <4>1. m[2] \in Nat
          BY <3>1, DatesAre
      <4> QED BY <3>1, <3>2, <3>3, <4>1, <1>2, LaterThanBefore
    <3> QED BY <3>1, <3>2, <3>4, <1>2, <1>11, <1>12
  <2>3. ASSUME NEW s \in new
        PROVE  /\ s \in TaskSet \X Nat \X Dates
               /\ s[2] \in Slots(s[1]) /\ s[3] <= clock /\ Later(task'[s[1]].nextDue[s[2]], s[3])
    <3>1. PICK m \in r.made : m[2] # Never /\ s = <<t, m[1], m[2]>>
        BY <2>3
    <3>2. s[1] = t /\ s[2] = m[1] /\ s[3] = m[2]
        BY <3>1
    <3> QED BY <3>1, <3>2, <2>2, <1>2
  <2>4. settled' = settled \cup new /\ clock' = clock
      BY <1>1
  <2> HIDE DEF new
  <2>5. \A s \in settled' :
            /\ s \in TaskSet \X Nat \X Dates
            /\ s[2] \in Slots(s[1]) /\ s[3] <= clock' /\ Later(task'[s[1]].nextDue[s[2]], s[3])
      BY <2>1, <2>3, <2>4
  <2>6. settled' \subseteq TaskSet \X Nat \X Dates
      BY <2>5
  <2> QED BY <2>5, <2>6 DEF Recorded
<1>18. Kept(orders, orders') /\ orders \subseteq orders'
    BY <1>1 DEF Kept
<1>19. ASSUME Steady(r, clock)
       PROVE  Agrees(r, task') /\ Passed(r, task') /\ Fresh(task', t, r.now)
  <2>1. RunSound(r, task', orders', clock)
    <3>1. RunSound(r, task, orders, clock)
        BY DEF IInv
    <3> QED BY <3>1, <1>15, <1>18, RunBears
  <2>2. Agrees(r, task') /\ Passed(r, task')
      BY <2>1, <1>2, <1>19 DEF RunSound
  <2>3. Agrees(r, task) /\ PassedSlots(r)
      BY <1>2, <1>19
  <2>4. ASSUME NEW i \in Slots(t), Timed(t, i) PROVE Later(dates[i], r.now)
    <3>1. Later(r.copy[t][i], r.now)
        BY <2>3, <2>4, <1>1, <1>2 DEF PassedSlots
    <3>2. CASE i \in r.dirty[t]
        BY <3>2, <1>14
    <3>3. CASE i \notin r.dirty[t]
        BY <3>1, <3>3, <2>3, <2>4, <1>2, <1>9 DEF Agrees
    <3> QED BY <3>2, <3>3
  <2>5. Fresh(task', t, r.now)
      BY <2>4, <1>2, <1>11, <1>12 DEF Fresh
  <2> QED BY <2>2, <2>5
<1>20. RunSound(NextTask(r), task', orders', clock) /\ Ends(r, NextTask(r), task', clock)
    BY <1>2, <1>19, NextTaskIsSound
<1>21. /\ run' = [run EXCEPT ![w] = NextTask(r)] /\ ran' \in BOOLEAN
       /\ ran' => ran \/ \A u \in TaskSet : Fresh(task', u, clock)
    BY <1>1, <1>20, SetTells DEF Ends
<1> QED BY <1>1, <1>13, <1>15, <1>16, <1>17, <1>18, <1>20, <1>21, RunSteps

\* A call throws: the run leaves the task, or the call of the endpoint ends.
LEMMA FailKeeps ==
    ASSUME IInv, NEW w \in Runners, Fail(w), UNCHANGED telemetry
    PROVE  IInv'
<1> DEFINE r == [run[w] EXCEPT !.clean = FALSE]
           new == IF run[w].byHand THEN Idle ELSE NextTask(r)
<1>1. /\ Busy(w) /\ faults' = faults + 1 /\ run' = [run EXCEPT ![w] = new]
      /\ UNCHANGED <<clock, task, meter, latest, sensed, orders, ran, settled>>
      /\ ingest' = ingest /\ entry' = entry
    BY DEF Fail, telemetry
<1>2. /\ run[w] \in RunType /\ run[w].on /\ run[w].todo # {}
      /\ Placed(run[w], clock) /\ Dated(run[w])
    BY <1>1, AtWork
<1>3. /\ r \in RunType /\ r.clean = FALSE /\ r.on = run[w].on /\ r.now = run[w].now
      /\ r.todo = run[w].todo /\ r.copy = run[w].copy /\ r.dirty = run[w].dirty
      /\ r.made = run[w].made /\ r.settled = run[w].settled /\ r.byHand = run[w].byHand
    BY <1>2 DEF RunType
<1> HIDE DEF r
<1>4. Placed(r, clock) /\ Dated(r) /\ ~Steady(r, clock)
    BY <1>2, <1>3 DEF Placed, Dated, Steady, First
<1>5. RunSound(NextTask(r), task, orders, clock)
    BY <1>2, <1>3, <1>4, NextTaskIsSound
<1>6. RunSound(new, task, orders, clock)
    BY <1>5, IdleIsSound
<1>7. DataTypes' /\ Marked' /\ Kept(orders, orders') /\ Apart(task, task', clock)
    BY <1>1 DEF IInv, DataTypes, Marked, Served, Ordered, Kept, Apart
<1>8. ran' \in BOOLEAN
    BY <1>1 DEF IInv
<1> HIDE DEF new
<1> QED BY <1>1, <1>6, <1>7, <1>8, RunSteps

\* The process of a run dies.
LEMMA CrashKeeps ==
    ASSUME IInv, NEW w \in Runners, Crash(w), UNCHANGED telemetry
    PROVE  IInv'
<1>1. /\ faults' = faults + 1 /\ run' = [run EXCEPT ![w] = Idle]
      /\ UNCHANGED <<clock, task, meter, latest, sensed, orders, ran, settled>>
      /\ ingest' = ingest /\ entry' = entry
    BY DEF Crash, telemetry
<1>2. RunSound(Idle, task, orders, clock)
    BY IdleIsSound
<1>3. DataTypes' /\ Marked' /\ Kept(orders, orders') /\ Apart(task, task', clock)
    BY <1>1 DEF IInv, DataTypes, Marked, Served, Ordered, Kept, Apart
<1>4. ran' \in BOOLEAN
    BY <1>1 DEF IInv
<1> QED BY <1>1, <1>2, <1>3, <1>4, RunSteps

\* A work order of a rule is added.
LEMMA RuleOrderIsAdded ==
    ASSUME IInv, NEW q \in Rules, orders' = orders \cup {NewOrder(<<q, 0>>, Never, 0)},
           UNCHANGED <<clock, task, meter, latest, sensed, faults>>, entry' = entry
    PROVE  /\ DataTypes' /\ Marked' /\ orders \subseteq orders' /\ Kept(orders, orders')
           /\ Apart(task, task', clock)
           /\ \E o \in orders' : o.trigger = <<q, 0>>
<1> DEFINE o == NewOrder(<<q, 0>>, Never, 0)
<1>1. o \in OrderType /\ o.trigger = <<q, 0>>
  <2>1. <<q, 0>> \in Triggers
      BY DEF Triggers
  <2> QED BY <2>1 DEF NewOrder, OrderType
<1> HIDE DEF o
<1>2. orders' = orders \cup {o}
    BY DEF o
<1>3. Marked'
    BY <1>2, MarksBear DEF IInv
<1>4. DataTypes'
    BY <1>1, <1>2 DEF IInv, DataTypes
<1> QED BY <1>1, <1>2, <1>3, <1>4 DEF Kept, Apart

\* The run looks at a condition rule, after the tasks.
LEMMA CheckConditionKeeps ==
    ASSUME IInv, NEW w \in Runners, NEW q \in Rules, CheckCondition(w, q), UNCHANGED telemetry
    PROVE  IInv'
<1> DEFINE r == run[w]
           n == [run[w] EXCEPT !.left = @ \ {q}]
<1>1. /\ r.on /\ r.todo = {} /\ Set(w, Enter(n))
      /\ orders' = orders \/ orders' = orders \cup {NewOrder(<<q, 0>>, Never, 0)}
      /\ UNCHANGED <<clock, task, meter, latest, sensed, faults, settled>>
      /\ ingest' = ingest /\ entry' = entry
    BY DEF CheckCondition, telemetry, Add
<1>2. /\ DataTypes' /\ Marked' /\ orders \subseteq orders' /\ Kept(orders, orders')
      /\ Apart(task, task', clock)
  <2>1. CASE orders' = orders
      BY <2>1, <1>1, NothingIsWritten
  <2>2. CASE orders' = orders \cup {NewOrder(<<q, 0>>, Never, 0)}
      BY <2>2, <1>1, RuleOrderIsAdded
  <2> QED BY <2>1, <2>2, <1>1
<1>3. /\ r \in RunType /\ Placed(r, clock) /\ Dated(r) /\ AtStop(r)
      /\ Steady(r, clock) => Agrees(r, task) /\ Passed(r, task)
    BY <1>1 DEF IInv, RunSound
<1>4. /\ n \in RunType /\ n.on = r.on /\ n.byHand = r.byHand /\ n.clean = r.clean
      /\ n.now = r.now /\ n.todo = r.todo /\ n.copy = r.copy /\ n.dirty = r.dirty
      /\ n.made = r.made /\ n.settled = r.settled /\ n.step = r.step
    BY <1>3 DEF RunType
<1> HIDE DEF n
<1>5. Placed(n, clock) /\ Dated(n)
    BY <1>3, <1>4 DEF Placed, Dated, First
<1>6. Steady(n, clock) => Agrees(n, task) /\ Passed(n, task)
    BY <1>3, <1>4 DEF Steady, Agrees, Passed
<1>7. Ready(n, task, clock)
    BY <1>1, <1>3, <1>4, <1>5, <1>6 DEF Ready, AtStop
<1>8. RunSound(Enter(n), task, orders', clock)
    BY <1>7, EnterIsSound
<1>9. Steady(r, clock) => \A t \in TaskSet : Fresh(task, t, clock)
    BY <1>1, <1>3 DEF Passed, Steady
<1>10. /\ run' = [run EXCEPT ![w] = Enter(n)] /\ ran' \in BOOLEAN
       /\ ran' => ran \/ \A t \in TaskSet : Fresh(task, t, clock)
    BY <1>1, <1>9, SetTells
<1> QED BY <1>1, <1>2, <1>8, <1>10, RunSteps

\* Half a day goes by.
LEMMA TickKeeps ==
    ASSUME IInv, Tick, UNCHANGED telemetry
    PROVE  IInv'
<1>1. /\ clock < MaxClock /\ ran /\ RunsAreShort /\ clock' = clock + 1 /\ ran' = FALSE
      /\ UNCHANGED <<task, meter, latest, sensed, orders, faults, run, settled>>
      /\ ingest' = ingest /\ entry' = entry
    BY DEF Tick, telemetry
<1>2. DataTypes /\ Recorded /\ Marked /\ clock \in Nat /\ MaxClock \in Nat
    BY DataAssumption DEF IInv, DataTypes
<1>3. DataTypes'
  <2>1. clock' \in 0 .. MaxClock
      BY <1>1, <1>2
  <2> QED BY <1>1, <1>2, <2>1 DEF DataTypes
<1>4. ASSUME NEW w \in Runners PROVE RunSound(run[w], task, orders, clock + 1)
  <2>1. RunSound(run[w], task, orders, clock) /\ (run[w].on => run[w].now = clock)
      BY <1>1 DEF IInv, RunsAreShort
  <2> QED BY <2>1, <1>2, RunOutlasts
<1>5. Recorded'
  <2>1. \A s \in settled : s[3] <= clock + 1
    <3> TAKE s \in settled
    <3>1. s[3] \in Nat /\ s[3] <= clock
        BY <1>2, DatesAre DEF Recorded
    <3> QED BY <3>1, <1>2
  <2> QED BY <2>1, <1>1, <1>2 DEF Recorded
<1>6. DatesKeepUp'
  <2> SUFFICES ASSUME NEW t \in TaskSet, NEW i \in Slots(t), Timed(t, i)
               PROVE  task[t].nextDue[i] >= clock + 1
      BY <1>1 DEF DatesKeepUp
  <2>1. Later(task[t].nextDue[i], clock)
      BY <1>1 DEF IInv, Ahead, Fresh
  <2>2. task[t].nextDue[i] \in Nat
      BY <2>1, <1>2, DocumentIsDated, DatesAre DEF Later
  <2> QED BY <2>1, <2>2, <1>2 DEF Later
<1>7. Marked'
    BY <1>1, <1>2 DEF Marked, Served, Ordered
<1> QED BY <1>1, <1>3, <1>4, <1>5, <1>6, <1>7 DEF IInv, Ahead

----------------------------------------------------------------------------
\* The steps of the telemetry service.

\* The runs bear a step of the service: what has to be shown of it.
LEMMA ServiceSteps ==
    ASSUME IInv, UNCHANGED scheduler, clock' = clock, DataTypes', Kept(orders, orders'),
           \A t \in TaskSet : task'[t].nextDue = task[t].nextDue, Marked',
           ingest' \in [Deliveries -> IngestType],
           \A c \in Deliveries : CallSound(ingest'[c], orders')
    PROVE  IInv'
<1>1. run' = run /\ ran' = ran /\ settled' = settled
    BY DEF scheduler
<1>2. Apart(task, task', clock)
    BY DEF Apart
<1>3. \A w \in Runners : RunSound(run[w], task', orders', clock)
    BY <1>2, RunBears DEF IInv
<1>4. DatesKeepUp' /\ Recorded' /\ (ran' => \A t \in TaskSet : Fresh(task', t, clock))
    BY <1>1, <1>2, DatesBear DEF IInv, Ahead
<1>5. Ahead'
    BY <1>4 DEF Ahead
<1> QED BY <1>1, <1>3, <1>4, <1>5 DEF IInv

\* One call goes on as new, and no work order goes.
LEMMA CallSteps ==
    ASSUME IInv, NEW c \in Deliveries, NEW new, UNCHANGED scheduler, clock' = clock,
           ingest' = [ingest EXCEPT ![c] = new], DataTypes', orders \subseteq orders',
           \A t \in TaskSet : task'[t].nextDue = task[t].nextDue, Marked',
           CallSound(new, orders')
    PROVE  IInv'
<1>1. Kept(orders, orders')
    BY DEF Kept
<1>2. new \in IngestType
    BY DEF CallSound
<1>3. ingest' \in [Deliveries -> IngestType]
    BY <1>2 DEF IInv
<1>4. ASSUME NEW d \in Deliveries PROVE CallSound(ingest'[d], orders')
  <2>1. CallSound(ingest[d], orders')
      BY CallBears DEF IInv
  <2>2. ingest'[d] = IF d = c THEN new ELSE ingest[d]
      BY DEF IInv
  <2> QED BY <2>1, <2>2
<1> QED BY <1>1, <1>3, <1>4, ServiceSteps

\* The newest reading of a batch is one of its readings.
LEMMA NewestIsReading ==
    ASSUME NEW b \in Seq(Readings), b # <<>>
    PROVE  /\ Newest(b) \in Readings /\ Newest(b) \in Nat
           /\ Value[Newest(b)] \in Nat /\ Value[Newest(b)] # 0
<1>1. Value \in Seq(Nat \ {0})
    BY DataAssumption
<1>2. Readings = 1 .. Len(Value) /\ Len(Value) \in Nat
    BY <1>1 DEF Readings
<1>3. Range(b) \in SUBSET (0 .. Len(Value))
    BY <1>2, ElementOfSeq DEF Range
<1>4. Range(b) # {} /\ Range(b) \subseteq Readings
  <2>1. 1 \in DOMAIN b
      OBVIOUS
  <2> QED BY <2>1, ElementOfSeq DEF Range
<1>5. Newest(b) \in Range(b)
    BY <1>2, <1>3, <1>4, GreatestNat DEF Newest
<1>6. Newest(b) \in Readings
    BY <1>4, <1>5
<1>7. Value[Newest(b)] \in Nat \ {0}
    BY <1>1, <1>2, <1>6, ElementOfSeq
<1> QED BY <1>2, <1>6, <1>7

\* The newer of two readings.
LEMMA NewerIsReading ==
    ASSUME NEW a \in Readings \cup {0}, NEW b \in Readings \cup {0}
    PROVE  MaxDate(a, b) \in Readings \cup {0}
BY DEF MaxDate

\* A call that is over is sound.
LEMMA OverIsSound ==
    ASSUME NEW i \in IngestType, NEW os
    PROVE  CallSound(Over(i), os)
<1>1. <<>> \in Seq(Readings)
    OBVIOUS
<1>2. NoMeter \in [current : Nat, base : Nat]
    BY DEF NoMeter
<1>3. /\ Over(i) \in IngestType /\ Over(i).step = "done" /\ Over(i).open = {}
  <2> HIDE DEF NoMeter
  <2> QED BY <1>1, <1>2 DEF Over, IngestType
<1> QED BY <1>3 DEF CallSound

\* A call that goes on after a rule is sound.
LEMMA AfterIsSound ==
    ASSUME NEW i \in IngestType, NEW os, NEW q \in Rules, i.batch # <<>>,
           i.pos \in 1 .. Len(i.batch), \A r \in i.open : \E o \in os : o.trigger = <<r, 0>>
    PROVE  CallSound(After(i, q), os)
<1>1. i.batch \in Seq(Readings) /\ Len(i.batch) \in Nat
    BY DEF IngestType
<1>2. CASE i.left # {q}
  <2> DEFINE left == i.left \ {q}
             new == [i EXCEPT !.step = "rules", !.rule = Never, !.left = left]
  <2>1. left \in SUBSET Rules
      BY DEF IngestType
  <2>2. After(i, q) = new
      BY <1>2 DEF After, IngestType
  <2>3. /\ new \in IngestType /\ new.step = "rules" /\ new.open = i.open
        /\ new.batch = i.batch /\ new.pos = i.pos
    <3> HIDE DEF left
    <3> QED BY <2>1 DEF IngestType
  <2> HIDE DEF new
  <2> QED BY <2>2, <2>3 DEF CallSound
<1>3. CASE i.left = {q} /\ i.pos < Len(i.batch)
  <2> DEFINE pos == i.pos + 1
             new == [i EXCEPT !.step = "rules", !.rule = Never, !.left = Rules, !.pos = pos]
  <2>1. pos \in 1 .. Len(i.batch) /\ pos \in Nat
      BY <1>1, <1>3
  <2>2. After(i, q) = new
      BY <1>3 DEF After, IngestType
  <2>3. /\ new \in IngestType /\ new.step = "rules" /\ new.open = i.open
        /\ new.batch = i.batch /\ new.pos = pos
    <3> HIDE DEF pos
    <3> QED BY <2>1 DEF IngestType
  <2> HIDE DEF new
  <2> QED BY <2>1, <2>2, <2>3 DEF CallSound
<1>4. CASE i.left = {q} /\ ~(i.pos < Len(i.batch)) /\ i.meters
  <2> DEFINE new == [i EXCEPT !.step = "meter", !.rule = Never, !.left = {}]
  <2>1. After(i, q) = new
      BY <1>4 DEF After
  <2>2. /\ new \in IngestType /\ new.step = "meter" /\ new.open = i.open
        /\ new.batch = i.batch /\ new.pos = i.pos
      BY DEF IngestType
  <2> HIDE DEF new
  <2> QED BY <2>1, <2>2 DEF CallSound
<1>5. CASE i.left = {q} /\ ~(i.pos < Len(i.batch)) /\ ~i.meters
  <2>1. After(i, q) = Over(i)
      BY <1>5 DEF After
  <2> QED BY <2>1, OverIsSound
<1> QED BY <1>2, <1>3, <1>4, <1>5

\* What is known of a call that is under way.
LEMMA CallIsSound ==
    ASSUME IInv, NEW c \in Deliveries
    PROVE  /\ ingest[c] \in IngestType /\ CallSound(ingest[c], orders)
           /\ ingest[c].step \notin {"idle", "done"} =>
                  /\ ingest[c].batch # <<>> /\ ingest[c].pos \in 1 .. Len(ingest[c].batch)
                  /\ ingest[c].batch \in Seq(Readings)
                  /\ AtMeter(c) \in Nat /\ AtMeter(c) # 0
                  /\ Newest(ingest[c].batch) \in Readings
<1>1. ingest[c] \in IngestType /\ CallSound(ingest[c], orders)
    BY DEF IInv
<1>2. ingest[c].batch \in Seq(Readings)
    BY <1>1 DEF IngestType
<1> QED BY <1>1, <1>2, NewestIsReading DEF CallSound, AtMeter

\* A call arrives.
LEMMA ReceiveKeeps ==
    ASSUME IInv, NEW c \in Deliveries, NEW b \in Batches, Receive(c, b), UNCHANGED scheduler
    PROVE  IInv'
<1> DEFINE i == ingest[c]
           new == [ingest[c] EXCEPT !.step = "rules", !.batch = b.readings, !.meters = b.meters,
                                    !.left = Rules, !.open = OpenRules]
<1>1. /\ i.step = "idle" /\ sensed' = MaxDate(sensed, Newest(b.readings))
      /\ ingest' = [ingest EXCEPT ![c] = new]
      /\ UNCHANGED <<clock, task, meter, latest, orders, faults, entry>>
    BY DEF Receive, Put
<1>2. b.readings \in Seq(Readings) /\ b.readings # <<>> /\ b.meters \in BOOLEAN
    BY BoundsAssumption
<1>3. sensed' \in Readings \cup {0}
    BY <1>1, <1>2, NewestIsReading, NewerIsReading DEF IInv, DataTypes
<1>4. DataTypes' /\ Marked'
    BY <1>1, <1>3 DEF IInv, DataTypes, Marked, Served, Ordered
<1>5. i \in IngestType /\ i.pos = 1
    BY <1>1, CallIsSound DEF CallSound
<1>6. OpenRules \in SUBSET Rules /\ \A r \in OpenRules : \E o \in orders : o.trigger = <<r, 0>>
    BY DEF OpenRules, HasOpenOrder
<1>7. /\ new \in IngestType /\ new.step = "rules" /\ new.batch = b.readings /\ new.pos = 1
      /\ new.open = OpenRules
  <2>1. new = [i EXCEPT !.step = "rules", !.batch = b.readings, !.meters = b.meters,
                        !.left = Rules, !.open = OpenRules]
      OBVIOUS
  <2> HIDE DEF i, new
  <2> QED BY <1>2, <1>5, <1>6, <2>1 DEF IngestType
<1> HIDE DEF new
<1>8. 1 \in 1 .. Len(b.readings)
    BY <1>2
<1>9. CallSound(new, orders)
    BY <1>2, <1>6, <1>7, <1>8 DEF CallSound
<1> QED BY <1>1, <1>4, <1>9, CallSteps

\* A reading of a call is held against a rule.
LEMMA LookUpKeeps ==
    ASSUME IInv, NEW c \in Deliveries, NEW q \in Rules, LookUp(c, q), UNCHANGED scheduler
    PROVE  IInv'
<1> DEFINE i == ingest[c]
<1>1. /\ i.step = "rules" /\ UNCHANGED <<data, entry>>
      /\ ingest' = [ingest EXCEPT ![c] =
                       IF NeedsOrder(c, q) THEN [i EXCEPT !.step = "create", !.rule = q]
                       ELSE After(i, q)]
    BY DEF LookUp, Put
<1>2. /\ i \in IngestType /\ CallSound(i, orders)
      /\ i.batch # <<>> /\ i.pos \in 1 .. Len(i.batch)
    BY <1>1, CallIsSound
<1>3. /\ clock' = clock /\ task' = task /\ orders' = orders
      /\ DataTypes' /\ Marked'
    BY <1>1 DEF IInv, data, DataTypes, Marked, Served, Ordered
<1>4. CASE NeedsOrder(c, q)
  <2> DEFINE new == [i EXCEPT !.step = "create", !.rule = q]
  <2>1. /\ new \in IngestType /\ new.step = "create" /\ new.rule = q /\ new.open = i.open
        /\ new.batch = i.batch /\ new.pos = i.pos
      BY <1>2 DEF IngestType
  <2>2. ingest' = [ingest EXCEPT ![c] = new]
      BY <1>1, <1>4
  <2>3. \A r \in i.open : \E o \in orders : o.trigger = <<r, 0>>
      BY <1>2 DEF CallSound
  <2>4. q \notin i.open
      BY <2>3, <1>4 DEF NeedsOrder, HasOpenOrder
  <2> HIDE DEF new
  <2>5. CallSound(new, orders)
      BY <1>2, <2>1, <2>3, <2>4 DEF CallSound
  <2> QED BY <1>3, <2>2, <2>5, CallSteps
<1>5. CASE ~NeedsOrder(c, q)
  <2>1. \A r \in i.open : \E o \in orders : o.trigger = <<r, 0>>
      BY <1>2 DEF CallSound
  <2>2. CallSound(After(i, q), orders)
    <3> HIDE DEF i
    <3> QED BY <1>2, <2>1, AfterIsSound
  <2> QED BY <1>1, <1>3, <1>5, <2>2, CallSteps
<1> QED BY <1>4, <1>5

\* The work order of a rule that had none.
LEMMA CreateFromRuleKeeps ==
    ASSUME IInv, NEW c \in Deliveries, CreateFromRule(c), UNCHANGED scheduler
    PROVE  IInv'
<1> DEFINE i == ingest[c]
           q == i.rule
           open == i.open \cup {q}
           n == [i EXCEPT !.open = open]
<1>1. /\ i.step = "create" /\ orders' = orders \cup {NewOrder(<<q, 0>>, Never, 0)}
      /\ ingest' = [ingest EXCEPT ![c] = After(n, q)]
      /\ UNCHANGED <<clock, task, meter, latest, sensed, faults, entry>>
  <2>1. n = [ingest[c] EXCEPT !.open = @ \cup {ingest[c].rule}]
      OBVIOUS
  <2> HIDE DEF n
  <2> QED BY <2>1 DEF CreateFromRule, Put, AddOrder
<1>2. /\ i \in IngestType /\ i.batch # <<>> /\ i.pos \in 1 .. Len(i.batch) /\ q \in Rules
      /\ \A r \in i.open : \E o \in orders : o.trigger = <<r, 0>>
    BY <1>1, CallIsSound DEF CallSound
<1>3. /\ DataTypes' /\ Marked' /\ orders \subseteq orders'
      /\ \E o \in orders' : o.trigger = <<q, 0>>
    BY <1>1, <1>2, RuleOrderIsAdded
<1>4. /\ n \in IngestType /\ n.open = open /\ n.batch = i.batch /\ n.pos = i.pos
  <2>1. open \in SUBSET Rules
      BY <1>2 DEF IngestType
  <2> HIDE DEF open
  <2> QED BY <1>2, <2>1 DEF IngestType
<1>5. \A r \in open : \E o \in orders' : o.trigger = <<r, 0>>
    BY <1>2, <1>3
<1>6. CallSound(After(n, q), orders')
  <2> HIDE DEF i, q, open, n
  <2> QED BY <1>2, <1>4, <1>5, AfterIsSound
<1> QED BY <1>1, <1>3, <1>6, CallSteps

\* A call reads the meter.
LEMMA ReadMeterKeeps ==
    ASSUME IInv, NEW c \in Deliveries, ReadMeter(c), UNCHANGED scheduler
    PROVE  IInv'
<1> DEFINE i == ingest[c]
           new == [i EXCEPT !.step = "current", !.copy = meter]
<1>1. /\ i.step = "meter" /\ latest' = MaxDate(latest, Newest(i.batch))
      /\ ingest' = [ingest EXCEPT ![c] = new]
      /\ UNCHANGED <<clock, task, meter, sensed, orders, faults, entry>>
    BY DEF ReadMeter, Put
<1>2. /\ i \in IngestType /\ CallSound(i, orders) /\ i.batch # <<>>
      /\ i.pos \in 1 .. Len(i.batch) /\ Newest(i.batch) \in Readings
    BY <1>1, CallIsSound
<1>3. latest' \in Readings \cup {0}
    BY <1>1, <1>2, NewerIsReading DEF IInv, DataTypes
<1>4. DataTypes' /\ Marked'
    BY <1>1, <1>3 DEF IInv, DataTypes, Marked, Served, Ordered
<1>5. meter \in [current : Nat, base : Nat]
    BY DEF IInv, DataTypes
<1>6. /\ new \in IngestType /\ new.step = "current" /\ new.open = i.open
      /\ new.batch = i.batch /\ new.pos = i.pos
    BY <1>2, <1>5 DEF IngestType
<1> HIDE DEF new
<1>7. CallSound(new, orders)
    BY <1>2, <1>6 DEF CallSound
<1> QED BY <1>1, <1>4, <1>7, CallSteps

\* A call moves the meter, and finds the task that fires.
LEMMA MoveMeterKeeps ==
    ASSUME IInv, NEW c \in Deliveries, MoveMeter(c), UNCHANGED scheduler
    PROVE  IInv'
<1> DEFINE i == ingest[c]
           firing == {p \in DOMAIN Tasks : Fires(Tasks[p], AtMeter(c), i.copy.base)}
<1>1. /\ i.step = "current"
      /\ meter' = (IF i.copy.current = AtMeter(c) THEN meter
                   ELSE [meter EXCEPT !.current = AtMeter(c)])
      /\ ingest' = [ingest EXCEPT ![c] =
                       IF firing = {} THEN Over(i)
                       ELSE [i EXCEPT !.step = "fire", !.task = Tasks[Min(firing)]]]
      /\ UNCHANGED <<clock, task, latest, sensed, orders, faults, entry>>
    BY DEF MoveMeter, Put
<1>2. /\ i \in IngestType /\ CallSound(i, orders) /\ i.batch # <<>>
      /\ i.pos \in 1 .. Len(i.batch) /\ AtMeter(c) \in Nat
    BY <1>1, CallIsSound
<1>3. meter' \in [current : Nat, base : Nat] /\ meter'.base = meter.base
    BY <1>1, <1>2 DEF IInv, DataTypes
<1>4. DataTypes' /\ Marked'
    BY <1>1, <1>3 DEF IInv, DataTypes, Marked, Served, Ordered
<1>5. CASE firing = {}
  <2>1. CallSound(Over(i), orders)
      BY <1>2, OverIsSound
  <2> QED BY <1>1, <1>4, <1>5, <2>1, CallSteps
<1>6. CASE firing # {}
  <2> DEFINE t == Tasks[Min(firing)]
             new == [i EXCEPT !.step = "fire", !.task = t]
  <2>1. t \in TaskSet
    <3>1. firing \in SUBSET Nat /\ firing \in SUBSET (DOMAIN Tasks)
        BY Positions
    <3> HIDE DEF firing
    <3>2. Min(firing) \in firing
        BY <3>1, <1>6, LeastNat
    <3> QED BY <3>1, <3>2, Positions
  <2>2. ingest' = [ingest EXCEPT ![c] = new]
      BY <1>1, <1>6
  <2> HIDE DEF t
  <2>3. /\ new \in IngestType /\ new.step = "fire" /\ new.task = t /\ new.open = i.open
        /\ new.batch = i.batch /\ new.pos = i.pos
      BY <1>2, <2>1 DEF IngestType
  <2> HIDE DEF new
  <2>4. CallSound(new, orders)
      BY <1>2, <2>1, <2>3 DEF CallSound
  <2> QED BY <1>1, <1>4, <2>2, <2>4, CallSteps
<1> QED BY <1>5, <1>6

\* The work order of the task that fires.
LEMMA FireTaskKeeps ==
    ASSUME IInv, NEW c \in Deliveries, FireTask(c), UNCHANGED scheduler
    PROVE  IInv'
<1> DEFINE i == ingest[c]
           o == NewOrder(<<i.task, 0>>, Never, AtMeter(c))
           new == [i EXCEPT !.step = "task"]
<1>1. /\ i.step = "fire" /\ orders' = orders \cup {o}
      /\ ingest' = [ingest EXCEPT ![c] = new]
      /\ UNCHANGED <<clock, task, meter, latest, sensed, faults, entry>>
    BY DEF FireTask, Put, AddOrder
<1>2. /\ i \in IngestType /\ CallSound(i, orders) /\ i.batch # <<>>
      /\ i.pos \in 1 .. Len(i.batch) /\ AtMeter(c) \in Nat
    BY <1>1, CallIsSound
<1>3. i.task \in TaskSet
    BY <1>1, <1>2 DEF CallSound
<1>4. DataTypes' /\ Marked' /\ orders \subseteq orders'
  <2>1. 0 \in Slots(i.task) \cup {0} /\ Never \in Dates \cup {Never}
      OBVIOUS
  <2>2. Add(o)
      BY <1>1 DEF Add
  <2> HIDE DEF i
  <2> QED BY <1>1, <1>2, <1>3, <2>1, <2>2, OrderIsAdded DEF o
<1>5. o \in orders' /\ o.trigger[1] = i.task /\ o.val = Value[Newest(i.batch)]
    BY <1>1 DEF NewOrder, AtMeter
<1>6. /\ new \in IngestType /\ new.step = "task" /\ new.task = i.task /\ new.open = i.open
      /\ new.batch = i.batch /\ new.pos = i.pos
    BY <1>2 DEF IngestType
<1>7. \A r \in i.open : \E x \in orders' : x.trigger = <<r, 0>>
    BY <1>2, <1>4 DEF CallSound
<1>8. \E x \in orders' : x.trigger[1] = i.task /\ x.val = Value[Newest(i.batch)]
    BY <1>5
<1> HIDE DEF o, new
<1>9. CallSound(new, orders')
    BY <1>2, <1>3, <1>6, <1>7, <1>8 DEF CallSound
<1> QED BY <1>1, <1>4, <1>9, CallSteps

\* The task that has fired is saved.
LEMMA SaveFiredTaskKeeps ==
    ASSUME IInv, NEW c \in Deliveries, SaveFiredTask(c), UNCHANGED scheduler
    PROVE  IInv'
<1> DEFINE i == ingest[c]
           t == i.task
           new == [i EXCEPT !.step = "base"]
<1>1. /\ i.step = "task" /\ task' = [task EXCEPT ![t].generated = TRUE]
      /\ ingest' = [ingest EXCEPT ![c] = new]
      /\ UNCHANGED <<clock, meter, latest, sensed, orders, faults, entry>>
    BY DEF SaveFiredTask, Put
<1>2. /\ i \in IngestType /\ CallSound(i, orders) /\ i.batch # <<>>
      /\ i.pos \in 1 .. Len(i.batch)
    BY <1>1, CallIsSound
<1>3. /\ t \in TaskSet
      /\ \E o \in orders : o.trigger[1] = t /\ o.val = Value[Newest(i.batch)]
    BY <1>1, <1>2 DEF CallSound
<1>4. /\ task' \in [TaskSet -> TaskType]
      /\ \A u \in TaskSet : task'[u].nextDue = task[u].nextDue
      /\ \A u \in TaskSet : u # t => task'[u] = task[u]
    BY <1>1, <1>3 DEF IInv, DataTypes, TaskType
<1>5. DataTypes'
    BY <1>1, <1>4 DEF IInv, DataTypes
<1>6. Marked'
  <2>1. \A u \in TaskSet : task'[u].generated => Ordered(orders, u)
      BY <1>3, <1>4 DEF IInv, Marked, Ordered
  <2> QED BY <2>1, <1>1 DEF IInv, Marked
<1>7. /\ new \in IngestType /\ new.step = "base" /\ new.task = t /\ new.open = i.open
      /\ new.batch = i.batch /\ new.pos = i.pos
    BY <1>2 DEF IngestType
<1> HIDE DEF new
<1>8. CallSound(new, orders)
    BY <1>2, <1>3, <1>7 DEF CallSound
<1> QED BY <1>1, <1>4, <1>5, <1>6, <1>8, CallSteps

\* The baseline of the meter is saved.
LEMMA SaveBaselineKeeps ==
    ASSUME IInv, NEW c \in Deliveries, SaveBaseline(c), UNCHANGED scheduler
    PROVE  IInv'
<1> DEFINE i == ingest[c]
<1>1. /\ i.step = "base" /\ meter' = [meter EXCEPT !.base = AtMeter(c)]
      /\ ingest' = [ingest EXCEPT ![c] = Over(i)]
      /\ UNCHANGED <<clock, task, latest, sensed, orders, faults, entry>>
    BY DEF SaveBaseline, Put
<1>2. i \in IngestType /\ CallSound(i, orders) /\ AtMeter(c) \in Nat
    BY <1>1, CallIsSound
<1>3. Served(orders, AtMeter(c))
    BY <1>1, <1>2 DEF CallSound, Served, AtMeter
<1>4. meter' \in [current : Nat, base : Nat] /\ meter'.base = AtMeter(c)
    BY <1>1, <1>2 DEF IInv, DataTypes
<1>5. DataTypes' /\ Marked'
    BY <1>1, <1>3, <1>4 DEF IInv, DataTypes, Marked, Ordered
<1>6. CallSound(Over(i), orders)
    BY <1>2, OverIsSound
<1> QED BY <1>1, <1>5, <1>6, CallSteps

\* A call ends before its time.
LEMMA AbortKeeps ==
    ASSUME IInv, NEW c \in Deliveries, Abort(c), UNCHANGED scheduler
    PROVE  IInv'
<1>1. /\ faults' = faults + 1 /\ ingest' = [ingest EXCEPT ![c] = Over(ingest[c])]
      /\ UNCHANGED <<clock, task, meter, latest, sensed, orders, entry>>
    BY DEF Abort, Put
<1>2. DataTypes' /\ Marked'
    BY <1>1 DEF IInv, DataTypes, Marked, Served, Ordered
<1>3. CallSound(Over(ingest[c]), orders)
    BY CallIsSound, OverIsSound
<1> QED BY <1>1, <1>2, <1>3, CallSteps

\* A reading is entered, and put on the meter.
LEMMA EntryKeeps ==
    ASSUME IInv, (\E k \in Readings : EnterReading(k)) \/ SaveEntry, UNCHANGED scheduler
    PROVE  IInv'
<1>1. \A k \in Readings : Value[k] \in Nat
    BY ReadingsAreNumbers DEF IInv
<1>2. /\ clock' = clock /\ task' = task /\ orders' = orders /\ ingest' = ingest
      /\ DataTypes' /\ meter'.base = meter.base
    BY <1>1 DEF EnterReading, SaveEntry, IInv, DataTypes
<1>3. Marked' /\ Kept(orders, orders')
    BY <1>2 DEF IInv, Marked, Served, Ordered, Kept
<1> QED BY <1>2, <1>3, ServiceSteps DEF IInv

\* The work orders of a rule are closed.
LEMMA CloseOrdersKeeps ==
    ASSUME IInv, NEW q \in Rules, CloseOrders(q), UNCHANGED scheduler
    PROVE  IInv'
<1>1. /\ orders' = {o \in orders : o.trigger # <<q, 0>>}
      /\ ingest' = [c \in Deliveries |-> [ingest[c] EXCEPT !.open = @ \ {q}]]
      /\ UNCHANGED <<clock, task, meter, latest, sensed, faults, entry>>
    BY DEF CloseOrders
<1>2. \A o \in orders : o.trigger[1] \in TaskSet => o \in orders'
    BY <1>1, DataAssumption
<1>3. Kept(orders, orders')
    BY <1>2 DEF Kept
<1>4. DataTypes' /\ Marked'
    BY <1>1, <1>2 DEF IInv, DataTypes, Marked, Served, Ordered
<1>5. ASSUME NEW c \in Deliveries
      PROVE  ingest'[c] \in IngestType /\ CallSound(ingest'[c], orders')
  <2> DEFINE i == ingest[c]
             open == i.open \ {q}
             new == [i EXCEPT !.open = open]
  <2>1. i \in IngestType /\ CallSound(i, orders)
      BY <1>5, CallIsSound
  <2>2. ingest'[c] = new
      BY <1>1, <1>5
  <2>3. open \in SUBSET Rules
      BY <2>1 DEF IngestType
  <2>4. /\ new \in IngestType /\ new.step = i.step /\ new.task = i.task /\ new.open = open
        /\ new.batch = i.batch /\ new.pos = i.pos /\ new.rule = i.rule
    <3> HIDE DEF i, open
    <3> QED BY <2>1, <2>3 DEF IngestType
  <2>5. ASSUME NEW r \in open PROVE \E o \in orders' : o.trigger = <<r, 0>>
    <3>1. PICK o \in orders : o.trigger = <<r, 0>>
        BY <2>1 DEF CallSound
    <3> QED BY <3>1, <1>1
  <2>6. i.step \in {"task", "base"} =>
            \E o \in orders' : o.trigger[1] = i.task /\ o.val = Value[Newest(i.batch)]
      BY <2>1, <1>2 DEF CallSound
  <2> HIDE DEF new
  <2>7. CallSound(new, orders')
      BY <2>1, <2>4, <2>5, <2>6 DEF CallSound
  <2> QED BY <2>2, <2>4, <2>7
<1>6. ingest' \in [Deliveries -> IngestType]
    BY <1>1, <1>5
<1> QED BY <1>1, <1>3, <1>4, <1>5, <1>6, ServiceSteps

----------------------------------------------------------------------------
\* The theorems.

\* The invariant holds at first: no runs, no calls, no work orders.
LEMMA InitHolds == Init => IInv
<1> SUFFICES ASSUME Init PROVE IInv
    OBVIOUS
<1>1. /\ clock = 0 /\ orders = {} /\ faults = 0 /\ latest = 0 /\ sensed = 0
      /\ meter = [current |-> 0, base |-> 0] /\ entry = NoEntry /\ settled = {} /\ ran = FALSE
      /\ run = [w \in Runners |-> Idle]
      /\ task = [t \in TaskSet |->
                   [generated |-> FALSE,
                    nextDue |-> [i \in Slots(t) |-> Plan[t].assignments[i].first]]]
    BY DEF Init, DataInit, SchedulerInit, TelemetryInit
<1>2. ASSUME NEW t \in TaskSet
      PROVE  /\ task[t] \in TaskType /\ DOMAIN task[t].nextDue = Slots(t)
             /\ task[t].generated = FALSE
             /\ \A i \in Slots(t) : task[t].nextDue[i] # Never => task[t].nextDue[i] >= clock
  <2> DEFINE dates == [i \in Slots(t) |-> Plan[t].assignments[i].first]
  <2>1. task[t] = [generated |-> FALSE, nextDue |-> dates]
      BY <1>1, <1>2
  <2>2. PICK n \in Nat : Slots(t) = 1 .. n
    <3>1. Plan[t].assignments \in Seq(AssignmentType)
        BY <1>2, Schedules DEF PlanType
    <3> QED BY <3>1 DEF Slots
  <2>3. ASSUME NEW i \in Slots(t)
        PROVE  dates[i] \in Dates \cup {Never} /\ (dates[i] # Never => dates[i] >= 0)
    <3>1. dates[i] \in 0 .. MaxClock \cup {Never}
        BY <1>2, <2>3, Schedules DEF AssignmentType
    <3>2. \A d \in 0 .. MaxClock : d \in Nat /\ d <= MaxClock + 16 + MaxInterval /\ d >= 0
        BY DataAssumption
    <3> HIDE DEF dates
    <3> QED BY <3>1, <3>2, DatesAre
  <2>4. dates \in [1 .. n -> Dates \cup {Never}]
      BY <2>2, <2>3
  <2>5. dates \in Seq(Dates \cup {Never}) /\ DOMAIN dates = Slots(t)
    <3>1. DOMAIN dates = Slots(t)
        OBVIOUS
    <3> HIDE DEF dates
    <3> QED BY <2>4, <3>1
  <2> HIDE DEF dates
  <2> QED BY <1>1, <2>1, <2>3, <2>5 DEF TaskType
<1>3. DataTypes
  <2>1. task \in [TaskSet -> TaskType]
    <3>1. task = [t \in TaskSet |-> task[t]]
        BY <1>1
    <3> QED BY <1>2, <3>1
  <2> QED BY <1>1, <1>2, <2>1, DataAssumption DEF DataTypes
<1>4. run \in [Runners -> RunType] /\ \A w \in Runners : RunSound(run[w], task, orders, clock)
    BY <1>1, IdleIsSound
<1>5. ASSUME NEW c \in Deliveries
      PROVE  ingest[c] \in IngestType /\ CallSound(ingest[c], orders)
  <2>1. ingest[c] = [step |-> "idle", batch |-> <<>>, meters |-> FALSE, pos |-> 1, left |-> {},
                     rule |-> Never, copy |-> NoMeter, task |-> Never, open |-> {}]
      BY <1>5 DEF Init, TelemetryInit
  <2>2. <<>> \in Seq(Readings) /\ NoMeter \in [current : Nat, base : Nat]
      BY DEF NoMeter
  <2>3. ingest[c] \in IngestType
    <3> HIDE DEF NoMeter
    <3> QED BY <2>1, <2>2 DEF IngestType
  <2> QED BY <2>1, <2>3 DEF CallSound
<1>6. ingest \in [Deliveries -> IngestType]
  <2>1. ingest = [c \in Deliveries |-> ingest[c]]
      BY DEF Init, TelemetryInit
  <2> QED BY <1>5, <2>1
<1>7. Marked
    BY <1>1, <1>2 DEF Marked
<1>8. Recorded
    BY <1>1 DEF Recorded
<1>9. Ahead
    BY <1>1, <1>2 DEF Ahead, DatesKeepUp
<1> QED BY <1>1, <1>3, <1>4, <1>5, <1>6, <1>7, <1>8, <1>9 DEF IInv

\* Every step keeps the invariant.
LEMMA StepsKeep == IInv /\ [Next]_vars => IInv'
<1> SUFFICES ASSUME IInv, [Next]_vars PROVE IInv'
    OBVIOUS
<1>1. ASSUME SchedulerNext, UNCHANGED telemetry PROVE IInv'
  <2>1. ASSUME NEW w \in Runners, NEW h \in BOOLEAN, Start(w, h) PROVE IInv'
      BY <1>1, <2>1, StartKeeps
  <2>2. ASSUME NEW w \in Runners, Advance(w) PROVE IInv'
    <3>1. CASE GenerateDue(w)
        BY <1>1, <3>1, GenerateDueKeeps
    <3>2. CASE GenerateAtReading(w)
        BY <1>1, <3>2, GenerateAtReadingKeeps
    <3>3. CASE GenerateByCron(w)
        BY <1>1, <3>3, GenerateByCronKeeps
    <3>4. CASE GenerateByMeter(w)
        BY <1>1, <3>4, GenerateByMeterKeeps
    <3>5. CASE SaveMeter(w)
        BY <1>1, <3>5, SaveMeterKeeps
    <3>6. CASE SaveTask(w)
        BY <1>1, <3>6, SaveTaskKeeps
    <3>7. ASSUME NEW q \in Rules, CheckCondition(w, q) PROVE IInv'
        BY <1>1, <3>7, CheckConditionKeeps
    <3> QED BY <2>2, <3>1, <3>2, <3>3, <3>4, <3>5, <3>6, <3>7 DEF Advance
  <2>3. ASSUME NEW w \in Runners, Fail(w) PROVE IInv'
      BY <1>1, <2>3, FailKeeps
  <2>4. ASSUME NEW w \in Runners, Crash(w) PROVE IInv'
      BY <1>1, <2>4, CrashKeeps
  <2>5. CASE Tick
      BY <1>1, <2>5, TickKeeps
  <2> QED BY <1>1, <2>1, <2>2, <2>3, <2>4, <2>5 DEF SchedulerNext
<1>2. ASSUME TelemetryNext, UNCHANGED scheduler PROVE IInv'
  <2>1. ASSUME NEW c \in Deliveries, NEW b \in Batches, Receive(c, b) PROVE IInv'
      BY <1>2, <2>1, ReceiveKeeps
  <2>2. ASSUME NEW c \in Deliveries, IngestStep(c) PROVE IInv'
    <3>1. ASSUME NEW q \in Rules, LookUp(c, q) PROVE IInv'
        BY <1>2, <3>1, LookUpKeeps
    <3>2. CASE CreateFromRule(c)
        BY <1>2, <3>2, CreateFromRuleKeeps
    <3>3. CASE ReadMeter(c)
        BY <1>2, <3>3, ReadMeterKeeps
    <3>4. CASE MoveMeter(c)
        BY <1>2, <3>4, MoveMeterKeeps
    <3>5. CASE FireTask(c)
        BY <1>2, <3>5, FireTaskKeeps
    <3>6. CASE SaveFiredTask(c)
        BY <1>2, <3>6, SaveFiredTaskKeeps
    <3>7. CASE SaveBaseline(c)
        BY <1>2, <3>7, SaveBaselineKeeps
    <3> QED BY <2>2, <3>1, <3>2, <3>3, <3>4, <3>5, <3>6, <3>7 DEF IngestStep
  <2>3. ASSUME NEW c \in Deliveries, Abort(c) PROVE IInv'
      BY <1>2, <2>3, AbortKeeps
  <2>4. CASE (\E k \in Readings : EnterReading(k)) \/ SaveEntry
      BY <1>2, <2>4, EntryKeeps
  <2>5. ASSUME NEW q \in Rules, CloseOrders(q) PROVE IInv'
      BY <1>2, <2>5, CloseOrdersKeeps
  <2> QED BY <1>2, <2>1, <2>2, <2>3, <2>4, <2>5 DEF TelemetryNext
<1>3. CASE UNCHANGED vars
  <2>1. UNCHANGED <<data, scheduler, telemetry>>
      BY <1>3 DEF vars
  <2>2. /\ clock' = clock /\ task' = task /\ meter' = meter /\ latest' = latest
        /\ sensed' = sensed /\ orders' = orders /\ faults' = faults /\ run' = run
        /\ ran' = ran /\ settled' = settled /\ ingest' = ingest /\ entry' = entry
      BY <2>1 DEF data, scheduler, telemetry
  <2> QED BY <2>2 DEF IInv, DataTypes, Marked, Served, Ordered, Recorded, Ahead, DatesKeepUp
<1> QED BY <1>1, <1>2, <1>3 DEF Next

\* The inductive invariant: what is known of the documents, the runs and the calls
\* holds whatever the scheduler, the endpoints and the ingestion do, fail at or
\* leave behind.
THEOREM Invariance == Spec => []IInv
<1>1. QED
    BY InitHolds, StepsKeep, PTL DEF Spec

\* TypeOK: in particular no save of a stale copy puts a date beyond the longest
\* interval from the last half day.
THEOREM TypeCorrect == Spec => []TypeOK
<1>1. IInv => TypeOK
  <2> SUFFICES ASSUME IInv PROVE TypeOK
      OBVIOUS
  <2> QED BY DEF IInv, DataTypes, TypeOK, TaskType
<1>2. QED
    BY <1>1, Invariance, PTL

\* RecordedDateIsFinal: a date that was generated and recorded is not generated by
\* a run that starts later, for all that runs with stale copies save in between.
THEOREM RecordedStaysFinal == Spec => []RecordedDateIsFinal
<1>1. IInv => RecordedDateIsFinal
  <2> SUFFICES ASSUME IInv, NEW w \in Runners, IsDue(w)
               PROVE  <<Current(w), run[w].slot, run[w].copy[Current(w)][run[w].slot]>>
                          \notin run[w].settled
      BY DEF RecordedDateIsFinal
  <2> DEFINE d == run[w].copy[Current(w)][run[w].slot]
  <2>1. AtSlot(w)
      BY DEF IsDue
  <2>2. Busy(w) /\ run[w].slot \in Slots(Current(w))
      BY <2>1, AtAssignment
  <2>3. Dated(run[w]) /\ Placed(run[w], clock) /\ run[w] \in RunType /\ Current(w) \in TaskSet
      BY <2>2, AtWork
  <2>4. d \in Dates \cup {Never}
      BY <2>2, <2>3, CopyIsDated DEF Placed
  <2>5. ASSUME <<Current(w), run[w].slot, d>> \in run[w].settled PROVE FALSE
    <3>1. Later(d, d)
        BY <2>5, <2>3 DEF Dated
    <3>2. d \in Nat
        BY <3>1, <2>4, DatesAre DEF Later
    <3> HIDE DEF d
    <3> QED BY <3>1, <3>2 DEF Later
  <2> QED BY <2>5
<1>2. QED
    BY <1>1, Invariance, PTL

\* MarksHaveOrders: no baseline and no lastGeneratedAt without a work order,
\* whatever dies between the two.
THEOREM MarksAreBacked == Spec => []MarksHaveOrders
<1>1. IInv => MarksHaveOrders
    BY DEF IInv, Marked, Served, Ordered, MarksHaveOrders
<1>2. QED
    BY <1>1, Invariance, PTL

\* OpenOrderHoldsReadings: a call that has seen, or made, an open work order of a
\* rule does not make another while it is open.
THEOREM OpenOrdersHold == Spec => []OpenOrderHoldsReadings
<1>1. IInv => OpenOrderHoldsReadings
    BY DEF IInv, CallSound, OpenOrderHoldsReadings
<1>2. QED
    BY <1>1, Invariance, PTL

\* DatesKeepUp: the date of a time assignment is never left in the past, if a run
\* of the job goes through in every half day.
THEOREM DatesAreKept == Spec => []DatesKeepUp
<1>1. IInv => DatesKeepUp
    BY DEF IInv, Ahead
<1>2. QED
    BY <1>1, Invariance, PTL

\* CronFindsNext: for every expression and every half day the scan finds the first
\* date of the expression.
THEOREM CronIsExact == Spec => []CronFindsNext
<1>1. IInv => CronFindsNext
  <2> SUFFICES ASSUME IInv, NEW w \in Runners, AtRule(w), Rule(w).rule = "calendar"
               PROVE  NextCronOccurrenceWithin(Rule(w).cron, run[w].now, 7) =
                          Min({d \in Dates : d > run[w].now /\ Matches(Rule(w).cron, d)
                                              /\ HourOfDay(d) = Rule(w).cron.hour})
      BY DEF CronFindsNext
  <2>1. run[w].now \in Nat /\ run[w].now <= MaxClock /\ Rule(w).cron \in CronType
      BY AtItsRule DEF PlanType
  <2> QED BY <2>1, CronFinds
<1>2. QED
    BY <1>1, Invariance, PTL
====
