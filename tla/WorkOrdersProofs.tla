-------------------------- MODULE WorkOrdersProofs --------------------------
(***************************************************************************)
(* Theorems about WorkOrders, for every set of calls, permits, orders and  *)
(* requests.                                                               *)
(*                                                                         *)
(* What the runs check is not inductive: calls write what they decided on  *)
(* copies and permits read earlier.  The invariant says that each copy was *)
(* once the stored order, so that what it shows of approvals is in the     *)
(* past, and that a call which has passed its checks passed them on the    *)
(* copy and the readings it still has.                                     *)
(***************************************************************************)
EXTENDS WorkOrders, TLAPS

Shapes == UNION {[1 .. k.steps -> StepStatuses] : k \in Kinds}

\* A document that is, or once was, the stored order: what it shows as approved
\* has been approved, and its type is safety if that has never been changed.
Sound(o) ==
  /\ o \in OrderType
  /\ DOMAIN o.steps = DOMAIN order.steps
  /\ past.safe => o.type = "safety"
  /\ o.current \in 1 .. Len(o.steps) \cup {1}
  /\ o.approval = "approved" => past.approved
  /\ \A i \in DOMAIN o.steps :
       o.steps[i] = "approved" \/ i < o.current => i \in past.signed

\* A document a call may write in place of the stored order.
Fit(o) ==
  /\ o \in OrderType
  /\ DOMAIN o.steps = DOMAIN order.steps
  /\ o.current \in 1 .. Len(o.steps) \cup {1}
  /\ \A i \in DOMAIN o.steps :
       i < o.current => i \in past.signed \/ o.steps[i] = "approved"

CallType ==
  [req : Requests \cup {NoRequest},
   pc : {"idle", "load", "start", "complete", "save", "permits"},
   copy : OrderType \cup {Nothing}, seen : [Permits -> PermitLife \cup {"unread"}],
   since : [Edited -> Times]]

PastType ==
  [approved : BOOLEAN, safe : BOOLEAN, signed : SUBSET Nat,
   granted : SUBSET Permits, at : [Edited -> Times]]

Types ==
  /\ order \in OrderType
  /\ permit \in [Permits -> PermitType]
  /\ call \in [Calls -> CallType]
  /\ now \in Times
  /\ made \in [calls : 0 .. MaxCalls, edits : 0 .. MaxEdits]
  /\ past \in PastType

\* What a call has established by the time it stands at a statement.
CallOK(c) ==
  /\ call[c].pc # "idle" =>
       call[c].req \in Requests /\ call[c].req.op \notin {"bulk", "checklist"}
  /\ call[c].pc \in {"start", "complete", "save", "permits"} => Sound(call[c].copy)
  /\ call[c].pc = "complete" => call[c].req.op # "start"
  /\ call[c].pc = "start" => call[c].req.op # "complete"
  /\ call[c].pc = "permits" => call[c].req.op \in {"start", "complete"}
  /\ call[c].pc \in {"save", "permits"} =>
       /\ call[c].req.op = "start" =>
            \A p \in call[c].copy.permits : call[c].seen[p] \in Granted
       /\ call[c].req.op = "complete" /\ call[c].copy.type = "safety" =>
            call[c].copy.approval = "approved"
  /\ \A p \in Permits : call[c].seen[p] \in Granted => p \in past.granted

\* A permit that allows work, or has seen work, was granted; one that has seen the
\* completion of an order that has always been a safety order has seen its approval
\* before.
PermitOK(p) ==
  /\ permit[p].status \in Granted => p \in past.granted
  /\ "started" \in permit[p].log => p \in past.granted
  /\ "completed" \in permit[p].log /\ past.safe => past.approved

IInv ==
  /\ Types
  /\ Sound(order)
  /\ \A c \in Calls : CallOK(c)
  /\ \A p \in Permits : PermitOK(p)

-----------------------------------------------------------------------------
(* Documents and requests.                                                 *)

LEMMA StepsAreSequences ==
  ASSUME NEW s \in Shapes
  PROVE  s \in Seq(StepStatuses) /\ DOMAIN s = 1 .. Len(s) /\ Len(s) \in Nat
  <1>1. PICK k \in Kinds : s \in [1 .. k.steps -> StepStatuses]
    BY DEF Shapes
  <1>2. k.steps \in Nat
    BY WorkOrdersAssumption
  <1>3. s \in Seq(StepStatuses)
    BY <1>1, <1>2
  <1> QED
    BY <1>3

LEMMA SameLength ==
  ASSUME NEW s \in Shapes, NEW t \in Shapes, DOMAIN s = DOMAIN t
  PROVE  Len(s) = Len(t)
  BY StepsAreSequences

\* Replacing steps by steps keeps the shape.
LEMMA SameShape ==
  ASSUME NEW s \in Shapes, NEW t, t = [i \in DOMAIN s |-> t[i]],
         \A i \in DOMAIN s : t[i] \in StepStatuses
  PROVE  t \in Shapes /\ DOMAIN t = DOMAIN s
  <1>1. PICK k \in Kinds : s \in [1 .. k.steps -> StepStatuses]
    BY DEF Shapes
  <1>2. DOMAIN s = 1 .. k.steps
    BY <1>1
  <1>3. t \in [1 .. k.steps -> StepStatuses]
    BY <1>2
  <1> QED
    BY <1>2, <1>3 DEF Shapes

\* Requests have passed their schemas.
LEMMA RequestFields ==
  ASSUME NEW r \in Requests
  PROVE  /\ r.op = "approve" => r.to \in {"pending", "approved", "rejected"}
         /\ r.op = "complete" => r.item \in Items \cup {Absent}
         /\ r.op \in {"update", "reconcile"} =>
              /\ r.item \in Items \cup {Absent}
              /\ r.permits \in SUBSET Permits
              /\ r.at \in Int
         /\ r.op \in {"bulk", "status"} => r.status \in Statuses
         /\ r.op = "checklist" => r.item \in Items
         /\ r.op = "sync" => /\ r.item \in Items \cup {Absent}
                             /\ r.at \in Int /\ r.textAt \in Int /\ r.itemAt \in Int
         /\ r.op \in {"update", "reconcile", "sync"} =>
              /\ r.status \in Statuses \cup {Absent}
              /\ r.type \in WorkTypes \cup {Absent}
              /\ r.approval \in Approvals \cup {Absent}
              /\ r.text \in Texts \cup {Absent}
         /\ r.op \in {"approve", "assign", "start", "complete", "cancel", "request",
                      "update", "status", "bulk", "checklist", "reconcile",
                      "advance", "sync"}
         /\ r.op = "advance" => r.approved \in BOOLEAN
  <1> DEFINE Body == PayloadType({"update"}, {NoTime})
                       \cup PayloadType({"reconcile"}, Times \cup {NoTime})
             Edit == EditType(Statuses, WorkTypes, Approvals, Texts, Times)
  <1>1. r \in Body => /\ r.op \in {"update", "reconcile"}
                     /\ r.item \in Items \cup {Absent} /\ r.permits \in SUBSET Permits
                     /\ r.at \in Int
                     /\ r.status \in Statuses \cup {Absent}
                     /\ r.type \in WorkTypes \cup {Absent}
                     /\ r.approval \in Approvals \cup {Absent}
                     /\ r.text \in Texts \cup {Absent}
    BY DEF PayloadType, Settable, Times, NoTime, Items
  <1>2. r \in Edit => /\ r.op = "sync" /\ r.item \in Items \cup {Absent}
                     /\ r.at \in Int /\ r.textAt \in Int /\ r.itemAt \in Int
                     /\ r.status \in Statuses \cup {Absent}
                     /\ r.type \in WorkTypes \cup {Absent}
                     /\ r.approval \in Approvals \cup {Absent}
                     /\ r.text \in Texts \cup {Absent}
    BY DEF EditType, Times, NoTime
  <1> HIDE DEF Body, Edit
  <1>3. \/ r \in Body \/ r \in Edit
        \/ r.op = "approve" /\ r.to \in {"pending", "approved", "rejected"}
        \/ r.op \in {"assign", "start", "cancel", "request"}
        \/ r.op = "complete" /\ r.item \in Items \cup {Absent}
        \/ r.op \in {"bulk", "status"} /\ r.status \in Statuses
        \/ r.op = "checklist" /\ r.item \in Items
        \/ r.op = "advance" /\ r.approved \in BOOLEAN
    BY WorkOrdersAssumption DEF RequestType, Body, Edit
  <1> QED
    BY <1>1, <1>2, <1>3

\* A body put over a document gives a document with the same steps.
LEMMA PatchedFields ==
  ASSUME NEW o \in OrderType, NEW r \in Requests, r.op \in {"update", "reconcile"}
  PROVE  LET b == Patched(r, o) IN
         /\ b \in OrderType /\ b.steps = o.steps /\ b.current = o.current
         /\ \A f \in {"status", "type", "approval", "text", "item"} :
              b[f] = Given(r[f], o[f])
  <1> DEFINE Fields == {"status", "type", "approval", "text", "item"}
             permits == IF r.relink THEN r.permits ELSE o.permits
  <1>1. /\ Given(r.status, o.status) \in Statuses /\ Given(r.type, o.type) \in WorkTypes
        /\ Given(r.approval, o.approval) \in Approvals
        /\ Given(r.text, o.text) \in Texts /\ Given(r.item, o.item) \in Items
        /\ permits \in SUBSET Permits
    BY RequestFields DEF Given, OrderType
  <1>2. Patched(r, o) = [o EXCEPT !.status = Given(r.status, o.status),
                                  !.type = Given(r.type, o.type),
                                  !.approval = Given(r.approval, o.approval),
                                  !.text = Given(r.text, o.text),
                                  !.item = Given(r.item, o.item),
                                  !.permits = permits]
    BY DEF Patched, OrderType
  <1> HIDE DEF permits
  <1> QED
    BY <1>1, <1>2 DEF OrderType

\* save() of a changed copy gives a document of the type, field by field.
LEMMA OntoFields ==
  ASSUME NEW o \in OrderType, NEW a \in OrderType, NEW b \in OrderType,
         DOMAIN a.steps = DOMAIN o.steps, DOMAIN b.steps = DOMAIN o.steps
  PROVE  LET n == Onto(o, a, b) IN
         /\ n \in OrderType
         /\ n.steps = [i \in DOMAIN o.steps |->
              IF b.steps[i] # a.steps[i] THEN b.steps[i] ELSE o.steps[i]]
         /\ n.current = IF b.current # a.current THEN b.current ELSE o.current
         /\ DOMAIN n.steps = DOMAIN o.steps
  <1> DEFINE n == Onto(o, a, b)
             Fields == {"type", "status", "approval", "steps", "current", "item",
                        "text", "permits", "cleared", "v", "updatedAt"}
             steps == [i \in DOMAIN o.steps |->
                IF b.steps[i] # a.steps[i] THEN b.steps[i] ELSE o.steps[i]]
  <1>1. DOMAIN o = Fields
    BY DEF OrderType
  <1>2. DOMAIN n = Fields /\ n = [f \in Fields |-> n[f]]
    BY <1>1 DEF Onto
  <1>3. /\ n.current = IF b.current # a.current THEN b.current ELSE o.current
        /\ n.steps = steps
    BY <1>1 DEF Onto
  <1>4. /\ n.type \in WorkTypes /\ n.status \in Statuses
        /\ n.approval \in Approvals /\ n.current \in Nat /\ n.item \in Items
        /\ n.text \in Texts /\ n.permits \in SUBSET Permits
    BY <1>1 DEF OrderType, Onto
  <1>5. n.cleared \in BOOLEAN /\ n.v \in Nat /\ n.updatedAt \in Times
    BY <1>1 DEF OrderType, Onto
  <1>6. o.steps \in Shapes /\ a.steps \in Shapes /\ b.steps \in Shapes
    BY DEF OrderType, Shapes
  <1>7. \A i \in DOMAIN o.steps :
           o.steps[i] \in StepStatuses /\ a.steps[i] \in StepStatuses /\ b.steps[i] \in StepStatuses
    BY <1>6, StepsAreSequences
  <1>8. steps \in Shapes /\ DOMAIN steps = DOMAIN o.steps
    BY <1>6, <1>7, SameShape
  <1> HIDE DEF n, steps
  <1>9. n \in OrderType
    BY <1>2, <1>3, <1>4, <1>5, <1>8 DEF OrderType, Shapes
  <1> QED
    BY <1>3, <1>8, <1>9 DEF n, steps

-----------------------------------------------------------------------------
(* What each call makes of its copy.                                       *)

Saves == {"approve", "assign", "start", "complete", "cancel", "status", "reconcile",
          "advance", "request"}

\* A step that an approval moves past has just been approved.
LEMMA AdvancedFits ==
  ASSUME NEW o, Sound(o), NEW r, r.approved \in BOOLEAN
  PROVE  LET b == Advanced(r, o) IN
         /\ b \in OrderType
         /\ DOMAIN b.steps = DOMAIN o.steps
         /\ b.current \in 1 .. Len(b.steps) \cup {1}
         /\ \A i \in DOMAIN b.steps : i < b.current =>
              i \in past.signed \/ (b.steps[i] = "approved" /\ b.steps[i] # o.steps[i])
  <1>1. /\ o \in OrderType /\ o.steps \in Shapes
        /\ o.current \in 1 .. Len(o.steps) \cup {1} /\ o.current \in Nat
    BY DEF Sound, OrderType, Shapes
  <1>2. DOMAIN o.steps = 1 .. Len(o.steps) /\ Len(o.steps) \in Nat
    BY <1>1, StepsAreSequences
  <1>3. \A i \in DOMAIN o.steps : o.steps[i] = "approved" \/ i < o.current => i \in past.signed
    BY DEF Sound
  <1>4. Verdict(r) \in {"approved", "rejected"}
    BY DEF Verdict
  <1>5. CASE o.steps = <<>>
    <2>1. Advanced(r, o) = [o EXCEPT !.approval = Verdict(r)]
      BY <1>5 DEF Advanced
    <2>2. [o EXCEPT !.approval = Verdict(r)] \in OrderType
      BY <1>1, <1>4 DEF OrderType, Approvals
    <2> QED
      BY <1>1, <1>2, <1>3, <2>1, <2>2 DEF OrderType
  <1>6. CASE o.steps # <<>>
    <2>1. o.current \in DOMAIN o.steps
      BY <1>1, <1>2, <1>6
    <2> DEFINE Put(v) == [o.steps EXCEPT ![o.current] = v]
    <2>2. \A v \in {"approved", "rejected"} :
             Put(v) \in Shapes /\ DOMAIN Put(v) = DOMAIN o.steps
      <3>1. \A i \in DOMAIN o.steps : o.steps[i] \in StepStatuses
        BY <1>1, StepsAreSequences
      <3> TAKE v \in {"approved", "rejected"}
      <3>2. \A i \in DOMAIN o.steps : Put(v)[i] \in StepStatuses
        BY <3>1 DEF StepStatuses
      <3>3. Put(v) = [i \in DOMAIN o.steps |-> Put(v)[i]]
        BY <1>1
      <3> QED
        BY <1>1, <3>2, <3>3, SameShape
    <2>3. CASE r.approved /\ o.current < Last(o)
      <3>1. Advanced(r, o) = [o EXCEPT !.steps = Put("approved"), !.current = @ + 1]
        <4>1. Advanced(r, o) = [o EXCEPT !.steps[o.current] = "approved", !.current = @ + 1]
          BY <1>6, <2>3, Zenon DEF Advanced
        <4> QED
          BY <1>1, <4>1 DEF OrderType
      <3>2. Advanced(r, o) \in OrderType
        <4> DEFINE steps == Put("approved")
                   next == o.current + 1
        <4>1. steps \in Shapes /\ next \in Nat
          BY <1>1, <2>2
        <4>2. Advanced(r, o) = [o EXCEPT !.steps = steps, !.current = next]
          BY <1>1, <3>1 DEF OrderType
        <4> HIDE DEF steps, next
        <4> QED
          BY <1>1, <4>1, <4>2 DEF OrderType, Shapes
      <3>3. /\ Advanced(r, o).steps = Put("approved")
            /\ Advanced(r, o).current = o.current + 1
        BY <1>1, <3>1 DEF OrderType
      <3>4. Len(Put("approved")) = Len(o.steps)
        BY <1>1, <2>2, SameLength
      <3>5. \A i \in DOMAIN o.steps : i < o.current + 1 =>
               i \in past.signed
                 \/ (Put("approved")[i] = "approved" /\ Put("approved")[i] # o.steps[i])
        BY <1>1, <1>2, <1>3, <2>1
      <3> QED
        BY <1>1, <1>2, <2>1, <2>2, <2>3, <3>2, <3>3, <3>4, <3>5 DEF Last
    <2>4. CASE ~(r.approved /\ o.current < Last(o))
      <3>1. Advanced(r, o) = [o EXCEPT !.steps = Put(Verdict(r)), !.approval = Verdict(r)]
        BY <1>1, <1>6, <2>4 DEF Advanced, OrderType
      <3>2. Advanced(r, o) \in OrderType
        BY <1>1, <1>4, <2>2, <3>1 DEF OrderType, Shapes, Approvals
      <3>3. /\ Advanced(r, o).steps = Put(Verdict(r))
            /\ Advanced(r, o).current = o.current
        BY <1>1, <3>1 DEF OrderType
      <3>4. Len(Put(Verdict(r))) = Len(o.steps)
        BY <1>1, <1>4, <2>2, SameLength
      <3> QED
        BY <1>1, <1>3, <1>4, <2>2, <3>2, <3>3, <3>4
    <2> QED
      BY <2>3, <2>4
  <1> QED
    BY <1>5, <1>6

LEMMA ChangedFits ==
  ASSUME NEW o, Sound(o), NEW r \in Requests, r.op \in Saves
  PROVE  LET b == Changed(r, o) IN
         /\ b \in OrderType
         /\ DOMAIN b.steps = DOMAIN o.steps
         /\ b.current \in 1 .. Len(b.steps) \cup {1}
         /\ \A i \in DOMAIN b.steps : i < b.current =>
              i \in past.signed \/ (b.steps[i] = "approved" /\ b.steps[i] # o.steps[i])
  <1>1. /\ o \in OrderType /\ o.current \in 1 .. Len(o.steps) \cup {1}
        /\ \A i \in DOMAIN o.steps : i < o.current => i \in past.signed
    BY DEF Sound
  <1>2. CASE r.op = "approve"
    <2>1. Changed(r, o) = Approved(r, o) /\ r.to \in {"pending", "approved", "rejected"}
      BY <1>2, RequestFields DEF Changed
    <2>2. /\ Approved(r, o) \in OrderType
          /\ Approved(r, o).steps = o.steps
          /\ Approved(r, o).current = o.current
      BY <1>1, <2>1 DEF Approved, OrderType, Approvals, Statuses
    <2> QED
      BY <1>1, <2>1, <2>2
  <1>3. CASE r.op = "advance"
    <2>1. Changed(r, o) = Advanced(r, o)
      BY <1>3 DEF Changed
    <2>2. r.approved \in BOOLEAN
      BY <1>3, RequestFields
    <2> QED
      BY <2>1, <2>2, AdvancedFits
  <1>4. CASE r.op = "complete"
    <2>1. Changed(r, o) = [o EXCEPT !.status = "completed", !.item = ChecklistOf(r, o)]
      BY <1>4 DEF Changed
    <2>2. ChecklistOf(r, o) \in Items
      BY <1>1, <1>4, RequestFields DEF ChecklistOf, OrderType
    <2>3. /\ Changed(r, o) \in OrderType
          /\ Changed(r, o).steps = o.steps
          /\ Changed(r, o).current = o.current
      BY <1>1, <2>1, <2>2 DEF OrderType, Statuses
    <2> QED
      BY <1>1, <2>3
  <1>5. CASE r.op = "request"
    <2>1. Changed(r, o) = [o EXCEPT !.approval = "pending", !.status = "pending_approval"]
      BY <1>5 DEF Changed
    <2>2. /\ Changed(r, o) \in OrderType
          /\ Changed(r, o).steps = o.steps
          /\ Changed(r, o).current = o.current
      BY <1>1, <2>1 DEF OrderType, Statuses, Approvals
    <2> QED
      BY <1>1, <2>2
  <1>6. CASE r.op \in {"assign", "start", "cancel", "status"}
    <2>1. PICK s \in Statuses : Changed(r, o) = [o EXCEPT !.status = s]
      BY <1>6, RequestFields DEF Changed, Statuses
    <2>2. /\ Changed(r, o) \in OrderType
          /\ Changed(r, o).steps = o.steps
          /\ Changed(r, o).current = o.current
      BY <1>1, <2>1 DEF OrderType
    <2> QED
      BY <1>1, <2>2
  <1>7. CASE r.op = "reconcile"
    <2>1. Changed(r, o) = Patched(r, o)
      BY <1>7 DEF Changed
    <2> QED
      BY <1>1, <1>7, <2>1, PatchedFields
  <1> QED
    BY <1>2, <1>3, <1>4, <1>5, <1>6, <1>7 DEF Saves

\* A save of a copy over whatever is stored by then.
LEMMA SavedFits ==
  ASSUME Types, Sound(order), NEW c \in Calls, Sound(call[c].copy),
         call[c].req \in Requests, call[c].req.op \in Saves
  PROVE  Fit(Saved(c))
  <1> DEFINE a == call[c].copy
             b == Changed(call[c].req, a)
             n == Onto(order, a, b)
  <1>1. /\ b \in OrderType /\ DOMAIN b.steps = DOMAIN a.steps
        /\ b.current \in 1 .. Len(b.steps) \cup {1}
        /\ \A i \in DOMAIN b.steps : i < b.current =>
             i \in past.signed \/ (b.steps[i] = "approved" /\ b.steps[i] # a.steps[i])
    BY ChangedFits
  <1>2. /\ order \in OrderType /\ a \in OrderType
        /\ DOMAIN a.steps = DOMAIN order.steps
        /\ order.current \in 1 .. Len(order.steps) \cup {1}
        /\ \A i \in DOMAIN order.steps : i < order.current => i \in past.signed
        /\ order.steps \in Shapes /\ order.v \in Nat /\ now \in Times
    BY DEF Sound, Types, OrderType, Shapes
  <1> HIDE DEF a, b
  <1>3. /\ n \in OrderType /\ DOMAIN n.steps = DOMAIN order.steps
        /\ n.steps = [i \in DOMAIN order.steps |->
             IF b.steps[i] # a.steps[i] THEN b.steps[i] ELSE order.steps[i]]
        /\ n.current = IF b.current # a.current THEN b.current ELSE order.current
    BY <1>1, <1>2, OntoFields
  <1> HIDE DEF n
  <1>4. n.steps \in Shapes /\ b.steps \in Shapes
    BY <1>1, <1>3 DEF OrderType, Shapes
  <1>5. Len(n.steps) = Len(order.steps) /\ Len(b.steps) = Len(order.steps)
    BY <1>1, <1>2, <1>3, <1>4, SameLength
  <1>6. n.current \in 1 .. Len(n.steps) \cup {1}
    BY <1>1, <1>2, <1>3, <1>5
  <1>7. \A i \in DOMAIN n.steps :
           i < n.current => i \in past.signed \/ n.steps[i] = "approved"
    BY <1>1, <1>2, <1>3
  <1>8. PICK v \in Nat, t \in Times : Saved(c) = [n EXCEPT !.v = v, !.updatedAt = t]
    <2> DEFINE moves == MovesVersion(call[c].req, a)
               v == IF moves THEN n.v + 1 ELSE n.v
               t == IF moves \/ b # a THEN now ELSE n.updatedAt
    <2>1. n.v \in Nat /\ n.updatedAt \in Times
      BY <1>3 DEF OrderType
    <2>2. Saved(c) = [n EXCEPT !.v = v, !.updatedAt = t]
      BY Zenon DEF Saved, n, a, b
    <2>3. v \in Nat /\ t \in Times
      BY <1>2, <2>1
    <2> HIDE DEF v, t
    <2> QED
      BY <2>2, <2>3
  <1>9. /\ Saved(c) \in OrderType /\ Saved(c).steps = n.steps
        /\ Saved(c).current = n.current
    BY <1>3, <1>8 DEF OrderType
  <1> QED
    BY <1>3, <1>6, <1>7, <1>9 DEF Fit

\* An edit that leaves the steps of the stored order, or of a copy, alone.
LEMMA EditFits ==
  ASSUME Sound(order), NEW o, Sound(o), NEW n \in OrderType,
         n.steps = o.steps, n.current = o.current
  PROVE  Fit(n)
  BY DEF Sound, Fit

\* A merge changes what devices edit, each field as the winner has it.
LEMMA MergedFields ==
  ASSUME NEW o \in OrderType, NEW r \in Requests, r.op = "sync"
  PROVE  LET m == Merged(o, r) IN
         /\ m \in OrderType /\ m.steps = o.steps /\ m.current = o.current
         /\ \A f \in {"status", "type", "approval"} : m[f] # o[f] => RecordWon(o, r)
         /\ m.text # o.text => RecordWon(o, r) \/ TextWon(o, r)
         /\ m.item = MergedItem(o, r)
  <1> DEFINE won(sent, old) == IF RecordWon(o, r) THEN Given(sent, old) ELSE old
             status == won(r.status, o.status)
             type == won(r.type, o.type)
             approval == won(r.approval, o.approval)
             text == IF TextWon(o, r) THEN r.text ELSE won(r.text, o.text)
             item == MergedItem(o, r)
  <1>1. item \in Items
    BY RequestFields DEF MergedItem, ItemAdded, ItemWon, OrderType, Items
  <1>2. /\ status \in Statuses /\ type \in WorkTypes /\ approval \in Approvals
        /\ text \in Texts
    BY RequestFields DEF Given, OrderType, TextWon
  <1>3. Merged(o, r) = [o EXCEPT !.status = status, !.type = type,
                                 !.approval = approval, !.text = text, !.item = item]
    BY DEF Merged, OrderType
  <1>4. /\ status # o.status \/ type # o.type \/ approval # o.approval => RecordWon(o, r)
        /\ text # o.text => RecordWon(o, r) \/ TextWon(o, r)
    BY Zenon
  <1> HIDE DEF status, type, approval, text, item
  <1>5. /\ Merged(o, r) \in OrderType /\ Merged(o, r).steps = o.steps
        /\ Merged(o, r).current = o.current /\ Merged(o, r).status = status
        /\ Merged(o, r).type = type /\ Merged(o, r).approval = approval
        /\ Merged(o, r).text = text /\ Merged(o, r).item = item
    BY <1>1, <1>2, <1>3 DEF OrderType
  <1> QED
    BY <1>4, <1>5 DEF item

LEMMA MergedFits ==
  ASSUME Types, Sound(order), NEW o, Sound(o), NEW r \in Requests, r.op = "sync"
  PROVE  Fit([Merged(o, r) EXCEPT !.updatedAt = now])
  <1>1. /\ Merged(o, r) \in OrderType /\ Merged(o, r).steps = o.steps
        /\ Merged(o, r).current = o.current
    BY MergedFields DEF Sound
  <1> DEFINE n == [Merged(o, r) EXCEPT !.updatedAt = now]
  <1>2. n \in OrderType /\ n.steps = o.steps /\ n.current = o.current
    BY <1>1 DEF OrderType, Types
  <1> QED
    BY <1>2, EditFits

LEMMA UpdatedFits ==
  ASSUME Types, Sound(order), NEW r \in Requests, r.op = "update"
  PROVE  Fit(Updated(r, order))
  <1>1. /\ Patched(r, order) \in OrderType /\ Patched(r, order).steps = order.steps
        /\ Patched(r, order).current = order.current
    BY PatchedFields DEF Types
  <1>2. /\ Updated(r, order) \in OrderType /\ Updated(r, order).steps = order.steps
        /\ Updated(r, order).current = order.current
    BY <1>1 DEF Updated, OrderType, Types
  <1> QED
    BY <1>2, EditFits

-----------------------------------------------------------------------------
(* What a step leaves of the invariant.                                    *)

\* A write of a fit document is sound, and the past only grows.
LEMMA WriteIsSound ==
  ASSUME Types, NEW new, Fit(new), Write(new)
  PROVE  /\ order' \in OrderType /\ past' \in PastType /\ Sound(order)'
         /\ \A o : Sound(o) => Sound(o)'
         /\ past'.granted = past.granted
         /\ past.approved => past'.approved
         /\ past'.safe => past.safe
  <1> DEFINE signed == past.signed \cup {i \in DOMAIN new.steps : new.steps[i] = "approved"}
             at == [f \in Edited |-> IF new[f] # order[f] THEN now ELSE past.at[f]]
  <1>1. /\ past \in PastType /\ new \in OrderType /\ new.steps \in Shapes
        /\ DOMAIN new.steps = DOMAIN order.steps
    BY DEF Types, Fit, OrderType, Shapes
  <1>2. signed \in SUBSET Nat
    BY <1>1, StepsAreSequences DEF PastType
  <1>3. at \in [Edited -> Times]
    BY <1>1 DEF PastType, Types
  <1>4. PICK approved \in BOOLEAN, safe \in BOOLEAN :
           /\ past' = [past EXCEPT !.approved = approved, !.safe = safe,
                                   !.signed = signed, !.at = at]
           /\ past.approved \/ new.approval = "approved" => approved
           /\ safe => past.safe /\ new.type = "safety"
    <2> DEFINE approved == past.approved \/ new.approval = "approved"
               safe == past.safe /\ new.type = "safety"
    <2>1. past' = [past EXCEPT !.approved = approved, !.safe = safe,
                               !.signed = signed, !.at = at]
      BY Zenon DEF Write
    <2>2. approved \in BOOLEAN /\ safe \in BOOLEAN
      BY Zenon
    <2>3. /\ past.approved \/ new.approval = "approved" => approved
          /\ safe => past.safe /\ new.type = "safety"
      BY Zenon
    <2> HIDE DEF approved, safe, signed, at
    <2> QED
      BY <2>1, <2>2, <2>3
  <1> HIDE DEF signed, at
  <1>5. /\ past' \in PastType /\ past'.granted = past.granted /\ past'.signed = signed
        /\ past.approved \/ new.approval = "approved" => past'.approved
        /\ past'.safe => past.safe /\ new.type = "safety"
    BY <1>1, <1>2, <1>3, <1>4 DEF PastType
  <1>6. order' = new
    BY DEF Write
  <1>7. \A i \in past.signed : i \in signed
    BY DEF signed
  <1>8. \A i \in DOMAIN new.steps : new.steps[i] = "approved" => i \in signed
    BY DEF signed
  <1>9. Sound(order)'
    BY <1>1, <1>5, <1>6, <1>7, <1>8 DEF Sound, Fit
  <1>10. \A o : Sound(o) => Sound(o)'
    BY <1>1, <1>5, <1>6, <1>7 DEF Sound
  <1> QED
    BY <1>1, <1>5, <1>6, <1>9, <1>10

\* A call keeps what it has established while others write.
LEMMA CallKept ==
  ASSUME NEW d \in Calls, CallOK(d), call'[d] = call[d],
         \A o : Sound(o) => Sound(o)', past.granted \subseteq past'.granted
  PROVE  CallOK(d)'
  BY DEF CallOK

LEMMA IdleIsOK ==
  ASSUME Types, NEW c \in Calls, Finish(c)
  PROVE  /\ call' \in [Calls -> CallType] /\ CallOK(c)'
         /\ \A d \in Calls \ {c} : call'[d] = call[d]
  <1>1. Idle \in CallType /\ Idle.pc = "idle" /\ \A p \in Permits : Idle.seen[p] = "unread"
    BY WorkOrdersAssumption DEF Idle, CallType, Times
  <1>2. call' = [call EXCEPT ![c] = Idle] /\ call \in [Calls -> CallType]
    BY DEF Finish, Types
  <1>3. call'[c] = Idle
    BY <1>2
  <1>4. CallOK(c)'
    BY <1>1, <1>3 DEF CallOK, Granted
  <1> QED
    BY <1>1, <1>2, <1>4

\* The steps that touch neither the order nor the permits.
LEMMA QuietStep ==
  ASSUME IInv, NEW c \in Calls, UNCHANGED <<order, permit, past>>,
         call' \in [Calls -> CallType], CallOK(c)',
         \A d \in Calls \ {c} : call'[d] = call[d],
         now' \in Times, made' \in [calls : 0 .. MaxCalls, edits : 0 .. MaxEdits]
  PROVE  IInv'
  <1>1. Types'
    BY DEF IInv, Types
  <1>2. \A o : Sound(o) => Sound(o)'
    BY DEF Sound
  <1>3. Sound(order)'
    BY DEF IInv, Sound
  <1>4. \A d \in Calls : CallOK(d)'
    BY <1>2, CallKept DEF IInv
  <1>5. \A p \in Permits : PermitOK(p)'
    BY DEF IInv, PermitOK
  <1> QED
    BY <1>1, <1>3, <1>4, <1>5 DEF IInv

\* The steps that write the order.
LEMMA WritingStep ==
  ASSUME IInv, NEW new, Fit(new), Write(new), UNCHANGED <<permit, now>>,
         made' \in [calls : 0 .. MaxCalls, edits : 0 .. MaxEdits],
         call' \in [Calls -> CallType],
         \A d \in Calls : call'[d] = call[d] \/ CallOK(d)'
  PROVE  IInv'
  <1>1. /\ order' \in OrderType /\ past' \in PastType /\ Sound(order)'
        /\ \A o : Sound(o) => Sound(o)'
        /\ past'.granted = past.granted
        /\ past.approved => past'.approved
        /\ past'.safe => past.safe
    BY WriteIsSound DEF IInv
  <1>2. Types'
    BY <1>1 DEF IInv, Types
  <1>3. \A d \in Calls : CallOK(d)'
    BY <1>1, CallKept DEF IInv
  <1>4. \A p \in Permits : PermitOK(p)'
    BY <1>1 DEF IInv, PermitOK
  <1> QED
    BY <1>1, <1>2, <1>3, <1>4 DEF IInv

LEMMA InitInv == Init => IInv
  <1> SUFFICES ASSUME Init PROVE IInv
    OBVIOUS
  <1>1. PICK k \in Kinds :
          /\ order = [type |-> k.type, status |-> "requested",
                      approval |-> IF k.steps > 0 THEN "pending" ELSE "draft",
                      steps |-> [i \in 1 .. k.steps |-> "pending"], current |-> 1,
                      item |-> "open", text |-> OldText, permits |-> k.permits,
                      cleared |-> k.cleared, v |-> 0, updatedAt |-> 0]
          /\ permit = [p \in Permits |->
                         [status |-> k.issued, isolated |-> k.isolated, log |-> {}]]
          /\ past = [approved |-> FALSE, safe |-> k.type = "safety", signed |-> {},
                     granted |-> IF k.issued \in Granted THEN Permits ELSE {},
                     at |-> [f \in Edited |-> 0]]
    BY DEF Init
  <1>2. /\ k.type \in WorkTypes /\ k.steps \in Nat
        /\ k.permits \in SUBSET Permits /\ k.cleared \in BOOLEAN
        /\ k.issued \in PermitLife /\ k.isolated \in BOOLEAN
        /\ OldText \in Texts /\ MaxClock \in Nat /\ MaxCalls \in Nat /\ MaxEdits \in Nat
    BY WorkOrdersAssumption DEF OldText
  <1>3. order.steps \in Shapes /\ \A i \in DOMAIN order.steps : order.steps[i] = "pending"
    BY <1>1, <1>2 DEF Shapes, StepStatuses
  <1>4. order \in OrderType
    BY <1>1, <1>2, <1>3 DEF OrderType, Shapes, Statuses, Approvals, Items, Times
  <1>5. Sound(order)
    <2>1. order.type = k.type /\ order.current = 1 /\ order.approval # "approved"
      BY <1>1
    <2>2. DOMAIN order.steps = 1 .. Len(order.steps) /\ Len(order.steps) \in Nat
      BY <1>3, StepsAreSequences
    <2>3. past.safe => order.type = "safety"
      <3>1. past.safe = (k.type = "safety")
        BY <1>1, Zenon
      <3> QED
        BY <2>1, <3>1, Zenon
    <2> QED
      BY <1>3, <1>4, <2>1, <2>2, <2>3 DEF Sound
  <1>6. Idle \in CallType /\ Idle.pc = "idle" /\ \A p \in Permits : Idle.seen[p] = "unread"
    BY <1>2 DEF Idle, CallType, Times
  <1>7. \A c \in Calls : CallOK(c)
    BY <1>6 DEF Init, CallOK, Granted
  <1>8. \A p \in Permits : PermitOK(p)
    BY <1>1 DEF PermitOK
  <1>9. permit \in [Permits -> PermitType] /\ call \in [Calls -> CallType]
    BY <1>1, <1>2, <1>6 DEF Init, PermitType
  <1>10. past \in PastType
    <2>1. (k.type = "safety") \in BOOLEAN
      OBVIOUS
    <2> QED
      BY <1>1, <1>2, <2>1 DEF PastType, Times
  <1>11. now \in Times /\ made \in [calls : 0 .. MaxCalls, edits : 0 .. MaxEdits]
    BY <1>2 DEF Init, Times
  <1> QED
    BY <1>4, <1>5, <1>7, <1>8, <1>9, <1>10, <1>11 DEF IInv, Types

-----------------------------------------------------------------------------
(* One lemma for each kind of step.                                        *)

\* A loaded order is the stored one, and the first thing to check is the call's.
LEMMA LoadsOK ==
  ASSUME IInv, NEW c \in Calls, NEW r \in Requests, r.op \notin {"bulk", "checklist"},
         Loads(c, r), UNCHANGED <<order, past>>
  PROVE  /\ call' \in [Calls -> CallType] /\ CallOK(c)'
         /\ \A d \in Calls \ {c} : call'[d] = call[d]
  <1>1. CASE ~Proceeds(r)
    <2>1. Finish(c)
      BY <1>1 DEF Loads, Finish
    <2> QED
      BY <2>1, IdleIsOK DEF IInv
  <1>2. CASE Proceeds(r)
    <2> DEFINE pc == IF Stages(r) # <<>> THEN Head(Stages(r)) ELSE "save"
               since == IF r.op \in {"sync", "reconcile"} THEN past.at ELSE Idle.since
               new == [req |-> r, copy |-> order, seen |-> Idle.seen, since |-> since,
                       pc |-> pc]
    <2>1. call' = [call EXCEPT ![c] = new]
      BY <1>2, Zenon DEF Loads
    <2>2. /\ pc \in {"start", "complete", "save"}
          /\ pc = "complete" => r.op # "start"
          /\ pc = "start" => r.op # "complete"
          /\ pc = "save" => r.op \notin {"start", "complete"}
      <3>1. CASE r.op \in {"approve", "start"}
        BY <3>1 DEF Stages
      <3>2. CASE r.op \in {"complete", "cancel"}
        BY <3>2 DEF Stages
      <3>3. CASE r.op = "assign"
        BY <3>3 DEF Stages
      <3>4. CASE r.op \notin {"approve", "start", "complete", "cancel", "assign"}
        BY <3>4 DEF Stages
      <3> QED
        BY <3>1, <3>2, <3>3, <3>4
    <2> HIDE DEF pc
    <2>3. Idle.seen \in [Permits -> {"unread"}] /\ since \in [Edited -> Times]
      BY WorkOrdersAssumption DEF Idle, Times, IInv, Types, PastType
    <2> HIDE DEF since
    <2>4. new \in CallType /\ call \in [Calls -> CallType]
      BY <2>2, <2>3 DEF CallType, IInv, Types
    <2>5. call' \in [Calls -> CallType] /\ call'[c] = new
          /\ \A d \in Calls \ {c} : call'[d] = call[d]
      BY <2>1, <2>4
    <2>6. Sound(order)'
      BY DEF IInv, Sound
    <2>7. CallOK(c)'
      BY <2>2, <2>3, <2>5, <2>6 DEF CallOK, Granted
    <2> QED
      BY <2>5, <2>7
  <1> QED
    BY <1>1, <1>2

LEMMA BeginInv ==
  ASSUME IInv, NEW c \in Calls, NEW r \in Requests, Begin(c, r)
  PROVE  IInv'
  <1>1. /\ UNCHANGED <<order, permit, now, past>> /\ call \in [Calls -> CallType]
        /\ r.op \notin {"bulk", "checklist"} /\ now \in Times
    BY DEF Begin, IInv, Types
  <1>2. made' \in [calls : 0 .. MaxCalls, edits : 0 .. MaxEdits]
    BY WorkOrdersAssumption DEF Begin, MayCall, IInv, Types
  <1>3. CASE r.op \notin {"status", "reconcile"}
    <2>1. Loads(c, r)
      BY <1>3 DEF Begin
    <2> QED
      BY <1>1, <1>2, <2>1, LoadsOK, QuietStep
  <1>4. CASE r.op \in {"status", "reconcile"}
    <2>1. call' = [call EXCEPT ![c].req = r, ![c].pc = "load"]
      BY <1>4 DEF Begin
    <2>2. /\ call' \in [Calls -> CallType] /\ call'[c].req = r /\ call'[c].pc = "load"
          /\ call'[c].seen = call[c].seen
          /\ \A d \in Calls \ {c} : call'[d] = call[d]
      BY <1>1, <2>1 DEF CallType
    <2>3. CallOK(c)'
      BY <1>1, <2>2 DEF CallOK, IInv
    <2> QED
      BY <1>1, <1>2, <2>2, <2>3, QuietStep
  <1> QED
    BY <1>3, <1>4

LEMMA LoadInv ==
  ASSUME IInv, NEW c \in Calls, Load(c)
  PROVE  IInv'
  <1>1. /\ Loads(c, call[c].req) /\ UNCHANGED <<order, permit, now, made, past>>
        /\ call[c].req \in Requests /\ call[c].req.op \notin {"bulk", "checklist"}
    BY DEF Load, IInv, CallOK
  <1>2. now' \in Times /\ made' \in [calls : 0 .. MaxCalls, edits : 0 .. MaxEdits]
    BY <1>1 DEF IInv, Types
  <1> QED
    BY <1>1, <1>2, LoadsOK, QuietStep

\* A start that goes on has read every permit of its copy as allowing work; a
\* completion of a safety order has a copy that is approved.
LEMMA CheckInv ==
  ASSUME IInv, NEW c \in Calls, CheckPermits(c)
  PROVE  IInv'
  <1> DEFINE r == call[c].req
             o == call[c].copy
             ok == /\ Ready(call[c].pc, o.permits, permit)
                   /\ r.op = "complete" => MayComplete(r, o)
             pc == IF r.op = "assign" /\ call[c].pc = "complete" THEN "start" ELSE "save"
             seen == [p \in Permits |-> permit[p].status]
  <1>1. /\ UNCHANGED <<order, permit, now, made, past>>
        /\ call[c].pc \in {"start", "complete"} /\ call \in [Calls -> CallType]
    BY DEF CheckPermits, IInv, Types
  <1>2. now' \in Times /\ made' \in [calls : 0 .. MaxCalls, edits : 0 .. MaxEdits]
    BY <1>1 DEF IInv, Types
  <1>3. CASE ~ok
    <2>1. Finish(c)
      BY <1>3, Zenon DEF CheckPermits
    <2> QED
      BY <1>1, <1>2, <2>1, IdleIsOK, QuietStep DEF IInv
  <1>4. CASE ok
    <2>1. call' = [call EXCEPT ![c].seen = seen, ![c].pc = pc]
      BY <1>4, Zenon DEF CheckPermits
    <2>2. seen \in [Permits -> PermitLife]
      BY DEF IInv, Types, PermitType
    <2>3. pc \in {"start", "save"} /\ (pc = "start" => r.op = "assign")
      OBVIOUS
    <2>4. \A p \in Permits : seen[p] \in Granted => p \in past.granted
      BY DEF IInv, PermitOK
    <2>5. /\ r \in Requests /\ r.op \notin {"bulk", "checklist"} /\ Sound(o)
          /\ call[c].pc = "complete" => r.op # "start"
      BY <1>1 DEF IInv, CallOK
    <2>6. r.op = "start" => \A p \in o.permits : seen[p] \in Granted
      BY <1>1, <1>4, <2>5 DEF Ready, ReadyToStart, Granted, Sound, OrderType
    <2>7. r.op = "complete" /\ o.type = "safety" => o.approval = "approved"
      BY <1>4 DEF MayComplete
    <2>8. Sound(o)'
      BY <1>1, <2>1, <2>5 DEF Sound, CallType
    <2> HIDE DEF seen, pc, ok
    <2>9. /\ call' \in [Calls -> CallType]
          /\ call'[c].req = r /\ call'[c].copy = o
          /\ call'[c].seen = seen /\ call'[c].pc = pc
          /\ \A d \in Calls \ {c} : call'[d] = call[d]
      BY <1>1, <2>1, <2>2, <2>3 DEF CallType
    <2>10. CallOK(c)'
      BY <1>1, <2>3, <2>4, <2>5, <2>6, <2>7, <2>8, <2>9 DEF CallOK
    <2> QED
      BY <1>1, <1>2, <2>9, <2>10, QuietStep
  <1> QED
    BY <1>3, <1>4

LEMMA SaveInv ==
  ASSUME IInv, NEW c \in Calls, Save(c)
  PROVE  IInv'
  <1>1. /\ call[c].pc = "save" /\ UNCHANGED <<permit, now, made>>
        /\ call[c].req \in Requests /\ call[c].req.op \in Saves
        /\ Sound(call[c].copy) /\ Sound(order) /\ CallOK(c)
        /\ call \in [Calls -> CallType]
    BY RequestFields DEF Save, Saves, IInv, CallOK, Types
  <1>2. now' \in Times /\ made' \in [calls : 0 .. MaxCalls, edits : 0 .. MaxEdits]
    BY <1>1 DEF IInv, Types
  <1>3. CASE Finish(c) /\ UNCHANGED <<order, past>>
    BY <1>1, <1>2, <1>3, IdleIsOK, QuietStep DEF IInv
  <1>4. CASE /\ Write(Saved(c))
             /\ \/ Move(c, "permits") /\ call[c].req.op \in {"start", "complete"}
                \/ Finish(c)
    <2>1. Fit(Saved(c))
      BY <1>1, SavedFits DEF IInv
    <2>2. CASE Finish(c)
      <3>1. \A d \in Calls : call'[d] = call[d] \/ CallOK(d)'
        BY <2>2, IdleIsOK DEF IInv
      <3>2. call' \in [Calls -> CallType]
        BY <2>2, IdleIsOK DEF IInv
      <3> QED
        BY <1>1, <1>2, <1>4, <2>1, <3>1, <3>2, WritingStep
    <2>3. CASE Move(c, "permits") /\ call[c].req.op \in {"start", "complete"}
      <3>1. /\ call' \in [Calls -> CallType]
            /\ call'[c].req = call[c].req /\ call'[c].copy = call[c].copy
            /\ call'[c].seen = call[c].seen /\ call'[c].pc = "permits"
            /\ \A d \in Calls \ {c} : call'[d] = call[d]
        BY <1>1, <2>3 DEF Move, CallType
      <3>2. past'.granted = past.granted /\ \A o : Sound(o) => Sound(o)'
        BY <1>4, <2>1, WriteIsSound DEF IInv
      <3>3. CallOK(c)'
        BY <1>1, <2>3, <3>1, <3>2 DEF CallOK
      <3>4. \A d \in Calls : call'[d] = call[d] \/ CallOK(d)'
        BY <3>1, <3>3
      <3> QED
        BY <1>1, <1>2, <1>4, <2>1, <3>1, <3>4, WritingStep
    <2> QED
      BY <1>4, <2>2, <2>3
  <1> QED
    BY <1>3, <1>4 DEF Save

\* The two writes that end a call and ask for no version.
LEMMA LastWriteInv ==
  ASSUME IInv, NEW c \in Calls, Update(c) \/ Sync(c)
  PROVE  IInv'
  <1>1. /\ call[c].pc = "save" /\ UNCHANGED <<permit, now, made>> /\ Finish(c)
        /\ call[c].req \in Requests /\ Sound(call[c].copy) /\ Sound(order) /\ Types
    BY DEF Update, Sync, IInv, CallOK
  <1>2. made' \in [calls : 0 .. MaxCalls, edits : 0 .. MaxEdits]
    BY <1>1 DEF Types
  <1>3. PICK new : Fit(new) /\ Write(new)
    BY <1>1, UpdatedFits, MergedFits DEF Update, Sync
  <1>4. /\ call' \in [Calls -> CallType]
        /\ \A d \in Calls : call'[d] = call[d] \/ CallOK(d)'
    BY <1>1, IdleIsOK
  <1> QED
    BY <1>1, <1>2, <1>3, <1>4, WritingStep

LEMMA WriteThroughInv ==
  ASSUME IInv, NEW r \in Requests, WriteThrough(r)
  PROVE  IInv'
  <1>1. UNCHANGED <<permit, call, now>> /\ Types /\ Sound(order) /\ order \in OrderType
    BY DEF WriteThrough, IInv, Types
  <1>2. made' \in [calls : 0 .. MaxCalls, edits : 0 .. MaxEdits]
    BY WorkOrdersAssumption DEF WriteThrough, MayCall, IInv, Types
  <1>3. PICK new : Fit(new) /\ Write(new)
    <2>1. CASE r.op = "bulk"
      <3> DEFINE new == [order EXCEPT !.status = r.status, !.updatedAt = now]
      <3>1. /\ new \in OrderType /\ new.steps = order.steps
            /\ new.current = order.current
        BY <1>1, <2>1, RequestFields DEF OrderType, Types
      <3>2. Write(new)
        BY <2>1 DEF WriteThrough
      <3> QED
        BY <1>1, <3>1, <3>2, EditFits
    <2>2. CASE r.op = "checklist"
      <3> DEFINE new == [order EXCEPT !.item = r.item, !.updatedAt = now]
      <3>1. /\ new \in OrderType /\ new.steps = order.steps
            /\ new.current = order.current
        BY <1>1, <2>2, RequestFields DEF OrderType, Types
      <3>2. Write(new)
        BY <2>2 DEF WriteThrough
      <3> QED
        BY <1>1, <3>1, <3>2, EditFits
    <2> QED
      BY <2>1, <2>2 DEF WriteThrough
  <1> QED
    BY <1>1, <1>2, <1>3, WritingStep DEF Types

\* A permit is saved by a start that has read it as allowing work, or by a
\* completion whose copy of a safety order is approved.
LEMMA SavePermitInv ==
  ASSUME IInv, NEW c \in Calls, NEW p \in Permits, SavePermit(c, p)
  PROVE  IInv'
  <1> DEFINE r == call[c].req
             o == call[c].copy
             read == call[c].seen[p]
             w == Worked(r, read, permit[p])
  <1>1. /\ call[c].pc = "permits" /\ p \in o.permits
        /\ permit' = [permit EXCEPT ![p] = w]
        /\ UNCHANGED <<order, now, made, past>>
    BY DEF SavePermit
  <1>2. /\ Types /\ Sound(o) /\ r.op \in {"start", "complete"} /\ r \in Requests
        /\ r.op = "start" => \A q \in o.permits : call[c].seen[q] \in Granted
        /\ r.op = "complete" /\ o.type = "safety" => o.approval = "approved"
        /\ \A q \in Permits : call[c].seen[q] \in Granted => q \in past.granted
        /\ permit[p] \in PermitType /\ PermitOK(p)
    BY <1>1 DEF IInv, CallOK, Types
  <1>3. /\ w \in PermitType
        /\ w.log = permit[p].log \cup {Entry(r)}
        /\ w.status = "active" => permit[p].status = "active" \/ r.op = "start"
        /\ w.status = "approved" => permit[p].status = "approved"
    BY <1>2 DEF Worked, PermitType, PermitLife, Entry
  <1>4. \A q \in Permits : PermitOK(q)'
    <2>1. /\ r.op = "start" => p \in past.granted
          /\ r.op = "complete" /\ past.safe => past.approved
      BY <1>1, <1>2 DEF Sound
    <2> HIDE DEF w
    <2>2. permit'[p] = w /\ \A q \in Permits \ {p} : permit'[q] = permit[q]
      BY <1>1, <1>2 DEF Types
    <2>3. PermitOK(p)'
      BY <1>1, <1>2, <1>3, <2>1, <2>2 DEF PermitOK, Granted, Entry
    <2>4. ASSUME NEW q \in Permits \ {p} PROVE PermitOK(q)'
      BY <1>1, <2>2 DEF IInv, PermitOK
    <2> QED
      BY <2>3, <2>4
  <1>5. \A x : Sound(x) => Sound(x)'
    BY <1>1 DEF Sound
  <1>6. call' \in [Calls -> CallType] /\ \A d \in Calls : CallOK(d)'
    <2>1. CASE Finish(c)
      BY <1>1, <1>2, <1>5, <2>1, IdleIsOK, CallKept DEF IInv
    <2>2. CASE call' = [call EXCEPT ![c].copy.permits = @ \ {p}]
      <3> DEFINE new == [o EXCEPT !.permits = @ \ {p}]
      <3>1. /\ new \in OrderType /\ new.permits \subseteq o.permits
            /\ new.type = o.type /\ new.approval = o.approval
            /\ new.steps = o.steps /\ new.current = o.current
        BY <1>2 DEF Sound, OrderType
      <3>2. Sound(new)
        BY <1>2, <3>1 DEF Sound
      <3> HIDE DEF new
      <3>3. call' = [call EXCEPT ![c].copy = new]
        BY <1>2, <2>2 DEF new, Types, CallType, Sound, OrderType
      <3>4. /\ call' \in [Calls -> CallType]
            /\ call'[c].req = r /\ call'[c].copy = new
            /\ call'[c].seen = call[c].seen /\ call'[c].pc = call[c].pc
            /\ \A d \in Calls \ {c} : call'[d] = call[d]
        BY <1>2, <3>1, <3>3 DEF Types, CallType
      <3>5. CallOK(c)'
        BY <1>1, <1>2, <1>5, <3>1, <3>2, <3>4 DEF CallOK, IInv
      <3> QED
        BY <1>1, <1>5, <3>4, <3>5, CallKept DEF IInv
    <2> QED
      BY <2>1, <2>2 DEF SavePermit
  <1>7. Types'
    <2>1. permit' \in [Permits -> PermitType]
      BY <1>1, <1>2, <1>3 DEF Types
    <2> QED
      BY <1>1, <1>2, <1>6, <2>1 DEF Types
  <1> QED
    BY <1>1, <1>4, <1>5, <1>6, <1>7 DEF IInv

\* Steps of the permit office: the past gains grants only.
LEMMA OfficeStep ==
  ASSUME IInv, UNCHANGED <<order, call, now>>,
         made' \in [calls : 0 .. MaxCalls, edits : 0 .. MaxEdits],
         past' \in PastType, past'.approved = past.approved,
         past'.safe = past.safe, past'.signed = past.signed,
         past.granted \subseteq past'.granted,
         permit' \in [Permits -> PermitType],
         \A q \in Permits : permit'[q].log = permit[q].log,
         \A q \in Permits : permit'[q].status \in Granted => q \in past'.granted
  PROVE  IInv'
  <1>1. \A q \in Permits : PermitOK(q)'
    BY DEF IInv, PermitOK
  <1>2. \A o : Sound(o) => Sound(o)'
    BY DEF Sound
  <1>3. \A d \in Calls : CallOK(d)'
    BY <1>2, CallKept DEF IInv
  <1>4. Sound(order)'
    BY <1>2 DEF IInv
  <1> QED
    BY <1>1, <1>3, <1>4 DEF IInv, Types

LEMMA LockoutInv ==
  ASSUME IInv, NEW p \in Permits, Lockout(p)
  PROVE  IInv'
  <1>1. /\ UNCHANGED <<order, call, now, past>> /\ past \in PastType
        /\ permit' = [permit EXCEPT ![p].isolated = ~@]
        /\ made' = [made EXCEPT !.edits = @ + 1] /\ made.edits < MaxEdits
        /\ made \in [calls : 0 .. MaxCalls, edits : 0 .. MaxEdits]
        /\ permit \in [Permits -> PermitType]
    BY DEF Lockout, MayEdit, IInv, Types
  <1>2. made' \in [calls : 0 .. MaxCalls, edits : 0 .. MaxEdits]
    BY <1>1, WorkOrdersAssumption
  <1>3. /\ permit' \in [Permits -> PermitType]
        /\ \A q \in Permits : /\ permit'[q].status = permit[q].status
                              /\ permit'[q].log = permit[q].log
    BY <1>1 DEF PermitType
  <1>4. \A q \in Permits : permit'[q].status \in Granted => q \in past'.granted
    BY <1>1, <1>3 DEF IInv, PermitOK
  <1> QED
    BY <1>1, <1>2, <1>3, <1>4, OfficeStep

\* What an editor allows is granted from then on.
LEMMA EditInv ==
  ASSUME IInv, NEW p \in Permits, NEW s \in PermitStatuses, NEW b \in BOOLEAN,
         EditPermit(p, s, b)
  PROVE  IInv'
  <1> DEFINE granted == IF s \in Granted THEN past.granted \cup {p} ELSE past.granted
  <1>1. /\ UNCHANGED <<order, call, now>> /\ past \in PastType
        /\ permit' = [permit EXCEPT ![p].status = s, ![p].isolated = b]
        /\ made' = [made EXCEPT !.edits = @ + 1] /\ made.edits < MaxEdits
        /\ made \in [calls : 0 .. MaxCalls, edits : 0 .. MaxEdits]
        /\ permit \in [Permits -> PermitType]
    BY DEF EditPermit, MayEdit, IInv, Types
  <1>2. made' \in [calls : 0 .. MaxCalls, edits : 0 .. MaxEdits]
    BY <1>1, WorkOrdersAssumption
  <1>3. past' = [past EXCEPT !.granted = granted]
    BY Zenon DEF EditPermit, Granted
  <1>4. /\ granted \in SUBSET Permits /\ past.granted \subseteq granted
        /\ s \in Granted => p \in granted
    BY <1>1 DEF PastType
  <1> HIDE DEF granted
  <1>5. /\ past' \in PastType /\ past'.approved = past.approved
        /\ past'.safe = past.safe
        /\ past'.signed = past.signed /\ past'.granted = granted
    BY <1>1, <1>3, <1>4 DEF PastType
  <1>6. s \in PermitLife
    BY WorkOrdersAssumption
  <1>7. /\ permit' \in [Permits -> PermitType] /\ permit'[p].status = s
        /\ \A q \in Permits : permit'[q].log = permit[q].log
        /\ \A q \in Permits \ {p} : permit'[q].status = permit[q].status
    BY <1>1, <1>6 DEF PermitType
  <1>8. \A q \in Permits : permit'[q].status \in Granted => q \in past'.granted
    BY <1>4, <1>5, <1>7 DEF IInv, PermitOK
  <1> QED
    BY <1>1, <1>2, <1>4, <1>5, <1>7, <1>8, OfficeStep

LEMMA NextInv == IInv /\ [Next]_vars => IInv'
  <1> SUFFICES ASSUME IInv, [Next]_vars PROVE IInv'
    OBVIOUS
  <1>1. CASE \E c \in Calls, r \in Requests : Begin(c, r)
    BY <1>1, BeginInv
  <1>2. CASE \E c \in Calls : Load(c) \/ CheckPermits(c)
    BY <1>2, LoadInv, CheckInv
  <1>3. CASE \E c \in Calls : Save(c) \/ Update(c) \/ Sync(c)
    BY <1>3, SaveInv, LastWriteInv
  <1>4. CASE \E c \in Calls : Drop(c)
    <2>1. PICK c \in Calls : Drop(c)
      BY <1>4
    <2>2. /\ Finish(c) /\ UNCHANGED <<order, permit, past>> /\ now' \in Times
          /\ made' \in [calls : 0 .. MaxCalls, edits : 0 .. MaxEdits]
      BY <2>1 DEF Drop, IInv, Types
    <2> QED
      BY <2>2, IdleIsOK, QuietStep DEF IInv
  <1>5. CASE \E c \in Calls, p \in Permits : SavePermit(c, p)
    BY <1>5, SavePermitInv
  <1>6. CASE \E r \in Requests : WriteThrough(r)
    BY <1>6, WriteThroughInv
  <1>7. CASE \E p \in Permits :
               Lockout(p) \/ \E s \in PermitStatuses, b \in BOOLEAN : EditPermit(p, s, b)
    BY <1>7, LockoutInv, EditInv
  <1>8. CASE Tick \/ UNCHANGED vars
    <2>1. UNCHANGED <<order, permit, call, made, past>> /\ now' \in Times
      BY <1>8, WorkOrdersAssumption DEF Tick, vars, IInv, Types, Times
    <2> QED
      BY <2>1 DEF IInv, Types, Sound, CallOK, PermitOK
  <1> QED
    BY <1>1, <1>2, <1>3, <1>4, <1>5, <1>6, <1>7, <1>8 DEF Next

-----------------------------------------------------------------------------

\* The inductive invariant holds in every reachable state.
THEOREM Invariance == Spec => []IInv
  BY InitInv, NextInv, PTL DEF Spec

\* Every variable keeps its shape, whatever stale copies are written back.
THEOREM TypeCorrect == Spec => []TypeOK
  <1>1. IInv => TypeOK
    BY DEF IInv, Types, TypeOK, Sound, CallType, PastType
  <1> QED
    BY <1>1, Invariance, PTL

\* Work starts under a permit only after somebody has approved or activated it, for
\* any number of calls, edits and permits.
THEOREM StartsUnderApproval == Spec => []WorkedUnderApproval
  <1>1. IInv => WorkedUnderApproval
    BY DEF IInv, PermitOK, WorkedUnderApproval
  <1> QED
    BY <1>1, Invariance, PTL

\* A permit records the completion of an order that has been a safety order
\* throughout only after the order was approved, and no approval step is passed that
\* was not approved.
THEOREM SignOffIsKept == Spec => []SignedOff
  <1>1. IInv => SignedOff
    BY DEF IInv, PermitOK, Sound, SignedOff
  <1> QED
    BY <1>1, Invariance, PTL

-----------------------------------------------------------------------------
(* Edits made by devices.                                                  *)

\* The stamp of the document is no earlier than the last change of any field.
Stamped ==
  /\ order.updatedAt <= now
  /\ \A f \in Edited : past.at[f] <= order.updatedAt

\* A device's edit that has loaded the order knows when its fields were changed; a
\* reconcile has found its stamp good for that copy.
Dated(c) ==
  call[c].pc \in {"start", "complete", "save"} =>
    /\ call[c].req.op \in {"sync", "reconcile"} =>
         \A f \in Edited : call[c].since[f] <= call[c].copy.updatedAt
    /\ call[c].req.op = "reconcile" => Reconciles(call[c].copy, call[c].req)

StampInv == IInv /\ Stamped /\ \A c \in Calls : Dated(c)

Tracks(new) ==
  \/ new.updatedAt = now
  \/ new.updatedAt = order.updatedAt /\ \A f \in Edited : new[f] = order[f]

\* A write that stamps the document, or leaves its stamp and what devices edit
\* alone, keeps the stamp.
LEMMA StampedWrite ==
  ASSUME Types, Types', Stamped, NEW new, Write(new), Tracks(new), UNCHANGED now
  PROVE  Stamped'
  <1>1. order' = new /\ now' = now
    BY DEF Write
  <1>2. \A f \in Edited : past'.at[f] = IF new[f] # order[f] THEN now ELSE past.at[f]
    BY DEF Write, Types, PastType
  <1>3. /\ now \in Int /\ order.updatedAt \in Int /\ new.updatedAt \in Int
        /\ \A f \in Edited : past.at[f] \in Int
    BY <1>1 DEF Types, OrderType, PastType, Times
  <1>4. new.updatedAt <= now
    BY <1>3 DEF Stamped, Tracks
  <1>5. ASSUME NEW f \in Edited PROVE past'.at[f] <= new.updatedAt
    <2>1. CASE new.updatedAt = now
      BY <1>2, <1>3, <2>1 DEF Stamped
    <2>2. CASE new.updatedAt = order.updatedAt /\ new[f] = order[f]
      BY <1>2, <2>2 DEF Stamped
    <2> QED
      BY <2>1, <2>2 DEF Tracks
  <1> QED
    BY <1>1, <1>4, <1>5 DEF Stamped

\* save() stamps the document if it changes anything a device edits, and of these
\* fields sends the ones it changed.
LEMMA SavedTracks ==
  ASSUME IInv, NEW c \in Calls, call[c].pc = "save", call[c].req.op \in Saves
  PROVE  /\ Tracks(Saved(c))
         /\ \A f \in Edited :
              Changed(call[c].req, call[c].copy)[f] = call[c].copy[f] =>
                Saved(c)[f] = order[f]
  <1> DEFINE r == call[c].req
             a == call[c].copy
             b == Changed(r, a)
             n == Onto(order, a, b)
             moves == MovesVersion(r, a)
             t == IF moves \/ b # a THEN now ELSE n.updatedAt
             v == IF moves THEN n.v + 1 ELSE n.v
  <1>1. order \in OrderType
    BY DEF IInv, Types
  <1>2. \A f \in Edited \cup {"updatedAt"} :
          n[f] = IF b[f] # a[f] THEN b[f] ELSE order[f]
    BY <1>1 DEF Onto, OrderType, Edited
  <1>3. Edited \cup {"updatedAt", "v"} \subseteq DOMAIN order /\ DOMAIN n = DOMAIN order
    BY <1>1 DEF OrderType, Onto, Edited
  <1>4. Saved(c) = [n EXCEPT !.v = v, !.updatedAt = t]
    BY Zenon DEF Saved
  <1>5. moves \/ b # a => t = now
    BY Zenon
  <1>6. ~(moves \/ b # a) => t = n.updatedAt
    BY Zenon
  <1> HIDE DEF b, n, v, t, moves
  <1>7. Saved(c).updatedAt = t /\ \A f \in Edited : Saved(c)[f] = n[f]
    BY <1>3, <1>4 DEF Edited
  <1>8. Tracks(Saved(c))
    <2>1. CASE moves \/ b # a
      BY <1>5, <1>7, <2>1 DEF Tracks
    <2>2. CASE ~(moves \/ b # a)
      <3>1. b = a
        BY <2>2
      <3>2. Saved(c).updatedAt = order.updatedAt
        BY <1>2, <1>6, <1>7, <2>2, <3>1
      <3>3. \A f \in Edited : Saved(c)[f] = order[f]
        BY <1>2, <1>7, <3>1
      <3> QED
        BY <3>2, <3>3 DEF Tracks
    <2> QED
      BY <2>1, <2>2
  <1> QED
    BY <1>2, <1>7, <1>8 DEF b

\* Whatever is written, the document is stamped for it.
LEMMA WritesTrack ==
  ASSUME IInv, Next, ~UNCHANGED <<order, past>>,
         ~ \E p \in Permits, s \in PermitStatuses, b \in BOOLEAN : EditPermit(p, s, b)
  PROVE  /\ UNCHANGED now
         /\ \E new : Write(new) /\ Tracks(new)
  <1>1. order \in OrderType /\ now \in Times
    BY DEF IInv, Types
  <1>2. ASSUME NEW c \in Calls, Save(c)
        PROVE  UNCHANGED now /\ \E new : Write(new) /\ Tracks(new)
    <2>1. call[c].pc = "save" /\ call[c].req.op \in Saves
      BY <1>2, RequestFields DEF Save, Saves, IInv, CallOK
    <2> QED
      BY <1>2, <2>1, SavedTracks DEF Save
  <1>3. ASSUME NEW c \in Calls, Update(c)
        PROVE  UNCHANGED now /\ \E new : Write(new) /\ Tracks(new)
    <2>1. Updated(call[c].req, order).updatedAt = now
      BY <1>1 DEF Updated, OrderType
    <2> QED
      BY <1>3, <2>1 DEF Update, Tracks
  <1>4. ASSUME NEW c \in Calls, Sync(c)
        PROVE  UNCHANGED now /\ \E new : Write(new) /\ Tracks(new)
    <2>1. call[c].copy \in OrderType
      BY <1>4 DEF Sync, IInv, CallOK, Sound
    <2>2. [Merged(call[c].copy, call[c].req) EXCEPT !.updatedAt = now].updatedAt = now
      BY <2>1 DEF Merged, OrderType
    <2> QED
      BY <1>4, <2>2 DEF Sync, Tracks
  <1>5. ASSUME NEW r \in Requests, WriteThrough(r)
        PROVE  UNCHANGED now /\ \E new : Write(new) /\ Tracks(new)
    <2>1. /\ [order EXCEPT !.status = r.status, !.updatedAt = now].updatedAt = now
          /\ [order EXCEPT !.item = r.item, !.updatedAt = now].updatedAt = now
      BY <1>1 DEF OrderType
    <2> QED
      BY <1>5, <2>1 DEF WriteThrough, Tracks
  <1> QED
    BY <1>2, <1>3, <1>4, <1>5
    DEF Next, Begin, Load, CheckPermits, Drop, SavePermit, Lockout, Tick

\* A call that reaches its checks has loaded an order its request applies to; from
\* there the copy and the request stay as they are.
LEMMA DatedKept ==
  ASSUME IInv, Stamped, NEW c \in Calls, Dated(c), [Next]_vars
  PROVE  Dated(c)'
  <1>1. call \in [Calls -> CallType]
    BY DEF IInv, Types
  <1>2. Idle.pc = "idle"
    BY DEF Idle
  <1>3. CASE call'[c] = call[c]
    BY <1>3 DEF Dated
  <1>4. ASSUME NEW d \in Calls, Finish(d) PROVE Dated(c)'
    BY <1>1, <1>2, <1>3, <1>4 DEF Finish, Dated
  <1>5. ASSUME NEW d \in Calls, NEW r \in Requests, Loads(d, r) PROVE Dated(c)'
    <2>1. CASE ~Proceeds(r)
      BY <1>4, <1>5, <2>1 DEF Loads, Finish
    <2>2. CASE Proceeds(r) /\ d = c
      <3>1. /\ call'[c].req = r /\ call'[c].copy = order
            /\ r.op \in {"sync", "reconcile"} => call'[c].since = past.at
        BY <1>1, <1>5, <2>2 DEF Loads
      <3>2. r.op = "reconcile" => Reconciles(order, r)
        BY <2>2 DEF Proceeds
      <3> QED
        BY <3>1, <3>2 DEF Dated, Stamped
    <2>3. CASE d # c
      BY <1>1, <1>3, <1>5, <2>3 DEF Loads
    <2> QED
      BY <2>1, <2>2, <2>3
  <1>6. ASSUME NEW d \in Calls, NEW r \in Requests, Begin(d, r) PROVE Dated(c)'
    <2>1. CASE Loads(d, r)
      BY <1>5, <2>1
    <2>2. CASE call' = [call EXCEPT ![d].req = r, ![d].pc = "load"]
      <3>1. d # c => call'[c] = call[c]
        BY <1>1, <2>2
      <3>2. d = c => call'[c].pc = "load"
        BY <1>1, <2>2 DEF CallType
      <3> QED
        BY <1>3, <3>1, <3>2 DEF Dated
    <2> QED
      BY <1>6, <2>1, <2>2 DEF Begin
  <1>7. ASSUME NEW d \in Calls, Load(d) PROVE Dated(c)'
    <2>1. call[d].req \in Requests
      BY <1>7 DEF Load, IInv, CallOK
    <2> QED
      BY <1>5, <1>7, <2>1 DEF Load
  <1>8. ASSUME NEW d \in Calls, CheckPermits(d) PROVE Dated(c)'
    <2>1. CASE Finish(d)
      BY <1>4, <2>1
    <2>2. CASE ~Finish(d)
      <3>1. PICK seen, pc : call' = [call EXCEPT ![d].seen = seen, ![d].pc = pc]
        BY <1>8, <2>2, Zenon DEF CheckPermits
      <3>2. d # c => call'[c] = call[c]
        BY <1>1, <3>1
      <3>3. /\ call'[d].req = call[d].req /\ call'[d].copy = call[d].copy
            /\ call'[d].since = call[d].since
        BY <1>1, <3>1 DEF CallType
      <3>4. call[d].pc \in {"start", "complete"}
        BY <1>8 DEF CheckPermits
      <3> QED
        BY <1>3, <3>2, <3>3, <3>4 DEF Dated
    <2> QED
      BY <2>1, <2>2
  <1>9. ASSUME NEW d \in Calls, Save(d) \/ Update(d) \/ Sync(d) \/ Drop(d)
        PROVE  Dated(c)'
    <2>1. CASE Finish(d)
      BY <1>4, <2>1
    <2>2. CASE Move(d, "permits")
      <3>1. d # c => call'[c] = call[c]
        BY <1>1, <2>2 DEF Move
      <3>2. d = c => call'[c].pc = "permits"
        BY <1>1, <2>2 DEF Move, CallType
      <3> QED
        BY <1>3, <3>1, <3>2 DEF Dated
    <2> QED
      BY <1>9, <2>1, <2>2 DEF Save, Update, Sync, Drop
  <1>10. ASSUME NEW d \in Calls, NEW p \in Permits, SavePermit(d, p)
         PROVE  Dated(c)'
    <2>1. CASE Finish(d)
      BY <1>4, <2>1
    <2>2. CASE call' = [call EXCEPT ![d].copy.permits = @ \ {p}]
      <3>1. d # c => call'[c] = call[c]
        BY <1>1, <2>2
      <3>2. call'[d].pc = "permits"
        BY <1>1, <1>10, <2>2 DEF SavePermit, CallType
      <3> QED
        BY <1>3, <3>1, <3>2 DEF Dated
    <2> QED
      BY <1>10, <2>1, <2>2 DEF SavePermit
  <1>11. CASE UNCHANGED call
    BY <1>3, <1>11
  <1> QED
    BY <1>6, <1>7, <1>8, <1>9, <1>10, <1>11
    DEF Next, WriteThrough, Lockout, EditPermit, Tick, vars

LEMMA StampInvariance == Spec => []StampInv
  <1>1. Init => StampInv
    <2> SUFFICES ASSUME Init PROVE StampInv
      OBVIOUS
    <2>1. order.updatedAt = 0 /\ now = 0 /\ \A f \in Edited : past.at[f] = 0
      BY DEF Init
    <2>2. \A c \in Calls : call[c].pc = "idle"
      BY DEF Init, Idle
    <2> QED
      BY <2>1, <2>2, InitInv DEF StampInv, Stamped, Dated
  <1>2. StampInv /\ [Next]_vars => StampInv'
    <2> SUFFICES ASSUME StampInv, [Next]_vars PROVE StampInv'
      OBVIOUS
    <2>1. IInv /\ IInv' /\ Types /\ Types' /\ Stamped
      BY NextInv DEF StampInv, IInv
    <2>2. \A c \in Calls : Dated(c)'
      BY DatedKept DEF StampInv
    <2>3. Stamped'
      <3>1. CASE UNCHANGED <<order, past>>
        <4>1. now \in Int /\ now' \in Int /\ order.updatedAt \in Int /\ now <= now'
          <5>1. now' = now \/ now' = now + 1
            BY DEF Next, vars, Begin, Load, CheckPermits, Save, Update, Sync, Drop,
               SavePermit, WriteThrough, Lockout, EditPermit, Tick
          <5> QED
            BY <2>1, <5>1 DEF Types, OrderType, Times
        <4> QED
          BY <2>1, <3>1, <4>1 DEF Stamped
      <3>2. CASE \E p \in Permits, s \in PermitStatuses, b \in BOOLEAN :
                   EditPermit(p, s, b)
        <4>1. UNCHANGED <<order, now>> /\ past'.at = past.at
          BY <2>1, <3>2 DEF EditPermit, Types, PastType
        <4> QED
          BY <2>1, <4>1 DEF Stamped
      <3>3. CASE /\ ~UNCHANGED <<order, past>>
                 /\ ~ \E p \in Permits, s \in PermitStatuses, b \in BOOLEAN :
                        EditPermit(p, s, b)
        <4>1. Next
          BY <3>3 DEF vars
        <4>2. UNCHANGED now /\ \E new : Write(new) /\ Tracks(new)
          BY <2>1, <3>3, <4>1, WritesTrack
        <4> QED
          BY <2>1, <4>2, StampedWrite
      <3> QED
        BY <3>1, <3>2, <3>3
    <2> QED
      BY <2>1, <2>2, <2>3 DEF StampInv
  <1> QED
    BY <1>1, <1>2, PTL DEF Spec

\* A stamp that wins against the copy's is no earlier than the last change of any
\* field by the time of the copy.
LEMMA WinsIsAfter ==
  ASSUME NEW o \in OrderType, NEW since \in [Edited -> Times], NEW stamp \in Int,
         NEW vector, NEW first, NEW f \in Edited, since[f] <= o.updatedAt,
         ClientWins(o.updatedAt, stamp, vector, first)
  PROVE  stamp >= since[f]
  <1>1. o.updatedAt \in Int /\ since[f] \in Int
    BY DEF OrderType, Times
  <1>2. stamp >= o.updatedAt
    BY <1>1 DEF ClientWins
  <1> QED
    BY <1>1, <1>2

\* What a call can do in a step that ends it at its save.
LEMMA EndsBySaving ==
  ASSUME IInv, Next, NEW c \in Calls, call[c].pc = "save", call'[c].pc = "idle"
  PROVE  Save(c) \/ Update(c) \/ Sync(c)
  <1>1. call \in [Calls -> CallType] /\ call'[c] # call[c]
    BY DEF IInv, Types
  <1>2. \A d \in Calls : d # c => ~(Save(d) \/ Update(d) \/ Sync(d))
    BY <1>1 DEF Save, Update, Sync, Finish, Move
  <1>3. \A d \in Calls, r \in Requests : ~Begin(d, r)
    BY <1>1 DEF Begin, Loads
  <1>4. \A d \in Calls : ~Load(d) /\ ~CheckPermits(d) /\ ~Drop(d)
    BY <1>1 DEF Load, Loads, CheckPermits, Drop, Finish
  <1>5. \A d \in Calls, p \in Permits : ~SavePermit(d, p)
    BY <1>1 DEF SavePermit, Finish
  <1>6. /\ \A r \in Requests : ~WriteThrough(r)
        /\ \A p \in Permits : ~Lockout(p)
        /\ \A p \in Permits, s \in PermitStatuses, b \in BOOLEAN : ~EditPermit(p, s, b)
        /\ ~Tick
    BY <1>1 DEF WriteThrough, Lockout, EditPermit, Tick
  <1> QED
    BY <1>2, <1>3, <1>4, <1>5, <1>6 DEF Next

\* A reconcile that changes a field of its copy was stamped after its last change.
LEMMA ReconcileStands ==
  ASSUME StampInv, NEW c \in Calls, call[c].pc = "save", Save(c),
         call[c].req.op = "reconcile", call[c].req.at # NoTime,
         NEW f \in Edited, order'[f] # order[f], order'[f] # call[c].copy[f]
  PROVE  \E s \in Stamps(call[c].req, f) : s >= call[c].since[f]
  <1> DEFINE r == call[c].req
             o == call[c].copy
  <1>1. /\ o \in OrderType /\ r \in Requests /\ call[c].since \in [Edited -> Times]
        /\ Reconciles(o, r) /\ call[c].since[f] <= o.updatedAt
    BY DEF StampInv, IInv, Types, CallType, CallOK, Sound, Dated
  <1>2. Changed(r, o) = Patched(r, o)
    BY DEF Changed
  <1>3. order' = Saved(c)
    BY DEF Save, Write
  <1>4. Patched(r, o)[f] # o[f]
    BY <1>2, <1>3, SavedTracks DEF StampInv, Saves
  <1>5. Patched(r, o)[f] = Given(r[f], o[f])
    BY <1>1, PatchedFields DEF Edited
  <1>6. r.at >= o.updatedAt
    BY <1>1, <1>4, <1>5 DEF Reconciles, Given, Edited
  <1>7. /\ r.at \in Int /\ o.updatedAt \in Int /\ call[c].since[f] \in Int
    BY <1>1, RequestFields DEF OrderType, Times
  <1>8. r.at >= call[c].since[f]
    BY <1>1, <1>6, <1>7
  <1>9. r.at \in Stamps(r, f)
    BY DEF Stamps
  <1> QED
    BY <1>8, <1>9

\* So was a mobile edit, or the field in it.
LEMMA SyncStands ==
  ASSUME StampInv, NEW c \in Calls, Sync(c), NEW f \in Edited,
         order'[f] # call[c].copy[f], ~(f = "item" /\ call[c].copy.item = "gone")
  PROVE  \E s \in Stamps(call[c].req, f) : s >= call[c].since[f]
  <1> DEFINE r == call[c].req
             o == call[c].copy
             since == call[c].since
  <1>1. /\ o \in OrderType /\ r \in Requests /\ since \in [Edited -> Times]
        /\ since[f] <= o.updatedAt /\ r.op = "sync"
    BY DEF Sync, StampInv, IInv, Types, CallType, CallOK, Sound, Dated
  <1>2. /\ r.at \in Int /\ StampOf(r.textAt, r) \in Int /\ StampOf(r.itemAt, r) \in Int
    BY <1>1, RequestFields DEF StampOf
  <1>3. Merged(o, r)[f] # o[f]
    <2>1. order' = [Merged(o, r) EXCEPT !.updatedAt = now]
      BY DEF Sync, Write
    <2>2. Merged(o, r) \in OrderType
      BY <1>1, MergedFields
    <2>3. order'[f] = Merged(o, r)[f]
      BY <2>1, <2>2 DEF OrderType, Edited
    <2> QED
      BY <2>3
  <1> HIDE DEF r, o, since
  <1>4. CASE f \in {"status", "type", "approval"}
    <2>1. RecordWon(o, r)
      BY <1>1, <1>3, <1>4, MergedFields
    <2>2. r.at >= since[f]
      BY <1>1, <1>2, <2>1, WinsIsAfter DEF RecordWon
    <2>3. r.at \in Stamps(r, f)
      BY <1>4 DEF Stamps
    <2> QED
      BY <2>2, <2>3 DEF r, since
  <1>5. CASE f = "text"
    <2>1. RecordWon(o, r) \/ TextWon(o, r)
      BY <1>1, <1>3, <1>5, MergedFields
    <2>2. RecordWon(o, r) => r.at >= since[f]
      BY <1>1, <1>2, WinsIsAfter DEF RecordWon
    <2>3. TextWon(o, r) => StampOf(r.textAt, r) >= since[f]
      BY <1>1, <1>2, WinsIsAfter DEF TextWon
    <2>4. Stamps(r, f) = {r.at, StampOf(r.textAt, r)}
      BY <1>1, <1>5 DEF Stamps
    <2> QED
      BY <2>1, <2>2, <2>3, <2>4 DEF r, since
  <1>6. CASE f = "item"
    <2>1. MergedItem(o, r) # o.item /\ o.item # "gone"
      BY <1>1, <1>3, <1>6, MergedFields DEF o
    <2>2. ItemWon(o, r)
      BY <2>1 DEF MergedItem, ItemAdded
    <2>3. StampOf(r.itemAt, r) >= since[f]
      BY <1>1, <1>2, <2>2, WinsIsAfter DEF ItemWon
    <2>4. StampOf(r.itemAt, r) \in Stamps(r, f)
      BY <1>1, <1>6 DEF Stamps
    <2> QED
      BY <2>3, <2>4 DEF r, since
  <1> QED
    BY <1>4, <1>5, <1>6 DEF Edited

\* A mobile batch or a stamped reconcile sets no field to something else than it
\* read if that field was last changed, as of its read, after the edit; the order
\* may be written by any number of calls between its read and its write.
THEOREM EditsUndoNothingLater == Spec => LaterChangeStands
  <1> DEFINE Stands(c) ==
        LET r == call[c].req
            copy == call[c].copy
        IN  (/\ call[c].pc = "save" /\ call'[c].pc = "idle"
             /\ r.op = "sync" \/ (r.op = "reconcile" /\ r.at # NoTime)) =>
            \A f \in Edited :
              (/\ order'[f] # order[f] /\ order'[f] # copy[f]
               /\ ~(f = "item" /\ copy.item = "gone")) =>
              \E s \in Stamps(r, f) : s >= call[c].since[f]
  <1>1. StampInv /\ [Next]_vars => \A c \in Calls : Stands(c)
    <2> SUFFICES ASSUME StampInv, [Next]_vars, NEW c \in Calls,
                        call[c].pc = "save", call'[c].pc = "idle",
                        \/ call[c].req.op = "sync"
                        \/ call[c].req.op = "reconcile" /\ call[c].req.at # NoTime,
                        NEW f \in Edited,
                        order'[f] # order[f], order'[f] # call[c].copy[f],
                        ~(f = "item" /\ call[c].copy.item = "gone")
                 PROVE  \E s \in Stamps(call[c].req, f) : s >= call[c].since[f]
      OBVIOUS
    <2>1. Save(c) \/ Update(c) \/ Sync(c)
      <3>1. Next
        BY DEF vars
      <3> QED
        BY <3>1, EndsBySaving DEF StampInv
    <2>2. CASE Save(c)
      BY <2>2, ReconcileStands DEF Save
    <2>3. CASE Sync(c)
      BY <2>3, SyncStands
    <2> QED
      BY <2>1, <2>2, <2>3 DEF Update
  <1>2. StampInv /\ [Next]_vars => [\A c \in Calls : Stands(c)]_vars
    BY <1>1
  <1> QED
    BY <1>2, StampInvariance, PTL DEF Spec, LaterChangeStands
=============================================================================
