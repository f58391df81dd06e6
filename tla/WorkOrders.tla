------------------------------ MODULE WorkOrders ------------------------------
(***************************************************************************)
(* The life of one work order and its permits: the controller's approve,   *)
(* assign, start, complete, cancel, update, bulk update and checklist      *)
(* calls (backend/controllers/WorkOrderController.ts), the status,         *)
(* reconcile and approval routes (backend/src/modules/work-orders), the    *)
(* permit routes (backend/routes/permitRoutes.ts) and the batches of the   *)
(* mobile client (backend/src/modules/mobile).                             *)
(*                                                                         *)
(* A call loads the order, does more reads, and writes back.  There is no  *)
(* transaction and no lock, so calls interleave at each read and write.    *)
(* save() sends the fields that differ from the copy that was loaded; the  *)
(* mobile client's write sends the whole merged copy.                      *)
(***************************************************************************)
EXTENDS MobileMerge, Sequences

CONSTANTS Calls,          \* calls that may be under way at a time
          Permits,        \* permits that an order may be linked to
          Texts,          \* descriptions
          Kinds,          \* the orders to begin with: type, number of approval
                          \* steps of the workflow rule, permits, whether its
                          \* permit approvals and lockout are verified, and
                          \* how its permits were created
          Requests,       \* the requests clients make
          PermitStatuses, \* what an editor sets a permit to
          MaxCalls,       \* bound: calls in a behaviour
          MaxEdits,       \* bound: edits of permits
          MaxMoves,       \* bound: calls and edits together
          MaxClock        \* bound: ticks of the clock

Times    == 0 .. MaxClock
Statuses == {"requested", "assigned", "in_progress", "paused", "completed",
             "cancelled", "draft", "pending_approval", "approved"}
\* What a body may set; the status and mobile routes take any status.
Settable == Statuses \ {"draft", "pending_approval", "approved"}
WorkTypes == {"safety", "corrective"}
Approvals == {"draft", "pending", "approved", "rejected"}
StepStatuses == {"pending", "approved", "rejected"}
PermitLife == {"pending", "approved", "active", "closed"}
Granted == {"approved", "active"}

\* The body of an update and of a reconcile.  A checklist with items in it does
\* not pass the validation of the document, which asks for a text the schema of
\* the body takes out; an empty one does.
PayloadType(ops, times) ==
  [op : ops, status : Settable \cup {Absent}, type : WorkTypes \cup {Absent},
   approval : Approvals \cup {Absent}, text : Texts \cup {Absent},
   item : {"gone", Absent}, relink : BOOLEAN, permits : SUBSET Permits,
   at : times]

RequestType ==
  [op : {"approve"}, to : {"pending", "approved", "rejected"}]
  \cup [op : {"assign"}, names : BOOLEAN]
  \cup [op : {"start", "cancel", "request"}]
  \cup [op : {"complete"}, item : (Items \ {"gone"}) \cup {Absent}]
  \cup PayloadType({"update"}, {NoTime})
  \cup PayloadType({"reconcile"}, Times \cup {NoTime})
  \cup [op : {"bulk", "status"}, status : Statuses]
  \cup [op : {"checklist"}, item : Items]
  \cup [op : {"advance"}, approved : BOOLEAN]
  \cup EditType(Statuses, WorkTypes, Approvals, Texts, Times)

ASSUME WorkOrdersAssumption ==
  /\ MaxCalls \in Nat /\ MaxEdits \in Nat /\ MaxMoves \in Nat /\ MaxClock \in Nat
  /\ Kinds \subseteq [type : WorkTypes, steps : Nat, permits : SUBSET Permits,
                      cleared : BOOLEAN, issued : PermitLife, isolated : BOOLEAN]
  /\ Requests \subseteq RequestType
  /\ PermitStatuses \subseteq PermitLife
  /\ Texts # {}

VARIABLES order,   \* the stored work order
          permit,  \* the stored permits: status, lockout done, history entries
          call,    \* what each call is doing, with what it has read
          now,     \* the clock of the database
          made,    \* calls made and permit edits made, for the bounds
          past     \* what has been true of the order and its permits so far

vars == <<order, permit, call, now, made, past>>

-----------------------------------------------------------------------------
(* What a call does with the copies it has read.                           *)

NoRequest == [op |-> "none"]
Nothing == [none |-> TRUE]
Edited == {"status", "type", "approval", "text", "item"}
Idle == [req |-> NoRequest, pc |-> "idle", copy |-> Nothing,
         seen |-> [p \in Permits |-> "unread"], since |-> [f \in Edited |-> 0]]

\* The permit readings of the call that are still to be made.
Stages(r) ==
  CASE r.op \in {"approve", "start"}   -> <<"start">>
    [] r.op \in {"complete", "cancel"} -> <<"complete">>
    [] r.op = "assign"                 -> <<"complete", "start">>
    [] OTHER                           -> <<>>

\* Mutant: a permit that waits for its approval will do.
NotRefused(p) == p.status # "closed"

ReadyToStart(p) == p.status \in Granted
ReadyToComplete(p) == p.isolated /\ p.status \in {"active", "approved", "closed"}

Ready(stage, permits, stored) ==
  \A p \in permits : IF stage = "start" THEN ReadyToStart(stored[p])
                                        ELSE ReadyToComplete(stored[p])

Blocking(item) == item = "open"

\* The safety middleware looks at the order before the handler loads it again.
Admitted(o, r) ==
  /\ o.cleared
  /\ (r.status = "completed" /\ o.current \in DOMAIN o.steps) =>
       o.steps[o.current] = "approved"

\* The checklist a completion is checked against and then saved: the body's, or
\* the order's own.
ChecklistOf(r, o) == IF r.item = Absent THEN o.item ELSE r.item

\* Mutant: a completion looks at the checklist only.
ChecklistDone(r, o) == ~Blocking(ChecklistOf(r, o))

\* Sign-off that completing a safety order asks for, on the copy it loaded.
MayComplete(r, o) ==
  /\ ~Blocking(ChecklistOf(r, o))
  /\ o.type = "safety" => o.approval = "approved"

\* Approval through the controller: one decision by a signatory.
Approved(r, o) ==
  [o EXCEPT !.approval = r.to,
            !.status = CASE r.to = "pending"  -> "pending_approval"
                         [] r.to = "approved" -> "approved"
                         [] OTHER             -> @]

\* Approval step by step: the last step, or a refusal, decides.
Last(o) == Len(o.steps)
Verdict(r) == IF r.approved THEN "approved" ELSE "rejected"

\* Mutant: every approval opens a further step, the last one too.
PastTheLast(r, o) ==
  [o EXCEPT !.steps[o.current] = Verdict(r),
            !.current = IF r.approved THEN @ + 1 ELSE @]

Advanced(r, o) ==
  IF o.steps = <<>> THEN [o EXCEPT !.approval = Verdict(r)]
  ELSE IF r.approved /\ o.current < Last(o)
       THEN [o EXCEPT !.steps[o.current] = "approved", !.current = @ + 1]
       ELSE [o EXCEPT !.steps[o.current] = Verdict(r), !.approval = Verdict(r)]

\* The fields of a body, put over a document.
Patched(r, o) ==
  [o EXCEPT !.status   = Given(r.status, @),
            !.type     = Given(r.type, @),
            !.approval = Given(r.approval, @),
            !.text     = Given(r.text, @),
            !.item     = Given(r.item, @),
            !.permits  = IF r.relink THEN r.permits ELSE @]

\* The document a call saves, made from the copy it loaded.
Changed(r, o) ==
  CASE r.op = "approve"  -> Approved(r, o)
    [] r.op = "assign"   -> [o EXCEPT !.status = "assigned"]
    [] r.op = "start"    -> [o EXCEPT !.status = "in_progress"]
    [] r.op = "complete" -> [o EXCEPT !.status = "completed",
                                      !.item = ChecklistOf(r, o)]
    [] r.op = "cancel"   -> [o EXCEPT !.status = "cancelled"]
    [] r.op = "status"   -> [o EXCEPT !.status = r.status]
    [] r.op = "reconcile" -> Patched(r, o)
    [] r.op = "advance"  -> Advanced(r, o)
    [] r.op = "request"  -> [o EXCEPT !.approval = "pending",
                                      !.status = "pending_approval"]

\* A save that replaces an array asks that no array was pushed to or replaced
\* since the load; one that pushes to an array, or replaces it, moves the
\* document's version.
AsksForVersion(r, o) ==
  \/ r.op = "assign" /\ r.names
  \/ r.op = "complete" /\ r.item # Absent
  \/ /\ r.op = "reconcile"
     /\ <<Patched(r, o).item, Patched(r, o).permits>> # <<o.item, o.permits>>
MovesVersion(r, o) ==
  AsksForVersion(r, o) \/ r.op \in {"approve", "status", "advance", "request"}

\* save(): the fields that the call changed in its copy, on top of whatever is
\* stored now.
Onto(stored, copy, new) ==
  [f \in DOMAIN stored |->
     IF f = "steps"
     THEN [i \in DOMAIN stored.steps |->
             IF new.steps[i] # copy.steps[i] THEN new.steps[i]
                                             ELSE stored.steps[i]]
     ELSE IF new[f] # copy[f] THEN new[f] ELSE stored[f]]

Saved(c) ==
  LET r == call[c].req
      new == Changed(r, call[c].copy)
      moves == MovesVersion(r, call[c].copy)
  IN  [Onto(order, call[c].copy, new) EXCEPT
         !.v = IF moves THEN @ + 1 ELSE @,
         !.updatedAt = IF moves \/ new # call[c].copy THEN now ELSE @]

\* Mutant: the update does not stamp the document.
Unstamped(r, o) == Patched(r, o)

Updated(r, o) == [Patched(r, o) EXCEPT !.updatedAt = now]

-----------------------------------------------------------------------------
OldText == CHOOSE t \in Texts : TRUE

Init ==
  /\ \E k \in Kinds :
       /\ order = [type |-> k.type, status |-> "requested",
                   approval |-> IF k.steps > 0 THEN "pending" ELSE "draft",
                   steps |-> [i \in 1 .. k.steps |-> "pending"], current |-> 1,
                   item |-> "open", text |-> OldText, permits |-> k.permits,
                   cleared |-> k.cleared, v |-> 0, updatedAt |-> 0]
       /\ permit = [p \in Permits |->
                      [status |-> k.issued, isolated |-> k.isolated, log |-> {}]]
       /\ past = [approved |-> FALSE, safe |-> k.type = "safety", signed |-> {},
                  granted |-> IF k.issued \in Granted THEN Permits ELSE {},
                  at |-> [f \in Edited |-> 0]]
  /\ call = [c \in Calls |-> Idle]
  /\ now = 0
  /\ made = [calls |-> 0, edits |-> 0]

\* Every write of the order: the new document, and what it adds to the past.
Write(new) ==
  /\ order' = new
  /\ past' = [past EXCEPT
       !.approved = @ \/ new.approval = "approved",
       !.safe = @ /\ new.type = "safety",
       !.signed = @ \cup {i \in DOMAIN new.steps : new.steps[i] = "approved"},
       !.at = [f \in Edited |-> IF new[f] # order[f] THEN now ELSE @[f]]]

Finish(c) == call' = [call EXCEPT ![c] = Idle]
Move(c, pc) == call' = [call EXCEPT ![c].pc = pc]

MayCall == made.calls < MaxCalls /\ made.calls + made.edits < MaxMoves
MayEdit == made.edits < MaxEdits /\ made.calls + made.edits < MaxMoves

\* What a call decides on the copy alone, right after the load.
Proceeds(r) ==
  CASE r.op = "update"    -> r.status = "completed" => ~Blocking(order.item)
    [] r.op = "reconcile" -> Reconciles(order, r)
    [] r.op = "advance"   -> order.steps = <<>> \/ order.current \in DOMAIN order.steps
    [] r.op = "sync"      -> Applies(order, r)
    [] OTHER              -> TRUE

Loads(c, r) ==
  call' = [call EXCEPT ![c] =
    IF ~Proceeds(r) THEN Idle
    ELSE [req |-> r, copy |-> order, seen |-> Idle.seen,
          since |-> IF r.op \in {"sync", "reconcile"} THEN past.at ELSE Idle.since,
          pc |-> IF Stages(r) # <<>> THEN Head(Stages(r)) ELSE "save"]]

\* A call begins with its first read: of the safety middleware for the status
\* and reconcile routes, of the handler for the others.
Begin(c, r) ==
  /\ call[c].pc = "idle" /\ MayCall
  /\ r.op \notin {"bulk", "checklist"}
  /\ IF r.op \notin {"status", "reconcile"} THEN Loads(c, r)
     ELSE /\ Admitted(order, r)
          /\ call' = [call EXCEPT ![c].req = r, ![c].pc = "load"]
  /\ made' = [made EXCEPT !.calls = @ + 1]
  /\ UNCHANGED <<order, permit, now, past>>

\* The handler behind the middleware loads the order again.
Load(c) ==
  /\ call[c].pc = "load"
  /\ Loads(c, call[c].req)
  /\ UNCHANGED <<order, permit, now, made, past>>

\* ensurePermitReadiness, on the permits the copy links.  A completion then
\* checks its checklist and its sign-off, on the copy.
CheckPermits(c) ==
  /\ call[c].pc \in {"start", "complete"}
  /\ LET r == call[c].req
         pc == call[c].pc
         ok == /\ Ready(pc, call[c].copy.permits, permit)
               /\ r.op = "complete" => MayComplete(r, call[c].copy)
     IN  IF ~ok THEN Finish(c)
         ELSE call' = [call EXCEPT
                ![c].seen = [p \in Permits |-> permit[p].status],
                ![c].pc = IF r.op = "assign" /\ pc = "complete" THEN "start"
                          ELSE "save"]
  /\ UNCHANGED <<order, permit, now, made, past>>

\* The order is saved; start and complete go on to the permits they read.
Save(c) ==
  /\ call[c].pc = "save" /\ call[c].req.op \notin {"update", "sync"}
  /\ IF AsksForVersion(call[c].req, call[c].copy) /\ order.v # call[c].copy.v
     THEN Finish(c) /\ UNCHANGED <<order, past>>
     ELSE /\ Write(Saved(c))
          /\ IF call[c].req.op \in {"start", "complete"} /\ call[c].copy.permits # {}
             THEN Move(c, "permits") ELSE Finish(c)
  /\ UNCHANGED <<permit, now, made>>

Entry(r) == IF r.op = "start" THEN "started" ELSE "completed"

\* What saving the permit does to the stored one: its status, if the call
\* changed the one it read, and an entry in the history.
Worked(r, read, p) ==
  [p EXCEPT
     !.log = @ \cup {Entry(r)},
     !.status = CASE r.op = "start" /\ read = "approved"  -> "active"
                  [] r.op = "complete" /\ read # "closed" -> "closed"
                  [] OTHER                                       -> @]

\* The permits are saved side by side, so in any order.
SavePermit(c, p) ==
  /\ call[c].pc = "permits" /\ p \in call[c].copy.permits
  /\ permit' = [permit EXCEPT ![p] = Worked(call[c].req, call[c].seen[p], @)]
  /\ UNCHANGED <<order, now, made, past>>
  /\ IF call[c].copy.permits = {p} THEN Finish(c)
     ELSE call' = [call EXCEPT ![c].copy.permits = @ \ {p}]

\* PUT /workorders/:id writes its fields whatever was stored since its checks.
Update(c) ==
  /\ call[c].pc = "save" /\ call[c].req.op = "update"
  /\ Write(Updated(call[c].req, order))
  /\ UNCHANGED <<permit, now, made>>
  /\ Finish(c)

\* The mobile client's write: the whole merged copy, version included.
Sync(c) ==
  /\ call[c].pc = "save" /\ call[c].req.op = "sync"
  /\ Write([Merged(call[c].copy, call[c].req) EXCEPT !.updatedAt = now])
  /\ UNCHANGED <<permit, now, made>>
  /\ Finish(c)

\* Calls that are one write: nothing is checked.
WriteThrough(r) ==
  /\ r.op \in {"bulk", "checklist"} /\ MayCall
  /\ Write(IF r.op = "bulk"
           THEN [order EXCEPT !.status = r.status, !.updatedAt = now]
           ELSE [order EXCEPT !.item = r.item, !.updatedAt = now])
  /\ made' = [made EXCEPT !.calls = @ + 1]
  /\ UNCHANGED <<permit, call, now>>

\* A database error, or the end of the process: what is written stays.  Before
\* its first write a call that ends this way leaves nothing, like one refused.
Drop(c) ==
  /\ call[c].pc = "permits"
  /\ UNCHANGED <<order, permit, now, made, past>>
  /\ Finish(c)

\* PATCH /permits/:id, by which an editor sets the status of a stored permit; it
\* may send the isolation steps along.  POST /permits creates one in any status:
\* the permits of a kind exist from the start, as they were issued.
EditPermit(p, s, isolated) ==
  /\ MayEdit
  /\ permit' = [permit EXCEPT ![p].status = s, ![p].isolated = isolated]
  /\ past' = [past EXCEPT !.granted = IF s \in Granted THEN @ \cup {p} ELSE @]
  /\ made' = [made EXCEPT !.edits = @ + 1]
  /\ UNCHANGED <<order, call, now>>

\* POST /permits/:id/lockout closes or reopens the isolation step.
Lockout(p) ==
  /\ MayEdit
  /\ permit' = [permit EXCEPT ![p].isolated = ~@]
  /\ made' = [made EXCEPT !.edits = @ + 1]
  /\ UNCHANGED <<order, call, now, past>>

Tick == now < MaxClock /\ now' = now + 1 /\ UNCHANGED <<order, permit, call, made, past>>

Next ==
  \/ \E c \in Calls, r \in Requests : Begin(c, r)
  \/ \E c \in Calls :
       Load(c) \/ CheckPermits(c) \/ Save(c) \/ Update(c) \/ Sync(c) \/ Drop(c)
  \/ \E c \in Calls, p \in Permits : SavePermit(c, p)
  \/ \E r \in Requests : WriteThrough(r)
  \/ \E p \in Permits :
       Lockout(p) \/ \E s \in PermitStatuses, b \in BOOLEAN : EditPermit(p, s, b)
  \/ Tick

Spec == Init /\ [][Next]_vars

-----------------------------------------------------------------------------
OrderType ==
  [type : WorkTypes, status : Statuses, approval : Approvals,
   steps : UNION {[1 .. k.steps -> StepStatuses] : k \in Kinds}, current : Nat,
   item : Items, text : Texts, permits : SUBSET Permits, cleared : BOOLEAN,
   v : Nat, updatedAt : Times]

PermitType ==
  [status : PermitLife, isolated : BOOLEAN,
   log : SUBSET {"started", "completed"}]

\* Every variable keeps its shape.
TypeOK ==
  /\ order \in OrderType
  /\ order.current \in 1 .. Len(order.steps) \cup {1}
  /\ permit \in [Permits -> PermitType]
  /\ DOMAIN call = Calls
  /\ \A c \in Calls :
       /\ call[c].req \in Requests \cup {NoRequest}
       /\ call[c].pc \in {"idle", "load", "start", "complete", "save", "permits"}
       /\ call[c].copy \in OrderType \cup {Nothing}
       /\ call[c].seen \in [Permits -> PermitLife \cup {"unread"}]
       /\ call[c].since \in [Edited -> Times]
  /\ now \in Times
  /\ made \in [calls : 0 .. MaxCalls, edits : 0 .. MaxEdits]
  /\ past.at \in [Edited -> Times]

\* A permit records that work started under it only if it had been approved or
\* active at some time before: start reads the permits it activates, and later
\* edits, stale copies and relinked permits do not get around that reading.  An
\* approval that was withdrawn still counts; see ApprovalStands.
WorkedUnderApproval ==
  \A p \in Permits : "started" \in permit[p].log => p \in past.granted

\* Sign-off is not skipped by the complete call and the approval steps: a permit
\* records the completion of an order that has been a safety order throughout
\* only if the order was approved at some time before, and the steps move past a
\* step only once it was approved, whatever stale copies are written back.  The
\* other routes that complete an order record nothing in the permits: update, bulk
\* and mobile check no sign-off, status and reconcile the current step only, and
\* update, reconcile and mobile may set the type.  An approval that was withdrawn
\* still counts; see ApprovalStands.  No client here sends the steps or the current
\* step themselves, which the schemas would take.
SignedOff ==
  /\ past.safe =>
       \A p \in Permits : "completed" \in permit[p].log => past.approved
  /\ \A i \in DOMAIN order.steps : i < order.current => i \in past.signed

\* The stamps under one of which an edit may change a field.
Stamps(r, f) ==
  CASE r.op = "sync" /\ f = "text" -> {r.at, StampOf(r.textAt, r)}
    [] r.op = "sync" /\ f = "item" -> {StampOf(r.itemAt, r)}
    [] OTHER                       -> {r.at}

\* A device's edit undoes no change made after it and before the edit was read in:
\* a field that a mobile batch or a stamped reconcile sets was last changed, as of
\* the call's read, no later than the stamp of the edit, or of the field in it,
\* whatever is written beside the call.  An item that was deleted may come back
\* with an older edit.  A reconcile without a stamp is not checked at all, and what
\* is written between the read and the write is not looked at: the fields that a
\* mobile batch did not edit go back to what it read.
LaterChangeStands ==
  [][\A c \in Calls :
       LET r == call[c].req
           copy == call[c].copy
       IN  (/\ call[c].pc = "save" /\ call'[c].pc = "idle"
            /\ r.op = "sync" \/ (r.op = "reconcile" /\ r.at # NoTime)) =>
           \A f \in Edited :
             (/\ order'[f] # order[f] /\ order'[f] # copy[f]
              /\ ~(f = "item" /\ copy.item = "gone")) =>
             \E s \in Stamps(r, f) : s >= call[c].since[f]]_vars

-----------------------------------------------------------------------------
(* What the code's messages say, and overlapping calls break.               *)

\* The permits that record started work are approved or active when they do.
StartsGranted ==
  \A p \in Permits :
    "started" \in permit'[p].log \ permit[p].log => permit[p].status \in Granted

\* A safety order that is closed is approved when it is.
ClosesApproved ==
  (/\ order.status # "completed" /\ order'.status = "completed"
   /\ order'.type = "safety") => order'.approval = "approved"

\* "Permit ... is not approved for activation", "Approval must be completed before
\* closing this work order type": the approvals that start and complete ask for
\* still stand when they write.  Both look at what they have read, and neither
\* notices an approval that was withdrawn since.
ApprovalStands == [][StartsGranted /\ ClosesApproved]_vars
=============================================================================
