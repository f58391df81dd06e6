----------------------------- MODULE MCWorkOrders -----------------------------
(* One order, two permits, two calls at a time; at most 3 calls, 2 permit    *)
(* edits and 4 of both (MaxMoves), one tick.  The requests are the operations *)
(* with the arguments that lead somewhere.  The orders to begin with: a       *)
(* safety order under two permits, a safety order with two approval steps,    *)
(* and an order whose lockout is not verified, under a permit that was        *)
(* created approved.  Calls end, so a behaviour at its bounds stops.          *)
(* The requests of the other run are those whose overlap it is about.         *)
EXTENDS WorkOrders, TLC

CONSTANTS p1, p2

Edit(at, status, item, textAt) ==
  [op |-> "sync", at |-> at, vector |-> FALSE, first |-> TRUE, status |-> status,
   type |-> Absent, approval |-> Absent, text |-> "t2", textAt |-> textAt,
   item |-> item, itemAt |-> NoTime]

Body == [op |-> "update", status |-> Absent, type |-> Absent, approval |-> Absent,
         text |-> Absent, item |-> Absent, relink |-> FALSE, permits |-> {},
         at |-> NoTime]

Approve(to) == [op |-> "approve", to |-> to]
Complete(item) == [op |-> "complete", item |-> item]

MCRequests ==
  {Approve("approved"), [op |-> "assign", names |-> TRUE],
   [Body EXCEPT !.status = "completed", !.type = "safety", !.approval = "rejected",
                !.relink = TRUE, !.permits = {p1}],
   [Body EXCEPT !.op = "reconcile", !.status = "in_progress", !.item = "gone",
                !.at = 0],
   [Body EXCEPT !.op = "reconcile", !.status = "assigned", !.type = "corrective"],
   [op |-> "bulk", status |-> "assigned"], [op |-> "status", status |-> "completed"],
   [op |-> "checklist", item |-> "yes"],
   Edit(0, "in_progress", "gone", NoTime), Edit(NoTime, "cancelled", "yes", 1)}
  \cup [op : {"start", "cancel", "request"}]
  \cup {Complete("yes"), Complete(Absent)}
  \cup [op : {"advance"}, approved : BOOLEAN]

ApprovalRequests ==
  {[op |-> "start"], [op |-> "checklist", item |-> "yes"],
   Approve("approved"), Approve("rejected"), Complete(Absent)}

Kind(type, steps, permits, cleared, issued) ==
  [type |-> type, steps |-> steps, permits |-> permits, cleared |-> cleared,
   issued |-> issued, isolated |-> issued = "approved"]

MCKinds == {Kind("safety", 0, {p1, p2}, TRUE, "pending"),
            Kind("safety", 2, {}, TRUE, "pending"),
            Kind("corrective", 2, {p1}, FALSE, "approved")}

Symmetry == Permutations(Calls)
=============================================================================
