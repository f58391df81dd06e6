------------------------------ MODULE Purchasing ------------------------------
(***************************************************************************)
(* Purchase orders of backend/src/modules/purchase-orders/service.ts, and   *)
(* the stock they share with the parts of work orders (WorkOrderParts).     *)
(*                                                                          *)
(* An operation loads the order, checks it and saves it.  Mongoose counts a *)
(* version up whenever the audit trail grows, which is in every save, and   *)
(* asks for the version that was loaded only where a save addresses the     *)
(* items: a receipt, and the edit of a draft.                               *)
(*                                                                          *)
(* A receipt adds its lines to the stock first, each line on its own, with  *)
(* a read and a save of the PartStock outside of any transaction, and saves *)
(* the order last.                                                          *)
(***************************************************************************)
EXTENDS Integers, Sequences, FiniteSetsExt

CONSTANTS
    Calls, WorkOrders, Stocks, Requests, PartCost, NoCost, InitialOnHand,
    InitialLines, Stepdowns, None,      \* those of WorkOrderParts
    Missing,        \* the parts that have no PartStock yet
    Buyers,         \* calls of the purchasing operations
    Asked,          \* what these calls ask for
    NewOrders,      \* the orders that may be placed: their status and quantities
    MaxFaults,      \* bound: database calls that throw and processes that die
    MaxInFlight     \* bound: purchasing calls under way at once

Statuses == {"draft", "sent", "partially_received", "received", "closed", "canceled"}

\* "items" are the ordered quantities, 0 for a part that is not on the order;
\* "receipts" the pieces that arrive.
AskedType ==
    [op : {"edit", "status", "send", "close", "cancel", "receive"},
     status : Statuses, items : [Stocks -> Nat],
     receipts : Seq([part : Stocks, qty : Nat \ {0}])]

ASSUME PurchasingAssumption ==
    /\ Missing \subseteq Stocks
    /\ \A s \in Missing : InitialOnHand[s] = 0
    /\ \A r \in Requests : r.stock \notin Missing
    /\ Asked \subseteq AskedType
    /\ None \notin Asked
    /\ NewOrders \subseteq [status : Statuses, items : [Stocks -> Nat]]
    /\ MaxFaults \in Nat
    /\ MaxInFlight \in Nat

VARIABLES
    onHand, reserved, lines, moved, total, pc, request, loaded, snap, stale,
    order,      \* the purchase order; "receipts" sums up the receipts of each line
    stocked,    \* the parts that have a PartStock
    received,   \* InventoryMovement: the pieces of type "receive", by stock
    call,       \* the calls of the purchasing operations
    faults,     \* database calls that have thrown and processes that have died
    overwritten \* stocks where a receipt has saved over what another call did

workorders == <<lines, moved, total, reserved, pc, request, loaded, snap>>
partsVars == <<workorders, onHand, stale>>
buyVars == <<order, stocked, received, call, faults, overwritten>>
vars == <<partsVars, buyVars>>

Parts == INSTANCE WorkOrderParts

ASSUME SharedAssumption ==
    /\ Parts!PartsAssumption
    /\ IsFiniteSet(Buyers)

Blank == [s \in Stocks |-> 0]
Nobody ==
    [at |-> "idle", req |-> None, doc |-> None, puts |-> <<>>]

\* savePurchaseOrder without an id: any status may be asked for.
Placed(n) ==
    [status |-> n.status, items |-> n.items, got |-> Blank, receipts |-> Blank, version |-> 0]

Init ==
    /\ Parts!Init
    /\ order \in {Placed(n) : n \in NewOrders}
    /\ stocked = Stocks \ Missing
    /\ received = Blank
    /\ call = [b \in Buyers |-> Nobody]
    /\ faults = 0
    /\ overwritten = {}

----------------------------------------------------------------------------
\* What the operations check on the order they load.

Allowed(status) ==
    CASE status = "draft" -> {"sent", "canceled"}
      [] status = "sent" -> {"partially_received", "received", "canceled"}
      [] status = "partially_received" -> {"received", "closed"}
      [] status = "received" -> {"closed"}
      [] status \in {"closed", "canceled"} -> {}

Accepts(r, o) ==
    \/ r.op = "edit" /\ o.status \in {"sent", "partially_received"}
    \/ r.op = "edit" /\ o.status = "draft" /\ r.status \in Allowed("draft") \cup {"draft"}
    \/ r.op = "status" /\ r.status \in Allowed(o.status)
    \/ r.op = "send" /\ o.status = "draft"
    \/ r.op = "close" /\ o.status \in {"received", "partially_received", "sent"}
    \/ r.op = "cancel" /\ o.status \notin {"received", "closed", "canceled"}
    \/ r.op = "receive" /\ o.status \in {"sent", "partially_received"}

\* applyReceiptToItem, in the order of the receipts: what line s holds after
\* the first i of them.  A line is capped at what was ordered.
Arrived(rs, s, i) ==
    MapThenSumSet(LAMBDA j : rs[j].qty, {j \in 1 .. i : rs[j].part = s})
Got(o, rs, s, i) == Min({o.items[s], o.got[s] + Arrived(rs, s, i)})

\* The receipts that throw: their line is full, or is not on the order.
Rejected(o, rs, i) == Got(o, rs, rs[i].part, i - 1) = o.items[rs[i].part]

\* The order in the memory of the call after its changes.
WithReceipts(o, rs) ==
    LET got == [s \in Stocks |-> Got(o, rs, s, Len(rs))] IN
    [o EXCEPT !.got = got,
              !.receipts = [s \in Stocks |-> @[s] + got[s] - o.got[s]],
              !.status = IF \A s \in Stocks : got[s] >= o.items[s]
                         THEN "received" ELSE "partially_received"]

Edited(o, r) ==
    IF o.status # "draft" THEN o
    ELSE [o EXCEPT !.items = r.items, !.got = Blank, !.receipts = Blank, !.status = r.status]

\* Mutant: a status the schema does not know.
Misspelt(r) ==
    CASE r.op = "status" -> r.status [] r.op = "send" -> "sent"
      [] r.op = "close" -> "closed" [] r.op = "cancel" -> "cancelled"

Target(r) ==
    CASE r.op = "status" -> r.status [] r.op = "send" -> "sent"
      [] r.op = "close" -> "closed" [] r.op = "cancel" -> "canceled"

\* Mutant: a save never asks for a version.
NeverAsks(c) == FALSE

\* A save that addresses the items asks for the version that was loaded.
AsksForVersion(c) == c.req.op = "receive" \/ (c.req.op = "edit" /\ c.doc.status = "draft")

----------------------------------------------------------------------------

Put(b, c) == call' = [call EXCEPT ![b] = c]

\* A call that is over keeps nothing but the lines that stopped before their
\* movement was written.
Broken(b) == {i \in DOMAIN call[b].puts : call[b].puts[i].at \in {"log", "lost"}}
Stop(b) ==
    Put(b, IF Broken(b) = {} THEN [Nobody EXCEPT !.at = "done"]
           ELSE [call[b] EXCEPT !.at = "done", !.doc = None])

\* findOne and the checks on what it found.  The receipts are applied to the
\* order in memory at once; those that are rejected leave the rest of the call's
\* lines running.
Load(b, r) ==
    /\ call[b].at = "idle"
    /\ Put(b, [at |-> IF Accepts(r, order) THEN "loaded" ELSE "done",
               req |-> r, doc |-> order,
               puts |-> IF Accepts(r, order) /\ r.op = "receive"
                        THEN [i \in DOMAIN r.receipts |->
                                [at |-> IF Rejected(order, r.receipts, i) THEN "failed" ELSE "find",
                                 seen |-> 0]]
                        ELSE <<>>])
    /\ UNCHANGED <<partsVars, order, stocked, received, faults, overwritten>>

PartOf(b, i) == call[b].req.receipts[i].part
QtyOf(b, i) == call[b].req.receipts[i].qty
At(b, i, step) == call[b].at = "loaded" /\ i \in DOMAIN call[b].puts /\ call[b].puts[i].at = step
Step(b, i, step, seen) == Put(b, [call[b] EXCEPT !.puts[i] = [at |-> step, seen |-> seen]])

\* PartStock.findOne.
FindStock(b, i) ==
    /\ At(b, i, "find")
    /\ IF PartOf(b, i) \in stocked THEN Step(b, i, "save", onHand[PartOf(b, i)])
       ELSE Step(b, i, "create", 0)
    /\ UNCHANGED <<partsVars, order, stocked, received, faults, overwritten>>

\* PartStock.create: the index on tenant, part and location allows one of them.
CreateStock(b, i) ==
    /\ At(b, i, "create")
    /\ IF PartOf(b, i) \in stocked THEN Step(b, i, "failed", 0) ELSE Step(b, i, "save", 0)
    /\ stocked' = stocked \cup {PartOf(b, i)}
    /\ UNCHANGED <<partsVars, order, received, faults, overwritten>>

\* Mutant: transactions do not see the write.
Untouched(s) == stale

\* A write outside of transactions makes those conflict that have read the stock
\* before.  A transaction that has written the stock already would commit first:
\* here that is the order in which the two take place.
Touched(s) ==
    [c \in Calls |-> IF pc[c] = "open" THEN stale[c] \cup {<<"stock", s>>} ELSE stale[c]]

\* Mutant: it sends the document as a new one would be, with nothing reserved.
ReservedToo(b, i) == [reserved EXCEPT ![PartOf(b, i)] = 0]

\* stock.save sends the quantity on hand and nothing else.
SavedReserved(b, i) == reserved

SaveStock(b, i) ==
    LET s == PartOf(b, i) seen == call[b].puts[i].seen IN
    /\ At(b, i, "save")
    /\ onHand' = [onHand EXCEPT ![s] = seen + QtyOf(b, i)]
    /\ reserved' = SavedReserved(b, i)
    /\ stale' = Touched(s)
    /\ overwritten' = overwritten \cup (IF onHand[s] = seen THEN {} ELSE {s})
    /\ Step(b, i, "log", 0)
    /\ UNCHANGED <<lines, moved, total, pc, request, loaded, snap, order, stocked, received, faults>>

\* InventoryMovement.create.
LogMovement(b, i) ==
    /\ At(b, i, "log")
    /\ received' = [received EXCEPT ![PartOf(b, i)] = @ + QtyOf(b, i)]
    /\ Step(b, i, "part", 0)
    /\ UNCHANGED <<partsVars, order, stocked, faults, overwritten>>

\* The Part is read and saved; its quantity and average cost are left out.
SavePart(b, i) ==
    /\ At(b, i, "part")
    /\ Step(b, i, "done", 0)
    /\ UNCHANGED <<partsVars, order, stocked, received, faults, overwritten>>

\* Mutant: the order does not wait for its lines.
NotRejected(b) == \A i \in DOMAIN call[b].puts : call[b].puts[i].at # "failed"

\* Promise.all has resolved.
AllStored(b) == \A i \in DOMAIN call[b].puts : call[b].puts[i].at = "done"

\* po.save: the version goes up by one; a save that asks for another version than
\* it finds is refused.
Current(c) == AsksForVersion(c) => order.version = c.doc.version

Saved(c) ==
    CASE c.req.op = "receive" ->
           [WithReceipts(c.doc, c.req.receipts) EXCEPT !.version = order.version + 1]
      [] c.req.op = "edit" ->
           [(IF c.doc.status = "draft" THEN Edited(c.doc, c.req) ELSE order)
                EXCEPT !.version = order.version + 1]
      [] OTHER -> [order EXCEPT !.status = Target(c.req), !.version = order.version + 1]

SaveOrder(b) ==
    /\ call[b].at = "loaded"
    /\ AllStored(b)
    /\ order' = IF Current(call[b]) THEN Saved(call[b]) ELSE order
    /\ Stop(b)
    /\ UNCHANGED <<partsVars, stocked, received, faults, overwritten>>

\* The error has been answered, and the lines that were not part of it have ended.
Reject(b) ==
    /\ call[b].at = "loaded" /\ ~AllStored(b)
    /\ \A i \in DOMAIN call[b].puts : call[b].puts[i].at \in {"done", "failed", "lost"}
    /\ Stop(b)
    /\ UNCHANGED <<partsVars, order, stocked, received, faults, overwritten>>

\* A database call of one line throws; the other lines go on.
FailLine(b, i) ==
    /\ faults < MaxFaults
    /\ \E step \in {"find", "create", "save", "log", "part"} :
         /\ At(b, i, step)
         /\ Step(b, i, IF step = "log" THEN "lost" ELSE "failed", 0)
    /\ faults' = faults + 1
    /\ UNCHANGED <<partsVars, order, stocked, received, overwritten>>

\* The process dies.
Crash(b) ==
    /\ call[b].at = "loaded"
    /\ faults < MaxFaults
    /\ faults' = faults + 1
    /\ Stop(b)
    /\ UNCHANGED <<partsVars, order, stocked, received, overwritten>>

Buy(b) ==
    \/ \E r \in Asked : Load(b, r)
    \/ \E i \in DOMAIN call[b].puts :
         \/ FindStock(b, i) \/ CreateStock(b, i) \/ SaveStock(b, i)
         \/ LogMovement(b, i) \/ SavePart(b, i) \/ FailLine(b, i)
    \/ SaveOrder(b) \/ Reject(b)
    \/ Crash(b)

UseParts(c) ==
    \/ \E r \in Requests : Parts!Load(c, r)
    \/ Parts!Refuse(c) \/ Parts!Begin(c) \/ Parts!Commit(c)
    \/ Parts!Conflict(c) \/ Parts!LoseCommit(c) \/ Parts!Abandon(c)

Next ==
    \/ /\ \E b \in Buyers : Buy(b)
       /\ Cardinality({b \in Buyers : call'[b].at = "loaded"}) <= MaxInFlight
    \/ \E c \in Calls : UseParts(c) /\ UNCHANGED buyVars

Spec == Init /\ [][Next]_vars

----------------------------------------------------------------------------

OrderType ==
    [status : Statuses, items : [Stocks -> Nat], got : [Stocks -> Nat],
     receipts : [Stocks -> Nat], version : Nat]

PutType ==
    [at : {"find", "create", "save", "log", "part", "done", "failed", "lost"}, seen : Nat]

TypeOK ==
    /\ Parts!TypeOK
    /\ order \in OrderType
    /\ stocked \subseteq Stocks
    /\ received \in [Stocks -> Nat]
    /\ call \in [Buyers -> [at : {"idle", "loaded", "done"}, req : Asked \cup {None},
                            doc : OrderType \cup {None}, puts : Seq(PutType)]]
    /\ faults \in 0 .. MaxFaults
    /\ overwritten \subseteq Stocks

\* Receipts never disturb reservations: a receipt saves the PartStock as it read
\* it, outside of any transaction, while reserve, issue and return go on, and
\* what the stock has reserved stays what the line items reserve.
ReservedIsOnLines == Parts!ReservedIsOnLines

\* What a receipt has put on the stock and not into the movement log: the step
\* between is yet to come, or it has failed.
Unlogged(s) ==
    MapThenSumSet(LAMBDA x : QtyOf(x[1], x[2]),
        {x \in UNION {{b} \X DOMAIN call[b].puts : b \in Buyers} :
            PartOf(x[1], x[2]) = s /\ call[x[1]].puts[x[2]].at \in {"log", "lost"}})

\* The movement log explains the stock, but for two ways a receipt can break it:
\* it saves over what another call has done since it read the stock, or it stops
\* before its movement is written.  Nothing else does: no transaction of a work
\* order loses a receipt, however the two interleave.
MovementsExplainStock ==
    \A s \in Stocks \ overwritten :
        onHand[s] = InitialOnHand[s] - moved[s]["reserve"] + moved[s]["unreserve"]
                        + moved[s]["return"] + received[s] + Unlogged(s)

\* An order never says that pieces came in which the movement log does not have,
\* and its lines say what its receipts say, never more than was ordered: whichever
\* line fails, whoever else receives the same delivery, wherever the process dies.
OrderNeverAhead ==
    \A s \in Stocks :
        /\ order.receipts[s] <= received[s]
        /\ order.receipts[s] = order.got[s]
        /\ order.got[s] <= order.items[s]

\* No receipt is recorded on an order that has been closed, cancelled or completed
\* while the delivery was being put away.
NoReceiptAfterEnd ==
    [][order'.receipts # order.receipts => order.status \in {"sent", "partially_received"}]_vars
=============================================================================
