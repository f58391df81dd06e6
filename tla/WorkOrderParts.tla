--------------------------- MODULE WorkOrderParts ---------------------------
(***************************************************************************)
(* Parts on work orders: the handlers reserve, unreserve, issue, return    *)
(* and delete of backend/controllers/WorkOrderPartsController.ts, called   *)
(* concurrently.                                                           *)
(*                                                                         *)
(* Each handler moves pieces between a PartStock document, the line item   *)
(* of the (work order, stock) pair and the InventoryMovement log inside    *)
(* session.withTransaction, and then refreshes the parts cost of the work  *)
(* order.  The WorkOrder document is loaded before the transaction and is  *)
(* not read again: the save inside the transaction is sent only if the new *)
(* total differs from the one in memory.                                   *)
(*                                                                         *)
(* A transaction reads one snapshot.  It commits only if no document it    *)
(* writes was committed by another since then; otherwise it is aborted and *)
(* the callback runs again.  InventoryLedger has the saves one by one; here *)
(* a transaction is its snapshot and its commit, which leaves the same     *)
(* committed states.                                                       *)
(***************************************************************************)
EXTENDS Integers, Sequences, FiniteSetsExt

CONSTANTS
    Calls,          \* calls of the handlers
    WorkOrders,
    Stocks,         \* PartStock documents
    Requests,       \* what the calls ask for
    PartCost,       \* unit cost of the part, taken if the request has none
    NoCost,         \* the request has no unitCost
    InitialOnHand,  \* quantity on hand of each stock at the start
    InitialLines,   \* line items at the start
    Stepdowns,      \* whether the primary may step down during a commit
    None            \* no request, no snapshot

Moves == {"reserve", "unreserve", "issue", "return"}
Ops == Moves \cup {"delete"}

\* `line` is the line item a delete names; it counts for no other operation.
RequestType ==
    [op : Ops, wo : WorkOrders, stock : Stocks, qty : Nat \ {0},
     cost : Nat \cup {NoCost}, line : Nat]

LineType ==
    [wo : WorkOrders, stock : Stocks, reserved : Nat, issued : Nat,
     cost : Nat, deleted : BOOLEAN]

\* What a transaction reads.
StoreType ==
    [onHand : [Stocks -> Nat], reserved : [Stocks -> Nat], lines : Seq(LineType)]

\* No work order has two active line items for one stock.
OneActive(ls) ==
    \A i, j \in DOMAIN ls :
        /\ ~ls[i].deleted /\ ~ls[j].deleted
        /\ ls[i].wo = ls[j].wo /\ ls[i].stock = ls[j].stock
        => i = j

ASSUME PartsAssumption ==
    /\ Requests \subseteq RequestType
    /\ PartCost \in Nat
    /\ NoCost \notin Nat
    /\ InitialOnHand \in [Stocks -> Nat]
    /\ InitialLines \in Seq(LineType) /\ OneActive(InitialLines)
    /\ Stepdowns \in BOOLEAN
    /\ None \notin Requests \cup StoreType

VARIABLES
    onHand, reserved,   \* the committed PartStock documents
    lines,              \* the committed line items, in the order of creation
    moved,              \* InventoryMovement: pieces moved, by stock and type
    total,              \* partsCostTotal of each committed work order
    pc, request,
    loaded,             \* the total of the work order in the call's memory
    snap,               \* the snapshot its transaction reads
    stale               \* documents others committed since that snapshot

store == <<onHand, reserved, lines, moved, total>>
vars == <<store, pc, request, loaded, snap, stale>>

\* A view of the store: what a transaction reads.
Store == [onHand |-> onHand, reserved |-> reserved, lines |-> lines]

Active(ls, w) == {i \in DOMAIN ls : ls[i].wo = w /\ ~ls[i].deleted}
ActiveOf(ls, s) == {i \in DOMAIN ls : ls[i].stock = s /\ ~ls[i].deleted}

\* refreshWorkOrderTotals: the cost of the issued pieces of the active lines.
TotalOf(ls, w) == MapThenSumSet(LAMBDA i : ls[i].issued * ls[i].cost, Active(ls, w))

Init ==
    /\ onHand = InitialOnHand
    /\ lines = InitialLines
    /\ reserved = [s \in Stocks |->
           MapThenSumSet(LAMBDA i : InitialLines[i].reserved, ActiveOf(InitialLines, s))]
    /\ moved = [s \in Stocks |-> [m \in Moves |-> 0]]
    /\ total = [w \in WorkOrders |-> TotalOf(InitialLines, w)]
    /\ pc = [c \in Calls |-> "idle"]
    /\ request = [c \in Calls |-> None]
    /\ loaded = [c \in Calls |-> 0]
    /\ snap = [c \in Calls |-> None]
    /\ stale = [c \in Calls |-> {}]

----------------------------------------------------------------------------

\* The active line items that request r finds in view v.
Found(r, v) ==
    IF r.op = "delete" THEN Active(v.lines, r.wo) \cap {r.line}
    ELSE Active(v.lines, r.wo) \cap ActiveOf(v.lines, r.stock)

\* getOrCreateLineItem: the line found, or a new one.
Line(r, v) ==
    IF Found(r, v) # {} THEN v.lines[CHOOSE i \in Found(r, v) : TRUE]
    ELSE [wo |-> r.wo, stock |-> r.stock, reserved |-> 0, issued |-> 0,
          cost |-> PartCost, deleted |-> FALSE]

\* Mutant: a return is not checked against what was issued.
RefusedWithoutIssued(r, v) ==
    \/ r.op = "reserve" /\ v.onHand[r.stock] < r.qty
    \/ /\ r.op \in {"unreserve", "issue"}
       /\ Line(r, v).reserved < r.qty \/ v.reserved[r.stock] < r.qty
    \/ r.op \in {"unreserve", "return", "delete"} /\ Found(r, v) = {}

\* The errors a callback throws before it saves anything.
Refused(r, v) ==
    \/ r.op = "reserve" /\ v.onHand[r.stock] < r.qty
    \/ /\ r.op \in {"unreserve", "issue"}
       /\ Line(r, v).reserved < r.qty \/ v.reserved[r.stock] < r.qty
    \/ r.op = "return" /\ Line(r, v).issued < r.qty
    \/ r.op \in {"unreserve", "return", "delete"} /\ Found(r, v) = {}

\* A delete releases what its line still reserves.
Stock(r, v) == Line(r, v).stock
Move(r) == IF r.op = "delete" THEN "unreserve" ELSE r.op
Quantity(r, v) == IF r.op = "delete" THEN Line(r, v).reserved ELSE r.qty

OnHandAfter(r, v) ==
    v.onHand[Stock(r, v)]
        + CASE Move(r) = "reserve" -> -Quantity(r, v)
            [] Move(r) \in {"unreserve", "return"} -> Quantity(r, v)
            [] Move(r) = "issue" -> 0

\* The change of the reserved pieces, of the stock and of its line alike.
ReservedChange(m, q) ==
    CASE m = "reserve" -> q
      [] m \in {"unreserve", "issue"} -> -q
      [] m = "return" -> 0

ReservedAfter(r, v) ==
    Max({0, v.reserved[Stock(r, v)] + ReservedChange(Move(r), Quantity(r, v))})

\* Mutant: a delete keeps the reservation on the line.
LineKeepsReserved(r, v) ==
    [Line(r, v) EXCEPT
        !.reserved = IF r.op = "delete" THEN @ ELSE @ + ReservedChange(r.op, r.qty),
        !.issued = CASE r.op = "issue" -> @ + r.qty
                     [] r.op = "return" -> @ - r.qty
                     [] OTHER -> @,
        !.cost = IF r.op \in {"reserve", "issue"} /\ r.cost # NoCost THEN r.cost ELSE @,
        !.deleted = r.op = "delete"]

\* The line item after the operation; a unitCost in the request reprices all
\* the pieces of the line.
LineAfter(r, v) ==
    [Line(r, v) EXCEPT
        !.reserved = @ + ReservedChange(Move(r), Quantity(r, v)),
        !.issued = CASE r.op = "issue" -> @ + r.qty
                     [] r.op = "return" -> @ - r.qty
                     [] OTHER -> @,
        !.cost = IF r.op \in {"reserve", "issue"} /\ r.cost # NoCost THEN r.cost ELSE @,
        !.deleted = r.op = "delete"]

LinesAfter(r, v, ls) ==
    IF Found(r, v) = {} THEN Append(ls, LineAfter(r, v))
    ELSE [ls EXCEPT ![CHOOSE i \in Found(r, v) : TRUE] = LineAfter(r, v)]

----------------------------------------------------------------------------

Go(c, step) == pc' = [pc EXCEPT ![c] = step]

\* findWorkOrder: the request arrives and the work order is loaded.
Load(c, r) ==
    /\ pc[c] = "idle"
    /\ Go(c, "loaded")
    /\ request' = [request EXCEPT ![c] = r]
    /\ loaded' = [loaded EXCEPT ![c] = total[r.wo]]
    /\ UNCHANGED <<store, snap, stale>>

\* The callback throws; the handler answers 400.
Refuse(c) ==
    /\ pc[c] = "loaded"
    /\ Refused(request[c], Store)
    /\ Go(c, "done")
    /\ UNCHANGED <<store, request, loaded, snap, stale>>

\* The callback starts, or starts again.
Begin(c) ==
    /\ pc[c] = "loaded"
    /\ ~Refused(request[c], Store)
    /\ Go(c, "open")
    /\ snap' = [snap EXCEPT ![c] = Store]
    /\ UNCHANGED <<store, request, loaded, stale>>

\* The total refreshWorkOrderTotals puts into the document in memory, and
\* whether the save of that document has anything to send.
NewTotal(c) == TotalOf(LinesAfter(request[c], snap[c], snap[c].lines), request[c].wo)
SavesOrder(c) == NewTotal(c) # loaded[c]
SavesStock(c) == Quantity(request[c], snap[c]) # 0

\* Mutants: line items, or stocks, that are never in conflict.
WrittenButLine(c) ==
    {<<"stock", s>> : s \in {t \in Stocks : t = Stock(request[c], snap[c]) /\ SavesStock(c)}}
        \cup {<<"order", w>> : w \in {request[c].wo} \cap {x \in WorkOrders : SavesOrder(c)}}
WrittenButStock(c) ==
    {<<"line", i>> : i \in Found(request[c], snap[c])}
        \cup {<<"order", w>> : w \in {request[c].wo} \cap {x \in WorkOrders : SavesOrder(c)}}

\* The documents the transaction updates; what it inserts conflicts with nothing.
Written(c) ==
    {<<"stock", s>> : s \in {t \in Stocks : t = Stock(request[c], snap[c]) /\ SavesStock(c)}}
        \cup {<<"line", i>> : i \in Found(request[c], snap[c])}
        \cup {<<"order", w>> : w \in {request[c].wo} \cap {x \in WorkOrders : SavesOrder(c)}}

EndTxn(c) ==
    /\ snap' = [snap EXCEPT ![c] = None]
    /\ stale' = [stale EXCEPT ![c] = {}]

\* The saves of the callback become visible at once.
Commit(c) ==
    LET r == request[c]
        v == snap[c]
        s == Stock(r, v)
    IN  /\ pc[c] = "open"
        /\ Written(c) \cap stale[c] = {}
        /\ IF SavesStock(c)
           THEN /\ onHand' = [onHand EXCEPT ![s] = OnHandAfter(r, v)]
                /\ reserved' = [reserved EXCEPT ![s] = ReservedAfter(r, v)]
                /\ moved' = [moved EXCEPT ![s][Move(r)] = @ + Quantity(r, v)]
           ELSE UNCHANGED <<onHand, reserved, moved>>
        /\ lines' = LinesAfter(r, v, lines)
        /\ total' = IF SavesOrder(c) THEN [total EXCEPT ![r.wo] = NewTotal(c)] ELSE total
        /\ Go(c, "done")
        /\ snap' = [snap EXCEPT ![c] = None]
        /\ stale' = [o \in Calls |-> IF o # c /\ pc[o] = "open"
                                     THEN stale[o] \cup Written(c) ELSE {}]
        /\ UNCHANGED <<request, loaded>>

\* A write conflict: abort, and run the callback again.  The work order in
\* memory stays as it was loaded.
Conflict(c) ==
    /\ pc[c] = "open"
    /\ Written(c) \cap stale[c] # {}
    /\ EndTxn(c)
    /\ Go(c, "loaded")
    /\ UNCHANGED <<store, request, loaded>>

\* The commit fails for a transient reason (the primary steps down): the
\* callback runs again, but the work order in memory counts as saved.
LoseCommit(c) ==
    /\ Stepdowns
    /\ pc[c] = "open"
    /\ Written(c) \cap stale[c] = {}
    /\ EndTxn(c)
    /\ Go(c, "loaded")
    /\ loaded' = [loaded EXCEPT ![c] = NewTotal(c)]
    /\ UNCHANGED <<store, request>>

\* The process dies or withTransaction runs out of time.
Abandon(c) ==
    /\ pc[c] \in {"loaded", "open"}
    /\ EndTxn(c)
    /\ Go(c, "done")
    /\ UNCHANGED <<store, request, loaded>>

Done ==
    /\ \A c \in Calls : pc[c] = "done"
    /\ UNCHANGED vars

Next ==
    \/ \E c \in Calls, r \in Requests : Load(c, r)
    \/ \E c \in Calls :
           Refuse(c) \/ Begin(c) \/ Commit(c) \/ Conflict(c) \/ LoseCommit(c) \/ Abandon(c)
    \/ Done

Spec == Init /\ [][Next]_vars

----------------------------------------------------------------------------

\* Every variable has its type; no quantity is ever negative.
TypeOK ==
    /\ onHand \in [Stocks -> Nat]
    /\ reserved \in [Stocks -> Nat]
    /\ lines \in Seq(LineType)
    /\ moved \in [Stocks -> [Moves -> Nat]]
    /\ total \in [WorkOrders -> Nat]
    /\ pc \in [Calls -> {"idle", "loaded", "open", "done"}]
    /\ request \in [Calls -> Requests \cup {None}]
    /\ loaded \in [Calls -> Nat]
    /\ snap \in [Calls -> StoreType \cup {None}]
    /\ \A c \in Calls : (pc[c] = "open") <=> (snap[c] # None)

\* What a stock has reserved is what its active line items reserve: the two are
\* separate documents, saved in a different order by different handlers.
ReservedIsOnLines ==
    \A s \in Stocks :
        reserved[s] = MapThenSumSet(LAMBDA i : lines[i].reserved, ActiveOf(lines, s))

\* No piece is lost or made: on hand, reserved and issued (a deleted line item
\* keeps what it issued) come to what there was at the start.
PiecesOf(onH, ls, s) ==
    onH[s] + MapThenSumSet(LAMBDA i : ls[i].reserved + ls[i].issued,
                           {i \in DOMAIN ls : ls[i].stock = s})

PiecesAreConserved ==
    \A s \in Stocks : PiecesOf(onHand, lines, s) = PiecesOf(InitialOnHand, InitialLines, s)

\* The movement log explains the quantity on hand.
MovementsExplainStock ==
    \A s \in Stocks :
        onHand[s] = InitialOnHand[s] - moved[s]["reserve"]
                        + moved[s]["unreserve"] + moved[s]["return"]

\* A work order has one active line item per stock, although the code looks for
\* the line and creates it in two steps, and no index enforces it: MongoDB
\* refuses the partial index on a field that does not exist.
OneActiveLine == OneActive(lines)

\* A deleted line item never changes again: nothing is returned to, or issued
\* on, a line that another call has deleted in the meantime.
DeletedLinesStay ==
    [][\A i \in DOMAIN lines : lines[i].deleted => lines'[i] = lines[i]]_vars

\* The parts cost of a work order is that of its active line items, which is what
\* backend/tests/workOrderPartsRoutes.test.ts asserts after each operation.
TotalIsSumOfLines ==
    \A w \in WorkOrders : total[w] = TotalOf(lines, w)
=============================================================================
