---------------------------- MODULE StockLedger ----------------------------
(***************************************************************************)
(* What the inventory ledger promises its clients: every operation takes   *)
(* effect at one instant, on the quantities of that instant, at most once  *)
(* for each idempotency key, and books its change and its history with it. *)
(* There are no transactions, snapshots, conflicts or retries here;        *)
(* InventoryLedger is shown to implement this specification.               *)
(***************************************************************************)
EXTENDS LedgerOps

CONSTANTS InitialItems, InitialStock, InitialPart, NoEntry

VARIABLES
    items,      \* locations that have a StockItem
    stock,      \* quantity at each location
    part,       \* quantity of the part
    history,    \* sum of the StockHistory deltas of each location
    bookings    \* the booking of each key that has been used

vars == <<items, stock, part, history, bookings>>

Store == [items |-> items, stock |-> stock, part |-> part]

Booking(r, delta) ==
    [type |-> r.type, loc |-> r.loc, to |-> r.to, qty |-> r.qty, delta |-> delta]

Init ==
    /\ items = InitialItems
    /\ stock = InitialStock
    /\ part = InitialPart
    /\ history = [l \in Locations |-> 0]
    /\ bookings = [k \in Keys |-> NoEntry]

\* The operation r, on the store as it is now.
Apply(r) ==
    /\ bookings[r.key] = NoEntry
    /\ ~Refused(r, Store)
    /\ items' = items \cup {r.loc, r.to}
    /\ stock' = StockAfter(r, Store)
    /\ part' = PartAfter(r, Store)
    /\ history' = [l \in Locations |-> history[l] + Effect(r, Store)[l]]
    /\ bookings' = [bookings EXCEPT ![r.key] = Booking(r, PartChange(r, Store))]

\* A count that agreed with the stock when it looked changes no quantity, and
\* is booked even if the stock has moved on since.
CountAgrees(r) ==
    /\ bookings[r.key] = NoEntry
    /\ r.type = "stock_count"
    /\ items' = items \cup {r.loc}
    /\ bookings' = [bookings EXCEPT ![r.key] = Booking(r, 0)]
    /\ UNCHANGED <<stock, part, history>>

Next == \E r \in Requests : Apply(r) \/ CountAgrees(r)

Spec == Init /\ [][Next]_vars
============================================================================
