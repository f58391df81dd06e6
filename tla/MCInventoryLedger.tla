------------------------- MODULE MCInventoryLedger -------------------------
(***************************************************************************)
(* A small ledger for TLC: two locations, of which l2 has no StockItem yet *)
(* and l1 holds two pieces, three keys, and requests chosen so that calls  *)
(* collide on every document: a retry of the same key, one key used for    *)
(* two operations, transfers in opposite directions, an issue that empties *)
(* the location, and a count that agrees or not with what it finds.        *)
(***************************************************************************)
EXTENDS InventoryLedger, TLC

CONSTANTS l1, l2, k1, k2, k3

MCLocations == {l1, l2}
MCKeys == {k1, k2, k3}

Req(type, key, loc, to, qty) ==
    [type |-> type, key |-> key, loc |-> loc, to |-> to, qty |-> qty]

MCRequests ==
    { Req("issue", k1, l1, l1, 2),
      Req("receive", k1, l2, l2, 1),
      Req("receive", k2, l1, l1, 1),
      Req("adjust", k2, l1, l1, -1),
      Req("transfer", k2, l1, l2, 1),
      Req("transfer", k3, l2, l1, 1),
      Req("stock_count", k3, l1, l1, 2) }

MCInitialItems == {l1}
MCInitialStock == [l \in MCLocations |-> IF l = l1 THEN 2 ELSE 0]

\* For liveness: both locations hold stock, so that opposite transfers conflict
\* for ever if nothing stops them; the part was saved with less than the sum.
LiveRequests == MCRequests \cup {Req("issue", k1, l1, l1, 1)}
LiveInitialItems == MCLocations
LiveInitialStock == [l \in MCLocations |-> IF l = l1 THEN 2 ELSE 1]

Symmetry == Permutations(Calls)
============================================================================
