----------------------------- MODULE LedgerOps -----------------------------
(***************************************************************************)
(* What one inventory operation does to the quantities it reads: the five  *)
(* transactional operations of backend/src/modules/inventory/service.ts    *)
(* (receive, issue, adjust, transfer, stock count) as functions of a       *)
(* request and of a view of the store.                                     *)
(*                                                                         *)
(* A view is a record [items, stock, part]: the locations that have a      *)
(* StockItem document, the quantity of each (0 where there is none) and    *)
(* the quantity of the Part document.  One part is modelled: an operation  *)
(* touches the documents of a single part, and two parts share nothing but *)
(* the name space of idempotency keys.                                     *)
(***************************************************************************)
EXTENDS Integers

CONSTANTS
    Locations,      \* the storage locations of the tenant
    Part,           \* the part whose stock is kept
    Keys,           \* idempotency keys a client may send
    Requests        \* the requests clients send (validated by the zod schemas)

OpTypes == {"receive", "issue", "adjust", "transfer", "stock_count"}

\* A validated request.  `qty` is the quantity, or the signed delta of an
\* adjustment; `to` is the destination of a transfer and `loc` otherwise.
RequestType ==
    [type : OpTypes, key : Keys, loc : Locations, to : Locations, qty : Int]

ValidRequest(r) ==
    /\ r.type \in {"receive", "issue", "transfer"} => r.qty > 0
    /\ r.type = "adjust" => r.qty # 0
    /\ r.type = "stock_count" => r.qty >= 0
    /\ r.type = "transfer" <=> r.loc # r.to

ASSUME RequestsAssumption ==
    /\ Requests \subseteq RequestType
    /\ \A r \in Requests : ValidRequest(r)

ASSUME DocumentsAssumption ==
    /\ Part \notin Locations
    /\ Part \notin Keys
    /\ Locations \cap Keys = {}

Views == [items : SUBSET Locations, stock : [Locations -> Nat], part : Nat]

----------------------------------------------------------------------------

\* The change of the quantity at r.loc.
Change(r, v) ==
    CASE r.type \in {"receive", "adjust"} -> r.qty
      [] r.type \in {"issue", "transfer"} -> -r.qty
      [] r.type = "stock_count" -> r.qty - v.stock[r.loc]

\* The change at every location: a transfer adds at the destination what it
\* takes from the source.
Effect(r, v) ==
    [l \in Locations |-> IF l = r.loc THEN Change(r, v)
                         ELSE IF l = r.to THEN r.qty ELSE 0]

\* Mutant: a transfer takes its quantity off the part.
ChangeOfSource(r, v) == Change(r, v)

\* The change of the quantity of the part, which a transfer leaves alone.
PartChange(r, v) == IF r.type = "transfer" THEN 0 ELSE Change(r, v)

\* Mutant: an issue is checked against the part alone.
RefusedByPart(r, v) ==
    \/ r.type = "issue" /\ (r.loc \notin v.items \/ v.part < r.qty)
    \/ r.type = "adjust" /\ (v.stock[r.loc] + r.qty < 0 \/ v.part + r.qty < 0)
    \/ r.type = "transfer" /\ (r.loc \notin v.items \/ v.stock[r.loc] < r.qty)
    \/ r.type = "stock_count" /\ v.part + Change(r, v) < 0

\* The InventoryErrors the operation throws before it saves anything.
Refused(r, v) ==
    \/ /\ r.type = "issue"
       /\ \/ r.loc \notin v.items
          \/ v.stock[r.loc] < r.qty
          \/ v.part < r.qty
    \/ /\ r.type = "adjust"
       /\ \/ r.loc \notin v.items /\ r.qty < 0
          \/ v.stock[r.loc] + r.qty < 0
          \/ v.part + r.qty < 0
    \/ /\ r.type = "transfer"
       /\ r.loc \notin v.items \/ v.stock[r.loc] < r.qty
    \/ /\ r.type = "stock_count"
       /\ v.part + Change(r, v) < 0

\* Mongoose sends a save to the database only if the document is new or one
\* of its paths was modified: a count that finds no difference saves nothing.
SavesSource(r, v) == r.loc \notin v.items \/ Change(r, v) # 0
SavesPart(r, v) == PartChange(r, v) # 0

StockAfter(r, v) == [l \in Locations |-> v.stock[l] + Effect(r, v)[l]]
PartAfter(r, v) == v.part + PartChange(r, v)
============================================================================
