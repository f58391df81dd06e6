----------------------------- MODULE MobileMerge -----------------------------
(***************************************************************************)
(* How an offline edit of a work order is merged with the stored document: *)
(* backend/src/modules/mobile/conflictResolution.ts, and the reconcile     *)
(* check of backend/src/modules/work-orders/conflict.ts.                   *)
(*                                                                         *)
(* A document is reduced to what a device edits: status, type, approval,   *)
(* text (the description) and item, the answer of its one required         *)
(* checklist item.                                                         *)
(* An edit carries the device's version stamp ("at"), stamps of its own    *)
(* for the text and the item, whether it sent a vector clock, and whether  *)
(* its client id sorts before the word "server".  Nothing in the           *)
(* repository stores a syncVector, so the server never has a vector.       *)
(***************************************************************************)
EXTENDS Integers

Absent == "absent"     \* a field the edit does not send
NoTime == -1           \* a stamp the edit does not send

\* An item that is "gone" was deleted; "no" is an answer like any other: a
\* completedValue of false counts as a value.
Items == {"gone", "open", "no", "yes"}

EditType(Statuses, Types, Approvals, Texts, Times) ==
  [op : {"sync"}, at : Times \cup {NoTime}, vector : BOOLEAN, first : BOOLEAN,
   status : Statuses \cup {Absent}, type : Types \cup {Absent},
   approval : Approvals \cup {Absent}, text : Texts \cup {Absent},
   textAt : Times \cup {NoTime}, item : (Items \ {"no"}) \cup {Absent},
   itemAt : Times \cup {NoTime}]

\* A field that was sent, or what was there.
Given(sent, old) == IF sent = Absent THEN old ELSE sent

\* The later stamp wins; without a client stamp the server does; at a tie a
\* client that sent a vector, or whose id sorts first, does.
ClientWins(server, client, vector, first) ==
  \/ client > server
  \/ client = server /\ (vector \/ first)

\* A field's own stamp, or the edit's.
StampOf(own, e) == IF own # NoTime THEN own ELSE e.at

RecordWon(doc, e) == ClientWins(doc.updatedAt, e.at, e.vector, e.first)

TextWon(doc, e) ==
  /\ e.text # Absent
  /\ ClientWins(doc.updatedAt, StampOf(e.textAt, e), e.vector, e.first)

\* Checklist items are compared without the client id.
ItemWon(doc, e) ==
  /\ e.item # Absent
  /\ ClientWins(doc.updatedAt, StampOf(e.itemAt, e), e.vector, FALSE)

\* An item the server lacks is added whoever wins, unless the device deleted it
\* and wins.
ItemAdded(doc, e) ==
  /\ doc.item = "gone"
  /\ e.item # Absent
  /\ ~(e.item = "gone" /\ ItemWon(doc, e))

ItemApplied(doc, e) == ItemAdded(doc, e) \/ (ItemWon(doc, e) /\ e.item # "gone")

\* Whether the edit is applied at all.
Applies(doc, e) == RecordWon(doc, e) \/ TextWon(doc, e) \/ ItemApplied(doc, e)

\* A deleted item that comes back does so unanswered.
MergedItem(doc, e) ==
  CASE ItemAdded(doc, e) /\ e.item = "gone" -> "open"
    [] ItemAdded(doc, e) \/ ItemWon(doc, e) -> e.item
    [] OTHER                                -> doc.item

\* What the record's winner decides.  A text whose own stamp lost is listed as
\* discarded but stays in the merge when the record as a whole was won.
Merged(doc, e) ==
  LET won(sent, old) == IF RecordWon(doc, e) THEN Given(sent, old) ELSE old
  IN  [doc EXCEPT
         !.status   = won(e.status, @),
         !.type     = won(e.type, @),
         !.approval = won(e.approval, @),
         !.text     = IF TextWon(doc, e) THEN e.text ELSE won(e.text, @),
         !.item     = MergedItem(doc, e)]

\* The reconcile route: a payload without a stamp is not looked at, a newer one
\* is applied, an older one only if it says what the server already has.  Lists
\* are compared by identity, so an older one that sends a list is refused.
Reconciles(doc, r) ==
  \/ r.at = NoTime
  \/ r.at >= doc.updatedAt
  \/ /\ r.item = Absent /\ ~r.relink
     /\ \A f \in {"status", "type", "approval", "text"} : r[f] \in {Absent, doc[f]}
=============================================================================
