-------------------------- MODULE InventoryLedger --------------------------
(***************************************************************************)
(* The inventory ledger of backend/src/modules/inventory/service.ts as it  *)
(* runs: API calls that execute receiveInventory, issueInventory,          *)
(* adjustInventory, transferInventory and recordStockCount concurrently,   *)
(* each inside session.withTransaction on a MongoDB replica set.           *)
(*                                                                         *)
(* MongoDB gives a transaction the snapshot of its first read.  Saving a   *)
(* document that another open transaction has saved, or that was committed *)
(* after the snapshot, is a write conflict: the transaction aborts and     *)
(* withTransaction runs the callback again until its time limit.  What a   *)
(* save writes is the value computed from the snapshot, never an           *)
(* increment.  A call may repeat a key (a client that retries, a form      *)
(* submitted twice), and the API process may die at any point.             *)
(***************************************************************************)
EXTENDS LedgerOps, FiniteSets, Functions

CONSTANTS
    Calls,          \* API calls
    InitialItems,   \* locations with a StockItem at the start,
    InitialStock,   \* their quantities,
    InitialPart,    \* and the quantity of the part
    MaxAttempts,    \* runs of the callback within withTransaction's time limit
    NoEntry,        \* no InventoryTransaction document
    Failed,         \* the call was answered with an error, or its answer was lost
    None            \* no request, no snapshot, no answer yet

ASSUME InitialAssumption ==
    /\ InitialItems \subseteq Locations
    /\ InitialStock \in [Locations -> Nat]
    /\ \A l \in Locations \ InitialItems : InitialStock[l] = 0
    /\ InitialPart \in Nat
    /\ MaxAttempts \in Nat \ {0}

\* What the sums over locations and over keys need to be sums.
ASSUME FinitenessAssumption ==
    IsFiniteSet(Locations) /\ IsFiniteSet(Keys)

Docs == Locations \cup {Part} \cup Keys

\* An InventoryTransaction document.
EntryType ==
    [type : OpTypes, loc : Locations, to : Locations, qty : Int, delta : Int,
     after : Int, toAfter : Int, partAfter : Int]

ASSUME TokensAssumption ==
    /\ NoEntry \notin EntryType /\ Failed \notin EntryType /\ None \notin EntryType
    /\ None \notin Requests /\ None \notin Views /\ None # Failed

VARIABLES
    items, stock, part,     \* the committed StockItem and Part documents
    history,                \* sum of the committed StockHistory deltas of a location
    txs,                    \* the committed InventoryTransaction of each key
    pc,                     \* how far each call has come
    request,                \* the call's request
    snap,                   \* the snapshot its transaction reads
    held,                   \* the documents its transaction has saved
    stale,                  \* the documents others committed since its snapshot
    attempts,               \* how often the callback has run
    reply                   \* what the call was answered

store == <<items, stock, part, history, txs>>
vars == <<store, pc, request, snap, held, stale, attempts, reply>>

Saving == {"source", "dest", "part", "record"}
InTxn == Saving \cup {"commit"}
Steps == InTxn \cup {"idle", "submitted", "committed", "answered"}

Store == [items |-> items, stock |-> stock, part |-> part]

\* Mutant: the quantity at r.loc as it was read.
EntryAsRead(r, v) ==
    [type |-> r.type, loc |-> r.loc, to |-> r.to, qty |-> r.qty,
     delta |-> PartChange(r, v), after |-> v.stock[r.loc],
     toAfter |-> StockAfter(r, v)[r.to], partAfter |-> PartAfter(r, v)]

\* The InventoryTransaction document of request r computed from view v.
Entry(r, v) ==
    [type |-> r.type, loc |-> r.loc, to |-> r.to, qty |-> r.qty,
     delta |-> PartChange(r, v), after |-> StockAfter(r, v)[r.loc],
     toAfter |-> StockAfter(r, v)[r.to], partAfter |-> PartAfter(r, v)]

Init ==
    /\ items = InitialItems
    /\ stock = InitialStock
    /\ part = InitialPart
    /\ history = [l \in Locations |-> 0]
    /\ txs = [k \in Keys |-> NoEntry]
    /\ pc = [c \in Calls |-> "idle"]
    /\ request = [c \in Calls |-> None]
    /\ snap = [c \in Calls |-> None]
    /\ held = [c \in Calls |-> {}]
    /\ stale = [c \in Calls |-> {}]
    /\ attempts = [c \in Calls |-> 0]
    /\ reply = [c \in Calls |-> None]

----------------------------------------------------------------------------

Go(c, step) == pc' = [pc EXCEPT ![c] = step]

\* The transaction of c is over: its snapshot and its locks are gone.
EndTxn(c) ==
    /\ snap' = [snap EXCEPT ![c] = None]
    /\ held' = [held EXCEPT ![c] = {}]
    /\ stale' = [stale EXCEPT ![c] = {}]

AnswerWith(c, answer) ==
    /\ Go(c, "answered")
    /\ reply' = [reply EXCEPT ![c] = answer]

\* A client sends request r.
Submit(c, r) ==
    /\ pc[c] = "idle"
    /\ Go(c, "submitted")
    /\ request' = [request EXCEPT ![c] = r]
    /\ UNCHANGED <<store, snap, held, stale, attempts, reply>>

\* What findTransactionByKey finds in the snapshot being opened.
Existing(c) == txs[request[c].key]

\* withIdempotentTransaction: the key is known, so the recorded transaction is
\* returned and nothing is done.
Replay(c) ==
    /\ pc[c] = "submitted"
    /\ Existing(c) # NoEntry
    /\ AnswerWith(c, Existing(c))
    /\ UNCHANGED <<store, request, snap, held, stale, attempts>>

\* The operation throws an InventoryError before it saves anything.
Refuse(c) ==
    /\ pc[c] = "submitted"
    /\ Existing(c) = NoEntry
    /\ Refused(request[c], Store)
    /\ AnswerWith(c, Failed)
    /\ UNCHANGED <<store, request, snap, held, stale, attempts>>

NeverOutOfTime(c) == FALSE     \* mutant: retry without a limit

\* withTransaction does not run the callback again past its time limit.
OutOfTime(c) == attempts[c] >= MaxAttempts

\* The callback starts: it reads the part, the locations and the stock.
Begin(c) ==
    /\ pc[c] = "submitted"
    /\ Existing(c) = NoEntry
    /\ ~Refused(request[c], Store)
    /\ Go(c, "source")
    /\ snap' = [snap EXCEPT ![c] = Store]
    /\ attempts' = [attempts EXCEPT ![c] = IF @ < MaxAttempts THEN @ + 1 ELSE @]
    /\ UNCHANGED <<store, request, held, stale, reply>>

----------------------------------------------------------------------------

\* Mutant: without the unique index on the key, creating a record conflicts with
\* nothing.
TargetWithoutIndex(c) ==
    CASE pc[c] = "source" ->
            {l \in Locations : l = request[c].loc /\ SavesSource(request[c], snap[c])}
      [] pc[c] = "dest" -> {l \in Locations : l = request[c].to}
      [] pc[c] = "part" -> {p \in {Part} : SavesPart(request[c], snap[c])}
      [] OTHER -> {}

\* The document the next save of c writes, as a set: empty if that step has
\* nothing to send to the database.
Target(c) ==
    CASE pc[c] = "source" ->
            {l \in Locations : l = request[c].loc /\ SavesSource(request[c], snap[c])}
      [] pc[c] = "dest" -> {l \in Locations : l = request[c].to}
      [] pc[c] = "part" -> {p \in {Part} : SavesPart(request[c], snap[c])}
      [] pc[c] = "record" -> {k \in Keys : k = request[c].key}
      [] OTHER -> {}

\* No other transaction has saved d, nor was it committed since the snapshot.
IsFree(c, d) == d \notin stale[c] /\ \A o \in Calls \ {c} : d \notin held[o]

\* Mutant: a transfer forgets to save its destination.
NextStepWithoutDest(c) ==
    CASE pc[c] \in {"source", "dest"} -> "part"
      [] pc[c] = "part" -> "record"
      [] OTHER -> "commit"

NextStep(c) ==
    CASE pc[c] = "source" -> IF request[c].type = "transfer" THEN "dest" ELSE "part"
      [] pc[c] = "dest" -> "part"
      [] pc[c] = "part" -> "record"
      [] OTHER -> "commit"

\* stock.save, toStock.save, part.save and InventoryTransactionModel.create
\* (with the history rows, which conflict with nothing), in the code's order.
Save(c) ==
    /\ pc[c] \in Saving
    /\ \A d \in Target(c) : IsFree(c, d)
    /\ held' = [held EXCEPT ![c] = @ \cup Target(c)]
    /\ Go(c, NextStep(c))
    /\ UNCHANGED <<store, request, snap, stale, attempts, reply>>

\* A write conflict (a duplicate key is one as well while the other insert is
\* not in the snapshot): abort, and run the callback again if there is time.
Conflict(c) ==
    /\ pc[c] \in Saving
    /\ \E d \in Target(c) : ~IsFree(c, d)
    /\ EndTxn(c)
    /\ IF OutOfTime(c) THEN AnswerWith(c, Failed)
       ELSE Go(c, "submitted") /\ UNCHANGED reply
    /\ UNCHANGED <<store, request, attempts>>

\* The transaction commits: what it saved becomes visible at once.
Commit(c) ==
    LET r == request[c]
        v == snap[c]
    IN  /\ pc[c] = "commit"
        /\ items' = items \cup (held[c] \cap Locations)
        /\ stock' = [l \in Locations |->
                        IF l \in held[c] THEN StockAfter(r, v)[l] ELSE stock[l]]
        /\ part' = IF Part \in held[c] THEN PartAfter(r, v) ELSE part
        /\ history' = [l \in Locations |-> history[l] + Effect(r, v)[l]]
        /\ txs' = [txs EXCEPT ![r.key] = Entry(r, v)]
        /\ snap' = [snap EXCEPT ![c] = None]
        /\ held' = [held EXCEPT ![c] = {}]
        /\ stale' = [o \in Calls |->
                        IF o = c THEN {}
                        ELSE IF pc[o] \in InTxn THEN stale[o] \cup held[c] ELSE stale[o]]
        /\ reply' = [reply EXCEPT ![c] = Entry(r, v)]
        /\ Go(c, "committed")
        /\ UNCHANGED <<request, attempts>>

\* The handler sends back the record that this call wrote.
Answer(c) ==
    /\ pc[c] = "committed"
    /\ Go(c, "answered")
    /\ UNCHANGED <<store, request, snap, held, stale, attempts, reply>>

\* The process or the connection dies: the database aborts an open
\* transaction, a committed one stays, and the client gets no record.
Crash(c) ==
    /\ pc[c] \in InTxn \cup {"submitted", "committed"}
    /\ EndTxn(c)
    /\ AnswerWith(c, Failed)
    /\ UNCHANGED <<store, request, attempts>>

Done ==
    /\ \A c \in Calls : pc[c] = "answered"
    /\ UNCHANGED vars

Work(c) ==
    \/ Replay(c) \/ Refuse(c) \/ Begin(c)
    \/ Save(c) \/ Conflict(c) \/ Commit(c) \/ Answer(c)

Next ==
    \/ \E c \in Calls, r \in Requests : Submit(c, r)
    \/ \E c \in Calls : Work(c) \/ Crash(c)
    \/ Done

\* The event loop and the driver run every call that can make a step.
Fairness == \A c \in Calls : WF_vars(Work(c))

Spec == Init /\ [][Next]_vars
FairSpec == Spec /\ Fairness

----------------------------------------------------------------------------

\* Every variable has its type; quantities are never negative.
TypeOK ==
    /\ items \in SUBSET Locations
    /\ stock \in [Locations -> Nat]
    /\ part \in Nat
    /\ history \in [Locations -> Int]
    /\ txs \in [Keys -> EntryType \cup {NoEntry}]
    /\ pc \in [Calls -> Steps]
    /\ request \in [Calls -> Requests \cup {None}]
    /\ snap \in [Calls -> Views \cup {None}]
    /\ held \in [Calls -> SUBSET Docs]
    /\ stale \in [Calls -> SUBSET Docs]
    /\ attempts \in [Calls -> Nat]
    /\ reply \in [Calls -> EntryType \cup {Failed, None}]

\* The quantity of the part and the sum of what its locations hold move
\* together, although every call saves the documents in separate statements.
PartMovesWithStock ==
    part - SumFunction(stock) = InitialPart - SumFunction(InitialStock)

\* What an InventoryTransaction says it did at location l.
BookedAt(e, l) ==
    IF e = NoEntry THEN 0
    ELSE IF e.type = "transfer"
         THEN (IF l = e.to THEN e.qty ELSE IF l = e.loc THEN -e.qty ELSE 0)
         ELSE IF l = e.loc THEN e.delta ELSE 0

\* The history explains the stock: at every location the quantity is the initial
\* one plus the StockHistory rows.  Quantities are saved as absolute values
\* computed from a snapshot, so one lost update breaks it.
HistoryExplainsStock ==
    \A l \in Locations : stock[l] = InitialStock[l] + history[l]

\* The InventoryTransactions explain the history: the rows of a location come to
\* what the transactions say they did there, each key counted once.  An operation
\* applied again for a key that is sent twice breaks it.
BookingsExplainHistory ==
    \A l \in Locations :
        history[l] = SumFunction([k \in Keys |-> BookedAt(txs[k], l)])

Answered(c) == pc[c] \in {"committed", "answered"} /\ reply[c] \in EntryType

\* A successful answer is the transaction stored under the key of its request:
\* two calls that send one key, together or one after the other, are told the
\* same, whichever of them did the work.
SameKeySameAnswer ==
    \A c \in Calls : Answered(c) => reply[c] = txs[request[c].key]

\* The quantity a transaction records for a location it changed is the quantity
\* the location has when the transaction becomes visible.
RecordsAreTrue ==
    [][\A k \in Keys : txs[k] = NoEntry /\ txs'[k] # NoEntry =>
          LET e == txs'[k]
          IN  /\ e.type = "transfer" => stock'[e.to] = e.toAfter
              /\ e.type = "transfer" \/ e.delta # 0 => stock'[e.loc] = e.after
              /\ e.type # "transfer" /\ e.delta # 0 => part' = e.partAfter]_vars

\* Every call is answered in the end: no set of conflicting transactions keeps
\* its members aborting each other for ever.
EveryCallAnswered ==
    \A c \in Calls : pc[c] = "submitted" ~> pc[c] = "answered"

\* The promise of StockLedger: each operation at one instant, once for its key.
Bookings ==
    [k \in Keys |-> IF txs[k] = NoEntry THEN NoEntry
                    ELSE [type |-> txs[k].type, loc |-> txs[k].loc, to |-> txs[k].to,
                          qty |-> txs[k].qty, delta |-> txs[k].delta]]

Promise == INSTANCE StockLedger WITH bookings <- Bookings

IsStockLedger == Promise!Spec
============================================================================
