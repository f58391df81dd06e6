----------------------- MODULE InventoryLedgerProofs -----------------------
(***************************************************************************)
(* Proofs about InventoryLedger, for any number of calls, locations, keys  *)
(* and requests, and any initial stock.                                    *)
(*                                                                         *)
(* The argument is the one snapshot isolation allows.  A document that a   *)
(* transaction has saved is locked, and is not in its `stale` set; a       *)
(* document that is not stale has the value the snapshot shows.  So at its *)
(* commit a call holds every document its operation changes, and each of   *)
(* them still has the value from which the operation was computed.         *)
(***************************************************************************)
EXTENDS InventoryLedger, FiniteSums, TLAPS

\* The documents the two saves of the quantity at a location write.
SourceDocs(r, v) == {l \in Locations : l = r.loc /\ SavesSource(r, v)}
DestDocs(r) == {l \in Locations : r.type = "transfer" /\ l = r.to}
PartDocs(r, v) == {p \in {Part} : SavesPart(r, v)}
KeyDocs(r) == {k \in Keys : k = r.key}

\* A call that has submitted a request has it; one in a transaction has a
\* snapshot that did not refuse it.
SnapshotOK ==
    \A c \in Calls :
        /\ pc[c] # "idle" => request[c] \in Requests
        /\ pc[c] \in InTxn => snap[c] \in Views /\ ~Refused(request[c], snap[c])
        /\ pc[c] = "dest" => request[c].type = "transfer"

\* What a transaction holds at each step, given its request and its snapshot.
HeldOK ==
    \A c \in Calls :
        LET r == request[c]
            v == snap[c]
        IN  /\ pc[c] \notin InTxn => held[c] = {}
            /\ pc[c] = "source" => held[c] = {}
            /\ pc[c] = "dest" => held[c] = SourceDocs(r, v)
            /\ pc[c] = "part" => held[c] = SourceDocs(r, v) \cup DestDocs(r)
            /\ pc[c] = "record" =>
                   held[c] = SourceDocs(r, v) \cup DestDocs(r) \cup PartDocs(r, v)
            /\ pc[c] = "commit" =>
                   held[c] = SourceDocs(r, v) \cup DestDocs(r) \cup PartDocs(r, v)
                                 \cup KeyDocs(r)

\* Locks are exclusive, and what a transaction holds is not stale.
LocksOK ==
    \A c \in Calls : /\ held[c] \cap stale[c] = {}
                     /\ \A o \in Calls \ {c} : held[c] \cap held[o] = {}

\* A document that is not stale is as the snapshot shows it.
FreshOK ==
    \A c \in Calls : pc[c] \in InTxn =>
        /\ \A l \in Locations \ stale[c] :
               /\ stock[l] = snap[c].stock[l]
               /\ l \in items <=> l \in snap[c].items
        /\ snap[c].items \subseteq items
        /\ Part \notin stale[c] => part = snap[c].part
        /\ request[c].key \notin stale[c] => txs[request[c].key] = NoEntry

IInv == TypeOK /\ SnapshotOK /\ HeldOK /\ LocksOK /\ FreshOK

----------------------------------------------------------------------------

\* What an operation that is not refused computes has its type: no quantity
\* becomes negative.
LEMMA OpTyping ==
    ASSUME NEW r \in Requests, NEW v \in Views, ~Refused(r, v)
    PROVE  /\ Change(r, v) \in Int
           /\ PartChange(r, v) \in Int
           /\ Effect(r, v) \in [Locations -> Int]
           /\ StockAfter(r, v) \in [Locations -> Nat]
           /\ PartAfter(r, v) \in Nat
<1>1. r \in RequestType /\ ValidRequest(r)
  BY RequestsAssumption
<1>2. /\ r.type \in OpTypes /\ r.key \in Keys
      /\ r.loc \in Locations /\ r.to \in Locations /\ r.qty \in Int
  BY <1>1 DEF RequestType
<1>3. v.stock \in [Locations -> Nat] /\ v.part \in Nat
  BY DEF Views
<1>4. Change(r, v) \in Int
  BY <1>2, <1>3 DEF Change, OpTypes
<1>5. PartChange(r, v) \in Int
  BY <1>4 DEF PartChange
<1>6. Effect(r, v) \in [Locations -> Int]
  BY <1>2, <1>4 DEF Effect
<1>7. v.stock[r.loc] + Change(r, v) \in Nat
  BY <1>1, <1>2, <1>3 DEF Change, Refused, ValidRequest, OpTypes
<1>8. r.loc # r.to => r.qty > 0
  BY <1>1 DEF ValidRequest
<1>9. StockAfter(r, v) \in [Locations -> Nat]
  BY <1>2, <1>3, <1>7, <1>8 DEF StockAfter, Effect
<1>10. PartAfter(r, v) \in Nat
  BY <1>1, <1>2, <1>3 DEF PartAfter, PartChange, Change, Refused, ValidRequest, OpTypes
<1> QED BY <1>4, <1>5, <1>6, <1>9, <1>10

\* The booked record of such an operation has its type, so it is not NoEntry.
LEMMA EntryTyping ==
    ASSUME NEW r \in Requests, NEW v \in Views, ~Refused(r, v)
    PROVE  Entry(r, v) \in EntryType /\ Entry(r, v) # NoEntry
<1>1. r \in RequestType
  BY RequestsAssumption
<1>2. /\ r.type \in OpTypes /\ r.loc \in Locations /\ r.to \in Locations /\ r.qty \in Int
  BY <1>1 DEF RequestType
<1>3. /\ PartChange(r, v) \in Int /\ StockAfter(r, v) \in [Locations -> Nat]
      /\ PartAfter(r, v) \in Nat
  BY OpTyping
<1>4. Entry(r, v) \in EntryType
  BY <1>2, <1>3 DEF Entry, EntryType
<1> QED BY <1>4, TokensAssumption

\* An operation changes no quantity at a location it does not write.
LEMMA EffectIsWritten ==
    ASSUME NEW r \in Requests, NEW v \in Views, ~Refused(r, v)
    PROVE  /\ \A l \in Locations \ (SourceDocs(r, v) \cup DestDocs(r)) :
                  Effect(r, v)[l] = 0
           /\ PartDocs(r, v) = {} => PartChange(r, v) = 0
<1>1. r \in RequestType /\ ValidRequest(r)
  BY RequestsAssumption
<1>2. r.loc \in Locations /\ r.to \in Locations
  BY <1>1 DEF RequestType
<1>3. ASSUME NEW l \in Locations \ (SourceDocs(r, v) \cup DestDocs(r))
      PROVE  Effect(r, v)[l] = 0
  <2>1. CASE l = r.loc
    BY <2>1, <1>2 DEF SourceDocs, SavesSource, Effect
  <2>2. CASE l # r.loc
    BY <2>2, <1>1, <1>2 DEF DestDocs, ValidRequest, Effect
  <2> QED BY <2>1, <2>2
<1>4. PartDocs(r, v) = {} => PartChange(r, v) = 0
  BY DEF PartDocs, SavesPart
<1> QED BY <1>3, <1>4

----------------------------------------------------------------------------

LEMMA InitInv == Init => IInv
<1> SUFFICES ASSUME Init PROVE IInv
  OBVIOUS
<1> USE InitialAssumption
<1>1. TypeOK
  BY DEF Init, TypeOK, Steps, Docs
<1>2. SnapshotOK /\ HeldOK /\ LocksOK /\ FreshOK
  BY DEF Init, SnapshotOK, HeldOK, LocksOK, FreshOK, InTxn, Saving
<1> QED BY <1>1, <1>2 DEF IInv

\* A step that leaves the store alone, and takes call c to a step outside a
\* transaction with nothing held, preserves the invariant.
LEMMA LeaveInv ==
    ASSUME IInv, NEW c \in Calls, UNCHANGED store,
           TypeOK',
           \A o \in Calls \ {c} :
               /\ pc'[o] = pc[o] /\ request'[o] = request[o] /\ snap'[o] = snap[o]
               /\ held'[o] = held[o] /\ stale'[o] = stale[o],
           pc'[c] \notin InTxn, held'[c] = {},
           pc'[c] # "idle" => request'[c] \in Requests
    PROVE  IInv'
<1> USE DEF IInv, store
<1>1. SnapshotOK'
  BY DEF SnapshotOK, InTxn, Saving
<1>2. HeldOK'
  <2> SUFFICES ASSUME NEW d \in Calls PROVE HeldOK!(d)'
    BY DEF HeldOK
  <2>1. CASE d = c
    BY <2>1 DEF InTxn, Saving
  <2>2. CASE d # c
    <3>1. HeldOK!(d)
      BY DEF HeldOK
    <3> QED BY <2>2, <3>1
  <2> QED BY <2>1, <2>2
<1>3. LocksOK'
  BY DEF LocksOK
<1>4. FreshOK'
  BY DEF FreshOK
<1> QED BY <1>1, <1>2, <1>3, <1>4

LEMMA SubmitInv ==
    ASSUME IInv, NEW c \in Calls, NEW r \in Requests, Submit(c, r)
    PROVE  IInv'
<1> USE DEF Submit, Go, IInv
<1>1. TypeOK'
  BY DEF TypeOK, store, Steps
<1>2. held[c] = {} /\ pc'[c] = "submitted" /\ request'[c] = r
  BY DEF HeldOK, TypeOK, InTxn, Saving
<1>3. "submitted" \notin InTxn
  BY DEF InTxn, Saving
<1> QED BY <1>1, <1>2, <1>3, LeaveInv DEF TypeOK

LEMMA ReplayInv ==
    ASSUME IInv, NEW c \in Calls, Replay(c)
    PROVE  IInv'
<1> USE DEF Replay, AnswerWith, Go, IInv
<1>0. request[c] \in Requests /\ request[c].key \in Keys
  BY RequestsAssumption DEF SnapshotOK, RequestType
<1>1. TypeOK'
  BY <1>0 DEF TypeOK, store, Steps, Existing
<1>2. held[c] = {} /\ pc'[c] = "answered"
  BY DEF HeldOK, TypeOK, InTxn, Saving
<1>3. "answered" \notin InTxn
  BY DEF InTxn, Saving
<1> QED BY <1>0, <1>1, <1>2, <1>3, LeaveInv DEF TypeOK

LEMMA RefuseInv ==
    ASSUME IInv, NEW c \in Calls, Refuse(c)
    PROVE  IInv'
<1> USE DEF Refuse, AnswerWith, Go, IInv
<1>0. request[c] \in Requests
  BY DEF SnapshotOK
<1>1. TypeOK'
  BY DEF TypeOK, store, Steps
<1>2. held[c] = {} /\ pc'[c] = "answered"
  BY DEF HeldOK, TypeOK, InTxn, Saving
<1>3. "answered" \notin InTxn
  BY DEF InTxn, Saving
<1> QED BY <1>0, <1>1, <1>2, <1>3, LeaveInv DEF TypeOK

LEMMA AnswerInv ==
    ASSUME IInv, NEW c \in Calls, Answer(c)
    PROVE  IInv'
<1> USE DEF Answer, Go, IInv
<1>0. request[c] \in Requests
  BY DEF SnapshotOK
<1>1. TypeOK'
  BY DEF TypeOK, store, Steps
<1>2. held[c] = {} /\ pc'[c] = "answered"
  BY DEF HeldOK, TypeOK, InTxn, Saving
<1>3. "answered" \notin InTxn
  BY DEF InTxn, Saving
<1> QED BY <1>0, <1>1, <1>2, <1>3, LeaveInv DEF TypeOK

LEMMA CrashInv ==
    ASSUME IInv, NEW c \in Calls, Crash(c)
    PROVE  IInv'
<1> USE DEF Crash, EndTxn, AnswerWith, Go, IInv
<1>0. request[c] \in Requests
  BY DEF SnapshotOK, InTxn, Saving
<1>1. TypeOK'
  BY DEF TypeOK, store, Steps
<1>2. held'[c] = {} /\ pc'[c] = "answered"
  BY DEF TypeOK
<1>3. "answered" \notin InTxn
  BY DEF InTxn, Saving
<1> QED BY <1>0, <1>1, <1>2, <1>3, LeaveInv DEF TypeOK

LEMMA ConflictInv ==
    ASSUME IInv, NEW c \in Calls, Conflict(c)
    PROVE  IInv'
<1> USE DEF Conflict, EndTxn, AnswerWith, Go, IInv
<1>0. request[c] \in Requests
  BY DEF SnapshotOK, Saving
<1>1. TypeOK'
  BY DEF TypeOK, store, Steps
<1>2. held'[c] = {} /\ pc'[c] \in {"answered", "submitted"}
  BY DEF TypeOK
<1>3. "answered" \notin InTxn /\ "submitted" \notin InTxn
  BY DEF InTxn, Saving
<1> QED BY <1>0, <1>1, <1>2, <1>3, LeaveInv DEF TypeOK

\* The snapshot is the store of this instant, so everything is fresh.
LEMMA BeginInv ==
    ASSUME IInv, NEW c \in Calls, Begin(c)
    PROVE  IInv'
<1> USE DEF Begin, Go, IInv, store
<1>0. /\ request[c] \in Requests /\ request[c].key \in Keys
      /\ held[c] = {} /\ Store \in Views
  BY RequestsAssumption
  DEF SnapshotOK, RequestType, HeldOK, InTxn, Saving, Store, Views, TypeOK
<1>1. TypeOK'
  BY <1>0, InitialAssumption DEF TypeOK, Steps, InTxn, Saving
<1>2. /\ pc'[c] = "source" /\ snap'[c] = Store /\ stale' = stale /\ held' = held
      /\ \A o \in Calls \ {c} : pc'[o] = pc[o] /\ snap'[o] = snap[o]
  BY <1>0 DEF TypeOK
<1>3. SnapshotOK'
  BY <1>0, <1>2 DEF SnapshotOK, InTxn, Saving
<1>4. HeldOK'
  <2> SUFFICES ASSUME NEW d \in Calls PROVE HeldOK!(d)'
    BY DEF HeldOK
  <2>1. CASE d = c
    BY <2>1, <1>0, <1>2 DEF InTxn, Saving
  <2>2. CASE d # c
    <3>1. HeldOK!(d)
      BY DEF HeldOK
    <3> QED BY <2>2, <3>1, <1>2
  <2> QED BY <2>1, <2>2
<1>5. LocksOK'
  BY <1>0, <1>2 DEF LocksOK
<1>6. FreshOK'
  BY <1>0, <1>2 DEF FreshOK, Store, Existing
<1> QED BY <1>1, <1>3, <1>4, <1>5, <1>6

\* A save locks documents that were free, so they stay exclusive and fresh.
LEMMA SaveInv ==
    ASSUME IInv, NEW c \in Calls, Save(c)
    PROVE  IInv'
<1> USE DEF Save, Go, IInv, store
<1>0. request[c] \in Requests /\ pc[c] \in InTxn
  BY DEF SnapshotOK, Saving, InTxn
<1>1. /\ Target(c) \subseteq Docs
      /\ NextStep(c) \in InTxn \ {"source"}
      /\ NextStep(c) = "dest" => request[c].type = "transfer"
  BY DEF Target, Docs, NextStep, InTxn, Saving
<1>2. TypeOK'
  BY <1>1 DEF TypeOK, Steps, InTxn, Saving
<1>3. /\ pc'[c] = NextStep(c) /\ held'[c] = held[c] \cup Target(c)
      /\ \A o \in Calls \ {c} : pc'[o] = pc[o] /\ held'[o] = held[o]
  BY DEF TypeOK
<1>4. SnapshotOK'
  BY <1>0, <1>1, <1>3 DEF SnapshotOK, InTxn, Saving
<1>5. HeldOK'
  <2> SUFFICES ASSUME NEW d \in Calls PROVE HeldOK!(d)'
    BY DEF HeldOK
  <2>0. HeldOK!(d)
    BY DEF HeldOK
  <2>1. CASE d # c
    BY <2>0, <2>1, <1>3
  <2>2. CASE d = c
    <3> DEFINE r == request[c]
               v == snap[c]
    <3>1. CASE pc[c] = "source"
      <4>1. held'[c] = SourceDocs(r, v)
        BY <1>3, <2>0, <2>2, <3>1 DEF Target, SourceDocs
      <4>2. r.type # "transfer" => DestDocs(r) = {}
        BY DEF DestDocs
      <4>3. pc'[c] = IF r.type = "transfer" THEN "dest" ELSE "part"
        BY <1>3, <3>1 DEF NextStep
      <4> QED BY <2>2, <4>1, <4>2, <4>3 DEF InTxn, Saving
    <3>2. CASE pc[c] = "dest"
      <4>1. held'[c] = SourceDocs(r, v) \cup DestDocs(r)
        BY <1>3, <2>0, <2>2, <3>2 DEF Target, DestDocs, SnapshotOK
      <4>2. pc'[c] = "part"
        BY <1>3, <3>2 DEF NextStep
      <4> QED BY <2>2, <4>1, <4>2 DEF InTxn, Saving
    <3>3. CASE pc[c] = "part"
      <4>1. held'[c] = SourceDocs(r, v) \cup DestDocs(r) \cup PartDocs(r, v)
        BY <1>3, <2>0, <2>2, <3>3 DEF Target, PartDocs
      <4>2. pc'[c] = "record"
        BY <1>3, <3>3 DEF NextStep
      <4> QED BY <2>2, <4>1, <4>2 DEF InTxn, Saving
    <3>4. CASE pc[c] = "record"
      <4>1. held'[c] = SourceDocs(r, v) \cup DestDocs(r) \cup PartDocs(r, v) \cup KeyDocs(r)
        BY <1>3, <2>0, <2>2, <3>4 DEF Target, KeyDocs
      <4>2. pc'[c] = "commit"
        BY <1>3, <3>4 DEF NextStep
      <4> QED BY <2>2, <4>1, <4>2 DEF InTxn, Saving
    <3> QED BY <3>1, <3>2, <3>3, <3>4 DEF Saving
  <2> QED BY <2>1, <2>2
<1>6. LocksOK'
  BY <1>3 DEF LocksOK, IsFree
<1>7. FreshOK'
  BY <1>0, <1>3 DEF FreshOK, InTxn, Saving
<1> QED BY <1>2, <1>4, <1>5, <1>6, <1>7

----------------------------------------------------------------------------

\* What a commit finds: the key is unused, and the committed store agrees with
\* the snapshot on every document the operation changes.
LEMMA CommitFindsFresh ==
    ASSUME IInv, NEW c \in Calls, pc[c] = "commit",
           NEW r, r = request[c], NEW v, v = snap[c]
    PROVE  /\ r \in Requests /\ v \in Views /\ ~Refused(r, v)
           /\ held[c] = SourceDocs(r, v) \cup DestDocs(r) \cup PartDocs(r, v) \cup KeyDocs(r)
           /\ r.key \in Keys /\ txs[r.key] = NoEntry
           /\ \A l \in held[c] \cap Locations :
                  stock[l] = v.stock[l] /\ (l \in items <=> l \in v.items)
           /\ held[c] \cap Locations = SourceDocs(r, v) \cup DestDocs(r)
           /\ Part \in held[c] => part = v.part
           /\ Part \notin held[c] => PartChange(r, v) = 0
           /\ v.items \subseteq items
<1> USE DEF IInv
<1>1. /\ r \in Requests /\ v \in Views /\ ~Refused(r, v)
      /\ held[c] = SourceDocs(r, v) \cup DestDocs(r) \cup PartDocs(r, v) \cup KeyDocs(r)
  BY DEF SnapshotOK, HeldOK, InTxn, Saving
<1>2. r.key \in Keys
  BY <1>1, RequestsAssumption DEF RequestType
<1>3. held[c] \cap stale[c] = {}
  BY DEF LocksOK
<1>4. r.key \in held[c]
  BY <1>1, <1>2 DEF KeyDocs
<1>5. txs[r.key] = NoEntry /\ v.items \subseteq items
  BY <1>3, <1>4 DEF FreshOK, InTxn
<1>6. \A l \in held[c] \cap Locations :
          stock[l] = v.stock[l] /\ (l \in items <=> l \in v.items)
  BY <1>3 DEF FreshOK, InTxn
<1>7. held[c] \cap Locations = SourceDocs(r, v) \cup DestDocs(r)
  BY <1>1, DocumentsAssumption DEF SourceDocs, DestDocs, PartDocs, KeyDocs
<1>8. Part \in held[c] => part = v.part
  BY <1>3 DEF FreshOK, InTxn
<1>9. Part \notin held[c] => PartChange(r, v) = 0
  BY <1>1 DEF PartDocs, SavesPart
<1> QED BY <1>1, <1>2, <1>5, <1>6, <1>7, <1>8, <1>9

\* So a commit moves every quantity by the change the operation computed, as
\* if it had read the store at this instant.
LEMMA CommitAddsEffect ==
    ASSUME IInv, NEW c \in Calls, Commit(c),
           NEW r, r = request[c], NEW v, v = snap[c]
    PROVE  /\ stock' = [l \in Locations |-> stock[l] + Effect(r, v)[l]]
           /\ part' = part + PartChange(r, v)
<1>0. pc[c] = "commit"
  BY DEF Commit
<1>1. /\ r \in Requests /\ v \in Views /\ ~Refused(r, v)
      /\ held[c] \cap Locations = SourceDocs(r, v) \cup DestDocs(r)
      /\ \A l \in held[c] \cap Locations : stock[l] = v.stock[l]
      /\ Part \in held[c] => part = v.part
      /\ Part \notin held[c] => PartChange(r, v) = 0
  BY <1>0, CommitFindsFresh
<1>2. stock \in [Locations -> Nat] /\ part \in Nat
  BY DEF IInv, TypeOK
<1>3. \A l \in Locations \ held[c] : Effect(r, v)[l] = 0
  BY <1>1, EffectIsWritten
<1>4. ASSUME NEW l \in Locations
      PROVE  (IF l \in held[c] THEN StockAfter(r, v)[l] ELSE stock[l])
                 = stock[l] + Effect(r, v)[l]
  BY <1>1, <1>2, <1>3 DEF StockAfter
<1>5. stock' = [l \in Locations |->
                   IF l \in held[c] THEN StockAfter(r, v)[l] ELSE stock[l]]
  BY DEF Commit
<1>6. stock' = [l \in Locations |-> stock[l] + Effect(r, v)[l]]
  BY <1>4, <1>5
<1>7. part' = part + PartChange(r, v)
  BY <1>1, <1>2 DEF Commit, PartAfter
<1> QED BY <1>6, <1>7

LEMMA CommitInv ==
    ASSUME IInv, NEW c \in Calls, Commit(c)
    PROVE  IInv'
<1> DEFINE r == request[c]
           v == snap[c]
<1>0. pc[c] = "commit"
  BY DEF Commit
<1>1. /\ r \in Requests /\ v \in Views /\ ~Refused(r, v)
      /\ held[c] = SourceDocs(r, v) \cup DestDocs(r) \cup PartDocs(r, v) \cup KeyDocs(r)
      /\ r.key \in Keys
  BY <1>0, CommitFindsFresh
<1>2. /\ StockAfter(r, v) \in [Locations -> Nat] /\ PartAfter(r, v) \in Nat
      /\ Effect(r, v) \in [Locations -> Int] /\ Entry(r, v) \in EntryType
  BY <1>1, OpTyping, EntryTyping
<1>3. TypeOK'
  BY <1>1, <1>2 DEF IInv, TypeOK, Commit, Go, Steps, Docs
<1>4. /\ pc'[c] = "committed" /\ held'[c] = {} /\ request' = request
      /\ \A o \in Calls \ {c} :
            /\ pc'[o] = pc[o] /\ held'[o] = held[o] /\ snap'[o] = snap[o]
            /\ pc[o] \in InTxn => stale'[o] = stale[o] \cup held[c]
            /\ pc[o] \notin InTxn => stale'[o] = stale[o]
  BY DEF IInv, TypeOK, Commit, Go
<1>5. "committed" \notin InTxn
  BY DEF InTxn, Saving
<1>6. SnapshotOK'
  BY <1>0, <1>4, <1>5 DEF IInv, SnapshotOK
<1>7. HeldOK'
  <2> SUFFICES ASSUME NEW d \in Calls PROVE HeldOK!(d)'
    BY DEF HeldOK
  <2>1. CASE d = c
    BY <2>1, <1>4, <1>5 DEF InTxn, Saving
  <2>2. CASE d # c
    <3>1. HeldOK!(d)
      BY DEF IInv, HeldOK
    <3> QED BY <2>2, <3>1, <1>4
  <2> QED BY <2>1, <2>2
<1>8. LocksOK'
  BY <1>4 DEF IInv, LocksOK, HeldOK
<1>9. FreshOK'
  <2> SUFFICES ASSUME NEW d \in Calls, pc'[d] \in InTxn
               PROVE  FreshOK!(d)'
    BY DEF FreshOK
  <2>1. /\ d # c /\ pc[d] \in InTxn /\ stale'[d] = stale[d] \cup held[c]
        /\ snap'[d] = snap[d] /\ request'[d] = request[d]
    BY <1>4, <1>5
  <2>2. FreshOK!(d)
    BY <2>1 DEF IInv, FreshOK
  <2>3. \A l \in Locations \ stale'[d] :
            stock'[l] = stock[l] /\ (l \in items' <=> l \in items)
    BY <2>1 DEF Commit
  <2>4. Part \notin stale'[d] => part' = part
    BY <2>1 DEF Commit
  <2>5. request[d].key \notin stale'[d] => txs'[request[d].key] = txs[request[d].key]
    <3>1. request[d].key \in Keys
      BY <2>1, RequestsAssumption DEF IInv, SnapshotOK, RequestType, InTxn, Saving
    <3>2. r.key \in held[c]
      BY <1>1 DEF KeyDocs
    <3> QED BY <2>1, <3>1, <3>2 DEF Commit, IInv, TypeOK
  <2>6. items \subseteq items'
    BY DEF Commit
  <2> QED BY <2>1, <2>2, <2>3, <2>4, <2>5, <2>6
<1> QED BY <1>3, <1>6, <1>7, <1>8, <1>9 DEF IInv

----------------------------------------------------------------------------

LEMMA NextInv == IInv /\ [Next]_vars => IInv'
<1> SUFFICES ASSUME IInv, [Next]_vars PROVE IInv'
  OBVIOUS
<1>1. ASSUME NEW c \in Calls, NEW r \in Requests, Submit(c, r) PROVE IInv'
  BY <1>1, SubmitInv
<1>2. ASSUME NEW c \in Calls, Work(c) PROVE IInv'
  BY <1>2, ReplayInv, RefuseInv, BeginInv, SaveInv, ConflictInv, CommitInv, AnswerInv
  DEF Work
<1>3. ASSUME NEW c \in Calls, Crash(c) PROVE IInv'
  BY <1>3, CrashInv
<1>4. CASE UNCHANGED vars
  BY <1>4 DEF vars, store, IInv, TypeOK, SnapshotOK, HeldOK, LocksOK, FreshOK
<1> QED BY <1>1, <1>2, <1>3, <1>4 DEF Next, Done

LEMMA Invariance == Spec => []IInv
BY InitInv, NextInv, PTL DEF Spec

\* Every variable keeps its type: in particular no quantity, at a location or of
\* the part, ever becomes negative, whatever calls run together.
THEOREM TypeCorrect == Spec => []TypeOK
<1>1. IInv => TypeOK
  BY DEF IInv
<1> QED BY <1>1, Invariance, PTL
----------------------------------------------------------------------------

\* No interleaving of calls, conflicts, retries and crashes loses an update: the
\* history of a location always adds up to the change of its quantity.
THEOREM HistoryIsComplete == Spec => []HistoryExplainsStock
<1>1. Init => HistoryExplainsStock
  <2> SUFFICES ASSUME Init, NEW l \in Locations
               PROVE  stock[l] = InitialStock[l] + history[l]
    BY DEF HistoryExplainsStock
  <2>1. stock[l] = InitialStock[l] /\ history[l] = 0
    BY DEF Init
  <2>2. InitialStock[l] \in Nat
    BY InitialAssumption
  <2> QED BY <2>1, <2>2
<1>2. IInv /\ HistoryExplainsStock /\ [Next]_vars => HistoryExplainsStock'
  <2> SUFFICES ASSUME IInv, HistoryExplainsStock, [Next]_vars
               PROVE  HistoryExplainsStock'
    OBVIOUS
  <2>1. CASE UNCHANGED store
    BY <2>1 DEF store, HistoryExplainsStock
  <2>2. ASSUME NEW c \in Calls, Commit(c) PROVE HistoryExplainsStock'
    <3> DEFINE r == request[c]
               v == snap[c]
    <3>1. r \in Requests /\ v \in Views /\ ~Refused(r, v)
      BY <2>2, CommitFindsFresh DEF Commit
    <3>2. Effect(r, v) \in [Locations -> Int]
      BY <3>1, OpTyping
    <3>3. stock' = [l \in Locations |-> stock[l] + Effect(r, v)[l]]
      BY <2>2, CommitAddsEffect
    <3>4. history' = [l \in Locations |-> history[l] + Effect(r, v)[l]]
      BY <2>2 DEF Commit
    <3>5. stock \in [Locations -> Nat] /\ history \in [Locations -> Int]
      BY DEF IInv, TypeOK
    <3> QED BY <3>2, <3>3, <3>4, <3>5, InitialAssumption DEF HistoryExplainsStock
  <2>3. UNCHANGED store \/ \E c \in Calls : Commit(c)
    BY DEF Next, Done, vars, Submit, Work, Replay, Refuse, Begin, Save, Conflict,
           Answer, Crash
  <2> QED BY <2>1, <2>2, <2>3
<1> QED BY <1>1, <1>2, Invariance, PTL DEF Spec

----------------------------------------------------------------------------

\* What an operation adds at the locations adds up to what it adds to the part:
\* a transfer takes from one location what it gives to the other.
LEMMA EffectSum ==
    ASSUME NEW r \in Requests, NEW v \in Views, ~Refused(r, v)
    PROVE  Total(Effect(r, v), Locations) = PartChange(r, v)
<1> DEFINE f == Effect(r, v)
           rest == Locations \ {r.loc}
<1>1. ValidRequest(r) /\ r.loc \in Locations /\ r.to \in Locations /\ r.qty \in Int
    BY RequestsAssumption DEF RequestType
<1>2. Change(r, v) \in Int /\ f \in [Locations -> Int]
    BY OpTyping
<1>3. /\ f[r.loc] = Change(r, v)
      /\ r.to # r.loc => f[r.to] = r.qty
      /\ \A l \in Locations : l # r.loc /\ l # r.to => f[l] = 0
    BY <1>1 DEF Effect
<1>4. /\ IsFiniteSet(Locations) /\ IsFiniteSet(rest) /\ IsFiniteSet(rest \ {r.to})
      /\ IntOn(f, Locations) /\ IntOn(f, rest)
    BY <1>2, FinitenessAssumption, FS_Subset, rest \subseteq Locations,
       rest \ {r.to} \subseteq Locations DEF IntOn
<1> HIDE DEF f
<1>5. Total(f, Locations) = Change(r, v) + Total(f, rest) /\ Total(f, rest) \in Int
    BY <1>1, <1>3, <1>4, TotalSplit
<1>6. CASE r.type = "transfer"
  <2>1. r.to \in rest /\ r.to # r.loc
      BY <1>1, <1>6 DEF ValidRequest
  <2>2. Total(f, rest) = f[r.to] + Total(f, rest \ {r.to})
      BY <1>4, <2>1, TotalSplit
  <2>3. Total(f, rest \ {r.to}) = 0
      BY <1>3, <1>4, TotalZero
  <2>4. PartChange(r, v) = 0 /\ Change(r, v) = -r.qty
      BY <1>6 DEF PartChange, Change
  <2> QED BY <1>1, <1>3, <1>5, <2>1, <2>2, <2>3, <2>4 DEF f
<1>7. CASE r.type # "transfer"
  <2>1. r.to = r.loc
      BY <1>1, <1>7 DEF ValidRequest
  <2>2. Total(f, rest) = 0
      BY <1>3, <1>4, <2>1, TotalZero
  <2>3. PartChange(r, v) = Change(r, v)
      BY <1>7 DEF PartChange
  <2> QED BY <1>2, <1>5, <2>2, <2>3 DEF f
<1> QED BY <1>6, <1>7

\* A call that saves the part and its locations in separate statements never moves
\* one without the other.
THEOREM PartAndStock == Spec => []PartMovesWithStock
<1>1. Init => PartMovesWithStock
    BY DEF Init, PartMovesWithStock
<1>2. IInv /\ PartMovesWithStock /\ [Next]_vars => PartMovesWithStock'
  <2> SUFFICES ASSUME IInv, PartMovesWithStock, [Next]_vars
               PROVE  PartMovesWithStock'
      OBVIOUS
  <2>1. CASE UNCHANGED store
      BY <2>1 DEF store, PartMovesWithStock
  <2>2. ASSUME NEW c \in Calls, Commit(c) PROVE PartMovesWithStock'
    <3> DEFINE r == request[c]
               v == snap[c]
               e == Effect(r, v)
               d == PartChange(r, v)
    <3>1. r \in Requests /\ v \in Views /\ ~Refused(r, v)
        BY <2>2, CommitFindsFresh DEF Commit
    <3>2. e \in [Locations -> Int] /\ d \in Int
        BY <3>1, OpTyping
    <3>3. Total(e, Locations) = d
        BY <3>1, EffectSum
    <3>4. /\ stock' = [l \in Locations |-> stock[l] + e[l]]
          /\ part' = part + d
        BY <2>2, CommitAddsEffect
    <3>5. stock \in [Locations -> Nat] /\ part \in Nat
        BY DEF IInv, TypeOK
    <3> HIDE DEF r, v, e, d
    <3>6. /\ IntOn(stock, Locations) /\ IntOn(e, Locations)
          /\ \A l \in Locations : stock'[l] = stock[l] + e[l]
        BY <3>2, <3>4, <3>5 DEF IntOn
    <3>7. Total(stock', Locations) = Total(stock, Locations) + d
        BY <3>3, <3>6, FinitenessAssumption, TotalPlus
    <3>8. Total(stock, Locations) \in Int
        BY <3>6, FinitenessAssumption, TotalSplit
    <3>9. SumFunction(stock) = Total(stock, Locations)
      <4>1. DOMAIN stock = Locations
          BY <3>5
      <4> QED BY <4>1, SumFunctionIs
    <3>10. SumFunction(stock') = Total(stock', Locations)
      <4>1. DOMAIN stock' = Locations
          BY <3>4
      <4> QED BY <4>1, SumFunctionIs
    <3>11. part' - SumFunction(stock') = part - SumFunction(stock)
        BY <3>2, <3>4, <3>5, <3>7, <3>8, <3>9, <3>10
    <3> QED BY <3>11 DEF PartMovesWithStock
  <2>3. UNCHANGED store \/ \E c \in Calls : Commit(c)
      BY DEF Next, Done, vars, Submit, Work, Replay, Refuse, Begin, Save, Conflict,
             Answer, Crash
  <2> QED BY <2>1, <2>2, <2>3
<1> QED BY <1>1, <1>2, Invariance, PTL DEF Spec

\* What a transaction says of a location is a number; the one booked for an
\* operation says what the operation adds there.
LEMMA BookedIsEffect ==
    /\ \A e \in EntryType \cup {NoEntry}, l \in Locations : BookedAt(e, l) \in Int
    /\ \A r \in Requests, v \in Views : ~Refused(r, v) =>
           \A l \in Locations : BookedAt(Entry(r, v), l) = Effect(r, v)[l]
<1>1. ASSUME NEW e \in EntryType \cup {NoEntry}, NEW l \in Locations
      PROVE  BookedAt(e, l) \in Int
  <2>1. CASE e = NoEntry
      BY <2>1 DEF BookedAt
  <2>2. CASE e \in EntryType
    <3>1. e.qty \in Int /\ e.delta \in Int
        BY <2>2 DEF EntryType
    <3> QED BY <3>1 DEF BookedAt
  <2> QED BY <2>1, <2>2
<1>2. ASSUME NEW r \in Requests, NEW v \in Views, ~Refused(r, v), NEW l \in Locations
      PROVE  BookedAt(Entry(r, v), l) = Effect(r, v)[l]
  <2>1. ValidRequest(r) /\ r.loc \in Locations /\ r.to \in Locations
      BY RequestsAssumption DEF RequestType
  <2>2. Entry(r, v) # NoEntry
      BY <1>2, EntryTyping
  <2>3. /\ Entry(r, v).type = r.type /\ Entry(r, v).loc = r.loc
        /\ Entry(r, v).to = r.to /\ Entry(r, v).qty = r.qty
        /\ Entry(r, v).delta = PartChange(r, v)
      BY DEF Entry
  <2>4. CASE r.type = "transfer"
    <3>1. Change(r, v) = -r.qty /\ r.loc # r.to
        BY <2>1, <2>4 DEF Change, ValidRequest
    <3> QED BY <2>2, <2>3, <2>4, <3>1 DEF BookedAt, Effect
  <2>5. CASE r.type # "transfer"
    <3>1. PartChange(r, v) = Change(r, v) /\ r.loc = r.to
        BY <2>1, <2>5 DEF PartChange, ValidRequest
    <3> QED BY <2>2, <2>3, <2>5, <3>1 DEF BookedAt, Effect
  <2> QED BY <2>4, <2>5
<1> QED BY <1>1, <1>2

\* Every piece of the history of a location is in exactly one transaction: a key
\* that calls send twice, together or in turn, is booked once.
THEOREM BookedOnce == Spec => []BookingsExplainHistory
<1> DEFINE booked(l) == [k \in Keys |-> BookedAt(txs[k], l)]
<1>1. Init => BookingsExplainHistory
  <2> SUFFICES ASSUME Init, NEW l \in Locations
               PROVE  history[l] = SumFunction(booked(l))
      BY DEF BookingsExplainHistory
  <2>1. history[l] = 0 /\ \A k \in Keys : booked(l)[k] = 0
      BY DEF Init, BookedAt
  <2>2. DOMAIN booked(l) = Keys
      OBVIOUS
  <2> HIDE DEF booked
  <2>3. SumFunction(booked(l)) = Total(booked(l), Keys)
      BY <2>2, SumFunctionIs
  <2>4. Total(booked(l), Keys) = 0
      BY <2>1, FinitenessAssumption, TotalZero
  <2> QED BY <2>1, <2>3, <2>4
<1>2. IInv /\ BookingsExplainHistory /\ [Next]_vars => BookingsExplainHistory'
  <2> SUFFICES ASSUME IInv, BookingsExplainHistory, [Next]_vars
               PROVE  BookingsExplainHistory'
      OBVIOUS
  <2>1. CASE UNCHANGED store
    <3>1. history' = history /\ txs' = txs
        BY <2>1 DEF store
    <3> QED BY <3>1 DEF BookingsExplainHistory
  <2>2. ASSUME NEW c \in Calls, Commit(c) PROVE BookingsExplainHistory'
    <3> DEFINE r == request[c]
               v == snap[c]
    <3>1. /\ r \in Requests /\ v \in Views /\ ~Refused(r, v)
          /\ r.key \in Keys /\ txs[r.key] = NoEntry
        BY <2>2, CommitFindsFresh DEF Commit
    <3>2. Entry(r, v) \in EntryType
        BY <3>1, EntryTyping
    <3>3. /\ history' = [l \in Locations |-> history[l] + Effect(r, v)[l]]
          /\ txs' = [txs EXCEPT ![r.key] = Entry(r, v)]
        BY <2>2 DEF Commit
    <3>4. /\ history \in [Locations -> Int]
          /\ txs \in [Keys -> EntryType \cup {NoEntry}]
        BY DEF IInv, TypeOK
    <3>5. Effect(r, v) \in [Locations -> Int]
        BY <3>1, OpTyping
    <3> HIDE DEF r, v
    <3> SUFFICES ASSUME NEW l \in Locations
                 PROVE  history'[l] = SumFunction([k \in Keys |-> BookedAt(txs'[k], l)])
        BY DEF BookingsExplainHistory
    <3> DEFINE f == booked(l)
               g == [k \in Keys |-> BookedAt(txs'[k], l)]
    <3>6. /\ DOMAIN f = Keys /\ DOMAIN g = Keys
          /\ \A k \in Keys : f[k] = BookedAt(txs[k], l) /\ g[k] = BookedAt(txs'[k], l)
        OBVIOUS
    <3>7. \A k \in Keys : txs[k] \in EntryType \cup {NoEntry}
                          /\ txs'[k] \in EntryType \cup {NoEntry}
        BY <3>2, <3>3, <3>4
    <3>8. history[l] = SumFunction(f)
        BY DEF BookingsExplainHistory
    <3> HIDE DEF f, g, booked
    <3>9. IntOn(f, Keys) /\ IntOn(g, Keys)
        BY <3>6, <3>7, BookedIsEffect DEF IntOn
    <3>10. /\ f[r.key] = 0 /\ g[r.key] = Effect(r, v)[l]
           /\ \A k \in Keys : k # r.key => g[k] = f[k]
      <4>1. BookedAt(NoEntry, l) = 0
          BY DEF BookedAt
      <4>2. txs'[r.key] = Entry(r, v) /\ \A k \in Keys : k # r.key => txs'[k] = txs[k]
          BY <3>1, <3>3, <3>4
      <4>3. BookedAt(Entry(r, v), l) = Effect(r, v)[l]
          BY <3>1, BookedIsEffect
      <4> QED BY <3>1, <3>6, <4>1, <4>2, <4>3
    <3>11. /\ Total(g, Keys) = Total(f, Keys) - f[r.key] + g[r.key]
           /\ Total(f, Keys) \in Int
        BY <3>1, <3>9, <3>10, FinitenessAssumption, TotalChange, TotalSplit
    <3>12. SumFunction(f) = Total(f, Keys) /\ SumFunction(g) = Total(g, Keys)
        BY <3>6, SumFunctionIs
    <3>13. history'[l] = history[l] + Effect(r, v)[l] /\ Effect(r, v)[l] \in Int
        BY <3>3, <3>5
    <3>14. history'[l] = SumFunction(g)
        BY <3>8, <3>10, <3>11, <3>12, <3>13
    <3> QED BY <3>14 DEF g
  <2>3. UNCHANGED store \/ \E c \in Calls : Commit(c)
      BY DEF Next, Done, vars, Submit, Work, Replay, Refuse, Begin, Save, Conflict,
             Answer, Crash
  <2> QED BY <2>1, <2>2, <2>3
<1> QED BY <1>1, <1>2, Invariance, PTL DEF Spec
----------------------------------------------------------------------------

\* Whatever calls send one idempotency key, every one that is answered with a
\* record is answered with the record stored under the key.
THEOREM SameKey == Spec => []SameKeySameAnswer
<1>1. Init => SameKeySameAnswer
  BY DEF Init, SameKeySameAnswer, Answered
<1>2. IInv /\ SameKeySameAnswer /\ [Next]_vars => SameKeySameAnswer'
  <2> SUFFICES ASSUME IInv, SameKeySameAnswer, [Next]_vars,
                      NEW d \in Calls, Answered(d)'
               PROVE  (reply[d] = txs[request[d].key])'
    BY DEF SameKeySameAnswer
  <2> USE DEF IInv
  <2>1. CASE UNCHANGED <<pc, request, reply, txs>>
    BY <2>1 DEF SameKeySameAnswer, Answered
  <2>2. ASSUME NEW c \in Calls, Commit(c) PROVE (reply[d] = txs[request[d].key])'
    <3> DEFINE r == request[c]
               v == snap[c]
    <3>1. /\ r \in Requests /\ v \in Views /\ ~Refused(r, v)
          /\ r.key \in Keys /\ txs[r.key] = NoEntry
      BY <2>2, CommitFindsFresh DEF Commit
    <3>2. txs' = [txs EXCEPT ![r.key] = Entry(r, v)] /\ request' = request
      BY <2>2 DEF Commit
    <3>3. CASE d = c
      <4>1. reply'[c] = Entry(r, v)
        BY <2>2 DEF Commit, TypeOK
      <4> QED BY <3>1, <3>2, <3>3, <4>1 DEF TypeOK
    <3>4. CASE d # c
      <4>1. Answered(d) /\ reply'[d] = reply[d]
        BY <2>2, <3>4 DEF Commit, Go, TypeOK, Answered
      <4>2. reply[d] = txs[request[d].key] /\ reply[d] # NoEntry
        BY <4>1, TokensAssumption DEF SameKeySameAnswer, Answered
      <4>3. request[d].key # r.key
        BY <3>1, <4>2
      <4>4. request[d].key \in Keys
        BY <4>1, RequestsAssumption DEF Answered, SnapshotOK, RequestType
      <4> QED BY <3>2, <4>1, <4>2, <4>3, <4>4 DEF TypeOK
    <3> QED BY <3>3, <3>4
  <2>3. ASSUME NEW c \in Calls, Replay(c) PROVE (reply[d] = txs[request[d].key])'
    <3>1. CASE d = c
      BY <2>3, <3>1 DEF Replay, AnswerWith, Existing, store, TypeOK
    <3>2. CASE d # c
      BY <2>3, <3>2 DEF Replay, AnswerWith, Go, store, TypeOK, SameKeySameAnswer, Answered
    <3> QED BY <3>1, <3>2
  <2>4. ASSUME NEW c \in Calls, Refuse(c) \/ Conflict(c) \/ Crash(c)
        PROVE  (reply[d] = txs[request[d].key])'
    <3>1. UNCHANGED <<txs, request>>
      BY <2>4 DEF Refuse, Conflict, Crash, store
    <3>2. d # c
      <4> SUFFICES ASSUME d = c PROVE FALSE
        OBVIOUS
      <4>1. reply'[c] = Failed \/ pc'[c] = "submitted"
        BY <2>4 DEF Refuse, Conflict, Crash, AnswerWith, Go, TypeOK
      <4> QED BY <4>1, TokensAssumption DEF Answered
    <3>3. pc'[d] = pc[d] /\ reply'[d] = reply[d]
      BY <2>4, <3>2 DEF Refuse, Conflict, Crash, AnswerWith, Go, TypeOK
    <3> QED BY <3>1, <3>3 DEF SameKeySameAnswer, Answered
  <2>5. ASSUME NEW c \in Calls, Begin(c) \/ Save(c)
        PROVE  (reply[d] = txs[request[d].key])'
    <3>1. UNCHANGED <<txs, request, reply>>
      BY <2>5 DEF Begin, Save, store
    <3>2. pc'[c] \notin {"committed", "answered"}
      BY <2>5 DEF Begin, Save, Go, NextStep, TypeOK
    <3>3. d # c /\ pc'[d] = pc[d]
      BY <2>5, <3>2 DEF Begin, Save, Go, TypeOK, Answered
    <3> QED BY <3>1, <3>3 DEF SameKeySameAnswer, Answered
  <2>6. ASSUME NEW c \in Calls, Answer(c) PROVE (reply[d] = txs[request[d].key])'
    BY <2>6 DEF Answer, Go, store, TypeOK, SameKeySameAnswer, Answered
  <2>7. ASSUME NEW c \in Calls, NEW r \in Requests, Submit(c, r)
        PROVE  (reply[d] = txs[request[d].key])'
    BY <2>7 DEF Submit, Go, store, TypeOK, SameKeySameAnswer, Answered
  <2> QED BY <2>1, <2>2, <2>3, <2>4, <2>5, <2>6, <2>7 DEF Next, Work, Done, vars, store
<1> QED BY <1>1, <1>2, Invariance, PTL DEF Spec
----------------------------------------------------------------------------

\* What a transaction records is true when it becomes visible: the quantities it
\* gives for the documents it changed are the ones they have then.
THEOREM RecordsTrue == Spec => RecordsAreTrue
<1> DEFINE Truthful ==
        \A k \in Keys : txs[k] = NoEntry /\ txs'[k] # NoEntry =>
            LET e == txs'[k]
            IN  /\ e.type = "transfer" => stock'[e.to] = e.toAfter
                /\ e.type = "transfer" \/ e.delta # 0 => stock'[e.loc] = e.after
                /\ e.type # "transfer" /\ e.delta # 0 => part' = e.partAfter
<1>1. IInv /\ [Next]_vars => Truthful
  <2> SUFFICES ASSUME IInv, [Next]_vars PROVE Truthful
    OBVIOUS
  <2>1. CASE UNCHANGED store
    BY <2>1 DEF store
  <2>2. ASSUME NEW c \in Calls, Commit(c) PROVE Truthful
    <3> DEFINE r == request[c]
               v == snap[c]
    <3>1. /\ r \in Requests /\ v \in Views /\ ~Refused(r, v)
          /\ held[c] = SourceDocs(r, v) \cup DestDocs(r) \cup PartDocs(r, v) \cup KeyDocs(r)
          /\ r.key \in Keys
      BY <2>2, CommitFindsFresh DEF Commit
    <3>2. r.type \in OpTypes /\ r.loc \in Locations /\ r.to \in Locations /\ r.qty \in Int
      BY <3>1, RequestsAssumption DEF RequestType
    <3>3. ValidRequest(r)
      BY <3>1, RequestsAssumption
    <3>4. /\ txs' = [txs EXCEPT ![r.key] = Entry(r, v)]
          /\ stock' = [l \in Locations |->
                          IF l \in held[c] THEN StockAfter(r, v)[l] ELSE stock[l]]
          /\ part' = IF Part \in held[c] THEN PartAfter(r, v) ELSE part
      BY <2>2 DEF Commit
    <3>5. r.type = "transfer" =>
              /\ r.to \in held[c]
              /\ Change(r, v) # 0
      BY <3>1, <3>2, <3>3 DEF DestDocs, Change, ValidRequest
    <3>6. Change(r, v) # 0 => r.loc \in held[c]
      BY <3>1, <3>2 DEF SourceDocs, SavesSource
    <3>7. PartChange(r, v) # 0 => Part \in held[c] /\ Change(r, v) # 0
      BY <3>1 DEF PartDocs, SavesPart, PartChange
    <3>8. /\ r.type = "transfer" => stock'[r.to] = StockAfter(r, v)[r.to]
          /\ r.type = "transfer" \/ PartChange(r, v) # 0 =>
                 stock'[r.loc] = StockAfter(r, v)[r.loc]
          /\ PartChange(r, v) # 0 => part' = PartAfter(r, v)
      BY <3>2, <3>4, <3>5, <3>6, <3>7
    <3> HIDE DEF r, v
    <3> SUFFICES ASSUME NEW k \in Keys, txs[k] = NoEntry, txs'[k] # NoEntry
                 PROVE  LET e == txs'[k]
                        IN  /\ e.type = "transfer" => stock'[e.to] = e.toAfter
                            /\ e.type = "transfer" \/ e.delta # 0 => stock'[e.loc] = e.after
                            /\ e.type # "transfer" /\ e.delta # 0 => part' = e.partAfter
      OBVIOUS
    <3>9. txs'[k] = Entry(r, v)
      BY <3>4 DEF IInv, TypeOK
    <3> QED BY <3>8, <3>9 DEF Entry
  <2>3. UNCHANGED store \/ \E c \in Calls : Commit(c)
    BY DEF Next, Done, vars, Submit, Work, Replay, Refuse, Begin, Save, Conflict,
           Answer, Crash
  <2> QED BY <2>1, <2>2, <2>3
<1>2. Truthful => [Truthful]_vars
  OBVIOUS
<1> QED BY <1>1, Invariance, PTL DEF Spec, RecordsAreTrue

----------------------------------------------------------------------------

\* A commit is one step of the promise: if the operation found a count to be
\* right it is CountAgrees, else it is Apply on the store of this instant.
LEMMA CommitKeepsPromise ==
    ASSUME IInv, NEW c \in Calls, Commit(c)
    PROVE  Promise!Next
<1> DEFINE r == request[c]
           v == snap[c]
           s == Store
<1>1. /\ r \in Requests /\ v \in Views /\ ~Refused(r, v)
      /\ r.key \in Keys /\ txs[r.key] = NoEntry
      /\ \A l \in held[c] \cap Locations :
             stock[l] = v.stock[l] /\ (l \in items <=> l \in v.items)
      /\ held[c] \cap Locations = SourceDocs(r, v) \cup DestDocs(r)
      /\ held[c] = SourceDocs(r, v) \cup DestDocs(r) \cup PartDocs(r, v) \cup KeyDocs(r)
      /\ Part \in held[c] => part = v.part
      /\ v.items \subseteq items
  BY CommitFindsFresh DEF Commit
<1>2. /\ r.type \in OpTypes /\ r.loc \in Locations /\ r.to \in Locations
      /\ r.qty \in Int /\ ValidRequest(r)
  BY <1>1, RequestsAssumption DEF RequestType
<1>3. /\ items \subseteq Locations /\ stock \in [Locations -> Nat] /\ part \in Nat
      /\ txs \in [Keys -> EntryType \cup {NoEntry}]
      /\ v.stock \in [Locations -> Nat] /\ v.part \in Nat
  BY <1>1 DEF IInv, TypeOK, Views
<1>4. /\ s.items = items /\ s.stock = stock /\ s.part = part
  BY DEF Store
<1>5. /\ stock' = [l \in Locations |-> stock[l] + Effect(r, v)[l]]
      /\ part' = part + PartChange(r, v)
      /\ history' = [l \in Locations |-> history[l] + Effect(r, v)[l]]
      /\ items' = items \cup (held[c] \cap Locations)
      /\ txs' = [txs EXCEPT ![r.key] = Entry(r, v)]
  <2>1. /\ stock' = [l \in Locations |-> stock[l] + Effect(r, v)[l]]
        /\ part' = part + PartChange(r, v)
    BY CommitAddsEffect
  <2>2. /\ history' = [l \in Locations |-> history[l] + Effect(r, v)[l]]
        /\ items' = items \cup (held[c] \cap Locations)
        /\ txs' = [txs EXCEPT ![r.key] = Entry(r, v)]
    BY DEF Commit
  <2> QED BY <2>1, <2>2
<1>6. r.loc \in held[c] \/ r.loc \in items
  BY <1>1, <1>2 DEF SourceDocs, SavesSource
<1>7. Bookings[r.key] = NoEntry
  BY <1>1 DEF Bookings
<1>8. Bookings' = [Bookings EXCEPT ![r.key] = Promise!Booking(r, PartChange(r, v))]
  <2>1. Entry(r, v) # NoEntry
    BY <1>1, EntryTyping
  <2>2. ASSUME NEW k \in Keys
        PROVE  Bookings'[k] = IF k = r.key THEN Promise!Booking(r, PartChange(r, v))
                              ELSE Bookings[k]
    BY <2>1, <1>3, <1>5 DEF Bookings, Promise!Booking, Entry
  <2> QED BY <2>2 DEF Bookings
<1>9. CASE r.type = "stock_count" /\ Change(r, v) = 0
  <2>1. r.to = r.loc /\ PartChange(r, v) = 0
    BY <1>2, <1>9 DEF ValidRequest, PartChange
  <2>2. items' = items \cup {r.loc}
    BY <1>1, <1>2, <1>5, <1>6, <1>9 DEF SourceDocs, DestDocs
  <2>3. \A l \in Locations : Effect(r, v)[l] = 0
    BY <1>9, <2>1 DEF Effect
  <2>4. stock' = stock /\ part' = part /\ history' = history
    BY <1>3, <1>5, <2>1, <2>3 DEF IInv, TypeOK
  <2>5. Promise!CountAgrees(r)
    BY <1>7, <1>8, <1>9, <2>1, <2>2, <2>4 DEF Promise!CountAgrees
  <2> QED BY <1>1, <2>5 DEF Promise!Next
<1>10. CASE ~(r.type = "stock_count" /\ Change(r, v) = 0)
  <2>1. Change(r, v) # 0
    BY <1>2, <1>10 DEF Change, ValidRequest, OpTypes
  <2>2. r.loc \in held[c] /\ r.loc \in Locations
    BY <1>1, <1>2, <2>1 DEF SourceDocs, SavesSource
  <2>3. stock[r.loc] = v.stock[r.loc] /\ (r.loc \in items <=> r.loc \in v.items)
    BY <1>1, <2>2
  <2>4. r.type # "transfer" => part = v.part
    BY <1>1, <2>1 DEF PartDocs, SavesPart, PartChange
  <2>5. Change(r, s) = Change(r, v)
    BY <2>3, <1>4 DEF Change
  <2>6. PartChange(r, s) = PartChange(r, v) /\ Effect(r, s) = Effect(r, v)
    BY <2>5 DEF PartChange, Effect
  <2>7. ~Refused(r, s)
    BY <1>1, <1>4, <2>3, <2>4, <2>5 DEF Refused
  <2>8. items' = items \cup {r.loc, r.to}
    BY <1>1, <1>2, <1>5, <2>2 DEF SourceDocs, DestDocs, ValidRequest
  <2>9. /\ stock' = StockAfter(r, s) /\ part' = PartAfter(r, s)
        /\ history' = [l \in Locations |-> history[l] + Effect(r, s)[l]]
    BY <1>4, <1>5, <2>6 DEF StockAfter, PartAfter
  <2>10. Promise!Apply(r)
    BY <1>7, <1>8, <2>6, <2>7, <2>8, <2>9
    DEF Promise!Apply, Promise!Store, Store, Promise!Refused, Refused,
        Promise!StockAfter, StockAfter, Promise!PartAfter, PartAfter,
        Promise!Effect, Effect, Promise!PartChange, PartChange,
        Promise!Change, Change
  <2> QED BY <1>1, <2>10 DEF Promise!Next
<1> QED BY <1>9, <1>10

\* The transactional ledger implements the promise: every call that commits takes
\* effect at that instant, and every other step of every call is invisible.
THEOREM Implements == Spec => IsStockLedger
<1>1. Init => Promise!Init
  BY DEF Init, Promise!Init, Bookings
<1>2. IInv /\ [Next]_vars => [Promise!Next]_(Promise!vars)
  <2> SUFFICES ASSUME IInv, [Next]_vars
               PROVE  Promise!Next \/ UNCHANGED Promise!vars
    OBVIOUS
  <2>1. CASE UNCHANGED store
    BY <2>1 DEF store, Promise!vars, Bookings
  <2>2. ASSUME NEW c \in Calls, Commit(c) PROVE Promise!Next
    BY <2>2, CommitKeepsPromise
  <2>3. UNCHANGED store \/ \E c \in Calls : Commit(c)
    BY DEF Next, Done, vars, Submit, Work, Replay, Refuse, Begin, Save, Conflict,
           Answer, Crash
  <2> QED BY <2>1, <2>2, <2>3
<1> QED BY <1>1, <1>2, Invariance, PTL DEF Spec, IsStockLedger, Promise!Spec
============================================================================
