-------------------------- MODULE PurchasingProofs --------------------------
(***************************************************************************)
(* Proofs about Purchasing, for any buyers, orders, receipts and faults,   *)
(* beside any calls on the parts of work orders.                           *)
(*                                                                         *)
(* Two arguments meet.  The stock is the part calls' and the receipts':     *)
(* Core of WorkOrderPartsProofs survives a write outside of transactions,   *)
(* and no step of a part call changes what is on hand before its movements. *)
(* The order is the buyers' alone: a save that depends on the lines finds   *)
(* the version it has loaded, which is that very order, and the pieces it   *)
(* adds are in the log already (Counted).                                  *)
(***************************************************************************)
EXTENDS Purchasing, FiniteSums, SequenceTheorems

\* The part calls, with what is proved of them.
PP == INSTANCE WorkOrderPartsProofs

----------------------------------------------------------------------------
\* The invariant.

CallType ==
    [at : {"idle", "loaded", "done"}, req : Asked \cup {None}, doc : OrderType \cup {None},
     puts : Seq(PutType)]

OwnTypes ==
    /\ order \in OrderType
    /\ stocked \subseteq Stocks
    /\ received \in [Stocks -> Nat]
    /\ call \in [Buyers -> CallType]
    /\ faults \in 0 .. MaxFaults
    /\ overwritten \subseteq Stocks

\* The lines of an order say what its receipts say, never more than was ordered,
\* and a draft has none.
OrderSound(o) ==
    /\ o.got = o.receipts
    /\ \A s \in Stocks : o.got[s] <= o.items[s]
    /\ o.status = "draft" => o.got = Blank

\* The lines of a call are those of the receipt it was asked for.
LinesSound(c) ==
    c.puts # <<>> =>
        /\ c.req \in Asked /\ c.req.op = "receive"
        /\ DOMAIN c.puts = DOMAIN c.req.receipts

\* A call has what it loaded: an order that has the version still is the same.
CallSound(c, o) ==
    /\ LinesSound(c)
    /\ c.at = "idle" => c.puts = <<>>
    /\ c.at = "loaded" =>
           /\ c.req \in Asked /\ c.doc \in OrderType
           /\ Accepts(c.req, c.doc)
           /\ c.doc.version <= o.version
           /\ c.doc.version = o.version => c.doc = o
           /\ IF c.req.op = "receive" THEN DOMAIN c.puts = DOMAIN c.req.receipts
              ELSE c.puts = <<>>

\* The pieces of stock s that a call under way has logged.
Quantities(rs) == [i \in DOMAIN rs |-> rs[i].qty]
LoggedLines(c, s) ==
    {i \in DOMAIN c.puts : c.req.receipts[i].part = s /\ c.puts[i].at \in {"part", "done"}}
Logged(c, s) ==
    IF c.at = "loaded" THEN Total(Quantities(c.req.receipts), LoggedLines(c, s)) ELSE 0

\* What the calls under way have logged of stock s, over all of them.
LoggedBy(cl, s) == [b \in Buyers |-> Logged(cl[b], s)]
InHands(cl, s) == Total(LoggedBy(cl, s), Buyers)

\* The log has what the order has, and besides it what the calls under way will
\* add to the order.
Counted == \A s \in Stocks : order.receipts[s] + InHands(call, s) <= received[s]

\* A line of stock s whose movement is not in the log.
Awaiting(cl, x, s) ==
    /\ x[2] \in DOMAIN cl[x[1]].puts
    /\ cl[x[1]].req.receipts[x[2]].part = s
    /\ cl[x[1]].puts[x[2]].at \in {"log", "lost"}

QuantityIn(cl) == [x \in Buyers \X Nat |-> cl[x[1]].req.receipts[x[2]].qty]
AwaitingLines(cl, s) == {x \in Buyers \X Nat : Awaiting(cl, x, s)}
UnloggedIn(cl, s) == Total(QuantityIn(cl), AwaitingLines(cl, s))

\* What is on hand, before the movements of the part calls, is what there was at
\* first and what has been received, logged or not.
Explained ==
    \A s \in Stocks \ overwritten :
        PP!Unmoved(s) = InitialOnHand[s] + received[s] + UnloggedIn(call, s)

IInv ==
    /\ PP!Core
    /\ OwnTypes
    /\ OrderSound(order)
    /\ \A b \in Buyers : CallSound(call[b], order)
    /\ Counted
    /\ Explained

----------------------------------------------------------------------------
\* The part calls of Purchasing are those of WorkOrderPartsProofs: the two
\* instances of WorkOrderParts have the same definitions.

\* What a request finds.
LEMMA SameView ==
    /\ \A r, v : Parts!Found(r, v) = PP!Found(r, v)
    /\ \A r, v : (CHOOSE i \in Parts!Found(r, v) : TRUE) = (CHOOSE i \in PP!Found(r, v) : TRUE)
    /\ \A r, v : Parts!Line(r, v) = PP!Line(r, v)
    /\ Parts!Store = PP!Store
BY Zenon DEF Parts!Line, PP!Line, Parts!Found, PP!Found, Parts!Active, PP!Active,
             Parts!ActiveOf, PP!ActiveOf, Parts!Store, PP!Store

\* The sums.
LEMMA SameSums ==
    /\ \A ls, w : Parts!TotalOf(ls, w) = PP!TotalOf(ls, w)
    /\ \A ls, s : Parts!MapThenSumSet(LAMBDA i : ls[i].reserved, Parts!ActiveOf(ls, s))
                    = PP!MapThenSumSet(LAMBDA i : ls[i].reserved, PP!ActiveOf(ls, s))
    /\ \A S : Parts!Max(S) = PP!Max(S)
BY Zenon DEF Parts!TotalOf, PP!TotalOf, Parts!Active, PP!Active, Parts!ActiveOf, PP!ActiveOf,
             Parts!MapThenSumSet, PP!MapThenSumSet, Parts!MapThenFoldSet, PP!MapThenFoldSet,
             Parts!Max, PP!Max

\* What a call makes of it.
LEMMA SameChanges ==
    /\ \A r, v : Parts!Refused(r, v) <=> PP!Refused(r, v)
    /\ \A m, q : Parts!ReservedChange(m, q) = PP!ReservedChange(m, q)
    /\ \A r : Parts!Move(r) = PP!Move(r)
    /\ \A r, v : Parts!Quantity(r, v) = PP!Quantity(r, v)
    /\ \A r, v : Parts!Stock(r, v) = PP!Stock(r, v)
<1>1. \A r, v : Parts!Refused(r, v) <=> PP!Refused(r, v)
    BY SameView DEF Parts!Refused, PP!Refused
<1>2. \A m, q : Parts!ReservedChange(m, q) = PP!ReservedChange(m, q)
    BY DEF Parts!ReservedChange, PP!ReservedChange
<1>3. \A r : Parts!Move(r) = PP!Move(r)
    BY DEF Parts!Move, PP!Move
<1>4. /\ \A r, v : Parts!Quantity(r, v) = PP!Quantity(r, v)
      /\ \A r, v : Parts!Stock(r, v) = PP!Stock(r, v)
    BY SameView DEF Parts!Quantity, PP!Quantity, Parts!Stock, PP!Stock
<1> QED BY <1>1, <1>2, <1>3, <1>4

\* The documents after it.
LEMMA SameResults ==
    /\ \A r, v : Parts!OnHandAfter(r, v) = PP!OnHandAfter(r, v)
    /\ \A r, v : Parts!ReservedAfter(r, v) = PP!ReservedAfter(r, v)
    /\ \A r, v, ls : Parts!LinesAfter(r, v, ls) = PP!LinesAfter(r, v, ls)
<1>1. \A r, v : Parts!OnHandAfter(r, v) = PP!OnHandAfter(r, v)
    BY SameChanges DEF Parts!OnHandAfter, PP!OnHandAfter
<1>2. \A r, v : Parts!ReservedAfter(r, v) = PP!ReservedAfter(r, v)
    BY SameChanges, SameSums DEF Parts!ReservedAfter, PP!ReservedAfter
<1>3. \A r, v : Parts!LineAfter(r, v) = PP!LineAfter(r, v)
    BY SameView, SameChanges DEF Parts!LineAfter, PP!LineAfter
<1>4. \A r, v, ls : Parts!LinesAfter(r, v, ls) = PP!LinesAfter(r, v, ls)
    BY SameView, <1>3 DEF Parts!LinesAfter, PP!LinesAfter
<1> QED BY <1>1, <1>2, <1>4

\* What a transaction writes.
LEMMA SameWritten ==
    /\ \A c : Parts!NewTotal(c) = PP!NewTotal(c)
    /\ \A c : Parts!SavesOrder(c) <=> PP!SavesOrder(c)
    /\ \A c : Parts!SavesStock(c) <=> PP!SavesStock(c)
    /\ \A c : Parts!Written(c) = PP!Written(c)
<1>1. \A c : Parts!NewTotal(c) = PP!NewTotal(c)
    BY SameSums, SameResults, Zenon DEF Parts!NewTotal, PP!NewTotal
<1>2. \A c : Parts!SavesOrder(c) <=> PP!SavesOrder(c)
    BY <1>1 DEF Parts!SavesOrder, PP!SavesOrder
<1>3. \A c : Parts!SavesStock(c) <=> PP!SavesStock(c)
    BY SameChanges DEF Parts!SavesStock, PP!SavesStock
<1>4. \A c : Parts!Written(c) = PP!Written(c)
  <2> SUFFICES ASSUME NEW c PROVE Parts!Written(c) = PP!Written(c)
      OBVIOUS
  <2>1. \A s : /\ (s = Parts!Stock(request[c], snap[c]) /\ Parts!SavesStock(c))
                     <=> (s = PP!Stock(request[c], snap[c]) /\ PP!SavesStock(c))
      BY <1>3, SameChanges
  <2>2. /\ Parts!Found(request[c], snap[c]) = PP!Found(request[c], snap[c])
        /\ Parts!SavesOrder(c) <=> PP!SavesOrder(c)
      BY <1>2, SameView
  <2> QED BY <2>1, <2>2 DEF Parts!Written, PP!Written
<1> QED BY <1>1, <1>2, <1>3, <1>4

\* The steps.
LEMMA SameSteps ==
    ASSUME NEW c, UseParts(c)
    PROVE  PP!CallStep(c)
<1>1. ASSUME NEW r \in Requests, Parts!Load(c, r) PROVE PP!Load(c, r)
    BY <1>1 DEF Parts!Load, PP!Load, Parts!Go, PP!Go, Parts!store, PP!store
<1>2. Parts!Refuse(c) => PP!Refuse(c)
    BY SameView, SameChanges
       DEF Parts!Refuse, PP!Refuse, Parts!Go, PP!Go, Parts!store, PP!store
<1>3. Parts!Begin(c) => PP!Begin(c)
    BY SameView, SameChanges
       DEF Parts!Begin, PP!Begin, Parts!Go, PP!Go, Parts!store, PP!store
<1>4. Parts!Commit(c) => PP!Commit(c)
    BY SameChanges, SameResults, SameWritten DEF Parts!Commit, PP!Commit, Parts!Go, PP!Go
<1>5. Parts!Conflict(c) => PP!Conflict(c)
    BY SameWritten DEF Parts!Conflict, PP!Conflict, Parts!Go, PP!Go, Parts!EndTxn, PP!EndTxn,
                       Parts!store, PP!store
<1>6. Parts!LoseCommit(c) => PP!LoseCommit(c)
    BY SameWritten DEF Parts!LoseCommit, PP!LoseCommit, Parts!Go, PP!Go, Parts!EndTxn,
                       PP!EndTxn, Parts!store, PP!store
<1>7. Parts!Abandon(c) => PP!Abandon(c)
    BY DEF Parts!Abandon, PP!Abandon, Parts!Go, PP!Go, Parts!EndTxn, PP!EndTxn,
           Parts!store, PP!store
<1> QED BY <1>1, <1>2, <1>3, <1>4, <1>5, <1>6, <1>7 DEF UseParts, PP!CallStep

\* The types and what is assumed.
LEMMA SameTypes ==
    /\ Parts!PartsAssumption => PP!PartsAssumption
    /\ Parts!TypeOK <=> PP!TypeOK
    /\ Parts!ReservedIsOnLines <=> PP!ReservedIsOnLines
    /\ Parts!Init => PP!Init
<1>1. Parts!LineType = PP!LineType /\ Parts!RequestType = PP!RequestType
    BY Zenon DEF Parts!LineType, PP!LineType, Parts!RequestType, PP!RequestType,
                 Parts!Ops, PP!Ops, Parts!Moves, PP!Moves
<1>2. Parts!StoreType = PP!StoreType /\ Parts!Moves = PP!Moves
    BY <1>1, Zenon DEF Parts!StoreType, PP!StoreType, Parts!Moves, PP!Moves
<1>3. Parts!PartsAssumption => PP!PartsAssumption
    BY <1>1, <1>2, Zenon DEF Parts!PartsAssumption, PP!PartsAssumption, Parts!OneActive,
                             PP!OneActive
<1>4. Parts!TypeOK <=> PP!TypeOK
    BY <1>1, <1>2, Zenon DEF Parts!TypeOK, PP!TypeOK
<1>5. Parts!ReservedIsOnLines <=> PP!ReservedIsOnLines
    BY SameSums, Zenon DEF Parts!ReservedIsOnLines, PP!ReservedIsOnLines
<1>6. Parts!Init => PP!Init
    BY Zenon DEF Parts!Init, PP!Init, Parts!Moves, PP!Moves, Parts!TotalOf, PP!TotalOf,
                 Parts!Active, PP!Active, Parts!ActiveOf, PP!ActiveOf, Parts!MapThenSumSet,
                 PP!MapThenSumSet, Parts!MapThenFoldSet, PP!MapThenFoldSet
<1> QED BY <1>3, <1>4, <1>5, <1>6

\* A step of a part call preserves Core, and what is on hand before its movements.
LEMMA PartsStep ==
    ASSUME PP!Core, NEW c \in Calls, UseParts(c)
    PROVE  PP!Core' /\ PP!SamePieces
<1>1. PP!PartsAssumption
    BY SharedAssumption, SameTypes DEF SharedAssumption
<1>2. PP!CallStep(c)
    BY SameSteps
<1> QED BY <1>1, <1>2, PP!CallSteps

----------------------------------------------------------------------------
\* Receipts and orders.

\* The lines of a call.
LEMMA PutsAre ==
    ASSUME NEW c \in CallType
    PROVE  /\ DOMAIN c.puts = 1 .. Len(c.puts) /\ Len(c.puts) \in Nat
           /\ IsFiniteSet(DOMAIN c.puts)
           /\ \A i \in DOMAIN c.puts : i \in Nat /\ c.puts[i] \in PutType
<1>1. c.puts \in Seq(PutType)
    BY DEF CallType
<1>2. DOMAIN c.puts = 1 .. Len(c.puts) /\ Len(c.puts) \in Nat
    BY <1>1, LenProperties
<1>3. IsFiniteSet(1 .. Len(c.puts))
    BY <1>2, FS_Interval
<1>4. \A i \in DOMAIN c.puts : i \in Nat /\ c.puts[i] \in PutType
    BY <1>1, <1>2
<1> QED BY <1>2, <1>3, <1>4

\* The receipts that a call may be asked for.
LEMMA ReceiptsAre ==
    ASSUME NEW r \in Asked
    PROVE  /\ r.receipts \in Seq([part : Stocks, qty : Nat \ {0}])
           /\ DOMAIN r.receipts = 1 .. Len(r.receipts) /\ Len(r.receipts) \in Nat
           /\ IsFiniteSet(DOMAIN r.receipts)
           /\ \A i \in DOMAIN r.receipts :
                  r.receipts[i].part \in Stocks /\ r.receipts[i].qty \in Nat \ {0}
           /\ r.items \in [Stocks -> Nat] /\ r.status \in Statuses
           /\ r.op \in {"edit", "status", "send", "close", "cancel", "receive"}
<1>1. r \in AskedType
    BY PurchasingAssumption DEF PurchasingAssumption
<1>2. /\ r.receipts \in Seq([part : Stocks, qty : Nat \ {0}])
      /\ r.items \in [Stocks -> Nat] /\ r.status \in Statuses
      /\ r.op \in {"edit", "status", "send", "close", "cancel", "receive"}
    BY <1>1 DEF AskedType
<1> DEFINE rs == r.receipts
<1>3. rs \in Seq([part : Stocks, qty : Nat \ {0}])
    BY <1>2
<1> HIDE DEF rs
<1>4. DOMAIN rs = 1 .. Len(rs) /\ Len(rs) \in Nat
    BY <1>3, LenProperties
<1>5. IsFiniteSet(1 .. Len(rs))
    BY <1>4, FS_Interval
<1>6. \A i \in DOMAIN rs : rs[i] \in [part : Stocks, qty : Nat \ {0}]
    BY <1>3, <1>4, ElementOfSeq
<1>7. \A i \in DOMAIN rs : rs[i].part \in Stocks /\ rs[i].qty \in Nat \ {0}
    BY <1>6
<1> QED BY <1>2, <1>4, <1>5, <1>7 DEF rs

\* The smaller of two numbers.
LEMMA MinOfTwo ==
    ASSUME NEW a \in Nat, NEW b \in Nat
    PROVE  Min({a, b}) = IF a <= b THEN a ELSE b
<1> DEFINE m == IF a <= b THEN a ELSE b
<1>1. m \in {a, b} /\ \A y \in {a, b} : m <= y
    OBVIOUS
<1>2. \A x \in {a, b} : (\A y \in {a, b} : x <= y) => x = m
    OBVIOUS
<1> HIDE DEF m
<1>3. (CHOOSE x \in {a, b} : \A y \in {a, b} : x <= y) = m
    BY <1>1, <1>2, Zenon
<1> QED BY <1>3, Zenon DEF Min, m

\* What has arrived for a line is a total of the receipts.
LEMMA ArrivedIsTotal ==
    ASSUME NEW r \in Asked, NEW s, NEW n \in 0 .. Len(r.receipts)
    PROVE  /\ Arrived(r.receipts, s, n)
                = Total(Quantities(r.receipts), {j \in 1 .. n : r.receipts[j].part = s})
           /\ Arrived(r.receipts, s, n) \in Nat
<1> DEFINE rs == r.receipts
           A == {j \in 1 .. n : rs[j].part = s}
           F(h) == [a \in SUBSET A |->
                       IF a = {} THEN 0 ELSE rs[Picked(a)].qty + h[a \ {Picked(a)}]]
           k == CHOOSE h : h = F(h)
<1>1. /\ A \in SUBSET DOMAIN rs /\ IsFiniteSet(A)
      /\ \A i \in DOMAIN rs : rs[i].qty \in Nat
  <2>1. /\ DOMAIN rs = 1 .. Len(rs) /\ Len(rs) \in Nat /\ IsFiniteSet(DOMAIN rs)
        /\ \A i \in DOMAIN rs : rs[i].qty \in Nat
      BY ReceiptsAre
  <2>2. A \in SUBSET DOMAIN rs
      BY <2>1
  <2> QED BY <2>1, <2>2, FS_Subset
<1> HIDE DEF rs
<1>2. ASSUME NEW h PROVE h = F(h) <=> Summing(h, Quantities(rs), A)
  <2>1. ASSUME NEW a \in SUBSET A
        PROVE  (IF a = {} THEN 0 ELSE rs[Picked(a)].qty + h[a \ {Picked(a)}])
                 = (IF a = {} THEN 0 ELSE Quantities(rs)[Picked(a)] + h[a \ {Picked(a)}])
    <3>1. a # {} => Picked(a) \in DOMAIN rs
        BY <1>1 DEF Picked
    <3> QED BY <3>1 DEF Quantities
  <2> QED BY <2>1, Zenon DEF Summing
<1>3. k = F(k)
  <2>1. \E h : h = F(h)
      BY <1>1, <1>2, SummingExists
  <2> QED BY <2>1, Zenon
<1>4. Arrived(rs, s, n) = k[A]
    BY Zenon DEF Arrived, MapThenSumSet, MapThenFoldSet, Picked
<1>5. Summing(k, Quantities(rs), A)
    BY <1>2, <1>3
<1>6. k[A] = Total(Quantities(rs), A)
  <2> HIDE DEF k
  <2> QED BY <1>1, <1>5, TotalIs
<1>7. NatOn(Quantities(rs), A)
    BY <1>1 DEF NatOn, Quantities
<1>8. Total(Quantities(rs), A) \in Nat
    BY <1>1, <1>7, TotalNat
<1>9. Arrived(rs, s, n) = Total(Quantities(rs), A)
    BY <1>4, <1>6, Zenon
<1> HIDE DEF A
<1>10. Arrived(rs, s, n) \in Nat
    BY <1>8, <1>9
<1> QED BY <1>9, <1>10, Zenon DEF rs, A

\* A line never falls, is never overfull and never grows by more than arrives.
LEMMA GotBounds ==
    ASSUME NEW o \in OrderType, OrderSound(o), NEW r \in Asked, NEW s \in Stocks,
           NEW n \in 0 .. Len(r.receipts)
    PROVE  /\ Got(o, r.receipts, s, n) \in Nat
           /\ o.got[s] <= Got(o, r.receipts, s, n)
           /\ Got(o, r.receipts, s, n) <= o.items[s]
           /\ Got(o, r.receipts, s, n) <= o.got[s] + Arrived(r.receipts, s, n)
<1> DEFINE a == Arrived(r.receipts, s, n)
<1>1. a \in Nat
    BY ArrivedIsTotal
<1>2. o.items[s] \in Nat /\ o.got[s] \in Nat /\ o.got[s] <= o.items[s]
    BY DEF OrderType, OrderSound
<1>3. Got(o, r.receipts, s, n) = Min({o.items[s], o.got[s] + a})
    BY Zenon DEF Got
<1> HIDE DEF a
<1>4. o.got[s] + a \in Nat
    BY <1>1, <1>2
<1>5. Min({o.items[s], o.got[s] + a})
          = IF o.items[s] <= o.got[s] + a THEN o.items[s] ELSE o.got[s] + a
    BY <1>2, <1>4, MinOfTwo
<1>6. /\ Got(o, r.receipts, s, n) \in Nat
      /\ o.got[s] <= Got(o, r.receipts, s, n)
      /\ Got(o, r.receipts, s, n) <= o.items[s]
      /\ Got(o, r.receipts, s, n) <= o.got[s] + a
    BY <1>1, <1>2, <1>3, <1>4, <1>5
<1> QED BY <1>6 DEF a

\* The order after a receipt.
LEMMA WithReceiptsIs ==
    ASSUME NEW o \in OrderType, OrderSound(o), NEW r \in Asked
    PROVE  LET n == WithReceipts(o, r.receipts) IN
           /\ n \in OrderType /\ OrderSound(n)
           /\ \A s \in Stocks :
                  n.receipts[s] <= o.receipts[s] + Arrived(r.receipts, s, Len(r.receipts))
<1> DEFINE rs == r.receipts
           got == [s \in Stocks |-> Got(o, rs, s, Len(rs))]
           status == IF \A s \in Stocks : got[s] >= o.items[s]
                     THEN "received" ELSE "partially_received"
           grown == [s \in Stocks |-> o.receipts[s] + got[s] - o.got[s]]
           n == WithReceipts(o, rs)
<1>1. Len(rs) \in 0 .. Len(rs)
    BY ReceiptsAre
<1>2. ASSUME NEW s \in Stocks
      PROVE  /\ got[s] \in Nat /\ o.got[s] <= got[s] /\ got[s] <= o.items[s]
             /\ got[s] <= o.got[s] + Arrived(rs, s, Len(rs))
    BY <1>1, GotBounds
<1>3. got \in [Stocks -> Nat]
    BY <1>2
<1>4. /\ o.got = o.receipts /\ o.got \in [Stocks -> Nat] /\ o.items \in [Stocks -> Nat]
      /\ o.receipts \in [Stocks -> Nat] /\ o.version \in Nat
    BY DEF OrderSound, OrderType
<1>5. n = [o EXCEPT !.got = got, !.receipts = grown, !.status = status]
    BY DEF WithReceipts
<1>6. status \in Statuses \ {"draft"}
    BY DEF Statuses
<1> HIDE DEF got, status, n
<1>7. grown = got
  <2>1. \A s \in Stocks : o.receipts[s] + got[s] - o.got[s] = got[s]
      BY <1>3, <1>4
  <2>2. got = [s \in Stocks |-> got[s]]
      BY <1>3
  <2> QED BY <2>1, <2>2
<1> HIDE DEF grown
<1>8. /\ n \in OrderType /\ n.got = got /\ n.receipts = got /\ n.items = o.items
      /\ n.status = status
    BY <1>3, <1>4, <1>5, <1>6, <1>7 DEF OrderType
<1>9. OrderSound(n)
    BY <1>2, <1>6, <1>8 DEF OrderSound
<1>10. \A s \in Stocks :
           n.receipts[s] <= o.receipts[s] + Arrived(rs, s, Len(rs))
    BY <1>2, <1>4, <1>8
<1> QED BY <1>8, <1>9, <1>10 DEF n, rs

\* No operation gives an order back the status of a draft, but the edit of one.
LEMMA TargetIs ==
    ASSUME NEW r \in Asked, NEW o \in OrderType, Accepts(r, o)
    PROVE  /\ r.op \in {"status", "send", "close", "cancel"} => Target(r) \in Statuses \ {"draft"}
           /\ r.op = "receive" => o.status \in {"sent", "partially_received"}
<1>1. r.op \in {"edit", "status", "send", "close", "cancel", "receive"} /\ r.status \in Statuses
    BY ReceiptsAre
<1>2. o.status \in Statuses
    BY DEF OrderType
<1>3. r.op = "status" => r.status \in Statuses \ {"draft"}
  <2>1. \A status \in Statuses : Allowed(status) \subseteq Statuses \ {"draft"}
    <3> TAKE status \in Statuses
    <3>1. CASE status = "draft"
        BY <3>1 DEF Allowed, Statuses
    <3>2. CASE status = "sent"
        BY <3>2 DEF Allowed, Statuses
    <3>3. CASE status = "partially_received"
        BY <3>3 DEF Allowed, Statuses
    <3>4. CASE status = "received"
        BY <3>4 DEF Allowed, Statuses
    <3>5. CASE status \in {"closed", "canceled"}
        BY <3>5 DEF Allowed, Statuses
    <3> QED BY <3>1, <3>2, <3>3, <3>4, <3>5 DEF Statuses
  <2> QED BY <1>2, <2>1 DEF Accepts
<1>4. r.op \in {"status", "send", "close", "cancel"} => Target(r) \in Statuses \ {"draft"}
    BY <1>1, <1>3 DEF Target, Statuses
<1>5. r.op = "receive" => o.status \in {"sent", "partially_received"}
    BY DEF Accepts
<1> QED BY <1>4, <1>5

\* The order that a save leaves: it has a new version, and only a receipt, of the
\* very order that is there, changes what its receipts say.
LEMMA SavedIs ==
    ASSUME order \in OrderType, OrderSound(order), NEW c \in CallType, CallSound(c, order),
           c.at = "loaded", Current(c)
    PROVE  LET n == Saved(c) IN
           /\ n \in OrderType /\ OrderSound(n) /\ n.version = order.version + 1
           /\ c.req.op # "receive" => n.receipts = order.receipts
           /\ c.req.op = "receive" =>
                  /\ order.status \in {"sent", "partially_received"}
                  /\ \A s \in Stocks :
                         n.receipts[s] <= order.receipts[s]
                             + Arrived(c.req.receipts, s, Len(c.req.receipts))
<1> DEFINE n == Saved(c)
           r == c.req
<1>1. /\ r \in Asked /\ c.doc \in OrderType /\ Accepts(r, c.doc)
      /\ c.doc.version = order.version => c.doc = order
    BY DEF CallSound
<1>2. AsksForVersion(c) => c.doc = order
    BY <1>1 DEF Current
<1>3. /\ r.op \in {"edit", "status", "send", "close", "cancel", "receive"}
      /\ r.items \in [Stocks -> Nat] /\ r.status \in Statuses
    BY <1>1, ReceiptsAre
<1>4. order.version + 1 \in Nat /\ Blank \in [Stocks -> Nat]
    BY DEF OrderType, Blank
<1>5. CASE r.op = "receive"
  <2> DEFINE w == WithReceipts(order, r.receipts)
  <2>1. c.doc = order
      BY <1>2, <1>5 DEF AsksForVersion
  <2>2. n = [w EXCEPT !.version = order.version + 1]
      BY <1>5, <2>1 DEF Saved
  <2>3. /\ w \in OrderType /\ OrderSound(w)
        /\ \A s \in Stocks :
               w.receipts[s] <= order.receipts[s] + Arrived(r.receipts, s, Len(r.receipts))
      BY <1>1, WithReceiptsIs
  <2> HIDE DEF w, n
  <2>4. /\ n \in OrderType /\ n.version = order.version + 1 /\ n.receipts = w.receipts
        /\ n.got = w.got /\ n.items = w.items /\ n.status = w.status
      BY <1>4, <2>2, <2>3 DEF OrderType
  <2>5. OrderSound(n)
      BY <2>3, <2>4 DEF OrderSound
  <2>6. order.status \in {"sent", "partially_received"}
      BY <1>1, <1>5, <2>1, TargetIs
  <2> QED BY <1>5, <2>3, <2>4, <2>5, <2>6 DEF n
<1>6. CASE r.op = "edit" /\ c.doc.status = "draft"
  <2> DEFINE e == [order EXCEPT !.items = r.items, !.got = Blank, !.receipts = Blank,
                                !.status = r.status]
  <2>1. c.doc = order
      BY <1>2, <1>6 DEF AsksForVersion
  <2>2. n = [e EXCEPT !.version = order.version + 1]
      BY <1>6, <2>1 DEF Saved, Edited
  <2>3. /\ e \in OrderType /\ e.got = Blank /\ e.receipts = Blank /\ e.items = r.items
      BY <1>3, <1>4 DEF OrderType
  <2> HIDE DEF e, n
  <2>4. /\ n \in OrderType /\ n.version = order.version + 1 /\ n.receipts = Blank
        /\ n.got = Blank /\ n.items = r.items
      BY <1>4, <2>2, <2>3 DEF OrderType
  <2>5. OrderSound(n)
      BY <1>3, <2>4 DEF OrderSound, Blank
  <2>6. order.receipts = Blank
      BY <1>6, <2>1 DEF OrderSound
  <2> QED BY <1>6, <2>4, <2>5, <2>6 DEF n
<1>7. CASE r.op = "edit" /\ c.doc.status # "draft"
  <2>1. n = [order EXCEPT !.version = order.version + 1]
      BY <1>7 DEF Saved
  <2> HIDE DEF n
  <2>2. /\ n \in OrderType /\ n.version = order.version + 1 /\ n.receipts = order.receipts
        /\ n.got = order.got /\ n.items = order.items /\ n.status = order.status
      BY <1>4, <2>1 DEF OrderType
  <2>3. OrderSound(n)
      BY <2>2 DEF OrderSound
  <2> QED BY <1>7, <2>2, <2>3 DEF n
<1>8. CASE r.op \in {"status", "send", "close", "cancel"}
  <2>1. n = [order EXCEPT !.status = Target(r), !.version = order.version + 1]
      BY <1>8 DEF Saved
  <2>2. Target(r) \in Statuses \ {"draft"}
      BY <1>1, <1>8, TargetIs
  <2> HIDE DEF n
  <2>3. /\ n \in OrderType /\ n.version = order.version + 1 /\ n.receipts = order.receipts
        /\ n.got = order.got /\ n.items = order.items /\ n.status # "draft"
      BY <1>4, <2>1, <2>2 DEF OrderType
  <2>4. OrderSound(n)
      BY <2>3 DEF OrderSound
  <2> QED BY <1>8, <2>3, <2>4 DEF n
<1> QED BY <1>3, <1>5, <1>6, <1>7, <1>8

----------------------------------------------------------------------------
\* The sums over the lines of the calls.

\* The lines of the calls are finitely many and bring pieces.
LEMMA AwaitingAre ==
    ASSUME NEW cl \in [Buyers -> CallType], \A b \in Buyers : LinesSound(cl[b]), NEW s
    PROVE  /\ AwaitingLines(cl, s)
                  = {x \in UNION {{b} \X DOMAIN cl[b].puts : b \in Buyers} :
                        cl[x[1]].req.receipts[x[2]].part = s
                            /\ cl[x[1]].puts[x[2]].at \in {"log", "lost"}}
           /\ IsFiniteSet(AwaitingLines(cl, s))
           /\ NatOn(QuantityIn(cl), AwaitingLines(cl, s))
           /\ \A b \in Buyers : \A i \in DOMAIN cl[b].puts :
                  /\ <<b, i>> \in Buyers \X Nat
                  /\ cl[b].req.receipts[i].part \in Stocks
                  /\ cl[b].req.receipts[i].qty \in Nat
                  /\ QuantityIn(cl)[<<b, i>>] = cl[b].req.receipts[i].qty
<1> DEFINE U == UNION {{b} \X DOMAIN cl[b].puts : b \in Buyers}
<1>1. ASSUME NEW b \in Buyers
      PROVE  /\ IsFiniteSet(DOMAIN cl[b].puts)
             /\ \A i \in DOMAIN cl[b].puts : i \in Nat
    BY PutsAre
<1>2. ASSUME NEW b \in Buyers, NEW i \in DOMAIN cl[b].puts
      PROVE  cl[b].req.receipts[i].part \in Stocks /\ cl[b].req.receipts[i].qty \in Nat
  <2>1. cl[b].puts # <<>>
      BY <1>2
  <2>2. cl[b].req \in Asked /\ i \in DOMAIN cl[b].req.receipts
      BY <2>1 DEF LinesSound
  <2> QED BY <2>2, ReceiptsAre
<1>3. ASSUME NEW b \in Buyers, NEW i \in DOMAIN cl[b].puts
      PROVE  <<b, i>> \in Buyers \X Nat
    BY <1>1
<1>4. \A x : x \in U <=> x \in Buyers \X Nat /\ x[2] \in DOMAIN cl[x[1]].puts
  <2>1. ASSUME NEW x \in U PROVE x \in Buyers \X Nat /\ x[2] \in DOMAIN cl[x[1]].puts
    <3>1. PICK b \in Buyers : x \in {b} \X DOMAIN cl[b].puts
        OBVIOUS
    <3>2. PICK i \in DOMAIN cl[b].puts : x = <<b, i>>
        BY <3>1
    <3> QED BY <3>2, <1>3
  <2>2. ASSUME NEW x \in Buyers \X Nat, x[2] \in DOMAIN cl[x[1]].puts PROVE x \in U
    <3>1. x \in {x[1]} \X DOMAIN cl[x[1]].puts /\ x[1] \in Buyers
        BY <2>2
    <3> QED BY <3>1
  <2> QED BY <2>1, <2>2
<1>5. IsFiniteSet(U)
  <2>1. \A b \in Buyers : IsFiniteSet({b} \X DOMAIN cl[b].puts)
      BY <1>1, FS_Singleton, FS_Product
  <2> DEFINE f == [b \in Buyers |-> {b} \X DOMAIN cl[b].puts]
             W == {f[b] : b \in Buyers}
  <2>2. IsFiniteSet(Buyers)
      BY SharedAssumption DEF SharedAssumption
  <2>3. f \in Surjection(Buyers, W)
      BY DEF Surjection
  <2>4. \A T \in W : IsFiniteSet(T)
      BY <2>1
  <2>5. IsFiniteSet(W)
      BY <2>2, <2>3, FS_Surjection
  <2>6. U = UNION W
      OBVIOUS
  <2> QED BY <2>4, <2>5, <2>6, FS_UNION
<1> HIDE DEF U
<1>6. AwaitingLines(cl, s)
          = {x \in U : cl[x[1]].req.receipts[x[2]].part = s
                           /\ cl[x[1]].puts[x[2]].at \in {"log", "lost"}}
    BY <1>4 DEF AwaitingLines, Awaiting
<1>7. IsFiniteSet(AwaitingLines(cl, s))
    BY <1>5, <1>6, FS_Subset
<1>8. ASSUME NEW b \in Buyers, NEW i \in DOMAIN cl[b].puts
      PROVE  QuantityIn(cl)[<<b, i>>] = cl[b].req.receipts[i].qty
    BY <1>3 DEF QuantityIn
<1>9. NatOn(QuantityIn(cl), AwaitingLines(cl, s))
  <2> SUFFICES ASSUME NEW x \in AwaitingLines(cl, s) PROVE QuantityIn(cl)[x] \in Nat
      BY DEF NatOn
  <2>1. x \in Buyers \X Nat /\ x[1] \in Buyers /\ x[2] \in DOMAIN cl[x[1]].puts
      BY DEF AwaitingLines, Awaiting
  <2>2. QuantityIn(cl)[x] = cl[x[1]].req.receipts[x[2]].qty
      BY <2>1 DEF QuantityIn
  <2> QED BY <2>1, <2>2, <1>2
<1> QED BY <1>2, <1>3, <1>6, <1>7, <1>8, <1>9 DEF U

\* A sum over lines is a total.
LEMMA QuantitiesAreTotal ==
    ASSUME NEW cl, NEW A \in SUBSET (Buyers \X Nat), IsFiniteSet(A)
    PROVE  MapThenSumSet(LAMBDA x : cl[x[1]].req.receipts[x[2]].qty, A)
               = Total(QuantityIn(cl), A)
<1> DEFINE F(h) == [a \in SUBSET A |->
                       IF a = {} THEN 0
                       ELSE cl[Picked(a)[1]].req.receipts[Picked(a)[2]].qty
                                + h[a \ {Picked(a)}]]
           k == CHOOSE h : h = F(h)
<1>1. ASSUME NEW h PROVE h = F(h) <=> Summing(h, QuantityIn(cl), A)
  <2>1. ASSUME NEW a \in SUBSET A
        PROVE  (IF a = {} THEN 0
                ELSE cl[Picked(a)[1]].req.receipts[Picked(a)[2]].qty + h[a \ {Picked(a)}])
                 = (IF a = {} THEN 0 ELSE QuantityIn(cl)[Picked(a)] + h[a \ {Picked(a)}])
    <3>1. a # {} => Picked(a) \in Buyers \X Nat
        BY DEF Picked
    <3> QED BY <3>1, Zenon DEF QuantityIn
  <2> QED BY <2>1, Zenon DEF Summing
<1>2. k = F(k)
  <2>1. \E h : h = F(h)
      BY <1>1, SummingExists
  <2> QED BY <2>1, Zenon
<1>3. MapThenSumSet(LAMBDA x : cl[x[1]].req.receipts[x[2]].qty, A) = k[A]
    BY Zenon DEF MapThenSumSet, MapThenFoldSet, Picked
<1>4. Summing(k, QuantityIn(cl), A)
    BY <1>1, <1>2
<1>5. k[A] = Total(QuantityIn(cl), A)
  <2> HIDE DEF k
  <2> QED BY <1>4, TotalIs
<1> QED BY <1>3, <1>5, Zenon

\* Lines that await their movement as before come to the same sum.
LEMMA UnloggedSame ==
    ASSUME NEW cl \in [Buyers -> CallType], \A b \in Buyers : LinesSound(cl[b]),
           NEW new, NEW s,
           \A x \in Buyers \X Nat :
               /\ Awaiting(new, x, s) <=> Awaiting(cl, x, s)
               /\ Awaiting(cl, x, s) => QuantityIn(new)[x] = QuantityIn(cl)[x]
    PROVE  UnloggedIn(new, s) = UnloggedIn(cl, s)
<1>1. AwaitingLines(new, s) = AwaitingLines(cl, s)
    BY DEF AwaitingLines
<1>2. IsFiniteSet(AwaitingLines(cl, s))
    BY AwaitingAre
<1>3. \A x \in AwaitingLines(cl, s) : QuantityIn(new)[x] = QuantityIn(cl)[x]
    BY DEF AwaitingLines
<1>4. Total(QuantityIn(new), AwaitingLines(cl, s)) = Total(QuantityIn(cl), AwaitingLines(cl, s))
    BY <1>2, <1>3, TotalSame, Zenon
<1> QED BY <1>1, <1>4, Zenon DEF UnloggedIn

\* One line of a call takes a step, and nothing else changes.
LineStep(cl, new, b, i, step) ==
    /\ new \in [Buyers -> CallType]
    /\ \A o \in Buyers \ {b} : new[o] = cl[o]
    /\ new[b].at = cl[b].at /\ new[b].req = cl[b].req /\ new[b].doc = cl[b].doc
    /\ DOMAIN new[b].puts = DOMAIN cl[b].puts
    /\ new[b].puts[i].at = step
    /\ \A j \in DOMAIN cl[b].puts : j # i => new[b].puts[j] = cl[b].puts[j]
    /\ \A o \in Buyers : LinesSound(new[o])

\* That is what the steps of the specification do.
LEMMA StepIsLineStep ==
    ASSUME NEW cl \in [Buyers -> CallType], \A b \in Buyers : LinesSound(cl[b]),
           NEW b \in Buyers, NEW i \in DOMAIN cl[b].puts, NEW p \in PutType, NEW new,
           new = [cl EXCEPT ![b] = [cl[b] EXCEPT !.puts[i] = p]]
    PROVE  LineStep(cl, new, b, i, p.at)
<1> DEFINE c == cl[b]
           puts == [c.puts EXCEPT ![i] = p]
           n == [c EXCEPT !.puts = puts]
<1>1. c \in CallType /\ c.puts \in Seq(PutType) /\ c.puts # <<>> /\ LinesSound(c)
    BY DEF CallType
<1>2. /\ puts \in Seq(PutType) /\ DOMAIN puts = DOMAIN c.puts /\ puts[i] = p
      /\ \A j \in DOMAIN c.puts : j # i => puts[j] = c.puts[j]
    BY <1>1
<1>3. new = [cl EXCEPT ![b] = n]
    OBVIOUS
<1> HIDE DEF puts
<1>4. /\ n \in CallType /\ n.puts = puts /\ n.at = c.at /\ n.req = c.req /\ n.doc = c.doc
    BY <1>1, <1>2 DEF CallType
<1>5. LinesSound(n)
    BY <1>1, <1>2, <1>4 DEF LinesSound
<1> HIDE DEF n, c
<1>6. new[b] = n /\ new \in [Buyers -> CallType] /\ \A o \in Buyers \ {b} : new[o] = cl[o]
    BY <1>3, <1>4
<1>7. \A o \in Buyers : LinesSound(new[o])
    BY <1>5, <1>6
<1> QED BY <1>1, <1>2, <1>4, <1>6, <1>7 DEF LineStep, c

\* The pieces of stock s that line i of a call counts for while it is at one of
\* the steps.
Weight(c, i, s, steps) ==
    IF c.req.receipts[i].part = s /\ c.puts[i].at \in steps THEN c.req.receipts[i].qty ELSE 0

\* What a step of a line does to the pieces that are not in the log.
LEMMA StepUnlogged ==
    ASSUME NEW cl \in [Buyers -> CallType], \A b \in Buyers : LinesSound(cl[b]),
           NEW b \in Buyers, NEW i \in DOMAIN cl[b].puts, NEW new, NEW step,
           LineStep(cl, new, b, i, step), NEW s
    PROVE  /\ UnloggedIn(new, s) = UnloggedIn(cl, s) + Weight(new[b], i, s, {"log", "lost"})
                                       - Weight(cl[b], i, s, {"log", "lost"})
           /\ UnloggedIn(cl, s) \in Nat
<1> DEFINE x == <<b, i>>
           S == AwaitingLines(cl, s)
           f == QuantityIn(cl)
           member == cl[b].req.receipts[i].part = s /\ step \in {"log", "lost"}
<1>1. /\ IsFiniteSet(S) /\ NatOn(f, S)
      /\ x \in Buyers \X Nat /\ f[x] = cl[b].req.receipts[i].qty /\ f[x] \in Nat
    BY AwaitingAre
<1>2. QuantityIn(new) = f
    BY DEF LineStep, QuantityIn
<1>3. AwaitingLines(new, s) = With(S, x, member)
  <2>1. ASSUME NEW y \in Buyers \X Nat, y # x PROVE Awaiting(new, y, s) <=> Awaiting(cl, y, s)
    <3>1. CASE y[1] # b
        BY <3>1 DEF LineStep, Awaiting
    <3>2. CASE y[1] = b
      <4>1. y[2] # i
          BY <2>1, <3>2
      <4> QED BY <3>2, <4>1 DEF LineStep, Awaiting
    <3> QED BY <3>1, <3>2
  <2>2. Awaiting(new, x, s) <=> member
      BY DEF LineStep, Awaiting
  <2>3. \A y : y \in AwaitingLines(new, s) <=> y \in With(S, x, member)
    <3> HIDE DEF x, member
    <3>1. x \in Buyers \X Nat
        BY <1>1
    <3> QED BY <2>1, <2>2, <3>1 DEF AwaitingLines, With
  <2> QED BY <2>3
<1>4. x \in S <=> cl[b].req.receipts[i].part = s /\ cl[b].puts[i].at \in {"log", "lost"}
    BY <1>1 DEF AwaitingLines, Awaiting
<1>5. IntOn(f, S \cup {x}) /\ member \in BOOLEAN
    BY <1>1 DEF IntOn, NatOn
<1>6. Total(f, S) \in Nat
    BY <1>1, TotalNat
<1>7. Weight(cl[b], i, s, {"log", "lost"}) = IF x \in S THEN f[x] ELSE 0
    BY <1>1, <1>4, Zenon DEF Weight
<1>8. Weight(new[b], i, s, {"log", "lost"}) = IF member THEN f[x] ELSE 0
    BY <1>1 DEF Weight, LineStep
<1> HIDE DEF f, x, S, member
<1>9. Total(f, With(S, x, member)) =
          Total(f, S) + (IF member THEN f[x] ELSE 0) - (IF x \in S THEN f[x] ELSE 0)
    BY <1>1, <1>5, TotalWith
<1>10. /\ UnloggedIn(cl, s) = Total(f, S)
       /\ UnloggedIn(new, s) = Total(f, With(S, x, member))
    BY <1>2, <1>3, Zenon DEF UnloggedIn, f, S
<1> QED BY <1>6, <1>7, <1>8, <1>9, <1>10, Zenon

\* What a call has logged is a number of pieces.
LEMMA LoggedNat ==
    ASSUME NEW c \in CallType, LinesSound(c), NEW s
    PROVE  /\ IsFiniteSet(LoggedLines(c, s))
           /\ NatOn(Quantities(c.req.receipts), LoggedLines(c, s))
           /\ Logged(c, s) \in Nat
<1>1. IsFiniteSet(LoggedLines(c, s))
  <2>1. LoggedLines(c, s) \in SUBSET DOMAIN c.puts
      BY DEF LoggedLines
  <2> QED BY <2>1, PutsAre, FS_Subset
<1>2. NatOn(Quantities(c.req.receipts), LoggedLines(c, s))
  <2> SUFFICES ASSUME NEW i \in LoggedLines(c, s) PROVE Quantities(c.req.receipts)[i] \in Nat
      BY DEF NatOn
  <2>1. i \in DOMAIN c.puts /\ c.puts # <<>>
      BY DEF LoggedLines
  <2>2. c.req \in Asked /\ i \in DOMAIN c.req.receipts
      BY <2>1 DEF LinesSound
  <2>3. c.req.receipts[i].qty \in Nat
      BY <2>2, ReceiptsAre
  <2> QED BY <2>2, <2>3 DEF Quantities
<1>3. Total(Quantities(c.req.receipts), LoggedLines(c, s)) \in Nat
    BY <1>1, <1>2, TotalNat
<1> QED BY <1>1, <1>2, <1>3, Zenon DEF Logged

\* What a step of a line does to the pieces that its call has logged.
LEMMA StepLogged ==
    ASSUME NEW cl \in [Buyers -> CallType], \A b \in Buyers : LinesSound(cl[b]),
           NEW b \in Buyers, NEW i \in DOMAIN cl[b].puts, NEW new, NEW step,
           LineStep(cl, new, b, i, step), cl[b].at = "loaded", NEW s
    PROVE  Logged(new[b], s) = Logged(cl[b], s) + Weight(new[b], i, s, {"part", "done"})
                                   - Weight(cl[b], i, s, {"part", "done"})
<1> DEFINE c == cl[b]
           S == LoggedLines(c, s)
           f == Quantities(c.req.receipts)
           member == c.req.receipts[i].part = s /\ step \in {"part", "done"}
<1>1. c \in CallType /\ LinesSound(c)
    OBVIOUS
<1>2. IsFiniteSet(S) /\ NatOn(f, S)
    BY <1>1, LoggedNat
<1>3. f[i] = c.req.receipts[i].qty /\ f[i] \in Nat
  <2>1. c.puts # <<>>
      BY <1>1
  <2>2. c.req \in Asked /\ i \in DOMAIN c.req.receipts
      BY <2>1, <1>1 DEF LinesSound
  <2>3. c.req.receipts[i].qty \in Nat
      BY <2>2, ReceiptsAre
  <2> QED BY <2>2, <2>3 DEF Quantities
<1>4. LoggedLines(new[b], s) = With(S, i, member)
    BY DEF LoggedLines, With, LineStep
<1>5. i \in S <=> c.req.receipts[i].part = s /\ c.puts[i].at \in {"part", "done"}
    BY DEF LoggedLines
<1>6. IntOn(f, S \cup {i}) /\ member \in BOOLEAN
    BY <1>2, <1>3 DEF IntOn, NatOn
<1>7. Weight(c, i, s, {"part", "done"}) = IF i \in S THEN f[i] ELSE 0
    BY <1>3, <1>5, Zenon DEF Weight
<1>8. Weight(new[b], i, s, {"part", "done"}) = IF member THEN f[i] ELSE 0
    BY <1>3 DEF Weight, LineStep
<1>9. new[b].at = "loaded" /\ new[b].req = c.req
    BY DEF LineStep
<1> HIDE DEF f, S, member
<1>10. Total(f, With(S, i, member)) =
          Total(f, S) + (IF member THEN f[i] ELSE 0) - (IF i \in S THEN f[i] ELSE 0)
    BY <1>2, <1>6, TotalWith
<1>11. Logged(c, s) = Total(f, S) /\ Logged(new[b], s) = Total(f, With(S, i, member))
    BY <1>4, <1>9, Zenon DEF Logged, f, S
<1> QED BY <1>7, <1>8, <1>10, <1>11, Zenon

\* What the calls have logged, when one of them changes.
LEMMA HandsStep ==
    ASSUME NEW cl \in [Buyers -> CallType], \A b \in Buyers : LinesSound(cl[b]),
           NEW new \in [Buyers -> CallType], \A b \in Buyers : LinesSound(new[b]),
           NEW b \in Buyers, \A o \in Buyers \ {b} : new[o] = cl[o], NEW s
    PROVE  /\ InHands(new, s) = InHands(cl, s) - Logged(cl[b], s) + Logged(new[b], s)
           /\ InHands(cl, s) \in Nat /\ Logged(cl[b], s) <= InHands(cl, s)
           /\ Logged(cl[b], s) \in Nat /\ Logged(new[b], s) \in Nat
<1> DEFINE f == LoggedBy(cl, s)
           g == LoggedBy(new, s)
<1>1. \A o \in Buyers : Logged(cl[o], s) \in Nat /\ Logged(new[o], s) \in Nat
    BY LoggedNat
<1>2. \A o \in Buyers : f[o] = Logged(cl[o], s) /\ g[o] = Logged(new[o], s)
    BY DEF LoggedBy
<1>3. NatOn(f, Buyers) /\ IntOn(f, Buyers) /\ IntOn(g, Buyers)
    BY <1>1, <1>2 DEF NatOn, IntOn
<1>4. \A o \in Buyers : o # b => g[o] = f[o]
    BY <1>2
<1>5. IsFiniteSet(Buyers)
    BY SharedAssumption DEF SharedAssumption
<1>6. InHands(cl, s) = Total(f, Buyers) /\ InHands(new, s) = Total(g, Buyers)
    BY DEF InHands
<1> HIDE DEF f, g
<1>7. Total(g, Buyers) = Total(f, Buyers) - f[b] + g[b]
    BY <1>3, <1>4, <1>5, TotalChange
<1>8. Total(f, Buyers) \in Nat /\ f[b] <= Total(f, Buyers)
    BY <1>3, <1>5, TotalNat
<1> QED BY <1>1, <1>2, <1>6, <1>7, <1>8, Zenon

----------------------------------------------------------------------------
\* The steps.

\* A step that leaves the stock and the part calls alone.
LEMMA StockStands ==
    ASSUME PP!Core, UNCHANGED partsVars
    PROVE  PP!Core' /\ PP!SamePieces
BY PP!Stuttering, SharedAssumption, SameTypes
   DEF SharedAssumption, partsVars, workorders, PP!vars, PP!store

\* What was on hand before the movements is an integer.
LEMMA UnmovedIsInt ==
    ASSUME PP!TypeOK, NEW s \in Stocks
    PROVE  PP!Unmoved(s) \in Int
<1>1. onHand[s] \in Nat /\ moved[s] \in [PP!Moves -> Nat]
    BY DEF PP!TypeOK
<1>2. moved[s]["reserve"] \in Nat /\ moved[s]["unreserve"] \in Nat /\ moved[s]["return"] \in Nat
    BY <1>1 DEF PP!Moves
<1> QED BY <1>1, <1>2 DEF PP!Unmoved

\* What the order, the log and the lines of one call have to do with one another
\* in a step of that call.
LEMMA BuyStep ==
    ASSUME IInv, NEW b \in Buyers, NEW c \in CallType, call' = [call EXCEPT ![b] = c],
           PP!Core',
           order' \in OrderType, OrderSound(order'), CallSound(c, order'),
           order.version <= order'.version, order'.version = order.version => order' = order,
           stocked' \subseteq Stocks, received' \in [Stocks -> Nat], faults' \in 0 .. MaxFaults,
           overwritten' \subseteq Stocks, overwritten \subseteq overwritten',
           \A s \in Stocks : order'.receipts[s] + received[s] + Logged(c, s)
                                 <= order.receipts[s] + received'[s] + Logged(call[b], s),
           \A s \in Stocks \ overwritten' :
               PP!Unmoved(s)' + received[s] + UnloggedIn(call, s)
                   = PP!Unmoved(s) + received'[s] + UnloggedIn(call', s),
           \A s \in Stocks : UnloggedIn(call, s) \in Nat /\ UnloggedIn(call', s) \in Nat
    PROVE  IInv'
<1>1. /\ call \in [Buyers -> CallType] /\ \A o \in Buyers : CallSound(call[o], order)
      /\ received \in [Stocks -> Nat] /\ order \in OrderType /\ OrderSound(order)
    BY DEF IInv, OwnTypes
<1>2. /\ call' \in [Buyers -> CallType] /\ call'[b] = c
      /\ \A o \in Buyers \ {b} : call'[o] = call[o]
    BY <1>1
<1>3. \A o \in Buyers : CallSound(call'[o], order')
  <2> SUFFICES ASSUME NEW o \in Buyers, o # b PROVE CallSound(call[o], order')
      BY <1>2
  <2>1. CallSound(call[o], order) /\ order.version \in Nat /\ order'.version \in Nat
      BY <1>1 DEF OrderType
  <2>2. call[o].doc \in OrderType => call[o].doc.version \in Nat
      BY DEF OrderType
  <2> QED BY <2>1, <2>2 DEF CallSound
<1>4. Counted'
  <2> SUFFICES ASSUME NEW s \in Stocks
               PROVE  order'.receipts[s] + InHands(call', s) <= received'[s]
      BY DEF Counted
  <2>1. /\ \A o \in Buyers : LinesSound(call[o])
        /\ \A o \in Buyers : LinesSound(call'[o])
      BY <1>1, <1>3 DEF CallSound
  <2>2. /\ InHands(call', s) = InHands(call, s) - Logged(call[b], s) + Logged(call'[b], s)
        /\ InHands(call, s) \in Nat /\ Logged(call[b], s) \in Nat /\ Logged(call'[b], s) \in Nat
    <3>1. PICK cl, new : cl = call /\ new = call'
        OBVIOUS
    <3>2. /\ cl \in [Buyers -> CallType] /\ new \in [Buyers -> CallType]
          /\ \A o \in Buyers \ {b} : new[o] = cl[o]
        BY <1>1, <1>2, <3>1
    <3>3. /\ \A o \in Buyers : LinesSound(cl[o])
          /\ \A o \in Buyers : LinesSound(new[o])
        BY <2>1, <3>1, Zenon
    <3>4. /\ InHands(new, s) = InHands(cl, s) - Logged(cl[b], s) + Logged(new[b], s)
          /\ InHands(cl, s) \in Nat /\ Logged(cl[b], s) \in Nat /\ Logged(new[b], s) \in Nat
      <4> HIDE DEF IInv
      <4> QED BY <3>2, <3>3, HandsStep
    <3> QED BY <3>1, <3>4, Zenon
  <2>3. order.receipts[s] + InHands(call, s) <= received[s]
      BY DEF IInv, Counted
  <2>4. /\ order.receipts[s] \in Nat /\ order'.receipts[s] \in Nat
        /\ received[s] \in Nat /\ received'[s] \in Nat
      BY <1>1 DEF OrderType
  <2>5. order'.receipts[s] + received[s] + Logged(call'[b], s)
            <= order.receipts[s] + received'[s] + Logged(call[b], s)
      BY <1>2
  <2> QED BY <2>2, <2>3, <2>4, <2>5
<1>5. Explained'
  <2> SUFFICES ASSUME NEW s \in Stocks \ overwritten'
               PROVE  PP!Unmoved(s)' = InitialOnHand[s] + received'[s] + UnloggedIn(call', s)
      BY Zenon DEF Explained
  <2>1. PP!Unmoved(s) = InitialOnHand[s] + received[s] + UnloggedIn(call, s)
      BY DEF IInv, Explained
  <2>2. /\ received[s] \in Nat /\ received'[s] \in Nat
        /\ UnloggedIn(call, s) \in Nat /\ UnloggedIn(call', s) \in Nat
      BY <1>1
  <2>3. InitialOnHand[s] \in Nat /\ PP!Unmoved(s)' \in Int
    <3>1. PP!PartsAssumption /\ PP!TypeOK'
        BY SharedAssumption, SameTypes DEF SharedAssumption, PP!Core
    <3> QED BY <3>1 DEF PP!PartsAssumption, PP!TypeOK, PP!Unmoved, PP!Moves
  <2>4. PP!Unmoved(s)' + received[s] + UnloggedIn(call, s)
            = PP!Unmoved(s) + received'[s] + UnloggedIn(call', s)
      OBVIOUS
  <2> HIDE DEF IInv
  <2> QED BY <2>1, <2>2, <2>3, <2>4
<1>6. OwnTypes'
    BY <1>2 DEF OwnTypes
<1> QED BY <1>3, <1>4, <1>5, <1>6, Zenon DEF IInv

\* The pieces of stock s that line i of call b counts for at a step, if that is
\* one of `steps`.
Counts(b, i, s, at, steps) == IF PartOf(b, i) = s /\ at \in steps THEN QtyOf(b, i) ELSE 0

\* What a step of a line does to its call and to the sums.
LEMMA LineMoves ==
    ASSUME IInv, NEW b \in Buyers, NEW i, NEW from, NEW step, NEW seen \in Nat,
           At(b, i, from), Step(b, i, step, seen),
           step \in {"find", "create", "save", "log", "part", "done", "failed", "lost"}
    PROVE  /\ PartOf(b, i) \in Stocks /\ QtyOf(b, i) \in Nat
           /\ \E c \in CallType :
                  /\ call' = [call EXCEPT ![b] = c] /\ CallSound(c, order)
                  /\ \A s \in Stocks :
                         /\ Logged(c, s) + Counts(b, i, s, from, {"part", "done"})
                                = Logged(call[b], s) + Counts(b, i, s, step, {"part", "done"})
                         /\ Logged(c, s) \in Nat /\ Logged(call[b], s) \in Nat
           /\ \A s \in Stocks :
                  /\ UnloggedIn(call', s) + Counts(b, i, s, from, {"log", "lost"})
                         = UnloggedIn(call, s) + Counts(b, i, s, step, {"log", "lost"})
                  /\ UnloggedIn(call', s) \in Nat /\ UnloggedIn(call, s) \in Nat
<1> DEFINE p == [at |-> step, seen |-> seen]
           c == [call[b] EXCEPT !.puts[i] = p]
<1>1. /\ call \in [Buyers -> CallType] /\ \A o \in Buyers : CallSound(call[o], order)
    BY DEF IInv, OwnTypes
<1>2. \A o \in Buyers : LinesSound(call[o])
    BY <1>1 DEF CallSound
<1>3. call[b].at = "loaded" /\ i \in DOMAIN call[b].puts /\ call[b].puts[i].at = from
    BY DEF At
<1>4. PartOf(b, i) \in Stocks /\ QtyOf(b, i) \in Nat
    BY <1>1, <1>2, <1>3, AwaitingAre DEF PartOf, QtyOf
<1>5. p \in PutType /\ p.at = step
    BY DEF PutType
<1>6. call' = [call EXCEPT ![b] = c]
    BY DEF Step, Put
<1> HIDE DEF IInv, p
<1>7. PICK cl, new : cl = call /\ new = call'
    OBVIOUS
<1>8. cl \in [Buyers -> CallType] /\ i \in DOMAIN cl[b].puts /\ cl[b].at = "loaded"
    BY <1>1, <1>3, <1>7
<1>9. \A o \in Buyers : LinesSound(cl[o])
    BY <1>2, <1>7
<1>10. new = [cl EXCEPT ![b] = [cl[b] EXCEPT !.puts[i] = p]]
    BY <1>6, <1>7
<1>11. LineStep(cl, new, b, i, step)
    BY <1>5, <1>8, <1>9, <1>10, StepIsLineStep
<1>12. ASSUME NEW s \in Stocks
       PROVE  /\ UnloggedIn(new, s) = UnloggedIn(cl, s) + Weight(new[b], i, s, {"log", "lost"})
                                        - Weight(cl[b], i, s, {"log", "lost"})
              /\ UnloggedIn(cl, s) \in Nat
              /\ Logged(new[b], s) = Logged(cl[b], s) + Weight(new[b], i, s, {"part", "done"})
                                   - Weight(cl[b], i, s, {"part", "done"})
    BY <1>8, <1>9, <1>11, StepUnlogged, StepLogged
<1>13. ASSUME NEW s \in Stocks, NEW steps
       PROVE  /\ Weight(cl[b], i, s, steps) = Counts(b, i, s, from, steps)
              /\ Weight(new[b], i, s, steps) = Counts(b, i, s, step, steps)
              /\ Counts(b, i, s, from, steps) \in Nat
              /\ Counts(b, i, s, step, steps) \in Nat
  <2>1. new[b].req = call[b].req /\ new[b].puts[i].at = step
      BY <1>7, <1>11 DEF LineStep
  <2>2. cl[b].req = call[b].req /\ cl[b].puts[i].at = from
      BY <1>3, <1>7
  <2>3. /\ Weight(cl[b], i, s, steps) = Counts(b, i, s, from, steps)
        /\ Weight(new[b], i, s, steps) = Counts(b, i, s, step, steps)
      BY <2>1, <2>2, Zenon DEF Weight, Counts, PartOf, QtyOf
  <2>4. \A at : Counts(b, i, s, at, steps) \in Nat
      BY <1>4 DEF Counts
  <2> QED BY <2>3, <2>4
<1>14. ASSUME NEW s \in Stocks
       PROVE  /\ Logged(new[b], s) \in Nat /\ Logged(cl[b], s) \in Nat
              /\ UnloggedIn(new, s) \in Nat
  <2>1. new \in [Buyers -> CallType] /\ \A o \in Buyers : LinesSound(new[o])
      BY <1>11 DEF LineStep
  <2>2. Logged(new[b], s) \in Nat /\ Logged(cl[b], s) \in Nat
      BY <1>8, <1>9, <2>1, LoggedNat
  <2>3. UnloggedIn(new, s) \in Nat
    <3>1. IsFiniteSet(AwaitingLines(new, s)) /\ NatOn(QuantityIn(new), AwaitingLines(new, s))
        BY <2>1, AwaitingAre
    <3> QED BY <3>1, TotalNat DEF UnloggedIn
  <2> QED BY <2>2, <2>3
<1>15. new[b] = c /\ new[b] \in CallType /\ CallSound(new[b], order)
  <2>1. new[b] = c
      BY <1>6, <1>7, <1>8
  <2>2. new[b] \in CallType /\ LinesSound(new[b])
      BY <1>11 DEF LineStep
  <2>3. CallSound(call[b], order) /\ call[b].puts # <<>>
      BY <1>1, <1>3
  <2>4. /\ new[b].at = "loaded" /\ new[b].req = call[b].req /\ new[b].doc = call[b].doc
        /\ DOMAIN new[b].puts = DOMAIN call[b].puts
      BY <1>7, <1>8, <1>11 DEF LineStep
  <2>5. call[b].req.op = "receive" /\ DOMAIN call[b].puts = DOMAIN call[b].req.receipts
      BY <2>3 DEF CallSound, LinesSound
  <2> HIDE DEF c
  <2>6. CallSound(new[b], order)
      BY <1>3, <2>2, <2>3, <2>4, <2>5 DEF CallSound
  <2> QED BY <2>1, <2>2, <2>6
<1>16. ASSUME NEW s \in Stocks
       PROVE  /\ UnloggedIn(new, s) + Counts(b, i, s, from, {"log", "lost"})
                     = UnloggedIn(cl, s) + Counts(b, i, s, step, {"log", "lost"})
              /\ Logged(new[b], s) + Counts(b, i, s, from, {"part", "done"})
                     = Logged(cl[b], s) + Counts(b, i, s, step, {"part", "done"})
    BY <1>12, <1>13, <1>14
<1> HIDE DEF c
<1>17. \A s \in Stocks :
           /\ Logged(c, s) + Counts(b, i, s, from, {"part", "done"})
                  = Logged(call[b], s) + Counts(b, i, s, step, {"part", "done"})
           /\ Logged(c, s) \in Nat /\ Logged(call[b], s) \in Nat
    BY <1>7, <1>14, <1>15, <1>16, Zenon
<1>18. \A s \in Stocks :
           /\ UnloggedIn(call', s) + Counts(b, i, s, from, {"log", "lost"})
                  = UnloggedIn(call, s) + Counts(b, i, s, step, {"log", "lost"})
           /\ UnloggedIn(call', s) \in Nat /\ UnloggedIn(call, s) \in Nat
    BY <1>7, <1>12, <1>14, <1>16, Zenon
<1>19. c \in CallType /\ CallSound(c, order)
    BY <1>15, Zenon
<1> QED BY <1>4, <1>6, <1>17, <1>18, <1>19, Zenon

\* A step of a line preserves the invariant when the log and the stock go with it.
LEMMA LineSteps ==
    ASSUME IInv, NEW b \in Buyers, NEW i, NEW from, NEW step, NEW seen \in Nat,
           At(b, i, from), Step(b, i, step, seen),
           step \in {"find", "create", "save", "log", "part", "done", "failed", "lost"},
           PP!Core', order' = order,
           stocked' \subseteq Stocks, received' \in [Stocks -> Nat], faults' \in 0 .. MaxFaults,
           overwritten' \subseteq Stocks, overwritten \subseteq overwritten',
           \A s \in Stocks : received[s] + Counts(b, i, s, step, {"part", "done"})
                                 <= received'[s] + Counts(b, i, s, from, {"part", "done"}),
           \A s \in Stocks \ overwritten' :
               PP!Unmoved(s)' + received[s] + Counts(b, i, s, from, {"log", "lost"})
                   = PP!Unmoved(s) + received'[s] + Counts(b, i, s, step, {"log", "lost"})
    PROVE  IInv'
<1>1. /\ QtyOf(b, i) \in Nat
      /\ \A s \in Stocks :
              /\ UnloggedIn(call', s) + Counts(b, i, s, from, {"log", "lost"})
                     = UnloggedIn(call, s) + Counts(b, i, s, step, {"log", "lost"})
              /\ UnloggedIn(call', s) \in Nat /\ UnloggedIn(call, s) \in Nat
    BY LineMoves
<1>2. PICK c \in CallType :
          /\ call' = [call EXCEPT ![b] = c] /\ CallSound(c, order)
          /\ \A s \in Stocks :
                 /\ Logged(c, s) + Counts(b, i, s, from, {"part", "done"})
                        = Logged(call[b], s) + Counts(b, i, s, step, {"part", "done"})
                 /\ Logged(c, s) \in Nat /\ Logged(call[b], s) \in Nat
    BY LineMoves
<1>3. \A s, at, steps : Counts(b, i, s, at, steps) \in Nat
    BY <1>1 DEF Counts
<1>4. /\ received \in [Stocks -> Nat] /\ order \in OrderType /\ OrderSound(order)
    BY DEF IInv, OwnTypes
<1>5. ASSUME NEW s \in Stocks PROVE PP!Unmoved(s) \in Int /\ PP!Unmoved(s)' \in Int
  <2>1. PP!TypeOK /\ PP!TypeOK'
      BY DEF PP!Core, IInv
  <2>2. PP!Unmoved(s) \in Int
      BY <2>1, UnmovedIsInt
  <2>3. PP!Unmoved(s)' \in Int
      BY <2>1 DEF PP!TypeOK, PP!Unmoved, PP!Moves
  <2> QED BY <2>2, <2>3
<1> HIDE DEF IInv
<1>6. ASSUME NEW s \in Stocks
      PROVE  order'.receipts[s] + received[s] + Logged(c, s)
                 <= order.receipts[s] + received'[s] + Logged(call[b], s)
  <2>1. /\ received[s] + Counts(b, i, s, step, {"part", "done"})
              <= received'[s] + Counts(b, i, s, from, {"part", "done"})
        /\ Logged(c, s) + Counts(b, i, s, from, {"part", "done"})
              = Logged(call[b], s) + Counts(b, i, s, step, {"part", "done"})
        /\ Logged(c, s) \in Nat /\ Logged(call[b], s) \in Nat
        /\ received[s] \in Nat /\ received'[s] \in Nat
        /\ order.receipts[s] \in Nat /\ order'.receipts[s] = order.receipts[s]
      BY <1>2, <1>4 DEF OrderType
  <2>2. received[s] + Logged(c, s) <= received'[s] + Logged(call[b], s)
      BY <1>3, <2>1
  <2> QED BY <2>1, <2>2
<1>7. ASSUME NEW s \in Stocks \ overwritten'
      PROVE  PP!Unmoved(s)' + received[s] + UnloggedIn(call, s)
                   = PP!Unmoved(s) + received'[s] + UnloggedIn(call', s)
  <2>1. /\ received[s] \in Nat /\ received'[s] \in Nat
        /\ UnloggedIn(call', s) \in Nat /\ UnloggedIn(call, s) \in Nat
        /\ PP!Unmoved(s) \in Int /\ PP!Unmoved(s)' \in Int
      BY <1>1, <1>4, <1>5
  <2>2. /\ UnloggedIn(call', s) + Counts(b, i, s, from, {"log", "lost"})
                     = UnloggedIn(call, s) + Counts(b, i, s, step, {"log", "lost"})
        /\ PP!Unmoved(s)' + received[s] + Counts(b, i, s, from, {"log", "lost"})
                   = PP!Unmoved(s) + received'[s] + Counts(b, i, s, step, {"log", "lost"})
      BY <1>1
  <2>3. Counts(b, i, s, from, {"log", "lost"}) \in Nat /\ Counts(b, i, s, step, {"log", "lost"}) \in Nat
      BY <1>3
  <2> QED BY <2>1, <2>2, <2>3
<1>8. /\ order' \in OrderType /\ OrderSound(order') /\ CallSound(c, order')
      /\ order.version <= order'.version
    BY <1>2, <1>4 DEF OrderType
<1> QED BY <1>1, <1>2, <1>6, <1>7, <1>8, BuyStep

\* The steps of a line that touch neither the stock nor the log.
LEMMA QuietSteps ==
    ASSUME IInv, NEW b \in Buyers, NEW i, NEW from, NEW step, NEW seen \in Nat,
           At(b, i, from), Step(b, i, step, seen),
           UNCHANGED <<partsVars, order, received, overwritten>>,
           stocked' \subseteq Stocks, faults' \in 0 .. MaxFaults,
           \/ /\ from \in {"find", "create", "save", "log", "part"}
              /\ step = IF from = "log" THEN "lost" ELSE "failed"
           \/ from = "find" /\ step \in {"save", "create"}
           \/ from = "create" /\ step \in {"save", "failed"}
           \/ from = "part" /\ step = "done"
    PROVE  IInv'
<1>1. PP!Core' /\ PP!SamePieces
    BY StockStands DEF IInv
<1>2. \A s \in Stocks :
          /\ Counts(b, i, s, step, {"log", "lost"}) = Counts(b, i, s, from, {"log", "lost"})
          /\ \/ Counts(b, i, s, step, {"part", "done"}) = Counts(b, i, s, from, {"part", "done"})
             \/ Counts(b, i, s, step, {"part", "done"}) = 0
    BY Zenon DEF Counts
<1>3. QtyOf(b, i) \in Nat
  <2>1. step \in {"find", "create", "save", "log", "part", "done", "failed", "lost"}
      OBVIOUS
  <2> QED BY <2>1, LineMoves
<1>4. \A s, at, steps : Counts(b, i, s, at, steps) \in Nat
    BY <1>3 DEF Counts
<1>5. /\ received \in [Stocks -> Nat] /\ overwritten \subseteq Stocks
      /\ \A s \in Stocks : PP!Unmoved(s)' = PP!Unmoved(s)
    BY <1>1 DEF IInv, OwnTypes, PP!SamePieces
<1>6. \A s \in Stocks : received[s] + Counts(b, i, s, step, {"part", "done"})
                            <= received'[s] + Counts(b, i, s, from, {"part", "done"})
    BY <1>2, <1>4, <1>5
<1>7. \A s \in Stocks \ overwritten' :
          PP!Unmoved(s)' + received[s] + Counts(b, i, s, from, {"log", "lost"})
              = PP!Unmoved(s) + received'[s] + Counts(b, i, s, step, {"log", "lost"})
    BY <1>2, <1>5, Zenon
<1> HIDE DEF IInv
<1> QED BY <1>1, <1>5, <1>6, <1>7, LineSteps

\* Where a line finds its stock, or not.
LEMMA FindStockStep ==
    ASSUME IInv, NEW b \in Buyers, NEW i, FindStock(b, i)
    PROVE  IInv'
<1>1. /\ At(b, i, "find") /\ stocked' = stocked /\ faults' = faults
      /\ UNCHANGED <<partsVars, order, received, overwritten>>
    BY DEF FindStock
<1>2. stocked \subseteq Stocks /\ faults \in 0 .. MaxFaults
    BY DEF IInv, OwnTypes
<1>3. CASE Step(b, i, "create", 0)
  <2> HIDE DEF IInv
  <2> QED BY <1>1, <1>2, <1>3, QuietSteps
<1>4. CASE PartOf(b, i) \in stocked /\ Step(b, i, "save", onHand[PartOf(b, i)])
  <2>1. onHand[PartOf(b, i)] \in Nat
      BY <1>2, <1>4 DEF IInv, PP!Core, PP!TypeOK
  <2> HIDE DEF IInv
  <2> QED BY <1>1, <1>2, <1>4, <2>1, QuietSteps
<1> QED BY <1>3, <1>4 DEF FindStock

\* It creates the stock.
LEMMA CreateStockStep ==
    ASSUME IInv, NEW b \in Buyers, NEW i, CreateStock(b, i)
    PROVE  IInv'
<1>1. /\ At(b, i, "create") /\ faults' = faults
      /\ UNCHANGED <<partsVars, order, received, overwritten>>
    BY DEF CreateStock
<1>2. stocked' \subseteq Stocks /\ faults \in 0 .. MaxFaults
  <2>1. PartOf(b, i) \in Stocks
    <3>1. /\ call \in [Buyers -> CallType] /\ \A o \in Buyers : LinesSound(call[o])
          /\ i \in DOMAIN call[b].puts
        BY <1>1 DEF IInv, OwnTypes, CallSound, At
    <3> QED BY <3>1, AwaitingAre DEF PartOf
  <2> QED BY <2>1 DEF CreateStock, IInv, OwnTypes
<1>3. Step(b, i, "failed", 0) \/ Step(b, i, "save", 0)
    BY DEF CreateStock
<1> HIDE DEF IInv
<1> QED BY <1>1, <1>2, <1>3, QuietSteps

\* It saves the part, and is through.
LEMMA SavePartStep ==
    ASSUME IInv, NEW b \in Buyers, NEW i, SavePart(b, i)
    PROVE  IInv'
<1>1. /\ At(b, i, "part") /\ stocked' = stocked /\ faults' = faults
      /\ UNCHANGED <<partsVars, order, received, overwritten>> /\ Step(b, i, "done", 0)
    BY DEF SavePart
<1>2. stocked \subseteq Stocks /\ faults \in 0 .. MaxFaults
    BY DEF IInv, OwnTypes
<1> HIDE DEF IInv
<1> QED BY <1>1, <1>2, QuietSteps

\* A database call of it throws.
LEMMA FailLineStep ==
    ASSUME IInv, NEW b \in Buyers, NEW i, FailLine(b, i)
    PROVE  IInv'
<1>1. PICK from \in {"find", "create", "save", "log", "part"} :
          At(b, i, from) /\ Step(b, i, IF from = "log" THEN "lost" ELSE "failed", 0)
    BY DEF FailLine
<1>2. /\ stocked' = stocked /\ faults' = faults + 1 /\ faults < MaxFaults
      /\ UNCHANGED <<partsVars, order, received, overwritten>>
    BY DEF FailLine
<1>3. stocked \subseteq Stocks /\ faults \in 0 .. MaxFaults /\ MaxFaults \in Nat
    BY PurchasingAssumption DEF IInv, OwnTypes, PurchasingAssumption
<1>4. faults' \in 0 .. MaxFaults
    BY <1>2, <1>3
<1> HIDE DEF IInv
<1> QED BY <1>1, <1>2, <1>3, <1>4, QuietSteps

\* It writes its movement.
LEMMA LogMovementStep ==
    ASSUME IInv, NEW b \in Buyers, NEW i, LogMovement(b, i)
    PROVE  IInv'
<1>1. /\ At(b, i, "log") /\ stocked' = stocked /\ faults' = faults /\ order' = order
      /\ UNCHANGED <<partsVars, overwritten>> /\ Step(b, i, "part", 0)
      /\ received' = [received EXCEPT ![PartOf(b, i)] = @ + QtyOf(b, i)]
    BY DEF LogMovement
<1>2. /\ stocked \subseteq Stocks /\ faults \in 0 .. MaxFaults /\ overwritten \subseteq Stocks
      /\ received \in [Stocks -> Nat]
    BY DEF IInv, OwnTypes
<1>3. PP!Core' /\ PP!SamePieces
    BY <1>1, StockStands DEF IInv
<1>4. PartOf(b, i) \in Stocks /\ QtyOf(b, i) \in Nat
  <2> HIDE DEF IInv
  <2> QED BY <1>1, LineMoves
<1>5. /\ received' \in [Stocks -> Nat]
      /\ \A s \in Stocks :
             received'[s] = received[s] + IF PartOf(b, i) = s THEN QtyOf(b, i) ELSE 0
    BY <1>1, <1>2, <1>4
<1>6. \A s : /\ Counts(b, i, s, "log", {"log", "lost"}) = IF PartOf(b, i) = s THEN QtyOf(b, i) ELSE 0
             /\ Counts(b, i, s, "part", {"part", "done"}) = IF PartOf(b, i) = s THEN QtyOf(b, i) ELSE 0
             /\ Counts(b, i, s, "part", {"log", "lost"}) = 0
             /\ Counts(b, i, s, "log", {"part", "done"}) = 0
    BY Zenon DEF Counts
<1>7. \A s \in Stocks : received[s] + Counts(b, i, s, "part", {"part", "done"})
                            <= received'[s] + Counts(b, i, s, "log", {"part", "done"})
    BY <1>2, <1>4, <1>5, <1>6
<1>8. ASSUME NEW s \in Stocks \ overwritten'
      PROVE  PP!Unmoved(s)' + received[s] + Counts(b, i, s, "log", {"log", "lost"})
              = PP!Unmoved(s) + received'[s] + Counts(b, i, s, "part", {"log", "lost"})
  <2>1. PP!Unmoved(s)' = PP!Unmoved(s)
      BY <1>3 DEF PP!SamePieces
  <2>2. PP!Unmoved(s) \in Int
      BY UnmovedIsInt DEF IInv, PP!Core
  <2>3. received[s] \in Nat /\ received'[s] \in Nat
      BY <1>2, <1>5
  <2> HIDE DEF IInv
  <2> QED BY <1>4, <1>5, <1>6, <2>1, <2>2, <2>3
<1> HIDE DEF IInv
<1> QED BY <1>1, <1>2, <1>3, <1>5, <1>7, <1>8, LineSteps

\* It saves what it has read of the stock, and its pieces on top.
LEMMA SaveStockStep ==
    ASSUME IInv, NEW b \in Buyers, NEW i, SaveStock(b, i)
    PROVE  IInv'
<1> DEFINE s == PartOf(b, i)
           seen == call[b].puts[i].seen
           q == QtyOf(b, i)
<1>1. /\ At(b, i, "save") /\ stocked' = stocked /\ faults' = faults /\ order' = order
      /\ received' = received /\ Step(b, i, "log", 0)
      /\ overwritten' = overwritten \cup (IF onHand[s] = seen THEN {} ELSE {s})
    BY DEF SaveStock
<1>2. /\ onHand' = [onHand EXCEPT ![s] = seen + q]
      /\ stale' = [c \in Calls |-> IF pc[c] = "open" THEN stale[c] \cup {<<"stock", s>>}
                                     ELSE stale[c]]
      /\ UNCHANGED <<reserved, lines, moved, total, pc, request, loaded, snap>>
    BY DEF SaveStock, SavedReserved, Touched
<1>3. s \in Stocks /\ q \in Nat
  <2> HIDE DEF IInv
  <2> QED BY <1>1, LineMoves
<1>4. seen \in Nat
  <2>1. call[b] \in CallType /\ i \in DOMAIN call[b].puts
      BY <1>1 DEF IInv, OwnTypes, At
  <2>2. call[b].puts[i] \in PutType
      BY <2>1, PutsAre
  <2> QED BY <2>2 DEF PutType
<1>5. /\ stocked \subseteq Stocks /\ faults \in 0 .. MaxFaults
      /\ received \in [Stocks -> Nat] /\ onHand \in [Stocks -> Nat] /\ PP!Core
      /\ overwritten \subseteq Stocks /\ PP!TypeOK
    BY DEF IInv, OwnTypes, PP!Core, PP!TypeOK
<1> HIDE DEF seen, s, q
<1>6. PP!Core'
  <2>1. PP!PartsAssumption
      BY SharedAssumption, SameTypes DEF SharedAssumption
  <2>2. PICK n : n = seen + q
      OBVIOUS
  <2>3. n \in Nat /\ onHand' = [onHand EXCEPT ![s] = n]
      BY <1>2, <1>3, <1>4, <2>2
  <2> QED BY <1>2, <1>3, <1>5, <2>1, <2>3, PP!OutsideWrite
<1>7. overwritten' \subseteq Stocks /\ overwritten \subseteq overwritten'
    BY <1>1, <1>3, <1>5
<1>8. \A t : /\ Counts(b, i, t, "log", {"log", "lost"}) = IF s = t THEN q ELSE 0
             /\ Counts(b, i, t, "save", {"log", "lost"}) = 0
             /\ Counts(b, i, t, "save", {"part", "done"}) = 0
             /\ Counts(b, i, t, "log", {"part", "done"}) = 0
    BY Zenon DEF Counts, s, q
<1>9. ASSUME NEW t \in Stocks \ overwritten'
      PROVE  PP!Unmoved(t)' + received[t] + Counts(b, i, t, "save", {"log", "lost"})
              = PP!Unmoved(t) + received'[t] + Counts(b, i, t, "log", {"log", "lost"})
  <2>1. /\ moved' = moved /\ moved[t]["reserve"] \in Nat /\ moved[t]["unreserve"] \in Nat
        /\ moved[t]["return"] \in Nat
      BY <1>2, <1>5 DEF PP!TypeOK, PP!Moves
  <2>2. onHand[t] \in Nat /\ onHand'[t] = onHand[t] + IF s = t THEN q ELSE 0
    <3>1. s = t => onHand[s] = seen
        BY <1>1
    <3> QED BY <1>2, <1>3, <1>4, <1>5, <3>1
  <2>3. received'[t] = received[t] /\ received[t] \in Nat
      BY <1>1, <1>5
  <2>4. PP!Unmoved(t)' = PP!Unmoved(t) + IF s = t THEN q ELSE 0
      BY <1>3, <2>1, <2>2 DEF PP!Unmoved
  <2>5. PP!Unmoved(t) \in Int
      BY <1>5, UnmovedIsInt
  <2> HIDE DEF IInv
  <2> QED BY <1>3, <1>8, <2>3, <2>4, <2>5
<1>10. \A t \in Stocks : received[t] + Counts(b, i, t, "log", {"part", "done"})
                            <= received'[t] + Counts(b, i, t, "save", {"part", "done"})
    BY <1>1, <1>5, <1>8
<1> HIDE DEF IInv
<1> QED BY <1>1, <1>5, <1>6, <1>7, <1>9, <1>10, LineSteps

\* A call that loads the order has put nothing on the stock.
LEMMA LoadStep ==
    ASSUME IInv, NEW b \in Buyers, NEW r \in Asked, Load(b, r)
    PROVE  IInv'
<1> DEFINE puts == IF Accepts(r, order) /\ r.op = "receive"
                   THEN [i \in DOMAIN r.receipts |->
                           [at |-> IF Rejected(order, r.receipts, i) THEN "failed" ELSE "find",
                            seen |-> 0]]
                   ELSE <<>>
           c == [at |-> IF Accepts(r, order) THEN "loaded" ELSE "done",
                 req |-> r, doc |-> order, puts |-> puts]
<1>1. /\ call[b].at = "idle" /\ call' = [call EXCEPT ![b] = c]
      /\ UNCHANGED <<partsVars, order, stocked, received, faults, overwritten>>
    BY DEF Load, Put
<1>2. /\ call \in [Buyers -> CallType] /\ \A o \in Buyers : CallSound(call[o], order)
      /\ stocked \subseteq Stocks /\ faults \in 0 .. MaxFaults
      /\ received \in [Stocks -> Nat] /\ order \in OrderType /\ OrderSound(order)
      /\ overwritten \subseteq Stocks /\ PP!Core
    BY DEF IInv, OwnTypes
<1>3. PP!Core' /\ PP!SamePieces
    BY <1>1, <1>2, StockStands
<1>4. puts \in Seq(PutType) /\ \A i \in DOMAIN puts : puts[i].at \in {"failed", "find"}
  <2>1. CASE Accepts(r, order) /\ r.op = "receive"
    <3>1. DOMAIN r.receipts = 1 .. Len(r.receipts) /\ Len(r.receipts) \in Nat
        BY ReceiptsAre
    <3>2. puts = [i \in 1 .. Len(r.receipts) |->
                     [at |-> IF Rejected(order, r.receipts, i) THEN "failed" ELSE "find",
                      seen |-> 0]]
        BY <2>1, <3>1
    <3>3. \A i \in 1 .. Len(r.receipts) :
              [at |-> IF Rejected(order, r.receipts, i) THEN "failed" ELSE "find", seen |-> 0]
                  \in PutType
        BY DEF PutType
    <3> QED BY <3>1, <3>2, <3>3
  <2>2. CASE ~(Accepts(r, order) /\ r.op = "receive")
      BY <2>2
  <2> QED BY <2>1, <2>2
<1>5. /\ Accepts(r, order) /\ r.op = "receive" => DOMAIN puts = DOMAIN r.receipts
      /\ ~(Accepts(r, order) /\ r.op = "receive") => puts = <<>>
    OBVIOUS
<1> HIDE DEF puts
<1>6. c \in CallType
    BY <1>2, <1>4 DEF CallType
<1>7. CallSound(c, order)
  <2>1. order.version \in Nat
      BY <1>2 DEF OrderType
  <2> QED BY <1>2, <1>5, <2>1 DEF CallSound, LinesSound
<1>8. c.puts = puts
    OBVIOUS
<1> HIDE DEF c, IInv
<1>9. /\ call' \in [Buyers -> CallType] /\ call'[b] = c
      /\ \A o \in Buyers \ {b} : call'[o] = call[o]
    BY <1>1, <1>2, <1>6
<1>10. call[b].puts = <<>>
    BY <1>1, <1>2 DEF CallSound
<1>11. \A s \in Stocks : Logged(c, s) = 0 /\ Logged(call[b], s) = 0
  <2> SUFFICES ASSUME NEW s \in Stocks PROVE Logged(c, s) = 0 /\ Logged(call[b], s) = 0
      OBVIOUS
  <2>1. Logged(call[b], s) = 0
      BY <1>1, Zenon DEF Logged
  <2>2. LoggedLines(c, s) = {}
      BY <1>4, <1>8 DEF LoggedLines
  <2>3. Total(Quantities(c.req.receipts), {}) = 0
      BY FS_EmptySet, TotalSplit DEF IntOn
  <2> QED BY <2>1, <2>2, <2>3, Zenon DEF Logged
<1>12. \A s \in Stocks : /\ UnloggedIn(call', s) = UnloggedIn(call, s)
                         /\ UnloggedIn(call, s) \in Nat /\ UnloggedIn(call', s) \in Nat
  <2> SUFFICES ASSUME NEW s \in Stocks
               PROVE  UnloggedIn(call', s) = UnloggedIn(call, s) /\ UnloggedIn(call, s) \in Nat
      BY Zenon
  <2>1. PICK cl, new : cl = call /\ new = call'
      OBVIOUS
  <2>2. cl \in [Buyers -> CallType] /\ \A o \in Buyers : LinesSound(cl[o])
      BY <1>2, <2>1 DEF CallSound
  <2>3. ASSUME NEW x \in Buyers \X Nat
        PROVE  /\ Awaiting(new, x, s) <=> Awaiting(cl, x, s)
               /\ Awaiting(cl, x, s) => QuantityIn(new)[x] = QuantityIn(cl)[x]
    <3>1. CASE x[1] = b
      <4>1. ~Awaiting(cl, x, s)
          BY <1>10, <2>1, <3>1 DEF Awaiting
      <4>2. ~Awaiting(new, x, s)
          BY <1>4, <1>8, <1>9, <2>1, <3>1 DEF Awaiting
      <4> QED BY <4>1, <4>2
    <3>2. CASE x[1] # b
        BY <1>9, <2>1, <3>2 DEF Awaiting, QuantityIn
    <3> QED BY <3>1, <3>2
  <2>4. UnloggedIn(new, s) = UnloggedIn(cl, s)
      BY <2>2, <2>3, UnloggedSame
  <2>5. UnloggedIn(cl, s) \in Nat
    <3>1. IsFiniteSet(AwaitingLines(cl, s)) /\ NatOn(QuantityIn(cl), AwaitingLines(cl, s))
        BY <2>2, AwaitingAre
    <3> QED BY <3>1, TotalNat DEF UnloggedIn
  <2> QED BY <2>1, <2>4, <2>5, Zenon
<1>13. \A s \in Stocks : order'.receipts[s] + received[s] + Logged(c, s)
                                 <= order.receipts[s] + received'[s] + Logged(call[b], s)
  <2>1. \A s \in Stocks : order.receipts[s] \in Nat /\ received[s] \in Nat
      BY <1>2 DEF OrderType
  <2> QED BY <1>1, <1>11, <2>1
<1>14. \A s \in Stocks \ overwritten' :
               PP!Unmoved(s)' + received[s] + UnloggedIn(call, s)
                   = PP!Unmoved(s) + received'[s] + UnloggedIn(call', s)
    BY <1>1, <1>3, <1>12, Zenon DEF PP!SamePieces
<1>15. /\ order' \in OrderType /\ OrderSound(order') /\ CallSound(c, order')
       /\ order.version <= order'.version /\ order' = order
    BY <1>1, <1>2, <1>7 DEF OrderType
<1>16. /\ stocked' \subseteq Stocks /\ received' \in [Stocks -> Nat] /\ faults' \in 0 .. MaxFaults
       /\ overwritten' \subseteq Stocks /\ overwritten \subseteq overwritten'
    BY <1>1, <1>2
<1> QED BY <1>1, <1>3, <1>6, <1>12, <1>13, <1>14, <1>15, <1>16, BuyStep

\* A call ends, and the order stands or is saved.
LEMMA EndStep ==
    ASSUME IInv, NEW b \in Buyers, call[b].at = "loaded", Stop(b),
           UNCHANGED <<partsVars, stocked, received, overwritten>>, faults' \in 0 .. MaxFaults,
           order' \in OrderType, OrderSound(order'),
           order' = order \/ order'.version = order.version + 1,
           \A s \in Stocks : order'.receipts[s] <= order.receipts[s] + Logged(call[b], s)
    PROVE  IInv'
<1> DEFINE over == [Nobody EXCEPT !.at = "done"]
           kept == [call[b] EXCEPT !.at = "done", !.doc = None]
           c == IF Broken(b) = {} THEN over ELSE kept
<1>1. call' = [call EXCEPT ![b] = c]
    BY DEF Stop, Put
<1>2. /\ call \in [Buyers -> CallType] /\ \A o \in Buyers : CallSound(call[o], order)
      /\ stocked \subseteq Stocks
      /\ received \in [Stocks -> Nat] /\ order \in OrderType /\ OrderSound(order)
      /\ overwritten \subseteq Stocks /\ PP!Core
    BY DEF IInv, OwnTypes
<1>3. PP!Core' /\ PP!SamePieces
    BY <1>2, StockStands
<1> HIDE DEF IInv
<1>4. /\ over \in CallType /\ over.at = "done" /\ over.puts = <<>>
      /\ kept \in CallType /\ kept.at = "done" /\ kept.puts = call[b].puts
      /\ kept.req = call[b].req
  <2>1. /\ over = [at |-> "done", req |-> None, doc |-> None, puts |-> <<>>]
        /\ <<>> \in Seq(PutType)
      BY DEF Nobody
  <2>2. over \in CallType /\ over.at = "done" /\ over.puts = <<>>
    <3> HIDE DEF over
    <3> QED BY <2>1 DEF CallType
  <2>3. call[b] \in CallType
      BY <1>2
  <2>4. /\ kept \in CallType /\ kept.at = "done" /\ kept.puts = call[b].puts
        /\ kept.req = call[b].req
    <3> HIDE DEF PutType, OrderType
    <3> QED BY <2>3 DEF CallType
  <2> QED BY <2>2, <2>4
<1>5. LinesSound(over) /\ LinesSound(kept)
  <2>1. LinesSound(call[b])
      BY <1>2 DEF CallSound
  <2> HIDE DEF over, kept
  <2> QED BY <1>4, <2>1 DEF LinesSound
<1> HIDE DEF over, kept
<1>6. c \in CallType /\ c.at = "done" /\ LinesSound(c)
    BY <1>4, <1>5
<1>7. CallSound(c, order')
    BY <1>6 DEF CallSound
<1>8. /\ call' \in [Buyers -> CallType] /\ call'[b] = c
      /\ \A o \in Buyers \ {b} : call'[o] = call[o]
    BY <1>1, <1>2, <1>6
<1>9. \A s \in Stocks : /\ UnloggedIn(call', s) = UnloggedIn(call, s)
                        /\ UnloggedIn(call, s) \in Nat /\ UnloggedIn(call', s) \in Nat
  <2> SUFFICES ASSUME NEW s \in Stocks
               PROVE  UnloggedIn(call', s) = UnloggedIn(call, s) /\ UnloggedIn(call, s) \in Nat
      BY Zenon
  <2>1. PICK cl, new : cl = call /\ new = call'
      OBVIOUS
  <2>2. cl \in [Buyers -> CallType] /\ \A o \in Buyers : LinesSound(cl[o])
      BY <1>2, <2>1 DEF CallSound
  <2>3. ASSUME NEW x \in Buyers \X Nat
        PROVE  /\ Awaiting(new, x, s) <=> Awaiting(cl, x, s)
               /\ Awaiting(cl, x, s) => QuantityIn(new)[x] = QuantityIn(cl)[x]
    <3>1. CASE x[1] = b /\ Broken(b) = {}
      <4>1. ~Awaiting(cl, x, s)
          BY <2>1, <3>1 DEF Awaiting, Broken
      <4>2. c.puts = <<>>
          BY <1>4, <3>1
      <4>3. ~Awaiting(new, x, s)
          BY <1>8, <2>1, <3>1, <4>2 DEF Awaiting
      <4> QED BY <4>1, <4>3
    <3>2. CASE x[1] = b /\ Broken(b) # {}
      <4>1. new[x[1]].puts = cl[x[1]].puts /\ new[x[1]].req = cl[x[1]].req
          BY <1>4, <1>8, <2>1, <3>2
      <4> QED BY <4>1 DEF Awaiting, QuantityIn
    <3>3. CASE x[1] # b
        BY <1>8, <2>1, <3>3 DEF Awaiting, QuantityIn
    <3> QED BY <3>1, <3>2, <3>3
  <2>4. UnloggedIn(new, s) = UnloggedIn(cl, s)
      BY <2>2, <2>3, UnloggedSame
  <2>5. UnloggedIn(cl, s) \in Nat
    <3>1. IsFiniteSet(AwaitingLines(cl, s)) /\ NatOn(QuantityIn(cl), AwaitingLines(cl, s))
        BY <2>2, AwaitingAre
    <3> QED BY <3>1, TotalNat DEF UnloggedIn
  <2> QED BY <2>1, <2>4, <2>5, Zenon
<1>10. \A s \in Stocks : order'.receipts[s] + received[s] + Logged(c, s)
                                 <= order.receipts[s] + received'[s] + Logged(call[b], s)
  <2> SUFFICES ASSUME NEW s \in Stocks
               PROVE  order'.receipts[s] + received[s] + Logged(c, s)
                                 <= order.receipts[s] + received'[s] + Logged(call[b], s)
      OBVIOUS
  <2>1. /\ order.receipts[s] \in Nat /\ order'.receipts[s] \in Nat
        /\ received[s] \in Nat /\ received'[s] = received[s]
      BY <1>2 DEF OrderType
  <2>2. Logged(c, s) = 0
      BY <1>6, Zenon DEF Logged
  <2>3. Logged(call[b], s) \in Nat
      BY <1>2, LoggedNat DEF CallSound
  <2> QED BY <2>1, <2>2, <2>3
<1>11. \A s \in Stocks \ overwritten' :
               PP!Unmoved(s)' + received[s] + UnloggedIn(call, s)
                   = PP!Unmoved(s) + received'[s] + UnloggedIn(call', s)
    BY <1>3, <1>9, Zenon DEF PP!SamePieces
<1>12. /\ order.version <= order'.version
       /\ order'.version = order.version => order' = order
    BY <1>2 DEF OrderType
<1>13. /\ stocked' \subseteq Stocks /\ received' \in [Stocks -> Nat]
       /\ overwritten' \subseteq Stocks /\ overwritten \subseteq overwritten'
    BY <1>2
<1> HIDE DEF c
<1> QED BY <1>1, <1>3, <1>6, <1>7, <1>9, <1>10, <1>11, <1>12, <1>13, BuyStep

\* A line that is through is in what its call has logged.
LEMMA AllLogged ==
    ASSUME NEW c \in CallType, LinesSound(c), c.at = "loaded", c.req \in Asked,
           DOMAIN c.puts = DOMAIN c.req.receipts,
           \A i \in DOMAIN c.puts : c.puts[i].at = "done", NEW s
    PROVE  Arrived(c.req.receipts, s, Len(c.req.receipts)) = Logged(c, s)
<1> DEFINE n == Len(c.req.receipts)
<1>1. DOMAIN c.req.receipts = 1 .. n /\ n \in 0 .. n
    BY ReceiptsAre
<1>2. {j \in 1 .. n : c.req.receipts[j].part = s} = LoggedLines(c, s)
    BY <1>1 DEF LoggedLines
<1>3. Arrived(c.req.receipts, s, n)
          = Total(Quantities(c.req.receipts), {j \in 1 .. n : c.req.receipts[j].part = s})
    BY <1>1, ArrivedIsTotal
<1> QED BY <1>2, <1>3, Zenon DEF Logged

\* The save of an order takes what its call has logged, and no more.
LEMMA SaveOrderStep ==
    ASSUME IInv, NEW b \in Buyers, SaveOrder(b)
    PROVE  IInv'
<1>1. /\ call[b].at = "loaded" /\ AllStored(b) /\ Stop(b)
      /\ order' = IF Current(call[b]) THEN Saved(call[b]) ELSE order
      /\ UNCHANGED <<partsVars, stocked, received, faults, overwritten>>
    BY DEF SaveOrder
<1>2. /\ call[b] \in CallType /\ CallSound(call[b], order) /\ LinesSound(call[b])
      /\ order \in OrderType /\ OrderSound(order) /\ faults \in 0 .. MaxFaults
    BY DEF IInv, OwnTypes, CallSound
<1>3. \A s \in Stocks : Logged(call[b], s) \in Nat /\ order.receipts[s] \in Nat
    BY <1>2, LoggedNat DEF OrderType
<1> HIDE DEF IInv
<1>4. CASE Current(call[b])
  <2> DEFINE n == Saved(call[b])
  <2>1. /\ n \in OrderType /\ OrderSound(n) /\ n.version = order.version + 1
        /\ call[b].req.op # "receive" => n.receipts = order.receipts
        /\ call[b].req.op = "receive" =>
               \A s \in Stocks : n.receipts[s] <= order.receipts[s]
                     + Arrived(call[b].req.receipts, s, Len(call[b].req.receipts))
      BY <1>1, <1>2, <1>4, SavedIs
  <2>2. order' = n
      BY <1>1, <1>4
  <2>3. call[b].req.op = "receive" =>
            \A s : Arrived(call[b].req.receipts, s, Len(call[b].req.receipts))
                       = Logged(call[b], s)
      BY <1>1, <1>2, AllLogged DEF CallSound, AllStored
  <2> HIDE DEF n
  <2>4. \A s \in Stocks : order'.receipts[s] <= order.receipts[s] + Logged(call[b], s)
      BY <1>3, <2>1, <2>2, <2>3
  <2>5. order' \in OrderType /\ OrderSound(order') /\ order'.version = order.version + 1
      BY <2>1, <2>2
  <2> QED BY <1>1, <1>2, <2>4, <2>5, EndStep
<1>5. CASE ~Current(call[b])
  <2>1. order' = order
      BY <1>1, <1>5
  <2>2. \A s \in Stocks : order'.receipts[s] <= order.receipts[s] + Logged(call[b], s)
      BY <1>3, <2>1
  <2> QED BY <1>1, <1>2, <2>1, <2>2, EndStep
<1> QED BY <1>4, <1>5

\* A call that is rejected or dies leaves the order alone.
LEMMA DropStep ==
    ASSUME IInv, NEW b \in Buyers, Reject(b) \/ Crash(b)
    PROVE  IInv'
<1>1. /\ call[b].at = "loaded" /\ Stop(b) /\ order' = order
      /\ UNCHANGED <<partsVars, stocked, received, overwritten>>
    BY DEF Reject, Crash
<1>2. /\ call[b] \in CallType /\ LinesSound(call[b])
      /\ order \in OrderType /\ OrderSound(order) /\ faults \in 0 .. MaxFaults
    BY DEF IInv, OwnTypes, CallSound
<1>3. faults' \in 0 .. MaxFaults
  <2>1. MaxFaults \in Nat
      BY PurchasingAssumption DEF PurchasingAssumption
  <2> QED BY <1>2, <2>1 DEF Reject, Crash
<1>4. \A s \in Stocks : order'.receipts[s] <= order.receipts[s] + Logged(call[b], s)
  <2>1. \A s \in Stocks : Logged(call[b], s) \in Nat /\ order.receipts[s] \in Nat
      BY <1>2, LoggedNat DEF OrderType
  <2> QED BY <1>1, <2>1
<1> HIDE DEF IInv
<1> QED BY <1>1, <1>2, <1>3, <1>4, EndStep

\* A step of a part call, or none.
LEMMA OtherStep ==
    ASSUME IInv, PP!Core', PP!SamePieces, UNCHANGED buyVars
    PROVE  IInv'
<1>1. UNCHANGED <<order, stocked, received, call, faults, overwritten>>
    BY DEF buyVars
<1>2. OwnTypes' /\ OrderSound(order') /\ \A b \in Buyers : CallSound(call'[b], order')
    BY <1>1 DEF IInv, OwnTypes
<1>3. Counted'
  <2>1. \A s \in Stocks : order.receipts[s] + InHands(call, s) <= received[s]
      BY DEF IInv, Counted
  <2> QED BY <1>1, <2>1, Zenon DEF Counted
<1>4. Explained'
  <2>1. \A s \in Stocks \ overwritten :
            /\ PP!Unmoved(s) = InitialOnHand[s] + received[s] + UnloggedIn(call, s)
            /\ PP!Unmoved(s)' = PP!Unmoved(s)
      BY DEF IInv, Explained, PP!SamePieces
  <2> QED BY <1>1, <2>1, Zenon DEF Explained
<1> QED BY <1>2, <1>3, <1>4, Zenon DEF IInv

\* Nothing has been asked for at first.
LEMMA InitHolds == Init => IInv
<1> SUFFICES ASSUME Init PROVE IInv
    OBVIOUS
<1>1. /\ Parts!Init /\ stocked = Stocks \ Missing /\ received = Blank /\ faults = 0
      /\ call = [b \in Buyers |-> Nobody] /\ overwritten = {}
    BY DEF Init
<1>2. PICK n \in NewOrders : order = Placed(n)
    BY DEF Init
<1>3. PP!IInv
  <2>1. PP!PartsAssumption /\ PP!Init
      BY <1>1, SharedAssumption, SameTypes DEF SharedAssumption
  <2> QED BY <2>1, PP!InitHolds
<1>4. n.status \in Statuses /\ n.items \in [Stocks -> Nat]
    BY PurchasingAssumption DEF PurchasingAssumption
<1>5. Blank \in [Stocks -> Nat] /\ \A s \in Stocks : Blank[s] = 0
    BY DEF Blank
<1>6. order \in OrderType /\ OrderSound(order) /\ order.receipts = Blank
    BY <1>2, <1>4, <1>5 DEF Placed, OrderType, OrderSound
<1>7. Nobody \in CallType
  <2>1. <<>> \in Seq(PutType)
      OBVIOUS
  <2> QED BY <2>1 DEF Nobody, CallType
<1>8. OwnTypes
  <2>1. MaxFaults \in Nat
      BY PurchasingAssumption DEF PurchasingAssumption
  <2> QED BY <1>1, <1>5, <1>6, <1>7, <2>1 DEF OwnTypes
<1>9. \A b \in Buyers : CallSound(call[b], order)
    BY <1>1 DEF CallSound, LinesSound, Nobody
<1>10. Counted
  <2> SUFFICES ASSUME NEW s \in Stocks PROVE order.receipts[s] + InHands(call, s) <= received[s]
      BY DEF Counted
  <2>1. \A b \in Buyers : LoggedBy(call, s)[b] = 0
      BY <1>1 DEF LoggedBy, Logged, Nobody
  <2>2. InHands(call, s) = 0
      BY <2>1, SharedAssumption, TotalZero DEF SharedAssumption, InHands
  <2> QED BY <1>1, <1>5, <1>6, <2>2
<1>11. Explained
  <2> SUFFICES ASSUME NEW s \in Stocks
               PROVE  PP!Unmoved(s) = InitialOnHand[s] + received[s] + UnloggedIn(call, s)
      BY Zenon DEF Explained
  <2>1. PP!Unmoved(s) = InitialOnHand[s]
      BY <1>3 DEF PP!IInv
  <2>2. AwaitingLines(call, s) = {}
      BY <1>1 DEF AwaitingLines, Awaiting, Nobody
  <2>3. Total(QuantityIn(call), {}) = 0
      BY FS_EmptySet, TotalSplit DEF IntOn
  <2>4. UnloggedIn(call, s) = 0
      BY <2>2, <2>3, Zenon DEF UnloggedIn
  <2>5. received[s] = 0 /\ InitialOnHand[s] \in Nat
    <3>1. PP!PartsAssumption
        BY SharedAssumption, SameTypes DEF SharedAssumption
    <3> QED BY <1>1, <1>5, <3>1 DEF PP!PartsAssumption
  <2> QED BY <2>1, <2>4, <2>5
<1> QED BY <1>3, <1>6, <1>8, <1>9, <1>10, <1>11 DEF IInv, PP!IInv

\* Every step preserves the invariant.
LEMMA NextPreserves == IInv /\ [Next]_vars => IInv'
<1> SUFFICES ASSUME IInv, [Next]_vars PROVE IInv'
    OBVIOUS
<1>1. ASSUME NEW b \in Buyers, Buy(b) PROVE IInv'
  <2>1. CASE \E r \in Asked : Load(b, r)
      BY <2>1, LoadStep
  <2>2. ASSUME NEW i \in DOMAIN call[b].puts,
               \/ FindStock(b, i) \/ CreateStock(b, i) \/ SaveStock(b, i)
               \/ LogMovement(b, i) \/ SavePart(b, i) \/ FailLine(b, i)
        PROVE  IInv'
      BY <2>2, FindStockStep, CreateStockStep, SaveStockStep, LogMovementStep, SavePartStep,
         FailLineStep
  <2>3. CASE SaveOrder(b)
      BY <2>3, SaveOrderStep
  <2>4. CASE Reject(b) \/ Crash(b)
      BY <2>4, DropStep
  <2> QED BY <1>1, <2>1, <2>2, <2>3, <2>4 DEF Buy
<1>2. ASSUME NEW c \in Calls, UseParts(c), UNCHANGED buyVars PROVE IInv'
  <2>1. PP!Core' /\ PP!SamePieces
      BY <1>2, PartsStep DEF IInv
  <2> QED BY <1>2, <2>1, OtherStep
<1>3. CASE UNCHANGED vars
  <2>1. UNCHANGED partsVars /\ UNCHANGED buyVars
      BY <1>3 DEF vars
  <2>2. PP!Core' /\ PP!SamePieces
      BY <2>1, StockStands DEF IInv
  <2> QED BY <2>1, <2>2, OtherStep
<1> QED BY <1>1, <1>2, <1>3 DEF Next

\* The invariant holds.
THEOREM Invariance == Spec => []IInv
<1>1. Init => IInv
    BY InitHolds
<1>2. IInv /\ [Next]_vars => IInv'
    BY NextPreserves
<1> QED BY <1>1, <1>2, PTL DEF Spec

\* Types: whatever the buyers ask for and the part calls do.
THEOREM TypeCorrect == Spec => []TypeOK
<1>1. IInv => TypeOK
  <2> SUFFICES ASSUME IInv PROVE TypeOK
      OBVIOUS
  <2>1. Parts!TypeOK
      BY SameTypes DEF IInv, PP!Core
  <2> QED BY <2>1 DEF IInv, OwnTypes, CallType, TypeOK
<1> QED BY <1>1, Invariance, PTL

\* Receipts never disturb reservations, however they and the calls on parts
\* interleave.
THEOREM StockMatchesLines == Spec => []ReservedIsOnLines
<1>1. IInv => ReservedIsOnLines
  <2> SUFFICES ASSUME IInv PROVE ReservedIsOnLines
      OBVIOUS
  <2>1. PP!PartsAssumption /\ PP!Core
      BY SharedAssumption, SameTypes DEF SharedAssumption, IInv
  <2>2. PP!ReservedIsOnLines
      BY <2>1, PP!CoreMatchesLines
  <2> QED BY <2>2, SameTypes DEF ReservedIsOnLines
<1> QED BY <1>1, Invariance, PTL

\* The movement log explains the stock, but where a receipt has saved over what
\* another call had done, or has stopped before its movement.
THEOREM LogExplainsStock == Spec => []MovementsExplainStock
<1>1. IInv => MovementsExplainStock
  <2> SUFFICES ASSUME IInv, NEW s \in Stocks \ overwritten
               PROVE  onHand[s] = InitialOnHand[s] - moved[s]["reserve"] + moved[s]["unreserve"]
                                      + moved[s]["return"] + received[s] + Unlogged(s)
      BY Zenon DEF MovementsExplainStock
  <2>1. /\ call \in [Buyers -> CallType] /\ \A b \in Buyers : LinesSound(call[b])
        /\ received[s] \in Nat /\ PP!TypeOK
        /\ PP!Unmoved(s) = InitialOnHand[s] + received[s] + UnloggedIn(call, s)
      BY DEF IInv, OwnTypes, CallSound, Explained, PP!Core
  <2> HIDE DEF IInv
  <2>2. Unlogged(s) = UnloggedIn(call, s) /\ UnloggedIn(call, s) \in Nat
    <3> DEFINE A == AwaitingLines(call, s)
    <3>1. /\ A = {x \in UNION {{b} \X DOMAIN call[b].puts : b \in Buyers} :
                        call[x[1]].req.receipts[x[2]].part = s
                            /\ call[x[1]].puts[x[2]].at \in {"log", "lost"}}
          /\ IsFiniteSet(A) /\ NatOn(QuantityIn(call), A)
        BY <2>1, AwaitingAre
    <3>2. A \in SUBSET (Buyers \X Nat)
        BY DEF AwaitingLines
    <3>3. Unlogged(s) = MapThenSumSet(LAMBDA x : call[x[1]].req.receipts[x[2]].qty, A)
        BY <3>1, Zenon DEF Unlogged, PartOf, QtyOf
    <3> HIDE DEF A
    <3>4. MapThenSumSet(LAMBDA x : call[x[1]].req.receipts[x[2]].qty, A)
              = Total(QuantityIn(call), A)
        BY <3>1, <3>2, QuantitiesAreTotal, Zenon
    <3>5. Total(QuantityIn(call), A) \in Nat
        BY <3>1, TotalNat
    <3> QED BY <3>3, <3>4, <3>5, Zenon DEF A, UnloggedIn
  <2>3. /\ onHand[s] \in Nat /\ moved[s]["reserve"] \in Nat /\ moved[s]["unreserve"] \in Nat
        /\ moved[s]["return"] \in Nat
      BY <2>1 DEF PP!TypeOK, PP!Moves
  <2>4. InitialOnHand[s] \in Nat
    <3>1. PP!PartsAssumption
        BY SharedAssumption, SameTypes DEF SharedAssumption
    <3> QED BY <3>1 DEF PP!PartsAssumption
  <2>5. PP!Unmoved(s) = onHand[s] + moved[s]["reserve"] - moved[s]["unreserve"]
                            - moved[s]["return"]
      BY DEF PP!Unmoved
  <2> DEFINE h == onHand[s]
             r == moved[s]["reserve"]
             u == moved[s]["unreserve"]
             t == moved[s]["return"]
             g == received[s]
             w == Unlogged(s)
             h0 == InitialOnHand[s]
  <2>6. h \in Nat /\ r \in Nat /\ u \in Nat /\ t \in Nat /\ g \in Nat /\ w \in Nat /\ h0 \in Nat
      BY <2>1, <2>2, <2>3, <2>4, Zenon
  <2>7. h + r - u - t = h0 + g + w
      BY <2>1, <2>2, <2>5, Zenon
  <2> HIDE DEF h, r, u, t, g, w, h0
  <2>8. h = h0 - r + u + t + g + w
      BY <2>6, <2>7
  <2> QED BY <2>8, Zenon DEF h, r, u, t, g, w, h0
<1> QED BY <1>1, Invariance, PTL

\* The order never has pieces that the movement log does not have, and never more
\* on a line than was ordered.
THEOREM OrderNeverAheadOfLog == Spec => []OrderNeverAhead
<1>1. IInv => OrderNeverAhead
  <2> SUFFICES ASSUME IInv, NEW s \in Stocks
               PROVE  /\ order.receipts[s] <= received[s]
                      /\ order.receipts[s] = order.got[s]
                      /\ order.got[s] <= order.items[s]
      BY DEF OrderNeverAhead
  <2>1. /\ order.receipts[s] + InHands(call, s) <= received[s]
        /\ received[s] \in Nat /\ order \in OrderType /\ OrderSound(order)
        /\ call \in [Buyers -> CallType] /\ \A b \in Buyers : LinesSound(call[b])
      BY DEF IInv, OwnTypes, Counted, CallSound
  <2>2. InHands(call, s) \in Nat
    <3>1. NatOn(LoggedBy(call, s), Buyers)
        BY <2>1, LoggedNat DEF NatOn, LoggedBy
    <3> QED BY <3>1, TotalNat, SharedAssumption DEF InHands, SharedAssumption
  <2>3. order.receipts[s] \in Nat
      BY <2>1 DEF OrderType
  <2> QED BY <2>1, <2>2, <2>3 DEF OrderSound
<1> QED BY <1>1, Invariance, PTL

\* No receipt is recorded on an order that has ended while the delivery was being
\* put away: the save finds the order it has loaded, or none.
THEOREM NoLateReceipt == Spec => NoReceiptAfterEnd
<1>1. IInv /\ [Next]_vars =>
          [order'.receipts # order.receipts => order.status \in {"sent", "partially_received"}]_vars
  <2> SUFFICES ASSUME IInv, Next, order'.receipts # order.receipts
               PROVE  order.status \in {"sent", "partially_received"}
      OBVIOUS
  <2>1. PICK b \in Buyers : SaveOrder(b)
    <3>1. \A b \in Buyers : Buy(b) => SaveOrder(b) \/ order' = order
        BY DEF Buy, Load, FindStock, CreateStock, SaveStock, LogMovement, SavePart, FailLine,
               Reject, Crash
    <3>2. UNCHANGED buyVars => order' = order
        BY DEF buyVars
    <3> QED BY <3>1, <3>2 DEF Next
  <2>2. /\ call[b].at = "loaded" /\ Current(call[b]) /\ order' = Saved(call[b])
      BY <2>1 DEF SaveOrder
  <2>3. /\ call[b] \in CallType /\ CallSound(call[b], order)
        /\ order \in OrderType /\ OrderSound(order)
      BY DEF IInv, OwnTypes
  <2> HIDE DEF IInv
  <2>4. /\ call[b].req.op # "receive" => Saved(call[b]).receipts = order.receipts
        /\ call[b].req.op = "receive" => order.status \in {"sent", "partially_received"}
      BY <2>2, <2>3, SavedIs
  <2> QED BY <2>2, <2>4
<1> QED BY <1>1, Invariance, PTL DEF Spec, NoReceiptAfterEnd
=============================================================================
