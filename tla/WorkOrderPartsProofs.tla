------------------------ MODULE WorkOrderPartsProofs ------------------------
(***************************************************************************)
(* Proofs about WorkOrderParts, for any calls, work orders, stocks,        *)
(* requests and line items to begin with.                                  *)
(*                                                                         *)
(* The argument: an open transaction knows the documents that are not      *)
(* stale as they are (SnapSound), a commit writes only such documents, so  *)
(* it changes one line item, its stock and the log as if it had run alone  *)
(* (CommitEffect); sums over line items then move with the stock.          *)
(***************************************************************************)
EXTENDS WorkOrderParts, FiniteSums, SequenceTheorems

\* What the line items contribute to each of the sums.
ReservedOf(ls) == [i \in DOMAIN ls |-> ls[i].reserved]
PiecesIn(ls) == [i \in DOMAIN ls |-> ls[i].reserved + ls[i].issued]
CostsOf(ls) == [i \in DOMAIN ls |-> ls[i].issued * ls[i].cost]

LinesOf(ls, s) == {i \in DOMAIN ls : ls[i].stock = s}

\* The sums of the specification are totals of these functions.
LEMMA ReservedIsTotal ==
    ASSUME NEW ls, NEW A \in SUBSET DOMAIN ls, IsFiniteSet(A)
    PROVE  MapThenSumSet(LAMBDA i : ls[i].reserved, A) = Total(ReservedOf(ls), A)
<1> DEFINE F(h) == [s \in SUBSET A |->
                       IF s = {} THEN 0 ELSE ls[Picked(s)].reserved + h[s \ {Picked(s)}]]
           k == CHOOSE h : h = F(h)
<1>1. ASSUME NEW h PROVE h = F(h) <=> Summing(h, ReservedOf(ls), A)
  <2>1. ASSUME NEW s \in SUBSET A
        PROVE  (IF s = {} THEN 0 ELSE ls[Picked(s)].reserved + h[s \ {Picked(s)}])
                 = (IF s = {} THEN 0 ELSE ReservedOf(ls)[Picked(s)] + h[s \ {Picked(s)}])
    <3>1. s # {} => Picked(s) \in DOMAIN ls
        BY DEF Picked
    <3> QED BY <3>1 DEF ReservedOf
  <2> QED BY <2>1, Zenon DEF Summing
<1>2. k = F(k)
  <2>1. \E h : h = F(h)
      BY <1>1, SummingExists
  <2> QED BY <2>1, Zenon
<1>3. MapThenSumSet(LAMBDA i : ls[i].reserved, A) = k[A]
    BY Zenon DEF MapThenSumSet, MapThenFoldSet, Picked
<1>4. Summing(k, ReservedOf(ls), A)
    BY <1>1, <1>2
<1>5. k[A] = Total(ReservedOf(ls), A)
  <2> HIDE DEF k
  <2> QED BY <1>4, TotalIs
<1> QED BY <1>3, <1>5, Zenon

\* The same of the pieces of the lines.
LEMMA PiecesIsTotal ==
    ASSUME NEW ls, NEW A \in SUBSET DOMAIN ls, IsFiniteSet(A)
    PROVE  MapThenSumSet(LAMBDA i : ls[i].reserved + ls[i].issued, A) = Total(PiecesIn(ls), A)
<1> DEFINE F(h) == [s \in SUBSET A |->
                       IF s = {} THEN 0
                       ELSE (ls[Picked(s)].reserved + ls[Picked(s)].issued)
                                + h[s \ {Picked(s)}]]
           k == CHOOSE h : h = F(h)
<1>1. ASSUME NEW h PROVE h = F(h) <=> Summing(h, PiecesIn(ls), A)
  <2>1. ASSUME NEW s \in SUBSET A
        PROVE  (IF s = {} THEN 0
                ELSE (ls[Picked(s)].reserved + ls[Picked(s)].issued) + h[s \ {Picked(s)}])
                 = (IF s = {} THEN 0 ELSE PiecesIn(ls)[Picked(s)] + h[s \ {Picked(s)}])
    <3>1. s # {} => Picked(s) \in DOMAIN ls
        BY DEF Picked
    <3> QED BY <3>1 DEF PiecesIn
  <2> QED BY <2>1, Zenon DEF Summing
<1>2. k = F(k)
  <2>1. \E h : h = F(h)
      BY <1>1, SummingExists
  <2> QED BY <2>1, Zenon
<1>3. MapThenSumSet(LAMBDA i : ls[i].reserved + ls[i].issued, A) = k[A]
    BY Zenon DEF MapThenSumSet, MapThenFoldSet, Picked
<1>4. Summing(k, PiecesIn(ls), A)
    BY <1>1, <1>2
<1>5. k[A] = Total(PiecesIn(ls), A)
  <2> HIDE DEF k
  <2> QED BY <1>4, TotalIs
<1> QED BY <1>3, <1>5, Zenon

\* The same of their cost.
LEMMA CostIsTotal ==
    ASSUME NEW ls, NEW w, IsFiniteSet(Active(ls, w))
    PROVE  TotalOf(ls, w) = Total(CostsOf(ls), Active(ls, w))
<1> DEFINE A == Active(ls, w)
           F(h) == [s \in SUBSET A |->
                       IF s = {} THEN 0
                       ELSE ls[Picked(s)].issued * ls[Picked(s)].cost + h[s \ {Picked(s)}]]
           k == CHOOSE h : h = F(h)
<1>1. ASSUME NEW h PROVE h = F(h) <=> Summing(h, CostsOf(ls), A)
  <2>1. ASSUME NEW s \in SUBSET A
        PROVE  (IF s = {} THEN 0
                ELSE ls[Picked(s)].issued * ls[Picked(s)].cost + h[s \ {Picked(s)}])
                 = (IF s = {} THEN 0 ELSE CostsOf(ls)[Picked(s)] + h[s \ {Picked(s)}])
    <3>1. s # {} => Picked(s) \in DOMAIN ls
        BY DEF Picked, Active
    <3> QED BY <3>1 DEF CostsOf
  <2> HIDE DEF A
  <2> QED BY <2>1, Zenon DEF Summing
<1>2. k = F(k)
  <2>1. \E h : h = F(h)
      BY <1>1, SummingExists
  <2> QED BY <2>1, Zenon
<1>3. TotalOf(ls, w) = k[A]
    BY Zenon DEF TotalOf, MapThenSumSet, MapThenFoldSet, Picked
<1>4. Summing(k, CostsOf(ls), A)
    BY <1>1, <1>2
<1> HIDE DEF k
<1> QED BY <1>3, <1>4, TotalIs

----------------------------------------------------------------------------

\* The line items a sum runs over are finitely many.
LEMMA LinesFinite ==
    ASSUME NEW ls \in Seq(LineType), NEW A \in SUBSET DOMAIN ls
    PROVE  IsFiniteSet(A)
<1>1. DOMAIN ls = 1..Len(ls) /\ Len(ls) \in Nat
    BY LenProperties
<1>2. IsFiniteSet(1..Len(ls))
    BY <1>1, FS_Interval
<1> QED BY <1>1, <1>2, FS_Subset

\* A line item that replaces another, or is added.
Slots(ls) == DOMAIN ls \cup {Len(ls) + 1}

LinesWith(ls, i, new) ==
    IF i \in DOMAIN ls THEN [ls EXCEPT ![i] = new] ELSE Append(ls, new)

\* The line items after one has been replaced or added.
LEMMA LinesWithProperties ==
    ASSUME NEW ls \in Seq(LineType), NEW new \in LineType,
           NEW i \in Slots(ls)
    PROVE  /\ LinesWith(ls, i, new) \in Seq(LineType)
           /\ DOMAIN LinesWith(ls, i, new) = DOMAIN ls \cup {i}
           /\ LinesWith(ls, i, new)[i] = new
           /\ \A j \in DOMAIN ls : j # i => LinesWith(ls, i, new)[j] = ls[j]
<1>1. DOMAIN ls = 1..Len(ls) /\ Len(ls) \in Nat
    BY LenProperties
<1>2. CASE i \in DOMAIN ls
    BY <1>1, <1>2, ExceptSeq DEF LinesWith
<1>3. CASE i \notin DOMAIN ls
  <2>1. i = Len(ls) + 1 /\ LinesWith(ls, i, new) = Append(ls, new)
      BY <1>3 DEF LinesWith, Slots
  <2>2. /\ Append(ls, new) \in Seq(LineType)
        /\ Len(Append(ls, new)) = Len(ls) + 1
        /\ Append(ls, new)[Len(ls) + 1] = new
        /\ \A j \in 1..Len(ls) : Append(ls, new)[j] = ls[j]
      BY AppendProperties
  <2>3. DOMAIN Append(ls, new) = 1..(Len(ls) + 1)
      BY <2>2, LenProperties
  <2>4. 1..(Len(ls) + 1) = 1..Len(ls) \cup {Len(ls) + 1}
      BY <1>1
  <2> QED BY <1>1, <2>1, <2>2, <2>3, <2>4, Zenon
<1> QED BY <1>2, <1>3

\* The pieces that active lines of stock s reserve, and those that any of its
\* lines has reserved or issued.
ReservedAt(ls, s) == Total(ReservedOf(ls), ActiveOf(ls, s))
PiecesAt(ls, s) == Total(PiecesIn(ls), LinesOf(ls, s))

\* The sums are natural numbers, and no line reserves more than the sum.
LEMMA SumTypes ==
    ASSUME NEW ls \in Seq(LineType), NEW s
    PROVE  /\ IsFiniteSet(ActiveOf(ls, s)) /\ IsFiniteSet(LinesOf(ls, s))
           /\ ReservedAt(ls, s) \in Nat
           /\ PiecesAt(ls, s) \in Nat
           /\ \A i \in ActiveOf(ls, s) : ls[i].reserved <= ReservedAt(ls, s)
<1>1. /\ ActiveOf(ls, s) \in SUBSET DOMAIN ls
      /\ LinesOf(ls, s) \in SUBSET DOMAIN ls
    BY DEF ActiveOf, LinesOf
<1>2. IsFiniteSet(ActiveOf(ls, s)) /\ IsFiniteSet(LinesOf(ls, s))
    BY <1>1, LinesFinite
<1>3. \A i \in DOMAIN ls : ls[i] \in LineType
    BY LenProperties
<1>4. /\ NatOn(ReservedOf(ls), ActiveOf(ls, s))
      /\ NatOn(PiecesIn(ls), LinesOf(ls, s))
    BY <1>1, <1>3 DEF NatOn, ReservedOf, PiecesIn, LineType
<1>5. ReservedAt(ls, s) \in Nat
    BY <1>2, <1>4, TotalNat DEF ReservedAt
<1>6. PiecesAt(ls, s) \in Nat
    BY <1>2, <1>4, TotalNat DEF PiecesAt
<1>7. ASSUME NEW i \in ActiveOf(ls, s) PROVE ls[i].reserved <= ReservedAt(ls, s)
  <2>1. ReservedOf(ls)[i] <= Total(ReservedOf(ls), ActiveOf(ls, s))
      BY <1>2, <1>4, TotalNat
  <2> QED BY <1>1, <2>1 DEF ReservedOf, ReservedAt
<1> QED BY <1>2, <1>5, <1>6, <1>7

\* The sums of the specification, as totals over the lines of a stock.
LEMMA SumsAreTotals ==
    ASSUME NEW ls \in Seq(LineType), NEW s
    PROVE  /\ MapThenSumSet(LAMBDA i : ls[i].reserved, ActiveOf(ls, s)) = ReservedAt(ls, s)
           /\ MapThenSumSet(LAMBDA i : ls[i].reserved + ls[i].issued,
                            {i \in DOMAIN ls : ls[i].stock = s}) = PiecesAt(ls, s)
<1>1. /\ ActiveOf(ls, s) \in SUBSET DOMAIN ls
      /\ LinesOf(ls, s) \in SUBSET DOMAIN ls
    BY DEF ActiveOf, LinesOf
<1>2. IsFiniteSet(ActiveOf(ls, s)) /\ IsFiniteSet(LinesOf(ls, s))
    BY SumTypes
<1>3. MapThenSumSet(LAMBDA i : ls[i].reserved, ActiveOf(ls, s)) = ReservedAt(ls, s)
    BY <1>1, <1>2, ReservedIsTotal DEF ReservedAt
<1>4. MapThenSumSet(LAMBDA i : ls[i].reserved + ls[i].issued,
                    {i \in DOMAIN ls : ls[i].stock = s}) = PiecesAt(ls, s)
    BY <1>1, <1>2, PiecesIsTotal DEF PiecesAt, LinesOf
<1> QED BY <1>3, <1>4

\* The parts cost of a work order is a natural number.
LEMMA CostType ==
    ASSUME NEW ls \in Seq(LineType), NEW w
    PROVE  TotalOf(ls, w) \in Nat
<1>1. Active(ls, w) \in SUBSET DOMAIN ls
    BY DEF Active
<1>2. IsFiniteSet(Active(ls, w))
    BY <1>1, LinesFinite
<1>3. ASSUME NEW i \in DOMAIN ls PROVE ls[i].issued * ls[i].cost \in Nat
  <2>1. ls[i] \in LineType
      BY LenProperties
  <2>2. ls[i].issued \in Nat /\ ls[i].cost \in Nat
      BY <2>1 DEF LineType
  <2>3. \A a, b \in Nat : a * b \in Nat
      OBVIOUS
  <2> QED BY <2>2, <2>3
<1>4. NatOn(CostsOf(ls), Active(ls, w))
    BY <1>1, <1>3 DEF NatOn, CostsOf
<1> QED BY <1>2, <1>4, CostIsTotal, TotalNat

\* `new` takes the place of `old`, the active line item i or one without pieces.
Replaces(ls, i, old, new) ==
    /\ i \in DOMAIN ls => old = ls[i]
    /\ i \notin DOMAIN ls => old.reserved = 0 /\ old.issued = 0
    /\ ~old.deleted
    /\ new.stock = old.stock
    /\ new.deleted => new.reserved = 0

\* What a change of one line item, or a new one, does to both sums.
LEMMA SumsStep ==
    ASSUME NEW ls \in Seq(LineType), NEW old \in LineType, NEW new \in LineType,
           NEW i \in Slots(ls),
           Replaces(ls, i, old, new), NEW s
    PROVE  /\ ReservedAt(LinesWith(ls, i, new), s) =
                  ReservedAt(ls, s) + IF s = new.stock THEN new.reserved - old.reserved ELSE 0
           /\ PiecesAt(LinesWith(ls, i, new), s) =
                  PiecesAt(ls, s)
                    + IF s = new.stock
                      THEN (new.reserved + new.issued) - (old.reserved + old.issued) ELSE 0
<1> DEFINE next == LinesWith(ls, i, new)
           A == ActiveOf(ls, s)
           B == LinesOf(ls, s)
<1>1. /\ next \in Seq(LineType) /\ DOMAIN next = DOMAIN ls \cup {i} /\ next[i] = new
      /\ \A j \in DOMAIN ls : j # i => next[j] = ls[j]
  <2>1. /\ LinesWith(ls, i, new) \in Seq(LineType)
        /\ DOMAIN LinesWith(ls, i, new) = DOMAIN ls \cup {i}
        /\ LinesWith(ls, i, new)[i] = new
        /\ \A j \in DOMAIN ls : j # i => LinesWith(ls, i, new)[j] = ls[j]
      BY LinesWithProperties, Zenon
  <2> QED BY <2>1, Zenon
<1> SUFFICES
        /\ ReservedAt(next, s) =
               ReservedAt(ls, s) + IF s = new.stock THEN new.reserved - old.reserved ELSE 0
        /\ PiecesAt(next, s) =
               PiecesAt(ls, s)
                 + IF s = new.stock
                   THEN (new.reserved + new.issued) - (old.reserved + old.issued) ELSE 0
    OBVIOUS
<1> HIDE DEF next
<1>2. /\ \A j \in DOMAIN ls : ls[j] \in LineType
      /\ \A j \in DOMAIN next : next[j] \in LineType
    BY <1>1, LenProperties
<1>3. /\ IntOn(ReservedOf(ls), DOMAIN ls) /\ IntOn(PiecesIn(ls), DOMAIN ls)
      /\ IntOn(ReservedOf(next), DOMAIN next) /\ IntOn(PiecesIn(next), DOMAIN next)
  <2>1. /\ \A j \in DOMAIN ls : ls[j].reserved \in Nat /\ ls[j].issued \in Nat
        /\ \A j \in DOMAIN next : next[j].reserved \in Nat /\ next[j].issued \in Nat
      BY <1>2 DEF LineType
  <2>2. \A a, b \in Nat : a \in Int /\ a + b \in Int
      OBVIOUS
  <2> QED BY <2>1, <2>2, Zenon DEF IntOn, ReservedOf, PiecesIn
<1>4. IsFiniteSet(A) /\ IsFiniteSet(B) /\ A \subseteq DOMAIN ls /\ B \subseteq DOMAIN ls
    BY LinesFinite DEF ActiveOf, LinesOf
<1>5. /\ \A j \in DOMAIN ls : j # i => ReservedOf(next)[j] = ReservedOf(ls)[j]
                                    /\ PiecesIn(next)[j] = PiecesIn(ls)[j]
      /\ ReservedOf(next)[i] = new.reserved /\ PiecesIn(next)[i] = new.reserved + new.issued
      /\ i \in DOMAIN ls => /\ ReservedOf(ls)[i] = old.reserved
                            /\ PiecesIn(ls)[i] = old.reserved + old.issued
    BY <1>1 DEF ReservedOf, PiecesIn, Replaces
<1>6. ReservedAt(ls, s) \in Int /\ PiecesAt(ls, s) \in Int
    BY SumTypes
<1>7. /\ new.reserved \in Int /\ new.issued \in Int
      /\ old.reserved \in Int /\ old.issued \in Int
    BY DEF LineType
<1>8. CASE s # new.stock
  <2>1. ActiveOf(next, s) = A /\ LinesOf(next, s) = B /\ i \notin A /\ i \notin B
      BY <1>1, <1>8 DEF ActiveOf, LinesOf, Replaces
  <2>2. /\ Total(ReservedOf(next), A) = Total(ReservedOf(ls), A)
        /\ Total(PiecesIn(next), B) = Total(PiecesIn(ls), B)
    <3> HIDE DEF A, B
    <3> QED BY <1>4, <1>5, <2>1, TotalSame
  <2> QED BY <1>6, <1>8, <2>1, <2>2 DEF ReservedAt, PiecesAt
<1>9. CASE s = new.stock /\ i \in DOMAIN ls
  <2>1. i \in A /\ i \in B /\ LinesOf(next, s) = B
        /\ ActiveOf(next, s) = IF new.deleted THEN A \ {i} ELSE A
      BY <1>1, <1>9 DEF ActiveOf, LinesOf, Replaces
  <2>2. Total(PiecesIn(next), B) =
            Total(PiecesIn(ls), B) - (old.reserved + old.issued) + (new.reserved + new.issued)
    <3>1. IntOn(PiecesIn(ls), B) /\ IntOn(PiecesIn(next), B)
        BY <1>1, <1>3, <1>4 DEF IntOn
    <3>2. \A j \in B : j # i => PiecesIn(next)[j] = PiecesIn(ls)[j]
        BY <1>4, <1>5
    <3> HIDE DEF B
    <3>3. Total(PiecesIn(next), B) = Total(PiecesIn(ls), B) - PiecesIn(ls)[i] + PiecesIn(next)[i]
        BY <1>4, <2>1, <3>1, <3>2, TotalChange
    <3> QED BY <1>5, <1>9, <3>3
  <2>3. PiecesAt(next, s) =
            PiecesAt(ls, s) + ((new.reserved + new.issued) - (old.reserved + old.issued))
      BY <1>6, <1>7, <2>1, <2>2 DEF PiecesAt
  <2>4. IntOn(ReservedOf(ls), A) /\ IntOn(ReservedOf(next), A)
      BY <1>1, <1>3, <1>4 DEF IntOn
  <2>5. \A j \in A : j # i => ReservedOf(next)[j] = ReservedOf(ls)[j]
      BY <1>4, <1>5
  <2>6. CASE ~new.deleted
    <3>1. Total(ReservedOf(next), A) =
              Total(ReservedOf(ls), A) - ReservedOf(ls)[i] + ReservedOf(next)[i]
      <4> HIDE DEF A
      <4> QED BY <1>4, <2>1, <2>4, <2>5, TotalChange
    <3>2. ReservedAt(next, s) = ReservedAt(ls, s) + (new.reserved - old.reserved)
        BY <1>5, <1>6, <1>7, <1>9, <2>1, <2>6, <3>1 DEF ReservedAt
    <3> QED BY <1>9, <2>3, <3>2
  <2>7. CASE new.deleted
    <3>1. /\ Total(ReservedOf(ls), A) = ReservedOf(ls)[i] + Total(ReservedOf(ls), A \ {i})
          /\ Total(ReservedOf(ls), A \ {i}) \in Int
      <4> HIDE DEF A
      <4> QED BY <1>4, <2>1, <2>4, TotalSplit
    <3>2. Total(ReservedOf(next), A \ {i}) = Total(ReservedOf(ls), A \ {i})
      <4>1. IsFiniteSet(A \ {i})
          BY <1>4, FS_Subset, A \ {i} \in SUBSET A
      <4> HIDE DEF A
      <4> QED BY <2>5, <4>1, TotalSame
    <3>3. ReservedAt(next, s) = ReservedAt(ls, s) + (new.reserved - old.reserved)
        BY <1>5, <1>6, <1>7, <1>9, <2>1, <2>7, <3>1, <3>2 DEF ReservedAt, Replaces
    <3> QED BY <1>9, <2>3, <3>3
  <2> QED BY <2>6, <2>7
<1>10. CASE s = new.stock /\ i \notin DOMAIN ls
  <2>1. i \notin A /\ i \notin B /\ LinesOf(next, s) = B \cup {i}
        /\ ActiveOf(next, s) = IF new.deleted THEN A ELSE A \cup {i}
      BY <1>1, <1>10 DEF ActiveOf, LinesOf, Replaces
  <2>2. /\ Total(ReservedOf(next), A) = Total(ReservedOf(ls), A)
        /\ Total(PiecesIn(next), B) = Total(PiecesIn(ls), B)
    <3>1. /\ \A j \in A : ReservedOf(next)[j] = ReservedOf(ls)[j]
          /\ \A j \in B : PiecesIn(next)[j] = PiecesIn(ls)[j]
        BY <1>4, <1>5, <2>1
    <3> HIDE DEF A, B
    <3> QED BY <1>4, <3>1, TotalSame
  <2>3. IntOn(ReservedOf(next), A \cup {i}) /\ IntOn(PiecesIn(next), B \cup {i})
      BY <1>1, <1>3, <1>4 DEF IntOn
  <2>4. /\ Total(ReservedOf(next), A \cup {i}) = Total(ReservedOf(next), A) + new.reserved
        /\ Total(PiecesIn(next), B \cup {i})
              = Total(PiecesIn(next), B) + (new.reserved + new.issued)
    <3> HIDE DEF A, B
    <3>1. /\ Total(ReservedOf(next), A \cup {i})
                = Total(ReservedOf(next), A) + ReservedOf(next)[i]
          /\ Total(PiecesIn(next), B \cup {i}) = Total(PiecesIn(next), B) + PiecesIn(next)[i]
        BY <1>4, <2>1, <2>3, TotalAdd
    <3> QED BY <1>5, <3>1
  <2>5. PiecesAt(next, s) =
            PiecesAt(ls, s) + ((new.reserved + new.issued) - (old.reserved + old.issued))
    <3>1. old.reserved = 0 /\ old.issued = 0
        BY <1>10 DEF Replaces
    <3>2. PiecesAt(next, s) = PiecesAt(ls, s) + (new.reserved + new.issued)
        BY <2>1, <2>2, <2>4 DEF PiecesAt
    <3> QED BY <1>6, <1>7, <3>1, <3>2
  <2>6. ReservedAt(next, s) = ReservedAt(ls, s) + (new.reserved - old.reserved)
      BY <1>6, <1>7, <1>10, <2>1, <2>2, <2>4 DEF ReservedAt, Replaces
  <2> QED BY <1>10, <2>5, <2>6
<1> QED BY <1>8, <1>9, <1>10

----------------------------------------------------------------------------

\* The pieces that a move takes from a stock's shelf, or puts there, and those
\* it issues to a line item.
OnHandChange(m, q) ==
    CASE m = "reserve" -> -q [] m \in {"unreserve", "return"} -> q [] m = "issue" -> 0
IssuedChange(m, q) ==
    CASE m = "issue" -> q [] m = "return" -> -q [] m \in {"reserve", "unreserve"} -> 0

\* Where LinesAfter puts the line item.
Slot(r, v, ls) == IF Found(r, v) = {} THEN Len(ls) + 1 ELSE CHOOSE i \in Found(r, v) : TRUE

\* The line item that a request accepted on view v works on.
LEMMA LineFacts ==
    ASSUME NEW r \in RequestType, NEW v \in StoreType, ~Refused(r, v)
    PROVE  /\ Line(r, v) \in LineType
           /\ ~Line(r, v).deleted
           /\ Line(r, v).wo = r.wo
           /\ r.op # "delete" => Line(r, v).stock = r.stock
           /\ Found(r, v) = {} =>
                  r.op = "reserve" /\ Line(r, v).reserved = 0 /\ Line(r, v).issued = 0
           /\ Found(r, v) # {} =>
                  /\ Slot(r, v, v.lines) \in Found(r, v)
                  /\ Slot(r, v, v.lines) \in DOMAIN v.lines
                  /\ Line(r, v) = v.lines[Slot(r, v, v.lines)]
<1>1. /\ r.op \in Ops /\ r.wo \in WorkOrders /\ r.stock \in Stocks
      /\ r.qty \in Nat /\ r.qty > 0
    BY DEF RequestType
<1>2. v.lines \in Seq(LineType)
    BY DEF StoreType
<1>3. \A i \in DOMAIN v.lines : v.lines[i] \in LineType
    BY <1>2, LenProperties
<1>4. CASE Found(r, v) = {}
  <2> DEFINE L == [wo |-> r.wo, stock |-> r.stock, reserved |-> 0, issued |-> 0,
                   cost |-> PartCost, deleted |-> FALSE]
  <2>1. Line(r, v) = L
      BY <1>4 DEF Line
  <2>2. L \in LineType
      BY <1>1, PartsAssumption DEF LineType
  <2>3. r.op \notin {"unreserve", "return", "delete"}
      BY <1>4 DEF Refused
  <2>4. L.reserved < r.qty
      BY <1>1
  <2>5. r.op # "issue"
      BY <2>1, <2>4 DEF Refused
  <2>6. r.op = "reserve"
      BY <1>1, <2>3, <2>5 DEF Ops, Moves
  <2> QED BY <1>4, <2>1, <2>2, <2>6
<1>5. CASE Found(r, v) # {}
  <2> DEFINE i == Slot(r, v, v.lines)
  <2>1. i \in Found(r, v) /\ Line(r, v) = v.lines[i]
      BY <1>5 DEF Slot, Line
  <2>2. /\ i \in DOMAIN v.lines /\ v.lines[i].wo = r.wo /\ ~v.lines[i].deleted
        /\ r.op # "delete" => v.lines[i].stock = r.stock
      BY <2>1 DEF Found, Active, ActiveOf
  <2> QED BY <1>3, <1>5, <2>1, <2>2
<1> QED BY <1>4, <1>5

\* What the request does with it.
LEMMA AfterFacts ==
    ASSUME NEW r \in RequestType, NEW v \in StoreType, ~Refused(r, v)
    PROVE  LET old == Line(r, v)
               new == LineAfter(r, v)
               s == Stock(r, v)
               m == Move(r)
               q == Quantity(r, v)
           IN  /\ s \in Stocks /\ m \in Moves /\ q \in Nat
               /\ new \in LineType
               /\ new.wo = old.wo /\ new.stock = old.stock /\ old.stock = s
               /\ new.reserved = old.reserved + ReservedChange(m, q)
               /\ new.issued = old.issued + IssuedChange(m, q)
               /\ new.deleted <=> r.op = "delete"
               /\ new.deleted => new.reserved = 0 /\ m = "unreserve" /\ q = old.reserved
               /\ OnHandAfter(r, v) = v.onHand[s] + OnHandChange(m, q)
               /\ OnHandAfter(r, v) \in Nat
               /\ ~new.deleted =>
                      /\ q > 0
                      /\ v.reserved[s] + ReservedChange(m, q) >= 0
<1> DEFINE old == Line(r, v)
           new == LineAfter(r, v)
           s == Stock(r, v)
           m == Move(r)
           q == Quantity(r, v)
<1>1. /\ r.op \in Ops /\ r.wo \in WorkOrders /\ r.stock \in Stocks
      /\ r.qty \in Nat /\ r.qty > 0 /\ r.cost \in Nat \cup {NoCost}
    BY DEF RequestType
<1>2. /\ old \in LineType
      /\ r.op # "delete" => old.stock = r.stock
    BY LineFacts
<1>3. s = old.stock
    BY DEF Stock
<1>4. /\ m = IF r.op = "delete" THEN "unreserve" ELSE r.op
      /\ q = IF r.op = "delete" THEN old.reserved ELSE r.qty
    BY DEF Move, Quantity
<1>r. ~ \/ r.op = "reserve" /\ v.onHand[r.stock] < r.qty
        \/ /\ r.op \in {"unreserve", "issue"}
           /\ old.reserved < r.qty \/ v.reserved[r.stock] < r.qty
        \/ r.op = "return" /\ old.issued < r.qty
    BY Zenon DEF Refused
<1>n. new = [old EXCEPT
                !.reserved = @ + ReservedChange(m, q),
                !.issued = CASE r.op = "issue" -> @ + r.qty
                             [] r.op = "return" -> @ - r.qty
                             [] OTHER -> @,
                !.cost = IF r.op \in {"reserve", "issue"} /\ r.cost # NoCost THEN r.cost ELSE @,
                !.deleted = r.op = "delete"]
    BY Zenon DEF LineAfter
<1>h. OnHandAfter(r, v) = v.onHand[s]
          + CASE m = "reserve" -> -q [] m \in {"unreserve", "return"} -> q [] m = "issue" -> 0
    BY DEF OnHandAfter
<1> HIDE DEF old, new, s, m, q
<1>5. /\ old.stock \in Stocks /\ old.reserved \in Nat /\ old.issued \in Nat
      /\ old.cost \in Nat /\ old.wo \in WorkOrders
    BY <1>2 DEF LineType
<1>6. m \in Moves /\ q \in Nat
    BY <1>1, <1>4, <1>5 DEF Ops, Moves
<1>7. /\ v.onHand[s] \in Nat /\ v.reserved[s] \in Nat
    BY <1>3, <1>5 DEF StoreType
<1>8. /\ r.op = "reserve" => v.onHand[s] >= q
      /\ r.op \in {"unreserve", "issue"} => old.reserved >= q /\ v.reserved[s] >= q
      /\ r.op = "return" => old.issued >= q
      /\ r.op = "delete" => old.reserved = q
    BY <1>1, <1>2, <1>3, <1>4, <1>5, <1>7, <1>r
<1> DEFINE x == old.reserved + ReservedChange(m, q)
           y == CASE r.op = "issue" -> old.issued + r.qty
                  [] r.op = "return" -> old.issued - r.qty
                  [] OTHER -> old.issued
           z == IF r.op \in {"reserve", "issue"} /\ r.cost # NoCost THEN r.cost ELSE old.cost
           d == r.op = "delete"
<1>9. new = [old EXCEPT !.reserved = x, !.issued = y, !.cost = z, !.deleted = d]
    BY <1>n, Zenon
<1>10. x \in Nat
    BY <1>1, <1>4, <1>5, <1>6, <1>8 DEF ReservedChange, Ops, Moves
<1>11. y \in Nat /\ y = old.issued + IssuedChange(m, q)
    BY <1>1, <1>4, <1>5, <1>6, <1>8 DEF IssuedChange, Ops, Moves
<1>12. z \in Nat
    BY <1>1, <1>5
<1>13. d \in BOOLEAN /\ (d <=> r.op = "delete")
    OBVIOUS
<1>14. d => x = 0 /\ m = "unreserve" /\ q = old.reserved
    BY <1>4, <1>5 DEF ReservedChange
<1>15. /\ OnHandAfter(r, v) = v.onHand[s] + OnHandChange(m, q)
       /\ OnHandAfter(r, v) \in Nat
  <2>2. OnHandAfter(r, v) = v.onHand[s] + OnHandChange(m, q)
      BY <1>h, Zenon DEF OnHandChange
  <2>3. v.onHand[s] + OnHandChange(m, q) \in Nat
      BY <1>1, <1>4, <1>6, <1>7, <1>8 DEF OnHandChange, Ops, Moves
  <2> QED BY <2>2, <2>3
<1>16. ~d => q > 0 /\ v.reserved[s] + ReservedChange(m, q) >= 0
    BY <1>1, <1>4, <1>6, <1>7, <1>8 DEF ReservedChange, Ops, Moves
<1>17. /\ new \in LineType /\ new.wo = old.wo /\ new.stock = old.stock
       /\ new.reserved = x /\ new.issued = y /\ (new.deleted <=> d)
  <2> HIDE DEF x, y, z, d
  <2> QED BY <1>2, <1>9, <1>10, <1>11, <1>12, <1>13 DEF LineType
<1>18. /\ s \in Stocks /\ m \in Moves /\ q \in Nat
       /\ new \in LineType
       /\ new.wo = old.wo /\ new.stock = old.stock /\ old.stock = s
       /\ new.reserved = old.reserved + ReservedChange(m, q)
       /\ new.issued = old.issued + IssuedChange(m, q)
       /\ new.deleted <=> r.op = "delete"
       /\ new.deleted => new.reserved = 0 /\ m = "unreserve" /\ q = old.reserved
       /\ OnHandAfter(r, v) = v.onHand[s] + OnHandChange(m, q)
       /\ OnHandAfter(r, v) \in Nat
       /\ ~new.deleted => q > 0 /\ v.reserved[s] + ReservedChange(m, q) >= 0
  <2> HIDE DEF d, y
  <2> QED BY <1>3, <1>5, <1>6, <1>11, <1>13, <1>14, <1>15, <1>16, <1>17
<1> QED BY <1>18, Zenon DEF old, new, s, m, q

\* LinesAfter replaces that line item, or adds it.
LEMMA LinesAfterIs ==
    ASSUME NEW r \in RequestType, NEW v \in StoreType, ~Refused(r, v),
           NEW ls \in Seq(LineType), DOMAIN v.lines \subseteq DOMAIN ls
    PROVE  /\ LinesAfter(r, v, ls) = LinesWith(ls, Slot(r, v, ls), LineAfter(r, v))
           /\ Slot(r, v, ls) \in Slots(ls)
           /\ Found(r, v) # {} =>
                  /\ Slot(r, v, ls) \in Found(r, v) /\ Slot(r, v, ls) \in DOMAIN v.lines
                  /\ Line(r, v) = v.lines[Slot(r, v, ls)]
           /\ Found(r, v) = {} => Slot(r, v, ls) \notin DOMAIN ls
<1>1. DOMAIN ls = 1..Len(ls) /\ Len(ls) \in Nat
    BY LenProperties
<1>2. CASE Found(r, v) = {}
  <2>1. Slot(r, v, ls) = Len(ls) + 1 /\ Len(ls) + 1 \notin DOMAIN ls
      BY <1>1, <1>2 DEF Slot
  <2> QED BY <1>2, <2>1, Zenon DEF LinesAfter, LinesWith, Slots
<1>3. CASE Found(r, v) # {}
  <2>1. /\ Slot(r, v, ls) = CHOOSE i \in Found(r, v) : TRUE
        /\ Slot(r, v, v.lines) = CHOOSE i \in Found(r, v) : TRUE
      BY <1>3 DEF Slot
  <2>2. /\ Slot(r, v, ls) \in Found(r, v) /\ Slot(r, v, ls) \in DOMAIN v.lines
        /\ Line(r, v) = v.lines[Slot(r, v, ls)]
      BY <1>3, <2>1, LineFacts
  <2>3. Slot(r, v, ls) \in DOMAIN ls
      BY <2>2
  <2> QED BY <1>3, <2>1, <2>2, <2>3, Zenon DEF LinesAfter, LinesWith, Slots
<1> QED BY <1>2, <1>3

----------------------------------------------------------------------------

\* Lines of an earlier view are still there, deleted ones deleted.
LinesKept(old, new) ==
    /\ DOMAIN old \subseteq DOMAIN new
    /\ \A i \in DOMAIN old :
           /\ new[i].wo = old[i].wo /\ new[i].stock = old[i].stock
           /\ old[i].deleted => new[i].deleted

\* View v is up to date about stock s: no line has been created on it since,
\* because a call that creates a line item also reserves pieces of the stock.
FreshStock(v, s) ==
    /\ v.onHand[s] = onHand[s]
    /\ v.reserved[s] = reserved[s]
    /\ \A i \in DOMAIN lines : lines[i].stock = s => i \in DOMAIN v.lines

FreshLine(v, i) == lines[i] = v.lines[i]

\* What an open transaction may rely on: all documents that are not stale are
\* as in its snapshot.
SnapSound(c) ==
    /\ snap[c] \in StoreType
    /\ ~Refused(request[c], snap[c])
    /\ LinesKept(snap[c].lines, lines)
    /\ \A s \in Stocks : <<"stock", s>> \notin stale[c] => FreshStock(snap[c], s)
    /\ \A i \in DOMAIN snap[c].lines :
           <<"line", i>> \notin stale[c] => FreshLine(snap[c], i)

CallSound(c) ==
    /\ pc[c] \in {"loaded", "open"} => request[c] \in Requests
    /\ pc[c] = "open" => SnapSound(c)

\* ReservedIsOnLines, as totals.
StockSums == \A s \in Stocks : reserved[s] = ReservedAt(lines, s)

\* What holds of the calls whatever else writes the quantity on hand.
Core ==
    /\ TypeOK
    /\ StockSums
    /\ OneActiveLine
    /\ DOMAIN stale = Calls
    /\ \A c \in Calls : CallSound(c)

\* The pieces of a stock, and its quantity on hand before the movements of the
\* log: no call changes either.
Pieces(s) == onHand[s] + PiecesAt(lines, s)
Unmoved(s) ==
    onHand[s] + moved[s]["reserve"] - moved[s]["unreserve"] - moved[s]["return"]

SamePieces == \A s \in Stocks : Pieces(s)' = Pieces(s) /\ Unmoved(s)' = Unmoved(s)

\* The inductive invariant.
IInv ==
    /\ Core
    /\ \A s \in Stocks :
           /\ Pieces(s) = InitialOnHand[s] + PiecesAt(InitialLines, s)
           /\ Unmoved(s) = InitialOnHand[s]

----------------------------------------------------------------------------

\* A movement of no pieces changes nothing.
LEMMA NoChange ==
    ASSUME NEW m \in Moves, NEW q \in Nat
    PROVE  q = 0 => OnHandChange(m, q) = 0 /\ ReservedChange(m, q) = 0
<1>1. m \in {"reserve", "unreserve", "issue", "return"}
    BY DEF Moves
<1>2. \A x \in Nat : x <= 0 => -x = 0
    OBVIOUS
<1>3. q = 0 => -q = 0
    BY <1>2, 0 \in Nat, 0 <= 0, Zenon
<1> QED BY <1>1, <1>3, Zenon DEF OnHandChange, ReservedChange

\* What a commit does, in terms of one line item i, one stock s and a movement of
\* q pieces.
Effect(c, i, old, new, s, m, q) ==
    /\ Replaces(lines, i, old, new) /\ new.wo = old.wo /\ new.stock = s
    /\ new.reserved = old.reserved + ReservedChange(m, q)
    /\ new.issued = old.issued + IssuedChange(m, q)
    /\ lines' = LinesWith(lines, i, new)
    /\ onHand' \in [Stocks -> Nat] /\ reserved' \in [Stocks -> Nat]
    /\ moved' \in [Stocks -> [Moves -> Nat]] /\ total' \in [WorkOrders -> Nat]
    /\ \A t \in Stocks :
           /\ onHand'[t] = onHand[t] + IF t = s THEN OnHandChange(m, q) ELSE 0
           /\ reserved'[t] = reserved[t] + IF t = s THEN ReservedChange(m, q) ELSE 0
           /\ \A k \in Moves :
                  moved'[t][k] = moved[t][k] + IF t = s /\ k = m THEN q ELSE 0
    /\ i \in DOMAIN lines => <<"line", i>> \in Written(c)
    /\ q # 0 => <<"stock", s>> \in Written(c)
    /\ i \notin DOMAIN lines =>
           /\ q # 0
           /\ \A j \in DOMAIN lines :
                  lines[j].wo = new.wo /\ lines[j].stock = s => lines[j].deleted

\* Every commit has such an effect: what its snapshot said of the documents it writes
\* still holds.
LEMMA CommitEffect ==
    ASSUME Core, NEW c \in Calls, Commit(c)
    PROVE  \E i \in Slots(lines), old \in LineType, new \in LineType,
              s \in Stocks, m \in Moves, q \in Nat : Effect(c, i, old, new, s, m, q)
<1> DEFINE r == request[c]
           v == snap[c]
           i == Slot(r, v, lines)
           old == Line(r, v)
           new == LineAfter(r, v)
           s == Stock(r, v)
           m == Move(r)
           q == Quantity(r, v)
<1>1. /\ pc[c] = "open"
      /\ Written(c) \cap stale[c] = {}
      /\ IF SavesStock(c)
         THEN /\ onHand' = [onHand EXCEPT ![s] = OnHandAfter(r, v)]
              /\ reserved' = [reserved EXCEPT ![s] = ReservedAfter(r, v)]
              /\ moved' = [moved EXCEPT ![s][m] = @ + q]
         ELSE onHand' = onHand /\ reserved' = reserved /\ moved' = moved
      /\ lines' = LinesAfter(r, v, lines)
      /\ total' = IF SavesOrder(c) THEN [total EXCEPT ![r.wo] = NewTotal(c)] ELSE total
    BY Zenon DEF Commit
<1>2. /\ SavesStock(c) <=> q # 0
      /\ <<"stock", s>> \in Written(c) <=> s \in Stocks /\ SavesStock(c)
      /\ \A j \in Found(r, v) : <<"line", j>> \in Written(c)
    BY DEF SavesStock, Written
<1>3. NewTotal(c) = TotalOf(LinesAfter(r, v, v.lines), r.wo)
    BY DEF NewTotal
<1>4. /\ r \in RequestType /\ v \in StoreType /\ ~Refused(r, v)
      /\ LinesKept(v.lines, lines)
      /\ \A t \in Stocks : <<"stock", t>> \notin stale[c] => FreshStock(v, t)
      /\ \A j \in DOMAIN v.lines : <<"line", j>> \notin stale[c] => FreshLine(v, j)
    BY <1>1, PartsAssumption DEF Core, CallSound, SnapSound
<1>5. /\ onHand \in [Stocks -> Nat] /\ reserved \in [Stocks -> Nat]
      /\ lines \in Seq(LineType) /\ moved \in [Stocks -> [Moves -> Nat]]
      /\ total \in [WorkOrders -> Nat]
    BY DEF Core, TypeOK
<1>6. r.wo \in WorkOrders /\ v.lines \in Seq(LineType)
    BY <1>4 DEF RequestType, StoreType
<1> HIDE DEF r, v
<1>7. DOMAIN v.lines \subseteq DOMAIN lines
    BY <1>4 DEF LinesKept
<1>8. /\ old \in LineType /\ ~old.deleted /\ old.wo = r.wo
      /\ Found(r, v) = {} => /\ r.op = "reserve" /\ old.stock = r.stock
                             /\ old.reserved = 0 /\ old.issued = 0
    BY <1>4, LineFacts
<1>9. /\ s \in Stocks /\ m \in Moves /\ q \in Nat
      /\ new \in LineType
      /\ new.wo = old.wo /\ new.stock = old.stock /\ old.stock = s
      /\ new.reserved = old.reserved + ReservedChange(m, q)
      /\ new.issued = old.issued + IssuedChange(m, q)
      /\ new.deleted <=> r.op = "delete"
      /\ new.deleted => new.reserved = 0 /\ m = "unreserve" /\ q = old.reserved
      /\ OnHandAfter(r, v) = v.onHand[s] + OnHandChange(m, q)
      /\ OnHandAfter(r, v) \in Nat
      /\ ~new.deleted => q > 0 /\ v.reserved[s] + ReservedChange(m, q) >= 0
    BY <1>4, AfterFacts, Zenon
<1>10. /\ lines' = LinesWith(lines, i, new) /\ i \in Slots(lines)
       /\ Found(r, v) # {} => i \in Found(r, v) /\ i \in DOMAIN v.lines /\ old = v.lines[i]
       /\ Found(r, v) = {} => i \notin DOMAIN lines
    BY <1>1, <1>4, <1>5, <1>7, LinesAfterIs, Zenon
<1>11. NewTotal(c) \in Nat
  <2>1. /\ LinesAfter(r, v, v.lines) = LinesWith(v.lines, Slot(r, v, v.lines), new)
        /\ Slot(r, v, v.lines) \in Slots(v.lines)
      BY <1>4, <1>6, LinesAfterIs, Zenon
  <2> DEFINE ls == v.lines
             k == Slot(r, v, v.lines)
  <2>2. ls \in Seq(LineType) /\ k \in Slots(ls) /\ new \in LineType
      BY <1>6, <1>9, <2>1, Zenon
  <2> HIDE DEF ls, k, new
  <2>3. LinesWith(ls, k, new) \in Seq(LineType)
      BY <2>2, LinesWithProperties
  <2>4. LinesAfter(r, v, v.lines) \in Seq(LineType)
      BY <2>1, <2>3, Zenon DEF ls, k
  <2> QED BY <1>3, <2>4, CostType
<1>12. ReservedAfter(r, v) =
           LET x == v.reserved[s] + ReservedChange(m, q) IN IF x >= 0 THEN x ELSE 0
  <2> DEFINE x == v.reserved[s] + ReservedChange(m, q)
  <2>1. x \in Int
      BY <1>4, <1>9 DEF StoreType, ReservedChange, Moves
  <2>2. ReservedAfter(r, v) = Max({0, x})
      BY Zenon DEF ReservedAfter
  <2> HIDE DEF x
  <2>3. Max({0, x}) = IF x >= 0 THEN x ELSE 0
      BY <2>1 DEF Max
  <2> QED BY <2>2, <2>3 DEF x
<1> HIDE DEF i, old, new, s, m, q
<1>13. Found(r, v) # {} => i \in DOMAIN lines /\ <<"line", i>> \in Written(c) /\ old = lines[i]
    BY <1>1, <1>2, <1>4, <1>7, <1>10 DEF FreshLine
<1>14. q # 0 => <<"stock", s>> \in Written(c) /\ FreshStock(v, s)
    BY <1>1, <1>2, <1>4, <1>9
<1>15. Replaces(lines, i, old, new)
    BY <1>8, <1>9, <1>10, <1>13 DEF Replaces
<1>16. q # 0 => /\ OnHandAfter(r, v) = onHand[s] + OnHandChange(m, q)
                /\ ReservedAfter(r, v) = reserved[s] + ReservedChange(m, q)
                /\ reserved[s] + ReservedChange(m, q) \in Nat
  <2> SUFFICES ASSUME q # 0
               PROVE  /\ OnHandAfter(r, v) = onHand[s] + OnHandChange(m, q)
                      /\ ReservedAfter(r, v) = reserved[s] + ReservedChange(m, q)
                      /\ reserved[s] + ReservedChange(m, q) \in Nat
      OBVIOUS
  <2>1. v.onHand[s] = onHand[s] /\ v.reserved[s] = reserved[s]
      BY <1>14 DEF FreshStock
  <2>2. reserved[s] \in Nat /\ ReservedChange(m, q) \in Int
      BY <1>5, <1>9 DEF ReservedChange, Moves
  <2>3. reserved[s] + ReservedChange(m, q) >= 0
    <3>1. CASE ~new.deleted
        BY <1>9, <2>1, <3>1
    <3>2. CASE new.deleted
      <4>1. Found(r, v) # {}
          BY <1>8, <1>9, <3>2
      <4>2. i \in ActiveOf(lines, s)
          BY <1>8, <1>9, <1>13, <4>1 DEF ActiveOf
      <4>3. lines[i].reserved <= ReservedAt(lines, s)
          BY <1>5, <4>2, SumTypes
      <4>4. q <= reserved[s]
          BY <1>9, <1>13, <3>2, <4>1, <4>3 DEF Core, StockSums
      <4> QED BY <1>9, <2>2, <3>2, <4>4 DEF ReservedChange
    <3> QED BY <3>1, <3>2
  <2> QED BY <1>9, <1>12, <2>1, <2>2, <2>3
<1>17. q = 0 => OnHandChange(m, q) = 0 /\ ReservedChange(m, q) = 0
    BY <1>9, NoChange
<1>18. /\ onHand' \in [Stocks -> Nat] /\ reserved' \in [Stocks -> Nat]
       /\ moved' \in [Stocks -> [Moves -> Nat]] /\ total' \in [WorkOrders -> Nat]
  <2>1. total' \in [WorkOrders -> Nat]
      BY <1>1, <1>5, <1>6, <1>11
  <2>2. CASE q = 0
      BY <1>1, <1>2, <1>5, <2>1, <2>2
  <2>3. CASE q # 0
    <3>1. /\ onHand' = [onHand EXCEPT ![s] = OnHandAfter(r, v)]
          /\ reserved' = [reserved EXCEPT ![s] = ReservedAfter(r, v)]
          /\ moved' = [moved EXCEPT ![s][m] = @ + q]
        BY <1>1, <1>2, <2>3
    <3>2. OnHandAfter(r, v) \in Nat /\ ReservedAfter(r, v) \in Nat
        BY <1>9, <1>16, <2>3
    <3>3. onHand' \in [Stocks -> Nat] /\ reserved' \in [Stocks -> Nat]
        BY <1>5, <3>1, <3>2
    <3>4. moved' \in [Stocks -> [Moves -> Nat]]
        BY <1>5, <1>9, <3>1
    <3> QED BY <2>1, <3>3, <3>4
  <2> QED BY <2>2, <2>3
<1>19. ASSUME NEW t \in Stocks
       PROVE  /\ onHand'[t] = onHand[t] + IF t = s THEN OnHandChange(m, q) ELSE 0
              /\ reserved'[t] = reserved[t] + IF t = s THEN ReservedChange(m, q) ELSE 0
              /\ \A k \in Moves :
                     moved'[t][k] = moved[t][k] + IF t = s /\ k = m THEN q ELSE 0
  <2>1. onHand[t] \in Nat /\ reserved[t] \in Nat /\ \A k \in Moves : moved[t][k] \in Nat
      BY <1>5
  <2>2. CASE q = 0
      BY <1>1, <1>2, <1>17, <2>1, <2>2
  <2>3. CASE q # 0
    <3>1. /\ onHand' = [onHand EXCEPT ![s] = OnHandAfter(r, v)]
          /\ reserved' = [reserved EXCEPT ![s] = ReservedAfter(r, v)]
          /\ moved' = [moved EXCEPT ![s][m] = @ + q]
        BY <1>1, <1>2, <2>3
    <3>2. /\ onHand'[t] = onHand[t] + IF t = s THEN OnHandChange(m, q) ELSE 0
          /\ reserved'[t] = reserved[t] + IF t = s THEN ReservedChange(m, q) ELSE 0
        BY <1>5, <1>16, <2>1, <2>3, <3>1
    <3>3. \A k \in Moves : moved'[t][k] = moved[t][k] + IF t = s /\ k = m THEN q ELSE 0
        BY <1>5, <1>9, <2>1, <3>1
    <3> QED BY <3>2, <3>3
  <2> QED BY <2>2, <2>3
<1>20. i \notin DOMAIN lines =>
           /\ q # 0
           /\ \A j \in DOMAIN lines :
                  lines[j].wo = new.wo /\ lines[j].stock = s => lines[j].deleted
  <2> SUFFICES ASSUME i \notin DOMAIN lines, NEW j \in DOMAIN lines,
                      lines[j].wo = new.wo, lines[j].stock = s
               PROVE  q # 0 /\ lines[j].deleted
    <3>1. i \notin DOMAIN lines => q # 0
        BY <1>8, <1>9, <1>10, <1>13
    <3> QED BY <3>1
  <2>1. Found(r, v) = {} /\ r.op = "reserve" /\ q # 0
      BY <1>8, <1>9, <1>13
  <2>2. j \in DOMAIN v.lines
      BY <1>14, <2>1 DEF FreshStock
  <2>3. /\ v.lines[j].wo = r.wo /\ v.lines[j].stock = r.stock
        /\ v.lines[j].deleted => lines[j].deleted
      BY <1>4, <1>8, <1>9, <2>1, <2>2 DEF LinesKept
  <2>4. v.lines[j].deleted
      BY <2>1, <2>2, <2>3 DEF Found, Active, ActiveOf
  <2> QED BY <2>1, <2>3, <2>4
<1>21. i \in DOMAIN lines => <<"line", i>> \in Written(c)
    BY <1>10, <1>13
<1>22. Effect(c, i, old, new, s, m, q)
    BY <1>9, <1>10, <1>14, <1>15, <1>18, <1>19, <1>20, <1>21 DEF Effect
<1> QED BY <1>8, <1>9, <1>10, <1>22

----------------------------------------------------------------------------

\* The stock and its lines stay in step, and the log with the stock.
LEMMA EffectOnSums ==
    ASSUME Core, NEW c, NEW i \in Slots(lines), NEW old \in LineType, NEW new \in LineType,
           NEW s \in Stocks, NEW m \in Moves, NEW q \in Nat, Effect(c, i, old, new, s, m, q)
    PROVE  StockSums' /\ SamePieces
<1>1. /\ Replaces(lines, i, old, new) /\ new.stock = s
      /\ new.reserved = old.reserved + ReservedChange(m, q)
      /\ new.issued = old.issued + IssuedChange(m, q)
      /\ lines' = LinesWith(lines, i, new)
    BY DEF Effect
<1>2. /\ onHand \in [Stocks -> Nat] /\ reserved \in [Stocks -> Nat]
      /\ lines \in Seq(LineType) /\ moved \in [Stocks -> [Moves -> Nat]]
    BY DEF Core, TypeOK
<1>3. /\ old.reserved \in Nat /\ old.issued \in Nat
      /\ m \in {"reserve", "unreserve", "issue", "return"}
    BY DEF LineType, Moves
<1>4. /\ OnHandChange(m, q) \in Int /\ ReservedChange(m, q) \in Int
      /\ IssuedChange(m, q) \in Int
      /\ OnHandChange(m, q) + ReservedChange(m, q) + IssuedChange(m, q) = 0
    BY <1>3 DEF OnHandChange, ReservedChange, IssuedChange
<1>5. ASSUME NEW t \in Stocks
      PROVE  reserved'[t] = ReservedAt(lines', t) /\ Pieces(t)' = Pieces(t)
  <2>1. reserved[t] = ReservedAt(lines, t)
      BY DEF Core, StockSums
  <2>2. /\ reserved'[t] = reserved[t] + IF t = s THEN ReservedChange(m, q) ELSE 0
        /\ onHand'[t] = onHand[t] + IF t = s THEN OnHandChange(m, q) ELSE 0
      BY DEF Effect
  <2>3. /\ ReservedAt(LinesWith(lines, i, new), t) =
               ReservedAt(lines, t) + IF t = new.stock THEN new.reserved - old.reserved ELSE 0
        /\ PiecesAt(LinesWith(lines, i, new), t) =
               PiecesAt(lines, t)
                 + IF t = new.stock
                   THEN (new.reserved + new.issued) - (old.reserved + old.issued) ELSE 0
      BY <1>1, <1>2, SumsStep
  <2>4. onHand[t] \in Nat /\ ReservedAt(lines, t) \in Nat /\ PiecesAt(lines, t) \in Nat
      BY <1>2, SumTypes
  <2>5. reserved'[t] = ReservedAt(LinesWith(lines, i, new), t)
      BY <1>1, <1>3, <1>4, <2>1, <2>2, <2>3, <2>4
  <2>6. onHand'[t] + PiecesAt(LinesWith(lines, i, new), t)
            = onHand[t] + PiecesAt(lines, t)
      BY <1>1, <1>3, <1>4, <2>2, <2>3, <2>4
  <2>7. onHand'[t] + PiecesAt(lines', t) = onHand[t] + PiecesAt(lines, t)
      BY <1>1, <2>6, Zenon
  <2>8. Pieces(t)' = Pieces(t)
      BY <2>7, Zenon DEF Pieces
  <2> QED BY <1>1, <2>5, <2>8, Zenon
<1>6. ASSUME NEW t \in Stocks PROVE Unmoved(t)' = Unmoved(t)
  <2>1. /\ onHand'[t] = onHand[t] + IF t = s THEN OnHandChange(m, q) ELSE 0
        /\ \A k \in {"reserve", "unreserve", "return"} :
               moved'[t][k] = moved[t][k] + IF t = s /\ k = m THEN q ELSE 0
      BY DEF Effect, Moves
  <2>2. /\ onHand[t] \in Nat
        /\ \A k \in {"reserve", "unreserve", "return"} : moved[t][k] \in Nat
      BY <1>2 DEF Moves
  <2> QED BY <1>3, <2>1, <2>2 DEF OnHandChange, Unmoved
<1>7. StockSums'
    BY <1>5 DEF StockSums
<1>8. SamePieces
    BY <1>5, <1>6 DEF SamePieces
<1> QED BY <1>7, <1>8

\* The line items: no second active one for a work order and a stock, none lost,
\* and a deleted one as it was.
LEMMA EffectOnLines ==
    ASSUME Core, NEW c, NEW i \in Slots(lines), NEW old \in LineType, NEW new \in LineType,
           NEW s \in Stocks, NEW m \in Moves, NEW q \in Nat, Effect(c, i, old, new, s, m, q)
    PROVE  /\ lines' \in Seq(LineType)
           /\ DOMAIN lines' = DOMAIN lines \cup {i}
           /\ lines'[i] = new
           /\ \A j \in DOMAIN lines : j # i => lines'[j] = lines[j]
           /\ OneActiveLine'
           /\ LinesKept(lines, lines')
           /\ \A j \in DOMAIN lines : lines[j].deleted => j # i
<1>1. lines \in Seq(LineType)
    BY DEF Core, TypeOK
<1>2. lines' = LinesWith(lines, i, new)
    BY DEF Effect
<1>3. /\ LinesWith(lines, i, new) \in Seq(LineType)
      /\ DOMAIN LinesWith(lines, i, new) = DOMAIN lines \cup {i}
      /\ LinesWith(lines, i, new)[i] = new
      /\ \A j \in DOMAIN lines : j # i => LinesWith(lines, i, new)[j] = lines[j]
    BY <1>1, LinesWithProperties, Zenon
<1>4. /\ lines' \in Seq(LineType)
      /\ DOMAIN lines' = DOMAIN lines \cup {i}
      /\ lines'[i] = new
      /\ \A j \in DOMAIN lines : j # i => lines'[j] = lines[j]
    BY <1>2, <1>3, Zenon
<1>5. /\ i \in DOMAIN lines => old = lines[i]
      /\ ~old.deleted /\ new.wo = old.wo /\ new.stock = old.stock /\ new.stock = s
      /\ i \notin DOMAIN lines =>
             \A j \in DOMAIN lines :
                 lines[j].wo = new.wo /\ lines[j].stock = s => lines[j].deleted
    BY DEF Effect, Replaces
<1>6. OneActive(lines)
    BY DEF Core, OneActiveLine
<1>7. ASSUME NEW j \in DOMAIN lines', NEW k \in DOMAIN lines',
             ~lines'[j].deleted, ~lines'[k].deleted,
             lines'[j].wo = lines'[k].wo, lines'[j].stock = lines'[k].stock
      PROVE  j = k
  <2>1. CASE j # i /\ k # i
      BY <1>4, <1>6, <1>7, <2>1 DEF OneActive
  <2>2. CASE j = i /\ k = i
      BY <2>2
  <2>3. CASE j = i /\ k # i
      BY <1>4, <1>5, <1>6, <1>7, <2>3 DEF OneActive
  <2>4. CASE j # i /\ k = i
      BY <1>4, <1>5, <1>6, <1>7, <2>4 DEF OneActive
  <2> QED BY <2>1, <2>2, <2>3, <2>4
<1>8. OneActiveLine'
    BY <1>7 DEF OneActiveLine, OneActive
<1>9. LinesKept(lines, lines')
    BY <1>4, <1>5 DEF LinesKept
<1> QED BY <1>4, <1>5, <1>8, <1>9

\* The other open transactions learn which of their documents are stale.
LEMMA EffectOnOthers ==
    ASSUME Core, NEW c, NEW i \in Slots(lines), NEW old \in LineType, NEW new \in LineType,
           NEW s \in Stocks, NEW m \in Moves, NEW q \in Nat, Effect(c, i, old, new, s, m, q),
           NEW o \in Calls, SnapSound(o),
           snap'[o] = snap[o], request'[o] = request[o], stale'[o] = stale[o] \cup Written(c)
    PROVE  SnapSound(o)'
<1> DEFINE v == snap[o]
<1>1. /\ DOMAIN lines' = DOMAIN lines \cup {i}
      /\ lines'[i] = new
      /\ \A j \in DOMAIN lines : j # i => lines'[j] = lines[j]
      /\ LinesKept(lines, lines')
    BY EffectOnLines
<1>2. /\ v \in StoreType
      /\ ~Refused(request[o], v)
      /\ LinesKept(v.lines, lines)
      /\ \A t \in Stocks : <<"stock", t>> \notin stale[o] => FreshStock(v, t)
      /\ \A j \in DOMAIN v.lines : <<"line", j>> \notin stale[o] => FreshLine(v, j)
    BY DEF SnapSound
<1>3. snap'[o] = v
    OBVIOUS
<1>4. /\ i \in DOMAIN lines => <<"line", i>> \in Written(c)
      /\ q # 0 => <<"stock", s>> \in Written(c)
      /\ i \notin DOMAIN lines => q # 0
      /\ new.stock = s
      /\ i \in DOMAIN lines => lines[i].stock = s
    BY DEF Effect, Replaces
<1> HIDE DEF v
<1>5. LinesKept(v.lines, lines')
    BY <1>1, <1>2 DEF LinesKept
<1>6. ASSUME NEW t \in Stocks, <<"stock", t>> \notin stale'[o] PROVE FreshStock(v, t)'
  <2>1. FreshStock(v, t) /\ <<"stock", t>> \notin Written(c)
      BY <1>2, <1>6
  <2>2. t # s \/ q = 0
      BY <1>4, <2>1
  <2>3. /\ onHand'[t] = onHand[t] + IF t = s THEN OnHandChange(m, q) ELSE 0
        /\ reserved'[t] = reserved[t] + IF t = s THEN ReservedChange(m, q) ELSE 0
      BY DEF Effect
  <2>4. q = 0 => OnHandChange(m, q) = 0 /\ ReservedChange(m, q) = 0
      BY NoChange
  <2>5. onHand[t] \in Nat /\ reserved[t] \in Nat
      BY DEF Core, TypeOK
  <2>6. onHand'[t] = onHand[t] /\ reserved'[t] = reserved[t]
      BY <2>2, <2>3, <2>4, <2>5
  <2>7. \A j \in DOMAIN lines' : lines'[j].stock = t => j \in DOMAIN v.lines
      BY <1>1, <1>4, <2>1, <2>2 DEF FreshStock
  <2> QED BY <2>1, <2>6, <2>7 DEF FreshStock, v
<1>7. ASSUME NEW j \in DOMAIN v.lines, <<"line", j>> \notin stale'[o] PROVE FreshLine(v, j)'
  <2>1. FreshLine(v, j) /\ <<"line", j>> \notin Written(c)
      BY <1>2, <1>7
  <2>2. j \in DOMAIN lines
      BY <1>2 DEF LinesKept
  <2>3. j # i
      BY <1>4, <2>1, <2>2
  <2> QED BY <1>1, <2>1, <2>2, <2>3 DEF FreshLine, v
<1> QED BY <1>2, <1>3, <1>5, <1>6, <1>7 DEF SnapSound, v

----------------------------------------------------------------------------

\* A step that leaves the store alone concerns one call.
LEMMA QuietStep ==
    ASSUME Core, NEW c \in Calls, UNCHANGED store,
           pc' \in [Calls -> {"idle", "loaded", "open", "done"}],
           request' \in [Calls -> Requests \cup {None}],
           loaded' \in [Calls -> Nat],
           snap' \in [Calls -> StoreType \cup {None}],
           DOMAIN stale' = Calls,
           pc'[c] = "open" <=> snap'[c] # None,
           CallSound(c)',
           \A o \in Calls : o # c =>
               /\ pc'[o] = pc[o] /\ request'[o] = request[o]
               /\ snap'[o] = snap[o] /\ stale'[o] = stale[o]
    PROVE  Core'
<1>1. /\ onHand' = onHand /\ reserved' = reserved /\ lines' = lines
      /\ moved' = moved /\ total' = total
    BY DEF store
<1>2. TypeOK'
    BY <1>1 DEF Core, TypeOK
<1>3. StockSums'
    BY <1>1 DEF Core, StockSums
<1>5. OneActiveLine'
    BY <1>1 DEF Core, OneActiveLine, OneActive
<1>6. ASSUME NEW o \in Calls, o # c PROVE CallSound(o)'
  <2>1. CallSound(o)
      BY DEF Core
  <2>2. /\ pc'[o] = pc[o] /\ request'[o] = request[o]
        /\ snap'[o] = snap[o] /\ stale'[o] = stale[o]
      BY <1>6
  <2>3. SnapSound(o) => SnapSound(o)'
      BY <1>1, <2>2 DEF SnapSound, FreshStock, FreshLine
  <2> QED BY <2>1, <2>2, <2>3 DEF CallSound
<1> QED BY <1>2, <1>3, <1>5, <1>6 DEF Core

\* A call loads its work order.
LEMMA LoadStep ==
    ASSUME Core, NEW c \in Calls, NEW r \in Requests, Load(c, r)
    PROVE  Core'
<1>1. /\ pc' = [pc EXCEPT ![c] = "loaded"] /\ request' = [request EXCEPT ![c] = r]
      /\ loaded' = [loaded EXCEPT ![c] = total[r.wo]]
      /\ UNCHANGED <<store, snap, stale>> /\ pc[c] = "idle"
    BY DEF Load, Go
<1>2. TypeOK /\ DOMAIN stale = Calls
    BY DEF Core
<1>3. total[r.wo] \in Nat
    BY <1>2, PartsAssumption DEF RequestType, TypeOK
<1>4. /\ pc' \in [Calls -> {"idle", "loaded", "open", "done"}]
      /\ request' \in [Calls -> Requests \cup {None}]
      /\ loaded' \in [Calls -> Nat]
      /\ snap' \in [Calls -> StoreType \cup {None}]
      /\ DOMAIN stale' = Calls
    BY <1>1, <1>2, <1>3 DEF TypeOK
<1>5. pc'[c] = "loaded" /\ request'[c] = r /\ snap'[c] = None
    BY <1>1, <1>2 DEF TypeOK
<1>6. CallSound(c)'
    BY <1>5 DEF CallSound
<1>7. \A o \in Calls : o # c =>
          /\ pc'[o] = pc[o] /\ request'[o] = request[o]
          /\ snap'[o] = snap[o] /\ stale'[o] = stale[o]
    BY <1>1, <1>2 DEF TypeOK
<1>8. UNCHANGED store /\ (pc'[c] = "open" <=> snap'[c] # None)
    BY <1>1, <1>5
<1> QED BY <1>4, <1>6, <1>7, <1>8, QuietStep

\* A call is answered with an error.
LEMMA RefuseStep ==
    ASSUME Core, NEW c \in Calls, Refuse(c)
    PROVE  Core'
<1> USE DEF Core, TypeOK, Refuse, Go
<1>1. CallSound(c)'
    BY DEF CallSound
<1> QED BY <1>1, QuietStep

\* A transaction begins with a snapshot that is up to date.
LEMMA BeginStep ==
    ASSUME Core, NEW c \in Calls, Begin(c)
    PROVE  Core'
<1>1. /\ pc[c] = "loaded" /\ ~Refused(request[c], Store)
      /\ pc' = [pc EXCEPT ![c] = "open"] /\ snap' = [snap EXCEPT ![c] = Store]
      /\ UNCHANGED <<store, request, loaded, stale>>
    BY DEF Begin, Go
<1>2. TypeOK /\ DOMAIN stale = Calls
    BY DEF Core
<1>3. Store \in StoreType
    BY <1>2 DEF Store, StoreType, TypeOK
<1>4. Store # None
    BY <1>3, PartsAssumption
<1>5. request[c] \in Requests
    BY <1>1 DEF Core, CallSound
<1>6. /\ snap'[c] = Store /\ request'[c] = request[c] /\ stale'[c] = stale[c]
      /\ onHand' = onHand /\ reserved' = reserved /\ lines' = lines
    BY <1>1, <1>2 DEF TypeOK, store
<1>7. Store.onHand = onHand /\ Store.reserved = reserved /\ Store.lines = lines
    BY DEF Store
<1>8. SnapSound(c)'
  <2> HIDE DEF Store
  <2>1. LinesKept(Store.lines, lines')
      BY <1>6, <1>7 DEF LinesKept
  <2>2. /\ \A s \in Stocks : FreshStock(Store, s)'
        /\ \A i \in DOMAIN Store.lines : FreshLine(Store, i)'
    <3>1. /\ Store' = Store
        BY <1>6 DEF Store
    <3> QED BY <1>6, <1>7, <3>1 DEF FreshStock, FreshLine
  <2>3. Store' = Store
      BY <1>6 DEF Store
  <2> QED BY <1>1, <1>3, <1>6, <2>1, <2>2, <2>3 DEF SnapSound, FreshStock, FreshLine
<1>9. CallSound(c)'
    BY <1>5, <1>6, <1>8 DEF CallSound
<1>10. /\ pc' \in [Calls -> {"idle", "loaded", "open", "done"}]
       /\ snap' \in [Calls -> StoreType \cup {None}]
       /\ pc'[c] = "open" /\ snap'[c] # None
    BY <1>1, <1>2, <1>3, <1>4, <1>6 DEF TypeOK
<1>11. \A o \in Calls : o # c =>
           /\ pc'[o] = pc[o] /\ request'[o] = request[o]
           /\ snap'[o] = snap[o] /\ stale'[o] = stale[o]
    BY <1>1, <1>2 DEF TypeOK
<1>12. request' \in [Calls -> Requests \cup {None}] /\ loaded' \in [Calls -> Nat]
       /\ DOMAIN stale' = Calls
    BY <1>1, <1>2 DEF TypeOK
<1>13. UNCHANGED store /\ (pc'[c] = "open" <=> snap'[c] # None)
    BY <1>1, <1>10
<1> QED BY <1>9, <1>10, <1>11, <1>12, <1>13, QuietStep

\* The end of a transaction that leaves no trace in the store.
LEMMA EndStep ==
    ASSUME Core, NEW c \in Calls, NEW step \in {"loaded", "done"},
           pc[c] \in {"loaded", "open"}, EndTxn(c), Go(c, step),
           UNCHANGED <<store, request>>, loaded' \in [Calls -> Nat]
    PROVE  Core'
<1> USE DEF Core, TypeOK, EndTxn, Go
<1>1. CallSound(c)'
    BY DEF CallSound
<1>2. /\ pc' \in [Calls -> {"idle", "loaded", "open", "done"}]
      /\ snap' \in [Calls -> StoreType \cup {None}]
      /\ pc'[c] # "open" /\ snap'[c] = None /\ DOMAIN stale' = Calls
      /\ request' \in [Calls -> Requests \cup {None}]
    OBVIOUS
<1>3. \A o \in Calls : o # c =>
          /\ pc'[o] = pc[o] /\ request'[o] = request[o]
          /\ snap'[o] = snap[o] /\ stale'[o] = stale[o]
    OBVIOUS
<1> QED BY <1>1, <1>2, <1>3, QuietStep

\* The total a transaction computes is a natural number.
LEMMA NewTotalType ==
    ASSUME Core, NEW c \in Calls, pc[c] = "open"
    PROVE  NewTotal(c) \in Nat
<1> DEFINE r == request[c]
           v == snap[c]
           k == Slot(r, v, v.lines)
           new == LineAfter(r, v)
<1>1. NewTotal(c) = TotalOf(LinesAfter(r, v, v.lines), r.wo)
    BY DEF NewTotal
<1>2. r \in RequestType /\ v \in StoreType /\ ~Refused(r, v)
    BY PartsAssumption DEF Core, CallSound, SnapSound
<1> HIDE DEF r, v
<1>3. v.lines \in Seq(LineType)
    BY <1>2 DEF StoreType
<1>4. LinesAfter(r, v, v.lines) = LinesWith(v.lines, k, new) /\ k \in Slots(v.lines)
    BY <1>2, <1>3, LinesAfterIs, Zenon
<1>5. new \in LineType
    BY <1>2, AfterFacts, Zenon
<1> DEFINE ls == v.lines
<1>6. ls \in Seq(LineType) /\ k \in Slots(ls)
    BY <1>3, <1>4
<1> HIDE DEF k, new, ls
<1>7. LinesWith(ls, k, new) \in Seq(LineType)
    BY <1>5, <1>6, LinesWithProperties
<1>8. LinesAfter(r, v, v.lines) \in Seq(LineType)
    BY <1>4, <1>7, Zenon DEF ls
<1> QED BY <1>1, <1>8, CostType

\* A commit preserves Core, and neither loses nor makes a piece.
LEMMA CommitStep ==
    ASSUME Core, NEW c \in Calls, Commit(c)
    PROVE  Core' /\ SamePieces
<1>1. PICK i \in Slots(lines), old \in LineType, new \in LineType,
           s \in Stocks, m \in Moves, q \in Nat : Effect(c, i, old, new, s, m, q)
    BY CommitEffect
<1>2. StockSums' /\ SamePieces
    BY <1>1, EffectOnSums
<1>3. lines' \in Seq(LineType) /\ OneActiveLine'
    BY <1>1, EffectOnLines
<1>4. /\ pc' = [pc EXCEPT ![c] = "done"]
      /\ snap' = [snap EXCEPT ![c] = None]
      /\ stale' = [o \in Calls |-> IF o # c /\ pc[o] = "open"
                                   THEN stale[o] \cup Written(c) ELSE {}]
      /\ request' = request /\ loaded' = loaded
    BY DEF Commit, Go
<1>5. TypeOK'
  <2>1. /\ onHand' \in [Stocks -> Nat] /\ reserved' \in [Stocks -> Nat]
        /\ moved' \in [Stocks -> [Moves -> Nat]] /\ total' \in [WorkOrders -> Nat]
      BY <1>1 DEF Effect
  <2> QED BY <1>3, <1>4, <2>1 DEF Core, TypeOK
<1>6. ASSUME NEW o \in Calls PROVE CallSound(o)'
  <2>1. CASE o = c
      BY <1>4, <2>1 DEF Core, TypeOK, CallSound
  <2>2. CASE o # c
    <3>1. CallSound(o) /\ pc'[o] = pc[o] /\ request'[o] = request[o] /\ snap'[o] = snap[o]
        BY <1>4, <2>2 DEF Core, TypeOK
    <3>2. pc[o] = "open" => SnapSound(o)'
      <4> SUFFICES ASSUME pc[o] = "open" PROVE SnapSound(o)'
          OBVIOUS
      <4>1. SnapSound(o) /\ stale'[o] = stale[o] \cup Written(c)
          BY <1>4, <2>2, <3>1 DEF CallSound
      <4> QED BY <1>1, <3>1, <4>1, EffectOnOthers
    <3> QED BY <3>1, <3>2 DEF CallSound
  <2> QED BY <2>1, <2>2
<1>7. DOMAIN stale' = Calls
    BY <1>4
<1> QED BY <1>2, <1>3, <1>5, <1>6, <1>7 DEF Core

\* The first state.
LEMMA InitHolds == Init => IInv
<1> SUFFICES ASSUME Init PROVE IInv
    OBVIOUS
<1>1. /\ onHand = InitialOnHand /\ lines = InitialLines
      /\ moved = [s \in Stocks |-> [m \in Moves |-> 0]]
      /\ pc = [c \in Calls |-> "idle"] /\ request = [c \in Calls |-> None]
      /\ loaded = [c \in Calls |-> 0] /\ snap = [c \in Calls |-> None]
      /\ stale = [c \in Calls |-> {}]
      /\ total = [w \in WorkOrders |-> TotalOf(InitialLines, w)]
      /\ reserved = [s \in Stocks |->
             MapThenSumSet(LAMBDA i : InitialLines[i].reserved, ActiveOf(InitialLines, s))]
    BY Zenon DEF Init
<1>2. InitialOnHand \in [Stocks -> Nat] /\ InitialLines \in Seq(LineType)
    BY PartsAssumption
<1>3. \A s \in Stocks : reserved[s] = ReservedAt(InitialLines, s)
  <2>1. ASSUME NEW s \in Stocks PROVE reserved[s] = ReservedAt(InitialLines, s)
    <3>1. reserved[s] =
              MapThenSumSet(LAMBDA i : InitialLines[i].reserved, ActiveOf(InitialLines, s))
        BY <1>1, Zenon
    <3> QED BY <1>2, <3>1, SumsAreTotals, Zenon
  <2> QED BY <2>1
<1>4. reserved \in [Stocks -> Nat]
  <2>1. \A s \in Stocks : reserved[s] \in Nat
      BY <1>2, <1>3, SumTypes
  <2>2. DOMAIN reserved = Stocks
      BY <1>1, Zenon
  <2>3. reserved = [s \in Stocks |-> reserved[s]]
      BY <1>1, <2>2, Zenon
  <2> QED BY <2>1, <2>3
<1>5. total \in [WorkOrders -> Nat]
    BY <1>1, <1>2, CostType
<1>6. TypeOK
    BY <1>1, <1>2, <1>4, <1>5 DEF TypeOK
<1>7. StockSums
    BY <1>1, <1>3 DEF StockSums
<1>8. ASSUME NEW s \in Stocks
      PROVE  /\ Pieces(s) = InitialOnHand[s] + PiecesAt(InitialLines, s)
             /\ Unmoved(s) = InitialOnHand[s]
    BY <1>1, <1>2 DEF Pieces, Unmoved, Moves
<1>9. OneActiveLine
    BY <1>1, PartsAssumption DEF OneActiveLine
<1>10. DOMAIN stale = Calls /\ \A c \in Calls : CallSound(c)
    BY <1>1 DEF CallSound
<1> QED BY <1>6, <1>7, <1>8, <1>9, <1>10 DEF IInv, Core

\* The steps of a call.
CallStep(c) ==
    \/ \E r \in Requests : Load(c, r)
    \/ Refuse(c) \/ Begin(c) \/ Commit(c) \/ Conflict(c) \/ LoseCommit(c) \/ Abandon(c)

\* Each of them preserves Core, and neither loses nor makes a piece.
LEMMA CallSteps ==
    ASSUME Core, NEW c \in Calls, CallStep(c)
    PROVE  Core' /\ SamePieces
<1>1. UNCHANGED store => SamePieces
    BY DEF store, SamePieces, Pieces, Unmoved
<1>2. ASSUME NEW r \in Requests, Load(c, r) PROVE Core' /\ UNCHANGED store
    BY <1>2, LoadStep DEF Load
<1>3. CASE Refuse(c)
    BY <1>1, <1>3, RefuseStep DEF Refuse
<1>4. CASE Begin(c)
    BY <1>1, <1>4, BeginStep DEF Begin
<1>5. CASE Commit(c)
    BY <1>5, CommitStep
<1>6. CASE Conflict(c)
  <2>1. loaded' \in [Calls -> Nat]
      BY <1>6 DEF Conflict, Core, TypeOK
  <2> QED BY <1>1, <1>6, <2>1, EndStep DEF Conflict
<1>7. CASE LoseCommit(c)
  <2>1. NewTotal(c) \in Nat
      BY <1>7, NewTotalType DEF LoseCommit
  <2>2. loaded' \in [Calls -> Nat]
      BY <1>7, <2>1 DEF LoseCommit, Core, TypeOK
  <2> QED BY <1>1, <1>7, <2>2, EndStep DEF LoseCommit
<1>8. CASE Abandon(c)
  <2>1. loaded' \in [Calls -> Nat]
      BY <1>8 DEF Abandon, Core, TypeOK
  <2> QED BY <1>1, <1>8, <2>1, EndStep DEF Abandon
<1> QED BY <1>1, <1>2, <1>3, <1>4, <1>5, <1>6, <1>7, <1>8 DEF CallStep

\* A step that changes nothing of the calls.
LEMMA Stuttering ==
    ASSUME Core, UNCHANGED vars
    PROVE  Core' /\ SamePieces
BY DEF vars, store, Core, TypeOK, StockSums, OneActiveLine, OneActive, CallSound, SnapSound,
       FreshStock, FreshLine, SamePieces, Pieces, Unmoved

\* A write of one quantity on hand outside of transactions, which the open ones
\* that have read the stock will meet as a conflict.
LEMMA OutsideWrite ==
    ASSUME Core, NEW s \in Stocks, NEW n \in Nat,
           onHand' = [onHand EXCEPT ![s] = n],
           stale' = [c \in Calls |-> IF pc[c] = "open" THEN stale[c] \cup {<<"stock", s>>}
                                     ELSE stale[c]],
           UNCHANGED <<reserved, lines, moved, total, pc, request, loaded, snap>>
    PROVE  Core'
<1>1. TypeOK' /\ StockSums' /\ OneActiveLine' /\ DOMAIN stale' = Calls
    BY DEF Core, TypeOK, StockSums, OneActiveLine, OneActive
<1>2. ASSUME NEW c \in Calls PROVE CallSound(c)'
  <2>1. CallSound(c)
      BY DEF Core
  <2>2. ASSUME pc[c] = "open" PROVE SnapSound(c)'
    <3>1. SnapSound(c) /\ stale'[c] = stale[c] \cup {<<"stock", s>>}
        BY <2>1, <2>2 DEF CallSound
    <3>2. \A t \in Stocks : <<"stock", t>> \notin stale'[c] => FreshStock(snap[c], t)'
      <4> SUFFICES ASSUME NEW t \in Stocks, <<"stock", t>> \notin stale'[c]
                   PROVE  FreshStock(snap[c], t)'
          OBVIOUS
      <4>1. t # s /\ <<"stock", t>> \notin stale[c]
          BY <3>1
      <4>2. onHand'[t] = onHand[t]
          BY <4>1 DEF Core, TypeOK
      <4> QED BY <3>1, <4>1, <4>2 DEF SnapSound, FreshStock
    <3>3. \A i \in DOMAIN snap[c].lines :
              <<"line", i>> \notin stale'[c] => FreshLine(snap[c], i)'
        BY <3>1 DEF SnapSound, FreshLine
    <3> QED BY <3>1, <3>2, <3>3 DEF SnapSound
  <2> QED BY <2>1, <2>2 DEF CallSound
<1> QED BY <1>1, <1>2 DEF Core

\* The invariant that the proofs rest on, of every behaviour of the calls.
THEOREM Invariance == Spec => []IInv
<1>1. IInv /\ [Next]_vars => IInv'
  <2> SUFFICES ASSUME IInv, [Next]_vars PROVE IInv'
      OBVIOUS
  <2>1. Core' /\ SamePieces
    <3>1. ASSUME NEW c \in Calls, CallStep(c) PROVE Core' /\ SamePieces
        BY <3>1, CallSteps DEF IInv
    <3>2. CASE UNCHANGED vars
        BY <3>2, Stuttering DEF IInv
    <3> QED BY <3>1, <3>2 DEF Next, CallStep, Done
  <2> QED BY <2>1 DEF IInv, SamePieces
<1> QED BY <1>1, InitHolds, PTL DEF Spec

\* Every variable has its type; no quantity on hand, reserved or on a line is
\* ever negative, and a transaction is open exactly while it has a snapshot.
THEOREM TypeCorrect == Spec => []TypeOK
<1>1. IInv => TypeOK
    BY DEF IInv, Core
<1> QED BY <1>1, Invariance, PTL

\* What a stock has reserved is what the active line items reserve.
LEMMA CoreMatchesLines ==
    ASSUME Core
    PROVE  ReservedIsOnLines
<1> SUFFICES ASSUME NEW s \in Stocks
             PROVE  reserved[s] =
                        MapThenSumSet(LAMBDA i : lines[i].reserved, ActiveOf(lines, s))
    BY Zenon DEF ReservedIsOnLines
<1>1. reserved[s] = ReservedAt(lines, s) /\ lines \in Seq(LineType)
    BY DEF Core, StockSums, TypeOK
<1> QED BY <1>1, SumsAreTotals, Zenon

\* Whatever calls reserve, unreserve, issue, return and delete at once, a stock
\* has reserved what its active line items reserve.
THEOREM StockMatchesLines == Spec => []ReservedIsOnLines
<1>1. IInv => ReservedIsOnLines
    BY CoreMatchesLines DEF IInv
<1> QED BY <1>1, Invariance, PTL

\* No handler loses or makes a piece: on hand, reserved and issued come to what
\* there was at the start.
THEOREM PiecesConserved == Spec => []PiecesAreConserved
<1>1. IInv => PiecesAreConserved
  <2> SUFFICES ASSUME IInv, NEW s \in Stocks
               PROVE  PiecesOf(onHand, lines, s) = PiecesOf(InitialOnHand, InitialLines, s)
      BY Zenon DEF PiecesAreConserved
  <2>1. /\ onHand[s] + PiecesAt(lines, s) = InitialOnHand[s] + PiecesAt(InitialLines, s)
        /\ lines \in Seq(LineType) /\ InitialLines \in Seq(LineType)
      BY PartsAssumption DEF IInv, Core, Pieces, TypeOK
  <2>2. ASSUME NEW ls \in Seq(LineType), NEW onH
        PROVE  PiecesOf(onH, ls, s) = onH[s] + PiecesAt(ls, s)
      BY SumsAreTotals, Zenon DEF PiecesOf
  <2> QED BY <2>1, <2>2, Zenon
<1> QED BY <1>1, Invariance, PTL

\* The movement log explains the quantity on hand of every stock.
THEOREM LogExplainsStock == Spec => []MovementsExplainStock
<1>1. IInv => MovementsExplainStock
  <2> SUFFICES ASSUME IInv, NEW s \in Stocks
               PROVE  onHand[s] = InitialOnHand[s] - moved[s]["reserve"]
                                      + moved[s]["unreserve"] + moved[s]["return"]
      BY DEF MovementsExplainStock
  <2>1. /\ onHand[s] \in Nat
        /\ \A k \in {"reserve", "unreserve", "return"} : moved[s][k] \in Nat
      BY DEF IInv, Core, TypeOK, Moves
  <2> QED BY <2>1 DEF IInv, Unmoved
<1> QED BY <1>1, Invariance, PTL

\* Calls that look for the line item of a work order and a stock at the same time
\* never create a second one, without any unique index.
THEOREM OneActiveLineEach == Spec => []OneActiveLine
<1>1. IInv => OneActiveLine
    BY DEF IInv, Core
<1> QED BY <1>1, Invariance, PTL

\* No call changes a line item that another call has deleted since it was read.
THEOREM DeletedLinesAreFinal == Spec => DeletedLinesStay
<1>1. IInv /\ [Next]_vars => [\A i \in DOMAIN lines : lines[i].deleted => lines'[i] = lines[i]]_vars
  <2> SUFFICES ASSUME IInv, Next, NEW k \in DOMAIN lines, lines[k].deleted
               PROVE  lines'[k] = lines[k]
      OBVIOUS
  <2>1. ASSUME NEW c \in Calls, Commit(c) PROVE lines'[k] = lines[k]
    <3>1. PICK i \in Slots(lines), old \in LineType, new \in LineType,
               s \in Stocks, m \in Moves, q \in Nat : Effect(c, i, old, new, s, m, q)
        BY <2>1, CommitEffect DEF IInv
    <3> QED BY <3>1, EffectOnLines DEF IInv
  <2>2. ASSUME NEW c \in Calls,
               Refuse(c) \/ Begin(c) \/ Conflict(c) \/ LoseCommit(c) \/ Abandon(c)
        PROVE  lines'[k] = lines[k]
      BY <2>2 DEF Refuse, Begin, Conflict, LoseCommit, Abandon, store
  <2>3. ASSUME NEW c \in Calls, NEW r \in Requests, Load(c, r) PROVE lines'[k] = lines[k]
      BY <2>3 DEF Load, store
  <2>4. Done => lines'[k] = lines[k]
      BY DEF Done, vars, store
  <2> QED BY <2>1, <2>2, <2>3, <2>4 DEF Next
<1> QED BY <1>1, Invariance, PTL DEF Spec, DeletedLinesStay
=============================================================================
