------------------------- MODULE WorkRequestsProofs -------------------------
(***************************************************************************)
(* Theorems about WorkRequests, for every set of calls.                    *)
(*                                                                         *)
(* The invariants the runs check are not inductive: that a caller who was  *)
(* told of a work order leaves the request linked rests on what a          *)
(* conversion has done by the time it stands at each of its statements,    *)
(* which InFlight says.                                                    *)
(***************************************************************************)
EXTENDS WorkRequests, TLAPS

\* The document is created by the submission, and no call acts before that.
Started ==
    /\ portal = "start" <=> doc = NoDoc
    /\ doc = NoDoc => \A c \in Calls : pc[c] = "idle"

\* What a call has done by the time it stands at a statement.
InFlight ==
    \A c \in Calls :
        /\ pc[c] \in {"create", "save", "reply"} => request[c] \in Requests
        /\ pc[c] = "create" => request[c].op = "convert"
        /\ pc[c] \in {"save", "reply"} /\ request[c].op = "convert" => c \in orders
        /\ pc[c] = "reply" /\ request[c].op = "convert" => doc.link # NoOrder
        /\ pc[c] = "idle" => answer[c] = NoOrder

IInv ==
    /\ TypeOK
    /\ Started
    /\ InFlight
    /\ LinkedOrderExists
    /\ RetryFindsTheOrder

-----------------------------------------------------------------------------

\* What a save makes of the document: nothing is unlinked or undeleted.
LEMMA SavedKeeps ==
    ASSUME TypeOK, doc # NoDoc, NEW c \in Calls, request[c] \in Requests
    PROVE  /\ Saved(c) \in DocType
           /\ Saved(c).link \in {doc.link, c}
           /\ doc.link # NoOrder => Saved(c).link # NoOrder
           /\ request[c].op = "convert" => Saved(c).link = c
           /\ doc.deleted => Saved(c).deleted
  <1>1. doc \in DocType
    BY DEF TypeOK
  <1>2. request[c].status \in Statuses
    BY DEF Requests, Decisions, Settable, Statuses
  <1>3. c # NoOrder
    BY TokensAssumption
  <1> QED
    BY <1>1, <1>2, <1>3 DEF Saved, DocType

LEMMA InitInv == Init => IInv
  BY TokensAssumption
  DEF Init, IInv, TypeOK, Started, InFlight, LinkedOrderExists, RetryFindsTheOrder

\* The statements of the submission leave the calls alone.
LEMMA PortalInv ==
    ASSUME IInv, Submit \/ Route \/ LeaveNew
    PROVE  IInv'
  <1>0. /\ UNCHANGED <<orders, pc, request, seen, answer>>
        /\ portal' \in {"created", "done"}
    BY DEF Submit, Route, LeaveNew
  <1>1. doc' \in DocType /\ doc' # NoDoc
    <2>1. CASE Submit
      <3>1. doc' \in DocType
        BY <2>1 DEF Submit, DocType, Statuses
      <3> QED
        BY <3>1, TokensAssumption
    <2>2. CASE Route \/ LeaveNew
      <3>1. doc \in DocType
        BY <2>2 DEF Route, LeaveNew, IInv, TypeOK, Started
      <3> QED
        BY <2>2, <3>1, TokensAssumption DEF Route, LeaveNew, DocType, Statuses
    <2> QED
      BY <2>1, <2>2
  <1>2. doc # NoDoc => doc'.link = doc.link
    <2>1. CASE Submit
      BY <2>1 DEF Submit, IInv, Started
    <2>2. CASE Route \/ LeaveNew
      BY <2>2 DEF Route, LeaveNew, IInv, TypeOK, DocType
    <2> QED
      BY <2>1, <2>2
  <1>3. doc = NoDoc => doc'.link = NoOrder /\ \A c \in Calls : pc[c] = "idle"
    BY DEF Submit, Route, LeaveNew, IInv, Started
  <1>4. TypeOK'
    BY <1>0, <1>1 DEF IInv, TypeOK
  <1>5. Started'
    BY <1>0, <1>1 DEF Started
  <1>6. InFlight'
    BY <1>0, <1>2, <1>3 DEF IInv, InFlight
  <1>7. LinkedOrderExists'
    BY <1>0, <1>2, <1>3 DEF IInv, LinkedOrderExists
  <1>8. RetryFindsTheOrder'
    <2>1. CASE doc = NoDoc
      BY <1>0, <1>3, <2>1, TokensAssumption DEF IInv, InFlight, RetryFindsTheOrder
    <2>2. CASE doc # NoDoc
      BY <1>0, <1>2, <2>2 DEF IInv, RetryFindsTheOrder
    <2> QED
      BY <2>1, <2>2
  <1> QED
    BY <1>4, <1>5, <1>6, <1>7, <1>8 DEF IInv

LEMMA ReadInv ==
    ASSUME IInv, NEW c \in Calls, NEW r \in Requests, Read(c, r)
    PROVE  IInv'
  <1>1. /\ UNCHANGED <<doc, portal, orders, answer>>
        /\ doc # NoDoc
        /\ pc' = [pc EXCEPT ![c] = FirstStep(r)]
        /\ request' = [request EXCEPT ![c] = r]
        /\ seen' = [seen EXCEPT ![c] = doc]
    BY DEF Read, Go
  <1>2. FirstStep(r) \in {"create", "save"} /\ (FirstStep(r) = "create" <=> r.op = "convert")
    BY DEF FirstStep
  <1>3. TypeOK'
    BY <1>1, <1>2 DEF IInv, TypeOK
  <1>4. Started' /\ LinkedOrderExists' /\ RetryFindsTheOrder'
    BY <1>1 DEF IInv, Started, LinkedOrderExists, RetryFindsTheOrder
  <1>5. InFlight'
    BY <1>1, <1>2 DEF IInv, InFlight, TypeOK
  <1> QED
    BY <1>3, <1>4, <1>5 DEF IInv

LEMMA ReturnEarlyInv ==
    ASSUME IInv, NEW c \in Calls, NEW r \in Requests, ReturnEarly(c, r)
    PROVE  IInv'
  <1>1. /\ UNCHANGED <<doc, portal, orders, seen>>
        /\ doc # NoDoc
        /\ pc' = [pc EXCEPT ![c] = "done"]
        /\ request' = [request EXCEPT ![c] = r]
    BY DEF ReturnEarly, Go
  <1>2. \E a \in orders \cup {Failed} :
            /\ answer' = [answer EXCEPT ![c] = a]
            /\ a \in orders => doc.link # NoOrder
    <2>1. CASE r.op = "convert"
      <3>1. doc.link \in orders /\ doc.link # NoOrder
        BY <2>1, <1>1 DEF ReturnEarly, Settled, IInv, LinkedOrderExists
      <3>2. answer' = [answer EXCEPT ![c] = doc.link]
        BY <2>1 DEF ReturnEarly
      <3> QED
        BY <3>1, <3>2
    <2>2. CASE r.op # "convert"
      <3>1. answer' = [answer EXCEPT ![c] = Failed]
        BY <2>2 DEF ReturnEarly
      <3>2. Failed \notin orders
        BY TokensAssumption DEF IInv, TypeOK
      <3> QED
        BY <3>1, <3>2
    <2> QED
      BY <2>1, <2>2
  <1>3. TypeOK'
    BY <1>1, <1>2 DEF IInv, TypeOK
  <1>4. Started'
    BY <1>1 DEF IInv, Started
  <1>5. InFlight'
    BY <1>1, <1>2 DEF IInv, InFlight, TypeOK
  <1>6. LinkedOrderExists'
    BY <1>1, <1>2 DEF IInv, LinkedOrderExists, TypeOK
  <1>7. RetryFindsTheOrder'
    BY <1>1, <1>2, TokensAssumption DEF IInv, RetryFindsTheOrder, TypeOK
  <1> QED
    BY <1>3, <1>4, <1>5, <1>6, <1>7 DEF IInv

LEMMA CreateOrderInv ==
    ASSUME IInv, NEW c \in Calls, CreateOrder(c)
    PROVE  IInv'
  <1>1. /\ UNCHANGED <<doc, portal, request, seen, answer>>
        /\ pc[c] = "create"
        /\ pc' = [pc EXCEPT ![c] = "save"]
        /\ orders' = orders \cup {c}
    BY DEF CreateOrder, Go
  <1>2. TypeOK'
    BY <1>1 DEF IInv, TypeOK
  <1>3. Started' /\ LinkedOrderExists' /\ RetryFindsTheOrder'
    BY <1>1 DEF IInv, Started, LinkedOrderExists, RetryFindsTheOrder
  <1>4. InFlight'
    BY <1>1 DEF IInv, InFlight, TypeOK
  <1> QED
    BY <1>2, <1>3, <1>4 DEF IInv

LEMMA SaveInv ==
    ASSUME IInv, NEW c \in Calls, Save(c)
    PROVE  IInv'
  <1>1. /\ UNCHANGED <<portal, orders, request, seen, answer>>
        /\ pc[c] = "save"
        /\ pc' = [pc EXCEPT ![c] = "reply"]
        /\ doc' = Saved(c)
    BY DEF Save, Go
  <1>2. doc # NoDoc /\ request[c] \in Requests
    BY <1>1 DEF IInv, Started, InFlight
  <1>3. /\ doc' \in DocType /\ doc' # NoDoc
        /\ doc.link # NoOrder => doc'.link # NoOrder
        /\ request[c].op = "convert" => doc'.link = c
    BY <1>1, <1>2, SavedKeeps, TokensAssumption DEF IInv
  <1>4. doc'.link \in orders \cup {NoOrder}
    <2>1. CASE request[c].op = "convert"
      BY <1>1, <1>3, <2>1 DEF IInv, InFlight
    <2>2. CASE request[c].op # "convert"
      <3>1. doc \in DocType
        BY <1>2 DEF IInv, TypeOK
      <3>2. doc'.link = doc.link
        BY <1>1, <2>2, <3>1 DEF Saved, DocType
      <3> QED
        BY <1>2, <3>2 DEF IInv, LinkedOrderExists
    <2> QED
      BY <2>1, <2>2
  <1>5. TypeOK'
    BY <1>1, <1>3 DEF IInv, TypeOK
  <1>6. Started'
    BY <1>1, <1>2, <1>3 DEF IInv, Started
  <1>7. InFlight'
    BY <1>1, <1>3, TokensAssumption DEF IInv, InFlight, TypeOK
  <1>8. LinkedOrderExists' /\ RetryFindsTheOrder'
    BY <1>1, <1>3, <1>4 DEF IInv, LinkedOrderExists, RetryFindsTheOrder
  <1> QED
    BY <1>5, <1>6, <1>7, <1>8 DEF IInv

LEMMA ReplyInv ==
    ASSUME IInv, NEW c \in Calls, Reply(c) \/ Crash(c)
    PROVE  IInv'
  <1>1. /\ UNCHANGED <<doc, portal, orders, request, seen>>
        /\ pc[c] # "idle"
        /\ pc' = [pc EXCEPT ![c] = "done"]
    BY DEF Reply, Crash, Go
  <1>2. \E a \in orders \cup {Failed} :
            /\ answer' = [answer EXCEPT ![c] = a]
            /\ a \in orders => doc.link # NoOrder
    <2>1. Failed \notin orders
      BY TokensAssumption DEF IInv, TypeOK
    <2>2. CASE Reply(c) /\ request[c].op = "convert"
      <3>1. c \in orders /\ doc.link # NoOrder
        BY <2>2 DEF Reply, IInv, InFlight
      <3> QED
        BY <2>2, <3>1 DEF Reply
    <2>3. CASE Crash(c) \/ (Reply(c) /\ request[c].op # "convert")
      BY <2>1, <2>3 DEF Reply, Crash
    <2> QED
      BY <2>2, <2>3
  <1>3. TypeOK'
    BY <1>1, <1>2 DEF IInv, TypeOK
  <1>4. Started'
    BY <1>1 DEF IInv, Started
  <1>5. InFlight'
    BY <1>1, <1>2 DEF IInv, InFlight, TypeOK
  <1>6. LinkedOrderExists'
    BY <1>1, <1>2 DEF IInv, LinkedOrderExists, TypeOK
  <1>7. RetryFindsTheOrder'
    BY <1>1, <1>2, TokensAssumption DEF IInv, RetryFindsTheOrder, TypeOK
  <1> QED
    BY <1>3, <1>4, <1>5, <1>6, <1>7 DEF IInv

LEMMA NextInv == IInv /\ [Next]_vars => IInv'
  <1> SUFFICES ASSUME IInv, [Next]_vars
               PROVE  IInv'
    OBVIOUS
  <1>1. CASE Submit \/ Route \/ LeaveNew
    BY <1>1, PortalInv
  <1>2. CASE \E c \in Calls, r \in Requests : Read(c, r) \/ ReturnEarly(c, r)
    BY <1>2, ReadInv, ReturnEarlyInv
  <1>3. CASE \E c \in Calls : CreateOrder(c) \/ Save(c) \/ Reply(c) \/ Crash(c)
    BY <1>3, CreateOrderInv, SaveInv, ReplyInv
  <1>4. CASE Done \/ UNCHANGED vars
    BY <1>4 DEF Done, vars, IInv, TypeOK, Started, InFlight, LinkedOrderExists,
                RetryFindsTheOrder
  <1> QED
    BY <1>1, <1>2, <1>3, <1>4 DEF Next

-----------------------------------------------------------------------------

\* The inductive invariant holds in every reachable state.
THEOREM Invariance == Spec => []IInv
  BY InitInv, NextInv, PTL DEF Spec

\* Type correctness, for any number of calls.
THEOREM TypeCorrect == Spec => []TypeOK
  <1>1. IInv => TypeOK
    BY DEF IInv
  <1> QED
    BY <1>1, Invariance, PTL

\* Every work order that is linked, or that a caller was told of, exists, wherever
\* a conversion was interrupted.
THEOREM LinkedExists == Spec => []LinkedOrderExists
  <1>1. IInv => LinkedOrderExists
    BY DEF IInv
  <1> QED
    BY <1>1, Invariance, PTL

\* A conversion that is sent again after an answer finds the request linked.
THEOREM RetryIsSafe == Spec => []RetryFindsTheOrder
  <1>1. IInv => RetryFindsTheOrder
    BY DEF IInv
  <1> QED
    BY <1>1, Invariance, PTL

\* No save takes a link or a deletion back, however old what it read.
THEOREM NothingUndone == Spec => LinkAndDeletionStay
  <1>1. IInv /\ [Next]_vars =>
            [doc # NoDoc => /\ doc.link # NoOrder => doc'.link # NoOrder
                            /\ doc.deleted => doc'.deleted]_vars
    <2> SUFFICES ASSUME IInv, Next, doc # NoDoc
                 PROVE  /\ doc.link # NoOrder => doc'.link # NoOrder
                        /\ doc.deleted => doc'.deleted
      OBVIOUS
    <2>1. CASE Submit \/ Route \/ LeaveNew
      BY <2>1 DEF Submit, Route, LeaveNew, IInv, Started, TypeOK, DocType
    <2>2. CASE \E c \in Calls : Save(c)
      <3>1. PICK c \in Calls : Save(c)
        BY <2>2
      <3>2. doc' = Saved(c) /\ request[c] \in Requests
        BY <3>1 DEF Save, IInv, InFlight
      <3> QED
        BY <3>2, SavedKeeps DEF IInv
    <2>3. CASE doc' = doc
      BY <2>3
    <2> QED
      BY <2>1, <2>2, <2>3
      DEF Next, Read, ReturnEarly, CreateOrder, Reply, Crash, Done, vars
  <1> QED
    BY <1>1, Invariance, PTL DEF Spec, LinkAndDeletionStay
=============================================================================
