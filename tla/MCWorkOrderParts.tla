-------------------------- MODULE MCWorkOrderParts --------------------------
(***************************************************************************)
(* Two work orders and two stocks.  At the start w1 has one line item on   *)
(* s1 with a reserved and an issued piece.  The requests make calls meet   *)
(* on the stock, on the line item and on the work order; the same request  *)
(* from two calls is a client that sends it twice.                         *)
(***************************************************************************)
EXTENDS WorkOrderParts, TLC

CONSTANTS w1, w2, s1, s2

MCWorkOrders == {w1, w2}
MCStocks == {s1, s2}

Req(op, wo, stock, qty, cost, line) ==
    [op |-> op, wo |-> wo, stock |-> stock, qty |-> qty, cost |-> cost, line |-> line]

MCRequests ==
    { Req("reserve", w1, s1, 1, NoCost, 0),
      Req("reserve", w1, s2, 1, 3, 0),
      Req("reserve", w2, s1, 2, NoCost, 0),
      Req("unreserve", w1, s1, 1, NoCost, 0),
      Req("issue", w1, s1, 1, NoCost, 0),
      Req("issue", w1, s1, 1, 3, 0),
      Req("return", w1, s1, 1, NoCost, 0),
      Req("return", w1, s2, 1, NoCost, 0),
      Req("delete", w1, s1, 1, NoCost, 1) }

MCInitialOnHand == [s \in MCStocks |-> 2]
MCInitialLines ==
    <<[wo |-> w1, stock |-> s1, reserved |-> 1, issued |-> 1, cost |-> 2, deleted |-> FALSE]>>

Symmetry == Permutations(Calls)
=============================================================================
