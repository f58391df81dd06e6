---------------------------- MODULE MCPurchasing ----------------------------
(***************************************************************************)
(* Two orders to begin with: a draft of one piece of s1 and one of s2, and  *)
(* one sent for two of s1 and one of s2.  s2 has no PartStock yet, and a    *)
(* work order has reserved a piece of s1.  Two calls work on the order and  *)
(* one on the parts of the work order; one database call throws or one      *)
(* process dies (MaxFaults).  One receipt brings a part twice, the other    *)
(* both parts and more of s1 than was ordered.  Calls end, so a behaviour   *)
(* stops.                                                                   *)
(***************************************************************************)
EXTENDS Purchasing, TLC

CONSTANTS w1, s1, s2

MCWorkOrders == {w1}
MCStocks == {s1, s2}
Items(a, b) == [s \in MCStocks |-> IF s = s1 THEN a ELSE b]

Req(op, qty) ==
    [op |-> op, wo |-> w1, stock |-> s1, qty |-> qty, cost |-> NoCost, line |-> 0]
MCRequests == {Req("reserve", 1)}
MCInitialOnHand == Items(2, 0)
MCInitialLines ==
    <<[wo |-> w1, stock |-> s1, reserved |-> 1, issued |-> 0, cost |-> 2, deleted |-> FALSE]>>

MCNewOrders ==
    {[status |-> "draft", items |-> Items(1, 1)], [status |-> "sent", items |-> Items(2, 1)]}
Receipt(s, q) == [part |-> s, qty |-> q]
Ask(op, status, receipts) ==
    [op |-> op, status |-> status, items |-> Items(2, 1), receipts |-> receipts]

MCAsked ==
    { Ask("edit", "sent", <<>>), Ask("send", "sent", <<>>), Ask("close", "closed", <<>>),
      Ask("cancel", "canceled", <<>>), Ask("status", "received", <<>>),
      Ask("receive", "sent", <<Receipt(s1, 1), Receipt(s1, 2)>>),
      Ask("receive", "sent", <<Receipt(s2, 1), Receipt(s1, 3)>>) }

Symmetry == Permutations(Buyers)
=============================================================================
