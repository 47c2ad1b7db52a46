----------------------------- MODULE SpotExchange -----------------------------
(***************************************************************************)
(* Binance spot as the adapter uses it, for one asset (external; the       *)
(* engine's own stand-in for it is apps/engine/test/fakeBinance.ts).  The  *)
(* exchange is a function from orders to what is left of them.  An order   *)
(* is a pair <<ticket, leg>>: an OCO list is one ticket with a limit and a *)
(* stop leg, of which at most one fills.                                   *)
(***************************************************************************)
EXTENDS Naturals, SequencesExt

Legs == {"limit", "stop", "market"}

Resting(q) == [qty |-> q, done |-> 0, open |-> TRUE]
Done(q)    == [qty |-> q, done |-> q, open |-> FALSE]

OpenOrders(ex)  == {o \in DOMAIN ex : ex[o].open}
OrdersOf(ex, n) == {o \in DOMAIN ex : o[1] = n}

\* Executed quantity of a set of orders.
Executed(f, orders) == SumFunctionOnSet([o \in orders |-> f[o].done], orders)
Sold(ex) == Executed(ex, DOMAIN ex)

\* A list locks its quantity once, as long as one of its legs is open.
Left(ex, orders) == SumFunctionOnSet([o \in orders |-> ex[o].qty - ex[o].done], orders)
Locking(ex) ==
  {o \in OpenOrders(ex) : ~\E p \in OpenOrders(ex) : p[1] = o[1] /\ p[2] = "limit" /\ o[2] = "stop"}
Locked(ex) == Left(ex, Locking(ex))

\* f with the new orders, all alike.
Put(f, orders, order) == [o \in DOMAIN f \cup orders |-> IF o \in orders THEN order ELSE f[o]]

PlaceOco(ex, n, q)   == Put(ex, {<<n, "limit">>, <<n, "stop">>}, Resting(q))
PlaceStop(ex, n, q)  == Put(ex, {<<n, "stop">>}, Resting(q))
MarketSell(ex, n, q) == Put(ex, {<<n, "market">>}, Done(q))

Shut(ex, orders) == [o \in DOMAIN ex |-> IF o \in orders THEN [ex[o] EXCEPT !.open = FALSE] ELSE ex[o]]
CancelTicket(ex, n) == Shut(ex, OrdersOf(ex, n))

\* k of order o is executed; the other leg of its list expires.
FillOrder(ex, o, k) ==
  [Shut(ex, OrdersOf(ex, o[1]) \ {o}) EXCEPT
     ![o].done = @ + k, ![o].open = ex[o].done + k < ex[o].qty]
=============================================================================
