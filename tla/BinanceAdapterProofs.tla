------------------------- MODULE BinanceAdapterProofs -------------------------
(***************************************************************************)
(* BinanceAdapter keeps the shapes of its state, the exchange never sells  *)
(* or locks more than the account holds, the orders table never says more  *)
(* than the exchange, and a signal buys once: for every quantity, every    *)
(* overlap of the handlers, any number of failing calls and statements,    *)
(* refusals, lost answers and fills, whole or in part, and any crash.      *)
(*                                                                         *)
(* The inductive invariant, TypeInv, is about the handlers' lists as much  *)
(* as about the tables: a row or a request that a handler took along over  *)
(* an await must still be true of the exchange when it is used.            *)
(***************************************************************************)
EXTENDS BinanceAdapter, SequenceTheorems, Sums

-----------------------------------------------------------------------------
(* The exchange: what it sold and what it locks together is a sum over its *)
(* orders, to which an open list contributes its quantity once.            *)

Ids(n) == (1 .. n) \X Legs

Orders == {v \in [qty : Nat, done : Nat, open : BOOLEAN] : v.done <= v.qty}

ExchangeOK(x, n) ==
  /\ x \in [DOMAIN x -> Orders]
  /\ DOMAIN x \subseteq Ids(n)
  /\ \A o, p \in OpenOrders(x) : o[1] = p[1] => x[o].qty = x[p].qty /\ x[o].done = x[p].done

Weight(x) == [o \in DOMAIN x |-> x[o].done + (IF o \in Locking(x) THEN x[o].qty - x[o].done ELSE 0)]
Weights(x) == SumFunctionOnSet(Weight(x), DOMAIN x)

LEMMA IdsFinite == ASSUME NEW n \in Nat, NEW S \in SUBSET Ids(n) PROVE IsFiniteSet(S)
<1>1. IsFiniteSet(1 .. n)
  BY FS_Interval
<1>2. IsFiniteSet(Legs)
  <2>1. IsFiniteSet({"limit"})
    BY FS_Singleton
  <2>2. IsFiniteSet({"limit"} \cup {"stop"})
    BY <2>1, FS_AddElement
  <2>3. IsFiniteSet(({"limit"} \cup {"stop"}) \cup {"market"})
    BY <2>2, FS_AddElement
  <2>4. Legs = ({"limit"} \cup {"stop"}) \cup {"market"}
    BY DEF Legs
  <2> QED
    BY <2>3, <2>4
<1>3. IsFiniteSet(Ids(n))
  BY <1>1, <1>2, FS_Product DEF Ids
<1> QED
  BY <1>3, FS_Subset

LEMMA OrderIs ==
  ASSUME NEW v \in Orders
  PROVE  v.qty \in Nat /\ v.done \in Nat /\ v.open \in BOOLEAN /\ v.done <= v.qty
BY DEF Orders

LEMMA WeightIs ==
  ASSUME NEW n \in Nat, NEW x, ExchangeOK(x, n)
  PROVE  /\ IsFiniteSet(DOMAIN x)
         /\ \A o \in DOMAIN x : Weight(x)[o] \in Nat
         /\ Sold(x) \in Nat /\ Locked(x) \in Nat
         /\ Weights(x) = Sold(x) + Locked(x)
<1> DEFINE D == DOMAIN x
           f == [o \in D |-> x[o].done]
           L == Locking(x)
           k == [o \in L |-> x[o].qty - x[o].done]
           g == [o \in D |-> IF o \in L THEN x[o].qty - x[o].done ELSE 0]
<1>1. IsFiniteSet(D)
  BY IdsFinite DEF ExchangeOK
<1>2. L \in SUBSET D
  BY DEF Locking, OpenOrders
<1>3. IsFiniteSet(L)
  BY <1>1, <1>2, FS_Subset
<1>4. \A o \in D : x[o].qty \in Nat /\ x[o].done \in Nat /\ x[o].done <= x[o].qty
  <2>1. \A o \in D : x[o] \in Orders
    BY DEF ExchangeOK
  <2> QED
    BY <2>1, OrderIs
<1>5. \A o \in D : f[o] \in Nat /\ g[o] \in Nat
  BY <1>4
<1>6. \A o \in L : k[o] \in Nat /\ g[o] = k[o]
  BY <1>2, <1>4
<1>7. \A o \in D \ L : g[o] = 0
  OBVIOUS
<1>8. \A o \in D : Weight(x)[o] = f[o] + g[o]
  BY DEF Weight
<1>9. Sold(x) = SumFunctionOnSet(f, D)
  BY DEF Sold, Executed
<1>10. Locked(x) = SumFunctionOnSet(k, L)
  BY DEF Locked, Left
<1>11. Weights(x) = SumFunctionOnSet(Weight(x), D)
  BY DEF Weights
<1> HIDE DEF D, f, g, k, L
<1>12. SumFunctionOnSet(g, D) = SumFunctionOnSet(k, L)
  BY <1>1, <1>2, <1>6, <1>7, SumSpread
<1>13. SumFunctionOnSet(Weight(x), D) = SumFunctionOnSet(f, D) + SumFunctionOnSet(g, D)
  BY <1>1, <1>5, <1>8, SumPlus
<1>14. SumFunctionOnSet(f, D) \in Nat /\ SumFunctionOnSet(k, L) \in Nat
  BY <1>1, <1>3, <1>5, <1>6, SumNat
<1>15. \A o \in D : Weight(x)[o] \in Nat
  BY <1>5, <1>8
<1> QED
  BY <1>1, <1>9, <1>10, <1>11, <1>12, <1>13, <1>14, <1>15 DEF D

\* Free, as the guard of a placement computes it, is what Weights leaves.
LEMMA FreeIs ==
  ASSUME NEW n \in Nat, ExchangeOK(ex, n), Spare \in Nat, bought \in Nat
  PROVE  /\ Free \in Int
         /\ Free = Spare + bought - Weights(ex)
BY WeightIs DEF Free

-----------------------------------------------------------------------------
(* What the operations of the exchange do to it                            *)

Fresh(x, n, S) == S \subseteq {<<n + 1, leg>> : leg \in Legs}

LEMMA PutIs ==
  ASSUME NEW f, NEW S, NEW v
  PROVE  /\ DOMAIN Put(f, S, v) = DOMAIN f \cup S
         /\ \A o \in S : Put(f, S, v)[o] = v
         /\ \A o \in DOMAIN f \ S : Put(f, S, v)[o] = f[o]
BY DEF Put

LEMMA IdsGrow ==
  ASSUME NEW n \in Nat
  PROVE  /\ Ids(n) \subseteq Ids(n + 1)
         /\ \A leg \in Legs : <<n + 1, leg>> \in Ids(n + 1) /\ <<n + 1, leg>> \notin Ids(n)
         /\ \A o \in Ids(n) : o[1] \in 1 .. n /\ o[2] \in Legs /\ o[1] # n + 1 /\ o = <<o[1], o[2]>>
BY DEF Ids

\* An order under a new ticket: the others keep their weight.
LEMMA PlaceWeight ==
  ASSUME NEW n \in Nat, NEW x, ExchangeOK(x, n),
         NEW S, \A o \in S : \E leg \in Legs : o = <<n + 1, leg>>,
         NEW v \in Orders
  PROVE  LET y == Put(x, S, v) IN
         /\ ExchangeOK(y, n + 1)
         /\ \A o \in DOMAIN x : o \notin S /\ Weight(y)[o] = Weight(x)[o]
<1> DEFINE y == Put(x, S, v)
<1>1. /\ DOMAIN y = DOMAIN x \cup S
      /\ \A o \in S : y[o] = v
      /\ \A o \in DOMAIN x \ S : y[o] = x[o]
  BY DEF Put
<1>2. \A o \in S : o \in Ids(n + 1) /\ o \notin Ids(n) /\ o[1] = n + 1
  BY IdsGrow
<1>3. \A o \in DOMAIN x : o \in Ids(n) /\ o \in Ids(n + 1) /\ o \notin S /\ o[1] # n + 1
  BY <1>2, IdsGrow DEF ExchangeOK
<1>4. y \in [DOMAIN y -> Orders]
  <2>1. \A o \in DOMAIN y : y[o] \in Orders
    BY <1>1, <1>3 DEF ExchangeOK
  <2>2. y = [o \in DOMAIN y |-> y[o]]
    BY DEF Put
  <2> HIDE DEF y
  <2> QED BY <2>1, <2>2
<1> HIDE DEF y
<1>5. \A o \in OpenOrders(y) : o \in S \/ (o \in OpenOrders(x) /\ o \notin S)
  BY <1>1 DEF OpenOrders
<1>6. \A o \in DOMAIN x : (o \in OpenOrders(y) <=> o \in OpenOrders(x)) /\ y[o] = x[o]
  BY <1>1, <1>3 DEF OpenOrders
<1>7. \A o, p \in OpenOrders(y) : o[1] = p[1] => y[o].qty = y[p].qty /\ y[o].done = y[p].done
  <2> SUFFICES ASSUME NEW o \in OpenOrders(y), NEW p \in OpenOrders(y), o[1] = p[1]
               PROVE  y[o].qty = y[p].qty /\ y[o].done = y[p].done
    OBVIOUS
  <2>1. CASE o \in S
    <3>1. p \in S
      BY <1>2, <1>3, <1>5, <2>1 DEF OpenOrders
    <3> QED
      BY <1>1, <2>1, <3>1
  <2>2. CASE o \notin S
    <3>1. o \in OpenOrders(x) /\ o \in DOMAIN x
      BY <1>5, <2>2 DEF OpenOrders
    <3>2. p \in OpenOrders(x) /\ p \in DOMAIN x
      BY <1>2, <1>3, <1>5, <3>1 DEF OpenOrders
    <3> QED
      BY <1>6, <3>1, <3>2 DEF ExchangeOK
  <2> QED
    BY <2>1, <2>2
<1>8. DOMAIN y \subseteq Ids(n + 1)
  BY <1>1, <1>2, <1>3
<1>9. \A o \in DOMAIN x : o \in Locking(y) <=> o \in Locking(x)
  <2> SUFFICES ASSUME NEW o \in DOMAIN x PROVE o \in Locking(y) <=> o \in Locking(x)
    OBVIOUS
  <2>1. \A p \in OpenOrders(y) : p[1] = o[1] => p \in OpenOrders(x)
    BY <1>2, <1>3, <1>5
  <2>2. \A p \in OpenOrders(x) : p \in OpenOrders(y)
    BY <1>6 DEF OpenOrders
  <2> QED
    BY <1>6, <2>1, <2>2 DEF Locking
<1>10. \A o \in DOMAIN x : Weight(y)[o] = Weight(x)[o]
  BY <1>1, <1>6, <1>9 DEF Weight
<1> QED
  BY <1>3, <1>4, <1>7, <1>8, <1>10 DEF ExchangeOK, y

\* One new order that fits keeps the total.
LEMMA PlaceOne ==
  ASSUME NEW n \in Nat, NEW x, ExchangeOK(x, n), NEW leg \in Legs, NEW v \in Orders
  PROVE  LET y == Put(x, {<<n + 1, leg>>}, v) IN
         /\ ExchangeOK(y, n + 1)
         /\ Weights(y) <= Weights(x) + v.qty
<1> DEFINE a == <<n + 1, leg>>
           y == Put(x, {a}, v)
           D == DOMAIN x
<1>1. ExchangeOK(y, n + 1) /\ \A o \in D : o # a /\ Weight(y)[o] = Weight(x)[o]
  <2>1. \A o \in {a} : \E l \in Legs : o = <<n + 1, l>>
    OBVIOUS
  <2> QED
    BY <2>1, PlaceWeight
<1>2. DOMAIN y = D \cup {a} /\ y[a] = v
  BY DEF Put
<1>3. IsFiniteSet(D) /\ (\A o \in D : Weight(x)[o] \in Nat) /\ Weights(x) \in Nat
  BY WeightIs
<1>4. (\A o \in DOMAIN y : Weight(y)[o] \in Nat) /\ Weights(y) \in Nat
  <2> HIDE DEF y
  <2> QED BY <1>1, WeightIs
<1>5. Weight(y)[a] <= v.qty
  <2>1. v.qty \in Nat /\ v.done \in Nat /\ v.done <= v.qty
    BY OrderIs
  <2>2. Weight(y)[a] = v.done + (IF a \in Locking(y) THEN v.qty - v.done ELSE 0)
    BY <1>2 DEF Weight
  <2> QED
    BY <2>1, <2>2
<1> DEFINE before == SumFunctionOnSet(Weight(x), D)
           same   == SumFunctionOnSet(Weight(y), D)
<1>6. Weights(x) = before /\ Weights(y) = SumFunctionOnSet(Weight(y), D \cup {a})
  BY <1>2 DEF Weights
<1> HIDE DEF y, D, a
<1>7. same = before
  BY <1>1, <1>3, SumSame
<1>8. SumFunctionOnSet(Weight(y), D \cup {a}) = Weight(y)[a] + same
  <2>1. a \notin D /\ \A o \in D \cup {a} : Weight(y)[o] \in Int
    BY <1>1, <1>2, <1>4
  <2> QED
    BY <1>3, <2>1, SumAdd
<1>9. Weight(y)[a] \in Nat /\ v.qty \in Nat
  BY <1>2, <1>4, OrderIs
<1>10. Weights(y) <= Weights(x) + v.qty
  <2> HIDE DEF before, same
  <2> QED BY <1>3, <1>5, <1>6, <1>7, <1>8, <1>9
<1> QED
  BY <1>1, <1>10 DEF y, a

\* A list that fits keeps it too: its stop leg locks nothing of its own.
LEMMA PlaceTwo ==
  ASSUME NEW n \in Nat, NEW x, ExchangeOK(x, n), NEW q \in Nat
  PROVE  LET y == PlaceOco(x, n + 1, q) IN
         /\ ExchangeOK(y, n + 1)
         /\ Weights(y) <= Weights(x) + q
<1> DEFINE a == <<n + 1, "limit">>
           b == <<n + 1, "stop">>
           v == Resting(q)
           y == Put(x, {a, b}, v)
           D == DOMAIN x
<1>0. v \in Orders /\ v.qty = q /\ v.done = 0 /\ v.open
  BY DEF Resting, Orders
<1>1. ExchangeOK(y, n + 1) /\ \A o \in D : o # a /\ o # b /\ Weight(y)[o] = Weight(x)[o]
  <2>1. \A o \in {a, b} : \E l \in Legs : o = <<n + 1, l>>
    BY DEF Legs
  <2> HIDE DEF v
  <2> QED BY <1>0, <2>1, PlaceWeight
<1>2. DOMAIN y = (D \cup {a}) \cup {b} /\ y[a] = v /\ y[b] = v
  <2> HIDE DEF v
  <2>1. DOMAIN y = D \cup {a, b} /\ y[a] = v /\ y[b] = v
    BY DEF Put
  <2> QED
    BY <2>1
<1>3. IsFiniteSet(D) /\ (\A o \in D : Weight(x)[o] \in Nat) /\ Weights(x) \in Nat
  BY WeightIs
<1>4. (\A o \in DOMAIN y : Weight(y)[o] \in Nat) /\ Weights(y) \in Nat
  <2> HIDE DEF y
  <2> QED BY <1>1, WeightIs
<1>5. Weight(y)[a] <= q
  <2>1. Weight(y)[a] = v.done + (IF a \in Locking(y) THEN v.qty - v.done ELSE 0)
    BY <1>2 DEF Weight
  <2> QED
    BY <1>0, <2>1
<1>6. Weight(y)[b] = 0
  <2>1. a \in OpenOrders(y)
    BY <1>0, <1>2 DEF OpenOrders
  <2>2. a[1] = b[1] /\ a[2] = "limit" /\ b[2] = "stop"
    OBVIOUS
  <2>3. b \notin Locking(y)
    BY <2>1, <2>2 DEF Locking
  <2>4. Weight(y)[b] = v.done + (IF b \in Locking(y) THEN v.qty - v.done ELSE 0)
    BY <1>2 DEF Weight
  <2> QED
    BY <1>0, <2>3, <2>4
<1> DEFINE before == SumFunctionOnSet(Weight(x), D)
           same   == SumFunctionOnSet(Weight(y), D)
           one    == SumFunctionOnSet(Weight(y), D \cup {a})
<1>7. Weights(x) = before /\ Weights(y) = SumFunctionOnSet(Weight(y), (D \cup {a}) \cup {b})
  BY <1>2 DEF Weights
<1>8. a # b
  OBVIOUS
<1>9. y = PlaceOco(x, n + 1, q)
  BY DEF PlaceOco
<1> HIDE DEF y, D, a, b, v
<1>10. same = before
  BY <1>1, <1>3, SumSame
<1>11. one = Weight(y)[a] + same
  <2>1. a \notin D /\ \A o \in D \cup {a} : Weight(y)[o] \in Int
    BY <1>1, <1>2, <1>4
  <2> QED
    BY <1>3, <2>1, SumAdd
<1>12. SumFunctionOnSet(Weight(y), (D \cup {a}) \cup {b}) = Weight(y)[b] + one
  <2>1. b \notin D \cup {a} /\ \A o \in (D \cup {a}) \cup {b} : Weight(y)[o] \in Int
    BY <1>1, <1>2, <1>4, <1>8
  <2>2. IsFiniteSet(D \cup {a})
    BY <1>3, FS_AddElement
  <2> QED
    BY <2>1, <2>2, SumAdd
<1>13. Weight(y)[a] \in Nat
  BY <1>2, <1>4
<1>14. Weights(y) <= Weights(x) + q
  <2> HIDE DEF before, same, one
  <2> QED BY <1>3, <1>5, <1>6, <1>7, <1>10, <1>11, <1>12, <1>13
<1> QED
  BY <1>1, <1>9, <1>14

\* Cancelling only releases.
LEMMA CancelWeight ==
  ASSUME NEW n \in Nat, NEW x, ExchangeOK(x, n), NEW t
  PROVE  LET y == CancelTicket(x, t) IN
         /\ DOMAIN y = DOMAIN x
         /\ ExchangeOK(y, n)
         /\ Weights(y) <= Weights(x)
<1> DEFINE y == CancelTicket(x, t)
           D == DOMAIN x
<1>1. /\ DOMAIN y = D
      /\ y = [o \in DOMAIN y |-> y[o]]
      /\ \A o \in D : o[1] = t => y[o] = [x[o] EXCEPT !.open = FALSE]
      /\ \A o \in D : o[1] # t => y[o] = x[o]
  BY DEF CancelTicket, Shut, OrdersOf
<1>2. \A o \in D : x[o] \in Orders
  BY DEF ExchangeOK
<1> HIDE DEF y
<1>3. \A o \in D : y[o] \in Orders /\ y[o].qty = x[o].qty /\ y[o].done = x[o].done
                   /\ (y[o].open <=> x[o].open /\ o[1] # t)
  <2> SUFFICES ASSUME NEW o \in D
               PROVE  y[o] \in Orders /\ y[o].qty = x[o].qty /\ y[o].done = x[o].done
                      /\ (y[o].open <=> x[o].open /\ o[1] # t)
    OBVIOUS
  <2>1. x[o] \in Orders
    BY <1>2
  <2>2. CASE o[1] = t
    <3>1. PICK q \in Nat, d \in Nat, b \in BOOLEAN : x[o] = [qty |-> q, done |-> d, open |-> b]
      BY <2>1 DEF Orders
    <3>2. y[o] = [qty |-> q, done |-> d, open |-> FALSE]
      BY <1>1, <2>2, <3>1
    <3> QED
      BY <2>1, <2>2, <3>1, <3>2 DEF Orders
  <2>3. CASE o[1] # t
    BY <1>1, <2>1, <2>3
  <2> QED
    BY <2>2, <2>3
<1>4. \A o \in D : o \in OpenOrders(y) <=> o \in OpenOrders(x) /\ o[1] # t
  BY <1>1, <1>3 DEF OpenOrders
<1>5. ExchangeOK(y, n)
  <2>1. y \in [DOMAIN y -> Orders]
    BY <1>1, <1>3
  <2>2. \A o, p \in OpenOrders(y) : o[1] = p[1] => y[o].qty = y[p].qty /\ y[o].done = y[p].done
    <3>1. OpenOrders(y) \subseteq D
      BY <1>1 DEF OpenOrders
    <3> QED
      BY <1>3, <1>4, <3>1 DEF ExchangeOK
  <2> QED
    BY <1>1, <2>1, <2>2 DEF ExchangeOK
<1>6. \A o \in D : o[1] # t => Weight(y)[o] = Weight(x)[o]
  <2> SUFFICES ASSUME NEW o \in D, o[1] # t PROVE Weight(y)[o] = Weight(x)[o]
    OBVIOUS
  <2>1. OpenOrders(y) \subseteq D /\ OpenOrders(x) \subseteq D
    BY <1>1 DEF OpenOrders
  <2>2. o \in Locking(y) <=> o \in Locking(x)
    BY <1>4, <2>1 DEF Locking
  <2>3. o \in DOMAIN y
    BY <1>1
  <2> QED
    BY <1>3, <2>2, <2>3 DEF Weight
<1>7. \A o \in D : o[1] = t => Weight(y)[o] = x[o].done
  <2> SUFFICES ASSUME NEW o \in D, o[1] = t PROVE Weight(y)[o] = x[o].done
    OBVIOUS
  <2>1. o \notin Locking(y) /\ o \in DOMAIN y
    BY <1>1, <1>4 DEF Locking
  <2>2. x[o].done \in Nat
    BY <1>2, OrderIs
  <2> QED
    BY <1>3, <2>1, <2>2 DEF Weight
<1>8. \A o \in D : Weight(y)[o] \in Nat /\ Weight(x)[o] \in Nat /\ Weight(y)[o] <= Weight(x)[o]
  <2>1. \A o \in D : Weight(y)[o] \in Nat /\ Weight(x)[o] \in Nat
    BY <1>1, <1>5, WeightIs
  <2>2. \A o \in D : x[o].done <= Weight(x)[o]
    <3>1. \A o \in D : x[o].done \in Nat /\ x[o].qty \in Nat /\ x[o].done <= x[o].qty
      BY <1>2, OrderIs
    <3> QED
      BY <3>1 DEF Weight
  <2> QED
    BY <1>6, <1>7, <2>1, <2>2
<1>9. IsFiniteSet(D)
  BY WeightIs
<1>10. Weights(y) <= Weights(x)
  <2> HIDE DEF D
  <2>1. SumFunctionOnSet(Weight(y), D) <= SumFunctionOnSet(Weight(x), D)
    BY <1>8, <1>9, SumBelow
  <2> QED
    BY <1>1, <2>1 DEF Weights, D
<1> QED
  BY <1>1, <1>5, <1>10 DEF y

\* A fill sells no more than what the order or its list had locked.
LEMMA FillWeight ==
  ASSUME NEW n \in Nat, NEW x, ExchangeOK(x, n), NEW o \in OpenOrders(x),
         NEW k \in 1 .. x[o].qty - x[o].done
  PROVE  LET y == FillOrder(x, o, k) IN
         /\ DOMAIN y = DOMAIN x
         /\ ExchangeOK(y, n)
         /\ Weights(y) <= Weights(x)
         /\ \A p \in DOMAIN x : x[p].done <= y[p].done /\ (~x[p].open => ~y[p].open /\ y[p].done = x[p].done)
<1> DEFINE z == Shut(x, OrdersOf(x, o[1]) \ {o})
           y == FillOrder(x, o, k)
           D == DOMAIN x
<1>1. o \in D /\ x[o].open
  BY DEF OpenOrders
<1>2. \A p \in D : x[p] \in Orders
  BY DEF ExchangeOK
<1>3. PICK q \in Nat, d \in Nat : x[o] = [qty |-> q, done |-> d, open |-> TRUE] /\ d <= q
  BY <1>1, <1>2 DEF Orders
<1>4. k \in Nat /\ d + k <= q
  BY <1>3
<1>5. /\ DOMAIN z = D
      /\ z = [p \in D |-> z[p]]
      /\ z[o] = x[o]
      /\ \A p \in D \ {o} : z[p] = IF p[1] = o[1] THEN [x[p] EXCEPT !.open = FALSE] ELSE x[p]
  BY <1>1 DEF Shut, OrdersOf
<1>6. y = [[z EXCEPT ![o].done = @ + k] EXCEPT ![o].open = x[o].done + k < x[o].qty]
  BY DEF FillOrder
<1> HIDE DEF z, y
<1> DEFINE left == d + k < q
<1>7. /\ DOMAIN y = D
      /\ y = [p \in D |-> y[p]]
      /\ y[o] = [qty |-> q, done |-> d + k, open |-> left]
      /\ \A p \in D \ {o} : y[p] = z[p]
  <2> DEFINE w == [z EXCEPT ![o].done = @ + k]
  <2>1. DOMAIN w = D /\ w = [p \in D |-> w[p]] /\ \A p \in D \ {o} : w[p] = z[p]
    BY <1>5
  <2>2. w[o] = [z[o] EXCEPT !.done = z[o].done + k]
    BY <1>1, <1>5
  <2>3. z[o] = [qty |-> q, done |-> d, open |-> TRUE]
    BY <1>3, <1>5
  <2>5. w[o] = [qty |-> q, done |-> d + k, open |-> TRUE]
    <3>1. z[o].done = d
      BY <2>3
    <3>2. PICK v : v = z[o]
      OBVIOUS
    <3>3. PICK u : u = w[o]
      OBVIOUS
    <3> HIDE DEF w
    <3>4. u = [v EXCEPT !.done = d + k] /\ v = [qty |-> q, done |-> d, open |-> TRUE]
      BY <2>2, <2>3, <3>1, <3>2, <3>3
    <3>5. u = [qty |-> q, done |-> d + k, open |-> TRUE]
      BY <3>4
    <3> QED
      BY <3>3, <3>5
  <2>6. (x[o].done + k < x[o].qty) = left
    BY <1>3
  <2> HIDE DEF left
  <2>7. y = [w EXCEPT ![o].open = left]
    BY <1>6, <2>6
  <2> HIDE DEF w
  <2>8. y[o] = [w[o] EXCEPT !.open = left]
    BY <1>1, <2>1, <2>7
  <2>9. y[o] = [qty |-> q, done |-> d + k, open |-> left]
    <3>1. PICK v : v = w[o]
      OBVIOUS
    <3>2. PICK u : u = y[o]
      OBVIOUS
    <3>3. u = [v EXCEPT !.open = left] /\ v = [qty |-> q, done |-> d + k, open |-> TRUE]
      BY <2>5, <2>8, <3>1, <3>2
    <3>4. u = [qty |-> q, done |-> d + k, open |-> left]
      BY <3>3
    <3> QED
      BY <3>2, <3>4
  <2> QED
    BY <1>1, <2>1, <2>7, <2>9
<1>8. \A p \in D \ {o} : y[p] \in Orders /\ y[p].qty = x[p].qty /\ y[p].done = x[p].done
                         /\ (y[p].open <=> x[p].open /\ p[1] # o[1])
  <2> SUFFICES ASSUME NEW p \in D \ {o}
               PROVE  y[p] \in Orders /\ y[p].qty = x[p].qty /\ y[p].done = x[p].done
                      /\ (y[p].open <=> x[p].open /\ p[1] # o[1])
    OBVIOUS
  <2>1. x[p] \in Orders
    BY <1>2
  <2>2. CASE p[1] = o[1]
    <3>1. PICK qp \in Nat, dp \in Nat, b \in BOOLEAN : x[p] = [qty |-> qp, done |-> dp, open |-> b]
      BY <2>1 DEF Orders
    <3>2. y[p] = [qty |-> qp, done |-> dp, open |-> FALSE]
      BY <1>5, <1>7, <2>2, <3>1
    <3> QED
      BY <2>1, <2>2, <3>1, <3>2 DEF Orders
  <2>3. CASE p[1] # o[1]
    BY <1>5, <1>7, <2>1, <2>3
  <2> QED
    BY <2>2, <2>3
<1>9. y[o] \in Orders
  <2>1. [qty |-> q, done |-> d + k, open |-> left] \in Orders
    BY <1>4 DEF Orders
  <2> QED
    BY <1>7, <2>1
<1>10. /\ \A p \in D \ {o} : p \in OpenOrders(y) <=> p \in OpenOrders(x) /\ p[1] # o[1]
       /\ o \in OpenOrders(y) <=> left
  <2>1. y[o].open <=> left
    <3> HIDE DEF left
    <3> QED BY <1>7
  <2> HIDE DEF left
  <2>2. o \in OpenOrders(y) <=> left
    BY <1>1, <1>7, <2>1 DEF OpenOrders
  <2>3. ASSUME NEW p \in D \ {o} PROVE p \in OpenOrders(y) <=> p \in OpenOrders(x) /\ p[1] # o[1]
    BY <1>7, <1>8, <2>3 DEF OpenOrders
  <2> QED
    BY <2>2, <2>3
<1>11. ExchangeOK(y, n)
  <2>1. y \in [DOMAIN y -> Orders]
    BY <1>7, <1>8, <1>9
  <2>2. \A p, r \in OpenOrders(y) : p[1] = r[1] => y[p].qty = y[r].qty /\ y[p].done = y[r].done
    <3> SUFFICES ASSUME NEW p \in OpenOrders(y), NEW r \in OpenOrders(y), p[1] = r[1]
                 PROVE  y[p].qty = y[r].qty /\ y[p].done = y[r].done
      OBVIOUS
    <3>1. OpenOrders(y) \subseteq D
      BY <1>7 DEF OpenOrders
    <3>2. p = o <=> r = o
      BY <1>10, <3>1
    <3>3. CASE p = o
      BY <3>2, <3>3
    <3>4. CASE p # o
      <4>1. p \in D \ {o} /\ r \in D \ {o} /\ p \in OpenOrders(x) /\ r \in OpenOrders(x)
        BY <1>10, <3>1, <3>2, <3>4
      <4>2. x[p].qty = x[r].qty /\ x[p].done = x[r].done
        BY <4>1 DEF ExchangeOK
      <4> QED
        BY <1>8, <4>1, <4>2
    <3> QED
      BY <3>3, <3>4
  <2> QED
    BY <1>7, <2>1, <2>2 DEF ExchangeOK
<1>12. \A p \in D : p[1] # o[1] => Weight(y)[p] = Weight(x)[p]
  <2> SUFFICES ASSUME NEW p \in D, p[1] # o[1] PROVE Weight(y)[p] = Weight(x)[p]
    OBVIOUS
  <2>1. OpenOrders(y) \subseteq D /\ OpenOrders(x) \subseteq D
    BY <1>7 DEF OpenOrders
  <2>2. p \in Locking(y) <=> p \in Locking(x)
    BY <1>10, <2>1 DEF Locking
  <2>3. p \in DOMAIN y /\ p # o
    BY <1>7
  <2> QED
    BY <1>8, <2>2, <2>3 DEF Weight
<1>13. \A p \in D \ {o} : p[1] = o[1] => Weight(y)[p] = y[p].done
  <2> SUFFICES ASSUME NEW p \in D \ {o}, p[1] = o[1] PROVE Weight(y)[p] = y[p].done
    OBVIOUS
  <2>1. p \notin Locking(y) /\ p \in DOMAIN y
    BY <1>7, <1>10 DEF Locking
  <2>2. y[p].done \in Nat
    BY <1>8, OrderIs
  <2> QED
    BY <2>1, <2>2 DEF Weight
<1>14. \A p \in D : Weight(y)[p] \in Nat /\ Weight(x)[p] \in Nat
  BY <1>7, <1>11, WeightIs
<1>15. \A p \in D : x[p].done <= Weight(x)[p]
  <2>1. \A p \in D : x[p].done \in Nat /\ x[p].qty \in Nat /\ x[p].done <= x[p].qty
    BY <1>2, OrderIs
  <2> QED
    BY <2>1 DEF Weight
<1>16. \A p \in D \ {o} : Weight(y)[p] <= Weight(x)[p]
  BY <1>8, <1>12, <1>13, <1>14, <1>15
<1>17. Weight(y)[o] <= q
  <2>1. Weight(y)[o] = y[o].done + (IF o \in Locking(y) THEN y[o].qty - y[o].done ELSE 0)
    BY <1>1, <1>7 DEF Weight
  <2>2. y[o].done = d + k /\ y[o].qty = q
    BY <1>7
  <2> QED
    BY <1>3, <1>4, <2>1, <2>2
<1>18. IsFiniteSet(D)
  BY WeightIs
<1> DEFINE fx == Weight(x)
           fy == Weight(y)
<1>19. Weights(y) = SumFunctionOnSet(fy, D) /\ Weights(x) = SumFunctionOnSet(fx, D)
  BY <1>7 DEF Weights
<1>22. \A p \in D : x[p].done <= y[p].done /\ (~x[p].open => ~y[p].open /\ y[p].done = x[p].done)
  <2> SUFFICES ASSUME NEW p \in D PROVE x[p].done <= y[p].done /\ (~x[p].open => ~y[p].open /\ y[p].done = x[p].done)
    OBVIOUS
  <2>1. CASE p = o
    <3>1. x[o].done = d /\ y[o].done = d + k
      BY <1>3, <1>7
    <3> QED
      BY <1>1, <1>3, <1>4, <2>1, <3>1
  <2>2. CASE p # o
    <3>1. x[p].done \in Nat
      BY <1>2, OrderIs
    <3> QED
      BY <1>8, <2>2, <3>1
  <2> QED
    BY <2>1, <2>2
<1>20. CASE o \in Locking(x)
  <2>1. fx[o] = q
    <3>1. fx[o] = x[o].done + (x[o].qty - x[o].done)
      BY <1>1, <1>20 DEF Weight
    <3>2. x[o].done = d /\ x[o].qty = q
      BY <1>3
    <3> QED
      BY <1>3, <3>1, <3>2
  <2> HIDE DEF D, fx, fy
  <2>2. \A p \in D : fy[p] \in Int /\ fx[p] \in Int /\ fy[p] <= fx[p]
    <3>1. \A p \in D : fy[p] \in Nat /\ fx[p] \in Nat
      BY <1>14 DEF fx, fy
    <3>2. \A p \in D \ {o} : fy[p] <= fx[p]
      BY <1>16 DEF fx, fy
    <3>3. fy[o] <= q
      BY <1>17 DEF fy
    <3> QED
      BY <2>1, <3>1, <3>2, <3>3
  <2>3. SumFunctionOnSet(fy, D) <= SumFunctionOnSet(fx, D)
    BY <1>18, <2>2, SumBelow
  <2> QED
    BY <1>7, <1>11, <1>19, <1>22, <2>3 DEF y, D
<1>21. CASE o \notin Locking(x)
  <2>1. PICK p \in OpenOrders(x) : p[1] = o[1] /\ p[2] = "limit" /\ o[2] = "stop"
    BY <1>21 DEF Locking
  <2>2. p \in D /\ p # o /\ x[p].open
    BY <2>1 DEF OpenOrders
  <2>3. x[p].qty = q /\ x[p].done = d
    <3>1. x[p].qty = x[o].qty /\ x[p].done = x[o].done
      BY <2>1 DEF ExchangeOK
    <3> QED
      BY <1>3, <3>1
  <2>4. p \in Locking(x)
    BY <2>1 DEF Locking
  <2>5. fx[p] = q
    <3>1. fx[p] = x[p].done + (x[p].qty - x[p].done)
      BY <2>2, <2>4 DEF Weight
    <3> QED
      BY <1>3, <2>3, <3>1
  <2>51. d <= fx[o]
    <3>1. x[o].done = d
      BY <1>3
    <3> QED
      BY <1>1, <1>15, <3>1
  <2>6. fy[p] = d
    BY <1>8, <1>13, <2>1, <2>2, <2>3
  <2> DEFINE E == D \ {o}
             F == E \ {p}
             sx == SumFunctionOnSet(fx, F)
             sy == SumFunctionOnSet(fy, F)
  <2>7. \A r \in F : fy[r] \in Int /\ fx[r] \in Int /\ fy[r] <= fx[r]
    BY <1>14, <1>16
  <2>8. IsFiniteSet(E) /\ IsFiniteSet(F) /\ p \in E
    BY <1>18, <2>2, FS_Subset
  <2>9. (\A r \in D : fx[r] \in Int /\ fy[r] \in Int) /\ fx[o] \in Nat /\ fy[o] \in Nat
    BY <1>1, <1>14
  <2>10. \A r \in E : fx[r] \in Int /\ fy[r] \in Int
    BY <2>9
  <2>11. fy[o] <= q
    BY <1>17
  <2> HIDE DEF fx, fy, F, E, D
  <2>12. sy <= sx
    BY <2>7, <2>8, SumBelow
  <2>13. /\ SumFunctionOnSet(fx, E) \in Int /\ SumFunctionOnSet(fx, D) = fx[o] + SumFunctionOnSet(fx, E)
         /\ SumFunctionOnSet(fy, E) \in Int /\ SumFunctionOnSet(fy, D) = fy[o] + SumFunctionOnSet(fy, E)
    BY <1>1, <1>18, <2>9, SumOut DEF E
  <2>14. /\ sx \in Int /\ SumFunctionOnSet(fx, E) = fx[p] + sx
         /\ sy \in Int /\ SumFunctionOnSet(fy, E) = fy[p] + sy
    BY <2>8, <2>10, SumOut DEF F
  <2> HIDE DEF sx, sy
  <2>15. SumFunctionOnSet(fy, D) <= SumFunctionOnSet(fx, D)
    BY <1>3, <2>5, <2>51, <2>6, <2>9, <2>11, <2>12, <2>13, <2>14
  <2> QED
    BY <1>7, <1>11, <1>19, <1>22, <2>15 DEF y, D
<1> QED
  BY <1>20, <1>21

-----------------------------------------------------------------------------
(* consume() takes what is needed from the fills, oldest first, and no     *)
(* more: the parts it takes add up.                                        *)

\* A market order has a ticket of its own.
Tidy(S) == \A o, p \in S : o[1] = p[1] => (o[2] = "market" <=> p[2] = "market")

LEMMA MinIs ==
  ASSUME NEW a \in Int, NEW b \in Int
  PROVE  Min({a, b}) = IF a <= b THEN a ELSE b
<1>1. CASE a <= b
  <2>1. a \in {a, b} /\ \A y \in {a, b} : a <= y
    BY <1>1
  <2>2. \A x \in {a, b} : (\A y \in {a, b} : x <= y) => x = a
    BY <1>1
  <2> QED
    BY <1>1, <2>1, <2>2 DEF Min
<1>2. CASE ~(a <= b)
  <2>1. b \in {a, b} /\ \A y \in {a, b} : b <= y
    BY <1>2
  <2>2. \A x \in {a, b} : (\A y \in {a, b} : x <= y) => x = b
    BY <1>2
  <2> QED
    BY <1>2, <2>1, <2>2 DEF Min
<1> QED
  BY <1>1, <1>2

Age(o) == 2 * o[1] + (IF o[2] = "stop" THEN 1 ELSE 0)

\* Orders are as old as their tickets, a limit leg older than its stop leg.
LEMMA OlderIs ==
  ASSUME NEW n \in Nat, NEW D, D \subseteq Ids(n), Tidy(D), NEW o \in D, NEW p \in D
  PROVE  /\ Age(o) \in Int
         /\ Older(o, p) <=> Age(o) < Age(p)
         /\ Age(o) = Age(p) => o = p
<1>1. o[1] \in Nat /\ o[2] \in Legs /\ o = <<o[1], o[2]>>
  BY IdsGrow
<1>2. p[1] \in Nat /\ p[2] \in Legs /\ p = <<p[1], p[2]>>
  BY IdsGrow
<1>3. o[1] = p[1] => (o[2] = "market" <=> p[2] = "market")
  BY DEF Tidy
<1>4. Age(o) \in Int /\ Age(p) \in Int
  BY <1>1, <1>2 DEF Age
<1>5. CASE o[1] < p[1]
  <2>1. Age(o) < Age(p)
    BY <1>1, <1>2, <1>5 DEF Age
  <2> QED
    BY <1>4, <1>5, <2>1 DEF Older
<1>6. CASE p[1] < o[1]
  <2>1. Age(p) < Age(o)
    BY <1>1, <1>2, <1>6 DEF Age
  <2>2. ~Older(o, p)
    BY <1>1, <1>2, <1>6 DEF Older
  <2> QED
    BY <1>4, <2>1, <2>2
<1>7. CASE o[1] = p[1]
  <2>1. Age(o) < Age(p) <=> o[2] # "stop" /\ p[2] = "stop"
    BY <1>1, <1>2, <1>7 DEF Age
  <2>2. Older(o, p) <=> o[2] = "limit" /\ p[2] = "stop"
    BY <1>1, <1>2, <1>7 DEF Older
  <2>3. Age(o) = Age(p) <=> (o[2] = "stop" <=> p[2] = "stop")
    BY <1>1, <1>2, <1>7 DEF Age
  <2>4. o[2] # "stop" /\ p[2] = "stop" => o[2] = "limit"
    BY <1>1, <1>3, <1>7 DEF Legs
  <2>5. (o[2] = "stop" <=> p[2] = "stop") => o[2] = p[2]
    BY <1>1, <1>2, <1>3, <1>7 DEF Legs
  <2> QED
    BY <1>1, <1>2, <1>4, <1>7, <2>1, <2>2, <2>3, <2>4, <2>5
<1> QED
  BY <1>1, <1>2, <1>5, <1>6, <1>7

\* The last of some orders.
LEMMA LastOf ==
  ASSUME NEW n \in Nat, NEW D, D \subseteq Ids(n), Tidy(D), NEW T \in SUBSET D, T # {}
  PROVE  \E x \in T : \A o \in T \ {x} : Older(o, x) /\ ~Older(x, o)
<1> DEFINE K == {Age(o) : o \in T}
<1>1. \A o \in T : Age(o) \in 0 .. 2 * n + 1
  BY IdsGrow DEF Age
<1>2. IsFiniteSet(K)
  <2>1. K \in SUBSET (0 .. 2 * n + 1)
    BY <1>1
  <2>2. IsFiniteSet(0 .. 2 * n + 1)
    BY FS_Interval
  <2> HIDE DEF K
  <2> QED BY <2>1, <2>2, FS_Subset
<1>3. K \subseteq Int /\ K # {}
  BY OlderIs
<1>4. PICK m \in K : \A k \in K : m >= k
  <2> HIDE DEF K
  <2> QED BY <1>2, <1>3, MaxExists
<1>5. PICK x \in T : Age(x) = m
  OBVIOUS
<1>6. ASSUME NEW o \in T \ {x} PROVE Older(o, x) /\ ~Older(x, o)
  <2>1. Age(o) \in Int /\ Age(x) \in Int /\ Age(o) <= Age(x) /\ Age(o) # Age(x)
    BY <1>4, <1>5, <1>6, OlderIs
  <2>2. (Older(o, x) <=> Age(o) < Age(x)) /\ (Older(x, o) <=> Age(x) < Age(o))
    BY <1>6, OlderIs
  <2> QED
    BY <2>1, <2>2
<1> QED
  BY <1>6

\* The first of some orders is one of them.
LEMMA FirstOf ==
  ASSUME NEW n \in Nat, NEW D, D \subseteq Ids(n), Tidy(D), NEW T \in SUBSET D, T # {}
  PROVE  First(T) \in T
<1> DEFINE K == {-Age(o) : o \in T}
<1>1. \A o \in T : Age(o) \in 0 .. 2 * n + 1
  BY IdsGrow DEF Age
<1>2. IsFiniteSet(K)
  <2>1. K \in SUBSET (-(2 * n + 1) .. 0)
    BY <1>1
  <2>2. IsFiniteSet(-(2 * n + 1) .. 0)
    BY FS_Interval
  <2> HIDE DEF K
  <2> QED BY <2>1, <2>2, FS_Subset
<1>3. K \subseteq Int /\ K # {}
  BY <1>1
<1>4. PICK m \in K : \A k \in K : m >= k
  <2> HIDE DEF K
  <2> QED BY <1>2, <1>3, MaxExists
<1>5. PICK x \in T : -Age(x) = m
  OBVIOUS
<1>6. ASSUME NEW o \in T \ {x} PROVE Older(x, o)
  <2>1. Age(o) \in Int /\ Age(x) \in Int /\ -Age(x) >= -Age(o)
    BY <1>1, <1>4, <1>5, <1>6
  <2>2. Age(x) # Age(o)
    BY <1>6, OlderIs
  <2>3. Age(x) < Age(o)
    BY <2>1, <2>2
  <2> QED
    BY <1>6, <2>3, OlderIs
<1>7. \E o \in T : \A p \in T \ {o} : Older(o, p)
  BY <1>6
<1> QED
  BY <1>7 DEF First

Need(n) == [o \in DOMAIN rows |-> Take(o, n)]
Unuseds == [o \in DOMAIN rows |-> Unused(o)]
Amounts == \A o \in DOMAIN rows : rows[o].done \in Nat /\ rows[o].used \in Nat

LEMMA UnusedIs ==
  ASSUME Amounts, NEW o \in DOMAIN rows
  PROVE  /\ Unused(o) \in Nat
         /\ Unused(o) = IF rows[o].used <= rows[o].done THEN rows[o].done - rows[o].used ELSE 0
<1>1. rows[o].done \in Int /\ rows[o].used \in Int
  BY DEF Amounts
<1>2. Min({rows[o].done, rows[o].used}) = IF rows[o].done <= rows[o].used THEN rows[o].done ELSE rows[o].used
  BY <1>1, MinIs
<1> QED
  BY <1>1, <1>2 DEF Unused

LEMMA TakeSum ==
  ASSUME NEW n \in Nat, DOMAIN rows \subseteq Ids(n), Tidy(DOMAIN rows), Amounts, NEW need \in Nat
  PROVE  LET taken == SumFunctionOnSet(Need(need), DOMAIN rows)
             there == SumFunctionOnSet(Unuseds, DOMAIN rows)
         IN  /\ there \in Nat
             /\ taken = IF need <= there THEN need ELSE there
             /\ \A o \in DOMAIN rows : Take(o, need) \in Nat /\ Take(o, need) <= Unused(o)
<1> DEFINE D == DOMAIN rows
           f == Need(need)
           g == Unuseds
           Sum(h, T) == SumFunctionOnSet(h, T)
           Closed(T) == \A p \in T : \A o \in D : Older(o, p) => o \in T
           Good == {T \in SUBSET D : Closed(T) => Sum(f, T) = IF need <= Sum(g, T) THEN need ELSE Sum(g, T)}
<1>1. IsFiniteSet(D) /\ \A T \in SUBSET D : IsFiniteSet(T)
  BY IdsFinite, FS_Subset
<1>2. \A o \in D : g[o] \in Nat /\ g[o] = Unused(o)
  BY UnusedIs DEF Unuseds
<1>3. \A T \in SUBSET D : Sum(g, T) \in Nat
  <2> HIDE DEF g, D
  <2> QED BY <1>1, <1>2, SumNat
<1>4. ASSUME NEW o \in D
      PROVE  LET before == Sum(g, {p \in D : Older(p, o)}) IN
             /\ before \in Nat
             /\ Take(o, need) = IF need <= before THEN 0
                                ELSE IF Unused(o) <= need - before THEN Unused(o) ELSE need - before
  <2> DEFINE E == {p \in D : Older(p, o)}
             e == [p \in E |-> Unused(p)]
             before == Sum(g, E)
  <2>1. before \in Nat
    BY <1>3
  <2>2. Sum(e, E) = before
    <3>1. IsFiniteSet(E)
      BY <1>1
    <3>2. \A p \in E : g[p] \in Int /\ e[p] = g[p]
      BY <1>2
    <3> HIDE DEF E, e, g
    <3> QED BY <3>1, <3>2, SumSame
  <2>3. Take(o, need) = Min({Unused(o), need - Min({need, before})})
    <3>1. Take(o, need) = Min({Unused(o), need - Min({need, Sum(e, E)})})
      BY DEF Take
    <3> HIDE DEF e, E, before
    <3> QED BY <2>2, <3>1
  <2> HIDE DEF before, E
  <2>4. Min({need, before}) = IF need <= before THEN need ELSE before
    BY <2>1, MinIs
  <2>5. need - Min({need, before}) = IF need <= before THEN 0 ELSE need - before
    BY <2>1, <2>4
  <2>6. Unused(o) \in Nat
    BY UnusedIs
  <2>7. need - Min({need, before}) \in Nat
    BY <2>1, <2>5
  <2>8. Take(o, need) = IF Unused(o) <= need - Min({need, before}) THEN Unused(o) ELSE need - Min({need, before})
    BY <2>3, <2>6, <2>7, MinIs
  <2>9. Take(o, need) = IF need <= before THEN 0
                        ELSE IF Unused(o) <= need - before THEN Unused(o) ELSE need - before
    BY <2>1, <2>5, <2>6, <2>8
  <2> QED
    BY <2>1, <2>9 DEF before, E
<1>5. \A o \in D : Take(o, need) \in Nat /\ Take(o, need) <= Unused(o) /\ f[o] = Take(o, need)
  <2> SUFFICES ASSUME NEW o \in D
               PROVE  Take(o, need) \in Nat /\ Take(o, need) <= Unused(o) /\ f[o] = Take(o, need)
    OBVIOUS
  <2>1. f[o] = Take(o, need)
    BY DEF Need
  <2>2. Unused(o) \in Nat
    BY UnusedIs
  <2> DEFINE before == Sum(g, {p \in D : Older(p, o)})
  <2>3. /\ before \in Nat
        /\ Take(o, need) = IF need <= before THEN 0
                           ELSE IF Unused(o) <= need - before THEN Unused(o) ELSE need - before
    BY <1>4
  <2> HIDE DEF before
  <2> QED BY <2>1, <2>2, <2>3
<1>6. ASSUME NEW T \in SUBSET D, \A U \in SUBSET T : U # T => U \in Good PROVE T \in Good
  <2> SUFFICES ASSUME Closed(T) PROVE Sum(f, T) = IF need <= Sum(g, T) THEN need ELSE Sum(g, T)
    OBVIOUS
  <2>1. CASE T = {}
    <3>1. Sum(f, {}) = 0 /\ Sum(g, {}) = 0
      BY SumEmpty
    <3> QED
      BY <2>1, <3>1
  <2>2. CASE T # {}
    <3>1. PICK x \in T : \A o \in T \ {x} : Older(o, x) /\ ~Older(x, o)
      BY <2>2, LastOf
    <3> DEFINE U == T \ {x}
    <3>2. Closed(U)
      <4> SUFFICES ASSUME NEW p \in U, NEW o \in D, Older(o, p) PROVE o \in U
        OBVIOUS
      <4>1. o \in T
        OBVIOUS
      <4>2. o # x
        BY <3>1
      <4> QED
        BY <4>1, <4>2
    <3>3. U \in Good
      BY <1>6, <3>1
    <3>4. {p \in D : Older(p, x)} = U
      <4>1. \A p \in U : Older(p, x)
        BY <3>1
      <4>2. \A p \in D : Older(p, x) => p \in T
        BY <3>1
      <4>3. ~Older(x, x)
        <5>1. x \in D
          BY <3>1
        <5>2. Age(x) \in Int /\ (Older(x, x) <=> Age(x) < Age(x))
          BY <5>1, OlderIs
        <5> QED
          BY <5>2
      <4> QED
        BY <4>1, <4>2, <4>3
    <3> DEFINE a == Sum(f, U)
               b == Sum(g, U)
    <3>5. a = IF need <= b THEN need ELSE b
      BY <3>2, <3>3
    <3>6. b \in Nat
      BY <1>3
    <3>7. f[x] = IF need <= b THEN 0 ELSE IF g[x] <= need - b THEN g[x] ELSE need - b
      <4>1. x \in D
        BY <3>1
      <4>2. f[x] = Take(x, need) /\ g[x] = Unused(x)
        BY <1>2, <1>5, <4>1
      <4>3. Take(x, need) = IF need <= b THEN 0 ELSE IF Unused(x) <= need - b THEN Unused(x) ELSE need - b
        BY <1>4, <3>4, <4>1
      <4> HIDE DEF f, g, b
      <4> QED BY <4>2, <4>3
    <3>8. Sum(f, T) = f[x] + a /\ Sum(g, T) = g[x] + b
      <4>1. (\A y \in T : f[y] \in Int) /\ (\A y \in T : g[y] \in Int) /\ IsFiniteSet(T)
        BY <1>1, <1>2, <1>5
      <4> HIDE DEF f, g
      <4> QED BY <3>1, <4>1, SumOut
    <3>9. g[x] \in Nat
      BY <1>2, <3>1
    <3> HIDE DEF a, b, f, g
    <3> QED BY <3>5, <3>6, <3>7, <3>8, <3>9
  <2> QED
    BY <2>1, <2>2
<1>7. D \in Good
  <2> HIDE DEF Good, D
  <2> QED BY <1>1, <1>6, SubsetInduction
<1>8. Sum(f, D) = IF need <= Sum(g, D) THEN need ELSE Sum(g, D)
  BY <1>7
<1>9. Sum(g, D) \in Nat
  BY <1>3
<1> QED
  <2> HIDE DEF f, g
  <2> QED BY <1>5, <1>8, <1>9 DEF f, g

-----------------------------------------------------------------------------
(* The shapes of the state: a row, in the table or in a handler's hands,   *)
(* says no more of its order than the exchange does.                       *)

OrderRows == [group : Groups, qty : Nat, levels : Nat, id : BOOLEAN, done : Nat, used : Nat, open : BOOLEAN]
Uses      == {"account later", "closeLong", "emergency"}
Requests  == [qty : Nat, tp1 : BOOLEAN, levels : Nat]
LegLists  == {<<>>, <<"stop">>, <<"limit", "stop">>}

\* What the exchange x executed of order o.
DoneOf(o, x) == IF o \in DOMAIN x THEN x[o].done ELSE 0

Behind(row, o, x) ==
  /\ row.used <= row.done
  /\ row.done <= DoneOf(o, x)
  /\ ~row.open => o \notin OpenOrders(x)
  /\ row.id => o \in DOMAIN x

\* Rows of some of the orders D that a handler took along.
Held(D, x) == {f \in UNION {[T -> OrderRows] : T \in SUBSET D} : \A o \in DOMAIN f : Behind(f[o], o, x)}

\* Rows that have an exchange id.
Sent(f) == \A o \in DOMAIN f : f[o].id

\* What a handler may still have to do, given the orders that have rows, the exchange
\* and what was bought.
Anytime == {"release", "unmap", "lookup", "buy", "coverage", "booted"}
AfterBuy == {"settled", "update", "finish", "entryStatus", "entryFills", "activate", "opened"}

CallItems(b)      == [op : Anytime \cup (IF b = Qty THEN AfterBuy ELSE {})]
ProtectItems      == [op : {"protect"}, req : Requests]
CancelItems(D)    == [op : {"cancel"}, first : D]
HeldItems(D, x)   == {i \in [op : {"ask", "write"}, held : Held(D, x)] :
                        DOMAIN i.held # {} /\ (i.op = "ask" => Sent(i.held))}
AnswerItems(D, x) == {i \in [op : {"answer"}, order : D, row : OrderRows] : Behind(i.row, i.order, x)}
PlaceItems(D, x)  ==
  {i \in [op : {"place", "constraint", "insert"}, group : Groups, qty : Nat, less : SUBSET D,
          levels : Nat, all : Nat, try : Nat, ticket : Nat, legs : LegLists] :
     i.op = "insert" => i.legs # <<>> /\ \A k \in DOMAIN i.legs : <<i.ticket, i.legs[k]>> \in DOMAIN x}
SellItems         == [op : {"sell"}, qty : Nat, use : Uses]
SoldItems(D, x)   == {i \in [op : {"sold"}, qty : Nat, use : Uses, id : D \cap DOMAIN x] :
                        i.qty = x[i.id].done /\ i.id \notin OpenOrders(x)}
MarkItems(D)      == [op : {"mark"}, use : {"closeLong", "emergency"}, id : D]
SizeItems         == [op : {"emergency", "forced", "close"}, qty : Nat]
ConsumeItems      == [op : {"consume", "short"}, need : Nat, cancelled : BOOLEAN]
ListedItems       == [op : {"listed"}, seen : SUBSET (Nat \X Legs)]

Items(D, x, b) ==
  CallItems(b) \cup ProtectItems \cup CancelItems(D) \cup HeldItems(D, x) \cup AnswerItems(D, x)
    \cup PlaceItems(D, x) \cup SellItems \cup SoldItems(D, x) \cup MarkItems(D) \cup SizeItems
    \cup ConsumeItems \cup ListedItems

Todos == Items(DOMAIN rows, ex, bought)

ExchangeInv ==
  /\ tickets \in Nat /\ bought \in {0, Qty}
  /\ ExchangeOK(ex, tickets)
  /\ Weights(ex) <= Spare + bought

RowsInv ==
  /\ rows \in [DOMAIN rows -> OrderRows]
  /\ DOMAIN rows \subseteq Ids(tickets)
  /\ \A o \in DOMAIN rows : Behind(rows[o], o, ex)
  /\ Tidy(DOMAIN rows \cup DOMAIN ex)

\* A record that has not sold at TP1 holds all of the entry.
Whole(r) == r.live /\ ~r.tp1 => r.rem = Qty
Records  == {r \in RecType : Whole(r)}
DbRows   == {r \in [state : {"none", "open", "closed"}, live : BOOLEAN, rem : 0 .. Qty, tp1 : BOOLEAN, levels : Nat] :
               Whole(r)}
Ups      == {"up", "boot", "down"}

\* What the tables and the map hold was bought.
Paid == mapped \/ db.state # "none" \/ entry \in {"bare", "filled"} => bought = Qty

MemoryInv ==
  /\ entry \in {"none", "new", "bare", "filled"} /\ paused \in BOOLEAN
  /\ rec \in Records /\ db \in DbRows /\ mapped \in BOOLEAN
  /\ up \in Ups /\ signal \in {"new", "unacked", "acked", "lost"}
  /\ Paid

TodoInv == todo \in [Handlers -> Seq(Todos)]

TypeInv == ExchangeInv /\ RowsInv /\ MemoryInv /\ TodoInv

-----------------------------------------------------------------------------
(* What is on a list stays well formed while rows, orders and tickets grow *)

LEMMA ItemIs ==
  ASSUME NEW D, NEW x, NEW b, NEW i \in Items(D, x, b)
  PROVE  /\ i.op \in AfterBuy => b = Qty
         /\ i.op = "protect" => i \in ProtectItems
         /\ i.op = "cancel" => i \in CancelItems(D)
         /\ i.op \in {"ask", "write"} => i \in HeldItems(D, x)
         /\ i.op = "answer" => i \in AnswerItems(D, x)
         /\ i.op \in {"place", "constraint", "insert"} => i \in PlaceItems(D, x)
         /\ i.op = "sell" => i \in SellItems
         /\ i.op = "sold" => i \in SoldItems(D, x)
         /\ i.op = "mark" => i \in MarkItems(D)
         /\ i.op \in {"emergency", "forced", "close"} => i \in SizeItems
         /\ i.op \in {"consume", "short"} => i \in ConsumeItems
         /\ i.op = "listed" => i \in ListedItems
<1>1. /\ i \in CallItems(b) => i.op \in Anytime \cup AfterBuy /\ (i.op \in AfterBuy => b = Qty)
      /\ i \in ProtectItems => i.op = "protect"
      /\ i \in CancelItems(D) => i.op = "cancel"
      /\ i \in HeldItems(D, x) => i.op \in {"ask", "write"}
      /\ i \in AnswerItems(D, x) => i.op = "answer"
      /\ i \in PlaceItems(D, x) => i.op \in {"place", "constraint", "insert"}
      /\ i \in SellItems => i.op = "sell"
      /\ i \in SoldItems(D, x) => i.op = "sold"
      /\ i \in MarkItems(D) => i.op = "mark"
      /\ i \in SizeItems => i.op \in {"emergency", "forced", "close"}
      /\ i \in ConsumeItems => i.op \in {"consume", "short"}
      /\ i \in ListedItems => i.op = "listed"
  <2>1. i \in CallItems(b) => i.op \in Anytime \cup AfterBuy /\ (i.op \in AfterBuy => b = Qty)
    BY DEF CallItems, Anytime, AfterBuy
  <2> QED
    BY <2>1 DEF ProtectItems, CancelItems, HeldItems, AnswerItems, PlaceItems, SellItems,
         SoldItems, MarkItems, SizeItems, ConsumeItems, ListedItems
<1>2. \/ i \in CallItems(b) \/ i \in ProtectItems \/ i \in CancelItems(D) \/ i \in HeldItems(D, x)
      \/ i \in AnswerItems(D, x) \/ i \in PlaceItems(D, x) \/ i \in SellItems \/ i \in SoldItems(D, x)
      \/ i \in MarkItems(D) \/ i \in SizeItems \/ i \in ConsumeItems \/ i \in ListedItems
  BY DEF Items
<1> QED
  BY <1>1, <1>2 DEF Anytime, AfterBuy

\* Which items there are.
LEMMA ItemsAre ==
  ASSUME NEW D, NEW x, NEW b
  PROVE  /\ CallItems(b) \subseteq Items(D, x, b)
         /\ ProtectItems \subseteq Items(D, x, b)
         /\ CancelItems(D) \subseteq Items(D, x, b)
         /\ HeldItems(D, x) \subseteq Items(D, x, b)
         /\ AnswerItems(D, x) \subseteq Items(D, x, b)
         /\ PlaceItems(D, x) \subseteq Items(D, x, b)
         /\ SellItems \subseteq Items(D, x, b)
         /\ SoldItems(D, x) \subseteq Items(D, x, b)
         /\ MarkItems(D) \subseteq Items(D, x, b)
         /\ SizeItems \subseteq Items(D, x, b)
         /\ ConsumeItems \subseteq Items(D, x, b)
         /\ ListedItems \subseteq Items(D, x, b)
BY DEF Items

\* The exchange y is a later one than x, when n tickets were used.
Later(x, y, n) ==
  /\ DOMAIN x \subseteq DOMAIN y
  /\ \A o \in DOMAIN x : x[o].done <= y[o].done /\ (~x[o].open => ~y[o].open /\ y[o].done = x[o].done)
  /\ \A o \in DOMAIN y \ DOMAIN x : o \notin Ids(n)

LEMMA LaterSame == ASSUME NEW n \in Nat, NEW x, ExchangeOK(x, n) PROVE Later(x, x, n)
<1>1. \A o \in DOMAIN x : x[o].done \in Nat
  <2>1. \A o \in DOMAIN x : x[o] \in Orders
    BY DEF ExchangeOK
  <2> QED
    BY <2>1, OrderIs
<1> QED
  BY <1>1 DEF Later

LEMMA BehindGrows ==
  ASSUME NEW n \in Nat, NEW m \in Nat, NEW x, NEW y, ExchangeOK(x, n), ExchangeOK(y, m), Later(x, y, n),
         NEW o \in Ids(n), NEW row \in OrderRows, Behind(row, o, x)
  PROVE  Behind(row, o, y)
<1>1. (\A p \in DOMAIN x : x[p].done \in Nat) /\ (\A p \in DOMAIN y : y[p].done \in Nat)
  <2>1. (\A p \in DOMAIN x : x[p] \in Orders) /\ (\A p \in DOMAIN y : y[p] \in Orders)
    BY DEF ExchangeOK
  <2> QED
    BY <2>1, OrderIs
<1>2. row.done \in Nat
  BY DEF OrderRows
<1>3. DoneOf(o, x) <= DoneOf(o, y) /\ DoneOf(o, x) \in Nat /\ DoneOf(o, y) \in Nat
  <2>1. CASE o \in DOMAIN x
    <3>1. o \in DOMAIN y /\ x[o].done <= y[o].done
      BY <2>1 DEF Later
    <3> QED
      BY <1>1, <2>1, <3>1 DEF DoneOf
  <2>2. CASE o \notin DOMAIN x
    <3>1. DoneOf(o, x) = 0
      BY <2>2 DEF DoneOf
    <3>2. DoneOf(o, y) \in Nat
      BY <1>1 DEF DoneOf
    <3> QED
      BY <3>1, <3>2
  <2> QED
    BY <2>1, <2>2
<1>4. o \notin OpenOrders(x) => o \notin OpenOrders(y)
  BY DEF Later, OpenOrders
<1>5. row.done <= DoneOf(o, y)
  <2>1. row.done <= DoneOf(o, x)
    BY DEF Behind
  <2> QED
    BY <1>2, <1>3, <2>1
<1> QED
  BY <1>4, <1>5 DEF Behind, Later

LEMMA ItemsGrow ==
  ASSUME NEW n \in Nat, NEW m \in Nat, NEW x, NEW y, ExchangeOK(x, n), ExchangeOK(y, m), Later(x, y, n),
         NEW D, NEW E, D \subseteq E, D \subseteq Ids(n), NEW b, NEW c, b = Qty => c = Qty
  PROVE  Items(D, x, b) \subseteq Items(E, y, c)
<1>1. \A o \in D : \A row \in OrderRows : Behind(row, o, x) => Behind(row, o, y)
  BY BehindGrows
<1>2. Held(D, x) \subseteq Held(E, y)
  <2> SUFFICES ASSUME NEW f \in Held(D, x) PROVE f \in Held(E, y)
    OBVIOUS
  <2>1. PICK T \in SUBSET D : f \in [T -> OrderRows]
    BY DEF Held
  <2>2. \A o \in DOMAIN f : Behind(f[o], o, x)
    BY DEF Held
  <2>3. \A o \in DOMAIN f : Behind(f[o], o, y)
    BY <1>1, <2>1, <2>2
  <2>4. T \in SUBSET E
    BY <2>1
  <2> QED
    BY <2>1, <2>3, <2>4 DEF Held
<1>3. HeldItems(D, x) \subseteq HeldItems(E, y)
  BY <1>2 DEF HeldItems
<1>4. AnswerItems(D, x) \subseteq AnswerItems(E, y)
  BY <1>1 DEF AnswerItems
<1>5. PlaceItems(D, x) \subseteq PlaceItems(E, y)
  BY DEF PlaceItems, Later
<1>6. SoldItems(D, x) \subseteq SoldItems(E, y)
  <2> SUFFICES ASSUME NEW i \in SoldItems(D, x) PROVE i \in SoldItems(E, y)
    OBVIOUS
  <2>1. i \in [op : {"sold"}, qty : Nat, use : Uses, id : D \cap DOMAIN x]
        /\ i.qty = x[i.id].done /\ i.id \notin OpenOrders(x)
    BY DEF SoldItems
  <2>2. i \in [op : {"sold"}, qty : Nat, use : Uses, id : E \cap DOMAIN y]
    BY <2>1 DEF Later
  <2>3. i.id \in DOMAIN x
    BY <2>1
  <2>4. i.qty = y[i.id].done /\ i.id \notin OpenOrders(y)
    BY <2>1, <2>3 DEF Later, OpenOrders
  <2> QED
    BY <2>2, <2>4 DEF SoldItems
<1>7. CallItems(b) \subseteq CallItems(c) /\ CancelItems(D) \subseteq CancelItems(E) /\ MarkItems(D) \subseteq MarkItems(E)
  BY DEF CallItems, CancelItems, MarkItems
<1> QED
  BY <1>3, <1>4, <1>5, <1>6, <1>7 DEF Items

LEMMA OneItem ==
  ASSUME NEW T, NEW i \in T
  PROVE  <<i>> \in Seq(T)
OBVIOUS

LEMMA TwoItems ==
  ASSUME NEW T, NEW i \in T, NEW j \in T
  PROVE  <<i, j>> \in Seq(T)
OBVIOUS

LEMMA HeadIs ==
  ASSUME NEW h \in Handlers, TodoInv, Busy(h)
  PROVE  Item(h) \in Todos
<1>1. todo[h] \in Seq(Todos) /\ todo[h] # <<>>
  BY DEF TodoInv, Busy
<1> QED
  BY <1>1, HeadTailProperties DEF Item

LEMMA ThenTypes ==
  ASSUME NEW T, NEW U, T \subseteq U, todo \in [Handlers -> Seq(T)], NEW h \in Handlers, Busy(h),
         NEW list \in Seq(U), Then(h, list)
  PROVE  todo' \in [Handlers -> Seq(U)]
<1>1. \A i \in Handlers : todo[i] \in Seq(U)
  BY SeqMonotonic
<1>2. Tail(todo[h]) \in Seq(U)
  BY <1>1, HeadTailProperties DEF Busy
<1>3. list \o Tail(todo[h]) \in Seq(U)
  BY <1>2, ConcatProperties
<1>4. todo' = [todo EXCEPT ![h] = list \o Tail(todo[h])]
  BY DEF Then
<1> QED
  BY <1>1, <1>3, <1>4

LEMMA BeginTypes ==
  ASSUME NEW T, NEW U, T \subseteq U, todo \in [Handlers -> Seq(T)], NEW h \in Handlers,
         NEW list \in Seq(U), Begin(h, list)
  PROVE  todo' \in [Handlers -> Seq(U)]
<1>1. \A i \in Handlers : todo[i] \in Seq(U)
  BY SeqMonotonic
<1> QED
  BY <1>1 DEF Begin

LEMMA StayTypes ==
  ASSUME NEW T, NEW U, T \subseteq U, todo \in [Handlers -> Seq(T)], todo' = todo
  PROVE  todo' \in [Handlers -> Seq(U)]
<1>1. \A i \in Handlers : todo[i] \in Seq(U)
  BY SeqMonotonic
<1> QED
  BY <1>1

-----------------------------------------------------------------------------
(* The lists that the handlers begin with or go on with                    *)

LEMMA FirstRow ==
  ASSUME RowsInv, tickets \in Nat, NEW T \in SUBSET DOMAIN rows, T # {}
  PROVE  First(T) \in T
<1>1. Tidy(DOMAIN rows) /\ DOMAIN rows \subseteq Ids(tickets)
  BY DEF RowsInv, Tidy
<1> QED
  BY <1>1, FirstOf

LEMMA EachIs ==
  ASSUME NEW held \in Held(DOMAIN rows, ex), NEW op \in {"ask", "write"}, op = "ask" => Sent(held)
  PROVE  Each(op, held) \in Seq(Todos)
<1> DEFINE i == [op |-> op, held |-> held]
<1>1. CASE DOMAIN held = {}
  BY <1>1, EmptySeq DEF Each
<1>2. CASE DOMAIN held # {}
  <2>1. i \in HeldItems(DOMAIN rows, ex)
    BY <1>2 DEF HeldItems
  <2>2. i \in Todos
    BY <2>1, ItemsAre DEF Todos
  <2>3. Each(op, held) = <<i>>
    BY <1>2 DEF Each
  <2> HIDE DEF i
  <2> QED
    BY <2>2, <2>3, OneItem
<1> QED
  BY <1>1, <1>2

LEMMA HeldIs ==
  ASSUME NEW D, NEW x, NEW f \in Held(D, x)
  PROVE  /\ DOMAIN f \subseteq D
         /\ \A o \in DOMAIN f : f[o] \in OrderRows /\ Behind(f[o], o, x)
BY DEF Held

LEMMA OthersIs ==
  ASSUME NEW D, NEW x, NEW f \in Held(D, x)
  PROVE  Others(f) \in Held(D, x) /\ (Sent(f) => Sent(Others(f)))
<1> DEFINE T == DOMAIN f \ {First(DOMAIN f)}
<1>1. T \in SUBSET D
  BY HeldIs
<1>2. Others(f) = [o \in T |-> f[o]]
  BY DEF Others
<1>3. \A o \in T : f[o] \in OrderRows /\ Behind(f[o], o, x)
  BY HeldIs
<1>4. Sent(f) => Sent(Others(f))
  BY <1>2 DEF Sent
<1> HIDE DEF T
<1> QED
  BY <1>1, <1>2, <1>3, <1>4 DEF Held

LEMMA RefreshIs ==
  ASSUME RowsInv, NEW orders \in SUBSET DOMAIN rows
  PROVE  Refresh(orders) \in Seq(Todos)
<1> DEFINE T == {p \in orders : rows[p].open /\ rows[p].id}
           f == [o \in T |-> rows[o]]
<1>1. T \in SUBSET DOMAIN rows
  OBVIOUS
<1>2. \A o \in T : rows[o] \in OrderRows /\ Behind(rows[o], o, ex)
  BY DEF RowsInv
<1>3. Refresh(orders) = Each("ask", f) /\ Sent(f)
  BY DEF Refresh, Sent
<1> HIDE DEF T
<1>4. f \in Held(DOMAIN rows, ex)
  BY <1>1, <1>2 DEF Held
<1> HIDE DEF f
<1> QED
  BY <1>3, <1>4, EachIs

LEMMA CancelGroupIs ==
  ASSUME RowsInv, tickets \in Nat, NEW legs \in SUBSET DOMAIN rows
  PROVE  CancelGroup(legs) \in Seq(Todos)
<1> DEFINE i == [op |-> "cancel", first |-> First(legs)]
<1>1. CASE legs = {}
  BY <1>1, EmptySeq DEF CancelGroup
<1>2. CASE legs # {}
  <2>1. First(legs) \in DOMAIN rows
    BY <1>2, FirstRow
  <2>2. i \in Todos
    <3>1. i \in CancelItems(DOMAIN rows)
      BY <2>1 DEF CancelItems
    <3> QED
      BY <3>1, ItemsAre DEF Todos
  <2>3. Refresh(legs) \in Seq(Todos)
    BY RefreshIs
  <2>4. CancelGroup(legs) = <<i>> \o Refresh(legs)
    BY <1>2 DEF CancelGroup
  <2> HIDE DEF i
  <2> QED
    BY <2>2, <2>3, <2>4, OneItem, ConcatProperties
<1> QED
  BY <1>1, <1>2

LEMMA CancelAllIs ==
  ASSUME RowsInv, tickets \in Nat
  PROVE  CancelAll \in Seq(Todos)
<1>1. \A g : Active(g) \in SUBSET DOMAIN rows
  BY DEF Active
<1>2. \A g : CancelGroup(Active(g)) \in Seq(Todos)
  BY <1>1, CancelGroupIs
<1> DEFINE a == CancelGroup(Active("oco_a"))
           b == CancelGroup(Active("oco_b"))
           c == CancelGroup(Active("stop_only"))
<1>3. a \in Seq(Todos) /\ b \in Seq(Todos) /\ c \in Seq(Todos)
  BY <1>2
<1>4. CancelAll = (a \o b) \o c
  BY DEF CancelAll
<1> HIDE DEF a, b, c
<1>5. a \o b \in Seq(Todos)
  BY <1>3, ConcatProperties
<1> QED
  BY <1>3, <1>4, <1>5, ConcatProperties

LEMMA DesiredIs ==
  ASSUME NEW req \in Requests
  PROVE  Desired(req).oco_a \in Nat /\ Desired(req).oco_b \in Nat
<1>1. req.qty \in Nat /\ Tp1Qty \in Nat
  BY QuantityAssumption DEF Requests
<1> DEFINE a == IF req.tp1 THEN 0 ELSE Min({Tp1Qty, req.qty})
<1>2. a \in Nat /\ a <= req.qty
  BY <1>1, MinIs
<1>3. Desired(req) = [oco_a |-> a, oco_b |-> req.qty - a]
  BY DEF Desired
<1> HIDE DEF a
<1> QED
  BY <1>1, <1>2, <1>3

LEMMA CoverIs ==
  ASSUME RowsInv, tickets \in Nat, NEW group \in {"oco_a", "oco_b"}, NEW req \in Requests
  PROVE  Cover(group, req) \in Seq(Todos) /\ Drop(group, req) \in Seq(Todos)
<1> DEFINE cur == Active(group)
           qty == Desired(req)[group]
           old == IF cur # {} THEN cur ELSE Active("stop_only")
           item == [op |-> "place", group |-> group, qty |-> qty, less |-> old,
                    levels |-> req.levels, all |-> req.qty, try |-> 1, ticket |-> 0, legs |-> <<>>]
<1>1. old \in SUBSET DOMAIN rows /\ cur \in SUBSET DOMAIN rows
  BY DEF Active
<1>2. qty \in Nat
  BY DesiredIs
<1>3. req.levels \in Nat /\ req.qty \in Nat
  BY DEF Requests
<1>4. item \in Todos
  <2>1. item \in PlaceItems(DOMAIN rows, ex)
    <3>1. group \in Groups
      BY DEF Groups
    <3> HIDE DEF qty, old
    <3> QED BY <1>1, <1>2, <1>3, <3>1 DEF PlaceItems, LegLists
  <2> QED
    BY <2>1, ItemsAre DEF Todos
<1>5. Place(group, old, req) = <<item>>
  BY DEF Place
<1>6. <<item>> \in Seq(Todos)
  <2> HIDE DEF item
  <2> QED BY <1>4, OneItem
<1>7. CancelGroup(old) \in Seq(Todos) /\ CancelGroup(cur) \in Seq(Todos) /\ <<>> \in Seq(Todos)
  BY <1>1, CancelGroupIs, EmptySeq
<1>8. CancelGroup(old) \o Place(group, old, req) \in Seq(Todos)
  <2> HIDE DEF item, old
  <2> QED BY <1>5, <1>6, <1>7, ConcatProperties
<1>9. Cover(group, req) = <<>> \/ Cover(group, req) = CancelGroup(old) \o Place(group, old, req)
  BY DEF Cover
<1>10. Drop(group, req) = <<>> \/ Drop(group, req) = CancelGroup(cur)
  BY DEF Drop
<1> QED
  <2> HIDE DEF old, cur
  <2> QED BY <1>7, <1>8, <1>9, <1>10

LEMMA ProtectIs ==
  ASSUME NEW r \in Records
  PROVE  Protect(r) \in Seq(Todos)
<1>1. r.rem \in Nat /\ r.tp1 \in BOOLEAN /\ r.levels \in Nat
  BY QuantityAssumption DEF Records, RecType
<1>2. Request(r) \in Requests
  BY <1>1 DEF Request, Requests
<1> DEFINE i == [op |-> "protect", req |-> Request(r)]
<1>3. i \in Todos
  <2>1. i \in ProtectItems
    BY <1>2 DEF ProtectItems
  <2> QED
    BY <2>1, ItemsAre DEF Todos
<1>4. Protect(r) = <<i>>
  BY DEF Protect
<1> HIDE DEF i
<1> QED
  BY <1>3, <1>4, OneItem

LEMMA CallIs ==
  ASSUME NEW op, op \in Anytime \/ (op \in AfterBuy /\ bought = Qty)
  PROVE  [op |-> op] \in Todos /\ Call(op) \in Seq(Todos)
<1>1. [op |-> op] \in CallItems(bought)
  BY DEF CallItems
<1>2. [op |-> op] \in Todos
  BY <1>1, ItemsAre DEF Todos
<1> QED
  BY <1>2, OneItem DEF Call

LEMMA CloseLongsIs ==
  ASSUME NEW sales \in Seq(Nat)
  PROVE  CloseLongs(sales) \in Seq(Todos)
<1>1. \A i \in DOMAIN sales : sales[i] \in Nat
  OBVIOUS
<1>2. \A i \in DOMAIN sales : [op |-> "close", qty |-> sales[i]] \in Todos
  <2>1. \A i \in DOMAIN sales : [op |-> "close", qty |-> sales[i]] \in SizeItems
    BY <1>1 DEF SizeItems
  <2> QED
    BY <2>1, ItemsAre DEF Todos
<1>3. DOMAIN sales = 1 .. Len(sales) /\ Len(sales) \in Nat
  BY LenProperties
<1>4. CloseLongs(sales) \in [1 .. Len(sales) -> Todos]
  BY <1>2, <1>3 DEF CloseLongs
<1> HIDE DEF Todos
<1> QED
  BY <1>3, <1>4, SeqDef

LEMMA RowUsed ==
  ASSUME NEW row \in OrderRows, NEW u \in Nat, NEW o, NEW x, Behind(row, o, x), u <= row.done
  PROVE  [row EXCEPT !.used = u] \in OrderRows /\ Behind([row EXCEPT !.used = u], o, x)
<1>1. PICK g \in Groups, q \in Nat, l \in Nat, id \in BOOLEAN, d \in Nat, v \in Nat, b \in BOOLEAN :
        row = [group |-> g, qty |-> q, levels |-> l, id |-> id, done |-> d, used |-> v, open |-> b]
  BY DEF OrderRows
<1>2. PICK w : w = [row EXCEPT !.used = u]
  OBVIOUS
<1>3. w = [group |-> g, qty |-> q, levels |-> l, id |-> id, done |-> d, used |-> u, open |-> b]
  BY <1>1, <1>2
<1>4. w \in OrderRows
  BY <1>3 DEF OrderRows
<1>5. Behind(w, o, x)
  BY <1>1, <1>3 DEF Behind
<1> QED
  BY <1>2, <1>4, <1>5

LEMMA UsingIs ==
  ASSUME RowsInv, NEW f, DOMAIN f \subseteq DOMAIN rows, \A o \in DOMAIN f : f[o] \in Nat /\ f[o] <= rows[o].done
  PROVE  Using(f) \in Seq(Todos)
<1> DEFINE T == DOMAIN f
           held == [o \in T |-> [rows[o] EXCEPT !.used = f[o]]]
<1>1. \A o \in T : rows[o] \in OrderRows /\ Behind(rows[o], o, ex)
  BY DEF RowsInv
<1>2. \A o \in T : [rows[o] EXCEPT !.used = f[o]] \in OrderRows /\ Behind([rows[o] EXCEPT !.used = f[o]], o, ex)
  BY <1>1, RowUsed
<1>3. T \in SUBSET DOMAIN rows
  OBVIOUS
<1>4. Using(f) = Each("write", held)
  BY DEF Using
<1> HIDE DEF T
<1>5. held \in Held(DOMAIN rows, ex)
  BY <1>2, <1>3 DEF Held
<1> HIDE DEF held
<1> QED
  BY <1>4, <1>5, EachIs

-----------------------------------------------------------------------------
(* What a step does to the lists, the rows and the memory                  *)

books == <<ex, bought, tickets, rows>>
notes == <<entry, db, paused, rec, mapped, signal>>

\* The exchange goes on, rows are added, the entry is bought.
LEMMA TodosGrow ==
  ASSUME TypeInv, ExchangeInv', DOMAIN rows \subseteq DOMAIN rows', Later(ex, ex', tickets),
         bought = Qty => bought' = Qty
  PROVE  Todos \subseteq Todos'
<1>1. PICK y : y = ex'
  OBVIOUS
<1>2. PICK m \in Nat : m = tickets'
  BY DEF ExchangeInv
<1>3. PICK E : E = DOMAIN rows'
  OBVIOUS
<1>4. PICK c : c = bought'
  OBVIOUS
<1>5. ExchangeOK(ex, tickets) /\ ExchangeOK(y, m) /\ tickets \in Nat /\ DOMAIN rows \subseteq Ids(tickets)
  BY <1>1, <1>2 DEF TypeInv, ExchangeInv, RowsInv
<1>6. Later(ex, y, tickets) /\ DOMAIN rows \subseteq E /\ (bought = Qty => c = Qty)
  BY <1>1, <1>3, <1>4
<1>7. Items(DOMAIN rows, ex, bought) \subseteq Items(E, y, c)
  BY <1>2, <1>5, <1>6, ItemsGrow
<1>8. Todos' = Items(E, y, c)
  BY <1>1, <1>3, <1>4 DEF Todos
<1> QED
  BY <1>7, <1>8 DEF Todos

LEMMA SameBooks ==
  ASSUME ExchangeInv, RowsInv, UNCHANGED books
  PROVE  ExchangeInv' /\ RowsInv' /\ Todos' = Todos
<1>1. ex' = ex /\ bought' = bought /\ tickets' = tickets /\ rows' = rows
  BY DEF books
<1> QED
  BY <1>1 DEF ExchangeInv, RowsInv, Todos

\* The head of a list gives way to other items.
LEMMA GrowList ==
  ASSUME TypeInv, Todos \subseteq Todos', NEW h \in Handlers, Busy(h), NEW list \in Seq(Todos'), Then(h, list)
  PROVE  TodoInv'
<1>1. todo \in [Handlers -> Seq(Todos)]
  BY DEF TypeInv, TodoInv
<1>2. PICK T : T = Todos'
  OBVIOUS
<1>3. Todos \subseteq T /\ list \in Seq(T)
  BY <1>2
<1>4. todo' \in [Handlers -> Seq(T)]
  <2> HIDE DEF Todos
  <2> QED BY <1>1, <1>3, ThenTypes
<1> QED
  BY <1>2, <1>4 DEF TodoInv

\* A handler begins, or an exception ends it.
LEMMA GrowBegin ==
  ASSUME TypeInv, Todos \subseteq Todos', NEW h \in Handlers, NEW list \in Seq(Todos'), Begin(h, list)
  PROVE  TodoInv'
<1>1. todo \in [Handlers -> Seq(Todos)]
  BY DEF TypeInv, TodoInv
<1>2. PICK T : T = Todos'
  OBVIOUS
<1>3. Todos \subseteq T /\ list \in Seq(T)
  BY <1>2
<1>4. todo' \in [Handlers -> Seq(T)]
  <2> HIDE DEF Todos
  <2> QED BY <1>1, <1>3, BeginTypes
<1> QED
  BY <1>2, <1>4 DEF TodoInv

LEMMA GrowStay ==
  ASSUME TypeInv, Todos \subseteq Todos', todo' = todo
  PROVE  TodoInv'
<1>1. todo \in [Handlers -> Seq(Todos)]
  BY DEF TypeInv, TodoInv
<1>2. PICK T : T = Todos'
  OBVIOUS
<1>3. todo' \in [Handlers -> Seq(T)]
  <2> HIDE DEF Todos
  <2> QED BY <1>1, <1>2, StayTypes
<1> QED
  BY <1>2, <1>3 DEF TodoInv

LEMMA SameNotes ==
  ASSUME MemoryInv, UNCHANGED <<notes, bought>>, up' \in Ups
  PROVE  MemoryInv'
<1>1. entry' = entry /\ db' = db /\ paused' = paused /\ rec' = rec /\ mapped' = mapped /\ signal' = signal
      /\ bought' = bought
  BY DEF notes
<1> QED
  BY <1>1 DEF MemoryInv, Paid

LEMMA ThrowIs ==
  ASSUME MemoryInv, NEW h, Throw(h)
  PROVE  Begin(h, <<>>) /\ up' \in Ups
BY DEF Throw, MemoryInv, Ups

\* Steps that leave the exchange and the rows alone.
LEMMA ListStep ==
  ASSUME TypeInv, UNCHANGED books, NEW h \in Handlers, Busy(h), NEW list \in Seq(Todos), Then(h, list)
  PROVE  ExchangeInv' /\ RowsInv' /\ TodoInv'
<1>1. ExchangeInv' /\ RowsInv' /\ Todos' = Todos
  BY SameBooks DEF TypeInv
<1> QED
  BY <1>1, GrowList

LEMMA BeginStep ==
  ASSUME TypeInv, UNCHANGED books, NEW h \in Handlers, NEW list \in Seq(Todos), Begin(h, list)
  PROVE  ExchangeInv' /\ RowsInv' /\ TodoInv'
<1>1. ExchangeInv' /\ RowsInv' /\ Todos' = Todos
  BY SameBooks DEF TypeInv
<1> QED
  BY <1>1, GrowBegin

LEMMA StayStep ==
  ASSUME TypeInv, UNCHANGED books, todo' = todo
  PROVE  ExchangeInv' /\ RowsInv' /\ TodoInv'
<1>1. ExchangeInv' /\ RowsInv' /\ Todos' = Todos
  BY SameBooks DEF TypeInv
<1> QED
  BY <1>1, GrowStay

\* Steps that only go on with their list, or end it.
LEMMA OnlyList ==
  ASSUME TypeInv, UNCHANGED <<books, notes, up>>, NEW h \in Handlers, Busy(h), NEW list \in Seq(Todos), Then(h, list)
  PROVE  TypeInv'
<1>1. UNCHANGED books /\ UNCHANGED <<notes, bought>> /\ up' = up
  BY DEF books
<1>2. up' \in Ups
  BY <1>1 DEF TypeInv, MemoryInv
<1>3. MemoryInv'
  BY <1>1, <1>2, SameNotes DEF TypeInv
<1> QED
  BY <1>1, <1>3, ListStep DEF TypeInv

LEMMA OnlyBegin ==
  ASSUME TypeInv, UNCHANGED <<books, notes>>, up' \in Ups, NEW h \in Handlers, NEW list \in Seq(Todos), Begin(h, list)
  PROVE  TypeInv'
<1>1. UNCHANGED books /\ UNCHANGED <<notes, bought>>
  BY DEF books
<1>3. MemoryInv'
  BY <1>1, SameNotes DEF TypeInv
<1> QED
  BY <1>1, <1>3, BeginStep DEF TypeInv

LEMMA OnlyThrow ==
  ASSUME TypeInv, UNCHANGED <<books, notes>>, NEW h \in Handlers, Throw(h)
  PROVE  TypeInv'
<1>1. Begin(h, <<>>) /\ up' \in Ups
  BY ThrowIs DEF TypeInv
<1>2. <<>> \in Seq(Todos)
  BY EmptySeq
<1> QED
  BY <1>1, <1>2, OnlyBegin

\* Steps that change the row of an order.
LEMMA RowWritten ==
  ASSUME TypeInv, UNCHANGED <<ex, bought, tickets>>, NEW o \in DOMAIN rows, NEW row \in OrderRows,
         Behind(row, o, ex), rows' = [rows EXCEPT ![o] = row]
  PROVE  ExchangeInv' /\ RowsInv' /\ Todos \subseteq Todos'
<1>1. RowsInv /\ ExchangeInv
  BY DEF TypeInv
<1>2. DOMAIN rows' = DOMAIN rows
  OBVIOUS
<1>3. rows' \in [DOMAIN rows -> OrderRows]
  BY <1>1 DEF RowsInv
<1>4. \A p \in DOMAIN rows : Behind(rows'[p], p, ex)
  BY <1>1 DEF RowsInv
<1>5. RowsInv'
  BY <1>1, <1>2, <1>3, <1>4 DEF RowsInv
<1>6. ExchangeInv'
  BY <1>1 DEF ExchangeInv
<1>7. Todos' = Todos
  BY <1>2 DEF Todos
<1> QED
  BY <1>5, <1>6, <1>7

\* Steps of the exchange that no row hears of.
LEMMA ExchangeOnly ==
  ASSUME TypeInv, ExchangeInv', rows' = rows, Later(ex, ex', tickets), tickets <= tickets',
         Tidy(DOMAIN rows \cup DOMAIN ex')
  PROVE  RowsInv'
<1>1. RowsInv /\ ExchangeInv
  BY DEF TypeInv
<1>2. PICK y : y = ex'
  OBVIOUS
<1>3. PICK m \in Nat : m = tickets'
  BY DEF ExchangeInv
<1>4. tickets \in Nat /\ tickets <= m /\ ExchangeOK(ex, tickets) /\ ExchangeOK(y, m) /\ Later(ex, y, tickets)
  BY <1>1, <1>2, <1>3 DEF ExchangeInv
<1>5. \A o \in DOMAIN rows : Behind(rows[o], o, y)
  <2>1. \A o \in DOMAIN rows : rows[o] \in OrderRows /\ Behind(rows[o], o, ex) /\ o \in Ids(tickets)
    BY <1>1 DEF RowsInv
  <2> QED
    BY <1>3, <1>4, <2>1, BehindGrows
<1>6. DOMAIN rows \subseteq Ids(m)
  BY <1>1, <1>3, <1>4 DEF RowsInv, Ids
<1> QED
  BY <1>1, <1>2, <1>3, <1>5, <1>6 DEF RowsInv

LEMMA RecordIs ==
  ASSUME NEW r \in Records
  PROVE  /\ r.rem \in Nat /\ r.rem <= Qty /\ r.live \in BOOLEAN /\ r.tp1 \in BOOLEAN /\ r.levels \in Nat
         /\ Row(r) \in DbRows
<1>1. r.rem \in 0 .. Qty /\ r.live \in BOOLEAN /\ r.tp1 \in BOOLEAN /\ r.levels \in Nat /\ Whole(r)
  BY DEF Records, RecType
<1>2. Row(r) = [state |-> IF r.live THEN "open" ELSE "closed",
                live |-> r.live, rem |-> r.rem, tp1 |-> r.tp1, levels |-> r.levels]
  BY DEF Row
<1>3. Row(r) \in DbRows
  BY <1>1, <1>2 DEF DbRows, Whole
<1> QED
  BY <1>1, <1>3, QuantityAssumption

LEMMA FirstRecords ==
  NoRec \in Records /\ FullRec \in Records /\ NoRow \in DbRows
<1>1. Qty \in Nat /\ Qty # 0
  BY QuantityAssumption
<1>2. NoRec \in Records /\ FullRec \in Records
  BY <1>1 DEF NoRec, FullRec, Records, RecType, Whole
<1>3. Row(NoRec) = [state |-> "closed", live |-> FALSE, rem |-> 0, tp1 |-> FALSE, levels |-> 0]
  BY DEF Row, NoRec
<1>4. NoRow = [state |-> "none", live |-> FALSE, rem |-> 0, tp1 |-> FALSE, levels |-> 0]
  <2>1. PICK r : r = Row(NoRec)
    OBVIOUS
  <2>2. r = [state |-> "closed", live |-> FALSE, rem |-> 0, tp1 |-> FALSE, levels |-> 0]
    BY <1>3, <2>1
  <2>3. PICK w : w = [r EXCEPT !.state = "none"]
    OBVIOUS
  <2>4. w = [state |-> "none", live |-> FALSE, rem |-> 0, tp1 |-> FALSE, levels |-> 0]
    BY <2>2, <2>3
  <2> QED
    BY <2>1, <2>3, <2>4 DEF NoRow
<1>5. NoRow \in DbRows
  BY <1>1, <1>4 DEF DbRows, Whole
<1> QED
  BY <1>2, <1>5

-----------------------------------------------------------------------------
(* The steps of the manager, the entry and the reconciler                  *)

LEMMA RecordMade ==
  ASSUME NEW live \in BOOLEAN, NEW rem \in 0 .. Qty, NEW tp1 \in BOOLEAN, NEW levels \in Nat,
         live /\ ~tp1 => rem = Qty,
         NEW r, r = [live |-> live, rem |-> rem, tp1 |-> tp1, levels |-> levels]
  PROVE  r \in Records
<1>1. r \in RecType
  BY DEF RecType
<1>2. Whole(r)
  BY DEF Whole
<1> QED
  BY <1>1, <1>2 DEF Records

LEMMA CandleTypes == ASSUME TypeInv, Candle PROVE TypeInv'
<1>1. PICK d \in Decisions(rec, traded) : rec' = d[1] /\ Begin("manager", CloseLongs(d[2]) \o Call("settled"))
  BY DEF Candle
<1>2. UNCHANGED books /\ UNCHANGED <<entry, db, paused, mapped, up, signal>> /\ mapped /\ bought = Qty
  BY DEF Candle, books, exchange, tables, TypeInv, MemoryInv, Paid
<1>3. rec \in Records
  BY DEF TypeInv, MemoryInv
<1>4. rec.rem \in Nat /\ rec.rem <= Qty /\ rec.live \in BOOLEAN /\ rec.tp1 \in BOOLEAN /\ rec.levels \in Nat
  BY <1>3, RecordIs
<1>5. Qty \in Nat /\ Tp1Qty \in Nat /\ Tp1Qty < Qty
  BY QuantityAssumption
<1>6. PICK live \in BOOLEAN, rem \in 0 .. Qty, tp1 \in BOOLEAN, levels \in Nat :
             rec = [live |-> live, rem |-> rem, tp1 |-> tp1, levels |-> levels]
  BY <1>3 DEF Records, RecType
<1> DEFINE closed == [rec EXCEPT !.live = FALSE, !.rem = 0]
           moved  == [rec EXCEPT !.levels = @ + 1]
           sold   == [moved EXCEPT !.tp1 = TRUE, !.rem = @ - Tp1Qty]
<1>7. closed \in Records
  <2>1. PICK w : w = closed
    OBVIOUS
  <2>2. w = [live |-> FALSE, rem |-> 0, tp1 |-> tp1, levels |-> levels]
    BY <1>6, <2>1
  <2>3. 0 \in 0 .. Qty
    BY <1>5
  <2>4. w \in Records
    BY <2>2, <2>3, RecordMade
  <2> QED
    BY <2>1, <2>4
<1>8. moved \in Records
  <2>1. PICK w : w = moved
    OBVIOUS
  <2>2. w = [live |-> live, rem |-> rem, tp1 |-> tp1, levels |-> levels + 1]
    BY <1>6, <2>1
  <2>3. live /\ ~tp1 => rem = Qty
    BY <1>3, <1>6 DEF Records, Whole
  <2>4. levels + 1 \in Nat
    OBVIOUS
  <2>5. w \in Records
    BY <2>2, <2>3, <2>4, RecordMade
  <2> QED
    BY <2>1, <2>5
<1>9. ASSUME rec.live, ~rec.tp1 PROVE rec.rem = Qty /\ sold \in Records /\ rec.rem - Tp1Qty \in Nat
  <2>1. rec.rem = Qty
    BY <1>3, <1>9 DEF Records, Whole
  <2>2. PICK w : w = moved
    OBVIOUS
  <2>3. w = [live |-> live, rem |-> rem, tp1 |-> tp1, levels |-> levels + 1]
    BY <1>6, <2>2
  <2>4. PICK v : v = [w EXCEPT !.tp1 = TRUE, !.rem = @ - Tp1Qty]
    OBVIOUS
  <2>5. v = [live |-> live, rem |-> rem - Tp1Qty, tp1 |-> TRUE, levels |-> levels + 1]
    BY <2>3, <2>4
  <2>6. rem = Qty /\ rem - Tp1Qty \in 0 .. Qty
    BY <1>5, <1>6, <2>1
  <2>7. v \in Records
    <3>1. levels + 1 \in Nat
      OBVIOUS
    <3> QED
      BY <2>5, <2>6, <3>1, RecordMade
  <2> QED
    BY <1>6, <2>1, <2>2, <2>4, <2>6, <2>7
<1>10. \/ d = <<rec, <<>> >> \/ d = <<moved, <<>> >>
       \/ d = <<closed, <<rec.rem>> >>
       \/ rec.live /\ ~rec.tp1 /\ (\/ d = <<closed, <<Tp1Qty, rec.rem - Tp1Qty>> >>
                                   \/ d = <<sold, <<Tp1Qty>> >>)
  <2> HIDE DEF closed, moved, sold
  <2> QED BY DEF Decisions, closed, moved, sold
<1> HIDE DEF closed, moved, sold
<1>11. d[1] \in Records /\ d[2] \in Seq(Nat)
  <2>1. CASE d = <<rec, <<>> >> \/ d = <<moved, <<>> >>
    <3>1. d[2] = <<>>
      BY <2>1
    <3>2. d[1] = rec \/ d[1] = moved
      BY <2>1
    <3> QED
      BY <1>3, <1>8, <3>1, <3>2, EmptySeq
  <2>2. CASE d = <<closed, <<rec.rem>> >>
    <3>1. <<rec.rem>> \in Seq(Nat)
      BY <1>4, OneItem
    <3> QED
      BY <1>7, <2>2, <3>1
  <2>3. CASE rec.live /\ ~rec.tp1 /\ d = <<closed, <<Tp1Qty, rec.rem - Tp1Qty>> >>
    <3>1. <<Tp1Qty, rec.rem - Tp1Qty>> \in Seq(Nat)
      BY <1>5, <1>9, <2>3, TwoItems
    <3> QED
      BY <1>7, <2>3, <3>1
  <2>4. CASE rec.live /\ ~rec.tp1 /\ d = <<sold, <<Tp1Qty>> >>
    <3>1. <<Tp1Qty>> \in Seq(Nat)
      BY <1>5, OneItem
    <3> QED
      BY <1>9, <2>4, <3>1
  <2> QED
    BY <1>10, <2>1, <2>2, <2>3, <2>4
<1>12. CloseLongs(d[2]) \o Call("settled") \in Seq(Todos)
  <2>1. CloseLongs(d[2]) \in Seq(Todos) /\ Call("settled") \in Seq(Todos)
    BY <1>2, <1>11, CloseLongsIs, CallIs DEF AfterBuy
  <2> QED
    BY <2>1, ConcatProperties
<1>13. ExchangeInv' /\ RowsInv' /\ TodoInv'
  <2>1. "manager" \in Handlers
    BY DEF Handlers
  <2> HIDE DEF Todos
  <2> QED BY <1>1, <1>2, <1>12, <2>1, BeginStep
<1>14. MemoryInv'
  BY <1>1, <1>2, <1>11 DEF TypeInv, MemoryInv, Paid, books
<1> QED
  BY <1>13, <1>14 DEF TypeInv

\* The item a handler has come to.
LEMMA HeadOf ==
  ASSUME TypeInv, NEW h \in Handlers, NEW op, At(h, op)
  PROVE  Busy(h) /\ Item(h).op = op /\ Item(h) \in Todos /\ Item(h) \in Items(DOMAIN rows, ex, bought)
<1>1. TodoInv /\ Busy(h) /\ Item(h).op = op
  BY DEF TypeInv, At
<1>2. Item(h) \in Todos
  BY <1>1, HeadIs
<1> QED
  BY <1>1, <1>2 DEF Todos

LEMMA AfterBuyIs ==
  ASSUME TypeInv, NEW h \in Handlers, NEW op \in AfterBuy, At(h, op)
  PROVE  bought = Qty
<1>1. Item(h) \in Items(DOMAIN rows, ex, bought) /\ Item(h).op = op
  BY HeadOf
<1> QED
  BY <1>1, ItemIs

LEMMA SettledTypes == ASSUME TypeInv, NEW h \in Handlers, Settled(h) PROVE TypeInv'
<1>1. UNCHANGED <<books, notes, up>> /\ Busy(h)
  BY DEF Settled, At, books, notes, exchange, tables, memory
<1>2. bought = Qty
  BY AfterBuyIs DEF Settled, AfterBuy
<1>3. PICK op \in {"update", "finish"} : Then(h, Call(op))
  BY DEF Settled
<1>4. Call(op) \in Seq(Todos)
  BY <1>2, CallIs DEF AfterBuy
<1> QED
  BY <1>1, <1>3, <1>4, OnlyList

LEMMA UpdateTypes == ASSUME TypeInv, NEW h \in Handlers, Update(h) PROVE TypeInv'
<1>1. UNCHANGED books /\ UNCHANGED <<entry, paused, rec, mapped, signal, up>> /\ Busy(h)
      /\ db' = Row(rec) /\ Then(h, Protect(rec))
  BY DEF Update, At, books, exchange, memory
<1>2. bought = Qty /\ bought' = Qty
  BY <1>1, AfterBuyIs DEF Update, AfterBuy, books
<1>3. rec \in Records
  BY DEF TypeInv, MemoryInv
<1>4. MemoryInv'
  BY <1>1, <1>2, <1>3, RecordIs DEF TypeInv, MemoryInv, Paid
<1>5. Protect(rec) \in Seq(Todos)
  BY <1>3, ProtectIs
<1> QED
  BY <1>1, <1>4, <1>5, ListStep DEF TypeInv

LEMMA FinishTypes == ASSUME TypeInv, NEW h \in Handlers, Finish(h) PROVE TypeInv'
<1>1. UNCHANGED books /\ UNCHANGED <<entry, paused, rec, mapped, signal, up>> /\ Busy(h)
      /\ db' = Row(rec) /\ Then(h, Call("release"))
  BY DEF Finish, At, books, exchange, memory
<1>2. bought = Qty /\ bought' = Qty
  BY <1>1, AfterBuyIs DEF Finish, AfterBuy, books
<1>3. rec \in Records
  BY DEF TypeInv, MemoryInv
<1>4. MemoryInv'
  BY <1>1, <1>2, <1>3, RecordIs DEF TypeInv, MemoryInv, Paid
<1>5. Call("release") \in Seq(Todos)
  BY CallIs DEF Anytime
<1> QED
  BY <1>1, <1>4, <1>5, ListStep DEF TypeInv

LEMMA ReleaseTypes == ASSUME TypeInv, NEW h \in Handlers, Release(h) PROVE TypeInv'
<1>1. UNCHANGED <<books, notes, up>> /\ Busy(h) /\ Then(h, CancelAll \o Call("unmap"))
  BY DEF Release, At, books, notes, exchange, tables, memory
<1>2. RowsInv /\ tickets \in Nat
  BY DEF TypeInv, ExchangeInv
<1>3. CancelAll \in Seq(Todos) /\ Call("unmap") \in Seq(Todos)
  BY <1>2, CancelAllIs, CallIs DEF Anytime
<1>4. CancelAll \o Call("unmap") \in Seq(Todos)
  BY <1>3, ConcatProperties
<1> QED
  BY <1>1, <1>4, OnlyList

LEMMA UnmapTypes == ASSUME TypeInv, NEW h \in Handlers, Unmap(h) PROVE TypeInv'
<1>1. UNCHANGED books /\ UNCHANGED <<entry, db, paused, rec, signal, up>> /\ Busy(h)
      /\ mapped' = FALSE /\ Then(h, <<>>)
  BY DEF Unmap, At, books, exchange, tables
<1>2. MemoryInv'
  BY <1>1 DEF TypeInv, MemoryInv, Paid, books
<1>3. <<>> \in Seq(Todos)
  BY EmptySeq
<1> QED
  BY <1>1, <1>2, <1>3, ListStep DEF TypeInv

LEMMA CloseReadTypes == ASSUME TypeInv, NEW h \in Handlers, CloseRead(h) PROVE TypeInv'
<1> DEFINE i == [op |-> "consume", need |-> Item(h).qty, cancelled |-> FALSE]
<1>1. UNCHANGED <<books, notes, up>> /\ At(h, "close") /\ Then(h, Refresh(DOMAIN rows) \o <<i>>)
  BY DEF CloseRead, books, notes, exchange, tables, memory
<1>2. Busy(h) /\ Item(h).op = "close" /\ Item(h) \in Items(DOMAIN rows, ex, bought)
  BY <1>1, HeadOf
<1>3. Item(h) \in SizeItems
  BY <1>2, ItemIs
<1>4. i \in Todos
  <2>1. i \in ConsumeItems
    BY <1>3 DEF SizeItems, ConsumeItems
  <2> QED
    BY <2>1, ItemsAre DEF Todos
<1>5. Refresh(DOMAIN rows) \in Seq(Todos)
  BY RefreshIs DEF TypeInv
<1> HIDE DEF i
<1>6. Refresh(DOMAIN rows) \o <<i>> \in Seq(Todos)
  BY <1>4, <1>5, OneItem, ConcatProperties
<1> QED
  BY <1>1, <1>2, <1>6, OnlyList

LEMMA ShortTypes == ASSUME TypeInv, NEW h \in Handlers, Short(h) PROVE TypeInv'
<1> DEFINE i == [op |-> "sell", qty |-> Item(h).need, use |-> "closeLong"]
           j == [op |-> "consume", need |-> Item(h).need, cancelled |-> TRUE]
<1>1. UNCHANGED <<books, notes, up>> /\ At(h, "short") /\ (Then(h, <<i>>) \/ Then(h, CancelAll \o <<j>>))
  BY DEF Short, books, notes, exchange, tables, memory
<1>2. Busy(h) /\ Item(h).op = "short" /\ Item(h) \in Items(DOMAIN rows, ex, bought)
  BY <1>1, HeadOf
<1>3. Item(h) \in ConsumeItems
  BY <1>2, ItemIs
<1>4. i \in Todos /\ j \in Todos
  <2>1. i \in SellItems /\ j \in ConsumeItems
    BY <1>3 DEF SellItems, ConsumeItems, Uses
  <2> QED
    BY <2>1, ItemsAre DEF Todos
<1>5. CancelAll \in Seq(Todos)
  BY CancelAllIs DEF TypeInv, ExchangeInv
<1> HIDE DEF i, j
<1>6. CancelAll \o <<j>> \in Seq(Todos) /\ <<i>> \in Seq(Todos)
  BY <1>4, <1>5, OneItem, ConcatProperties
<1> QED
  BY <1>1, <1>2, <1>6, OnlyList

LEMMA TakeSignalTypes == ASSUME TypeInv, TakeSignal PROVE TypeInv'
<1>1. UNCHANGED books /\ UNCHANGED <<entry, db, paused, rec, mapped, up>>
      /\ (\/ Begin("manager", Call("lookup")) /\ signal' = "unacked"
          \/ signal' = "acked" /\ UNCHANGED todo)
  BY DEF TakeSignal, books, exchange, tables, memory
<1>2. MemoryInv'
  BY <1>1 DEF TypeInv, MemoryInv, Paid, books
<1>3. Call("lookup") \in Seq(Todos) /\ "manager" \in Handlers
  BY CallIs DEF Anytime, Handlers
<1> QED
  BY <1>1, <1>2, <1>3, BeginStep, StayStep DEF TypeInv

LEMMA LookupTypes == ASSUME TypeInv, NEW h \in Handlers, Lookup(h) PROVE TypeInv'
<1>1. UNCHANGED books /\ UNCHANGED <<db, paused, rec, mapped, signal>> /\ Busy(h)
  BY DEF Lookup, At, books, exchange
<1>2. CASE entry = "filled" /\ Then(h, Call("activate")) /\ UNCHANGED <<entry, up>>
  <2>1. bought = Qty
    BY <1>2 DEF TypeInv, MemoryInv, Paid
  <2>2. Call("activate") \in Seq(Todos)
    BY <2>1, CallIs DEF AfterBuy
  <2>3. UNCHANGED <<books, notes, up>>
    BY <1>1, <1>2 DEF notes
  <2> QED
    BY <1>1, <1>2, <2>2, <2>3, OnlyList
<1>3. CASE entry = "bare" /\ Throw(h) /\ UNCHANGED entry
  <2>3. UNCHANGED <<books, notes>>
    BY <1>1, <1>3 DEF notes
  <2> QED
    BY <1>3, <2>3, OnlyThrow
<1>4. CASE entry \in {"none", "new"} /\ entry' = "new" /\ Then(h, Call("buy")) /\ UNCHANGED up
  <2>1. MemoryInv'
    BY <1>1, <1>4 DEF TypeInv, MemoryInv, Paid, books
  <2>2. Call("buy") \in Seq(Todos)
    BY CallIs DEF Anytime
  <2> QED
    BY <1>1, <1>4, <2>1, <2>2, ListStep DEF TypeInv
<1> QED
  BY <1>2, <1>3, <1>4 DEF Lookup

LEMMA EntryStatusTypes == ASSUME TypeInv, NEW h \in Handlers, EntryStatus(h) PROVE TypeInv'
<1>1. UNCHANGED books /\ UNCHANGED <<db, paused, rec, mapped, signal, up>> /\ Busy(h)
      /\ entry' \in {"filled", "bare"} /\ Then(h, <<>>)
  BY DEF EntryStatus, At, books, exchange, memory
<1>2. bought = Qty /\ bought' = Qty
  BY <1>1, AfterBuyIs DEF EntryStatus, AfterBuy, books
<1>3. MemoryInv'
  BY <1>1, <1>2 DEF TypeInv, MemoryInv, Paid
<1>4. <<>> \in Seq(Todos)
  BY EmptySeq
<1> QED
  BY <1>1, <1>3, <1>4, ListStep DEF TypeInv

LEMMA EntryFillsTypes == ASSUME TypeInv, NEW h \in Handlers, EntryFills(h) PROVE TypeInv'
<1>1. UNCHANGED books /\ UNCHANGED <<db, paused, rec, mapped, signal, up>> /\ Busy(h)
      /\ entry' = "filled" /\ Then(h, <<>>)
  BY DEF EntryFills, At, books, exchange, memory
<1>2. bought = Qty /\ bought' = Qty
  BY <1>1, AfterBuyIs DEF EntryFills, AfterBuy, books
<1>3. MemoryInv'
  BY <1>1, <1>2 DEF TypeInv, MemoryInv, Paid
<1>4. <<>> \in Seq(Todos)
  BY EmptySeq
<1> QED
  BY <1>1, <1>3, <1>4, ListStep DEF TypeInv

LEMMA RecordingIs == ASSUME bought = Qty PROVE Recording \in Seq(Todos)
<1>1. Call("entryStatus") \in Seq(Todos) /\ Call("entryFills") \in Seq(Todos)
  BY CallIs DEF AfterBuy
<1> QED
  BY <1>1, ConcatProperties DEF Recording

LEMMA ActivateTypes == ASSUME TypeInv, NEW h \in Handlers, Activate(h) PROVE TypeInv'
<1>1. UNCHANGED books /\ UNCHANGED <<entry, paused, mapped, signal, up>> /\ Busy(h)
      /\ rec' = FullRec /\ db' = Row(FullRec) /\ Then(h, Protect(FullRec) \o Call("opened"))
  BY DEF Activate, At, books, exchange
<1>2. bought = Qty /\ bought' = Qty
  BY <1>1, AfterBuyIs DEF Activate, AfterBuy, books
<1>3. FullRec \in Records
  BY FirstRecords
<1>4. MemoryInv'
  BY <1>1, <1>2, <1>3, RecordIs DEF TypeInv, MemoryInv, Paid
<1>5. Protect(FullRec) \in Seq(Todos) /\ Call("opened") \in Seq(Todos)
  BY <1>2, <1>3, ProtectIs, CallIs DEF AfterBuy
<1>6. Protect(FullRec) \o Call("opened") \in Seq(Todos)
  BY <1>5, ConcatProperties
<1> QED
  BY <1>1, <1>4, <1>6, ListStep DEF TypeInv

LEMMA OpenedTypes == ASSUME TypeInv, NEW h \in Handlers, Opened(h) PROVE TypeInv'
<1>1. UNCHANGED books /\ UNCHANGED <<entry, db, paused, rec, up>> /\ Busy(h)
      /\ mapped' = TRUE /\ signal' = "acked" /\ Then(h, <<>>)
  BY DEF Opened, At, books, exchange, tables
<1>2. bought = Qty /\ bought' = Qty
  BY <1>1, AfterBuyIs DEF Opened, AfterBuy, books
<1>3. MemoryInv'
  BY <1>1, <1>2 DEF TypeInv, MemoryInv, Paid
<1>4. <<>> \in Seq(Todos)
  BY EmptySeq
<1> QED
  BY <1>1, <1>3, <1>4, ListStep DEF TypeInv

LEMMA EntryReportTypes == ASSUME TypeInv, EntryReport PROVE TypeInv'
<1>1. UNCHANGED <<books, notes, up>> /\ bought > 0 /\ Begin("reports", Recording)
  BY DEF EntryReport, books, notes, exchange, tables, memory
<1>2. bought = Qty
  <2>1. bought \in {0, Qty}
    BY DEF TypeInv, ExchangeInv
  <2> QED
    BY <1>1, <2>1
<1>3. Recording \in Seq(Todos) /\ "reports" \in Handlers /\ up' \in Ups
  BY <1>1, <1>2, RecordingIs DEF Handlers, TypeInv, MemoryInv
<1> QED
  BY <1>1, <1>3, OnlyBegin

LEMMA StartReconcileTypes == ASSUME TypeInv, StartReconcile PROVE TypeInv'
<1> DEFINE i == [op |-> "listed", seen |-> OpenOrders(ex)]
<1>1. UNCHANGED <<books, notes, up>> /\ Begin("reconciler", <<i>>)
  BY DEF StartReconcile, books, notes, exchange, tables, memory
<1>2. OpenOrders(ex) \subseteq Nat \X Legs
  <2>1. DOMAIN ex \subseteq Ids(tickets) /\ tickets \in Nat
    BY DEF TypeInv, ExchangeInv, ExchangeOK
  <2> QED
    BY <2>1 DEF OpenOrders, Ids
<1>3. i \in Todos
  <2>1. i \in ListedItems
    BY <1>2 DEF ListedItems
  <2> QED
    BY <2>1, ItemsAre DEF Todos
<1> HIDE DEF i
<1>4. <<i>> \in Seq(Todos) /\ "reconciler" \in Handlers /\ up' \in Ups
  BY <1>1, <1>3, OneItem DEF Handlers, TypeInv, MemoryInv
<1> QED
  BY <1>1, <1>4, OnlyBegin

LEMMA ListedTypes == ASSUME TypeInv, NEW h \in Handlers, Listed(h) PROVE TypeInv'
<1>1. UNCHANGED books /\ UNCHANGED <<entry, db, rec, mapped, signal, up>> /\ Busy(h)
      /\ Then(h, Refresh(OpenRows) \o Call("coverage"))
      /\ paused' = (paused \/ \E o \in Item(h).seen : o \notin OpenRows)
  BY DEF Listed, At, books, exchange, memory
<1>2. paused' \in BOOLEAN
  BY <1>1 DEF TypeInv, MemoryInv
<1>3. MemoryInv'
  BY <1>1, <1>2 DEF TypeInv, MemoryInv, Paid, books
<1>4. Refresh(OpenRows) \in Seq(Todos) /\ Call("coverage") \in Seq(Todos)
  <2>1. OpenRows \in SUBSET DOMAIN rows
    BY DEF OpenRows
  <2> QED
    BY <2>1, RefreshIs, CallIs DEF TypeInv, Anytime
<1>5. Refresh(OpenRows) \o Call("coverage") \in Seq(Todos)
  BY <1>4, ConcatProperties
<1> QED
  BY <1>1, <1>3, <1>5, ListStep DEF TypeInv

LEMMA CoverageTypes == ASSUME TypeInv, NEW h \in Handlers, Coverage(h) PROVE TypeInv'
<1>1. UNCHANGED <<books, notes, up>> /\ Busy(h)
  BY DEF Coverage, At, books, notes, exchange, tables, memory
<1>2. PICK a \in {Protect(rec), <<>>}, b \in {Call("booted"), <<>>} : Then(h, a \o b)
  BY DEF Coverage
<1>3. a \in Seq(Todos) /\ b \in Seq(Todos)
  <2>1. rec \in Records
    BY DEF TypeInv, MemoryInv
  <2> QED
    BY <2>1, ProtectIs, CallIs, EmptySeq DEF Anytime
<1>4. a \o b \in Seq(Todos)
  BY <1>3, ConcatProperties
<1> QED
  BY <1>1, <1>2, <1>4, OnlyList

LEMMA BootedTypes == ASSUME TypeInv, NEW h \in Handlers, Booted(h) PROVE TypeInv'
<1>1. UNCHANGED books /\ UNCHANGED <<entry, db, paused, rec, mapped, signal>> /\ Busy(h)
      /\ up' = "up" /\ Then(h, <<>>)
  BY DEF Booted, At, books, exchange, tables
<1>2. MemoryInv'
  BY <1>1 DEF TypeInv, MemoryInv, Paid, books, Ups
<1>3. <<>> \in Seq(Todos)
  BY EmptySeq
<1> QED
  BY <1>1, <1>2, <1>3, ListStep DEF TypeInv

LEMMA StartPollTypes == ASSUME TypeInv, StartPoll PROVE TypeInv'
<1>1. UNCHANGED <<books, notes, up>> /\ Begin("poll", Refresh(OpenRows))
  BY DEF StartPoll, books, notes, exchange, tables, memory
<1>2. Refresh(OpenRows) \in Seq(Todos)
  <2>1. OpenRows \in SUBSET DOMAIN rows
    BY DEF OpenRows
  <2> QED
    BY <2>1, RefreshIs DEF TypeInv
<1>3. "poll" \in Handlers /\ up' \in Ups
  BY <1>1 DEF Handlers, TypeInv, MemoryInv
<1> QED
  BY <1>1, <1>2, <1>3, OnlyBegin

LEMMA RestoredIs ==
  ASSUME rec \in Records, db \in DbRows
  PROVE  Restored \in Records
<1>1. PICK live \in BOOLEAN, rem \in 0 .. Qty, tp1 \in BOOLEAN, levels \in Nat, state \in {"none", "open", "closed"} :
             db = [state |-> state, live |-> live, rem |-> rem, tp1 |-> tp1, levels |-> levels]
  BY DEF DbRows
<1>2. live /\ ~tp1 => rem = Qty
  BY <1>1 DEF DbRows, Whole
<1>3. DOMAIN rec = {"live", "rem", "tp1", "levels"}
  BY DEF Records, RecType
<1>4. PICK r : r = Restored
  OBVIOUS
<1>5. r = [f \in {"live", "rem", "tp1", "levels"} |-> db[f]]
  BY <1>3, <1>4 DEF Restored
<1>6. r = [live |-> live, rem |-> rem, tp1 |-> tp1, levels |-> levels]
  BY <1>1, <1>5
<1> QED
  BY <1>2, <1>4, <1>6, RecordMade

LEMMA CrashTypes == ASSUME TypeInv, Crash PROVE TypeInv'
<1>1. UNCHANGED books /\ UNCHANGED <<entry, db, paused>>
  BY DEF Crash, books, exchange, tables
<1>2. /\ mapped' = (db.state = "open") /\ rec' = IF mapped' THEN Restored ELSE NoRec
      /\ todo' = [h \in Handlers |-> <<>>] /\ up' = "boot"
      /\ signal' \in IF signal = "unacked" THEN {"unacked", "lost"} ELSE {signal}
  BY DEF Crash
<1>3. rec' \in Records
  BY <1>2, RestoredIs, FirstRecords DEF TypeInv, MemoryInv
<1>4. MemoryInv'
  <2>1. db \in DbRows /\ db' = db /\ entry' = entry /\ bought' = bought /\ Paid /\ mapped' = (db.state = "open")
    BY <1>1, <1>2 DEF TypeInv, MemoryInv, books
  <2>2. Paid'
    BY <2>1 DEF Paid
  <2> QED
    BY <1>1, <1>2, <1>3, <2>1, <2>2 DEF TypeInv, MemoryInv, Ups
<1>5. ExchangeInv' /\ RowsInv'
  BY <1>1, SameBooks DEF TypeInv
<1>6. TodoInv'
  <2>1. <<>> \in Seq(Todos')
    BY EmptySeq
  <2> QED
    BY <1>2, <2>1 DEF TodoInv
<1> QED
  BY <1>4, <1>5, <1>6 DEF TypeInv

-----------------------------------------------------------------------------
(* The steps of the adapter that read or write rows                        *)

LEMMA ProtectReadTypes == ASSUME TypeInv, NEW h \in Handlers, ProtectRead(h) PROVE TypeInv'
<1> DEFINE req == Item(h).req
           a == Cover("oco_a", req)
           b == Cover("oco_b", req)
           c == Drop("oco_a", req)
           d == Drop("oco_b", req)
<1>1. UNCHANGED <<books, notes, up>> /\ At(h, "protect") /\ Then(h, ((a \o b) \o c) \o d)
  BY DEF ProtectRead, books, notes, exchange, tables, memory
<1>2. Busy(h) /\ Item(h).op = "protect" /\ Item(h) \in Items(DOMAIN rows, ex, bought)
  BY <1>1, HeadOf
<1>3. req \in Requests
  <2>1. Item(h) \in ProtectItems
    BY <1>2, ItemIs
  <2> QED
    BY <2>1 DEF ProtectItems
<1>4. a \in Seq(Todos) /\ b \in Seq(Todos) /\ c \in Seq(Todos) /\ d \in Seq(Todos)
  <2>1. RowsInv /\ tickets \in Nat
    BY DEF TypeInv, ExchangeInv
  <2> HIDE DEF req
  <2> QED BY <1>3, <2>1, CoverIs
<1> HIDE DEF req, a, b, c, d
<1>5. a \o b \in Seq(Todos)
  BY <1>4, ConcatProperties
<1>6. (a \o b) \o c \in Seq(Todos)
  BY <1>4, <1>5, ConcatProperties
<1>7. ((a \o b) \o c) \o d \in Seq(Todos)
  BY <1>4, <1>6, ConcatProperties
<1> QED
  BY <1>1, <1>2, <1>7, OnlyList

LEMMA HeldFirst ==
  ASSUME TypeInv, NEW held \in Held(DOMAIN rows, ex), DOMAIN held # {}
  PROVE  /\ First(DOMAIN held) \in DOMAIN rows
         /\ held[First(DOMAIN held)] \in OrderRows
         /\ Behind(held[First(DOMAIN held)], First(DOMAIN held), ex)
<1>1. DOMAIN held \in SUBSET DOMAIN rows
  BY HeldIs
<1>2. First(DOMAIN held) \in DOMAIN held
  BY <1>1, FirstRow DEF TypeInv, ExchangeInv
<1> QED
  BY <1>1, <1>2, HeldIs

LEMMA RowAnswered ==
  ASSUME NEW n \in Nat, ExchangeOK(ex, n), NEW row \in OrderRows, NEW o, Behind(row, o, ex), o \in DOMAIN ex
  PROVE  Answer(row, ex[o]) \in OrderRows /\ Behind(Answer(row, ex[o]), o, ex)
<1>1. PICK g \in Groups, q \in Nat, l \in Nat, id \in BOOLEAN, d \in Nat, v \in Nat, b \in BOOLEAN :
        row = [group |-> g, qty |-> q, levels |-> l, id |-> id, done |-> d, used |-> v, open |-> b]
  BY DEF OrderRows
<1>2. PICK d2 \in Nat, b2 \in BOOLEAN : d2 = ex[o].done /\ b2 = ex[o].open
  <2>1. ex[o] \in Orders
    BY DEF ExchangeOK
  <2> QED
    BY <2>1, OrderIs
<1>3. PICK w : w = Answer(row, ex[o])
  OBVIOUS
<1>4. w = [row EXCEPT !.open = b2, !.done = d2]
  BY <1>2, <1>3 DEF Answer
<1>5. w = [group |-> g, qty |-> q, levels |-> l, id |-> id, done |-> d2, used |-> v, open |-> b2]
  BY <1>1, <1>4
<1>6. w \in OrderRows
  BY <1>5 DEF OrderRows
<1>7. v <= d2
  <2>1. v <= d /\ d <= DoneOf(o, ex)
    BY <1>1 DEF Behind
  <2>2. DoneOf(o, ex) = d2
    BY <1>2 DEF DoneOf
  <2> QED
    BY <2>1, <2>2
<1>8. Behind(w, o, ex)
  <2>1. w.used = v /\ w.done = d2 /\ w.open = b2 /\ DoneOf(o, ex) = d2
    BY <1>2, <1>5 DEF DoneOf
  <2>2. ~b2 => o \notin OpenOrders(ex)
    BY <1>2 DEF OpenOrders
  <2> QED
    BY <1>7, <2>1, <2>2 DEF Behind
<1> QED
  BY <1>3, <1>6, <1>8

LEMMA AskTypes == ASSUME TypeInv, NEW h \in Handlers, Ask(h) PROVE TypeInv'
<1> DEFINE held == Item(h).held
           o    == First(DOMAIN held)
           i    == [op |-> "answer", order |-> o, row |-> Answer(held[o], ex[o])]
           rest == Each("ask", Others(held))
<1>1. UNCHANGED <<books, notes, up>> /\ At(h, "ask") /\ (Then(h, <<i>> \o rest) \/ Then(h, rest))
  BY DEF Ask, books, notes, exchange, tables, memory
<1>2. Busy(h) /\ Item(h).op = "ask" /\ Item(h) \in Items(DOMAIN rows, ex, bought)
  BY <1>1, HeadOf
<1>3. held \in Held(DOMAIN rows, ex) /\ DOMAIN held # {} /\ Sent(held)
  <2>1. Item(h) \in HeldItems(DOMAIN rows, ex)
    BY <1>2, ItemIs
  <2> QED
    BY <1>2, <2>1 DEF HeldItems
<1>4. rest \in Seq(Todos)
  <2> HIDE DEF held
  <2> QED BY <1>3, OthersIs, EachIs
<1>5. o \in DOMAIN rows /\ held[o] \in OrderRows /\ Behind(held[o], o, ex)
  <2> HIDE DEF held
  <2> QED BY <1>3, HeldFirst
<1>6. o \in DOMAIN ex
  <2>1. o \in DOMAIN held
    <3>1. DOMAIN held \in SUBSET DOMAIN rows
      BY <1>3, HeldIs
    <3> HIDE DEF held
    <3> QED BY <1>3, <3>1, FirstRow DEF TypeInv, ExchangeInv
  <2>2. held[o].id
    BY <1>3, <2>1 DEF Sent
  <2> QED
    BY <1>5, <2>2 DEF Behind
<1>7. i \in Todos
  <2>1. Answer(held[o], ex[o]) \in OrderRows /\ Behind(Answer(held[o], ex[o]), o, ex)
    <3> HIDE DEF o, held
    <3> QED BY <1>5, <1>6, RowAnswered DEF TypeInv, ExchangeInv
  <2>2. i \in AnswerItems(DOMAIN rows, ex)
    <3> HIDE DEF o, held
    <3> QED BY <1>5, <2>1 DEF AnswerItems
  <2> QED
    BY <2>2, ItemsAre DEF Todos
<1> HIDE DEF i, rest, o, held
<1>8. <<i>> \o rest \in Seq(Todos)
  BY <1>4, <1>7, OneItem, ConcatProperties
<1> QED
  BY <1>1, <1>2, <1>4, <1>8, OnlyList

LEMMA WriteAnswerTypes == ASSUME TypeInv, NEW h \in Handlers, WriteAnswer(h) PROVE TypeInv'
<1>1. UNCHANGED <<ex, bought, tickets>> /\ UNCHANGED <<notes, bought>> /\ up' = up /\ At(h, "answer") /\ Then(h, <<>>)
      /\ rows' = [rows EXCEPT ![Item(h).order] = Item(h).row]
  BY DEF WriteAnswer, notes, exchange, memory
<1>2. Busy(h) /\ Item(h).op = "answer" /\ Item(h) \in Items(DOMAIN rows, ex, bought)
  BY <1>1, HeadOf
<1>3. Item(h).order \in DOMAIN rows /\ Item(h).row \in OrderRows /\ Behind(Item(h).row, Item(h).order, ex)
  <2>1. Item(h) \in AnswerItems(DOMAIN rows, ex)
    BY <1>2, ItemIs
  <2> QED
    BY <2>1 DEF AnswerItems
<1>4. ExchangeInv' /\ RowsInv' /\ Todos \subseteq Todos'
  BY <1>1, <1>3, RowWritten
<1>5. TodoInv'
  <2>1. <<>> \in Seq(Todos')
    BY EmptySeq
  <2> QED
    BY <1>1, <1>2, <1>4, <2>1, GrowList
<1>6. MemoryInv'
  BY <1>1, SameNotes DEF TypeInv, MemoryInv
<1> QED
  BY <1>4, <1>5, <1>6 DEF TypeInv

LEMMA WriteTypes == ASSUME TypeInv, NEW h \in Handlers, Write(h) PROVE TypeInv'
<1> DEFINE held == Item(h).held
           o    == First(DOMAIN held)
           rest == Each("write", Others(held))
<1>1. UNCHANGED <<ex, bought, tickets>> /\ UNCHANGED <<notes, bought>> /\ up' = up /\ At(h, "write") /\ Then(h, rest)
      /\ rows' = [rows EXCEPT ![o] = held[o]]
  BY DEF Write, notes, exchange, memory
<1>2. Busy(h) /\ Item(h).op = "write" /\ Item(h) \in Items(DOMAIN rows, ex, bought)
  BY <1>1, HeadOf
<1>3. held \in Held(DOMAIN rows, ex) /\ DOMAIN held # {}
  <2>1. Item(h) \in HeldItems(DOMAIN rows, ex)
    BY <1>2, ItemIs
  <2> QED
    BY <2>1 DEF HeldItems
<1>4. rest \in Seq(Todos)
  BY <1>3, OthersIs, EachIs
<1>5. o \in DOMAIN rows /\ held[o] \in OrderRows /\ Behind(held[o], o, ex)
  <2> HIDE DEF held
  <2> QED BY <1>3, HeldFirst
<1> HIDE DEF o, rest, held
<1>6. ExchangeInv' /\ RowsInv' /\ Todos \subseteq Todos'
  BY <1>1, <1>5, RowWritten
<1>7. TodoInv'
  <2>1. PICK T : T = Todos'
    OBVIOUS
  <2>2. rest \in Seq(T)
    BY <1>4, <1>6, <2>1, SeqMonotonic
  <2> QED
    BY <1>1, <1>2, <1>6, <2>1, <2>2, GrowList
<1>8. MemoryInv'
  BY <1>1, SameNotes DEF TypeInv, MemoryInv
<1> QED
  BY <1>6, <1>7, <1>8 DEF TypeInv

LEMMA MaxIs ==
  ASSUME NEW a \in Nat, NEW b \in Nat, a <= b
  PROVE  Max({a, b}) = b
<1>1. b \in {a, b} /\ \A y \in {a, b} : b >= y
  OBVIOUS
<1>2. \A x \in {a, b} : (\A y \in {a, b} : x >= y) => x = b
  OBVIOUS
<1> QED
  BY <1>1, <1>2 DEF Max

\* An execution report is taken: the row it found goes along.
LEMMA RowReported ==
  ASSUME NEW n \in Nat, ExchangeOK(ex, n), NEW row \in OrderRows, NEW o \in DOMAIN ex, Behind(row, o, ex)
  PROVE  Reported(row, ex[o]) \in OrderRows /\ Behind(Reported(row, ex[o]), o, ex)
<1>1. PICK g \in Groups, q \in Nat, l \in Nat, id \in BOOLEAN, d \in Nat, v \in Nat, b \in BOOLEAN :
        row = [group |-> g, qty |-> q, levels |-> l, id |-> id, done |-> d, used |-> v, open |-> b]
  BY DEF OrderRows
<1>2. PICK d2 \in Nat, b2 \in BOOLEAN : d2 = ex[o].done /\ b2 = ex[o].open
  <2>1. ex[o] \in Orders
    BY DEF ExchangeOK
  <2> QED
    BY <2>1, OrderIs
<1>3. DoneOf(o, ex) = d2 /\ v <= d /\ d <= d2
  <2>1. DoneOf(o, ex) = d2
    BY <1>2 DEF DoneOf
  <2> QED
    BY <1>1, <2>1 DEF Behind
<1>4. Max({d, d2}) = d2
  BY <1>3, MaxIs
<1>5. PICK w : w = Reported(row, ex[o])
  OBVIOUS
<1>6. w = [row EXCEPT !.open = b2, !.id = TRUE, !.done = d2]
  BY <1>1, <1>2, <1>4, <1>5 DEF Reported
<1>7. w = [group |-> g, qty |-> q, levels |-> l, id |-> TRUE, done |-> d2, used |-> v, open |-> b2]
  BY <1>1, <1>6
<1>8. w \in OrderRows
  BY <1>7 DEF OrderRows
<1>9. v <= d2
  BY <1>3
<1>10. Behind(w, o, ex)
  <2>1. w.used = v /\ w.done = d2 /\ w.open = b2
    BY <1>7
  <2>2. ~b2 => o \notin OpenOrders(ex)
    BY <1>2 DEF OpenOrders
  <2> QED
    BY <1>3, <1>9, <2>1, <2>2 DEF Behind
<1> QED
  BY <1>5, <1>8, <1>10

LEMMA TakeReportTypes == ASSUME TypeInv, NEW o \in DOMAIN ex, TakeReport(o) PROVE TypeInv'
<1> DEFINE f == [p \in {o} |-> Reported(rows[p], ex[p])]
<1>1. UNCHANGED <<books, notes, up>> /\ o \in DOMAIN rows /\ Begin("reports", Each("write", f))
  BY DEF TakeReport, books, notes, exchange, tables, memory
<1>2. rows[o] \in OrderRows /\ Behind(rows[o], o, ex)
  BY <1>1 DEF TypeInv, RowsInv
<1>3. Reported(rows[o], ex[o]) \in OrderRows /\ Behind(Reported(rows[o], ex[o]), o, ex)
  BY <1>2, RowReported DEF TypeInv, ExchangeInv
<1>4. f \in Held(DOMAIN rows, ex)
  <2>1. {o} \in SUBSET DOMAIN rows
    BY <1>1
  <2> QED
    BY <1>3, <2>1 DEF Held
<1> HIDE DEF f
<1>5. Each("write", f) \in Seq(Todos)
  BY <1>4, EachIs
<1>6. "reports" \in Handlers /\ up' \in Ups
  BY <1>1 DEF Handlers, TypeInv, MemoryInv
<1> QED
  BY <1>1, <1>5, <1>6, OnlyBegin

LEMMA ConsumeTypes == ASSUME TypeInv, NEW h \in Handlers, Consume(h) PROVE TypeInv'
<1> DEFINE item  == Item(h)
           takes == [o \in DOMAIN rows |-> Take(o, item.need)]
           used  == [o \in {p \in DOMAIN rows : takes[p] > 0} |-> rows[o].used + takes[o]]
           taken == SumFunctionOnSet(takes, DOMAIN rows)
           i     == [op |-> "short", need |-> item.need - taken, cancelled |-> item.cancelled]
           rest  == IF taken = item.need THEN <<>> ELSE <<i>>
<1>1. UNCHANGED <<books, notes, up>> /\ At(h, "consume") /\ Then(h, Using(used) \o rest)
  BY DEF Consume, books, notes, exchange, tables, memory
<1>2. Busy(h) /\ Item(h).op = "consume" /\ Item(h) \in Items(DOMAIN rows, ex, bought)
  BY <1>1, HeadOf
<1>3. item.need \in Nat /\ item.cancelled \in BOOLEAN
  <2>1. Item(h) \in ConsumeItems
    BY <1>2, ItemIs
  <2> QED
    BY <2>1 DEF ConsumeItems
<1>4. \A o \in DOMAIN rows : rows[o].done \in Nat /\ rows[o].used \in Nat /\ rows[o].used <= rows[o].done
  <2>1. \A o \in DOMAIN rows : rows[o] \in OrderRows /\ Behind(rows[o], o, ex)
    BY DEF TypeInv, RowsInv
  <2> QED
    BY <2>1 DEF OrderRows, Behind
<1>5. Amounts
  BY <1>4 DEF Amounts
<1>6. \A o \in DOMAIN rows : Take(o, item.need) \in Nat /\ Take(o, item.need) <= Unused(o)
      /\ Unused(o) = rows[o].done - rows[o].used
  <2>1. tickets \in Nat /\ DOMAIN rows \subseteq Ids(tickets) /\ Tidy(DOMAIN rows)
    BY DEF TypeInv, ExchangeInv, RowsInv, Tidy
  <2> HIDE DEF item
  <2>2. \A o \in DOMAIN rows : Take(o, item.need) \in Nat /\ Take(o, item.need) <= Unused(o)
    BY <1>3, <1>5, <2>1, TakeSum
  <2>3. \A o \in DOMAIN rows : Unused(o) = rows[o].done - rows[o].used
    BY <1>4, <1>5, UnusedIs
  <2> QED
    BY <2>2, <2>3
<1>7. item.need - taken \in Nat
  <2>1. tickets \in Nat /\ DOMAIN rows \subseteq Ids(tickets) /\ Tidy(DOMAIN rows)
    BY DEF TypeInv, ExchangeInv, RowsInv, Tidy
  <2> DEFINE there == SumFunctionOnSet(Unuseds, DOMAIN rows)
  <2>2. takes = Need(item.need)
    BY DEF Need
  <2> HIDE DEF item, takes
  <2>3. there \in Nat /\ taken = IF item.need <= there THEN item.need ELSE there
    BY <1>3, <1>5, <2>1, <2>2, TakeSum
  <2> HIDE DEF taken, there
  <2> QED
    BY <1>3, <2>3
<1>8. Using(used) \in Seq(Todos)
  <2>1. \A o \in DOMAIN used : o \in DOMAIN rows /\ used[o] = rows[o].used + Take(o, item.need)
    OBVIOUS
  <2> HIDE DEF used, item
  <2>2. \A o \in DOMAIN used : used[o] \in Nat /\ used[o] <= rows[o].done
    <3> SUFFICES ASSUME NEW o \in DOMAIN used PROVE used[o] \in Nat /\ used[o] <= rows[o].done
      OBVIOUS
    <3>1. PICK u \in Nat, d \in Nat, t \in Nat : u = rows[o].used /\ d = rows[o].done /\ t = Take(o, item.need)
      BY <1>4, <1>6, <2>1
    <3>2. u <= d /\ t <= d - u
      BY <1>4, <1>6, <2>1, <3>1
    <3>3. used[o] = u + t
      BY <2>1, <3>1
    <3> QED
      BY <3>1, <3>2, <3>3
  <2>3. DOMAIN used \subseteq DOMAIN rows
    BY <2>1
  <2> QED
    BY <2>2, <2>3, UsingIs DEF TypeInv
<1>9. rest \in Seq(Todos)
  <2>1. i \in ConsumeItems
    <3> HIDE DEF taken, item
    <3> QED BY <1>3, <1>7 DEF ConsumeItems
  <2>2. i \in Todos
    BY <2>1, ItemsAre DEF Todos
  <2> HIDE DEF i, taken, item
  <2> QED BY <2>2, OneItem, EmptySeq
<1> HIDE DEF used, rest
<1>10. Using(used) \o rest \in Seq(Todos)
  BY <1>8, <1>9, ConcatProperties
<1> QED
  BY <1>1, <1>2, <1>10, OnlyList

LEMMA MarkTypes == ASSUME TypeInv, NEW h \in Handlers, Mark(h) PROVE TypeInv'
<1> DEFINE sales == IF Item(h).use = "closeLong" THEN {Item(h).id}
                    ELSE {o \in DOMAIN rows : rows[o].group = "market_exit"}
           f == [o \in sales |-> rows[o].done]
<1>1. UNCHANGED <<books, notes, up>> /\ At(h, "mark") /\ Then(h, Using(f))
  BY DEF Mark, books, notes, exchange, tables, memory
<1>2. Busy(h) /\ Item(h).op = "mark" /\ Item(h) \in Items(DOMAIN rows, ex, bought)
  BY <1>1, HeadOf
<1>3. Item(h).id \in DOMAIN rows
  <2>1. Item(h) \in MarkItems(DOMAIN rows)
    BY <1>2, ItemIs
  <2> QED
    BY <2>1 DEF MarkItems
<1>4. \A o \in DOMAIN rows : rows[o].done \in Nat
  <2>1. \A o \in DOMAIN rows : rows[o] \in OrderRows
    BY DEF TypeInv, RowsInv
  <2> QED
    BY <2>1 DEF OrderRows
<1>5. sales \subseteq DOMAIN rows
  BY <1>3
<1> HIDE DEF sales
<1>6. DOMAIN f \subseteq DOMAIN rows /\ \A o \in DOMAIN f : f[o] \in Nat /\ f[o] <= rows[o].done
  BY <1>4, <1>5
<1> HIDE DEF f
<1>7. Using(f) \in Seq(Todos)
  BY <1>6, UsingIs DEF TypeInv
<1> QED
  BY <1>1, <1>2, <1>7, OnlyList

LEMMA RecordSaleTypes == ASSUME TypeInv, NEW h \in Handlers, RecordSale(h) PROVE TypeInv'
<1> DEFINE item == Item(h)
           i == [op |-> "mark", use |-> item.use, id |-> item.id]
           w == [rows[item.id] EXCEPT !.done = item.qty, !.open = FALSE, !.id = TRUE]
<1>1. UNCHANGED <<ex, bought, tickets>> /\ UNCHANGED <<notes, bought>> /\ up' = up /\ At(h, "sold")
      /\ (Then(h, <<>>) \/ (item.use # "account later" /\ Then(h, <<i>>)))
  BY DEF RecordSale, notes, exchange, memory
<1>2. Busy(h) /\ Item(h).op = "sold" /\ Item(h) \in Items(DOMAIN rows, ex, bought)
  BY <1>1, HeadOf
<1>3. /\ item.id \in DOMAIN rows /\ item.id \in DOMAIN ex /\ item.qty \in Nat /\ item.use \in Uses
      /\ item.qty = ex[item.id].done /\ item.id \notin OpenOrders(ex)
  <2>1. Item(h) \in SoldItems(DOMAIN rows, ex)
    BY <1>2, ItemIs
  <2> QED
    BY <2>1 DEF SoldItems
<1>4. rows' = [rows EXCEPT ![item.id] = w]
  <2>1. rows' = [[[rows EXCEPT ![item.id].done = item.qty] EXCEPT ![item.id].open = FALSE] EXCEPT ![item.id].id = TRUE]
    BY DEF RecordSale
  <2> HIDE DEF item
  <2> DEFINE f == [rows EXCEPT ![item.id].done = item.qty]
             g == [f EXCEPT ![item.id].open = FALSE]
  <2>2. DOMAIN f = DOMAIN rows /\ f[item.id] = [rows[item.id] EXCEPT !.done = item.qty]
        /\ \A o \in DOMAIN rows \ {item.id} : f[o] = rows[o]
    BY <1>3
  <2> HIDE DEF f
  <2>3. DOMAIN g = DOMAIN rows /\ g[item.id] = [f[item.id] EXCEPT !.open = FALSE]
        /\ \A o \in DOMAIN rows \ {item.id} : g[o] = rows[o]
    BY <1>3, <2>2
  <2>4. rows' = [g EXCEPT ![item.id].id = TRUE]
    BY <2>1 DEF f
  <2> HIDE DEF g
  <2>5. rows' = [o \in DOMAIN rows |-> IF o = item.id THEN [g[item.id] EXCEPT !.id = TRUE] ELSE rows[o]]
    BY <1>3, <2>3, <2>4
  <2>6. [g[item.id] EXCEPT !.id = TRUE] = w
    <3>1. PICK r : r = rows[item.id]
      OBVIOUS
    <3>2. PICK q : q = item.qty
      OBVIOUS
    <3>3. g[item.id] = [[r EXCEPT !.done = q] EXCEPT !.open = FALSE]
      BY <2>2, <2>3, <3>1, <3>2
    <3>4. PICK u : u = [[[r EXCEPT !.done = q] EXCEPT !.open = FALSE] EXCEPT !.id = TRUE]
      OBVIOUS
    <3>5. u = [r EXCEPT !.done = q, !.open = FALSE, !.id = TRUE]
      BY <3>4
    <3> QED
      BY <3>1, <3>2, <3>3, <3>4, <3>5
  <2> HIDE DEF w
  <2> QED
    BY <1>3, <2>5, <2>6
<1>5. w \in OrderRows /\ Behind(w, item.id, ex)
  <2>1. rows[item.id] \in OrderRows /\ Behind(rows[item.id], item.id, ex)
    BY <1>3 DEF TypeInv, RowsInv
  <2>2. PICK r : r = rows[item.id]
    OBVIOUS
  <2>3. PICK g \in Groups, q \in Nat, l \in Nat, id \in BOOLEAN, d \in Nat, v \in Nat, b \in BOOLEAN :
          r = [group |-> g, qty |-> q, levels |-> l, id |-> id, done |-> d, used |-> v, open |-> b]
    BY <2>1, <2>2 DEF OrderRows
  <2>4. PICK n \in Nat : n = item.qty
    BY <1>3
  <2>5. PICK u : u = [r EXCEPT !.done = n, !.open = FALSE, !.id = TRUE]
    OBVIOUS
  <2>14. u = w
    BY <2>2, <2>4, <2>5
  <2>6. u = [group |-> g, qty |-> q, levels |-> l, id |-> TRUE, done |-> n, used |-> v, open |-> FALSE]
    <3> HIDE DEF w, item
    <3> QED BY <2>3, <2>5
  <2>7. u \in OrderRows
    BY <2>6 DEF OrderRows
  <2>8. PICK k : k = item.id
    OBVIOUS
  <2>9. DoneOf(k, ex) = n
    BY <1>3, <2>4, <2>8 DEF DoneOf
  <2>10. v <= d /\ d <= DoneOf(k, ex)
    BY <2>1, <2>2, <2>3, <2>8 DEF Behind
  <2>11. v <= n
    BY <2>9, <2>10
  <2>12. k \notin OpenOrders(ex) /\ k \in DOMAIN ex
    BY <1>3, <2>8
  <2>13. Behind(u, k, ex)
    BY <2>6, <2>9, <2>11, <2>12 DEF Behind
  <2> QED
    BY <2>7, <2>8, <2>13, <2>14
<1>6. ExchangeInv' /\ RowsInv' /\ Todos \subseteq Todos' /\ DOMAIN rows' = DOMAIN rows
  <2> HIDE DEF w, item
  <2> QED BY <1>1, <1>3, <1>4, <1>5, RowWritten
<1>7. TodoInv'
  <2>1. PICK T : T = Todos'
    OBVIOUS
  <2>2. <<>> \in Seq(T)
    BY EmptySeq
  <2>3. item.use # "account later" => i \in T
    <3>1. ASSUME item.use # "account later" PROVE i \in MarkItems(DOMAIN rows)
      <4> HIDE DEF item
      <4> QED BY <1>3, <3>1 DEF MarkItems, Uses
    <3> HIDE DEF i, item
    <3>2. item.use # "account later" => i \in Todos
      BY <3>1, ItemsAre DEF Todos
    <3> QED
      BY <1>6, <2>1, <3>2
  <2> HIDE DEF i, item
  <2>4. item.use # "account later" => <<i>> \in Seq(T)
    BY <2>3, OneItem
  <2> QED
    BY <1>1, <1>2, <1>6, <2>1, <2>2, <2>4, GrowList
<1>8. MemoryInv'
  BY <1>1, SameNotes DEF TypeInv, MemoryInv
<1> QED
  BY <1>6, <1>7, <1>8 DEF TypeInv

LEMMA EmergencyTypes == ASSUME TypeInv, NEW h \in Handlers, Emergency(h) PROVE TypeInv'
<1> DEFINE i == [op |-> "sell", qty |-> Item(h).qty, use |-> "emergency"]
           j == [op |-> "forced", qty |-> Item(h).qty]
<1>1. UNCHANGED <<books, notes, up>> /\ At(h, "emergency") /\ Then(h, CancelAll \o <<i, j>>)
  BY DEF Emergency, books, notes, exchange, tables, memory
<1>2. Busy(h) /\ Item(h).op = "emergency" /\ Item(h) \in Items(DOMAIN rows, ex, bought)
  BY <1>1, HeadOf
<1>3. Item(h).qty \in Nat
  <2>1. Item(h) \in SizeItems
    BY <1>2, ItemIs
  <2> QED
    BY <2>1 DEF SizeItems
<1>4. i \in Todos /\ j \in Todos
  <2>1. i \in SellItems /\ j \in SizeItems
    BY <1>3 DEF SellItems, SizeItems, Uses
  <2> QED
    BY <2>1, ItemsAre DEF Todos
<1>5. CancelAll \in Seq(Todos)
  BY CancelAllIs DEF TypeInv, ExchangeInv
<1> HIDE DEF i, j
<1>6. CancelAll \o <<i, j>> \in Seq(Todos)
  BY <1>4, <1>5, TwoItems, ConcatProperties
<1> QED
  BY <1>1, <1>2, <1>6, OnlyList

LEMMA ForcedCloseTypes == ASSUME TypeInv, NEW h \in Handlers, ForcedClose(h) PROVE TypeInv'
<1>1. UNCHANGED books /\ UNCHANGED <<entry, db, paused, mapped, signal, up>> /\ At(h, "forced")
  BY DEF ForcedClose, books, exchange, tables
<1>2. Busy(h)
  BY <1>1, HeadOf
<1>3. CASE mapped /\ rec' = [rec EXCEPT !.live = FALSE, !.rem = 0] /\ Then(h, Call("finish"))
  <2>1. bought = Qty
    BY <1>3 DEF TypeInv, MemoryInv, Paid
  <2>2. PICK live \in BOOLEAN, rem \in 0 .. Qty, tp1 \in BOOLEAN, levels \in Nat :
          rec = [live |-> live, rem |-> rem, tp1 |-> tp1, levels |-> levels]
    BY DEF TypeInv, MemoryInv, Records, RecType
  <2>3. PICK w : w = rec'
    OBVIOUS
  <2>4. w = [live |-> FALSE, rem |-> 0, tp1 |-> tp1, levels |-> levels]
    BY <1>3, <2>2, <2>3
  <2>5. 0 \in 0 .. Qty
    BY QuantityAssumption
  <2>6. w \in Records
    BY <2>4, <2>5, RecordMade
  <2>7. MemoryInv'
    BY <1>1, <2>3, <2>6 DEF TypeInv, MemoryInv, Paid, books
  <2>8. Call("finish") \in Seq(Todos)
    BY <2>1, CallIs DEF AfterBuy
  <2> QED
    BY <1>1, <1>2, <1>3, <2>7, <2>8, ListStep DEF TypeInv
<1>4. CASE rec' = rec /\ Then(h, <<>>)
  <2>1. UNCHANGED <<books, notes, up>>
    BY <1>1, <1>4 DEF notes
  <2>2. <<>> \in Seq(Todos)
    BY EmptySeq
  <2> QED
    BY <1>2, <1>4, <2>1, <2>2, OnlyList
<1> QED
  BY <1>3, <1>4 DEF ForcedClose

-----------------------------------------------------------------------------
(* The exchange moves on                                                   *)

LEMMA LaterCancel ==
  ASSUME NEW n \in Nat, NEW x, ExchangeOK(x, n), NEW t
  PROVE  Later(x, CancelTicket(x, t), n)
<1> DEFINE y == CancelTicket(x, t)
<1>1. DOMAIN y = DOMAIN x
      /\ \A o \in DOMAIN x : y[o] = x[o] \/ y[o] = [x[o] EXCEPT !.open = FALSE]
  BY DEF CancelTicket, Shut
<1> HIDE DEF y
<1>2. \A o \in DOMAIN x : x[o].done \in Nat /\ y[o].done = x[o].done /\ (~x[o].open => ~y[o].open)
  <2> SUFFICES ASSUME NEW o \in DOMAIN x
               PROVE  x[o].done \in Nat /\ y[o].done = x[o].done /\ (~x[o].open => ~y[o].open)
    OBVIOUS
  <2>1. PICK v \in Orders : v = x[o]
    BY DEF ExchangeOK
  <2>2. PICK q \in Nat, d \in Nat, b \in BOOLEAN : v = [qty |-> q, done |-> d, open |-> b]
    BY DEF Orders
  <2>3. PICK w : w = [v EXCEPT !.open = FALSE]
    OBVIOUS
  <2>4. w = [qty |-> q, done |-> d, open |-> FALSE]
    BY <2>2, <2>3
  <2>5. y[o] = v \/ y[o] = w
    BY <1>1, <2>1, <2>3
  <2> QED
    BY <2>1, <2>2, <2>4, <2>5
<1>3. \A o \in DOMAIN x : x[o].done <= y[o].done
  BY <1>2
<1>4. Later(x, y, n)
  BY <1>1, <1>2, <1>3 DEF Later
<1> QED
  BY <1>4 DEF y

\* What cancels or fills changes neither what has rows nor what has orders.
LEMMA ExchangeChanged ==
  ASSUME TypeInv, bought' = bought, tickets' = tickets, rows' = rows,
         NEW y, ex' = y, DOMAIN y = DOMAIN ex, ExchangeOK(y, tickets), Weights(y) <= Weights(ex),
         Later(ex, y, tickets)
  PROVE  ExchangeInv' /\ RowsInv' /\ Todos \subseteq Todos'
<1>1. tickets \in Nat /\ bought \in Nat /\ ExchangeOK(ex, tickets) /\ Weights(ex) <= Spare + bought
  BY QuantityAssumption DEF TypeInv, ExchangeInv
<1>2. Weights(ex) \in Nat /\ Weights(y) \in Nat
  BY <1>1, WeightIs
<1>3. Weights(y) <= Spare + bought
  BY <1>1, <1>2, QuantityAssumption
<1>4. ExchangeInv'
  BY <1>1, <1>3 DEF TypeInv, ExchangeInv
<1>5. Tidy(DOMAIN rows \cup DOMAIN ex')
  BY DEF TypeInv, RowsInv
<1>6. RowsInv'
  BY <1>1, <1>4, <1>5, ExchangeOnly
<1>7. Todos \subseteq Todos'
  BY <1>4, TodosGrow
<1> QED
  BY <1>4, <1>6, <1>7

LEMMA CancelTypes == ASSUME TypeInv, NEW h \in Handlers, Cancel(h) PROVE TypeInv'
<1>1. bought' = bought /\ tickets' = tickets /\ rows' = rows /\ UNCHANGED <<notes, bought>> /\ up' = up
  BY DEF Cancel, tables, memory, notes
<1>2. Busy(h) /\ Then(h, <<>>)
  BY DEF Cancel, At
<1>3. (\E t : ex' = CancelTicket(ex, t)) \/ ex' = ex
  BY DEF Cancel
<1>4. ExchangeInv' /\ RowsInv' /\ Todos \subseteq Todos'
  <2>1. CASE \E t : ex' = CancelTicket(ex, t)
    <3>1. PICK t : ex' = CancelTicket(ex, t)
      BY <2>1
    <3>2. PICK y : y = CancelTicket(ex, t)
      OBVIOUS
    <3>3. DOMAIN y = DOMAIN ex /\ ExchangeOK(y, tickets) /\ Weights(y) <= Weights(ex) /\ Later(ex, y, tickets)
      BY <3>2, CancelWeight, LaterCancel DEF TypeInv, ExchangeInv
    <3> QED
      BY <1>1, <3>1, <3>2, <3>3, ExchangeChanged
  <2>2. CASE ex' = ex
    BY <1>1, <2>2, SameBooks DEF books, TypeInv
  <2> QED
    BY <1>3, <2>1, <2>2
<1>5. TodoInv'
  <2>1. <<>> \in Seq(Todos')
    BY EmptySeq
  <2> QED
    BY <1>2, <1>4, <2>1, GrowList
<1>6. MemoryInv'
  BY <1>1, SameNotes DEF TypeInv, MemoryInv
<1> QED
  BY <1>4, <1>5, <1>6 DEF TypeInv

LEMMA FillTypes ==
  ASSUME TypeInv, NEW o \in OpenOrders(ex), NEW k \in 1 .. ex[o].qty - ex[o].done, Fill(o, k)
  PROVE  TypeInv'
<1>1. bought' = bought /\ tickets' = tickets /\ rows' = rows /\ todo' = todo
      /\ UNCHANGED <<notes, bought>> /\ up' = up
  BY DEF Fill, tables, memory, notes
<1>2. PICK y : y = FillOrder(ex, o, k)
  OBVIOUS
<1>3. ex' = y
  BY <1>2 DEF Fill
<1>4. tickets \in Nat /\ ExchangeOK(ex, tickets)
  BY DEF TypeInv, ExchangeInv
<1>5. DOMAIN y = DOMAIN ex /\ ExchangeOK(y, tickets) /\ Weights(y) <= Weights(ex)
      /\ \A p \in DOMAIN ex : ex[p].done <= y[p].done /\ (~ex[p].open => ~y[p].open /\ y[p].done = ex[p].done)
  BY <1>2, <1>4, FillWeight
<1>6. Later(ex, y, tickets)
  BY <1>5 DEF Later
<1>7. ExchangeInv' /\ RowsInv' /\ Todos \subseteq Todos'
  BY <1>1, <1>3, <1>5, <1>6, ExchangeChanged
<1>8. TodoInv'
  BY <1>1, <1>7, GrowStay
<1>9. MemoryInv'
  BY <1>1, SameNotes DEF TypeInv, MemoryInv
<1> QED
  BY <1>7, <1>8, <1>9 DEF TypeInv

LEMMA TidyGrows ==
  ASSUME NEW n \in Nat, NEW S, S \subseteq Ids(n), Tidy(S), NEW N, \A o \in N : o[1] = n + 1,
         \A o, p \in N : o[2] = "market" <=> p[2] = "market"
  PROVE  Tidy(S \cup N)
<1>1. \A o \in S : o[1] # n + 1
  BY IdsGrow
<1> QED
  BY <1>1 DEF Tidy

\* Orders are placed under the next ticket, within what is free.
LEMMA ExchangePlaced ==
  ASSUME TypeInv, bought' = bought, tickets' = tickets + 1,
         NEW N, N \subseteq {<<tickets + 1, leg>> : leg \in Legs}, \A o, p \in N : o[2] = "market" <=> p[2] = "market",
         NEW v \in Orders, NEW y, y = Put(ex, N, v), ex' = y, ExchangeOK(y, tickets + 1),
         NEW q \in Nat, q <= Free, Weights(y) <= Weights(ex) + q
  PROVE  /\ ExchangeInv' /\ Later(ex, ex', tickets) /\ N \subseteq DOMAIN ex'
         /\ Tidy(DOMAIN rows \cup DOMAIN ex')
<1>1. tickets \in Nat /\ bought \in Nat /\ ExchangeOK(ex, tickets) /\ Spare \in Nat
  BY QuantityAssumption DEF TypeInv, ExchangeInv
<1>2. Free = Spare + bought - Weights(ex) /\ Weights(ex) \in Nat /\ Weights(y) \in Nat
  <2>1. tickets + 1 \in Nat
    BY <1>1
  <2>2. Weights(ex) \in Nat /\ Weights(y) \in Nat
    BY <1>1, <2>1, WeightIs
  <2> QED
    BY <1>1, <2>2, FreeIs
<1>3. Weights(y) <= Spare + bought
  BY <1>1, <1>2
<1>4. ExchangeInv'
  BY <1>1, <1>3 DEF TypeInv, ExchangeInv
<1>5. DOMAIN ex \subseteq Ids(tickets) /\ DOMAIN rows \subseteq Ids(tickets) /\ Tidy(DOMAIN rows \cup DOMAIN ex)
  BY <1>1 DEF TypeInv, RowsInv, ExchangeOK
<1>6. \A o \in N : o[1] = tickets + 1 /\ o \notin Ids(tickets)
  BY <1>1, IdsGrow
<1>7. DOMAIN y = DOMAIN ex \cup N /\ \A o \in DOMAIN ex : y[o] = ex[o]
  <2>1. DOMAIN y = DOMAIN ex \cup N /\ \A o \in DOMAIN ex \ N : y[o] = ex[o]
    BY DEF Put
  <2> QED
    BY <1>5, <1>6, <2>1
<1>8. Tidy((DOMAIN rows \cup DOMAIN ex) \cup N)
  BY <1>1, <1>5, <1>6, TidyGrows
<1>9. (DOMAIN rows \cup DOMAIN ex) \cup N = DOMAIN rows \cup DOMAIN y
  BY <1>7
<1>10. Later(ex, y, tickets)
  <2>1. Later(ex, ex, tickets)
    BY <1>1, LaterSame
  <2> QED
    BY <1>6, <1>7, <2>1 DEF Later
<1> QED
  BY <1>4, <1>7, <1>8, <1>9, <1>10

\* The same when no row hears of it yet.
LEMMA PlacedOnly ==
  ASSUME TypeInv, rows' = rows, bought' = bought, tickets' = tickets + 1, ExchangeInv', Later(ex, ex', tickets),
         Tidy(DOMAIN rows \cup DOMAIN ex')
  PROVE  RowsInv' /\ Todos \subseteq Todos'
<1>1. tickets <= tickets'
  BY DEF TypeInv, ExchangeInv
<1>2. RowsInv'
  BY <1>1, ExchangeOnly
<1>3. Todos \subseteq Todos'
  BY TodosGrow
<1> QED
  BY <1>2, <1>3

LEMMA ListPlaced ==
  ASSUME TypeInv, rows' = rows, bought' = bought, tickets' = tickets + 1,
         NEW q \in Nat, q <= Free, ex' = PlaceOco(ex, tickets + 1, q)
  PROVE  /\ ExchangeInv' /\ RowsInv' /\ Todos \subseteq Todos'
         /\ <<tickets + 1, "limit">> \in DOMAIN ex' /\ <<tickets + 1, "stop">> \in DOMAIN ex'
<1> DEFINE N == {<<tickets + 1, "limit">>, <<tickets + 1, "stop">>}
<1>1. PICK v : v = Resting(q)
  OBVIOUS
<1>2. v \in Orders
  BY <1>1 DEF Resting, Orders
<1>3. PICK y : y = Put(ex, N, v)
  OBVIOUS
<1>4. y = PlaceOco(ex, tickets + 1, q)
  BY <1>1, <1>3 DEF PlaceOco
<1>5. ExchangeOK(y, tickets + 1) /\ Weights(y) <= Weights(ex) + q
  BY <1>4, PlaceTwo DEF TypeInv, ExchangeInv
<1>6. N \subseteq {<<tickets + 1, leg>> : leg \in Legs} /\ (\A o, p \in N : o[2] = "market" <=> p[2] = "market")
  BY DEF Legs
<1>7. <<tickets + 1, "limit">> \in N /\ <<tickets + 1, "stop">> \in N /\ ex' = y
  BY <1>4
<1> HIDE DEF N
<1>8. ExchangeInv' /\ Later(ex, ex', tickets) /\ N \subseteq DOMAIN ex' /\ Tidy(DOMAIN rows \cup DOMAIN ex')
  BY <1>2, <1>3, <1>5, <1>6, <1>7, ExchangePlaced
<1>9. RowsInv' /\ Todos \subseteq Todos'
  BY <1>8, PlacedOnly
<1> QED
  BY <1>7, <1>8, <1>9

LEMMA OnePlaced ==
  ASSUME TypeInv, bought' = bought, tickets' = tickets + 1,
         NEW leg \in Legs, NEW v \in Orders, v.qty <= Free, ex' = Put(ex, {<<tickets + 1, leg>>}, v)
  PROVE  /\ ExchangeInv' /\ Later(ex, ex', tickets) /\ Tidy(DOMAIN rows \cup DOMAIN ex')
         /\ <<tickets + 1, leg>> \in DOMAIN ex'
<1> DEFINE N == {<<tickets + 1, leg>>}
<1>1. PICK y : y = Put(ex, N, v)
  OBVIOUS
<1>3. ExchangeOK(y, tickets + 1) /\ Weights(y) <= Weights(ex) + v.qty
  BY <1>1, PlaceOne DEF TypeInv, ExchangeInv
<1>4. N \subseteq {<<tickets + 1, l>> : l \in Legs} /\ (\A o, p \in N : o[2] = "market" <=> p[2] = "market")
  OBVIOUS
<1>5. <<tickets + 1, leg>> \in N /\ ex' = y
  BY <1>1
<1>6. v.qty \in Nat
  BY OrderIs
<1> HIDE DEF N
<1>7. ExchangeInv' /\ Later(ex, ex', tickets) /\ N \subseteq DOMAIN ex' /\ Tidy(DOMAIN rows \cup DOMAIN ex')
  BY <1>1, <1>3, <1>4, <1>5, <1>6, ExchangePlaced
<1> QED
  BY <1>5, <1>7

-----------------------------------------------------------------------------
(* Placements                                                              *)

LEMMA OwedIs ==
  ASSUME TypeInv, NEW item \in PlaceItems(DOMAIN rows, ex)
  PROVE  Owed(item) \in Nat
<1>1. item.qty \in Nat /\ item.less \in SUBSET DOMAIN rows
  BY DEF PlaceItems
<1> DEFINE S == item.less
           f == [o \in S |-> rows[o].done]
<1>2. IsFiniteSet(S)
  BY <1>1, IdsFinite DEF TypeInv, ExchangeInv, RowsInv
<1>3. \A o \in S : f[o] \in Nat
  <2>1. \A o \in DOMAIN rows : rows[o] \in OrderRows
    BY DEF TypeInv, RowsInv
  <2>2. \A o \in DOMAIN rows : rows[o].done \in Nat
    BY <2>1 DEF OrderRows
  <2> QED
    BY <1>1, <2>2
<1>4. Executed(rows, S) = SumFunctionOnSet(f, S)
  BY DEF Executed
<1> HIDE DEF S, f
<1>5. Executed(rows, S) \in Nat
  BY <1>2, <1>3, <1>4, SumNat
<1>6. Min({item.qty, Executed(rows, S)}) = IF item.qty <= Executed(rows, S) THEN item.qty ELSE Executed(rows, S)
  BY <1>1, <1>5, MinIs
<1>7. item.qty - Min({item.qty, Executed(rows, S)}) \in Nat
  BY <1>1, <1>5, <1>6
<1> QED
  BY <1>7 DEF Owed, S

\* A placement made of its parts.
LEMMA PlaceItemMade ==
  ASSUME NEW D, NEW x, NEW op \in {"place", "constraint", "insert"}, NEW g \in Groups, NEW n \in Nat,
         NEW s \in SUBSET D, NEW l \in Nat, NEW a \in Nat, NEW t \in Nat, NEW k \in Nat, NEW legs \in LegLists,
         op = "insert" => legs # <<>> /\ \A j \in DOMAIN legs : <<k, legs[j]>> \in DOMAIN x,
         NEW i, i = [op |-> op, group |-> g, qty |-> n, less |-> s, levels |-> l, all |-> a, try |-> t,
                     ticket |-> k, legs |-> legs]
  PROVE  i \in PlaceItems(D, x)
BY DEF PlaceItems

\* A placement is tried again, or the position is left at market.
LEMMA RetryIs ==
  ASSUME TypeInv, NEW h \in Handlers, Item(h) \in PlaceItems(DOMAIN rows, ex), Retry(h)
  PROVE  \E list \in Seq(Todos) : Then(h, list)
<1> DEFINE i == [Item(h) EXCEPT !.op = "place", !.qty = Owed(Item(h)), !.less = {}, !.try = @ + 1]
           j == [op |-> "emergency", qty |-> Item(h).all]
<1>1. PICK q \in Nat : q = Owed(Item(h))
  BY OwedIs
<1>2. PICK op \in {"place", "constraint", "insert"}, g \in Groups, n \in Nat, s \in SUBSET DOMAIN rows,
           l \in Nat, a \in Nat, t \in Nat, k \in Nat, legs \in LegLists :
             Item(h) = [op |-> op, group |-> g, qty |-> n, less |-> s, levels |-> l, all |-> a, try |-> t,
                        ticket |-> k, legs |-> legs]
  BY DEF PlaceItems
<1>3. PICK x : x = Item(h)
  OBVIOUS
<1>4. PICK w : w = [x EXCEPT !.op = "place", !.qty = q, !.less = {}, !.try = t + 1]
  OBVIOUS
<1>5. w = [op |-> "place", group |-> g, qty |-> q, less |-> {}, levels |-> l, all |-> a, try |-> t + 1,
           ticket |-> k, legs |-> legs]
  <2>1. x = [op |-> op, group |-> g, qty |-> n, less |-> s, levels |-> l, all |-> a, try |-> t,
             ticket |-> k, legs |-> legs]
    BY <1>2, <1>3
  <2> QED
    BY <1>4, <2>1
<1>6. w \in PlaceItems(DOMAIN rows, ex)
  <2>1. t + 1 \in Nat /\ {} \in SUBSET DOMAIN rows
    OBVIOUS
  <2> QED
    BY <1>5, <2>1, PlaceItemMade
<1>7. i = w
  <2>1. x.try = t
    BY <1>2, <1>3
  <2> QED
    BY <1>1, <1>3, <1>4, <2>1
<1>8. j \in SizeItems
  <2>1. Item(h).all = a
    BY <1>2
  <2> QED
    BY <2>1 DEF SizeItems
<1>9. i \in Todos /\ j \in Todos
  <2> HIDE DEF i, j
  <2> QED BY <1>6, <1>7, <1>8, ItemsAre DEF Todos
<1>10. Then(h, <<i>>) \/ Then(h, <<j>>)
  BY DEF Retry
<1> HIDE DEF i, j
<1>11. <<i>> \in Seq(Todos) /\ <<j>> \in Seq(Todos)
  BY <1>9, OneItem
<1> QED
  BY <1>10, <1>11

LEMMA RowIsMade ==
  ASSUME NEW g \in Groups, NEW q \in Nat, NEW l \in Nat, NEW k \in BOOLEAN, NEW o, NEW x,
         NEW n \in Nat, ExchangeOK(x, n), k => o \in DOMAIN x
  PROVE  OrderRow(g, q, l, k) \in OrderRows /\ Behind(OrderRow(g, q, l, k), o, x)
<1>1. PICK w : w = OrderRow(g, q, l, k)
  OBVIOUS
<1>2. w = [group |-> g, qty |-> q, levels |-> l, id |-> k, done |-> 0, used |-> 0, open |-> TRUE]
  BY <1>1 DEF OrderRow
<1>3. w \in OrderRows
  BY <1>2 DEF OrderRows
<1>4. DoneOf(o, x) \in Nat
  <2>1. \A p \in DOMAIN x : x[p] \in Orders
    BY DEF ExchangeOK
  <2>2. \A p \in DOMAIN x : x[p].done \in Nat
    BY <2>1, OrderIs
  <2> QED
    BY <2>2 DEF DoneOf
<1>5. Behind(w, o, x)
  BY <1>2, <1>4 DEF Behind
<1> QED
  BY <1>1, <1>3, <1>5

\* An order gets a row.
LEMMA RowAdded ==
  ASSUME TypeInv, ExchangeInv', bought' = bought, Later(ex, ex', tickets), tickets <= tickets',
         NEW o \in Ids(tickets'), Tidy((DOMAIN rows \cup DOMAIN ex') \cup {o}),
         NEW row \in OrderRows, Behind(row, o, ex'), rows' = Put(rows, {o}, row)
  PROVE  RowsInv' /\ Todos \subseteq Todos' /\ o \in DOMAIN rows'
<1>1. PICK y : y = ex'
  OBVIOUS
<1>2. PICK m \in Nat : m = tickets'
  BY DEF ExchangeInv
<1>3. tickets \in Nat /\ tickets <= m /\ ExchangeOK(ex, tickets) /\ ExchangeOK(y, m) /\ Later(ex, y, tickets)
  BY <1>1, <1>2 DEF TypeInv, ExchangeInv
<1>4. \A p \in DOMAIN rows : rows[p] \in OrderRows /\ Behind(rows[p], p, y)
  <2>1. \A p \in DOMAIN rows : rows[p] \in OrderRows /\ Behind(rows[p], p, ex) /\ p \in Ids(tickets)
    BY DEF TypeInv, RowsInv
  <2> QED
    BY <1>2, <1>3, <2>1, BehindGrows
<1>5. PICK f : f = Put(rows, {o}, row)
  OBVIOUS
<1>6. DOMAIN f = DOMAIN rows \cup {o} /\ f[o] = row /\ (\A p \in DOMAIN rows \ {o} : f[p] = rows[p])
      /\ f = [p \in DOMAIN f |-> f[p]]
  BY <1>5 DEF Put
<1>7. \A p \in DOMAIN f : f[p] \in OrderRows /\ Behind(f[p], p, y)
  BY <1>1, <1>4, <1>6
<1>8. f \in [DOMAIN f -> OrderRows]
  BY <1>6, <1>7
<1>9. DOMAIN f \subseteq Ids(m)
  BY <1>2, <1>3, <1>6 DEF TypeInv, RowsInv, Ids
<1>10. Tidy(DOMAIN f \cup DOMAIN y)
  <2>1. DOMAIN f \cup DOMAIN y = (DOMAIN rows \cup DOMAIN y) \cup {o}
    BY <1>6
  <2> QED
    BY <1>1, <2>1
<1>11. RowsInv'
  BY <1>1, <1>2, <1>5, <1>7, <1>8, <1>9, <1>10 DEF RowsInv
<1>12. DOMAIN rows \subseteq DOMAIN rows' /\ o \in DOMAIN rows'
  BY <1>5, <1>6
<1>13. Todos \subseteq Todos'
  BY <1>12, TodosGrow
<1> QED
  BY <1>11, <1>12, <1>13

\* One item more for a step that leaves the lists' shapes alone.
LEMMA GrowOne ==
  ASSUME TypeInv, Todos \subseteq Todos', NEW h \in Handlers, Busy(h), NEW i, i \in Todos', Then(h, <<i>>)
  PROVE  TodoInv'
<1>1. PICK T : T = Todos'
  OBVIOUS
<1>2. <<i>> \in Seq(T)
  BY <1>1, OneItem
<1> QED
  BY <1>1, <1>2, GrowList

\* After an exception nothing is left on the list.
LEMMA GrowThrow ==
  ASSUME TypeInv, Todos \subseteq Todos', NEW h \in Handlers, Throw(h)
  PROVE  TodoInv' /\ up' \in Ups
<1>1. Begin(h, <<>>) /\ up' \in Ups
  BY ThrowIs DEF TypeInv
<1>2. <<>> \in Seq(Todos')
  BY EmptySeq
<1> QED
  BY <1>1, <1>2, GrowBegin

LEMMA GrowRetry ==
  ASSUME TypeInv, Todos \subseteq Todos', NEW h \in Handlers, Busy(h), Item(h) \in PlaceItems(DOMAIN rows, ex), Retry(h)
  PROVE  TodoInv'
<1>1. PICK list \in Seq(Todos) : Then(h, list)
  BY RetryIs
<1>2. PICK T : T = Todos'
  OBVIOUS
<1>3. list \in Seq(T)
  <2>1. Todos \subseteq T
    BY <1>2
  <2> HIDE DEF Todos
  <2> QED BY <2>1, SeqMonotonic
<1> QED
  BY <1>1, <1>2, <1>3, GrowList

LEMMA PlaceListTypes == ASSUME TypeInv, NEW h \in Handlers, PlaceList(h) PROVE TypeInv'
<1> DEFINE item == Item(h)
           qty == Owed(item)
           put == [item EXCEPT !.op = "insert", !.qty = qty, !.less = {},
                               !.ticket = tickets', !.legs = <<"limit", "stop">>]
           barred == [item EXCEPT !.op = "constraint", !.qty = qty, !.less = {}]
           placed == qty <= Free /\ ex' = PlaceOco(ex, tickets + 1, qty) /\ tickets' = tickets + 1
           still == ex' = ex /\ tickets' = tickets
<1>1. bought' = bought /\ rows' = rows /\ UNCHANGED <<notes, bought>> /\ up' = up
  BY DEF PlaceList, tables, memory, notes
<1>2. Busy(h) /\ Item(h).op = "place"
  BY DEF PlaceList, At
<1>3. item \in PlaceItems(DOMAIN rows, ex)
  <2>1. Item(h) \in Items(DOMAIN rows, ex, bought)
    BY HeadOf DEF PlaceList
  <2> QED
    BY <1>2, <2>1, ItemIs
<1>4. qty \in Nat
  <2> HIDE DEF item
  <2> QED BY <1>3, OwedIs
<1>5. \/ Then(h, <<>>) /\ still
      \/ placed /\ Then(h, <<put>>)
      \/ Retry(h) /\ (placed \/ still)
      \/ Then(h, <<barred>>) /\ still
  BY DEF PlaceList
<1>6. PICK op \in {"place", "constraint", "insert"}, g \in Groups, n \in Nat, s \in SUBSET DOMAIN rows,
           l \in Nat, a \in Nat, t \in Nat, k \in Nat, legs \in LegLists :
             item = [op |-> op, group |-> g, qty |-> n, less |-> s, levels |-> l, all |-> a, try |-> t,
                     ticket |-> k, legs |-> legs]
  <2> HIDE DEF item
  <2> QED BY <1>3 DEF PlaceItems
<1>7. PICK x : x = item
  OBVIOUS
<1>8. PICK q \in Nat : q = qty
  BY <1>4
<1>9. barred \in Todos
  <2>1. PICK w : w = [x EXCEPT !.op = "constraint", !.qty = q, !.less = {}]
    OBVIOUS
  <2>2. w = [op |-> "constraint", group |-> g, qty |-> q, less |-> {}, levels |-> l, all |-> a, try |-> t,
             ticket |-> k, legs |-> legs]
    <3> HIDE DEF item, qty
    <3> QED BY <1>6, <1>7, <2>1
  <2>3. w \in PlaceItems(DOMAIN rows, ex)
    <3>1. {} \in SUBSET DOMAIN rows
      OBVIOUS
    <3> QED
      BY <2>2, <3>1, PlaceItemMade
  <2>4. barred = w
    BY <1>7, <1>8, <2>1
  <2> QED
    BY <2>3, <2>4, ItemsAre DEF Todos
<1>10. ASSUME placed
       PROVE  ExchangeInv' /\ RowsInv' /\ Todos \subseteq Todos' /\ put \in Todos'
  <2>1. /\ ExchangeInv' /\ RowsInv' /\ Todos \subseteq Todos'
        /\ <<tickets + 1, "limit">> \in DOMAIN ex' /\ <<tickets + 1, "stop">> \in DOMAIN ex'
    <3> HIDE DEF qty
    <3> QED BY <1>1, <1>4, <1>10, ListPlaced
  <2>2. PICK m \in Nat : m = tickets' /\ m = tickets + 1
    BY <1>10 DEF TypeInv, ExchangeInv
  <2>3. PICK D : D = DOMAIN rows'
    OBVIOUS
  <2>4. PICK y : y = ex'
    OBVIOUS
  <2>5. PICK w : w = [x EXCEPT !.op = "insert", !.qty = q, !.less = {}, !.ticket = m, !.legs = <<"limit", "stop">>]
    OBVIOUS
  <2>6. w = [op |-> "insert", group |-> g, qty |-> q, less |-> {}, levels |-> l, all |-> a, try |-> t,
             ticket |-> m, legs |-> <<"limit", "stop">>]
    <3> HIDE DEF item, qty
    <3> QED BY <1>6, <1>7, <2>5
  <2>7. w \in PlaceItems(D, y)
    <3>1. {} \in SUBSET D /\ <<"limit", "stop">> \in LegLists /\ <<"limit", "stop">> # <<>>
      BY DEF LegLists
    <3>2. \A j \in DOMAIN <<"limit", "stop">> : <<m, <<"limit", "stop">>[j]>> \in DOMAIN y
      BY <2>1, <2>2, <2>4
    <3> QED
      BY <2>6, <3>1, <3>2, PlaceItemMade
  <2>8. put = w
    BY <1>7, <1>8, <2>2, <2>5
  <2>9. put \in Todos'
    <3> HIDE DEF put
    <3> QED BY <2>3, <2>4, <2>7, <2>8, ItemsAre DEF Todos
  <2> QED
    BY <2>1, <2>9
<1>11. ASSUME still PROVE ExchangeInv' /\ RowsInv' /\ Todos \subseteq Todos'
  <2>1. UNCHANGED books /\ ExchangeInv /\ RowsInv
    BY <1>1, <1>11 DEF TypeInv, books
  <2> QED
    BY <2>1, SameBooks
<1> HIDE DEF placed, still, put, barred, item, qty
<1>12. ExchangeInv' /\ RowsInv' /\ Todos \subseteq Todos'
  BY <1>5, <1>10, <1>11
<1>13. TodoInv'
  <2>1. CASE Then(h, <<>>)
    <3>1. <<>> \in Seq(Todos')
      BY EmptySeq
    <3> QED
      BY <1>2, <1>12, <2>1, <3>1, GrowList
  <2>2. CASE placed /\ Then(h, <<put>>)
    BY <1>2, <1>10, <1>12, <2>2, GrowOne
  <2>3. CASE Retry(h)
    <3>1. Item(h) \in PlaceItems(DOMAIN rows, ex)
      BY <1>3 DEF item
    <3> QED
      BY <1>2, <1>12, <2>3, <3>1, GrowRetry
  <2>4. CASE Then(h, <<barred>>)
    <3>1. barred \in Todos'
      BY <1>9, <1>12
    <3> QED
      BY <1>2, <1>12, <2>4, <3>1, GrowOne
  <2> QED
    BY <1>5, <2>1, <2>2, <2>3, <2>4
<1>14. MemoryInv'
  BY <1>1, SameNotes DEF TypeInv, MemoryInv
<1> QED
  BY <1>12, <1>13, <1>14 DEF TypeInv

LEMMA LegsAre ==
  ASSUME NEW legs \in LegLists, legs # <<>>
  PROVE  /\ 1 \in DOMAIN legs /\ Head(legs) = legs[1] /\ Head(legs) \in {"limit", "stop"}
         /\ Len(legs) = 1 \/ (2 \in DOMAIN legs /\ legs[2] = "stop" /\ Tail(legs) = <<"stop">>)
<1>1. CASE legs = <<"stop">>
  <2>1. Len(legs) = 1 /\ 1 \in DOMAIN legs /\ Head(legs) = "stop" /\ legs[1] = "stop"
    BY <1>1
  <2> QED
    BY <2>1
<1>2. CASE legs = <<"limit", "stop">>
  <2>1. 1 \in DOMAIN legs /\ Head(legs) = "limit" /\ legs[1] = "limit"
    BY <1>2
  <2>2. 2 \in DOMAIN legs /\ legs[2] = "stop"
    BY <1>2
  <2>3. Tail(legs) = <<"stop">>
    BY <1>2
  <2> QED
    BY <2>1, <2>2, <2>3
<1> QED
  BY <1>1, <1>2 DEF LegLists

LEMMA InsertTypes == ASSUME TypeInv, NEW h \in Handlers, Insert(h) PROVE TypeInv'
<1> DEFINE item == Item(h)
           o == <<item.ticket, Head(item.legs)>>
           row == OrderRow(item.group, item.qty, item.levels, TRUE)
           next == [item EXCEPT !.legs = Tail(@)]
<1>1. UNCHANGED <<ex, bought, tickets>> /\ UNCHANGED <<notes, bought>> /\ up' = up
  BY DEF Insert, exchange, memory, notes
<1>2. Busy(h) /\ Item(h).op = "insert" /\ rows' = Put(rows, {o}, row)
      /\ ((Len(item.legs) = 1 /\ Then(h, <<>>)) \/ (Len(item.legs) # 1 /\ Then(h, <<next>>)))
  BY DEF Insert, At
<1>3. item \in PlaceItems(DOMAIN rows, ex)
  <2>1. Item(h) \in Items(DOMAIN rows, ex, bought)
    BY HeadOf DEF Insert
  <2> QED
    BY <1>2, <2>1, ItemIs
<1>4. PICK g \in Groups, n \in Nat, s \in SUBSET DOMAIN rows,
           l \in Nat, a \in Nat, t \in Nat, k \in Nat, legs \in LegLists :
             item = [op |-> "insert", group |-> g, qty |-> n, less |-> s, levels |-> l, all |-> a, try |-> t,
                     ticket |-> k, legs |-> legs]
  <2>1. item.op = "insert"
    BY <1>2
  <2> HIDE DEF item
  <2> QED BY <1>3, <2>1 DEF PlaceItems
<1>5. legs # <<>> /\ \A j \in DOMAIN legs : <<k, legs[j]>> \in DOMAIN ex
  <2>1. item.legs # <<>> /\ \A j \in DOMAIN item.legs : <<item.ticket, item.legs[j]>> \in DOMAIN ex
    <3>1. item.op = "insert"
      BY <1>2
    <3> HIDE DEF item
    <3> QED BY <1>3, <3>1 DEF PlaceItems
  <2> HIDE DEF item
  <2> QED
    BY <1>4, <2>1
<1>6. o = <<k, legs[1]>> /\ o \in DOMAIN ex
  <2>1. 1 \in DOMAIN legs /\ Head(legs) = legs[1]
    BY <1>5, LegsAre
  <2>2. item.ticket = k /\ item.legs = legs
    <3> HIDE DEF item
    <3> QED BY <1>4
  <2> HIDE DEF item
  <2> QED
    BY <1>5, <2>1, <2>2
<1>7. tickets \in Nat /\ ExchangeOK(ex, tickets) /\ DOMAIN ex \subseteq Ids(tickets) /\ Tidy(DOMAIN rows \cup DOMAIN ex)
  BY DEF TypeInv, ExchangeInv, ExchangeOK, RowsInv
<1>8. row \in OrderRows /\ Behind(row, o, ex)
  <2>1. item.group = g /\ item.qty = n /\ item.levels = l
    <3> HIDE DEF item
    <3> QED BY <1>4
  <2> HIDE DEF item, o
  <2> QED
    BY <1>6, <1>7, <2>1, RowIsMade
<1> HIDE DEF o, row
<1>9. ExchangeInv'
  BY <1>1 DEF TypeInv, ExchangeInv
<1>10. Later(ex, ex', tickets) /\ tickets <= tickets' /\ o \in Ids(tickets') /\ Behind(row, o, ex')
       /\ Tidy((DOMAIN rows \cup DOMAIN ex') \cup {o})
  <2>1. Later(ex, ex, tickets)
    BY <1>7, LaterSame
  <2>2. (DOMAIN rows \cup DOMAIN ex) \cup {o} = DOMAIN rows \cup DOMAIN ex
    BY <1>6
  <2> QED
    BY <1>1, <1>6, <1>7, <1>8, <2>1, <2>2
<1>11. RowsInv' /\ Todos \subseteq Todos' /\ o \in DOMAIN rows'
  BY <1>1, <1>2, <1>8, <1>9, <1>10, RowAdded
<1>12. ASSUME Len(item.legs) # 1 PROVE next \in Todos
  <2>1. item.legs = legs
    <3> HIDE DEF item
    <3> QED BY <1>4
  <2>2. 2 \in DOMAIN legs /\ legs[2] = "stop" /\ Tail(legs) = <<"stop">>
    BY <1>5, <1>12, <2>1, LegsAre
  <2>3. PICK x : x = item
    OBVIOUS
  <2>4. PICK w : w = [x EXCEPT !.legs = <<"stop">>]
    OBVIOUS
  <2>5. w = [op |-> "insert", group |-> g, qty |-> n, less |-> s, levels |-> l, all |-> a, try |-> t,
             ticket |-> k, legs |-> <<"stop">>]
    <3> HIDE DEF item
    <3> QED BY <1>4, <2>3, <2>4
  <2>6. w \in PlaceItems(DOMAIN rows, ex)
    <3>1. <<"stop">> \in LegLists /\ <<"stop">> # <<>>
      BY DEF LegLists
    <3>2. <<k, "stop">> \in DOMAIN ex
      BY <1>5, <2>2
    <3>3. \A j \in DOMAIN <<"stop">> : <<k, <<"stop">>[j]>> \in DOMAIN ex
      BY <3>2
    <3>4. "insert" \in {"place", "constraint", "insert"}
      OBVIOUS
    <3> QED
      BY <2>5, <3>1, <3>3, <3>4, PlaceItemMade
  <2>7. next = w
    BY <2>1, <2>2, <2>3, <2>4
  <2> QED
    BY <2>6, <2>7, ItemsAre DEF Todos
<1>13. TodoInv'
  <2>1. CASE Then(h, <<>>)
    <3>1. <<>> \in Seq(Todos')
      BY EmptySeq
    <3> QED
      BY <1>2, <1>11, <2>1, <3>1, GrowList
  <2>2. CASE Len(item.legs) # 1 /\ Then(h, <<next>>)
    <3>1. next \in Todos'
      BY <1>11, <1>12, <2>2
    <3> HIDE DEF next, item
    <3> QED BY <1>2, <1>11, <2>2, <3>1, GrowOne
  <2> QED
    BY <1>2, <2>1, <2>2
<1>14. MemoryInv'
  BY <1>1, SameNotes DEF TypeInv, MemoryInv
<1> QED
  BY <1>9, <1>11, <1>13, <1>14 DEF TypeInv

LEMMA ConstraintTypes == ASSUME TypeInv, NEW h \in Handlers, Constraint(h) PROVE TypeInv'
<1> DEFINE item == Item(h)
           sell == [op |-> "sell", qty |-> item.qty, use |-> "account later"]
           put == [item EXCEPT !.op = "insert", !.group = "stop_only", !.ticket = tickets', !.legs = <<"stop">>]
           placed == item.qty <= Free /\ ex' = PlaceStop(ex, tickets + 1, item.qty) /\ tickets' = tickets + 1
           still == ex' = ex /\ tickets' = tickets
<1>1. bought' = bought /\ rows' = rows /\ UNCHANGED <<notes, bought>>
  BY DEF Constraint, tables, notes
<1>2. Busy(h) /\ Item(h).op = "constraint"
  BY DEF Constraint, At
<1>3. item \in PlaceItems(DOMAIN rows, ex)
  <2>1. Item(h) \in Items(DOMAIN rows, ex, bought)
    BY HeadOf DEF Constraint
  <2> QED
    BY <1>2, <2>1, ItemIs
<1>4. PICK op \in {"place", "constraint", "insert"}, g \in Groups, n \in Nat, s \in SUBSET DOMAIN rows,
           l \in Nat, a \in Nat, t \in Nat, k \in Nat, legs \in LegLists :
             item = [op |-> op, group |-> g, qty |-> n, less |-> s, levels |-> l, all |-> a, try |-> t,
                     ticket |-> k, legs |-> legs]
  <2> HIDE DEF item
  <2> QED BY <1>3 DEF PlaceItems
<1>5. item.qty = n
  <2> HIDE DEF item
  <2> QED BY <1>4
<1>6. \/ Then(h, <<sell>>) /\ still /\ up' = up
      \/ placed /\ ((Then(h, <<put>>) /\ up' = up) \/ Throw(h))
      \/ Throw(h) /\ still
  BY DEF Constraint
<1>7. ASSUME placed
      PROVE  ExchangeInv' /\ RowsInv' /\ Todos \subseteq Todos' /\ put \in Todos'
  <2>1. PICK v : v = Resting(n)
    OBVIOUS
  <2>2. v \in Orders /\ v.qty = n
    BY <2>1 DEF Resting, Orders
  <2>3. ex' = Put(ex, {<<tickets + 1, "stop">>}, v) /\ tickets' = tickets + 1 /\ v.qty <= Free
    BY <1>5, <1>7, <2>1, <2>2 DEF PlaceStop
  <2>4. "stop" \in Legs
    BY DEF Legs
  <2>5. /\ ExchangeInv' /\ Later(ex, ex', tickets) /\ Tidy(DOMAIN rows \cup DOMAIN ex')
        /\ <<tickets + 1, "stop">> \in DOMAIN ex'
    <3> HIDE DEF placed
    <3> QED BY <1>1, <2>2, <2>3, <2>4, OnePlaced
  <2>6. RowsInv' /\ Todos \subseteq Todos'
    <3> HIDE DEF placed
    <3> QED BY <1>1, <2>3, <2>5, PlacedOnly
  <2>7. PICK m \in Nat : m = tickets' /\ m = tickets + 1
    BY <2>3 DEF TypeInv, ExchangeInv
  <2>8. PICK D : D = DOMAIN rows'
    OBVIOUS
  <2>9. PICK y : y = ex'
    OBVIOUS
  <2>10. PICK x : x = item
    OBVIOUS
  <2>11. PICK w : w = [x EXCEPT !.op = "insert", !.group = "stop_only", !.ticket = m, !.legs = <<"stop">>]
    OBVIOUS
  <2>12. w = [op |-> "insert", group |-> "stop_only", qty |-> n, less |-> s, levels |-> l, all |-> a, try |-> t,
              ticket |-> m, legs |-> <<"stop">>]
    <3> HIDE DEF item, placed
    <3> QED BY <1>4, <2>10, <2>11
  <2>13. w \in PlaceItems(D, y)
    <3>1. s \in SUBSET D
      <4>1. DOMAIN rows' = DOMAIN rows
        BY <1>1
      <4> QED
        BY <2>8, <4>1
    <3>2. <<"stop">> \in LegLists /\ <<"stop">> # <<>> /\ "stop_only" \in Groups
          /\ "insert" \in {"place", "constraint", "insert"}
      BY DEF LegLists, Groups
    <3>3. \A j \in DOMAIN <<"stop">> : <<m, <<"stop">>[j]>> \in DOMAIN y
      BY <2>5, <2>7, <2>9
    <3> QED
      BY <2>12, <3>1, <3>2, <3>3, PlaceItemMade
  <2>14. put = w
    BY <2>7, <2>10, <2>11
  <2>15. put \in Todos'
    <3> HIDE DEF put
    <3> QED BY <2>8, <2>9, <2>13, <2>14, ItemsAre DEF Todos
  <2> QED
    BY <2>5, <2>6, <2>15
<1>8. ASSUME still PROVE ExchangeInv' /\ RowsInv' /\ Todos \subseteq Todos'
  <2>1. UNCHANGED books /\ ExchangeInv /\ RowsInv
    BY <1>1, <1>8 DEF TypeInv, books
  <2> QED
    BY <2>1, SameBooks
<1>9. sell \in Todos
  <2>1. sell \in SellItems
    <3> HIDE DEF item
    <3> QED BY <1>5 DEF SellItems, Uses
  <2> QED
    BY <2>1, ItemsAre DEF Todos
<1> HIDE DEF placed, still, put, sell, item
<1>10. ExchangeInv' /\ RowsInv' /\ Todos \subseteq Todos'
  BY <1>6, <1>7, <1>8
<1>11. TodoInv' /\ up' \in Ups
  <2>0. up \in Ups
    BY DEF TypeInv, MemoryInv
  <2>1. CASE Then(h, <<sell>>) /\ up' = up
    <3>1. sell \in Todos'
      BY <1>9, <1>10
    <3>2. TodoInv'
      BY <1>2, <1>10, <2>1, <3>1, GrowOne
    <3> QED
      BY <2>0, <2>1, <3>2
  <2>2. CASE placed /\ Then(h, <<put>>) /\ up' = up
    <3>1. TodoInv'
      BY <1>2, <1>7, <1>10, <2>2, GrowOne
    <3> QED
      BY <2>0, <2>2, <3>1
  <2>3. CASE Throw(h)
    BY <1>10, <2>3, GrowThrow
  <2> QED
    BY <1>6, <2>1, <2>2, <2>3
<1>12. MemoryInv'
  BY <1>1, <1>11, SameNotes DEF TypeInv
<1> QED
  BY <1>10, <1>11, <1>12 DEF TypeInv

LEMMA SellAtMarketTypes == ASSUME TypeInv, NEW h \in Handlers, SellAtMarket(h) PROVE TypeInv'
<1> DEFINE item == Item(h)
           id == <<tickets + 1, "market">>
           row == OrderRow("market_exit", item.qty, 0, FALSE)
           v == Done(item.qty)
           done == [op |-> "sold", qty |-> item.qty, use |-> item.use, id |-> id]
           sold == item.qty <= Free /\ ex' = Put(ex, {id}, v)
           kept == tickets' = tickets + 1 /\ rows' = Put(rows, {id}, row)
<1>1. bought' = bought /\ UNCHANGED <<notes, bought>>
  BY DEF SellAtMarket, notes
<1>2. Busy(h) /\ Item(h).op = "sell"
  BY DEF SellAtMarket, At
<1>3. item.qty \in Nat /\ item.use \in Uses
  <2>1. Item(h) \in Items(DOMAIN rows, ex, bought)
    BY HeadOf DEF SellAtMarket
  <2>2. Item(h) \in SellItems
    BY <1>2, <2>1, ItemIs
  <2> QED
    BY <2>2 DEF SellItems
<1>4. \/ sold /\ kept /\ Then(h, <<done>>) /\ up' = up
      \/ Throw(h) /\ UNCHANGED <<ex, tickets, rows>>
      \/ Throw(h) /\ kept /\ (sold \/ ex' = ex)
  BY DEF SellAtMarket, MarketSell
<1>5. tickets \in Nat /\ tickets + 1 \in Nat /\ ExchangeOK(ex, tickets) /\ DOMAIN ex \subseteq Ids(tickets)
      /\ DOMAIN rows \subseteq Ids(tickets) /\ Tidy(DOMAIN rows \cup DOMAIN ex)
  BY DEF TypeInv, ExchangeInv, ExchangeOK, RowsInv
<1>6. v \in Orders /\ v.qty = item.qty /\ v.done = item.qty /\ ~v.open
  <2> HIDE DEF item
  <2> QED BY <1>3 DEF Done, Orders
<1>7. id[1] = tickets + 1 /\ id \in Ids(tickets + 1) /\ id \notin Ids(tickets) /\ "market" \in Legs
  BY <1>5, IdsGrow DEF Legs
<1>8. Tidy((DOMAIN rows \cup DOMAIN ex) \cup {id})
  <2>1. DOMAIN rows \cup DOMAIN ex \subseteq Ids(tickets)
    BY <1>5
  <2>2. (\A o \in {id} : o[1] = tickets + 1) /\ (\A o, p \in {id} : o[2] = "market" <=> p[2] = "market")
    BY <1>7
  <2> HIDE DEF id
  <2> QED BY <1>5, <2>1, <2>2, TidyGrows
<1>9. ASSUME sold, kept
      PROVE  /\ ExchangeInv' /\ Later(ex, ex', tickets) /\ Tidy((DOMAIN rows \cup DOMAIN ex') \cup {id})
             /\ id \in DOMAIN ex' /\ ex'[id] = v
  <2>1. v.qty <= Free
    <3> HIDE DEF v, item
    <3> QED BY <1>6, <1>9
  <2>2. /\ ExchangeInv' /\ Later(ex, ex', tickets) /\ Tidy(DOMAIN rows \cup DOMAIN ex')
        /\ id \in DOMAIN ex'
    <3>1. ex' = Put(ex, {<<tickets + 1, "market">>}, v) /\ tickets' = tickets + 1
      BY <1>9
    <3> HIDE DEF v, sold, kept
    <3> QED BY <1>1, <1>6, <1>7, <2>1, <3>1, OnePlaced
  <2>3. (DOMAIN rows \cup DOMAIN ex') \cup {id} = DOMAIN rows \cup DOMAIN ex'
    <3> HIDE DEF id
    <3> QED BY <2>2
  <2>4. ex'[id] = v
    <3>1. ex' = Put(ex, {id}, v)
      BY <1>9
    <3> HIDE DEF id, v
    <3> QED BY <3>1 DEF Put
  <2> HIDE DEF id, v
  <2> QED BY <2>2, <2>3, <2>4
<1>10. ASSUME ex' = ex, kept
       PROVE  ExchangeInv' /\ Later(ex, ex', tickets) /\ Tidy((DOMAIN rows \cup DOMAIN ex') \cup {id})
  <2>1. ExchangeOK(ex, tickets + 1)
    <3>1. Ids(tickets) \subseteq Ids(tickets + 1)
      BY <1>5, IdsGrow
    <3> QED
      BY <1>5, <3>1 DEF ExchangeOK
  <2>2. Later(ex, ex, tickets)
    BY <1>5, LaterSame
  <2>3. tickets' = tickets + 1
    BY <1>10
  <2> HIDE DEF id, kept
  <2> QED BY <1>1, <1>5, <1>8, <1>10, <2>1, <2>2, <2>3 DEF TypeInv, ExchangeInv
<1>11. ASSUME kept, sold \/ ex' = ex
       PROVE  ExchangeInv' /\ RowsInv' /\ Todos \subseteq Todos' /\ id \in DOMAIN rows'
  <2>1. ExchangeInv' /\ Later(ex, ex', tickets) /\ Tidy((DOMAIN rows \cup DOMAIN ex') \cup {id})
    <3> HIDE DEF id, sold, kept
    <3> QED BY <1>9, <1>10, <1>11
  <2>2. tickets' = tickets + 1 /\ rows' = Put(rows, {id}, row)
    BY <1>11
  <2>3. row \in OrderRows /\ Behind(row, id, ex')
    <3>1. PICK y : y = ex'
      OBVIOUS
    <3>2. PICK m \in Nat : m = tickets'
      BY <2>1 DEF ExchangeInv
    <3>3. ExchangeOK(y, m)
      BY <2>1, <3>1, <3>2 DEF ExchangeInv
    <3>4. row \in OrderRows /\ Behind(row, id, y)
      <4>1. "market_exit" \in Groups /\ 0 \in Nat
        BY DEF Groups
      <4> HIDE DEF item, id
      <4> QED BY <1>3, <3>2, <3>3, <4>1, RowIsMade
    <3> HIDE DEF row, id
    <3> QED BY <3>1, <3>4
  <2>4. tickets <= tickets' /\ id \in Ids(tickets')
    <3> HIDE DEF id
    <3> QED BY <1>5, <1>7, <2>2
  <2> HIDE DEF id, row, kept, sold
  <2> QED BY <1>1, <2>1, <2>2, <2>3, <2>4, RowAdded
<1>12. ASSUME sold, kept PROVE done \in Todos'
  <2>1. id \in DOMAIN rows' \cap DOMAIN ex' /\ ex'[id] = v
    <3> HIDE DEF id, v, sold, kept
    <3> QED BY <1>9, <1>11, <1>12
  <2>2. PICK y : y = ex'
    OBVIOUS
  <2>3. PICK D : D = DOMAIN rows'
    OBVIOUS
  <2>4. item.qty = y[id].done /\ id \notin OpenOrders(y)
    <3> HIDE DEF id, v, item
    <3> QED BY <1>6, <2>1, <2>2 DEF OpenOrders
  <2>5. done \in SoldItems(D, y)
    <3> HIDE DEF id, item, v
    <3> QED BY <1>3, <2>1, <2>2, <2>3, <2>4 DEF SoldItems
  <2> HIDE DEF done
  <2> QED BY <2>2, <2>3, <2>5, ItemsAre DEF Todos
<1> HIDE DEF id, row, v, done, sold, kept, item
<1>13. ExchangeInv' /\ RowsInv' /\ Todos \subseteq Todos'
  <2>1. CASE UNCHANGED <<ex, tickets, rows>>
    <3>1. UNCHANGED books /\ ExchangeInv /\ RowsInv
      BY <1>1, <2>1 DEF TypeInv, books
    <3> QED
      BY <3>1, SameBooks
  <2>2. CASE kept /\ (sold \/ ex' = ex)
    BY <1>11, <2>2
  <2> QED
    BY <1>4, <2>1, <2>2
<1>14. TodoInv' /\ up' \in Ups
  <2>1. CASE sold /\ kept /\ Then(h, <<done>>) /\ up' = up
    <3>1. TodoInv'
      BY <1>2, <1>12, <1>13, <2>1, GrowOne
    <3> QED
      BY <2>1, <3>1 DEF TypeInv, MemoryInv
  <2>2. CASE Throw(h)
    BY <1>13, <2>2, GrowThrow
  <2> QED
    BY <1>4, <2>1, <2>2
<1>15. MemoryInv'
  BY <1>1, <1>14, SameNotes DEF TypeInv
<1> QED
  BY <1>13, <1>14, <1>15 DEF TypeInv

LEMMA BuyTypes == ASSUME TypeInv, NEW h \in Handlers, Buy(h) PROVE TypeInv'
<1>1. UNCHANGED <<ex, tickets, rows>> /\ UNCHANGED <<notes, up>> /\ Busy(h)
  BY DEF Buy, At, tables, memory, notes
<1>2. Qty \in Nat /\ Qty # 0 /\ bought \in {0, Qty}
  BY QuantityAssumption DEF TypeInv, ExchangeInv
<1>3. \/ bought = 0 /\ bought' = Qty /\ Then(h, Recording \o Call("activate"))
      \/ bought = 0 /\ bought' \in {0, Qty} /\ Begin(h, <<>>)
      \/ bought' = bought /\ Begin(h, <<>>)
  BY DEF Buy
<1>4. bought' \in {0, Qty} /\ bought <= bought' /\ (bought = Qty => bought' = Qty)
  BY <1>2, <1>3
<1>5. ExchangeInv'
  <2>1. ExchangeOK(ex, tickets) /\ tickets \in Nat /\ Weights(ex) <= Spare + bought
    BY DEF TypeInv, ExchangeInv
  <2>2. Weights(ex) \in Nat
    BY <2>1, WeightIs
  <2>3. Weights(ex) <= Spare + bought'
    BY <1>2, <1>4, <2>1, <2>2, QuantityAssumption
  <2> QED
    BY <1>1, <1>4, <2>1, <2>3 DEF ExchangeInv
<1>6. Todos \subseteq Todos'
  <2>1. Later(ex, ex', tickets)
    BY <1>1, LaterSame DEF TypeInv, ExchangeInv
  <2> QED
    BY <1>1, <1>4, <1>5, <2>1, TodosGrow
<1>7. RowsInv'
  BY <1>1 DEF TypeInv, RowsInv
<1>8. TodoInv'
  <2>1. CASE bought' = Qty /\ Then(h, Recording \o Call("activate"))
    <3>1. PICK T : T = Todos'
      OBVIOUS
    <3>2. \A op \in AfterBuy : [op |-> op] \in T
      <4>1. \A op \in AfterBuy : [op |-> op] \in CallItems(Qty)
        BY DEF CallItems
      <4>2. PICK D : D = DOMAIN rows'
        OBVIOUS
      <4>3. PICK y : y = ex'
        OBVIOUS
      <4>4. T = Items(D, y, Qty)
        BY <2>1, <3>1, <4>2, <4>3 DEF Todos
      <4> QED
        BY <4>1, <4>4, ItemsAre
    <3>3. Call("entryStatus") \in Seq(T) /\ Call("entryFills") \in Seq(T) /\ Call("activate") \in Seq(T)
      <4>1. [op |-> "entryStatus"] \in T /\ [op |-> "entryFills"] \in T /\ [op |-> "activate"] \in T
        BY <3>2 DEF AfterBuy
      <4> QED
        BY <4>1, OneItem DEF Call
    <3>4. Recording \o Call("activate") \in Seq(T)
      BY <3>3, ConcatProperties DEF Recording
    <3> QED
      BY <1>1, <1>6, <2>1, <3>1, <3>4, GrowList
  <2>2. CASE Begin(h, <<>>)
    <3>1. <<>> \in Seq(Todos')
      BY EmptySeq
    <3> QED
      BY <1>6, <2>2, <3>1, GrowBegin
  <2> QED
    BY <1>3, <2>1, <2>2
<1>9. MemoryInv'
  <2>1. entry' = entry /\ db' = db /\ paused' = paused /\ rec' = rec /\ mapped' = mapped /\ signal' = signal /\ up' = up
    BY <1>1 DEF notes
  <2> QED
    BY <1>4, <2>1 DEF TypeInv, MemoryInv, Paid
<1> QED
  BY <1>5, <1>7, <1>8, <1>9 DEF TypeInv

LEMMA StatementFailsTypes == ASSUME TypeInv, NEW h \in Handlers, StatementFails(h) PROVE TypeInv'
<1>1. UNCHANGED <<books, notes>> /\ Busy(h)
  BY DEF StatementFails, books, notes, exchange, tables
<1>2. \/ Then(h, <<>>) /\ up' = up
      \/ Item(h).op = "insert" /\ Retry(h) /\ up' = up
      \/ Throw(h)
  BY DEF StatementFails
<1>3. CASE Then(h, <<>>) /\ up' = up
  <2>1. <<>> \in Seq(Todos) /\ UNCHANGED <<books, notes, up>>
    BY <1>1, <1>3, EmptySeq
  <2> QED
    BY <1>1, <1>3, <2>1, OnlyList
<1>4. CASE Item(h).op = "insert" /\ Retry(h) /\ up' = up
  <2>1. At(h, "insert")
    BY <1>1, <1>4 DEF At
  <2>2. Item(h) \in PlaceItems(DOMAIN rows, ex)
    <3>1. Item(h) \in Items(DOMAIN rows, ex, bought)
      BY <2>1, HeadOf
    <3> QED
      BY <1>4, <3>1, ItemIs
  <2>3. PICK list \in Seq(Todos) : Then(h, list)
    BY <1>4, <2>2, RetryIs
  <2>4. UNCHANGED <<books, notes, up>>
    BY <1>1, <1>4
  <2> QED
    BY <1>1, <2>3, <2>4, OnlyList
<1>5. CASE Throw(h)
  BY <1>1, <1>5, OnlyThrow
<1> QED
  BY <1>2, <1>3, <1>4, <1>5

-----------------------------------------------------------------------------
(* The theorems                                                            *)

LEMMA InitTypes == ASSUME Init PROVE TypeInv
<1>1. /\ ex = <<>> /\ bought = 0 /\ tickets = 0 /\ rows = <<>> /\ entry = "none" /\ db = NoRow
      /\ paused = FALSE /\ rec = NoRec /\ mapped = FALSE /\ up = "up"
      /\ todo = [h \in Handlers |-> <<>>] /\ signal = "new"
  BY DEF Init
<1>2. DOMAIN ex = {} /\ DOMAIN rows = {}
  BY <1>1
<1>3. ExchangeInv
  <2>1. ex \in [DOMAIN ex -> Orders]
    BY <1>1, <1>2
  <2>2. OpenOrders(ex) = {}
    BY <1>2 DEF OpenOrders
  <2>3. ExchangeOK(ex, tickets)
    BY <1>2, <2>1, <2>2 DEF ExchangeOK
  <2>4. Weights(ex) = 0
    BY <1>2, SumEmpty DEF Weights
  <2> QED
    BY <1>1, <2>3, <2>4, QuantityAssumption DEF ExchangeInv
<1>4. RowsInv
  <2>1. rows \in [DOMAIN rows -> OrderRows]
    BY <1>1, <1>2
  <2> QED
    BY <1>2, <2>1 DEF RowsInv, Tidy
<1>5. MemoryInv
  <2>1. NoRow.state = "none"
    <3>1. PICK r : r = Row(NoRec)
      OBVIOUS
    <3>2. r = [state |-> IF NoRec.live THEN "open" ELSE "closed",
               live |-> NoRec.live, rem |-> NoRec.rem, tp1 |-> NoRec.tp1, levels |-> NoRec.levels]
      BY <3>1 DEF Row
    <3> QED
      BY <3>1, <3>2 DEF NoRow
  <2> QED
    BY <1>1, <2>1, FirstRecords DEF MemoryInv, Paid, Ups
<1>6. TodoInv
  <2>1. <<>> \in Seq(Todos)
    BY EmptySeq
  <2> QED
    BY <1>1, <2>1 DEF TodoInv
<1> QED
  BY <1>3, <1>4, <1>5, <1>6 DEF TypeInv

LEMMA StepTypes == ASSUME TypeInv, NEW h \in Handlers, Step(h) PROVE TypeInv'
<1>1. CASE AdapterStep(h)
  BY <1>1, ProtectReadTypes, CancelTypes, AskTypes, WriteAnswerTypes, WriteTypes, PlaceListTypes, InsertTypes,
     ConstraintTypes, SellAtMarketTypes, RecordSaleTypes, MarkTypes, EmergencyTypes, ForcedCloseTypes,
     StatementFailsTypes
  DEF AdapterStep
<1>2. CASE ManagerStep(h)
  BY <1>2, CloseReadTypes, ConsumeTypes, ShortTypes, SettledTypes, UpdateTypes, FinishTypes, ReleaseTypes, UnmapTypes
  DEF ManagerStep
<1>3. CASE EntryStep(h)
  BY <1>3, LookupTypes, BuyTypes, EntryStatusTypes, EntryFillsTypes, ActivateTypes, OpenedTypes DEF EntryStep
<1>4. CASE ReconcilerStep(h)
  BY <1>4, ListedTypes, CoverageTypes, BootedTypes DEF ReconcilerStep
<1> QED
  BY <1>1, <1>2, <1>3, <1>4 DEF Step

LEMMA NextTypes == ASSUME TypeInv, [Next]_vars PROVE TypeInv'
<1>1. CASE Next
  <2>1. CASE TakeSignal \/ Candle \/ StartReconcile \/ StartPoll \/ EntryReport \/ Crash
    BY <2>1, TakeSignalTypes, CandleTypes, StartReconcileTypes, StartPollTypes, EntryReportTypes, CrashTypes
  <2>2. CASE \E h \in Handlers : Step(h)
    BY <2>2, StepTypes
  <2>3. CASE \E o \in DOMAIN ex : TakeReport(o)
    BY <2>3, TakeReportTypes
  <2>4. CASE \E o \in OpenOrders(ex) : \E k \in 1 .. ex[o].qty - ex[o].done : Fill(o, k)
    BY <2>4, FillTypes
  <2> QED
    BY <1>1, <2>1, <2>2, <2>3, <2>4 DEF Next
<1>2. CASE UNCHANGED vars
  <2>1. UNCHANGED books /\ todo' = todo /\ UNCHANGED <<notes, bought>> /\ up' = up
    BY <1>2 DEF vars, exchange, tables, memory, books, notes
  <2>2. ExchangeInv' /\ RowsInv' /\ TodoInv'
    BY <2>1, StayStep
  <2>3. MemoryInv'
    BY <2>1, SameNotes DEF TypeInv, MemoryInv
  <2> QED
    BY <2>2, <2>3 DEF TypeInv
<1> QED
  BY <1>1, <1>2

LEMMA TypesHold == ASSUME TypeInv PROVE TypeOK
<1>1. tickets \in Nat /\ bought \in Nat /\ ExchangeOK(ex, tickets) /\ Spare \in Nat /\ Weights(ex) <= Spare + bought
  BY QuantityAssumption DEF TypeInv, ExchangeInv
<1>2. \A o \in DOMAIN ex : ex[o].done \in 0 .. ex[o].qty /\ ex[o].open \in BOOLEAN
  <2>1. \A o \in DOMAIN ex : ex[o] \in Orders
    BY <1>1 DEF ExchangeOK
  <2> QED
    BY <2>1, OrderIs
<1>3. DOMAIN rows \subseteq (1 .. tickets) \X Legs
  BY DEF TypeInv, RowsInv, Ids
<1>4. \A o \in DOMAIN rows : rows[o].group \in Groups /\ rows[o].used \in Nat
  <2>1. \A o \in DOMAIN rows : rows[o] \in OrderRows
    BY DEF TypeInv, RowsInv
  <2> QED
    BY <2>1 DEF OrderRows
<1>5. rec \in RecType
  BY DEF TypeInv, MemoryInv, Records
<1>6. Free \in Nat
  <2>1. Free = Spare + bought - Weights(ex) /\ Weights(ex) \in Nat
    BY <1>1, FreeIs, WeightIs
  <2> QED
    BY <1>1, <2>1
<1> QED
  BY <1>1, <1>2, <1>3, <1>4, <1>5, <1>6 DEF TypeInv, MemoryInv, TypeOK, Ups

LEMMA RowsHold == ASSUME TypeInv PROVE RowsTrue
<1>1. \A o \in DOMAIN rows : Behind(rows[o], o, ex)
  BY DEF TypeInv, RowsInv
<1> QED
  BY <1>1 DEF RowsTrue, Behind, DoneOf

LEMMA EntryHolds == ASSUME TypeInv PROVE EntryTrue
BY DEF TypeInv, ExchangeInv, MemoryInv, Paid, EntryTrue

\* Whatever overlaps, fails, is refused, fills in part or dies, the state keeps its
\* shapes, and what the exchange sold and locked together never exceeds what the
\* account holds: consume() never asks for less than nothing, and a placement that was
\* accepted was covered by free coins.
THEOREM TypeCorrect == Spec => []TypeOK
<1>1. Init => TypeInv
  BY InitTypes
<1>2. TypeInv /\ [Next]_vars => TypeInv'
  BY NextTypes
<1>3. TypeInv => TypeOK
  BY TypesHold
<1> QED
  BY <1>1, <1>2, <1>3, PTL DEF Spec

\* Rows are read, kept across awaits and written back whole by the adapter, the
\* reconciler, the poll and the user data stream beside each other, and the one that
\* writes last may undo what another wrote; yet no row ever says that more was
\* executed than was, that more was handed to the manager than was executed, or that
\* an order is done that still rests: whatever overlaps, fails or dies.
THEOREM RowsAreTrue == Spec => []RowsTrue
<1>1. Init => TypeInv
  BY InitTypes
<1>2. TypeInv /\ [Next]_vars => TypeInv'
  BY NextTypes
<1>3. TypeInv => RowsTrue
  BY RowsHold
<1> QED
  BY <1>1, <1>2, <1>3, PTL DEF Spec

\* A signal buys once, however often it is delivered, wherever its handler died and
\* whatever answer was lost, and no row of a position, no filled row of the entry and no
\* record in the map stands for something that was not bought.
THEOREM EntryIsTrue == Spec => []EntryTrue
<1>1. Init => TypeInv
  BY InitTypes
<1>2. TypeInv /\ [Next]_vars => TypeInv'
  BY NextTypes
<1>3. TypeInv => EntryTrue
  BY EntryHolds
<1> QED
  BY <1>1, <1>2, <1>3, PTL DEF Spec
=============================================================================
