------------------------------ MODULE AccountProofs ------------------------------
(***************************************************************************)
(* What position sizing promises for every balance, price and filter, and  *)
(* what the account invariants of Account owe to it.                       *)
(***************************************************************************)
EXTENDS Account, Sums, TLAPS

-----------------------------------------------------------------------------
(* Rounding *)

\* Integer division by a positive number rounds down.
LEMMA DivBounds ==
  ASSUME NEW n \in Nat, NEW d \in Nat \ {0}
  PROVE  /\ n \div d \in Nat
         /\ (n \div d) * d <= n
         /\ n < (n \div d) * d + d
  OBVIOUS

LEMMA ProductPos ==
  ASSUME NEW a \in Nat \ {0}, NEW b \in Nat \ {0}
  PROVE  a * b \in Nat \ {0}
  OBVIOUS

\* precision.ts:32 a quantity is rounded down to the step: what comes out is a whole
\* number of steps, not above the quantity and less than one step below it.
THEOREM QtyRounding ==
  ASSUME NEW num \in Nat, NEW den \in Nat \ {0}, NEW step \in Nat \ {0}
  PROVE  LET qty == RoundQtyDownToStep(num, den, step)
         IN /\ qty \in Nat
            /\ \E k \in Nat : qty = k * step
            /\ qty * den <= num
            /\ num < (qty + step) * den
<1> DEFINE k == num \div (den * step)
<1>1. den * step \in Nat \ {0}
  BY ProductPos
<1>2. k \in Nat /\ k * (den * step) <= num /\ num < k * (den * step) + den * step
  BY <1>1, DivBounds
<1> HIDE DEF k
<1>3. (k * step) * den = k * (den * step) /\ (k * step + step) * den = k * (den * step) + den * step
  BY <1>2
<1>4. k * step \in Nat
  BY <1>2
<1>5. RoundQtyDownToStep(num, den, step) = k * step
  BY DEF RoundQtyDownToStep, k
<1>6. QED
  BY <1>2, <1>3, <1>4, <1>5

\* precision.ts:27 a price is rounded to the nearest tick, half a tick up.
THEOREM PriceRounding ==
  ASSUME NEW num \in Nat, NEW den \in Nat \ {0}, NEW tick \in Nat \ {0}
  PROVE  LET price == RoundPriceToTick(num, den, tick)
         IN /\ \E k \in Nat : price = k * tick
            /\ 2 * (price * den) <= 2 * num + den * tick
            /\ 2 * num < 2 * (price * den) + den * tick
<1> DEFINE w == den * tick
           k == (2 * num + w) \div (2 * w)
<1>1. w \in Nat \ {0}
  BY ProductPos
<1>2. (k * tick) * den = k * w /\ RoundPriceToTick(num, den, tick) = k * tick
  <2>1. k \in Nat
    BY <1>1, DivBounds
  <2>2. RoundPriceToTick(num, den, tick) = k * tick
    BY DEF RoundPriceToTick
  <2> HIDE DEF k
  <2>3. (k * tick) * den = k * (den * tick)
    BY <2>1
  <2>4. QED
    BY <2>2, <2>3
<1>3. k \in Nat /\ k * (2 * w) <= 2 * num + w /\ 2 * num + w < k * (2 * w) + 2 * w
  <2> HIDE DEF w
  <2>1. 2 * num + w \in Nat /\ 2 * w \in Nat \ {0}
    BY <1>1
  <2>2. QED
    BY <2>1, DivBounds
<1> HIDE DEF k, w
<1>4. k * (2 * w) = 2 * (k * w)
  BY <1>1, <1>3
<1>5. 2 * (k * w) <= 2 * num + w /\ 2 * num < 2 * (k * w) + w
  BY <1>1, <1>3, <1>4
<1>6. QED
  BY <1>2, <1>3, <1>5 DEF w

-----------------------------------------------------------------------------
(* Sizing *)

LEMMA CancelFactor ==
  ASSUME NEW a \in Int, NEW b \in Int, NEW c \in Nat \ {0}, a * c <= b * c
  PROVE  a <= b
  OBVIOUS

\* z is num / den rounded down to a whole number of steps, and accepted if it meets
\* the minimums at this price.
FilteredTo(z, num, den, price, f) ==
  /\ z.qty \in Nat
  /\ \E k \in Nat : z.qty = k * f.stepSize
  /\ z.qty * den <= num
  /\ num < (z.qty + f.stepSize) * den
  /\ Accepted(z) <=> z.qty >= f.minQty /\ z.qty * price >= f.minNotional

\* applyFilters() rounds and reports the first minimum that is not met.
LEMMA Filtered ==
  ASSUME NEW num \in Nat, NEW den \in Nat \ {0}, NEW price \in Nat, NEW f \in SymbolFilters
  PROVE  FilteredTo(ApplyFilters(num, den, price, f), num, den, price, f)
<1> DEFINE qty == RoundQtyDownToStep(num, den, f.stepSize)
<1>1. f.stepSize \in Nat \ {0} /\ f.minQty \in Nat /\ f.minNotional \in Nat
  BY DEF SymbolFilters
<1>2. /\ qty \in Nat /\ \E k \in Nat : qty = k * f.stepSize
      /\ qty * den <= num /\ num < (qty + f.stepSize) * den
  BY <1>1, QtyRounding
<1> HIDE DEF qty
<1>3. qty * price \in Nat
  BY <1>2
<1>4. ApplyFilters(num, den, price, f) = [qty |-> qty, violation |-> MinimumViolation(qty, price, f)]
  BY DEF ApplyFilters, qty
<1>5. MinimumViolation(qty, price, f) = "none" <=> qty >= f.minQty /\ qty * price >= f.minNotional
  BY <1>1, <1>2, <1>3 DEF MinimumViolation, Unfiltered
<1>6. QED
  BY <1>2, <1>4, <1>5 DEF Accepted, FilteredTo

\* Balance, prices and filters an entry is sized with; at the open of a candle there
\* may be no distance to the stop left.
SizingInput(balance, entry, stop, f) ==
  balance \in Nat /\ entry \in Nat \ {0} /\ stop \in Nat /\ stop <= entry /\ f \in SymbolFilters

\* riskManager.ts:44 an entry never risks more than per_trade_pct of the balance and
\* never costs more than notional_cap_pct of it (at the price it is sized with), is a whole number of steps, and one
\* that is accepted meets the exchange's minimums.
THEOREM SizeWithinLimits ==
  ASSUME NEW balance, NEW entry, NEW stop, NEW f, SizingInput(balance, entry, stop, f)
  PROVE  LET z == SizePosition(balance, entry, stop, f)
         IN /\ z.qty \in Nat
            /\ \E k \in Nat : z.qty = k * f.stepSize
            /\ 100 * z.qty * (entry - stop) <= PerTradePct * balance
            /\ 100 * z.qty * entry <= NotionalCapPct * balance
            /\ Accepted(z) => z.qty >= f.minQty /\ z.qty * entry >= f.minNotional
<1> DEFINE z == SizePosition(balance, entry, stop, f)
           risk == entry - stop
           target == balance * PerTradePct
           cap == balance * NotionalCapPct
<1>1. /\ balance \in Nat /\ entry \in Nat \ {0} /\ risk \in Nat /\ f \in SymbolFilters
      /\ PerTradePct \in Nat /\ NotionalCapPct \in Nat
  BY PctAssumption DEF SizingInput
<1>2. target \in Nat /\ cap \in Nat /\ target = PerTradePct * balance /\ cap = NotionalCapPct * balance
  BY <1>1
<1> HIDE DEF risk, target, cap
<1>3. CASE OverCap(balance, entry, stop)
  <2>1. /\ z = ApplyFilters(cap, 100 * entry, entry, f)
        /\ risk # 0 => target * entry > cap * risk
    BY <1>1, <1>3 DEF SizePosition, OverCap, risk, target, cap
  <2>2. 100 * entry \in Nat \ {0}
    BY <1>1
  <2>3. /\ z.qty \in Nat /\ z.qty * (100 * entry) <= cap
        /\ \E k \in Nat : z.qty = k * f.stepSize
        /\ Accepted(z) => z.qty >= f.minQty /\ z.qty * entry >= f.minNotional
    <3>1. FilteredTo(ApplyFilters(cap, 100 * entry, entry, f), cap, 100 * entry, entry, f)
      BY <1>1, <1>2, <2>2, Filtered
    <3>2. QED
      BY <2>1, <3>1 DEF FilteredTo
  <2> HIDE DEF z
  <2>4. (100 * z.qty * risk) * entry = (z.qty * (100 * entry)) * risk
    BY <1>1, <2>3
  <2>5. (z.qty * (100 * entry)) * risk <= cap * risk
    BY <1>1, <1>2, <2>3
  <2>6. risk # 0 => (100 * z.qty * risk) * entry <= target * entry
    BY <1>1, <1>2, <2>1, <2>3, <2>4, <2>5
  <2>7. 100 * z.qty * risk <= target
    <3>1. CASE risk = 0
      BY <1>2, <2>3, <3>1
    <3>2. CASE risk # 0
      BY <1>1, <1>2, <2>3, <2>6, <3>2, CancelFactor
    <3>3. QED
      BY <3>1, <3>2
  <2>8. 100 * z.qty * entry <= cap
    BY <1>1, <2>3
  <2>9. QED
    BY <1>2, <2>3, <2>7, <2>8 DEF z, risk
<1>4. CASE ~OverCap(balance, entry, stop)
  <2>1. /\ z = ApplyFilters(target, 100 * risk, entry, f)
        /\ target * entry <= cap * risk /\ risk # 0
    <3>1. risk # 0 /\ ~(risk > 0 /\ target * entry > cap * risk)
      BY <1>4 DEF OverCap, risk, target, cap
    <3>2. target * entry \in Int /\ cap * risk \in Int
      BY <1>1, <1>2
    <3>3. stop < entry
      BY <1>1, <3>1 DEF SizingInput, risk
    <3>4. z = ApplyFilters(target, 100 * risk, entry, f)
      BY <1>4, <3>3 DEF SizePosition, risk, target
    <3>5. QED
      BY <1>1, <3>1, <3>2, <3>4
  <2>2. 100 * risk \in Nat \ {0}
    BY <1>1, <2>1
  <2>3. /\ z.qty \in Nat /\ z.qty * (100 * risk) <= target
        /\ \E k \in Nat : z.qty = k * f.stepSize
        /\ Accepted(z) => z.qty >= f.minQty /\ z.qty * entry >= f.minNotional
    <3>1. FilteredTo(ApplyFilters(target, 100 * risk, entry, f), target, 100 * risk, entry, f)
      BY <1>1, <1>2, <2>2, Filtered
    <3>2. QED
      BY <2>1, <3>1 DEF FilteredTo
  <2> HIDE DEF z
  <2>4. (100 * z.qty * entry) * risk = (z.qty * (100 * risk)) * entry
    BY <1>1, <2>3
  <2>5. (z.qty * (100 * risk)) * entry <= target * entry
    BY <1>1, <1>2, <2>3
  <2>6. (100 * z.qty * entry) * risk <= cap * risk
    BY <1>1, <1>2, <2>1, <2>3, <2>4, <2>5
  <2>7. 100 * z.qty * entry <= cap
    BY <1>1, <1>2, <2>1, <2>3, <2>6, CancelFactor
  <2>8. 100 * z.qty * risk <= target
    BY <1>1, <2>3
  <2>9. QED
    BY <1>2, <2>3, <2>7, <2>8 DEF z, risk
<1>5. QED
  BY <1>3, <1>4

\* The same code leaves nothing on the table: one step more would break one of the
\* two limits.
THEOREM SizeIsLargest ==
  ASSUME NEW balance, NEW entry, NEW stop, NEW f, SizingInput(balance, entry, stop, f)
  PROVE  LET more == SizePosition(balance, entry, stop, f).qty + f.stepSize
         IN \/ 100 * more * (entry - stop) > PerTradePct * balance
            \/ 100 * more * entry > NotionalCapPct * balance
<1> DEFINE more == SizePosition(balance, entry, stop, f).qty + f.stepSize
           risk == entry - stop
           target == balance * PerTradePct
           cap == balance * NotionalCapPct
<1>1. /\ balance \in Nat /\ entry \in Nat \ {0} /\ risk \in Nat /\ f \in SymbolFilters
      /\ PerTradePct \in Nat /\ NotionalCapPct \in Nat /\ f.stepSize \in Nat
  BY PctAssumption DEF SizingInput, SymbolFilters
<1>2. target \in Nat /\ cap \in Nat /\ target = PerTradePct * balance /\ cap = NotionalCapPct * balance
  BY <1>1
<1>3. more \in Nat
  BY <1>1, SizeWithinLimits
<1>4. more * (100 * entry) > cap \/ more * (100 * risk) > target
  <2>1. 100 * entry \in Nat \ {0}
    BY <1>1
  <2> HIDE DEF target, cap
  <2>2. CASE OverCap(balance, entry, stop)
    <3>1. SizePosition(balance, entry, stop, f) = ApplyFilters(cap, 100 * entry, entry, f)
      BY <2>2 DEF SizePosition, cap
    <3>2. FilteredTo(ApplyFilters(cap, 100 * entry, entry, f), cap, 100 * entry, entry, f)
      BY <1>1, <1>2, <2>1, Filtered
    <3>3. cap < more * (100 * entry)
      BY <3>1, <3>2 DEF FilteredTo
    <3>4. QED
      BY <1>1, <1>2, <1>3, <2>1, <3>3
  <2>3. CASE ~OverCap(balance, entry, stop)
    <3>0. stop < entry /\ 100 * risk \in Nat \ {0}
      BY <1>1, <2>3 DEF OverCap, SizingInput
    <3> HIDE DEF risk
    <3>1. SizePosition(balance, entry, stop, f) = ApplyFilters(target, 100 * risk, entry, f)
      BY <2>3, <3>0 DEF SizePosition, target, risk
    <3>2. FilteredTo(ApplyFilters(target, 100 * risk, entry, f), target, 100 * risk, entry, f)
      BY <1>1, <1>2, <3>0, Filtered
    <3>3. target < more * (100 * risk)
      BY <3>1, <3>2 DEF FilteredTo
    <3>4. QED
      BY <1>1, <1>2, <1>3, <3>0, <3>3
  <2>4. QED
    BY <2>2, <2>3
<1> HIDE DEF more, target, cap
<1>5. more * (100 * entry) = 100 * more * entry /\ more * (100 * risk) = 100 * more * risk
  BY <1>1, <1>3
<1>6. QED
  BY <1>2, <1>4, <1>5 DEF more

-----------------------------------------------------------------------------
(* The account: its inductive invariant *)

Record == [at : Stages, remaining : Int, entry : Nat]

\* Stages at which no coins are held.
Without == {"none", "pending", "buying", "refused", "released", "closed"}

\* What every record p with its c coins satisfies: in paper a position never has
\* fewer coins than its record says remain, and what the exchange's filters let
\* through is never negative.
RecordOK(p, c, k, f) ==
  /\ p.at \in Without => c = 0
  /\ p.at = "pending" => k = "paper"
  /\ k = "paper" => /\ p.at \notin {"buying", "lost"}
                    /\ p.at = "bought" => c = p.remaining /\ Stop < p.entry /\ p.entry < Tp
                    /\ p.at = "held" => p.remaining <= c
  /\ f # Unfiltered => p.remaining >= 0 /\ c >= 0

Inv ==
  /\ kind \in Kinds /\ filters \in LoadFilters
  /\ cash \in Int /\ quote \in Int
  /\ pos \in [Signals -> Record]
  /\ coins \in [Signals -> Int]
  /\ \A s \in Signals : RecordOK(pos[s], coins[s], kind, filters)

LEMMA Parameters ==
  /\ PerTradePct \in Nat /\ NotionalCapPct \in Nat
  /\ Start \in Nat /\ Slippage \in Nat /\ FeePct \in Nat
  /\ Entry \in Nat \ {0} /\ Stop \in Nat \ {0} /\ Tp \in Nat \ {0} /\ Stop < Entry /\ Entry < Tp
  /\ Opens \subseteq Nat \ {0} /\ Exits \subseteq Nat \ {0}
<1>1. {PerTradePct, NotionalCapPct} \subseteq Nat /\ {Start, MaxOpen, Slippage, FeePct} \subseteq Nat
  BY PctAssumption, MoneyAssumption
<1>2. {Entry, Stop, Tp} \cup Opens \cup Exits \subseteq Nat \ {0} /\ Stop < Entry /\ Entry < Tp
  BY PriceAssumption
<1>3. QED
  BY <1>1, <1>2

LEMMA FiltersKnown == ASSUME Inv PROVE filters \in SymbolFilters
<1>1. Unfiltered \in SymbolFilters
  BY DEF Unfiltered, SymbolFilters
<1>2. QED
  BY <1>1, FilterAssumption DEF Inv, LoadFilters

LEMMA FeeIsAmount == ASSUME NEW a \in Int PROVE Fee(a) \in Int
<1>1. a * FeePct \in Int
  BY Parameters
<1>2. QED
  BY <1>1 DEF Fee

LEMMA MinOfTwo ==
  ASSUME NEW a \in Int, NEW b \in Int
  PROVE  Min({a, b}) = IF a <= b THEN a ELSE b
<1>1. \E x \in {a, b} : \A y \in {a, b} : x <= y
  OBVIOUS
<1>2. Min({a, b}) \in {a, b} /\ \A y \in {a, b} : Min({a, b}) <= y
  BY <1>1 DEF Min
<1>3. QED
  BY <1>2

LEMMA CostsAre ==
  ASSUME Inv
  PROVE  \A s \in Signals : Costs[s] = pos[s].remaining * pos[s].entry /\ Costs[s] \in Int
<1>1. SUFFICES ASSUME NEW s \in Signals
               PROVE  Costs[s] = pos[s].remaining * pos[s].entry /\ Costs[s] \in Int
  OBVIOUS
<1>2. pos[s].remaining \in Int /\ pos[s].entry \in Nat
  BY DEF Inv, Record
<1>3. Costs[s] = pos[s].remaining * pos[s].entry
  BY DEF Costs
<1>4. QED
  BY <1>2, <1>3

LEMMA EquityIsAmount == ASSUME Inv PROVE Equity \in Int
<1> DEFINE T == {s \in Signals : pos[s].at = "held"}
<1>1. IsFiniteSet(T)
  BY SignalAssumption, FS_Subset
<1>2. \A s \in T : Costs[s] \in Int
  BY CostsAre
<1>3. SumFunctionOnSet(Costs, T) \in Int
  <2> HIDE DEF T
  <2>1. QED
    BY <1>1, <1>2, SumType
<1>4. QED
  BY <1>3 DEF Equity, OpenCost, Inv

-----------------------------------------------------------------------------
(* Every size that may come out *)

LEMMA RoundedIsWhole ==
  ASSUME NEW num \in Int, NEW den \in Nat \ {0}, NEW step \in Nat \ {0}
  PROVE  /\ RoundQtyDownToStep(num, den, step) \in Int
         /\ num <= 0 => RoundQtyDownToStep(num, den, step) <= 0
<1> DEFINE k(n) == n \div (den * step)
<1>1. den * step \in Nat \ {0}
  BY ProductPos
<1>2. ASSUME NEW n \in Nat PROVE k(n) * step \in Nat /\ (n = 0 => k(n) * step = 0)
  <2>1. k(n) \in Nat /\ k(n) * (den * step) <= n
    BY <1>1, DivBounds
  <2>2. n = 0 => k(n) = 0
    <3> HIDE DEF k
    <3>1. QED
      BY <1>1, <2>1
  <2> HIDE DEF k
  <2>3. QED
    BY <2>1, <2>2
<1>3. CASE num >= 0
  <2>1. RoundQtyDownToStep(num, den, step) = k(num) * step /\ num \in Nat
    BY <1>3 DEF RoundQtyDownToStep
  <2> HIDE DEF k
  <2>2. QED
    BY <1>2, <2>1
<1>4. CASE num < 0
  <2>1. RoundQtyDownToStep(num, den, step) = -(k(-num) * step) /\ -num \in Nat
    BY <1>4 DEF RoundQtyDownToStep
  <2> HIDE DEF k
  <2>2. k(-num) * step \in Nat
    BY <1>2, <2>1
  <2>3. QED
    BY <2>1, <2>2
<1>5. QED
  BY <1>3, <1>4

LEMMA FilteredIsWhole ==
  ASSUME NEW num \in Int, NEW den \in Nat \ {0}, NEW price \in Nat, NEW f \in SymbolFilters
  PROVE  LET z == ApplyFilters(num, den, price, f)
         IN /\ z.qty \in Int
            /\ num <= 0 => z.qty <= 0
            /\ Accepted(z) /\ f # Unfiltered => z.qty >= 0
<1> DEFINE qty == RoundQtyDownToStep(num, den, f.stepSize)
<1>1. f.stepSize \in Nat \ {0} /\ f.minQty \in Nat
  BY DEF SymbolFilters
<1>2. qty \in Int /\ (num <= 0 => qty <= 0)
  BY <1>1, RoundedIsWhole
<1>3. ApplyFilters(num, den, price, f) = [qty |-> qty, violation |-> MinimumViolation(qty, price, f)]
  BY DEF ApplyFilters
<1> HIDE DEF qty
<1>4. f # Unfiltered /\ qty < f.minQty => MinimumViolation(qty, price, f) = "below_min_qty"
  BY <1>1, <1>2 DEF MinimumViolation
<1>5. QED
  BY <1>1, <1>2, <1>3, <1>4 DEF Accepted

\* At an open under the stop nothing positive is bought while the account is worth
\* anything.
LEMMA SizeIsWhole ==
  ASSUME NEW balance \in Int, NEW entry \in Nat \ {0}, NEW stop \in Nat, NEW f \in SymbolFilters
  PROVE  LET z == SizePosition(balance, entry, stop, f)
         IN /\ z.qty \in Int
            /\ Accepted(z) /\ f # Unfiltered => z.qty >= 0
            /\ balance >= 0 /\ entry < stop => z.qty <= 0
<1> DEFINE risk == entry - stop
           target == balance * PerTradePct
           cap == balance * NotionalCapPct
<1>1. risk \in Int /\ target \in Int /\ cap \in Int /\ 100 * entry \in Nat \ {0}
  BY Parameters
<1>2. CASE OverCap(balance, entry, stop)
  <2>1. SizePosition(balance, entry, stop, f) = ApplyFilters(cap, 100 * entry, entry, f)
    BY <1>2 DEF SizePosition
  <2>2. ~(balance >= 0 /\ entry < stop)
    <3>1. SUFFICES ASSUME balance >= 0, entry < stop PROVE FALSE
      OBVIOUS
    <3>2. target \in Nat /\ cap \in Nat
      BY <3>1, Parameters
    <3>3. target * entry < cap * risk
      BY <1>2, <3>1 DEF OverCap
    <3> HIDE DEF risk, target, cap
    <3>4. risk < 0
      BY <3>1 DEF risk
    <3>5. target * entry >= 0 /\ cap * risk <= 0
      <4>1. target * entry >= 0
        BY <3>2
      <4>2. cap * risk <= 0
        BY <1>1, <3>2, <3>4
      <4>3. QED
        BY <4>1, <4>2
    <3>6. target * entry \in Int /\ cap * risk \in Int
      BY <1>1
    <3>7. QED
      BY <3>3, <3>5, <3>6
  <2> HIDE DEF cap
  <2>3. QED
    BY <1>1, <2>1, <2>2, FilteredIsWhole
<1>3. CASE ~OverCap(balance, entry, stop) /\ stop < entry
  <2>1. SizePosition(balance, entry, stop, f) = ApplyFilters(target, 100 * risk, entry, f)
    BY <1>3 DEF SizePosition
  <2>2. 100 * risk \in Nat \ {0}
    BY <1>3
  <2> HIDE DEF target, risk
  <2>3. QED
    BY <1>1, <1>3, <2>1, <2>2, FilteredIsWhole
<1>4. CASE ~OverCap(balance, entry, stop) /\ ~(stop < entry)
  <2>1. SizePosition(balance, entry, stop, f) = ApplyFilters(-target, 100 * (stop - entry), entry, f)
    BY <1>4 DEF SizePosition
  <2>2. 100 * (stop - entry) \in Nat \ {0}
    BY <1>4 DEF OverCap
  <2>3. balance >= 0 => -target <= 0
    <3>1. balance >= 0 => target >= 0
      BY Parameters
    <3> HIDE DEF target
    <3>2. QED
      BY <1>1, <3>1
  <2> HIDE DEF target
  <2>4. QED
    BY <1>1, <2>1, <2>2, <2>3, FilteredIsWhole
<1>5. QED
  BY <1>2, <1>3, <1>4

LEMMA SizedIs ==
  ASSUME Inv, NEW price \in Nat \ {0}
  PROVE  /\ Sized(price).qty \in Int
         /\ Accepted(Sized(price)) /\ filters # Unfiltered => Sized(price).qty >= 0
         /\ Equity >= 0 /\ price < Stop => Sized(price).qty <= 0
<1>1. Equity \in Int /\ filters \in SymbolFilters /\ Stop \in Nat
  BY EquityIsAmount, FiltersKnown, Parameters
<1>2. QED
  BY <1>1, SizeIsWhole DEF Sized

-----------------------------------------------------------------------------
(* One step moves one position *)

Moves(s, r, c) ==
  /\ kind' = kind /\ filters' = filters /\ cash' \in Int /\ quote' \in Int
  /\ pos' = [pos EXCEPT ![s] = r]
  /\ coins' = [coins EXCEPT ![s] = c]

LEMMA OneMoves ==
  ASSUME Inv, NEW s \in Signals, NEW r \in Record, NEW c \in Int,
         RecordOK(r, c, kind, filters), Moves(s, r, c)
  PROVE  Inv'
<1>1. kind' \in Kinds /\ filters' \in LoadFilters /\ cash' \in Int /\ quote' \in Int
  BY DEF Inv, Moves, LoadFilters
<1>2. pos' \in [Signals -> Record] /\ coins' \in [Signals -> Int]
  BY DEF Inv, Moves
<1>3. ASSUME NEW t \in Signals PROVE RecordOK(pos'[t], coins'[t], kind', filters')
  <2>1. CASE t = s
    <3>1. pos'[t] = r /\ coins'[t] = c
      BY <2>1 DEF Inv, Moves
    <3>2. QED
      BY <3>1 DEF Moves
  <2>2. CASE t # s
    <3>1. pos'[t] = pos[t] /\ coins'[t] = coins[t]
      BY <2>2 DEF Inv, Moves
    <3>2. RecordOK(pos[t], coins[t], kind, filters)
      BY DEF Inv
    <3>3. QED
      BY <3>1, <3>2 DEF Moves
  <2>3. QED
    BY <2>1, <2>2
<1>4. QED
  BY <1>1, <1>2, <1>3 DEF Inv, Record, Stages, RecordOK

\* The record and the coins of a position before a step.
LEMMA Before ==
  ASSUME Inv, NEW s \in Signals
  PROVE  /\ pos[s] \in Record /\ pos[s].at \in Stages /\ pos[s].remaining \in Int /\ pos[s].entry \in Nat
         /\ coins[s] \in Int /\ cash \in Int /\ quote \in Int
         /\ RecordOK(pos[s], coins[s], kind, filters)
         /\ coins = [coins EXCEPT ![s] = coins[s]]
         /\ pos = [pos EXCEPT ![s] = pos[s]]
<1>1. pos[s] \in Record /\ coins[s] \in Int /\ cash \in Int /\ quote \in Int
  BY DEF Inv
<1>2. pos[s].at \in Stages /\ pos[s].remaining \in Int /\ pos[s].entry \in Nat
  BY <1>1 DEF Record
<1>3. QED
  BY <1>1, <1>2 DEF Inv

Given(at, remaining, entry) == [at |-> at, remaining |-> remaining, entry |-> entry]

LEMMA GivenFields ==
  ASSUME NEW a, NEW q, NEW e
  PROVE  Given(a, q, e).at = a /\ Given(a, q, e).remaining = q /\ Given(a, q, e).entry = e
  BY DEF Given

\* What an EXCEPT on a record gives.
LEMMA Parts ==
  ASSUME NEW p \in Record
  PROVE  /\ \A a : [p EXCEPT !.at = a] = Given(a, p.remaining, p.entry)
         /\ \A q : [p EXCEPT !.remaining = q] = Given(p.at, q, p.entry)
         /\ \A a : [NoPos EXCEPT !.at = a] = Given(a, 0, 0)
  BY DEF Record, Given, NoPos

LEMMA RefusedOK ==
  ASSUME NEW k, NEW f
  PROVE  Given("refused", 0, 0) \in Record /\ RecordOK(Given("refused", 0, 0), 0, k, f)
  BY DEF Given, Record, Stages, RecordOK, Without

LEMMA EntryStep ==
  ASSUME Inv, NEW s \in Signals, HandleSignal(s)
  PROVE  Inv'
<1> DEFINE ok == Accepted(Sized(Entry))
           r == IF ~ok THEN Given("refused", 0, 0)
                ELSE Given(IF Paper THEN "pending" ELSE "buying", Sized(Entry).qty, Entry)
<1>1. Entry \in Nat \ {0} /\ Entry \in Nat
  BY Parameters
<1>2. Sized(Entry).qty \in Int /\ (ok /\ filters # Unfiltered => Sized(Entry).qty >= 0)
  BY <1>1, SizedIs
<1>3. coins[s] = 0
  BY Before DEF HandleSignal, RecordOK, Without
<1>4. Moves(s, r, 0)
  <2>1. pos' = [pos EXCEPT ![s] = r]
    BY Before, Parts DEF HandleSignal, Given
  <2>2. QED
    BY <2>1, <1>3, Before DEF Moves, HandleSignal
<1>5. r \in Record /\ RecordOK(r, 0, kind, filters)
  <2>1. CASE ~ok
    BY <2>1, RefusedOK
  <2>2. CASE ok
    <3> DEFINE a == IF Paper THEN "pending" ELSE "buying"
               q == Sized(Entry).qty
    <3>1. r = Given(a, q, Entry) /\ a \in Stages /\ q \in Int
      BY <2>2, <1>2 DEF Stages
    <3>2. r \in Record
      BY <1>1, <3>1 DEF Given, Record
    <3>3. (a = "pending" /\ kind = "paper") \/ (a = "buying" /\ kind # "paper")
      <4>1. CASE kind = "paper"
        BY <4>1 DEF Paper
      <4>2. CASE kind # "paper"
        BY <4>2 DEF Paper
      <4>3. QED
        BY <4>1, <4>2
    <3>4. filters # Unfiltered => q >= 0
      BY <1>2, <2>2
    <3> HIDE DEF a, q, r
    <3>5. r.at = a /\ r.remaining = q
      BY <3>1, GivenFields
    <3>6. QED
      BY <3>2, <3>3, <3>4, <3>5 DEF RecordOK
  <2>3. QED
    BY <2>1, <2>2
<1> HIDE DEF r
<1>6. QED
  BY <1>4, <1>5, OneMoves

LEMMA CancelStep ==
  ASSUME Inv, NEW s \in Signals, NEW open \in Opens, CancelPending(s, open)
  PROVE  Inv'
<1>1. coins[s] = 0
  BY Before DEF CancelPending, RecordOK, Without
<1>2. Moves(s, Given("refused", 0, 0), 0)
  <2>1. pos' = [pos EXCEPT ![s] = Given("refused", 0, 0)]
    BY Before, Parts DEF CancelPending
  <2>2. QED
    BY <1>1, <2>1, Before DEF CancelPending, Moves
<1>3. QED
  BY <1>2, RefusedOK, OneMoves

\* What a fill changes, by name.
LEMMA Filled ==
  ASSUME Inv, NEW s \in Signals, NEW open \in Opens, FillPending(s, open)
  PROVE  LET q == Sized(open).qty  e == QuoteEntry(open)
         IN /\ q \in Int /\ e \in Nat /\ (filters # Unfiltered => q >= 0)
            /\ Stop < e /\ e < Tp
            /\ kind = "paper"
            /\ Moves(s, Given("bought", q, e), q)
<1> DEFINE q == Sized(open).qty
           e == QuoteEntry(open)
<1>1. open \in Nat \ {0} /\ Slippage \in Nat /\ Stop \in Nat /\ Tp \in Nat
  BY Parameters
<1>2. q \in Int /\ (filters # Unfiltered => q >= 0)
  BY <1>1, SizedIs DEF FillPending
<1>3. e \in Nat /\ Stop < e /\ e < Tp
  BY <1>1 DEF FillPending, Gapped, QuoteEntry
<1>4. kind = "paper"
  BY Before DEF FillPending, RecordOK
<1>5. /\ cash' = cash - e * q - Fee(e * q)
      /\ coins' = [coins EXCEPT ![s] = q]
      /\ pos' = [pos EXCEPT ![s] = Given("bought", q, e)]
      /\ kind' = kind /\ filters' = filters /\ quote' = quote
  BY DEF FillPending, Given
<1> HIDE DEF q, e
<1>6. cash' \in Int /\ quote' \in Int
  <2>1. e * q \in Int
    BY <1>2, <1>3
  <2>2. Fee(e * q) \in Int
    BY <2>1, FeeIsAmount
  <2>3. QED
    BY <1>5, <2>1, <2>2, Before
<1>7. Moves(s, Given("bought", q, e), q)
  BY <1>5, <1>6 DEF Moves
<1>8. QED
  BY <1>2, <1>3, <1>4, <1>7 DEF q, e

LEMMA FillStep ==
  ASSUME Inv, NEW s \in Signals, NEW open \in Opens, FillPending(s, open)
  PROVE  Inv'
<1> DEFINE q == Sized(open).qty
           e == QuoteEntry(open)
           r == Given("bought", q, e)
<1>1. /\ q \in Int /\ e \in Nat /\ (filters # Unfiltered => q >= 0)
      /\ Stop < e /\ e < Tp /\ kind = "paper" /\ Moves(s, r, q)
  BY Filled
<1> HIDE DEF q, e
<1>2. r.at = "bought" /\ r.remaining = q /\ r.entry = e
  BY GivenFields
<1>3. r \in Record
  BY <1>1 DEF Given, Record, Stages
<1> HIDE DEF r
<1>4. RecordOK(r, q, kind, filters)
  BY <1>1, <1>2 DEF RecordOK, Without
<1>5. QED
  BY <1>1, <1>3, <1>4, OneMoves

LEMMA BuyStep ==
  ASSUME Inv, NEW s \in Signals, NEW price \in Opens, ExchangeBuys(s, price)
  PROVE  Inv'
<1> DEFINE q == pos[s].remaining
           cost == price * q
<1>1. /\ price \in Nat /\ q \in Int /\ cost \in Int /\ kind # "paper" /\ coins[s] = 0
      /\ filters # Unfiltered => q >= 0
  <2>1. price \in Nat
    BY Parameters
  <2>2. q \in Int /\ kind # "paper" /\ coins[s] = 0 /\ (filters # Unfiltered => q >= 0)
    BY Before DEF ExchangeBuys, RecordOK, Without
  <2>3. QED
    BY <2>1, <2>2
<1>2. CASE cost > quote
  <2>1. pos' = [pos EXCEPT ![s] = Given("refused", 0, 0)]
    BY <1>2, Before, Parts DEF ExchangeBuys
  <2>2. Moves(s, Given("refused", 0, 0), 0)
    BY <1>1, <1>2, <2>1, Before DEF ExchangeBuys, Moves
  <2>3. QED
    BY <2>2, RefusedOK, OneMoves
<1>3. CASE ~(cost > quote)
  <2> DEFINE r == Given("bought", q, price)
  <2>1. pos' = [pos EXCEPT ![s].at = "bought", ![s].entry = price]
    BY <1>3 DEF ExchangeBuys
  <2>2. pos' = [pos EXCEPT ![s] = r]
    <3>1. [pos EXCEPT ![s].at = "bought", ![s].entry = price]
            = [pos EXCEPT ![s] = [[pos[s] EXCEPT !.at = "bought"] EXCEPT !.entry = price]]
      BY DEF Inv
    <3>2. [[pos[s] EXCEPT !.at = "bought"] EXCEPT !.entry = price] = r
      <4>1. PICK a, m, e : pos[s] = [at |-> a, remaining |-> m, entry |-> e]
        <5>1. pos[s] = [at |-> pos[s].at, remaining |-> pos[s].remaining, entry |-> pos[s].entry]
          BY Before DEF Record
        <5>2. QED
          BY <5>1
      <4>2. [pos[s] EXCEPT !.at = "bought"] = [at |-> "bought", remaining |-> m, entry |-> e]
        BY <4>1
      <4>3. [[at |-> "bought", remaining |-> m, entry |-> e] EXCEPT !.entry = price]
              = [at |-> "bought", remaining |-> m, entry |-> price]
        OBVIOUS
      <4>4. q = m
        BY <4>1
      <4>5. QED
        BY <4>2, <4>3, <4>4 DEF Given
    <3>3. QED
      BY <2>1, <3>1, <3>2
  <2>3. Moves(s, r, q)
    <3>1. quote' = quote - cost /\ cash' = cash /\ coins' = [coins EXCEPT ![s] = q]
      BY <1>3 DEF ExchangeBuys
    <3>2. kind' = kind /\ filters' = filters
      BY DEF ExchangeBuys
    <3> HIDE DEF cost, q, r
    <3>3. QED
      BY <1>1, <2>2, <3>1, <3>2, Before DEF Moves
  <2> HIDE DEF q
  <2>4. r.at = "bought" /\ r.remaining = q
    BY GivenFields
  <2>5. r \in Record
    BY <1>1 DEF Given, Record, Stages
  <2> HIDE DEF r
  <2>6. RecordOK(r, q, kind, filters)
    BY <1>1, <2>4 DEF RecordOK, Without
  <2>7. QED
    BY <1>1, <2>3, <2>5, <2>6, OneMoves
<1>4. QED
  BY <1>2, <1>3

LEMMA ActivateStep ==
  ASSUME Inv, NEW s \in Signals, Activate(s)
  PROVE  Inv'
<1> DEFINE p == pos[s]
           c == coins[s]
           a == IF Stop < p.entry /\ p.entry < Tp THEN "held" ELSE "lost"
           r == Given(a, p.remaining, p.entry)
<1>1. /\ p.at = "bought" /\ p.remaining \in Int /\ p.entry \in Nat /\ c \in Int
      /\ RecordOK(p, c, kind, filters)
  BY Before DEF Activate
<1>2. Moves(s, r, c)
  <2>1. pos' = [pos EXCEPT ![s] = [pos[s] EXCEPT !.at = a]]
    BY DEF Activate, Inv
  <2>2. pos' = [pos EXCEPT ![s] = r]
    BY <2>1, Before, Parts
  <2>3. QED
    BY <2>2, Before DEF Activate, Moves
<1>3. r \in Record
  BY <1>1 DEF Given, Record, Stages
<1>4. RecordOK(r, c, kind, filters)
  <2>1. r.at = a /\ r.remaining = p.remaining
    BY GivenFields
  <2>2. kind = "paper" => c = p.remaining /\ Stop < p.entry /\ p.entry < Tp
    BY <1>1 DEF RecordOK
  <2>3. a \in {"held", "lost"} /\ (kind = "paper" => a = "held")
    BY <2>2
  <2>4. filters # Unfiltered => p.remaining >= 0 /\ c >= 0
    BY <1>1 DEF RecordOK
  <2> HIDE DEF a, r, p, c
  <2>5. QED
    BY <1>1, <2>1, <2>2, <2>3, <2>4 DEF RecordOK, Without
<1> HIDE DEF r, c
<1>5. QED
  BY <1>1, <1>2, <1>3, <1>4, OneMoves

\* What a sale leaves of the money.
LEMMA ReceiveIs ==
  ASSUME Inv, NEW amount \in Int, Receive(amount)
  PROVE  cash' \in Int /\ quote' \in Int
<1>1. Fee(amount) \in Int
  BY FeeIsAmount
<1>2. CASE Paper
  <2>1. cash' = cash + amount - Fee(amount) /\ quote' = quote
    BY <1>2 DEF Receive
  <2>2. QED
    BY <1>1, <2>1 DEF Inv
<1>3. CASE ~Paper
  <2>1. quote' = quote + amount /\ cash' = cash
    BY <1>3 DEF Receive
  <2>2. QED
    BY <2>1 DEF Inv
<1>4. QED
  BY <1>2, <1>3

LEMMA ExchangeSellsStep ==
  ASSUME Inv, NEW s \in Signals, NEW price \in Exits, NEW qty \in 1 .. coins[s],
         ExchangeSells(s, qty, price)
  PROVE  Inv'
<1> DEFINE c == coins[s] - qty
           p == pos[s]
<1>1. /\ p \in Record /\ coins[s] \in Int /\ qty \in Nat /\ price \in Nat /\ c \in Nat
      /\ p.at = "held" /\ kind # "paper" /\ RecordOK(p, coins[s], kind, filters)
  <2>1. coins[s] \in Int /\ qty \in 1 .. coins[s]
    BY Before
  <2>2. qty \in Nat /\ c \in Nat
    BY <2>1
  <2>3. QED
    BY <2>1, <2>2, Before, Parameters DEF ExchangeSells, Paper
<1>2. Moves(s, p, c)
  <2>1. coins' = [coins EXCEPT ![s] = c] /\ pos' = [pos EXCEPT ![s] = p]
    BY Before DEF ExchangeSells
  <2>2. price * qty \in Int
    BY <1>1
  <2>3. quote' = quote + price * qty /\ cash' = cash /\ kind' = kind /\ filters' = filters
    BY DEF ExchangeSells
  <2>4. cash \in Int /\ quote \in Int
    BY Before
  <2>5. quote' \in Int /\ cash' \in Int
    BY <2>2, <2>3, <2>4
  <2>6. QED
    BY <2>1, <2>3, <2>5 DEF Moves
<1> HIDE DEF c, p
<1>3. RecordOK(p, c, kind, filters)
  BY <1>1 DEF RecordOK, Without
<1>4. QED
  BY <1>1, <1>2, <1>3, OneMoves

LEMMA StepStep ==
  ASSUME Inv, NEW s \in Signals, NEW price \in Exits,
         NEW rest \in 0 .. pos[s].remaining, NEW kept \in 0 .. pos[s].remaining,
         StepAndSell(s, rest, kept, price)
  PROVE  Inv'
<1> DEFINE p == pos[s]
           q == p.remaining
           c == coins[s]
           left == Min({c, kept})
           r == Given("held", rest, p.entry)
<1>1. /\ p.at = "held" /\ q \in Int /\ p.entry \in Nat /\ c \in Int
      /\ RecordOK(p, c, kind, filters)
  BY Before DEF StepAndSell
<1>2. rest \in Nat /\ kept \in Nat /\ rest <= kept /\ kept <= q /\ rest < q
  <2>1. rest \in Nat /\ kept \in Nat /\ kept <= q
    BY <1>1
  <2>2. QED
    BY <2>1, <1>1 DEF StepAndSell
<1>3. left = (IF c <= kept THEN c ELSE kept)
  BY <1>1, <1>2, MinOfTwo
<1>4. Moves(s, r, left)
  <2>1. pos' = [pos EXCEPT ![s] = [pos[s] EXCEPT !.remaining = rest]]
    BY DEF StepAndSell, Inv
  <2>2. pos' = [pos EXCEPT ![s] = r]
    <3>1. p \in Record
      BY Before
    <3>2. [p EXCEPT !.remaining = rest] = Given(p.at, rest, p.entry)
      BY <3>1, Parts
    <3>3. QED
      BY <1>1, <2>1, <3>2
  <2>3. coins' = [coins EXCEPT ![s] = left] /\ Receive(price * (c - left))
    BY DEF StepAndSell
  <2>4. price * (c - left) \in Int
    <3>1. price \in Nat /\ c - left \in Int
      BY <1>1, <1>2, <1>3, Parameters
    <3> HIDE DEF left, c
    <3>2. QED
      BY <3>1
  <2>5. cash' \in Int /\ quote' \in Int
    BY <2>3, <2>4, ReceiveIs
  <2>6. QED
    BY <2>2, <2>3, <2>5 DEF StepAndSell, Moves
<1> HIDE DEF left, c, q
<1>5. r.at = "held" /\ r.remaining = rest
  BY GivenFields
<1>6. r \in Record
  BY <1>1, <1>2 DEF Given, Record, Stages
<1> HIDE DEF r
<1>7. RecordOK(r, left, kind, filters)
  <2>1. kind = "paper" => rest <= left
    <3>1. kind = "paper" => q <= c
      BY <1>1 DEF RecordOK, q
    <3>2. QED
      BY <1>1, <1>2, <1>3, <3>1
  <2>2. filters # Unfiltered => left >= 0
    <3>1. filters # Unfiltered => c >= 0
      BY <1>1 DEF RecordOK
    <3>2. QED
      BY <1>1, <1>2, <1>3, <3>1
  <2>3. QED
    BY <1>2, <1>5, <2>1, <2>2 DEF RecordOK, Without
<1>8. left \in Int
  BY <1>1, <1>2, <1>3
<1>9. QED
  BY <1>4, <1>6, <1>7, <1>8, OneMoves

LEMMA SellRestStep ==
  ASSUME Inv, NEW s \in Signals, NEW price \in Exits, SellRest(s, price)
  PROVE  Inv'
<1> DEFINE p == pos[s]
           q == p.remaining
<1>1. /\ p \in Record /\ p.at = "held" /\ q \in Int /\ coins[s] \in Int /\ price \in Nat
      /\ RecordOK(p, coins[s], kind, filters)
  BY Before, Parameters DEF SellRest
<1>2. Moves(s, p, q)
  <2>1. coins' = [coins EXCEPT ![s] = q] /\ Receive(price * (coins[s] - q))
    BY DEF SellRest
  <2>2. price * (coins[s] - q) \in Int
    <3>1. coins[s] - q \in Int
      BY <1>1
    <3> HIDE DEF q
    <3>2. QED
      BY <1>1, <3>1
  <2>3. pos' = [pos EXCEPT ![s] = p]
    BY Before DEF SellRest
  <2>4. cash' \in Int /\ quote' \in Int
    BY <2>1, <2>2, ReceiveIs
  <2>5. QED
    BY <2>1, <2>3, <2>4 DEF SellRest, Moves
<1>3. RecordOK(p, q, kind, filters)
  BY <1>1 DEF RecordOK, Without
<1> HIDE DEF p, q
<1>4. QED
  BY <1>1, <1>2, <1>3, OneMoves

LEMMA ReleaseStep ==
  ASSUME Inv, NEW s \in Signals, Release(s)
  PROVE  Inv'
<1> DEFINE p == pos[s]
           r == Given("released", p.remaining, p.entry)
<1>1. /\ p \in Record /\ p.remaining = 0 /\ p.entry \in Nat /\ coins[s] = 0
  BY Before DEF Release
<1>2. Moves(s, r, 0)
  <2>1. pos' = [pos EXCEPT ![s] = [pos[s] EXCEPT !.at = "released"]]
    BY DEF Release, Inv
  <2>2. pos' = [pos EXCEPT ![s] = r]
    BY <2>1, Before, Parts
  <2>3. QED
    BY <1>1, <2>2, Before DEF Release, Moves
<1>3. r.at = "released" /\ r.remaining = 0
  BY <1>1, GivenFields
<1>4. r \in Record
  BY <1>1 DEF Given, Record, Stages
<1> HIDE DEF r
<1>5. RecordOK(r, 0, kind, filters)
  BY <1>3 DEF RecordOK, Without
<1>6. QED
  BY <1>2, <1>4, <1>5, OneMoves

LEMMA RefreshIs == ASSUME Inv, Refresh PROVE cash' \in Int
  BY DEF Inv, Refresh

LEMMA SnapshotStep ==
  ASSUME Inv, NEW s \in Signals, Snapshot(s)
  PROVE  Inv'
<1> DEFINE p == pos[s]
           r == Given("closed", p.remaining, p.entry)
<1>1. /\ p \in Record /\ p.remaining \in Int /\ p.entry \in Nat /\ coins[s] = 0
      /\ filters # Unfiltered => p.remaining >= 0
  <2>1. p.at = "released" /\ RecordOK(p, coins[s], kind, filters)
    BY Before DEF Snapshot
  <2>2. QED
    BY <2>1, Before DEF RecordOK, Without
<1>2. Moves(s, r, 0)
  <2>1. pos' = [pos EXCEPT ![s] = [pos[s] EXCEPT !.at = "closed"]]
    BY DEF Snapshot, Inv
  <2>2. pos' = [pos EXCEPT ![s] = r]
    BY <2>1, Before, Parts
  <2>3. QED
    BY <1>1, <2>2, Before, RefreshIs DEF Snapshot, Moves
<1>3. r.at = "closed" /\ r.remaining = p.remaining
  BY GivenFields
<1>4. r \in Record
  BY <1>1 DEF Given, Record, Stages
<1> HIDE DEF r, p
<1>5. RecordOK(r, 0, kind, filters)
  BY <1>1, <1>3 DEF RecordOK, Without
<1>6. QED
  BY <1>2, <1>4, <1>5, OneMoves

\* Money alone moves.
LEMMA HeartbeatStep == ASSUME Inv, Heartbeat PROVE Inv'
<1>1. /\ cash' \in Int /\ quote' \in Int /\ kind' = kind /\ filters' = filters
      /\ pos' = pos /\ coins' = coins
  BY RefreshIs DEF Heartbeat, Inv
<1>2. QED
  BY <1>1 DEF Inv, Record, Stages, RecordOK, LoadFilters

LEMMA StutterStep == ASSUME Inv, UNCHANGED vars PROVE Inv'
  BY DEF vars, Inv, Record, Stages, RecordOK, LoadFilters

LEMMA InitInv == Init => Inv
<1>1. SUFFICES ASSUME Init PROVE Inv
  OBVIOUS
<1>2. NoPos \in Record /\ NoPos.at = "none" /\ NoPos.remaining = 0
  BY DEF NoPos, Record, Stages
<1>3. \A s \in Signals : pos[s] = NoPos /\ coins[s] = 0
  BY <1>1 DEF Init
<1>4. \A s \in Signals : RecordOK(pos[s], coins[s], kind, filters)
  BY <1>2, <1>3 DEF RecordOK, Without
<1>5. cash \in Int /\ quote \in Int
  BY <1>1, Parameters DEF Init
<1>6. QED
  BY <1>1, <1>2, <1>4, <1>5 DEF Init, Inv

LEMMA NextInv == Inv /\ [Next]_vars => Inv'
<1>1. SUFFICES ASSUME Inv, [Next]_vars PROVE Inv'
  OBVIOUS
<1>2. CASE UNCHANGED vars
  BY <1>1, <1>2, StutterStep
<1>3. CASE Heartbeat
  BY <1>1, <1>3, HeartbeatStep
<1>4. ASSUME NEW s \in Signals,
             \/ HandleSignal(s) \/ Activate(s) \/ Release(s) \/ Snapshot(s)
             \/ \E open \in Opens : CancelPending(s, open) \/ FillPending(s, open) \/ ExchangeBuys(s, open)
             \/ \E price \in Exits :
                  \/ \E qty \in 1 .. coins[s] : ExchangeSells(s, qty, price)
                  \/ \E rest, kept \in 0 .. pos[s].remaining : StepAndSell(s, rest, kept, price)
                  \/ SellRest(s, price)
      PROVE  Inv'
  <2>1. CASE HandleSignal(s)
    BY <1>1, <2>1, EntryStep
  <2>2. CASE Activate(s)
    BY <1>1, <2>2, ActivateStep
  <2>3. CASE Release(s)
    BY <1>1, <2>3, ReleaseStep
  <2>4. CASE Snapshot(s)
    BY <1>1, <2>4, SnapshotStep
  <2>5. ASSUME NEW open \in Opens, CancelPending(s, open) PROVE Inv'
    BY <1>1, <2>5, CancelStep
  <2>6. ASSUME NEW open \in Opens, FillPending(s, open) PROVE Inv'
    BY <1>1, <2>6, FillStep
  <2>7. ASSUME NEW open \in Opens, ExchangeBuys(s, open) PROVE Inv'
    BY <1>1, <2>7, BuyStep
  <2>8. ASSUME NEW price \in Exits, NEW qty \in 1 .. coins[s], ExchangeSells(s, qty, price) PROVE Inv'
    BY <1>1, <2>8, ExchangeSellsStep
  <2>9. ASSUME NEW price \in Exits, NEW rest \in 0 .. pos[s].remaining, NEW kept \in 0 .. pos[s].remaining,
               StepAndSell(s, rest, kept, price)
        PROVE  Inv'
    BY <1>1, <2>9, StepStep
  <2>10. ASSUME NEW price \in Exits, SellRest(s, price) PROVE Inv'
    BY <1>1, <2>10, SellRestStep
  <2>11. QED
    BY <1>4, <2>1, <2>2, <2>3, <2>4, <2>5, <2>6, <2>7, <2>8, <2>9, <2>10
<1>5. QED
  BY <1>1, <1>2, <1>3, <1>4 DEF Next

LEMMA Invariance == Spec => []Inv
  BY InitInv, NextInv, PTL DEF Spec

-----------------------------------------------------------------------------
(* What the invariant gives *)

LEMMA InvTypes == Inv => TypeOK
<1>1. SUFFICES ASSUME Inv PROVE TypeOK
  OBVIOUS
<1>2. \A s \in Signals : filters # Unfiltered => pos[s].remaining >= 0 /\ coins[s] >= 0
  BY <1>1 DEF Inv, RecordOK
<1>3. QED
  BY <1>1, <1>2, FiltersKnown DEF Inv, TypeOK, Record, LongOnly

\* The values of the account, and that with the filters of the exchange no position
\* is ever of a negative quantity.
THEOREM TypeCorrect == Spec => []TypeOK
  BY Invariance, InvTypes, PTL

\* The equity is at most the book, and the book when no fill is under way: a record
\* never counts more than the coins that are there.
LEMMA InvEquity == Inv => EquityTrue
<1>1. SUFFICES ASSUME Inv, Paper, LongOnly
               PROVE  /\ Equity <= Book
                      /\ (\A s \in Signals : ~Between(s)) => Equity = Book
  BY DEF EquityTrue
<1> DEFINE T == {s \in Signals : pos[s].at = "held"}
           g == [s \in Signals |-> coins[s] * pos[s].entry]
           cost == SumFunctionOnSet(Costs, T)
           worth == SumFunctionOnSet(g, Signals)
<1>2. kind = "paper" /\ cash \in Int /\ Equity = cash + cost /\ Book = cash + worth
  BY <1>1 DEF Paper, Inv, Equity, OpenCost, Book
<1>3. IsFiniteSet(Signals) /\ T \in SUBSET Signals /\ IsFiniteSet(T)
  <2>1. T \in SUBSET Signals
    OBVIOUS
  <2>2. IsFiniteSet(Signals) /\ IsFiniteSet(T)
    BY SignalAssumption, FS_Subset
  <2>3. QED
    BY <2>1, <2>2
<1>4. ASSUME NEW s \in Signals
      PROVE  /\ g[s] = coins[s] * pos[s].entry /\ g[s] \in Int /\ g[s] >= 0
             /\ Costs[s] = pos[s].remaining * pos[s].entry /\ Costs[s] \in Int
  <2>1. coins[s] \in Nat /\ pos[s].entry \in Nat
    BY <1>1, Before DEF LongOnly
  <2>2. g[s] = coins[s] * pos[s].entry
    OBVIOUS
  <2> HIDE DEF g
  <2>3. coins[s] * pos[s].entry \in Nat
    BY <2>1
  <2>4. QED
    BY <1>1, <2>2, <2>3, CostsAre
<1>5. ASSUME NEW s \in T PROVE Costs[s] <= g[s]
  <2> DEFINE m == pos[s].remaining
             c == coins[s]
             e == pos[s].entry
  <2>1. m \in Int /\ c \in Int /\ e \in Nat /\ m <= c
    BY <1>1, <1>2, Before DEF RecordOK
  <2>2. Costs[s] = m * e /\ g[s] = c * e
    BY <1>4
  <2> HIDE DEF m, c, e, g
  <2>3. m * e <= c * e
    BY <2>1
  <2>4. QED
    BY <2>2, <2>3
<1>6. cost \in Int /\ worth \in Int /\ SumFunctionOnSet(g, T) \in Int
  <2> HIDE DEF g, T
  <2>1. cost \in Int
    BY <1>3, <1>4, SumType
  <2>2. worth \in Int
    BY <1>3, <1>4, SumType
  <2>3. SumFunctionOnSet(g, T) \in Int
    BY <1>3, <1>4, SumType
  <2>4. QED
    BY <2>1, <2>2, <2>3
<1>7. cost <= worth
  <2> HIDE DEF g, T
  <2>1. \A y \in Signals : g[y] \in Int /\ g[y] >= 0
    BY <1>4
  <2>2. \A y \in T : Costs[y] \in Int /\ Costs[y] <= g[y]
    BY <1>3, <1>4, <1>5
  <2>3. QED
    BY <1>3, <2>1, <2>2, SumBelow
<1>8. ASSUME \A s \in Signals : ~Between(s) PROVE cost = worth
  <2>1. ASSUME NEW s \in T PROVE g[s] = Costs[s]
    <3>1. coins[s] = pos[s].remaining
      BY <1>8 DEF Between
    <3>2. QED
      BY <1>4, <3>1
  <2>2. ASSUME NEW s \in Signals \ T PROVE g[s] <= 0
    <3>1. pos[s].at \in Without
      <4>1. pos[s].at \in Stages /\ pos[s].at \notin {"buying", "lost"} /\ pos[s].at # "held"
        BY <1>1, <1>2, Before DEF RecordOK
      <4>2. pos[s].at # "bought"
        BY <1>8 DEF Between
      <4>3. QED
        BY <4>1, <4>2 DEF Stages, Without
    <3>2. coins[s] = 0 /\ pos[s].entry \in Nat
      BY <1>1, <3>1, Before DEF RecordOK
    <3>3. QED
      BY <1>4, <3>2
  <2> HIDE DEF g, T
  <2>3. SumFunctionOnSet(g, Signals) <= SumFunctionOnSet(g, T)
    BY <1>3, <1>4, <2>2, SumFalls
  <2>4. SumFunctionOnSet(g, T) = cost
    <3>1. \A y \in T : Costs[y] \in Int /\ g[y] = Costs[y]
      BY <1>3, <1>4, <2>1
    <3>2. QED
      BY <1>3, <3>1, SumSame
  <2>5. QED
    BY <1>6, <1>7, <2>3, <2>4
<1> HIDE DEF cost, worth
<1>9. QED
  BY <1>2, <1>6, <1>7, <1>8

\* wallet.ts:33 in paper no entry is sized with more than the account is worth at
\* cost, and with exactly that when no fill is under way.
THEOREM EquityIsTrue == Spec => []EquityTrue
  BY Invariance, InvEquity, PTL

-----------------------------------------------------------------------------
(* An entry keeps the two percentages *)

\* Only a fill makes a pending entry a bought one.
LEMMA OnlyFills ==
  ASSUME Inv, Next, NEW s \in Signals, pos[s].at = "pending", pos'[s].at = "bought"
  PROVE  \E open \in Opens : FillPending(s, open)
<1>1. ASSUME NEW t \in Signals, t # s, NEW r, pos' = [pos EXCEPT ![t] = r]
      PROVE  FALSE
  <2>1. pos'[s] = pos[s]
    BY <1>1 DEF Inv
  <2>2. QED
    BY <2>1
<1>2. ASSUME NEW a, a # "bought", NEW r, r.at = a, pos' = [pos EXCEPT ![s] = r]
      PROVE  FALSE
  <2>1. pos'[s] = r
    BY <1>2 DEF Inv
  <2>2. QED
    BY <1>2, <2>1
<1>3. pos' # pos
  <2>1. SUFFICES ASSUME pos' = pos PROVE FALSE
    OBVIOUS
  <2>2. QED
    BY <2>1
<1>4. ASSUME NEW t \in Signals, NEW open \in Opens, FillPending(t, open)
      PROVE  \E o \in Opens : FillPending(s, o)
  <2>1. pos' = [pos EXCEPT ![t] = Given("bought", Sized(open).qty, QuoteEntry(open))]
    BY <1>4 DEF FillPending, Given
  <2>2. t = s
    BY <1>1, <2>1
  <2>3. QED
    BY <1>4, <2>2
<1>5. ASSUME NEW t \in Signals, NEW open \in Opens, CancelPending(t, open) PROVE FALSE
  <2>1. pos' = [pos EXCEPT ![t] = Given("refused", 0, 0)]
    BY <1>5, Before, Parts DEF CancelPending
  <2>2. QED
    BY <1>1, <1>2, <2>1, GivenFields
<1>6. ASSUME NEW t \in Signals, pos[t].at # "pending", NEW r, pos' = [pos EXCEPT ![t] = r] PROVE FALSE
  BY <1>1, <1>6
<1>7. ASSUME NEW t \in Signals, HandleSignal(t) PROVE FALSE
  <2>1. pos[t].at = "none" /\ \E r : pos' = [pos EXCEPT ![t] = r]
    BY <1>7 DEF HandleSignal
  <2>2. QED
    BY <1>6, <2>1
<1>8. ASSUME NEW t \in Signals, Activate(t) \/ Release(t) \/ Snapshot(t) PROVE FALSE
  <2>1. pos[t].at # "pending"
    BY <1>8 DEF Activate, Release, Snapshot
  <2>2. \E a : pos' = [pos EXCEPT ![t].at = a]
    BY <1>8 DEF Activate, Release, Snapshot
  <2>3. PICK a : pos' = [pos EXCEPT ![t].at = a]
    BY <2>2
  <2>4. pos' = [pos EXCEPT ![t] = [pos[t] EXCEPT !.at = a]]
    BY <2>3 DEF Inv
  <2>5. QED
    BY <1>6, <2>1, <2>4
<1>9. ASSUME NEW t \in Signals, NEW price \in Opens, ExchangeBuys(t, price) PROVE FALSE
  <2>1. pos[t].at # "pending"
    BY <1>9 DEF ExchangeBuys
  <2>2. t = s
    <3>1. pos'[s] # pos[s]
      OBVIOUS
    <3>2. \A u \in Signals \ {t} : pos'[u] = pos[u]
      BY <1>9 DEF ExchangeBuys, Inv
    <3>3. QED
      BY <3>1, <3>2
  <2>3. QED
    BY <2>1, <2>2
<1>10. ASSUME NEW t \in Signals, NEW price \in Exits, NEW rest, NEW kept, StepAndSell(t, rest, kept, price)
       PROVE  FALSE
  <2>1. pos[t].at # "pending" /\ pos' = [pos EXCEPT ![t] = [pos[t] EXCEPT !.remaining = rest]]
    BY <1>10 DEF StepAndSell, Inv
  <2>2. QED
    BY <1>6, <2>1
<1>11. ASSUME NEW t \in Signals, NEW price, SellRest(t, price) \/ \E qty : ExchangeSells(t, qty, price)
       PROVE  FALSE
  BY <1>3, <1>11 DEF SellRest, ExchangeSells
<1>12. ~Heartbeat
  BY <1>3 DEF Heartbeat
<1>13. QED
  BY <1>4, <1>5, <1>7, <1>8, <1>9, <1>10, <1>11, <1>12 DEF Next

LEMMA FillKeepsRisk ==
  ASSUME Inv, NEW s \in Signals, NEW open \in Opens, FillPending(s, open),
         LongOnly, pos'[s].remaining > 0, Equity >= 0
  PROVE  Within(pos'[s].remaining, pos'[s].entry, Slippage)
<1> DEFINE q == Sized(open).qty
           e == QuoteEntry(open)
           r == Given("bought", q, e)
<1>1. /\ q \in Int /\ e \in Nat /\ kind = "paper" /\ Moves(s, r, q)
  BY Filled
<1>2. open \in Nat \ {0} /\ Slippage \in Nat /\ Stop \in Nat /\ PerTradePct \in Nat /\ NotionalCapPct \in Nat
  BY Parameters
<1>3. pos'[s] = r
  BY <1>1 DEF Moves, Inv
<1>4. pos'[s].remaining = q /\ pos'[s].entry = e
  BY <1>3, GivenFields
<1>6. Equity \in Nat /\ Equity <= Book /\ Book \in Int
  <2>1. Equity \in Int /\ Equity <= Book
    BY <1>1, EquityIsAmount, InvEquity DEF EquityTrue, Paper
  <2>2. Book \in Int
    <3> DEFINE g == [t \in Signals |-> coins[t] * pos[t].entry]
    <3>1. \A t \in Signals : g[t] \in Int
      <4>1. SUFFICES ASSUME NEW t \in Signals PROVE g[t] \in Int
        OBVIOUS
      <4>2. coins[t] \in Int /\ pos[t].entry \in Int
        BY Before
      <4>3. g[t] = coins[t] * pos[t].entry
        OBVIOUS
      <4> HIDE DEF g
      <4>4. QED
        BY <4>2, <4>3
    <3>2. SumFunctionOnSet(g, Signals) \in Int
      <4> HIDE DEF g
      <4>1. QED
        BY <3>1, SignalAssumption, SumType
    <3>3. QED
      BY <3>2 DEF Book, Inv
  <2>3. QED
    BY <2>1, <2>2
<1>7. Stop <= open
  BY <1>1, <1>2, <1>4, SizedIs
<1>8. /\ q \in Nat
      /\ 100 * q * (open - Stop) <= PerTradePct * Equity
      /\ 100 * q * open <= NotionalCapPct * Equity
  <2>1. SizingInput(Equity, open, Stop, filters)
    BY <1>2, <1>6, <1>7, FiltersKnown DEF SizingInput
  <2>2. QED
    BY <2>1, SizeWithinLimits DEF Sized
<1> HIDE DEF q
<1>9. PerTradePct * Equity <= PerTradePct * Book /\ NotionalCapPct * Equity <= NotionalCapPct * Book
  <2> DEFINE b == Equity
             k == Book
  <2>1. b \in Nat /\ k \in Int /\ b <= k
    BY <1>6
  <2> HIDE DEF b, k
  <2>2. PerTradePct * b <= PerTradePct * k
    BY <1>2, <2>1
  <2>3. NotionalCapPct * b <= NotionalCapPct * k
    BY <1>2, <2>1
  <2>4. QED
    BY <2>2, <2>3 DEF b, k
<1>10. 100 * q * (open - Stop) \in Int /\ 100 * q * open \in Int
  BY <1>2, <1>8
<1>11. PerTradePct * Equity \in Int /\ PerTradePct * Book \in Int
  BY <1>2, <1>6
<1>12. NotionalCapPct * Equity \in Int /\ NotionalCapPct * Book \in Int
  BY <1>2, <1>6
<1>13. 100 * q * (open - Stop) <= PerTradePct * Book /\ 100 * q * open <= NotionalCapPct * Book
  BY <1>8, <1>9, <1>10, <1>11, <1>12
<1>14. e = open + Slippage
  BY DEF QuoteEntry
<1> HIDE DEF e
<1>15. 100 * q * (e - Stop) = 100 * q * (open - Stop) + 100 * q * Slippage
       /\ 100 * q * e = 100 * q * open + 100 * q * Slippage
  <2>1. \A x, o, f, g \in Int : 100 * x * (o + f - g) = 100 * x * (o - g) + 100 * x * f
                            /\ 100 * x * (o + f) = 100 * x * o + 100 * x * f
    BY Z3
  <2>2. QED
    BY <1>2, <1>8, <1>14, <2>1
<1>16. 100 * q * Slippage \in Int
  BY <1>2, <1>8
<1>17. /\ 100 * q * (e - Stop) <= PerTradePct * Book + 100 * q * Slippage
       /\ 100 * q * e <= NotionalCapPct * Book + 100 * q * Slippage
  BY <1>10, <1>11, <1>12, <1>13, <1>15, <1>16
<1>18. QED
  BY <1>4, <1>17 DEF Within

\* manager.ts:221, paper.ts:24 a paper entry risks and costs, at the price it is bought
\* for, per_trade_pct and notional_cap_pct of the account as it stands when it is filled
\* and the slippage of its quantity at most.
THEOREM RiskIsBounded == Spec => RiskAtFill
<1> DEFINE Kept ==
      \A s \in Signals : pos[s].at = "pending" /\ pos'[s].at = "bought"
          /\ LongOnly /\ pos'[s].remaining > 0 /\ Equity >= 0
        => Within(pos'[s].remaining, pos'[s].entry, Slippage)
<1>1. Inv /\ [Next]_vars => [Kept]_vars
  <2>1. SUFFICES ASSUME Inv, Next PROVE Kept
    OBVIOUS
  <2>2. SUFFICES ASSUME NEW s \in Signals, pos[s].at = "pending", pos'[s].at = "bought",
                        LongOnly, pos'[s].remaining > 0, Equity >= 0
                 PROVE  Within(pos'[s].remaining, pos'[s].entry, Slippage)
    OBVIOUS
  <2>3. PICK open \in Opens : FillPending(s, open)
    BY <2>1, <2>2, OnlyFills
  <2>4. QED
    BY <2>1, <2>2, <2>3, FillKeepsRisk
<1>2. QED
  BY <1>1, Invariance, PTL DEF Spec, RiskAtFill
=============================================================================
