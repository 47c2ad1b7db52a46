-------------------------- MODULE ExitPolicyProofs --------------------------
(***************************************************************************)
(* Proofs about ExitPolicy for every set of prices, quantities and exit    *)
(* parameters.  Inv is the inductive invariant; the lemmas say what each   *)
(* part of step() does to a position.  The last part proves that the       *)
(* Python reference returns the same events.                               *)
(***************************************************************************)
EXTENDS ExitPolicyParity, SequenceTheorems, TLAPS

PosType ==
  [entry : Int, qty : Int, sl_initial : Int, sl : Int, tp : Int,
   tp1 : Int, remaining_qty : Int, highest_high : Int,
   lowest_low : Int, tp1_done : BOOLEAN, state : State,
   bars : Nat, fills : Seq(FillType)]

\* Integer division by a positive divisor rounds down.
LEMMA DivBounds ==
  ASSUME NEW a \in Int, NEW d \in Nat \ {0}
  PROVE  /\ a \div d \in Int
         /\ d * (a \div d) <= a
         /\ a < d * (a \div d) + d
BY SMT

\* r8(qty * tp1_fraction) sells between nothing and everything.
LEMMA PartialQtyBounds ==
  ASSUME NEW p, p.qty \in Nat, NEW q \in ExitParams, q.tp1_num <= q.tp1_den
  PROVE  PartialQty(p, q) \in Int /\ 0 <= PartialQty(p, q) /\ PartialQty(p, q) <= p.qty
<1> DEFINE n == p.qty  num == q.tp1_num  den == q.tp1_den
           k == PartialQty(p, q)
<1>1. n \in Nat /\ num \in Nat /\ den \in Nat /\ den > 0
  BY DEF ExitParams
<1>2. /\ k \in Int
      /\ (2 * den) * k <= 2 * n * num + den
      /\ 2 * n * num + den < (2 * den) * k + (2 * den)
  <2>1. 2 * n * num + den \in Int /\ 2 * den \in Nat \ {0}
    BY <1>1
  <2> QED BY <2>1, DivBounds DEF PartialQty
<1> HIDE DEF k, n, num, den
<1>3. n * num <= n * den /\ 0 <= n * num
  BY <1>1, num <= den, SMT DEF num, den
<1>4. k <= n
  BY <1>1, <1>2, <1>3, SMT
<1>5. 0 <= k
  BY <1>1, <1>2, <1>3, SMT
<1> QED BY <1>2, <1>4, <1>5 DEF k, n

-----------------------------------------------------------------------------
(* What is known of a live position between two calls. *)

\* One partial fill was made if and only if TP1 is done, and what it sold is
\* missing from what remains.
Ledger(p) ==
  /\ p.qty \in Nat
  /\ p.remaining_qty \in Nat
  /\ Sold(p) + p.remaining_qty = p.qty
  /\ Len(p.fills) = IF p.tp1_done THEN 1 ELSE 0

\* The stop never went below its first value, which the market never reached.
Sheltered(p) ==
  /\ p.sl_initial <= p.sl
  /\ p.sl_initial < p.lowest_low

\* The configured parameters are ExitParams records.
LEMMA ParamType == ParamSet \subseteq ExitParams
BY ParamAssumption

\* A bar's prices are numbers in the order low, close, high.
LEMMA BarType ==
  ASSUME NEW b \in Bars
  PROVE  /\ b.high \in Nat /\ b.low \in Nat /\ b.close \in Nat /\ b.atr \in Nat
         /\ b.low <= b.close /\ b.close <= b.high
BY PriceAssumption DEF Bars

SameHolding(o, p) ==
  /\ o.entry = p.entry /\ o.qty = p.qty /\ o.sl_initial = p.sl_initial
  /\ o.sl = p.sl /\ o.tp = p.tp /\ o.tp1 = p.tp1 /\ o.tp1_done = p.tp1_done
  /\ o.remaining_qty = p.remaining_qty /\ o.state = p.state /\ o.fills = p.fills

\* Recording a bar changes only the extremes and the bar count.
LEMMA ObserveFacts ==
  ASSUME NEW p \in PosType, NEW b \in Bars
  PROVE  LET o == Observe(p, b) IN
         /\ o \in PosType
         /\ SameHolding(o, p)
         /\ o.bars = p.bars + 1
         /\ Ledger(p) => Ledger(o)
         /\ (Sheltered(p) /\ b.low > p.sl) => Sheltered(o)
<1> USE DEF PosType
<1>1. Observe(p, b) \in PosType
  <2> DEFINE x == [p EXCEPT !.bars = p.bars + 1]
             y == [x EXCEPT !.highest_high = Larger(p.highest_high, b.high)]
             z == [y EXCEPT !.lowest_low = Smaller(p.lowest_low, b.low)]
  <2>1. Observe(p, b) = z
    BY DEF Observe
  <2>2. /\ p.bars + 1 \in Nat
        /\ Larger(p.highest_high, b.high) \in Int
        /\ Smaller(p.lowest_low, b.low) \in Int
    BY BarType DEF Larger, Smaller
  <2>3. x \in PosType
    BY <2>2
  <2> HIDE DEF x
  <2>4. y \in PosType
    BY <2>2, <2>3
  <2> HIDE DEF y
  <2>5. z \in PosType
    BY <2>2, <2>4
  <2> HIDE DEF z
  <2> QED BY <2>1, <2>5
<1>2. /\ Observe(p, b).bars = p.bars + 1
      /\ SameHolding(Observe(p, b), p)
  BY DEF Observe, SameHolding
<1>3. Ledger(p) => Ledger(Observe(p, b))
  BY DEF Observe, Ledger, Sold, FillQty
<1>4. (Sheltered(p) /\ b.low > p.sl) => Sheltered(Observe(p, b))
  BY BarType DEF Observe, Sheltered, Smaller
<1> QED BY <1>1, <1>2, <1>3, <1>4

\* What Append does to a sequence.
LEMMA AppendFacts ==
  ASSUME NEW S, NEW s \in Seq(S), NEW e \in S
  PROVE  /\ Append(s, e) \in Seq(S)
         /\ Len(s) \in Nat
         /\ Len(Append(s, e)) = Len(s) + 1
         /\ Append(s, e)[Len(s) + 1] = e
         /\ \A i \in 1 .. Len(s) : Append(s, e)[i] = s[i] /\ s[i] \in S
OBVIOUS

\* The fills recorded by emit() have the type of fills.
LEMMA FillIsFill ==
  ASSUME NEW reason \in OwnReason \cup Outside \cup {Null}, NEW type \in {"tp_partial", "closed"},
         NEW price \in Int, NEW qty \in Int
  PROVE  Fill(type, reason, price, qty) \in FillType
BY DEF Fill, FillType

\* Closing sells exactly what remains, as the last fill.
LEMMA CloseAtFacts ==
  ASSUME NEW p \in PosType, NEW reason \in OwnReason \cup Outside, NEW price \in Int
  PROVE  LET c == CloseAt(p, reason, price) IN
         /\ c \in PosType
         /\ c.state = "closed"
         /\ c.remaining_qty = 0
         /\ c.fills[Len(c.fills)] = Fill("closed", reason, price, p.remaining_qty)
         /\ c.sl = p.sl /\ c.tp = p.tp
         /\ Ledger(p) => (Sold(c) = c.qty /\ Len(c.fills) <= 2)
         /\ c.sl_initial = p.sl_initial /\ c.lowest_low = p.lowest_low
<1> DEFINE f == Fill("closed", reason, price, p.remaining_qty)
           c == CloseAt(p, reason, price)
<1>1. f \in FillType
  BY FillIsFill DEF PosType
<1>2. Append(p.fills, f) \in Seq(FillType)
  BY <1>1 DEF PosType
<1>3. c \in PosType /\ c.fills = Append(p.fills, f) /\ c.state = "closed" /\ c.remaining_qty = 0
  <2>1. c.fills = Append(p.fills, f) /\ c.state = "closed" /\ c.remaining_qty = 0
    BY DEF PosType, CloseAt
  <2>2. "closed" \in State /\ 0 \in Int
    BY DEF State
  <2> DEFINE x == [p EXCEPT !.fills = Append(p.fills, f)]
             y == [x EXCEPT !.remaining_qty = 0]
             z == [y EXCEPT !.state = "closed"]
  <2>3. c = z
    BY DEF CloseAt
  <2> HIDE DEF f, c
  <2>4. x \in PosType
    BY <1>2 DEF PosType
  <2> HIDE DEF x
  <2>5. y \in PosType
    BY <2>2, <2>4 DEF PosType
  <2> HIDE DEF y
  <2>6. z \in PosType
    BY <2>2, <2>5 DEF PosType
  <2> HIDE DEF z
  <2> QED BY <2>1, <2>3, <2>6
<1>4. c.sl = p.sl /\ c.tp = p.tp /\ c.qty = p.qty
      /\ c.sl_initial = p.sl_initial /\ c.lowest_low = p.lowest_low
  BY DEF PosType, CloseAt
<1>5. f.qty = p.remaining_qty
  BY DEF Fill
<1> HIDE DEF f, c
<1>6. /\ Len(p.fills) \in Nat
      /\ Len(c.fills) = Len(p.fills) + 1
      /\ c.fills[Len(p.fills) + 1] = f
      /\ \A i \in 1 .. Len(p.fills) : c.fills[i] = p.fills[i] /\ p.fills[i] \in FillType
  <2>1. p.fills \in Seq(FillType)
    BY DEF PosType
  <2> QED BY <1>1, <1>3, <2>1, AppendFacts
<1>7. ASSUME Ledger(p) PROVE Sold(c) = c.qty /\ Len(c.fills) <= 2
  <2>1. CASE p.tp1_done
    <3>1. Len(p.fills) = 1 /\ Len(c.fills) = 2
      BY <1>6, <1>7, <2>1 DEF Ledger
    <3>2. c.fills[1] = p.fills[1] /\ p.fills[1] \in FillType /\ c.fills[2] = f
      BY <1>6, <3>1
    <3>3. p.fills[1].qty \in Int
      BY <3>2 DEF FillType
    <3>4. p.fills[1].qty + p.remaining_qty = p.qty
      BY <1>7, <3>1, <3>3 DEF Ledger, Sold, FillQty
    <3> QED BY <3>1, <3>2, <3>4, <1>4, <1>5 DEF Sold, FillQty
  <2>2. CASE ~p.tp1_done
    <3>1. Len(p.fills) = 0 /\ Len(c.fills) = 1 /\ c.fills[1] = f
      BY <1>6, <1>7, <2>2 DEF Ledger
    <3> QED BY <1>7, <3>1, <1>4, <1>5 DEF Sold, FillQty, Ledger
  <2> QED BY <2>1, <2>2
<1> QED BY <1>3, <1>4, <1>6, <1>7 DEF c, f

\* TP1 sells a part of what remains and leaves the stop, target and extremes alone.
LEMMA TakePartialFacts ==
  ASSUME NEW p \in PosType, NEW q \in ParamSet, Ledger(p), ~p.tp1_done
  PROVE  LET t == TakePartial(p, q) IN
         /\ t \in PosType
         /\ Ledger(t)
         /\ t.remaining_qty = p.remaining_qty - PartialQty(p, q)
         /\ t.sl = p.sl /\ t.tp = p.tp /\ t.state = p.state
         /\ t.sl_initial = p.sl_initial /\ t.lowest_low = p.lowest_low
<1> DEFINE k == PartialQty(p, q)
           f == Fill("tp_partial", Null, p.tp1, k)
           t == TakePartial(p, q)
<1>1. k \in Int /\ 0 <= k /\ k <= p.qty
  BY ParamAssumption, PartialQtyBounds DEF Ledger
<1>2. /\ p.fills \in Seq(FillType) /\ Len(p.fills) = 0
      /\ p.remaining_qty = p.qty /\ p.remaining_qty \in Nat
  BY DEF PosType, Ledger, Sold, FillQty
<1>3. f \in FillType /\ f.qty = k
  <2>1. p.tp1 \in Int
    BY DEF PosType
  <2>2. f \in FillType
    BY <1>1, <2>1, FillIsFill
  <2> QED BY <2>2 DEF Fill
<1>4. /\ t.fills = Append(p.fills, f) /\ t.remaining_qty = p.remaining_qty - k
      /\ t.tp1_done = TRUE /\ t.qty = p.qty /\ t.state = p.state
      /\ t.sl = p.sl /\ t.tp = p.tp
      /\ t.sl_initial = p.sl_initial /\ t.lowest_low = p.lowest_low
  BY DEF TakePartial, PosType
<1>5. Append(p.fills, f) \in Seq(FillType)
  BY <1>2, <1>3, AppendFacts
<1>6. t \in PosType
  <2> DEFINE x == [p EXCEPT !.fills = Append(p.fills, f)]
             y == [x EXCEPT !.remaining_qty = p.remaining_qty - k]
             z == [y EXCEPT !.tp1_done = TRUE]
  <2>1. t = z
    BY DEF TakePartial
  <2>2. p.remaining_qty - k \in Int
    BY <1>1, <1>2
  <2> HIDE DEF f, k, t
  <2>3. x \in PosType
    BY <1>5 DEF PosType
  <2> HIDE DEF x
  <2>4. y \in PosType
    BY <2>2, <2>3 DEF PosType
  <2> HIDE DEF y
  <2>5. z \in PosType
    BY <2>4 DEF PosType
  <2> HIDE DEF z
  <2> QED BY <2>1, <2>5
<1> HIDE DEF f, k, t
<1>7. Len(t.fills) = 1 /\ t.fills[1] = f
  BY <1>2, <1>3, <1>4, AppendFacts
<1>8. Ledger(t)
  BY <1>1, <1>2, <1>3, <1>4, <1>7 DEF Ledger, Sold, FillQty
<1> QED BY <1>4, <1>6, <1>8 DEF t, k

\* The position after the observation and TP1, in a bar that stays above the stop.
LEMMA AfterPartialFacts ==
  ASSUME NEW p \in PosType, NEW b \in Bars, NEW q \in ParamSet,
         Ledger(p), Sheltered(p), p.remaining_qty > 0, b.low > p.sl
  PROVE  LET a == AfterPartial(p, b, q) IN
         /\ a \in PosType
         /\ Ledger(a) /\ Sheltered(a)
         /\ a.sl = p.sl /\ a.tp = p.tp /\ a.state = p.state
         /\ ~SoldOut(p, b, q) => a.remaining_qty > 0
<1> DEFINE o == Observe(p, b)
<1>1. o \in PosType /\ SameHolding(o, p) /\ Ledger(o) /\ Sheltered(o)
  BY ObserveFacts
<1>2. PartialQty(o, q) = PartialQty(p, q) /\ PartialQty(p, q) \in Int
  BY <1>1, ParamAssumption, PartialQtyBounds DEF PartialQty, SameHolding, Ledger
<1> HIDE DEF o
<1>3. CASE TakesPartial(p, b)
  <2>1. AfterPartial(p, b, q) = TakePartial(o, q)
    BY <1>3 DEF AfterPartial, o
  <2>2. ~o.tp1_done
    BY <1>1, <1>3 DEF TakesPartial, SameHolding
  <2> DEFINE t == TakePartial(o, q)
  <2>3. /\ t \in PosType /\ Ledger(t)
        /\ t.remaining_qty = o.remaining_qty - PartialQty(o, q)
        /\ t.sl = o.sl /\ t.tp = o.tp /\ t.state = o.state
        /\ t.sl_initial = o.sl_initial /\ t.lowest_low = o.lowest_low
    BY <1>1, <2>2, TakePartialFacts
  <2> HIDE DEF t
  <2>4. Sheltered(t)
    BY <1>1, <2>3 DEF Sheltered
  <2>5. ~SoldOut(p, b, q) => t.remaining_qty > 0
    BY <1>1, <1>2, <1>3, <2>3 DEF SoldOut, SameHolding, Ledger
  <2> QED BY <1>1, <2>1, <2>3, <2>4, <2>5 DEF t, SameHolding
<1>4. CASE ~TakesPartial(p, b)
  BY <1>1, <1>4 DEF AfterPartial, SameHolding, o
<1> QED BY <1>3, <1>4

\* Breakeven only raises the stop ...
LEMMA BreakevenFacts ==
  ASSUME NEW p \in PosType, NEW b \in Bars, NEW q \in ParamSet,
         Ledger(p), Sheltered(p), p.state # "closed"
  PROVE  LET n == Breakeven(p, b, q) IN
         /\ n \in PosType
         /\ Ledger(n) /\ Sheltered(n)
         /\ n.sl >= p.sl /\ n.tp = p.tp /\ n.state # "closed"
         /\ n.remaining_qty = p.remaining_qty /\ n.tp1_done = p.tp1_done
<1>1. CASE ReachesBreakeven(p, b, q)
  <2> DEFINE be == Larger(p.sl, BreakevenStop(p, q))
             x == [p EXCEPT !.sl = be]
             n == [x EXCEPT !.state = "breakeven"]
  <2>1. Breakeven(p, b, q) = n
    BY <1>1 DEF Breakeven
  <2>2. BreakevenStop(p, q) \in Int
    <3>1. p.entry * 2 * q.fee \in Int
      BY ParamType DEF PosType, ExitParams
    <3>2. (p.entry * 2 * q.fee) \div FeeScale \in Int
      BY <3>1, ScaleAssumption, DivBounds
    <3> QED BY <3>2 DEF BreakevenStop, PosType
  <2>3. be \in Int /\ be >= p.sl /\ "breakeven" \in State
    BY <2>2 DEF Larger, PosType, State
  <2> HIDE DEF be
  <2>4. x \in PosType
    BY <2>3 DEF PosType
  <2>5. n \in PosType
    <3> HIDE DEF x
    <3> QED BY <2>3, <2>4 DEF PosType
  <2>6. /\ n.sl = be /\ n.tp = p.tp /\ n.state = "breakeven" /\ n.qty = p.qty
        /\ n.remaining_qty = p.remaining_qty /\ n.fills = p.fills /\ n.tp1_done = p.tp1_done
        /\ n.sl_initial = p.sl_initial /\ n.lowest_low = p.lowest_low
    BY DEF PosType
  <2> HIDE DEF n
  <2>7. Ledger(n) /\ Sheltered(n)
    BY SMTT(30), <2>3, <2>5, <2>6 DEF Ledger, Sold, FillQty, Sheltered, PosType
  <2> QED BY <2>1, <2>3, <2>5, <2>6, <2>7
<1>2. CASE ~ReachesBreakeven(p, b, q)
  BY <1>2 DEF Breakeven, PosType
<1> QED BY <1>1, <1>2

\* ... and so does trailing, whatever the ATR.
LEMMA TrailFacts ==
  ASSUME NEW p \in PosType, NEW b \in Bars, NEW q \in ParamSet,
         Ledger(p), Sheltered(p), p.state # "closed"
  PROVE  LET n == Trail(p, b, q) IN
         /\ n \in PosType
         /\ Ledger(n) /\ Sheltered(n)
         /\ n.sl >= p.sl /\ n.tp >= p.tp /\ n.state # "closed"
         /\ n.remaining_qty = p.remaining_qty /\ n.tp1_done = p.tp1_done
<1>1. CASE Trails(p)
  <2> DEFINE sl == TrailStop(p, b, q)
             tp == RatchetTarget(p, b, q)
             x == [p EXCEPT !.state = "trailing"]
             y == [x EXCEPT !.sl = sl]
             n == [y EXCEPT !.tp = tp]
  <2>1. Trail(p, b, q) = n
    BY <1>1 DEF Trail
  <2>2. sl \in Int /\ sl >= p.sl
    <3>1. q.trail_atr_k # Null => q.trail_atr_k * b.atr \in Int
      BY ParamType, BarType DEF ExitParams
    <3> QED BY <3>1 DEF TrailStop, Larger, PosType
  <2>3. tp \in Int /\ tp >= p.tp
    <3>1. q.tp_ratchet_atr # Null => q.tp_ratchet_atr * b.atr \in Int
      BY ParamType, BarType DEF ExitParams
    <3> QED BY <3>1 DEF RatchetTarget, Larger, PosType
  <2>4. "trailing" \in State
    BY DEF State
  <2> HIDE DEF sl, tp
  <2>5. n \in PosType
    <3>1. x \in PosType
      BY <2>4 DEF PosType
    <3> HIDE DEF x
    <3>2. y \in PosType
      BY <2>2, <3>1 DEF PosType
    <3> HIDE DEF y
    <3> QED BY <2>3, <3>2 DEF PosType
  <2>6. /\ n.sl = sl /\ n.tp = tp /\ n.state = "trailing" /\ n.qty = p.qty
        /\ n.remaining_qty = p.remaining_qty /\ n.fills = p.fills /\ n.tp1_done = p.tp1_done
        /\ n.sl_initial = p.sl_initial /\ n.lowest_low = p.lowest_low
    BY DEF PosType
  <2> HIDE DEF n
  <2>7. Ledger(n) /\ Sheltered(n)
    BY SMTT(30), <2>2, <2>5, <2>6 DEF Ledger, Sold, FillQty, Sheltered, PosType
  <2> QED BY <2>1, <2>2, <2>3, <2>5, <2>6, <2>7
<1>2. CASE ~Trails(p)
  BY <1>2 DEF Trail, PosType
<1> QED BY <1>1, <1>2

-----------------------------------------------------------------------------
(* The inductive invariant *)

Inv ==
  /\ TypeOK
  /\ IsLive => /\ Ledger(pos)
               /\ Sheltered(pos)
               /\ pos.remaining_qty > 0
  /\ ~IsLive => /\ Sold(pos) = pos.qty
                /\ Len(pos.fills) <= 2
                /\ pos.remaining_qty = 0
  /\ ClosedBy(pos, {"take_profit", "time"}) => pos.sl_initial < pos.lowest_low

\* TypeOK in terms of PosType.
LEMMA TypeSplit == TypeOK <=> (params \in ParamSet /\ pos \in PosType)
BY DEF TypeOK, PosType

\* A close of a position whose ledger balances re-establishes the invariant,
\* if it is not a close at the target or the time limit of a position the
\* market has taken through its initial stop.
LEMMA CloseKeepsInv ==
  ASSUME params \in ParamSet,
         NEW p \in PosType, Ledger(p),
         NEW reason \in OwnReason \cup Outside, NEW price \in Int,
         reason \in {"take_profit", "time"} => Sheltered(p),
         pos' = CloseAt(p, reason, price),
         UNCHANGED params
  PROVE  Inv'
<1> DEFINE c == CloseAt(p, reason, price)
<1>1. /\ c \in PosType /\ c.state = "closed" /\ c.remaining_qty = 0
      /\ c.fills[Len(c.fills)] = Fill("closed", reason, price, p.remaining_qty)
      /\ Sold(c) = c.qty /\ Len(c.fills) <= 2
      /\ c.sl_initial = p.sl_initial /\ c.lowest_low = p.lowest_low
  BY CloseAtFacts
<1> HIDE DEF c
<1>2. pos' = c
  BY DEF c
<1>3. TypeOK'
  BY <1>1, <1>2, TypeSplit DEF TypeOK, PosType
<1>4. ~IsLive'
  BY <1>1, <1>2 DEF IsLive
<1>5. ClosedBy(c, {"take_profit", "time"}) => reason \in {"take_profit", "time"}
  BY <1>1 DEF ClosedBy, Fill
<1>6. ClosedBy(c, {"take_profit", "time"}) => c.sl_initial < c.lowest_low
  BY <1>1, <1>5 DEF Sheltered
<1>7. /\ Sold(pos)' = Sold(c) /\ (pos.qty)' = c.qty /\ Len(pos.fills)' = Len(c.fills)
      /\ (pos.remaining_qty)' = c.remaining_qty
      /\ ClosedBy(pos, {"take_profit", "time"})' = ClosedBy(c, {"take_profit", "time"})
      /\ (pos.sl_initial)' = c.sl_initial /\ (pos.lowest_low)' = c.lowest_low
  BY <1>2 DEF Sold, FillQty, ClosedBy
<1> QED BY <1>1, <1>3, <1>4, <1>6, <1>7 DEF Inv

\* openPosition() establishes the invariant.
LEMMA InitInv == Init => Inv
<1> SUFFICES ASSUME Init PROVE Inv
  OBVIOUS
<1>1. PICK entry \in Price, qty \in Qty, sl \in Price, tp \in Price, tp1 \in Price \cup {Null} :
        /\ Openable(entry, sl, tp, tp1)
        /\ pos = OpenPosition(entry, qty, sl, tp, tp1, params)
  BY DEF Init
<1>2. /\ entry \in Nat /\ qty \in Nat /\ qty > 0 /\ sl \in Nat /\ tp \in Nat
      /\ sl < entry
      /\ tp1 # Null => tp1 \in Nat
  BY <1>1, PriceAssumption, QtyAssumption DEF Openable
<1>3. params \in ParamSet /\ params.tp1_r \in Nat
  BY ParamType DEF Init, ExitParams
<1>4. Tp1Default(entry, entry - sl, params) \in Int
  BY <1>2, <1>3 DEF Tp1Default
<1>5. pos \in PosType
  BY <1>1, <1>2, <1>4 DEF OpenPosition, PosType, State
<1>6. /\ pos.state = "open" /\ pos.fills = <<>> /\ pos.qty = qty /\ pos.remaining_qty = qty
      /\ pos.tp1_done = FALSE /\ pos.sl_initial = sl /\ pos.sl = sl /\ pos.lowest_low = entry
  BY <1>1 DEF OpenPosition
<1>7. Ledger(pos) /\ Sheltered(pos)
  BY <1>2, <1>6 DEF Ledger, Sold, FillQty, Sheltered
<1> QED BY <1>2, <1>3, <1>5, <1>6, <1>7, TypeSplit DEF Inv, IsLive, ClosedBy

\* The hard stop keeps the invariant, whatever the bar did before.
LEMMA StopOutInv == ASSUME Inv, NEW b \in Bars, StopOut(b) PROVE Inv'
<1>1. params \in ParamSet /\ pos \in PosType /\ Ledger(pos)
  BY TypeSplit DEF Inv, StopOut
<1>2. Observe(pos, b) \in PosType /\ Ledger(Observe(pos, b))
  BY <1>1, ObserveFacts
<1>3. "stop" \in OwnReason /\ pos.sl \in Int
  BY <1>1 DEF OwnReason, PosType
<1> QED BY <1>1, <1>2, <1>3, CloseKeepsInv DEF StopOut

\* What a bar that stays above the stop does before any close.
LEMMA AboveStop ==
  ASSUME Inv, IsLive, NEW b \in Bars, b.low > pos.sl
  PROVE  /\ params \in ParamSet /\ pos \in PosType
         /\ AfterPartial(pos, b, params) \in PosType
         /\ Ledger(AfterPartial(pos, b, params))
         /\ Sheltered(AfterPartial(pos, b, params))
         /\ AfterPartial(pos, b, params).sl = pos.sl
         /\ AfterPartial(pos, b, params).tp = pos.tp
         /\ AfterPartial(pos, b, params).state = pos.state
         /\ ~SoldOut(pos, b, params) => AfterPartial(pos, b, params).remaining_qty > 0
<1>1. params \in ParamSet /\ pos \in PosType /\ Ledger(pos) /\ Sheltered(pos) /\ pos.remaining_qty > 0
  BY TypeSplit DEF Inv
<1> QED BY <1>1, AfterPartialFacts

\* TP1 selling everything, or the target, keeps the invariant.
LEMMA TakeProfitInv == ASSUME Inv, NEW b \in Bars, TakeProfit(b) PROVE Inv'
<1>1. IsLive /\ b.low > pos.sl /\ UNCHANGED params
  BY DEF TakeProfit
<1>2. \E price \in Int : pos' = CloseAt(AfterPartial(pos, b, params), "take_profit", price)
  BY <1>1, AboveStop DEF TakeProfit, PosType
<1>3. "take_profit" \in OwnReason
  BY DEF OwnReason
<1> QED BY <1>1, <1>2, <1>3, AboveStop, CloseKeepsInv

\* The time stop keeps the invariant.
LEMMA TimeStopInv == ASSUME Inv, NEW b \in Bars, TimeStop(b) PROVE Inv'
<1>1. /\ IsLive /\ b.low > pos.sl /\ UNCHANGED params
      /\ pos' = CloseAt(AfterPartial(pos, b, params), "time", b.close)
  BY DEF TimeStop
<1>2. "time" \in OwnReason /\ b.close \in Int
  BY BarType DEF OwnReason
<1> QED BY <1>1, <1>2, AboveStop, CloseKeepsInv

\* A bar that closes nothing: the three stages in their order.
LEMMA HoldFacts ==
  ASSUME Inv, NEW b \in Bars, Hold(b)
  PROVE  /\ pos' \in PosType /\ Ledger(pos') /\ Sheltered(pos')
         /\ pos'.state # "closed" /\ pos'.remaining_qty > 0
         /\ pos'.sl >= pos.sl /\ pos'.tp >= pos.tp
<1> DEFINE p1 == AfterPartial(pos, b, params)
           p2 == Breakeven(p1, b, params)
           p3 == Trail(p2, b, params)
<1>1. IsLive /\ b.low > pos.sl /\ ~SoldOut(pos, b, params) /\ pos' = p3
  BY DEF Hold
<1>2. /\ params \in ParamSet /\ pos \in PosType
      /\ p1 \in PosType /\ Ledger(p1) /\ Sheltered(p1) /\ p1.state # "closed"
      /\ p1.sl = pos.sl /\ p1.tp = pos.tp /\ p1.remaining_qty > 0
  BY <1>1, AboveStop DEF IsLive
<1> HIDE DEF p1
<1>3. /\ p2 \in PosType /\ Ledger(p2) /\ Sheltered(p2) /\ p2.state # "closed"
      /\ p2.sl >= p1.sl /\ p2.tp = p1.tp /\ p2.remaining_qty = p1.remaining_qty
  BY <1>2, BreakevenFacts
<1> HIDE DEF p2
<1>4. /\ p3 \in PosType /\ Ledger(p3) /\ Sheltered(p3) /\ p3.state # "closed"
      /\ p3.sl >= p2.sl /\ p3.tp >= p2.tp /\ p3.remaining_qty = p2.remaining_qty
  BY <1>2, <1>3, TrailFacts
<1> HIDE DEF p3
<1>5. p3.sl >= pos.sl /\ p3.tp >= pos.tp
  <2>1. /\ pos.sl \in Int /\ p2.sl \in Int /\ p3.sl \in Int
        /\ pos.tp \in Int /\ p2.tp \in Int /\ p3.tp \in Int
    BY <1>2, <1>3, <1>4 DEF PosType
  <2> QED BY <1>2, <1>3, <1>4, <2>1
<1> QED BY <1>1, <1>2, <1>3, <1>4, <1>5

\* A bar that closes nothing keeps the invariant.
LEMMA HoldInv == ASSUME Inv, NEW b \in Bars, Hold(b) PROVE Inv'
<1>1. params' = params /\ params \in ParamSet
  BY DEF Hold, Inv, TypeOK
<1>2. TypeOK'
  BY <1>1, HoldFacts DEF TypeOK, PosType
<1>3. IsLive'
  BY HoldFacts DEF IsLive
<1>4. Ledger(pos)' /\ Sheltered(pos)' /\ (pos.remaining_qty > 0)'
  BY HoldFacts DEF Ledger, Sheltered, Sold, FillQty
<1>5. ~ClosedBy(pos, {"take_profit", "time"})'
  BY <1>3 DEF IsLive, ClosedBy
<1> QED BY <1>2, <1>3, <1>4, <1>5 DEF Inv

\* closeManual() keeps the invariant, at any price.
LEMMA CloseManualInv ==
  ASSUME Inv, NEW price \in Price, NEW reason \in Outside, CloseManual(price, reason)
  PROVE  Inv'
<1>1. params \in ParamSet /\ pos \in PosType /\ Ledger(pos) /\ price \in Int
  BY TypeSplit, PriceAssumption DEF Inv, CloseManual
<1>2. reason \notin {"take_profit", "time"}
  BY DEF Outside
<1> QED BY <1>1, <1>2, CloseKeepsInv DEF CloseManual

\* The invariant reads no variable but those of the position.
LEMMA StutterInv == Inv /\ UNCHANGED vars => Inv'
BY DEF Inv, vars, TypeOK, IsLive, Ledger, Sheltered, Sold, FillQty, ClosedBy

\* Every call keeps the invariant.
LEMMA NextInv == Inv /\ [Next]_vars => Inv'
<1> SUFFICES ASSUME Inv, [Next]_vars PROVE Inv'
  OBVIOUS
<1>1. ASSUME NEW b \in Bars, Step(b) PROVE Inv'
  BY <1>1, StopOutInv, TakeProfitInv, TimeStopInv, HoldInv DEF Step
<1>2. ASSUME NEW price \in Price, NEW reason \in Outside, CloseManual(price, reason) PROVE Inv'
  BY <1>2, CloseManualInv
<1>3. CASE UNCHANGED vars
  BY <1>3, StutterInv
<1> QED BY <1>1, <1>2, <1>3 DEF Next

\* Inv holds in every reachable state.
THEOREM Invariance == Spec => []Inv
BY InitInv, NextInv, PTL DEF Spec

-----------------------------------------------------------------------------
(* The properties *)

\* exitPolicy.ts keeps every position a well-typed PositionState.
THEOREM TypeCorrect == Spec => []TypeOK
<1>1. Inv => TypeOK
  BY DEF Inv
<1> QED BY <1>1, Invariance, PTL

\* emit()/close() conserve the quantity bought, for every rounding of TP1.
THEOREM Conservation == Spec => []QtyConserved
<1>1. Inv => QtyConserved
  <2> SUFFICES ASSUME Inv PROVE QtyConserved
    OBVIOUS
  <2>1. pos \in PosType
    BY TypeSplit DEF Inv
  <2>2. CASE IsLive
    BY <2>2 DEF Inv, Ledger, QtyConserved
  <2>3. CASE ~IsLive
    BY <2>1, <2>3 DEF Inv, QtyConserved, PosType
  <2> QED BY <2>2, <2>3
<1> QED BY <1>1, Invariance, PTL

\* No step of a position lowers its stop or its target.
THEOREM Ratchet == Spec => RatchetOnly
<1> DEFINE Up == pos'.sl >= pos.sl /\ pos'.tp >= pos.tp
<1>1. Inv /\ [Next]_vars => [Up]_vars
  <2> SUFFICES ASSUME Inv, Next PROVE Up
    BY DEF vars
  <2>1. pos \in PosType /\ pos.sl \in Int /\ pos.tp \in Int
    BY TypeSplit DEF Inv, PosType
  <2>2. ASSUME NEW p \in PosType, p.sl = pos.sl, p.tp = pos.tp,
               NEW reason \in OwnReason \cup Outside, NEW price \in Int,
               pos' = CloseAt(p, reason, price)
        PROVE  Up
    BY <2>1, <2>2, CloseAtFacts
  <2>3. ASSUME NEW b \in Bars, StopOut(b) PROVE Up
    <3>1. Observe(pos, b) \in PosType /\ SameHolding(Observe(pos, b), pos)
      BY <2>1, ObserveFacts
    <3> QED BY <2>1, <2>2, <2>3, <3>1 DEF StopOut, OwnReason, SameHolding
  <2>4. ASSUME NEW b \in Bars, TakeProfit(b) PROVE Up
    <3>1. \E price \in Int : pos' = CloseAt(AfterPartial(pos, b, params), "take_profit", price)
      BY <2>1, <2>4 DEF TakeProfit, PosType
    <3> QED BY <2>2, <2>4, <3>1, AboveStop DEF TakeProfit, OwnReason
  <2>5. ASSUME NEW b \in Bars, TimeStop(b) PROVE Up
    BY <2>2, <2>5, AboveStop, BarType DEF TimeStop, OwnReason
  <2>6. ASSUME NEW b \in Bars, Hold(b) PROVE Up
    BY <2>6, HoldFacts
  <2>7. ASSUME NEW price \in Price, NEW reason \in Outside, CloseManual(price, reason) PROVE Up
    BY <2>1, <2>2, <2>7, PriceAssumption DEF CloseManual
  <2> QED BY <2>3, <2>4, <2>5, <2>6, <2>7 DEF Next, Step
<1>2. Spec => [][Up]_vars
  BY <1>1, Invariance, PTL DEF Spec
<1> QED BY <1>2 DEF RatchetOnly

\* Stop first: what survived, or ended at its target or time limit, never
\* traded at or below its initial stop.
THEOREM WorstCase == Spec => []SurvivorNeverTouchedStop
<1>1. Inv => SurvivorNeverTouchedStop
  <2> SUFFICES ASSUME Inv PROVE SurvivorNeverTouchedStop
    OBVIOUS
  <2>1. pos.sl_initial \in Int /\ pos.lowest_low \in Int
    BY TypeSplit DEF Inv, PosType
  <2> QED BY <2>1 DEF Inv, Sheltered, SurvivorNeverTouchedStop
<1> QED BY <1>1, Invariance, PTL

-----------------------------------------------------------------------------
(* The position implements PositionLife *)

Stage ==
  [p \in {"position"} |-> IF ~IsLive THEN "closed" ELSE IF pos.tp1_done THEN "part" ELSE "full"]

\* A candle that closes nothing does not undo TP1.
LEMMA Tp1StaysDone ==
  ASSUME Inv, NEW b \in Bars, Hold(b), pos.tp1_done
  PROVE  pos'.tp1_done
<1> DEFINE p1 == AfterPartial(pos, b, params)
           p2 == Breakeven(p1, b, params)
           p3 == Trail(p2, b, params)
<1>1. pos' = p3 /\ IsLive /\ b.low > pos.sl
  BY DEF Hold
<1>2. params \in ParamSet /\ pos \in PosType
  BY TypeSplit DEF Inv
<1>3. p1 = Observe(pos, b)
  BY DEF AfterPartial, TakesPartial
<1>4. p1.tp1_done /\ p1 \in PosType /\ Ledger(p1) /\ Sheltered(p1) /\ p1.state # "closed"
  BY <1>1, <1>2, <1>3, ObserveFacts, AboveStop DEF SameHolding, IsLive
<1> HIDE DEF p1
<1>5. p2.tp1_done /\ p2 \in PosType /\ Ledger(p2) /\ Sheltered(p2) /\ p2.state # "closed"
  BY <1>2, <1>4, BreakevenFacts
<1> HIDE DEF p2
<1> QED BY <1>1, <1>2, <1>5, TrailFacts

\* step() and closeManual() move a position through the stages of PositionLife
\* and no others.
THEOREM Implements == Spec => LivesOnce
<1> DEFINE p == "position"
<1>1. Init => Life!Init
  <2> SUFFICES ASSUME Init PROVE Stage \in [{p} -> {"full"}]
    BY DEF Life!Init, Stage
  <2>1. PICK entry \in Price, qty \in Qty, sl \in Price, tp \in Price, tp1 \in Price \cup {Null} :
          pos = OpenPosition(entry, qty, sl, tp, tp1, params)
    BY DEF Init
  <2>2. pos.state = "open" /\ pos.tp1_done = FALSE
    BY <2>1 DEF OpenPosition
  <2> QED BY <2>2 DEF Stage, IsLive
<1>2. Inv /\ [Next]_vars => [Life!Next]_Stage
  <2> SUFFICES ASSUME Inv, [Next]_vars PROVE Life!Next \/ Stage' = Stage
    OBVIOUS
  <2>1. ASSUME IsLive, ~IsLive' PROVE Life!Next
    <3>1. Stage[p] \in {"full", "part"} /\ Stage' = [Stage EXCEPT ![p] = "closed"]
      BY <2>1 DEF Stage
    <3> QED BY <3>1 DEF Life!Next, Life!Close, Life!Move, Stage
  <2>2. ASSUME NEW a \in PosType, NEW reason \in OwnReason \cup Outside, NEW price \in Int,
               IsLive, pos' = CloseAt(a, reason, price)
        PROVE  Life!Next
    BY <2>1, <2>2, CloseAtFacts DEF IsLive
  <2>3. ASSUME NEW b \in Bars, StopOut(b) PROVE Life!Next
    <3>1. pos \in PosType /\ pos.sl \in Int
      BY TypeSplit DEF Inv, PosType
    <3> QED BY <2>2, <2>3, <3>1, ObserveFacts DEF StopOut, OwnReason
  <2>4. ASSUME NEW b \in Bars, TakeProfit(b) PROVE Life!Next
    <3>1. \E price \in Int : pos' = CloseAt(AfterPartial(pos, b, params), "take_profit", price)
      BY <2>4, TypeSplit DEF TakeProfit, PosType, Inv
    <3> QED BY <2>2, <2>4, <3>1, AboveStop DEF TakeProfit, OwnReason
  <2>5. ASSUME NEW b \in Bars, TimeStop(b) PROVE Life!Next
    BY <2>2, <2>5, AboveStop, BarType DEF TimeStop, OwnReason
  <2>6. ASSUME NEW price \in Price, NEW reason \in Outside, CloseManual(price, reason)
        PROVE  Life!Next
    BY <2>2, <2>6, TypeSplit, PriceAssumption DEF CloseManual, Inv
  <2>7. ASSUME NEW b \in Bars, Hold(b) PROVE Life!Next \/ Stage' = Stage
    <3>1. IsLive /\ IsLive'
      BY <2>7, HoldFacts DEF Hold, IsLive
    <3>2. CASE pos.tp1_done
      BY <2>7, <3>1, <3>2, Tp1StaysDone DEF Stage
    <3>3. CASE ~pos.tp1_done /\ ~pos'.tp1_done
      BY <3>1, <3>3 DEF Stage
    <3>4. CASE ~pos.tp1_done /\ pos'.tp1_done
      <4>1. Stage[p] = "full" /\ Stage' = [Stage EXCEPT ![p] = "part"]
        BY <3>1, <3>4 DEF Stage
      <4> QED BY <4>1 DEF Life!Next, Life!SellPart, Life!Move, Stage
    <3> QED BY <3>2, <3>3, <3>4
  <2>8. CASE UNCHANGED vars
    BY <2>8 DEF vars, Stage, IsLive
  <2> QED BY <2>3, <2>4, <2>5, <2>6, <2>7, <2>8 DEF Next, Step
<1> QED BY <1>1, <1>2, Invariance, PTL DEF Spec, LivesOnce, Life!Spec, Stage

-----------------------------------------------------------------------------
(* The prices of the exits.  PriceInv is added to Inv: what a position was  *)
(* opened with keeps its order, the fills made so far lie where the         *)
(* properties want them, and the stop of a live position is a price the     *)
(* market has reached - else a stop would be "filled" above every high.     *)

Covered(p, q) == BreakevenStop(p, q) <= BreakevenAt(p, q) /\ p.entry <= p.tp1

Sane(p) ==
  /\ p.sl_initial < p.entry /\ p.sl_initial < p.tp1 /\ p.entry < p.tp
  /\ p.lowest_low <= p.entry

Reached(p, q) == Covered(p, q) => p.sl <= p.highest_high

FillOK(p, q, f) ==
  /\ f.qty \in Nat
  /\ OwnFill(f) =>
       /\ p.sl_initial <= f.price
       /\ Covered(p, q) => p.lowest_low <= f.price /\ f.price <= p.highest_high

Priced(p, q) == \A i \in 1 .. Len(p.fills) : FillOK(p, q, p.fills[i])

\* n is p later in its life: opened with the same prices, with wider extremes.
Later(n, p) ==
  /\ n.entry = p.entry /\ n.sl_initial = p.sl_initial /\ n.tp1 = p.tp1
  /\ n.lowest_low <= p.lowest_low /\ p.highest_high <= n.highest_high

\* Whether the fees are covered is decided when the position is opened.
LEMMA CoveredStays ==
  ASSUME NEW p, NEW n, NEW q, Later(n, p)
  PROVE  Covered(n, q) = Covered(p, q)
BY DEF Later, Covered, BreakevenStop, BreakevenAt, Risk

\* What held of a fill when it was made holds of it ever after.
LEMMA FillStaysOK ==
  ASSUME NEW p \in PosType, NEW n \in PosType, NEW q, NEW f \in FillType,
         Later(n, p), FillOK(p, q, f)
  PROVE  FillOK(n, q, f)
<1>1. Covered(n, q) = Covered(p, q)
  BY CoveredStays
<1>2. /\ n.lowest_low \in Int /\ n.highest_high \in Int
      /\ p.lowest_low \in Int /\ p.highest_high \in Int
  BY SMTT(30) DEF PosType
<1>3. f.price \in Int
  BY DEF FillType
<1> QED BY <1>1, <1>2, <1>3 DEF FillOK, Later

\* The fills stay, or one is added.
LEMMA PricedLater ==
  ASSUME NEW p \in PosType, NEW n \in PosType, NEW q, Later(n, p), Priced(p, q),
         n.fills = p.fills
  PROVE  Priced(n, q)
<1>1. p.fills \in Seq(FillType)
  BY SMTT(30) DEF PosType
<1>2. \A i \in 1 .. Len(p.fills) : p.fills[i] \in FillType
  BY <1>1
<1> QED BY <1>2, FillStaysOK DEF Priced

LEMMA PricedMore ==
  ASSUME NEW p \in PosType, NEW n \in PosType, NEW q, Later(n, p), Priced(p, q),
         NEW f \in FillType, n.fills = Append(p.fills, f), FillOK(n, q, f)
  PROVE  Priced(n, q)
<1>1. p.fills \in Seq(FillType)
  BY DEF PosType
<1>2. /\ Len(n.fills) = Len(p.fills) + 1 /\ Len(p.fills) \in Nat
      /\ n.fills[Len(p.fills) + 1] = f
      /\ \A i \in 1 .. Len(p.fills) : n.fills[i] = p.fills[i] /\ p.fills[i] \in FillType
  BY <1>1, AppendFacts
<1> SUFFICES ASSUME NEW i \in 1 .. Len(n.fills) PROVE FillOK(n, q, n.fills[i])
  BY DEF Priced
<1>3. CASE i = Len(p.fills) + 1
  BY <1>2, <1>3
<1>4. CASE i # Len(p.fills) + 1
  <2>1. i \in 1 .. Len(p.fills)
    BY <1>2, <1>4
  <2> QED BY <1>2, <2>1, FillStaysOK DEF Priced
<1> QED BY <1>3, <1>4

\* A recorded bar is within the extremes.
LEMMA ObservePriced ==
  ASSUME NEW p \in PosType, NEW b \in Bars, NEW q, Sane(p), Priced(p, q)
  PROVE  LET o == Observe(p, b) IN
         /\ Later(o, p) /\ Sane(o) /\ Priced(o, q)
         /\ Reached(p, q) => Reached(o, q)
         /\ o.lowest_low <= b.low /\ b.high <= o.highest_high
<1> DEFINE o == Observe(p, b)
<1>1. o \in PosType /\ SameHolding(o, p)
  BY ObserveFacts
<1>2. /\ o.highest_high = Larger(p.highest_high, b.high)
      /\ o.lowest_low = Smaller(p.lowest_low, b.low)
  BY DEF Observe, PosType
<1>3. /\ p.lowest_low \in Int /\ p.highest_high \in Int /\ p.entry \in Int /\ p.sl \in Int
      /\ b.low \in Int /\ b.high \in Int
  BY BarType DEF PosType
<1> HIDE DEF o
<1>4. Later(o, p) /\ o.lowest_low <= b.low /\ b.high <= o.highest_high
  BY <1>1, <1>2, <1>3 DEF Later, SameHolding, Larger, Smaller
<1>5. Sane(o)
  BY <1>1, <1>2, <1>3 DEF Sane, SameHolding, Smaller
<1>6. Priced(o, q)
  BY <1>1, <1>4, PricedLater DEF SameHolding
<1>7. Reached(p, q) => Reached(o, q)
  <2>1. o.sl = p.sl /\ Covered(o, q) = Covered(p, q)
    BY <1>1, <1>4, CoveredStays DEF SameHolding
  <2> QED BY <1>2, <1>3, <2>1 DEF Reached, Larger
<1> QED BY <1>4, <1>5, <1>6, <1>7 DEF o

\* TP1 is sold at a price the bar reached, not below the entry if Covered.
LEMMA PartialPriced ==
  ASSUME NEW p \in PosType, NEW b \in Bars, NEW q \in ParamSet,
         Ledger(p), Sheltered(p), p.remaining_qty > 0, b.low > p.sl,
         Sane(p), Priced(p, q), Reached(p, q)
  PROVE  LET a == AfterPartial(p, b, q) IN
         /\ Later(a, p) /\ Sane(a) /\ Priced(a, q) /\ Reached(a, q)
         /\ a.lowest_low <= b.low /\ b.high <= a.highest_high
<1> DEFINE o == Observe(p, b)
<1>1. o \in PosType /\ SameHolding(o, p) /\ Ledger(o)
  BY ObserveFacts
<1>2. /\ Later(o, p) /\ Sane(o) /\ Priced(o, q) /\ Reached(o, q)
      /\ o.lowest_low <= b.low /\ b.high <= o.highest_high
  BY ObservePriced
<1> HIDE DEF o
<1>3. CASE ~TakesPartial(p, b)
  BY <1>2, <1>3 DEF AfterPartial, o
<1>4. CASE TakesPartial(p, b)
  <2> DEFINE k == PartialQty(o, q)
             f == Fill("tp_partial", Null, o.tp1, k)
             t == TakePartial(o, q)
  <2>1. AfterPartial(p, b, q) = t
    BY <1>4 DEF AfterPartial, o
  <2>2. ~o.tp1_done /\ b.high >= o.tp1
    BY <1>1, <1>4 DEF TakesPartial, SameHolding
  <2>3. k \in Nat
    BY <1>1, ParamAssumption, PartialQtyBounds DEF Ledger
  <2>4. /\ o.tp1 \in Int /\ o.lowest_low \in Int /\ o.highest_high \in Int /\ o.entry \in Int
        /\ o.sl_initial \in Int
    BY <1>1 DEF PosType
  <2>5. t \in PosType /\ f \in FillType
    <3>1. t \in PosType
      BY <1>1, <2>2, TakePartialFacts
    <3>2. k \in Int
      BY <2>3
    <3> HIDE DEF k
    <3>3. f \in FillType
      BY <2>4, <3>2, FillIsFill
    <3> QED BY <3>1, <3>3
  <2>6. /\ t.fills = Append(o.fills, f)
        /\ t.entry = o.entry /\ t.sl_initial = o.sl_initial /\ t.tp1 = o.tp1
        /\ t.sl = o.sl /\ t.tp = o.tp
        /\ t.lowest_low = o.lowest_low /\ t.highest_high = o.highest_high
    BY <1>1 DEF TakePartial, PosType
  <2>7. f.qty = k /\ f.price = o.tp1
    BY DEF Fill
  <2> HIDE DEF f, k, t
  <2>8. Later(t, o)
    BY <2>4, <2>6 DEF Later
  <2>9. FillOK(t, q, f)
    <3>1. b.high \in Int
      BY BarType
    <3> QED BY <1>2, <2>2, <2>3, <2>4, <2>6, <2>7, <3>1 DEF FillOK, Sane, Covered
  <2>10. Priced(t, q)
    BY <1>1, <1>2, <2>5, <2>6, <2>8, <2>9, PricedMore
  <2>11. Sane(t) /\ Reached(t, q)
    <3>1. Covered(t, q) = Covered(o, q)
      BY <2>8, CoveredStays
    <3> QED BY <1>2, <2>6, <3>1 DEF Sane, Reached
  <2>12. Later(t, p)
    <3>1. /\ p.lowest_low \in Int /\ p.highest_high \in Int
      BY DEF PosType
    <3> QED BY <1>2, <2>4, <2>6, <3>1 DEF Later
  <2> QED BY <1>2, <2>1, <2>6, <2>10, <2>11, <2>12
<1> QED BY <1>3, <1>4

\* A close at such a price, or one from outside at any price.
LEMMA ClosePriced ==
  ASSUME NEW p \in PosType, NEW q, NEW reason \in OwnReason \cup Outside, NEW price \in Int,
         Ledger(p), Sane(p), Priced(p, q),
         reason \in OwnReason =>
           /\ p.sl_initial <= price
           /\ Covered(p, q) => p.lowest_low <= price /\ price <= p.highest_high
  PROVE  LET c == CloseAt(p, reason, price) IN Sane(c) /\ Priced(c, q)
<1> DEFINE f == Fill("closed", reason, price, p.remaining_qty)
           c == CloseAt(p, reason, price)
<1>1. c \in PosType /\ f \in FillType
  <2>1. p.remaining_qty \in Int
    BY DEF PosType
  <2> QED BY <2>1, CloseAtFacts, FillIsFill
<1>2. /\ c.fills = Append(p.fills, f)
      /\ c.entry = p.entry /\ c.sl_initial = p.sl_initial /\ c.tp1 = p.tp1 /\ c.tp = p.tp
      /\ c.lowest_low = p.lowest_low /\ c.highest_high = p.highest_high
  BY DEF CloseAt, PosType
<1>3. f.qty = p.remaining_qty /\ f.price = price /\ f.type = "closed" /\ f.reason = reason
  BY DEF Fill
<1> HIDE DEF f, c
<1>4. Later(c, p)
  BY <1>2 DEF Later, PosType
<1>5. FillOK(c, q, f)
  <2>1. Covered(c, q) = Covered(p, q)
    BY <1>4, CoveredStays
  <2>2. f.qty \in Nat
    BY <1>3 DEF Ledger
  <2>3. OwnFill(f) => reason \in OwnReason
    BY <1>3 DEF OwnFill
  <2> QED BY <1>2, <1>3, <2>1, <2>2, <2>3 DEF FillOK
<1>6. Priced(c, q)
  BY <1>1, <1>2, <1>4, <1>5, PricedMore
<1>7. Sane(c)
  BY <1>2 DEF Sane
<1> QED BY <1>6, <1>7 DEF c

\* The stop moves to breakeven only when the close, hence the highest high, is there.
LEMMA BreakevenPriced ==
  ASSUME NEW p \in PosType, NEW b \in Bars, NEW q \in ParamSet,
         Ledger(p), Sheltered(p), p.state # "closed",
         Sane(p), Priced(p, q), Reached(p, q), b.high <= p.highest_high
  PROVE  LET n == Breakeven(p, b, q) IN
         Later(n, p) /\ Sane(n) /\ Priced(n, q) /\ Reached(n, q)
<1> DEFINE n == Breakeven(p, b, q)
<1>1. n \in PosType
  BY BreakevenFacts
<1>2. /\ n.entry = p.entry /\ n.sl_initial = p.sl_initial /\ n.tp1 = p.tp1 /\ n.tp = p.tp
      /\ n.lowest_low = p.lowest_low /\ n.highest_high = p.highest_high
      /\ n.fills = p.fills
      /\ n.sl = IF ReachesBreakeven(p, b, q) THEN Larger(p.sl, BreakevenStop(p, q)) ELSE p.sl
  BY DEF Breakeven, PosType
<1> HIDE DEF n
<1>3. Later(n, p)
  BY <1>2 DEF Later, PosType
<1>4. Priced(n, q) /\ Sane(n)
  BY <1>1, <1>2, <1>3, PricedLater DEF Sane
<1>5. Reached(n, q)
  <2>1. Covered(n, q) = Covered(p, q)
    BY <1>3, CoveredStays
  <2>2. BreakevenStop(p, q) \in Int /\ BreakevenAt(p, q) \in Int
    <3>1. /\ p.entry \in Int /\ p.sl_initial \in Int
          /\ q.fee \in Nat /\ q.breakeven_r \in Nat
      BY ParamType DEF PosType, ExitParams
    <3>2. p.entry * 2 * q.fee \in Int /\ q.breakeven_r * (p.entry - p.sl_initial) \in Int
      BY <3>1
    <3>3. (p.entry * 2 * q.fee) \div FeeScale \in Int
      BY <3>2, ScaleAssumption, DivBounds
    <3> QED BY <3>1, <3>2, <3>3 DEF BreakevenStop, BreakevenAt, Risk
  <2>3. SUFFICES ASSUME Covered(p, q) PROVE n.sl <= p.highest_high
    BY <1>2, <2>1 DEF Reached
  <2>4. p.sl \in Int /\ p.highest_high \in Int /\ p.sl <= p.highest_high
    BY <2>3 DEF Reached, PosType
  <2>5. ReachesBreakeven(p, b, q) => BreakevenStop(p, q) <= p.highest_high
    BY <2>2, <2>3, <2>4, BarType DEF Covered, ReachesBreakeven
  <2> QED BY <1>2, <2>2, <2>4, <2>5 DEF Larger
<1> QED BY <1>3, <1>4, <1>5 DEF n

\* Trailing keeps the stop a distance below the highest high.
LEMMA TrailPriced ==
  ASSUME NEW p \in PosType, NEW b \in Bars, NEW q \in ParamSet,
         Ledger(p), Sheltered(p), p.state # "closed",
         Sane(p), Priced(p, q), Reached(p, q)
  PROVE  LET n == Trail(p, b, q) IN
         Sane(n) /\ Priced(n, q) /\ Reached(n, q)
<1> DEFINE n == Trail(p, b, q)
<1>1. n \in PosType /\ n.tp >= p.tp
  BY TrailFacts
<1>2. /\ n.entry = p.entry /\ n.sl_initial = p.sl_initial /\ n.tp1 = p.tp1
      /\ n.lowest_low = p.lowest_low /\ n.highest_high = p.highest_high
      /\ n.fills = p.fills
      /\ n.sl = IF Trails(p) THEN TrailStop(p, b, q) ELSE p.sl
  BY DEF Trail, PosType
<1> HIDE DEF n
<1>3. Later(n, p)
  BY <1>2 DEF Later, PosType
<1>4. Priced(n, q)
  BY <1>1, <1>2, <1>3, PricedLater
<1>5. Sane(n)
  <2>1. n.tp \in Int /\ p.tp \in Int /\ p.entry \in Int
    BY <1>1 DEF PosType
  <2> QED BY <1>1, <1>2, <2>1 DEF Sane
<1>6. Reached(n, q)
  <2>1. Covered(n, q) = Covered(p, q)
    BY <1>3, CoveredStays
  <2>2. SUFFICES ASSUME Covered(p, q) PROVE n.sl <= p.highest_high
    BY <1>2, <2>1 DEF Reached
  <2>3. p.sl \in Int /\ p.highest_high \in Int /\ p.sl <= p.highest_high
    BY <2>2 DEF Reached, PosType
  <2>4. q.trail_atr_k # Null => p.highest_high - q.trail_atr_k * b.atr \in Int
                                /\ p.highest_high - q.trail_atr_k * b.atr <= p.highest_high
    <3>1. q.trail_atr_k # Null => q.trail_atr_k \in Nat
      BY ParamType DEF ExitParams
    <3>2. q.trail_atr_k # Null => q.trail_atr_k * b.atr \in Nat
      BY <3>1, BarType
    <3> QED BY <2>3, <3>2
  <2>5. TrailStop(p, b, q) <= p.highest_high
    BY <2>3, <2>4 DEF TrailStop, Larger
  <2> QED BY <1>2, <2>3, <2>5
<1> QED BY <1>4, <1>5, <1>6 DEF n

PriceInv ==
  /\ Inv
  /\ Sane(pos) /\ Priced(pos, params)
  /\ IsLive => Reached(pos, params)

\* A close of a live position at such a price.
LEMMA CloseKeepsPrices ==
  ASSUME Inv, Inv',
         NEW p \in PosType, Ledger(p), Sane(p), Priced(p, params),
         NEW reason \in OwnReason \cup Outside, NEW price \in Int,
         reason \in OwnReason =>
           /\ p.sl_initial <= price
           /\ Covered(p, params) => p.lowest_low <= price /\ price <= p.highest_high,
         pos' = CloseAt(p, reason, price), UNCHANGED params
  PROVE  PriceInv'
<1> DEFINE c == CloseAt(p, reason, price)
<1>1. Sane(c) /\ Priced(c, params) /\ c.state = "closed"
  BY ClosePriced, CloseAtFacts
<1> HIDE DEF c
<1>2. pos' = c /\ params' = params
  BY DEF c
<1>3. Sane(pos)' /\ Priced(pos, params)' /\ ~IsLive'
  BY <1>1, <1>2 DEF Sane, Priced, FillOK, Covered, BreakevenStop, BreakevenAt, Risk, IsLive
<1> QED BY <1>3 DEF PriceInv

\* openPosition() orders the prices and puts TP1 above the stop.
LEMMA InitPrices == Init => PriceInv
<1> SUFFICES ASSUME Init PROVE PriceInv
  OBVIOUS
<1>1. PICK entry \in Price, qty \in Qty, sl \in Price, tp \in Price, tp1 \in Price \cup {Null} :
        /\ Openable(entry, sl, tp, tp1)
        /\ pos = OpenPosition(entry, qty, sl, tp, tp1, params)
  BY DEF Init
<1>2. /\ entry \in Nat /\ sl \in Nat /\ tp \in Nat /\ sl < entry /\ entry < tp
      /\ tp1 # Null => tp1 \in Nat /\ sl < tp1
  BY <1>1, PriceAssumption DEF Openable
<1>3. tp1 = Null => pos.tp1 >= entry
  <2>1. params.tp1_r \in Nat
    BY ParamType DEF Init, ExitParams
  <2>2. params.tp1_r * (entry - sl) \in Nat
    BY <1>2, <2>1
  <2>3. tp1 = Null => pos.tp1 = entry + params.tp1_r * (entry - sl)
    BY <1>1 DEF OpenPosition, Tp1Default
  <2> QED BY <1>2, <2>2, <2>3
<1>4. tp1 # Null => pos.tp1 = tp1
  BY <1>1 DEF OpenPosition
<1>5. /\ pos.entry = entry /\ pos.sl_initial = sl /\ pos.sl = sl /\ pos.tp = tp
      /\ pos.lowest_low = entry /\ pos.highest_high = entry /\ pos.fills = <<>>
  BY <1>1 DEF OpenPosition
<1>6. pos.tp1 \in Int
  BY InitInv, TypeSplit DEF Inv, PosType
<1>7. Sane(pos)
  <2>1. sl < pos.tp1
    BY <1>2, <1>3, <1>4, <1>6
  <2> QED BY <1>2, <1>5, <2>1 DEF Sane
<1>8. Priced(pos, params) /\ Reached(pos, params)
  BY <1>2, <1>5 DEF Priced, Reached
<1> QED BY <1>7, <1>8, InitInv DEF PriceInv

\* What PriceInv says of a live position that a bar does not stop out.
LEMMA LivePrices ==
  ASSUME PriceInv, IsLive, NEW b \in Bars, b.low > pos.sl
  PROVE  LET a == AfterPartial(pos, b, params) IN
         /\ a \in PosType /\ Ledger(a) /\ Sheltered(a)
         /\ Later(a, pos) /\ Sane(a) /\ Priced(a, params) /\ Reached(a, params)
         /\ a.lowest_low <= b.low /\ b.high <= a.highest_high
<1>1. /\ Inv /\ params \in ParamSet /\ pos \in PosType
      /\ Ledger(pos) /\ Sheltered(pos) /\ pos.remaining_qty > 0
      /\ Sane(pos) /\ Priced(pos, params) /\ Reached(pos, params)
  BY TypeSplit DEF PriceInv, Inv
<1> QED BY <1>1, AboveStop, PartialPriced

\* The stop is hit by a bar that trades through it.
LEMMA StopOutPrices == ASSUME PriceInv, Inv', NEW b \in Bars, StopOut(b) PROVE PriceInv'
<1> DEFINE o == Observe(pos, b)
<1>1. /\ Inv /\ params \in ParamSet /\ pos \in PosType /\ Ledger(pos) /\ Sheltered(pos)
      /\ Sane(pos) /\ Priced(pos, params) /\ Reached(pos, params)
  BY TypeSplit DEF PriceInv, Inv, StopOut
<1>2. o \in PosType /\ Ledger(o) /\ SameHolding(o, pos)
  BY <1>1, ObserveFacts
<1>3. /\ Sane(o) /\ Priced(o, params) /\ Reached(o, params) /\ o.lowest_low <= b.low
  BY <1>1, ObservePriced
<1> HIDE DEF o
<1>4. /\ o.sl = pos.sl /\ o.sl_initial = pos.sl_initial /\ pos.sl \in Int /\ b.low \in Int
      /\ o.lowest_low \in Int /\ pos.sl_initial \in Int
  BY <1>1, <1>2, BarType DEF SameHolding, PosType
<1>5. b.low <= pos.sl /\ pos' = CloseAt(o, "stop", pos.sl) /\ UNCHANGED params
  BY DEF StopOut, o
<1>6. /\ o.sl_initial <= pos.sl
      /\ Covered(o, params) => o.lowest_low <= pos.sl /\ pos.sl <= o.highest_high
  BY <1>1, <1>3, <1>4, <1>5 DEF Sheltered, Reached
<1>7. "stop" \in OwnReason
  BY DEF OwnReason
<1> QED BY <1>1, <1>2, <1>3, <1>4, <1>5, <1>6, <1>7, CloseKeepsPrices

\* The target, or TP1 selling everything: the bar reaches it from below.
LEMMA TakeProfitPrices == ASSUME PriceInv, Inv', NEW b \in Bars, TakeProfit(b) PROVE PriceInv'
<1> DEFINE a == AfterPartial(pos, b, params)
<1>1. Inv /\ IsLive /\ b.low > pos.sl /\ UNCHANGED params
  BY DEF TakeProfit, PriceInv
<1>2. /\ a \in PosType /\ Ledger(a) /\ Later(a, pos) /\ Sane(a) /\ Priced(a, params)
      /\ b.high <= a.highest_high
  BY <1>1, LivePrices
<1>3. PICK price \in {pos.tp1, pos.tp} :
        /\ pos' = CloseAt(a, "take_profit", price)
        /\ b.high >= price
  BY <1>1 DEF TakeProfit, SoldOut, TakesPartial
<1>4. a.tp = pos.tp
  BY <1>1, AboveStop
<1> HIDE DEF a
<1>5. a.tp1 = pos.tp1
  BY <1>2 DEF Later
<1>6. /\ a.tp \in Int /\ a.tp1 \in Int /\ a.entry \in Int /\ a.sl_initial \in Int
      /\ a.lowest_low \in Int /\ a.highest_high \in Int /\ b.high \in Int /\ price \in Int
  BY <1>2, <1>3, <1>4, <1>5, BarType DEF PosType
<1>7. /\ a.sl_initial <= price
      /\ Covered(a, params) => a.lowest_low <= price /\ price <= a.highest_high
  BY <1>2, <1>3, <1>4, <1>5, <1>6 DEF Sane, Covered
<1>8. "take_profit" \in OwnReason
  BY DEF OwnReason
<1> QED BY <1>1, <1>2, <1>3, <1>6, <1>7, <1>8, CloseKeepsPrices

\* The time limit: at the close of a bar that stayed above the stop.
LEMMA TimeStopPrices == ASSUME PriceInv, Inv', NEW b \in Bars, TimeStop(b) PROVE PriceInv'
<1> DEFINE a == AfterPartial(pos, b, params)
<1>1. /\ Inv /\ IsLive /\ b.low > pos.sl /\ UNCHANGED params /\ pos \in PosType
      /\ Sheltered(pos) /\ pos' = CloseAt(a, "time", b.close)
  BY TypeSplit DEF TimeStop, PriceInv, Inv
<1>2. /\ a \in PosType /\ Ledger(a) /\ Later(a, pos) /\ Sane(a) /\ Priced(a, params)
      /\ a.lowest_low <= b.low /\ b.high <= a.highest_high
  BY <1>1, LivePrices
<1> HIDE DEF a
<1>3. /\ a.sl_initial = pos.sl_initial /\ pos.sl_initial \in Int /\ pos.sl \in Int
      /\ a.lowest_low \in Int /\ a.highest_high \in Int
      /\ b.low \in Int /\ b.close \in Int /\ b.high \in Int
      /\ b.low <= b.close /\ b.close <= b.high
  <2>1. a.sl_initial = pos.sl_initial
    BY <1>2 DEF Later
  <2>2. pos.sl_initial \in Int /\ pos.sl \in Int /\ a.lowest_low \in Int /\ a.highest_high \in Int
    BY <1>1, <1>2 DEF PosType
  <2> QED BY <2>1, <2>2, BarType
<1>4. /\ a.sl_initial <= b.close
      /\ a.lowest_low <= b.close /\ b.close <= a.highest_high
  BY <1>1, <1>2, <1>3 DEF Sheltered
<1>5. "time" \in OwnReason
  BY DEF OwnReason
<1> QED BY <1>1, <1>2, <1>3, <1>4, <1>5, CloseKeepsPrices

\* A bar that closes nothing.
LEMMA HoldPrices == ASSUME PriceInv, Inv', NEW b \in Bars, Hold(b) PROVE PriceInv'
<1> DEFINE p1 == AfterPartial(pos, b, params)
           p2 == Breakeven(p1, b, params)
           p3 == Trail(p2, b, params)
<1>1. /\ Inv /\ IsLive /\ b.low > pos.sl /\ pos' = p3 /\ params' = params
      /\ params \in ParamSet
  BY DEF Hold, PriceInv, Inv, TypeOK
<1>2. p1.state # "closed"
  BY <1>1, AboveStop DEF IsLive
<1>3. /\ p1 \in PosType /\ Ledger(p1) /\ Sheltered(p1)
      /\ Sane(p1) /\ Priced(p1, params) /\ Reached(p1, params) /\ b.high <= p1.highest_high
  BY <1>1, LivePrices
<1> HIDE DEF p1
<1>4. /\ p2 \in PosType /\ Ledger(p2) /\ Sheltered(p2) /\ p2.state # "closed"
      /\ Sane(p2) /\ Priced(p2, params) /\ Reached(p2, params)
  BY <1>1, <1>2, <1>3, BreakevenFacts, BreakevenPriced
<1> HIDE DEF p2
<1>5. Sane(p3) /\ Priced(p3, params) /\ Reached(p3, params)
  BY <1>1, <1>4, TrailPriced
<1> HIDE DEF p3
<1>6. Sane(pos)' /\ Priced(pos, params)' /\ Reached(pos, params)'
  BY <1>1, <1>5 DEF Sane, Priced, FillOK, Reached, Covered, BreakevenStop, BreakevenAt, Risk
<1> QED BY <1>6 DEF PriceInv

\* A close from outside, at any price.
LEMMA ManualPrices ==
  ASSUME PriceInv, Inv', NEW price \in Price, NEW reason \in Outside, CloseManual(price, reason)
  PROVE  PriceInv'
<1>1. /\ Inv /\ pos \in PosType /\ Ledger(pos) /\ Sane(pos) /\ Priced(pos, params)
  BY TypeSplit DEF PriceInv, Inv, CloseManual
<1>2. price \in Int /\ reason \notin OwnReason
  BY PriceAssumption DEF OwnReason, Outside
<1> QED BY <1>1, <1>2, CloseKeepsPrices DEF CloseManual

LEMMA NextPrices == PriceInv /\ [Next]_vars => PriceInv'
<1> SUFFICES ASSUME PriceInv, [Next]_vars PROVE PriceInv'
  OBVIOUS
<1>1. Inv'
  BY NextInv DEF PriceInv
<1>2. ASSUME NEW b \in Bars, Step(b) PROVE PriceInv'
  BY <1>1, <1>2, StopOutPrices, TakeProfitPrices, TimeStopPrices, HoldPrices DEF Step
<1>3. ASSUME NEW price \in Price, NEW reason \in Outside, CloseManual(price, reason)
      PROVE  PriceInv'
  BY <1>1, <1>3, ManualPrices
<1>4. CASE UNCHANGED vars
  BY <1>1, <1>4 DEF PriceInv, vars, IsLive, Sane, Priced, FillOK, Reached, Covered,
                    BreakevenStop, BreakevenAt, Risk
<1> QED BY <1>2, <1>3, <1>4 DEF Next

\* PriceInv holds in every reachable state.
THEOREM PriceInvariance == Spec => []PriceInv
BY InitPrices, NextPrices, PTL DEF Spec

\* One fill at or above the initial stop loses no more than its share of the risk.
LEMMA FillLoss ==
  ASSUME NEW price \in Int, NEW entry \in Int, NEW sl \in Int, NEW qty \in Nat, sl <= price
  PROVE  /\ (price - entry) * qty \in Int
         /\ (entry - sl) * qty \in Int
         /\ (price - entry) * qty >= -((entry - sl) * qty)
<1>1. (price - sl) * qty >= 0
  <2>1. price - sl \in Nat
    OBVIOUS
  <2> QED BY <2>1
<1>2. (price - sl) * qty = (price - entry) * qty + (entry - sl) * qty
  OBVIOUS
<1> QED BY <1>1, <1>2

\* A position that step() closes by itself loses no more than the risk it was
\* sized for, for every price, partial fraction, trailing and rounding.
THEOREM RiskIsKept == Spec => []LossWithinRisk
<1>1. PriceInv => LossWithinRisk
  <2> SUFFICES ASSUME PriceInv, OwnFillsOnly(pos)
               PROVE  Gross(pos) >= -(Risk(pos) * Sold(pos))
    BY DEF LossWithinRisk
  <2> DEFINE L == Len(pos.fills)
             r == Risk(pos)
  <2>1. /\ pos \in PosType /\ Len(pos.fills) <= 2 /\ Len(pos.fills) \in Nat
        /\ Priced(pos, params)
        /\ pos.entry \in Int /\ pos.sl_initial \in Int
    <3>1. pos \in PosType
      BY TypeSplit DEF PriceInv, Inv
    <3>2. Len(pos.fills) \in Nat
      BY <3>1 DEF PosType
    <3>3. CASE IsLive
      <4>1. Len(pos.fills) = IF pos.tp1_done THEN 1 ELSE 0
        BY <3>3 DEF PriceInv, Inv, Ledger
      <4> QED BY <3>1, <3>2, <4>1 DEF PriceInv, PosType
    <3>4. CASE ~IsLive
      BY <3>1, <3>2, <3>4 DEF PriceInv, Inv, PosType
    <3> QED BY <3>3, <3>4
  <2>2. r \in Int /\ r = pos.entry - pos.sl_initial
    BY <2>1 DEF Risk
  <2>3. ASSUME NEW i \in {1, 2}
        PROVE  /\ FillQty(pos, i) \in Int /\ FillGross(pos, i) \in Int
               /\ r * FillQty(pos, i) \in Int
               /\ FillGross(pos, i) >= -(r * FillQty(pos, i))
    <3>1. CASE i <= L
      <4>1. i \in 1 .. Len(pos.fills) /\ pos.fills[i] \in FillType
        BY <2>1, <3>1 DEF PosType
      <4>2. OwnFill(pos.fills[i])
        BY <2>1, <4>1 DEF OwnFillsOnly, PosType
      <4>3. /\ pos.fills[i].price \in Int /\ pos.fills[i].qty \in Nat
            /\ pos.sl_initial <= pos.fills[i].price
        BY <2>1, <4>1, <4>2 DEF Priced, FillOK, FillType
      <4>4. /\ FillQty(pos, i) = pos.fills[i].qty
            /\ FillGross(pos, i) = (pos.fills[i].price - pos.entry) * pos.fills[i].qty
        BY <3>1 DEF FillQty, FillGross
      <4> DEFINE price == pos.fills[i].price
                 qty == pos.fills[i].qty
      <4> HIDE DEF price, qty
      <4>5. /\ (price - pos.entry) * qty \in Int
            /\ (pos.entry - pos.sl_initial) * qty \in Int
            /\ (price - pos.entry) * qty >= -((pos.entry - pos.sl_initial) * qty)
        BY <2>1, <4>3, FillLoss DEF price, qty
      <4> QED BY <2>2, <4>3, <4>4, <4>5 DEF price, qty
    <3>2. CASE ~(i <= L)
      BY <2>2, <3>2 DEF FillQty, FillGross
    <3> QED BY <3>1, <3>2
  <2> DEFINE q1 == FillQty(pos, 1)
             q2 == FillQty(pos, 2)
             g1 == FillGross(pos, 1)
             g2 == FillGross(pos, 2)
  <2>4. Gross(pos) = g1 + g2 /\ Sold(pos) = q1 + q2
    BY DEF Gross, Sold
  <2>5. /\ q1 \in Int /\ g1 \in Int /\ r * q1 \in Int /\ g1 >= -(r * q1)
        /\ q2 \in Int /\ g2 \in Int /\ r * q2 \in Int /\ g2 >= -(r * q2)
    BY <2>3
  <2>6. Risk(pos) = r
    OBVIOUS
  <2> HIDE DEF q1, q2, g1, g2, r
  <2>7. r * (q1 + q2) = r * q1 + r * q2
    BY <2>2, <2>5
  <2> QED BY <2>4, <2>5, <2>6, <2>7
<1> QED BY <1>1, PriceInvariance, PTL

\* Every sale of the policy lies between the extremes it has recorded, so a
\* realised R between -MAE and MFE, if the breakeven trigger covers the fees.
THEOREM WithinExcursion == Spec => []ExitsWithinExcursion
<1>1. PriceInv => ExitsWithinExcursion
  <2> SUFFICES ASSUME PriceInv, FeeCovered, pos.entry <= pos.tp1,
                      NEW i \in DOMAIN pos.fills, OwnFill(pos.fills[i])
               PROVE  /\ pos.lowest_low <= pos.fills[i].price
                      /\ pos.fills[i].price <= pos.highest_high
    BY DEF ExitsWithinExcursion
  <2>1. i \in 1 .. Len(pos.fills)
    BY TypeSplit DEF PriceInv, Inv, PosType
  <2>2. Covered(pos, params) /\ Priced(pos, params)
    BY DEF FeeCovered, Covered, PriceInv
  <2> QED BY <2>1, <2>2 DEF Priced, FillOK
<1> QED BY <1>1, PriceInvariance, PTL

-----------------------------------------------------------------------------
(* Parity: the TypeScript port and the Python reference                    *)

\* What a quotient and a remainder are.
LEMMA DivIs ==
  ASSUME NEW a \in Int, NEW d \in Nat \ {0}, NEW k \in Int, d * k <= a, a < d * k + d
  PROVE  a \div d = k
<1> DEFINE q == a \div d
<1>1. q \in Int /\ d * q <= a /\ a < d * q + d
  BY DivBounds
<1> HIDE DEF q
<1>2. d * q < d * (k + 1) /\ d * k < d * (q + 1)
  BY <1>1, SMT
<1>3. q < k + 1 /\ k < q + 1
  <2>1. \A x, y \in Int : d * x < d * y => x < y
    BY SMT
  <2>2. QED
    BY <1>1, <1>2, <2>1
<1>4. QED
  BY <1>1, <1>3 DEF q

LEMMA ModIs ==
  ASSUME NEW a \in Int, NEW d \in Nat \ {0}, NEW k \in Int, NEW m \in Int,
         a = d * k + m, 0 <= m, m < d
  PROVE  a % d = m
BY SMT

\* Away from the ties that NoTieAssumption rules out, Math.round and Python's round
\* sell the same quantity.
LEMMA RoundSame ==
  ASSUME NEW n \in Nat, NEW num \in Nat, NEW den \in Nat \ {0},
         (2 * n * num) % (2 * den) # den
  PROVE  Py!PyRound(n * num, den) = (2 * n * num + den) \div (2 * den)
<1> DEFINE a == n * num
           k == a \div den
           m == a - k * den
<1>1. a \in Nat /\ 2 * n * num = 2 * a
  BY SMT
<1>2. k \in Int /\ den * k <= a /\ a < den * k + den
  BY <1>1, DivBounds
<1> HIDE DEF a, k
<1>3. /\ m \in Int /\ 0 <= m /\ m < den
      /\ 2 * a = (2 * den) * k + 2 * m
  BY <1>1, <1>2, SMT
<1> HIDE DEF m
<1>4. (2 * a) % (2 * den) = 2 * m
  <2>1. /\ 2 * a \in Int /\ 2 * den \in Nat \ {0} /\ 2 * m \in Int
        /\ 0 <= 2 * m /\ 2 * m < 2 * den
    BY <1>1, <1>3
  <2>2. QED
    BY <1>2, <1>3, <2>1, ModIs
<1>5. 2 * m # den
  BY <1>1, <1>4
<1>6. Py!PyRound(a, den) = IF 2 * m > den THEN k + 1 ELSE k
  BY <1>1, <1>2, <1>3, <1>5 DEF Py!PyRound, k, m
<1>7. CASE 2 * m > den
  <2>1. (2 * den) * (k + 1) = (2 * den) * k + 2 * den
    BY <1>2, SMT
  <2>2. /\ (2 * den) * (k + 1) <= 2 * a + den
        /\ 2 * a + den < (2 * den) * (k + 1) + 2 * den
    BY <1>1, <1>2, <1>3, <1>7, <2>1, SMT
  <2>3. (2 * a + den) \div (2 * den) = k + 1
    BY <1>1, <1>2, <2>2, DivIs
  <2>4. QED
    BY <1>1, <1>6, <1>7, <2>3 DEF a
<1>8. CASE 2 * m < den
  <2>1. /\ (2 * den) * k <= 2 * a + den
        /\ 2 * a + den < (2 * den) * k + 2 * den
    BY <1>1, <1>2, <1>3, <1>8, SMT
  <2>2. (2 * a + den) \div (2 * den) = k
    BY <1>1, <1>2, <2>1, DivIs
  <2>3. Py!PyRound(a, den) = k
    BY <1>3, <1>6, <1>8
  <2>4. QED
    BY <1>1, <2>2, <2>3 DEF a
<1>9. QED
  BY <1>3, <1>5, <1>7, <1>8

\* The fills a call adds are the ones it appends.
LEMMA NewOnes ==
  ASSUME NEW p, NEW n, p.fills \in Seq(FillType), NEW u \in Seq(FillType),
         n.fills = p.fills \o u
  PROVE  NewFills(p, n) = u
<1> DEFINE s == p.fills
<1>0. s \in Seq(FillType)
  OBVIOUS
<1> HIDE DEF s
<1>1. Len(s) \in Nat /\ Len(u) \in Nat /\ Len(s \o u) = Len(s) + Len(u)
  BY <1>0, ConcatProperties
<1>2. SubSeq(s \o u, Len(s) + 1, Len(s) + Len(u)) = u
  <2>1. CASE Len(u) = 0
    <3>1. u = <<>>
      BY <2>1
    <3>2. Len(s) + 1 \in Int /\ Len(s) + Len(u) \in Int /\ Len(s) + Len(u) < Len(s) + 1
      BY <1>1, <2>1
    <3>3. QED
      BY <3>1, <3>2, SubSeqEmpty
  <2>2. CASE Len(u) # 0
    <3>1. /\ Len(s) + 1 \in Len(s) + 1 .. Len(s) + Len(u)
          /\ Len(s) + Len(u) \in Len(s) + 1 .. Len(s) + Len(u)
      BY <1>1, <2>2
    <3>2. SubSeq(s \o u, Len(s) + 1, Len(s) + Len(u)) =
            SubSeq(u, Len(s) + 1 - Len(s), Len(s) + Len(u) - Len(s))
      BY <1>0, <3>1, SubSeqOfConcat2
    <3>3. Len(s) + 1 - Len(s) = 1 /\ Len(s) + Len(u) - Len(s) = Len(u)
      BY <1>1
    <3>4. QED
      BY <3>2, <3>3, SubSeqFull
  <2>3. QED
    BY <2>1, <2>2
<1>3. QED
  BY <1>1, <1>2 DEF NewFills, s

-----------------------------------------------------------------------------
(* The parts of the Python step() *)

Ret(p, e) == [pos |-> p, evs |-> e]

LEMMA RetPos ==
  ASSUME NEW p, NEW e, NEW n
  PROVE  [Ret(p, e) EXCEPT !.pos = n] = Ret(n, e)
<1> DEFINE z == [Ret(p, e) EXCEPT !.pos = n]
<1>1. z.pos = n /\ z.evs = e /\ DOMAIN z = {"pos", "evs"}
  BY DEF Ret
<1>2. z = [i \in {"pos", "evs"} |-> z[i]]
  BY DEF Ret
<1>3. QED
  BY <1>1, <1>2 DEF Ret

LEMMA RetEvs ==
  ASSUME NEW p, NEW e, NEW n
  PROVE  [Ret(p, e) EXCEPT !.evs = n] = Ret(p, n)
BY DEF Ret

LEMMA PySellIs ==
  ASSUME NEW p, NEW e, NEW type, NEW reason, NEW price, NEW qty
  PROVE  LET f == Fill(type, reason, price, qty) IN
         Py!PySell(Ret(p, e), Py!PyEvent(type, reason, price, qty)) =
           Ret([p EXCEPT !.fills = Append(@, f)], Append(e, f))
BY DEF Py!PySell, Py!PyEvent, Ret, Fill

\* close() sells what remains.
LEMMA PyCloseIs ==
  ASSUME NEW p \in PosType, NEW e, NEW reason, NEW price
  PROVE  Py!PyClose(Ret(p, e), reason, price) =
           Ret(CloseAt(p, reason, price), Append(e, Fill("closed", reason, price, p.remaining_qty)))
<1> DEFINE f  == Fill("closed", reason, price, p.remaining_qty)
           p1 == [p EXCEPT !.fills = Append(@, f)]
           p2 == [p1 EXCEPT !.remaining_qty = 0]
           p3 == [p2 EXCEPT !.state = "closed"]
           e1 == Append(e, f)
<1>1. Ret(p, e).pos.remaining_qty = p.remaining_qty
  BY DEF Ret
<1>2. Py!PyClose(Ret(p, e), reason, price) = [Ret(p1, e1) EXCEPT !.pos.remaining_qty = 0, !.pos.state = "closed"]
  <2>1. Py!PySell(Ret(p, e), Py!PyEvent("closed", reason, price, p.remaining_qty)) = Ret(p1, e1)
    BY PySellIs
  <2> HIDE DEF p1, e1
  <2>2. QED
    BY <1>1, <2>1, Zenon DEF Py!PyClose
<1>3. CloseAt(p, reason, price) = p3
  BY DEF CloseAt
<1> HIDE DEF p1, e1
<1>4. [Ret(p1, e1) EXCEPT !.pos.remaining_qty = 0] = [Ret(p1, e1) EXCEPT !.pos = p2]
  BY DEF Ret
<1>5. [Ret(p1, e1) EXCEPT !.pos.remaining_qty = 0] = Ret(p2, e1)
  BY <1>4, RetPos
<1> HIDE DEF p2
<1>6. [Ret(p2, e1) EXCEPT !.pos.state = "closed"] = [Ret(p2, e1) EXCEPT !.pos = p3]
  BY DEF Ret
<1>7. [Ret(p2, e1) EXCEPT !.pos.state = "closed"] = Ret(p3, e1)
  BY <1>6, RetPos
<1>8. QED
  BY <1>2, <1>3, <1>5, <1>7 DEF e1

\* What no rounding can tell apart.
Exact(p, q) == /\ p.qty \in Nat
               /\ (2 * p.qty * q.tp1_num) % (2 * q.tp1_den) # q.tp1_den

LEMMA PyPartialIs ==
  ASSUME NEW p \in PosType, NEW e, NEW q \in ExitParams, Exact(p, q)
  PROVE  Py!PyPartial(Ret(p, e), q) =
           Ret(TakePartial(p, q), Append(e, Fill("tp_partial", Null, p.tp1, PartialQty(p, q))))
<1> DEFINE k  == PartialQty(p, q)
           f  == Fill("tp_partial", Null, p.tp1, k)
           p1 == [p EXCEPT !.fills = Append(@, f)]
           p2 == [p1 EXCEPT !.remaining_qty = @ - k]
           p3 == [p2 EXCEPT !.tp1_done = TRUE]
           e1 == Append(e, f)
<1>1. Py!PyRound(p.qty * q.tp1_num, q.tp1_den) = k
  BY RoundSame DEF Exact, ExitParams, PartialQty
<1>2. TakePartial(p, q) = p3
  BY DEF TakePartial
<1> HIDE DEF k
<1>3. Ret(p, e).pos = p
  BY DEF Ret
<1>4. Py!PyPartial(Ret(p, e), q) = [Ret(p1, e1) EXCEPT !.pos.remaining_qty = @ - k, !.pos.tp1_done = TRUE]
  <2>1. Py!PySell(Ret(p, e), Py!PyEvent("tp_partial", Null, p.tp1, k)) = Ret(p1, e1)
    BY PySellIs
  <2> HIDE DEF p1, e1
  <2>2. QED
    BY <1>1, <1>3, <2>1, Zenon DEF Py!PyPartial
<1> HIDE DEF p1, e1
<1>5. [Ret(p1, e1) EXCEPT !.pos.remaining_qty = @ - k] = [Ret(p1, e1) EXCEPT !.pos = p2]
  BY DEF Ret
<1>6. [Ret(p1, e1) EXCEPT !.pos.remaining_qty = @ - k] = Ret(p2, e1)
  BY <1>5, RetPos
<1> HIDE DEF p2
<1>7. [Ret(p2, e1) EXCEPT !.pos.tp1_done = TRUE] = [Ret(p2, e1) EXCEPT !.pos = p3]
  BY DEF Ret
<1>8. [Ret(p2, e1) EXCEPT !.pos.tp1_done = TRUE] = Ret(p3, e1)
  BY <1>7, RetPos
<1>9. QED
  BY <1>2, <1>4, <1>6, <1>8 DEF e1, f, k

\* What a part of step() adds to the events of the parts before it.
Adds(e, c, m) == e \o If(c, <<m>>)

LEMMA AddsIs ==
  ASSUME NEW S, NEW e \in Seq(S), NEW m \in S, NEW c \in BOOLEAN
  PROVE  /\ c => Adds(e, c, m) = Append(e, m)
         /\ ~c => Adds(e, c, m) = e
         /\ Adds(e, c, m) \in Seq(S)
<1>1. CASE c
  BY <1>1, AppendIsConcat, AppendProperties DEF Adds, If
<1>2. CASE ~c
  BY <1>2, ConcatEmptySeq DEF Adds, If
<1>3. QED
  BY <1>1, <1>2

\* The events of a position.
Event == FillType \cup [type : {"sl_moved", "tp_moved"}, reason : MoveReason, price : Int, qty : Int]

LEMMA MoveIs ==
  ASSUME NEW type \in {"sl_moved", "tp_moved"}, NEW reason \in MoveReason, NEW price \in Int
  PROVE  Move(type, reason, price) \in Event
BY DEF Move, Event

LEMMA PyMoveIs ==
  ASSUME NEW p, NEW e, NEW type, NEW reason, NEW price
  PROVE  Py!PyMove(Ret(p, e), Py!PyEvent(type, reason, price, 0)) = Ret(p, Append(e, Move(type, reason, price)))
BY DEF Py!PyMove, Py!PyEvent, Ret, Move

\* A field that already has the value.
LEMMA SameField ==
  ASSUME NEW p \in PosType
  PROVE  [p EXCEPT !.sl = p.sl] = p /\ [p EXCEPT !.tp = p.tp] = p
BY DEF PosType

LEMMA BreakevenStopInt ==
  ASSUME NEW p \in PosType, NEW q \in ExitParams
  PROVE  BreakevenStop(p, q) \in Int
<1>1. p.entry * 2 * q.fee \in Int
  BY DEF PosType, ExitParams
<1>2. (p.entry * 2 * q.fee) \div FeeScale \in Int
  BY <1>1, ScaleAssumption, DivBounds
<1> QED BY <1>2 DEF BreakevenStop, PosType

LEMMA PyBreakevenIs ==
  ASSUME NEW p \in PosType, NEW e \in Seq(Event), NEW b \in Bars, NEW q \in ExitParams
  PROVE  LET n == Breakeven(p, b, q) IN
         Py!PyBreakeven(Ret(p, e), b, q) = Ret(n, Adds(e, n.sl # p.sl, Move("sl_moved", "breakeven", n.sl)))
<1> DEFINE be == BreakevenStop(p, q)
           r  == Ret(p, e)
           n  == Breakeven(p, b, q)
<1>0. r.pos = p /\ be \in Int /\ p.sl \in Int
  BY BreakevenStopInt DEF Ret, PosType
<1>1. CASE ~ReachesBreakeven(p, b, q)
  <2>1. n = p /\ Py!PyBreakeven(r, b, q) = r
    BY <1>0, <1>1 DEF Py!PyBreakeven, ReachesBreakeven, Breakeven, BreakevenAt, Risk
  <2>2. Adds(e, n.sl # p.sl, Move("sl_moved", "breakeven", n.sl)) = e
    BY <2>1, ConcatEmptySeq DEF Adds, If
  <2>3. QED
    BY <2>1, <2>2
<1>2. CASE ReachesBreakeven(p, b, q) /\ be > p.sl
  <2> DEFINE p1 == [p EXCEPT !.sl = be]
             p2 == [p1 EXCEPT !.state = "breakeven"]
             e1 == Append(e, Move("sl_moved", "breakeven", be))
  <2>1. n = p2 /\ n.sl = be
    <3>1. Larger(p.sl, be) = be
      BY <1>0, <1>2 DEF Larger
    <3> HIDE DEF be
    <3>2. n = [p EXCEPT !.sl = be, !.state = "breakeven"]
      BY <1>2, <3>1, Zenon DEF Breakeven, be
    <3>3. p2.sl = be
      BY DEF PosType
    <3>4. QED
      BY <3>2, <3>3
  <2>2. [r EXCEPT !.pos.sl = be] = Ret(p1, e)
    <3>1. [r EXCEPT !.pos.sl = be] = [r EXCEPT !.pos = p1]
      BY DEF Ret
    <3>2. QED
      BY <3>1, RetPos
  <2>3. Py!PyMove([r EXCEPT !.pos.sl = be], Py!PyEvent("sl_moved", "breakeven", be, 0)) = Ret(p1, e1)
    BY <2>2, PyMoveIs
  <2> HIDE DEF p1, e1
  <2>4. [Ret(p1, e1) EXCEPT !.pos.state = "breakeven"] = Ret(p2, e1)
    <3>1. [Ret(p1, e1) EXCEPT !.pos.state = "breakeven"] = [Ret(p1, e1) EXCEPT !.pos = p2]
      BY DEF Ret
    <3>2. QED
      BY <3>1, RetPos
  <2> HIDE DEF be, n, p2, r
  <2>5. Py!PyBreakeven(r, b, q) = Ret(p2, e1)
    BY <1>0, <1>2, <2>3, <2>4, Zenon DEF Py!PyBreakeven, ReachesBreakeven, be, BreakevenStop, BreakevenAt, Risk
  <2>6. Adds(e, n.sl # p.sl, Move("sl_moved", "breakeven", n.sl)) = e1
    BY <1>0, <1>2, <2>1, AppendIsConcat, MoveIs DEF Adds, If, e1, MoveReason
  <2>7. QED
    BY <2>1, <2>5, <2>6 DEF n, r
<1>3. CASE ReachesBreakeven(p, b, q) /\ ~(be > p.sl)
  <2> DEFINE p2 == [p EXCEPT !.state = "breakeven"]
  <2>1. n = p2 /\ n.sl = p.sl
    <3>1. Larger(p.sl, be) = p.sl
      BY <1>0, <1>3 DEF Larger
    <3>2. n = [[p EXCEPT !.sl = p.sl] EXCEPT !.state = "breakeven"]
      BY <1>3, <3>1 DEF Breakeven
    <3>3. p2.sl = p.sl
      BY DEF PosType
    <3>4. QED
      BY <3>2, <3>3, SameField
  <2>2. [r EXCEPT !.pos.state = "breakeven"] = Ret(p2, e)
    <3>1. [r EXCEPT !.pos.state = "breakeven"] = [r EXCEPT !.pos = p2]
      BY DEF Ret
    <3>2. QED
      BY <3>1, RetPos
  <2> HIDE DEF be, n, p2, r
  <2>3. Py!PyBreakeven(r, b, q) = Ret(p2, e)
    BY <1>0, <1>3, <2>2, Zenon DEF Py!PyBreakeven, ReachesBreakeven, be, BreakevenStop, BreakevenAt, Risk
  <2>4. Adds(e, n.sl # p.sl, Move("sl_moved", "breakeven", n.sl)) = e
    BY <2>1, ConcatEmptySeq DEF Adds, If
  <2>5. QED
    BY <2>1, <2>3, <2>4 DEF n, r
<1>4. QED
  BY <1>1, <1>2, <1>3

LEMMA PyTrailStopIs ==
  ASSUME NEW p \in PosType, p.state = "trailing", NEW e \in Seq(Event), NEW b \in Bars, NEW q \in ExitParams
  PROVE  LET n == [p EXCEPT !.sl = TrailStop(p, b, q)] IN
         Py!PyTrailStop(Ret(p, e), b, q) = Ret(n, Adds(e, n.sl # p.sl, Move("sl_moved", "trailing", n.sl)))
<1> DEFINE r   == Ret(p, e)
           new == p.highest_high - q.trail_atr_k * b.atr
           sl  == TrailStop(p, b, q)
           n   == [p EXCEPT !.sl = sl]
<1>0. r.pos = p /\ p.sl \in Int /\ n.sl = sl
  BY DEF Ret, PosType
<1>1. q.trail_atr_k # Null => new \in Int
  <2>1. p.highest_high \in Int
    BY DEF PosType
  <2>2. q.trail_atr_k # Null => q.trail_atr_k * b.atr \in Int
    <3>1. b.atr \in Nat
      BY BarType
    <3>2. q.trail_atr_k # Null => q.trail_atr_k \in Nat
      BY DEF ExitParams
    <3>3. QED
      BY <3>1, <3>2
  <2>3. QED
    BY <2>1, <2>2
<1>2. CASE q.trail_atr_k # Null /\ new > p.sl
  <2> DEFINE e1 == Append(e, Move("sl_moved", "trailing", new))
  <2>1. sl = new
    BY <1>0, <1>1, <1>2 DEF TrailStop, Larger
  <2>2. [r EXCEPT !.pos.sl = new] = Ret(n, e)
    <3>1. [r EXCEPT !.pos.sl = new] = [r EXCEPT !.pos = n]
      BY <2>1 DEF Ret
    <3>2. QED
      BY <3>1, RetPos
  <2>3. Py!PyMove([r EXCEPT !.pos.sl = new], Py!PyEvent("sl_moved", "trailing", new, 0)) = Ret(n, e1)
    BY <2>2, PyMoveIs
  <2>4. Adds(e, n.sl # p.sl, Move("sl_moved", "trailing", n.sl)) = e1
    BY <1>0, <1>1, <1>2, <2>1, AppendIsConcat, MoveIs DEF Adds, If, MoveReason
  <2> HIDE DEF e1, r, n, sl, new
  <2>5. Py!PyTrailStop(r, b, q) = Ret(n, e1)
    BY <1>0, <1>2, <2>3, Zenon DEF Py!PyTrailStop, new
  <2>6. QED
    BY <2>4, <2>5 DEF n, r, sl
<1>3. CASE ~(q.trail_atr_k # Null /\ new > p.sl)
  <2>1. sl = p.sl
    BY <1>0, <1>1, <1>3 DEF TrailStop, Larger
  <2>2. n = p
    BY <2>1, SameField
  <2>3. Adds(e, n.sl # p.sl, Move("sl_moved", "trailing", n.sl)) = e
    BY <2>2, ConcatEmptySeq DEF Adds, If
  <2> HIDE DEF r, n, sl, new
  <2>4. Py!PyTrailStop(r, b, q) = r
    BY <1>0, <1>3, Zenon DEF Py!PyTrailStop, new
  <2>5. QED
    BY <2>2, <2>3, <2>4 DEF n, r, sl
<1>4. QED
  BY <1>2, <1>3

LEMMA PyRatchetIs ==
  ASSUME NEW p \in PosType, p.state = "trailing", NEW e \in Seq(Event), NEW b \in Bars, NEW q \in ExitParams
  PROVE  LET n == [p EXCEPT !.tp = RatchetTarget(p, b, q)] IN
         Py!PyRatchet(Ret(p, e), b, q) = Ret(n, Adds(e, n.tp # p.tp, Move("tp_moved", "ratchet", n.tp)))
<1> DEFINE r   == Ret(p, e)
           new == p.highest_high + q.tp_ratchet_atr * b.atr
           tp  == RatchetTarget(p, b, q)
           n   == [p EXCEPT !.tp = tp]
<1>0. r.pos = p /\ p.tp \in Int /\ n.tp = tp
  BY DEF Ret, PosType
<1>1. q.tp_ratchet_atr # Null => new \in Int
  <2>1. p.highest_high \in Int
    BY DEF PosType
  <2>2. q.tp_ratchet_atr # Null => q.tp_ratchet_atr * b.atr \in Int
    <3>1. b.atr \in Nat
      BY BarType
    <3>2. q.tp_ratchet_atr # Null => q.tp_ratchet_atr \in Nat
      BY DEF ExitParams
    <3>3. QED
      BY <3>1, <3>2
  <2>3. QED
    BY <2>1, <2>2
<1>2. CASE q.tp_ratchet_atr # Null /\ new > p.tp
  <2> DEFINE e1 == Append(e, Move("tp_moved", "ratchet", new))
  <2>1. tp = new
    BY <1>0, <1>1, <1>2 DEF RatchetTarget, Larger
  <2>2. [r EXCEPT !.pos.tp = new] = Ret(n, e)
    <3>1. [r EXCEPT !.pos.tp = new] = [r EXCEPT !.pos = n]
      BY <2>1 DEF Ret
    <3>2. QED
      BY <3>1, RetPos
  <2>3. Py!PyMove([r EXCEPT !.pos.tp = new], Py!PyEvent("tp_moved", "ratchet", new, 0)) = Ret(n, e1)
    BY <2>2, PyMoveIs
  <2>4. Adds(e, n.tp # p.tp, Move("tp_moved", "ratchet", n.tp)) = e1
    BY <1>0, <1>1, <1>2, <2>1, AppendIsConcat, MoveIs DEF Adds, If, MoveReason
  <2> HIDE DEF e1, r, n, tp, new
  <2>5. Py!PyRatchet(r, b, q) = Ret(n, e1)
    BY <1>0, <1>2, <2>3, Zenon DEF Py!PyRatchet, new
  <2>6. QED
    BY <2>4, <2>5 DEF n, r, tp
<1>3. CASE ~(q.tp_ratchet_atr # Null /\ new > p.tp)
  <2>1. tp = p.tp
    BY <1>0, <1>1, <1>3 DEF RatchetTarget, Larger
  <2>2. n = p
    BY <2>1, SameField
  <2>3. Adds(e, n.tp # p.tp, Move("tp_moved", "ratchet", n.tp)) = e
    BY <2>2, ConcatEmptySeq DEF Adds, If
  <2> HIDE DEF r, n, tp, new
  <2>4. Py!PyRatchet(r, b, q) = r
    BY <1>0, <1>3, Zenon DEF Py!PyRatchet, new
  <2>5. QED
    BY <2>2, <2>3, <2>4 DEF n, r, tp
<1>4. QED
  BY <1>2, <1>3

\* 6) Trailing, when TP1 was sold.
LEMMA PyTrailIs ==
  ASSUME NEW p \in PosType, p.state = "trailing" => p.tp1_done,
         NEW e \in Seq(Event), NEW b \in Bars, NEW q \in ExitParams
  PROVE  LET n == Trail(p, b, q) IN
         Py!PyRatchet(Py!PyTrailStop(Py!PyTrail(Ret(p, e)), b, q), b, q) =
           Ret(n, Adds(Adds(e, n.sl # p.sl, Move("sl_moved", "trailing", n.sl)),
                       n.tp # p.tp, Move("tp_moved", "ratchet", n.tp)))
<1> DEFINE r == Ret(p, e)
           n == Trail(p, b, q)
<1>0. r.pos = p
  BY DEF Ret
<1>1. CASE ~p.tp1_done
  <2>1. n = p
    BY <1>1 DEF Trail, Trails
  <2>2. Adds(Adds(e, n.sl # p.sl, Move("sl_moved", "trailing", n.sl)),
             n.tp # p.tp, Move("tp_moved", "ratchet", n.tp)) = e
    BY <2>1, ConcatEmptySeq DEF Adds, If
  <2> HIDE DEF r, n
  <2>3. Py!PyTrail(r) = r /\ Py!PyTrailStop(r, b, q) = r /\ Py!PyRatchet(r, b, q) = r
    BY <1>0, <1>1, Zenon DEF Py!PyTrail, Py!PyTrailStop, Py!PyRatchet
  <2>4. QED
    BY <2>1, <2>2, <2>3 DEF n, r
<1>2. CASE p.tp1_done
  <2> DEFINE y  == [p EXCEPT !.state = "trailing"]
             y2 == [y EXCEPT !.sl = TrailStop(y, b, q)]
             y3 == [y2 EXCEPT !.tp = RatchetTarget(y2, b, q)]
             e2 == Adds(e, y2.sl # y.sl, Move("sl_moved", "trailing", y2.sl))
             e3 == Adds(e2, y3.tp # y2.tp, Move("tp_moved", "ratchet", y3.tp))
  <2>1. y \in PosType /\ y.state = "trailing" /\ y.sl = p.sl /\ y.tp = p.tp /\ y.highest_high = p.highest_high
    BY DEF PosType, State
  <2>2. TrailStop(y, b, q) = TrailStop(p, b, q) /\ TrailStop(y, b, q) \in Int
    <3>1. TrailStop(y, b, q) = TrailStop(p, b, q)
      BY <2>1 DEF TrailStop
    <3>2. q.trail_atr_k # Null => q.trail_atr_k * b.atr \in Int
      BY BarType DEF ExitParams
    <3>3. TrailStop(p, b, q) \in Int
      BY <3>2 DEF TrailStop, Larger, PosType
    <3>4. QED
      BY <3>1, <3>3
  <2> HIDE DEF y
  <2>3. /\ y2 \in PosType /\ y2.state = "trailing" /\ y2.tp = y.tp /\ y2.sl = TrailStop(y, b, q)
        /\ y2.highest_high = y.highest_high
    BY <2>1, <2>2 DEF PosType
  <2>4. RatchetTarget(y2, b, q) = RatchetTarget(p, b, q)
    BY <2>1, <2>3 DEF RatchetTarget
  <2>5. y3.sl = y2.sl
    BY <2>3 DEF PosType
  <2>6. n = y3
    BY <1>2, <2>2, <2>4 DEF Trail, Trails, y
  <2> HIDE DEF y2, y3
  <2>7. e2 \in Seq(Event)
    BY <2>2, <2>3, AddsIs, MoveIs DEF MoveReason
  <2>8. Py!PyTrail(r) = Ret(y, e)
    <3>1. [r EXCEPT !.pos.state = "trailing"] = [r EXCEPT !.pos = y]
      BY DEF Ret, y
    <3>2. [r EXCEPT !.pos.state = "trailing"] = Ret(y, e)
      BY <3>1, RetPos
    <3> HIDE DEF r
    <3>3. QED
      BY <1>0, <1>2, <3>2, Zenon DEF Py!PyTrail
  <2>9. Py!PyTrailStop(Ret(y, e), b, q) = Ret(y2, e2)
    BY <2>1, PyTrailStopIs DEF y2
  <2>10. Py!PyRatchet(Ret(y2, e2), b, q) = Ret(y3, e3)
    <3> HIDE DEF e2
    <3>1. QED
      BY <2>3, <2>7, PyRatchetIs DEF y3
  <2>11. e3 = Adds(Adds(e, n.sl # p.sl, Move("sl_moved", "trailing", n.sl)),
                   n.tp # p.tp, Move("tp_moved", "ratchet", n.tp))
    BY <2>1, <2>3, <2>5, <2>6
  <2> HIDE DEF e3, e2, n, r
  <2>12. QED
    BY <2>6, <2>8, <2>9, <2>10, <2>11 DEF n, r
<1>3. QED
  BY <1>1, <1>2 DEF PosType

\* What a call has sold so far.
Grown(p, n, e) == e \in Seq(FillType) /\ n.fills = p.fills \o e

LEMMA GrownMore ==
  ASSUME NEW p \in PosType, NEW n \in PosType, NEW e, Grown(p, n, e), NEW f \in FillType,
         NEW m, m.fills = Append(n.fills, f)
  PROVE  Grown(p, m, Append(e, f))
<1>1. p.fills \in Seq(FillType) /\ n.fills \in Seq(FillType) /\ e \in Seq(FillType) /\ <<f>> \in Seq(FillType)
  BY DEF PosType, Grown
<1>2. Append(n.fills, f) = n.fills \o <<f>> /\ Append(e, f) = e \o <<f>> /\ Append(e, f) \in Seq(FillType)
  BY <1>1, AppendIsConcat, AppendProperties
<1>3. (p.fills \o e) \o <<f>> = p.fills \o (e \o <<f>>)
  <2> DEFINE s == p.fills
             u == <<f>>
  <2>1. s \in Seq(FillType) /\ e \in Seq(FillType) /\ u \in Seq(FillType)
    BY <1>1
  <2> HIDE DEF s, u
  <2>2. (s \o e) \o u = s \o (e \o u)
    BY <2>1, ConcatAssociative
  <2>3. QED
    BY <2>2 DEF s, u
<1>4. QED
  BY <1>2, <1>3 DEF Grown

LEMMA GrownIs ==
  ASSUME NEW p \in PosType, NEW n, NEW e, Grown(p, n, e)
  PROVE  NewFills(p, n) = e
BY NewOnes DEF Grown, PosType

\* The parameters and quantities that NoTieAssumption is about.
LEMMA ExactIs ==
  ASSUME NEW p, NEW q \in ParamSet, p.qty \in Qty
  PROVE  Exact(p, q)
BY NoTieAssumption, QtyAssumption DEF Exact

\* What Python has of a candle before it looks at the stop, and after TP1.
Seen(p, b) == Ret(Observe(p, b), <<>>)
Part(p, b, q) ==
  IF ~p.tp1_done /\ b.high >= p.tp1 THEN Py!PyPartial(Seen(p, b), q) ELSE Seen(p, b)

LEMMA SeenIs ==
  ASSUME NEW p \in PosType, NEW b \in Bars
  PROVE  [pos |-> [p EXCEPT !.bars = @ + 1,
                            !.highest_high = IF b.high > @ THEN b.high ELSE @,
                            !.lowest_low = IF b.low < @ THEN b.low ELSE @],
          evs |-> <<>>] = Seen(p, b)
<1>1. /\ Larger(p.highest_high, b.high) = IF b.high > p.highest_high THEN b.high ELSE p.highest_high
      /\ Smaller(p.lowest_low, b.low) = IF b.low < p.lowest_low THEN b.low ELSE p.lowest_low
  BY BarType DEF Larger, Smaller, PosType
<1>2. QED
  BY <1>1 DEF Seen, Ret, Observe, PosType

LEMMA PartIs ==
  ASSUME NEW p \in PosType, Ledger(p), NEW b \in Bars, NEW q \in ParamSet, p.qty \in Qty
  PROVE  \E e : /\ Part(p, b, q) = Ret(AfterPartial(p, b, q), e)
                /\ Grown(p, AfterPartial(p, b, q), e)
<1> DEFINE o == Observe(p, b)
           t == TakePartial(o, q)
           f == Fill("tp_partial", Null, o.tp1, PartialQty(o, q))
<1>1. o \in PosType /\ o.fills = p.fills /\ o.qty = p.qty
  BY ObserveFacts DEF SameHolding
<1> HIDE DEF o
<1>2. Grown(p, o, <<>>)
  BY <1>1, ConcatEmptySeq DEF Grown, PosType
<1>3. CASE TakesPartial(p, b)
  <2>1. q \in ExitParams /\ q.tp1_num <= q.tp1_den
    BY ParamAssumption
  <2>2. f \in FillType
    <3>1. PartialQty(o, q) \in Int /\ o.tp1 \in Int
      BY <1>1, <2>1, PartialQtyBounds DEF Ledger, PosType
    <3>2. QED
      BY <3>1, FillIsFill
  <2>3. Py!PyPartial(Ret(o, <<>>), q) = Ret(t, Append(<<>>, f))
    BY <1>1, <2>1, ExactIs, PyPartialIs
  <2>4. t.fills = Append(o.fills, f)
    BY <1>1 DEF TakePartial, PosType
  <2> HIDE DEF f, t
  <2>5. Grown(p, t, Append(<<>>, f))
    BY <1>1, <1>2, <2>2, <2>4, GrownMore
  <2>6. AfterPartial(p, b, q) = t /\ Part(p, b, q) = Ret(t, Append(<<>>, f))
    BY <1>3, <2>3 DEF AfterPartial, Part, Seen, TakesPartial, o, t
  <2>7. QED
    BY <2>5, <2>6
<1>4. CASE ~TakesPartial(p, b)
  <2>1. AfterPartial(p, b, q) = o /\ Part(p, b, q) = Ret(o, <<>>)
    BY <1>4 DEF AfterPartial, Part, Seen, TakesPartial, o
  <2>2. QED
    BY <1>2, <2>1
<1>5. QED
  BY <1>3, <1>4

\* The early returns of the Python step() in their order.
LEMMA PyStepIs ==
  ASSUME NEW p \in PosType, p.state # "closed", NEW b \in Bars, NEW q
  PROVE  LET part == Part(p, b, q) IN
         Py!PyStep(p, b, q) =
           IF b.low <= p.sl THEN Py!PyClose(Seen(p, b), "stop", p.sl)
           ELSE IF part.pos.remaining_qty <= 0 THEN Py!PyClose(part, "take_profit", p.tp1)
           ELSE IF b.high >= p.tp THEN Py!PyClose(part, "take_profit", p.tp)
           ELSE IF q.max_bars # Null /\ part.pos.bars >= q.max_bars
                THEN Py!PyClose(part, "time", b.close)
           ELSE Py!PyRatchet(Py!PyTrailStop(Py!PyTrail(Py!PyBreakeven(part, b, q)), b, q), b, q)
BY SeenIs, Zenon DEF Py!PyStep, Part

LEMMA CloseSame ==
  ASSUME NEW p \in PosType, NEW n \in PosType, NEW e, Grown(p, n, e),
         NEW reason \in OwnReason \cup Outside, NEW price \in Int
  PROVE  LET c == CloseAt(n, reason, price) IN
         Py!PyClose(Ret(n, e), reason, price) = Ret(c, NewFills(p, c))
<1> DEFINE f == Fill("closed", reason, price, n.remaining_qty)
           c == CloseAt(n, reason, price)
<1>1. f \in FillType
  BY FillIsFill DEF PosType
<1>2. c.fills = Append(n.fills, f)
  BY DEF CloseAt, PosType
<1>3. Py!PyClose(Ret(n, e), reason, price) = Ret(c, Append(e, f))
  BY PyCloseIs
<1> HIDE DEF f, c
<1>4. Grown(p, c, Append(e, f))
  BY <1>1, <1>2, GrownMore
<1>5. QED
  BY <1>3, <1>4, GrownIs DEF c

-----------------------------------------------------------------------------
(* The two sides stay together *)

\* A live position trails only after its partial sale, and holds a quantity the
\* exchange sold; both sides are equal.
Parity ==
  /\ Inv
  /\ pos.qty \in Qty
  /\ pos.state = "trailing" => pos.tp1_done
  /\ SameStream

LEMMA ParityStart == ParityInit => Parity
<1> SUFFICES ASSUME ParityInit PROVE Parity
  OBVIOUS
<1>1. PICK entry \in Price, qty \in Qty, sl \in Price, tp \in Price, tp1 \in Price \cup {Null} :
        /\ Openable(entry, sl, tp, tp1)
        /\ pos = OpenPosition(entry, qty, sl, tp, tp1, params)
        /\ py = [pos |-> Py!PyOpen(entry, qty, sl, tp, tp1, params), evs |-> <<>>]
  BY DEF ParityInit
<1>2. Inv
  BY InitInv DEF ParityInit, Init
<1>3. pos.qty \in Qty /\ pos.state = "open"
  BY <1>1 DEF OpenPosition
<1>4. Py!PyOpen(entry, qty, sl, tp, tp1, params) = OpenPosition(entry, qty, sl, tp, tp1, params)
  BY DEF Py!PyOpen, OpenPosition, Tp1Default
<1>5. SameStream
  BY <1>1, <1>4 DEF SameStream, ParityInit
<1>6. QED
  BY <1>2, <1>3, <1>5 DEF Parity

\* A call that leaves both sides with the same position and events.
LEMMA SameIs == ASSUME py' = Ret(pos', evs') PROVE SameStream'
BY DEF SameStream, Ret

LEMMA CloseKeeps ==
  ASSUME NEW n \in PosType, NEW reason, NEW price
  PROVE  CloseAt(n, reason, price).qty = n.qty /\ CloseAt(n, reason, price).state = "closed"
BY DEF CloseAt, PosType

LEMMA AfterPartialKeeps ==
  ASSUME NEW p \in PosType, NEW b \in Bars, NEW q
  PROVE  LET a == AfterPartial(p, b, q) IN
         /\ a.qty = p.qty /\ a.state = p.state /\ a.bars = p.bars + 1
         /\ p.tp1_done => a.tp1_done
         /\ TakesPartial(p, b) => /\ a.remaining_qty = p.remaining_qty - PartialQty(p, q)
                                  /\ a.tp1_done
         /\ ~TakesPartial(p, b) => a.remaining_qty = p.remaining_qty
<1> DEFINE o == Observe(p, b)
<1>1. o \in PosType /\ SameHolding(o, p) /\ o.bars = p.bars + 1
  BY ObserveFacts
<1> HIDE DEF o
<1>2. PartialQty(o, q) = PartialQty(p, q)
  BY <1>1 DEF SameHolding, PartialQty
<1>3. CASE TakesPartial(p, b)
  <2> DEFINE t == TakePartial(o, q)
  <2>1. /\ t.qty = o.qty /\ t.state = o.state /\ t.bars = o.bars /\ t.tp1_done
        /\ t.remaining_qty = o.remaining_qty - PartialQty(o, q)
    BY <1>1 DEF TakePartial, PosType
  <2>2. AfterPartial(p, b, q) = t
    BY <1>3 DEF AfterPartial, o
  <2> HIDE DEF t
  <2>3. QED
    BY <1>1, <1>2, <1>3, <2>1, <2>2 DEF SameHolding
<1>4. CASE ~TakesPartial(p, b)
  BY <1>1, <1>4 DEF AfterPartial, SameHolding, o
<1>5. QED
  BY <1>3, <1>4

LEMMA BreakevenKeeps ==
  ASSUME NEW p \in PosType, NEW b \in Bars, NEW q
  PROVE  LET n == Breakeven(p, b, q) IN
         n.qty = p.qty /\ n.tp1_done = p.tp1_done /\ n.fills = p.fills /\ n.state \in {p.state, "breakeven"}
BY DEF Breakeven, PosType

LEMMA TrailKeeps ==
  ASSUME NEW p \in PosType, NEW b \in Bars, NEW q
  PROVE  LET n == Trail(p, b, q) IN
         /\ n.qty = p.qty /\ n.tp1_done = p.tp1_done /\ n.fills = p.fills
         /\ n.state = "trailing" => p.tp1_done \/ p.state = "trailing"
BY DEF Trail, Trails, PosType

\* 1) The stop.
LEMMA StopOutSame ==
  ASSUME Parity, NEW b \in Bars, StopOut(b), py' = Py!PyStep(pos, b, params)
  PROVE  py' = Ret(pos', evs') /\ pos'.qty = pos.qty /\ pos'.state = "closed"
<1> DEFINE o == Observe(pos, b)
<1>1. pos \in PosType /\ pos.state # "closed" /\ pos.sl \in Int
  BY TypeSplit DEF Parity, Inv, StopOut, IsLive, PosType
<1>2. o \in PosType /\ SameHolding(o, pos)
  BY <1>1, ObserveFacts
<1>3. Grown(pos, o, <<>>)
  BY <1>1, <1>2, ConcatEmptySeq DEF Grown, PosType, SameHolding
<1>4. pos' = CloseAt(o, "stop", pos.sl) /\ evs' = NewFills(pos, pos') /\ b.low <= pos.sl
  BY DEF StopOut
<1>5. py' = Py!PyClose(Ret(o, <<>>), "stop", pos.sl)
  BY <1>1, <1>4, PyStepIs DEF Seen
<1> HIDE DEF o
<1>6. Py!PyClose(Ret(o, <<>>), "stop", pos.sl) = Ret(pos', evs')
  BY <1>1, <1>2, <1>3, <1>4, CloseSame DEF OwnReason
<1>7. QED
  BY <1>2, <1>4, <1>5, <1>6, CloseKeeps DEF SameHolding

\* What both sides have of a candle that stays above the stop, before they decide.
LEMMA AboveSame ==
  ASSUME Parity, IsLive, NEW b \in Bars, b.low > pos.sl
  PROVE  LET a == AfterPartial(pos, b, params) IN
         /\ pos \in PosType /\ pos.state # "closed" /\ params \in ParamSet /\ a \in PosType
         /\ \E e : Part(pos, b, params) = Ret(a, e) /\ Grown(pos, a, e)
         /\ a.qty = pos.qty /\ a.state = pos.state /\ a.bars = pos.bars + 1
         /\ a.state = "trailing" => a.tp1_done
         /\ ~(b.low <= pos.sl)
         /\ SoldOut(pos, b, params) <=> a.remaining_qty <= 0
<1> DEFINE a == AfterPartial(pos, b, params)
<1>1. /\ pos \in PosType /\ params \in ParamSet /\ pos.state # "closed"
      /\ Ledger(pos) /\ pos.remaining_qty > 0 /\ pos.qty \in Qty
      /\ pos.state = "trailing" => pos.tp1_done
  BY TypeSplit DEF Parity, Inv, IsLive
<1>2. a \in PosType
  BY AboveStop DEF Parity
<1>3. \E e : Part(pos, b, params) = Ret(a, e) /\ Grown(pos, a, e)
  BY <1>1, PartIs
<1>4. /\ a.qty = pos.qty /\ a.state = pos.state /\ a.bars = pos.bars + 1
      /\ pos.tp1_done => a.tp1_done
      /\ TakesPartial(pos, b) => a.remaining_qty = pos.remaining_qty - PartialQty(pos, params)
      /\ ~TakesPartial(pos, b) => a.remaining_qty = pos.remaining_qty
  BY <1>1, AfterPartialKeeps
<1> HIDE DEF a
<1>5. SoldOut(pos, b, params) <=> a.remaining_qty <= 0
  <2>1. PartialQty(pos, params) \in Int
    BY <1>1, ParamAssumption, PartialQtyBounds DEF Ledger
  <2>2. QED
    BY <1>1, <1>4, <2>1 DEF SoldOut, PosType
<1>6. ~(b.low <= pos.sl)
  BY <1>1, BarType DEF PosType
<1>7. QED
  BY <1>1, <1>2, <1>3, <1>4, <1>5, <1>6 DEF a

\* 2) + 3) + 4) The target and the time limit.
LEMMA ExitSame ==
  ASSUME Parity, NEW b \in Bars, TakeProfit(b) \/ TimeStop(b), py' = Py!PyStep(pos, b, params)
  PROVE  py' = Ret(pos', evs') /\ pos'.qty = pos.qty /\ pos'.state = "closed"
<1> DEFINE a == AfterPartial(pos, b, params)
<1>1. IsLive /\ b.low > pos.sl /\ evs' = NewFills(pos, pos')
  BY DEF TakeProfit, TimeStop
<1>2. /\ pos \in PosType /\ pos.state # "closed" /\ params \in ParamSet /\ a \in PosType
      /\ a.qty = pos.qty /\ a.bars = pos.bars + 1 /\ ~(b.low <= pos.sl)
      /\ SoldOut(pos, b, params) <=> a.remaining_qty <= 0
  BY <1>1, AboveSame
<1>3. PICK e : Part(pos, b, params) = Ret(a, e) /\ Grown(pos, a, e)
  BY <1>1, AboveSame
<1> HIDE DEF a
<1>4. Ret(a, e).pos = a
  BY DEF Ret
<1>5. pos.tp \in Int /\ pos.tp1 \in Int /\ b.close \in Int /\ b.high \in Int
  <2>1. pos.tp \in Int /\ pos.tp1 \in Int
    BY <1>2 DEF PosType
  <2>2. b.close \in Nat /\ b.high \in Nat
    BY BarType
  <2>3. QED
    BY <2>1, <2>2
<1>6. ASSUME NEW reason \in OwnReason, NEW price \in Int, pos' = CloseAt(a, reason, price),
             py' = Py!PyClose(Ret(a, e), reason, price)
      PROVE  py' = Ret(pos', evs') /\ pos'.qty = pos.qty /\ pos'.state = "closed"
  <2>1. Py!PyClose(Ret(a, e), reason, price) = Ret(pos', NewFills(pos, pos'))
    BY <1>2, <1>3, <1>6, CloseSame
  <2>2. QED
    BY <1>1, <1>2, <1>6, <2>1, CloseKeeps
<1>7. CASE SoldOut(pos, b, params)
  <2>1. pos' = CloseAt(a, "take_profit", pos.tp1)
    BY <1>7 DEF TakeProfit, TimeStop, a
  <2>2. py' = Py!PyClose(Ret(a, e), "take_profit", pos.tp1)
    BY <1>2, <1>3, <1>4, <1>7, PyStepIs
  <2>3. QED
    BY <1>5, <1>6, <2>1, <2>2 DEF OwnReason
<1>8. CASE ~SoldOut(pos, b, params) /\ b.high >= pos.tp
  <2>1. pos' = CloseAt(a, "take_profit", pos.tp)
    BY <1>5, <1>8 DEF TakeProfit, TimeStop, a
  <2>2. py' = Py!PyClose(Ret(a, e), "take_profit", pos.tp)
    BY <1>2, <1>3, <1>4, <1>8, PyStepIs
  <2>3. QED
    BY <1>5, <1>6, <2>1, <2>2 DEF OwnReason
<1>9. CASE ~SoldOut(pos, b, params) /\ ~(b.high >= pos.tp)
  <2>1. pos' = CloseAt(a, "time", b.close) /\ TimeIsUp(pos, params)
    BY <1>9 DEF TakeProfit, TimeStop, a
  <2>2. py' = Py!PyClose(Ret(a, e), "time", b.close)
    BY <1>2, <1>3, <1>4, <1>9, <2>1, PyStepIs DEF TimeIsUp
  <2>3. QED
    BY <1>5, <1>6, <2>1, <2>2 DEF OwnReason
<1>10. QED
  BY <1>7, <1>8, <1>9

\* 5) + 6) The position stays open.
LEMMA HoldSame ==
  ASSUME Parity, NEW b \in Bars, Hold(b), py' = Py!PyStep(pos, b, params)
  PROVE  py' = Ret(pos', evs') /\ pos'.qty = pos.qty /\ (pos'.state = "trailing" => pos'.tp1_done)
<1> DEFINE p1 == AfterPartial(pos, b, params)
           p2 == Breakeven(p1, b, params)
           p3 == Trail(p2, b, params)
           m1 == Move("sl_moved", "breakeven", p2.sl)
           m2 == Move("sl_moved", "trailing", p3.sl)
           m3 == Move("tp_moved", "ratchet", p3.tp)
<1>1. /\ IsLive /\ b.low > pos.sl /\ ~SoldOut(pos, b, params) /\ b.high < pos.tp
      /\ ~TimeIsUp(pos, params)
      /\ pos' = p3 /\ evs' = NewFills(pos, p3) \o MoveEvents(pos, b, p1, p2, p3)
  BY DEF Hold
<1>2. /\ pos \in PosType /\ pos.state # "closed" /\ params \in ParamSet /\ p1 \in PosType
      /\ p1.qty = pos.qty /\ p1.state = pos.state /\ p1.bars = pos.bars + 1 /\ ~(b.low <= pos.sl)
      /\ p1.state = "trailing" => p1.tp1_done
      /\ ~(p1.remaining_qty <= 0)
  BY <1>1, AboveSame
<1>3. PICK e : Part(pos, b, params) = Ret(p1, e) /\ Grown(pos, p1, e)
  BY <1>1, AboveSame
<1>4. Ledger(p1) /\ Sheltered(p1) /\ params \in ExitParams
  BY <1>1, AboveStop, ParamType DEF Parity
<1> HIDE DEF p1
<1>5. /\ p2 \in PosType /\ Ledger(p2) /\ Sheltered(p2) /\ p2.state # "closed"
      /\ p2.qty = p1.qty /\ p2.tp1_done = p1.tp1_done /\ p2.fills = p1.fills
      /\ p2.state = "trailing" => p2.tp1_done
  <2>1. p2 \in PosType /\ Ledger(p2) /\ Sheltered(p2) /\ p2.state # "closed"
    BY <1>2, <1>4, BreakevenFacts
  <2>2. p2.qty = p1.qty /\ p2.tp1_done = p1.tp1_done /\ p2.fills = p1.fills /\ p2.state \in {p1.state, "breakeven"}
    BY <1>2, BreakevenKeeps
  <2>3. QED
    BY <1>2, <2>1, <2>2
<1>6. e \in Seq(Event) /\ Py!PyBreakeven(Ret(p1, e), b, params) = Ret(p2, Adds(e, p2.sl # p1.sl, m1))
  <2>1. e \in Seq(FillType)
    BY <1>3 DEF Grown
  <2>2. e \in Seq(Event)
    BY <2>1 DEF Event
  <2>3. QED
    BY <1>2, <1>4, <2>2, PyBreakevenIs
<1> HIDE DEF p2
<1>7. /\ p3 \in PosType
      /\ p3.qty = p2.qty /\ p3.tp1_done = p2.tp1_done /\ p3.fills = p2.fills
      /\ p3.state = "trailing" => p3.tp1_done
  <2>1. p3 \in PosType
    BY <1>2, <1>5, TrailFacts
  <2>2. /\ p3.qty = p2.qty /\ p3.tp1_done = p2.tp1_done /\ p3.fills = p2.fills
        /\ p3.state = "trailing" => p2.tp1_done \/ p2.state = "trailing"
    BY <1>5, TrailKeeps
  <2>3. QED
    BY <1>5, <2>1, <2>2
<1>8. m1 \in Event /\ m2 \in Event /\ m3 \in Event
  BY <1>5, <1>7, MoveIs DEF PosType, MoveReason
<1> DEFINE e1 == Adds(e, p2.sl # p1.sl, m1)
           e2 == Adds(e1, p3.sl # p2.sl, m2)
           e3 == Adds(e2, p3.tp # p2.tp, m3)
<1>9. e1 \in Seq(Event)
  BY <1>6, <1>8, AddsIs
<1>10. Py!PyRatchet(Py!PyTrailStop(Py!PyTrail(Ret(p2, e1)), b, params), b, params) = Ret(p3, e3)
  <2> HIDE DEF e1
  <2>1. QED
    BY <1>4, <1>5, <1>9, PyTrailIs
<1>11. py' = Ret(p3, e3)
  <2>1. Ret(p1, e).pos = p1
    BY DEF Ret
  <2>2. b.high \in Int /\ pos.tp \in Int
    <3>1. pos.tp \in Int
      BY <1>2 DEF PosType
    <3>2. b.high \in Nat
      BY BarType
    <3>3. QED
      BY <3>1, <3>2
  <2>3. ~(b.high >= pos.tp) /\ ~(params.max_bars # Null /\ p1.bars >= params.max_bars)
    BY <1>1, <1>2, <2>2 DEF TimeIsUp
  <2> HIDE DEF e1, e3
  <2>4. py' = Py!PyRatchet(Py!PyTrailStop(Py!PyTrail(Py!PyBreakeven(Ret(p1, e), b, params)), b, params), b, params)
    BY <1>2, <1>3, <2>1, <2>3, PyStepIs
  <2>5. QED
    BY <1>6, <1>10, <2>4 DEF e1
<1>12. evs' = e3
  <2> DEFINE i1 == If(p2.sl # p1.sl, <<m1>>)
             i2 == If(p3.sl # p2.sl, <<m2>>)
             i3 == If(p3.tp # p2.tp, <<m3>>)
  <2>1. NewFills(pos, p3) = e
    <3>1. Grown(pos, p3, e)
      BY <1>3, <1>5, <1>7 DEF Grown
    <3>2. QED
      BY <1>2, <3>1, GrownIs
  <2>2. MoveEvents(pos, b, p1, p2, p3) = (i1 \o i2) \o i3
    BY DEF MoveEvents
  <2>3. e3 = ((e \o i1) \o i2) \o i3
    BY DEF Adds
  <2>4. i1 \in Seq(Event) /\ i2 \in Seq(Event) /\ i3 \in Seq(Event)
    BY <1>8 DEF If
  <2> HIDE DEF i1, i2, i3, e3
  <2>5. (e \o i1) \o i2 = e \o (i1 \o i2) /\ i1 \o i2 \in Seq(Event)
    BY <1>6, <2>4, ConcatAssociative, ConcatProperties
  <2>6. (e \o (i1 \o i2)) \o i3 = e \o ((i1 \o i2) \o i3)
    BY <1>6, <2>4, <2>5, ConcatAssociative
  <2>7. QED
    BY <1>1, <2>1, <2>2, <2>3, <2>5, <2>6
<1> HIDE DEF e3, p3
<1>13. QED
  BY <1>1, <1>2, <1>5, <1>7, <1>11, <1>12 DEF p3

\* Both sides see a candle.
LEMMA StepSame ==
  ASSUME Parity, NEW b \in Bars, Step(b), py' = Py!PyStep(py.pos, b, params)
  PROVE  SameStream' /\ pos'.qty = pos.qty /\ (pos'.state = "trailing" => pos'.tp1_done)
<1>1. py.pos = pos
  BY DEF Parity, SameStream
<1>2. CASE StopOut(b)
  BY <1>1, <1>2, StopOutSame, SameIs
<1>3. CASE TakeProfit(b) \/ TimeStop(b)
  BY <1>1, <1>3, ExitSame, SameIs
<1>4. CASE Hold(b)
  BY <1>1, <1>4, HoldSame, SameIs
<1>5. QED
  BY <1>2, <1>3, <1>4 DEF Step

LEMMA ManualSame ==
  ASSUME Parity, NEW price \in Price, NEW reason \in Outside, CloseManual(price, reason),
         py' = Py!PyCloseManual(py.pos, price, reason)
  PROVE  SameStream' /\ pos'.qty = pos.qty /\ (pos'.state = "trailing" => pos'.tp1_done)
<1>1. pos \in PosType /\ pos.state # "closed" /\ py.pos = pos /\ price \in Int
  BY TypeSplit, PriceAssumption DEF Parity, Inv, SameStream, CloseManual, IsLive
<1>2. pos' = CloseAt(pos, reason, price) /\ evs' = NewFills(pos, pos')
  BY DEF CloseManual
<1>3. Grown(pos, pos, <<>>)
  BY <1>1, ConcatEmptySeq DEF Grown, PosType
<1>4. Py!PyCloseManual(pos, price, reason) = Py!PyClose(Ret(pos, <<>>), reason, price)
  BY <1>1 DEF Py!PyCloseManual, Ret
<1>5. Py!PyClose(Ret(pos, <<>>), reason, price) = Ret(pos', evs')
  BY <1>1, <1>2, <1>3, CloseSame
<1>6. QED
  BY <1>1, <1>2, <1>4, <1>5, SameIs, CloseKeeps

LEMMA ParityNextInv == Parity /\ [ParityNext]_<<vars, py>> => Parity'
<1> SUFFICES ASSUME Parity, [ParityNext]_<<vars, py>> PROVE Parity'
  OBVIOUS
<1>1. CASE UNCHANGED <<vars, py>>
  <2>1. UNCHANGED vars /\ UNCHANGED pos /\ UNCHANGED evs /\ UNCHANGED py
    BY <1>1 DEF vars
  <2>2. Inv'
    BY <2>1, StutterInv DEF Parity
  <2>3. QED
    BY <2>1, <2>2 DEF Parity, SameStream
<1>2. ASSUME NEW b \in Bars, Step(b), py' = Py!PyStep(py.pos, b, params) PROVE Parity'
  <2>1. Inv'
    BY <1>2, NextInv DEF Parity, Next
  <2>2. QED
    BY <1>2, <2>1, StepSame DEF Parity
<1>3. ASSUME NEW price \in Price, NEW reason \in Outside, CloseManual(price, reason),
             py' = Py!PyCloseManual(py.pos, price, reason)
      PROVE  Parity'
  <2>1. Inv'
    BY <1>3, NextInv DEF Parity, Next
  <2>2. QED
    BY <1>3, <2>1, ManualSame DEF Parity
<1>4. QED
  BY <1>1, <1>2, <1>3 DEF ParityNext

\* exitPolicy.ts:4 "Both must produce identical event streams": for every
\* configuration, candle and close from outside, ties of the rounding apart.
THEOREM SameStreams == ParitySpec => []SameStream
<1>1. Parity => SameStream
  BY DEF Parity
<1>2. QED
  BY <1>1, ParityStart, ParityNextInv, PTL DEF ParitySpec

\* Each side by side behaviour is one of the TypeScript policy, so the theorems above
\* hold of both translations.
THEOREM ParityIsPolicy == ParitySpec => Spec
<1>1. ParityInit => Init
  BY DEF ParityInit, Init
<1>2. [ParityNext]_<<vars, py>> => [Next]_vars
  BY DEF ParityNext, Next, vars
<1>3. QED
  BY <1>1, <1>2, PTL DEF ParitySpec, Spec
=============================================================================
