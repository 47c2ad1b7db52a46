-------------------------------- MODULE Account --------------------------------
(***************************************************************************)
(* The money behind the positions: what a wallet believes it has           *)
(* (execution/wallet.ts), what is really there, and the size of the        *)
(* entries computed from the one while the other moves (manager.ts).       *)
(*                                                                         *)
(* The paper wallet is moved by every fill.  The exchange wallet has the   *)
(* balance it last asked for:  it asks at start, on the hourly heartbeat   *)
(* and after every close.  Positions of different symbols are handled side *)
(* by side, so the stage of a position is the program counter of the       *)
(* handler at work on it;  a stage ends at an await.                       *)
(***************************************************************************)
EXTENDS Sizing, FiniteSets, FiniteSetsExt, Functions

CONSTANTS
  Signals,     \* one position each
  Kinds,       \* wallets looked at: "paper", "exchange"
  FilterSets,  \* what loadFilters() may return for the symbol
  Start,       \* paper.starting_balance, or the balance on the exchange
  MaxOpen,     \* risk.max_open
  Entry, Stop, Tp,  \* the prices of a signal
  Opens,       \* prices a candle may open at
  Exits,       \* prices a position may be sold at
  Slippage,    \* paper.slippage_pct of a price
  FeePct       \* fee_pct

ASSUME SignalAssumption == IsFiniteSet(Signals)
ASSUME KindAssumption   == Kinds \subseteq {"paper", "exchange"}
ASSUME FilterAssumption == FilterSets \subseteq SymbolFilters
ASSUME MoneyAssumption  == {Start, MaxOpen, Slippage, FeePct} \subseteq Nat
ASSUME PriceAssumption  == /\ {Entry, Stop, Tp} \cup Opens \cup Exits \subseteq Nat \ {0}
                           /\ Stop < Entry /\ Entry < Tp

VARIABLES
  kind,     \* PaperWallet or ExchangeWallet, which never changes
  filters,  \* the filters of the symbol, read once at start
  cash,     \* wallet.cash
  quote,    \* the quote balance on the exchange
  pos,      \* the record of each position and the stage of its handler
  coins     \* the coins really held for each position

vars == <<kind, filters, cash, quote, pos, coins>>

-----------------------------------------------------------------------------
(* The equity a signal is sized with *)

NoPos == [at |-> "none", remaining |-> 0, entry |-> 0]

Paper == kind = "paper"

\* The keys of the manager's map: an entry of the exchange enters it once protected.
Tracked == {s \in Signals : pos[s].at \in (IF Paper THEN {"pending", "bought", "held"} ELSE {"held"})}

\* The consumer handles one signal after the other.
Entering == ~Paper /\ \E s \in Signals : pos[s].at \in {"buying", "bought"}

Costs == [s \in Signals |-> pos[s].remaining * pos[s].entry]

\* (mutant) over all the tracked positions
OpenCostTracked == SumFunctionOnSet(Costs, Tracked)

\* Filled positions at cost, by what their records say remains.
OpenCost == SumFunctionOnSet(Costs, {s \in Signals : pos[s].at = "held"})

\* sizingBalance()
Equity == cash + OpenCost

Sized(price) == SizePosition(Equity, price, Stop, filters)

\* What the account is worth at cost: the money there is and the coins there are.
Book == (IF Paper THEN cash ELSE quote)
          + SumFunctionOnSet([s \in Signals |-> coins[s] * pos[s].entry], Signals)

Fee(amount) == (amount * FeePct) \div 100

-----------------------------------------------------------------------------
(* Entries *)

\* handleSignal(): sized at the signal's price; pending in paper, else to be bought.
HandleSignal(s) ==
  /\ pos[s].at = "none" /\ ~Entering
  /\ Cardinality(Tracked) < MaxOpen
  /\ pos' = [pos EXCEPT ![s] =
       IF ~Accepted(Sized(Entry)) THEN [NoPos EXCEPT !.at = "refused"]
       ELSE [at |-> IF Paper THEN "pending" ELSE "buying", remaining |-> Sized(Entry).qty, entry |-> Entry]]
  /\ UNCHANGED <<kind, filters, cash, quote, coins>>

\* PaperAdapter.quoteEntry()
QuoteEntry(open) == open + Slippage
Gapped(open) == QuoteEntry(open) <= Stop \/ QuoteEntry(open) >= Tp

\* fillPending() gives the entry up: the open is beyond stop or target, or the size
\* at this open is below a minimum.
CancelPending(s, open) ==
  /\ pos[s].at = "pending"
  /\ Gapped(open) \/ ~Accepted(Sized(open))
  /\ pos' = [pos EXCEPT ![s] = [NoPos EXCEPT !.at = "refused"]]
  /\ UNCHANGED <<kind, filters, cash, quote, coins>>

\* (mutant) the size computed when the signal came is bought
FillPlanned(s, open) ==
  /\ pos[s].at = "pending"
  /\ ~Gapped(open) /\ Accepted(Sized(open))
  /\ LET qty == pos[s].remaining  price == QuoteEntry(open) IN
       /\ cash' = cash - price * qty - Fee(price * qty)
       /\ coins' = [coins EXCEPT ![s] = qty]
       /\ pos' = [pos EXCEPT ![s] = [at |-> "bought", remaining |-> qty, entry |-> price]]
  /\ UNCHANGED <<kind, filters, quote>>

\* fillPending() buys at this open, sized anew; onBuy() moves the cash at once.  An
\* open under the stop that slippage lifts above it makes the size negative;  what
\* becomes of such a position is left out: it is not sold any more.
FillPending(s, open) ==
  /\ pos[s].at = "pending"
  /\ ~Gapped(open) /\ Accepted(Sized(open))
  /\ LET qty == Sized(open).qty  price == QuoteEntry(open) IN
       /\ cash' = cash - price * qty - Fee(price * qty)
       /\ coins' = [coins EXCEPT ![s] = qty]
       /\ pos' = [pos EXCEPT ![s] = [at |-> "bought", remaining |-> qty, entry |-> price]]
  /\ UNCHANGED <<kind, filters, quote>>

\* The exchange fills the market buy at its own price, or has not the money for it.
ExchangeBuys(s, price) ==
  /\ pos[s].at = "buying"
  /\ LET cost == price * pos[s].remaining IN
       IF cost > quote
       THEN /\ pos' = [pos EXCEPT ![s] = [NoPos EXCEPT !.at = "refused"]]
            /\ UNCHANGED <<quote, coins>>
       ELSE /\ quote' = quote - cost
            /\ coins' = [coins EXCEPT ![s] = pos[s].remaining]
            /\ pos' = [pos EXCEPT ![s].at = "bought", ![s].entry = price]
  /\ UNCHANGED <<kind, filters, cash>>

\* activate(): the record becomes a filled position (and enters the map); an entry
\* beyond stop or target is refused by openPosition(), the coins are bought.
Activate(s) ==
  /\ pos[s].at = "bought"
  /\ pos' = [pos EXCEPT ![s].at = IF Stop < pos[s].entry /\ pos[s].entry < Tp THEN "held" ELSE "lost"]
  /\ UNCHANGED <<kind, filters, cash, quote, coins>>

-----------------------------------------------------------------------------
(* Exits *)

Receive(amount) ==
  IF Paper THEN cash' = cash + amount - Fee(amount) /\ UNCHANGED quote
           ELSE quote' = quote + amount /\ UNCHANGED cash

\* A protective order of the exchange fills; no record knows of it yet.
ExchangeSells(s, qty, price) ==
  /\ ~Paper /\ pos[s].at = "held" /\ qty \in 1 .. coins[s]
  /\ quote' = quote + price * qty
  /\ coins' = [coins EXCEPT ![s] = @ - qty]
  /\ UNCHANGED <<kind, filters, cash, pos>>

\* step() or closeManual() lowers the remaining quantity to rest and settleExits()
\* sells down to kept before anything else runs:  in paper everything, or a first
\* part when TP1 and the end fall in one candle;  on the exchange maybe nothing
\* yet, and never again what it has sold by itself.
StepAndSell(s, rest, kept, price) ==
  /\ pos[s].at = "held" /\ rest < pos[s].remaining
  /\ \/ kept = rest
     \/ kept > rest /\ Paper /\ rest = 0 /\ kept < pos[s].remaining
     \/ kept > rest /\ ~Paper
  /\ pos' = [pos EXCEPT ![s].remaining = rest]
  /\ LET left == Min({coins[s], kept}) IN
       coins' = [coins EXCEPT ![s] = left] /\ Receive(price * (coins[s] - left))
  /\ UNCHANGED <<kind, filters>>

\* What closeLong() has still to sell.
SellRest(s, price) ==
  /\ pos[s].at = "held" /\ coins[s] > pos[s].remaining
  /\ coins' = [coins EXCEPT ![s] = pos[s].remaining]
  /\ Receive(price * (coins[s] - pos[s].remaining))
  /\ UNCHANGED <<kind, filters, pos>>

\* finish() deletes the position from the map; the snapshot is still to come.
Release(s) ==
  /\ pos[s].at = "held" /\ pos[s].remaining = 0 /\ coins[s] = 0
  /\ pos' = [pos EXCEPT ![s].at = "released"]
  /\ UNCHANGED <<kind, filters, cash, quote, coins>>

\* snapshotEquity(): the exchange wallet asks for its balance first.
Refresh == cash' = IF Paper THEN cash ELSE quote

Snapshot(s) ==
  /\ pos[s].at = "released"
  /\ Refresh
  /\ pos' = [pos EXCEPT ![s].at = "closed"]
  /\ UNCHANGED <<kind, filters, quote, coins>>

Heartbeat == Refresh /\ UNCHANGED <<kind, filters, quote, pos, coins>>

-----------------------------------------------------------------------------

\* loadFilters(): what exchangeInfo says of the symbol, or nothing if it says too
\* little or the request fails.
LoadFilters == FilterSets \cup {Unfiltered}

\* init() of the wallet
Init ==
  /\ kind \in Kinds
  /\ filters \in LoadFilters
  /\ cash = Start /\ quote = Start
  /\ pos = [s \in Signals |-> NoPos]
  /\ coins = [s \in Signals |-> 0]

Next ==
  \/ \E s \in Signals :
       \/ HandleSignal(s) \/ Activate(s) \/ Release(s) \/ Snapshot(s)
       \/ \E open \in Opens : CancelPending(s, open) \/ FillPending(s, open) \/ ExchangeBuys(s, open)
       \/ \E price \in Exits :
            \/ \E qty \in 1 .. coins[s] : ExchangeSells(s, qty, price)
            \/ \E rest, kept \in 0 .. pos[s].remaining : StepAndSell(s, rest, kept, price)
            \/ SellRest(s, price)
  \/ Heartbeat

Spec == Init /\ [][Next]_vars

-----------------------------------------------------------------------------
(* Properties *)

Stages == {"none", "pending", "buying", "bought", "held", "lost", "released", "closed", "refused"}

\* No entry buys a negative quantity (PLAN.md:334 "Spot is long-only until M8"): true
\* where the filters of the exchange are loaded.
LongOnly == \A s \in Signals : pos[s].remaining >= 0 /\ coins[s] >= 0

TypeOK ==
  /\ kind \in Kinds
  /\ filters \in SymbolFilters
  /\ cash \in Int /\ quote \in Int
  /\ pos \in [Signals -> [at : Stages, remaining : Int, entry : Nat]]
  /\ coins \in [Signals -> Int]
  /\ filters # Unfiltered => LongOnly

Between(s) == pos[s].at = "bought" \/ (pos[s].at = "held" /\ coins[s] # pos[s].remaining)

\* wallet.ts:33 "quote cash plus what the open positions cost": in paper, whatever
\* handlers are in the middle of a fill, an entry is never sized with more than
\* the account is worth at cost, and with exactly that when none is.
EquityTrue ==
  Paper /\ LongOnly =>
    /\ Equity <= Book
    /\ (\A s \in Signals : ~Between(s)) => Equity = Book

\* A buy of qty at a price risks and costs the two percentages of the account, as it
\* stands at that moment, and slip a coin more at most.
Within(qty, price, slip) ==
  /\ 100 * qty * (price - Stop) <= PerTradePct * Book + 100 * qty * slip
  /\ 100 * qty * price <= NotionalCapPct * Book + 100 * qty * slip

\* What a paper entry is really bought for, with its slippage, loses at the stop and
\* costs per_trade_pct and notional_cap_pct of the account and the slippage of its
\* quantity at most, although it was planned at another price and other handlers buy
\* and sell in between.  The slippage is over the limits:  fillPending() sizes with the
\* open and buys above it (paper.ts:21, 24), where GLOSSARY.md:23 divides by
\* entry - stop, the entry being with slippage (GLOSSARY.md:14).
RiskAtFill == [][
  \A s \in Signals : pos[s].at = "pending" /\ pos'[s].at = "bought"
      /\ LongOnly /\ pos'[s].remaining > 0 /\ Equity >= 0
    => Within(pos'[s].remaining, pos'[s].entry, Slippage)]_vars

\* The same for an entry sent to the exchange: ARCHITECTURE.md:165 "capped at 25%
\* of equity notional".
ExchangeRiskKept == [][
  \A s \in Signals : pos[s].at = "none" /\ pos'[s].at = "buying"
    => Within(pos'[s].remaining, Entry, 0)]_vars
===============================================================================
