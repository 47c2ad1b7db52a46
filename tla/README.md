# Verification of the trading system

TLA+ models of this repository, model-checked with TLC and proved about with
TLAPS. `src/` paths below are relative to the repository.

    tlc -config Manager.cfg MCPositionManager    # one run of PROJECT.json
    tlapm ExitPolicyProofs.tla                   # the proofs

## 1. Inventory

The system trades one side (long, spot) from signals computed on closed candles.
Its processes share Postgres (TimescaleDB) and three Redis streams (`signals`,
`engine.events`, `engine.commands`):

| part | source | state it keeps | operations |
| --- | --- | --- | --- |
| exit policy | `apps/engine/src/positions/exitPolicy.ts`, `services/research/research/exit_policy.py` | one position: stop, target, TP1, what remains, extremes, bars, events | `openPosition`, `step`, `closeManual`, `realizedR` |
| position manager | `positions/manager.ts`, `positions/store.ts` | map of open and pending records; rows of `positions`, `signals`, `risk_events` | `handleSignal`, `onCandleClosed`, `closeAll`, `restore`, `forceClose`, `reprotect`, `checkRiskLimits` |
| risk manager | `risk/riskManager.ts` | none (pure) | `checkSignal`, `sizePosition` |
| signal / command consumers | `signals/consumer.ts`, `commands/consumer.ts` | pending entries of a consumer group | `readOnce`, `run`, `applyCommand` |
| engine main loop | `main.ts`, `state.ts` | flags in `engine_state`; the gap-fill promise; timers | candle, signal, command, report handlers, restart |
| paper and shadow | `execution/paper.ts`, `shadow.ts` | none | `openLong`, `closeLong` |
| wallets | `execution/wallet.ts` | cash (of the paper account, or as the exchange last told it), peak | `onBuy`, `onSell`, `refresh`, `equity`, `snapshot` |
| precision | `execution/precision.ts`, `exchangeInfo.ts` | filters of the symbols | `loadFilters`, `applyFilters`, rounding |
| Binance adapter | `execution/binance/adapter.ts`, `orders.ts`, `rest.ts` | rows of `orders` and `fills` | `openLong`, `protect`, `closeLong`, `release`, `emergencyExit`, execution reports |
| reconciler | `binance/reconcile.ts` | none | compare exchange orders with rows and records |
| streams | `marketdata/binanceWs.ts`, `gapFill.ts`, `binance/userStream.ts` | connection, backoff, watchdog; table `candles` | connect, reconnect, fill gaps |
| signal runner | `research/live/*.py`, `journal.py` | seen set; journal rows | one pass per closed candle, publish |
| backtester, jobs | `research/backtest/*.py`, `research/jobs/*.py` | none | replay of candles |
| strategies, indicators, labels | `research/strategies/*.py`, ... | none | functions of candles |
| dashboard, Telegram | `apps/dashboard` | none that matters to the engine | queries; commands |

How they interact: the engine stores closed candles; the runner polls them,
journals a signal and publishes it; the signal consumer calls `handleSignal`,
which checks the risk limits and opens a position through an adapter (shadow and
exchange modes) or parks it for the next open (paper).  Every closed candle is
handed to `onCandleClosed`, which fills parked entries, applies the regime
invalidation and steps the exit policy; what the policy sells goes through the
adapter, then the store, then the events stream.  On Binance the adapter keeps two
OCO lists per position on the exchange; their fills reach it as execution
reports, by a poll, or when the exit policy asks for a sale.  Commands close
positions and set flags.  All of these are asynchronous functions of one Node
process: they interleave at every `await`, share the records in the manager's map,
and survive a restart only through what the store wrote.

What is hard in it, with the properties that make each part correct:

* the exit policy: the order of checks within a candle, rounding of the partial
  sale, stops that must only rise, a worst case bounded by the risk, agreement of
  two implementations;
* the position manager: handlers of two timeframes, of signals and of commands
  interleaving on one record; what was bought must be sold or managed, the map
  and the rows must agree, limits must hold although they are read before an await;
* the money: an entry is sized from what the wallet says while other handlers buy
  and sell; it must keep the risk and the cap of the account as it is;
* crashes and failing statements: a restart must find the positions that were
  there, a redelivered signal must not trade again, a close must be completed;
* the exchange side: refused placements, lost answers, reports and polls out of
  order, a reconciler beside the manager; a position must be bought once, have its
  stop on the exchange, end sold, and the orders table must be true;
* the data: gaps, reconnects and failing fetches must not leave holes, and the
  runner must evaluate every candle and deliver every signal once.

`PROJECT.json` lists every component and hazard with its line.

## 2. Modules

| module | models | runs |
| --- | --- | --- |
| `ExitPolicy` | `exitPolicy.ts` | `ExitPolicy` |
| `ExitPolicyPy` | `exit_policy.py`, as functions | through `ExitPolicyParity` |
| `ExitPolicyParity` | the two side by side on the same candles | `ExitPolicy` |
| `PositionLife` | abstract: the stages of a position | refined by `ExitPolicy` and `PositionManager` |
| `PositionManager` | `manager.ts` with its store, consumers, paper wallet and restart | `Manager`, `ManagerLive` |
| `RiskLimits` | `checkRiskLimits`, `checkSignal` and the history they share | `RiskLimits` |
| `Sizing` | `sizePosition`, `applyFilters` and the rounding, as operators | through `Account` |
| `Account` | wallets, fills and `sizingBalance` of positions handled side by side | `Account`, `ExchangeSizing` |
| `SpotExchange` | the exchange's orders (external), operators | through `BinanceAdapter` |
| `BinanceAdapter` | `adapter.ts` with the manager, reconciler, poll and reports around it | `Binance*` |
| `CandleTable` | abstract: what readers of the candles table are promised | refined by `CandleFeed` |
| `CandleFeed` | kline stream, gap fill, candle handler | `CandleFeed` |
| `SignalRunner` | `runner.py` on top of `CandleTable` | `SignalRunner` |
| `ExitPolicyProofs` | theorems about `ExitPolicy` | tlapm |
| `PositionManagerProofs` | theorems about `PositionManager`: types; books, restart, outcomes, rows, `max_open` | tlapm |
| `BinanceAdapterProofs` | theorems about `BinanceAdapter`: types, a true orders table, the entry | tlapm |
| `RiskLimitsProofs`, `AccountProofs`, `CandleFeedProofs`, `SignalRunnerProofs` | theorems about these | tlapm |
| `Sums` | lemmas about sums over finite sets | tlapm |
| `MC*` | bounded instances | |

In all of them an action is what one asynchronous function does between two
awaits.  A definition marked `(mutant)` is a plausible bug; no specification uses
it, and replacing the definition it follows by it must violate a property.

### ExitPolicy

`pos` is a `PositionState`; `fills` are the selling events of `pos.events`, `evs`
the events the last call returned.  `step()` is the disjunction of its four ways
to return: `StopOut`, `TakeProfit` (TP1 sold everything, or the final target),
`TimeStop` and `Hold`; each takes the whole candle, so the order of the checks in
the code is in the guards.  `Hold` composes `AfterPartial`, `Breakeven` and
`Trail` as the code does.  Prices are integers in any unit and quantities
integers in the unit of 1e-8 that `r8()` rounds to: `PartialQty` rounds half up
as `Math.round`, and `fee_pct`, `tp1_fraction` are ratios of integers.  What this
leaves out is binary floating point and the rounding of prices to 1e-8 in events.
`openPosition()` throws unless `sl < entry < tp`; `Init` starts from every
position it accepts, with a TP1 from the signal (above the stop) or the default.

`ExitPolicyPy` is translated from the Python source on its own, in its own style,
so that `SameStream` compares two translations and not one with itself.  Ties in
the rounding of a half unit, where `Math.round` and `round()` differ, are excluded
by a named assumption: exchange steps are coarser than 1e-8.

### PositionManager

`job[h]` is what handler `h` is doing: where it waits (`at`), for which position,
what is left of its snapshot of the open positions (`todo`), and what it captured
before the await (the record written, the cash saved, the flag read).  So a row
is written with the value the statement was issued with, and not with what the
record says when it lands.  Handlers are the signal consumer, the command
consumer, two candles of the entry timeframe and one of the regime timeframe.
`Overlap` says which may be under way together; the runs choose it.

| code | actions |
| --- | --- |
| `readOnce`, `handleSignal`, ack | `TakeSignal`, `LoadFlags`, `CopyOpen`, `Reject`/`Accept`, `MarkRejected`, `OpenLong`, `Insert`, `Ack` |
| `activate` | `Activate`, then `Insert` or `FillUpdate`, `MarkAccepted`, `Protected` |
| `onCandleClosed` | `StartCandle`, `FillPending`, `Fill`, `CancelPending`, `Invalidate`, `LoadCandles`, `StepPosition`, `Skip`, `EndLoop` |
| `settleExits` | `Sell`, `Sold` |
| `finish`, `store.close` | `Settled`, `CloseRow`, `CloseOutcome`, `CloseSignal`, `Release`, `EmitClosed` |
| `applyCommand`, `closeAll` | `StartCommand`, `ManualClose`, `SetPaused` |
| a rejected promise; a restart | `Fail`; `Crash` |

A position is bought as two units and the exit policy is nondeterministic: it
keeps the position, sells one unit (TP1), or closes it in one or two sales.
Prices, fees, symbols and R are left out; `checkSignal` may refuse for any reason
it has no state for.  With an adapter that has no exchange orders `protect` and
`release` return at once.

`Crash` forgets the memory and runs `restore()` and `wallet.init()`.  Signals the
dead consumer had not acknowledged are read again only if the new process happens
to have the same consumer name, which contains the pid; both cases are allowed.

### RiskLimits

Two readers of one table: `handleSignal` reads the outcomes and decides,
`checkRiskLimits` reads them again after each close and announces.  Time counts
candles; a close is dated by its candle, and the clock moves when no handler is
under way (a handler takes seconds, a candle fifteen minutes).  Exits are
nondeterministic with an R out of `Results`.  `Reject` may happen for any reason the
model has no state for; `Accept` only if neither limit nor `max_open` refuses.  Outcomes
of one candle are read in any order, as their timestamps are equal.  An assumption
limits the signals to 50: then the `LIMIT 50` of `recentOutcomes` leaves nothing out.

| code | actions |
| --- | --- |
| `handleSignal` | `TakeSignal`, `CopyContext`, `Reject`/`Accept` |
| `fillPending`; `cancelPending` | `Fill`; `Cancel` (the map), `CancelRow` |
| `finish`, `store.close`, `release` | `Close` (the row), `CloseOutcome`, `Release` (the map) |
| `checkRiskLimits` | `ReadHistory`, `ReadDaily`, `AnnounceDaily`, `ReadCooldown`, `AnnounceCooldown` |
| a rejected call; a restart | `EntryFails`, `AcceptFails`, `CancelFails`, `OutcomeFails`, `CheckFails`; `Crash` |

What a crash or failure does to the limits is kept in two history variables that no
action reads: `uncounted`, the positions that left the map while their row stayed (a
cancelled entry that comes back, a close without its outcome, an `activate` that
failed behind its insert), and `unchecked`, the closes whose `checkRiskLimits` was cut
short.  `DayLossBounded` adds the first to `max_open`; `Announced` excuses a day by the
second until the next close of that day.  Left out here: a failure of the third
statement of `store.close` or of `release`, after which a candle finishes the position
again and dates its row anew, and two handlers of one position at a
time (both in `PositionManager`).

### Sizing, Account

Prices and quantities are integers in a unit that every tick and step is a multiple of,
so that decimal arithmetic and these operators agree; a quantity before rounding is a
fraction.  In `Account` the stage of a position is where the handler at work on it
waits.  The paper wallet is moved by each fill; the exchange wallet has the balance of
its last refresh (start, heartbeat, snapshot after a close) while `quote` and `coins`
are what the exchange really holds.  `StepAndSell` takes the policy's decision and the
first sale in one step, as `settleExits` does before its first await.  `Book` is what
the account is worth at cost.  Limits: the candle's open, the exits and the slippage
are small sets, all symbols share one set of filters, a position of a negative
quantity (see section 4) is not followed further.

### BinanceAdapter and SpotExchange

One position.  `todo[h]` is the list of what handler `h` still has to do; an action
takes the head of one list up to the next await and may put more in front of the
rest, so that `protect` called from `activate`, from a candle, from the reconciler
or from a fallback is the same list.  A row or request the code keeps across an
await travels in the item (`held`, `row`, `req`, `less`), which is how a stale row is
written back.  `ex` is the exchange, `rows` the orders table, `rec` the record in
memory, `db` its row.

| code | actions |
| --- | --- |
| `openLong`, `activate` | `TakeSignal`, `Lookup`, `Buy`, `EntryStatus`, `EntryFills`, `Activate`, `Opened` |
| `protect`, `cancelGroup`, `refresh`, `recordOrder` | `ProtectRead`, `Cancel`, `Ask`, `WriteAnswer` |
| `placeGroup`, `handlePriceConstraint` | `PlaceList`, `Insert`, `Constraint` |
| `marketSell`, `emergencyExit`, `forceClose` | `SellAtMarket`, `RecordSale`, `Mark`, `Emergency`, `ForcedClose` |
| `closeLong` | `CloseRead`, `Consume`, `Write`, `Short`, `Mark` |
| candle handler on an exchange position | `Candle`, `Settled`, `Update`, `Finish`, `Release`, `Unmap` |
| reconciler, order poll | `StartReconcile`, `Listed`, `Coverage`, `Booted`, `StartPoll` |
| `applyExecutionReport` | `TakeReport`, `EntryReport`, `Write`, `EntryStatus`, `EntryFills` |
| a failing statement; the market; the process | `StatementFails`; `Fill`; `Crash` |

Prices are left out.  Any resting leg may fill, whole or in part; as soon as one leg of
a list has filled at all the exchange expires the other.  The level that was traded through
is in `traded` until a candle shows it to the manager, whose exit policy then
decides accordingly.  What goes wrong is bounded by `Bounds`, each kind and all
together: a placement refused for its prices (`rejects`), a REST call or statement that
fails, before or after taking effect, at any await (`faults`), a lost answer to the buy
(`lostBuys`), a fill in the middle of a handler (`races`), a reconciliation between a
fill and the candle that shows it (`early`), and a crash at any await.  A placement is
refused for funds when the free balance says so.

What is merged or left out: a market order fills whole; the fills of the entry, one
insert each, come in one step, and those of the sells, which only give prices, not at
all; the row of a market sale the exchange refuses, which stays open without exchange
id and is never looked at again; `RecordSale` writes status and fills together.
`Qty` is what is left of the buy after a commission.  Quantities within one step of the
asset are taken for equal, and both groups are assumed larger than that.

### CandleTable, CandleFeed

`CandleTable` promises: a stored candle has closed, stays stored, and extends the
stored range without a hole.  `CandleFeed` has the socket (with its watchdog and
reconnect timer), one `fillAllGaps` per connect that fetches page by page, and the
handlers that wait for the fill started last before they store their candle and
step the manager.  Fills of several connects and the handlers run beside each
other.  A fill spans at most one close, and the handlers of one candle are done
before the next of the same series, as seconds and minutes are.

### SignalRunner

Extends `CandleTable`, but asks less of the table than `CandleTable` promises: `Stored`
adds any candle that has closed, at any time and in any order, so that between two
looks of the runner the several candles of a gap fill may come (`gapFill.ts:59`), or
later ones without earlier ones.  `run.at` is where `run_live` is: loading and evaluating an instance, writing its signal,
publishing it, asleep until the next close, between two polls, or dead (an error
inside the poll loop is caught nowhere; pm2 restarts it).  An evaluation finds a
signal or does not.  The three loads of an instance are one step, and a pass takes
less time than a candle.

## 3. Runs

`CHECK_DEADLOCK FALSE` everywhere: a closed position takes no step, and the models
stop when the bounded signals, commands, candles and disturbances are used up.

| run | instance | states | shows |
| --- | --- | --- | --- |
| `ExitPolicy` | prices 8..13, ATR 0..2, quantity 4, 4 parameter sets, up to 4 candles | 145 k | conservation, loss within 1 R, sales within the recorded extremes, stop first, ratchet, identical positions and events in TypeScript and Python, `PositionLife` |
| `Manager` | paper and shadow, 2 signals, 1 slot, one of five commands, one crash anywhere; signals overlap everything | 347 k | books, outcomes only when true and max_open until the crash; restart image and `PositionLife` of the rows through it |
| `ManagerLive` | 1 signal, one kill, one failing call anywhere, all overlaps but two candles of one timeframe | 360 k | pending entries are resolved, closes completed |
| `RiskLimits` | 3 signals, 2 slots, limit 1 R, 2 losses for a cooldown of 2 candles, days of 2 candles, one crash and one failing call at any await | 2.1 M | bounded loss of a day, announced is enforced, reached is announced, cooldown |
| `Account` | paper and exchange, with and without filters, 2 positions, opens below and above the stop, slippage 2, fee 1% | 154 k | equity never above the book, risk and cap of a paper entry at its fill |
| `Binance` | quantity 2, no TP1; all handlers overlap; up to 3 of: candle, report, fault, price refusal, race, early reconciliation, lost answer to the buy, crash (one of each) | 2.3 M | the table never says more than the exchange, bought once |
| `BinanceLive` | quantity 3 with 1 at TP1, 1 other coin, handlers one at a time, fills in parts; up to 3 of: 2 candles, 3 faults, and one early reconciliation, poll, report, price refusal, lost answer to the buy | 530 k | a handled candle leaves the rest on stops, a finished position is sold and nothing rests, a lost stop comes back |
| `CandleFeed` | 2 series, 4 ticks, bootstrap and page of 2 candles, 1 drop or hang, 1 failing call, 1 restart | 48 k | `CandleTable` implemented, a step sees all earlier candles, everything stored in the end |
| `SignalRunner` | 2 instances of one coin, one needing a slower series, 1 error, 1 kill | 383 k | published once and lost only to a failure, evaluation goes on; candles stored in any order |
| `BinanceReconcile`, `BinanceEntryLost`, `ExchangeSizing` | small | | violations, see 4 |

Why the bounds are enough: six prices leave room for a stop, an entry, a TP1, a
target and a level beyond each, four candles for TP1, breakeven, trailing and the
exit in every order.  Two signals with one slot and a crash exercise a redelivery
beside a live position.  Three closes in two days over two slots exercise a limit
reached by two positions at once, a gain after it, and a new day; that a position
which escaped the count adds to the day's loss takes more closes than these, and is
left to the proof.  Quantity 3 with TP1 of 1 keeps both groups, their sum and a one-unit
error apart and lets the larger one fill in parts; the other coin lets an oversale go
through; three faults refuse a placement for good and reach the emergency exit.  In
`Binance`, where all handlers overlap, quantity 2 without TP1 leaves one group, which
already fills in parts and is placed again; three disturbances are a fill during a
handler whose stale row is written back after a report and a crash behind it.
Two positions are enough for one entry to be sized while another fill is under way;
the opens 78 and 79 lie under the stop of 80, with the quote at and above it.
A page of two with four ticks makes a gap of several pages and a restart within it.
One fault or crash at a time is the interesting case; the bounds are constants.

What the runs do not let overlap, and why: in `Manager` two candles, or a candle
and a command, on one position; in `BinanceLive` any two handlers.  The code breaks the
properties there (section 4), so the runs state exactly where they hold.  `CandleProtects`
and `ClosedFlat` are about a life in which no call failed, no placement was refused for
its prices and the engine did not die (`Calm`), and the first only about the moments at
which a candle has been handled since the last fill: `BinanceReconcile` shows what lies
between.  `Reprotected` gives up when the engine is paused for an order it does not know.
Properties about the first life of the process say so (`FirstLife`).

Fairness.  `PositionManager`: every handler runs on (a Node continuation is never
starved), candles of the entry timeframe keep closing, the consumer keeps reading.
`BinanceAdapter`: every handler runs on, the consumer keeps reading, the
reconciler's five-minute timer fires again and again; nothing is assumed of candles,
reports or the poll.  `CandleFeed`: timers fire, calls return, a reconnect opens
the socket in the end.  `SignalRunner`: the process runs, the 90-second deadline of
the polling passes, the clock and the feed go on.  Faults are bounded everywhere, so
what is retried succeeds in the end.

## 4. Where the code and its own words disagree

Runs that find a violation:

* `BinanceReconcile` - "invariant: no open position without an exchange-side stop"
  (`adapter.ts:16`): after a TP1 fill that no candle has shown yet, the reconciler
  finds the coverage short (`reconcile.ts:59`) and re-protects the old quantity.
  Three placements are refused, the emergency exit cancels the stop of the rest,
  and its own sale of the full quantity is refused too.
* `BinanceEntryLost` - "retry after a crash: already bought" (`adapter.ts:196`):
  a crash between the accepted buy and its row leaves a `new` row without exchange
  id; the retry is refused as a duplicate, `refresh()` skips the row, nobody owns
  the coins.
* `ExchangeSizing` - "capped at 25% of equity notional" (`ARCHITECTURE.md:165`),
  "quote cash plus what the open positions cost" (`wallet.ts:33`): the exchange wallet
  is not refreshed after a buy, so until the next heartbeat or close the money of an
  open position counts twice and the next entry is larger than the cap.

Seen in the models or on the way, with no run of their own:

* exit policy: "Breakeven once the close reaches +breakeven_r" (`exitPolicy.ts:147`)
  does not happen if TP1 was sold in an earlier candle that closed below it;
* manager: when a candle fills the entry a kill is cancelling, `cancelPending`
  throws (`manager.ts:231`), the engine is not paused and the command is not read
  again; an `UPDATE` issued before another timeframe's close lands after it and
  reopens the row (`manager.ts:292`); two handlers that finish one position emit
  `position_closed` twice; a signal whose flags were loaded before a kill opens
  behind it; two candles released together by the gap fill buy a pending entry
  twice; a failing first sale of two is journaled as a complete exit;
* crash: balance and position are saved by two statements, a crash between them
  buys or sells twice in the paper books (`wallet.ts:65`); a redelivered signal
  turns its accepted journal row to rejected ("replay safe", `PLAN_BUILD.md:83`);
* limits: a gain lifts the daily limit again on the same day although "no new
  entries until the next UTC day" was announced (`manager.ts:401`, `PLAN.md:130`);
  two concurrent closes announce it twice ("once", `manager.ts:387`); a rejected call in
  `finish` behind `open.delete` skips the check for good (`manager.ts:367`); a crash
  between `open.delete` and the row of a cancelled entry restores it beside its
  replacement (`manager.ts:229`), and one inside `store.close` leaves a closed row whose
  R is never counted (`store.ts:102`);
* adapter, two handlers at once: a handler beside the manager loses a consumed quantity,
  since a whole row is written back (`orders.ts:50`); the loser of two `protect` runs
  sells a healthy position; a target fill within seconds of a TP1 fill is oversold by
  the placement under way; an order whose row is not inserted yet is taken for unknown
  and pauses entries (`reconcile.ts:44`);
* adapter, a failure: when the answer to a placement is lost, or the insert of its row
  fails (`adapter.ts:304`, `:315`), a list that no row names locks the coins, every later
  placement and the emergency sale are refused, the reconciler pauses entries, and the
  position is never protected again; an emergency exit while the entry is being
  activated finds no record (`manager.ts:262`), and the record enters the map as if it
  held coins; `protect()` goes on with its second group after an emergency exit of the
  first; a crash between a sale and `store.update` restores the record without the sale;
  a crash between the two statements of `recordOrder` leaves a filled entry without
  fills, at whose price of 0 the retry of `adapter.ts:196` fails; a lost answer to the
  buy, like the crash of `BinanceEntryLost`, leaves coins that nobody manages; when a
  target or stop filled while the engine was down, the first reconciliation re-protects
  coins already sold, throws, and `main()` exits, again after every restart;
* adapter, otherwise: after a part of a limit leg fills, the rest of it has no stop until
  the next candle or reconciliation ("no open position without an exchange-side stop");
  two stop-only fallbacks share one group and are merged; a rest of at most one step
  gets no OCO;
* sizing in paper: `fillPending` sizes with the open and buys at the open plus slippage,
  the backtester sizes with the fill ("Same rules as research/backtest/engine.py",
  `paper.ts:6`; `engine.py:151`), so the risk at the fill can exceed `per_trade_pct`
  ("the *effective* risk can be less than 1%", `GLOSSARY.md:23`); the gap is checked at
  the quote and the size computed at the open: when the stop lies between them the
  quantity is negative, and without exchange filters nothing refuses it ("Spot is
  long-only until M8", `PLAN.md:334`);
* entry on an exchange: `activate` throws after the buy when the fill is beyond stop
  or target (`manager.ts:183`), and `orders.position_id` references a row that is
  inserted only after the buy (`001_init.sql:102`);
* feed: "so the journal never has a hole" (`gapFill.ts:2-3`), but a fill that fails is
  logged, the next live candle is stored behind the gap, and later fills start from
  that candle; gap-filled candles never step the manager (`PLAN.md:148` asks for the fill
  before evaluation); handlers waiting for a slow fill may resume out of order; a
  `stop()` while `createListenKey()` is pending opens the user stream afterwards;
* runner: "whenever a new closed entry-timeframe candle appears for a strategy instance,
  evaluates that instance on it" (`runner.py:3-4`), but the poll loop ends with the first
  instance evaluated (`runner.py:137`); an error in the outer pass loses a signal already marked as seen, one in
  the poll loop ends the process; a signal journaled and not published is never
  published; the regime candle may be stored after the entry candle of the same
  moment (`PLAN_BUILD.md:93`).

## 5. Proofs

TLAPS checks the theorems listed in `PROJECT.json`, for every value of the constants
the named assumptions allow.  Every safety property of a passing run is proved but
`ClosedFlat` and `CandleProtects`, some of them under assumptions on what overlaps and
what fails, which are named below; the liveness properties are not.

**Exit policy** (`ExitPolicyProofs`).  None of the properties is inductive: that a live
position has sold exactly its partial quantity, that it is recorded if and only if
`tp1_done`, and that the stop has not dropped below its first value while the
recorded low stayed above it, are needed together.  `Inv` says so (`Ledger`,
`Sheltered`).  `PartialQtyBounds` is the arithmetic: rounding half up never sells less
than nothing or more than everything.  `PriceInv` adds where the prices of the sales
lie: the stop of a live position is a price the market has reached (its first value,
breakeven, or below the highest high), hence `LossWithinRisk` and
`ExitsWithinExcursion`.  `SameStreams` compares the two translations: each part of
the Python `step()` returns the position of its counterpart and the events the fills
and moved levels tell (`PyPartialIs`, `PyBreakevenIs`, `PyTrailIs`, `PyStepIs`), and
`RoundSame` is why `round()` and `Math.round` agree where `NoTieAssumption` excludes ties.

**Position manager.**  `PositionManagerProofs` proves the types for any `Overlap`, any
number of faults and crashes; the invariant says what each handler holds at each
await.  The rest is proved under two named assumptions, `Serial`
(handlers of candles and commands take turns, the signal consumer overlaps with all
of them) and `NoFaults` (no statement fails; the process may crash at any point).  The
run `Manager` is such an instance, and without them the properties are false: section 4
lists what two overlapping handlers and a failing statement do.  So these theorems say
that signals beside a candle or a command, and crashes at any await, do no harm, and
nothing of two finishers, of a late `UPDATE` or of a close that fails halfway.  `BooksInv` gives each
signal one of a few stages (`Fresh`, `Waiting`, `Bought`, `Owned`, `Settling`, `Exited`,
`Over` ...) that tie its record, its row, what the wallet bought and sold and its
journal row to the await the handler in charge of it is at; a crash voids what is said
of the wallet and the journal.  `RestartSafe` and the refinement of `PositionLife`
(`RowsLive`) follow for every life of the engine, `BooksBalance` and `OutcomeTrue` until
the first crash.  `MaxOpenIsKept`, until the first crash too, needs only `Serial`, with
any number of faults: `LimitInv` says that the map the consumer copied still covers every
position that is or will be in it.

**Limits** (`RiskLimitsProofs`).  `LossInv`: the R booked on the current day, less the
worst R of each position still open, stays above the limit plus what `max_open`
positions, and those a crash or a failure took out of the count, can lose beyond it
(`RoomLeft`).  `TellInv`: between a close and the check that follows it, some handler
holds the outcomes that announce the limit, unless the check was cut short.  The attempt to prove `CooldownHolds` found it false as it was first stated:
outcomes of one candle have equal timestamps, and a loss and a gain may be read in
either order.

**Sizing and account** (`AccountProofs`).  `QtyRounding`, `PriceRounding`,
`SizeWithinLimits` and `SizeIsLargest` are about `sizePosition` and `applyFilters` for any
balance, prices and filters.  `EquityIsTrue`: a record never counts more coins than
there are (`RecordOK`), summed over any finite set of signals.  `RiskIsBounded`: with
`EquityIsTrue`, a size computed from the equity is within the account's worth at the
open, and the price it is bought at adds the slippage of its quantity to the risk and to
the cost, no more.  Three
findings of section 4 (the size at the open, the negative quantity, the stale balance)
were met as leaves that would not go through.

**Feed** (`CandleFeedProofs`).  As long as no call has failed, `Good` says of each fill
and each waiting handler which candles are already stored below it and which one it
will store next (`Above`, `Below`, `Near`, `Owed`, `Caught`), so that the stored range has no
hole and reaches as far as every handler needs: `StepSeesAll` and the refinement
`KeepsTable`.

**Runner** (`SignalRunnerProofs`).  `Inv`: a signal about to be published is journalled
and was not published before (`InHand`), a published one is journalled (`Once`), so that
the insert that finds its row again ends the matter; and while nothing failed every
signal found is published or in hand (`Safe`).  There is at least one instance, as `run_live()`
takes the shortest of their timeframes.

**Binance adapter** (`BinanceAdapterProofs`).  The three theorems need no assumption on
what overlaps or fails: any overlap of the handlers, any number of candles, fills in
parts, faults, refusals, races, early reconciliations, lost answers and crashes.
`TypeCorrect` is not inductive: handlers carry copies of rows, requests and answers across
awaits, so `TypeInv` says of every item on a handler's list which rows, orders and tickets
it may name, and that what is sold and locked together never exceeds `Spare + bought`
(what one step of the exchange does to that sum), without which the free balance would
leave the naturals.  `RowsAreTrue`: a copy of a row is written back whole, so the invariant
is the same for a copy in a handler's hands and for the table - it claims no more than
the order has executed, consumed no more than it claims, and says finished only of an
order that does not rest - and every step of the exchange keeps it, as executions only
grow and an order that is done stays done.  `TakeSum`: `consume()` takes the smaller of
what it needs and what no sale was booked for.  `EntryIsTrue`: the client order id admits
one buy, and a row that says so, or an item that leads to the map, is behind it.

**Sums** (`Sums`).  Sums over finite sets, proved by well-founded induction over the
subsets: how a sum changes with one term, and that it is monotone.

Assumptions on constants, beyond types: `tp1_fraction` at most 1 and positive
quantities (config and sizing), no rounding ties (steps of the exchange are coarser than
1e-8), at most 50 signals (`LIMIT 50` of `recentOutcomes`), at least one instance.

Only model-checked: the liveness properties (`PendingResolved`, `ExitFinished`,
`Reprotected`, `CaughtUp` of the feed and of the runner), which need fairness and are out
of the prover's reach; and `ClosedFlat` and `CandleProtects` of the adapter with its
handlers one at a time.

## 6. Not modelled

* parsing and printing of decimals and of `exchangeInfo`.
* peak, drawdown and the marks of open positions in equity snapshots, the heartbeat's
  fields, the reconciler's balance check: written and never read back by what is
  modelled.
* connect and keep-alive timers of the user stream: their effect, a report that
  is late or never comes, is modelled.
* `news_block`, `entries_enabled`, `move_sl`: read like `paused`, or without effect.
* strategies, indicators, labels, the backtester's statistics, research jobs and
  reports: floating-point functions of data frames.
* the dashboard, the Telegram bot, the generated contracts: queries, formatting and
  types; the commands they publish are inputs of `PositionManager`.
