----------------------------- MODULE CandleTable -----------------------------
(***************************************************************************)
(* What the engine promises the readers of the candles table (the signal   *)
(* runner, the position manager, the dashboard): a candle is stored once   *)
(* it has closed, it stays, and nothing is ever missing between two of     *)
(* them.  After a failed call the engine promises only that what is stored *)
(* is closed and stays stored.                                             *)
(***************************************************************************)
EXTENDS Naturals, FiniteSets, FiniteSetsExt

CONSTANTS
  Series,   \* symbol and timeframe
  Period,   \* the length of the candles of each series, in ticks
  LastTick  \* bound on the clock

ASSUME SeriesAssumption == IsFiniteSet(Series) /\ Period \in [Series -> Nat \ {0}]
ASSUME TickAssumption   == LastTick \in Nat

VARIABLES
  clock,   \* a candle of period p closes at each multiple of p and goes by that tick
  table,   \* the candles stored, for each series
  failed   \* a call of the engine to the exchange or to Postgres has failed

tableVars == <<clock, table, failed>>

LastClosed(x, t) == t - (t % Period[x])
Candles(x)       == {t \in 0..LastTick : t % Period[x] = 0}
Unbroken(x, s)   == s \subseteq Candles(x) /\ \A t \in Candles(x) : Min(s) <= t /\ t <= Max(s) => t \in s

TableInit ==
  /\ clock = 0
  /\ table \in [Series -> {{}, {0}}]
  /\ failed = FALSE

Tick ==
  /\ clock < LastTick
  /\ clock' = clock + 1
  /\ UNCHANGED <<table, failed>>

Store(x, t) ==
  /\ t <= clock
  /\ failed \/ Unbroken(x, table[x] \cup {t})
  /\ table' = [table EXCEPT ![x] = @ \cup {t}]
  /\ UNCHANGED <<clock, failed>>

Fail ==
  /\ failed' = TRUE
  /\ UNCHANGED <<clock, table>>

TableNext == Tick \/ Fail \/ \E x \in Series : \E t \in Candles(x) : Store(x, t)
TableSpec == TableInit /\ [][TableNext]_tableVars

=============================================================================
