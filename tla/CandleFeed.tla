------------------------------ MODULE CandleFeed ------------------------------
(***************************************************************************)
(* The market data of the engine: the kline stream with its watchdog and   *)
(* its reconnect timer (binanceWs.ts), the gap fill started on every       *)
(* connect (gapFill.ts, fillAllGaps in main.ts) and the handler of a       *)
(* closed candle, which waits for the fill, stores the candle and steps    *)
(* the position manager (main.ts).  Fills and handlers are asynchronous    *)
(* and run beside each other; an action is what one of them does from one  *)
(* await to the next.  The exchange is as the engine sees it: a closed     *)
(* candle is sent once to an open socket and can be fetched from then on.  *)
(***************************************************************************)
EXTENDS Naturals, Sequences, SequencesExt, FiniteSets, FiniteSetsExt

CONSTANTS
  Series,     \* configured symbol and timeframe pairs
  Period,     \* the length of the candles of each series, in ticks
  LastTick,   \* bound on the clock
  Bootstrap,  \* candles fetched for an empty series (500 in the code)
  Page,       \* candles the exchange returns per request (1000 in the code)
  Bounds      \* how often each disturbance may happen

ASSUME SeriesAssumption == IsFiniteSet(Series) /\ Period \in [Series -> Nat \ {0}]
ASSUME TickAssumption   == LastTick \in Nat
ASSUME FetchAssumption  == {Bootstrap, Page} \subseteq Nat \ {0}
ASSUME BoundAssumption  == Bounds \in [{"drops", "faults", "crashes"} -> Nat]

VARIABLES
  clock,   \* the exchange's clock
  table,   \* the candles stored in Postgres
  socket,  \* "down" (a reconnect is scheduled), "connecting", "open", "silent"
  wire,    \* closed candles sent and not yet received
  fills,   \* the calls of fillAllGaps() since the engine started
  jobs,    \* the handlers of closed candles under way
  budget   \* what is left of Bounds

exchange == <<clock, socket, wire>>
vars     == <<clock, table, socket, wire, fills, jobs, budget>>

Abstract == INSTANCE CandleTable WITH failed <- budget.faults < Bounds.faults

LastClosed(x, t) == Abstract!LastClosed(x, t)

-----------------------------------------------------------------------------
(* The gap fill: one series after the other *)

Start(todo, begun) ==
  IF todo = <<>> THEN [todo |-> <<>>, at |-> "done", begun |-> 0, to |-> 0, since |-> 0, page |-> 0]
  ELSE [todo |-> todo, at |-> "last", begun |-> begun,
        to |-> LastClosed(Head(todo), clock), since |-> 0, page |-> 0]

NextSeries(i) == fills' = [fills EXCEPT ![i] = Start(Tail(@.todo), @.begun)]
FillAt(i, x, at) == fills[i].todo # <<>> /\ Head(fills[i].todo) = x /\ fills[i].at = at

\* (mutant) always the most recent bars, whatever is stored.
ReadLastRecent(i, x) ==
  /\ FillAt(i, x, "last")
  /\ LET ahead == (Bootstrap - 1) * Period[x]
     IN fills' = [fills EXCEPT ![i].at = "fetch",
          ![i].since = IF fills[i].to > ahead THEN fills[i].to - ahead ELSE 0]
  /\ UNCHANGED <<exchange, table, jobs, budget>>

\* lastCandleTime() is back: from the candle after it, or the bootstrap bars.
ReadLast(i, x) ==
  /\ FillAt(i, x, "last")
  /\ LET to    == fills[i].to
         ahead == (Bootstrap - 1) * Period[x]
         since == IF table[x] # {} THEN Max(table[x]) + Period[x]
                  ELSE IF to > ahead THEN to - ahead ELSE 0
     IN IF since > to THEN NextSeries(i)
        ELSE fills' = [fills EXCEPT ![i].at = "fetch", ![i].since = since]
  /\ UNCHANGED <<exchange, table, jobs, budget>>

\* (mutant) the candle still forming is stored like the others.
FetchForming(i, x) ==
  /\ FillAt(i, x, "fetch")
  /\ fills' = [fills EXCEPT ![i].at = "upsert", ![i].page = fills[i].since + (Page - 1) * Period[x]]
  /\ UNCHANGED <<exchange, table, jobs, budget>>

\* fetchOHLCV() is back with a page; the candle still forming is left out.
Fetch(i, x) ==
  /\ FillAt(i, x, "fetch")
  /\ fills' = [fills EXCEPT ![i].at = "upsert",
       ![i].page = Min({fills[i].to, fills[i].since + (Page - 1) * Period[x]})]
  /\ UNCHANGED <<exchange, table, jobs, budget>>

\* One row of the page is stored; then the next row, page or series.
FillStore(i, x) ==
  /\ FillAt(i, x, "upsert")
  /\ LET since == fills[i].since
     IN /\ table' = [table EXCEPT ![x] = @ \cup {since}]
        /\ IF since < fills[i].page THEN fills' = [fills EXCEPT ![i].since = since + Period[x]]
           ELSE IF since < fills[i].to
           THEN fills' = [fills EXCEPT ![i].since = since + Period[x], ![i].at = "fetch"]
           ELSE NextSeries(i)
  /\ UNCHANGED <<exchange, jobs, budget>>

\* fillGap() throws: logged, and on to the next series.
FillFails(i, x) ==
  /\ \E at \in {"last", "fetch", "upsert"} : FillAt(i, x, at)
  /\ budget.faults > 0
  /\ budget' = [budget EXCEPT !.faults = @ - 1]
  /\ NextSeries(i)
  /\ UNCHANGED <<exchange, table, jobs>>

-----------------------------------------------------------------------------
(* The handler of a closed candle *)

\* (mutant) the handler does not wait for the gap fill.
ReceiveAtOnce ==
  /\ wire # <<>>
  /\ jobs' = jobs \cup {[x |-> Head(wire).x, t |-> Head(wire).t, at |-> "upsert", fill |-> Len(fills)]}
  /\ wire' = Tail(wire)
  /\ UNCHANGED <<clock, socket, table, fills, budget>>

\* The message arrives; the handler awaits the fill of the latest connect.
Receive ==
  /\ wire # <<>>
  /\ jobs' = jobs \cup {[x |-> Head(wire).x, t |-> Head(wire).t, at |-> "filling", fill |-> Len(fills)]}
  /\ wire' = Tail(wire)
  /\ UNCHANGED <<clock, socket, table, fills, budget>>

Goto(j, at) == jobs' = (jobs \ {j}) \cup {[j EXCEPT !.at = at]}

Filled(j) ==
  /\ j.at = "filling" /\ fills[j.fill].at = "done"
  /\ Goto(j, "upsert")
  /\ UNCHANGED <<exchange, table, fills, budget>>

Upsert(j) ==
  /\ j.at = "upsert"
  /\ table' = [table EXCEPT ![j.x] = @ \cup {j.t}]
  /\ Goto(j, "lastCandle")
  /\ UNCHANGED <<exchange, fills, budget>>

\* state.lastCandle() is back and manager.onCandleClosed() is called.
StepManager(j) ==
  /\ j.at = "lastCandle"
  /\ jobs' = jobs \ {j}
  /\ UNCHANGED <<exchange, table, fills, budget>>

\* A rejected call ends the handler: the error is logged.
JobFails(j) ==
  /\ j.at # "filling" /\ budget.faults > 0
  /\ budget' = [budget EXCEPT !.faults = @ - 1]
  /\ jobs' = jobs \ {j}
  /\ UNCHANGED <<exchange, table, fills>>

-----------------------------------------------------------------------------
(* The kline stream *)

\* The reconnect timer fires.
Connect ==
  /\ socket = "down"
  /\ socket' = "connecting"
  /\ UNCHANGED <<clock, wire, table, fills, jobs, budget>>

\* (mutant) gaps are filled on the first connect only.
OpenFirst ==
  /\ socket = "connecting"
  /\ socket' = "open"
  /\ fills' = IF fills = <<>> THEN <<Start(SetToSeq(Series), clock)>> ELSE fills
  /\ UNCHANGED <<clock, wire, table, jobs, budget>>

\* "connected": gaps are filled for every series, in a fixed order.
Open ==
  /\ socket = "connecting"
  /\ socket' = "open"
  /\ fills' = Append(fills, Start(SetToSeq(Series), clock))
  /\ UNCHANGED <<clock, wire, table, jobs, budget>>

\* The connection closes (every 24 hours at least): what was on the wire is
\* gone and the timer is set.
Drop ==
  /\ socket \in {"connecting", "open"} /\ budget.drops > 0
  /\ budget' = [budget EXCEPT !.drops = @ - 1]
  /\ socket' = "down" /\ wire' = <<>>
  /\ UNCHANGED <<clock, table, fills, jobs>>

\* The connection hangs: nothing arrives any more and nobody closes it.
Hang ==
  /\ socket \in {"connecting", "open"} /\ budget.drops > 0
  /\ budget' = [budget EXCEPT !.drops = @ - 1]
  /\ socket' = "silent" /\ wire' = <<>>
  /\ UNCHANGED <<clock, table, fills, jobs>>

\* The watchdog terminates a silent socket, which closes it.
Silence ==
  /\ socket = "silent"
  /\ socket' = "down"
  /\ UNCHANGED <<clock, wire, table, fills, jobs, budget>>

\* The engine stops or dies and is started again.
Restart ==
  /\ budget.crashes > 0
  /\ budget' = [budget EXCEPT !.crashes = @ - 1]
  /\ socket' = "connecting" /\ wire' = <<>>
  /\ fills' = <<>> /\ jobs' = {}
  /\ UNCHANGED <<clock, table>>

-----------------------------------------------------------------------------

\* Time passes; the candles that close are sent, in any order.  One candle may
\* close while gaps are filled; its handler is done before the next one.
Tick ==
  /\ clock < LastTick /\ wire = <<>> /\ jobs = {}
  /\ \A i \in DOMAIN fills : fills[i].at # "done" => fills[i].begun = clock
  /\ clock' = clock + 1
  /\ LET closing == {[x |-> x, t |-> clock'] : x \in {y \in Series : clock' % Period[y] = 0}}
     IN wire' \in IF socket = "open" THEN SetToSeqs(closing) ELSE {<<>>}
  /\ UNCHANGED <<socket, table, fills, jobs, budget>>

Init ==
  /\ clock = 0
  /\ table \in [Series -> {{}, {0}}]
  /\ socket = "connecting" /\ wire = <<>>
  /\ fills = <<>> /\ jobs = {}
  /\ budget = Bounds

FillStep == \E i \in DOMAIN fills, x \in Series : ReadLast(i, x) \/ Fetch(i, x) \/ FillStore(i, x)
JobStep  == \E j \in jobs : Filled(j) \/ Upsert(j) \/ StepManager(j)
Failure  ==
  \/ \E i \in DOMAIN fills, x \in Series : FillFails(i, x)
  \/ \E j \in jobs : JobFails(j)

Next ==
  \/ FillStep \/ JobStep \/ Failure
  \/ Receive \/ Connect \/ Open \/ Drop \/ Hang \/ Silence \/ Restart \/ Tick

Spec == Init /\ [][Next]_vars

\* Timers fire, calls return, a socket that may open does.
Fairness ==
  /\ WF_vars(FillStep) /\ WF_vars(JobStep) /\ WF_vars(Receive)
  /\ WF_vars(Connect) /\ WF_vars(Open) /\ WF_vars(Silence)

FairSpec == Spec /\ Fairness

-----------------------------------------------------------------------------
(* Properties *)

TypeOK ==
  /\ clock \in 0..LastTick
  /\ \A x \in Series : table[x] \subseteq {t \in 0..clock : t % Period[x] = 0}
  /\ socket \in {"down", "connecting", "open", "silent"}
  /\ wire \in Seq([x : Series, t : 0..clock])
  /\ \A i \in DOMAIN fills :
       fills[i].to <= clock /\ (fills[i].at = "upsert" => fills[i].since <= fills[i].page)
  /\ \A j \in jobs : j.x \in Series /\ j.t <= clock /\ j.fill \in DOMAIN fills
  /\ budget \in [{"drops", "faults", "crashes"} -> Nat]

\* Lossless as long as no call failed: the feed implements CandleTable, under
\* every interleaving of fills, handlers, reconnects and restarts.
KeepsTable == Abstract!TableSpec

Unfailed == budget.faults = Bounds.faults

\* When a candle steps the exit policy, which reads the recent candles for its
\* ATR, every earlier candle is stored (gap fills of other series may go on).
StepSeesAll ==
  \A j \in jobs : j.at = "lastCandle" /\ Unfailed =>
    \A t \in Abstract!Candles(j.x) : Min(table[j.x]) <= t /\ t <= j.t => t \in table[j.x]

\* Every candle that closed is stored in the end, whatever the socket missed.
CaughtUp ==
  \A x \in Series : \A t \in Abstract!Candles(x) :
    clock >= t ~> (~Unfailed \/ (table[x] # {} /\ Max(table[x]) >= t))

=============================================================================
