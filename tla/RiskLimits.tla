------------------------------ MODULE RiskLimits ------------------------------
(***************************************************************************)
(* The loss limits of the trading engine.  They live in two places that    *)
(* only share the table of closed positions:  handleSignal() refuses an    *)
(* entry by what recentOutcomes() told it (manager.ts, riskManager.ts),    *)
(* and checkRiskLimits() announces, after each close, that a limit was     *)
(* reached.  An action is what a handler does between two awaits: the      *)
(* awaited call takes effect and the handler runs up to its next one.      *)
(*                                                                         *)
(* Time counts candles of the entry timeframe; a position that closes is   *)
(* dated by its candle.  The handlers of one candle end before the next    *)
(* one closes, but run beside each other; those of one position take turns. *)
(* A statement or call may fail: the handler ends there.                   *)
(***************************************************************************)
EXTENDS Integers, FiniteSets, FiniteSetsExt, Functions

CONSTANTS
  Signals,     \* signal ids, one position each
  None,        \* no signal
  Results,     \* the R multiples a position may close with
  MaxOpen,     \* risk.max_open
  LimitR,      \* daily_loss_pct / per_trade_pct
  LossRun,     \* risk.consecutive_loss_cooldown
  Cooldown,    \* risk.cooldown_minutes, in candles
  DayLen,      \* candles of a UTC day
  LastTick,    \* bound on the clock
  MaxCrashes,  \* bound on the crashes of the engine
  MaxFaults    \* bound on the failing statements and calls

ASSUME NoneAssumption   == None \notin Signals
\* recentOutcomes() returns the last 50 outcomes: here, every one.
ASSUME SignalAssumption == IsFiniteSet(Signals) /\ Cardinality(Signals) <= 50
ASSUME ResultAssumption == IsFiniteSet(Results) /\ Results \subseteq Int
ASSUME LimitAssumption  == {MaxOpen, LimitR, LossRun, Cooldown, DayLen} \subseteq Nat \ {0}
ASSUME BoundAssumption  == {LastTick, MaxCrashes, MaxFaults} \subseteq Nat

VARIABLES
  now,      \* the clock
  row,      \* the row of each position in Postgres
  open,     \* the keys of the manager's map of open and pending positions
  entry,    \* the call of handleSignal() under way
  check,    \* how far the finish() or cancelPending() of each position has come
  events,   \* the rows of risk_events
  budget,   \* what is left of the bounds
  uncounted,  \* (history) positions that left the map or lost their outcome to a crash or failure
  unchecked   \* (history) closes whose check was cut short, and that no check has read since

vars == <<now, row, open, entry, check, events, budget, uncounted, unchecked>>
history == <<uncounted, unchecked>>

-----------------------------------------------------------------------------
(* What the queries return *)

NoRow     == [state |-> "none", r |-> 0, at |-> 0]
NoEntry   == [at |-> "idle", sig |-> None, seen |-> {}, run |-> {}, open |-> {}]
NotClosed == [at |-> "idle", seen |-> {}, run |-> {}]

Day(t) == t \div DayLen
Closed == {s \in Signals : row[s].state = "closed"}   \* with an outcome
Lost(s) == row[s].r < 0

\* The realised R of a day, by the outcomes a query returned.
DayR(seen, day) ==
  SumFunctionOnSet([s \in Signals |-> row[s].r], {s \in seen : Day(row[s].at) = day})

\* The losses recentOutcomes() may return first: newest first, and outcomes of
\* one candle in any order.
Newest(part, seen) == \A s \in part, t \in seen \ part : row[s].at >= row[t].at
LossRuns(seen) ==
  {run \in SUBSET {s \in seen : Lost(s)} :
     /\ Newest(run, seen)
     /\ run # seen => \E s \in seen \ run : ~Lost(s) /\ Newest(run \cup {s}, seen)}

LastLossAt(seen) == Max({row[s].at : s \in {t \in seen : Lost(t)}})
LastEvent(type)  == Max({e.ts : e \in {f \in events : f.type = type}} \cup {-1})

-----------------------------------------------------------------------------
(* handleSignal() and checkSignal() *)

TakeSignal(s) ==
  /\ entry.at = "idle" /\ row[s].state = "none"
  /\ entry' = [NoEntry EXCEPT !.at = "history", !.sig = s]
  /\ UNCHANGED <<now, row, open, check, events, budget, history>>

\* (mutant) pending entries take no slot
CopyActive ==
  /\ entry.at = "history"
  /\ \E run \in LossRuns(Closed) :
       entry' = [entry EXCEPT !.at = "exists", !.seen = Closed, !.run = run,
                              !.open = {s \in open : row[s].state = "open"}]
  /\ UNCHANGED <<now, row, open, check, events, budget, history>>

\* recentOutcomes() is back; the map is copied before signalExists() is awaited.
CopyContext ==
  /\ entry.at = "history"
  /\ \E run \in LossRuns(Closed) :
       entry' = [entry EXCEPT !.at = "exists", !.seen = Closed, !.run = run, !.open = open]
  /\ UNCHANGED <<now, row, open, check, events, budget, history>>

\* (mutant) the daily limit has to be exceeded
RefusedBelow ==
  \/ Cardinality(entry.open) >= MaxOpen
  \/ DayR(entry.seen, Day(now)) < -LimitR
  \/ Cardinality(entry.run) >= LossRun /\ now < LastLossAt(entry.seen) + Cooldown

\* (mutant) one more loss than configured
RefusedRun ==
  \/ Cardinality(entry.open) >= MaxOpen
  \/ DayR(entry.seen, Day(now)) <= -LimitR
  \/ Cardinality(entry.run) > LossRun /\ now < LastLossAt(entry.seen) + Cooldown

Refused ==
  \/ Cardinality(entry.open) >= MaxOpen
  \/ DayR(entry.seen, Day(now)) <= -LimitR
  \/ Cardinality(entry.run) >= LossRun /\ now < LastLossAt(entry.seen) + Cooldown

\* checkSignal() says no: a limit, or a reason this module has no state for.
Reject(s) ==
  /\ entry.at = "exists" /\ entry.sig = s
  /\ row' = [row EXCEPT ![s].state = "rejected"]
  /\ entry' = NoEntry
  /\ UNCHANGED <<now, open, check, events, budget, history>>

\* checkSignal() says yes: the row is inserted, of an entry that waits for the next
\* open or of a filled one, and the position enters the map.
Accept(s) ==
  /\ entry.at = "exists" /\ entry.sig = s
  /\ ~Refused
  /\ \E state \in {"pending", "open"} : row' = [row EXCEPT ![s].state = state]
  /\ open' = open \cup {s}
  /\ entry' = NoEntry
  /\ UNCHANGED <<now, check, events, budget, history>>

-----------------------------------------------------------------------------
(* The life of a position, as far as the limits see it *)

\* fillPending(): the entry is filled at the open of a candle, or cancelled.
Fill(s) ==
  /\ s \in open /\ row[s].state = "pending"
  /\ row' = [row EXCEPT ![s].state = "open"]
  /\ UNCHANGED <<now, open, entry, check, events, budget, history>>

\* cancelPending() takes the entry out of the map, then writes its row.
Cancel(s) ==
  /\ s \in open /\ row[s].state = "pending"
  /\ open' = open \ {s}
  /\ check' = [check EXCEPT ![s].at = "cancel"]
  /\ UNCHANGED <<now, row, entry, events, budget, history>>

CancelRow(s) ==
  /\ check[s].at = "cancel"
  /\ row' = [row EXCEPT ![s].state = "cancelled"]
  /\ check' = [check EXCEPT ![s] = NotClosed]
  /\ UNCHANGED <<now, open, entry, events, budget, history>>

\* (mutant) the outcome is dated one candle late
CloseLate(s, r) ==
  /\ s \in open /\ check[s].at = "idle"
  /\ \/ row[s].state = "open"
     \/ row[s].state = "closing" /\ row[s].r = r
  /\ row' = [row EXCEPT ![s] = [state |-> "closing", r |-> r, at |-> now + 1]]
  /\ check' = [check EXCEPT ![s].at = "outcome"]
  /\ UNCHANGED <<now, open, entry, events, budget, history>>

\* finish(): store.close() closes the row, then gives it its outcome.  A position
\* whose outcome could not be written is finished again by a later candle.
Close(s, r) ==
  /\ s \in open /\ check[s].at = "idle"
  /\ \/ row[s].state = "open"
     \/ row[s].state = "closing" /\ row[s].r = r
  /\ row' = [row EXCEPT ![s] = [state |-> "closing", r |-> r, at |-> now]]
  /\ check' = [check EXCEPT ![s].at = "outcome"]
  /\ UNCHANGED <<now, open, entry, events, budget, history>>

CloseOutcome(s) ==
  /\ check[s].at = "outcome"
  /\ row' = [row EXCEPT ![s].state = "closed"]
  /\ check' = [check EXCEPT ![s].at = "release"]
  /\ UNCHANGED <<now, open, entry, events, budget, history>>

\* release() and the close event; then recentOutcomes() is awaited.
Release(s) ==
  /\ check[s].at = "release"
  /\ open' = open \ {s}
  /\ check' = [check EXCEPT ![s].at = "history"]
  /\ UNCHANGED <<now, row, entry, events, budget, history>>

-----------------------------------------------------------------------------
(* checkRiskLimits() *)

\* What a check that reads the outcomes at this moment makes up for.
StillUnchecked(s) == {u \in unchecked : Day(row[u].at) # Day(row[s].at)}

\* On to the cooldown: awaited only after LossRun losses in a row.
AfterDaily(c) == IF Cardinality(c.run) >= LossRun THEN [c EXCEPT !.at = "cooldown"] ELSE NotClosed

\* (mutant) the limit has to be exceeded
ReadHistoryBelow(s) ==
  /\ check[s].at = "history"
  /\ \E run \in LossRuns(Closed) :
       LET c == [at |-> "daily", seen |-> Closed, run |-> run]
       IN check' = [check EXCEPT ![s] =
            IF DayR(Closed, Day(row[s].at)) < -LimitR THEN c ELSE AfterDaily(c)]
  /\ unchecked' = StillUnchecked(s)
  /\ UNCHANGED <<now, row, open, entry, events, budget, uncounted>>

ReadHistory(s) ==
  /\ check[s].at = "history"
  /\ \E run \in LossRuns(Closed) :
       LET c == [at |-> "daily", seen |-> Closed, run |-> run]
       IN check' = [check EXCEPT ![s] =
            IF DayR(Closed, Day(row[s].at)) <= -LimitR THEN c ELSE AfterDaily(c)]
  /\ unchecked' = StillUnchecked(s)
  /\ UNCHANGED <<now, row, open, entry, events, budget, uncounted>>

\* lastRiskEventAt() is back: a day is announced once.
ReadDaily(s) ==
  /\ check[s].at = "daily"
  /\ check' = [check EXCEPT ![s] =
       IF LastEvent("daily_loss") >= 0 /\ Day(LastEvent("daily_loss")) = Day(row[s].at)
       THEN AfterDaily(@) ELSE [@ EXCEPT !.at = "announceDaily"]]
  /\ UNCHANGED <<now, row, open, entry, events, budget, history>>

Event(type, s) ==
  [type |-> type, ts |-> now, by |-> s, seen |-> check[s].seen, run |-> check[s].run]

AnnounceDaily(s) ==
  /\ check[s].at = "announceDaily"
  /\ events' = events \cup {Event("daily_loss", s)}
  /\ check' = [check EXCEPT ![s] = AfterDaily(@)]
  /\ UNCHANGED <<now, row, open, entry, budget, history>>

ReadCooldown(s) ==
  /\ check[s].at = "cooldown"
  /\ check' = [check EXCEPT ![s] =
       IF LastEvent("cooldown") >= LastLossAt(@.seen) THEN NotClosed ELSE [@ EXCEPT !.at = "announceCooldown"]]
  /\ UNCHANGED <<now, row, open, entry, events, budget, history>>

AnnounceCooldown(s) ==
  /\ check[s].at = "announceCooldown"
  /\ events' = events \cup {Event("cooldown", s)}
  /\ check' = [check EXCEPT ![s] = NotClosed]
  /\ UNCHANGED <<now, row, open, entry, budget, history>>

-----------------------------------------------------------------------------

Quiet == entry.at = "idle" /\ \A s \in Signals : check[s].at = "idle"

Tick ==
  /\ Quiet /\ now < LastTick
  /\ now' = now + 1
  /\ UNCHANGED <<row, open, entry, check, events, budget, history>>

Spend(what) == budget[what] > 0 /\ budget' = [budget EXCEPT ![what] = @ - 1]

\* Past the map, where nothing finishes the position again.
Checking == {s \in Signals : check[s].at \notin {"idle", "cancel", "outcome"}}

\* The process is gone and a new one restores what Postgres has: the entries that
\* were being cancelled, and not the positions closed without their outcome.
Crash ==
  /\ Spend("crashes")
  /\ open' = {s \in Signals : row[s].state \in {"pending", "open"}}
  /\ entry' = NoEntry
  /\ check' = [s \in Signals |-> NotClosed]
  /\ uncounted' = uncounted \cup {s \in Signals : check[s].at = "cancel"}
                            \cup {s \in Signals : row[s].state = "closing"}
  /\ unchecked' = unchecked \cup Checking
  /\ UNCHANGED <<now, row, events>>

\* A call of handleSignal() is rejected; the signal is not acknowledged.
EntryFails ==
  /\ Spend("faults") /\ entry.at # "idle"
  /\ entry' = NoEntry
  /\ UNCHANGED <<now, row, open, check, events, history>>

\* activate() fails once the row is inserted: the position is not in the map.
AcceptFails(s) ==
  /\ Spend("faults") /\ entry.at = "exists" /\ entry.sig = s
  /\ ~Refused
  /\ row' = [row EXCEPT ![s].state = "open"]
  /\ entry' = NoEntry
  /\ uncounted' = uncounted \cup {s}
  /\ UNCHANGED <<now, open, check, events, unchecked>>

\* The row of a cancelled entry cannot be written: it stays pending.
CancelFails(s) ==
  /\ Spend("faults") /\ check[s].at = "cancel"
  /\ check' = [check EXCEPT ![s] = NotClosed]
  /\ uncounted' = uncounted \cup {s}
  /\ UNCHANGED <<now, row, open, entry, events, unchecked>>

\* The outcome cannot be written: the position stays in the map.
OutcomeFails(s) ==
  /\ Spend("faults") /\ check[s].at = "outcome"
  /\ check' = [check EXCEPT ![s] = NotClosed]
  /\ UNCHANGED <<now, row, open, entry, events, history>>

\* finish() is rejected behind open.delete(): nothing repeats its check.
CheckFails(s) ==
  /\ Spend("faults") /\ s \in Checking /\ check[s].at # "release"
  /\ check' = [check EXCEPT ![s] = NotClosed]
  /\ unchecked' = unchecked \cup {s}
  /\ UNCHANGED <<now, row, open, entry, events, uncounted>>

Init ==
  /\ now = 0
  /\ row = [s \in Signals |-> NoRow]
  /\ open = {}
  /\ entry = NoEntry
  /\ check = [s \in Signals |-> NotClosed]
  /\ events = {}
  /\ budget = [crashes |-> MaxCrashes, faults |-> MaxFaults]
  /\ uncounted = {} /\ unchecked = {}

Next ==
  \/ \E s \in Signals :
       \/ TakeSignal(s) \/ Reject(s) \/ Accept(s)
       \/ Fill(s) \/ Cancel(s) \/ CancelRow(s)
       \/ \E r \in Results : Close(s, r)
       \/ CloseOutcome(s) \/ Release(s)
       \/ ReadHistory(s) \/ ReadDaily(s) \/ AnnounceDaily(s)
       \/ ReadCooldown(s) \/ AnnounceCooldown(s)
       \/ AcceptFails(s) \/ CancelFails(s) \/ OutcomeFails(s) \/ CheckFails(s)
  \/ CopyContext \/ EntryFails \/ Tick \/ Crash

Spec == Init /\ [][Next]_vars

-----------------------------------------------------------------------------
(* Properties *)

EventTypes == {"daily_loss", "cooldown"}

\* Every variable keeps its shape; what a query returned are closed positions.
TypeOK ==
  /\ now \in 0..LastTick
  /\ row \in [Signals -> [state : {"none", "pending", "open", "closing", "closed", "cancelled", "rejected"},
                          r : Results \cup {0}, at : 0..now]]
  /\ open \subseteq Signals
  /\ entry \in [at : {"idle", "history", "exists"}, sig : Signals \cup {None}, seen : SUBSET Closed,
                run : SUBSET Closed, open : SUBSET Signals]
  /\ check \in [Signals -> [at : {"idle", "cancel", "outcome", "release", "history", "daily",
                                  "announceDaily", "cooldown", "announceCooldown"}, seen : SUBSET Closed, run : SUBSET Closed]]
  /\ events \subseteq [type : EventTypes, ts : 0..now, by : Closed, seen : SUBSET Closed,
                     run : SUBSET Closed]
  /\ budget \in [crashes : 0..MaxCrashes, faults : 0..MaxFaults]
  /\ uncounted \subseteq Signals /\ unchecked \subseteq Closed

\* What a position of this day has really ended with, in the history or not.
Ended == Closed \cup {s \in Signals \ open : row[s].state = "closing"}

\* A day can lose the limit and what was open when it was reached, no more:
\* whatever the interleaving of a signal's queries with the closes, a position
\* is either counted as a loss or as a slot taken (finish() deletes it from the
\* map after its outcome is written, handleSignal() reads in the opposite order).
\* A crash or a failing statement in the middle of an entry, a cancellation or a
\* close adds that one position to it, and nothing else.
WorstR == Max({-r : r \in Results} \cup {0})
DayLossBounded ==
  \A t \in 0..LastTick :
    DayR(Ended, Day(t)) > -LimitR - (MaxOpen + Cardinality(uncounted)) * WorstR

Accepts(s) == entry.at = "exists" /\ entry.sig = s /\ row'[s].state \in {"pending", "open"}

\* The announced daily limit is the enforced one: a signal that arrives after
\* the announcement is accepted on that day only if a gain has been booked
\* since (checkRiskLimits() and checkSignal() each compute the day's R).
LimitHolds == [][
  \A s \in Signals, e \in events :
    Accepts(s) /\ e.type = "daily_loss" /\ Day(row[e.by].at) = Day(now) /\ e.seen \subseteq entry.seen
      => \E t \in entry.seen \ e.seen : row[t].r > 0]_vars

\* The announced cooldown is the enforced one: it is cut short only by a close
\* that is no loss and no older than one of the losses it was announced for (as
\* old as one: outcomes of one candle come in any order, so that a breakeven
\* beside the oldest of the losses may be read before it or after it).
CooldownHolds == [][
  \A s \in Signals, e \in events :
    Accepts(s) /\ e.type = "cooldown" /\ e.seen \subseteq entry.seen /\ now < LastLossAt(e.seen) + Cooldown
      => \E t \in entry.seen, l \in e.run : ~Lost(t) /\ row[t].at >= row[l].at]_vars

\* A day at its limit has been announced once its closes are handled, even when
\* two positions close at the same time and neither saw the other.  A crash or a
\* failing call between a close and its announcement loses it, but only until the
\* next close of that day: its check reads every outcome again.
Announced ==
  Quiet => \A t \in 0..now : DayR(Closed, Day(t)) <= -LimitR =>
             \/ \E e \in events : e.type = "daily_loss" /\ Day(row[e.by].at) = Day(t)
             \/ \E s \in unchecked : Day(row[s].at) = Day(t)
=============================================================================
