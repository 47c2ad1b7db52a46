--------------------------- MODULE PositionManager ---------------------------
(***************************************************************************)
(* The position manager of the trading engine (positions/manager.ts) with  *)
(* the loops of main.ts that drive it: the signal consumer, the command    *)
(* consumer and one handler per closed candle.  Node runs one of them at a *)
(* time, but each gives up control at every await, so an action here is    *)
(* what one of them does between two awaits:  the awaited call takes       *)
(* effect, the handler resumes and runs up to its next await.  What it     *)
(* read or computed before the await (a database row, the cash balance, a  *)
(* snapshot of the open positions) is kept in its job.                     *)
(*                                                                         *)
(* A position is bought as two units; the exit policy (see ExitPolicy)     *)
(* keeps all of it, sells one unit at TP1, or closes it.  One adapter      *)
(* without exchange-side orders: paper (fills move the wallet) or shadow   *)
(* (immediate fills).                                                      *)
(***************************************************************************)
EXTENDS Naturals, Sequences, FiniteSets

CONSTANTS
  Signals,      \* signal ids; position pos:<id> goes by the same name here
  None,         \* no signal
  Modes,        \* "paper", whose entries fill at the next open, or "shadow"
  MaxOpen,      \* risk.max_open
  Overlap,      \* pairs of handlers that may be under way at the same time
  Commands,     \* command types issued
  MaxCommands,  \* bound on the commands issued
  MaxFaults,    \* bound on failing calls to Postgres or Redis
  MaxCrashes    \* bound on crashes of the engine

\* The handlers: two consumers, two candles of the entry timeframe (the second
\* one may close while the first is still being handled), one of the regime's.
Candles  == {"entry", "entry2", "regime"}
Handlers == {"signals", "commands"} \cup Candles

ASSUME NoneAssumption    == None \notin Signals
ASSUME ModeAssumption    == Modes \subseteq {"paper", "shadow"}
ASSUME OverlapAssumption == Overlap \subseteq {{h, i} : h \in Handlers, i \in Handlers}
ASSUME CommandAssumption == Commands \subseteq {"close_all", "close_position", "kill", "pause", "resume"}
ASSUME BoundAssumption   == {MaxOpen, MaxCommands, MaxFaults, MaxCrashes} \subseteq Nat

VARIABLES
  \* memory of the engine process
  rec,      \* the PositionRecord of each signal
  open,     \* the keys of the manager's map of open and pending positions
  wallet,   \* units bought and sold for each position, as PaperWallet.cash sees them
  job,      \* what each handler is doing
  \* Postgres
  db,       \* the row of each position
  journal,  \* the row of each signal
  saved,    \* the wallet as last written
  paused,   \* engine_state.paused
  \* Redis
  stream,   \* where each signal is in the consumer group
  closed,   \* position_closed events emitted for each position
  \* what is left of the bounded disturbances
  budget,
  \* the mode the engine runs in, which never changes
  mode

stored == <<db, journal, saved, paused>>
vars   == <<rec, open, wallet, job, db, journal, saved, paused, stream, closed, budget, mode>>

-----------------------------------------------------------------------------
(* State *)

Units == 2

\* adapter.entryTiming
NextOpen == mode = "paper"

NoRec   == [pending |-> FALSE, live |-> FALSE, rem |-> 0]
Pending == [pending |-> TRUE, live |-> TRUE, rem |-> Units]
Filled  == [pending |-> FALSE, live |-> TRUE, rem |-> Units]

Row(state, rem) == [state |-> state, rem |-> rem, outcome |-> FALSE]
NoRow == Row("none", 0)

\* (mutant) the record's state is written under a name of its own
StateLive(r) == IF r.pending THEN "pending" ELSE IF r.live THEN "live" ELSE "closed"

\* dbState(): what update() and insert() write of a record.
State(r) == IF r.pending THEN "pending" ELSE IF r.live THEN "open" ELSE "closed"

\* UPDATE positions writes state and quantities, never closed_at or r_multiple.
Written(row, r) == [row EXCEPT !.state = State(r), !.rem = r.rem]

Idle == [at |-> "idle", pos |-> None, todo |-> {}, does |-> "none",
         sells |-> <<>>, writes |-> NoRec, cash |-> None, paused |-> FALSE]

Busy(h)     == job[h].at # "idle"
MayStart(h) == ~Busy(h) /\ \A i \in Handlers \ {h} : Busy(i) => {h, i} \in Overlap
Quiet       == \A h \in Handlers : ~Busy(h)

At(h, label)  == job[h].at = label
Pos(h)        == job[h].pos
Goto(h, label) ==
  job' = [job EXCEPT ![h].at = label, ![h].writes = NoRec, ![h].cash = None]
GotoFor(h, label, s) == job' = [job EXCEPT ![h].at = label, ![h].pos = s]

\* The handler ends: normally, or because something it awaited was rejected.
End(h) == job' = [job EXCEPT ![h] = Idle]
\* On to the next position of the snapshot.
Continue(h) ==
  job' = [job EXCEPT ![h] = [Idle EXCEPT !.at = "loop", !.todo = job[h].todo \ {Pos(h)},
                                         !.does = job[h].does]]

\* Issue a write of record r; r is captured now.
Write(h, label, r) == job' = [job EXCEPT ![h].at = label, ![h].writes = r, ![h].cash = None]

\* openLong(): the wallet's cash moves at once, saveBalance() is awaited.
Buy(h, label, s) ==
  /\ wallet' = [wallet EXCEPT ![s].bought = @ + Units]
  /\ job' = [job EXCEPT ![h].at = label, ![h].pos = s, ![h].cash = wallet']

\* settleExits(): one closeLong() after the other, each awaited.
Sell(h, s, sells) ==
  IF sells = <<>>
  THEN /\ job' = [job EXCEPT ![h].at = "settled", ![h].pos = s,
                             ![h].sells = <<>>, ![h].cash = None]
       /\ UNCHANGED wallet
  ELSE /\ wallet' = [wallet EXCEPT ![s].sold = @ + Head(sells)]
       /\ job' = [job EXCEPT ![h].at = "selling", ![h].pos = s,
                             ![h].sells = Tail(sells), ![h].cash = wallet']

\* (mutant) the quantity bought is sold, whatever TP1 sold before
CloseManualBought(h, s) ==
  /\ rec' = [rec EXCEPT ![s].live = FALSE, ![s].rem = 0]
  /\ Sell(h, s, IF rec[s].live THEN <<Units>> ELSE <<>>)

\* closeManual(): everything that remains is sold, nothing if already closed.
CloseManual(h, s) ==
  /\ rec' = [rec EXCEPT ![s].live = FALSE, ![s].rem = 0]
  /\ Sell(h, s, IF rec[s].live THEN <<rec[s].rem>> ELSE <<>>)

-----------------------------------------------------------------------------
(* The signal consumer: main.ts's handler, handleSignal() and the ack *)

\* readOnce(): an unacknowledged entry again, or a new one.
TakeSignal(s) ==
  /\ MayStart("signals")
  /\ stream[s] \in {"new", "unacked"}
  /\ stream' = [stream EXCEPT ![s] = "unacked"]
  /\ job' = [job EXCEPT !["signals"].at = "flags", !["signals"].pos = s]
  /\ UNCHANGED <<rec, open, wallet, stored, closed, budget, mode>>

\* state.load(), then recentOutcomes() is awaited.
LoadFlags ==
  /\ At("signals", "flags")
  /\ job' = [job EXCEPT !["signals"].at = "history", !["signals"].paused = paused]
  /\ UNCHANGED <<rec, open, wallet, stored, stream, closed, budget, mode>>

\* The open positions are copied before signalExists() is awaited.
CopyOpen ==
  /\ At("signals", "history")
  /\ job' = [job EXCEPT !["signals"].at = "exists", !["signals"].todo = open]
  /\ UNCHANGED <<rec, open, wallet, stored, stream, closed, budget, mode>>

\* (mutant) the positions table is not asked
KnownInMemory(s) == s \in job["signals"].todo

Known(s)  == s \in job["signals"].todo \/ db[s].state # "none"
\* (mutant) max_open is compared with >
RefusedLate(s) == Known(s) \/ job["signals"].paused \/ Cardinality(job["signals"].todo) > MaxOpen

Refused(s) == Known(s) \/ job["signals"].paused \/ Cardinality(job["signals"].todo) >= MaxOpen

\* checkSignal() says no: duplicate, paused, max_open, or for any of the reasons
\* this model has no state for (stale, geometry, losses of the day, minimums).
Reject(s) ==
  /\ At("signals", "exists") /\ Pos("signals") = s
  /\ Goto("signals", "reject")
  /\ UNCHANGED <<rec, open, wallet, stored, stream, closed, budget, mode>>

\* checkSignal() says yes: the record is created, and inserted or bought.
Accept(s) ==
  /\ At("signals", "exists") /\ Pos("signals") = s
  /\ ~Refused(s)
  /\ rec' = [rec EXCEPT ![s] = Pending]
  /\ IF NextOpen THEN Write("signals", "insert", Pending) /\ UNCHANGED wallet
                 ELSE Buy("signals", "openLong", s)
  /\ UNCHANGED <<open, stored, stream, closed, budget, mode>>

MarkRejected(s) ==
  /\ At("signals", "reject") /\ Pos("signals") = s
  /\ journal' = [journal EXCEPT ![s].outcome = "rejected"]
  /\ Goto("signals", "ack")
  /\ UNCHANGED <<rec, open, wallet, db, saved, paused, stream, closed, budget, mode>>

\* An entry fill arrives at activate(); the fill of a record that is no longer
\* pending (another handler filled it) throws at rec.pending!.signal.
Activate(h, s, label) ==
  /\ saved' = IF NextOpen THEN job[h].cash ELSE saved
  /\ IF rec[s].pending
     THEN rec' = [rec EXCEPT ![s] = Filled] /\ Write(h, label, Filled)
     ELSE End(h) /\ UNCHANGED rec

OpenLong(s) ==
  /\ At("signals", "openLong") /\ Pos("signals") = s
  /\ Activate("signals", s, "insert")
  /\ UNCHANGED <<open, wallet, db, journal, paused, stream, closed, budget, mode>>

\* A pending entry enters the map after the insert, a bought one in Protected.
Insert(s) ==
  /\ At("signals", "insert") /\ Pos("signals") = s
  /\ db' = [db EXCEPT ![s] = Written(@, job["signals"].writes)]
  /\ IF NextOpen THEN open' = open \cup {s} /\ Goto("signals", "ack")
                 ELSE Goto("signals", "accept") /\ UNCHANGED open
  /\ UNCHANGED <<rec, wallet, journal, saved, paused, stream, closed, budget, mode>>

\* The rest of activate(), for either kind of handler.
MarkAccepted(h) ==
  /\ At(h, "accept")
  /\ journal' = [journal EXCEPT ![Pos(h)].accepted = TRUE]
  /\ Goto(h, "protect")
  /\ UNCHANGED <<rec, open, wallet, db, saved, paused, stream, closed, budget, mode>>

Protected(h) ==
  /\ At(h, "protect")
  /\ open' = open \cup {Pos(h)}
  /\ Goto(h, IF h = "signals" THEN "ack" ELSE "candles")
  /\ UNCHANGED <<rec, wallet, stored, stream, closed, budget, mode>>

\* The last event is out and XACK follows.
Ack(s) ==
  /\ At("signals", "ack") /\ Pos("signals") = s
  /\ stream' = [stream EXCEPT ![s] = "acked"]
  /\ End("signals")
  /\ UNCHANGED <<rec, open, wallet, stored, closed, budget, mode>>

SignalStep ==
  \/ LoadFlags \/ CopyOpen
  \/ \E s \in Signals : Reject(s) \/ Accept(s) \/ MarkRejected(s) \/ OpenLong(s) \/ Insert(s) \/ Ack(s)

-----------------------------------------------------------------------------
(* onCandleClosed() and closeAll(): a loop over a snapshot of the positions *)

\* (mutant) the loop is over the filled positions only
StartCandleActive(h) ==
  /\ h \in Candles /\ MayStart(h) /\ \E s \in open : ~rec[s].pending
  /\ job' = [job EXCEPT ![h].at = "loop", ![h].todo = {s \in open : ~rec[s].pending},
                        ![h].does = h]
  /\ UNCHANGED <<rec, open, wallet, stored, stream, closed, budget, mode>>

StartCandle(h) ==
  /\ h \in Candles /\ MayStart(h) /\ open # {}
  /\ job' = [job EXCEPT ![h].at = "loop", ![h].todo = open, ![h].does = h]
  /\ UNCHANGED <<rec, open, wallet, stored, stream, closed, budget, mode>>

StartCommand(type) ==
  /\ MayStart("commands") /\ budget.commands > 0
  /\ budget' = [budget EXCEPT !.commands = @ - 1]
  /\ \E todo \in CASE type \in {"close_all", "kill"} -> {open}
                    [] type = "close_position"      -> {{s} : s \in open}
                    [] OTHER                        -> {{}} :
       job' = [job EXCEPT !["commands"].at = "loop", !["commands"].todo = todo,
                          !["commands"].does = type]
  /\ UNCHANGED <<rec, open, wallet, stored, stream, closed, mode>>

\* The loop reaches position s of its snapshot.
Reaches(h, s) == At(h, "loop") /\ s \in job[h].todo

\* Nothing to do for it: a pending or not invalidated position on a regime candle.
Skip(h, s) ==
  /\ Reaches(h, s) /\ h = "regime"
  /\ job' = [job EXCEPT ![h].todo = @ \ {s}]
  /\ UNCHANGED <<rec, open, wallet, stored, stream, closed, budget, mode>>

\* The snapshot is done; kill, pause and resume now write the flag.
EndLoop(h) ==
  /\ At(h, "loop") /\ job[h].todo = {}
  /\ IF job[h].does \in {"kill", "pause", "resume"} THEN Goto(h, "flag") ELSE End(h)
  /\ UNCHANGED <<rec, open, wallet, stored, stream, closed, budget, mode>>

SetPaused ==
  /\ At("commands", "flag")
  /\ paused' = (job["commands"].does # "resume")
  /\ End("commands")
  /\ UNCHANGED <<rec, open, wallet, db, journal, saved, stream, closed, budget, mode>>

\* fillPending(): the open is between stop and target and the size above the
\* minimum, so the entry is bought.
FillPending(h, s) ==
  /\ Reaches(h, s) /\ h \in {"entry", "entry2"}
  /\ rec[s].pending
  /\ Buy(h, "fill", s)
  /\ UNCHANGED <<rec, open, stored, stream, closed, budget, mode>>

Fill(h, s) ==
  /\ At(h, "fill") /\ Pos(h) = s
  /\ Activate(h, s, "fillUpdate")
  /\ UNCHANGED <<open, wallet, db, journal, paused, stream, closed, budget, mode>>

FillUpdate(h, s) ==
  /\ At(h, "fillUpdate") /\ Pos(h) = s
  /\ db' = [db EXCEPT ![s] = Written(@, job[h].writes)]
  /\ Goto(h, "accept")
  /\ UNCHANGED <<rec, open, wallet, journal, saved, paused, stream, closed, budget, mode>>

\* cancelPending(): gap at the fill, below the minimum, or close_all and kill.
CancelPending(h, s) ==
  /\ Reaches(h, s) /\ h # "regime"
  /\ rec[s].pending
  /\ open' = open \ {s}
  /\ GotoFor(h, "cancel", s)
  /\ UNCHANGED <<rec, wallet, stored, stream, closed, budget, mode>>

CancelRow(h, s) ==
  /\ At(h, "cancel") /\ Pos(h) = s
  /\ db' = [db EXCEPT ![s].state = "closed"]
  /\ Goto(h, "cancelSignal")
  /\ UNCHANGED <<rec, open, wallet, journal, saved, paused, stream, closed, budget, mode>>

\* p.pending!.signal throws when the entry was filled in the meantime.
CancelSignal(h, s) ==
  /\ At(h, "cancelSignal") /\ Pos(h) = s
  /\ journal' = [journal EXCEPT ![s].outcome = "rejected"]
  /\ IF rec[s].pending THEN Continue(h) ELSE End(h)
  /\ UNCHANGED <<rec, open, wallet, db, saved, paused, stream, closed, budget, mode>>

\* The regime candle closed below the invalidation level.
Invalidate(h, s) ==
  /\ Reaches(h, s) /\ h = "regime"
  /\ ~rec[s].pending
  /\ CloseManual(h, s)
  /\ UNCHANGED <<open, stored, stream, closed, budget, mode>>

\* recentCandles() is awaited, for the ATR or for the price of a manual close.
LoadCandles(h, s) ==
  /\ Reaches(h, s) /\ h # "regime"
  /\ ~rec[s].pending
  /\ GotoFor(h, "candles", s)
  /\ UNCHANGED <<rec, open, wallet, stored, stream, closed, budget, mode>>

\* (mutant) a closed position is passed over: only a close decided now is finished
StepLive(h, s) ==
  /\ At(h, "candles") /\ Pos(h) = s /\ h \in Candles
  /\ LET r == rec[s] IN
     IF ~r.live THEN Continue(h) /\ UNCHANGED <<rec, wallet>>
     ELSE \/ Sell(h, s, <<>>) /\ UNCHANGED rec
          \/ /\ rec' = [rec EXCEPT ![s].live = FALSE, ![s].rem = 0]
             /\ Sell(h, s, <<r.rem>>)
  /\ UNCHANGED <<open, stored, stream, closed, budget, mode>>

\* step(): the exit policy keeps the position, sells a part, or all in one or
\* two sales; it does nothing to a closed one.
StepPosition(h, s) ==
  /\ At(h, "candles") /\ Pos(h) = s /\ h \in Candles
  /\ LET r == rec[s] IN
     IF ~r.live THEN Sell(h, s, <<>>) /\ UNCHANGED rec
     ELSE \/ Sell(h, s, <<>>) /\ UNCHANGED rec
          \/ /\ r.rem = Units
             /\ rec' = [rec EXCEPT ![s].rem = Units - 1]
             /\ Sell(h, s, <<1>>)
          \/ /\ rec' = [rec EXCEPT ![s].live = FALSE, ![s].rem = 0]
             /\ \/ Sell(h, s, <<r.rem>>)
                \/ r.rem = Units /\ Sell(h, s, <<1, Units - 1>>)
  /\ UNCHANGED <<open, stored, stream, closed, budget, mode>>

ManualClose(h, s) ==
  /\ At(h, "candles") /\ Pos(h) = s /\ h = "commands"
  /\ CloseManual(h, s)
  /\ UNCHANGED <<open, stored, stream, closed, budget, mode>>

\* (mutant) only the first sale of a candle is made
SoldOnce(h, s) ==
  /\ At(h, "selling") /\ Pos(h) = s
  /\ saved' = IF NextOpen THEN job[h].cash ELSE saved
  /\ Sell(h, s, <<>>)
  /\ UNCHANGED <<rec, open, db, journal, paused, stream, closed, budget, mode>>

\* A closeLong() returned; the next sale, if any.
Sold(h, s) ==
  /\ At(h, "selling") /\ Pos(h) = s
  /\ saved' = IF NextOpen THEN job[h].cash ELSE saved
  /\ Sell(h, s, job[h].sells)
  /\ UNCHANGED <<rec, open, db, journal, paused, stream, closed, budget, mode>>

\* settleExits() returned: finish() if the position is closed, else update().
\* Invalidate and ManualClose always finish, and have closed the position.
Settled(h, s) ==
  /\ At(h, "settled") /\ Pos(h) = s
  /\ Write(h, IF rec[s].live THEN "update" ELSE "close", rec[s])
  /\ UNCHANGED <<rec, open, wallet, stored, stream, closed, budget, mode>>

Update(h, s) ==
  /\ At(h, "update") /\ Pos(h) = s
  /\ db' = [db EXCEPT ![s] = Written(@, job[h].writes)]
  /\ Continue(h)
  /\ UNCHANGED <<rec, open, wallet, journal, saved, paused, stream, closed, budget, mode>>

\* finish(): store.close() is three statements, then the map and the event.
CloseRow(h, s) ==
  /\ At(h, "close") /\ Pos(h) = s
  /\ db' = [db EXCEPT ![s] = Written(@, job[h].writes)]
  /\ Goto(h, "closeOutcome")
  /\ UNCHANGED <<rec, open, wallet, journal, saved, paused, stream, closed, budget, mode>>

CloseOutcome(h, s) ==
  /\ At(h, "closeOutcome") /\ Pos(h) = s
  /\ db' = [db EXCEPT ![s].outcome = TRUE]
  /\ Goto(h, "closeSignal")
  /\ UNCHANGED <<rec, open, wallet, journal, saved, paused, stream, closed, budget, mode>>

CloseSignal(h, s) ==
  /\ At(h, "closeSignal") /\ Pos(h) = s
  /\ journal' = [journal EXCEPT ![s].outcome = "final"]
  /\ Goto(h, "release")
  /\ UNCHANGED <<rec, open, wallet, db, saved, paused, stream, closed, budget, mode>>

Release(h, s) ==
  /\ At(h, "release") /\ Pos(h) = s
  /\ open' = open \ {s}
  /\ Goto(h, "emit")
  /\ UNCHANGED <<rec, wallet, stored, stream, closed, budget, mode>>

EmitClosed(h, s) ==
  /\ At(h, "emit") /\ Pos(h) = s
  /\ closed' = [closed EXCEPT ![s] = @ + 1]
  /\ Continue(h)
  /\ UNCHANGED <<rec, open, wallet, stored, stream, budget, mode>>

PositionStep(h) ==
  \/ MarkAccepted(h) \/ Protected(h) \/ EndLoop(h)
  \/ \E s \in Signals :
       \/ Skip(h, s) \/ FillPending(h, s) \/ Fill(h, s) \/ FillUpdate(h, s)
       \/ CancelPending(h, s) \/ CancelRow(h, s) \/ CancelSignal(h, s)
       \/ Invalidate(h, s) \/ LoadCandles(h, s) \/ StepPosition(h, s) \/ ManualClose(h, s)
       \/ Sold(h, s) \/ Settled(h, s) \/ Update(h, s)
       \/ CloseRow(h, s) \/ CloseOutcome(h, s) \/ CloseSignal(h, s) \/ Release(h, s) \/ EmitClosed(h, s)

-----------------------------------------------------------------------------
(* Disturbances *)

\* Calls that reach Postgres or Redis; a rejected one ends its handler, and what
\* was done before the await stays done.  A signal is left unacknowledged and
\* read again; a command is not acknowledged either, but read with ">" only.
Fallible ==
  {"flags", "history", "exists", "reject", "insert", "accept", "ack", "fillUpdate", "cancel",
   "cancelSignal", "candles", "update", "close", "closeOutcome", "closeSignal", "emit", "flag"}
    \cup (IF NextOpen THEN {"fill", "selling"} ELSE {})

Fail(h) ==
  /\ budget.faults > 0
  /\ job[h].at \in Fallible
  /\ budget' = [budget EXCEPT !.faults = @ - 1]
  /\ End(h)
  /\ UNCHANGED <<rec, open, wallet, stored, stream, closed, mode>>

\* (mutant) a restored position is taken for untouched
RestoredFull(row) ==
  [pending |-> row.state = "pending", live |-> row.state # "closed", rem |-> Units]

\* The record loadOpen() builds from a row.
Restored(row) ==
  [pending |-> row.state = "pending", live |-> row.state # "closed", rem |-> row.rem]

\* The engine dies and restarts: restore() reads the open rows, the wallet the
\* last balance.  Signal entries delivered to the dead consumer are read again
\* only if the new process has the same pid, hence the same consumer name.
Crash ==
  /\ budget.crashes > 0
  /\ budget' = [budget EXCEPT !.crashes = @ - 1]
  /\ open' = {s \in Signals : db[s].state \notin {"none", "closed"}}
  /\ rec' = [s \in Signals |-> IF s \in open' THEN Restored(db[s]) ELSE NoRec]
  /\ wallet' = IF NextOpen THEN saved ELSE wallet
  /\ job' = [h \in Handlers |-> Idle]
  /\ \/ UNCHANGED stream
     \/ stream' = [s \in Signals |-> IF stream[s] = "unacked" THEN "lost" ELSE stream[s]]
  /\ UNCHANGED <<stored, closed, mode>>

-----------------------------------------------------------------------------

Init ==
  /\ rec = [s \in Signals |-> NoRec]
  /\ open = {}
  /\ wallet = [s \in Signals |-> [bought |-> 0, sold |-> 0]]
  /\ job = [h \in Handlers |-> Idle]
  /\ db = [s \in Signals |-> NoRow]
  /\ journal = [s \in Signals |-> [accepted |-> FALSE, outcome |-> "none"]]
  /\ saved = wallet
  /\ paused = FALSE
  /\ stream = [s \in Signals |-> "new"]
  /\ closed = [s \in Signals |-> 0]
  /\ budget = [commands |-> MaxCommands, faults |-> MaxFaults, crashes |-> MaxCrashes]
  /\ mode \in Modes

Step(h) ==
  \/ h = "signals" /\ SignalStep
  \/ h = "commands" /\ SetPaused
  \/ PositionStep(h)

Next ==
  \/ \E s \in Signals : TakeSignal(s)
  \/ \E h \in Handlers : Step(h) \/ StartCandle(h) \/ Fail(h)
  \/ \E type \in Commands : StartCommand(type)
  \/ Crash

Spec == Init /\ [][Next]_vars

\* Every handler runs on, candles of the entry timeframe keep closing and the
\* consumer keeps reading.
FairSpec ==
  /\ Spec
  /\ \A h \in Handlers : WF_vars(Step(h))
  /\ WF_vars(StartCandle("entry"))
  /\ \A s \in Signals : WF_vars(TakeSignal(s))

-----------------------------------------------------------------------------
(* Properties *)

RecType == [pending : BOOLEAN, live : BOOLEAN, rem : 0 .. Units]

\* Records, rows and jobs have the shapes of manager.ts and store.ts.
TypeOK ==
  /\ rec \in [Signals -> RecType]
  /\ open \subseteq Signals
  /\ wallet \in [Signals -> [bought : Nat, sold : Nat]]
  /\ saved \in [Signals -> [bought : Nat, sold : Nat]]
  /\ db \in [Signals -> [state : {"none", "pending", "open", "closed"},
                         rem : 0 .. Units, outcome : BOOLEAN]]
  /\ journal \in [Signals -> [accepted : BOOLEAN, outcome : {"none", "rejected", "final"}]]
  /\ paused \in BOOLEAN
  /\ stream \in [Signals -> {"new", "unacked", "acked", "lost"}]
  /\ closed \in [Signals -> Nat]
  /\ \A h \in Handlers :
       /\ job[h].pos \in Signals \cup {None}
       /\ job[h].todo \subseteq Signals
       /\ job[h].sells \in Seq(1 .. Units)
       /\ job[h].writes \in RecType

\* A restart loses what was not written (balance, running handlers): what is said
\* of one process holds until then.
FirstLife == budget.crashes = MaxCrashes

Held(s) == IF rec[s].pending THEN 0 ELSE rec[s].rem

\* Between handlers, what was bought for a position is what was sold of it plus
\* what its record holds, and a position that holds something is managed.
BooksBalance ==
  Quiet /\ FirstLife => \A s \in Signals :
             /\ wallet[s].bought = wallet[s].sold + Held(s)
             /\ Held(s) > 0 => s \in open

\* Between handlers, a restart would restore exactly the positions in memory.
RestartSafe ==
  Quiet => \A s \in Signals :
             /\ s \in open <=> db[s].state \in {"pending", "open"}
             /\ s \in open => Restored(db[s]) = rec[s]

\* The outcome in the journal is true: final only when all that was bought is
\* sold, rejected only when nothing was bought (store.ts:55 "A pending entry that
\* never filled (gap at fill, below minimum, manual cancel)").
OutcomeTrue ==
  FirstLife => \A s \in Signals :
    /\ journal[s].outcome = "final" => wallet[s].bought > 0 /\ wallet[s].sold = wallet[s].bought
    /\ journal[s].outcome = "rejected" => wallet[s].bought = 0

\* risk.max_open bounds the positions and pending entries at any moment.
MaxOpenKept == FirstLife => Cardinality(open) <= MaxOpen

\* The rows of the table go through the life of a position and no other.
Life == INSTANCE PositionLife
          WITH Positions <- Signals, Start <- {"none"},
               stage <- [s \in Signals |->
                           IF db[s].state # "open" THEN db[s].state
                           ELSE IF db[s].rem = Units THEN "full" ELSE "part"]
RowsLive == Life!Spec

\* A pending entry is filled or cancelled, whatever fails on the way.
PendingResolved ==
  \A s \in Signals : (s \in open /\ rec[s].pending) ~> ~(s \in open /\ rec[s].pending)

\* A position the exit policy closed gets its outcome into its row and leaves the
\* map, even if a sale or a statement failed the first time.
ExitFinished ==
  \A s \in Signals : (s \in open /\ rec[s].rem = 0) ~> (s \notin open /\ db[s].outcome)
=============================================================================
