----------------------------- MODULE SignalRunner -----------------------------
(***************************************************************************)
(* The live signal runner (live/runner.py): passes over the enabled        *)
(* strategy instances, each evaluated on the last stored candle of its     *)
(* entry timeframe unless that is the one it has seen; a signal is         *)
(* journalled and then published.  Between passes the runner sleeps until  *)
(* the next close and then polls.  The candles are those of CandleTable,   *)
(* stored in any order: the runner needs nothing but that they have closed *)
(* and stay.                                                               *)
(***************************************************************************)
EXTENDS CandleTable, Sequences, SequencesExt

CONSTANTS
  Instances,  \* enabled strategy instances
  EntryTf,    \* the series whose candles an instance is evaluated on
  Frames,     \* the slower series it needs (regime, range)
  Bounds      \* errors of Postgres or Redis, and kills of the process

\* At least one: run_live() takes the fastest of their timeframes.
ASSUME SomeInstance == IsFiniteSet(Instances) /\ Instances # {}
ASSUME InstanceAssumption ==
  EntryTf \in [Instances -> Series] /\ Frames \in [Instances -> SUBSET Series]
ASSUME RunnerBoundAssumption == Bounds \in [{"errors", "kills"} -> Nat]

VARIABLES
  run,       \* where run_live() is: [at, loop, todo, evs, wake]
  seen,      \* the candle each instance was last evaluated on, by SeenKey
  journal,   \* ids of the rows of the signals table
  stream,    \* how often each signal has been published
  evaluated, \* history: instance and candle of the evaluations
  signals,   \* history: the signals the evaluations found
  budget     \* what is left of Bounds

runner == <<run, seen, journal, stream, evaluated, signals, budget>>
vars   == <<tableVars, runner>>

Never     == LastTick + 1   \* dict.get() of an instance without an entry
Order     == SetToSeq(Instances)
Times     == 0..LastTick
\* (mutant) the candle seen is kept per series
SeenSeries(i) == EntryTf[i]

SeenKey(i)     == i
SignalId(i, t) == <<i, t>>
Signals == Instances \X Times

Fastest == Min({Period[EntryTf[i]] : i \in Instances})

\* The next close of the fastest entry timeframe.
NextClose == (clock \div Fastest + 1) * Fastest

Pass(loop) == [at |-> "load", loop |-> loop, todo |-> Order, evs |-> FALSE, wake |-> 0]
Sleep      == [at |-> "sleep", loop |-> "outer", todo |-> <<>>, evs |-> FALSE, wake |-> NextClose]
Dead       == [at |-> "dead", loop |-> "outer", todo |-> <<>>, evs |-> FALSE, wake |-> 0]
Polling    == [at |-> "poll", loop |-> "poll", todo |-> <<>>, evs |-> FALSE, wake |-> 0]

\* On to the next instance; after the last one, run_once() returns: the outer
\* loop sleeps, the poll loop breaks if anything was evaluated.
Onward(evs) ==
  run' = IF Len(run.todo) > 1 THEN [run EXCEPT !.at = "load", !.todo = Tail(@), !.evs = evs]
         ELSE IF run.loop = "outer" THEN Sleep
         ELSE IF evs THEN Pass("outer") ELSE Polling

\* (mutant) the candle that closed last, stored or not
NewestClosed(i) == LastClosed(EntryTf[i], clock)

Newest(i) == Max(table[EntryTf[i]])
Loaded(i) == \A x \in Frames[i] \cup {EntryTf[i]} : table[x] # {}
Fresh(i)  == Loaded(i) /\ seen[SeenKey(i)] # Newest(i)

\* The frames of an instance are loaded: nothing new, or an evaluation, with a
\* signal or without.
Evaluate ==
  /\ run.at = "load"
  /\ LET i == Head(run.todo)
     IN \/ /\ ~Fresh(i)
           /\ Onward(run.evs)
           /\ UNCHANGED <<seen, evaluated, signals>>
        \/ /\ Fresh(i)
           /\ seen' = [seen EXCEPT ![SeenKey(i)] = Newest(i)]
           /\ evaluated' = evaluated \cup {<<i, Newest(i)>>}
           /\ \/ Onward(TRUE) /\ UNCHANGED signals
              \/ /\ run' = [run EXCEPT !.at = "write", !.evs = TRUE]
                 /\ signals' = signals \cup {<<i, Newest(i)>>}
  /\ UNCHANGED <<tableVars, journal, stream, budget>>

\* The signal being handled and its id.
Sig == LET i == Head(run.todo) IN <<i, seen[SeenKey(i)]>>
Id  == SignalId(Sig[1], Sig[2])

\* (mutant) published whether the row is fresh or not
WriteReplay ==
  /\ run.at = "write"
  /\ journal' = journal \cup {Id}
  /\ run' = [run EXCEPT !.at = "publish"]
  /\ UNCHANGED <<tableVars, seen, stream, evaluated, signals, budget>>

\* write_signal(): ON CONFLICT DO NOTHING; only a fresh row is published.
Write ==
  /\ run.at = "write"
  /\ journal' = journal \cup {Id}
  /\ IF Id \in journal THEN Onward(TRUE) ELSE run' = [run EXCEPT !.at = "publish"]
  /\ UNCHANGED <<tableVars, seen, stream, evaluated, signals, budget>>

Publish ==
  /\ run.at = "publish"
  /\ stream' = [stream EXCEPT ![Sig] = @ + 1]
  /\ Onward(TRUE)
  /\ UNCHANGED <<tableVars, seen, journal, evaluated, signals, budget>>

\* The sleep is over: the first pass of the poll loop.
Wake ==
  /\ run.at = "sleep" /\ clock >= run.wake
  /\ run' = Pass("poll")
  /\ UNCHANGED <<tableVars, seen, journal, stream, evaluated, signals, budget>>

PollAgain ==
  /\ run.at = "poll"
  /\ run' = Pass("poll")
  /\ UNCHANGED <<tableVars, seen, journal, stream, evaluated, signals, budget>>

\* 90 seconds are over.
Deadline ==
  /\ run.at = "poll"
  /\ run' = Pass("outer")
  /\ UNCHANGED <<tableVars, seen, journal, stream, evaluated, signals, budget>>

\* A statement or XADD raises, executed or not.  The outer loop catches it and
\* goes to sleep; in the poll loop it ends the process.
Error ==
  /\ run.at \in {"load", "write", "publish"} /\ budget.errors > 0
  /\ budget' = [budget EXCEPT !.errors = @ - 1]
  /\ run' = IF run.loop = "outer" THEN Sleep ELSE Dead
  /\ \/ UNCHANGED <<journal, stream>>
     \/ run.at = "write" /\ journal' = journal \cup {Id} /\ UNCHANGED stream
     \/ run.at = "publish" /\ stream' = [stream EXCEPT ![Sig] = @ + 1] /\ UNCHANGED journal
  /\ UNCHANGED <<tableVars, seen, evaluated, signals>>

Kill ==
  /\ run.at # "dead" /\ budget.kills > 0
  /\ budget' = [budget EXCEPT !.kills = @ - 1]
  /\ run' = Dead
  /\ UNCHANGED <<tableVars, seen, journal, stream, evaluated, signals>>

\* pm2 starts the process again: nothing is seen yet.
Start ==
  /\ run.at = "dead"
  /\ run' = Pass("outer")
  /\ seen' = [k \in DOMAIN seen |-> Never]
  /\ UNCHANGED <<tableVars, journal, stream, evaluated, signals, budget>>

\* A pass, the polling and a restart take less than a candle.
Clock == run.at = "sleep" /\ clock < run.wake /\ Tick /\ UNCHANGED runner

\* The engine stores candles that have closed: the last one or, between two looks of
\* the runner, the several ones of a gap fill, with others missing after a failed call.
Stored ==
  /\ \E x \in Series : \E t \in Candles(x) :
       t <= clock /\ table' = [table EXCEPT ![x] = @ \cup {t}]
  /\ UNCHANGED <<clock, failed, runner>>

Init ==
  /\ TableInit
  /\ run = Pass("outer")
  /\ seen = [k \in {SeenKey(i) : i \in Instances} |-> Never]
  /\ journal = {} /\ stream = [s \in Signals |-> 0]
  /\ evaluated = {} /\ signals = {}
  /\ budget = Bounds

Step == Evaluate \/ Write \/ Publish \/ Wake \/ PollAgain \/ Start
Next == Step \/ Deadline \/ Error \/ Kill \/ Clock \/ Stored

Spec == Init /\ [][Next]_vars

\* The process runs, the deadline of the polling passes and so does time.
Fairness == WF_vars(Step) /\ SF_vars(Deadline) /\ WF_vars(Clock)
FairSpec == Spec /\ Fairness

-----------------------------------------------------------------------------
(* Properties *)

TypeOK ==
  /\ run \in [at : {"load", "write", "publish", "sleep", "poll", "dead"},
              loop : {"outer", "poll"}, todo : Seq(Instances), evs : BOOLEAN, wake : Nat]
  /\ run.at \in {"load", "write", "publish"} => run.todo # <<>>
  /\ \A i \in Instances : seen[SeenKey(i)] \in table[EntryTf[i]] \cup {Never}
  /\ journal \subseteq {SignalId(s[1], s[2]) : s \in Signals} /\ stream \in [Signals -> Nat]

\* A signal reaches the engine at most once, and only after it was journalled,
\* through restarts that evaluate the same candle again (runner.py:102-104); it is
\* lost only to an error or a kill, whatever the other instances signal.
Delivered ==
  /\ \A s \in Signals : stream[s] <= 1 /\ (stream[s] = 1 => SignalId(s[1], s[2]) \in journal)
  /\ budget = Bounds /\ run.at \in {"sleep", "poll"} => \A s \in signals : stream[s] = 1

\* Once errors have stopped, an instance is evaluated on each stored candle of its
\* entry timeframe or on a later one, if it was not already: the poll loop that an
\* error ended, a kill and a caught error in the middle of a pass do not stop it.
CaughtUp ==
  \A i \in Instances, t \in Times :
    t \in table[EntryTf[i]] /\ clock < LastTick /\ budget.errors = 0 /\ (\A x \in Frames[i] : table[x] # {})
      ~> \E s \in t..LastTick : <<i, s>> \in evaluated

=============================================================================
