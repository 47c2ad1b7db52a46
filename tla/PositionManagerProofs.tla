------------------------ MODULE PositionManagerProofs ------------------------
(***************************************************************************)
(* PositionManager keeps the shapes of its state: for every set of signals *)
(* and commands, every max_open, every overlap of the handlers, and any    *)
(* number of failing calls and crashes; and, when the loops over the       *)
(* positions run one after the other and no call fails, its promises.      *)
(***************************************************************************)
EXTENDS PositionManager, SequenceTheorems, FiniteSetTheorems, TLAPS

-----------------------------------------------------------------------------
(* The shapes *)

SignalLabels == {"idle", "flags", "history", "exists", "reject", "openLong", "insert",
                 "accept", "protect", "ack"}
LoopLabels   == {"idle", "loop", "flag", "fill", "fillUpdate", "accept", "protect", "cancel",
                 "cancelSignal", "candles", "selling", "settled", "update", "close",
                 "closeOutcome", "closeSignal", "release", "emit"}
Labels == SignalLabels \cup LoopLabels

Wallets == [Signals -> [bought : Nat, sold : Nat]]

\* A record is live as long as something remains, and pending only if live.
Records == {r \in RecType : (r.live <=> r.rem > 0) /\ (r.pending => r.live)}

\* A row that restore() would read has something left.
Rows == {r \in [state : {"none", "pending", "open", "closed"}, rem : 0 .. Units, outcome : BOOLEAN] :
           r.state \in {"pending", "open"} => r.rem > 0}

Journal == [accepted : BOOLEAN, outcome : {"none", "rejected", "final"}]

JobType == [at : Labels, pos : Signals \cup {None}, todo : SUBSET Signals,
            does : Handlers \cup Commands \cup {"none"}, sells : Seq(1 .. Units),
            writes : Records, cash : Wallets \cup {None}, paused : BOOLEAN]

Jobs == [Handlers -> JobType]

-----------------------------------------------------------------------------
(* What the helpers do to the job of a handler *)

Others(h) == \A i \in Handlers \ {h} : job'[i] = job[i]

LEMMA RecordTypes ==
  /\ NoRec \in Records /\ Pending \in Records /\ Filled \in Records
  /\ Idle \in JobType
BY NoneAssumption DEF NoRec, Pending, Filled, Idle, JobType, Records, RecType, Units, Labels, SignalLabels

LEMMA JobSet ==
  ASSUME job \in Jobs, NEW h \in Handlers, NEW j \in JobType, job' = [job EXCEPT ![h] = j]
  PROVE  job' \in Jobs /\ Others(h) /\ job'[h] = j
BY DEF Jobs, Others

LEMMA GotoEffect ==
  ASSUME job \in Jobs, NEW h \in Handlers, NEW label \in Labels, Goto(h, label)
  PROVE  /\ job' \in Jobs /\ Others(h)
         /\ job'[h].at = label /\ job'[h].pos = job[h].pos /\ job'[h].todo = job[h].todo
         /\ job'[h].does = job[h].does /\ job'[h].sells = job[h].sells
<1> DEFINE j == [job[h] EXCEPT !.at = label, !.writes = NoRec, !.cash = None]
<1>1. j \in JobType
  BY RecordTypes DEF JobType, Jobs
<1>2. job' = [job EXCEPT ![h] = j]
  BY DEF Goto
<1>3. job[h] \in JobType
  BY DEF Jobs
<1> HIDE DEF j
<1>4. job' \in Jobs /\ Others(h) /\ job'[h] = j
  BY <1>1, <1>2, JobSet
<1> QED BY <1>3, <1>4 DEF j, JobType

LEMMA GotoForEffect ==
  ASSUME job \in Jobs, NEW h \in Handlers, NEW label \in Labels, NEW s \in Signals, GotoFor(h, label, s)
  PROVE  /\ job' \in Jobs /\ Others(h)
         /\ job'[h].at = label /\ job'[h].pos = s /\ job'[h].todo = job[h].todo
         /\ job'[h].does = job[h].does /\ job'[h].cash = job[h].cash
<1> DEFINE j == [job[h] EXCEPT !.at = label, !.pos = s]
<1>1. j \in JobType
  BY DEF JobType, Jobs
<1>2. job' = [job EXCEPT ![h] = j]
  BY DEF GotoFor
<1>3. job[h] \in JobType
  BY DEF Jobs
<1> HIDE DEF j
<1>4. job' \in Jobs /\ Others(h) /\ job'[h] = j
  BY <1>1, <1>2, JobSet
<1> QED BY <1>3, <1>4 DEF j, JobType

LEMMA EndEffect ==
  ASSUME job \in Jobs, NEW h \in Handlers, End(h)
  PROVE  /\ job' \in Jobs /\ Others(h)
         /\ job'[h].at = "idle" /\ job'[h].pos = None /\ job'[h].todo = {}
         /\ job'[h].does = "none"
<1>1. job' \in Jobs /\ Others(h) /\ job'[h] = Idle
  BY RecordTypes, JobSet DEF End
<1> QED BY <1>1 DEF Idle

LEMMA ContinueEffect ==
  ASSUME job \in Jobs, NEW h \in Handlers, Continue(h)
  PROVE  /\ job' \in Jobs /\ Others(h)
         /\ job'[h].at = "loop" /\ job'[h].pos = None /\ job'[h].todo = job[h].todo \ {Pos(h)}
         /\ job'[h].does = job[h].does
<1> DEFINE j == [Idle EXCEPT !.at = "loop", !.todo = job[h].todo \ {Pos(h)}, !.does = job[h].does]
<1>1. j \in JobType
  BY RecordTypes DEF JobType, Jobs, Labels, LoopLabels
<1>2. job' = [job EXCEPT ![h] = j]
  BY DEF Continue
<1> HIDE DEF j
<1>3. job' \in Jobs /\ Others(h) /\ job'[h] = j
  BY <1>1, <1>2, JobSet
<1> QED BY <1>3 DEF j, Idle

LEMMA WriteEffect ==
  ASSUME job \in Jobs, NEW h \in Handlers, NEW label \in Labels, NEW r \in Records, Write(h, label, r)
  PROVE  /\ job' \in Jobs /\ Others(h)
         /\ job'[h].at = label /\ job'[h].pos = job[h].pos /\ job'[h].todo = job[h].todo
         /\ job'[h].does = job[h].does /\ job'[h].writes = r
<1> DEFINE j == [job[h] EXCEPT !.at = label, !.writes = r, !.cash = None]
<1>1. j \in JobType
  BY DEF JobType, Jobs
<1>2. job' = [job EXCEPT ![h] = j]
  BY DEF Write
<1>3. job[h] \in JobType
  BY DEF Jobs
<1> HIDE DEF j
<1>4. job' \in Jobs /\ Others(h) /\ job'[h] = j
  BY <1>1, <1>2, JobSet
<1> QED BY <1>3, <1>4 DEF j, JobType

\* Only the account of s moves.
Moved(s, bought, sold) ==
  /\ wallet' \in Wallets
  /\ wallet'[s].bought = wallet[s].bought + bought /\ wallet'[s].sold = wallet[s].sold + sold
  /\ \A t \in Signals \ {s} : wallet'[t] = wallet[t]

LEMMA BuyEffect ==
  ASSUME job \in Jobs, wallet \in Wallets, NEW h \in Handlers, NEW s \in Signals,
         NEW label \in Labels, Buy(h, label, s)
  PROVE  /\ job' \in Jobs /\ Others(h)
         /\ job'[h].at = label /\ job'[h].pos = s /\ job'[h].todo = job[h].todo
         /\ job'[h].does = job[h].does /\ job'[h].cash = wallet'
         /\ Moved(s, Units, 0)
<1> DEFINE j == [job[h] EXCEPT !.at = label, !.pos = s, !.cash = wallet']
<1>0. Moved(s, Units, 0)
  BY DEF Buy, Wallets, Units, Moved
<1>1. j \in JobType
  BY <1>0 DEF JobType, Jobs, Moved
<1>2. job' = [job EXCEPT ![h] = j]
  BY DEF Buy
<1>3. job[h] \in JobType
  BY DEF Jobs
<1> HIDE DEF j
<1>4. job' \in Jobs /\ Others(h) /\ job'[h] = j
  BY <1>1, <1>2, JobSet
<1> QED BY <1>0, <1>3, <1>4 DEF j, JobType

LEMMA SellNothing ==
  ASSUME job \in Jobs, NEW h \in Handlers, NEW s \in Signals, Sell(h, s, <<>>)
  PROVE  /\ job' \in Jobs /\ Others(h)
         /\ job'[h].at = "settled" /\ job'[h].pos = s /\ job'[h].todo = job[h].todo
         /\ job'[h].does = job[h].does /\ job'[h].sells = <<>>
         /\ UNCHANGED wallet
<1> DEFINE j == [job[h] EXCEPT !.at = "settled", !.pos = s, !.sells = <<>>, !.cash = None]
<1>1. j \in JobType
  BY ZenonT(60), EmptySeq DEF JobType, Jobs, Labels, LoopLabels
<1>2. job' = [job EXCEPT ![h] = j]
  BY DEF Sell
<1>3. job[h] \in JobType /\ UNCHANGED wallet
  BY DEF Jobs, Sell
<1> HIDE DEF j
<1>4. job' \in Jobs /\ Others(h) /\ job'[h] = j
  BY <1>1, <1>2, JobSet
<1> QED BY <1>3, <1>4 DEF j, JobType

LEMMA SellSome ==
  ASSUME job \in Jobs, wallet \in Wallets, NEW h \in Handlers, NEW s \in Signals,
         NEW sells \in Seq(1 .. Units), sells # <<>>, Sell(h, s, sells)
  PROVE  /\ job' \in Jobs /\ Others(h)
         /\ job'[h].at = "selling" /\ job'[h].pos = s /\ job'[h].todo = job[h].todo
         /\ job'[h].does = job[h].does /\ job'[h].sells = Tail(sells)
         /\ job'[h].cash = wallet'
         /\ Moved(s, 0, Head(sells))
<1> DEFINE j == [job[h] EXCEPT !.at = "selling", !.pos = s, !.sells = Tail(sells), !.cash = wallet']
<1>0. Head(sells) \in 1 .. Units /\ Tail(sells) \in Seq(1 .. Units)
  BY HeadTailProperties
<1> DEFINE n == Head(sells)
<1> HIDE DEF n
<1>1. Moved(s, 0, n)
  <2>1. n \in Nat /\ wallet' = [wallet EXCEPT ![s].sold = @ + n]
    BY <1>0 DEF Sell, Units, n
  <2>2. QED
    BY <2>1 DEF Wallets, Moved
<1>2. j \in JobType
  <2>1. wallet' \in Wallets /\ job[h] \in JobType
    BY <1>1 DEF Moved, Jobs
  <2>2. QED
    BY <1>0, <2>1 DEF JobType, Labels, LoopLabels
<1>3. job' = [job EXCEPT ![h] = j]
  BY DEF Sell
<1>4. job[h] \in JobType
  BY DEF Jobs
<1> HIDE DEF j
<1>5. job' \in Jobs /\ Others(h) /\ job'[h] = j
  BY <1>2, <1>3, JobSet
<1> QED BY <1>1, <1>4, <1>5 DEF j, n, JobType

-----------------------------------------------------------------------------
(* The invariant *)

Data ==
  /\ rec \in [Signals -> Records]
  /\ open \subseteq Signals
  /\ wallet \in Wallets /\ saved \in Wallets
  /\ db \in [Signals -> Rows]
  /\ journal \in [Signals -> Journal]
  /\ paused \in BOOLEAN
  /\ stream \in [Signals -> {"new", "unacked", "acked", "lost"}]
  /\ closed \in [Signals -> Nat]

Loops == Handlers \ {"signals"}

HasRow(s) == db[s].state # "none"

\* Handler h is where it can be, saves a balance it has read, and has at hand only
\* signals with a row; the record it found or made filled is not pending.
AtHand(h) ==
  /\ job[h].at \in {"openLong", "fill", "selling"} => job[h].cash \in Wallets
  /\ h = "signals" =>
       /\ job[h].at \in SignalLabels
       /\ job[h].at \in {"accept", "protect"} => job[h].pos \in Signals /\ HasRow(job[h].pos)
  /\ h # "signals" =>
       /\ job[h].at \in LoopLabels
       /\ \A s \in job[h].todo : HasRow(s)
       /\ job[h].pos \in Signals => HasRow(job[h].pos)
       /\ job[h].at \in {"fillUpdate", "accept", "protect", "candles"} =>
            job[h].pos \in Signals /\ ~rec[job[h].pos].pending

\* A signal that is managed or at hand has a row.  Only one without a row gets a
\* new, pending record, so no record becomes pending under a handler.
TypeInv ==
  /\ Data
  /\ job \in Jobs
  /\ \A s \in open : HasRow(s)
  /\ \A h \in Handlers : AtHand(h)

\* Rows stay, and a record with a row does not become pending.
Keeps == \A s \in Signals : HasRow(s) => HasRow(s)' /\ (rec'[s].pending => rec[s].pending)

LEMMA OneHandler ==
  ASSUME TypeInv, Data', job' \in Jobs, NEW h \in Handlers, Others(h), Keeps,
         \A s \in open' : HasRow(s)', AtHand(h)'
  PROVE  TypeInv'
<1> SUFFICES ASSUME NEW i \in Handlers \ {h} PROVE AtHand(i)'
  BY DEF TypeInv
<1>1. job'[i] = job[i] /\ AtHand(i) /\ job[i] \in JobType
  BY DEF Others, TypeInv, Jobs
<1>2. job[i].todo \subseteq Signals
  BY <1>1 DEF JobType
<1>3. QED
  BY <1>1, <1>2 DEF AtHand, Keeps, HasRow

\* Records and rows stay as they are.
LEMMA JobOnly ==
  ASSUME TypeInv, Data', job' \in Jobs, NEW h \in Handlers, Others(h), AtHand(h)',
         UNCHANGED <<rec, open, db>>
  PROVE  TypeInv'
<1>1. Keeps /\ \A s \in open' : HasRow(s)'
  BY DEF Keeps, HasRow, TypeInv
<1>2. QED
  BY <1>1, OneHandler

LEMMA WrittenType ==
  ASSUME NEW row \in Rows, NEW r \in Records
  PROVE  Written(row, r) \in Rows /\ Written(row, r).state # "none"
BY DEF Written, State, Rows, Records, RecType, Units

-----------------------------------------------------------------------------
(* The signal consumer *)

LEMMA TakeSignalType == ASSUME TypeInv, NEW s \in Signals, TakeSignal(s) PROVE TypeInv'
<1> DEFINE j == [job["signals"] EXCEPT !.at = "flags", !.pos = s]
<1>1. j \in JobType
  BY ZenonT(60) DEF TypeInv, Jobs, JobType, Handlers, Labels, SignalLabels
<1>2. job' = [job EXCEPT !["signals"] = j] /\ j.at = "flags"
  BY DEF TakeSignal, TypeInv, Jobs, JobType, Handlers
<1> HIDE DEF j
<1>3. job' \in Jobs /\ Others("signals") /\ job'["signals"].at = "flags"
  BY <1>1, <1>2, JobSet DEF TypeInv, Handlers
<1>4. Data'
  BY DEF TakeSignal, TypeInv, Data, stored
<1>5. AtHand("signals")'
  BY <1>3 DEF AtHand, SignalLabels
<1>6. QED
  BY <1>3, <1>4, <1>5, JobOnly DEF TakeSignal, stored, Handlers

LEMMA ReadType == ASSUME TypeInv, LoadFlags \/ CopyOpen PROVE TypeInv'
<1>1. PICK j \in JobType : /\ job' = [job EXCEPT !["signals"] = j]
                           /\ j.at \in {"history", "exists"}
  <2>1. job["signals"] \in JobType /\ open \subseteq Signals /\ paused \in BOOLEAN
    BY DEF TypeInv, Data, Jobs, Handlers
  <2>2. CASE LoadFlags
    <3> DEFINE k == [job["signals"] EXCEPT !.at = "history", !.paused = paused]
    <3>1. k \in JobType /\ k.at = "history"
      BY <2>1 DEF JobType, Labels, SignalLabels
    <3>2. job' = [job EXCEPT !["signals"] = k]
      BY <2>2 DEF LoadFlags
    <3>3. QED
      BY <3>1, <3>2
  <2>3. CASE CopyOpen
    <3> DEFINE k == [job["signals"] EXCEPT !.at = "exists", !.todo = open]
    <3>1. k \in JobType /\ k.at = "exists"
      BY <2>1 DEF JobType, Labels, SignalLabels
    <3>2. job' = [job EXCEPT !["signals"] = k]
      BY <2>3 DEF CopyOpen
    <3>3. QED
      BY <3>1, <3>2
  <2>4. QED
    BY <2>2, <2>3
<1>2. job' \in Jobs /\ Others("signals") /\ job'["signals"] = j
  BY <1>1, JobSet DEF TypeInv, Handlers
<1>3. Data' /\ UNCHANGED <<rec, open, db>>
  BY DEF LoadFlags, CopyOpen, TypeInv, Data, stored
<1>4. AtHand("signals")'
  BY <1>1, <1>2 DEF AtHand, SignalLabels
<1>5. QED
  BY <1>2, <1>3, <1>4, JobOnly DEF Handlers

LEMMA RejectType == ASSUME TypeInv, NEW s \in Signals, Reject(s) \/ MarkRejected(s) PROVE TypeInv'
<1>1. job' \in Jobs /\ Others("signals") /\ job'["signals"].at \in {"reject", "ack"}
  BY GotoEffect DEF Reject, MarkRejected, TypeInv, Handlers, Labels, SignalLabels
<1>2. Data' /\ UNCHANGED <<rec, open, db>>
  BY DEF Reject, MarkRejected, TypeInv, Data, Journal, stored
<1>3. AtHand("signals")'
  BY <1>1 DEF AtHand, SignalLabels
<1>4. QED
  BY <1>1, <1>2, <1>3, JobOnly DEF Handlers

LEMMA AckType == ASSUME TypeInv, NEW s \in Signals, Ack(s) PROVE TypeInv'
<1>1. job' \in Jobs /\ Others("signals") /\ job'["signals"].at = "idle"
  BY EndEffect DEF Ack, TypeInv, Handlers
<1>2. Data' /\ UNCHANGED <<rec, open, db>>
  BY DEF Ack, TypeInv, Data, stored
<1>3. AtHand("signals")'
  BY <1>1 DEF AtHand, SignalLabels
<1>4. QED
  BY <1>1, <1>2, <1>3, JobOnly DEF Handlers

LEMMA AcceptType == ASSUME TypeInv, NEW s \in Signals, Accept(s) PROVE TypeInv'
<1>1. /\ job' \in Jobs /\ Others("signals") /\ wallet' \in Wallets
      /\ job'["signals"].at = "insert" \/ (job'["signals"].at = "openLong" /\ job'["signals"].cash \in Wallets)
  <2>1. CASE NextOpen
    BY <2>1, WriteEffect, RecordTypes DEF Accept, TypeInv, Data, Handlers, Labels, SignalLabels
  <2>2. CASE ~NextOpen
    BY <2>2, BuyEffect DEF Accept, TypeInv, Data, Handlers, Labels, SignalLabels, Moved
  <2>3. QED
    BY <2>1, <2>2
<1>2. rec' = [rec EXCEPT ![s] = Pending] /\ UNCHANGED <<open, db>> /\ ~HasRow(s)
  BY DEF Accept, Refused, Known, HasRow, stored
<1>3. Data'
  BY <1>1, <1>2, RecordTypes DEF Accept, TypeInv, Data, stored
<1>4. Keeps /\ \A t \in open' : HasRow(t)'
  BY <1>2 DEF Keeps, HasRow, TypeInv, Data
<1>5. AtHand("signals")'
  BY <1>1 DEF AtHand, SignalLabels
<1>6. QED
  BY <1>1, <1>3, <1>4, <1>5, OneHandler DEF Handlers

\* activate() up to its first write, for the signal consumer and for the loops.
LEMMA ActivateType ==
  ASSUME TypeInv, NEW h \in Handlers, NEW s \in Signals,
         NEW label \in {"insert", "fillUpdate"}, label = "insert" <=> h = "signals",
         job[h].at \in {"openLong", "fill"}, job[h].pos = s, Activate(h, s, label),
         UNCHANGED <<open, wallet, db, journal, paused, stream, closed>>
  PROVE  TypeInv'
<1>1. job[h].cash \in Wallets /\ job[h] \in JobType
  BY DEF TypeInv, AtHand, Jobs
<1>2. CASE rec[s].pending
  <2>1. rec' = [rec EXCEPT ![s] = Filled] /\ Write(h, label, Filled)
    BY <1>2 DEF Activate
  <2>2. /\ job' \in Jobs /\ Others(h)
        /\ job'[h].at = label /\ job'[h].pos = s /\ job'[h].todo = job[h].todo
    BY <2>1, WriteEffect, RecordTypes DEF TypeInv, Labels, SignalLabels, LoopLabels
  <2>3. Data'
    BY <1>1, <2>1, RecordTypes DEF Activate, TypeInv, Data
  <2>4. Keeps /\ \A t \in open' : HasRow(t)'
    BY <2>1 DEF Keeps, HasRow, TypeInv, Data, Filled
  <2>5. ~rec'[s].pending
    BY <2>1 DEF TypeInv, Data, Filled
  <2>6. AtHand(h)'
    BY <2>2, <2>5, NoneAssumption DEF AtHand, HasRow, TypeInv, SignalLabels, LoopLabels
  <2>7. QED
    BY <2>2, <2>3, <2>4, <2>6, OneHandler
<1>3. CASE ~rec[s].pending
  <2>1. job' \in Jobs /\ Others(h) /\ job'[h].at = "idle" /\ job'[h].pos = None /\ job'[h].todo = {}
    BY <1>3, EndEffect DEF Activate, TypeInv
  <2>2. Data' /\ UNCHANGED <<rec, open, db>>
    BY <1>1, <1>3 DEF Activate, TypeInv, Data
  <2>3. AtHand(h)'
    BY <2>1, NoneAssumption DEF AtHand, SignalLabels, LoopLabels
  <2>4. QED
    BY <2>1, <2>2, <2>3, JobOnly
<1>4. QED
  BY <1>2, <1>3

LEMMA InsertType == ASSUME TypeInv, NEW s \in Signals, Insert(s) PROVE TypeInv'
<1>1. job' \in Jobs /\ Others("signals") /\ job'["signals"].pos = s /\ job'["signals"].at \in {"ack", "accept"}
  BY GotoEffect DEF Insert, At, Pos, TypeInv, Handlers, Labels, SignalLabels
<1>2. /\ db' = [db EXCEPT ![s] = Written(@, job["signals"].writes)]
      /\ rec' = rec /\ open' \subseteq open \cup {s}
  BY DEF Insert
<1>3. Written(db[s], job["signals"].writes) \in Rows /\ Written(db[s], job["signals"].writes).state # "none"
  BY WrittenType DEF TypeInv, Data, Jobs, JobType, Handlers
<1>4. Data' /\ Keeps /\ HasRow(s)' /\ \A t \in open' : HasRow(t)'
  BY <1>2, <1>3 DEF Insert, TypeInv, Data, Keeps, HasRow
<1>5. AtHand("signals")'
  BY <1>1, <1>4 DEF AtHand, SignalLabels
<1>6. QED
  BY <1>1, <1>4, <1>5, OneHandler DEF Handlers

LEMMA SignalType == ASSUME TypeInv, SignalStep PROVE TypeInv'
<1>1. ASSUME NEW s \in Signals, OpenLong(s) PROVE TypeInv'
  BY <1>1, ActivateType DEF OpenLong, At, Pos, Handlers
<1>2. QED
  BY <1>1, ReadType, RejectType, AcceptType, InsertType, AckType DEF SignalStep

-----------------------------------------------------------------------------
(* The loops over the positions *)

LEMMA StartCandleType ==
  ASSUME TypeInv, NEW h \in Handlers, StartCandle(h) PROVE TypeInv'
<1> DEFINE j == [job[h] EXCEPT !.at = "loop", !.todo = open, !.does = h]
<1>1. j \in JobType /\ j.at = "loop" /\ j.todo = open /\ j.pos = job[h].pos
  BY ZenonT(60) DEF TypeInv, Data, Jobs, JobType, Labels, LoopLabels
<1>2. job' = [job EXCEPT ![h] = j]
  BY DEF StartCandle
<1> HIDE DEF j
<1>3. job' \in Jobs /\ Others(h) /\ job'[h] = j
  BY <1>1, <1>2, JobSet DEF TypeInv
<1>4. Data' /\ UNCHANGED <<rec, open, db>>
  BY DEF StartCandle, TypeInv, Data, stored
<1>5. AtHand(h)'
  BY <1>1, <1>3, <1>4 DEF StartCandle, Candles, AtHand, HasRow, TypeInv, LoopLabels
<1>6. QED
  BY <1>3, <1>4, <1>5, JobOnly

LEMMA StartCommandType ==
  ASSUME TypeInv, NEW type \in Commands, StartCommand(type) PROVE TypeInv'
<1> DEFINE h == "commands"
           j(todo) == [job[h] EXCEPT !.at = "loop", !.todo = todo, !.does = type]
<1>1. PICK todo \in SUBSET open : job' = [job EXCEPT ![h] = j(todo)]
  <2>0. PICK todos : /\ todos \in {{open}, {{s} : s \in open}, {{}}}
                     /\ \E todo \in todos : job' = [job EXCEPT ![h] = j(todo)]
    <3>1. CASE type \in {"close_all", "kill"}
      <4>1. \E todo \in {open} : job' = [job EXCEPT ![h] = j(todo)]
        BY <3>1 DEF StartCommand
      <4> QED
        BY <4>1
    <3>2. CASE type = "close_position"
      <4>1. \E todo \in {{s} : s \in open} : job' = [job EXCEPT ![h] = j(todo)]
        BY ZenonT(60), <3>2 DEF StartCommand
      <4> QED
        BY <4>1
    <3>3. CASE type \notin {"close_all", "kill", "close_position"}
      <4>1. \E todo \in {{}} : job' = [job EXCEPT ![h] = j(todo)]
        BY <3>3 DEF StartCommand
      <4> QED
        BY <4>1
    <3> QED
      BY <3>1, <3>2, <3>3
  <2>1. PICK todo \in todos : job' = [job EXCEPT ![h] = j(todo)]
    BY <2>0
  <2>2. todo \in SUBSET open
    BY <2>0, <2>1
  <2> QED
    BY <2>1, <2>2
<1>2. h \in Handlers
  BY DEF Handlers
<1>3. j(todo) \in JobType /\ j(todo).at = "loop" /\ j(todo).todo = todo /\ j(todo).pos = job[h].pos
  BY ZenonT(60), <1>2 DEF TypeInv, Data, Jobs, JobType, Labels, LoopLabels
<1> HIDE DEF j
<1>4. job' \in Jobs /\ Others(h) /\ job'[h] = j(todo)
  BY <1>1, <1>2, <1>3, JobSet DEF TypeInv
<1>5. Data' /\ UNCHANGED <<rec, open, db>>
  BY DEF StartCommand, TypeInv, Data, stored
<1>6. AtHand(h)'
  BY <1>2, <1>3, <1>4, <1>5 DEF AtHand, HasRow, TypeInv, LoopLabels
<1>7. QED
  BY <1>2, <1>4, <1>5, <1>6, JobOnly

LEMMA SkipType ==
  ASSUME TypeInv, NEW h \in Handlers, NEW s \in Signals, Skip(h, s) PROVE TypeInv'
<1> DEFINE j == [job[h] EXCEPT !.todo = @ \ {s}]
<1>1. /\ j \in JobType /\ j.at = job[h].at /\ j.todo = job[h].todo \ {s}
      /\ j.pos = job[h].pos /\ j.cash = job[h].cash
  BY DEF TypeInv, Jobs, JobType
<1>2. job' = [job EXCEPT ![h] = j]
  BY DEF Skip
<1> HIDE DEF j
<1>3. job' \in Jobs /\ Others(h) /\ job'[h] = j
  BY <1>1, <1>2, JobSet DEF TypeInv
<1>4. Data' /\ UNCHANGED <<rec, open, db>>
  BY DEF Skip, TypeInv, Data, stored
<1>5. AtHand(h)'
  BY <1>1, <1>3, <1>4 DEF AtHand, HasRow, TypeInv
<1>6. QED
  BY <1>3, <1>4, <1>5, JobOnly

\* A handler that ends has nothing at hand any more.
LEMMA EndType ==
  ASSUME TypeInv, Data', NEW h \in Handlers, End(h), UNCHANGED <<rec, open, db>> PROVE TypeInv'
<1>1. job' \in Jobs /\ Others(h) /\ job'[h].at = "idle" /\ job'[h].pos = None /\ job'[h].todo = {}
  BY EndEffect DEF TypeInv
<1>2. AtHand(h)'
  BY <1>1, NoneAssumption DEF AtHand, SignalLabels, LoopLabels
<1>3. QED
  BY <1>1, <1>2, JobOnly

\* Where a loop may go without a further condition on what it has at hand.
Plain == LoopLabels \ {"fill", "fillUpdate", "accept", "protect", "candles", "selling"}

LEMMA LoopGotoType ==
  ASSUME TypeInv, NEW h \in Handlers \ {"signals"}, NEW label \in Plain, Data',
         job' \in Jobs, Others(h), job'[h].at = label, job'[h].pos \in {None, job[h].pos},
         job'[h].todo \subseteq job[h].todo, Keeps, \A s \in open' : HasRow(s)'
  PROVE  TypeInv'
<1>1. job[h] \in JobType /\ AtHand(h)
  BY DEF TypeInv, Jobs
<1>2. \A s \in job'[h].todo : HasRow(s)'
  BY <1>1 DEF AtHand, Keeps, JobType
<1>3. job'[h].pos \in Signals => HasRow(job[h].pos)'
  BY <1>1, NoneAssumption DEF AtHand, Keeps
<1>4. AtHand(h)'
  BY <1>2, <1>3 DEF AtHand, HasRow, Plain, LoopLabels
<1>5. QED
  BY <1>4, OneHandler

LEMMA KeepsUnchanged ==
  ASSUME TypeInv, UNCHANGED <<rec, open, db>> PROVE Keeps /\ \A s \in open' : HasRow(s)'
BY DEF Keeps, HasRow, TypeInv

LEMMA EndLoopType ==
  ASSUME TypeInv, NEW h \in Handlers, EndLoop(h) \/ (h = "commands" /\ SetPaused) PROVE TypeInv'
<1>1. Data' /\ UNCHANGED <<rec, open, db>>
  BY DEF EndLoop, SetPaused, TypeInv, Data, stored
<1>2. CASE End(h)
  BY <1>1, <1>2, EndType
<1>3. CASE EndLoop(h) /\ Goto(h, "flag")
  <2>1. h # "signals"
    BY <1>3 DEF EndLoop, At, TypeInv, AtHand, SignalLabels
  <2>2. QED
    BY <1>1, <1>3, <2>1, GotoEffect, LoopGotoType, KeepsUnchanged DEF TypeInv, Plain, Labels, LoopLabels
<1>4. QED
  BY <1>2, <1>3 DEF EndLoop, SetPaused

LEMMA FillPendingType ==
  ASSUME TypeInv, NEW h \in Handlers, NEW s \in Signals, FillPending(h, s) PROVE TypeInv'
<1>1. /\ job' \in Jobs /\ Others(h) /\ wallet' \in Wallets /\ job'[h].at = "fill" /\ job'[h].pos = s
      /\ job'[h].todo = job[h].todo /\ job'[h].cash \in Wallets
  BY BuyEffect DEF FillPending, TypeInv, Data, Labels, LoopLabels, Moved
<1>2. Data' /\ UNCHANGED <<rec, open, db>>
  BY <1>1 DEF FillPending, TypeInv, Data, stored
<1>3. AtHand(h)'
  BY <1>1, <1>2 DEF FillPending, Reaches, At, AtHand, HasRow, TypeInv, LoopLabels
<1>4. QED
  BY <1>1, <1>2, <1>3, JobOnly

LEMMA FillType ==
  ASSUME TypeInv, NEW h \in Handlers, NEW s \in Signals, Fill(h, s) PROVE TypeInv'
<1>1. h # "signals"
  BY DEF Fill, At, TypeInv, AtHand, SignalLabels
<1>2. QED
  BY <1>1, ActivateType DEF Fill, At, Pos

\* A statement writes the row of s and the handler goes on.
LEMMA RowType ==
  ASSUME TypeInv, NEW s \in Signals, NEW row \in Rows, db' = [db EXCEPT ![s] = row],
         HasRow(s) => row.state # "none", UNCHANGED <<rec, open>>
  PROVE  db' \in [Signals -> Rows] /\ Keeps /\ \A t \in open' : HasRow(t)'
BY DEF TypeInv, Data, Keeps, HasRow

LEMMA FillUpdateType ==
  ASSUME TypeInv, NEW h \in Handlers, NEW s \in Signals, FillUpdate(h, s) PROVE TypeInv'
<1>1. h # "signals" /\ job[h] \in JobType /\ job[h].pos = s /\ HasRow(s) /\ ~rec[s].pending
  BY DEF FillUpdate, At, Pos, TypeInv, AtHand, SignalLabels, Jobs
<1>2. Written(db[s], job[h].writes) \in Rows /\ Written(db[s], job[h].writes).state # "none"
  BY <1>1, WrittenType DEF TypeInv, Data, JobType
<1>3. db' \in [Signals -> Rows] /\ Keeps /\ \A t \in open' : HasRow(t)'
  BY <1>2, RowType DEF FillUpdate
<1>4. Data' /\ rec' = rec
  BY <1>3 DEF FillUpdate, TypeInv, Data
<1>5. /\ job' \in Jobs /\ Others(h) /\ job'[h].at = "accept" /\ job'[h].pos = s
      /\ job'[h].todo = job[h].todo
  BY <1>1, GotoEffect DEF FillUpdate, TypeInv, Labels, LoopLabels
<1>6. AtHand(h)'
  BY <1>1, <1>3, <1>4, <1>5 DEF AtHand, Keeps, HasRow, TypeInv, LoopLabels, JobType
<1>7. QED
  BY <1>3, <1>4, <1>5, <1>6, OneHandler

LEMMA CancelPendingType ==
  ASSUME TypeInv, NEW h \in Handlers, NEW s \in Signals, CancelPending(h, s) PROVE TypeInv'
<1>1. h # "signals" /\ HasRow(s)
  BY DEF CancelPending, Reaches, At, TypeInv, AtHand, SignalLabels
<1>2. /\ job' \in Jobs /\ Others(h) /\ job'[h].at = "cancel" /\ job'[h].pos = s
      /\ job'[h].todo = job[h].todo
  BY GotoForEffect DEF CancelPending, TypeInv, Labels, LoopLabels
<1>3. Data' /\ rec' = rec /\ db' = db /\ open' \subseteq open
  BY DEF CancelPending, TypeInv, Data, stored
<1>4. Keeps /\ \A t \in open' : HasRow(t)'
  BY <1>3 DEF Keeps, HasRow, TypeInv
<1>5. AtHand(h)'
  BY <1>1, <1>2, <1>3 DEF AtHand, HasRow, TypeInv, LoopLabels
<1>6. QED
  BY <1>2, <1>3, <1>4, <1>5, OneHandler

LEMMA CancelRowType ==
  ASSUME TypeInv, NEW h \in Handlers, NEW s \in Signals, CancelRow(h, s) PROVE TypeInv'
<1>1. h # "signals"
  BY DEF CancelRow, At, TypeInv, AtHand, SignalLabels
<1> DEFINE row == [db[s] EXCEPT !.state = "closed"]
<1>2. row \in Rows /\ row.state # "none"
  BY DEF TypeInv, Data, Rows
<1>3. db' = [db EXCEPT ![s] = row]
  BY DEF CancelRow
<1> HIDE DEF row
<1>4. db' \in [Signals -> Rows] /\ Keeps /\ \A t \in open' : HasRow(t)'
  BY <1>2, <1>3, RowType DEF CancelRow
<1>5. Data'
  BY <1>4 DEF CancelRow, TypeInv, Data
<1>6. QED
  BY <1>1, <1>4, <1>5, GotoEffect, LoopGotoType DEF CancelRow, TypeInv, Plain, Labels, LoopLabels

LEMMA CancelSignalType ==
  ASSUME TypeInv, NEW h \in Handlers, NEW s \in Signals, CancelSignal(h, s) PROVE TypeInv'
<1>1. h # "signals"
  BY DEF CancelSignal, At, TypeInv, AtHand, SignalLabels
<1>2. Data' /\ UNCHANGED <<rec, open, db>>
  BY DEF CancelSignal, TypeInv, Data, Journal
<1>3. CASE Continue(h)
  BY <1>1, <1>2, <1>3, ContinueEffect, LoopGotoType, KeepsUnchanged DEF TypeInv, Plain, LoopLabels
<1>4. CASE End(h)
  BY <1>2, <1>4, EndType
<1>5. QED
  BY <1>3, <1>4 DEF CancelSignal

\* settleExits(): whatever the policy made of the record of s, which has a row.
LEMMA SellType ==
  ASSUME TypeInv, NEW h \in Handlers \ {"signals"}, NEW s \in Signals, HasRow(s),
         NEW r \in Records, rec' = [rec EXCEPT ![s] = r], r.pending => rec[s].pending,
         NEW sells \in Seq(1 .. Units), Sell(h, s, sells),
         saved' \in Wallets, UNCHANGED <<open, db, journal, paused, stream, closed>>
  PROVE  TypeInv'
<1>1. /\ job' \in Jobs /\ Others(h) /\ wallet' \in Wallets
      /\ job'[h].at = "settled" \/ (job'[h].at = "selling" /\ job'[h].cash \in Wallets)
      /\ job'[h].pos = s /\ job'[h].todo = job[h].todo
  <2>1. CASE sells = <<>>
    BY <2>1, SellNothing DEF TypeInv, Data
  <2>2. CASE sells # <<>>
    BY <2>2, SellSome DEF TypeInv, Data, Moved
  <2>3. QED
    BY <2>1, <2>2
<1>2. Data'
  BY <1>1 DEF TypeInv, Data
<1>3. Keeps /\ \A t \in open' : HasRow(t)'
  BY DEF Keeps, HasRow, TypeInv, Data
<1>4. AtHand(h)'
  BY <1>1 DEF AtHand, HasRow, TypeInv, LoopLabels
<1>5. QED
  BY <1>1, <1>2, <1>3, <1>4, OneHandler

LEMMA SellsTypes ==
  ASSUME NEW r \in Records
  PROVE  /\ <<>> \in Seq(1 .. Units) /\ <<1>> \in Seq(1 .. Units)
         /\ <<1, Units - 1>> \in Seq(1 .. Units)
         /\ r.live => <<r.rem>> \in Seq(1 .. Units)
<1>1. r.live => r.rem \in 1 .. Units
  BY DEF Records, RecType, Units
<1>2. \A e \in 1 .. Units : <<e>> \in Seq(1 .. Units)
  OBVIOUS
<1>3. <<1, Units - 1>> \in Seq(1 .. Units) /\ 1 \in 1 .. Units
  BY DEF Units
<1>4. QED
  BY <1>1, <1>2, <1>3, EmptySeq

\* The record of a position that was closed.
LEMMA ClosedType ==
  ASSUME NEW r \in Records, ~r.pending
  PROVE  LET c == [r EXCEPT !.live = FALSE, !.rem = 0] IN c \in Records /\ c = NoRec
<1> DEFINE c == [r EXCEPT !.live = FALSE, !.rem = 0]
<1>1. r \in [pending : BOOLEAN, live : BOOLEAN, rem : 0 .. Units] /\ 0 \in 0 .. Units
  BY DEF Records, RecType, Units
<1>2. c \in [pending : BOOLEAN, live : BOOLEAN, rem : 0 .. Units]
  BY <1>1
<1>3. c.pending = FALSE /\ c.live = FALSE /\ c.rem = 0
  BY <1>1
<1> HIDE DEF c
<1>4. c = NoRec
  <2>1. c = [pending |-> c.pending, live |-> c.live, rem |-> c.rem]
    BY <1>2
  <2>2. QED
    BY <1>3, <2>1 DEF NoRec
<1>5. QED
  BY <1>4, RecordTypes DEF c

LEMMA CloseManualType ==
  ASSUME TypeInv, NEW h \in Handlers \ {"signals"}, NEW s \in Signals, HasRow(s), ~rec[s].pending,
         CloseManual(h, s), UNCHANGED <<open, stored, stream, closed>>
  PROVE  TypeInv'
<1> DEFINE r == [rec[s] EXCEPT !.live = FALSE, !.rem = 0]
           sells == IF rec[s].live THEN <<rec[s].rem>> ELSE <<>>
<1>1. r \in Records /\ ~r.pending /\ rec[s] \in Records
  BY ClosedType DEF TypeInv, Data, NoRec
<1>2. rec' = [rec EXCEPT ![s] = r] /\ Sell(h, s, sells)
  BY DEF CloseManual
<1>3. sells \in Seq(1 .. Units)
  BY <1>1, SellsTypes
<1> HIDE DEF r, sells
<1>4. QED
  BY <1>1, <1>2, <1>3, SellType DEF stored, TypeInv, Data

LEMMA InvalidateType ==
  ASSUME TypeInv, NEW h \in Handlers, NEW s \in Signals, Invalidate(h, s) PROVE TypeInv'
<1>1. h # "signals" /\ HasRow(s)
  BY DEF Invalidate, Reaches, At, TypeInv, AtHand, SignalLabels
<1>2. QED
  BY <1>1, CloseManualType DEF Invalidate

LEMMA ManualCloseType ==
  ASSUME TypeInv, NEW h \in Handlers, NEW s \in Signals, ManualClose(h, s) PROVE TypeInv'
<1>1. h # "signals" /\ HasRow(s) /\ ~rec[s].pending
  BY DEF ManualClose, At, Pos, TypeInv, AtHand, SignalLabels
<1>2. QED
  BY <1>1, CloseManualType DEF ManualClose

LEMMA LoadCandlesType ==
  ASSUME TypeInv, NEW h \in Handlers, NEW s \in Signals, LoadCandles(h, s) PROVE TypeInv'
<1>1. h # "signals" /\ HasRow(s) /\ ~rec[s].pending
  BY DEF LoadCandles, Reaches, At, TypeInv, AtHand, SignalLabels
<1>2. /\ job' \in Jobs /\ Others(h) /\ job'[h].at = "candles" /\ job'[h].pos = s
      /\ job'[h].todo = job[h].todo
  BY GotoForEffect DEF LoadCandles, TypeInv, Labels, LoopLabels
<1>3. Data' /\ UNCHANGED <<rec, open, db>>
  BY DEF LoadCandles, TypeInv, Data, stored
<1>4. AtHand(h)'
  BY <1>1, <1>2, <1>3 DEF AtHand, HasRow, TypeInv, LoopLabels
<1>5. QED
  BY <1>2, <1>3, <1>4, JobOnly

LEMMA StepPositionType ==
  ASSUME TypeInv, NEW h \in Handlers, NEW s \in Signals, StepPosition(h, s) PROVE TypeInv'
<1>1. h # "signals" /\ HasRow(s) /\ ~rec[s].pending
  BY DEF StepPosition, At, Pos, TypeInv, AtHand, SignalLabels
<1>2. rec[s] \in Records /\ rec \in [Signals -> Records]
  BY DEF TypeInv, Data
<1>3. UNCHANGED <<open, stored, stream, closed>>
  BY DEF StepPosition
<1>4. CASE Sell(h, s, <<>>) /\ UNCHANGED rec
  <2>1. rec' = [rec EXCEPT ![s] = rec[s]]
    BY <1>2, <1>4
  <2>2. QED
    BY <1>1, <1>2, <1>3, <1>4, <2>1, SellType, SellsTypes DEF stored, TypeInv, Data
<1>5. CASE rec[s].live /\ rec[s].rem = Units /\ rec' = [rec EXCEPT ![s].rem = Units - 1] /\ Sell(h, s, <<1>>)
  <2> DEFINE r == [rec[s] EXCEPT !.rem = Units - 1]
  <2>1. r \in Records /\ ~r.pending
    BY <1>1, <1>2, <1>5 DEF Records, RecType, Units
  <2>2. rec' = [rec EXCEPT ![s] = r]
    BY <1>5
  <2> HIDE DEF r
  <2>3. QED
    BY <1>1, <1>2, <1>3, <1>5, <2>1, <2>2, SellType, SellsTypes DEF stored, TypeInv, Data
<1>6. ASSUME rec[s].live, rec' = [rec EXCEPT ![s].live = FALSE, ![s].rem = 0],
             NEW sells \in {<<rec[s].rem>>, <<1, Units - 1>>}, Sell(h, s, sells)
      PROVE  TypeInv'
  <2> DEFINE r == [rec[s] EXCEPT !.live = FALSE, !.rem = 0]
  <2>1. r \in Records /\ ~r.pending
    BY <1>1, <1>2, ClosedType DEF NoRec
  <2>2. rec' = [rec EXCEPT ![s] = r]
    BY <1>6
  <2> HIDE DEF r
  <2>3. sells \in Seq(1 .. Units)
    BY <1>2, <1>6, SellsTypes
  <2>4. QED
    BY <1>1, <1>3, <1>6, <2>1, <2>2, <2>3, SellType DEF stored, TypeInv, Data
<1>7. QED
  BY <1>4, <1>5, <1>6 DEF StepPosition

LEMMA SoldType ==
  ASSUME TypeInv, NEW h \in Handlers, NEW s \in Signals, Sold(h, s) PROVE TypeInv'
<1>1. /\ h # "signals" /\ HasRow(s) /\ job[h].cash \in Wallets /\ job[h].sells \in Seq(1 .. Units)
      /\ rec \in [Signals -> Records]
  BY DEF Sold, At, Pos, TypeInv, Data, AtHand, SignalLabels, Jobs, JobType
<1>2. saved' \in Wallets
  BY <1>1 DEF Sold, TypeInv, Data
<1>3. rec' = [rec EXCEPT ![s] = rec[s]] /\ rec[s] \in Records
  BY <1>1 DEF Sold
<1>4. QED
  BY <1>1, <1>2, <1>3, SellType DEF Sold

LEMMA SettledType ==
  ASSUME TypeInv, NEW h \in Handlers, NEW s \in Signals, Settled(h, s) PROVE TypeInv'
<1>1. h # "signals" /\ rec[s] \in Records
  BY DEF Settled, At, TypeInv, Data, AtHand, SignalLabels
<1>2. Data' /\ UNCHANGED <<rec, open, db>>
  BY DEF Settled, TypeInv, Data, stored
<1>3. QED
  BY <1>1, <1>2, WriteEffect, LoopGotoType, KeepsUnchanged DEF Settled, TypeInv, Plain, Labels, LoopLabels

LEMMA UpdateType ==
  ASSUME TypeInv, NEW h \in Handlers, NEW s \in Signals, Update(h, s) \/ CloseRow(h, s) PROVE TypeInv'
<1>1. h # "signals" /\ job[h] \in JobType
  BY DEF Update, CloseRow, At, TypeInv, AtHand, SignalLabels, Jobs
<1>2. Written(db[s], job[h].writes) \in Rows /\ Written(db[s], job[h].writes).state # "none"
  BY <1>1, WrittenType DEF TypeInv, Data, JobType
<1>3. db' \in [Signals -> Rows] /\ Keeps /\ \A t \in open' : HasRow(t)'
  BY <1>2, RowType DEF Update, CloseRow
<1>4. Data'
  BY <1>3 DEF Update, CloseRow, TypeInv, Data
<1>5. CASE Update(h, s)
  BY <1>1, <1>3, <1>4, <1>5, ContinueEffect, LoopGotoType DEF Update, TypeInv, Plain, LoopLabels
<1>6. CASE CloseRow(h, s)
  BY <1>1, <1>3, <1>4, <1>6, GotoEffect, LoopGotoType DEF CloseRow, TypeInv, Plain, Labels, LoopLabels
<1>7. QED
  BY <1>5, <1>6

LEMMA CloseOutcomeType ==
  ASSUME TypeInv, NEW h \in Handlers, NEW s \in Signals, CloseOutcome(h, s) PROVE TypeInv'
<1>1. h # "signals"
  BY DEF CloseOutcome, At, TypeInv, AtHand, SignalLabels
<1> DEFINE row == [db[s] EXCEPT !.outcome = TRUE]
<1>2. row \in Rows /\ row.state = db[s].state
  BY DEF TypeInv, Data, Rows
<1>3. db' = [db EXCEPT ![s] = row]
  BY DEF CloseOutcome
<1> HIDE DEF row
<1>4. db' \in [Signals -> Rows] /\ Keeps /\ \A t \in open' : HasRow(t)'
  BY <1>2, <1>3, RowType DEF CloseOutcome, HasRow
<1>5. Data'
  BY <1>4 DEF CloseOutcome, TypeInv, Data
<1>6. QED
  BY <1>1, <1>4, <1>5, GotoEffect, LoopGotoType DEF CloseOutcome, TypeInv, Plain, Labels, LoopLabels

LEMMA CloseSignalType ==
  ASSUME TypeInv, NEW h \in Handlers, NEW s \in Signals, CloseSignal(h, s) \/ EmitClosed(h, s) PROVE TypeInv'
<1>1. h # "signals"
  BY DEF CloseSignal, EmitClosed, At, TypeInv, AtHand, SignalLabels
<1>2. Data' /\ UNCHANGED <<rec, open, db>>
  BY DEF CloseSignal, EmitClosed, TypeInv, Data, Journal, stored
<1>3. CASE CloseSignal(h, s)
  BY <1>1, <1>2, <1>3, GotoEffect, LoopGotoType, KeepsUnchanged
     DEF CloseSignal, TypeInv, Plain, Labels, LoopLabels
<1>4. CASE EmitClosed(h, s)
  BY <1>1, <1>2, <1>4, ContinueEffect, LoopGotoType, KeepsUnchanged DEF EmitClosed, TypeInv, Plain, LoopLabels
<1>5. QED
  BY <1>3, <1>4

LEMMA ReleaseType ==
  ASSUME TypeInv, NEW h \in Handlers, NEW s \in Signals, Release(h, s) PROVE TypeInv'
<1>1. h # "signals"
  BY DEF Release, At, TypeInv, AtHand, SignalLabels
<1>2. Data' /\ rec' = rec /\ db' = db /\ open' \subseteq open
  BY DEF Release, TypeInv, Data, stored
<1>3. Keeps /\ \A t \in open' : HasRow(t)'
  BY <1>2 DEF Keeps, HasRow, TypeInv
<1>4. QED
  BY <1>1, <1>2, <1>3, GotoEffect, LoopGotoType DEF Release, TypeInv, Plain, Labels, LoopLabels

LEMMA MarkAcceptedType ==
  ASSUME TypeInv, NEW h \in Handlers, MarkAccepted(h) PROVE TypeInv'
<1>1. /\ job' \in Jobs /\ Others(h) /\ job'[h].at = "protect" /\ job'[h].pos = job[h].pos
      /\ job'[h].todo = job[h].todo
  BY GotoEffect DEF MarkAccepted, TypeInv, Labels, LoopLabels
<1>2. Data' /\ UNCHANGED <<rec, open, db>>
  BY DEF MarkAccepted, TypeInv, Data, Journal
<1>3. AtHand(h)'
  BY <1>1, <1>2 DEF MarkAccepted, At, AtHand, HasRow, TypeInv, SignalLabels, LoopLabels
<1>4. QED
  BY <1>1, <1>2, <1>3, JobOnly

LEMMA ProtectedType ==
  ASSUME TypeInv, NEW h \in Handlers, Protected(h) PROVE TypeInv'
<1>1. /\ job' \in Jobs /\ Others(h) /\ job'[h].pos = job[h].pos /\ job'[h].todo = job[h].todo
      /\ job'[h].at = IF h = "signals" THEN "ack" ELSE "candles"
  BY GotoEffect DEF Protected, TypeInv, Labels, SignalLabels, LoopLabels
<1>2. job[h].pos \in Signals /\ HasRow(job[h].pos)
  BY DEF Protected, At, TypeInv, AtHand
<1>3. Data' /\ rec' = rec /\ db' = db /\ open' = open \cup {job[h].pos}
  BY <1>2 DEF Protected, Pos, TypeInv, Data, stored
<1>4. Keeps /\ \A t \in open' : HasRow(t)'
  BY <1>2, <1>3 DEF Keeps, HasRow, TypeInv
<1>5. AtHand(h)'
  BY <1>1, <1>3 DEF Protected, At, AtHand, HasRow, TypeInv, SignalLabels, LoopLabels
<1>6. QED
  BY <1>1, <1>3, <1>4, <1>5, OneHandler

LEMMA LoopType == ASSUME TypeInv, NEW h \in Handlers, PositionStep(h) PROVE TypeInv'
BY MarkAcceptedType, ProtectedType, EndLoopType, SkipType, FillPendingType, FillType, FillUpdateType,
   CancelPendingType, CancelRowType, CancelSignalType, InvalidateType, LoadCandlesType,
   StepPositionType, ManualCloseType, SoldType, SettledType, UpdateType, CloseOutcomeType,
   CloseSignalType, ReleaseType
   DEF PositionStep

-----------------------------------------------------------------------------
(* Disturbances, and the theorem *)

LEMMA FailType == ASSUME TypeInv, NEW h \in Handlers, Fail(h) PROVE TypeInv'
<1>1. Data' /\ UNCHANGED <<rec, open, db>> /\ End(h)
  BY DEF Fail, TypeInv, Data, stored
<1>2. QED
  BY <1>1, EndType

LEMMA CrashType == ASSUME TypeInv, Crash PROVE TypeInv'
<1>1. db' = db /\ \A s \in Signals : db[s] \in Rows
  BY DEF Crash, stored, TypeInv, Data
<1>2. \A s \in Signals : s \in open' => HasRow(s)' /\ Restored(db[s]) \in Records
  BY <1>1 DEF Crash, HasRow, Restored, Records, RecType, Rows, Units
<1>3. job' \in Jobs /\ \A h \in Handlers : job'[h] = Idle
  BY RecordTypes DEF Crash, Jobs
<1>4. rec' \in [Signals -> Records] /\ open' \subseteq Signals
  BY <1>2, RecordTypes DEF Crash
<1>5. stream' \in [Signals -> {"new", "unacked", "acked", "lost"}]
  BY DEF Crash, TypeInv, Data
<1>6. Data'
  BY <1>4, <1>5 DEF Crash, TypeInv, Data, stored
<1>7. \A h \in Handlers : AtHand(h)'
  BY <1>3, NoneAssumption DEF AtHand, Idle, SignalLabels, LoopLabels
<1>8. QED
  BY <1>2, <1>3, <1>4, <1>6, <1>7 DEF TypeInv

LEMMA TypeInit == Init => TypeInv
<1> SUFFICES ASSUME Init PROVE TypeInv
  OBVIOUS
<1>1. Data
  <2>1. NoRow \in Rows
    BY DEF NoRow, Row, Rows, Units
  <2>2. wallet \in Wallets /\ journal \in [Signals -> Journal]
    BY DEF Init, Wallets, Journal
  <2>3. QED
    BY RecordTypes, <2>1, <2>2 DEF Init, Data
<1>2. job \in Jobs /\ \A h \in Handlers : job[h] = Idle
  BY RecordTypes DEF Init, Jobs
<1>3. \A h \in Handlers : AtHand(h)
  BY <1>2, NoneAssumption DEF AtHand, Idle, SignalLabels, LoopLabels
<1>4. QED
  BY <1>1, <1>2, <1>3 DEF TypeInv, Init

LEMMA TypeStep == TypeInv /\ [Next]_vars => TypeInv'
<1> SUFFICES ASSUME TypeInv, [Next]_vars PROVE TypeInv'
  OBVIOUS
<1>1. CASE UNCHANGED vars
  BY <1>1 DEF vars, stored, TypeInv, Data, Jobs, AtHand, HasRow
<1>2. CASE Next
  <2>1. ASSUME NEW h \in Handlers, Step(h) PROVE TypeInv'
    BY <2>1, SignalType, LoopType, EndLoopType DEF Step
  <2>2. QED
    BY <1>2, <2>1, TakeSignalType, StartCandleType, FailType, StartCommandType, CrashType DEF Next
<1>3. QED
  BY <1>1, <1>2

\* The invariant behind the shapes: no record becomes pending under a handler.
THEOREM TypeInvariance == Spec => []TypeInv
BY TypeInit, TypeStep, PTL DEF Spec

\* manager.ts, store.ts: records, rows and jobs keep their shapes under every
\* interleaving of the handlers, failing call and crash.
THEOREM TypeCorrect == Spec => []TypeOK
<1>1. TypeInv => TypeOK
  BY DEF TypeInv, Data, Jobs, JobType, TypeOK, Records, Rows, Wallets, Journal
<1>2. QED
  BY <1>1, TypeInvariance, PTL

-----------------------------------------------------------------------------
(* What the manager promises when the loops over the positions run one     *)
(* after the other and no call fails:  books that balance, rows a restart  *)
(* can trust, true outcomes, a limit that holds.  For every set of signals *)
(* and commands, with signals arriving under way and with crashes.         *)

\* Only the signal consumer overlaps with the other handlers.
Serial == Overlap \subseteq {{"signals", h} : h \in Handlers}

NoFaults == MaxFaults = 0

-----------------------------------------------------------------------------
(* The life of one position, as its record, its row, the wallet and the    *)
(* journal tell it together.  A crash voids what is said of the wallet and *)
(* the journal.                                                            *)

Is(s, managed, state, r, bought, sold, outcomes) ==
  /\ s \in open <=> managed
  /\ db[s].state = state
  /\ rec[s] = r
  /\ FirstLife => /\ wallet[s].bought = bought
                  /\ wallet[s].sold = sold
                  /\ journal[s].outcome \in outcomes

Holding(n) == [pending |-> FALSE, live |-> TRUE, rem |-> n]

Fresh(s)    == Is(s, FALSE, "none", NoRec, 0, 0, {"none", "rejected"})
Waiting(s)  == Is(s, TRUE, "pending", Pending, 0, 0, {"none"})
Bought(s)   == Is(s, TRUE, "pending", Pending, Units, 0, {"none"})
Unsaved(s)  == Is(s, TRUE, "pending", Filled, Units, 0, {"none"})
Owned(s)    == Is(s, TRUE, "open", Holding(db[s].rem), Units, Units - db[s].rem, {"none"})
Settling(s, due) ==
  /\ ~rec[s].pending
  /\ rec[s].rem + due <= db[s].rem
  /\ Is(s, TRUE, "open", rec[s], Units, Units - (rec[s].rem + due), {"none"})
Exited(s, managed, outcomes) ==
  closed[s] = 0 /\ Is(s, managed, "closed", NoRec, Units, Units, outcomes)
Cancelling(s, state) == Is(s, FALSE, state, Pending, 0, 0, {"none"})
Over(s) == \/ Is(s, FALSE, "closed", NoRec, Units, Units, {"final"})
           \/ Is(s, FALSE, "closed", Pending, 0, 0, {"rejected"})

\* Where a position may be while no handler is at work on it.
Rest(s) == Fresh(s) \/ Waiting(s) \/ Owned(s) \/ Over(s)

\* What the row alone says of the events, in every life of the engine.
Rowed(s) ==
  /\ closed[s] <= 1
  /\ db[s].state # "closed" => closed[s] = 0
  /\ db[s].state = "pending" => db[s].rem = Units

\* Position s in the hands of loop h, by where the loop is.
InLoop(h, s) ==
  LET at == job[h].at IN
  /\ at = "fill" => Bought(s)
  /\ at = "fillUpdate" => Unsaved(s) /\ job[h].writes = Filled
  /\ at \in {"accept", "protect", "candles"} => Owned(s)
  /\ at = "cancel" => Cancelling(s, "pending")
  /\ at = "cancelSignal" => Cancelling(s, "closed")
  /\ at = "selling" => \/ job[h].sells = <<>> /\ Settling(s, 0)
                       \/ job[h].sells = <<1>> /\ Settling(s, 1)
  /\ at = "settled" => Settling(s, 0)
  /\ at = "update" => Settling(s, 0) /\ job[h].writes = rec[s] /\ rec[s].live
  /\ at = "close" => Settling(s, 0) /\ job[h].writes = rec[s] /\ ~rec[s].live
  /\ at \in {"closeOutcome", "closeSignal"} => Exited(s, TRUE, {"none"})
  /\ at = "release" => Exited(s, TRUE, {"final"})
  /\ at = "emit" => Exited(s, FALSE, {"final"})

LoopAt(h) ==
  /\ job[h].at \in {"idle", "loop", "flag"} <=> job[h].pos = None
  /\ job[h].at = "idle" => job[h].does = "none"
  /\ \A s \in Signals : job[h].pos = s => InLoop(h, s)

\* The rest of its snapshot is still managed.
Snapshot(h) == job[h].at # "idle" => job[h].todo \ {job[h].pos} \subseteq open

Entering == {"openLong", "insert", "accept", "protect"}

\* Signal s in the hands of the consumer.
InConsumer(s) ==
  LET at == job["signals"].at  writes == job["signals"].writes IN
  /\ at = "openLong" => ~NextOpen /\ Is(s, FALSE, "none", Pending, Units, 0, {"none"})
  /\ at = "insert" =>
       IF NextOpen THEN Is(s, FALSE, "none", Pending, 0, 0, {"none"}) /\ writes = Pending
                   ELSE Is(s, FALSE, "none", Filled, Units, 0, {"none"}) /\ writes = Filled
  /\ at \in {"accept", "protect"} =>
       Is(s, FALSE, "open", Filled, Units, 0, {"none"}) /\ db[s].rem = Units
  /\ FirstLife /\ at \in {"flags", "history", "exists", "reject"} =>
       Fresh(s) /\ journal[s].outcome = "none"

SignalAt ==
  /\ job["signals"].at = "idle" <=> job["signals"].pos = None
  /\ \A s \in Signals : job["signals"].pos = s => InConsumer(s)

\* Before the first crash a signal is read once.
Streamed(s) ==
  /\ FirstLife /\ stream[s] = "new" => Fresh(s) /\ journal[s].outcome = "none"
  /\ FirstLife => (stream[s] = "unacked" <=> job["signals"].pos = s)

Enters(s)  == job["signals"].pos = s /\ job["signals"].at \in Entering
Handled(s) == Enters(s) \/ \E h \in Loops : job[h].pos = s

Budget == budget \in [commands : Nat, faults : {0}, crashes : 0 .. MaxCrashes]

BooksInv ==
  /\ Budget
  /\ \A h, i \in Loops : Busy(h) /\ Busy(i) => h = i
  /\ \A h \in Loops : LoopAt(h) /\ Snapshot(h)
  /\ SignalAt
  /\ \A s \in Signals : Streamed(s) /\ Rowed(s) /\ (Handled(s) \/ Rest(s))

-----------------------------------------------------------------------------
(* A step of one handler leaves everything else as it was *)

Same(s) ==
  /\ rec'[s] = rec[s] /\ (s \in open' <=> s \in open) /\ db'[s] = db[s] /\ closed'[s] = closed[s]
  /\ FirstLife => wallet'[s] = wallet[s] /\ journal'[s].outcome = journal[s].outcome

\* No crash, and no change of mode.
Calm == (FirstLife' <=> FirstLife) /\ (NextOpen' <=> NextOpen) /\ (Budget => Budget')

LEMMA CalmStep == ASSUME UNCHANGED <<budget, mode>> PROVE Calm
BY DEF Calm, FirstLife, NextOpen, Budget

LEMMA SameShapes ==
  ASSUME NEW s, Same(s), Calm
  PROVE  /\ Fresh(s) => Fresh(s)'
         /\ Waiting(s) => Waiting(s)'
         /\ Bought(s) => Bought(s)'
         /\ Unsaved(s) => Unsaved(s)'
         /\ Owned(s) => Owned(s)'
         /\ \A due : Settling(s, due) => Settling(s, due)'
         /\ \A m, o : Exited(s, m, o) => Exited(s, m, o)'
         /\ \A st : Cancelling(s, st) => Cancelling(s, st)'
         /\ Over(s) => Over(s)'
         /\ Rowed(s) => Rowed(s)'
<1>1. FirstLife' <=> FirstLife
  BY DEF Calm
<1>2. \A m, st, r, b, d, o : Is(s, m, st, r, b, d, o) => Is(s, m, st, r, b, d, o)'
  BY <1>1 DEF Is, Same
<1>3. db'[s] = db[s] /\ rec'[s] = rec[s] /\ closed'[s] = closed[s]
  BY DEF Same
<1>4. Fresh(s) => Fresh(s)'
  BY <1>2 DEF Fresh
<1>5. Waiting(s) => Waiting(s)'
  BY <1>2 DEF Waiting
<1>6. Bought(s) => Bought(s)'
  BY <1>2 DEF Bought
<1>7. Unsaved(s) => Unsaved(s)'
  BY <1>2 DEF Unsaved
<1>8. Owned(s) => Owned(s)'
  BY <1>2, <1>3 DEF Owned, Holding
<1>9. \A due : Settling(s, due) => Settling(s, due)'
  BY <1>2, <1>3 DEF Settling
<1>10. \A m, o : Exited(s, m, o) => Exited(s, m, o)'
  BY <1>2, <1>3 DEF Exited
<1>11. \A st : Cancelling(s, st) => Cancelling(s, st)'
  BY <1>2 DEF Cancelling
<1>12. Over(s) => Over(s)'
  BY <1>2 DEF Over
<1>13. Rowed(s) => Rowed(s)'
  BY <1>3 DEF Rowed
<1>14. QED
  BY <1>4, <1>5, <1>6, <1>7, <1>8, <1>9, <1>10, <1>11, <1>12, <1>13

LEMMA SameRest == ASSUME NEW s, Same(s), Calm, Rest(s) PROVE Rest(s)'
BY SameShapes DEF Rest

\* A loop whose job did not change, nor the position it works on.
LEMMA SameLoop ==
  ASSUME NEW h \in Loops, job'[h] = job[h], Calm, LoopAt(h),
         \A s \in Signals : job[h].pos = s => Same(s)
  PROVE  LoopAt(h)'
<1>1. SUFFICES ASSUME NEW s \in Signals, job'[h].pos = s PROVE InLoop(h, s)'
  BY DEF LoopAt
<1>2. Same(s) /\ rec'[s] = rec[s] /\ InLoop(h, s)
  BY <1>1 DEF Same, LoopAt
<1>3. /\ Bought(s) => Bought(s)'
      /\ Unsaved(s) => Unsaved(s)'
      /\ Owned(s) => Owned(s)'
      /\ Settling(s, 0) => Settling(s, 0)'
      /\ Settling(s, 1) => Settling(s, 1)'
      /\ Exited(s, TRUE, {"none"}) => Exited(s, TRUE, {"none"})'
      /\ Exited(s, TRUE, {"final"}) => Exited(s, TRUE, {"final"})'
      /\ Exited(s, FALSE, {"final"}) => Exited(s, FALSE, {"final"})'
      /\ Cancelling(s, "pending") => Cancelling(s, "pending")'
      /\ Cancelling(s, "closed") => Cancelling(s, "closed")'
  BY <1>2, SameShapes
<1>4. QED
  <2>1. job'[h].at = job[h].at /\ job'[h].sells = job[h].sells /\ job'[h].writes = job[h].writes
    OBVIOUS
  <2>2. Filled' = Filled
    BY DEF Filled
  <2>3. QED
    BY ZenonT(60), <1>2, <1>3, <2>1, <2>2 DEF InLoop

\* The consumer, when neither its job nor its signal changed.
LEMMA SameConsumer ==
  ASSUME job'["signals"] = job["signals"], Calm, SignalAt,
         \A s \in Signals : job["signals"].pos = s => Same(s)
  PROVE  SignalAt'
<1>1. SUFFICES ASSUME NEW s \in Signals, job'["signals"].pos = s PROVE InConsumer(s)'
  BY DEF SignalAt
<1>2. /\ InConsumer(s) /\ Same(s) /\ db'[s] = db[s]
      /\ (FirstLife' <=> FirstLife) /\ (NextOpen' <=> NextOpen)
  BY <1>1 DEF Same, SignalAt, Calm
<1>3. \A m, st, r, b, d, o : Is(s, m, st, r, b, d, o) => Is(s, m, st, r, b, d, o)'
  BY <1>2 DEF Is, Same
<1>4. Fresh(s) => Fresh(s)'
  BY <1>3 DEF Fresh
<1>5. FirstLife => journal'[s].outcome = journal[s].outcome
  BY <1>2 DEF Same
<1>6. QED
  BY <1>2, <1>3, <1>4, <1>5 DEF InConsumer

\* The signal or position in hand is not in two hands.
LEMMA InHand ==
  ASSUME TypeInv, BooksInv, NEW h \in Loops, NEW s \in Signals, job[h].pos = s
  PROVE  /\ HasRow(s) /\ ~Enters(s) /\ ~Fresh(s) /\ InLoop(h, s)
         /\ \A i \in Loops \ {h} : job[i].at = "idle" /\ job[i].pos = None
         /\ stream[s] # "new" \/ ~FirstLife
<1>1. HasRow(s) /\ InLoop(h, s) /\ job[h].at \notin {"idle", "loop", "flag"} /\ job[h].at \in LoopLabels
  BY NoneAssumption DEF TypeInv, AtHand, BooksInv, LoopAt, Loops
<1>2. \A i \in Loops \ {h} : job[i].at = "idle" /\ job[i].pos = None
  BY <1>1 DEF BooksInv, Busy, LoopAt
<1>3. ~Fresh(s)
  BY <1>1 DEF HasRow, Fresh, Is
<1>4. stream[s] # "new" \/ ~FirstLife
  BY <1>3 DEF BooksInv, Streamed
<1>5. ~Enters(s)
  <2>1. SUFFICES ASSUME Enters(s) PROVE FALSE
    OBVIOUS
  <2>2. InConsumer(s)
    BY <2>1 DEF Enters, BooksInv, SignalAt
  <2>3. CASE job["signals"].at \in {"openLong", "insert"}
    BY <1>1, <2>2, <2>3 DEF InConsumer, HasRow, Is
  <2>4. CASE job["signals"].at \in {"accept", "protect"}
    <3>1. s \notin open /\ db[s].state = "open"
      BY <2>2, <2>4 DEF InConsumer, Is
    <3>2. QED
      BY <1>1, <3>1 DEF InLoop, LoopLabels, Bought, Unsaved, Owned, Cancelling, Settling, Exited, Is
  <2>5. QED
    BY <2>1, <2>3, <2>4 DEF Enters, Entering
<1>6. QED
  BY <1>1, <1>2, <1>3, <1>4, <1>5

\* A loop that reaches s finds it waiting for its fill, or owned.
LEMMA Reached ==
  ASSUME TypeInv, BooksInv, NEW h \in Loops, NEW s \in Signals, Reaches(h, s)
  PROVE  /\ HasRow(s) /\ s \in open /\ ~Enters(s) /\ ~Fresh(s)
         /\ Waiting(s) \/ Owned(s)
         /\ \A i \in Loops \ {h} : job[i].at = "idle" /\ job[i].pos = None
         /\ job[h].pos = None
         /\ stream[s] # "new" \/ ~FirstLife
<1>1. /\ job[h].at = "loop" /\ s \in job[h].todo /\ job[h].pos = None /\ s # None
  BY NoneAssumption DEF Reaches, At, BooksInv, LoopAt
<1>2. s \in open /\ HasRow(s)
  BY <1>1 DEF BooksInv, Snapshot, TypeInv
<1>3. \A i \in Loops \ {h} : job[i].at = "idle" /\ job[i].pos = None
  BY <1>1 DEF BooksInv, Busy, LoopAt
<1>4. ~Enters(s)
  <2>1. SUFFICES ASSUME Enters(s) PROVE FALSE
    OBVIOUS
  <2>2. InConsumer(s)
    BY <2>1 DEF Enters, BooksInv, SignalAt
  <2>3. QED
    BY <1>2, <2>1, <2>2 DEF InConsumer, Enters, Entering, Is
<1>5. Rest(s)
  BY <1>1, <1>3, <1>4 DEF BooksInv, Handled
<1>6. Waiting(s) \/ Owned(s)
  BY <1>2, <1>5 DEF Rest, Fresh, Over, Is
<1>7. ~Fresh(s)
  BY <1>2 DEF Fresh, Is
<1>8. stream[s] # "new" \/ ~FirstLife
  BY <1>7 DEF BooksInv, Streamed
<1>9. QED
  BY <1>1, <1>2, <1>3, <1>4, <1>6, <1>7, <1>8

\* A step of loop h that touches position s only, which it had or reached.
LEMMA LoopFrame ==
  ASSUME TypeInv, BooksInv, NEW h \in Loops, NEW s \in Signals,
         job[h].pos = s \/ Reaches(h, s),
         Calm, UNCHANGED stream, Others(h), \A t \in Signals \ {s} : Same(t),
         job'[h].pos \in {s, None}, job'[h].at = "idle" => job'[h].does = "none",
         job'[h].at \in {"idle", "loop", "flag"} <=> job'[h].pos = None,
         job'[h].at # "idle" => job'[h].todo \ {job'[h].pos} \subseteq job[h].todo \ {s},
         job'[h].pos = s => InLoop(h, s)',
         job'[h].pos = None => Rest(s)',
         Rowed(s)'
  PROVE  BooksInv'
<1>1. /\ HasRow(s) /\ ~Enters(s) /\ ~Fresh(s)
      /\ \A i \in Loops \ {h} : job[i].at = "idle" /\ job[i].pos = None
      /\ job[h].pos \in {s, None} /\ job[h].at # "idle"
      /\ stream[s] # "new" \/ ~FirstLife
  BY InHand, Reached, NoneAssumption DEF BooksInv, LoopAt, Reaches, At
<1>2. /\ (FirstLife' <=> FirstLife) /\ Budget'
      /\ job'["signals"] = job["signals"] /\ \A i \in Loops \ {h} : job'[i] = job[i]
  BY DEF Calm, BooksInv, Others, Loops, Handlers
<1>3. \A i, k \in Loops : Busy(i)' /\ Busy(k)' => i = k
  BY <1>1, <1>2 DEF Busy
<1>4. LoopAt(h)'
  BY NoneAssumption DEF LoopAt
<1>5. ASSUME NEW i \in Loops \ {h} PROVE LoopAt(i)' /\ Snapshot(i)'
  BY <1>1, <1>2, NoneAssumption DEF LoopAt, Snapshot, BooksInv
<1>6. Snapshot(h)'
  <2>1. job[h].todo \ {s} \subseteq open /\ job[h].todo \subseteq Signals
    BY <1>1, NoneAssumption DEF BooksInv, Snapshot, TypeInv, Jobs, JobType, Loops
  <2>2. \A t \in Signals \ {s} : t \in open => t \in open'
    BY DEF Same
  <2>3. QED
    BY <2>1, <2>2 DEF Snapshot
<1>7. SignalAt'
  <2>1. CASE job["signals"].pos # s
    BY <1>2, <2>1, SameConsumer DEF BooksInv
  <2>2. CASE job["signals"].pos = s
    <3>1. ~(job["signals"].at \in Entering) /\ (~FirstLife \/ job["signals"].at \notin {"flags", "history", "exists", "reject"})
      BY <1>1, <2>2 DEF Enters, BooksInv, SignalAt, InConsumer
    <3>2. QED
      BY <1>2, <2>2, <3>1, NoneAssumption DEF BooksInv, SignalAt, InConsumer, Entering
  <2>3. QED
    BY <2>1, <2>2
<1>8. ASSUME NEW t \in Signals \ {s} PROVE Streamed(t)' /\ Rowed(t)' /\ (Handled(t)' \/ Rest(t)')
  <2>1. Same(t) /\ Streamed(t) /\ Rowed(t) /\ (Handled(t) \/ Rest(t))
    BY DEF BooksInv
  <2>2. Rowed(t)' /\ (Rest(t) => Rest(t)') /\ (Fresh(t) => Fresh(t)')
    BY <2>1, SameShapes, SameRest
  <2>3. Streamed(t)'
    BY <1>2, <2>1, <2>2 DEF Streamed, Same
  <2>4. Handled(t) => Handled(t)'
    BY <1>1, <1>2, NoneAssumption DEF Handled, Enters
  <2>5. QED
    BY <2>1, <2>2, <2>3, <2>4
<1>9. Streamed(s)' /\ (Handled(s)' \/ Rest(s)')
  <2>1. Streamed(s)'
    BY <1>1, <1>2 DEF BooksInv, Streamed
  <2>2. Handled(s)' \/ Rest(s)'
    BY DEF Handled
  <2>3. QED
    BY <2>1, <2>2
<1>10. QED
  BY <1>2, <1>3, <1>4, <1>5, <1>6, <1>7, <1>8, <1>9 DEF BooksInv

\* A step of the consumer about signal s, which no loop has in hand if it changes.
LEMMA ConsumerFrame ==
  ASSUME TypeInv, BooksInv, NEW s \in Signals, job["signals"].pos \in {s, None},
         Calm, Others("signals"), \A t \in Signals \ {s} : Same(t) /\ stream'[t] = stream[t],
         Same(s) \/ \A h \in Loops : job[h].pos # s,
         s \in open => s \in open',
         job'["signals"].pos \in {s, None},
         job'["signals"].at = "idle" <=> job'["signals"].pos = None,
         job'["signals"].pos = s => InConsumer(s)',
         Streamed(s)', Rowed(s)', Handled(s)' \/ Rest(s)'
  PROVE  BooksInv'
<1>1. /\ (FirstLife' <=> FirstLife) /\ Budget' /\ \A h \in Loops : job'[h] = job[h]
  BY DEF Calm, BooksInv, Others, Loops, Handlers
<1>2. \A i, k \in Loops : Busy(i)' /\ Busy(k)' => i = k
  BY <1>1 DEF BooksInv, Busy
<1>3. ASSUME NEW h \in Loops PROVE LoopAt(h)' /\ Snapshot(h)'
  <2>1. LoopAt(h)'
    BY <1>1, SameLoop DEF BooksInv
  <2>2. \A t \in Signals : t \in open => t \in open'
    BY DEF Same
  <2>3. job[h].todo \subseteq Signals
    BY DEF TypeInv, Jobs, JobType, Loops
  <2>4. Snapshot(h)'
    BY <1>1, <2>2, <2>3 DEF BooksInv, Snapshot
  <2>5. QED
    BY <2>1, <2>4
<1>4. SignalAt'
  BY NoneAssumption DEF SignalAt
<1>5. ASSUME NEW t \in Signals \ {s} PROVE Streamed(t)' /\ Rowed(t)' /\ (Handled(t)' \/ Rest(t)')
  <2>1. Same(t) /\ Streamed(t) /\ Rowed(t) /\ (Handled(t) \/ Rest(t)) /\ stream'[t] = stream[t]
    BY DEF BooksInv
  <2>2. Rowed(t)' /\ (Rest(t) => Rest(t)') /\ (Fresh(t) => Fresh(t)')
    BY <2>1, SameShapes, SameRest
  <2>3. Streamed(t)'
    BY <1>1, <2>1, <2>2, NoneAssumption DEF Streamed, Same
  <2>4. Handled(t) => Handled(t)'
    BY <1>1, NoneAssumption DEF Handled, Enters
  <2>5. QED
    BY <2>1, <2>2, <2>3, <2>4
<1>6. QED
  BY <1>1, <1>2, <1>3, <1>4, <1>5 DEF BooksInv

\* A loop starts or ends, or goes on to the next position of its snapshot.
LEMMA IdleFrame ==
  ASSUME TypeInv, BooksInv, NEW h \in Loops, \A i \in Loops \ {h} : job[i].at = "idle",
         Calm, UNCHANGED stream, Others(h), \A s \in Signals : Same(s),
         job[h].pos = None, job'[h].pos = None,
         job'[h].at \in {"idle", "loop", "flag"}, job'[h].at = "idle" => job'[h].does = "none",
         job'[h].at # "idle" => job'[h].todo \subseteq open
  PROVE  BooksInv'
<1>1. /\ (FirstLife' <=> FirstLife) /\ Budget'
      /\ job'["signals"] = job["signals"] /\ \A i \in Loops \ {h} : job'[i] = job[i]
  BY DEF Calm, BooksInv, Others, Loops, Handlers
<1>2. \A i, k \in Loops : Busy(i)' /\ Busy(k)' => i = k
  BY <1>1 DEF Busy
<1>3. LoopAt(h)' /\ SignalAt'
  BY <1>1, NoneAssumption, SameConsumer DEF LoopAt, BooksInv
<1>4. Snapshot(h)'
  <2>1. \A s \in Signals : s \in open => s \in open'
    BY DEF Same
  <2>2. open \subseteq Signals
    BY DEF TypeInv, Data
  <2>3. QED
    BY <2>1, <2>2 DEF Snapshot
<1>5. ASSUME NEW i \in Loops \ {h} PROVE LoopAt(i)' /\ Snapshot(i)'
  BY <1>1, SameLoop DEF Snapshot, BooksInv
<1>6. ASSUME NEW s \in Signals PROVE Streamed(s)' /\ Rowed(s)' /\ (Handled(s)' \/ Rest(s)')
  <2>1. Same(s) /\ Streamed(s) /\ Rowed(s) /\ (Handled(s) \/ Rest(s))
    BY DEF BooksInv
  <2>2. Rowed(s)' /\ (Rest(s) => Rest(s)') /\ (Fresh(s) => Fresh(s)')
    BY <2>1, SameShapes, SameRest
  <2>3. Streamed(s)'
    BY <1>1, <2>1, <2>2 DEF Streamed, Same
  <2>4. Handled(s) => Handled(s)'
    BY <1>1, NoneAssumption DEF Handled, Enters
  <2>5. QED
    BY <2>1, <2>2, <2>3, <2>4
<1>7. QED
  BY <1>1, <1>2, <1>3, <1>4, <1>5, <1>6 DEF BooksInv

-----------------------------------------------------------------------------
(* The loops *)

LEMMA StartsAlone ==
  ASSUME Serial, NEW h \in Loops, MayStart(h) PROVE ~Busy(h) /\ \A i \in Loops \ {h} : ~Busy(i)
<1>1. ASSUME NEW i \in Loops \ {h}, Busy(i) PROVE FALSE
  <2>1. {h, i} \in Overlap
    BY <1>1 DEF MayStart, Loops
  <2>2. PICK k \in Handlers : {h, i} = {"signals", k}
    BY <2>1 DEF Serial
  <2>3. QED
    BY <2>2 DEF Loops
<1>2. QED
  BY <1>1 DEF MayStart

LEMMA StartBooks ==
  ASSUME TypeInv, BooksInv, Serial, NEW h \in Loops, MayStart(h)
  PROVE  /\ \A i \in Loops \ {h} : job[i].at = "idle"
         /\ job[h].at = "idle" /\ job[h].pos = None
BY StartsAlone DEF Busy, BooksInv, LoopAt

LEMMA StartCandleBooks ==
  ASSUME TypeInv, BooksInv, Serial, NEW h \in Handlers, StartCandle(h) PROVE BooksInv'
<1>1. h \in Loops /\ MayStart(h) /\ job \in Jobs
  BY DEF StartCandle, Candles, Loops, Handlers, TypeInv
<1>2. job'[h].at = "loop" /\ job'[h].pos = job[h].pos /\ job'[h].todo = open /\ Others(h)
  BY <1>1 DEF StartCandle, Others, Jobs, JobType, Loops
<1>3. Calm /\ \A s \in Signals : Same(s)
  BY CalmStep DEF StartCandle, Same, stored
<1>4. QED
  BY <1>1, <1>2, <1>3, StartBooks, IdleFrame DEF StartCandle

LEMMA CommandStarts ==
  ASSUME TypeInv, NEW type \in Commands, StartCommand(type)
  PROVE  /\ job'["commands"].at = "loop" /\ job'["commands"].pos = job["commands"].pos
         /\ job'["commands"].todo \subseteq open /\ Others("commands")
<1> DEFINE h == "commands"
<1>1. h \in Handlers /\ job \in Jobs
  BY DEF Handlers, TypeInv
<1>2. PICK todo \in SUBSET open :
        job' = [job EXCEPT ![h].at = "loop", ![h].todo = todo, ![h].does = type]
  <2>1. CASE type \in {"close_all", "kill"}
    BY <2>1 DEF StartCommand
  <2>2. CASE type = "close_position"
    <3>1. PICK todo \in {{s} : s \in open} :
            job' = [job EXCEPT ![h].at = "loop", ![h].todo = todo, ![h].does = type]
      BY <2>2 DEF StartCommand
    <3>2. todo \in SUBSET open
      OBVIOUS
    <3>3. QED
      BY <3>1, <3>2
  <2>3. CASE type \notin {"close_all", "kill", "close_position"}
    BY <2>3 DEF StartCommand
  <2>4. QED
    BY <2>1, <2>2, <2>3
<1>3. QED
  BY <1>1, <1>2 DEF Others, Jobs, JobType

LEMMA StartCommandBooks ==
  ASSUME TypeInv, BooksInv, Serial, NEW type \in Commands, StartCommand(type) PROVE BooksInv'
<1>1. "commands" \in Loops /\ MayStart("commands")
  BY DEF StartCommand, Loops, Handlers
<1>2. Calm /\ UNCHANGED stream
  BY DEF StartCommand, Calm, FirstLife, NextOpen, Budget
<1>3. \A s \in Signals : Same(s)
  BY DEF StartCommand, Same, stored
<1>4. QED
  BY <1>1, <1>2, <1>3, CommandStarts, StartBooks, IdleFrame

LEMMA EndLoopBooks ==
  ASSUME TypeInv, BooksInv, NEW h \in Handlers, EndLoop(h) \/ (h = "commands" /\ SetPaused) PROVE BooksInv'
<1>1. h \in Loops /\ job[h].at \in {"loop", "flag"} /\ job \in Jobs
  BY DEF EndLoop, SetPaused, At, TypeInv, AtHand, Loops, SignalLabels
<1>2. job[h].pos = None /\ \A i \in Loops \ {h} : job[i].at = "idle"
  BY <1>1 DEF BooksInv, LoopAt, Busy
<1>3. Calm /\ UNCHANGED stream /\ \A s \in Signals : Same(s)
  BY CalmStep DEF EndLoop, SetPaused, Same, stored
<1>4. CASE End(h)
  BY <1>1, <1>2, <1>3, <1>4, EndEffect, IdleFrame
<1>5. CASE Goto(h, "flag") /\ EndLoop(h)
  <2>1. Others(h) /\ job'[h].at = "flag" /\ job'[h].pos = None /\ job'[h].todo = {}
    BY <1>1, <1>2, <1>5, GotoEffect DEF EndLoop, Labels, LoopLabels
  <2>2. QED
    BY <1>1, <1>2, <1>3, <2>1, IdleFrame
<1>6. QED
  BY <1>4, <1>5 DEF EndLoop, SetPaused

LEMMA SkipBooks ==
  ASSUME TypeInv, BooksInv, NEW h \in Loops, NEW s \in Signals, Skip(h, s) PROVE BooksInv'
<1>1. /\ job[h].pos = None /\ job[h].at = "loop" /\ job[h].todo \subseteq open \cup {None}
      /\ \A i \in Loops \ {h} : job[i].at = "idle"
  BY Reached DEF Skip, Reaches, At, BooksInv, Snapshot
<1>2. /\ Others(h) /\ job'[h].at = job[h].at /\ job'[h].pos = job[h].pos
      /\ job'[h].todo = job[h].todo \ {s}
  BY DEF Skip, Others, TypeInv, Jobs, JobType, Loops
<1>3. job[h].todo \subseteq Signals
  BY DEF TypeInv, Jobs, JobType, Loops
<1>4. Calm /\ UNCHANGED stream /\ \A t \in Signals : Same(t)
  BY CalmStep DEF Skip, Same, stored
<1>5. QED
  BY <1>1, <1>2, <1>3, <1>4, NoneAssumption, IdleFrame

LEMMA OwnedFilled == ASSUME NEW s, Owned(s) PROVE ~rec[s].pending /\ rec[s].live /\ rec[s].rem = db[s].rem
<1>1. rec[s] = Holding(db[s].rem)
  BY DEF Owned, Is
<1>2. QED
  BY <1>1 DEF Holding

LEMMA FillPendingBooks ==
  ASSUME TypeInv, BooksInv, NEW h \in Loops, NEW s \in Signals, FillPending(h, s) PROVE BooksInv'
<1>1. Reaches(h, s) /\ Waiting(s)
  BY Reached, OwnedFilled DEF FillPending
<1>2. /\ Others(h) /\ job'[h].at = "fill" /\ job'[h].pos = s /\ job'[h].todo = job[h].todo
      /\ Moved(s, Units, 0)
  BY BuyEffect DEF FillPending, TypeInv, Data, Loops, Labels, LoopLabels
<1>3. Calm /\ UNCHANGED <<rec, open, db, journal, stream, closed>>
  BY CalmStep DEF FillPending, stored
<1>4. \A t \in Signals \ {s} : Same(t)
  BY <1>2, <1>3 DEF Same, Moved
<1>5. Bought(s)'
  BY <1>1, <1>2, <1>3 DEF Waiting, Bought, Is, Moved, Calm, Pending, Units
<1>6. InLoop(h, s)'
  BY <1>2, <1>5 DEF InLoop
<1>7. Rowed(s)'
  BY <1>3 DEF BooksInv, Rowed
<1>8. QED
  BY <1>1, <1>2, <1>3, <1>4, <1>6, <1>7, NoneAssumption, LoopFrame

LEMMA FillBooks ==
  ASSUME TypeInv, BooksInv, NEW h \in Loops, NEW s \in Signals, Fill(h, s) PROVE BooksInv'
<1>1. job[h].pos = s /\ Bought(s)
  BY InHand DEF Fill, At, Pos, InLoop
<1>2. rec' = [rec EXCEPT ![s] = Filled] /\ Write(h, "fillUpdate", Filled)
  BY <1>1 DEF Fill, Activate, Bought, Is, Pending
<1>3. /\ Others(h) /\ job'[h].at = "fillUpdate" /\ job'[h].pos = s /\ job'[h].todo = job[h].todo
      /\ job'[h].writes = Filled
  BY <1>1, <1>2, WriteEffect, RecordTypes DEF TypeInv, Loops, Labels, LoopLabels
<1>4. Calm /\ UNCHANGED <<wallet, open, db, journal, stream, closed>>
  BY CalmStep DEF Fill
<1>5. (\A t \in Signals \ {s} : Same(t)) /\ rec'[s] = Filled
  BY <1>2, <1>4 DEF Same, TypeInv, Data
<1>6. Unsaved(s)'
  BY <1>1, <1>4, <1>5 DEF Bought, Unsaved, Is, Calm, Filled, Units
<1>7. InLoop(h, s)'
  BY <1>3, <1>6 DEF InLoop, Filled
<1>8. Rowed(s)'
  BY <1>4 DEF BooksInv, Rowed
<1>9. QED
  BY <1>1, <1>3, <1>4, <1>5, <1>7, <1>8, NoneAssumption, LoopFrame

LEMMA FillUpdateBooks ==
  ASSUME TypeInv, BooksInv, NEW h \in Loops, NEW s \in Signals, FillUpdate(h, s) PROVE BooksInv'
<1>1. job[h].pos = s /\ Unsaved(s) /\ job[h].writes = Filled
  BY InHand DEF FillUpdate, At, Pos, InLoop
<1>2. /\ Others(h) /\ job'[h].at = "accept" /\ job'[h].pos = s /\ job'[h].todo = job[h].todo
  BY <1>1, GotoEffect DEF FillUpdate, TypeInv, Loops, Labels, LoopLabels
<1>3. Calm /\ UNCHANGED <<rec, wallet, open, journal, stream, closed>>
  BY CalmStep DEF FillUpdate
<1>4. /\ \A t \in Signals \ {s} : db'[t] = db[t]
      /\ db'[s].state = "open" /\ db'[s].rem = Units
  BY <1>1 DEF FillUpdate, TypeInv, Data, Rows, Written, State, Filled
<1>5. \A t \in Signals \ {s} : Same(t)
  BY <1>3, <1>4 DEF Same
<1>6. Owned(s)'
  BY <1>1, <1>3, <1>4 DEF Unsaved, Owned, Is, Calm, Filled, Holding, Units
<1>7. InLoop(h, s)' /\ Rowed(s)'
  BY <1>1, <1>2, <1>3, <1>4, <1>6 DEF InLoop, BooksInv, Rowed, Unsaved, Is
<1>8. QED
  BY <1>1, <1>2, <1>3, <1>5, <1>7, NoneAssumption, LoopFrame

\* The rest of activate(): the position is owned, and managed again.
LEMMA AcceptedBooks ==
  ASSUME TypeInv, BooksInv, NEW h \in Loops, MarkAccepted(h) \/ Protected(h) PROVE BooksInv'
<1>1. PICK s \in Signals : job[h].pos = s
  BY DEF MarkAccepted, Protected, At, TypeInv, AtHand, Loops
<1>2. Owned(s)
  BY <1>1, InHand DEF MarkAccepted, Protected, At, InLoop
<1>3. /\ Others(h) /\ job'[h].at \in {"protect", "candles"} /\ job'[h].pos = s /\ job'[h].todo = job[h].todo
  BY <1>1, GotoEffect DEF MarkAccepted, Protected, TypeInv, Loops, Labels, LoopLabels
<1>4. /\ Calm /\ UNCHANGED <<rec, wallet, db, stream, closed>> /\ open' = open
      /\ \A t \in Signals : journal'[t].outcome = journal[t].outcome
  <2>1. s \in open
    BY <1>2 DEF Owned, Is
  <2>2. Calm /\ UNCHANGED <<rec, wallet, db, stream, closed>>
    BY CalmStep DEF MarkAccepted, Protected, stored
  <2>3. open' = open
    BY <1>1, <2>1 DEF MarkAccepted, Protected, Pos
  <2>4. \A t \in Signals : journal'[t].outcome = journal[t].outcome
    BY <1>1 DEF MarkAccepted, Protected, Pos, TypeInv, Data, Journal, stored
  <2>5. QED
    BY <2>2, <2>3, <2>4
<1>5. \A t \in Signals : Same(t)
  BY <1>4 DEF Same
<1>6. Owned(s)' /\ Rowed(s)'
  BY <1>2, <1>4, <1>5, SameShapes DEF BooksInv
<1>7. InLoop(h, s)'
  BY <1>3, <1>6 DEF InLoop
<1>8. QED
  BY <1>1, <1>3, <1>4, <1>5, <1>6, <1>7, NoneAssumption, LoopFrame

LEMMA CancelPendingBooks ==
  ASSUME TypeInv, BooksInv, NEW h \in Loops, NEW s \in Signals, CancelPending(h, s) PROVE BooksInv'
<1>1. Reaches(h, s) /\ Waiting(s)
  BY Reached, OwnedFilled DEF CancelPending
<1>2. Others(h) /\ job'[h].at = "cancel" /\ job'[h].pos = s /\ job'[h].todo = job[h].todo
  BY GotoForEffect DEF CancelPending, TypeInv, Loops, Labels, LoopLabels
<1>3. Calm /\ UNCHANGED <<rec, wallet, db, journal, stream, closed>> /\ open' = open \ {s}
  BY CalmStep DEF CancelPending, stored
<1>4. \A t \in Signals \ {s} : Same(t)
  BY <1>3 DEF Same
<1>5. Cancelling(s, "pending")'
  BY <1>1, <1>3 DEF Waiting, Cancelling, Is, Calm, Pending, Units
<1>6. InLoop(h, s)' /\ Rowed(s)'
  BY <1>2, <1>3, <1>5 DEF InLoop, BooksInv, Rowed
<1>7. QED
  BY <1>1, <1>2, <1>3, <1>4, <1>6, NoneAssumption, LoopFrame

LEMMA CancelRowBooks ==
  ASSUME TypeInv, BooksInv, NEW h \in Loops, NEW s \in Signals, CancelRow(h, s) PROVE BooksInv'
<1>1. job[h].pos = s /\ Cancelling(s, "pending")
  BY InHand DEF CancelRow, At, Pos, InLoop
<1>2. Others(h) /\ job'[h].at = "cancelSignal" /\ job'[h].pos = s /\ job'[h].todo = job[h].todo
  BY <1>1, GotoEffect DEF CancelRow, TypeInv, Loops, Labels, LoopLabels
<1>3. Calm /\ UNCHANGED <<rec, wallet, open, journal, stream, closed>>
  BY CalmStep DEF CancelRow
<1>4. (\A t \in Signals \ {s} : db'[t] = db[t]) /\ db'[s].state = "closed"
  BY DEF CancelRow, TypeInv, Data, Rows
<1>5. \A t \in Signals \ {s} : Same(t)
  BY <1>3, <1>4 DEF Same
<1>6. Cancelling(s, "closed")'
  BY <1>1, <1>3, <1>4 DEF Cancelling, Is, Calm, Pending, Units
<1>7. InLoop(h, s)' /\ Rowed(s)'
  BY <1>2, <1>3, <1>4, <1>6 DEF InLoop, BooksInv, Rowed
<1>8. QED
  BY <1>1, <1>2, <1>3, <1>5, <1>7, NoneAssumption, LoopFrame

LEMMA CancelSignalBooks ==
  ASSUME TypeInv, BooksInv, NEW h \in Loops, NEW s \in Signals, CancelSignal(h, s) PROVE BooksInv'
<1>1. job[h].pos = s /\ Cancelling(s, "closed")
  BY InHand DEF CancelSignal, At, Pos, InLoop
<1>2. Continue(h)
  BY <1>1 DEF CancelSignal, Cancelling, Is, Pending
<1>3. /\ Others(h) /\ job'[h].at = "loop" /\ job'[h].pos = None /\ job'[h].todo = job[h].todo \ {s}
  BY <1>1, <1>2, ContinueEffect DEF TypeInv, Loops, Pos
<1>4. /\ Calm /\ UNCHANGED <<rec, wallet, open, db, stream, closed>>
      /\ journal'[s].outcome = "rejected" /\ \A t \in Signals \ {s} : journal'[t] = journal[t]
  BY CalmStep DEF CancelSignal, TypeInv, Data, Journal
<1>5. \A t \in Signals \ {s} : Same(t)
  BY <1>4 DEF Same
<1>6. Over(s)' /\ Rowed(s)'
  BY <1>1, <1>4 DEF Cancelling, Over, Is, Calm, Pending, Units, BooksInv, Rowed
<1>7. QED
  BY <1>1, <1>3, <1>4, <1>5, <1>6, NoneAssumption, LoopFrame DEF Rest

LEMMA LoadCandlesBooks ==
  ASSUME TypeInv, BooksInv, NEW h \in Loops, NEW s \in Signals, LoadCandles(h, s) PROVE BooksInv'
<1>1. Reaches(h, s) /\ Owned(s)
  BY Reached DEF LoadCandles, Waiting, Is, Pending
<1>2. Others(h) /\ job'[h].at = "candles" /\ job'[h].pos = s /\ job'[h].todo = job[h].todo
  BY GotoForEffect DEF LoadCandles, TypeInv, Loops, Labels, LoopLabels
<1>3. Calm /\ UNCHANGED stream /\ \A t \in Signals : Same(t)
  BY CalmStep DEF LoadCandles, Same, stored
<1>4. Owned(s)' /\ Rowed(s)'
  BY <1>1, <1>3, SameShapes DEF BooksInv
<1>5. InLoop(h, s)'
  BY <1>2, <1>4 DEF InLoop
<1>6. QED
  BY <1>1, <1>2, <1>3, <1>4, <1>5, NoneAssumption, LoopFrame

\* The position s, whose record is about to be r, is held as r says, but for what is
\* due to be sold.
Owes(s, r, due) ==
  /\ s \in open /\ db[s].state = "open" /\ ~r.pending
  /\ r.rem + due <= db[s].rem
  /\ FirstLife => /\ wallet[s].bought = Units /\ wallet[s].sold = Units - (r.rem + due)
                  /\ journal[s].outcome = "none"

LEMMA SettlingOwes == ASSUME NEW s, NEW due PROVE Settling(s, due) <=> Owes(s, rec[s], due)
BY DEF Settling, Owes, Is

\* settleExits(): each sale reaches the wallet as it is issued.
LEMMA SellBooks ==
  ASSUME TypeInv, BooksInv, NEW h \in Loops, NEW s \in Signals, job[h].pos = s \/ Reaches(h, s),
         NEW r \in Records, rec' = [rec EXCEPT ![s] = r], NEW due \in Nat, Owes(s, r, due),
         NEW sells, Sell(h, s, sells),
         \/ sells = <<>> /\ due = 0
         \/ sells = <<due>> /\ due \in 1 .. Units
         \/ sells = <<1, Units - 1>> /\ due = Units,
         Calm, UNCHANGED <<open, db, journal, stream, closed>>
  PROVE  BooksInv'
<1>1. rec'[s] = r /\ (\A t \in Signals \ {s} : rec'[t] = rec[t]) /\ r.rem \in 0 .. Units /\ db[s].rem \in 0 .. Units
  BY DEF TypeInv, Data, Records, RecType, Rows
<1>2. Rowed(s)'
  BY DEF BooksInv, Rowed
<1>3. job \in Jobs /\ wallet \in Wallets /\ h \in Handlers
  BY DEF TypeInv, Data, Loops
<1>4. CASE sells = <<>> /\ due = 0
  <2>1. /\ Others(h) /\ job'[h].at = "settled" /\ job'[h].pos = s /\ job'[h].todo = job[h].todo
        /\ UNCHANGED wallet
    BY <1>3, <1>4, SellNothing
  <2>2. \A t \in Signals \ {s} : Same(t)
    BY <1>1, <2>1 DEF Same
  <2>3. Settling(s, 0)'
    BY <1>1, <1>4, <2>1 DEF Settling, Owes, Is, Calm, Units
  <2>4. InLoop(h, s)'
    BY <2>1, <2>3 DEF InLoop
  <2>5. QED
    BY <1>2, <2>1, <2>2, <2>4, NoneAssumption, LoopFrame
<1>5. CASE sells = <<due>> /\ due \in 1 .. Units
  <2>1. sells \in Seq(1 .. Units) /\ sells # <<>> /\ Head(sells) = due /\ Tail(sells) = <<>>
    BY <1>5
  <2>2. /\ Others(h) /\ job'[h].at = "selling" /\ job'[h].pos = s /\ job'[h].todo = job[h].todo
        /\ job'[h].sells = <<>> /\ Moved(s, 0, due)
    BY <1>3, <2>1, SellSome
  <2>3. \A t \in Signals \ {s} : Same(t)
    BY <1>1, <2>2 DEF Same, Moved
  <2>4. Settling(s, 0)'
    BY <1>1, <1>3, <2>2 DEF Settling, Owes, Is, Calm, Units, Moved, Wallets
  <2>5. InLoop(h, s)'
    BY <2>2, <2>4 DEF InLoop
  <2>6. QED
    BY <1>2, <2>2, <2>3, <2>5, NoneAssumption, LoopFrame
<1>6. CASE sells = <<1, Units - 1>> /\ due = Units
  <2>1. sells \in Seq(1 .. Units) /\ sells # <<>> /\ Head(sells) = 1 /\ Tail(sells) = <<1>>
    BY <1>6 DEF Units
  <2>2. /\ Others(h) /\ job'[h].at = "selling" /\ job'[h].pos = s /\ job'[h].todo = job[h].todo
        /\ job'[h].sells = <<1>> /\ Moved(s, 0, 1)
    BY <1>3, <2>1, SellSome
  <2>3. \A t \in Signals \ {s} : Same(t)
    BY <1>1, <2>2 DEF Same, Moved
  <2>4. Settling(s, 1)'
    BY <1>1, <1>3, <1>6, <2>2 DEF Settling, Owes, Is, Calm, Units, Moved, Wallets
  <2>5. InLoop(h, s)'
    BY <2>2, <2>4 DEF InLoop
  <2>6. QED
    BY <1>2, <2>2, <2>3, <2>5, NoneAssumption, LoopFrame
<1>7. QED
  BY <1>4, <1>5, <1>6

\* Whatever of an owned position is kept as r, the rest is owed.
LEMMA OwnedOwes ==
  ASSUME TypeInv, NEW s \in Signals, Owned(s), NEW r \in Records, ~r.pending, NEW due \in Nat,
         r.rem + due = rec[s].rem
  PROVE  Owes(s, r, due)
<1>1. rec[s].rem = db[s].rem /\ s \in open /\ db[s].state = "open"
  BY OwnedFilled DEF Owned, Is
<1>2. FirstLife => /\ wallet[s].bought = Units /\ wallet[s].sold = Units - db[s].rem
                   /\ journal[s].outcome = "none"
  BY DEF Owned, Is
<1>3. QED
  BY <1>1, <1>2 DEF Owes, TypeInv, Data, Rows, Units

LEMMA CloseManualBooks ==
  ASSUME TypeInv, BooksInv, NEW h \in Loops, NEW s \in Signals, job[h].pos = s \/ Reaches(h, s),
         Owned(s), CloseManual(h, s), Calm, UNCHANGED <<open, db, journal, stream, closed>>
  PROVE  BooksInv'
<1>1. ~rec[s].pending /\ rec[s].live /\ rec[s] \in Records
  BY OwnedFilled DEF TypeInv, Data
<1>2. [rec[s] EXCEPT !.live = FALSE, !.rem = 0] = NoRec
  BY <1>1, ClosedType
<1>3. rec' = [rec EXCEPT ![s] = NoRec] /\ Sell(h, s, <<rec[s].rem>>)
  BY <1>1, <1>2 DEF CloseManual
<1>4. rec[s].rem \in 1 .. Units /\ rec[s].rem \in Nat /\ NoRec \in Records
  BY <1>1, RecordTypes DEF Records, RecType, Units
<1>5. Owes(s, NoRec, rec[s].rem)
  BY <1>4, OwnedOwes DEF NoRec, Units
<1> DEFINE due == rec[s].rem  sells == <<rec[s].rem>>
<1>6. sells = <<due>> /\ due \in 1 .. Units /\ due \in Nat /\ Owes(s, NoRec, due) /\ Sell(h, s, sells)
  BY <1>3, <1>4, <1>5
<1> HIDE DEF due, sells
<1>7. QED
  BY <1>3, <1>4, <1>6, SellBooks

LEMMA ManualBooks ==
  ASSUME TypeInv, BooksInv, NEW h \in Loops, NEW s \in Signals, Invalidate(h, s) \/ ManualClose(h, s)
  PROVE  BooksInv'
<1>1. CASE Invalidate(h, s)
  BY <1>1, Reached, CalmStep, CloseManualBooks DEF Invalidate, Waiting, Is, Pending, stored
<1>2. CASE ManualClose(h, s)
  <2>1. job[h].pos = s /\ Owned(s)
    BY <1>2, InHand DEF ManualClose, At, Pos, InLoop
  <2>2. QED
    BY <1>2, <2>1, CalmStep, CloseManualBooks DEF ManualClose, stored
<1>3. QED
  BY <1>1, <1>2

LEMMA StepPositionBooks ==
  ASSUME TypeInv, BooksInv, NEW h \in Loops, NEW s \in Signals, StepPosition(h, s) PROVE BooksInv'
<1>1. job[h].pos = s /\ Owned(s)
  BY InHand DEF StepPosition, At, Pos, InLoop
<1>2. ~rec[s].pending /\ rec[s].live /\ rec[s] \in Records /\ rec \in [Signals -> Records]
  BY <1>1, OwnedFilled DEF TypeInv, Data
<1>3. rec[s].rem \in 1 .. Units
  BY <1>2 DEF Records, RecType, Units
<1>4. Calm /\ UNCHANGED <<open, db, journal, stream, closed>>
  BY CalmStep DEF StepPosition, stored
<1>5. CASE Sell(h, s, <<>>) /\ UNCHANGED rec
  <2>1. rec' = [rec EXCEPT ![s] = rec[s]] /\ Owes(s, rec[s], 0)
    BY <1>1, <1>2, <1>3, <1>5, OwnedOwes
  <2>2. QED
    BY <1>1, <1>2, <1>4, <1>5, <2>1, SellBooks
<1>6. CASE rec[s].rem = Units /\ rec' = [rec EXCEPT ![s].rem = Units - 1] /\ Sell(h, s, <<1>>)
  <2> DEFINE r == [rec[s] EXCEPT !.rem = Units - 1]
  <2>1. r \in Records /\ ~r.pending /\ r.rem + 1 = rec[s].rem
    BY <1>2, <1>6 DEF Records, RecType, Units
  <2>2. rec' = [rec EXCEPT ![s] = r]
    BY <1>6
  <2> HIDE DEF r
  <2>3. Owes(s, r, 1) /\ 1 \in 1 .. Units
    BY <1>1, <2>1, OwnedOwes DEF Units
  <2>4. QED
    BY <1>1, <1>4, <1>6, <2>1, <2>2, <2>3, SellBooks
<1>7. CASE rec' = [rec EXCEPT ![s].live = FALSE, ![s].rem = 0]
  <2>1. rec' = [rec EXCEPT ![s] = NoRec]
    BY <1>2, <1>7, ClosedType
  <2>2. Owes(s, NoRec, rec[s].rem)
    BY <1>1, <1>3, RecordTypes, OwnedOwes DEF NoRec, Units
  <2>3. CASE Sell(h, s, <<rec[s].rem>>)
    <3> DEFINE due == rec[s].rem  sells == <<rec[s].rem>>
    <3>1. /\ sells = <<due>> /\ due \in 1 .. Units /\ due \in Nat
          /\ Owes(s, NoRec, due) /\ Sell(h, s, sells) /\ NoRec \in Records
      BY <1>3, <2>2, <2>3, RecordTypes DEF Units
    <3> HIDE DEF due, sells
    <3>2. QED
      BY <1>1, <1>4, <2>1, <3>1, SellBooks
  <2>4. CASE rec[s].rem = Units /\ Sell(h, s, <<1, Units - 1>>)
    BY <1>1, <1>3, <1>4, <2>1, <2>2, <2>4, RecordTypes, SellBooks DEF Units
  <2>5. QED
    BY <1>2, <1>7, <2>3, <2>4 DEF StepPosition, Records, RecType, Units
<1>8. QED
  BY <1>2, <1>5, <1>6, <1>7 DEF StepPosition

LEMMA SoldBooks ==
  ASSUME TypeInv, BooksInv, NEW h \in Loops, NEW s \in Signals, Sold(h, s) PROVE BooksInv'
<1>1. /\ job[h].pos = s
      /\ (job[h].sells = <<>> /\ Settling(s, 0)) \/ (job[h].sells = <<1>> /\ Settling(s, 1))
  BY InHand DEF Sold, At, Pos, InLoop
<1>2. rec' = [rec EXCEPT ![s] = rec[s]] /\ rec[s] \in Records
  BY DEF Sold, TypeInv, Data
<1>3. Calm /\ UNCHANGED <<open, db, journal, stream, closed>> /\ Sell(h, s, job[h].sells)
  BY CalmStep DEF Sold
<1>4. 1 \in 1 .. Units
  BY DEF Units
<1>5. CASE job[h].sells = <<>> /\ Settling(s, 0)
  <2>1. Owes(s, rec[s], 0)
    BY <1>5, SettlingOwes
  <2>2. QED
    BY <1>1, <1>2, <1>3, <1>5, <2>1, SellBooks
<1>6. CASE job[h].sells = <<1>> /\ Settling(s, 1)
  <2>1. Owes(s, rec[s], 1)
    BY <1>6, SettlingOwes
  <2>2. QED
    BY <1>1, <1>2, <1>3, <1>4, <1>6, <2>1, SellBooks
<1>7. QED
  BY <1>1, <1>5, <1>6

LEMMA SettledBooks ==
  ASSUME TypeInv, BooksInv, NEW h \in Loops, NEW s \in Signals, Settled(h, s) PROVE BooksInv'
<1>1. job[h].pos = s /\ Settling(s, 0) /\ rec[s] \in Records
  BY InHand DEF Settled, At, Pos, InLoop, TypeInv, Data
<1> DEFINE label == IF rec[s].live THEN "update" ELSE "close"
<1>2. /\ Others(h) /\ job'[h].at = label /\ job'[h].pos = s /\ job'[h].todo = job[h].todo
      /\ job'[h].writes = rec[s]
  BY <1>1, WriteEffect DEF Settled, TypeInv, Loops, Labels, LoopLabels
<1>3. Calm /\ UNCHANGED <<rec, stream>> /\ \A t \in Signals : Same(t)
  BY CalmStep DEF Settled, Same, stored
<1>4. Settling(s, 0)' /\ Rowed(s)'
  BY <1>1, <1>3, SameShapes DEF BooksInv
<1>5. InLoop(h, s)'
  BY <1>2, <1>3, <1>4 DEF InLoop
<1>6. QED
  BY <1>1, <1>2, <1>3, <1>4, <1>5, NoneAssumption, LoopFrame

\* What settled leaves of the row.
LEMMA SettledRow ==
  ASSUME TypeInv, NEW s \in Signals, Settling(s, 0)
  PROVE  /\ rec[s].live => Written(db[s], rec[s]).state = "open" /\ rec[s] = Holding(rec[s].rem)
         /\ ~rec[s].live => Written(db[s], rec[s]).state = "closed" /\ rec[s] = NoRec
         /\ Written(db[s], rec[s]).rem = rec[s].rem
         /\ rec[s].rem \in 0 .. Units
<1>1. /\ rec[s] \in [pending : BOOLEAN, live : BOOLEAN, rem : 0 .. Units]
      /\ rec[s].live <=> rec[s].rem > 0
      /\ ~rec[s].pending
      /\ db[s] \in [state : {"none", "pending", "open", "closed"}, rem : 0 .. Units, outcome : BOOLEAN]
  BY DEF TypeInv, Data, Records, RecType, Rows, Settling
<1>2. rec[s] = [pending |-> rec[s].pending, live |-> rec[s].live, rem |-> rec[s].rem]
  BY <1>1
<1>3. rec[s].live => rec[s] = Holding(rec[s].rem)
  BY <1>1, <1>2 DEF Holding
<1>4. ~rec[s].live => rec[s].rem = 0 /\ rec[s].pending = FALSE /\ rec[s].live = FALSE
  BY <1>1 DEF Units
<1>5. ~rec[s].live => rec[s] = NoRec
  BY <1>2, <1>4 DEF NoRec
<1>6. QED
  BY <1>1, <1>3, <1>5 DEF Written, State

LEMMA UpdateBooks ==
  ASSUME TypeInv, BooksInv, NEW h \in Loops, NEW s \in Signals, Update(h, s) PROVE BooksInv'
<1>1. job[h].pos = s /\ Settling(s, 0) /\ job[h].writes = rec[s] /\ rec[s].live
  BY InHand DEF Update, At, Pos, InLoop
<1>2. Others(h) /\ job'[h].at = "loop" /\ job'[h].pos = None /\ job'[h].todo = job[h].todo \ {s}
  BY <1>1, ContinueEffect DEF Update, TypeInv, Loops, Pos
<1>3. Calm /\ UNCHANGED <<rec, wallet, open, journal, stream, closed>>
  BY CalmStep DEF Update
<1>4. /\ \A t \in Signals \ {s} : db'[t] = db[t]
      /\ db'[s].state = "open" /\ db'[s].rem = rec[s].rem
  BY <1>1, SettledRow DEF Update, TypeInv, Data
<1>5. \A t \in Signals \ {s} : Same(t)
  BY <1>3, <1>4 DEF Same
<1>6. Owned(s)'
  BY <1>1, <1>3, <1>4, SettledRow DEF Settling, Owned, Is, Calm, Holding, Units
<1>7. Rowed(s)'
  BY <1>1, <1>3, <1>4 DEF BooksInv, Rowed, Settling, Is
<1>8. QED
  BY <1>1, <1>2, <1>3, <1>5, <1>6, <1>7, NoneAssumption, LoopFrame DEF Rest

LEMMA CloseRowBooks ==
  ASSUME TypeInv, BooksInv, NEW h \in Loops, NEW s \in Signals, CloseRow(h, s) PROVE BooksInv'
<1>1. job[h].pos = s /\ Settling(s, 0) /\ job[h].writes = rec[s] /\ ~rec[s].live
  BY InHand DEF CloseRow, At, Pos, InLoop
<1>2. Others(h) /\ job'[h].at = "closeOutcome" /\ job'[h].pos = s /\ job'[h].todo = job[h].todo
  BY <1>1, GotoEffect DEF CloseRow, TypeInv, Loops, Labels, LoopLabels
<1>3. Calm /\ UNCHANGED <<rec, wallet, open, journal, stream, closed>>
  BY CalmStep DEF CloseRow
<1>4. (\A t \in Signals \ {s} : db'[t] = db[t]) /\ db'[s].state = "closed"
  BY <1>1, SettledRow DEF CloseRow, TypeInv, Data
<1>5. \A t \in Signals \ {s} : Same(t)
  BY <1>3, <1>4 DEF Same
<1>6. rec[s] = NoRec /\ closed[s] = 0
  BY <1>1, SettledRow DEF Settling, Is, BooksInv, Rowed
<1>7. Exited(s, TRUE, {"none"})'
  <2>1. FirstLife => /\ wallet[s].bought = Units /\ wallet[s].sold = Units
                     /\ journal[s].outcome = "none"
    BY <1>1, <1>6 DEF Settling, Is, NoRec, Units
  <2>2. s \in open /\ NoRec' = NoRec /\ Units' = Units
    BY <1>1 DEF Settling, Is, NoRec, Units
  <2>3. QED
    BY <1>3, <1>4, <1>6, <2>1, <2>2 DEF Exited, Is, Calm
<1>8. InLoop(h, s)'
  BY <1>2, <1>7 DEF InLoop
<1>9. Rowed(s)'
  <2>1. closed'[s] = 0 /\ db'[s].state = "closed"
    BY <1>3, <1>4, <1>6
  <2>2. QED
    BY <2>1 DEF Rowed
<1>10. QED
  BY <1>1, <1>2, <1>3, <1>5, <1>8, <1>9, NoneAssumption, LoopFrame

LEMMA CloseOutcomeBooks ==
  ASSUME TypeInv, BooksInv, NEW h \in Loops, NEW s \in Signals, CloseOutcome(h, s) PROVE BooksInv'
<1>1. job[h].pos = s /\ Exited(s, TRUE, {"none"})
  BY InHand DEF CloseOutcome, At, Pos, InLoop
<1>2. Others(h) /\ job'[h].at = "closeSignal" /\ job'[h].pos = s /\ job'[h].todo = job[h].todo
  BY <1>1, GotoEffect DEF CloseOutcome, TypeInv, Loops, Labels, LoopLabels
<1>3. Calm /\ UNCHANGED <<rec, wallet, open, journal, stream, closed>>
  BY CalmStep DEF CloseOutcome
<1>4. (\A t \in Signals \ {s} : db'[t] = db[t]) /\ db'[s].state = db[s].state
  BY DEF CloseOutcome, TypeInv, Data, Rows
<1>5. \A t \in Signals \ {s} : Same(t)
  BY <1>3, <1>4 DEF Same
<1>6. Exited(s, TRUE, {"none"})'
  BY <1>1, <1>3, <1>4 DEF Exited, Is, Calm, NoRec, Units
<1>7. InLoop(h, s)' /\ Rowed(s)'
  BY <1>2, <1>3, <1>4, <1>6 DEF InLoop, BooksInv, Rowed, Exited, Is
<1>8. QED
  BY <1>1, <1>2, <1>3, <1>5, <1>7, NoneAssumption, LoopFrame

LEMMA CloseSignalBooks ==
  ASSUME TypeInv, BooksInv, NEW h \in Loops, NEW s \in Signals, CloseSignal(h, s) PROVE BooksInv'
<1>1. job[h].pos = s /\ Exited(s, TRUE, {"none"})
  BY InHand DEF CloseSignal, At, Pos, InLoop
<1>2. Others(h) /\ job'[h].at = "release" /\ job'[h].pos = s /\ job'[h].todo = job[h].todo
  BY <1>1, GotoEffect DEF CloseSignal, TypeInv, Loops, Labels, LoopLabels
<1>3. /\ Calm /\ UNCHANGED <<rec, wallet, open, db, stream, closed>>
      /\ journal'[s].outcome = "final" /\ \A t \in Signals \ {s} : journal'[t] = journal[t]
  BY CalmStep DEF CloseSignal, TypeInv, Data, Journal
<1>4. \A t \in Signals \ {s} : Same(t)
  BY <1>3 DEF Same
<1>5. Exited(s, TRUE, {"final"})'
  BY <1>1, <1>3 DEF Exited, Is, Calm, NoRec, Units
<1>6. InLoop(h, s)' /\ Rowed(s)'
  BY <1>2, <1>3, <1>5 DEF InLoop, BooksInv, Rowed
<1>7. QED
  BY <1>1, <1>2, <1>3, <1>4, <1>6, NoneAssumption, LoopFrame

LEMMA ReleaseBooks ==
  ASSUME TypeInv, BooksInv, NEW h \in Loops, NEW s \in Signals, Release(h, s) PROVE BooksInv'
<1>1. job[h].pos = s /\ Exited(s, TRUE, {"final"})
  BY InHand DEF Release, At, Pos, InLoop
<1>2. Others(h) /\ job'[h].at = "emit" /\ job'[h].pos = s /\ job'[h].todo = job[h].todo
  BY <1>1, GotoEffect DEF Release, TypeInv, Loops, Labels, LoopLabels
<1>3. Calm /\ UNCHANGED <<rec, wallet, db, journal, stream, closed>> /\ open' = open \ {s}
  BY CalmStep DEF Release, stored
<1>4. \A t \in Signals \ {s} : Same(t)
  BY <1>3 DEF Same
<1>5. Exited(s, FALSE, {"final"})'
  BY <1>1, <1>3 DEF Exited, Is, Calm, NoRec, Units
<1>6. InLoop(h, s)' /\ Rowed(s)'
  BY <1>2, <1>3, <1>5 DEF InLoop, BooksInv, Rowed
<1>7. QED
  BY <1>1, <1>2, <1>3, <1>4, <1>6, NoneAssumption, LoopFrame

LEMMA EmitClosedBooks ==
  ASSUME TypeInv, BooksInv, NEW h \in Loops, NEW s \in Signals, EmitClosed(h, s) PROVE BooksInv'
<1>1. job[h].pos = s /\ Exited(s, FALSE, {"final"})
  BY InHand DEF EmitClosed, At, Pos, InLoop
<1>2. Others(h) /\ job'[h].at = "loop" /\ job'[h].pos = None /\ job'[h].todo = job[h].todo \ {s}
  BY <1>1, ContinueEffect DEF EmitClosed, TypeInv, Loops, Pos
<1>3. Calm /\ UNCHANGED <<rec, wallet, open, db, journal, stream>>
  BY CalmStep DEF EmitClosed, stored
<1>4. closed'[s] = 1 /\ \A t \in Signals \ {s} : closed'[t] = closed[t]
  BY <1>1 DEF EmitClosed, TypeInv, Data, Exited
<1>5. \A t \in Signals \ {s} : Same(t)
  BY <1>3, <1>4 DEF Same
<1>6. Over(s)' /\ Rowed(s)'
  BY <1>1, <1>3, <1>4 DEF Exited, Over, Is, Calm, NoRec, Units, Rowed
<1>7. QED
  BY <1>1, <1>2, <1>3, <1>5, <1>6, NoneAssumption, LoopFrame DEF Rest

LEMMA LoopBooks ==
  ASSUME TypeInv, BooksInv, NEW h \in Loops, PositionStep(h) PROVE BooksInv'
<1>1. h \in Handlers
  BY DEF Loops
<1>2. QED
  BY <1>1, AcceptedBooks, EndLoopBooks, SkipBooks, FillPendingBooks, FillBooks, FillUpdateBooks,
     CancelPendingBooks, CancelRowBooks, CancelSignalBooks, LoadCandlesBooks, ManualBooks,
     StepPositionBooks, SoldBooks, SettledBooks, UpdateBooks, CloseRowBooks, CloseOutcomeBooks,
     CloseSignalBooks, ReleaseBooks, EmitClosedBooks
     DEF PositionStep

-----------------------------------------------------------------------------
(* The signal consumer *)

\* A step of the consumer that only reads, or that leaves its signal.
LEMMA ReadFrame ==
  ASSUME TypeInv, BooksInv, NEW s \in Signals, job["signals"].pos \in {s, None}, ~Enters(s),
         Calm, Others("signals"), \A t \in Signals : Same(t),
         \A t \in Signals \ {s} : stream'[t] = stream[t],
         job'["signals"].pos \in {s, None},
         job'["signals"].at = "idle" <=> job'["signals"].pos = None,
         job'["signals"].pos = s => InConsumer(s)',
         Streamed(s)'
  PROVE  BooksInv'
<1>1. Same(s) /\ Rowed(s)' /\ (Rest(s) => Rest(s)') /\ (Handled(s) \/ Rest(s))
  BY SameShapes, SameRest DEF BooksInv
<1>2. s \in open => s \in open'
  BY <1>1 DEF Same
<1>3. Handled(s)' \/ Rest(s)'
  BY <1>1 DEF Handled, Others, Loops
<1>4. QED
  BY <1>1, <1>2, <1>3, ConsumerFrame

LEMMA TakeSignalBooks == ASSUME TypeInv, BooksInv, NEW s \in Signals, TakeSignal(s) PROVE BooksInv'
<1>1. job["signals"].at = "idle" /\ job["signals"].pos = None /\ ~Enters(s)
  BY NoneAssumption DEF TakeSignal, MayStart, Busy, BooksInv, SignalAt, Enters
<1>2. Calm /\ \A t \in Signals : Same(t)
  BY CalmStep DEF TakeSignal, Same, stored
<1>3. job'["signals"].at = "flags" /\ job'["signals"].pos = s /\ Others("signals")
  BY DEF TakeSignal, Others, TypeInv, Jobs, JobType, Handlers
<1>4. stream'[s] = "unacked" /\ \A t \in Signals \ {s} : stream'[t] = stream[t]
  BY DEF TakeSignal, TypeInv, Data
<1>5. FirstLife => Fresh(s) /\ journal[s].outcome = "none"
  BY <1>1, NoneAssumption DEF TakeSignal, BooksInv, Streamed
<1>6. FirstLife' => Fresh(s)' /\ journal'[s].outcome = "none"
  BY <1>2, <1>5, SameShapes DEF Calm, Same
<1>7. InConsumer(s)' /\ Streamed(s)'
  BY <1>3, <1>4, <1>6 DEF InConsumer, Streamed
<1>8. QED
  BY <1>1, <1>2, <1>3, <1>4, <1>7, ReadFrame, NoneAssumption

\* The consumer reads on about the signal it has.
LEMMA ReadBooks ==
  ASSUME TypeInv, BooksInv, LoadFlags \/ CopyOpen \/ \E s \in Signals : Reject(s) PROVE BooksInv'
<1>1. job["signals"].at \in {"flags", "history", "exists"}
  BY DEF LoadFlags, CopyOpen, Reject, At
<1>2. PICK s \in Signals : job["signals"].pos = s
  BY <1>1 DEF BooksInv, SignalAt, TypeInv, Jobs, JobType, Handlers
<1>3. InConsumer(s) /\ ~Enters(s)
  BY <1>1, <1>2 DEF BooksInv, SignalAt, Enters, Entering
<1>4. Calm /\ UNCHANGED stream /\ \A t \in Signals : Same(t)
  BY CalmStep DEF LoadFlags, CopyOpen, Reject, Same, stored
<1>5. job'["signals"].at \in {"history", "exists", "reject"} /\ job'["signals"].pos = s /\ Others("signals")
  <2>1. job \in Jobs /\ "signals" \in Handlers /\ "reject" \in Labels
    BY DEF TypeInv, Handlers, Labels, SignalLabels
  <2>2. CASE LoadFlags \/ CopyOpen
    BY <1>2, <2>1, <2>2 DEF LoadFlags, CopyOpen, Others, Jobs, JobType
  <2>3. CASE \E t \in Signals : Reject(t)
    BY <1>2, <2>1, <2>3, GotoEffect DEF Reject
  <2>4. QED
    BY <2>2, <2>3
<1>6. FirstLife' => Fresh(s)' /\ journal'[s].outcome = "none"
  BY <1>1, <1>3, <1>4, SameShapes DEF Calm, Same, InConsumer
<1>7. InConsumer(s)'
  BY <1>5, <1>6 DEF InConsumer
<1>8. Streamed(s)'
  BY <1>2, <1>4, <1>5, <1>6 DEF BooksInv, Streamed, Calm
<1>9. QED
  BY <1>2, <1>3, <1>4, <1>5, <1>7, <1>8, ReadFrame, NoneAssumption

LEMMA AckBooks == ASSUME TypeInv, BooksInv, NEW s \in Signals, Ack(s) PROVE BooksInv'
<1>1. job["signals"].pos = s /\ ~Enters(s)
  BY DEF Ack, At, Pos, Enters, Entering
<1>2. Calm /\ \A t \in Signals : Same(t)
  BY CalmStep DEF Ack, Same, stored
<1>3. job'["signals"].at = "idle" /\ job'["signals"].pos = None /\ Others("signals")
  BY EndEffect DEF Ack, TypeInv, Handlers
<1>4. stream'[s] = "acked" /\ \A t \in Signals \ {s} : stream'[t] = stream[t]
  BY DEF Ack, TypeInv, Data
<1>5. Streamed(s)'
  BY <1>3, <1>4, NoneAssumption DEF Streamed
<1>6. QED
  BY <1>1, <1>2, <1>3, <1>4, <1>5, ReadFrame, NoneAssumption

LEMMA MarkRejectedBooks == ASSUME TypeInv, BooksInv, NEW s \in Signals, MarkRejected(s) PROVE BooksInv'
<1>1. job["signals"].pos = s /\ job["signals"].at = "reject" /\ InConsumer(s) /\ ~Enters(s)
  BY DEF MarkRejected, At, Pos, BooksInv, SignalAt, Enters, Entering
<1>2. Calm /\ UNCHANGED <<rec, wallet, open, db, stream, closed>>
  BY CalmStep DEF MarkRejected
<1>3. journal'[s].outcome = "rejected" /\ \A t \in Signals \ {s} : journal'[t] = journal[t]
  BY DEF MarkRejected, TypeInv, Data, Journal
<1>4. job'["signals"].at = "ack" /\ job'["signals"].pos = s /\ Others("signals")
  BY <1>1, GotoEffect DEF MarkRejected, TypeInv, Handlers, Labels, SignalLabels
<1>5. \A t \in Signals \ {s} : Same(t) /\ stream'[t] = stream[t]
  BY <1>2, <1>3 DEF Same
<1>6. CASE FirstLife
  <2>1. Fresh(s)
    BY <1>1, <1>6 DEF InConsumer
  <2>2. Fresh(s)'
    <3>1. NoRec' = NoRec
      BY DEF NoRec
    <3>2. QED
      BY <1>2, <1>3, <2>1, <3>1 DEF Fresh, Is, Calm
  <2>3. \A h \in Loops : job[h].pos # s
    BY <2>1, InHand
  <2>4. Streamed(s)' /\ Rowed(s)' /\ InConsumer(s)'
    BY <1>1, <1>2, <1>3, <1>4, <1>6 DEF BooksInv, Streamed, Rowed, InConsumer, Calm
  <2>5. QED
    BY <1>1, <1>2, <1>4, <1>5, <2>2, <2>3, <2>4, ConsumerFrame, NoneAssumption DEF Rest
<1>7. CASE ~FirstLife
  <2>1. Same(s)
    BY <1>2, <1>7 DEF Same
  <2>2. Streamed(s)' /\ InConsumer(s)'
    BY <1>2, <1>4, <1>7 DEF Streamed, InConsumer, Calm
  <2>3. QED
    BY <1>1, <1>2, <1>4, <1>5, <2>1, <2>2, ReadFrame, NoneAssumption
<1>8. QED
  BY <1>6, <1>7

\* A step that takes signal s further into a position.
LEMMA EnterFrame ==
  ASSUME TypeInv, BooksInv, NEW s \in Signals, job["signals"].pos = s,
         Calm, Others("signals"), UNCHANGED stream, \A t \in Signals \ {s} : Same(t),
         \A h \in Loops : job[h].pos # s,
         s \in open => s \in open',
         job'["signals"].pos = s, job'["signals"].at # "idle",
         InConsumer(s)', Enters(s)' \/ Rest(s)', Rowed(s)'
  PROVE  BooksInv'
<1>1. Streamed(s)'
  BY DEF BooksInv, Streamed, Calm
<1>2. \A t \in Signals \ {s} : Same(t) /\ stream'[t] = stream[t]
  OBVIOUS
<1>3. Handled(s)' \/ Rest(s)'
  BY DEF Handled
<1>4. QED
  BY <1>1, <1>2, <1>3, ConsumerFrame, NoneAssumption

\* What a signal on its way in was read as, and that no loop has it.
LEMMA OnTheWay ==
  ASSUME TypeInv, BooksInv, NEW s \in Signals, Enters(s)
  PROVE  /\ job["signals"].pos = s /\ InConsumer(s) /\ Rowed(s)
         /\ \A h \in Loops : job[h].pos # s
BY InHand DEF Enters, BooksInv, SignalAt

LEMMA AcceptBooks == ASSUME TypeInv, BooksInv, NEW s \in Signals, Accept(s) PROVE BooksInv'
<1>1. /\ job["signals"].pos = s /\ job["signals"].at = "exists" /\ InConsumer(s) /\ ~Enters(s)
      /\ db[s].state = "none" /\ Rowed(s)
  BY DEF Accept, At, Pos, Refused, Known, BooksInv, SignalAt, Enters, Entering
<1>2. \A h \in Loops : job[h].pos # s
  BY <1>1, InHand DEF HasRow
<1>3. Fresh(s) /\ (FirstLife => journal[s].outcome = "none")
  <2>1. Rest(s)
    BY <1>1, <1>2 DEF BooksInv, Handled
  <2>2. Fresh(s)
    BY <1>1, <2>1 DEF Rest, Waiting, Owned, Over, Is
  <2>3. FirstLife => journal[s].outcome = "none"
    BY <1>1 DEF InConsumer
  <2>4. QED
    BY <2>2, <2>3
<1>4. Calm /\ UNCHANGED <<open, db, journal, stream, closed>>
  BY CalmStep DEF Accept, stored
<1>5. rec'[s] = Pending /\ \A t \in Signals \ {s} : rec'[t] = rec[t]
  BY DEF Accept, TypeInv, Data
<1>6. CASE NextOpen
  <2>1. Write("signals", "insert", Pending) /\ UNCHANGED wallet
    BY <1>6 DEF Accept
  <2>2. /\ job'["signals"].at = "insert" /\ job'["signals"].pos = s /\ Others("signals")
        /\ job'["signals"].writes = Pending
    BY <1>1, <2>1, WriteEffect, RecordTypes DEF TypeInv, Handlers, Labels, SignalLabels
  <2>3. Is(s, FALSE, "none", Pending, 0, 0, {"none"})'
    BY <1>3, <1>4, <1>5, <2>1 DEF Fresh, Is, Calm, Pending, Units
  <2>4. InConsumer(s)'
    BY <1>4, <1>6, <2>2, <2>3 DEF InConsumer, Calm, Pending, Units
  <2>5. Enters(s)' /\ Rowed(s)' /\ \A t \in Signals \ {s} : Same(t)
    BY <1>1, <1>4, <1>5, <2>1, <2>2 DEF Enters, Entering, Rowed, Same
  <2>6. QED
    BY <1>1, <1>2, <1>4, <2>2, <2>4, <2>5, EnterFrame
<1>7. CASE ~NextOpen
  <2>1. Buy("signals", "openLong", s)
    BY <1>7 DEF Accept
  <2>2. /\ job'["signals"].at = "openLong" /\ job'["signals"].pos = s /\ Others("signals")
        /\ Moved(s, Units, 0)
    BY <2>1, BuyEffect DEF TypeInv, Data, Handlers, Labels, SignalLabels
  <2>3. Is(s, FALSE, "none", Pending, Units, 0, {"none"})'
    BY <1>3, <1>4, <1>5, <2>2 DEF Fresh, Is, Calm, Moved, Pending, Units
  <2>4. InConsumer(s)'
    BY <1>4, <1>7, <2>2, <2>3 DEF InConsumer, Calm, Pending, Units
  <2>5. Enters(s)' /\ Rowed(s)' /\ \A t \in Signals \ {s} : Same(t)
    BY <1>1, <1>4, <1>5, <2>2 DEF Enters, Entering, Rowed, Same, Moved
  <2>6. QED
    BY <1>1, <1>2, <1>4, <2>2, <2>4, <2>5, EnterFrame
<1>8. QED
  BY <1>6, <1>7

LEMMA OpenLongBooks == ASSUME TypeInv, BooksInv, NEW s \in Signals, OpenLong(s) PROVE BooksInv'
<1>1. job["signals"].at = "openLong" /\ Enters(s)
  BY DEF OpenLong, At, Pos, Enters, Entering
<1>2. /\ job["signals"].pos = s /\ InConsumer(s) /\ Rowed(s) /\ \A h \in Loops : job[h].pos # s
      /\ ~NextOpen /\ Is(s, FALSE, "none", Pending, Units, 0, {"none"})
  BY <1>1, OnTheWay DEF InConsumer
<1>3. rec' = [rec EXCEPT ![s] = Filled] /\ Write("signals", "insert", Filled)
  BY <1>2 DEF OpenLong, Activate, Is, Pending
<1>4. /\ job'["signals"].at = "insert" /\ job'["signals"].pos = s /\ Others("signals")
      /\ job'["signals"].writes = Filled
  BY <1>2, <1>3, WriteEffect, RecordTypes DEF TypeInv, Handlers, Labels, SignalLabels
<1>5. Calm /\ UNCHANGED <<wallet, open, db, journal, stream, closed>>
  BY CalmStep DEF OpenLong
<1>6. rec'[s] = Filled /\ \A t \in Signals \ {s} : Same(t)
  BY <1>3, <1>5 DEF TypeInv, Data, Same
<1>7. Is(s, FALSE, "none", Filled, Units, 0, {"none"})'
  BY <1>2, <1>5, <1>6 DEF Is, Calm, Filled, Units
<1>8. InConsumer(s)'
  BY <1>2, <1>4, <1>5, <1>7 DEF InConsumer, Calm, Filled, Units
<1>9. Enters(s)' /\ Rowed(s)'
  BY <1>2, <1>4, <1>5 DEF Enters, Entering, Rowed
<1>10. QED
  BY <1>2, <1>4, <1>5, <1>6, <1>8, <1>9, EnterFrame

LEMMA InsertBooks == ASSUME TypeInv, BooksInv, NEW s \in Signals, Insert(s) PROVE BooksInv'
<1>1. job["signals"].at = "insert" /\ Enters(s)
  BY DEF Insert, At, Pos, Enters, Entering
<1>2. job["signals"].pos = s /\ InConsumer(s) /\ Rowed(s) /\ \A h \in Loops : job[h].pos # s
  BY <1>1, OnTheWay
<1>3. Calm /\ UNCHANGED <<rec, wallet, journal, stream, closed>>
  BY CalmStep DEF Insert
<1>4. db'[s] = Written(db[s], job["signals"].writes) /\ \A t \in Signals \ {s} : db'[t] = db[t]
  BY DEF Insert, TypeInv, Data
<1>5. CASE NextOpen
  <2>1. Is(s, FALSE, "none", Pending, 0, 0, {"none"}) /\ job["signals"].writes = Pending
    BY <1>1, <1>2, <1>5 DEF InConsumer
  <2>2. db'[s].state = "pending" /\ db'[s].rem = Units /\ closed'[s] = 0 /\ open' = open \cup {s}
    BY <1>2, <1>3, <1>4, <1>5, <2>1 DEF Insert, Written, State, Pending, TypeInv, Data, Rows, Rowed, Is
  <2>3. /\ job'["signals"].at = "ack" /\ job'["signals"].pos = s /\ Others("signals")
    BY <1>2, <1>5, GotoEffect DEF Insert, TypeInv, Handlers, Labels, SignalLabels
  <2>4. Waiting(s)' /\ Rowed(s)'
    <3>1. Pending' = Pending /\ Units' = Units
      BY DEF Pending, Units
    <3>2. QED
      BY <1>3, <2>1, <2>2, <3>1 DEF Waiting, Is, Calm, Rowed
  <2>5. InConsumer(s)' /\ \A t \in Signals \ {s} : Same(t)
    BY <1>3, <1>4, <2>2, <2>3 DEF InConsumer, Same
  <2>6. QED
    BY <1>2, <1>3, <2>2, <2>3, <2>4, <2>5, EnterFrame DEF Rest
<1>6. CASE ~NextOpen
  <2>1. Is(s, FALSE, "none", Filled, Units, 0, {"none"}) /\ job["signals"].writes = Filled
    BY <1>1, <1>2, <1>6 DEF InConsumer
  <2>2. db'[s].state = "open" /\ db'[s].rem = Units /\ closed'[s] = 0 /\ open' = open
    BY <1>2, <1>3, <1>4, <1>6, <2>1 DEF Insert, Written, State, Filled, TypeInv, Data, Rows, Rowed, Is
  <2>3. /\ job'["signals"].at = "accept" /\ job'["signals"].pos = s /\ Others("signals")
    BY <1>2, <1>6, GotoEffect DEF Insert, TypeInv, Handlers, Labels, SignalLabels
  <2>4. Is(s, FALSE, "open", Filled, Units, 0, {"none"})' /\ Rowed(s)'
    <3>1. Filled' = Filled /\ Units' = Units
      BY DEF Filled, Units
    <3>2. QED
      BY <1>3, <2>1, <2>2, <3>1 DEF Is, Calm, Rowed
  <2>5. InConsumer(s)' /\ Enters(s)' /\ \A t \in Signals \ {s} : Same(t)
    <3>1. Filled' = Filled /\ Units' = Units /\ db'[s].rem = Units
      BY <2>2 DEF Filled, Units
    <3>2. QED
      BY <1>3, <1>4, <2>2, <2>3, <2>4, <3>1 DEF InConsumer, Same, Enters, Entering
  <2>6. QED
    BY <1>2, <1>3, <2>2, <2>3, <2>4, <2>5, EnterFrame
<1>7. QED
  BY <1>5, <1>6

LEMMA EnteredBooks ==
  ASSUME TypeInv, BooksInv, MarkAccepted("signals") \/ Protected("signals") PROVE BooksInv'
<1>1. PICK s \in Signals : Enters(s)
  BY DEF MarkAccepted, Protected, At, TypeInv, AtHand, Handlers, Enters, Entering
<1>2. /\ job["signals"].pos = s /\ InConsumer(s) /\ Rowed(s) /\ \A h \in Loops : job[h].pos # s
      /\ Is(s, FALSE, "open", Filled, Units, 0, {"none"}) /\ db[s].rem = Units
  BY <1>1, OnTheWay DEF InConsumer, MarkAccepted, Protected, At
<1>3. Calm /\ UNCHANGED <<rec, wallet, db, stream, closed>>
  BY CalmStep DEF MarkAccepted, Protected, stored
<1>4. \A t \in Signals : journal'[t].outcome = journal[t].outcome
  BY <1>2 DEF MarkAccepted, Protected, Pos, TypeInv, Data, Journal, stored
<1>5. CASE MarkAccepted("signals")
  <2>1. job'["signals"].at = "protect" /\ job'["signals"].pos = s /\ Others("signals") /\ open' = open
    BY <1>2, <1>5, GotoEffect DEF MarkAccepted, TypeInv, Handlers, Labels, SignalLabels
  <2>2. Is(s, FALSE, "open", Filled, Units, 0, {"none"})' /\ db'[s].rem = Units'
    BY <1>2, <1>3, <1>4, <2>1 DEF Is, Calm, Filled, Units
  <2>3. InConsumer(s)' /\ Enters(s)' /\ Rowed(s)' /\ \A t \in Signals : Same(t)
    BY <1>2, <1>3, <1>4, <2>1, <2>2 DEF InConsumer, Enters, Entering, Rowed, Same
  <2>4. QED
    BY <1>2, <1>3, <2>1, <2>3, EnterFrame
<1>6. CASE Protected("signals")
  <2>1. /\ job'["signals"].at = "ack" /\ job'["signals"].pos = s /\ Others("signals")
        /\ open' = open \cup {s}
    BY <1>2, <1>6, GotoEffect DEF Protected, Pos, TypeInv, Handlers, Labels, SignalLabels
  <2>2. Owned(s)'
    <3>1. Is(s, TRUE, "open", Filled, Units, 0, {"none"})'
      BY <1>2, <1>3, <1>4, <2>1 DEF Is, Calm, Filled, Units
    <3>2. db'[s].rem = Units /\ Filled = Holding(Units) /\ Units - Units = 0
      BY <1>2, <1>3 DEF Filled, Holding, Units
    <3>3. QED
      BY <3>1, <3>2 DEF Owned, Filled, Holding, Units
  <2>3. InConsumer(s)' /\ Rowed(s)' /\ \A t \in Signals \ {s} : Same(t)
    BY <1>2, <1>3, <1>4, <2>1 DEF InConsumer, Rowed, Same
  <2>4. QED
    BY <1>2, <1>3, <2>1, <2>2, <2>3, EnterFrame DEF Rest
<1>7. QED
  BY <1>5, <1>6

LEMMA EnteredSteps ==
  ASSUME TypeInv, PositionStep("signals") PROVE MarkAccepted("signals") \/ Protected("signals")
<1>1. job["signals"].at \in SignalLabels /\ "signals" \notin Candles
  BY DEF TypeInv, AtHand, Handlers, Candles
<1>2. QED
  BY ZenonT(60), <1>1 DEF PositionStep, SignalLabels, EndLoop, Skip, FillPending, Fill, FillUpdate,
     CancelPending, CancelRow, CancelSignal, Invalidate, LoadCandles, StepPosition, ManualClose,
     Sold, Settled, Update, CloseRow, CloseOutcome, CloseSignal, Release, EmitClosed, Reaches, At

LEMMA ConsumerBooks ==
  ASSUME TypeInv, BooksInv, SignalStep \/ PositionStep("signals") PROVE BooksInv'
<1>1. CASE SignalStep
  BY <1>1, ReadBooks, AcceptBooks, MarkRejectedBooks, OpenLongBooks, InsertBooks, AckBooks DEF SignalStep
<1>2. CASE PositionStep("signals")
  BY <1>2, EnteredSteps, EnteredBooks
<1>3. QED
  BY <1>1, <1>2

-----------------------------------------------------------------------------
(* A restart takes every position from its row *)

LEMMA CrashBooks == ASSUME TypeInv, BooksInv, Crash PROVE BooksInv'
<1>1. /\ Budget' /\ ~FirstLife' /\ UNCHANGED <<db, closed, mode>>
      /\ \A h \in Handlers : job'[h] = Idle
  BY BoundAssumption DEF Crash, BooksInv, Budget, FirstLife, stored
<1>2. \A h, i \in Loops : Busy(h)' /\ Busy(i)' => h = i
  BY <1>1 DEF Busy, Loops, Idle
<1>3. ASSUME NEW h \in Loops PROVE LoopAt(h)' /\ Snapshot(h)'
  <2>1. job'[h].at = "idle" /\ job'[h].pos = None /\ job'[h].does = "none"
    BY <1>1 DEF Loops, Idle
  <2>2. QED
    BY <2>1, NoneAssumption DEF LoopAt, Snapshot
<1>4. SignalAt'
  <2>1. job'["signals"].at = "idle" /\ job'["signals"].pos = None
    BY <1>1 DEF Handlers, Idle
  <2>2. QED
    BY <2>1, NoneAssumption DEF SignalAt
<1>5. ASSUME NEW s \in Signals PROVE Streamed(s)' /\ Rowed(s)' /\ Rest(s)'
  <2>1. Streamed(s)'
    BY <1>1 DEF Streamed
  <2>2. Rowed(s) /\ db'[s] = db[s] /\ closed'[s] = closed[s] /\ db[s] \in Rows
    BY <1>1 DEF BooksInv, TypeInv, Data
  <2>3. s \in open' <=> db[s].state \notin {"none", "closed"}
    BY DEF Crash
  <2>4. rec'[s] = IF s \in open' THEN Restored(db[s]) ELSE NoRec
    BY DEF Crash
  <2>5. CASE db[s].state = "none"
    BY <1>1, <2>1, <2>2, <2>3, <2>4, <2>5 DEF Rest, Fresh, Is, Rowed, NoRec
  <2>6. CASE db[s].state = "closed"
    BY <1>1, <2>1, <2>2, <2>3, <2>4, <2>6 DEF Rest, Over, Is, Rowed, NoRec
  <2>7. CASE db[s].state = "pending"
    <3>1. rec'[s] = Pending /\ db[s].rem = Units
      BY <2>2, <2>3, <2>4, <2>7 DEF Restored, Pending, Rowed
    <3>2. QED
      BY <1>1, <2>1, <2>2, <2>3, <2>7, <3>1 DEF Rest, Waiting, Is, Rowed, Pending, Units
  <2>8. CASE db[s].state = "open"
    <3>1. rec'[s] = Holding(db[s].rem)
      BY <2>2, <2>3, <2>4, <2>8 DEF Restored, Holding
    <3>2. QED
      BY <1>1, <2>1, <2>2, <2>3, <2>8, <3>1 DEF Rest, Owned, Is, Rowed, Holding
  <2>9. QED
    BY <2>1, <2>2, <2>5, <2>6, <2>7, <2>8 DEF Rows, Rowed
<1>6. QED
  BY <1>1, <1>2, <1>3, <1>4, <1>5 DEF BooksInv

-----------------------------------------------------------------------------
(* The invariant *)

LEMMA BooksInit == ASSUME NoFaults, Init PROVE BooksInv
<1>1. Budget
  BY BoundAssumption DEF Init, NoFaults, Budget
<1>2. \A h \in Handlers : job[h] = Idle
  BY DEF Init
<1>3. \A h, i \in Loops : Busy(h) /\ Busy(i) => h = i
  BY <1>2 DEF Busy, Loops, Idle
<1>4. ASSUME NEW h \in Loops PROVE LoopAt(h) /\ Snapshot(h)
  <2>1. job[h].at = "idle" /\ job[h].pos = None /\ job[h].does = "none"
    BY <1>2 DEF Loops, Idle
  <2>2. QED
    BY <2>1, NoneAssumption DEF LoopAt, Snapshot
<1>5. job["signals"].at = "idle" /\ job["signals"].pos = None
  BY <1>2 DEF Handlers, Idle
<1>6. SignalAt
  BY <1>5, NoneAssumption DEF SignalAt
<1>7. ASSUME NEW s \in Signals PROVE Streamed(s) /\ Rowed(s) /\ Rest(s)
  <2>1. Fresh(s)
    BY DEF Init, Fresh, Is, NoRow, Row
  <2>2. stream[s] = "new" /\ journal[s].outcome = "none" /\ closed[s] = 0 /\ db[s].state = "none"
    BY DEF Init, NoRow, Row
  <2>3. QED
    BY <1>5, <2>1, <2>2, NoneAssumption DEF Streamed, Rowed, Rest
<1>8. QED
  BY <1>1, <1>3, <1>4, <1>6, <1>7 DEF BooksInv

LEMMA BooksStep == ASSUME TypeInv, BooksInv, Serial, [Next]_vars PROVE BooksInv'
<1>1. CASE UNCHANGED vars
  <2>1. Calm /\ \A s \in Signals : Same(s)
    BY <1>1 DEF vars, stored, Calm, Same, FirstLife, NextOpen, Budget
  <2>2. \A h \in Loops : LoopAt(h)' /\ Snapshot(h)'
    BY <1>1, <2>1, SameLoop DEF vars, BooksInv, Snapshot
  <2>3. SignalAt'
    BY <1>1 DEF vars, stored, BooksInv, SignalAt, InConsumer, Is, Fresh, FirstLife, NextOpen
  <2>4. \A s \in Signals : Streamed(s)' /\ Rowed(s)'
    BY <1>1, <2>1, SameShapes DEF vars, stored, BooksInv, Streamed, FirstLife
  <2>5. \A s \in Signals : (Handled(s) \/ Rest(s))'
    <3>1. \A s \in Signals : Rest(s) => Rest(s)'
      BY <2>1, SameRest
    <3>2. \A s \in Signals : Handled(s) => Handled(s)'
      BY <1>1 DEF vars, Handled, Enters
    <3> QED
      BY <3>1, <3>2 DEF BooksInv
  <2>6. Budget' /\ \A h, i \in Loops : Busy(h)' /\ Busy(i)' => h = i
    BY <1>1 DEF vars, BooksInv, Budget, Busy
  <2> QED
    BY <2>2, <2>3, <2>4, <2>5, <2>6 DEF BooksInv
<1>2. ASSUME NEW h \in Handlers, Fail(h) PROVE BooksInv'
  BY <1>2 DEF Fail, BooksInv, Budget
<1>3. ASSUME NEW h \in Handlers, Step(h) PROVE BooksInv'
  <2>1. CASE h = "signals"
    BY <1>3, <2>1, ConsumerBooks DEF Step
  <2>2. CASE h # "signals"
    BY <1>3, <2>2, LoopBooks, EndLoopBooks DEF Step, Loops
  <2>3. QED
    BY <2>1, <2>2
<1>4. QED
  BY <1>1, <1>2, <1>3, TakeSignalBooks, StartCandleBooks, StartCommandBooks, CrashBooks DEF Next

\* The invariant the theorems below rest on.
THEOREM BooksInvariance == ASSUME Serial, NoFaults PROVE Spec => []BooksInv
<1>1. Init => BooksInv
  BY BooksInit
<1>2. TypeInv /\ BooksInv /\ [Next]_vars => BooksInv'
  BY BooksStep
<1>3. Spec => []TypeInv
  BY TypeInvariance
<1>4. QED
  BY <1>1, <1>2, <1>3, PTL DEF Spec

-----------------------------------------------------------------------------
(* What follows between and under the handlers *)

LEMMA QuietRest == ASSUME BooksInv, Quiet, NEW s \in Signals PROVE Rest(s) /\ Rowed(s)
<1>1. \A h \in Handlers : job[h].at = "idle"
  BY DEF Quiet, Busy
<1>2. \A h \in Loops : job[h].pos = None
  BY <1>1 DEF BooksInv, LoopAt, Loops
<1>3. ~Handled(s)
  BY <1>1, <1>2, NoneAssumption DEF Handled, Enters, Entering, Handlers
<1>4. QED
  BY <1>3 DEF BooksInv

\* Between handlers, what was bought for a position is what was sold of it plus
\* what its record holds, and what holds something is managed: no fill, partial
\* or close of the manager loses or invents a unit.
THEOREM BooksBalanced == ASSUME Serial, NoFaults PROVE Spec => []BooksBalance
<1>1. TypeInv /\ BooksInv => BooksBalance
  <2> SUFFICES ASSUME TypeInv, BooksInv, Quiet, FirstLife, NEW s \in Signals
               PROVE  wallet[s].bought = wallet[s].sold + Held(s) /\ (Held(s) > 0 => s \in open)
    BY DEF BooksBalance
  <2>1. Rest(s) /\ db[s].rem \in 0 .. Units
    BY QuietRest DEF TypeInv, Data, Rows
  <2>2. CASE Fresh(s)
    BY <2>2 DEF Fresh, Is, Held, NoRec
  <2>3. CASE Waiting(s)
    BY <2>3 DEF Waiting, Is, Held, Pending
  <2>4. CASE Owned(s)
    <3>1. /\ rec[s] = Holding(db[s].rem) /\ wallet[s].bought = Units
          /\ wallet[s].sold = Units - db[s].rem /\ s \in open
      BY <2>4 DEF Owned, Is
    <3>2. Held(s) = db[s].rem
      BY <3>1 DEF Held, Holding
    <3>3. QED
      BY <2>1, <3>1, <3>2 DEF Units
  <2>5. CASE Over(s)
    BY <2>5 DEF Over, Is, Held, NoRec, Pending, Units
  <2>6. QED
    BY <2>1, <2>2, <2>3, <2>4, <2>5 DEF Rest
<1>2. QED
  BY <1>1, BooksInvariance, TypeInvariance, PTL

\* Whenever no handler is under way, in any life of the engine, the map holds the
\* positions whose rows restore() would load, each as its row is: what the handlers
\* write one statement at a time is complete when they end, and a crash at any await
\* in between, followed by a redelivered or a lost signal, leaves it so.  It is said
\* of handlers that take turns (a candle or command beside the consumer) and of
\* statements that succeed.
THEOREM RestartIsSafe == ASSUME Serial, NoFaults PROVE Spec => []RestartSafe
<1>1. BooksInv => RestartSafe
  <2> SUFFICES ASSUME BooksInv, Quiet, NEW s \in Signals
               PROVE  /\ s \in open <=> db[s].state \in {"pending", "open"}
                      /\ s \in open => Restored(db[s]) = rec[s]
    BY DEF RestartSafe
  <2>1. Rest(s) /\ Rowed(s)
    BY QuietRest
  <2>2. CASE Fresh(s) \/ Over(s)
    BY <2>2 DEF Fresh, Over, Is
  <2>3. CASE Waiting(s)
    BY <2>1, <2>3 DEF Waiting, Is, Rowed, Restored, Pending
  <2>4. CASE Owned(s)
    BY <2>4 DEF Owned, Is, Restored, Holding
  <2>5. QED
    BY <2>1, <2>2, <2>3, <2>4 DEF Rest
<1>2. QED
  BY <1>1, BooksInvariance, PTL

\* In the first life of the engine, the outcome in the journal is true at every
\* await of handlers that take turns and whose statements succeed: final only when all
\* that was bought is sold, rejected only when nothing was bought.
THEOREM OutcomesTrue == ASSUME Serial, NoFaults PROVE Spec => []OutcomeTrue
<1>1. TypeInv /\ BooksInv => OutcomeTrue
  <2> SUFFICES ASSUME TypeInv, BooksInv, FirstLife, NEW s \in Signals
               PROVE  /\ journal[s].outcome = "final" =>
                           wallet[s].bought > 0 /\ wallet[s].sold = wallet[s].bought
                      /\ journal[s].outcome = "rejected" => wallet[s].bought = 0
    BY DEF OutcomeTrue
  <2>1. CASE Rest(s)
    BY <2>1 DEF Rest, Fresh, Waiting, Owned, Over, Is, Units
  <2>2. CASE Enters(s)
    BY <2>2, OnTheWay DEF InConsumer, Enters, Entering, Is
  <2>3. ASSUME NEW h \in Loops, job[h].pos = s PROVE journal[s].outcome # "rejected" /\
          (journal[s].outcome = "final" => wallet[s].bought > 0 /\ wallet[s].sold = wallet[s].bought)
    <3>1. InLoop(h, s) /\ job[h].at \in LoopLabels /\ job[h].at \notin {"idle", "loop", "flag"}
      BY <2>3, InHand, NoneAssumption DEF BooksInv, LoopAt, TypeInv, AtHand, Loops
    <3>2. QED
      BY <3>1 DEF InLoop, LoopLabels, Bought, Unsaved, Owned, Cancelling, Settling, Exited, Is, Units
  <2>4. QED
    BY <2>1, <2>2, <2>3 DEF BooksInv, Handled
<1>2. QED
  BY <1>1, BooksInvariance, TypeInvariance, PTL

-----------------------------------------------------------------------------
(* The rows live the life of a position *)

\* The consumer changes no other handler's job.
LEMMA ConsumerAlone ==
  ASSUME TypeInv, SignalStep \/ MarkAccepted("signals") \/ Protected("signals") \/ \E s \in Signals : TakeSignal(s)
  PROVE  Others("signals")
<1>1. job \in Jobs /\ "signals" \in Handlers
  BY DEF TypeInv, Handlers
<1>2. QED
  BY <1>1 DEF SignalStep, LoadFlags, CopyOpen, Reject, Accept, MarkRejected, OpenLong, Insert, Ack, MarkAccepted,
     Protected, TakeSignal, Activate, Goto, Write, End, Buy, Others, Jobs

StageOf(row) == IF row.state # "open" THEN row.state ELSE IF row.rem = Units THEN "full" ELSE "part"
Stage == [s \in Signals |-> StageOf(db[s])]

\* One row is written, to what it may come to.
LEMMA RowMoves ==
  ASSUME NEW s \in Signals, \A t \in Signals \ {s} : db'[t] = db[t]
  PROVE  Stage' = [Stage EXCEPT ![s] = StageOf(db'[s])]
BY DEF Stage, StageOf, Units

LEMMA SameRows == ASSUME UNCHANGED db PROVE Stage' = Stage
BY DEF Stage, StageOf, Units

\* What a step of PositionLife is, of the stages of the rows.
Moves(s, from, to) == Stage[s] \in from /\ Stage' = [Stage EXCEPT ![s] = to]
LifeStep == \E s \in Signals :
  \/ Moves(s, {"none"}, "pending") \/ Moves(s, {"none", "pending"}, "full")
  \/ Moves(s, {"pending"}, "closed") \/ Moves(s, {"full"}, "part") \/ Moves(s, {"full", "part"}, "closed")

LEMMA InsertLives == ASSUME TypeInv, BooksInv, NEW s \in Signals, Insert(s) PROVE LifeStep
<1>1. InConsumer(s) /\ job["signals"].at = "insert"
  BY OnTheWay DEF Insert, At, Pos, Enters, Entering
<1>2. db'[s] = Written(db[s], job["signals"].writes) /\ \A t \in Signals \ {s} : db'[t] = db[t]
  BY DEF Insert, TypeInv, Data
<1>3. Stage[s] \in {"none"}
  BY <1>1 DEF InConsumer, Is, Stage, StageOf
<1>4. CASE NextOpen
  <2>1. StageOf(db'[s]) = "pending"
    BY <1>1, <1>2, <1>4 DEF InConsumer, Written, State, Pending, StageOf, TypeInv, Data, Rows
  <2>2. QED
    BY <1>2, <1>3, <2>1, RowMoves DEF LifeStep, Moves
<1>5. CASE ~NextOpen
  <2>1. StageOf(db'[s]) = "full"
    BY <1>1, <1>2, <1>5 DEF InConsumer, Written, State, Filled, StageOf, TypeInv, Data, Rows
  <2>2. QED
    BY <1>2, <1>3, <2>1, RowMoves DEF LifeStep, Moves
<1>6. QED
  BY <1>4, <1>5

LEMMA FillUpdateLives ==
  ASSUME TypeInv, BooksInv, NEW h \in Loops, NEW s \in Signals, FillUpdate(h, s) PROVE LifeStep
<1>1. job[h].pos = s /\ Unsaved(s) /\ job[h].writes = Filled
  BY InHand DEF FillUpdate, At, Pos, InLoop
<1>2. db'[s] = Written(db[s], Filled) /\ \A t \in Signals \ {s} : db'[t] = db[t]
  BY <1>1 DEF FillUpdate, TypeInv, Data
<1>3. Stage[s] \in {"none", "pending"}
  BY <1>1 DEF Unsaved, Is, Stage, StageOf
<1>4. StageOf(db'[s]) = "full"
  BY <1>2 DEF Written, State, Filled, StageOf, TypeInv, Data, Rows
<1>5. QED
  BY <1>2, <1>3, <1>4, RowMoves DEF LifeStep, Moves

LEMMA CancelRowLives ==
  ASSUME TypeInv, BooksInv, NEW h \in Loops, NEW s \in Signals, CancelRow(h, s) PROVE LifeStep
<1>1. Cancelling(s, "pending")
  BY InHand DEF CancelRow, At, Pos, InLoop
<1>2. db'[s].state = "closed" /\ \A t \in Signals \ {s} : db'[t] = db[t]
  BY DEF CancelRow, TypeInv, Data, Rows
<1>3. Stage[s] \in {"pending"} /\ StageOf(db'[s]) = "closed"
  BY <1>1, <1>2 DEF Cancelling, Is, Stage, StageOf
<1>4. QED
  BY <1>2, <1>3, RowMoves DEF LifeStep, Moves

\* update() writes no more than the row had, close() ends it.
LEMMA SettledLives ==
  ASSUME TypeInv, BooksInv, NEW h \in Loops, NEW s \in Signals, Update(h, s) \/ CloseRow(h, s)
  PROVE  LifeStep \/ Stage' = Stage
<1>1. Settling(s, 0) /\ job[h].writes = rec[s] /\ (Update(h, s) <=> rec[s].live)
  BY InHand DEF Update, CloseRow, At, Pos, InLoop
<1>2. db'[s] = Written(db[s], rec[s]) /\ \A t \in Signals \ {s} : db'[t] = db[t]
  BY <1>1 DEF Update, CloseRow, TypeInv, Data
<1>3. db[s].state = "open" /\ rec[s].rem <= db[s].rem /\ db[s].rem \in 0 .. Units
  BY <1>1 DEF Settling, Is, TypeInv, Data, Rows, Records, RecType, Units
<1>4. Stage[s] = IF db[s].rem = Units THEN "full" ELSE "part"
  BY <1>3 DEF Stage, StageOf
<1>5. CASE ~rec[s].live
  <2>1. StageOf(db'[s]) = "closed"
    BY <1>1, <1>2, <1>5, SettledRow DEF StageOf
  <2>2. QED
    BY <1>2, <1>4, <2>1, RowMoves DEF LifeStep, Moves
<1>6. CASE rec[s].live
  <2>1. db'[s].state = "open" /\ db'[s].rem = rec[s].rem /\ rec[s].rem \in 0 .. Units
    BY <1>1, <1>2, <1>6, SettledRow
  <2>2. CASE rec[s].rem = Units
    <3>1. Stage[s] \in {"full"} /\ StageOf(db'[s]) = "full"
      BY <1>3, <1>4, <2>1, <2>2 DEF StageOf, Units
    <3>2. Stage' = [Stage EXCEPT ![s] = "full"]
      BY <1>2, <3>1, RowMoves
    <3>3. QED
      BY <3>1, <3>2 DEF Stage
  <2>3. CASE rec[s].rem # Units
    <3>1. StageOf(db'[s]) = "part"
      BY <2>1, <2>3 DEF StageOf
    <3>2. Stage' = [Stage EXCEPT ![s] = "part"]
      BY <1>2, <3>1, RowMoves
    <3>3. CASE db[s].rem = Units
      BY <1>4, <3>2, <3>3 DEF LifeStep, Moves
    <3>4. CASE db[s].rem # Units
      BY <1>4, <3>2, <3>4 DEF Stage
    <3>5. QED
      BY <3>3, <3>4
  <2>4. QED
    BY <2>2, <2>3
<1>7. QED
  BY <1>5, <1>6

LEMMA OutcomeStays == ASSUME TypeInv, NEW h, NEW s \in Signals, CloseOutcome(h, s) PROVE Stage' = Stage
<1>1. \A t \in Signals : db'[t].state = db[t].state /\ db'[t].rem = db[t].rem
  BY DEF CloseOutcome, TypeInv, Data, Rows
<1>2. QED
  BY <1>1 DEF Stage, StageOf, Units

LEMMA RowsStep == ASSUME TypeInv, BooksInv, [Next]_vars PROVE LifeStep \/ Stage' = Stage
<1>1. CASE \/ UNCHANGED vars \/ Crash \/ \E s \in Signals : TakeSignal(s)
           \/ \E h \in Handlers : StartCandle(h) \/ Fail(h)
           \/ \E type \in Commands : StartCommand(type)
  BY <1>1, SameRows DEF vars, stored, Crash, TakeSignal, StartCandle, Fail, StartCommand
<1>2. ASSUME NEW h \in Handlers, Step(h) PROVE LifeStep \/ Stage' = Stage
  <2>1. CASE SignalStep
    BY <2>1, SameRows, InsertLives DEF SignalStep, LoadFlags, CopyOpen, Reject, Accept, MarkRejected, OpenLong, Ack, stored
  <2>2. CASE SetPaused
    BY <2>2, SameRows DEF SetPaused
  <2>3. CASE MarkAccepted(h) \/ Protected(h) \/ EndLoop(h)
    BY <2>3, SameRows DEF MarkAccepted, Protected, EndLoop, stored
  <2>4. ASSUME NEW s \in Signals,
               \/ Skip(h, s) \/ FillPending(h, s) \/ Fill(h, s)
               \/ CancelPending(h, s) \/ CancelSignal(h, s)
               \/ Invalidate(h, s) \/ LoadCandles(h, s) \/ StepPosition(h, s) \/ ManualClose(h, s)
               \/ Sold(h, s) \/ Settled(h, s) \/ CloseSignal(h, s) \/ Release(h, s) \/ EmitClosed(h, s)
        PROVE  LifeStep \/ Stage' = Stage
    BY <2>4, SameRows DEF Skip, FillPending, Fill, CancelPending, CancelSignal, Invalidate, LoadCandles,
       StepPosition, ManualClose, Sold, Settled, CloseSignal, Release, EmitClosed, stored
  <2>5. CASE PositionStep(h) /\ h = "signals"
    BY <2>3, <2>5, EnteredSteps
  <2>6. CASE PositionStep(h) /\ h # "signals"
    BY <2>3, <2>4, <2>6, FillUpdateLives, CancelRowLives, SettledLives, OutcomeStays DEF PositionStep, Loops
  <2>7. QED
    BY <1>2, <2>1, <2>2, <2>5, <2>6 DEF Step
<1>3. QED
  BY <1>1, <1>2 DEF Next

\* The rows of the positions table go through the life of PositionLife and through no
\* other, whichever handlers and crashes come between the writes.
THEOREM RowsImplementLife == ASSUME Serial, NoFaults PROVE Spec => RowsLive
<1>1. Init => Life!Init
  <2> SUFFICES ASSUME Init PROVE Stage \in [Signals -> {"none"}]
    BY DEF Life!Init, Stage, StageOf
  <2>1. QED
    BY DEF Init, Stage, StageOf, NoRow, Row
<1>2. TypeInv /\ BooksInv /\ [Next]_vars => [Life!Next]_Stage
  BY RowsStep DEF LifeStep, Moves, Life!Next, Life!Park, Life!Open, Life!Cancel, Life!SellPart, Life!Close,
     Life!Move, Stage, StageOf
<1>3. Stage = [s \in Signals |-> IF db[s].state # "open" THEN db[s].state
                                  ELSE IF db[s].rem = Units THEN "full" ELSE "part"]
  BY DEF Stage, StageOf
<1>4. QED
  BY <1>1, <1>2, BooksInvariance, TypeInvariance, PTL DEF Spec, RowsLive, Life!Spec, Stage, StageOf

-----------------------------------------------------------------------------
(* risk.max_open holds although the signal consumer counts the positions   *)
(* several awaits before its own enters the map:  for every limit, every   *)
(* set of signals and commands, and whatever calls fail on the way, as     *)
(* long as only one loop over the positions runs at a time.                *)

Bounded == budget \in [commands : Nat, faults : Nat, crashes : 0 .. MaxCrashes]

\* A loop adds to the map only what it took from it.
InMap(h) ==
  /\ job[h].at \in {"idle", "loop", "flag"} => job[h].pos = None
  /\ job[h].at \in {"fill", "fillUpdate", "accept", "protect"} => job[h].pos \in open
  /\ job[h].at # "idle" => job[h].todo \ {job[h].pos} \subseteq open

\* The copy the consumer counted still has every position of the map.
Counted ==
  /\ job["signals"].at \in {"exists"} \cup Entering =>
       IsFiniteSet(job["signals"].todo) /\ open \subseteq job["signals"].todo
  /\ job["signals"].at \in Entering => Cardinality(job["signals"].todo) < MaxOpen

Room ==
  /\ IsFiniteSet(open) /\ Cardinality(open) <= MaxOpen
  /\ \A h \in Loops : InMap(h)
  /\ Counted

LimitInv ==
  /\ Bounded
  /\ \A h, i \in Loops : Busy(h) /\ Busy(i) => h = i
  /\ FirstLife => Room

-----------------------------------------------------------------------------
(* The loops *)

LEMMA LoopInMap ==
  ASSUME TypeInv, NEW h \in Loops, NEW s \in Signals, InMap(h),
         \/ Skip(h, s) \/ FillPending(h, s) \/ Fill(h, s) \/ FillUpdate(h, s)
         \/ CancelPending(h, s) \/ CancelRow(h, s) \/ CancelSignal(h, s)
         \/ Invalidate(h, s) \/ LoadCandles(h, s) \/ StepPosition(h, s) \/ ManualClose(h, s)
         \/ Sold(h, s) \/ Settled(h, s) \/ Update(h, s)
         \/ CloseRow(h, s) \/ CloseOutcome(h, s) \/ CloseSignal(h, s) \/ Release(h, s) \/ EmitClosed(h, s)
  PROVE  InMap(h)' /\ open' \subseteq open
<1>1. job \in Jobs /\ h \in Handlers /\ job[h] \in JobType /\ s # None
  BY NoneAssumption DEF TypeInv, Loops, Jobs
<1>2. CASE Skip(h, s)
  BY <1>1, <1>2 DEF Skip, Reaches, At, Jobs, JobType, InMap, stored
<1>3. CASE FillPending(h, s)
  <2>1. job[h].pos = None /\ job[h].todo \subseteq open \cup {None} /\ s \in open
    BY <1>1, <1>3 DEF FillPending, Reaches, At, InMap
  <2>2. /\ job'[h].at = "fill" /\ job'[h].pos = s /\ job'[h].todo = job[h].todo /\ open' = open
    BY <1>1, <1>3 DEF FillPending, Buy, Jobs, JobType
  <2>3. QED
    BY <1>1, <2>1, <2>2, NoneAssumption DEF InMap, JobType
<1>4. CASE Fill(h, s)
  <2>1. job[h].pos = s /\ job[h].at = "fill" /\ open' = open
    BY <1>4 DEF Fill, At, Pos
  <2>2. \/ job'[h].at = "fillUpdate" /\ job'[h].pos = s /\ job'[h].todo = job[h].todo
        \/ job'[h].at = "idle" /\ job'[h].pos = None
    BY <1>1, <1>4, <2>1, EndEffect DEF Fill, Activate, Write, Jobs, JobType
  <2>3. QED
    BY <1>1, <2>1, <2>2 DEF InMap
<1>5. CASE FillUpdate(h, s) \/ CancelRow(h, s) \/ CloseRow(h, s) \/ CloseOutcome(h, s)
        \/ CloseSignal(h, s) \/ Release(h, s)
  <2>1. job[h].pos = s /\ job[h].at \notin {"idle", "loop", "flag"} /\ open' \subseteq open /\ open \ {s} \subseteq open'
    BY <1>5 DEF FillUpdate, CancelRow, CloseRow, CloseOutcome, CloseSignal, Release, At, Pos, stored
  <2>2. /\ job'[h].pos = s /\ job'[h].todo = job[h].todo
        /\ FillUpdate(h, s) => job'[h].at = "accept" /\ open' = open /\ job[h].at = "fillUpdate"
        /\ ~FillUpdate(h, s) => job'[h].at \in {"cancelSignal", "closeOutcome", "closeSignal", "release", "emit"}
    BY <1>1, <1>5, <2>1 DEF FillUpdate, CancelRow, CloseRow, CloseOutcome, CloseSignal, Release, Goto,
       At, Jobs, JobType
  <2>3. QED
    BY <1>1, <2>1, <2>2 DEF InMap
<1>6. CASE CancelPending(h, s) \/ LoadCandles(h, s)
  <2>1. job[h].pos = None /\ job[h].todo \subseteq open \cup {None}
    BY <1>1, <1>6 DEF CancelPending, LoadCandles, Reaches, At, InMap
  <2>2. /\ job'[h].at \in {"cancel", "candles"} /\ job'[h].pos = s /\ job'[h].todo = job[h].todo
        /\ open' \subseteq open /\ open \ {s} \subseteq open'
    BY <1>1, <1>6 DEF CancelPending, LoadCandles, GotoFor, Jobs, JobType
  <2>3. QED
    BY <1>1, <2>1, <2>2, NoneAssumption DEF InMap, JobType
<1>7. CASE CancelSignal(h, s) \/ Update(h, s) \/ EmitClosed(h, s)
  <2>1. job[h].pos = s /\ open' = open /\ job[h].at \notin {"idle", "loop", "flag"} /\ (Continue(h) \/ End(h))
    BY <1>7 DEF CancelSignal, Update, EmitClosed, At, Pos
  <2>2. \/ job'[h].at = "loop" /\ job'[h].pos = None /\ job'[h].todo = job[h].todo \ {s}
        \/ job'[h].at = "idle" /\ job'[h].pos = None
    BY <1>1, <2>1, ContinueEffect, EndEffect DEF Pos
  <2>3. QED
    BY <1>1, <2>1, <2>2 DEF InMap
<1>8. CASE Invalidate(h, s) \/ ManualClose(h, s) \/ StepPosition(h, s) \/ Sold(h, s)
  <2>1. job[h].pos \in {s, None} /\ open' = open /\ job[h].at # "idle"
    BY <1>1, <1>8 DEF Invalidate, ManualClose, StepPosition, Sold, Reaches, At, Pos, InMap, stored
  <2>2. PICK sells : Sell(h, s, sells)
    <3>1. CASE Invalidate(h, s) \/ ManualClose(h, s)
      BY <3>1 DEF Invalidate, ManualClose, CloseManual
    <3>2. CASE StepPosition(h, s)
      BY <3>2 DEF StepPosition
    <3>3. CASE Sold(h, s)
      BY <3>3 DEF Sold
    <3> QED
      BY <1>8, <3>1, <3>2, <3>3
  <2>3. job'[h].at \in {"settled", "selling"} /\ job'[h].pos = s /\ job'[h].todo = job[h].todo
    BY <1>1, <2>2 DEF Sell, Jobs, JobType
  <2>4. QED
    BY <1>1, <2>1, <2>3, NoneAssumption DEF InMap, JobType
<1>9. CASE Settled(h, s)
  <2>1. job[h].pos = s /\ open' = open /\ job[h].at # "idle"
    BY <1>9 DEF Settled, At, Pos
  <2>2. job'[h].at \in {"update", "close"} /\ job'[h].pos = s /\ job'[h].todo = job[h].todo
    BY <1>1, <1>9, <2>1 DEF Settled, Write, Jobs, JobType
  <2>3. QED
    BY <1>1, <2>1, <2>2 DEF InMap
<1>10. QED
  BY <1>2, <1>3, <1>4, <1>5, <1>6, <1>7, <1>8, <1>9

LEMMA LoopAlone ==
  ASSUME TypeInv, NEW h \in Loops, PositionStep(h) \/ (h = "commands" /\ SetPaused)
  PROVE  Others(h) /\ UNCHANGED budget
<1>1. job \in Jobs /\ h \in Handlers
  BY DEF TypeInv, Loops
<1>2. CASE SetPaused /\ h = "commands"
  BY <1>1, <1>2 DEF SetPaused, End, Others, Jobs
<1>3. CASE MarkAccepted(h) \/ Protected(h) \/ EndLoop(h)
  BY <1>1, <1>3 DEF MarkAccepted, Protected, EndLoop, Goto, End, Others, Jobs
<1>4. ASSUME NEW s \in Signals,
             \/ Skip(h, s) \/ FillPending(h, s) \/ Fill(h, s) \/ FillUpdate(h, s)
             \/ CancelPending(h, s) \/ CancelRow(h, s) \/ CancelSignal(h, s)
             \/ LoadCandles(h, s) \/ Settled(h, s) \/ Update(h, s)
             \/ CloseRow(h, s) \/ CloseOutcome(h, s) \/ CloseSignal(h, s) \/ Release(h, s) \/ EmitClosed(h, s)
      PROVE  Others(h) /\ UNCHANGED budget
  BY <1>1, <1>4 DEF Skip, FillPending, Buy, Fill, Activate, FillUpdate, CancelPending, CancelRow, CancelSignal,
     LoadCandles, Settled, Update, CloseRow, CloseOutcome, CloseSignal, Release, EmitClosed,
     Goto, GotoFor, Write, End, Continue, Others, Jobs
<1>5. ASSUME NEW s \in Signals, Invalidate(h, s) \/ StepPosition(h, s) \/ ManualClose(h, s) \/ Sold(h, s)
      PROVE  Others(h) /\ UNCHANGED budget
  BY <1>1, <1>5 DEF Invalidate, StepPosition, ManualClose, CloseManual, Sold, Sell, Continue, Others, Jobs
<1>6. QED
  BY <1>2, <1>3, <1>4, <1>5 DEF PositionStep

\* A step of loop h, or its start or end.
LEMMA LoopRoom ==
  ASSUME TypeInv, LimitInv, NEW h \in Loops, \A i \in Loops \ {h} : ~Busy(i),
         Others(h), Bounded', FirstLife' => FirstLife,
         FirstLife => InMap(h)' /\ open' \subseteq open
  PROVE  LimitInv'
<1>1. job'["signals"] = job["signals"] /\ \A i \in Loops \ {h} : job'[i] = job[i]
  BY DEF Others, Loops, Handlers
<1>2. \A i, k \in Loops : Busy(i)' /\ Busy(k)' => i = k
  BY <1>1 DEF Busy
<1>3. ASSUME FirstLife' PROVE Room'
  <2>1. Room /\ open' \subseteq open /\ InMap(h)'
    BY <1>3 DEF LimitInv
  <2>2. IsFiniteSet(open') /\ Cardinality(open') <= MaxOpen
    <3>1. IsFiniteSet(open') /\ Cardinality(open') <= Cardinality(open)
      BY <2>1, FS_Subset DEF Room
    <3>2. Cardinality(open') \in Nat /\ Cardinality(open) \in Nat /\ Cardinality(open) <= MaxOpen /\ MaxOpen \in Nat
      BY <2>1, <3>1, FS_CardinalityType, BoundAssumption DEF Room
    <3>3. QED
      BY <3>1, <3>2
  <2>3. ASSUME NEW i \in Loops \ {h} PROVE InMap(i)'
    <3>1. job'[i].at = "idle" /\ job'[i].pos = None
      BY <1>1, <2>1 DEF Busy, Room, InMap
    <3>2. QED
      BY <3>1 DEF InMap
  <2>4. Counted'
    BY <1>1, <2>1 DEF Room, Counted, Entering
  <2>5. QED
    BY <2>1, <2>2, <2>3, <2>4 DEF Room
<1>4. QED
  BY <1>2, <1>3 DEF LimitInv

LEMMA LoopLimit ==
  ASSUME TypeInv, LimitInv, NEW h \in Loops, PositionStep(h) \/ (h = "commands" /\ SetPaused)
  PROVE  LimitInv'
<1>1. Busy(h) /\ job \in Jobs /\ h \in Handlers /\ job[h] \in JobType
  <2>1. job \in Jobs /\ h \in Handlers /\ job[h] \in JobType
    BY DEF TypeInv, Loops, Jobs
  <2>2. Busy(h)
    BY DEF PositionStep, SetPaused, MarkAccepted, Protected, EndLoop, Skip, FillPending, Fill, FillUpdate,
     CancelPending, CancelRow, CancelSignal, Invalidate, LoadCandles, StepPosition, ManualClose,
     Sold, Settled, Update, CloseRow, CloseOutcome, CloseSignal, Release, EmitClosed, Reaches, At, Busy
  <2>3. QED
    BY <2>1, <2>2
<1>2. \A i \in Loops \ {h} : ~Busy(i)
  BY <1>1 DEF LimitInv
<1>3. Others(h) /\ Bounded' /\ (FirstLife' <=> FirstLife)
  BY LoopAlone DEF LimitInv, Bounded, FirstLife
<1>4. ASSUME FirstLife PROVE InMap(h)' /\ open' \subseteq open
  <2>1. InMap(h)
    BY <1>4 DEF LimitInv, Room
  <2>2. CASE SetPaused /\ h = "commands"
    BY <1>1, <2>2, EndEffect DEF SetPaused, InMap
  <2>3. CASE EndLoop(h)
    <3>1. open' = open /\ job[h].pos = None /\ job[h].todo = {}
      BY <2>1, <2>3 DEF EndLoop, At, InMap
    <3>2. job'[h].pos = None /\ (job'[h].at = "idle" \/ (job'[h].at = "flag" /\ job'[h].todo = {}))
      BY <1>1, <2>3, <3>1, EndEffect, GotoEffect DEF EndLoop, Labels, LoopLabels
    <3>3. QED
      BY <3>1, <3>2 DEF InMap
  <2>4. CASE MarkAccepted(h) \/ Protected(h)
    <3>1. job[h].pos \in open /\ job[h].at # "idle"
      BY <2>1, <2>4 DEF MarkAccepted, Protected, At, InMap
    <3>2. open' = open
      BY <2>4, <3>1 DEF MarkAccepted, Protected, Pos
    <3>3. job'[h].at \in {"protect", "candles"} /\ job'[h].pos = job[h].pos /\ job'[h].todo = job[h].todo
      BY <1>1, <2>4, GotoEffect DEF MarkAccepted, Protected, Labels, LoopLabels, Loops
    <3>4. QED
      BY <2>1, <3>1, <3>2, <3>3 DEF InMap
  <2>5. QED
    BY <2>1, <2>2, <2>3, <2>4, LoopInMap DEF PositionStep
<1>5. QED
  BY <1>2, <1>3, <1>4, LoopRoom

LEMMA StartLimit ==
  ASSUME TypeInv, LimitInv, Serial, NEW h \in Loops,
         StartCandle(h) \/ (h = "commands" /\ \E type \in Commands : StartCommand(type))
  PROVE  LimitInv'
<1>1. /\ MayStart(h) /\ Others(h)
      /\ job'[h].at = "loop" /\ job'[h].pos = job[h].pos /\ job'[h].todo \subseteq open
  <2>1. CASE StartCandle(h)
    BY <2>1 DEF StartCandle, Others, TypeInv, Jobs, JobType, Loops
  <2>2. ASSUME NEW type \in Commands, StartCommand(type), h = "commands"
        PROVE  /\ MayStart(h) /\ Others(h)
               /\ job'[h].at = "loop" /\ job'[h].pos = job[h].pos /\ job'[h].todo \subseteq open
    <3>1. MayStart(h)
      BY <2>2 DEF StartCommand
    <3>2. QED
      BY <2>2, <3>1, CommandStarts
  <2>3. QED
    BY <2>1, <2>2
<1>2. ~Busy(h) /\ \A i \in Loops \ {h} : ~Busy(i)
  BY <1>1, StartsAlone
<1>3. open' = open /\ Bounded' /\ (FirstLife' <=> FirstLife)
  <2>1. CASE StartCandle(h)
    BY <2>1 DEF StartCandle, LimitInv, Bounded, FirstLife
  <2>2. ASSUME NEW type \in Commands, StartCommand(type)
        PROVE  open' = open /\ Bounded' /\ (FirstLife' <=> FirstLife)
    <3>1. open' = open /\ budget.commands > 0 /\ budget' = [budget EXCEPT !.commands = @ - 1]
      BY <2>2 DEF StartCommand
    <3>2. QED
      BY <3>1 DEF LimitInv, Bounded, FirstLife
  <2>3. QED
    BY <2>1, <2>2
<1>4. FirstLife => InMap(h)'
  <2>1. FirstLife => job[h].pos = None
    BY <1>2 DEF LimitInv, Room, InMap, Busy
  <2>2. QED
    BY <1>1, <1>3, <2>1 DEF InMap
<1>5. QED
  BY <1>2, <1>1, <1>3, <1>4, LoopRoom

-----------------------------------------------------------------------------
(* The signal consumer, failing calls and crashes *)

LEMMA ConsumerLimit ==
  ASSUME TypeInv, LimitInv,
         SignalStep \/ MarkAccepted("signals") \/ Protected("signals") \/ \E s \in Signals : TakeSignal(s)
  PROVE  LimitInv'
<1> DEFINE c == job["signals"]
<1>1. c \in JobType /\ "signals" \in Handlers /\ job \in Jobs /\ \A h \in Loops : job'[h] = job[h]
  BY ConsumerAlone DEF TypeInv, Handlers, Jobs, Others, Loops
<1>2. UNCHANGED budget
  BY DEF SignalStep, LoadFlags, CopyOpen, Reject, Accept, MarkRejected, OpenLong, Insert, Ack, MarkAccepted,
     Protected, TakeSignal
<1>3. Bounded' /\ (FirstLife' <=> FirstLife) /\ \A h, i \in Loops : Busy(h)' /\ Busy(i)' => h = i
  BY <1>1, <1>2 DEF LimitInv, Bounded, FirstLife, Busy
<1>4. ASSUME Room PROVE Room'
  <2>1. ASSUME UNCHANGED open, Counted' PROVE Room'
    BY <1>1, <1>4, <2>1 DEF Room, InMap
  <2>2. ASSUME UNCHANGED open, job'["signals"].at \notin {"exists"} \cup Entering PROVE Room'
    BY <2>1, <2>2 DEF Counted
  <2>3. ASSUME c.at \in Entering, NEW s \in Signals, open' = open \cup {s},
               job'["signals"].at \notin {"exists"} \cup Entering
        PROVE  Room'
    <3>1. /\ IsFiniteSet(c.todo) /\ open \subseteq c.todo /\ Cardinality(c.todo) < MaxOpen
      BY <1>4, <2>3 DEF Room, Counted
    <3>2. /\ IsFiniteSet(c.todo \cup {s}) /\ Cardinality(c.todo \cup {s}) <= Cardinality(c.todo) + 1
          /\ Cardinality(c.todo) \in Nat
      <4>1. Cardinality(c.todo) \in Nat
        BY <3>1, FS_CardinalityType
      <4>2. /\ IsFiniteSet(c.todo \cup {s})
            /\ Cardinality(c.todo \cup {s}) = IF s \in c.todo THEN Cardinality(c.todo) ELSE Cardinality(c.todo) + 1
        BY <3>1, FS_AddElement
      <4>3. QED
        BY <4>1, <4>2
    <3>3. open' \in SUBSET (c.todo \cup {s})
      BY <2>3, <3>1
    <3>4. IsFiniteSet(open') /\ Cardinality(open') <= Cardinality(c.todo \cup {s})
      BY <3>2, <3>3, FS_Subset
    <3>5. Cardinality(open') \in Nat /\ Cardinality(c.todo \cup {s}) \in Nat /\ MaxOpen \in Nat
      BY <3>2, <3>4, FS_CardinalityType, BoundAssumption
    <3>6. Cardinality(open') <= MaxOpen
      BY <3>1, <3>2, <3>4, <3>5
    <3>7. \A h \in Loops : InMap(h)'
      BY <1>1, <1>4, <2>3 DEF Room, InMap
    <3>8. QED
      BY <2>3, <3>4, <3>6, <3>7 DEF Room, Counted
  <2>4. CASE LoadFlags \/ \E s \in Signals : TakeSignal(s) \/ Reject(s) \/ MarkRejected(s) \/ Ack(s)
    <3>1. UNCHANGED open /\ job'["signals"].at \in {"history", "flags", "reject", "ack", "idle"}
      BY <1>1, <2>4, EndEffect DEF LoadFlags, TakeSignal, Reject, MarkRejected, Ack, Goto, stored, Jobs, JobType
    <3>2. QED
      BY <2>2, <3>1 DEF Entering
  <2>5. CASE CopyOpen
    <3>1. UNCHANGED open /\ job'["signals"].at = "exists" /\ job'["signals"].todo = open
      BY <1>1, <2>5 DEF CopyOpen, Jobs, JobType
    <3>2. Counted'
      BY <1>4, <3>1 DEF Counted, Room, Entering
    <3>3. QED
      BY <2>1, <3>1, <3>2
  <2>6. ASSUME NEW s \in Signals, Accept(s) PROVE Room'
    <3>1. c.at = "exists" /\ ~(Cardinality(c.todo) >= MaxOpen) /\ UNCHANGED open
      BY <2>6 DEF Accept, Refused, At
    <3>2. IsFiniteSet(c.todo) /\ open \subseteq c.todo /\ Cardinality(c.todo) \in Nat
      BY <1>4, <3>1, FS_CardinalityType DEF Room, Counted
    <3>3. Cardinality(c.todo) < MaxOpen
      BY <3>1, <3>2, BoundAssumption
    <3>4. job'["signals"].at \in Entering /\ job'["signals"].todo = c.todo
      BY <1>1, <2>6 DEF Accept, Write, Buy, Jobs, JobType, Entering
    <3>5. Counted'
      BY <3>1, <3>2, <3>3, <3>4 DEF Counted
    <3>6. QED
      BY <2>1, <3>1, <3>5
  <2>7. CASE \/ MarkAccepted("signals") \/ \E s \in Signals : OpenLong(s) \/ (~NextOpen /\ Insert(s))
    <3>1. c.at \in Entering /\ UNCHANGED open
      BY <2>7 DEF MarkAccepted, OpenLong, Insert, At, Entering
    <3>2. \/ job'["signals"].at \in Entering /\ job'["signals"].todo = c.todo
          \/ job'["signals"].at = "idle"
      BY <1>1, <2>7, EndEffect DEF MarkAccepted, OpenLong, Insert, Activate, Goto, Write, Jobs, JobType, Entering
    <3>3. Counted'
      BY <1>4, <3>1, <3>2 DEF Room, Counted, Entering
    <3>4. QED
      BY <2>1, <3>1, <3>3
  <2>8. CASE Protected("signals") \/ \E s \in Signals : NextOpen /\ Insert(s)
    <3>1. c.at \in Entering /\ \E s \in Signals : open' = open \cup {s}
      BY <1>1, <2>8 DEF Protected, Insert, At, Pos, Entering, TypeInv, AtHand
    <3>2. job'["signals"].at = "ack"
      BY <1>1, <2>8, GotoEffect DEF Protected, Insert, Labels, SignalLabels
    <3>3. QED
      BY <2>3, <3>1, <3>2 DEF Entering
  <2>9. QED
    BY <2>4, <2>5, <2>6, <2>7, <2>8 DEF SignalStep
<1>5. QED
  BY <1>3, <1>4 DEF LimitInv

LEMMA FailLimit == ASSUME TypeInv, LimitInv, NEW h \in Handlers, Fail(h) PROVE LimitInv'
<1>1. /\ Others(h) /\ job'[h].at = "idle" /\ job'[h].pos = None /\ open' = open
      /\ Busy(h)
  BY EndEffect DEF Fail, TypeInv, Fallible, Busy
<1>2. Bounded' /\ (FirstLife' <=> FirstLife)
  BY DEF Fail, LimitInv, Bounded, FirstLife
<1>3. CASE h \in Loops
  <2>1. InMap(h)' /\ open' \subseteq open
    BY <1>1 DEF InMap
  <2>2. QED
    BY <1>1, <1>2, <1>3, <2>1, LoopRoom DEF LimitInv
<1>4. CASE h = "signals"
  <2>1. \A i \in Loops : job'[i] = job[i]
    BY <1>1, <1>4 DEF Others, Loops
  <2>2. Room => Room'
    BY <1>1, <1>4, <2>1 DEF Room, InMap, Counted, Entering
  <2>3. QED
    BY <1>2, <2>1, <2>2 DEF LimitInv, Busy
<1>5. QED
  BY <1>3, <1>4 DEF Loops

LEMMA CrashLimit == ASSUME TypeInv, LimitInv, Crash PROVE LimitInv'
<1>1. Bounded' /\ ~FirstLife'
  BY BoundAssumption DEF Crash, LimitInv, Bounded, FirstLife
<1>2. \A h \in Loops : ~Busy(h)'
  BY DEF Crash, Busy, Loops, Idle
<1>3. QED
  BY <1>1, <1>2 DEF LimitInv

-----------------------------------------------------------------------------
(* The limit *)

LEMMA LimitInit == ASSUME Init PROVE LimitInv
<1>1. Bounded /\ open = {} /\ \A h \in Handlers : job[h] = Idle
  BY BoundAssumption DEF Init, Bounded
<1>2. \A h \in Handlers : job[h].at = "idle" /\ job[h].pos = None
  BY <1>1 DEF Idle
<1>3. IsFiniteSet(open) /\ Cardinality(open) <= MaxOpen
  BY <1>1, FS_EmptySet, BoundAssumption
<1>4. \A h \in Loops : InMap(h) /\ ~Busy(h)
  BY <1>2 DEF InMap, Busy, Loops
<1>5. Counted
  BY <1>2 DEF Counted, Entering, Handlers
<1>6. QED
  BY <1>1, <1>3, <1>4, <1>5 DEF LimitInv, Room

LEMMA LimitStep == ASSUME TypeInv, LimitInv, Serial, [Next]_vars PROVE LimitInv'
<1>1. CASE UNCHANGED vars
  BY <1>1 DEF vars, stored, LimitInv, Bounded, Busy, FirstLife, Room, InMap, Counted, Entering
<1>2. ASSUME NEW h \in Handlers, Step(h) PROVE LimitInv'
  <2>1. CASE h = "signals"
    BY <1>2, <2>1, ConsumerLimit, EnteredSteps DEF Step
  <2>2. CASE h # "signals"
    BY <1>2, <2>2, LoopLimit DEF Step, Loops
  <2>3. QED
    BY <2>1, <2>2
<1>3. ASSUME NEW h \in Handlers, StartCandle(h) PROVE LimitInv'
  BY <1>3, StartLimit DEF StartCandle, Candles, Loops
<1>4. ASSUME NEW type \in Commands, StartCommand(type) PROVE LimitInv'
  <2>1. "commands" \in Loops
    BY DEF Loops, Handlers
  <2>2. QED
    BY <1>4, <2>1, StartLimit
<1>5. QED
  BY <1>1, <1>2, <1>3, <1>4, ConsumerLimit, FailLimit, CrashLimit DEF Next

\* Until the first crash the positions and pending entries never exceed risk.max_open,
\* although the consumer counts a copy of them before three awaits and enters its own
\* after: what else runs in between only takes from the map, failing calls included.
\* Candle and command handlers take turns; of the lives after a crash, where a signal
\* may be delivered again, it says nothing.
THEOREM MaxOpenIsKept == ASSUME Serial PROVE Spec => []MaxOpenKept
<1>1. Init => LimitInv
  BY LimitInit
<1>2. TypeInv /\ LimitInv /\ [Next]_vars => LimitInv'
  BY LimitStep
<1>3. LimitInv => MaxOpenKept
  BY DEF LimitInv, Room, MaxOpenKept
<1>4. QED
  BY <1>1, <1>2, <1>3, TypeInvariance, PTL DEF Spec
=============================================================================
