--------------------------- MODULE RiskLimitsProofs ---------------------------
(***************************************************************************)
(* The loss limits hold for every set of signals, every result a position  *)
(* may close with, every limit and any number of crashes and failing calls.*)
(***************************************************************************)
EXTENDS RiskLimits, Sums

RowStates   == {"none", "pending", "open", "closing", "closed", "cancelled", "rejected"}
CheckStates == {"idle", "cancel", "outcome", "release", "history", "daily", "announceDaily",
                "cooldown", "announceCooldown"}

Rows(t)   == [state : RowStates, r : Results \cup {0}, at : 0 .. t]
Entries(seen) == [at : {"idle", "history", "exists"}, sig : Signals \cup {None}, seen : SUBSET seen,
                  run : SUBSET seen, open : SUBSET Signals]
Checks(seen)    == [at : CheckStates, seen : SUBSET seen, run : SUBSET seen]
Events(t, seen) == [type : EventTypes, ts : 0 .. t, by : seen, seen : SUBSET seen, run : SUBSET seen]
Budgets         == [crashes : 0 .. MaxCrashes, faults : 0 .. MaxFaults]

\* The rows that take a slot once they are restored.
Live == {s \in Signals : row[s].state \in {"pending", "open"}}

\* What the stage of a position's handler says of its row.
StageOK(s) ==
  /\ check[s].at = "cancel" => row[s].state = "pending" /\ s \notin open
  /\ check[s].at = "outcome" => row[s].state = "closing" /\ row[s].at = now /\ s \in open
  /\ check[s].at \notin {"idle", "cancel", "outcome"} => row[s].state = "closed" /\ row[s].at = now

\* A row that takes a slot, or lacks its outcome, is in the map unless something failed
\* or is under way; a signal being handled has no row.
PlaceOK(s) ==
  /\ row[s].state \in {"pending", "open"} => s \in open \cup uncounted \/ check[s].at = "cancel"
  /\ row[s].state = "closing" => s \in open \cup uncounted
  /\ s \in open \cup uncounted => row[s].state # "none"
  /\ entry.at # "idle" /\ entry.sig = s => row[s].state = "none"

Shape ==
  /\ \A s \in Signals : StageOK(s) /\ PlaceOK(s)
  /\ entry.at # "idle" => entry.sig \in Signals

TypeInv == TypeOK /\ Shape

LEMMA TypeParts ==
  TypeOK <=> /\ now \in 0 .. LastTick
             /\ row \in [Signals -> Rows(now)]
             /\ open \subseteq Signals
             /\ entry \in Entries(Closed)
             /\ check \in [Signals -> Checks(Closed)]
             /\ events \subseteq Events(now, Closed)
             /\ budget \in Budgets
             /\ uncounted \subseteq Signals /\ unchecked \subseteq Closed
  BY DEF TypeOK, Rows, Entries, Checks, Events, RowStates, CheckStates, Budgets

LEMMA Wider ==
  ASSUME NEW A, NEW B, A \subseteq B, NEW t \in Nat, NEW u \in Nat, t <= u
  PROVE  /\ Rows(t) \subseteq Rows(u)
         /\ Entries(A) \subseteq Entries(B)
         /\ Checks(A) \subseteq Checks(B)
         /\ Events(t, A) \subseteq Events(u, B)
<1>1. SUBSET A \subseteq SUBSET B /\ 0 .. t \subseteq 0 .. u
  OBVIOUS
<1>2. Rows(t) \subseteq Rows(u)
  BY <1>1 DEF Rows
<1>3. Entries(A) \subseteq Entries(B)
  BY <1>1 DEF Entries
<1>4. Checks(A) \subseteq Checks(B)
  BY <1>1 DEF Checks
<1>5. Events(t, A) \subseteq Events(u, B)
  BY <1>1 DEF Events
<1> QED
  BY <1>2, <1>3, <1>4, <1>5

LEMMA RowR == ASSUME NEW t, NEW q \in Rows(t) PROVE q.r \in Results \cup {0} /\ q.r \in Int
<1>1. Results \cup {0} \subseteq Int
  BY ResultAssumption
<1>2. q.r \in Results \cup {0}
  BY DEF Rows
<1> QED
  BY <1>1, <1>2

LEMMA LossRunsIn == ASSUME NEW seen, NEW run \in LossRuns(seen) PROVE run \subseteq seen
  BY DEF LossRuns

LEMMA SpendType == ASSUME budget \in Budgets, NEW what \in {"crashes", "faults"}, Spend(what) PROVE budget' \in Budgets
BY BoundAssumption DEF Budgets, Spend

\* What is done on the way of a signal, or to a pending entry, leaves the checks alone.
EntryStep(s) ==
  \/ TakeSignal(s) \/ CopyContext \/ Reject(s) \/ Accept(s) \/ Fill(s) \/ EntryFails \/ AcceptFails(s)

LEMMA EntrySteps ==
  ASSUME TypeInv, NEW s \in Signals, EntryStep(s)
  PROVE  /\ UNCHANGED <<now, check, events, unchecked>> /\ Closed' = Closed
         /\ \A t \in Closed : row'[t] = row[t]
         /\ \A t \in Signals : t # s => row'[t] = row[t]
<1> USE DEF TypeInv, Shape, PlaceOK
<1>1. row \in [Signals -> Rows(now)]
  BY TypeParts
<1>2. CASE TakeSignal(s) \/ CopyContext \/ EntryFails
  <2>1. UNCHANGED <<now, row, check, events, unchecked>>
    BY <1>2 DEF TakeSignal, CopyContext, EntryFails, history
  <2> QED
    BY <2>1 DEF Closed
<1>3. CASE Reject(s) \/ Accept(s) \/ Fill(s) \/ AcceptFails(s)
  <2>1. UNCHANGED <<now, check, events, unchecked>>
    BY <1>3 DEF Reject, Accept, Fill, AcceptFails, history
  <2>2. PICK state \in {"pending", "open", "rejected"} : row' = [row EXCEPT ![s].state = state]
    BY <1>3 DEF Reject, Accept, Fill, AcceptFails
  <2>3. row[s].state # "closed"
    BY <1>3 DEF Reject, Accept, Fill, AcceptFails
  <2>4. \A t \in Signals : t # s => row'[t] = row[t]
    BY <1>1, <2>2
  <2>5. row'[s].state # "closed"
    BY <1>1, <2>2 DEF Rows
  <2> QED
    BY <2>1, <2>3, <2>4, <2>5 DEF Closed
<1> QED
  BY <1>2, <1>3 DEF EntryStep

LEMMA EntryTypes == ASSUME TypeInv, NEW s \in Signals, EntryStep(s) PROVE TypeInv'
<1>1. /\ now \in 0 .. LastTick /\ row \in [Signals -> Rows(now)] /\ open \subseteq Signals
      /\ entry \in Entries(Closed) /\ check \in [Signals -> Checks(Closed)]
      /\ events \subseteq Events(now, Closed) /\ budget \in Budgets
      /\ uncounted \subseteq Signals /\ unchecked \subseteq Closed /\ Shape
  BY TypeParts DEF TypeInv
<1>2. /\ UNCHANGED <<now, check, events, unchecked>> /\ Closed' = Closed
      /\ \A t \in Signals : t # s => row'[t] = row[t]
  BY EntrySteps
<1>3. NoEntry \in Entries(Closed) /\ NoEntry.at = "idle"
  BY DEF NoEntry, Entries
<1>4. row' \in [Signals -> Rows(now)] /\ open' \subseteq Signals /\ entry' \in Entries(Closed)
      /\ budget' \in Budgets /\ uncounted' \subseteq Signals
  <2>1. CASE TakeSignal(s)
    BY <1>1, <1>3, <2>1 DEF TakeSignal, Entries, NoEntry, history
  <2>2. CASE CopyContext
    BY <1>1, <2>2, LossRunsIn DEF CopyContext, Entries, history
  <2>3. CASE Reject(s) \/ Accept(s) \/ Fill(s)
    BY <1>1, <1>3, <2>3 DEF Reject, Accept, Fill, Rows, RowStates, history
  <2>4. CASE EntryFails \/ AcceptFails(s)
    <3>1. budget' \in Budgets
      BY <1>1, <2>4, SpendType DEF EntryFails, AcceptFails
    <3>2. row' \in [Signals -> Rows(now)] /\ open' = open /\ entry' = NoEntry /\ uncounted' \subseteq Signals
      BY <1>1, <2>4 DEF EntryFails, AcceptFails, Rows, RowStates, history
    <3> QED
      BY <1>1, <1>3, <3>1, <3>2
  <2> QED
    BY <2>1, <2>2, <2>3, <2>4 DEF EntryStep
<1>5. entry'.at # "idle" => entry'.sig \in Signals /\ row'[entry'.sig].state = "none"
  <2>1. CASE TakeSignal(s)
    BY <2>1 DEF TakeSignal, NoEntry
  <2>2. CASE CopyContext
    BY <1>1, <2>2 DEF CopyContext, Shape, PlaceOK, Entries
  <2>3. CASE Reject(s) \/ Accept(s) \/ EntryFails \/ AcceptFails(s)
    BY <2>3 DEF Reject, Accept, EntryFails, AcceptFails, NoEntry
  <2>4. CASE Fill(s)
    BY <1>1, <2>4 DEF Fill, Shape, PlaceOK, Rows
  <2> QED
    BY <2>1, <2>2, <2>3, <2>4 DEF EntryStep
<1>6. ASSUME NEW t \in Signals, t # s PROVE StageOK(t)' /\ PlaceOK(t)'
  <2>1. row'[t] = row[t] /\ StageOK(t) /\ PlaceOK(t)
    BY <1>1, <1>2, <1>6 DEF Shape
  <2>2. (t \in open' <=> t \in open) /\ (t \in uncounted' <=> t \in uncounted)
    BY <1>6 DEF EntryStep, TakeSignal, CopyContext, Reject, Accept, Fill, EntryFails, AcceptFails, history
  <2>3. StageOK(t)'
    BY <1>2, <2>1, <2>2 DEF StageOK
  <2>4. PlaceOK(t)'
    BY <1>2, <1>5, <2>1, <2>2 DEF PlaceOK
  <2> QED
    BY <2>3, <2>4
<1>7. StageOK(s)' /\ PlaceOK(s)'
  <2>1. StageOK(s) /\ PlaceOK(s)
    BY <1>1 DEF Shape
  <2>2. CASE TakeSignal(s) \/ CopyContext \/ EntryFails
    <3>1. UNCHANGED <<row, open, uncounted>>
      BY <2>2 DEF TakeSignal, CopyContext, EntryFails, history
    <3> QED
      BY <1>2, <1>5, <2>1, <3>1 DEF StageOK, PlaceOK
  <2>3. CASE Reject(s) \/ Accept(s) \/ AcceptFails(s)
    <3>1. PICK state \in {"pending", "open", "rejected"} : row' = [row EXCEPT ![s].state = state]
      BY <2>3 DEF Reject, Accept, AcceptFails
    <3>2. row'[s].state = state /\ row[s].state = "none" /\ entry'.at = "idle"
      BY <1>1, <1>3, <2>1, <2>3, <3>1 DEF Reject, Accept, AcceptFails, PlaceOK, Rows
    <3>3. check[s].at = "idle" /\ check'[s].at = "idle"
      BY <1>2, <2>1, <3>2 DEF StageOK
    <3>4. state \in {"pending", "open"} => s \in open' \cup uncounted'
      BY <1>1, <2>3, <3>1, <3>2 DEF Reject, Accept, AcceptFails, Rows
    <3> QED
      BY <3>2, <3>3, <3>4 DEF StageOK, PlaceOK
  <2>4. CASE Fill(s)
    <3>1. row'[s].state = "open" /\ UNCHANGED <<open, uncounted, entry, check>> /\ s \in open /\ row[s].state = "pending"
      BY <1>1, <2>4 DEF Fill, Rows, history
    <3>2. check[s].at = "idle" /\ ~(entry.at # "idle" /\ entry.sig = s)
      BY <2>1, <3>1 DEF StageOK, PlaceOK
    <3> QED
      BY <3>1, <3>2 DEF StageOK, PlaceOK
  <2> QED
    BY <2>2, <2>3, <2>4 DEF EntryStep
<1>8. Shape'
  BY <1>5, <1>6, <1>7 DEF Shape
<1>9. TypeOK'
  BY <1>1, <1>2, <1>4 DEF TypeOK, Rows, Entries, Checks, Events, RowStates, CheckStates, Budgets
<1> QED
  BY <1>8, <1>9 DEF TypeInv

\* What is done to an entry that is cancelled and to a position that is finished,
\* before it has its outcome, and the failures there and behind it.
EndStep(s) ==
  \/ Cancel(s) \/ CancelRow(s) \/ (\E r \in Results : Close(s, r))
  \/ CancelFails(s) \/ OutcomeFails(s) \/ CheckFails(s)

LEMMA EndSteps ==
  ASSUME TypeInv, NEW s \in Signals, EndStep(s)
  PROVE  /\ UNCHANGED <<now, entry, events>> /\ Closed' = Closed
         /\ \A t \in Closed : row'[t] = row[t]
         /\ \A t \in Signals : t # s => row'[t] = row[t] /\ check'[t] = check[t]
         /\ check'[s].at \in {"idle", "cancel", "outcome"}
         /\ row'[s].state # "none"
<1>1. row \in [Signals -> Rows(now)] /\ check \in [Signals -> Checks(Closed)] /\ StageOK(s) /\ PlaceOK(s)
  BY TypeParts DEF TypeInv, Shape
<1>2. check[s] \in Checks(Closed)
  BY <1>1
<1>3. CASE Cancel(s)
  <2>1. /\ UNCHANGED <<now, row, entry, events>> /\ row[s].state = "pending"
        /\ check' = [check EXCEPT ![s] = [check[s] EXCEPT !.at = "cancel"]]
    BY <1>3 DEF Cancel, history
  <2>2. check'[s].at = "cancel" /\ \A t \in Signals : t # s => check'[t] = check[t]
    BY <1>1, <1>2, <2>1 DEF Checks
  <2> QED
    BY <2>1, <2>2 DEF Closed
<1>4. CASE CancelRow(s)
  <2>1. /\ UNCHANGED <<now, entry, events>> /\ row' = [row EXCEPT ![s].state = "cancelled"]
        /\ check' = [check EXCEPT ![s] = NotClosed] /\ row[s].state = "pending"
    BY <1>1, <1>4 DEF CancelRow, StageOK, history
  <2>2. /\ row'[s].state = "cancelled" /\ check'[s] = NotClosed
        /\ \A t \in Signals : t # s => row'[t] = row[t] /\ check'[t] = check[t]
    BY <1>1, <2>1 DEF Rows
  <2> QED
    BY <2>1, <2>2 DEF Closed, NotClosed
<1>5. ASSUME NEW r \in Results, Close(s, r)
      PROVE  /\ UNCHANGED <<now, entry, events>> /\ Closed' = Closed
             /\ \A t \in Closed : row'[t] = row[t]
             /\ \A t \in Signals : t # s => row'[t] = row[t] /\ check'[t] = check[t]
             /\ check'[s].at = "outcome" /\ row'[s].state # "none"
  <2>1. /\ UNCHANGED <<now, entry, events>> /\ row[s].state \in {"open", "closing"}
        /\ row' = [row EXCEPT ![s] = [state |-> "closing", r |-> r, at |-> now]]
        /\ check' = [check EXCEPT ![s] = [check[s] EXCEPT !.at = "outcome"]]
    BY <1>5 DEF Close, history
  <2>2. /\ row'[s].state = "closing" /\ check'[s].at = "outcome"
        /\ \A t \in Signals : t # s => row'[t] = row[t] /\ check'[t] = check[t]
    BY <1>1, <1>2, <2>1 DEF Checks
  <2> QED
    BY <2>1, <2>2 DEF Closed
<1>6. CASE CancelFails(s) \/ OutcomeFails(s) \/ CheckFails(s)
  <2>1. /\ UNCHANGED <<now, row, entry, events>> /\ check' = [check EXCEPT ![s] = NotClosed]
        /\ check[s].at # "idle"
    BY <1>6 DEF CancelFails, OutcomeFails, CheckFails, Checking, history
  <2>2. check'[s] = NotClosed /\ \A t \in Signals : t # s => check'[t] = check[t]
    BY <1>1, <2>1
  <2>3. row[s].state # "none"
    BY <1>1, <1>2, <2>1 DEF StageOK, Checks, CheckStates
  <2> QED
    BY <2>1, <2>2, <2>3 DEF Closed, NotClosed
<1> QED
  BY <1>3, <1>4, <1>5, <1>6 DEF EndStep

LEMMA EndTypes == ASSUME TypeInv, NEW s \in Signals, EndStep(s) PROVE TypeInv'
<1>1. /\ now \in 0 .. LastTick /\ row \in [Signals -> Rows(now)] /\ open \subseteq Signals
      /\ entry \in Entries(Closed) /\ check \in [Signals -> Checks(Closed)]
      /\ events \subseteq Events(now, Closed) /\ budget \in Budgets
      /\ uncounted \subseteq Signals /\ unchecked \subseteq Closed /\ Shape
  BY TypeParts DEF TypeInv
<1>2. /\ UNCHANGED <<now, entry, events>> /\ Closed' = Closed
      /\ \A t \in Signals : t # s => row'[t] = row[t] /\ check'[t] = check[t]
      /\ row'[s].state # "none"
  BY EndSteps
<1>3. NotClosed \in Checks(Closed) /\ NotClosed.at = "idle"
      /\ \A at \in CheckStates : [check[s] EXCEPT !.at = at] \in Checks(Closed)
                                 /\ [check[s] EXCEPT !.at = at].at = at
  <2>1. check[s] \in Checks(Closed)
    BY <1>1
  <2> QED
    BY <2>1 DEF NotClosed, Checks, CheckStates
<1>4. PICK c \in Checks(Closed) : check' = [check EXCEPT ![s] = c]
  BY <1>3 DEF EndStep, Cancel, CancelRow, Close, CancelFails, OutcomeFails, CheckFails, CheckStates
<1>5. row' \in [Signals -> Rows(now)] /\ open' \subseteq Signals /\ budget' \in Budgets
      /\ uncounted' \subseteq Signals /\ unchecked' \subseteq Closed
  <2>1. CASE Cancel(s) \/ CancelRow(s)
    BY <1>1, <2>1 DEF Cancel, CancelRow, Rows, RowStates, history
  <2>2. ASSUME NEW r \in Results, Close(s, r) PROVE row' \in [Signals -> Rows(now)] /\ UNCHANGED <<open, budget, history>>
    <3>1. now \in Nat
      BY <1>1, BoundAssumption
    <3>2. [state |-> "closing", r |-> r, at |-> now] \in Rows(now)
      BY <3>1 DEF Rows, RowStates
    <3> QED
      BY <1>1, <2>2, <3>2 DEF Close
  <2>3. CASE CancelFails(s) \/ OutcomeFails(s) \/ CheckFails(s)
    <3>1. budget' \in Budgets
      BY <1>1, <2>3, SpendType DEF CancelFails, OutcomeFails, CheckFails
    <3>2. UNCHANGED <<row, open>> /\ uncounted' \subseteq Signals
      BY <1>1, <2>3 DEF CancelFails, OutcomeFails, CheckFails, history
    <3>3. s \in Checking => s \in Closed
      BY <1>1 DEF Checking, Closed, Shape, StageOK
    <3>4. unchecked' \subseteq Closed
      BY <1>1, <2>3, <3>3 DEF CancelFails, OutcomeFails, CheckFails, history
    <3> QED
      BY <1>1, <3>1, <3>2, <3>4
  <2> QED
    BY <1>1, <2>1, <2>2, <2>3 DEF EndStep, history
<1>6. ASSUME NEW t \in Signals, t # s PROVE StageOK(t)' /\ PlaceOK(t)'
  <2>1. row'[t] = row[t] /\ check'[t] = check[t] /\ StageOK(t) /\ PlaceOK(t)
    BY <1>1, <1>2, <1>6 DEF Shape
  <2>2. (t \in open' <=> t \in open) /\ (t \in uncounted' <=> t \in uncounted)
    BY <1>6 DEF EndStep, Cancel, CancelRow, Close, CancelFails, OutcomeFails, CheckFails, history
  <2>3. StageOK(t)'
    BY <1>2, <2>1, <2>2 DEF StageOK
  <2>4. PlaceOK(t)'
    BY <1>2, <2>1, <2>2 DEF PlaceOK
  <2> QED
    BY <2>3, <2>4
<1>7. StageOK(s)' /\ PlaceOK(s)'
  <2>1. StageOK(s) /\ PlaceOK(s) /\ row[s].state # "none" /\ check'[s] = c
    <3>1. row[s].state # "none"
      BY <1>1 DEF EndStep, Cancel, CancelRow, Close, CancelFails, OutcomeFails, CheckFails, Shape, StageOK,
         Checking, Checks, CheckStates
    <3> QED
      BY <1>1, <1>4, <3>1 DEF Shape
  <2>2. ~(entry'.at # "idle" /\ entry'.sig = s)
    BY <1>2, <2>1 DEF PlaceOK
  <2>3. CASE Cancel(s)
    <3>1. check' = [check EXCEPT ![s] = [check[s] EXCEPT !.at = "cancel"]]
      BY <2>3 DEF Cancel
    <3>2. check'[s].at = "cancel"
      BY <1>1, <1>3, <3>1 DEF CheckStates
    <3>3. row' = row /\ row[s].state = "pending" /\ s \notin open'
      BY <2>3 DEF Cancel
    <3> QED
      BY <2>2, <3>2, <3>3 DEF StageOK, PlaceOK
  <2>4. CASE CancelRow(s)
    <3>1. row'[s].state = "cancelled" /\ c.at = "idle" /\ check'[s].at = "idle"
      BY <1>1, <1>3, <2>1, <2>4, <1>4 DEF CancelRow, Rows
    <3> QED
      BY <2>2, <3>1 DEF StageOK, PlaceOK
  <2>5. ASSUME NEW r \in Results, Close(s, r) PROVE StageOK(s)' /\ PlaceOK(s)'
    <3>1. row'[s].state = "closing" /\ row'[s].at = now' /\ s \in open' /\ check'[s].at = "outcome"
      BY <1>1, <1>2, <1>3, <1>4, <2>1, <2>5 DEF Close, CheckStates
    <3> QED
      BY <2>2, <3>1 DEF StageOK, PlaceOK
  <2>6. CASE CancelFails(s) \/ OutcomeFails(s) \/ CheckFails(s)
    <3>1. check'[s].at = "idle" /\ UNCHANGED <<row, open>> /\ uncounted \subseteq uncounted'
          /\ (check[s].at = "cancel" => s \in uncounted') /\ (s \in uncounted' => s \in uncounted \/ row[s].state = "pending")
      BY <1>1, <1>3, <1>4, <2>1, <2>6 DEF CancelFails, OutcomeFails, CheckFails, history, StageOK, Checking
    <3> QED
      BY <2>1, <2>2, <3>1 DEF StageOK, PlaceOK
  <2> QED
    BY <2>3, <2>4, <2>5, <2>6 DEF EndStep
<1>8. Shape'
  BY <1>1, <1>2, <1>6, <1>7 DEF Shape
<1>9. check' \in [Signals -> Checks(Closed)]
  BY <1>1, <1>4
<1>10. TypeOK'
  BY <1>1, <1>2, <1>5, <1>9 DEF TypeOK, Rows, Entries, Checks, Events, RowStates, CheckStates, Budgets
<1> QED
  BY <1>8, <1>10 DEF TypeInv

CheckStep(s) ==
  \/ Release(s) \/ ReadHistory(s) \/ ReadDaily(s) \/ AnnounceDaily(s)
  \/ ReadCooldown(s) \/ AnnounceCooldown(s)

LEMMA CheckTypes ==
  ASSUME TypeInv, NEW s \in Signals, CheckStep(s)
  PROVE  /\ TypeInv' /\ UNCHANGED <<now, row, entry, budget, uncounted>> /\ s \in Closed
         /\ row[s].at = now /\ check[s].at \notin {"idle", "cancel", "outcome"}
         /\ \A t \in Signals : t # s => check'[t] = check[t] /\ (t \in open' <=> t \in open)
<1>1. /\ now \in 0 .. LastTick /\ row \in [Signals -> Rows(now)] /\ open \subseteq Signals
      /\ entry \in Entries(Closed) /\ check \in [Signals -> Checks(Closed)]
      /\ events \subseteq Events(now, Closed) /\ budget \in Budgets
      /\ uncounted \subseteq Signals /\ unchecked \subseteq Closed /\ Shape
  BY TypeParts DEF TypeInv
<1>2. UNCHANGED <<now, row, entry, budget, uncounted>>
  BY DEF CheckStep, Release, ReadHistory, ReadDaily, AnnounceDaily, ReadCooldown, AnnounceCooldown, history
<1>3. check[s].at \notin {"idle", "cancel", "outcome"}
  BY DEF CheckStep, Release, ReadHistory, ReadDaily, AnnounceDaily, ReadCooldown, AnnounceCooldown
<1>4. row[s].state = "closed" /\ row[s].at = now /\ s \in Closed /\ Closed' = Closed
  BY <1>1, <1>2, <1>3 DEF Closed, Shape, StageOK
<1>5. NotClosed \in Checks(Closed) /\ \A c \in Checks(Closed) : AfterDaily(c) \in Checks(Closed)
  BY DEF NotClosed, AfterDaily, Checks, CheckStates
<1>6. PICK c \in Checks(Closed) : check' = [check EXCEPT ![s] = c] /\ c.at \notin {"cancel", "outcome"}
  <2> DEFINE Past == {c \in Checks(Closed) : c.at \notin {"cancel", "outcome"}}
  <2>0. NotClosed \in Past /\ \A c \in Past : AfterDaily(c) \in Past
    BY <1>5 DEF NotClosed, AfterDaily, Checks
  <2>1. CASE Release(s)
    <3>1. check[s] \in Checks(Closed)
      BY <1>1
    <3>2. [check[s] EXCEPT !.at = "history"] \in Past
      BY <3>1 DEF Checks, CheckStates
    <3>3. check' = [check EXCEPT ![s] = [check[s] EXCEPT !.at = "history"]]
      BY <2>1 DEF Release
    <3> QED
      BY <3>2, <3>3
  <2>2. CASE ReadHistory(s)
    <3>1. PICK run \in LossRuns(Closed) :
            LET c == [at |-> "daily", seen |-> Closed, run |-> run]
            IN check' = [check EXCEPT ![s] =
                 IF DayR(Closed, Day(row[s].at)) <= -LimitR THEN c ELSE AfterDaily(c)]
      BY <2>2 DEF ReadHistory
    <3> DEFINE c == [at |-> "daily", seen |-> Closed, run |-> run]
    <3>2. c \in Past
      BY LossRunsIn DEF Checks, CheckStates
    <3>3. AfterDaily(c) \in Past
      BY <2>0, <3>2
    <3> HIDE DEF c
    <3>4. \E d \in Past : check' = [check EXCEPT ![s] = d]
      BY <3>1, <3>2, <3>3 DEF c
    <3> QED
      BY <3>4
  <2>3. CASE ReadDaily(s) \/ AnnounceDaily(s) \/ ReadCooldown(s) \/ AnnounceCooldown(s)
    <3>1. check[s] \in Past
      BY <1>1, <1>3
    <3>2. [check[s] EXCEPT !.at = "announceDaily"] \in Past
          /\ [check[s] EXCEPT !.at = "announceCooldown"] \in Past
          /\ AfterDaily(check[s]) \in Past
      BY <2>0, <3>1 DEF Checks, CheckStates
    <3> QED
      BY <1>1, <2>0, <2>3, <3>2 DEF ReadDaily, AnnounceDaily, ReadCooldown, AnnounceCooldown
  <2> QED
    BY <2>1, <2>2, <2>3 DEF CheckStep
<1>7. /\ \A t \in Signals : t # s => check'[t] = check[t] /\ (t \in open' <=> t \in open)
      /\ check'[s] = c /\ open' \subseteq Signals
  BY <1>1, <1>6 DEF CheckStep, Release, ReadHistory, ReadDaily, AnnounceDaily, ReadCooldown, AnnounceCooldown
<1>8. events' \subseteq Events(now, Closed)
  <2>1. \A type \in EventTypes : Event(type, s) \in Events(now, Closed)
    BY <1>1, <1>4 DEF Event, Events, Checks
  <2> QED
    BY <1>1, <2>1 DEF CheckStep, Release, ReadHistory, ReadDaily, AnnounceDaily, ReadCooldown, AnnounceCooldown,
       EventTypes
<1>9. unchecked' \subseteq Closed
  BY <1>1 DEF CheckStep, Release, ReadHistory, ReadDaily, AnnounceDaily, ReadCooldown, AnnounceCooldown,
     StillUnchecked, history
<1>10. TypeOK'
  BY <1>1, <1>2, <1>4, <1>6, <1>7, <1>8, <1>9 DEF TypeOK, Rows, Entries, Checks, Events, RowStates, CheckStates, Budgets
<1>11. ASSUME NEW t \in Signals PROVE StageOK(t)' /\ PlaceOK(t)'
  <2>1. StageOK(t) /\ PlaceOK(t)
    BY <1>1 DEF Shape
  <2>2. CASE t # s
    BY <1>2, <1>7, <2>1, <2>2 DEF StageOK, PlaceOK
  <2>3. CASE t = s
    BY <1>2, <1>4, <1>6, <1>7, <2>1, <2>3 DEF StageOK, PlaceOK
  <2> QED
    BY <2>2, <2>3
<1>12. Shape'
  BY <1>1, <1>2, <1>11 DEF Shape
<1> QED
  BY <1>2, <1>3, <1>4, <1>7, <1>10, <1>12 DEF TypeInv

LEMMA OutcomeTypes ==
  ASSUME TypeInv, NEW s \in Signals, CloseOutcome(s)
  PROVE  /\ TypeInv' /\ UNCHANGED <<now, open, entry, events, budget, uncounted, unchecked>>
         /\ Closed' = Closed \cup {s} /\ s \notin Closed
         /\ row[s].state = "closing" /\ row[s].at = now /\ s \in open
         /\ \A t \in Signals : t # s => row'[t] = row[t] /\ check'[t] = check[t]
         /\ row'[s].state = "closed" /\ row'[s].r = row[s].r /\ row'[s].at = now
         /\ check'[s].at = "release"
<1>1. /\ now \in 0 .. LastTick /\ row \in [Signals -> Rows(now)] /\ open \subseteq Signals
      /\ entry \in Entries(Closed) /\ check \in [Signals -> Checks(Closed)]
      /\ events \subseteq Events(now, Closed) /\ budget \in Budgets
      /\ uncounted \subseteq Signals /\ unchecked \subseteq Closed /\ Shape
  BY TypeParts DEF TypeInv
<1>2. /\ UNCHANGED <<now, open, entry, events, budget, uncounted, unchecked>>
      /\ row' = [row EXCEPT ![s] = [row[s] EXCEPT !.state = "closed"]]
      /\ check' = [check EXCEPT ![s] = [check[s] EXCEPT !.at = "release"]]
      /\ row[s].state = "closing" /\ row[s].at = now /\ s \in open
  BY <1>1 DEF CloseOutcome, history, Shape, StageOK
<1>3. row[s] \in Rows(now) /\ check[s] \in Checks(Closed)
  BY <1>1
<1>4. /\ \A t \in Signals : t # s => row'[t] = row[t] /\ check'[t] = check[t]
      /\ row'[s].state = "closed" /\ row'[s].r = row[s].r /\ row'[s].at = now
      /\ check'[s].at = "release"
  BY <1>1, <1>2, <1>3 DEF Rows, Checks
<1>5. Closed' = Closed \cup {s} /\ s \notin Closed
  BY <1>2, <1>4 DEF Closed
<1>6. now \in Nat /\ Closed \subseteq Closed'
  BY <1>1, <1>5, BoundAssumption
<1>7. /\ entry \in Entries(Closed') /\ check \in [Signals -> Checks(Closed')]
      /\ events \subseteq Events(now, Closed') /\ unchecked \subseteq Closed'
  BY <1>1, <1>6, Wider
<1>8. row' \in [Signals -> Rows(now)]
  BY <1>1, <1>2, <1>3 DEF Rows, RowStates
<1>9. check' \in [Signals -> Checks(Closed')]
  BY <1>2, <1>7 DEF Checks, CheckStates
<1>10. TypeOK'
  BY <1>1, <1>2, <1>7, <1>8, <1>9 DEF TypeOK, Rows, Entries, Checks, Events, RowStates, CheckStates, Budgets
<1>11. ASSUME NEW t \in Signals PROVE StageOK(t)' /\ PlaceOK(t)'
  <2>1. StageOK(t) /\ PlaceOK(t)
    BY <1>1 DEF Shape
  <2> QED
    BY <1>2, <1>4, <2>1 DEF StageOK, PlaceOK
<1>12. Shape'
  BY <1>1, <1>2, <1>11 DEF Shape
<1> QED
  BY <1>2, <1>4, <1>5, <1>10, <1>12 DEF TypeInv

LEMMA TickTypes ==
  ASSUME TypeInv, Tick
  PROVE  /\ TypeInv' /\ UNCHANGED <<row, open, entry, check, events, uncounted, unchecked>>
         /\ now' = now + 1 /\ Closed' = Closed /\ Quiet
<1>1. /\ now \in 0 .. LastTick /\ row \in [Signals -> Rows(now)] /\ open \subseteq Signals
      /\ entry \in Entries(Closed) /\ check \in [Signals -> Checks(Closed)]
      /\ events \subseteq Events(now, Closed) /\ budget \in Budgets
      /\ uncounted \subseteq Signals /\ unchecked \subseteq Closed /\ Shape
  BY TypeParts DEF TypeInv
<1>2. /\ UNCHANGED <<row, open, entry, check, events, budget, uncounted, unchecked>>
      /\ now' = now + 1 /\ now' \in 0 .. LastTick /\ Quiet
  BY <1>1, BoundAssumption DEF Tick, history
<1>3. Closed' = Closed
  BY <1>2 DEF Closed
<1>4. row' \in [Signals -> Rows(now')] /\ events' \subseteq Events(now', Closed)
  <2>1. now \in Nat /\ now' \in Nat /\ now <= now' /\ Closed \subseteq Closed
    BY <1>1, <1>2, BoundAssumption
  <2>2. Rows(now) \subseteq Rows(now') /\ Events(now, Closed) \subseteq Events(now', Closed)
    BY <2>1, Wider
  <2> QED
    BY <1>1, <1>2, <2>2
<1>5. TypeOK'
  BY <1>1, <1>2, <1>3, <1>4 DEF TypeOK, Rows, Entries, Checks, Events, RowStates, CheckStates, Budgets
<1>6. ASSUME NEW t \in Signals PROVE StageOK(t)' /\ PlaceOK(t)'
  <2>1. StageOK(t) /\ PlaceOK(t) /\ check[t].at = "idle" /\ entry.at = "idle"
    BY <1>1, <1>2 DEF Shape, Quiet
  <2> QED
    BY <1>2, <2>1 DEF StageOK, PlaceOK
<1>7. Shape'
  BY <1>1, <1>2, <1>6 DEF Shape
<1> QED
  BY <1>2, <1>3, <1>5, <1>7 DEF TypeInv

LEMMA CrashTypes ==
  ASSUME TypeInv, Crash
  PROVE  /\ TypeInv' /\ UNCHANGED <<now, row, events>> /\ Closed' = Closed
         /\ entry' = NoEntry /\ check' = [s \in Signals |-> NotClosed] /\ open' = Live
         /\ uncounted' = uncounted \cup {s \in Signals : check[s].at = "cancel"}
                                   \cup {s \in Signals : row[s].state = "closing"}
         /\ unchecked' = unchecked \cup Checking
<1>1. /\ now \in 0 .. LastTick /\ row \in [Signals -> Rows(now)] /\ open \subseteq Signals
      /\ events \subseteq Events(now, Closed) /\ budget \in Budgets
      /\ uncounted \subseteq Signals /\ unchecked \subseteq Closed /\ Shape
  BY TypeParts DEF TypeInv
<1>2. /\ UNCHANGED <<now, row, events>> /\ entry' = NoEntry
      /\ check' = [s \in Signals |-> NotClosed] /\ open' = Live
      /\ uncounted' = uncounted \cup {s \in Signals : check[s].at = "cancel"}
                                \cup {s \in Signals : row[s].state = "closing"}
      /\ unchecked' = unchecked \cup Checking
  BY DEF Crash, Live
<1>3. budget' \in Budgets
  BY <1>1, SpendType DEF Crash
<1>4. Closed' = Closed /\ Checking \subseteq Closed
  BY <1>1, <1>2 DEF Closed, Checking, Shape, StageOK
<1>5. /\ open' \subseteq Signals /\ entry' \in Entries(Closed) /\ check' \in [Signals -> Checks(Closed)]
      /\ uncounted' \subseteq Signals /\ unchecked' \subseteq Closed
  BY <1>1, <1>2, <1>4 DEF Live, NoEntry, NotClosed, Entries, Checks, CheckStates
<1>6. TypeOK'
  BY <1>1, <1>2, <1>3, <1>4, <1>5 DEF TypeOK, Rows, Entries, Checks, Events, RowStates, CheckStates, Budgets
<1>7. ASSUME NEW t \in Signals PROVE StageOK(t)' /\ PlaceOK(t)'
  <2>1. StageOK(t) /\ PlaceOK(t) /\ check'[t].at = "idle" /\ entry'.at = "idle"
    BY <1>1, <1>2 DEF Shape, NotClosed, NoEntry
  <2> QED
    BY <1>2, <2>1 DEF StageOK, PlaceOK, Live
<1>8. Shape'
  BY <1>2, <1>7 DEF Shape, NoEntry
<1> QED
  BY <1>2, <1>4, <1>6, <1>8 DEF TypeInv

LEMMA TypeInit == ASSUME Init PROVE TypeInv
<1>1. TypeOK
  BY BoundAssumption DEF Init, TypeOK, NoRow, NoEntry, NotClosed, Closed
<1>2. Shape
  BY DEF Init, Shape, StageOK, PlaceOK, NoRow, NoEntry, NotClosed
<1> QED
  BY <1>1, <1>2 DEF TypeInv

\* The steps, by what they have to do with the outcomes.
LEMMA Kinds ==
  ASSUME TypeInv, Next
  PROVE  \/ \E s \in Signals : EntryStep(s) \/ EndStep(s) \/ CheckStep(s) \/ CloseOutcome(s)
         \/ Tick \/ Crash
<1>1. CASE CopyContext \/ EntryFails
  <2>1. entry.at # "idle"
    BY <1>1 DEF CopyContext, EntryFails
  <2>2. PICK s \in Signals : TRUE
    BY <2>1 DEF TypeInv, Shape
  <2> QED
    BY <1>1, <2>2 DEF EntryStep
<1> QED
  BY <1>1 DEF Next, EntryStep, EndStep, CheckStep

LEMMA TypeStep == ASSUME TypeInv, [Next]_vars PROVE TypeInv'
<1>1. CASE UNCHANGED vars
  BY <1>1 DEF vars, TypeInv, TypeOK, Shape, StageOK, PlaceOK, Closed
<1>2. CASE Next
  BY <1>2, Kinds, EntryTypes, EndTypes, CheckTypes, OutcomeTypes, TickTypes, CrashTypes
<1> QED
  BY <1>1, <1>2

\* Rows, queries, checks and events have the shapes of store.ts and manager.ts,
\* and what a query returned are closed positions.
THEOREM TypeCorrect == Spec => []TypeOK
<1>1. TypeInv => TypeOK
  BY DEF TypeInv
<1> QED
  BY <1>1, TypeInit, TypeStep, PTL DEF Spec

-----------------------------------------------------------------------------
(* What has been read stays true                                           *)

\* The queries, of a given table of rows.
SumR(rows, seen, day) ==
  SumFunctionOnSet([s \in Signals |-> rows[s].r], {s \in seen : Day(rows[s].at) = day})

IsRun(rows, run, seen) ==
  /\ run \subseteq seen /\ \A s \in run : rows[s].r < 0
  /\ \A s \in run, t \in seen \ run : rows[s].at >= rows[t].at
  /\ run # seen => \E s \in seen \ run :
       ~(rows[s].r < 0) /\ \A u \in run \cup {s}, t \in seen \ (run \cup {s}) : rows[u].at >= rows[t].at

LEMMA RunIs == ASSUME NEW seen, NEW run \in LossRuns(seen) PROVE IsRun(row, run, seen)
BY DEF LossRuns, Newest, Lost, IsRun

\* What a check or an event rests on.
Grounds(rows, closed, c) == c.seen \subseteq closed /\ IsRun(rows, c.run, c.seen)
DailyTrue(rows, c, s)    == SumR(rows, c.seen, Day(rows[s].at)) <= -LimitR
CooldownTrue(c)          == Cardinality(c.run) >= LossRun

CheckTrue(rows, closed, c, s) ==
  /\ c.at \in {"daily", "announceDaily", "cooldown", "announceCooldown"} => Grounds(rows, closed, c)
  /\ c.at \in {"daily", "announceDaily"} => DailyTrue(rows, c, s)
  /\ c.at \in {"cooldown", "announceCooldown"} => CooldownTrue(c)

EventTrue(rows, closed, e) ==
  /\ Grounds(rows, closed, e)
  /\ e.type = "daily_loss" => DailyTrue(rows, e, e.by)
  /\ e.type = "cooldown" => CooldownTrue(e)

History ==
  /\ entry.at = "exists" => Grounds(row, Closed, entry)
  /\ \A s \in Signals : CheckTrue(row, Closed, check[s], s)
  /\ \A e \in events : EventTrue(row, Closed, e)

LEMMA SeenFinite == ASSUME NEW seen \in SUBSET Signals PROVE IsFiniteSet(seen)
BY SignalAssumption, FS_Subset

\* Closed positions are never written again.
LEMMA ClosedKept ==
  ASSUME TypeInv, [Next]_vars
  PROVE  /\ \A s \in Closed : row'[s] = row[s]
         /\ Closed \subseteq Closed'
<1>1. CASE UNCHANGED <<row>>
  BY <1>1 DEF Closed
<1>2. ASSUME NEW s \in Signals, EntryStep(s) \/ EndStep(s)
      PROVE  \A t \in Closed : row'[t] = row[t] /\ Closed' = Closed
  BY <1>2, EntrySteps, EndSteps
<1>3. ASSUME NEW s \in Signals, CloseOutcome(s)
      PROVE  \A t \in Closed : row'[t] = row[t] /\ Closed \subseteq Closed'
  <2>1. /\ Closed' = Closed \cup {s} /\ s \notin Closed
        /\ \A t \in Signals : t # s => row'[t] = row[t]
    BY <1>3, OutcomeTypes
  <2> QED
    BY <2>1 DEF Closed
<1>4. CASE Tick \/ Crash
  BY <1>1, <1>4 DEF Tick, Crash
<1>5. ASSUME NEW s \in Signals, CheckStep(s) PROVE UNCHANGED row
  BY <1>5, CheckTypes
<1>6. CASE Next
  BY <1>1, <1>2, <1>3, <1>4, <1>5, <1>6, Kinds
<1> QED
  BY <1>1, <1>6 DEF vars

LEMMA GroundsKept ==
  ASSUME TypeInv, [Next]_vars
  PROVE  /\ \A seen \in SUBSET Closed : \A day : SumR(row', seen, day) = SumR(row, seen, day)
         /\ \A c : Grounds(row, Closed, c) => Grounds(row', Closed', c)
<1>1. /\ \A s \in Closed : row'[s] = row[s]
      /\ Closed \subseteq Closed'
  BY ClosedKept
<1>2. row \in [Signals -> Rows(now)] /\ row' \in [Signals -> Rows(now')]
  BY TypeStep, TypeParts DEF TypeInv, TypeOK, Rows, RowStates
<1>3. ASSUME NEW seen \in SUBSET Closed, NEW day PROVE SumR(row', seen, day) = SumR(row, seen, day)
  <2> DEFINE S == {s \in seen : Day(row[s].at) = day}
             f == [s \in Signals |-> row[s].r]
             g == [s \in Signals |-> row'[s].r]
  <2>1. S = {s \in seen : Day(row'[s].at) = day}
    BY <1>1
  <2>2. S \subseteq Signals /\ S \subseteq Closed
    BY DEF Closed
  <2>3. IsFiniteSet(S)
    BY <2>2, SeenFinite
  <2>4. \A s \in S : f[s] \in Int /\ g[s] = f[s]
    <3>1. \A s \in S : row[s] \in Rows(now) /\ row'[s] = row[s]
      BY <1>1, <1>2, <2>2
    <3>2. \A s \in S : row[s].r \in Int /\ row'[s].r = row[s].r
      <4> HIDE DEF S
      <4> QED BY <3>1, RowR
    <3> QED
      BY <2>2, <3>2
  <2>5. SumFunctionOnSet(g, S) = SumFunctionOnSet(f, S)
    <3> HIDE DEF S, f, g
    <3> QED BY <2>3, <2>4, SumSame
  <2> QED
    BY <2>1, <2>5 DEF SumR
<1>4. ASSUME NEW c, Grounds(row, Closed, c) PROVE Grounds(row', Closed', c)
  <2>1. c.seen \subseteq Closed /\ \A s \in c.seen : row'[s] = row[s]
    BY <1>1, <1>4 DEF Grounds
  <2>2. c.seen \subseteq Closed'
    BY <1>1, <2>1
  <2>3. IsRun(row', c.run, c.seen)
    <3>1. c.run \subseteq c.seen
      BY <1>4 DEF Grounds, IsRun
    <3> QED
      BY <1>4, <2>1, <3>1 DEF Grounds, IsRun
  <2> QED
    BY <2>2, <2>3 DEF Grounds
<1> QED
  BY <1>3, <1>4

\* A check or an event that was right stays right.
LEMMA TrueKept ==
  ASSUME TypeInv, [Next]_vars
  PROVE  /\ \A s \in Signals : CheckTrue(row, Closed, check[s], s) => CheckTrue(row', Closed', check[s], s)
         /\ \A e \in events : EventTrue(row, Closed, e) => EventTrue(row', Closed', e)
<1>1. /\ \A seen \in SUBSET Closed : \A day : SumR(row', seen, day) = SumR(row, seen, day)
      /\ \A c : Grounds(row, Closed, c) => Grounds(row', Closed', c)
  BY GroundsKept
<1>2. \A s \in Closed : row'[s] = row[s]
  BY ClosedKept
<1>3. ASSUME NEW s \in Signals, CheckTrue(row, Closed, check[s], s)
      PROVE  CheckTrue(row', Closed', check[s], s)
  <2>1. check[s] \in Checks(Closed) /\ (check[s].at \notin {"idle", "cancel", "outcome"} => s \in Closed)
    BY TypeParts DEF TypeInv, Shape, StageOK, Closed
  <2> DEFINE c == check[s]
  <2>2. c.seen \in SUBSET Closed
    BY <2>1 DEF Checks
  <2>3. c.at \notin {"idle", "cancel", "outcome"} => (DailyTrue(row, c, s) => DailyTrue(row', c, s))
    BY <1>1, <1>2, <2>1, <2>2 DEF DailyTrue
  <2> QED
    BY <1>1, <1>3, <2>3 DEF CheckTrue
<1>4. ASSUME NEW e \in events, EventTrue(row, Closed, e) PROVE EventTrue(row', Closed', e)
  <2>1. e.by \in Closed /\ e.seen \in SUBSET Closed
    BY TypeParts DEF TypeInv, Events
  <2>2. DailyTrue(row, e, e.by) => DailyTrue(row', e, e.by)
    BY <1>1, <1>2, <2>1 DEF DailyTrue
  <2> QED
    BY <1>1, <1>4, <2>2 DEF EventTrue
<1> QED
  BY <1>3, <1>4

LEMMA AfterDailyTrue ==
  ASSUME NEW c, NEW s, Grounds(row, Closed, c), c = [at |-> c.at, seen |-> c.seen, run |-> c.run]
  PROVE  CheckTrue(row, Closed, AfterDaily(c), s)
<1>1. CASE Cardinality(c.run) >= LossRun
  <2>1. AfterDaily(c) = [at |-> "cooldown", seen |-> c.seen, run |-> c.run]
    BY <1>1 DEF AfterDaily
  <2> QED
    BY <1>1, <2>1 DEF CheckTrue, Grounds, CooldownTrue
<1>2. CASE ~(Cardinality(c.run) >= LossRun)
  BY <1>2 DEF AfterDaily, NotClosed, CheckTrue
<1> QED
  BY <1>1, <1>2

LEMMA CheckHistory ==
  ASSUME TypeInv, History, NEW s \in Signals, CheckStep(s) PROVE History'
<1>1. UNCHANGED <<now, row, entry>> /\ s \in Closed
  BY CheckTypes
<1>2. Closed' = Closed
  BY <1>1 DEF Closed
<1>3. check[s] \in Checks(Closed) /\ check \in [Signals -> Checks(Closed)]
  BY TypeParts DEF TypeInv
<1>4. check[s] = [at |-> check[s].at, seen |-> check[s].seen, run |-> check[s].run]
  BY <1>3 DEF Checks
<1>5. PICK c : check' = [check EXCEPT ![s] = c] /\ CheckTrue(row, Closed, c, s)
  <2>1. CASE Release(s)
    <3>1. check' = [check EXCEPT ![s] = [check[s] EXCEPT !.at = "history"]]
      BY <2>1 DEF Release
    <3>2. CheckTrue(row, Closed, [check[s] EXCEPT !.at = "history"], s)
      BY <1>4 DEF CheckTrue
    <3> QED
      BY <3>1, <3>2
  <2>2. CASE ReadHistory(s)
    <3>1. PICK run \in LossRuns(Closed) :
            LET c == [at |-> "daily", seen |-> Closed, run |-> run]
            IN check' = [check EXCEPT ![s] =
                 IF DayR(Closed, Day(row[s].at)) <= -LimitR THEN c ELSE AfterDaily(c)]
      BY <2>2 DEF ReadHistory
    <3> DEFINE c == [at |-> "daily", seen |-> Closed, run |-> run]
    <3>2. Grounds(row, Closed, c)
      BY RunIs DEF Grounds
    <3>3. CheckTrue(row, Closed, AfterDaily(c), s)
      BY <3>2, AfterDailyTrue
    <3>4. DayR(Closed, Day(row[s].at)) <= -LimitR => CheckTrue(row, Closed, c, s)
      BY <3>2 DEF CheckTrue, DailyTrue, DayR, SumR
    <3> QED
      BY <3>1, <3>3, <3>4
  <2>3. CASE ReadDaily(s) \/ AnnounceDaily(s)
    <3>1. check[s].at \in {"daily", "announceDaily"}
      BY <2>3 DEF ReadDaily, AnnounceDaily
    <3>2. CheckTrue(row, Closed, check[s], s)
      BY DEF History
    <3>3. Grounds(row, Closed, check[s]) /\ DailyTrue(row, check[s], s)
      BY <3>1, <3>2 DEF CheckTrue
    <3>4. CheckTrue(row, Closed, AfterDaily(check[s]), s)
      BY <1>4, <3>3, AfterDailyTrue
    <3>5. CheckTrue(row, Closed, [check[s] EXCEPT !.at = "announceDaily"], s)
      <4>1. [check[s] EXCEPT !.at = "announceDaily"]
              = [at |-> "announceDaily", seen |-> check[s].seen, run |-> check[s].run]
        BY <1>4
      <4> QED
        BY <3>3, <4>1 DEF CheckTrue, Grounds, DailyTrue
    <3>6. \/ check' = [check EXCEPT ![s] = AfterDaily(check[s])]
          \/ check' = [check EXCEPT ![s] = [check[s] EXCEPT !.at = "announceDaily"]]
      BY <2>3 DEF ReadDaily, AnnounceDaily
    <3> QED
      BY <3>4, <3>5, <3>6
  <2>4. CASE ReadCooldown(s) \/ AnnounceCooldown(s)
    <3>1. check[s].at \in {"cooldown", "announceCooldown"}
      BY <2>4 DEF ReadCooldown, AnnounceCooldown
    <3>2. CheckTrue(row, Closed, check[s], s)
      BY DEF History
    <3>3. Grounds(row, Closed, check[s]) /\ CooldownTrue(check[s])
      BY <3>1, <3>2 DEF CheckTrue
    <3>4. CheckTrue(row, Closed, NotClosed, s)
      BY DEF CheckTrue, NotClosed
    <3>5. CheckTrue(row, Closed, [check[s] EXCEPT !.at = "announceCooldown"], s)
      <4>1. [check[s] EXCEPT !.at = "announceCooldown"]
              = [at |-> "announceCooldown", seen |-> check[s].seen, run |-> check[s].run]
        BY <1>4
      <4> QED
        BY <3>3, <4>1 DEF CheckTrue, Grounds, CooldownTrue
    <3>6. \/ check' = [check EXCEPT ![s] = NotClosed]
          \/ check' = [check EXCEPT ![s] = [check[s] EXCEPT !.at = "announceCooldown"]]
      BY <2>4 DEF ReadCooldown, AnnounceCooldown
    <3> QED
      BY <3>4, <3>5, <3>6
  <2> QED
    BY <2>1, <2>2, <2>3, <2>4 DEF CheckStep
<1>6. \A t \in Signals : CheckTrue(row, Closed, check'[t], t)
  BY <1>3, <1>5 DEF History
<1>7. \A e \in events' : EventTrue(row, Closed, e)
  <2>1. CASE AnnounceDaily(s)
    <3>1. CheckTrue(row, Closed, check[s], s) /\ check[s].at = "announceDaily"
      BY <2>1 DEF History, AnnounceDaily
    <3>2. EventTrue(row, Closed, Event("daily_loss", s))
      BY <3>1 DEF Event, EventTrue, CheckTrue, Grounds, DailyTrue
    <3> QED
      BY <2>1, <3>2 DEF AnnounceDaily, History
  <2>2. CASE AnnounceCooldown(s)
    <3>1. CheckTrue(row, Closed, check[s], s) /\ check[s].at = "announceCooldown"
      BY <2>2 DEF History, AnnounceCooldown
    <3>2. EventTrue(row, Closed, Event("cooldown", s))
      BY <3>1 DEF Event, EventTrue, CheckTrue, Grounds, CooldownTrue
    <3> QED
      BY <2>2, <3>2 DEF AnnounceCooldown, History
  <2>3. CASE UNCHANGED events
    BY <2>3 DEF History
  <2> QED
    BY <2>1, <2>2, <2>3 DEF CheckStep, Release, ReadHistory, ReadDaily, ReadCooldown
<1>8. entry'.at = "exists" => Grounds(row, Closed, entry')
  BY <1>1 DEF History
<1> QED
  BY <1>1, <1>2, <1>6, <1>7, <1>8 DEF History

LEMMA HistoryStep == ASSUME TypeInv, History, [Next]_vars PROVE History'
<1>1. /\ \A s \in Signals : CheckTrue(row', Closed', check[s], s)
      /\ \A e \in events : EventTrue(row', Closed', e)
      /\ \A c : Grounds(row, Closed, c) => Grounds(row', Closed', c)
  BY TrueKept, GroundsKept DEF History
<1>2. CASE UNCHANGED vars
  BY <1>1, <1>2 DEF vars, History
<1>3. ASSUME NEW s \in Signals, CheckStep(s) PROVE History'
  BY <1>3, CheckHistory
<1>4. ASSUME NEW s \in Signals, CloseOutcome(s) PROVE History'
  <2>1. /\ UNCHANGED <<entry, events>>
        /\ \A t \in Signals : t # s => check'[t] = check[t]
        /\ check'[s].at = "release"
    BY <1>4, OutcomeTypes
  <2>2. CheckTrue(row', Closed', check'[s], s)
    BY <2>1 DEF CheckTrue
  <2>3. \A t \in Signals : CheckTrue(row', Closed', check'[t], t)
    BY <1>1, <2>1, <2>2
  <2> QED
    BY <1>1, <2>1, <2>3 DEF History
<1>5. ASSUME NEW s \in Signals, EndStep(s) PROVE History'
  <2>1. /\ UNCHANGED <<entry, events>>
        /\ \A t \in Signals : t # s => check'[t] = check[t]
        /\ check'[s].at \in {"idle", "cancel", "outcome"}
    BY <1>5, EndSteps
  <2>2. CheckTrue(row', Closed', check'[s], s)
    BY <2>1 DEF CheckTrue
  <2>3. \A t \in Signals : CheckTrue(row', Closed', check'[t], t)
    BY <1>1, <2>1, <2>2
  <2> QED
    BY <1>1, <2>1, <2>3 DEF History
<1>6. ASSUME NEW s \in Signals, EntryStep(s) PROVE History'
  <2>1. UNCHANGED <<check, events>> /\ Closed' = Closed
    BY <1>6, EntrySteps
  <2>2. CASE CopyContext
    <3>1. UNCHANGED row
      BY <2>2 DEF CopyContext
    <3>2. Grounds(row, Closed, entry')
      <4>1. entry \in Entries(Closed)
        BY TypeParts DEF TypeInv
      <4>2. entry'.seen = Closed /\ entry'.run \in LossRuns(Closed)
        BY <2>2, <4>1 DEF CopyContext, Entries
      <4> QED
        BY <4>2, RunIs DEF Grounds
    <3> QED
      BY <1>1, <2>1, <3>1, <3>2 DEF History
  <2>3. CASE ~CopyContext
    <3>1. entry' = entry \/ entry'.at # "exists"
      <4>1. CASE TakeSignal(s)
        BY <4>1 DEF TakeSignal, NoEntry
      <4>2. CASE Reject(s) \/ Accept(s) \/ EntryFails \/ AcceptFails(s)
        BY <4>2 DEF Reject, Accept, EntryFails, AcceptFails, NoEntry
      <4>3. CASE Fill(s)
        BY <4>3 DEF Fill
      <4> QED
        BY <1>6, <2>3, <4>1, <4>2, <4>3 DEF EntryStep
    <3> QED
      BY <1>1, <2>1, <3>1 DEF History
  <2> QED
    BY <2>2, <2>3
<1>7. CASE Tick
  BY <1>1, <1>7, TickTypes DEF History
<1>8. CASE Crash
  <2>1. UNCHANGED events /\ entry'.at = "idle" /\ \A s \in Signals : check'[s].at = "idle"
    BY <1>8 DEF Crash, NoEntry, NotClosed
  <2> QED
    BY <1>1, <2>1 DEF History, CheckTrue
<1> QED
  BY <1>2, <1>3, <1>4, <1>5, <1>6, <1>7, <1>8, Kinds

LEMMA HistoryInit == ASSUME Init PROVE History
BY DEF Init, History, NoEntry, NotClosed, CheckTrue

-----------------------------------------------------------------------------
(* What is announced is enforced *)

LEMMA AcceptOnly ==
  ASSUME TypeInv, [Next]_vars, NEW s \in Signals, Accepts(s) PROVE ~Refused
<1>1. row[s].state = "none" /\ entry.at = "exists" /\ entry.sig = s
  BY DEF TypeInv, Shape, PlaceOK, Accepts
<1>2. row'[s].state # "none" /\ row'[s].state # "rejected"
  BY DEF Accepts
<1>3. row \in [Signals -> Rows(now)]
  BY TypeParts DEF TypeInv
<1>4. CASE UNCHANGED row
  BY <1>1, <1>2, <1>4
<1>5. ASSUME NEW t \in Signals, CheckStep(t) PROVE UNCHANGED row
  BY <1>5, CheckTypes
<1>6. ASSUME NEW t \in Signals, EndStep(t) \/ CloseOutcome(t) PROVE FALSE
  <2>1. t # s => row'[s] = row[s]
    BY <1>6, EndSteps, OutcomeTypes
  <2>2. t = s
    BY <1>1, <1>2, <2>1
  <2>3. CloseOutcome(t) => row[t].state = "closing"
    BY OutcomeTypes
  <2>4. StageOK(s) /\ PlaceOK(s)
    BY DEF TypeInv, Shape
  <2>5. check[s].at = "idle" /\ s \notin open
    <3>1. check[s] \in Checks(Closed)
      BY TypeParts DEF TypeInv
    <3> QED
      BY <1>1, <2>4, <3>1 DEF StageOK, PlaceOK, Checks, CheckStates
  <2>6. ~CloseOutcome(s) /\ ~CancelRow(s) /\ ~CancelFails(s) /\ ~OutcomeFails(s) /\ ~CheckFails(s)
        /\ ~Cancel(s) /\ \A r \in Results : ~Close(s, r)
    BY <2>5 DEF CloseOutcome, CancelRow, CancelFails, OutcomeFails, CheckFails, Cancel, Close, Checking
  <2> QED
    BY <1>6, <2>2, <2>6 DEF EndStep
<1>7. ASSUME NEW t \in Signals, Reject(t) \/ Fill(t) PROVE FALSE
  <2>1. /\ t # s => row'[s] = row[s]
        /\ Reject(t) => row'[t].state = "rejected"
        /\ ~Reject(t) => row[t].state = "pending"
    BY <1>3, <1>7 DEF Reject, Fill, Rows
  <2> QED
    BY <1>1, <1>2, <2>1, <1>7
<1>8. ASSUME NEW t \in Signals, Accept(t) \/ AcceptFails(t) PROVE ~Refused
  BY <1>8 DEF Accept, AcceptFails
<1>9. ASSUME NEW t \in Signals, TakeSignal(t) \/ CopyContext \/ EntryFails \/ Tick \/ Crash PROVE UNCHANGED row
  BY <1>9 DEF TakeSignal, CopyContext, EntryFails, Tick, Crash, history
<1>10. CASE Next
  BY <1>4, <1>5, <1>6, <1>7, <1>8, <1>9, <1>10, Kinds DEF EntryStep
<1> QED
  BY <1>4, <1>10 DEF vars

LEMMA SumRType ==
  ASSUME TypeInv, NEW seen \in SUBSET Signals, NEW day PROVE SumR(row, seen, day) \in Int
<1> DEFINE S == {s \in seen : Day(row[s].at) = day}
           f == [s \in Signals |-> row[s].r]
<1>1. row \in [Signals -> Rows(now)] /\ IsFiniteSet(S)
  BY TypeParts, SeenFinite DEF TypeInv
<1>2. \A s \in S : f[s] \in Int
  BY <1>1, RowR
<1>3. SumFunctionOnSet(f, S) \in Int
  <2> HIDE DEF S, f
  <2> QED BY <1>1, <1>2, SumType
<1> QED
  BY <1>3 DEF SumR

\* Outcomes that are no gain do not raise the R of a day.
LEMMA SumRFalls ==
  ASSUME TypeInv, NEW seen \in SUBSET Signals, NEW old \in SUBSET seen, NEW day,
         \A t \in seen \ old : row[t].r <= 0
  PROVE  SumR(row, seen, day) <= SumR(row, old, day)
<1> DEFINE S == {s \in seen : Day(row[s].at) = day}
           T == {s \in old : Day(row[s].at) = day}
           f == [s \in Signals |-> row[s].r]
<1>1. row \in [Signals -> Rows(now)] /\ IsFiniteSet(S)
  BY TypeParts, SeenFinite DEF TypeInv
<1>2. \A s \in S : f[s] \in Int
  BY <1>1, RowR
<1>3. T \in SUBSET S /\ \A s \in S \ T : f[s] <= 0
  OBVIOUS
<1>4. SumFunctionOnSet(f, S) <= SumFunctionOnSet(f, T)
  <2> HIDE DEF S, T, f
  <2> QED BY <1>1, <1>2, <1>3, SumFalls
<1> QED
  BY <1>4 DEF SumR

\* The announced daily limit is the enforced one, after whatever closes, crashes,
\* failing calls and checks of other positions.
THEOREM LimitIsHeld == Spec => LimitHolds
<1>1. ASSUME TypeInv, History, [Next]_vars,
             NEW s \in Signals, NEW e \in events,
             Accepts(s), e.type = "daily_loss", Day(row[e.by].at) = Day(now), e.seen \subseteq entry.seen
      PROVE  \E t \in entry.seen \ e.seen : row[t].r > 0
  <2>1. ~Refused
    BY <1>1, AcceptOnly
  <2>2. /\ row \in [Signals -> Rows(now)] /\ e \in Events(now, Closed) /\ entry \in Entries(Closed)
        /\ entry.seen \in SUBSET Signals
    BY <1>1, TypeParts DEF TypeInv, Entries, Closed
  <2>3. SumR(row, e.seen, Day(now)) <= -LimitR
    BY <1>1 DEF History, EventTrue, DailyTrue
  <2>4. ~(SumR(row, entry.seen, Day(now)) <= -LimitR)
    BY <2>1 DEF Refused, DayR, SumR
  <2>5. e.seen \in SUBSET entry.seen
    BY <1>1
  <2>6. SumR(row, entry.seen, Day(now)) \in Int /\ SumR(row, e.seen, Day(now)) \in Int
    BY <1>1, <2>2, <2>5, SumRType
  <2>7. -LimitR \in Int
    BY LimitAssumption
  <2>8. SUFFICES ASSUME \A t \in entry.seen \ e.seen : ~(row[t].r > 0) PROVE FALSE
    OBVIOUS
  <2>9. \A t \in entry.seen \ e.seen : row[t].r <= 0
    <3>1. \A t \in Signals : row[t].r \in Int
      BY <2>2, RowR
    <3> QED
      BY <2>2, <2>8, <3>1
  <2>10. SumR(row, entry.seen, Day(now)) <= SumR(row, e.seen, Day(now))
    BY <1>1, <2>2, <2>5, <2>9, SumRFalls
  <2> QED
    BY <2>3, <2>4, <2>6, <2>7, <2>10
<1>2. TypeInv /\ History /\ [Next]_vars =>
        [\A s \in Signals, e \in events :
           Accepts(s) /\ e.type = "daily_loss" /\ Day(row[e.by].at) = Day(now) /\ e.seen \subseteq entry.seen
             => \E t \in entry.seen \ e.seen : row[t].r > 0]_vars
  BY <1>1
<1> QED
  BY <1>2, TypeInit, TypeStep, HistoryInit, HistoryStep, PTL DEF Spec, LimitHolds

LEMMA LastLoss ==
  ASSUME TypeInv, NEW seen \in SUBSET Closed, NEW l \in seen, Lost(l)
  PROVE  /\ LastLossAt(seen) \in {row[s].at : s \in {t \in seen : Lost(t)}}
         /\ \A s \in seen : Lost(s) => LastLossAt(seen) >= row[s].at
<1> DEFINE S == {row[s].at : s \in {t \in seen : Lost(t)}}
<1>1. row \in [Signals -> Rows(now)] /\ now \in Nat
  BY TypeParts, BoundAssumption DEF TypeInv
<1>2. S \subseteq 0 .. now /\ S # {}
  BY <1>1 DEF Rows, Closed
<1>3. IsFiniteSet(0 .. now)
  BY <1>1, FS_Interval
<1>4. IsFiniteSet(S) /\ S \subseteq Int
  BY <1>1, <1>2, <1>3, FS_Subset
<1>5. \E m \in S : \A x \in S : m >= x
  <2> HIDE DEF S
  <2> QED BY <1>2, <1>4, MaxExists
<1>6. LastLossAt(seen) = Max(S)
  BY DEF LastLossAt
<1>7. Max(S) \in S /\ \A x \in S : Max(S) >= x
  <2> HIDE DEF S
  <2> QED BY <1>5 DEF Max
<1> QED
  BY <1>6, <1>7

\* The announced cooldown is the enforced one, whichever way the outcomes of one
\* candle are read.
THEOREM CooldownIsHeld == Spec => CooldownHolds
<1>1. ASSUME TypeInv, History, [Next]_vars,
             NEW s \in Signals, NEW e \in events,
             Accepts(s), e.type = "cooldown", e.seen \subseteq entry.seen, now < LastLossAt(e.seen) + Cooldown
      PROVE  \E t \in entry.seen, l \in e.run : ~Lost(t) /\ row[t].at >= row[l].at
  <2>1. ~Refused /\ entry.at = "exists"
    BY <1>1, AcceptOnly DEF Accepts
  <2>2. /\ row \in [Signals -> Rows(now)] /\ now \in Nat /\ e.seen \in SUBSET Closed
        /\ entry.seen \in SUBSET Closed /\ entry.seen \subseteq Signals
    BY <1>1, TypeParts, BoundAssumption DEF TypeInv, Entries, Events, Closed
  <2>3. /\ IsRun(row, e.run, e.seen) /\ Cardinality(e.run) >= LossRun
        /\ IsRun(row, entry.run, entry.seen)
    BY <1>1, <2>1 DEF History, EventTrue, Grounds, CooldownTrue
  <2>4. e.run \subseteq e.seen /\ entry.run \subseteq entry.seen /\ \A l \in e.run : Lost(l)
    BY <2>3 DEF IsRun, Lost
  <2>5. IsFiniteSet(e.run) /\ IsFiniteSet(entry.run)
    BY <1>1, <2>2, <2>4, SeenFinite
  <2>6. LossRun \in Nat /\ LossRun >= 1 /\ Cooldown \in Nat
    BY LimitAssumption
  <2>7. PICK l \in e.run : TRUE
    <3>1. Cardinality({}) = 0
      BY FS_EmptySet
    <3> QED
      BY <2>3, <2>6, <3>1
  <2>8. /\ LastLossAt(e.seen) \in {row[t].at : t \in {u \in e.seen : Lost(u)}}
        /\ LastLossAt(entry.seen) \in {row[t].at : t \in {u \in entry.seen : Lost(u)}}
        /\ \A t \in entry.seen : Lost(t) => LastLossAt(entry.seen) >= row[t].at
    BY <1>1, <2>2, <2>4, <2>7, LastLoss
  <2>9. \A t \in Signals : row[t].at \in Int
    BY <2>2 DEF Rows
  <2>10. LastLossAt(e.seen) \in Int /\ LastLossAt(entry.seen) \in Int /\ LastLossAt(entry.seen) >= LastLossAt(e.seen)
    BY <1>1, <2>2, <2>8, <2>9
  <2>11. now < LastLossAt(entry.seen) + Cooldown
    BY <1>1, <2>2, <2>6, <2>10
  <2>12. ~(Cardinality(entry.run) >= LossRun)
    BY <2>1, <2>11 DEF Refused
  <2>13. SUFFICES ASSUME \A t \in entry.seen, k \in e.run : ~Lost(t) => ~(row[t].at >= row[k].at) PROVE FALSE
    OBVIOUS
  <2>14. e.run \subseteq entry.run
    <3>1. SUFFICES ASSUME NEW x \in e.run, x \notin entry.run PROVE FALSE
      OBVIOUS
    <3>2. x \in entry.seen /\ Lost(x)
      BY <1>1, <2>4
    <3>3. PICK t \in entry.seen \ entry.run :
            /\ ~Lost(t)
            /\ \A u \in entry.run \cup {t}, v \in entry.seen \ (entry.run \cup {t}) : row[u].at >= row[v].at
      BY <2>3, <3>1, <3>2 DEF IsRun, Lost
    <3>4. x # t /\ row[t].at >= row[x].at
      BY <3>1, <3>2, <3>3
    <3> QED
      BY <2>13, <3>3, <3>4
  <2>15. Cardinality(e.run) <= Cardinality(entry.run) /\ Cardinality(e.run) \in Nat /\ Cardinality(entry.run) \in Nat
    BY <2>5, <2>14, FS_Subset, FS_CardinalityType
  <2> QED
    BY <2>3, <2>6, <2>12, <2>15
<1>2. TypeInv /\ History /\ [Next]_vars =>
        [\A s \in Signals, e \in events :
           Accepts(s) /\ e.type = "cooldown" /\ e.seen \subseteq entry.seen /\ now < LastLossAt(e.seen) + Cooldown
             => \E t \in entry.seen, l \in e.run : ~Lost(t) /\ row[t].at >= row[l].at]_vars
  BY <1>1
<1> QED
  BY <1>2, TypeInit, TypeStep, HistoryInit, HistoryStep, PTL DEF Spec, CooldownHolds

-----------------------------------------------------------------------------
(* What a day can lose *)

\* What may still end with a loss: filled or pending entries that are in the map or
\* that escaped it, and positions being finished.
AtRisk == {s \in open \cup uncounted : row[s].state \in {"pending", "open"}}
          \cup {s \in open : row[s].state = "closing"}

\* Positions that were finished on a day without getting their outcome, and that a
\* later candle finishes again.
Retried(d) == {s \in open : row[s].state = "closing" /\ Day(row[s].at) = d}

\* What may still change what a day has lost.
Exposed(d) == IF d = Day(now) THEN AtRisk ELSE Retried(d)

Floor(u) == -LimitR - (MaxOpen + Cardinality(u)) * WorstR
Room(rows, ended, exposed, u, d) == SumR(rows, ended, d) - WorstR * Cardinality(exposed) > Floor(u)

\* The copy of the map has every position that could end or ended since the outcomes
\* were read, but for those that escaped.
Copied == entry.at = "exists" => AtRisk \cup (Ended \ entry.seen) \subseteq entry.open \cup uncounted

\* A day can bear the loss of everything exposed to it.
LossInv ==
  /\ Cardinality(AtRisk) <= MaxOpen + Cardinality(uncounted)
  /\ Copied
  /\ \A t \in 0 .. LastTick : Room(row, Ended, Exposed(Day(t)), uncounted, Day(t))

LEMMA WorstIs == WorstR \in Nat /\ \A r \in Results : r \in Int /\ r >= -WorstR
<1> DEFINE S == {-r : r \in Results} \cup {0}
<1>1. IsFiniteSet({-r : r \in Results})
  <2> DEFINE Good == {T \in SUBSET Results : IsFiniteSet({-r : r \in T})}
  <2>1. {} \in Good
    <3>1. {-r : r \in {}} = {}
      OBVIOUS
    <3> QED
      BY <3>1, FS_EmptySet
  <2>2. ASSUME NEW T \in SUBSET Results, NEW x \in Results \ T, T \in Good PROVE T \cup {x} \in Good
    <3>1. {-r : r \in T \cup {x}} = {-r : r \in T} \cup {-x}
      OBVIOUS
    <3>2. IsFiniteSet({-r : r \in T} \cup {-x})
      BY <2>2, FS_AddElement
    <3> QED
      BY <3>1, <3>2
  <2>3. Results \in Good
    <3> HIDE DEF Good
    <3> QED BY <2>1, <2>2, ResultAssumption, ElementInduction
  <2> QED
    BY <2>3
<1>2. IsFiniteSet(S)
  BY <1>1, FS_AddElement
<1>3. S \subseteq Int /\ S # {}
  BY ResultAssumption
<1>4. \E m \in S : \A x \in S : m >= x
  <2> HIDE DEF S
  <2> QED BY <1>2, <1>3, MaxExists
<1>5. WorstR \in S /\ \A x \in S : WorstR >= x
  <2>1. WorstR = Max(S)
    BY DEF WorstR
  <2> HIDE DEF S
  <2> QED BY <1>4, <2>1 DEF Max
<1>6. WorstR \in Int /\ WorstR >= 0
  BY <1>3, <1>5
<1>7. ASSUME NEW r \in Results PROVE r \in Int /\ r >= -WorstR
  <2>1. r \in Int /\ -r \in S
    BY ResultAssumption
  <2>2. WorstR >= -r
    BY <1>5, <2>1
  <2> QED
    BY <1>6, <2>1, <2>2
<1> QED
  BY <1>6, <1>7

LEMMA TimesGrows == \A w, a, b \in Nat : a <= b => w * a <= w * b
<1>1. SUFFICES ASSUME NEW w \in Nat, NEW a \in Nat, NEW b \in Nat, a <= b PROVE w * a <= w * b
  OBVIOUS
<1>2. PICK c \in Nat : b = a + c
  <2>1. b - a \in Nat /\ b = a + (b - a)
    BY <1>1
  <2> QED BY <2>1
<1>3. w * b = w * a + w * c /\ w * c \in Nat /\ w * a \in Nat
  BY <1>2, Z3
<1> QED
  BY <1>3

LEMMA DayGrows == \A t, u \in Nat : t <= u => Day(t) <= Day(u) /\ Day(t) \in Nat /\ Day(u) \in Nat
<1>1. DayLen \in Nat /\ DayLen > 0
  BY LimitAssumption
<1> QED
  BY <1>1, Z3 DEF Day

\* The outcomes of a day that a query missed cost WorstR each at most.
LEMMA SumRFloor ==
  ASSUME TypeInv, NEW seen \in SUBSET Signals, NEW old \in SUBSET seen, NEW day
  PROVE  SumR(row, seen, day) >= SumR(row, old, day) - WorstR * Cardinality(seen \ old)
<1> DEFINE S == {s \in seen : Day(row[s].at) = day}
           T == {s \in old : Day(row[s].at) = day}
           f == [s \in Signals |-> row[s].r]
<1>1. row \in [Signals -> Rows(now)] /\ IsFiniteSet(S) /\ IsFiniteSet(seen \ old)
  BY TypeParts, SeenFinite DEF TypeInv
<1>2. \A s \in S : f[s] \in Int /\ f[s] >= -WorstR
  BY <1>1, RowR, WorstIs
<1>3. T \in SUBSET S /\ S \ T \subseteq seen \ old
  OBVIOUS
<1>4. SumFunctionOnSet(f, S) >= SumFunctionOnSet(f, T) - WorstR * Cardinality(S \ T)
  <2> HIDE DEF S, T, f
  <2> QED BY <1>1, <1>2, <1>3, WorstIs, SumFloor
<1>5. Cardinality(S \ T) <= Cardinality(seen \ old) /\ Cardinality(S \ T) \in Nat /\ Cardinality(seen \ old) \in Nat
  <2> HIDE DEF S, T
  <2> QED BY <1>1, <1>3, FS_Subset, FS_CardinalityType
<1>6. WorstR * Cardinality(S \ T) <= WorstR * Cardinality(seen \ old)
  BY <1>5, WorstIs, TimesGrows
<1>7. SumR(row, seen, day) \in Int /\ SumR(row, old, day) \in Int
  BY SumRType
<1>8. SumR(row, seen, day) = SumFunctionOnSet(f, S) /\ SumR(row, old, day) = SumFunctionOnSet(f, T)
  BY DEF SumR
<1>9. WorstR * Cardinality(S \ T) \in Int /\ WorstR * Cardinality(seen \ old) \in Int
  BY <1>5, WorstIs
<1> HIDE DEF S, T, f
<1> QED
  BY <1>4, <1>6, <1>7, <1>8, <1>9

LEMMA SetsOK ==
  ASSUME TypeInv
  PROVE  /\ AtRisk \subseteq Signals /\ Ended \subseteq Signals /\ uncounted \subseteq Signals /\ Closed \subseteq Ended
         /\ \A d : Exposed(d) \subseteq AtRisk
         /\ AtRisk \cap Ended = {}
         /\ Ended \ Closed \subseteq uncounted
<1>1. open \subseteq Signals /\ uncounted \subseteq Signals /\ \A s \in Signals : PlaceOK(s)
  BY TypeParts DEF TypeInv, Shape
<1> QED
  BY <1>1 DEF AtRisk, Ended, Exposed, Retried, Closed, PlaceOK

LEMMA CardType == ASSUME NEW S \in SUBSET Signals PROVE IsFiniteSet(S) /\ Cardinality(S) \in Nat
BY SignalAssumption, FS_Subset, FS_CardinalityType

\* Of two disjoint sets covered by one set and what another has grown by.
LEMMA CardCover ==
  ASSUME NEW N \in SUBSET Signals, NEW A \in SUBSET Signals, NEW B \in SUBSET Signals,
         NEW u \in SUBSET Signals, NEW v \in SUBSET Signals,
         N \cap A = {}, u \subseteq v, N \cup A \subseteq B \cup (v \ u)
  PROVE  Cardinality(N) + Cardinality(A) <= Cardinality(B) + (Cardinality(v) - Cardinality(u))
<1>1. /\ IsFiniteSet(N) /\ IsFiniteSet(A) /\ IsFiniteSet(B) /\ IsFiniteSet(u) /\ IsFiniteSet(v \ u)
      /\ Cardinality(N) \in Nat /\ Cardinality(A) \in Nat /\ Cardinality(B) \in Nat
      /\ Cardinality(u) \in Nat /\ Cardinality(v) \in Nat /\ Cardinality(v \ u) \in Nat
  BY CardType
<1>2. Cardinality(N \cup A) = Cardinality(N) + Cardinality(A)
  <2>1. Cardinality(N \cap A) = 0
    BY FS_EmptySet
  <2>2. Cardinality(N \cup A) = Cardinality(N) + Cardinality(A) - Cardinality(N \cap A)
    BY <1>1, FS_Union
  <2> QED
    BY <1>1, <2>1, <2>2
<1>3. Cardinality(v) = Cardinality(u) + Cardinality(v \ u)
  <2>1. PICK w : w = v \ u
    OBVIOUS
  <2>2. Cardinality(u \cup w) = Cardinality(u) + Cardinality(w) - Cardinality(u \cap w)
    BY <1>1, <2>1, FS_Union
  <2>3. Cardinality(u \cap w) = 0
    <3>1. u \cap w = {}
      BY <2>1
    <3> QED BY <3>1, FS_EmptySet
  <2>4. Cardinality(u \cup w) = Cardinality(v)
    <3>1. u \cup w = v
      BY <2>1
    <3> QED BY <3>1
  <2>5. Cardinality(u) \in Nat /\ Cardinality(w) \in Nat
    BY <1>1, <2>1
  <2>6. Cardinality(v) = Cardinality(u) + Cardinality(w)
    BY <2>2, <2>3, <2>4, <2>5
  <2> QED
    BY <2>1, <2>6
<1>4. Cardinality(B \cup (v \ u)) <= Cardinality(B) + Cardinality(v \ u) /\ Cardinality(B \cup (v \ u)) \in Nat
  <2>1. Cardinality(B \cup (v \ u)) = Cardinality(B) + Cardinality(v \ u) - Cardinality(B \cap (v \ u))
    BY <1>1, FS_Union
  <2>2. Cardinality(B \cap (v \ u)) \in Nat /\ IsFiniteSet(B \cup (v \ u))
    BY CardType
  <2>3. Cardinality(B \cup (v \ u)) \in Nat
    BY CardType
  <2> QED
    BY <1>1, <2>1, <2>2, <2>3
<1>5. Cardinality(N \cup A) <= Cardinality(B \cup (v \ u)) /\ Cardinality(N \cup A) \in Nat
  <2>1. IsFiniteSet(B \cup (v \ u))
    BY CardType
  <2> QED
    BY <2>1, CardType, FS_Subset
<1> QED
  BY <1>1, <1>2, <1>3, <1>4, <1>5

LEMMA FloorType == ASSUME NEW u \in SUBSET Signals PROVE Floor(u) \in Int
<1>1. MaxOpen \in Nat /\ LimitR \in Nat /\ Cardinality(u) \in Nat /\ WorstR \in Nat
  BY LimitAssumption, CardType, WorstIs
<1>2. \A a, b, c, w \in Nat : -a - (b + c) * w \in Int
  BY Z3
<1> QED
  BY <1>1, <1>2 DEF Floor

\* Sums over a day that differ by positions that ended cost WorstR each at most, and
\* so does each position that escaped.
LEMMA RoomArithmetic ==
  \A w, l, m, n, a, b, u, v \in Nat : \A x, y \in Int :
    /\ x - w * b > -l - (m + u) * w
    /\ y >= x - w * n
    /\ n + a <= b + (v - u)
    => y - w * a > -l - (m + v) * w
<1> SUFFICES ASSUME NEW w \in Nat, NEW l \in Nat, NEW m \in Nat, NEW n \in Nat, NEW a \in Nat, NEW b \in Nat,
                    NEW u \in Nat, NEW v \in Nat, NEW x \in Int, NEW y \in Int,
                    x - w * b > -l - (m + u) * w, y >= x - w * n, n + a <= b + (v - u)
             PROVE  y - w * a > -l - (m + v) * w
  OBVIOUS
<1>1. n + a + u \in Nat /\ b + v \in Nat /\ n + a + u <= b + v
  OBVIOUS
<1>2. w * (n + a + u) <= w * (b + v)
  BY <1>1, TimesGrows
<1>3. w * (n + a + u) = w * n + w * a + w * u /\ w * (b + v) = w * b + w * v
      /\ (m + u) * w = w * m + w * u /\ (m + v) * w = w * m + w * v
  BY Z3
<1>4. w * n \in Int /\ w * a \in Int /\ w * u \in Int /\ w * b \in Int /\ w * v \in Int /\ w * m \in Int
  OBVIOUS
<1> QED
  BY <1>2, <1>3, <1>4

\* A step keeps the room of a day if what ends on it, and what is exposed to it
\* afterwards, was exposed to it before or has escaped.
LEMMA RoomKept ==
  ASSUME TypeInv, TypeInv', NEW d,
         Room(row, Ended, Exposed(d), uncounted, d),
         uncounted \subseteq uncounted', Ended \subseteq Ended',
         \A s \in Ended : row'[s] = row[s],
         NEW N \in SUBSET Signals, NEW A, A = Exposed(d)',
         {s \in Ended' \ Ended : Day(row'[s].at) = d} = N,
         N \cap A = {}, N \cup A \subseteq Exposed(d) \cup (uncounted' \ uncounted)
  PROVE  Room(row', Ended', A, uncounted', d)
<1>1. /\ Ended \subseteq Signals /\ Ended' \subseteq Signals /\ Exposed(d) \subseteq Signals /\ A \subseteq Signals
      /\ uncounted \subseteq Signals /\ uncounted' \subseteq Signals
  <2>1. AtRisk \subseteq Signals /\ Ended \subseteq Signals /\ uncounted \subseteq Signals /\ Exposed(d) \subseteq AtRisk
    BY SetsOK
  <2>2. uncounted' \subseteq Signals
    BY DEF TypeInv, TypeOK
  <2>3. Ended' \subseteq Signals
    BY DEF Ended, Closed
  <2> QED
    BY <2>1, <2>2, <2>3
<1>2. /\ row \in [Signals -> Rows(now)] /\ row' \in [Signals -> Rows(now')]
  BY TypeParts DEF TypeInv, TypeOK, Rows, RowStates
<1> DEFINE S == {s \in Ended' : Day(row'[s].at) = d}
           T == {s \in Ended : Day(row[s].at) = d}
           f == [s \in Signals |-> row'[s].r]
           g == [s \in Signals |-> row[s].r]
<1>3. T \in SUBSET S /\ S \ T = N /\ S \subseteq Signals /\ T \subseteq Signals
  BY <1>1
<1>4. (\A s \in S : f[s] \in Int /\ f[s] >= -WorstR) /\ \A s \in T : g[s] \in Int /\ f[s] = g[s]
  <2>1. \A s \in Signals : row'[s].r \in Results \cup {0} /\ row'[s].r \in Int /\ row[s].r \in Int
    BY <1>2, RowR
  <2>2. \A s \in Signals : row'[s].r >= -WorstR
    BY <2>1, WorstIs
  <2> QED
    BY <1>3, <2>1, <2>2
<1>5. SumFunctionOnSet(f, S) >= SumFunctionOnSet(f, T) - WorstR * Cardinality(S \ T)
  <2> HIDE DEF S, T, f, g
  <2> QED BY <1>3, <1>4, CardType, WorstIs, SumFloor
<1>6. SumFunctionOnSet(f, T) = SumFunctionOnSet(g, T)
  <2> HIDE DEF S, T, f, g
  <2> QED BY <1>3, <1>4, CardType, SumSame
<1>7. SumFunctionOnSet(f, S) \in Int /\ SumFunctionOnSet(g, T) \in Int
  <2> HIDE DEF S, T, f, g
  <2> QED BY <1>3, <1>4, CardType, SumType
<1>8. SumR(row', Ended', d) = SumFunctionOnSet(f, S) /\ SumR(row, Ended, d) = SumFunctionOnSet(g, T)
  BY DEF SumR
<1>9. Cardinality(N) + Cardinality(A) <= Cardinality(Exposed(d)) + (Cardinality(uncounted') - Cardinality(uncounted))
  BY <1>1, CardCover
<1>10. /\ Cardinality(N) \in Nat /\ Cardinality(A) \in Nat /\ Cardinality(Exposed(d)) \in Nat
       /\ Cardinality(uncounted) \in Nat /\ Cardinality(uncounted') \in Nat
       /\ MaxOpen \in Nat /\ LimitR \in Nat /\ WorstR \in Nat
  BY <1>1, CardType, LimitAssumption, WorstIs
<1> HIDE DEF S, T, f, g
<1>11. SumR(row', Ended', d) >= SumR(row, Ended, d) - WorstR * Cardinality(N)
  BY <1>3, <1>5, <1>6, <1>8
<1>12. SumR(row, Ended, d) - WorstR * Cardinality(Exposed(d)) > -LimitR - (MaxOpen + Cardinality(uncounted)) * WorstR
  BY DEF Room, Floor
<1>13. SumR(row', Ended', d) - WorstR * Cardinality(A) > -LimitR - (MaxOpen + Cardinality(uncounted')) * WorstR
  <2>1. SumR(row', Ended', d) \in Int /\ SumR(row, Ended, d) \in Int
    BY <1>7, <1>8
  <2> QED
    BY <1>9, <1>10, <1>11, <1>12, <2>1, RoomArithmetic
<1> QED
  BY <1>13 DEF Room, Floor

\* A step within a candle keeps LossInv if what is at risk afterwards was so before or has
\* escaped, and what ends was at risk.
LEMMA LossKept ==
  ASSUME TypeInv, TypeInv', LossInv, UNCHANGED now,
         entry' = entry \/ entry'.at # "exists",
         uncounted \subseteq uncounted', Ended \subseteq Ended',
         \A s \in Ended : row'[s] = row[s],
         Ended' \ Ended \subseteq AtRisk,
         AtRisk' \subseteq AtRisk \cup (uncounted' \ uncounted),
         \A s \in Ended' \ Ended : Day(row'[s].at) = Day(now) \/ s \in Retried(Day(row'[s].at)),
         \A d : d # Day(now) => Retried(d)' \subseteq Retried(d)
  PROVE  LossInv'
<1>1. /\ AtRisk \subseteq Signals /\ AtRisk' \subseteq Signals /\ Ended' \subseteq Signals
      /\ uncounted \subseteq Signals /\ uncounted' \subseteq Signals /\ AtRisk' \cap Ended' = {}
      /\ \A d : Exposed(d)' \subseteq AtRisk'
  <2>1. /\ AtRisk \subseteq Signals /\ uncounted \subseteq Signals
    BY SetsOK
  <2>2. uncounted' \subseteq Signals /\ AtRisk' \subseteq Signals /\ AtRisk' \cap Ended' = {}
        /\ \A d : Exposed(d)' \subseteq AtRisk' /\ Ended' \subseteq Signals
    <3>1. open' \subseteq Signals /\ uncounted' \subseteq Signals /\ \A s \in Signals : PlaceOK(s)'
      BY DEF TypeInv, TypeOK, Shape
    <3> QED
      BY <3>1 DEF AtRisk, Ended, Exposed, Retried, Closed, PlaceOK
  <2> QED
    BY <2>1, <2>2
<1>2. Cardinality(AtRisk') <= MaxOpen + Cardinality(uncounted')
  <2>1. Cardinality({}) + Cardinality(AtRisk') <= Cardinality(AtRisk) + (Cardinality(uncounted') - Cardinality(uncounted))
    BY <1>1, CardCover
  <2>2. Cardinality({}) = 0 /\ Cardinality(AtRisk') \in Nat /\ Cardinality(AtRisk) \in Nat /\ MaxOpen \in Nat
        /\ Cardinality(uncounted) \in Nat /\ Cardinality(uncounted') \in Nat
    BY <1>1, CardType, FS_EmptySet, LimitAssumption
  <2> QED
    BY <2>1, <2>2 DEF LossInv
<1>3. Copied'
  BY DEF LossInv, Copied
<1>4. ASSUME NEW t \in 0 .. LastTick PROVE Room(row', Ended', Exposed(Day(t))', uncounted', Day(t))
  <2> DEFINE d == Day(t)
  <2>1. PICK N : N = {s \in Ended' \ Ended : Day(row'[s].at) = d}
    OBVIOUS
  <2>2. PICK A : A = Exposed(d)'
    OBVIOUS
  <2>3. N \in SUBSET Signals /\ N \subseteq Ended' /\ A \subseteq AtRisk'
    BY <1>1, <2>1, <2>2
  <2>4. N \cap A = {}
    BY <1>1, <2>3
  <2>5. N \cup A \subseteq Exposed(d) \cup (uncounted' \ uncounted)
    <3>1. CASE d = Day(now)
      <4>1. Exposed(d) = AtRisk /\ A = AtRisk'
        BY <2>2, <3>1 DEF Exposed
      <4> QED
        BY <2>1, <4>1
    <3>2. CASE d # Day(now)
      <4>1. Exposed(d) = Retried(d) /\ A = Retried(d)'
        BY <2>2, <3>2 DEF Exposed
      <4>2. N \subseteq Retried(d)
        BY <2>1, <3>2
      <4> QED
        BY <3>2, <4>1, <4>2
    <3> QED
      BY <3>1, <3>2
  <2>6. Room(row, Ended, Exposed(d), uncounted, d)
    BY DEF LossInv
  <2> HIDE DEF d
  <2>7. Room(row', Ended', A, uncounted', d)
    BY <2>1, <2>2, <2>3, <2>4, <2>5, <2>6, RoomKept
  <2> QED
    BY <2>2, <2>7 DEF d
<1>5. (\A t \in 0 .. LastTick : Room(row, Ended, Exposed(Day(t)), uncounted, Day(t)))'
  <2>1. \A t \in 0 .. LastTick : Day(t)' = Day(t)
    BY DEF Day
  <2> QED
    BY <1>4, <2>1 DEF Room, Floor
<1> QED
  BY <1>2, <1>3, <1>5 DEF LossInv

\* A step that leaves the set of ended positions as it is.
LEMMA LossQuiet ==
  ASSUME TypeInv, [Next]_vars, LossInv, UNCHANGED now,
         entry' = entry \/ entry'.at # "exists",
         uncounted \subseteq uncounted', Ended' = Ended, \A s \in Ended : row'[s] = row[s],
         AtRisk' \subseteq AtRisk \cup (uncounted' \ uncounted),
         \A d : d # Day(now) => Retried(d)' \subseteq Retried(d)
  PROVE  LossInv'
<1>1. TypeInv'
  BY TypeStep
<1> QED
  BY <1>1, LossKept

\* Rows other than s stay, and so do their places.
LEMMA OneMoves ==
  ASSUME TypeInv, NEW s \in Signals,
         \A t \in Signals : t # s => row'[t] = row[t],
         \A t \in Signals : t # s => (t \in open' <=> t \in open) /\ (t \in uncounted' <=> t \in uncounted),
         open' \subseteq Signals, uncounted' \subseteq Signals,
         UNCHANGED now
  PROVE  /\ \A t \in Signals : t # s => (t \in AtRisk' <=> t \in AtRisk) /\ (t \in Ended' <=> t \in Ended)
         /\ \A t \in Signals : t # s => \A d : (t \in Retried(d)' <=> t \in Retried(d))
         /\ AtRisk' \subseteq Signals /\ Ended' \subseteq Signals /\ \A d : Retried(d)' \subseteq Signals
<1>1. open \subseteq Signals /\ uncounted \subseteq Signals
  BY TypeParts DEF TypeInv
<1>2. \A t \in Signals : t # s => (t \in AtRisk' <=> t \in AtRisk)
  BY <1>1 DEF AtRisk
<1>3. \A t \in Signals : t # s => (t \in Ended' <=> t \in Ended)
  BY <1>1 DEF Ended, Closed
<1>4. \A t \in Signals : t # s => \A d : (t \in Retried(d)' <=> t \in Retried(d))
  BY <1>1 DEF Retried, Day
<1> QED
  BY <1>1, <1>2, <1>3, <1>4 DEF AtRisk, Ended, Closed, Retried

LEMMA StepIs ==
  ASSUME NEW s \in Signals, EntryStep(s) \/ EndStep(s) \/ CheckStep(s) \/ CloseOutcome(s)
  PROVE  Next
BY DEF Next, EntryStep, EndStep, CheckStep

LEMMA EntryLoss ==
  ASSUME TypeInv, LossInv, NEW s \in Signals, EntryStep(s), ~Accept(s) PROVE LossInv'
<1>1. [Next]_vars /\ TypeInv'
  BY StepIs, EntryTypes
<1>2. /\ UNCHANGED <<now, check, events, unchecked>> /\ Closed' = Closed
      /\ \A t \in Closed : row'[t] = row[t]
      /\ \A t \in Signals : t # s => row'[t] = row[t]
  BY EntrySteps
<1>3. row \in [Signals -> Rows(now)] /\ open \subseteq Signals /\ uncounted \subseteq Signals /\ PlaceOK(s)
  BY TypeParts DEF TypeInv, Shape
<1>4. CASE TakeSignal(s) \/ CopyContext \/ EntryFails
  <2>1. UNCHANGED <<row, open, uncounted>>
    BY <1>4 DEF TakeSignal, CopyContext, EntryFails, history
  <2>2. AtRisk' = AtRisk /\ Ended' = Ended /\ \A d : Retried(d)' = Retried(d)
    BY <1>2, <2>1 DEF AtRisk, Ended, Closed, Retried, Day
  <2>3. CASE CopyContext
    <3>1. entry'.seen = Closed /\ entry'.open = open
      <4>1. entry \in Entries(Closed)
        BY TypeParts DEF TypeInv
      <4> QED
        BY <2>3, <4>1 DEF CopyContext, Entries
    <3>2. AtRisk \cup (Ended \ Closed) \subseteq open \cup uncounted
      BY SetsOK DEF AtRisk
    <3>3. Copied'
      BY <2>1, <2>2, <3>1, <3>2 DEF Copied
    <3>4. Cardinality(AtRisk') <= MaxOpen + Cardinality(uncounted')
      BY <2>1, <2>2 DEF LossInv
    <3>5. (\A t \in 0 .. LastTick : Room(row, Ended, Exposed(Day(t)), uncounted, Day(t)))'
      BY <1>2, <2>1, <2>2 DEF LossInv, Room, Floor, Exposed, SumR, WorstR, Day
    <3> QED
      BY <3>3, <3>4, <3>5 DEF LossInv
  <2>4. CASE TakeSignal(s) \/ EntryFails
    <3>1. entry'.at # "exists"
      <4>1. CASE TakeSignal(s)
        <5>1. entry' = [NoEntry EXCEPT !.at = "history", !.sig = s]
          BY <4>1 DEF TakeSignal
        <5>2. entry'.at = "history"
          BY <5>1 DEF NoEntry
        <5> QED BY <5>2
      <4>2. CASE EntryFails
        <5>1. entry' = NoEntry
          BY <4>2 DEF EntryFails
        <5> QED BY <5>1 DEF NoEntry
      <4> QED
        BY <2>4, <4>1, <4>2
    <3> QED
      BY <1>1, <1>2, <2>1, <2>2, <3>1, LossQuiet
  <2> QED
    BY <1>4, <2>3, <2>4
<1>5. CASE Reject(s) \/ Fill(s) \/ AcceptFails(s)
  <2>1. /\ open' = open /\ uncounted \subseteq uncounted' /\ uncounted' \subseteq uncounted \cup {s}
        /\ (entry' = entry \/ entry'.at # "exists")
        /\ AcceptFails(s) => uncounted' = uncounted \cup {s}
    BY <1>5 DEF Reject, Fill, AcceptFails, NoEntry, history
  <2>2. PICK state \in {"open", "rejected"} :
          row' = [row EXCEPT ![s].state = state] /\ (Reject(s) \/ Fill(s) \/ AcceptFails(s))
          /\ (Reject(s) => state = "rejected")
    BY <1>5 DEF Reject, Fill, AcceptFails
  <2>3. row'[s].state = state /\ row[s].state \in {"none", "pending"} /\ (Fill(s) => s \in open)
        /\ (~Fill(s) => s \notin open \cup uncounted)
    BY <1>3, <2>2 DEF Reject, Fill, AcceptFails, PlaceOK, Rows
  <2>4. /\ \A t \in Signals : t # s => (t \in AtRisk' <=> t \in AtRisk) /\ (t \in Ended' <=> t \in Ended)
        /\ \A t \in Signals : t # s => \A d : (t \in Retried(d)' <=> t \in Retried(d))
        /\ AtRisk' \subseteq Signals /\ Ended' \subseteq Signals /\ \A d : Retried(d)' \subseteq Signals
    BY <1>2, <1>3, <2>1, OneMoves
  <2>5. s \notin Ended /\ s \notin Ended' /\ (\A d : s \notin Retried(d)') /\ Ended \subseteq Signals
    BY <2>2, <2>3, SetsOK DEF Ended, Closed, Retried
  <2>6. s \in AtRisk' => s \in AtRisk \cup (uncounted' \ uncounted)
    <3>1. CASE Fill(s)
      BY <2>2, <2>3, <3>1 DEF AtRisk, Fill
    <3>2. CASE AcceptFails(s)
      BY <2>1, <2>3, <3>2 DEF AtRisk, AcceptFails, Fill
    <3>3. CASE Reject(s)
      BY <2>2, <2>3, <3>3 DEF AtRisk
    <3> QED
      BY <1>5, <3>1, <3>2, <3>3
  <2>7. Ended' = Ended /\ \A t \in Ended : row'[t] = row[t]
    BY <1>2, <2>4, <2>5
  <2>8. AtRisk' \subseteq AtRisk \cup (uncounted' \ uncounted)
    BY <2>4, <2>6
  <2>9. \A d : Retried(d)' \subseteq Retried(d)
    BY <2>4, <2>5
  <2> QED
    BY <1>1, <1>2, <2>1, <2>7, <2>8, <2>9, LossQuiet
<1> QED
  BY <1>4, <1>5 DEF EntryStep

LEMMA EndLoss ==
  ASSUME TypeInv, LossInv, NEW s \in Signals, EndStep(s) PROVE LossInv'
<1>1. [Next]_vars /\ TypeInv'
  BY StepIs, EndTypes
<1>2. /\ UNCHANGED <<now, entry, events>> /\ Closed' = Closed
      /\ \A t \in Closed : row'[t] = row[t]
      /\ \A t \in Signals : t # s => row'[t] = row[t] /\ check'[t] = check[t]
  BY EndSteps
<1>3. row \in [Signals -> Rows(now)] /\ open \subseteq Signals /\ uncounted \subseteq Signals /\ PlaceOK(s) /\ StageOK(s)
  BY TypeParts DEF TypeInv, Shape
<1>4. /\ open' \subseteq open /\ open \subseteq open' \cup {s} /\ uncounted \subseteq uncounted'
      /\ uncounted' \subseteq uncounted \cup {s}
  BY DEF EndStep, Cancel, CancelRow, Close, CancelFails, OutcomeFails, CheckFails, history
<1>5. /\ \A t \in Signals : t # s => (t \in AtRisk' <=> t \in AtRisk) /\ (t \in Ended' <=> t \in Ended)
      /\ \A t \in Signals : t # s => \A d : (t \in Retried(d)' <=> t \in Retried(d))
      /\ AtRisk' \subseteq Signals /\ Ended' \subseteq Signals /\ \A d : Retried(d)' \subseteq Signals
  BY <1>2, <1>3, <1>4, OneMoves
<1>6. /\ s \in Ended' <=> s \in Ended
      /\ s \in Ended => row'[s] = row[s]
      /\ s \in AtRisk' => s \in AtRisk \cup (uncounted' \ uncounted)
      /\ \A d : d # Day(now) /\ s \in Retried(d)' => s \in Retried(d)
  <2>1. CASE Cancel(s)
    <3>1. row' = row /\ row[s].state = "pending" /\ s \in open /\ s \notin open' /\ uncounted' = uncounted
      BY <2>1 DEF Cancel, history
    <3> QED
      BY <3>1 DEF AtRisk, Ended, Closed, Retried
  <2>2. CASE CancelRow(s)
    <3>1. row'[s].state = "cancelled" /\ row[s].state = "pending"
      BY <1>3, <2>2 DEF CancelRow, StageOK, Rows
    <3> QED
      BY <3>1 DEF AtRisk, Ended, Closed, Retried
  <2>3. ASSUME NEW r \in Results, Close(s, r)
        PROVE  /\ s \in Ended' <=> s \in Ended
               /\ s \in Ended => row'[s] = row[s]
               /\ s \in AtRisk' => s \in AtRisk \cup (uncounted' \ uncounted)
               /\ \A d : d # Day(now) /\ s \in Retried(d)' => s \in Retried(d)
    <3>1. row[s].state \in {"open", "closing"} /\ s \in open /\ open' = open
          /\ row' = [row EXCEPT ![s] = [state |-> "closing", r |-> r, at |-> now]]
      BY <2>3 DEF Close
    <3>2. row'[s].state = "closing" /\ row'[s].at = now
      BY <1>3, <3>1
    <3> QED
      BY <1>2, <3>1, <3>2 DEF AtRisk, Ended, Closed, Retried, Day
  <2>4. CASE CancelFails(s) \/ OutcomeFails(s) \/ CheckFails(s)
    <3>1. row' = row /\ open' = open /\ (CancelFails(s) => s \in uncounted') /\ (~CancelFails(s) => uncounted' = uncounted)
      BY <2>4 DEF CancelFails, OutcomeFails, CheckFails, history
    <3> QED
      BY <1>4, <3>1 DEF AtRisk, Ended, Closed, Retried, Day
  <2> QED
    BY <2>1, <2>2, <2>3, <2>4 DEF EndStep
<1>7. Ended' = Ended /\ \A t \in Ended : row'[t] = row[t]
  <2>1. Ended \subseteq Signals
    BY SetsOK
  <2> QED
    BY <1>2, <1>5, <1>6, <2>1
<1>8. AtRisk' \subseteq AtRisk \cup (uncounted' \ uncounted)
  BY <1>5, <1>6
<1>9. \A d : d # Day(now) => Retried(d)' \subseteq Retried(d)
  BY <1>5, <1>6
<1> QED
  BY <1>1, <1>2, <1>4, <1>7, <1>8, <1>9, LossQuiet

LEMMA CheckLoss ==
  ASSUME TypeInv, LossInv, NEW s \in Signals, CheckStep(s) PROVE LossInv'
<1>1. [Next]_vars
  BY StepIs
<1>2. /\ UNCHANGED <<now, row, entry, uncounted>> /\ s \in Closed /\ open \subseteq Signals
      /\ \A t \in Signals : t # s => (t \in open' <=> t \in open)
      /\ open' \subseteq Signals
  BY CheckTypes, TypeParts DEF TypeInv, TypeOK
<1>3. row[s].state = "closed" /\ s \in Signals
  BY <1>2 DEF Closed
<1>4. AtRisk' = AtRisk
  <2>1. \A t \in Signals : t \in AtRisk' <=> t \in AtRisk
    BY <1>2, <1>3 DEF AtRisk
  <2>2. AtRisk \subseteq Signals /\ AtRisk' \subseteq Signals
    BY <1>2, TypeParts DEF AtRisk, TypeInv
  <2> QED
    BY <2>1, <2>2
<1>5. Ended' = Ended
  BY <1>2, <1>3 DEF Ended, Closed
<1>6. \A d : Retried(d)' = Retried(d)
  <2>1. \A d : \A t \in Signals : t \in Retried(d)' <=> t \in Retried(d)
    BY <1>2, <1>3 DEF Retried, Day
  <2>2. \A d : Retried(d) \subseteq Signals /\ Retried(d)' \subseteq Signals
    BY <1>2 DEF Retried
  <2> QED
    BY <2>1, <2>2
<1> QED
  BY <1>1, <1>2, <1>4, <1>5, <1>6, LossQuiet

LEMMA OutcomeLoss ==
  ASSUME TypeInv, LossInv, NEW s \in Signals, CloseOutcome(s) PROVE LossInv'
<1>1. /\ TypeInv' /\ UNCHANGED <<now, open, entry, events, budget, uncounted, unchecked>>
      /\ row[s].state = "closing" /\ row[s].at = now /\ s \in open
      /\ \A t \in Signals : t # s => row'[t] = row[t]
      /\ row'[s].state = "closed" /\ row'[s].at = now
  BY OutcomeTypes
<1>2. open \subseteq Signals /\ uncounted \subseteq Signals
  BY TypeParts DEF TypeInv
<1>3. /\ \A t \in Signals : t # s => (t \in AtRisk' <=> t \in AtRisk) /\ (t \in Ended' <=> t \in Ended)
      /\ \A t \in Signals : t # s => \A d : (t \in Retried(d)' <=> t \in Retried(d))
      /\ AtRisk' \subseteq Signals /\ Ended' \subseteq Signals /\ \A d : Retried(d)' \subseteq Signals
  BY <1>1, <1>2, OneMoves
<1>4. /\ s \in AtRisk /\ s \notin AtRisk' /\ s \in Ended' /\ s \notin Ended /\ (\A d : s \notin Retried(d)')
  BY <1>1 DEF AtRisk, Ended, Closed, Retried
<1>5. Ended \subseteq Signals
  BY SetsOK
<1>6. Ended' = Ended \cup {s} /\ AtRisk' \subseteq AtRisk /\ \A d : Retried(d)' \subseteq Retried(d)
  BY <1>3, <1>4, <1>5
<1>7. \A t \in Ended : row'[t] = row[t]
  BY <1>1, <1>4, <1>5
<1>8. \A t \in Ended' \ Ended : t = s /\ t \in AtRisk /\ Day(row'[t].at) = Day(now)
  BY <1>1, <1>4, <1>6
<1> QED
  BY <1>1, <1>6, <1>7, <1>8, LossKept

LEMMA CrashLoss ==
  ASSUME TypeInv, LossInv, Crash PROVE LossInv'
<1>1. /\ TypeInv' /\ UNCHANGED <<now, row, events>> /\ entry' = NoEntry /\ open' = Live
      /\ uncounted' = uncounted \cup {s \in Signals : check[s].at = "cancel"}
                                \cup {s \in Signals : row[s].state = "closing"}
  BY CrashTypes
<1>2. open \subseteq Signals /\ uncounted \subseteq Signals /\ \A s \in Signals : PlaceOK(s)
  BY TypeParts DEF TypeInv, Shape
<1>3. Ended \subseteq Ended' /\ \A s \in Ended' \ Ended : s \in open /\ row[s].state = "closing"
  BY <1>1, <1>2 DEF Ended, Closed, Live
<1>4. Ended' \ Ended \subseteq AtRisk
  BY <1>3 DEF AtRisk
<1>5. AtRisk' \subseteq AtRisk \cup (uncounted' \ uncounted)
  <2>1. SUFFICES ASSUME NEW s \in AtRisk' PROVE s \in AtRisk \cup (uncounted' \ uncounted)
    OBVIOUS
  <2>2. s \in Signals /\ row[s].state \in {"pending", "open"}
    <3>1. uncounted' \subseteq Signals
      BY <1>1, <1>2
    <3> QED
      BY <1>1, <2>1, <3>1 DEF AtRisk, Live
  <2>3. s \in open \cup uncounted \/ check[s].at = "cancel"
    BY <1>2, <2>2 DEF PlaceOK
  <2> QED
    BY <1>1, <2>2, <2>3 DEF AtRisk
<1>6. \A s \in Ended' \ Ended : s \in Retried(Day(row'[s].at))
  BY <1>1, <1>3 DEF Retried
<1>7. \A d : Retried(d)' = {}
  BY <1>1 DEF Retried, Live
<1>8. entry'.at # "exists" /\ uncounted \subseteq uncounted' /\ \A s \in Ended : row'[s] = row[s]
  BY <1>1 DEF NoEntry
<1> QED
  BY <1>1, <1>3, <1>4, <1>5, <1>6, <1>7, <1>8, LossKept

\* Slots that are free by the copy of the map are free to lose.
LEMMA SlotArithmetic ==
  \A w, l, m, a, n, u \in Nat : \A x, y \in Int :
    /\ a + n <= m + u /\ x > -l /\ y >= x - w * n
    => y - w * a > -l - (m + u) * w
<1> SUFFICES ASSUME NEW w \in Nat, NEW l \in Nat, NEW m \in Nat, NEW a \in Nat, NEW n \in Nat, NEW u \in Nat,
                    NEW x \in Int, NEW y \in Int, a + n <= m + u, x > -l, y >= x - w * n
             PROVE  y - w * a > -l - (m + u) * w
  OBVIOUS
<1>1. w * (a + n) <= w * (m + u)
  BY TimesGrows
<1>2. w * (a + n) = w * a + w * n /\ w * (m + u) = (m + u) * w
  BY Z3
<1>3. w * a \in Int /\ w * n \in Int /\ (m + u) * w \in Int
  OBVIOUS
<1> QED
  BY <1>1, <1>2, <1>3

\* Fewer exposed positions leave more room.
LEMMA RoomMore ==
  ASSUME TypeInv, NEW B \in SUBSET Signals, NEW A \in SUBSET B, NEW d, Room(row, Ended, B, uncounted, d)
  PROVE  Room(row, Ended, A, uncounted, d)
<1>1. Cardinality(A) \in Nat /\ Cardinality(B) \in Nat /\ Cardinality(A) <= Cardinality(B)
  BY CardType, FS_Subset
<1>2. WorstR * Cardinality(A) <= WorstR * Cardinality(B)
  BY <1>1, WorstIs, TimesGrows
<1>3. SumR(row, Ended, d) \in Int /\ Floor(uncounted) \in Int
  BY SetsOK, SumRType, FloorType
<1>4. WorstR * Cardinality(A) \in Int /\ WorstR * Cardinality(B) \in Int
  BY <1>1, WorstIs
<1> QED
  BY <1>2, <1>3, <1>4 DEF Room

LEMMA AcceptLoss ==
  ASSUME TypeInv, LossInv, NEW s \in Signals, Accept(s) PROVE LossInv'
<1>1. [Next]_vars /\ EntryStep(s)
  BY DEF Next, EntryStep
<1>2. /\ row \in [Signals -> Rows(now)] /\ entry.seen \in SUBSET Closed /\ entry.open \subseteq Signals
      /\ entry.at = "exists" /\ ~Refused /\ row[s].state = "none" /\ s \notin open \cup uncounted
      /\ open \subseteq Signals /\ uncounted \subseteq Signals
  BY TypeParts DEF Accept, TypeInv, Shape, PlaceOK, Entries
<1>3. /\ UNCHANGED <<now, uncounted>> /\ open' = open \cup {s} /\ entry'.at # "exists"
  BY DEF Accept, NoEntry, history
<1>4. /\ row'[s].state \in {"pending", "open"}
      /\ \A t \in Signals : t # s => row'[t] = row[t]
  <2>1. PICK state \in {"pending", "open"} : row' = [row EXCEPT ![s].state = state]
    BY DEF Accept
  <2> QED
    BY <1>2, <2>1 DEF Rows
<1>5. /\ \A t \in Signals : t # s => (t \in AtRisk' <=> t \in AtRisk) /\ (t \in Ended' <=> t \in Ended)
      /\ \A t \in Signals : t # s => \A d : (t \in Retried(d)' <=> t \in Retried(d))
      /\ AtRisk' \subseteq Signals /\ Ended' \subseteq Signals /\ \A d : Retried(d)' \subseteq Signals
  BY <1>2, <1>3, <1>4, OneMoves
<1>6. /\ s \notin Ended' /\ s \notin Ended /\ s \in AtRisk'
      /\ \A d : s \notin Retried(d)' /\ s \notin Retried(d)
  BY <1>2, <1>3, <1>4 DEF AtRisk, Ended, Closed, Retried
<1>7. /\ AtRisk \subseteq Signals /\ Ended \subseteq Signals /\ Closed \subseteq Ended /\ AtRisk \cap Ended = {}
      /\ \A d : Retried(d) \subseteq Signals
  BY <1>2, SetsOK DEF Retried
<1>8. /\ AtRisk' = AtRisk \cup {s} /\ Ended' = Ended /\ \A d : Retried(d)' = Retried(d)
  BY <1>5, <1>6, <1>7
<1> DEFINE N == Ended \ entry.seen
           L == AtRisk \cup {s}
<1>9. /\ L \cup N \subseteq (entry.open \cup {s}) \cup uncounted /\ L \cap N = {}
      /\ L \in SUBSET Signals /\ N \in SUBSET Signals /\ entry.open \cup {s} \in SUBSET Signals
  BY <1>2, <1>6, <1>7 DEF LossInv, Copied
<1>10. Cardinality(L) + Cardinality(N) <= Cardinality(entry.open \cup {s}) + Cardinality(uncounted)
  <2>1. {} \in SUBSET Signals /\ uncounted \ {} = uncounted /\ Cardinality({}) = 0
    BY FS_EmptySet
  <2>2. Cardinality(N) + Cardinality(L) <= Cardinality(entry.open \cup {s}) + (Cardinality(uncounted) - Cardinality({}))
    <3> HIDE DEF L, N
    <3> QED BY <1>2, <1>9, <2>1, CardCover
  <2>3. Cardinality(N) \in Nat /\ Cardinality(L) \in Nat /\ Cardinality(uncounted) \in Nat
        /\ Cardinality(entry.open \cup {s}) \in Nat
    <3> HIDE DEF L, N
    <3> QED BY <1>2, <1>9, CardType
  <2> HIDE DEF L, N
  <2> QED
    BY <2>1, <2>2, <2>3
<1>11. Cardinality(L) + Cardinality(N) <= MaxOpen + Cardinality(uncounted)
       /\ Cardinality(L) \in Nat /\ Cardinality(N) \in Nat /\ MaxOpen \in Nat /\ Cardinality(uncounted) \in Nat
  <2>1. Cardinality(entry.open \cup {s}) <= Cardinality(entry.open) + 1
        /\ Cardinality(entry.open) \in Nat /\ Cardinality(entry.open \cup {s}) \in Nat
    <3>1. IsFiniteSet(entry.open) /\ Cardinality(entry.open) \in Nat /\ Cardinality(entry.open \cup {s}) \in Nat
      BY <1>2, <1>9, CardType
    <3>2. Cardinality(entry.open \cup {s})
            = IF s \in entry.open THEN Cardinality(entry.open) ELSE Cardinality(entry.open) + 1
      BY <3>1, FS_AddElement
    <3> QED
      BY <3>1, <3>2
  <2>2. Cardinality(entry.open) < MaxOpen /\ MaxOpen \in Nat
    BY <1>2, <2>1, LimitAssumption DEF Refused
  <2>3. Cardinality(L) \in Nat /\ Cardinality(N) \in Nat /\ Cardinality(uncounted) \in Nat
    <3> HIDE DEF L, N
    <3> QED BY <1>2, <1>9, CardType
  <2> HIDE DEF L, N
  <2> QED
    BY <1>10, <2>1, <2>2, <2>3
<1>12. SumR(row, entry.seen, Day(now)) > -LimitR
  <2>1. ~(SumR(row, entry.seen, Day(now)) <= -LimitR)
    BY <1>2 DEF Refused, DayR, SumR
  <2>2. SumR(row, entry.seen, Day(now)) \in Int /\ LimitR \in Nat
    BY <1>2, <1>7, SumRType, LimitAssumption
  <2> QED
    BY <2>1, <2>2
<1>13. SumR(row, Ended, Day(now)) >= SumR(row, entry.seen, Day(now)) - WorstR * Cardinality(N)
  BY <1>2, <1>7, SumRFloor
<1>14. Room(row, Ended, L, uncounted, Day(now))
  <2>1. /\ SumR(row, Ended, Day(now)) \in Int /\ SumR(row, entry.seen, Day(now)) \in Int
        /\ LimitR \in Nat /\ WorstR \in Nat
    BY <1>2, <1>7, SumRType, LimitAssumption, WorstIs
  <2>2. SumR(row, Ended, Day(now)) - WorstR * Cardinality(L) > -LimitR - (MaxOpen + Cardinality(uncounted)) * WorstR
    <3> HIDE DEF L, N
    <3> QED BY <1>11, <1>12, <1>13, <2>1, SlotArithmetic
  <2> QED
    BY <2>2 DEF Room, Floor
<1>15. \A d : SumR(row', Ended, d) = SumR(row, Ended, d)
  <2>1. SUFFICES ASSUME NEW d PROVE SumR(row', Ended, d) = SumR(row, Ended, d)
    OBVIOUS
  <2>2. {u \in Ended : Day(row'[u].at) = d} = {u \in Ended : Day(row[u].at) = d}
    BY <1>4, <1>6, <1>7
  <2> DEFINE T == {u \in Ended : Day(row[u].at) = d}
             f == [u \in Signals |-> row'[u].r]
             g == [u \in Signals |-> row[u].r]
  <2>3. T \subseteq Signals /\ \A u \in T : g[u] \in Int /\ f[u] = g[u]
    <3>1. \A u \in Signals : row[u].r \in Int
      BY <1>2, RowR
    <3> QED
      BY <1>4, <1>6, <1>7, <3>1
  <2>4. SumFunctionOnSet(f, T) = SumFunctionOnSet(g, T)
    <3> HIDE DEF T, f, g
    <3> QED BY <2>3, CardType, SumSame
  <2> QED
    BY <2>2, <2>4 DEF SumR
<1>16. ASSUME NEW t \in 0 .. LastTick PROVE Room(row', Ended', Exposed(Day(t))', uncounted', Day(t))
  <2>1. PICK d : d = Day(t)
    OBVIOUS
  <2>2. CASE d = Day(now)
    <3>1. Exposed(d)' = L
      BY <1>3, <1>8, <2>2 DEF Exposed, Day
    <3> HIDE DEF L
    <3>2. Room(row', Ended', L, uncounted', d)
      BY <1>3, <1>8, <1>14, <1>15, <2>2 DEF Room, Floor, WorstR
    <3> QED
      BY <2>1, <3>1, <3>2
  <2>3. CASE d # Day(now)
    <3>1. Exposed(d)' = Exposed(d)
      BY <1>3, <1>8, <2>3 DEF Exposed, Day
    <3>2. Room(row, Ended, Exposed(d), uncounted, d)
      BY <2>1 DEF LossInv
    <3>3. Room(row', Ended', Exposed(d), uncounted', d)
      BY <1>3, <1>8, <1>15, <3>2 DEF Room, Floor, WorstR
    <3> QED
      BY <2>1, <3>1, <3>3
  <2> QED
    BY <2>2, <2>3
<1>17. (\A t \in 0 .. LastTick : Room(row, Ended, Exposed(Day(t)), uncounted, Day(t)))'
  <2>1. \A t \in 0 .. LastTick : Day(t)' = Day(t)
    BY DEF Day
  <2> QED
    BY <1>16, <2>1 DEF Room, Floor
<1>18. Cardinality(AtRisk') <= MaxOpen + Cardinality(uncounted')
  <2> HIDE DEF N, L
  <2>1. Cardinality(L) <= MaxOpen + Cardinality(uncounted)
    BY <1>11
  <2> QED
    BY <1>3, <1>8, <2>1 DEF L
<1> QED
  BY <1>3, <1>17, <1>18 DEF LossInv, Copied

LEMMA TickLoss ==
  ASSUME TypeInv, LossInv, Tick PROVE LossInv'
<1>1. TypeInv' /\ UNCHANGED <<row, open, entry, uncounted>> /\ now' = now + 1 /\ Closed' = Closed
  BY TickTypes
<1>2. AtRisk' = AtRisk /\ Ended' = Ended /\ \A d : Retried(d)' = Retried(d)
  BY <1>1 DEF AtRisk, Ended, Retried, Day
<1>3. row \in [Signals -> Rows(now)] /\ now \in Nat /\ AtRisk \subseteq Signals /\ Ended \subseteq Signals
      /\ uncounted \subseteq Signals /\ \A d : Retried(d) \subseteq AtRisk
  BY TypeParts, BoundAssumption, SetsOK DEF TypeInv, Retried, AtRisk
<1>4. Cardinality(AtRisk) \in Nat /\ MaxOpen \in Nat /\ LimitR \in Nat /\ LimitR > 0 /\ WorstR \in Nat
      /\ Cardinality(uncounted) \in Nat
  BY <1>3, CardType, LimitAssumption, WorstIs
<1>5. Day(now') # Day(now) => Room(row, Ended, AtRisk, uncounted, Day(now'))
  <2>1. SUFFICES ASSUME Day(now') # Day(now) PROVE Room(row, Ended, AtRisk, uncounted, Day(now'))
    OBVIOUS
  <2>2. ASSUME NEW s \in Ended PROVE Day(row[s].at) # Day(now')
    <3>1. row[s].at \in Nat /\ row[s].at <= now
      BY <1>3 DEF Rows
    <3>2. now' \in Nat /\ now <= now'
      BY <1>1, <1>3
    <3> QED
      BY <1>3, <2>1, <3>1, <3>2, DayGrows
  <2>3. {s \in Ended : Day(row[s].at) = Day(now')} = {}
    BY <2>2
  <2>4. SumR(row, Ended, Day(now')) = 0
    BY <2>3, SumEmpty DEF SumR
  <2>5. Cardinality(AtRisk) <= MaxOpen + Cardinality(uncounted)
    BY DEF LossInv
  <2>6. 0 - WorstR * Cardinality(AtRisk) > -LimitR - (MaxOpen + Cardinality(uncounted)) * WorstR
    <3>1. 0 \in Nat /\ 0 \in Int /\ Cardinality(AtRisk) + 0 <= MaxOpen + Cardinality(uncounted) /\ 0 > -LimitR
      BY <1>4, <2>5
    <3>2. WorstR * 0 = 0
      BY <1>4
    <3>3. 0 >= 0 - WorstR * 0
      BY <3>2
    <3> QED
      BY <1>4, <3>1, <3>3, SlotArithmetic
  <2> QED
    BY <2>4, <2>6 DEF Room, Floor
<1>6. ASSUME NEW t \in 0 .. LastTick PROVE Room(row', Ended', Exposed(Day(t))', uncounted', Day(t))
  <2>1. PICK d : d = Day(t)
    OBVIOUS
  <2>2. Room(row, Ended, Exposed(d), uncounted, d)
    BY <2>1 DEF LossInv
  <2>3. PICK A : A = Exposed(d)'
    OBVIOUS
  <2>4. A = IF d = Day(now') THEN AtRisk ELSE Retried(d)
    BY <1>2, <2>3 DEF Exposed, Day
  <2>5. Room(row, Ended, A, uncounted, d)
    <3>1. CASE d = Day(now) /\ d # Day(now')
      <4>1. A \in SUBSET AtRisk /\ Exposed(d) = AtRisk
        BY <1>3, <2>4, <3>1 DEF Exposed
      <4> QED
        BY <1>3, <2>2, <4>1, RoomMore
    <3>2. CASE d # Day(now) /\ d = Day(now')
      BY <1>5, <2>4, <3>2
    <3>3. CASE d = Day(now) <=> d = Day(now')
      BY <2>2, <2>4, <3>3 DEF Exposed
    <3> QED
      BY <3>1, <3>2, <3>3
  <2>6. Room(row', Ended', A, uncounted', d)
    BY <1>1, <1>2, <2>5
  <2> QED
    BY <2>1, <2>3, <2>6
<1>7. (\A t \in 0 .. LastTick : Room(row, Ended, Exposed(Day(t)), uncounted, Day(t)))'
  <2>1. \A t \in 0 .. LastTick : Day(t)' = Day(t)
    BY DEF Day
  <2> QED
    BY <1>6, <2>1 DEF Room, Floor
<1>8. Copied' /\ Cardinality(AtRisk') <= MaxOpen + Cardinality(uncounted')
  BY <1>1, <1>2 DEF LossInv, Copied
<1> QED
  BY <1>7, <1>8 DEF LossInv

LEMMA LossInit == ASSUME Init PROVE LossInv
<1>1. Closed = {} /\ Ended = {} /\ AtRisk = {} /\ uncounted = {} /\ entry.at = "idle" /\ open = {}
  BY DEF Init, NoRow, NoEntry, Closed, Ended, AtRisk
<1>2. Cardinality({}) = 0
  BY FS_EmptySet
<1>3. \A d : SumR(row, {}, d) = 0
  <2>1. \A d : {s \in {} : Day(row[s].at) = d} = {}
    OBVIOUS
  <2> QED
    BY <2>1, SumEmpty DEF SumR
<1>4. MaxOpen \in Nat /\ LimitR \in Nat /\ LimitR > 0 /\ WorstR \in Nat
  BY LimitAssumption, WorstIs
<1>5. 0 - WorstR * 0 > -LimitR - (MaxOpen + 0) * WorstR
  <2>1. 0 \in Nat /\ 0 \in Int /\ 0 + 0 <= MaxOpen + 0 /\ 0 > -LimitR
    BY <1>4
  <2>2. 0 >= 0 - WorstR * 0
    BY <1>4
  <2> QED
    BY <1>4, <2>1, <2>2, SlotArithmetic
<1>6. \A d : Exposed(d) = {}
  BY <1>1 DEF Exposed, Retried
<1>7. \A d : Room(row, Ended, Exposed(d), uncounted, d)
  BY <1>1, <1>2, <1>3, <1>5, <1>6 DEF Room, Floor
<1>8. Cardinality(AtRisk) <= MaxOpen + Cardinality(uncounted)
  BY <1>1, <1>2, <1>4
<1> QED
  BY <1>1, <1>7, <1>8 DEF LossInv, Copied

LEMMA LossStep == ASSUME TypeInv, LossInv, [Next]_vars PROVE LossInv'
<1>1. CASE UNCHANGED vars
  <2>1. UNCHANGED <<now, row, open, entry, uncounted>>
    BY <1>1 DEF vars, history
  <2>2. AtRisk' = AtRisk /\ Ended' = Ended /\ \A d : Retried(d)' = Retried(d)
    BY <2>1 DEF AtRisk, Ended, Closed, Retried, Day
  <2> QED
    BY <2>1, <2>2 DEF LossInv, Copied, Room, Floor, Exposed, SumR, WorstR, Day
<1>2. CASE Next
  <2>1. ASSUME NEW s \in Signals, EntryStep(s) PROVE LossInv'
    BY <2>1, EntryLoss, AcceptLoss
  <2> QED
    BY <1>2, <2>1, Kinds, EndLoss, CheckLoss, OutcomeLoss, TickLoss, CrashLoss
<1> QED
  BY <1>1, <1>2

\* A day loses less than the limit and what max_open positions can lose beyond
\* it, whatever order the queries of a signal and the closes of other positions
\* take effect in, however often the engine crashes and whatever call of an entry,
\* a cancellation or a close fails: each position that escaped its slot or lost its
\* outcome that way adds itself to the bound.
THEOREM DayLossIsBounded == Spec => []DayLossBounded
<1>1. TypeInv /\ LossInv => DayLossBounded
  <2>1. SUFFICES ASSUME TypeInv, LossInv, NEW t \in 0 .. LastTick
                 PROVE  DayR(Ended, Day(t)) > -LimitR - (MaxOpen + Cardinality(uncounted)) * WorstR
    BY DEF DayLossBounded
  <2>2. Room(row, Ended, {}, uncounted, Day(t))
    <3>1. Exposed(Day(t)) \in SUBSET Signals
      BY <2>1, SetsOK
    <3> QED
      BY <2>1, <3>1, RoomMore DEF LossInv
  <2>3. Cardinality({}) = 0
    BY FS_EmptySet
  <2>4. SumR(row, Ended, Day(t)) - WorstR * 0 > Floor(uncounted)
    BY <2>2, <2>3 DEF Room
  <2>5. SumR(row, Ended, Day(t)) \in Int /\ WorstR * 0 = 0
    BY <2>1, SetsOK, SumRType, WorstIs
  <2>6. SumR(row, Ended, Day(t)) > Floor(uncounted)
    BY <2>4, <2>5
  <2> QED
    BY <2>6 DEF Floor, DayR, SumR
<1> QED
  BY <1>1, TypeInit, TypeStep, LossInit, LossStep, PTL DEF Spec

-----------------------------------------------------------------------------
(* A limit that is reached is announced *)

Announcing == {"release", "history", "daily", "announceDaily"}

Told(day) == \E e \in events : e.type = "daily_loss" /\ Day(row[e.by].at) = day
Telling(day) == \E s \in Closed : check[s].at \in Announcing /\ Day(row[s].at) = day
Missed(day) == \E s \in unchecked : Day(row[s].at) = day

\* An event is dated by the candle of the close it is about.
Dated == \A e \in events : e.ts = row[e.by].at

Heeded(day) == SumR(row, Closed, day) <= -LimitR => Told(day) \/ Telling(day) \/ Missed(day)

TellInv ==
  /\ Dated /\ IsFiniteSet(events)
  /\ \A t \in 0 .. LastTick : Heeded(Day(t))

LEMMA LastEventIs ==
  ASSUME TypeInv, IsFiniteSet(events), NEW type
  PROVE  LastEvent(type) = -1 \/ \E e \in events : e.type = type /\ e.ts = LastEvent(type)
<1> DEFINE T == {f \in events : f.type = type}
           S == {e.ts : e \in T} \cup {-1}
<1>1. events \subseteq Events(now, Closed) /\ now \in Nat
  BY TypeParts, BoundAssumption DEF TypeInv
<1>2. {e.ts : e \in T} \subseteq 0 .. now
  BY <1>1 DEF Events
<1>3. IsFiniteSet(0 .. now)
  BY <1>1, FS_Interval
<1>4. IsFiniteSet(S) /\ S \subseteq Int /\ S # {}
  <2>1. IsFiniteSet({e.ts : e \in T})
    BY <1>2, <1>3, FS_Subset
  <2>2. IsFiniteSet(S)
    BY <2>1, FS_AddElement
  <2> QED
    BY <1>2, <2>2
<1>5. \E m \in S : \A x \in S : m >= x
  <2> HIDE DEF S
  <2> QED BY <1>4, MaxExists
<1>6. LastEvent(type) = Max(S)
  BY DEF LastEvent
<1>7. Max(S) \in S
  <2> HIDE DEF S
  <2> QED BY <1>5 DEF Max
<1> QED
  BY <1>6, <1>7

LEMMA CheckTells ==
  ASSUME TypeInv, TellInv, NEW s \in Signals, CheckStep(s) PROVE TellInv'
<1>1. UNCHANGED <<now, row, entry>> /\ s \in Closed /\ Closed' = Closed /\ row[s].at = now
      /\ \A t \in Signals : t # s => check'[t] = check[t]
  BY CheckTypes DEF Closed
<1>2. /\ check \in [Signals -> Checks(Closed)] /\ events \subseteq Events(now, Closed)
      /\ unchecked \subseteq Closed
  BY TypeParts DEF TypeInv
<1>4. \A type : Event(type, s).ts = row[s].at /\ Event(type, s).by = s /\ Event(type, s).type = type
  BY <1>1 DEF Event
<1>5. \/ events' = events
      \/ AnnounceDaily(s) /\ events' = events \cup {Event("daily_loss", s)}
      \/ AnnounceCooldown(s) /\ events' = events \cup {Event("cooldown", s)}
  BY DEF CheckStep, Release, ReadHistory, ReadDaily, AnnounceDaily, ReadCooldown, AnnounceCooldown
<1>6. IsFiniteSet(events') /\ Dated'
  BY <1>1, <1>4, <1>5, FS_AddElement DEF TellInv, Dated
<1>7. unchecked' = unchecked \/ (ReadHistory(s) /\ unchecked' = StillUnchecked(s))
  <2>1. CASE ReadHistory(s)
    <3>1. unchecked' = StillUnchecked(s)
      BY <2>1 DEF ReadHistory
    <3> QED
      BY <2>1, <3>1
  <2>2. CASE Release(s) \/ ReadDaily(s) \/ AnnounceDaily(s) \/ ReadCooldown(s) \/ AnnounceCooldown(s)
    BY <2>2 DEF Release, ReadDaily, AnnounceDaily, ReadCooldown, AnnounceCooldown, history
  <2> QED
    BY <2>1, <2>2 DEF CheckStep
<1>8. ASSUME NEW day, SumR(row, Closed, day) <= -LimitR, Told(day) \/ Telling(day) \/ Missed(day)
      PROVE  \/ \E e \in events' : e.type = "daily_loss" /\ Day(row[e.by].at) = day
             \/ \E u \in Closed : check'[u].at \in Announcing /\ Day(row[u].at) = day
             \/ \E u \in unchecked' : Day(row[u].at) = day
  <2>1. events \subseteq events'
    BY <1>5
  <2>2. CASE Told(day)
    BY <2>1, <2>2 DEF Told
  <2>3. CASE \E u \in Closed : u # s /\ check[u].at \in Announcing /\ Day(row[u].at) = day
    BY <1>1, <2>3 DEF Closed
  <2>4. CASE ReadHistory(s) /\ Day(row[s].at) = day
    <3>1. DayR(Closed, Day(row[s].at)) <= -LimitR
      BY <1>8, <2>4 DEF DayR, SumR
    <3>2. PICK run \in LossRuns(Closed) : check' = [check EXCEPT ![s] = [at |-> "daily", seen |-> Closed, run |-> run]]
      BY <2>4, <3>1 DEF ReadHistory
    <3>3. check'[s].at = "daily"
      BY <1>2, <3>2
    <3> QED
      BY <1>1, <2>4, <3>3 DEF Announcing
  <2>5. CASE Missed(day) /\ ~(ReadHistory(s) /\ Day(row[s].at) = day)
    BY <1>7, <2>5 DEF Missed, StillUnchecked
  <2>6. CASE check[s].at \in Announcing /\ Day(row[s].at) = day /\ ~ReadHistory(s)
    <3>1. CASE Release(s)
      <4>1. check' = [check EXCEPT ![s] = [check[s] EXCEPT !.at = "history"]]
        BY <3>1 DEF Release
      <4>2. check'[s].at = "history"
        BY <1>2, <4>1 DEF Checks
      <4> QED
        BY <1>1, <2>6, <4>2 DEF Announcing
    <3>3. CASE ReadDaily(s)
      <4>1. CASE LastEvent("daily_loss") >= 0 /\ Day(LastEvent("daily_loss")) = Day(row[s].at)
        <5>1. PICK e \in events : e.type = "daily_loss" /\ e.ts = LastEvent("daily_loss")
          <6>1. ~(-1 >= 0)
            OBVIOUS
          <6> QED
            BY <4>1, <6>1, LastEventIs DEF TellInv
        <5>2. Day(row[e.by].at) = day
          BY <2>6, <4>1, <5>1 DEF TellInv, Dated
        <5> QED
          BY <2>1, <5>1, <5>2
      <4>2. CASE ~(LastEvent("daily_loss") >= 0 /\ Day(LastEvent("daily_loss")) = Day(row[s].at))
        <5>1. check' = [check EXCEPT ![s] = [check[s] EXCEPT !.at = "announceDaily"]]
          BY <3>3, <4>2 DEF ReadDaily
        <5>2. check'[s].at = "announceDaily"
          BY <1>2, <5>1 DEF Checks
        <5> QED
          BY <1>1, <2>6, <5>2 DEF Announcing
      <4> QED
        BY <4>1, <4>2
    <3>4. CASE AnnounceDaily(s)
      <4>1. Event("daily_loss", s) \in events'
        BY <3>4 DEF AnnounceDaily
      <4> QED
        BY <1>4, <2>6, <4>1
    <3>5. CASE ReadCooldown(s) \/ AnnounceCooldown(s)
      BY <2>6, <3>5 DEF ReadCooldown, AnnounceCooldown, Announcing
    <3> QED
      BY <2>6, <3>1, <3>3, <3>4, <3>5 DEF CheckStep
  <2> QED
    BY <1>8, <2>2, <2>3, <2>4, <2>5, <2>6 DEF Telling
<1>9. (\A t \in 0 .. LastTick : Heeded(Day(t)))'
  <2>1. \A t \in 0 .. LastTick : Day(t)' = Day(t)
    BY DEF Day
  <2>2. \A t \in 0 .. LastTick : Heeded(Day(t))
    BY DEF TellInv
  <2> QED
    BY <1>1, <1>8, <2>1, <2>2 DEF Heeded, Told, Telling, Missed, Day, SumR
<1> QED
  BY <1>6, <1>9 DEF TellInv

\* Nothing that is told, being told or known to be missed is forgotten while the rows of
\* the closed positions stay and the checks go on or are known to be missed.
LEMMA TellingKept ==
  ASSUME TypeInv, TellInv, [Next]_vars, Closed' = Closed, UNCHANGED events, unchecked \subseteq unchecked',
         \A s \in Closed : check[s].at \in Announcing => check'[s].at \in Announcing \/ s \in unchecked'
  PROVE  TellInv'
<1>1. /\ \A s \in Closed : row'[s] = row[s]
      /\ \A day : SumR(row', Closed, day) = SumR(row, Closed, day)
  BY ClosedKept, GroundsKept
<1>2. /\ \A e \in events : row'[e.by] = row[e.by]
      /\ unchecked \subseteq Closed
  <2>1. \A e \in events : e.by \in Closed
    BY TypeParts DEF TypeInv, Events
  <2> QED
    BY <1>1, <2>1, TypeParts DEF TypeInv
<1>3. Dated' /\ IsFiniteSet(events')
  BY <1>2 DEF TellInv, Dated
<1>4. \A day : /\ Told(day) => Told(day)'
               /\ Telling(day) => Telling(day)' \/ Missed(day)'
               /\ Missed(day) => Missed(day)'
  BY <1>1, <1>2 DEF Told, Telling, Missed, Day
<1>5. (\A t \in 0 .. LastTick : Heeded(Day(t)))'
  <2>1. \A t \in 0 .. LastTick : Day(t)' = Day(t) /\ (Heeded(Day(t)) => Heeded(Day(t))')
    BY <1>1, <1>4 DEF Heeded, Day
  <2> QED
    BY <2>1 DEF TellInv, Heeded, Told, Telling, Missed
<1> QED
  BY <1>3, <1>5 DEF TellInv

LEMMA OutcomeTells ==
  ASSUME TypeInv, TellInv, NEW s \in Signals, CloseOutcome(s) PROVE TellInv'
<1>1. [Next]_vars
  BY StepIs
<1>2. /\ UNCHANGED <<now, events, unchecked>> /\ Closed' = Closed \cup {s} /\ s \notin Closed
      /\ \A t \in Signals : t # s => row'[t] = row[t] /\ check'[t] = check[t]
      /\ check'[s].at = "release" /\ row'[s].at = now
  BY OutcomeTypes
<1>4. /\ \A e \in events : e.by \in Closed /\ row'[e.by] = row[e.by]
      /\ unchecked \subseteq Closed /\ \A u \in Closed : row'[u] = row[u] /\ check'[u] = check[u]
  <2>1. \A e \in events : e.by \in Closed
    BY TypeParts DEF TypeInv, Events
  <2> QED
    BY <1>2, <2>1, TypeParts DEF TypeInv, Closed
<1>5. Dated' /\ IsFiniteSet(events')
  BY <1>2, <1>4 DEF TellInv, Dated
<1>6. ASSUME NEW day, SumR(row', Closed', day) <= -LimitR,
             SumR(row, Closed, day) <= -LimitR => Told(day) \/ Telling(day) \/ Missed(day)
      PROVE  Told(day)' \/ Telling(day)' \/ Missed(day)'
  <2>1. CASE day = Day(now)
    BY <1>2, <2>1 DEF Telling, Announcing, Day
  <2>2. CASE day # Day(now)
    <3>1. {t \in Closed' : Day(row'[t].at) = day} = {t \in Closed : Day(row'[t].at) = day}
      BY <1>2, <2>2
    <3>2. SumR(row', Closed', day) = SumR(row', Closed, day)
      BY <3>1 DEF SumR
    <3>3. SumR(row', Closed, day) = SumR(row, Closed, day)
      BY <1>1, GroundsKept
    <3>4. Told(day) \/ Telling(day) \/ Missed(day)
      BY <1>6, <3>2, <3>3
    <3>5. Told(day) => Told(day)'
      BY <1>2, <1>4 DEF Told, Day
    <3>6. Telling(day) => Telling(day)'
      BY <1>2, <1>4 DEF Telling, Day
    <3>7. Missed(day) => Missed(day)'
      BY <1>2, <1>4 DEF Missed, Day
    <3> QED
      BY <3>4, <3>5, <3>6, <3>7
  <2> QED
    BY <2>1, <2>2
<1>7. (\A t \in 0 .. LastTick : Heeded(Day(t)))'
  <2>1. \A t \in 0 .. LastTick : Day(t)' = Day(t) /\ (Heeded(Day(t)) => Heeded(Day(t))')
    BY <1>6 DEF Heeded, Day
  <2> QED
    BY <2>1 DEF TellInv, Heeded, Told, Telling, Missed
<1> QED
  BY <1>5, <1>7 DEF TellInv

LEMMA EndTells ==
  ASSUME TypeInv, TellInv, NEW s \in Signals, EndStep(s) PROVE TellInv'
<1>1. [Next]_vars
  BY StepIs
<1>2. /\ UNCHANGED <<now, entry, events>> /\ Closed' = Closed
      /\ \A t \in Signals : t # s => row'[t] = row[t] /\ check'[t] = check[t]
  BY EndSteps
<1>3. unchecked \subseteq unchecked' /\ (CheckFails(s) => s \in unchecked')
  BY DEF EndStep, Cancel, CancelRow, Close, CancelFails, OutcomeFails, CheckFails, history
<1>4. ~CheckFails(s) => check[s].at \notin Announcing
  <2>1. ~CheckFails(s) => check[s].at \in {"idle", "cancel", "outcome"}
    <3>1. CASE Cancel(s)
      <4>1. row[s].state = "pending" /\ StageOK(s)
        BY <3>1 DEF Cancel, TypeInv, Shape
      <4> QED
        BY <4>1 DEF StageOK
    <3> QED
      BY <3>1 DEF EndStep, CancelRow, Close, CancelFails, OutcomeFails
  <2> QED
    BY <2>1 DEF Announcing
<1>5. \A t \in Closed : check[t].at \in Announcing => check'[t].at \in Announcing \/ t \in unchecked'
  BY <1>2, <1>3, <1>4 DEF Closed
<1> QED
  BY <1>1, <1>2, <1>3, <1>5, TellingKept

LEMMA CrashTells ==
  ASSUME TypeInv, TellInv, Crash PROVE TellInv'
<1>1. [Next]_vars
  BY DEF Next
<1>2. /\ UNCHANGED <<now, row, events>> /\ Closed' = Closed /\ unchecked' = unchecked \cup Checking
  BY CrashTypes
<1>3. \A t \in Closed : check[t].at \in Announcing => t \in unchecked'
  BY <1>2 DEF Checking, Announcing, Closed
<1> QED
  BY <1>1, <1>2, <1>3, TellingKept

LEMMA TellStep == ASSUME TypeInv, TellInv, [Next]_vars PROVE TellInv'
<1>1. ASSUME NEW s \in Signals, EntryStep(s) PROVE TellInv'
  BY <1>1, EntrySteps, TellingKept
<1>2. CASE Tick
  BY <1>2, TickTypes, TellingKept
<1>3. CASE UNCHANGED vars
  <2>1. UNCHANGED <<row, check, events, unchecked>>
    BY <1>3 DEF vars, history
  <2>2. Closed' = Closed
    BY <2>1 DEF Closed
  <2> QED
    BY <2>1, <2>2, TellingKept
<1> QED
  BY <1>1, <1>2, <1>3, Kinds, EndTells, CheckTells, OutcomeTells, CrashTells

LEMMA TellInit == ASSUME Init PROVE TellInv
<1>1. Closed = {} /\ events = {}
  BY DEF Init, NoRow, Closed
<1>2. \A day : SumR(row, Closed, day) = 0
  <2>1. \A day : {s \in {} : Day(row[s].at) = day} = {}
    OBVIOUS
  <2> QED
    BY <1>1, <2>1, SumEmpty DEF SumR
<1>3. ~(0 <= -LimitR)
  BY LimitAssumption
<1> QED
  BY <1>1, <1>2, <1>3, FS_EmptySet DEF TellInv, Heeded, Dated

\* A day at its limit is announced once its closes are handled, unless a crash or a
\* failing call cut short the check of one of its closes and no later close of that
\* day read the outcomes again.
THEOREM LimitIsAnnounced == Spec => []Announced
<1>1. TypeInv /\ TellInv => Announced
  <2>1. SUFFICES ASSUME TypeInv, TellInv, Quiet, NEW t \in 0 .. now,
                        DayR(Closed, Day(t)) <= -LimitR
                 PROVE  Told(Day(t)) \/ Missed(Day(t))
    BY DEF Announced, Told, Missed
  <2>2. t \in 0 .. LastTick
    BY <2>1, TypeParts, BoundAssumption DEF TypeInv
  <2>3. ~Telling(Day(t))
    BY <2>1 DEF Quiet, Telling, Announcing, Closed
  <2> QED
    BY <2>1, <2>2, <2>3 DEF TellInv, Heeded, DayR, SumR
<1> QED
  BY <1>1, TypeInit, TypeStep, TellInit, TellStep, PTL DEF Spec
=============================================================================
