---------------------------- MODULE BinanceAdapter ----------------------------
(***************************************************************************)
(* One position on Binance spot: the adapter (execution/binance/adapter.ts *)
(* and orders.ts) with what calls it, the entry, the candle handler and    *)
(* the forced close of the position manager, the reconciler, the order     *)
(* poll and the user data stream.  They share the orders table and the     *)
(* exchange, and each gives up control at every await.                     *)
(*                                                                         *)
(* A handler is the list of what it still has to do; an action takes the   *)
(* head of one list up to the next await.  A row or a request that the     *)
(* code keeps across an await travels in the list: a row is written back   *)
(* whole, as it was read.                                                  *)
(*                                                                         *)
(* Prices are left out: any resting leg may fill, any placement may be     *)
(* refused for its prices, and the candle that follows shows the manager   *)
(* which level was traded through.  A step of the asset is less than any   *)
(* quantity here, so quantities within one step of each other are equal.   *)
(* A resting leg may fill in parts, a market order fills whole.  The fills *)
(* table is left out but for the entry, whose price comes from it.         *)
(***************************************************************************)
EXTENDS SpotExchange

CONSTANTS
  Qty,          \* quantity of the entry
  Tp1Qty,       \* of which this much is to be sold at TP1; 0: no TP1
  Spare,        \* coins of the same asset on the account that are not the position's
  Overlap,      \* pairs of handlers that may be under way at the same time
  MaxTickets,   \* the reconciler starts no more once so many tickets are used
  Bounds        \* how often each disturbance may happen, and how many in all

Handlers == {"manager", "reconciler", "poll", "reports"}
Disturbances ==
  {"candles", "early", "polls", "reports", "faults", "rejects", "races", "lostBuys", "crashes"}

ASSUME QuantityAssumption == Qty \in Nat \ {0} /\ Tp1Qty \in 0 .. Qty - 1 /\ Spare \in Nat
ASSUME OverlapAssumption  == Overlap \subseteq {{h, i} : h \in Handlers, i \in Handlers}
ASSUME BoundsAssumption   == Bounds \in [Disturbances \cup {"all"} -> Nat] /\ MaxTickets \in Nat

VARIABLES
  \* the exchange
  ex,       \* sell orders
  bought,   \* quantity bought under the entry's client order id
  tickets,  \* tickets sent to the exchange, also the adapter's sequence number
  \* tables orders and positions, engine_state
  rows,     \* the row of each sell order
  entry,    \* the row of the entry order
  db,       \* the row of the position
  paused,   \* engine_state.paused
  \* memory of the engine
  rec,      \* the PositionRecord
  mapped,   \* the record is in the manager's map
  todo,     \* what each handler still has to do
  up,       \* "up", "boot" until the start-up reconciliation has returned, or "down"
  \* messages
  signal,   \* the signal entry in the consumer group
  \* ghosts: never read by the code
  traded,   \* levels the market reached that no candle has shown to the manager
  handed,   \* quantity the manager was told is sold
  budget    \* disturbances left

exchange == <<ex, bought, tickets>>
tables   == <<rows, entry, db, paused>>
memory   == <<rec, mapped, up>>
vars     == <<exchange, tables, memory, todo, signal, traded, handed, budget>>

-----------------------------------------------------------------------------
(* State *)

\* OrderGroup of the sells.
Groups == {"oco_a", "oco_b", "stop_only", "market_exit"}

NoRec   == [live |-> FALSE, rem |-> 0, tp1 |-> FALSE, levels |-> 0]
FullRec == [live |-> TRUE, rem |-> Qty, tp1 |-> FALSE, levels |-> 0]

Row(r) == [state |-> IF r.live THEN "open" ELSE "closed",
           live |-> r.live, rem |-> r.rem, tp1 |-> r.tp1, levels |-> r.levels]
NoRow  == [Row(NoRec) EXCEPT !.state = "none"]

\* A row as it is inserted: known to the exchange (id) or not yet.
OrderRow(group, qty, levels, id) ==
  [group |-> group, qty |-> qty, levels |-> levels, id |-> id,
   done |-> 0, used |-> 0, open |-> TRUE]

Busy(h)     == todo[h] # <<>>
Quiet       == \A h \in Handlers : ~Busy(h)
MayStart(h) == ~Busy(h) /\ \A i \in Handlers \ {h} : Busy(i) => {h, i} \in Overlap

Item(h)        == Head(todo[h])
At(h, op)      == Busy(h) /\ Item(h).op = op
Begin(h, list) == todo' = [todo EXCEPT ![h] = list]
\* The head is done; the items of list come next.
Then(h, list)  == todo' = [todo EXCEPT ![h] = list \o Tail(@)]

\* An exception ends the handler; main() does not survive one of the first
\* reconciliation.
Throw(h) ==
  /\ Begin(h, <<>>)
  /\ up' = IF h = "reconciler" /\ up = "boot" THEN "down" ELSE up

\* One of the bounded disturbances happens.
Spend(what) ==
  /\ budget[what] > 0 /\ budget["all"] > 0
  /\ budget' = [budget EXCEPT ![what] = @ - 1, !["all"] = @ - 1]
Fault == Spend("faults")

Call(op) == <<[op |-> op]>>

\* Coins that are not locked by a resting order.
Free == Spare + bought - Sold(ex) - Locked(ex)

-----------------------------------------------------------------------------
(* Protection: what protect(), cancelGroup() and placeGroup() have to do *)

\* activeGroups(): the open sells by group.
Active(group) == {o \in DOMAIN rows : rows[o].open /\ rows[o].group = group}

\* The order the rows are read in: as they were created.
Older(o, p) == o[1] < p[1] \/ (o[1] = p[1] /\ o[2] = "limit" /\ p[2] = "stop")
First(orders) == CHOOSE o \in orders : \A p \in orders \ {o} : Older(o, p)

\* What is to be done to each of some rows in turn, with the rows as they are now in
\* the caller's hands.
Each(op, held) == IF DOMAIN held = {} THEN <<>> ELSE <<[op |-> op, held |-> held]>>
Others(held)   == [o \in DOMAIN held \ {First(DOMAIN held)} |-> held[o]]

\* refresh() of rows that were read now: those open that have an exchange id.
Refresh(orders) == Each("ask", [o \in {p \in orders : rows[p].open /\ rows[p].id} |-> rows[o]])

\* cancelGroup(), if there is such a group: cancel, then refresh the legs with the
\* rows read before.
CancelGroup(legs) ==
  IF legs = {} THEN <<>>
  ELSE <<[op |-> "cancel", first |-> First(legs)]>> \o Refresh(legs)

CancelAll == CancelGroup(Active("oco_a")) \o CancelGroup(Active("oco_b")) \o CancelGroup(Active("stop_only"))

\* What protect() is asked for, read off the record at the call.
Request(r) == [qty |-> r.rem, tp1 |-> r.tp1, levels |-> r.levels]
Protect(r) == <<[op |-> "protect", req |-> Request(r)]>>

\* desired(): A covers the TP1 part until it is sold, B the rest.
Desired(req) ==
  LET a == IF req.tp1 THEN 0 ELSE Min({Tp1Qty, req.qty})
  IN  [oco_a |-> a, oco_b |-> req.qty - a]

\* needsReplace(): another quantity, moved levels, or a leg is missing.
NeedsReplace(legs, qty, levels) ==
  \/ rows[First(legs)].qty # qty
  \/ \E o \in legs : rows[o].levels # levels
  \/ {o[2] : o \in legs} # {"limit", "stop"}

\* placeGroup(), less what the cancelled legs filled.
Place(group, legs, req) ==
  <<[op |-> "place", group |-> group, qty |-> Desired(req)[group], less |-> legs,
     levels |-> req.levels, all |-> req.qty, try |-> 1, ticket |-> 0, legs |-> <<>>]>>

\* One turn of protect()'s loop over what is wanted.
Cover(group, req) ==
  LET cur  == Active(group)
      qty  == Desired(req)[group]
      old  == IF cur # {} THEN cur ELSE Active("stop_only")
  IN  IF qty = 0 \/ (cur # {} /\ ~NeedsReplace(cur, qty, req.levels)) THEN <<>>
      ELSE CancelGroup(old) \o Place(group, old, req)

\* A group that is not wanted any more is cancelled.
Drop(group, req) == IF Desired(req)[group] = 0 THEN CancelGroup(Active(group)) ELSE <<>>

\* protect() reads the active groups.
ProtectRead(h) ==
  /\ At(h, "protect")
  /\ LET req == Item(h).req IN
     Then(h, Cover("oco_a", req) \o Cover("oco_b", req) \o Drop("oco_a", req) \o Drop("oco_b", req))
  /\ UNCHANGED <<exchange, tables, memory, signal, traded, handed, budget>>

\* cancelOrderList() or cancelOrder() of the first leg; an error, such as that
\* the list is already done, is logged.
Cancel(h) ==
  /\ At(h, "cancel")
  /\ Then(h, <<>>)
  /\ \/ ex' = CancelTicket(ex, Item(h).first[1]) /\ UNCHANGED budget
     \/ Fault /\ UNCHANGED ex
  /\ UNCHANGED <<bought, tickets, tables, memory, signal, traded, handed>>

\* (mutant) an order that is gone is taken for filled
AnswerFilled(row, now) ==
  [row EXCEPT !.open = now.open, !.done = IF now.open THEN now.done ELSE row.qty]

\* What recordOrder() makes of a row and the exchange's answer.
Answer(row, now) == [row EXCEPT !.open = now.open, !.done = now.done]

\* refresh(), one row: getOrder() answers, or fails and the row is skipped.
Ask(h) ==
  /\ At(h, "ask")
  /\ LET held == Item(h).held
         o    == First(DOMAIN held)
     IN  \/ Then(h, <<[op |-> "answer", order |-> o, row |-> Answer(held[o], ex[o])]>>
                      \o Each("ask", Others(held))) /\ UNCHANGED budget
         \/ Then(h, Each("ask", Others(held))) /\ Fault
  /\ UNCHANGED <<exchange, tables, memory, signal, traded, handed>>

\* recordOrder(): the row, as it was read, is written back with the answer.
WriteAnswer(h) ==
  /\ At(h, "answer")
  /\ rows' = [rows EXCEPT ![Item(h).order] = Item(h).row]
  /\ Then(h, <<>>)
  /\ UNCHANGED <<exchange, entry, db, paused, memory, signal, traded, handed, budget>>

\* orders.update() of the rows held, one after the other: the whole row is written.
Write(h) ==
  /\ At(h, "write")
  /\ LET held == Item(h).held
         o    == First(DOMAIN held)
     IN  rows' = [rows EXCEPT ![o] = held[o]] /\ Then(h, Each("write", Others(held)))
  /\ UNCHANGED <<exchange, entry, db, paused, memory, signal, traded, handed, budget>>

\* What is left to place: whatever filled while cancelling is already sold.
Owed(item) == item.qty - Min({item.qty, Executed(rows, item.less)})

\* The placement failed: again, at most MAX_ATTEMPTS times in all.
MaxAttempts == 3
Retry(h) ==
  LET item == Item(h) IN
  IF item.try < MaxAttempts
  THEN Then(h, <<[item EXCEPT !.op = "place", !.qty = Owed(item), !.less = {}, !.try = @ + 1]>>)
  ELSE Then(h, <<[op |-> "emergency", qty |-> item.all]>>)

\* placeOco(): placed; refused for the balance; refused for the prices; or the call
\* failed, before (a rate limit, a ban) or after it took effect.
PlaceList(h) ==
  /\ At(h, "place")
  /\ LET item == Item(h)
         qty  == Owed(item)
         fits == qty <= Free
         placed == /\ ex' = PlaceOco(ex, tickets + 1, qty)
                   /\ tickets' = tickets + 1
     IN  \/ qty = 0 /\ Then(h, <<>>) /\ UNCHANGED <<ex, tickets, budget>>
         \/ /\ qty > 0 /\ fits /\ placed
            /\ Then(h, <<[item EXCEPT !.op = "insert", !.qty = qty, !.less = {},
                                      !.ticket = tickets', !.legs = <<"limit", "stop">>]>>)
            /\ UNCHANGED budget
         \/ qty > 0 /\ ~fits /\ Retry(h) /\ UNCHANGED <<ex, tickets, budget>>
         \/ /\ qty > 0 /\ Spend("rejects")
            /\ Then(h, <<[item EXCEPT !.op = "constraint", !.qty = qty, !.less = {}]>>)
            /\ UNCHANGED <<ex, tickets>>
         \/ qty > 0 /\ Fault /\ Retry(h) /\ ((fits /\ placed) \/ UNCHANGED <<ex, tickets>>)
  /\ UNCHANGED <<bought, tables, memory, signal, traded, handed>>

\* The row of the next leg of a ticket that was placed is inserted.
Insert(h) ==
  /\ At(h, "insert")
  /\ LET item == Item(h) IN
     /\ rows' = Put(rows, {<<item.ticket, Head(item.legs)>>},
                    OrderRow(item.group, item.qty, item.levels, TRUE))
     /\ Then(h, IF Len(item.legs) = 1 THEN <<>> ELSE <<[item EXCEPT !.legs = Tail(@)]>>)
  /\ UNCHANGED <<exchange, entry, db, paused, memory, signal, traded, handed, budget>>

\* handlePriceConstraint(): the market is through the stop or the target, so the
\* quantity is sold at market, or a lone stop is placed; either call may fail.
Constraint(h) ==
  /\ At(h, "constraint")
  /\ LET item == Item(h) IN
     \/ /\ traded' = traded \cup {"stop"} \/ traded' = traded \cup {item.group}
        /\ Then(h, <<[op |-> "sell", qty |-> item.qty, use |-> "account later"]>>)
        /\ UNCHANGED <<ex, tickets, up, budget>>
     \/ /\ item.qty <= Free
        /\ ex' = PlaceStop(ex, tickets + 1, item.qty)
        /\ tickets' = tickets + 1
        /\ \/ /\ Then(h, <<[item EXCEPT !.op = "insert", !.group = "stop_only",
                                        !.ticket = tickets', !.legs = <<"stop">>]>>)
              /\ UNCHANGED <<up, budget>>
           \/ Fault /\ Throw(h)
        /\ UNCHANGED traded
     \/ /\ (item.qty > Free /\ UNCHANGED budget) \/ Fault
        /\ Throw(h)
        /\ UNCHANGED <<ex, tickets, traded>>
  /\ UNCHANGED <<bought, tables, rec, mapped, signal, handed>>

\* marketSell(): the row, then the order.  The answer may be lost, and the row then
\* stays without an exchange id; the row of an order refused for the balance stays
\* open for good, is never asked for again and is left out.
SellAtMarket(h) ==
  /\ At(h, "sell")
  /\ LET item == Item(h)
         id   == <<tickets + 1, "market">>
         sold == item.qty <= Free /\ ex' = MarketSell(ex, tickets + 1, item.qty)
         kept == /\ tickets' = tickets + 1
                 /\ rows' = Put(rows, {id}, OrderRow("market_exit", item.qty, 0, FALSE))
     IN  \/ /\ sold /\ kept
            /\ Then(h, <<[op |-> "sold", qty |-> item.qty, use |-> item.use, id |-> id]>>)
            /\ UNCHANGED <<up, budget>>
         \/ item.qty > Free /\ Throw(h) /\ UNCHANGED <<ex, tickets, rows, budget>>
         \/ Fault /\ Throw(h) /\ kept /\ (sold \/ UNCHANGED ex)
  /\ UNCHANGED <<bought, entry, db, paused, rec, mapped, signal, traded, handed>>

\* The answer is recorded.  What was sold for the manager is then marked consumed;
\* what a placement sold is left for a later closeLong().
RecordSale(h) ==
  /\ At(h, "sold")
  /\ LET item == Item(h) IN
     /\ rows' = [rows EXCEPT ![item.id].done = item.qty, ![item.id].open = FALSE, ![item.id].id = TRUE]
     /\ Then(h, IF item.use = "account later" THEN <<>>
                ELSE <<[op |-> "mark", use |-> item.use, id |-> item.id]>>)
     /\ handed' = IF item.use = "closeLong" THEN handed + item.qty ELSE handed
  /\ UNCHANGED <<exchange, entry, db, paused, memory, signal, traded, budget>>

\* The rows of the orders of f are written back, each with f as its consumed quantity.
Using(f) == Each("write", [o \in DOMAIN f |-> [rows[o] EXCEPT !.used = f[o]]])

\* closeLong() reads the row of its sale, emergencyExit() all market sells.
Mark(h) ==
  /\ At(h, "mark")
  /\ LET sales == IF Item(h).use = "closeLong" THEN {Item(h).id}
                  ELSE {o \in DOMAIN rows : rows[o].group = "market_exit"}
     IN  Then(h, Using([o \in sales |-> rows[o].done]))
  /\ UNCHANGED <<exchange, tables, memory, signal, traded, handed, budget>>

\* emergencyExit(): everything is cancelled and the quantity of the request sold.
Emergency(h) ==
  /\ At(h, "emergency")
  /\ Then(h, CancelAll
               \o <<[op |-> "sell", qty |-> Item(h).qty, use |-> "emergency"],
                    [op |-> "forced", qty |-> Item(h).qty]>>)
  /\ UNCHANGED <<exchange, tables, memory, signal, traded, handed, budget>>

\* onForcedClose: the manager closes the record, if it has it.
ForcedClose(h) ==
  /\ At(h, "forced")
  /\ IF mapped
     THEN /\ rec' = [rec EXCEPT !.live = FALSE, !.rem = 0]
          /\ handed' = handed + Item(h).qty
          /\ Then(h, Call("finish"))
     ELSE UNCHANGED <<rec, handed>> /\ Then(h, <<>>)
  /\ UNCHANGED <<exchange, tables, mapped, up, signal, traded, budget>>

\* What talks to the database; a failure ends the handler, but refresh() skips the
\* row and placeGroup() takes the failed insert of a list for a failed placement.
Statements ==
  {"protect", "answer", "place", "insert", "write", "sold", "mark", "close", "consume", "update",
   "finish", "release", "lookup", "entryStatus", "entryFills", "activate", "listed", "coverage"}
StatementFails(h) ==
  /\ Busy(h) /\ Item(h).op \in Statements
  /\ Fault
  /\ LET item == Item(h) IN
     CASE item.op = "answer" -> Then(h, <<>>) /\ UNCHANGED up
       [] item.op = "insert" /\ item.group # "stop_only" -> Retry(h) /\ UNCHANGED up
       [] OTHER -> Throw(h) /\ (item.op = "place" => item.less # {})
  /\ UNCHANGED <<exchange, tables, rec, mapped, signal, traded, handed>>

AdapterStep(h) ==
  \/ ProtectRead(h) \/ Cancel(h) \/ Ask(h) \/ WriteAnswer(h) \/ Write(h) \/ PlaceList(h) \/ Insert(h)
  \/ Constraint(h) \/ SellAtMarket(h) \/ RecordSale(h) \/ Mark(h) \/ Emergency(h) \/ ForcedClose(h) \/ StatementFails(h)

-----------------------------------------------------------------------------
(* Exits: closeLong() and the candle handler of the manager *)

CloseLongs(sales) == [i \in DOMAIN sales |-> [op |-> "close", qty |-> sales[i]]]

\* The sells of the position are refreshed.
CloseRead(h) ==
  /\ At(h, "close")
  /\ Then(h, Refresh(DOMAIN rows) \o <<[op |-> "consume", need |-> Item(h).qty, cancelled |-> FALSE]>>)
  /\ UNCHANGED <<exchange, tables, memory, signal, traded, handed, budget>>

\* consume(): unconsumed fills are taken in the order the rows were created.
Unused(o) == rows[o].done - Min({rows[o].done, rows[o].used})
Take(o, need) ==
  LET earlier == {p \in DOMAIN rows : Older(p, o)}
      before  == SumFunctionOnSet([p \in earlier |-> Unused(p)], earlier)
  IN  Min({Unused(o), need - Min({need, before})})

\* The rows are read; what each gives is settled with that, and the rows are
\* written back one after the other.
Consume(h) ==
  /\ At(h, "consume")
  /\ LET item  == Item(h)
         takes == [o \in DOMAIN rows |-> Take(o, item.need)]
         used  == [o \in {p \in DOMAIN rows : takes[p] > 0} |-> rows[o].used + takes[o]]
         taken == SumFunctionOnSet(takes, DOMAIN rows)
     IN  /\ handed' = handed + taken
         /\ Then(h, Using(used) \o (IF taken = item.need THEN <<>>
                                   ELSE <<[op |-> "short", need |-> item.need - taken,
                                           cancelled |-> item.cancelled]>>))
  /\ UNCHANGED <<exchange, tables, memory, signal, traded, budget>>

\* (mutant) once the protection is cancelled nothing more is sold
ShortFilled(h) ==
  /\ At(h, "short")
  /\ LET item == Item(h) IN
     Then(h, IF item.cancelled THEN <<>>
             ELSE CancelAll \o <<[op |-> "consume", need |-> item.need, cancelled |-> TRUE]>>)
  /\ UNCHANGED <<exchange, tables, memory, signal, traded, handed, budget>>

\* Not enough was filled: what rests is cancelled and the fills are looked at
\* again; then the rest is sold at market.
Short(h) ==
  /\ At(h, "short")
  /\ LET item == Item(h) IN
     Then(h, IF item.cancelled THEN <<[op |-> "sell", qty |-> item.need, use |-> "closeLong"]>>
             ELSE CancelAll \o <<[op |-> "consume", need |-> item.need, cancelled |-> TRUE]>>)
  /\ UNCHANGED <<exchange, tables, memory, signal, traded, handed, budget>>

\* What the exit policy may do on a candle (see ExitPolicy), or a close command:
\* nothing to a closed record; a level the market traded through obliges it,
\* otherwise it is free.
Decisions(r, seen) ==
  LET closed == [r EXCEPT !.live = FALSE, !.rem = 0]
      moved  == [r EXCEPT !.levels = @ + 1]
      part   == ~r.tp1 /\ Tp1Qty > 0
      close  == {<<closed, <<r.rem>> >>}
                  \cup (IF part THEN {<<closed, <<Tp1Qty, r.rem - Tp1Qty>> >>} ELSE {})
      tp1    == IF part THEN {<<[moved EXCEPT !.tp1 = TRUE, !.rem = @ - Tp1Qty], <<Tp1Qty>> >>} ELSE {}
  IN  IF ~r.live THEN {<<r, <<>> >>}
      ELSE IF seen \cap {"stop", "oco_b"} # {} THEN close
      ELSE IF "oco_a" \in seen /\ part THEN close \cup tp1
      ELSE close \cup tp1 \cup {<<r, <<>> >>, <<moved, <<>> >>}

\* onCandleClosed(): the exit policy steps the record, then settleExits().
Candle ==
  /\ MayStart("manager") /\ up = "up" /\ mapped
  /\ Spend("candles")
  /\ \E d \in Decisions(rec, traded) :
       /\ rec' = d[1]
       /\ Begin("manager", CloseLongs(d[2]) \o Call("settled"))
  /\ traded' = {}
  /\ UNCHANGED <<exchange, tables, mapped, up, signal, handed>>

\* finish() if the record is closed, now or by an attempt before.
Settled(h) ==
  /\ At(h, "settled")
  /\ Then(h, IF rec.live THEN Call("update") ELSE Call("finish"))
  /\ UNCHANGED <<exchange, tables, memory, signal, traded, handed, budget>>

\* (mutant) what is left after a partial sale keeps the orders it has
UpdateOnly(h) ==
  /\ At(h, "update")
  /\ db' = Row(rec)
  /\ Then(h, <<>>)
  /\ UNCHANGED <<exchange, rows, entry, paused, memory, signal, traded, handed, budget>>

\* store.update(), then protect() with the record as it is.
Update(h) ==
  /\ At(h, "update")
  /\ db' = Row(rec)
  /\ Then(h, Protect(rec))
  /\ UNCHANGED <<exchange, rows, entry, paused, memory, signal, traded, handed, budget>>

\* finish(): store.close(), release(), then the map.
Finish(h) ==
  /\ At(h, "finish")
  /\ db' = Row(rec)
  /\ Then(h, Call("release"))
  /\ UNCHANGED <<exchange, rows, entry, paused, memory, signal, traded, handed, budget>>

Release(h) ==
  /\ At(h, "release")
  /\ Then(h, CancelAll \o Call("unmap"))
  /\ UNCHANGED <<exchange, tables, memory, signal, traded, handed, budget>>

Unmap(h) ==
  /\ At(h, "unmap")
  /\ mapped' = FALSE
  /\ Then(h, <<>>)
  /\ UNCHANGED <<exchange, tables, rec, up, signal, traded, handed, budget>>

ManagerStep(h) ==
  \/ CloseRead(h) \/ Consume(h) \/ Short(h) \/ Settled(h) \/ Update(h) \/ Finish(h) \/ Release(h) \/ Unmap(h)

-----------------------------------------------------------------------------
(* Entry: handleSignal(), openLong() and activate() *)

\* A signal already in positions is rejected and acknowledged.
TakeSignal ==
  /\ MayStart("manager") /\ up = "up" /\ signal \in {"new", "unacked"}
  /\ IF db.state = "none"
     THEN Begin("manager", Call("lookup")) /\ signal' = "unacked"
     ELSE signal' = "acked" /\ UNCHANGED todo
  /\ UNCHANGED <<exchange, tables, memory, traded, handed, budget>>

\* byClientId(): bought already, or the row is there, or it is inserted.  A row that
\* is filled but has no fills yet gives no price, and nothing can be opened at it.
Lookup(h) ==
  /\ At(h, "lookup")
  /\ \/ entry = "filled" /\ Then(h, Call("activate")) /\ UNCHANGED <<entry, up>>
     \/ entry = "bare" /\ Throw(h) /\ UNCHANGED entry
     \/ entry \in {"none", "new"} /\ entry' = "new" /\ Then(h, Call("buy")) /\ UNCHANGED up
  /\ UNCHANGED <<exchange, rows, db, paused, rec, mapped, signal, traded, handed, budget>>

\* recordOrder() of the entry, in two statements.
Recording == Call("entryStatus") \o Call("entryFills")

\* (mutant) a second order is sent for a signal that is read again
BuyAgain(h) ==
  /\ At(h, "buy")
  /\ \/ bought' = bought + Qty /\ Then(h, Recording \o Call("activate")) /\ UNCHANGED budget
     \/ Spend("lostBuys") /\ Begin(h, <<>>) /\ bought' \in {bought, bought + Qty}
  /\ UNCHANGED <<ex, tickets, tables, memory, signal, traded, handed>>

\* marketOrder(BUY): the exchange refuses a client order id it has seen; or the
\* call fails, before or after it took effect, and the signal is read again.
Buy(h) ==
  /\ At(h, "buy")
  /\ \/ bought = 0 /\ bought' = Qty /\ Then(h, Recording \o Call("activate")) /\ UNCHANGED budget
     \/ bought = 0 /\ Spend("lostBuys") /\ Begin(h, <<>>) /\ bought' \in {0, Qty}
     \/ bought > 0 /\ Begin(h, <<>>) /\ UNCHANGED <<bought, budget>>
  /\ UNCHANGED <<ex, tickets, tables, memory, signal, traded, handed>>

\* The status of the entry, then its fills.
EntryStatus(h) ==
  /\ At(h, "entryStatus")
  /\ entry' = IF entry = "filled" THEN "filled" ELSE "bare"
  /\ Then(h, <<>>)
  /\ UNCHANGED <<exchange, rows, db, paused, memory, signal, traded, handed, budget>>

EntryFills(h) ==
  /\ At(h, "entryFills")
  /\ entry' = "filled"
  /\ Then(h, <<>>)
  /\ UNCHANGED <<exchange, rows, db, paused, memory, signal, traded, handed, budget>>

\* activate(): insert, protect, and only then the map.
Activate(h) ==
  /\ At(h, "activate")
  /\ rec' = FullRec
  /\ db' = Row(FullRec)
  /\ Then(h, Protect(FullRec) \o Call("opened"))
  /\ UNCHANGED <<exchange, rows, entry, paused, mapped, up, signal, traded, handed, budget>>

\* The map, the event and the ack.
Opened(h) ==
  /\ At(h, "opened")
  /\ mapped' = TRUE
  /\ signal' = "acked"
  /\ Then(h, <<>>)
  /\ UNCHANGED <<exchange, tables, rec, up, traded, handed, budget>>

EntryStep(h) ==
  Lookup(h) \/ Buy(h) \/ EntryStatus(h) \/ EntryFills(h) \/ Activate(h) \/ Opened(h)

-----------------------------------------------------------------------------
(* The reconciler, the order poll and the user data stream *)

OpenRows == {o \in DOMAIN rows : rows[o].open}

\* openOrders(): what the exchange has open, early when a fill still waits for its candle.
StartReconcile ==
  /\ MayStart("reconciler") /\ up # "down" /\ tickets < MaxTickets
  /\ IF traded = {} THEN UNCHANGED budget ELSE Spend("early")
  /\ Begin("reconciler", <<[op |-> "listed", seen |-> OpenOrders(ex)]>>)
  /\ UNCHANGED <<exchange, tables, memory, signal, traded, handed>>

\* allOpen(): an order that is not among them pauses entries; then all are refreshed.
Listed(h) ==
  /\ At(h, "listed")
  /\ paused' = (paused \/ \E o \in Item(h).seen : o \notin OpenRows)
  /\ Then(h, Refresh(OpenRows) \o Call("coverage"))
  /\ UNCHANGED <<exchange, rows, entry, db, memory, signal, traded, handed, budget>>

\* stopCoverage(): the groups with an open stop leg, each for its first row.
StopCoverage ==
  LET groups == {g \in Groups : \E o \in Active(g) : o[2] = "stop"}
  IN  SumFunctionOnSet([g \in groups |-> rows[First(Active(g))].qty], groups)

\* (mutant) a position is protected again at start-up only
CoverageBoot(h) ==
  /\ At(h, "coverage")
  /\ Then(h, (IF mapped /\ up = "boot" /\ StopCoverage < rec.rem THEN Protect(rec) ELSE <<>>)
               \o (IF up = "boot" THEN Call("booted") ELSE <<>>))
  /\ UNCHANGED <<exchange, tables, memory, signal, traded, handed, budget>>

\* A position that is not covered is protected again, as its record stands.
Coverage(h) ==
  /\ At(h, "coverage")
  /\ Then(h, (IF mapped /\ StopCoverage < rec.rem THEN Protect(rec) ELSE <<>>)
               \o (IF up = "boot" THEN Call("booted") ELSE <<>>))
  /\ UNCHANGED <<exchange, tables, memory, signal, traded, handed, budget>>

\* The first run has returned: candles and signals are let in.
Booted(h) ==
  /\ At(h, "booted")
  /\ up' = "up"
  /\ Then(h, <<>>)
  /\ UNCHANGED <<exchange, tables, rec, mapped, signal, traded, handed, budget>>

ReconcilerStep(h) == Listed(h) \/ Coverage(h) \/ Booted(h)

\* refreshOpenOrders() on its timer.
StartPoll ==
  /\ MayStart("poll") /\ up = "up" /\ Refresh(OpenRows) # <<>>
  /\ Begin("poll", Refresh(OpenRows)) /\ Spend("polls")
  /\ UNCHANGED <<exchange, tables, memory, signal, traded, handed>>

\* What a report makes of the row it finds.
Reported(row, now) == [row EXCEPT !.open = now.open, !.id = TRUE, !.done = Max({row.done, now.done})]

\* applyExecutionReport() reads the row, if there is one, and is to write it back.
\* The reports left out here are those that tell nothing new; one that is lost is
\* one never taken.
TakeReport(o) ==
  /\ MayStart("reports") /\ up # "down"
  /\ o \in DOMAIN rows
  /\ rows[o].open # ex[o].open \/ rows[o].done # ex[o].done
  /\ Begin("reports", Each("write", [p \in {o} |-> Reported(rows[p], ex[p])])) /\ Spend("reports")
  /\ UNCHANGED <<exchange, tables, memory, signal, traded, handed>>

\* The report of the entry order: byClientId() finds its row.
EntryReport ==
  /\ MayStart("reports") /\ up # "down"
  /\ entry = "new" /\ bought > 0
  /\ Begin("reports", Recording) /\ Spend("reports")
  /\ UNCHANGED <<exchange, tables, memory, signal, traded, handed>>

-----------------------------------------------------------------------------
(* The market and the machine *)

\* The level an order trades at, as the exit policy knows it; of an order without
\* a row either target.
Levels(o) == IF o[2] = "stop" THEN {"stop"}
             ELSE IF o \in DOMAIN rows THEN {rows[o].group} ELSE {"oco_a", "oco_b"}

\* k of a resting leg fills.  Between handlers the candle that is forming shows it;
\* during one, the next candle does.
Fill(o, k) ==
  /\ IF Quiet THEN UNCHANGED budget ELSE Spend("races")
  /\ ex' = FillOrder(ex, o, k)
  /\ \E level \in Levels(o) : traded' = traded \cup {level}
  /\ UNCHANGED <<bought, tickets, tables, memory, todo, signal, handed>>

\* (mutant) a restored record is the row
RestoredRow == db

\* The record loadOpen() builds from the row.
Restored == [f \in DOMAIN rec |-> db[f]]

\* The engine dies at any await and is started again: restore() reads the open
\* position.  A signal that was not acknowledged is read again only if the new
\* process has the old one's pid, hence its consumer name.
Crash ==
  /\ Spend("crashes")
  /\ mapped' = (db.state = "open")
  /\ rec' = IF mapped' THEN Restored ELSE NoRec
  /\ todo' = [h \in Handlers |-> <<>>]
  /\ up' = "boot"
  /\ signal' \in IF signal = "unacked" THEN {"unacked", "lost"} ELSE {signal}
  /\ UNCHANGED <<exchange, tables, traded, handed>>

-----------------------------------------------------------------------------

Init ==
  /\ ex = <<>> /\ bought = 0 /\ tickets = 0
  /\ rows = <<>> /\ entry = "none" /\ db = NoRow /\ paused = FALSE
  /\ rec = NoRec /\ mapped = FALSE /\ up = "up"
  /\ todo = [h \in Handlers |-> <<>>]
  /\ signal = "new"
  /\ traded = {} /\ handed = 0 /\ budget = Bounds

Step(h) ==
  \/ AdapterStep(h) \/ ManagerStep(h) \/ EntryStep(h) \/ ReconcilerStep(h)

Next ==
  \/ TakeSignal \/ Candle \/ StartReconcile \/ StartPoll \/ EntryReport
  \/ \E h \in Handlers : Step(h)
  \/ \E o \in DOMAIN ex : TakeReport(o)
  \/ \E o \in OpenOrders(ex) : \E k \in 1 .. ex[o].qty - ex[o].done : Fill(o, k)
  \/ Crash

Spec == Init /\ [][Next]_vars

\* Every handler runs on, the consumer keeps reading, and the reconciler's timer
\* fires again and again however often the poll's does.  Nothing is assumed of
\* candles, reports or the poll.
FairSpec ==
  /\ Spec
  /\ \A h \in Handlers : WF_vars(Step(h))
  /\ SF_vars(TakeSignal)
  /\ SF_vars(StartReconcile)

-----------------------------------------------------------------------------
(* Properties *)

RecType == [live : BOOLEAN, rem : 0 .. Qty, tp1 : BOOLEAN, levels : Nat]

\* Orders, rows and records have the shapes of rest.ts, orders.ts and manager.ts,
\* and the exchange never sells what the account does not hold.
TypeOK ==
  /\ \A o \in DOMAIN ex : ex[o].done \in 0 .. ex[o].qty /\ ex[o].open \in BOOLEAN
  /\ bought \in Nat /\ tickets \in Nat
  /\ DOMAIN rows \subseteq (1 .. tickets) \X Legs
  /\ \A o \in DOMAIN rows : rows[o].group \in Groups /\ rows[o].used \in Nat
  /\ entry \in {"none", "new", "bare", "filled"} /\ paused \in BOOLEAN
  /\ rec \in RecType /\ mapped \in BOOLEAN /\ up \in {"up", "boot", "down"}
  /\ signal \in {"new", "unacked", "acked", "lost"}
  /\ Free \in Nat

\* What the stop legs on the exchange would sell, and what the exchange sold
\* without the manager having been told.
OnStop == Left(ex, {o \in OpenOrders(ex) : o[2] = "stop"})
Untold == Sold(ex) - handed
Covered == OnStop + Untold >= rec.rem

\* DECISIONS.md:13 "No open position without an exchange stop": between handlers
\* the exchange's stops, with what already filled, cover all the record holds.
Protected == Quiet /\ up = "up" /\ mapped /\ rec.live => Covered

\* The table never says more of an order than the exchange does, whoever writes back
\* a row that another handler has written since: what was handed to the manager was
\* executed, and what is said to be finished does not rest.
RowsTrue ==
  \A o \in DOMAIN rows :
    LET done == IF o \in DOMAIN ex THEN ex[o].done ELSE 0 IN
    /\ rows[o].used <= rows[o].done /\ rows[o].done <= done
    /\ ~rows[o].open => o \notin OpenOrders(ex)

\* A signal buys once, however often it is delivered, wherever its handler died and
\* whatever answer was lost (adapter.ts:4 "MARKET buy with an idempotent client id"),
\* and what the tables and the map hold was bought.
EntryTrue ==
  /\ bought \in {0, Qty}
  /\ mapped \/ db.state # "none" \/ entry \in {"bare", "filled"} => bought = Qty

\* No call that protects or sells failed or was refused for its prices, and the
\* engine did not die.
Calm == \A d \in {"faults", "rejects", "crashes"} : budget[d] = Bounds[d]

\* While nothing fails, a candle that has been handled leaves all that its record
\* holds on stops at the exchange, whatever part of a leg filled before it and
\* whether or not the reconciler protected the position again in between
\* (DECISIONS.md:13 "No open position without an exchange stop").
CandleProtects ==
  Calm /\ Quiet /\ up = "up" /\ mapped /\ rec.live /\ traded = {} => Covered

\* While nothing fails, all that was bought is sold when finish() is done, and nothing
\* rests on the exchange that could sell another position's coins.
ClosedFlat ==
  Calm /\ Quiet /\ up = "up" /\ db.state = "closed" /\ ~mapped
    => Sold(ex) >= bought /\ OpenOrders(ex) = {}

\* A position that lost its stop to a failing call gets one again, from the
\* reconciler if nothing else; unless the market is through a level first, or the
\* reconciler has met an order it does not know and has paused the engine.
Reprotected ==
  (up = "up" /\ mapped /\ rec.live /\ ~Covered)
    ~> (~rec.live \/ Covered \/ traded # {} \/ paused \/ tickets >= MaxTickets)

\* adapter.ts:196 "retry after a crash: already bought": what was bought becomes a
\* managed position, if its signal is read again.
BoughtManaged == bought > 0 ~> (mapped \/ db.state = "closed" \/ signal = "lost")
=============================================================================
