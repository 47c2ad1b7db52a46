--------------------------- MODULE CandleFeedProofs ---------------------------
(***************************************************************************)
(* Proofs about CandleFeed for every set of series, every period, page     *)
(* size and bootstrap length, and any number of reconnects, faults and     *)
(* restarts: the stored candles never have a hole between two of them.     *)
(***************************************************************************)
EXTENDS CandleFeed, Sums, SequenceTheorems, TLAPS

-----------------------------------------------------------------------------
(* Candles: the multiples of the period                                    *)

Candles(x) == Abstract!Candles(x)

\* Division with a remainder.
LEMMA Remainder ==
  ASSUME NEW t \in Nat, NEW p \in Nat \ {0}
  PROVE  /\ t \div p \in Nat /\ t % p \in Nat
         /\ t = p * (t \div p) + (t % p)
         /\ t % p < p
BY SMT

\* It is the only one.
LEMMA OneRemainder ==
  ASSUME NEW p \in Nat \ {0}, NEW q \in Int, NEW r \in Nat, r < p, p * q + r \in Nat
  PROVE  (p * q + r) % p = r
<1> DEFINE t == p * q + r
           u == t \div p
           s == t % p
<1>1. u \in Nat /\ s \in Nat /\ s < p /\ t = p * u + s
  BY Remainder
<1>2. t \in Nat /\ t = p * q + r
  OBVIOUS
<1> HIDE DEF t, u, s
<1>3. p * (q - u) = s - r
  BY <1>1, <1>2
<1>4. CASE q - u >= 1
  <2>1. p * (q - u) >= p
    BY <1>1, <1>4
  <2> QED BY <1>1, <1>3, <2>1
<1>5. CASE q - u <= -1
  <2>1. p * (u - q) >= p
    BY <1>1, <1>5
  <2>2. p * (u - q) = r - s
    BY <1>1, <1>2
  <2> QED BY <1>1, <2>1, <2>2
<1>6. CASE q - u = 0
  <2>1. s = r
    BY <1>1, <1>3, <1>6
  <2> QED BY <2>1 DEF s, t
<1>7. q - u >= 1 \/ q - u <= -1 \/ q - u = 0
  BY <1>1
<1> QED BY <1>4, <1>5, <1>6, <1>7

Multiple(t, p) == t % p = 0

LEMMA MultipleIs ==
  ASSUME NEW t \in Nat, NEW p \in Nat \ {0}
  PROVE  Multiple(t, p) <=> \E q \in Nat : t = p * q
<1>1. ASSUME Multiple(t, p) PROVE \E q \in Nat : t = p * q
  <2>1. t = p * (t \div p) + (t % p) /\ t \div p \in Nat
    BY Remainder
  <2>2. t = p * (t \div p)
    BY <1>1, <2>1 DEF Multiple
  <2> QED BY <2>1, <2>2
<1>2. ASSUME NEW q \in Nat, t = p * q PROVE Multiple(t, p)
  <2>1. p * q + 0 = t /\ p * q + 0 \in Nat
    BY <1>2
  <2>2. (p * q + 0) % p = 0
    <3>1. 0 \in Nat /\ 0 < p /\ q \in Int
      OBVIOUS
    <3> QED BY <2>1, <3>1, OneRemainder
  <2> QED BY <2>1, <2>2 DEF Multiple
<1> QED BY <1>1, <1>2

\* Two multiples are a period apart, and sums and differences are multiples.
LEMMA MultiplesApart ==
  ASSUME NEW p \in Nat \ {0}, NEW a \in Nat, NEW b \in Nat,
         Multiple(a, p), Multiple(b, p), a < b
  PROVE  a + p <= b
<1>1. PICK q \in Nat : a = p * q
  BY MultipleIs
<1>2. PICK r \in Nat : b = p * r
  BY MultipleIs
<1>3. q < r
  <2> SUFFICES ASSUME r <= q PROVE FALSE
    BY <1>1, <1>2
  <2>1. p * (q - r) >= 0
    <3>1. q - r \in Nat
      OBVIOUS
    <3> QED BY <3>1
  <2>2. p * (q - r) = p * q - p * r
    OBVIOUS
  <2> QED BY <1>1, <1>2, <2>1, <2>2
<1>4. p * (r - q) >= p
  BY <1>3
<1>5. p * (r - q) = p * r - p * q
  OBVIOUS
<1> QED BY <1>1, <1>2, <1>4, <1>5

LEMMA MultiplesAdd ==
  ASSUME NEW p \in Nat \ {0}, NEW a \in Nat, Multiple(a, p), NEW n \in Nat
  PROVE  /\ n * p \in Nat
         /\ Multiple(a + n * p, p)
         /\ a >= n * p => Multiple(a - n * p, p)
<1>1. PICK q \in Nat : a = p * q
  BY MultipleIs
<1>2. n * p \in Nat
  OBVIOUS
<1>3. Multiple(a + n * p, p)
  <2>1. a + n * p = p * (q + n)
    BY <1>1
  <2>2. a + n * p \in Nat /\ q + n \in Nat
    BY <1>2
  <2> QED BY <2>1, <2>2, MultipleIs
<1>4. ASSUME a >= n * p PROVE Multiple(a - n * p, p)
  <2>1. a - n * p = p * (q - n)
    BY <1>1
  <2>2. a - n * p \in Nat
    BY <1>2, <1>4
  <2>3. q - n \in Nat
    <3> SUFFICES ASSUME q < n PROVE FALSE
      OBVIOUS
    <3>1. p * (n - q) >= 1
      OBVIOUS
    <3>2. p * (n - q) = p * n - p * q
      OBVIOUS
    <3> QED BY <1>1, <1>2, <1>4, <3>1, <3>2
  <2> QED BY <2>1, <2>2, <2>3, MultipleIs
<1> QED BY <1>2, <1>3, <1>4

\* The candle that has closed last.
LEMMA LastClosedIs ==
  ASSUME NEW x \in Series, NEW t \in Nat
  PROVE  /\ Period[x] \in Nat \ {0}
         /\ LastClosed(x, t) \in Nat
         /\ LastClosed(x, t) <= t /\ t < LastClosed(x, t) + Period[x]
         /\ Multiple(LastClosed(x, t), Period[x])
<1> DEFINE p == Period[x]
<1>1. p \in Nat \ {0}
  BY SeriesAssumption
<1> HIDE DEF p
<1>2. t \div p \in Nat /\ t % p \in Nat /\ t = p * (t \div p) + (t % p) /\ t % p < p
  BY <1>1, Remainder
<1>3. LastClosed(x, t) = t - (t % p)
  BY DEF LastClosed, Abstract!LastClosed, p
<1>4. /\ p * (t \div p) \in Nat /\ LastClosed(x, t) = p * (t \div p)
      /\ LastClosed(x, t) <= t /\ t < LastClosed(x, t) + p
  BY <1>1, <1>2, <1>3
<1>5. Multiple(LastClosed(x, t), p)
  BY <1>1, <1>2, <1>4, MultipleIs
<1> QED BY <1>1, <1>4, <1>5 DEF p

\* What the next tick closes.
LEMMA NextClosed ==
  ASSUME NEW x \in Series, NEW t \in Nat
  PROVE  LastClosed(x, t + 1) = IF (t + 1) % Period[x] = 0 THEN t + 1 ELSE LastClosed(x, t)
<1> DEFINE p == Period[x]
           a == LastClosed(x, t)
           b == LastClosed(x, t + 1)
<1>1. /\ p \in Nat \ {0} /\ a \in Nat /\ a <= t /\ t < a + p /\ Multiple(a, p)
  BY LastClosedIs
<1>2. /\ b \in Nat /\ b <= t + 1 /\ t + 1 < b + p /\ Multiple(b, p)
  <2>1. t + 1 \in Nat
    OBVIOUS
  <2> QED BY <2>1, LastClosedIs
<1>3. (t + 1) % p = 0 <=> Multiple(t + 1, p)
  BY DEF Multiple
<1> HIDE DEF p, a, b
<1>4. CASE (t + 1) % p = 0
  <2>1. b < t + 1 => b + p <= t + 1
    BY <1>1, <1>2, <1>3, <1>4, MultiplesApart
  <2> QED BY <1>1, <1>2, <1>4, <2>1 DEF p, a, b
<1>5. CASE (t + 1) % p # 0
  <2>1. b # t + 1
    BY <1>2, <1>3, <1>5
  <2>2. a < b => a + p <= b
    BY <1>1, <1>2, MultiplesApart
  <2>3. b < a => b + p <= a
    BY <1>1, <1>2, MultiplesApart
  <2>4. a = b
    BY <1>1, <1>2, <2>1, <2>2, <2>3
  <2> QED BY <1>5, <2>4 DEF p, a, b
<1> QED BY <1>4, <1>5 DEF p

LEMMA CandleIs ==
  ASSUME NEW x \in Series, NEW t
  PROVE  t \in Candles(x) <=> t \in Nat /\ t <= LastTick /\ Multiple(t, Period[x])
BY TickAssumption DEF Candles, Abstract!Candles, Multiple

-----------------------------------------------------------------------------
(* Holes: a candle within a period of those stored leaves none             *)

\* Finite sets of times have a first and a last element.
LEMMA FirstAndLast ==
  ASSUME NEW x \in Series, NEW s \in SUBSET Candles(x), s # {}
  PROVE  /\ s \subseteq Nat
         /\ Max(s) \in s /\ \A y \in s : y <= Max(s)
         /\ Min(s) \in s /\ \A y \in s : Min(s) <= y
<1>1. s \subseteq 0 .. LastTick
  BY DEF Candles, Abstract!Candles
<1>2. IsFiniteSet(0 .. LastTick)
  BY TickAssumption, FS_Interval
<1>3. \E m \in s : \A y \in s : m >= y
  <2>1. s \in SUBSET (0 .. LastTick) /\ s \subseteq Int
    BY <1>1
  <2>2. IsFiniteSet(s)
    BY <1>2, <2>1, FS_Subset
  <2> QED BY <2>1, <2>2, MaxExists
<1>4. \E m \in s : \A y \in s : m <= y
  <2> DEFINE L == {n \in 0 .. LastTick : \A y \in s : n <= y}
  <2>1. IsFiniteSet(L) /\ L \subseteq Int /\ 0 \in L
    <3>1. 0 \in L
      BY <1>1, TickAssumption
    <3>2. L \in SUBSET (0 .. LastTick) /\ L \subseteq Int
      OBVIOUS
    <3> HIDE DEF L
    <3>3. IsFiniteSet(L)
      BY <1>2, <3>2, FS_Subset
    <3> QED BY <3>1, <3>2, <3>3
  <2>2. PICK m \in L : \A n \in L : m >= n
    <3> HIDE DEF L
    <3> QED BY <2>1, MaxExists
  <2>3. PICK y \in s : y < m + 1
    <3> SUFFICES ASSUME \A y \in s : ~(y < m + 1) PROVE FALSE
      OBVIOUS
    <3>1. m \in Nat /\ \A y \in s : y \in Nat /\ m + 1 <= y /\ y <= LastTick
      BY <1>1
    <3>2. m + 1 \in L
      BY <3>1, TickAssumption
    <3> QED BY <2>2, <3>1, <3>2
  <2>4. m = y
    BY <1>1, <2>3
  <2> QED BY <2>3, <2>4
<1>5. Max(s) \in s /\ \A y \in s : Max(s) >= y
  BY <1>3 DEF Max
<1>6. Min(s) \in s /\ \A y \in s : Min(s) <= y
  BY <1>4 DEF Min
<1> QED BY <1>1, <1>5, <1>6

LEMMA UnbrokenIs ==
  ASSUME NEW x \in Series, NEW s
  PROVE  Abstract!Unbroken(x, s) <=>
           /\ s \subseteq Candles(x)
           /\ \A t \in Candles(x) : Min(s) <= t /\ t <= Max(s) => t \in s
<1>1. Abstract!Min(s) = Min(s) /\ Abstract!Max(s) = Max(s)
  BY DEF Abstract!Min, Abstract!Max, Min, Max
<1> QED BY <1>1 DEF Abstract!Unbroken, Candles

LEMMA FirstCandle ==
  ASSUME NEW x \in Series, NEW t \in Candles(x)
  PROVE  Abstract!Unbroken(x, {t})
<1>1. {t} \in SUBSET Candles(x) /\ {t} # {}
  OBVIOUS
<1>2. Min({t}) = t /\ Max({t}) = t /\ t \in Nat
  BY <1>1, FirstAndLast
<1>3. \A u \in Candles(x) : u \in Nat
  BY CandleIs
<1> QED BY <1>1, <1>2, <1>3, UnbrokenIs

LEMMA NoHole ==
  ASSUME NEW x \in Series, NEW s, s # {}, Abstract!Unbroken(x, s),
         NEW t \in Candles(x),
         \E m \in s : t <= m + Period[x],
         \E m \in s : m <= t + Period[x]
  PROVE  Abstract!Unbroken(x, s \cup {t})
<1> DEFINE p == Period[x]
           u == s \cup {t}
<1>1. s \in SUBSET Candles(x) /\ u \in SUBSET Candles(x) /\ u # {} /\ s \subseteq u
  BY UnbrokenIs
<1>2. p \in Nat \ {0}
  BY SeriesAssumption
<1>3. /\ Max(s) \in s /\ \A y \in s : y <= Max(s)
      /\ Min(s) \in s /\ \A y \in s : Min(s) <= y
      /\ Max(u) \in u /\ Min(u) \in u
  BY <1>1, FirstAndLast
<1>4. \A y \in Candles(x) : y \in Nat /\ Multiple(y, p)
  BY CandleIs
<1>5. \A y \in Candles(x) : Min(s) <= y /\ y <= Max(s) => y \in s
  BY UnbrokenIs
<1> HIDE DEF p
<1> SUFFICES ASSUME NEW y \in Candles(x), Min(u) <= y, y <= Max(u), y \notin u PROVE FALSE
  BY <1>1, UnbrokenIs
<1>6. /\ y \in Nat /\ t \in Nat /\ Max(s) \in Nat /\ Min(s) \in Nat
      /\ Max(u) \in Nat /\ Min(u) \in Nat
      /\ Multiple(y, p) /\ Multiple(Max(s), p) /\ Multiple(Min(s), p)
  BY <1>1, <1>3, <1>4
<1>7. CASE Max(s) < y
  <2>1. Max(s) + p <= y
    BY <1>2, <1>6, <1>7, MultiplesApart
  <2>2. t <= Max(s) + p
    <3>1. PICK m \in s : t <= m + p
      BY DEF p
    <3>2. m <= Max(s) /\ m \in Nat
      BY <1>1, <1>3, <1>4
    <3> QED BY <1>2, <1>6, <3>1, <3>2
  <2>3. Max(u) <= Max(s) + p
    BY <1>2, <1>3, <1>6, <2>2
  <2>4. y = Max(s) + p /\ Max(u) = y
    BY <1>2, <1>6, <2>1, <2>3
  <2> QED BY <1>3, <2>4
<1>8. CASE y < Min(s)
  <2>1. y + p <= Min(s)
    BY <1>2, <1>6, <1>8, MultiplesApart
  <2>2. Min(s) <= t + p
    <3>1. PICK m \in s : m <= t + p
      BY DEF p
    <3>2. Min(s) <= m /\ m \in Nat
      BY <1>1, <1>3, <1>4
    <3> QED BY <1>2, <1>6, <3>1, <3>2
  <2>3. Min(u) = t \/ Min(u) \in s
    BY <1>3
  <2>4. Min(u) \in s => Min(s) <= Min(u)
    BY <1>3
  <2>5. y = t
    BY <1>2, <1>6, <1>8, <2>1, <2>2, <2>3, <2>4
  <2> QED BY <2>5
<1>9. CASE Min(s) <= y /\ y <= Max(s)
  BY <1>1, <1>5, <1>9
<1> QED BY <1>6, <1>7, <1>8, <1>9

-----------------------------------------------------------------------------
(* What holds whatever fails: every part is about the candles that have     *)
(* closed, and a fill or a handler belongs to the tick it began in.         *)

FillType == [todo : Seq(Series), at : {"last", "fetch", "upsert", "done"},
             begun : Nat, to : Nat, since : Nat, page : Nat]
Message  == [x : Series, t : Nat]
Job      == [x : Series, t : Nat, at : {"filling", "upsert", "lastCandle"}, fill : Nat]

ClockOK == clock \in Nat /\ clock <= LastTick

TableOK ==
  /\ table \in [Series -> SUBSET Nat]
  /\ \A x \in Series : \A t \in table[x] : t \in Candles(x) /\ t <= clock

\* A fill is done within a tick; what it asks for has closed.
FillOK(f, c) ==
  /\ f.at = "done" <=> f.todo = <<>>
  /\ f.to <= c
  /\ f.todo # <<>> =>
       /\ f.begun <= c /\ c <= f.begun + 1
       /\ f.to \in Candles(Head(f.todo))
       /\ LastClosed(Head(f.todo), f.begun) <= f.to
       /\ f.at \in {"fetch", "upsert"} => f.since \in Candles(Head(f.todo)) /\ f.since <= f.to
       /\ f.at = "upsert" => /\ f.page \in Candles(Head(f.todo))
                             /\ f.since <= f.page /\ f.page <= f.to

FillsOK == fills \in Seq(FillType) /\ \A i \in 1 .. Len(fills) : FillOK(fills[i], clock)

WireOK ==
  /\ socket \in {"down", "connecting", "open", "silent"}
  /\ wire # <<>> => socket = "open"
  /\ socket = "open" => fills # <<>>
  /\ wire \in Seq(Message)
  /\ \A n \in 1 .. Len(wire) : wire[n].t = clock /\ clock \in Candles(wire[n].x)

JobsOK ==
  /\ jobs \subseteq Job
  /\ \A j \in jobs : j.t = clock /\ clock \in Candles(j.x) /\ j.fill \in 1 .. Len(fills)

BudgetOK ==
  /\ budget \in [{"drops", "faults", "crashes"} -> Nat]
  /\ budget.faults <= Bounds.faults

Basic == ClockOK /\ TableOK /\ FillsOK /\ WireOK /\ JobsOK /\ BudgetOK

LEMMA BasicTyped == Basic => TypeOK
<1> SUFFICES ASSUME Basic PROVE TypeOK
  OBVIOUS
<1>1. clock \in 0 .. LastTick
  BY TickAssumption DEF Basic, ClockOK
<1>2. ASSUME NEW x \in Series PROVE table[x] \subseteq {t \in 0 .. clock : t % Period[x] = 0}
  <2> SUFFICES ASSUME NEW t \in table[x] PROVE t \in 0 .. clock /\ t % Period[x] = 0
    OBVIOUS
  <2>1. t \in Candles(x) /\ t <= clock
    BY DEF Basic, TableOK
  <2>2. t \in Nat /\ Multiple(t, Period[x])
    BY <2>1, CandleIs
  <2> QED BY <2>1, <2>2, <1>1 DEF Multiple
<1>3. wire \in Seq([x : Series, t : 0 .. clock])
  <2>1. wire \in Seq(Message) /\ \A n \in 1 .. Len(wire) : wire[n].t = clock
    BY DEF Basic, WireOK
  <2>2. ASSUME NEW n \in 1 .. Len(wire) PROVE wire[n] \in [x : Series, t : 0 .. clock]
    <3>1. wire[n] \in Message
      BY <2>1
    <3>2. wire[n].t \in 0 .. clock
      BY <2>1, <1>1
    <3> QED BY <3>1, <3>2 DEF Message
  <2>3. Len(wire) \in Nat /\ wire \in [1 .. Len(wire) -> [x : Series, t : 0 .. clock]]
    BY <2>1, <2>2
  <2> QED BY <2>3, SeqDef
<1>4. DOMAIN fills = 1 .. Len(fills)
  BY DEF Basic, FillsOK
<1>5. ASSUME NEW i \in DOMAIN fills
      PROVE  fills[i].to <= clock /\ (fills[i].at = "upsert" => fills[i].since <= fills[i].page)
  <2>1. FillOK(fills[i], clock)
    BY <1>4 DEF Basic, FillsOK
  <2> QED BY <2>1 DEF FillOK
<1>6. ASSUME NEW j \in jobs PROVE j.x \in Series /\ j.t <= clock /\ j.fill \in DOMAIN fills
  BY <1>1, <1>4 DEF Basic, JobsOK, Job
<1>7. /\ socket \in {"down", "connecting", "open", "silent"}
      /\ budget \in [{"drops", "faults", "crashes"} -> Nat]
  BY DEF Basic, WireOK, BudgetOK
<1> QED BY <1>1, <1>2, <1>3, <1>5, <1>6, <1>7 DEF TypeOK

\* lastClosedOpenMs() never runs ahead of the clock, nor behind an earlier one.
LEMMA LastClosedCandle ==
  ASSUME NEW x \in Series, NEW b \in Nat, NEW c \in Nat, b <= c, c <= LastTick
  PROVE  /\ LastClosed(x, c) \in Candles(x) /\ LastClosed(x, c) <= c
         /\ LastClosed(x, b) <= LastClosed(x, c)
<1> DEFINE p == Period[x]
           u == LastClosed(x, b)
           v == LastClosed(x, c)
<1>1. /\ p \in Nat \ {0}
      /\ u \in Nat /\ u <= b /\ Multiple(u, p)
      /\ v \in Nat /\ v <= c /\ c < v + p /\ Multiple(v, p)
  BY LastClosedIs
<1>2. v \in Candles(x)
  <2>1. v <= LastTick
    BY <1>1, TickAssumption
  <2> QED BY <1>1, <2>1, CandleIs
<1> HIDE DEF p, u, v
<1>3. v < u => v + p <= u
  BY <1>1, MultiplesApart
<1>4. u <= v
  BY <1>1, <1>3
<1> QED BY <1>1, <1>2, <1>4 DEF u, v

\* A fill begins with the next series to do.
LEMMA StartOK ==
  ASSUME NEW todo \in Seq(Series), NEW begun \in Nat, ClockOK,
         todo # <<>> => begun <= clock /\ clock <= begun + 1
  PROVE  Start(todo, begun) \in FillType /\ FillOK(Start(todo, begun), clock)
<1>1. CASE todo = <<>>
  BY <1>1 DEF Start, FillType, FillOK, ClockOK
<1>2. CASE todo # <<>>
  <2> DEFINE x == Head(todo)
             to == LastClosed(x, clock)
             f == Start(todo, begun)
  <2>1. x \in Series
    BY <1>2
  <2>2. to \in Candles(x) /\ to <= clock /\ LastClosed(x, begun) <= to /\ to \in Nat
    <3>1. clock \in Nat /\ begun <= clock /\ clock <= LastTick
      BY <1>2 DEF ClockOK
    <3> HIDE DEF x
    <3> QED BY <2>1, <3>1, LastClosedCandle, LastClosedIs
  <2>3. f = [todo |-> todo, at |-> "last", begun |-> begun, to |-> to, since |-> 0, page |-> 0]
    BY <1>2 DEF Start
  <2> HIDE DEF to
  <2>4. f \in FillType
    BY <2>2, <2>3 DEF FillType
  <2>5. FillOK(f, clock)
    BY <1>2, <2>2, <2>3 DEF FillOK
  <2> QED BY <2>4, <2>5
<1> QED BY <1>1, <1>2

LEMMA TailSeq ==
  ASSUME NEW S, NEW s \in Seq(S), s # <<>>
  PROVE  /\ Head(s) \in S /\ Tail(s) \in Seq(S)
         /\ Len(s) \in Nat \ {0} /\ Len(Tail(s)) = Len(s) - 1
         /\ Head(s) = s[1]
         /\ \A n \in 1 .. Len(s) - 1 : Tail(s)[n] = s[n + 1]
OBVIOUS

\* A fill moves: it asks for a page, stores a row or goes on to the next series.
LEMMA FillMoves ==
  ASSUME Basic, NEW i \in 1 .. Len(fills), NEW g \in FillType, FillOK(g, clock),
         fills' = [fills EXCEPT ![i] = g],
         TableOK', BudgetOK', UNCHANGED <<clock, socket, wire, jobs>>
  PROVE  /\ Basic'
         /\ Len(fills') = Len(fills) /\ fills'[i] = g
         /\ \A k \in 1 .. Len(fills) : k # i => fills'[k] = fills[k]
<1>1. fills \in Seq(FillType) /\ Len(fills) \in Nat
  BY DEF Basic, FillsOK
<1>2. /\ fills' \in Seq(FillType) /\ Len(fills') = Len(fills) /\ fills'[i] = g
      /\ \A k \in 1 .. Len(fills) : k # i => fills'[k] = fills[k]
  BY <1>1
<1>3. FillsOK'
  <2>1. clock' = clock
    OBVIOUS
  <2>2. \A k \in 1 .. Len(fills) : FillOK(fills[k], clock)
    BY DEF Basic, FillsOK
  <2>3. \A k \in 1 .. Len(fills) : FillOK(fills'[k], clock)
    BY <1>2, <2>2
  <2> QED BY <1>2, <2>1, <2>3 DEF FillsOK, FillOK
<1>4. ClockOK' /\ JobsOK'
  BY <1>2 DEF Basic, ClockOK, JobsOK
<1>5. WireOK'
  <2>1. fills # <<>> => fills' # <<>>
    BY <1>1, <1>2
  <2> QED BY <2>1 DEF Basic, WireOK
<1> QED BY <1>2, <1>3, <1>4, <1>5 DEF Basic

\* What FillAt() says of a fill.
LEMMA FillHere ==
  ASSUME Basic, NEW i \in DOMAIN fills, NEW x \in Series, NEW at, FillAt(i, x, at)
  PROVE  /\ i \in 1 .. Len(fills) /\ fills[i] \in FillType /\ FillOK(fills[i], clock)
         /\ fills[i].todo \in Seq(Series) /\ fills[i].todo # <<>>
         /\ x = Head(fills[i].todo) /\ fills[i].at = at
         /\ fills[i].begun \in Nat /\ fills[i].begun <= clock /\ clock <= fills[i].begun + 1
         /\ fills[i].to \in Nat /\ fills[i].to \in Candles(x) /\ fills[i].to <= clock
         /\ LastClosed(x, fills[i].begun) <= fills[i].to
<1>1. i \in 1 .. Len(fills) /\ fills[i] \in FillType /\ FillOK(fills[i], clock)
  BY DEF Basic, FillsOK
<1> QED BY <1>1 DEF FillAt, FillOK, FillType

\* On to the next series.
LEMMA NextFill ==
  ASSUME Basic, NEW i \in DOMAIN fills, NEW x \in Series, NEW at, FillAt(i, x, at),
         NextSeries(i)
  PROVE  LET g == Start(Tail(fills[i].todo), fills[i].begun) IN
         /\ g \in FillType /\ FillOK(g, clock)
         /\ fills' = [fills EXCEPT ![i] = g]
<1>1. Tail(fills[i].todo) \in Seq(Series) /\ ClockOK
  BY FillHere, TailSeq DEF Basic
<1>2. fills' = [fills EXCEPT ![i] = Start(Tail(fills[i].todo), fills[i].begun)]
  BY DEF NextSeries
<1> QED BY <1>1, <1>2, FillHere, StartOK

-----------------------------------------------------------------------------
(* The steps of a fill                                                      *)

\* The bootstrap begins this far back.
Boot(x, to) ==
  IF to > (Bootstrap - 1) * Period[x] THEN to - (Bootstrap - 1) * Period[x] ELSE 0

\* Where fillGap() begins.
From(x, to) == IF table[x] # {} THEN Max(table[x]) + Period[x] ELSE Boot(x, to)

\* A step on the way through one series.
Onward(g, f) == g.todo = f.todo /\ g.begun = f.begun /\ g.to = f.to /\ g.at \in {"fetch", "upsert"}

LEMMA OnwardOK ==
  ASSUME NEW f \in FillType, NEW g \in FillType, FillOK(f, clock), f.todo # <<>>, Onward(g, f),
         g.since \in Candles(Head(f.todo)), g.since <= f.to,
         g.at = "upsert" => g.page \in Candles(Head(f.todo)) /\ g.since <= g.page /\ g.page <= f.to
  PROVE  FillOK(g, clock)
BY DEF FillOK, Onward

LEMMA BootCandle ==
  ASSUME NEW x \in Series, NEW to \in Candles(x)
  PROVE  Boot(x, to) \in Candles(x) /\ Boot(x, to) <= to
<1> DEFINE p == Period[x]
           n == Bootstrap - 1
<1>1. p \in Nat \ {0} /\ n \in Nat
  BY SeriesAssumption, FetchAssumption
<1>2. to \in Nat /\ to <= LastTick /\ Multiple(to, p) /\ LastTick \in Nat
  BY CandleIs, TickAssumption
<1> HIDE DEF p, n
<1>3. n * p \in Nat /\ (to >= n * p => Multiple(to - n * p, p))
  BY <1>1, <1>2, MultiplesAdd
<1>4. Multiple(0, p)
  <2>1. 0 = p * 0 /\ 0 \in Nat
    BY <1>1
  <2> QED BY <1>1, <2>1, MultipleIs
<1>5. Boot(x, to) = IF to > n * p THEN to - n * p ELSE 0
  BY DEF Boot, n, p
<1>6. Boot(x, to) \in Nat /\ Boot(x, to) <= to /\ Multiple(Boot(x, to), p)
  BY <1>2, <1>3, <1>4, <1>5
<1>7. Boot(x, to) <= LastTick
  BY <1>2, <1>6
<1> QED BY <1>6, <1>7, CandleIs DEF p

LEMMA OneFurther ==
  ASSUME NEW x \in Series, NEW t \in Candles(x)
  PROVE  /\ t + Period[x] \in Nat /\ Period[x] \in Nat \ {0}
         /\ t + Period[x] <= LastTick => t + Period[x] \in Candles(x)
         /\ \A u \in Candles(x) : t < u => t + Period[x] <= u
<1>1. Period[x] \in Nat \ {0} /\ t \in Nat /\ Multiple(t, Period[x])
  BY SeriesAssumption, CandleIs
<1>2. Multiple(t + Period[x], Period[x])
  <2>1. 1 \in Nat
    OBVIOUS
  <2>2. Multiple(t + 1 * Period[x], Period[x])
    BY <1>1, <2>1, MultiplesAdd
  <2>3. 1 * Period[x] = Period[x]
    BY <1>1
  <2> QED BY <2>2, <2>3
<1>3. t + Period[x] \in Nat
  BY <1>1
<1>4. ASSUME NEW u \in Candles(x), t < u PROVE t + Period[x] <= u
  BY <1>1, <1>4, CandleIs, MultiplesApart
<1> QED BY <1>1, <1>2, <1>3, <1>4, CandleIs

\* lastCandleTime() is back.
LEMMA ReadLastIs ==
  ASSUME Basic, NEW i \in DOMAIN fills, NEW x \in Series, ReadLast(i, x)
  PROVE  \E g \in FillType :
           /\ FillOK(g, clock) /\ fills' = [fills EXCEPT ![i] = g]
           /\ \/ g = Start(Tail(fills[i].todo), fills[i].begun) /\ From(x, fills[i].to) > fills[i].to
              \/ Onward(g, fills[i]) /\ g.since = From(x, fills[i].to)
<1> DEFINE f == fills[i]
           since == From(x, f.to)
<1>1. FillAt(i, x, "last")
  BY DEF ReadLast
<1>2. IF since > f.to THEN NextSeries(i)
      ELSE fills' = [fills EXCEPT ![i].at = "fetch", ![i].since = since]
  BY DEF ReadLast, From, Boot
<1>3. CASE since > f.to
  BY <1>1, <1>2, <1>3, NextFill
<1>4. CASE ~(since > f.to)
  <2> DEFINE g == [f EXCEPT !.at = "fetch", !.since = since]
  <2>1. /\ f \in FillType /\ FillOK(f, clock) /\ f.todo # <<>> /\ x = Head(f.todo)
        /\ f.to \in Nat /\ f.to \in Candles(x)
    BY <1>1, FillHere
  <2>2. since \in Candles(x) /\ since \in Nat /\ since <= f.to
    <3>1. f.to <= LastTick
      BY <2>1, CandleIs
    <3>2. CASE table[x] # {}
      <4>1. table[x] \in SUBSET Candles(x)
        BY DEF Basic, TableOK
      <4>2. Max(table[x]) \in Candles(x)
        BY <3>2, <4>1, FirstAndLast
      <4>3. since = Max(table[x]) + Period[x] /\ since \in Nat
        BY <3>2, <4>2, OneFurther DEF From
      <4>4. since <= f.to
        BY <1>4, <2>1, <4>3
      <4>5. since <= LastTick
        BY <2>1, <3>1, <4>3, <4>4, TickAssumption
      <4> QED BY <4>2, <4>3, <4>4, <4>5, OneFurther
    <3>3. CASE table[x] = {}
      <4>1. since = Boot(x, f.to)
        BY <3>3 DEF From
      <4> QED BY <2>1, <4>1, BootCandle, CandleIs
    <3> QED BY <3>2, <3>3
  <2> HIDE DEF since
  <2>3. fills \in Seq(FillType) /\ i \in 1 .. Len(fills)
    BY <1>1, FillHere DEF Basic, FillsOK
  <2>4. fills' = [fills EXCEPT ![i] = g]
    BY <1>2, <1>4, <2>3
  <2>5. g \in FillType
    BY <2>1, <2>2 DEF FillType
  <2>6. /\ g.todo = f.todo /\ g.begun = f.begun /\ g.to = f.to /\ g.at = "fetch"
        /\ g.since = since
    BY <2>1 DEF FillType
  <2> HIDE DEF g, f
  <2>7. FillOK(g, clock) /\ Onward(g, f)
    BY <2>1, <2>2, <2>5, <2>6, OnwardOK DEF Onward
  <2> QED BY <2>4, <2>5, <2>6, <2>7 DEF f, since
<1> QED BY <1>3, <1>4

\* A page is back.
LEMMA FetchIs ==
  ASSUME Basic, NEW i \in DOMAIN fills, NEW x \in Series, Fetch(i, x)
  PROVE  \E g \in FillType :
           /\ FillOK(g, clock) /\ fills' = [fills EXCEPT ![i] = g]
           /\ Onward(g, fills[i]) /\ g.since = fills[i].since
<1> DEFINE f == fills[i]
           far == f.since + (Page - 1) * Period[x]
           page == Min({f.to, far})
           g == [f EXCEPT !.at = "upsert", !.page = page]
<1>1. FillAt(i, x, "fetch") /\ fills' = [fills EXCEPT ![i].at = "upsert", ![i].page = page]
  BY DEF Fetch
<1>2. /\ f \in FillType /\ FillOK(f, clock) /\ f.todo # <<>> /\ x = Head(f.todo)
      /\ f.to \in Nat /\ f.to \in Candles(x) /\ f.at = "fetch"
  BY <1>1, FillHere
<1>3. f.since \in Candles(x) /\ f.since <= f.to
  BY <1>2 DEF FillOK
<1>4. /\ far \in Nat /\ f.since <= far
      /\ far <= LastTick => far \in Candles(x)
  <2> DEFINE p == Period[x]
             n == Page - 1
  <2>1. p \in Nat \ {0} /\ n \in Nat /\ f.since \in Nat /\ Multiple(f.since, p)
    BY <1>3, SeriesAssumption, FetchAssumption, CandleIs
  <2>2. far = f.since + n * p
    OBVIOUS
  <2> HIDE DEF p, n, far
  <2>3. n * p \in Nat /\ Multiple(f.since + n * p, p)
    BY <2>1, MultiplesAdd
  <2> QED BY <2>1, <2>2, <2>3, CandleIs DEF p
<1> HIDE DEF far
<1>5. page = IF f.to <= far THEN f.to ELSE far
  <2>1. \E m \in {f.to, far} : \A y \in {f.to, far} : m <= y
    BY <1>2, <1>4
  <2>2. page \in {f.to, far} /\ \A y \in {f.to, far} : page <= y
    BY <2>1 DEF Min
  <2> QED BY <1>2, <1>4, <2>2
<1> HIDE DEF page
<1>6. page \in Candles(x) /\ page \in Nat /\ f.since <= page /\ page <= f.to
  <2>1. f.to <= LastTick /\ LastTick \in Nat
    BY <1>2, CandleIs, TickAssumption
  <2> QED BY <1>2, <1>3, <1>4, <1>5, <2>1
<1>7. fills \in Seq(FillType) /\ i \in 1 .. Len(fills)
  BY <1>1, FillHere DEF Basic, FillsOK
<1>8. fills' = [fills EXCEPT ![i] = g]
  BY <1>1, <1>7
<1>9. g \in FillType
  BY <1>2, <1>6 DEF FillType
<1>10. /\ g.todo = f.todo /\ g.begun = f.begun /\ g.to = f.to /\ g.at = "upsert"
       /\ g.since = f.since /\ g.page = page
  BY <1>2 DEF FillType
<1> HIDE DEF g, f
<1>11. FillOK(g, clock) /\ Onward(g, f)
  BY <1>2, <1>3, <1>6, <1>9, <1>10, OnwardOK DEF Onward
<1> QED BY <1>8, <1>9, <1>10, <1>11 DEF f

\* A row is stored.
LEMMA FillStoreIs ==
  ASSUME Basic, NEW i \in DOMAIN fills, NEW x \in Series, FillStore(i, x)
  PROVE  /\ fills[i].since \in Candles(x) /\ fills[i].since <= fills[i].to
         /\ \E g \in FillType :
              /\ FillOK(g, clock) /\ fills' = [fills EXCEPT ![i] = g]
              /\ \/ g = Start(Tail(fills[i].todo), fills[i].begun) /\ fills[i].since = fills[i].to
                 \/ Onward(g, fills[i]) /\ g.since = fills[i].since + Period[x]
<1> DEFINE f == fills[i]
           next == f.since + Period[x]
<1>1. FillAt(i, x, "upsert")
  BY DEF FillStore
<1>2. /\ f \in FillType /\ FillOK(f, clock) /\ f.todo # <<>> /\ x = Head(f.todo)
      /\ f.to \in Nat /\ f.to \in Candles(x) /\ f.at = "upsert"
  BY <1>1, FillHere
<1>3. /\ f.since \in Candles(x) /\ f.since <= f.to
      /\ f.page \in Candles(x) /\ f.since <= f.page /\ f.page <= f.to
  BY <1>2 DEF FillOK
<1>4. /\ f.to <= LastTick /\ LastTick \in Nat /\ f.since \in Nat /\ f.page \in Nat
  BY <1>2, <1>3, CandleIs, TickAssumption
<1>5. /\ next \in Nat
      /\ next <= LastTick => next \in Candles(x)
      /\ f.since < f.to => next <= f.to
      /\ f.since < f.page => next <= f.page
  BY <1>2, <1>3, OneFurther
<1>6. fills \in Seq(FillType) /\ i \in 1 .. Len(fills)
  BY <1>1, FillHere DEF Basic, FillsOK
<1>7. CASE f.since < f.page
  <2> DEFINE g == [f EXCEPT !.since = next]
  <2>1. fills' = [fills EXCEPT ![i] = g]
    BY <1>6, <1>7 DEF FillStore
  <2> HIDE DEF next
  <2>2. next <= f.to /\ next \in Candles(x) /\ next <= f.page
    BY <1>2, <1>3, <1>4, <1>5, <1>7
  <2>3. g \in FillType
    BY <1>2, <1>5 DEF FillType
  <2>4. /\ g.todo = f.todo /\ g.begun = f.begun /\ g.to = f.to /\ g.at = "upsert"
        /\ g.since = next /\ g.page = f.page
    BY <1>2 DEF FillType
  <2> HIDE DEF g, f
  <2>5. FillOK(g, clock) /\ Onward(g, f)
    BY <1>2, <1>3, <2>2, <2>3, <2>4, OnwardOK DEF Onward
  <2> QED BY <1>3, <2>1, <2>3, <2>4, <2>5 DEF f, next
<1>8. CASE ~(f.since < f.page) /\ f.since < f.to
  <2> DEFINE g == [f EXCEPT !.since = next, !.at = "fetch"]
  <2>1. fills' = [fills EXCEPT ![i] = g]
    BY <1>6, <1>8 DEF FillStore
  <2> HIDE DEF next
  <2>2. next <= f.to /\ next \in Candles(x)
    BY <1>2, <1>4, <1>5, <1>8
  <2>3. g \in FillType
    BY <1>2, <1>5 DEF FillType
  <2>4. /\ g.todo = f.todo /\ g.begun = f.begun /\ g.to = f.to /\ g.at = "fetch"
        /\ g.since = next
    BY <1>2 DEF FillType
  <2> HIDE DEF g, f
  <2>5. FillOK(g, clock) /\ Onward(g, f)
    BY <1>2, <2>2, <2>3, <2>4, OnwardOK DEF Onward
  <2> QED BY <1>3, <2>1, <2>3, <2>4, <2>5 DEF f, next
<1>9. CASE ~(f.since < f.page) /\ ~(f.since < f.to)
  <2>1. NextSeries(i)
    BY <1>9 DEF FillStore
  <2>2. f.since = f.to
    BY <1>2, <1>3, <1>4, <1>9
  <2> QED BY <1>1, <1>3, <2>1, <2>2, NextFill
<1> QED BY <1>7, <1>8, <1>9

\* upsertCandle() adds a candle that has closed.
LEMMA TableGrows ==
  ASSUME ClockOK, TableOK, clock' = clock,
         NEW x \in Series, NEW t \in Candles(x), t <= clock,
         table' = [table EXCEPT ![x] = @ \cup {t}]
  PROVE  /\ TableOK'
         /\ table'[x] = table[x] \cup {t}
         /\ \A y \in Series : y # x => table'[y] = table[y]
<1>1. table \in [Series -> SUBSET Nat]
  BY DEF TableOK
<1>2. t \in Nat
  BY CandleIs
<1>3. /\ table' \in [Series -> SUBSET Nat]
      /\ table'[x] = table[x] \cup {t}
      /\ \A y \in Series : y # x => table'[y] = table[y]
  BY <1>1, <1>2
<1>4. ASSUME NEW y \in Series, NEW u \in table'[y] PROVE u \in Candles(y) /\ u <= clock
  BY <1>3, <1>4 DEF TableOK
<1> QED BY <1>3, <1>4 DEF TableOK, Candles, Abstract!Candles

-----------------------------------------------------------------------------
(* Sequences of the elements of a set                                       *)

LEMMA IntervalCard ==
  ASSUME NEW n \in Nat
  PROVE  IsFiniteSet(1 .. n) /\ Cardinality(1 .. n) = n
<1>1. 1 \in Int /\ n \in Int
  OBVIOUS
<1> QED BY <1>1, FS_Interval

\* A sequence without repetitions, as long as the set is large, has them all.
LEMMA HasAll ==
  ASSUME NEW S, IsFiniteSet(S), NEW f \in [1 .. Cardinality(S) -> S],
         \A i, j \in 1 .. Cardinality(S) : f[i] = f[j] => i = j
  PROVE  f \in Seq(S) /\ Len(f) = Cardinality(S) /\ \A e \in S : \E n \in 1 .. Len(f) : f[n] = e
<1> DEFINE n == Cardinality(S)
<1>1. n \in Nat
  BY FS_CardinalityType
<1> HIDE DEF n
<1>2. f \in [1 .. n -> S]
  BY DEF n
<1>3. f \in Seq(S) /\ Len(f) = n
  BY <1>1, <1>2, SeqDef
<1>4. f \in Injection(1 .. n, S)
  BY <1>2 DEF Injection, IsInjective, n
<1>5. f \in Surjection(1 .. n, S)
  BY <1>1, <1>4, IntervalCard, FS_Injection DEF n
<1>6. \A e \in S : \E i \in 1 .. n : f[i] = e
  BY <1>5 DEF Surjection
<1> QED BY <1>3, <1>6 DEF n

LEMMA SetToSeqHasAll ==
  ASSUME NEW S, IsFiniteSet(S)
  PROVE  SetToSeq(S) \in Seq(S) /\ \A e \in S : \E n \in 1 .. Len(SetToSeq(S)) : SetToSeq(S)[n] = e
<1> DEFINE f == SetToSeq(S)
<1>1. \E g : g \in Bijection(1 .. Cardinality(S), S)
  BY FS_CardinalityType DEF ExistsBijection
<1>2. \E g \in [1 .. Cardinality(S) -> S] : IsInjective(g)
  BY <1>1 DEF Bijection, Injection
<1>3. f \in [1 .. Cardinality(S) -> S] /\ IsInjective(f)
  BY <1>2 DEF SetToSeq
<1> HIDE DEF f
<1>4. \A i, j \in 1 .. Cardinality(S) : f[i] = f[j] => i = j
  BY <1>3 DEF IsInjective
<1>5. f \in Seq(S) /\ \A e \in S : \E n \in 1 .. Len(f) : f[n] = e
  BY <1>3, <1>4, HasAll
<1> QED BY <1>5 DEF f

LEMMA SetToSeqsHaveAll ==
  ASSUME NEW S, IsFiniteSet(S), NEW f \in SetToSeqs(S)
  PROVE  f \in Seq(S) /\ \A e \in S : \E n \in 1 .. Len(f) : f[n] = e
<1>1. /\ f \in [1 .. Cardinality(S) -> S]
      /\ \A i, j \in 1 .. Cardinality(S) : i # j => f[i] # f[j]
  BY DEF SetToSeqs
<1>2. \A i, j \in 1 .. Cardinality(S) : f[i] = f[j] => i = j
  BY <1>1
<1> QED BY <1>1, <1>2, HasAll

\* The candles that close at a tick.
Closing(c) == {[x |-> x, t |-> c] : x \in {y \in Series : c % Period[y] = 0}}

LEMMA ClosingFacts ==
  ASSUME NEW c \in Nat
  PROVE  /\ IsFiniteSet(Closing(c))
         /\ \A e \in Closing(c) : e \in Message /\ e.t = c /\ c % Period[e.x] = 0
         /\ \A x \in Series : c % Period[x] = 0 => [x |-> x, t |-> c] \in Closing(c)
<1> DEFINE T == {y \in Series : c % Period[y] = 0}
           F == [y \in T |-> [x |-> y, t |-> c]]
<1>1. IsFiniteSet(T)
  <2>1. T \in SUBSET Series
    OBVIOUS
  <2> HIDE DEF T
  <2> QED BY <2>1, SeriesAssumption, FS_Subset
<1>2. F \in Surjection(T, Closing(c))
  <2>1. Closing(c) = {[x |-> y, t |-> c] : y \in T}
    BY DEF Closing
  <2> HIDE DEF T
  <2>2. F \in [T -> Closing(c)]
    BY <2>1
  <2>3. \A e \in Closing(c) : \E y \in T : F[y] = e
    BY <2>1
  <2> QED BY <2>2, <2>3 DEF Surjection
<1> HIDE DEF F, T
<1>3. IsFiniteSet(Closing(c))
  BY <1>1, <1>2, FS_Surjection
<1> QED BY <1>3 DEF Closing, Message

-----------------------------------------------------------------------------
(* Every step keeps Basic                                                   *)

LEMMA InitBasic == Init => Basic
<1> SUFFICES ASSUME Init PROVE Basic
  OBVIOUS
<1>1. /\ clock = 0 /\ table \in [Series -> {{}, {0}}]
      /\ socket = "connecting" /\ wire = <<>> /\ fills = <<>> /\ jobs = {} /\ budget = Bounds
  BY DEF Init
<1>2. ClockOK
  BY <1>1, TickAssumption DEF ClockOK
<1>3. TableOK
  <2>1. \A x \in Series : 0 \in Candles(x)
    <3> SUFFICES ASSUME NEW x \in Series PROVE 0 \in Candles(x)
      OBVIOUS
    <3>1. LastClosed(x, 0) \in Candles(x) /\ LastClosed(x, 0) <= 0 /\ LastClosed(x, 0) \in Nat
      <4>1. 0 \in Nat /\ 0 <= 0 /\ 0 <= LastTick
        BY TickAssumption
      <4> QED BY <4>1, LastClosedCandle, LastClosedIs
    <3>2. LastClosed(x, 0) = 0
      BY <3>1
    <3> QED BY <3>1, <3>2
  <2>2. table \in [Series -> SUBSET Nat]
    <3>1. {{}, {0}} \subseteq SUBSET Nat
      OBVIOUS
    <3> QED BY <1>1, <3>1
  <2>3. \A x \in Series : \A t \in table[x] : t = 0
    BY <1>1
  <2> QED BY <1>1, <2>1, <2>2, <2>3 DEF TableOK
<1>4. FillsOK
  <2>1. fills \in Seq(FillType) /\ Len(fills) = 0
    BY <1>1
  <2> QED BY <2>1 DEF FillsOK
<1>5. WireOK
  <2>1. wire \in Seq(Message) /\ Len(wire) = 0
    BY <1>1
  <2> QED BY <1>1, <2>1 DEF WireOK
<1>6. JobsOK /\ BudgetOK
  BY <1>1, BoundAssumption DEF JobsOK, BudgetOK
<1> QED BY <1>2, <1>3, <1>4, <1>5, <1>6 DEF Basic

\* The steps of the fills.
LEMMA FillBasic ==
  ASSUME Basic, NEW i \in DOMAIN fills, NEW x \in Series,
         ReadLast(i, x) \/ Fetch(i, x) \/ FillStore(i, x) \/ FillFails(i, x)
  PROVE  Basic' /\ i \in 1 .. Len(fills)
<1>0. i \in 1 .. Len(fills)
  BY DEF Basic, FillsOK
<1>1. UNCHANGED <<clock, socket, wire, jobs>>
  BY DEF ReadLast, Fetch, FillStore, FillFails, exchange
<1>2. ASSUME NEW g \in FillType, FillOK(g, clock), fills' = [fills EXCEPT ![i] = g],
             TableOK', BudgetOK'
      PROVE  Basic'
    BY <1>0, <1>1, <1>2, FillMoves
<1>3. CASE ReadLast(i, x)
  <2>1. TableOK' /\ BudgetOK'
    BY <1>1, <1>3 DEF ReadLast, Basic, TableOK, BudgetOK
  <2> QED BY <1>0, <1>2, <1>3, <2>1, ReadLastIs
<1>4. CASE Fetch(i, x)
  <2>1. TableOK' /\ BudgetOK'
    BY <1>1, <1>4 DEF Fetch, Basic, TableOK, BudgetOK
  <2> QED BY <1>0, <1>2, <1>4, <2>1, FetchIs
<1>5. CASE FillStore(i, x)
  <2>1. fills[i].since \in Candles(x) /\ fills[i].since <= fills[i].to
    BY <1>5, FillStoreIs
  <2>2. fills[i].since <= clock
    <3>1. fills[i].to \in Nat /\ fills[i].to <= clock
      BY <1>5, FillHere DEF FillStore
    <3> QED BY <2>1, <3>1, CandleIs DEF Basic, ClockOK
  <2>3. table' = [table EXCEPT ![x] = @ \cup {fills[i].since}]
    BY <1>5 DEF FillStore
  <2>4. TableOK'
    BY <1>1, <2>1, <2>2, <2>3, TableGrows DEF Basic
  <2>5. BudgetOK'
    BY <1>5 DEF FillStore, Basic, BudgetOK
  <2> QED BY <1>0, <1>2, <1>5, <2>4, <2>5, FillStoreIs
<1>6. CASE FillFails(i, x)
  <2>1. NextSeries(i) /\ \E at : FillAt(i, x, at)
    BY <1>6 DEF FillFails
  <2>2. TableOK'
    BY <1>1, <1>6 DEF FillFails, Basic, TableOK
  <2>3. BudgetOK'
    <3>1. budget.faults \in Nat /\ budget.faults > 0 /\ Bounds.faults \in Nat
      BY <1>6, BoundAssumption DEF FillFails, Basic, BudgetOK
    <3>2. budget' = [budget EXCEPT !.faults = budget.faults - 1]
      BY <1>6 DEF FillFails
    <3> QED BY <3>1, <3>2 DEF Basic, BudgetOK
  <2> QED BY <1>2, <2>1, <2>2, <2>3, NextFill
<1> QED BY <1>0, <1>3, <1>4, <1>5, <1>6

LEMMA GotoJobs ==
  ASSUME Basic, NEW j \in jobs, NEW at \in {"filling", "upsert", "lastCandle"}, Goto(j, at),
         UNCHANGED <<clock, fills>>
  PROVE  JobsOK'
<1> DEFINE k == [j EXCEPT !.at = at]
<1>1. j \in Job
  BY DEF Basic, JobsOK
<1>2. k \in Job /\ k.x = j.x /\ k.t = j.t /\ k.fill = j.fill
  BY <1>1 DEF Job
<1>3. jobs' = (jobs \ {j}) \cup {k}
  BY DEF Goto
<1> HIDE DEF k
<1> QED BY <1>1, <1>2, <1>3 DEF Basic, JobsOK

LEMMA JobBasic ==
  ASSUME Basic, NEW j \in jobs, Filled(j) \/ Upsert(j) \/ StepManager(j) \/ JobFails(j)
  PROVE  Basic'
<1>1. UNCHANGED <<clock, socket, wire, fills>>
  BY DEF Filled, Upsert, StepManager, JobFails, exchange
<1>2. ClockOK' /\ FillsOK' /\ WireOK'
  BY <1>1 DEF Basic, ClockOK, FillsOK, WireOK
<1>3. j \in Job /\ j.t = clock /\ clock \in Candles(j.x) /\ j.x \in Series
  BY DEF Basic, JobsOK, Job
<1>4. JobsOK'
  <2>1. CASE Filled(j)
    BY <1>1, <2>1, GotoJobs DEF Filled
  <2>2. CASE Upsert(j)
    BY <1>1, <2>2, GotoJobs DEF Upsert
  <2>3. CASE StepManager(j) \/ JobFails(j)
    BY <1>1, <2>3 DEF StepManager, JobFails, Basic, JobsOK
  <2> QED BY <2>1, <2>2, <2>3
<1>5. TableOK'
  <2>1. CASE Upsert(j)
    <3>1. table' = [table EXCEPT ![j.x] = @ \cup {j.t}] /\ j.t <= clock
      BY <1>3, <2>1 DEF Upsert, Basic, ClockOK
    <3> QED BY <1>1, <1>3, <3>1, TableGrows DEF Basic
  <2>2. CASE ~Upsert(j)
    BY <1>1, <2>2 DEF Filled, StepManager, JobFails, Basic, TableOK
  <2> QED BY <2>1, <2>2
<1>6. BudgetOK'
  <2>1. CASE JobFails(j)
    <3>1. budget.faults \in Nat /\ budget.faults > 0 /\ Bounds.faults \in Nat
      BY <2>1, BoundAssumption DEF JobFails, Basic, BudgetOK
    <3>2. budget' = [budget EXCEPT !.faults = budget.faults - 1]
      BY <2>1 DEF JobFails
    <3> QED BY <3>1, <3>2 DEF Basic, BudgetOK
  <2>2. CASE ~JobFails(j)
    BY <2>2 DEF Filled, Upsert, StepManager, Basic, BudgetOK
  <2> QED BY <2>1, <2>2
<1> QED BY <1>2, <1>4, <1>5, <1>6 DEF Basic

LEMMA ReceiveBasic == ASSUME Basic, Receive PROVE Basic'
<1> DEFINE j == [x |-> Head(wire).x, t |-> Head(wire).t, at |-> "filling", fill |-> Len(fills)]
<1>1. /\ wire # <<>> /\ jobs' = jobs \cup {j} /\ wire' = Tail(wire)
      /\ UNCHANGED <<clock, socket, table, fills, budget>>
  BY DEF Receive
<1>2. /\ wire \in Seq(Message) /\ socket = "open" /\ fills # <<>>
      /\ \A n \in 1 .. Len(wire) : wire[n].t = clock /\ clock \in Candles(wire[n].x)
      /\ fills \in Seq(FillType)
  BY <1>1 DEF Basic, WireOK, FillsOK
<1>3. /\ Head(wire) \in Message /\ Head(wire).t = clock /\ clock \in Candles(Head(wire).x)
  BY <1>1, <1>2, TailSeq
<1>4. Len(fills) \in 1 .. Len(fills) /\ Len(fills) \in Nat
  BY <1>2
<1>5. j \in Job /\ j.t = clock /\ clock \in Candles(j.x) /\ j.fill \in 1 .. Len(fills)
  BY <1>3, <1>4 DEF Job, Message
<1> HIDE DEF j
<1>6. JobsOK'
  BY <1>1, <1>5 DEF Basic, JobsOK
<1>7. WireOK'
  <2>1. /\ Tail(wire) \in Seq(Message)
        /\ \A n \in 1 .. Len(Tail(wire)) : Tail(wire)[n].t = clock /\ clock \in Candles(Tail(wire)[n].x)
    <3>1. /\ Tail(wire) \in Seq(Message) /\ Len(wire) \in Nat /\ Len(Tail(wire)) = Len(wire) - 1
          /\ \A n \in 1 .. Len(wire) - 1 : Tail(wire)[n] = wire[n + 1]
      BY <1>1, <1>2, TailSeq
    <3>2. \A n \in 1 .. Len(wire) - 1 : n + 1 \in 1 .. Len(wire)
      BY <3>1
    <3> QED BY <1>2, <3>1, <3>2
  <2> QED BY <1>1, <1>2, <2>1 DEF WireOK
<1>8. ClockOK' /\ TableOK' /\ FillsOK' /\ BudgetOK'
  BY <1>1 DEF Basic, ClockOK, TableOK, FillsOK, BudgetOK
<1> QED BY <1>6, <1>7, <1>8 DEF Basic

\* A fill of every series begins.
LEMMA OpenIs ==
  ASSUME Basic, Open
  PROVE  LET g == Start(SetToSeq(Series), clock) IN
         /\ g \in FillType /\ FillOK(g, clock)
         /\ fills' \in Seq(FillType) /\ Len(fills') = Len(fills) + 1
         /\ Len(fills) \in Nat /\ fills'[Len(fills) + 1] = g
         /\ \A i \in 1 .. Len(fills) : fills'[i] = fills[i]
<1> DEFINE g == Start(SetToSeq(Series), clock)
<1>1. SetToSeq(Series) \in Seq(Series)
  BY SeriesAssumption, SetToSeqHasAll
<1>2. g \in FillType /\ FillOK(g, clock)
  <2>1. ClockOK /\ clock \in Nat /\ clock <= clock /\ clock <= clock + 1
    BY DEF Basic, ClockOK
  <2> QED BY <1>1, <2>1, StartOK
<1>3. fills' = Append(fills, g) /\ fills \in Seq(FillType)
  BY DEF Open, Basic, FillsOK
<1> HIDE DEF g
<1>4. /\ Append(fills, g) \in Seq(FillType) /\ Len(Append(fills, g)) = Len(fills) + 1
      /\ Len(fills) \in Nat /\ Append(fills, g)[Len(fills) + 1] = g
      /\ \A i \in 1 .. Len(fills) : Append(fills, g)[i] = fills[i]
  BY <1>2, <1>3
<1> QED BY <1>2, <1>3, <1>4 DEF g

LEMMA OpenBasic == ASSUME Basic, Open PROVE Basic'
<1>1. /\ socket = "connecting" /\ socket' = "open"
      /\ UNCHANGED <<clock, wire, table, jobs, budget>>
  BY DEF Open
<1> DEFINE g == Start(SetToSeq(Series), clock)
<1>2. /\ FillOK(g, clock)
      /\ fills' \in Seq(FillType) /\ Len(fills') = Len(fills) + 1
      /\ Len(fills) \in Nat /\ fills'[Len(fills) + 1] = g
      /\ \A i \in 1 .. Len(fills) : fills'[i] = fills[i]
  BY OpenIs
<1> HIDE DEF g
<1>3. FillsOK'
  <2>1. \A i \in 1 .. Len(fills) : FillOK(fills[i], clock)
    BY DEF Basic, FillsOK
  <2>2. ASSUME NEW i \in 1 .. Len(fills') PROVE FillOK(fills'[i], clock)
    <3>1. i \in 1 .. Len(fills) \/ i = Len(fills) + 1
      BY <1>2
    <3> QED BY <1>2, <2>1, <3>1
  <2> QED BY <1>1, <1>2, <2>2 DEF FillsOK, FillOK
<1>4. WireOK'
  <2>1. wire = <<>> /\ fills' # <<>>
    BY <1>1, <1>2 DEF Basic, WireOK
  <2> QED BY <1>1, <2>1 DEF Basic, WireOK
<1>5. JobsOK'
  <2>1. \A j \in jobs : j.fill \in 1 .. Len(fills')
    BY <1>2 DEF Basic, JobsOK
  <2> QED BY <1>1, <2>1 DEF Basic, JobsOK
<1>6. ClockOK' /\ TableOK' /\ BudgetOK'
  BY <1>1 DEF Basic, ClockOK, TableOK, BudgetOK
<1> QED BY <1>3, <1>4, <1>5, <1>6 DEF Basic

\* The socket's other steps, and a restart.
LEMMA SocketBasic ==
  ASSUME Basic, Connect \/ Drop \/ Hang \/ Silence \/ Restart
  PROVE  Basic'
<1>1. UNCHANGED <<clock, table>>
  BY DEF Connect, Drop, Hang, Silence, Restart
<1>2. BudgetOK'
  BY DEF Connect, Drop, Hang, Silence, Restart, Basic, BudgetOK
<1>3. FillsOK' /\ JobsOK'
  <2>1. CASE Restart
    <3>1. fills' = <<>> /\ jobs' = {}
      BY <2>1 DEF Restart
    <3> QED BY <3>1 DEF FillsOK, JobsOK
  <2>2. CASE ~Restart
    BY <1>1, <2>2 DEF Connect, Drop, Hang, Silence, Basic, FillsOK, JobsOK
  <2> QED BY <2>1, <2>2
<1>4. WireOK'
  <2>1. wire' = <<>> /\ socket' \in {"down", "connecting", "silent"}
    BY DEF Connect, Drop, Hang, Silence, Restart, Basic, WireOK
  <2>2. wire' \in Seq(Message) /\ Len(wire') = 0
    BY <2>1
  <2> QED BY <2>1, <2>2 DEF WireOK
<1>5. ClockOK' /\ TableOK'
  BY <1>1 DEF Basic, ClockOK, TableOK
<1> QED BY <1>2, <1>3, <1>4, <1>5 DEF Basic

\* What is sent at a tick.
LEMMA TickIs ==
  ASSUME Basic, Tick
  PROVE  /\ clock' = clock + 1 /\ clock' \in Nat /\ clock' <= LastTick
         /\ wire' \in Seq(Message)
         /\ socket # "open" => wire' = <<>>
         /\ \A n \in 1 .. Len(wire') : wire'[n].t = clock' /\ clock' \in Candles(wire'[n].x)
         /\ socket = "open" => \A x \in Series : clock' % Period[x] = 0 =>
              \E n \in 1 .. Len(wire') : wire'[n].x = x
<1>1. clock' = clock + 1 /\ clock' \in Nat /\ clock' <= LastTick
  BY TickAssumption DEF Tick, Basic, ClockOK
<1>2. wire' \in IF socket = "open" THEN SetToSeqs(Closing(clock')) ELSE {<<>>}
  BY DEF Tick, Closing
<1>3. CASE socket = "open"
  <2>1. wire' \in SetToSeqs(Closing(clock'))
    BY <1>2, <1>3
  <2> DEFINE w == wire'
             c == clock'
             S == Closing(c)
  <2>2. /\ IsFiniteSet(S)
        /\ \A e \in S : e \in Message /\ e.t = c /\ c % Period[e.x] = 0
        /\ \A x \in Series : c % Period[x] = 0 => [x |-> x, t |-> c] \in S
    BY <1>1, ClosingFacts
  <2>3. w \in SetToSeqs(S)
    BY <2>1
  <2>4. c \in Nat /\ c <= LastTick
    BY <1>1
  <2> HIDE DEF w, c, S
  <2>5. w \in Seq(S) /\ \A e \in S : \E n \in 1 .. Len(w) : w[n] = e
    BY <2>2, <2>3, SetToSeqsHaveAll
  <2>6. w \in Seq(Message)
    BY <2>2, <2>5, SeqMonotonic
  <2>7. ASSUME NEW n \in 1 .. Len(w) PROVE w[n].t = c /\ c \in Candles(w[n].x)
    <3>1. w[n] \in S
      BY <2>5
    <3>2. w[n].t = c /\ c % Period[w[n].x] = 0 /\ w[n].x \in Series
      BY <2>2, <3>1 DEF Message
    <3> QED BY <2>4, <3>2, CandleIs DEF Multiple
  <2>8. ASSUME NEW x \in Series, c % Period[x] = 0 PROVE \E n \in 1 .. Len(w) : w[n].x = x
    <3>1. PICK n \in 1 .. Len(w) : w[n] = [x |-> x, t |-> c]
      BY <2>2, <2>5, <2>8
    <3> QED BY <3>1
  <2> QED BY <1>1, <1>3, <2>6, <2>7, <2>8 DEF w, c
<1>4. CASE socket # "open"
  <2>1. wire' = <<>>
    BY <1>2, <1>4
  <2>2. wire' \in Seq(Message) /\ Len(wire') = 0
    BY <2>1
  <2> QED BY <1>1, <1>4, <2>1, <2>2
<1> QED BY <1>3, <1>4

LEMMA TickBasic == ASSUME Basic, Tick PROVE Basic'
<1>1. /\ clock' = clock + 1 /\ clock' \in Nat /\ clock' <= LastTick
      /\ wire' \in Seq(Message) /\ (socket # "open" => wire' = <<>>)
      /\ \A n \in 1 .. Len(wire') : wire'[n].t = clock' /\ clock' \in Candles(wire'[n].x)
  BY TickIs
<1>2. /\ jobs = {} /\ \A i \in DOMAIN fills : fills[i].at # "done" => fills[i].begun = clock
      /\ UNCHANGED <<socket, table, fills, jobs, budget>>
  BY DEF Tick
<1>3. clock \in Nat
  BY DEF Basic, ClockOK
<1>4. FillsOK'
  <2>1. fills \in Seq(FillType) /\ \A i \in 1 .. Len(fills) : FillOK(fills[i], clock)
    BY DEF Basic, FillsOK
  <2>2. ASSUME NEW i \in 1 .. Len(fills) PROVE FillOK(fills[i], clock + 1)
    <3>1. fills[i] \in FillType /\ FillOK(fills[i], clock)
      BY <2>1
    <3>2. fills[i].to \in Nat /\ fills[i].begun \in Nat
      BY <3>1 DEF FillType
    <3>3. fills[i].todo # <<>> => fills[i].begun = clock
      BY <1>2, <2>1, <3>1 DEF FillOK
    <3> QED BY <1>3, <3>1, <3>2, <3>3 DEF FillOK
  <2> QED BY <1>1, <1>2, <2>1, <2>2 DEF FillsOK
<1>5. WireOK'
  BY <1>1, <1>2 DEF Basic, WireOK
<1>6. TableOK'
  <2>1. ASSUME NEW x \in Series, NEW t \in table[x] PROVE t \in Candles(x) /\ t <= clock + 1
    <3>1. t \in Candles(x) /\ t <= clock /\ t \in Nat
      BY CandleIs DEF Basic, TableOK
    <3> QED BY <1>3, <3>1
  <2> QED BY <1>1, <1>2, <2>1 DEF Basic, TableOK
<1>7. JobsOK' /\ BudgetOK' /\ ClockOK'
  BY <1>1, <1>2 DEF Basic, JobsOK, BudgetOK, ClockOK
<1> QED BY <1>4, <1>5, <1>6, <1>7 DEF Basic

LEMMA NextBasic == Basic /\ [Next]_vars => Basic'
<1> SUFFICES ASSUME Basic, [Next]_vars PROVE Basic'
  OBVIOUS
<1>1. CASE FillStep \/ \E i \in DOMAIN fills, x \in Series : FillFails(i, x)
  BY <1>1, FillBasic DEF FillStep
<1>2. CASE JobStep \/ \E j \in jobs : JobFails(j)
  BY <1>2, JobBasic DEF JobStep
<1>3. CASE Connect \/ Drop \/ Hang \/ Silence \/ Restart
  BY <1>3, SocketBasic
<1>4. CASE UNCHANGED vars
  BY <1>4 DEF vars, Basic, ClockOK, TableOK, FillsOK, WireOK, JobsOK, BudgetOK
<1> QED BY <1>1, <1>2, <1>3, <1>4, ReceiveBasic, OpenBasic, TickBasic DEF Next, Failure

\* Every step, whatever fails, keeps the feed's state well typed and its fills
\* and handlers within the candles that have closed.
THEOREM TypeCorrect == Spec => []TypeOK
<1>1. Spec => []Basic
  BY InitBasic, NextBasic, PTL DEF Spec
<1> QED BY <1>1, BasicTyped, PTL

-----------------------------------------------------------------------------
(* What holds as long as no call has failed.  A stored candle is within a   *)
(* period of what the next write of a fill or a handler adds, and a handler *)
(* that waits for a fill finds the candle before its own when it is done.   *)

Above(tab, x, t) == \E m \in tab[x] : t <= m + Period[x]
Below(tab, x, t) == \E m \in tab[x] : m <= t + Period[x]
UpTo(tab, x, t)  == \E m \in tab[x] : t <= m

\* The series is still to be filled.
Has(f, x) == \E n \in 1 .. Len(f.todo) : f.todo[n] = x

Near(f, tab) ==
  f.at \in {"fetch", "upsert"} =>
    IF tab[Head(f.todo)] = {} THEN f.since = Boot(Head(f.todo), f.to)
    ELSE Above(tab, Head(f.todo), f.since) /\ Below(tab, Head(f.todo), f.since)

Owed(f, tab, x, c) == Has(f, x) \/ Above(tab, x, c)

JobGood(j, tab, fs, c) ==
  /\ j.at = "filling" => Owed(fs[j.fill], tab, j.x, c)
  /\ j.at = "upsert" => Above(tab, j.x, c)
  /\ j.at = "lastCandle" => c \in tab[j.x]

\* The candle that has just closed is on its way to the table.
Due(x, w, js) ==
  \/ \E n \in 1 .. Len(w) : w[n].x = x
  \/ \E j \in js : j.x = x /\ j.at \in {"filling", "upsert"}

Caught(x, f, tab, c, w, js) ==
  \/ UpTo(tab, x, LastClosed(x, c))
  \/ Due(x, w, js)
  \/ Has(f, x) /\ LastClosed(x, c) <= LastClosed(x, f.begun)

Latest(fs) == fs[Len(fs)]

GoodFills  == \A i \in 1 .. Len(fills) : Near(fills[i], table)
GoodJobs   == \A j \in jobs : JobGood(j, table, fills, clock)
GoodWire   == \A n \in 1 .. Len(wire) : Owed(Latest(fills), table, wire[n].x, clock)
GoodSocket == socket = "open" =>
                \A x \in Series : Caught(x, Latest(fills), table, clock, wire, jobs)
Whole      == \A x \in Series : table[x] = {} \/ Abstract!Unbroken(x, table[x])

Good == GoodFills /\ GoodJobs /\ GoodWire /\ GoodSocket /\ Whole

Inv == Basic /\ (Unfailed => Good)

Grows(tab, tab2) == \A x \in Series : tab[x] \subseteq tab2[x]

\* A fill gets on: a series it is done with is stored up to where it was when
\* the fill began.
Advance(f, g, tab2) ==
  \A x \in Series :
    /\ Has(f, x) => Has(g, x) \/ UpTo(tab2, x, LastClosed(x, f.begun))
    /\ Has(g, x) => g.begun = f.begun

LEMMA HasTodo ==
  ASSUME NEW f \in FillType, NEW x, Has(f, x)
  PROVE  f.todo # <<>>
BY DEF Has, FillType

LEMMA OwedKept ==
  ASSUME Basic, TableOK', clock' = clock,
         NEW f \in FillType, FillOK(f, clock), NEW g, NEW x \in Series,
         Grows(table, table'), Advance(f, g, table'), Owed(f, table, x, clock)
  PROVE  Owed(g, table', x, clock)
<1>1. CASE Above(table, x, clock)
  BY <1>1 DEF Above, Owed, Grows
<1>2. CASE Has(f, x) /\ Has(g, x)
  BY <1>2 DEF Owed
<1>3. CASE Has(f, x) /\ ~Has(g, x)
  <2>1. UpTo(table', x, LastClosed(x, f.begun))
    BY <1>3 DEF Advance
  <2>2. f.begun \in Nat /\ clock <= f.begun + 1 /\ clock \in Nat
    BY <1>3, HasTodo DEF FillOK, FillType, Basic, ClockOK
  <2> DEFINE b == f.begun
  <2>3. /\ LastClosed(x, b) \in Nat /\ b < LastClosed(x, b) + Period[x] /\ Period[x] \in Nat
    BY <2>2, LastClosedIs
  <2> HIDE DEF b
  <2>4. PICK m \in table'[x] : LastClosed(x, b) <= m
    BY <2>1 DEF UpTo, b
  <2>5. m \in Nat
    BY DEF TableOK
  <2>6. clock <= m + Period[x]
    BY <2>2, <2>3, <2>4, <2>5 DEF b
  <2> QED BY <2>6 DEF Owed, Above
<1> QED BY <1>1, <1>2, <1>3 DEF Owed

LEMMA CaughtKept ==
  ASSUME Basic, TableOK', NEW f \in FillType, FillOK(f, clock), NEW g, NEW x \in Series, NEW w, NEW js,
         Grows(table, table'), Advance(f, g, table'), Caught(x, f, table, clock, w, js)
  PROVE  Caught(x, g, table', clock, w, js)
<1>1. CASE UpTo(table, x, LastClosed(x, clock))
  BY <1>1 DEF UpTo, Caught, Grows
<1>2. CASE Due(x, w, js)
  BY <1>2 DEF Caught
<1>3. CASE Has(f, x) /\ LastClosed(x, clock) <= LastClosed(x, f.begun)
  <2>1. CASE Has(g, x)
    BY <1>3, <2>1 DEF Advance, Caught
  <2>2. CASE ~Has(g, x)
    <3>1. UpTo(table', x, LastClosed(x, f.begun))
      BY <1>3, <2>2 DEF Advance
    <3> DEFINE u == LastClosed(x, f.begun)
               v == LastClosed(x, clock)
    <3>2. u \in Nat /\ v \in Nat
      BY LastClosedIs DEF FillType, Basic, ClockOK
    <3> HIDE DEF u, v
    <3>3. PICK m \in table'[x] : u <= m
      BY <3>1 DEF UpTo, u
    <3>4. m \in Nat
      BY DEF TableOK
    <3>5. v <= m
      BY <1>3, <3>2, <3>3, <3>4 DEF u, v
    <3> QED BY <3>5 DEF Caught, UpTo, v
  <2> QED BY <2>1, <2>2
<1> QED BY <1>1, <1>2, <1>3 DEF Caught

LEMMA NearKept ==
  ASSUME NEW f \in FillType, FillOK(f, clock), Near(f, table), Grows(table, table'),
         \/ table'[Head(f.todo)] = table[Head(f.todo)]
         \/ table[Head(f.todo)] # {}
  PROVE  Near(f, table')
<1> SUFFICES ASSUME f.at \in {"fetch", "upsert"}
             PROVE  IF table'[Head(f.todo)] = {} THEN f.since = Boot(Head(f.todo), f.to)
                    ELSE Above(table', Head(f.todo), f.since) /\ Below(table', Head(f.todo), f.since)
  BY DEF Near
<1> DEFINE x == Head(f.todo)
<1>1. x \in Series
  BY TailSeq DEF FillOK, FillType
<1>2. IF table[x] = {} THEN f.since = Boot(x, f.to)
      ELSE Above(table, x, f.since) /\ Below(table, x, f.since)
  BY DEF Near
<1> HIDE DEF x
<1>3. CASE table'[x] = table[x]
  BY <1>2, <1>3 DEF Above, Below, x
<1>4. CASE table[x] # {}
  BY <1>1, <1>2, <1>4 DEF Above, Below, Grows, x
<1> QED BY <1>3, <1>4 DEF x

\* A step of a fill leaves the rest as good as it was.
LEMMA FillGood ==
  ASSUME Basic, Basic', Good, NEW i \in 1 .. Len(fills), NEW g \in FillType,
         fills' = [fills EXCEPT ![i] = g],
         Grows(table, table'), Advance(fills[i], g, table'),
         UNCHANGED <<clock, socket, wire, jobs>>, GoodFills', Whole'
  PROVE  Good'
<1>1. /\ fills \in Seq(FillType) /\ \A k \in 1 .. Len(fills) : FillOK(fills[k], clock)
      /\ TableOK'
  BY DEF Basic, FillsOK
<1>2. Len(fills') = Len(fills) /\ \A k \in 1 .. Len(fills) : fills'[k] = IF k = i THEN g ELSE fills[k]
  BY <1>1
<1>3. ASSUME NEW k \in 1 .. Len(fills), NEW x \in Series, Owed(fills[k], table, x, clock)
      PROVE  Owed(fills'[k], table', x, clock)
  <2>1. CASE k = i
    BY <1>1, <1>2, <1>3, <2>1, OwedKept
  <2>2. CASE k # i
    BY <1>2, <1>3, <2>2 DEF Owed, Above, Grows
  <2> QED BY <2>1, <2>2
<1>4. ASSUME NEW k \in 1 .. Len(fills), NEW x \in Series, Caught(x, fills[k], table, clock, wire, jobs)
      PROVE  Caught(x, fills'[k], table', clock, wire, jobs)
  <2>1. CASE k = i
    BY <1>1, <1>2, <1>4, <2>1, CaughtKept
  <2>2. CASE k # i
    BY <1>2, <1>4, <2>2 DEF Caught, UpTo, Grows
  <2> QED BY <2>1, <2>2
<1>5. GoodJobs'
  <2>1. ASSUME NEW j \in jobs PROVE JobGood(j, table', fills', clock)
    <3>1. j.fill \in 1 .. Len(fills) /\ j.x \in Series
      BY DEF Basic, JobsOK, Job
    <3>2. JobGood(j, table, fills, clock)
      BY DEF Good, GoodJobs
    <3>3. j.at = "filling" => Owed(fills'[j.fill], table', j.x, clock)
      BY <1>3, <3>1, <3>2 DEF JobGood
    <3>4. /\ j.at = "upsert" => Above(table', j.x, clock)
          /\ j.at = "lastCandle" => clock \in table'[j.x]
      BY <3>1, <3>2 DEF JobGood, Above, Grows
    <3> QED BY <3>3, <3>4 DEF JobGood
  <2> QED BY <2>1 DEF GoodJobs
<1>6. Len(fills) \in 1 .. Len(fills)
  BY <1>1
<1>7. GoodWire'
  <2>1. ASSUME NEW n \in 1 .. Len(wire) PROVE Owed(Latest(fills'), table', wire[n].x, clock)
    <3>1. wire[n].x \in Series
      <4>1. wire \in Seq(Message)
        BY DEF Basic, WireOK
      <4>2. wire[n] \in Message
        BY <4>1
      <4> QED BY <4>2 DEF Message
    <3>2. Owed(fills[Len(fills)], table, wire[n].x, clock)
      BY DEF Good, GoodWire, Latest
    <3> QED BY <1>2, <1>3, <1>6, <3>1, <3>2 DEF Latest
  <2> QED BY <2>1 DEF GoodWire
<1>8. GoodSocket'
  <2>1. ASSUME socket = "open", NEW x \in Series
        PROVE  Caught(x, Latest(fills'), table', clock, wire, jobs)
    <3>1. Caught(x, fills[Len(fills)], table, clock, wire, jobs)
      BY <2>1 DEF Good, GoodSocket, Latest
    <3> QED BY <1>2, <1>4, <1>6, <3>1 DEF Latest
  <2> QED BY <2>1 DEF GoodSocket
<1> QED BY <1>5, <1>7, <1>8 DEF Good

\* Whole for one table entry more.
LEMMA StoredWhole ==
  ASSUME Whole, NEW x \in Series, NEW t \in Candles(x),
         table'[x] = table[x] \cup {t}, \A y \in Series : y # x => table'[y] = table[y],
         table[x] # {} => Above(table, x, t) /\ Below(table, x, t)
  PROVE  Whole' /\ Grows(table, table') /\ Abstract!Unbroken(x, table[x] \cup {t})
<1>1. Abstract!Unbroken(x, table[x] \cup {t})
  <2>1. CASE table[x] = {}
    <3>1. table[x] \cup {t} = {t}
      BY <2>1
    <3> QED BY <3>1, FirstCandle
  <2>2. CASE table[x] # {}
    <3>1. /\ Abstract!Unbroken(x, table[x])
          /\ \E m \in table[x] : t <= m + Period[x]
          /\ \E m \in table[x] : m <= t + Period[x]
      BY <2>2 DEF Whole, Above, Below
    <3> QED BY <2>2, <3>1, NoHole
  <2> QED BY <2>1, <2>2
<1>2. Grows(table, table')
  BY DEF Grows
<1>3. ASSUME NEW y \in Series PROVE table'[y] = {} \/ Abstract!Unbroken(y, table'[y])
  BY <1>1 DEF Whole
<1>4. Whole'
  BY <1>3 DEF Whole, Abstract!Unbroken, Abstract!Candles, Abstract!Min, Abstract!Max
<1> QED BY <1>1, <1>2, <1>4

\* A fill that goes on to the next series is done with this one; every other
\* step of it leaves that to do.
LEMMA AdvanceOn ==
  ASSUME NEW f \in FillType, NEW g, Onward(g, f), NEW tab
  PROVE  Advance(f, g, tab)
BY DEF Advance, Onward, Has

LEMMA AdvanceNext ==
  ASSUME NEW f \in FillType, f.todo # <<>>, NEW tab,
         UpTo(tab, Head(f.todo), LastClosed(Head(f.todo), f.begun))
  PROVE  Advance(f, Start(Tail(f.todo), f.begun), tab)
<1> DEFINE g == Start(Tail(f.todo), f.begun)
<1>1. f.todo \in Seq(Series)
  BY DEF FillType
<1>2. /\ Tail(f.todo) \in Seq(Series) /\ Len(f.todo) \in Nat \ {0} /\ Head(f.todo) = f.todo[1]
      /\ Len(Tail(f.todo)) = Len(f.todo) - 1
      /\ \A n \in 1 .. Len(f.todo) - 1 : Tail(f.todo)[n] = f.todo[n + 1]
  BY <1>1, TailSeq
<1>3. g.todo = Tail(f.todo) /\ (Tail(f.todo) # <<>> => g.begun = f.begun)
  BY DEF Start
<1> HIDE DEF g
<1>4. ASSUME NEW x \in Series, Has(g, x) PROVE g.begun = f.begun
  <2>1. PICK n \in 1 .. Len(g.todo) : g.todo[n] = x
    BY <1>4 DEF Has
  <2>2. Len(Tail(f.todo)) >= 1
    BY <1>2, <1>3, <2>1
  <2>3. Tail(f.todo) # <<>>
    BY <2>2
  <2> QED BY <1>3, <2>3
<1>5. ASSUME NEW x \in Series, Has(f, x), ~Has(g, x)
      PROVE  UpTo(tab, x, LastClosed(x, f.begun))
  <2>1. PICK n \in 1 .. Len(f.todo) : f.todo[n] = x
    BY <1>5 DEF Has
  <2>2. CASE n = 1
    BY <1>2, <2>1, <2>2
  <2>3. CASE n # 1
    <3>1. n - 1 \in 1 .. Len(f.todo) - 1 /\ (n - 1) + 1 = n
      BY <1>2, <2>1, <2>3
    <3>2. Tail(f.todo)[n - 1] = x
      BY <1>2, <2>1, <3>1
    <3>3. n - 1 \in 1 .. Len(g.todo) /\ g.todo[n - 1] = x
      BY <1>2, <1>3, <3>1, <3>2
    <3> QED BY <1>5, <3>3 DEF Has
  <2> QED BY <2>2, <2>3
<1>6. Advance(f, g, tab)
  BY <1>4, <1>5 DEF Advance
<1> QED BY <1>6 DEF g

\* The bootstraps of two fills begin within a period of each other.
LEMMA BootsNear ==
  ASSUME ClockOK, NEW x \in Series, NEW b \in Nat, NEW t \in Nat, NEW u \in Nat,
         clock <= b + 1, LastClosed(x, b) <= t, u <= clock
  PROVE  Boot(x, u) <= Boot(x, t) + Period[x]
<1> DEFINE p == Period[x]
           a == (Bootstrap - 1) * Period[x]
<1>1. LastClosed(x, b) \in Nat /\ b < LastClosed(x, b) + p /\ p \in Nat
  BY LastClosedIs
<1>2. a \in Nat
  <2>1. Bootstrap - 1 \in Nat
    BY FetchAssumption
  <2> QED BY <1>1, <2>1
<1>3. u <= t + p
  BY <1>1 DEF ClockOK
<1>4. /\ Boot(x, u) = IF u > a THEN u - a ELSE 0
      /\ Boot(x, t) = IF t > a THEN t - a ELSE 0
  BY DEF Boot
<1> HIDE DEF a, p
<1>5. Boot(x, u) <= Boot(x, t) + p
  BY <1>1, <1>2, <1>3, <1>4
<1> QED BY <1>5 DEF p

\* Two fills at work on the same empty series.
LEMMA FillsNear ==
  ASSUME Basic, NEW i \in 1 .. Len(fills), NEW k \in 1 .. Len(fills),
         fills[i].at \in {"fetch", "upsert"}, fills[k].at \in {"fetch", "upsert"},
         Head(fills[k].todo) = Head(fills[i].todo)
  PROVE  LET x == Head(fills[i].todo) IN Boot(x, fills[k].to) <= Boot(x, fills[i].to) + Period[x]
<1> DEFINE x == Head(fills[i].todo)
<1>1. /\ fills[i] \in FillType /\ FillOK(fills[i], clock)
      /\ fills[k] \in FillType /\ FillOK(fills[k], clock)
  BY DEF Basic, FillsOK
<1>2. fills[i].todo # <<>> /\ fills[i].todo \in Seq(Series)
  BY <1>1 DEF FillOK, FillType
<1>3. x \in Series
  BY <1>2, TailSeq
<1>4. /\ fills[i].begun \in Nat /\ fills[i].to \in Nat /\ fills[k].to \in Nat
      /\ clock <= fills[i].begun + 1 /\ LastClosed(x, fills[i].begun) <= fills[i].to
      /\ fills[k].to <= clock
  BY <1>1, <1>2 DEF FillOK, FillType
<1> HIDE DEF x
<1>5. Boot(x, fills[k].to) <= Boot(x, fills[i].to) + Period[x]
  BY <1>3, <1>4, BootsNear DEF Basic
<1> QED BY <1>5 DEF x

LEMMA ReadLastGood ==
  ASSUME Basic, Basic', Good, NEW i \in DOMAIN fills, NEW x \in Series, ReadLast(i, x)
  PROVE  Good'
<1> DEFINE f == fills[i]
<1>1. UNCHANGED <<clock, socket, wire, jobs, table>>
  BY DEF ReadLast, exchange
<1>2. /\ i \in 1 .. Len(fills) /\ f \in FillType /\ f.todo # <<>> /\ x = Head(f.todo)
      /\ f.to \in Nat /\ f.to \in Candles(x) /\ f.begun \in Nat
      /\ LastClosed(x, f.begun) <= f.to
  BY FillHere DEF ReadLast
<1>3. PICK g \in FillType :
        /\ FillOK(g, clock) /\ fills' = [fills EXCEPT ![i] = g]
        /\ \/ g = Start(Tail(f.todo), f.begun) /\ From(x, f.to) > f.to
           \/ Onward(g, f) /\ g.since = From(x, f.to)
  BY ReadLastIs
<1>4. table[x] # {} => /\ Max(table[x]) \in table[x] /\ Max(table[x]) \in Candles(x)
                       /\ Max(table[x]) \in Nat
  <2>1. table[x] \in SUBSET Candles(x)
    BY DEF Basic, TableOK
  <2> QED BY <2>1, FirstAndLast, CandleIs
<1>5. Whole' /\ Grows(table, table') /\ fills \in Seq(FillType)
  BY <1>1 DEF Good, Whole, Grows, Basic, FillsOK
<1>6. ASSUME NEW k \in 1 .. Len(fills), k # i PROVE Near(fills'[k], table)
  BY <1>2, <1>3, <1>5, <1>6 DEF Good, GoodFills
<1>7. fills'[i] = g /\ Len(fills') = Len(fills)
  BY <1>2, <1>3, <1>5
<1>8. CASE g = Start(Tail(f.todo), f.begun) /\ From(x, f.to) > f.to
  <2>1. UpTo(table, x, LastClosed(x, f.begun))
    <3>1. table[x] # {}
      <4>1. Boot(x, f.to) <= f.to /\ Boot(x, f.to) \in Nat
        BY <1>2, BootCandle, CandleIs
      <4> QED BY <1>2, <1>8, <4>1 DEF From
    <3> DEFINE m == Max(table[x])
    <3>2. m \in table[x] /\ m \in Candles(x) /\ m \in Nat
      BY <1>4, <3>1
    <3>3. m + Period[x] > f.to
      BY <1>8, <3>1 DEF From
    <3> HIDE DEF m
    <3>4. m < f.to => m + Period[x] <= f.to
      BY <1>2, <3>2, OneFurther
    <3>5. Period[x] \in Nat /\ LastClosed(x, f.begun) \in Nat
      BY <1>2, LastClosedIs
    <3>6. f.to <= m
      BY <1>2, <3>2, <3>3, <3>4, <3>5
    <3>7. LastClosed(x, f.begun) <= m
      BY <1>2, <3>2, <3>5, <3>6
    <3> QED BY <3>2, <3>7 DEF UpTo
  <2>2. Advance(f, g, table)
    BY <1>2, <1>8, <2>1, AdvanceNext
  <2>3. Near(g, table)
    BY <1>8 DEF Start, Near
  <2>4. GoodFills'
    BY <1>1, <1>6, <1>7, <2>3 DEF GoodFills
  <2> QED BY <1>1, <1>2, <1>3, <1>5, <2>2, <2>4, FillGood
<1>9. CASE Onward(g, f) /\ g.since = From(x, f.to)
  <2>1. Advance(f, g, table)
    BY <1>2, <1>9, AdvanceOn
  <2>2. g.to = f.to /\ Head(g.todo) = x
    BY <1>2, <1>9 DEF Onward
  <2>3. Near(g, table)
    <3>1. CASE table[x] = {}
      BY <1>9, <2>2, <3>1 DEF Near, From
    <3>2. CASE table[x] # {}
      <4> DEFINE m == Max(table[x])
      <4>1. m \in table[x] /\ m \in Nat /\ g.since = m + Period[x] /\ Period[x] \in Nat
        BY <1>4, <1>9, <3>2, SeriesAssumption DEF From
      <4> HIDE DEF m
      <4>2. g.since <= m + Period[x] /\ m <= g.since + Period[x]
        BY <4>1
      <4>3. Above(table, x, g.since) /\ Below(table, x, g.since)
        BY <4>1, <4>2 DEF Above, Below
      <4> QED BY <2>2, <3>2, <4>3 DEF Near
    <3> QED BY <3>1, <3>2
  <2>4. GoodFills'
    BY <1>1, <1>6, <1>7, <2>3 DEF GoodFills
  <2> QED BY <1>1, <1>2, <1>3, <1>5, <2>1, <2>4, FillGood
<1> QED BY <1>3, <1>8, <1>9

LEMMA FetchGood ==
  ASSUME Basic, Basic', Good, NEW i \in DOMAIN fills, NEW x \in Series, Fetch(i, x)
  PROVE  Good'
<1> DEFINE f == fills[i]
<1>1. UNCHANGED <<clock, socket, wire, jobs, table>>
  BY DEF Fetch, exchange
<1>2. i \in 1 .. Len(fills) /\ f \in FillType /\ f.at = "fetch"
  BY FillHere DEF Fetch
<1>3. PICK g \in FillType :
        /\ FillOK(g, clock) /\ fills' = [fills EXCEPT ![i] = g]
        /\ Onward(g, f) /\ g.since = f.since
  BY FetchIs
<1>4. Whole' /\ Grows(table, table') /\ fills \in Seq(FillType)
  BY <1>1 DEF Good, Whole, Grows, Basic, FillsOK
<1>5. /\ fills'[i] = g /\ Len(fills') = Len(fills)
      /\ \A k \in 1 .. Len(fills) : k # i => fills'[k] = fills[k]
  BY <1>2, <1>3, <1>4
<1>6. Near(g, table)
  <2>1. Near(f, table)
    BY <1>2 DEF Good, GoodFills
  <2> QED BY <1>2, <1>3, <2>1 DEF Near, Onward
<1>7. GoodFills'
  BY <1>1, <1>5, <1>6 DEF Good, GoodFills
<1>8. Advance(f, g, table')
  BY <1>2, <1>3, AdvanceOn
<1> QED BY <1>1, <1>2, <1>3, <1>4, <1>7, <1>8, FillGood

\* A row of a fill is stored without a hole.
LEMMA FillStoreGood ==
  ASSUME Basic, Basic', Good, NEW i \in DOMAIN fills, NEW x \in Series, FillStore(i, x)
  PROVE  Good' /\ Abstract!Unbroken(x, table[x] \cup {fills[i].since})
<1> DEFINE f == fills[i]
           t == f.since
<1>1. UNCHANGED <<clock, socket, wire, jobs>>
  BY DEF FillStore, exchange
<1>2. /\ i \in 1 .. Len(fills) /\ f \in FillType /\ f.todo # <<>> /\ x = Head(f.todo)
      /\ f.to \in Nat /\ f.to \in Candles(x) /\ f.begun \in Nat
      /\ LastClosed(x, f.begun) <= f.to /\ f.to <= clock /\ f.at = "upsert"
  BY FillHere DEF FillStore
<1>3. /\ t \in Candles(x) /\ t <= f.to
      /\ \E g \in FillType :
           /\ FillOK(g, clock) /\ fills' = [fills EXCEPT ![i] = g]
           /\ \/ g = Start(Tail(f.todo), f.begun) /\ t = f.to
              \/ Onward(g, f) /\ g.since = t + Period[x]
  BY FillStoreIs
<1>4. t \in Nat /\ Period[x] \in Nat \ {0}
  BY <1>3, CandleIs, SeriesAssumption
<1>5. table' = [table EXCEPT ![x] = @ \cup {t}]
  BY DEF FillStore
<1>6. /\ table'[x] = table[x] \cup {t}
      /\ \A y \in Series : y # x => table'[y] = table[y]
  <2>1. ClockOK /\ TableOK /\ t <= clock
    BY <1>2, <1>3, <1>4 DEF Basic, ClockOK
  <2> HIDE DEF t
  <2> QED BY <1>1, <1>3, <1>5, <2>1, TableGrows
<1>7. Near(f, table)
  BY <1>2 DEF Good, GoodFills
<1>8. Whole' /\ Grows(table, table') /\ Abstract!Unbroken(x, table[x] \cup {t})
  <2>1. table[x] # {} => Above(table, x, t) /\ Below(table, x, t)
    BY <1>2, <1>7 DEF Near
  <2> HIDE DEF t
  <2> QED BY <1>3, <1>6, <2>1, StoredWhole DEF Good
<1>9. PICK g \in FillType :
        /\ FillOK(g, clock) /\ fills' = [fills EXCEPT ![i] = g]
        /\ \/ g = Start(Tail(f.todo), f.begun) /\ t = f.to
           \/ Onward(g, f) /\ g.since = t + Period[x]
  BY <1>3
<1>10. fills \in Seq(FillType)
  BY DEF Basic, FillsOK
<1>11. /\ fills'[i] = g /\ Len(fills') = Len(fills)
       /\ \A k \in 1 .. Len(fills) : k # i => fills'[k] = fills[k]
  BY <1>2, <1>9, <1>10
<1>12. ASSUME NEW k \in 1 .. Len(fills) PROVE Near(fills[k], table')
  <2>1. fills[k] \in FillType /\ FillOK(fills[k], clock) /\ Near(fills[k], table)
    BY DEF Basic, FillsOK, Good, GoodFills
  <2> DEFINE y == Head(fills[k].todo)
  <2>2. CASE fills[k].at \notin {"fetch", "upsert"}
    BY <2>2 DEF Near
  <2>3. CASE fills[k].at \in {"fetch", "upsert"} /\ (y # x \/ table[x] # {})
    <3>1. y \in Series
      BY <2>1, <2>3, TailSeq DEF FillOK, FillType
    <3> HIDE DEF y
    <3>2. table'[y] = table[y] \/ table[y] # {}
      BY <1>6, <2>3, <3>1
    <3> QED BY <1>8, <2>1, <3>2, NearKept DEF y
  <2>4. CASE fills[k].at \in {"fetch", "upsert"} /\ y = x /\ table[x] = {}
    <3> DEFINE u == fills[k].since
    <3>1. u = Boot(x, fills[k].to) /\ t = Boot(x, f.to)
      BY <1>2, <1>7, <2>1, <2>4 DEF Near
    <3>2. /\ Boot(x, fills[k].to) <= Boot(x, f.to) + Period[x]
          /\ Boot(x, f.to) <= Boot(x, fills[k].to) + Period[x]
      BY <1>2, <2>4, FillsNear
    <3>3. t \in table'[x] /\ table'[x] # {}
      BY <1>6
    <3> HIDE DEF t, u
    <3>4. Above(table', x, u) /\ Below(table', x, u)
      BY <3>1, <3>2, <3>3 DEF Above, Below
    <3> QED BY <2>4, <3>3, <3>4 DEF Near, u
  <2> QED BY <2>2, <2>3, <2>4
<1>13. CASE g = Start(Tail(f.todo), f.begun) /\ t = f.to
  <2>1. UpTo(table', x, LastClosed(x, f.begun))
    BY <1>2, <1>6, <1>13 DEF UpTo
  <2>2. Advance(f, g, table')
    BY <1>2, <1>13, <2>1, AdvanceNext
  <2>3. Near(g, table')
    BY <1>13 DEF Start, Near
  <2>4. GoodFills'
    BY <1>11, <1>12, <2>3 DEF GoodFills
  <2> QED BY <1>1, <1>2, <1>8, <1>9, <2>2, <2>4, FillGood
<1>14. CASE Onward(g, f) /\ g.since = t + Period[x]
  <2>1. Advance(f, g, table')
    BY <1>2, <1>14, AdvanceOn
  <2>2. Head(g.todo) = x
    BY <1>2, <1>14 DEF Onward
  <2>3. t \in table'[x] /\ table'[x] # {}
    BY <1>6
  <2>4. Above(table', x, g.since) /\ Below(table', x, g.since)
    <3> HIDE DEF t
    <3>1. g.since <= t + Period[x] /\ t <= g.since + Period[x]
      BY <1>4, <1>14
    <3> QED BY <2>3, <3>1 DEF Above, Below
  <2>5. Near(g, table')
    BY <2>2, <2>3, <2>4 DEF Near
  <2>6. GoodFills'
    BY <1>11, <1>12, <2>5 DEF GoodFills
  <2> QED BY <1>1, <1>2, <1>8, <1>9, <2>1, <2>6, FillGood
<1> QED BY <1>8, <1>9, <1>13, <1>14

\* A step of a handler leaves the rest as good as it was.
LEMMA JobsGood ==
  ASSUME Basic, Basic', Good, NEW j \in jobs, NEW K, jobs' = (jobs \ {j}) \cup K,
         Grows(table, table'), UNCHANGED <<clock, socket, wire, fills>>,
         \A k \in K : JobGood(k, table', fills, clock),
         j.at \in {"filling", "upsert"} =>
           \/ UpTo(table', j.x, clock)
           \/ \E k \in K : k.x = j.x /\ k.at \in {"filling", "upsert"},
         GoodFills', Whole'
  PROVE  Good'
<1>1. GoodJobs'
  <2>1. ASSUME NEW k \in jobs PROVE JobGood(k, table', fills, clock)
    <3>1. k.x \in Series /\ JobGood(k, table, fills, clock)
      BY DEF Basic, JobsOK, Job, Good, GoodJobs
    <3> QED BY <3>1 DEF JobGood, Owed, Above, Grows
  <2> QED BY <2>1 DEF GoodJobs
<1>2. GoodWire'
  <2>1. ASSUME NEW n \in 1 .. Len(wire) PROVE Owed(Latest(fills), table', wire[n].x, clock)
    <3>1. wire[n].x \in Series
      <4>1. wire \in Seq(Message)
        BY DEF Basic, WireOK
      <4>2. wire[n] \in Message
        BY <4>1
      <4> QED BY <4>2 DEF Message
    <3>2. Owed(Latest(fills), table, wire[n].x, clock)
      BY DEF Good, GoodWire
    <3> QED BY <3>1, <3>2 DEF Owed, Above, Grows
  <2> QED BY <2>1 DEF GoodWire
<1>3. GoodSocket'
  <2>1. ASSUME socket = "open", NEW x \in Series
        PROVE  Caught(x, Latest(fills), table', clock, wire, jobs')
    <3>1. Caught(x, Latest(fills), table, clock, wire, jobs)
      BY <2>1 DEF Good, GoodSocket
    <3>2. CASE UpTo(table, x, LastClosed(x, clock))
      BY <3>2 DEF Caught, UpTo, Grows
    <3>3. CASE Has(Latest(fills), x) /\ LastClosed(x, clock) <= LastClosed(x, Latest(fills).begun)
      BY <3>3 DEF Caught
    <3>4. CASE Due(x, wire, jobs)
      <4>1. CASE Due(x, wire, jobs')
        BY <4>1 DEF Caught
      <4>2. CASE ~Due(x, wire, jobs')
        <5>1. PICK k \in jobs : k.x = x /\ k.at \in {"filling", "upsert"}
          BY <3>4, <4>2 DEF Due
        <5>2. k = j
          BY <4>2, <5>1 DEF Due
        <5>3. UpTo(table', x, clock)
          BY <4>2, <5>1, <5>2 DEF Due
        <5>4. clock \in Nat /\ LastClosed(x, clock) \in Nat /\ LastClosed(x, clock) <= clock
          BY LastClosedIs DEF Basic, ClockOK
        <5> DEFINE v == LastClosed(x, clock)
        <5>5. v \in Nat /\ v <= clock
          BY <5>4
        <5> HIDE DEF v
        <5>6. PICK m \in table'[x] : clock <= m
          BY <5>3 DEF UpTo
        <5>7. m \in Nat
          BY DEF Basic, TableOK
        <5>8. v <= m
          BY <5>4, <5>5, <5>6, <5>7
        <5> QED BY <5>8 DEF Caught, UpTo, v
      <4> QED BY <4>1, <4>2
    <3> QED BY <3>1, <3>2, <3>3, <3>4 DEF Caught
  <2> QED BY <2>1 DEF GoodSocket
<1> QED BY <1>1, <1>2, <1>3 DEF Good

\* What a handler becomes when it goes on.
LEMMA GotoIs ==
  ASSUME Basic, NEW j \in jobs, NEW at \in {"upsert", "lastCandle"}, Goto(j, at)
  PROVE  \E k \in Job : /\ jobs' = (jobs \ {j}) \cup {k}
                        /\ k.x = j.x /\ k.fill = j.fill /\ k.t = clock /\ k.at = at
<1> DEFINE k == [j EXCEPT !.at = at]
<1>1. j \in Job /\ j.t = clock
  BY DEF Basic, JobsOK
<1>2. k \in Job /\ k.x = j.x /\ k.t = clock /\ k.fill = j.fill /\ k.at = at
  BY <1>1 DEF Job
<1>3. jobs' = (jobs \ {j}) \cup {k}
  BY DEF Goto
<1> HIDE DEF k
<1> QED BY <1>2, <1>3

LEMMA FilledGood ==
  ASSUME Basic, Basic', Good, NEW j \in jobs, Filled(j)
  PROVE  Good'
<1>1. UNCHANGED <<clock, socket, wire, fills, table>>
  BY DEF Filled, exchange
<1>2. PICK k \in Job : /\ jobs' = (jobs \ {j}) \cup {k}
                       /\ k.x = j.x /\ k.at = "upsert"
  BY GotoIs DEF Filled
<1>3. Above(table, j.x, clock)
  <2>1. j.at = "filling" /\ fills[j.fill].at = "done" /\ j.fill \in 1 .. Len(fills)
    BY DEF Filled, Basic, JobsOK
  <2>2. fills[j.fill] \in FillType /\ FillOK(fills[j.fill], clock)
    BY <2>1 DEF Basic, FillsOK
  <2>3. ~Has(fills[j.fill], j.x)
    BY <2>1, <2>2, HasTodo DEF FillOK
  <2> QED BY <2>1, <2>3 DEF Good, GoodJobs, JobGood, Owed
<1>4. JobGood(k, table', fills, clock)
  BY <1>1, <1>2, <1>3 DEF JobGood
<1>5. Grows(table, table') /\ GoodFills' /\ Whole'
  BY <1>1 DEF Grows, Good, GoodFills, Whole
<1>6. \A e \in {k} : JobGood(e, table', fills, clock)
  BY <1>4
<1>7. \E e \in {k} : e.x = j.x /\ e.at \in {"filling", "upsert"}
  BY <1>2
<1> QED BY <1>1, <1>2, <1>5, <1>6, <1>7, JobsGood

\* The candle of a handler is stored without a hole.
LEMMA UpsertGood ==
  ASSUME Basic, Basic', Good, NEW j \in jobs, Upsert(j)
  PROVE  Good' /\ Abstract!Unbroken(j.x, table[j.x] \cup {j.t})
<1>1. UNCHANGED <<clock, socket, wire, fills>>
  BY DEF Upsert, exchange
<1>2. PICK k \in Job : /\ jobs' = (jobs \ {j}) \cup {k}
                       /\ k.x = j.x /\ k.at = "lastCandle"
  BY GotoIs DEF Upsert
<1>3. /\ j.x \in Series /\ j.t = clock /\ clock \in Candles(j.x) /\ clock \in Nat /\ clock <= LastTick
      /\ j.at = "upsert" /\ table' = [table EXCEPT ![j.x] = @ \cup {j.t}]
  BY DEF Basic, JobsOK, Job, Upsert, ClockOK
<1> DEFINE x == j.x
<1>4. x \in Series
  BY <1>3
<1>5. /\ table'[x] = table[x] \cup {clock}
      /\ \A y \in Series : y # x => table'[y] = table[y]
  BY <1>3 DEF Basic, TableOK
<1>6. Above(table, x, clock)
  BY <1>3 DEF Good, GoodJobs, JobGood
<1>7. clock \in Candles(x)
  BY <1>3
<1> HIDE DEF x
<1>8. PICK m \in table[x] : clock <= m + Period[x]
  BY <1>6 DEF Above
<1>9. Below(table, x, clock) /\ table[x] # {}
  <2>1. m <= clock /\ m \in Nat /\ Period[x] \in Nat
    BY <1>4, SeriesAssumption DEF Basic, TableOK
  <2>2. m <= clock + Period[x]
    BY <1>3, <2>1
  <2> QED BY <2>2 DEF Below
<1>10. Whole' /\ Grows(table, table') /\ Abstract!Unbroken(x, table[x] \cup {clock})
  BY <1>4, <1>5, <1>6, <1>7, <1>9, StoredWhole DEF Good
<1>11. GoodFills'
  <2>1. ASSUME NEW i \in 1 .. Len(fills) PROVE Near(fills[i], table')
    <3>1. fills[i] \in FillType /\ FillOK(fills[i], clock) /\ Near(fills[i], table)
      BY DEF Basic, FillsOK, Good, GoodFills
    <3>2. CASE fills[i].at \notin {"fetch", "upsert"}
      BY <3>2 DEF Near
    <3>3. CASE fills[i].at \in {"fetch", "upsert"}
      <4> DEFINE y == Head(fills[i].todo)
      <4>1. y \in Series
        BY <3>1, <3>3, TailSeq DEF FillOK, FillType
      <4> HIDE DEF y
      <4>2. table'[y] = table[y] \/ table[y] # {}
        BY <1>5, <1>9, <4>1
      <4> QED BY <1>10, <3>1, <4>2, NearKept DEF y
    <3> QED BY <3>2, <3>3
  <2> QED BY <1>1, <2>1 DEF GoodFills
<1>12. clock \in table'[x]
  BY <1>5
<1>13. \A e \in {k} : JobGood(e, table', fills, clock)
  <2>1. clock \in table'[k.x]
    BY <1>2, <1>12 DEF x
  <2> QED BY <1>2, <2>1 DEF JobGood
<1>14. UpTo(table', j.x, clock)
  <2>1. clock <= clock
    BY <1>3
  <2>2. UpTo(table', x, clock)
    BY <1>12, <2>1 DEF UpTo
  <2> QED BY <2>2 DEF x
<1>15. Good'
  BY <1>1, <1>2, <1>10, <1>11, <1>13, <1>14, JobsGood
<1>16. Abstract!Unbroken(j.x, table[j.x] \cup {j.t})
  BY <1>3, <1>10 DEF x
<1> QED BY <1>15, <1>16

LEMMA StepManagerGood ==
  ASSUME Basic, Basic', Good, NEW j \in jobs, StepManager(j)
  PROVE  Good'
<1>1. UNCHANGED <<clock, socket, wire, fills, table>> /\ j.at = "lastCandle" /\ jobs' = jobs \ {j}
  BY DEF StepManager, exchange
<1> DEFINE K == {}
<1>2. jobs' = (jobs \ {j}) \cup K
  BY <1>1
<1>3. Grows(table, table') /\ GoodFills' /\ Whole'
  BY <1>1 DEF Grows, Good, GoodFills, Whole
<1>4. /\ \A e \in K : JobGood(e, table', fills, clock)
      /\ ~(j.at \in {"filling", "upsert"})
  BY <1>1
<1> HIDE DEF K
<1> QED BY <1>1, <1>2, <1>3, <1>4, JobsGood

\* The message at the head of the wire gets its handler.
LEMMA ReceiveGood ==
  ASSUME Basic, Basic', Good, Receive
  PROVE  Good'
<1> DEFINE j == [x |-> Head(wire).x, t |-> Head(wire).t, at |-> "filling", fill |-> Len(fills)]
<1>1. /\ wire # <<>> /\ jobs' = jobs \cup {j} /\ wire' = Tail(wire)
      /\ UNCHANGED <<clock, socket, table, fills, budget>>
  BY DEF Receive
<1>2. wire \in Seq(Message)
  BY DEF Basic, WireOK
<1>3. /\ Len(wire) \in Nat \ {0} /\ Len(Tail(wire)) = Len(wire) - 1 /\ Head(wire) = wire[1]
      /\ \A n \in 1 .. Len(wire) - 1 : Tail(wire)[n] = wire[n + 1]
  BY <1>1, <1>2, TailSeq
<1>4. j.x = wire[1].x /\ j.at = "filling" /\ j.fill = Len(fills)
  BY <1>3
<1> HIDE DEF j
<1>5. JobGood(j, table, fills, clock)
  <2>1. Owed(Latest(fills), table, wire[1].x, clock)
    BY <1>3 DEF Good, GoodWire
  <2> QED BY <1>4, <2>1 DEF JobGood, Latest
<1>6. GoodJobs'
  <2>1. \A k \in jobs : JobGood(k, table, fills, clock)
    BY DEF Good, GoodJobs
  <2> QED BY <1>1, <1>5, <2>1 DEF GoodJobs
<1>7. GoodWire'
  <2>1. ASSUME NEW n \in 1 .. Len(Tail(wire))
        PROVE  Owed(Latest(fills), table, Tail(wire)[n].x, clock)
    <3>1. n \in 1 .. Len(wire) - 1 /\ n + 1 \in 1 .. Len(wire)
      BY <1>3
    <3>2. Owed(Latest(fills), table, wire[n + 1].x, clock)
      BY <3>1 DEF Good, GoodWire
    <3> QED BY <1>3, <3>1, <3>2
  <2> QED BY <1>1, <2>1 DEF GoodWire
<1>8. GoodSocket'
  <2>1. ASSUME NEW x \in Series, Due(x, wire, jobs) PROVE Due(x, Tail(wire), jobs')
    <3>1. CASE \E k \in jobs : k.x = x /\ k.at \in {"filling", "upsert"}
      BY <1>1, <3>1 DEF Due
    <3>2. CASE \E n \in 1 .. Len(wire) : wire[n].x = x
      <4>1. PICK n \in 1 .. Len(wire) : wire[n].x = x
        BY <3>2
      <4>2. CASE n = 1
        <5>1. j \in jobs' /\ j.x = x /\ j.at \in {"filling", "upsert"}
          BY <1>1, <1>4, <4>1, <4>2
        <5> QED BY <5>1 DEF Due
      <4>3. CASE n # 1
        <5>1. n - 1 \in 1 .. Len(wire) - 1 /\ (n - 1) + 1 = n
          BY <1>3, <4>3
        <5>2. n - 1 \in 1 .. Len(Tail(wire)) /\ Tail(wire)[n - 1].x = x
          BY <1>3, <4>1, <5>1
        <5> QED BY <5>2 DEF Due
      <4> QED BY <4>2, <4>3
    <3> QED BY <2>1, <3>1, <3>2 DEF Due
  <2>2. ASSUME socket = "open", NEW x \in Series
        PROVE  Caught(x, Latest(fills), table, clock, Tail(wire), jobs')
    <3>1. Caught(x, Latest(fills), table, clock, wire, jobs)
      BY <2>2 DEF Good, GoodSocket
    <3> QED BY <2>1, <3>1 DEF Caught
  <2> QED BY <1>1, <2>2 DEF GoodSocket
<1>9. GoodFills' /\ Whole'
  BY <1>1 DEF Good, GoodFills, Whole
<1> QED BY <1>6, <1>7, <1>8, <1>9 DEF Good

\* A connect starts a fill of every series.
LEMMA OpenGood ==
  ASSUME Basic, Basic', Good, Open
  PROVE  Good'
<1>1. /\ socket = "connecting" /\ socket' = "open"
      /\ UNCHANGED <<clock, wire, table, jobs, budget>>
  BY DEF Open
<1> DEFINE g == Start(SetToSeq(Series), clock)
<1>2. /\ fills' \in Seq(FillType) /\ Len(fills') = Len(fills) + 1
      /\ Len(fills) \in Nat /\ fills'[Len(fills) + 1] = g
      /\ \A i \in 1 .. Len(fills) : fills'[i] = fills[i]
  BY OpenIs
<1>3. \A x \in Series : Has(g, x) /\ g.begun = clock
  <2> SUFFICES ASSUME NEW x \in Series PROVE Has(g, x) /\ g.begun = clock
    OBVIOUS
  <2> DEFINE s == SetToSeq(Series)
  <2>1. s \in Seq(Series) /\ \E n \in 1 .. Len(s) : s[n] = x
    BY SeriesAssumption, SetToSeqHasAll
  <2> HIDE DEF s
  <2>2. s # <<>>
    BY <2>1
  <2>3. Start(s, clock).todo = s /\ Start(s, clock).begun = clock
    BY <2>2 DEF Start
  <2> QED BY <2>1, <2>3 DEF Has, s
<1>4. Near(g, table)
  BY DEF Near, Start
<1> HIDE DEF g
<1>5. GoodFills'
  <2>1. ASSUME NEW i \in 1 .. Len(fills') PROVE Near(fills'[i], table)
    <3>1. i \in 1 .. Len(fills) \/ i = Len(fills) + 1
      BY <1>2
    <3> QED BY <1>2, <1>4, <3>1 DEF Good, GoodFills
  <2> QED BY <1>1, <2>1 DEF GoodFills
<1>6. GoodJobs'
  <2>1. ASSUME NEW j \in jobs PROVE JobGood(j, table, fills', clock)
    <3>1. j.fill \in 1 .. Len(fills) /\ JobGood(j, table, fills, clock)
      BY DEF Basic, JobsOK, Good, GoodJobs
    <3>2. fills'[j.fill] = fills[j.fill]
      BY <1>2, <3>1
    <3> QED BY <3>1, <3>2 DEF JobGood
  <2> QED BY <1>1, <2>1 DEF GoodJobs
<1>7. GoodWire'
  <2>1. wire = <<>>
    BY <1>1 DEF Basic, WireOK
  <2>2. Len(wire) = 0
    BY <2>1
  <2> QED BY <1>1, <2>2 DEF GoodWire
<1>8. GoodSocket'
  <2>1. Latest(fills') = g
    BY <1>2 DEF Latest
  <2>2. ASSUME NEW x \in Series PROVE Caught(x, g, table, clock, wire, jobs)
    <3>1. LastClosed(x, clock) \in Nat
      BY LastClosedIs DEF Basic, ClockOK
    <3>2. LastClosed(x, clock) <= LastClosed(x, g.begun)
      BY <1>3, <3>1
    <3> QED BY <1>3, <3>2 DEF Caught
  <2> QED BY <1>1, <2>1, <2>2 DEF GoodSocket
<1>9. Whole'
  BY <1>1 DEF Good, Whole
<1> QED BY <1>5, <1>6, <1>7, <1>8, <1>9 DEF Good

\* What is on the wire of a broken connection is gone; the next connect fills.
LEMMA SocketGood ==
  ASSUME Basic, Basic', Good, Connect \/ Drop \/ Hang \/ Silence \/ Restart
  PROVE  Good'
<1>1. UNCHANGED <<clock, table>> /\ socket' # "open"
  BY DEF Connect, Drop, Hang, Silence, Restart
<1>2. GoodSocket' /\ Whole'
  BY <1>1 DEF GoodSocket, Good, Whole
<1>3. wire' = <<>>
  BY <1>1 DEF Basic, WireOK
<1>4. GoodWire'
  <2>1. Len(wire') = 0
    BY <1>3
  <2> QED BY <2>1 DEF GoodWire
<1>5. CASE Restart
  <2>1. fills' = <<>> /\ jobs' = {}
    BY <1>5 DEF Restart
  <2>2. Len(fills') = 0
    BY <2>1
  <2>3. GoodFills' /\ GoodJobs'
    BY <2>1, <2>2 DEF GoodFills, GoodJobs
  <2> QED BY <1>2, <1>4, <2>3 DEF Good
<1>6. CASE ~Restart
  <2>1. UNCHANGED <<fills, jobs>>
    BY <1>6 DEF Connect, Drop, Hang, Silence
  <2>2. GoodFills' /\ GoodJobs'
    BY <1>1, <2>1 DEF Good, GoodFills, GoodJobs
  <2> QED BY <1>2, <1>4, <2>2 DEF Good
<1> QED BY <1>5, <1>6

\* A candle that closes while the socket is open is sent, and the one before
\* it is stored or about to be filled.
LEMMA TickGood ==
  ASSUME Basic, Basic', Good, Tick
  PROVE  Good'
<1> DEFINE c == clock'
<1>1. /\ c = clock + 1 /\ clock \in Nat /\ c \in Nat
      /\ socket # "open" => wire' = <<>>
      /\ wire' \in Seq(Message)
      /\ \A n \in 1 .. Len(wire') : c \in Candles(wire'[n].x)
      /\ socket = "open" => \A x \in Series : c % Period[x] = 0 =>
           \E n \in 1 .. Len(wire') : wire'[n].x = x
  BY TickIs DEF Basic, ClockOK
<1>2. wire = <<>> /\ jobs = {} /\ UNCHANGED <<socket, table, fills, jobs, budget>>
  BY DEF Tick
<1> DEFINE f == Latest(fills)
<1>3. ASSUME socket = "open", NEW x \in Series
      PROVE  \/ UpTo(table, x, LastClosed(x, clock))
             \/ Has(f, x) /\ LastClosed(x, clock) <= LastClosed(x, f.begun)
  <2>1. Caught(x, f, table, clock, wire, jobs)
    BY <1>3 DEF Good, GoodSocket
  <2>2. ~Due(x, wire, jobs)
    <3>1. Len(wire) = 0
      BY <1>2
    <3> QED BY <1>2, <3>1 DEF Due
  <2> QED BY <2>1, <2>2 DEF Caught
<1> HIDE DEF f
<1>4. ASSUME NEW x \in Series
      PROVE  LastClosed(x, c) = IF c % Period[x] = 0 THEN c ELSE LastClosed(x, clock)
  BY <1>1, NextClosed
<1>5. GoodFills' /\ GoodJobs' /\ Whole'
  BY <1>2 DEF Good, GoodFills, GoodJobs, Whole
<1>6. GoodWire'
  <2>1. ASSUME NEW n \in 1 .. Len(wire') PROVE Owed(f, table, wire'[n].x, c)
    <3> DEFINE x == wire'[n].x
    <3>1. wire'[n] \in Message
      BY <1>1
    <3>2. x \in Series
      BY <3>1 DEF Message
    <3>3. c % Period[x] = 0
      BY <1>1, <3>2, CandleIs DEF Multiple
    <3>4. socket = "open"
      <4> SUFFICES ASSUME socket # "open" PROVE FALSE
        OBVIOUS
      <4>1. Len(wire') = 0
        BY <1>1
      <4> QED BY <4>1
    <3> HIDE DEF x
    <3>5. CASE Has(f, x)
      BY <3>5 DEF Owed, x
    <3>6. CASE UpTo(table, x, LastClosed(x, clock))
      <4>1. PICK m \in table[x] : LastClosed(x, clock) <= m
        BY <3>6 DEF UpTo
      <4> DEFINE v == LastClosed(x, clock)
      <4>2. v \in Nat /\ clock < v + Period[x] /\ Period[x] \in Nat /\ v <= m
        BY <1>1, <3>2, <4>1, LastClosedIs
      <4>3. m \in Nat
        BY <3>2 DEF Basic, TableOK
      <4> HIDE DEF v
      <4>4. c <= m + Period[x]
        BY <1>1, <4>2, <4>3
      <4>5. Above(table, x, c)
        BY <4>4 DEF Above
      <4> QED BY <4>5 DEF Owed, x
    <3> QED BY <1>3, <3>2, <3>4, <3>5, <3>6
  <2> QED BY <1>2, <2>1 DEF GoodWire, f
<1>7. GoodSocket'
  <2>1. ASSUME socket = "open", NEW x \in Series
        PROVE  Caught(x, f, table, c, wire', jobs)
    <3>1. CASE c % Period[x] = 0
      BY <1>1, <2>1, <3>1 DEF Caught, Due
    <3>2. CASE c % Period[x] # 0
      <4>1. LastClosed(x, c) = LastClosed(x, clock)
        BY <1>4, <3>2
      <4> QED BY <1>3, <2>1, <4>1 DEF Caught
    <3> QED BY <3>1, <3>2
  <2> QED BY <1>2, <2>1 DEF GoodSocket, f
<1> QED BY <1>5, <1>6, <1>7 DEF Good

-----------------------------------------------------------------------------
(* Together                                                                 *)

LEMMA InitGood == Init => Good
<1> SUFFICES ASSUME Init PROVE Good
  OBVIOUS
<1>1. /\ table \in [Series -> {{}, {0}}] /\ socket = "connecting" /\ wire = <<>> /\ fills = <<>> /\ jobs = {}
  BY DEF Init
<1>2. Len(wire) = 0 /\ Len(fills) = 0
  BY <1>1
<1>3. Whole
  <2> SUFFICES ASSUME NEW x \in Series, table[x] # {} PROVE Abstract!Unbroken(x, table[x])
    BY DEF Whole
  <2>1. table[x] = {0}
    BY <1>1
  <2>2. 0 \in Candles(x)
    BY <2>1, InitBasic DEF Basic, TableOK
  <2> QED BY <2>1, <2>2, FirstCandle
<1> QED BY <1>1, <1>2, <1>3 DEF Good, GoodFills, GoodJobs, GoodWire, GoodSocket

\* What a step costs: only a failing call takes from the faults.
LEMMA Faults ==
  ASSUME Basic, [Next]_vars
  PROVE  \/ Failure /\ budget'.faults < Bounds.faults
         \/ ~Failure /\ budget'.faults = budget.faults
<1>1. budget \in [{"drops", "faults", "crashes"} -> Nat] /\ budget.faults <= Bounds.faults
      /\ Bounds.faults \in Nat
  BY BoundAssumption DEF Basic, BudgetOK
<1>2. CASE Failure
  <2>1. budget.faults > 0 /\ budget' = [budget EXCEPT !.faults = budget.faults - 1]
    BY <1>2 DEF Failure, FillFails, JobFails
  <2> QED BY <1>1, <1>2, <2>1
<1>3. CASE FillStep \/ JobStep \/ Receive \/ Connect \/ Open \/ Silence \/ Tick \/ UNCHANGED vars
  <2>1. budget' = budget
    BY <1>3 DEF FillStep, JobStep, ReadLast, Fetch, FillStore, Filled, Upsert, StepManager,
                Receive, Connect, Open, Silence, Tick, vars
  <2>2. ~Failure
    BY <1>1, <1>2, <2>1 DEF Failure, FillFails, JobFails
  <2> QED BY <2>1, <2>2
<1>4. CASE Drop \/ Hang \/ Restart
  <2>1. \/ budget' = [budget EXCEPT !.drops = budget.drops - 1]
        \/ budget' = [budget EXCEPT !.crashes = budget.crashes - 1]
    BY <1>4 DEF Drop, Hang, Restart
  <2>2. budget'.faults = budget.faults
    BY <1>1, <2>1
  <2>3. ~Failure
    <3> SUFFICES ASSUME Failure PROVE FALSE
      OBVIOUS
    <3>1. budget.faults > 0 /\ budget' = [budget EXCEPT !.faults = budget.faults - 1]
      BY DEF Failure, FillFails, JobFails
    <3>2. budget'.faults = budget.faults - 1
      BY <1>1, <3>1
    <3> QED BY <1>1, <2>2, <3>2
  <2> QED BY <2>2, <2>3
<1> QED BY <1>2, <1>3, <1>4 DEF Next

LEMMA NextInv == Inv /\ [Next]_vars => Inv'
<1> SUFFICES ASSUME Inv, [Next]_vars PROVE Inv'
  OBVIOUS
<1>1. Basic /\ Basic'
  BY NextBasic DEF Inv
<1> SUFFICES ASSUME Unfailed' PROVE Good'
  BY <1>1 DEF Inv
<1>2. ~Failure /\ Unfailed
  <2>1. Bounds.faults \in Nat /\ budget'.faults = Bounds.faults
    BY BoundAssumption DEF Unfailed
  <2> QED BY <1>1, <2>1, Faults DEF Unfailed
<1>3. Good
  BY <1>2 DEF Inv
<1>4. CASE FillStep
  BY <1>1, <1>3, <1>4, ReadLastGood, FetchGood, FillStoreGood DEF FillStep
<1>5. CASE JobStep
  BY <1>1, <1>3, <1>5, FilledGood, UpsertGood, StepManagerGood DEF JobStep
<1>6. CASE Connect \/ Drop \/ Hang \/ Silence \/ Restart
  BY <1>1, <1>3, <1>6, SocketGood
<1>7. CASE Receive
  BY <1>1, <1>3, <1>7, ReceiveGood
<1>8. CASE Open
  BY <1>1, <1>3, <1>8, OpenGood
<1>9. CASE Tick
  BY <1>1, <1>3, <1>9, TickGood
<1>10. CASE UNCHANGED vars
  BY <1>3, <1>10 DEF vars, Good, GoodFills, GoodJobs, GoodWire, GoodSocket, Whole
<1> QED BY <1>2, <1>4, <1>5, <1>6, <1>7, <1>8, <1>9, <1>10 DEF Next

LEMMA InitInv == Init => Inv
BY InitBasic, InitGood DEF Inv

THEOREM Invariance == Spec => []Inv
BY InitInv, NextInv, PTL DEF Spec

\* As long as no call has failed, a candle that steps the position manager
\* finds every candle between the first one stored and itself, under any
\* interleaving of fills, handlers, reconnects and restarts.
THEOREM StepIsComplete == Spec => []StepSeesAll
<1>1. Inv => StepSeesAll
  <2> SUFFICES ASSUME Inv, Unfailed, NEW j \in jobs, j.at = "lastCandle",
                      NEW t \in Candles(j.x), Min(table[j.x]) <= t, t <= j.t
               PROVE  t \in table[j.x]
    BY DEF StepSeesAll, Candles
  <2> DEFINE x == j.x
             s == table[x]
  <2>1. x \in Series /\ j.t = clock /\ clock \in Nat
    BY DEF Inv, Basic, JobsOK, Job, ClockOK
  <2>2. clock \in s
    BY DEF Inv, Good, GoodJobs, JobGood
  <2>3. Abstract!Unbroken(x, s)
    BY <2>1, <2>2 DEF Inv, Good, Whole
  <2>4. t \in Nat
    BY <2>1, CandleIs
  <2> HIDE DEF x, s
  <2>5. s \in SUBSET Candles(x) /\ s # {}
    BY <2>1, <2>2, <2>3, UnbrokenIs
  <2>6. Max(s) \in Nat /\ clock <= Max(s)
    BY <2>1, <2>2, <2>5, FirstAndLast
  <2>7. t \in Candles(x) /\ Min(s) <= t /\ t <= clock
    BY <2>1 DEF x, s
  <2>8. t <= Max(s)
    BY <2>1, <2>4, <2>6, <2>7
  <2>9. t \in s
    BY <2>1, <2>3, <2>7, <2>8, UnbrokenIs
  <2> QED BY <2>9 DEF x, s
<1> QED BY <1>1, Invariance, PTL

\* A fill's row is a store of the table.
LEMMA FillStores ==
  ASSUME Inv, Inv', NEW i \in DOMAIN fills, NEW x \in Series, FillStore(i, x)
  PROVE  \E t \in Abstract!Candles(x) : Abstract!Store(x, t)
<1> DEFINE t == fills[i].since
<1>1. t \in Candles(x) /\ t <= fills[i].to /\ fills[i].to <= clock /\ fills[i].to \in Nat
  BY FillStoreIs, FillHere DEF FillStore, Inv
<1>2. t <= clock
  BY <1>1, CandleIs DEF Inv, Basic, ClockOK
<1>3. budget.faults < Bounds.faults \/ Abstract!Unbroken(x, table[x] \cup {t})
  <2>1. CASE Unfailed
    BY <2>1, FillStoreGood DEF Inv
  <2>2. CASE ~Unfailed
    BY <2>2, BoundAssumption DEF Unfailed, Inv, Basic, BudgetOK
  <2> QED BY <2>1, <2>2
<1>4. table' = [table EXCEPT ![x] = @ \cup {t}] /\ UNCHANGED <<clock, budget>>
  BY DEF FillStore, exchange
<1> HIDE DEF t
<1>5. Abstract!Store(x, t)
  BY <1>2, <1>3, <1>4 DEF Abstract!Store
<1> QED BY <1>1, <1>5 DEF Candles

\* So is a handler's candle.
LEMMA UpsertStores ==
  ASSUME Inv, Inv', NEW j \in jobs, Upsert(j)
  PROVE  \E x \in Series : \E t \in Abstract!Candles(x) : Abstract!Store(x, t)
<1> DEFINE x == j.x
           t == j.t
<1>1. x \in Series /\ t \in Candles(x) /\ t <= clock
  BY DEF Inv, Basic, JobsOK, Job, ClockOK
<1>2. budget.faults < Bounds.faults \/ Abstract!Unbroken(x, table[x] \cup {t})
  <2>1. CASE Unfailed
    BY <2>1, UpsertGood DEF Inv
  <2>2. CASE ~Unfailed
    BY <2>2, BoundAssumption DEF Unfailed, Inv, Basic, BudgetOK
  <2> QED BY <2>1, <2>2
<1>3. table' = [table EXCEPT ![x] = @ \cup {t}] /\ UNCHANGED <<clock, budget>>
  BY DEF Upsert, exchange
<1> HIDE DEF x, t
<1>4. Abstract!Store(x, t)
  BY <1>1, <1>2, <1>3 DEF Abstract!Store
<1> QED BY <1>1, <1>4 DEF Candles

\* The feed implements CandleTable: every write is a store that leaves no
\* hole, unless a call has failed, and no step takes a candle away.
THEOREM FeedKeepsTable == Spec => KeepsTable
<1>1. Init => Abstract!TableInit
  <2> SUFFICES ASSUME Init PROVE Abstract!TableInit
    OBVIOUS
  <2>1. budget.faults = Bounds.faults /\ Bounds.faults \in Nat
    BY BoundAssumption DEF Init
  <2>2. (budget.faults < Bounds.faults) = FALSE
    BY <2>1
  <2>3. clock = 0 /\ table \in [Series -> {{}, {0}}]
    BY DEF Init
  <2> QED BY <2>2, <2>3 DEF Abstract!TableInit
<1>2. Inv /\ Inv' /\ [Next]_vars => [Abstract!TableNext]_(Abstract!tableVars)
  <2> SUFFICES ASSUME Inv, Inv', [Next]_vars
               PROVE  Abstract!TableNext \/ UNCHANGED Abstract!tableVars
    OBVIOUS
  <2>1. CASE Failure
    <3>1. UNCHANGED <<clock, table>>
      BY <2>1 DEF Failure, FillFails, JobFails, exchange
    <3>2. budget'.faults < Bounds.faults
      BY <2>1, Faults DEF Inv
    <3>3. (budget.faults < Bounds.faults)' = TRUE
      BY <3>2
    <3>4. Abstract!Fail
      BY <3>1, <3>3 DEF Abstract!Fail
    <3> QED BY <3>4 DEF Abstract!TableNext
  <2>2. CASE ~Failure
    <3>1. budget'.faults = budget.faults
      BY <2>2, Faults DEF Inv
    <3>2. (budget.faults < Bounds.faults)' = (budget.faults < Bounds.faults)
      BY <3>1
    <3>3. CASE UNCHANGED <<clock, table>>
      BY <3>2, <3>3 DEF Abstract!tableVars
    <3>4. CASE Tick
      <4>1. Abstract!Tick
        BY <3>2, <3>4 DEF Tick, Abstract!Tick
      <4> QED BY <4>1 DEF Abstract!TableNext
    <3>5. CASE \E i \in DOMAIN fills, x \in Series : FillStore(i, x)
      <4>1. \E x \in Series : \E t \in Abstract!Candles(x) : Abstract!Store(x, t)
        BY <3>5, FillStores
      <4> QED BY <4>1 DEF Abstract!TableNext
    <3>6. CASE \E j \in jobs : Upsert(j)
      BY <3>6, UpsertStores DEF Abstract!TableNext
    <3>7. \/ UNCHANGED <<clock, table>>
          \/ Tick
          \/ \E i \in DOMAIN fills, x \in Series : FillStore(i, x)
          \/ \E j \in jobs : Upsert(j)
      BY <2>2 DEF Next, FillStep, JobStep, ReadLast, Fetch, Filled, StepManager, Receive,
                  Connect, Open, Drop, Hang, Silence, Restart, exchange, vars
    <3> QED BY <3>3, <3>4, <3>5, <3>6, <3>7
  <2> QED BY <2>1, <2>2
<1> QED BY <1>1, <1>2, Invariance, PTL DEF Spec, KeepsTable, Abstract!TableSpec
=============================================================================
