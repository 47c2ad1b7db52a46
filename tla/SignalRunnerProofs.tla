-------------------------- MODULE SignalRunnerProofs --------------------------
(***************************************************************************)
(* What the live signal runner promises for any number of instances and    *)
(* series, any errors and kills:  its state keeps its types, and a signal  *)
(* is published at most once, after it was journalled, and is lost only    *)
(* to an error or a kill.                                                  *)
(***************************************************************************)
EXTENDS SignalRunner, Sums

-----------------------------------------------------------------------------
(* Least and greatest elements *)

LEMMA GreatestIn ==
  ASSUME NEW S, IsFiniteSet(S), S # {}, \A x \in S : x \in Int
  PROVE  Max(S) \in S
<1> DEFINE Good == {T \in SUBSET S : T = {} \/ \E x \in T : \A y \in T : y <= x}
<1>1. {} \in Good
  OBVIOUS
<1>2. ASSUME NEW T \in SUBSET S, NEW x \in S \ T, T \in Good PROVE T \cup {x} \in Good
  <2>1. CASE T = {}
    BY <2>1
  <2>2. CASE T # {}
    <3>1. PICK m \in T : \A y \in T : y <= m
      BY <1>2, <2>2
    <3>2. m \in Int /\ x \in Int /\ \A y \in T : y \in Int
      BY <3>1
    <3>3. CASE x <= m
      BY <3>1, <3>2, <3>3
    <3>4. CASE ~(x <= m)
      BY <3>1, <3>2, <3>4
    <3>5. QED
      BY <3>3, <3>4
  <2>3. QED
    BY <2>1, <2>2
<1>3. S \in Good
  <2> HIDE DEF Good
  <2>1. QED
    BY <1>1, <1>2, ElementInduction
<1>4. \E x \in S : \A y \in S : y <= x
  BY <1>3
<1>5. QED
  BY <1>4 DEF Max

LEMMA LeastIn ==
  ASSUME NEW S, IsFiniteSet(S), S # {}, \A x \in S : x \in Int
  PROVE  Min(S) \in S
<1> DEFINE Good == {T \in SUBSET S : T = {} \/ \E x \in T : \A y \in T : x <= y}
<1>1. {} \in Good
  OBVIOUS
<1>2. ASSUME NEW T \in SUBSET S, NEW x \in S \ T, T \in Good PROVE T \cup {x} \in Good
  <2>1. CASE T = {}
    BY <2>1
  <2>2. CASE T # {}
    <3>1. PICK m \in T : \A y \in T : m <= y
      BY <1>2, <2>2
    <3>2. m \in Int /\ x \in Int /\ \A y \in T : y \in Int
      BY <3>1
    <3>3. CASE m <= x
      BY <3>1, <3>2, <3>3
    <3>4. CASE ~(m <= x)
      BY <3>1, <3>2, <3>4
    <3>5. QED
      BY <3>3, <3>4
  <2>3. QED
    BY <2>1, <2>2
<1>3. S \in Good
  <2> HIDE DEF Good
  <2>1. QED
    BY <1>1, <1>2, ElementInduction
<1>4. \E x \in S : \A y \in S : x <= y
  BY <1>3
<1>5. QED
  BY <1>4 DEF Min

-----------------------------------------------------------------------------
(* The order of the instances, the next close *)

LEMMA OrderIs == Order \in Seq(Instances) /\ Order # <<>>
<1> DEFINE n == Cardinality(Instances)
<1>1. n \in Nat /\ ExistsBijection(1 .. n, Instances)
  <2>1. PICK m \in Nat : ExistsBijection(1 .. m, Instances)
    BY SomeInstance, FS_NatBijection
  <2>2. m = n
    BY <2>1, FS_CountingElements
  <2>3. QED
    BY <2>1, <2>2
<1>2. \E f \in [1 .. n -> Instances] : IsInjective(f)
  BY <1>1 DEF ExistsBijection, Bijection, Injection
<1>3. Order \in [1 .. n -> Instances]
  BY <1>2 DEF Order, SetToSeq
<1>4. n # 0
  <2>1. SUFFICES ASSUME n = 0 PROVE FALSE
    OBVIOUS
  <2>2. PICK f \in Bijection(1 .. n, Instances) : TRUE
    BY <1>1 DEF ExistsBijection
  <2>3. \A i \in Instances : \E k \in 1 .. n : f[k] = i
    BY <2>2 DEF Bijection, Surjection
  <2>4. QED
    BY <2>1, <2>3, SomeInstance
<1> HIDE DEF n
<1>5. Order \in Seq(Instances)
  BY <1>1, <1>3
<1>6. Len(Order) = n
  BY <1>1, <1>3, <1>5
<1>7. QED
  BY <1>1, <1>4, <1>5, <1>6

LEMMA FastestIs == Fastest \in Nat \ {0}
<1> DEFINE g == [i \in Instances |-> Period[EntryTf[i]]]
           S == {Period[EntryTf[i]] : i \in Instances}
<1>1. \A i \in Instances : Period[EntryTf[i]] \in Nat \ {0}
  BY InstanceAssumption, SeriesAssumption
<1>2. IsFiniteSet(S)
  <2> DEFINE Good == {T \in SUBSET Instances : IsFiniteSet({Period[EntryTf[i]] : i \in T})}
  <2>1. {} \in Good
    <3>1. {Period[EntryTf[i]] : i \in {}} = {}
      OBVIOUS
    <3>2. QED
      BY <3>1, FS_EmptySet
  <2>2. ASSUME NEW T \in SUBSET Instances, NEW x \in Instances \ T, T \in Good PROVE T \cup {x} \in Good
    <3>1. {Period[EntryTf[i]] : i \in T \cup {x}} = {Period[EntryTf[i]] : i \in T} \cup {Period[EntryTf[x]]}
      OBVIOUS
    <3>2. IsFiniteSet({Period[EntryTf[i]] : i \in T} \cup {Period[EntryTf[x]]})
      BY <2>2, FS_AddElement
    <3>3. QED
      BY <3>1, <3>2
  <2>3. Instances \in Good
    <3> HIDE DEF Good
    <3>1. QED
      BY <2>1, <2>2, SomeInstance, ElementInduction
  <2>4. QED
    BY <2>3
<1>3. S # {} /\ \A x \in S : x \in Nat \ {0}
  BY <1>1, SomeInstance
<1>4. Min(S) \in S
  <2> HIDE DEF S
  <2>1. QED
    BY <1>2, <1>3, LeastIn
<1>5. QED
  BY <1>3, <1>4 DEF Fastest

LEMMA NextCloseIs == ASSUME clock \in Nat PROVE NextClose \in Nat
<1> DEFINE f == Fastest
           q == clock \div f
<1>1. f \in Nat \ {0}
  BY FastestIs
<1>2. q \in Nat
  <2> HIDE DEF f
  <2>1. QED
    BY <1>1
<1> HIDE DEF f, q
<1>3. (q + 1) * f \in Nat
  BY <1>1, <1>2
<1>4. QED
  BY <1>3 DEF NextClose, f, q

-----------------------------------------------------------------------------
(* The invariant *)

Places   == {"load", "write", "publish", "sleep", "poll", "dead"}
Working  == {"load", "write", "publish"}
RunType  == [at : Places, loop : {"outer", "poll"}, todo : Seq(Instances), evs : BOOLEAN, wake : Nat]
Feed     == clock \in 0 .. LastTick /\ table \in [Series -> SUBSET Times]

\* Where a run is, with what there is to do.
Proper(r) == r \in RunType /\ (r.at \in Working => r.todo # <<>>)

\* The signal in the hands of a run.
SigOf(r, f) == <<Head(r.todo), f[Head(r.todo)]>>

Seen(f, tab) == /\ f \in [Instances -> Times \cup {Never}]
                /\ \A i \in Instances : f[i] \in tab[EntryTf[i]] \cup {Never}

Known == journal \subseteq Signals /\ stream \in [Signals -> Nat] /\ signals \subseteq Signals

Budgeted == budget \in [{"errors", "kills"} -> Nat] /\ budget.errors <= Bounds.errors /\ budget.kills <= Bounds.kills

\* A run that writes or publishes has a candle in its hands, and what it is about to
\* publish is journalled and not published.
InHand == /\ run.at \in {"write", "publish"} => SigOf(run, seen) \in Signals
          /\ run.at = "publish" => SigOf(run, seen) \in journal /\ stream[SigOf(run, seen)] = 0

Once == \A s \in Signals : stream[s] <= 1 /\ (stream[s] = 1 => s \in journal)

\* As long as nothing went wrong, a signal found is published or in the run's hands,
\* and so is what was journalled.
Safe(s) ==
  stream[s] # 1 =>
    /\ s \in signals => run.at \in {"write", "publish"} /\ s = SigOf(run, seen)
    /\ s \in journal => run.at = "publish" /\ s = SigOf(run, seen)

Inv ==
  /\ Feed /\ Proper(run) /\ Seen(seen, table) /\ Known /\ Budgeted
  /\ InHand /\ Once
  /\ budget = Bounds => \A s \in Signals : Safe(s)

-----------------------------------------------------------------------------
(* Facts about runs *)

LEMMA PassIs ==
  ASSUME NEW l \in {"outer", "poll"}
  PROVE  Proper(Pass(l)) /\ Pass(l).at = "load"
  BY OrderIs DEF Pass, Proper, RunType, Places, Working

LEMMA IdleIs ==
  ASSUME Feed
  PROVE  /\ Proper(Sleep) /\ Proper(Dead) /\ Proper(Polling)
         /\ Sleep.at = "sleep" /\ Dead.at = "dead" /\ Polling.at = "poll"
<1>1. clock \in Nat
  BY TickAssumption DEF Feed
<1>2. NextClose \in Nat /\ <<>> \in Seq(Instances)
  BY <1>1, NextCloseIs
<1>3. QED
  BY <1>2 DEF Sleep, Dead, Polling, Proper, RunType, Places, Working

LEMMA RunIs ==
  ASSUME NEW r \in RunType
  PROVE  /\ r = [at |-> r.at, loop |-> r.loop, todo |-> r.todo, evs |-> r.evs, wake |-> r.wake]
         /\ r.at \in Places /\ r.loop \in {"outer", "poll"} /\ r.todo \in Seq(Instances)
         /\ r.evs \in BOOLEAN /\ r.wake \in Nat
  BY DEF RunType

LEMMA OnwardIs ==
  ASSUME Feed, Proper(run), NEW e \in BOOLEAN, Onward(e)
  PROVE  Proper(run') /\ run'.at \in {"load", "sleep", "poll"}
<1>1. CASE Len(run.todo) > 1
  <2>1. run' = [run EXCEPT !.at = "load", !.todo = Tail(@), !.evs = e]
    BY <1>1 DEF Onward
  <2>2. PICK a, l, t, v, w : run = [at |-> a, loop |-> l, todo |-> t, evs |-> v, wake |-> w]
    <3>1. run = [at |-> run.at, loop |-> run.loop, todo |-> run.todo, evs |-> run.evs, wake |-> run.wake]
      BY RunIs DEF Proper
    <3>2. QED
      BY <3>1
  <2>3. l \in {"outer", "poll"} /\ t \in Seq(Instances) /\ w \in Nat /\ t = run.todo
    BY <2>2, RunIs DEF Proper
  <2>4. run' = [at |-> "load", loop |-> l, todo |-> Tail(t), evs |-> e, wake |-> w]
    BY <2>1, <2>2
  <2>5. Tail(t) \in Seq(Instances) /\ Tail(t) # <<>>
    <3>1. Len(t) > 1 /\ t \in Seq(Instances)
      BY <1>1, <2>3
    <3>2. t # <<>>
      BY <3>1
    <3>3. Tail(t) \in Seq(Instances)
      BY <3>1, <3>2
    <3>4. Tail(t) # <<>>
      <4>1. 1 \in DOMAIN Tail(t)
        BY <3>1, <3>2
      <4>2. 1 \notin DOMAIN <<>>
        OBVIOUS
      <4>3. QED
        BY <4>1, <4>2, Zenon
    <3>5. QED
      BY <3>3, <3>4
  <2>6. QED
    BY <2>3, <2>4, <2>5 DEF Proper, RunType, Places, Working
<1>2. CASE ~(Len(run.todo) > 1)
  <2>1. run' \in {Sleep, Pass("outer"), Polling}
    BY <1>2 DEF Onward
  <2>2. Proper(Pass("outer")) /\ Pass("outer").at = "load"
    BY PassIs
  <2>3. QED
    BY <2>1, <2>2, IdleIs
<1>3. QED
  BY <1>1, <1>2

\* A handler goes to a stage of the same instance.
LEMMA StageIs ==
  ASSUME Proper(run), run.todo # <<>>, NEW a \in Working, NEW r,
         r = [run EXCEPT !.at = a] \/ r = [run EXCEPT !.at = a, !.evs = TRUE]
  PROVE  Proper(r) /\ r.at = a /\ r.todo = run.todo
<1>1. PICK b, l, t, v, w : run = [at |-> b, loop |-> l, todo |-> t, evs |-> v, wake |-> w]
  <2>1. run = [at |-> run.at, loop |-> run.loop, todo |-> run.todo, evs |-> run.evs, wake |-> run.wake]
    BY RunIs DEF Proper
  <2>2. QED
    BY <2>1
<1>2. l \in {"outer", "poll"} /\ t \in Seq(Instances) /\ v \in BOOLEAN /\ w \in Nat /\ t = run.todo
  BY <1>1, RunIs DEF Proper
<1>3. \/ r = [at |-> a, loop |-> l, todo |-> t, evs |-> v, wake |-> w]
      \/ r = [at |-> a, loop |-> l, todo |-> t, evs |-> TRUE, wake |-> w]
  BY <1>1
<1>4. a \in Places
  BY DEF Working, Places
<1>5. QED
  BY <1>2, <1>3, <1>4 DEF Proper, RunType

LEMMA HeadIs ==
  ASSUME Proper(run), run.todo # <<>>
  PROVE  Head(run.todo) \in Instances
  BY RunIs DEF Proper

LEMMA NewestIs ==
  ASSUME Feed, NEW i \in Instances, Loaded(i)
  PROVE  Newest(i) \in table[EntryTf[i]] /\ Newest(i) \in Times
<1> DEFINE S == table[EntryTf[i]]
<1>1. EntryTf[i] \in Series
  BY InstanceAssumption
<1>2. S \subseteq Times /\ S # {}
  BY <1>1 DEF Feed, Loaded
<1>3. IsFiniteSet(Times)
  BY TickAssumption, FS_Interval DEF Times
<1>4. IsFiniteSet(S) /\ \A x \in S : x \in Int
  BY <1>2, <1>3, FS_Subset, TickAssumption DEF Times
<1>5. Max(S) \in S
  <2> HIDE DEF S
  <2>1. QED
    BY <1>2, <1>4, GreatestIn
<1>6. QED
  BY <1>2, <1>5 DEF Newest

LEMMA IdIs == ASSUME NEW s \in Signals PROVE s = <<s[1], s[2]>> /\ SignalId(s[1], s[2]) = s
  BY DEF Signals, SignalId

LEMMA SigIs == Sig = SigOf(run, seen) /\ Id = SigOf(run, seen)
  BY DEF Sig, Id, SigOf, SeenKey, SignalId

-----------------------------------------------------------------------------
(* The steps *)

LEMMA EvaluateInv == ASSUME Inv, Evaluate PROVE Inv'
<1> DEFINE i == Head(run.todo)
           s == <<i, Newest(i)>>
<1>1. /\ run.at = "load" /\ i \in Instances /\ Feed /\ Proper(run) /\ run.todo # <<>>
      /\ UNCHANGED <<tableVars, journal, stream, budget>>
  BY HeadIs DEF Evaluate, Inv, Proper, Working
<1>2. Feed' /\ Budgeted' /\ Once'
  <2>1. clock' = clock /\ table' = table /\ journal' = journal /\ stream' = stream /\ budget' = budget
    BY <1>1 DEF tableVars
  <2>2. QED
    BY <2>1 DEF Inv, Feed, Budgeted, Once
<1>3. \A u \in Signals : budget = Bounds /\ stream[u] # 1 => u \notin signals /\ u \notin journal
  BY <1>1 DEF Inv, Safe
<1>4. CASE ~Fresh(i)
  <2>1. Onward(run.evs) /\ UNCHANGED <<seen, evaluated, signals>>
    BY <1>4 DEF Evaluate
  <2>2. run.evs \in BOOLEAN
    BY <1>1, RunIs DEF Proper
  <2>3. Proper(run') /\ run'.at \in {"load", "sleep", "poll"}
    BY <1>1, <2>1, <2>2, OnwardIs
  <2>4. Seen(seen, table)' /\ Known'
    BY <1>1, <2>1 DEF Inv, Seen, Known, tableVars
  <2>5. budget' = Bounds => \A u \in Signals : Safe(u)'
    BY <1>1, <1>3, <2>1 DEF Safe
  <2>6. InHand'
    BY <2>3 DEF InHand
  <2>7. QED
    BY <1>2, <2>3, <2>4, <2>5, <2>6 DEF Inv
<1>5. CASE Fresh(i)
  <2>1. /\ seen' = [seen EXCEPT ![i] = Newest(i)]
        /\ \/ Onward(TRUE) /\ signals' = signals
           \/ /\ run' = [run EXCEPT !.at = "write", !.evs = TRUE]
              /\ signals' = signals \cup {s}
    BY <1>5 DEF Evaluate, SeenKey
  <2>2. Newest(i) \in table[EntryTf[i]] /\ Newest(i) \in Times
    BY <1>1, <1>5, NewestIs DEF Fresh
  <2>3. s \in Signals
    BY <1>1, <2>2 DEF Signals
  <2>4. Seen(seen, table)'
    <3>1. seen' \in [Instances -> Times \cup {Never}] /\ seen'[i] = Newest(i)
          /\ \A j \in Instances \ {i} : seen'[j] = seen[j]
      BY <1>1, <2>1, <2>2 DEF Inv, Seen
    <3>2. \A j \in Instances : seen'[j] \in table[EntryTf[j]] \cup {Never}
      <4>1. SUFFICES ASSUME NEW j \in Instances PROVE seen'[j] \in table[EntryTf[j]] \cup {Never}
        OBVIOUS
      <4> HIDE DEF i
      <4>2. CASE j = i
        BY <3>1, <2>2, <4>2
      <4>3. CASE j # i
        BY <3>1, <4>3 DEF Inv, Seen
      <4>4. QED
        BY <4>2, <4>3
    <3>3. table' = table
      BY <1>1 DEF tableVars
    <3>4. QED
      BY <3>1, <3>2, <3>3 DEF Seen
  <2>5. Known'
    BY <1>1, <2>1, <2>3 DEF Inv, Known
  <2>6. CASE Onward(TRUE) /\ signals' = signals
    <3>1. Proper(run') /\ run'.at \in {"load", "sleep", "poll"}
      BY <1>1, <2>6, OnwardIs
    <3>2. budget' = Bounds => \A u \in Signals : Safe(u)'
      BY <1>1, <1>3, <2>6 DEF Safe
    <3>3. InHand'
      BY <3>1 DEF InHand
    <3>4. QED
      BY <1>2, <2>4, <2>5, <3>1, <3>2, <3>3 DEF Inv
  <2>7. CASE run' = [run EXCEPT !.at = "write", !.evs = TRUE] /\ signals' = signals \cup {s}
    <3>1. Proper(run') /\ run'.at = "write" /\ run'.todo = run.todo
      BY <1>1, <2>7, StageIs DEF Working
    <3>2. SigOf(run, seen)' = s
      <4>1. seen'[i] = Newest(i)
        BY <1>1, <2>1 DEF Inv, Seen
      <4>2. QED
        BY <3>1, <4>1 DEF SigOf
    <3> HIDE DEF s, i
    <3>3. budget' = Bounds => \A u \in Signals : Safe(u)'
      BY <1>1, <1>3, <2>7, <3>1, <3>2 DEF Safe
    <3>4. InHand'
      BY <2>3, <3>1, <3>2 DEF InHand
    <3>5. QED
      BY <1>2, <2>4, <2>5, <3>1, <3>3, <3>4 DEF Inv
  <2>8. QED
    BY <2>1, <2>6, <2>7
<1>6. QED
  BY <1>4, <1>5

LEMMA WriteInv == ASSUME Inv, Write PROVE Inv'
<1> DEFINE s == SigOf(run, seen)
<1>1. /\ run.at = "write" /\ Feed /\ Proper(run) /\ run.todo # <<>> /\ s \in Signals
      /\ UNCHANGED <<tableVars, seen, stream, evaluated, signals, budget>>
      /\ journal' = journal \cup {s}
      /\ IF s \in journal THEN Onward(TRUE) ELSE run' = [run EXCEPT !.at = "publish"]
  BY SigIs DEF Write, Inv, Proper, Working, InHand
<1>2. Feed' /\ Budgeted' /\ Seen(seen, table)'
  <2>1. clock' = clock /\ table' = table /\ budget' = budget /\ seen' = seen
    BY <1>1 DEF tableVars
  <2>2. QED
    BY <2>1 DEF Inv, Feed, Budgeted, Seen
<1>3. \A u \in Signals : budget = Bounds /\ stream[u] # 1 => u \notin journal /\ (u \in signals => u = s)
  BY <1>1 DEF Inv, Safe
<1>4. Known'
  <2> HIDE DEF s
  <2>1. QED
    BY <1>1 DEF Inv, Known
<1>5. Once'
  <2> HIDE DEF s
  <2>1. QED
    BY <1>1 DEF Inv, Once
<1>6. CASE s \in journal
  <2>1. Proper(run') /\ run'.at \in {"load", "sleep", "poll"}
    BY <1>1, <1>6, OnwardIs
  <2>2. budget' = Bounds => \A u \in Signals : Safe(u)'
    <3>1. journal' = journal /\ stream' = stream /\ signals' = signals /\ budget' = budget
      BY <1>1, <1>6
    <3> HIDE DEF s
    <3>2. QED
      BY <3>1, <1>1, <1>3, <1>6 DEF Safe
  <2>3. InHand'
    BY <2>1 DEF InHand
  <2>4. QED
    BY <1>2, <1>4, <1>5, <2>1, <2>2, <2>3 DEF Inv
<1>7. CASE s \notin journal
  <2>1. Proper(run') /\ run'.at = "publish" /\ run'.todo = run.todo
    BY <1>1, <1>7, StageIs DEF Working
  <2>2. SigOf(run, seen)' = s
    BY <1>1, <2>1 DEF SigOf
  <2>3. stream[s] = 0
    <3>1. stream[s] \in Nat /\ stream[s] <= 1 /\ stream[s] # 1
      BY <1>1, <1>7 DEF Inv, Known, Once
    <3>2. QED
      BY <3>1
  <2> HIDE DEF s
  <2>4. InHand'
    BY <1>1, <2>1, <2>2, <2>3 DEF InHand
  <2>5. budget' = Bounds => \A u \in Signals : Safe(u)'
    BY <1>1, <1>3, <2>1, <2>2 DEF Safe
  <2>6. QED
    BY <1>2, <1>4, <1>5, <2>1, <2>4, <2>5 DEF Inv
<1>8. QED
  BY <1>6, <1>7

\* Published now: the signal in hand, and no other.
LEMMA Published ==
  ASSUME Inv, run.at = "publish", stream' = [stream EXCEPT ![SigOf(run, seen)] = @ + 1],
         journal' = journal, signals' = signals
  PROVE  /\ Known' /\ Once'
         /\ stream'[SigOf(run, seen)] = 1
         /\ \A u \in Signals : u # SigOf(run, seen) => stream'[u] = stream[u]
<1> DEFINE s == SigOf(run, seen)
<1>1. s \in Signals /\ s \in journal /\ stream[s] = 0
  BY DEF Inv, InHand
<1>2. stream \in [Signals -> Nat]
  BY DEF Inv, Known
<1> HIDE DEF s
<1>3. stream' = [stream EXCEPT ![s] = stream[s] + 1]
  BY <1>1, <1>2 DEF s
<1>4. stream' \in [Signals -> Nat] /\ stream'[s] = 1 /\ \A u \in Signals : u # s => stream'[u] = stream[u]
  BY <1>1, <1>2, <1>3
<1>5. Once'
  BY <1>1, <1>4 DEF Inv, Once
<1>6. QED
  BY <1>4, <1>5 DEF s, Inv, Known

LEMMA PublishInv == ASSUME Inv, Publish PROVE Inv'
<1> DEFINE s == SigOf(run, seen)
<1>1. /\ run.at = "publish" /\ Feed /\ Proper(run)
      /\ UNCHANGED <<tableVars, seen, journal, evaluated, signals, budget>>
      /\ stream' = [stream EXCEPT ![s] = @ + 1]
      /\ Onward(TRUE)
  BY SigIs DEF Publish, Inv
<1>2. Feed' /\ Budgeted' /\ Seen(seen, table)'
  <2>1. clock' = clock /\ table' = table /\ budget' = budget /\ seen' = seen
    BY <1>1 DEF tableVars
  <2>2. QED
    BY <2>1 DEF Inv, Feed, Budgeted, Seen
<1>3. Proper(run') /\ run'.at \in {"load", "sleep", "poll"}
  BY <1>1, OnwardIs
<1>4. InHand'
  BY <1>3 DEF InHand
<1>5. Known' /\ Once' /\ stream'[s] = 1 /\ \A u \in Signals : u # s => stream'[u] = stream[u]
  BY <1>1, Published
<1> HIDE DEF s
<1>6. \A u \in Signals : budget = Bounds /\ stream[u] # 1 => (u \in signals => u = s) /\ (u \in journal => u = s)
  BY DEF Inv, Safe, s
<1>7. budget' = Bounds => \A u \in Signals : Safe(u)'
  BY <1>1, <1>5, <1>6 DEF Safe
<1>8. QED
  BY <1>2, <1>3, <1>4, <1>5, <1>7 DEF Inv

\* Nothing is in hand before, nothing after: waking up, polling on, the deadline.
LEMMA PassesInv == ASSUME Inv, Wake \/ PollAgain \/ Deadline PROVE Inv'
<1>1. /\ run.at \in {"sleep", "poll"} /\ run' \in {Pass("poll"), Pass("outer")}
      /\ UNCHANGED <<tableVars, seen, journal, stream, evaluated, signals, budget>>
  BY DEF Wake, PollAgain, Deadline
<1>2. Proper(run') /\ run'.at = "load"
  <2>1. Proper(Pass("poll")) /\ Pass("poll").at = "load" /\ Proper(Pass("outer")) /\ Pass("outer").at = "load"
    BY PassIs
  <2>2. QED
    BY <1>1, <2>1
<1>3. Feed' /\ Budgeted' /\ Seen(seen, table)' /\ Known' /\ Once'
  <2>1. /\ clock' = clock /\ table' = table /\ budget' = budget /\ seen' = seen
        /\ journal' = journal /\ stream' = stream /\ signals' = signals
    BY <1>1 DEF tableVars
  <2>2. QED
    BY <2>1 DEF Inv, Feed, Budgeted, Seen, Known, Once
<1>4. InHand'
  BY <1>2 DEF InHand
<1>5. budget' = Bounds => \A u \in Signals : Safe(u)'
  BY <1>1 DEF Inv, Safe
<1>6. QED
  BY <1>2, <1>3, <1>4, <1>5 DEF Inv

\* What is left of the bounds never rises again.
LEMMA Spent ==
  ASSUME Inv, NEW x \in {"errors", "kills"}, budget[x] > 0, budget' = [budget EXCEPT ![x] = @ - 1]
  PROVE  Budgeted' /\ budget' # Bounds
<1>1. /\ budget \in [{"errors", "kills"} -> Nat] /\ Bounds \in [{"errors", "kills"} -> Nat]
      /\ \A y \in {"errors", "kills"} : budget[y] <= Bounds[y]
  BY RunnerBoundAssumption DEF Inv, Budgeted
<1>2. /\ budget' \in [{"errors", "kills"} -> Nat]
      /\ budget'[x] = budget[x] - 1
      /\ \A y \in {"errors", "kills"} : y # x => budget'[y] = budget[y]
  BY <1>1
<1>3. budget'[x] < Bounds[x]
  BY <1>1, <1>2
<1>4. \A y \in {"errors", "kills"} : budget'[y] <= Bounds[y]
  BY <1>1, <1>2
<1>5. QED
  BY <1>1, <1>2, <1>3, <1>4 DEF Budgeted

LEMMA ErrorInv == ASSUME Inv, Error PROVE Inv'
<1> DEFINE s == SigOf(run, seen)
<1>1. /\ run.at \in {"load", "write", "publish"} /\ Feed
      /\ UNCHANGED <<tableVars, seen, evaluated, signals>>
      /\ run' \in {Sleep, Dead}
      /\ budget.errors > 0 /\ budget' = [budget EXCEPT !.errors = @ - 1]
      /\ \/ journal' = journal /\ stream' = stream
         \/ run.at = "write" /\ journal' = journal \cup {s} /\ stream' = stream
         \/ run.at = "publish" /\ stream' = [stream EXCEPT ![s] = @ + 1] /\ journal' = journal
  BY SigIs DEF Error, Inv
<1>2. Proper(run') /\ run'.at \in {"sleep", "dead"}
  BY <1>1, IdleIs
<1>3. Feed' /\ Seen(seen, table)'
  BY <1>1 DEF Inv, Feed, Seen, tableVars
<1>4. Budgeted' /\ budget' # Bounds
  BY <1>1, Spent
<1>5. InHand'
  BY <1>2 DEF InHand
<1>6. Known' /\ Once'
  <2>1. CASE journal' = journal /\ stream' = stream
    BY <1>1, <2>1 DEF Inv, Known, Once
  <2>2. CASE run.at = "write" /\ journal' = journal \cup {s} /\ stream' = stream
    <3>1. s \in Signals
      BY <2>2 DEF Inv, InHand
    <3> HIDE DEF s
    <3>2. QED
      BY <1>1, <2>2, <3>1 DEF Inv, Known, Once
  <2>3. CASE run.at = "publish" /\ stream' = [stream EXCEPT ![s] = @ + 1] /\ journal' = journal
    BY <1>1, <2>3, Published
  <2>4. QED
    BY <1>1, <2>1, <2>2, <2>3
<1>7. QED
  BY <1>2, <1>3, <1>4, <1>5, <1>6 DEF Inv

LEMMA KillInv == ASSUME Inv, Kill PROVE Inv'
<1>1. /\ UNCHANGED <<tableVars, seen, journal, stream, evaluated, signals>>
      /\ run' = Dead /\ Feed
      /\ budget.kills > 0 /\ budget' = [budget EXCEPT !.kills = @ - 1]
  BY DEF Kill, Inv
<1>2. Proper(run') /\ run'.at = "dead"
  BY <1>1, IdleIs
<1>3. Feed' /\ Seen(seen, table)' /\ Known' /\ Once'
  BY <1>1 DEF Inv, Feed, Seen, Known, Once, tableVars
<1>4. Budgeted' /\ budget' # Bounds
  BY <1>1, Spent
<1>5. InHand'
  BY <1>2 DEF InHand
<1>6. QED
  BY <1>2, <1>3, <1>4, <1>5 DEF Inv

LEMMA StartInv == ASSUME Inv, Start PROVE Inv'
<1>1. /\ run.at = "dead" /\ run' = Pass("outer") /\ seen' = [k \in DOMAIN seen |-> Never]
      /\ UNCHANGED <<tableVars, journal, stream, evaluated, signals, budget>>
  BY DEF Start
<1>2. Proper(run') /\ run'.at = "load"
  BY <1>1, PassIs
<1>3. seen' = [i \in Instances |-> Never]
  BY <1>1 DEF Inv, Seen
<1>4. Feed' /\ Budgeted' /\ Known' /\ Once' /\ Seen(seen, table)'
  <2>1. /\ clock' = clock /\ table' = table /\ budget' = budget
        /\ journal' = journal /\ stream' = stream /\ signals' = signals
    BY <1>1 DEF tableVars
  <2>2. QED
    BY <1>3, <2>1 DEF Inv, Feed, Budgeted, Seen, Known, Once
<1>5. InHand'
  BY <1>2 DEF InHand
<1>6. budget' = Bounds => \A u \in Signals : Safe(u)'
  BY <1>1 DEF Inv, Safe
<1>7. QED
  BY <1>2, <1>4, <1>5, <1>6 DEF Inv

\* The clock and the table grow, nothing else moves.
LEMMA GrowInv ==
  ASSUME Inv, UNCHANGED runner, Feed', \A x \in Series : table[x] \subseteq table'[x]
  PROVE  Inv'
<1>1. /\ run' = run /\ seen' = seen /\ journal' = journal /\ stream' = stream
      /\ signals' = signals /\ budget' = budget
  BY DEF runner
<1>2. Seen(seen, table)'
  <2>1. \A i \in Instances : EntryTf[i] \in Series
    BY InstanceAssumption
  <2>2. QED
    BY <1>1, <2>1 DEF Inv, Seen
<1>3. Proper(run') /\ Known' /\ Budgeted' /\ Once'
  BY <1>1 DEF Inv, Known, Budgeted, Once
<1>4. SigOf(run, seen)' = SigOf(run, seen)
  BY <1>1 DEF SigOf
<1>5. InHand' /\ (budget' = Bounds => \A u \in Signals : Safe(u)')
  BY <1>1, <1>4 DEF Inv, InHand, Safe
<1>6. QED
  BY <1>2, <1>3, <1>5 DEF Inv

LEMMA ClockInv == ASSUME Inv, Clock PROVE Inv'
<1>1. clock' = clock + 1 /\ clock < LastTick /\ table' = table /\ UNCHANGED runner
  BY DEF Clock, Tick
<1>2. Feed'
  BY <1>1, TickAssumption DEF Inv, Feed
<1>3. QED
  BY <1>1, <1>2, GrowInv

LEMMA StoredInv == ASSUME Inv, Stored PROVE Inv'
<1>1. PICK x \in Series : \E t \in Candles(x) : table' = [table EXCEPT ![x] = @ \cup {t}]
  BY DEF Stored
<1>2. PICK t \in Candles(x) : table' = [table EXCEPT ![x] = @ \cup {t}]
  BY <1>1
<1>3. t \in Times /\ clock' = clock /\ UNCHANGED runner
  BY <1>2 DEF Stored, Candles, Times
<1>4. Feed' /\ \A y \in Series : table[y] \subseteq table'[y]
  BY <1>2, <1>3 DEF Inv, Feed
<1>5. QED
  BY <1>3, <1>4, GrowInv

LEMMA InitInv == Init => Inv
<1>1. SUFFICES ASSUME Init PROVE Inv
  OBVIOUS
<1>2. Feed
  <2>1. clock = 0 /\ table \in [Series -> {{}, {0}}]
    BY <1>1 DEF Init, TableInit
  <2>2. {} \in SUBSET Times /\ {0} \in SUBSET Times
    BY TickAssumption DEF Times
  <2>3. QED
    BY <2>1, <2>2, TickAssumption DEF Feed
<1>3. Proper(run) /\ run.at = "load"
  BY <1>1, PassIs DEF Init
<1>4. Seen(seen, table)
  <2>1. {SeenKey(i) : i \in Instances} = Instances
    BY DEF SeenKey
  <2>2. seen = [i \in Instances |-> Never]
    BY <1>1, <2>1 DEF Init
  <2>3. QED
    BY <2>2 DEF Seen
<1>5. Known /\ Once /\ InHand /\ \A u \in Signals : Safe(u)
  BY <1>1, <1>3 DEF Init, Known, Once, InHand, Safe
<1>6. Budgeted
  BY <1>1, RunnerBoundAssumption DEF Init, Budgeted
<1>7. QED
  BY <1>2, <1>3, <1>4, <1>5, <1>6 DEF Inv

LEMMA NextInv == Inv /\ [Next]_vars => Inv'
<1>1. SUFFICES ASSUME Inv, [Next]_vars PROVE Inv'
  OBVIOUS
<1>2. CASE UNCHANGED vars
  <2>1. UNCHANGED runner /\ clock' = clock /\ table' = table
    BY <1>2 DEF vars, tableVars
  <2>2. Feed'
    BY <1>1, <2>1 DEF Inv, Feed
  <2>3. QED
    BY <1>1, <2>1, <2>2, GrowInv
<1>3. CASE Next
  BY <1>1, <1>3, EvaluateInv, WriteInv, PublishInv, PassesInv, ErrorInv, KillInv, StartInv, ClockInv, StoredInv
     DEF Next, Step
<1>4. QED
  BY <1>1, <1>2, <1>3

THEOREM Invariance == Spec => []Inv
  BY InitInv, NextInv, PTL DEF Spec

-----------------------------------------------------------------------------
(* What it gives *)

\* The values of the runner keep their types: a pass always has an instance to go on
\* with, and what an instance has seen is a stored candle of its series.
THEOREM TypeCorrect == Spec => []TypeOK
<1>1. Inv => TypeOK
  <2>1. SUFFICES ASSUME Inv PROVE TypeOK
    OBVIOUS
  <2>2. \A i \in Instances : seen[SeenKey(i)] \in table[EntryTf[i]] \cup {Never}
    BY <2>1 DEF Inv, Seen, SeenKey
  <2>3. journal \subseteq {SignalId(s[1], s[2]) : s \in Signals}
    <3>1. \A s \in Signals : s \in {SignalId(q[1], q[2]) : q \in Signals}
      BY IdIs
    <3>2. QED
      BY <2>1, <3>1 DEF Inv, Known
  <2>4. QED
    BY <2>1, <2>2, <2>3 DEF Inv, TypeOK, Proper, RunType, Places, Working, Known
<1>2. QED
  BY <1>1, Invariance, PTL

\* runner.py:102-104 a signal reaches the engine at most once and only after its row is
\* in the journal; while no statement failed and nothing was killed, every signal found
\* has been published once the pass is over.
THEOREM DeliveredOnce == Spec => []Delivered
<1>1. Inv => Delivered
  <2>1. SUFFICES ASSUME Inv PROVE Delivered
    OBVIOUS
  <2>2. \A s \in Signals : stream[s] <= 1 /\ (stream[s] = 1 => SignalId(s[1], s[2]) \in journal)
    BY <2>1, IdIs DEF Inv, Once
  <2>3. budget = Bounds /\ run.at \in {"sleep", "poll"} => \A s \in signals : stream[s] = 1
    BY <2>1 DEF Inv, Safe, Known
  <2>4. QED
    BY <2>2, <2>3 DEF Delivered
<1>2. QED
  BY <1>1, Invariance, PTL
=============================================================================
