--------------------------------- MODULE Sums ---------------------------------
(***************************************************************************)
(* What SumFunctionOnSet of the community modules computes: the lemmas     *)
(* the theorems about amounts rest on.  They are proved by well-founded    *)
(* induction over the subsets of a finite set.                             *)
(***************************************************************************)
EXTENDS Integers, Functions, FiniteSetTheorems, TLAPS

-----------------------------------------------------------------------------
(* Induction over a finite set, on the set of those subsets that are good  *)

LEMMA SubsetInduction ==
  ASSUME NEW S, IsFiniteSet(S), NEW Good,
         \A T \in SUBSET S : (\A U \in SUBSET T : U # T => U \in Good) => T \in Good
  PROVE  S \in Good
<1> DEFINE Bad == {T \in SUBSET S : T \notin Good}
<1>1. SUFFICES ASSUME S \notin Good PROVE FALSE
  OBVIOUS
<1>2. IsWellFoundedOn(StrictSubsetOrdering(S), SUBSET S)
  BY FS_StrictSubsetOrderingWellFounded, FS_FiniteSubsetsOfFinite
<1>3. Bad \subseteq SUBSET S /\ Bad # {}
  BY <1>1
<1>4. PICK T \in Bad : \A U \in Bad : ~(<<U, T>> \in StrictSubsetOrdering(S))
  <2> HIDE DEF Bad
  <2> QED BY <1>2, <1>3, WFMin
<1>5. \A U \in SUBSET T : U # T => U \in Good
  BY <1>4 DEF StrictSubsetOrdering
<1> QED
  BY <1>4, <1>5

\* One element more keeps a set good.
LEMMA ElementInduction ==
  ASSUME NEW S, IsFiniteSet(S), NEW Good, {} \in Good,
         \A T \in SUBSET S : \A x \in S \ T : T \in Good => T \cup {x} \in Good
  PROVE  S \in Good
<1>1. ASSUME NEW T \in SUBSET S, \A U \in SUBSET T : U # T => U \in Good
      PROVE  T \in Good
  <2>1. CASE T = {}
    BY <2>1
  <2>2. CASE T # {}
    <3>1. PICK x \in T : TRUE
      BY <2>2
    <3>2. T \ {x} \in Good /\ T = (T \ {x}) \cup {x}
      BY <1>1, <3>1
    <3> QED
      BY <3>1, <3>2
  <2> QED
    BY <2>1, <2>2
<1> QED
  BY <1>1, SubsetInduction

-----------------------------------------------------------------------------
(* The recursive function behind the sum                                   *)

OneOf(T) == CHOOSE x \in T : TRUE

\* g sums f over the subsets of A.
Sums(g, f, A) ==
  g = [T \in SUBSET A |-> IF T = {} THEN 0 ELSE f[OneOf(T)] + g[T \ {OneOf(T)}]]

LEMMA OneIn == ASSUME NEW T, T # {} PROVE OneOf(T) \in T
  BY DEF OneOf

LEMMA SumsStep ==
  ASSUME NEW f, NEW A, NEW g, Sums(g, f, A), NEW T \in SUBSET A
  PROVE  g[T] = IF T = {} THEN 0 ELSE f[OneOf(T)] + g[T \ {OneOf(T)}]
  BY DEF Sums

\* Two such functions agree wherever both are defined.
LEMMA SumsAgree ==
  ASSUME NEW f, NEW A, NEW B, NEW g, NEW h, Sums(g, f, A), Sums(h, f, B),
         NEW S \in SUBSET (A \cap B), IsFiniteSet(S)
  PROVE  g[S] = h[S]
<1> DEFINE Good == {T \in SUBSET S : g[T] = h[T]}
<1>1. ASSUME NEW T \in SUBSET S, \A U \in SUBSET T : U # T => U \in Good
      PROVE  T \in Good
  <2>0. T \in SUBSET A /\ T \in SUBSET B
    OBVIOUS
  <2>1. CASE T = {}
    <3>1. g[T] = 0 /\ h[T] = 0
      BY <2>0, <2>1, SumsStep
    <3> QED
      BY <3>1
  <2>2. CASE T # {}
    <3>1. OneOf(T) \in T
      BY <2>2, OneIn
    <3>2. T \ {OneOf(T)} \in Good
      BY <1>1, <3>1
    <3>3. g[T] = f[OneOf(T)] + g[T \ {OneOf(T)}] /\ h[T] = f[OneOf(T)] + h[T \ {OneOf(T)}]
      BY <2>0, <2>2, SumsStep
    <3> QED
      BY <3>2, <3>3
  <2> QED
    BY <2>1, <2>2
<1>2. S \in Good
  <2> HIDE DEF Good
  <2> QED BY <1>1, SubsetInduction
<1> QED
  BY <1>2

LEMMA SumsExist ==
  ASSUME NEW f, NEW S, IsFiniteSet(S)
  PROVE  \E g : Sums(g, f, S)
<1> DEFINE Good == {T \in SUBSET S : \E g : Sums(g, f, T)}
<1>1. ASSUME NEW A \in SUBSET S, \A U \in SUBSET A : U # A => U \in Good
      PROVE  A \in Good
  <2> DEFINE G(U) == CHOOSE h : Sums(h, f, U)
             Value(T) == IF T = {} THEN 0
                         ELSE f[OneOf(T)] + G(T \ {OneOf(T)})[T \ {OneOf(T)}]
             g == [T \in SUBSET A |-> Value(T)]
  <2>1. ASSUME NEW U \in SUBSET A, U # A PROVE Sums(G(U), f, U) /\ IsFiniteSet(U)
    <3>1. \E h : Sums(h, f, U)
      BY <1>1, <2>1
    <3>2. IsFiniteSet(U)
      BY <2>1, FS_Subset
    <3> QED
      BY <3>1, <3>2
  <2>2. ASSUME NEW T \in SUBSET A, T # {}
        PROVE  G(T \ {OneOf(T)})[T \ {OneOf(T)}] = g[T \ {OneOf(T)}]
    <3> DEFINE U == T \ {OneOf(T)}
    <3>1. U \in SUBSET A /\ U # A
      BY <2>2, OneIn
    <3>2. Sums(G(U), f, U)
      BY <2>1, <3>1
    <3>3. CASE U = {}
      <4>1. G(U)[U] = 0
        <5>1. U \in SUBSET U
          OBVIOUS
        <5> HIDE DEF U, G
        <5> QED BY <3>2, <3>3, <5>1, SumsStep
      <4> QED
        BY <3>1, <3>3, <4>1
    <3>4. CASE U # {}
      <4> DEFINE V == U \ {OneOf(U)}
      <4>1. V \in SUBSET A /\ V # A /\ V \in SUBSET (U \cap V)
        BY <3>1, <3>4
      <4>2. Sums(G(V), f, V) /\ IsFiniteSet(V)
        BY <2>1, <4>1
      <4>3. G(U)[V] = G(V)[V]
        <5> HIDE DEF U, V, G
        <5> QED BY <3>2, <4>1, <4>2, SumsAgree
      <4>4. G(U)[U] = f[OneOf(U)] + G(U)[V]
        <5>1. U \in SUBSET U
          OBVIOUS
        <5> HIDE DEF U, G
        <5> QED BY <3>2, <3>4, <5>1, SumsStep
      <4>5. g[U] = f[OneOf(U)] + G(V)[V]
        BY <3>1, <3>4
      <4> QED
        BY <4>3, <4>4, <4>5
    <3> QED
      BY <3>3, <3>4
  <2>3. g = [T \in SUBSET A |-> IF T = {} THEN 0 ELSE f[OneOf(T)] + g[T \ {OneOf(T)}]]
    <3>1. \A T \in SUBSET A : Value(T) = IF T = {} THEN 0 ELSE f[OneOf(T)] + g[T \ {OneOf(T)}]
      <4> HIDE DEF g, G
      <4> QED BY <2>2
    <3>2. g = [T \in SUBSET A |-> Value(T)]
      OBVIOUS
    <3> HIDE DEF g, Value
    <3> QED BY <3>1, <3>2
  <2>4. Sums(g, f, A)
    BY <2>3 DEF Sums
  <2> QED
    BY <2>4
<1>2. S \in Good
  <2> HIDE DEF Good
  <2> QED BY <1>1, SubsetInduction
<1> QED
  BY <1>2

\* The sum over a finite set is a function like that at the set.
LEMMA SumIs ==
  ASSUME NEW f, NEW A, IsFiniteSet(A), NEW g, Sums(g, f, A), NEW S \in SUBSET A
  PROVE  SumFunctionOnSet(f, S) = g[S]
<1> DEFINE h == CHOOSE h : Sums(h, f, S)
<1>1. IsFiniteSet(S)
  BY FS_Subset
<1>2. Sums(h, f, S)
  BY <1>1, SumsExist
<1>3. SumFunctionOnSet(f, S) = h[S]
  BY DEF SumFunctionOnSet, FoldFunctionOnSet, MapThenFoldSet, Sums, OneOf
<1>4. S \in SUBSET (S \cap A)
  OBVIOUS
<1> HIDE DEF h
<1> QED
  BY <1>1, <1>2, <1>3, <1>4, SumsAgree

-----------------------------------------------------------------------------
(* Sums of integers                                                        *)

LEMMA SumEmpty == ASSUME NEW f PROVE SumFunctionOnSet(f, {}) = 0
<1>1. IsFiniteSet({})
  BY FS_EmptySet
<1>2. PICK g : Sums(g, f, {})
  BY <1>1, SumsExist
<1>3. SumFunctionOnSet(f, {}) = g[{}]
  BY <1>1, <1>2, SumIs
<1> QED
  BY <1>2, <1>3, SumsStep

\* Whatever element the fold starts with, any one may be taken out.
LEMMA SumAdd ==
  ASSUME NEW S, IsFiniteSet(S), NEW x, x \notin S, NEW f, \A y \in S \cup {x} : f[y] \in Int
  PROVE  /\ SumFunctionOnSet(f, S) \in Int
         /\ SumFunctionOnSet(f, S \cup {x}) = f[x] + SumFunctionOnSet(f, S)
<1> DEFINE All == S \cup {x}
<1>1. IsFiniteSet(All)
  BY FS_AddElement
<1>2. PICK g : Sums(g, f, All)
  BY <1>1, SumsExist
<1>3. \A T \in SUBSET All : SumFunctionOnSet(f, T) = g[T]
  <2> HIDE DEF All
  <2> QED BY <1>1, <1>2, SumIs
<1>4. \A T \in SUBSET All : g[T] = IF T = {} THEN 0 ELSE f[OneOf(T)] + g[T \ {OneOf(T)}]
  <2> HIDE DEF All
  <2> QED BY <1>2 DEF Sums
<1>5. \A T \in SUBSET All : g[T] \in Int
  <2> DEFINE Good == {T \in SUBSET All : g[T] \in Int}
  <2>1. SUFFICES ASSUME NEW T \in SUBSET All PROVE g[T] \in Int
    OBVIOUS
  <2>2. ASSUME NEW U \in SUBSET T, \A V \in SUBSET U : V # U => V \in Good PROVE U \in Good
    <3>1. CASE U = {}
      <4>1. g[U] = 0
        BY <1>4, <3>1
      <4> QED
        BY <3>1, <4>1
    <3>2. CASE U # {}
      <4>1. OneOf(U) \in U
        BY <3>2, OneIn
      <4>2. U \ {OneOf(U)} \in Good
        BY <2>2, <4>1
      <4> QED
        BY <1>4, <3>2, <4>1, <4>2
    <3> QED
      BY <3>1, <3>2
  <2>3. IsFiniteSet(T)
    BY <1>1, FS_Subset
  <2>4. T \in Good
    <3> HIDE DEF Good, All
    <3> QED BY <2>2, <2>3, SubsetInduction
  <2> QED
    BY <2>4
<1>6. \A T \in SUBSET All : \A y \in All \ T : g[T \cup {y}] = f[y] + g[T]
  <2> DEFINE Good == {T \in SUBSET All : \A y \in All \ T : g[T \cup {y}] = f[y] + g[T]}
  <2>1. SUFFICES ASSUME NEW T \in SUBSET All PROVE T \in Good
    OBVIOUS
  <2>2. ASSUME NEW U \in SUBSET T, \A V \in SUBSET U : V # U => V \in Good PROVE U \in Good
    <3>1. SUFFICES ASSUME NEW y \in All \ U PROVE g[U \cup {y}] = f[y] + g[U]
      OBVIOUS
    <3> DEFINE W == U \cup {y}
               c == OneOf(W)
    <3>2. c \in W
      BY OneIn
    <3>3. g[W] = f[c] + g[W \ {c}]
      BY <1>4
    <3>4. CASE c = y
      <4>1. W \ {c} = U
        BY <3>4
      <4> HIDE DEF c
      <4> QED BY <3>3, <3>4, <4>1
    <3>5. CASE c # y
      <4> DEFINE V == U \ {c}
      <4> HIDE DEF c
      <4>1. V \in Good /\ c \in U
        BY <2>2, <3>2, <3>5
      <4>2. W \ {c} = V \cup {y} /\ U = V \cup {c}
        BY <3>2, <3>5
      <4>3. g[V \cup {y}] = f[y] + g[V] /\ g[V \cup {c}] = f[c] + g[V]
        BY <4>1
      <4>4. f[c] \in Int /\ f[y] \in Int /\ g[V] \in Int
        BY <1>5, <4>1
      <4>5. g[W] = f[c] + (f[y] + g[V]) /\ g[U] = f[c] + g[V]
        BY <3>3, <4>2, <4>3
      <4> QED
        BY <4>4, <4>5
    <3> QED
      BY <3>4, <3>5
  <2>3. IsFiniteSet(T)
    BY <1>1, FS_Subset
  <2> HIDE DEF Good, All
  <2> QED
    BY <2>2, <2>3, SubsetInduction
<1> QED
  <2>1. S \in SUBSET All /\ All \in SUBSET All /\ x \in All \ S /\ S \cup {x} = All
    OBVIOUS
  <2>2. SumFunctionOnSet(f, S) = g[S] /\ SumFunctionOnSet(f, S \cup {x}) = g[All]
    <3> HIDE DEF All
    <3> QED BY <1>3, <2>1
  <2>3. g[S] \in Int /\ g[All] = f[x] + g[S]
    <3> HIDE DEF All
    <3> QED BY <1>5, <1>6, <2>1
  <2> QED
    BY <2>2, <2>3

LEMMA SumType ==
  ASSUME NEW S, IsFiniteSet(S), NEW f, \A y \in S : f[y] \in Int
  PROVE  SumFunctionOnSet(f, S) \in Int
<1>1. CASE S = {}
  BY <1>1, SumEmpty
<1>2. CASE S # {}
  <2>1. PICK x \in S : TRUE
    BY <1>2
  <2>2. IsFiniteSet(S \ {x}) /\ S = (S \ {x}) \cup {x}
    BY <2>1, FS_RemoveElement
  <2>3. /\ SumFunctionOnSet(f, S \ {x}) \in Int
        /\ SumFunctionOnSet(f, S) = f[x] + SumFunctionOnSet(f, S \ {x})
    BY <2>2, SumAdd
  <2> QED
    BY <2>1, <2>3
<1> QED
  BY <1>1, <1>2

\* The sum depends on the terms alone.
LEMMA SumSame ==
  ASSUME NEW S, IsFiniteSet(S), NEW f, NEW g, \A y \in S : f[y] \in Int /\ g[y] = f[y]
  PROVE  SumFunctionOnSet(g, S) = SumFunctionOnSet(f, S)
<1> DEFINE Good == {T \in SUBSET S : SumFunctionOnSet(g, T) = SumFunctionOnSet(f, T)}
<1>1. {} \in Good
  BY SumEmpty
<1>2. ASSUME NEW T \in SUBSET S, NEW x \in S \ T, T \in Good PROVE T \cup {x} \in Good
  <2>1. IsFiniteSet(T) /\ \A y \in T \cup {x} : f[y] \in Int /\ g[y] \in Int
    BY FS_Subset
  <2>2. /\ SumFunctionOnSet(f, T \cup {x}) = f[x] + SumFunctionOnSet(f, T)
        /\ SumFunctionOnSet(g, T \cup {x}) = g[x] + SumFunctionOnSet(g, T)
    BY <2>1, SumAdd
  <2> QED
    BY <1>2, <2>2
<1>3. S \in Good
  <2> HIDE DEF Good
  <2> QED BY <1>1, <1>2, ElementInduction
<1> QED
  BY <1>3

\* Terms of -w and more lower the sum by w each at most.
LEMMA SumFloor ==
  ASSUME NEW S, IsFiniteSet(S), NEW T \in SUBSET S, NEW f, \A y \in S : f[y] \in Int,
         NEW w \in Int, \A y \in S \ T : f[y] >= -w
  PROVE  SumFunctionOnSet(f, S) >= SumFunctionOnSet(f, T) - w * Cardinality(S \ T)
<1> DEFINE Good == {D \in SUBSET (S \ T) :
                      SumFunctionOnSet(f, T \cup D) >= SumFunctionOnSet(f, T) - w * Cardinality(D)}
<1>0. IsFiniteSet(T) /\ SumFunctionOnSet(f, T) \in Int
  <2>1. IsFiniteSet(T)
    BY FS_Subset
  <2> QED
    BY <2>1, SumType
<1>1. {} \in Good
  <2>1. Cardinality({}) = 0 /\ T \cup {} = T
    BY FS_EmptySet
  <2> QED
    BY <1>0, <2>1
<1>2. ASSUME NEW D \in SUBSET (S \ T), NEW x \in (S \ T) \ D, D \in Good PROVE D \cup {x} \in Good
  <2>1. IsFiniteSet(D) /\ IsFiniteSet(T \cup D)
    BY FS_Subset
  <2>2. Cardinality(D \cup {x}) = Cardinality(D) + 1 /\ Cardinality(D) \in Nat
    BY <2>1, FS_AddElement, FS_CardinalityType
  <2>3. /\ SumFunctionOnSet(f, T \cup D) \in Int
        /\ SumFunctionOnSet(f, (T \cup D) \cup {x}) = f[x] + SumFunctionOnSet(f, T \cup D)
    BY <2>1, SumAdd
  <2>4. (T \cup D) \cup {x} = T \cup (D \cup {x})
    OBVIOUS
  <2>5. SumFunctionOnSet(f, T \cup D) >= SumFunctionOnSet(f, T) - w * Cardinality(D)
    BY <1>2
  <2> DEFINE c == Cardinality(D)
             before == SumFunctionOnSet(f, T)
             there == SumFunctionOnSet(f, T \cup D)
             after == SumFunctionOnSet(f, T \cup (D \cup {x}))
  <2>6. after = f[x] + there /\ there >= before - w * c /\ f[x] >= -w
    BY <2>3, <2>4, <2>5
  <2>7. c \in Nat /\ before \in Int /\ there \in Int /\ f[x] \in Int
    BY <1>0, <2>2, <2>3
  <2>8. w * (c + 1) = w * c + w /\ w * c \in Int
    BY <2>7, Z3
  <2>9. after >= before - w * (c + 1)
    <3> HIDE DEF c, before, there, after
    <3> QED BY <2>6, <2>7, <2>8
  <2> QED
    BY <2>2, <2>9
<1>3. S \ T \in Good
  <2>1. IsFiniteSet(S \ T)
    BY FS_Subset
  <2> HIDE DEF Good
  <2> QED BY <1>1, <1>2, <2>1, ElementInduction
<1>4. T \cup (S \ T) = S
  OBVIOUS
<1> QED
  BY <1>3, <1>4

\* Terms that are not positive do not raise the sum.
LEMMA SumFalls ==
  ASSUME NEW S, IsFiniteSet(S), NEW T \in SUBSET S, NEW f, \A y \in S : f[y] \in Int,
         \A y \in S \ T : f[y] <= 0
  PROVE  SumFunctionOnSet(f, S) <= SumFunctionOnSet(f, T)
<1> DEFINE Good == {D \in SUBSET (S \ T) :
                      SumFunctionOnSet(f, T \cup D) <= SumFunctionOnSet(f, T)}
<1>0. IsFiniteSet(T) /\ SumFunctionOnSet(f, T) \in Int
  <2>1. IsFiniteSet(T)
    BY FS_Subset
  <2> QED
    BY <2>1, SumType
<1>1. {} \in Good
  <2>1. T \cup {} = T
    OBVIOUS
  <2> QED
    BY <1>0, <2>1
<1>2. ASSUME NEW D \in SUBSET (S \ T), NEW x \in (S \ T) \ D, D \in Good PROVE D \cup {x} \in Good
  <2>1. IsFiniteSet(T \cup D)
    BY FS_Subset
  <2>2. /\ SumFunctionOnSet(f, T \cup D) \in Int
        /\ SumFunctionOnSet(f, (T \cup D) \cup {x}) = f[x] + SumFunctionOnSet(f, T \cup D)
    BY <2>1, SumAdd
  <2>3. (T \cup D) \cup {x} = T \cup (D \cup {x})
    OBVIOUS
  <2>4. SumFunctionOnSet(f, T \cup D) <= SumFunctionOnSet(f, T) /\ f[x] <= 0 /\ f[x] \in Int
    BY <1>2
  <2> DEFINE before == SumFunctionOnSet(f, T)
             there == SumFunctionOnSet(f, T \cup D)
             after == SumFunctionOnSet(f, T \cup (D \cup {x}))
  <2>5. after = f[x] + there /\ there <= before /\ before \in Int /\ there \in Int
    BY <1>0, <2>2, <2>3, <2>4
  <2>6. after <= before
    <3> HIDE DEF before, there, after
    <3> QED BY <2>4, <2>5
  <2> QED
    BY <2>6
<1>3. S \ T \in Good
  <2>1. IsFiniteSet(S \ T)
    BY FS_Subset
  <2> HIDE DEF Good
  <2> QED BY <1>1, <1>2, <2>1, ElementInduction
<1>4. T \cup (S \ T) = S
  OBVIOUS
<1> QED
  BY <1>3, <1>4

\* A part of the terms, none above its counterpart, sums to no more than all of
\* them when the rest is not negative.
LEMMA SumBelow ==
  ASSUME NEW S, IsFiniteSet(S), NEW T \in SUBSET S, NEW f, NEW g,
         \A y \in S : g[y] \in Int,
         \A y \in T : f[y] \in Int /\ f[y] <= g[y],
         \A y \in S \ T : g[y] >= 0
  PROVE  SumFunctionOnSet(f, T) <= SumFunctionOnSet(g, S)
<1> DEFINE Good == {D \in SUBSET S : SumFunctionOnSet(f, T \cap D) <= SumFunctionOnSet(g, D)}
<1>1. {} \in Good
  <2>1. T \cap {} = {}
    OBVIOUS
  <2> QED
    BY <2>1, SumEmpty
<1>2. ASSUME NEW D \in SUBSET S, NEW x \in S \ D, D \in Good PROVE D \cup {x} \in Good
  <2>1. IsFiniteSet(D) /\ IsFiniteSet(T \cap D)
    BY FS_Subset
  <2>2. /\ SumFunctionOnSet(g, D) \in Int
        /\ SumFunctionOnSet(g, D \cup {x}) = g[x] + SumFunctionOnSet(g, D)
    BY <2>1, SumAdd
  <2>3. SumFunctionOnSet(f, T \cap D) <= SumFunctionOnSet(g, D) /\ g[x] \in Int
    BY <1>2
  <2>4. SumFunctionOnSet(f, T \cap D) \in Int
    BY <2>1, SumType
  <2> DEFINE part == SumFunctionOnSet(f, T \cap D)
             all  == SumFunctionOnSet(g, D)
  <2>5. CASE x \in T
    <3>1. T \cap (D \cup {x}) = (T \cap D) \cup {x} /\ x \notin T \cap D
      BY <2>5
    <3>2. SumFunctionOnSet(f, (T \cap D) \cup {x}) = f[x] + part
      BY <2>1, <2>5, SumAdd
    <3>3. f[x] \in Int /\ f[x] <= g[x]
      BY <2>5
    <3> HIDE DEF part, all
    <3>4. f[x] + part <= g[x] + all
      BY <2>2, <2>3, <2>4, <3>3 DEF part, all
    <3> QED
      BY <2>2, <3>1, <3>2, <3>4 DEF all
  <2>6. CASE x \notin T
    <3>1. T \cap (D \cup {x}) = T \cap D
      BY <2>6
    <3>2. g[x] >= 0
      BY <2>6
    <3>3. part <= g[x] + all
      BY <2>2, <2>3, <2>4, <3>2
    <3> QED
      BY <2>2, <3>1, <3>3
  <2> QED
    BY <2>5, <2>6
<1>3. S \in Good
  <2> HIDE DEF Good
  <2> QED BY <1>1, <1>2, ElementInduction
<1>4. T \cap S = T
  OBVIOUS
<1> QED
  BY <1>3, <1>4

LEMMA SumNat ==
  ASSUME NEW S, IsFiniteSet(S), NEW f, \A y \in S : f[y] \in Nat
  PROVE  SumFunctionOnSet(f, S) \in Nat
<1> DEFINE Good == {T \in SUBSET S : SumFunctionOnSet(f, T) \in Nat}
<1>1. {} \in Good
  BY SumEmpty
<1>2. ASSUME NEW T \in SUBSET S, NEW x \in S \ T, T \in Good PROVE T \cup {x} \in Good
  <2>1. IsFiniteSet(T) /\ \A y \in T \cup {x} : f[y] \in Int
    BY FS_Subset
  <2>2. SumFunctionOnSet(f, T \cup {x}) = f[x] + SumFunctionOnSet(f, T)
    BY <2>1, SumAdd
  <2>3. f[x] \in Nat /\ SumFunctionOnSet(f, T) \in Nat
    BY <1>2
  <2> QED
    BY <2>2, <2>3
<1>3. S \in Good
  <2> HIDE DEF Good
  <2> QED BY <1>1, <1>2, ElementInduction
<1> QED
  BY <1>3

LEMMA SumPlus ==
  ASSUME NEW S, IsFiniteSet(S), NEW f, NEW g, NEW h,
         \A y \in S : f[y] \in Int /\ g[y] \in Int /\ h[y] = f[y] + g[y]
  PROVE  SumFunctionOnSet(h, S) = SumFunctionOnSet(f, S) + SumFunctionOnSet(g, S)
<1> DEFINE Good == {T \in SUBSET S : SumFunctionOnSet(h, T) = SumFunctionOnSet(f, T) + SumFunctionOnSet(g, T)}
<1>1. {} \in Good
  BY SumEmpty
<1>2. ASSUME NEW T \in SUBSET S, NEW x \in S \ T, T \in Good PROVE T \cup {x} \in Good
  <2>1. IsFiniteSet(T) /\ \A y \in T \cup {x} : f[y] \in Int /\ g[y] \in Int /\ h[y] \in Int
    BY FS_Subset
  <2> DEFINE a == SumFunctionOnSet(f, T)
             b == SumFunctionOnSet(g, T)
             c == SumFunctionOnSet(h, T)
  <2>2. /\ a \in Int /\ SumFunctionOnSet(f, T \cup {x}) = f[x] + a
        /\ b \in Int /\ SumFunctionOnSet(g, T \cup {x}) = g[x] + b
        /\ c \in Int /\ SumFunctionOnSet(h, T \cup {x}) = h[x] + c
    BY <2>1, SumAdd
  <2>3. c = a + b /\ h[x] = f[x] + g[x] /\ f[x] \in Int /\ g[x] \in Int
    BY <1>2
  <2> HIDE DEF a, b, c
  <2>4. h[x] + c = (f[x] + a) + (g[x] + b)
    BY <2>2, <2>3
  <2> QED
    BY <2>2, <2>4
<1>3. S \in Good
  <2> HIDE DEF Good
  <2> QED BY <1>1, <1>2, ElementInduction
<1> QED
  BY <1>3

\* Terms that are nothing may be left out.
LEMMA SumSpread ==
  ASSUME NEW S, IsFiniteSet(S), NEW T \in SUBSET S, NEW f, NEW g,
         \A y \in T : f[y] \in Int /\ g[y] = f[y],
         \A y \in S \ T : g[y] = 0
  PROVE  SumFunctionOnSet(g, S) = SumFunctionOnSet(f, T)
<1> DEFINE Good == {D \in SUBSET S : SumFunctionOnSet(g, D) = SumFunctionOnSet(f, T \cap D)}
<1>1. {} \in Good
  <2>1. T \cap {} = {}
    OBVIOUS
  <2> QED
    BY <2>1, SumEmpty
<1>2. ASSUME NEW D \in SUBSET S, NEW x \in S \ D, D \in Good PROVE D \cup {x} \in Good
  <2>1. IsFiniteSet(D) /\ IsFiniteSet(T \cap D) /\ \A y \in D \cup {x} : g[y] \in Int
    BY FS_Subset
  <2>2. /\ SumFunctionOnSet(g, D) \in Int
        /\ SumFunctionOnSet(g, D \cup {x}) = g[x] + SumFunctionOnSet(g, D)
    BY <2>1, SumAdd
  <2>3. SumFunctionOnSet(g, D) = SumFunctionOnSet(f, T \cap D)
    BY <1>2
  <2>5. CASE x \in T
    <3>1. T \cap (D \cup {x}) = (T \cap D) \cup {x} /\ x \notin T \cap D
      BY <2>5
    <3>2. SumFunctionOnSet(f, (T \cap D) \cup {x}) = f[x] + SumFunctionOnSet(f, T \cap D)
      BY <2>1, <2>5, SumAdd
    <3> QED
      BY <2>2, <2>3, <2>5, <3>1, <3>2
  <2>6. CASE x \notin T
    <3>1. T \cap (D \cup {x}) = T \cap D
      BY <2>6
    <3>2. g[x] = 0
      BY <2>6
    <3>3. SumFunctionOnSet(g, D \cup {x}) = SumFunctionOnSet(g, D)
      BY <2>2, <3>2
    <3> QED
      BY <2>3, <3>1, <3>3
  <2> QED
    BY <2>5, <2>6
<1>3. S \in Good
  <2> HIDE DEF Good
  <2> QED BY <1>1, <1>2, ElementInduction
<1>4. T \cap S = T
  OBVIOUS
<1> QED
  BY <1>3, <1>4

\* One term may be taken out.
LEMMA SumOut ==
  ASSUME NEW S, IsFiniteSet(S), NEW x \in S, NEW f, \A y \in S : f[y] \in Int
  PROVE  /\ SumFunctionOnSet(f, S \ {x}) \in Int
         /\ SumFunctionOnSet(f, S) = f[x] + SumFunctionOnSet(f, S \ {x})
<1>1. IsFiniteSet(S \ {x}) /\ S = (S \ {x}) \cup {x}
  BY FS_RemoveElement
<1>2. \A y \in (S \ {x}) \cup {x} : f[y] \in Int
  OBVIOUS
<1> QED
  BY <1>1, <1>2, SumAdd

-----------------------------------------------------------------------------
(* The extremes of a finite set of integers *)

LEMMA MaxExists ==
  ASSUME NEW S, IsFiniteSet(S), S \subseteq Int, S # {}
  PROVE  \E m \in S : \A x \in S : m >= x
<1> DEFINE Good == {T \in SUBSET S : T # {} => \E m \in T : \A x \in T : m >= x}
<1>1. {} \in Good
  OBVIOUS
<1>2. ASSUME NEW T \in SUBSET S, NEW y \in S \ T, T \in Good PROVE T \cup {y} \in Good
  <2>1. CASE T = {}
    BY <2>1
  <2>2. CASE T # {}
    <3>1. PICK m \in T : \A x \in T : m >= x
      BY <1>2, <2>2
    <3>2. \E n \in T \cup {y} : \A x \in T \cup {y} : n >= x
      <4>1. CASE y <= m
        BY <3>1, <4>1
      <4>2. CASE ~(y <= m)
        <5>1. \A x \in T \cup {y} : y >= x
          BY <3>1, <4>2
        <5> QED
          BY <5>1
      <4> QED
        BY <4>1, <4>2
    <3> QED
      BY <3>2
  <2> QED
    BY <2>1, <2>2
<1>3. S \in Good
  <2> HIDE DEF Good
  <2> QED BY <1>1, <1>2, ElementInduction
<1> QED
  BY <1>3

=============================================================================
