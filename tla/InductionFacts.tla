--------------------------- MODULE InductionFacts ---------------------------
(***************************************************************************)
(* Induction over the naturals and the existence of recursive functions,   *)
(* stated with sets and functions in place of operator parameters, which   *)
(* the provers cannot instantiate; and the sum of a function.              *)
(***************************************************************************)
EXTENDS Integers, Functions, FiniteSetTheorems, TLAPS

\* Every set of naturals has a least element: the initial segments of its elements
\* are finite sets, and these are well-founded under strict inclusion.
LEMMA LeastNatural ==
  ASSUME NEW S \in SUBSET Nat, S # {}
  PROVE  \E n \in S : \A m \in S : n <= m
<1> DEFINE R == StrictSubsetOrdering(Nat)
           F == FiniteSubsetsOf(Nat)
           T == {0..n : n \in S}
<1>1. IsWellFoundedOn(R, F)
  BY FS_StrictSubsetOrderingWellFounded
<1>2. T \subseteq F /\ T # {}
  <2>1. ASSUME NEW n \in S PROVE 0..n \in F
    <3>1. IsFiniteSet(0..n)
      BY FS_Interval
    <3>2. 0..n \in SUBSET Nat
      OBVIOUS
    <3> QED BY <3>1, <3>2 DEF FiniteSubsetsOf
  <2> QED BY <2>1
<1>3. \E x \in T : \A y \in T : ~ (<<y, x>> \in R)
  <2> HIDE DEF T
  <2> QED BY <1>1, <1>2, WFMin
<1>4. PICK n \in S : \A m \in S : ~ (<<0..m, 0..n>> \in R)
  BY <1>3
<1>5. ASSUME NEW m \in S, m < n PROVE FALSE
  <2>1. 0..m \subseteq 0..n /\ 0..m # 0..n
    <3>1. n \in 0..n /\ n \notin 0..m
      BY <1>5
    <3> QED BY <1>5, <3>1
  <2>2. <<0..m, 0..n>> \in R
    BY <2>1 DEF StrictSubsetOrdering
  <2> QED BY <1>4, <2>2
<1> QED BY <1>5

\* A set of naturals with a bound has a greatest element.
LEMMA GreatestNatural ==
  ASSUME NEW n \in Nat, NEW S \in SUBSET (0..n), S # {}
  PROVE  \E m \in S : \A k \in S : k <= m
<1> DEFINE T == {n - m : m \in S}
<1>1. T \in SUBSET Nat /\ T # {}
  <2>1. \A m \in S : n - m \in Nat
    OBVIOUS
  <2>2. PICK m \in S : TRUE
    OBVIOUS
  <2> QED BY <2>1, <2>2
<1>2. PICK t \in T : \A u \in T : t <= u
  <2> HIDE DEF T
  <2> QED BY <1>1, LeastNatural
<1>3. PICK m \in S : t = n - m
  BY <1>2
<1>4. ASSUME NEW k \in S PROVE k <= m
  <2>1. n - k \in T
    OBVIOUS
  <2>2. n - m <= n - k
    <3> HIDE DEF T
    <3> QED BY <1>2, <1>3, <2>1
  <2> QED BY <2>2
<1> QED BY <1>4

\* A set that holds 0, and the successor of each natural it holds, holds all of them.
LEMMA Induction ==
  ASSUME NEW S, 0 \in S, \A n \in Nat : n \in S => n + 1 \in S
  PROVE  Nat \subseteq S
<1> SUFFICES ASSUME Nat \ S # {} PROVE FALSE
  OBVIOUS
<1>1. PICK n \in Nat \ S : \A m \in Nat \ S : n <= m
  BY LeastNatural
<1> QED BY <1>1

\* f begins with v and goes on by step.
Iterates(f, V, v, step) ==
  /\ f \in [Nat -> V]
  /\ f[0] = v
  /\ \A n \in Nat \ {0} : f[n] = step[f[n - 1]]

\* There is a function that begins with v and goes on by step: the one whose value at
\* n is that of any start of length n, since two such starts agree as far as both go.
LEMMA Recursion ==
  ASSUME NEW V, NEW v \in V, NEW step \in [V -> V]
  PROVE  \E f : Iterates(f, V, v, step)
<1> DEFINE Starts(n, g) == g[0] = v /\ \A m \in 1..n : g[m] = step[g[m - 1]]
           Known == {n \in Nat : \E g \in [0..n -> V] : Starts(n, g)}
<1>1. Nat \subseteq Known
  <2>1. 0 \in Known
    <3>1. [m \in 0..0 |-> v] \in [0..0 -> V] /\ Starts(0, [m \in 0..0 |-> v])
      OBVIOUS
    <3> QED BY <3>1
  <2>2. ASSUME NEW n \in Nat, n \in Known PROVE n + 1 \in Known
    <3>1. PICK g \in [0..n -> V] : Starts(n, g)
      BY <2>2
    <3> DEFINE h == [m \in 0..(n + 1) |-> IF m = n + 1 THEN step[g[n]] ELSE g[m]]
    <3>2. h \in [0..(n + 1) -> V]
      BY <3>1
    <3>3. h[0] = v
      BY <3>1
    <3>4. ASSUME NEW m \in 1..(n + 1) PROVE h[m] = step[h[m - 1]]
      <4>1. m - 1 \in 0..n /\ m - 1 # n + 1
        OBVIOUS
      <4>2. h[m - 1] = g[m - 1]
        BY <4>1
      <4>3. CASE m = n + 1
        BY <4>2, <4>3
      <4>4. CASE m # n + 1
        <5>1. m \in 1..n /\ m \in 0..(n + 1)
          BY <4>4
        <5> QED BY <5>1, <4>2, <4>4, <3>1
      <4> QED BY <4>3, <4>4
    <3>5. \E x \in [0..(n + 1) -> V] : Starts(n + 1, x)
      <4> HIDE DEF h
      <4> QED BY <3>2, <3>3, <3>4
    <3> QED BY <3>5
  <2> HIDE DEF Known
  <2> QED BY <2>1, <2>2, Induction
<1> DEFINE start == [n \in Nat |-> CHOOSE g \in [0..n -> V] : Starts(n, g)]
           f == [n \in Nat |-> start[n][n]]
<1>2. ASSUME NEW n \in Nat PROVE start[n] \in [0..n -> V] /\ Starts(n, start[n])
  <2>1. \E g \in [0..n -> V] : Starts(n, g)
    BY <1>1
  <2> HIDE DEF Starts
  <2> QED BY <2>1
<1>3. ASSUME NEW n \in Nat PROVE start[n + 1][n] = start[n][n]
  <2> DEFINE Agreed == {m \in Nat : m <= n => start[n + 1][m] = start[n][m]}
  <2>1. Starts(n, start[n]) /\ Starts(n + 1, start[n + 1])
    <3>1. n + 1 \in Nat
      OBVIOUS
    <3> HIDE DEF start, Starts
    <3> QED BY <1>2, <3>1
  <2>2. 0 \in Agreed
    BY <2>1
  <2>3. ASSUME NEW m \in Nat, m \in Agreed PROVE m + 1 \in Agreed
    <3> SUFFICES ASSUME m + 1 <= n PROVE start[n + 1][m + 1] = start[n][m + 1]
      OBVIOUS
    <3>1. start[n + 1][m] = start[n][m]
      BY <2>3
    <3>2. m + 1 \in 1..n /\ m + 1 \in 1..(n + 1) /\ (m + 1) - 1 = m
      OBVIOUS
    <3> HIDE DEF start
    <3> QED BY <3>1, <3>2, <2>1
  <2>4. Nat \subseteq Agreed
    <3> HIDE DEF Agreed
    <3> QED BY <2>2, <2>3, Induction
  <2>5. n \in Agreed
    BY <2>4
  <2> HIDE DEF start
  <2> QED BY <2>5
<1>4. f \in [Nat -> V]
  <2>1. ASSUME NEW n \in Nat PROVE start[n][n] \in V
    <3> HIDE DEF start
    <3> QED BY <1>2
  <2> QED BY <2>1
<1>5. ASSUME NEW n \in Nat PROVE f[n] = IF n = 0 THEN v ELSE step[f[n - 1]]
  <2>1. Starts(n, start[n])
    BY <1>2
  <2>2. CASE n = 0
    BY <2>1, <2>2
  <2>3. CASE n # 0
    <3>1. n - 1 \in Nat /\ n = (n - 1) + 1 /\ n \in 1..n
      BY <2>3
    <3>2. start[n][n - 1] = start[n - 1][n - 1]
      <4> HIDE DEF start
      <4> QED BY <1>3, <3>1
    <3>3. start[n][n] = step[start[n][n - 1]]
      <4> HIDE DEF start
      <4> QED BY <2>1, <3>1
    <3> HIDE DEF start
    <3> QED BY <2>3, <3>1, <3>2, <3>3
  <2> QED BY <2>2, <2>3
<1>6. f[0] = v /\ \A n \in Nat \ {0} : f[n] = step[f[n - 1]]
  <2> HIDE DEF f
  <2> QED BY <1>5
<1>7. Iterates(f, V, v, step)
  <2> HIDE DEF f
  <2> QED BY <1>4, <1>6 DEF Iterates
<1> QED
  <2> HIDE DEF f
  <2> QED BY <1>7

\* The size of a segment.
LEMMA SegmentSize == ASSUME NEW n \in Nat PROVE IsFiniteSet(1..n) /\ Cardinality(1..n) = n
<1>1. IsFiniteSet(1..n) /\ Cardinality(1..n) = IF 1 > n THEN 0 ELSE n - 1 + 1
  BY FS_Interval
<1> QED BY <1>1

-----------------------------------------------------------------------------
(* The sum of a function on a finite set, as FoldFunction computes it.      *)

\* The element with which FoldFunction goes on, and the partial sums of f that it
\* builds, by the set they are taken over.
Picked(T) == CHOOSE x \in T : TRUE

SumsUp(h, f) ==
  h = [T \in SUBSET DOMAIN f |->
         IF T = {} THEN 0 ELSE f[Picked(T)] + h[T \ {Picked(T)}]]

Total(f) == FoldFunction(+, 0, f)

LEMMA TotalMeans ==
  ASSUME NEW f PROVE Total(f) = (CHOOSE h : SumsUp(h, f))[DOMAIN f]
BY DEF Total, FoldFunction, FoldFunctionOnSet, MapThenFoldSet, SumsUp, Picked

\* Taking the picked element off a set leaves one with an element less.
Shrinks(D, T) ==
  /\ Cardinality(T) \in Nat
  /\ Cardinality(T) <= Cardinality(D)
  /\ Cardinality(T) = 0 <=> T = {}
  /\ T # {} => /\ Picked(T) \in T /\ Picked(T) \in D
               /\ T \ {Picked(T)} \in SUBSET D
               /\ Cardinality(T \ {Picked(T)}) = Cardinality(T) - 1

LEMMA PickedIn ==
  ASSUME NEW D, IsFiniteSet(D), NEW T \in SUBSET D
  PROVE  Shrinks(D, T)
<1>1. IsFiniteSet(T) /\ Cardinality(T) <= Cardinality(D)
  BY FS_Subset
<1>2. Cardinality(T) \in Nat /\ (Cardinality(T) = 0 <=> T = {})
  BY <1>1, FS_CardinalityType, FS_EmptySet
<1>3. ASSUME T # {}
      PROVE  Picked(T) \in T /\ Cardinality(T \ {Picked(T)}) = Cardinality(T) - 1
  <2>1. Picked(T) \in T
    BY <1>3 DEF Picked
  <2> QED BY <1>1, <2>1, FS_RemoveElement
<1> QED BY <1>1, <1>2, <1>3 DEF Shrinks

\* What holds of the empty set, and of a set if it does without the picked element,
\* holds of every part of a finite set.
LEMMA PartsInduction ==
  ASSUME NEW D, IsFiniteSet(D), NEW Good, {} \in Good,
         \A T \in SUBSET D : T # {} /\ T \ {Picked(T)} \in Good => T \in Good
  PROVE  \A T \in SUBSET D : T \in Good
<1> DEFINE Known == {n \in Nat : \A T \in SUBSET D : Cardinality(T) = n => T \in Good}
<1>1. 0 \in Known
  <2>1. ASSUME NEW T \in SUBSET D, Cardinality(T) = 0 PROVE T \in Good
    <3>1. Shrinks(D, T)
      BY PickedIn
    <3> QED BY <2>1, <3>1 DEF Shrinks
  <2> QED BY <2>1
<1>2. ASSUME NEW n \in Nat, n \in Known PROVE n + 1 \in Known
  <2> SUFFICES ASSUME NEW T \in SUBSET D, Cardinality(T) = n + 1 PROVE T \in Good
    OBVIOUS
  <2>1. Shrinks(D, T)
    BY PickedIn
  <2>2. T # {} /\ T \ {Picked(T)} \in SUBSET D /\ Cardinality(T \ {Picked(T)}) = n
    BY <2>1 DEF Shrinks
  <2>3. T \ {Picked(T)} \in Good
    BY <1>2, <2>2
  <2> QED BY <2>2, <2>3
<1>3. Nat \subseteq Known
  <2> HIDE DEF Known
  <2> QED BY <1>1, <1>2, Induction
<1>4. ASSUME NEW T \in SUBSET D PROVE Cardinality(T) \in Nat
  <2>1. Shrinks(D, T)
    BY PickedIn
  <2> QED BY <2>1 DEF Shrinks
<1> QED BY <1>3, <1>4

\* The next partial sum, given those over smaller sets.
NextSum(h, f, T) == IF T = {} THEN 0 ELSE f[Picked(T)] + h[T \ {Picked(T)}]

\* The partial sums of a function on a finite set exist: those over sets of n
\* elements give those over sets of n + 1.
LEMMA SumsExist ==
  ASSUME NEW D, IsFiniteSet(D), NEW f \in [D -> Nat]
  PROVE  \E h : SumsUp(h, f)
<1> DEFINE UpTo(n) == \E h \in [SUBSET D -> Nat] :
                        \A T \in SUBSET D : Cardinality(T) <= n => h[T] = NextSum(h, f, T)
           Known == {n \in Nat : UpTo(n)}
<1>0. ASSUME NEW h \in [SUBSET D -> Nat], NEW T \in SUBSET D PROVE NextSum(h, f, T) \in Nat
  <2>1. Shrinks(D, T)
    BY PickedIn
  <2> QED BY <2>1 DEF Shrinks, NextSum
<1>1. 0 \in Known
  <2> DEFINE h == [T \in SUBSET D |-> 0]
  <2>1. ASSUME NEW T \in SUBSET D, Cardinality(T) <= 0 PROVE h[T] = NextSum(h, f, T)
    <3>1. Shrinks(D, T)
      BY PickedIn
    <3> QED BY <2>1, <3>1 DEF Shrinks, NextSum
  <2>2. h \in [SUBSET D -> Nat]
    OBVIOUS
  <2> QED BY <2>1, <2>2
<1>2. ASSUME NEW n \in Nat, n \in Known PROVE n + 1 \in Known
  <2>1. PICK h \in [SUBSET D -> Nat] :
          \A T \in SUBSET D : Cardinality(T) <= n => h[T] = NextSum(h, f, T)
    BY <1>2
  <2> DEFINE g == [T \in SUBSET D |-> NextSum(h, f, T)]
  <2>2. g \in [SUBSET D -> Nat]
    BY <1>0
  <2>3. ASSUME NEW T \in SUBSET D, Cardinality(T) <= n + 1 PROVE g[T] = NextSum(g, f, T)
    <3>1. CASE T = {}
      BY <3>1 DEF NextSum
    <3>2. CASE T # {}
      <4> DEFINE U == T \ {Picked(T)}
      <4>0. Shrinks(D, T)
        BY PickedIn
      <4>1. U \in SUBSET D /\ Cardinality(U) <= n
        BY <2>3, <3>2, <4>0 DEF Shrinks
      <4>2. g[U] = NextSum(h, f, U) /\ h[U] = NextSum(h, f, U)
        BY <2>1, <4>1
      <4>3. NextSum(h, f, T) = NextSum(g, f, T)
        BY <3>2, <4>2 DEF NextSum
      <4> QED BY <4>3
    <3> QED BY <3>1, <3>2
  <2>4. UpTo(n + 1)
    <3> HIDE DEF g
    <3> QED BY <2>2, <2>3
  <2> QED BY <2>4
<1>3. Cardinality(D) \in Known
  <2>1. Nat \subseteq Known
    <3> HIDE DEF Known
    <3> QED BY <1>1, <1>2, Induction
  <2> QED BY <2>1, FS_CardinalityType
<1>4. PICK h \in [SUBSET D -> Nat] :
        \A T \in SUBSET D : Cardinality(T) <= Cardinality(D) => h[T] = NextSum(h, f, T)
  BY <1>3
<1>5. ASSUME NEW T \in SUBSET D PROVE h[T] = NextSum(h, f, T)
  <2>1. Shrinks(D, T)
    BY PickedIn
  <2> QED BY <1>4, <2>1 DEF Shrinks
<1>6. h = [T \in SUBSET D |-> NextSum(h, f, T)]
  BY <1>5
<1>7. DOMAIN f = D
  OBVIOUS
<1> QED BY <1>6, <1>7 DEF SumsUp, NextSum

\* h holds the partial sums of f, a function on D.
PartialSums(h, f, D) ==
  /\ \A T \in SUBSET D : h[T] \in Nat
  /\ h[{}] = 0
  /\ \A T \in SUBSET D : T # {} => h[T] = f[Picked(T)] + h[T \ {Picked(T)}]
  /\ Total(f) = h[D]

LEMMA TotalIsSum ==
  ASSUME NEW D, IsFiniteSet(D), NEW f \in [D -> Nat]
  PROVE  \E h : PartialSums(h, f, D)
<1> DEFINE h == CHOOSE i : SumsUp(i, f)
<1>1. SumsUp(h, f)
  BY SumsExist
<1>2. Total(f) = h[D]
  BY TotalMeans
<1> HIDE DEF h
<1>3. h = [T \in SUBSET D |-> NextSum(h, f, T)]
  BY <1>1 DEF SumsUp, NextSum
<1>4. ASSUME NEW T \in SUBSET D PROVE h[T] = NextSum(h, f, T)
  BY <1>3
<1> DEFINE Good == {T \in SUBSET D : h[T] \in Nat}
<1>5. {} \in Good
  <2>1. h[{}] = NextSum(h, f, {})
    BY <1>4
  <2> QED BY <2>1 DEF NextSum
<1>6. ASSUME NEW T \in SUBSET D, T # {}, T \ {Picked(T)} \in Good PROVE T \in Good
  <2>1. Shrinks(D, T)
    BY PickedIn
  <2>2. f[Picked(T)] \in Nat
    BY <1>6, <2>1 DEF Shrinks
  <2> QED BY <1>4, <1>6, <2>2 DEF NextSum
<1>7. \A T \in SUBSET D : T \in Good
  <2> HIDE DEF Good
  <2> QED BY <1>5, <1>6, PartsInduction
<1>8. \A T \in SUBSET D : h[T] \in Nat
  BY <1>7
<1>9. h[{}] = 0 /\ \A T \in SUBSET D : T # {} => h[T] = f[Picked(T)] + h[T \ {Picked(T)}]
  BY <1>4 DEF NextSum
<1> QED BY <1>2, <1>8, <1>9 DEF PartialSums

\* A function that was 0 at c and is changed there only has a total that is larger by
\* its new value.
LEMMA TotalGrows ==
  ASSUME NEW D, IsFiniteSet(D), NEW f \in [D -> Nat], NEW g \in [D -> Nat],
         NEW c \in D, f[c] = 0, \A d \in D \ {c} : g[d] = f[d]
  PROVE  Total(g) = Total(f) + g[c]
<1>1. PICK hf : PartialSums(hf, f, D)
  BY TotalIsSum
<1>2. PICK hg : PartialSums(hg, g, D)
  BY TotalIsSum
<1> DEFINE Good == {T \in SUBSET D : hg[T] = hf[T] + (IF c \in T THEN g[c] ELSE 0)}
<1>3. {} \in Good
  BY <1>1, <1>2 DEF PartialSums
<1>4. ASSUME NEW T \in SUBSET D, T # {}, T \ {Picked(T)} \in Good PROVE T \in Good
  <2> DEFINE x == Picked(T)
             U == T \ {x}
  <2>1. Shrinks(D, T)
    BY PickedIn
  <2>2. x \in T /\ x \in D /\ U \in SUBSET D
    BY <1>4, <2>1 DEF Shrinks
  <2>3. hf[T] = f[x] + hf[U] /\ hg[T] = g[x] + hg[U] /\ hf[U] \in Nat
    BY <1>1, <1>2, <1>4, <2>2 DEF PartialSums
  <2>4. hg[U] = hf[U] + (IF c \in U THEN g[c] ELSE 0)
    BY <1>4
  <2>5. CASE x = c
    <3>1. c \in T /\ c \notin U /\ f[x] = 0 /\ g[x] = g[c] /\ g[c] \in Nat
      BY <2>2, <2>5
    <3>2. hg[T] = hf[T] + g[c]
      <4> HIDE DEF x, U
      <4> QED BY <2>3, <2>4, <3>1
    <3> QED BY <3>1, <3>2
  <2>6. CASE x # c
    <3>1. (c \in T <=> c \in U) /\ f[x] = g[x] /\ f[x] \in Nat /\ g[c] \in Nat
      BY <2>2, <2>6
    <3>2. hg[T] = hf[T] + (IF c \in T THEN g[c] ELSE 0)
      <4> HIDE DEF x, U
      <4> QED BY <2>3, <2>4, <3>1
    <3> QED BY <3>2
  <2> QED BY <2>5, <2>6
<1>5. \A T \in SUBSET D : T \in Good
  <2> HIDE DEF Good
  <2> QED BY <1>3, <1>4, PartsInduction
<1> QED BY <1>1, <1>2, <1>5 DEF PartialSums

\* The total of a function that is 0 everywhere.
LEMMA TotalZero ==
  ASSUME NEW D, IsFiniteSet(D) PROVE Total([d \in D |-> 0]) = 0
<1> DEFINE f == [d \in D |-> 0]
<1>1. PICK h : PartialSums(h, f, D)
  BY TotalIsSum
<1> DEFINE Good == {T \in SUBSET D : h[T] = 0}
<1>2. {} \in Good
  BY <1>1 DEF PartialSums
<1>3. ASSUME NEW T \in SUBSET D, T # {}, T \ {Picked(T)} \in Good PROVE T \in Good
  <2>1. Shrinks(D, T)
    BY PickedIn
  <2>2. f[Picked(T)] = 0
    BY <1>3, <2>1 DEF Shrinks
  <2>3. h[T] = f[Picked(T)] + h[T \ {Picked(T)}]
    BY <1>1, <1>3 DEF PartialSums
  <2>4. h[T \ {Picked(T)}] = 0
    BY <1>3
  <2> HIDE DEF f
  <2> QED BY <2>2, <2>3, <2>4
<1>4. \A T \in SUBSET D : T \in Good
  <2> HIDE DEF Good
  <2> QED BY <1>2, <1>3, PartsInduction
<1> QED BY <1>1, <1>4 DEF PartialSums

=============================================================================
