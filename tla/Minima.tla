------------------------------- MODULE Minima -------------------------------
(* What the proofs use in place of induction over data: a nonempty set of  *)
(* natural numbers has a least element, so a statement that fails for some *)
(* number, or some finite set, has a smallest failure.  From it come the   *)
(* facts about sums over finite sets, which the models take with           *)
(* MapThenSumSet, and a fact about quotients.                              *)
EXTENDS Integers, FiniteSets, FiniteSetsExt, FiniteSetTheorems, NaturalsInduction,
        WellFoundedInduction, TLAPS

LEMMA LeastNat ==
    ASSUME NEW T, T \subseteq Nat, T # {}
    PROVE  \E n \in T : \A k \in T : n <= k
<1> DEFINE R == OpToRel(<, Nat)
<1>1. IsWellFoundedOn(R, Nat)
  BY NatLessThanWellFounded
<1>2. \A x, y \in Nat : <<x, y>> \in R <=> x < y
  BY DEF OpToRel
<1> HIDE DEF R
<1>3. PICK x \in T : \A y \in T : ~ (<<y, x>> \in R)
  BY <1>1, WFMin
<1>4. \A y \in T : x <= y
  <2> TAKE y \in T
  <2>1. x \in Nat /\ y \in Nat
    OBVIOUS
  <2>2. ~ (y < x)
    BY <1>2, <1>3, <2>1
  <2> QED
    BY <2>1, <2>2
<1> QED
  BY <1>4

\* Among subsets of a finite set there is one such that removing an element
\* leads out of them.
LEMMA SmallestSet ==
    ASSUME NEW S, IsFiniteSet(S), NEW B, B \subseteq SUBSET S, B # {}
    PROVE  \E s \in B : \A x \in s : s \ {x} \notin B
<1> DEFINE T == {Cardinality(s) : s \in B}
<1>1. \A s \in SUBSET S : IsFiniteSet(s) /\ Cardinality(s) \in Nat
  BY FS_Subset, FS_CardinalityType
<1>2. T \subseteq Nat /\ T # {}
  BY <1>1
<1>3. PICK n \in T : \A k \in T : n <= k
  BY <1>2, LeastNat
<1>4. PICK s \in B : Cardinality(s) = n
  BY <1>3
<1>5. \A x \in s : s \ {x} \notin B
  <2> SUFFICES ASSUME NEW x \in s, s \ {x} \in B PROVE FALSE
    OBVIOUS
  <2>1. Cardinality(s \ {x}) = Cardinality(s) - 1
    BY <1>1, FS_RemoveElement
  <2>2. n <= Cardinality(s \ {x})
    BY <1>3
  <2>3. n \in Nat
    BY <1>2, <1>3
  <2> QED
    BY <1>4, <2>1, <2>2, <2>3
<1> QED
  BY <1>5

-----------------------------------------------------------------------------
Pick(s) == CHOOSE x \in s : TRUE

\* f is the sums of g over the subsets of S, as MapThenSumSet defines them.
SumsOf(f, g, S) ==
    f = [s \in SUBSET S |-> IF s = {} THEN 0 ELSE g[Pick(s)] + f[s \ {Pick(s)}]]

SumOf(g, S) == (CHOOSE f : SumsOf(f, g, S))[S]

LEMMA SumIsSumOf == ASSUME NEW g, NEW S PROVE MapThenSumSet(LAMBDA x : g[x], S) = SumOf(g, S)
BY DEF MapThenSumSet, MapThenFoldSet, Pick, SumOf, SumsOf

LEMMA PickIsIn == \A s : s # {} => Pick(s) \in s
BY DEF Pick

LEMMA SumsExist ==
    ASSUME NEW S, IsFiniteSet(S), NEW g
    PROVE  \E f : SumsOf(f, g, S)
<1> DEFINE Small(n) == {s \in SUBSET S : Cardinality(s) <= n}
           Eqn(f, n) == f = [s \in Small(n) |-> IF s = {} THEN 0 ELSE g[Pick(s)] + f[s \ {Pick(s)}]]
           Bad == {n \in Nat : ~ \E f : Eqn(f, n)}
<1>1. \A s \in SUBSET S : IsFiniteSet(s) /\ Cardinality(s) \in Nat /\ Cardinality(s) <= Cardinality(S)
  BY FS_Subset, FS_CardinalityType
<1>2. \A s \in SUBSET S : s # {} =>
          s \ {Pick(s)} \in SUBSET S /\ Cardinality(s \ {Pick(s)}) = Cardinality(s) - 1
  BY <1>1, PickIsIn, FS_RemoveElement
<1>3. Bad = {}
  <2> SUFFICES ASSUME Bad # {} PROVE FALSE
    OBVIOUS
  <2>1. PICK n \in Bad : \A k \in Bad : n <= k
    BY LeastNat
  <2>2. CASE n = 0
    <3>1. \A s \in Small(0) : s = {}
      BY <1>1, FS_EmptySet
    <3>2. Eqn([s \in Small(0) |-> 0], 0)
      BY <3>1
    <3> QED
      BY <2>1, <2>2, <3>2
  <2>3. CASE n # 0
    <3>1. n \in Nat /\ n - 1 \in Nat /\ n - 1 \notin Bad
      <4>1. Bad \subseteq Nat
        OBVIOUS
      <4> HIDE DEF Bad
      <4> QED
        BY <2>1, <2>3, <4>1
    <3>2. PICK f : Eqn(f, n - 1)
      BY <3>1
    <3> DEFINE h == [s \in Small(n) |-> IF s = {} THEN 0 ELSE g[Pick(s)] + f[s \ {Pick(s)}]]
    <3>3. \A t \in Small(n - 1) : t \in Small(n) /\ f[t] = h[t]
      <4> TAKE t \in Small(n - 1)
      <4>1. t \in Small(n)
        BY <1>1, <3>1
      <4>2. f[t] = IF t = {} THEN 0 ELSE g[Pick(t)] + f[t \ {Pick(t)}]
        BY <3>2
      <4> QED
        BY <4>1, <4>2
    <3>4. \A s \in Small(n) : s # {} => s \ {Pick(s)} \in Small(n - 1)
      BY <1>1, <1>2, <3>1
    <3>5. \A s \in Small(n) : h[s] = IF s = {} THEN 0 ELSE g[Pick(s)] + h[s \ {Pick(s)}]
      <4> TAKE s \in Small(n)
      <4>1. h[s] = IF s = {} THEN 0 ELSE g[Pick(s)] + f[s \ {Pick(s)}]
        OBVIOUS
      <4>2. s # {} => f[s \ {Pick(s)}] = h[s \ {Pick(s)}]
        BY <3>3, <3>4
      <4> QED
        BY <4>1, <4>2
    <3>6. h = [s \in Small(n) |-> h[s]]
      OBVIOUS
    <3> HIDE DEF h, Small
    <3>7. Eqn(h, n)
      BY <3>5, <3>6
    <3> QED
      BY <2>1, <3>7
  <2> QED
    BY <2>2, <2>3
<1>4. Cardinality(S) \in Nat /\ Small(Cardinality(S)) = SUBSET S
  BY <1>1
<1>5. PICK f : Eqn(f, Cardinality(S))
  BY <1>3, <1>4
<1>6. SumsOf(f, g, S)
  BY <1>4, <1>5 DEF SumsOf
<1> QED
  BY <1>6

LEMMA SumsEquation ==
    ASSUME NEW S, NEW g, NEW f, SumsOf(f, g, S), NEW s \in SUBSET S
    PROVE  f[s] = IF s = {} THEN 0 ELSE g[Pick(s)] + f[s \ {Pick(s)}]
BY DEF SumsOf

LEMMA SumsAreNat ==
    ASSUME NEW S, IsFiniteSet(S), NEW g, \A x \in S : g[x] \in Nat, NEW f, SumsOf(f, g, S)
    PROVE  \A s \in SUBSET S : f[s] \in Nat
<1> DEFINE B == {s \in SUBSET S : f[s] \notin Nat}
<1> SUFFICES ASSUME B # {} PROVE FALSE
  OBVIOUS
<1>1. PICK s \in B : \A x \in s : s \ {x} \notin B
  BY SmallestSet
<1>2. CASE s = {}
  <2>1. s \in SUBSET S
    OBVIOUS
  <2>2. f[s] = 0
    BY <1>2, <2>1, SumsEquation
  <2> QED
    BY <1>1, <2>2
<1>3. CASE s # {}
  <2>1. Pick(s) \in s /\ s \in SUBSET S
    BY <1>3, PickIsIn
  <2>2. f[s \ {Pick(s)}] \in Nat /\ g[Pick(s)] \in Nat
    BY <1>1, <2>1
  <2>3. f[s] = g[Pick(s)] + f[s \ {Pick(s)}]
    BY <1>3, <2>1, SumsEquation
  <2> QED
    BY <1>1, <2>2, <2>3
<1> QED
  BY <1>2, <1>3

\* The sum does not depend on what lies outside the set.
LEMMA SumsAgree ==
    ASSUME NEW S, IsFiniteSet(S), NEW g, NEW f, SumsOf(f, g, S),
           NEW T, NEW h, NEW e, SumsOf(e, h, T), S \subseteq T, \A x \in S : g[x] = h[x]
    PROVE  \A s \in SUBSET S : f[s] = e[s]
<1> DEFINE B == {s \in SUBSET S : f[s] # e[s]}
<1> SUFFICES ASSUME B # {} PROVE FALSE
  OBVIOUS
<1>1. PICK s \in B : \A x \in s : s \ {x} \notin B
  BY SmallestSet
<1>2. /\ f[s] = IF s = {} THEN 0 ELSE g[Pick(s)] + f[s \ {Pick(s)}]
      /\ e[s] = IF s = {} THEN 0 ELSE h[Pick(s)] + e[s \ {Pick(s)}]
  <2>1. s \in SUBSET S /\ s \in SUBSET T
    BY <1>1
  <2> QED
    BY <2>1, SumsEquation
<1>3. CASE s = {}
  BY <1>1, <1>2, <1>3
<1>4. CASE s # {}
  <2>1. Pick(s) \in s /\ s \in SUBSET S
    BY <1>4, PickIsIn
  <2>2. f[s \ {Pick(s)}] = e[s \ {Pick(s)}] /\ g[Pick(s)] = h[Pick(s)]
    BY <1>1, <2>1
  <2> QED
    BY <1>1, <1>2, <1>4, <2>2
<1> QED
  BY <1>3, <1>4

\* Nor on the order in which the elements are taken.
LEMMA SumsTakeAny ==
    ASSUME NEW S, IsFiniteSet(S), NEW g, \A x \in S : g[x] \in Nat, NEW f, SumsOf(f, g, S)
    PROVE  \A s \in SUBSET S : \A y \in s : f[s] = g[y] + f[s \ {y}]
<1> DEFINE B == {s \in SUBSET S : \E y \in s : f[s] # g[y] + f[s \ {y}]}
<1> SUFFICES ASSUME B # {} PROVE FALSE
  OBVIOUS
<1>1. PICK s \in B : \A x \in s : s \ {x} \notin B
  BY SmallestSet
<1>2. PICK y \in s : f[s] # g[y] + f[s \ {y}]
  BY <1>1
<1> DEFINE x == Pick(s)
           w == (s \ {x}) \ {y}
<1>3. x \in s /\ s \in SUBSET S /\ f[s] = g[x] + f[s \ {x}]
  <2>1. s \in SUBSET S /\ s # {}
    BY <1>2
  <2>2. f[s] = g[Pick(s)] + f[s \ {Pick(s)}]
    BY <2>1, SumsEquation
  <2> QED
    BY <2>1, <2>2, PickIsIn
<1>4. x # y
  BY <1>2, <1>3
<1>5. f[s \ {x}] = g[y] + f[w]
  <2>1. s \ {x} \in SUBSET S /\ s \ {x} \notin B /\ y \in s \ {x}
    BY <1>1, <1>3, <1>4
  <2> QED
    BY <2>1
<1>6. f[s \ {y}] = g[x] + f[w]
  <2>1. s \ {y} \in SUBSET S /\ s \ {y} \notin B /\ x \in s \ {y} /\ (s \ {y}) \ {x} = w
    BY <1>1, <1>3, <1>4
  <2> QED
    BY <2>1
<1>7. f[w] \in Nat /\ g[x] \in Nat /\ g[y] \in Nat
  BY <1>3, SumsAreNat
<1> HIDE DEF x, w, B
<1>8. f[s] = g[y] + f[s \ {y}]
  BY <1>3, <1>5, <1>6, <1>7
<1> QED
  BY <1>2, <1>8

LEMMA SumTakesAny ==
    ASSUME NEW S, IsFiniteSet(S), NEW g, \A x \in S : g[x] \in Nat, NEW f, SumsOf(f, g, S),
           NEW s \in SUBSET S, NEW y \in s
    PROVE  f[s] = g[y] + f[s \ {y}]
BY SumsTakeAny

\* Adding an element adds its value.
LEMMA SumOfOneMore ==
    ASSUME NEW S, IsFiniteSet(S), NEW g, \A x \in S : g[x] \in Nat,
           NEW y, y \notin S, NEW h, h[y] \in Nat, \A x \in S : h[x] = g[x]
    PROVE  /\ SumOf(h, S \cup {y}) = h[y] + SumOf(g, S)
           /\ SumOf(g, S) \in Nat
<1> DEFINE T == S \cup {y}
           f == CHOOSE z : SumsOf(z, g, S)
           e == CHOOSE z : SumsOf(z, h, T)
<1>1. IsFiniteSet(T) /\ \A x \in T : h[x] \in Nat
  BY FS_AddElement
<1>2. SumsOf(f, g, S) /\ SumsOf(e, h, T)
  BY <1>1, SumsExist
<1>3. SumOf(g, S) = f[S] /\ SumOf(h, T) = e[T]
  BY DEF SumOf
<1> HIDE DEF f, e
<1>4. e[T] = h[y] + e[S]
  <2>1. IsFiniteSet(T) /\ (\A x \in T : h[x] \in Nat) /\ SumsOf(e, h, T)
    BY <1>1, <1>2
  <2>2. T \ {y} = S /\ T \in SUBSET T /\ y \in T
    OBVIOUS
  <2> HIDE DEF T
  <2>3. e[T] = h[y] + e[T \ {y}]
    BY ONLY <2>1, <2>2, SumTakesAny
  <2> QED
    BY <2>2, <2>3
<1>5. f[S] = e[S]
  BY <1>2, SumsAgree
<1>6. f[S] \in Nat
  BY <1>2, SumsAreNat
<1> QED
  BY <1>3, <1>4, <1>5, <1>6

LEMMA SumOfNone == ASSUME NEW g PROVE SumOf(g, {}) = 0
<1> DEFINE f == CHOOSE z : SumsOf(z, g, {})
<1>1. SumsOf(f, g, {})
  BY FS_EmptySet, SumsExist
<1>2. SumOf(g, {}) = f[{}]
  BY DEF SumOf
<1> HIDE DEF f
<1> QED
  BY <1>1, <1>2, SumsEquation

\* A quotient is the largest factor that fits.
LEMMA QuotientFits ==
    ASSUME NEW a \in Nat, NEW b \in Nat \ {0}
    PROVE  /\ a \div b \in Nat
           /\ \A c \in Nat : c <= a \div b => c * b <= a
           /\ \A c \in Nat : c > a \div b => c * b > a
<1>1. a \div b \in Int /\ a % b \in 0..(b - 1) /\ a = b * (a \div b) + (a % b)
  OBVIOUS
<1>2. a \div b \in Nat
  OBVIOUS
<1>3. ASSUME NEW c \in Nat, c <= a \div b
      PROVE  c * b <= a
  <2>1. c * b <= b * (a \div b)
    BY <1>2, <1>3
  <2> QED
    BY <1>1, <2>1
<1>4. ASSUME NEW c \in Nat, c > a \div b
      PROVE  c * b > a
  <2>1. c * b >= b * (a \div b) + b
    BY <1>2, <1>4
  <2> QED
    BY <1>1, <2>1
<1> QED
  BY <1>2, <1>3, <1>4
=============================================================================
