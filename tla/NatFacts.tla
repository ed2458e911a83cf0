------------------------------ MODULE NatFacts ------------------------------
(* Facts about natural numbers that the proofs of several modules share.   *)
EXTENDS Integers, WellFoundedInduction, TLAPS

\* The less-than relation as a set of pairs.
Less == {ss \in Nat \X Nat : ss[1] < ss[2]}

\* Less-than is well-founded.
LEMMA LessWellFounded == IsWellFoundedOn(Less, Nat)
BY NatLessThanWellFounded, Zenon DEF OpToRel, Less

\* Membership in Less.
LEMMA LessPair == \A x, y \in Nat : y < x => <<y, x>> \in Less
BY DEF Less

\* A non-empty set of naturals has a least element: the step from "some entry,
\* block or node" to "the first one", which replaces induction in the proofs.
THEOREM LeastElement ==
  ASSUME NEW S \in SUBSET Nat, S # {}
  PROVE  \E x \in S : \A y \in S : x <= y
<1>1. PICK x \in S : \A y \in S : ~(<<y, x>> \in Less)
  BY LessWellFounded, WFMin, Zenon
<1>2. \A y \in S : ~(y < x)
  BY <1>1, LessPair, Zenon
<1>3. \A y \in S : x <= y
  BY <1>2
<1>4. QED
  BY <1>3

\* The greatest element of a non-empty set of naturals that has a bound.
THEOREM GreatestElement ==
  ASSUME NEW S \in SUBSET Nat, S # {}, NEW n \in Nat, \A x \in S : x <= n
  PROVE  \E x \in S : \A y \in S : y <= x
<1> DEFINE Co == {n - x : x \in S}
<1>1. Co \in SUBSET Nat /\ Co # {}
  <2>1. \A x \in S : n - x \in Nat
    OBVIOUS
  <2>2. QED
    BY <2>1, Zenon
<1>2. PICK c \in Co : \A d \in Co : c <= d
  BY <1>1, LeastElement, Zenon
<1>3. PICK x \in S : c = n - x
  BY <1>2
<1>4. ASSUME NEW y \in S PROVE y <= x
  <2>1. c <= n - y
    BY <1>2
  <2>2. QED
    BY <2>1, <1>3
<1>5. QED
  BY <1>4

\* f lists h, g[h], g[g[h]], ... up to c applications of g.
IsIteration(f, S, h, g, c) ==
  f \in [0 .. c -> S] /\ f[0] = h /\ \A k \in 1 .. c : f[k] = g[f[k - 1]]

\* Iterating a function from a start value any number of times is possible: the
\* existence of the sequences that a recursive function describes.
THEOREM IterationExists ==
  ASSUME NEW S, NEW h \in S, NEW g \in [S -> S], NEW c \in Nat
  PROVE  \E f : IsIteration(f, S, h, g, c)
<1> USE DEF IsIteration
<1> DEFINE Iter(n, f) == f[0] = h /\ \A k \in 1 .. n : f[k] = g[f[k - 1]]
           Bad == {n \in Nat : ~ \E f \in [0 .. n -> S] : Iter(n, f)}
<1>1. Bad \in SUBSET Nat
  OBVIOUS
<1>2. SUFFICES ASSUME Bad # {} PROVE FALSE
  OBVIOUS
<1>3. PICK n \in Bad : \A l \in Bad : n <= l
  BY <1>1, <1>2, LeastElement, Zenon
<1>4. n \in Nat /\ ~ \E f \in [0 .. n -> S] : Iter(n, f)
  OBVIOUS
<1>5. CASE n = 0
  <2> DEFINE f == [k \in 0 .. 0 |-> h]
  <2>1. f \in [0 .. 0 -> S] /\ Iter(0, f)
    OBVIOUS
  <2>2. QED
    BY <2>1, <1>4, <1>5, Zenon
<1>6. CASE n # 0
  <2>1. n - 1 \in Nat /\ ~(n <= n - 1)
    BY <1>4, <1>6
  <2>2. PICK f \in [0 .. n - 1 -> S] : Iter(n - 1, f)
    BY <2>1, <1>3, Zenon
  <2> DEFINE e == [k \in 0 .. n |-> IF k = n THEN g[f[n - 1]] ELSE f[k]]
  <2>3. f[n - 1] \in S
    BY <2>1, <2>2
  <2>4. e \in [0 .. n -> S]
    BY <2>2, <2>3, <1>4
  <2>5. e[0] = h
    BY <2>2, <1>4, <1>6
  <2>6. ASSUME NEW k \in 1 .. n PROVE e[k] = g[e[k - 1]]
    <3>1. e[k - 1] = f[k - 1]
      BY <1>4
    <3>2. CASE k = n
      BY <3>1, <3>2, <1>4
    <3>3. CASE k # n
      <4>1. k \in 1 .. n - 1
        BY <3>3, <1>4
      <4>2. e[k] = f[k]
        BY <3>3, <1>4
      <4>3. QED
        BY <4>1, <4>2, <3>1, <2>2
    <3>4. QED
      BY <3>2, <3>3
  <2>7. Iter(n, e)
    BY <2>5, <2>6, Zenon
  <2>8. QED
    BY <2>4, <2>7, <1>4, Zenon
<1>7. QED
  BY <1>5, <1>6

\* Bounds of the quotient, for a divisor that is not a number literal.
LEMMA DivBounds ==
  ASSUME NEW d \in Nat \ {0}, NEW a \in Nat
  PROVE  /\ a \div d \in Nat
         /\ (a \div d) * d <= a
         /\ a < (a \div d + 1) * d
OBVIOUS

\* The remainder of a number below the modulus.
LEMMA ModSmall ==
  ASSUME NEW d \in Nat \ {0}, NEW a \in Nat
  PROVE  /\ a % d \in 0 .. d - 1
         /\ a < d => a % d = a
OBVIOUS
=============================================================================
