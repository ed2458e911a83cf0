----------------------------- MODULE PmmProofs -----------------------------
(* Proofs about module Pmm, for every block size, word size and every set  *)
(* of well-formed memory maps.                                             *)
EXTENDS Pmm, NatFacts, TLAPS

-----------------------------------------------------------------------------
(* Arithmetic and least elements.                                          *)

\* First, which every scan of the bitmap returns, is the least element.
LEMMA FirstIsLeast ==
  ASSUME NEW S \in SUBSET Nat, S # {}
  PROVE  First(S) \in S /\ \A y \in S : First(S) <= y
BY LeastElement, Zenon DEF First

\* A block lies at or above the block of address lo iff it ends above lo.
LEMMA BlockAbove ==
  ASSUME NEW lo \in Nat, NEW b \in Nat
  PROVE  b >= lo \div PMM_BLK_SZ <=> (b + 1) * PMM_BLK_SZ > lo
<1> DEFINE B == PMM_BLK_SZ
<1>1. B \in Nat \ {0}
  BY PmmConstants
<1> HIDE DEF B
<1>2. b >= lo \div B <=> (b + 1) * B > lo
  BY <1>1
<1>3. QED
  BY <1>2 DEF B

\* The marking loop sets exactly the blocks that overlap [lo, hi), when lo < hi.
LEMMA TouchedIsOverlap ==
  ASSUME NEW lo \in Nat, NEW hi \in Nat, NEW b \in Nat
  PROVE  b \in Touched(lo, hi)
           <=> (b + 1) * PMM_BLK_SZ > lo /\ b * PMM_BLK_SZ < hi
<1> DEFINE B == PMM_BLK_SZ
<1>1. B \in Nat \ {0}
  BY PmmConstants
<1>2. b >= lo \div B <=> (b + 1) * B > lo
  BY BlockAbove
<1> HIDE DEF B
<1>3. b * B < hi => b <= hi \div B
  BY <1>1
<1>4. lo \div B \in Int /\ hi \div B \in Int
  BY <1>1
<1>5. b \in {c \in (lo \div B) .. (hi \div B) : c * B < hi}
        <=> (b + 1) * B > lo /\ b * B < hi
  BY <1>2, <1>3, <1>4
<1>6. QED
  BY <1>5 DEF Touched, B

-----------------------------------------------------------------------------
(* What init_pmm leaves free.                                              *)

\* An entry below WORD is read as it is.
LEMMA EntryBounds ==
  ASSUME NEW e \in Entry, e.base + e.len < WORD
  PROVE  /\ BaseL(e) = e.base
         /\ EndL(e) = e.base + e.len
<1> DEFINE b == e.base
           l == e.len
<1>1. b \in Nat /\ l \in Nat /\ b + l < WORD /\ WORD \in Nat \ {0}
  BY PmmConstants DEF Entry
<1> HIDE DEF b, l
<1>2. b % WORD = b /\ l % WORD = l /\ (b + l) % WORD = b + l
  BY <1>1
<1>3. QED
  BY <1>2 DEF BaseL, LenL, EndL, b, l

\* Two entries in their order: where the first begins and ends, seen from the
\* end of the second, and that they share no address.
LEMMA EntriesInOrder ==
  ASSUME NEW e \in Entry, NEW f \in Entry, e.base + e.len <= f.base
  PROVE  /\ e.base <= f.base
         /\ f.base + f.len < WORD => e.base + e.len < WORD
         /\ f.len >= 2 => e.base + e.len < (f.base + f.len) - 1
         /\ \A a \in Nat : ~(f.base <= a /\ a < e.base + e.len)
<1> DEFINE eb == e.base
           el == e.len
           fb == f.base
           fl == f.len
<1>1. /\ eb \in Nat /\ el \in Nat /\ fb \in Nat /\ fl \in Nat
      /\ eb + el <= fb /\ WORD \in Nat
  BY PmmConstants DEF Entry
<1> HIDE DEF eb, el, fb, fl
<1>2. /\ eb <= fb
      /\ fb + fl < WORD => eb + el < WORD
      /\ fl >= 2 => eb + el < (fb + fl) - 1
      /\ \A a \in Nat : ~(fb <= a /\ a < eb + el)
  BY <1>1
<1>3. QED
  BY <1>2, Zenon DEF eb, el, fb, fl

\* The last available entry, whose end is max.
LEMMA LastAvailable ==
  ASSUME NEW m \in Seq(Entry), WellFormed(m), Available(m) # {}
  PROVE  \E L \in Available(m) :
           /\ \A j \in Available(m) : j <= L
           /\ pmm_get_max_space(m) = m[L].base + m[L].len
<1>1. DOMAIN m \subseteq Nat
  OBVIOUS
<1>2. PICK n \in Nat : \A k \in DOMAIN m : k <= n
  <2>1. Len(m) \in Nat /\ \A k \in DOMAIN m : k <= Len(m)
    OBVIOUS
  <2>2. QED
    BY <2>1
<1>3. Available(m) \in SUBSET Nat /\ \A k \in Available(m) : k <= n
  BY <1>1, <1>2 DEF Available
<1>4. \E l \in Available(m) : \A j \in Available(m) : j <= l
  BY <1>3, GreatestElement, Zenon
<1> DEFINE L == CHOOSE k \in Available(m) : \A j \in Available(m) : j <= k
<1>7. L \in Available(m) /\ \A j \in Available(m) : j <= L
  BY <1>4, Zenon
<1>8. pmm_get_max_space(m) = EndL(m[L])
  BY DEF pmm_get_max_space
<1> HIDE DEF L
<1>9. m[L] \in Entry /\ m[L].base + m[L].len < WORD
  BY <1>7 DEF Available, WellFormed
<1>10. QED
  BY <1>7, <1>8, <1>9, EntryBounds

\* init_pmm leaves no block free that holds a byte outside available memory:
\* such a byte lies in a gap before some entry or in a reserved entry, and that
\* entry is one the marking loop visits.
LEMMA FreeIsAvailable ==
  ASSUME NEW m \in Seq(Entry), WellFormed(m),
         NEW b \in 1 .. BitmapSize(m) - 1, b \notin TakenAtInit(m),
         NEW a \in b * PMM_BLK_SZ .. b * PMM_BLK_SZ + (PMM_BLK_SZ - 1)
  PROVE  \E k \in Available(m) : m[k].base <= a /\ a < m[k].base + m[k].len
<1> DEFINE B == PMM_BLK_SZ
           max == pmm_get_max_space(m)
           End(k) == m[k].base + m[k].len
<1>1. B \in Nat \ {0} /\ WORD \in Nat \ {0}
  BY PmmConstants
<1>2. Available(m) # {}
  <2>1. CASE Available(m) = {}
    <3>1. BitmapSize(m) = 0 \div B
      BY <2>1 DEF BitmapSize, pmm_get_max_space
    <3>2. 0 \div B = 0
      BY <1>1
    <3>3. QED
      BY <3>1, <3>2
  <2>2. QED
    BY <2>1
<1>3. PICK L \in Available(m) :
        /\ \A j \in Available(m) : j <= L
        /\ max = End(L)
  BY <1>2, LastAvailable
<1>4. \A k \in DOMAIN m : m[k] \in Entry /\ m[k].base \in Nat /\ m[k].len \in Nat
                            /\ k \in Nat \ {0}
  <2>1. SUFFICES ASSUME NEW k \in DOMAIN m
                 PROVE  m[k] \in Entry /\ k \in Nat \ {0}
    BY DEF Entry
  <2>2. QED
    OBVIOUS
<1>5. L \in DOMAIN m /\ m[L].len >= 2 /\ End(L) < WORD /\ max \in Nat
  BY <1>3, <1>4 DEF Available, WellFormed
<1>6. b \in Nat /\ a \in Nat /\ b * B <= a /\ a < (b + 1) * B /\ a < max
  <2>1. b \in Nat /\ BitmapSize(m) \in Int /\ b + 1 <= BitmapSize(m)
    BY <1>1, <1>5 DEF BitmapSize
  <2>2. BitmapSize(m) * B <= max
    BY <1>1, <1>5, DivBounds, Zenon DEF BitmapSize
  <2>3. b * B \in Nat /\ (b + 1) * B = b * B + B
    BY <1>1, <2>1
  <2>4. a \in Nat /\ b * B <= a /\ a < (b + 1) * B
    BY <1>1, <2>3
  <2>5. (b + 1) * B <= BitmapSize(m) * B
    BY <1>1, <2>1
  <2>6. QED
    BY <1>1, <1>5, <2>1, <2>2, <2>3, <2>4, <2>5
<1> DEFINE S == {k \in DOMAIN m : a < End(k)}
<1>7. S \in SUBSET Nat /\ L \in S
  BY <1>3, <1>4, <1>5, <1>6
<1>8. PICK k \in S : \A j \in S : k <= j
  BY <1>7, LeastElement, Zenon
<1>9. \A i, j \in DOMAIN m : i < j => End(i) <= m[j].base
  BY DEF WellFormed
<1>10. \A j \in DOMAIN m : j <= L => /\ m[j].base <= m[L].base
                                     /\ BaseL(m[j]) = m[j].base
                                     /\ EndL(m[j]) = End(j)
  <2>1. SUFFICES ASSUME NEW j \in DOMAIN m, j <= L
                 PROVE  m[j].base <= m[L].base /\ End(j) < WORD
    BY <1>4, EntryBounds
  <2>2. CASE j = L
    BY <2>2, <1>4, <1>5
  <2>3. CASE j < L
    <3>1. End(j) <= m[L].base
      BY <2>3, <1>5, <1>9
    <3>2. m[j] \in Entry /\ m[L] \in Entry
      BY <1>4, <1>5
    <3>3. QED
      BY <3>1, <3>2, <1>5, EntriesInOrder, Zenon
  <2>4. QED
    BY <2>1, <2>2, <2>3, <1>4, <1>5
<1>11. k \in DOMAIN m /\ k <= L /\ a < End(k)
  BY <1>7, <1>8
<1>12. (max - 1) % WORD = max - 1
  <2>1. max >= 2
    BY <1>3, <1>4, <1>5
  <2>2. max - 1 \in Nat /\ max - 1 < WORD
    BY <1>1, <1>3, <1>5, <2>1
  <2>3. QED
    BY <1>1, <2>2, ModSmall, Zenon
<1>13. k \in Visited(m)
  <2>1. ASSUME NEW j \in 1 .. k PROVE BaseL(m[j]) < (max - 1) % WORD
    <3>1. j \in DOMAIN m /\ j <= L
      BY <1>4, <1>5, <1>11
    <3>2. BaseL(m[j]) <= m[L].base
      BY <1>10, <3>1
    <3>3. /\ m[L].base \in Nat /\ m[L].len \in Nat
          /\ BaseL(m[j]) \in Nat
      BY <3>1, <1>4, <1>5, <1>10, Zenon
    <3>4. QED
      BY <3>2, <3>3, <1>3, <1>5, <1>12, SMTT(30)
  <2>2. QED
    BY <2>1, <1>11 DEF Visited
<1>14. Expected(m, k) \in Nat /\ Expected(m, k) <= a
  <2>1. CASE k = 1
    BY <2>1, <1>6 DEF Expected
  <2>2. CASE k # 1
    <3>1. k - 1 \in DOMAIN m /\ k - 1 <= L /\ k - 1 \notin S
      <4>1. DOMAIN m = 1 .. Len(m) /\ Len(m) \in Nat
        OBVIOUS
      <4>2. k \in Nat /\ L \in Nat
        BY <1>4, <1>5, <1>11
      <4>3. k - 1 \in DOMAIN m /\ k - 1 <= L /\ ~(k <= k - 1)
        BY <4>1, <4>2, <2>2, <1>11
      <4>4. QED
        BY <4>3, <1>8
    <3>2. Expected(m, k) = End(k - 1)
      BY <2>2, <3>1, <1>10 DEF Expected
    <3>3. QED
      BY <3>1, <3>2, <1>4, <1>6
  <2>3. QED
    BY <2>1, <2>2
<1>15. b \notin GapBlocks(m, k) /\ b \notin ReservedBlocks(m, k)
  BY <1>13 DEF TakenAtInit
<1>16. m[k].base <= a
  <2>1. SUFFICES ASSUME a < m[k].base PROVE FALSE
    BY <1>4, <1>6, <1>11
  <2>2. BaseL(m[k]) = m[k].base /\ m[k].base \in Nat
    BY <1>4, <1>10, <1>11
  <2>3. b \in Touched(Expected(m, k), m[k].base)
    BY <2>1, <2>2, <1>1, <1>6, <1>14, TouchedIsOverlap
  <2>4. GapBlocks(m, k) = Touched(Expected(m, k), m[k].base)
    BY <2>1, <2>2, <1>6, <1>14 DEF GapBlocks
  <2>5. QED
    BY <2>3, <2>4, <1>15
<1>17. k \in Available(m)
  <2>1. SUFFICES ASSUME m[k].type # 1 PROVE FALSE
    BY <1>11 DEF Available
  <2>2. k < L
    BY <2>1, <1>3, <1>4, <1>5, <1>11 DEF Available
  <2>3. EndL(m[k]) = End(k) /\ BaseL(m[k]) = m[k].base
    BY <1>10, <1>11
  <2>4. End(k) <= m[L].base
    BY <2>2, <1>5, <1>9, <1>11
  <2>5. EndL(m[k]) < (max - 1) % WORD
    <3>1. m[k] \in Entry /\ m[L] \in Entry
      BY <1>4, <1>5, <1>11
    <3>2. End(k) < End(L) - 1
      BY <3>1, <2>4, <1>5, EntriesInOrder, Zenon
    <3>3. QED
      BY <3>2, <2>3, <1>3, <1>12
  <2>6. End(k) \in Nat /\ m[k].base \in Nat
    BY <1>4, <1>11
  <2>7. b \in Touched(m[k].base, End(k))
    BY <2>6, <1>1, <1>6, <1>11, <1>16, TouchedIsOverlap
  <2>8. ReservedBlocks(m, k) = Touched(m[k].base, End(k))
    BY <2>1, <2>3, <2>5 DEF ReservedBlocks
  <2>9. QED
    BY <2>7, <2>8, <1>15
<1>18. QED
  BY <1>11, <1>16, <1>17

\* Conversely init_pmm takes only blocks that store the bitmap, block 0, and
\* blocks with a byte outside available memory.
LEMMA UsableIsFree ==
  ASSUME NEW m \in Seq(Entry), WellFormed(m), Tidy(m), Available(m) # {},
         NEW b \in Nat \ {0}, b \notin BitmapBlocks(m),
         WhollyAvailable(m, b)
  PROVE  b \notin TakenAtInit(m)
<1> DEFINE B == PMM_BLK_SZ
           max == pmm_get_max_space(m)
           End(k) == m[k].base + m[k].len
<1>1. B \in Nat \ {0} /\ WORD \in Nat \ {0}
  BY PmmConstants
<1>0. /\ b * B \in Nat /\ (b + 1) * B = b * B + B
      /\ \A a \in b * B .. b * B + (B - 1) : a \in Nat
  BY <1>1
<1>2. PICK L \in Available(m) :
        /\ \A j \in Available(m) : j <= L
        /\ max = End(L)
  BY LastAvailable
<1>3. DOMAIN m = 1 .. Len(m) /\ Len(m) \in Nat /\ L \in DOMAIN m
  BY DEF Available
<1>4. \A k \in DOMAIN m : m[k] \in Entry /\ m[k].base \in Nat /\ m[k].len \in Nat
                            /\ k \in Nat \ {0}
  <2>1. SUFFICES ASSUME NEW k \in DOMAIN m
                 PROVE  m[k] \in Entry /\ k \in Nat \ {0}
    BY DEF Entry
  <2>2. QED
    OBVIOUS
<1>5. \A i, j \in DOMAIN m : i < j => End(i) <= m[j].base
  BY DEF WellFormed
<1>6. m[L].len >= 2 /\ End(L) < WORD /\ max \in Nat /\ max >= 2
  BY <1>2, <1>3, <1>4 DEF WellFormed
<1>7. (max - 1) % WORD = max - 1
  <2>1. max - 1 \in Nat /\ max - 1 < WORD
    BY <1>1, <1>2, <1>6
  <2>2. QED
    BY <1>1, <2>1, ModSmall, Zenon
<1>8. \A k \in Visited(m) : k \in DOMAIN m /\ k <= L
  <2>1. SUFFICES ASSUME NEW k \in Visited(m), k \in DOMAIN m, ~(k <= L)
                 PROVE  FALSE
    BY DEF Visited
  <2>2. m[k].base % WORD < max - 1
    BY <2>1, <1>4, <1>7 DEF Visited, BaseL
  <2>3. m[k].base \in Nat /\ m[k].base < WORD
    BY <2>1, <1>4 DEF Tidy
  <2>4. m[k].base % WORD = m[k].base
    BY <2>3, <1>1, ModSmall, Zenon
  <2>5. max <= m[k].base
    BY <2>1, <1>2, <1>3, <1>4, <1>5
  <2>6. QED
    BY <2>2, <2>3, <2>4, <2>5, <1>6
<1>9. \A j \in DOMAIN m : j <= L => /\ BaseL(m[j]) = m[j].base
                                    /\ EndL(m[j]) = End(j)
  <2>1. SUFFICES ASSUME NEW j \in DOMAIN m, j <= L PROVE End(j) < WORD
    BY <1>4, EntryBounds
  <2>2. CASE j = L
    BY <2>2, <1>6
  <2>3. CASE j < L
    <3>1. End(j) <= m[L].base
      BY <2>3, <1>3, <1>5
    <3>2. m[j] \in Entry /\ m[L] \in Entry
      BY <1>3, <1>4
    <3>3. QED
      BY <3>1, <3>2, <1>6, EntriesInOrder, Zenon
  <2>4. QED
    BY <2>1, <2>2, <2>3, <1>3, <1>4
\* A byte of block b between lo and hi, when the two overlap.
<1>10. ASSUME NEW lo \in Nat, NEW hi \in Nat, lo < hi, b \in Touched(lo, hi)
       PROVE  \E a \in b * B .. b * B + (B - 1) : lo <= a /\ a < hi
  <2>1. (b + 1) * B > lo /\ b * B < hi
    BY <1>10, TouchedIsOverlap
  <2>2. CASE b * B >= lo
    BY <2>1, <2>2, <1>0, <1>1
  <2>3. CASE b * B < lo
    BY <2>1, <2>3, <1>0, <1>1, <1>10
  <2>4. QED
    BY <2>2, <2>3, <1>0
<1>11. ASSUME NEW k \in Visited(m) PROVE b \notin GapBlocks(m, k)
  <2>1. SUFFICES ASSUME BaseL(m[k]) > Expected(m, k),
                        b \in Touched(Expected(m, k), BaseL(m[k]))
                 PROVE  FALSE
    BY DEF GapBlocks
  <2>2. k \in DOMAIN m /\ k <= L /\ BaseL(m[k]) = m[k].base /\ m[k].base \in Nat
    BY <1>4, <1>8, <1>9, <1>11
  <2>3. /\ Expected(m, k) \in Nat
        /\ k # 1 => k - 1 \in DOMAIN m /\ Expected(m, k) = End(k - 1)
    <3>1. CASE k = 1
      BY <3>1 DEF Expected
    <3>2. CASE k # 1
      <4>1. k - 1 \in DOMAIN m /\ k - 1 <= L
        BY <3>2, <2>2, <1>3
      <4>2. Expected(m, k) = End(k - 1)
        BY <3>2, <4>1, <1>9 DEF Expected
      <4>3. QED
        BY <4>1, <4>2, <1>4
    <3>3. QED
      BY <3>1, <3>2
  <2>4. PICK a \in b * B .. b * B + (B - 1) : Expected(m, k) <= a /\ a < m[k].base
    BY <2>1, <2>2, <2>3, <1>10
  <2>5. PICK j \in Available(m) : m[j].base <= a /\ a < End(j)
    BY DEF WhollyAvailable, Bytes
  <2>6. /\ j \in DOMAIN m /\ j \in Nat /\ k \in Nat /\ a \in Nat
        /\ m[j].base \in Nat /\ m[j].len \in Nat /\ m[k].len \in Nat
    <3>1. j \in DOMAIN m
      BY DEF Available
    <3>2. QED
      BY <3>1, <1>0, <1>4, <2>2
  <2>7. CASE j < k
    <3>0. k # 1
      BY <2>6, <2>7, <1>4
    <3>1. /\ k - 1 \in DOMAIN m /\ Expected(m, k) = End(k - 1)
          /\ m[k - 1].base \in Nat /\ m[k - 1].len \in Nat
      BY <3>0, <2>3, <1>4
    <3>2. j = k - 1 \/ End(j) <= m[k - 1].base
      BY <3>1, <2>6, <2>7, <1>5
    <3>3. QED
      BY <3>1, <3>2, <2>4, <2>5, <2>6, SMTT(30)
  <2>8. CASE j >= k
    <3>0. j = k \/ k < j
      BY <2>6, <2>8
    <3>1. j = k \/ End(k) <= m[j].base
      BY <3>0, <2>2, <2>6, <1>5
    <3>2. QED
      BY <3>1, <2>2, <2>4, <2>5, <2>6
  <2>9. QED
    BY <2>6, <2>7, <2>8
<1>12. ASSUME NEW k \in Visited(m) PROVE b \notin ReservedBlocks(m, k)
  <2>1. SUFFICES ASSUME m[k].type # 1, b \in Touched(BaseL(m[k]), EndL(m[k]))
                 PROVE  FALSE
    BY DEF ReservedBlocks
  <2>2. /\ k \in DOMAIN m /\ BaseL(m[k]) = m[k].base /\ EndL(m[k]) = End(k)
        /\ m[k].base \in Nat /\ m[k].len \in Nat
    BY <1>4, <1>8, <1>9, <1>12
  <2>3. m[k].len > 0 /\ End(k) \in Nat /\ m[k].base < End(k)
    BY <2>2 DEF Tidy
  <2>4. QED
    <3>1. PICK a \in b * B .. b * B + (B - 1) : m[k].base <= a /\ a < End(k)
      BY <2>1, <2>2, <2>3, <1>10
    <3>2. PICK j \in Available(m) : m[j].base <= a /\ a < End(j)
      BY DEF WhollyAvailable, Bytes
    <3>3. j \in DOMAIN m /\ j # k
      BY <2>1 DEF Available
    <3>4. /\ j \in Nat /\ k \in Nat /\ a \in Nat
          /\ m[j] \in Entry /\ m[k] \in Entry
      BY <3>3, <1>0, <1>4, <2>2
    <3>5. j < k \/ k < j
      BY <3>3, <3>4
    <3>6. End(j) <= m[k].base \/ End(k) <= m[j].base
      BY <3>3, <3>5, <2>2, <1>5
    <3>7. QED
      BY <3>1, <3>2, <3>4, <3>6, EntriesInOrder, Zenon
<1>13. QED
  BY <1>11, <1>12 DEF TakenAtInit

-----------------------------------------------------------------------------
(* The run-length search of pmm_alloc_first_n_blocks.                      *)

\* The recursive definition of the counter has a solution, so it is an equation:
\* the witness counts the blocks since the last block in use.
LEMMA FoundEquation ==
  ASSUME pmm_bitmap_sz \in Nat
  PROVE  Found = [i \in 0 .. pmm_bitmap_sz |->
                    IF i = 0 \/ i \in bitmap THEN 0 ELSE Found[i - 1] + 1]
<1> DEFINE D == 0 .. pmm_bitmap_sz
           Stops(i) == {j \in 0 .. i : j = 0 \/ j \in bitmap}
           Stop(i) == CHOOSE j \in Stops(i) : \A k \in Stops(i) : k <= j
           w == [i \in D |-> i - Stop(i)]
<1>1. \A i \in D : Stop(i) \in Stops(i) /\ \A k \in Stops(i) : k <= Stop(i)
  <2>1. SUFFICES ASSUME NEW i \in D
                 PROVE  \E j \in Stops(i) : \A k \in Stops(i) : k <= j
    BY Zenon
  <2>2. Stops(i) \in SUBSET Nat /\ 0 \in Stops(i) /\ i \in Nat /\ \A k \in Stops(i) : k <= i
    OBVIOUS
  <2>3. QED
    BY <2>2, GreatestElement, Zenon
<1> HIDE DEF Stop
<1>2. ASSUME NEW i \in D
      PROVE  w[i] = IF i = 0 \/ i \in bitmap THEN 0 ELSE w[i - 1] + 1
  <2>1. i \in Nat
    OBVIOUS
  <2>2. CASE i = 0 \/ i \in bitmap
    <3>1. i \in Stops(i)
      BY <2>1, <2>2
    <3>2. Stop(i) = i
      BY <3>1, <1>1, <2>1
    <3>3. QED
      BY <2>2, <3>2
  <2>3. CASE ~(i = 0 \/ i \in bitmap)
    <3>1. i - 1 \in D
      BY <2>3
    <3>2. Stops(i) = Stops(i - 1)
      BY <2>1, <2>3
    <3>3. Stop(i) = Stop(i - 1)
      BY <3>2 DEF Stop
    <3>4. Stop(i) \in Nat
      BY <1>1
    <3>5. QED
      BY <2>1, <2>3, <3>1, <3>3, <3>4
  <2>4. QED
    BY <2>2, <2>3
<1> HIDE DEF w
<1>3. w = [i \in D |-> IF i = 0 \/ i \in bitmap THEN 0 ELSE w[i - 1] + 1]
  <2>1. w = [i \in D |-> w[i]]
    BY DEF w
  <2>2. QED
    BY <2>1, <1>2, Zenon
<1>4. QED
  BY <1>3, Zenon DEF Found

\* When the counter stands at n after block i, the last n blocks are free.
LEMMA FoundCountsFree ==
  ASSUME pmm_bitmap_sz \in Nat, NEW i \in 0 .. pmm_bitmap_sz
  PROVE  /\ Found[i] \in 0 .. i
         /\ \A j \in i - (Found[i] - 1) .. i : j \notin bitmap
<1> DEFINE P(k) == /\ Found[k] \in 0 .. k
                   /\ \A j \in k - (Found[k] - 1) .. k : j \notin bitmap
           Bad == {k \in 0 .. pmm_bitmap_sz : ~P(k)}
<1>1. Bad \in SUBSET Nat
  OBVIOUS
<1>2. SUFFICES ASSUME Bad # {} PROVE FALSE
  OBVIOUS
<1>3. PICK k \in Bad : \A l \in Bad : k <= l
  BY <1>1, <1>2, LeastElement, Zenon
<1>4. k \in 0 .. pmm_bitmap_sz /\ k \in Nat
  OBVIOUS
<1>5. CASE k = 0 \/ k \in bitmap
  <2>1. Found[k] = 0
    BY <1>4, <1>5, FoundEquation
  <2>2. P(k)
    BY <2>1, <1>4
  <2>3. QED
    BY <2>2
<1>6. CASE ~(k = 0 \/ k \in bitmap)
  <2>1. k - 1 \in 0 .. pmm_bitmap_sz /\ ~(k <= k - 1)
    BY <1>4, <1>6
  <2>2. P(k - 1)
    BY <2>1, <1>3
  <2>3. Found[k] = Found[k - 1] + 1
    BY <1>4, <1>6, FoundEquation
  <2>4. Found[k] \in 0 .. k
    BY <2>1, <2>2, <2>3, <1>4
  <2>5. \A j \in k - (Found[k] - 1) .. k : j \notin bitmap
    <3>1. SUFFICES ASSUME NEW j \in k - (Found[k] - 1) .. k, j # k
                   PROVE  j \notin bitmap
      BY <1>6
    <3>2. j \in (k - 1) - (Found[k - 1] - 1) .. k - 1
      BY <3>1, <2>2, <2>3, <1>4
    <3>3. QED
      BY <3>2, <2>2
  <2>6. QED
    BY <2>4, <2>5
<1>7. QED
  BY <1>5, <1>6

-----------------------------------------------------------------------------
(* The invariants.                                                         *)

\* The inductive invariant: the size of the bitmap never changes after init_pmm,
\* and nothing was handed out before it.
PmmInv ==
  /\ TypeOK
  /\ GrantedIsTaken
  /\ GrantedIsMemory
  /\ IF up THEN pmm_bitmap_sz = BitmapSize(mmap) ELSE granted = {} /\ marked = {}

\* The numbers init_pmm computes are naturals.
LEMMA InitTypes ==
  ASSUME NEW m \in Seq(Entry), WellFormed(m)
  PROVE  /\ BitmapSize(m) \in Nat
         /\ BitmapAddress(m) \in Nat
         /\ TakenAtInit(m) \subseteq Nat
<1>1. PMM_BLK_SZ \in Nat \ {0} /\ WORD \in Nat \ {0} /\ BYTE \in Nat \ {0}
  BY PmmConstants
<1>2. \A k \in DOMAIN m : m[k] \in Entry /\ k \in Nat
  OBVIOUS
<1>3. \A e \in Entry : BaseL(e) \in Nat /\ EndL(e) \in Nat
  <2>1. SUFFICES ASSUME NEW e \in Entry PROVE BaseL(e) \in Nat /\ EndL(e) \in Nat
    OBVIOUS
  <2>2. e.base \in Nat /\ e.len \in Nat
    BY DEF Entry
  <2>3. \A x \in Nat : x % WORD \in Nat
    BY <1>1, ModSmall
  <2>4. BaseL(e) \in Nat /\ LenL(e) \in Nat
    BY <2>2, <2>3, Zenon DEF BaseL, LenL
  <2>5. BaseL(e) + LenL(e) \in Nat
    BY <2>4
  <2>6. QED
    BY <2>3, <2>4, <2>5 DEF EndL
<1>4. pmm_get_max_space(m) \in Nat
  <2>1. CASE Available(m) = {}
    BY <2>1 DEF pmm_get_max_space
  <2>2. CASE Available(m) # {}
    <3>1. PICK L \in Available(m) : pmm_get_max_space(m) = m[L].base + m[L].len
      BY <2>2, LastAvailable
    <3>2. m[L] \in Entry
      BY <1>2 DEF Available
    <3>3. QED
      BY <3>1, <3>2 DEF Entry
  <2>3. QED
    BY <2>1, <2>2
<1>5. BitmapSize(m) \in Nat
  BY <1>1, <1>4, DivBounds DEF BitmapSize
<1>6. BlocksBitmap(BitmapSize(m)) \in Nat
  <2> DEFINE sz == BitmapSize(m)
             bytes == CeilDiv(sz, BYTE)
  <2>1. sz \div BYTE \in Nat
    BY <1>1, <1>5, DivBounds
  <2>2. bytes \in Nat
    BY <2>1 DEF CeilDiv
  <2>3. bytes \div PMM_BLK_SZ \in Nat
    BY <2>2, <1>1, DivBounds
  <2>4. QED
    BY <2>3 DEF BlocksBitmap
<1>7. \A a \in Nat : AlignUp(a) \in Nat /\ a \div PMM_BLK_SZ \in Nat
  <2>1. SUFFICES ASSUME NEW a \in Nat
                 PROVE  AlignUp(a) \in Nat /\ a \div PMM_BLK_SZ \in Nat
    BY Zenon
  <2>2. a \div PMM_BLK_SZ \in Nat
    BY <1>1, DivBounds
  <2>3. QED
    BY <1>1, <2>2 DEF AlignUp
<1>8. BitmapAddress(m) \in Nat
  <2> DEFINE k == CHOOSE k \in Fitting(m) : \A j \in Fitting(m) : k <= j
  <2>1. Fitting(m) \in SUBSET Nat /\ Fitting(m) # {}
    BY <1>2 DEF Fitting, WellFormed
  <2>2. \E x \in Fitting(m) : \A j \in Fitting(m) : x <= j
    BY <2>1, LeastElement
  <2>3. k \in Fitting(m)
    BY <2>2
  <2>4. BaseL(m[k]) \in Nat
    BY <2>3, <1>2, <1>3 DEF Fitting
  <2>5. QED
    BY <2>4, <1>7 DEF BitmapAddress
<1>9. BitmapBlocks(m) \subseteq Nat
  <2> DEFINE first == BitmapAddress(m) \div PMM_BLK_SZ
  <2>1. first \in Nat
    BY <1>7, <1>8
  <2> HIDE DEF first
  <2>2. {first + i : i \in 0 .. BlocksBitmap(BitmapSize(m)) - 1} \subseteq Nat
    BY <2>1, <1>6
  <2>3. QED
    BY <2>2 DEF BitmapBlocks, first
<1>10. ASSUME NEW k \in Visited(m)
       PROVE  GapBlocks(m, k) \subseteq Nat /\ ReservedBlocks(m, k) \subseteq Nat
  <2>1. k \in DOMAIN m /\ DOMAIN m = 1 .. Len(m) /\ Len(m) \in Nat
    BY DEF Visited
  <2>2. k = 1 \/ k - 1 \in DOMAIN m
    BY <2>1
  <2>3. /\ BaseL(m[k]) \in Nat /\ EndL(m[k]) \in Nat
        /\ Expected(m, k) \in Nat
    BY <2>1, <2>2, <1>2, <1>3 DEF Expected
  <2>4. \A lo, hi \in Nat : Touched(lo, hi) \subseteq Nat
    BY <1>7 DEF Touched
  <2>5. QED
    BY <2>3, <2>4 DEF GapBlocks, ReservedBlocks
<1>11. TakenAtInit(m) \subseteq Nat
  BY <1>9, <1>10 DEF TakenAtInit
<1>12. QED
  BY <1>5, <1>8, <1>11

\* A free block right after init_pmm is usable and does not store the bitmap.
LEMMA FreeAfterInit ==
  ASSUME NEW m \in Seq(Entry), WellFormed(m),
         NEW b \in 1 .. BitmapSize(m) - 1, b \notin TakenAtInit(m)
  PROVE  WhollyAvailable(m, b) /\ b \notin BitmapBlocks(m)
<1>1. WhollyAvailable(m, b)
  BY FreeIsAvailable DEF WhollyAvailable, Bytes
<1>2. QED
  BY <1>1 DEF TakenAtInit

\* A run of free blocks found by pmm_alloc_first_n_blocks.
LEMMA RunIsFree ==
  ASSUME TypeOK, NEW n \in RunLengths, RunEnds(n) # {}
  PROVE  /\ (First(RunEnds(n)) - (n - 1)) .. First(RunEnds(n)) \subseteq Free
         /\ First(RunEnds(n)) - (n - 1) \in Nat
<1> DEFINE last == First(RunEnds(n))
<1>1. pmm_bitmap_sz \in Nat
  BY DEF TypeOK
<1>2. RunEnds(n) \in SUBSET Nat
  BY DEF RunEnds
<1>3. last \in RunEnds(n)
  BY <1>2, FirstIsLeast
<1> HIDE DEF last
<1>4. last \in 1 .. pmm_bitmap_sz - 1 /\ last \notin bitmap /\ Found[last] = n
  BY <1>3 DEF RunEnds
<1>5. last \in 0 .. pmm_bitmap_sz
  BY <1>1, <1>4
<1>6. n \in 0 .. last /\ \A j \in last - (n - 1) .. last : j \notin bitmap
  BY <1>1, <1>4, <1>5, FoundCountsFree
<1>7. last - (n - 1) \in 1 .. last + 1
  BY <1>4, <1>6
<1>8. \A j \in last - (n - 1) .. last : j \in 1 .. pmm_bitmap_sz - 1
  BY <1>1, <1>4, <1>7
<1>9. QED
  BY <1>6, <1>7, <1>8 DEF last, Free

\* The invariant holds before init_pmm is called.
LEMMA PmmInvInit ==
  ASSUME Init
  PROVE  PmmInv
<1>1. ~up /\ granted = {} /\ marked = {}
  BY Zenon DEF Init
<1>2. TypeOK
  BY Zenon DEF Init, TypeOK
<1>3. GrantedIsTaken
  BY <1>1 DEF GrantedIsTaken
<1>4. GrantedIsMemory
  BY <1>1, Zenon DEF GrantedIsMemory
<1>5. QED
  BY <1>1, <1>2, <1>3, <1>4, Zenon DEF PmmInv

\* The invariant is preserved by every step.
LEMMA PmmInvStep ==
  ASSUME \A m \in MMaps : WellFormed(m), PmmInv, [Next]_vars
  PROVE  PmmInv'
<1> USE DEF PmmInv
<1>1. mmap \in Seq(Entry) /\ WellFormed(mmap)
  BY PmmConstants DEF TypeOK
<1>2. CASE init_pmm
  <2>1. TypeOK'
    BY <1>1, <1>2, InitTypes DEF init_pmm, TypeOK
  <2>2. GrantedIsTaken'
    BY <1>2 DEF init_pmm, GrantedIsTaken
  <2>3. GrantedIsMemory'
    <3>1. SUFFICES ASSUME NEW b \in Free'
                   PROVE  b \in Usable' /\ b \notin BitmapBlocks(mmap)
      BY <1>2 DEF init_pmm, GrantedIsMemory
    <3>2. b \in 1 .. BitmapSize(mmap) - 1 /\ b \notin TakenAtInit(mmap)
      BY <1>2 DEF init_pmm, Free
    <3>3. QED
      BY <3>2, <1>1, <1>2, FreeAfterInit DEF init_pmm, Usable
  <2>4. QED
    BY <2>1, <2>2, <2>3, <1>2 DEF init_pmm
<1>3. ASSUME NEW r \in MarkRanges, pmm_mark_mem_taken(r[1], r[2]) PROVE PmmInv'
  <2>1. r[1] \in Nat /\ r[2] \in Nat /\ PMM_BLK_SZ \in Nat \ {0}
    BY PmmConstants
  <2>2. r[1] \div PMM_BLK_SZ \in Nat
    BY <2>1, DivBounds
  <2>3. (r[1] \div PMM_BLK_SZ) .. (AlignUp(r[2]) \div PMM_BLK_SZ) - 1 \subseteq Nat
    BY <2>2
  <2>4. TypeOK'
    BY <2>3, <1>3, Zenon DEF pmm_mark_mem_taken, TypeOK
  <2>5. GrantedIsTaken'
    BY <1>3 DEF pmm_mark_mem_taken, GrantedIsTaken
  <2>6. GrantedIsMemory'
    <3>1. Free' \subseteq Free /\ Usable' = Usable /\ granted' = granted
      BY <1>3 DEF pmm_mark_mem_taken, Free, Usable
    <3>2. QED
      BY <3>1, <1>3 DEF pmm_mark_mem_taken, GrantedIsMemory
  <2>7. QED
    BY <2>4, <2>5, <2>6, <1>3 DEF pmm_mark_mem_taken
\* An allocation that turns a set of free blocks into granted ones.
<1>4. ASSUME NEW S \in SUBSET Free, up, ret' \in Nat,
             bitmap' = bitmap \cup S, granted' = granted \cup S,
             UNCHANGED <<mmap, up, pmm_bitmap, pmm_bitmap_sz, marked>>
      PROVE  PmmInv'
  <2>1. Free \subseteq Nat
    BY DEF Free
  <2>2. TypeOK'
    BY <2>1, <1>4 DEF TypeOK
  <2>3. GrantedIsTaken'
    BY <1>4 DEF GrantedIsTaken
  <2>4. GrantedIsMemory'
    <3>1. Free' \subseteq Free /\ Usable' = Usable
      BY <1>4 DEF Free, Usable
    <3>2. QED
      BY <3>1, <1>4 DEF GrantedIsMemory
  <2>5. QED
    BY <2>2, <2>3, <2>4, <1>4
<1>5. CASE pmm_alloc_first
  <2>1. CASE Free = {}
    BY <2>1, <1>4, <1>5 DEF pmm_alloc_first
  <2>2. CASE Free # {}
    <3>1. Free \in SUBSET Nat
      BY DEF Free
    <3>2. First(Free) \in Free /\ First(Free) \in Nat
      BY <2>2, <3>1, FirstIsLeast, Zenon
    <3>3. ret' \in Nat
      BY <2>2, <3>2, <1>5, PmmConstants DEF pmm_alloc_first
    <3>4. QED
      BY <2>2, <3>2, <3>3, <1>4, <1>5, Zenon DEF pmm_alloc_first
  <2>3. QED
    BY <2>1, <2>2
<1>6. ASSUME NEW n \in RunLengths, pmm_alloc_first_n_blocks(n) PROVE PmmInv'
  <2>1. CASE RunEnds(n) = {}
    BY <2>1, <1>4, <1>6 DEF pmm_alloc_first_n_blocks
  <2>2. CASE RunEnds(n) # {}
    <3> DEFINE first == First(RunEnds(n)) - (n - 1)
               run == first .. First(RunEnds(n))
    <3>1. run \in SUBSET Free /\ first \in Nat
      BY <2>2, RunIsFree
    <3>2. /\ ret' = first * PMM_BLK_SZ
          /\ bitmap' = bitmap \cup run /\ granted' = granted \cup run
          /\ up /\ UNCHANGED <<mmap, up, pmm_bitmap, pmm_bitmap_sz, marked>>
      BY <2>2, <1>6 DEF pmm_alloc_first_n_blocks
    <3> HIDE DEF run, first
    <3>3. ret' \in Nat
      BY <3>1, <3>2, PmmConstants
    <3>4. QED
      BY <3>1, <3>2, <3>3, <1>4
  <2>3. QED
    BY <2>1, <2>2
<1>7. ASSUME NEW b \in granted, pmm_free(b) PROVE PmmInv'
  <2>1. TypeOK'
    BY <1>7 DEF pmm_free, TypeOK
  <2>2. GrantedIsTaken'
    BY <1>7 DEF pmm_free, GrantedIsTaken
  <2>3. GrantedIsMemory'
    <3>1. Free' \subseteq Free \cup {b} /\ Usable' = Usable
      BY <1>7 DEF pmm_free, Free, Usable
    <3>2. QED
      BY <3>1, <1>7 DEF pmm_free, GrantedIsMemory
  <2>4. QED
    BY <2>1, <2>2, <2>3, <1>7 DEF pmm_free
<1>8. CASE UNCHANGED vars
  <2>1. Free' = Free /\ Usable' = Usable
    BY <1>8 DEF vars, Free, Usable
  <2>2. GrantedIsMemory'
    BY <1>8, <2>1 DEF vars, GrantedIsMemory
  <2>3. QED
    BY <1>8, <2>2 DEF vars, TypeOK, GrantedIsTaken
<1>9. QED
  BY <1>2, <1>3, <1>5, <1>6, <1>7, <1>8 DEF Next

\* init_pmm and every later call keep the promise of GrantedIsMemory and of
\* GrantedIsTaken, for every block size, word size and well-formed memory map.
THEOREM PmmSafe ==
  ASSUME \A m \in MMaps : WellFormed(m)
  PROVE  Spec => [](TypeOK /\ GrantedIsMemory /\ GrantedIsTaken)
<1>1. Init => PmmInv
  BY PmmInvInit
<1>2. PmmInv /\ [Next]_vars => PmmInv'
  BY PmmInvStep
<1>3. PmmInv => TypeOK /\ GrantedIsMemory /\ GrantedIsTaken
  BY DEF PmmInv
<1>4. QED
  BY <1>1, <1>2, <1>3, PTL DEF Spec

\* No step loses memory, when the maps are also tidy.
THEOREM PmmLosesNothing ==
  ASSUME \A m \in MMaps : WellFormed(m) /\ Tidy(m)
  PROVE  Spec => []NothingLost
<1> USE DEF NothingLost
<1>1. Init => NothingLost
  BY DEF Init
<1>2. ASSUME PmmInv, NothingLost, [Next]_vars PROVE NothingLost'
  <2>1. mmap \in Seq(Entry) /\ WellFormed(mmap) /\ Tidy(mmap)
    BY <1>2, PmmConstants DEF PmmInv, TypeOK
  <2>2. CASE init_pmm
    <3>1. SUFFICES ASSUME NEW b \in Usable', b \notin BitmapBlocks(mmap)
                   PROVE  b \in Free'
      BY <2>2 DEF init_pmm
    <3>2. b \in 1 .. BitmapSize(mmap) - 1 /\ WhollyAvailable(mmap, b)
      BY <2>2 DEF init_pmm, Usable
    <3>3. b \in Nat \ {0}
      BY <3>2
    <3>4. Available(mmap) # {}
      <4>1. b * PMM_BLK_SZ \in Bytes(b)
        BY <3>3, PmmConstants DEF Bytes
      <4>2. QED
        BY <4>1, <3>2 DEF WhollyAvailable
    <3>5. b \notin TakenAtInit(mmap)
      BY <2>1, <3>1, <3>2, <3>3, <3>4, UsableIsFree
    <3>6. QED
      BY <3>2, <3>5, <2>2 DEF init_pmm, Free
  <2>3. ASSUME NEW r \in MarkRanges, pmm_mark_mem_taken(r[1], r[2])
        PROVE  NothingLost'
    <3>1. Usable' = Usable /\ Free \subseteq Free' \cup marked'
      BY <2>3 DEF pmm_mark_mem_taken, Usable, Free
    <3>2. QED
      BY <3>1, <2>3, <1>2 DEF pmm_mark_mem_taken
  \* An allocation moves blocks from Free to granted.
  <2>4. ASSUME NEW S, bitmap' = bitmap \cup S, granted' = granted \cup S, up,
               UNCHANGED <<mmap, up, pmm_bitmap_sz, marked>>
        PROVE  NothingLost'
    <3>1. Usable' = Usable /\ Free \subseteq Free' \cup granted'
      BY <2>4 DEF Usable, Free
    <3>2. QED
      BY <3>1, <2>4, <1>2
  <2>5. CASE pmm_alloc_first
    <3>1. \E S : bitmap' = bitmap \cup S /\ granted' = granted \cup S
      <4>1. CASE Free = {}
        <5>1. bitmap' = bitmap \cup {} /\ granted' = granted \cup {}
          BY <4>1, <2>5 DEF pmm_alloc_first
        <5>2. QED
          BY <5>1, Zenon
      <4>2. CASE Free # {}
        BY <4>2, <2>5, Zenon DEF pmm_alloc_first
      <4>3. QED
        BY <4>1, <4>2
    <3>2. QED
      BY <3>1, <2>4, <2>5 DEF pmm_alloc_first
  <2>6. ASSUME NEW n \in RunLengths, pmm_alloc_first_n_blocks(n)
        PROVE  NothingLost'
    <3>1. \E S : bitmap' = bitmap \cup S /\ granted' = granted \cup S
      <4>1. CASE RunEnds(n) = {}
        <5>1. bitmap' = bitmap \cup {} /\ granted' = granted \cup {}
          BY <4>1, <2>6 DEF pmm_alloc_first_n_blocks
        <5>2. QED
          BY <5>1, Zenon
      <4>2. CASE RunEnds(n) # {}
        BY <4>2, <2>6, Zenon DEF pmm_alloc_first_n_blocks
      <4>3. QED
        BY <4>1, <4>2
    <3>2. QED
      BY <3>1, <2>4, <2>6, Zenon DEF pmm_alloc_first_n_blocks
  <2>7. ASSUME NEW b \in granted, pmm_free(b) PROVE NothingLost'
    <3>1. b \in Usable
      BY <2>7, <1>2 DEF pmm_free, PmmInv, GrantedIsMemory
    <3>2. Usable' = Usable /\ Free \cup {b} \subseteq Free'
      BY <3>1, <2>7 DEF pmm_free, Usable, Free
    <3>3. QED
      BY <3>2, <2>7, <1>2 DEF pmm_free
  <2>8. CASE UNCHANGED vars
    <3>1. Free' = Free /\ Usable' = Usable
      BY <2>8 DEF vars, Free, Usable
    <3>2. QED
      BY <3>1, <2>8, <1>2 DEF vars
  <2>9. QED
    BY <2>2, <2>3, <2>5, <2>6, <2>7, <2>8, <1>2 DEF Next
<1>3. Init => PmmInv
  BY PmmInvInit
<1>4. PmmInv /\ [Next]_vars => PmmInv'
  BY PmmInvStep
<1>5. QED
  BY <1>1, <1>2, <1>3, <1>4, PTL DEF Spec

-----------------------------------------------------------------------------
(* The search for a run of blocks.                                         *)

\* What one round of the loop makes of the counter.
LEMMA FoundSteps ==
  ASSUME pmm_bitmap_sz \in Nat
  PROVE  /\ Found[0] = 0
         /\ \A i \in 0 .. pmm_bitmap_sz : Found[i] \in Nat
         /\ \A i \in 1 .. pmm_bitmap_sz :
              /\ i - 1 \in 0 .. pmm_bitmap_sz
              /\ Found[i] = IF i \in bitmap THEN 0 ELSE Found[i - 1] + 1
<1>1. Found[0] = 0
  BY FoundEquation
<1>2. \A i \in 0 .. pmm_bitmap_sz : Found[i] \in Nat
  BY FoundCountsFree
<1>3. ASSUME NEW i \in 1 .. pmm_bitmap_sz
      PROVE  /\ i - 1 \in 0 .. pmm_bitmap_sz
             /\ Found[i] = IF i \in bitmap THEN 0 ELSE Found[i - 1] + 1
  BY FoundEquation
<1>4. QED
  BY <1>1, <1>2, <1>3, Zenon

\* At the end of n free blocks in a row the counter is n or more: it may have begun
\* before them.
LEMMA RunIsCounted ==
  ASSUME pmm_bitmap_sz \in Nat, NEW n \in Nat \ {0}, NEW j \in Nat \ {0},
         j .. j + (n - 1) \subseteq Free
  PROVE  /\ j + (n - 1) \in 1 .. pmm_bitmap_sz - 1
         /\ n <= Found[j + (n - 1)]
<1>1. \A k \in j .. j + (n - 1) : k \in 1 .. pmm_bitmap_sz - 1 /\ k \notin bitmap
  BY DEF Free
<1>2. j + (n - 1) \in 1 .. pmm_bitmap_sz - 1
  BY <1>1
<1> DEFINE Bad == {m \in 0 .. n - 1 : ~(m + 1 <= Found[j + m])}
<1>3. SUFFICES Bad = {}
  <2>1. n - 1 \notin Bad /\ n - 1 \in 0 .. n - 1
    BY <1>3
  <2>2. (n - 1) + 1 <= Found[j + (n - 1)]
    BY <2>1, Zenon
  <2>3. QED
    BY <1>2, <2>2
<1>4. SUFFICES ASSUME Bad # {} PROVE FALSE
  OBVIOUS
<1>5. Bad \in SUBSET Nat
  OBVIOUS
<1>6. PICK m \in Bad : \A l \in Bad : m <= l
  BY <1>4, <1>5, LeastElement, Zenon
<1>7. m \in 0 .. n - 1 /\ ~(m + 1 <= Found[j + m])
  BY Zenon
<1>8. j + m \in j .. j + (n - 1) /\ j + m \in 1 .. pmm_bitmap_sz /\ (j + m) - 1 \in 0 .. pmm_bitmap_sz
  BY <1>1, <1>7
<1>9. Found[j + m] = Found[(j + m) - 1] + 1 /\ Found[(j + m) - 1] \in Nat
  BY <1>1, <1>8, FoundSteps
<1>10. CASE m = 0
  BY <1>7, <1>9, <1>10
<1>11. CASE m # 0
  <2>1. m - 1 \in 0 .. n - 1 /\ ~(m <= m - 1) /\ (j + m) - 1 = j + (m - 1)
    BY <1>7, <1>11
  <2>2. m - 1 \notin Bad
    BY <1>6, <2>1, Zenon
  <2>3. (m - 1) + 1 <= Found[j + (m - 1)]
    BY <2>1, <2>2, Zenon
  <2>4. QED
    BY <1>7, <1>9, <2>1, <2>3
<1>12. QED
  BY <1>10, <1>11

\* The counter passes every number on its way up, so that the loop stops at the end of
\* a run of n blocks at the latest: it does not miss n by counting past it.
LEMMA RunIsNotMissed ==
  ASSUME pmm_bitmap_sz \in Nat, NEW n \in Nat \ {0}, NEW j \in Nat \ {0},
         j .. j + (n - 1) \subseteq Free
  PROVE  \E k \in RunEnds(n) : k <= j + (n - 1)
<1> DEFINE High == {k \in 0 .. pmm_bitmap_sz : n <= Found[k]}
           last == j + (n - 1)
<1>1. last \in 1 .. pmm_bitmap_sz - 1 /\ last \in High
  BY RunIsCounted
<1>2. High \in SUBSET Nat
  OBVIOUS
<1>3. PICK k \in High : \A l \in High : k <= l
  BY <1>1, <1>2, LeastElement, Zenon
<1>4. k \in 0 .. pmm_bitmap_sz /\ n <= Found[k] /\ k <= last
  BY <1>1, <1>3, Zenon
<1>5. k # 0
  BY <1>4, FoundSteps
<1>6. k \in 1 .. pmm_bitmap_sz /\ k \in 1 .. pmm_bitmap_sz - 1 /\ ~(k <= k - 1)
  BY <1>1, <1>4, <1>5
<1>7. k \notin bitmap /\ Found[k] = Found[k - 1] + 1 /\ k - 1 \in 0 .. pmm_bitmap_sz /\ Found[k - 1] \in Nat
  BY <1>4, <1>6, FoundSteps
<1>8. ~(n <= Found[k - 1])
  BY <1>3, <1>6, <1>7, Zenon
<1>9. Found[k] = n
  BY <1>4, <1>7, <1>8
<1>10. k \in RunEnds(n)
  BY <1>6, <1>7, <1>9, Zenon DEF RunEnds
<1>11. QED
  BY <1>4, <1>10, Zenon

\* The run that pmm_alloc_first_n_blocks returns is the first one.
LEMMA FirstRun ==
  ASSUME TypeOK, NEW n \in RunLengths \ {0}
  PROVE  /\ HasRun(n) <=> RunEnds(n) # {}
         /\ RunEnds(n) # {} =>
              LET i == First(RunEnds(n)) - (n - 1)
              IN /\ i \in Nat
                 /\ i .. i + (n - 1) = i .. First(RunEnds(n))
                 /\ i .. i + (n - 1) \subseteq Free
                 /\ \A j \in 1 .. i - 1 : ~(j .. j + (n - 1) \subseteq Free)
<1>1. pmm_bitmap_sz \in Nat /\ n \in Nat \ {0} /\ n \in RunLengths
  BY PmmConstants DEF TypeOK
<1>2. ASSUME HasRun(n) PROVE RunEnds(n) # {}
  <2>1. PICK j \in 1 .. pmm_bitmap_sz - 1 : j .. j + (n - 1) \subseteq Free
    BY <1>2 DEF HasRun
  <2>2. j \in Nat \ {0}
    BY <1>1
  <2>3. \E k \in RunEnds(n) : k <= j + (n - 1)
    BY <1>1, <2>1, <2>2, RunIsNotMissed, Zenon
  <2>4. QED
    BY <2>3, Zenon
<1>3. ASSUME RunEnds(n) # {}
      PROVE  LET i == First(RunEnds(n)) - (n - 1)
             IN /\ i \in Nat
                /\ i .. i + (n - 1) = i .. First(RunEnds(n))
                /\ i .. i + (n - 1) \subseteq Free
                /\ \A j \in 1 .. i - 1 : ~(j .. j + (n - 1) \subseteq Free)
                /\ HasRun(n)
  <2> DEFINE last == First(RunEnds(n))
             i == last - (n - 1)
  <2>1. RunEnds(n) \in SUBSET (1 .. pmm_bitmap_sz - 1) /\ RunEnds(n) \in SUBSET Nat
    BY <1>1 DEF RunEnds
  <2>2. last \in RunEnds(n) /\ \A y \in RunEnds(n) : last <= y
    BY <1>3, <2>1, FirstIsLeast, Zenon
  <2>3. last \in 1 .. pmm_bitmap_sz - 1
    BY <2>1, <2>2, Zenon
  <2>4. i .. last \subseteq Free /\ i \in Nat
    BY <1>1, <1>3, RunIsFree, Zenon
  <2> HIDE DEF last
  <2>5. i + (n - 1) = last
    BY <1>1, <2>3
  <2>6. \A j \in 1 .. i - 1 : ~(j .. j + (n - 1) \subseteq Free)
    <3>1. SUFFICES ASSUME NEW j \in 1 .. i - 1, j .. j + (n - 1) \subseteq Free PROVE FALSE
      BY Zenon
    <3>2. j \in Nat \ {0} /\ j + (n - 1) < last
      BY <1>1, <2>3, <2>4
    <3>3. PICK k \in RunEnds(n) : k <= j + (n - 1)
      BY <1>1, <3>1, <3>2, RunIsNotMissed, Zenon
    <3>4. last <= k /\ k \in Nat
      BY <2>1, <2>2, Zenon
    <3>5. QED
      BY <1>1, <2>3, <3>2, <3>3, <3>4
  <2>7. i \in Free
    BY <1>1, <2>3, <2>4
  <2>8. i \in 1 .. pmm_bitmap_sz - 1 /\ i + n <= pmm_bitmap_sz
    BY <1>1, <2>3, <2>7 DEF Free
  <2>9. i .. i + (n - 1) \subseteq Free
    BY <2>4, <2>5, Zenon
  <2>10. HasRun(n)
    BY <2>8, <2>9, Zenon DEF HasRun
  <2>11. QED
    BY <2>4, <2>5, <2>6, <2>9, <2>10, Zenon DEF last
<1>4. QED
  BY <1>2, <1>3, Zenon

\* pmm_alloc_first_n_blocks returns the first n free blocks in a row, and NULL only if
\* there are none, for every n, block size and well-formed memory map: resetting the
\* counter at a taken block skips no run.
THEOREM PmmFindsRuns ==
  ASSUME \A m \in MMaps : WellFormed(m)
  PROVE  Spec => RunSearchIsComplete
<1> DEFINE Complete ==
      \A n \in RunLengths \ {0} :
        pmm_alloc_first_n_blocks(n) =>
          IF HasRun(n)
          THEN LET i == ret' \div PMM_BLK_SZ
               IN granted' \ granted = i .. i + n - 1
                    /\ \A j \in 1 .. i - 1 : ~(j .. j + n - 1 \subseteq Free)
          ELSE ret' = 0
<1>1. PmmInv => Complete
  <2> SUFFICES ASSUME PmmInv, NEW n \in RunLengths \ {0}, pmm_alloc_first_n_blocks(n)
               PROVE  IF HasRun(n)
                      THEN LET i == ret' \div PMM_BLK_SZ
                           IN granted' \ granted = i .. i + n - 1
                                /\ \A j \in 1 .. i - 1 : ~(j .. j + n - 1 \subseteq Free)
                      ELSE ret' = 0
    BY Zenon
  <2>1. TypeOK /\ granted \subseteq bitmap
    BY Zenon DEF PmmInv, GrantedIsTaken
  <2>2. CASE RunEnds(n) = {}
    BY <2>1, <2>2, FirstRun, Zenon DEF pmm_alloc_first_n_blocks
  <2>3. CASE RunEnds(n) # {}
    <3> DEFINE i == First(RunEnds(n)) - (n - 1)
    <3>1. /\ HasRun(n) /\ i \in Nat /\ i .. i + (n - 1) = i .. First(RunEnds(n))
          /\ i .. i + (n - 1) \subseteq Free
          /\ \A j \in 1 .. i - 1 : ~(j .. j + (n - 1) \subseteq Free)
      BY <2>1, <2>3, FirstRun, Zenon
    <3>2. ret' = i * PMM_BLK_SZ /\ granted' = granted \cup (i .. First(RunEnds(n)))
      BY <2>3, Zenon DEF pmm_alloc_first_n_blocks
    <3> HIDE DEF i
    <3>3. ret' \div PMM_BLK_SZ = i
      BY <3>1, <3>2, PmmConstants
    <3>4. (i .. i + (n - 1)) \cap granted = {}
      BY <2>1, <3>1 DEF Free
    <3>5. granted' \ granted = i .. i + (n - 1)
      BY <3>1, <3>2, <3>4, Zenon
    <3>6. QED
      BY <3>1, <3>3, <3>5, Zenon
  <2>4. QED
    BY <2>2, <2>3
<1>2. Init => PmmInv
  BY PmmInvInit
<1>3. PmmInv /\ [Next]_vars => PmmInv'
  BY PmmInvStep
<1>4. QED
  BY <1>1, <1>2, <1>3, PTL DEF Spec, RunSearchIsComplete

-----------------------------------------------------------------------------
(* What an allocation takes.                                               *)

\* What was marked as taken has its bit set.
MarkedIsTaken == marked \subseteq bitmap

\* An allocation that takes n free blocks from block i on, and returns the address
\* of block i, returns fresh blocks.
LEMMA FreeIsFresh ==
  ASSUME granted \subseteq bitmap, MarkedIsTaken, NEW n \in Nat \ {0}, NEW i \in Nat,
         i .. i + n - 1 \subseteq Free,
         ret' = i * PMM_BLK_SZ,
         bitmap' = bitmap \cup (i .. i + n - 1),
         granted' = granted \cup (i .. i + n - 1)
  PROVE  ReturnsFresh(n)
<1>1. ret' \div PMM_BLK_SZ = i
  BY PmmConstants
<1>2. (i .. i + n - 1) \cap (granted \cup marked) = {}
  BY DEF Free, MarkedIsTaken
<1>3. QED
  BY <1>1, <1>2, Zenon DEF ReturnsFresh

\* pmm_alloc_first and pmm_alloc_first_n_blocks never return a block that is in use
\* or was marked, and set no bit but those of the blocks they return, for every block
\* size, word size and well-formed memory map.
THEOREM PmmAllocatesFresh ==
  ASSUME \A m \in MMaps : WellFormed(m)
  PROVE  Spec => AllocationIsFresh
<1> DEFINE Fresh == /\ pmm_alloc_first => ReturnsFresh(1)
                    /\ \A n \in RunLengths \ {0} :
                         pmm_alloc_first_n_blocks(n) => ReturnsFresh(n)
<1>1. Init => MarkedIsTaken
  BY DEF Init, MarkedIsTaken
<1>2. PmmInv /\ MarkedIsTaken /\ [Next]_vars => MarkedIsTaken'
  BY DEF PmmInv, MarkedIsTaken, Next, init_pmm, pmm_mark_mem_taken, pmm_alloc_first,
         pmm_alloc_first_n_blocks, pmm_free, vars
<1>3. ASSUME PmmInv, MarkedIsTaken PROVE Fresh
  <2>1. TypeOK /\ granted \subseteq bitmap
    BY <1>3, Zenon DEF PmmInv, GrantedIsTaken
  <2>2. ASSUME pmm_alloc_first PROVE ReturnsFresh(1)
    <3>1. CASE Free = {}
      BY <2>2, <3>1, Zenon DEF pmm_alloc_first, ReturnsFresh
    <3>2. CASE Free # {}
      <4> DEFINE i == First(Free)
      <4>1. Free \in SUBSET Nat
        BY DEF Free
      <4>2. i \in Free /\ i \in Nat
        BY <3>2, <4>1, FirstIsLeast, Zenon
      <4>3. ret' = i * PMM_BLK_SZ /\ bitmap' = bitmap \cup {i} /\ granted' = granted \cup {i}
        BY <2>2, <3>2, Zenon DEF pmm_alloc_first
      <4> HIDE DEF i
      <4>4. i .. i + 1 - 1 = {i}
        BY <4>2
      <4>5. i .. i + 1 - 1 \subseteq Free
        BY <4>2, <4>4, Zenon
      <4>6. 1 \in Nat \ {0}
        OBVIOUS
      <4>7. QED
        BY <1>3, <2>1, <4>2, <4>3, <4>4, <4>5, <4>6, FreeIsFresh, Zenon
    <3>3. QED
      BY <3>1, <3>2
  <2>3. ASSUME NEW n \in RunLengths \ {0}, pmm_alloc_first_n_blocks(n)
        PROVE  ReturnsFresh(n)
    <3>1. CASE RunEnds(n) = {}
      BY <2>3, <3>1, Zenon DEF pmm_alloc_first_n_blocks, ReturnsFresh
    <3>2. CASE RunEnds(n) # {}
      <4> DEFINE i == First(RunEnds(n)) - (n - 1)
      <4>1. /\ i \in Nat /\ i .. i + (n - 1) = i .. First(RunEnds(n))
            /\ i .. i + (n - 1) \subseteq Free
        BY <2>1, <3>2, FirstRun, Zenon
      <4>2. /\ ret' = i * PMM_BLK_SZ
            /\ bitmap' = bitmap \cup (i .. First(RunEnds(n)))
            /\ granted' = granted \cup (i .. First(RunEnds(n)))
        BY <2>3, <3>2, Zenon DEF pmm_alloc_first_n_blocks
      <4> HIDE DEF i
      <4>3. n \in Nat \ {0} /\ i + n - 1 = i + (n - 1)
        BY <4>1, PmmConstants
      <4>4. QED
        BY <1>3, <2>1, <4>1, <4>2, <4>3, FreeIsFresh, Zenon
    <3>3. QED
      BY <3>1, <3>2
  <2>4. QED
    BY <2>2, <2>3
<1>4. Init => PmmInv
  BY PmmInvInit
<1>5. PmmInv /\ [Next]_vars => PmmInv'
  BY PmmInvStep
<1>6. PmmInv /\ MarkedIsTaken /\ [Next]_vars => [Fresh]_vars
  BY <1>3, Zenon
<1>7. QED
  BY <1>1, <1>2, <1>4, <1>5, <1>6, PTL DEF Spec, AllocationIsFresh
=============================================================================
