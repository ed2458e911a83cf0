----------------------------- MODULE HeapProofs -----------------------------
(* Proofs about module Heap, for every header, page and arena size, every  *)
(* set of requests and any number of arenas.                               *)
EXTENDS Heap, NatFacts, FiniteSetTheorems, TLAPS

(***************************************************************************)
(* The inductive invariant, as a predicate of the memory m, of the bytes s *)
(* that belong to each node and of the number a of arenas.  The nodes are  *)
(* all headers ever written, on the list or not: those a merge took off    *)
(* the list keep their bytes, since nothing can hand them out again.       *)
(***************************************************************************)
Shape(m, s, a) ==
  /\ DOMAIN m \subseteq Nat /\ IsFiniteSet(DOMAIN m)
  /\ kern_heap \in DOMAIN m
  /\ m \in [DOMAIN m -> Header]
  /\ s \in [DOMAIN m -> Nat]
  /\ a \in Nat \ {0}

Apart(m, s, a) ==
  /\ \A x \in DOMAIN m : x + HDR + s[x] <= a * ARENA
  /\ \A x, y \in DOMAIN m : x < y => x + HDR + s[x] <= y

Linked(m) ==
  \A x \in DOMAIN m :
    /\ m[x].next \in DOMAIN m
    /\ m[x].prev \in DOMAIN m
    /\ m[x].prev = x \/ m[m[x].prev].used = 1

SizesAgree(m, s) == \A x \in DOMAIN m : m[x].used = 0 => m[x].size = s[x]

Good(m, s, a) == Shape(m, s, a) /\ Apart(m, s, a) /\ Linked(m) /\ SizesAgree(m, s)

\* kern_heap is the whole first arena until it is handed out.
HeadFresh(m) == m[kern_heap].used = 0 => m[kern_heap].size = ARENA - HDR

\* An arena holds more than its header, and the largest request fits into it.
LEMMA ArenaFacts ==
  /\ HDR \in Nat \ {0} /\ PAGE \in Nat /\ ARENA \in Nat
  /\ ARENA >= PAGE /\ ARENA > HDR /\ WORD \in Nat /\ WORD > ARENA
BY HeapConstants DEF ARENA

-----------------------------------------------------------------------------
(* The list walk.                                                          *)

\* Walk is the sequence its recursive definition describes.
LEMMA WalkEquation ==
  ASSUME NEW m, kern_heap \in DOMAIN m, IsFiniteSet(DOMAIN m),
         \A x \in DOMAIN m : m[x].next \in DOMAIN m
  PROVE  /\ Cardinality(DOMAIN m) \in Nat
         /\ Walk(m)[0] = kern_heap
         /\ \A k \in 1 .. Cardinality(DOMAIN m) : Walk(m)[k] = m[Walk(m)[k - 1]].next
<1> DEFINE N == DOMAIN m
           c == Cardinality(N)
           g == [x \in N |-> m[x].next]
<1>1. c \in Nat
  <2>1. IsFiniteSet(N)
    OBVIOUS
  <2> HIDE DEF N
  <2>2. QED
    BY <2>1, FS_CardinalityType
<1>2. g \in [N -> N]
  BY Zenon
<1>0. kern_heap \in N
  OBVIOUS
<1> HIDE DEF c, g, N
<1>3. \E f : IsIteration(f, N, kern_heap, g, c)
  BY <1>0, <1>1, <1>2, IterationExists, Zenon
<1> USE DEF IsIteration
<1>3a. PICK f \in [0 .. c -> N] : f[0] = kern_heap /\ \A k \in 1 .. c : f[k] = g[f[k - 1]]
  BY <1>3, Zenon
<1> DEFINE Eq(h) == h = [k \in 0 .. c |-> IF k = 0 THEN kern_heap ELSE m[h[k - 1]].next]
<1>4. Eq(f)
  <2>1. ASSUME NEW k \in 0 .. c
        PROVE  f[k] = IF k = 0 THEN kern_heap ELSE m[f[k - 1]].next
    <3>1. CASE k = 0
      BY <3>1, <1>3a
    <3>2. CASE k # 0
      <4>1. k \in 1 .. c /\ k - 1 \in 0 .. c
        BY <3>2, <1>1
      <4>2. f[k] = g[f[k - 1]] /\ f[k - 1] \in N
        BY <4>1, <1>3a
      <4>3. QED
        BY <4>2, <3>2 DEF g
    <3>3. QED
      BY <3>1, <3>2
  <2>2. f = [k \in 0 .. c |-> f[k]]
    BY <1>3a
  <2>3. QED
    BY <2>1, <2>2
<1>5. Walk(m) = CHOOSE h : Eq(h)
  BY DEF Walk, c, N
<1>6. Eq(Walk(m))
  BY <1>4, <1>5, Zenon
<1> DEFINE W == Walk(m)
<1> HIDE DEF W
<1>7. W = [k \in 0 .. c |-> IF k = 0 THEN kern_heap ELSE m[W[k - 1]].next]
  BY <1>6, Zenon DEF W
<1>8. W[0] = kern_heap /\ \A k \in 1 .. c : W[k] = m[W[k - 1]].next
  BY <1>7, <1>1
<1>9. QED
  BY <1>1, <1>8 DEF W, c, N

\* The node the search stops at is free and large enough.
LEMMA FirstFitFits ==
  ASSUME NEW m, NEW sz, Cardinality(DOMAIN m) \in Nat, Stops(m, sz) # {}
  PROVE  FirstFit(m, sz) \in DOMAIN m /\ Fits(m, FirstFit(m, sz), sz)
<1> DEFINE K == Stops(m, sz)
           k == CHOOSE i \in K : \A j \in K : i <= j
<1>1. K \in SUBSET Nat /\ K # {}
  BY DEF Stops
<1>2. \E i \in K : \A j \in K : i <= j
  BY <1>1, LeastElement
<1>3. k \in K
  BY <1>2
<1>4. QED
  BY <1>3 DEF Stops, FirstFit

-----------------------------------------------------------------------------
(* How the operations change the memory.                                   *)

\* The fields after heap_malloc hands out node x of m, leaving t: x is in use, the
\* other headers are as they were, and a split leaves one more node inside x.
TakeEffect(m, x, sz, t) ==
  LET rest == x + sz + HDR
  IN /\ t \in [DOMAIN t -> Header]
     /\ DOMAIN t = IF Splits(m, x, sz) THEN DOMAIN m \cup {rest} ELSE DOMAIN m
     /\ rest \in Nat
     /\ \A y \in DOMAIN m \ {x, rest} : t[y] = m[y]
     /\ t[x].used = 1 /\ t[x].prev = m[x].prev
     /\ Splits(m, x, sz) =>
          /\ t[x].size = sz /\ t[x].next = rest
          /\ t[rest].used = 0 /\ t[rest].prev = x /\ t[rest].next = m[x].next
          /\ t[rest].size = m[x].size - HDR - sz
     /\ ~Splits(m, x, sz) => t[x].size = m[x].size /\ t[x].next = m[x].next
     /\ m[x].size \in Nat /\ m[x].used = 0 /\ m[x].size >= sz

\* Take has that effect on a free node that is large enough.
LEMMA TakeFields ==
  ASSUME NEW m, NEW x \in DOMAIN m, m \in [DOMAIN m -> Header], DOMAIN m \subseteq Nat,
         NEW sz \in Nat, NEW magic \in BOOLEAN, Fits(m, x, sz)
  PROVE  TakeEffect(m, x, sz, Take(m, x, sz, magic))
<1> DEFINE t == Take(m, x, sz, magic)
           rest == x + sz + HDR
<1>1. HDR \in Nat \ {0} /\ x \in Nat
  BY ArenaFacts
<1>2. rest \in Nat /\ rest # x
  BY <1>1
<1>3. m[x] \in Header /\ m[x].size \in Nat /\ m[x].used = 0 /\ m[x].size >= sz
  BY DEF Header, Fits
<1> HIDE DEF rest
<1>4. CASE Splits(m, x, sz)
  <2> DEFINE node == [next |-> m[x].next, prev |-> x, size |-> m[x].size - HDR - sz,
                      used |-> 0, magic |-> magic]
             split == [m EXCEPT ![x].used = 1, ![x].next = rest, ![x].size = sz]
  <2>1. t = [y \in DOMAIN split \cup {rest} |-> IF y = rest THEN node ELSE split[y]]
    BY <1>4 DEF Take, WithNode, rest
  <2>2. m[x].size - HDR - sz \in Nat
    BY <1>1, <1>3, <1>4 DEF Splits
  <2>3. node \in Header
    BY <1>1, <1>3, <2>2 DEF Header
  <2>4. /\ split \in [DOMAIN m -> Header]
        /\ split[x].used = 1 /\ split[x].next = rest
        /\ split[x].size = sz /\ split[x].prev = m[x].prev
        /\ \A y \in DOMAIN m \ {x} : split[y] = m[y]
    BY <1>2, <1>3, Zenon DEF Header
  <2> HIDE DEF split
  <2>5. DOMAIN t = DOMAIN m \cup {rest} /\ t \in [DOMAIN t -> Header]
    BY <2>1, <2>3, <2>4
  <2>6. t[rest] = node /\ \A y \in DOMAIN m \ {rest} : t[y] = split[y]
    BY <2>1, <2>4
  <2>7. QED
    BY <1>2, <1>3, <1>4, <2>4, <2>5, <2>6 DEF rest, TakeEffect
<1>5. CASE ~Splits(m, x, sz)
  <2>1. t = [m EXCEPT ![x].used = 1]
    BY <1>5 DEF Take
  <2>2. /\ t \in [DOMAIN m -> Header]
        /\ t[x].used = 1 /\ t[x].next = m[x].next
        /\ t[x].size = m[x].size /\ t[x].prev = m[x].prev
        /\ \A y \in DOMAIN m \ {x} : t[y] = m[y]
    BY <1>3, <2>1 DEF Header
  <2> HIDE DEF t
  <2>3. QED
    BY <1>2, <1>3, <1>5, <2>2 DEF rest, t, TakeEffect
<1>6. QED
  BY <1>4, <1>5

\* The bytes that belong to each node after node x was handed out.
SpanAfter(t, s, x) ==
  [y \in DOMAIN t |-> IF y \in DOMAIN s /\ y # x THEN s[y] ELSE t[y].size]

\* Handing out a free node that is large enough keeps the memory in order.
LEMMA TakeGood ==
  ASSUME NEW m, NEW s, NEW a, Good(m, s, a), NEW x \in DOMAIN m,
         NEW sz \in Nat, NEW magic \in BOOLEAN, Fits(m, x, sz)
  PROVE  LET t == Take(m, x, sz, magic)
         IN /\ Good(t, SpanAfter(t, s, x), a)
            /\ DOMAIN m \subseteq DOMAIN t
            /\ \A y \in DOMAIN m : y # x => t[y] = m[y]
            /\ t[x].used = 1
            /\ t[x].size = SpanAfter(t, s, x)[x]
            /\ SpanAfter(t, s, x)[x] >= sz
<1> DEFINE t == Take(m, x, sz, magic)
           r == x + sz + HDR
           z == SpanAfter(t, s, x)
           N == DOMAIN m
           S == Splits(m, x, sz)
<1>1. /\ N \subseteq Nat /\ IsFiniteSet(N) /\ kern_heap \in N
      /\ m \in [N -> Header] /\ s \in [N -> Nat] /\ a \in Nat \ {0}
      /\ \A y \in N : y \in Nat /\ s[y] \in Nat
  BY DEF Good, Shape
<1>2. HDR \in Nat \ {0} /\ a * ARENA \in Nat
  BY <1>1, ArenaFacts
<1>3. /\ t \in [DOMAIN t -> Header]
      /\ DOMAIN t = IF S THEN N \cup {r} ELSE N
      /\ r \in Nat
      /\ \A y \in N \ {x, r} : t[y] = m[y]
      /\ t[x].used = 1 /\ t[x].prev = m[x].prev
      /\ S => /\ t[x].size = sz /\ t[x].next = r
              /\ t[r].used = 0 /\ t[r].prev = x /\ t[r].next = m[x].next
              /\ t[r].size = m[x].size - HDR - sz
      /\ ~S => t[x].size = m[x].size /\ t[x].next = m[x].next
      /\ m[x].size \in Nat /\ m[x].used = 0 /\ m[x].size >= sz
  <2>1. TakeEffect(m, x, sz, t)
    BY <1>1, TakeFields
  <2> HIDE DEF t
  <2>2. QED
    BY <2>1 DEF TakeEffect
<1>4. m[x].size = s[x] /\ (S <=> s[x] - sz > HDR)
  <2>1. m[x].size = s[x]
    BY <1>3 DEF Good, SizesAgree
  <2>2. QED
    BY <2>1 DEF Splits
<1> HIDE DEF t, S
<1>5. /\ \A y \in N : y + HDR + s[y] <= a * ARENA
      /\ \A y, w \in N : y < w => y + HDR + s[y] <= w
  BY DEF Good, Apart
<1>6. S => r \notin N
  <2>1. SUFFICES ASSUME S, r \in N PROVE FALSE
    OBVIOUS
  <2>2. x + HDR + s[x] <= r
    BY <2>1, <1>1, <1>2, <1>5
  <2>3. QED
    BY <2>1, <2>2, <1>1, <1>2, <1>4
<1>7. \A y \in N : y # x => t[y] = m[y]
  <2>1. ASSUME ~S, r \in N PROVE t[r] = m[r] \/ r = x
    <3>1. CASE r = x
      BY <3>1
    <3>2. CASE r # x
      BY <3>2, <2>1 DEF t, Take, S
    <3>3. QED
      BY <3>1, <3>2
  <2>2. QED
    BY <2>1, <1>3, <1>6
<1>8. z = [y \in DOMAIN t |-> IF y \in N /\ y # x THEN s[y] ELSE t[y].size]
  BY <1>1 DEF SpanAfter
<1> HIDE DEF z
<1>9. /\ \A y \in N : y # x => y \in DOMAIN t /\ z[y] = s[y]
      /\ x \in DOMAIN t /\ z[x] = t[x].size
      /\ S => r \in DOMAIN t /\ z[r] = s[x] - HDR - sz
  BY <1>3, <1>4, <1>6, <1>8
<1>10. z[x] \in Nat /\ sz <= z[x] /\ z[x] <= s[x]
  BY <1>1, <1>3, <1>4, <1>9
<1>11. S => z[x] = sz /\ z[r] \in Nat /\ r + HDR + z[r] = x + HDR + s[x]
  BY <1>1, <1>2, <1>3, <1>4, <1>9
<1>12. Shape(t, z, a)
  <2>1. DOMAIN t \subseteq Nat /\ IsFiniteSet(DOMAIN t) /\ kern_heap \in DOMAIN t
    BY <1>1, <1>3, FS_AddElement
  <2>2. z \in [DOMAIN t -> Nat]
    BY <1>1, <1>3, <1>8, <1>9, <1>10, <1>11
  <2>3. QED
    BY <2>1, <2>2, <1>1, <1>3 DEF Shape
<1>13. Apart(t, z, a)
  <2>1. ASSUME NEW y \in DOMAIN t PROVE y + HDR + z[y] <= a * ARENA
    <3>1. CASE y \in N /\ y # x
      BY <3>1, <1>5, <1>9
    <3>2. CASE y = x
      BY <3>2, <1>1, <1>2, <1>5, <1>10
    <3>3. CASE S /\ y = r
      BY <3>3, <1>1, <1>2, <1>5, <1>11
    <3>4. QED
      BY <3>1, <3>2, <3>3, <1>3
  <2>2. ASSUME NEW y \in DOMAIN t, NEW w \in DOMAIN t, y < w
        PROVE  y + HDR + z[y] <= w
    <3>1. CASE y \in N /\ y # x /\ w \in N
      BY <3>1, <2>2, <1>5, <1>9
    <3>2. CASE y \in N /\ y # x /\ S /\ w = r
      <4>1. y < x
        <5>1. SUFFICES ASSUME x < y PROVE FALSE
          BY <3>2, <1>1
        <5>2. x + HDR + s[x] <= y
          BY <5>1, <3>2, <1>5
        <5>3. QED
          BY <5>2, <3>2, <2>2, <1>1, <1>2, <1>4
      <4>2. y + HDR + s[y] <= x
        BY <4>1, <3>2, <1>5
      <4>3. QED
        BY <4>2, <3>2, <1>1, <1>2, <1>9
    <3>3. CASE y = x /\ w \in N
      <4>1. x + HDR + s[x] <= w
        BY <3>3, <2>2, <1>5
      <4>2. QED
        BY <4>1, <3>3, <1>1, <1>2, <1>10
    <3>4. CASE y = x /\ S /\ w = r
      BY <3>4, <1>1, <1>2, <1>11
    <3>5. CASE S /\ y = r /\ w \in N
      <4>1. x < w
        BY <3>5, <2>2, <1>1, <1>2
      <4>2. x + HDR + s[x] <= w
        BY <4>1, <3>5, <1>5
      <4>3. QED
        BY <4>2, <3>5, <1>11
    <3>6. QED
      BY <3>1, <3>2, <3>3, <3>4, <3>5, <2>2, <1>3
  <2>3. QED
    BY <2>1, <2>2 DEF Apart
<1>14. Linked(t)
  <2>1. \A y \in N : /\ m[y].next \in N /\ m[y].prev \in N
                     /\ m[y].prev = y \/ m[m[y].prev].used = 1
    BY DEF Good, Linked
  <2>2. N \subseteq DOMAIN t
    BY <1>3
  <2>3. \A y \in N : m[y].used = 1 => t[y].used = 1
    BY <1>3, <1>7
  <2>4. ASSUME NEW y \in DOMAIN t
        PROVE  /\ t[y].next \in DOMAIN t /\ t[y].prev \in DOMAIN t
               /\ t[y].prev = y \/ t[t[y].prev].used = 1
    <3>1. CASE y \in N /\ y # x
      BY <3>1, <2>1, <2>2, <2>3, <1>7, Zenon
    <3>2. CASE y = x
      <4>1. t[x].next \in DOMAIN t
        BY <2>1, <2>2, <1>3, Zenon
      <4>2. m[x].prev = x \/ t[m[x].prev].used = 1
        BY <2>1, <2>3, Zenon
      <4>3. QED
        BY <3>2, <4>1, <4>2, <2>1, <2>2, <1>3, Zenon
    <3>3. CASE S /\ y = r
      BY <3>3, <2>1, <2>2, <1>3, Zenon
    <3>4. QED
      BY <3>1, <3>2, <3>3, <1>3
  <2>5. QED
    BY <2>4 DEF Linked
<1>15. SizesAgree(t, z)
  <2>1. ASSUME NEW y \in DOMAIN t, t[y].used = 0 PROVE t[y].size = z[y]
    <3>1. CASE y \in N /\ y # x
      BY <3>1, <2>1, <1>7, <1>9 DEF Good, SizesAgree
    <3>2. CASE y = x
      BY <3>2, <2>1, <1>3
    <3>3. CASE S /\ y = r
      BY <3>3, <1>3, <1>4, <1>9
    <3>4. QED
      BY <3>1, <3>2, <3>3, <1>3
  <2>2. QED
    BY <2>1 DEF SizesAgree
<1>16. QED
  BY <1>3, <1>7, <1>9, <1>10, <1>12, <1>13, <1>14, <1>15 DEF Good, t, z

\* The bytes that belong to each node after an arena was added at address n.
SpanGrown(m, s, n) == [y \in DOMAIN m \cup {n} |-> IF y = n THEN ARENA - HDR ELSE s[y]]

\* The memory t is m with a new arena at address n, the first free address.
InsertEffect(m, s, a, n, t) ==
  /\ n \notin DOMAIN m /\ n # kern_heap
  /\ DOMAIN t = DOMAIN m \cup {n}
  /\ Good(t, SpanGrown(m, s, n), a + 1)
  /\ t[n].used = 0 /\ t[n].size = ARENA - HDR
  /\ t[kern_heap].next = n /\ t[kern_heap].used = 1
  /\ \A y \in DOMAIN m : t[y].used = m[y].used /\ t[y].size = m[y].size

\* Adding an arena behind kern_heap, when that is in use.
LEMMA InsertGood ==
  ASSUME NEW m, NEW s, NEW a, Good(m, s, a), m[kern_heap].used = 1
  PROVE  InsertEffect(m, s, a, a * ARENA, InsertArena(m, kern_heap, a * ARENA))
<1> DEFINE n == a * ARENA
           t == InsertArena(m, kern_heap, n)
           z == SpanGrown(m, s, n)
           N == DOMAIN m
           l == [m EXCEPT ![kern_heap].next = n]
           h == FreshHeader(m[kern_heap].next, kern_heap)
<1>1. /\ N \subseteq Nat /\ IsFiniteSet(N) /\ kern_heap \in N /\ kern_heap = 0
      /\ m \in [N -> Header] /\ s \in [N -> Nat] /\ a \in Nat \ {0}
      /\ \A y \in N : y \in Nat /\ s[y] \in Nat
  BY DEF Good, Shape, kern_heap
<1>2. /\ HDR \in Nat \ {0} /\ ARENA \in Nat /\ ARENA - HDR \in Nat
      /\ n \in Nat /\ (a + 1) * ARENA = n + ARENA
  BY <1>1, ArenaFacts
<1> HIDE DEF n
<1>3. /\ \A y \in N : y + HDR + s[y] <= n
      /\ \A y, w \in N : y < w => y + HDR + s[y] <= w
  BY DEF Good, Apart, n
<1>4. \A y \in N : y < n
  BY <1>1, <1>2, <1>3
<1>5. n \notin N /\ n # kern_heap
  BY <1>1, <1>2, <1>4
<1>6. \A y \in N : /\ m[y].next \in N /\ m[y].prev \in N
                   /\ m[y].prev = y \/ m[m[y].prev].used = 1
  BY DEF Good, Linked
<1>7. t = [y \in DOMAIN l \cup {n} |-> IF y = n THEN h ELSE l[y]]
  BY DEF InsertArena, WithNode
<1>8. /\ l \in [N -> Header]
      /\ \A y \in N : /\ l[y].used = m[y].used /\ l[y].size = m[y].size
                      /\ l[y].prev = m[y].prev
                      /\ l[y].next = IF y = kern_heap THEN n ELSE m[y].next
  BY <1>1, <1>2 DEF Header
<1>9. /\ h \in Header /\ h.used = 0 /\ h.size = ARENA - HDR
      /\ h.prev = kern_heap /\ h.next = m[kern_heap].next
  BY <1>1, <1>2, <1>6 DEF FreshHeader, Header
<1> HIDE DEF l, h, t
<1>10. /\ DOMAIN t = N \cup {n} /\ t \in [DOMAIN t -> Header]
       /\ t[n] = h /\ \A y \in N : t[y] = l[y]
  BY <1>5, <1>7, <1>8, <1>9
<1>11. /\ \A y \in N : y \in DOMAIN t /\ z[y] = s[y]
       /\ z[n] = ARENA - HDR /\ z \in [DOMAIN t -> Nat]
  BY <1>1, <1>2, <1>5, <1>10 DEF SpanGrown
<1> HIDE DEF z
<1>12. Shape(t, z, a + 1)
  BY <1>1, <1>2, <1>10, <1>11, FS_AddElement DEF Shape
<1>13. Apart(t, z, a + 1)
  <2>1. ASSUME NEW y \in DOMAIN t PROVE y + HDR + z[y] <= (a + 1) * ARENA
    <3>1. CASE y \in N
      <4>1. y + HDR + z[y] <= n /\ y + HDR + z[y] \in Nat
        BY <3>1, <1>1, <1>2, <1>3, <1>11
      <4>2. QED
        BY <4>1, <1>2
    <3>2. CASE y = n
      BY <3>2, <1>2, <1>11
    <3>3. QED
      BY <3>1, <3>2, <1>10
  <2>2. ASSUME NEW y \in DOMAIN t, NEW w \in DOMAIN t, y < w
        PROVE  y + HDR + z[y] <= w
    <3>1. CASE y \in N
      BY <3>1, <2>2, <1>3, <1>10, <1>11
    <3>2. CASE y = n
      BY <3>2, <2>2, <1>1, <1>2, <1>4, <1>10
    <3>3. QED
      BY <3>1, <3>2, <1>10
  <2>3. QED
    BY <2>1, <2>2 DEF Apart
<1>14. Linked(t)
  <2>1. ASSUME NEW y \in DOMAIN t
        PROVE  /\ t[y].next \in DOMAIN t /\ t[y].prev \in DOMAIN t
               /\ t[y].prev = y \/ t[t[y].prev].used = 1
    <3>1. CASE y \in N
      <4>1. m[y].next \in N /\ m[y].prev \in N
        BY <3>1, <1>6
      <4>2. t[y].prev = m[y].prev /\ t[y].next \in DOMAIN t
        BY <3>1, <4>1, <1>8, <1>10
      <4>3. m[y].prev = y \/ t[m[y].prev].used = 1
        <5>1. m[y].prev = y \/ m[m[y].prev].used = 1
          BY <3>1, <1>6
        <5>2. t[m[y].prev].used = m[m[y].prev].used
          BY <4>1, <1>8, <1>10
        <5>3. QED
          BY <5>1, <5>2
      <4>4. QED
        BY <4>1, <4>2, <4>3, <1>10
    <3>2. CASE y = n
      <4>1. t[kern_heap].used = 1 /\ kern_heap \in DOMAIN t
        BY <1>1, <1>8, <1>10
      <4>2. t[n].prev = kern_heap /\ t[n].next = m[kern_heap].next
        BY <1>9, <1>10
      <4>3. m[kern_heap].next \in DOMAIN t
        BY <1>1, <1>6, <1>10, Zenon
      <4>4. QED
        BY <3>2, <4>1, <4>2, <4>3
    <3>3. QED
      BY <3>1, <3>2, <1>10
  <2>2. QED
    BY <2>1 DEF Linked
<1>15. SizesAgree(t, z)
  <2>1. ASSUME NEW y \in DOMAIN t, t[y].used = 0 PROVE t[y].size = z[y]
    <3>1. CASE y \in N
      BY <3>1, <2>1, <1>8, <1>10, <1>11 DEF Good, SizesAgree
    <3>2. CASE y = n
      BY <3>2, <1>9, <1>10, <1>11
    <3>3. QED
      BY <3>1, <3>2, <1>10
  <2>2. QED
    BY <2>1 DEF SizesAgree
<1>16. Good(t, z, a + 1)
  BY <1>12, <1>13, <1>14, <1>15 DEF Good
<1>17. QED
  BY <1>1, <1>5, <1>8, <1>9, <1>10, <1>16 DEF t, z, n, InsertEffect

\* heap_free merges at most with the next block: the previous one is in use.
LEMMA FreedMerges ==
  ASSUME NEW m, Linked(m), NEW x \in DOMAIN m
  PROVE  Freed(m, x) = IF JoinsNext(m, x) THEN Absorb(m, x) ELSE m
<1>1. ~JoinsPrev(m, x)
  <2>1. JoinsPrev(m, x) => m[x].prev # x /\ m[m[x].prev].used = 0
    BY DEF JoinsPrev
  <2>2. m[x].prev = x \/ m[m[x].prev].used = 1
    BY DEF Linked
  <2>3. QED
    BY <2>1, <2>2
<1>2. QED
  BY <1>1 DEF Freed

\* heap_free of a block in use changes only the header of that block, which
\* stays marked as used.
LEMMA FreedGood ==
  ASSUME NEW m, NEW s, NEW a, Good(m, s, a), NEW x \in DOMAIN m, m[x].used = 1
  PROVE  LET t == Freed(m, x)
         IN /\ Good(t, s, a)
            /\ DOMAIN t = DOMAIN m
            /\ t[x].used = 1
            /\ \A y \in DOMAIN m : y # x => t[y] = m[y]
<1> DEFINE t == Freed(m, x)
           N == DOMAIN m
           n == m[x].next
<1>1. /\ N \subseteq Nat /\ m \in [N -> Header] /\ s \in [N -> Nat]
      /\ HDR \in Nat
  BY ArenaFacts DEF Good, Shape
<1>2. \A y \in N : /\ m[y].next \in N /\ m[y].prev \in N
                   /\ m[y].prev = y \/ m[m[y].prev].used = 1
  BY DEF Good, Linked
<1>4. t = IF JoinsNext(m, x) THEN Absorb(m, x) ELSE m
  BY FreedMerges DEF Good
<1>5. /\ t \in [N -> Header] /\ t[x].used = 1
      /\ t[x].next \in N /\ (t[x].prev = x \/ t[x].prev = m[x].prev)
      /\ \A y \in N : y # x => t[y] = m[y]
  <2>1. CASE JoinsNext(m, x)
    <3>1. m[x] \in Header /\ m[n] \in Header /\ n \in N /\ m[n].next \in N
      BY <1>1, <1>2, Zenon
    <3>2. m[x].size + m[n].size + HDR \in Nat
      BY <3>1, <1>1 DEF Header
    <3>3. t = [m EXCEPT ![x].size = @ + m[n].size + HDR,
                        ![x].next = IF m[x].prev = n THEN x ELSE m[n].next,
                        ![x].prev = IF m[x].prev = n THEN x ELSE @]
      BY <2>1, <1>4 DEF Absorb
    <3> HIDE DEF t
    <3>4. /\ t[x].used = 1 /\ t[x].size = m[x].size + m[n].size + HDR
          /\ t[x].next = IF m[x].prev = n THEN x ELSE m[n].next
          /\ t[x].prev = IF m[x].prev = n THEN x ELSE m[x].prev
          /\ t[x].magic = m[x].magic
          /\ t[x] = [next |-> t[x].next, prev |-> t[x].prev, size |-> t[x].size,
                     used |-> t[x].used, magic |-> t[x].magic]
          /\ DOMAIN t = N /\ \A y \in N : y # x => t[y] = m[y]
          /\ t = [y \in N |-> t[y]]
      BY <3>1, <3>3, <1>1, Zenon DEF Header
    <3>5. t[x] \in Header
      BY <3>1, <3>2, <3>4, <1>1, <1>2, Zenon DEF Header
    <3>6. \A y \in N : t[y] \in Header
      BY <3>4, <3>5, <1>1
    <3>7. t \in [N -> Header]
      BY <3>4, <3>6
    <3>8. t[x].next \in N
      BY <3>1, <3>4
    <3>9. QED
      BY <3>4, <3>7, <3>8
  <2>2. CASE ~JoinsNext(m, x)
    BY <2>2, <1>1, <1>2, <1>4
  <2>3. QED
    BY <2>1, <2>2
<1> HIDE DEF t
<1>6. DOMAIN t = N
  BY <1>5
<1>7. Shape(t, s, a) /\ Apart(t, s, a)
  BY <1>5, <1>6 DEF Good, Shape, Apart
<1>8. \A y \in N : m[y].used = 1 => t[y].used = 1
  BY <1>5
<1>9. Linked(t)
  <2>1. ASSUME NEW y \in N
        PROVE  /\ t[y].next \in N /\ t[y].prev \in N
               /\ t[y].prev = y \/ t[t[y].prev].used = 1
    <3>1. /\ m[y].next \in N /\ m[y].prev \in N
          /\ m[y].prev = y \/ t[m[y].prev].used = 1
      BY <1>2, <1>8, Zenon
    <3>2. CASE y = x
      BY <3>1, <3>2, <1>5
    <3>3. CASE y # x
      BY <3>1, <3>3, <1>5
    <3>4. QED
      BY <3>2, <3>3
  <2>2. QED
    BY <2>1, <1>6 DEF Linked
<1>10. SizesAgree(t, s)
  BY <1>5, <1>6 DEF Good, SizesAgree
<1>11. QED
  BY <1>5, <1>6, <1>7, <1>9, <1>10 DEF Good, t

-----------------------------------------------------------------------------
(* The invariant.                                                          *)

\* No request wraps around when it is rounded.
NoWrap == \A r \in Requests : r + (r % 4) < WORD

HeapInv ==
  /\ TypeOK
  /\ Good(mem, span, arenas)
  /\ HeadFresh(mem)
  /\ \A x \in live : mem[x].used = 1 /\ span[x] <= mem[x].size
  /\ NoWrap => \A x \in live : asked[x] <= span[x]

\* Rounding yields a number below WORD, not smaller unless it wraps around.
LEMMA RoundFacts ==
  ASSUME NEW r \in 0 .. WORD - 1
  PROVE  /\ Round(r) \in 0 .. WORD - 1
         /\ r + (r % 4) < WORD => Round(r) = r + (r % 4) /\ Round(r) >= r
<1>1. WORD \in Nat \ {0} /\ r \in Nat
  BY ArenaFacts
<1>2. r % 4 \in Nat
  BY <1>1
<1> DEFINE q == r + (r % 4)
<1>3. q \in Nat /\ q >= r
  BY <1>1, <1>2
<1> HIDE DEF q
<1>4. q % WORD \in 0 .. WORD - 1 /\ (q < WORD => q % WORD = q)
  BY <1>1, <1>3, ModSmall, Zenon
<1>5. QED
  BY <1>1, <1>3, <1>4 DEF Round, q

\* Handing out a node that Fits, from the memory or from the memory with a new
\* arena, re-establishes the invariant; m, s, a describe the memory Return uses.
LEMMA ReturnInv ==
  ASSUME HeapInv, NEW m, NEW s, NEW a, NEW sz \in Nat, NEW req \in Requests,
         Good(m, s, a), HeadFresh(m), Nodes \subseteq DOMAIN m,
         \A y \in Nodes : m[y].used = mem[y].used /\ m[y].size = mem[y].size
                            /\ s[y] = span[y],
         \A y \in DOMAIN m \ Nodes : s[y] = m[y].size /\ m[y].used = 0,
         NEW x \in DOMAIN m, Fits(m, x, sz), NoWrap => req <= sz,
         Return(m, x, sz, req), arenas' = a, a \in 1 .. MaxArenas,
         frames' \in Nat, panicked' = panicked
  PROVE  HeapInv'
<1>1. PICK magic \in BOOLEAN :
        LET t == Take(m, x, sz, magic)
        IN /\ mem' = t
           /\ span' = [y \in DOMAIN t |->
                         IF y \in DOMAIN span /\ y # x THEN span[y] ELSE t[y].size]
           /\ asked' = [y \in DOMAIN t |->
                         IF y = x THEN req
                         ELSE IF y \in DOMAIN asked THEN asked[y] ELSE 0]
           /\ live' = live \cup {x}
           /\ ret' = x
           /\ freed' = None
  BY DEF Return
<1> DEFINE t == Take(m, x, sz, magic)
           z == SpanAfter(t, s, x)
<1>2. /\ Good(t, z, a)
      /\ DOMAIN m \subseteq DOMAIN t
      /\ \A y \in DOMAIN m : y # x => t[y] = m[y]
      /\ t[x].used = 1
      /\ t[x].size = z[x]
      /\ z[x] >= sz
  BY TakeGood
<1> HIDE DEF t
<1>3. /\ TypeOK /\ Good(mem, span, arenas)
      /\ \A y \in live : mem[y].used = 1 /\ span[y] <= mem[y].size
      /\ NoWrap => \A y \in live : asked[y] <= span[y]
  BY DEF HeapInv
<1>4. /\ DOMAIN span = Nodes /\ DOMAIN asked = Nodes /\ DOMAIN s = DOMAIN m
      /\ live \subseteq Nodes /\ \A y \in Nodes : asked[y] \in Nat
      /\ s \in [DOMAIN m -> Nat]
  BY <1>3 DEF TypeOK, Good, Shape
<1>5. /\ mem' = t /\ live' = live \cup {x} /\ ret' = x /\ freed' = None
      /\ span' = [y \in DOMAIN t |->
                    IF y \in DOMAIN span /\ y # x THEN span[y] ELSE t[y].size]
      /\ asked' = [y \in DOMAIN t |->
                    IF y = x THEN req ELSE IF y \in DOMAIN asked THEN asked[y] ELSE 0]
  BY <1>1 DEF t
<1>6. span' = z
  <2>1. ASSUME NEW y \in DOMAIN t
        PROVE  (IF y \in DOMAIN span /\ y # x THEN span[y] ELSE t[y].size)
                 = (IF y \in DOMAIN s /\ y # x THEN s[y] ELSE t[y].size)
    <3>1. CASE y \in Nodes \/ y = x \/ y \notin DOMAIN m
      BY <3>1, <1>4
    <3>2. CASE y \in DOMAIN m \ Nodes /\ y # x
      BY <3>2, <1>2, <1>4
    <3>3. QED
      BY <3>1, <3>2
  <2>2. QED
    BY <2>1, <1>5 DEF SpanAfter
<1>7. Good(mem', span', arenas')
  BY <1>2, <1>5, <1>6
<1> HIDE DEF z
<1>8. TypeOK'
  <2>1. /\ DOMAIN t \subseteq Nat /\ t \in [DOMAIN t -> Header]
        /\ z \in [DOMAIN t -> Nat]
    BY <1>2 DEF Good, Shape
  <2>2. x \in DOMAIN t /\ live' \subseteq DOMAIN t
    BY <1>2, <1>4, <1>5
  <2>3. req \in Nat
    BY HeapConstants, ArenaFacts
  <2>4. asked' \in [DOMAIN t -> Nat]
    BY <2>3, <1>4, <1>5
  <2>5. panicked' \in BOOLEAN
    BY <1>3 DEF TypeOK
  <2>6. QED
    BY <2>1, <2>2, <2>4, <2>5, <1>5, <1>6 DEF TypeOK, Nodes
<1>9. HeadFresh(mem')
  <2>1. kern_heap \in DOMAIN m
    BY DEF Good, Shape
  <2>2. CASE kern_heap = x
    BY <2>2, <1>2, <1>5 DEF HeadFresh
  <2>3. CASE kern_heap # x
    BY <2>1, <2>3, <1>2, <1>5 DEF HeadFresh
  <2>4. QED
    BY <2>2, <2>3
<1>10. \A y \in live' : mem'[y].used = 1 /\ span'[y] <= mem'[y].size
  <2>1. z[x] \in Nat
    BY <1>2 DEF Good, Shape
  <2>2. ASSUME NEW y \in live, y # x
        PROVE  t[y].used = 1 /\ z[y] <= t[y].size
    <3>1. y \in Nodes /\ y \in DOMAIN m /\ t[y] = m[y] /\ z[y] = s[y]
      BY <2>2, <1>2, <1>4 DEF z, SpanAfter
    <3>2. QED
      BY <3>1, <1>3
  <2>3. QED
    BY <2>1, <2>2, <1>2, <1>5, <1>6
<1>11. NoWrap => \A y \in live' : asked'[y] <= span'[y]
  <2>1. z[x] \in Nat /\ req \in Nat /\ x \in DOMAIN t
    BY <1>2, HeapConstants, ArenaFacts DEF Good, Shape
  <2>2. ASSUME NoWrap, NEW y \in live, y # x PROVE asked'[y] <= z[y]
    <3>1. y \in Nodes /\ y \in DOMAIN t /\ z[y] = s[y] /\ s[y] = span[y]
      BY <2>2, <1>2, <1>4 DEF z, SpanAfter
    <3>2. asked'[y] = asked[y]
      BY <3>1, <2>2, <1>4, <1>5
    <3>3. QED
      BY <3>1, <3>2, <2>2, <1>3
  <2>3. ASSUME NoWrap PROVE asked'[x] <= z[x]
    BY <2>1, <2>3, <1>2, <1>5
  <2>4. QED
    BY <2>2, <2>3, <1>5, <1>6
<1>12. QED
  BY <1>7, <1>8, <1>9, <1>10, <1>11 DEF HeapInv

\* Rounding twice stays within the largest request the first rounding lets pass.
LEMMA RoundTwice ==
  ASSUME NEW r \in 0 .. WORD - 1, Round(r) <= PAGE - HDR
  PROVE  /\ Round(Round(r)) \in Nat
         /\ Round(Round(r)) <= PAGE - HDR
         /\ Round(r) <= Round(Round(r))
<1>1. /\ HDR \in Nat \ {0} /\ HDR % 4 = 0 /\ PAGE \in Nat /\ PAGE > HDR
      /\ PAGE % 4 = 0 /\ WORD \in Nat /\ WORD > PAGE /\ WORD % 4 = 0 /\ r \in Nat
  BY HeapConstants, ArenaFacts
<1> DEFINE q == r + (r % 4)
           R == Round(r)
<1>2. q \in Nat /\ q % 2 = 0 /\ q < WORD + 4
  BY <1>1
<1>3. R \in 0 .. WORD - 1 /\ R = q % WORD
  BY RoundFacts DEF Round
<1> HIDE DEF q, R
<1>3a. WORD \in Nat \ {0}
  BY <1>1
<1>4. R = q \/ R = q - WORD
  <2>1. CASE q < WORD
    BY <2>1, <1>2, <1>3, <1>3a, ModSmall, Zenon
  <2>2. CASE q >= WORD
    <3>1. q - WORD \in Nat /\ q - WORD < WORD
      BY <2>2, <1>1, <1>2
    <3>2. (q - WORD) % WORD = q - WORD
      BY <3>1, <1>3a, ModSmall
    <3>3. q % WORD = (q - WORD) % WORD
      BY <3>1, <1>1, <1>2
    <3>4. QED
      BY <3>2, <3>3, <1>3
  <2>3. QED
    BY <2>1, <2>2, <1>1, <1>2
<1>5. R \in Nat /\ R % 2 = 0
  BY <1>1, <1>2, <1>3, <1>4
<1>6. R <= PAGE - HDR
  BY DEF R
<1>7. R + (R % 4) <= PAGE - HDR /\ R + (R % 4) < WORD
  BY <1>1, <1>5, <1>6
<1>8. Round(R) = R + (R % 4) /\ Round(R) >= R
  BY <1>3, <1>7, RoundFacts
<1>9. R % 4 \in Nat
  BY <1>5
<1>10. QED
  BY <1>5, <1>7, <1>8, <1>9 DEF R

\* When no block is found, kern_heap is in use, and the search that follows the
\* insertion of an arena ends at the latest in that arena.
LEMMA GrownSearchEnds ==
  ASSUME NEW m, NEW s, NEW a, Good(m, s, a), HeadFresh(m),
         NEW sz \in Nat, NEW sz2 \in Nat, sz <= ARENA - HDR, sz2 <= ARENA - HDR,
         Stops(m, sz) = {}
  PROVE  /\ m[kern_heap].used = 1
         /\ Cardinality(DOMAIN InsertArena(m, kern_heap, a * ARENA)) \in Nat
         /\ Stops(InsertArena(m, kern_heap, a * ARENA), sz2) # {}
<1> DEFINE n == a * ARENA
           t == InsertArena(m, kern_heap, n)
<1>1. /\ kern_heap \in DOMAIN m /\ IsFiniteSet(DOMAIN m) /\ m[kern_heap] \in Header
      /\ \A x \in DOMAIN m : m[x].next \in DOMAIN m
  BY DEF Good, Shape, Linked
<1>2. Cardinality(DOMAIN m) \in Nat /\ Walk(m)[0] = kern_heap
  BY <1>1, WalkEquation
<1>3. m[kern_heap].used = 1
  <2>1. SUFFICES ASSUME m[kern_heap].used = 0 PROVE FALSE
    BY <1>1 DEF Header
  <2>2. Fits(m, kern_heap, sz)
    BY <2>1 DEF HeadFresh, Fits
  <2>3. Visits(m, 0)
    BY DEF Visits
  <2>4. 0 \in Stops(m, sz)
    BY <2>2, <2>3, <1>1, <1>2 DEF Stops
  <2>5. QED
    BY <2>4
<1>4. /\ n \notin DOMAIN m /\ n # kern_heap
      /\ DOMAIN t = DOMAIN m \cup {n}
      /\ Good(t, SpanGrown(m, s, n), a + 1)
      /\ t[n].used = 0 /\ t[n].size = ARENA - HDR
      /\ t[kern_heap].next = n
  <2>1. InsertEffect(m, s, a, n, t)
    BY <1>3, InsertGood
  <2> HIDE DEF t, n
  <2>2. QED
    BY <2>1 DEF InsertEffect
<1> HIDE DEF n, t
<1>5. /\ kern_heap \in DOMAIN t /\ IsFiniteSet(DOMAIN t)
      /\ \A x \in DOMAIN t : t[x].next \in DOMAIN t
  BY <1>4, Zenon DEF Good, Shape, Linked
<1>6. /\ Cardinality(DOMAIN t) \in Nat
      /\ Walk(t)[0] = kern_heap
      /\ \A k \in 1 .. Cardinality(DOMAIN t) : Walk(t)[k] = t[Walk(t)[k - 1]].next
  BY <1>5, WalkEquation
<1>7. Cardinality(DOMAIN t) = Cardinality(DOMAIN m) + 1
  BY <1>1, <1>4, FS_AddElement
<1>8. 1 \in 1 .. Cardinality(DOMAIN t) /\ 1 - 1 = 0
  BY <1>2, <1>7
<1>9. Walk(t)[1] = n
  <2>1. Walk(t)[1] = t[Walk(t)[1 - 1]].next
    BY <1>6, <1>8
  <2>2. QED
    BY <2>1, <1>4, <1>6, <1>8
<1>10. Visits(t, 1)
  BY <1>4, <1>9 DEF Visits
<1>11. Fits(t, n, sz2) /\ n \in DOMAIN t
  BY <1>4 DEF Fits
<1>12. 1 \in Stops(t, sz2)
  BY <1>6, <1>8, <1>9, <1>10, <1>11 DEF Stops
<1>13. QED
  BY <1>3, <1>6, <1>12 DEF t, n

\* heap_init establishes the invariant.
LEMMA HeapInvInit == Init => HeapInv
<1> SUFFICES ASSUME Init PROVE HeapInv
  OBVIOUS
<1> DEFINE h == FreshHeader(kern_heap, kern_heap)
<1>1. HDR \in Nat \ {0} /\ ARENA \in Nat /\ ARENA - HDR \in Nat /\ kern_heap = 0
  BY ArenaFacts DEF kern_heap
<1>2. /\ h \in Header /\ h.used = 0 /\ h.size = ARENA - HDR
      /\ h.next = kern_heap /\ h.prev = kern_heap
  BY <1>1 DEF FreshHeader, Header
<1>3. /\ mem = [x \in {kern_heap} |-> h] /\ arenas = 1 /\ live = {}
      /\ span = [x \in {kern_heap} |-> ARENA - HDR]
      /\ asked = [x \in {kern_heap} |-> 0]
      /\ freed = None /\ ret = None /\ panicked = FALSE
      /\ frames = FramesLeft(FRAMES)
  BY DEF Init
<1> HIDE DEF h
<1>4. TypeOK
  <2>1. frames \in Nat
    BY <1>3, HeapConstants DEF FramesLeft
  <2>2. panicked \in BOOLEAN
    BY <1>3, Zenon
  <2>3. arenas \in 1 .. MaxArenas
    BY <1>3, HeapConstants
  <2>4. /\ Nodes \subseteq Nat /\ mem \in [Nodes -> Header] /\ live \subseteq Nodes
        /\ span \in [Nodes -> Nat] /\ asked \in [Nodes -> Nat]
    BY <1>1, <1>2, <1>3 DEF Nodes
  <2>5. QED
    BY <2>1, <2>2, <2>3, <2>4, <1>3 DEF TypeOK
<1>5. Good(mem, span, arenas)
  <2>1. DOMAIN mem = {0} /\ IsFiniteSet(DOMAIN mem)
    BY <1>1, <1>3, FS_Singleton, Zenon
  <2>2. QED
    BY <2>1, <1>1, <1>2, <1>3 DEF Good, Shape, Apart, Linked, SizesAgree
<1>6. QED
  BY <1>2, <1>3, <1>4, <1>5 DEF HeapInv, HeadFresh

\* heap_malloc preserves the invariant when it finds a block.
LEMMA FitsInv ==
  ASSUME HeapInv, NEW req \in Requests, heap_malloc_fits(req)
  PROVE  HeapInv'
<1> DEFINE sz == Round(req)
           x == FirstFit(mem, sz)
<1>1. req \in 0 .. WORD - 1
  BY HeapConstants
<1>2. sz \in Nat /\ (NoWrap => req <= sz)
  <2>1. sz \in 0 .. WORD - 1 /\ (req + (req % 4) < WORD => sz >= req)
    BY <1>1, RoundFacts
  <2>2. NoWrap => req + (req % 4) < WORD
    BY DEF NoWrap
  <2> HIDE DEF sz
  <2>3. QED
    BY <2>1, <2>2, <1>1, ArenaFacts
<1>3. Good(mem, span, arenas) /\ HeadFresh(mem) /\ TypeOK
  BY DEF HeapInv
<1>4. x \in DOMAIN mem /\ Fits(mem, x, sz)
  <2>1. /\ kern_heap \in DOMAIN mem /\ IsFiniteSet(DOMAIN mem)
        /\ \A y \in DOMAIN mem : mem[y].next \in DOMAIN mem
    BY <1>3 DEF Good, Shape, Linked
  <2>2. Cardinality(DOMAIN mem) \in Nat
    BY <2>1, WalkEquation
  <2>3. Stops(mem, sz) # {}
    BY DEF heap_malloc_fits
  <2>4. QED
    BY <2>2, <2>3, FirstFitFits
<1>5. /\ Return(mem, x, sz, req) /\ arenas' = arenas /\ arenas \in 1 .. MaxArenas
      /\ frames' \in Nat /\ panicked' = panicked
  BY <1>3 DEF heap_malloc_fits, TypeOK
<1> HIDE DEF x, sz
<1>6. QED
  BY <1>2, <1>3, <1>4, <1>5, ReturnInv DEF Nodes

\* heap_malloc preserves the invariant when it adds an arena.
LEMMA GrowsInv ==
  ASSUME HeapInv, NEW req \in Requests, heap_malloc_grows(req)
  PROVE  HeapInv'
<1> DEFINE r == Round(req)
           sz == Round(r)
           n == arenas * ARENA
           m == InsertArena(mem, kern_heap, n)
           s == SpanGrown(mem, span, n)
           x == FirstFit(m, sz)
<1>1. req \in 0 .. WORD - 1
  BY HeapConstants
<1>2. /\ r \in Nat /\ r <= PAGE - HDR /\ sz \in Nat /\ sz <= PAGE - HDR
      /\ NoWrap => req <= sz
  <2>1. r \in 0 .. WORD - 1 /\ (req + (req % 4) < WORD => r >= req)
    BY <1>1, RoundFacts
  <2>2. NoWrap => req + (req % 4) < WORD
    BY DEF NoWrap
  <2>3. ~(r > PAGE - HDR)
    BY DEF heap_malloc_grows, NeedsArena, TooBig
  <2>4. r <= PAGE - HDR
    BY <2>1, <2>3, ArenaFacts
  <2>5. sz \in Nat /\ sz <= PAGE - HDR /\ r <= sz
    BY <2>4, <1>1, RoundTwice
  <2> HIDE DEF r, sz
  <2>6. QED
    BY <2>1, <2>2, <2>4, <2>5, <1>1, ArenaFacts
<1>3. Good(mem, span, arenas) /\ HeadFresh(mem) /\ TypeOK
  BY DEF HeapInv
<1>4. /\ Stops(mem, r) = {} /\ arenas < MaxArenas /\ arenas' = arenas + 1
      /\ frames' = FramesLeft(frames)
      /\ Return(m, x, sz, req) /\ panicked' = panicked
  BY DEF heap_malloc_grows, NeedsArena
<1> HIDE DEF r, sz
<1>5. r <= ARENA - HDR /\ sz <= ARENA - HDR
  BY <1>2, ArenaFacts
<1>6. /\ mem[kern_heap].used = 1
      /\ Cardinality(DOMAIN m) \in Nat
      /\ Stops(m, sz) # {}
  BY <1>2, <1>3, <1>4, <1>5, GrownSearchEnds
<1>7. InsertEffect(mem, span, arenas, n, m)
  BY <1>3, <1>6, InsertGood
<1> HIDE DEF m
<1>8. x \in DOMAIN m /\ Fits(m, x, sz)
  BY <1>6, FirstFitFits
<1> HIDE DEF n, x
<1>9. /\ n \notin DOMAIN mem /\ DOMAIN m = DOMAIN mem \cup {n}
      /\ Good(m, s, arenas + 1)
      /\ m[n].used = 0 /\ m[n].size = ARENA - HDR /\ m[kern_heap].used = 1
      /\ \A y \in DOMAIN mem : m[y].used = mem[y].used /\ m[y].size = mem[y].size
  BY <1>7 DEF InsertEffect
<1>10. HeadFresh(m)
  BY <1>9 DEF HeadFresh
<1>11. /\ \A y \in Nodes : s[y] = span[y]
       /\ \A y \in DOMAIN m \ Nodes : s[y] = m[y].size /\ m[y].used = 0
  BY <1>9 DEF SpanGrown, Nodes
<1>12. arenas + 1 \in 1 .. MaxArenas /\ frames' \in Nat
  BY <1>3, <1>4, HeapConstants DEF TypeOK, FramesLeft
<1> HIDE DEF s
<1>13. /\ Nodes \subseteq DOMAIN m
       /\ \A y \in Nodes : m[y].used = mem[y].used /\ m[y].size = mem[y].size
                            /\ s[y] = span[y]
  BY <1>9, <1>11 DEF Nodes
<1>14. QED
  BY <1>2, <1>4, <1>8, <1>9, <1>10, <1>11, <1>12, <1>13, ReturnInv, SMTT(30)

\* heap_free preserves the invariant.
LEMMA FreeInv ==
  ASSUME HeapInv, NEW x \in live, heap_free(x)
  PROVE  HeapInv'
<1>1. /\ TypeOK /\ Good(mem, span, arenas) /\ HeadFresh(mem)
      /\ \A y \in live : mem[y].used = 1 /\ span[y] <= mem[y].size
      /\ NoWrap => \A y \in live : asked[y] <= span[y]
  BY DEF HeapInv
<1>2. UNCHANGED <<arenas, frames, span, asked>>
  BY DEF heap_free
<1>3. CASE panicked' = TRUE /\ UNCHANGED <<mem, live, freed, ret>>
  <2>1. TypeOK'
    BY <1>1, <1>2, <1>3 DEF TypeOK, Nodes
  <2>2. QED
    BY <2>1, <1>1, <1>2, <1>3 DEF HeapInv
<1>4. CASE /\ mem' = Freed(mem, x) /\ live' = live \ {x} /\ freed' = x
           /\ ret' = None /\ UNCHANGED panicked
  <2>1. x \in DOMAIN mem /\ mem[x].used = 1 /\ live \subseteq DOMAIN mem
    BY <1>1 DEF TypeOK, Nodes
  <2>2. /\ Good(mem', span, arenas)
        /\ DOMAIN mem' = DOMAIN mem
        /\ mem'[x].used = 1
        /\ \A y \in DOMAIN mem : y # x => mem'[y] = mem[y]
    BY <2>1, <1>1, <1>4, FreedGood
  <2>3. TypeOK'
    <3>1. DOMAIN mem' \subseteq Nat /\ mem' \in [DOMAIN mem' -> Header]
      BY <2>2 DEF Good, Shape
    <3>2. QED
      BY <3>1, <2>1, <2>2, <1>1, <1>2, <1>4 DEF TypeOK, Nodes
  <2>4. HeadFresh(mem')
    <3>1. kern_heap \in DOMAIN mem
      BY <1>1 DEF Good, Shape
    <3>2. CASE kern_heap = x
      BY <3>2, <2>2 DEF HeadFresh
    <3>3. CASE kern_heap # x
      BY <3>1, <3>3, <2>2, <1>1 DEF HeadFresh
    <3>4. QED
      BY <3>2, <3>3
  <2>5. \A y \in live' : mem'[y].used = 1 /\ span'[y] <= mem'[y].size
    BY <2>1, <2>2, <1>1, <1>2, <1>4
  <2>6. NoWrap => \A y \in live' : asked'[y] <= span'[y]
    BY <1>1, <1>2, <1>4
  <2>7. QED
    BY <2>2, <2>3, <2>4, <2>5, <2>6, <1>2 DEF HeapInv
<1>5. QED
  BY <1>3, <1>4, Zenon DEF heap_free

\* Every step preserves the invariant.
LEMMA HeapInvStep == HeapInv /\ [Next]_vars => HeapInv'
<1> SUFFICES ASSUME HeapInv, [Next]_vars PROVE HeapInv'
  OBVIOUS
<1>1. ASSUME NEW req \in Requests, heap_malloc(req) PROVE HeapInv'
  <2>1. CASE heap_malloc_panics(req) \/ heap_malloc_no_room(req)
    <3>1. /\ panicked' = TRUE
          /\ UNCHANGED <<mem, arenas, frames, live, span, asked, freed, ret>>
      BY <2>1 DEF heap_malloc_panics, heap_malloc_no_room
    <3>2. QED
      BY <3>1 DEF HeapInv, TypeOK, Nodes
  <2>2. CASE heap_malloc_fits(req)
    BY <2>2, FitsInv
  <2>3. CASE heap_malloc_grows(req)
    BY <2>3, GrowsInv
  <2>4. QED
    BY <1>1, <2>1, <2>2, <2>3 DEF heap_malloc
<1>2. ASSUME NEW x \in live, heap_free(x) PROVE HeapInv'
  BY <1>2, FreeInv
<1>3. CASE UNCHANGED vars
  BY <1>3 DEF vars, HeapInv, TypeOK, Nodes
<1>4. QED
  BY <1>1, <1>2, <1>3 DEF Next

\* Whatever sequence of heap_malloc and heap_free the kernel makes, memory that
\* was handed out overlaps neither other memory handed out nor a header, it lies
\* in mapped pages, and no block has an unused block as its previous one.
THEOREM HeapSafe == Spec => [](TypeOK /\ NoOverlap /\ PrevIsUsed)
<1>1. HeapInv => TypeOK /\ NoOverlap /\ PrevIsUsed
  BY DEF HeapInv, Good, Apart, Linked, NoOverlap, PrevIsUsed, Limit, Nodes
<1>2. QED
  BY <1>1, HeapInvInit, HeapInvStep, PTL DEF Spec

\* If rounding up a request does not overflow a uint32_t, then a
\* block heap_malloc returns is at least as large as what was asked for.
THEOREM HeapGrantCovers ==
  ASSUME NoWrap
  PROVE  Spec => []GrantCovers
<1>1. HeapInv => GrantCovers
  BY DEF HeapInv, GrantCovers
<1>2. QED
  BY <1>1, HeapInvInit, HeapInvStep, PTL DEF Spec

\* The arenas of the heap hold no page that is in use otherwise.
ArenasAreOwn == \A p \in InUse : arenas * HEAP_BLOCKS <= p

\* A page at or above the first b pages begins at or above their last byte.
LEMMA PagesInOrder ==
  ASSUME NEW b \in Nat, NEW p \in Nat, b <= p
  PROVE  PAGE * b <= p * PAGE
<1>1. PAGE \in Nat /\ p - b \in Nat
  BY ArenaFacts
<1>2. p * PAGE = b * PAGE + (p - b) * PAGE /\ (p - b) * PAGE \in Nat /\ b * PAGE \in Nat
  BY <1>1
<1>3. QED
  BY <1>1, <1>2

\* However far the heap grows, none of its blocks lies in a page that is mapped for
\* something else, wherever those pages are: heap_get_new_block halts at the first.
THEOREM HeapStaysOff == Spec => []OthersAreUntouched
<1>1. Init => ArenasAreOwn
  BY HeapConstants DEF Init, ArenasAreOwn
<1>2. ASSUME HeapInv, ArenasAreOwn, [Next]_vars
      PROVE  ArenasAreOwn'
  <2>1. CASE UNCHANGED arenas
    BY <1>2, <2>1 DEF ArenasAreOwn
  <2>2. ASSUME NEW req \in Requests, heap_malloc_grows(req)
        PROVE  ArenasAreOwn'
    <3> DEFINE b == arenas * HEAP_BLOCKS
               c == (arenas + 1) * HEAP_BLOCKS
    <3>1. arenas \in Nat /\ HEAP_BLOCKS \in Nat
      BY <1>2, HeapConstants DEF HeapInv, TypeOK
    <3>2. b \in Nat /\ c = b + HEAP_BLOCKS
      BY <3>1
    <3>3. arenas' = arenas + 1 /\ InUse \cap (b .. c - 1) = {}
      BY <2>2 DEF heap_malloc_grows, PageInUse
    <3>4. \A p \in InUse : p \in Nat /\ b <= p
      BY <1>2, HeapConstants DEF ArenasAreOwn
    <3>5. SUFFICES \A p \in InUse : c <= p
      BY <3>3 DEF ArenasAreOwn
    <3> HIDE DEF b, c
    <3>6. QED
      BY <3>1, <3>2, <3>3, <3>4
  <2>3. ASSUME NEW req \in Requests, heap_malloc(req) PROVE ArenasAreOwn'
    BY <2>1, <2>2, <2>3 DEF heap_malloc, heap_malloc_panics, heap_malloc_fits,
       heap_malloc_no_room
  <2>4. ASSUME NEW x \in live, heap_free(x) PROVE ArenasAreOwn'
    BY <2>1, <2>4 DEF heap_free
  <2>5. QED
    BY <1>2, <2>1, <2>3, <2>4 DEF Next, vars
<1>3. ASSUME HeapInv, ArenasAreOwn PROVE OthersAreUntouched
  <2> SUFFICES ASSUME NEW x \in Nodes, NEW p \in InUse PROVE Limit(x) <= p * PAGE
    BY DEF OthersAreUntouched
  <2> DEFINE b == arenas * HEAP_BLOCKS
  <2>1. b \in Nat /\ p \in Nat /\ b <= p
    BY <1>3, HeapConstants DEF HeapInv, TypeOK, ArenasAreOwn
  <2>2. arenas * ARENA = PAGE * b
    BY <1>3, HeapConstants DEF HeapInv, TypeOK, ARENA
  <2>3. Limit(x) <= arenas * ARENA /\ Limit(x) \in Nat
    BY <1>3, HeapConstants DEF HeapInv, Good, Shape, Apart, TypeOK, Limit, Nodes
  <2> HIDE DEF b
  <2>4. PAGE * b <= p * PAGE /\ PAGE * b \in Nat /\ p * PAGE \in Nat
    BY <2>1, PagesInOrder, ArenaFacts
  <2>5. QED
    BY <2>2, <2>3, <2>4
<1>4. QED
  BY <1>1, <1>2, <1>3, HeapInvInit, HeapInvStep, PTL DEF Spec

-----------------------------------------------------------------------------
(* The list is circular: it can be numbered from kern_heap to kern_heap.   *)

\* s numbers the n nodes of the list of m, in the order of the pointers next.
IsList(m, s, n) ==
  /\ n \in Nat \ {0}
  /\ s \in [0 .. n -> DOMAIN m]
  /\ s[0] = kern_heap /\ s[n] = kern_heap
  /\ \A k \in 0 .. n - 1 : m[s[k]].next = s[k + 1]
  /\ \A i, j \in 0 .. n - 1 : s[i] = s[j] => i = j

Numbered(s, n) == {s[k] : k \in 0 .. n - 1}

\* L are the nodes on the list of m, which is circular.
Lists(m, L) == \E n, s : IsList(m, s, n) /\ L = Numbered(s, n)

\* No block is in use before the first one, so that the first is never merged.
ListInv ==
  /\ \E L : Lists(mem, L) /\ live \subseteq L
  /\ mem[kern_heap].used = 0 => live = {}

\* t differs from m in no pointer next but those of the nodes in X.
SameNext(m, t, X) == \A w \in DOMAIN m \ X : w \in DOMAIN t /\ t[w].next = m[w].next

\* A step that changes no pointer leaves the list as it is.
LEMMA ListKept ==
  ASSUME NEW m, NEW t, NEW L, Lists(m, L), SameNext(m, t, {})
  PROVE  Lists(t, L)
<1>1. PICK n, s : IsList(m, s, n) /\ L = Numbered(s, n)
  BY DEF Lists
<1>2. IsList(t, s, n)
  BY <1>1 DEF IsList, SameNext
<1>3. QED
  BY <1>1, <1>2 DEF Lists

\* A new node y behind node x of the list: a split, or a new arena.
LEMMA ListInsert ==
  ASSUME NEW m, NEW t, NEW L, Lists(m, L), NEW x \in L, NEW y \in DOMAIN t,
         y \notin DOMAIN m, x \in DOMAIN t, SameNext(m, t, {x}),
         t[x].next = y, t[y].next = m[x].next
  PROVE  Lists(t, L \union {y})
<1>1. PICK n, s : IsList(m, s, n) /\ L = Numbered(s, n)
  BY DEF Lists
<1>2. /\ n \in Nat \ {0} /\ s \in [0 .. n -> DOMAIN m]
      /\ s[0] = kern_heap /\ s[n] = kern_heap
      /\ \A k \in 0 .. n - 1 : m[s[k]].next = s[k + 1]
      /\ \A i, j \in 0 .. n - 1 : s[i] = s[j] => i = j
  BY <1>1, Zenon DEF IsList
<1>3. PICK p \in 0 .. n - 1 : x = s[p]
  BY <1>1 DEF Numbered
<1> DEFINE e == [k \in 0 .. n + 1 |-> IF k <= p THEN s[k] ELSE IF k = p + 1 THEN y ELSE s[k - 1]]
<1>4. /\ \A k \in 0 .. p : e[k] = s[k]
      /\ e[p + 1] = y
      /\ \A k \in p + 1 .. n : e[k + 1] = s[k]
  BY <1>2, <1>3
<1>5. e \in [0 .. n + 1 -> DOMAIN t]
  <2>1. \A k \in 0 .. n : s[k] \in DOMAIN t
    BY <1>2, <1>3 DEF SameNext
  <2>2. QED
    BY <2>1, <1>2, <1>3
<1>6. DOMAIN e = 0 .. n + 1
  OBVIOUS
<1> HIDE DEF e
<1>7. \A k \in 0 .. n - 1 : k # p => t[s[k]].next = s[k + 1]
  BY <1>2, <1>3 DEF SameNext
<1>8. ASSUME NEW k \in 0 .. n PROVE t[e[k]].next = e[k + 1]
  <2>1. CASE k < p
    BY <2>1, <1>2, <1>3, <1>4, <1>7
  <2>2. CASE k = p
    BY <2>2, <1>2, <1>3, <1>4
  <2>3. CASE k = p + 1
    BY <2>3, <1>2, <1>3, <1>4
  <2>4. CASE k > p + 1
    <3>1. k - 1 \in p + 1 .. n - 1 /\ k \in p + 1 .. n /\ k = (k - 1) + 1
      BY <2>4, <1>2, <1>3
    <3>2. e[k] = s[k - 1] /\ e[k + 1] = s[k]
      BY <3>1, <1>2, <1>3, <1>4
    <3>3. QED
      BY <3>1, <3>2, <1>3, <1>7
  <2>5. QED
    BY <2>1, <2>2, <2>3, <2>4, <1>2, <1>3
<1>9. ASSUME NEW i \in 0 .. n, NEW j \in 0 .. n, e[i] = e[j] PROVE i = j
  <2> DEFINE Place(k) == IF k <= p THEN k ELSE k - 1
  <2>1. ASSUME NEW k \in 0 .. n, k # p + 1
        PROVE  e[k] = s[Place(k)] /\ Place(k) \in 0 .. n - 1 /\ e[k] # y
    <3>1. Place(k) \in 0 .. n - 1
      BY <2>1, <1>2, <1>3
    <3>2. CASE k <= p
      BY <3>2, <1>2, <1>3, <1>4
    <3>3. CASE k > p + 1
      <4>1. k - 1 \in p + 1 .. n /\ (k - 1) + 1 = k
        BY <3>3, <1>2, <1>3
      <4>2. e[k] = s[k - 1] /\ s[k - 1] \in DOMAIN m
        BY <4>1, <1>2, <1>3, <1>4
      <4>3. QED
        BY <3>1, <3>3, <4>2, <1>2, <1>3
    <3>4. QED
      BY <2>1, <3>2, <3>3, <1>2, <1>3
  <2>2. CASE i = p + 1 \/ j = p + 1
    BY <2>1, <2>2, <1>4, <1>9
  <2>3. CASE i # p + 1 /\ j # p + 1
    BY <2>1, <2>3, <1>2, <1>3, <1>9
  <2>4. QED
    BY <2>2, <2>3
<1>10. IsList(t, e, n + 1)
  <2>1. n + 1 \in Nat \ {0} /\ (n + 1) - 1 = n /\ n \in p + 1 .. n /\ 0 \in 0 .. p
    BY <1>2, <1>3
  <2>2. e[0] = kern_heap /\ e[n + 1] = kern_heap
    BY <2>1, <1>2, <1>4
  <2>3. QED
    BY <2>1, <2>2, <1>5, <1>8, <1>9 DEF IsList
<1>11. L \union {y} = Numbered(e, n + 1)
  <2>1. (n + 1) - 1 = n
    BY <1>2
  <2>2. ASSUME NEW k \in 0 .. n - 1 PROVE \E j \in 0 .. n : e[j] = s[k]
    <3>1. CASE k <= p
      BY <3>1, <1>2, <1>3, <1>4
    <3>2. CASE k > p
      BY <3>2, <1>2, <1>3, <1>4
    <3>3. QED
      BY <3>1, <3>2, <1>2, <1>3
  <2>3. ASSUME NEW k \in 0 .. n PROVE e[k] = y \/ \E j \in 0 .. n - 1 : e[k] = s[j]
    <3>1. CASE k <= p + 1
      BY <3>1, <1>2, <1>3, <1>4
    <3>2. CASE k > p + 1
      <4>1. k - 1 \in p + 1 .. n - 1 /\ (k - 1) + 1 = k
        BY <3>2, <1>2, <1>3
      <4>2. e[k] = s[k - 1]
        BY <4>1, <1>2, <1>3, <1>4
      <4>3. QED
        BY <4>1, <4>2, <1>2, <1>3
    <3>3. QED
      BY <3>1, <3>2, <1>2, <1>3
  <2>4. p + 1 \in 0 .. n /\ e[p + 1] = y
    BY <1>2, <1>3, <1>4
  <2>5. QED
    BY <2>1, <2>2, <2>3, <2>4, <1>1 DEF Numbered
<1>12. QED
  BY <1>10, <1>11, Zenon DEF Lists

\* Node x takes over the node z behind it, which is not kern_heap: a merge.
LEMMA ListRemove ==
  ASSUME NEW m, NEW t, NEW L, Lists(m, L), NEW x \in L, NEW z, z = m[x].next,
         z # kern_heap, x \in DOMAIN t, SameNext(m, t, {x}), t[x].next = m[z].next
  PROVE  Lists(t, L \ {z})
<1>1. PICK n, s : IsList(m, s, n) /\ L = Numbered(s, n)
  BY DEF Lists
<1>2. /\ n \in Nat \ {0} /\ s \in [0 .. n -> DOMAIN m]
      /\ s[0] = kern_heap /\ s[n] = kern_heap
      /\ \A k \in 0 .. n - 1 : m[s[k]].next = s[k + 1]
      /\ \A i, j \in 0 .. n - 1 : s[i] = s[j] => i = j
  BY <1>1, Zenon DEF IsList
<1>3. PICK p \in 0 .. n - 1 : x = s[p]
  BY <1>1 DEF Numbered
<1>4. p + 1 \in 0 .. n - 1 /\ z = s[p + 1]
  BY <1>2, <1>3
<1> DEFINE e == [k \in 0 .. n - 1 |-> IF k <= p THEN s[k] ELSE s[k + 1]]
<1>5. /\ \A k \in 0 .. p : e[k] = s[k]
      /\ \A k \in p + 1 .. n - 1 : e[k] = s[k + 1]
  BY <1>2, <1>3
<1>6. e \in [0 .. n - 1 -> DOMAIN t]
  <2>1. \A k \in 0 .. n : s[k] \in DOMAIN t
    BY <1>2, <1>3 DEF SameNext
  <2>2. QED
    BY <2>1, <1>2, <1>3
<1> HIDE DEF e
<1>7. \A k \in 0 .. n - 1 : k # p => t[s[k]].next = s[k + 1]
  BY <1>2, <1>3 DEF SameNext
<1>8. ASSUME NEW k \in 0 .. n - 2 PROVE t[e[k]].next = e[k + 1]
  <2>1. CASE k < p
    BY <2>1, <1>2, <1>3, <1>5, <1>7
  <2>2. CASE k = p
    <3>1. e[k] = x /\ e[k + 1] = s[(p + 1) + 1]
      BY <2>2, <1>2, <1>3, <1>4, <1>5
    <3>2. QED
      BY <3>1, <1>2, <1>4
  <2>3. CASE k > p
    <3>1. k + 1 \in 0 .. n - 1 /\ k + 1 # p
      BY <2>3, <1>2, <1>3
    <3>2. e[k] = s[k + 1] /\ e[k + 1] = s[(k + 1) + 1]
      BY <2>3, <1>2, <1>3, <1>5
    <3>3. QED
      BY <3>1, <3>2, <1>7
  <2>4. QED
    BY <2>1, <2>2, <2>3, <1>2, <1>3
<1> DEFINE Place(k) == IF k <= p THEN k ELSE k + 1
<1>9. ASSUME NEW k \in 0 .. n - 2
      PROVE  e[k] = s[Place(k)] /\ Place(k) \in 0 .. n - 1 /\ Place(k) # p + 1
  BY <1>2, <1>3, <1>5
<1>10. ASSUME NEW i \in 0 .. n - 2, NEW j \in 0 .. n - 2, e[i] = e[j] PROVE i = j
  <2>1. Place(i) = Place(j)
    <3>1. s[Place(i)] = s[Place(j)] /\ Place(i) \in 0 .. n - 1 /\ Place(j) \in 0 .. n - 1
      BY <1>9, <1>10
    <3> HIDE DEF Place
    <3>2. QED
      BY <3>1, <1>2
  <2>2. QED
    BY <2>1, <1>3
<1>11. IsList(t, e, n - 1)
  <2>1. /\ n - 1 \in Nat \ {0} /\ (n - 1) - 1 = n - 2 /\ n - 1 \in p + 1 .. n - 1
        /\ 0 \in 0 .. p /\ (n - 1) + 1 = n
    <3>1. n \in Nat /\ p \in Nat /\ p + 1 <= n - 1
      BY <1>2, <1>3, <1>4
    <3>2. QED
      BY <3>1
  <2>2. e[0] = kern_heap /\ e[n - 1] = kern_heap
    BY <2>1, <1>2, <1>5
  <2>3. QED
    BY <2>1, <2>2, <1>6, <1>8, <1>10 DEF IsList
<1>12. L \ {z} = Numbered(e, n - 1)
  <2>1. (n - 1) - 1 = n - 2
    BY <1>2
  <2>2. ASSUME NEW k \in 0 .. n - 1, k # p + 1 PROVE \E j \in 0 .. n - 2 : e[j] = s[k]
    <3>1. CASE k <= p
      BY <3>1, <1>2, <1>4, <1>5
    <3>2. CASE k > p + 1
      <4>1. k - 1 \in p + 1 .. n - 2 /\ (k - 1) + 1 = k
        BY <3>2, <1>2, <1>3
      <4>2. e[k - 1] = s[k]
        BY <4>1, <1>2, <1>3, <1>5
      <4>3. QED
        BY <4>1, <4>2, <1>2, <1>3
    <3>3. QED
      BY <2>2, <3>1, <3>2, <1>2, <1>3
  <2>3. ASSUME NEW k \in 0 .. n - 1, s[k] # z PROVE k # p + 1
    BY <2>3, <1>4
  <2>4. ASSUME NEW k \in 0 .. n - 2 PROVE e[k] # z /\ \E j \in 0 .. n - 1 : e[k] = s[j]
    <3>1. e[k] = s[Place(k)] /\ Place(k) \in 0 .. n - 1 /\ Place(k) # p + 1
      BY <1>9
    <3> HIDE DEF Place
    <3>2. QED
      BY <3>1, <1>2, <1>4
  <2>5. QED
    BY <2>1, <2>2, <2>3, <2>4, <1>1 DEF Numbered
<1>13. QED
  BY <1>11, <1>12, Zenon DEF Lists

\* The loop of heap_malloc visits exactly the nodes on the list, and is back at
\* kern_heap after at most as many steps as there are nodes.
LEMMA ListWalk ==
  ASSUME NEW m, kern_heap \in DOMAIN m, IsFiniteSet(DOMAIN m),
         \A x \in DOMAIN m : m[x].next \in DOMAIN m, NEW L, Lists(m, L)
  PROVE  /\ \E k \in 1 .. Cardinality(DOMAIN m) : Walk(m)[k] = kern_heap
         /\ \A k \in 0 .. Cardinality(DOMAIN m) : Visits(m, k) => Walk(m)[k] \in L
         /\ \A x \in L : \E k \in 0 .. Cardinality(DOMAIN m) : Visits(m, k) /\ Walk(m)[k] = x
<1> DEFINE c == Cardinality(DOMAIN m)
           W == Walk(m)
<1>1. PICK n, s : IsList(m, s, n) /\ L = Numbered(s, n)
  BY Zenon DEF Lists
<1>2. /\ n \in Nat \ {0} /\ s \in [0 .. n -> DOMAIN m]
      /\ s[0] = kern_heap /\ s[n] = kern_heap
      /\ \A k \in 0 .. n - 1 : m[s[k]].next = s[k + 1]
      /\ \A i, j \in 0 .. n - 1 : s[i] = s[j] => i = j
  BY <1>1, Zenon DEF IsList
<1>3. c \in Nat /\ W[0] = kern_heap /\ \A k \in 1 .. c : W[k] = m[W[k - 1]].next
  BY WalkEquation, Zenon
<1> HIDE DEF W
<1>4. n <= c
  <2> DEFINE I == 0 .. n - 1
             f == [k \in I |-> s[k]]
  <2>1. IsFiniteSet(I) /\ Cardinality(I) = n
    BY <1>2, FS_Interval
  <2>2. f \in [I -> DOMAIN m] /\ \A i, j \in I : f[i] = f[j] => i = j
    BY <1>2
  <2> HIDE DEF f, I
  <2>3. ~ (c < Cardinality(I))
    BY <2>1, <2>2, FS_PigeonHole
  <2>4. QED
    BY <2>1, <2>3, <1>2, <1>3
<1> HIDE DEF c
<1>5. \A k \in 0 .. n : W[k] = s[k]
  <2> DEFINE Bad == {k \in 0 .. n : W[k] # s[k]}
  <2>1. SUFFICES ASSUME Bad # {} PROVE FALSE
    OBVIOUS
  <2>2. Bad \in SUBSET Nat
    OBVIOUS
  <2>3. PICK k \in Bad : \A l \in Bad : k <= l
    BY <2>1, <2>2, LeastElement, Zenon
  <2>4. k \in 0 .. n /\ W[k] # s[k]
    OBVIOUS
  <2>5. k # 0
    BY <2>4, <1>2, <1>3, Zenon
  <2>6. k - 1 \in 0 .. n - 1 /\ k - 1 \in 0 .. n /\ ~(k <= k - 1) /\ k \in 1 .. c /\ (k - 1) + 1 = k
    BY <2>4, <2>5, <1>2, <1>3, <1>4
  <2>7. W[k - 1] = s[k - 1]
    BY <2>3, <2>6, Zenon
  <2>8. QED
    BY <2>4, <2>6, <2>7, <1>2, <1>3, Zenon
<1>6. \E k \in 1 .. c : W[k] = kern_heap
  BY <1>2, <1>3, <1>4, <1>5
<1>7. ASSUME NEW k \in 0 .. c, Visits(m, k) PROVE W[k] \in L
  <2>1. k \in 0 .. n - 1
    <3>1. SUFFICES ASSUME n <= k PROVE FALSE
      BY <1>2, <1>3
    <3>2. n \in 1 .. k /\ W[n] = kern_heap
      BY <3>1, <1>2, <1>3, <1>5
    <3>3. QED
      BY <3>2, <1>7, Zenon DEF Visits, W
  <2>2. W[k] = s[k]
    BY <2>1, <1>2, <1>5
  <2>3. QED
    BY <2>1, <2>2, <1>1, Zenon DEF Numbered
<1>8. ASSUME NEW x \in L PROVE \E k \in 0 .. c : Visits(m, k) /\ W[k] = x
  <2>1. PICK k \in 0 .. n - 1 : x = s[k]
    BY <1>1, Zenon DEF Numbered
  <2>2. ASSUME NEW j \in 1 .. k PROVE W[j] # kern_heap
    <3>1. j \in 0 .. n - 1 /\ j # 0 /\ 0 \in 0 .. n - 1 /\ j \in 0 .. n
      BY <1>2
    <3>2. QED
      BY <3>1, <1>2, <1>5, Zenon
  <2>3. Visits(m, k)
    BY <2>2, Zenon DEF Visits, W
  <2>4. QED
    BY <2>1, <2>3, <1>2, <1>3, <1>4, <1>5
<1>9. QED
  BY <1>6, <1>7, <1>8, Zenon DEF W, c

\* kern_heap is on the list, and the nodes on the list are nodes.
LEMMA ListNodes ==
  ASSUME NEW m, NEW L, Lists(m, L)
  PROVE  kern_heap \in L /\ L \subseteq DOMAIN m
<1>1. PICK n, s : IsList(m, s, n) /\ L = Numbered(s, n)
  BY Zenon DEF Lists
<1>2. n \in Nat \ {0} /\ s \in [0 .. n -> DOMAIN m] /\ s[0] = kern_heap
  BY <1>1, Zenon DEF IsList
<1>3. 0 \in 0 .. n - 1
  BY <1>2
<1>4. QED
  BY <1>1, <1>2, <1>3 DEF Numbered

\* The search stops at a node of the list, and at kern_heap if that fits.
LEMMA FirstFitListed ==
  ASSUME NEW m, NEW s, NEW a, Good(m, s, a), NEW L, Lists(m, L), NEW sz, Stops(m, sz) # {}
  PROVE  /\ FirstFit(m, sz) \in L
         /\ Fits(m, kern_heap, sz) => FirstFit(m, sz) = kern_heap
<1> DEFINE K == Stops(m, sz)
           k == CHOOSE i \in K : \A j \in K : i <= j
<1>1. /\ kern_heap \in DOMAIN m /\ IsFiniteSet(DOMAIN m)
      /\ \A x \in DOMAIN m : m[x].next \in DOMAIN m
  BY Zenon DEF Good, Shape, Linked
<1>2. Cardinality(DOMAIN m) \in Nat /\ Walk(m)[0] = kern_heap
  BY <1>1, WalkEquation, Zenon
<1>3. K \in SUBSET Nat /\ K # {}
  BY <1>2 DEF Stops
<1>4. \E i \in K : \A j \in K : i <= j
  BY <1>3, LeastElement, Zenon
<1>5. k \in K /\ \A j \in K : k <= j
  BY <1>4, Zenon
<1>6. FirstFit(m, sz) = Walk(m)[k]
  BY Zenon DEF FirstFit
<1> HIDE DEF k
<1>7. Walk(m)[k] \in L
  <2>1. k \in 0 .. Cardinality(DOMAIN m) /\ Visits(m, k)
    BY <1>5, Zenon DEF Stops
  <2>2. QED
    BY <2>1, <1>1, ListWalk, Zenon
<1>8. ASSUME Fits(m, kern_heap, sz) PROVE k = 0
  <2>1. Visits(m, 0)
    BY DEF Visits
  <2>2. 0 \in K
    BY <2>1, <1>1, <1>2, <1>8 DEF Stops
  <2>3. QED
    BY <2>2, <1>3, <1>5
<1>9. QED
  BY <1>2, <1>6, <1>7, <1>8, Zenon

\* Of the nodes of m, only x changes, and is in use in t.
TakesOnly(m, x, t) == t[x].used = 1 /\ \A y \in DOMAIN m : y # x => t[y] = m[y]

\* Handing out a node of the list leaves all nodes of the list on it.
LEMMA TakeLists ==
  ASSUME NEW m, NEW s, NEW a, Good(m, s, a), NEW L, Lists(m, L), NEW x \in L,
         NEW sz \in Nat, NEW magic \in BOOLEAN, Fits(m, x, sz)
  PROVE  /\ \E K : Lists(Take(m, x, sz, magic), K) /\ L \subseteq K
         /\ TakesOnly(m, x, Take(m, x, sz, magic))
<1> DEFINE t == Take(m, x, sz, magic)
           r == x + sz + HDR
<1>1. /\ x \in DOMAIN m /\ DOMAIN m \subseteq Nat /\ m \in [DOMAIN m -> Header]
      /\ s \in [DOMAIN m -> Nat] /\ \A y, w \in DOMAIN m : y < w => y + HDR + s[y] <= w
  BY ListNodes, Zenon DEF Good, Shape, Apart
<1>2. TakeEffect(m, x, sz, t)
  BY <1>1, TakeFields, Zenon
<1>3. /\ DOMAIN m \subseteq DOMAIN t /\ t[x].used = 1
      /\ \A y \in DOMAIN m : y # x => t[y] = m[y]
  BY <1>1, TakeGood
<1> HIDE DEF t
<1>4. SameNext(m, t, {x}) /\ x \in DOMAIN t /\ TakesOnly(m, x, t)
  BY <1>1, <1>3, Zenon DEF SameNext, TakesOnly
<1>5. CASE Splits(m, x, sz)
  <2>1. /\ DOMAIN t = DOMAIN m \cup {r} /\ r \in Nat
        /\ t[x].next = r /\ t[r].next = m[x].next /\ m[x].used = 0 /\ m[x].size >= sz
    BY <1>2, <1>5, Zenon DEF TakeEffect
  <2>2. m[x].size = s[x] /\ s[x] \in Nat
    BY <2>1, <1>1, Zenon DEF Good, SizesAgree
  <2>3. s[x] - sz > HDR /\ HDR \in Nat \ {0}
    BY <2>2, <1>5, ArenaFacts, Zenon DEF Splits
  <2>4. x < r /\ ~(x + HDR + s[x] <= r)
    BY <2>2, <2>3, <1>1
  <2>5. r \notin DOMAIN m
    BY <2>4, <1>1, Zenon
  <2> HIDE DEF r
  <2>6. Lists(t, L \union {r})
    BY <2>1, <2>5, <1>4, ListInsert, Zenon
  <2>7. QED
    BY <2>6, <1>4, Zenon DEF t
<1>6. CASE ~Splits(m, x, sz)
  <2>1. t[x].next = m[x].next
    BY <1>2, <1>6, Zenon DEF TakeEffect
  <2>2. SameNext(m, t, {})
    BY <2>1, <1>4, Zenon DEF SameNext
  <2>3. Lists(t, L)
    BY <2>2, ListKept, Zenon
  <2>4. QED
    BY <2>3, <1>4, Zenon DEF t
<1>7. QED
  BY <1>5, <1>6, Zenon

\* A new arena joins the list.
LEMMA InsertLists ==
  ASSUME NEW m, NEW s, NEW a, Good(m, s, a), NEW L, Lists(m, L), m[kern_heap].used = 1
  PROVE  Lists(InsertArena(m, kern_heap, a * ARENA), L \union {a * ARENA})
<1> DEFINE n == a * ARENA
           t == InsertArena(m, kern_heap, n)
           l == [m EXCEPT ![kern_heap].next = n]
           h == FreshHeader(m[kern_heap].next, kern_heap)
<1>1. kern_heap \in DOMAIN m /\ kern_heap \in L /\ m \in [DOMAIN m -> Header]
  BY ListNodes, Zenon DEF Good, Shape
<1>2. n \notin DOMAIN m
  <2>1. InsertEffect(m, s, a, n, t)
    BY InsertGood, Zenon
  <2> HIDE DEF t, n
  <2>2. QED
    BY <2>1, Zenon DEF InsertEffect
<1> HIDE DEF n
<1>3. t = [y \in DOMAIN l \cup {n} |-> IF y = n THEN h ELSE l[y]]
  BY Zenon DEF InsertArena, WithNode
<1>4. /\ DOMAIN l = DOMAIN m /\ l[kern_heap].next = n
      /\ \A y \in DOMAIN m \ {kern_heap} : l[y] = m[y]
  BY <1>1, Zenon DEF Header
<1>5. h.next = m[kern_heap].next
  BY Zenon DEF FreshHeader
<1> HIDE DEF t, l, h
<1>6. /\ n \in DOMAIN t /\ kern_heap \in DOMAIN t /\ SameNext(m, t, {kern_heap})
      /\ t[kern_heap].next = n /\ t[n].next = m[kern_heap].next
  BY <1>1, <1>2, <1>3, <1>4, <1>5, Zenon DEF SameNext
<1>7. Lists(t, L \union {n})
  BY <1>1, <1>2, <1>6, ListInsert, Zenon
<1>8. QED
  BY <1>7, Zenon DEF t, n

\* heap_free takes at most a block that is not in use off the list.
LEMMA FreedLists ==
  ASSUME NEW m, NEW s, NEW a, Good(m, s, a), NEW L, Lists(m, L), NEW x \in L,
         m[x].used = 1, m[kern_heap].used = 1
  PROVE  \E K : Lists(Freed(m, x), K) /\ \A y \in L : m[y].used = 1 => y \in K
<1> DEFINE t == Freed(m, x)
           z == m[x].next
<1>1. x \in DOMAIN m /\ m \in [DOMAIN m -> Header]
  BY ListNodes, Zenon DEF Good, Shape
<1>2. DOMAIN t = DOMAIN m /\ \A y \in DOMAIN m : y # x => t[y] = m[y]
  BY <1>1, FreedGood, Zenon
<1>3. m[x].prev = x \/ m[m[x].prev].used = 1
  BY <1>1, Zenon DEF Good, Linked
<1>4. t = IF JoinsNext(m, x) THEN Absorb(m, x) ELSE m
  BY <1>1, FreedMerges, Zenon DEF Good
<1> HIDE DEF t
<1>5. SameNext(m, t, {x}) /\ x \in DOMAIN t
  BY <1>1, <1>2, Zenon DEF SameNext
<1>6. CASE JoinsNext(m, x)
  <2>1. z # x /\ m[z].used = 0 /\ z # kern_heap /\ m[x].prev # z
    BY <1>3, <1>6 DEF JoinsNext
  <2>2. t[x].next = m[z].next
    BY <2>1, <1>1, <1>4, <1>6, Zenon DEF Absorb, Header
  <2> HIDE DEF z
  <2>3. z = m[x].next
    BY Zenon DEF z
  <2>4. Lists(t, L \ {z})
    BY <2>1, <2>2, <2>3, <1>5, ListRemove, Zenon
  <2>5. QED
    BY <2>1, <2>4 DEF t
<1>7. CASE ~JoinsNext(m, x)
  BY <1>4, <1>7, Zenon DEF t
<1>8. QED
  BY <1>6, <1>7, Zenon

\* Handing out the first node that fits keeps the list circular, and kern_heap is
\* in use from then on.
LEMMA ReturnLists ==
  ASSUME NEW m, NEW s, NEW a, Good(m, s, a), HeadFresh(m), NEW L, Lists(m, L), live \subseteq L,
         NEW sz \in Nat, sz <= ARENA - HDR, Stops(m, sz) # {}, NEW req,
         Return(m, FirstFit(m, sz), sz, req)
  PROVE  ListInv'
<1> DEFINE x == FirstFit(m, sz)
<1>1. x \in L /\ (Fits(m, kern_heap, sz) => x = kern_heap)
  BY FirstFitListed, Zenon
<1>2. /\ kern_heap \in DOMAIN m /\ m[kern_heap] \in Header /\ IsFiniteSet(DOMAIN m)
      /\ \A y \in DOMAIN m : m[y].next \in DOMAIN m
  BY Zenon DEF Good, Shape, Linked
<1>3. x \in DOMAIN m /\ Fits(m, x, sz)
  BY <1>2, WalkEquation, FirstFitFits, Zenon
<1> HIDE DEF x
<1>4. PICK magic \in BOOLEAN : mem' = Take(m, x, sz, magic) /\ live' = live \cup {x}
  BY Zenon DEF Return, x
<1>5. (\E K : Lists(mem', K) /\ L \subseteq K) /\ TakesOnly(m, x, mem')
  BY <1>1, <1>3, <1>4, TakeLists, Zenon
<1>6. mem'[kern_heap].used = 1
  <2>1. m[kern_heap].used = 0 => x = kern_heap
    BY <1>1, Zenon DEF HeadFresh, Fits
  <2>2. m[kern_heap].used \in {0, 1}
    BY <1>2, Zenon DEF Header
  <2>3. QED
    BY <2>1, <2>2, <1>2, <1>5, Zenon DEF TakesOnly
<1>7. QED
  BY <1>1, <1>4, <1>5, <1>6 DEF ListInv

\* Every operation keeps the list circular.
LEMMA ListInvStep == HeapInv /\ ListInv /\ [Next]_vars => ListInv'
<1> SUFFICES ASSUME HeapInv, ListInv, [Next]_vars PROVE ListInv'
  OBVIOUS
<1>1. /\ TypeOK /\ Good(mem, span, arenas) /\ HeadFresh(mem)
      /\ \A y \in live : mem[y].used = 1
  BY Zenon DEF HeapInv
<1>2. PICK L : Lists(mem, L) /\ live \subseteq L
  BY Zenon DEF ListInv
<1>3. CASE UNCHANGED <<mem, live>>
  BY <1>3, Zenon DEF ListInv
<1>4. ASSUME NEW req \in Requests, ~TooBig(Round(req))
      PROVE  /\ Round(req) \in Nat /\ Round(req) <= ARENA - HDR
             /\ Round(Round(req)) \in Nat /\ Round(Round(req)) <= ARENA - HDR
  <2>1. req \in 0 .. WORD - 1 /\ Round(req) \in 0 .. WORD - 1
    BY HeapConstants, RoundFacts, Zenon
  <2>2. Round(req) <= PAGE - HDR
    BY <2>1, <1>4, ArenaFacts DEF TooBig
  <2>3. Round(Round(req)) \in Nat /\ Round(Round(req)) <= PAGE - HDR
    BY <2>1, <2>2, RoundTwice, Zenon
  <2>4. QED
    BY <2>1, <2>2, <2>3, ArenaFacts
<1>5. ASSUME NEW req \in Requests, heap_malloc_fits(req) PROVE ListInv'
  <2>1. /\ ~TooBig(Round(req)) /\ Stops(mem, Round(req)) # {}
        /\ Return(mem, FirstFit(mem, Round(req)), Round(req), req)
    BY <1>5, Zenon DEF heap_malloc_fits
  <2>2. QED
    BY <2>1, <1>1, <1>2, <1>4, ReturnLists, Zenon
<1>6. ASSUME NEW req \in Requests, heap_malloc_grows(req) PROVE ListInv'
  <2> DEFINE r == Round(req)
             sz == Round(r)
             n == arenas * ARENA
             m == InsertArena(mem, kern_heap, n)
  <2>1. ~TooBig(r) /\ Stops(mem, r) = {} /\ Return(m, FirstFit(m, sz), sz, req)
    BY <1>6, Zenon DEF heap_malloc_grows, NeedsArena
  <2>2. r \in Nat /\ r <= ARENA - HDR /\ sz \in Nat /\ sz <= ARENA - HDR
    BY <2>1, <1>4, Zenon
  <2> HIDE DEF r, sz
  <2>3. mem[kern_heap].used = 1 /\ Stops(m, sz) # {}
    BY <2>1, <2>2, <1>1, GrownSearchEnds, Zenon
  <2>4. InsertEffect(mem, span, arenas, n, m) /\ Lists(m, L \union {n})
    BY <2>3, <1>1, <1>2, InsertGood, InsertLists, Zenon
  <2> HIDE DEF m, n
  <2>5. Good(m, SpanGrown(mem, span, n), arenas + 1) /\ HeadFresh(m)
    BY <2>4 DEF InsertEffect, HeadFresh
  <2>6. live \subseteq L \union {n}
    BY <1>2, Zenon
  <2>7. QED
    BY <2>1, <2>2, <2>3, <2>4, <2>5, <2>6, ReturnLists, Zenon
<1>7. ASSUME NEW x \in live, mem' = Freed(mem, x), live' = live \ {x} PROVE ListInv'
  <2>1. x \in L /\ x \in DOMAIN mem /\ mem[x].used = 1
    BY <1>1, <1>2, Zenon DEF TypeOK, Nodes
  <2>2. kern_heap \in DOMAIN mem /\ mem[kern_heap].used = 1
    BY <1>1, Zenon DEF ListInv, Good, Shape, Header
  <2>3. PICK K : Lists(mem', K) /\ \A y \in L : mem[y].used = 1 => y \in K
    BY <2>1, <2>2, <1>1, <1>2, <1>7, FreedLists, Zenon
  <2>4. mem'[x].used = 1 /\ \A y \in DOMAIN mem : y # x => mem'[y] = mem[y]
    BY <2>1, <1>1, <1>7, FreedGood, Zenon
  <2>5. mem'[kern_heap].used = 1
    BY <2>2, <2>4, Zenon
  <2>6. QED
    BY <2>3, <2>5, <1>1, <1>2, <1>7 DEF ListInv
<1>8. QED
  BY <1>3, <1>5, <1>6, <1>7, Zenon DEF Next, vars, heap_malloc, heap_malloc_panics,
     heap_malloc_no_room, heap_free

\* The search loop of heap_malloc always comes back to kern_heap and passes every
\* block in use: no sequence of splits, new arenas and merges breaks the list.
THEOREM HeapListIsCircular == Spec => []ListIsCircular
<1>1. Init => ListInv
  <2> SUFFICES ASSUME Init PROVE ListInv
    OBVIOUS
  <2> DEFINE s == [k \in 0 .. 1 |-> kern_heap]
  <2>1. mem[kern_heap].next = kern_heap /\ DOMAIN mem = {kern_heap} /\ live = {}
    BY Zenon DEF Init, FreshHeader
  <2>2. IsList(mem, s, 1)
    BY <2>1 DEF IsList
  <2>3. Lists(mem, Numbered(s, 1))
    BY <2>2, Zenon DEF Lists
  <2>4. QED
    BY <2>1, <2>3, Zenon DEF ListInv
<1>2. HeapInv /\ ListInv => ListIsCircular
  <2> SUFFICES ASSUME HeapInv, ListInv PROVE ListIsCircular
    OBVIOUS
  <2>1. PICK L : Lists(mem, L) /\ live \subseteq L
    BY Zenon DEF ListInv
  <2>2. /\ kern_heap \in DOMAIN mem /\ IsFiniteSet(DOMAIN mem)
        /\ \A x \in DOMAIN mem : mem[x].next \in DOMAIN mem
    BY Zenon DEF HeapInv, Good, Shape, Linked
  <2>3. /\ \E k \in 1 .. Cardinality(DOMAIN mem) : Walk(mem)[k] = kern_heap
        /\ \A x \in L : \E k \in 0 .. Cardinality(DOMAIN mem) :
                           Visits(mem, k) /\ Walk(mem)[k] = x
    BY <2>1, <2>2, ListWalk, Zenon
  <2>4. L \subseteq Listed
    BY <2>3, Zenon DEF Listed, Nodes
  <2>5. QED
    BY <2>1, <2>3, <2>4, Zenon DEF ListIsCircular, Nodes
<1>3. QED
  BY <1>1, <1>2, HeapInvInit, HeapInvStep, ListInvStep, PTL DEF Spec
=============================================================================
