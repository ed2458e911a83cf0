-------------------------------- MODULE Heap --------------------------------
(***************************************************************************)
(* The kernel heap, src/sys/heap.c.  Memory is modelled by the headers     *)
(* (LLMalloc) that were written into it: mem maps the address of every     *)
(* header ever written to its fields, also of headers a later merge took   *)
(* off the list.  Addresses are relative to HEAP_START, so kern_heap is 0. *)
(*                                                                         *)
(* The magic numbers are one Boolean: whether they hold 0xabcd and 0xef.   *)
(* The header a split creates does not set them; it lies in memory nothing *)
(* wrote before, so they hold what the physical page happened to hold.     *)
(***************************************************************************)
EXTENDS Integers, FiniteSets

CONSTANTS
  HDR,          \* sizeof(LLMalloc), 16 in the code
  PAGE,         \* 4096 in the code
  HEAP_BLOCKS,  \* pages per call of heap_get_new_block
  WORD,         \* number of values of a uint32_t
  Requests,     \* the arguments of heap_malloc
  MaxArenas,    \* bound: calls of heap_get_new_block
  FRAMES,       \* physical frames free when heap_init is called
  InUse         \* pages after HEAP_START that are mapped for something else

ARENA == PAGE * HEAP_BLOCKS

ASSUME HeapConstants ==
  /\ HDR \in Nat \ {0} /\ HDR % 4 = 0
  /\ PAGE \in Nat /\ PAGE > HDR /\ PAGE % 4 = 0
  /\ HEAP_BLOCKS \in Nat \ {0}
  /\ WORD \in Nat /\ WORD > ARENA /\ WORD % 4 = 0
  /\ Requests \subseteq 0 .. WORD - 1
  /\ MaxArenas \in Nat \ {0}
  /\ FRAMES \in Nat
  /\ InUse \subseteq Nat /\ InUse \cap (0 .. HEAP_BLOCKS - 1) = {}

VARIABLES
  mem,      \* the headers in memory
  arenas,   \* kheap.blocks_allocked, in units of HEAP_BLOCKS
  frames,   \* free physical frames
  live,     \* nodes whose memory the kernel uses
  span,     \* bytes that belong to a node since it was created or handed out
  asked,    \* bytes requested for a node that was handed out
  freed,    \* the block the last call freed, -1 if it was not heap_free
  ret,      \* the block the last call returned, -1 if it was not heap_malloc
  panicked  \* PANIC was called: the machine halts

vars == <<mem, arenas, frames, live, span, asked, freed, ret, panicked>>

Nodes == DOMAIN mem
kern_heap == 0
None == -1

-----------------------------------------------------------------------------
(* heap_get_new_block.                                                     *)

\* Mutant: the size of the header is not subtracted.
FreshHeader_full(next, prev) ==
  [next |-> next, prev |-> prev, size |-> ARENA, used |-> 0, magic |-> TRUE]

\* The header at the start of a new arena, placed after node prev or alone.
FreshHeader(next, prev) ==
  [next |-> next, prev |-> prev, size |-> ARENA - HDR, used |-> 0, magic |-> TRUE]

WithNode(m, x, node) == [y \in DOMAIN m \cup {x} |-> IF y = x THEN node ELSE m[y]]

\* Mutant: the new node is not linked to the node that followed prev.
InsertArena_unlinked(m, prev, x) ==
  WithNode([m EXCEPT ![prev].next = x], x, FreshHeader(x, prev))

InsertArena(m, prev, x) ==
  LET linked == [m EXCEPT ![prev].next = x]
  IN WithNode(linked, x, FreshHeader(m[prev].next, prev))

\* Mutant: only the first page is looked at.
PageInUse_first(a) == a * HEAP_BLOCKS \in InUse

\* vmm_map_page fails for a page of the arena that follows a arenas: it is mapped.
PageInUse(a) == InUse \cap (a * HEAP_BLOCKS .. (a + 1) * HEAP_BLOCKS - 1) # {}

\* The frames an arena takes: its pages and one page table.  pmm_alloc_first
\* returns NULL when none is left; nobody looks, and page 0 is mapped instead.
FramesLeft(f) == IF f > HEAP_BLOCKS + 1 THEN f - (HEAP_BLOCKS + 1) ELSE 0

Init ==
  /\ mem = [x \in {kern_heap} |-> FreshHeader(kern_heap, kern_heap)]
  /\ arenas = 1
  /\ frames = FramesLeft(FRAMES)
  /\ live = {}
  /\ span = [x \in {kern_heap} |-> ARENA - HDR]
  /\ asked = [x \in {kern_heap} |-> 0]
  /\ freed = None
  /\ ret = None
  /\ panicked = FALSE

-----------------------------------------------------------------------------
(* heap_malloc.                                                            *)

Round(sz) == (sz + (sz % 4)) % WORD

TooBig(sz) == sz > PAGE - HDR

\* The nodes in the order of the list that begins at kern_heap.
Walk(m) ==
  LET f[k \in 0 .. Cardinality(DOMAIN m)] ==
        IF k = 0 THEN kern_heap ELSE m[f[k - 1]].next
  IN f

\* Number of nodes the loop visits until it is back at kern_heap.
Visits(m, k) == \A j \in 1 .. k : Walk(m)[j] # kern_heap

\* Mutant: the size of the block is not compared.
Fits_any(m, x, sz) == m[x].used = 0

Fits(m, x, sz) == m[x].used = 0 /\ m[x].size >= sz

\* Positions at which the loop would stop.
Stops(m, sz) ==
  {k \in 0 .. Cardinality(DOMAIN m) :
     Visits(m, k) /\ Walk(m)[k] \in DOMAIN m /\ Fits(m, Walk(m)[k], sz)}

FirstFit(m, sz) ==
  Walk(m)[CHOOSE k \in Stops(m, sz) : \A j \in Stops(m, sz) : k <= j]

Splits(m, x, sz) == m[x].size - sz > HDR

\* The node that is handed out, and the rest of it as a new free node.
Take(m, x, sz, magic) ==
  LET rest == x + sz + HDR
      node == [next |-> m[x].next, prev |-> x, size |-> m[x].size - HDR - sz,
               used |-> 0, magic |-> magic]
      split == [m EXCEPT ![x].used = 1, ![x].next = rest, ![x].size = sz]
  IN IF Splits(m, x, sz) THEN WithNode(split, rest, node)
     ELSE [m EXCEPT ![x].used = 1]

\* Hands out node x of memory m for a request of req bytes, rounded to sz.
Return(m, x, sz, req) ==
  \E magic \in BOOLEAN :
    LET m2 == Take(m, x, sz, magic)
    IN /\ mem' = m2
       /\ span' = [y \in DOMAIN m2 |->
                     IF y \in DOMAIN span /\ y # x THEN span[y] ELSE m2[y].size]
       /\ asked' = [y \in DOMAIN m2 |->
                     IF y = x THEN req
                     ELSE IF y \in DOMAIN asked THEN asked[y] ELSE 0]
       /\ live' = live \cup {x}
       /\ ret' = x
       /\ freed' = None

heap_malloc_panics(req) ==
  /\ TooBig(Round(req))
  /\ panicked' = TRUE
  /\ UNCHANGED <<mem, arenas, frames, live, span, asked, freed, ret>>

heap_malloc_fits(req) ==
  /\ ~TooBig(Round(req))
  /\ Stops(mem, Round(req)) # {}
  /\ Return(mem, FirstFit(mem, Round(req)), Round(req), req)
  /\ UNCHANGED <<arenas, frames, panicked>>

\* No block is large enough for the request.
NeedsArena(req) == ~TooBig(Round(req)) /\ Stops(mem, Round(req)) = {}

\* The heap has reached a page that is in use: PANIC, with the pages before it
\* mapped and counted, which no longer matters.
heap_malloc_no_room(req) ==
  /\ NeedsArena(req)
  /\ PageInUse(arenas)
  /\ panicked' = TRUE
  /\ UNCHANGED <<mem, arenas, frames, live, span, asked, freed, ret>>

\* A new arena is placed after kern_heap, where the loop ended, and heap_malloc
\* calls itself, which rounds the size once more.
heap_malloc_grows(req) ==
  LET sz == Round(Round(req))
      m2 == InsertArena(mem, kern_heap, arenas * ARENA)
  IN /\ NeedsArena(req)
     /\ ~PageInUse(arenas)
     /\ arenas < MaxArenas
     /\ arenas' = arenas + 1
     /\ frames' = FramesLeft(frames)
     /\ Return(m2, FirstFit(m2, sz), sz, req)
     /\ UNCHANGED panicked

heap_malloc(req) ==
  /\ ~panicked
  /\ \/ heap_malloc_panics(req)
     \/ heap_malloc_fits(req)
     \/ heap_malloc_no_room(req)
     \/ heap_malloc_grows(req)

-----------------------------------------------------------------------------
(* heap_free.                                                              *)

JoinsPrev(m, x) ==
  LET p == m[x].prev IN p # x /\ m[p].used = 0 /\ p + m[p].size = x

JoinsNext(m, x) == m[x].next # x /\ m[m[x].next].used = 0

\* Node x takes over its successor: the code does it twice, with the same body.
Absorb(m, x) ==
  LET n == m[x].next
      alone == m[x].prev = n
  IN [m EXCEPT ![x].size = @ + m[n].size + HDR,
               ![x].next = IF alone THEN x ELSE m[n].next,
               ![x].prev = IF alone THEN x ELSE @]

\* The memory after heap_free of node x; the field used is never written.
Freed(m, x) ==
  LET y == IF JoinsPrev(m, x) THEN m[x].prev ELSE x
      m1 == IF JoinsPrev(m, x) THEN Absorb(m, y) ELSE m
  IN IF JoinsNext(m1, y) THEN Absorb(m1, y) ELSE m1

heap_free(x) ==
  /\ ~panicked
  /\ x \in live
  /\ IF mem[x].used # 1 \/ ~mem[x].magic
     THEN panicked' = TRUE /\ UNCHANGED <<mem, live, freed, ret>>
     ELSE /\ mem' = Freed(mem, x)
          /\ live' = live \ {x}
          /\ freed' = x
          /\ ret' = None
          /\ UNCHANGED panicked
  /\ UNCHANGED <<arenas, frames, span, asked>>

Next ==
  \/ \E req \in Requests : heap_malloc(req)
  \/ \E x \in live : heap_free(x)

Spec == Init /\ [][Next]_vars

-----------------------------------------------------------------------------
(* What the heap promises.                                                 *)

Header == [next : Nat, prev : Nat, size : Nat, used : {0, 1}, magic : BOOLEAN]

\* The first address after node x, by the bytes that belong to it.
Limit(x) == x + HDR + span[x]

\* The nodes on the list, in the order of the pointers next.
Listed == {Walk(mem)[k] : k \in {j \in 0 .. Cardinality(Nodes) : Visits(mem, j)}}

TypeOK ==
  /\ Nodes \subseteq Nat
  /\ mem \in [Nodes -> Header]
  /\ arenas \in 1 .. MaxArenas
  /\ frames \in Nat
  /\ live \subseteq Nodes
  /\ span \in [Nodes -> Nat]
  /\ asked \in [Nodes -> Nat]
  /\ freed \in Nodes \cup {None}
  /\ ret \in Nodes \cup {None}
  /\ panicked \in BOOLEAN

\* Memory that heap_malloc handed out overlaps neither other memory it handed
\* out nor any header, and it lies in pages heap_get_new_block has mapped;
\* merging blocks that are not adjacent, as heap_free does, does not change it.
NoOverlap ==
  /\ \A x \in Nodes : Limit(x) <= arenas * ARENA
  /\ \A x, y \in Nodes : x < y => Limit(x) <= y

\* The memory handed out for a request is at least as large as the request, and
\* the field size of its header says no less.
GrantCovers ==
  \A x \in live : asked[x] <= span[x] /\ span[x] <= mem[x].size

\* Following next from kern_heap leads back to kern_heap, so the search loop of
\* heap_malloc ends, and on the way visits every block that is in use.
ListIsCircular ==
  /\ \E k \in 1 .. Cardinality(Nodes) : Walk(mem)[k] = kern_heap
  /\ live \subseteq Listed

\* The field prev of a header names itself or a block marked as used: heap_free
\* never merges a block with the previous one.
PrevIsUsed ==
  \A x \in Nodes : mem[x].prev \in Nodes
                     /\ (mem[x].prev = x \/ mem[mem[x].prev].used = 1)

\* The heap has no end of its own: it grows from HEAP_START until vmm_map_page
\* refuses a page, such as the user stack's at 1 GB.  No block or header ever
\* lies in a page that is mapped for something else, even if that page is in the
\* middle of an arena.
OthersAreUntouched ==
  \A x \in Nodes : \A p \in InUse : Limit(x) <= p * PAGE \/ (p + 1) * PAGE <= x

-----------------------------------------------------------------------------
(* What a comment and a test say, and the code does not do.                *)

\* heap_get_new_block: "PANIC is raised if there are no more free pages."
PanicsWhenExhausted == [][ arenas' # arenas => frames > HEAP_BLOCKS ]_vars

\* heap.h: "Dealloc and same realloc gives back correct address".
ReallocReturnsFreed ==
  [][ freed # None /\ ret' # None /\ asked'[ret'] = asked[freed] => ret' = freed ]_vars
=============================================================================
