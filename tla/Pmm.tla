-------------------------------- MODULE Pmm --------------------------------
(***************************************************************************)
(* The physical memory manager, src/sys/pmm.c, as the boot processor uses  *)
(* it before the other processors run: init_pmm reads the multiboot memory *)
(* map once, afterwards blocks are marked, handed out and freed.           *)
(*                                                                         *)
(* A memory map entry has its true base and length; the C code only reads  *)
(* their low words, which is why the operators below take them modulo      *)
(* WORD (2^32 in the code).  The bitmap is the set of the bits that are 1. *)
(***************************************************************************)
EXTENDS Integers, Sequences

CONSTANTS
  PMM_BLK_SZ,   \* bytes per block, 4096 in the code
  BYTE,         \* bits per byte of the bitmap, 8 in the code
  WORD,         \* number of values of a uint32_t
  MMaps,        \* the memory maps the boot loader may pass
  MarkRanges,   \* the <<start, end>> arguments of pmm_mark_mem_taken
  RunLengths    \* the arguments of pmm_alloc_first_n_blocks

Entry == [base : Nat, len : Nat, type : Nat]

ASSUME PmmConstants ==
  /\ PMM_BLK_SZ \in Nat \ {0}
  /\ BYTE \in Nat \ {0}
  /\ WORD \in Nat \ {0}
  /\ MMaps \subseteq Seq(Entry)
  /\ MarkRanges \subseteq Nat \X Nat
  /\ RunLengths \subseteq Nat

VARIABLES
  mmap,           \* the map init_pmm is called with
  up,             \* init_pmm has returned
  pmm_bitmap,     \* address of the bitmap
  pmm_bitmap_sz,  \* number of blocks the bitmap covers
  bitmap,         \* the bits that are set
  ret,            \* address the last allocation returned, 0 for NULL
  granted,        \* blocks handed out and not freed since
  marked          \* blocks pmm_mark_mem_taken took out of use

vars == <<mmap, up, pmm_bitmap, pmm_bitmap_sz, bitmap, ret, granted, marked>>

-----------------------------------------------------------------------------
(* The uint32_t fields of an entry and the arithmetic on them.             *)

BaseL(e) == e.base % WORD
LenL(e) == e.len % WORD
EndL(e) == (BaseL(e) + LenL(e)) % WORD

AlignUp(a) ==
  IF a % PMM_BLK_SZ # 0 THEN (a \div PMM_BLK_SZ) * PMM_BLK_SZ + PMM_BLK_SZ ELSE a

CeilDiv(a, b) == IF a % b # 0 THEN a \div b + 1 ELSE a \div b

\* Mutants: lo is aligned upwards; the loop also sets the block at hi.
Touched_aligned_up(lo, hi) ==
  {b \in (lo \div PMM_BLK_SZ) .. (hi \div PMM_BLK_SZ) :
     lo <= b * PMM_BLK_SZ /\ b * PMM_BLK_SZ < hi}

Touched_inclusive(lo, hi) ==
  {b \in (lo \div PMM_BLK_SZ) .. (hi \div PMM_BLK_SZ) : b * PMM_BLK_SZ <= hi}

\* The blocks a loop sets that starts at lo aligned downwards and advances by
\* one block while it is below hi.
Touched(lo, hi) ==
  {b \in (lo \div PMM_BLK_SZ) .. (hi \div PMM_BLK_SZ) : b * PMM_BLK_SZ < hi}

-----------------------------------------------------------------------------
(* init_pmm.                                                               *)

Available(m) == {k \in DOMAIN m : m[k].type = 1}

\* End of the last available entry: the loop overwrites max at each of them.
pmm_get_max_space(m) ==
  IF Available(m) = {} THEN 0
  ELSE EndL(m[CHOOSE k \in Available(m) : \A j \in Available(m) : j <= k])

BitmapSize(m) == pmm_get_max_space(m) \div PMM_BLK_SZ

\* Blocks needed to store the bitmap.
BlocksBitmap(sz) ==
  CeilDiv(sz, BYTE) \div PMM_BLK_SZ
    + (IF sz % (PMM_BLK_SZ * BYTE) # 0 THEN 1 ELSE 0)

\* Whether the search for a place for the bitmap stops at entry e.
Fits(e, n) ==
  /\ e.type = 1
  /\ LenL(e) \div PMM_BLK_SZ >= n
  /\ ((EndL(e) - AlignUp(BaseL(e))) % WORD) \div PMM_BLK_SZ >= n

Fitting(m) == {k \in DOMAIN m : Fits(m[k], BlocksBitmap(BitmapSize(m)))}

BitmapAddress(m) ==
  AlignUp(BaseL(m[CHOOSE k \in Fitting(m) : \A j \in Fitting(m) : k <= j]))

BitmapBlocks(m) ==
  {BitmapAddress(m) \div PMM_BLK_SZ + i : i \in 0 .. BlocksBitmap(BitmapSize(m)) - 1}

\* The entries the second loop looks at: it stops at the first one that
\* begins at or after max-1.
Visited(m) ==
  {k \in DOMAIN m :
     \A j \in 1 .. k : BaseL(m[j]) < (pmm_get_max_space(m) - 1) % WORD}

Expected(m, k) == IF k = 1 THEN 0 ELSE EndL(m[k - 1])

GapBlocks(m, k) ==
  IF BaseL(m[k]) > Expected(m, k)
  THEN Touched(Expected(m, k), BaseL(m[k])) ELSE {}

ReservedBlocks(m, k) ==
  IF m[k].type # 1 /\ EndL(m[k]) < (pmm_get_max_space(m) - 1) % WORD
  THEN Touched(BaseL(m[k]), EndL(m[k])) ELSE {}

TakenAtInit(m) ==
  BitmapBlocks(m) \cup {0}
    \cup UNION {GapBlocks(m, k) \cup ReservedBlocks(m, k) : k \in Visited(m)}

Init ==
  /\ mmap \in MMaps
  /\ up = FALSE
  /\ pmm_bitmap = 0
  /\ pmm_bitmap_sz = 0
  /\ bitmap = {}
  /\ ret = 0
  /\ granted = {}
  /\ marked = {}

init_pmm ==
  /\ ~up
  /\ up' = TRUE
  /\ pmm_bitmap_sz' = BitmapSize(mmap)
  /\ pmm_bitmap' = BitmapAddress(mmap)
  /\ bitmap' = TakenAtInit(mmap)
  /\ UNCHANGED <<mmap, ret, granted, marked>>

-----------------------------------------------------------------------------
(* The operations.                                                         *)

pmm_mark_mem_taken(start, end) ==
  LET blocks == (start \div PMM_BLK_SZ) .. (AlignUp(end) \div PMM_BLK_SZ) - 1
  IN /\ up
     /\ bitmap' = bitmap \cup blocks
     /\ marked' = marked \cup blocks
     /\ UNCHANGED <<mmap, up, pmm_bitmap, pmm_bitmap_sz, ret, granted>>

\* Mutant: the scan does not look at the bitmap.
Free_unchecked == 1 .. pmm_bitmap_sz - 1

\* The blocks an allocation may find: the scan begins at block 1.
Free == {i \in 1 .. pmm_bitmap_sz - 1 : i \notin bitmap}

First(S) == CHOOSE i \in S : \A j \in S : i <= j

pmm_alloc_first ==
  /\ up
  /\ IF Free = {}
     THEN /\ ret' = 0
          /\ UNCHANGED <<bitmap, granted>>
     ELSE /\ ret' = First(Free) * PMM_BLK_SZ
          /\ bitmap' = bitmap \cup {First(Free)}
          /\ granted' = granted \cup {First(Free)}
  /\ UNCHANGED <<mmap, up, pmm_bitmap, pmm_bitmap_sz, marked>>

\* The counter found of pmm_alloc_first_n_blocks after block i was examined.
Found[i \in 0 .. pmm_bitmap_sz] ==
  IF i = 0 \/ i \in bitmap THEN 0 ELSE Found[i - 1] + 1

\* Mutant: the scan omits the last block.
RunEnds_short(n) == {i \in 1 .. pmm_bitmap_sz - 2 : i \notin bitmap /\ Found[i] = n}

\* The last blocks of the runs of n free blocks, as the scan sees them.
RunEnds(n) == {i \in 1 .. pmm_bitmap_sz - 1 : i \notin bitmap /\ Found[i] = n}

pmm_alloc_first_n_blocks(n) ==
  /\ up
  /\ IF RunEnds(n) = {}
     THEN /\ ret' = 0
          /\ UNCHANGED <<bitmap, granted>>
     ELSE LET last == First(RunEnds(n))
              run == (last - (n - 1)) .. last
          IN /\ ret' = (last - (n - 1)) * PMM_BLK_SZ
             /\ bitmap' = bitmap \cup run
             /\ granted' = granted \cup run
  /\ UNCHANGED <<mmap, up, pmm_bitmap, pmm_bitmap_sz, marked>>

\* pmm_free clears the bit of whatever block it is given; the only caller,
\* vmm_unmap_page, gives back a block it got from pmm_alloc_first.
pmm_free(b) ==
  /\ up
  /\ b \in granted
  /\ bitmap' = bitmap \ {b}
  /\ granted' = granted \ {b}
  /\ marked' = marked \ {b}
  /\ UNCHANGED <<mmap, up, pmm_bitmap, pmm_bitmap_sz, ret>>

Next ==
  \/ init_pmm
  \/ \E r \in MarkRanges : pmm_mark_mem_taken(r[1], r[2])
  \/ pmm_alloc_first
  \/ \E n \in RunLengths : pmm_alloc_first_n_blocks(n)
  \/ \E b \in granted : pmm_free(b)

Spec == Init /\ [][Next]_vars

-----------------------------------------------------------------------------
(* What the manager promises.                                              *)

\* The addresses of block b, and the blocks all of whose bytes are available.
Bytes(b) == b * PMM_BLK_SZ .. b * PMM_BLK_SZ + (PMM_BLK_SZ - 1)

WhollyAvailable(m, b) ==
  \A a \in Bytes(b) :
    \E k \in Available(m) : m[k].base <= a /\ a < m[k].base + m[k].len

Usable == {b \in 1 .. pmm_bitmap_sz - 1 : WhollyAvailable(mmap, b)}

\* The maps for which init_pmm is right: entries in the order of their bases and
\* disjoint, available memory below WORD and never a single byte, and somewhere
\* to put the bitmap.  Entries above the last available one are unconstrained.
WellFormed(m) ==
  /\ \A i, j \in DOMAIN m : i < j => m[i].base + m[i].len <= m[j].base
  /\ \A k \in Available(m) : m[k].len >= 2 /\ m[k].base + m[k].len < WORD
  /\ Fitting(m) # {}

\* Maps for which it also wastes nothing: no empty entry, and none whose base is
\* only its low word.
Tidy(m) == \A k \in DOMAIN m : m[k].len > 0 /\ m[k].base < WORD

TypeOK ==
  /\ mmap \in MMaps
  /\ up \in BOOLEAN
  /\ pmm_bitmap \in Nat
  /\ pmm_bitmap_sz \in Nat
  /\ bitmap \subseteq Nat
  /\ ret \in Nat
  /\ granted \subseteq Nat
  /\ marked \subseteq Nat

\* A block is handed out only if it is real memory from its first to its last
\* byte, is not block 0 (whose address is NULL), and does not store the bitmap.
\* What pmm_alloc_first may return next satisfies the same.
GrantedIsMemory ==
  up => \A b \in granted \cup Free : b \in Usable /\ b \notin BitmapBlocks(mmap)

\* A block that is handed out stays marked as taken until it is freed, so no
\* later allocation can return it.
GrantedIsTaken == granted \subseteq bitmap

\* No memory is lost: a block of available memory outside the bitmap is free,
\* or handed out, or was marked as taken.
NothingLost ==
  up => Usable \ BitmapBlocks(mmap) \subseteq Free \cup granted \cup marked

\* The n blocks at the address an allocation returned were neither handed out nor
\* marked as taken, and they are all it takes.
ReturnsFresh(n) ==
  LET i == ret' \div PMM_BLK_SZ
      new == i .. i + n - 1
  IN ret' # 0 => /\ new \cap (granted \cup marked) = {}
                 /\ bitmap' = bitmap \cup new
                 /\ granted' = granted \cup new

\* An allocation never returns a block that is still in use or was marked as taken,
\* and the bitmap changes in the blocks it returns and nowhere else.
AllocationIsFresh ==
  [][ /\ pmm_alloc_first => ReturnsFresh(1)
      /\ \A n \in RunLengths \ {0} : pmm_alloc_first_n_blocks(n) => ReturnsFresh(n) ]_vars

\* There are n free blocks in a row.
HasRun(n) ==
  \E i \in 1 .. pmm_bitmap_sz - 1 : i + n <= pmm_bitmap_sz /\ i .. i + n - 1 \subseteq Free

\* pmm_alloc_first_n_blocks returns the first n free blocks in a row, and NULL only
\* if there are none: resetting its counter at a taken block skips no run.
RunSearchIsComplete ==
  [][ \A n \in RunLengths \ {0} :
        pmm_alloc_first_n_blocks(n) =>
          IF HasRun(n)
          THEN LET i == ret' \div PMM_BLK_SZ
               IN granted' \ granted = i .. i + n - 1
                    /\ \A j \in 1 .. i - 1 : ~(j .. j + n - 1 \subseteq Free)
          ELSE ret' = 0 ]_vars

\* The comment in init_pmm: "First check if there is a gap in the specification,
\* if there is, that memory is taken."
GapsAreTaken ==
  up => \A b \in Free :
          \A a \in Bytes(b) :
            \E k \in DOMAIN mmap : mmap[k].base <= a /\ a < mmap[k].base + mmap[k].len
=============================================================================
