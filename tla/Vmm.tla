-------------------------------- MODULE Vmm --------------------------------
(***************************************************************************)
(* Paging, src/sys/vmm.c, on one CPU with its translation lookaside buffer *)
(* (TLB), and the frames it takes from the physical memory manager.        *)
(*                                                                         *)
(* A virtual page is a pair: the index of its directory entry and its      *)
(* index in that table.  The last directory entry is the directory itself, *)
(* so the page <<Self, d>> is a window on table d and <<Self, Self>> on    *)
(* the directory (dir_virtual).  Every frame holds ENTRIES words, which    *)
(* are the frame they would denote in a table, or None if the present bit  *)
(* is clear.  Only what paging does with the frames is modelled: the words *)
(* of a frame that is no table stay Garbage.  Access bits are left out.    *)
(***************************************************************************)
EXTENDS Integers, FiniteSets

CONSTANTS
  ENTRIES,   \* words of a frame, 1024 in the code
  FRAMES,    \* number of physical frames
  VPages,    \* pages that are mapped and unmapped
  Uses       \* what kernels do: the pages used, the frames, and if pages are unmapped

Frames == 0 .. FRAMES - 1
Index == 0 .. ENTRIES - 1
Self == ENTRIES - 1
None == -1

ASSUME VmmConstants ==
  /\ ENTRIES \in Nat /\ ENTRIES >= 3
  /\ FRAMES \in Nat /\ FRAMES > ENTRIES
  /\ VPages \subseteq (1 .. ENTRIES - 2) \X Index
  /\ \A u \in Uses : u.pages \subseteq VPages /\ u.frames \in ENTRIES .. FRAMES /\ u.unmaps \in BOOLEAN

VARIABLES
  phys,     \* the words of every frame
  tlb,      \* translations the CPU has cached
  free,     \* frames the physical memory manager can hand out
  starved,  \* pmm_alloc_first has returned NULL
  use       \* what this kernel does

vars == <<phys, tlb, free, starved, use>>

Garbage == [i \in Index |-> 0]
Zeroed == [i \in Index |-> None]

-----------------------------------------------------------------------------
(* The CPU.                                                                *)

\* The frame of page v by the tables in memory m.
Walk(m, dir, v) == IF m[dir][v[1]] = None THEN None ELSE m[m[dir][v[1]]][v[2]]

Window(d) == <<Self, d>>

\* vmm_get_physical_page is called twice before the first ENTRIES frames are
\* marked as taken.  Frame 0 holds the bitmap of the physical memory manager.
kernel_dir == 1
first_table == 2

\* The frame the CPU uses for page v.
Translate(m, v) == IF v \in DOMAIN tlb THEN tlb[v] ELSE Walk(m, kernel_dir, v)

\* The buffer after the pages vs were accessed, with memory m.
Filled(m, vs) == [v \in DOMAIN tlb \cup vs |-> Translate(m, v)]

\* The CPU accesses a mapped page, or replaces an entry of its buffer.
Access(v) ==
  /\ Translate(phys, v) # None
  /\ tlb' = Filled(phys, {v})
  /\ UNCHANGED <<phys, free, starved, use>>

Evict(v) ==
  /\ v \in DOMAIN tlb
  /\ tlb' = [w \in DOMAIN tlb \ {v} |-> tlb[w]]
  /\ UNCHANGED <<phys, free, starved, use>>

-----------------------------------------------------------------------------
(* vmm_init: the first directory entry maps the first ENTRIES frames to    *)
(* themselves.                                                             *)

Init ==
  /\ phys = [f \in Frames |->
               CASE f = kernel_dir -> [i \in Index |-> CASE i = 0 -> first_table
                                                         [] i = Self -> kernel_dir
                                                         [] OTHER -> None]
                 [] f = first_table -> [i \in Index |-> i]
                 [] OTHER -> Garbage]
  /\ tlb = [v \in {} |-> v]
  /\ use \in Uses
  /\ free = ENTRIES .. use.frames - 1
  /\ starved = FALSE

-----------------------------------------------------------------------------
(* vmm_map_page.                                                           *)

\* The result of pmm_alloc_first; NULL, which is frame 0, when none is free.
First(s) == IF s = {} THEN 0 ELSE CHOOSE f \in s : \A g \in s : f <= g

\* The word that maps page v, written through the window on its table.
SetEntry(m, v, f) == [m EXCEPT ![Translate(m, Window(v[1]))][v[2]] = f]

dir_virtual(d) == phys[Translate(phys, Window(Self))][d]

\* Mutant: the new table is not zeroed.
AddTable_dirty(d, t) == [phys EXCEPT ![Translate(phys, Window(Self))][d] = t]

\* Entry d of the directory denotes table t, and the window on it is zeroed.
AddTable(d, t) ==
  LET m == [phys EXCEPT ![Translate(phys, Window(Self))][d] = t]
  IN [m EXCEPT ![Translate(m, Window(d))] = Zeroed]

vmm_map_page_in_use(f, v) ==
  /\ dir_virtual(v[1]) # None
  /\ phys[Translate(phys, Window(v[1]))][v[2]] # None
  /\ tlb' = Filled(phys, {Window(Self), Window(v[1])})
  /\ UNCHANGED phys

\* Mutant: the present bit of the entry is not tested.
vmm_map_page_present_untested(f, v) ==
  /\ dir_virtual(v[1]) # None
  /\ phys' = SetEntry(phys, v, f)
  /\ tlb' = Filled(phys, {Window(Self), Window(v[1])})

vmm_map_page_present(f, v) ==
  /\ dir_virtual(v[1]) # None
  /\ phys[Translate(phys, Window(v[1]))][v[2]] = None
  /\ phys' = SetEntry(phys, v, f)
  /\ tlb' = Filled(phys, {Window(Self), Window(v[1])})

vmm_map_page_absent(f, v, table) ==
  /\ dir_virtual(v[1]) = None
  /\ LET m == AddTable(v[1], table)
     IN /\ phys' = SetEntry(m, v, f)
        /\ tlb' = Filled(m, {Window(Self), Window(v[1])})

\* Mutant: the frame of the new table is not marked as taken.
vmm_map_page_untaken(v) ==
  LET f == First(free)
      rest == free \ {f}
  IN /\ \/ vmm_map_page_in_use(f, v) \/ vmm_map_page_present(f, v)
        \/ vmm_map_page_absent(f, v, First(rest))
     /\ free' = rest
     /\ starved' = (starved \/ rest = {})
     /\ UNCHANGED use

\* A caller takes a frame and maps it at v, as the heap, alloc_proc and
\* cpu_common_main do.  If v is in use the frame stays taken.
vmm_map_page(v) ==
  LET f == First(free)
      rest == free \ {f}
      table == First(rest)
  IN /\ \/ /\ vmm_map_page_in_use(f, v) \/ vmm_map_page_present(f, v)
           /\ free' = rest
           /\ starved' = (starved \/ free = {})
        \/ /\ vmm_map_page_absent(f, v, table)
           /\ free' = rest \ {table}
           /\ starved' = (starved \/ rest = {})
     /\ UNCHANGED use

-----------------------------------------------------------------------------
(* vmm_unmap_page.                                                         *)

\* flush_tlb_entry reads its argument from the wrong place of the stack and the
\* call of interrupt_enabled overwrites it: invlpg gets an address below 4096.
flush_tlb_entry(t, v) == [w \in DOMAIN t \ {<<0, 0>>} |-> t[w]]

Empty(table) == \A i \in Index : table[i] = None

vmm_unmap_page(v) ==
  LET d == v[1]
      m == SetEntry(phys, v, None)
      table == dir_virtual(d)
  IN /\ use.unmaps
     /\ IF table = None
        THEN tlb' = Filled(phys, {Window(Self)}) /\ UNCHANGED <<phys, free>>
        ELSE /\ tlb' = flush_tlb_entry(Filled(phys, {Window(Self), Window(d)}), v)
             /\ IF Empty(m[Translate(m, Window(d))])
                THEN /\ free' = free \cup {table}
                     /\ phys' = [m EXCEPT ![Translate(m, Window(Self))][d] = None]
                ELSE phys' = m /\ UNCHANGED free
     /\ UNCHANGED <<starved, use>>

Next ==
  \/ \E v \in use.pages : vmm_map_page(v) \/ vmm_unmap_page(v) \/ Access(v)
  \/ \E v \in DOMAIN tlb : Evict(v)

Spec == Init /\ [][Next]_vars

-----------------------------------------------------------------------------
(* What paging promises.                                                   *)

TypeOK ==
  /\ phys \in [Frames -> [Index -> Frames \cup {None}]]
  /\ tlb \in [DOMAIN tlb -> Frames]
  /\ DOMAIN tlb \subseteq VPages \cup {Window(d) : d \in Index}
  /\ free \subseteq Frames
  /\ starved \in BOOLEAN
  /\ use \in Uses

\* The frames of the tables the directory denotes.
Tables == {phys[kernel_dir][d] : d \in 0 .. ENTRIES - 2} \ {None}

\* The frames the kernel accesses through the pages it mapped.
Mapped == {Translate(phys, v) : v \in VPages} \ {None}

\* The table of a directory entry that is present was taken for it alone.
TablesAreOwned ==
  ~starved =>
    /\ Tables \cap free = {}
    /\ \A d, e \in 0 .. ENTRIES - 2 :
         d # e /\ phys[kernel_dir][d] # None => phys[kernel_dir][d] # phys[kernel_dir][e]

\* A kernel that only maps pages, as this one does, has not run out of memory.
MapsOnly == ~use.unmaps /\ ~starved

\* A page has a frame that no other page and no table uses, and that is not
\* written through a window.
PagesAreOwned ==
  MapsOnly =>
    /\ Mapped \cap (free \cup Tables \cup {kernel_dir}) = {}
    /\ \A f \in Mapped : phys[f] = Garbage
    /\ \A v, w \in VPages :
         v # w /\ Translate(phys, v) # None => Translate(phys, v) # Translate(phys, w)

\* Unless memory ran out, every table is a frame that the physical memory manager
\* gave out for one directory entry, also with vmm_unmap_page; while pages are
\* only mapped, every page has a frame of its own, and what vmm_map_page writes
\* through its windows never reaches it.
FramesAreOwned == TypeOK /\ TablesAreOwned /\ PagesAreOwned

\* hal.h on flush_tlb_entry: "required when changing a PDE or a PTE that was
\* previously mapped to something else".  What the CPU has cached is what the
\* tables say, as long as pages are only mapped.  Without memory frame 0 becomes
\* the table of every new directory entry, and is zeroed each time.
TlbIsCurrent == MapsOnly => \A v \in DOMAIN tlb : tlb[v] = Walk(phys, kernel_dir, v)

\* The pages and their frames, as the CPU translates them.
space == [v \in {w \in VPages : Translate(phys, w) # None} |-> Translate(phys, v)]

Abstract == INSTANCE AddressSpace WITH VPages <- VPages, Frames <- Frames, space <- space

\* Unless memory runs out, and while pages are only mapped, the tables, the
\* windows and the buffer together behave like one map from pages to frames, to which vmm_map_page adds one page.
ImplementsAddressSpace == Abstract!Init /\ [][MapsOnly' => Abstract!Next]_space
=============================================================================
