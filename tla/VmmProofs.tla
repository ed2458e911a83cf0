----------------------------- MODULE VmmProofs ------------------------------
(***************************************************************************)
(* Paging is safe for every size of tables and memory, and for all pages   *)
(* and kernels: proofs of FramesAreOwned, TlbIsCurrent and of the          *)
(* refinement of AddressSpace.                                             *)
(***************************************************************************)
EXTENDS Vmm, NatFacts, TLAPS

USE DEF None, kernel_dir, first_table

\* The directory entries other than the one for the directory itself.
Dir == 0 .. ENTRIES - 2

\* The directory denotes itself in its last entry and nowhere else, and so do
\* the windows the CPU has cached, however old they are: whatever is written
\* through the window on a table, the directory is not.
DirectoryIsSafe ==
  /\ kernel_dir \notin free
  /\ phys[kernel_dir][Self] = kernel_dir
  /\ \A d \in Dir : phys[kernel_dir][d] # kernel_dir
  /\ \A d \in Index : Window(d) \in DOMAIN tlb => (tlb[Window(d)] = kernel_dir <=> d = Self)

\* Frames that can still be handed out were never written by paging.
FreeIsClean == MapsOnly => \A f \in free : phys[f] = Garbage

\* PagesAreOwned in terms of the tables, which is the same as long as the
\* buffer is current.
Present(v) == Walk(phys, kernel_dir, v) # None

WalksAreOwned ==
  MapsOnly =>
    /\ \A v \in VPages : Present(v) =>
         /\ Walk(phys, kernel_dir, v) \notin free
         /\ Walk(phys, kernel_dir, v) # kernel_dir
         /\ \A d \in Dir : phys[kernel_dir][d] # Walk(phys, kernel_dir, v)
         /\ phys[Walk(phys, kernel_dir, v)] = Garbage
    /\ \A v, w \in VPages :
         v # w /\ Present(v) => Walk(phys, kernel_dir, v) # Walk(phys, kernel_dir, w)

VmmInv ==
  /\ TypeOK
  /\ DirectoryIsSafe
  /\ TablesAreOwned
  /\ TlbIsCurrent
  /\ FreeIsClean
  /\ WalksAreOwned

-----------------------------------------------------------------------------
\* The tables vmm_init builds satisfy the invariant.
LEMMA VmmInvInit == Init => VmmInv
<1> SUFFICES ASSUME Init PROVE VmmInv
  OBVIOUS
<1> USE VmmConstants
<1>1. /\ kernel_dir \in Frames /\ first_table \in Frames
      /\ Self \in Index /\ 0 \in Index /\ Index \subseteq Frames
  BY DEF Frames, Index, Self
<1>2. /\ DOMAIN tlb = {}
      /\ use \in Uses /\ free = ENTRIES .. use.frames - 1 /\ starved = FALSE
  BY DEF Init
<1>3. /\ phys \in [Frames -> [Index -> Frames \cup {None}]]
      /\ phys[kernel_dir] = [i \in Index |-> CASE i = 0 -> first_table
                                               [] i = Self -> kernel_dir
                                               [] OTHER -> None]
      /\ \A f \in Frames : f \notin {kernel_dir, first_table} => phys[f] = Garbage
  BY <1>1 DEF Init, Garbage
<1>4. free \subseteq Frames /\ \A f \in free : f \notin {kernel_dir, first_table}
  BY <1>2 DEF Frames
<1>5. /\ phys[kernel_dir][Self] = kernel_dir
      /\ phys[kernel_dir][0] = first_table
      /\ \A d \in Dir : d # 0 => phys[kernel_dir][d] = None
  BY <1>1, <1>3 DEF Dir, Index, Self
<1>6. TypeOK
  <2>1. tlb \in [{} -> Frames]
    BY DEF Init
  <2>2. QED
    BY <1>2, <1>3, <1>4, <2>1, Zenon DEF TypeOK
<1>7. DirectoryIsSafe
  BY <1>2, <1>4, <1>5 DEF DirectoryIsSafe, Dir
<1>8. TablesAreOwned
  BY <1>4, <1>5 DEF TablesAreOwned, Tables, Dir
<1>9. TlbIsCurrent /\ FreeIsClean
  BY <1>2, <1>3, <1>4 DEF TlbIsCurrent, FreeIsClean
<1>10. \A v \in VPages : Walk(phys, kernel_dir, v) = None
  BY <1>5 DEF Walk, Dir, Index
<1>11. WalksAreOwned
  BY <1>10 DEF WalksAreOwned, Present
<1>12. QED
  BY <1>6, <1>7, <1>8, <1>9, <1>11 DEF VmmInv

-----------------------------------------------------------------------------
(* What the CPU finds through the windows.                                 *)

\* The window on the directory is the directory, and the window on a table that
\* is present, through which vmm_map_page and vmm_unmap_page write, is not.
LEMMA Windows ==
  ASSUME VmmInv
  PROVE  /\ Translate(phys, Window(Self)) = kernel_dir
         /\ \A d \in Index : /\ dir_virtual(d) = phys[kernel_dir][d]
                            /\ Walk(phys, kernel_dir, Window(d)) = phys[kernel_dir][d]
         /\ \A d \in Dir : phys[kernel_dir][d] # None =>
              Translate(phys, Window(d)) \in Frames \ {kernel_dir}
<1> USE VmmConstants
<1> USE DEF VmmInv, TypeOK, DirectoryIsSafe
<1>1. kernel_dir \in Frames /\ Self \in Index /\ Dir = Index \ {Self} /\ None \notin Frames
  BY DEF Frames, Index, Self, Dir
<1>2. \A d : Window(d)[1] = Self /\ Window(d)[2] = d
  BY DEF Window
<1>3. \A d \in Index : Walk(phys, kernel_dir, Window(d)) = phys[kernel_dir][d]
  BY <1>1, <1>2 DEF Walk
<1>4. Translate(phys, Window(Self)) = kernel_dir
  BY <1>1, <1>3 DEF Translate
<1>5. \A d \in Dir : phys[kernel_dir][d] # None =>
        Translate(phys, Window(d)) \in Frames \ {kernel_dir}
  BY <1>1, <1>3 DEF Translate
<1>6. QED
  BY <1>3, <1>4, <1>5 DEF dir_virtual

\* While pages are only mapped the CPU uses the tables' frames.
LEMMA CurrentTranslation ==
  ASSUME TlbIsCurrent, MapsOnly, NEW v
  PROVE  Translate(phys, v) = Walk(phys, kernel_dir, v)
BY DEF TlbIsCurrent, Translate

\* What pmm_alloc_first returns is free, or is frame 0 because nothing is.
LEMMA FirstIsFree ==
  ASSUME NEW s \in SUBSET Frames
  PROVE  /\ s # {} => First(s) \in s
         /\ First(s) \in Frames
         /\ kernel_dir \notin s => First(s) # kernel_dir
<1> USE VmmConstants
<1>1. CASE s = {}
  BY <1>1 DEF First, Frames
<1>2. CASE s # {}
  <2>1. PICK f \in s : \A g \in s : f <= g
    BY <1>2, LeastElement DEF Frames
  <2>2. First(s) \in s
    BY <1>2, <2>1 DEF First
  <2>3. QED
    BY <2>2
<1>3. QED
  BY <1>1, <1>2

\* A page has a place of its own, apart from all windows.
LEMMA PagesAreNoWindows ==
  ASSUME NEW v \in VPages
  PROVE  /\ v[1] \in Dir /\ v[1] \in Index /\ v[2] \in Index /\ v = <<v[1], v[2]>>
         /\ \A d : v # Window(d)
BY VmmConstants DEF Dir, Index, Window, Self

-----------------------------------------------------------------------------
(* The steps that write no frame.                                          *)

\* The buffer changes only in that pages that are accessed come in as the tables
\* have them, or that entries leave.
LEMMA BufferStep ==
  ASSUME VmmInv, UNCHANGED <<phys, use>>, free' \subseteq free,
         MapsOnly' => MapsOnly, starved' \in BOOLEAN, starved => starved',
         tlb' \in [DOMAIN tlb' -> Frames],
         DOMAIN tlb' \subseteq VPages \cup {Window(d) : d \in Index},
         \A v \in DOMAIN tlb' : tlb'[v] = Translate(phys, v)
  PROVE  VmmInv'
<1> USE VmmConstants
<1> USE DEF VmmInv
<1>1. TypeOK'
  BY DEF TypeOK
<1>2. DirectoryIsSafe'
  <2> SUFFICES ASSUME NEW d \in Index, Window(d) \in DOMAIN tlb'
               PROVE  tlb'[Window(d)] = kernel_dir <=> d = Self
    BY DEF DirectoryIsSafe
  <2>1. Dir = Index \ {Self}
    BY DEF Index, Self, Dir
  <2>2. tlb'[Window(d)] = Translate(phys, Window(d)) /\ tlb'[Window(d)] \in Frames
    OBVIOUS
  <2>3. CASE Window(d) \in DOMAIN tlb
    BY <2>2, <2>3 DEF DirectoryIsSafe, Translate
  <2>4. CASE Window(d) \notin DOMAIN tlb
    BY <2>1, <2>2, <2>4, Windows DEF DirectoryIsSafe, Translate
  <2>5. QED
    BY <2>3, <2>4
<1>3. TablesAreOwned'
  BY DEF TablesAreOwned, Tables, TypeOK
<1>4. TlbIsCurrent'
  BY CurrentTranslation DEF TlbIsCurrent
<1>5. FreeIsClean'
  BY DEF FreeIsClean
<1>6. WalksAreOwned'
  <2>1. \A v : Walk(phys, kernel_dir, v)' = Walk(phys, kernel_dir, v)
    BY DEF Walk
  <2>2. QED
    BY <2>1 DEF WalksAreOwned, Present
<1>7. QED
  BY <1>1, <1>2, <1>3, <1>4, <1>5, <1>6

\* Pages the CPU can access come into the buffer with their frames.
LEMMA FilledType ==
  ASSUME TypeOK, NEW m, NEW vs, \A v \in vs : Translate(m, v) \in Frames
  PROVE  /\ Filled(m, vs) \in [DOMAIN tlb \cup vs -> Frames]
         /\ \A v \in DOMAIN tlb \cup vs : Filled(m, vs)[v] = Translate(m, v)
BY DEF Filled, Translate, TypeOK

\* An access to a page that is mapped keeps the invariant.
LEMMA AccessInv ==
  ASSUME VmmInv, NEW v \in VPages, Access(v)
  PROVE  VmmInv'
<1>1. Translate(phys, v) \in Frames
  <2>1. v[1] \in Index /\ v[2] \in Index
    BY PagesAreNoWindows
  <2>2. kernel_dir \in Frames
    BY VmmConstants DEF Frames
  <2>3. Walk(phys, kernel_dir, v) \in Frames \cup {None}
    BY <2>1, <2>2 DEF Walk, VmmInv, TypeOK
  <2>4. QED
    BY <2>3 DEF Access, Translate, VmmInv, TypeOK
<1>2. /\ tlb' \in [DOMAIN tlb \cup {v} -> Frames]
      /\ \A w \in DOMAIN tlb' : tlb'[w] = Translate(phys, w)
  BY <1>1, FilledType, Zenon DEF Access, VmmInv
<1>3. DOMAIN tlb' = DOMAIN tlb \cup {v}
  BY <1>2
<1>4. QED
  BY <1>2, <1>3, BufferStep, Zenon DEF Access, MapsOnly, VmmInv, TypeOK

\* The CPU may drop an entry of its buffer at any time.
LEMMA EvictInv ==
  ASSUME VmmInv, NEW v \in DOMAIN tlb, Evict(v)
  PROVE  VmmInv'
<1>1. /\ DOMAIN tlb' = DOMAIN tlb \ {v}
      /\ \A w \in DOMAIN tlb' : tlb'[w] = tlb[w]
      /\ tlb' \in [DOMAIN tlb' -> Frames]
  BY DEF Evict, VmmInv, TypeOK
<1>2. QED
  BY <1>1, BufferStep DEF Evict, MapsOnly, VmmInv, TypeOK, Translate

\* vmm_map_page keeps the invariant when it fails because the page is in use; the
\* frame its caller took is lost.
LEMMA InUseInv ==
  ASSUME VmmInv, NEW v \in VPages, NEW f, vmm_map_page_in_use(f, v),
         free' \subseteq free, starved' \in BOOLEAN, starved => starved', UNCHANGED use
  PROVE  VmmInv'
<1> DEFINE vs == {Window(Self), Window(v[1])}
<1>1. v[1] \in Dir /\ v[1] \in Index /\ Self \in Index /\ kernel_dir \in Frames
  BY PagesAreNoWindows, VmmConstants DEF Self, Index, Frames
<1>2. \A w \in vs : Translate(phys, w) \in Frames
  BY <1>1, Windows DEF vmm_map_page_in_use
<1>3. /\ tlb' \in [DOMAIN tlb \cup vs -> Frames]
      /\ \A w \in DOMAIN tlb' : tlb'[w] = Translate(phys, w)
  BY <1>2, FilledType, Zenon DEF vmm_map_page_in_use, VmmInv
<1>4. DOMAIN tlb' = DOMAIN tlb \cup vs
  BY <1>3
<1>5. QED
  BY <1>1, <1>3, <1>4, BufferStep, Zenon DEF vmm_map_page_in_use, MapsOnly, VmmInv, TypeOK

-----------------------------------------------------------------------------
(* The steps that map a page.                                              *)

\* The buffer after a page of directory entry d was mapped: the window on the
\* directory is the directory and the window on table d is not.
LEMMA WindowsFilled ==
  ASSUME TypeOK, DirectoryIsSafe, NEW d \in Dir, NEW m,
         Translate(m, Window(Self)) = kernel_dir,
         Translate(m, Window(d)) \in Frames \ {kernel_dir},
         tlb' = Filled(m, {Window(Self), Window(d)})
  PROVE  /\ tlb' \in [DOMAIN tlb' -> Frames]
         /\ DOMAIN tlb' = DOMAIN tlb \cup {Window(Self), Window(d)}
         /\ DOMAIN tlb' \subseteq VPages \cup {Window(e) : e \in Index}
         /\ \A v \in DOMAIN tlb' : tlb'[v] = Translate(m, v)
         /\ \A e \in Index : Window(e) \in DOMAIN tlb' =>
              (tlb'[Window(e)] = kernel_dir <=> e = Self)
<1> DEFINE vs == {Window(Self), Window(d)}
<1>1. /\ Self \in Index /\ d \in Index /\ d # Self /\ kernel_dir \in Frames
  BY VmmConstants DEF Self, Index, Frames, Dir
<1>2. /\ tlb' \in [DOMAIN tlb \cup vs -> Frames]
      /\ \A v \in DOMAIN tlb \cup vs : tlb'[v] = Translate(m, v)
  <2>1. \A v \in vs : Translate(m, v) \in Frames
    BY <1>1
  <2>2. QED
    BY <2>1, FilledType, Zenon
<1>3. DOMAIN tlb' = DOMAIN tlb \cup vs
  BY <1>2
<1>4. DOMAIN tlb' \subseteq VPages \cup {Window(e) : e \in Index}
  BY <1>1, <1>3 DEF TypeOK
<1>5. ASSUME NEW e \in Index, Window(e) \in DOMAIN tlb'
      PROVE  tlb'[Window(e)] = kernel_dir <=> e = Self
  <2>1. \A a, b : Window(a) = Window(b) <=> a = b
    BY DEF Window
  <2>2. CASE Window(e) \in DOMAIN tlb
    BY <1>2, <2>2 DEF DirectoryIsSafe, Translate
  <2>3. CASE Window(e) \in vs
    BY <1>1, <1>2, <2>1, <2>3
  <2>4. QED
    BY <1>3, <1>5, <2>2, <2>3
<1>6. QED
  BY <1>2, <1>3, <1>4, <1>5

\* Mapping the free frame f at page v, with the free frame of a new table if T is
\* not empty, leaves every page its own frame.
LEMMA PageAdded ==
  ASSUME VmmInv, MapsOnly,
         NEW v \in VPages, NEW f \in free, NEW T \in SUBSET (free \ {f}),
         free' = free \ ({f} \cup T),
         Walk(phys, kernel_dir, v) = None,
         Walk(phys', kernel_dir, v) = f,
         \A u \in VPages \ {v} : Walk(phys', kernel_dir, u) = Walk(phys, kernel_dir, u),
         \A e \in Dir : phys'[kernel_dir][e] = phys[kernel_dir][e] \/ phys'[kernel_dir][e] \in T,
         \A g \in Frames \ {kernel_dir} :
           (\A e \in Dir : phys'[kernel_dir][e] # g) => phys'[g] = phys[g]
  PROVE  FreeIsClean' /\ WalksAreOwned'
<1> USE DEF VmmInv
<1>1. /\ free \subseteq Frames /\ kernel_dir \notin free /\ None \notin Frames
      /\ \A e \in Dir : phys[kernel_dir][e] \notin free
      /\ \A g \in free : phys[g] = Garbage
  <2>1. free \subseteq Frames /\ None \notin Frames
    BY VmmConstants DEF TypeOK, Frames
  <2>2. \A e \in Dir : phys[kernel_dir][e] \notin free
    BY <2>1 DEF TablesAreOwned, Tables, Dir, MapsOnly
  <2>3. QED
    BY <2>1, <2>2 DEF DirectoryIsSafe, FreeIsClean
<1>2. \A e \in Dir : phys'[kernel_dir][e] \notin free' /\ phys'[kernel_dir][e] # f
  BY <1>1
<1>3. FreeIsClean'
  BY <1>1, <1>2 DEF FreeIsClean
<1>4. ASSUME NEW u \in VPages, Present(u)'
      PROVE  /\ Walk(phys, kernel_dir, u)' \notin free'
             /\ Walk(phys, kernel_dir, u)' # kernel_dir
             /\ \A d \in Dir : phys'[kernel_dir][d] # Walk(phys, kernel_dir, u)'
             /\ phys'[Walk(phys, kernel_dir, u)'] = Garbage
  <2>1. CASE u = v
    BY <1>1, <1>2, <2>1
  <2>2. CASE u # v
    <3> DEFINE g == Walk(phys, kernel_dir, u)
    <3>1. g' = g /\ g # None
      BY <1>4, <2>2 DEF Present
    <3>2. g \in Frames \cup {None}
      <4>1. u[1] \in Index /\ u[2] \in Index /\ kernel_dir \in Frames
        BY PagesAreNoWindows, VmmConstants DEF Frames
      <4>2. QED
        BY <4>1 DEF Walk, TypeOK
    <3>3. /\ g \notin free /\ g # kernel_dir /\ phys[g] = Garbage
          /\ \A d \in Dir : phys[kernel_dir][d] # g
      BY <3>1 DEF WalksAreOwned, Present
    <3> HIDE DEF g
    <3>4. \A d \in Dir : phys'[kernel_dir][d] # g
      BY <3>3
    <3>5. phys'[g] = Garbage
      BY <3>1, <3>2, <3>3, <3>4
    <3>6. g' \notin free' /\ g' # kernel_dir /\ (\A d \in Dir : phys'[kernel_dir][d] # g') /\ phys'[g'] = Garbage
      BY <3>1, <3>3, <3>4, <3>5
    <3>7. QED
      BY <3>6 DEF g
  <2>3. QED
    BY <2>1, <2>2
<1>5. ASSUME NEW u \in VPages, NEW w \in VPages, u # w, Present(u)'
      PROVE  Walk(phys, kernel_dir, u)' # Walk(phys, kernel_dir, w)'
  <2>1. \A x \in VPages : Walk(phys, kernel_dir, x) # f
    BY <1>1 DEF WalksAreOwned, Present
  <2>2. QED
    BY <1>5, <2>1 DEF WalksAreOwned, Present
<1>6. QED
  BY <1>3, <1>4, <1>5 DEF WalksAreOwned

\* The branch of vmm_map_page for a table that is present writes one word, which
\* is not in the directory.
LEMMA PresentWrites ==
  ASSUME VmmInv, NEW v \in VPages, NEW f \in Frames, vmm_map_page_present(f, v)
  PROVE  LET w == Translate(phys, Window(v[1]))
         IN /\ w \in Frames \ {kernel_dir}
            /\ phys[w][v[2]] = None
            /\ phys' \in [Frames -> [Index -> Frames \cup {None}]]
            /\ \A g \in Frames \ {w} : phys'[g] = phys[g]
            /\ \A i \in Index : phys'[w][i] = IF i = v[2] THEN f ELSE phys[w][i]
<1> DEFINE w == Translate(phys, Window(v[1]))
<1>1. v[1] \in Dir /\ v[1] \in Index /\ v[2] \in Index
  BY PagesAreNoWindows
<1>2. w \in Frames \ {kernel_dir}
  BY <1>1, Windows DEF vmm_map_page_present
<1>3. phys' = [phys EXCEPT ![w][v[2]] = f] /\ phys[w][v[2]] = None
  BY DEF vmm_map_page_present, SetEntry
<1> HIDE DEF w
<1>4. QED
  BY <1>1, <1>2, <1>3 DEF VmmInv, TypeOK, w

\* If the tables are current, that word is the one of page v, and no other page
\* or window moves.
LEMMA PresentWalks ==
  ASSUME VmmInv, MapsOnly, NEW v \in VPages, NEW f \in Frames, vmm_map_page_present(f, v)
  PROVE  /\ Walk(phys, kernel_dir, v) = None
         /\ Walk(phys', kernel_dir, v) = f
         /\ \A u \in VPages \ {v} : Walk(phys', kernel_dir, u) = Walk(phys, kernel_dir, u)
         /\ \A d \in Index : Walk(phys', kernel_dir, Window(d)) = Walk(phys, kernel_dir, Window(d))
         /\ phys'[kernel_dir] = phys[kernel_dir]
         /\ \A g \in Frames \ {phys[kernel_dir][v[1]]} : phys'[g] = phys[g]
<1> DEFINE w == Translate(phys, Window(v[1]))
<1>1. v[1] \in Dir /\ v[1] \in Index /\ v[2] \in Index /\ kernel_dir \in Frames
  BY PagesAreNoWindows, VmmConstants DEF Frames
<1>2. /\ w \in Frames \ {kernel_dir}
      /\ phys[w][v[2]] = None
      /\ \A g \in Frames \ {w} : phys'[g] = phys[g]
      /\ \A i \in Index : phys'[w][i] = IF i = v[2] THEN f ELSE phys[w][i]
  BY PresentWrites
<1>3. w = phys[kernel_dir][v[1]] /\ w # None
  BY <1>1, Windows, CurrentTranslation DEF VmmInv, vmm_map_page_present
<1> HIDE DEF w
<1>4. phys'[kernel_dir] = phys[kernel_dir]
  BY <1>1, <1>2
<1>5. Walk(phys, kernel_dir, v) = None /\ Walk(phys', kernel_dir, v) = f
  BY <1>1, <1>2, <1>3, <1>4 DEF Walk
<1>6. ASSUME NEW u \in VPages \ {v}
      PROVE  Walk(phys', kernel_dir, u) = Walk(phys, kernel_dir, u)
  <2>1. u[1] \in Dir /\ u[1] \in Index /\ u[2] \in Index /\ u = <<u[1], u[2]>> /\ v = <<v[1], v[2]>>
    BY PagesAreNoWindows
  <2>2. phys[kernel_dir][u[1]] \in Frames \cup {None}
    BY <1>1, <2>1 DEF VmmInv, TypeOK
  <2>3. CASE u[1] = v[1]
    BY <1>2, <1>3, <1>4, <2>1, <2>3 DEF Walk
  <2>4. CASE u[1] # v[1]
    <3>1. phys[kernel_dir][u[1]] # w
      BY <1>1, <1>3, <2>1, <2>4 DEF VmmInv, TablesAreOwned, MapsOnly, Dir
    <3>2. QED
      BY <1>2, <1>4, <2>2, <3>1 DEF Walk
  <2>5. QED
    BY <2>3, <2>4
<1>7. \A d \in Index : Walk(phys', kernel_dir, Window(d)) = Walk(phys, kernel_dir, Window(d))
  <2>1. phys[kernel_dir][Self] = kernel_dir
    BY DEF VmmInv, DirectoryIsSafe
  <2>2. QED
    BY <1>4, <2>1 DEF Walk, Window
<1>8. QED
  BY <1>2, <1>3, <1>4, <1>5, <1>6, <1>7

\* vmm_map_page keeps the invariant when the table is present and the page is not.
LEMMA PresentInv ==
  ASSUME VmmInv, NEW v \in VPages, vmm_map_page_present(First(free), v),
         free' = free \ {First(free)}, starved' = (starved \/ free = {}), UNCHANGED use
  PROVE  VmmInv'
<1> USE DEF VmmInv
<1> DEFINE f == First(free)
           w == Translate(phys, Window(v[1]))
<1>1. v[1] \in Dir /\ v[1] \in Index /\ Self \in Index /\ Dir \subseteq Index /\ kernel_dir \in Frames
  BY PagesAreNoWindows, VmmConstants DEF Self, Index, Frames, Dir
<1>2. /\ f \in Frames
      /\ free # {} => f \in free
  BY FirstIsFree DEF TypeOK
<1>3. /\ w \in Frames \ {kernel_dir}
      /\ phys' \in [Frames -> [Index -> Frames \cup {None}]]
      /\ \A g \in Frames \ {w} : phys'[g] = phys[g]
  BY <1>2, PresentWrites
<1>4. phys'[kernel_dir] = phys[kernel_dir]
  BY <1>1, <1>3
<1>5. /\ tlb' \in [DOMAIN tlb' -> Frames]
      /\ DOMAIN tlb' = DOMAIN tlb \cup {Window(Self), Window(v[1])}
      /\ DOMAIN tlb' \subseteq VPages \cup {Window(e) : e \in Index}
      /\ \A u \in DOMAIN tlb' : tlb'[u] = Translate(phys, u)
      /\ \A e \in Index : Window(e) \in DOMAIN tlb' =>
           (tlb'[Window(e)] = kernel_dir <=> e = Self)
  BY <1>1, <1>3, Windows, WindowsFilled, Zenon DEF vmm_map_page_present
<1> HIDE DEF f, w
<1>6. TypeOK'
  BY <1>3, <1>5 DEF TypeOK
<1>7. DirectoryIsSafe'
  BY <1>4, <1>5 DEF DirectoryIsSafe
<1>8. TablesAreOwned'
  BY <1>4 DEF TablesAreOwned, Tables, TypeOK
<1>9. CASE ~MapsOnly'
  BY <1>6, <1>7, <1>8, <1>9 DEF TlbIsCurrent, FreeIsClean, WalksAreOwned
<1>10. CASE MapsOnly'
  <2>1. MapsOnly /\ f \in free
    BY <1>2, <1>10, Zenon DEF MapsOnly, TypeOK
  <2>2. /\ Walk(phys, kernel_dir, v) = None
        /\ Walk(phys', kernel_dir, v) = f
        /\ \A u \in VPages \ {v} : Walk(phys', kernel_dir, u) = Walk(phys, kernel_dir, u)
        /\ \A d \in Index : Walk(phys', kernel_dir, Window(d)) = Walk(phys, kernel_dir, Window(d))
        /\ \A g \in Frames \ {phys[kernel_dir][v[1]]} : phys'[g] = phys[g]
    BY <1>2, <2>1, PresentWalks DEF f
  <2>3. TlbIsCurrent'
    <3> SUFFICES ASSUME NEW u \in DOMAIN tlb' PROVE tlb'[u] = Walk(phys', kernel_dir, u)
      BY DEF TlbIsCurrent
    <3>1. tlb'[u] = Walk(phys, kernel_dir, u) /\ tlb'[u] \in Frames
      BY <1>5, <2>1, CurrentTranslation
    <3>2. u # v
      BY <2>2, <3>1, VmmConstants DEF Frames
    <3>3. QED
      BY <1>5, <2>2, <3>1, <3>2
  <2>4. FreeIsClean' /\ WalksAreOwned'
    <3>1. {} \in SUBSET (free \ {f}) /\ free' = free \ ({f} \cup {})
      BY DEF f
    <3>2. \A e \in Dir : phys'[kernel_dir][e] = phys[kernel_dir][e] \/ phys'[kernel_dir][e] \in {}
      BY <1>4
    <3>3. \A g \in Frames \ {kernel_dir} :
            (\A e \in Dir : phys'[kernel_dir][e] # g) => phys'[g] = phys[g]
      BY <1>1, <1>4, <2>2
    <3>4. QED
      BY <2>1, <2>2, <3>1, <3>2, <3>3, PageAdded, Zenon
  <2>5. QED
    BY <1>6, <1>7, <1>8, <2>3, <2>4
<1>11. QED
  BY <1>9, <1>10

\* The frame behind the window on the table of page v once the table is t.
Behind(v, t) == IF Window(v[1]) \in DOMAIN tlb THEN tlb[Window(v[1])] ELSE t

\* Memory and the buffer after vmm_map_page has added table t for page v.
AbsentWrote(v, f, t) ==
  LET d == v[1]
      w == Behind(v, t)
      m == AddTable(d, t)
  IN /\ w \in Frames \ {kernel_dir}
     /\ phys[kernel_dir][d] = None
     /\ phys' \in [Frames -> [Index -> Frames \cup {None}]]
     /\ \A e \in Index : phys'[kernel_dir][e] = IF e = d THEN t ELSE phys[kernel_dir][e]
     /\ \A g \in Frames \ {kernel_dir, w} : phys'[g] = phys[g]
     /\ \A i \in Index : phys'[w][i] = IF i = v[2] THEN f ELSE None
     /\ Translate(m, Window(Self)) = kernel_dir
     /\ Translate(m, Window(d)) = w
     /\ tlb' = Filled(m, {Window(Self), Window(d)})
     /\ \A u \in DOMAIN tlb : Translate(m, u) = tlb[u]

\* The branch of vmm_map_page that adds a table writes one directory entry and the
\* frame behind the window on the new table, which is not the directory.
LEMMA AbsentWrites ==
  ASSUME VmmInv, NEW v \in VPages, NEW f \in Frames, NEW t \in Frames \ {kernel_dir},
         vmm_map_page_absent(f, v, t)
  PROVE  AbsentWrote(v, f, t)
<1> USE DEF VmmInv
<1> DEFINE d == v[1]
           w == Behind(v, t)
           m1 == [phys EXCEPT ![kernel_dir][d] = t]
           m == AddTable(d, t)
<1>1. /\ d \in Dir /\ d \in Index /\ d # Self /\ v[2] \in Index /\ kernel_dir \in Frames
      /\ Self \in Index /\ None \notin Frames
  BY PagesAreNoWindows, VmmConstants DEF Frames, Dir, Self, Index
<1>2. phys[kernel_dir][d] = None
  BY <1>1, Windows DEF vmm_map_page_absent
<1>3. w \in Frames \ {kernel_dir}
  BY <1>1 DEF TypeOK, DirectoryIsSafe, Behind
<1>4. /\ m1 \in [Frames -> [Index -> Frames \cup {None}]]
      /\ m1[kernel_dir][Self] = kernel_dir
      /\ \A e \in Index : m1[kernel_dir][e] = IF e = d THEN t ELSE phys[kernel_dir][e]
      /\ \A g \in Frames \ {kernel_dir} : m1[g] = phys[g]
  BY <1>1 DEF TypeOK, DirectoryIsSafe
<1> HIDE DEF m1
<1>5. Translate(m1, Window(d)) = w
  BY <1>1, <1>4 DEF Translate, Walk, Window, Behind
<1>6. m = [m1 EXCEPT ![w] = Zeroed]
  <2>1. Translate(phys, Window(Self)) = kernel_dir
    BY Windows
  <2>2. QED
    BY <1>5, <2>1, Zenon DEF AddTable, m1
<1> HIDE DEF w, m
<1>7. /\ m \in [Frames -> [Index -> Frames \cup {None}]]
      /\ m[kernel_dir] = m1[kernel_dir]
      /\ m[w] = Zeroed
      /\ \A g \in Frames \ {w} : m[g] = m1[g]
  BY <1>1, <1>3, <1>4, <1>6 DEF Zeroed
<1>8. Translate(m, Window(Self)) = kernel_dir /\ Translate(m, Window(d)) = w
  BY <1>1, <1>4, <1>7 DEF Translate, Walk, Window, w, Behind, DirectoryIsSafe
<1>9. phys' = [m EXCEPT ![w][v[2]] = f]
  BY <1>8 DEF vmm_map_page_absent, SetEntry, m
<1>10. /\ phys' \in [Frames -> [Index -> Frames \cup {None}]]
       /\ \A g \in Frames \ {w} : phys'[g] = m[g]
       /\ \A i \in Index : phys'[w][i] = IF i = v[2] THEN f ELSE None
  BY <1>1, <1>3, <1>7, <1>9 DEF Zeroed
<1>11. /\ \A e \in Index : phys'[kernel_dir][e] = IF e = d THEN t ELSE phys[kernel_dir][e]
       /\ \A g \in Frames \ {kernel_dir, w} : phys'[g] = phys[g]
  BY <1>1, <1>3, <1>4, <1>7, <1>10
<1>12. tlb' = Filled(m, {Window(Self), Window(d)})
  BY DEF vmm_map_page_absent, m
<1>13. \A u \in DOMAIN tlb : Translate(m, u) = tlb[u]
  BY DEF Translate
<1>14. QED
  BY <1>2, <1>3, <1>8, <1>10, <1>11, <1>12, <1>13 DEF m, w, AbsentWrote

\* If the tables are current and the frames f and t were free, page v is mapped
\* by the new table t, and no other page or window moves.
LEMMA AbsentWalks ==
  ASSUME VmmInv, MapsOnly, NEW v \in VPages, NEW f \in free, NEW t \in free \ {f},
         vmm_map_page_absent(f, v, t)
  PROVE  /\ Walk(phys, kernel_dir, v) = None
         /\ Walk(phys', kernel_dir, v) = f
         /\ \A u \in VPages \ {v} : Walk(phys', kernel_dir, u) = Walk(phys, kernel_dir, u)
         /\ \A d \in Index \ {v[1]} : Walk(phys', kernel_dir, Window(d)) = Walk(phys, kernel_dir, Window(d))
         /\ Walk(phys', kernel_dir, Window(v[1])) = t
         /\ Window(v[1]) \notin DOMAIN tlb
         /\ \A g \in Frames \ {kernel_dir, t} : phys'[g] = phys[g]
<1> USE DEF VmmInv
<1> DEFINE d == v[1]
<1>1. /\ d \in Dir /\ d \in Index /\ d # Self /\ v[2] \in Index /\ kernel_dir \in Frames
      /\ Self \in Index /\ None \notin Frames
      /\ f \in Frames /\ t \in Frames \ {kernel_dir}
  BY PagesAreNoWindows, VmmConstants DEF Frames, Dir, Self, Index, TypeOK, DirectoryIsSafe
<1>2. AbsentWrote(v, f, t) /\ phys[kernel_dir][d] = None
  BY <1>1, AbsentWrites DEF AbsentWrote
<1>3. Window(d) \notin DOMAIN tlb
  BY <1>1, <1>2, Windows DEF TlbIsCurrent, TypeOK
<1>4. /\ \A e \in Index : phys'[kernel_dir][e] = IF e = d THEN t ELSE phys[kernel_dir][e]
      /\ \A g \in Frames \ {kernel_dir, t} : phys'[g] = phys[g]
      /\ \A i \in Index : phys'[t][i] = IF i = v[2] THEN f ELSE None
  <2> DEFINE w == Behind(v, t)
  <2>1. /\ \A e \in Index : phys'[kernel_dir][e] = IF e = d THEN t ELSE phys[kernel_dir][e]
        /\ \A g \in Frames \ {kernel_dir, w} : phys'[g] = phys[g]
        /\ \A i \in Index : phys'[w][i] = IF i = v[2] THEN f ELSE None
    BY <1>2 DEF AbsentWrote
  <2>2. w = t
    BY <1>3 DEF Behind
  <2> HIDE DEF w
  <2>3. QED
    BY <2>1, <2>2
<1>5. Walk(phys, kernel_dir, v) = None /\ Walk(phys', kernel_dir, v) = f
  BY <1>1, <1>2, <1>4 DEF Walk
<1>6. ASSUME NEW u \in VPages \ {v}
      PROVE  Walk(phys', kernel_dir, u) = Walk(phys, kernel_dir, u)
  <2>1. u[1] \in Dir /\ u[1] \in Index /\ u[2] \in Index /\ u = <<u[1], u[2]>> /\ v = <<v[1], v[2]>>
    BY PagesAreNoWindows
  <2>2. phys[kernel_dir][u[1]] \in Frames \cup {None}
    BY <1>1, <2>1 DEF TypeOK
  <2>3. CASE u[1] = d
    BY <1>1, <1>2, <1>4, <2>1, <2>3 DEF Walk
  <2>4. CASE u[1] # d
    <3>1. phys[kernel_dir][u[1]] # t /\ phys[kernel_dir][u[1]] # kernel_dir
      BY <1>1, <2>1, VmmConstants DEF TablesAreOwned, Tables, MapsOnly, Dir, DirectoryIsSafe, Frames
    <3>2. phys'[kernel_dir][u[1]] = phys[kernel_dir][u[1]]
      BY <1>4, <2>1, <2>4
    <3>3. QED
      BY <1>4, <2>2, <3>1, <3>2 DEF Walk
  <2>5. QED
    BY <2>3, <2>4
<1>7. \A e \in Index : Walk(phys', kernel_dir, Window(e)) = phys'[kernel_dir][e]
  <2>1. phys'[kernel_dir][Self] = kernel_dir
    BY <1>1, <1>4 DEF DirectoryIsSafe
  <2>2. QED
    BY <2>1 DEF Walk, Window
<1>8. QED
  BY <1>1, <1>3, <1>4, <1>5, <1>6, <1>7, Windows

\* vmm_map_page keeps the invariant when it adds a table, also if it got none.
LEMMA AbsentInv ==
  ASSUME VmmInv, NEW v \in VPages, NEW f, NEW t,
         f = First(free), t = First(free \ {f}),
         vmm_map_page_absent(f, v, t),
         free' = (free \ {f}) \ {t}, starved' = (starved \/ free \ {f} = {}), UNCHANGED use
  PROVE  VmmInv'
<1> USE DEF VmmInv
<1> DEFINE d == v[1]
           w == Behind(v, t)
           m == AddTable(d, t)
<1>1. /\ d \in Dir /\ d \in Index /\ d # Self /\ Self \in Index /\ Dir \subseteq Index
      /\ kernel_dir \in Frames /\ None \notin Frames
  BY PagesAreNoWindows, VmmConstants DEF Self, Index, Frames, Dir
<1>2. /\ f \in Frames /\ t \in Frames \ {kernel_dir}
      /\ free \ {f} # {} => f \in free /\ t \in free \ {f}
  BY FirstIsFree, Zenon DEF TypeOK, DirectoryIsSafe
<1>3. /\ w \in Frames \ {kernel_dir}
      /\ phys[kernel_dir][d] = None
      /\ phys' \in [Frames -> [Index -> Frames \cup {None}]]
      /\ \A e \in Index : phys'[kernel_dir][e] = IF e = d THEN t ELSE phys[kernel_dir][e]
      /\ Translate(m, Window(Self)) = kernel_dir
      /\ Translate(m, Window(d)) = w
      /\ tlb' = Filled(m, {Window(Self), Window(d)})
      /\ \A u \in DOMAIN tlb : Translate(m, u) = tlb[u]
  <2>1. AbsentWrote(v, f, t)
    BY <1>2, AbsentWrites
  <2>2. QED
    BY <2>1, Zenon DEF AbsentWrote
<1> HIDE DEF w, m
<1>4. /\ tlb' \in [DOMAIN tlb' -> Frames]
      /\ DOMAIN tlb' = DOMAIN tlb \cup {Window(Self), Window(d)}
      /\ DOMAIN tlb' \subseteq VPages \cup {Window(e) : e \in Index}
      /\ \A u \in DOMAIN tlb' : tlb'[u] = Translate(m, u)
      /\ \A e \in Index : Window(e) \in DOMAIN tlb' =>
           (tlb'[Window(e)] = kernel_dir <=> e = Self)
  BY <1>1, <1>3, WindowsFilled, Zenon
<1>5. TypeOK'
  BY <1>3, <1>4, Zenon DEF TypeOK
<1>6. DirectoryIsSafe'
  BY <1>1, <1>2, <1>3, <1>4, Zenon DEF DirectoryIsSafe
<1>7. TablesAreOwned'
  <2> SUFFICES ASSUME ~starved' PROVE TablesAreOwned'
    BY Zenon DEF TablesAreOwned
  <2>1. ~starved /\ f \in free /\ t \in free \ {f} /\ free' = free \ {f, t}
    BY <1>2, Zenon DEF TypeOK
  <2>2. /\ \A e \in Dir : phys[kernel_dir][e] \notin free
        /\ \A e, g \in Dir : e # g /\ phys[kernel_dir][e] # None => phys[kernel_dir][e] # phys[kernel_dir][g]
    BY <1>1, <2>1 DEF TablesAreOwned, Tables, Dir, TypeOK
  <2>3. /\ \A e \in Dir : phys'[kernel_dir][e] \notin free'
        /\ \A e, g \in Dir : e # g /\ phys'[kernel_dir][e] # None => phys'[kernel_dir][e] # phys'[kernel_dir][g]
    <3>1. phys'[kernel_dir][d] = t /\ \A e \in Dir \ {d} : phys'[kernel_dir][e] = phys[kernel_dir][e]
      BY <1>1, <1>3, Zenon
    <3>2. QED
      BY <1>1, <2>1, <2>2, <3>1
  <2>4. QED
    BY <2>3 DEF TablesAreOwned, Tables, Dir
<1>8. CASE ~MapsOnly'
  BY <1>5, <1>6, <1>7, <1>8 DEF TlbIsCurrent, FreeIsClean, WalksAreOwned
<1>9. CASE MapsOnly'
  <2>1. MapsOnly /\ f \in free /\ t \in free \ {f}
    BY <1>2, <1>9, Zenon DEF MapsOnly, TypeOK
  <2>2. /\ Walk(phys, kernel_dir, v) = None
        /\ Walk(phys', kernel_dir, v) = f
        /\ \A u \in VPages \ {v} : Walk(phys', kernel_dir, u) = Walk(phys, kernel_dir, u)
        /\ \A e \in Index \ {d} : Walk(phys', kernel_dir, Window(e)) = Walk(phys, kernel_dir, Window(e))
        /\ Walk(phys', kernel_dir, Window(d)) = t
        /\ Window(d) \notin DOMAIN tlb
        /\ \A g \in Frames \ {kernel_dir, t} : phys'[g] = phys[g]
    BY <2>1, AbsentWalks, Zenon
  <2>3. TlbIsCurrent'
    <3> SUFFICES ASSUME NEW u \in DOMAIN tlb' PROVE tlb'[u] = Walk(phys', kernel_dir, u)
      BY DEF TlbIsCurrent
    <3>1. CASE u = Window(d)
      BY <1>3, <1>4, <2>2, <3>1, Zenon DEF w, Behind
    <3>2. CASE u = Window(Self)
      <4>1. Walk(phys, kernel_dir, Window(Self)) = kernel_dir
        BY <1>1, Windows DEF DirectoryIsSafe
      <4>2. QED
        BY <1>1, <1>3, <1>4, <2>2, <3>2, <4>1, Zenon
    <3>3. CASE u \in DOMAIN tlb
      <4>1. tlb'[u] = tlb[u] /\ tlb[u] = Walk(phys, kernel_dir, u) /\ tlb[u] \in Frames
        BY <1>3, <1>4, <2>1, <3>3, Zenon DEF TlbIsCurrent, TypeOK
      <4>2. u # v /\ u # Window(d)
        BY <1>1, <2>2, <3>3, <4>1
      <4>3. u \in VPages \/ \E e \in Index : u = Window(e)
        BY <1>4
      <4>4. QED
        BY <2>2, <4>1, <4>2, <4>3
    <3>4. QED
      BY <1>4, <3>1, <3>2, <3>3
  <2>4. FreeIsClean' /\ WalksAreOwned'
    <3>1. {t} \in SUBSET (free \ {f}) /\ free' = free \ ({f} \cup {t})
      BY <2>1
    <3>2. \A e \in Dir : phys'[kernel_dir][e] = phys[kernel_dir][e] \/ phys'[kernel_dir][e] \in {t}
      BY <1>1, <1>3, Zenon
    <3>3. \A g \in Frames \ {kernel_dir} :
            (\A e \in Dir : phys'[kernel_dir][e] # g) => phys'[g] = phys[g]
      BY <1>1, <1>3, <2>2, Zenon
    <3>4. QED
      BY <2>1, <2>2, <3>1, <3>2, <3>3, PageAdded, Zenon
  <2>5. QED
    BY <1>5, <1>6, <1>7, <2>3, <2>4
<1>10. QED
  BY <1>8, <1>9

-----------------------------------------------------------------------------
(* Unmapping, and the theorems.                                            *)

\* vmm_unmap_page keeps the invariant, although it leaves stale translations: it
\* writes through a window, which may be stale, but which is never the directory.
LEMMA UnmapInv ==
  ASSUME VmmInv, NEW v \in VPages, vmm_unmap_page(v)
  PROVE  VmmInv'
<1> USE DEF VmmInv
<1> DEFINE d == v[1]
           w == Translate(phys, Window(d))
           m == SetEntry(phys, v, None)
<1>1. /\ d \in Dir /\ d \in Index /\ d # Self /\ v[2] \in Index /\ Self \in Index /\ Dir \subseteq Index
      /\ kernel_dir \in Frames /\ None \notin Frames
  BY PagesAreNoWindows, VmmConstants DEF Self, Index, Frames, Dir
<1>2. ~MapsOnly' /\ UNCHANGED <<starved, use>>
  BY DEF vmm_unmap_page, MapsOnly
<1>3. dir_virtual(d) = phys[kernel_dir][d]
  BY <1>1, Windows
<1>4. CASE dir_virtual(d) = None
  <2>1. UNCHANGED <<phys, free>> /\ tlb' = Filled(phys, {Window(Self)})
    BY <1>4 DEF vmm_unmap_page
  <2>2. Translate(phys, Window(Self)) \in Frames
    BY <1>1, Windows
  <2>3. /\ tlb' \in [DOMAIN tlb \cup {Window(Self)} -> Frames]
        /\ \A u \in DOMAIN tlb \cup {Window(Self)} : tlb'[u] = Translate(phys, u)
    BY <2>1, <2>2, FilledType, Zenon
  <2>4. DOMAIN tlb' = DOMAIN tlb \cup {Window(Self)}
    BY <2>3
  <2>5. QED
    BY <1>1, <1>2, <2>1, <2>3, <2>4, BufferStep, Zenon DEF TypeOK, MapsOnly
<1>5. CASE dir_virtual(d) # None
  <2>1. w \in Frames \ {kernel_dir}
    BY <1>1, <1>3, <1>5, Windows
  <2>2. m = [phys EXCEPT ![w][v[2]] = None]
    BY DEF SetEntry
  <2> HIDE DEF w, m
  <2>3. /\ m \in [Frames -> [Index -> Frames \cup {None}]]
        /\ m[kernel_dir] = phys[kernel_dir]
    BY <1>1, <2>1, <2>2 DEF TypeOK
  <2>4. Translate(m, Window(Self)) = kernel_dir
    BY <1>1, <2>3 DEF Translate, Walk, Window, DirectoryIsSafe
  <2>5. /\ tlb' = flush_tlb_entry(Filled(phys, {Window(Self), Window(d)}), v)
        /\ \/ /\ free' = free \cup {phys[kernel_dir][d]}
              /\ phys' = [m EXCEPT ![kernel_dir][d] = None]
           \/ phys' = m /\ free' = free
    BY <1>3, <1>5, <2>4 DEF vmm_unmap_page, m
  <2>6. /\ phys' \in [Frames -> [Index -> Frames \cup {None}]]
        /\ \A e \in Index \ {d} : phys'[kernel_dir][e] = phys[kernel_dir][e]
        /\ \/ phys'[kernel_dir][d] = None /\ free' = free \cup {phys[kernel_dir][d]}
           \/ phys'[kernel_dir][d] = phys[kernel_dir][d] /\ free' = free
    <3>1. CASE phys' = m /\ free' = free
      BY <1>1, <2>3, <3>1
    <3>2. CASE /\ free' = free \cup {phys[kernel_dir][d]}
               /\ phys' = [m EXCEPT ![kernel_dir][d] = None]
      <4>1. /\ phys' \in [Frames -> [Index -> Frames \cup {None}]]
            /\ \A e \in Index \ {d} : phys'[kernel_dir][e] = m[kernel_dir][e]
            /\ phys'[kernel_dir][d] = None
        BY <1>1, <2>3, <3>2
      <4>2. QED
        BY <2>3, <3>2, <4>1
    <3>3. QED
      BY <2>5, <3>1, <3>2
  <2>7. phys[kernel_dir][d] \in Frames \ {kernel_dir}
    BY <1>1, <1>3, <1>5 DEF TypeOK, DirectoryIsSafe
  <2>8. /\ tlb' \in [DOMAIN tlb' -> Frames]
        /\ DOMAIN tlb' \subseteq VPages \cup {Window(e) : e \in Index}
        /\ \A e \in Index : Window(e) \in DOMAIN tlb' =>
             (tlb'[Window(e)] = kernel_dir <=> e = Self)
    <3> DEFINE t == Filled(phys, {Window(Self), Window(d)})
               vs == {Window(Self), Window(d)}
    <3>1. Translate(phys, Window(Self)) = kernel_dir /\ Translate(phys, Window(d)) \in Frames \ {kernel_dir}
      BY <2>1, Windows DEF w
    <3>2. /\ t \in [DOMAIN tlb \cup vs -> Frames]
          /\ \A u \in DOMAIN tlb \cup vs : t[u] = Translate(phys, u)
      <4>1. \A u \in vs : Translate(phys, u) \in Frames
        BY <1>1, <3>1
      <4>2. QED
        BY <4>1, FilledType, Zenon
    <3> HIDE DEF t
    <3>3. /\ tlb' \in [(DOMAIN tlb \cup vs) \ {<<0, 0>>} -> Frames]
          /\ \A u \in (DOMAIN tlb \cup vs) \ {<<0, 0>>} : tlb'[u] = Translate(phys, u)
      BY <2>5, <3>2, Zenon DEF flush_tlb_entry, t
    <3>4. DOMAIN tlb' = (DOMAIN tlb \cup vs) \ {<<0, 0>>}
      BY <3>3
    <3>5. DOMAIN tlb' \subseteq VPages \cup {Window(e) : e \in Index}
      BY <1>1, <3>4 DEF TypeOK
    <3>6. ASSUME NEW e \in Index, Window(e) \in DOMAIN tlb'
          PROVE  tlb'[Window(e)] = kernel_dir <=> e = Self
      <4>1. \A a, b : Window(a) = Window(b) <=> a = b
        BY DEF Window
      <4>2. CASE Window(e) \in DOMAIN tlb
        BY <3>3, <3>4, <3>6, <4>2 DEF DirectoryIsSafe, Translate
      <4>3. CASE Window(e) \in vs
        BY <1>1, <3>1, <3>3, <3>4, <3>6, <4>1, <4>3
      <4>4. QED
        BY <3>4, <3>6, <4>2, <4>3
    <3>7. QED
      BY <3>3, <3>4, <3>5, <3>6
  <2>9. TypeOK'
    BY <1>2, <2>6, <2>7, <2>8 DEF TypeOK
  <2>10. DirectoryIsSafe'
    BY <1>1, <2>6, <2>7, <2>8 DEF DirectoryIsSafe
  <2>11. TablesAreOwned'
    <3> SUFFICES ASSUME ~starved PROVE TablesAreOwned'
      BY <1>2 DEF TablesAreOwned
    <3>1. /\ \A e \in Dir : phys[kernel_dir][e] # None => phys[kernel_dir][e] \notin free
          /\ \A e, g \in Dir : e # g /\ phys[kernel_dir][e] # None => phys[kernel_dir][e] # phys[kernel_dir][g]
      BY DEF TablesAreOwned, Tables, Dir
    <3>2. /\ \A e \in Dir : phys'[kernel_dir][e] # None => phys'[kernel_dir][e] \notin free'
          /\ \A e, g \in Dir : e # g /\ phys'[kernel_dir][e] # None => phys'[kernel_dir][e] # phys'[kernel_dir][g]
      BY <1>1, <2>6, <3>1
    <3>3. QED
      BY <3>2 DEF TablesAreOwned, Tables, Dir
  <2>12. QED
    BY <1>2, <2>9, <2>10, <2>11 DEF TlbIsCurrent, FreeIsClean, WalksAreOwned
<1>6. QED
  BY <1>4, <1>5

\* Every step of the kernel, the CPU or the buffer keeps the invariant.
LEMMA VmmInvNext == VmmInv /\ [Next]_vars => VmmInv'
<1> SUFFICES ASSUME VmmInv, [Next]_vars PROVE VmmInv'
  OBVIOUS
<1>1. use.pages \subseteq VPages
  BY VmmConstants DEF VmmInv, TypeOK
<1>2. ASSUME NEW v \in use.pages, vmm_map_page(v) PROVE VmmInv'
  <2> DEFINE f == First(free)
             t == First(free \ {f})
  <2>1. v \in VPages /\ starved \in BOOLEAN /\ UNCHANGED use
    BY <1>1, <1>2 DEF VmmInv, TypeOK, vmm_map_page
  <2>2. CASE /\ vmm_map_page_in_use(f, v)
             /\ free' = free \ {f} /\ starved' = (starved \/ free = {})
    BY <2>1, <2>2, InUseInv
  <2>3. CASE /\ vmm_map_page_present(f, v)
             /\ free' = free \ {f} /\ starved' = (starved \/ free = {})
    BY <2>1, <2>3, PresentInv
  <2>4. CASE /\ vmm_map_page_absent(f, v, t)
             /\ free' = (free \ {f}) \ {t} /\ starved' = (starved \/ free \ {f} = {})
    BY <2>1, <2>4, AbsentInv
  <2>5. QED
    BY <1>2, <2>2, <2>3, <2>4 DEF vmm_map_page
<1>3. ASSUME NEW v \in use.pages, vmm_unmap_page(v) PROVE VmmInv'
  BY <1>1, <1>3, UnmapInv
<1>4. ASSUME NEW v \in use.pages, Access(v) PROVE VmmInv'
  BY <1>1, <1>4, AccessInv
<1>5. ASSUME NEW v \in DOMAIN tlb, Evict(v) PROVE VmmInv'
  BY <1>5, EvictInv
<1>6. ASSUME UNCHANGED vars PROVE VmmInv'
  <2>1. UNCHANGED <<phys, tlb, free, starved, use>>
    BY <1>6 DEF vars
  <2>2. QED
    BY <2>1, BufferStep DEF VmmInv, TypeOK, MapsOnly, Translate
<1>7. QED
  BY <1>2, <1>3, <1>4, <1>5, <1>6 DEF Next

\* The invariant about the tables gives the one about what the CPU uses.
LEMMA VmmInvOwned == VmmInv => FramesAreOwned
<1> SUFFICES ASSUME VmmInv PROVE PagesAreOwned
  BY DEF VmmInv, FramesAreOwned
<1> SUFFICES ASSUME MapsOnly PROVE PagesAreOwned
  BY DEF PagesAreOwned
<1>1. \A v : Translate(phys, v) = Walk(phys, kernel_dir, v)
  BY CurrentTranslation DEF VmmInv
<1>2. Mapped = {Walk(phys, kernel_dir, v) : v \in VPages} \ {None}
  BY <1>1 DEF Mapped
<1>3. \A f \in Mapped : /\ f \notin free /\ f # kernel_dir /\ phys[f] = Garbage
                        /\ \A d \in Dir : phys[kernel_dir][d] # f
  BY <1>2 DEF VmmInv, WalksAreOwned, Present
<1>4. Mapped \cap (free \cup Tables \cup {kernel_dir}) = {}
  BY <1>3 DEF Tables, Dir
<1>5. \A v, w \in VPages : v # w /\ Translate(phys, v) # None => Translate(phys, v) # Translate(phys, w)
  BY <1>1 DEF VmmInv, WalksAreOwned, Present
<1>6. QED
  BY <1>3, <1>4, <1>5 DEF PagesAreOwned

\* The invariant holds in every state that paging reaches.
LEMMA VmmInvariant == Spec => []VmmInv
BY VmmInvInit, VmmInvNext, PTL DEF Spec

\* Whatever the sizes of tables and memory, the pages and the memory of a kernel:
\* unless memory runs out every table has a frame of its own, also with
\* vmm_unmap_page, and while pages are only mapped so has every page, and
\* vmm_map_page never writes to it.
THEOREM FramesOwned == Spec => []FramesAreOwned
BY VmmInvariant, VmmInvOwned, PTL

\* While pages are only mapped and memory lasts, the CPU needs no flush of its
\* buffer: vmm_map_page may leave the windows and pages it has cached.
THEOREM TlbCurrent == Spec => []TlbIsCurrent
<1>1. VmmInv => TlbIsCurrent
  BY DEF VmmInv
<1>2. QED
  BY <1>1, VmmInvariant, PTL

-----------------------------------------------------------------------------
(* The refinement: paging implements AddressSpace.                         *)

\* While pages are only mapped, the address space is what the tables say.
LEMMA SpaceIsWalk ==
  ASSUME TlbIsCurrent, MapsOnly
  PROVE  space = [v \in {u \in VPages : Walk(phys, kernel_dir, u) # None} |-> Walk(phys, kernel_dir, v)]
<1>1. \A v : Translate(phys, v) = Walk(phys, kernel_dir, v)
  BY CurrentTranslation
<1>2. QED
  BY <1>1 DEF space

\* A page that comes into the tables comes into the address space.
LEMMA MapsPage ==
  ASSUME VmmInv, VmmInv', MapsOnly, MapsOnly',
         NEW v \in VPages, NEW f \in Frames,
         Walk(phys, kernel_dir, v) = None,
         Walk(phys', kernel_dir, v) = f,
         \A u \in VPages \ {v} : Walk(phys', kernel_dir, u) = Walk(phys, kernel_dir, u)
  PROVE  Abstract!Next
<1> DEFINE P == {u \in VPages : Walk(phys, kernel_dir, u) # None}
           Q == {u \in VPages : Walk(phys', kernel_dir, u) # None}
<1>1. space = [u \in P |-> Walk(phys, kernel_dir, u)]
  BY SpaceIsWalk DEF VmmInv
<1>2. space' = [u \in Q |-> Walk(phys', kernel_dir, u)]
  <2>1. \A u : Translate(phys, u)' = Walk(phys', kernel_dir, u)
    BY DEF VmmInv, TlbIsCurrent, Translate, Walk
  <2>2. QED
    BY <2>1 DEF space
<1>3. Q = P \cup {v} /\ v \notin P
  BY VmmConstants DEF Frames
<1>4. \A u \in P : u # v /\ Walk(phys', kernel_dir, u) = Walk(phys, kernel_dir, u)
  BY <1>3
<1> HIDE DEF P, Q
<1>5. DOMAIN space = P /\ v \notin DOMAIN space
  BY <1>1, <1>3
<1>6. space' = [u \in DOMAIN space \cup {v} |-> IF u = v THEN f ELSE space[u]]
  BY <1>1, <1>2, <1>3, <1>4, <1>5
<1>7. Abstract!Map(v, f)
  BY <1>5, <1>6 DEF Abstract!Map
<1>8. QED
  BY <1>7 DEF Abstract!Next

\* A step that leaves memory alone and brings into the buffer only what the tables
\* say leaves the address space alone.
LEMMA SpaceUnchanged ==
  ASSUME VmmInv, VmmInv', MapsOnly, MapsOnly', phys' = phys
  PROVE  space' = space
<1>1. \A u : Translate(phys, u) = Walk(phys, kernel_dir, u)
  BY CurrentTranslation DEF VmmInv
<1>2. \A u : Translate(phys, u)' = Walk(phys, kernel_dir, u)
  BY DEF VmmInv, TlbIsCurrent, Translate, Walk
<1>3. QED
  BY <1>1, <1>2 DEF space

\* Every step is a step of AddressSpace or leaves the address space alone, unless
\* it uses up memory or pages are unmapped.
LEMMA StepRefines ==
  ASSUME VmmInv, VmmInv', [Next]_vars
  PROVE  (MapsOnly' => Abstract!Next) \/ UNCHANGED space
<1> SUFFICES ASSUME MapsOnly' PROVE Abstract!Next \/ UNCHANGED space
  OBVIOUS
<1>1. use.pages \subseteq VPages
  BY VmmConstants DEF VmmInv, TypeOK
<1>2. ASSUME NEW v \in use.pages, vmm_map_page(v) PROVE Abstract!Next \/ UNCHANGED space
  <2> DEFINE f == First(free)
             t == First(free \ {f})
  <2>1. v \in VPages /\ MapsOnly
    BY <1>1, <1>2 DEF VmmInv, TypeOK, vmm_map_page, MapsOnly
  <2>2. CASE vmm_map_page_in_use(f, v)
    BY <2>1, <2>2, SpaceUnchanged DEF vmm_map_page_in_use
  <2>3. CASE vmm_map_page_present(f, v)
    <3>1. f \in Frames
      BY FirstIsFree DEF VmmInv, TypeOK
    <3>2. QED
      BY <2>1, <2>3, <3>1, PresentWalks, MapsPage
  <2>4. CASE /\ vmm_map_page_absent(f, v, t)
             /\ starved' = (starved \/ free \ {f} = {})
    <3>1. free \ {f} # {}
      BY <2>4, Zenon DEF MapsOnly
    <3>2. f \in free /\ t \in free \ {f} /\ free \subseteq Frames
      BY <3>1, FirstIsFree, Zenon DEF VmmInv, TypeOK
    <3>3. QED
      BY <2>1, <2>4, <3>2, AbsentWalks, MapsPage
  <2>5. QED
    BY <1>2, <2>2, <2>3, <2>4 DEF vmm_map_page
<1>3. ASSUME NEW v \in use.pages, vmm_unmap_page(v) PROVE FALSE
  BY <1>3 DEF vmm_unmap_page, MapsOnly
<1>4. CASE \/ \E v \in use.pages : Access(v)
           \/ \E v \in DOMAIN tlb : Evict(v)
           \/ UNCHANGED vars
  <2>1. phys' = phys /\ starved' = starved /\ use' = use
    BY <1>4, Zenon DEF Access, Evict, vars
  <2>2. MapsOnly
    BY <2>1 DEF MapsOnly
  <2>3. QED
    BY <2>1, <2>2, SpaceUnchanged
<1>5. QED
  BY <1>2, <1>3, <1>4 DEF Next

\* vmm.c implements AddressSpace: the tables, the windows on them and the buffer
\* together are one map from pages to frames that vmm_map_page extends.
THEOREM VmmImplementsAddressSpace == Spec => ImplementsAddressSpace
<1>1. Init => Abstract!Init
  <2> SUFFICES ASSUME Init PROVE Abstract!Init
    OBVIOUS
  <2>1. VmmInv
    BY VmmInvInit
  <2>2. \A v \in VPages : Translate(phys, v) = None
    <3>1. \A v \in VPages : Walk(phys, kernel_dir, v) = None
      <4>1. \A v \in VPages : v[1] \in Index /\ v[1] # 0 /\ v[1] # Self
        BY VmmConstants DEF Index, Self
      <4>2. kernel_dir \in Frames
        BY VmmConstants DEF Frames
      <4>3. QED
        BY <4>1, <4>2 DEF Init, Walk
    <3>2. DOMAIN tlb = {}
      BY DEF Init
    <3>3. QED
      BY <3>1, <3>2 DEF Translate
  <2>3. {w \in VPages : Translate(phys, w) # None} = {}
    BY <2>2
  <2>4. space = [v \in {} |-> v]
    BY <2>3 DEF space
  <2>5. QED
    BY <2>4 DEF Abstract!Init
<1>2. VmmInv /\ VmmInv' /\ [Next]_vars => [MapsOnly' => Abstract!Next]_space
  BY StepRefines
<1>3. QED
  BY <1>1, <1>2, VmmInvariant, PTL DEF Spec, ImplementsAddressSpace
=============================================================================
