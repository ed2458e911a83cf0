----------------------------- MODULE SmpProofs -----------------------------
(* Proofs about several CPUs: how they are started (CpuBoot), what they    *)
(* then do at the same time (CpuMain) and the lock they have (Spinlock).   *)
(* The CPUs of the other modules are those that CpuBoot starts.            *)
EXTENDS CpuBoot, CpuMain, Spinlock, NatFacts, FiniteSetTheorems, TLAPS

-----------------------------------------------------------------------------
(* CpuBoot: no two CPUs get one stack, for any number of CPUs and any      *)
(* identifiers.                                                            *)

\* The AP that cpus[i] names is the only one that can be on its way, ...
InTurn ==
  /\ pc[BSP] \in {"next", "sipi1", "sipi2", "spin", "start", "main"}
  /\ pc[BSP] \in {"next", "sipi1", "sipi2", "spin"} => i < num_cpus /\ mailbox = i
  /\ pc[BSP] \in {"sipi1", "sipi2", "spin"} => i > 0
  /\ pc[BSP] \in {"start", "main"} => i = num_cpus

Passed(c) == c < i \/ (c = i /\ pc[BSP] = "next")

\* ... those before it have arrived, and those after it still wait.
ApsInTurn ==
  \A c \in APs :
    /\ pc[c] \in {"wait", "trampoline", "enter", "start", "main"}
    /\ c > i => pc[c] = "wait"
    /\ Passed(c) => pc[c] = "main" /\ ApicId[c] = c

\* An AP that runs has the stack of its index.
StacksByIndex ==
  /\ stack[BSP] = 0
  /\ \A c \in APs : stack[c] = IF pc[c] \in {"wait", "trampoline"} THEN None ELSE c

EntriesById ==
  /\ cpu[BSP] = ApicId[BSP]
  /\ \A c \in APs : pc[c] \in {"start", "main"} => cpu[c] = ApicId[c]

\* An entry is marked only by a CPU that has its index for an identifier.
StartedByOwner ==
  \A k \in 1 .. MAX_CPUS - 1 :
    started[k] = 1 => \E c \in CPUs : ApicId[c] = k /\ pc[c] = "main"

BootInv ==
  TypeOK /\ InTurn /\ ApsInTurn /\ StacksByIndex /\ EntriesById /\ StartedByOwner

\* The facts about indices every step uses.
LEMMA Indices ==
  /\ BSP \in CPUs /\ BSP = 0
  /\ CPUs \subseteq Nat
  /\ num_cpus \in Nat \ {0} /\ MAX_CPUS \in Nat /\ num_cpus <= MAX_CPUS
  /\ \A c \in CPUs : c \in APs <=> c > 0
  /\ APs \subseteq CPUs
  /\ \A c \in CPUs : ApicId[c] \in 0 .. MAX_CPUS - 1
  /\ None \notin CPUs
BY CpuConstants DEF BSP, APs, None

\* The state in which cpu_start_aps is called satisfies the invariant.
LEMMA BootInvInit == Init => BootInv
<1> SUFFICES ASSUME Init PROVE BootInv
  OBVIOUS
<1> USE Indices DEF Init
<1>1. TypeOK
  <2>1. i \in 0 .. num_cpus /\ mailbox \in 0 .. num_cpus - 1
    OBVIOUS
  <2>2. 0 \in CPUs /\ 0 \in 0 .. MAX_CPUS - 1
    OBVIOUS
  <2>3. stack \in [CPUs -> CPUs \cup {None}]
    BY <2>2
  <2>4. cpu \in [CPUs -> 0 .. MAX_CPUS - 1 \cup {None}]
    OBVIOUS
  <2> QED
    BY <2>1, <2>3, <2>4, Zenon DEF TypeOK
<1>2. InTurn
  BY DEF InTurn
<1>3. ApsInTurn
  <2>1. i = 0 /\ pc[BSP] = "next"
    BY Zenon
  <2>2. ASSUME NEW c \in APs PROVE pc[c] = "wait" /\ c \in Nat /\ c > 0
    <3>1. c \in CPUs /\ c \in Nat /\ c > 0 /\ c # BSP
      BY CpuConstants DEF APs, BSP
    <3>2. QED
      BY <3>1, Zenon
  <2>3. ASSUME NEW c \in APs PROVE ~Passed(c)
    <3>1. c \in Nat /\ c > 0
      BY <2>2, Zenon
    <3>2. ~(c < 0) /\ c # 0
      BY <3>1
    <3>3. QED
      BY <3>2, <2>1, Zenon DEF Passed
  <2>4. QED
    BY <2>2, <2>3, Zenon DEF ApsInTurn
<1>4. StacksByIndex /\ EntriesById
  BY Zenon DEF StacksByIndex, EntriesById
<1>5. StartedByOwner
  BY DEF StartedByOwner
<1> QED
  BY <1>1, <1>2, <1>3, <1>4, <1>5 DEF BootInv

\* When the BSP leaves its waiting loop, it is cpus[i] that has arrived: the CPUs
\* before it have their indices for identifiers and those after it still wait.
LEMMA SpinEnds ==
  ASSUME BootInv, At(BSP, "spin"), started[i] = 1
  PROVE  pc[i] = "main" /\ ApicId[i] = i
<1>1. i \in APs /\ i \in 1 .. MAX_CPUS - 1
  BY Indices, CpuConstants DEF BootInv, InTurn, TypeOK, At, APs, BSP
<1>2. PICK c \in CPUs : ApicId[c] = i /\ pc[c] = "main"
  BY <1>1 DEF BootInv, StartedByOwner
<1>3. c \in APs
  BY <1>2, Indices DEF At, APs
<1>4. ~(c > i)
  BY <1>2, <1>3 DEF BootInv, ApsInTurn
<1>5. ~(c < i)
  <2> SUFFICES ASSUME c < i PROVE FALSE
    OBVIOUS
  <2>1. ApicId[c] = c
    BY <1>3 DEF BootInv, ApsInTurn, Passed
  <2> QED
    BY <2>1, <1>2, <1>1, Indices
<1>6. c = i
  BY <1>4, <1>5, <1>1, Indices
<1> QED
  BY <1>2, <1>6

\* Every step of every CPU preserves the invariant.
LEMMA BootInvStep == BootInv /\ [Next]_vars => BootInv'
<1> SUFFICES ASSUME BootInv, [Next]_vars PROVE BootInv'
  OBVIOUS
<1> USE Indices DEF At, Goto
<1>1. CASE cpu_start_aps_next
  <2> USE <1>1 DEF cpu_start_aps_next
  <2>1. TypeOK'
    <3>1. i' \in 0 .. num_cpus /\ mailbox' \in 0 .. num_cpus - 1
      BY DEF BootInv, TypeOK, InTurn
    <3> QED
      BY <3>1, Zenon DEF BootInv, TypeOK
  <2>2. InTurn'
    BY DEF BootInv, TypeOK, InTurn
  <2>3. ApsInTurn'
    BY DEF BootInv, TypeOK, InTurn, ApsInTurn, Passed, APs
  <2>4. StacksByIndex' /\ EntriesById'
    BY DEF BootInv, TypeOK, StacksByIndex, EntriesById, APs
  <2>5. StartedByOwner'
    BY DEF BootInv, TypeOK, StartedByOwner
  <2> QED
    BY <2>1, <2>2, <2>3, <2>4, <2>5 DEF BootInv
<1>2. ASSUME NEW label \in {"sipi1", "sipi2"}, NEW next \in {"sipi2", "spin"},
             lapic_start_ap(label, next)
      PROVE  BootInv'
  <2> USE <1>2 DEF lapic_start_ap
  <2>1. i \in APs /\ i # BSP
    BY CpuConstants DEF BootInv, TypeOK, InTurn, APs, BSP
  <2>2. \/ pc' = [pc EXCEPT ![BSP] = next]
        \/ pc' = [pc EXCEPT ![BSP] = next, ![i] = "trampoline"] /\ pc[i] = "wait"
    BY <2>1 DEF BootInv, TypeOK
  <2>3. TypeOK'
    BY <2>1, <2>2, ZenonT(60) DEF BootInv, TypeOK
  <2>4. InTurn'
    BY <2>1, <2>2 DEF BootInv, TypeOK, InTurn
  <2>5. ApsInTurn'
    BY <2>1, <2>2 DEF BootInv, TypeOK, InTurn, ApsInTurn, Passed, APs
  <2>6. StacksByIndex' /\ EntriesById'
    BY <2>1, <2>2 DEF BootInv, TypeOK, StacksByIndex, EntriesById, APs
  <2>7. StartedByOwner'
    BY <2>1, <2>2 DEF BootInv, TypeOK, StartedByOwner
  <2> QED
    BY <2>3, <2>4, <2>5, <2>6, <2>7 DEF BootInv
<1>3. CASE cpu_start_aps_spin
  <2> USE <1>3 DEF cpu_start_aps_spin
  <2>1. pc[i] = "main" /\ ApicId[i] = i
    BY SpinEnds
  <2>2. TypeOK' /\ InTurn'
    BY DEF BootInv, TypeOK, InTurn
  <2>3. ApsInTurn'
    BY <2>1 DEF BootInv, TypeOK, InTurn, ApsInTurn, Passed, APs
  <2>4. StacksByIndex' /\ EntriesById'
    BY DEF BootInv, TypeOK, StacksByIndex, EntriesById, APs
  <2>5. StartedByOwner'
    BY DEF BootInv, TypeOK, StartedByOwner
  <2> QED
    BY <2>2, <2>3, <2>4, <2>5 DEF BootInv
<1>4. ASSUME NEW c \in APs, apstart(c) PROVE BootInv'
  <2> USE <1>4 DEF apstart
  <2>1. c # BSP /\ c \in CPUs /\ ~Passed(c) /\ ~(c > i)
    BY DEF BootInv, ApsInTurn, APs
  <2>2. c = i /\ mailbox = c
    BY <2>1, CpuConstants DEF BootInv, TypeOK, InTurn, Passed
  <2>3. TypeOK' /\ InTurn'
    BY <2>1, <2>2 DEF BootInv, TypeOK, InTurn
  <2>4. ApsInTurn'
    BY <2>1 DEF BootInv, TypeOK, ApsInTurn, Passed, APs
  <2>5. StacksByIndex' /\ EntriesById'
    BY <2>1, <2>2 DEF BootInv, TypeOK, StacksByIndex, EntriesById, APs
  <2>6. StartedByOwner'
    BY <2>1 DEF BootInv, TypeOK, StartedByOwner
  <2> QED
    BY <2>3, <2>4, <2>5, <2>6 DEF BootInv
<1>5. ASSUME NEW c \in APs, gdt_install(c) PROVE BootInv'
  <2> USE <1>5 DEF gdt_install
  <2>1. c # BSP /\ c \in CPUs /\ ~Passed(c) /\ ~(c > i)
    BY DEF BootInv, ApsInTurn, APs
  <2>2. TypeOK' /\ InTurn'
    BY <2>1 DEF BootInv, TypeOK, InTurn
  <2>3. ApsInTurn'
    BY <2>1 DEF BootInv, TypeOK, ApsInTurn, Passed, APs
  <2>4. StacksByIndex' /\ EntriesById'
    BY <2>1 DEF BootInv, TypeOK, StacksByIndex, EntriesById, APs
  <2>5. StartedByOwner'
    BY <2>1 DEF BootInv, TypeOK, StartedByOwner
  <2> QED
    BY <2>2, <2>3, <2>4, <2>5 DEF BootInv
<1>6. ASSUME NEW c \in CPUs, cpu_common_main(c) PROVE BootInv'
  <2> USE <1>6 DEF cpu_common_main
  <2>1. cpu[c] = ApicId[c]
    BY DEF BootInv, EntriesById, APs
  <2>2. TypeOK'
    BY <2>1 DEF BootInv, TypeOK
  <2>3. InTurn'
    BY DEF BootInv, TypeOK, InTurn, ApsInTurn, APs
  <2>4. ApsInTurn'
    BY DEF BootInv, TypeOK, InTurn, ApsInTurn, Passed, APs
  <2>5. StacksByIndex' /\ EntriesById'
    BY <2>1 DEF BootInv, TypeOK, StacksByIndex, EntriesById, APs
  <2>6. StartedByOwner'
    BY <2>1 DEF BootInv, TypeOK, StartedByOwner
  <2> QED
    BY <2>2, <2>3, <2>4, <2>5, <2>6 DEF BootInv
<1>7. CASE UNCHANGED vars
  BY <1>7 DEF vars, BootInv, TypeOK, InTurn, ApsInTurn, Passed, StacksByIndex,
              EntriesById, StartedByOwner
<1> QED
  BY <1>1, <1>2, <1>3, <1>4, <1>5, <1>6, <1>7
  DEF Next, BspStep, ApStep, Finished

\* Under the invariant, the stacks are the indices of the CPUs that have one.
LEMMA BootInvStacks == BootInv => StackIsOwn
BY Indices DEF BootInv, StacksByIndex, StackIsOwn, APs

\* No two CPUs ever use one stack, for any number of CPUs up to MAX_CPUS and any APIC
\* identifiers, with startup interrupts lost or repeated (cpu_start_aps, boot_ap.s).
THEOREM BootStacksAreOwn == Spec => [](TypeOK /\ StackIsOwn)
<1>1. BootInv => TypeOK
  BY DEF BootInv
<1> QED
  BY BootInvInit, BootInvStep, BootInvStacks, <1>1, PTL DEF Spec

-----------------------------------------------------------------------------
(* CpuMain, for the CPUs that CpuBoot started.                             *)

\* There is a frame for every call of pmm_alloc_first.
EnoughFrames == FRAMES \in Nat /\ 2 * num_cpus <= FRAMES

\* A call of pmm_alloc_first: the CPU, and what it wants the frame for.
Requests == CPUs \X {"page", "table"}
FrameOf(r) == frame[r[1]][r[2]]

\* The calls that have marked their frame, and the frames they marked.
Stored ==
  {r \in Requests : IF want[r[1]] = r[2] THEN at[r[1]] \notin {"scan", "load", "store"}
                                         ELSE r[2] = "page"}
Taken == {FrameOf(r) : r \in Stored}

\* Bits are set for frames that were taken, although stores may clear them again, ...
MarksAreTaken ==
  /\ bitmap \subseteq {0} \cup Taken
  /\ \A c \in CPUs : word[c] \subseteq {0} \cup Taken

\* ... so that a search has passed only frames that were taken.
SearchPassedTaken ==
  \A r \in Requests \ Stored : \A k \in 1 .. FrameOf(r) - 1 : k \in Taken

\* A CPU that goes on has seen an entry in the directory or made one.
TableEntered ==
  \A c \in CPUs :
    /\ at[c] \in {"test", "clear", "set_pte", "write", "user", "panic"} => pde # None
    /\ at[c] = "set_pte" => window[c] # None

\* The table in the directory maps GB1, or a CPU is about to zero it, or has its
\* window on it and is about to fill it.
TableFilled ==
  pde # None =>
    \/ pte[pde] # None
    \/ \E c \in CPUs : at[c] = "clear" \/ (at[c] = "set_pte" /\ window[c] = pde)

MainInv ==
  MainTypeOK /\ MarksAreTaken /\ SearchPassedTaken /\ TableEntered /\ TableFilled

\* Fewer frames are passed than there are other calls: pigeons in holes.
LEMMA FramesSuffice ==
  ASSUME NEW r \in Requests \ Stored, NEW b \in Nat, \A k \in 1 .. b : k \in Taken
  PROVE  b + 1 <= 2 * num_cpus
<1>1. IsFiniteSet(CPUs) /\ Cardinality(CPUs) = num_cpus
  BY FS_Interval, CpuConstants
<1>2. IsFiniteSet({"page", "table"}) /\ Cardinality({"page", "table"}) = 2
  <2>1. IsFiniteSet({"page"}) /\ Cardinality({"page"}) = 1
    BY FS_Singleton, Zenon
  <2>2. {"page", "table"} = {"page"} \cup {"table"} /\ "table" \notin {"page"}
    OBVIOUS
  <2>3. /\ IsFiniteSet({"page"} \cup {"table"})
        /\ Cardinality({"page"} \cup {"table"}) =
             IF "table" \in {"page"} THEN Cardinality({"page"}) ELSE Cardinality({"page"}) + 1
    BY <2>1, FS_AddElement, Zenon
  <2>4. IsFiniteSet({"page", "table"}) /\ Cardinality({"page", "table"}) = Cardinality({"page"}) + 1
    BY <2>2, <2>3, Zenon
  <2>5. QED
    BY <2>1, <2>4
<1>3. IsFiniteSet(Requests) /\ Cardinality(Requests) = 2 * num_cpus
  <2>1. IsFiniteSet(Requests) /\ Cardinality(Requests) = Cardinality(CPUs) * Cardinality({"page", "table"})
    BY <1>1, <1>2, FS_Product, Zenon DEF Requests
  <2>2. num_cpus * 2 = 2 * num_cpus
    BY CpuConstants
  <2>3. QED
    BY <2>1, <2>2, <1>1, <1>2, Zenon
<1>4. IsFiniteSet(0 .. b) /\ Cardinality(0 .. b) = b + 1
  BY FS_Interval
<1> DEFINE g == [k \in 0 .. b |-> IF k = 0 THEN r ELSE CHOOSE q \in Stored : FrameOf(q) = k]
<1>5. ASSUME NEW k \in 0 .. b, k # 0 PROVE g[k] \in Stored /\ FrameOf(g[k]) = k
  <2>1. \E q \in Stored : FrameOf(q) = k
    BY <1>5 DEF Taken
  <2>2. QED
    BY <2>1, <1>5
<1>6. g[0] = r /\ g \in [0 .. b -> Requests]
  BY <1>5 DEF Stored
<1> HIDE DEF g
<1>7. \A x, y \in 0 .. b : g[x] = g[y] => x = y
  BY <1>5, <1>6
<1>8. ~(2 * num_cpus < b + 1)
  <2>1. SUFFICES ASSUME 2 * num_cpus < b + 1 PROVE FALSE
    OBVIOUS
  <2>2. Cardinality(Requests) < Cardinality(0 .. b)
    BY <2>1, <1>3, <1>4, Zenon
  <2>3. \E x, y \in 0 .. b : x # y /\ g[x] = g[y]
    BY <2>2, <1>3, <1>4, <1>6, FS_PigeonHole, Zenon
  <2>4. QED
    BY <2>3, <1>7, Zenon
<1>9. QED
  BY <1>8, CpuConstants

\* Nothing is mapped and nothing taken when the CPUs enter cpu_common_main.
LEMMA MainInvInit == ASSUME EnoughFrames PROVE MainInit => MainInv
<1> SUFFICES ASSUME MainInit PROVE MainInv
  OBVIOUS
<1> USE DEF MainInit, None
<1>1. MainTypeOK
  BY Indices DEF EnoughFrames, MainTypeOK, Frames, Other
<1>2. SearchPassedTaken /\ MarksAreTaken
  BY DEF SearchPassedTaken, MarksAreTaken, FrameOf, Requests
<1>3. TableEntered /\ TableFilled
  BY DEF TableEntered, TableFilled
<1>4. QED
  BY <1>1, <1>2, <1>3 DEF MainInv

\* A step of vmm_map_page or of the program leaves the search for frames alone.
LEMMA SearchKept ==
  ASSUME MainInv, NEW c \in CPUs,
         NEW label \in {"test", "clear", "set_pte", "write", "user", "panic"},
         at[c] \notin {"scan", "load", "store"}, at' = [at EXCEPT ![c] = label],
         UNCHANGED <<bitmap, word, want, frame>>
  PROVE  MarksAreTaken' /\ SearchPassedTaken'
<1>1. Stored' = Stored
  BY DEF Stored, Requests, MainInv, MainTypeOK
<1>2. Taken' = Taken
  BY <1>1 DEF Taken, FrameOf
<1>3. QED
  BY <1>1, <1>2 DEF MainInv, MarksAreTaken, SearchPassedTaken, FrameOf

\* A step of pmm_alloc_first leaves the tables alone.
LEMMA TablesKept ==
  ASSUME MainInv, NEW c \in CPUs, NEW label \in {"scan", "load", "store", "got"},
         at[c] \in {"scan", "load", "store", "got"}, at' = [at EXCEPT ![c] = label],
         UNCHANGED <<pde, window, pte>>
  PROVE  TableEntered' /\ TableFilled'
<1>1. \A d \in CPUs : at'[d] = at[d] \/ (at'[d] = label /\ d = c)
  BY DEF MainInv, MainTypeOK
<1>2. TableEntered'
  BY <1>1 DEF MainInv, TableEntered
<1>3. TableFilled'
  BY <1>1 DEF MainInv, TableFilled
<1>4. QED
  BY <1>2, <1>3

\* Frames that calls have marked stay taken.
LEMMA TakenKept ==
  ASSUME \A r \in Stored : r \in Stored' /\ FrameOf(r)' = FrameOf(r)
  PROVE  Taken \subseteq Taken'
BY DEF Taken

\* The three steps of pmm_alloc_first.
LEMMA AllocStep ==
  ASSUME EnoughFrames, MainInv, NEW c \in CPUs,
         \/ pmm_alloc_first_scan(c)
         \/ pmm_alloc_first_load(c)
         \/ pmm_alloc_first_store(c)
  PROVE  MainInv'
<1> USE DEF IsAt, GoesTo
<1> DEFINE block == frame[c][want[c]]
<1>0. PICK r : r = <<c, want[c]>>
  BY Zenon
<1>1. MainTypeOK
  BY DEF MainInv
<1>2. at[c] \in {"scan", "load", "store"}
  BY DEF pmm_alloc_first_scan, pmm_alloc_first_load, pmm_alloc_first_store
<1>3. r \in Requests \ Stored /\ FrameOf(r) = block
  BY <1>0, <1>1, <1>2 DEF Requests, Stored, FrameOf, MainTypeOK
<1>4. block \in Nat \ {0} /\ block <= FRAMES
  <2>1. block \in Frames \ {0}
    BY <1>1 DEF MainTypeOK
  <2>2. QED
    BY <2>1 DEF Frames, EnoughFrames
<1>5. CASE pmm_alloc_first_scan(c) /\ block \in bitmap
  <2>1. /\ frame' = [frame EXCEPT ![c][want[c]] = block + 1]
        /\ UNCHANGED <<at, bitmap, word, want, pde, window, pte>>
    BY <1>5 DEF pmm_alloc_first_scan
  <2>2. block \in Taken
    BY <1>4, <1>5 DEF MainInv, MarksAreTaken
  <2>3. \A k \in 1 .. block : k \in Taken
    BY <1>3, <1>4, <2>2 DEF MainInv, SearchPassedTaken
  <2>4. block + 1 <= FRAMES
    BY <2>3, <1>3, <1>4, FramesSuffice, Indices DEF EnoughFrames
  <2>5. MainTypeOK'
    <3>1. block + 1 \in Frames \ {0}
      BY <2>4, <1>4 DEF Frames, EnoughFrames
    <3>2. frame' \in [CPUs -> [page : Frames \ {0}, table : Frames \ {0}]]
      BY <3>1, <2>1, <1>1 DEF MainTypeOK
    <3>3. QED
      BY <3>2, <2>1, <1>1 DEF MainTypeOK
  <2>6. Stored' = Stored
    BY <2>1 DEF Stored
  <2>7. /\ FrameOf(r)' = block + 1
        /\ \A q \in Requests : q # r => FrameOf(q)' = FrameOf(q)
    BY <2>1, <1>0, <1>1 DEF FrameOf, Requests, MainTypeOK
  <2>8. Taken \subseteq Taken'
    BY <2>6, <2>7, <1>3, TakenKept DEF Stored
  <2>9. MarksAreTaken'
    BY <2>1, <2>8 DEF MainInv, MarksAreTaken
  <2>10. SearchPassedTaken'
    <3>1. ASSUME NEW q \in Requests \ Stored, NEW k \in 1 .. FrameOf(q)' - 1 PROVE k \in Taken
      <4>1. CASE q = r
        BY <4>1, <3>1, <2>3, <2>7, <1>4
      <4>2. CASE q # r
        BY <4>2, <3>1, <2>7 DEF MainInv, SearchPassedTaken
      <4>3. QED
        BY <4>1, <4>2
    <3>2. QED
      BY <3>1, <2>6, <2>8 DEF SearchPassedTaken
  <2>11. TableEntered' /\ TableFilled'
    BY <2>1 DEF MainInv, TableEntered, TableFilled
  <2>12. QED
    BY <2>5, <2>9, <2>10, <2>11 DEF MainInv
<1>6. CASE (pmm_alloc_first_scan(c) /\ block \notin bitmap) \/ pmm_alloc_first_load(c)
  <2>1. PICK label \in {"load", "store"} :
          /\ at' = [at EXCEPT ![c] = label]
          /\ UNCHANGED <<bitmap, want, frame, pde, window, pte>>
          /\ word' = word \/ word' = [word EXCEPT ![c] = bitmap]
    BY <1>6 DEF pmm_alloc_first_scan, pmm_alloc_first_load
  <2>2. MainTypeOK'
    BY <2>1, <1>1 DEF MainTypeOK
  <2>3. Stored' = Stored
    BY <2>1, <1>1, <1>2 DEF Stored, Requests, MainTypeOK
  <2>4. Taken' = Taken
    BY <2>1, <2>3 DEF Taken, FrameOf
  <2>5. MarksAreTaken'
    BY <2>1, <2>4, <1>1, Zenon DEF MainInv, MarksAreTaken, MainTypeOK
  <2>6. SearchPassedTaken'
    BY <2>1, <2>3, <2>4 DEF MainInv, SearchPassedTaken, FrameOf
  <2>7. TableEntered' /\ TableFilled'
    BY <2>1, <1>2, TablesKept, Zenon
  <2>8. QED
    BY <2>2, <2>5, <2>6, <2>7 DEF MainInv
<1>7. CASE pmm_alloc_first_store(c)
  <2>1. /\ bitmap' = word[c] \cup {block}
        /\ word' = [word EXCEPT ![c] = {}]
        /\ at' = [at EXCEPT ![c] = "got"]
        /\ UNCHANGED <<want, frame, pde, window, pte>>
    BY <1>7 DEF pmm_alloc_first_store
  <2>2. MainTypeOK'
    BY <2>1, <1>1, <1>4 DEF MainTypeOK, Frames, EnoughFrames
  <2>3. Stored' = Stored \cup {r}
    BY <2>1, <1>0, <1>1, <1>2 DEF Stored, Requests, MainTypeOK
  <2>4. Taken \subseteq Taken' /\ block \in Taken'
    BY <2>1, <2>3, <1>3 DEF Taken, FrameOf
  <2>5. MarksAreTaken'
    BY <2>1, <2>4, <1>1 DEF MainInv, MarksAreTaken, MainTypeOK
  <2>6. SearchPassedTaken'
    BY <2>1, <2>3, <2>4 DEF MainInv, SearchPassedTaken, FrameOf
  <2>7. TableEntered' /\ TableFilled'
    BY <2>1, <1>2, TablesKept, Zenon
  <2>8. QED
    BY <2>2, <2>5, <2>6, <2>7 DEF MainInv
<1>8. QED
  BY <1>5, <1>6, <1>7

\* The steps of vmm_map_page, up to the one that enters a table into the directory.
LEMMA MapStep ==
  ASSUME EnoughFrames, MainInv, NEW c \in CPUs,
         vmm_map_page(c) \/ vmm_map_page_test(c) \/ vmm_map_page_add(c)
  PROVE  MainInv'
<1> USE DEF IsAt, GoesTo, None
<1>1. MainTypeOK
  BY DEF MainInv
<1>2. CASE vmm_map_page(c) /\ pde = None
  <2>1. /\ at[c] = "got" /\ want[c] = "page"
        /\ want' = [want EXCEPT ![c] = "table"] /\ at' = [at EXCEPT ![c] = "scan"]
        /\ UNCHANGED <<bitmap, word, frame, pde, window, pte>>
    BY <1>2 DEF vmm_map_page
  <2>2. MainTypeOK'
    BY <2>1, <1>1 DEF MainTypeOK
  <2>3. Stored' = Stored
    BY <2>1, <1>1 DEF Stored, Requests, MainTypeOK
  <2>4. Taken' = Taken
    BY <2>1, <2>3 DEF Taken, FrameOf
  <2>5. MarksAreTaken' /\ SearchPassedTaken'
    BY <2>1, <2>3, <2>4 DEF MainInv, MarksAreTaken, SearchPassedTaken, FrameOf
  <2>6. TableEntered' /\ TableFilled'
    BY <2>1, TablesKept, Zenon
  <2>7. QED
    BY <2>2, <2>5, <2>6 DEF MainInv
<1>3. CASE vmm_map_page(c) /\ pde # None
  <2>1. /\ at[c] = "got" /\ at' = [at EXCEPT ![c] = "test"]
        /\ UNCHANGED <<bitmap, word, want, frame, pde, window, pte>>
    BY <1>3 DEF vmm_map_page
  <2>2. MainTypeOK'
    BY <2>1, <1>1 DEF MainTypeOK
  <2>3. MarksAreTaken' /\ SearchPassedTaken'
    BY <2>1, SearchKept, Zenon
  <2>4. TableEntered' /\ TableFilled'
    BY <2>1, <1>1, <1>3 DEF MainInv, TableEntered, TableFilled, MainTypeOK
  <2>5. QED
    BY <2>2, <2>3, <2>4 DEF MainInv
<1>4. CASE vmm_map_page_test(c)
  <2>1. at[c] = "test" /\ pde # None /\ pde \in Frames
    BY <1>1, <1>4 DEF vmm_map_page_test, MainInv, TableEntered, MainTypeOK
  <2>2. PICK label \in {"write", "set_pte"} :
          /\ at' = [at EXCEPT ![c] = label]
          /\ label = "set_pte" => window' = [window EXCEPT ![c] = pde]
          /\ label = "write" => window' = window
          /\ UNCHANGED <<bitmap, word, want, frame, pde, pte>>
    BY <1>4 DEF vmm_map_page_test
  <2>3. MainTypeOK'
    BY <2>1, <2>2, <1>1 DEF MainTypeOK
  <2>4. MarksAreTaken' /\ SearchPassedTaken'
    BY <2>1, <2>2, SearchKept, Zenon
  <2>5. TableEntered'
    BY <2>1, <2>2, <1>1 DEF MainInv, TableEntered, MainTypeOK
  <2>6. TableFilled'
    BY <2>1, <2>2, <1>1 DEF MainInv, TableFilled, MainTypeOK
  <2>7. QED
    BY <2>3, <2>4, <2>5, <2>6 DEF MainInv
<1>5. CASE vmm_map_page_add(c)
  <2>1. /\ at[c] = "got" /\ pde' = frame[c].table /\ at' = [at EXCEPT ![c] = "clear"]
        /\ UNCHANGED <<bitmap, word, want, frame, window, pte>>
    BY <1>5 DEF vmm_map_page_add
  <2>2. pde' \in Frames /\ pde' # None
    BY <2>1, <1>1 DEF MainTypeOK, Frames, EnoughFrames
  <2>3. MainTypeOK'
    BY <2>1, <2>2, <1>1 DEF MainTypeOK
  <2>4. MarksAreTaken' /\ SearchPassedTaken'
    BY <2>1, SearchKept, Zenon
  <2>5. TableEntered' /\ TableFilled'
    BY <2>1, <2>2, <1>1 DEF MainInv, TableEntered, TableFilled, MainTypeOK
  <2>6. QED
    BY <2>3, <2>4, <2>5 DEF MainInv
<1>6. QED
  BY <1>2, <1>3, <1>4, <1>5

\* The steps that zero and fill a table, and the program that is written over GB1.
LEMMA FillStep ==
  ASSUME EnoughFrames, MainInv, NEW c \in CPUs,
         vmm_map_page_clear(c) \/ vmm_map_page_set(c) \/ cpu_common_main_user(c)
  PROVE  MainInv'
<1> USE DEF IsAt, GoesTo
<1>1. MainTypeOK
  BY DEF MainInv
<1>2. /\ at[c] \in {"clear", "set_pte", "write"} /\ pde # None /\ pde \in Frames
      /\ UNCHANGED <<bitmap, word, want, frame, pde>>
  BY <1>1 DEF vmm_map_page_clear, vmm_map_page_set, cpu_common_main_user,
              MainInv, TableEntered, MainTypeOK
<1>3. CASE vmm_map_page_clear(c)
  <2>1. /\ window' = [window EXCEPT ![c] = pde] /\ pte' = [pte EXCEPT ![pde] = None]
        /\ at' = [at EXCEPT ![c] = "set_pte"]
    BY <1>3 DEF vmm_map_page_clear
  <2>2. MainTypeOK'
    BY <2>1, <1>1, <1>2 DEF MainTypeOK
  <2>3. MarksAreTaken' /\ SearchPassedTaken'
    BY <2>1, <1>2, SearchKept, Zenon
  <2>4. TableEntered' /\ TableFilled'
    BY <2>1, <1>1, <1>2 DEF MainInv, TableEntered, TableFilled, MainTypeOK
  <2>5. QED
    BY <2>2, <2>3, <2>4 DEF MainInv
<1>4. CASE vmm_map_page_set(c)
  <2>1. PICK t \in {window[c], pde} : pte' = [pte EXCEPT ![t] = frame[c].page]
    BY <1>4, Zenon DEF vmm_map_page_set
  <2>2. /\ at[c] = "set_pte" /\ window[c] \in Frames
        /\ window' = [window EXCEPT ![c] = None] /\ at' = [at EXCEPT ![c] = "write"]
    BY <1>1, <1>4 DEF vmm_map_page_set, MainInv, TableEntered, MainTypeOK
  <2>3. t \in Frames /\ frame[c].page \in Frames /\ frame[c].page # None
    BY <2>1, <2>2, <1>1, <1>2 DEF MainTypeOK, Frames, None, EnoughFrames
  <2>4. MainTypeOK'
    BY <2>1, <2>2, <2>3, <1>1, <1>2 DEF MainTypeOK
  <2>5. MarksAreTaken' /\ SearchPassedTaken'
    BY <2>2, <1>2, SearchKept, Zenon
  <2>6. TableEntered'
    BY <2>2, <1>1, <1>2 DEF MainInv, TableEntered, MainTypeOK
  <2>7. TableFilled'
    <3>1. CASE t = pde
      BY <3>1, <2>1, <2>3, <1>1, <1>2 DEF TableFilled, MainTypeOK
    <3>2. CASE t # pde
      <4>1. window[c] # pde /\ pte'[pde] = pte[pde]
        BY <3>2, <2>1, <2>3, <1>1, <1>2 DEF MainTypeOK
      <4>2. ASSUME NEW d \in CPUs,
                   at[d] = "clear" \/ (at[d] = "set_pte" /\ window[d] = pde)
            PROVE  at'[d] = at[d] /\ window'[d] = window[d]
        BY <4>1, <4>2, <2>2, <1>1 DEF MainTypeOK
      <4>3. QED
        BY <4>1, <4>2, <1>2 DEF MainInv, TableFilled
    <3>3. QED
      BY <3>1, <3>2
  <2>8. QED
    BY <2>4, <2>5, <2>6, <2>7 DEF MainInv
<1>5. CASE cpu_common_main_user(c)
  <2>1. PICK label \in {"panic", "user"} : at' = [at EXCEPT ![c] = label]
    BY <1>5 DEF cpu_common_main_user
  <2>2. at[c] = "write" /\ window' = window
    BY <1>5 DEF cpu_common_main_user
  <2>3. \/ pte' = pte
        \/ pte' = [f \in Frames |-> IF f = pte[pde] THEN Other ELSE pte[f]]
    BY <1>5 DEF cpu_common_main_user
  <2>4. pte' \in [Frames -> Frames \cup {None, Other}]
    BY <2>3, <1>1 DEF MainTypeOK
  <2>5. MainTypeOK'
    BY <2>1, <2>2, <2>4, <1>1, <1>2 DEF MainTypeOK
  <2>6. MarksAreTaken' /\ SearchPassedTaken'
    BY <2>1, <2>2, <1>2, SearchKept, Zenon
  <2>7. TableEntered'
    BY <2>1, <2>2, <1>1, <1>2 DEF MainInv, TableEntered, MainTypeOK
  <2>8. pte[pde] # None => pte'[pde] # None
    BY <2>3, <1>1, <1>2 DEF MainTypeOK, None, Other
  <2>9. TableFilled'
    BY <2>1, <2>2, <2>8, <1>1, <1>2 DEF MainInv, TableFilled, MainTypeOK
  <2>10. QED
    BY <2>5, <2>6, <2>7, <2>9 DEF MainInv
<1>6. QED
  BY <1>3, <1>4, <1>5

\* Every step of every CPU preserves the invariant.
LEMMA MainInvStep == ASSUME EnoughFrames PROVE MainInv /\ [MainNext]_mainvars => MainInv'
<1> SUFFICES ASSUME MainInv, [MainNext]_mainvars PROVE MainInv'
  OBVIOUS
<1>1. ASSUME NEW c \in CPUs, MainStep(c) PROVE MainInv'
  BY <1>1, AllocStep, MapStep, FillStep DEF MainStep
<1>2. CASE UNCHANGED mainvars
  BY <1>2 DEF mainvars, MainInv, MainTypeOK, MarksAreTaken, SearchPassedTaken, TableEntered,
              TableFilled, Taken, Stored, FrameOf
<1>3. QED
  BY <1>1, <1>2 DEF MainNext, MainFinished

\* Whatever the CPUs overwrite, GB1 is mapped when all have run cpu_common_main: for
\* any number of CPUs, if every one of them can have two frames.
THEOREM MappedInTheEnd ==
  ASSUME EnoughFrames
  PROVE  MainSpec => []PageEndsMapped
<1>1. MainInv => PageEndsMapped
  <2> SUFFICES ASSUME MainInv, MainDone PROVE pde # None /\ pte[pde] # None
    BY DEF MainInv, PageEndsMapped
  <2>1. pde # None
    BY Indices DEF MainDone, MainInv, TableEntered
  <2>2. QED
    BY <2>1 DEF MainDone, MainInv, TableFilled
<1>2. QED
  BY <1>1, MainInvInit, MainInvStep, PTL DEF MainSpec

-----------------------------------------------------------------------------
(* Spinlock, for every choice of the locks that CPUs and handlers ask for. *)

\* A lock is taken exactly when some context holds it.
TakenIsHeld ==
  \A l \in Locks : locked[l] = 1 <=> \E p \in Contexts : l \in holds[p]

\* A context asks for initiated locks of its kind only, and in order.
Disciplined ==
  \A p \in Contexts :
    /\ holds[p] \subseteq inited \cap Uses(p)
    /\ wants[p] # None => wants[p] \in inited \cap Uses(p)
    /\ Ordered /\ wants[p] # None => InOrder(p, wants[p])

\* A handler that does not run neither holds a lock nor asks for one.
HandlersAreDone ==
  \A c \in CPUs : c \notin irq => holds[Handler(c)] = {} /\ wants[Handler(c)] = None

LockInv ==
  LockTypeOK /\ MutualExclusion /\ TakenIsHeld /\ Disciplined /\ HandlersAreDone

\* The kinds of locks are part of Locks, and None is not a lock.
LEMMA LockFacts ==
  /\ Locks \subseteq Nat /\ None \notin Locks
  /\ \A l \in Locks : l <= 5
  /\ \A p \in Contexts : Uses(p) \subseteq Locks
BY LockConstants DEF lock_resource, Locks, None, Uses, Contexts

\* Handler and Main are contexts, and Active says which of them runs.
LEMMA ContextFacts ==
  /\ \A c \in CPUs : /\ Main(c) \in Contexts /\ Handler(c) \in Contexts
                     /\ Active(Main(c)) <=> c \notin irq
                     /\ Active(Handler(c)) <=> c \in irq
                     /\ Uses(Main(c)) = MainLocks
                     /\ Uses(Handler(c)) = HandlerLocks
  /\ \A p \in Contexts : \E c \in CPUs : p = Main(c) \/ p = Handler(c)
  /\ \A c, d \in CPUs : /\ Main(c) # Handler(d)
                        /\ Handler(c) = Handler(d) => c = d
BY DEF Main, Handler, Contexts, Active, Uses

\* Nobody holds or wants a lock at first.
LEMMA LockInvInit == LockInit => LockInv
<1> SUFFICES ASSUME LockInit PROVE LockInv
  OBVIOUS
<1>1. LockTypeOK
  BY LockConstants DEF LockInit, LockTypeOK
<1>2. MutualExclusion /\ TakenIsHeld
  BY DEF LockInit, MutualExclusion, TakenIsHeld
<1>3. Disciplined
  BY DEF LockInit, Disciplined
<1>4. HandlersAreDone
  BY ContextFacts DEF LockInit, HandlersAreDone
<1>5. QED
  BY <1>1, <1>2, <1>3, <1>4 DEF LockInv

\* Every step of the lock, of its callers and of interrupts preserves the invariant.
LEMMA LockInvStep ==
  LockInv /\ [LockNext]_lockvars => LockInv'
<1> SUFFICES ASSUME LockInv, [LockNext]_lockvars PROVE LockInv'
  OBVIOUS
<1> USE DEF LockInv
<1>1. ASSUME NEW l \in Locks, init_spinlock(l) PROVE LockInv'
  <2>1. \A p \in Contexts : l \notin holds[p]
    BY <1>1 DEF init_spinlock, Disciplined
  <2>2. LockTypeOK'
    BY <1>1 DEF init_spinlock, LockTypeOK
  <2>3. TakenIsHeld'
    BY <1>1, <2>1 DEF init_spinlock, LockTypeOK, TakenIsHeld
  <2>4. MutualExclusion'
    BY <1>1 DEF init_spinlock, MutualExclusion
  <2>5. Disciplined'
    BY <1>1 DEF init_spinlock, Disciplined, InOrder
  <2>6. HandlersAreDone'
    BY <1>1 DEF init_spinlock, HandlersAreDone
  <2>7. QED
    BY <2>2, <2>3, <2>4, <2>5, <2>6
<1>2. ASSUME NEW p \in Contexts, NEW l \in Locks, spinlock_acquire(p, l)
      PROVE  LockInv'
  <2>1. /\ l \in inited \cap Uses(p) /\ (Ordered => InOrder(p, l)) /\ Active(p)
        /\ wants' = [wants EXCEPT ![p] = l]
        /\ UNCHANGED <<locked, inited, holds, irq, enabled>>
    BY <1>2 DEF spinlock_acquire, pushcli, Runs
  <2>2. LockTypeOK'
    BY <2>1 DEF LockTypeOK
  <2>3. MutualExclusion' /\ TakenIsHeld'
    BY <2>1 DEF MutualExclusion, TakenIsHeld
  <2>4. Disciplined'
    BY <2>1 DEF Disciplined, InOrder, LockTypeOK
  <2>5. HandlersAreDone'
    BY <2>1, ContextFacts DEF HandlersAreDone, LockTypeOK
  <2>6. QED
    BY <2>2, <2>3, <2>4, <2>5
<1>3. ASSUME NEW p \in Contexts, alock(p) PROVE LockInv'
  <2> DEFINE l == wants[p]
  <2>1. /\ Active(p) /\ l # None /\ locked[l] = 0
        /\ locked' = [locked EXCEPT ![l] = 1]
        /\ holds' = [holds EXCEPT ![p] = @ \cup {l}]
        /\ wants' = [wants EXCEPT ![p] = None]
        /\ UNCHANGED <<inited, irq, enabled>>
    BY <1>3 DEF alock
  <2>2. l \in Locks /\ l \in inited \cap Uses(p)
    BY <2>1 DEF LockTypeOK, Disciplined
  <2>3. \A q \in Contexts : l \notin holds[q]
    BY <2>1, <2>2 DEF TakenIsHeld
  <2>4. LockTypeOK'
    BY <2>1, <2>2 DEF LockTypeOK
  <2> HIDE DEF l
  <2>5. /\ holds'[p] = holds[p] \cup {l}
        /\ \A q \in Contexts : q # p => holds'[q] = holds[q]
    BY <2>1 DEF LockTypeOK
  <2>6. MutualExclusion'
    BY <2>3, <2>5 DEF MutualExclusion
  <2>7. TakenIsHeld'
    <3>1. locked'[l] = 1 /\ \A k \in Locks : k # l => locked'[k] = locked[k]
      BY <2>1, <2>2 DEF LockTypeOK
    <3>2. QED
      BY <3>1, <2>3, <2>5 DEF TakenIsHeld
  <2>8. Disciplined'
    <3>1. /\ wants'[p] = None
          /\ \A q \in Contexts : q # p => wants'[q] = wants[q]
      BY <2>1 DEF LockTypeOK
    <3>2. QED
      BY <3>1, <2>1, <2>2, <2>5 DEF Disciplined, InOrder
  <2>9. HandlersAreDone'
    BY <2>1, ContextFacts DEF HandlersAreDone, LockTypeOK
  <2>10. QED
    BY <2>4, <2>6, <2>7, <2>8, <2>9
<1>4. ASSUME NEW p \in Contexts, NEW l \in Locks, spinlock_release(p, l)
      PROVE  LockInv'
  <2>1. /\ Active(p) /\ wants[p] = None /\ l \in holds[p]
        /\ locked' = [locked EXCEPT ![l] = 0]
        /\ holds' = [holds EXCEPT ![p] = @ \ {l}]
        /\ UNCHANGED <<inited, wants, irq, enabled>>
    BY <1>4 DEF spinlock_release, popcli, Runs
  <2>2. LockTypeOK'
    BY <2>1 DEF LockTypeOK
  <2>3. /\ holds'[p] = holds[p] \ {l}
        /\ \A q \in Contexts : q # p => holds'[q] = holds[q]
    BY <2>1 DEF LockTypeOK
  <2>4. MutualExclusion'
    BY <2>3 DEF MutualExclusion
  <2>5. TakenIsHeld'
    <3>1. locked'[l] = 0 /\ \A k \in Locks : k # l => locked'[k] = locked[k]
      BY <2>1 DEF LockTypeOK
    <3>2. \A q \in Contexts : q # p => l \notin holds[q]
      BY <2>1 DEF MutualExclusion
    <3>3. QED
      BY <3>1, <3>2, <2>3 DEF TakenIsHeld
  <2>6. Disciplined'
    BY <2>1, <2>3 DEF Disciplined, InOrder
  <2>7. HandlersAreDone'
    BY <2>1, <2>3, ContextFacts DEF HandlersAreDone
  <2>8. QED
    BY <2>2, <2>4, <2>5, <2>6, <2>7
<1>5. ASSUME NEW c \in CPUs, Interrupt(c) PROVE LockInv'
  BY <1>5 DEF Interrupt, LockTypeOK, MutualExclusion, TakenIsHeld, Disciplined,
              InOrder, HandlersAreDone
<1>6. ASSUME NEW c \in CPUs, InterruptReturn(c) PROVE LockInv'
  BY <1>6 DEF InterruptReturn, Runs, LockTypeOK, MutualExclusion, TakenIsHeld,
              Disciplined, InOrder, HandlersAreDone
<1>7. CASE UNCHANGED lockvars
  BY <1>7 DEF lockvars, LockTypeOK, MutualExclusion, TakenIsHeld, Disciplined, InOrder,
              HandlersAreDone
<1>8. QED
  BY <1>1, <1>2, <1>3, <1>4, <1>5, <1>6, <1>7 DEF LockNext, LockStep

\* If every active context of a set D spins for a taken lock, then the holder of
\* the greatest of these locks is not in D: it would spin for a greater one.
LEMMA GreatestWanted ==
  ASSUME LockInv, Ordered, NEW D \in SUBSET Contexts, D # {},
         \A p \in D : wants[p] # None /\ locked[wants[p]] = 1
  PROVE  \E p \in D : \E q \in Contexts \ D : wants[p] \in holds[q]
<1> DEFINE W == {wants[p] : p \in D}
<1>1. \A p \in D : wants[p] \in Locks
  BY DEF LockInv, LockTypeOK
<1>2. W \in SUBSET Nat /\ W # {} /\ \A l \in W : l <= 5
  BY <1>1, LockFacts, Zenon
<1>3. \E l \in W : \A k \in W : k <= l
  BY <1>2, GreatestElement, Zenon
<1>4. PICK p \in D : \A q \in D : wants[q] <= wants[p]
  BY <1>3
<1>5. PICK q \in Contexts : wants[p] \in holds[q]
  BY <1>1 DEF LockInv, TakenIsHeld
<1>6. q \notin D
  <2>1. SUFFICES ASSUME q \in D PROVE FALSE
    OBVIOUS
  <2>2. wants[p] < wants[q]
    BY <2>1, <1>5 DEF LockInv, Disciplined, InOrder
  <2>3. wants[q] <= wants[p] /\ wants[p] \in Nat /\ wants[q] \in Nat
    BY <2>1, <1>1, <1>4, LockFacts, Zenon
  <2>4. QED
    BY <2>2, <2>3
<1>7. QED
  BY <1>4, <1>5, <1>6

\* Callers that keep to the order do not deadlock.
LEMMA LockInvNoDeadlock == LockInv => SomeoneRuns
<1> SUFFICES ASSUME LockInv, Ordered, MainLocks \cap HandlerLocks = {}, CPUs # {},
                    \A p \in Contexts :
                      Active(p) => wants[p] # None /\ locked[wants[p]] # 0
             PROVE  FALSE
  BY DEF SomeoneRuns
<1>1. ASSUME NEW p \in Contexts, Active(p)
      PROVE  wants[p] # None /\ wants[p] \in Uses(p) /\ locked[wants[p]] = 1
  <2>1. wants[p] # None /\ locked[wants[p]] # 0
    BY <1>1
  <2>2. wants[p] \in Uses(p) /\ wants[p] \in Locks
    BY <2>1 DEF LockInv, Disciplined, LockTypeOK
  <2>3. QED
    BY <2>1, <2>2 DEF LockInv, LockTypeOK
<1>2. \A q \in Contexts : holds[q] \subseteq Uses(q)
  BY DEF LockInv, Disciplined
<1>3. irq \subseteq CPUs
  BY DEF LockInv, LockTypeOK
<1>4. CASE irq # {}
  <2> DEFINE D == {Handler(c) : c \in irq}
  <2>1. D \in SUBSET Contexts /\ D # {} /\ \A p \in D : Active(p)
    BY <1>3, <1>4, ContextFacts
  <2>2. \A p \in D : wants[p] # None /\ locked[wants[p]] = 1
    BY <2>1, <1>1
  <2>3. PICK p \in D, q \in Contexts \ D : wants[p] \in holds[q]
    <3> HIDE DEF D
    <3>1. QED
      BY <2>1, <2>2, GreatestWanted
  <2>4. wants[p] \in HandlerLocks
    BY <2>1, <1>1, <1>3, ContextFacts, Zenon
  <2>5. PICK c \in CPUs : q = Main(c) \/ q = Handler(c)
    BY ContextFacts
  <2>6. CASE q = Main(c)
    BY <2>3, <2>4, <2>6, <1>2, ContextFacts
  <2>7. CASE q = Handler(c)
    <3>1. c \notin irq
      BY <2>3, <2>7
    <3>2. holds[q] = {}
      BY <3>1, <2>7 DEF LockInv, HandlersAreDone
    <3>3. QED
      BY <3>2, <2>3
  <2>8. QED
    BY <2>5, <2>6, <2>7
<1>5. CASE irq = {}
  <2> DEFINE D == {Main(c) : c \in CPUs}
  <2>1. D \in SUBSET Contexts /\ D # {} /\ \A p \in D : Active(p)
    BY <1>5, ContextFacts
  <2>2. \A p \in D : wants[p] # None /\ locked[wants[p]] = 1
    BY <2>1, <1>1
  <2>3. PICK p \in D, q \in Contexts \ D : wants[p] \in holds[q]
    <3> HIDE DEF D
    <3>1. QED
      BY <2>1, <2>2, GreatestWanted
  <2>4. PICK c \in CPUs : q = Handler(c)
    BY <2>3, ContextFacts
  <2>5. holds[q] = {}
    BY <2>4, <1>5, Zenon DEF LockInv, HandlersAreDone
  <2>6. QED
    BY <2>3, <2>5
<1>6. QED
  BY <1>4, <1>5

\* The spinlock excludes, for every number of CPUs, also when the holder or the one
\* that spins is interrupted.
THEOREM SpinlockExcludes ==
  LockSpec => [](LockTypeOK /\ MutualExclusion)
<1>1. LockInv => LockTypeOK /\ MutualExclusion
  BY DEF LockInv
<1>2. QED
  BY <1>1, LockInvInit, LockInvStep, PTL DEF LockSpec

\* The order of lock_resource, which the code does not enforce, is enough for CPUs
\* that keep to it: they never all wait for each other.
THEOREM OrderPreventsDeadlock ==
  LockSpec => []SomeoneRuns
BY LockInvNoDeadlock, LockInvInit, LockInvStep, PTL DEF LockSpec
=============================================================================
