------------------------------ MODULE CpuMain ------------------------------
(***************************************************************************)
(* cpu_common_main of src/sys/cpu.c, as all CPUs run it at the same time:  *)
(* each takes a frame, maps it at GB1 in the directory they share, writes  *)
(* a program there and starts it.  No lock is held, so that the steps of   *)
(* pmm_alloc_first and vmm_map_page are interleaved.  What a CPU has       *)
(* loaded or cached is forgotten when it is not used any more.             *)
(***************************************************************************)
EXTENDS Cpus

CONSTANT
  FRAMES   \* frames 1 .. FRAMES, of one byte of the bitmap, are free at the start

Other == -2   \* a frame that is not one of these
Frames == 0 .. FRAMES

ASSUME MainConstants == FRAMES \in Nat

VARIABLES
  at,        \* where each CPU is
  bitmap,    \* frames marked as taken
  word,      \* the byte a CPU has loaded to set a bit of it
  want,      \* what a CPU calls pmm_alloc_first for
  frame,     \* the frames a CPU looks at or got
  pde,       \* the directory entry of GB1: its table
  window,    \* the table a CPU cached when it accessed its window
  pte        \* the entry of GB1 in each frame that may be its table

mainvars == <<at, bitmap, word, want, frame, pde, window, pte>>

IsAt(c, label) == at[c] = label
GoesTo(c, label) == at' = [at EXCEPT ![c] = label]

\* A frame that was never a table has an arbitrary entry.
MainInit ==
  /\ at = [c \in CPUs |-> "scan"]
  /\ bitmap = {0}
  /\ word = [c \in CPUs |-> {}]
  /\ want = [c \in CPUs |-> "page"]
  /\ frame = [c \in CPUs |-> [page |-> 1, table |-> 1]]
  /\ pde = None
  /\ window = [c \in CPUs |-> None]
  /\ \E garbage \in {None, Other} : pte = [f \in Frames |-> garbage]

-----------------------------------------------------------------------------
(* pmm_alloc_first.                                                        *)

\* Test the bits one by one, then load the byte that has the first
\* free one and store it with the bit set.
pmm_alloc_first_scan(c) ==
  LET block == frame[c][want[c]]
  IN /\ IsAt(c, "scan")
     /\ IF block \in bitmap
        THEN frame' = [frame EXCEPT ![c][want[c]] = block + 1] /\ UNCHANGED at
        ELSE GoesTo(c, "load") /\ UNCHANGED frame
     /\ UNCHANGED <<bitmap, word, want, pde, window, pte>>

pmm_alloc_first_load(c) ==
  /\ IsAt(c, "load")
  /\ word' = [word EXCEPT ![c] = bitmap]
  /\ GoesTo(c, "store")
  /\ UNCHANGED <<bitmap, want, frame, pde, window, pte>>

pmm_alloc_first_store(c) ==
  /\ IsAt(c, "store")
  /\ bitmap' = word[c] \cup {frame[c][want[c]]}
  /\ word' = [word EXCEPT ![c] = {}]
  /\ GoesTo(c, "got")
  /\ UNCHANGED <<want, frame, pde, window, pte>>

-----------------------------------------------------------------------------
(* vmm_map_page.                                                           *)

\* Is the directory entry present?
vmm_map_page(c) ==
  /\ IsAt(c, "got")
  /\ want[c] = "page"
  /\ IF pde # None
     THEN GoesTo(c, "test") /\ UNCHANGED want
     ELSE want' = [want EXCEPT ![c] = "table"] /\ GoesTo(c, "scan")
  /\ UNCHANGED <<bitmap, word, frame, pde, window, pte>>

\* It is: is the page in use?
vmm_map_page_test(c) ==
  /\ IsAt(c, "test")
  /\ IF pte[pde] # None
     THEN GoesTo(c, "write") /\ UNCHANGED window
     ELSE GoesTo(c, "set_pte") /\ window' = [window EXCEPT ![c] = pde]
  /\ UNCHANGED <<bitmap, word, want, frame, pde, pte>>

\* It is not: the new table is entered into the directory, then zeroed.
vmm_map_page_add(c) ==
  /\ IsAt(c, "got")
  /\ want[c] = "table"
  /\ pde' = frame[c].table
  /\ GoesTo(c, "clear")
  /\ UNCHANGED <<bitmap, word, want, frame, window, pte>>

\* Mutant: the page is not entered into the new table.
vmm_map_page_clear_only(c) ==
  /\ IsAt(c, "clear")
  /\ window' = [window EXCEPT ![c] = pde]
  /\ pte' = [pte EXCEPT ![pde] = None]
  /\ GoesTo(c, "write")
  /\ UNCHANGED <<bitmap, word, want, frame, pde>>

vmm_map_page_clear(c) ==
  /\ IsAt(c, "clear")
  /\ window' = [window EXCEPT ![c] = pde]
  /\ pte' = [pte EXCEPT ![pde] = None]
  /\ GoesTo(c, "set_pte")
  /\ UNCHANGED <<bitmap, word, want, frame, pde>>

\* The CPU may have dropped the cached translation of the window.
vmm_map_page_set(c) ==
  /\ IsAt(c, "set_pte")
  /\ \E t \in {window[c], pde} : pte' = [pte EXCEPT ![t] = frame[c].page]
  /\ window' = [window EXCEPT ![c] = None]
  /\ GoesTo(c, "write")
  /\ UNCHANGED <<bitmap, word, want, frame, pde>>

-----------------------------------------------------------------------------
(* The result of vmm_map_page is ignored.  The program is written to GB1,  *)
(* over the first word of the frame, and is started; as an entry, that     *)
(* word has the present bit.  A page fault raises PANIC.                   *)

cpu_common_main_user(c) ==
  /\ IsAt(c, "write")
  /\ IF pte[pde] = None
     THEN GoesTo(c, "panic") /\ UNCHANGED pte
     ELSE /\ GoesTo(c, "user")
          /\ pte' = [f \in Frames |-> IF f = pte[pde] THEN Other ELSE pte[f]]
  /\ UNCHANGED <<bitmap, word, want, frame, pde, window>>

-----------------------------------------------------------------------------
MainStep(c) ==
  \/ pmm_alloc_first_scan(c) \/ pmm_alloc_first_load(c) \/ pmm_alloc_first_store(c)
  \/ vmm_map_page(c) \/ vmm_map_page_test(c) \/ vmm_map_page_add(c)
  \/ vmm_map_page_clear(c) \/ vmm_map_page_set(c)
  \/ cpu_common_main_user(c)

MainDone == \A c \in CPUs : at[c] \in {"user", "panic"}
MainFinished == MainDone /\ UNCHANGED mainvars

MainNext == (\E c \in CPUs : MainStep(c)) \/ MainFinished

MainSpec == MainInit /\ [][MainNext]_mainvars

-----------------------------------------------------------------------------
(* What holds without a lock.                                              *)

MainTypeOK ==
  /\ at \in [CPUs -> {"scan", "load", "store", "got", "test", "clear", "set_pte",
                      "write", "user", "panic"}]
  /\ bitmap \subseteq Frames
  /\ word \in [CPUs -> SUBSET Frames]
  /\ want \in [CPUs -> {"page", "table"}]
  /\ frame \in [CPUs -> [page : Frames \ {0}, table : Frames \ {0}]]
  /\ pde \in Frames \cup {None}
  /\ window \in [CPUs -> Frames \cup {None}]
  /\ pte \in [Frames -> Frames \cup {None, Other}]

\* Whatever tables the CPUs entered over each other, GB1 is mapped once all have
\* gone through vmm_map_page: the last directory entry has a table that was filled
\* after it was zeroed.  No CPU takes frame 0 or one that does not exist.
PageEndsMapped == MainTypeOK /\ (MainDone => pde # None /\ pte[pde] # None)

-----------------------------------------------------------------------------
(* What the documentation says, and the code does not do.                  *)

\* doxygen.h: "The locking mechanism ensures that resources are accesed in a safe
\* manner."  pmm_alloc_first gives a frame to one CPU only.
FrameIsOwn ==
  \A c, d \in CPUs :
    /\ c # d
    /\ at[c] \in {"test", "set_pte", "write", "user"}
    /\ at[d] \in {"test", "set_pte", "write", "user"}
    => frame[c].page # frame[d].page
=============================================================================
