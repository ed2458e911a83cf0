------------------------------ MODULE Process -------------------------------
(***************************************************************************)
(* src/sys/process.c on one CPU: process_init, fork, the first program of  *)
(* process_start_usermode, and switch_task, which the timer interrupt      *)
(* calls, with vmm_create_address_space and vmm_switch_pdir of vmm.c and   *)
(* change_tss of gdt.c.  kmain calls process_init only; fork and           *)
(* process_start_usermode are the operations offered beside it.            *)
(*                                                                         *)
(* A process is its pid.  The page of its kernel stack, with the registers *)
(* it continues with at the top, is PROC_VMM_START + pid * KSTACKSZ.  The   *)
(* pages of all pids are in one page table.  heap_malloc is taken to have   *)
(* room for the control blocks.                                             *)
(***************************************************************************)
EXTENDS Integers

CONSTANTS
  PROC_MAX_PID,   \* the first pid that is refused
  FRAMES          \* at most this many frames are free at the start

ASSUME ProcessConstants == PROC_MAX_PID \in Nat \ {0, 1} /\ FRAMES \in Nat

VARIABLES
  pc,             \* where the kernel is: in kmain, running, in fork or stopped
  int,            \* the interrupt flag
  last_pid,
  pcbs,           \* the process control blocks
  proc_current, proc_list,
  window,         \* the stack pages that are mapped
  table,          \* where their page table is
  content,        \* what each of them holds at its top
  free,           \* frames left
  esp0,           \* the stack of the TSS, by the pid it belongs to
  cr3             \* the directory in use

vars == <<pc, int, last_pid, pcbs, proc_current, proc_list, window, table, content, free, esp0, cr3>>

None == 0
Pids == 1 .. PROC_MAX_PID - 1
KernelDir == "kernel_dir"
Code == "pmm_alloc_first"    \* not a frame: the address of the function
PROC_RUNNING == "running"
PROC_READY == "ready"

Init ==
  /\ pc = "process_init"
  /\ int = FALSE
  /\ last_pid = 0
  /\ pcbs = [p \in {} |-> None]
  /\ proc_current = None /\ proc_list = None
  /\ window = {}
  /\ table = "absent"
  /\ content = [p \in {} |-> None]
  /\ free \in 0 .. FRAMES
  /\ esp0 = None
  /\ cr3 = KernelDir

-----------------------------------------------------------------------------
With(f, p, v) == [q \in DOMAIN f \union {p} |-> IF q = p THEN v ELSE f[q]]

\* PROC_VMM_START + last_pid * KSTACKSZ
StackPage(p) == p

\* alloc_proc panics when the pids or the frames are used up, or when the
\* page of the stack is mapped already.
NoProcess(p) == p >= PROC_MAX_PID \/ free = 0 \/ StackPage(p) \in window

PANIC == pc' = "panic" /\ UNCHANGED <<pcbs, window, table, content, free>>

\* One frame for the stack and, if there is no page table for it yet, one for the
\* table, which vmm_map_page does not check: with none left, page 0 becomes the
\* table and is cleared, and with it the bitmap of the frames.
map_stack ==
  \/ table # "absent" /\ table' = table /\ free' = free - 1
  \/ table = "absent" /\ free > 1 /\ table' = "frame" /\ free' = free - 2
  \/ table = "absent" /\ free = 1 /\ table' = "page 0" /\ free' = FRAMES

\* A pid, its control block and a stack; the callers say what is on the stack.
alloc_proc(p, pcb) ==
  /\ last_pid' = p
  /\ pcbs' = With(pcbs, p, pcb)
  /\ window' = window \union {StackPage(p)}
  /\ map_stack

process_init ==
  /\ pc = "process_init"
  /\ IF NoProcess(1)
     THEN PANIC /\ last_pid' = 1 /\ UNCHANGED <<proc_current, esp0>>
     ELSE /\ alloc_proc(1, [state |-> PROC_RUNNING, dirtable |-> cr3, next |-> 1])
          /\ content' = With(content, StackPage(1), "process_dummy")
          /\ proc_current' = 1
          /\ esp0' = 1
          /\ pc' = "kmain"
  /\ UNCHANGED <<int, proc_list, cr3>>

\* vmm_create_address_space(virt): the code it should map stays unmapped
\* when the page is in use, then the page is filled with a directory.
create_address_space(mem, page) == [mem EXCEPT ![page] = "directory"]

\* A second call puts its process in the place of the first one.
process_start_usermode ==
  LET p == last_pid + 1
  IN /\ pc = "kmain"
     /\ IF NoProcess(p)
        THEN PANIC /\ last_pid' = p /\ UNCHANGED proc_list
        ELSE /\ alloc_proc(p, [state |-> PROC_READY, dirtable |-> Code, next |-> p])
             /\ content' = create_address_space(With(content, StackPage(p), "usermode"), StackPage(p))
             /\ proc_list' = p
             /\ UNCHANGED pc
     /\ UNCHANGED <<int, proc_current, esp0, cr3>>

enable_int ==
  /\ pc = "kmain"
  /\ pc' = "run" /\ int' = TRUE
  /\ UNCHANGED <<last_pid, pcbs, proc_current, proc_list, window, table, content, free, esp0, cr3>>

-----------------------------------------------------------------------------
(* fork, and the timer.                                                    *)

\* Mutant: interrupts stay on.
fork_enabled ==
  /\ pc = "run"
  /\ pc' = "alloc"
  /\ UNCHANGED <<int, last_pid, pcbs, proc_current, proc_list, window, table, content, free, esp0, cr3>>

fork ==
  /\ pc = "run"
  /\ pc' = "alloc" /\ int' = FALSE
  /\ UNCHANGED <<last_pid, pcbs, proc_current, proc_list, window, table, content, free, esp0, cr3>>

\* alloc_proc, then the registers of the parent with another eip.
fork_alloc ==
  LET p == last_pid + 1
  IN /\ pc = "alloc"
     /\ IF NoProcess(p)
        THEN PANIC /\ last_pid' = p
        ELSE /\ alloc_proc(p, [state |-> PROC_READY, dirtable |-> KernelDir, next |-> p])
             /\ content' = With(content, StackPage(p), "return_fork")
             /\ pc' = "space"
     /\ UNCHANGED <<int, proc_current, proc_list, esp0, cr3>>

\* The virtual address it passes is the one of the new stack.
fork_space ==
  /\ pc = "space"
  /\ content' = create_address_space(content, StackPage(last_pid))
  /\ pcbs' = [pcbs EXCEPT ![last_pid].dirtable = Code]
  /\ pc' = "link"
  /\ UNCHANGED <<int, last_pid, proc_current, proc_list, window, table, free, esp0, cr3>>

\* Mutant: the new process is not linked to the one after the parent.
fork_link_short ==
  /\ pc = "link"
  /\ pcbs' = [pcbs EXCEPT ![proc_current].next = last_pid]
  /\ pc' = "run" /\ int' = TRUE
  /\ UNCHANGED <<last_pid, proc_current, proc_list, window, table, content, free, esp0, cr3>>

fork_link ==
  /\ pc = "link"
  /\ pcbs' = [pcbs EXCEPT ![last_pid].next = pcbs[proc_current].next,
                          ![proc_current].next = last_pid]
  /\ pc' = "run" /\ int' = TRUE
  /\ UNCHANGED <<last_pid, proc_current, proc_list, window, table, content, free, esp0, cr3>>

\* Mutant: the process that is interrupted stays marked as running.
switch_states_kept(old, new) == [pcbs EXCEPT ![new].state = PROC_RUNNING]

switch_states(old, new) ==
  [pcbs EXCEPT ![old].state = PROC_READY, ![new].state = PROC_RUNNING]

\* The timer interrupt: intr_handler calls switch_task, which swaps the two
\* processes.  The stub has loaded gs with the flat segment, so that cpu in
\* change_tss is not the entry of this CPU and its TSS keeps its stack.  A
\* directory that is none is the end of this machine.
switch_task ==
  /\ int /\ pc # "reset" /\ pc # "panic"
  /\ IF proc_list = None
     THEN UNCHANGED vars
     ELSE /\ content' = [content EXCEPT ![proc_current] = "saved"]
          /\ pcbs' = switch_states(proc_current, proc_list)
          /\ proc_current' = proc_list
          /\ proc_list' = proc_current
          /\ cr3' = pcbs[proc_list].dirtable
          /\ pc' = IF cr3' = Code THEN "reset" ELSE pc
          /\ UNCHANGED <<int, last_pid, window, table, free, esp0>>

\* while(1) of panic, and a machine that was reset.
Stopped == pc \in {"panic", "reset"} /\ UNCHANGED vars

Next ==
  \/ process_init \/ process_start_usermode \/ enable_int
  \/ fork \/ fork_alloc \/ fork_space \/ fork_link
  \/ switch_task \/ Stopped

Spec == Init /\ [][Next]_vars

-----------------------------------------------------------------------------
(* What the processes promise.                                             *)

Forking == pc \in {"alloc", "space", "link"}
Linked == DOMAIN pcbs \ (IF pc \in {"space", "link"} THEN {last_pid} ELSE {})

TypeOK ==
  /\ DOMAIN pcbs \subseteq Pids
  /\ proc_current \in DOMAIN pcbs \union {None}
  /\ proc_list \in DOMAIN pcbs \union {None}
  /\ free \in 0 .. FRAMES
  /\ last_pid \in 0 .. PROC_MAX_PID

\* What runs is proc_current and nothing else, and until the machine stops
\* an interrupt of it starts on its kernel stack (process_init, switch_task,
\* change_tss).
OneIsRunning ==
  /\ \A p \in DOMAIN pcbs : pcbs[p].state = PROC_RUNNING <=> p = proc_current
  /\ pc # "reset" => esp0 = proc_current

\* next of the processes that are linked is a permutation: each is the next
\* of exactly one, so that none is lost and the ring is closed (fork).
RingIsClosed ==
  pc # "panic" => \A p \in Linked : \E q \in Linked : pcbs[q].next = p

\* The timer never switches processes in the middle of a fork, which uses
\* proc_current at its start and at its end (real_fork).
NoSwitchInFork == [][Forking => proc_current' = proc_current]_vars

-----------------------------------------------------------------------------
(* What a comment says, and the code does not do.                          *)

\* alloc_proc: "Set up the return stack, so it returns to the correct place".
\* vmm_create_address_space is called with the page of that stack and builds the
\* directory of the process over it.
ReturnStackIsSet ==
  \A p \in Linked \ {proc_current} : content[StackPage(p)] # "directory"

=============================================================================
