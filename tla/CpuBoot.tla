------------------------------ MODULE CpuBoot ------------------------------
(***************************************************************************)
(* The boot processor (BSP) starts the application processors (APs) one by *)
(* one, src/sys/cpu.c, src/arch/x86/lapic.c and boot_ap.s, until each has  *)
(* announced itself in cpu_common_main; CpuMain goes on from there.        *)
(*                                                                         *)
(* A CPU is its index in cpus[]; the BSP is 0.  The table has an APIC      *)
(* identifier for each, and a running CPU finds its entry by it.  A stack  *)
(* is the number of stacks between it and KERNEL_STACK_TOP.                *)
(***************************************************************************)
EXTENDS Cpus

CONSTANTS
  num_cpus,
  MAX_CPUS,   \* size of cpus[]
  ApicId      \* the identifiers, by index

BSP == 0
APs == CPUs \ {BSP}

ASSUME CpuConstants ==
  /\ num_cpus \in Nat \ {0}
  /\ CPUs = 0 .. num_cpus - 1
  /\ MAX_CPUS \in Nat /\ num_cpus <= MAX_CPUS
  /\ ApicId \in [CPUs -> 0 .. MAX_CPUS - 1]

VARIABLES
  pc,        \* where each CPU is
  i,         \* the loop variable of cpu_start_aps
  mailbox,   \* the stack address in the code at 0x7000
  lost,      \* a startup interrupt for cpus[i] was lost
  stack,     \* the stack of each CPU
  cpu,       \* the entry of cpus[] each CPU takes for its own
  started    \* the field started of each entry of cpus[]

vars == <<pc, i, mailbox, lost, stack, cpu, started>>

At(c, label) == pc[c] = label
Goto(c, label) == pc' = [pc EXCEPT ![c] = label]

\* apic_find_cpus takes the first CPU listed for the BSP, and counts it as started.
Init ==
  /\ pc = [c \in CPUs |-> IF c = BSP THEN "next" ELSE "wait"]
  /\ i = 0
  /\ mailbox = 0
  /\ lost = FALSE
  /\ stack = [c \in CPUs |-> IF c = BSP THEN 0 ELSE None]
  /\ cpu = [c \in CPUs |-> IF c = BSP THEN ApicId[BSP] ELSE None]
  /\ started = [k \in 0 .. MAX_CPUS - 1 |-> IF k = BSP THEN 1 ELSE 0]

-----------------------------------------------------------------------------
(* cpu_start_aps and lapic_start_ap.                                       *)

\* The next CPU: its stack is written into the code.  The BSP is skipped.
cpu_start_aps_next ==
  /\ At(BSP, "next")
  /\ i' = i + 1
  /\ IF i + 1 < num_cpus
     THEN mailbox' = mailbox + 1 /\ Goto(BSP, "sipi1")
     ELSE Goto(BSP, "start") /\ UNCHANGED mailbox
  /\ lost' = FALSE
  /\ UNCHANGED <<stack, cpu, started>>

\* A startup interrupt wakes a CPU that waits for one, and does nothing to a CPU
\* that runs.  One of the two may be lost.
lapic_start_ap(label, next) ==
  /\ At(BSP, label)
  /\ \/ /\ pc' = [pc EXCEPT ![BSP] = next,
                            ![i] = IF @ = "wait" THEN "trampoline" ELSE @]
        /\ UNCHANGED lost
     \/ /\ ~lost
        /\ lost' = TRUE
        /\ Goto(BSP, next)
  /\ UNCHANGED <<i, mailbox, stack, cpu, started>>

\* Mutant: the BSP does not wait.
cpu_start_aps_spin_never ==
  /\ At(BSP, "spin")
  /\ Goto(BSP, "next")
  /\ UNCHANGED <<i, mailbox, lost, stack, cpu, started>>

\* The loop that waits for the AP.
cpu_start_aps_spin ==
  /\ At(BSP, "spin")
  /\ started[i] = 1
  /\ Goto(BSP, "next")
  /\ UNCHANGED <<i, mailbox, lost, stack, cpu, started>>

-----------------------------------------------------------------------------
(* The CPU that was started.                                               *)

\* boot_ap.s.
apstart(c) ==
  /\ At(c, "trampoline")
  /\ stack' = [stack EXCEPT ![c] = mailbox]
  /\ Goto(c, "enter")
  /\ UNCHANGED <<i, mailbox, lost, cpu, started>>

\* cpu_ap_enter: gdt_install makes the entry at the CPU's identifier its own.
gdt_install(c) ==
  /\ At(c, "enter")
  /\ cpu' = [cpu EXCEPT ![c] = ApicId[c]]
  /\ Goto(c, "start")
  /\ UNCHANGED <<i, mailbox, lost, stack, started>>

\* Mutant: the CPU does not announce itself.
cpu_common_main_silent(c) ==
  /\ At(c, "start")
  /\ Goto(c, "main")
  /\ UNCHANGED <<i, mailbox, lost, stack, cpu, started>>

\* The CPU announces itself in its entry.
cpu_common_main(c) ==
  /\ At(c, "start")
  /\ started' = [started EXCEPT ![cpu[c]] = 1]
  /\ Goto(c, "main")
  /\ UNCHANGED <<i, mailbox, lost, stack, cpu>>

Done == \A c \in CPUs : At(c, "main")
Finished == Done /\ UNCHANGED vars

BspStep ==
  \/ cpu_start_aps_next
  \/ lapic_start_ap("sipi1", "sipi2")
  \/ lapic_start_ap("sipi2", "spin")
  \/ cpu_start_aps_spin
  \/ cpu_common_main(BSP)

ApStep(c) == apstart(c) \/ gdt_install(c) \/ cpu_common_main(c)

Next == BspStep \/ (\E c \in APs : ApStep(c)) \/ Finished

\* Every CPU executes its next instruction.
Fairness == WF_vars(BspStep) /\ \A c \in APs : WF_vars(ApStep(c))

Spec == Init /\ [][Next]_vars /\ Fairness

-----------------------------------------------------------------------------
(* What the start-up promises.                                             *)

TypeOK ==
  /\ pc \in [CPUs -> {"next", "sipi1", "sipi2", "spin", "wait", "trampoline", "enter",
                      "start", "main"}]
  /\ i \in 0 .. num_cpus
  /\ mailbox \in 0 .. num_cpus - 1
  /\ lost \in BOOLEAN
  /\ stack \in [CPUs -> CPUs \cup {None}]
  /\ cpu \in [CPUs -> 0 .. MAX_CPUS - 1 \cup {None}]
  /\ started \in [0 .. MAX_CPUS - 1 -> {0, 1}]

\* No two CPUs use one stack, whatever their identifiers: cpu_start_aps writes the
\* next address into the code only after the AP before has fetched its own.
StackIsOwn ==
  \A c, d \in CPUs : c # d /\ stack[c] # None => stack[c] # stack[d]

\* All CPUs reach cpu_common_main, if the identifiers are the indices and one of
\* two startup interrupts arrives.  doxygen.h: "After this all CPUs enable IDT and
\* start the scheduler."
AllCpusStart == <>Done
=============================================================================
