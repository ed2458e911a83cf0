------------------------------ MODULE Startup -------------------------------
(***************************************************************************)
(* kmain of src/sys/kmain.c: the order in which the boot CPU sets the      *)
(* kernel up, with what move_module (multiboot1.c), the search for the     *)
(* ACPI tables (apic.c), vmm_init, move_stack (kernel.c) and cpu_start_aps *)
(* (cpu.c) do to the first 4 MB of memory, until interrupts are on and     *)
(* Interrupts goes on.  Memory is pages of 4 KB, at the addresses of       *)
(* vmlayout.h; a region is live from when it is written to its last use.   *)
(* What is not used any more is forgotten.  A request made before the main *)
(* loop waits for it: only those still there at the start are modelled.    *)
(***************************************************************************)
EXTENDS Interrupts, Descriptors, MoveStack, Sequences

CONSTANTS
  Layouts,    \* where the kernel and the modules were loaded
  Bitmaps,    \* the pages a bitmap of the memory of this machine may need
  Rsdps,      \* what of the BIOS looks like the root pointer, in order
  Madts,      \* the entries of the MADT, in order
  MAX_CPUS

VARIABLES
  pc,          \* the next call of kmain
  live,        \* the regions that hold something still needed
  clobbered,   \* the names of those that were overwritten
  taken,       \* the intervals of pages the memory manager has marked
  tables,      \* what of the ACPI tables was found
  cpus,        \* APIC id and state of the CPUs found
  ap,          \* the CPU that is being started
  made         \* what gdt_install or move_stack, just called, has left

bootvars == <<pc, live, clobbered, taken, tables, cpus, ap, made>>
vars == <<bootvars, intvars>>

\* The two, with what they were called for: the table of the CPU whose
\* cpu_info is at c, wherever that was linked to, and any stack.
Nothing == [kind |-> "nothing"]
Tables == {[kind |-> "gdt", cpu |-> c, gdt |-> gdt_install(c)] : c \in Addresses}
MovedStacks ==
  {[kind |-> "stack", old |-> s, new |-> move_stack_to(Holding(s), s.esp, s.ebp)] : s \in Stacks}

\* vmlayout.h, in pages.
KERNEL == 256
KERNEL_STACK_TOP == 1024
KERNEL_STACK_SZ == 2
LAPIC_PHYS_VIRT_ADDR == KERNEL_STACK_TOP - KERNEL_STACK_SZ * MAX_CPUS - 1
MODULE1_LOCATION == LAPIC_PHYS_VIRT_ADDR - 1
MAX_KERNEL_MEM == MODULE1_LOCATION - 1
TRAMPOLINE == 7
MAIN_BIOS == <<224, 255>>

ASSUME StartupConstants ==
  /\ MAX_CPUS \in Nat \ {0}
  /\ \A l \in Layouts : l.end \in Nat /\ KERNEL < l.end
  /\ \A l \in Layouts : \A m \in l.mods :
       /\ m \in [name : {"sc2_bin", "bootap_bin"}, cpu : {0}, lo : Nat, hi : Nat]
       /\ l.end <= m.lo /\ m.lo <= m.hi
  /\ \A found \in Rsdps : found \in Seq([area : {"bios", "ebda"}, id : Nat, sum : Nat])

Region(name, lo, hi) == [name |-> name, cpu |-> 0, lo |-> lo, hi |-> hi]
Overlap(r, s) == r.lo <= s.hi /\ s.lo <= r.hi
Present(name) == \E r \in live : r.name = name
The(name) == CHOOSE r \in live : r.name = name

\* As the boot loader leaves it.
Init ==
  /\ pc = "kmain"
  /\ \E l \in Layouts :
       live = {Region("kernel", KERNEL, l.end - 1), Region("bios", MAIN_BIOS[1], MAIN_BIOS[2])}
                \union l.mods
  /\ clobbered = {}
  /\ taken = {}
  /\ tables = [rsdp |-> 0, entries |-> <<>>]
  /\ cpus = <<>>
  /\ ap = 0
  /\ made = Nothing
  /\ InterruptInit

-----------------------------------------------------------------------------
(* Memory.                                                                 *)

Kept(done) == {r \in live : r.name \notin done}
Lost(done, regions) ==
  {r \in Kept(done) :
     \E new \in regions : Overlap(r, new) /\ <<r.name, r.cpu>> # <<new.name, new.cpu>>}

\* Regions are written, those with the names done are needed no more.  What
\* else was in the place of a new one is gone.
Write(done, regions) ==
  /\ live' = (Kept(done) \ Lost(done, regions)) \union regions
  /\ clobbered' = clobbered \union {r.name : r \in Lost(done, regions)}

pmm_mark_mem_taken(lo, hi) == taken \union {<<lo, hi>>}

\* The first page that is not in one of the intervals.
pmm_alloc_first(marked) ==
  Min({p \in {0} \union {i[2] + 1 : i \in marked} : \A i \in marked : p < i[1] \/ i[2] < p})

At(label) == pc = label /\ panic = "no"
Goto(label) == pc' = label
PANIC ==
  /\ panic' = "boot"
  /\ UNCHANGED <<pc, ioapic, idt, idtr, interrupt_handlers, pic, lapic, int, frame, asked>>
NoInterrupts == UNCHANGED intvars

\* kmain begins: the kernel must end below what is placed above it, then
\* the flags of the boot loader are looked at.  That it passes a memory map
\* is not demanded, only logged; it is taken to pass one here.
check_necessary_flags ==
  /\ At("kmain")
  /\ \E flags \in SUBSET {"MEM", "MODS"} :
       IF The("kernel").hi >= MAX_KERNEL_MEM \/ flags # {"MEM", "MODS"}
       THEN PANIC
       ELSE Goto("init_pmm") /\ NoInterrupts
  /\ UNCHANGED <<live, clobbered, taken, tables, cpus, ap>>

\* Mutant: the last page of the bitmap is left out.
init_pmm_short ==
  /\ At("init_pmm")
  /\ \E size \in Bitmaps :
       /\ Write({}, {Region("bitmap", 0, size - 2)})
       /\ taken' = {<<0, size - 2>>, <<KERNEL, The("kernel").hi>>}
  /\ Goto("sc2_bin")
  /\ NoInterrupts /\ UNCHANGED <<tables, cpus, ap>>

\* The bitmap is at the start of the first entry it fits into, which is
\* address 0 (see Pmm); then the kernel is marked.
init_pmm ==
  /\ At("init_pmm")
  /\ \E size \in Bitmaps :
       /\ Write({}, {Region("bitmap", 0, size - 1)})
       /\ taken' = {<<0, size - 1>>, <<KERNEL, The("kernel").hi>>}
  /\ Goto("sc2_bin")
  /\ NoInterrupts /\ UNCHANGED <<tables, cpus, ap>>

\* move_module: the first module with this name is copied and the memory it
\* was in is marked, the place it is copied to is not.
move_module(name, to, as, then) ==
  /\ At(name)
  /\ IF Present(name)
     THEN /\ Write({name}, {Region(as, to, to)})
          /\ taken' = pmm_mark_mem_taken(The(name).lo, The(name).hi)
          /\ Goto(then) /\ NoInterrupts
     ELSE PANIC /\ UNCHANGED <<live, clobbered, taken>>
  /\ UNCHANGED <<tables, cpus, ap>>

\* The key table, which kbd_init then uses where it is, and the code the
\* other CPUs start with.
move_sc2 == move_module("sc2_bin", MODULE1_LOCATION, "keys", "bootap_bin")
move_bootap == move_module("bootap_bin", TRAMPOLINE, "trampoline", "apic_init")

-----------------------------------------------------------------------------
(* ACPI.                                                                   *)

\* find_rsdp: the match after the first ones that are to be ignored.  In
\* the EBDA the signature is compared with its first two bytes only, and
\* its address cut to one byte: no match of it is ever found.
find_rsdp(found, ignore) ==
  LET bios == {k \in DOMAIN found : found[k].area = "bios"}
      match == {k \in bios : Cardinality({j \in bios : j < k}) = ignore}
  IN IF match # {} THEN found[CHOOSE k \in match : TRUE] ELSE [area |-> "none", sum |-> 1, id |-> 0]

\* Mutant: the first match is taken, whatever its checksum.
rsdp_found_unchecked(found) == find_rsdp(found, 0).id

\* The loop of apic_init: matches are ignored while their checksum is not 0.
rsdp_found(found) ==
  LET tries == {n \in 0 .. Len(found) : find_rsdp(found, n).area = "none" \/ find_rsdp(found, n).sum = 0}
  IN find_rsdp(found, Min(tries)).id

\* cpu_supported, then apic_init.
apic_init ==
  /\ At("apic_init")
  /\ \E supported \in BOOLEAN, found \in Rsdps :
       /\ tables' = [tables EXCEPT !.rsdp = rsdp_found(found), !.entries = found]
       /\ IF supported /\ rsdp_found(found) # 0
          THEN Goto("apic_find_info") /\ NoInterrupts ELSE PANIC
  /\ UNCHANGED <<live, clobbered, taken, cpus, ap>>

\* The FADT is there and its checksum is 0, or not.
apic_find_info ==
  /\ At("apic_find_info")
  /\ \E fadt \in {"valid", "absent", "wrong"} :
       IF fadt = "valid" THEN Goto("apic_find_cpus") /\ NoInterrupts ELSE PANIC
  /\ UNCHANGED <<live, clobbered, taken, tables, cpus, ap>>

lapics(madt) == SelectSeq(madt, LAMBDA e : e.type = "lapic")

\* One entry of cpus for each LAPIC entry; the first is the boot CPU.  Both
\* kinds of entries have to be there.
apic_find_cpus ==
  /\ At("apic_find_cpus")
  /\ \E madt \in Madts :
       LET found == lapics(madt)
           io == \E i \in DOMAIN madt : madt[i].type = "ioapic"
       IN /\ cpus' = [i \in DOMAIN found |-> [id |-> found[i].id, started |-> i = 1]]
          /\ tables' = [rsdp |-> 0, entries |-> <<>>]
          /\ IF io /\ found # <<>> THEN Goto("lapic_install") /\ NoInterrupts ELSE PANIC
  /\ UNCHANGED <<live, clobbered, taken, ap>>

-----------------------------------------------------------------------------
(* Interrupt controllers and drivers, with interrupts off.                 *)

Quiet == UNCHANGED <<live, clobbered, taken, tables, cpus, ap>>

install_lapic ==
  /\ At("lapic_install") /\ lapic_install
  /\ Goto("gdt_install")
  /\ UNCHANGED <<ioapic, idt, idtr, interrupt_handlers, pic, int, frame, asked, panic>> /\ Quiet

install_gdt ==
  /\ At("gdt_install")
  /\ made' \in Tables
  /\ Goto("pic_init")
  /\ NoInterrupts /\ Quiet

install_pic ==
  /\ At("pic_init") /\ pic_init
  /\ Goto("ioapic_install")
  /\ UNCHANGED <<ioapic, idt, idtr, interrupt_handlers, lapic, int, frame, asked, panic>> /\ Quiet

install_ioapic ==
  /\ At("ioapic_install") /\ ioapic_install
  /\ Goto("idt_install")
  /\ UNCHANGED <<idt, idtr, interrupt_handlers, pic, lapic, int, frame, asked, panic>> /\ Quiet

install_idt ==
  /\ At("idt_install") /\ idt_install /\ isr_install
  /\ Goto("ps2_init")
  /\ UNCHANGED <<ioapic, idtr, pic, lapic, int, frame, asked, panic>> /\ Quiet

\* ps2_init gives up before it registers anything when there is no
\* controller (see Ps2).
init_ps2 ==
  /\ At("ps2_init")
  /\ ps2_interrupts \/ UNCHANGED <<interrupt_handlers, pic>>
  /\ Goto("uart_init")
  /\ UNCHANGED <<ioapic, idt, idtr, lapic, int, frame, asked, panic>> /\ Quiet

\* So does uart_init without a port (see Console).
init_uart ==
  /\ At("uart_init")
  /\ uart_interrupts \/ UNCHANGED <<interrupt_handlers, pic>>
  /\ Goto("syscall_init")
  /\ UNCHANGED <<ioapic, idt, idtr, lapic, int, frame, asked, panic>> /\ Quiet

init_syscall ==
  /\ At("syscall_init") /\ syscall_init
  /\ Goto("vmm_init")
  /\ UNCHANGED <<ioapic, idt, idtr, pic, lapic, int, frame, asked, panic>> /\ Quiet

-----------------------------------------------------------------------------
(* Paging, stacks and the other CPUs.                                      *)

\* The directory and the first table are frames taken before the first
\* 4 MB, which they map, are marked.  One page of these shows the local
\* APIC instead of memory.
vmm_init ==
  LET dir == pmm_alloc_first(taken)
      table == pmm_alloc_first(pmm_mark_mem_taken(dir, dir))
  IN /\ At("vmm_init") /\ page_fault_handler
     /\ Write({}, {Region("directory", dir, dir), Region("table", table, table),
                   Region("lapic", LAPIC_PHYS_VIRT_ADDR, LAPIC_PHYS_VIRT_ADDR)})
     /\ taken' = pmm_mark_mem_taken(0, KERNEL_STACK_TOP - 1)
     /\ Goto("move_stack")
     /\ UNCHANGED <<tables, cpus, ap>>
     /\ UNCHANGED <<ioapic, idt, idtr, pic, lapic, int, frame, asked, panic>>

Stack(i, top) ==
  [name |-> "stack", cpu |-> i, lo |-> top - KERNEL_STACK_SZ, hi |-> top - 1]

\* The stack is copied below KERNEL_STACK_TOP, where memory is mapped
\* already.  The frames of heap_init and process_init are above 4 MB.
move_stack ==
  /\ At("move_stack")
  /\ Write({}, {Stack(1, KERNEL_STACK_TOP)})
  /\ made' \in MovedStacks
  /\ Goto("cpu_start_aps") /\ ap' = 1
  /\ NoInterrupts /\ UNCHANGED <<taken, tables, cpus>>

\* Mutant: all APs get the stack below the one of the boot CPU.
ApStackShared(i) == Stack(i, KERNEL_STACK_TOP - KERNEL_STACK_SZ)

\* curr_stack goes down by the size of a stack for each AP.
ApStack(i) == Stack(i, KERNEL_STACK_TOP - KERNEL_STACK_SZ * (i - 1))

\* The next AP: its stack, then lapic_start_ap, which stores the warm reset
\* vector in page 0 and sends the start-up messages.
cpu_start_ap ==
  /\ At("cpu_start_aps") /\ ap < Len(cpus)
  /\ ap' = ap + 1
  /\ Write({}, {ApStack(ap + 1), Region("warm_reset_vector", 0, 0)})
  /\ Goto("wait")
  /\ NoInterrupts /\ UNCHANGED <<taken, tables, cpus>>

\* Mutant: the entry after the one of the CPU is used.
lapic_cpuid_next(id) == id + 2

\* The entry of cpus a CPU uses is the one its APIC id is the index of.
lapic_cpuid(id) == id + 1

\* The AP runs the trampoline, gdt_install, lapic_install and
\* cpu_common_main (see CpuBoot): it reports in its entry.
ap_started ==
  /\ At("wait")
  /\ Present("trampoline")
  /\ LET i == lapic_cpuid(cpus[ap].id)
     IN i \in DOMAIN cpus /\ ~cpus[i].started /\ cpus' = [cpus EXCEPT ![i].started = TRUE]
  /\ NoInterrupts /\ UNCHANGED <<pc, live, clobbered, taken, tables, ap, made>>

\* while(cpus[i].started != 1)
wait_started ==
  /\ At("wait") /\ cpus[ap].started
  /\ Goto("cpu_start_aps")
  /\ NoInterrupts /\ Quiet

\* cpu_common_main: load the table, then enable interrupts and enter the
\* program (see CpuMain).
cpu_common_main ==
  /\ At("cpu_start_aps") /\ ap = Len(cpus)
  /\ idtr' = TRUE /\ int' = TRUE
  /\ Goto("main") /\ live' = {} /\ taken' = {}
  /\ UNCHANGED <<clobbered, tables, cpus, ap>>
  /\ UNCHANGED <<ioapic, idt, interrupt_handlers, pic, lapic, frame, asked, panic>>

-----------------------------------------------------------------------------
\* What a call has made is looked at once and forgotten with the next call.
kmain ==
  \/ install_gdt \/ move_stack
  \/ /\ \/ check_necessary_flags \/ init_pmm \/ move_sc2 \/ move_bootap
        \/ apic_init \/ apic_find_info \/ apic_find_cpus
        \/ install_lapic \/ install_pic \/ install_ioapic \/ install_idt
        \/ init_ps2 \/ init_uart \/ init_syscall
        \/ vmm_init \/ cpu_start_ap \/ wait_started \/ cpu_common_main
     /\ made' = Nothing

\* while(1) of panic.
Halted == panic # "no" /\ UNCHANGED vars

Requests ==
  TakeSyscall \/ (\E n \in Devices : Raise(n)) \/ (\E v \in Local : Expire(v)) \/ TakeWithdrawn
Cpu == (Deliver \/ Dispatch) /\ UNCHANGED bootvars

\* A CPU that waits for requests for ever is not stuck.
Waits == pc = "main" /\ Running /\ UNCHANGED vars

Next ==
  \/ kmain \/ ap_started \/ Halted \/ Waits
  \/ Cpu \/ (pc = "main" /\ Requests /\ UNCHANGED bootvars)

Spec == Init /\ [][Next]_vars /\ WF_vars(kmain) /\ WF_vars(ap_started) /\ WF_vars(Cpu)

-----------------------------------------------------------------------------
(* What the start promises.                                                *)

TypeOK ==
  /\ InterruptTypeOK
  /\ ap \in 0 .. Len(cpus)
  /\ \A r \in live : r.lo <= r.hi

\* What kmain still needs when it starts the other CPUs is where it was put:
\* the kernel, the key table, the trampoline, the page directory and table,
\* the page that shows the local APIC and the stacks were not written over
\* by a later step (move_module, vmm_init, move_stack, cpu_start_aps).  The
\* bitmap is: lapic_start_ap stores the warm reset vector in it.
NothingOverwritten == clobbered \subseteq {"bitmap"}

\* The root pointer used is the first of the BIOS area whose checksum is 0,
\* also after ones that only look like it (apic_init, find_rsdp).
RootPointerIsValid ==
  pc = "apic_find_info" =>
    \E i \in DOMAIN tables.entries :
      LET e == tables.entries[i]
      IN /\ e.id = tables.rsdp /\ e.area = "bios" /\ e.sum = 0
         /\ \A j \in 1 .. i - 1 : tables.entries[j].area = "bios" => tables.entries[j].sum # 0

\* What the CPU puts together from the table that gdt_install made for it is
\* what the kernel uses its selectors for: flat segments for the kernel and for
\* programs, its TSS, and at gs:0 its own cpu_info.  The TSS is in full length,
\* although the limit passed is an address, exactly if it does not straddle a
\* multiple of 1 MB.  With this table each gate of idt_install
\* leads to its stub, and programs may use it for system calls (gdt_install,
\* write_tss, idt_set_gate).
DescriptorsAreAsMeant ==
  made.kind = "gdt" =>
    /\ SelectorsLead(made.cpu, made.gdt)
    /\ \A stub \in Addresses : GateLeads(stub, made.gdt)

\* Returning through the frames of kmain goes on in the new stack and never
\* back to the old one, whatever the frames are.  A word that looks like no
\* address of the old stack is copied as it is; one that only happens to look
\* like one is shifted too, which move_stack cannot tell (move_stack).
StackIsMoved == made.kind = "stack" => IsMoved(made.old, made.new)

\* The start ends: all CPUs run and the boot CPU reaches its main loop, or
\* kmain gives up (cpu_start_aps waits for each AP without a limit).
StartEnds == <>(panic # "no" \/ (pc = "main" /\ \A i \in DOMAIN cpus : cpus[i].started))

\* A request that is not masked is handled at some time, whatever is served
\* before: no line of either chip and no vector of the local APIC stays in
\* service and holds it back (irq_handler, intr_handler).
RequestsAreServed ==
  LET Served(v) == panic # "no" \/ (frame # <<>> /\ frame[1] = v)
  IN /\ \A n \in Devices : (pc = "main" /\ n \in pic.irr \ pic.masked) ~> Served(IRQ0 + n)
     /\ \A v \in Local : (pc = "main" /\ v \in lapic.irr) ~> Served(v)

=============================================================================
