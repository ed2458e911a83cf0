# A TLA+ model of frod

frod is a small multiprocessor kernel for x86. This directory holds TLA+ modules that model its
parts, configurations with which TLC checks them on small instances, and proofs that TLAPS checks
for all instances. `PROJECT.json` lists the parts, the runs, the source lines every definition
stands for, the hazards the properties were chosen for, and the theorems. Paths below are relative
to the repository; `sys/`, `arch/`, `drv/`, `lib/` are below its `src/`.

## The system and its parts

The boot loader passes a memory map and two modules to `kmain` (`sys/kmain.c`), which initialises, in
this order: the physical memory manager (PMM), the modules at low addresses, the ACPI tables and the
local APIC, the descriptor tables and interrupts, the PS/2 controller, the serial line, system
calls, paging, its own stack, the kernel heap, the first process. Then `cpu_start_aps` starts the
other processors, and all of them run `cpu_common_main`.

| Part | Source | Modules | Status |
|---|---|---|---|
| physical memory manager | `sys/pmm.c` | `Pmm`, `NatFacts`, `PmmProofs` | modelled, proved |
| kernel heap | `sys/heap.c` | `Heap`, `HeapProofs` | modelled, proved |
| locking | `sys/lock.c` | `Cpus`, `Spinlock`, `SmpProofs` | modelled, proved |
| virtual memory | `sys/vmm.c`, `memory_asm.s` | `Vmm`, `AddressSpace`, `VmmProofs` | modelled, proved |
| start of the processors | `sys/cpu.c`, `lapic.c`, `boot_ap.s` | `Cpus`, `CpuBoot`, `CpuMain`, `SmpProofs` | partly, proved |
| start-up, modules, low memory | `kmain.c`, `multiboot1.c`, `kernel.c` | `Startup`, `MoveStack`, `StartupProofs` | modelled, proved |
| ACPI tables | `arch/x86/apic.c` | `Startup`, `StartupProofs` | partly, proved |
| descriptor tables | `gdt.c`, `idt.c` | `Descriptors`, `Interrupts`, `StartupProofs` | partly, proved |
| interrupts, system calls | `isr.c`, `isr_asm.s`, `pic.c`, `lapic.c`, `syscall.c` | `Interrupts`, `StartupProofs` | modelled, proved |
| processes | `sys/process.c`, `task.s` | `Process`, `ProcessProofs` | partly, proved |
| PS/2 controller | `drv/ps2.c`, `drv/ps2kbd.c` | `Ps2`, `Ps2Proofs` | modelled, proved |
| keyboard | `sys/kbd.c`, `tools/create_keyset.py` | `Kbd`, `Ps2Proofs` | modelled, proved |
| serial line | `drv/uart.c` | `Console` | partly |
| screen | `drv/vga.c` | `Console` | modelled |
| strings, formatting | `lib/string.c`, `lib/stdio.c` | `Strings`, `Printf` | partly |
| I/O APIC | `ioapic.c` | `Interrupts`, `Startup` | partly |
| timer, list, 64-bit build | `pit.c`, `dllist.c`, `arch/x86_64` | | not modelled, see the end |

"Proved" means the safety properties: what must happen in the end is left to TLC everywhere.

The parts meet as follows. Heap, processes and processors take frames from the PMM and map them
with the VMM. The heap owns a spinlock (which `heap_malloc` and `heap_free` do not take). Every
processor runs in the one kernel directory. `kmain` sets up what the interrupts need: `Startup`
extends `Interrupts`, and its steps are the calls of `kmain` while interrupts are off, then the
deliveries and handlers of the main loop. `Ps2` extends `Kbd`: the interrupt handler passes every
byte to the walk of the key table.

## The modules

**Pmm.** The bitmap is the set of bits that are set. `init_pmm` is one action; its three loops are
`pmm_get_max_space`, the search for a place for the bitmap (`Fits`, `BitmapAddress`) and the marking
of gaps and reserved memory (`Visited`, `GapBlocks`, `ReservedBlocks`). 64-bit bases and lengths keep
their true value in the map, and the code's low words are `% WORD`. `pmm_mark_mem_taken`,
`pmm_alloc_first`, `pmm_alloc_first_n_blocks` and `pmm_free` are one action each. `granted` and
`marked` are history variables.

**Heap.** `mem` maps the address of every header (`LLMalloc`) ever written to its fields, those a
merge took off the list included. The header that a split creates does not set the magic numbers, so
they are an arbitrary Boolean. `heap_malloc` panics, finds a block or grows the heap and calls
itself, which rounds the size again; growing panics at a page that is mapped for something else
(`InUse`). `heap_free` merges and never clears `used`. `span` (the bytes that belong to a block) and
`asked` are history variables.

**Cpus.** The set of CPUs, which `Spinlock`, `CpuBoot` and `CpuMain` share.

**Spinlock.** A context is a CPU's code or the interrupt handler that suspends it. An acquire is two
steps, the call and the successful `xchg`; a failing `xchg` changes nothing. `pushcli` and `popcli`
are empty in the code and change nothing in the model. `Ordered` says whether callers keep to the
order of `lock_resource`, which the code leaves to them.

**Vmm, AddressSpace.** Frames hold words; the directory maps itself as its last entry, and tables
are read and written through the windows this gives, translated by the CPU through its translation
buffer, which may cache and drop entries at any time. `flush_tlb_entry` is modelled as the assembly
is: it invalidates an address in page 0. `AddressSpace` is the abstract specification, one map from
pages to frames; `space` is the refinement mapping.

**CpuBoot.** The boot processor (BSP) goes through `cpus[]`, writes the stack address for the next
application processor (AP) into the trampoline at 0x7000, sends two startup interrupts and spins on
`started`. The AP fetches the stack, takes the entry of `cpus[]` at its APIC identifier for its own
and sets `started` there. Either startup interrupt may be lost, not both: an assumption about the
machine.

**CpuMain.** All CPUs take a frame and map it at GB1. `pmm_alloc_first` tests bits one at a time and
sets one by a load and a store; `vmm_map_page` is cut at every access to memory that another CPU
changes. The window on the table is translated when it is first used and may be translated again.

**Startup.** `pc` is the next call of `kmain`. The first 4 MB are pages; `live` holds the regions that
hold something that is still needed (the kernel, modules, bitmap, trampoline, key table, page
directory, stacks, the page that shows the local APIC), `taken` what the PMM has marked, and
`clobbered` the regions that something was written over. The search of `find_rsdp` and `apic_init`
runs over a sequence of places that look like the root pointer, `apic_find_cpus` over a sequence of
MADT entries. PANIC is the value of `panic`.

**Interrupts.** The 8259 pair has its bases, masks, requests and lines in service, with the
priorities of both chips; the local APIC its requests and those in service; the I/O APIC, on the
same lines, has an entry for each. `ioapic_install` masks as many entries as the version of the
*local* APIC gives; that the others are masked is what a reset leaves, and an assumption. `idt` says
where a gate leads and `interrupt_handlers` what is registered. Delivering, dispatching
(`isr_handler`, `irq_handler`, `intr_handler`) and returning are separate steps. Besides requests of
devices, the timer and programs there are two strays: an error that the local APIC reports at vector
65, and a request that is gone when the CPU acknowledges it, for which the chip of the 8259 pair
answers with its line 7.

**Descriptors, MoveStack.** Pure functions: the bytes that `gdt_set_gate`, `write_tss` and
`idt_set_gate` build, decoded as the CPU does, and the copy and adjustment of the stack of `kmain`. A
32-bit value is a pair of 16-bit halves, so that the cuts and shifts of the code are those of the
model. `gdt_install` and `move_stack` are steps of `Startup`, for every address and every stack of
the bounds: `made` is what the call leaves, until the next call of `kmain`.

**Process.** A process is its pid; the page of its kernel stack is the page with that number.
`real_fork` is four steps (interrupts off, `alloc_proc`, the address space, the links), so that a
timer interrupt could come in between. `map_stack` takes a frame for the stack and, once, one for its
page table, which is not checked for NULL; `process_start_usermode` may be called again and then puts
its process in the place of the first. `vmm_create_address_space` is modelled as the code is: the
directory it returns is the address of a function, and what it clears is the page it was passed, the
kernel stack of the new process.

**Ps2, Kbd.** `ps2_init` is a step for each call of `ps2_send_internal`, and this one step for each
access to a port and each round of a wait. The controller takes a byte whenever it likes, devices
send when their channel is enabled, and hardware that is missing or fails is chosen in `Init`. `Kbd`
holds the tool that builds the blocks of the key table as well as the walk through them.

**Console.** `vga_putc` is a function of position and memory, and `paper` is what an endless
printer would show. `uart_putc` is one step for each access to a register, on all CPUs.

**Strings, Printf.** Functions on a small memory in which arguments may overlap, and `do_printf` as
the state machine over the format string that it is in the code; the number it returns is left out.
`Console` begins with one call of
the library, whose arguments are `call`.

## What TLC checks

`tlc -config <Run>.cfg <MC module>`; the module of every run is in `PROJECT.json`.

| Run | Distinct states | Result | What it shows |
|---|---|---|---|
| `Pmm` | 138,120 | holds | free or handed out are exactly the whole blocks of available memory, for every map of up to three entries; allocations are fresh, and the search for a run of blocks finds the first one |
| `Heap` | 94,220 | holds | no overlap, requests covered, the list stays closed, pages mapped for something else stay untouched |
| `Spinlock` | 1,026 | holds | mutual exclusion; no deadlock if the order is kept and handlers have their own locks; while somebody waits, locks keep being acquired unless interrupts never cease |
| `Vmm` | 963,665 | holds | mapping implements `AddressSpace`, frames are owned, the buffer is current; with unmapping, too, no table is shared or free |
| `CpuBoot` | 115 | holds | eight CPUs all start, each on its own stack |
| `CpuMain` | 1,729,125 | holds | GB1 is mapped in the end, whatever three CPUs overwrite |
| `Startup` | 23,584 | holds | nothing that is still needed is overwritten, the root pointer used is valid, only the two strays meet a gate or a handler that is not there, every request is served, the start ends; descriptors decode to what they are used for, and frames lead through the new stack |
| `StartupTrampoline` | | violated | with a bitmap of six pages the first page table lies over the trampoline (`kmain.c:74`) |
| `Process` | 669 | holds | exactly the current process runs and the TSS names its stack, the ring of processes stays closed, fork is not interrupted by a switch |
| `Ps2` | 489,810 | holds | what `ps2_init` reports is true of a controller that keeps up; it ends with any; giving up leaves no interrupt on; the callback is set before it is called; every byte is read; keys are decoded from any stream |
| `Ps2Second` | | violated | with two channels and only the first device `ps2_init` returns 0, "if both work" (`ps2.h:40`) |
| `Console` | 62,124 | holds | the screen shows the last rows printed; what three CPUs send without a lock is transmitted, in order; printing ends; string functions and formats agree with reference definitions |

A violated run states what a comment, a header or a test of the repository says; `findings` in
`PROJECT.json` quotes it.

`ResultIsTrue` says how far `ps2_init` can be believed. A controller that is slower than the polls,
or a device that speaks up, makes answers be taken for those of other questions, and the property
leaves these out. Of the rest it says what can be relied on: the first device is reported exactly if it
is there, the second whenever it is there. A second device that is missing is reported as there when the
first one is, which `Ps2Second` shows: `wait_data_ready` never returns false, as it tests `ms < 0` and
the wait ends with 0 (`ps2.c:130`), and the byte read again is the first one's acknowledgement.

`OnlyStraysPanic` says which interrupts stop the kernel: an error of the local APIC, which
`lapic_install` leaves unmasked at a vector without a gate, and a request withdrawn from the 8259 pair,
which is dispatched to the dummy handler. Nothing else does, at no call of `kmain`.

`StackIsMoved`, `DescriptorsAreAsMeant`, `StringsAreExact` and `FormatsArePrinted` are about pure
functions. Their inputs are part of the state for one step, so that a counterexample names the
input.

Deadlock is checked except in `Heap`, where the kernel stops at PANIC or at the
bound on arenas, and `Ps2` and `Ps2Second`, where a machine without devices has nothing left to do. A type invariant
is a property of the runs `Startup` and `Ps2`; elsewhere it is part of another property
(`FramesAreOwned`, `PageEndsMapped`, `ScreenShowsLastRows`) or of an invariant that is proved.

### Other disagreements with the documentation

Eight more have a configuration with which TLC shows them:

* `PmmHighMemory` (module `MCPmm`): `pmm.c:121` says "First check if there is a gap in the
  specification". The end of an entry above 4 GB is cut to 32 bits (`pmm.c:142`), and gaps after it
  are missed.
* `SpinlockInterrupts` (`MCSpinlock`): `doxygen.h:205` says that interrupts are disabled before
  acquiring a lock. `pushcli` (`lock.c:51`) is empty, and a handler can wait for its own CPU.
* `CpuMainFrames` (`MCCpuMain`): `doxygen.h:200` says that locking ensures safe access to resources.
  `pmm_alloc_first` takes no lock, and two CPUs get one frame (`cpu.c:68`).
* `HeapRealloc` (`MCHeap`): the test at `heap.c:252` says "We should get the first block back", and
  `heap.h:24` says the same. `heap_free` never sets `used` to 0, so that no freed block is found again.
* `HeapExhausted` (`MCHeap`): `heap.c:30` says that PANIC is raised if there are no more free pages.
  `heap_get_new_block` does not notice the NULL of `pmm_alloc_first` and maps page 0.
* `ProcessStacks` (`Process`): `process.c:98` says "Set up the return stack, so it returns to the correct
  place". `vmm_create_address_space`, which by `vmm.h:126` creates an empty address space, takes the
  address of `pmm_alloc_first` for a frame and clears the page it was given, which is the new process's
  kernel stack (`process.c:144`). The first switch to such a process resets the machine.
* `StartupDummy` (`MCStartup`): `isr.c:28` says that the dummy handler does nothing. It panics, and a
  request withdrawn from the 8259 pair leads to it.
* `ConsoleStrings` (`MCConsole`): `string.h:26` allows overlapping blocks for `memmove`, which is
  `memcpy` and wrong for a move upwards; and `strncpy` with 0 bytes writes the byte before `dst`
  (`string.c:46`).

The others follow from the modules, or from the code the modules leave out:

* Memory. `heap.h:11` calls the list of blocks doubly linked; a split or a new arena does not update
  `prev` of the block that follows. `heap.c:52` says that sizes are aligned to 4 bytes; `sz += sz%4`
  makes 5 a 6. `heap.c:262` frees a block that a split created, whose magic numbers were never
  written, so that PANIC is raised unless memory happened to hold them. A request near 2^32 wraps
  around when it is rounded and gets a few bytes; `HeapGrantCovers` excludes such requests.
  `hal.h:258` says when a TLB entry must be flushed; `flush_tlb_entry` (`memory_asm.s:61`)
  loads the return address for its argument, the call that follows overwrites it, and a page nobody
  meant is invalidated.
* Locks. `lock.h:15` says that acquiring a lock out of order fails; `spinlock_acquire` tests nothing.
  `vga_putc` writes to the screen without its lock.
* Processors. `config.h:27` says that MAX_CPUS limits the number in use; `apic_find_cpus`
  (`apic.c:158`) does not test it. The BSP waits for `cpus[i]` and the AP sets the entry at its APIC
  identifier; if these differ, as `hal.h:41` leaves open, the BSP waits for ever. `AllCpusStart` and
  `StartEnds` are checked with equal ones. `lapic_start_ap` stores the warm reset vector at 0x467,
  inside the bitmap when this is at address 0.
* Start. `apic.c:26` says that the root pointer may be in the EBDA; `find_rsdp` cuts the address of
  the EBDA to a byte and the comparison to 16 bits, and finds none there. `multiboot1.c:246` needs a
  memory map and only logs that there is none. `move_stack` takes two frames for pages that are
  mapped already, and loses them.
* Interrupts. Vector 65, the error vector of the local APIC, is unmasked (`lapic.c:222`) and has no
  gate of its own, so that an error stops the kernel. LINT0 is masked: where the 8259 pair is wired through it, no request arrives. The stubs load `gs` with
  0x10, so that `cpu` is not the entry of the CPU in a handler. The comment at `ioapic.c:97` says that
  all interrupts are disabled; only the first entries are, since `max_interr` is the last vector of
  the local APIC (`lapic.c:248`). The limit of a TSS that crosses a multiple of 1 MB is too small (`gdt.c:129`);
  `DescriptorsAreAsMeant` says for exactly which addresses.
* Drivers and library. Step 7 of `ps2_init` writes back a configuration byte that was read before the
  channels were enabled. The backspace of `vga_putc` blanks the cell of the cursor, not the one
  before. `strchr`, which `string.h:130` lists as not implemented, returns its argument
  (`string.c:107`). `%h` is a 16-bit conversion by `stdio.c:16` and does not truncate; no property is
  about it. A format that ends in `%` is read beyond its end. `uart.c:3` names the 8250, which has no
  buffer of several bytes: CPUs that write at once would lose characters on it.

### Bounds

* Pmm: blocks of 4 bytes, a 64-value word, entries at even addresses. Entries begin and end inside,
  at and across blocks, touch each other or leave gaps, and a word can wrap around; block size and
  word size are otherwise only scaled. One bit per byte makes the bitmap itself take several blocks.
* Heap: headers of 4 and pages of 16 bytes, two pages per arena, two arenas and a third whose second
  page is in use. Sizes that round up unevenly, exactly fill a page, split and do not split occur, and
  so does growth, for which the five frames do not suffice.
* Spinlock: two CPUs, and locks of code and handlers; deadlock needs no more.
* Vmm: tables of 4 words, two pages of one table and one of another, frames that run out. With
  unmapping, one page of each of two tables.
* CpuBoot: the eight CPUs of `MAX_CPUS`. CpuMain: three CPUs, with symmetry, and the six frames
  they can take at most, whose bits share one byte.
* Startup: the true page numbers of `vmlayout.h`. The kernel is as long as it is built, as long as it
  may be and too long; modules follow in both orders or one is missing; the bitmap has up to five
  pages, the most for which nothing is overwritten. One, three or all eight CPUs that there is room for are
  listed, or none. Five requests, from a line of each chip, the timer, a spurious one, an error of the
  local APIC, a withdrawn one or a system call, make priorities and nested waiting happen.
* Descriptors, MoveStack: addresses on both sides of multiples of 64 KB and 1 MB; all stacks of four
  words.
* Process: seven pids and up to nine frames, so that either runs out, also in the middle of mapping a
  stack.
* Ps2: one round for every wait, so that it runs out or not at every call; one byte that a device
  sends while the driver starts, at any time. The keys are one without a prefix, one with, and one
  whose sequence is too long for the table; afterwards bytes arrive without a bound.
* Console: a screen of 3 by 2 cells with tabs of 2, all texts of six characters; three CPUs with two
  letters each and a port with a buffer that holds one byte of each. At most one CPU per place in the buffer is
  an assumption: `MAX_CPUS` is 8 and the buffer of a 16550 has 16 bytes.
* Strings: all memories of five bytes over three values (0, a positive and a negative `char`).
  Copies may overlap where the function can stand it: downwards, over what has been read.
  Printf: words of 8 bits, all of them, with all flags and widths on both sides of their length.

### Fairness

`Spinlock`: a context that can take a lock or is in a critical section goes on (weak fairness on
each context), and a handler that holds no lock returns. CPUs execute, the loop is only left if
`xchg` succeeds, and critical sections and handlers have no other loops. It is not assumed that a
context wins a race it enters again and again, so only global progress is claimed. `CpuBoot`: every
CPU executes its next instruction. `Startup`: so do the boot CPU and the AP being started, and a CPU
with interrupts on takes a request that is presented. `Ps2`: the CPU executes the driver and takes
interrupts; nothing is assumed of the controller and the devices. `Console`: every CPU executes;
nothing is assumed of the port.

## What is proved

| Theorem | Statement | For |
|---|---|---|
| `PmmSafe` | `GrantedIsMemory`, `GrantedIsTaken`, types | all block and word sizes, well-formed maps |
| `PmmLosesNothing` | `NothingLost` | all tidy maps |
| `PmmAllocatesFresh` | `AllocationIsFresh` | all block and word sizes, well-formed maps |
| `PmmFindsRuns` | `RunSearchIsComplete` | the same, and all lengths of runs |
| `HeapSafe` | `NoOverlap`, `PrevIsUsed`, types | all sizes and requests |
| `HeapGrantCovers` | `GrantCovers` | requests that do not wrap around |
| `HeapStaysOff` | `OthersAreUntouched` | all sizes, requests and pages in use |
| `HeapListIsCircular` | `ListIsCircular` | all sizes and requests |
| `FramesOwned` | `FramesAreOwned`, with types | all sizes of tables and memory |
| `TlbCurrent` | `TlbIsCurrent` | all sizes of tables and memory |
| `VmmImplementsAddressSpace` | `Vmm` implements `AddressSpace` | all sizes of tables and memory |
| `SpinlockExcludes` | `MutualExclusion`, types | all CPUs and locks |
| `OrderPreventsDeadlock` | `SomeoneRuns` | all CPUs and locks |
| `BootStacksAreOwn` | `StackIsOwn`, types | any number of CPUs, any identifiers |
| `MappedInTheEnd` | `PageEndsMapped`, with types | any number of CPUs, two frames for each |
| `MemoryIsSafe` | `NothingOverwritten` | machines that the layout has room for |
| `StartupTypes` | `TypeOK` of `Startup` | machines that the layout has room for |
| `RootPointerValid` | `RootPointerIsValid` | all contents of the BIOS area |
| `InterruptsHandled` | `OnlyStraysPanic`, types | all sets of devices, and of vectors with those `kmain` sets up |
| `DescriptorsMeant` | `DescriptorsAreAsMeant` | all 32-bit addresses |
| `StackMoved` | `StackIsMoved` | stacks of any size and place, all chains of frames |
| `ProcessesAreSeparate` | `OneIsRunning`, `RingIsClosed`, types | any number of pids and frames |
| `ForkIsNotSwitched` | `NoSwitchInFork` | any number of pids and frames |
| `Ps2TypeOK` | `TypeOK` of `Ps2` | any number of polls, any bytes |
| `CallbackIsSetAlways` | `CallbackIsSet` | any number of polls, any bytes |
| `FailureIsQuietAlways` | `FailureIsQuiet` | any number of polls, any bytes |
| `ResultIsTrueAlways` | `ResultIsTrue` | any number of polls, any bytes |
| `KeysAreDecodedAlways` | `KeysAreDecoded` | all tables of keys that the tool accepts |

None of the provers does induction. What would be an induction takes the least counterexample
(`LeastElement` in `NatFacts`), or a function given in closed form that satisfies a recursive
equation (`FoundEquation`, `ChainEquation`).

*Pmm.* The core is a fact about `init_pmm` alone: a block with a byte outside available memory
is set. The byte lies in a gap, a reserved entry or beyond the last available one, and each case is
followed to the loop that marks it. The invariant then only says that bits of blocks that are not
usable stay set. `PmmAllocatesFresh` is an action property that compares the blocks returned with those
handed out before: both allocations return blocks whose bits were clear, and what is in use has its bit
set (`GrantedIsTaken`). `PmmFindsRuns` is another: the counter of
`pmm_alloc_first_n_blocks` grows by one at a time, so that where n free blocks end it has been n, there
or before, and the first place where it is n ends the first run.

*Heap.* `NoOverlap` is not inductive: a split must know that the field `size` of an unused node does
not exceed the bytes that belong to it, and that only used nodes grow beyond theirs, as `heap_free`
joins blocks that are not adjacent into the node it leaves marked as used. `PrevIsUsed` is what keeps
it from merging into an unused node. `HeapStaysOff` combines `NoOverlap` with an
invariant on the arenas: no page in use is below the end of the last one, as an arena is only taken if
none of its pages is in use. For `HeapListIsCircular` the list is a numbering of nodes from
`kern_heap` to `kern_heap` (`IsList`); a split or a new arena puts a node between two numbers, a
merge takes one out, and `ListInv` adds that a first block that is unused is the only one, so
that it is never the one taken out.

*Vmm.* All writes to a table go through its window, so `VmmInv` must say where windows lead: the
directory is named by its last entry and by no other, and by no other window in the translation buffer,
however old (`DirectoryIsSafe`). Frames that can still be handed out were not written
(`FreeIsClean`), and what the tables map is neither free nor a table and mapped once
(`WalksAreOwned`). The refinement is shown step by step: each action of `Vmm` is a step of
`AddressSpace`, or leaves the map as it is.

*Spinlock.* A lock's field is 1 exactly if a context holds it. For deadlock: among the CPUs that
wait, take one whose lock is the greatest; its holder keeps to the order, so it waits for no lock.

*CpuBoot.* When the BSP leaves its loop, some CPU has identifier `i` and has arrived. Those after
`i` still sleep and those before have their index for an identifier, so it is `cpus[i]` itself,
which has fetched its stack. The invariant states this order, and the theorem therefore needs no
assumption on the identifiers.

*CpuMain.* Nobody locks, and bits are lost when two CPUs store a byte. A search still passes only
frames that some call has taken (`SearchPassedTaken`); a call that has passed a frame for every
other call has nothing left to pass, so with two frames for each CPU (`EnoughFrames`) none gets NULL.
For the table: it maps GB1, or a CPU is about to zero it or has its window on it and is about to fill
it (`TableFilled`).

*Startup.* `MemoryInv` divides the first 4 MB into zones (`Zones`, `From`) that depend on the size of
the bitmap only, and says that each region is in the zone of its name; then it remains that every
call writes into one zone. This needs `MachineFits`: a bitmap of at most five pages, modules
below the place of the key table, and no more local APICs than `MAX_CPUS`. Nothing in `kmain` tests
any of the three. `IntInv` says, for every call of `kmain`, which gates, handlers and masks are set
when it is reached; a line is only unmasked by a driver that has installed its handler. Lines 7 and 15
stay masked and the local APIC holds its own vectors only, so that what panics is a stray.
`RootPointerValid` counts matches: the n-th call of `find_rsdp` returns the n-th match, and the
loop of `apic_init` ends at the first with checksum 0. `DescriptorsMeant` is arithmetic on half words (the
limit that is kept is less than the size of the TSS exactly if the low 20 bits of its end wrap), and `StackMoved` follows the chain of frames through the copy.

*Process.* Pids are given out in order (`PidsInOrder`), so that a new process is none of those linked,
and `proc_current` exists and is not `proc_list`, the process that waits (`Current`), so that a switch
stops one process and starts another. The ring is a
permutation of the processes that are linked; `fork_link` inserts one after `proc_current`, which is
linked as it never is the process being forked. A switch in the middle of a fork is impossible since
interrupts are on only in `"run"` and after a reset (`Interruptible`).

*Ps2.* There are three invariants, each with more assumptions than the one before. `BaseInv` holds
however slow the controller is: types, which call `ps2_init` is in at which step (`CallMade`), and
the callbacks. `QuietInv` holds while no wait has run out (`~missed`): the configuration byte
that step 4 writes has both interrupts off. `SyncInv` needs silent devices as well (`~noise`): at
every step it is known what the controller holds (`AtStep1` to `AtStep9`). The controller takes a
byte at any time, so none of this can be said of the controller itself; it is said of `After`,
the controller as it will be when it has taken the byte in its input buffer, which a step of the
controller does not change.

*Kbd.* `KeysAreDecoded` is inductive with its first conjunct, `WalkFollowsHeads`: the block is that of
the bytes read since the last key. It assumes of the first line of the CSV file that a prefix is one
byte, or two of which the first is a prefix named later (`KbdConstants`). The tool stops with an error
when the byte is not named later. It would accept three bytes and link them to the block of the
second, where no walk leads by way of the first; the file has no such prefix.

The assumptions are those on the constants, named in the modules (`ProcessConstants`, for example),
which TLC evaluates for the constants of the runs, and what the table says of maps, requests, machines
and frames.

Left to TLC: liveness and fairness, which are out of the prover's reach (`LocksAreAcquired`,
`AllCpusStart`, `StartEnds`, `RequestsAreServed`, `InitEnds`, `BytesAreRead`, `PrintingEnds`), and all
of `Console`. It uses `Printf`, whose loops are recursive operators, and `Strings`; what these compute for
every input needs induction over data. So does `SentIsTransmitted`, which compares
subsequences of what was sent. `ScreenShowsLastRows` is in the same module.

## Not modelled

* `ioapic_enable_irq` (`ioapic.c`), which has no caller, so that no interrupt is ever routed through
  the I/O APIC.
* The timer (`pit.c`): neither `pit_install` nor `kwait` has a caller.
* The doubly linked list (`dllist.c`): no part of the kernel uses it, so that there is no use to
  model. Read by itself, `dllist_insert_location` does not set `prev` of the element that follows,
  and `dllist_remove` takes what `dllist_find` returns, the data, for the element.
* The 64-bit build (`arch/x86_64`): a stub that stops at once.
* Of parts that are modelled: reading from the serial port and its interrupt handler, which prints a
  line; the calibration of the timer of the local APIC and its error register; the values of saved
  registers; the contents of the TSS but for `esp0`; the bytes of the ACPI tables but for signature,
  checksum and entries; the logging of boot loader information; colours and the cursor of the screen;
  functions without a caller (`strchr`, `uart_getc`, some of `ps2.c`).
* Several CPUs in `Process`: the timer of every CPU calls `switch_task`, which uses `proc_current`
  without a lock. As `kmain` starts one process only, it finds none to switch to; what several CPUs
  would do with more is not specified by the code.
