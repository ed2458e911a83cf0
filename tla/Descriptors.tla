---------------------------- MODULE Descriptors -----------------------------
(***************************************************************************)
(* The descriptors the CPU reads: gdt_install with gdt_set_gate and        *)
(* write_tss (src/arch/x86/gdt.c), and idt_set_gate (idt.c).  A 32-bit     *)
(* value is a pair of 16-bit halves, the high one first.  How the CPU puts *)
(* a descriptor together again is the reference they are checked against.  *)
(***************************************************************************)
EXTENDS Integers, Sequences

CONSTANT Addresses   \* where a CPU's cpu_info or a stub may be

HALF == 256 * 256
Halves == 0 .. HALF - 1

ASSUME AddressesAreWords == Addresses \subseteq Halves \X Halves

Zero == <<0, 0>>
Ones == <<HALF - 1, HALF - 1>>

\* a + n for a small n, in 32 bits.
Plus(a, n) == <<(a[1] + ((a[2] + n) \div HALF)) % HALF, (a[2] + n) % HALF>>
AtMost(a, b) == a[1] < b[1] \/ (a[1] = b[1] /\ a[2] <= b[2])

TSS == 76            \* offset of tss in cpu_info
TSS_SZ == 104        \* sizeof(tss_entry)
CPU == TSS + TSS_SZ  \* offset of cpu
PTR_SZ == 4

-----------------------------------------------------------------------------
(* gdt.c and idt.c                                                         *)

\* Mutant: the third byte of the base is taken from the low half.
gdt_set_gate_low(base, limit, access, gran) ==
  [limit_low |-> limit[2], base_low |-> base[2], base_middle |-> base[2] \div 256,
   access |-> access, granularity |-> (limit[1] % 16) + 16 * (gran \div 16),
   base_high |-> base[1] \div 256]

gdt_set_gate(base, limit, access, gran) ==
  [limit_low |-> limit[2], base_low |-> base[2], base_middle |-> base[1] % 256,
   access |-> access, granularity |-> (limit[1] % 16) + 16 * (gran \div 16),
   base_high |-> base[1] \div 256]

\* The limit passed is the address of the end.
write_tss(c) == gdt_set_gate(Plus(c, TSS), Plus(c, TSS + TSS_SZ), 233, 0)

\* Entries 0 to 6.  The limit of the last one is the address of cpu, plus 4
\* pointers.
gdt_install(c) ==
  << gdt_set_gate(Zero, Zero, 0, 0),
     gdt_set_gate(Zero, Ones, 154, 207),
     gdt_set_gate(Zero, Ones, 146, 207),
     gdt_set_gate(Zero, Ones, 250, 207),
     gdt_set_gate(Zero, Ones, 242, 207),
     write_tss(c),
     gdt_set_gate(Plus(c, CPU), Plus(c, CPU + PTR_SZ * PTR_SZ), 146, 207) >>

\* flags | 0x60
idt_set_gate(base, sel, flags) ==
  [base_low |-> base[2], selector |-> sel, zero |-> 0,
   flags |-> 128 * (flags \div 128) + 96 + (flags % 32), base_high |-> base[1]]

-----------------------------------------------------------------------------
(* The CPU                                                                 *)

Base(d) == <<256 * d.base_high + d.base_middle, d.base_low>>

\* The offset of the last byte: the limit counts pages if bit G is set.
Top(d) ==
  LET high == d.granularity % 16
  IN IF d.granularity >= 128
     THEN <<4096 * high + (d.limit_low \div 16), 4096 * (d.limit_low % 16) + 4095>>
     ELSE <<high, d.limit_low>>

IsPresent(flags) == flags >= 128
Privilege(flags) == (flags \div 32) % 4
Kind(flags) == flags % 32

Code == 26             \* readable code, not a system descriptor
Data == 18             \* writable data
TaskState == 9         \* 32-bit TSS, available
InterruptGate == 14    \* 32-bit, clears the interrupt flag

\* The code or data segment with selector sel is all of memory.
IsFlat(gdt, sel, kind) ==
  LET d == gdt[1 + (sel \div 8)]
  IN /\ IsPresent(d.access) /\ Kind(d.access) = kind
     /\ Privilege(d.access) = sel % 4
     /\ Base(d) = Zero /\ Top(d) = Ones

-----------------------------------------------------------------------------
(* What the descriptors promise.                                           *)

\* A multiple of 1 MB is behind the start of the TSS and not behind its end, so
\* that the 20 bits of the limit wrap.
Straddles(c) == Plus(c, TSS + 1)[1] \div 16 # Plus(c, TSS + TSS_SZ)[1] \div 16

\* What the CPU puts together from the table gdt of the CPU whose cpu_info is
\* at c: flat segments for the kernel (8, 16) and for programs (27, 35), the
\* TSS (40) and at gs:0 (48) the pointer to cpu_info.  The limit of the TSS, an
\* address, reaches to its last byte exactly if it straddles no multiple of 1 MB.
SelectorsLead(c, gdt) ==
  LET tss == gdt[1 + (40 \div 8)]
      gs  == gdt[1 + (48 \div 8)]
  IN /\ IsFlat(gdt, 8, Code) /\ IsFlat(gdt, 16, Data)
     /\ IsFlat(gdt, 27, Code) /\ IsFlat(gdt, 35, Data)
     /\ IsPresent(tss.access) /\ Kind(tss.access) = TaskState
     /\ Base(tss) = Plus(c, TSS)
     /\ (AtMost(<<0, TSS_SZ - 1>>, Top(tss)) <=> ~Straddles(c))
     /\ IsPresent(gs.access) /\ Kind(gs.access) = Data
     /\ Base(gs) = Plus(c, CPU) /\ AtMost(<<0, PTR_SZ - 1>>, Top(gs))

\* The gate of a stub leads to it in the kernel's code segment of gdt with
\* interrupts off, and int n of a program may use it.
GateLeads(stub, gdt) ==
  LET gate == idt_set_gate(stub, 8, 142)
  IN /\ <<gate.base_high, gate.base_low>> = stub
     /\ IsFlat(gdt, gate.selector, Code)
     /\ IsPresent(gate.flags) /\ Kind(gate.flags) = InterruptGate
     /\ Privilege(gate.flags) = 3
=============================================================================
