----------------------------- MODULE Interrupts -----------------------------
(***************************************************************************)
(* How an interrupt reaches a handler on the boot CPU: the 8259 pair       *)
(* (src/arch/x86/pic.c), the local APIC (lapic.c) and the I/O APIC, which  *)
(* is wired to the same lines (ioapic.c), the gates of the IDT (idt.c)     *)
(* with the stubs of isr_asm.s, and the dispatch of isr.c.  The            *)
(* operations that set these up are called by kmain, in Startup; what they *)
(* do to the state is defined here.  Every gate is an interrupt gate, so   *)
(* that a handler runs with interrupts off and is never nested.  The 8259  *)
(* is taken to be wired to the CPU itself (PIC mode): behind LINT0, which  *)
(* lapic_install masks, its requests would not arrive at all.              *)
(***************************************************************************)
EXTENDS Integers, FiniteSetsExt

CONSTANTS
  Vectors,      \* the vectors looked at
  Devices,      \* the lines of the 8259 pair that devices use
  MAX_LVT,      \* the last local vector, as the local APIC says in its version
  MaxRequests   \* how often they, the timer and the program ask in all

VARIABLES
  idt,                  \* the code a gate leads to
  idtr,                 \* the table is loaded
  interrupt_handlers,   \* the function called for a vector
  pic,                  \* the 8259 pair: vector bases and lines
  lapic,                \* the local APIC: enabled, pending and in service
  ioapic,               \* the I/O APIC: where it sends a request of a line
  int,                  \* the interrupt flag of the CPU
  frame,                \* <<>>, or the interrupt handled and how far
  asked,                \* how often they have asked
  panic                 \* the kernel has stopped: in kmain or by an interrupt

intvars ==
  <<idt, idtr, interrupt_handlers, pic, lapic, ioapic, int, frame, asked, panic>>

IRQ0 == 32
IRQ_KEYBOARD == 33
IRQ_COM1 == 36
IRQ_PS2 == 44
IRQ_SPURIOUS == 63
IRQ_TIMER == 64
IRQ_ERROR == 65
SYSCALL == 128
PAGE_FAULT == 14

Lines == 0 .. 15
Master == 0 .. 7
PIC_IRQ_SLAVE_MASTER == 2
Apic == {IRQ_SPURIOUS, IRQ_TIMER}
Local == Apic \union {IRQ_ERROR}
LastLines == {7, 15}

\* No device has the line that the slave has on the master.
ASSUME InterruptConstants ==
  /\ Devices \subseteq Lines \ {PIC_IRQ_SLAVE_MASTER}
  /\ Vectors \subseteq 0 .. 255
  /\ Local \union {IRQ0 + n : n \in LastLines} \subseteq Vectors
  /\ {IRQ_KEYBOARD, IRQ_COM1, IRQ_PS2, SYSCALL} \subseteq Vectors
  /\ MAX_LVT \in Nat /\ MaxRequests \in Nat

\* As the firmware leaves it: the 8259 pair has its old bases and some
\* lines unmasked, a line may already be requested, and the CPU ignores it;
\* the entries of the I/O APIC are masked, as they are after a reset.
InterruptInit ==
  /\ idt = [v \in Vectors |-> "absent"]
  /\ idtr = FALSE
  /\ interrupt_handlers = [v \in Vectors |-> "null"]
  /\ \E old \in SUBSET Devices :
       pic = [base |-> [master |-> 8, slave |-> 112], masked |-> Lines \ {0, 1, 2},
              irr |-> old, isr |-> {}]
  /\ lapic = [enabled |-> FALSE, irr |-> {}, isr |-> {}]
  /\ ioapic = [n \in Lines |-> [masked |-> TRUE, vector |-> 0]]
  /\ int = FALSE
  /\ frame = <<>>
  /\ asked = 0
  /\ panic = "no"

-----------------------------------------------------------------------------
(* Setting up.                                                             *)

\* LINT0, LINT1 masked; timer, error and spurious vector set, none of them
\* masked: all of Local may come from here on.  EOI once.
lapic_install == lapic' = [lapic EXCEPT !.enabled = TRUE, !.isr = {}]

\* pic_disable, then pic_remap: the initialisation words reset both chips,
\* the masks read before are restored.
pic_init ==
  pic' = [base |-> [master |-> IRQ0, slave |-> IRQ0 + 8],
          masked |-> Lines \ {PIC_IRQ_SLAVE_MASTER}, irr |-> {}, isr |-> {}]

\* "Disable all interrupts": as many entries as the version of the local APIC
\* says it has vectors itself, which is where lapic_install takes max_interr
\* from.  The others stay as they were.
ioapic_install ==
  ioapic' = [n \in Lines |->
               IF n < MAX_LVT THEN [masked |-> TRUE, vector |-> IRQ0 + n] ELSE ioapic[n]]

pic_enabled(lines) == [pic EXCEPT !.masked = @ \ lines]

\* Every gate goes to idt_none first.  The stub an entry is set to ends in
\* isr_handler, irq_handler or intr_handler.
idt_install ==
  idt' = [v \in Vectors |->
            IF v \in 0 .. 31 \union {SYSCALL} THEN "isr"
            ELSE IF v \in IRQ0 .. IRQ0 + 15 THEN "irq"
            ELSE IF v \in Apic THEN "intr" ELSE "none"]

isr_install ==
  interrupt_handlers' =
    [v \in Vectors |-> IF v = IRQ_SPURIOUS THEN "irq_spurious" ELSE "dummy_int_handler"]

registered(handlers) ==
  [v \in Vectors |-> IF v \in DOMAIN handlers THEN handlers[v] ELSE interrupt_handlers[v]]

\* Mutant: the handler of the mouse is registered under the line's number.
ps2_interrupts_line ==
  /\ interrupt_handlers' =
       registered([v \in {IRQ_KEYBOARD, IRQ_PS2 - IRQ0} |-> "ps2_handle_interrupt"])
  /\ pic' = pic_enabled({1, IRQ_PS2 - IRQ0})

\* The end of a ps2_init that found a controller.
ps2_interrupts ==
  /\ interrupt_handlers' =
       registered([v \in {IRQ_KEYBOARD, IRQ_PS2} |-> "ps2_handle_interrupt"])
  /\ pic' = pic_enabled({1, IRQ_PS2 - IRQ0})

\* The end of a uart_init that found a port.
uart_interrupts ==
  /\ interrupt_handlers' = registered([v \in {IRQ_COM1} |-> "uart_interrupt_com1"])
  /\ pic' = pic_enabled({IRQ_COM1 - IRQ0})

syscall_init ==
  interrupt_handlers' = registered([v \in {SYSCALL} |-> "syscall_handler"])

page_fault_handler ==
  interrupt_handlers' = registered([v \in {PAGE_FAULT} |-> "vmm_handle_page_fault"])

-----------------------------------------------------------------------------
(* Requests.                                                               *)

Asks == asked < MaxRequests /\ asked' = asked + 1

Masked == {n \in Lines : ioapic[n].masked}

\* A device raises its line, which goes to both controllers.
Raise(n) ==
  /\ Asks
  /\ pic' = [pic EXCEPT !.irr = @ \union {n}]
  /\ lapic' = [lapic EXCEPT !.irr = @ \union {ioapic[m].vector : m \in {n} \ Masked}]
  /\ UNCHANGED <<ioapic, idt, idtr, interrupt_handlers, int, frame, panic>>

\* The timer of the local APIC runs out, a request vanishes, or it finds an
\* error, as a message with a vector it does not take.
Expire(v) ==
  /\ lapic.enabled
  /\ Asks
  /\ lapic' = [lapic EXCEPT !.irr = @ \union {v}]
  /\ UNCHANGED <<ioapic, idt, idtr, interrupt_handlers, pic, int, frame, panic>>

\* What the 8259 pair presents: the first line that is not held back by
\* one in service.  The slave is line 2 of the master.
Presented ==
  {n \in pic.irr \ pic.masked :
     IF n \in Master THEN \A m \in pic.isr \intersect Master : n < m
     ELSE /\ PIC_IRQ_SLAVE_MASTER \notin pic.masked
          /\ \A m \in pic.isr \intersect Master : PIC_IRQ_SLAVE_MASTER < m
          /\ \A m \in pic.isr \ Master : n < m}

First(lines) ==
  CHOOSE n \in lines : \A m \in lines :
    LET Rank(k) == IF k \in Master THEN 10 * k ELSE 10 * PIC_IRQ_SLAVE_MASTER + k - 7
    IN Rank(n) <= Rank(m)

\* The CPU enters the gate of a vector.  Without a table there is none, and
\* idt_none panics, as it does for IRQ_ERROR.
Enter(v) ==
  /\ int' = FALSE
  /\ IF idtr /\ v \in Vectors /\ idt[v] \notin {"absent", "none"}
     THEN frame' = <<v, idt[v]>> /\ UNCHANGED panic
     ELSE frame' = <<v, "none">> /\ panic' = "interrupt"

Running == panic = "no" /\ frame = <<>>

TakePic ==
  LET n == First(Presented)
  IN /\ Running
     /\ int
     /\ Presented # {}
     /\ pic' = [pic EXCEPT !.irr = @ \ {n},
                           !.isr = @ \union {n} \union
                             (IF n \in Master THEN {} ELSE {PIC_IRQ_SLAVE_MASTER})]
     /\ Enter(IF n \in Master THEN pic.base.master + n ELSE pic.base.slave + (n - 8))
     /\ UNCHANGED <<ioapic, idt, idtr, interrupt_handlers, lapic, asked>>

\* The line is withdrawn before the CPU asks for the vector: the chip gives
\* the one of its last line and has nothing in service.
TakeWithdrawn ==
  LET n == First(Presented)
  IN /\ Running
     /\ int
     /\ Presented # {}
     /\ pic' = [pic EXCEPT !.irr = @ \ {n},
                           !.isr = @ \union (IF n \in Master THEN {} ELSE {PIC_IRQ_SLAVE_MASTER})]
     /\ Enter(IF n \in Master THEN pic.base.master + 7 ELSE pic.base.slave + 7)
     /\ UNCHANGED <<ioapic, idt, idtr, interrupt_handlers, lapic, asked>>

\* One in service holds back those of its class.  A spurious interrupt is
\* never held back and never in service.
TakeApic(v) ==
  /\ Running
  /\ int
  /\ v \in lapic.irr
  /\ v = IRQ_SPURIOUS \/ \A w \in lapic.isr : v \div 16 > w \div 16
  /\ lapic' = [lapic EXCEPT !.irr = @ \ {v}, !.isr = @ \union ({v} \ {IRQ_SPURIOUS})]
  /\ Enter(v)
  /\ UNCHANGED <<ioapic, idt, idtr, interrupt_handlers, pic, asked>>

\* int 0x80 of the program, whatever the interrupt flag.
TakeSyscall ==
  /\ Running
  /\ Asks
  /\ Enter(SYSCALL)
  /\ UNCHANGED <<ioapic, idt, idtr, interrupt_handlers, pic, lapic>>

-----------------------------------------------------------------------------
(* Dispatch.                                                               *)

\* The stub pushes its number as a signed byte, or as a double word.
Pushed(v) == IF idt[v] = "isr" /\ v >= 128 THEN v - 256 ELSE v

\* Calls the handler; dummy_int_handler and the page fault handler panic.
Call(n) ==
  IF interrupt_handlers[n] \in {"null", "dummy_int_handler", "vmm_handle_page_fault"}
  THEN panic' = "interrupt" /\ UNCHANGED frame
  ELSE frame' = <<frame[1], "ret">> /\ UNCHANGED panic

isr_handler ==
  /\ panic = "no"
  /\ frame # <<>> /\ frame[2] = "isr"
  /\ Call(Pushed(frame[1]) % 256)
  /\ UNCHANGED <<ioapic, idt, idtr, interrupt_handlers, pic, lapic, int, asked>>

\* A non-specific EOI ends the first one in service of a chip.
Ended(lines) == IF lines = {} THEN {} ELSE {Min(lines)}

\* Mutant: only the master is told.
irq_handler_master ==
  /\ panic = "no"
  /\ frame # <<>> /\ frame[2] = "irq"
  /\ pic' = [pic EXCEPT !.isr = @ \ Ended(@ \intersect Master)]
  /\ Call(frame[1])
  /\ UNCHANGED <<ioapic, idt, idtr, interrupt_handlers, lapic, int, asked>>

\* The slave and the master are told before the handler runs.
irq_handler ==
  /\ panic = "no"
  /\ frame # <<>> /\ frame[2] = "irq"
  /\ pic' = [pic EXCEPT !.isr =
               (@ \ Ended(@ \intersect Master))
                 \ (IF frame[1] >= 40 THEN Ended(@ \ Master) ELSE {})]
  /\ Call(frame[1])
  /\ UNCHANGED <<ioapic, idt, idtr, interrupt_handlers, lapic, int, asked>>

\* switch_task finds no proc_list (see Process), then the local APIC is
\* told, also after a spurious interrupt.
intr_handler ==
  /\ panic = "no"
  /\ frame # <<>> /\ frame[2] = "intr"
  /\ lapic' = [lapic EXCEPT !.isr = @ \ (IF @ = {} THEN {} ELSE {Max(@)})]
  /\ frame' = <<frame[1], "ret">>
  /\ UNCHANGED <<ioapic, idt, idtr, interrupt_handlers, pic, int, asked, panic>>

\* The end of the stub: registers are restored, iret sets the flag again.
stub_return ==
  /\ panic = "no"
  /\ frame # <<>> /\ frame[2] = "ret"
  /\ frame' = <<>>
  /\ int' = TRUE
  /\ UNCHANGED <<ioapic, idt, idtr, interrupt_handlers, pic, lapic, asked, panic>>

Dispatch == isr_handler \/ irq_handler \/ intr_handler \/ stub_return
Deliver == TakePic \/ \E v \in lapic.irr : TakeApic(v)

-----------------------------------------------------------------------------
(* What the set-up and the dispatch promise.                               *)

InterruptTypeOK ==
  /\ pic.masked \subseteq Lines /\ pic.irr \subseteq Lines /\ pic.isr \subseteq Lines
  /\ lapic.irr \subseteq Vectors /\ lapic.isr \subseteq Vectors
  /\ int \in BOOLEAN /\ idtr \in BOOLEAN
  /\ frame = <<>> \/ frame[1] \in Vectors
  /\ panic \in {"no", "boot", "interrupt"}

\* No device that is enabled, timer or system call ever ends in idt_none,
\* in dummy_int_handler or without a table: whenever kmain lets a request
\* through, its gate and its handler are in place (kmain, isr_handler).  What
\* does stop the kernel is an error of the local APIC, which lapic_install lets
\* through without a gate, and a request that a device takes back: the vector
\* of line 7 or 15 while these lines are masked (irq_handler).  And
\* the local APIC holds no other vector whose stub does not tell it of the end,
\* as a line let through by the I/O APIC would be (ioapic_install, intr_handler).
OnlyStraysPanic ==
  /\ panic = "interrupt" =>
       /\ frame[1] \in {IRQ_ERROR} \union {IRQ0 + n : n \in LastLines}
       /\ LastLines \subseteq pic.masked
  /\ \A v \in lapic.irr \union lapic.isr : v = IRQ_ERROR \/ idt[v] = "intr"

\* isr.c says of dummy_int_handler, which an interrupt without a function ends
\* in: "At the moment, it does nothing".
DummyDoesNothing == panic = "interrupt" => frame[2] # "irq"

=============================================================================
