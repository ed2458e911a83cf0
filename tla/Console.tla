------------------------------ MODULE Console -------------------------------
(***************************************************************************)
(* The two places the kernel prints to.  The screen (src/drv/vga.c) while  *)
(* the boot CPU is alone: its lock is only taken in vga_init, so that one  *)
(* call of vga_putc is one step only as long as one CPU prints.  Then the  *)
(* serial port (src/drv/uart.c), to which all CPUs write the same letters  *)
(* in cpu_common_main, each access to a register being a step of its own.  *)
(* What is printed is put together by string.c and do_printf (Strings,     *)
(* Printf), which the boot CPU calls first.                                *)
(***************************************************************************)
EXTENDS Integers, SequencesExt, Strings, Printf

CONSTANTS
  SCREEN_LENGTH, SCREEN_HEIGHT, TAB_SZ,
  Printable,   \* characters that have a picture
  MaxChars,    \* how many characters the boot CPU prints
  CPUs,
  Letters,     \* how many letters each CPU sends
  FIFO_SZ,     \* bytes the transmitter can hold when its buffer is on
  POLLS        \* how often uart_putc looks whether it is empty

VARIABLES
  call,     \* the arguments of the function of the library that is running
  screen,   \* position and memory of the screen
  paper,    \* all rows ever printed on, and how many have left the screen
  printed,  \* characters printed so far
  uart,     \* registers of the port
  uart_present,
  pc,       \* where each CPU is
  tries,    \* times it has polled in this call of uart_putc
  sent,     \* the letters uart_putc has returned UART_SUCCESS for
  next,     \* the letter it sends
  fifo,     \* what the transmitter holds
  wire      \* what it has sent

screenvars == <<screen, paper, printed>>
uartvars == <<uart, uart_present, pc, tries, sent, next, fifo, wire>>
vars == <<call, screenvars, uartvars>>

\* No function, one on two pointers into a memory, or do_printf.
NoCall == [kind |-> "none"]
StringCalls == [kind : {"string"}, mem : Memories, dst : Addr \union {Null}, src : Addr \union {Null}]
PrintfCalls == [kind : {"printf"}, directive : Directives]

Blank == " "
Columns == 0 .. SCREEN_LENGTH - 1
Rows == 0 .. SCREEN_HEIGHT - 1
Cells == 0 .. SCREEN_LENGTH * SCREEN_HEIGHT - 1
EmptyRow == [c \in Columns |-> Blank]

ASSUME ConsoleConstants ==
  /\ SCREEN_LENGTH \in Nat \ {0} /\ SCREEN_HEIGHT \in Nat \ {0} /\ TAB_SZ \in Nat \ {0}
  /\ POLLS \in Nat \ {0} /\ FIFO_SZ >= Cardinality(CPUs)

\* vga_init clears the screen; the registers of the port are as the firmware
\* left them.
Init ==
  /\ call \in {NoCall} \union StringCalls \union PrintfCalls
  /\ screen = [x |-> 0, y |-> 0, mem |-> [i \in Cells |-> Blank]]
  /\ paper = [rows |-> [r \in Rows |-> EmptyRow], gone |-> 0]
  /\ printed = 0
  /\ \E dlab \in BOOLEAN :
       uart = [dlab |-> dlab, word8 |-> FALSE, dll |-> 1, dlh |-> 0, ier |-> {}, fifo |-> FALSE]
  /\ uart_present = FALSE
  /\ pc = [c \in CPUs |-> "boot"]
  /\ tries = [c \in CPUs |-> 0]
  /\ sent = [c \in CPUs |-> <<>>]
  /\ next = [c \in CPUs |-> 1]
  /\ fifo = <<>>
  /\ wire = <<>>

\* The function is done; what it leaves, StringsAreExact and FormatsArePrinted
\* say.
Returned ==
  /\ call # NoCall
  /\ call' = NoCall
  /\ UNCHANGED <<screenvars, uartvars>>

-----------------------------------------------------------------------------
(* The screen.                                                             *)

Cell(x, y) == y * SCREEN_LENGTH + x

\* Mutant: the row that comes into view keeps what was there.
vga_scroll_dirty(s) ==
  IF s.y < SCREEN_HEIGHT THEN s
  ELSE [s EXCEPT !.y = @ - 1,
                 !.mem = [i \in Cells |-> IF i + SCREEN_LENGTH \in Cells
                                          THEN s.mem[i + SCREEN_LENGTH] ELSE s.mem[i]]]

vga_scroll(s) ==
  IF s.y < SCREEN_HEIGHT THEN s
  ELSE [s EXCEPT !.y = @ - 1,
                 !.mem = [i \in Cells |-> IF i + SCREEN_LENGTH \in Cells
                                          THEN s.mem[i + SCREEN_LENGTH] ELSE Blank]]

NewLine(s) == vga_scroll([s EXCEPT !.x = 0, !.y = @ + 1])

Wrapped(s) == IF s.x >= SCREEN_LENGTH THEN NewLine(s) ELSE s

\* vga_putc: a backspace blanks the cell of the cursor and moves it back;
\* anything without a picture is ignored.
vga_putc(s, ch) ==
  Wrapped(CASE ch = "backspace" /\ s.x > 0 -> [s EXCEPT !.mem[Cell(s.x, s.y)] = Blank, !.x = @ - 1]
            [] ch = "tab" -> [s EXCEPT !.x = @ + (TAB_SZ - ((@ + TAB_SZ) % TAB_SZ))]
            [] ch = "return" -> [s EXCEPT !.x = 0]
            [] ch = "newline" -> NewLine(s)
            [] ch \in Printable -> [s EXCEPT !.mem[Cell(s.x, s.y)] = ch, !.x = @ + 1]
            [] OTHER -> s)

Inputs == Printable \union {"backspace", "tab", "return", "newline", "bell"}

\* The rows as a printer without end would have them: the cell that is
\* written, and as many rows as the cursor has come down.
OnPaper(ch, s) ==
  LET row == paper.gone + screen.y
      rows == IF ch \in Printable \union {"backspace"} /\ ~(ch = "backspace" /\ screen.x = 0)
              THEN [paper.rows EXCEPT ![row][screen.x] = IF ch = "backspace" THEN Blank ELSE ch]
              ELSE paper.rows
      down == (ch = "newline") \/ (ch \in Printable \union {"tab"} /\ s.x = 0)
      gone == IF down /\ screen.y = SCREEN_HEIGHT - 1 THEN paper.gone + 1 ELSE paper.gone
  IN [rows |-> [r \in 0 .. gone + SCREEN_HEIGHT - 1 |-> IF r \in DOMAIN rows THEN rows[r] ELSE EmptyRow],
      gone |-> gone]

Print1 ==
  /\ call = NoCall /\ printed < MaxChars
  /\ \A c \in CPUs : pc[c] = "boot"
  /\ \E ch \in Inputs :
       /\ screen' = vga_putc(screen, ch)
       /\ paper' = OnPaper(ch, screen')
  /\ printed' = printed + 1
  /\ UNCHANGED <<call, uartvars>>

-----------------------------------------------------------------------------
(* The serial port: registers 0 and 1 are the divisor while DLAB is set.   *)

OutIer(u, set) == IF u.dlab THEN [u EXCEPT !.dlh = 0] ELSE [u EXCEPT !.ier = set]
OutDll(u, v) == IF u.dlab THEN [u EXCEPT !.dll = v] ELSE u
OutDlh(u, v) == IF u.dlab THEN [u EXCEPT !.dlh = v] ELSE OutIer(u, {v})

uart_set_baud_rate(u, dlv) ==
  [OutDlh(OutDll([u EXCEPT !.dlab = TRUE], dlv % 256), dlv \div 256) EXCEPT !.dlab = FALSE]

Divisor == 115200 \div 9600

\* Mutant: the buffers are not switched on.
uart_configured_nofifo(u) == OutIer(uart_set_baud_rate(OutIer(u, {}), Divisor), {"RDAI"})

\* Interrupts off, baud rate, FIFO and modem control, receive interrupt on.  The
\* port is taken to be one with a FIFO (16550): the 8250 that uart.c names has
\* none and ignores the register, which uart_init does not look at.
uart_configured(u) ==
  OutIer([uart_set_baud_rate(OutIer(u, {}), Divisor) EXCEPT !.fifo = TRUE], {"RDAI"})

\* uart_init, then the APs are started: every CPU is in cpu_common_main.
\* Without a port nothing but the registers is written.  The screen is not
\* looked at any more, and forgotten.
uart_init ==
  /\ \A c \in CPUs : pc[c] = "boot"
  /\ call = NoCall /\ printed = MaxChars
  /\ \E there \in BOOLEAN :
       /\ uart_present' = there
       /\ uart' = IF there THEN [uart_configured(uart) EXCEPT !.word8 = TRUE] ELSE uart_configured(uart)
  /\ pc' = [c \in CPUs |-> "putc"]
  /\ screen' = [screen EXCEPT !.x = 0, !.y = 0, !.mem = [i \in Cells |-> Blank]]
  /\ paper' = [rows |-> [r \in Rows |-> EmptyRow], gone |-> 0]
  /\ UNCHANGED <<call, printed, tries, sent, next, fifo, wire>>

LSR_MASK_EMPTY_THR == fifo = <<>>

\* uart_putc returns, the loop of cpu_common_main goes on.
Return(c) ==
  /\ next' = [next EXCEPT ![c] = @ + 1]
  /\ tries' = [tries EXCEPT ![c] = 0]
  /\ pc' = [pc EXCEPT ![c] = IF next[c] < Letters THEN "putc" ELSE "done"]

uart_putc(c) ==
  /\ pc[c] = "putc"
  /\ IF uart_present
     THEN pc' = [pc EXCEPT ![c] = "poll"] /\ UNCHANGED <<next, tries>>
     ELSE Return(c)
  /\ UNCHANGED <<call, screenvars, uart, uart_present, sent, fifo, wire>>

\* Mutant: the number of tries is not limited.
Poll_forever(c) ==
  /\ pc[c] = "poll"
  /\ IF LSR_MASK_EMPTY_THR
     THEN pc' = [pc EXCEPT ![c] = "check"] /\ UNCHANGED tries
     ELSE UNCHANGED <<pc, tries>>
  /\ UNCHANGED <<call, screenvars, uart, uart_present, sent, next, fifo, wire>>

Poll(c) ==
  /\ pc[c] = "poll"
  /\ IF tries[c] = POLLS \/ LSR_MASK_EMPTY_THR
     THEN pc' = [pc EXCEPT ![c] = "check"] /\ UNCHANGED tries
     ELSE tries' = [tries EXCEPT ![c] = @ + 1] /\ UNCHANGED pc
  /\ UNCHANGED <<call, screenvars, uart, uart_present, sent, next, fifo, wire>>

\* Ready or timed out: the register is read once more.
Check(c) ==
  /\ pc[c] = "check"
  /\ IF LSR_MASK_EMPTY_THR
     THEN pc' = [pc EXCEPT ![c] = "write"] /\ UNCHANGED <<next, tries>>
     ELSE Return(c)
  /\ UNCHANGED <<call, screenvars, uart, uart_present, sent, fifo, wire>>

\* The byte a transmitter takes: without buffers the last one stays.
Held(b) == IF uart.fifo THEN (IF Len(fifo) < FIFO_SZ THEN Append(fifo, b) ELSE fifo) ELSE <<b>>

\* outb(UART_COM1+UART_OFFSET_THR, c); return UART_SUCCESS
WriteThr(c) ==
  /\ pc[c] = "write"
  /\ fifo' = IF uart.dlab THEN fifo ELSE Held(<<c, next[c]>>)
  /\ sent' = [sent EXCEPT ![c] = Append(@, next[c])]
  /\ Return(c)
  /\ UNCHANGED <<call, screenvars, uart, uart_present, wire>>

\* The port shifts a byte out.
Transmit ==
  /\ fifo # <<>>
  /\ wire' = Append(wire, Head(fifo))
  /\ fifo' = Tail(fifo)
  /\ UNCHANGED <<call, screenvars, uart, uart_present, pc, tries, sent, next>>

\* task_enter_usermode: no more is printed.
Done == (\A c \in CPUs : pc[c] = "done") /\ fifo = <<>> /\ UNCHANGED vars

Step(c) == uart_putc(c) \/ Poll(c) \/ Check(c) \/ WriteThr(c)
Next == Returned \/ Print1 \/ uart_init \/ (\E c \in CPUs : Step(c)) \/ Transmit \/ Done
Spec ==
  /\ Init /\ [][Next]_vars
  /\ WF_vars(Returned) /\ WF_vars(Print1) /\ WF_vars(uart_init) /\ \A c \in CPUs : WF_vars(Step(c))

-----------------------------------------------------------------------------
(* What the two promise.                                                   *)

TypeOK ==
  /\ screen.x \in Columns /\ screen.y \in Rows
  /\ screen.mem \in [Cells -> Printable \union {Blank}]
  /\ Len(fifo) <= FIFO_SZ
  /\ \A c \in CPUs : next[c] \in 1 .. Letters + 1 /\ tries[c] \in 0 .. POLLS

\* The cursor stays on the screen, which shows the last rows of all that was
\* printed, each character where it was put: nothing is lost but the rows that
\* were scrolled off, and a new row is empty (vga_putc, vga_scroll).
ScreenShowsLastRows ==
  /\ TypeOK
  /\ \A r \in Rows : \A c \in Columns :
       screen.mem[Cell(c, r)] = paper.rows[paper.gone + r][c]

\* The port has the rate and the word length set, and its data register is
\* reached.
Configured ==
  /\ ~uart.dlab /\ uart.word8 /\ uart.ier = {"RDAI"}
  /\ uart.dll + 256 * uart.dlh = Divisor

\* What uart_putc has reported as sent is what the port sends, once and in
\* the order of each CPU, although no lock is held between the check that
\* the transmitter is empty and the write, and at the rate that was set,
\* however the firmware left DLAB (uart_init, uart_putc).
SentIsTransmitted ==
  /\ uart_present => Configured
  /\ \A c \in CPUs :
       LET mine == SelectSeq(wire \o fifo, LAMBDA b : b[1] = c)
       IN [i \in DOMAIN mine |-> mine[i][2]] = sent[c]

\* Printing the letters ends, even if the port never sends a byte (the loop
\* of uart_putc is bounded).
PrintingEnds == <>(\A c \in CPUs : pc[c] = "done")

\* memcpy, memset, strcpy, strncpy, strcat, strncat, strlen and the comparisons
\* of string.c do what their reference definitions say, on every small memory:
\* blocks that are apart, or overlap with the target below, are copied exactly,
\* strings are built terminated and within the room there is, which is one byte at
\* least, comparisons agree.  Not so memmove upwards and strncpy of 0 bytes (see
\* StringsAreAsDocumented).
StringsAreExact ==
  call.kind = "string" =>
    /\ CopiesAreExact(call.mem, call.dst, call.src)
    /\ Null \notin {call.dst, call.src} =>
         /\ StringsAreBuilt(call.mem, call.dst, call.src)
         /\ ComparisonsAgree(call.mem, call.dst, call.src)

\* What string.h says of memmove and strncpy, without any condition.
StringsAreAsDocumented ==
  call.kind = "string" =>
    /\ MovesAreExact(call.mem, call.dst, call.src)
    /\ CopiesStayInside(call.mem, call.dst, call.src)

\* do_printf prints every word as its directive says, and a directive neither
\* changes the next one nor takes its argument (do_printf, its states 0 to 4).
FormatsArePrinted ==
  call.kind = "printf" =>
    /\ NumbersReadBack(call.directive)
    /\ call.directive.mod = <<>> /\ call.directive.conv \in {"d", "x"}
         => DirectivesAreIndependent(call.directive)

=============================================================================
