--------------------------- MODULE StartupProofs ----------------------------
(***************************************************************************)
(* What kmain sets up, for every machine: the descriptors of any CPU, any  *)
(* stack that move_stack copies, the handlers of all requests and the      *)
(* places of all that is put into the first 4 MB.                          *)
(***************************************************************************)
EXTENDS Startup, NatFacts, FiniteSetTheorems, TLAPS

-----------------------------------------------------------------------------
(* gdt_install and idt_set_gate.                                           *)

\* What the number of values of a half word is to the bits the CPU takes from it.
LEMMA HalfFacts ==
  /\ HALF \in Nat /\ HALF > 255
  /\ (HALF - 1) % 16 = 15
  /\ 4096 * 15 + ((HALF - 1) \div 16) = HALF - 1
  /\ 4096 * 15 + 4095 = HALF - 1
BY SMT DEF HALF

\* Division of a sum that is below twice the divisor.
LEMMA Carry ==
  ASSUME NEW H \in Nat, H > 0, NEW s \in Nat
  PROVE  /\ s < H => s \div H = 0 /\ s % H = s
         /\ s >= H /\ s < H + H => s \div H = 1 /\ s % H = s - H
<1>1. ASSUME s < H PROVE s \div H = 0 /\ s % H = s
  BY <1>1
<1>2. ASSUME s >= H, s < H + H PROVE s \div H = 1 /\ s % H = s - H
  BY <1>2
<1>3. QED
  BY <1>1, <1>2

\* <<u, v>> is <<x, y>> + n: there is a carry or not.
IsSum(x, y, n, u, v) ==
  \/ u = x /\ v = y + n
  \/ u = x + 1 /\ v = (y + n) - HALF
  \/ x = HALF - 1 /\ u = 0 /\ v = (y + n) - HALF

\* Plus adds a small number to a 32-bit one, in halves.
LEMMA PlusHalves ==
  ASSUME NEW x \in Halves, NEW y \in Halves, NEW n \in 0 .. 255
  PROVE  \E u \in Halves, v \in Halves : Plus(<<x, y>>, n) = <<u, v>> /\ IsSum(x, y, n, u, v)
<1> USE HalfFacts DEF Halves, IsSum
<1>1. CASE y + n < HALF
  <2>1. (y + n) \div HALF = 0 /\ (y + n) % HALF = y + n /\ (x + 0) % HALF = x
    BY <1>1, Carry
  <2>2. Plus(<<x, y>>, n) = <<x, y + n>>
    BY <2>1 DEF Plus
  <2>3. y + n \in Halves
    BY <1>1
  <2>4. QED
    BY <2>2, <2>3
<1>2. CASE y + n >= HALF
  <2> DEFINE u == (x + 1) % HALF
             v == (y + n) - HALF
  <2>1. (y + n) \div HALF = 1 /\ (y + n) % HALF = v
    BY <1>2, Carry
  <2>2. v \in Halves
    BY <1>2
  <2>3. u \in Halves /\ (u = x + 1 \/ (x = HALF - 1 /\ u = 0))
    <3>1. CASE x + 1 < HALF
      BY <3>1, Carry
    <3>2. CASE x + 1 = HALF
      BY <3>2, Carry
    <3>3. QED
      BY <3>1, <3>2
  <2>4. Plus(<<x, y>>, n) = <<u, v>>
    BY <2>1 DEF Plus
  <2> HIDE DEF u
  <2>5. QED
    BY <2>2, <2>3, <2>4
<1>3. QED
  BY <1>1, <1>2

\* The CPU reads from a descriptor the base that was put into it.
LEMMA BaseIsSet ==
  ASSUME NEW x \in Nat, NEW y, NEW limit, NEW access, NEW gran
  PROVE  Base(gdt_set_gate(<<x, y>>, limit, access, gran)) = <<x, y>>
<1>1. 256 * (x \div 256) + (x % 256) = x
  OBVIOUS
<1>2. QED
  BY <1>1 DEF Base, gdt_set_gate

\* The four code and data segments of gdt_install are all of memory.
LEMMA FlatSegments ==
  ASSUME NEW c
  PROVE  /\ IsFlat(gdt_install(c), 8, Code) /\ IsFlat(gdt_install(c), 16, Data)
         /\ IsFlat(gdt_install(c), 27, Code) /\ IsFlat(gdt_install(c), 35, Data)
<1> DEFINE d(a) == gdt_set_gate(Zero, Ones, a, 207)
<1>1. /\ 1 + (8 \div 8) = 2 /\ 1 + (16 \div 8) = 3 /\ 1 + (27 \div 8) = 4 /\ 1 + (35 \div 8) = 5
      /\ 8 % 4 = 0 /\ 16 % 4 = 0 /\ 27 % 4 = 3 /\ 35 % 4 = 3
  OBVIOUS
<1>2. /\ gdt_install(c)[2] = d(154) /\ gdt_install(c)[3] = d(146)
      /\ gdt_install(c)[4] = d(250) /\ gdt_install(c)[5] = d(242)
  BY DEF gdt_install
<1>3. /\ IsPresent(154) /\ Kind(154) = Code /\ Privilege(154) = 0
      /\ IsPresent(146) /\ Kind(146) = Data /\ Privilege(146) = 0
      /\ IsPresent(250) /\ Kind(250) = Code /\ Privilege(250) = 3
      /\ IsPresent(242) /\ Kind(242) = Data /\ Privilege(242) = 3
  BY DEF IsPresent, Kind, Privilege, Code, Data
<1>4. ASSUME NEW a PROVE d(a).access = a /\ Base(d(a)) = Zero /\ Top(d(a)) = Ones
  <2>1. d(a).access = a /\ Base(d(a)) = Zero
    <3>1. Base(d(a)) = Zero
      BY BaseIsSet, 0 \in Nat DEF Zero
    <3>2. QED
      BY <3>1 DEF gdt_set_gate
  <2>2. d(a).limit_low = HALF - 1 /\ d(a).granularity = ((HALF - 1) % 16) + 16 * (207 \div 16)
    BY DEF gdt_set_gate, Ones
  <2>3. d(a).granularity = 207 /\ 207 % 16 = 15
    BY <2>2, HalfFacts
  <2>4. Top(d(a)) = <<4096 * 15 + ((HALF - 1) \div 16), 4096 * ((HALF - 1) % 16) + 4095>>
    BY <2>2, <2>3 DEF Top
  <2>5. QED
    BY <2>1, <2>4, HalfFacts DEF Ones
<1> HIDE DEF d
<1>5. QED
  BY <1>1, <1>2, <1>3, <1>4 DEF IsFlat

\* The descriptor of the TSS reaches to its end, although write_tss passes the
\* address of the end as limit, exactly if the 20 bits of the limit do not wrap
\* in between.
LEMMA TssInFull ==
  ASSUME NEW x \in Halves, NEW y \in Halves
  PROVE  LET c == <<x, y>>
         IN AtMost(<<0, TSS_SZ - 1>>, Top(write_tss(c))) <=> ~Straddles(c)
<1> DEFINE c == <<x, y>>
<1>1. PICK u \in Halves, v \in Halves : Plus(c, 77) = <<u, v>> /\ IsSum(x, y, 77, u, v)
  <2>1. 77 \in 0 .. 255
    OBVIOUS
  <2>2. QED
    BY <2>1, PlusHalves, Zenon
<1>2. PICK s \in Halves, t \in Halves : Plus(c, 180) = <<s, t>> /\ IsSum(x, y, 180, s, t)
  <2>1. 180 \in 0 .. 255
    OBVIOUS
  <2>2. QED
    BY <2>1, PlusHalves, Zenon
<1>3. Top(write_tss(c)) = <<s % 16, t>>
  <2>1. \A b : gdt_set_gate(b, <<s, t>>, 233, 0).limit_low = t
                /\ gdt_set_gate(b, <<s, t>>, 233, 0).granularity = (s % 16) + 16 * (0 \div 16)
    BY DEF gdt_set_gate
  <2>2. write_tss(c).limit_low = t /\ write_tss(c).granularity = (s % 16) + 16 * (0 \div 16)
    BY <1>2, <2>1 DEF write_tss, TSS, TSS_SZ
  <2>3. s \in Nat
    BY DEF Halves
  <2>4. write_tss(c).granularity = s % 16 /\ s % 16 \in 0 .. 15 /\ (s % 16) % 16 = s % 16
    BY <2>2, <2>3
  <2>5. QED
    BY <2>2, <2>4 DEF Top
<1>4. Straddles(c) <=> u \div 16 # s \div 16
  BY <1>1, <1>2 DEF Straddles, TSS, TSS_SZ
<1> u \in Nat /\ s \in Nat /\ u < HALF /\ s < HALF /\ v \in Nat /\ t \in Nat /\ v < HALF /\ t < HALF
    /\ x \in Nat /\ y \in Nat /\ x < HALF /\ y < HALF
  BY HalfFacts DEF Halves
<1>6. \/ u = s /\ t = v + 103
      \/ s = u + 1 /\ t < 103
      \/ u = HALF - 1 /\ s = 0 /\ t < 103
  BY <1>1, <1>2, HalfFacts DEF IsSum
<1>7. AtMost(<<0, TSS_SZ - 1>>, Top(write_tss(c))) <=> (0 < s % 16 \/ (0 = s % 16 /\ 103 <= t))
  BY <1>3 DEF AtMost, TSS_SZ
<1>8. CASE u = s /\ t = v + 103
  <2>1. 0 < s % 16 \/ (0 = s % 16 /\ 103 <= t)
    BY <1>8
  <2>2. QED
    BY <1>4, <1>7, <1>8, <2>1
<1>9. CASE s = u + 1 /\ t < 103
  <2>1. u \div 16 = s \div 16 <=> 0 < s % 16
    BY <1>9
  <2>2. QED
    BY <1>4, <1>7, <1>9, <2>1
<1>10. CASE u = HALF - 1 /\ s = 0 /\ t < 103
  <2>1. (HALF - 1) \div 16 # 0 \div 16 /\ 0 % 16 = 0
    BY DEF HALF
  <2>2. QED
    BY <1>4, <1>7, <1>10, <2>1
<1>11. QED
  BY <1>6, <1>8, <1>9, <1>10

\* Every selector the kernel uses leads where it should, wherever the cpu_info of
\* the CPU was linked to.
LEMMA SelectorsAreSet ==
  ASSUME NEW x \in Halves, NEW y \in Halves
  PROVE  SelectorsLead(<<x, y>>, gdt_install(<<x, y>>))
<1> DEFINE c == <<x, y>>
           gdt == gdt_install(c)
<1>1. PICK u \in Halves, v \in Halves : Plus(c, 76) = <<u, v>> /\ IsSum(x, y, 76, u, v)
  <2>1. 76 \in 0 .. 255
    OBVIOUS
  <2>2. QED
    BY <2>1, PlusHalves, Zenon
<1>2. PICK s \in Halves, t \in Halves : Plus(c, 180) = <<s, t>> /\ IsSum(x, y, 180, s, t)
  <2>1. 180 \in 0 .. 255
    OBVIOUS
  <2>2. QED
    BY <2>1, PlusHalves, Zenon
<1>3. PICK p \in Halves, q \in Halves : Plus(c, 196) = <<p, q>> /\ IsSum(x, y, 196, p, q)
  <2>1. 196 \in 0 .. 255
    OBVIOUS
  <2>2. QED
    BY <2>1, PlusHalves, Zenon
<1> u \in Nat /\ s \in Nat /\ p \in Nat /\ q \in Nat
  BY HalfFacts DEF Halves
<1> /\ 1 + (40 \div 8) = 6 /\ 1 + (48 \div 8) = 7
    /\ gdt[6] = write_tss(c)
    /\ gdt[6] = gdt_set_gate(<<u, v>>, <<s, t>>, 233, 0)
    /\ gdt[7] = gdt_set_gate(<<s, t>>, <<p, q>>, 146, 207)
  BY <1>1, <1>2, <1>3 DEF gdt_install, write_tss, TSS, TSS_SZ, CPU, PTR_SZ
<1> HIDE DEF gdt
<1>6. /\ Base(gdt[6]) = Plus(c, TSS) /\ Base(gdt[7]) = Plus(c, CPU)
  <2>1. Base(gdt[6]) = <<u, v>> /\ Base(gdt[7]) = <<s, t>>
    BY BaseIsSet
  <2>2. QED
    BY <1>1, <1>2, <2>1 DEF TSS, TSS_SZ, CPU
<1>7. AtMost(<<0, TSS_SZ - 1>>, Top(gdt[6])) <=> ~Straddles(c)
  BY TssInFull
<1>8. AtMost(<<0, PTR_SZ - 1>>, Top(gdt[7]))
  <2>1. gdt[7].granularity = (p % 16) + 192 /\ gdt[7].limit_low = q
    BY DEF gdt_set_gate
  <2> gdt[7].granularity \in Nat /\ gdt[7].granularity >= 128
    BY <2>1
  <2>3. Top(gdt[7]) = <<4096 * (gdt[7].granularity % 16) + (q \div 16), 4096 * (q % 16) + 4095>>
    BY <2>1 DEF Top
  <2>4. 4096 * (gdt[7].granularity % 16) + (q \div 16) >= 0 /\ 4096 * (q % 16) + 4095 >= 3
    OBVIOUS
  <2>5. QED
    BY <2>3, <2>4 DEF AtMost, PTR_SZ
<1>9. /\ IsPresent(gdt[6].access) /\ Kind(gdt[6].access) = TaskState
       /\ IsPresent(gdt[7].access) /\ Kind(gdt[7].access) = Data
  BY DEF gdt_set_gate, IsPresent, Kind, TaskState, Data
<1>10. QED
  BY <1>6, <1>7, <1>8, <1>9, FlatSegments DEF SelectorsLead, gdt

\* Every gate that idt_install sets leads to its stub.
LEMMA GatesAreSet ==
  ASSUME NEW c, NEW stub \in Halves \X Halves
  PROVE  GateLeads(stub, gdt_install(c))
<1> DEFINE gate == idt_set_gate(stub, 8, 142)
<1>1. stub = <<stub[1], stub[2]>>
  OBVIOUS
<1>2. /\ gate.base_high = stub[1] /\ gate.base_low = stub[2] /\ gate.selector = 8
      /\ gate.flags = 128 * (142 \div 128) + 96 + (142 % 32)
  BY DEF idt_set_gate
<1> HIDE DEF gate
<1>3. gate.flags = 238
  BY <1>2
<1>4. IsPresent(238) /\ Kind(238) = InterruptGate /\ Privilege(238) = 3
  BY DEF IsPresent, Kind, InterruptGate, Privilege
<1>5. QED
  BY <1>1, <1>2, <1>3, <1>4, FlatSegments DEF GateLeads, gate

\* What gdt_install leaves, for every CPU, is as it is meant.
LEMMA TablesAreMeant == made \in Tables => DescriptorsAreAsMeant
<1> SUFFICES ASSUME made \in Tables PROVE DescriptorsAreAsMeant
  OBVIOUS
<1>1. PICK c \in Addresses : made = [kind |-> "gdt", cpu |-> c, gdt |-> gdt_install(c)]
  BY DEF Tables
<1> made.cpu = c /\ made.gdt = gdt_install(c) /\ c \in Halves \X Halves
  BY <1>1, AddressesAreWords
<1>3. SelectorsLead(made.cpu, made.gdt)
  <2>1. c[1] \in Halves /\ c[2] \in Halves /\ c = <<c[1], c[2]>>
    OBVIOUS
  <2>2. QED
    BY <2>1, SelectorsAreSet
<1>4. \A stub \in Addresses : GateLeads(stub, made.gdt)
  BY GatesAreSet, AddressesAreWords
<1>5. QED
  BY <1>3, <1>4 DEF DescriptorsAreAsMeant

-----------------------------------------------------------------------------
(* move_stack.                                                             *)

\* The sizes and places of the two stacks as numbers.
LEMMA StackFacts ==
  /\ STACK_SZ \in Nat /\ INIT_ESP \in Nat /\ NEW_STACK \in Nat /\ offset \in Nat
  /\ STACK_SZ > 0 /\ STACK_SZ < INIT_ESP /\ offset >= STACK_SZ /\ offset = NEW_STACK - INIT_ESP
  /\ \A a \in Old : a \in Nat /\ a >= INIT_ESP - STACK_SZ /\ a < INIT_ESP
  /\ \A a \in Nat : a >= INIT_ESP - STACK_SZ /\ a < INIT_ESP => a \in Old
  /\ Garbage \notin Old /\ Garbage \in Nat /\ Garbage > NEW_STACK
BY StackConstants, SMT DEF offset, Old, Garbage

\* The chain of saved base pointers is the sequence its recursive definition
\* describes.
LEMMA ChainEquation ==
  ASSUME NEW mem, NEW ebp \in Old, \A a \in Old : mem[a] \in Old \cup {Garbage}
  PROVE  LET chain == Frames(mem, ebp, STACK_SZ)
         IN /\ chain[0] = ebp
            /\ \A i \in 1 .. STACK_SZ :
                 chain[i] = IF chain[i - 1] \in Old THEN mem[chain[i - 1]] ELSE Garbage
<1> DEFINE S == Old \cup {Garbage}
           n == STACK_SZ
           g == [x \in S |-> IF x \in Old THEN mem[x] ELSE Garbage]
           Eq(h) == h = [i \in 0 .. n |-> IF i = 0 THEN ebp
                                          ELSE IF h[i - 1] \in Old THEN mem[h[i - 1]] ELSE Garbage]
<1> n \in Nat /\ ebp \in S
  BY StackFacts
<1>2. g \in [S -> S]
  OBVIOUS
<1>3. \A x \in S : g[x] = IF x \in Old THEN mem[x] ELSE Garbage
  OBVIOUS
<1> HIDE DEF S, n, g
<1>4. \E f : IsIteration(f, S, ebp, g, n)
  BY <1>2, IterationExists
<1>5. PICK f \in [0 .. n -> S] : f[0] = ebp /\ \A k \in 1 .. n : f[k] = g[f[k - 1]]
  BY <1>4, Zenon DEF IsIteration
<1>6. Eq(f)
  <2>1. ASSUME NEW k \in 0 .. n
        PROVE  f[k] = IF k = 0 THEN ebp
                      ELSE IF f[k - 1] \in Old THEN mem[f[k - 1]] ELSE Garbage
    <3>1. CASE k = 0
      BY <1>5, <3>1
    <3>2. CASE k # 0
      <4>1. k \in 1 .. n /\ k - 1 \in 0 .. n
        BY <3>2
      <4>2. f[k] = g[f[k - 1]] /\ f[k - 1] \in S
        BY <1>5, <4>1
      <4>3. QED
        BY <1>3, <3>2, <4>2
    <3>3. QED
      BY <3>1, <3>2
  <2>2. f = [k \in 0 .. n |-> f[k]]
    BY <1>5
  <2>3. QED
    BY <2>1, <2>2
<1> DEFINE W == Frames(mem, ebp, STACK_SZ)
<1>7. W = CHOOSE h : Eq(h)
  BY DEF Frames, n
<1>8. Eq(W)
  BY <1>6, <1>7, Zenon
<1> HIDE DEF W
<1>9. W = [i \in 0 .. n |-> IF i = 0 THEN ebp ELSE IF W[i - 1] \in Old THEN mem[W[i - 1]] ELSE Garbage]
  BY <1>8, Zenon
<1>10. W[0] = ebp /\ \A i \in 1 .. n : W[i] = IF W[i - 1] \in Old THEN mem[W[i - 1]] ELSE Garbage
  BY <1>9
<1>11. QED
  BY <1>10 DEF W, n

\* move_stack moves every stack that kmain can have.
LEMMA StackCopied ==
  ASSUME NEW s \in Stacks
  PROVE  IsMoved(s, move_stack_to(Holding(s), s.esp, s.ebp))
<1> DEFINE mem == Holding(s)
           new == move_stack_to(mem, s.esp, s.ebp)
           cop == Copied(mem, s.esp)
           chain == Frames(mem, s.ebp, STACK_SZ)
           moved(a) == IF a \in Old THEN a + offset ELSE a
<1> /\ s.mem \in [Old -> Old \cup {Garbage}] /\ s.esp \in Old /\ s.ebp \in Old
    /\ s.esp < s.ebp /\ \A a \in Old : s.mem[a] \in Old => s.mem[a] > a
  BY DEF Stacks
<1> \A a \in Old : mem[a] = s.mem[a] /\ a \in Words
  BY StackFacts DEF Holding, Words
<1> DEFINE e == s.esp
<1> new.esp = e + offset /\ new.ebp = s.ebp + offset /\ new.mem = Adjusted(cop, e)
  BY DEF move_stack_to
<1> HIDE DEF mem, new
<1>4. ASSUME NEW a \in Old, a >= e
      PROVE  new.mem[a + offset] = moved(mem[a])
  <2> /\ a \in Nat /\ a + offset \in Words /\ (a + offset) - offset = a
      /\ a \in e .. INIT_ESP - 1 /\ a + offset >= NEW_STACK - STACK_SZ
    BY <1>4, StackFacts DEF Words
  <2>2. cop[a + offset] = mem[a]
    BY DEF Copied
  <2>3. new.mem[a + offset] = IF e < mem[a] /\ mem[a] < INIT_ESP THEN mem[a] + offset ELSE mem[a]
    BY <2>2 DEF Adjusted
  <2>4. CASE mem[a] \in Old
    <3>1. e < mem[a] /\ mem[a] < INIT_ESP
      <4>1. mem[a] > a /\ mem[a] \in Nat /\ e \in Nat /\ mem[a] < INIT_ESP
        BY <2>4, StackFacts, Zenon
      <4>2. QED
        BY <1>4, <4>1
    <3>2. QED
      BY <2>3, <2>4, <3>1
  <2>5. CASE mem[a] = Garbage
    <3>1. ~(mem[a] < INIT_ESP) /\ mem[a] \notin Old
      BY <2>5, StackFacts
    <3>2. QED
      BY <2>3, <3>1
  <2>6. QED
    BY <2>4, <2>5
<1>5. \A a \in Old : new.mem[a] = mem[a]
  <2> SUFFICES ASSUME NEW a \in Old PROVE new.mem[a] = mem[a]
    OBVIOUS
  <2>1. a \in Words /\ a - offset \notin e .. INIT_ESP - 1 /\ ~(a >= NEW_STACK - STACK_SZ)
    <3>1. a \in Nat /\ a < INIT_ESP /\ e \in Nat /\ e >= INIT_ESP - STACK_SZ
      BY StackFacts
    <3>2. QED
      BY <3>1, StackFacts
  <2>2. cop[a] = mem[a]
    BY <2>1 DEF Copied
  <2>3. QED
    BY <2>1, <2>2 DEF Adjusted
<1> /\ chain[0] = s.ebp
    /\ \A i \in 1 .. STACK_SZ : chain[i] = IF chain[i - 1] \in Old THEN mem[chain[i - 1]] ELSE Garbage
  <2>1. \A a \in Old : mem[a] \in Old \cup {Garbage}
    OBVIOUS
  <2>2. QED
    BY <2>1, ChainEquation
<1> HIDE DEF chain, cop, e, moved
<1>7. \A i \in 0 .. STACK_SZ : chain[i] \in Old => chain[i] >= e
  <2> DEFINE Bad == {i \in 0 .. STACK_SZ : chain[i] \in Old /\ ~(chain[i] >= e)}
  <2> SUFFICES ASSUME Bad # {} PROVE FALSE
    OBVIOUS
  <2>1. Bad \in SUBSET Nat
    BY StackFacts
  <2>2. PICK i \in Bad : \A j \in Bad : i <= j
    BY <2>1, LeastElement, Zenon
  <2> i \in 0 .. STACK_SZ /\ chain[i] \in Old /\ ~(chain[i] >= e)
    OBVIOUS
  <2>4. e \in Nat /\ s.ebp \in Nat /\ e < s.ebp
    BY StackFacts DEF e
  <2>5. i # 0
    BY <2>4
  <2>6. i \in 1 .. STACK_SZ /\ i - 1 \in 0 .. STACK_SZ /\ ~(i <= i - 1)
    BY <2>5, StackFacts
  <2> chain[i - 1] \in Old /\ chain[i] = mem[chain[i - 1]]
    BY <2>6, StackFacts
  <2>8. chain[i - 1] >= e
    BY <2>2, <2>6
  <2>9. chain[i] > chain[i - 1]
    OBVIOUS
  <2>10. chain[i] \in Nat /\ chain[i - 1] \in Nat
    BY StackFacts
  <2>11. QED
    BY <2>4, <2>8, <2>9, <2>10
<1>8. ASSUME NEW i \in 0 .. STACK_SZ - 1, chain[i] \in Old
      PROVE  new.mem[moved(chain[i])] = moved(chain[i + 1])
  <2>1. i \in 0 .. STACK_SZ /\ i + 1 \in 1 .. STACK_SZ /\ (i + 1) - 1 = i
    BY StackFacts
  <2>2. chain[i + 1] = mem[chain[i]] /\ chain[i] >= e
    BY <1>7, <1>8, <2>1
  <2>3. QED
    BY <1>4, <1>8, <2>2 DEF moved
<1>9. ASSUME NEW a \in e .. INIT_ESP - 1, mem[a] = Garbage
      PROVE  new.mem[moved(a)] = Garbage
  <2>1. a \in Old /\ a >= e
    BY StackFacts DEF e
  <2>2. QED
    BY <1>4, <1>9, <2>1, StackFacts DEF moved
<1>10. new.esp = moved(s.esp) /\ new.ebp = moved(s.ebp)
  BY DEF moved, e
<1>11. QED
  BY <1>5, <1>8, <1>9, <1>10, Zenon DEF IsMoved, mem, new, chain, moved, e

\* What move_stack leaves, for every stack, is that stack in the new place.
LEMMA StacksAreMoved == made \in MovedStacks => StackIsMoved
<1> SUFFICES ASSUME made \in MovedStacks PROVE StackIsMoved
  OBVIOUS
<1>1. PICK s \in Stacks :
        made = [kind |-> "stack", old |-> s, new |-> move_stack_to(Holding(s), s.esp, s.ebp)]
  BY DEF MovedStacks
<1>2. made.old = s /\ made.new = move_stack_to(Holding(s), s.esp, s.ebp)
  BY <1>1
<1>3. QED
  BY <1>2, StackCopied DEF StackIsMoved

-----------------------------------------------------------------------------
(* What kmain has made is one of the things made by gdt_install and        *)
(* move_stack, and these are as they are meant to be.                      *)

MadeInv == made \in {Nothing} \union Tables \union MovedStacks

\* Only gdt_install and move_stack leave something of that kind.
LEMMA MadeInvariant == Spec => []MadeInv
<1>1. Init => MadeInv
  BY DEF Init, MadeInv
<1>2. MadeInv /\ [Next]_vars => MadeInv'
  <2> SUFFICES ASSUME MadeInv, [Next]_vars PROVE MadeInv'
    OBVIOUS
  <2>1. CASE kmain
    BY <2>1 DEF MadeInv, kmain, install_gdt, move_stack, Tables, MovedStacks, Nothing
  <2>2. CASE ~kmain
    BY <2>2 DEF MadeInv, Next, ap_started, Halted, Waits, Cpu, vars, bootvars, Tables, MovedStacks, Nothing
  <2>3. QED
    BY <2>1, <2>2
<1>3. QED
  BY <1>1, <1>2, PTL DEF Spec

\* For every address of a cpu_info and of a stub, what the CPU makes of the
\* table of gdt_install and the gates of idt_install is what was meant.
THEOREM DescriptorsMeant == Spec => []DescriptorsAreAsMeant
<1>1. MadeInv => DescriptorsAreAsMeant
  <2>1. made = Nothing => DescriptorsAreAsMeant
    BY DEF Nothing, DescriptorsAreAsMeant
  <2>2. made \in MovedStacks => DescriptorsAreAsMeant
    BY DEF MovedStacks, DescriptorsAreAsMeant
  <2>3. QED
    BY <2>1, <2>2, TablesAreMeant DEF MadeInv
<1>2. QED
  BY <1>1, MadeInvariant, PTL

\* For every size and place of the stacks and every chain of frames,
\* move_stack moves the stack.
THEOREM StackMoved == Spec => []StackIsMoved
<1>1. MadeInv => StackIsMoved
  <2>1. made = Nothing => StackIsMoved
    BY DEF Nothing, StackIsMoved
  <2>2. made \in Tables => StackIsMoved
    BY DEF Tables, StackIsMoved
  <2>3. QED
    BY <2>1, <2>2, StacksAreMoved DEF MadeInv
<1>2. QED
  BY <1>1, MadeInvariant, PTL

-----------------------------------------------------------------------------
(* Interrupts.  What is set up holds from the call of kmain that does it;  *)
(* until the main loop nothing is delivered.                               *)

Later == {"vmm_init", "move_stack", "cpu_start_aps", "wait", "main"}
WithGates == {"ps2_init", "uart_init", "syscall_init"} \union Later
WithPic == {"ioapic_install", "idt_install"} \union WithGates

Gates ==
  [v \in Vectors |->
     IF v \in 0 .. 31 \union {SYSCALL} THEN "isr"
     ELSE IF v \in IRQ0 .. IRQ0 + 15 THEN "irq"
     ELSE IF v \in Apic THEN "intr" ELSE "none"]

\* The vector has a function that does not panic.
Handled(v) ==
  interrupt_handlers[v] \notin {"null", "dummy_int_handler", "vmm_handle_page_fault"}

Enabled == Lines \ pic.masked

\* The types, and what is so at all times.
ControllersInv ==
  /\ pic \in [base : [master : Nat, slave : Nat], masked : SUBSET Lines,
              irr : SUBSET Devices, isr : SUBSET Lines]
  /\ lapic \in [enabled : BOOLEAN, irr : SUBSET Local, isr : SUBSET Local]
  /\ \A n \in Lines : ioapic[n].masked
  /\ int \in BOOLEAN /\ idtr \in BOOLEAN
  /\ panic \in {"no", "boot", "interrupt"}

\* What kmain has set up when it comes to its next call.
SetUpInv ==
  /\ pc # "main" => ~int /\ frame = <<>> /\ lapic.irr = {} /\ lapic.isr = {}
  /\ pc = "main" => idtr
  /\ pc \in WithPic => pic.base = [master |-> IRQ0, slave |-> IRQ0 + 8]
  /\ pc \in WithPic \ WithGates => Enabled \subseteq {2}
  /\ pc \in WithGates => idt = Gates
  /\ pc \in WithGates => \A n \in Enabled \ {2} : n \in {1, 4, 12} /\ Handled(IRQ0 + n)
  /\ pc \in Later => Handled(SYSCALL)

\* What no function and no gate is there for.
Stray == {IRQ_ERROR, 39, 47}

\* The interrupt that is handled has a gate, and a function if it needs one, or
\* is a stray one.
FrameInv ==
  /\ \/ frame = <<>>
     \/ \E v \in Vectors, stub \in {"isr", "irq", "intr", "ret", "none"} :
          /\ frame = <<v, stub>>
          /\ stub = "isr" => v = SYSCALL
          /\ stub = "irq" => Handled(v) \/ v \in Stray
          /\ stub = "none" => v \in Stray
  /\ panic = "interrupt" => pc = "main" /\ frame # <<>> /\ frame[1] \in Stray

IntInv == ControllersInv /\ SetUpInv /\ FrameInv

\* The line of the 8259 pair that is served is one that is presented.
LEMMA FirstIsPresented ==
  ASSUME NEW lines \in SUBSET Lines, lines # {}
  PROVE  First(lines) \in lines
<1> DEFINE Rank(k) == IF k \in Master THEN 10 * k ELSE 10 * PIC_IRQ_SLAVE_MASTER + k - 7
           Ranks == {Rank(k) : k \in lines}
<1>1. \A k \in Lines : Rank(k) \in Nat
  BY DEF Lines, Master, PIC_IRQ_SLAVE_MASTER
<1>2. Ranks \in SUBSET Nat /\ Ranks # {}
  BY <1>1
<1> HIDE DEF Rank
<1>3. PICK r \in Ranks : \A q \in Ranks : r <= q
  BY <1>2, LeastElement, Zenon
<1>4. PICK n \in lines : r = Rank(n)
  BY <1>3
<1>5. \A m \in lines : Rank(n) <= Rank(m)
  BY <1>3, <1>4
<1>6. \E k \in lines : \A m \in lines : Rank(k) <= Rank(m)
  BY <1>4, <1>5
<1>7. QED
  BY <1>6 DEF First, Rank

\* The vectors that drivers install functions for are none of the page fault's.
LEMMA DriverVectors ==
  /\ {33, 36, 44} \subseteq Vectors
  /\ {33, 36, 44} \subseteq Vectors \ {PAGE_FAULT}
  /\ SYSCALL \in Vectors \ {PAGE_FAULT}
BY InterruptConstants DEF IRQ_KEYBOARD, IRQ_COM1, IRQ_PS2, SYSCALL, PAGE_FAULT

\* At the start nothing is set up and nothing comes through.
LEMMA IntInvInit == Init => IntInv
<1> SUFFICES ASSUME Init PROVE IntInv
  OBVIOUS
<1>1. PICK old \in SUBSET Devices :
        pic = [base |-> [master |-> 8, slave |-> 112], masked |-> Lines \ {0, 1, 2},
               irr |-> old, isr |-> {}]
  BY Zenon DEF Init, InterruptInit
<1>2. ControllersInv
  BY <1>1, Zenon DEF Init, InterruptInit, ControllersInv, Lines
<1>3. SetUpInv /\ FrameInv
  BY DEF Init, InterruptInit, SetUpInv, FrameInv, WithPic, WithGates, Later
<1>4. QED
  BY <1>2, <1>3 DEF IntInv

\* A call that changes no controller and sets up nothing leaves all as it was.
LEMMA IntInvKept ==
  ASSUME IntInv, panic' = panic \/ panic' = "boot",
         UNCHANGED <<ioapic, idt, idtr, interrupt_handlers, pic, lapic, int, frame>>,
         \/ pc' = pc
         \/ pc \notin WithPic /\ pc' \notin WithPic
         \/ pc \in Later \ {"main"} /\ pc' \in Later \ {"main"}
  PROVE  IntInv'
<1>1. ControllersInv'
  BY DEF IntInv, ControllersInv
<1>2. FrameInv'
  BY DEF IntInv, FrameInv, Handled, WithPic, WithGates, Later
<1>3. SetUpInv'
  BY DEF IntInv, SetUpInv, Enabled, Handled, WithPic, WithGates, Later
<1>4. QED
  BY <1>1, <1>2, <1>3 DEF IntInv

\* The calls of kmain that set up a controller, the gates or a handler: a line
\* is enabled only together with its handler, and after the gates.
LEMMA IntInvSetUp ==
  ASSUME IntInv,
         \/ install_lapic \/ install_pic \/ install_ioapic \/ install_idt
         \/ init_ps2 \/ init_uart \/ init_syscall \/ vmm_init \/ cpu_common_main
  PROVE  IntInv'
<1> USE DEF At, Goto
<1>0. /\ ControllersInv /\ SetUpInv /\ FrameInv
      /\ {IRQ_KEYBOARD, IRQ_COM1, IRQ_PS2, SYSCALL} \subseteq Vectors
  BY InterruptConstants DEF IntInv
<1> USE <1>0
<1>1. CASE install_lapic
  <2> USE <1>1 DEF install_lapic, lapic_install
  <2>1. ControllersInv'
    BY Zenon DEF ControllersInv
  <2>2. SetUpInv' /\ FrameInv'
    BY DEF SetUpInv, FrameInv, ControllersInv, WithPic, WithGates, Later
  <2>3. QED
    BY <2>1, <2>2 DEF IntInv
<1>2. CASE install_pic
  <2> USE <1>2 DEF install_pic, pic_init
  <2>1. ControllersInv'
    BY DEF ControllersInv, IRQ0
  <2>2. SetUpInv' /\ FrameInv'
    BY DEF SetUpInv, FrameInv, Enabled, WithPic, WithGates, Later, PIC_IRQ_SLAVE_MASTER
  <2>3. QED
    BY <2>1, <2>2 DEF IntInv
<1>3. CASE install_ioapic
  <2> USE <1>3 DEF install_ioapic, ioapic_install
  <2>1. ControllersInv'
    BY DEF ControllersInv
  <2>2. SetUpInv' /\ FrameInv'
    BY DEF SetUpInv, FrameInv, Enabled, WithPic, WithGates, Later
  <2>3. QED
    BY <2>1, <2>2 DEF IntInv
<1>4. CASE install_idt
  <2> USE <1>4 DEF install_idt
  <2>1. ControllersInv'
    BY DEF ControllersInv
  <2>2. idt' = Gates
    BY DEF idt_install, Gates
  <2>3. SetUpInv' /\ FrameInv'
    BY <2>2 DEF SetUpInv, FrameInv, Enabled, WithPic, WithGates, Later
  <2>4. QED
    BY <2>1, <2>3 DEF IntInv
<1>5. CASE init_ps2
  <2> USE <1>5 DEF init_ps2
  <2>1. ControllersInv'
    BY DEF ControllersInv, ps2_interrupts, pic_enabled
  <2>2. FrameInv' /\ pc' = "uart_init" /\ frame' = <<>>
    BY DEF SetUpInv, FrameInv
  <2>3. ASSUME ps2_interrupts, NEW n \in Enabled' \ {2}
        PROVE  n \in {1, 4, 12} /\ Handled(IRQ0 + n)'
    <3>1. n \in Enabled \/ n = 1 \/ n = 12
      BY <2>3 DEF ControllersInv, Enabled, ps2_interrupts, pic_enabled, IRQ_PS2, IRQ0
    <3>2. \A v \in Vectors : Handled(v) => Handled(v)'
      BY <2>3 DEF ps2_interrupts, registered, Handled
    <3>3. Handled(33)' /\ Handled(44)'
      BY <2>3 DEF ps2_interrupts, registered, Handled, IRQ_KEYBOARD, IRQ_PS2
    <3>4. n \in Enabled => n \in {1, 4, 12} /\ Handled(IRQ0 + n)
      BY DEF SetUpInv, WithGates
    <3>5. {33, 36, 44} \subseteq Vectors
      BY DriverVectors, Zenon
    <3>6. QED
      BY <3>1, <3>2, <3>3, <3>4, <3>5 DEF IRQ0
  <2>4. \A n \in Enabled' \ {2} : n \in {1, 4, 12} /\ Handled(IRQ0 + n)'
    <3>1. CASE ps2_interrupts
      BY <2>3, <3>1
    <3>2. CASE UNCHANGED <<interrupt_handlers, pic>>
      BY <3>2 DEF SetUpInv, WithGates, Enabled, Handled
    <3>3. QED
      BY <3>1, <3>2
  <2>5. pic.base' = pic.base
    BY DEF ControllersInv, ps2_interrupts, pic_enabled
  <2>6. SetUpInv'
    BY <2>2, <2>4, <2>5 DEF SetUpInv, WithPic, WithGates, Later
  <2>7. QED
    BY <2>1, <2>2, <2>6 DEF IntInv
<1>6. CASE init_uart
  <2> USE <1>6 DEF init_uart
  <2>1. ControllersInv'
    BY DEF ControllersInv, uart_interrupts, pic_enabled
  <2>2. FrameInv' /\ pc' = "syscall_init" /\ frame' = <<>>
    BY DEF SetUpInv, FrameInv
  <2>3. ASSUME uart_interrupts, NEW n \in Enabled' \ {2}
        PROVE  n \in {1, 4, 12} /\ Handled(IRQ0 + n)'
    <3>1. n \in Enabled \/ n = 4
      BY <2>3 DEF ControllersInv, Enabled, uart_interrupts, pic_enabled, IRQ_COM1, IRQ0
    <3>2. \A v \in Vectors : Handled(v) => Handled(v)'
      BY <2>3 DEF uart_interrupts, registered, Handled
    <3>3. Handled(36)'
      BY <2>3 DEF uart_interrupts, registered, Handled, IRQ_COM1
    <3>4. n \in Enabled => n \in {1, 4, 12} /\ Handled(IRQ0 + n)
      BY DEF SetUpInv, WithGates
    <3>5. {33, 36, 44} \subseteq Vectors
      BY DriverVectors, Zenon
    <3>6. QED
      BY <3>1, <3>2, <3>3, <3>4, <3>5 DEF IRQ0
  <2>4. \A n \in Enabled' \ {2} : n \in {1, 4, 12} /\ Handled(IRQ0 + n)'
    <3>1. CASE uart_interrupts
      BY <2>3, <3>1
    <3>2. CASE UNCHANGED <<interrupt_handlers, pic>>
      BY <3>2 DEF SetUpInv, WithGates, Enabled, Handled
    <3>3. QED
      BY <3>1, <3>2
  <2>5. pic.base' = pic.base
    BY DEF ControllersInv, uart_interrupts, pic_enabled
  <2>6. SetUpInv'
    BY <2>2, <2>4, <2>5 DEF SetUpInv, WithPic, WithGates, Later
  <2>7. QED
    BY <2>1, <2>2, <2>6 DEF IntInv
<1>7. CASE init_syscall
  <2> USE <1>7 DEF init_syscall, syscall_init
  <2>1. ControllersInv' /\ FrameInv'
    BY DEF ControllersInv, FrameInv, SetUpInv
  <2>2. \A v \in Vectors : Handled(v) => Handled(v)'
    BY DEF registered, Handled
  <2>3. Handled(SYSCALL)'
    BY DEF registered, Handled
  <2>4. \A n \in Enabled' \ {2} : n \in {1, 4, 12} /\ Handled(IRQ0 + n)'
    <3>1. {33, 36, 44} \subseteq Vectors
      BY DriverVectors, Zenon
    <3>2. QED
      BY <2>2, <3>1 DEF SetUpInv, WithGates, Enabled, IRQ0
  <2>5. SetUpInv'
    BY <2>3, <2>4 DEF SetUpInv, WithPic, WithGates, Later
  <2>6. QED
    BY <2>1, <2>5, SMTT(20) DEF IntInv
<1>8. CASE vmm_init
  <2> USE <1>8 DEF vmm_init, page_fault_handler
  <2>1. ControllersInv' /\ FrameInv'
    BY Zenon DEF ControllersInv, FrameInv, SetUpInv
  <2>2. \A v \in Vectors \ {PAGE_FAULT} : Handled(v) => Handled(v)'
    BY Zenon DEF registered, Handled
  <2>3. \A n \in Enabled' \ {2} : n \in {1, 4, 12} /\ Handled(IRQ0 + n)'
    <3>1. {33, 36, 44} \subseteq Vectors \ {PAGE_FAULT}
      BY DriverVectors, Zenon
    <3>2. QED
      BY <2>2, <3>1 DEF SetUpInv, WithGates, Later, Enabled, IRQ0
  <2>4. Handled(SYSCALL)'
    <3>1. SYSCALL \in Vectors \ {PAGE_FAULT}
      BY DriverVectors, Zenon
    <3>2. Handled(SYSCALL)
      BY Zenon DEF SetUpInv, Later
    <3>3. QED
      BY <2>2, <3>1, <3>2, Zenon
  <2>5. SetUpInv'
    BY <2>3, <2>4, Zenon DEF SetUpInv, WithPic, WithGates, Later
  <2>6. QED
    BY <2>1, <2>5 DEF IntInv
<1>9. CASE cpu_common_main
  <2> USE <1>9 DEF cpu_common_main
  <2>1. ControllersInv' /\ FrameInv'
    BY Zenon DEF ControllersInv, FrameInv, SetUpInv
  <2>2. SetUpInv'
    BY DEF SetUpInv, WithPic, WithGates, Later, Enabled, Handled
  <2>3. QED
    BY <2>1, <2>2 DEF IntInv
<1>10. QED
  BY <1>1, <1>2, <1>3, <1>4, <1>5, <1>6, <1>7, <1>8, <1>9

\* The vectors that may be delivered in the main loop.
Expected(v) ==
  v = SYSCALL \/ v \in Apic \/ (v \in {33, 36, 44} /\ Handled(v)) \/ v \in Stray

\* In the main loop: what is delivered has a gate, and the handler it is for, or
\* is a stray one.
LEMMA EnterInv ==
  ASSUME IntInv, pc = "main", pc' = pc, panic = "no", NEW v \in Vectors, Enter(v), Expected(v),
         idt' = idt, interrupt_handlers' = interrupt_handlers
  PROVE  FrameInv' /\ int' = FALSE /\ panic' \in {"no", "interrupt"}
<1> idtr /\ idt = Gates
  BY DEF IntInv, SetUpInv, WithGates, Later
<1>1. ASSUME idt[v] \in {"isr", "irq", "intr"}, idt[v] = "isr" => v = SYSCALL,
             idt[v] = "irq" => Handled(v) \/ v \in Stray
      PROVE  FrameInv' /\ int' = FALSE /\ panic' \in {"no", "interrupt"}
  <2>1. frame' = <<v, idt[v]>> /\ int' = FALSE /\ panic' = "no"
    BY <1>1 DEF Enter
  <2>2. Handled(v)' <=> Handled(v)
    BY DEF Handled
  <2>3. QED
    BY <1>1, <2>1, <2>2 DEF FrameInv
<1>2. CASE v = SYSCALL
  BY <1>1, <1>2 DEF Gates
<1>3. CASE v \in Apic
  <2>1. idt[v] = "intr"
    BY <1>3 DEF Gates, Apic, IRQ_SPURIOUS, IRQ_TIMER, SYSCALL, IRQ0
  <2>2. QED
    BY <1>1, <2>1
<1>4. CASE (v \in {33, 36, 44} /\ Handled(v)) \/ v \in {39, 47}
  <2>1. idt[v] = "irq"
    BY <1>4 DEF Gates, SYSCALL, IRQ0
  <2>2. Handled(v) \/ v \in Stray
    BY <1>4 DEF Stray
  <2>3. idt[v] \in {"isr", "irq", "intr"} /\ idt[v] # "isr"
    BY <2>1
  <2>4. QED
    BY <1>1, <2>2, <2>3, Zenon
<1>5. CASE v = IRQ_ERROR
  <2>1. idt[v] = "none"
    BY <1>5 DEF Gates, SYSCALL, IRQ0, Apic, IRQ_ERROR, IRQ_SPURIOUS, IRQ_TIMER
  <2>2. frame' = <<v, "none">> /\ int' = FALSE /\ panic' = "interrupt" /\ v \in Stray
    BY <1>5, <2>1 DEF Enter, Stray
  <2>3. QED
    BY <2>2 DEF FrameInv
<1>6. QED
  BY <1>2, <1>3, <1>4, <1>5, Zenon DEF Expected, Stray

\* While neither the table of handlers nor a mask nor the place in kmain
\* changes, what was set up stays.
LEMMA SetUpStays ==
  ASSUME SetUpInv, pc = "main", UNCHANGED <<pc, idt, idtr, interrupt_handlers>>,
         pic'.base = pic.base, pic'.masked = pic.masked
  PROVE  SetUpInv'
BY DEF SetUpInv, WithPic, WithGates, Later, Enabled, Handled

\* Requests and their delivery.
LEMMA IntInvDeliver ==
  ASSUME IntInv, pc = "main", pc' = pc,
         \/ TakeSyscall \/ (\E n \in Devices : Raise(n)) \/ (\E v \in Local : Expire(v))
         \/ TakeWithdrawn \/ Deliver
  PROVE  IntInv'
<1>0. /\ ControllersInv /\ SetUpInv /\ FrameInv
      /\ Local \union {33, 36, 39, 44, 47, SYSCALL} \subseteq Vectors
  BY InterruptConstants DEF IntInv, IRQ_KEYBOARD, IRQ_COM1, IRQ_PS2, LastLines, IRQ0
<1> USE <1>0
<1>1. CASE TakeSyscall
  <2>1. FrameInv' /\ int' = FALSE /\ panic' \in {"no", "interrupt"}
    <3>1. /\ Enter(SYSCALL) /\ Expected(SYSCALL) /\ SYSCALL \in Vectors /\ panic = "no"
          /\ idt' = idt /\ interrupt_handlers' = interrupt_handlers
      BY <1>1 DEF TakeSyscall, Expected, Running
    <3>2. QED
      BY <3>1, EnterInv, Zenon
  <2>2. ControllersInv' /\ SetUpInv'
    BY <1>1, <2>1, SetUpStays, Zenon DEF TakeSyscall, ControllersInv
  <2>3. QED
    BY <2>1, <2>2 DEF IntInv
<1>2. ASSUME NEW n \in Devices, Raise(n) PROVE IntInv'
  <2>1. {n} \ Masked = {}
    BY InterruptConstants DEF ControllersInv, Masked
  <2>2. lapic' = lapic
    BY <1>2, <2>1 DEF Raise, ControllersInv
  <2>3. pic' \in [base : [master : Nat, slave : Nat], masked : SUBSET Lines,
                  irr : SUBSET Devices, isr : SUBSET Lines]
        /\ pic'.base = pic.base /\ pic'.masked = pic.masked
    BY <1>2 DEF Raise, ControllersInv
  <2>4. ControllersInv' /\ FrameInv'
    BY <1>2, <2>2, <2>3 DEF Raise, ControllersInv, FrameInv, Handled
  <2>5. SetUpInv'
    BY <1>2, <2>3, SetUpStays DEF Raise
  <2>6. QED
    BY <2>4, <2>5 DEF IntInv
<1>3. ASSUME NEW v \in Local, Expire(v) PROVE IntInv'
  <2>1. ControllersInv' /\ FrameInv'
    BY <1>3 DEF Expire, ControllersInv, FrameInv, Handled
  <2>2. SetUpInv'
    BY <1>3, SetUpStays DEF Expire
  <2>3. QED
    BY <2>1, <2>2 DEF IntInv
<1>4. CASE TakePic \/ TakeWithdrawn
  <2> DEFINE n == First(Presented)
             v == IF n \in Master THEN pic.base.master + n ELSE pic.base.slave + (n - 8)
             w == IF n \in Master THEN pic.base.master + 7 ELSE pic.base.slave + 7
             slave == IF n \in Master THEN {} ELSE {PIC_IRQ_SLAVE_MASTER}
  <2>1. Presented \in SUBSET Lines /\ Presented # {} /\ Presented \subseteq pic.irr \ pic.masked
    BY <1>4, InterruptConstants DEF TakePic, TakeWithdrawn, Presented, ControllersInv
  <2>2. n \in Lines /\ n \in Devices /\ n \in Enabled /\ n # 2
    BY <2>1, FirstIsPresented, InterruptConstants DEF Enabled, ControllersInv, PIC_IRQ_SLAVE_MASTER
  <2>3. n \in {1, 4, 12} /\ Handled(32 + n) /\ pic.base.master = 32 /\ pic.base.slave = 40
    BY <2>2 DEF SetUpInv, WithGates, WithPic, Later, IRQ0
  <2>4. (Enter(v) \/ Enter(w)) /\ panic = "no"
    BY <1>4 DEF TakePic, TakeWithdrawn, Running
  <2>5. UNCHANGED <<ioapic, idt, idtr, interrupt_handlers, lapic, asked>>
    BY <1>4 DEF TakePic, TakeWithdrawn
  <2>6. \/ pic' = [pic EXCEPT !.irr = @ \ {n}, !.isr = @ \union {n} \union slave]
        \/ pic' = [pic EXCEPT !.irr = @ \ {n}, !.isr = @ \union slave]
    BY <1>4 DEF TakePic, TakeWithdrawn
  <2>7. slave \subseteq Lines
    BY DEF PIC_IRQ_SLAVE_MASTER, Lines
  <2> HIDE DEF n
  <2>8. v \in Vectors /\ Expected(v) /\ w \in Vectors /\ Expected(w)
    <3>1. v = 32 + n /\ w \in {39, 47}
      BY <2>3 DEF Master
    <3>2. QED
      BY <2>3, <3>1 DEF Expected, Stray
  <2> HIDE DEF v, w, slave
  <2>9. FrameInv' /\ int' = FALSE /\ panic' \in {"no", "interrupt"}
    BY <2>4, <2>5, <2>8, EnterInv, Zenon
  <2>10. pic' \in [base : [master : Nat, slave : Nat], masked : SUBSET Lines,
                   irr : SUBSET Devices, isr : SUBSET Lines]
         /\ pic'.base = pic.base /\ pic'.masked = pic.masked
    <3>1. CASE pic' = [pic EXCEPT !.irr = @ \ {n}, !.isr = @ \union {n} \union slave]
      BY <2>2, <2>7, <3>1, Zenon DEF ControllersInv
    <3>2. CASE pic' = [pic EXCEPT !.irr = @ \ {n}, !.isr = @ \union slave]
      BY <2>7, <3>2, Zenon DEF ControllersInv
    <3>3. QED
      BY <2>6, <3>1, <3>2, Zenon
  <2>11. ControllersInv'
    BY <2>5, <2>9, <2>10, Zenon DEF ControllersInv
  <2>12. SetUpInv'
    BY <2>5, <2>10, SetUpStays
  <2>13. QED
    BY <2>9, <2>11, <2>12, SMTT(20) DEF IntInv
<1>5. ASSUME NEW v \in lapic.irr, TakeApic(v) PROVE IntInv'
  <2> v \in Local /\ v \in Vectors
    BY DEF ControllersInv
  <2>2. FrameInv' /\ int' = FALSE /\ panic' \in {"no", "interrupt"}
    <3>1. /\ Enter(v) /\ Expected(v) /\ panic = "no"
          /\ idt' = idt /\ interrupt_handlers' = interrupt_handlers
      BY <1>5 DEF TakeApic, Expected, Local, Stray, Running
    <3>2. QED
      BY <3>1, EnterInv, Zenon
  <2>3. lapic' \in [enabled : BOOLEAN, irr : SUBSET Local, isr : SUBSET Local]
    BY <1>5, Zenon DEF TakeApic, ControllersInv
  <2>4. ControllersInv'
    BY <1>5, <2>2, <2>3, Zenon DEF TakeApic, ControllersInv
  <2>5. SetUpInv'
    BY <1>5, SetUpStays DEF TakeApic
  <2>6. QED
    BY <2>2, <2>4, <2>5 DEF IntInv
<1>6. QED
  BY <1>1, <1>2, <1>3, <1>4, <1>5 DEF Deliver

\* The handlers, and the end of the stub.
LEMMA IntInvDispatch ==
  ASSUME IntInv, pc = "main", pc' = pc, Dispatch
  PROVE  IntInv'
<1>0. ControllersInv /\ SetUpInv /\ FrameInv /\ SYSCALL \in Vectors
  BY InterruptConstants DEF IntInv
<1> USE <1>0
<1>1. \A v \in Vectors : frame = <<v, "isr">> \/ frame = <<v, "irq">> => frame[1] = v
  OBVIOUS
<1>2. CASE isr_handler
  <2>1. frame = <<SYSCALL, "isr">>
    BY <1>2, SMTT(20) DEF isr_handler, FrameInv
  <2>2. Pushed(frame[1]) % 256 = SYSCALL
    BY <2>1, SMTT(20) DEF Pushed, SetUpInv, WithGates, Later, Gates, SYSCALL
  <2>3. Handled(SYSCALL)
    BY SMTT(20) DEF SetUpInv, Later
  <2>4. frame' = <<SYSCALL, "ret">> /\ panic' = panic
    BY <1>2, <2>1, <2>2, <2>3, SMTT(20) DEF isr_handler, Call, Handled
  <2>5. ControllersInv' /\ FrameInv'
    BY <1>2, <2>4 DEF isr_handler, ControllersInv, FrameInv
  <2>6. SetUpInv'
    BY <1>2, SetUpStays DEF isr_handler
  <2>7. QED
    BY <2>5, <2>6 DEF IntInv
<1>3. CASE irq_handler
  <2>1. PICK v \in Vectors : frame = <<v, "irq">> /\ (Handled(v) \/ v \in Stray)
    BY <1>3 DEF irq_handler, FrameInv
  <2>2. /\ panic = "no"
        /\ \/ frame' = <<v, "ret">> /\ panic' = panic
           \/ frame' = frame /\ panic' = "interrupt" /\ v \in Stray
    BY <1>3, <2>1 DEF irq_handler, Call, Handled
  <2>3. pic' \in [base : [master : Nat, slave : Nat], masked : SUBSET Lines,
                  irr : SUBSET Devices, isr : SUBSET Lines]
        /\ pic'.base = pic.base /\ pic'.masked = pic.masked
    BY <1>3 DEF irq_handler, ControllersInv
  <2>4. ControllersInv'
    BY <1>3, <2>2, <2>3 DEF irq_handler, ControllersInv
  <2>5. FrameInv'
    BY <1>3, <2>1, <2>2 DEF irq_handler, FrameInv, Handled
  <2>6. SetUpInv'
    BY <1>3, <2>3, SetUpStays DEF irq_handler
  <2>7. QED
    BY <2>4, <2>5, <2>6 DEF IntInv
<1>4. CASE intr_handler
  <2>1. PICK v \in Vectors : frame = <<v, "intr">>
    BY <1>4 DEF intr_handler, FrameInv
  <2>2. frame' = <<v, "ret">>
    BY <1>4, <2>1 DEF intr_handler
  <2>3. lapic' \in [enabled : BOOLEAN, irr : SUBSET Local, isr : SUBSET Local]
    BY <1>4 DEF intr_handler, ControllersInv
  <2>4. ControllersInv' /\ FrameInv'
    BY <1>4, <2>2, <2>3 DEF intr_handler, ControllersInv, FrameInv
  <2>5. SetUpInv'
    BY <1>4, SetUpStays DEF intr_handler
  <2>6. QED
    BY <2>4, <2>5 DEF IntInv
<1>5. CASE stub_return
  <2>1. ControllersInv' /\ FrameInv'
    BY <1>5 DEF stub_return, ControllersInv, FrameInv
  <2>2. SetUpInv'
    BY <1>5, SetUpStays DEF stub_return
  <2>3. QED
    BY <2>1, <2>2 DEF IntInv
<1>6. QED
  BY <1>2, <1>3, <1>4, <1>5 DEF Dispatch

\* Every step of the start and of the main loop keeps it.
LEMMA IntInvNext == IntInv /\ [Next]_vars => IntInv'
<1> SUFFICES ASSUME IntInv, [Next]_vars PROVE IntInv'
  OBVIOUS
<1> USE DEF At, Goto, NoInterrupts, intvars, PANIC
<1> DEFINE Unset == UNCHANGED <<ioapic, idt, idtr, interrupt_handlers, pic, lapic, int, frame>>
           Order == \/ pc' = pc
                    \/ pc \notin WithPic /\ pc' \notin WithPic
                    \/ pc \in Later \ {"main"} /\ pc' \in Later \ {"main"}
<1>1. CASE \/ check_necessary_flags \/ init_pmm \/ move_sc2 \/ move_bootap
           \/ apic_init \/ apic_find_info \/ apic_find_cpus \/ install_gdt
  <2>1. Unset /\ (panic' = panic \/ panic' = "boot")
    BY <1>1, Zenon
    DEF check_necessary_flags, init_pmm, move_sc2, move_bootap, move_module, apic_init,
        apic_find_info, apic_find_cpus, install_gdt
  <2>2. Order
    BY <1>1, Zenon
    DEF check_necessary_flags, init_pmm, move_sc2, move_bootap, move_module, apic_init,
        apic_find_info, apic_find_cpus, install_gdt, WithPic, WithGates, Later
  <2>3. QED
    BY <2>1, <2>2, IntInvKept
<1>2. CASE move_stack \/ cpu_start_ap \/ wait_started \/ ap_started
  <2>1. Unset /\ (panic' = panic \/ panic' = "boot")
    BY <1>2 DEF move_stack, cpu_start_ap, wait_started, ap_started
  <2>2. Order
    BY <1>2 DEF move_stack, cpu_start_ap, wait_started, ap_started, Later
  <2>3. QED
    BY <2>1, <2>2, IntInvKept
<1>3. CASE \/ install_lapic \/ install_pic \/ install_ioapic \/ install_idt
           \/ init_ps2 \/ init_uart \/ init_syscall \/ vmm_init \/ cpu_common_main
  BY <1>3, IntInvSetUp
<1>4. CASE Halted \/ Waits \/ UNCHANGED vars
  <2>1. Unset /\ panic' = panic /\ pc' = pc
    BY <1>4 DEF Halted, Waits, vars, bootvars
  <2>2. QED
    BY <2>1, IntInvKept
<1>5. CASE Cpu
  <2>1. pc' = pc /\ (Deliver \/ Dispatch)
    BY <1>5 DEF Cpu, bootvars
  <2>2. pc = "main"
    <3>1. int \/ frame # <<>>
      BY <2>1, Zenon DEF Deliver, TakePic, TakeApic, Dispatch, isr_handler, irq_handler, intr_handler,
                  stub_return
    <3>2. QED
      BY <3>1, Zenon DEF IntInv, SetUpInv
  <2>3. QED
    BY <2>1, <2>2, IntInvDeliver, IntInvDispatch
<1>6. CASE pc = "main" /\ Requests /\ UNCHANGED bootvars
  BY <1>6, IntInvDeliver DEF Requests, bootvars
<1>7. QED
  BY <1>1, <1>2, <1>3, <1>4, <1>5, <1>6 DEF Next, kmain

LEMMA IntInvariant == Spec => []IntInv
BY IntInvInit, IntInvNext, PTL DEF Spec

\* For every set of devices, whenever kmain lets the request of a device, of
\* the timer or of a program through, its gate and its handler are in place.  Only
\* an error of the local APIC and a request taken back stop the kernel, and but
\* for that error the local APIC holds only vectors whose stub tells it of the end.
THEOREM InterruptsHandled == Spec => [](InterruptTypeOK /\ OnlyStraysPanic)
<1>1. IntInv => InterruptTypeOK
  <2> SUFFICES ASSUME IntInv PROVE InterruptTypeOK
    OBVIOUS
  <2>1. frame = <<>> \/ frame[1] \in Vectors
    BY DEF IntInv, FrameInv
  <2>2. QED
    BY <2>1, InterruptConstants DEF IntInv, ControllersInv, InterruptTypeOK
<1>2. IntInv => OnlyStraysPanic
  <2> SUFFICES ASSUME IntInv PROVE OnlyStraysPanic
    OBVIOUS
  <2>1. ASSUME NEW v \in lapic.irr \union lapic.isr PROVE v = IRQ_ERROR \/ idt[v] = "intr"
    <3>1. v \in Local /\ v \in Vectors /\ idt = Gates
      BY <2>1, InterruptConstants DEF IntInv, ControllersInv, SetUpInv, WithGates, Later
    <3>2. QED
      BY <3>1 DEF Gates, Local, Apic, IRQ_SPURIOUS, IRQ_TIMER, SYSCALL, IRQ0
  <2>2. ASSUME panic = "interrupt" PROVE frame[1] \in {IRQ_ERROR} \union {IRQ0 + n : n \in LastLines}
    BY <2>2 DEF IntInv, FrameInv, Stray, LastLines, IRQ0
  <2>3. ASSUME panic = "interrupt" PROVE LastLines \subseteq pic.masked
    <3>1. \A n \in Lines \ pic.masked : n = 2 \/ n \in {1, 4, 12}
      BY <2>3, SMTT(20) DEF IntInv, FrameInv, SetUpInv, WithGates, Later, Enabled
    <3>2. QED
      BY <3>1, SMTT(20) DEF LastLines, Lines
  <2>4. QED
    BY <2>1, <2>2, <2>3 DEF OnlyStraysPanic
<1>3. QED
  BY <1>1, <1>2, IntInvariant, PTL

-----------------------------------------------------------------------------
(* The first 4 MB.                                                         *)

Modules == {"sc2_bin", "bootap_bin"}

\* The machine is one the layout has room for: the bitmap of its memory ends
\* two pages before the trampoline, the modules behind a kernel that is short
\* enough are below the place of the key table, and there are no more local
\* APICs than entries in cpus.  Nothing in kmain asks for any of these.
MachineFits ==
  /\ Bitmaps \subseteq 1 .. TRAMPOLINE - 2
  /\ \A l \in Layouts :
       l.end - 1 < MAX_KERNEL_MEM => \A m \in l.mods : m.hi < MODULE1_LOCATION
  /\ \A madt \in Madts : \E n \in 0 .. MAX_CPUS :
       lapics(madt) = [i \in 1 .. n |-> lapics(madt)[i]]

Loader == {"kernel"} \union Modules

\* The places in memory, upwards, by the names of what is put there, and the
\* first page of each when the bitmap is size pages long.
Zones ==
  <<{"bitmap", "warm_reset_vector"}, {"directory"}, {"table"}, {"trampoline"}, {"bios"},
    Loader, {"keys"}, {"lapic"}, {"stack"}>>
From(size) ==
  <<0, size, size + 1, TRAMPOLINE, MAIN_BIOS[1], KERNEL, MODULE1_LOCATION, LAPIC_PHYS_VIRT_ADDR,
    LAPIC_PHYS_VIRT_ADDR + 1, KERNEL_STACK_TOP>>

\* A region is in a place for its name; a stack is in the one of its CPU.
InZone(r, z, size) ==
  r.name \in Zones[z] /\ From(size)[z] <= r.lo /\ r.lo <= r.hi /\ r.hi < From(size)[z + 1]
Placed(r, size) ==
  /\ r.lo \in Int /\ r.hi \in Int /\ r.cpu \in Nat
  /\ \E z \in 1 .. 9 : InZone(r, z, size)
  /\ r.name # "stack" => r.cpu = 0
  /\ r.name = "stack" =>
       r.lo = KERNEL_STACK_TOP - KERNEL_STACK_SZ * r.cpu /\ r.hi = r.lo + 1

InPlace(size) == \A r \in live : Placed(r, size)

\* What is marked: the bitmap, and intervals from the kernel on.
Marked(size) ==
  /\ <<0, size - 1>> \in taken
  /\ \A i \in taken :
       \/ i = <<0, size - 1>>
       \/ i \in Int \X Int /\ KERNEL <= i[1] /\ i[1] <= i[2]

FirstCalls == {"kmain", "init_pmm"}

MemoryInv ==
  /\ pc \in FirstCalls =>
       \E l \in Layouts :
         /\ live = {Region("kernel", KERNEL, l.end - 1), Region("bios", MAIN_BIOS[1], MAIN_BIOS[2])}
                     \union l.mods
         /\ pc = "init_pmm" => l.end - 1 < MAX_KERNEL_MEM
  /\ pc \notin FirstCalls =>
       /\ KERNEL < MAX_KERNEL_MEM
       /\ \E size \in 1 .. TRAMPOLINE - 2 :
            /\ InPlace(size)
            /\ pc \notin Later \ {"vmm_init"} => Marked(size)
  /\ clobbered \subseteq {"bitmap"}

CpusInv ==
  /\ ap \in 0 .. MAX_CPUS
  /\ \E n \in 0 .. MAX_CPUS : cpus = [i \in 1 .. n |-> cpus[i]]

\* vmlayout.h, in numbers.
LEMMA LayoutFacts ==
  /\ MAX_CPUS \in Nat /\ MAX_CPUS >= 1 /\ KERNEL = 256 /\ TRAMPOLINE = 7
  /\ MAIN_BIOS[1] = 224 /\ MAIN_BIOS[2] = 255
  /\ KERNEL_STACK_TOP = 1024 /\ KERNEL_STACK_SZ = 2
  /\ LAPIC_PHYS_VIRT_ADDR = 1023 - 2 * MAX_CPUS
  /\ MODULE1_LOCATION = 1022 - 2 * MAX_CPUS
  /\ MAX_KERNEL_MEM = 1021 - 2 * MAX_CPUS
BY StartupConstants
DEF KERNEL, TRAMPOLINE, MAIN_BIOS, KERNEL_STACK_TOP, KERNEL_STACK_SZ, LAPIC_PHYS_VIRT_ADDR,
    MODULE1_LOCATION, MAX_KERNEL_MEM

\* The places do not overlap.
LEMMA ZonesRise ==
  ASSUME KERNEL < MAX_KERNEL_MEM, NEW size \in 1 .. TRAMPOLINE - 2,
         NEW z \in 1 .. 9, NEW w \in 1 .. 10, z < w
  PROVE  /\ From(size)[z] \in Int /\ From(size)[z + 1] \in Int /\ From(size)[w] \in Int
         /\ From(size)[z + 1] <= From(size)[w]
<1> DEFINE f == From(size)
<1>1. /\ f[1] = 0 /\ f[2] = size /\ f[3] = size + 1 /\ f[4] = 7 /\ f[5] = 224 /\ f[6] = 256
      /\ f[7] = 1022 - 2 * MAX_CPUS /\ f[8] = 1023 - 2 * MAX_CPUS
      /\ f[9] = 1024 - 2 * MAX_CPUS /\ f[10] = 1024
  BY LayoutFacts DEF From
<1>2. size \in Int /\ 1 <= size /\ size <= 5 /\ MAX_CPUS \in Nat /\ 256 < 1021 - 2 * MAX_CPUS
  BY LayoutFacts
<1> HIDE DEF f
<1>3. z \in {1, 2, 3, 4, 5, 6, 7, 8, 9} /\ w \in {2, 3, 4, 5, 6, 7, 8, 9, 10}
  OBVIOUS
<1>4. f[z] \in Int /\ f[z + 1] \in Int /\ f[w] \in Int /\ f[z + 1] <= f[w]
  BY <1>1, <1>2, <1>3
<1>5. QED
  BY <1>4, SMTT(20) DEF f

\* Two regions that are where they may be are apart, if not both were put
\* there by the boot loader: only the bitmap and the warm reset vector meet.
LEMMA PlacedApart ==
  ASSUME KERNEL < MAX_KERNEL_MEM, NEW size \in 1 .. TRAMPOLINE - 2,
         NEW r, NEW s, Placed(r, size), Placed(s, size),
         r.name # s.name \/ r.cpu # s.cpu, s.name \notin Loader, Overlap(r, s)
  PROVE  \/ r.name = "bitmap" /\ s.name = "warm_reset_vector"
         \/ s.name = "bitmap" /\ r.name = "warm_reset_vector"
<1> r.lo \in Int /\ r.hi \in Int /\ s.lo \in Int /\ s.hi \in Int
  BY DEF Placed
<1>1. PICK z \in 1 .. 9, w \in 1 .. 9 : InZone(r, z, size) /\ InZone(s, w, size)
  BY Zenon DEF Placed
<1>2. z = w
  <2>1. ~(z < w)
    BY <1>1, ZonesRise, SMTT(20) DEF InZone, Overlap
  <2>2. ~(w < z)
    BY <1>1, ZonesRise DEF InZone, Overlap
  <2>3. QED
    BY <2>1, <2>2, SMTT(20)
<1>3. r.name \in Zones[z] /\ s.name \in Zones[z]
  BY <1>1, <1>2 DEF InZone
<1>4. CASE r.name = "stack" /\ s.name = "stack"
  BY <1>4, LayoutFacts DEF Placed, Overlap
<1>5. CASE ~(r.name = "stack" /\ s.name = "stack")
  <2>1. z \in {1, 2, 3, 4, 5, 6, 7, 8, 9}
    OBVIOUS
  <2>2. \/ r.name = s.name \/ s.name \in Loader
        \/ r.name \in Zones[1] /\ s.name \in Zones[1]
    BY <1>3, <2>1 DEF Zones
  <2>3. r.name # s.name
    BY <1>5 DEF Placed
  <2>4. QED
    BY <2>2, <2>3 DEF Zones
<1>6. QED
  BY <1>4, <1>5

\* Regions that may be written when the bitmap is size pages long.
Placeable(regions, size) ==
  /\ \A s \in regions : Placed(s, size) /\ s.name \notin Loader
  /\ \A s \in regions, r \in live : ~(s.name = "bitmap" /\ r.name = "warm_reset_vector")

\* A write of regions to their places hits nothing else, but for the warm reset
\* vector, which is written into the bitmap.
LEMMA WriteKeeps ==
  ASSUME KERNEL < MAX_KERNEL_MEM, NEW size \in 1 .. TRAMPOLINE - 2,
         InPlace(size), clobbered \subseteq {"bitmap"},
         NEW done, NEW regions, Write(done, regions), Placeable(regions, size)
  PROVE  InPlace(size)' /\ clobbered' \subseteq {"bitmap"}
<1> USE DEF InPlace, Placeable
<1> DEFINE lost == Lost(done, regions)
<1>1. /\ live' = (Kept(done) \ lost) \union regions
      /\ clobbered' = clobbered \union {r.name : r \in lost}
  BY Zenon DEF Write
<1>2. ASSUME NEW r \in lost PROVE r.name = "bitmap"
  <2>1. PICK s \in regions : Overlap(r, s) /\ <<r.name, r.cpu>> # <<s.name, s.cpu>>
    BY DEF Lost
  <2>2. r \in live /\ (r.name # s.name \/ r.cpu # s.cpu)
    BY <2>1 DEF Lost, Kept
  <2>3. QED
    BY <2>1, <2>2, PlacedApart
<1>3. clobbered' \subseteq {"bitmap"}
  <2> DEFINE names == {r.name : r \in lost}
  <2>1. names \subseteq {"bitmap"}
    BY <1>2, SMTT(20)
  <2>2. clobbered' = clobbered \union names
    BY <1>1
  <2> HIDE DEF names
  <2>3. QED
    BY <2>1, <2>2
<1>4. InPlace(size)'
  BY <1>1 DEF Kept
<1>5. QED
  BY <1>3, <1>4

\* The page pmm_alloc_first finds: the one behind an interval of those that
\* cover all pages before it.
LEMMA FirstFree ==
  ASSUME NEW marked, NEW n \in Nat \ {0},
         \A i \in marked : i[2] \in Nat,
         \A p \in 0 .. n - 1 : \E i \in marked : ~(p < i[1]) /\ ~(i[2] < p),
         \A i \in marked : n < i[1] \/ i[2] < n,
         \E i \in marked : i[2] + 1 = n
  PROVE  pmm_alloc_first(marked) = n
<1> DEFINE S == {p \in {0} \union {i[2] + 1 : i \in marked} : \A i \in marked : p < i[1] \/ i[2] < p}
<1>1. n \in S
  OBVIOUS
<1>2. ASSUME NEW p \in S PROVE n <= p
  <2>1. p \in Nat
    OBVIOUS
  <2>2. p \notin 0 .. n - 1
    OBVIOUS
  <2>3. QED
    BY <2>1, <2>2
<1>3. \A p \in S : p \in Nat
  OBVIOUS
<1> HIDE DEF S
<1>4. Min(S) = n
  <2>1. \A x \in S : (\A y \in S : x <= y) => x = n
    BY <1>1, <1>2, <1>3
  <2>2. \E x \in S : \A y \in S : x <= y
    BY <1>1, <1>2
  <2>3. Min(S) \in S /\ \A y \in S : Min(S) <= y
    BY <2>2 DEF Min
  <2>4. QED
    BY <2>1, <2>3
<1>5. QED
  BY <1>4 DEF pmm_alloc_first, S

\* So the directory and the table of vmm_init are the two pages behind the
\* bitmap.
LEMMA TablesBehindBitmap ==
  ASSUME NEW size \in 1 .. TRAMPOLINE - 2, Marked(size)
  PROVE  /\ pmm_alloc_first(taken) = size
         /\ pmm_alloc_first(pmm_mark_mem_taken(size, size)) = size + 1
<1>0. size \in Nat \ {0} /\ size + 1 < KERNEL /\ KERNEL \in Nat /\ size + 1 \in Nat \ {0}
  BY LayoutFacts
<1> USE <1>0
<1> \A i \in taken : i[2] \in Nat /\ (i = <<0, size - 1>> \/ (KERNEL <= i[1] /\ i[1] \in Int))
  BY DEF Marked
<1>2. <<0, size - 1>> \in taken
  BY DEF Marked
<1>3. pmm_alloc_first(taken) = size
  <2>1. \A p \in 0 .. size - 1 : \E i \in taken : ~(p < i[1]) /\ ~(i[2] < p)
    <3> TAKE p \in 0 .. size - 1
    <3> WITNESS <<0, size - 1>> \in taken
    <3> QED
      OBVIOUS
  <2>2. \A i \in taken : size < i[1] \/ i[2] < size
    OBVIOUS
  <2>3. \E i \in taken : i[2] + 1 = size
    <3> WITNESS <<0, size - 1>> \in taken
    <3> QED
      OBVIOUS
  <2>4. QED
    BY <2>1, <2>2, <2>3, FirstFree
<1>4. pmm_alloc_first(pmm_mark_mem_taken(size, size)) = size + 1
  <2> DEFINE both == taken \union {<<size, size>>}
  <2>1. \A i \in both : i[2] \in Nat
    OBVIOUS
  <2>2. \A p \in 0 .. (size + 1) - 1 : \E i \in both : ~(p < i[1]) /\ ~(i[2] < p)
    <3> TAKE p \in 0 .. (size + 1) - 1
    <3>1. CASE p = size
      <4>1. <<size, size>> \in both
        OBVIOUS
      <4> HIDE DEF both
      <4>2. ~(p < <<size, size>>[1]) /\ ~(<<size, size>>[2] < p)
        BY <3>1
      <4>3. QED
        BY <4>1, <4>2
    <3>2. CASE p # size
      <4>1. <<0, size - 1>> \in both
        BY <1>2
      <4> WITNESS <<0, size - 1>> \in both
      <4> QED
        BY <3>2
    <3>3. QED
      BY <3>1, <3>2
  <2>3. \A i \in both : size + 1 < i[1] \/ i[2] < size + 1
    OBVIOUS
  <2>4. \E i \in both : i[2] + 1 = size + 1
    <3>1. <<size, size>> \in both
      OBVIOUS
    <3> HIDE DEF both
    <3>2. QED
      BY <3>1
  <2> HIDE DEF both
  <2>5. pmm_alloc_first(both) = size + 1
    BY <2>1, <2>2, <2>3, <2>4, FirstFree, SMTT(20)
  <2>6. QED
    BY <2>5 DEF pmm_mark_mem_taken, both
<1>5. QED
  BY <1>3, <1>4

LoadedAs(l) ==
  {Region("kernel", KERNEL, l.end - 1), Region("bios", MAIN_BIOS[1], MAIN_BIOS[2])} \union l.mods

\* The kernel that kmain finds is the one that was loaded.
LEMMA KernelRegion ==
  ASSUME NEW l \in Layouts, live = LoadedAs(l)
  PROVE  The("kernel").hi = l.end - 1
<1>1. \A r \in live : r.name = "kernel" => r = Region("kernel", KERNEL, l.end - 1)
  <2> SUFFICES ASSUME NEW r \in live, r.name = "kernel"
               PROVE  r = Region("kernel", KERNEL, l.end - 1)
    OBVIOUS
  <2>1. r \notin l.mods
    BY StartupConstants
  <2>2. r # Region("bios", MAIN_BIOS[1], MAIN_BIOS[2])
    BY DEF Region
  <2>3. QED
    BY <2>1, <2>2 DEF LoadedAs
<1>2. Region("kernel", KERNEL, l.end - 1) \in live /\ Region("kernel", KERNEL, l.end - 1).name = "kernel"
  BY DEF LoadedAs, Region
<1>3. The("kernel") \in live /\ The("kernel").name = "kernel"
  BY <1>2 DEF The
<1>4. The("kernel") = Region("kernel", KERNEL, l.end - 1)
  BY <1>1, <1>3
<1>5. QED
  BY <1>4 DEF Region

Fits(name, lo, hi, z, size) ==
  /\ name \in Zones[z] /\ name # "stack" /\ lo \in Int /\ hi \in Int
  /\ From(size)[z] <= lo /\ lo <= hi /\ hi < From(size)[z + 1]

\* A region between the bounds of a place for its name.
LEMMA RegionPlaced ==
  ASSUME NEW size, NEW name, NEW lo, NEW hi, NEW z \in 1 .. 9, Fits(name, lo, hi, z, size)
  PROVE  Placed(Region(name, lo, hi), size)
<1> DEFINE r == Region(name, lo, hi)
<1>1. r.name = name /\ r.cpu = 0 /\ r.lo = lo /\ r.hi = hi
  BY DEF Region
<1> HIDE DEF r
<1>2. InZone(r, z, size)
  BY <1>1 DEF Fits, InZone
<1>3. Placed(r, size)
  BY <1>1, <1>2, SMTT(20) DEF Fits, Placed
<1>4. QED
  BY <1>3 DEF r

\* If it is short enough, all that was loaded is below the key table.
LEMMA LoadedPlaced ==
  ASSUME MachineFits, NEW l \in Layouts, l.end - 1 < MAX_KERNEL_MEM,
         NEW size \in 1 .. TRAMPOLINE - 2
  PROVE  (\A r \in LoadedAs(l) : Placed(r, size)) /\ KERNEL < MAX_KERNEL_MEM
<1> USE LayoutFacts
<1> l.end \in Nat /\ KERNEL < l.end
  BY StartupConstants
<1>1. From(size)[5] = 224 /\ From(size)[6] = 256 /\ From(size)[7] = MODULE1_LOCATION
  BY DEF From
<1>2. "kernel" \in Zones[6] /\ Modules \subseteq Zones[6] /\ "bios" \in Zones[5]
  BY DEF Zones, Loader
<1>3. Fits("kernel", KERNEL, l.end - 1, 6, size) /\ Fits("bios", MAIN_BIOS[1], MAIN_BIOS[2], 5, size)
  BY <1>1, <1>2 DEF Fits
<1>4. /\ Placed(Region("kernel", KERNEL, l.end - 1), size)
      /\ Placed(Region("bios", MAIN_BIOS[1], MAIN_BIOS[2]), size)
  BY <1>3, RegionPlaced, SMTT(20)
<1>5. ASSUME NEW m \in l.mods PROVE Placed(m, size)
  <2> /\ m.name \in Modules /\ m.cpu = 0 /\ m.lo \in Nat /\ m.hi \in Nat
      /\ l.end <= m.lo /\ m.lo <= m.hi
    <3>1. m \in [name : Modules, cpu : {0}, lo : Nat, hi : Nat] /\ l.end <= m.lo /\ m.lo <= m.hi
      BY <1>5, StartupConstants DEF Modules
    <3>2. QED
      BY <3>1
  <2>2. m.hi < MODULE1_LOCATION
    BY <1>5, SMTT(20) DEF MachineFits
  <2>3. InZone(m, 6, size)
    BY <1>1, <1>2, <2>2 DEF InZone
  <2>4. m.name # "stack"
    BY DEF Modules
  <2>5. QED
    BY <2>3, <2>4 DEF Placed
<1>6. QED
  BY <1>4, <1>5 DEF LoadedAs

\* As the boot loader leaves it.
LEMMA MemoryInvInit == Init => MemoryInv /\ CpusInv
<1> SUFFICES ASSUME Init PROVE MemoryInv /\ CpusInv
  OBVIOUS
<1>1. MemoryInv
  BY DEF Init, MemoryInv, FirstCalls
<1>2. CpusInv
  <2>1. cpus = [i \in 1 .. 0 |-> cpus[i]]
    BY DEF Init
  <2>2. 0 \in 0 .. MAX_CPUS /\ ap = 0
    BY LayoutFacts DEF Init
  <2>3. \E n \in 0 .. MAX_CPUS : cpus = [i \in 1 .. n |-> cpus[i]]
    BY <2>1, <2>2, Zenon
  <2>4. QED
    BY <2>2, <2>3 DEF CpusInv
<1>3. QED
  BY <1>1, <1>2

\* A call that writes and marks nothing.
LEMMA MemoryKept ==
  ASSUME MemoryInv, UNCHANGED <<live, clobbered, taken>>,
         \/ pc' = pc
         \/ /\ pc \notin FirstCalls /\ pc' \notin FirstCalls
            /\ pc \in Later \ {"vmm_init"} => pc' \in Later \ {"vmm_init"}
  PROVE  MemoryInv'
<1>1. CASE pc' = pc
  <2>1. \A size : (Marked(size) => Marked(size)') /\ (InPlace(size) => InPlace(size)')
    BY DEF Marked, InPlace
  <2>2. QED
    BY <1>1, <2>1 DEF MemoryInv
<1>2. CASE pc' # pc
  <2>1. PICK size \in 1 .. TRAMPOLINE - 2 :
          InPlace(size) /\ (pc \notin Later \ {"vmm_init"} => Marked(size))
    BY <1>2 DEF MemoryInv
  <2>2. InPlace(size)' /\ (pc' \notin Later \ {"vmm_init"} => Marked(size)')
    BY <1>2, <2>1 DEF InPlace, Marked
  <2>3. QED
    BY <1>2, <2>2, Zenon DEF MemoryInv
<1>3. QED
  BY <1>1, <1>2, SMTT(20)

\* What kmain itself writes goes to its place.
LEMMA NewPlaced ==
  ASSUME NEW size \in 1 .. TRAMPOLINE - 2
  PROVE  /\ Placed(Region("bitmap", 0, size - 1), size)
         /\ Placed(Region("directory", size, size), size)
         /\ Placed(Region("table", size + 1, size + 1), size)
         /\ Placed(Region("trampoline", TRAMPOLINE, TRAMPOLINE), size)
         /\ Placed(Region("keys", MODULE1_LOCATION, MODULE1_LOCATION), size)
         /\ Placed(Region("lapic", LAPIC_PHYS_VIRT_ADDR, LAPIC_PHYS_VIRT_ADDR), size)
         /\ Placed(Region("warm_reset_vector", 0, 0), size)
<1> USE LayoutFacts
<1>1. Fits("bitmap", 0, size - 1, 1, size) /\ Fits("warm_reset_vector", 0, 0, 1, size)
  BY DEF Fits, From, Zones
<1>2. Fits("directory", size, size, 2, size) /\ Fits("table", size + 1, size + 1, 3, size)
  BY DEF Fits, From, Zones
<1>3. Fits("trampoline", TRAMPOLINE, TRAMPOLINE, 4, size)
  BY DEF Fits, From, Zones
<1>4. /\ Fits("keys", MODULE1_LOCATION, MODULE1_LOCATION, 7, size)
      /\ Fits("lapic", LAPIC_PHYS_VIRT_ADDR, LAPIC_PHYS_VIRT_ADDR, 8, size)
  BY DEF Fits, From, Zones
<1>5. QED
  BY <1>1, <1>2, <1>3, <1>4, RegionPlaced

\* The stack of CPU i.
LEMMA StackPlaced ==
  ASSUME NEW size, NEW i \in 1 .. MAX_CPUS
  PROVE  Placed(ApStack(i), size) /\ ApStack(i).name = "stack"
<1> USE LayoutFacts
<1>1. /\ ApStack(i).name = "stack" /\ ApStack(i).cpu = i
      /\ ApStack(i).lo = 1024 - 2 * i /\ ApStack(i).hi = (1024 - 2 * i) + 1
  BY DEF ApStack, Stack
<1>2. InZone(ApStack(i), 9, size)
  BY <1>1 DEF InZone, Zones, From
<1>3. QED
  BY <1>1, <1>2, SMTT(20) DEF Placed

\* kmain begins with a check of the length of the kernel, and init_pmm puts
\* the bitmap where nothing was loaded.
LEMMA MemoryInvFirst ==
  ASSUME MachineFits, MemoryInv, check_necessary_flags \/ init_pmm
  PROVE  MemoryInv'
<1> USE DEF At, Goto
<1>0. pc \in FirstCalls
  BY DEF check_necessary_flags, init_pmm, FirstCalls
<1>1. PICK l \in Layouts : live = LoadedAs(l) /\ (pc = "init_pmm" => l.end - 1 < MAX_KERNEL_MEM)
  BY <1>0, Zenon DEF MemoryInv, LoadedAs
<1>2. clobbered \subseteq {"bitmap"}
  BY DEF MemoryInv
<1>3. CASE check_necessary_flags
  <2>1. UNCHANGED <<live, clobbered, taken>>
    BY <1>3 DEF check_necessary_flags
  <2>2. CASE PANIC
    BY <2>1, <2>2, MemoryKept, SMTT(20) DEF PANIC
  <2>3. CASE ~PANIC
    <3>1. ~(l.end - 1 >= MAX_KERNEL_MEM) /\ pc' = "init_pmm"
      BY <1>1, <1>3, <2>3, KernelRegion DEF check_necessary_flags
    <3>2. l.end - 1 < MAX_KERNEL_MEM
      BY <3>1, StartupConstants, LayoutFacts
    <3>3. QED
      BY <1>1, <1>2, <2>1, <3>1, <3>2 DEF MemoryInv, FirstCalls, LoadedAs
  <2>4. QED
    BY <2>2, <2>3
<1>4. CASE init_pmm
  <2>1. PICK size \in Bitmaps :
          /\ Write({}, {Region("bitmap", 0, size - 1)})
          /\ taken' = {<<0, size - 1>>, <<KERNEL, The("kernel").hi>>}
    BY <1>4 DEF init_pmm
  <2> size \in 1 .. TRAMPOLINE - 2
    BY DEF MachineFits
  <2>3. InPlace(size) /\ KERNEL < MAX_KERNEL_MEM
    BY <1>1, <1>4, LoadedPlaced, SMTT(20) DEF init_pmm, InPlace
  <2>4. \A r \in live : r.name # "warm_reset_vector"
    <3>1. \A m \in l.mods : m.name \in {"sc2_bin", "bootap_bin"}
      BY StartupConstants
    <3>2. QED
      BY <1>1, <3>1 DEF LoadedAs, Region
  <2>5. Placeable({Region("bitmap", 0, size - 1)}, size)
    <3>1. Region("bitmap", 0, size - 1).name = "bitmap"
      BY DEF Region
    <3>2. QED
      BY <2>4, <3>1, NewPlaced DEF Placeable, Loader, Modules
  <2>6. InPlace(size)' /\ clobbered' \subseteq {"bitmap"}
    BY <1>2, <2>1, <2>3, <2>5, WriteKeeps
  <2>7. Marked(size)'
    <3>1. KERNEL <= The("kernel").hi /\ KERNEL \in Int /\ The("kernel").hi \in Int
      BY <1>1, KernelRegion, StartupConstants, LayoutFacts
    <3>2. QED
      BY <2>1, <3>1 DEF Marked
  <2>8. QED
    BY <1>4, <2>3, <2>6, <2>7, Zenon DEF MemoryInv, FirstCalls, init_pmm
<1>5. QED
  BY <1>3, <1>4

\* The calls after that: what is where, for one size of the bitmap.
LEMMA Sized ==
  ASSUME MemoryInv, pc \notin FirstCalls
  PROVE  /\ KERNEL < MAX_KERNEL_MEM /\ clobbered \subseteq {"bitmap"}
         /\ \E size \in 1 .. TRAMPOLINE - 2 :
              InPlace(size) /\ (pc \notin Later \ {"vmm_init"} => Marked(size))
BY DEF MemoryInv

\* move_module marks where the module was and copies it to its place.
LEMMA MemoryInvModule ==
  ASSUME MemoryInv, NEW name \in Modules, NEW copy, NEW place, NEW next \in {"bootap_bin", "apic_init"},
         \/ copy = "keys" /\ place = MODULE1_LOCATION
         \/ copy = "trampoline" /\ place = TRAMPOLINE,
         move_module(name, place, copy, next)
  PROVE  MemoryInv'
<1>1. copy \in {"keys", "trampoline"}
  OBVIOUS
<1>2. pc \notin FirstCalls /\ pc \notin Later /\ pc = name
  BY DEF move_module, At, Modules, FirstCalls, Later
<1>3. KERNEL < MAX_KERNEL_MEM /\ clobbered \subseteq {"bitmap"}
  BY <1>2, Sized
<1>4. PICK size \in 1 .. TRAMPOLINE - 2 : InPlace(size) /\ Marked(size)
  BY <1>2, Sized
<1>5. CASE Present(name)
  <2> /\ Write({name}, {Region(copy, place, place)}) /\ pc' = next
      /\ taken' = taken \union {<<The(name).lo, The(name).hi>>}
    BY <1>5 DEF move_module, Goto, pmm_mark_mem_taken
  <2>2. Placeable({Region(copy, place, place)}, size)
    <3>1. Region(copy, place, place).name = copy /\ Placed(Region(copy, place, place), size)
      BY NewPlaced, Zenon DEF Region
    <3>2. QED
      BY <1>1, <3>1 DEF Placeable, Loader, Modules
  <2>3. InPlace(size)' /\ clobbered' \subseteq {"bitmap"}
    BY <1>3, <1>4, <2>2, WriteKeeps
  <2>4. Marked(size)'
    <3>1. The(name) \in live /\ The(name).name \in Modules
      BY <1>5, Zenon DEF Present, The
    <3>2. Placed(The(name), size)
      BY <1>4, <3>1 DEF InPlace
    <3> DEFINE m == The(name)
    <3> HIDE DEF m
    <3>3. PICK z \in 1 .. 9 : InZone(m, z, size) /\ m.lo \in Int /\ m.hi \in Int
      BY <3>2, Zenon DEF Placed, m
    <3>4. z = 6 /\ From(size)[6] = KERNEL
      <4>1. z \in {1, 2, 3, 4, 5, 6, 7, 8, 9} /\ m.name \in Modules
        BY <3>1 DEF m
      <4>2. QED
        BY <3>3, <4>1 DEF InZone, Zones, Modules, From
    <3>5. KERNEL <= m.lo /\ m.lo <= m.hi
      BY <3>3, <3>4, Zenon DEF InZone
    <3>6. QED
      BY <1>4, <3>3, <3>5 DEF Marked, m
  <2>5. pc' \notin FirstCalls
    BY DEF FirstCalls
  <2>6. QED
    BY <1>3, <2>3, <2>4, <2>5, Zenon DEF MemoryInv
<1>6. CASE ~Present(name)
  BY <1>6, MemoryKept DEF move_module, PANIC
<1>7. QED
  BY <1>5, <1>6

\* Paging, stacks and the other CPUs: each has a place of its own.
LEMMA MemoryInvLater ==
  ASSUME MemoryInv, CpusInv, vmm_init \/ move_stack \/ cpu_start_ap \/ cpu_common_main
  PROVE  MemoryInv'
<1> USE DEF At, Goto
<1> pc \in Later /\ pc' \in Later \ {"vmm_init"} /\ pc \notin FirstCalls /\ pc' \notin FirstCalls
  BY DEF vmm_init, move_stack, cpu_start_ap, cpu_common_main, FirstCalls, Later
<1> KERNEL < MAX_KERNEL_MEM /\ clobbered \subseteq {"bitmap"}
  BY Sized
<1>3. PICK size \in 1 .. TRAMPOLINE - 2 : InPlace(size) /\ (pc = "vmm_init" => Marked(size))
  BY Sized, SMTT(20)
<1>4. SUFFICES InPlace(size)' /\ clobbered' \subseteq {"bitmap"}
  BY <1>3 DEF MemoryInv
<1>5. CASE vmm_init
  <2> DEFINE regions == {Region("directory", size, size), Region("table", size + 1, size + 1),
                         Region("lapic", LAPIC_PHYS_VIRT_ADDR, LAPIC_PHYS_VIRT_ADDR)}
  <2>1. /\ pmm_alloc_first(taken) = size
        /\ pmm_alloc_first(pmm_mark_mem_taken(size, size)) = size + 1
    BY <1>3, <1>5, TablesBehindBitmap, SMTT(20) DEF vmm_init
  <2>2. Write({}, regions)
    BY <1>5, <2>1 DEF vmm_init
  <2>3. Placeable(regions, size)
    <3>1. \A s \in regions : Placed(s, size)
      BY NewPlaced
    <3>2. \A s \in regions : s.name \in {"directory", "table", "lapic"}
      BY DEF Region
    <3> HIDE DEF regions
    <3>3. QED
      BY <3>1, <3>2 DEF Placeable, Loader, Modules
  <2> HIDE DEF regions
  <2>4. QED
    BY <1>3, <2>2, <2>3, WriteKeeps, SMTT(20)
<1>6. CASE move_stack
  <2>1. 1 \in 1 .. MAX_CPUS /\ Stack(1, KERNEL_STACK_TOP) = ApStack(1)
    BY LayoutFacts DEF ApStack
  <2>2. Write({}, {ApStack(1)})
    BY <1>6, <2>1 DEF move_stack
  <2>3. Placeable({ApStack(1)}, size)
    BY <2>1, StackPlaced DEF Placeable, Loader, Modules
  <2>4. QED
    BY <1>3, <2>2, <2>3, WriteKeeps
<1>7. CASE cpu_start_ap
  <2> DEFINE regions == {ApStack(ap + 1), Region("warm_reset_vector", 0, 0)}
  <2>1. ap + 1 \in 1 .. MAX_CPUS
    <3>1. PICK n \in 0 .. MAX_CPUS : cpus = [i \in 1 .. n |-> cpus[i]]
      BY DEF CpusInv
    <3>2. Len(cpus) = n
      BY <3>1
    <3>3. QED
      BY <1>7, <3>2, LayoutFacts DEF cpu_start_ap, CpusInv
  <2>2. Write({}, regions)
    BY <1>7 DEF cpu_start_ap
  <2>3. Placeable(regions, size)
    <3>1. \A s \in regions : Placed(s, size)
      BY <2>1, NewPlaced, StackPlaced
    <3>2. \A s \in regions : s.name \in {"stack", "warm_reset_vector"}
      BY <2>1, StackPlaced DEF Region
    <3> HIDE DEF regions
    <3>3. QED
      BY <3>1, <3>2 DEF Placeable, Loader, Modules
  <2> HIDE DEF regions
  <2>4. QED
    BY <1>3, <2>2, <2>3, WriteKeeps
<1>8. CASE cpu_common_main
  BY <1>8 DEF cpu_common_main, InPlace
<1>9. QED
  BY <1>5, <1>6, <1>7, <1>8, SMTT(20)

\* Every other step writes nothing.
LEMMA MemoryInvNext ==
  ASSUME MachineFits, MemoryInv, CpusInv, [Next]_vars
  PROVE  MemoryInv'
<1> USE DEF At, Goto
<1>1. CASE check_necessary_flags \/ init_pmm
  BY <1>1, MemoryInvFirst
<1>2. CASE move_sc2
  BY <1>2, MemoryInvModule DEF move_sc2, Modules
<1>3. CASE move_bootap
  BY <1>3, MemoryInvModule DEF move_bootap, Modules
<1>4. CASE vmm_init \/ move_stack \/ cpu_start_ap \/ cpu_common_main
  BY <1>4, MemoryInvLater
<1>5. CASE apic_init \/ apic_find_info \/ apic_find_cpus
  BY <1>5, MemoryKept, Zenon DEF apic_init, apic_find_info, apic_find_cpus, PANIC, FirstCalls, Later
<1>6. CASE \/ install_lapic \/ install_gdt \/ install_pic \/ install_ioapic \/ install_idt
           \/ init_ps2 \/ init_uart \/ init_syscall \/ wait_started
  BY <1>6, MemoryKept, Zenon
  DEF install_lapic, install_gdt, install_pic, install_ioapic, install_idt, init_ps2, init_uart,
      init_syscall, wait_started, Quiet, FirstCalls, Later
<1>7. CASE ap_started \/ UNCHANGED bootvars
  BY <1>7, MemoryKept DEF ap_started, bootvars
<1>8. QED
  <2>1. kmain \/ ap_started \/ UNCHANGED bootvars
    BY DEF Next, Halted, Waits, Cpu, vars
  <2>2. QED
    BY <1>1, <1>2, <1>3, <1>4, <1>5, <1>6, <1>7, <2>1, Zenon DEF kmain

\* There is an entry of cpus for every local APIC that is reported and for no
\* more, and the APs are started one after the other.
LEMMA CpusInvNext ==
  ASSUME MachineFits, CpusInv, [Next]_vars
  PROVE  CpusInv'
<1> USE DEF At, Goto
<1>0. PICK n \in 0 .. MAX_CPUS : cpus = [i \in 1 .. n |-> cpus[i]]
  BY DEF CpusInv
<1>1. CASE apic_find_cpus
  <2>1. PICK madt \in Madts :
          cpus' = [i \in DOMAIN lapics(madt) |-> [id |-> lapics(madt)[i].id, started |-> i = 1]]
    BY <1>1, Zenon DEF apic_find_cpus
  <2>2. PICK m \in 0 .. MAX_CPUS : lapics(madt) = [i \in 1 .. m |-> lapics(madt)[i]]
    BY DEF MachineFits
  <2>3. cpus' = [i \in 1 .. m |-> cpus'[i]]
    BY <2>1, <2>2
  <2>4. QED
    BY <1>1, <2>3 DEF apic_find_cpus, CpusInv
<1>2. CASE ap_started
  <2>1. cpus' = [i \in 1 .. n |-> cpus'[i]]
    BY <1>0, <1>2, Zenon DEF ap_started
  <2>2. QED
    BY <1>2, <2>1, Zenon DEF ap_started, CpusInv
<1>3. CASE UNCHANGED cpus /\ (ap' = ap \/ ap' = 1 \/ (ap < Len(cpus) /\ ap' = ap + 1))
  <2>1. ap' \in 0 .. MAX_CPUS
    <3>1. Len(cpus) = n
      BY <1>0
    <3>2. ap \in 0 .. MAX_CPUS
      BY Zenon DEF CpusInv
    <3>3. MAX_CPUS \in Nat /\ MAX_CPUS >= 1
      BY LayoutFacts, Zenon
    <3>4. QED
      BY <1>3, <3>1, <3>2, <3>3
  <2>2. QED
    BY <1>0, <1>3, <2>1 DEF CpusInv
<1>4. QED
  <2>1. \/ apic_find_cpus \/ ap_started
        \/ UNCHANGED cpus /\ (ap' = ap \/ ap' = 1 \/ (ap < Len(cpus) /\ ap' = ap + 1))
    BY Zenon DEF Next, kmain, Halted, Waits, Cpu, vars, bootvars, install_gdt, move_stack, check_necessary_flags,
           init_pmm, move_sc2, move_bootap, move_module, apic_init, apic_find_info, install_lapic,
           install_pic, install_ioapic, install_idt, init_ps2, init_uart, init_syscall, vmm_init,
           cpu_start_ap, wait_started, cpu_common_main, Quiet
  <2>2. QED
    BY <1>1, <1>2, <1>3, <2>1

\* What is where in the first 4 MB, and how many entries cpus has, at every call
\* of kmain.
LEMMA MemoryInvariant == ASSUME MachineFits PROVE Spec => [](MemoryInv /\ CpusInv)
<1>1. MemoryInv /\ CpusInv /\ [Next]_vars => (MemoryInv /\ CpusInv)'
  BY MemoryInvNext, CpusInvNext
<1>2. QED
  BY <1>1, MemoryInvInit, PTL DEF Spec

\* On a machine that the layout has room for, however long the kernel is and
\* wherever its modules were loaded behind it, no call of kmain writes over
\* what an earlier one has put somewhere, but for the start of the bitmap.
THEOREM MemoryIsSafe == ASSUME MachineFits PROVE Spec => []NothingOverwritten
<1>1. MemoryInv => NothingOverwritten
  BY DEF MemoryInv, NothingOverwritten
<1>2. QED
  BY <1>1, MemoryInvariant, PTL

\* The CPU that is being started has an entry in cpus, from move_stack on.
WithCpus == {"lapic_install", "gdt_install", "pic_init"} \union WithPic
ApInv ==
  /\ pc \notin WithCpus => ap = 0
  /\ pc \in WithCpus => 1 <= Len(cpus)
  /\ ap <= Len(cpus)

\* kmain goes on only if apic_find_cpus has found a CPU, and then starts those
\* it has found.
LEMMA ApInvNext ==
  ASSUME MachineFits, CpusInv, CpusInv', ApInv, [Next]_vars
  PROVE  ApInv'
<1> USE DEF At, Goto
<1>0. ap \in Nat /\ Len(cpus) \in Nat /\ Len(cpus') \in Nat
  <2>1. \A n \in Nat : Len([i \in 1 .. n |-> cpus[i]]) = n /\ Len([i \in 1 .. n |-> cpus'[i]]) = n
    OBVIOUS
  <2>2. QED
    BY <2>1, LayoutFacts DEF CpusInv
<1>1. CASE apic_find_cpus
  <2>1. PICK madt \in Madts :
          /\ cpus' = [i \in DOMAIN lapics(madt) |-> [id |-> lapics(madt)[i].id, started |-> i = 1]]
          /\ pc' = pc \/ (pc' = "lapic_install" /\ lapics(madt) # <<>>)
    BY <1>1, Zenon DEF apic_find_cpus, PANIC
  <2>2. PICK m \in 0 .. MAX_CPUS : lapics(madt) = [i \in 1 .. m |-> lapics(madt)[i]]
    BY DEF MachineFits
  <2>3. Len(cpus') = m
    BY <2>1, <2>2, LayoutFacts
  <2>4. m = 0 => lapics(madt) = <<>>
    BY <2>2, SMTT(20)
  <2>5. pc = "apic_find_cpus" /\ ap' = ap /\ ap = 0
    BY <1>1 DEF apic_find_cpus, ApInv, WithCpus, WithPic, WithGates, Later
  <2>6. pc' = pc \/ (pc' = "lapic_install" /\ 1 <= m)
    BY <2>1, <2>4, LayoutFacts
  <2>7. QED
    BY <1>0, <2>3, <2>5, <2>6 DEF ApInv, WithCpus, WithPic, WithGates, Later
<1>2. CASE ap_started
  <2>1. DOMAIN cpus' = DOMAIN cpus /\ ap' = ap /\ pc' = pc
    BY <1>2, Zenon DEF ap_started
  <2>2. \A n, m \in Nat : 1 .. n = 1 .. m => n = m
    OBVIOUS
  <2>3. DOMAIN cpus = 1 .. Len(cpus) /\ DOMAIN cpus' = 1 .. Len(cpus')
    BY LayoutFacts DEF CpusInv
  <2>4. Len(cpus') = Len(cpus)
    BY <1>0, <2>1, <2>2, <2>3
  <2>5. QED
    BY <2>1, <2>4 DEF ApInv
<1>3. ASSUME cpus' = cpus,
             \/ ap' = ap /\ (pc \in WithCpus <=> pc' \in WithCpus)
             \/ ap' = 1 /\ pc \in WithCpus /\ pc' \in WithCpus
             \/ ap < Len(cpus) /\ ap' = ap + 1 /\ pc \in WithCpus /\ pc' \in WithCpus
      PROVE  ApInv'
  BY <1>0, <1>3 DEF ApInv
<1>4. CASE check_necessary_flags \/ init_pmm \/ move_sc2 \/ move_bootap \/ apic_init \/ apic_find_info
  <2>1. cpus' = cpus /\ ap' = ap
    BY <1>4, Zenon DEF check_necessary_flags, init_pmm, move_sc2, move_bootap, move_module, apic_init,
           apic_find_info
  <2>2. pc \notin WithCpus /\ pc' \notin WithCpus
    BY <1>4, Zenon DEF check_necessary_flags, init_pmm, move_sc2, move_bootap, move_module, apic_init,
           apic_find_info, PANIC, WithCpus, WithPic, WithGates, Later
  <2>3. QED
    BY <1>3, <2>1, <2>2
<1>5. CASE \/ install_gdt \/ install_lapic \/ install_pic \/ install_ioapic \/ install_idt
           \/ init_ps2 \/ init_uart \/ init_syscall \/ vmm_init \/ wait_started \/ cpu_common_main
  <2>1. cpus' = cpus /\ ap' = ap
    BY <1>5, Zenon DEF install_gdt, install_lapic, install_pic, install_ioapic, install_idt, init_ps2,
           init_uart, init_syscall, vmm_init, wait_started, cpu_common_main, Quiet
  <2>2. pc \in WithCpus /\ pc' \in WithCpus
    BY <1>5, Zenon DEF install_gdt, install_lapic, install_pic, install_ioapic, install_idt, init_ps2,
           init_uart, init_syscall, vmm_init, wait_started, cpu_common_main, WithCpus, WithPic,
           WithGates, Later
  <2>3. QED
    BY <1>3, <2>1, <2>2
<1>6. CASE move_stack \/ cpu_start_ap
  BY <1>3, <1>6 DEF move_stack, cpu_start_ap, WithCpus, WithPic, WithGates, Later
<1>7. CASE Halted \/ Waits \/ Cpu \/ (pc = "main" /\ Requests /\ UNCHANGED bootvars) \/ UNCHANGED vars
  <2>1. UNCHANGED bootvars
    BY <1>7, Zenon DEF Halted, Waits, Cpu, vars
  <2>2. QED
    BY <1>3, <2>1 DEF bootvars
<1>8. QED
  BY <1>1, <1>2, <1>4, <1>5, <1>6, <1>7, Zenon DEF Next, kmain

\* The AP that is being started is one that apic_find_cpus has found, at every
\* call of kmain, and no region ends before it starts.
THEOREM StartupTypes == ASSUME MachineFits PROVE Spec => []TypeOK
<1>0. Init => ApInv
  BY DEF Init, ApInv, WithCpus, WithPic, WithGates, Later
<1>1. CpusInv /\ CpusInv' /\ ApInv /\ [Next]_vars => ApInv'
  BY ApInvNext
<1>2. MemoryInv /\ CpusInv /\ ApInv /\ InterruptTypeOK => TypeOK
  <2> SUFFICES ASSUME MemoryInv, CpusInv, ApInv, InterruptTypeOK PROVE TypeOK
    OBVIOUS
  <2>1. ap \in 0 .. Len(cpus)
    <3>1. PICK n \in 0 .. MAX_CPUS : cpus = [i \in 1 .. n |-> cpus[i]]
      BY DEF CpusInv
    <3>2. Len(cpus) = n
      BY <3>1
    <3>3. QED
      BY <3>2, LayoutFacts DEF CpusInv, ApInv
  <2>2. ASSUME NEW r \in live PROVE r.lo <= r.hi
    <3>1. CASE pc \in FirstCalls
      <4>1. PICK l \in Layouts : live = LoadedAs(l)
        BY <3>1, Zenon DEF MemoryInv, LoadedAs
      <4>2. CASE r \in l.mods
        BY <4>1, <4>2, StartupConstants, Zenon
      <4>3. CASE r = Region("kernel", KERNEL, l.end - 1)
        <5>1. l.end \in Nat /\ KERNEL < l.end /\ KERNEL = 256
          BY <4>1, StartupConstants, LayoutFacts, Zenon
        <5>2. KERNEL <= l.end - 1
          BY <5>1
        <5>3. QED
          BY <4>3, <5>2, Zenon DEF Region
      <4>4. CASE r = Region("bios", MAIN_BIOS[1], MAIN_BIOS[2])
        <5>1. MAIN_BIOS[1] <= MAIN_BIOS[2]
          BY LayoutFacts
        <5>2. QED
          BY <4>4, <5>1, Zenon DEF Region
      <4>5. QED
        BY <4>1, <4>2, <4>3, <4>4, Zenon DEF LoadedAs
    <3>2. CASE pc \notin FirstCalls
      BY <3>2, Sized DEF InPlace, Placed, InZone
    <3>3. QED
      BY <3>1, <3>2
  <2>3. QED
    BY <2>1, <2>2 DEF TypeOK
<1>3. QED
  BY <1>0, <1>1, <1>2, MemoryInvariant, InterruptsHandled, PTL DEF Spec

-----------------------------------------------------------------------------
(* The root pointer.                                                       *)

\* What find_rsdp can match, and how many matches it passes before match k.
Bios(found) == {k \in DOMAIN found : found[k].area = "bios"}
Before(found, k) == Cardinality({j \in Bios(found) : j < k})

\* The matches are counted from 0, in order, and there are no more of them than
\* places that look like the root pointer.
LEMMA MatchesInOrder ==
  ASSUME NEW found \in Rsdps
  PROVE  /\ Len(found) \in Nat /\ DOMAIN found = 1 .. Len(found)
         /\ \A k \in Bios(found) : Before(found, k) \in Nat /\ Before(found, k) < Len(found)
         /\ \A j, k \in Bios(found) : j < k => Before(found, j) < Before(found, k)
<1>1. Len(found) \in Nat /\ DOMAIN found = 1 .. Len(found)
  BY StartupConstants
<1>2. ASSUME NEW k \in Bios(found)
      PROVE  /\ IsFiniteSet({j \in Bios(found) : j < k})
             /\ Before(found, k) \in Nat /\ Before(found, k) < Len(found)
  <2>1. k \in 1 .. Len(found)
    BY <1>1 DEF Bios
  <2>2. {j \in Bios(found) : j < k} \in SUBSET (1 .. k - 1)
    BY <1>1, <2>1 DEF Bios
  <2>3. 1 \in Int /\ k - 1 \in Int /\ k - 1 < Len(found) /\ 0 < Len(found)
    BY <1>1, <2>1
  <2>4. IsFiniteSet(1 .. k - 1) /\ Cardinality(1 .. k - 1) = IF 1 > k - 1 THEN 0 ELSE (k - 1) - 1 + 1
    BY <2>3, FS_Interval, Zenon
  <2>5. /\ IsFiniteSet({j \in Bios(found) : j < k})
        /\ Cardinality({j \in Bios(found) : j < k}) <= Cardinality(1 .. k - 1)
    BY <2>2, <2>4, FS_Subset, Zenon
  <2>6. Cardinality({j \in Bios(found) : j < k}) \in Nat
    BY <2>5, FS_CardinalityType, Zenon
  <2>7. QED
    BY <1>1, <2>1, <2>3, <2>4, <2>5, <2>6 DEF Before
<1>3. ASSUME NEW j \in Bios(found), NEW k \in Bios(found), j < k
      PROVE  Before(found, j) < Before(found, k)
  <2>1. {i \in Bios(found) : i < j} \in SUBSET {i \in Bios(found) : i < k}
    BY <1>1, <1>3 DEF Bios
  <2>2. {i \in Bios(found) : i < j} # {i \in Bios(found) : i < k}
    <3>1. j \in {i \in Bios(found) : i < k} /\ j \notin {i \in Bios(found) : i < j}
      BY <1>1, <1>3 DEF Bios
    <3>2. QED
      BY <3>1, Zenon
  <2>3. Before(found, j) <= Before(found, k) /\ Before(found, j) # Before(found, k)
    BY <1>2, <2>1, <2>2, FS_Subset, Zenon DEF Before
  <2>4. Before(found, j) \in Nat /\ Before(found, k) \in Nat
    BY <1>2, Zenon
  <2>5. \A a, b \in Nat : a <= b /\ a # b => a < b
    OBVIOUS
  <2>6. QED
    BY <2>3, <2>4, <2>5, Zenon
<1>4. QED
  BY <1>1, <1>2, <1>3, Zenon

\* find_rsdp returns the match that comes after those to be ignored, if any.
LEMMA MatchFound ==
  ASSUME NEW found \in Rsdps
  PROVE  /\ \A k \in Bios(found) : find_rsdp(found, Before(found, k)) = found[k]
         /\ \A n : (\A k \in Bios(found) : Before(found, k) # n)
                   => find_rsdp(found, n) = [area |-> "none", sum |-> 1, id |-> 0]
<1> DEFINE match(n) == {k \in Bios(found) : Before(found, k) = n}
<1>1. \A n : find_rsdp(found, n) = IF match(n) # {} THEN found[CHOOSE k \in match(n) : TRUE]
                                   ELSE [area |-> "none", sum |-> 1, id |-> 0]
  BY Zenon DEF find_rsdp, Bios, Before
<1>2. ASSUME NEW k \in Bios(found), NEW l \in Bios(found), Before(found, k) = Before(found, l)
      PROVE  k = l
  <2>1. k \in Nat /\ l \in Nat /\ Before(found, k) \in Nat
    BY MatchesInOrder DEF Bios
  <2>2. QED
    BY <1>2, <2>1, MatchesInOrder
<1>3. ASSUME NEW k \in Bios(found) PROVE match(Before(found, k)) = {k}
  BY <1>2, Zenon
<1>4. ASSUME NEW k \in Bios(found) PROVE find_rsdp(found, Before(found, k)) = found[k]
  <2>1. match(Before(found, k)) # {} /\ (CHOOSE l \in match(Before(found, k)) : TRUE) = k
    BY <1>3, Zenon
  <2>2. QED
    BY <1>1, <2>1, Zenon
<1>5. ASSUME NEW n, \A k \in Bios(found) : Before(found, k) # n
      PROVE  find_rsdp(found, n) = [area |-> "none", sum |-> 1, id |-> 0]
  BY <1>1, <1>5, Zenon
<1>6. QED
  BY <1>4, <1>5, Zenon

\* What RootPointerIsValid says of the root pointer r among the places found.
IsFirstValid(found, r) ==
  \E i \in DOMAIN found :
    LET e == found[i]
    IN /\ e.id = r /\ e.area = "bios" /\ e.sum = 0
       /\ \A j \in 1 .. i - 1 : found[j].area = "bios" => found[j].sum # 0

\* The loop of apic_init stops at the first match whose checksum is 0, or finds none.
LEMMA FirstValidFound ==
  ASSUME NEW found \in Rsdps, rsdp_found(found) # 0
  PROVE  IsFirstValid(found, rsdp_found(found))
<1> DEFINE tries == {n \in 0 .. Len(found) : find_rsdp(found, n).area = "none" \/ find_rsdp(found, n).sum = 0}
           m == Min(tries)
<1>1. tries \in SUBSET Nat
  BY MatchesInOrder
<1>2. Len(found) \in tries
  <2>1. \A k \in Bios(found) : Before(found, k) # Len(found)
    BY MatchesInOrder
  <2>2. find_rsdp(found, Len(found)).area = "none"
    BY <2>1, MatchFound
  <2>3. QED
    BY <2>2, MatchesInOrder
<1>3. m \in tries /\ \A y \in tries : m <= y
  <2>1. \E x \in tries : \A y \in tries : x <= y
    BY <1>1, <1>2, LeastElement, Zenon
  <2>2. QED
    BY <2>1, Zenon DEF Min
<1>4. rsdp_found(found) = find_rsdp(found, m).id
  BY Zenon DEF rsdp_found
<1>5. PICK k \in Bios(found) : Before(found, k) = m
  <2>1. SUFFICES ASSUME \A k \in Bios(found) : Before(found, k) # m PROVE FALSE
    BY Zenon
  <2>2. find_rsdp(found, m).id = 0
    <3>1. find_rsdp(found, m) = [area |-> "none", sum |-> 1, id |-> 0]
      BY <2>1, MatchFound, Zenon
    <3>2. QED
      BY <3>1
  <2>3. QED
    BY <1>4, <2>2, Zenon
<1>6. find_rsdp(found, m) = found[k]
  BY <1>5, MatchFound, Zenon
<1>7. found[k].area = "bios" /\ k \in DOMAIN found
  BY DEF Bios
<1>8. found[k].sum = 0
  BY <1>3, <1>6, <1>7
<1>9. ASSUME NEW j \in 1 .. k - 1, found[j].area = "bios" PROVE found[j].sum # 0
  <2>1. j \in Bios(found) /\ j < k
    BY <1>7, <1>9, MatchesInOrder DEF Bios
  <2>2. Before(found, j) < m /\ Before(found, j) \in 0 .. Len(found) /\ m \in Nat
    BY <1>5, <2>1, MatchesInOrder
  <2>3. Before(found, j) \notin tries
    <3> HIDE DEF m, tries
    <3>1. Before(found, j) \in tries => m <= Before(found, j)
      BY <1>3, Zenon
    <3>2. QED
      BY <2>2, <3>1
  <2>4. find_rsdp(found, Before(found, j)).sum # 0
    BY <2>2, <2>3, Zenon
  <2>5. QED
    BY <2>1, <2>4, MatchFound, Zenon
<1>10. found[k].id = rsdp_found(found)
  BY <1>4, <1>6, Zenon
<1>11. QED
  BY <1>7, <1>8, <1>9, <1>10, Zenon DEF IsFirstValid

\* What the search found, and the root pointer taken from it.
RootInv ==
  /\ \E r, found : tables = [rsdp |-> r, entries |-> found]
  /\ RootPointerIsValid

\* The root pointer is only used right after it was found.
LEMMA RootInvNext == RootInv /\ [Next]_vars => RootInv'
<1> SUFFICES ASSUME RootInv, [Next]_vars PROVE RootInv'
  OBVIOUS
<1>1. PICK r, old : tables = [rsdp |-> r, entries |-> old]
  BY Zenon DEF RootInv
<1>2. CASE apic_init
  <2>1. PICK found \in Rsdps :
          /\ tables' = [tables EXCEPT !.rsdp = rsdp_found(found), !.entries = found]
          /\ pc' = "apic_find_info" => rsdp_found(found) # 0
    BY <1>2, Zenon DEF apic_init, At, Goto, PANIC
  <2>2. tables' = [rsdp |-> rsdp_found(found), entries |-> found]
    BY <1>1, <2>1, Zenon
  <2>3. pc' = "apic_find_info" => IsFirstValid(found, rsdp_found(found))
    BY <2>1, FirstValidFound, Zenon
  <2>4. tables'.rsdp = rsdp_found(found) /\ tables'.entries = found
    BY <2>2
  <2>5. RootPointerIsValid'
    BY <2>3, <2>4, Zenon DEF RootPointerIsValid, IsFirstValid
  <2>6. QED
    BY <2>2, <2>5, Zenon DEF RootInv
<1>3. CASE apic_find_cpus
  <2>1. tables' = [rsdp |-> 0, entries |-> <<>>]
    BY <1>3, Zenon DEF apic_find_cpus
  <2>2. pc' # "apic_find_info"
    BY <1>3 DEF apic_find_cpus, At, Goto, PANIC
  <2>3. QED
    BY <2>1, <2>2, Zenon DEF RootInv, RootPointerIsValid
<1>4. CASE tables' = tables /\ (pc' = pc \/ pc' # "apic_find_info")
  BY <1>4, Zenon DEF RootInv, RootPointerIsValid
<1>5. QED
  <2>1. kmain => apic_init \/ apic_find_cpus
                 \/ (tables' = tables /\ pc' # "apic_find_info") \/ (tables' = tables /\ pc' = pc)
    BY Zenon DEF kmain, At, Goto, PANIC, install_gdt, move_stack, check_necessary_flags,
           init_pmm, move_sc2, move_bootap, move_module, apic_find_info, install_lapic,
           install_pic, install_ioapic, install_idt, init_ps2, init_uart, init_syscall, vmm_init,
           cpu_start_ap, wait_started, cpu_common_main, Quiet
  <2>2. kmain \/ UNCHANGED <<tables, pc>>
    BY DEF Next, ap_started, Halted, Waits, Cpu, vars, bootvars
  <2>3. QED
    BY <1>2, <1>3, <1>4, <2>1, <2>2, Zenon

\* For any number of places that look like the root pointer, with any checksums, the
\* one that apic_find_info is given is the first of the BIOS area that is valid.
THEOREM RootPointerValid == Spec => []RootPointerIsValid
<1>1. Init => RootInv
  BY Zenon DEF Init, RootInv, RootPointerIsValid
<1>2. RootInv => RootPointerIsValid
  BY Zenon DEF RootInv
<1>3. QED
  BY <1>1, <1>2, RootInvNext, PTL DEF Spec
=============================================================================
