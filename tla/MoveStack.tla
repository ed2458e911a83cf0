----------------------------- MODULE MoveStack ------------------------------
(***************************************************************************)
(* move_stack (src/sys/kernel.c): kmain's stack is copied while it is in   *)
(* use, and the words of the copy that point into the old one are changed  *)
(* to point into the new one.  Memory is words; an address is the number   *)
(* of a word.                                                              *)
(***************************************************************************)
EXTENDS Integers

CONSTANTS
  STACK_SZ,   \* sz, in words
  INIT_ESP,   \* the esp kmain was entered with; the old stack is below
  NEW_STACK   \* the top of the new one

ASSUME StackConstants ==
  /\ STACK_SZ \in Nat \ {0} /\ INIT_ESP \in Nat /\ NEW_STACK \in Nat
  /\ STACK_SZ < INIT_ESP /\ INIT_ESP + STACK_SZ <= NEW_STACK

Words == 0 .. NEW_STACK
Old == INIT_ESP - STACK_SZ .. INIT_ESP - 1
Garbage == NEW_STACK + 1       \* what no address looks like

-----------------------------------------------------------------------------
(* kernel.c                                                                *)

offset == NEW_STACK - INIT_ESP

\* memcpy of what the stack holds.
Copied(mem, old_stack) ==
  [a \in Words |-> IF a - offset \in old_stack .. INIT_ESP - 1 THEN mem[a - offset] ELSE mem[a]]

\* Mutant: a pointer to the first word pushed is not changed.
Adjusted_first(mem, old_stack) ==
  [a \in Words |-> IF a >= NEW_STACK - STACK_SZ /\ old_stack < mem[a] /\ mem[a] < INIT_ESP - 1
                   THEN mem[a] + offset ELSE mem[a]]

\* The loop over the new stack, the word at its top included.
Adjusted(mem, old_stack) ==
  [a \in Words |-> IF a >= NEW_STACK - STACK_SZ /\ old_stack < mem[a] /\ mem[a] < INIT_ESP
                   THEN mem[a] + offset ELSE mem[a]]

\* The memory, esp and ebp that move_stack returns with.
move_stack_to(mem, old_stack, old_base) ==
  [mem |-> Adjusted(Copied(mem, old_stack), old_stack),
   esp |-> old_stack + offset, ebp |-> old_base + offset]

-----------------------------------------------------------------------------
(* What moving the stack promises.                                         *)

\* The stacks at the time of the call: esp is the lowest word in use, each
\* saved ebp, from the one ebp points to, is the address of a later word or,
\* in the first function, not an address of the stack.
Frames(mem, ebp, n) ==
  LET chain[i \in 0 .. n] ==
        IF i = 0 THEN ebp ELSE IF chain[i - 1] \in Old THEN mem[chain[i - 1]] ELSE Garbage
  IN chain

Stacks ==
  { s \in [mem : [Old -> Old \union {Garbage}], esp : Old, ebp : Old] :
      /\ s.esp < s.ebp
      /\ \A a \in Old : s.mem[a] \in Old => s.mem[a] > a }

\* The memory that holds stack s.
Holding(s) == [a \in Words |-> IF a \in Old THEN s.mem[a] ELSE Garbage]

\* new goes on where s was: the saved ebps lead through the copies of the same
\* words, a word that is no address of the old stack is copied as it is, and the
\* old stack is as it was.
IsMoved(s, new) ==
  LET mem == Holding(s)
      before == Frames(mem, s.ebp, STACK_SZ)
      moved(a) == IF a \in Old THEN a + offset ELSE a
  IN /\ new.esp = moved(s.esp) /\ new.ebp = moved(s.ebp)
     /\ \A i \in 0 .. STACK_SZ - 1 :
          before[i] \in Old => new.mem[moved(before[i])] = moved(before[i + 1])
     /\ \A a \in s.esp .. INIT_ESP - 1 : mem[a] = Garbage => new.mem[moved(a)] = Garbage
     /\ \A a \in Old : new.mem[a] = mem[a]
=============================================================================
