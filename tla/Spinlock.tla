------------------------------ MODULE Spinlock ------------------------------
(***************************************************************************)
(* The spinlock of src/sys/lock.c, used by CPUs that can be interrupted.   *)
(*                                                                         *)
(* A context is a place the lock is taken from: the code of a CPU or the   *)
(* interrupt handler that suspends it.  A failing xchg writes 1 over 1 and *)
(* changes nothing: a context that spins takes no step of the model.       *)
(***************************************************************************)
EXTENDS Cpus

CONSTANTS
  MainLocks,     \* lock_resource values the code of a CPU asks for
  HandlerLocks,  \* lock_resource values interrupt handlers ask for
  Sti,           \* CPUs that have executed sti
  Ordered        \* callers keep to the order of lock_resource

\* LOCK_PROC, LOCK_VFS, LOCK_ATA, LOCK_CONSOLE, LOCK_HEAP, UNKNOWN.
lock_resource == 0 .. 5

Locks == MainLocks \cup HandlerLocks

ASSUME LockConstants ==
  /\ Locks \subseteq lock_resource
  /\ Sti \subseteq CPUs
  /\ Ordered \in BOOLEAN

VARIABLES
  locked,    \* the field locked of each lock
  inited,    \* locks init_spinlock was called for
  wants,     \* the lock each context spins for
  holds,     \* the locks each context has acquired and not released
  irq,       \* CPUs that execute an interrupt handler
  enabled    \* CPUs with the interrupt flag set

lockvars == <<locked, inited, wants, holds, irq, enabled>>

Main(c) == <<c, "main">>
Handler(c) == <<c, "handler">>
Contexts == CPUs \X {"main", "handler"}

\* A CPU runs its handler until that returns.
Active(p) == (p[2] = "handler") <=> (p[1] \in irq)
Runs(p) == Active(p) /\ wants[p] = None

Uses(p) == IF p[2] = "main" THEN MainLocks ELSE HandlerLocks

LockInit ==
  /\ locked = [l \in Locks |-> 0]
  /\ inited = {}
  /\ wants = [p \in Contexts |-> None]
  /\ holds = [p \in Contexts |-> {}]
  /\ irq = {}
  /\ enabled = Sti

\* Both functions are empty.
pushcli(c) == UNCHANGED enabled
popcli(c) == UNCHANGED enabled

\* A module initiates its lock once, before anybody uses it.
init_spinlock(l) ==
  /\ l \notin inited
  /\ inited' = inited \cup {l}
  /\ locked' = [locked EXCEPT ![l] = 0]
  /\ UNCHANGED <<wants, holds, irq, enabled>>

\* The order a caller has to keep to.
InOrder(p, l) == \A h \in holds[p] : h < l

\* The call of spinlock_acquire, up to its loop.
spinlock_acquire(p, l) ==
  /\ Runs(p)
  /\ l \in inited \cap Uses(p)
  /\ Ordered => InOrder(p, l)
  /\ wants' = [wants EXCEPT ![p] = l]
  /\ pushcli(p[1])
  /\ UNCHANGED <<locked, inited, holds, irq>>

\* Mutant: the value the xchg read is not tested.
alock_untested(p) ==
  LET l == wants[p]
  IN /\ Active(p)
     /\ l # None
     /\ locked' = [locked EXCEPT ![l] = 1]
     /\ holds' = [holds EXCEPT ![p] = @ \cup {l}]
     /\ wants' = [wants EXCEPT ![p] = None]
     /\ UNCHANGED <<inited, irq, enabled>>

\* The xchg that reads 0 and ends the loop.
alock(p) ==
  LET l == wants[p]
  IN /\ Active(p)
     /\ l # None
     /\ locked[l] = 0
     /\ locked' = [locked EXCEPT ![l] = 1]
     /\ holds' = [holds EXCEPT ![p] = @ \cup {l}]
     /\ wants' = [wants EXCEPT ![p] = None]
     /\ UNCHANGED <<inited, irq, enabled>>

\* Mutant: the field locked keeps its value.
spinlock_release_kept(p, l) ==
  /\ Runs(p)
  /\ l \in holds[p]
  /\ holds' = [holds EXCEPT ![p] = @ \ {l}]
  /\ popcli(p[1])
  /\ UNCHANGED <<locked, inited, wants, irq>>

spinlock_release(p, l) ==
  /\ Runs(p)
  /\ l \in holds[p]
  /\ locked' = [locked EXCEPT ![l] = 0]
  /\ holds' = [holds EXCEPT ![p] = @ \ {l}]
  /\ popcli(p[1])
  /\ UNCHANGED <<inited, wants, irq>>

\* An interrupt suspends the CPU, also while it spins; the gate clears the flag.
Interrupt(c) ==
  /\ c \in enabled
  /\ c \notin irq
  /\ irq' = irq \cup {c}
  /\ enabled' = enabled \ {c}
  /\ UNCHANGED <<locked, inited, wants, holds>>

\* iret restores the flag.
InterruptReturn(c) ==
  /\ c \in irq
  /\ Runs(Handler(c))
  /\ holds[Handler(c)] = {}
  /\ irq' = irq \ {c}
  /\ enabled' = enabled \cup {c}
  /\ UNCHANGED <<locked, inited, wants, holds>>

LockStep(p) ==
  \/ alock(p)
  \/ \E l \in Locks : spinlock_release(p, l)

LockNext ==
  \/ \E l \in Locks : init_spinlock(l)
  \/ \E p \in Contexts, l \in Locks : spinlock_acquire(p, l)
  \/ \E p \in Contexts : LockStep(p)
  \/ \E c \in CPUs : Interrupt(c) \/ InterruptReturn(c)

\* A CPU that can go on does: it leaves its loop when the lock stays free, and its
\* critical sections and its handlers end.
LockFairness ==
  /\ \A p \in Contexts : WF_lockvars(LockStep(p))
  /\ \A c \in CPUs : WF_lockvars(InterruptReturn(c))

LockSpec == LockInit /\ [][LockNext]_lockvars /\ LockFairness

-----------------------------------------------------------------------------
(* What the lock promises.                                                 *)

LockTypeOK ==
  /\ locked \in [Locks -> {0, 1}]
  /\ inited \subseteq Locks
  /\ wants \in [Contexts -> Locks \cup {None}]
  /\ holds \in [Contexts -> SUBSET Locks]
  /\ irq \subseteq CPUs
  /\ enabled \subseteq CPUs

\* No two contexts are between spinlock_acquire and spinlock_release of one lock.
MutualExclusion ==
  \A p, q \in Contexts : p # q => holds[p] \cap holds[q] = {}

\* If callers keep to the order and no handler asks for a lock that other code
\* asks for, then somebody can always go on: not all CPUs spin for taken locks.
SomeoneRuns ==
  Ordered /\ MainLocks \cap HandlerLocks = {} /\ CPUs # {} =>
    \E p \in Contexts : Active(p) /\ (wants[p] # None => locked[wants[p]] = 0)

\* As long as locks are asked for, locks are acquired, unless interrupts never
\* cease: they suspend also a CPU that spins for a free lock.  Not every caller
\* gets its lock: the loop does not queue the CPUs, and one can lose every race.
LocksAreAcquired ==
  \/ <>[](\A p \in Contexts : wants[p] = None)
  \/ []<><<\E p \in Contexts : alock(p)>>_lockvars
  \/ []<><<\E c \in CPUs : Interrupt(c)>>_lockvars

-----------------------------------------------------------------------------
(* What the documentation says, and the code does not do.                  *)

\* doxygen.h: "Interrupts are disabled before acquiring a lock, so no deadlock can
\* occurr by having the same processor waiting to use each other resources."
NoSelfDeadlock ==
  \A c \in CPUs : c \in irq => wants[Handler(c)] \notin holds[Main(c)]
=============================================================================
