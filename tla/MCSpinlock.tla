----------------------------- MODULE MCSpinlock -----------------------------
(* Instances of Spinlock for model checking.                               *)
EXTENDS Spinlock

LOCK_PROC == 0
LOCK_CONSOLE == 3
LOCK_HEAP == 4

KernelLocks == {LOCK_PROC, LOCK_HEAP}
ConsoleOnly == {LOCK_CONSOLE}
HeapOnly == {LOCK_HEAP}
Nothing == {}
=============================================================================
