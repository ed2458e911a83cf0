--------------------------- MODULE ProcessProofs ----------------------------
(***************************************************************************)
(* Proofs about Process, for any number of processes and frames: one        *)
(* process runs, the ring of processes stays closed, and no fork is         *)
(* interrupted by a switch.                                                 *)
(***************************************************************************)
EXTENDS Process, TLAPS

Pcb == [state : {PROC_RUNNING, PROC_READY}, dirtable : {KernelDir, Code}, next : Nat]

\* Pids are given out in order, and until alloc_proc panics one is left.
PidsInOrder ==
  /\ pcbs \in [DOMAIN pcbs -> Pcb]
  /\ DOMAIN pcbs \subseteq 1 .. last_pid
  /\ pc # "panic" => last_pid < PROC_MAX_PID
  /\ pc \in {"space", "link"} => last_pid \in DOMAIN pcbs \ {proc_current, proc_list}

\* What runs and what waits are two processes, and switching to the second one
\* loads a directory that is none.
Current ==
  /\ pc = "process_init" => pcbs = [p \in {} |-> None] /\ proc_current = None /\ last_pid = 0
  /\ pc \in {"process_init", "panic"} \/ proc_current \in DOMAIN pcbs
  /\ proc_list # None => proc_list # proc_current
  /\ proc_list # None /\ pc # "reset" => pcbs[proc_list].dirtable = Code
  /\ cr3 \in {KernelDir, Code}

\* Interrupts are on only where the kernel may be interrupted.
Interruptible ==
  /\ pc \in {"process_init", "kmain", "run", "alloc", "space", "link", "panic", "reset"}
  /\ int \in BOOLEAN
  /\ int => pc \in {"run", "reset"}

ProcInv ==
  /\ TypeOK /\ PidsInOrder /\ Current /\ Interruptible
  /\ OneIsRunning /\ RingIsClosed
-----------------------------------------------------------------------------
\* The state kmain leaves to process_init satisfies the invariant.
LEMMA ProcInvInit == Init => ProcInv
<1> SUFFICES ASSUME Init PROVE ProcInv
  OBVIOUS
<1> USE ProcessConstants DEF Init
<1>1. DOMAIN pcbs = {}
  OBVIOUS
<1>2. TypeOK /\ PidsInOrder
  BY <1>1 DEF TypeOK, PidsInOrder, None
<1>3. Current /\ Interruptible
  BY <1>1, Zenon DEF Current, Interruptible, None
<1>4. OneIsRunning /\ RingIsClosed
  BY <1>1 DEF OneIsRunning, RingIsClosed, Linked
<1>5. QED
  BY <1>2, <1>3, <1>4 DEF ProcInv

\* alloc_proc: a new pid with its control block, and no more frames than there are.
LEMMA AllocProc ==
  ASSUME ProcInv, NEW pcb \in Pcb, pc # "panic",
         ~NoProcess(last_pid + 1),
         alloc_proc(last_pid + 1, pcb)
  PROVE  /\ last_pid' \in Pids /\ last_pid' \in 0 .. PROC_MAX_PID /\ last_pid' < PROC_MAX_PID
         /\ last_pid' \notin DOMAIN pcbs /\ last_pid' # None
         /\ DOMAIN pcbs' = DOMAIN pcbs \cup {last_pid'}
         /\ pcbs' \in [DOMAIN pcbs' -> Pcb]
         /\ DOMAIN pcbs' \subseteq 1 .. last_pid' /\ DOMAIN pcbs' \subseteq Pids
         /\ pcbs'[last_pid'] = pcb
         /\ \A q \in DOMAIN pcbs : pcbs'[q] = pcbs[q]
         /\ free' \in 0 .. FRAMES
         /\ last_pid' = last_pid + 1
<1> DEFINE p == last_pid + 1
<1>1. /\ last_pid \in Nat /\ PROC_MAX_PID \in Nat /\ FRAMES \in Nat
      /\ DOMAIN pcbs \subseteq 1 .. last_pid
      /\ free \in Nat /\ free <= FRAMES /\ free # 0 /\ p < PROC_MAX_PID
  BY ProcessConstants DEF ProcInv, TypeOK, PidsInOrder, NoProcess
<1>2. p \in Pids /\ p \notin DOMAIN pcbs /\ p # None /\ p \in 0 .. PROC_MAX_PID
  BY <1>1 DEF Pids, None
<1>3. DOMAIN pcbs' = DOMAIN pcbs \cup {p} /\ last_pid' = p
  BY DEF alloc_proc, With
<1>4. pcbs'[p] = pcb /\ \A q \in DOMAIN pcbs : pcbs'[q] = pcbs[q]
  BY <1>2 DEF alloc_proc, With
<1>5. pcbs' \in [DOMAIN pcbs' -> Pcb]
  <2>1. pcbs' = [q \in DOMAIN pcbs \cup {p} |-> IF q = p THEN pcb ELSE pcbs[q]]
    BY DEF alloc_proc, With
  <2>2. pcbs \in [DOMAIN pcbs -> Pcb]
    BY DEF ProcInv, PidsInOrder
  <2>3. QED
    BY <2>1, <2>2
<1>6. DOMAIN pcbs' \subseteq 1 .. p /\ DOMAIN pcbs' \subseteq Pids
  BY <1>1, <1>2, <1>3 DEF ProcInv, TypeOK, Pids
<1>7. free' \in 0 .. FRAMES
  <2>1. free' = free - 1 \/ (free > 1 /\ free' = free - 2) \/ free' = FRAMES
    BY Zenon DEF alloc_proc, map_stack
  <2>2. QED
    BY <1>1, <2>1
<1>8. QED
  BY <1>1, <1>2, <1>3, <1>4, <1>5, <1>6, <1>7

\* alloc_proc panics: only the pid is used up.
LEMMA AllocPanics ==
  ASSUME ProcInv, pc \notin {"panic", "reset"}, pc' = "panic", last_pid' = last_pid + 1,
         int' = int, ~int,
         UNCHANGED <<pcbs, window, table, content, free, proc_current, proc_list, esp0, cr3>>
  PROVE  ProcInv'
<1>1. last_pid \in Nat /\ last_pid < PROC_MAX_PID /\ PROC_MAX_PID \in Nat
  BY ProcessConstants DEF ProcInv, TypeOK, PidsInOrder
<1>2. TypeOK' /\ PidsInOrder'
  BY <1>1 DEF ProcInv, TypeOK, PidsInOrder, Pids
<1>3. Interruptible' /\ RingIsClosed'
  BY DEF ProcInv, Interruptible, RingIsClosed
<1>4. Current' /\ OneIsRunning'
  BY DEF ProcInv, Current, OneIsRunning
<1>5. QED
  BY <1>2, <1>3, <1>4 DEF ProcInv

\* process_init makes the first process, which runs.
LEMMA InitStep ==
  ASSUME ProcInv, process_init
  PROVE  ProcInv'
<1>1. /\ pc = "process_init" /\ last_pid = 0 /\ proc_current = None /\ proc_list = None
      /\ DOMAIN pcbs = {} /\ ~int
  BY DEF process_init, ProcInv, Current, Interruptible, TypeOK, None
<1>2. CASE NoProcess(1)
  BY <1>1, <1>2, AllocPanics DEF process_init, PANIC
<1>3. CASE ~NoProcess(1)
  <2> DEFINE pcb == [state |-> PROC_RUNNING, dirtable |-> cr3, next |-> 1]
  <2>1. pcb \in Pcb
    BY DEF Pcb, ProcInv, Current
  <2>2. /\ alloc_proc(last_pid + 1, pcb) /\ last_pid + 1 = 1
        /\ proc_current' = 1 /\ esp0' = 1 /\ pc' = "kmain"
        /\ int' = int /\ proc_list' = proc_list /\ cr3' = cr3
    BY <1>1, <1>3 DEF process_init
  <2> HIDE DEF pcb
  <2>3. /\ 1 \in Pids /\ 1 \in 0 .. PROC_MAX_PID /\ 1 < PROC_MAX_PID
        /\ DOMAIN pcbs' = {1} /\ pcbs' \in [DOMAIN pcbs' -> Pcb] /\ pcbs'[1] = pcb
        /\ free' \in 0 .. FRAMES /\ last_pid' = 1
    BY <1>1, <1>3, <2>1, <2>2, AllocProc
  <2>4. pcb.state = PROC_RUNNING /\ pcb.next = 1
    BY DEF pcb
  <2>5. TypeOK' /\ PidsInOrder'
    BY <1>1, <2>2, <2>3 DEF TypeOK, PidsInOrder
  <2>6. Current' /\ OneIsRunning' /\ RingIsClosed'
    BY <1>1, <2>2, <2>3, <2>4 DEF ProcInv, Current, OneIsRunning, RingIsClosed, Linked
  <2>7. Interruptible'
    BY <1>1, <2>2 DEF ProcInv, Interruptible
  <2>8. QED
    BY <2>3, <2>5, <2>6, <2>7 DEF ProcInv
<1>4. QED
  BY <1>2, <1>3

\* A process that is made ready, and is its own next until it is linked.
LEMMA ReadyStep ==
  ASSUME ProcInv, NEW dir \in {KernelDir, Code}, NEW next \in {"kmain", "space"},
         pc \in {"kmain", "alloc"}, next = "kmain" <=> pc = "kmain",
         ~NoProcess(last_pid + 1),
         alloc_proc(last_pid + 1,
                    [state |-> PROC_READY, dirtable |-> dir, next |-> last_pid + 1]),
         pc' = next, UNCHANGED <<int, proc_current, esp0, cr3>>,
         IF next = "kmain" THEN proc_list' = last_pid + 1 /\ dir = Code
                           ELSE proc_list' = proc_list
  PROVE  ProcInv'
<1> DEFINE pcb == [state |-> PROC_READY, dirtable |-> dir, next |-> last_pid + 1]
<1>1. last_pid \in Nat /\ proc_current \in DOMAIN pcbs /\ ~int
  BY DEF ProcInv, TypeOK, Current, Interruptible
<1>2. pcb \in Pcb
  BY <1>1 DEF Pcb
<1>3. pcb.state = PROC_READY /\ pcb.dirtable = dir /\ pcb.next = last_pid + 1
  OBVIOUS
<1>4. alloc_proc(last_pid + 1, pcb)
  OBVIOUS
<1> HIDE DEF pcb
<1>5. /\ last_pid' \in Pids /\ last_pid' \in 0 .. PROC_MAX_PID /\ last_pid' < PROC_MAX_PID
      /\ last_pid' \notin DOMAIN pcbs /\ last_pid' # None
      /\ DOMAIN pcbs' = DOMAIN pcbs \cup {last_pid'}
      /\ pcbs' \in [DOMAIN pcbs' -> Pcb]
      /\ DOMAIN pcbs' \subseteq 1 .. last_pid' /\ DOMAIN pcbs' \subseteq Pids
      /\ pcbs'[last_pid'] = pcb
      /\ \A q \in DOMAIN pcbs : pcbs'[q] = pcbs[q]
      /\ free' \in 0 .. FRAMES
      /\ last_pid' = last_pid + 1
  BY <1>2, <1>4, AllocProc, Zenon
<1>6. proc_list \in DOMAIN pcbs \cup {None}
  BY DEF ProcInv, TypeOK
<1>7. /\ TypeOK' /\ PidsInOrder'
      /\ Interruptible'
  <2>1. TypeOK' /\ PidsInOrder'
    BY <1>1, <1>5, <1>6 DEF TypeOK, PidsInOrder
  <2>2. Interruptible'
    BY <1>1 DEF ProcInv, Interruptible
  <2>3. QED
    BY <2>1, <2>2
<1>8. Current'
  BY <1>1, <1>3, <1>5, <1>6 DEF ProcInv, Current
<1>9. OneIsRunning'
  BY <1>1, <1>3, <1>5 DEF ProcInv, OneIsRunning, PROC_READY, PROC_RUNNING
<1>10. RingIsClosed'
  <2>1. \A q \in DOMAIN pcbs : \E r \in DOMAIN pcbs : pcbs[r].next = q
    BY DEF ProcInv, RingIsClosed, Linked
  <2>2. CASE pc' = "kmain"
    BY <1>3, <1>5, <2>1, <2>2 DEF RingIsClosed, Linked
  <2>3. CASE pc' = "space"
    BY <1>5, <2>1, <2>3 DEF RingIsClosed, Linked
  <2>4. QED
    BY <2>2, <2>3
<1>11. QED
  BY <1>5, <1>7, <1>8, <1>9, <1>10 DEF ProcInv

\* Steps that change only where the kernel is and the interrupt flag.
LEMMA QuietStep ==
  ASSUME ProcInv, pc \notin {"process_init", "panic", "reset", "space", "link"},
         pc' \in {"run", "alloc"}, int' = (pc' = "run"),
         UNCHANGED <<last_pid, pcbs, proc_current, proc_list, window, table, free, esp0, cr3>>
  PROVE  ProcInv'
<1>1. TypeOK' /\ PidsInOrder'
  BY DEF ProcInv, TypeOK, PidsInOrder
<1>2. Current' /\ Interruptible'
  BY Zenon DEF ProcInv, Current, Interruptible
<1>3. OneIsRunning'
  BY DEF ProcInv, OneIsRunning
<1>4. RingIsClosed'
  BY DEF ProcInv, RingIsClosed, Linked
<1>5. QED
  BY <1>1, <1>2, <1>3, <1>4 DEF ProcInv

\* fork_space changes only the directory of a process that is not linked yet.
LEMMA SpaceStep ==
  ASSUME ProcInv, fork_space
  PROVE  ProcInv'
<1>1. /\ pc = "space" /\ pc' = "link"
      /\ pcbs' = [pcbs EXCEPT ![last_pid].dirtable = Code]
      /\ UNCHANGED <<int, last_pid, proc_current, proc_list, window, table, free, esp0, cr3>>
  BY DEF fork_space
<1>2. last_pid \in DOMAIN pcbs /\ last_pid # proc_current /\ last_pid # proc_list
  BY <1>1 DEF ProcInv, PidsInOrder
<1>3. pcbs \in [DOMAIN pcbs -> Pcb]
  BY DEF ProcInv, PidsInOrder
<1>4. /\ pcbs' \in [DOMAIN pcbs -> Pcb] /\ DOMAIN pcbs' = DOMAIN pcbs
      /\ \A q \in DOMAIN pcbs : pcbs'[q].state = pcbs[q].state /\ pcbs'[q].next = pcbs[q].next
      /\ \A q \in DOMAIN pcbs \ {last_pid} : pcbs'[q] = pcbs[q]
  BY <1>1, <1>2, <1>3 DEF Pcb
<1>5. TypeOK' /\ PidsInOrder'
  BY <1>1, <1>2, <1>4 DEF ProcInv, TypeOK, PidsInOrder
<1>6. Current'
  BY <1>1, <1>2, <1>4 DEF ProcInv, Current, TypeOK
<1>7. Interruptible'
  BY <1>1 DEF ProcInv, Interruptible
<1>8. OneIsRunning'
  BY <1>1, <1>4 DEF ProcInv, OneIsRunning
<1>9. RingIsClosed'
  BY <1>1, <1>4 DEF ProcInv, RingIsClosed, Linked
<1>10. QED
  BY <1>5, <1>6, <1>7, <1>8, <1>9 DEF ProcInv

\* The end of fork puts the new process between its parent and the next one.
LEMMA LinkStep ==
  ASSUME ProcInv, fork_link
  PROVE  ProcInv'
<1>1. /\ pc = "link" /\ pc' = "run" /\ int' = TRUE
      /\ pcbs' = [pcbs EXCEPT ![last_pid].next = pcbs[proc_current].next,
                              ![proc_current].next = last_pid]
      /\ UNCHANGED <<last_pid, proc_current, proc_list, window, table, free, esp0, cr3>>
  BY DEF fork_link
<1>2. /\ last_pid \in DOMAIN pcbs /\ last_pid # proc_current /\ proc_current \in DOMAIN pcbs
      /\ last_pid \in Nat
  BY <1>1 DEF ProcInv, PidsInOrder, Current, TypeOK
<1>3. pcbs \in [DOMAIN pcbs -> Pcb]
  BY DEF ProcInv, PidsInOrder
<1>4. /\ DOMAIN pcbs' = DOMAIN pcbs
      /\ pcbs'[last_pid] = [pcbs[last_pid] EXCEPT !.next = pcbs[proc_current].next]
      /\ pcbs'[proc_current] = [pcbs[proc_current] EXCEPT !.next = last_pid]
      /\ \A q \in DOMAIN pcbs \ {last_pid, proc_current} : pcbs'[q] = pcbs[q]
  BY <1>1, <1>2, <1>3
<1>5. /\ pcbs' \in [DOMAIN pcbs -> Pcb]
      /\ \A q \in DOMAIN pcbs : /\ pcbs'[q].state = pcbs[q].state
                                /\ pcbs'[q].dirtable = pcbs[q].dirtable
      /\ pcbs'[last_pid].next = pcbs[proc_current].next /\ pcbs'[proc_current].next = last_pid
  <2>1. \A q \in DOMAIN pcbs : pcbs[q] \in Pcb
    BY <1>3
  <2>2. pcbs'[last_pid] \in Pcb /\ pcbs'[proc_current] \in Pcb
    BY <1>2, <1>4, <2>1 DEF Pcb
  <2>3. \A q \in DOMAIN pcbs : pcbs'[q] \in Pcb
    BY <1>4, <2>1, <2>2
  <2>4. pcbs' \in [DOMAIN pcbs -> Pcb]
    BY <1>1, <1>3, <1>4, <2>3, Zenon
  <2>5. QED
    BY <1>2, <1>4, <2>1, <2>4 DEF Pcb
<1>6. TypeOK' /\ PidsInOrder'
  BY <1>1, <1>4, <1>5 DEF ProcInv, TypeOK, PidsInOrder
<1>7. Current'
  BY <1>1, <1>2, <1>4, <1>5 DEF ProcInv, Current, TypeOK
<1>8. Interruptible'
  BY <1>1 DEF ProcInv, Interruptible
<1>9. OneIsRunning'
  BY <1>1, <1>4, <1>5 DEF ProcInv, OneIsRunning
<1>10. RingIsClosed'
  <2>1. \A q \in DOMAIN pcbs \ {last_pid} :
          \E r \in DOMAIN pcbs \ {last_pid} : pcbs[r].next = q
    BY <1>1 DEF ProcInv, RingIsClosed, Linked
  <2>2. \A q \in DOMAIN pcbs : \E r \in DOMAIN pcbs : pcbs'[r].next = q
    <3>1. \E r \in DOMAIN pcbs : pcbs'[r].next = last_pid
      BY <1>2, <1>5
    <3>2. ASSUME NEW q \in DOMAIN pcbs \ {last_pid}
          PROVE  \E r \in DOMAIN pcbs : pcbs'[r].next = q
      <4>1. PICK r \in DOMAIN pcbs \ {last_pid} : pcbs[r].next = q
        BY <2>1, <3>2
      <4>2. CASE r = proc_current
        BY <1>2, <1>5, <4>1, <4>2
      <4>3. CASE r # proc_current
        BY <1>4, <4>1, <4>3
      <4>4. QED
        BY <4>2, <4>3
    <3>3. QED
      BY <3>1, <3>2
  <2>3. QED
    BY <1>1, <1>4, <2>2 DEF RingIsClosed, Linked
<1>11. QED
  BY <1>6, <1>7, <1>8, <1>9, <1>10 DEF ProcInv

\* switch_task exchanges the process that runs and the one that waits.
LEMMA SwitchStep ==
  ASSUME ProcInv, switch_task
  PROVE  ProcInv'
<1>1. CASE proc_list = None
  BY <1>1 DEF switch_task, vars, ProcInv, TypeOK, PidsInOrder, Current,
         Interruptible, OneIsRunning, RingIsClosed, Linked
<1>2. CASE proc_list # None
  <2>1. /\ pc = "run"
        /\ pcbs' = [pcbs EXCEPT ![proc_current].state = PROC_READY,
                                ![proc_list].state = PROC_RUNNING]
        /\ proc_current' = proc_list /\ proc_list' = proc_current
        /\ cr3' = pcbs[proc_list].dirtable
        /\ pc' = IF cr3' = Code THEN "reset" ELSE pc
        /\ UNCHANGED <<int, last_pid, window, table, free, esp0>>
    BY <1>2 DEF switch_task, switch_states, ProcInv, Interruptible
  <2>2. /\ proc_list \in DOMAIN pcbs /\ proc_current \in DOMAIN pcbs
        /\ proc_list # proc_current /\ pc' = "reset" /\ cr3' = Code
    BY <1>2, <2>1 DEF ProcInv, TypeOK, Current
  <2>3. pcbs \in [DOMAIN pcbs -> Pcb]
    BY DEF ProcInv, PidsInOrder
  <2>4. /\ DOMAIN pcbs' = DOMAIN pcbs
        /\ pcbs'[proc_current] = [pcbs[proc_current] EXCEPT !.state = PROC_READY]
        /\ pcbs'[proc_list] = [pcbs[proc_list] EXCEPT !.state = PROC_RUNNING]
        /\ \A q \in DOMAIN pcbs \ {proc_list, proc_current} : pcbs'[q] = pcbs[q]
    BY <2>1, <2>2, <2>3
  <2>5. /\ pcbs' \in [DOMAIN pcbs -> Pcb]
        /\ \A q \in DOMAIN pcbs : pcbs'[q].next = pcbs[q].next
        /\ pcbs'[proc_current].state = PROC_READY /\ pcbs'[proc_list].state = PROC_RUNNING
    <3>1. \A q \in DOMAIN pcbs : pcbs[q] \in Pcb
      BY <2>3
    <3>2. pcbs'[proc_list] \in Pcb /\ pcbs'[proc_current] \in Pcb
      BY <2>2, <2>4, <3>1 DEF Pcb
    <3>3. \A q \in DOMAIN pcbs : pcbs'[q] \in Pcb
      BY <2>4, <3>1, <3>2
    <3>4. pcbs' \in [DOMAIN pcbs -> Pcb]
      BY <2>1, <2>3, <2>4, <3>3, Zenon
    <3>5. QED
      BY <2>2, <2>4, <3>1, <3>4 DEF Pcb
  <2>6. TypeOK' /\ PidsInOrder'
    BY <2>1, <2>2, <2>4, <2>5 DEF ProcInv, TypeOK, PidsInOrder
  <2>7. Current' /\ Interruptible'
    BY <2>1, <2>2, <2>4 DEF ProcInv, Current, Interruptible
  <2>8. OneIsRunning'
    BY <2>1, <2>2, <2>4, <2>5 DEF ProcInv, OneIsRunning, PROC_READY, PROC_RUNNING
  <2>9. RingIsClosed'
    <3>1. \A p \in DOMAIN pcbs : \E q \in DOMAIN pcbs : pcbs[q].next = p
      BY <2>1 DEF ProcInv, RingIsClosed, Linked
    <3>2. \A p \in DOMAIN pcbs : \E q \in DOMAIN pcbs : pcbs'[q].next = p
      BY <2>5, <3>1
    <3>3. DOMAIN pcbs \ {} = DOMAIN pcbs
      OBVIOUS
    <3>4. QED
      BY <2>2, <2>4, <3>2, <3>3 DEF RingIsClosed, Linked
  <2>10. QED
    BY <2>6, <2>7, <2>8, <2>9 DEF ProcInv
<1>3. QED
  BY <1>1, <1>2

\* Every step of the kernel preserves the invariant.
LEMMA ProcInvStep ==
  ASSUME ProcInv, [Next]_vars
  PROVE  ProcInv'
<1>1. CASE process_init
  BY <1>1, InitStep
<1>2. CASE process_start_usermode
  <2>1. CASE NoProcess(last_pid + 1)
    BY <1>2, <2>1, AllocPanics DEF process_start_usermode, PANIC, ProcInv, Interruptible
  <2>2. CASE ~NoProcess(last_pid + 1)
    BY <1>2, <2>2, ReadyStep DEF process_start_usermode, PANIC
  <2>3. QED
    BY <2>1, <2>2
<1>3. CASE enable_int
  BY <1>3, QuietStep, Zenon DEF enable_int
<1>4. CASE fork
  BY <1>4, QuietStep, Zenon DEF fork
<1>5. CASE fork_alloc
  <2>1. CASE NoProcess(last_pid + 1)
    BY <1>5, <2>1, AllocPanics DEF fork_alloc, PANIC, ProcInv, Interruptible
  <2>2. CASE ~NoProcess(last_pid + 1)
    BY <1>5, <2>2, ReadyStep DEF fork_alloc, PANIC
  <2>3. QED
    BY <2>1, <2>2
<1>6. CASE fork_space
  BY <1>6, SpaceStep
<1>7. CASE fork_link
  BY <1>7, LinkStep
<1>8. CASE switch_task
  BY <1>8, SwitchStep
<1>9. CASE UNCHANGED vars
  BY <1>9 DEF vars, ProcInv, TypeOK, PidsInOrder, Current,
         Interruptible, OneIsRunning, RingIsClosed, Linked
<1>10. QED
  BY <1>1, <1>2, <1>3, <1>4, <1>5, <1>6, <1>7, <1>8, <1>9 DEF Next, Stopped
-----------------------------------------------------------------------------
\* In every state that process_init, process_start_usermode, fork and
\* switch_task reach, one process runs and the ring of processes is closed.
THEOREM ProcessesAreSeparate == Spec => [](TypeOK /\ OneIsRunning /\ RingIsClosed)
<1>1. ProcInv => TypeOK /\ OneIsRunning /\ RingIsClosed
  BY DEF ProcInv
<1>2. QED
  BY <1>1, ProcInvInit, ProcInvStep, PTL DEF Spec

\* real_fork is never interrupted by a switch: interrupts are off in all of it.
THEOREM ForkIsNotSwitched == Spec => NoSwitchInFork
<1>1. ProcInv /\ [Next]_vars => [Forking => proc_current' = proc_current]_vars
  <2> SUFFICES ASSUME ProcInv, Next, Forking
               PROVE  proc_current' = proc_current
    OBVIOUS
  <2>1. ~switch_task
    BY DEF ProcInv, Interruptible, Forking, switch_task
  <2>2. QED
    BY <2>1 DEF Next, Forking, process_init, process_start_usermode, enable_int, fork,
           fork_alloc, fork_space, fork_link, Stopped, vars
<1>2. QED
  BY <1>1, ProcInvInit, ProcInvStep, PTL DEF Spec, NoSwitchInFork
=============================================================================
