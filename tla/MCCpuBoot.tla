----------------------------- MODULE MCCpuBoot -----------------------------
(* Instances of CpuBoot for model checking.                                *)
EXTENDS CpuBoot

\* The identifiers count the CPUs.
InOrder == [c \in CPUs |-> c]
=============================================================================
