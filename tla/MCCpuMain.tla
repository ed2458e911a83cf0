----------------------------- MODULE MCCpuMain -----------------------------
(* Instances of CpuMain for model checking.                                *)
EXTENDS CpuMain, TLC

\* The CPUs are interchangeable.
AnyOrder == Permutations(CPUs)
=============================================================================
