------------------------------- MODULE MCVmm -------------------------------
(* An instance of Vmm for model checking.                                  *)
EXTENDS Vmm

\* Two pages that share a table, and one of another table.
ThreePages == {<<1, 0>>, <<1, 3>>, <<2, 1>>}

\* Pages are mapped only, as by this kernel, or unmapped, too.
MCUses == {[pages |-> ThreePages, frames |-> 10, unmaps |-> FALSE],
           [pages |-> {<<1, 0>>, <<2, 1>>}, frames |-> 8, unmaps |-> TRUE]}
=============================================================================
