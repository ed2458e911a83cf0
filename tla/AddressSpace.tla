---------------------------- MODULE AddressSpace ----------------------------
(***************************************************************************)
(* What the virtual memory manager promises: a set of pages, each of which *)
(* stays where it was mapped until it is unmapped.                         *)
(***************************************************************************)
CONSTANTS VPages, Frames

VARIABLE space   \* the frame of every page that can be accessed

Init == space = [v \in {} |-> v]

\* vmm_map_page succeeds for a page that is not mapped.
Map(v, f) ==
  /\ v \notin DOMAIN space
  /\ space' = [w \in DOMAIN space \cup {v} |-> IF w = v THEN f ELSE space[w]]

\* vmm_unmap_page.
Unmap(v) ==
  /\ v \in DOMAIN space
  /\ space' = [w \in DOMAIN space \ {v} |-> space[w]]

Next == \E v \in VPages : Unmap(v) \/ \E f \in Frames : Map(v, f)

Spec == Init /\ [][Next]_space
=============================================================================
