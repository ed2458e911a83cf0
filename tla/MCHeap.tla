------------------------------- MODULE MCHeap -------------------------------
(* Bounds for model checking Heap: a header of 4 bytes, pages of 16 bytes, *)
(* arenas of two pages.  Two arenas hold up to eight blocks.               *)
EXTENDS Heap
=============================================================================
