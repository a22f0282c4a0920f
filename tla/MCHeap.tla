------------------------------ MODULE MCHeap -------------------------------
EXTENDS Heap

(* Nothing, less than a unit, an odd size, an even one, nearly all of the  *)
(* arena, and a size that align_up wraps to 0.                             *)
MCRequests == {0, 1, 3, 4, 18, WORD - 1}
(* No element, one, a few, and enough of them for the product to wrap.  *)
(* One of WORD - 1 bytes passes kcalloc's test and wraps in align_up.   *)
MCCounts   == {0, 1, 2, 11}
=============================================================================
