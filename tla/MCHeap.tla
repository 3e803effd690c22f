-------------------------------- MODULE MCHeap --------------------------------
(* The constants of the model-checking runs of Heap: pages of twelve bytes     *)
(* with a region of two slots and one of a single slot, three records of       *)
(* metadata to a page.  The pointers are alike.                                *)
EXTENDS Heap, TLC

CONSTANTS p1, p2, p3, p4, p5, p6

SixPointers == {p1, p2, p3, p4, p5, p6}
TwoSizes    == <<3, 6>>
Symmetry    == Permutations(SixPointers)
===============================================================================
