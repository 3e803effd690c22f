----------------------------- MODULE MCSharedMem -----------------------------
(* The constants of the model-checking runs of SharedMem: pages of four     *)
(* bytes.                                                                   *)
EXTENDS SharedMem, TLC

CONSTANTS c1, c2, c3

ThreeCallers == {c1, c2, c3}

\* Less than a page, a page, and a byte more than one and two pages; nothing, and
\* more than the pool holds.
MixedSizes == {0, 3, 4, 5, 9, 13}
Symmetry   == Permutations(ThreeCallers)
==============================================================================
