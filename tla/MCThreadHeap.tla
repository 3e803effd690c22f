----------------------------- MODULE MCThreadHeap -----------------------------
(* The constants of the model-checking runs of ThreadHeap: one class, of two   *)
(* slots.  The created threads are alike.                                      *)
EXTENDS ThreadHeap, TLC

CONSTANTS main, t1, t2

ThreeThreads == {main, t1, t2}
OneOfTwo     == <<2>>
Symmetry     == Permutations({t1, t2})
===============================================================================
