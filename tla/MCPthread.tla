------------------------------ MODULE MCPthread ------------------------------
(* The constants of the model-checking runs of Pthread. *)
EXTENDS PthreadService, TLC

CONSTANTS main, t1, t2, t3

ThreeThreads == {main, t1, t2}
FourThreads == {main, t1, t2, t3}

Workers == Permutations(Threads \ {Main})
=============================================================================
