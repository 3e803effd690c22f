----------------------------- MODULE MCLifecycle -----------------------------
(* The constants of the model-checking runs of Lifecycle. *)
EXTENDS Lifecycle, TLC

CONSTANTS main, t1, t2, t3

ThreeThreads == {main, t1, t2}
FourThreads == {main, t1, t2, t3}
==============================================================================
