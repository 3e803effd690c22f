------------------------------ MODULE MCVirtMem ------------------------------
(* The constants of the model-checking runs of VirtMem. *)
EXTENDS VirtMemPrivate, TLC

CONSTANTS main, t1, t2

TwoThreads == {main, t1}
ThreeThreads == {main, t1, t2}
=============================================================================
