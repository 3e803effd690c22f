------------------------------ MODULE MCPreempt ------------------------------
(* The constants of the model-checking runs of Preempt. *)
EXTENDS PreemptService, TLC

CONSTANTS t1, t2, t3

TwoThreads   == {t1, t2}
ThreeThreads == {t1, t2, t3}
==============================================================================
