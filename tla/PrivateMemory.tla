---------------------------- MODULE PrivateMemory ----------------------------
(***************************************************************************)
(* What the threads expect of the memory of virt.h: a thread's pages are   *)
(* its own, and each holds what that thread last wrote to it while it ran, *)
(* whatever the other threads do and however often the pages move.         *)
(***************************************************************************)
CONSTANTS Threads, First, Pages, Values, Zero, Unmapped

VARIABLES
  running,  \* the thread that runs
  mem       \* what each thread reads in each page of its own

Init ==
  /\ running = First
  /\ mem = [t \in Threads |-> [p \in Pages |-> Unmapped]]

Map(p) ==
  /\ mem[running][p] = Unmapped
  /\ mem' = [mem EXCEPT ![running][p] = Zero]
  /\ UNCHANGED running

Store(p, v) ==
  /\ mem[running][p] # Unmapped
  /\ mem' = [mem EXCEPT ![running][p] = v]
  /\ UNCHANGED running

Run(t) ==
  /\ running' = t
  /\ UNCHANGED mem

Leave(t) ==
  /\ running' = t
  /\ mem' = [mem EXCEPT ![running] = [p \in Pages |-> Unmapped]]

Next ==
  \/ \E p \in Pages : Map(p) \/ \E v \in Values : Store(p, v)
  \/ \E t \in Threads \ {running} : Run(t) \/ Leave(t)

Spec == Init /\ [][Next]_<<running, mem>>
=============================================================================
