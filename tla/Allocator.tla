------------------------------- MODULE Allocator -------------------------------
(***************************************************************************)
(* What a program expects of malloc and free, whatever is kept in which    *)
(* page: the bytes of a block belong to nobody else until the holder of    *)
(* the block gives it back or ends, and nobody gives back another's.       *)
(***************************************************************************)
VARIABLE held   \* the blocks in use: pairs of a holder and a set of bytes

Init == held = {}

Malloc ==
  \E x \in held' \ held :
    /\ held' = held \cup {x}
    /\ \A y \in held : y[2] \cap x[2] = {}

Free == \E x \in held \ held' : held' = held \ {x}

\* The holder ends: all its blocks are free again.
Leave == \E x \in held \ held' : held' = {y \in held : y[1] # x[1]}

Next == Malloc \/ Free \/ Leave

Spec == Init /\ [][Next]_held
================================================================================
