---------------------------- MODULE VirtMemPrivate ----------------------------
(* VirtMem implements PrivateMemory: the refinement mapping.                *)
EXTENDS VirtMem

CONSTANT Unmapped

ASSUME UnmappedAssumption == Unmapped \notin Values

\* What thread t finds, or would find if it ran, in its page p.
Contents(t, p) ==
  CASE pte[t][p].kind = "unused"  -> Unmapped
    [] pte[t][p].kind = "swapout" -> file[pte[t][p].at]
    [] pte[t][p].kind = "valid" /\ t = current -> window[p]
    [] OTHER -> phys[pte[t][p].at]

Private == INSTANCE PrivateMemory
  WITH First <- Main,
       running <- current,
       mem <- [t \in Threads |-> [p \in Pages |-> Contents(t, p)]]

\* virt.h: each thread has a page table of its own; whatever is copied, evicted
\* and swapped in, a thread reads in its pages what it wrote there.
ImplementsPrivateMemory == Private!Spec
=============================================================================
