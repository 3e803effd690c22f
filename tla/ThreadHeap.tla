------------------------------ MODULE ThreadHeap ------------------------------
(***************************************************************************)
(* The heap of the phase before virtual memory, code/my_malloc.c, with the *)
(* part of code/my_pthread.c that it leans on: each thread allocates in    *)
(* the page that its tid selects, my_pthread_create gives out the tids and *)
(* an exit clears the page for the next thread with that tid.              *)
(*                                                                         *)
(* There is no lock: the timer may expire between any two of the steps.    *)
(* The search for a slot and the update of a counter are one step each:    *)
(* tids are distinct, so that no other thread comes to that page.  A       *)
(* switch in a stretch (InStretch: the first call of my_malloc, a create,  *)
(* an exit or a yield) breaks the program: a pool is mapped twice, a       *)
(* thread runs without a tid or after its thread_info_t was freed, a page  *)
(* is cleared under its next owner, the ready queue is half changed.  The  *)
(* model ends there, with halt = "cut", and says nothing of what follows.  *)
(*                                                                         *)
(* A block is a page, a class and a slot; Heap has the addresses, and the  *)
(* rejection of those that are none.  Mutexes and joins are as in Pthread  *)
(* and left out; so there are handles for all threads, and the main thread *)
(* does not exit.                                                          *)
(***************************************************************************)
EXTENDS Integers, FiniteSets, SequencesExt

CONSTANTS
  Threads, Main,
  Null,
  MaxMutex,    \* MAX_MUTEX_NUM: handles, tids and pages
  Capacity,    \* MAX_REGION32_NUM and its like, for each class
  MainTids     \* what the main thread's tid may hold: malloc leaves it unset

ASSUME ThreadHeapAssumption ==
  /\ Main \in Threads
  /\ IsFiniteSet(Threads)
  /\ Null \notin Threads
  /\ MaxMutex \in Nat /\ MaxMutex >= Cardinality(Threads)
  /\ \A k \in DOMAIN Capacity : Capacity[k] \in Nat
  /\ MainTids # {} /\ MainTids \subseteq 0 .. MaxMutex - 1

VARIABLES
  malloc_init,   \* g_malloc_init
  pthread_init,  \* g_pthread_init
  current,       \* CURRENT, and before my_pthread_init the main thread
  ready,         \* g_queue_ready
  used,          \* the handles in use in g_mutex_table
  tid,           \* tid of each thread_info_t
  alive,         \* the threads created and not ended
  marks,         \* g_metadata[p].region32 and its like: the slots marked
  cnt,           \* g_metadata[p].region32_count and its like
  pc,            \* the step each thread is at, with its block or new thread
  got,           \* the blocks each thread was given and has not freed
  halt           \* how the process ended, or "cut": a stretch was interrupted

threads == <<pthread_init, current, ready, used, tid, alive>>
heap    == <<malloc_init, marks, cnt>>
vars    == <<threads, heap, pc, got, halt>>

Pages   == 0 .. MaxMutex - 1
Classes == DOMAIN Capacity
Blocks  == UNION {Pages \X {k} \X (0 .. Capacity[k] - 1) : k \in Classes}

User        == [at |-> "user", of |-> Null]
EmptyMarks  == [p \in Pages |-> [k \in Classes |-> {}]]
EmptyCounts == [p \in Pages |-> [k \in Classes |-> 0]]

Init ==
  /\ malloc_init = FALSE /\ pthread_init = FALSE
  /\ current = Main /\ ready = <<>>
  /\ used = {}
  /\ tid = [t \in Threads |-> 0]
  /\ alive = {Main}
  /\ marks = EmptyMarks /\ cnt = EmptyCounts
  /\ pc = [t \in Threads |-> User]
  /\ got = [t \in Threads |-> {}]
  /\ halt = "no"

InUser       == halt = "no" /\ pc[current] = User
At(at)       == halt = "no" /\ pc[current].at = at
Goto(at, of) == pc' = [pc EXCEPT ![current] = [at |-> at, of |-> of]]
Return       == pc' = [pc EXCEPT ![current] = User]
Arg          == pc[current].of

-----------------------------------------------------------------------------
(* my_malloc and my_free *)

Page_Shared == 0

\* thread_heap_base and thread_heap_metadata: "CURRENT == NULL means that the main
\* thread calls malloc before pthread init".
Page == IF pthread_init THEN tid[current] ELSE 0

\* The first call maps the pool ...
my_malloc_init ==
  /\ InUser
  /\ ~malloc_init
  /\ marks' = EmptyMarks /\ cnt' = EmptyCounts
  /\ Goto("init_zero", Null)
  /\ UNCHANGED <<malloc_init, threads, got, halt>>

\* ... and clears whatever pool g_pages names by now.  The rest of that call of
\* my_malloc is as in any other.
init_zero ==
  /\ At("init_zero")
  /\ marks' = EmptyMarks /\ cnt' = EmptyCounts
  /\ malloc_init' = TRUE
  /\ Return
  /\ UNCHANGED <<threads, got, halt>>

\* _malloc finds a slot; a class that is full gives NULL and changes nothing.
my_malloc(k, s) ==
  /\ InUser
  /\ malloc_init
  /\ cnt[Page][k] < Capacity[k]
  /\ <<Page, k, s>> \in Blocks /\ s \notin marks[Page][k]
  /\ \A r \in 0 .. s - 1 : r \in marks[Page][k]
  /\ Goto("malloc_mark", <<Page, k, s>>)
  /\ UNCHANGED <<threads, heap, got, halt>>

malloc_mark ==
  /\ At("malloc_mark")
  /\ marks' = [marks EXCEPT ![Arg[1]][Arg[2]] = @ \cup {Arg[3]}]
  /\ got' = [got EXCEPT ![current] = @ \cup {Arg}]
  /\ Goto("malloc_count", Arg)
  /\ UNCHANGED <<malloc_init, cnt, threads, halt>>

malloc_count ==
  /\ At("malloc_count")
  /\ cnt' = [cnt EXCEPT ![Arg[1]][Arg[2]] = @ + 1]
  /\ Return
  /\ UNCHANGED <<malloc_init, marks, threads, got, halt>>

InRange_AnyPage(b) == TRUE

\* The block lies in the page of the thread that frees it.
InRange(b) == b[1] = Page

\* Any thread frees any block, its own or not, marked or not; _free reports what
\* is out of range or not marked, and changes nothing then.
my_free(b) ==
  /\ InUser
  /\ malloc_init
  /\ InRange(b)
  /\ cnt[b[1]][b[2]] # 0 /\ b[3] \in marks[b[1]][b[2]]
  /\ Goto("free_unmark", b)
  /\ UNCHANGED <<threads, heap, got, halt>>

free_unmark ==
  /\ At("free_unmark")
  /\ marks' = [marks EXCEPT ![Arg[1]][Arg[2]] = @ \ {Arg[3]}]
  /\ got' = [got EXCEPT ![current] = @ \ {Arg}]
  /\ Goto("free_count", Arg)
  /\ UNCHANGED <<malloc_init, cnt, threads, halt>>

free_count ==
  /\ At("free_count")
  /\ cnt' = [cnt EXCEPT ![Arg[1]][Arg[2]] = @ - 1]
  /\ Return
  /\ UNCHANGED <<malloc_init, marks, threads, got, halt>>

-----------------------------------------------------------------------------
(* The threads. *)

\* CURRENT goes to the end of the ready queue and the first thread runs.
Rotate == current' = Head(ready) /\ ready' = Append(Tail(ready), current)

InStretch ==
  pc[current].at \in {"init_zero", "create_tid", "exit_info", "exit_reclaim", "yield"}

\* The timer: schedule(), with the signal blocked in the handler.  In a stretch
\* it is the last switch that is modelled.
timer_handler ==
  /\ halt = "no"
  /\ pthread_init
  /\ ready # <<>>
  /\ Rotate
  /\ halt' = IF InStretch THEN "cut" ELSE "no"
  /\ UNCHANGED <<pthread_init, used, tid, alive, heap, pc, got>>

\* The other schedule() has neither lock nor blocked signal, so that it is a
\* stretch from the call ...
my_pthread_yield ==
  /\ InUser
  /\ Goto("yield", Null)
  /\ UNCHANGED <<threads, heap, got, halt>>

\* ... to the switch.
schedule ==
  /\ At("yield")
  /\ Return
  /\ IF ready = <<>> THEN UNCHANGED <<current, ready>> ELSE Rotate
  /\ UNCHANGED <<pthread_init, used, tid, alive, heap, got, halt>>

\* my_pthread_create, with the my_pthread_init of the first call: the new
\* thread is in the ready queue before it has a tid, with whatever its memory
\* held in that place.
my_pthread_create(t) ==
  /\ InUser
  /\ t \notin alive
  /\ pthread_init' = TRUE
  /\ \E g \in MainTids, h \in Pages :
       tid' = [tid EXCEPT ![Main] = IF pthread_init THEN @ ELSE g, ![t] = h]
  /\ alive' = alive \cup {t}
  /\ ready' = Append(ready, t)
  /\ Goto("create_tid", t)
  /\ UNCHANGED <<current, used, heap, got, halt>>

\* alloc_mutex
create_tid ==
  /\ At("create_tid")
  /\ \E h \in Pages \ {0} :
       /\ h \notin used /\ 1 .. h - 1 \subseteq used
       /\ used' = used \cup {h}
       /\ tid' = [tid EXCEPT ![Arg] = h]
  /\ Return
  /\ UNCHANGED <<pthread_init, current, ready, alive, heap, got, halt>>

\* thread_stub and my_pthread_exit: the handle is free before the page is.
my_pthread_exit ==
  /\ InUser
  /\ current # Main
  /\ used' = used \ {tid[current]}
  /\ Goto("exit_info", Null)
  /\ UNCHANGED <<pthread_init, current, ready, tid, alive, heap, got, halt>>

free_thread_info ==
  /\ At("exit_info")
  /\ alive' = alive \ {current}
  /\ Goto("exit_reclaim", Null)
  /\ UNCHANGED <<pthread_init, current, ready, used, tid, heap, got, halt>>

Reclaimed_MarksOnly ==
  /\ marks' = [marks EXCEPT ![tid[current]] = EmptyMarks[0]]
  /\ UNCHANGED cnt

\* reclaim_current_heap reads the tid from memory that was just freed; free keeps
\* its list in the first words of it and leaves the tid alone.
Reclaimed ==
  /\ marks' = [marks EXCEPT ![tid[current]] = EmptyMarks[0]]
  /\ cnt' = [cnt EXCEPT ![tid[current]] = EmptyCounts[0]]

\* ... then CURRENT = NULL and schedule(); with nobody to run the process ends.
reclaim_current_heap ==
  /\ At("exit_reclaim")
  /\ Reclaimed
  /\ got' = [got EXCEPT ![current] = {}]
  /\ Return
  /\ \/ ready = <<>> /\ halt' = "exit" /\ UNCHANGED <<current, ready>>
     \/ ready # <<>> /\ current' = Head(ready) /\ ready' = Tail(ready) /\ UNCHANGED halt
  /\ UNCHANGED <<malloc_init, pthread_init, used, tid, alive>>

-----------------------------------------------------------------------------
Next ==
  \/ my_malloc_init \/ init_zero
  \/ \E b \in Blocks : my_malloc(b[2], b[3]) \/ my_free(b)
  \/ malloc_mark \/ malloc_count \/ free_unmark \/ free_count
  \/ timer_handler \/ my_pthread_yield \/ schedule
  \/ \E t \in Threads : my_pthread_create(t)
  \/ create_tid
  \/ my_pthread_exit \/ free_thread_info \/ reclaim_current_heap

Spec == Init /\ [][Next]_vars

-----------------------------------------------------------------------------
(* Properties. *)

Held == UNION {got[t] : t \in Threads}

\* Until the timer interrupts a stretch, the metadata marks the blocks that threads
\* hold and no other, though the timer separates the steps of their calls: a free
\* or an exit gives back blocks of that thread only, none is left marked by a
\* thread that is gone, and a thread that gets a used tid starts with an empty
\* page.
MarksAreBlocks ==
  halt # "cut" => {b \in Blocks : b[3] \in marks[b[1]][b[2]]} = Held

\* The threads but for one that waits for its creator to store its tid.
WithTid == alive \ {pc[t].of : t \in {u \in alive : pc[u].at = "create_tid"}}

\* Until the timer interrupts a stretch, between two calls of a thread the counters
\* of its page are the numbers of marks, which decide whether _malloc and _free
\* look at them, though marking and counting are steps without a lock.
CountsMatch ==
  halt # "cut" /\ pthread_init =>
    \A t \in WithTid : pc[t].at \in {"user", "create_tid", "yield"} =>
      \A k \in Classes : cnt[tid[t]][k] = Cardinality(marks[tid[t]][k])

\* The threads' heaps are one allocator, up to the first switch in a stretch, where
\* the model ends: a block goes to one thread at a time, and only that thread, or
\* its end, gives it back.
Alloc == INSTANCE Allocator
  WITH held <- UNION {{<<t, {b}>> : b \in got[t]} : t \in Threads}

ImplementsAllocator == Alloc!Spec
================================================================================
