------------------------------- MODULE Preempt -------------------------------
(***************************************************************************)
(* The mutex calls of tmp2/my_pthread.c statement by statement.  Pthread   *)
(* takes each call as one step; here the timer may expire between two      *)
(* reads or writes of g_mutex_table, and between the test that the ready   *)
(* queue has a thread and the removal of its head.  The makefiles ask for  *)
(* no optimisation: an update count += 1 loads the count and then stores   *)
(* it, and the timer may come between the two.                             *)
(*                                                                         *)
(* Two stretches stay one step.  timer_handler runs with its own signal    *)
(* blocked.  And from the start_timer in acquire_queue_spinlock to the     *)
(* swapcontext, or to release_queue_spinlock, 25 ms of processor time do   *)
(* not pass: g_queue_spinlock is never found taken.                        *)
(*                                                                         *)
(* All threads have started.  They initialise mutexes, lock them in the    *)
(* order of their handles, unlock and yield.                               *)
(***************************************************************************)
EXTENDS Integers, FiniteSets, SequencesExt

CONSTANTS
  Threads, First,   \* all threads, and the one that runs first
  Null,
  MaxMutex,         \* MAX_MUTEX_NUM
  Premade,          \* the mutexes initialised before
  Initialisers,     \* the threads that call my_pthread_mutex_init, once each
  TimerAt,          \* where the timer may expire
  MaxTorn           \* bound: no call begins on a mutex that lost more updates

ASSUME PreemptAssumption ==
  /\ First \in Threads
  /\ IsFiniteSet(Threads)
  /\ Null \notin Threads
  /\ MaxMutex \in Nat \ {0}
  /\ Premade \subseteq 1 .. MaxMutex - 1
  /\ Initialisers \subseteq Threads
  /\ TimerAt \in {"user", "anywhere"}
  /\ MaxTorn \in Nat

VARIABLES
  current,  \* CURRENT
  ready,    \* g_queue_ready
  wait,     \* g_queue_wait
  used,     \* g_mutex_table[h].used
  count,    \* g_mutex_table[h].count
  torn,     \* history: how many updates of count[h] were lost
  mu,       \* the handle a thread in the wait queue waits on
  pc,       \* the statement each thread is at, the handle it is about and,
            \* between the load and the store of an update, the count it loaded
  holds,    \* the mutexes each thread has
  made,     \* the handle each thread got from my_pthread_mutex_init, or 0
  halt      \* how the process ended, if it has

queues == <<current, ready, wait>>
table  == <<used, count, torn>>
vars   == <<queues, table, mu, pc, holds, made, halt>>

Handles == 1 .. MaxMutex - 1

User == [at |-> "user", h |-> 0, n |-> 0]

Init ==
  /\ current = First
  /\ ready \in SetToSeqs(Threads \ {First})
  /\ wait = <<>>
  /\ used = [h \in Handles |-> h \in Premade]
  /\ count = [h \in Handles |-> 0]
  /\ torn = [h \in Handles |-> 0]
  /\ mu = [t \in Threads |-> 0]
  /\ pc = [t \in Threads |-> User]
  /\ holds = [t \in Threads |-> {}]
  /\ made = [t \in Threads |-> 0]
  /\ halt = "no"

\* CURRENT is at a statement of a call about h; it goes on to the next.
At(at, h)   == halt = "no" /\ pc[current].at = at /\ pc[current].h = h
Goto(at, h) == pc' = [pc EXCEPT ![current] = [at |-> at, h |-> h, n |-> 0]]
InUser      == halt = "no" /\ pc[current] = User
Return      == pc' = [pc EXCEPT ![current] = User]

-----------------------------------------------------------------------------
(* The scheduler. *)

\* schedule(), as the signal handler runs it.
timer_handler ==
  /\ halt = "no"
  /\ pc[current] = User \/ TimerAt = "anywhere"
  /\ ready # <<>>
  /\ current' = Head(ready)
  /\ ready' = Append(Tail(ready), current)
  /\ UNCHANGED <<wait, table, mu, pc, holds, made, halt>>

\* my_pthread_yield: schedule() looks whether the queue is empty ...
yield_check ==
  /\ InUser
  /\ ready # <<>>
  /\ Goto("yield_queue", 0)
  /\ UNCHANGED <<queues, table, mu, holds, made, halt>>

\* ... and takes its head.
yield_queue ==
  /\ At("yield_queue", 0)
  /\ ready # <<>>
  /\ current' = Head(ready)
  /\ ready' = Append(Tail(ready), current)
  /\ Return
  /\ UNCHANGED <<wait, table, mu, holds, made, halt>>

\* The thread that was there has gone in the meantime: CURRENT becomes NULL and
\* STAILQ_REMOVE_HEAD follows a null pointer.
QueueGone ==
  /\ halt = "no"
  /\ pc[current].at \in {"yield_queue", "wait_queue"}
  /\ ready = <<>>
  /\ halt' = "null_head"
  /\ UNCHANGED <<queues, table, mu, pc, holds, made>>

-----------------------------------------------------------------------------
(* my_pthread_mutex_init *)

\* alloc_mutex() finds a slot that is not used, and takes it.
alloc_scan(h) ==
  /\ InUser
  /\ current \in Initialisers /\ made[current] = 0
  /\ ~used[h] /\ \A g \in 1 .. h - 1 : used[g]
  /\ Goto("alloc_take", h)
  /\ UNCHANGED <<queues, table, mu, holds, made, halt>>

alloc_take(h) ==
  /\ At("alloc_take", h)
  /\ used' = [used EXCEPT ![h] = TRUE]
  /\ count' = [count EXCEPT ![h] = 0]
  /\ made' = [made EXCEPT ![current] = h]
  /\ Return
  /\ UNCHANGED <<queues, torn, mu, holds, halt>>

\* errExit("alloc_mutex")
TableFull ==
  /\ InUser
  /\ current \in Initialisers /\ made[current] = 0
  /\ \A h \in Handles : used[h]
  /\ halt' = "exit"
  /\ UNCHANGED <<queues, table, mu, pc, holds, made>>

Mutexes == Premade \cup {made[t] : t \in {u \in Threads : made[u] # 0}}

-----------------------------------------------------------------------------
(* count += 1 and count -= 1 *)

\* The four updates: the statement that loads the count, and the one that stores it.
Updates == {<<"take_load", "lock_take">>, <<"count_load", "lock_count">>,
            <<"last_load", "unlock_last">>, <<"hand_load", "unlock_hand">>}

load(h) ==
  \E u \in Updates :
    /\ At(u[1], h)
    /\ pc' = [pc EXCEPT ![current] = [at |-> u[2], h |-> h, n |-> count[h]]]
    /\ UNCHANGED <<queues, table, mu, holds, made, halt>>

\* What other threads stored since the load is overwritten.
Stores(h, d) ==
  /\ count' = [count EXCEPT ![h] = pc[current].n + d]
  /\ torn' = [torn EXCEPT ![h] = @ + IF count[h] = pc[current].n THEN 0 ELSE 1]
  /\ UNCHANGED used

-----------------------------------------------------------------------------
(* my_pthread_mutex_lock *)

lock_test(h) ==
  /\ InUser
  /\ h \in Mutexes /\ \A n \in holds[current] : n < h
  /\ torn[h] <= MaxTorn
  /\ Goto(IF count[h] = 0 THEN "take_load" ELSE "count_load", h)
  /\ UNCHANGED <<queues, table, mu, holds, made, halt>>

Gets(t, h) == holds' = [holds EXCEPT ![t] = @ \cup {h}]

lock_take(h) ==
  /\ At("lock_take", h)
  /\ Stores(h, 1)
  /\ Gets(current, h)
  /\ Return
  /\ UNCHANGED <<queues, mu, made, halt>>

lock_count(h) ==
  /\ At("lock_count", h)
  /\ Stores(h, 1)
  /\ mu' = [mu EXCEPT ![current] = h]
  /\ Goto("wait_check", h)
  /\ UNCHANGED <<queues, holds, made, halt>>

\* schedule_swap_current_to_wait: with nobody to run the lock returns.
wait_check(h) ==
  /\ At("wait_check", h)
  /\ \/ ready = <<>> /\ Gets(current, h) /\ Return
     \/ ready # <<>> /\ Goto("wait_queue", h) /\ UNCHANGED holds
  /\ UNCHANGED <<queues, table, mu, made, halt>>

wait_queue_QueuesNext(h) ==
  /\ At("wait_queue", h)
  /\ ready # <<>>
  /\ current' = Head(ready)
  /\ ready' = Tail(ready)
  /\ wait' = Append(wait, current')
  /\ Return
  /\ UNCHANGED <<table, mu, holds, made, halt>>

wait_queue(h) ==
  /\ At("wait_queue", h)
  /\ ready # <<>>
  /\ current' = Head(ready)
  /\ ready' = Tail(ready)
  /\ wait' = Append(wait, current)
  /\ Return
  /\ UNCHANGED <<table, mu, holds, made, halt>>

-----------------------------------------------------------------------------
(* my_pthread_mutex_unlock *)

Loses(t, h) == holds' = [holds EXCEPT ![t] = @ \ {h}]

unlock(h) ==
  /\ InUser
  /\ h \in holds[current]
  /\ torn[h] <= MaxTorn
  /\ \/ count[h] = 0 /\ Loses(current, h) /\ UNCHANGED pc
     \/ count[h] # 0 /\ Goto("unlock_test", h) /\ UNCHANGED holds
  /\ UNCHANGED <<queues, table, mu, made, halt>>

LastClaim_OffByOne(h) == count[h] <= 2

LastClaim(h) == count[h] = 1

unlock_test(h) ==
  /\ At("unlock_test", h)
  /\ Goto(IF LastClaim(h) THEN "last_load" ELSE "hand_load", h)
  /\ UNCHANGED <<queues, table, mu, holds, made, halt>>

unlock_last(h) ==
  /\ At("unlock_last", h)
  /\ Stores(h, -1)
  /\ Loses(current, h)
  /\ Return
  /\ UNCHANGED <<queues, mu, made, halt>>

unlock_hand_NoCount(h) ==
  /\ At("unlock_hand", h)
  /\ Goto("release", h)
  /\ UNCHANGED <<queues, table, mu, holds, made, halt>>

unlock_hand(h) ==
  /\ At("unlock_hand", h)
  /\ Stores(h, -1)
  /\ Goto("release", h)
  /\ UNCHANGED <<queues, mu, holds, made, halt>>

FirstWaiter(h, i) ==
  /\ i \in 1 .. Len(wait)
  /\ mu[wait[i]] = h
  /\ \A j \in 1 .. i - 1 : mu[wait[j]] # h

\* release_thread: the first thread that waits for h has it from now on.
release_thread(h) ==
  /\ At("release", h)
  /\ \/ /\ \A i \in 1 .. Len(wait) : ~FirstWaiter(h, i)
        /\ Loses(current, h)
        /\ UNCHANGED <<ready, wait>>
     \/ \E i \in 1 .. Len(wait) :
          /\ FirstWaiter(h, i)
          /\ wait' = RemoveAt(wait, i)
          /\ ready' = Append(ready, wait[i])
          /\ holds' = [holds EXCEPT ![current] = @ \ {h}, ![wait[i]] = @ \cup {h}]
  /\ Return
  /\ UNCHANGED <<current, table, mu, made, halt>>

-----------------------------------------------------------------------------

Next ==
  \/ timer_handler
  \/ yield_check \/ yield_queue \/ QueueGone
  \/ TableFull
  \/ \E h \in Handles :
       \/ alloc_scan(h) \/ alloc_take(h)
       \/ load(h)
       \/ lock_test(h) \/ lock_take(h) \/ lock_count(h)
       \/ wait_check(h) \/ wait_queue(h)
       \/ unlock(h) \/ unlock_test(h) \/ unlock_last(h) \/ unlock_hand(h)
       \/ release_thread(h)

Spec == Init /\ [][Next]_vars

-----------------------------------------------------------------------------
(* Properties. *)

\* Wherever the timer expires, each thread is CURRENT or in one queue: that much
\* the spinlock of my_pthread.c achieves.
ThreadsConserved ==
  \A t \in Threads :
    1 = (IF t = current THEN 1 ELSE 0)
          + Cardinality({i \in 1 .. Len(ready) : ready[i] = t})
          + Cardinality({i \in 1 .. Len(wait) : wait[i] = t})

\* The threads that have added to the count of h and not yet subtracted.
Claims(h) ==
  {t \in Threads :
     \/ h \in holds[t] /\ ~(pc[t].at = "release" /\ pc[t].h = h)
     \/ t \in ToSet(wait) /\ mu[t] = h
     \/ pc[t].h = h /\ pc[t].at \in {"wait_check", "wait_queue"}}

\* The threads that my_pthread_mutex_init gives the handle h, or is about to.
Given(h) ==
  {t \in Threads : made[t] = h \/ (pc[t].at = "alloc_take" /\ pc[t].h = h)}

\* Wherever the timer expires, the count of a mutex that is initialised once is
\* the number of its claims until an update of it is lost: the lost update is
\* the only way in which the count goes wrong.  A decision taken from a count
\* that another thread has since changed does not make it wrong.
CountExact ==
  \A h \in Mutexes :
    /\ torn[h] = 0
    /\ Given(h) = {} \/ (h \notin Premade /\ \E t \in Threads : Given(h) = {t})
    => count[h] = Cardinality(Claims(h))

\* Two threads never have one mutex: nothing comes between the test of the count
\* in my_pthread_mutex_lock and the addition to it, or within the addition.
MutualExclusion ==
  \A t, u \in Threads : t # u => holds[t] \cap holds[u] = {}

=============================================================================
