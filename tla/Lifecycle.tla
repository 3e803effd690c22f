------------------------------- MODULE Lifecycle -------------------------------
(***************************************************************************)
(* The life of a thread in tmp2/my_pthread.c statement by statement:       *)
(* create, exit, join and yield, the timer that expires between two        *)
(* statements, and the spinlock that guards the queues.                    *)
(*                                                                         *)
(* Processor time passes in user code, and between two armings of the      *)
(* timer the library is quicker than its 25 ms.  So the timer expires at   *)
(* any statement of a call up to the first acquire_queue_spinlock, which   *)
(* arms it afresh; an expiry has the same effect.  That is fresh.          *)
(*                                                                         *)
(* alloc_mutex is one step (Preempt takes it apart), and what exit does to *)
(* the pages of a thread is VirtMem's.  The main thread does not exit, and *)
(* the program joins each thread once, from a thread that nobody joins,    *)
(* and before its handle is handed out again.                              *)
(***************************************************************************)
EXTENDS Integers, FiniteSets, SequencesExt

CONSTANTS
  Threads, Main,
  Null,
  MaxMutex,    \* MAX_MUTEX_NUM
  Joiners      \* the threads that call my_pthread_join

ASSUME LifecycleAssumption ==
  /\ Main \in Threads
  /\ IsFiniteSet(Threads)
  /\ Null \notin Threads
  /\ MaxMutex \in Nat /\ MaxMutex >= Cardinality(Threads)
  /\ Joiners \subseteq Threads

VARIABLES
  running,   \* the thread whose context the processor executes
  current,   \* CURRENT
  ready,     \* g_queue_ready
  wait,      \* g_queue_wait
  used,      \* g_mutex_table[h].used
  count,     \* g_mutex_table[h].count
  spinlock,  \* g_queue_spinlock
  fresh,     \* whether the timer was armed since running left user code
  alive,     \* the thread_info_t that are allocated
  tid, mu,   \* their fields
  pc,        \* the statement each thread is at, its handle, the thread it makes
  unjoined,  \* the handles that my_pthread_create returned and nobody joined
  target,    \* the thread that a join is about, until that thread is freed
  cut,       \* history: whether the timer has expired within a join
  halt       \* how the process ended, if it has

queues  == <<running, current, ready, wait>>
table   == <<used, count>>
lock    == <<spinlock, fresh>>
info    == <<alive, tid, mu>>
program == <<unjoined, target, cut>>
vars    == <<queues, table, lock, info, pc, program, halt>>

Handles == 1 .. MaxMutex - 1

Stmt(at, h, t) == [at |-> at, h |-> h, t |-> t]
User == Stmt("user", 0, Null)

Init ==
  /\ running = Main /\ current = Main
  /\ ready = <<>> /\ wait = <<>>
  /\ used = [h \in Handles |-> FALSE]
  /\ count = [h \in Handles |-> 0]
  /\ spinlock = 0 /\ fresh = TRUE
  /\ alive = {Main}
  /\ tid = [t \in Threads |-> 0]
  /\ mu = [t \in Threads |-> 0]
  /\ pc = [t \in Threads |-> User]
  /\ unjoined = {}
  /\ target = [t \in Threads |-> Null]
  /\ cut = FALSE
  /\ halt = "no"

InUser == halt = "no" /\ pc[running] = User

\* The executing thread is at a statement of a call; it goes on to the next.
At(at)   == halt = "no" /\ pc[running].at = at
H        == pc[running].h
Goto(at) == pc' = [pc EXCEPT ![running].at = at]
Return   == pc' = [pc EXCEPT ![running] = User]

\* A call begins after any time in user code.
Call(at, h, t) ==
  /\ pc' = [pc EXCEPT ![running] = Stmt(at, h, t)]
  /\ fresh' = FALSE

-----------------------------------------------------------------------------
(* The spinlock and the timer. *)

Section == [create_lock |-> "create_insert", exit_lock |-> "exit_wake",
            schedule_lock |-> "schedule_queue", wait_lock |-> "wait_queue"]

acquire_queue_spinlock_NotArmed ==
  /\ halt = "no"
  /\ pc[running].at \in DOMAIN Section
  /\ spinlock = 0
  /\ spinlock' = 1
  /\ Goto(Section[pc[running].at])
  /\ UNCHANGED <<queues, table, fresh, info, program, halt>>

\* stop_timer, spin, take the lock, start_timer.  With the lock taken this is
\* the end: the timer is off and nobody else runs.
acquire_queue_spinlock ==
  /\ halt = "no"
  /\ pc[running].at \in DOMAIN Section
  /\ spinlock = 0
  /\ spinlock' = 1
  /\ fresh' = TRUE
  /\ Goto(Section[pc[running].at])
  /\ UNCHANGED <<queues, table, info, program, halt>>

release_queue_spinlock == spinlock' = 0

\* The timer may expire where the executing thread is.
MayExpire == halt = "no" /\ (pc[running] = User \/ ~fresh)

\* The executing thread has begun a join and is not in the wait queue.
InJoin == pc[running].at \in {"join_count", "join_zero", "join_add", "wait_check", "wait_lock"}

Requeue_InFront(t, rq) == <<t>> \o rq

Requeue(t, rq) == Append(rq, t)

\* schedule() in the signal handler, with the signal blocked.  With an empty
\* queue it does nothing.
timer_handler ==
  /\ MayExpire
  /\ spinlock = 0 /\ current = running
  /\ ready # <<>>
  /\ current' = Head(ready) /\ running' = current'
  /\ ready' = Requeue(current, Tail(ready))
  /\ fresh' = TRUE
  /\ cut' = (cut \/ InJoin)
  /\ UNCHANGED <<wait, table, spinlock, info, pc, unjoined, target, halt>>

-----------------------------------------------------------------------------
(* schedule() as a call. *)

my_pthread_yield ==
  /\ InUser
  /\ ready # <<>>
  /\ Call("schedule_lock", 0, Null)
  /\ UNCHANGED <<queues, table, spinlock, info, program, halt>>

\* CURRENT is NULL after an exit.  With nobody to run the process ends.
schedule_check ==
  /\ At("schedule")
  /\ \/ ready = <<>> /\ halt' = "exit" /\ UNCHANGED pc
     \/ ready # <<>> /\ Goto("schedule_lock") /\ UNCHANGED halt
  /\ UNCHANGED <<queues, table, lock, info, program>>

schedule_queue ==
  /\ At("schedule_queue")
  /\ ready # <<>>
  /\ current' = Head(ready)
  /\ ready' = IF current = Null THEN Tail(ready) ELSE Requeue(current, Tail(ready))
  /\ release_queue_spinlock
  /\ Goto("swap")
  /\ UNCHANGED <<running, wait, table, fresh, info, program, halt>>

\* The queue was not empty when schedule() looked, but is when it takes the
\* head: a null pointer.
QueueGone ==
  /\ At("schedule_queue")
  /\ ready = <<>>
  /\ halt' = "null_head"
  /\ UNCHANGED <<queues, table, lock, info, pc, program>>

\* swapcontext or setcontext, and the return of the call on the other side.
swapcontext ==
  /\ At("swap")
  /\ running' = current
  /\ Return
  /\ UNCHANGED <<current, ready, wait, table, lock, info, program, halt>>

-----------------------------------------------------------------------------
(* my_pthread_create *)

OwnersOf(h) == {t \in alive \ {Main} : tid[t] = h}

\* alloc_thread_info and alloc_mutex
my_pthread_create(t) ==
  /\ InUser
  /\ t \notin alive
  /\ \E h \in Handles :
       /\ ~used[h] /\ \A g \in 1 .. h - 1 : used[g]
       /\ used' = [used EXCEPT ![h] = TRUE]
       /\ count' = [count EXCEPT ![h] = 0]
       /\ tid' = [tid EXCEPT ![t] = h]
       /\ unjoined' = unjoined \ {h}
       /\ Call("create_count", h, t)
  /\ alive' = alive \cup {t}
  /\ mu' = [mu EXCEPT ![t] = 0]
  /\ UNCHANGED <<queues, spinlock, target, cut, halt>>

create_count_Forgotten ==
  /\ At("create_count")
  /\ Goto("create_lock")
  /\ UNCHANGED <<queues, table, lock, info, program, halt>>

create_count ==
  /\ At("create_count")
  /\ count' = [count EXCEPT ![H] = 1]
  /\ Goto("create_lock")
  /\ UNCHANGED <<queues, used, lock, info, program, halt>>

create_insert ==
  /\ At("create_insert")
  /\ ready' = Append(ready, pc[running].t)
  /\ unjoined' = unjoined \cup {H}
  /\ release_queue_spinlock
  /\ Return
  /\ UNCHANGED <<running, current, wait, table, fresh, info, target, cut, halt>>

-----------------------------------------------------------------------------
(* thread_stub after the start routine has returned, and my_pthread_exit. *)

my_pthread_exit ==
  /\ InUser
  /\ running # Main
  /\ Call("exit_lock", tid[running], Null)
  /\ UNCHANGED <<queues, table, spinlock, info, program, halt>>

FirstWaiter_NotHead(h, i) ==
  /\ i \in 2 .. Len(wait)
  /\ mu[wait[i]] = h
  /\ \A j \in 2 .. i - 1 : mu[wait[j]] # h

FirstWaiter(h, i) ==
  /\ i \in 1 .. Len(wait)
  /\ mu[wait[i]] = h
  /\ \A j \in 1 .. i - 1 : mu[wait[j]] # h

\* release_all_thread stops at the first waiter, as in Pthread.
exit_wake ==
  /\ At("exit_wake")
  /\ \/ /\ \A i \in 1 .. Len(wait) : ~FirstWaiter(H, i)
        /\ UNCHANGED <<ready, wait>>
     \/ \E i \in 1 .. Len(wait) :
          /\ FirstWaiter(H, i)
          /\ wait' = RemoveAt(wait, i)
          /\ ready' = Append(ready, wait[i])
  /\ release_queue_spinlock
  /\ Goto("exit_free_mutex")
  /\ UNCHANGED <<running, current, table, fresh, info, program, halt>>

free_mutex ==
  /\ At("exit_free_mutex")
  /\ used' = [used EXCEPT ![H] = FALSE]
  /\ count' = [count EXCEPT ![H] = 0]
  /\ Goto("exit_free_info")
  /\ UNCHANGED <<queues, lock, info, program, halt>>

free_thread_info ==
  /\ At("exit_free_info")
  /\ alive' = alive \ {running}
  /\ target' = [u \in Threads |-> IF target[u] = running THEN Null ELSE target[u]]
  /\ Goto("exit_null")
  /\ UNCHANGED <<queues, table, lock, tid, mu, unjoined, cut, halt>>

exit_null_Forgotten ==
  /\ At("exit_null")
  /\ Goto("schedule")
  /\ UNCHANGED <<queues, table, lock, info, program, halt>>

\* CURRENT = NULL
exit_null ==
  /\ At("exit_null")
  /\ current' = Null
  /\ Goto("schedule")
  /\ UNCHANGED <<running, ready, wait, table, lock, info, program, halt>>

-----------------------------------------------------------------------------
(* my_pthread_join *)

my_pthread_join(h) ==
  /\ InUser
  /\ running \in Joiners
  /\ h \in unjoined /\ OwnersOf(h) \cap Joiners = {}
  /\ unjoined' = unjoined \ {h}
  /\ \/ ~used[h] /\ fresh' = FALSE /\ UNCHANGED pc
     \/ used[h] /\ Call("join_count", h, Null)
  /\ UNCHANGED <<queues, table, spinlock, info, target, cut, halt>>

\* Which thread the handle stands for by now is what the join is about.
join_count ==
  /\ At("join_count")
  /\ Goto(IF count[H] = 0 THEN "join_zero" ELSE "join_add")
  /\ \E t \in IF OwnersOf(H) = {} THEN {Null} ELSE OwnersOf(H) :
       target' = [target EXCEPT ![running] = t]
  /\ UNCHANGED <<queues, table, lock, info, unjoined, cut, halt>>

\* A count of zero is that of a mutex nobody has, or of a handle that is handed
\* out again while the join is under way.
join_add ==
  /\ halt = "no" /\ pc[running].at \in {"join_zero", "join_add"}
  /\ count' = [count EXCEPT ![H] = @ + 1]
  /\ IF At("join_zero") THEN Return /\ UNCHANGED mu
     ELSE Goto("wait_check") /\ mu' = [mu EXCEPT ![running] = H]
  /\ UNCHANGED <<queues, used, lock, alive, tid, program, halt>>

\* schedule_swap_current_to_wait
wait_check ==
  /\ At("wait_check")
  /\ IF ready = <<>> THEN Return ELSE Goto("wait_lock")
  /\ UNCHANGED <<queues, table, lock, info, program, halt>>

wait_queue ==
  /\ At("wait_queue")
  /\ ready # <<>>
  /\ current' = Head(ready)
  /\ ready' = Tail(ready)
  /\ wait' = Append(wait, running)
  /\ release_queue_spinlock
  /\ Goto("swap")
  /\ UNCHANGED <<running, table, fresh, info, program, halt>>

-----------------------------------------------------------------------------
\* What the processor does next in a call of the library.
Statement ==
  \/ acquire_queue_spinlock
  \/ schedule_check \/ schedule_queue \/ QueueGone \/ swapcontext
  \/ create_count \/ create_insert
  \/ exit_wake \/ free_mutex \/ free_thread_info \/ exit_null
  \/ join_count \/ join_add \/ wait_check \/ wait_queue

Next ==
  \/ timer_handler
  \/ my_pthread_yield
  \/ \E t \in Threads : my_pthread_create(t)
  \/ my_pthread_exit
  \/ \E h \in Handles : my_pthread_join(h)
  \/ Statement

\* The processor executes, and the timer expires in user code that goes on long
\* enough.
Spec == Init /\ [][Next]_vars /\ WF_vars(Statement) /\ WF_vars(timer_handler)

-----------------------------------------------------------------------------
(* Properties. *)

\* Wherever the timer interrupts, the handler finds the spinlock free, or it
\* would spin for ever with the timer off; it finds CURRENT to be the thread
\* that executes, or it would save the context of one thread as another's; and
\* finds it allocated, or it would queue freed memory.  No statement checks this:
\* it follows from acquire_queue_spinlock arming the timer anew.
HandlerIsSafe ==
  MayExpire => spinlock = 0 /\ current = running /\ running \in alive

\* A thread_info_t that is freed is in no queue, and one that is allocated is
\* CURRENT, in one queue at one place, or still in the hands of its creator.
ThreadsConserved ==
  \A t \in Threads :
    LET places == (IF t = current THEN 1 ELSE 0)
                    + Cardinality({i \in 1 .. Len(ready) : ready[i] = t})
                    + Cardinality({i \in 1 .. Len(wait) : wait[i] = t})
                    + Cardinality({u \in alive : pc[u].t = t})
    IN places = IF t \in alive \/ (t = current /\ At("exit_null")) THEN 1 ELSE 0

\* Until the timer first expires within a join, a thread waits only for one that will
\* still come to release_all_thread.
WaitsForLive ==
  ~cut => \A t \in ToSet(wait) :
    /\ target[t] \in alive
    /\ pc[target[t]].at \notin {"exit_free_mutex", "exit_free_info", "exit_null"}

\* Until the timer first expires within a join, a join that has returned leaves the
\* thread it joined gone, its handle and its thread_info_t given back:
\* release_all_thread, which comes first in an exit, does not let the joiner run
\* before the rest of it is done.
JoinedIsGone ==
  ~cut /\ InUser => target[running] = Null

\* FIFO scheduling: a thread in the ready queue runs, although each acquisition
\* of the spinlock gives the thread that runs another 25 ms.
ReadyRuns ==
  \A t \in Threads : t \in ToSet(ready) ~> running = t \/ halt # "no"

\* Where start routines come to their end and the timer never expires within a join,
\* a join returns.
JoinReturns ==
  (\A t \in Threads \ {Main} : SF_vars(running = t /\ my_pthread_exit)) /\ []~cut =>
    \A t \in Joiners : t \in ToSet(wait) ~> t \notin ToSet(wait) \/ halt # "no"
================================================================================
