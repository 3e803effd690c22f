------------------------------- MODULE Pthread -------------------------------
(***************************************************************************)
(* The user-level thread library of tmp2/my_pthread.c: the scheduler with  *)
(* its ready and wait queues, the table of handles that mutexes and        *)
(* threads share, create, exit, join, and the mutex calls.                 *)
(*                                                                         *)
(* Every library call is one step here: the 25 ms timer expires only while *)
(* user code runs.  Module Preempt takes the mutex calls apart statement   *)
(* by statement and lets the timer expire inside them; as long as it does  *)
(* not, they implement the same MutexService as here.                      *)
(*                                                                         *)
(* The program that calls the library is any program that keeps to the     *)
(* rules of its interface; each rule it breaks is named in Liberties.      *)
(*                                                                         *)
(* An operator whose name ends in an underscore and a few words is its     *)
(* namesake with a plausible bug: no action uses it, the properties have   *)
(* to tell the two apart.                                                  *)
(***************************************************************************)
EXTENDS Integers, FiniteSets, SequencesExt

CONSTANTS
  Threads,    \* the thread_info_t structures the process may allocate
  Main,       \* the one my_pthread_init allocates for the main thread
  Null,       \* the C null pointer
  MaxMutex,   \* MAX_MUTEX_NUM, the size of g_mutex_table
  MainTids,   \* what the main thread's tid may hold: malloc leaves it unset
  MaxCount,   \* bounds the count of a handle, an unsigned int
  Joiners,    \* the threads that call my_pthread_join
  Liberties   \* the rules the program breaks, of those listed below

AllLiberties ==
  { "unordered",     \* joins, or locks a lower handle, while it holds a mutex
    "destroy_held",  \* destroys a mutex that threads hold or wait for
    "join_many",     \* has several threads join one thread
    "join_stale",    \* joins a handle that was recycled after its thread exited
    "main_exit" }    \* has the main thread call my_pthread_exit

ASSUME ThreadsAssumption ==
  /\ Main \in Threads
  /\ Null \notin Threads
  /\ IsFiniteSet(Threads)
  /\ Joiners \subseteq Threads
ASSUME TableAssumption ==
  /\ MaxMutex \in Nat \ {0}
  /\ MaxCount \in Nat
  /\ MainTids \subseteq 0 .. MaxMutex - 1
  /\ MainTids # {}
ASSUME LibertiesAssumption == Liberties \subseteq AllLiberties

VARIABLES
  inited,     \* g_pthread_init
  current,    \* CURRENT
  ready,      \* g_queue_ready
  wait,       \* g_queue_wait
  used,       \* g_mutex_table[h].used
  count,      \* g_mutex_table[h].count
  tid,        \* tid of each thread_info_t: the handle it joins on
  mu,         \* mu of each thread_info_t: the handle it waits on
  live,       \* the threads that have started and not exited
  halt,       \* how the process ended, if it has
  mutexes,    \* the program's initialised and not yet destroyed mutexes
  holds,      \* the mutexes each thread has locked and not unlocked
  unjoined,   \* the thread handles the program has not joined yet
  blocked,    \* the call a thread in the wait queue is inside of
  target      \* the thread a joiner waits for

queues  == <<current, ready, wait>>
table   == <<used, count>>
info    == <<tid, mu, live>>
program == <<mutexes, holds, unjoined>>
history == <<blocked, target>>
vars    == <<inited, queues, table, info, halt, program, history>>

Handles == 0 .. MaxMutex - 1

Init ==
  /\ inited = FALSE
  /\ current = Null
  /\ ready = <<>>
  /\ wait = <<>>
  /\ used = [h \in Handles |-> FALSE]
  /\ count = [h \in Handles |-> 0]
  /\ tid = [t \in Threads |-> 0]
  /\ mu = [t \in Threads |-> 0]
  /\ live = {Main}
  /\ halt = "no"
  /\ mutexes = {}
  /\ holds = [t \in Threads |-> {}]
  /\ unjoined = [h \in Handles |-> "no"]
  /\ blocked = [t \in Threads |-> "no"]
  /\ target = [t \in Threads |-> Null]

\* The thread whose user code executes: before my_pthread_init CURRENT is NULL
\* and the only thread is the main thread.
Running == IF inited THEN current ELSE Main

May(liberty) == liberty \in Liberties

-----------------------------------------------------------------------------
(* The scheduler. *)

Schedule_RequeuesExited(cur, rq) ==
  /\ rq # <<>>
  /\ current' = Head(rq)
  /\ ready' = Append(Tail(rq), cur)

\* schedule() with CURRENT = cur and the ready queue rq.  A thread that exits
\* has set CURRENT to NULL and is not queued again.
Schedule(cur, rq) ==
  \/ /\ rq = <<>>
     /\ current' = cur
     /\ ready' = rq
  \/ /\ rq # <<>>
     /\ current' = Head(rq)
     /\ ready' = IF cur = Null THEN Tail(rq) ELSE Append(Tail(rq), cur)

SwapCurrentToWait_KeepsHead ==
  /\ ready # <<>>
  /\ current' = Head(ready)
  /\ ready' = ready
  /\ wait' = Append(wait, current)

SwapCurrentToWait_OffByOne ==
  \/ Len(ready) <= 1 /\ UNCHANGED queues
  \/ /\ Len(ready) > 1
     /\ current' = Head(ready)
     /\ ready' = Tail(ready)
     /\ wait' = Append(wait, current)

\* schedule_swap_current_to_wait(): with no other thread to run it returns at
\* once, and the caller goes on as if it had waited.
SwapCurrentToWait ==
  \/ /\ ready = <<>>
     /\ UNCHANGED queues
  \/ /\ ready # <<>>
     /\ current' = Head(ready)
     /\ ready' = Tail(ready)
     /\ wait' = Append(wait, current)

CountAndWait_NoCount(h) ==
  /\ UNCHANGED count
  /\ mu' = [mu EXCEPT ![Running] = h]
  /\ SwapCurrentToWait

\* What my_pthread_mutex_lock and my_pthread_join do when the count is not 0.
CountAndWait(h) ==
  /\ count[h] < MaxCount
  /\ count' = [count EXCEPT ![h] = @ + 1]
  /\ mu' = [mu EXCEPT ![Running] = h]
  /\ SwapCurrentToWait

\* The timer signal; before my_pthread_init there is no timer.
timer_handler ==
  /\ halt = "no"
  /\ inited
  /\ Schedule(current, ready)
  /\ UNCHANGED <<inited, wait, table, info, halt, program, history>>

my_pthread_yield ==
  /\ halt = "no"
  /\ Schedule(current, ready)
  /\ UNCHANGED <<inited, wait, table, info, halt, program, history>>

-----------------------------------------------------------------------------
(* The handle table. *)

AllocMutex_IgnoresUsed(h) == h # 0 /\ \A g \in 1 .. h - 1 : used[g]

\* alloc_mutex() returns h; slot 0 is never handed out.
AllocMutex(h) ==
  /\ h # 0
  /\ ~used[h]
  /\ \A g \in 1 .. h - 1 : used[g]

\* alloc_mutex() returns -1.
TableFull == \A h \in Handles \ {0} : used[h]

FirstWaiter_AnyOne(h, i) == i \in 1 .. Len(wait) /\ mu[wait[i]] = h

FirstWaiter_IgnoresHandle(h, i) == i = 1 /\ wait # <<>>

\* The position in the wait queue of the first thread that waits on h, where
\* release_thread() stops.  release_all_thread() stops there too: its loop
\* continues from a thread it has just moved to the tail of the ready queue.
FirstWaiter(h, i) ==
  /\ i \in 1 .. Len(wait)
  /\ mu[wait[i]] = h
  /\ \A j \in 1 .. i - 1 : mu[wait[j]] # h

\* The threads other than the main thread whose handle is h.
Owners(h) == {t \in live \ {Main} : tid[t] = h}

\* The threads that have to do with a handle: its owner, holders and waiters.
Claims(h) ==
  {t \in Threads : \/ t \in Owners(h)
                   \/ h \in holds[t]
                   \/ t \in ToSet(wait) /\ mu[t] = h}

NoWaiter_SkipsLast(h) == \A i \in 1 .. Len(wait) - 1 : mu[wait[i]] # h

NoWaiter(h) == \A i \in 1 .. Len(wait) : mu[wait[i]] # h

\* A released thread returns from the call it was blocked in; if that was
\* my_pthread_mutex_lock it holds the mutex from then on.
Resume(t) ==
  /\ blocked' = [blocked EXCEPT ![t] = "no"]
  /\ holds' = IF blocked[t] = "lock"
              THEN [holds EXCEPT ![t] = @ \cup {mu[t]}]
              ELSE holds

-----------------------------------------------------------------------------
(* Threads. *)

my_pthread_init ==
  /\ halt = "no"
  /\ ~inited
  /\ inited' = TRUE
  /\ current' = Main
  /\ \E h \in MainTids : tid' = [tid EXCEPT ![Main] = h]
  /\ UNCHANGED <<ready, wait, table, mu, live, halt, program, history>>

\* my_pthread_create calls my_pthread_init if nobody has; g is then what the
\* main thread's tid happens to hold.
my_pthread_create(t) ==
  /\ halt = "no"
  /\ t \notin live
  /\ t # Main
  /\ inited' = TRUE
  /\ current' = IF inited THEN current ELSE Main
  /\ \E g \in IF inited THEN {tid[Main]} ELSE MainTids, h \in Handles :
       /\ AllocMutex(h)
       /\ used' = [used EXCEPT ![h] = TRUE]
       /\ count' = [count EXCEPT ![h] = 1]
       /\ tid' = [tid EXCEPT ![Main] = g, ![t] = h]
       /\ unjoined' = [unjoined EXCEPT ![h] = "fresh"]
  /\ mu' = [mu EXCEPT ![t] = 0]
  /\ live' = live \cup {t}
  /\ ready' = Append(ready, t)
  /\ UNCHANGED <<wait, halt, mutexes, holds, history>>

\* With the table full the new thread's tid is -1, and the store to
\* g_mutex_table[-1].count, an index made unsigned, faults.
CreateTableFull ==
  /\ halt = "no"
  /\ live # Threads
  /\ TableFull
  /\ halt' = "table_store"
  /\ UNCHANGED <<inited, queues, table, info, program, history>>

\* What a thread that returns and one that calls my_pthread_exit do: release
\* a joiner, free the handle and the thread_info_t, whose fields are 0 again
\* when it is next allocated, and schedule.
Exit ==
  LET t == Running IN
  /\ halt = "no"
  /\ inited
  /\ holds[t] = {}
  /\ used' = [used EXCEPT ![tid[t]] = FALSE]
  /\ count' = [count EXCEPT ![tid[t]] = 0]
  /\ live' = live \ {t}
  /\ tid' = [tid EXCEPT ![t] = 0]
  /\ mu' = [mu EXCEPT ![t] = 0]
  /\ target' = [u \in Threads |-> IF target[u] = t THEN Null ELSE target[u]]
  /\ \/ /\ NoWaiter(tid[t])
        /\ Schedule(Null, ready)
        /\ UNCHANGED <<wait, blocked, holds>>
     \/ \E i \in 1 .. Len(wait) :
          /\ FirstWaiter(tid[t], i)
          /\ wait' = RemoveAt(wait, i)
          /\ Schedule(Null, Append(ready, wait[i]))
          /\ Resume(wait[i])
  /\ UNCHANGED <<inited, mutexes, unjoined>>

\* With nobody to schedule, thread_stub returns and the process exits.
thread_stub ==
  /\ Running # Main
  /\ Exit
  /\ halt' = IF current' = Null THEN "exit" ELSE "no"

\* With nobody to schedule, my_pthread_exit returns to its caller with CURRENT
\* NULL: main returns and the process exits; another thread returns to
\* thread_stub, which dereferences CURRENT.
my_pthread_exit ==
  /\ Running = Main => May("main_exit")
  /\ Exit
  /\ halt' = CASE current' # Null -> "no"
               [] current' = Null /\ Running = Main -> "exit"
               [] OTHER -> "null_deref"

\* The program joins a handle it got from my_pthread_create and has not joined.
MayJoin(h) ==
  /\ Running \in Joiners
  /\ holds[Running] = {} \/ May("unordered")
  /\ Owners(h) \cap Joiners = {}
  /\ \/ unjoined[h] = "fresh"
     \/ unjoined[h] = "stale"
     \/ Owners(h) # {} /\ May("join_many")

my_pthread_join(h) ==
  /\ halt = "no"
  /\ inited
  /\ MayJoin(h)
  /\ unjoined' = [unjoined EXCEPT ![h] = "no"]
  /\ \/ /\ ~used[h]
        /\ UNCHANGED <<queues, count, mu, history>>
     \/ /\ used[h]
        /\ count[h] = 0
        /\ count' = [count EXCEPT ![h] = 1]
        /\ UNCHANGED <<queues, mu, history>>
     \/ /\ used[h]
        /\ count[h] # 0
        /\ CountAndWait(h)
        /\ \E t \in IF Owners(h) = {} THEN {Null} ELSE Owners(h) :
             target' = [target EXCEPT ![current] = t]
        /\ blocked' = IF wait' = wait THEN blocked
                      ELSE [blocked EXCEPT ![current] = "join"]
  /\ UNCHANGED <<inited, used, tid, live, halt, mutexes, holds>>

-----------------------------------------------------------------------------
(* Mutexes. *)

my_pthread_mutex_init ==
  /\ halt = "no"
  /\ \E h \in Handles :
       /\ AllocMutex(h)
       /\ used' = [used EXCEPT ![h] = TRUE]
       /\ count' = [count EXCEPT ![h] = 0]
       /\ mutexes' = mutexes \cup {h}
       /\ unjoined' = [unjoined EXCEPT ![h] =
                          IF @ # "no" /\ May("join_stale") THEN "stale" ELSE "no"]
  /\ UNCHANGED <<inited, queues, info, halt, holds, history>>

\* errExit("alloc_mutex")
InitTableFull ==
  /\ halt = "no"
  /\ TableFull
  /\ halt' = "exit"
  /\ UNCHANGED <<inited, queues, table, info, program, history>>

my_pthread_mutex_lock(m) ==
  LET t == Running IN
  /\ halt = "no"
  /\ m \in mutexes \ holds[t]
  /\ (\A n \in holds[t] : n < m) \/ May("unordered")
  /\ \/ /\ ~used[m]
        /\ UNCHANGED <<queues, count, mu, holds, history>>
     \/ /\ used[m]
        /\ count[m] = 0
        /\ count' = [count EXCEPT ![m] = 1]
        /\ holds' = [holds EXCEPT ![t] = @ \cup {m}]
        /\ UNCHANGED <<queues, mu, history>>
     \/ /\ used[m]
        /\ count[m] # 0
        /\ CountAndWait(m)
        /\ IF wait' = wait
           THEN /\ holds' = [holds EXCEPT ![t] = @ \cup {m}]
                /\ UNCHANGED history
           ELSE /\ blocked' = [blocked EXCEPT ![t] = "lock"]
                /\ UNCHANGED <<holds, target>>
  /\ UNCHANGED <<inited, used, tid, live, halt, mutexes, unjoined>>

my_pthread_mutex_unlock(m) ==
  LET t == Running
      given == [holds EXCEPT ![t] = @ \ {m}]
  IN
  /\ halt = "no"
  /\ m \in holds[t]
  /\ \/ /\ ~used[m] \/ count[m] = 0
        /\ holds' = given
        /\ UNCHANGED <<ready, wait, count, blocked>>
     \/ /\ used[m]
        /\ count[m] # 0
        /\ count' = [count EXCEPT ![m] = @ - 1]
        /\ \/ /\ count[m] = 1 \/ NoWaiter(m)
              /\ holds' = given
              /\ UNCHANGED <<ready, wait, blocked>>
           \/ /\ count[m] # 1
              /\ \E i \in 1 .. Len(wait) :
                   /\ FirstWaiter(m, i)
                   /\ wait' = RemoveAt(wait, i)
                   /\ ready' = Append(ready, wait[i])
                   /\ blocked' = [blocked EXCEPT ![wait[i]] = "no"]
                   /\ holds' = IF blocked[wait[i]] = "lock"
                               THEN [given EXCEPT ![wait[i]] = @ \cup {m}]
                               ELSE given
  /\ UNCHANGED <<inited, current, used, info, halt, mutexes, unjoined, target>>

my_pthread_mutex_destroy(m) ==
  /\ halt = "no"
  /\ m \in mutexes
  /\ Claims(m) = {} \/ May("destroy_held")
  /\ used' = [used EXCEPT ![m] = FALSE]
  /\ count' = IF used[m] THEN [count EXCEPT ![m] = 0] ELSE count
  /\ mutexes' = mutexes \ {m}
  /\ UNCHANGED <<inited, queues, info, halt, holds, unjoined, history>>

-----------------------------------------------------------------------------
Next ==
  \/ timer_handler
  \/ my_pthread_yield
  \/ my_pthread_init
  \/ \E t \in Threads : my_pthread_create(t)
  \/ CreateTableFull
  \/ thread_stub
  \/ my_pthread_exit
  \/ \E h \in Handles : my_pthread_join(h)
  \/ my_pthread_mutex_init
  \/ InitTableFull
  \/ \E m \in Handles : my_pthread_mutex_lock(m)
  \/ \E m \in Handles : my_pthread_mutex_unlock(m)
  \/ \E m \in Handles : my_pthread_mutex_destroy(m)

Spec == Init /\ [][Next]_vars

\* The timer keeps expiring; a thread that is scheduled again and again gives
\* back each mutex it holds (only the holder can) and, in the end, exits.
FairSpec ==
  /\ Spec
  /\ WF_vars(timer_handler)
  /\ \A m \in Handles \ {0} : SF_vars(my_pthread_mutex_unlock(m))
  /\ \A t \in Threads \ {Main} :
       SF_vars(Running = t /\ (thread_stub \/ my_pthread_exit))

-----------------------------------------------------------------------------
(* Properties. *)

\* Type correctness of the queues, the handle table and the thread structures.
TypeOK ==
  /\ inited \in BOOLEAN
  /\ current \in Threads \cup {Null}
  /\ ready \in Seq(Threads)
  /\ wait \in Seq(Threads)
  /\ used \in [Handles -> BOOLEAN]
  /\ count \in [Handles -> Nat]
  /\ tid \in [Threads -> Handles]
  /\ mu \in [Threads -> Handles]
  /\ live \subseteq Threads
  /\ halt \in {"no", "exit", "table_store", "null_deref"}
  /\ mutexes \subseteq Handles
  /\ holds \in [Threads -> SUBSET Handles]
  /\ unjoined \in [Handles -> {"no", "fresh", "stale"}]
  /\ blocked \in [Threads -> {"no", "lock", "join"}]
  /\ target \in [Threads -> Threads \cup {Null}]

\* The scheduler neither loses nor duplicates a thread: each live thread is
\* CURRENT, or in one queue at one place, and nothing else is.
ThreadsConserved ==
  inited =>
    /\ \A t \in Threads :
         t \in live <=> t = current \/ t \in ToSet(ready) \/ t \in ToSet(wait)
    /\ IsInjective(ready)
    /\ IsInjective(wait)
    /\ ToSet(ready) \cap ToSet(wait) = {}
    /\ current \notin ToSet(ready) \cup ToSet(wait)

\* Two threads never hold one mutex, also when schedule_swap_current_to_wait
\* finds nobody to run or a mutex is handed over by an unlock.
MutualExclusion ==
  \A t, u \in Threads : t # u => holds[t] \cap holds[u] = {}

\* The count of a handle is the number of threads that claim it: with one
\* claim too few an unlock would wake nobody, with one too many a later lock
\* would wait for nobody.
CountIsClaims ==
  \A h \in Handles : count[h] = IF used[h] THEN Cardinality(Claims(h)) ELSE 0

\* Wake-ups are not lost: a thread waits for a mutex only while another thread
\* holds it, and for a thread only while it lives.
WaitsForSomeone ==
  \A t \in ToSet(wait) :
    /\ blocked[t] = "lock" => \E u \in Threads \ {t} : mu[t] \in holds[u]
    /\ blocked[t] = "join" => target[t] \in live /\ tid[target[t]] = mu[t]

\* A handle in use is one mutex of the program or one thread, never both and
\* never two; a handle that is not in use is none.
OneOwner ==
  \A h \in Handles :
    /\ h \in mutexes => Owners(h) = {}
    /\ \A t, u \in Owners(h) : t = u
    /\ used[h] <=> h \in mutexes \/ Owners(h) # {}

\* my_pthread_join does not return before the thread it joins is gone, neither when
\* it is woken nor at once, for a count of 0 or for want of a thread to run.
JoinedIsGone ==
  [][/\ \A t \in Threads :
          blocked[t] = "join" /\ blocked'[t] = "no" => target[t] \notin live'
     /\ \A h \in Handles :
          my_pthread_join(h) /\ blocked'[Running] = "no" => Owners(h) = {}]_vars

\* When a thread exits and finds nobody to schedule, which ends the process,
\* no thread is left in the wait queue.
NobodyStranded == inited /\ current = Null => wait = <<>>

\* A thread that waits for a mutex gets it, unless the process ends.
LockGranted ==
  \A t \in Threads : blocked[t] = "lock" ~> blocked[t] = "no" \/ halt # "no"

\* A join returns, unless the process ends.
JoinReturns ==
  \A t \in Joiners : blocked[t] = "join" ~> blocked[t] = "no" \/ halt # "no"
=============================================================================
