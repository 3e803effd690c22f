---------------------------- MODULE PthreadProofs ----------------------------
(***************************************************************************)
(* Theorems about Pthread, for any number of threads and handles.          *)
(*                                                                         *)
(* The first part holds of every program, whatever rules it breaks: the    *)
(* queues stay well formed and the scheduler loses no thread.  The second  *)
(* part is about the handle table, the third about mutexes and joins, and  *)
(* the last shows that Pthread implements MutexService.                    *)
(***************************************************************************)
EXTENDS PthreadService, SeqLemmas, FiniteSetTheorems

\* CURRENT names a thread whenever code of the process runs, and before
\* my_pthread_init there are no queues.
Scheduled ==
  /\ inited /\ halt = "no" => current # Null
  /\ ~inited => current = Null /\ ready = <<>> /\ wait = <<>> /\ live = {Main}

QueueInv == TypeOK /\ Scheduled /\ ThreadsConserved

-----------------------------------------------------------------------------
\* A state in which schedule() may be called.
Queues(cur, rq, wq) ==
  /\ cur \in Threads \cup {Null}
  /\ rq \in Seq(Threads)
  /\ wq \in Seq(Threads)
  /\ IsInjective(rq)
  /\ IsInjective(wq)
  /\ ToSet(rq) \cap ToSet(wq) = {}
  /\ cur \notin ToSet(rq) \cup ToSet(wq)

\* The threads that CURRENT and the two queues name.
Placed(cur, rq, wq) == ({cur} \ {Null}) \cup ToSet(rq) \cup ToSet(wq)

\* What a placement says of the types of CURRENT and the two queues.
LEMMA QueuesTypes ==
  ASSUME NEW cur, NEW rq, NEW wq, Queues(cur, rq, wq)
  PROVE  /\ ToSet(rq) \subseteq Threads
         /\ ToSet(wq) \subseteq Threads
         /\ Null \notin ToSet(rq) \cup ToSet(wq)
<1>1. /\ Len(rq) \in Nat /\ DOMAIN rq = 1 .. Len(rq)
      /\ Len(wq) \in Nat /\ DOMAIN wq = 1 .. Len(wq)
  BY LenProperties DEF Queues
<1>2. ToSet(rq) \subseteq Threads /\ ToSet(wq) \subseteq Threads
  BY <1>1, ElementOfSeq DEF ToSet, Queues
<1> QED BY <1>2, ThreadsAssumption

\* ThreadsConserved says that the queues are well formed and hold live.
LEMMA ConservedIsPlaced ==
  ASSUME TypeOK, inited
  PROVE  ThreadsConserved <=> /\ Queues(current, ready, wait)
                              /\ live = Placed(current, ready, wait)
<1>1. ASSUME ThreadsConserved
      PROVE  Queues(current, ready, wait)
  BY <1>1 DEF ThreadsConserved, Queues, TypeOK
<1>2. ASSUME ThreadsConserved
      PROVE  live = Placed(current, ready, wait)
  <2>1. ToSet(ready) \subseteq Threads /\ ToSet(wait) \subseteq Threads
    BY <1>1, <1>2, QueuesTypes
  <2>2. current \in Threads \cup {Null} /\ live \subseteq Threads
    BY DEF TypeOK
  <2> QED BY <1>2, <2>1, <2>2, ThreadsAssumption DEF ThreadsConserved, Placed
<1>3. ASSUME Queues(current, ready, wait), live = Placed(current, ready, wait)
      PROVE  ThreadsConserved
  BY <1>3, ThreadsAssumption DEF ThreadsConserved, Placed, Queues
<1> QED BY <1>1, <1>2, <1>3

\* schedule() permutes the threads, and leaves CURRENT NULL only if it was
\* and nobody was ready.
LEMMA SchedulePlaces ==
  ASSUME NEW cur, NEW rq, NEW wq, Queues(cur, rq, wq), Schedule(cur, rq)
  PROVE  /\ Queues(current', ready', wq)
         /\ Placed(current', ready', wq) = Placed(cur, rq, wq)
         /\ cur # Null \/ rq # <<>> => current' # Null
<1>1. CASE rq = <<>>
  <2>1. current' = cur /\ ready' = rq
    BY <1>1 DEF Schedule
  <2> QED BY <1>1, <2>1
<1>2. CASE rq # <<>>
  <2>1. /\ current' = Head(rq)
        /\ ready' = IF cur = Null THEN Tail(rq) ELSE Append(Tail(rq), cur)
    BY <1>2 DEF Schedule
  <2>2. /\ Head(rq) \in Threads
        /\ Tail(rq) \in Seq(Threads)
        /\ ToSet(rq) = {Head(rq)} \cup ToSet(Tail(rq))
        /\ IsInjective(Tail(rq))
        /\ Head(rq) \notin ToSet(Tail(rq))
    BY <1>2, HeadTailToSet DEF Queues
  <2>3. CASE cur = Null
    BY <2>1, <2>2, <2>3, ThreadsAssumption DEF Queues, Placed
  <2>4. CASE cur # Null
    <3>1. cur \in Threads /\ cur \notin ToSet(Tail(rq))
      BY <2>2, <2>4 DEF Queues
    <3>2. /\ ready' \in Seq(Threads)
          /\ ToSet(ready') = ToSet(Tail(rq)) \cup {cur}
          /\ IsInjective(ready')
      <4>1. ready' = Append(Tail(rq), cur)
        BY <2>1, <2>4
      <4>2. /\ Append(Tail(rq), cur) \in Seq(Threads)
            /\ ToSet(Append(Tail(rq), cur)) = ToSet(Tail(rq)) \cup {cur}
            /\ IsInjective(Append(Tail(rq), cur))
        <5>1. ASSUME NEW q \in Seq(Threads), IsInjective(q), cur \notin ToSet(q)
              PROVE  /\ Append(q, cur) \in Seq(Threads)
                     /\ ToSet(Append(q, cur)) = ToSet(q) \cup {cur}
                     /\ IsInjective(Append(q, cur))
          BY <3>1, <5>1, AppendToSet
        <5> QED BY <2>2, <3>1, <5>1
      <4> QED BY <4>1, <4>2
    <3>3. Queues(current', ready', wq)
      BY <2>1, <2>2, <3>1, <3>2 DEF Queues
    <3>4. Placed(current', ready', wq) = Placed(cur, rq, wq)
      BY <2>1, <2>2, <3>1, <3>2, ThreadsAssumption DEF Placed
    <3> QED BY <2>1, <2>2, <3>3, <3>4, ThreadsAssumption
  <2> QED BY <2>3, <2>4
<1> QED BY <1>1, <1>2

\* schedule_swap_current_to_wait() permutes the threads too.
LEMMA SwapPlaces ==
  ASSUME Queues(current, ready, wait), current # Null, SwapCurrentToWait
  PROVE  /\ Queues(current', ready', wait')
         /\ Placed(current', ready', wait') = Placed(current, ready, wait)
         /\ current' # Null
<1>1. CASE ready = <<>>
  BY <1>1 DEF SwapCurrentToWait, queues
<1>2. CASE ready # <<>>
  <2>1. /\ current' = Head(ready)
        /\ ready' = Tail(ready)
        /\ wait' = Append(wait, current)
    BY <1>2 DEF SwapCurrentToWait
  <2>2. /\ Head(ready) \in Threads
        /\ Tail(ready) \in Seq(Threads)
        /\ ToSet(ready) = {Head(ready)} \cup ToSet(Tail(ready))
        /\ IsInjective(Tail(ready))
        /\ Head(ready) \notin ToSet(Tail(ready))
    BY <1>2, HeadTailToSet DEF Queues
  <2>3. current \in Threads /\ current \notin ToSet(wait)
    BY DEF Queues
  <2>4. /\ wait' \in Seq(Threads)
        /\ ToSet(wait') = ToSet(wait) \cup {current}
        /\ IsInjective(wait')
    BY <2>1, <2>3, AppendToSet DEF Queues
  <2> QED BY <2>1, <2>2, <2>3, <2>4, ThreadsAssumption DEF Queues, Placed
<1> QED BY <1>1, <1>2

\* Moving one thread from the wait queue to the tail of the ready queue.
LEMMA WakePlaces ==
  ASSUME NEW cur, NEW i \in 1 .. Len(wait), Queues(cur, ready, wait)
  PROVE  /\ wait[i] \in Threads
         /\ Queues(cur, Append(ready, wait[i]), RemoveAt(wait, i))
         /\ Placed(cur, Append(ready, wait[i]), RemoveAt(wait, i))
              = Placed(cur, ready, wait)
         /\ Append(ready, wait[i]) # <<>>
<1>1. /\ RemoveAt(wait, i) \in Seq(Threads)
      /\ wait[i] \in Threads
      /\ wait[i] \in ToSet(wait)
      /\ ToSet(RemoveAt(wait, i)) = ToSet(wait) \ {wait[i]}
      /\ IsInjective(RemoveAt(wait, i))
  BY RemoveAtToSet DEF Queues
<1>2. wait[i] \notin ToSet(ready)
  BY <1>1 DEF Queues
<1>3. /\ Append(ready, wait[i]) \in Seq(Threads)
      /\ ToSet(Append(ready, wait[i])) = ToSet(ready) \cup {wait[i]}
      /\ IsInjective(Append(ready, wait[i]))
      /\ Append(ready, wait[i]) # <<>>
  BY <1>1, <1>2, AppendToSet, AppendProperties DEF Queues
<1> QED BY <1>1, <1>2, <1>3 DEF Queues, Placed

-----------------------------------------------------------------------------
\* A step conserves the threads if its new queues are well formed and hold the
\* new live threads.
LEMMA StepConserves ==
  ASSUME inited' => /\ Queues(current', ready', wait')
                    /\ live' = Placed(current', ready', wait')
  PROVE  ThreadsConserved'
BY ThreadsAssumption DEF ThreadsConserved, Queues, Placed

\* The part of QueueInv that an action which only calls the scheduler disturbs.
QueueTypes ==
  /\ inited \in BOOLEAN
  /\ current \in Threads \cup {Null}
  /\ ready \in Seq(Threads)
  /\ wait \in Seq(Threads)

\* Before my_pthread_init the queues are empty and well formed.
LEMMA QueuesWellFormed ==
  ASSUME QueueInv
  PROVE  /\ Queues(current, ready, wait)
         /\ inited => live = Placed(current, ready, wait)
         /\ halt = "no" => Running \in Threads
<1>1. CASE inited
  BY <1>1, ConservedIsPlaced, ThreadsAssumption
  DEF QueueInv, Scheduled, Running, TypeOK
<1>2. CASE ~inited
  <2>1. current = Null /\ ready = <<>> /\ wait = <<>>
    BY <1>2 DEF QueueInv, Scheduled
  <2>2. ToSet(<<>>) = {} /\ IsInjective(<<>>) /\ <<>> \in Seq(Threads)
    BY DEF ToSet, IsInjective
  <2> QED BY <1>2, <2>1, <2>2, ThreadsAssumption DEF Queues, Running
<1> QED BY <1>1, <1>2

\* timer_handler and my_pthread_yield.
LEMMA ScheduleStep ==
  ASSUME QueueInv, halt = "no", Schedule(current, ready),
         UNCHANGED <<inited, wait, table, info, halt, program, history>>
  PROVE  QueueInv'
<1>1. /\ Queues(current, ready, wait)
      /\ inited => live = Placed(current, ready, wait)
  BY QueuesWellFormed
<1>2. UNCHANGED <<inited, wait, live, halt>>
  BY DEF info
<1>3. /\ Queues(current', ready', wait')
      /\ Placed(current', ready', wait') = Placed(current, ready, wait)
      /\ current # Null \/ ready # <<>> => current' # Null
  BY <1>1, <1>2, SchedulePlaces
<1>4. TypeOK'
  BY <1>3 DEF QueueInv, TypeOK, Queues, table, info, program, history
<1>5. Scheduled'
  BY <1>2, <1>3 DEF QueueInv, Scheduled, Schedule
<1>6. ThreadsConserved'
  BY <1>1, <1>2, <1>3, StepConserves
<1> QED BY <1>4, <1>5, <1>6 DEF QueueInv

\* my_pthread_create puts one new thread at the tail of the ready queue.
LEMMA CreateStep ==
  ASSUME QueueInv, NEW t \in Threads, my_pthread_create(t)
  PROVE  QueueInv'
<1>1. /\ Queues(current, ready, wait)
      /\ inited => live = Placed(current, ready, wait)
  BY QueuesWellFormed
<1>2. /\ halt = "no" /\ t \notin live /\ t # Main
      /\ inited' = TRUE
      /\ current' = IF inited THEN current ELSE Main
      /\ live' = live \cup {t}
      /\ ready' = Append(ready, t)
      /\ UNCHANGED <<wait, halt>>
  BY DEF my_pthread_create
<1>3. PICK g \in Handles, h \in Handles :
        /\ used' = [used EXCEPT ![h] = TRUE]
        /\ count' = [count EXCEPT ![h] = 1]
        /\ tid' = [tid EXCEPT ![Main] = g, ![t] = h]
        /\ unjoined' = [unjoined EXCEPT ![h] = "fresh"]
  BY ThreadsAssumption, TableAssumption
  DEF my_pthread_create, QueueInv, TypeOK, Handles
<1>4. /\ Queues(current', ready, wait)
      /\ live = Placed(current', ready, wait)
      /\ current' # Null
  <2>1. CASE inited
    BY <1>1, <1>2, <2>1 DEF QueueInv, Scheduled
  <2>2. CASE ~inited
    <3>1. ready = <<>> /\ wait = <<>> /\ live = {Main} /\ current' = Main
      BY <1>2, <2>2 DEF QueueInv, Scheduled
    <3>2. ToSet(<<>>) = {} /\ IsInjective(<<>>) /\ <<>> \in Seq(Threads)
      BY DEF ToSet, IsInjective
    <3> QED BY <3>1, <3>2, ThreadsAssumption DEF Queues, Placed
  <2> QED BY <2>1, <2>2
<1>5. /\ ready' \in Seq(Threads)
      /\ ToSet(ready') = ToSet(ready) \cup {t}
      /\ IsInjective(ready')
  <2>1. t \notin ToSet(ready)
    BY <1>2, <1>4 DEF Placed
  <2> QED BY <1>2, <1>4, <2>1, AppendToSet DEF Queues
<1>6. /\ Queues(current', ready', wait')
      /\ live' = Placed(current', ready', wait')
  <2>1. t \notin ToSet(wait) /\ t # current'
    BY <1>2, <1>4, ThreadsAssumption DEF Placed
  <2> QED BY <1>2, <1>4, <1>5, <2>1 DEF Queues, Placed
<1>7. TypeOK'
  <2>1. QueueTypes'
    BY <1>2, <1>6 DEF Queues, QueueTypes
  <2>2. /\ used' \in [Handles -> BOOLEAN]
        /\ count' \in [Handles -> Nat]
        /\ tid' \in [Threads -> Handles]
        /\ unjoined' \in [Handles -> {"no", "fresh", "stale"}]
    BY <1>3 DEF QueueInv, TypeOK
  <2>3. /\ mu' = [mu EXCEPT ![t] = 0]
        /\ UNCHANGED <<halt, mutexes, holds, blocked, target>>
    BY DEF my_pthread_create, history
  <2>4. 0 \in Handles
    BY TableAssumption DEF Handles
  <2> QED BY <1>2, <2>1, <2>2, <2>3, <2>4 DEF QueueInv, TypeOK, QueueTypes
<1>8. Scheduled'
  BY <1>2, <1>4 DEF Scheduled
<1>9. ThreadsConserved'
  BY <1>6, StepConserves
<1> QED BY <1>7, <1>8, <1>9 DEF QueueInv

\* What thread_stub and my_pthread_exit share; each then says how the process
\* goes on.
LEMMA ExitStep ==
  ASSUME QueueInv, Exit,
         halt' \in {"no", "exit", "null_deref"},
         current' = Null => halt' # "no"
  PROVE  QueueInv'
<1> DEFINE t == Running
<1>1. /\ Queues(current, ready, wait)
      /\ live = Placed(current, ready, wait)
      /\ inited /\ halt = "no"
      /\ t = current /\ t \in Threads
  BY QueuesWellFormed DEF Exit, Running
<1>2. /\ used' = [used EXCEPT ![tid[t]] = FALSE]
      /\ count' = [count EXCEPT ![tid[t]] = 0]
      /\ live' = live \ {t}
      /\ tid' = [tid EXCEPT ![t] = 0]
      /\ mu' = [mu EXCEPT ![t] = 0]
      /\ target' = [u \in Threads |-> IF target[u] = t THEN Null ELSE target[u]]
      /\ UNCHANGED <<inited, mutexes, unjoined>>
  BY DEF Exit
<1>3. /\ Queues(Null, ready, wait)
      /\ Placed(Null, ready, wait) = live \ {t}
  <2>1. Null \notin ToSet(ready) \cup ToSet(wait)
    BY <1>1, QueuesTypes
  <2> QED BY <1>1, <2>1, ThreadsAssumption DEF Queues, Placed
<1>4. /\ Queues(current', ready', wait')
      /\ Placed(current', ready', wait') = live \ {t}
      /\ blocked' \in [Threads -> {"no", "lock", "join"}]
      /\ holds' \in [Threads -> SUBSET Handles]
  <2>1. CASE NoWaiter(tid[t]) /\ Schedule(Null, ready) /\ UNCHANGED <<wait, blocked, holds>>
    BY <1>3, <2>1, SchedulePlaces DEF QueueInv, TypeOK
  <2>2. ASSUME NEW i \in 1 .. Len(wait),
               wait' = RemoveAt(wait, i),
               Schedule(Null, Append(ready, wait[i])),
               Resume(wait[i])
        PROVE  <1>4!1 /\ <1>4!2 /\ <1>4!3 /\ <1>4!4
    <3>1. /\ wait[i] \in Threads
          /\ Queues(Null, Append(ready, wait[i]), wait')
          /\ Placed(Null, Append(ready, wait[i]), wait') = live \ {t}
      BY <1>3, <2>2, WakePlaces
    <3>2. /\ Queues(current', ready', wait')
          /\ Placed(current', ready', wait') = live \ {t}
      BY <3>1, <2>2, SchedulePlaces
    <3>3. /\ blocked' \in [Threads -> {"no", "lock", "join"}]
          /\ holds' \in [Threads -> SUBSET Handles]
      BY <3>1, <2>2 DEF QueueInv, TypeOK, Resume
    <3> QED BY <3>2, <3>3
  <2> QED BY <2>1, <2>2 DEF Exit
<1>5. TypeOK'
  <2>1. tid[t] \in Handles /\ 0 \in Handles
    BY <1>1, TableAssumption DEF QueueInv, TypeOK, Handles
  <2> QED BY <1>1, <1>2, <1>4, <2>1 DEF QueueInv, TypeOK, Queues
<1>6. Scheduled'
  BY <1>1, <1>2 DEF Scheduled
<1>7. ThreadsConserved'
  BY <1>2, <1>4, StepConserves
<1> QED BY <1>5, <1>6, <1>7 DEF QueueInv

\* A call that may queue its caller in the wait queue.
LEMMA WaitStep ==
  ASSUME QueueInv, halt = "no", UNCHANGED <<inited, live, halt>>,
         UNCHANGED queues \/ SwapCurrentToWait
  PROVE  QueueTypes' /\ Scheduled' /\ ThreadsConserved'
<1>1. /\ Queues(current, ready, wait)
      /\ inited => live = Placed(current, ready, wait)
  BY QueuesWellFormed
<1>2. /\ Queues(current', ready', wait')
      /\ Placed(current', ready', wait') = Placed(current, ready, wait)
      /\ current' = Null <=> current = Null
      /\ ~inited => UNCHANGED queues
  <2>1. CASE UNCHANGED queues
    BY <1>1, <2>1 DEF queues
  <2>2. CASE SwapCurrentToWait /\ current # Null
    BY <1>1, <2>2, SwapPlaces DEF QueueInv, Scheduled
  <2>3. CASE SwapCurrentToWait /\ current = Null
    BY <1>1, <2>3 DEF QueueInv, Scheduled, SwapCurrentToWait, queues
  <2> QED BY <2>1, <2>2, <2>3
<1>3. QueueTypes'
  BY <1>2 DEF QueueInv, TypeOK, Queues, QueueTypes
<1>4. Scheduled'
  BY <1>2 DEF QueueInv, Scheduled, queues
<1>5. ThreadsConserved'
  BY <1>1, <1>2, StepConserves
<1> QED BY <1>3, <1>4, <1>5

\* A handle's count and mu keep their types when a caller counts itself.
LEMMA CountTypes ==
  ASSUME TypeOK, NEW h \in Handles
  PROVE  /\ count \in [Handles -> Nat]
         /\ [count EXCEPT ![h] = 1] \in [Handles -> Nat]
         /\ [count EXCEPT ![h] = @ + 1] \in [Handles -> Nat]
         /\ count[h] # 0 => [count EXCEPT ![h] = @ - 1] \in [Handles -> Nat]
<1>1. count \in [Handles -> Nat]
  BY DEF TypeOK
<1>2. count[h] \in Nat
  BY <1>1
<1>3. \A n \in Nat : [count EXCEPT ![h] = n] \in [Handles -> Nat]
  BY <1>1
<1>4. count[h] + 1 \in Nat /\ (count[h] # 0 => count[h] - 1 \in Nat)
  BY <1>2
<1> QED BY <1>1, <1>3, <1>4

\* my_pthread_join returns at once or queues its caller.
LEMMA JoinStep ==
  ASSUME QueueInv, NEW h \in Handles, my_pthread_join(h)
  PROVE  QueueInv'
<1>1. /\ halt = "no" /\ inited
      /\ unjoined' = [unjoined EXCEPT ![h] = "no"]
      /\ UNCHANGED <<inited, used, tid, live, halt, mutexes, holds>>
  BY DEF my_pthread_join
<1>2. UNCHANGED queues \/ SwapCurrentToWait
  BY DEF my_pthread_join, CountAndWait
<1>3. QueueTypes' /\ Scheduled' /\ ThreadsConserved'
  BY <1>1, <1>2, WaitStep
<1>4. /\ count' \in [Handles -> Nat]
      /\ mu' \in [Threads -> Handles]
      /\ blocked' \in [Threads -> {"no", "lock", "join"}]
      /\ target' \in [Threads -> Threads \cup {Null}]
  <2>1. CASE UNCHANGED <<mu, history>> /\ (UNCHANGED count \/ count' = [count EXCEPT ![h] = 1])
    <3>1. count' \in [Handles -> Nat]
      BY <2>1, CountTypes DEF QueueInv
    <3>2. UNCHANGED <<mu, blocked, target>>
      BY <2>1 DEF history
    <3> QED BY <3>1, <3>2 DEF QueueInv, TypeOK
  <2>2. CASE /\ CountAndWait(h)
             /\ \E t \in IF Owners(h) = {} THEN {Null} ELSE Owners(h) :
                  target' = [target EXCEPT ![current] = t]
             /\ blocked' = IF wait' = wait THEN blocked
                           ELSE [blocked EXCEPT ![current] = "join"]
    <3>1. /\ count' = [count EXCEPT ![h] = @ + 1]
          /\ mu' = [mu EXCEPT ![Running] = h]
      BY <2>2 DEF CountAndWait
    <3>2. PICK t \in Threads \cup {Null} : target' = [target EXCEPT ![current] = t]
      BY <2>2 DEF Owners, QueueInv, TypeOK
    <3>3. blocked' \in [Threads -> {"no", "lock", "join"}]
      BY <2>2 DEF QueueInv, TypeOK
    <3>4. count' \in [Handles -> Nat] /\ mu' \in [Threads -> Handles]
      <4>1. count' \in [Handles -> Nat]
        BY <3>1, CountTypes DEF QueueInv
      <4>2. mu \in [Threads -> Handles]
        BY DEF QueueInv, TypeOK
      <4> QED BY <3>1, <4>1, <4>2
    <3>5. target' \in [Threads -> Threads \cup {Null}]
      BY <3>2 DEF QueueInv, TypeOK
    <3> QED BY <3>3, <3>4, <3>5
  <2> QED BY <2>1, <2>2 DEF my_pthread_join
<1>5. TypeOK'
  BY <1>1, <1>3, <1>4 DEF QueueInv, TypeOK, QueueTypes
<1> QED BY <1>3, <1>5 DEF QueueInv

\* my_pthread_mutex_lock takes the mutex or queues its caller.
LEMMA LockStep ==
  ASSUME QueueInv, NEW m \in Handles, my_pthread_mutex_lock(m)
  PROVE  QueueInv'
<1>1. /\ halt = "no"
      /\ UNCHANGED <<inited, used, tid, live, halt, mutexes, unjoined>>
  BY DEF my_pthread_mutex_lock
<1>2. UNCHANGED queues \/ SwapCurrentToWait
  BY DEF my_pthread_mutex_lock, CountAndWait
<1>3. QueueTypes' /\ Scheduled' /\ ThreadsConserved'
  BY <1>1, <1>2, WaitStep
<1>4. /\ count' \in [Handles -> Nat]
      /\ mu' \in [Threads -> Handles]
  <2>1. /\ \/ count' = count
           \/ count' = [count EXCEPT ![m] = 1]
           \/ count' = [count EXCEPT ![m] = @ + 1]
        /\ mu' = mu \/ mu' = [mu EXCEPT ![Running] = m]
    BY DEF my_pthread_mutex_lock, CountAndWait
  <2>2. count' \in [Handles -> Nat]
    BY <2>1, CountTypes DEF QueueInv
  <2>3. mu' \in [Threads -> Handles]
    <3>1. mu \in [Threads -> Handles]
      BY DEF QueueInv, TypeOK
    <3> QED BY <2>1, <3>1
  <2> QED BY <2>2, <2>3
<1>5. /\ holds' \in [Threads -> SUBSET Handles]
      /\ blocked' \in [Threads -> {"no", "lock", "join"}]
      /\ UNCHANGED target
  <2>1. \/ UNCHANGED <<holds, history>>
        \/ /\ holds' = [holds EXCEPT ![Running] = @ \cup {m}]
           /\ UNCHANGED history
        \/ /\ blocked' = [blocked EXCEPT ![Running] = "lock"]
           /\ UNCHANGED <<holds, target>>
    BY DEF my_pthread_mutex_lock
  <2>2. holds' \in [Threads -> SUBSET Handles]
    <3>1. holds \in [Threads -> SUBSET Handles]
      BY DEF QueueInv, TypeOK
    <3> QED BY <2>1, <3>1
  <2>3. blocked' \in [Threads -> {"no", "lock", "join"}]
    BY <2>1 DEF QueueInv, TypeOK, history
  <2> QED BY <2>1, <2>2, <2>3 DEF history
<1>6. TypeOK'
  BY <1>1, <1>3, <1>4, <1>5 DEF QueueInv, TypeOK, QueueTypes
<1> QED BY <1>3, <1>6 DEF QueueInv

\* my_pthread_mutex_unlock moves at most one waiter to the ready queue.
LEMMA UnlockStep ==
  ASSUME QueueInv, NEW m \in Handles, my_pthread_mutex_unlock(m)
  PROVE  QueueInv'
<1> DEFINE given == [holds EXCEPT ![Running] = @ \ {m}]
<1>1. /\ halt = "no"
      /\ UNCHANGED <<inited, current, used, tid, mu, live, halt, mutexes, unjoined, target>>
  BY DEF my_pthread_mutex_unlock, info
<1>2. /\ Queues(current, ready, wait)
      /\ inited => live = Placed(current, ready, wait)
  BY QueuesWellFormed
<1>3. count' \in [Handles -> Nat]
  <2>1. \/ count' = count
        \/ count[m] # 0 /\ count' = [count EXCEPT ![m] = @ - 1]
    BY DEF my_pthread_mutex_unlock
  <2> QED BY <2>1, CountTypes DEF QueueInv
<1>4. /\ Queues(current', ready', wait')
      /\ Placed(current', ready', wait') = Placed(current, ready, wait)
      /\ ~inited => UNCHANGED <<ready, wait>>
      /\ blocked' \in [Threads -> {"no", "lock", "join"}]
      /\ holds' \in [Threads -> SUBSET Handles]
  <2>0. given \in [Threads -> SUBSET Handles]
    BY DEF QueueInv, TypeOK
  <2>1. CASE UNCHANGED <<ready, wait, blocked>> /\ holds' = given
    BY <1>1, <1>2, <2>0, <2>1 DEF QueueInv, TypeOK
  <2>2. ASSUME NEW i \in 1 .. Len(wait),
               wait' = RemoveAt(wait, i),
               ready' = Append(ready, wait[i]),
               blocked' = [blocked EXCEPT ![wait[i]] = "no"],
               holds' = IF blocked[wait[i]] = "lock"
                        THEN [given EXCEPT ![wait[i]] = @ \cup {m}]
                        ELSE given
        PROVE  /\ Queues(current', ready', wait')
               /\ Placed(current', ready', wait') = Placed(current, ready, wait)
               /\ ~inited => UNCHANGED <<ready, wait>>
               /\ blocked' \in [Threads -> {"no", "lock", "join"}]
               /\ holds' \in [Threads -> SUBSET Handles]
    <3>1. /\ Queues(current, ready', wait')
          /\ Placed(current, ready', wait') = Placed(current, ready, wait)
          /\ wait[i] \in Threads
      BY <1>2, <2>2, WakePlaces
    <3>2. inited
      BY LenProperties DEF QueueInv, Scheduled
    <3>3. /\ blocked' \in [Threads -> {"no", "lock", "join"}]
          /\ holds' \in [Threads -> SUBSET Handles]
      BY <2>0, <2>2, <3>1 DEF QueueInv, TypeOK
    <3> QED BY <1>1, <3>1, <3>2, <3>3
  <2> QED BY <2>1, <2>2 DEF my_pthread_mutex_unlock, FirstWaiter
<1>5. TypeOK'
  BY <1>1, <1>3, <1>4 DEF QueueInv, TypeOK, Queues
<1>6. Scheduled'
  BY <1>1, <1>4 DEF QueueInv, Scheduled
<1>7. ThreadsConserved'
  BY <1>1, <1>2, <1>4, StepConserves
<1> QED BY <1>5, <1>6, <1>7 DEF QueueInv

-----------------------------------------------------------------------------
\* Before my_pthread_init the main thread is the only one and runs.
LEMMA QueueInvInit == Init => QueueInv
<1> SUFFICES ASSUME Init PROVE QueueInv
  OBVIOUS
<1>1. TypeOK
  <2>1. 0 \in Handles /\ Main \in Threads /\ <<>> \in Seq(Threads)
    BY ThreadsAssumption, TableAssumption DEF Handles
  <2> QED BY <2>1 DEF Init, TypeOK
<1>2. Scheduled /\ ThreadsConserved
  BY DEF Init, Scheduled, ThreadsConserved
<1> QED BY <1>1, <1>2 DEF QueueInv

\* Every library call, the timer and the ends of the process keep the queues
\* well formed.
LEMMA QueueInvStep == QueueInv /\ [Next]_vars => QueueInv'
<1> SUFFICES ASSUME QueueInv, [Next]_vars PROVE QueueInv'
  OBVIOUS
<1>1. CASE timer_handler \/ my_pthread_yield
  BY <1>1, ScheduleStep DEF timer_handler, my_pthread_yield
<1>2. CASE my_pthread_init
  <2>1. /\ ~inited /\ inited' = TRUE /\ current' = Main
        /\ ready = <<>> /\ wait = <<>> /\ live = {Main}
        /\ UNCHANGED <<ready, wait, live, halt>>
    BY <1>2 DEF my_pthread_init, QueueInv, Scheduled, info
  <2>2. TypeOK'
    <3>1. PICK g \in Handles : tid' = [tid EXCEPT ![Main] = g]
      BY <1>2, TableAssumption DEF my_pthread_init, Handles
    <3>2. tid' \in [Threads -> Handles]
      BY <3>1 DEF QueueInv, TypeOK
    <3>3. UNCHANGED <<ready, wait, used, count, mu, live, halt, mutexes, holds,
                      unjoined, blocked, target>>
      BY <1>2 DEF my_pthread_init, table, program, history
    <3> QED BY <2>1, <3>2, <3>3, ThreadsAssumption DEF QueueInv, TypeOK
  <2>3. Scheduled'
    BY <2>1, ThreadsAssumption DEF Scheduled
  <2>4. ThreadsConserved'
    BY <2>1 DEF ThreadsConserved, ToSet, IsInjective
  <2> QED BY <2>2, <2>3, <2>4 DEF QueueInv
<1>3. CASE \E t \in Threads : my_pthread_create(t)
  BY <1>3, CreateStep
<1>4. CASE CreateTableFull \/ InitTableFull
  <2>1. /\ halt = "no" /\ halt' \in {"table_store", "exit"}
        /\ UNCHANGED <<inited, queues, table, info, program, history>>
    BY <1>4 DEF CreateTableFull, InitTableFull
  <2>2. TypeOK'
    BY <2>1 DEF QueueInv, TypeOK, queues, table, info, program, history
  <2>3. Scheduled'
    BY <2>1 DEF QueueInv, Scheduled, queues, info
  <2>4. ThreadsConserved'
    BY <2>1 DEF QueueInv, ThreadsConserved, queues, info
  <2> QED BY <2>2, <2>3, <2>4 DEF QueueInv
<1>5. CASE thread_stub
  BY <1>5, ExitStep DEF thread_stub
<1>6. CASE my_pthread_exit
  BY <1>6, ExitStep DEF my_pthread_exit
<1>7. CASE \E h \in Handles : my_pthread_join(h)
  BY <1>7, JoinStep
<1>8. CASE my_pthread_mutex_init
  <2>1. PICK h \in Handles :
          /\ used' = [used EXCEPT ![h] = TRUE]
          /\ count' = [count EXCEPT ![h] = 0]
          /\ mutexes' = mutexes \cup {h}
          /\ unjoined' = [unjoined EXCEPT ![h] =
                            IF @ # "no" /\ May("join_stale") THEN "stale" ELSE "no"]
    BY <1>8 DEF my_pthread_mutex_init
  <2>2. UNCHANGED <<inited, current, ready, wait, tid, mu, live, halt, holds, blocked, target>>
    BY <1>8 DEF my_pthread_mutex_init, queues, info, history
  <2>3. TypeOK'
    BY <2>1, <2>2 DEF QueueInv, TypeOK
  <2> QED BY <2>2, <2>3 DEF QueueInv, Scheduled, ThreadsConserved
<1>9. CASE \E m \in Handles : my_pthread_mutex_lock(m)
  BY <1>9, LockStep
<1>10. CASE \E m \in Handles : my_pthread_mutex_unlock(m)
  BY <1>10, UnlockStep
<1>11. CASE \E m \in Handles : my_pthread_mutex_destroy(m)
  <2>1. UNCHANGED <<inited, current, ready, wait, tid, mu, live, halt, holds, unjoined, blocked, target>>
    BY <1>11 DEF my_pthread_mutex_destroy, queues, info, history
  <2>2. TypeOK'
    BY <1>11, <2>1 DEF my_pthread_mutex_destroy, QueueInv, TypeOK
  <2> QED BY <2>1, <2>2 DEF QueueInv, Scheduled, ThreadsConserved
<1>12. CASE UNCHANGED vars
  BY <1>12 DEF vars, queues, table, info, program, history, QueueInv, TypeOK,
               Scheduled, ThreadsConserved
<1> QED
  BY <1>1, <1>2, <1>3, <1>4, <1>5, <1>6, <1>7, <1>8, <1>9, <1>10, <1>11, <1>12
  DEF Next

\* Every field keeps its type, whatever the program does.
THEOREM TypeCorrect == Spec => []TypeOK
<1>1. QueueInv => TypeOK
  BY DEF QueueInv
<1> QED BY <1>1, QueueInvInit, QueueInvStep, PTL DEF Spec

\* The scheduler loses no thread and runs none twice, whatever the program
\* does: neither a timer in any state nor an exit, a failed wait or a wake-up
\* leaves a live thread outside CURRENT and the queues.
THEOREM NoThreadLost == Spec => []ThreadsConserved
<1>1. QueueInv => ThreadsConserved
  BY DEF QueueInv
<1> QED BY <1>1, QueueInvInit, QueueInvStep, PTL DEF Spec

-----------------------------------------------------------------------------
(* The handle table.  What follows holds of every program too, as long as   *)
(* the main thread does not free a handle that it never got: it does not     *)
(* exit, or its tid happens to be the handle 0, which is never handed out.   *)

MainIsHarmless == MainTids = {0} \/ ~May("main_exit")

\* OneOwner is inductive with what it needs to know of handle 0 and of main.
OwnerInv ==
  /\ QueueInv
  /\ OneOwner
  /\ ~used[0]
  /\ MainTids = {0} => tid[Main] = 0

\* Who owns a handle depends on live and tid alone.
LEMMA OwnerFrame ==
  ASSUME OwnerInv, QueueInv', UNCHANGED <<live, tid, used, mutexes>>
  PROVE  OwnerInv'
BY DEF OwnerInv, OneOwner, Owners

\* The invariant holds at the start.
LEMMA OwnerInvInit == Init => OwnerInv
<1> SUFFICES ASSUME Init PROVE OwnerInv
  OBVIOUS
<1>1. 0 \in Handles
  BY TableAssumption DEF Handles
<1>2. \A h \in Handles : Owners(h) = {} /\ h \notin mutexes /\ ~used[h]
  BY DEF Init, Owners
<1>3. OneOwner
  BY <1>2 DEF OneOwner
<1>4. tid[Main] = 0
  BY ThreadsAssumption DEF Init
<1> QED BY <1>1, <1>2, <1>3, <1>4, QueueInvInit DEF OwnerInv

\* A new thread becomes the owner of a handle that nobody had.
LEMMA OwnerCreate ==
  ASSUME OwnerInv, QueueInv', NEW t \in Threads, my_pthread_create(t)
  PROVE  OwnerInv'
<1>1. /\ t \notin live /\ t # Main
      /\ live' = live \cup {t}
      /\ UNCHANGED mutexes
  BY DEF my_pthread_create
<1>2. PICK g \in IF inited THEN {tid[Main]} ELSE MainTids, h \in Handles :
        /\ AllocMutex(h)
        /\ used' = [used EXCEPT ![h] = TRUE]
        /\ tid' = [tid EXCEPT ![Main] = g, ![t] = h]
  BY DEF my_pthread_create
<1>3. /\ h # 0 /\ ~used[h]
      /\ used \in [Handles -> BOOLEAN]
      /\ tid \in [Threads -> Handles]
      /\ 0 \in Handles /\ Main \in Threads
  <2>1. used \in [Handles -> BOOLEAN] /\ tid \in [Threads -> Handles]
    BY DEF OwnerInv, QueueInv, TypeOK
  <2>2. 0 \in Handles
    BY TableAssumption DEF Handles
  <2>3. h # 0 /\ ~used[h]
    BY <1>2 DEF AllocMutex
  <2> QED BY <2>1, <2>2, <2>3, ThreadsAssumption
<1>4. h \notin mutexes /\ Owners(h) = {}
  BY <1>2, <1>3 DEF OwnerInv, OneOwner
<1>5. \A k \in Handles : Owners(k)' = IF k = h THEN Owners(k) \cup {t} ELSE Owners(k)
  <2> SUFFICES ASSUME NEW k \in Handles, NEW u
               PROVE  u \in Owners(k)' <=>
                        u \in Owners(k) \/ (k = h /\ u = t)
    BY <1>4
  <2>1. CASE u = t
    BY <1>1, <1>2, <1>3, <2>1 DEF Owners
  <2>2. CASE u # t
    <3>1. u \in live \ {Main} => u \in Threads /\ tid'[u] = tid[u]
      BY <1>2, <1>3, <2>2 DEF OwnerInv, QueueInv, TypeOK
    <3> QED BY <1>1, <2>2, <3>1 DEF Owners
  <2> QED BY <2>1, <2>2
<1>6. OneOwner'
  BY <1>1, <1>2, <1>3, <1>4, <1>5 DEF OwnerInv, OneOwner
<1>7. ~used'[0] /\ (MainTids = {0} => tid'[Main] = 0)
  BY <1>1, <1>2, <1>3 DEF OwnerInv
<1> QED BY <1>6, <1>7 DEF OwnerInv

\* An exit frees the handle of its thread, and nobody else's.
LEMMA OwnerExit ==
  ASSUME OwnerInv, QueueInv', Exit, Running = Main => MainTids = {0}
  PROVE  OwnerInv'
<1> DEFINE t == Running
<1>1. /\ t \in Threads
      /\ live' = live \ {t}
      /\ tid' = [tid EXCEPT ![t] = 0]
      /\ used' = [used EXCEPT ![tid[t]] = FALSE]
      /\ UNCHANGED mutexes
  BY QueuesWellFormed DEF Exit, OwnerInv
<1>2. /\ used \in [Handles -> BOOLEAN]
      /\ tid \in [Threads -> Handles]
      /\ live \subseteq Threads
      /\ 0 \in Handles /\ Main \in Threads
  <2>1. used \in [Handles -> BOOLEAN] /\ tid \in [Threads -> Handles]
    BY DEF OwnerInv, QueueInv, TypeOK
  <2>2. live \subseteq Threads
    BY DEF OwnerInv, QueueInv, TypeOK
  <2>3. 0 \in Handles
    BY TableAssumption DEF Handles
  <2> QED BY <2>1, <2>2, <2>3, ThreadsAssumption
<1>3. \A k \in Handles : Owners(k)' = Owners(k) \ {t}
  BY <1>1, <1>2 DEF Owners
<1>4. t \in live
  <2>1. inited /\ halt = "no" /\ current # Null /\ t = current
    BY DEF Exit, OwnerInv, QueueInv, Scheduled, Running
  <2> QED BY <1>1, <2>1 DEF OwnerInv, QueueInv, ThreadsConserved
<1>5. CASE t = Main
  <2>1. tid[t] = 0 /\ used' = used
    BY <1>1, <1>2, <1>5 DEF OwnerInv
  <2>2. \A k \in Handles : Owners(k)' = Owners(k)
    BY <1>3, <1>5 DEF Owners
  <2> QED BY <1>1, <1>2, <2>1, <2>2 DEF OwnerInv, OneOwner
<1>6. CASE t # Main
  <2>1. t \in Owners(tid[t])
    BY <1>4, <1>6 DEF Owners
  <2>2. Owners(tid[t]) = {t} /\ tid[t] \notin mutexes
    BY <1>1, <1>2, <2>1 DEF OwnerInv, OneOwner
  <2>3. \A k \in Handles \ {tid[t]} : t \notin Owners(k)
    BY DEF Owners
  <2>4. OneOwner'
    <3> SUFFICES ASSUME NEW k \in Handles
                 PROVE  /\ k \in mutexes => Owners(k)' = {}
                        /\ \A v, w \in Owners(k)' : v = w
                        /\ used'[k] <=> k \in mutexes \/ Owners(k)' # {}
      BY <1>1 DEF OneOwner
    <3>1. CASE k = tid[t]
      BY <1>1, <1>2, <1>3, <2>2, <3>1
    <3>2. CASE k # tid[t]
      <4>1. Owners(k)' = Owners(k) /\ used'[k] = used[k]
        BY <1>1, <1>2, <1>3, <2>3, <3>2
      <4> QED BY <4>1 DEF OwnerInv, OneOwner
    <3> QED BY <3>1, <3>2
  <2>5. ~used'[0] /\ tid'[Main] = tid[Main]
    BY <1>1, <1>2, <1>6 DEF OwnerInv
  <2> QED BY <2>4, <2>5 DEF OwnerInv
<1> QED BY <1>5, <1>6

\* A handle becomes a mutex when nobody has it, and stops to be one when it is
\* destroyed.
LEMMA OwnerMutex ==
  ASSUME OwnerInv, QueueInv',
         my_pthread_mutex_init \/ \E m \in Handles : my_pthread_mutex_destroy(m)
  PROVE  OwnerInv'
<1>1. UNCHANGED <<live, tid>>
  BY DEF my_pthread_mutex_init, my_pthread_mutex_destroy, info
<1>2. used \in [Handles -> BOOLEAN] /\ 0 \in Handles
  BY TableAssumption DEF OwnerInv, QueueInv, TypeOK, Handles
<1>3. \A k \in Handles : Owners(k)' = Owners(k)
  BY <1>1 DEF Owners
<1>4. CASE my_pthread_mutex_init
  <2>1. PICK h \in Handles : /\ AllocMutex(h)
                             /\ used' = [used EXCEPT ![h] = TRUE]
                             /\ mutexes' = mutexes \cup {h}
    BY <1>4 DEF my_pthread_mutex_init
  <2>2. h # 0 /\ ~used[h]
    BY <2>1 DEF AllocMutex
  <2>3. Owners(h) = {}
    BY <2>2 DEF OwnerInv, OneOwner
  <2> QED BY <1>1, <1>2, <1>3, <2>1, <2>2, <2>3 DEF OwnerInv, OneOwner
<1>5. ASSUME NEW m \in Handles, my_pthread_mutex_destroy(m)
      PROVE  OwnerInv'
  <2>1. /\ m \in mutexes
        /\ used' = [used EXCEPT ![m] = FALSE]
        /\ mutexes' = mutexes \ {m}
    BY <1>5 DEF my_pthread_mutex_destroy
  <2>2. Owners(m) = {}
    BY <2>1 DEF OwnerInv, OneOwner
  <2> QED BY <1>1, <1>2, <1>3, <2>1, <2>2 DEF OwnerInv, OneOwner
<1> QED BY <1>4, <1>5

\* Every step keeps the one owner of each mutex.
LEMMA OwnerInvStep ==
  ASSUME MainIsHarmless
  PROVE  OwnerInv /\ [Next]_vars => OwnerInv'
<1> SUFFICES ASSUME OwnerInv, [Next]_vars PROVE OwnerInv'
  OBVIOUS
<1>1. QueueInv'
  BY QueueInvStep DEF OwnerInv
<1>2. CASE \/ timer_handler \/ my_pthread_yield
           \/ CreateTableFull \/ InitTableFull
           \/ \E h \in Handles : my_pthread_join(h)
           \/ \E m \in Handles : my_pthread_mutex_lock(m)
           \/ \E m \in Handles : my_pthread_mutex_unlock(m)
           \/ UNCHANGED vars
  <2>1. UNCHANGED <<live, tid, used, mutexes>>
    BY <1>2 DEF timer_handler, my_pthread_yield, CreateTableFull, InitTableFull,
                my_pthread_join, my_pthread_mutex_lock, my_pthread_mutex_unlock,
                vars, table, info, program
  <2> QED BY <1>1, <2>1, OwnerFrame
<1>3. CASE my_pthread_init
  <2>1. PICK g \in MainTids : tid' = [tid EXCEPT ![Main] = g]
    BY <1>3 DEF my_pthread_init
  <2>2. UNCHANGED <<live, used, mutexes>> /\ tid \in [Threads -> Handles]
    BY <1>3 DEF my_pthread_init, table, program, OwnerInv, QueueInv, TypeOK
  <2>3. \A k \in Handles : Owners(k)' = Owners(k)
    BY <2>1, <2>2 DEF Owners, OwnerInv, QueueInv, TypeOK
  <2> QED BY <1>1, <2>1, <2>2, <2>3, ThreadsAssumption DEF OwnerInv, OneOwner
<1>4. CASE \E t \in Threads : my_pthread_create(t)
  BY <1>1, <1>4, OwnerCreate
<1>5. CASE thread_stub
  BY <1>1, <1>5, OwnerExit DEF thread_stub
<1>6. CASE my_pthread_exit
  BY <1>1, <1>6, OwnerExit DEF my_pthread_exit, MainIsHarmless
<1>7. CASE my_pthread_mutex_init \/ \E m \in Handles : my_pthread_mutex_destroy(m)
  BY <1>1, <1>7, OwnerMutex
<1> QED BY <1>2, <1>3, <1>4, <1>5, <1>6, <1>7 DEF Next

\* A handle of g_mutex_table is never given out twice: not to a mutex and a
\* thread, not to two threads, and none is lost, whatever other rules the program
\* breaks.
THEOREM HandlesHaveOneOwner ==
  ASSUME MainIsHarmless
  PROVE  Spec => []OneOwner
<1>1. OwnerInv => OneOwner
  BY DEF OwnerInv
<1>2. OwnerInv /\ [Next]_vars => OwnerInv'
  BY OwnerInvStep
<1> QED BY <1>1, <1>2, OwnerInvInit, PTL DEF Spec

-----------------------------------------------------------------------------
(* Mutexes and joins.  What follows holds of the programs that keep to the   *)
(* rules of the interface, but for main, which may exit.                     *)

KeepsRules == MainIsHarmless /\ Liberties \subseteq {"main_exit"}

\* The blocked threads are those of the wait queue.  Mutexes are locked in the
\* order of their handles; a joiner has none, and joins a thread that never joins
\* and whose handle nobody else may join.
WaitInv ==
  \A t \in Threads :
    /\ blocked[t] # "no" <=> t \in ToSet(wait)
    /\ blocked[t] = "lock" => mu[t] \in mutexes /\ \A n \in holds[t] : n < mu[t]
    /\ blocked[t] = "join" =>
         /\ t \in Joiners /\ holds[t] = {}
         /\ target[t] \in live \ ({Main} \cup Joiners)
         /\ tid[target[t]] = mu[t]
         /\ unjoined[mu[t]] = "no"

HoldInv ==
  \A t \in Threads : holds[t] \subseteq mutexes /\ (holds[t] # {} => t \in live)

JoinInv ==
  /\ \A t, u \in Threads :
       blocked[t] = "join" /\ blocked[u] = "join" /\ mu[t] = mu[u] => t = u
  /\ \A h \in Handles : unjoined[h] # "no" => unjoined[h] = "fresh" /\ h \notin mutexes

ClaimInv ==
  /\ OwnerInv
  /\ WaitInv /\ HoldInv /\ JoinInv
  /\ CountIsClaims
  /\ MutualExclusion
  /\ WaitsForSomeone
  /\ NobodyStranded

\* The thread whose code executes is live and waits for nothing.
LEMMA RunnerFacts ==
  ASSUME ClaimInv, halt = "no"
  PROVE  /\ Running \in Threads /\ Running \in live
         /\ Running \notin ToSet(wait)
         /\ blocked[Running] = "no"
<1>1. Running \in live /\ Running \notin ToSet(wait)
  <2>1. CASE inited
    BY <2>1, QueuesWellFormed
    DEF ClaimInv, OwnerInv, QueueInv, Scheduled, ThreadsConserved, Running
  <2>2. CASE ~inited
    <3>1. ToSet(<<>>) = {}
      BY DEF ToSet
    <3> QED BY <2>2, <3>1 DEF ClaimInv, OwnerInv, QueueInv, Scheduled, Running
  <2> QED BY <2>1, <2>2
<1>2. Running \in Threads
  BY <1>1 DEF ClaimInv, OwnerInv, QueueInv, TypeOK
<1> QED BY <1>1, <1>2 DEF ClaimInv, WaitInv

\* The wait queue holds live threads.
LEMMA WaitersLive ==
  ASSUME ClaimInv
  PROVE  /\ ToSet(wait) \subseteq live
         /\ live \subseteq Threads
<1>1. CASE inited
  <2>1. ToSet(wait) \subseteq Threads
    BY QueuesWellFormed, QueuesTypes DEF ClaimInv, OwnerInv
  <2> QED BY <1>1, <2>1 DEF ClaimInv, OwnerInv, QueueInv, ThreadsConserved, TypeOK
<1>2. CASE ~inited
  <2>1. ToSet(<<>>) = {}
    BY DEF ToSet
  <2> QED BY <1>2, <2>1 DEF ClaimInv, OwnerInv, QueueInv, Scheduled, TypeOK
<1> QED BY <1>1, <1>2

\* There are finitely many claims, so they have a number.
LEMMA ClaimsFinite ==
  \A h : IsFiniteSet(Claims(h)) /\ Cardinality(Claims(h)) \in Nat
<1> SUFFICES ASSUME NEW h PROVE IsFiniteSet(Claims(h)) /\ Cardinality(Claims(h)) \in Nat
  OBVIOUS
<1>1. Claims(h) \in SUBSET Threads
  BY DEF Claims
<1> QED BY <1>1, ThreadsAssumption, FS_Subset, FS_CardinalityType

\* A handle in use whose count is not zero has a claim, and the other way round.
LEMMA CountFacts ==
  ASSUME ClaimInv, NEW h \in Handles, used[h]
  PROVE  /\ count[h] = Cardinality(Claims(h))
         /\ count[h] = 0 <=> Claims(h) = {}
         /\ \A t : Cardinality(Claims(h) \cup {t}) =
                     IF t \in Claims(h) THEN count[h] ELSE count[h] + 1
         /\ \A t : Cardinality(Claims(h) \ {t}) =
                     IF t \in Claims(h) THEN count[h] - 1 ELSE count[h]
<1>1. count[h] = Cardinality(Claims(h))
  BY DEF ClaimInv, CountIsClaims
<1>2. IsFiniteSet(Claims(h))
  BY ClaimsFinite
<1>3. Cardinality(Claims(h)) = 0 <=> Claims(h) = {}
  BY <1>2, FS_EmptySet
<1>4. \A t : Cardinality(Claims(h) \cup {t}) =
              IF t \in Claims(h) THEN Cardinality(Claims(h)) ELSE Cardinality(Claims(h)) + 1
  BY <1>2, FS_AddElement
<1>5. \A t : Cardinality(Claims(h) \ {t}) =
              IF t \in Claims(h) THEN Cardinality(Claims(h)) - 1 ELSE Cardinality(Claims(h))
  BY <1>2, FS_RemoveElement
<1> QED BY <1>1, <1>3, <1>4, <1>5

\* What the handles of the program are.
LEMMA HandleFacts ==
  ASSUME ClaimInv, NEW h \in Handles
  PROVE  /\ h \in mutexes => used[h] /\ Owners(h) = {} /\ h # 0
         /\ Owners(h) # {} => used[h] /\ h \notin mutexes
         /\ used[h] => h \in mutexes \/ Owners(h) # {}
         /\ unjoined[h] # "no" /\ used[h] => \E t : Owners(h) = {t}
<1>1. /\ h \in mutexes => used[h] /\ Owners(h) = {} /\ h # 0
      /\ Owners(h) # {} => used[h] /\ h \notin mutexes
      /\ used[h] => h \in mutexes \/ Owners(h) # {}
  BY DEF ClaimInv, OwnerInv, OneOwner
<1>2. ASSUME unjoined[h] # "no", used[h]
      PROVE  \E t : Owners(h) = {t}
  <2>1. PICK t : t \in Owners(h)
    BY <1>1, <1>2 DEF ClaimInv, JoinInv
  <2>2. \A u \in Owners(h) : u = t
    BY <2>1 DEF ClaimInv, OwnerInv, OneOwner
  <2>3. Owners(h) = {t}
    BY <2>1, <2>2
  <2> QED BY <2>3
<1> QED BY <1>1, <1>2

\* A set of handles has a largest one.
LEMMA LargestHandle ==
  ASSUME NEW S \in SUBSET Handles, S # {}
  PROVE  \E m \in S : \A n \in S : n <= m
<1>1. S \in SUBSET (0 .. MaxMutex) /\ MaxMutex \in Nat
  BY TableAssumption DEF Handles
<1> QED BY <1>1, GreatestNumber

\* Of the threads that wait for mutexes, the one that waits for the largest handle
\* waits for a thread that does not wait: it would hold a larger one.
LEMMA SomebodyGoesOn ==
  ASSUME ClaimInv, NEW t \in Threads, blocked[t] = "lock"
  PROVE  \E u \in live \ ToSet(wait), n \in Handles : n \in holds[u] /\ mu[t] <= n
<1> DEFINE S == {mu[v] : v \in {x \in Threads : blocked[x] = "lock"}}
<1>1. mu \in [Threads -> Handles] /\ holds \in [Threads -> SUBSET Handles]
  BY DEF ClaimInv, OwnerInv, QueueInv, TypeOK
<1>2. S \in SUBSET Handles /\ mu[t] \in S
  BY <1>1
<1>3. PICK m \in S : \A n \in S : n <= m
  BY <1>2, LargestHandle
<1>4. PICK v \in Threads : blocked[v] = "lock" /\ mu[v] = m
  BY <1>3
<1>5. PICK u \in Threads : m \in holds[u]
  BY <1>4 DEF ClaimInv, WaitInv, WaitsForSomeone
<1>6. u \in live
  BY <1>5 DEF ClaimInv, HoldInv
<1>7. u \notin ToSet(wait)
  <2>1. CASE blocked[u] = "lock"
    <3>1. mu[u] \in S /\ m < mu[u]
      BY <1>5, <2>1 DEF ClaimInv, WaitInv
    <3>2. m \in Int /\ mu[u] \in Int /\ mu[u] <= m
      BY <1>1, <1>2, <1>3, <3>1 DEF Handles
    <3> QED BY <3>1, <3>2
  <2>2. CASE blocked[u] = "join"
    BY <1>5, <2>2 DEF ClaimInv, WaitInv
  <2>3. blocked[u] \in {"no", "lock", "join"}
    BY DEF ClaimInv, OwnerInv, QueueInv, TypeOK
  <2> QED BY <2>1, <2>2, <2>3 DEF ClaimInv, WaitInv
<1>8. mu[t] <= m /\ m \in Handles
  BY <1>2, <1>3
<1> QED BY <1>5, <1>6, <1>7, <1>8

\* A thread that is not CURRENT and does not wait is ready.
LEMMA SomebodyReady ==
  ASSUME ClaimInv, NEW u \in live \ ToSet(wait), u # Running
  PROVE  u \in ToSet(ready) /\ ready # <<>>
<1>1. inited
  BY DEF ClaimInv, OwnerInv, QueueInv, Scheduled, Running
<1>2. u \in ToSet(ready)
  BY <1>1 DEF ClaimInv, OwnerInv, QueueInv, ThreadsConserved, TypeOK, Running
<1>3. ToSet(<<>>) = {}
  BY DEF ToSet
<1> QED BY <1>2, <1>3

\* A thread that locks a mutex which another one holds, in the order of handles,
\* finds somebody to run in the meantime.
LEMMA LockFindsReady ==
  ASSUME ClaimInv, halt = "no", NEW m \in mutexes \ holds[Running],
         \A n \in holds[Running] : n < m,
         Claims(m) # {}
  PROVE  ready # <<>>
<1>1. /\ mu \in [Threads -> Handles] /\ holds \in [Threads -> SUBSET Handles]
      /\ m \in Handles
  BY DEF ClaimInv, OwnerInv, QueueInv, TypeOK
<1>2. PICK u \in Threads : m \in holds[u]
  <2>1. Owners(m) = {}
    BY <1>1, HandleFacts
  <2>2. PICK t \in Threads : m \in holds[t] \/ (t \in ToSet(wait) /\ mu[t] = m)
    BY <2>1 DEF Claims
  <2>3. CASE t \in ToSet(wait) /\ mu[t] = m
    <3>1. blocked[t] \in {"lock", "join"}
      BY <2>3 DEF ClaimInv, WaitInv, OwnerInv, QueueInv, TypeOK
    <3>2. CASE blocked[t] = "join"
      BY <2>1, <2>3, <3>2 DEF ClaimInv, WaitInv, Owners
    <3>3. CASE blocked[t] = "lock"
      BY <2>3, <3>3 DEF ClaimInv, WaitsForSomeone
    <3> QED BY <3>1, <3>2, <3>3
  <2> QED BY <2>2, <2>3
<1>3. u # Running /\ u \in live
  BY <1>2 DEF ClaimInv, HoldInv
<1>4. CASE u \notin ToSet(wait)
  BY <1>3, <1>4, SomebodyReady
<1>5. CASE u \in ToSet(wait)
  <2>1. blocked[u] = "lock"
    BY <1>2, <1>5 DEF ClaimInv, WaitInv, OwnerInv, QueueInv, TypeOK
  <2>2. m < mu[u]
    BY <1>2, <2>1 DEF ClaimInv, WaitInv
  <2>3. PICK v \in live \ ToSet(wait), n \in Handles : n \in holds[v] /\ mu[u] <= n
    BY <2>1, SomebodyGoesOn
  <2>4. v # Running
    <3>1. n \in Int /\ m \in Int /\ mu[u] \in Int
      BY <1>1 DEF Handles
    <3>2. ~(n < m)
      BY <2>2, <2>3, <3>1
    <3> QED BY <2>3, <3>2
  <2> QED BY <2>3, <2>4, SomebodyReady
<1> QED BY <1>4, <1>5

\* A thread that joins another one finds somebody to run in the meantime.
LEMMA JoinFindsReady ==
  ASSUME ClaimInv, halt = "no", Running \in Joiners, holds[Running] = {},
         NEW u \in live \ Joiners
  PROVE  ready # <<>>
<1>1. CASE u \notin ToSet(wait)
  BY <1>1, SomebodyReady
<1>2. CASE u \in ToSet(wait)
  <2>1. u \in Threads /\ blocked[u] = "lock"
    BY <1>2, WaitersLive DEF ClaimInv, WaitInv, OwnerInv, QueueInv, TypeOK
  <2>2. PICK v \in live \ ToSet(wait) : holds[v] # {}
    BY <2>1, SomebodyGoesOn
  <2> QED BY <2>2, SomebodyReady
<1> QED BY <1>1, <1>2

\* The types of the variables that this part is about.
LEMMA ClaimTypes ==
  ASSUME ClaimInv
  PROVE  /\ used \in [Handles -> BOOLEAN]
         /\ count \in [Handles -> Nat]
         /\ tid \in [Threads -> Handles]
         /\ mu \in [Threads -> Handles]
         /\ holds \in [Threads -> SUBSET Handles]
         /\ mutexes \subseteq Handles
         /\ unjoined \in [Handles -> {"no", "fresh", "stale"}]
         /\ blocked \in [Threads -> {"no", "lock", "join"}]
         /\ target \in [Threads -> Threads \cup {Null}]
BY DEF ClaimInv, OwnerInv, QueueInv, TypeOK

\* When nobody is ready and CURRENT gives up the processor for good, nobody waits.
LEMMA NobodyLeft ==
  ASSUME ClaimInv, holds[Running] = {}, ready = <<>>,
         \A u \in ToSet(wait) : blocked[u] = "join" => target[u] # Running
  PROVE  wait = <<>>
<1> SUFFICES ASSUME NEW u \in ToSet(wait) PROVE FALSE
  <2>1. wait \in Seq(Threads)
    BY DEF ClaimInv, OwnerInv, QueueInv, TypeOK
  <2> QED BY <2>1, EmptyToSet
<1>1. u \in Threads
  BY WaitersLive
<1>2. \A v \in Threads : blocked[v] # "lock"
  <2> SUFFICES ASSUME NEW v \in Threads, blocked[v] = "lock" PROVE FALSE
    OBVIOUS
  <2>1. PICK w \in live \ ToSet(wait) : holds[w] # {}
    BY SomebodyGoesOn
  <2> QED BY <2>1, SomebodyReady
<1>3. blocked[u] = "join" /\ target[u] \in live \ Joiners
  BY <1>1, <1>2, ClaimTypes DEF ClaimInv, WaitInv
<1>4. target[u] \notin ToSet(wait)
  BY <1>2, <1>3, WaitersLive, ClaimTypes DEF ClaimInv, WaitInv
<1> QED BY <1>3, <1>4, SomebodyReady

\* An exit gives back its handle, and the one thread that joins it goes on.
LEMMA ClaimExit ==
  ASSUME ClaimInv, OwnerInv', Exit, Running = Main => MainTids = {0}
  PROVE  /\ ClaimInv'
         /\ \A u \in Threads :
              blocked[u] = "join" /\ blocked'[u] = "no" => target[u] \notin live'
         /\ \A u \in Threads : blocked'[u] = "lock" <=> blocked[u] = "lock"
         /\ UNCHANGED holds
<1> DEFINE t == Running
           h == tid[t]
           joins(u) == u \in ToSet(wait) /\ mu[u] = h
<1>1. /\ halt = "no" /\ inited /\ holds[t] = {}
      /\ used' = [used EXCEPT ![h] = FALSE]
      /\ count' = [count EXCEPT ![h] = 0]
      /\ live' = live \ {t}
      /\ tid' = [tid EXCEPT ![t] = 0]
      /\ mu' = [mu EXCEPT ![t] = 0]
      /\ target' = [u \in Threads |-> IF target[u] = t THEN Null ELSE target[u]]
      /\ UNCHANGED <<inited, mutexes, unjoined>>
  BY DEF Exit
<1>2. /\ t \in Threads /\ t \in live /\ t \notin ToSet(wait) /\ blocked[t] = "no"
      /\ h \in Handles
  BY <1>1, RunnerFacts, ClaimTypes
<1>3. h \notin mutexes /\ (t = Main => Owners(h) = {}) /\ (t # Main => Owners(h) = {t})
  <2>1. CASE t = Main
    <3>1. h = 0 /\ ~used[h]
      BY <2>1 DEF ClaimInv, OwnerInv
    <3> QED BY <1>2, <2>1, <3>1, HandleFacts
  <2>2. CASE t # Main
    <3>1. t \in Owners(h)
      BY <1>2, <2>2 DEF Owners
    <3>2. \A u \in Owners(h) : u = t
      BY <1>2, <3>1 DEF ClaimInv, OwnerInv, OneOwner
    <3>3. Owners(h) = {t}
      BY <3>1, <3>2
    <3> QED BY <1>2, <2>2, <3>1, <3>3, HandleFacts
  <2> QED BY <2>1, <2>2
<1>4. ASSUME NEW u \in Threads, joins(u)
      PROVE  blocked[u] = "join" /\ target[u] = t
  <2>1. blocked[u] \in {"lock", "join"}
    BY <1>4, ClaimTypes DEF ClaimInv, WaitInv
  <2>2. blocked[u] # "lock"
    BY <1>3, <1>4 DEF ClaimInv, WaitInv
  <2>3. target[u] \in Owners(h)
    BY <1>4, <2>1, <2>2 DEF ClaimInv, WaitInv, Owners
  <2> QED BY <1>3, <2>1, <2>2, <2>3
<1>5. ASSUME NEW u \in Threads, blocked[u] = "join", target[u] = t
      PROVE  joins(u)
  BY <1>5 DEF ClaimInv, WaitInv
<1>6. /\ ToSet(wait)' = {u \in ToSet(wait) : mu[u] # h}
      /\ blocked' = [u \in Threads |-> IF joins(u) THEN "no" ELSE blocked[u]]
      /\ holds' = holds
      /\ current' = Null => wait' = <<>>
  <2>1. CASE NoWaiter(h) /\ Schedule(Null, ready) /\ UNCHANGED <<wait, blocked, holds>>
    <3>1. \A u \in ToSet(wait) : mu[u] # h
      <4>1. DOMAIN wait = 1 .. Len(wait)
        BY LenProperties DEF ClaimInv, OwnerInv, QueueInv, TypeOK
      <4> QED BY <2>1, <4>1 DEF NoWaiter, ToSet
    <3>2. blocked' = [u \in Threads |-> IF joins(u) THEN "no" ELSE blocked[u]]
      BY <2>1, <3>1, ClaimTypes
    <3>3. ASSUME current' = Null
          PROVE  wait' = <<>>
      <4>1. Null \notin ToSet(ready)
        BY QueuesWellFormed, QueuesTypes DEF ClaimInv, OwnerInv
      <4>2. ready = <<>>
        <5> SUFFICES ASSUME ready # <<>> PROVE FALSE
          OBVIOUS
        <5>1. Null = Head(ready)
          BY <2>1, <3>3 DEF Schedule
        <5>2. ready \in Seq(Threads)
          BY DEF ClaimInv, OwnerInv, QueueInv, TypeOK
        <5>3. Head(ready) \in ToSet(ready)
          BY <5>2, HeadTailToSet
        <5> QED BY <4>1, <5>1, <5>3
      <4>3. \A u \in ToSet(wait) : blocked[u] = "join" => target[u] # t
        BY <1>5, <3>1, WaitersLive
      <4>4. wait = <<>>
        BY <1>1, <4>2, <4>3, NobodyLeft
      <4> QED BY <2>1, <4>4
    <3> QED BY <2>1, <3>1, <3>2, <3>3
  <2>2. ASSUME NEW i \in 1 .. Len(wait),
               FirstWaiter(h, i),
               wait' = RemoveAt(wait, i),
               Schedule(Null, Append(ready, wait[i])),
               Resume(wait[i])
        PROVE  <1>6!1 /\ <1>6!2 /\ <1>6!3 /\ <1>6!4
    <3> DEFINE w == wait[i]
    <3>1. /\ w \in Threads
          /\ w \in ToSet(wait)
          /\ ToSet(wait)' = ToSet(wait) \ {w}
      BY <2>2, QueuesWellFormed, RemoveAtToSet DEF Queues, ClaimInv, OwnerInv
    <3>2. joins(w) /\ blocked[w] = "join"
      BY <1>4, <2>2, <3>1 DEF FirstWaiter
    <3>3. \A u \in Threads : joins(u) => u = w
      BY <1>4, <3>1, <3>2 DEF ClaimInv, JoinInv
    <3>4. holds' = holds /\ blocked' = [blocked EXCEPT ![w] = "no"]
      BY <2>2, <3>2 DEF Resume
    <3>5. blocked' = [u \in Threads |-> IF joins(u) THEN "no" ELSE blocked[u]]
      <4> HIDE DEF w, joins
      <4> QED BY <3>1, <3>2, <3>3, <3>4, ClaimTypes
    <3>6. ToSet(wait)' = {u \in ToSet(wait) : mu[u] # h}
      BY <3>1, <3>2, <3>3, WaitersLive
    <3>7. current' # Null
      <4>1. Queues(Null, ready, wait)
        <5>1. Queues(current, ready, wait)
          BY QueuesWellFormed DEF ClaimInv, OwnerInv
        <5>2. Null \notin ToSet(ready) \cup ToSet(wait)
          BY <5>1, QueuesTypes
        <5> QED BY <5>1, <5>2 DEF Queues
      <4>2. /\ Queues(Null, Append(ready, wait[i]), wait')
            /\ Append(ready, wait[i]) # <<>>
        BY <2>2, <4>1, WakePlaces
      <4>3. \A rq : Queues(Null, rq, wait') /\ Schedule(Null, rq) /\ rq # <<>> => current' # Null
        BY SchedulePlaces
      <4> QED BY <2>2, <4>2, <4>3
    <3> QED BY <3>4, <3>5, <3>6, <3>7
  <2> QED BY <2>1, <2>2 DEF Exit
<1>7. /\ \A u \in Threads : u # t => mu'[u] = mu[u] /\ tid'[u] = tid[u]
      /\ \A u \in Threads : target'[u] = IF target[u] = t THEN Null ELSE target[u]
      /\ \A k \in Handles : k # h => used'[k] = used[k] /\ count'[k] = count[k]
      /\ ~used'[h] /\ count'[h] = 0
      /\ \A u \in Threads : blocked'[u] = IF joins(u) THEN "no" ELSE blocked[u]
  BY <1>1, <1>2, <1>6, ClaimTypes
<1>8. CountIsClaims'
  <2> SUFFICES ASSUME NEW k \in Handles
               PROVE  count'[k] = IF used'[k] THEN Cardinality(Claims(k)') ELSE 0
    BY DEF CountIsClaims
  <2>1. CASE k = h
    BY <1>7, <2>1
  <2>2. CASE k # h
    <3>1. \A u \in Threads : u \in Owners(k)' <=> u \in Owners(k)
      BY <1>1, <1>2, <1>7, <2>2 DEF Owners
    <3>2. \A u \in Threads : u \in ToSet(wait)' /\ mu'[u] = k <=> u \in ToSet(wait) /\ mu[u] = k
      BY <1>2, <1>6, <1>7, <2>2
    <3>3. Claims(k)' = Claims(k)
      BY <1>6, <3>1, <3>2 DEF Claims
    <3> QED BY <1>7, <2>2, <3>3 DEF ClaimInv, CountIsClaims
  <2> QED BY <2>1, <2>2
<1>9. WaitInv'
  <2> SUFFICES ASSUME NEW u \in Threads
               PROVE  /\ blocked'[u] # "no" <=> u \in ToSet(wait)'
                      /\ blocked'[u] = "lock" =>
                           mu'[u] \in mutexes' /\ \A n \in holds'[u] : n < mu'[u]
                      /\ blocked'[u] = "join" =>
                           /\ u \in Joiners /\ holds'[u] = {}
                           /\ target'[u] \in live' \ ({Main} \cup Joiners)
                           /\ tid'[target'[u]] = mu'[u]
                           /\ unjoined'[mu'[u]] = "no"
    BY DEF WaitInv
  <2>1. blocked'[u] # "no" <=> u \in ToSet(wait)'
    BY <1>6, <1>7 DEF ClaimInv, WaitInv
  <2>2. CASE blocked'[u] = "no"
    BY <2>1, <2>2
  <2>3. CASE blocked'[u] # "no"
    <3>1. u # t /\ ~joins(u) /\ blocked'[u] = blocked[u] /\ mu'[u] = mu[u]
      BY <1>2, <1>6, <1>7, <2>1, <2>3
    <3>2. CASE blocked[u] = "lock"
      BY <1>1, <1>6, <3>1, <3>2 DEF ClaimInv, WaitInv
    <3>3. CASE blocked[u] = "join"
      <4>1. target[u] # t
        BY <1>5, <3>1, <3>3
      <4>2. target'[u] = target[u] /\ target[u] \in Threads /\ target[u] # Null
        BY <1>7, <3>3, <4>1, WaitersLive, ThreadsAssumption DEF ClaimInv, WaitInv
      <4> QED BY <1>1, <1>6, <1>7, <3>1, <3>3, <4>1, <4>2 DEF ClaimInv, WaitInv
    <3> QED BY <2>3, <3>1, <3>2, <3>3, ClaimTypes
  <2> QED BY <2>2, <2>3
<1>10. HoldInv'
  BY <1>1, <1>2, <1>6 DEF ClaimInv, HoldInv
<1>11. JoinInv'
  <2>1. \A u \in Threads : blocked'[u] = "join" => blocked[u] = "join" /\ mu'[u] = mu[u]
    BY <1>2, <1>7
  <2> QED BY <1>1, <2>1 DEF ClaimInv, JoinInv
<1>12. MutualExclusion'
  BY <1>6 DEF ClaimInv, MutualExclusion
<1>13. WaitsForSomeone'
  <2> SUFFICES ASSUME NEW u \in ToSet(wait)'
               PROVE  /\ blocked'[u] = "lock" => \E v \in Threads \ {u} : mu'[u] \in holds'[v]
                      /\ blocked'[u] = "join" =>
                           target'[u] \in live' /\ tid'[target'[u]] = mu'[u]
    BY DEF WaitsForSomeone
  <2>1. u \in Threads /\ u \in ToSet(wait) /\ u # t
    BY <1>2, <1>6, WaitersLive
  <2>2. blocked'[u] = "lock" => \E v \in Threads \ {u} : mu'[u] \in holds'[v]
    BY <1>6, <1>7, <2>1 DEF ClaimInv, WaitsForSomeone
  <2> QED BY <1>9, <2>1, <2>2 DEF WaitInv
<1>14. NobodyStranded'
  BY <1>6 DEF NobodyStranded
<1>15. \A u \in Threads :
         blocked[u] = "join" /\ blocked'[u] = "no" => target[u] \notin live'
  BY <1>1, <1>4, <1>7
<1>16. \A u \in Threads : blocked'[u] = "lock" <=> blocked[u] = "lock"
  BY <1>4, <1>7
<1> QED BY <1>6, <1>8, <1>9, <1>10, <1>11, <1>12, <1>13, <1>14, <1>15, <1>16 DEF ClaimInv

\* Only CURRENT, the ready queue and the tid of main change.
LEMMA ClaimFrame ==
  ASSUME ClaimInv, OwnerInv', NobodyStranded',
         \A t \in Threads : t # Main => tid'[t] = tid[t],
         UNCHANGED <<wait, table, mu, live, program, history>>
  PROVE  ClaimInv'
<1>1. UNCHANGED <<wait, used, count, mu, live, mutexes, holds, unjoined, blocked, target>>
  BY DEF table, program, history
<1>2. \A h \in Handles : Claims(h)' = Claims(h)
  <2>1. \A h \in Handles : Owners(h)' = Owners(h)
    BY <1>1, WaitersLive DEF Owners
  <2> QED BY <1>1, <2>1 DEF Claims
<1>3. CountIsClaims'
  BY <1>1, <1>2 DEF ClaimInv, CountIsClaims
<1>4. WaitInv'
  <2>1. \A t \in Threads : blocked[t] = "join" => tid'[target[t]] = tid[target[t]]
    BY WaitersLive DEF ClaimInv, WaitInv
  <2> QED BY <1>1, <2>1 DEF ClaimInv, WaitInv
<1>5. HoldInv' /\ JoinInv' /\ MutualExclusion'
  BY <1>1 DEF ClaimInv, HoldInv, JoinInv, MutualExclusion
<1>6. WaitsForSomeone'
  BY <1>1, <1>4, WaitersLive DEF ClaimInv, WaitInv, WaitsForSomeone
<1> QED BY <1>3, <1>4, <1>5, <1>6 DEF ClaimInv

\* A call of a waiting thread: what the wait queue is afterwards.
LEMMA Queued ==
  ASSUME ClaimInv, halt = "no", SwapCurrentToWait, ready # <<>>
  PROVE  /\ current = Running
         /\ ToSet(wait)' = ToSet(wait) \cup {Running}
         /\ wait' # wait
         /\ current' # Null
<1>1. inited /\ current = Running /\ current \in Threads
  BY RunnerFacts DEF ClaimInv, OwnerInv, QueueInv, Scheduled, Running
<1>2. wait \in Seq(Threads) /\ wait' = Append(wait, current)
  BY DEF SwapCurrentToWait, ClaimInv, OwnerInv, QueueInv, TypeOK
<1>3. ToSet(wait)' = ToSet(wait) \cup {current}
  BY <1>1, <1>2, AppendToSet
<1>4. wait' # wait
  BY <1>1, <1>2, AppendProperties, LenProperties
<1>5. current' # Null
  <2>1. Queues(current, ready, wait) /\ current # Null
    BY <1>1, QueuesWellFormed, ThreadsAssumption DEF ClaimInv, OwnerInv
  <2> QED BY <2>1, SwapPlaces
<1> QED BY <1>1, <1>3, <1>4, <1>5

\* Whoever queues behind a handle adds one claim to it.
LEMMA CountQueued ==
  ASSUME ClaimInv, NEW h \in Handles, used[h],
         NEW t \in Threads, t \notin Claims(h), t \notin ToSet(wait),
         ToSet(wait)' = ToSet(wait) \cup {t},
         count' = [count EXCEPT ![h] = @ + 1],
         mu' = [mu EXCEPT ![t] = h],
         UNCHANGED <<used, tid, live, holds>>
  PROVE  CountIsClaims'
<1> SUFFICES ASSUME NEW k \in Handles
             PROVE  count'[k] = IF used'[k] THEN Cardinality(Claims(k)') ELSE 0
  BY DEF CountIsClaims
<1>1. Owners(k)' = Owners(k)
  BY DEF Owners
<1>2. mu'[t] = h /\ \A u \in Threads : u # t => mu'[u] = mu[u]
  BY ClaimTypes
<1>3. CASE k = h
  <2>1. Claims(k)' = Claims(k) \cup {t}
    BY <1>1, <1>2, <1>3 DEF Claims
  <2>2. Cardinality(Claims(k) \cup {t}) = count[k] + 1
    BY <1>3, CountFacts
  <2> QED BY <1>3, <2>1, <2>2, ClaimTypes
<1>4. CASE k # h
  <2>1. Claims(k)' = Claims(k)
    BY <1>1, <1>2, <1>4 DEF Claims
  <2> QED BY <1>4, <2>1, ClaimTypes DEF ClaimInv, CountIsClaims
<1> QED BY <1>3, <1>4

\* A lock takes a free mutex or queues the caller behind its holder.
LEMMA ClaimLock ==
  ASSUME KeepsRules, ClaimInv, OwnerInv', NEW m \in Handles, my_pthread_mutex_lock(m)
  PROVE  ClaimInv' /\ \A u \in Threads : blocked[u] = "join" => blocked'[u] = "join"
<1> DEFINE t == Running
<1>1. /\ halt = "no"
      /\ m \in mutexes \ holds[t]
      /\ \A n \in holds[t] : n < m
      /\ UNCHANGED <<inited, used, tid, live, halt, mutexes, unjoined>>
  BY DEF my_pthread_mutex_lock, KeepsRules, May
<1>2. /\ t \in Threads /\ t \in live /\ t \notin ToSet(wait) /\ blocked[t] = "no"
  BY <1>1, RunnerFacts
<1>3. used[m] /\ Owners(m) = {} /\ t \notin Claims(m)
  BY <1>1, <1>2, HandleFacts DEF Claims
<1>4. \A k \in Handles : Owners(k)' = Owners(k)
  BY <1>1 DEF Owners
<1>5. CASE count[m] = 0
  <2>1. /\ count' = [count EXCEPT ![m] = 1]
        /\ holds' = [holds EXCEPT ![t] = @ \cup {m}]
        /\ UNCHANGED <<current, ready, wait, mu, blocked, target>>
    BY <1>3, <1>5 DEF my_pthread_mutex_lock, queues, history
  <2>2. Claims(m) = {}
    BY <1>3, <1>5, CountFacts
  <2>3. CountIsClaims'
    <3> SUFFICES ASSUME NEW k \in Handles
                 PROVE  count'[k] = IF used'[k] THEN Cardinality(Claims(k)') ELSE 0
      BY DEF CountIsClaims
    <3>1. CASE k = m
      <4>1. Claims(k)' = {t}
        BY <1>2, <1>4, <2>1, <2>2, <3>1, ClaimTypes DEF Claims
      <4>2. Cardinality({t}) = 1
        BY FS_Singleton
      <4> QED BY <1>1, <1>3, <2>1, <3>1, <4>1, <4>2, ClaimTypes
    <3>2. CASE k # m
      <4>1. Claims(k)' = Claims(k)
        BY <1>4, <2>1, <3>2, ClaimTypes DEF Claims
      <4> QED BY <1>1, <2>1, <3>2, <4>1, ClaimTypes DEF ClaimInv, CountIsClaims
    <3> QED BY <3>1, <3>2
  <2>4. \A u \in Threads : m \notin holds[u]
    BY <2>2 DEF Claims
  <2>5. /\ holds'[t] = holds[t] \cup {m}
        /\ \A u \in Threads : u # t => holds'[u] = holds[u]
    BY <1>2, <2>1, ClaimTypes
  <2>6. WaitInv' /\ HoldInv' /\ JoinInv'
    <3>1. \A u \in Threads : blocked[u] # "no" => holds'[u] = holds[u]
      BY <1>2, <2>5
    <3>2. WaitInv'
      BY <1>1, <2>1, <3>1 DEF ClaimInv, WaitInv
    <3>3. HoldInv'
      BY <1>1, <1>2, <2>5 DEF ClaimInv, HoldInv
    <3>4. JoinInv'
      BY <1>1, <2>1 DEF ClaimInv, JoinInv
    <3> QED BY <3>2, <3>3, <3>4
  <2>7. MutualExclusion'
    BY <2>4, <2>5 DEF ClaimInv, MutualExclusion
  <2>8. WaitsForSomeone'
    BY <1>1, <2>1, <2>5 DEF ClaimInv, WaitsForSomeone
  <2>9. NobodyStranded'
    BY <1>1, <2>1 DEF ClaimInv, NobodyStranded
  <2> QED BY <2>1, <2>3, <2>6, <2>7, <2>8, <2>9 DEF ClaimInv
<1>6. CASE count[m] # 0
  <2>1. Claims(m) # {}
    BY <1>3, <1>6, CountFacts
  <2>2. ready # <<>>
    BY <1>1, <2>1, LockFindsReady
  <2>3. CountAndWait(m)
    BY <1>3, <1>6 DEF my_pthread_mutex_lock
  <2>4. ToSet(wait)' = ToSet(wait) \cup {t} /\ wait' # wait /\ current' # Null
    BY <1>1, <2>2, <2>3, Queued DEF CountAndWait
  <2>5. /\ count' = [count EXCEPT ![m] = @ + 1]
        /\ mu' = [mu EXCEPT ![t] = m]
        /\ blocked' = [blocked EXCEPT ![t] = "lock"]
        /\ UNCHANGED <<holds, target>>
    BY <1>3, <1>6, <2>3, <2>4 DEF my_pthread_mutex_lock, CountAndWait, history
  <2>6. /\ mu'[t] = m /\ blocked'[t] = "lock"
        /\ \A u \in Threads : u # t => mu'[u] = mu[u] /\ blocked'[u] = blocked[u]
    BY <1>2, <2>5, ClaimTypes
  <2>7. CountIsClaims'
    BY <1>1, <1>2, <1>3, <2>4, <2>5, CountQueued
  <2>8. PICK v \in Threads : v # t /\ m \in holds[v]
    <3>1. PICK x \in Threads : m \in holds[x] \/ (x \in ToSet(wait) /\ mu[x] = m)
      BY <1>3, <2>1 DEF Claims
    <3>2. CASE m \in holds[x]
      BY <1>1, <3>1, <3>2
    <3>3. CASE x \in ToSet(wait) /\ mu[x] = m
      <4>1. blocked[x] = "lock"
        BY <1>3, <3>3, ClaimTypes DEF ClaimInv, WaitInv, Owners
      <4> QED BY <1>1, <3>3, <4>1 DEF ClaimInv, WaitsForSomeone
    <3> QED BY <3>1, <3>2, <3>3
  <2>9. WaitInv'
    <3> SUFFICES ASSUME NEW u \in Threads
                 PROVE  /\ blocked'[u] # "no" <=> u \in ToSet(wait)'
                        /\ blocked'[u] = "lock" =>
                             mu'[u] \in mutexes' /\ \A n \in holds'[u] : n < mu'[u]
                        /\ blocked'[u] = "join" =>
                             /\ u \in Joiners /\ holds'[u] = {}
                             /\ target'[u] \in live' \ ({Main} \cup Joiners)
                             /\ tid'[target'[u]] = mu'[u]
                             /\ unjoined'[mu'[u]] = "no"
      BY DEF WaitInv
    <3>1. CASE u = t
      BY <1>1, <2>4, <2>5, <2>6, <3>1
    <3>2. CASE u # t
      BY <1>1, <2>4, <2>5, <2>6, <3>2 DEF ClaimInv, WaitInv
    <3> QED BY <3>1, <3>2
  <2>10. HoldInv' /\ MutualExclusion'
    BY <1>1, <2>5 DEF ClaimInv, HoldInv, MutualExclusion
  <2>11. JoinInv'
    <3>1. \A u \in Threads : blocked'[u] = "join" => blocked[u] = "join" /\ mu'[u] = mu[u]
      BY <2>6
    <3> QED BY <1>1, <3>1 DEF ClaimInv, JoinInv
  <2>12. WaitsForSomeone'
    <3> SUFFICES ASSUME NEW u \in ToSet(wait)'
                 PROVE  /\ blocked'[u] = "lock" => \E x \in Threads \ {u} : mu'[u] \in holds'[x]
                        /\ blocked'[u] = "join" =>
                             target'[u] \in live' /\ tid'[target'[u]] = mu'[u]
      BY DEF WaitsForSomeone
    <3>1. CASE u = t
      BY <2>5, <2>6, <2>8, <3>1
    <3>2. CASE u # t
      <4>1. u \in ToSet(wait) /\ u \in Threads
        BY <2>4, <3>2, WaitersLive
      <4> QED BY <1>1, <2>5, <2>6, <3>2, <4>1 DEF ClaimInv, WaitsForSomeone
    <3> QED BY <3>1, <3>2
  <2>13. NobodyStranded'
    BY <2>4 DEF NobodyStranded
  <2>14. \A u \in Threads : blocked[u] = "join" => blocked'[u] = "join"
    BY <1>2, <2>6
  <2> QED BY <2>7, <2>9, <2>10, <2>11, <2>12, <2>13, <2>14 DEF ClaimInv
<1> QED BY <1>5, <1>6

\* A join of a thread that lives queues the caller behind it.
LEMMA ClaimJoin ==
  ASSUME KeepsRules, ClaimInv, OwnerInv', NEW h \in Handles, my_pthread_join(h)
  PROVE  /\ ClaimInv' /\ \A u \in Threads : blocked[u] = "join" => blocked'[u] = "join"
         /\ blocked'[Running] = "no" => Owners(h) = {}
<1> DEFINE t == Running
<1>1. /\ halt = "no"
      /\ t \in Joiners /\ holds[t] = {}
      /\ Owners(h) \cap Joiners = {}
      /\ unjoined[h] = "fresh"
      /\ unjoined' = [unjoined EXCEPT ![h] = "no"]
      /\ UNCHANGED <<inited, used, tid, live, halt, mutexes, holds>>
  BY DEF my_pthread_join, MayJoin, KeepsRules, May, ClaimInv, JoinInv
<1>2. /\ t \in Threads /\ t \in live /\ t \notin ToSet(wait) /\ blocked[t] = "no"
  BY <1>1, RunnerFacts
<1>3. \A k \in Handles : Owners(k)' = Owners(k)
  BY <1>1 DEF Owners
<1>4. \A k \in Handles : unjoined'[k] = IF k = h THEN "no" ELSE unjoined[k]
  BY <1>1, ClaimTypes
<1>5. HoldInv' /\ MutualExclusion'
  BY <1>1 DEF ClaimInv, HoldInv, MutualExclusion
<1>6. CASE ~used[h]
  <2>1. UNCHANGED <<current, ready, wait, count, mu, blocked, target>>
    BY <1>6 DEF my_pthread_join, queues, history
  <2>2. CountIsClaims'
    <3>1. \A k \in Handles : Claims(k)' = Claims(k)
      BY <1>1, <1>3, <2>1 DEF Claims
    <3> QED BY <1>1, <2>1, <3>1 DEF ClaimInv, CountIsClaims
  <2>3. WaitInv' /\ JoinInv'
    <3>1. WaitInv'
      BY <1>1, <1>4, <2>1, ClaimTypes DEF ClaimInv, WaitInv
    <3>2. JoinInv'
      BY <1>1, <1>4, <2>1 DEF ClaimInv, JoinInv
    <3> QED BY <3>1, <3>2
  <2>4. WaitsForSomeone' /\ NobodyStranded'
    BY <1>1, <2>1 DEF ClaimInv, WaitsForSomeone, NobodyStranded
  <2>5. Owners(h) = {}
    BY <1>6, HandleFacts
  <2> QED BY <1>5, <2>1, <2>2, <2>3, <2>4, <2>5 DEF ClaimInv
<1>7. CASE used[h]
  <2>1. PICK o : Owners(h) = {o}
    BY <1>1, <1>7, HandleFacts
  <2>2. o \in live /\ o \in Threads /\ o # Main /\ tid[o] = h /\ o \notin Joiners
    BY <1>1, <2>1 DEF Owners, ClaimInv, OwnerInv, QueueInv, TypeOK
  <2>3. o \in Claims(h) /\ t \notin Claims(h)
    BY <1>1, <1>2, <2>1, <2>2 DEF Claims
  <2>4. count[h] # 0
    BY <1>7, <2>3, CountFacts
  <2>5. ready # <<>>
    BY <1>1, <2>2, JoinFindsReady
  <2>6. CountAndWait(h)
    BY <1>7, <2>4 DEF my_pthread_join
  <2>7. /\ current = t
        /\ ToSet(wait)' = ToSet(wait) \cup {t} /\ wait' # wait /\ current' # Null
    BY <1>1, <2>5, <2>6, Queued DEF CountAndWait
  <2>8. /\ count' = [count EXCEPT ![h] = @ + 1]
        /\ mu' = [mu EXCEPT ![t] = h]
        /\ target' = [target EXCEPT ![t] = o]
        /\ blocked' = [blocked EXCEPT ![t] = "join"]
    BY <1>7, <2>1, <2>4, <2>6, <2>7 DEF my_pthread_join, CountAndWait
  <2>9. /\ mu'[t] = h /\ target'[t] = o /\ blocked'[t] = "join"
        /\ \A u \in Threads : u # t =>
             mu'[u] = mu[u] /\ target'[u] = target[u] /\ blocked'[u] = blocked[u]
    BY <1>2, <2>8, ClaimTypes
  <2>10. CountIsClaims'
    BY <1>1, <1>2, <1>7, <2>3, <2>7, <2>8, CountQueued
  <2>11. WaitInv'
    <3> SUFFICES ASSUME NEW u \in Threads
                 PROVE  /\ blocked'[u] # "no" <=> u \in ToSet(wait)'
                        /\ blocked'[u] = "lock" =>
                             mu'[u] \in mutexes' /\ \A n \in holds'[u] : n < mu'[u]
                        /\ blocked'[u] = "join" =>
                             /\ u \in Joiners /\ holds'[u] = {}
                             /\ target'[u] \in live' \ ({Main} \cup Joiners)
                             /\ tid'[target'[u]] = mu'[u]
                             /\ unjoined'[mu'[u]] = "no"
      BY DEF WaitInv
    <3>1. CASE u = t
      BY <1>1, <1>4, <2>2, <2>7, <2>9, <3>1
    <3>2. CASE u # t
      BY <1>1, <1>4, <2>7, <2>9, <3>2, ClaimTypes DEF ClaimInv, WaitInv
    <3> QED BY <3>1, <3>2
  <2>12. JoinInv'
    <3>1. \A u \in Threads : u # t /\ blocked[u] = "join" => mu[u] # h
      BY <1>1 DEF ClaimInv, WaitInv
    <3>2. \A u, v \in Threads :
            blocked'[u] = "join" /\ blocked'[v] = "join" /\ mu'[u] = mu'[v] => u = v
      BY <2>9, <3>1 DEF ClaimInv, JoinInv
    <3> QED BY <1>1, <1>4, <3>2 DEF ClaimInv, JoinInv
  <2>13. WaitsForSomeone'
    <3> SUFFICES ASSUME NEW u \in ToSet(wait)'
                 PROVE  /\ blocked'[u] = "lock" => \E x \in Threads \ {u} : mu'[u] \in holds'[x]
                        /\ blocked'[u] = "join" =>
                             target'[u] \in live' /\ tid'[target'[u]] = mu'[u]
      BY DEF WaitsForSomeone
    <3>1. CASE u = t
      BY <1>1, <2>2, <2>9, <3>1
    <3>2. CASE u # t
      <4>1. u \in ToSet(wait) /\ u \in Threads
        BY <2>7, <3>2, WaitersLive
      <4> QED BY <1>1, <2>9, <3>2, <4>1 DEF ClaimInv, WaitsForSomeone
    <3> QED BY <3>1, <3>2
  <2>14. NobodyStranded'
    BY <2>7 DEF NobodyStranded
  <2>15. \A u \in Threads : blocked[u] = "join" => blocked'[u] = "join"
    BY <1>2, <2>9
  <2> QED BY <1>5, <2>9, <2>10, <2>11, <2>12, <2>13, <2>14, <2>15 DEF ClaimInv
<1> QED BY <1>6, <1>7

\* An unlock hands the mutex to the first thread that waits for it, or frees it.
LEMMA ClaimUnlock ==
  ASSUME ClaimInv, OwnerInv', NEW m \in Handles, my_pthread_mutex_unlock(m)
  PROVE  ClaimInv' /\ \A u \in Threads : blocked[u] = "join" => blocked'[u] = "join"
<1> DEFINE t == Running
           given == [holds EXCEPT ![t] = @ \ {m}]
<1>1. /\ halt = "no" /\ m \in holds[t]
      /\ UNCHANGED <<inited, current, used, tid, mu, live, halt, mutexes, unjoined, target>>
  BY DEF my_pthread_mutex_unlock, info
<1>2. /\ t \in Threads /\ t \in live /\ t \notin ToSet(wait) /\ blocked[t] = "no"
  BY <1>1, RunnerFacts
<1>3. m \in mutexes /\ used[m] /\ Owners(m) = {} /\ t \in Claims(m)
  BY <1>1, <1>2, HandleFacts DEF Claims, ClaimInv, HoldInv
<1>4. count[m] # 0
  BY <1>3, CountFacts
<1>5. /\ count' = [count EXCEPT ![m] = @ - 1]
      /\ \/ /\ count[m] = 1 \/ NoWaiter(m)
            /\ holds' = given
            /\ UNCHANGED <<ready, wait, blocked>>
         \/ \E i \in 1 .. Len(wait) :
              /\ FirstWaiter(m, i)
              /\ wait' = RemoveAt(wait, i)
              /\ blocked' = [blocked EXCEPT ![wait[i]] = "no"]
              /\ holds' = IF blocked[wait[i]] = "lock"
                          THEN [given EXCEPT ![wait[i]] = @ \cup {m}]
                          ELSE given
  BY <1>3, <1>4 DEF my_pthread_mutex_unlock
<1>6. \A k \in Handles : Owners(k)' = Owners(k)
  BY <1>1 DEF Owners
<1>7. /\ given[t] = holds[t] \ {m}
      /\ \A u \in Threads : u # t => given[u] = holds[u]
      /\ given \in [Threads -> SUBSET Handles]
  BY <1>2, ClaimTypes
<1>8. \A u \in Threads : u # t => m \notin holds[u]
  BY <1>1, <1>2 DEF ClaimInv, MutualExclusion
\* Afterwards each claim but that of the caller is still there.
<1>9. /\ \A u \in Threads, k \in Handles :
           \/ k \in holds'[u]
           \/ u \in ToSet(wait)' /\ mu[u] = k
           <=> /\ \/ k \in holds[u]
                  \/ u \in ToSet(wait) /\ mu[u] = k
               /\ ~(u = t /\ k = m)
      /\ \A u \in Threads : blocked'[u] # "no" <=> u \in ToSet(wait)'
      /\ \A u \in Threads : blocked'[u] # "no" => blocked'[u] = blocked[u] /\ holds'[u] = holds[u]
      /\ \A u \in Threads : holds'[u] \subseteq mutexes /\ (holds'[u] # {} => u \in live)
      /\ MutualExclusion'
      /\ \A u \in Threads : blocked'[u] = "lock" /\ mu[u] = m =>
           \E v \in Threads \ {u} : m \in holds'[v]
      /\ \A u \in Threads : blocked[u] = "join" => blocked'[u] = "join"
  <2>1. CASE /\ count[m] = 1 \/ NoWaiter(m)
             /\ holds' = given
             /\ UNCHANGED <<ready, wait, blocked>>
    <3>1. \A u \in ToSet(wait) : mu[u] # m
      <4>1. CASE NoWaiter(m)
        <5>1. DOMAIN wait = 1 .. Len(wait)
          BY LenProperties DEF ClaimInv, OwnerInv, QueueInv, TypeOK
        <5> QED BY <4>1, <5>1 DEF NoWaiter, ToSet
      <4>2. CASE count[m] = 1
        <5>1. Cardinality(Claims(m) \ {t}) = 0
          BY <1>3, <4>2, CountFacts
        <5>2. IsFiniteSet(Claims(m) \ {t})
          BY ClaimsFinite, FS_RemoveElement
        <5>3. Claims(m) \ {t} = {}
          BY <5>1, <5>2, FS_EmptySet
        <5> QED BY <1>2, <5>3, WaitersLive DEF Claims
      <4> QED BY <2>1, <4>1, <4>2
    <3>2. \A u \in Threads : holds'[u] = IF u = t THEN holds[u] \ {m} ELSE holds[u]
      BY <1>7, <2>1
    <3>3. UNCHANGED <<wait, blocked>>
      BY <2>1
    <3>4. \A u \in Threads : blocked[u] # "no" <=> u \in ToSet(wait)
      BY DEF ClaimInv, WaitInv
    <3>5. MutualExclusion'
      BY <3>2 DEF ClaimInv, MutualExclusion
    <3>6. \A u \in Threads : holds'[u] \subseteq mutexes /\ (holds'[u] # {} => u \in live)
      BY <3>2 DEF ClaimInv, HoldInv
    <3>7. \A u \in Threads : blocked[u] # "no" => holds'[u] = holds[u]
      BY <1>2, <3>2
    <3>8. \A u \in Threads, k \in Handles :
            \/ k \in holds'[u]
            \/ u \in ToSet(wait)' /\ mu[u] = k
            <=> /\ \/ k \in holds[u]
                   \/ u \in ToSet(wait) /\ mu[u] = k
                /\ ~(u = t /\ k = m)
      BY <1>2, <1>8, <3>1, <3>2, <3>3
    <3> QED BY <3>1, <3>3, <3>4, <3>5, <3>6, <3>7, <3>8
  <2>2. ASSUME NEW i \in 1 .. Len(wait),
               FirstWaiter(m, i),
               wait' = RemoveAt(wait, i),
               blocked' = [blocked EXCEPT ![wait[i]] = "no"],
               holds' = IF blocked[wait[i]] = "lock"
                        THEN [given EXCEPT ![wait[i]] = @ \cup {m}]
                        ELSE given
        PROVE  <1>9!1 /\ <1>9!2 /\ <1>9!3 /\ <1>9!4 /\ <1>9!5 /\ <1>9!6 /\ <1>9!7
    <3> DEFINE w == wait[i]
    <3>1. /\ w \in Threads
          /\ w \in ToSet(wait)
          /\ ToSet(wait)' = ToSet(wait) \ {w}
      BY <2>2, QueuesWellFormed, RemoveAtToSet DEF Queues, ClaimInv, OwnerInv
    <3>2. w # t /\ mu[w] = m /\ blocked[w] = "lock" /\ w \in live
      <4>1. w # t /\ mu[w] = m /\ w \in live
        BY <1>2, <2>2, <3>1, WaitersLive DEF FirstWaiter
      <4>2. blocked[w] # "join"
        BY <1>3, <3>1, <4>1 DEF ClaimInv, WaitInv, Owners
      <4> QED BY <3>1, <4>1, <4>2, ClaimTypes DEF ClaimInv, WaitInv
    <3>3. holds' = [given EXCEPT ![w] = @ \cup {m}]
      BY <2>2, <3>2
    <3>4. \A u \in Threads : holds'[u] = IF u = t THEN holds[u] \ {m}
                                        ELSE IF u = w THEN holds[u] \cup {m} ELSE holds[u]
      <4> HIDE DEF given, w, t
      <4> QED BY <1>7, <3>1, <3>2, <3>3
    <3>5. \A u \in Threads : blocked'[u] = IF u = w THEN "no" ELSE blocked[u]
      BY <2>2, <3>1, ClaimTypes
    <3> HIDE DEF given, w, t
    <3>6. \A u \in Threads : blocked'[u] # "no" <=> u \in ToSet(wait)'
      BY <3>1, <3>5 DEF ClaimInv, WaitInv
    <3>7. MutualExclusion'
      <4>1. \A u, v \in Threads : u # v => holds[u] \cap holds[v] = {}
        BY DEF ClaimInv, MutualExclusion
      <4>2. ASSUME NEW u \in Threads, NEW v \in Threads, u # v
            PROVE  holds'[u] \cap holds'[v] = {}
        <5>1. CASE u # w /\ v # w
          BY <3>4, <4>1, <4>2, <5>1
        <5>2. CASE u = w
          BY <1>8, <3>4, <4>1, <4>2, <5>2
        <5>3. CASE v = w
          BY <1>8, <3>4, <4>1, <4>2, <5>3
        <5> QED BY <5>1, <5>2, <5>3
      <4> QED BY <4>2 DEF MutualExclusion
    <3>8. \A u \in Threads : holds'[u] \subseteq mutexes /\ (holds'[u] # {} => u \in live)
      <4>1. \A u \in Threads : holds[u] \subseteq mutexes /\ (holds[u] # {} => u \in live)
        BY DEF ClaimInv, HoldInv
      <4>2. mutexes' = mutexes /\ live' = live /\ m \in mutexes /\ w \in live
        BY <1>1, <1>3, <3>2
      <4> SUFFICES ASSUME NEW u \in Threads
                   PROVE  holds'[u] \subseteq mutexes /\ (holds'[u] # {} => u \in live)
        OBVIOUS
      <4>3. CASE u = t
        BY <3>4, <4>1, <4>3
      <4>4. CASE u # t /\ u = w
        BY <3>4, <4>1, <4>2, <4>4
      <4>5. CASE u # t /\ u # w
        BY <3>4, <4>1, <4>5
      <4> QED BY <4>3, <4>4, <4>5
    <3>9. \A u \in Threads : blocked'[u] # "no" => blocked'[u] = blocked[u] /\ holds'[u] = holds[u]
      BY <1>2, <3>4, <3>5
    <3>10. \A u \in Threads, k \in Handles :
            \/ k \in holds'[u]
            \/ u \in ToSet(wait)' /\ mu[u] = k
            <=> /\ \/ k \in holds[u]
                   \/ u \in ToSet(wait) /\ mu[u] = k
                /\ ~(u = t /\ k = m)
      BY <1>1, <1>2, <1>8, <3>1, <3>2, <3>4
    <3>11. \A u \in Threads : blocked'[u] = "lock" /\ mu[u] = m =>
             \E v \in Threads \ {u} : m \in holds'[v]
      BY <3>1, <3>2, <3>4, <3>5
    <3>12. \A u \in Threads : blocked[u] = "join" => blocked'[u] = "join"
      BY <3>2, <3>5
    <3> QED BY <3>6, <3>7, <3>8, <3>9, <3>10, <3>11, <3>12
  <2> QED BY <1>5, <2>1, <2>2
<1> HIDE DEF given, t
<1>10. CountIsClaims'
  <2> SUFFICES ASSUME NEW k \in Handles
               PROVE  count'[k] = IF used'[k] THEN Cardinality(Claims(k)') ELSE 0
    BY DEF CountIsClaims
  <2>1. CASE k = m
    <3>1. Claims(k)' = Claims(k) \ {t}
      BY <1>1, <1>3, <1>6, <1>9, <2>1 DEF Claims
    <3>2. Cardinality(Claims(k) \ {t}) = count[k] - 1
      BY <1>3, <2>1, CountFacts
    <3> QED BY <1>1, <1>3, <1>5, <2>1, <3>1, <3>2, ClaimTypes
  <2>2. CASE k # m
    <3>1. Claims(k)' = Claims(k)
      BY <1>1, <1>6, <1>9, <2>2 DEF Claims
    <3> QED BY <1>1, <1>5, <2>2, <3>1, ClaimTypes DEF ClaimInv, CountIsClaims
  <2> QED BY <2>1, <2>2
<1>11. WaitInv'
  BY <1>1, <1>9 DEF ClaimInv, WaitInv
<1>12. HoldInv' /\ JoinInv'
  <2>1. HoldInv'
    BY <1>1, <1>9 DEF HoldInv
  <2>2. JoinInv'
    <3>1. \A u \in Threads : blocked'[u] = "join" => blocked[u] = "join"
      BY <1>9
    <3> QED BY <1>1, <3>1 DEF ClaimInv, JoinInv
  <2> QED BY <2>1, <2>2
<1>13. WaitsForSomeone'
  <2> SUFFICES ASSUME NEW u \in ToSet(wait)'
               PROVE  /\ blocked'[u] = "lock" => \E v \in Threads \ {u} : mu'[u] \in holds'[v]
                      /\ blocked'[u] = "join" =>
                           target'[u] \in live' /\ tid'[target'[u]] = mu'[u]
    BY DEF WaitsForSomeone
  <2>1. u \in Threads
    <3>1. wait' \in Seq(Threads)
      BY DEF OwnerInv, QueueInv, TypeOK
    <3>2. DOMAIN wait' = 1 .. Len(wait')
      BY <3>1, LenProperties
    <3> QED BY <3>1, <3>2, ElementOfSeq DEF ToSet
  <2>2. ASSUME blocked'[u] = "lock"
        PROVE  \E v \in Threads \ {u} : mu'[u] \in holds'[v]
    <3>1. CASE mu[u] = m
      BY <1>1, <1>9, <2>1, <2>2, <3>1
    <3>2. CASE mu[u] # m
      <4>1. blocked[u] = "lock" /\ u \in ToSet(wait) /\ mu[u] \in Handles
        BY <1>9, <2>1, <2>2, ClaimTypes DEF ClaimInv, WaitInv
      <4>2. PICK v \in Threads \ {u} : mu[u] \in holds[v]
        BY <4>1 DEF ClaimInv, WaitsForSomeone
      <4>3. mu[u] \in holds'[v]
        <5>1. v \in ToSet(wait)' => holds'[v] = holds[v]
          BY <1>9, <4>2
        <5>2. mu[u] \in holds'[v] \/ v \in ToSet(wait)'
          BY <1>9, <3>2, <4>1, <4>2
        <5> QED BY <4>2, <5>1, <5>2
      <4> QED BY <1>1, <4>2, <4>3
    <3> QED BY <3>1, <3>2
  <2>3. blocked'[u] = "join" => target'[u] \in live' /\ tid'[target'[u]] = mu'[u]
    BY <1>11, <2>1 DEF WaitInv
  <2> QED BY <2>2, <2>3
<1>14. NobodyStranded'
  <2>1. inited => current # Null
    BY <1>1 DEF ClaimInv, OwnerInv, QueueInv, Scheduled
  <2> QED BY <1>1, <2>1 DEF NobodyStranded
<1> QED BY <1>9, <1>10, <1>11, <1>12, <1>13, <1>14 DEF ClaimInv

\* Nobody claims a handle that is free.
LEMMA FreeIsUnclaimed ==
  ASSUME ClaimInv, NEW h \in Handles, ~used[h]
  PROVE  h \notin mutexes /\ Claims(h) = {}
<1>1. h \notin mutexes /\ Owners(h) = {}
  BY HandleFacts
<1>2. \A t \in Threads : h \notin holds[t]
  BY <1>1 DEF ClaimInv, HoldInv
<1>3. ASSUME NEW t \in Threads, t \in ToSet(wait), mu[t] = h
      PROVE  FALSE
  <2>1. CASE blocked[t] = "lock"
    BY <1>1, <1>3, <2>1 DEF ClaimInv, WaitInv
  <2>2. CASE blocked[t] = "join"
    BY <1>1, <1>3, <2>2 DEF ClaimInv, WaitInv, Owners
  <2> QED BY <1>3, <2>1, <2>2, ClaimTypes DEF ClaimInv, WaitInv
<1> QED BY <1>1, <1>2, <1>3 DEF Claims

\* A new thread has one claim, that of its own handle.
LEMMA ClaimCreate ==
  ASSUME ClaimInv, OwnerInv', NEW t \in Threads, my_pthread_create(t)
  PROVE  ClaimInv'
<1>1. /\ t \notin live /\ t # Main /\ halt = "no"
      /\ inited' = TRUE
      /\ mu' = [mu EXCEPT ![t] = 0]
      /\ live' = live \cup {t}
      /\ UNCHANGED <<wait, halt, mutexes, holds, blocked, target>>
  BY DEF my_pthread_create, history
<1>2. PICK g \in IF inited THEN {tid[Main]} ELSE MainTids, h \in Handles :
        /\ AllocMutex(h)
        /\ used' = [used EXCEPT ![h] = TRUE]
        /\ count' = [count EXCEPT ![h] = 1]
        /\ tid' = [tid EXCEPT ![Main] = g, ![t] = h]
        /\ unjoined' = [unjoined EXCEPT ![h] = "fresh"]
  BY DEF my_pthread_create
<1>3. ~used[h] /\ h \notin mutexes /\ Claims(h) = {}
  BY <1>2, FreeIsUnclaimed DEF AllocMutex
<1>4. t \notin ToSet(wait) /\ blocked[t] = "no" /\ holds[t] = {}
  BY <1>1, WaitersLive DEF ClaimInv, WaitInv, HoldInv
<1>5. /\ \A u \in Threads : u # t => mu'[u] = mu[u]
      /\ \A u \in Threads : u # t /\ u # Main => tid'[u] = tid[u]
      /\ tid'[t] = h
      /\ \A k \in Handles : k # h =>
           used'[k] = used[k] /\ count'[k] = count[k] /\ unjoined'[k] = unjoined[k]
      /\ used'[h] /\ count'[h] = 1 /\ unjoined'[h] = "fresh"
  BY <1>1, <1>2, ClaimTypes
<1>6. \A u \in Threads, k \in Handles :
        u \in Owners(k)' <=> u \in Owners(k) \/ (u = t /\ k = h)
  <2> SUFFICES ASSUME NEW u \in Threads, NEW k \in Handles
               PROVE  u \in Owners(k)' <=> u \in Owners(k) \/ (u = t /\ k = h)
    OBVIOUS
  <2>1. CASE u = t
    BY <1>1, <1>5, <2>1 DEF Owners
  <2>2. CASE u # t
    BY <1>1, <1>5, <2>2 DEF Owners
  <2> QED BY <2>1, <2>2
<1>7. CountIsClaims'
  <2> SUFFICES ASSUME NEW k \in Handles
               PROVE  count'[k] = IF used'[k] THEN Cardinality(Claims(k)') ELSE 0
    BY DEF CountIsClaims
  <2>1. CASE k = h
    <3>1. Claims(k)' = {t}
      BY <1>1, <1>3, <1>4, <1>5, <1>6, <2>1 DEF Claims
    <3>2. Cardinality({t}) = 1
      BY FS_Singleton
    <3> QED BY <1>5, <2>1, <3>1, <3>2
  <2>2. CASE k # h
    <3>1. Claims(k)' = Claims(k)
      BY <1>1, <1>4, <1>5, <1>6, <2>2 DEF Claims
    <3> QED BY <1>5, <2>2, <3>1 DEF ClaimInv, CountIsClaims
  <2> QED BY <2>1, <2>2
<1>8. WaitInv'
  <2> SUFFICES ASSUME NEW u \in Threads
               PROVE  /\ blocked'[u] # "no" <=> u \in ToSet(wait)'
                      /\ blocked'[u] = "lock" =>
                           mu'[u] \in mutexes' /\ \A n \in holds'[u] : n < mu'[u]
                      /\ blocked'[u] = "join" =>
                           /\ u \in Joiners /\ holds'[u] = {}
                           /\ target'[u] \in live' \ ({Main} \cup Joiners)
                           /\ tid'[target'[u]] = mu'[u]
                           /\ unjoined'[mu'[u]] = "no"
    BY DEF WaitInv
  <2>1. CASE u = t
    BY <1>1, <1>4, <2>1
  <2>2. CASE u # t /\ blocked[u] # "join"
    BY <1>1, <1>5, <2>2 DEF ClaimInv, WaitInv
  <2>3. CASE u # t /\ blocked[u] = "join"
    <3>1. target[u] \in live \ ({Main} \cup Joiners) /\ tid[target[u]] = mu[u]
      BY <2>3 DEF ClaimInv, WaitInv
    <3>2. target[u] \in Threads /\ target[u] # t
      BY <1>1, <3>1, WaitersLive
    <3>3. target[u] \in Owners(mu[u]) /\ mu[u] \in Handles
      BY <3>1, ClaimTypes DEF Owners
    <3>4. mu[u] # h
      BY <1>3, <3>3, HandleFacts
    <3> QED BY <1>1, <1>5, <2>3, <3>1, <3>2, <3>3, <3>4 DEF ClaimInv, WaitInv
  <2> QED BY <2>1, <2>2, <2>3
<1>9. HoldInv' /\ MutualExclusion'
  BY <1>1 DEF ClaimInv, HoldInv, MutualExclusion
<1>10. JoinInv'
  <2>1. \A u \in Threads : blocked'[u] = "join" => blocked[u] = "join" /\ mu'[u] = mu[u]
    BY <1>1, <1>4, <1>5
  <2> QED BY <1>1, <1>3, <1>5, <2>1 DEF ClaimInv, JoinInv
<1>11. WaitsForSomeone'
  <2> SUFFICES ASSUME NEW u \in ToSet(wait)'
               PROVE  /\ blocked'[u] = "lock" => \E v \in Threads \ {u} : mu'[u] \in holds'[v]
                      /\ blocked'[u] = "join" =>
                           target'[u] \in live' /\ tid'[target'[u]] = mu'[u]
    BY DEF WaitsForSomeone
  <2>1. u \in ToSet(wait) /\ u \in Threads /\ u # t
    BY <1>1, <1>4, WaitersLive
  <2>2. blocked'[u] = "lock" => \E v \in Threads \ {u} : mu'[u] \in holds'[v]
    BY <1>1, <1>5, <2>1 DEF ClaimInv, WaitsForSomeone
  <2> QED BY <1>8, <2>1, <2>2 DEF WaitInv
<1>12. NobodyStranded'
  BY <1>1 DEF OwnerInv, QueueInv, Scheduled, NobodyStranded
<1> QED BY <1>7, <1>8, <1>9, <1>10, <1>11, <1>12 DEF ClaimInv

\* A new mutex is a handle that nobody claims, and so is one that the rules let
\* the program destroy.
LEMMA ClaimMutex ==
  ASSUME KeepsRules, ClaimInv, OwnerInv',
         my_pthread_mutex_init \/ \E m \in Handles : my_pthread_mutex_destroy(m)
  PROVE  ClaimInv'
<1>1. PICK h \in Handles :
        /\ Claims(h) = {}
        /\ mutexes' = mutexes \cup {h} \/ mutexes' = mutexes \ {h}
        /\ \A k \in Handles : k # h => used'[k] = used[k] /\ count'[k] = count[k]
        /\ count'[h] = 0
        /\ \A k \in Handles : unjoined'[k] # "no" =>
                unjoined'[k] = unjoined[k] /\ (k = h => h \notin mutexes')
  <2>1. CASE my_pthread_mutex_init
    <3>1. PICK h \in Handles :
            /\ AllocMutex(h)
            /\ used' = [used EXCEPT ![h] = TRUE]
            /\ count' = [count EXCEPT ![h] = 0]
            /\ mutexes' = mutexes \cup {h}
            /\ unjoined' = [unjoined EXCEPT ![h] = "no"]
      BY <2>1 DEF my_pthread_mutex_init, KeepsRules, May
    <3>2. Claims(h) = {}
      BY <3>1, FreeIsUnclaimed DEF AllocMutex
    <3> QED BY <3>1, <3>2, ClaimTypes
  <2>2. ASSUME NEW m \in Handles, my_pthread_mutex_destroy(m)
        PROVE  \E h \in Handles :
                 /\ Claims(h) = {}
                 /\ mutexes' = mutexes \cup {h} \/ mutexes' = mutexes \ {h}
                 /\ \A k \in Handles : k # h => used'[k] = used[k] /\ count'[k] = count[k]
                 /\ count'[h] = 0
                 /\ \A k \in Handles : unjoined'[k] # "no" =>
                         unjoined'[k] = unjoined[k] /\ (k = h => h \notin mutexes')
    <3>1. /\ Claims(m) = {}
          /\ m \in mutexes
          /\ used' = [used EXCEPT ![m] = FALSE]
          /\ count' = IF used[m] THEN [count EXCEPT ![m] = 0] ELSE count
          /\ mutexes' = mutexes \ {m}
          /\ UNCHANGED unjoined
      BY <2>2 DEF my_pthread_mutex_destroy, KeepsRules, May
    <3>2. used[m]
      BY <3>1, HandleFacts
    <3> QED BY <3>1, <3>2, ClaimTypes
  <2> QED BY <2>1, <2>2
<1>2. UNCHANGED <<inited, current, wait, tid, mu, live, holds, blocked, target>>
  BY DEF my_pthread_mutex_init, my_pthread_mutex_destroy, queues, info, history
<1>3. \A k \in Handles : Claims(k)' = Claims(k)
  BY <1>2 DEF Claims, Owners
<1>4. CountIsClaims'
  <2> SUFFICES ASSUME NEW k \in Handles
               PROVE  count'[k] = IF used'[k] THEN Cardinality(Claims(k)') ELSE 0
    BY DEF CountIsClaims
  <2>1. CASE k = h
    <3>1. Cardinality(Claims(k)') = 0
      BY <1>1, <1>3, <2>1, FS_EmptySet
    <3> QED BY <1>1, <2>1, <3>1
  <2>2. CASE k # h
    BY <1>1, <1>3, <2>2 DEF ClaimInv, CountIsClaims
  <2> QED BY <2>1, <2>2
<1>5. \A u \in Threads : h \notin holds[u] /\ (u \in ToSet(wait) => mu[u] # h)
  BY <1>1 DEF Claims
<1>6. WaitInv'
  <2>1. \A k \in Handles : unjoined[k] = "no" => unjoined'[k] = "no"
    BY <1>1
  <2>2. \A u \in Threads : blocked[u] = "lock" => mu[u] \in mutexes'
    BY <1>1, <1>5 DEF ClaimInv, WaitInv
  <2> QED BY <1>2, <2>1, <2>2, ClaimTypes DEF ClaimInv, WaitInv
<1>7. HoldInv'
  BY <1>1, <1>2, <1>5 DEF ClaimInv, HoldInv
<1>8. JoinInv'
  <2> SUFFICES ASSUME NEW k \in Handles, unjoined'[k] # "no"
               PROVE  unjoined'[k] = "fresh" /\ k \notin mutexes'
    BY <1>2 DEF ClaimInv, JoinInv
  <2>1. unjoined'[k] = unjoined[k] /\ (k = h => h \notin mutexes')
    BY <1>1
  <2> QED BY <1>1, <2>1 DEF ClaimInv, JoinInv
<1>9. MutualExclusion' /\ WaitsForSomeone' /\ NobodyStranded'
  BY <1>2 DEF ClaimInv, MutualExclusion, WaitsForSomeone, NobodyStranded
<1> QED BY <1>4, <1>6, <1>7, <1>8, <1>9 DEF ClaimInv

\* Before the first call nobody claims anything.
LEMMA ClaimInvInit == Init => ClaimInv
<1> SUFFICES ASSUME Init PROVE ClaimInv
  OBVIOUS
<1>1. ToSet(<<>>) = {}
  BY DEF ToSet
<1>2. WaitInv /\ HoldInv /\ JoinInv /\ MutualExclusion /\ WaitsForSomeone /\ NobodyStranded
  BY <1>1 DEF Init, WaitInv, HoldInv, JoinInv, MutualExclusion, WaitsForSomeone, NobodyStranded
<1>3. CountIsClaims
  BY DEF Init, CountIsClaims
<1> QED BY <1>2, <1>3, OwnerInvInit DEF ClaimInv

\* The steps that only schedule or end the process.
LEMMA ClaimOthers ==
  ASSUME ClaimInv, OwnerInv',
         \/ timer_handler \/ my_pthread_yield \/ my_pthread_init
         \/ CreateTableFull \/ InitTableFull \/ UNCHANGED vars
  PROVE  ClaimInv' /\ UNCHANGED blocked
<1>1. UNCHANGED <<wait, table, mu, live, program, history>>
  BY DEF timer_handler, my_pthread_yield, my_pthread_init, CreateTableFull,
         InitTableFull, vars, queues, info
<1>2. \A t \in Threads : t # Main => tid'[t] = tid[t]
  <2>1. CASE my_pthread_init
    BY <2>1, ClaimTypes DEF my_pthread_init
  <2>2. CASE UNCHANGED tid
    BY <2>2
  <2> QED BY <2>1, <2>2 DEF timer_handler, my_pthread_yield, CreateTableFull,
                            InitTableFull, vars, info
<1>3. NobodyStranded'
  <2>1. CASE inited' => current' # Null
    BY <2>1 DEF NobodyStranded
  <2>2. CASE UNCHANGED <<inited, queues>>
    BY <2>2 DEF queues, ClaimInv, NobodyStranded
  <2>3. CASE ~inited' \/ halt' = "no"
    BY <2>1, <2>3 DEF OwnerInv, QueueInv, Scheduled
  <2> QED BY <2>2, <2>3 DEF timer_handler, my_pthread_yield, my_pthread_init,
                            CreateTableFull, InitTableFull, vars
<1>4. UNCHANGED blocked
  BY <1>1 DEF history
<1> QED BY <1>1, <1>2, <1>3, <1>4, ClaimFrame

\* Every step of a program that keeps to the rules keeps ClaimInv.
LEMMA ClaimInvStep ==
  ASSUME KeepsRules, ClaimInv, [Next]_vars
  PROVE  /\ ClaimInv'
         /\ \A t \in Threads :
              blocked[t] = "join" /\ blocked'[t] = "no" => target[t] \notin live'
<1>1. OwnerInv'
  BY OwnerInvStep DEF ClaimInv, KeepsRules
<1>2. CASE \/ timer_handler \/ my_pthread_yield \/ my_pthread_init
           \/ CreateTableFull \/ InitTableFull \/ UNCHANGED vars
  BY <1>1, <1>2, ClaimOthers
<1>3. ASSUME NEW t \in Threads, my_pthread_create(t)
      PROVE  ClaimInv' /\ UNCHANGED blocked
  BY <1>1, <1>3, ClaimCreate DEF my_pthread_create, history
<1>4. CASE thread_stub \/ my_pthread_exit
  <2>1. Exit /\ (Running = Main => MainTids = {0})
    BY <1>4 DEF thread_stub, my_pthread_exit, KeepsRules, MainIsHarmless
  <2> QED BY <1>1, <2>1, ClaimExit
<1>5. CASE \E h \in Handles : my_pthread_join(h)
  BY <1>1, <1>5, ClaimJoin
<1>6. CASE my_pthread_mutex_init \/ \E m \in Handles : my_pthread_mutex_destroy(m)
  BY <1>1, <1>6, ClaimMutex DEF my_pthread_mutex_init, my_pthread_mutex_destroy, history
<1>7. CASE \E m \in Handles : my_pthread_mutex_lock(m)
  BY <1>1, <1>7, ClaimLock
<1>8. CASE \E m \in Handles : my_pthread_mutex_unlock(m)
  BY <1>1, <1>8, ClaimUnlock
<1> QED BY <1>2, <1>3, <1>4, <1>5, <1>6, <1>7, <1>8 DEF Next

\* A program that keeps to the rules never leaves ClaimInv.
LEMMA RulesKept ==
  ASSUME KeepsRules
  PROVE  Spec => []ClaimInv
<1>1. ClaimInv /\ [Next]_vars => ClaimInv'
  BY ClaimInvStep
<1> QED BY <1>1, ClaimInvInit, PTL DEF Spec

\* Two threads never hold one mutex, whether it was free, or came from an unlock,
\* or the wait for it found nobody to run.
THEOREM MutexesExclude ==
  ASSUME KeepsRules
  PROVE  Spec => []MutualExclusion
<1>1. ClaimInv => MutualExclusion
  BY DEF ClaimInv
<1> QED BY <1>1, RulesKept, PTL

\* The count of a handle is the number of its owner, holders and waiters: no unlock
\* and no exit forgets a waiter, and no lock waits for nobody.
THEOREM CountsAreClaims ==
  ASSUME KeepsRules
  PROVE  Spec => []CountIsClaims
<1>1. ClaimInv => CountIsClaims
  BY DEF ClaimInv
<1> QED BY <1>1, RulesKept, PTL

\* A thread in the wait queue waits for a mutex that another thread holds, or for a
\* thread that lives: no wake-up was lost.
THEOREM NoWakeUpLost ==
  ASSUME KeepsRules
  PROVE  Spec => []WaitsForSomeone
<1>1. ClaimInv => WaitsForSomeone
  BY DEF ClaimInv
<1> QED BY <1>1, RulesKept, PTL

\* The process does not end for want of a thread to schedule while one waits: with
\* mutexes locked in order and joiners that nobody joins there is no deadlock.
THEOREM NobodyIsStranded ==
  ASSUME KeepsRules
  PROVE  Spec => []NobodyStranded
<1>1. ClaimInv => NobodyStranded
  BY DEF ClaimInv
<1> QED BY <1>1, RulesKept, PTL

\* my_pthread_join does not return before the thread it joins has exited: the thread
\* is gone when the joiner is woken, and a join that returns at once had none to wait
\* for, because while one lives the ready queue is not empty.
THEOREM JoinWaitsForExit ==
  ASSUME KeepsRules
  PROVE  Spec => JoinedIsGone
<1>1. ClaimInv /\ [Next]_vars =>
        [/\ \A t \in Threads :
              blocked[t] = "join" /\ blocked'[t] = "no" => target[t] \notin live'
         /\ \A h \in Handles :
              my_pthread_join(h) /\ blocked'[Running] = "no" => Owners(h) = {}]_vars
  <2> SUFFICES ASSUME ClaimInv, [Next]_vars
               PROVE  /\ \A t \in Threads :
                           blocked[t] = "join" /\ blocked'[t] = "no" => target[t] \notin live'
                      /\ \A h \in Handles :
                           my_pthread_join(h) /\ blocked'[Running] = "no" => Owners(h) = {}
    OBVIOUS
  <2>1. OwnerInv'
    BY OwnerInvStep DEF ClaimInv, KeepsRules
  <2> QED BY <2>1, ClaimInvStep, ClaimJoin
<1> QED BY <1>1, RulesKept, PTL DEF Spec, JoinedIsGone

-----------------------------------------------------------------------------
(* Pthread implements MutexService. *)

\* What the service sees.
Owner   == [m \in Mutexes |-> Holder(m)]
Waiting == [m \in Mutexes |-> LockWaiters(m)]
View    == <<Owner, Waiting, LockQueue>>

\* The holder of a mutex that one thread has.
LEMMA TheHolder ==
  ASSUME NEW H, NEW m, NEW t \in Threads, m \in H[t],
         \A u \in Threads : m \in H[u] => u = t
  PROVE  (IF \E u \in Threads : m \in H[u]
          THEN CHOOSE u \in Threads : m \in H[u] ELSE Null) = t
OBVIOUS

\* A step that leaves the holders and the waiters for mutexes alone is no step of
\* the service.
LEMMA ViewKept ==
  ASSUME UNCHANGED holds,
         \A t \in Threads : /\ blocked'[t] = "lock" <=> blocked[t] = "lock"
                            /\ blocked[t] = "lock" => mu'[t] = mu[t],
         \A t, u \in Threads :
           blocked[t] = "lock" /\ blocked[u] = "lock" => (Precedes(wait', t, u) <=> Precedes(wait, t, u))
  PROVE  UNCHANGED View
<1>1. \A m \in Mutexes : Holder(m)' = Holder(m) /\ LockWaiters(m)' = LockWaiters(m)
  BY DEF Holder, LockWaiters
<1>2. LockQueue' = LockQueue
  <2> SUFFICES ASSUME NEW p \in Threads \X Threads
               PROVE  p \in LockQueue' <=> p \in LockQueue
    BY DEF LockQueue
  <2>1. CASE \E m \in Mutexes : {p[1], p[2]} \subseteq LockWaiters(m)
    <3>1. blocked[p[1]] = "lock" /\ blocked[p[2]] = "lock"
      BY <2>1 DEF LockWaiters
    <3> QED BY <1>1, <2>1, <3>1 DEF LockQueue, Precedes
  <2>2. CASE ~\E m \in Mutexes : {p[1], p[2]} \subseteq LockWaiters(m)
    BY <1>1, <2>2 DEF LockQueue
  <2> QED BY <2>1, <2>2
<1>3. UNCHANGED <<Owner, Waiting>>
  BY <1>1 DEF Owner, Waiting, Mutexes, Handles
<1> QED BY <1>2, <1>3 DEF View

\* The queue of a mutex is made of waiters.
LEMMA QueueHasWaiters ==
  ASSUME NEW x \in Threads, NEW y \in Threads, ClaimInv
  PROVE  <<x, y>> \in LockQueue <=> /\ blocked[x] = "lock" /\ blocked[y] = "lock"
                                    /\ mu[x] = mu[y]
                                    /\ Precedes(wait, x, y)
<1>1. blocked[x] = "lock" => mu[x] \in Mutexes
  BY HandleFacts, ClaimTypes DEF ClaimInv, WaitInv, Mutexes
<1> QED BY <1>1 DEF LockQueue, LockWaiters, Precedes

\* A lock of a free mutex is Acquire.
LEMMA LockAcquires ==
  ASSUME NEW t \in Threads, NEW m \in Mutexes,
         holds \in [Threads -> SUBSET Handles],
         \A u \in Threads : m \notin holds[u],
         holds' = [holds EXCEPT ![t] = @ \cup {m}],
         UNCHANGED <<wait, mu, blocked>>
  PROVE  Service!Acquire(t, m)
<1>1. \A n \in Mutexes : LockWaiters(n)' = LockWaiters(n)
  BY DEF LockWaiters
<1>2. UNCHANGED <<Waiting, LockQueue>>
  BY <1>1 DEF Waiting, LockQueue, Mutexes, Handles
<1>3. /\ \A u \in Threads : u # t => holds'[u] = holds[u]
      /\ holds'[t] = holds[t] \cup {m}
  OBVIOUS
<1>4. Holder(m) = Null
  BY DEF Holder
<1>5. Holder(m)' = t
  BY <1>3, TheHolder DEF Holder
<1>6. \A n \in Mutexes : n # m => Holder(n)' = Holder(n)
  BY <1>3 DEF Holder
<1>7. Owner' = [Owner EXCEPT ![m] = t] /\ Owner[m] = Null
  BY <1>4, <1>5, <1>6 DEF Owner, Mutexes, Handles
<1> QED BY <1>2, <1>7 DEF Service!Acquire, Owner, Waiting

\* A lock of a mutex that another thread holds is Enqueue.
LEMMA LockEnqueues ==
  ASSUME ClaimInv, ClaimInv', NEW t \in Threads, NEW m \in Mutexes, NEW v \in Threads \ {t},
         m \in holds[v], blocked[t] = "no", t \notin ToSet(wait),
         wait' = Append(wait, t),
         mu' = [mu EXCEPT ![t] = m],
         blocked' = [blocked EXCEPT ![t] = "lock"],
         UNCHANGED <<holds, mutexes>>
  PROVE  Service!Enqueue(t, m)
<1>1. /\ mu'[t] = m /\ blocked'[t] = "lock"
      /\ \A u \in Threads : u # t => mu'[u] = mu[u] /\ blocked'[u] = blocked[u]
      /\ wait \in Seq(Threads)
  BY ClaimTypes DEF ClaimInv, OwnerInv, QueueInv, TypeOK
<1>2. \A n \in Mutexes : Holder(n)' = Holder(n)
  BY DEF Holder
<1>3. UNCHANGED Owner
  BY <1>2 DEF Owner, Mutexes, Handles
<1>4. Owner[m] = v
  <2>1. \A u \in Threads : m \in holds[u] => u = v
    BY DEF ClaimInv, MutualExclusion
  <2>2. Holder(m) = v
    BY <2>1, TheHolder DEF Holder
  <2> QED BY <2>2 DEF Owner
<1>5. \A n \in Mutexes : t \notin Waiting[n]
  BY DEF Waiting, LockWaiters
<1>6. Waiting' = [Waiting EXCEPT ![m] = @ \cup {t}]
  <2>1. \A n \in Mutexes : LockWaiters(n)' = IF n = m THEN LockWaiters(n) \cup {t} ELSE LockWaiters(n)
    BY <1>1 DEF LockWaiters
  <2> QED BY <2>1 DEF Waiting, Mutexes, Handles
<1>7. LockQueue' = LockQueue \cup (Waiting[m] \X {t})
  <2>1. \A x, y : Precedes(wait', x, y) <=> Precedes(wait, x, y) \/ (x \in ToSet(wait) /\ y = t)
    BY <1>1, AppendOrder
  <2>2. ASSUME NEW x \in Threads, NEW y \in Threads
        PROVE  <<x, y>> \in LockQueue' <=> <<x, y>> \in LockQueue \/ (x \in Waiting[m] /\ y = t)
    <3>1. <<x, y>> \in LockQueue' <=>
            /\ blocked'[x] = "lock" /\ blocked'[y] = "lock"
            /\ mu'[x] = mu'[y]
            /\ Precedes(wait', x, y)
      <4>1. blocked'[x] = "lock" => mu'[x] \in Mutexes
        BY <1>1, HandleFacts, ClaimTypes DEF ClaimInv, WaitInv, Mutexes
      <4> QED BY <4>1 DEF LockQueue, LockWaiters, Precedes
    <3>2. <<x, y>> \in LockQueue <=> /\ blocked[x] = "lock" /\ blocked[y] = "lock"
                                      /\ mu[x] = mu[y]
                                      /\ Precedes(wait, x, y)
      BY QueueHasWaiters
    <3>3. x \in Waiting[m] <=> blocked[x] = "lock" /\ mu[x] = m
      BY DEF Waiting, LockWaiters
    <3>4. blocked[x] = "lock" => x \in ToSet(wait)
      BY DEF ClaimInv, WaitInv
    <3>5. Precedes(wait, x, y) => x \in ToSet(wait) /\ y \in ToSet(wait)
      <4>1. DOMAIN wait = 1 .. Len(wait)
        BY <1>1, LenProperties
      <4> QED BY <4>1 DEF Precedes, ToSet
    <3> QED BY <1>1, <2>1, <3>1, <3>2, <3>3, <3>4, <3>5
  <2>3. /\ LockQueue' \subseteq Threads \X Threads
        /\ LockQueue \subseteq Threads \X Threads
        /\ Waiting[m] \subseteq Threads
    BY DEF LockQueue, Waiting, LockWaiters
  <2> QED BY <2>2, <2>3
<1> QED BY <1>3, <1>4, <1>5, <1>6, <1>7 DEF Service!Enqueue, Owner, Waiting

\* An unlock is Release, to the first of those that wait or to nobody.
LEMMA UnlockReleases ==
  ASSUME KeepsRules, ClaimInv, ClaimInv', NEW m \in Handles, my_pthread_mutex_unlock(m)
  PROVE  Service!Release(m)
<1> DEFINE t == Running
           given == [holds EXCEPT ![t] = @ \ {m}]
<1>1. /\ halt = "no" /\ m \in holds[t]
      /\ UNCHANGED <<inited, current, used, tid, mu, live, halt, mutexes, unjoined, target>>
  BY DEF my_pthread_mutex_unlock, info
<1>2. t \in Threads /\ t \notin ToSet(wait) /\ blocked[t] = "no"
  BY <1>1, RunnerFacts
<1>3. m \in mutexes /\ used[m] /\ t \in Claims(m) /\ m \in Mutexes
  BY <1>1, <1>2, HandleFacts DEF Claims, ClaimInv, HoldInv, Mutexes
<1>4. count[m] # 0
  BY <1>3, CountFacts
<1>5. \/ /\ holds' = given
         /\ UNCHANGED <<ready, wait, blocked>>
      \/ \E i \in 1 .. Len(wait) :
           /\ FirstWaiter(m, i)
           /\ wait' = RemoveAt(wait, i)
           /\ blocked' = [blocked EXCEPT ![wait[i]] = "no"]
           /\ holds' = IF blocked[wait[i]] = "lock"
                       THEN [given EXCEPT ![wait[i]] = @ \cup {m}]
                       ELSE given
  BY <1>3, <1>4 DEF my_pthread_mutex_unlock
<1>6. /\ given[t] = holds[t] \ {m}
      /\ \A u \in Threads : u # t => given[u] = holds[u]
      /\ given \in [Threads -> SUBSET Handles]
  BY <1>2, ClaimTypes
<1>7. \A u \in Threads : u # t => m \notin holds[u]
  BY <1>1, <1>2 DEF ClaimInv, MutualExclusion
<1>8. Owner[m] = t
  <2>1. Holder(m) = t
    BY <1>1, <1>2, <1>7, TheHolder DEF Holder
  <2> QED BY <1>3, <2>1 DEF Owner
<1>9. CASE /\ holds' = given
           /\ UNCHANGED <<ready, wait, blocked>>
  <2>1. \A u \in Threads : m \notin holds'[u]
    BY <1>6, <1>7, <1>9
  <2>2. Waiting[m] = {}
    <3> SUFFICES ASSUME NEW u \in Threads, blocked[u] = "lock", mu[u] = m
                 PROVE  FALSE
      BY <1>3 DEF Waiting, LockWaiters
    <3>1. u \in ToSet(wait)
      BY DEF ClaimInv, WaitInv
    <3>2. \E v \in Threads \ {u} : mu'[u] \in holds'[v]
      BY <1>9, <3>1 DEF ClaimInv, WaitsForSomeone
    <3> QED BY <1>1, <2>1, <3>2
  <2>3. \A n \in Mutexes : Holder(n)' = IF n = m THEN Null ELSE Holder(n)
    <3>1. Holder(m)' = Null
      BY <2>1 DEF Holder
    <3>2. ASSUME NEW n \in Mutexes, n # m
          PROVE  Holder(n)' = Holder(n)
      <4>1. \A u \in Threads : n \in holds'[u] <=> n \in holds[u]
        BY <1>6, <1>9, <3>2
      <4> QED BY <4>1 DEF Holder
    <3> QED BY <3>1, <3>2
  <2>4. Owner' = [Owner EXCEPT ![m] = Null]
    BY <1>3, <2>3 DEF Owner, Mutexes, Handles
  <2>5. UNCHANGED <<Waiting, LockQueue>>
    <3>1. \A n \in Mutexes : LockWaiters(n)' = LockWaiters(n)
      BY <1>1, <1>9 DEF LockWaiters
    <3> QED BY <1>9, <3>1 DEF Waiting, LockQueue, Mutexes, Handles
  <2> QED BY <1>2, <1>8, <2>2, <2>4, <2>5 DEF Service!Release, Owner, Waiting
<1>10. ASSUME NEW i \in 1 .. Len(wait),
              FirstWaiter(m, i),
              wait' = RemoveAt(wait, i),
              blocked' = [blocked EXCEPT ![wait[i]] = "no"],
              holds' = IF blocked[wait[i]] = "lock"
                       THEN [given EXCEPT ![wait[i]] = @ \cup {m}]
                       ELSE given
       PROVE  Service!Release(m)
  <2> DEFINE w == wait[i]
  <2>1. /\ w \in Threads /\ w \in ToSet(wait)
        /\ wait \in Seq(Threads) /\ IsInjective(wait)
    BY QueuesWellFormed, RemoveAtToSet DEF Queues, ClaimInv, OwnerInv
  <2>2. w # t /\ mu[w] = m /\ blocked[w] = "lock"
    <3>1. w # t /\ mu[w] = m
      BY <1>2, <1>10, <2>1 DEF FirstWaiter
    <3>2. blocked[w] # "join"
      BY <1>3, <2>1, <3>1, HandleFacts DEF ClaimInv, WaitInv, Owners
    <3> QED BY <2>1, <3>1, <3>2, ClaimTypes DEF ClaimInv, WaitInv
  <2>3. holds' = [given EXCEPT ![w] = @ \cup {m}]
    BY <1>10, <2>2
  <2>4. \A u \in Threads : holds'[u] = IF u = t THEN holds[u] \ {m}
                                      ELSE IF u = w THEN holds[u] \cup {m} ELSE holds[u]
    <3> HIDE DEF given, w, t
    <3> QED BY <1>6, <2>1, <2>2, <2>3
  <2>5. \A u \in Threads : blocked'[u] = IF u = w THEN "no" ELSE blocked[u]
    BY <1>10, <2>1, ClaimTypes
  <2>6. \A x, y : Precedes(wait', x, y) <=> Precedes(wait, x, y) /\ x # w /\ y # w
    BY <1>10, <2>1, RemoveAtOrder
  \* The first waiter is the first of those that wait for m.
  <2>7. \A u \in Threads : mu[u] = m => ~Precedes(wait, u, w)
    <3> SUFFICES ASSUME NEW u \in Threads, mu[u] = m,
                        NEW k \in 1 .. Len(wait), NEW l \in 1 .. Len(wait),
                        k < l, wait[k] = u, wait[l] = w
                 PROVE  FALSE
      BY DEF Precedes
    <3>1. DOMAIN wait = 1 .. Len(wait)
      BY <2>1, LenProperties
    <3>2. l = i
      BY <2>1, <3>1 DEF IsInjective
    <3>3. k \in 1 .. i - 1
      BY <3>2
    <3> QED BY <1>10, <3>3 DEF FirstWaiter
  <2> HIDE DEF given, w, t
  <2>8. Owner' = [Owner EXCEPT ![m] = w]
    <3>1. Holder(m)' = w
      BY <1>7, <2>1, <2>2, <2>4, TheHolder DEF Holder
    <3>2. ASSUME NEW n \in Mutexes, n # m
          PROVE  Holder(n)' = Holder(n)
      <4>1. \A u \in Threads : n \in holds'[u] <=> n \in holds[u]
        BY <2>4, <3>2
      <4> QED BY <4>1 DEF Holder
    <3> QED BY <1>3, <3>1, <3>2 DEF Owner, Mutexes, Handles
  <2>9. Waiting' = [Waiting EXCEPT ![m] = @ \ {w}]
    <3>1. \A n \in Mutexes : LockWaiters(n)' = IF n = m THEN LockWaiters(n) \ {w} ELSE LockWaiters(n)
      BY <1>1, <2>1, <2>2, <2>5 DEF LockWaiters
    <3> QED BY <1>3, <3>1 DEF Waiting, Mutexes, Handles
  <2>10. \A u \in Waiting[m] : <<u, w>> \notin LockQueue
    <3>1. \A u \in Waiting[m] : u \in Threads /\ mu[u] = m
      BY <1>3 DEF Waiting, LockWaiters
    <3> QED BY <2>1, <2>7, <3>1, QueueHasWaiters
  <2>11. LockQueue' = LockQueue \ ({w} \X Threads)
    <3>1. ASSUME NEW x \in Threads, NEW y \in Threads
          PROVE  <<x, y>> \in LockQueue' <=> <<x, y>> \in LockQueue /\ x # w
      <4>1. <<x, y>> \in LockQueue' <=>
              /\ blocked'[x] = "lock" /\ blocked'[y] = "lock"
              /\ mu'[x] = mu'[y]
              /\ Precedes(wait', x, y)
        <5>1. blocked'[x] = "lock" => mu'[x] \in Mutexes
          BY <1>1, <2>5, HandleFacts, ClaimTypes DEF ClaimInv, WaitInv, Mutexes
        <5> QED BY <5>1 DEF LockQueue, LockWaiters, Precedes
      <4>2. <<x, y>> \in LockQueue <=> /\ blocked[x] = "lock" /\ blocked[y] = "lock"
                                        /\ mu[x] = mu[y]
                                        /\ Precedes(wait, x, y)
        BY QueueHasWaiters
      <4>3. mu[x] = mu[y] /\ Precedes(wait, x, y) => y # w
        BY <2>2, <2>7
      <4> QED BY <1>1, <2>5, <2>6, <4>1, <4>2, <4>3
    <3>2. LockQueue' \subseteq Threads \X Threads /\ LockQueue \subseteq Threads \X Threads
      BY DEF LockQueue
    <3> QED BY <3>1, <3>2
  <2>12. w \in Waiting[m]
    BY <1>3, <2>1, <2>2 DEF Waiting, LockWaiters
  <2> QED BY <1>2, <1>8, <2>1, <2>8, <2>9, <2>10, <2>11, <2>12
          DEF Service!Release, Service!IsFirst, Owner, Waiting
<1> QED BY <1>5, <1>9, <1>10

\* An exit wakes joiners only.
LEMMA ExitKeepsView ==
  ASSUME ClaimInv, OwnerInv', Exit, Running = Main => MainTids = {0}
  PROVE  UNCHANGED View
<1>1. /\ \A u \in Threads : blocked'[u] = "lock" <=> blocked[u] = "lock"
      /\ UNCHANGED holds
  BY ClaimExit
<1>2. /\ halt = "no" /\ Running \in Threads /\ blocked[Running] = "no"
      /\ mu' = [mu EXCEPT ![Running] = 0]
  BY RunnerFacts DEF Exit
<1>3. \A u \in Threads : blocked[u] = "lock" => mu'[u] = mu[u]
  BY <1>2, ClaimTypes
<1>4. ASSUME NEW x \in Threads, NEW y \in Threads, blocked[x] = "lock", blocked[y] = "lock"
      PROVE  Precedes(wait', x, y) <=> Precedes(wait, x, y)
  <2>1. CASE UNCHANGED wait
    BY <2>1
  <2>2. ASSUME NEW i \in 1 .. Len(wait), wait' = RemoveAt(wait, i), Resume(wait[i])
        PROVE  Precedes(wait', x, y) <=> Precedes(wait, x, y)
    <3>1. wait \in Seq(Threads) /\ IsInjective(wait) /\ wait[i] \in Threads
      BY QueuesWellFormed, RemoveAtToSet DEF Queues, ClaimInv, OwnerInv
    <3>2. blocked'[wait[i]] = "no"
      BY <2>2, <3>1, ClaimTypes DEF Resume
    <3>3. x # wait[i] /\ y # wait[i]
      BY <1>1, <1>4, <3>2
    <3> QED BY <2>2, <3>1, <3>3, RemoveAtOrder
  <2> QED BY <2>1, <2>2 DEF Exit
<1> QED BY <1>1, <1>3, <1>4, ViewKept

\* A join puts its caller behind those that wait for mutexes.
LEMMA JoinKeepsView ==
  ASSUME ClaimInv, NEW h \in Handles, my_pthread_join(h)
  PROVE  UNCHANGED View
<1>1. /\ halt = "no" /\ Running \in Threads /\ blocked[Running] = "no"
      /\ Running = current /\ Running \notin ToSet(wait)
      /\ UNCHANGED holds
  BY RunnerFacts DEF my_pthread_join, Running
<1>2. mu' = mu \/ mu' = [mu EXCEPT ![Running] = h]
  BY DEF my_pthread_join, CountAndWait
<1>3. wait' = wait \/ wait' = Append(wait, Running)
  BY <1>1 DEF my_pthread_join, CountAndWait, SwapCurrentToWait, queues
<1>4. blocked' = blocked \/ blocked' = [blocked EXCEPT ![Running] = "join"]
  BY <1>1 DEF my_pthread_join, history
<1>5. \A u \in Threads : /\ blocked'[u] = "lock" <=> blocked[u] = "lock"
                         /\ blocked[u] = "lock" => mu'[u] = mu[u]
  BY <1>1, <1>2, <1>4, ClaimTypes
<1>6. ASSUME NEW x \in Threads, NEW y \in Threads, blocked[x] = "lock", blocked[y] = "lock"
      PROVE  Precedes(wait', x, y) <=> Precedes(wait, x, y)
  <2>1. wait \in Seq(Threads)
    BY DEF ClaimInv, OwnerInv, QueueInv, TypeOK
  <2>2. y # Running
    BY <1>1, <1>6
  <2>3. Precedes(Append(wait, Running), x, y) <=> Precedes(wait, x, y)
    <3> DEFINE r == Running
    <3>1. r \in Threads /\ y # r
      BY <1>1, <2>2
    <3> HIDE DEF r
    <3>2. Precedes(Append(wait, r), x, y) <=> Precedes(wait, x, y)
      BY <2>1, <3>1, AppendOrder
    <3> QED BY <3>2 DEF r
  <2> QED BY <1>3, <2>3
<1> QED BY <1>1, <1>5, <1>6, ViewKept

\* A lock is Acquire or Enqueue.
LEMMA LockIsServed ==
  ASSUME KeepsRules, ClaimInv, ClaimInv', NEW m \in Handles, my_pthread_mutex_lock(m)
  PROVE  m \in Mutexes /\ \E t \in Threads : Service!Acquire(t, m) \/ Service!Enqueue(t, m)
<1> DEFINE t == Running
<1>1. /\ halt = "no"
      /\ m \in mutexes \ holds[t]
      /\ \A n \in holds[t] : n < m
      /\ UNCHANGED <<live, mutexes>>
  BY DEF my_pthread_mutex_lock, KeepsRules, May
<1>2. /\ t \in Threads /\ t \notin ToSet(wait) /\ blocked[t] = "no"
  BY <1>1, RunnerFacts
<1>3. used[m] /\ m \in Mutexes
  BY <1>1, HandleFacts DEF Mutexes
<1>4. CASE count[m] = 0
  <2>1. /\ holds' = [holds EXCEPT ![t] = @ \cup {m}]
        /\ UNCHANGED <<wait, mu, blocked>>
    BY <1>3, <1>4 DEF my_pthread_mutex_lock, queues, history
  <2>2. \A u \in Threads : m \notin holds[u]
    BY <1>3, <1>4, CountFacts DEF Claims
  <2>3. holds \in [Threads -> SUBSET Handles]
    BY ClaimTypes
  <2>4. Service!Acquire(t, m)
    BY <1>2, <1>3, <2>1, <2>2, <2>3, LockAcquires
  <2> QED BY <1>2, <1>3, <2>4
<1>5. CASE count[m] # 0
  <2>1. Claims(m) # {}
    BY <1>3, <1>5, CountFacts
  <2>2. ready # <<>>
    BY <1>1, <2>1, LockFindsReady
  <2>3. CountAndWait(m)
    BY <1>3, <1>5 DEF my_pthread_mutex_lock
  <2>4. current = t /\ wait' # wait /\ ToSet(wait)' = ToSet(wait) \cup {t}
    BY <1>1, <2>2, <2>3, Queued DEF CountAndWait
  <2>5. /\ wait' = Append(wait, t)
        /\ mu' = [mu EXCEPT ![t] = m]
        /\ blocked' = [blocked EXCEPT ![t] = "lock"]
        /\ UNCHANGED holds
    BY <1>3, <1>5, <2>2, <2>3, <2>4
    DEF my_pthread_mutex_lock, CountAndWait, SwapCurrentToWait
  <2>6. PICK v \in Threads \ {t} : m \in holds[v]
    <3>1. t \in ToSet(wait)' /\ blocked'[t] = "lock" /\ mu'[t] = m
      BY <1>2, <2>4, <2>5, ClaimTypes
    <3>2. \E v \in Threads \ {t} : mu'[t] \in holds'[v]
      <4>1. \A u \in ToSet(wait)' : blocked'[u] = "lock" => \E v \in Threads \ {u} : mu'[u] \in holds'[v]
        BY DEF ClaimInv, WaitsForSomeone
      <4> HIDE DEF t
      <4> QED BY <3>1, <4>1
    <3> QED BY <2>5, <3>1, <3>2
  <2>7. Service!Enqueue(t, m)
    BY <1>1, <1>2, <1>3, <2>5, <2>6, LockEnqueues
  <2> QED BY <1>2, <1>3, <2>7
<1> QED BY <1>4, <1>5

\* At first nobody has a mutex and nobody waits.
LEMMA ServiceInit == Init => Service!Init
<1> SUFFICES ASSUME Init PROVE Service!Init
  OBVIOUS
<1>1. \A m \in Mutexes : Holder(m) = Null /\ LockWaiters(m) = {}
  BY DEF Init, Holder, LockWaiters
<1>2. LockQueue = {}
  <2>1. \A p \in LockQueue : \E m \in Mutexes : p[1] \in LockWaiters(m)
    BY DEF LockQueue
  <2> QED BY <1>1, <2>1
<1> QED BY <1>1, <1>2 DEF Service!Init

\* Every library call is one step of the service or none.
LEMMA ServiceStep ==
  ASSUME KeepsRules, ClaimInv, ClaimInv', [Next]_vars
  PROVE  UNCHANGED View \/ Service!Next
<1>1. CASE UNCHANGED <<wait, mu, holds, blocked>>
  BY <1>1, ViewKept
<1>2. CASE \/ timer_handler \/ my_pthread_yield \/ my_pthread_init
           \/ CreateTableFull \/ InitTableFull \/ my_pthread_mutex_init
           \/ \E m \in Handles : my_pthread_mutex_destroy(m)
           \/ UNCHANGED vars
  <2>1. UNCHANGED <<wait, mu, holds, blocked>>
    BY <1>2 DEF timer_handler, my_pthread_yield, my_pthread_init, CreateTableFull,
                InitTableFull, my_pthread_mutex_init, my_pthread_mutex_destroy,
                vars, queues, info, program, history
  <2> QED BY <1>1, <2>1
<1>3. ASSUME NEW t \in Threads, my_pthread_create(t)
      PROVE  UNCHANGED View
  <2>1. /\ mu' = [mu EXCEPT ![t] = 0]
        /\ UNCHANGED <<wait, holds, blocked>>
        /\ t \notin live
    BY <1>3 DEF my_pthread_create, history
  <2>2. blocked[t] = "no"
    BY <2>1, WaitersLive DEF ClaimInv, WaitInv
  <2>3. \A u \in Threads : blocked[u] = "lock" => mu'[u] = mu[u]
    BY <2>1, <2>2, ClaimTypes
  <2> QED BY <2>1, <2>3, ViewKept
<1>4. CASE thread_stub \/ my_pthread_exit
  <2>1. Exit /\ (Running = Main => MainTids = {0})
    BY <1>4 DEF thread_stub, my_pthread_exit, KeepsRules, MainIsHarmless
  <2> QED BY <2>1, ExitKeepsView DEF ClaimInv
<1>5. CASE \E h \in Handles : my_pthread_join(h)
  BY <1>5, JoinKeepsView
<1>6. ASSUME NEW m \in Handles, my_pthread_mutex_lock(m)
      PROVE  Service!Next
  BY <1>6, LockIsServed DEF Service!Next
<1>7. ASSUME NEW m \in Handles, my_pthread_mutex_unlock(m)
      PROVE  Service!Next
  <2>1. m \in Mutexes
    <3>1. Running \in Threads /\ m \in holds[Running]
      BY <1>7, RunnerFacts DEF my_pthread_mutex_unlock
    <3> QED BY <3>1, HandleFacts DEF ClaimInv, HoldInv, Mutexes
  <2> QED BY <1>7, <2>1, UnlockReleases DEF Service!Next
<1> QED BY <1>2, <1>3, <1>4, <1>5, <1>6, <1>7 DEF Next

\* For a program that keeps to the rules, each library call is one step of
\* MutexService or none: mutexes pass from thread to thread in the order in which
\* they called my_pthread_mutex_lock.
THEOREM MutexesAreServed ==
  ASSUME KeepsRules
  PROVE  Spec => ImplementsService
<1>1. ClaimInv /\ ClaimInv' /\ [Next]_vars =>
        [Service!Next]_<<[m \in Mutexes |-> Holder(m)],
                         [m \in Mutexes |-> LockWaiters(m)], LockQueue>>
  BY ServiceStep DEF View, Owner, Waiting
<1> QED BY <1>1, ServiceInit, RulesKept, PTL DEF Spec, ImplementsService, Service!Spec
===============================================================================
