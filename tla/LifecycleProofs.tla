---------------------------- MODULE LifecycleProofs ----------------------------
(***************************************************************************)
(* Theorems about Lifecycle, for any number of threads and handles.  What  *)
(* joins are about holds until the timer first expires within a join; the  *)
(* rest of the invariant holds wherever it expires.                        *)
(***************************************************************************)
EXTENDS Lifecycle, SeqLemmas

-----------------------------------------------------------------------------
(* The inductive invariant. *)

Making  == {"create_count", "create_lock", "create_insert"}
Ending  == {"exit_lock", "exit_wake", "exit_free_mutex", "exit_free_info"}
Joining == {"join_count", "join_zero", "join_add", "wait_check", "wait_lock", "wait_queue"}
Leaving == {"exit_null", "schedule", "schedule_lock", "schedule_queue", "swap"}

\* The statements with the spinlock taken, and those at which the timer may cut.
Locked == {"create_insert", "exit_wake", "schedule_queue", "wait_queue"}
Cut    == {"user", "schedule_lock", "create_count", "create_lock", "exit_lock",
           "join_count", "join_zero", "join_add", "wait_check", "wait_lock"}

Places == {"user"} \cup Making \cup Ending \cup Joining \cup Leaving

Numbers == 0 .. MaxMutex - 1

LifeTypes ==
  /\ running \in Threads /\ current \in Threads \cup {Null}
  /\ ready \in Seq(Threads) /\ wait \in Seq(Threads)
  /\ used \in [Handles -> BOOLEAN] /\ count \in [Handles -> Nat]
  /\ spinlock \in {0, 1} /\ fresh \in BOOLEAN
  /\ alive \subseteq Threads
  /\ tid \in [Threads -> Numbers] /\ mu \in [Threads -> Numbers]
  /\ pc \in [Threads -> [at : Places, h : Numbers, t : Threads \cup {Null}]]
  /\ unjoined \subseteq Handles
  /\ target \in [Threads -> Threads \cup {Null}]
  /\ cut \in BOOLEAN
  /\ halt \in {"no", "exit", "null_head"}

\* Only the thread that executes can be where the timer does not cut, and a
\* thread that is gone is nowhere.
PlaceInv ==
  \A t \in Threads :
    /\ pc[t].at = "user" => pc[t] = User
    /\ pc[t].t # Null <=> pc[t].at \in Making
    /\ pc[t].at \in Making \cup Ending \cup Joining => pc[t].h \in Handles
    /\ t # running => pc[t].at \in Cut
    /\ t \notin alive /\ t # running => pc[t] = User

\* The spinlock, the timer, CURRENT and the thread that executes.
RunInv ==
  LET at == pc[running].at IN
  /\ spinlock = 1 <=> at \in Locked
  /\ ~fresh => at \in Cut
  /\ at \notin Leaving => current = running /\ running \in alive
  /\ at = "exit_null" => current = running /\ running \notin alive
  /\ at = "schedule" => current = Null /\ running \notin alive
  /\ at \in {"schedule_lock", "schedule_queue"} =>
       \/ current = running /\ running \in alive
       \/ current = Null /\ running \notin alive /\ fresh
  /\ at = "swap" => current \in alive /\ current # running /\ fresh
  /\ halt # "no" => at \in {"schedule", "schedule_queue"}

\* Thread u makes thread t, which is in no queue yet.
Makes(u, t) == u \in alive /\ pc[u].t = t

\* Where the threads are.
QueueInv ==
  /\ Main \in alive
  /\ IsInjective(ready) /\ IsInjective(wait)
  /\ ToSet(ready) \cap ToSet(wait) = {}
  /\ \A t \in ToSet(ready) \cup ToSet(wait) : t \in alive /\ t # current
  /\ \A u \in Threads, t \in Threads : Makes(u, t) =>
       /\ t \in alive \ {Main, current, running}
       /\ t \notin ToSet(ready) \cup ToSet(wait)
       /\ \A v \in Threads : Makes(v, t) => v = u
  /\ \A t \in alive : \/ t = current \/ t \in ToSet(ready) \cup ToSet(wait)
                      \/ \E u \in Threads : Makes(u, t)

Named == alive \ {Main}

\* Handles, tids and counts.
HandleInv ==
  /\ \A t \in Named :
       /\ tid[t] \in Handles
       /\ used[tid[t]] \/ (t = running /\ pc[t].at = "exit_free_info")
       /\ \A u \in Named : tid[u] = tid[t] => u = t
  /\ \A h \in Handles : used[h] => \E t \in Named : tid[t] = h
  /\ \A h \in unjoined : used[h] => count[h] >= 1
  /\ \A t \in alive :
       /\ pc[t].at \in Making => /\ tid[pc[t].t] = pc[t].h /\ pc[t].h \notin unjoined
                                 /\ pc[t].at # "create_count" => count[pc[t].h] >= 1
       /\ pc[t].at \in Ending => t # Main /\ pc[t].h = tid[t]
       /\ pc[t].at = "exit_free_info" => ~used[tid[t]]

\* Only the thread that executes is in a join, which found a count above zero.
JoinersRun ==
  \A t \in Threads : pc[t].at \in Joining => t = running /\ pc[t].at # "join_zero"

\* Whom joins are about.
TargetInv ==
  LET at == pc[running].at IN
  /\ \A t \in Threads : target[t] # Null =>
       /\ target[t] \in Named \ Joiners
       /\ tid[target[t]] \notin unjoined
       /\ \A u \in Threads : target[u] = target[t] => u = t
       /\ \A u \in Threads : ~Makes(u, target[t])
       /\ \/ t \in ToSet(wait)
          \/ t = running /\ at \in Joining \ {"join_count"}
          \/ target[t] = running /\ at \in {"exit_free_mutex", "exit_free_info"}
  /\ \A t \in ToSet(wait) :
       /\ t \in Joiners /\ target[t] # Null /\ mu[t] = tid[target[t]]
       /\ pc[target[t]].at \notin {"exit_free_mutex", "exit_free_info"}
  /\ at \in Joining => running \in Joiners
  /\ at = "join_count" =>
       /\ used[H] /\ count[H] >= 1 /\ H \notin unjoined
       /\ \A u \in Named : tid[u] = H =>
            /\ u \notin Joiners
            /\ \A v \in Threads : target[v] # u /\ ~Makes(v, u)
  /\ at \in Joining \ {"join_count"} =>
       /\ target[running] # Null
       /\ tid[target[running]] = IF at = "join_add" THEN H ELSE mu[running]

\* Once the timer has expired within a join, a joiner may come to the wait queue
\* when the thread it joins has gone.
LifeInv ==
  /\ LifeTypes /\ PlaceInv /\ RunInv /\ QueueInv /\ HandleInv
  /\ ~cut => JoinersRun /\ TargetInv

-----------------------------------------------------------------------------
\* Goto leaves the rest of where the thread is.
LEMMA GotoMoves ==
  ASSUME LifeInv, NEW at, Goto(at)
  PROVE  pc' = [pc EXCEPT ![running] = Stmt(at, H, pc[running].t)]
<1>1. /\ running \in Threads
      /\ pc \in [Threads -> [at : Places, h : Numbers, t : Threads \cup {Null}]]
  BY DEF LifeInv, LifeTypes
<1>2. pc' = [pc EXCEPT ![running] = [pc[running] EXCEPT !.at = at]]
  BY DEF Goto
<1>3. pc[running] \in [at : Places, h : Numbers, t : Threads \cup {Null}]
  BY <1>1
<1>4. [pc[running] EXCEPT !.at = at] = Stmt(at, H, pc[running].t)
  BY <1>3 DEF Stmt, H
<1> QED BY <1>2, <1>4

\* The thread that executes goes to statement a; the others stay where they are.
Moves(a, h, t) == pc' = [pc EXCEPT ![running] = Stmt(a, h, t)]

\* What a thread at a carries with it.
WellPlaced(a, h, t) ==
  /\ a \in Places /\ h \in Numbers /\ t \in Threads \cup {Null}
  /\ a = "user" => h = 0 /\ t = Null
  /\ t # Null <=> a \in Making
  /\ a \in Making \cup Ending \cup Joining => h \in Handles

\* The running thread goes on to statement a and no other thread moves.
LEMMA MoveFacts ==
  ASSUME LifeInv, NEW a, NEW h, NEW t, Moves(a, h, t), WellPlaced(a, h, t),
         running' = running, \A u \in alive : u \in alive' \/ u = running,
         cut' = cut
  PROVE  /\ pc' \in [Threads -> [at : Places, h : Numbers, t : Threads \cup {Null}]]
         /\ pc'[running].at = a /\ pc'[running].h = h /\ pc'[running].t = t
         /\ \A u \in Threads : u # running => pc'[u] = pc[u]
         /\ PlaceInv'
         /\ ~cut /\ a # "join_zero" => JoinersRun'
<1>1. /\ running \in Threads
      /\ pc \in [Threads -> [at : Places, h : Numbers, t : Threads \cup {Null}]]
  BY DEF LifeInv, LifeTypes
<1>2. Stmt(a, h, t) \in [at : Places, h : Numbers, t : Threads \cup {Null}]
  BY DEF Stmt, WellPlaced
<1>3. /\ pc'[running] = Stmt(a, h, t)
      /\ \A u \in Threads : u # running => pc'[u] = pc[u]
      /\ pc' \in [Threads -> [at : Places, h : Numbers, t : Threads \cup {Null}]]
  BY <1>1, <1>2 DEF Moves
<1>4. pc'[running].at = a /\ pc'[running].h = h /\ pc'[running].t = t
  BY <1>3 DEF Stmt
<1>5. a = "user" => pc'[running] = User
  BY <1>3 DEF User, WellPlaced
<1>6. PlaceInv'
  <2> SUFFICES ASSUME NEW u \in Threads
               PROVE  /\ pc'[u].at = "user" => pc'[u] = User
                      /\ pc'[u].t # Null <=> pc'[u].at \in Making
                      /\ pc'[u].at \in Making \cup Ending \cup Joining => pc'[u].h \in Handles
                      /\ u # running => pc'[u].at \in Cut
                      /\ u \notin alive' /\ u # running => pc'[u] = User
    BY DEF PlaceInv
  <2>1. CASE u = running
    BY <1>4, <1>5, <2>1 DEF WellPlaced
  <2>2. CASE u # running
    BY <1>3, <2>2 DEF LifeInv, PlaceInv
  <2> QED BY <2>1, <2>2
<1>7. ~cut /\ a # "join_zero" => JoinersRun'
  BY <1>3, <1>4 DEF LifeInv, JoinersRun
<1> QED BY <1>3, <1>4, <1>6, <1>7

\* A thread that is made is not the one that executes, nor in a queue.
LEMMA QueuesStay ==
  ASSUME LifeInv, UNCHANGED <<running, current, ready, wait, alive>>,
         \A u \in Threads : pc'[u].t = pc[u].t
  PROVE  /\ QueueInv'
         /\ \A u \in Threads, t \in Threads : Makes(u, t)' <=> Makes(u, t)
<1>1. \A u \in Threads, t \in Threads : Makes(u, t)' <=> Makes(u, t)
  BY DEF Makes
<1>2. alive \subseteq Threads
  BY DEF LifeInv, LifeTypes
<1>3. QueueInv'
  <2>1. \A t \in alive : (\E u \in Threads : Makes(u, t)) => \E u \in Threads : Makes(u, t)'
    BY <1>1, <1>2
  <2>2. \A u \in Threads, t \in Threads : Makes(u, t)' =>
          /\ t \in alive \ {Main, current, running}
          /\ t \notin ToSet(ready) \cup ToSet(wait)
          /\ \A v \in Threads : Makes(v, t)' => v = u
    BY <1>1 DEF LifeInv, QueueInv
  <2> QED BY <2>1, <2>2 DEF LifeInv, QueueInv
<1> QED BY <1>1, <1>3

\* The thread that executes is at a statement of its own.
LEMMA AtRunning ==
  ASSUME LifeInv
  PROVE  /\ running \in Threads /\ Null \notin Threads /\ Main \in Threads
         /\ pc[running].at \in Places /\ H \in Numbers
         /\ pc[running].t \in Threads \cup {Null}
         /\ pc[running].t # Null <=> pc[running].at \in Making
         /\ pc[running].at \in Making \cup Ending \cup Joining => H \in Handles
         /\ pc[running] = User => pc[running].at = "user"
         /\ User.at = "user" /\ User.h = 0 /\ User.t = Null
         /\ User = Stmt("user", 0, Null)
         /\ 0 \in Numbers /\ Handles \subseteq Numbers
         /\ alive \subseteq Threads
         /\ pc \in [Threads -> [at : Places, h : Numbers, t : Threads \cup {Null}]]
<1>1. /\ running \in Threads
      /\ pc \in [Threads -> [at : Places, h : Numbers, t : Threads \cup {Null}]]
      /\ alive \subseteq Threads
  BY DEF LifeInv, LifeTypes
<1>2. pc[running] \in [at : Places, h : Numbers, t : Threads \cup {Null}]
  BY <1>1
<1>3. Null \notin Threads /\ Main \in Threads
  BY LifecycleAssumption
<1>4. User.at = "user" /\ User.h = 0 /\ User.t = Null
  BY DEF User, Stmt
<1>5. MaxMutex \in Nat /\ MaxMutex >= 1
  <2>1. Cardinality(Threads) \in Nat /\ Cardinality(Threads) # 0
    BY <1>3, FS_CardinalityType, FS_EmptySet, LifecycleAssumption
  <2> QED BY <2>1, LifecycleAssumption
<1>6. 0 \in Numbers /\ Handles \subseteq Numbers
  BY <1>5 DEF Numbers, Handles
<1>7. PlaceInv
  BY DEF LifeInv
<1> QED BY <1>1, <1>2, <1>3, <1>4, <1>6, <1>7 DEF PlaceInv, H, User

\* The statements a and b are of one kind, and neither is one that an invariant
\* singles out.
SameKind(a, b) ==
  /\ \A K \in {Making, Ending, Joining} : a \in K <=> b \in K
  /\ {a, b} \cap {"create_count", "exit_free_mutex", "exit_free_info",
                  "join_count", "join_zero", "join_add"} = {}

\* A statement that moves on and touches the spinlock and the timer only.
LEMMA LocalStep ==
  ASSUME LifeInv, NEW a, NEW h, NEW t, Moves(a, h, t), WellPlaced(a, h, t),
         SameKind(pc[running].at, a),
         a \in Making \cup Ending \cup Joining => h = H,
         t = pc[running].t,
         UNCHANGED <<running, current, ready, wait, used, count, alive, tid, mu,
                     unjoined, target, cut, halt>>,
         spinlock' \in {0, 1}, fresh' \in BOOLEAN, RunInv'
  PROVE  LifeInv'
<1> DEFINE at == pc[running].at
<1>1. /\ pc' \in [Threads -> [at : Places, h : Numbers, t : Threads \cup {Null}]]
      /\ pc'[running].at = a /\ pc'[running].h = h /\ pc'[running].t = t
      /\ \A u \in Threads : u # running => pc'[u] = pc[u]
      /\ PlaceInv' /\ (~cut => JoinersRun')
  <2>1. a # "join_zero"
    BY DEF SameKind
  <2> QED BY <2>1, MoveFacts
<1>2. /\ at \in Making <=> a \in Making
      /\ at \in Ending <=> a \in Ending
      /\ at \in Joining <=> a \in Joining
      /\ at \notin {"create_count", "exit_free_mutex", "exit_free_info",
                    "join_count", "join_zero", "join_add"}
      /\ a \notin {"create_count", "exit_free_mutex", "exit_free_info",
                   "join_count", "join_zero", "join_add"}
  BY DEF SameKind
<1>3. \A u \in Threads : pc'[u].t = pc[u].t
  BY <1>1
<1>4. QueueInv' /\ \A u \in Threads, x \in Threads : Makes(u, x)' <=> Makes(u, x)
  BY <1>3, QueuesStay
<1>5. LifeTypes'
  BY <1>1 DEF LifeInv, LifeTypes
<1>6. HandleInv'
  <2>1. \A u \in Threads : /\ pc'[u].at = "create_count" <=> pc[u].at = "create_count"
                           /\ pc'[u].at \in Making <=> pc[u].at \in Making
                           /\ pc'[u].at \in Ending <=> pc[u].at \in Ending
                           /\ pc'[u].at = "exit_free_info" <=> pc[u].at = "exit_free_info"
                           /\ pc'[u].at \in Making \cup Ending => pc'[u].h = pc[u].h
    BY <1>1, <1>2 DEF H
  <2> QED BY <1>3, <2>1, AtRunning DEF LifeInv, HandleInv, Named
<1>7. ASSUME ~cut PROVE TargetInv'
  <2>1. \A u \in Threads : pc'[u].at \in {"exit_free_mutex", "exit_free_info"} <=>
                             pc[u].at \in {"exit_free_mutex", "exit_free_info"}
    BY <1>1, <1>2
  <2>2. /\ a \in Joining \ {"join_count"} <=> at \in Joining \ {"join_count"}
        /\ a # "join_count" /\ at # "join_count" /\ a # "join_add" /\ at # "join_add"
    BY <1>2
  <2>3. \A u \in Threads : target[u] # Null => target[u] \in Threads
    BY DEF LifeInv, LifeTypes
  <2>4. ToSet(wait) \subseteq Threads
    BY AtRunning DEF LifeInv, QueueInv
  <2> QED BY <1>7, <1>1, <1>2, <1>4, <2>1, <2>2, <2>3, <2>4, AtRunning
          DEF LifeInv, TargetInv, Named
<1> QED BY <1>1, <1>4, <1>5, <1>6, <1>7 DEF LifeInv

\* The lock is taken where the section begins.
LEMMA LifeAcquire ==
  ASSUME LifeInv, acquire_queue_spinlock
  PROVE  LifeInv'
<1> DEFINE at == pc[running].at
           a == Section[at]
           t == pc[running].t
<1>1. /\ halt = "no" /\ at \in DOMAIN Section /\ spinlock = 0
      /\ spinlock' = 1 /\ fresh' = TRUE /\ Goto(a)
      /\ UNCHANGED <<running, current, ready, wait, used, count, alive, tid, mu,
                     unjoined, target, cut, halt>>
  BY DEF acquire_queue_spinlock, queues, table, info, program
<1>2. \/ at = "create_lock" /\ a = "create_insert"
      \/ at = "exit_lock" /\ a = "exit_wake"
      \/ at = "schedule_lock" /\ a = "schedule_queue"
      \/ at = "wait_lock" /\ a = "wait_queue"
  BY <1>1 DEF Section
<1>3. Moves(a, H, t)
  BY <1>1, GotoMoves DEF Moves
<1>4. WellPlaced(a, H, t)
  BY <1>2, AtRunning DEF WellPlaced, Places, Making, Ending, Joining, Leaving
<1>5. SameKind(at, a)
  BY <1>2 DEF SameKind, Making, Ending, Joining
<1> HIDE DEF a, at, t
<1>6. pc'[running].at = a
  BY <1>1, <1>3, <1>4, MoveFacts
<1>7. RunInv'
  BY <1>1, <1>2, <1>6 DEF LifeInv, RunInv, Locked, Cut, Joining, Leaving, at
<1> QED BY <1>1, <1>3, <1>4, <1>5, <1>7, LocalStep DEF at, t

\* A yield goes to the lock of schedule().
LEMMA LifeYield ==
  ASSUME LifeInv, my_pthread_yield
  PROVE  LifeInv'
<1>1. /\ halt = "no" /\ pc[running] = User
      /\ Moves("schedule_lock", 0, Null) /\ fresh' = FALSE
      /\ UNCHANGED <<running, current, ready, wait, used, count, spinlock, alive, tid, mu,
                     unjoined, target, cut, halt>>
  BY DEF my_pthread_yield, InUser, Call, Moves, queues, table, info, program
<1>2. WellPlaced("schedule_lock", 0, Null)
  BY AtRunning DEF WellPlaced, Places, Making, Ending, Joining, Leaving
<1>3. SameKind("user", "schedule_lock")
  BY DEF SameKind, Making, Ending, Joining
<1>4. "schedule_lock" \notin Making \cup Ending \cup Joining
  BY DEF Making, Ending, Joining
<1>5. pc[running].at = "user" /\ pc[running].t = Null
  BY <1>1, AtRunning
<1>6. pc'[running].at = "schedule_lock"
  BY <1>1, <1>2, MoveFacts
<1>7. RunInv'
  BY <1>1, <1>5, <1>6 DEF LifeInv, RunInv, Locked, Cut, Joining, Leaving
<1>8. spinlock' \in {0, 1} /\ fresh' \in BOOLEAN
  BY <1>1 DEF LifeInv, LifeTypes
<1> QED BY <1>1, <1>2, <1>3, <1>4, <1>5, <1>7, <1>8, LocalStep

\* The end of the process moves nothing.
LEMMA LifeHalts ==
  ASSUME LifeInv, halt' \in {"exit", "null_head"},
         pc[running].at \in {"schedule", "schedule_queue"},
         UNCHANGED <<queues, table, lock, info, pc, program>>
  PROVE  LifeInv'
<1>1. UNCHANGED <<running, current, ready, wait, used, count, spinlock, fresh, alive, tid, mu,
                  pc, unjoined, target, cut>>
  BY DEF queues, table, lock, info, program
<1>2. LifeTypes' /\ PlaceInv' /\ RunInv'
  BY <1>1 DEF LifeInv, LifeTypes, PlaceInv, RunInv
<1>3. QueueInv'
  BY <1>1, QueuesStay
<1>4. HandleInv' /\ (~cut => JoinersRun' /\ TargetInv')
  BY <1>1 DEF LifeInv, HandleInv, JoinersRun, TargetInv, Named, Makes, H
<1> QED BY <1>1, <1>2, <1>3, <1>4 DEF LifeInv

\* After an exit: the process ends, or goes on to the ready queue.
LEMMA LifeScheduleCheck ==
  ASSUME LifeInv, schedule_check
  PROVE  LifeInv'
<1>1. /\ halt = "no" /\ pc[running].at = "schedule"
      /\ UNCHANGED <<queues, table, lock, info, program>>
      /\ \/ halt' = "exit" /\ UNCHANGED pc
         \/ Goto("schedule_lock") /\ UNCHANGED halt
  BY DEF schedule_check, At
<1>2. CASE halt' = "exit" /\ UNCHANGED pc
  BY <1>1, <1>2, LifeHalts
<1>3. CASE Goto("schedule_lock") /\ UNCHANGED halt
  <2>1. UNCHANGED <<running, current, ready, wait, used, count, spinlock, fresh, alive, tid,
                    mu, unjoined, target, cut, halt>>
    BY <1>1, <1>3 DEF queues, table, lock, info, program
  <2>2. Moves("schedule_lock", H, pc[running].t)
    BY <1>3, GotoMoves DEF Moves
  <2>3. WellPlaced("schedule_lock", H, pc[running].t)
    BY <1>1, AtRunning DEF WellPlaced, Places, Making, Ending, Joining, Leaving
  <2>4. SameKind("schedule", "schedule_lock")
    BY DEF SameKind, Making, Ending, Joining
  <2>5. pc'[running].at = "schedule_lock"
    BY <2>1, <2>2, <2>3, MoveFacts
  <2>6. RunInv'
    BY <1>1, <2>1, <2>5 DEF LifeInv, RunInv, Locked, Cut, Joining, Leaving
  <2>7. spinlock' \in {0, 1} /\ fresh' \in BOOLEAN
    BY <2>1 DEF LifeInv, LifeTypes
  <2> QED BY <1>1, <2>1, <2>2, <2>3, <2>4, <2>6, <2>7, LocalStep
<1> QED BY <1>1, <1>2, <1>3

\* Whom the executing thread joins is in the ready queue.
LEMMA TargetIsReady ==
  ASSUME LifeInv, ~cut, pc[running].at \in Joining \ {"join_count"}
  PROVE  target[running] \in ToSet(ready)
<1> DEFINE x == target[running]
<1>1. /\ running \in Joiners /\ x # Null
  BY DEF LifeInv, TargetInv, Joining
<1>2. x \in alive /\ x \notin Joiners /\ \A u \in Threads : ~Makes(u, x)
  BY <1>1, AtRunning DEF LifeInv, TargetInv, Named
<1>3. current = running
  BY DEF LifeInv, RunInv, Joining, Leaving
<1>4. x \notin ToSet(wait)
  BY <1>2 DEF LifeInv, TargetInv
<1> QED BY <1>1, <1>2, <1>3, <1>4 DEF LifeInv, QueueInv

\* Once the timer has cut a join, nothing is known of whom joins are about, and a
\* joiner goes on wherever the count or the ready queue send it.
LEMMA LifeCutJoin ==
  ASSUME LifeInv, cut, NEW a, NEW h, Moves(a, h, Null), WellPlaced(a, h, Null),
         pc[running].at \in Joining \ {"wait_queue"},
         a \in (Joining \ {"wait_queue"}) \cup {"user"},
         UNCHANGED <<running, current, ready, wait, used, spinlock, fresh, alive, tid,
                     unjoined, cut, halt>>,
         count' \in [Handles -> Nat], \A g \in Handles : count'[g] >= count[g],
         mu' \in [Threads -> Numbers], target' \in [Threads -> Threads \cup {Null}]
  PROVE  LifeInv'
<1>1. /\ pc' \in [Threads -> [at : Places, h : Numbers, t : Threads \cup {Null}]]
      /\ pc'[running].at = a /\ pc'[running].h = h /\ pc'[running].t = Null
      /\ \A u \in Threads : u # running => pc'[u] = pc[u]
      /\ PlaceInv'
  BY MoveFacts
<1>2. pc[running].t = Null
  BY AtRunning DEF Joining, Making
<1>3. QueueInv'
  BY <1>1, <1>2, QueuesStay
<1>4. LifeTypes'
  BY <1>1 DEF LifeInv, LifeTypes
<1>5. RunInv'
  <2>1. /\ pc[running].at \notin Locked \cup Leaving
        /\ a \in Cut /\ a \notin Locked \cup Leaving
        /\ pc[running].at # "schedule_queue" /\ pc[running].at # "schedule"
    BY DEF Locked, Leaving, Cut, Joining
  <2>2. halt = "no"
    BY <2>1 DEF LifeInv, RunInv
  <2> QED BY <1>1, <2>1, <2>2 DEF LifeInv, RunInv, Leaving
<1>6. HandleInv'
  <2>1. pc[running].at \notin Making \cup Ending /\ a \notin Making \cup Ending
    BY DEF Making, Ending, Joining
  <2>2. \A u \in Threads : /\ pc'[u].at \in Making \cup Ending => pc'[u] = pc[u]
                           /\ pc[u].at \in Making \cup Ending => pc'[u] = pc[u]
                           /\ pc[u].at \in Making => pc[u].h \in Handles
    BY <1>1, <2>1 DEF LifeInv, PlaceInv
  <2>3. unjoined \subseteq Handles
    BY DEF LifeInv, LifeTypes
  <2>4. /\ \A u \in alive : pc'[u].at \in Making =>
             /\ tid[pc'[u].t] = pc'[u].h /\ pc'[u].h \notin unjoined
             /\ pc'[u].at # "create_count" => count'[pc'[u].h] >= 1
        /\ \A u \in alive : pc'[u].at \in Ending => u # Main /\ pc'[u].h = tid[u]
        /\ \A u \in alive : pc'[u].at = "exit_free_info" => ~used[tid[u]]
    <3> SUFFICES ASSUME NEW u \in alive
                 PROVE  /\ pc'[u].at \in Making =>
                             /\ tid[pc'[u].t] = pc'[u].h /\ pc'[u].h \notin unjoined
                             /\ pc'[u].at # "create_count" => count'[pc'[u].h] >= 1
                        /\ pc'[u].at \in Ending => u # Main /\ pc'[u].h = tid[u]
                        /\ pc'[u].at = "exit_free_info" => ~used[tid[u]]
      OBVIOUS
    <3>1. u \in Threads
      BY AtRunning
    <3>2. CASE pc'[u].at \notin Making \cup Ending
      BY <3>2 DEF Ending
    <3>3. CASE pc'[u] = pc[u]
      <4>1. count \in [Handles -> Nat]
        BY DEF LifeInv, LifeTypes
      <4> QED BY <2>2, <3>1, <3>3, <4>1 DEF LifeInv, HandleInv
    <3> QED BY <2>2, <3>1, <3>2, <3>3
  <2>5. \A u \in Named :
          /\ tid[u] \in Handles
          /\ used[tid[u]] \/ (u = running /\ pc'[u].at = "exit_free_info")
          /\ \A v \in Named : tid[v] = tid[u] => v = u
    BY <2>1, AtRunning DEF LifeInv, HandleInv, Named, Ending
  <2>6. \A g \in unjoined : used[g] => count'[g] >= 1
    BY <2>3 DEF LifeInv, LifeTypes, HandleInv
  <2>7. \A g \in Handles : used[g] => \E u \in Named : tid[u] = g
    BY DEF LifeInv, HandleInv
  <2> QED BY <2>4, <2>5, <2>6, <2>7 DEF HandleInv, Named
<1> QED BY <1>1, <1>3, <1>4, <1>5, <1>6 DEF LifeInv

\* A join does not find the ready queue empty.
LEMMA LifeWaitCheckUncut ==
  ASSUME LifeInv, ~cut, wait_check
  PROVE  LifeInv'
<1>1. /\ halt = "no" /\ pc[running].at = "wait_check"
      /\ UNCHANGED <<running, current, ready, wait, used, count, spinlock, fresh, alive, tid,
                     mu, unjoined, target, cut, halt>>
      /\ ready # <<>> => Goto("wait_lock")
  BY DEF wait_check, At, queues, table, lock, info, program
<1>2. ready # <<>>
  <2>1. target[running] \in ToSet(ready)
    BY <1>1, TargetIsReady DEF Joining
  <2>2. ready \in Seq(Threads)
    BY DEF LifeInv, LifeTypes
  <2> QED BY <2>1, <2>2, EmptyToSet
<1>3. Moves("wait_lock", H, pc[running].t)
  BY <1>1, <1>2, GotoMoves DEF Moves
<1>4. WellPlaced("wait_lock", H, pc[running].t)
  BY <1>1, AtRunning DEF WellPlaced, Places, Making, Ending, Joining, Leaving
<1>5. SameKind("wait_check", "wait_lock")
  BY DEF SameKind, Making, Ending, Joining
<1>6. pc'[running].at = "wait_lock"
  BY <1>1, <1>3, <1>4, MoveFacts
<1>7. RunInv'
  BY <1>1, <1>6 DEF LifeInv, RunInv, Locked, Cut, Joining, Leaving
<1>8. spinlock' \in {0, 1} /\ fresh' \in BOOLEAN
  BY <1>1 DEF LifeInv, LifeTypes
<1> QED BY <1>1, <1>3, <1>4, <1>5, <1>7, <1>8, LocalStep

\* A joiner that finds the ready queue empty returns.
LEMMA LifeWaitCheck ==
  ASSUME LifeInv, wait_check
  PROVE  LifeInv'
<1>1. /\ pc[running].at = "wait_check"
      /\ UNCHANGED <<running, current, ready, wait, used, count, spinlock, fresh, alive, tid,
                     mu, unjoined, target, cut, halt>>
      /\ Return \/ Goto("wait_lock")
  BY DEF wait_check, At, queues, table, lock, info, program
<1>2. ASSUME cut, NEW a \in {"user", "wait_lock"}, NEW h, Moves(a, h, Null),
             WellPlaced(a, h, Null)
      PROVE  LifeInv'
  <2>1. /\ count' \in [Handles -> Nat] /\ \A g \in Handles : count'[g] >= count[g]
        /\ mu' \in [Threads -> Numbers] /\ target' \in [Threads -> Threads \cup {Null}]
    BY <1>1 DEF LifeInv, LifeTypes
  <2>2. /\ pc[running].at \in Joining \ {"wait_queue"}
        /\ a \in (Joining \ {"wait_queue"}) \cup {"user"}
    BY <1>1, <1>2 DEF Joining
  <2> QED BY <1>1, <1>2, <2>1, <2>2, LifeCutJoin
<1>3. CASE Return
  <2>1. Moves("user", 0, Null) /\ WellPlaced("user", 0, Null)
    BY <1>3, AtRunning
       DEF Return, Moves, WellPlaced, Places, Making, Ending, Joining, Leaving
  <2>2. CASE ~cut
    BY <2>2, LifeWaitCheckUncut
  <2> QED BY <1>2, <2>1, <2>2
<1>4. CASE Goto("wait_lock")
  <2>1. pc[running].t = Null
    BY <1>1, AtRunning DEF Making
  <2>2. Moves("wait_lock", H, Null)
    BY <1>4, <2>1, GotoMoves DEF Moves
  <2>3. WellPlaced("wait_lock", H, Null)
    BY <1>1, AtRunning DEF WellPlaced, Places, Making, Ending, Joining, Leaving
  <2>4. CASE ~cut
    BY <2>4, LifeWaitCheckUncut
  <2> QED BY <1>2, <2>2, <2>3, <2>4
<1> QED BY <1>1, <1>3, <1>4

\* The count of a new thread's mutex, which nobody else uses yet.
LEMMA LifeCreateCount ==
  ASSUME LifeInv, create_count
  PROVE  LifeInv'
<1> DEFINE t == pc[running].t
<1>1. /\ halt = "no" /\ pc[running].at = "create_count"
      /\ count' = [count EXCEPT ![H] = 1]
      /\ Goto("create_lock")
      /\ UNCHANGED <<running, current, ready, wait, used, spinlock, fresh, alive, tid,
                     mu, unjoined, target, cut, halt>>
  BY DEF create_count, At, queues, lock, info, program
<1>2. Moves("create_lock", H, t) /\ WellPlaced("create_lock", H, t)
  <2>1. Moves("create_lock", H, t)
    BY <1>1, GotoMoves DEF Moves
  <2>2. WellPlaced("create_lock", H, t)
    BY <1>1, AtRunning DEF WellPlaced, Places, Making, Ending, Joining, Leaving
  <2> QED BY <2>1, <2>2
<1>3. H \in Handles
  BY <1>1, AtRunning DEF Making
<1> HIDE DEF t
<1>4. /\ pc' \in [Threads -> [at : Places, h : Numbers, t : Threads \cup {Null}]]
      /\ pc'[running].at = "create_lock" /\ pc'[running].h = H /\ pc'[running].t = t
      /\ \A u \in Threads : u # running => pc'[u] = pc[u]
      /\ PlaceInv' /\ (~cut => JoinersRun')
  BY <1>1, <1>2, MoveFacts
<1>5. \A u \in Threads : pc'[u].t = pc[u].t /\ pc'[u].h = pc[u].h
  BY <1>4 DEF t, H
<1>6. QueueInv' /\ \A u \in Threads, x \in Threads : Makes(u, x)' <=> Makes(u, x)
  BY <1>1, <1>5, QueuesStay
<1>7. /\ count' \in [Handles -> Nat] /\ count'[H] = 1
      /\ \A h \in Handles : h # H => count'[h] = count[h]
  BY <1>1, <1>3 DEF LifeInv, LifeTypes
<1>8. LifeTypes'
  BY <1>1, <1>4, <1>7 DEF LifeInv, LifeTypes
<1>9. RunInv'
  BY <1>1, <1>4 DEF LifeInv, RunInv, Locked, Cut, Joining, Leaving
<1>10. HandleInv'
  <2>1. \A u \in Threads : /\ pc'[u].at \in Making <=> pc[u].at \in Making
                           /\ pc'[u].at \in Ending <=> pc[u].at \in Ending
                           /\ pc'[u].at = "exit_free_info" <=> pc[u].at = "exit_free_info"
    BY <1>1, <1>4 DEF Making, Ending
  <2>2. /\ \A u \in alive : pc'[u].at \in Making =>
             /\ tid[pc'[u].t] = pc'[u].h /\ pc'[u].h \notin unjoined
             /\ pc'[u].at # "create_count" => count'[pc'[u].h] >= 1
        /\ \A u \in alive : pc'[u].at \in Ending => u # Main /\ pc'[u].h = tid[u]
    <3> SUFFICES ASSUME NEW u \in alive
                 PROVE  /\ pc'[u].at \in Making =>
                             /\ tid[pc'[u].t] = pc'[u].h /\ pc'[u].h \notin unjoined
                             /\ pc'[u].at # "create_count" => count'[pc'[u].h] >= 1
                        /\ pc'[u].at \in Ending => u # Main /\ pc'[u].h = tid[u]
      OBVIOUS
    <3>1. u \in Threads
      BY AtRunning
    <3>2. pc[u].at \in Making => pc[u].h \in Handles
      BY <3>1 DEF LifeInv, PlaceInv
    <3>3. /\ pc'[u].at \in Making => tid[pc'[u].t] = pc'[u].h /\ pc'[u].h \notin unjoined
          /\ pc'[u].at \in Ending => u # Main /\ pc'[u].h = tid[u]
      BY <1>5, <2>1, <3>1 DEF LifeInv, HandleInv
    <3>4. pc'[u].at \in Making /\ pc'[u].at # "create_count" => count'[pc'[u].h] >= 1
      BY <1>4, <1>5, <1>7, <2>1, <3>1, <3>2 DEF LifeInv, HandleInv, H
    <3> QED BY <3>3, <3>4
  <2>3. ASSUME NEW h \in unjoined, used[h] PROVE count'[h] >= 1
    <3>1. h \in Handles /\ count[h] >= 1
      BY <2>3 DEF LifeInv, LifeTypes, HandleInv
    <3> QED BY <1>7, <3>1
  <2>4. \A u \in Named :
          /\ tid[u] \in Handles
          /\ used[tid[u]] \/ (u = running /\ pc'[u].at = "exit_free_info")
          /\ \A v \in Named : tid[v] = tid[u] => v = u
    BY <2>1, AtRunning DEF LifeInv, HandleInv, Named
  <2>5. \A h \in Handles : used[h] => \E u \in Named : tid[u] = h
    BY DEF LifeInv, HandleInv
  <2>6. \A u \in alive : pc'[u].at = "exit_free_info" => ~used[tid[u]]
    BY <2>1, AtRunning DEF LifeInv, HandleInv
  <2> QED BY <1>1, <2>2, <2>3, <2>4, <2>5, <2>6 DEF HandleInv, Named
<1>11. ASSUME ~cut PROVE TargetInv'
  <2>1. \A u \in Threads : pc'[u].at \in {"exit_free_mutex", "exit_free_info"} <=>
                             pc[u].at \in {"exit_free_mutex", "exit_free_info"}
    BY <1>1, <1>4
  <2>2. pc'[running].at \notin Joining /\ pc[running].at \notin Joining
    BY <1>1, <1>4 DEF Joining
  <2>3. \A u \in Threads : target[u] # Null => target[u] \in Threads
    BY DEF LifeInv, LifeTypes
  <2>4. ToSet(wait) \subseteq Threads
    BY AtRunning DEF LifeInv, QueueInv
  <2> QED BY <1>11, <1>1, <1>4, <1>6, <2>1, <2>2, <2>3, <2>4, AtRunning
          DEF LifeInv, TargetInv, Named, Joining
<1> QED BY <1>1, <1>4, <1>6, <1>8, <1>9, <1>10, <1>11 DEF LifeInv

\* An exit begins.
LEMMA LifeExit ==
  ASSUME LifeInv, my_pthread_exit
  PROVE  LifeInv'
<1>1. /\ halt = "no" /\ pc[running] = User /\ running # Main
      /\ Moves("exit_lock", tid[running], Null) /\ fresh' = FALSE
      /\ UNCHANGED <<running, current, ready, wait, used, count, spinlock, alive, tid, mu,
                     unjoined, target, cut, halt>>
  BY DEF my_pthread_exit, InUser, Call, Moves, queues, table, info, program
<1>2. pc[running].at = "user" /\ pc[running].t = Null
  BY <1>1, AtRunning
<1>3. running \in Named
  BY <1>1, <1>2 DEF LifeInv, RunInv, Leaving, Named
<1>4. tid[running] \in Handles
  BY <1>3 DEF LifeInv, HandleInv
<1>5. WellPlaced("exit_lock", tid[running], Null)
  BY <1>4, AtRunning DEF WellPlaced, Places, Making, Ending, Joining, Leaving
<1>6. /\ pc' \in [Threads -> [at : Places, h : Numbers, t : Threads \cup {Null}]]
      /\ pc'[running].at = "exit_lock" /\ pc'[running].h = tid[running]
      /\ pc'[running].t = Null
      /\ \A u \in Threads : u # running => pc'[u] = pc[u]
      /\ PlaceInv' /\ (~cut => JoinersRun')
  BY <1>1, <1>5, MoveFacts
<1>7. \A u \in Threads : pc'[u].t = pc[u].t
  BY <1>2, <1>6
<1>8. QueueInv' /\ \A u \in Threads, x \in Threads : Makes(u, x)' <=> Makes(u, x)
  BY <1>1, <1>7, QueuesStay
<1>9. LifeTypes'
  BY <1>1, <1>6 DEF LifeInv, LifeTypes
<1>10. RunInv'
  BY <1>1, <1>2, <1>6 DEF LifeInv, RunInv, Locked, Cut, Joining, Leaving
<1>11. HandleInv'
  <2>1. \A u \in Threads : /\ pc'[u].at \in Making <=> pc[u].at \in Making
                           /\ pc'[u].at = "create_count" <=> pc[u].at = "create_count"
                           /\ pc'[u].at = "exit_free_info" <=> pc[u].at = "exit_free_info"
                           /\ u # running => pc'[u] = pc[u]
                           /\ pc'[u].at \in Making => pc'[u] = pc[u]
    BY <1>2, <1>6 DEF Making
  <2> QED BY <1>1, <1>6, <2>1, AtRunning DEF LifeInv, HandleInv, Named
<1>12. ASSUME ~cut PROVE TargetInv'
  <2>1. \A u \in Threads : pc'[u].at \in {"exit_free_mutex", "exit_free_info"} <=>
                             pc[u].at \in {"exit_free_mutex", "exit_free_info"}
    BY <1>2, <1>6
  <2>2. pc'[running].at \notin Joining /\ pc[running].at \notin Joining
    BY <1>2, <1>6 DEF Joining
  <2>3. \A u \in Threads : target[u] # Null => target[u] \in Threads
    BY DEF LifeInv, LifeTypes
  <2>4. ToSet(wait) \subseteq Threads
    BY AtRunning DEF LifeInv, QueueInv
  <2> QED BY <1>12, <1>1, <1>6, <1>8, <2>1, <2>2, <2>3, <2>4, AtRunning
          DEF LifeInv, TargetInv, Named, Joining
<1> QED BY <1>1, <1>6, <1>8, <1>9, <1>10, <1>11, <1>12 DEF LifeInv

\* CURRENT = NULL: the thread is gone.
LEMMA LifeExitNull ==
  ASSUME LifeInv, exit_null
  PROVE  LifeInv'
<1> DEFINE t == pc[running].t
<1>1. /\ halt = "no" /\ pc[running].at = "exit_null"
      /\ current' = Null /\ Goto("schedule")
      /\ UNCHANGED <<running, ready, wait, used, count, spinlock, fresh, alive, tid, mu,
                     unjoined, target, cut, halt>>
  BY DEF exit_null, At, table, lock, info, program
<1>2. Moves("schedule", H, t) /\ WellPlaced("schedule", H, t)
  <2>1. Moves("schedule", H, t)
    BY <1>1, GotoMoves DEF Moves
  <2>2. WellPlaced("schedule", H, t)
    BY <1>1, AtRunning DEF WellPlaced, Places, Making, Ending, Joining, Leaving
  <2> QED BY <2>1, <2>2
<1> HIDE DEF t
<1>3. /\ pc' \in [Threads -> [at : Places, h : Numbers, t : Threads \cup {Null}]]
      /\ pc'[running].at = "schedule" /\ pc'[running].h = H /\ pc'[running].t = t
      /\ \A u \in Threads : u # running => pc'[u] = pc[u]
      /\ PlaceInv' /\ (~cut => JoinersRun')
  BY <1>1, <1>2, MoveFacts
<1>4. \A u \in Threads : pc'[u].t = pc[u].t /\ pc'[u].h = pc[u].h
  BY <1>3 DEF t, H
<1>5. current = running /\ running \notin alive
  BY <1>1 DEF LifeInv, RunInv
<1>6. \A u \in Threads, x \in Threads : Makes(u, x)' <=> Makes(u, x)
  BY <1>1, <1>4 DEF Makes
<1>7. QueueInv'
  <2>1. \A x \in alive : x # current /\ x # current'
    BY <1>1, <1>5, AtRunning
  <2>2. \A u \in Threads, x \in Threads : Makes(u, x)' =>
          /\ x \in alive \ {Main, current', running}
          /\ x \notin ToSet(ready) \cup ToSet(wait)
          /\ \A v \in Threads : Makes(v, x)' => v = u
    BY <1>6, <2>1 DEF LifeInv, QueueInv
  <2>3. \A x \in alive : \/ x \in ToSet(ready) \cup ToSet(wait)
                         \/ \E u \in Threads : Makes(u, x)'
    BY <1>6, <2>1, AtRunning DEF LifeInv, QueueInv
  <2> QED BY <1>1, <2>1, <2>2, <2>3 DEF LifeInv, QueueInv
<1>8. LifeTypes'
  BY <1>1, <1>3 DEF LifeInv, LifeTypes
<1>9. RunInv'
  BY <1>1, <1>3, <1>5 DEF LifeInv, RunInv, Locked, Cut, Joining, Leaving
<1>10. \A u \in Threads : /\ pc'[u].at \in Making <=> pc[u].at \in Making
                          /\ pc'[u].at \in Ending <=> pc[u].at \in Ending
                          /\ pc'[u].at = "create_count" <=> pc[u].at = "create_count"
                          /\ pc'[u].at = "exit_free_mutex" <=> pc[u].at = "exit_free_mutex"
                          /\ pc'[u].at = "exit_free_info" <=> pc[u].at = "exit_free_info"
  BY <1>1, <1>3 DEF Making, Ending
<1>11. HandleInv'
  BY <1>1, <1>4, <1>10, AtRunning DEF LifeInv, HandleInv, Named
<1>12. ASSUME ~cut PROVE TargetInv'
  <2>1. pc'[running].at \notin Joining /\ pc[running].at \notin Joining
    BY <1>1, <1>3 DEF Joining
  <2>2. \A u \in Threads : target[u] # Null => target[u] \in Threads
    BY DEF LifeInv, LifeTypes
  <2>3. ToSet(wait) \subseteq Threads
    BY AtRunning DEF LifeInv, QueueInv
  <2> QED BY <1>12, <1>1, <1>3, <1>6, <1>10, <2>1, <2>2, <2>3, AtRunning
          DEF LifeInv, TargetInv, Named, Joining
<1> QED BY <1>1, <1>3, <1>7, <1>8, <1>9, <1>11, <1>12 DEF LifeInv

\* The exiting thread gives its handle back before its thread_info_t.
LEMMA LifeFreeMutex ==
  ASSUME LifeInv, free_mutex
  PROVE  LifeInv'
<1> DEFINE t == pc[running].t
<1>1. /\ halt = "no" /\ pc[running].at = "exit_free_mutex"
      /\ used' = [used EXCEPT ![H] = FALSE]
      /\ count' = [count EXCEPT ![H] = 0]
      /\ Goto("exit_free_info")
      /\ UNCHANGED <<running, current, ready, wait, spinlock, fresh, alive, tid, mu,
                     unjoined, target, cut, halt>>
  BY DEF free_mutex, At, queues, lock, info, program
<1>2. Moves("exit_free_info", H, t) /\ WellPlaced("exit_free_info", H, t)
  <2>1. Moves("exit_free_info", H, t)
    BY <1>1, GotoMoves DEF Moves
  <2>2. WellPlaced("exit_free_info", H, t)
    BY <1>1, AtRunning DEF WellPlaced, Places, Making, Ending, Joining, Leaving
  <2> QED BY <2>1, <2>2
<1> HIDE DEF t
<1>3. /\ pc' \in [Threads -> [at : Places, h : Numbers, t : Threads \cup {Null}]]
      /\ pc'[running].at = "exit_free_info" /\ pc'[running].h = H /\ pc'[running].t = t
      /\ \A u \in Threads : u # running => pc'[u] = pc[u]
      /\ PlaceInv' /\ (~cut => JoinersRun')
  BY <1>1, <1>2, MoveFacts
<1>4. \A u \in Threads : pc'[u].t = pc[u].t /\ pc'[u].h = pc[u].h
  BY <1>3 DEF t, H
<1>5. QueueInv' /\ \A u \in Threads, x \in Threads : Makes(u, x)' <=> Makes(u, x)
  BY <1>1, <1>4, QueuesStay
<1>6. running \in Named /\ H = tid[running] /\ H \in Handles
  <2>1. running \in alive
    BY <1>1 DEF LifeInv, RunInv, Leaving
  <2> QED BY <1>1, <2>1 DEF LifeInv, HandleInv, Ending, Named, H
<1>7. /\ used' \in [Handles -> BOOLEAN] /\ ~used'[H]
      /\ count' \in [Handles -> Nat]
      /\ \A h \in Handles : h # H => used'[h] = used[h] /\ count'[h] = count[h]
  BY <1>1, <1>6 DEF LifeInv, LifeTypes
<1>8. LifeTypes'
  BY <1>1, <1>3, <1>7 DEF LifeInv, LifeTypes
<1>9. RunInv'
  BY <1>1, <1>3 DEF LifeInv, RunInv, Locked, Cut, Joining, Leaving
<1>10. \A u \in Threads : /\ pc'[u].at \in Making <=> pc[u].at \in Making
                          /\ pc'[u].at \in Ending <=> pc[u].at \in Ending
                          /\ pc'[u].at = "create_count" <=> pc[u].at = "create_count"
  BY <1>1, <1>3 DEF Making, Ending
<1>11. HandleInv'
  <2>1. ASSUME NEW u \in Named, u # running
        PROVE  tid[u] \in Handles /\ tid[u] # H /\ used'[tid[u]]
    BY <1>1, <1>6, <1>7, <2>1 DEF LifeInv, HandleInv
  <2>2. \A u \in Named :
          /\ tid[u] \in Handles
          /\ used'[tid[u]] \/ (u = running /\ pc'[u].at = "exit_free_info")
          /\ \A v \in Named : tid[v] = tid[u] => v = u
    BY <1>3, <2>1 DEF LifeInv, HandleInv
  <2>3. \A h \in Handles : used'[h] => \E u \in Named : tid[u] = h
    BY <1>7 DEF LifeInv, HandleInv
  <2>4. \A h \in unjoined : used'[h] => count'[h] >= 1
    BY <1>7 DEF LifeInv, LifeTypes, HandleInv
  <2>5. ASSUME NEW u \in alive, pc'[u].at \in Making
        PROVE  /\ tid[pc'[u].t] = pc'[u].h /\ pc'[u].h \notin unjoined
               /\ pc'[u].at # "create_count" => count'[pc'[u].h] >= 1
    <3>1. u \in Threads /\ pc[u].at \in Making /\ u # running
      BY <1>3, <1>10, <2>5, AtRunning DEF Making
    <3>2. pc[u].t \in Threads
      BY <3>1, AtRunning DEF LifeInv, PlaceInv
    <3>3. Makes(u, pc[u].t)
      BY <2>5 DEF Makes
    <3>4. pc[u].t \in Named /\ pc[u].t # running
      BY <3>1, <3>2, <3>3 DEF LifeInv, QueueInv, Named
    <3>5. /\ tid[pc[u].t] = pc[u].h /\ pc[u].h \notin unjoined
          /\ pc[u].at # "create_count" => count[pc[u].h] >= 1
      BY <2>5, <3>1 DEF LifeInv, HandleInv
    <3> QED BY <1>3, <1>7, <2>1, <3>1, <3>4, <3>5
  <2>6. \A u \in alive : pc'[u].at \in Ending => u # Main /\ pc'[u].h = tid[u]
    BY <1>4, <1>10, AtRunning DEF LifeInv, HandleInv
  <2>7. \A u \in alive : pc'[u].at = "exit_free_info" => u = running
    BY <1>3, AtRunning DEF LifeInv, PlaceInv, Cut
  <2> QED BY <1>1, <1>6, <1>7, <2>2, <2>3, <2>4, <2>5, <2>6, <2>7 DEF HandleInv, Named
<1>12. ASSUME ~cut PROVE TargetInv'
  <2>1. pc'[running].at \notin Joining /\ pc[running].at \notin Joining
    BY <1>1, <1>3 DEF Joining
  <2>2. \A u \in Threads : target[u] # Null => target[u] \in Threads
    BY DEF LifeInv, LifeTypes
  <2>3. ToSet(wait) \subseteq Threads
    BY AtRunning DEF LifeInv, QueueInv
  <2>4. \A u \in Threads : pc'[u].at \in {"exit_free_mutex", "exit_free_info"} <=>
                             pc[u].at \in {"exit_free_mutex", "exit_free_info"}
    BY <1>1, <1>3
  <2> QED BY <1>12, <1>1, <1>3, <1>5, <2>1, <2>2, <2>3, <2>4, AtRunning
          DEF LifeInv, TargetInv, Named, Joining
<1> QED BY <1>1, <1>3, <1>5, <1>8, <1>9, <1>11, <1>12 DEF LifeInv

\* The thread_info_t goes, and with it what joins were about.
LEMMA LifeFreeInfo ==
  ASSUME LifeInv, free_thread_info
  PROVE  LifeInv'
<1> DEFINE t == pc[running].t
<1>1. /\ halt = "no" /\ pc[running].at = "exit_free_info"
      /\ alive' = alive \ {running}
      /\ target' = [u \in Threads |-> IF target[u] = running THEN Null ELSE target[u]]
      /\ Goto("exit_null")
      /\ UNCHANGED <<running, current, ready, wait, used, count, spinlock, fresh, tid, mu,
                     unjoined, cut, halt>>
  BY DEF free_thread_info, At, queues, table, lock
<1>2. Moves("exit_null", H, t) /\ WellPlaced("exit_null", H, t) /\ t = Null
  <2>1. Moves("exit_null", H, t)
    BY <1>1, GotoMoves DEF Moves
  <2>2. WellPlaced("exit_null", H, t) /\ t = Null
    BY <1>1, AtRunning DEF WellPlaced, Places, Making, Ending, Joining, Leaving
  <2> QED BY <2>1, <2>2
<1> HIDE DEF t
<1>3. /\ pc' \in [Threads -> [at : Places, h : Numbers, t : Threads \cup {Null}]]
      /\ pc'[running].at = "exit_null" /\ pc'[running].h = H /\ pc'[running].t = Null
      /\ \A u \in Threads : u # running => pc'[u] = pc[u]
      /\ PlaceInv' /\ (~cut => JoinersRun')
  BY <1>1, <1>2, MoveFacts
<1>4. running \in Named /\ current = running /\ ~used[tid[running]]
  <2>1. running \in alive /\ current = running
    BY <1>1 DEF LifeInv, RunInv, Leaving
  <2> QED BY <1>1, <2>1 DEF LifeInv, HandleInv, Ending, Named
<1>5. \A u \in Threads, x \in Threads : Makes(u, x)' <=> Makes(u, x)
  BY <1>1, <1>2, <1>3, AtRunning DEF Makes, t
<1>6. QueueInv'
  <2>1. \A u \in Threads, x \in Threads : Makes(u, x)' =>
          /\ x \in alive' \ {Main, current, running}
          /\ x \notin ToSet(ready) \cup ToSet(wait)
          /\ \A v \in Threads : Makes(v, x)' => v = u
    BY <1>1, <1>5 DEF LifeInv, QueueInv
  <2>2. \A x \in alive' : \/ x = current \/ x \in ToSet(ready) \cup ToSet(wait)
                          \/ \E u \in Threads : Makes(u, x)'
    BY <1>1, <1>5, AtRunning DEF LifeInv, QueueInv
  <2>3. \A x \in ToSet(ready) \cup ToSet(wait) : x \in alive' /\ x # current
    BY <1>1, <1>4 DEF LifeInv, QueueInv
  <2>4. Main \in alive'
    BY <1>1, <1>4 DEF LifeInv, QueueInv, Named
  <2> QED BY <1>1, <2>1, <2>2, <2>3, <2>4 DEF LifeInv, QueueInv
<1>7. target' \in [Threads -> Threads \cup {Null}]
  BY <1>1 DEF LifeInv, LifeTypes
<1>8. LifeTypes'
  BY <1>1, <1>3, <1>7 DEF LifeInv, LifeTypes
<1>9. RunInv'
  BY <1>1, <1>3, <1>4 DEF LifeInv, RunInv, Locked, Cut, Joining, Leaving
<1>10. HandleInv'
  <2>1. Named' = Named \ {running}
    BY <1>1 DEF Named
  <2>2. \A h \in Handles : used[h] => \E u \in Named' : tid[u] = h
    <3> SUFFICES ASSUME NEW h \in Handles, used[h]
                 PROVE  \E u \in Named' : tid[u] = h
      OBVIOUS
    <3>1. PICK u \in Named : tid[u] = h
      BY DEF LifeInv, HandleInv
    <3> QED BY <1>4, <2>1, <3>1
  <2>3. \A u \in Named' :
          /\ tid[u] \in Handles
          /\ used[tid[u]]
          /\ \A v \in Named' : tid[v] = tid[u] => v = u
    BY <2>1 DEF LifeInv, HandleInv
  <2>4. \A u \in alive' : u \in alive /\ pc'[u] = pc[u] /\ pc[u].at # "exit_free_info"
    BY <1>1, <1>3, AtRunning DEF LifeInv, PlaceInv, Cut
  <2> QED BY <1>1, <2>2, <2>3, <2>4 DEF LifeInv, HandleInv
<1>11. ASSUME ~cut PROVE TargetInv'
  <2>1. pc'[running].at \notin Joining /\ pc[running].at \notin Joining
    BY <1>1, <1>3 DEF Joining
  <2>2. \A u \in Threads : target'[u] # Null => target'[u] = target[u] /\ target[u] # running
    BY <1>1
  <2>3. \A u \in ToSet(wait) : u \in Threads /\ target[u] # running /\ target'[u] = target[u]
                               /\ target[u] \in Threads
    <3> SUFFICES ASSUME NEW u \in ToSet(wait)
                 PROVE  u \in Threads /\ target[u] # running /\ target'[u] = target[u]
                        /\ target[u] \in Threads
      OBVIOUS
    <3>1. u \in Threads
      BY AtRunning DEF LifeInv, QueueInv
    <3>2. target[u] # Null /\ pc[target[u]].at # "exit_free_info"
      BY <1>11 DEF LifeInv, TargetInv
    <3> QED BY <1>1, <3>1, <3>2 DEF LifeInv, LifeTypes
  <2>4. ASSUME NEW u \in Threads, target'[u] # Null
        PROVE  /\ target'[u] \in Named' \ Joiners
               /\ tid[target'[u]] \notin unjoined
               /\ \A v \in Threads : target'[v] = target'[u] => v = u
               /\ \A v \in Threads : ~Makes(v, target[u])'
               /\ u \in ToSet(wait)
    <3>1. target'[u] = target[u] /\ target[u] # running /\ target[u] # Null
      BY <2>2, <2>4
    <3>2. /\ target[u] \in Named \ Joiners
          /\ tid[target[u]] \notin unjoined
          /\ \A v \in Threads : target[v] = target[u] => v = u
          /\ \A v \in Threads : ~Makes(v, target[u])
          /\ u \in ToSet(wait)
      BY <1>11, <2>1, <3>1 DEF LifeInv, TargetInv
    <3>3. target[u] \in Threads
      BY <3>2, AtRunning DEF Named
    <3>4. target'[u] \in Named'
      BY <1>1, <3>1, <3>2 DEF Named
    <3>5. \A v \in Threads : target'[v] = target'[u] => v = u
      BY <2>2, <3>1, <3>2
    <3>6. \A v \in Threads : ~Makes(v, target[u])'
      BY <1>1, <1>2, <1>3, <3>1, <3>2, <3>3, AtRunning DEF Makes, t
    <3> QED BY <3>1, <3>2, <3>4, <3>5, <3>6
  <2>5. \A u \in ToSet(wait) :
          /\ u \in Joiners /\ target'[u] # Null /\ mu[u] = tid[target'[u]]
          /\ pc'[target'[u]].at \notin {"exit_free_mutex", "exit_free_info"}
    BY <1>11, <1>3, <2>3 DEF LifeInv, TargetInv
  <2> QED BY <1>1, <2>1, <2>4, <2>5 DEF TargetInv, Joining, Makes
<1> QED BY <1>1, <1>3, <1>6, <1>8, <1>9, <1>10, <1>11 DEF LifeInv

\* Who waits for the handle of an exiting thread waits for this thread.
LEMMA WaitersOf ==
  ASSUME LifeInv, ~cut, pc[running].at = "exit_wake"
  PROVE  /\ running \in Named /\ H = tid[running] /\ current = running
         /\ \A t \in ToSet(wait) : mu[t] = H <=> target[t] = running
         /\ (\A i \in 1 .. Len(wait) : ~FirstWaiter(H, i)) =>
              \A t \in ToSet(wait) : target[t] # running
         /\ \A i \in 1 .. Len(wait) : FirstWaiter(H, i) =>
              target[wait[i]] = running /\ \A t \in ToSet(wait) : target[t] = running => t = wait[i]
<1>1. running \in alive /\ current = running
  BY DEF LifeInv, RunInv, Leaving
<1>2. running \in Named /\ H = tid[running]
  BY <1>1 DEF LifeInv, HandleInv, Ending, Named, H
<1>3. \A t \in ToSet(wait) : mu[t] = H <=> target[t] = running
  <2> SUFFICES ASSUME NEW t \in ToSet(wait)
               PROVE  mu[t] = H <=> target[t] = running
    OBVIOUS
  <2>1. t \in Threads
    BY AtRunning DEF LifeInv, QueueInv
  <2>2. target[t] \in Named /\ mu[t] = tid[target[t]]
    BY <2>1 DEF LifeInv, TargetInv
  <2> QED BY <1>2, <2>2 DEF LifeInv, HandleInv
<1>4. Len(wait) \in Nat /\ DOMAIN wait = 1 .. Len(wait)
  BY LenProperties DEF LifeInv, LifeTypes
<1>5. ASSUME NEW t \in ToSet(wait), target[t] = running
      PROVE  \E i \in 1 .. Len(wait) : FirstWaiter(H, i)
  <2> DEFINE I == {i \in 1 .. Len(wait) : mu[wait[i]] = H}
  <2>1. I \in SUBSET Nat /\ I # {}
    <3>1. PICK i \in 1 .. Len(wait) : wait[i] = t
      BY <1>4 DEF ToSet
    <3> QED BY <1>3, <1>4, <1>5, <3>1
  <2> HIDE DEF I
  <2>2. PICK i \in I : \A j \in I : i <= j
    BY <2>1, LeastNatural
  <2>3. i \in 1 .. Len(wait) /\ mu[wait[i]] = H
    BY <2>2 DEF I
  <2>4. \A j \in 1 .. i - 1 : mu[wait[j]] # H
    <3> SUFFICES ASSUME NEW j \in 1 .. i - 1, mu[wait[j]] = H PROVE FALSE
      OBVIOUS
    <3>1. j \in 1 .. Len(wait) /\ j < i
      BY <1>4, <2>3
    <3>2. j \in I
      BY <3>1 DEF I
    <3> QED BY <1>4, <2>2, <2>3, <3>1, <3>2
  <2> QED BY <2>3, <2>4 DEF FirstWaiter
<1>6. ASSUME NEW i \in 1 .. Len(wait), FirstWaiter(H, i)
      PROVE  target[wait[i]] = running /\ \A t \in ToSet(wait) : target[t] = running => t = wait[i]
  <2>1. wait[i] \in ToSet(wait) /\ mu[wait[i]] = H
    BY <1>4, <1>6 DEF FirstWaiter, ToSet
  <2>2. target[wait[i]] = running
    BY <1>3, <2>1
  <2>3. ToSet(wait) \subseteq Threads
    BY AtRunning DEF LifeInv, QueueInv
  <2> QED BY <2>1, <2>2, <2>3, AtRunning DEF LifeInv, TargetInv
<1> QED BY <1>1, <1>2, <1>3, <1>5, <1>6

\* A thread goes from the wait queue to the ready queue, or none does.
LEMMA QueuesShift ==
  ASSUME LifeInv, UNCHANGED <<running, current, alive>>,
         \A u \in Threads : pc'[u].t = pc[u].t,
         IsInjective(ready'), IsInjective(wait'), ToSet(ready') \cap ToSet(wait') = {},
         ToSet(ready') \cup ToSet(wait') = ToSet(ready) \cup ToSet(wait)
  PROVE  /\ QueueInv'
         /\ \A u \in Threads, t \in Threads : Makes(u, t)' <=> Makes(u, t)
<1>1. \A u \in Threads, t \in Threads : Makes(u, t)' <=> Makes(u, t)
  BY DEF Makes
<1>2. \A u \in Threads, t \in Threads : Makes(u, t)' =>
        /\ t \in alive \ {Main, current, running}
        /\ t \notin ToSet(ready') \cup ToSet(wait')
        /\ \A v \in Threads : Makes(v, t)' => v = u
  BY <1>1 DEF LifeInv, QueueInv
<1>3. \A t \in alive : \/ t = current \/ t \in ToSet(ready') \cup ToSet(wait')
                       \/ \E u \in Threads : Makes(u, t)'
  BY <1>1, AtRunning DEF LifeInv, QueueInv
<1> QED BY <1>1, <1>2, <1>3 DEF LifeInv, QueueInv

\* release_all_thread wakes whoever joins the exiting thread.
LEMMA LifeExitWake ==
  ASSUME LifeInv, exit_wake
  PROVE  LifeInv'
<1> DEFINE t == pc[running].t
<1>1. /\ halt = "no" /\ pc[running].at = "exit_wake"
      /\ spinlock' = 0 /\ Goto("exit_free_mutex")
      /\ UNCHANGED <<running, current, used, count, fresh, alive, tid, mu,
                     unjoined, target, cut, halt>>
  BY DEF exit_wake, At, release_queue_spinlock, table, info, program
<1>2. Moves("exit_free_mutex", H, t) /\ WellPlaced("exit_free_mutex", H, t) /\ t = Null
  <2>1. Moves("exit_free_mutex", H, t)
    BY <1>1, GotoMoves DEF Moves
  <2>2. WellPlaced("exit_free_mutex", H, t) /\ t = Null
    BY <1>1, AtRunning DEF WellPlaced, Places, Making, Ending, Joining, Leaving
  <2> QED BY <2>1, <2>2
<1> HIDE DEF t
<1>3. /\ pc' \in [Threads -> [at : Places, h : Numbers, t : Threads \cup {Null}]]
      /\ pc'[running].at = "exit_free_mutex" /\ pc'[running].h = H /\ pc'[running].t = t
      /\ \A u \in Threads : u # running => pc'[u] = pc[u]
      /\ PlaceInv' /\ (~cut => JoinersRun')
  BY <1>1, <1>2, MoveFacts
<1>4. \A u \in Threads : pc'[u].t = pc[u].t /\ pc'[u].h = pc[u].h
  BY <1>3 DEF t, H
<1>5. ~cut => /\ running \in Named /\ H = tid[running] /\ current = running
              /\ (\A i \in 1 .. Len(wait) : ~FirstWaiter(H, i)) =>
                   \A u \in ToSet(wait) : target[u] # running
              /\ \A i \in 1 .. Len(wait) : FirstWaiter(H, i) =>
                   /\ target[wait[i]] = running
                   /\ \A u \in ToSet(wait) : target[u] = running => u = wait[i]
  BY <1>1, WaitersOf
<1>6. /\ ready' \in Seq(Threads) /\ wait' \in Seq(Threads)
      /\ IsInjective(ready') /\ IsInjective(wait')
      /\ ToSet(ready') \cap ToSet(wait') = {}
      /\ ToSet(ready') \cup ToSet(wait') = ToSet(ready) \cup ToSet(wait)
      /\ ~cut => ToSet(wait') = {u \in ToSet(wait) : target[u] # running}
  <2>1. CASE (\A i \in 1 .. Len(wait) : ~FirstWaiter(H, i)) /\ UNCHANGED <<ready, wait>>
    BY <1>5, <2>1 DEF LifeInv, LifeTypes, QueueInv
  <2>2. CASE \E i \in 1 .. Len(wait) :
               /\ FirstWaiter(H, i)
               /\ wait' = RemoveAt(wait, i)
               /\ ready' = Append(ready, wait[i])
    <3>1. PICK i \in 1 .. Len(wait) :
               /\ FirstWaiter(H, i)
               /\ wait' = RemoveAt(wait, i)
               /\ ready' = Append(ready, wait[i])
      BY <2>2
    <3>2. /\ ready \in Seq(Threads) /\ wait \in Seq(Threads)
          /\ IsInjective(ready) /\ IsInjective(wait)
          /\ ToSet(ready) \cap ToSet(wait) = {}
      BY DEF LifeInv, LifeTypes, QueueInv
    <3>3. /\ RemoveAt(wait, i) \in Seq(Threads)
          /\ wait[i] \in Threads /\ wait[i] \in ToSet(wait)
          /\ ToSet(RemoveAt(wait, i)) = ToSet(wait) \ {wait[i]}
          /\ IsInjective(RemoveAt(wait, i))
      BY <3>2, RemoveAtToSet
    <3>4. /\ Append(ready, wait[i]) \in Seq(Threads)
          /\ ToSet(Append(ready, wait[i])) = ToSet(ready) \cup {wait[i]}
          /\ IsInjective(Append(ready, wait[i]))
      BY <3>2, <3>3, AppendToSet
    <3>5. ~cut => /\ target[wait[i]] = running
                  /\ \A u \in ToSet(wait) : target[u] = running => u = wait[i]
      BY <1>5, <3>1
    <3> QED BY <3>1, <3>2, <3>3, <3>4, <3>5
  <2> QED BY <2>1, <2>2 DEF exit_wake
<1>7. QueueInv' /\ \A u \in Threads, x \in Threads : Makes(u, x)' <=> Makes(u, x)
  BY <1>1, <1>4, <1>6, QueuesShift
<1>8. LifeTypes'
  BY <1>1, <1>3, <1>6 DEF LifeInv, LifeTypes
<1>9. RunInv'
  BY <1>1, <1>3 DEF LifeInv, RunInv, Locked, Cut, Joining, Leaving
<1>10. HandleInv'
  <2>1. \A u \in Threads : /\ pc'[u].at \in Making <=> pc[u].at \in Making
                           /\ pc'[u].at \in Ending <=> pc[u].at \in Ending
                           /\ pc'[u].at = "create_count" <=> pc[u].at = "create_count"
                           /\ pc'[u].at = "exit_free_info" <=> pc[u].at = "exit_free_info"
    BY <1>1, <1>3 DEF Making, Ending
  <2> QED BY <1>1, <1>4, <2>1, AtRunning DEF LifeInv, HandleInv, Named
<1>11. ASSUME ~cut PROVE TargetInv'
  <2>1. pc'[running].at \notin Joining /\ pc[running].at \notin Joining
    BY <1>1, <1>3 DEF Joining
  <2>2. \A u \in Threads : target[u] # Null => target[u] \in Threads
    BY DEF LifeInv, LifeTypes
  <2>3. ToSet(wait') \subseteq ToSet(wait) /\ ToSet(wait) \subseteq Threads
    BY <1>6, <1>11, AtRunning DEF LifeInv, QueueInv
  <2>4. ASSUME NEW u \in Threads, target[u] # Null
        PROVE  /\ target[u] \in Named \ Joiners
               /\ tid[target[u]] \notin unjoined
               /\ \A v \in Threads : target[v] = target[u] => v = u
               /\ \A v \in Threads : ~Makes(v, target[u])'
               /\ u \in ToSet(wait') \/ target[u] = running
    <3>1. u \in ToSet(wait)
      BY <1>11, <1>1, <2>1, <2>4 DEF LifeInv, TargetInv
    <3>2. \A v \in Threads : ~Makes(v, target[u])'
      BY <1>11, <1>1, <1>4, <2>4 DEF LifeInv, TargetInv, Makes
    <3> QED BY <1>11, <1>6, <2>4, <3>1, <3>2 DEF LifeInv, TargetInv
  <2>5. ASSUME NEW u \in ToSet(wait')
        PROVE  /\ u \in Joiners /\ target[u] # Null /\ mu[u] = tid[target[u]]
               /\ pc'[target[u]].at \notin {"exit_free_mutex", "exit_free_info"}
    <3>1. u \in ToSet(wait) /\ target[u] # running /\ u \in Threads
      BY <1>6, <1>11, <2>3
    <3> QED BY <1>11, <1>3, <2>2, <3>1 DEF LifeInv, TargetInv
  <2> QED BY <1>1, <1>3, <2>1, <2>4, <2>5 DEF TargetInv, Named, Joining, Makes
<1> QED BY <1>1, <1>3, <1>7, <1>8, <1>9, <1>10, <1>11 DEF LifeInv

\* The head of the ready queue leaves it, for a thread x or for nobody.
LEMMA QueueTurns ==
  ASSUME NEW rq \in Seq(Threads), rq # <<>>, IsInjective(rq),
         NEW x \in Threads \cup {Null}, x \notin ToSet(rq),
         NEW new, new = IF x = Null THEN Tail(rq) ELSE Append(Tail(rq), x)
  PROVE  /\ Head(rq) \in Threads /\ Head(rq) \in ToSet(rq)
         /\ new \in Seq(Threads) /\ IsInjective(new)
         /\ ToSet(new) = (ToSet(rq) \ {Head(rq)}) \cup ({x} \ {Null})
<1>1. /\ Head(rq) \in Threads /\ Tail(rq) \in Seq(Threads)
      /\ ToSet(rq) = {Head(rq)} \cup ToSet(Tail(rq))
      /\ IsInjective(Tail(rq)) /\ Head(rq) \notin ToSet(Tail(rq))
  BY HeadTailToSet
<1>2. ASSUME x # Null
      PROVE  /\ Append(Tail(rq), x) \in Seq(Threads)
             /\ ToSet(Append(Tail(rq), x)) = ToSet(Tail(rq)) \cup {x}
             /\ IsInjective(Append(Tail(rq), x))
  <2> DEFINE r == Tail(rq)
  <2>1. x \in Threads /\ x \notin ToSet(r) /\ r \in Seq(Threads) /\ IsInjective(r)
    BY <1>1, <1>2
  <2> HIDE DEF r
  <2>2. /\ Append(r, x) \in Seq(Threads)
        /\ ToSet(Append(r, x)) = ToSet(r) \cup {x}
        /\ IsInjective(r) /\ x \notin ToSet(r) => IsInjective(Append(r, x))
    BY <2>1, AppendToSet
  <2> QED BY <2>1, <2>2 DEF r
<1>3. Null \notin Threads
  BY LifecycleAssumption
<1> QED BY <1>1, <1>2, <1>3

\* schedule() takes the head of the ready queue and leaves CURRENT at its end.
LEMMA LifeScheduleQueue ==
  ASSUME LifeInv, schedule_queue
  PROVE  LifeInv'
<1> DEFINE t == pc[running].t
<1>1. /\ halt = "no" /\ pc[running].at = "schedule_queue"
      /\ ready # <<>> /\ current' = Head(ready)
      /\ ready' = IF current = Null THEN Tail(ready) ELSE Append(Tail(ready), current)
      /\ spinlock' = 0 /\ Goto("swap")
      /\ UNCHANGED <<running, wait, used, count, fresh, alive, tid, mu, unjoined, target, cut,
                     halt>>
  BY DEF schedule_queue, At, Requeue, release_queue_spinlock, table, info, program
<1>2. Moves("swap", H, t) /\ WellPlaced("swap", H, t) /\ t = Null
  <2>1. Moves("swap", H, t)
    BY <1>1, GotoMoves DEF Moves
  <2>2. WellPlaced("swap", H, t) /\ t = Null
    BY <1>1, AtRunning DEF WellPlaced, Places, Making, Ending, Joining, Leaving
  <2> QED BY <2>1, <2>2
<1> HIDE DEF t
<1>3. /\ pc' \in [Threads -> [at : Places, h : Numbers, t : Threads \cup {Null}]]
      /\ pc'[running].at = "swap" /\ pc'[running].h = H /\ pc'[running].t = t
      /\ \A u \in Threads : u # running => pc'[u] = pc[u]
      /\ PlaceInv' /\ (~cut => JoinersRun')
  BY <1>1, <1>2, MoveFacts
<1>4. \A u \in Threads : pc'[u].t = pc[u].t /\ pc'[u].h = pc[u].h
  BY <1>3 DEF t, H
<1>5. \/ current = running /\ running \in alive
      \/ current = Null /\ running \notin alive /\ fresh
  BY <1>1 DEF LifeInv, RunInv
<1>6. /\ current' \in Threads /\ current' \in ToSet(ready)
      /\ ready' \in Seq(Threads) /\ IsInjective(ready')
      /\ ToSet(ready') = (ToSet(ready) \ {current'}) \cup ({current} \ {Null})
  <2>1. /\ ready \in Seq(Threads) /\ IsInjective(ready)
        /\ current \in Threads \cup {Null} /\ current \notin ToSet(ready)
    BY DEF LifeInv, LifeTypes, QueueInv
  <2> QED BY <1>1, <2>1, QueueTurns
<1>7. \A u \in Threads, x \in Threads : Makes(u, x)' <=> Makes(u, x)
  BY <1>1, <1>4 DEF Makes
<1>8. QueueInv'
  <2>1. current' \in alive /\ current' # current /\ current' \notin ToSet(wait)
    BY <1>6 DEF LifeInv, QueueInv
  <2>2. current # Null => current \in alive /\ current \notin ToSet(wait)
    BY <1>5 DEF LifeInv, QueueInv
  <2>3. \A u \in Threads, x \in Threads : Makes(u, x)' =>
          /\ x \in alive \ {Main, current', running}
          /\ x \notin ToSet(ready') \cup ToSet(wait)
          /\ \A v \in Threads : Makes(v, x)' => v = u
    BY <1>6, <1>7 DEF LifeInv, QueueInv
  <2>4. \A x \in alive : \/ x = current' \/ x \in ToSet(ready') \cup ToSet(wait)
                         \/ \E u \in Threads : Makes(u, x)'
    BY <1>6, <1>7, AtRunning DEF LifeInv, QueueInv
  <2>5. ToSet(ready') \cap ToSet(wait) = {}
    BY <1>6, <2>2 DEF LifeInv, QueueInv
  <2>6. \A x \in ToSet(ready') \cup ToSet(wait) : x \in alive /\ x # current'
    BY <1>6, <2>1, <2>2 DEF LifeInv, QueueInv
  <2> QED BY <1>1, <1>6, <2>3, <2>4, <2>5, <2>6 DEF LifeInv, QueueInv
<1>9. LifeTypes'
  BY <1>1, <1>3, <1>6 DEF LifeInv, LifeTypes
<1>10. RunInv'
  <2>1. fresh
    BY <1>1 DEF LifeInv, RunInv, Cut, Joining
  <2>2. current' \in alive /\ current' # running
    BY <1>5, <1>6 DEF LifeInv, QueueInv
  <2> QED BY <1>1, <1>3, <2>1, <2>2 DEF LifeInv, RunInv, Locked, Cut, Joining, Leaving
<1>11. HandleInv'
  <2>1. \A u \in Threads : /\ pc'[u].at \in Making <=> pc[u].at \in Making
                           /\ pc'[u].at \in Ending <=> pc[u].at \in Ending
                           /\ pc'[u].at = "create_count" <=> pc[u].at = "create_count"
                           /\ pc'[u].at = "exit_free_info" <=> pc[u].at = "exit_free_info"
    BY <1>1, <1>3 DEF Making, Ending
  <2> QED BY <1>1, <1>4, <2>1, AtRunning DEF LifeInv, HandleInv, Named
<1>12. ASSUME ~cut PROVE TargetInv'
  <2>1. pc'[running].at \notin Joining /\ pc[running].at \notin Joining
    BY <1>1, <1>3 DEF Joining
  <2>2. \A u \in Threads : target[u] # Null => target[u] \in Threads
    BY DEF LifeInv, LifeTypes
  <2>3. ToSet(wait) \subseteq Threads
    BY AtRunning DEF LifeInv, QueueInv
  <2>4. \A u \in Threads : pc'[u].at \in {"exit_free_mutex", "exit_free_info"} <=>
                             pc[u].at \in {"exit_free_mutex", "exit_free_info"}
    BY <1>1, <1>3
  <2> QED BY <1>12, <1>1, <1>3, <1>7, <2>1, <2>2, <2>3, <2>4, AtRunning
          DEF LifeInv, TargetInv, Named, Joining
<1> QED BY <1>1, <1>3, <1>8, <1>9, <1>10, <1>11, <1>12 DEF LifeInv

\* The thread at the head of the queue returns to user code.
LEMMA LifeSwap ==
  ASSUME LifeInv, swapcontext
  PROVE  LifeInv'
<1>1. /\ halt = "no" /\ pc[running].at = "swap"
      /\ running' = current /\ pc' = [pc EXCEPT ![running] = User]
      /\ UNCHANGED <<current, ready, wait, used, count, spinlock, fresh, alive, tid, mu,
                     unjoined, target, cut, halt>>
  BY DEF swapcontext, At, Return, table, lock, info, program
<1>2. current \in alive /\ current # running /\ fresh
  BY <1>1 DEF LifeInv, RunInv
<1>3. /\ pc' \in [Threads -> [at : Places, h : Numbers, t : Threads \cup {Null}]]
      /\ pc'[running] = User
      /\ \A u \in Threads : u # running => pc'[u] = pc[u]
  <2>1. User \in [at : Places, h : Numbers, t : Threads \cup {Null}]
    BY AtRunning DEF User, Stmt, Places
  <2> QED BY <1>1, <2>1, AtRunning
<1>4. pc[running].t = Null /\ User.at = "user" /\ User.t = Null
  BY <1>1, AtRunning DEF Making
<1>5. \A u \in Threads : pc'[u].t = pc[u].t
  BY <1>3, <1>4
<1>6. \A u \in Threads, x \in Threads : Makes(u, x)' <=> Makes(u, x)
  BY <1>1, <1>5 DEF Makes
<1>7. PlaceInv'
  <2> SUFFICES ASSUME NEW u \in Threads
               PROVE  /\ pc'[u].at = "user" => pc'[u] = User
                      /\ pc'[u].t # Null <=> pc'[u].at \in Making
                      /\ pc'[u].at \in Making \cup Ending \cup Joining => pc'[u].h \in Handles
                      /\ u # current => pc'[u].at \in Cut
                      /\ u \notin alive /\ u # current => pc'[u] = User
    BY <1>1 DEF PlaceInv
  <2>1. CASE u = running
    BY <1>3, <1>4, <2>1 DEF Making, Ending, Joining, Cut
  <2>2. CASE u # running
    BY <1>3, <2>2 DEF LifeInv, PlaceInv
  <2> QED BY <2>1, <2>2
<1>8. QueueInv'
  <2>1. \A u \in Threads, x \in Threads : Makes(u, x)' =>
          /\ x \in alive \ {Main, current, running'}
          /\ x \notin ToSet(ready) \cup ToSet(wait)
          /\ \A v \in Threads : Makes(v, x)' => v = u
    BY <1>1, <1>6 DEF LifeInv, QueueInv
  <2>2. \A x \in alive : \/ x = current \/ x \in ToSet(ready) \cup ToSet(wait)
                         \/ \E u \in Threads : Makes(u, x)'
    BY <1>6, AtRunning DEF LifeInv, QueueInv
  <2> QED BY <1>1, <2>1, <2>2 DEF LifeInv, QueueInv
<1>9. LifeTypes'
  BY <1>1, <1>2, <1>3, AtRunning DEF LifeInv, LifeTypes
<1>10. pc'[current] = pc[current] /\ pc[current].at \in Cut
  BY <1>2, <1>3, AtRunning DEF LifeInv, PlaceInv
<1>11. RunInv'
  <2>1. pc'[running'].at \in Cut
    BY <1>1, <1>10
  <2>2. spinlock = 0
    BY <1>1 DEF LifeInv, LifeTypes, RunInv, Locked
  <2> QED BY <1>1, <1>2, <2>1, <2>2 DEF RunInv, Locked, Cut, Leaving
<1>12. \A u \in Threads : /\ pc'[u].at \in Making <=> pc[u].at \in Making
                          /\ pc'[u].at \in Ending <=> pc[u].at \in Ending
                          /\ pc'[u].at \in {"exit_free_mutex", "exit_free_info"} <=>
                               pc[u].at \in {"exit_free_mutex", "exit_free_info"}
                          /\ pc'[u].at \in Making \cup Ending => pc'[u] = pc[u]
                          /\ pc[u].at # "exit_free_info"
  <2>1. \A u \in Threads : u # running => pc[u].at # "exit_free_info"
    BY DEF LifeInv, PlaceInv, Cut
  <2> QED BY <1>1, <1>3, <1>4, <2>1 DEF Making, Ending
<1>13. HandleInv'
  <2>1. \A u \in Named : used[tid[u]]
    BY <1>12, AtRunning DEF LifeInv, HandleInv, Named
  <2> QED BY <1>1, <1>12, <2>1, AtRunning DEF LifeInv, HandleInv, Named
<1>14. ASSUME ~cut PROVE TargetInv'
  <2>1. pc'[running'].at \notin Joining /\ pc[running].at \notin Joining
    <3>1. pc[current].at \notin Joining
      BY <1>2, <1>14, AtRunning DEF LifeInv, JoinersRun
    <3> QED BY <1>1, <1>10, <3>1 DEF Joining
  <2>2. \A u \in Threads : target[u] # Null => target[u] \in Threads
    BY DEF LifeInv, LifeTypes
  <2>3. ToSet(wait) \subseteq Threads
    BY AtRunning DEF LifeInv, QueueInv
  <2>4. \A u \in Threads : target[u] # Null => u \in ToSet(wait)
    BY <1>14, <1>1, <2>1 DEF LifeInv, TargetInv
  <2> QED BY <1>14, <1>1, <1>6, <1>12, <2>1, <2>2, <2>3, <2>4, AtRunning
          DEF LifeInv, TargetInv, Named, Joining
<1>15. ASSUME ~cut PROVE JoinersRun'
  <2>1. \A u \in Threads : u # running => pc'[u].at \notin Joining
    BY <1>3, <1>15 DEF LifeInv, JoinersRun
  <2>2. pc'[running].at \notin Joining
    BY <1>3, <1>4 DEF Joining
  <2> QED BY <2>1, <2>2 DEF JoinersRun
<1> QED BY <1>1, <1>7, <1>8, <1>9, <1>11, <1>13, <1>14, <1>15 DEF LifeInv

\* The timer switches threads where the executing one holds nothing.
LEMMA LifeTimer ==
  ASSUME LifeInv, timer_handler
  PROVE  LifeInv'
<1>1. /\ halt = "no" /\ spinlock = 0 /\ current = running /\ ready # <<>>
      /\ current' = Head(ready) /\ running' = current'
      /\ ready' = Append(Tail(ready), current) /\ fresh' = TRUE
      /\ cut' = (cut \/ InJoin)
      /\ UNCHANGED <<wait, used, count, spinlock, alive, tid, mu, pc, unjoined, target, halt>>
  BY DEF timer_handler, MayExpire, Requeue, table, info
<1>2. pc[running].at \in Cut /\ running \in alive
  <2>1. pc[running] = User \/ ~fresh
    BY DEF timer_handler, MayExpire
  <2>2. pc[running].at \in Cut
    BY <2>1, AtRunning DEF LifeInv, RunInv, Cut
  <2>3. running \in alive
    BY <1>1, <2>2, AtRunning DEF LifeInv, RunInv, Cut, Joining, Leaving
  <2> QED BY <2>2, <2>3
<1>3. /\ current' \in Threads /\ current' \in ToSet(ready)
      /\ ready' \in Seq(Threads) /\ IsInjective(ready')
      /\ ToSet(ready') = (ToSet(ready) \ {current'}) \cup {current}
  <2>1. /\ ready \in Seq(Threads) /\ IsInjective(ready)
        /\ current \in Threads /\ current # Null /\ current \notin ToSet(ready)
    BY <1>1, AtRunning DEF LifeInv, LifeTypes, QueueInv
  <2>2. ready' = IF current = Null THEN Tail(ready) ELSE Append(Tail(ready), current)
    BY <1>1, <2>1
  <2>3. /\ Head(ready) \in Threads /\ Head(ready) \in ToSet(ready)
        /\ ready' \in Seq(Threads) /\ IsInjective(ready')
        /\ ToSet(ready') = (ToSet(ready) \ {Head(ready)}) \cup ({current} \ {Null})
    BY <1>1, <2>1, <2>2, QueueTurns
  <2> QED BY <1>1, <2>1, <2>3
<1>4. \A u \in Threads, x \in Threads : Makes(u, x)' <=> Makes(u, x)
  BY <1>1 DEF Makes
<1>5. current' \in alive /\ current' # running
  BY <1>1, <1>3 DEF LifeInv, QueueInv
<1>6. \A u \in Threads : pc[u].at \in Cut
  BY <1>2 DEF LifeInv, PlaceInv
<1>7. QueueInv'
  <2>1. \A u \in Threads, x \in Threads : Makes(u, x)' =>
          /\ x \in alive \ {Main, current', running'}
          /\ x \notin ToSet(ready') \cup ToSet(wait)
          /\ \A v \in Threads : Makes(v, x)' => v = u
    BY <1>1, <1>3, <1>4 DEF LifeInv, QueueInv
  <2>2. \A x \in alive : \/ x = current' \/ x \in ToSet(ready') \cup ToSet(wait)
                         \/ \E u \in Threads : Makes(u, x)'
    BY <1>3, <1>4, AtRunning DEF LifeInv, QueueInv
  <2>3. current \notin ToSet(wait) /\ current' \notin ToSet(wait)
    BY <1>1, <1>2, <1>3 DEF LifeInv, QueueInv
  <2>4. \A x \in ToSet(ready') \cup ToSet(wait) : x \in alive /\ x # current'
    BY <1>1, <1>2, <1>3, <1>5, <2>3 DEF LifeInv, QueueInv
  <2>5. ToSet(ready') \cap ToSet(wait) = {}
    BY <1>3, <2>3 DEF LifeInv, QueueInv
  <2> QED BY <1>1, <1>3, <2>1, <2>2, <2>4, <2>5 DEF LifeInv, QueueInv
<1>8. LifeTypes'
  BY <1>1, <1>3 DEF LifeInv, LifeTypes
<1>9. PlaceInv'
  BY <1>1, <1>2, <1>6 DEF LifeInv, PlaceInv
<1>10. RunInv'
  <2>1. pc'[running'].at \in Cut
    BY <1>1, <1>3, <1>6
  <2> QED BY <1>1, <1>5, <2>1 DEF RunInv, Cut, Locked, Leaving
<1>11. HandleInv'
  <2>1. \A u \in alive : pc[u].at # "exit_free_info"
    BY <1>6, AtRunning DEF Cut
  <2> QED BY <1>1, <2>1, AtRunning DEF LifeInv, HandleInv, Named
<1>12. ASSUME ~cut' PROVE \A u \in Threads : pc[u].at \notin Joining
  <2>1. ~cut /\ ~InJoin
    BY <1>1, <1>12 DEF LifeInv, LifeTypes
  <2>2. pc[running].at \notin Joining
    BY <1>2, <2>1 DEF InJoin, Joining, Cut
  <2> QED BY <2>1, <2>2 DEF LifeInv, JoinersRun
<1>13. ASSUME ~cut' PROVE TargetInv'
  <2> USE <1>13
  <2>0. ~cut
    BY <1>1 DEF LifeInv, LifeTypes
  <2>1. pc'[running'].at \notin Joining /\ pc[running].at \notin Joining
    BY <1>1, <1>3, <1>12, AtRunning
  <2>2. \A u \in Threads : target[u] # Null => u \in ToSet(wait)
    BY <1>6, <2>0, <2>1, AtRunning DEF LifeInv, TargetInv, Cut, Joining
  <2>3. \A u \in Threads : target[u] # Null => target[u] \in Threads
    BY DEF LifeInv, LifeTypes
  <2> QED BY <1>1, <1>4, <2>0, <2>1, <2>2, <2>3, AtRunning
          DEF LifeInv, TargetInv, Named, Joining
<1>14. ~cut' => JoinersRun'
  BY <1>1, <1>12 DEF JoinersRun
<1> QED BY <1>1, <1>7, <1>8, <1>9, <1>10, <1>11, <1>13, <1>14 DEF LifeInv

\* A thread_info_t and a handle that were free.
LEMMA LifeCreate ==
  ASSUME LifeInv, NEW t \in Threads, my_pthread_create(t)
  PROVE  LifeInv'
<1>1. /\ halt = "no" /\ pc[running] = User /\ t \notin alive
      /\ alive' = alive \cup {t} /\ mu' = [mu EXCEPT ![t] = 0]
      /\ UNCHANGED <<running, current, ready, wait, spinlock, target, cut, halt>>
  BY DEF my_pthread_create, InUser, queues
<1>2. PICK h \in Handles :
        /\ ~used[h]
        /\ used' = [used EXCEPT ![h] = TRUE]
        /\ count' = [count EXCEPT ![h] = 0]
        /\ tid' = [tid EXCEPT ![t] = h]
        /\ unjoined' = unjoined \ {h}
        /\ Moves("create_count", h, t) /\ fresh' = FALSE
  BY DEF my_pthread_create, Call, Moves
<1>3. WellPlaced("create_count", h, t)
  BY AtRunning DEF WellPlaced, Places, Making, Ending, Joining, Leaving
<1>4. /\ pc' \in [Threads -> [at : Places, h : Numbers, t : Threads \cup {Null}]]
      /\ pc'[running].at = "create_count" /\ pc'[running].h = h /\ pc'[running].t = t
      /\ \A u \in Threads : u # running => pc'[u] = pc[u]
      /\ PlaceInv' /\ (~cut => JoinersRun')
  BY <1>1, <1>2, <1>3, MoveFacts
<1>5. /\ pc[running].at = "user" /\ pc[running].t = Null
      /\ current = running /\ running \in alive /\ running # t
  BY <1>1, AtRunning DEF LifeInv, RunInv, Leaving
<1>6. /\ used' \in [Handles -> BOOLEAN] /\ used'[h]
      /\ count' \in [Handles -> Nat]
      /\ \A g \in Handles : g # h => used'[g] = used[g] /\ count'[g] = count[g]
      /\ tid' \in [Threads -> Numbers] /\ tid'[t] = h
      /\ mu' \in [Threads -> Numbers]
      /\ \A u \in Threads : u # t => tid'[u] = tid[u] /\ mu'[u] = mu[u]
  BY <1>1, <1>2, AtRunning DEF LifeInv, LifeTypes
<1>7. \A u \in Threads, x \in Threads : Makes(u, x)' <=> Makes(u, x) \/ (u = running /\ x = t)
  <2>1. \A u \in Threads : u \notin alive /\ u # running => pc[u].t = Null
    BY AtRunning DEF LifeInv, PlaceInv
  <2> QED BY <1>1, <1>4, <1>5, <2>1, AtRunning DEF Makes
<1>8. LifeTypes'
  BY <1>1, <1>2, <1>4, <1>6 DEF LifeInv, LifeTypes
<1>9. RunInv'
  BY <1>1, <1>2, <1>4, <1>5 DEF LifeInv, RunInv, Locked, Cut, Joining, Leaving
<1>10. QueueInv'
  <2>1. t \notin ToSet(ready) \cup ToSet(wait) /\ t # Main
    BY <1>1 DEF LifeInv, QueueInv
  <2>2. \A u \in Threads : ~Makes(u, t)
    BY <1>1 DEF LifeInv, QueueInv
  <2>3. ASSUME NEW u \in Threads, NEW x \in Threads, Makes(u, x)'
        PROVE  /\ x \in alive' \ {Main, current, running}
               /\ x \notin ToSet(ready) \cup ToSet(wait)
               /\ \A v \in Threads : Makes(v, x)' => v = u
    <3>1. CASE x = t
      BY <1>1, <1>5, <1>7, <2>1, <2>2, <2>3, <3>1
    <3>2. CASE x # t
      BY <1>1, <1>7, <2>3, <3>2 DEF LifeInv, QueueInv
    <3> QED BY <3>1, <3>2
  <2>4. ASSUME NEW x \in alive'
        PROVE  \/ x = current \/ x \in ToSet(ready) \cup ToSet(wait)
               \/ \E u \in Threads : Makes(u, x)'
    <3>1. CASE x = t
      BY <1>7, <3>1, AtRunning
    <3>2. CASE x \in alive
      BY <1>7, <3>2, AtRunning DEF LifeInv, QueueInv
    <3> QED BY <1>1, <3>1, <3>2
  <2> QED BY <1>1, <2>3, <2>4 DEF LifeInv, QueueInv
<1>11. \A u \in Named : tid[u] \in Handles /\ used[tid[u]] /\ tid[u] # h /\ u \in Threads /\ u # t
  <2>1. \A u \in Named : tid[u] \in Handles /\ used[tid[u]]
    BY <1>5 DEF LifeInv, HandleInv
  <2> QED BY <1>1, <1>2, <2>1, AtRunning DEF Named
<1>12. Named' = Named \cup {t}
  BY <1>1 DEF Named, LifeInv, QueueInv
<1>13. HandleInv'
  <2>1. ASSUME NEW u \in Named'
        PROVE  /\ tid'[u] \in Handles /\ used'[tid'[u]]
               /\ \A v \in Named' : tid'[v] = tid'[u] => v = u
    BY <1>6, <1>11, <1>12 DEF LifeInv, HandleInv
  <2>2. ASSUME NEW g \in Handles, used'[g]
        PROVE  \E u \in Named' : tid'[u] = g
    <3>1. CASE g = h
      BY <1>6, <1>12, <3>1
    <3>2. CASE g # h
      <4>1. PICK u \in Named : tid[u] = g
        BY <1>6, <2>2, <3>2 DEF LifeInv, HandleInv
      <4> QED BY <1>6, <1>11, <1>12, <4>1
    <3> QED BY <3>1, <3>2
  <2>3. ASSUME NEW g \in unjoined', used'[g]
        PROVE  count'[g] >= 1
    <3>1. g \in Handles /\ g # h /\ g \in unjoined
      BY <1>2, <2>3 DEF LifeInv, LifeTypes
    <3> QED BY <1>6, <2>3, <3>1 DEF LifeInv, HandleInv
  <2>4. ASSUME NEW u \in alive', pc'[u].at \in Making
        PROVE  /\ tid'[pc'[u].t] = pc'[u].h /\ pc'[u].h \notin unjoined'
               /\ pc'[u].at # "create_count" => count'[pc'[u].h] >= 1
    <3>1. CASE u = running
      BY <1>2, <1>4, <1>6, <3>1
    <3>2. CASE u # running
      <4>1. u \in alive /\ pc'[u] = pc[u] /\ u \in Threads
        <5>1. u \in Threads
          BY <1>1, AtRunning
        <5>2. u # t
          BY <1>1, <1>4, <2>4, <3>2, <5>1, AtRunning DEF LifeInv, PlaceInv, Making
        <5> QED BY <1>1, <1>4, <3>2, <5>1, <5>2
      <4>2. pc[u].t \in Threads
        BY <2>4, <4>1, AtRunning DEF LifeInv, PlaceInv
      <4>3. Makes(u, pc[u].t)
        BY <4>1 DEF Makes
      <4>4. pc[u].t \in Named
        BY <4>1, <4>2, <4>3 DEF LifeInv, QueueInv, Named
      <4>5. /\ tid[pc[u].t] = pc[u].h /\ pc[u].h \notin unjoined
            /\ pc[u].at # "create_count" => count[pc[u].h] >= 1
        BY <2>4, <4>1 DEF LifeInv, HandleInv
      <4> QED BY <1>2, <1>6, <1>11, <4>1, <4>4, <4>5
    <3> QED BY <3>1, <3>2
  <2>5. ASSUME NEW u \in alive', pc'[u].at \in Ending
        PROVE  /\ u # Main /\ pc'[u].h = tid'[u]
               /\ pc'[u].at # "exit_free_info"
    <3>1. u \in Threads /\ u # running
      BY <1>1, <1>4, <2>5, AtRunning DEF Ending
    <3>2. u # t
      BY <1>1, <1>4, <2>5, <3>1, AtRunning DEF LifeInv, PlaceInv, Ending
    <3>3. u \in alive /\ pc'[u] = pc[u] /\ pc[u].at \in Cut
      BY <1>1, <1>4, <3>1, <3>2 DEF LifeInv, PlaceInv
    <3> QED BY <1>6, <2>5, <3>1, <3>2, <3>3 DEF LifeInv, HandleInv, Cut
  <2> QED BY <2>1, <2>2, <2>3, <2>4, <2>5 DEF HandleInv, Ending
<1>14. ASSUME ~cut PROVE TargetInv'
  <2>1. pc'[running].at \notin Joining /\ pc[running].at \notin Joining
    BY <1>4, <1>5 DEF Joining
  <2>2. ASSUME NEW u \in Threads, target[u] # Null
        PROVE  /\ target[u] \in Threads /\ target[u] # t /\ target[u] \in Named
               /\ target[u] \in Named' \ Joiners
               /\ tid'[target[u]] \notin unjoined'
               /\ \A v \in Threads : target[v] = target[u] => v = u
               /\ \A v \in Threads : ~Makes(v, target[u])'
               /\ u \in ToSet(wait)
    <3>1. /\ target[u] \in Named \ Joiners /\ tid[target[u]] \notin unjoined
          /\ \A v \in Threads : target[v] = target[u] => v = u
          /\ \A v \in Threads : ~Makes(v, target[u])
          /\ u \in ToSet(wait)
      BY <1>14, <1>5, <2>1, <2>2 DEF LifeInv, TargetInv
    <3>2. target[u] \in Threads /\ target[u] # t /\ target[u] \in Named'
      BY <1>11, <1>12, <3>1
    <3>3. \A v \in Threads : ~Makes(v, target[u])'
      BY <1>1, <1>4, <1>7, <3>1, <3>2, AtRunning DEF Makes
    <3> QED BY <1>2, <1>6, <3>1, <3>2, <3>3
  <2>3. ASSUME NEW u \in ToSet(wait)
        PROVE  /\ u \in Joiners /\ target[u] # Null /\ mu'[u] = tid'[target[u]]
               /\ pc'[target[u]].at \notin {"exit_free_mutex", "exit_free_info"}
    <3>1. u \in alive /\ u \in Threads /\ u # t
      BY <1>1, AtRunning DEF LifeInv, QueueInv
    <3>2. /\ u \in Joiners /\ target[u] # Null /\ mu[u] = tid[target[u]]
          /\ pc[target[u]].at \notin {"exit_free_mutex", "exit_free_info"}
      BY <1>14 DEF LifeInv, TargetInv
    <3> QED BY <1>4, <1>6, <2>2, <3>1, <3>2
  <2> QED BY <1>1, <2>1, <2>2, <2>3 DEF TargetInv, Joining, Makes
<1> QED BY <1>1, <1>4, <1>8, <1>9, <1>10, <1>13, <1>14 DEF LifeInv

\* The new thread is queued, and its handle is the program's.
LEMMA LifeCreateInsert ==
  ASSUME LifeInv, create_insert
  PROVE  LifeInv'
<1>1. /\ halt = "no" /\ pc[running].at = "create_insert"
      /\ ready' = Append(ready, pc[running].t)
      /\ unjoined' = unjoined \cup {H}
      /\ spinlock' = 0 /\ Moves("user", 0, Null)
      /\ UNCHANGED <<running, current, wait, used, count, fresh, alive, tid, mu, target, cut, halt>>
  BY DEF create_insert, At, release_queue_spinlock, Return, Moves, User, table, info
<1>2. WellPlaced("user", 0, Null)
  BY AtRunning DEF WellPlaced, Places, Making, Ending, Joining, Leaving
<1>3. /\ pc' \in [Threads -> [at : Places, h : Numbers, t : Threads \cup {Null}]]
      /\ pc'[running].at = "user" /\ pc'[running].h = 0 /\ pc'[running].t = Null
      /\ \A u \in Threads : u # running => pc'[u] = pc[u]
      /\ PlaceInv' /\ (~cut => JoinersRun')
  BY <1>1, <1>2, MoveFacts
<1>4. PICK x \in Threads : x = pc[running].t
  BY <1>1, AtRunning DEF Making
<1>5. current = running /\ running \in alive /\ H \in Handles
  BY <1>1, AtRunning DEF LifeInv, RunInv, Leaving, Making
<1>6. Makes(running, x)
  BY <1>4, <1>5 DEF Makes
<1>7. /\ x \in alive \ {Main, current, running}
      /\ x \notin ToSet(ready) \cup ToSet(wait)
      /\ \A u \in Threads : Makes(u, x) => u = running
  BY <1>6, AtRunning DEF LifeInv, QueueInv
<1>8. tid[x] = H /\ H \notin unjoined /\ count[H] >= 1 /\ x \in Named
  BY <1>1, <1>4, <1>5, <1>7 DEF LifeInv, HandleInv, Making, Named, H
<1>9. \A u \in Threads, y \in Threads : Makes(u, y)' <=> Makes(u, y) /\ y # x
  BY <1>1, <1>3, <1>4, <1>6, <1>7, AtRunning DEF Makes
<1>10. /\ ready' \in Seq(Threads) /\ ToSet(ready') = ToSet(ready) \cup {x}
       /\ IsInjective(ready')
  BY <1>1, <1>4, <1>7, AppendToSet DEF LifeInv, LifeTypes, QueueInv
<1>11. LifeTypes'
  BY <1>1, <1>3, <1>5, <1>10 DEF LifeInv, LifeTypes
<1>12. RunInv'
  BY <1>1, <1>3, <1>5 DEF LifeInv, RunInv, Locked, Cut, Joining, Leaving
<1>13. QueueInv'
  <2>1. \A u \in Threads, y \in Threads : Makes(u, y)' =>
          /\ y \in alive \ {Main, current, running}
          /\ y \notin ToSet(ready') \cup ToSet(wait)
          /\ \A v \in Threads : Makes(v, y)' => v = u
    BY <1>9, <1>10 DEF LifeInv, QueueInv
  <2>2. \A y \in alive : \/ y = current \/ y \in ToSet(ready') \cup ToSet(wait)
                         \/ \E u \in Threads : Makes(u, y)'
    BY <1>9, <1>10, AtRunning DEF LifeInv, QueueInv
  <2>3. \A y \in ToSet(ready') \cup ToSet(wait) : y \in alive /\ y # current
    BY <1>7, <1>10 DEF LifeInv, QueueInv
  <2> QED BY <1>1, <1>7, <1>10, <2>1, <2>2, <2>3 DEF LifeInv, QueueInv
<1>14. \A u \in Threads : pc'[u].at \in Making \cup Ending => u # running /\ pc'[u] = pc[u]
  BY <1>3 DEF Making, Ending
<1>15. HandleInv'
  <2>1. \A u \in Named : /\ tid[u] \in Handles /\ used[tid[u]]
                         /\ \A v \in Named : tid[v] = tid[u] => v = u
    BY <1>1 DEF LifeInv, HandleInv
  <2>2. ASSUME NEW u \in alive, pc'[u].at \in Making
        PROVE  /\ tid[pc'[u].t] = pc'[u].h /\ pc'[u].h \notin unjoined'
               /\ pc'[u].at # "create_count" => count[pc'[u].h] >= 1
    <3>1. u # running /\ pc'[u] = pc[u] /\ u \in Threads
      BY <1>14, <2>2, AtRunning
    <3>2. pc[u].t \in Threads
      BY <2>2, <3>1, AtRunning DEF LifeInv, PlaceInv
    <3>3. Makes(u, pc[u].t)
      BY DEF Makes
    <3>4. pc[u].t \in Named /\ pc[u].t # x
      BY <1>7, <3>1, <3>2, <3>3 DEF LifeInv, QueueInv, Named
    <3>5. /\ tid[pc[u].t] = pc[u].h /\ pc[u].h \notin unjoined
          /\ pc[u].at # "create_count" => count[pc[u].h] >= 1
      BY <2>2, <3>1 DEF LifeInv, HandleInv
    <3> QED BY <1>1, <1>8, <2>1, <3>1, <3>4, <3>5
  <2>3. \A g \in unjoined' : used[g] => count[g] >= 1
    BY <1>1, <1>8 DEF LifeInv, HandleInv
  <2>4. \A u \in alive : pc'[u].at \in Ending => u # Main /\ pc'[u].h = tid[u]
    BY <1>14, AtRunning DEF LifeInv, HandleInv
  <2>5. \A u \in alive : pc'[u].at = "exit_free_info" => ~used[tid[u]]
    BY <1>14, AtRunning DEF LifeInv, HandleInv, Ending
  <2>6. \A g \in Handles : used[g] => \E u \in Named : tid[u] = g
    BY DEF LifeInv, HandleInv
  <2> QED BY <1>1, <2>1, <2>2, <2>3, <2>4, <2>5, <2>6 DEF HandleInv, Named
<1>16. ASSUME ~cut PROVE TargetInv'
  <2>1. pc'[running].at \notin Joining /\ pc[running].at \notin Joining
    BY <1>1, <1>3 DEF Joining
  <2>2. ASSUME NEW u \in Threads, target[u] # Null
        PROVE  /\ target[u] \in Threads
               /\ target[u] \in Named \ Joiners
               /\ tid[target[u]] \notin unjoined'
               /\ \A v \in Threads : target[v] = target[u] => v = u
               /\ \A v \in Threads : ~Makes(v, target[u])'
               /\ u \in ToSet(wait)
    <3>1. /\ target[u] \in Named \ Joiners /\ tid[target[u]] \notin unjoined
          /\ \A v \in Threads : target[v] = target[u] => v = u
          /\ \A v \in Threads : ~Makes(v, target[u])
          /\ u \in ToSet(wait)
      BY <1>16, <1>1, <2>1, <2>2 DEF LifeInv, TargetInv
    <3>2. target[u] \in Threads /\ target[u] # x
      BY <1>6, <3>1, AtRunning DEF Named
    <3>3. tid[target[u]] # H
      BY <1>8, <3>1, <3>2 DEF LifeInv, HandleInv
    <3>4. \A v \in Threads : ~Makes(v, target[u])'
      BY <1>1, <1>3, <3>1, <3>2, AtRunning DEF Makes
    <3> QED BY <1>1, <3>1, <3>2, <3>3, <3>4
  <2>3. \A u \in ToSet(wait) : u \in Threads
    BY AtRunning DEF LifeInv, QueueInv
  <2>4. \A u \in ToSet(wait) :
          /\ u \in Joiners /\ target[u] # Null /\ mu[u] = tid[target[u]]
          /\ pc'[target[u]].at \notin {"exit_free_mutex", "exit_free_info"}
    BY <1>16, <1>3, <2>2, <2>3 DEF LifeInv, TargetInv
  <2> QED BY <1>1, <2>1, <2>2, <2>4 DEF TargetInv, Named, Joining, Makes
<1> QED BY <1>1, <1>3, <1>11, <1>12, <1>13, <1>15, <1>16 DEF LifeInv

\* A join of a thread that is gone returns at once; any other goes to the count
\* of the handle, which is that of a queued thread nobody else joins.
LEMMA LifeJoin ==
  ASSUME LifeInv, NEW h \in Handles, my_pthread_join(h)
  PROVE  LifeInv'
<1>1. /\ halt = "no" /\ pc[running] = User
      /\ running \in Joiners /\ h \in unjoined /\ OwnersOf(h) \cap Joiners = {}
      /\ unjoined' = unjoined \ {h} /\ fresh' = FALSE
      /\ UNCHANGED <<running, current, ready, wait, used, count, spinlock, alive, tid, mu,
                     target, cut, halt>>
      /\ \/ UNCHANGED pc
         \/ used[h] /\ Moves("join_count", h, Null)
  BY DEF my_pthread_join, InUser, Call, Moves, queues, table, info
<1>2. /\ pc[running].at = "user" /\ pc[running].t = Null
      /\ current = running /\ running \in alive
  BY <1>1, AtRunning DEF LifeInv, RunInv, Leaving
<1>3. /\ pc' \in [Threads -> [at : Places, h : Numbers, t : Threads \cup {Null}]]
      /\ \A u \in Threads : u # running => pc'[u] = pc[u]
      /\ pc'[running].t = Null
      /\ \/ pc'[running].at = "user"
         \/ pc'[running].at = "join_count" /\ pc'[running].h = h /\ used[h]
      /\ PlaceInv' /\ (~cut => JoinersRun')
  <2>1. CASE UNCHANGED pc
    BY <1>1, <1>2, <2>1, AtRunning DEF LifeInv, PlaceInv, JoinersRun
  <2>2. CASE used[h] /\ Moves("join_count", h, Null)
    <3>1. WellPlaced("join_count", h, Null)
      BY AtRunning DEF WellPlaced, Places, Making, Ending, Joining, Leaving
    <3> QED BY <1>1, <2>2, <3>1, MoveFacts
  <2> QED BY <1>1, <2>1, <2>2
<1>4. \A u \in Threads : pc'[u].t = pc[u].t
  BY <1>2, <1>3
<1>5. QueueInv' /\ \A u \in Threads, x \in Threads : Makes(u, x)' <=> Makes(u, x)
  BY <1>1, <1>4, QueuesStay
<1>6. LifeTypes'
  BY <1>1, <1>3 DEF LifeInv, LifeTypes
<1>7. RunInv'
  BY <1>1, <1>2, <1>3 DEF LifeInv, RunInv, Locked, Cut, Joining, Leaving
<1>8. HandleInv'
  <2>1. \A u \in Threads : pc'[u].at \in Making \cup Ending => pc'[u] = pc[u]
    BY <1>3 DEF Making, Ending
  <2>2. \A u \in Named : used[tid[u]]
    BY <1>2 DEF LifeInv, HandleInv
  <2>3. /\ \A u \in alive : pc'[u].at \in Making =>
             /\ tid[pc'[u].t] = pc'[u].h /\ pc'[u].h \notin unjoined'
             /\ pc'[u].at # "create_count" => count[pc'[u].h] >= 1
        /\ \A u \in alive : pc'[u].at \in Ending => u # Main /\ pc'[u].h = tid[u]
        /\ \A u \in alive : pc'[u].at = "exit_free_info" => ~used[tid[u]]
    BY <1>1, <2>1, AtRunning DEF LifeInv, HandleInv, Ending
  <2> QED BY <1>1, <2>2, <2>3 DEF LifeInv, HandleInv, Named
<1>9. ASSUME ~cut PROVE TargetInv'
  <2>1. pc[running].at \notin Joining /\ pc'[running].at \notin Joining \ {"join_count"}
    BY <1>2, <1>3 DEF Joining
  <2>2. \A u \in Threads : pc'[u].at \in {"exit_free_mutex", "exit_free_info"} <=>
                             pc[u].at \in {"exit_free_mutex", "exit_free_info"}
    BY <1>2, <1>3
  <2>3. ASSUME NEW u \in Threads, target[u] # Null
        PROVE  /\ target[u] \in Threads
               /\ target[u] \in Named \ Joiners
               /\ tid[target[u]] \notin unjoined
               /\ \A v \in Threads : target[v] = target[u] => v = u
               /\ \A v \in Threads : ~Makes(v, target[u])'
               /\ u \in ToSet(wait)
    <3>1. /\ target[u] \in Named \ Joiners /\ tid[target[u]] \notin unjoined
          /\ \A v \in Threads : target[v] = target[u] => v = u
          /\ \A v \in Threads : ~Makes(v, target[u])
          /\ u \in ToSet(wait)
      BY <1>9, <1>2, <2>1, <2>3 DEF LifeInv, TargetInv
    <3>2. target[u] \in Threads
      BY <3>1, AtRunning DEF Named
    <3>3. \A v \in Threads : ~Makes(v, target[u])'
      BY <1>1, <1>4, <3>1 DEF Makes
    <3> QED BY <3>1, <3>2, <3>3
  <2>4. \A u \in ToSet(wait) :
          /\ u \in Joiners /\ target[u] # Null /\ mu[u] = tid[target[u]]
          /\ pc'[target[u]].at \notin {"exit_free_mutex", "exit_free_info"}
    <3>1. ToSet(wait) \subseteq Threads
      BY AtRunning DEF LifeInv, QueueInv
    <3> QED BY <1>9, <2>2, <2>3, <3>1 DEF LifeInv, TargetInv
  <2>5. ASSUME pc'[running].at = "join_count"
        PROVE  /\ used[h] /\ count[h] >= 1 /\ h \notin unjoined' /\ H' = h
               /\ \A u \in Named : tid[u] = h =>
                    /\ u \notin Joiners
                    /\ \A v \in Threads : target[v] # u /\ ~Makes(v, u)'
    <3>1. used[h] /\ count[h] >= 1 /\ h \notin unjoined' /\ H' = h
      BY <1>1, <1>3, <2>5 DEF LifeInv, HandleInv, H
    <3>2. ASSUME NEW u \in Named, tid[u] = h
          PROVE  u \notin Joiners /\ \A v \in Threads : target[v] # u /\ ~Makes(v, u)'
      <4>1. u \in Threads /\ u # Null /\ u \notin Joiners
        BY <1>1, <3>2, AtRunning DEF OwnersOf, Named
      <4>2. ASSUME NEW v \in Threads, Makes(v, u) PROVE FALSE
        <5>1. v \in alive /\ pc[v].t = u
          BY <4>2 DEF Makes
        <5>2. pc[v].at \in Making
          BY <4>1, <5>1 DEF LifeInv, PlaceInv
        <5>3. tid[u] \notin unjoined
          BY <5>1, <5>2 DEF LifeInv, HandleInv
        <5> QED BY <1>1, <3>2, <5>3
      <4> QED BY <1>1, <1>5, <2>3, <3>2, <4>1, <4>2
    <3> QED BY <3>1, <3>2
  <2> QED BY <1>1, <2>1, <2>3, <2>4, <2>5 DEF TargetInv, Named, Joining, Makes
<1> QED BY <1>1, <1>3, <1>5, <1>6, <1>7, <1>8, <1>9 DEF LifeInv

\* The thread that has the handle is the one the join is about.
LEMMA LifeJoinCountUncut ==
  ASSUME LifeInv, ~cut, join_count
  PROVE  LifeInv'
<1> DEFINE t == pc[running].t
<1>1. /\ halt = "no" /\ pc[running].at = "join_count"
      /\ UNCHANGED <<running, current, ready, wait, used, count, spinlock, fresh, alive, tid, mu,
                     unjoined, cut, halt>>
      /\ Goto(IF count[H] = 0 THEN "join_zero" ELSE "join_add")
  BY DEF join_count, At, queues, table, lock, info
<1>2. /\ used[H] /\ count[H] >= 1 /\ H \notin unjoined /\ H \in Handles
      /\ running \in Joiners /\ current = running
      /\ \A u \in Named : tid[u] = H =>
           /\ u \notin Joiners
           /\ \A v \in Threads : target[v] # u /\ ~Makes(v, u)
  BY <1>1, AtRunning DEF LifeInv, TargetInv, RunInv, Joining, Leaving
<1>3. PICK x \in Named : tid[x] = H /\ target' = [target EXCEPT ![running] = x]
  <2>1. PICK y \in Named : tid[y] = H
    BY <1>2 DEF LifeInv, HandleInv
  <2>2. OwnersOf(H) # {}
    BY <2>1 DEF OwnersOf, Named
  <2>3. PICK x \in OwnersOf(H) : target' = [target EXCEPT ![running] = x]
    BY <2>2 DEF join_count
  <2> QED BY <2>3 DEF OwnersOf, Named
<1>4. x \in Threads /\ x \notin Joiners /\ \A v \in Threads : target[v] # x /\ ~Makes(v, x)
  BY <1>2, <1>3, AtRunning DEF Named
<1>5. Moves("join_add", H, t) /\ WellPlaced("join_add", H, t) /\ t = Null
  <2>1. Goto("join_add")
    BY <1>1, <1>2
  <2>2. Moves("join_add", H, t)
    BY <2>1, GotoMoves DEF Moves
  <2>3. WellPlaced("join_add", H, t) /\ t = Null
    BY <1>1, <1>2, AtRunning DEF WellPlaced, Places, Making, Ending, Joining, Leaving
  <2> QED BY <2>2, <2>3
<1> HIDE DEF t
<1>6. /\ pc' \in [Threads -> [at : Places, h : Numbers, t : Threads \cup {Null}]]
      /\ pc'[running].at = "join_add" /\ pc'[running].h = H /\ pc'[running].t = t
      /\ \A u \in Threads : u # running => pc'[u] = pc[u]
      /\ PlaceInv' /\ (~cut => JoinersRun')
  BY <1>1, <1>5, MoveFacts
<1>7. \A u \in Threads : pc'[u].t = pc[u].t /\ pc'[u].h = pc[u].h
  BY <1>6 DEF t, H
<1>8. QueueInv' /\ \A u \in Threads, y \in Threads : Makes(u, y)' <=> Makes(u, y)
  BY <1>1, <1>7, QueuesStay
<1>9. /\ target' \in [Threads -> Threads \cup {Null}] /\ target'[running] = x
      /\ \A u \in Threads : u # running => target'[u] = target[u]
  BY <1>3, <1>4, AtRunning DEF LifeInv, LifeTypes
<1>10. LifeTypes'
  BY <1>1, <1>6, <1>9 DEF LifeInv, LifeTypes
<1>11. RunInv'
  BY <1>1, <1>6 DEF LifeInv, RunInv, Locked, Cut, Joining, Leaving
<1>12. HandleInv'
  <2>1. \A u \in Threads : /\ pc'[u].at \in Making <=> pc[u].at \in Making
                           /\ pc'[u].at \in Ending <=> pc[u].at \in Ending
                           /\ pc'[u].at = "create_count" <=> pc[u].at = "create_count"
                           /\ pc'[u].at = "exit_free_info" <=> pc[u].at = "exit_free_info"
    BY <1>1, <1>6 DEF Making, Ending
  <2> QED BY <1>1, <1>7, <2>1, AtRunning DEF LifeInv, HandleInv, Named
<1>13. ASSUME ~cut PROVE TargetInv'
  <2>1. running \notin ToSet(wait) /\ ToSet(wait) \subseteq Threads
    BY <1>2, AtRunning DEF LifeInv, QueueInv
  <2>2. ASSUME NEW u \in Threads, target[u] # Null
        PROVE  /\ target[u] \in Threads
               /\ target[u] \in Named \ Joiners
               /\ tid[target[u]] \notin unjoined
               /\ \A v \in Threads : target[v] = target[u] => v = u
               /\ \A v \in Threads : ~Makes(v, target[u])
               /\ u \in ToSet(wait) /\ u # running
    <3>1. /\ target[u] \in Named \ Joiners /\ tid[target[u]] \notin unjoined
          /\ \A v \in Threads : target[v] = target[u] => v = u
          /\ \A v \in Threads : ~Makes(v, target[u])
          /\ u \in ToSet(wait)
      BY <1>13, <1>1, <2>2 DEF LifeInv, TargetInv
    <3> QED BY <2>1, <3>1, AtRunning DEF Named
  <2>3. ASSUME NEW u \in Threads, NEW y \in Threads, y = target'[u]
        PROVE  /\ y \in Named \ Joiners
               /\ tid[y] \notin unjoined
               /\ \A v \in Threads : target'[v] = y => v = u
               /\ \A v \in Threads : ~Makes(v, y)'
               /\ u \in ToSet(wait) \/ u = running
    <3>1. CASE u = running
      BY <1>2, <1>3, <1>4, <1>8, <1>9, <2>3, <3>1
    <3>2. CASE u # running
      <4>1. y = target[u] /\ target[u] # Null
        BY <1>9, <2>3, <3>2, AtRunning
      <4>2. target'[running] # y
        BY <1>4, <1>9, <4>1
      <4> QED BY <1>8, <1>9, <2>2, <4>1, <4>2
    <3> QED BY <3>1, <3>2
  <2>4. ASSUME NEW u \in Threads, target'[u] # Null
        PROVE  /\ target'[u] \in Named \ Joiners
               /\ tid[target'[u]] \notin unjoined
               /\ \A v \in Threads : target'[v] = target'[u] => v = u
               /\ \A v \in Threads : ~Makes(v, target[u])'
               /\ u \in ToSet(wait) \/ u = running
    <3>1. PICK y \in Threads : y = target'[u]
      BY <1>9, <2>4
    <3>2. \A v \in Threads : ~Makes(v, y)'
      BY <2>3, <3>1
    <3>3. \A v \in Threads : ~Makes(v, target[u])'
      BY <3>1, <3>2 DEF Makes
    <3> QED BY <2>3, <3>1, <3>3
  <2>5. \A u \in Threads : pc'[u].at \in {"exit_free_mutex", "exit_free_info"} <=>
                             pc[u].at \in {"exit_free_mutex", "exit_free_info"}
    BY <1>1, <1>6
  <2>6. ASSUME NEW u \in ToSet(wait)
        PROVE  /\ u \in Joiners /\ target'[u] # Null /\ mu[u] = tid[target'[u]]
               /\ pc'[target'[u]].at \notin {"exit_free_mutex", "exit_free_info"}
    <3>1. u \in Threads /\ target'[u] = target[u] /\ target[u] # Null
      BY <1>13, <1>9, <2>1 DEF LifeInv, TargetInv
    <3> QED BY <1>13, <2>2, <2>5, <3>1 DEF LifeInv, TargetInv
  <2> QED BY <1>1, <1>2, <1>3, <1>6, <1>7, <1>9, <2>4, <2>6, AtRunning
          DEF TargetInv, Named, Joining, Makes, H
<1> QED BY <1>1, <1>6, <1>8, <1>10, <1>11, <1>12, <1>13 DEF LifeInv

\* The handle of a cut join may be another thread's by now, or nobody's.
LEMMA LifeJoinCount ==
  ASSUME LifeInv, join_count
  PROVE  LifeInv'
<1>1. CASE ~cut
  BY <1>1, LifeJoinCountUncut
<1>2. CASE cut
  <2>1. /\ pc[running].at = "join_count"
        /\ UNCHANGED <<running, current, ready, wait, used, count, spinlock, fresh, alive, tid,
                       mu, unjoined, cut, halt>>
        /\ Goto("join_zero") \/ Goto("join_add")
    BY DEF join_count, At, queues, table, lock, info
  <2>2. PICK x \in Threads \cup {Null} : target' = [target EXCEPT ![running] = x]
    BY AtRunning DEF join_count, OwnersOf
  <2>3. /\ count' \in [Handles -> Nat] /\ \A g \in Handles : count'[g] >= count[g]
        /\ mu' \in [Threads -> Numbers] /\ target' \in [Threads -> Threads \cup {Null}]
    BY <2>1, <2>2 DEF LifeInv, LifeTypes
  <2>4. PICK a \in {"join_zero", "join_add"} : Goto(a)
    BY <2>1
  <2>5. pc[running].t = Null
    BY <2>1, AtRunning DEF Making
  <2>6. Moves(a, H, Null)
    BY <2>4, <2>5, GotoMoves DEF Moves
  <2>7. WellPlaced(a, H, Null)
    BY <2>1, AtRunning DEF WellPlaced, Places, Making, Ending, Joining, Leaving
  <2>8. /\ pc[running].at \in Joining \ {"wait_queue"}
        /\ a \in (Joining \ {"wait_queue"}) \cup {"user"}
    BY <2>1 DEF Joining
  <2> QED BY <1>2, <2>1, <2>3, <2>6, <2>7, <2>8, LifeCutJoin
<1> QED BY <1>1, <1>2

\* The joiner registers as a waiter of the handle.
LEMMA LifeJoinAddUncut ==
  ASSUME LifeInv, ~cut, join_add
  PROVE  LifeInv'
<1> DEFINE t == pc[running].t
<1>1. /\ halt = "no" /\ pc[running].at = "join_add"
      /\ count' = [count EXCEPT ![H] = @ + 1]
      /\ Goto("wait_check") /\ mu' = [mu EXCEPT ![running] = H]
      /\ UNCHANGED <<running, current, ready, wait, used, spinlock, fresh, alive, tid,
                     unjoined, target, cut, halt>>
  <2>1. halt = "no" /\ pc[running].at \in {"join_zero", "join_add"}
    BY DEF join_add
  <2>2. pc[running].at = "join_add"
    BY <2>1, AtRunning DEF LifeInv, JoinersRun, Joining
  <2> QED BY <2>1, <2>2 DEF join_add, At, queues, lock, program
<1>2. /\ running \in Joiners /\ current = running
      /\ target[running] # Null /\ tid[target[running]] = H
  BY <1>1 DEF LifeInv, TargetInv, RunInv, Joining, Leaving
<1>3. H \in Handles
  BY <1>1, AtRunning DEF Joining
<1>4. Moves("wait_check", H, t) /\ WellPlaced("wait_check", H, t)
  <2>1. Moves("wait_check", H, t)
    BY <1>1, GotoMoves DEF Moves
  <2>2. WellPlaced("wait_check", H, t)
    BY <1>1, AtRunning DEF WellPlaced, Places, Making, Ending, Joining, Leaving
  <2> QED BY <2>1, <2>2
<1> HIDE DEF t
<1>5. /\ pc' \in [Threads -> [at : Places, h : Numbers, t : Threads \cup {Null}]]
      /\ pc'[running].at = "wait_check" /\ pc'[running].h = H /\ pc'[running].t = t
      /\ \A u \in Threads : u # running => pc'[u] = pc[u]
      /\ PlaceInv' /\ (~cut => JoinersRun')
  BY <1>1, <1>4, MoveFacts
<1>6. \A u \in Threads : pc'[u].t = pc[u].t /\ pc'[u].h = pc[u].h
  BY <1>5 DEF t, H
<1>7. QueueInv' /\ \A u \in Threads, x \in Threads : Makes(u, x)' <=> Makes(u, x)
  BY <1>1, <1>6, QueuesStay
<1>8. /\ count' \in [Handles -> Nat] /\ \A h \in Handles : count[h] >= 1 => count'[h] >= 1
      /\ mu' \in [Threads -> Numbers] /\ mu'[running] = H
      /\ \A u \in Threads : u # running => mu'[u] = mu[u]
  BY <1>1, <1>3, AtRunning DEF LifeInv, LifeTypes
<1>9. LifeTypes'
  BY <1>1, <1>5, <1>8 DEF LifeInv, LifeTypes
<1>10. RunInv'
  BY <1>1, <1>5 DEF LifeInv, RunInv, Locked, Cut, Joining, Leaving
<1>11. HandleInv'
  <2>1. \A u \in Threads : /\ pc'[u].at \in Making <=> pc[u].at \in Making
                           /\ pc'[u].at \in Ending <=> pc[u].at \in Ending
                           /\ pc'[u].at = "create_count" <=> pc[u].at = "create_count"
                           /\ pc'[u].at = "exit_free_info" <=> pc[u].at = "exit_free_info"
                           /\ pc[u].at \in Making => pc[u].h \in Handles
    BY <1>1, <1>5 DEF LifeInv, PlaceInv, Making, Ending
  <2>2. unjoined \subseteq Handles
    BY DEF LifeInv, LifeTypes
  <2>3. /\ \A u \in alive : pc'[u].at \in Making =>
             /\ tid[pc'[u].t] = pc'[u].h /\ pc'[u].h \notin unjoined
             /\ pc'[u].at # "create_count" => count'[pc'[u].h] >= 1
        /\ \A u \in alive : pc'[u].at \in Ending => u # Main /\ pc'[u].h = tid[u]
        /\ \A u \in alive : pc'[u].at = "exit_free_info" => ~used[tid[u]]
    BY <1>6, <1>8, <2>1, AtRunning DEF LifeInv, HandleInv
  <2>4. \A u \in Named :
          /\ tid[u] \in Handles
          /\ used[tid[u]] \/ (u = running /\ pc'[u].at = "exit_free_info")
          /\ \A v \in Named : tid[v] = tid[u] => v = u
    BY <2>1, AtRunning DEF LifeInv, HandleInv, Named
  <2> QED BY <1>1, <1>8, <2>2, <2>3, <2>4 DEF LifeInv, HandleInv, Named
<1>12. ASSUME ~cut PROVE TargetInv'
  <2>1. running \notin ToSet(wait) /\ ToSet(wait) \subseteq Threads
    BY <1>2, AtRunning DEF LifeInv, QueueInv
  <2>2. \A u \in Threads : target[u] # Null => target[u] \in Threads
    BY DEF LifeInv, LifeTypes
  <2>3. \A u \in Threads : pc'[u].at \in {"exit_free_mutex", "exit_free_info"} <=>
                             pc[u].at \in {"exit_free_mutex", "exit_free_info"}
    BY <1>1, <1>5
  <2>4. ASSUME NEW u \in ToSet(wait)
        PROVE  /\ u \in Joiners /\ target[u] # Null /\ mu'[u] = tid[target[u]]
               /\ pc'[target[u]].at \notin {"exit_free_mutex", "exit_free_info"}
    BY <1>12, <1>8, <2>1, <2>2, <2>3 DEF LifeInv, TargetInv
  <2>5. ASSUME NEW u \in Threads, target[u] # Null
        PROVE  /\ target[u] \in Named \ Joiners
               /\ tid[target[u]] \notin unjoined
               /\ \A v \in Threads : target[v] = target[u] => v = u
               /\ \A v \in Threads : ~Makes(v, target[u])'
               /\ u \in ToSet(wait) \/ u = running
    <3>1. /\ target[u] \in Named \ Joiners /\ tid[target[u]] \notin unjoined
          /\ \A v \in Threads : target[v] = target[u] => v = u
          /\ \A v \in Threads : ~Makes(v, target[u])
          /\ u \in ToSet(wait) \/ u = running
      BY <1>12, <1>1, <2>5 DEF LifeInv, TargetInv
    <3>2. \A v \in Threads : ~Makes(v, target[u])'
      BY <1>1, <1>6, <3>1 DEF Makes
    <3> QED BY <3>1, <3>2
  <2> QED BY <1>1, <1>2, <1>5, <1>8, <2>4, <2>5 DEF TargetInv, Named, Joining, Makes
<1> QED BY <1>1, <1>5, <1>7, <1>9, <1>10, <1>11, <1>12 DEF LifeInv

\* A joiner that found a count of zero counts itself and returns.
LEMMA LifeJoinAdd ==
  ASSUME LifeInv, join_add
  PROVE  LifeInv'
<1>1. CASE ~cut
  BY <1>1, LifeJoinAddUncut
<1>2. CASE cut
  <2>1. /\ pc[running].at \in {"join_zero", "join_add"}
        /\ count' = [count EXCEPT ![H] = @ + 1]
        /\ \/ Return /\ UNCHANGED mu
           \/ Goto("wait_check") /\ mu' = [mu EXCEPT ![running] = H]
        /\ UNCHANGED <<running, current, ready, wait, used, spinlock, fresh, alive, tid,
                       unjoined, target, cut, halt>>
    BY DEF join_add, queues, lock, program
  <2>2. H \in Handles /\ pc[running].t = Null
    BY <2>1, AtRunning DEF Joining, Making
  <2>3. /\ count' \in [Handles -> Nat] /\ \A g \in Handles : count'[g] >= count[g]
        /\ mu' \in [Threads -> Numbers] /\ target' \in [Threads -> Threads \cup {Null}]
    <3>1. count \in [Handles -> Nat] /\ mu \in [Threads -> Numbers] /\ H \in Numbers
          /\ target \in [Threads -> Threads \cup {Null}]
      BY AtRunning DEF LifeInv, LifeTypes
    <3>2. mu' \in [Threads -> Numbers]
      BY <2>1, <3>1
    <3> QED BY <2>1, <2>2, <3>1, <3>2
  <2>4. ASSUME NEW a \in {"user", "wait_check"}, NEW h, Moves(a, h, Null),
               WellPlaced(a, h, Null)
        PROVE  LifeInv'
    <3>1. /\ pc[running].at \in Joining \ {"wait_queue"}
          /\ a \in (Joining \ {"wait_queue"}) \cup {"user"}
      BY <2>1, <2>4 DEF Joining
    <3> QED BY <1>2, <2>1, <2>3, <2>4, <3>1, LifeCutJoin
  <2>5. CASE Return
    <3>1. Moves("user", 0, Null) /\ WellPlaced("user", 0, Null)
      BY <2>5, AtRunning
         DEF Return, Moves, WellPlaced, Places, Making, Ending, Joining, Leaving
    <3> QED BY <2>4, <3>1
  <2>6. CASE Goto("wait_check")
    <3>1. Moves("wait_check", H, Null)
      BY <2>2, <2>6, GotoMoves DEF Moves
    <3>2. WellPlaced("wait_check", H, Null)
      BY <2>2, AtRunning DEF WellPlaced, Places, Making, Ending, Joining, Leaving
    <3> QED BY <2>4, <3>1, <3>2
  <2> QED BY <2>1, <2>5, <2>6
<1> QED BY <1>1, <1>2

\* The joiner goes to the wait queue, and whom it joins is in the ready queue.
LEMMA LifeWaitQueue ==
  ASSUME LifeInv, wait_queue
  PROVE  LifeInv'
<1> DEFINE t == pc[running].t
<1>1. /\ halt = "no" /\ pc[running].at = "wait_queue"
      /\ ready # <<>> /\ current' = Head(ready) /\ ready' = Tail(ready)
      /\ wait' = Append(wait, running)
      /\ spinlock' = 0 /\ Goto("swap")
      /\ UNCHANGED <<running, used, count, fresh, alive, tid, mu, unjoined, target, cut, halt>>
  BY DEF wait_queue, At, release_queue_spinlock, table, info, program
<1>2. Moves("swap", H, t) /\ WellPlaced("swap", H, t) /\ t = Null
  <2>1. Moves("swap", H, t)
    BY <1>1, GotoMoves DEF Moves
  <2>2. WellPlaced("swap", H, t) /\ t = Null
    BY <1>1, AtRunning DEF WellPlaced, Places, Making, Ending, Joining, Leaving
  <2> QED BY <2>1, <2>2
<1> HIDE DEF t
<1>3. /\ pc' \in [Threads -> [at : Places, h : Numbers, t : Threads \cup {Null}]]
      /\ pc'[running].at = "swap" /\ pc'[running].h = H /\ pc'[running].t = t
      /\ \A u \in Threads : u # running => pc'[u] = pc[u]
      /\ PlaceInv' /\ (~cut => JoinersRun')
  BY <1>1, <1>2, MoveFacts
<1>4. \A u \in Threads : pc'[u].t = pc[u].t /\ pc'[u].h = pc[u].h
  BY <1>3 DEF t, H
<1>5. current = running /\ running \in alive /\ fresh
  BY <1>1 DEF LifeInv, RunInv, Cut, Joining, Leaving
<1>6. /\ ready \in Seq(Threads) /\ wait \in Seq(Threads)
      /\ IsInjective(ready) /\ IsInjective(wait) /\ ToSet(ready) \cap ToSet(wait) = {}
      /\ \A x \in ToSet(ready) \cup ToSet(wait) : x \in alive /\ x # running
  BY <1>5 DEF LifeInv, LifeTypes, QueueInv
<1>7. /\ current' \in Threads /\ ready' \in Seq(Threads) /\ IsInjective(ready')
      /\ ToSet(ready) = {current'} \cup ToSet(ready') /\ current' \notin ToSet(ready')
  BY <1>1, <1>6, HeadTailToSet
<1>8. /\ wait' \in Seq(Threads) /\ IsInjective(wait')
      /\ ToSet(wait') = ToSet(wait) \cup {running}
  BY <1>1, <1>6, AtRunning, AppendToSet
<1>9. \A u \in Threads, x \in Threads : Makes(u, x)' <=> Makes(u, x)
  BY <1>1, <1>4 DEF Makes
<1>10. QueueInv'
  <2>1. \A u \in Threads, x \in Threads : Makes(u, x)' =>
          /\ x \in alive \ {Main, current', running}
          /\ x \notin ToSet(ready') \cup ToSet(wait')
          /\ \A v \in Threads : Makes(v, x)' => v = u
    BY <1>7, <1>8, <1>9 DEF LifeInv, QueueInv
  <2>2. \A x \in alive : \/ x = current' \/ x \in ToSet(ready') \cup ToSet(wait')
                         \/ \E u \in Threads : Makes(u, x)'
    BY <1>5, <1>7, <1>8, <1>9, AtRunning DEF LifeInv, QueueInv
  <2>3. \A x \in ToSet(ready') \cup ToSet(wait') : x \in alive /\ x # current'
    BY <1>5, <1>6, <1>7, <1>8
  <2>4. ToSet(ready') \cap ToSet(wait') = {}
    BY <1>6, <1>7, <1>8
  <2> QED BY <1>1, <1>7, <1>8, <2>1, <2>2, <2>3, <2>4 DEF LifeInv, QueueInv
<1>11. LifeTypes'
  BY <1>1, <1>3, <1>7, <1>8 DEF LifeInv, LifeTypes
<1>12. RunInv'
  <2>1. current' \in alive /\ current' # running
    BY <1>6, <1>7
  <2> QED BY <1>1, <1>3, <1>5, <2>1 DEF LifeInv, RunInv, Locked, Cut, Joining, Leaving
<1>13. HandleInv'
  <2>1. \A u \in Threads : /\ pc'[u].at \in Making <=> pc[u].at \in Making
                           /\ pc'[u].at \in Ending <=> pc[u].at \in Ending
                           /\ pc'[u].at = "create_count" <=> pc[u].at = "create_count"
                           /\ pc'[u].at = "exit_free_info" <=> pc[u].at = "exit_free_info"
    BY <1>1, <1>3 DEF Making, Ending
  <2> QED BY <1>1, <1>4, <2>1, AtRunning DEF LifeInv, HandleInv, Named
<1>14. ASSUME ~cut PROVE TargetInv'
  <2>1. /\ running \in Joiners /\ target[running] # Null
        /\ mu[running] = tid[target[running]]
    BY <1>14, <1>1 DEF LifeInv, TargetInv, Joining
  <2>2. \A u \in Threads : target[u] # Null => target[u] \in Threads
    BY DEF LifeInv, LifeTypes
  <2>3. target[running] \in Threads /\ target[running] # running
    <3>1. target[running] \in ToSet(ready)
      BY <1>1, <1>14, TargetIsReady DEF Joining
    <3> QED BY <1>6, <3>1, AtRunning
  <2>4. pc[target[running]].at \in Cut
    BY <2>3 DEF LifeInv, PlaceInv
  <2>5. \A u \in Threads : pc'[u].at \in {"exit_free_mutex", "exit_free_info"} <=>
                             pc[u].at \in {"exit_free_mutex", "exit_free_info"}
    BY <1>1, <1>3
  <2>6. ASSUME NEW u \in ToSet(wait')
        PROVE  /\ u \in Joiners /\ target[u] # Null /\ mu[u] = tid[target[u]]
               /\ pc'[target[u]].at \notin {"exit_free_mutex", "exit_free_info"}
    <3>1. CASE u = running
      BY <2>1, <2>3, <2>4, <2>5, <3>1 DEF Cut
    <3>2. CASE u \in ToSet(wait)
      BY <1>14, <1>6, <2>2, <2>5, <3>2, AtRunning DEF LifeInv, TargetInv
    <3> QED BY <1>8, <3>1, <3>2
  <2>7. ASSUME NEW u \in Threads, target[u] # Null
        PROVE  /\ target[u] \in Named \ Joiners
               /\ tid[target[u]] \notin unjoined
               /\ \A v \in Threads : target[v] = target[u] => v = u
               /\ \A v \in Threads : ~Makes(v, target[u])'
               /\ u \in ToSet(wait')
    <3>1. /\ target[u] \in Named \ Joiners /\ tid[target[u]] \notin unjoined
          /\ \A v \in Threads : target[v] = target[u] => v = u
          /\ \A v \in Threads : ~Makes(v, target[u])
          /\ u \in ToSet(wait) \/ u = running
      BY <1>14, <1>1, <2>7 DEF LifeInv, TargetInv
    <3>2. \A v \in Threads : ~Makes(v, target[u])'
      BY <1>1, <1>4, <3>1 DEF Makes
    <3> QED BY <1>8, <3>1, <3>2
  <2>8. pc'[running].at \notin Joining
    BY <1>3 DEF Joining
  <2> QED BY <1>1, <2>6, <2>7, <2>8 DEF TargetInv, Named, Joining, Makes
<1> QED BY <1>1, <1>3, <1>10, <1>11, <1>12, <1>13, <1>14 DEF LifeInv

-----------------------------------------------------------------------------
(* The invariant holds. *)

\* The invariant holds at the start.
LEMMA LifeInvInit == Init => LifeInv
<1> SUFFICES ASSUME Init PROVE LifeInv
  OBVIOUS
<1>1. /\ Main \in Threads /\ Null \notin Threads
  BY LifecycleAssumption
<1>2. 0 \in Numbers /\ Handles \subseteq Numbers
  <2>1. Cardinality(Threads) \in Nat /\ Cardinality(Threads) # 0
    BY <1>1, FS_CardinalityType, FS_EmptySet, LifecycleAssumption
  <2> QED BY <2>1, LifecycleAssumption DEF Numbers, Handles
<1>3. User.at = "user" /\ User.h = 0 /\ User.t = Null
      /\ User \in [at : Places, h : Numbers, t : Threads \cup {Null}]
  BY <1>2 DEF User, Stmt, Places
<1>4. \A t \in Threads : pc[t] = User
  BY DEF Init
<1>5. LifeTypes
  <2>1. cut \in BOOLEAN /\ halt \in {"no", "exit", "null_head"}
    BY DEF Init
  <2> QED BY <1>1, <1>2, <1>3, <2>1 DEF Init, LifeTypes
<1>6. PlaceInv
  BY <1>3, <1>4 DEF PlaceInv, Making, Ending, Joining, Cut
<1>7. RunInv
  BY <1>1, <1>3, <1>4 DEF Init, RunInv, Locked, Cut, Leaving
<1>8. ToSet(<<>>) = {} /\ IsInjective(<<>>)
  BY DEF ToSet, IsInjective
<1>9. \A u \in Threads, t \in Threads : ~Makes(u, t)
  BY <1>1, <1>3, <1>4 DEF Makes
<1>10. QueueInv
  BY <1>8, <1>9 DEF Init, QueueInv
<1>11. HandleInv
  BY <1>1, <1>3, <1>4 DEF Init, HandleInv, Named, Making, Ending
<1>12. TargetInv
  BY <1>1, <1>3, <1>4, <1>8 DEF Init, TargetInv, Joining
<1>13. JoinersRun
  BY <1>3, <1>4 DEF JoinersRun, Joining
<1> QED BY <1>5, <1>6, <1>7, <1>10, <1>11, <1>12, <1>13 DEF LifeInv

\* Every step keeps the invariant.
LEMMA LifeInvStep ==
  ASSUME LifeInv, [Next]_vars
  PROVE  LifeInv'
<1>1. ASSUME acquire_queue_spinlock PROVE LifeInv'
  BY <1>1, LifeAcquire
<1>2. ASSUME timer_handler PROVE LifeInv'
  BY <1>2, LifeTimer
<1>3. ASSUME my_pthread_yield PROVE LifeInv'
  BY <1>3, LifeYield
<1>4. ASSUME schedule_check PROVE LifeInv'
  BY <1>4, LifeScheduleCheck
<1>5. ASSUME schedule_queue PROVE LifeInv'
  BY <1>5, LifeScheduleQueue
<1>6. ASSUME QueueGone PROVE LifeInv'
  <2>1. /\ pc[running].at = "schedule_queue" /\ halt' = "null_head"
        /\ UNCHANGED <<queues, table, lock, info, pc, program>>
    BY <1>6 DEF QueueGone, At
  <2> QED BY <2>1, LifeHalts
<1>7. ASSUME swapcontext PROVE LifeInv'
  BY <1>7, LifeSwap
<1>8. ASSUME NEW t \in Threads, my_pthread_create(t) PROVE LifeInv'
  BY <1>8, LifeCreate
<1>9. ASSUME create_count PROVE LifeInv'
  BY <1>9, LifeCreateCount
<1>10. ASSUME create_insert PROVE LifeInv'
  BY <1>10, LifeCreateInsert
<1>11. ASSUME my_pthread_exit PROVE LifeInv'
  BY <1>11, LifeExit
<1>12. ASSUME exit_wake PROVE LifeInv'
  BY <1>12, LifeExitWake
<1>13. ASSUME free_mutex PROVE LifeInv'
  BY <1>13, LifeFreeMutex
<1>14. ASSUME free_thread_info PROVE LifeInv'
  BY <1>14, LifeFreeInfo
<1>15. ASSUME exit_null PROVE LifeInv'
  BY <1>15, LifeExitNull
<1>16. ASSUME NEW h \in Handles, my_pthread_join(h) PROVE LifeInv'
  BY <1>16, LifeJoin
<1>17. ASSUME join_count PROVE LifeInv'
  BY <1>17, LifeJoinCount
<1>18. ASSUME join_add PROVE LifeInv'
  BY <1>18, LifeJoinAdd
<1>19. ASSUME wait_check PROVE LifeInv'
  BY <1>19, LifeWaitCheck
<1>20. ASSUME wait_queue PROVE LifeInv'
  BY <1>20, LifeWaitQueue
<1>21. ASSUME UNCHANGED vars PROVE LifeInv'
  BY <1>21 DEF vars, queues, table, lock, info, program, LifeInv, LifeTypes, PlaceInv, RunInv,
               QueueInv, HandleInv, JoinersRun, TargetInv, Named, Makes, H
<1> QED
  BY <1>1, <1>2, <1>3, <1>4, <1>5, <1>6, <1>7, <1>8, <1>9, <1>10, <1>11, <1>12, <1>13, <1>14,
     <1>15, <1>16, <1>17, <1>18, <1>19, <1>20, <1>21 DEF Next, Statement

\* The invariant holds in every reachable state.
LEMMA LifeInvHolds == Spec => []LifeInv
<1>1. LifeInv /\ [Next]_vars => LifeInv'
  BY LifeInvStep
<1> QED BY <1>1, LifeInvInit, PTL DEF Spec

-----------------------------------------------------------------------------
\* Wherever the timer interrupts, the handler finds the spinlock free, CURRENT
\* to be the thread that executes, and its thread_info_t allocated.
THEOREM HandlerAlwaysSafe == Spec => []HandlerIsSafe
<1>1. ASSUME LifeInv PROVE HandlerIsSafe
  <2> SUFFICES ASSUME MayExpire
               PROVE  spinlock = 0 /\ current = running /\ running \in alive
    BY DEF HandlerIsSafe
  <2>1. pc[running] = User \/ ~fresh
    BY DEF MayExpire
  <2>3. pc[running].at \in Cut
    BY <1>1, <2>1, AtRunning DEF LifeInv, RunInv, Cut
  <2>4. spinlock = 0
    BY <1>1, <2>3 DEF LifeInv, LifeTypes, RunInv, Cut, Locked, Joining
  <2>5. current = running /\ running \in alive
    <3>1. CASE pc[running].at = "schedule_lock"
      BY <1>1, <2>1, <3>1, AtRunning DEF LifeInv, RunInv
    <3>2. CASE pc[running].at # "schedule_lock"
      BY <1>1, <2>3, <3>2 DEF LifeInv, RunInv, Cut, Joining, Leaving
    <3> QED BY <3>1, <3>2
  <2> QED BY <2>4, <2>5
<1>2. LifeInv => HandlerIsSafe
  BY <1>1
<1> QED BY <1>2, LifeInvHolds, PTL

\* Who is nowhere else is not CURRENT either, but for an exiting thread at the end.
LEMMA CurrentIsAlive ==
  ASSUME LifeInv
  PROVE  /\ At("exit_null") => current = running /\ running \notin alive
         /\ current \in alive \/ current = Null \/ At("exit_null")
<1>1. /\ running \in Threads /\ pc[running].at \in Places
  BY AtRunning
<1>2. At("exit_null") <=> pc[running].at = "exit_null"
  BY DEF LifeInv, RunInv, LifeTypes, At
<1> QED BY <1>1, <1>2 DEF LifeInv, RunInv, Leaving

\* A thread_info_t that is freed is in no queue; one that is allocated is CURRENT,
\* in one queue at one place, or in the hands of the thread that creates it.
THEOREM ThreadsAreConserved == Spec => []ThreadsConserved
<1>1. ASSUME LifeInv PROVE ThreadsConserved
  <2> SUFFICES ASSUME NEW t \in Threads
               PROVE  (IF t = current THEN 1 ELSE 0)
                        + Cardinality({i \in 1 .. Len(ready) : ready[i] = t})
                        + Cardinality({i \in 1 .. Len(wait) : wait[i] = t})
                        + Cardinality({u \in alive : pc[u].t = t})
                      = IF t \in alive \/ (t = current /\ At("exit_null")) THEN 1 ELSE 0
    BY DEF ThreadsConserved
  <2> DEFINE nr == Cardinality({i \in 1 .. Len(ready) : ready[i] = t})
             nw == Cardinality({i \in 1 .. Len(wait) : wait[i] = t})
             nm == Cardinality({u \in alive : pc[u].t = t})
             made == \E u \in Threads : Makes(u, t)
  <2>1. /\ nr = IF t \in ToSet(ready) THEN 1 ELSE 0
        /\ nw = IF t \in ToSet(wait) THEN 1 ELSE 0
    <3>1. /\ ready \in Seq(Threads) /\ IsInjective(ready)
          /\ wait \in Seq(Threads) /\ IsInjective(wait)
      BY <1>1 DEF LifeInv, LifeTypes, QueueInv
    <3> QED BY <3>1, OccursOnce
  <2>2. nm = IF made THEN 1 ELSE 0
    <3>1. CASE made
      <4>1. PICK u \in Threads : Makes(u, t)
        BY <3>1
      <4>2. {v \in alive : pc[v].t = t} = {u}
        BY <1>1, <4>1, AtRunning DEF LifeInv, QueueInv, Makes
      <4> QED BY <3>1, <4>2, FS_Singleton
    <3>2. CASE ~made
      <4>1. {v \in alive : pc[v].t = t} = {}
        BY <1>1, <3>2, AtRunning DEF Makes
      <4> QED BY <3>2, <4>1, FS_EmptySet
    <3> QED BY <3>1, <3>2
  <2>3. /\ t \in ToSet(ready) \cup ToSet(wait) => t \in alive /\ t # current
        /\ ~(t \in ToSet(ready) /\ t \in ToSet(wait))
        /\ made => t \in alive /\ t # current /\ t \notin ToSet(ready) \cup ToSet(wait)
        /\ t \in alive => t = current \/ t \in ToSet(ready) \cup ToSet(wait) \/ made
    BY <1>1 DEF LifeInv, QueueInv
  <2>4. /\ At("exit_null") => current \notin alive
        /\ t = current => t \in alive \/ At("exit_null")
    BY <1>1, CurrentIsAlive, AtRunning
  <2> HIDE DEF nr, nw, nm, made
  <2>5. (IF t = current THEN 1 ELSE 0) + nr + nw + nm
          = IF t \in alive \/ (t = current /\ At("exit_null")) THEN 1 ELSE 0
    <3>1. CASE t = current
      BY <2>1, <2>2, <2>3, <2>4, <3>1
    <3>2. CASE t # current /\ t \in alive
      BY <2>1, <2>2, <2>3, <3>2
    <3>3. CASE t # current /\ t \notin alive
      BY <2>1, <2>2, <2>3, <3>3
    <3> QED BY <3>1, <3>2, <3>3
  <2> QED BY <2>5 DEF nr, nw, nm
<1>2. LifeInv => ThreadsConserved
  BY <1>1
<1> QED BY <1>2, LifeInvHolds, PTL

\* Until the timer first expires within a join, whom a thread in the wait queue joins
\* has release_all_thread before it.
THEOREM WaitersAreFound == Spec => []WaitsForLive
<1>1. ASSUME LifeInv PROVE WaitsForLive
  <2> SUFFICES ASSUME ~cut, NEW t \in ToSet(wait)
               PROVE  /\ target[t] \in alive
                      /\ pc[target[t]].at \notin {"exit_free_mutex", "exit_free_info", "exit_null"}
    BY DEF WaitsForLive
  <2>1. t \in Threads /\ target[t] # Null
    BY <1>1, AtRunning DEF LifeInv, QueueInv, TargetInv
  <2>2. target[t] \in alive /\ pc[target[t]].at \notin {"exit_free_mutex", "exit_free_info"}
    BY <1>1, <2>1 DEF LifeInv, TargetInv, Named
  <2>3. pc[target[t]].at # "exit_null"
    BY <1>1, <2>2, AtRunning DEF LifeInv, PlaceInv, RunInv, Cut
  <2> QED BY <2>2, <2>3
<1>2. LifeInv => WaitsForLive
  BY <1>1
<1> QED BY <1>2, LifeInvHolds, PTL

\* Until the timer first expires within a join, the thread that a join was about has
\* given back its handle and its thread_info_t when the join returns.
THEOREM JoinedThreadsAreGone == Spec => []JoinedIsGone
<1>1. ASSUME LifeInv, ~cut, InUser PROVE target[running] = Null
  <2>1. pc[running].at = "user" /\ running \in Threads
    BY <1>1, AtRunning DEF InUser
  <2>2. running \notin ToSet(wait)
    BY <1>1, <2>1 DEF LifeInv, RunInv, QueueInv, Leaving
  <2> QED BY <1>1, <2>1, <2>2 DEF LifeInv, TargetInv, Joining
<1>2. LifeInv => JoinedIsGone
  BY <1>1 DEF JoinedIsGone
<1> QED BY <1>2, LifeInvHolds, PTL
================================================================================
