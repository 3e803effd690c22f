----------------------------- MODULE PreemptProofs -----------------------------
(***************************************************************************)
(* Theorems about Preempt, for any number of threads and mutexes.          *)
(*                                                                         *)
(* Wherever the timer expires: the queues keep every thread, and until an  *)
(* update of a count is lost the count is the number of claims, because a  *)
(* thread claims a mutex in the very statement that stores its count.      *)
(*                                                                         *)
(* When it expires in user code only: a call is one step of MutexService,  *)
(* because a thread that does not run is in no call, so what CURRENT read  *)
(* of the table is still true when it acts on it.                          *)
(***************************************************************************)
EXTENDS PreemptService, SeqLemmas

-----------------------------------------------------------------------------
(* The inductive invariant. *)

Numbers == 0 .. MaxMutex - 1

\* The statements of a lock and those of an unlock at which a thread may be found.
Locking   == {"take_load", "lock_take", "count_load", "lock_count", "wait_check", "wait_queue"}
Unlocking == {"unlock_test", "last_load", "unlock_last", "hand_load", "unlock_hand", "release"}
Storing   == {"lock_take", "lock_count", "unlock_last", "unlock_hand"}
Places    == {"user", "yield_queue", "alloc_take"} \cup Locking \cup Unlocking

PTypes ==
  /\ current \in Threads
  /\ ready \in Seq(Threads) /\ wait \in Seq(Threads)
  /\ used \in [Handles -> BOOLEAN] /\ count \in [Handles -> Int] /\ torn \in [Handles -> Nat]
  /\ mu \in [Threads -> Numbers]
  /\ pc \in [Threads -> [at : Places, h : Numbers, n : Int]]
  /\ holds \in [Threads -> SUBSET Handles]
  /\ made \in [Threads -> Numbers]
  /\ halt \in {"no", "null_head", "exit"}

\* Each thread is CURRENT or in one queue.
QueueInv ==
  /\ IsInjective(ready) /\ IsInjective(wait)
  /\ ToSet(ready) \cap ToSet(wait) = {}
  /\ current \notin ToSet(ready) \cup ToSet(wait)
  /\ Threads = {current} \cup ToSet(ready) \cup ToSet(wait)

\* What thread t knows at statement a of a call about h.
CallAt(t, a, h) ==
  /\ a = "user" => h = 0
  /\ a = "alloc_take" => h \in Handles /\ made[t] = 0
  /\ a \in Locking => h \in Mutexes \ holds[t]
  /\ a \in {"wait_check", "wait_queue"} => mu[t] = h
  /\ a \in Unlocking => h \in holds[t]

CallOf(t) ==
  /\ CallAt(t, pc[t].at, pc[t].h)
  /\ t \in ToSet(wait) => pc[t].at = "user" /\ mu[t] \in Mutexes \ holds[t]
  /\ holds[t] \subseteq Mutexes

CallInv == \A t \in Threads : CallOf(t)

\* Thread t has added to the count of h and not yet subtracted.
Claim(t, h) ==
  \/ h \in holds[t] /\ ~(pc[t].at = "release" /\ pc[t].h = h)
  \/ t \in ToSet(wait) /\ mu[t] = h
  \/ pc[t].h = h /\ pc[t].at \in {"wait_check", "wait_queue"}

\* my_pthread_mutex_init gives h to t, or is about to.
GivenTo(t, h) == made[t] = h \/ (pc[t].at = "alloc_take" /\ pc[t].h = h)

\* At most one thread initialises h.
Clean(h) ==
  \/ \A t \in Threads : ~GivenTo(t, h)
  \/ h \notin Premade /\ \A t, u \in Threads : GivenTo(t, h) /\ GivenTo(u, h) => t = u

CountInv ==
  \A h \in Mutexes : torn[h] = 0 /\ Clean(h) => count[h] = Cardinality({t \in Threads : Claim(t, h)})

PInv == PTypes /\ QueueInv /\ CallInv /\ CountInv

-----------------------------------------------------------------------------
(* A statement of a call. *)

\* The numbers of mutexes, and 0 for none.
LEMMA NumberFacts ==
  /\ 0 \in Numbers /\ 0 \notin Handles /\ Handles \subseteq Numbers
  /\ Numbers = Handles \cup {0} /\ Premade \subseteq Handles
  /\ IsFiniteSet(Threads) /\ Null \notin Threads /\ First \in Threads
BY PreemptAssumption DEF Numbers, Handles

\* The mutexes are the premade ones and those that threads made.
LEMMA MutexesAreHandles ==
  ASSUME PTypes
  PROVE  /\ Mutexes \subseteq Handles
         /\ \A h : h \in Mutexes <=> h \in Premade \/ (h # 0 /\ \E t \in Threads : made[t] = h)
BY NumberFacts DEF PTypes, Mutexes

\* CURRENT goes on to statement a of a call about h, with the number n.
Brings(a, h, n) == pc' = [pc EXCEPT ![current] = [at |-> a, h |-> h, n |-> n]]
Moves(a, h)     == Brings(a, h, 0)

\* CURRENT goes on and no other thread moves.
LEMMA BringFacts ==
  ASSUME PTypes, NEW a \in Places, NEW h \in Numbers, NEW n \in Int, Brings(a, h, n)
  PROVE  /\ pc' \in [Threads -> [at : Places, h : Numbers, n : Int]]
         /\ pc'[current].at = a /\ pc'[current].h = h /\ pc'[current].n = n
         /\ \A t \in Threads : t # current => pc'[t] = pc[t]
BY DEF PTypes, Brings

\* The same where it takes no number with it.
LEMMA MoveFacts ==
  ASSUME PTypes, NEW a \in Places, NEW h \in Numbers, Moves(a, h)
  PROVE  /\ pc' \in [Threads -> [at : Places, h : Numbers, n : Int]]
         /\ pc'[current].at = a /\ pc'[current].h = h
         /\ \A t \in Threads : t # current => pc'[t] = pc[t]
BY BringFacts DEF Moves

\* The places of CURRENT, and the ways to leave them, spelt out.
LEMMA AtFacts ==
  ASSUME PTypes, NEW a, NEW h
  PROVE  /\ At(a, h) => halt = "no" /\ pc[current].at = a /\ pc[current].h = h
         /\ InUser => halt = "no" /\ pc[current].at = "user" /\ pc[current].h = 0
         /\ Goto(a, h) <=> Moves(a, h)
         /\ Return <=> Moves("user", 0)
BY DEF At, InUser, User, Goto, Return, Moves, Brings

\* A store that overwrites no other: the count changes by d, and only that of h.
LEMMA StoreFacts ==
  ASSUME PTypes, NEW h \in Handles, NEW d \in Int, Stores(h, d)
  PROVE  /\ count' \in [Handles -> Int] /\ torn' \in [Handles -> Nat]
         /\ torn'[h] = 0 => torn[h] = 0 /\ count'[h] = count[h] + d
         /\ torn[h] = 0 /\ count[h] = pc[current].n => torn'[h] = 0
         /\ \A g \in Handles : g # h => count'[g] = count[g] /\ torn'[g] = torn[g]
         /\ UNCHANGED used
<1>1. current \in Threads /\ pc[current].n \in Int /\ count[h] \in Int /\ torn[h] \in Nat
  BY DEF PTypes
<1>2. /\ count' = [count EXCEPT ![h] = pc[current].n + d]
      /\ torn' = [torn EXCEPT ![h] = @ + IF count[h] = pc[current].n THEN 0 ELSE 1]
      /\ UNCHANGED used
  BY DEF Stores
<1>3. count[h] # pc[current].n => torn'[h] = torn[h] + 1
  BY <1>2 DEF PTypes
<1>4. count[h] = pc[current].n => torn'[h] = torn[h] /\ count'[h] = count[h] + d
  BY <1>1, <1>2 DEF PTypes
<1> QED BY <1>1, <1>2, <1>3, <1>4 DEF PTypes

\* A thread that the step does not concern.
LEMMA CallKept ==
  ASSUME PInv, NEW t \in Threads, Mutexes \subseteq Mutexes',
         pc'[t] = pc[t], mu'[t] = mu[t], holds'[t] = holds[t], made'[t] = made[t],
         t \in ToSet(wait') => t \in ToSet(wait)
  PROVE  CallOf(t)'
<1>1. CallOf(t)
  BY DEF PInv, CallInv
<1>2. CallAt(t, pc[t].at, pc[t].h)'
  BY <1>1 DEF CallOf, CallAt
<1> QED BY <1>1, <1>2 DEF CallOf

\* The count of h follows the threads that claim h.
Counted(h) ==
  \/ /\ count'[h] = count[h]
     /\ \A t \in Threads : Claim(t, h)' <=> Claim(t, h)
  \/ \E c \in Threads :
       /\ ~Claim(c, h) /\ Claim(c, h)'
       /\ count'[h] = count[h] + 1
       /\ \A t \in Threads : t # c => (Claim(t, h)' <=> Claim(t, h))
  \/ \E c \in Threads :
       /\ Claim(c, h) /\ ~Claim(c, h)'
       /\ count'[h] = count[h] - 1
       /\ \A t \in Threads : t # c => (Claim(t, h)' <=> Claim(t, h))

\* A count that is the number of claims stays it when one claim comes or goes with it.
LEMMA CountFollows ==
  ASSUME NEW h, count[h] = Cardinality({t \in Threads : Claim(t, h)}), Counted(h)
  PROVE  count'[h] = Cardinality({t \in Threads : Claim(t, h)'})
<1> DEFINE S == {t \in Threads : Claim(t, h)}
           T == {t \in Threads : Claim(t, h)'}
<1>1. IsFiniteSet(S) /\ IsFiniteSet(T) /\ Cardinality(S) \in Nat
  BY NumberFacts, FS_Subset, FS_CardinalityType
<1>2. CASE count'[h] = count[h] /\ \A t \in Threads : Claim(t, h)' <=> Claim(t, h)
  <2>1. S = T
    BY <1>2
  <2> QED BY <1>2, <2>1
<1>3. CASE \E c \in Threads :
             /\ ~Claim(c, h) /\ Claim(c, h)'
             /\ count'[h] = count[h] + 1
             /\ \A t \in Threads : t # c => (Claim(t, h)' <=> Claim(t, h))
  <2>1. PICK c \in Threads :
             /\ ~Claim(c, h) /\ Claim(c, h)'
             /\ count'[h] = count[h] + 1
             /\ \A t \in Threads : t # c => (Claim(t, h)' <=> Claim(t, h))
    BY <1>3
  <2>2. c \notin S /\ T = S \cup {c}
    BY <2>1
  <2> HIDE DEF S, T
  <2>3. Cardinality(T) = Cardinality(S) + 1
    BY <1>1, <2>2, FS_AddElement
  <2> QED BY <2>1, <2>3 DEF S, T
<1>4. CASE \E c \in Threads :
             /\ Claim(c, h) /\ ~Claim(c, h)'
             /\ count'[h] = count[h] - 1
             /\ \A t \in Threads : t # c => (Claim(t, h)' <=> Claim(t, h))
  <2>1. PICK c \in Threads :
             /\ Claim(c, h) /\ ~Claim(c, h)'
             /\ count'[h] = count[h] - 1
             /\ \A t \in Threads : t # c => (Claim(t, h)' <=> Claim(t, h))
    BY <1>4
  <2>2. c \in S /\ T = S \ {c}
    BY <2>1
  <2> HIDE DEF S, T
  <2>3. Cardinality(T) = Cardinality(S) - 1
    BY <1>1, <2>2, FS_RemoveElement
  <2> QED BY <2>1, <2>3 DEF S, T
<1> QED BY <1>2, <1>3, <1>4 DEF Counted

\* A step that initialises no mutex.
LEMMA CountKept ==
  ASSUME PInv, UNCHANGED made,
         \A t \in Threads : pc'[t] # pc[t] =>
           pc[t].at # "alloc_take" /\ pc'[t].at # "alloc_take",
         \A h \in Mutexes : torn'[h] = 0 => torn[h] = 0 /\ Counted(h)
  PROVE  CountInv'
<1>1. Mutexes' = Mutexes
  BY DEF Mutexes
<1>2. \A t \in Threads, h \in Mutexes : GivenTo(t, h)' <=> GivenTo(t, h)
  BY DEF GivenTo
<1>3. ASSUME NEW h \in Mutexes, torn'[h] = 0, Clean(h)'
      PROVE  count'[h] = Cardinality({t \in Threads : Claim(t, h)'})
  <2>1. Clean(h) /\ torn[h] = 0 /\ Counted(h)
    BY <1>2, <1>3 DEF Clean
  <2>2. count[h] = Cardinality({t \in Threads : Claim(t, h)})
    BY <2>1 DEF PInv, CountInv
  <2> QED BY <2>1, <2>2, CountFollows
<1> QED BY <1>1, <1>3 DEF CountInv

-----------------------------------------------------------------------------
(* The steps. *)

\* schedule() takes the head of the ready queue and leaves CURRENT at its end.
LEMMA QueueTurn ==
  ASSUME PInv, ready # <<>>, current' = Head(ready),
         ready' = Append(Tail(ready), current), UNCHANGED wait
  PROVE  QueueInv' /\ current' \in Threads /\ ready' \in Seq(Threads)
<1>1. /\ ready \in Seq(Threads) /\ IsInjective(ready)
      /\ current \in Threads /\ current \notin ToSet(ready)
  BY DEF PInv, PTypes, QueueInv
<1>2. /\ current' \in Threads /\ current' \in ToSet(ready)
      /\ ready' \in Seq(Threads) /\ IsInjective(ready')
      /\ ToSet(ready') = (ToSet(ready) \ {current'}) \cup {current}
  BY <1>1, TurnToSet
<1> QED BY <1>2 DEF PInv, QueueInv

\* CURRENT goes on, and the mutexes do not notice.
LEMMA QuietBring ==
  ASSUME PInv, PTypes', QueueInv', NEW a \in Places, NEW h \in Numbers, NEW n \in Int,
         Brings(a, h, n),
         CallAt(current, a, h),
         {a, pc[current].at} \cap {"alloc_take", "release"} = {},
         a \in {"wait_check", "wait_queue"} <=> pc[current].at \in {"wait_check", "wait_queue"},
         a \in {"wait_check", "wait_queue"} => h = pc[current].h,
         UNCHANGED <<wait, count, torn, mu, holds, made>>
  PROVE  PInv'
<1>1. PICK c \in Threads : c = current
  BY DEF PInv, PTypes
<1>2. /\ pc'[c].at = a /\ pc'[c].h = h
      /\ \A t \in Threads : t # c => pc'[t] = pc[t]
  BY <1>1, BringFacts DEF PInv
<1>3. Mutexes' = Mutexes
  BY DEF Mutexes
<1>4. c \notin ToSet(wait)
  BY <1>1 DEF PInv, QueueInv
<1>5. CallInv'
  <2>1. CallOf(c)'
    <3>1. CallAt(c, a, h)'
      BY <1>1, <1>3 DEF CallAt
    <3>2. CallAt(c, pc[c].at, pc[c].h)'
      BY <1>2, <3>1 DEF CallAt
    <3> QED BY <1>3, <1>4, <3>2 DEF PInv, CallInv, CallOf
  <2>2. ASSUME NEW t \in Threads, t # c PROVE CallOf(t)'
    BY <1>2, <1>3, <2>2, CallKept
  <2> QED BY <2>1, <2>2 DEF CallInv
<1>6. \A g \in Mutexes : Counted(g)
  <2>1. \A t \in Threads, g \in Mutexes : Claim(t, g)' <=> Claim(t, g)
    BY <1>1, <1>2 DEF Claim
  <2> QED BY <2>1 DEF Counted
<1>7. CountInv'
  BY <1>1, <1>2, <1>6, CountKept
<1> QED BY <1>5, <1>7 DEF PInv

\* The same where it takes no number with it.
LEMMA QuietMove ==
  ASSUME PInv, PTypes', QueueInv', NEW a \in Places, NEW h \in Numbers, Moves(a, h),
         CallAt(current, a, h),
         {a, pc[current].at} \cap {"alloc_take", "release"} = {},
         a \in {"wait_check", "wait_queue"} <=> pc[current].at \in {"wait_check", "wait_queue"},
         a \in {"wait_check", "wait_queue"} => h = pc[current].h,
         UNCHANGED <<wait, count, torn, mu, holds, made>>
  PROVE  PInv'
BY QuietBring DEF Moves

\* The timer expires, at whatever statement.
LEMMA PTimer ==
  ASSUME PInv, timer_handler
  PROVE  PInv'
<1>1. /\ ready # <<>> /\ current' = Head(ready) /\ ready' = Append(Tail(ready), current)
      /\ UNCHANGED <<wait, used, count, torn, mu, pc, holds, made, halt>>
  BY DEF timer_handler, table
<1>2. QueueInv' /\ PTypes'
  BY <1>1, QueueTurn DEF PInv, PTypes
<1>3. Mutexes' = Mutexes
  BY <1>1 DEF Mutexes
<1>4. CallInv'
  BY <1>1, <1>3, CallKept DEF CallInv
<1>5. CountInv'
  <2>1. \A g \in Mutexes : Counted(g)
    BY <1>1 DEF Counted, Claim
  <2> QED BY <1>1, <2>1, CountKept
<1> QED BY <1>2, <1>4, <1>5 DEF PInv

\* The process ends.
LEMMA PHalts ==
  ASSUME PInv, halt' \in {"no", "null_head", "exit"},
         UNCHANGED <<queues, table, mu, pc, holds, made>>
  PROVE  PInv'
<1>1. UNCHANGED <<current, ready, wait, used, count, torn, mu, pc, holds, made>>
  BY DEF queues, table
<1>2. QueueInv' /\ PTypes' /\ Mutexes' = Mutexes
  BY <1>1 DEF PInv, PTypes, QueueInv, Mutexes
<1>3. CallInv'
  BY <1>1, <1>2, CallKept DEF CallInv
<1>4. CountInv'
  <2>1. \A g \in Mutexes : Counted(g)
    BY <1>1 DEF Counted, Claim
  <2> QED BY <1>1, <2>1, CountKept
<1> QED BY <1>2, <1>3, <1>4 DEF PInv

\* The first statement of a yield keeps the invariant.
LEMMA PYieldCheck ==
  ASSUME PInv, yield_check
  PROVE  PInv'
<1>1. /\ pc[current].at = "user" /\ Moves("yield_queue", 0)
      /\ UNCHANGED <<current, ready, wait, used, count, torn, mu, holds, made, halt>>
  BY AtFacts DEF yield_check, queues, table, PInv
<1>2. "yield_queue" \in Places /\ 0 \in Numbers
  BY NumberFacts DEF Places
<1>3. PTypes' /\ QueueInv'
  BY <1>1, <1>2, MoveFacts DEF PInv, PTypes, QueueInv
<1>4. CallAt(current, "yield_queue", 0)
  BY DEF CallAt, Locking, Unlocking
<1> QED BY <1>1, <1>2, <1>3, <1>4, QuietMove

\* So does its second.
LEMMA PYieldQueue ==
  ASSUME PInv, yield_queue
  PROVE  PInv'
<1>1. /\ pc[current].at = "yield_queue" /\ Moves("user", 0)
      /\ ready # <<>> /\ current' = Head(ready) /\ ready' = Append(Tail(ready), current)
      /\ UNCHANGED <<wait, used, count, torn, mu, holds, made, halt>>
  BY AtFacts DEF yield_queue, table, PInv
<1>2. "user" \in Places /\ 0 \in Numbers
  BY NumberFacts DEF Places
<1>3. PTypes' /\ QueueInv'
  BY <1>1, <1>2, MoveFacts, QueueTurn DEF PInv, PTypes
<1>4. CallAt(current, "user", 0)
  BY DEF CallAt, Locking, Unlocking
<1> QED BY <1>1, <1>2, <1>3, <1>4, QuietMove

\* The test of a lock keeps the invariant.
LEMMA PLockTest ==
  ASSUME PInv, NEW h \in Handles, lock_test(h)
  PROVE  PInv'
<1> DEFINE a == IF count[h] = 0 THEN "take_load" ELSE "count_load"
<1>1. /\ pc[current].at = "user" /\ Moves(a, h)
      /\ h \in Mutexes /\ \A n \in holds[current] : n < h
      /\ UNCHANGED <<current, ready, wait, used, count, torn, mu, holds, made, halt>>
  BY AtFacts DEF lock_test, queues, table, PInv
<1>2. a \in Places /\ h \in Numbers /\ a \in {"take_load", "count_load"}
  BY NumberFacts DEF Places, Locking
<1> HIDE DEF a
<1>3. PTypes' /\ QueueInv'
  BY <1>1, <1>2, MoveFacts DEF PInv, PTypes, QueueInv
<1>4. CallAt(current, a, h)
  <2>1. h \notin holds[current]
    BY <1>1 DEF Handles
  <2> QED BY <1>1, <1>2, <2>1 DEF CallAt, Locking, Unlocking
<1> QED BY <1>1, <1>2, <1>3, <1>4, QuietMove

\* The test of an unlock keeps the invariant.
LEMMA PUnlockTest ==
  ASSUME PInv, NEW h \in Handles, unlock_test(h)
  PROVE  PInv'
<1> DEFINE a == IF LastClaim(h) THEN "last_load" ELSE "hand_load"
<1>1. /\ pc[current].at = "unlock_test" /\ pc[current].h = h /\ Moves(a, h)
      /\ UNCHANGED <<current, ready, wait, used, count, torn, mu, holds, made, halt>>
  BY AtFacts DEF unlock_test, queues, table, PInv
<1>2. a \in Places /\ h \in Numbers /\ a \in {"last_load", "hand_load"}
  BY NumberFacts DEF Places, Unlocking
<1> HIDE DEF a
<1>3. PTypes' /\ QueueInv'
  BY <1>1, <1>2, MoveFacts DEF PInv, PTypes, QueueInv
<1>4. CallAt(current, a, h)
  <2>1. current \in Threads
    BY DEF PInv, PTypes
  <2>2. h \in holds[current]
    BY <1>1, <2>1 DEF PInv, CallInv, CallOf, CallAt, Unlocking
  <2> QED BY <1>2, <2>2 DEF CallAt, Locking, Unlocking
<1> QED BY <1>1, <1>2, <1>3, <1>4, QuietMove

\* A load moves CURRENT from a statement of an update to the next.
LEMMA LoadFacts ==
  ASSUME PTypes, NEW h \in Handles, load(h)
  PROVE  /\ UNCHANGED <<current, ready, wait, used, count, torn, mu, holds, made, halt>>
         /\ pc[current].h = h /\ count[h] \in Int
         /\ \E u \in Updates : pc[current].at = u[1] /\ Brings(u[2], h, count[h])
BY DEF load, At, Brings, queues, table, PTypes

\* The load of a count keeps the invariant.
LEMMA PLoad ==
  ASSUME PInv, NEW h \in Handles, load(h)
  PROVE  PInv'
<1>1. /\ UNCHANGED <<current, ready, wait, used, count, torn, mu, holds, made, halt>>
      /\ pc[current].h = h /\ count[h] \in Int
  BY LoadFacts DEF PInv
<1>2. PICK u \in Updates : pc[current].at = u[1] /\ Brings(u[2], h, count[h])
  BY LoadFacts DEF PInv
<1>3. PICK a, b : a = u[1] /\ b = u[2]
  OBVIOUS
<1>4. \/ a \in {"take_load", "count_load"} /\ b \in {"lock_take", "lock_count"}
      \/ a \in {"last_load", "hand_load"} /\ b \in {"unlock_last", "unlock_hand"}
  BY <1>3 DEF Updates
<1>5. b \in Places /\ h \in Numbers
  BY <1>4, NumberFacts DEF Places, Locking, Unlocking
<1>6. pc[current].at = a /\ Brings(b, h, count[h])
  BY <1>2, <1>3
<1>7. PTypes' /\ QueueInv'
  BY <1>1, <1>5, <1>6, BringFacts DEF PInv, PTypes, QueueInv
<1>8. CallAt(current, b, h)
  <2>1. CallAt(current, a, h)
    BY <1>1, <1>6 DEF PInv, PTypes, CallInv, CallOf
  <2> QED BY <1>4, <2>1 DEF CallAt, Locking, Unlocking
<1> QED BY <1>1, <1>4, <1>5, <1>6, <1>7, <1>8, QuietBring

\* A step of CURRENT, which is c, that wakes nobody.
LEMMA CallStep ==
  ASSUME PInv, NEW c \in Threads, c = current,
         NEW a \in Places, NEW h \in Numbers, Moves(a, h),
         CallAt(c, a, h)', holds'[c] \subseteq Mutexes', Mutexes \subseteq Mutexes',
         \A t \in Threads : t # c => /\ holds'[t] = holds[t] /\ mu'[t] = mu[t]
                                     /\ made'[t] = made[t]
                                     /\ t \in ToSet(wait') => t \in ToSet(wait),
         c \in ToSet(wait') => a = "user" /\ mu'[c] \in Mutexes' \ holds'[c]
  PROVE  CallInv'
<1>1. /\ pc'[c].at = a /\ pc'[c].h = h
      /\ \A t \in Threads : t # c => pc'[t] = pc[t]
  BY MoveFacts DEF PInv
<1>2. CallOf(c)'
  <2>1. CallAt(c, pc[c].at, pc[c].h)'
    BY <1>1 DEF CallAt
  <2> QED BY <1>1, <2>1 DEF CallOf
<1>3. ASSUME NEW t \in Threads, t # c PROVE CallOf(t)'
  BY <1>1, <1>3, CallKept
<1> QED BY <1>2, <1>3 DEF CallInv

\* alloc_mutex finds a slot: if another thread is about to take it too, then it
\* is no longer clean.
LEMMA PAllocScan ==
  ASSUME PInv, NEW h \in Handles, alloc_scan(h)
  PROVE  PInv'
<1>1. PICK c \in Threads : c = current
  BY DEF PInv, PTypes
<1>2. /\ pc[c].at = "user" /\ pc[c].h = 0 /\ Moves("alloc_take", h) /\ made[c] = 0
      /\ UNCHANGED <<current, ready, wait, used, count, torn, mu, holds, made, halt>>
  BY <1>1, AtFacts DEF alloc_scan, queues, table, PInv
<1>3. "alloc_take" \in Places /\ h \in Numbers /\ h # 0
  BY NumberFacts DEF Places
<1>4. /\ pc'[c].at = "alloc_take" /\ pc'[c].h = h
      /\ \A t \in Threads : t # c => pc'[t] = pc[t]
  BY <1>1, <1>2, <1>3, MoveFacts DEF PInv
<1>5. PTypes' /\ QueueInv'
  BY <1>2, <1>3, MoveFacts DEF PInv, PTypes, QueueInv
<1>6. Mutexes' = Mutexes
  BY <1>2 DEF Mutexes
<1>7. CallInv'
  <2>1. CallAt(c, "alloc_take", h)'
    BY <1>2 DEF CallAt, Locking, Unlocking
  <2>2. c \notin ToSet(wait) /\ holds[c] \subseteq Mutexes
    BY <1>1 DEF PInv, QueueInv, CallInv, CallOf
  <2> QED BY <1>1, <1>2, <1>3, <1>6, <2>1, <2>2, CallStep
<1>8. CountInv'
  <2>1. \A t \in Threads, g \in Mutexes : Claim(t, g)' <=> Claim(t, g)
    BY <1>2, <1>4 DEF Claim
  <2>2. \A t \in Threads, g \in Mutexes : GivenTo(t, g) => t # c
    <3>1. \A g \in Mutexes : g # 0
      BY MutexesAreHandles, NumberFacts DEF PInv
    <3>2. \A g \in Mutexes : ~GivenTo(c, g)
      BY <1>2, <3>1 DEF GivenTo
    <3> QED BY <3>2
  <2>3. ASSUME NEW g \in Mutexes, Clean(g)'
        PROVE  Clean(g)
    <3>1. \A t \in Threads : t # c => (GivenTo(t, g)' <=> GivenTo(t, g))
      BY <1>2, <1>4 DEF GivenTo
    <3>2. CASE g # h
      <4>1. GivenTo(c, g)' <=> GivenTo(c, g)
        BY <1>2, <1>4, <3>2 DEF GivenTo
      <4> QED BY <2>3, <3>1, <4>1 DEF Clean
    <3>3. CASE g = h
      <4>1. GivenTo(c, g)'
        BY <1>4, <3>3 DEF GivenTo
      <4> QED BY <2>2, <2>3, <3>1, <4>1 DEF Clean
    <3> QED BY <3>2, <3>3
  <2>4. ASSUME NEW g \in Mutexes, torn'[g] = 0, Clean(g)'
        PROVE  count'[g] = Cardinality({t \in Threads : Claim(t, g)'})
    <3>1. Clean(g)
      BY <2>3, <2>4
    <3>2. {t \in Threads : Claim(t, g)'} = {t \in Threads : Claim(t, g)}
      BY <2>1
    <3> QED BY <1>2, <2>4, <3>1, <3>2 DEF PInv, CountInv
  <2> QED BY <1>6, <2>4 DEF CountInv
<1> QED BY <1>5, <1>7, <1>8 DEF PInv

\* alloc_mutex takes the slot and resets the count: nobody has claims on a mutex
\* that is clean.
LEMMA PAllocTake ==
  ASSUME PInv, NEW h \in Handles, alloc_take(h)
  PROVE  PInv'
<1>1. PICK c \in Threads : c = current
  BY DEF PInv, PTypes
<1>2. /\ pc[c].at = "alloc_take" /\ pc[c].h = h /\ Moves("user", 0)
      /\ used' = [used EXCEPT ![h] = TRUE]
      /\ count' = [count EXCEPT ![h] = 0]
      /\ made' = [made EXCEPT ![c] = h]
      /\ UNCHANGED <<current, ready, wait, torn, mu, holds, halt>>
  BY <1>1, AtFacts DEF alloc_take, queues, PInv
<1>3. "user" \in Places /\ 0 \in Numbers /\ h \in Numbers /\ h # 0
  BY NumberFacts DEF Places
<1>4. /\ pc'[c].at = "user" /\ pc'[c].h = 0
      /\ \A t \in Threads : t # c => pc'[t] = pc[t]
  BY <1>1, <1>2, <1>3, MoveFacts DEF PInv
<1>5. PTypes' /\ QueueInv'
  BY <1>2, <1>3, MoveFacts DEF PInv, PTypes, QueueInv
<1>6. made[c] = 0 /\ made'[c] = h /\ \A t \in Threads : t # c => made'[t] = made[t]
  BY <1>2 DEF PInv, PTypes, CallInv, CallOf, CallAt
<1>7. Mutexes' = Mutexes \cup {h}
  BY <1>3, <1>6 DEF Mutexes
<1>8. CallInv'
  <2>1. CallAt(c, "user", 0)'
    BY DEF CallAt, Locking, Unlocking
  <2>2. c \notin ToSet(wait) /\ holds[c] \subseteq Mutexes
    BY <1>1 DEF PInv, QueueInv, CallInv, CallOf
  <2>3. \A t \in Threads : t # c => /\ holds'[t] = holds[t] /\ mu'[t] = mu[t]
                                    /\ made'[t] = made[t]
                                    /\ t \in ToSet(wait') => t \in ToSet(wait)
    BY <1>2, <1>6
  <2> QED BY <1>1, <1>2, <1>3, <1>7, <2>1, <2>2, <2>3, CallStep
<1>9. CountInv'
  <2>1. \A t \in Threads, g \in Handles : Claim(t, g)' <=> Claim(t, g)
    BY <1>2, <1>4 DEF Claim, Handles
  <2>2. ASSUME NEW g \in Mutexes, torn'[g] = 0, Clean(g)', g # h
        PROVE  count'[g] = Cardinality({t \in Threads : Claim(t, g)'})
    <3>1. g # 0 /\ g \in Handles
      BY MutexesAreHandles, NumberFacts DEF PInv
    <3>2. \A t \in Threads : GivenTo(t, g)' <=> GivenTo(t, g)
      BY <1>2, <1>4, <1>6, <2>2, <3>1 DEF GivenTo
    <3>3. Clean(g)
      BY <2>2, <3>2 DEF Clean
    <3>4. {t \in Threads : Claim(t, g)'} = {t \in Threads : Claim(t, g)}
      BY <2>1, <3>1
    <3>5. count'[g] = count[g]
      BY <1>2, <2>2, <3>1 DEF PInv, PTypes
    <3> QED BY <1>2, <2>2, <3>3, <3>4, <3>5 DEF PInv, CountInv
  <2>3. ASSUME Clean(h)'
        PROVE  count'[h] = Cardinality({t \in Threads : Claim(t, h)'})
    <3>1. GivenTo(c, h)'
      BY <1>6 DEF GivenTo
    <3>2. h \notin Premade /\ \A t \in Threads : GivenTo(t, h)' => t = c
      BY <2>3, <3>1 DEF Clean
    <3>3. \A t \in Threads : made[t] # h
      BY <1>3, <1>6, <3>2 DEF GivenTo
    <3>4. h \notin Mutexes
      BY <3>2, <3>3 DEF Mutexes
    <3>5. \A t \in Threads : ~Claim(t, h)
      BY <3>4 DEF PInv, CallInv, CallOf, CallAt, Claim, Locking
    <3>6. {t \in Threads : Claim(t, h)'} = {}
      BY <2>1, <3>5
    <3>7. count'[h] = 0
      BY <1>2 DEF PInv, PTypes
    <3> QED BY <3>6, <3>7, FS_EmptySet
  <2> QED BY <1>7, <2>2, <2>3 DEF CountInv
<1> QED BY <1>5, <1>8, <1>9 DEF PInv

\* A call about h leaves the claims on other mutexes alone.
LEMMA OthersKept ==
  ASSUME PInv, NEW c \in Threads, c = current,
         NEW a \in Places, NEW n \in Numbers, Moves(a, n),
         NEW h \in Handles, n \in {0, h}, pc[c].h \in {0, h},
         NEW g \in Mutexes, g # h, count'[g] = count[g],
         g \in holds'[c] <=> g \in holds[c],
         c \in ToSet(wait') => mu'[c] = h,
         \A t \in Threads : t # c =>
           /\ g \in holds'[t] <=> g \in holds[t]
           /\ t \in ToSet(wait') /\ mu'[t] = g <=> t \in ToSet(wait) /\ mu[t] = g
  PROVE  Counted(g)
<1>1. /\ pc'[c].at = a /\ pc'[c].h = n
      /\ \A t \in Threads : t # c => pc'[t] = pc[t]
  BY MoveFacts DEF PInv
<1>2. g # 0 /\ c \notin ToSet(wait)
  BY MutexesAreHandles, NumberFacts DEF PInv, QueueInv
<1>3. \A t \in Threads : Claim(t, g)' <=> Claim(t, g)
  <2>1. Claim(c, g)' <=> Claim(c, g)
    BY <1>1, <1>2 DEF Claim
  <2>2. ASSUME NEW t \in Threads, t # c PROVE Claim(t, g)' <=> Claim(t, g)
    BY <1>1, <2>2 DEF Claim
  <2> QED BY <2>1, <2>2
<1> QED BY <1>3 DEF Counted

\* The lock of a mutex whose count was zero.
LEMMA PLockTake ==
  ASSUME PInv, NEW h \in Handles, lock_take(h)
  PROVE  PInv'
<1>1. PICK c \in Threads : c = current
  BY DEF PInv, PTypes
<1>2. /\ pc[c].at = "lock_take" /\ pc[c].h = h /\ Moves("user", 0)
      /\ Stores(h, 1)
      /\ holds' = [holds EXCEPT ![c] = @ \cup {h}]
      /\ UNCHANGED <<current, ready, wait, mu, made, halt>>
  BY <1>1, AtFacts DEF lock_take, Gets, queues, PInv
<1>3. "user" \in Places /\ 0 \in Numbers /\ h # 0
  BY NumberFacts DEF Places
<1>4. /\ pc'[c].at = "user" /\ pc'[c].h = 0
      /\ \A t \in Threads : t # c => pc'[t] = pc[t]
  BY <1>1, <1>2, <1>3, MoveFacts DEF PInv
<1>5. /\ torn'[h] = 0 => torn[h] = 0 /\ count'[h] = count[h] + 1
      /\ \A g \in Handles : g # h => count'[g] = count[g] /\ torn'[g] = torn[g]
      /\ holds'[c] = holds[c] \cup {h} /\ \A t \in Threads : t # c => holds'[t] = holds[t]
  BY <1>2, StoreFacts DEF PInv, PTypes
<1>6. PTypes' /\ QueueInv' /\ Mutexes' = Mutexes
  <2>1. PTypes'
    <3>1. pc' \in [Threads -> [at : Places, h : Numbers, n : Int]]
      BY <1>2, <1>3, MoveFacts DEF PInv
    <3>2. count' \in [Handles -> Int] /\ torn' \in [Handles -> Nat] /\ UNCHANGED used
      BY <1>2, StoreFacts DEF PInv
    <3> QED BY <1>2, <3>1, <3>2 DEF PInv, PTypes
  <2> QED BY <1>2, <2>1 DEF PInv, QueueInv, Mutexes
<1>7. /\ h \in Mutexes \ holds[c] /\ holds[c] \subseteq Mutexes /\ c \notin ToSet(wait)
  BY <1>1, <1>2 DEF PInv, QueueInv, CallInv, CallOf, CallAt, Locking
<1>8. CallInv'
  <2>1. CallAt(c, "user", 0)'
    BY DEF CallAt, Locking, Unlocking
  <2> QED BY <1>1, <1>2, <1>3, <1>5, <1>6, <1>7, <2>1, CallStep
<1>9. CountInv'
  <2>1. ASSUME torn'[h] = 0 PROVE torn[h] = 0 /\ Counted(h)
    <3>1. ~Claim(c, h) /\ Claim(c, h)'
      BY <1>2, <1>4, <1>5, <1>7 DEF Claim
    <3>2. \A t \in Threads : t # c => (Claim(t, h)' <=> Claim(t, h))
      BY <1>2, <1>4, <1>5 DEF Claim
    <3> QED BY <1>5, <2>1, <3>1, <3>2 DEF Counted
  <2>2. ASSUME NEW g \in Mutexes, g # h, torn'[g] = 0 PROVE torn[g] = 0 /\ Counted(g)
    <3>1. count'[g] = count[g] /\ torn'[g] = torn[g]
      BY <1>5, <2>2, MutexesAreHandles DEF PInv
    <3> QED BY <1>1, <1>2, <1>3, <1>5, <1>7, <2>2, <3>1, OthersKept
  <2> QED BY <1>1, <1>2, <1>4, <2>1, <2>2, CountKept
<1> QED BY <1>6, <1>8, <1>9 DEF PInv

\* The lock of a mutex whose count was not zero: CURRENT becomes a waiter.
LEMMA PLockCount ==
  ASSUME PInv, NEW h \in Handles, lock_count(h)
  PROVE  PInv'
<1>1. PICK c \in Threads : c = current
  BY DEF PInv, PTypes
<1>2. /\ pc[c].at = "lock_count" /\ pc[c].h = h /\ Moves("wait_check", h)
      /\ Stores(h, 1)
      /\ mu' = [mu EXCEPT ![c] = h]
      /\ UNCHANGED <<current, ready, wait, holds, made, halt>>
  BY <1>1, AtFacts DEF lock_count, queues, PInv
<1>3. "wait_check" \in Places /\ h \in Numbers /\ h # 0
  BY NumberFacts DEF Places, Locking
<1>4. /\ pc'[c].at = "wait_check" /\ pc'[c].h = h
      /\ \A t \in Threads : t # c => pc'[t] = pc[t]
  BY <1>1, <1>2, <1>3, MoveFacts DEF PInv
<1>5. /\ torn'[h] = 0 => torn[h] = 0 /\ count'[h] = count[h] + 1
      /\ \A g \in Handles : g # h => count'[g] = count[g] /\ torn'[g] = torn[g]
      /\ mu'[c] = h /\ \A t \in Threads : t # c => mu'[t] = mu[t]
  BY <1>2, StoreFacts DEF PInv, PTypes
<1>6. PTypes' /\ QueueInv' /\ Mutexes' = Mutexes
  <2>1. PTypes'
    <3>1. pc' \in [Threads -> [at : Places, h : Numbers, n : Int]]
      BY <1>2, <1>3, MoveFacts DEF PInv
    <3>2. count' \in [Handles -> Int] /\ torn' \in [Handles -> Nat] /\ UNCHANGED used
      BY <1>2, StoreFacts DEF PInv
    <3> QED BY <1>2, <3>1, <3>2 DEF PInv, PTypes
  <2> QED BY <1>2, <2>1 DEF PInv, QueueInv, Mutexes
<1>7. /\ h \in Mutexes \ holds[c] /\ holds[c] \subseteq Mutexes /\ c \notin ToSet(wait)
  BY <1>1, <1>2 DEF PInv, QueueInv, CallInv, CallOf, CallAt, Locking
<1>8. CallInv'
  <2>1. CallAt(c, "wait_check", h)'
    BY <1>2, <1>5, <1>6, <1>7 DEF CallAt, Locking, Unlocking
  <2> QED BY <1>1, <1>2, <1>3, <1>5, <1>6, <1>7, <2>1, CallStep
<1>9. CountInv'
  <2>1. ASSUME torn'[h] = 0 PROVE torn[h] = 0 /\ Counted(h)
    <3>1. ~Claim(c, h) /\ Claim(c, h)'
      BY <1>2, <1>4, <1>5, <1>7 DEF Claim
    <3>2. \A t \in Threads : t # c => (Claim(t, h)' <=> Claim(t, h))
      BY <1>2, <1>4, <1>5 DEF Claim
    <3> QED BY <1>5, <2>1, <3>1, <3>2 DEF Counted
  <2>2. ASSUME NEW g \in Mutexes, g # h, torn'[g] = 0 PROVE torn[g] = 0 /\ Counted(g)
    <3>1. count'[g] = count[g] /\ torn'[g] = torn[g]
      BY <1>5, <2>2, MutexesAreHandles DEF PInv
    <3> QED BY <1>1, <1>2, <1>3, <1>5, <1>7, <2>2, <3>1, OthersKept
  <2> QED BY <1>1, <1>2, <1>4, <2>1, <2>2, CountKept
<1> QED BY <1>6, <1>8, <1>9 DEF PInv

\* With nobody to run the waiter returns and has the mutex.
LEMMA PWaitCheck ==
  ASSUME PInv, NEW h \in Handles, wait_check(h)
  PROVE  PInv'
<1>1. PICK c \in Threads : c = current
  BY DEF PInv, PTypes
<1>2. /\ pc[c].at = "wait_check" /\ pc[c].h = h
      /\ UNCHANGED <<current, ready, wait, used, count, torn, mu, made, halt>>
  BY <1>1, AtFacts DEF wait_check, queues, table, PInv
<1>3. /\ {"user", "wait_queue"} \subseteq Places /\ 0 \in Numbers /\ h \in Numbers /\ h # 0
  BY NumberFacts DEF Places, Locking
<1>4. h \in Mutexes \ holds[c] /\ holds[c] \subseteq Mutexes /\ c \notin ToSet(wait) /\ mu[c] = h
  BY <1>1, <1>2 DEF PInv, QueueInv, CallInv, CallOf, CallAt, Locking
<1>5. CASE Gets(c, h) /\ Moves("user", 0)
  <2>1. /\ pc'[c].at = "user" /\ pc'[c].h = 0
        /\ \A t \in Threads : t # c => pc'[t] = pc[t]
    BY <1>1, <1>3, <1>5, MoveFacts DEF PInv
  <2>2. holds'[c] = holds[c] \cup {h} /\ \A t \in Threads : t # c => holds'[t] = holds[t]
    BY <1>5 DEF Gets, PInv, PTypes
  <2>3. PTypes' /\ QueueInv' /\ Mutexes' = Mutexes
    <3>1. PTypes'
      BY <1>2, <1>3, <1>5, MoveFacts DEF Gets, PInv, PTypes
    <3> QED BY <1>2, <3>1 DEF PInv, QueueInv, Mutexes
  <2>4. CallInv'
    <3>1. CallAt(c, "user", 0)'
      BY DEF CallAt, Locking, Unlocking
    <3> QED BY <1>1, <1>2, <1>3, <1>4, <1>5, <2>2, <2>3, <3>1, CallStep
  <2>5. CountInv'
    <3>1. Counted(h)
      <4>1. Claim(c, h) /\ Claim(c, h)'
        BY <1>2, <2>1, <2>2 DEF Claim
      <4>2. \A t \in Threads : t # c => (Claim(t, h)' <=> Claim(t, h))
        BY <1>2, <2>1, <2>2 DEF Claim
      <4> QED BY <1>2, <4>1, <4>2 DEF Counted
    <3>2. ASSUME NEW g \in Mutexes, g # h PROVE Counted(g)
      BY <1>1, <1>2, <1>3, <1>4, <1>5, <2>2, <3>2, OthersKept
    <3> QED BY <1>1, <1>2, <2>1, <3>1, <3>2, CountKept
  <2> QED BY <2>3, <2>4, <2>5 DEF PInv
<1>6. CASE Moves("wait_queue", h) /\ UNCHANGED holds
  <2>1. PTypes' /\ QueueInv'
    BY <1>2, <1>3, <1>6, MoveFacts DEF PInv, PTypes, QueueInv
  <2>2. CallAt(current, "wait_queue", h)
    BY <1>1, <1>4 DEF CallAt, Locking, Unlocking
  <2> QED BY <1>1, <1>2, <1>3, <1>6, <2>1, <2>2, QuietMove
<1> QED BY <1>1, <1>5, <1>6, AtFacts DEF wait_check, PInv

\* The waiter goes to the wait queue and the head of the ready queue runs.
LEMMA PWaitQueue ==
  ASSUME PInv, NEW h \in Handles, wait_queue(h)
  PROVE  PInv'
<1>1. PICK c \in Threads : c = current
  BY DEF PInv, PTypes
<1>2. /\ pc[c].at = "wait_queue" /\ pc[c].h = h /\ Moves("user", 0)
      /\ ready # <<>> /\ current' = Head(ready) /\ ready' = Tail(ready)
      /\ wait' = Append(wait, c)
      /\ UNCHANGED <<used, count, torn, mu, holds, made, halt>>
  BY <1>1, AtFacts DEF wait_queue, table, PInv
<1>3. "user" \in Places /\ 0 \in Numbers /\ h # 0
  BY NumberFacts DEF Places
<1>4. /\ pc'[c].at = "user" /\ pc'[c].h = 0
      /\ \A t \in Threads : t # c => pc'[t] = pc[t]
  BY <1>1, <1>2, <1>3, MoveFacts DEF PInv
<1>5. /\ ready \in Seq(Threads) /\ wait \in Seq(Threads)
      /\ IsInjective(ready) /\ IsInjective(wait)
      /\ c \notin ToSet(ready) \cup ToSet(wait)
  BY <1>1 DEF PInv, PTypes, QueueInv
<1>6. /\ current' \in Threads /\ ready' \in Seq(Threads) /\ IsInjective(ready')
      /\ ToSet(ready) = {current'} \cup ToSet(ready') /\ current' \notin ToSet(ready')
  BY <1>2, <1>5, HeadTailToSet
<1>7. /\ wait' \in Seq(Threads) /\ IsInjective(wait')
      /\ ToSet(wait') = ToSet(wait) \cup {c}
  BY <1>2, <1>5, AppendToSet
<1>8. PTypes' /\ QueueInv' /\ Mutexes' = Mutexes
  <2>1. PTypes'
    BY <1>2, <1>3, <1>6, <1>7, MoveFacts DEF PInv, PTypes
  <2>2. QueueInv'
    BY <1>1, <1>5, <1>6, <1>7 DEF PInv, QueueInv
  <2> QED BY <1>2, <2>1, <2>2 DEF Mutexes
<1>9. h \in Mutexes \ holds[c] /\ holds[c] \subseteq Mutexes /\ mu[c] = h
  BY <1>2 DEF PInv, CallInv, CallOf, CallAt, Locking
<1>10. CallInv'
  <2>1. CallAt(c, "user", 0)'
    BY DEF CallAt, Locking, Unlocking
  <2> QED BY <1>1, <1>2, <1>3, <1>7, <1>8, <1>9, <2>1, CallStep
<1>11. CountInv'
  <2>1. Counted(h)
    <3>1. Claim(c, h) /\ Claim(c, h)'
      BY <1>2, <1>7, <1>9 DEF Claim
    <3>2. \A t \in Threads : t # c => (Claim(t, h)' <=> Claim(t, h))
      BY <1>2, <1>4, <1>7 DEF Claim
    <3> QED BY <1>2, <3>1, <3>2 DEF Counted
  <2>2. ASSUME NEW g \in Mutexes, g # h PROVE Counted(g)
    BY <1>1, <1>2, <1>3, <1>7, <1>9, <2>2, OthersKept
  <2> QED BY <1>1, <1>2, <1>4, <2>1, <2>2, CountKept
<1> QED BY <1>8, <1>10, <1>11 DEF PInv

\* Where the count is that of a clean mutex, its holder does not find it zero.
LEMMA PUnlock ==
  ASSUME PInv, NEW h \in Handles, unlock(h)
  PROVE  PInv'
<1>1. PICK c \in Threads : c = current
  BY DEF PInv, PTypes
<1>2. /\ pc[c].at = "user" /\ pc[c].h = 0 /\ h \in holds[c]
      /\ UNCHANGED <<current, ready, wait, used, count, torn, mu, made, halt>>
  BY <1>1, AtFacts DEF unlock, queues, table, PInv
<1>3. "unlock_test" \in Places /\ h \in Numbers /\ h # 0
  BY NumberFacts DEF Places, Unlocking
<1>4. CASE count[h] = 0 /\ Loses(c, h) /\ UNCHANGED pc
  <2>1. holds'[c] = holds[c] \ {h} /\ \A t \in Threads : t # c => holds'[t] = holds[t]
    BY <1>4 DEF Loses, PInv, PTypes
  <2>2. PTypes' /\ QueueInv' /\ Mutexes' = Mutexes
    <3>1. PTypes'
      BY <1>2, <1>4 DEF Loses, PInv, PTypes
    <3> QED BY <1>2, <3>1 DEF PInv, QueueInv, Mutexes
  <2>3. c \notin ToSet(wait) /\ holds[c] \subseteq Mutexes
    BY <1>1 DEF PInv, QueueInv, CallInv, CallOf
  <2>4. CallInv'
    <3>1. CallOf(c)'
      BY <1>2, <1>4, <2>1, <2>2, <2>3 DEF CallOf, CallAt, Locking, Unlocking
    <3>2. ASSUME NEW t \in Threads, t # c PROVE CallOf(t)'
      BY <1>2, <1>4, <2>1, <2>2, <3>2, CallKept
    <3> QED BY <3>1, <3>2 DEF CallInv
  <2>5. CountInv'
    <3>1. \A t \in Threads, g \in Mutexes : GivenTo(t, g)' <=> GivenTo(t, g)
      BY <1>2, <1>4 DEF GivenTo
    <3>2. ~(torn[h] = 0 /\ Clean(h))
      <4>1. Claim(c, h) /\ h \in Mutexes
        BY <1>2, <2>3 DEF Claim
      <4>2. Cardinality({t \in Threads : Claim(t, h)}) # 0
        <5>1. {t \in Threads : Claim(t, h)} # {} /\ IsFiniteSet({t \in Threads : Claim(t, h)})
          BY <4>1, NumberFacts, FS_Subset
        <5> QED BY <5>1, FS_EmptySet
      <4> QED BY <1>4, <4>1, <4>2 DEF PInv, CountInv
    <3>3. ASSUME NEW g \in Mutexes, torn'[g] = 0, Clean(g)'
          PROVE  count'[g] = Cardinality({t \in Threads : Claim(t, g)'})
      <4>1. torn[g] = 0 /\ Clean(g) /\ g # h
        BY <1>2, <3>1, <3>2, <3>3 DEF Clean
      <4>2. \A t \in Threads : Claim(t, g)' <=> Claim(t, g)
        BY <1>2, <1>4, <2>1, <4>1 DEF Claim
      <4>3. {t \in Threads : Claim(t, g)'} = {t \in Threads : Claim(t, g)}
        BY <4>2
      <4> QED BY <1>2, <4>1, <4>3 DEF PInv, CountInv
    <3> QED BY <2>2, <3>3 DEF CountInv
  <2> QED BY <2>2, <2>4, <2>5 DEF PInv
<1>5. CASE Moves("unlock_test", h) /\ UNCHANGED holds
  <2>1. PTypes' /\ QueueInv'
    BY <1>2, <1>3, <1>5, MoveFacts DEF PInv, PTypes, QueueInv
  <2>2. CallAt(current, "unlock_test", h)
    BY <1>1, <1>2 DEF CallAt, Locking, Unlocking
  <2> QED BY <1>1, <1>2, <1>3, <1>5, <2>1, <2>2, QuietMove
<1> QED BY <1>1, <1>4, <1>5, AtFacts DEF unlock, PInv

\* The unlock of a mutex that nobody waits for.
LEMMA PUnlockLast ==
  ASSUME PInv, NEW h \in Handles, unlock_last(h)
  PROVE  PInv'
<1>1. PICK c \in Threads : c = current
  BY DEF PInv, PTypes
<1>2. /\ pc[c].at = "unlock_last" /\ pc[c].h = h /\ Moves("user", 0)
      /\ Stores(h, -1)
      /\ holds' = [holds EXCEPT ![c] = @ \ {h}]
      /\ UNCHANGED <<current, ready, wait, mu, made, halt>>
  BY <1>1, AtFacts DEF unlock_last, Loses, queues, PInv
<1>3. "user" \in Places /\ 0 \in Numbers /\ h # 0
  BY NumberFacts DEF Places
<1>4. /\ pc'[c].at = "user" /\ pc'[c].h = 0
      /\ \A t \in Threads : t # c => pc'[t] = pc[t]
  BY <1>1, <1>2, <1>3, MoveFacts DEF PInv
<1>5. /\ torn'[h] = 0 => torn[h] = 0 /\ count'[h] = count[h] - 1
      /\ \A g \in Handles : g # h => count'[g] = count[g] /\ torn'[g] = torn[g]
      /\ holds'[c] = holds[c] \ {h} /\ \A t \in Threads : t # c => holds'[t] = holds[t]
  BY <1>2, StoreFacts DEF PInv, PTypes
<1>6. PTypes' /\ QueueInv' /\ Mutexes' = Mutexes
  <2>1. PTypes'
    <3>1. pc' \in [Threads -> [at : Places, h : Numbers, n : Int]]
      BY <1>2, <1>3, MoveFacts DEF PInv
    <3>2. count' \in [Handles -> Int] /\ torn' \in [Handles -> Nat] /\ UNCHANGED used
      BY <1>2, StoreFacts DEF PInv
    <3> QED BY <1>2, <3>1, <3>2 DEF PInv, PTypes
  <2> QED BY <1>2, <2>1 DEF PInv, QueueInv, Mutexes
<1>7. /\ h \in holds[c] /\ holds[c] \subseteq Mutexes /\ c \notin ToSet(wait)
  BY <1>1, <1>2 DEF PInv, QueueInv, CallInv, CallOf, CallAt, Unlocking
<1>8. CallInv'
  <2>1. CallAt(c, "user", 0)'
    BY DEF CallAt, Locking, Unlocking
  <2> QED BY <1>1, <1>2, <1>3, <1>5, <1>6, <1>7, <2>1, CallStep
<1>9. CountInv'
  <2>1. ASSUME torn'[h] = 0 PROVE torn[h] = 0 /\ Counted(h)
    <3>1. Claim(c, h) /\ ~Claim(c, h)'
      BY <1>2, <1>3, <1>4, <1>5, <1>7 DEF Claim
    <3>2. \A t \in Threads : t # c => (Claim(t, h)' <=> Claim(t, h))
      BY <1>2, <1>4, <1>5 DEF Claim
    <3> QED BY <1>5, <2>1, <3>1, <3>2 DEF Counted
  <2>2. ASSUME NEW g \in Mutexes, g # h, torn'[g] = 0 PROVE torn[g] = 0 /\ Counted(g)
    <3>1. count'[g] = count[g] /\ torn'[g] = torn[g]
      BY <1>5, <2>2, MutexesAreHandles DEF PInv
    <3> QED BY <1>1, <1>2, <1>3, <1>5, <1>7, <2>2, <3>1, OthersKept
  <2> QED BY <1>1, <1>2, <1>4, <2>1, <2>2, CountKept
<1> QED BY <1>6, <1>8, <1>9 DEF PInv

\* The unlock of a mutex with waiters: CURRENT has given up its claim.
LEMMA PUnlockHand ==
  ASSUME PInv, NEW h \in Handles, unlock_hand(h)
  PROVE  PInv'
<1>1. PICK c \in Threads : c = current
  BY DEF PInv, PTypes
<1>2. /\ pc[c].at = "unlock_hand" /\ pc[c].h = h /\ Moves("release", h)
      /\ Stores(h, -1)
      /\ UNCHANGED <<current, ready, wait, holds, mu, made, halt>>
  BY <1>1, AtFacts DEF unlock_hand, queues, PInv
<1>3. "release" \in Places /\ h \in Numbers /\ h # 0
  BY NumberFacts DEF Places, Unlocking
<1>4. /\ pc'[c].at = "release" /\ pc'[c].h = h
      /\ \A t \in Threads : t # c => pc'[t] = pc[t]
  BY <1>1, <1>2, <1>3, MoveFacts DEF PInv
<1>5. /\ torn'[h] = 0 => torn[h] = 0 /\ count'[h] = count[h] - 1
      /\ \A g \in Handles : g # h => count'[g] = count[g] /\ torn'[g] = torn[g]
  BY <1>2, StoreFacts DEF PInv, PTypes
<1>6. PTypes' /\ QueueInv' /\ Mutexes' = Mutexes
  <2>1. PTypes'
    <3>1. pc' \in [Threads -> [at : Places, h : Numbers, n : Int]]
      BY <1>2, <1>3, MoveFacts DEF PInv
    <3>2. count' \in [Handles -> Int] /\ torn' \in [Handles -> Nat] /\ UNCHANGED used
      BY <1>2, StoreFacts DEF PInv
    <3> QED BY <1>2, <3>1, <3>2 DEF PInv, PTypes
  <2> QED BY <1>2, <2>1 DEF PInv, QueueInv, Mutexes
<1>7. /\ h \in holds[c] /\ holds[c] \subseteq Mutexes /\ c \notin ToSet(wait)
  BY <1>1, <1>2 DEF PInv, QueueInv, CallInv, CallOf, CallAt, Unlocking
<1>8. CallInv'
  <2>1. CallAt(c, "release", h)'
    BY <1>2, <1>7 DEF CallAt, Locking, Unlocking
  <2> QED BY <1>1, <1>2, <1>3, <1>6, <1>7, <2>1, CallStep
<1>9. CountInv'
  <2>1. ASSUME torn'[h] = 0 PROVE torn[h] = 0 /\ Counted(h)
    <3>1. Claim(c, h) /\ ~Claim(c, h)'
      BY <1>2, <1>4, <1>7 DEF Claim
    <3>2. \A t \in Threads : t # c => (Claim(t, h)' <=> Claim(t, h))
      BY <1>2, <1>4 DEF Claim
    <3> QED BY <1>5, <2>1, <3>1, <3>2 DEF Counted
  <2>2. ASSUME NEW g \in Mutexes, g # h, torn'[g] = 0 PROVE torn[g] = 0 /\ Counted(g)
    <3>1. count'[g] = count[g] /\ torn'[g] = torn[g]
      BY <1>5, <2>2, MutexesAreHandles DEF PInv
    <3> QED BY <1>1, <1>2, <1>3, <1>7, <2>2, <3>1, OthersKept
  <2> QED BY <1>1, <1>2, <1>4, <2>1, <2>2, CountKept
<1> QED BY <1>6, <1>8, <1>9 DEF PInv

\* release_thread passes the mutex, and the claim of the first waiter becomes that
\* of a holder.
LEMMA PRelease ==
  ASSUME PInv, NEW h \in Handles, release_thread(h)
  PROVE  PInv'
<1>1. PICK c \in Threads : c = current
  BY DEF PInv, PTypes
<1>2. /\ pc[c].at = "release" /\ pc[c].h = h /\ Moves("user", 0)
      /\ UNCHANGED <<current, used, count, torn, mu, made, halt>>
  BY <1>1, AtFacts DEF release_thread, table, PInv
<1>3. "user" \in Places /\ 0 \in Numbers /\ h # 0
  BY NumberFacts DEF Places
<1>4. /\ pc'[c].at = "user" /\ pc'[c].h = 0
      /\ \A t \in Threads : t # c => pc'[t] = pc[t]
  BY <1>1, <1>2, <1>3, MoveFacts DEF PInv
<1>5. /\ h \in holds[c] /\ holds[c] \subseteq Mutexes /\ c \notin ToSet(wait)
  BY <1>1, <1>2 DEF PInv, QueueInv, CallInv, CallOf, CallAt, Unlocking
<1>6. Mutexes' = Mutexes
  BY <1>2 DEF Mutexes
<1>7. CallAt(c, "user", 0)'
  BY DEF CallAt, Locking, Unlocking
<1>8. CASE Loses(c, h) /\ UNCHANGED <<ready, wait>>
  <2>1. holds'[c] = holds[c] \ {h} /\ \A t \in Threads : t # c => holds'[t] = holds[t]
    BY <1>8 DEF Loses, PInv, PTypes
  <2>2. PTypes' /\ QueueInv'
    <3>1. PTypes'
      BY <1>2, <1>3, <1>8, MoveFacts DEF Loses, PInv, PTypes
    <3> QED BY <1>2, <1>8, <3>1 DEF PInv, QueueInv
  <2>3. CallInv'
    BY <1>1, <1>2, <1>3, <1>5, <1>6, <1>7, <1>8, <2>1, CallStep
  <2>4. CountInv'
    <3>1. Counted(h)
      <4>1. ~Claim(c, h) /\ ~Claim(c, h)'
        BY <1>2, <1>3, <1>4, <1>5, <1>8, <2>1 DEF Claim
      <4>2. \A t \in Threads : t # c => (Claim(t, h)' <=> Claim(t, h))
        BY <1>2, <1>4, <1>8, <2>1 DEF Claim
      <4> QED BY <1>2, <4>1, <4>2 DEF Counted
    <3>2. ASSUME NEW g \in Mutexes, g # h PROVE Counted(g)
      BY <1>1, <1>2, <1>3, <1>5, <1>8, <2>1, <3>2, OthersKept
    <3> QED BY <1>1, <1>2, <1>4, <3>1, <3>2, CountKept
  <2> QED BY <2>2, <2>3, <2>4 DEF PInv
<1>9. CASE \E i \in 1 .. Len(wait) :
             /\ FirstWaiter(h, i)
             /\ wait' = RemoveAt(wait, i)
             /\ ready' = Append(ready, wait[i])
             /\ holds' = [holds EXCEPT ![c] = @ \ {h}, ![wait[i]] = @ \cup {h}]
  <2>1. PICK i \in 1 .. Len(wait) :
             /\ FirstWaiter(h, i)
             /\ wait' = RemoveAt(wait, i)
             /\ ready' = Append(ready, wait[i])
             /\ holds' = [holds EXCEPT ![c] = @ \ {h}, ![wait[i]] = @ \cup {h}]
    BY <1>9
  <2>2. /\ ready \in Seq(Threads) /\ wait \in Seq(Threads)
        /\ IsInjective(ready) /\ IsInjective(wait)
    BY DEF PInv, PTypes, QueueInv
  <2>3. /\ wait' \in Seq(Threads) /\ IsInjective(wait')
        /\ wait[i] \in Threads /\ wait[i] \in ToSet(wait)
        /\ ToSet(wait') = ToSet(wait) \ {wait[i]}
    BY <2>1, <2>2, RemoveAtToSet
  <2>4. PICK w \in Threads : w = wait[i]
    BY <2>3
  <2>5. w \in ToSet(wait) /\ w # c /\ w \notin ToSet(ready)
    BY <1>5, <2>3, <2>4 DEF PInv, QueueInv
  <2>6. mu[w] = h /\ h \in Mutexes \ holds[w] /\ pc[w].at = "user" /\ pc[w].h = 0
    BY <2>1, <2>4, <2>5 DEF FirstWaiter, PInv, CallInv, CallOf, CallAt
  <2>7. /\ ready' \in Seq(Threads) /\ IsInjective(ready')
        /\ ToSet(ready') = ToSet(ready) \cup {w}
    BY <2>1, <2>2, <2>4, <2>5, AppendToSet
  <2>8. /\ holds' \in [Threads -> SUBSET Handles]
        /\ holds'[c] = holds[c] \ {h} /\ holds'[w] = holds[w] \cup {h}
        /\ \A t \in Threads : t # c /\ t # w => holds'[t] = holds[t]
    BY <2>1, <2>4, <2>5 DEF PInv, PTypes
  <2>9. PTypes' /\ QueueInv'
    <3>1. PTypes'
      BY <1>2, <1>3, <2>3, <2>7, <2>8, MoveFacts DEF PInv, PTypes
    <3>2. QueueInv'
      BY <1>2, <2>3, <2>4, <2>5, <2>7 DEF PInv, QueueInv
    <3> QED BY <3>1, <3>2
  <2>10. CallInv'
    <3>1. CallOf(c)'
      <4>1. CallAt(c, pc[c].at, pc[c].h)'
        BY <1>4, <1>7 DEF CallAt
      <4> QED BY <1>5, <1>6, <2>3, <2>8, <4>1 DEF CallOf
    <3>2. CallOf(w)'
      <4>1. CallAt(w, pc[w].at, pc[w].h)'
        BY <1>4, <2>5, <2>6 DEF CallAt, Locking, Unlocking
      <4> QED BY <1>5, <1>6, <2>3, <2>4, <2>6, <2>8, <4>1 DEF CallOf, PInv, CallInv
    <3>3. ASSUME NEW t \in Threads, t # c, t # w PROVE CallOf(t)'
      BY <1>2, <1>4, <1>6, <2>3, <2>8, <3>3, CallKept
    <3> QED BY <3>1, <3>2, <3>3 DEF CallInv
  <2>11. CountInv'
    <3>1. Counted(h)
      <4>1. ~Claim(c, h) /\ ~Claim(c, h)'
        BY <1>2, <1>3, <1>4, <1>5, <2>3, <2>8 DEF Claim
      <4>2. Claim(w, h) /\ Claim(w, h)'
        BY <1>4, <2>5, <2>6, <2>8 DEF Claim
      <4>3. \A t \in Threads : t # c /\ t # w => (Claim(t, h)' <=> Claim(t, h))
        BY <1>2, <1>4, <2>3, <2>4, <2>8 DEF Claim
      <4> QED BY <1>2, <4>1, <4>2, <4>3 DEF Counted
    <3>2. ASSUME NEW g \in Mutexes, g # h PROVE Counted(g)
      <4>1. \A t \in Threads : t # c =>
              /\ g \in holds'[t] <=> g \in holds[t]
              /\ t \in ToSet(wait') /\ mu'[t] = g <=> t \in ToSet(wait) /\ mu[t] = g
        BY <1>2, <2>3, <2>4, <2>6, <2>8, <3>2
      <4>2. c \notin ToSet(wait') /\ (g \in holds'[c] <=> g \in holds[c])
        BY <1>5, <2>3, <2>8, <3>2
      <4> QED BY <1>1, <1>2, <1>3, <3>2, <4>1, <4>2, OthersKept
    <3> QED BY <1>1, <1>2, <1>4, <3>1, <3>2, CountKept
  <2> QED BY <2>9, <2>10, <2>11 DEF PInv
<1> QED BY <1>1, <1>8, <1>9 DEF release_thread

-----------------------------------------------------------------------------
(* The invariant holds. *)

\* A sequence of all elements of a finite set.
LEMMA AllInSequence ==
  ASSUME NEW S, IsFiniteSet(S), NEW s \in SetToSeqs(S)
  PROVE  s \in Seq(S) /\ IsInjective(s) /\ ToSet(s) = S
<1> DEFINE n == Cardinality(S)
<1>1. n \in Nat
  BY FS_CardinalityType
<1>2. /\ s \in [1 .. n -> S]
      /\ \A i, j \in 1 .. n : i # j => s[i] # s[j]
  BY DEF SetToSeqs
<1>3. IsFiniteSet(1 .. n) /\ Cardinality(1 .. n) = n
  BY <1>1, FS_Interval
<1>4. s \in Injection(1 .. n, S)
  BY <1>2 DEF Injection, IsInjective
<1> HIDE DEF n
<1>5. Cardinality(1 .. n) = Cardinality(S)
  BY <1>3 DEF n
<1>6. s \in Surjection(1 .. n, S)
  BY <1>4, <1>5, FS_Injection
<1>7. ToSet(s) = S
  BY <1>2, <1>6 DEF ToSet, Surjection
<1>8. s \in Seq(S) /\ IsInjective(s)
  BY <1>1, <1>2, SeqDef DEF IsInjective
<1> QED BY <1>7, <1>8

\* The invariant holds at the start.
LEMMA PInvInit == Init => PInv
<1> SUFFICES ASSUME Init PROVE PInv
  OBVIOUS
<1>1. ready \in Seq(Threads \ {First}) /\ IsInjective(ready) /\ ToSet(ready) = Threads \ {First}
  <2>1. IsFiniteSet(Threads \ {First})
    BY NumberFacts, FS_Subset
  <2> QED BY <2>1, AllInSequence DEF Init
<1>2. ToSet(<<>>) = {} /\ IsInjective(<<>>)
  BY DEF ToSet, IsInjective
<1>3. ready \in Seq(Threads)
  BY <1>1, SeqDef
<1>4. User \in [at : Places, h : Numbers, n : Int] /\ User.at = "user" /\ User.h = 0
  BY NumberFacts DEF User, Places
<1>5. PTypes
  BY <1>3, <1>4, NumberFacts DEF Init, PTypes
<1>6. QueueInv
  BY <1>1, <1>2, NumberFacts DEF Init, QueueInv
<1>7. CallInv
  BY <1>2, <1>4 DEF Init, CallInv, CallOf, CallAt, Locking, Unlocking
<1>8. CountInv
  <2>1. \A h \in Mutexes : h \in Handles /\ h # 0
    BY <1>5, MutexesAreHandles, NumberFacts
  <2>2. \A t \in Threads, h \in Mutexes : ~Claim(t, h)
    BY <1>2, <1>4, <2>1 DEF Init, Claim
  <2>3. \A h \in Mutexes : {t \in Threads : Claim(t, h)} = {}
    BY <2>2
  <2> QED BY <2>1, <2>3, FS_EmptySet DEF Init, CountInv
<1> QED BY <1>5, <1>6, <1>7, <1>8 DEF PInv

\* Every step keeps the invariant.
LEMMA PInvStep ==
  ASSUME PInv, [Next]_vars
  PROVE  PInv'
<1>1. ASSUME QueueGone PROVE PInv'
  <2>1. halt' = "null_head" /\ UNCHANGED <<queues, table, mu, pc, holds, made>>
    BY <1>1 DEF QueueGone
  <2> QED BY <2>1, PHalts
<1>2. ASSUME TableFull PROVE PInv'
  <2>1. halt' = "exit" /\ UNCHANGED <<queues, table, mu, pc, holds, made>>
    BY <1>2 DEF TableFull
  <2> QED BY <2>1, PHalts
<1>3. ASSUME UNCHANGED vars PROVE PInv'
  <2>1. halt' \in {"no", "null_head", "exit"} /\ UNCHANGED <<queues, table, mu, pc, holds, made>>
    BY <1>3 DEF vars, PInv, PTypes
  <2> QED BY <2>1, PHalts
<1>4. ASSUME NEW h \in Handles,
             \/ alloc_scan(h) \/ alloc_take(h) \/ load(h)
             \/ lock_test(h) \/ lock_take(h) \/ lock_count(h)
             \/ wait_check(h) \/ wait_queue(h)
             \/ unlock(h) \/ unlock_test(h) \/ unlock_last(h) \/ unlock_hand(h)
             \/ release_thread(h)
      PROVE  PInv'
  BY <1>4, PAllocScan, PAllocTake, PLoad, PLockTest, PLockTake, PLockCount, PWaitCheck, PWaitQueue,
     PUnlock, PUnlockTest, PUnlockLast, PUnlockHand, PRelease
<1> QED BY <1>1, <1>2, <1>3, <1>4, PTimer, PYieldCheck, PYieldQueue DEF Next

\* The invariant holds in every reachable state.
LEMMA PInvHolds == Spec => []PInv
<1>1. PInv /\ [Next]_vars => PInv'
  BY PInvStep
<1> QED BY <1>1, PInvInit, PTL DEF Spec

-----------------------------------------------------------------------------
\* Wherever the timer expires, no thread is lost from the queues of the scheduler
\* or is in them twice.
THEOREM QueuesLoseNobody == Spec => []ThreadsConserved
<1>1. ASSUME PInv PROVE ThreadsConserved
  <2> SUFFICES ASSUME NEW t \in Threads
               PROVE  1 = (IF t = current THEN 1 ELSE 0)
                            + Cardinality({i \in 1 .. Len(ready) : ready[i] = t})
                            + Cardinality({i \in 1 .. Len(wait) : wait[i] = t})
    BY DEF ThreadsConserved
  <2>1. /\ ready \in Seq(Threads) /\ wait \in Seq(Threads)
        /\ IsInjective(ready) /\ IsInjective(wait)
    BY <1>1 DEF PInv, PTypes, QueueInv
  <2>2. /\ Cardinality({i \in 1 .. Len(ready) : ready[i] = t})
             = IF t \in ToSet(ready) THEN 1 ELSE 0
        /\ Cardinality({i \in 1 .. Len(wait) : wait[i] = t})
             = IF t \in ToSet(wait) THEN 1 ELSE 0
    BY <2>1, OccursOnce
  <2>3. /\ t = current \/ t \in ToSet(ready) \/ t \in ToSet(wait)
        /\ ~(t \in ToSet(ready) /\ t \in ToSet(wait))
        /\ t = current => t \notin ToSet(ready) /\ t \notin ToSet(wait)
    BY <1>1 DEF PInv, QueueInv
  <2>4. CASE t = current
    BY <2>2, <2>3, <2>4
  <2>5. CASE t # current
    BY <2>2, <2>3, <2>5
  <2> QED BY <2>4, <2>5
<1>2. PInv => ThreadsConserved
  BY <1>1
<1> QED BY <1>2, PInvHolds, PTL

\* Wherever the timer expires, the count of a mutex that one thread initialised is
\* the number of its holders and waiters until the timer falls between the load and
\* the store of an update and another update comes between: the lost update is the
\* only way in which the count goes wrong.
THEOREM CountsStayExact == Spec => []CountExact
<1>1. ASSUME PInv PROVE CountExact
  <2> SUFFICES ASSUME NEW h \in Mutexes, torn[h] = 0,
                      Given(h) = {} \/ (h \notin Premade /\ \E t \in Threads : Given(h) = {t})
               PROVE  count[h] = Cardinality(Claims(h))
    BY DEF CountExact
  <2>1. Given(h) = {t \in Threads : GivenTo(t, h)}
    BY DEF Given, GivenTo
  <2>2. Clean(h)
    BY <2>1 DEF Clean
  <2>3. Claims(h) = {t \in Threads : Claim(t, h)}
    BY DEF Claims, Claim
  <2> QED BY <1>1, <2>2, <2>3 DEF PInv, CountInv
<1>2. PInv => CountExact
  BY <1>1
<1> QED BY <1>2, PInvHolds, PTL

-----------------------------------------------------------------------------
(* When the timer expires in user code only, a call is atomic.  What makes it so *)
(* is that what CURRENT read of the table is still true at the next statement.   *)

\* What thread t has found out at statement a of a call about h.
KnowsAt(t, a, h) ==
  /\ a = "alloc_take" => ~used[h]
  /\ a \in Locking => \A n \in holds[t] : n < h
  /\ a \in {"take_load", "lock_take"} => \A u \in Threads : h \notin holds[u]
  /\ a \in {"count_load", "lock_count", "wait_check", "wait_queue"} =>
       \E u \in Threads : h \in holds[u]
  /\ a \in {"last_load", "unlock_last"} => \A u \in ToSet(wait) : mu[u] # h
  /\ a \in Storing => pc[t].n = count[h]

Knowledge == \A t \in Threads : KnowsAt(t, pc[t].at, pc[t].h)

\* Threads that do not run are in user code.
OneCall == \A t \in Threads : t = current \/ pc[t].at = "user"

\* A waiter waits for a holder, and for a larger handle than its own.
WaitInv ==
  \A t \in ToSet(wait) :
    /\ \E u \in Threads : mu[t] \in holds[u]
    /\ \A n \in holds[t] : n < mu[t]

\* A slot of the table is used by one mutex.
SlotInv ==
  /\ \A h \in Handles : used[h] <=> h \in Mutexes
  /\ \A t \in Threads : made[t] \notin Premade
  /\ \A t, u \in Threads : made[t] = made[u] /\ made[t] # 0 => t = u

\* No update of a count is lost.
NoneTorn == \A h \in Handles : torn[h] = 0

AtomicInv ==
  /\ PInv
  /\ NoneTorn
  /\ OneCall
  /\ MutualExclusion
  /\ WaitInv
  /\ SlotInv
  /\ Knowledge

\* The counts of all mutexes are exact.
LEMMA CountIsExact ==
  ASSUME AtomicInv, NEW h \in Mutexes
  PROVE  /\ h \in Handles /\ used[h]
         /\ count[h] = Cardinality({t \in Threads : Claim(t, h)})
<1>1. h \in Handles /\ h # 0
  BY MutexesAreHandles, NumberFacts DEF AtomicInv, PInv
<1>2. used[h]
  BY <1>1 DEF AtomicInv, SlotInv
<1>3. \A t \in Threads : GivenTo(t, h) => made[t] = h
  BY <1>2 DEF AtomicInv, Knowledge, KnowsAt, GivenTo
<1>4. Clean(h)
  BY <1>1, <1>3 DEF Clean, AtomicInv, SlotInv
<1> QED BY <1>1, <1>2, <1>4 DEF AtomicInv, NoneTorn, PInv, CountInv

\* What the count says of the claims.
LEMMA CountSays ==
  ASSUME AtomicInv, NEW h \in Mutexes
  PROVE  /\ count[h] = 0 <=> \A t \in Threads : ~Claim(t, h)
         /\ count[h] = 1 => \A t, u \in Threads : Claim(t, h) /\ Claim(u, h) => t = u
<1> DEFINE S == {t \in Threads : Claim(t, h)}
<1>1. count[h] = Cardinality(S)
  BY CountIsExact
<1>2. IsFiniteSet(S)
  BY NumberFacts, FS_Subset
<1>3. S = {} <=> \A t \in Threads : ~Claim(t, h)
  OBVIOUS
<1>4. (\E x : S = {x}) => \A t, u \in Threads : Claim(t, h) /\ Claim(u, h) => t = u
  <2>1. \A t \in Threads : Claim(t, h) => t \in S
    OBVIOUS
  <2> HIDE DEF S
  <2> QED BY <2>1
<1> HIDE DEF S
<1> QED BY <1>1, <1>2, <1>3, <1>4, FS_EmptySet, FS_Singleton

\* In user code and in the middle of a lock, a claim on a mutex is that of a holder
\* or a waiter, and there is a holder when there is a claim.
LEMMA ClaimsAreHeld ==
  ASSUME AtomicInv, NEW h \in Mutexes, pc[current].at = "user"
  PROVE  (\E t \in Threads : Claim(t, h)) <=> \E u \in Threads : h \in holds[u]
<1>1. \A t \in Threads : pc[t].at = "user"
  BY DEF AtomicInv, OneCall
<1>2. \A t \in Threads : Claim(t, h) <=> h \in holds[t] \/ (t \in ToSet(wait) /\ mu[t] = h)
  BY <1>1 DEF Claim
<1>3. ASSUME NEW t \in ToSet(wait), mu[t] = h
      PROVE  \E u \in Threads : h \in holds[u]
  BY <1>3 DEF AtomicInv, WaitInv
<1> QED BY <1>2, <1>3

\* A thread that waits because another one holds the mutex finds somebody to run:
\* of all that wait, the one for the largest handle waits for a thread that does not.
LEMMA WaitFindsReady ==
  ASSUME AtomicInv, pc[current].at = "wait_check"
  PROVE  ready # <<>>
<1>1. PICK c, h : c = current /\ h = pc[c].h
  OBVIOUS
<1>2. /\ c \in Threads /\ mu \in [Threads -> Numbers]
      /\ holds \in [Threads -> SUBSET Handles] /\ wait \in Seq(Threads)
  BY <1>1 DEF AtomicInv, PInv, PTypes
<1>3. h \in Mutexes \ holds[c] /\ h \in Handles
  <2>1. h \in Mutexes \ holds[c]
    BY <1>1, <1>2 DEF AtomicInv, PInv, CallInv, CallOf, CallAt, Locking
  <2> QED BY <2>1, MutexesAreHandles DEF AtomicInv, PInv
<1>4. (\A n \in holds[c] : n < h) /\ \E u \in Threads : h \in holds[u]
  BY <1>1, <1>2 DEF AtomicInv, Knowledge, KnowsAt, Locking, Storing
<1>5. SUFFICES ASSUME ready = <<>> PROVE FALSE
  OBVIOUS
<1>6. Threads = {c} \cup ToSet(wait)
  <2>1. ToSet(<<>>) = {}
    BY DEF ToSet
  <2> QED BY <1>1, <1>5, <2>1 DEF AtomicInv, PInv, QueueInv
<1>7. \A t \in ToSet(wait) : \E u \in Threads : mu[t] \in holds[u]
  BY DEF AtomicInv, WaitInv
<1>8. \A t \in ToSet(wait) : \A n \in holds[t] : n < mu[t]
  BY DEF AtomicInv, WaitInv
<1> DEFINE S == {mu[t] : t \in ToSet(wait)}
<1>9. PICK u \in ToSet(wait) : h \in holds[u] /\ h < mu[u]
  BY <1>3, <1>4, <1>6, <1>8
<1>10. PICK m \in S : \A n \in S : n <= m
  <2>1. S \in SUBSET (0 .. MaxMutex) /\ S # {}
    BY <1>2, <1>6, <1>9, PreemptAssumption DEF Numbers
  <2> HIDE DEF S
  <2> QED BY <2>1, GreatestNumber, PreemptAssumption
<1>11. PICK v \in ToSet(wait) : m = mu[v]
  BY <1>10
<1>12. mu[u] \in Int /\ mu[u] <= m /\ m \in Int /\ h \in Int
  BY <1>2, <1>3, <1>6, <1>9, <1>10, <1>11 DEF Numbers, Handles
<1>13. PICK w \in Threads : m \in holds[w]
  BY <1>7, <1>11
<1>14. w # c
  BY <1>4, <1>9, <1>12, <1>13
<1>15. w \in ToSet(wait) /\ m < mu[w]
  BY <1>6, <1>8, <1>13, <1>14
<1>16. mu[w] \in S /\ mu[w] \in Int
  BY <1>2, <1>13, <1>15 DEF Numbers
<1>17. mu[w] <= m
  <2> HIDE DEF S
  <2> QED BY <1>10, <1>16
<1> QED BY <1>12, <1>15, <1>16, <1>17

\* A step that leaves holders, waiters and slots alone.
LEMMA SharedKept ==
  ASSUME AtomicInv, UNCHANGED <<holds, wait, used, made>>,
         \A t \in ToSet(wait) : mu'[t] = mu[t]
  PROVE  MutualExclusion' /\ WaitInv' /\ SlotInv'
<1>1. Mutexes' = Mutexes
  BY DEF Mutexes
<1> QED BY <1>1 DEF AtomicInv, MutualExclusion, WaitInv, SlotInv

\* CURRENT goes on with what it knows, or leaves the call.
LEMMA CallBrings ==
  ASSUME AtomicInv, NEW a \in Places, NEW h \in Numbers, NEW n \in Int, Brings(a, h, n),
         a = "user" \/ (current' = current /\ KnowsAt(current, a, h)')
  PROVE  OneCall' /\ Knowledge'
<1>1. PICK c \in Threads : c = current
  BY DEF AtomicInv, PInv, PTypes
<1>2. /\ pc'[c].at = a /\ pc'[c].h = h
      /\ \A t \in Threads : t # c => pc'[t].at = "user"
  BY <1>1, BringFacts DEF AtomicInv, PInv, OneCall
<1>3. OneCall'
  BY <1>1, <1>2 DEF OneCall
<1>4. ASSUME NEW t \in Threads, pc'[t].at = "user"
      PROVE  KnowsAt(t, pc[t].at, pc[t].h)'
  BY <1>4 DEF KnowsAt, Locking, Storing
<1>5. ASSUME a # "user"
      PROVE  KnowsAt(c, pc[c].at, pc[c].h)'
  BY <1>1, <1>2, <1>5 DEF KnowsAt
<1> QED BY <1>2, <1>3, <1>4, <1>5 DEF Knowledge

\* The same where it takes no number with it.
LEMMA CallGoesOn ==
  ASSUME AtomicInv, NEW a \in Places, NEW h \in Numbers, Moves(a, h),
         a = "user" \/ (current' = current /\ KnowsAt(current, a, h)')
  PROVE  OneCall' /\ Knowledge'
BY CallBrings DEF Moves

\* A store finds the count that the thread loaded, as no other thread was in a call.
LEMMA NothingTorn ==
  ASSUME AtomicInv, NEW h \in Handles, NEW d \in Int, Stores(h, d),
         pc[current].at \in Storing, pc[current].h = h
  PROVE  NoneTorn' /\ UNCHANGED used
<1>1. PTypes /\ current \in Threads
  BY DEF AtomicInv, PInv, PTypes
<1>2. torn[h] = 0 /\ count[h] = pc[current].n
  BY <1>1 DEF AtomicInv, NoneTorn, Knowledge, KnowsAt
<1> QED BY <1>1, <1>2, StoreFacts DEF AtomicInv, NoneTorn

\* A step in which no thread is in a call.
LEMMA AllInUser ==
  ASSUME \A t \in Threads : pc'[t].at = "user"
  PROVE  OneCall' /\ Knowledge'
BY DEF OneCall, Knowledge, KnowsAt, Locking, Storing

\* The timer expires in user code.
LEMMA ATimer ==
  ASSUME TimerAt = "user", AtomicInv, PInv', timer_handler
  PROVE  AtomicInv'
<1>1. /\ pc[current].at = "user"
      /\ UNCHANGED <<wait, used, count, torn, mu, pc, holds, made, halt>>
  BY DEF timer_handler, table, User
<1>2. \A t \in Threads : pc'[t].at = "user"
  BY <1>1 DEF AtomicInv, OneCall
<1> QED BY <1>1, <1>2, AllInUser, SharedKept DEF AtomicInv, NoneTorn

\* The process ends, or nothing happens.
LEMMA AHalts ==
  ASSUME AtomicInv, PInv', UNCHANGED <<queues, table, mu, pc, holds, made>>
  PROVE  AtomicInv'
<1>1. UNCHANGED <<current, ready, wait, used, count, torn, mu, pc, holds, made>>
  BY DEF queues, table
<1>2. OneCall' /\ Knowledge'
  BY <1>1 DEF AtomicInv, OneCall, Knowledge, KnowsAt
<1> QED BY <1>1, <1>2, SharedKept DEF AtomicInv, NoneTorn

\* A yield asks the queue and takes its head.
LEMMA AYield ==
  ASSUME AtomicInv, PInv', yield_check \/ yield_queue
  PROVE  AtomicInv'
<1>1. /\ \/ Moves("yield_queue", 0) /\ current' = current
         \/ Moves("user", 0)
      /\ UNCHANGED <<wait, used, torn, mu, holds, made>>
  BY AtFacts DEF yield_check, yield_queue, queues, table, AtomicInv, PInv
<1>2. {"user", "yield_queue"} \subseteq Places /\ 0 \in Numbers
  BY NumberFacts DEF Places
<1>3. KnowsAt(current, "yield_queue", 0)'
  BY DEF KnowsAt, Locking, Storing
<1> QED BY <1>1, <1>2, <1>3, CallGoesOn, SharedKept DEF AtomicInv, NoneTorn

\* alloc_mutex finds a slot that is free, and finds it still free.
LEMMA AAllocScan ==
  ASSUME AtomicInv, PInv', NEW h \in Handles, alloc_scan(h)
  PROVE  AtomicInv'
<1>1. /\ Moves("alloc_take", h) /\ ~used[h]
      /\ UNCHANGED <<current, wait, used, torn, mu, holds, made>>
  BY AtFacts DEF alloc_scan, queues, table, AtomicInv, PInv
<1>2. "alloc_take" \in Places /\ h \in Numbers
  BY NumberFacts DEF Places
<1>3. KnowsAt(current, "alloc_take", h)'
  BY <1>1 DEF KnowsAt, Locking, Storing
<1> QED BY <1>1, <1>2, <1>3, CallGoesOn, SharedKept DEF AtomicInv, NoneTorn

\* alloc_mutex takes a slot that no mutex has.
LEMMA AAllocTake ==
  ASSUME AtomicInv, PInv', NEW h \in Handles, alloc_take(h)
  PROVE  AtomicInv'
<1>1. PICK c \in Threads : c = current
  BY DEF AtomicInv, PInv, PTypes
<1>2. /\ pc[c].at = "alloc_take" /\ pc[c].h = h /\ Moves("user", 0)
      /\ used' = [used EXCEPT ![h] = TRUE]
      /\ made' = [made EXCEPT ![c] = h]
      /\ UNCHANGED <<wait, torn, mu, holds>>
  BY <1>1, AtFacts DEF alloc_take, queues, AtomicInv, PInv
<1>3. "user" \in Places /\ 0 \in Numbers /\ h # 0
  BY NumberFacts DEF Places
<1>4. /\ made[c] = 0 /\ made'[c] = h /\ \A t \in Threads : t # c => made'[t] = made[t]
      /\ used'[h] /\ \A g \in Handles : g # h => used'[g] = used[g]
  BY <1>2 DEF AtomicInv, PInv, PTypes, CallInv, CallOf, CallAt
<1>5. Mutexes' = Mutexes \cup {h}
  BY <1>3, <1>4 DEF Mutexes
<1>6. h \notin Premade /\ \A t \in Threads : made[t] # h
  <2>1. ~used[h]
    BY <1>2 DEF AtomicInv, Knowledge, KnowsAt
  <2>2. h \notin Mutexes
    BY <2>1 DEF AtomicInv, SlotInv
  <2> QED BY <1>3, <2>2 DEF Mutexes
<1>7. SlotInv'
  BY <1>3, <1>4, <1>5, <1>6 DEF AtomicInv, SlotInv
<1>8. MutualExclusion' /\ WaitInv'
  BY <1>2 DEF AtomicInv, MutualExclusion, WaitInv
<1> QED BY <1>2, <1>3, <1>7, <1>8, CallGoesOn DEF AtomicInv, NoneTorn

\* The test of the count tells whether another thread holds the mutex.
LEMMA ALockTest ==
  ASSUME AtomicInv, PInv', NEW h \in Handles, lock_test(h)
  PROVE  AtomicInv'
<1>0. PICK a : a = IF count[h] = 0 THEN "take_load" ELSE "count_load"
  OBVIOUS
<1>1. /\ pc[current].at = "user" /\ Moves(a, h)
      /\ h \in Mutexes /\ \A n \in holds[current] : n < h
      /\ UNCHANGED <<current, wait, used, torn, mu, holds, made>>
  BY <1>0, AtFacts DEF lock_test, queues, table, AtomicInv, PInv
<1>2. a \in Places /\ h \in Numbers
  BY <1>0, NumberFacts DEF Places, Locking
<1>3. KnowsAt(current, a, h)'
  <2>1. CASE count[h] = 0
    <3>1. \A u \in Threads : h \notin holds[u]
      BY <1>1, <2>1, CountSays, ClaimsAreHeld
    <3> QED BY <1>0, <1>1, <2>1, <3>1 DEF KnowsAt, Locking, Storing
  <2>2. CASE count[h] # 0
    <3>1. \E u \in Threads : h \in holds[u]
      BY <1>1, <2>2, CountSays, ClaimsAreHeld
    <3> QED BY <1>0, <1>1, <2>2, <3>1 DEF KnowsAt, Locking, Storing
  <2> QED BY <2>1, <2>2
<1> QED BY <1>1, <1>2, <1>3, CallGoesOn, SharedKept DEF AtomicInv, NoneTorn

\* What CURRENT knows does not change with the load, and it now knows the count.
LEMMA ALoad ==
  ASSUME AtomicInv, PInv', NEW h \in Handles, load(h)
  PROVE  AtomicInv'
<1>1. /\ UNCHANGED <<current, wait, used, count, torn, mu, holds, made>>
      /\ pc[current].h = h /\ count[h] \in Int /\ current \in Threads
  BY LoadFacts DEF AtomicInv, PInv, PTypes
<1>2. PICK u \in Updates : pc[current].at = u[1] /\ Brings(u[2], h, count[h])
  BY LoadFacts DEF AtomicInv, PInv
<1>3. PICK a, b : a = u[1] /\ b = u[2]
  OBVIOUS
<1>4. \/ a = "take_load" /\ b = "lock_take"
      \/ a = "count_load" /\ b = "lock_count"
      \/ a = "last_load" /\ b = "unlock_last"
      \/ a = "hand_load" /\ b = "unlock_hand"
  BY <1>3 DEF Updates
<1>5. b \in Places /\ h \in Numbers
  BY <1>4, NumberFacts DEF Places, Locking, Unlocking
<1>6. pc[current].at = a /\ Brings(b, h, count[h])
  BY <1>2, <1>3
<1>7. KnowsAt(current, b, h)'
  <2>1. KnowsAt(current, a, h)
    BY <1>1, <1>6 DEF AtomicInv, Knowledge
  <2>2. pc'[current].n = count'[h]
    BY <1>1, <1>5, <1>6, BringFacts DEF AtomicInv, PInv
  <2> QED BY <1>1, <1>4, <2>1, <2>2 DEF KnowsAt, Locking, Storing
<1> QED BY <1>1, <1>5, <1>6, <1>7, CallBrings, SharedKept DEF AtomicInv, NoneTorn

\* A mutex that nobody held gets its holder.
LEMMA ALockTake ==
  ASSUME AtomicInv, PInv', NEW h \in Handles, lock_take(h)
  PROVE  AtomicInv'
<1>1. PICK c \in Threads : c = current
  BY DEF AtomicInv, PInv, PTypes
<1>2. /\ pc[c].at = "lock_take" /\ pc[c].h = h /\ Moves("user", 0) /\ Stores(h, 1)
      /\ holds' = [holds EXCEPT ![c] = @ \cup {h}]
      /\ UNCHANGED <<wait, mu, made>>
  BY <1>1, AtFacts DEF lock_take, Gets, queues, AtomicInv, PInv
<1>3. "user" \in Places /\ 0 \in Numbers
  BY NumberFacts DEF Places
<1>4. holds'[c] = holds[c] \cup {h} /\ \A t \in Threads : t # c => holds'[t] = holds[t]
  BY <1>2 DEF AtomicInv, PInv, PTypes
<1>5. \A u \in Threads : h \notin holds[u]
  BY <1>2 DEF AtomicInv, Knowledge, KnowsAt
<1>6. MutualExclusion'
  BY <1>4, <1>5 DEF AtomicInv, MutualExclusion
<1>7. c \notin ToSet(wait) /\ ToSet(wait) \subseteq Threads
  BY <1>1 DEF AtomicInv, PInv, QueueInv
<1>8. WaitInv'
  BY <1>2, <1>4, <1>7 DEF AtomicInv, WaitInv
<1>9. NoneTorn' /\ UNCHANGED used
  BY <1>1, <1>2, NothingTorn DEF Storing
<1>10. SlotInv'
  BY <1>2, <1>9 DEF AtomicInv, SlotInv, Mutexes
<1> QED BY <1>2, <1>3, <1>6, <1>8, <1>9, <1>10, CallGoesOn DEF AtomicInv

\* The waiter notes for which mutex it waits.
LEMMA ALockCount ==
  ASSUME AtomicInv, PInv', NEW h \in Handles, lock_count(h)
  PROVE  AtomicInv'
<1>1. PICK c \in Threads : c = current
  BY DEF AtomicInv, PInv, PTypes
<1>2. /\ pc[c].at = "lock_count" /\ pc[c].h = h /\ Moves("wait_check", h) /\ Stores(h, 1)
      /\ mu' = [mu EXCEPT ![c] = h]
      /\ UNCHANGED <<current, wait, holds, made>>
  BY <1>1, AtFacts DEF lock_count, queues, AtomicInv, PInv
<1>3. "wait_check" \in Places /\ h \in Numbers
  BY NumberFacts DEF Places, Locking
<1>4. \A t \in ToSet(wait) : mu'[t] = mu[t]
  BY <1>1, <1>2 DEF AtomicInv, PInv, QueueInv
<1>5. KnowsAt(current, "wait_check", h)'
  BY <1>1, <1>2 DEF AtomicInv, Knowledge, KnowsAt, Locking, Storing
<1>6. NoneTorn' /\ UNCHANGED used
  BY <1>1, <1>2, NothingTorn DEF Storing
<1> QED BY <1>2, <1>3, <1>4, <1>5, <1>6, CallGoesOn, SharedKept DEF AtomicInv

\* The waiter finds somebody to run.
LEMMA AWaitCheck ==
  ASSUME AtomicInv, PInv', NEW h \in Handles, wait_check(h)
  PROVE  AtomicInv' /\ UNCHANGED holds
<1>1. PICK c \in Threads : c = current
  BY DEF AtomicInv, PInv, PTypes
<1>2. /\ pc[c].at = "wait_check" /\ pc[c].h = h
      /\ UNCHANGED <<current, wait, used, torn, mu, made>>
  BY <1>1, AtFacts DEF wait_check, queues, table, AtomicInv, PInv
<1>3. Moves("wait_queue", h) /\ UNCHANGED holds
  BY <1>1, <1>2, AtFacts, WaitFindsReady DEF wait_check, AtomicInv, PInv
<1>4. "wait_queue" \in Places /\ h \in Numbers
  BY NumberFacts DEF Places, Locking
<1>5. KnowsAt(current, "wait_queue", h)'
  BY <1>1, <1>2, <1>3 DEF AtomicInv, Knowledge, KnowsAt, Locking, Storing
<1> QED BY <1>2, <1>3, <1>4, <1>5, CallGoesOn, SharedKept DEF AtomicInv, NoneTorn

\* The waiter goes to the wait queue.
LEMMA AWaitQueue ==
  ASSUME AtomicInv, PInv', NEW h \in Handles, wait_queue(h)
  PROVE  AtomicInv'
<1>1. PICK c \in Threads : c = current
  BY DEF AtomicInv, PInv, PTypes
<1>2. /\ pc[c].at = "wait_queue" /\ pc[c].h = h /\ Moves("user", 0)
      /\ wait' = Append(wait, c)
      /\ UNCHANGED <<used, torn, mu, holds, made>>
  BY <1>1, AtFacts DEF wait_queue, table, AtomicInv, PInv
<1>3. "user" \in Places /\ 0 \in Numbers
  BY NumberFacts DEF Places
<1>4. ToSet(wait') = ToSet(wait) \cup {c}
  BY <1>2, AppendToSet DEF AtomicInv, PInv, PTypes
<1>5. mu[c] = h
  BY <1>2 DEF AtomicInv, PInv, CallInv, CallOf, CallAt
<1>6. (\A n \in holds[c] : n < h) /\ \E u \in Threads : h \in holds[u]
  BY <1>2 DEF AtomicInv, Knowledge, KnowsAt, Locking, Storing
<1>7. WaitInv'
  BY <1>2, <1>4, <1>5, <1>6 DEF AtomicInv, WaitInv
<1>8. MutualExclusion' /\ SlotInv'
  BY <1>2 DEF AtomicInv, MutualExclusion, SlotInv, Mutexes
<1> QED BY <1>2, <1>3, <1>7, <1>8, CallGoesOn DEF AtomicInv, NoneTorn

\* The holder of a mutex does not find its count zero.
LEMMA AUnlock ==
  ASSUME AtomicInv, PInv', NEW h \in Handles, unlock(h)
  PROVE  AtomicInv' /\ UNCHANGED holds
<1>1. PICK c \in Threads : c = current
  BY DEF AtomicInv, PInv, PTypes
<1>2. /\ pc[c].at = "user" /\ h \in holds[c]
      /\ UNCHANGED <<current, wait, used, torn, mu, made>>
  BY <1>1, AtFacts DEF unlock, queues, table, AtomicInv, PInv
<1>3. count[h] # 0
  <2>1. h \in Mutexes
    BY <1>2 DEF AtomicInv, PInv, CallInv, CallOf
  <2>2. Claim(c, h)
    BY <1>2 DEF Claim
  <2> QED BY <2>1, <2>2, CountSays
<1>4. Moves("unlock_test", h) /\ UNCHANGED holds
  BY <1>3, AtFacts DEF unlock, AtomicInv, PInv
<1>5. "unlock_test" \in Places /\ h \in Numbers
  BY NumberFacts DEF Places, Unlocking
<1>6. KnowsAt(current, "unlock_test", h)'
  BY DEF KnowsAt, Locking, Storing
<1> QED BY <1>2, <1>4, <1>5, <1>6, CallGoesOn, SharedKept DEF AtomicInv, NoneTorn

\* A count of one tells the holder that nobody waits.
LEMMA AUnlockTest ==
  ASSUME AtomicInv, PInv', NEW h \in Handles, unlock_test(h)
  PROVE  AtomicInv'
<1>0. PICK a : a = IF LastClaim(h) THEN "last_load" ELSE "hand_load"
  OBVIOUS
<1>1. PICK c \in Threads : c = current
  BY DEF AtomicInv, PInv, PTypes
<1>2. /\ pc[c].at = "unlock_test" /\ pc[c].h = h /\ Moves(a, h)
      /\ UNCHANGED <<current, wait, used, torn, mu, holds, made>>
  BY <1>0, <1>1, AtFacts DEF unlock_test, queues, table, AtomicInv, PInv
<1>3. a \in Places /\ h \in Numbers
  BY <1>0, NumberFacts DEF Places, Unlocking
<1>4. c \notin ToSet(wait) /\ ToSet(wait) \subseteq Threads /\ h \in holds[c] /\ h \in Mutexes
  BY <1>1, <1>2 DEF AtomicInv, PInv, QueueInv, CallInv, CallOf, CallAt, Unlocking
<1>5. ASSUME LastClaim(h), NEW u \in ToSet(wait), mu[u] = h
      PROVE  FALSE
  <2>1. Claim(c, h) /\ Claim(u, h) /\ u # c /\ u \in Threads
    BY <1>2, <1>4, <1>5 DEF Claim
  <2> QED BY <1>4, <1>5, <2>1, CountSays DEF LastClaim
<1>6. KnowsAt(current, a, h)'
  BY <1>0, <1>2, <1>5 DEF KnowsAt, Locking, Storing
<1> QED BY <1>2, <1>3, <1>6, CallGoesOn, SharedKept DEF AtomicInv, NoneTorn

\* The holder of a mutex that nobody waits for gives it up.
LEMMA GivenUp ==
  ASSUME AtomicInv, NEW c \in Threads, c = current, NEW h \in holds[c],
         \A u \in ToSet(wait) : mu[u] # h,
         holds' = [holds EXCEPT ![c] = @ \ {h}],
         UNCHANGED <<wait, used, mu, made>>
  PROVE  MutualExclusion' /\ WaitInv' /\ SlotInv'
<1>1. holds'[c] = holds[c] \ {h} /\ \A t \in Threads : t # c => holds'[t] = holds[t]
  BY DEF AtomicInv, PInv, PTypes
<1>2. MutualExclusion'
  BY <1>1 DEF AtomicInv, MutualExclusion
<1>3. ToSet(wait) \subseteq Threads
  BY DEF AtomicInv, PInv, QueueInv
<1>4. ASSUME NEW t \in ToSet(wait)
      PROVE  /\ \E u \in Threads : mu[t] \in holds'[u]
             /\ \A n \in holds'[t] : n < mu[t]
  <2>1. PICK u \in Threads : mu[t] \in holds[u]
    BY DEF AtomicInv, WaitInv
  <2>2. mu[t] \in holds'[u]
    BY <1>1, <2>1
  <2>3. \A n \in holds'[t] : n < mu[t]
    BY <1>1, <1>3 DEF AtomicInv, WaitInv
  <2> QED BY <2>2, <2>3
<1>5. WaitInv'
  BY <1>4 DEF WaitInv
<1>6. SlotInv'
  BY DEF AtomicInv, SlotInv, Mutexes
<1> QED BY <1>2, <1>5, <1>6

\* The last claim goes.
LEMMA AUnlockLast ==
  ASSUME AtomicInv, PInv', NEW h \in Handles, unlock_last(h)
  PROVE  AtomicInv'
<1>1. PICK c \in Threads : c = current
  BY DEF AtomicInv, PInv, PTypes
<1>2. /\ pc[c].at = "unlock_last" /\ pc[c].h = h /\ Moves("user", 0) /\ Stores(h, -1)
      /\ holds' = [holds EXCEPT ![c] = @ \ {h}]
      /\ UNCHANGED <<wait, mu, made>>
  BY <1>1, AtFacts DEF unlock_last, Loses, queues, AtomicInv, PInv
<1>3. "user" \in Places /\ 0 \in Numbers
  BY NumberFacts DEF Places
<1>4. h \in holds[c] /\ \A u \in ToSet(wait) : mu[u] # h
  BY <1>2 DEF AtomicInv, PInv, CallInv, CallOf, CallAt, Unlocking, Knowledge, KnowsAt
<1>5. NoneTorn' /\ UNCHANGED used
  BY <1>1, <1>2, NothingTorn DEF Storing
<1> QED BY <1>1, <1>2, <1>3, <1>4, <1>5, GivenUp, CallGoesOn DEF AtomicInv

\* The holder of a mutex with waiters subtracts its claim.
LEMMA AUnlockHand ==
  ASSUME AtomicInv, PInv', NEW h \in Handles, unlock_hand(h)
  PROVE  AtomicInv'
<1>1. /\ pc[current].at = "unlock_hand" /\ pc[current].h = h /\ Moves("release", h)
      /\ Stores(h, -1)
      /\ UNCHANGED <<current, wait, mu, holds, made>>
  BY AtFacts DEF unlock_hand, queues, AtomicInv, PInv
<1>2. "release" \in Places /\ h \in Numbers
  BY NumberFacts DEF Places, Unlocking
<1>3. KnowsAt(current, "release", h)'
  BY DEF KnowsAt, Locking, Storing
<1>4. NoneTorn' /\ UNCHANGED used
  BY <1>1, NothingTorn DEF Storing
<1> QED BY <1>1, <1>2, <1>3, <1>4, CallGoesOn, SharedKept DEF AtomicInv

\* c gives h up, and w has it, the first waiter for h, at place i of the queue.
Passes(c, h, w, i) ==
  /\ w = wait[i] /\ mu[w] = h /\ w \in Threads \ {c}
  /\ FirstWaiter(h, i)
  /\ wait' = RemoveAt(wait, i)
  /\ ToSet(wait') = ToSet(wait) \ {w}
  /\ \A t \in Threads : holds'[t] = IF t = c THEN holds[t] \ {h}
                                   ELSE IF t = w THEN holds[t] \cup {h}
                                   ELSE holds[t]

\* What release_thread does when c is CURRENT.
LEMMA ReleaseFacts ==
  ASSUME AtomicInv, NEW h \in Handles, release_thread(h), NEW c, c = current
  PROVE  /\ c \in Threads /\ h \in holds[c] /\ h \in Mutexes /\ Moves("user", 0)
         /\ UNCHANGED <<current, used, torn, mu, made>>
         /\ \/ /\ \A u \in ToSet(wait) : mu[u] # h
               /\ holds' = [holds EXCEPT ![c] = @ \ {h}]
               /\ UNCHANGED wait
            \/ \E w \in ToSet(wait), i \in 1 .. Len(wait) : Passes(c, h, w, i)
<1>1. /\ c \in Threads /\ pc[c].at = "release" /\ pc[c].h = h /\ Moves("user", 0)
      /\ UNCHANGED <<current, used, torn, mu, made>>
  BY AtFacts DEF release_thread, table, AtomicInv, PInv, PTypes
<1>2. /\ h \in holds[c] /\ h \in Mutexes /\ c \notin ToSet(wait)
      /\ wait \in Seq(Threads) /\ IsInjective(wait)
      /\ holds \in [Threads -> SUBSET Handles]
  BY <1>1 DEF AtomicInv, PInv, PTypes, QueueInv, CallInv, CallOf, CallAt, Unlocking
<1>3. ASSUME NEW u \in ToSet(wait), mu[u] = h,
             \A i \in 1 .. Len(wait) : ~FirstWaiter(h, i)
      PROVE  FALSE
  <2> DEFINE S == {i \in 1 .. Len(wait) : mu[wait[i]] = h}
  <2>1. DOMAIN wait = 1 .. Len(wait) /\ Len(wait) \in Nat
    BY <1>2, LenProperties
  <2>2. S \in SUBSET Nat /\ S # {}
    BY <1>3, <2>1 DEF ToSet
  <2>3. PICK i \in S : \A j \in S : i <= j
    <3> HIDE DEF S
    <3> QED BY <2>2, LeastNatural
  <2>4. ASSUME NEW j \in 1 .. i - 1
        PROVE  mu[wait[j]] # h
    <3>1. i \in 1 .. Len(wait) /\ j \in 1 .. Len(wait) /\ ~(i <= j)
      BY <2>1, <2>3
    <3> QED BY <2>3, <3>1
  <2> QED BY <1>3, <2>3, <2>4 DEF FirstWaiter
<1>4. CASE /\ \A i \in 1 .. Len(wait) : ~FirstWaiter(h, i)
           /\ Loses(c, h)
           /\ UNCHANGED <<ready, wait>>
  BY <1>1, <1>2, <1>3, <1>4 DEF Loses
<1>5. CASE \E i \in 1 .. Len(wait) :
             /\ FirstWaiter(h, i)
             /\ wait' = RemoveAt(wait, i)
             /\ ready' = Append(ready, wait[i])
             /\ holds' = [holds EXCEPT ![c] = @ \ {h}, ![wait[i]] = @ \cup {h}]
  <2>1. PICK i \in 1 .. Len(wait) :
             /\ FirstWaiter(h, i)
             /\ wait' = RemoveAt(wait, i)
             /\ holds' = [holds EXCEPT ![c] = @ \ {h}, ![wait[i]] = @ \cup {h}]
    BY <1>5
  <2>2. PICK w : w = wait[i]
    OBVIOUS
  <2>3. w \in ToSet(wait) /\ w \in Threads /\ ToSet(wait') = ToSet(wait) \ {w}
    BY <1>2, <2>1, <2>2, RemoveAtToSet
  <2>4. mu[w] = h /\ w # c
    BY <1>2, <2>1, <2>2, <2>3 DEF FirstWaiter
  <2>5. \A t \in Threads : holds'[t] = IF t = c THEN holds[t] \ {h}
                                       ELSE IF t = w THEN holds[t] \cup {h}
                                       ELSE holds[t]
    BY <1>1, <1>2, <2>1, <2>2, <2>3, <2>4
  <2>6. Passes(c, h, w, i)
    BY <2>1, <2>2, <2>3, <2>4, <2>5 DEF Passes
  <2> QED BY <1>1, <1>2, <2>3, <2>6
<1> QED BY <1>4, <1>5 DEF release_thread

\* The mutex passes to the first waiter, and the others now wait for that one.
LEMMA ARelease ==
  ASSUME AtomicInv, PInv', NEW h \in Handles, release_thread(h)
  PROVE  AtomicInv'
<1>1. PICK c \in Threads : c = current
  BY DEF AtomicInv, PInv, PTypes
<1>2. h \in holds[c] /\ Moves("user", 0) /\ UNCHANGED <<used, torn, mu, made>>
  BY <1>1, ReleaseFacts
<1>3. "user" \in Places /\ 0 \in Numbers
  BY NumberFacts DEF Places
<1>4. CASE /\ \A u \in ToSet(wait) : mu[u] # h
           /\ holds' = [holds EXCEPT ![c] = @ \ {h}]
           /\ UNCHANGED wait
  BY <1>1, <1>2, <1>3, <1>4, GivenUp, CallGoesOn DEF AtomicInv, NoneTorn
<1>5. ASSUME NEW w \in ToSet(wait), NEW i \in 1 .. Len(wait), Passes(c, h, w, i)
      PROVE  AtomicInv'
  <2>0. /\ w \in Threads /\ w # c /\ mu[w] = h
        /\ ToSet(wait') = ToSet(wait) \ {w}
        /\ \A t \in Threads : holds'[t] = IF t = c THEN holds[t] \ {h}
                                         ELSE IF t = w THEN holds[t] \cup {h}
                                         ELSE holds[t]
    BY <1>5 DEF Passes
  <2>1. \A u \in Threads : u # c => h \notin holds[u]
    BY <1>2 DEF AtomicInv, MutualExclusion
  <2>2. MutualExclusion'
    <3>1. \A u, v \in Threads : u # v => holds[u] \cap holds[v] = {}
      BY DEF AtomicInv, MutualExclusion
    <3>2. ASSUME NEW u \in Threads, NEW v \in Threads, u # v
          PROVE  holds'[u] \cap holds'[v] = {}
      <4>1. CASE u # w /\ v # w
        BY <2>0, <3>1, <3>2, <4>1
      <4>2. CASE u = w
        BY <2>0, <2>1, <3>1, <3>2, <4>2
      <4>3. CASE v = w
        BY <2>0, <2>1, <3>1, <3>2, <4>3
      <4> QED BY <4>1, <4>2, <4>3
    <3> QED BY <3>2 DEF MutualExclusion
  <2>3. ToSet(wait) \subseteq Threads /\ c \notin ToSet(wait)
    BY <1>1 DEF AtomicInv, PInv, QueueInv
  <2>4. ASSUME NEW t \in ToSet(wait')
        PROVE  /\ \E u \in Threads : mu[t] \in holds'[u]
               /\ \A n \in holds'[t] : n < mu[t]
    <3>1. t \in ToSet(wait) /\ t # w /\ t # c /\ t \in Threads
      BY <2>0, <2>3, <2>4
    <3>2. PICK u \in Threads : mu[t] \in holds[u]
      BY <3>1 DEF AtomicInv, WaitInv
    <3>3. mu[t] \in holds'[IF mu[t] = h THEN w ELSE u]
      BY <2>0, <3>2
    <3>4. \A n \in holds'[t] : n < mu[t]
      BY <2>0, <3>1 DEF AtomicInv, WaitInv
    <3> QED BY <2>0, <3>3, <3>4
  <2>5. WaitInv'
    BY <1>2, <2>4 DEF WaitInv
  <2>6. SlotInv'
    BY <1>2 DEF AtomicInv, SlotInv, Mutexes
  <2> QED BY <1>2, <1>3, <2>2, <2>5, <2>6, CallGoesOn DEF AtomicInv, NoneTorn
<1> QED BY <1>1, <1>4, <1>5, ReleaseFacts

\* The invariant holds at the start.
LEMMA AtomicInvInit == Init => AtomicInv
<1> SUFFICES ASSUME Init PROVE AtomicInv
  OBVIOUS
<1>1. PInv
  BY PInvInit
<1>2. \A t \in Threads : pc[t].at = "user" /\ holds[t] = {} /\ made[t] = 0
  BY DEF Init, User
<1>3. ToSet(wait) = {}
  BY DEF Init, ToSet
<1>4. Mutexes = Premade /\ 0 \notin Premade /\ \A h \in Handles : used[h] <=> h \in Premade
  BY <1>2, NumberFacts DEF Init, Mutexes
<1>5. NoneTorn
  BY DEF Init, NoneTorn
<1> QED BY <1>1, <1>2, <1>3, <1>4, <1>5
        DEF AtomicInv, OneCall, MutualExclusion, WaitInv, SlotInv, Knowledge, KnowsAt, Locking, Storing

\* Every step keeps the invariant when the timer expires in user code only.
LEMMA AtomicInvStep ==
  ASSUME TimerAt = "user", AtomicInv, [Next]_vars
  PROVE  AtomicInv'
<1>1. PInv'
  BY PInvStep DEF AtomicInv
<1>2. CASE QueueGone \/ TableFull \/ UNCHANGED vars
  BY <1>1, <1>2, AHalts DEF QueueGone, TableFull, vars
<1>3. ASSUME NEW h \in Handles,
             \/ alloc_scan(h) \/ alloc_take(h) \/ load(h)
             \/ lock_test(h) \/ lock_take(h) \/ lock_count(h)
             \/ wait_check(h) \/ wait_queue(h)
             \/ unlock(h) \/ unlock_test(h) \/ unlock_last(h) \/ unlock_hand(h)
             \/ release_thread(h)
      PROVE  AtomicInv'
  BY <1>1, <1>3, AAllocScan, AAllocTake, ALoad, ALockTest, ALockTake, ALockCount, AWaitCheck,
     AWaitQueue, AUnlock, AUnlockTest, AUnlockLast, AUnlockHand, ARelease
<1> QED BY <1>1, <1>2, <1>3, ATimer, AYield DEF Next

\* The invariant holds in every reachable state.
LEMMA AtomicInvHolds == ASSUME TimerAt = "user" PROVE Spec => []AtomicInv
<1>1. AtomicInv /\ [Next]_vars => AtomicInv'
  BY AtomicInvStep
<1> QED BY <1>1, AtomicInvInit, PTL DEF Spec

-----------------------------------------------------------------------------
(* Preempt implements MutexService. *)

\* What the service sees.
Owner   == [h \in Handles |-> Holder(h)]
Waiting == [h \in Handles |-> LockWaiters(h)]
View    == <<Owner, Waiting, LockQueue>>

\* The holder of a mutex that one thread has.
LEMMA TheHolder ==
  ASSUME NEW H, NEW h, NEW t \in Threads, h \in H[t],
         \A u \in Threads : h \in H[u] => u = t
  PROVE  (IF \E u \in Threads : h \in H[u]
          THEN CHOOSE u \in Threads : h \in H[u] ELSE Null) = t
OBVIOUS

\* A mutex has no holder when no thread has it, and else the one that has.
LEMMA HolderOf ==
  ASSUME AtomicInv, NEW h
  PROVE  /\ (\A u \in Threads : h \notin holds[u]) => Holder(h) = Null
         /\ \A t \in Threads : h \in holds[t] => Holder(h) = t
<1>1. (\A u \in Threads : h \notin holds[u]) => Holder(h) = Null
  BY DEF Holder
<1>2. ASSUME NEW t \in Threads, h \in holds[t] PROVE Holder(h) = t
  <2>1. \A u \in Threads : h \in holds[u] => u = t
    BY <1>2 DEF AtomicInv, MutualExclusion
  <2> QED BY <1>2, <2>1, TheHolder DEF Holder
<1> QED BY <1>1, <1>2

\* The queue of a mutex is made of waiters.
LEMMA QueueHasWaiters ==
  ASSUME AtomicInv, NEW x \in Threads, NEW y \in Threads
  PROVE  /\ <<x, y>> \in LockQueue <=> mu[x] = mu[y] /\ Precedes(wait, x, y)
         /\ Precedes(wait, x, y) => x \in ToSet(wait) /\ y \in ToSet(wait)
<1>1. DOMAIN wait = 1 .. Len(wait)
  BY LenProperties DEF AtomicInv, PInv, PTypes
<1> QED BY <1>1 DEF LockQueue, Precedes, ToSet

\* A step that leaves holders and waiters alone is no step of the service.
LEMMA ViewKept ==
  ASSUME AtomicInv, UNCHANGED <<holds, wait>>, \A t \in ToSet(wait) : mu'[t] = mu[t]
  PROVE  UNCHANGED View
<1>1. \A h \in Handles : Holder(h)' = Holder(h) /\ LockWaiters(h)' = LockWaiters(h)
  BY DEF Holder, LockWaiters
<1>2. LockQueue' = LockQueue
  <2>1. DOMAIN wait = 1 .. Len(wait)
    BY LenProperties DEF AtomicInv, PInv, PTypes
  <2>2. \A i \in 1 .. Len(wait) : mu'[wait[i]] = mu[wait[i]]
    BY <2>1 DEF ToSet
  <2> QED BY <2>2 DEF LockQueue
<1> QED BY <1>1, <1>2 DEF View, Owner, Waiting, Handles

\* The lock of a free mutex is Acquire.
LEMMA LockAcquires ==
  ASSUME AtomicInv, AtomicInv', NEW h \in Handles, lock_take(h)
  PROVE  Service!Acquire(current, h)
<1>1. PICK c \in Threads : c = current
  BY DEF AtomicInv, PInv, PTypes
<1>2. /\ pc[c].at = "lock_take" /\ pc[c].h = h
      /\ holds' = [holds EXCEPT ![c] = @ \cup {h}]
      /\ UNCHANGED <<wait, mu>>
  BY <1>1, AtFacts DEF lock_take, Gets, queues, AtomicInv, PInv
<1>3. \A u \in Threads : h \notin holds[u]
  BY <1>2 DEF AtomicInv, Knowledge, KnowsAt
<1>4. \A t \in Threads : holds'[t] = IF t = c THEN holds[t] \cup {h} ELSE holds[t]
  BY <1>2 DEF AtomicInv, PInv, PTypes
<1>5. Holder(h) = Null /\ Holder(h)' = c
  <2>1. \A u \in Threads : h \in holds'[u] => u = c
    BY <1>3, <1>4
  <2>2. Holder(h)' = c
    BY <1>4, <2>1, TheHolder DEF Holder
  <2> QED BY <1>3, <2>2, HolderOf
<1>6. \A g \in Handles : g # h => Holder(g)' = Holder(g)
  BY <1>4 DEF Holder
<1>7. Owner' = [Owner EXCEPT ![h] = c] /\ Owner[h] = Null
  BY <1>5, <1>6 DEF Owner, Handles
<1>8. UNCHANGED <<Waiting, LockQueue>>
  BY <1>2 DEF Waiting, LockWaiters, LockQueue, Handles
<1> QED BY <1>1, <1>7, <1>8 DEF Service!Acquire, Owner, Waiting

\* The step to the wait queue is Enqueue.
LEMMA LockEnqueues ==
  ASSUME AtomicInv, AtomicInv', NEW h \in Handles, wait_queue(h)
  PROVE  Service!Enqueue(current, h)
<1>1. PICK c \in Threads : c = current
  BY DEF AtomicInv, PInv, PTypes
<1>2. /\ pc[c].at = "wait_queue" /\ pc[c].h = h
      /\ wait' = Append(wait, c)
      /\ UNCHANGED <<mu, holds>>
  BY <1>1, AtFacts DEF wait_queue, table, AtomicInv, PInv
<1>3. /\ c \notin ToSet(wait) /\ ToSet(wait) \subseteq Threads
      /\ wait \in Seq(Threads) /\ h \notin holds[c] /\ mu[c] = h
  BY <1>1, <1>2 DEF AtomicInv, PInv, PTypes, QueueInv, CallInv, CallOf, CallAt, Locking
<1>4. PICK v \in Threads : h \in holds[v]
  BY <1>2 DEF AtomicInv, Knowledge, KnowsAt
<1>5. Owner[h] \in Threads \ {c}
  BY <1>3, <1>4, HolderOf DEF Owner
<1>6. UNCHANGED Owner
  BY <1>2 DEF Owner, Holder, Handles
<1>7. \A g \in Handles : c \notin Waiting[g]
  BY <1>3 DEF Waiting, LockWaiters
<1>8. ToSet(wait') = ToSet(wait) \cup {c}
  BY <1>2, <1>3, AppendToSet
<1>9. Waiting' = [Waiting EXCEPT ![h] = @ \cup {c}]
  <2>1. \A g \in Handles : LockWaiters(g)' = IF g = h THEN LockWaiters(g) \cup {c} ELSE LockWaiters(g)
    BY <1>2, <1>3, <1>8 DEF LockWaiters
  <2> QED BY <2>1 DEF Waiting, Handles
<1>10. LockQueue' = LockQueue \cup (Waiting[h] \X {c})
  <2>1. \A x, y : Precedes(wait', x, y) <=> Precedes(wait, x, y) \/ (x \in ToSet(wait) /\ y = c)
    BY <1>2, <1>3, AppendOrder
  <2>2. ASSUME NEW x \in Threads, NEW y \in Threads
        PROVE  <<x, y>> \in LockQueue' <=> <<x, y>> \in LockQueue \/ (x \in Waiting[h] /\ y = c)
    <3>1. <<x, y>> \in LockQueue' <=> mu[x] = mu[y] /\ Precedes(wait', x, y)
      BY <1>2 DEF LockQueue, Precedes
    <3>2. <<x, y>> \in LockQueue <=> mu[x] = mu[y] /\ Precedes(wait, x, y)
      BY QueueHasWaiters
    <3>3. x \in Waiting[h] <=> x \in ToSet(wait) /\ mu[x] = h
      BY DEF Waiting, LockWaiters
    <3> QED BY <1>3, <2>1, <3>1, <3>2, <3>3
  <2>3. /\ LockQueue' \subseteq Threads \X Threads
        /\ LockQueue \subseteq Threads \X Threads
        /\ Waiting[h] \subseteq Threads
    BY <1>3 DEF LockQueue, Waiting, LockWaiters
  <2> QED BY <2>2, <2>3
<1> QED BY <1>1, <1>5, <1>6, <1>7, <1>9, <1>10 DEF Service!Enqueue, Owner, Waiting

\* A mutex that nobody waits for gets free.
LEMMA NobodyServed ==
  ASSUME AtomicInv, NEW c \in Threads, NEW h \in Handles, h \in holds[c],
         \A u \in ToSet(wait) : mu[u] # h,
         holds' = [holds EXCEPT ![c] = @ \ {h}],
         UNCHANGED <<wait, mu>>
  PROVE  Service!Release(h)
<1>1. \A t \in Threads : holds'[t] = IF t = c THEN holds[t] \ {h} ELSE holds[t]
  BY DEF AtomicInv, PInv, PTypes
<1>2. Owner[h] = c
  BY HolderOf DEF Owner
<1>3. \A u \in Threads : h \notin holds'[u]
  BY <1>1 DEF AtomicInv, MutualExclusion
<1>4. Holder(h)' = Null
  BY <1>3 DEF Holder
<1>5. ASSUME NEW g \in Handles, g # h
      PROVE  Holder(g)' = Holder(g)
  <2>1. \A u \in Threads : g \in holds'[u] <=> g \in holds[u]
    BY <1>1, <1>5
  <2> QED BY <2>1 DEF Holder
<1>6. Owner' = [Owner EXCEPT ![h] = Null]
  BY <1>4, <1>5 DEF Owner, Handles
<1>7. Waiting[h] = {}
  BY DEF Waiting, LockWaiters
<1>8. UNCHANGED <<Waiting, LockQueue>>
  BY DEF Waiting, LockWaiters, LockQueue, Handles
<1> QED BY <1>2, <1>6, <1>7, <1>8 DEF Service!Release, Owner, Waiting

\* A mutex passes to the first that waits for it.
LEMMA FirstServed ==
  ASSUME AtomicInv, NEW c \in Threads, NEW h \in Handles, h \in holds[c],
         NEW w \in ToSet(wait), NEW i \in 1 .. Len(wait), Passes(c, h, w, i),
         UNCHANGED mu
  PROVE  Service!Release(h)
<1>1. /\ w = wait[i] /\ mu[w] = h /\ w \in Threads /\ w # c
      /\ \A j \in 1 .. i - 1 : mu[wait[j]] # h
      /\ wait' = RemoveAt(wait, i) /\ ToSet(wait') = ToSet(wait) \ {w}
      /\ \A t \in Threads : holds'[t] = IF t = c THEN holds[t] \ {h}
                                       ELSE IF t = w THEN holds[t] \cup {h}
                                       ELSE holds[t]
  BY DEF Passes, FirstWaiter
<1>2. wait \in Seq(Threads) /\ IsInjective(wait) /\ ToSet(wait) \subseteq Threads
  BY DEF AtomicInv, PInv, PTypes, QueueInv
<1>3. Owner[h] = c
  BY HolderOf DEF Owner
<1>4. \A u \in Threads : u # c => h \notin holds[u]
  BY DEF AtomicInv, MutualExclusion
<1>5. Holder(h)' = w
  <2>1. h \in holds'[w] /\ \A u \in Threads : h \in holds'[u] => u = w
    BY <1>1, <1>4
  <2> QED BY <1>1, <2>1, TheHolder DEF Holder
<1>6. ASSUME NEW g \in Handles, g # h
      PROVE  Holder(g)' = Holder(g)
  <2>1. ASSUME NEW u \in Threads PROVE g \in holds'[u] <=> g \in holds[u]
    <3>1. g \in holds[u] \ {h} <=> g \in holds[u]
      BY <1>6
    <3>2. g \in holds[u] \cup {h} <=> g \in holds[u]
      BY <1>6
    <3>3. holds'[u] \in {holds[u], holds[u] \ {h}, holds[u] \cup {h}}
      BY <1>1
    <3> QED BY <3>1, <3>2, <3>3
  <2> QED BY <2>1 DEF Holder
<1>7. Owner' = [Owner EXCEPT ![h] = w]
  BY <1>5, <1>6 DEF Owner, Handles
<1>8. Waiting' = [Waiting EXCEPT ![h] = @ \ {w}] /\ w \in Waiting[h]
  <2>1. \A g \in Handles : LockWaiters(g)' = IF g = h THEN LockWaiters(g) \ {w} ELSE LockWaiters(g)
    BY <1>1 DEF LockWaiters
  <2>2. w \in LockWaiters(h)
    BY <1>1 DEF LockWaiters
  <2> QED BY <2>1, <2>2 DEF Waiting, Handles
<1>9. \A x, y : Precedes(wait', x, y) <=> Precedes(wait, x, y) /\ x # w /\ y # w
  BY <1>1, <1>2, RemoveAtOrder
\* The first waiter is the first of those that wait for h.
<1>10. \A u \in Threads : mu[u] = h => ~Precedes(wait, u, w)
  <2> SUFFICES ASSUME NEW u \in Threads, mu[u] = h,
                      NEW k \in 1 .. Len(wait), NEW l \in 1 .. Len(wait),
                      k < l, wait[k] = u, wait[l] = w
               PROVE  FALSE
    BY DEF Precedes
  <2>1. DOMAIN wait = 1 .. Len(wait)
    BY <1>2, LenProperties
  <2>2. l = i
    BY <1>1, <1>2, <2>1 DEF IsInjective
  <2>3. k \in 1 .. i - 1
    BY <2>2
  <2> QED BY <1>1, <2>3
<1>11. \A u \in Waiting[h] : <<u, w>> \notin LockQueue
  <2>1. \A u \in Waiting[h] : u \in Threads /\ mu[u] = h
    BY <1>2 DEF Waiting, LockWaiters
  <2> QED BY <1>1, <1>10, <2>1, QueueHasWaiters
<1>12. LockQueue' = LockQueue \ ({w} \X Threads)
  <2>1. ASSUME NEW x \in Threads, NEW y \in Threads
        PROVE  <<x, y>> \in LockQueue' <=> <<x, y>> \in LockQueue /\ x # w
    <3>1. <<x, y>> \in LockQueue' <=> mu[x] = mu[y] /\ Precedes(wait', x, y)
      BY DEF LockQueue, Precedes
    <3>2. <<x, y>> \in LockQueue <=> mu[x] = mu[y] /\ Precedes(wait, x, y)
      BY QueueHasWaiters
    <3>3. mu[x] = mu[y] /\ Precedes(wait, x, y) => y # w
      BY <1>1, <1>10
    <3> QED BY <1>9, <3>1, <3>2, <3>3
  <2>2. LockQueue' \subseteq Threads \X Threads /\ LockQueue \subseteq Threads \X Threads
    BY DEF LockQueue
  <2> QED BY <2>1, <2>2
<1> QED BY <1>1, <1>3, <1>7, <1>8, <1>11, <1>12
        DEF Service!Release, Service!IsFirst, Owner, Waiting

\* The last step of an unlock is Release.
LEMMA UnlockReleases ==
  ASSUME AtomicInv, NEW h \in Handles, unlock_last(h) \/ release_thread(h)
  PROVE  Service!Release(h)
<1>1. PICK c \in Threads : c = current
  BY DEF AtomicInv, PInv, PTypes
<1>2. CASE unlock_last(h)
  <2>1. /\ pc[c].at = "unlock_last" /\ pc[c].h = h
        /\ holds' = [holds EXCEPT ![c] = @ \ {h}]
        /\ UNCHANGED <<wait, mu>>
    BY <1>1, <1>2, AtFacts DEF unlock_last, Loses, queues, AtomicInv, PInv
  <2>2. h \in holds[c] /\ \A u \in ToSet(wait) : mu[u] # h
    BY <2>1 DEF AtomicInv, PInv, CallInv, CallOf, CallAt, Unlocking, Knowledge, KnowsAt
  <2> QED BY <2>1, <2>2, NobodyServed
<1>3. CASE release_thread(h)
  BY <1>1, <1>3, ReleaseFacts, NobodyServed, FirstServed
<1> QED BY <1>2, <1>3

\* At the start no mutex has an owner.
LEMMA ServiceInit == Init => Service!Init
<1> SUFFICES ASSUME Init PROVE Service!Init
  OBVIOUS
<1>1. \A h \in Handles : Holder(h) = Null
  BY DEF Init, Holder
<1>2. \A h \in Handles : LockWaiters(h) = {}
  BY DEF Init, LockWaiters, ToSet
<1>3. LockQueue = {}
  BY DEF Init, LockQueue
<1> QED BY <1>1, <1>2, <1>3 DEF Service!Init

\* A statement is a step of the service or none.
LEMMA ServiceStep ==
  ASSUME TimerAt = "user", AtomicInv, [Next]_vars
  PROVE  [Service!Next]_View
<1>0. AtomicInv' /\ PInv'
  BY AtomicInvStep DEF AtomicInv
<1>1. current \in Threads /\ current \notin ToSet(wait)
  BY DEF AtomicInv, PInv, PTypes, QueueInv
<1>2. CASE \/ timer_handler \/ yield_check \/ yield_queue \/ QueueGone \/ TableFull
           \/ UNCHANGED vars
  <2>1. UNCHANGED <<holds, wait, mu>>
    BY <1>2 DEF timer_handler, yield_check, yield_queue, QueueGone, TableFull, vars, queues
  <2> QED BY <2>1, ViewKept
<1>3. ASSUME NEW h \in Handles,
             \/ alloc_scan(h) \/ alloc_take(h) \/ load(h)
             \/ lock_test(h) \/ unlock_test(h) \/ unlock_hand(h)
             \/ wait_check(h) \/ unlock(h)
      PROVE  UNCHANGED View
  <2>1. UNCHANGED <<holds, wait, mu>>
    BY <1>0, <1>3, AWaitCheck, AUnlock
       DEF alloc_scan, alloc_take, load, lock_test, unlock_test, unlock_hand, wait_check, unlock, queues
  <2> QED BY <2>1, ViewKept
<1>4. ASSUME NEW h \in Handles, lock_count(h)
      PROVE  UNCHANGED View
  <2>1. UNCHANGED <<holds, wait>> /\ mu' = [mu EXCEPT ![current] = h]
    BY <1>4 DEF lock_count, queues
  <2>2. \A t \in ToSet(wait) : mu'[t] = mu[t]
    BY <1>1, <2>1 DEF AtomicInv, PInv, PTypes, QueueInv
  <2> QED BY <2>1, <2>2, ViewKept
<1>5. ASSUME NEW h \in Handles, lock_take(h) \/ wait_queue(h)
      PROVE  Service!Next
  BY <1>0, <1>1, <1>5, LockAcquires, LockEnqueues DEF Service!Next
<1>6. ASSUME NEW h \in Handles, unlock_last(h) \/ release_thread(h)
      PROVE  Service!Next
  BY <1>6, UnlockReleases DEF Service!Next
<1> QED BY <1>2, <1>3, <1>4, <1>5, <1>6 DEF Next

\* No two threads have one mutex when the timer expires in user code only: when
\* it may expire anywhere, a run shows that they do.
THEOREM CallsExclude == ASSUME TimerAt = "user" PROVE Spec => []MutualExclusion
<1>1. AtomicInv => MutualExclusion
  BY DEF AtomicInv
<1> QED BY <1>1, AtomicInvHolds, PTL

\* The statements of the calls of the mutex library together do what MutexService
\* asks of the calls: owners one at a time and waiters in their order.
THEOREM CallsAreAtomic == ASSUME TimerAt = "user" PROVE Spec => ImplementsService
<1>1. AtomicInv /\ [Next]_vars => [Service!Next]_View
  BY ServiceStep
<1>2. AtomicInv /\ [Next]_vars =>
        [Service!Next]_<<[h \in Handles |-> Holder(h)], [h \in Handles |-> LockWaiters(h)], LockQueue>>
  BY <1>1 DEF View, Owner, Waiting
<1> QED BY <1>2, ServiceInit, AtomicInvHolds, PTL DEF Spec, ImplementsService, Service!Spec
===============================================================================
