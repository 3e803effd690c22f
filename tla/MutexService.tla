----------------------------- MODULE MutexService -----------------------------
(***************************************************************************)
(* What a program expects of the mutexes of my_pthread_t.h: a mutex has at *)
(* most one owner, the threads that wait for it are served in the order in *)
(* which they came, and a thread that gives it up hands it to the first.   *)
(***************************************************************************)
CONSTANTS Threads, Mutexes, Nobody

VARIABLES
  owner,    \* the thread that has each mutex
  waiting,  \* the threads that wait for each mutex
  before    \* the pairs of them of which the first came before the second

Init ==
  /\ owner = [m \in Mutexes |-> Nobody]
  /\ waiting = [m \in Mutexes |-> {}]
  /\ before = {}

Acquire(t, m) ==
  /\ owner[m] = Nobody
  /\ owner' = [owner EXCEPT ![m] = t]
  /\ UNCHANGED <<waiting, before>>

Enqueue(t, m) ==
  /\ owner[m] \in Threads \ {t}
  /\ \A n \in Mutexes : t \notin waiting[n]
  /\ waiting' = [waiting EXCEPT ![m] = @ \cup {t}]
  /\ before' = before \cup (waiting[m] \X {t})
  /\ UNCHANGED owner

IsFirst(t, m) == t \in waiting[m] /\ \A u \in waiting[m] : <<u, t>> \notin before

Release(m) ==
  /\ owner[m] \in Threads
  /\ \/ /\ waiting[m] = {}
        /\ owner' = [owner EXCEPT ![m] = Nobody]
        /\ UNCHANGED <<waiting, before>>
     \/ \E t \in Threads :
          /\ IsFirst(t, m)
          /\ owner' = [owner EXCEPT ![m] = t]
          /\ waiting' = [waiting EXCEPT ![m] = @ \ {t}]
          /\ before' = before \ ({t} \X Threads)

Next ==
  \/ \E t \in Threads, m \in Mutexes : Acquire(t, m) \/ Enqueue(t, m)
  \/ \E m \in Mutexes : Release(m)

Spec == Init /\ [][Next]_<<owner, waiting, before>>
=============================================================================
