---------------------------- MODULE PthreadService ----------------------------
(* Pthread implements MutexService: the refinement mapping.                 *)
EXTENDS Pthread

Mutexes == Handles \ {0}

Holder(m) ==
  IF \E t \in Threads : m \in holds[t]
  THEN CHOOSE t \in Threads : m \in holds[t]
  ELSE Null

LockWaiters(m) == {t \in Threads : blocked[t] = "lock" /\ mu[t] = m}

\* The order of the one wait queue, restricted to those that wait for one mutex.
LockQueue ==
  {p \in Threads \X Threads :
     /\ \E m \in Mutexes : {p[1], p[2]} \subseteq LockWaiters(m)
     /\ \E i, j \in 1 .. Len(wait) : i < j /\ wait[i] = p[1] /\ wait[j] = p[2]}

Service == INSTANCE MutexService
  WITH Nobody <- Null,
       owner <- [m \in Mutexes |-> Holder(m)],
       waiting <- [m \in Mutexes |-> LockWaiters(m)],
       before <- LockQueue

\* Each library call is one step of the service or none: a mutex passes from
\* owner to owner in the order in which the threads called
\* my_pthread_mutex_lock, although all waiters share one queue with the
\* joiners and release_thread searches it.
ImplementsService == Service!Spec
=============================================================================
