---------------------------- MODULE PreemptService ----------------------------
(* Preempt implements MutexService while the timer expires in user code only: *)
(* the refinement mapping.                                                    *)
EXTENDS Preempt

Holder(h) ==
  IF \E t \in Threads : h \in holds[t]
  THEN CHOOSE t \in Threads : h \in holds[t]
  ELSE Null

LockWaiters(h) == {t \in ToSet(wait) : mu[t] = h}

\* The order of the one wait queue, restricted to those that wait for one mutex.
LockQueue ==
  {p \in Threads \X Threads :
     /\ mu[p[1]] = mu[p[2]]
     /\ \E i, j \in 1 .. Len(wait) : i < j /\ wait[i] = p[1] /\ wait[j] = p[2]}

Service == INSTANCE MutexService
  WITH Mutexes <- Handles,
       Nobody <- Null,
       owner <- [h \in Handles |-> Holder(h)],
       waiting <- [h \in Handles |-> LockWaiters(h)],
       before <- LockQueue

\* The statements of a call take effect at one of them, as one step of the
\* service: a call is atomic if only the timer leaves it alone.
ImplementsService == Service!Spec
===============================================================================
