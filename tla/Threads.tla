------------------------------- MODULE Threads -------------------------------
(***************************************************************************)
(* The Mutex and Condition classes of lib/crack/threads.crk, on which the  *)
(* thread-safe queues, the latching Event and the Comm messages are built. *)
(*                                                                         *)
(* Both classes are thin wrappers of pthread objects.  The state kept here *)
(* is what the callers can tell apart: who holds the mutex and which       *)
(* threads are blocked inside pthread_cond_wait().  A thread that has been *)
(* woken has left `sleeping' but still has to take the mutex again before  *)
(* Condition.wait() returns.                                               *)
(***************************************************************************)
EXTENDS FiniteSets

CONSTANTS Thread,     \* the threads that share the mutex
          NoThread,   \* the owner of an unlocked mutex
          Spurious    \* TRUE if pthread_cond_wait() may wake up unsignalled

ASSUME ThreadsAssumption ==
  /\ IsFiniteSet(Thread)
  /\ NoThread \notin Thread
  /\ Spurious \in BOOLEAN

VARIABLES owner,      \* the thread that holds the mutex, or NoThread
          sleeping    \* the threads blocked on the condition

threadVars == <<owner, sleeping>>

ThreadsTypeOK ==
  /\ owner \in Thread \cup {NoThread}
  /\ sleeping \in SUBSET Thread

ThreadsInit ==
  /\ owner = NoThread
  /\ sleeping = {}

\* Mutex.lock(), also the constructor of MutexLock: block until the mutex is
\* free, then hold it.
Lock(t) ==
  /\ owner = NoThread
  /\ owner' = t

\* Mutex.unlock(), also the destructor of MutexLock.
Unlock(t) ==
  /\ owner = t
  /\ owner' = NoThread

\* The first half of Condition.wait(): release the mutex and block, in one
\* step.  The second half is Relock.
Wait(t) ==
  /\ owner = t
  /\ owner' = NoThread
  /\ sleeping' = sleeping \cup {t}

\* The second half of Condition.wait(): a thread that was woken takes the
\* mutex again before the call returns.
Relock(t) ==
  /\ t \notin sleeping
  /\ Lock(t)

\* Condition.signal(): wake one of the blocked threads, if there is one.  A
\* signal nobody waits for is forgotten.
Signal ==
  IF sleeping = {} THEN UNCHANGED sleeping
                   ELSE \E w \in sleeping : sleeping' = sleeping \ {w}

\* POSIX lets pthread_cond_wait() return although nobody signalled.
SpuriousWakeup(t) ==
  /\ Spurious
  /\ t \in sleeping
  /\ sleeping' = sleeping \ {t}
  /\ UNCHANGED owner
==============================================================================
