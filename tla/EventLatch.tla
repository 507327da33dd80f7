----------------------------- MODULE EventLatch -----------------------------
(***************************************************************************)
(* The latching Event of lib/crack/threads.crk: a Condition with a         *)
(* `_triggered' flag.  wait() tests the flag once, with an `if', and       *)
(* signal() wakes at most one thread.  Callers hold the mutex around       *)
(* wait() and signal(), as the comments of the class require and as        *)
(* _WaitableMessage.wait() and WaiterFor.getResult() of comm2.crk do.      *)
(***************************************************************************)
EXTENDS Threads, Naturals

CONSTANTS Waiters,     \* the threads that call wait()
          MaxOps       \* bound: calls of the other operations in a behaviour

ASSUME EventLatchAssumption ==
  /\ Waiters \subseteq Thread
  /\ MaxOps \in Nat

VARIABLES triggered,   \* _triggered
          pc,          \* pc[t]: where thread t is in the code
          fired,       \* history: fired[t], since thread t entered its latest
                       \* wait() the event was triggered at some moment, or the
                       \* operating system woke t by itself
          ops          \* calls of signal(), reset() and signalled() so far

vars == <<owner, sleeping, triggered, pc, fired, ops>>

PC == {"idle", "waitLock", "waitTest", "waitAsleep", "waitReturn",
       "sigLock", "sigSet", "sigWake", "resetLock", "resetClear",
       "readLock", "unlock"}

Locked == {"waitTest", "waitReturn", "sigSet", "sigWake", "resetClear", "unlock"}

TypeOK ==
  /\ ThreadsTypeOK
  /\ triggered \in BOOLEAN
  /\ pc \in [Thread -> PC]
  /\ fired \in [Thread -> BOOLEAN]
  /\ ops \in 0..MaxOps

Init ==
  /\ ThreadsInit
  /\ triggered = FALSE
  /\ pc = [t \in Thread |-> "idle"]
  /\ fired = [t \in Thread |-> FALSE]
  /\ ops = 0

Goto(t, from, to) ==
  /\ pc[t] = from
  /\ pc' = [pc EXCEPT ![t] = to]

-----------------------------------------------------------------------------
\* Calls.  lockAndSignal(), reset() and signalled() take the mutex themselves.

CallWait(t) ==
  /\ t \in Waiters
  /\ Goto(t, "idle", "waitLock")
  /\ UNCHANGED <<owner, sleeping, triggered, fired, ops>>

CallOther(t) ==
  /\ ops < MaxOps
  /\ ops' = ops + 1
  /\ \E to \in {"sigLock", "resetLock", "readLock"} : Goto(t, "idle", to)
  /\ UNCHANGED <<owner, sleeping, triggered, fired>>

-----------------------------------------------------------------------------
\* wait()

WaitLock(t) ==
  /\ Goto(t, "waitLock", "waitTest")
  /\ Lock(t)
  /\ fired' = [fired EXCEPT ![t] = triggered]
  /\ UNCHANGED <<sleeping, triggered, ops>>

\* if (_triggered) return;
WaitSkip(t) ==
  /\ triggered
  /\ Goto(t, "waitTest", "waitReturn")
  /\ UNCHANGED <<owner, sleeping, triggered, fired, ops>>

\* Mutant: the flag is tested before the mutex is taken, so the wait may start
\* after the signal.
WaitBlock_Untested(t) ==
  /\ Goto(t, "waitTest", "waitAsleep")
  /\ Wait(t)
  /\ UNCHANGED <<triggered, fired, ops>>

\* __cond.wait();
WaitBlock(t) ==
  /\ ~triggered
  /\ Goto(t, "waitTest", "waitAsleep")
  /\ Wait(t)
  /\ UNCHANGED <<triggered, fired, ops>>

\* The condition's wait() returns, and so does the event's: the flag is not
\* tested again.
WaitWoken(t) ==
  /\ Goto(t, "waitAsleep", "waitReturn")
  /\ Relock(t)
  /\ UNCHANGED <<sleeping, triggered, fired, ops>>

\* The caller's MutexLock is destroyed.
WaitUnlock(t) ==
  /\ Goto(t, "waitReturn", "idle")
  /\ Unlock(t)
  /\ UNCHANGED <<sleeping, triggered, fired, ops>>

-----------------------------------------------------------------------------
\* lockAndSignal(), or signal() with the mutex taken by the caller.

SignalLock(t) ==
  /\ Goto(t, "sigLock", "sigSet")
  /\ Lock(t)
  /\ UNCHANGED <<sleeping, triggered, fired, ops>>

\* _triggered = true;
SignalSet(t) ==
  /\ Goto(t, "sigSet", "sigWake")
  /\ triggered' = TRUE
  /\ fired' = [u \in Thread |-> TRUE]
  /\ UNCHANGED <<owner, sleeping, ops>>

\* Mutant: the wakeup is left out.
SignalWake_Dropped(t) ==
  /\ Goto(t, "sigWake", "unlock")
  /\ UNCHANGED <<owner, sleeping, triggered, fired, ops>>

\* __cond.signal();
SignalWake(t) ==
  /\ Goto(t, "sigWake", "unlock")
  /\ Signal
  /\ UNCHANGED <<owner, triggered, fired, ops>>

-----------------------------------------------------------------------------
\* reset() and signalled()

ResetLock(t) ==
  /\ Goto(t, "resetLock", "resetClear")
  /\ Lock(t)
  /\ UNCHANGED <<sleeping, triggered, fired, ops>>

\* Mutant: the flag is set to null instead of false.
ResetClear_Null(t) ==
  /\ Goto(t, "resetClear", "unlock")
  /\ triggered' = NoThread
  /\ UNCHANGED <<owner, sleeping, fired, ops>>

\* Mutant: reset() clears the flag and wakes a waiter.
ResetClear_Wakes(t) ==
  /\ Goto(t, "resetClear", "unlock")
  /\ triggered' = FALSE
  /\ Signal
  /\ UNCHANGED <<owner, fired, ops>>

\* _triggered = false;
ResetClear(t) ==
  /\ Goto(t, "resetClear", "unlock")
  /\ triggered' = FALSE
  /\ UNCHANGED <<owner, sleeping, fired, ops>>

\* return _triggered; nothing but the mutex is touched.
ReadFlag(t) ==
  /\ Goto(t, "readLock", "unlock")
  /\ Lock(t)
  /\ UNCHANGED <<sleeping, triggered, fired, ops>>

\* Mutant: the lock object outlives the call.
Return_KeepsLock(t) ==
  /\ Goto(t, "unlock", "idle")
  /\ UNCHANGED <<owner, sleeping, triggered, fired, ops>>

\* The operation's MutexLock is destroyed.
Return(t) ==
  /\ Goto(t, "unlock", "idle")
  /\ Unlock(t)
  /\ UNCHANGED <<sleeping, triggered, fired, ops>>

Wakeup(t) ==
  /\ SpuriousWakeup(t)
  /\ fired' = [fired EXCEPT ![t] = TRUE]
  /\ UNCHANGED <<triggered, pc, ops>>

-----------------------------------------------------------------------------
Inside(t) ==
  \/ WaitLock(t) \/ WaitSkip(t) \/ WaitBlock(t) \/ WaitWoken(t) \/ WaitUnlock(t)
  \/ SignalLock(t) \/ SignalSet(t) \/ SignalWake(t)
  \/ ResetLock(t) \/ ResetClear(t) \/ ReadFlag(t) \/ Return(t)

Next ==
  \E t \in Thread : CallWait(t) \/ CallOther(t) \/ Inside(t) \/ Wakeup(t)

Spec == Init /\ [][Next]_vars

\* The scheduler keeps running a thread that is inside a call and can move;
\* nothing obliges a thread to make a call.
FairSpec == Spec /\ \A t \in Thread : WF_vars(Inside(t))

-----------------------------------------------------------------------------
(***************************************************************************)
(* Properties.                                                             *)
(***************************************************************************)

\* Mutex discipline, as for the queue.
LockDiscipline ==
  /\ \A t \in Thread : pc[t] \in Locked <=> owner = t
  /\ \A t \in sleeping : pc[t] = "waitAsleep"

\* wait() returns only if the event was triggered at some moment since it was
\* called ("Waits until the the event is triggered"), or on a spurious wakeup,
\* which wait() does not tell apart; a reset() that overtakes the woken thread
\* makes no difference.
ReturnsTriggered ==
  \A t \in Thread : pc[t] = "waitReturn" => fired[t]

\* No thread sleeps on a triggered event, except between the two statements of
\* signal().
NobodySleepsOnTriggered ==
  triggered => sleeping = {} \/ \E t \in Thread : pc[t] = "sigWake"

\* A wait() on an event that stays triggered returns ("Once the event is
\* signalled, waiting on it immediately returns until it is reset").
TriggeredWaitReturns ==
  \A t \in Waiters : (pc[t] = "waitAsleep" /\ triggered)
                       ~> (pc[t] # "waitAsleep" \/ ~triggered)
==============================================================================
