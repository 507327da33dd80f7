---------------------------- MODULE WakeupProofs ----------------------------
(***************************************************************************)
(* Proofs about the two ways of waking a thread that comm2.crk is built    *)
(* on: the latching event that a caller waits for, and the byte in the     *)
(* control pipe that makes the poller look at its queue.  For every set of *)
(* threads, any number of operations, and any pipe and read size.          *)
(***************************************************************************)
EXTENDS EventLatch, PollQueue, FiniteSetTheorems, SequenceTheorems, TLAPS

-----------------------------------------------------------------------------
(* The latching event.                                                     *)

USE DEF Goto, Lock, Unlock, Wait, Relock, Signal, SpuriousWakeup

\* The history is Boolean, and so is the flag; the rest of the state does not
\* depend on them.
Flags == triggered \in BOOLEAN /\ fired \in [Thread -> BOOLEAN]

\* The mutex discipline, with the types it needs.
LockInv ==
  /\ ThreadsTypeOK
  /\ pc \in [Thread -> PC]
  /\ ops \in 0..MaxOps
  /\ LockDiscipline

LEMMA InitLockInv == Init => LockInv /\ Flags
<1>1. Init => LockInv
  BY EventLatchAssumption, ThreadsAssumption
  DEF Init, ThreadsInit, LockInv, ThreadsTypeOK, PC, LockDiscipline, Locked
<1>2. Init => Flags
  BY Zenon DEF Init, Flags
<1> QED
  BY <1>1, <1>2

LEMMA StepFlags == Flags /\ [Next]_vars => Flags'
<1> SUFFICES ASSUME Flags, [Next]_vars PROVE Flags'
  OBVIOUS
<1>1. triggered' \in BOOLEAN
  BY Zenon
  DEF Flags, Next, Inside, vars, CallWait, CallOther, Wakeup, WaitLock, WaitSkip,
      WaitBlock, WaitWoken, WaitUnlock, SignalLock, SignalSet, SignalWake,
      ResetLock, ResetClear, ReadFlag, Return
<1>2. fired' \in [Thread -> BOOLEAN]
  BY Zenon
  DEF Flags, Next, Inside, vars, CallWait, CallOther, Wakeup, WaitLock, WaitSkip,
      WaitBlock, WaitWoken, WaitUnlock, SignalLock, SignalSet, SignalWake,
      ResetLock, ResetClear, ReadFlag, Return
<1> QED
  BY <1>1, <1>2 DEF Flags

LEMMA StepLockInv == LockInv /\ [Next]_vars => LockInv'
<1> SUFFICES ASSUME LockInv, [Next]_vars PROVE LockInv'
  OBVIOUS
<1> USE EventLatchAssumption, ThreadsAssumption
    DEF LockInv, ThreadsTypeOK, PC, LockDiscipline, Locked
<1>0. CASE UNCHANGED vars
  BY <1>0 DEF vars
<1>1. ASSUME NEW t \in Thread, CallWait(t) \/ CallOther(t) \/ Wakeup(t)
      PROVE  LockInv'
  BY <1>1 DEF CallWait, CallOther, Wakeup
<1>2. ASSUME NEW t \in Thread,
             WaitLock(t) \/ WaitSkip(t) \/ WaitBlock(t) \/ WaitWoken(t) \/ WaitUnlock(t)
      PROVE  LockInv'
  BY <1>2 DEF WaitLock, WaitSkip, WaitBlock, WaitWoken, WaitUnlock
<1>3. ASSUME NEW t \in Thread, SignalLock(t) \/ SignalSet(t) \/ SignalWake(t)
      PROVE  LockInv'
  BY <1>3 DEF SignalLock, SignalSet, SignalWake
<1>4. ASSUME NEW t \in Thread,
             ResetLock(t) \/ ResetClear(t) \/ ReadFlag(t) \/ Return(t)
      PROVE  LockInv'
  BY <1>4 DEF ResetLock, ResetClear, ReadFlag, Return
<1> QED
  BY <1>0, <1>1, <1>2, <1>3, <1>4 DEF Next, Inside

\* The types and the mutex discipline are invariants.
LEMMA LockInvariant == Spec => [](LockInv /\ Flags)
  BY InitLockInv, StepLockInv, StepFlags, PTL DEF Spec

\* THEOREM.  Every variable keeps its type, and the mutex brackets every access
\* to the flag: a thread that tests, sets or clears it holds the mutex, and a
\* thread on the condition is inside wait().
THEOREM EventLocked == Spec => [](TypeOK /\ LockDiscipline)
<1>1. LockInv /\ Flags => TypeOK /\ LockDiscipline
  BY DEF LockInv, Flags, TypeOK
<1> QED
  BY <1>1, LockInvariant, PTL

------------------------------------------------------------------------------
(* A wait returns only when the event was triggered.                        *)

\* What is needed of a thread before it returns: one that finds the flag set
\* has a reason to return, and so has one that was taken off the condition.
WokenFired ==
  \A t \in Thread :
    /\ pc[t] = "waitTest" /\ triggered => fired[t]
    /\ pc[t] = "waitAsleep" /\ t \notin sleeping => fired[t]

\* Between the two statements of signal() everybody on the condition has a
\* reason to be woken: the mutex keeps others from going to sleep.
SignalFired ==
  \A s, t \in Thread : pc[s] = "sigWake" /\ pc[t] = "waitAsleep" => fired[t]

FiredInv == ReturnsTriggered /\ WokenFired /\ SignalFired

LEMMA StepFired == LockInv /\ Flags /\ FiredInv /\ [Next]_vars => FiredInv'
<1> SUFFICES ASSUME LockInv, Flags, FiredInv, [Next]_vars PROVE FiredInv'
  OBVIOUS
<1> USE ThreadsAssumption
    DEF LockInv, ThreadsTypeOK, PC, LockDiscipline, Locked, Flags, FiredInv,
        ReturnsTriggered, WokenFired, SignalFired
<1>0. CASE UNCHANGED vars
  BY <1>0 DEF vars
<1>1. ASSUME NEW t \in Thread, CallWait(t) \/ CallOther(t)
      PROVE  FiredInv'
  BY <1>1 DEF CallWait, CallOther
<1>2. ASSUME NEW t \in Thread, Wakeup(t)
      PROVE  FiredInv'
  BY <1>2 DEF Wakeup
<1>3. ASSUME NEW t \in Thread, WaitLock(t)
      PROVE  FiredInv'
  BY <1>3 DEF WaitLock
<1>4. ASSUME NEW t \in Thread,
             WaitSkip(t) \/ WaitBlock(t) \/ WaitWoken(t) \/ WaitUnlock(t)
      PROVE  FiredInv'
  BY <1>4 DEF WaitSkip, WaitBlock, WaitWoken, WaitUnlock
<1>5. ASSUME NEW t \in Thread, SignalSet(t)
      PROVE  FiredInv'
  BY <1>5 DEF SignalSet
<1>6. ASSUME NEW t \in Thread, SignalLock(t) \/ SignalWake(t)
      PROVE  FiredInv'
  BY <1>6 DEF SignalLock, SignalWake
<1>7. ASSUME NEW t \in Thread,
             ResetLock(t) \/ ResetClear(t) \/ ReadFlag(t) \/ Return(t)
      PROVE  FiredInv'
  BY <1>7 DEF ResetLock, ResetClear, ReadFlag, Return
<1> QED
  BY <1>0, <1>1, <1>2, <1>3, <1>4, <1>5, <1>6, <1>7 DEF Next, Inside

\* THEOREM.  However signals, resets and wakeups interleave, and for any number
\* of waiters: wait() returns only if the event was triggered since the call,
\* or the operating system woke the thread by itself.
THEOREM WaitReturnsTriggered == Spec => []ReturnsTriggered
<1>1. Init => FiredInv
  BY DEF Init, ThreadsInit, FiredInv, ReturnsTriggered, WokenFired, SignalFired
<1>2. FiredInv => ReturnsTriggered
  BY DEF FiredInv
<1> QED
  BY <1>1, <1>2, LockInvariant, StepFired, PTL DEF Spec

------------------------------------------------------------------------------
(* Nobody sleeps on a triggered event that has one waiter.                  *)

\* Only the threads that wait are ever on the condition.
SleepersWait ==
  \A t \in Thread : pc[t] \in {"waitLock", "waitTest", "waitAsleep"} => t \in Waiters

LEMMA StepSleepers == LockInv /\ SleepersWait /\ [Next]_vars => SleepersWait'
  BY DEF LockInv, PC, SleepersWait, Next, Inside, vars, CallWait, CallOther, Wakeup,
         WaitLock, WaitSkip, WaitBlock, WaitWoken, WaitUnlock, SignalLock,
         SignalSet, SignalWake, ResetLock, ResetClear, ReadFlag, Return

\* One step per group of actions; only signal() and wait() itself matter.
LEMMA StepNobodySleeps ==
  ASSUME \A a, b \in Waiters : a = b
  PROVE  /\ LockInv /\ SleepersWait /\ NobodySleepsOnTriggered
         /\ [Next]_vars
         => NobodySleepsOnTriggered'
<1> SUFFICES ASSUME LockInv, SleepersWait, NobodySleepsOnTriggered, [Next]_vars
             PROVE  NobodySleepsOnTriggered'
  OBVIOUS
<1> USE DEF LockInv, ThreadsTypeOK, PC, LockDiscipline, Locked, NobodySleepsOnTriggered
<1>0. CASE UNCHANGED vars
  BY <1>0 DEF vars
<1>1. ASSUME NEW t \in Thread, CallWait(t) \/ CallOther(t) \/ Wakeup(t)
      PROVE  NobodySleepsOnTriggered'
  BY <1>1 DEF CallWait, CallOther, Wakeup
<1>2. ASSUME NEW t \in Thread,
             WaitLock(t) \/ WaitSkip(t) \/ WaitBlock(t) \/ WaitWoken(t) \/ WaitUnlock(t)
      PROVE  NobodySleepsOnTriggered'
  BY <1>2 DEF WaitLock, WaitSkip, WaitBlock, WaitWoken, WaitUnlock
<1>3. ASSUME NEW t \in Thread, SignalLock(t) \/ SignalSet(t)
      PROVE  NobodySleepsOnTriggered'
  BY <1>3 DEF SignalLock, SignalSet
<1>4. ASSUME NEW t \in Thread, SignalWake(t)
      PROVE  NobodySleepsOnTriggered'
  <2>1. \A a, b \in sleeping : a = b
    BY DEF SleepersWait
  <2>2. sleeping' = {}
    BY <1>4, <2>1 DEF SignalWake
  <2> QED
    BY <2>2
<1>5. ASSUME NEW t \in Thread,
             ResetLock(t) \/ ResetClear(t) \/ ReadFlag(t) \/ Return(t)
      PROVE  NobodySleepsOnTriggered'
  BY <1>5 DEF ResetLock, ResetClear, ReadFlag, Return
<1> QED
  BY <1>0, <1>1, <1>2, <1>3, <1>4, <1>5 DEF Next, Inside

\* THEOREM.  With at most one waiter, as a message of comm2.crk has, nobody
\* sleeps on a triggered event, except between the two statements of signal().
\* The hypothesis is needed: signal() wakes one thread.
THEOREM OneWaiterIsWoken ==
  ASSUME \A a, b \in Waiters : a = b
  PROVE  Spec => []NobodySleepsOnTriggered
<1>1. Init => SleepersWait /\ NobodySleepsOnTriggered
  BY DEF Init, ThreadsInit, SleepersWait, NobodySleepsOnTriggered
<1>2. LockInv /\ SleepersWait /\ NobodySleepsOnTriggered /\ [Next]_vars
        => NobodySleepsOnTriggered'
  BY StepNobodySleeps
<1> QED
  BY <1>1, <1>2, LockInvariant, StepSleepers, PTL DEF Spec

-----------------------------------------------------------------------------
(* The poll queue and its control pipe.                                    *)

\* The inductive invariant.  NoStrandedElement and ReadDoesNotBlock need each
\* other only through the types: the drain keeps the first, the fact that only
\* ReadPipe takes bytes keeps the second.
QueueInv == QueueTypeOK /\ NoStrandedElement /\ ReadDoesNotBlock

\* An empty queue and an empty pipe satisfy the invariant.
LEMMA InitQueueInv == QueueInit => QueueInv
<1> SUFFICES ASSUME QueueInit PROVE QueueInv
  OBVIOUS
<1>1. queue \in Seq(1..MaxAdds) /\ pipe \in 0..PipeSize /\ adds \in 0..MaxAdds
  BY PollQueueAssumption DEF QueueInit
<1>2. QueueTypeOK
  BY <1>1 DEF QueueInit, QueueTypeOK, PollerPC
<1>3. NoStrandedElement /\ ReadDoesNotBlock
  BY DEF QueueInit, NoStrandedElement, ReadDoesNotBlock
<1>4. QED
  BY <1>2, <1>3 DEF QueueInv

\* What add() does to the queue.
LEMMA EnqueueType ==
  ASSUME QueueTypeOK, Enqueue
  PROVE  /\ queue' \in Seq(1..MaxAdds)
         /\ queue' # <<>>
         /\ adds' \in 0..MaxAdds
<1>1. adds + 1 \in 1..MaxAdds
  BY PollQueueAssumption DEF QueueTypeOK, Enqueue
<1>2. queue \in Seq(1..MaxAdds)
  BY DEF QueueTypeOK
<1>3. queue' = Append(queue, adds + 1)
  BY DEF Enqueue
<1>4. queue' # <<>>
  BY <1>1, <1>2, <1>3, AppendProperties
<1>5. QED
  BY <1>1, <1>2, <1>3, <1>4, AppendProperties DEF Enqueue

\* What taking an element does to the queue.
LEMMA TailType ==
  ASSUME QueueTypeOK, queue # <<>>
  PROVE  Tail(queue) \in Seq(1..MaxAdds)
<1>1. queue \in Seq(1..MaxAdds)
  BY DEF QueueTypeOK
<1>2. QED
  BY <1>1

\* Every step of a producer or of the poller thread keeps the invariant.
LEMMA NextQueueInv == QueueInv /\ [QueueNext]_queueVars => QueueInv'
<1> SUFFICES ASSUME QueueInv, [QueueNext]_queueVars PROVE QueueInv'
  OBVIOUS
<1> USE PollQueueAssumption
<1>0. QueueTypeOK /\ NoStrandedElement /\ ReadDoesNotBlock
  BY DEF QueueInv
<1>1. ASSUME NEW t \in Producer, Add(t) PROVE QueueInv'
  <2>1. QueueTypeOK'
    BY <1>0, <1>1, EnqueueType DEF Add, QueueTypeOK
  <2>2. NoStrandedElement'
    BY <1>0, <1>1 DEF Add, QueueTypeOK, NoStrandedElement
  <2>3. ReadDoesNotBlock'
    BY <1>0, <1>1 DEF Add, ReadDoesNotBlock
  <2>4. QED
    BY <2>1, <2>2, <2>3 DEF QueueInv
<1>2. ASSUME NEW t \in Producer, WriteByte(t) PROVE QueueInv'
  <2>1. QueueTypeOK'
    BY <1>0, <1>2 DEF WriteByte, QueueTypeOK
  <2>2. pipe' > 0
    BY <1>0, <1>2 DEF WriteByte, QueueTypeOK
  <2>3. QED
    BY <1>0, <1>2, <2>1, <2>2 DEF WriteByte, QueueInv, NoStrandedElement, ReadDoesNotBlock
<1>3. ASSUME NEW t \in Producer, Take(t) PROVE QueueInv'
  <2>1. QueueTypeOK'
    BY <1>0, <1>3, TailType DEF Take, QueueTypeOK
  <2>2. QED
    BY <1>0, <1>3, <2>1 DEF Take, QueueInv, NoStrandedElement, ReadDoesNotBlock
<1>4. CASE AddTo
  BY <1>0, <1>4 DEF AddTo, Handler, QueueInv, QueueTypeOK, NoStrandedElement, ReadDoesNotBlock
<1>5. CASE RemoveFrom
  BY <1>0, <1>5
     DEF RemoveFrom, Handler, PollerPC, QueueInv, QueueTypeOK, NoStrandedElement, ReadDoesNotBlock
<1>6. CASE PollIn
  BY <1>0, <1>6 DEF PollIn, PollerPC, QueueInv, QueueTypeOK, NoStrandedElement, ReadDoesNotBlock
<1>7. CASE ReadPipe
  <2>1. pipe' \in 0..PipeSize
    BY <1>0, <1>7 DEF ReadPipe, Least, QueueTypeOK
  <2>2. QED
    BY <1>0, <1>7, <2>1
       DEF ReadPipe, PollerPC, QueueInv, QueueTypeOK, NoStrandedElement, ReadDoesNotBlock
<1>8. CASE DrainOne
  BY <1>0, <1>8, TailType
     DEF DrainOne, PollerPC, QueueInv, QueueTypeOK, NoStrandedElement, ReadDoesNotBlock
<1>9. CASE CallbackReturns
  BY <1>0, <1>9
     DEF CallbackReturns, PollerPC, QueueInv, QueueTypeOK, NoStrandedElement, ReadDoesNotBlock
<1>10. CASE DrainDone
  BY <1>0, <1>10
     DEF DrainDone, PollerPC, QueueInv, QueueTypeOK, NoStrandedElement, ReadDoesNotBlock
<1>11. CASE HandlerAdds
  <2>1. QueueTypeOK'
    BY <1>0, <1>11, EnqueueType DEF HandlerAdds, Handler, PollerPC, QueueTypeOK
  <2>2. QED
    BY <1>0, <1>11, <2>1
       DEF HandlerAdds, Handler, QueueInv, NoStrandedElement, ReadDoesNotBlock
<1>12. CASE HandlerWrites
  <2>1. QueueTypeOK'
    BY <1>0, <1>12 DEF HandlerWrites, PollerPC, QueueTypeOK
  <2>2. pipe' > 0
    BY <1>0, <1>12 DEF HandlerWrites, QueueTypeOK
  <2>3. QED
    BY <1>0, <1>12, <2>1, <2>2
       DEF HandlerWrites, QueueTypeOK, QueueInv, NoStrandedElement, ReadDoesNotBlock
<1>13. CASE UNCHANGED queueVars
  BY <1>0, <1>13 DEF queueVars, QueueInv, QueueTypeOK, NoStrandedElement, ReadDoesNotBlock
<1>14. QED
  BY <1>1, <1>2, <1>3, <1>4, <1>5, <1>6, <1>7, <1>8, <1>9, <1>10, <1>11, <1>12, <1>13
     DEF QueueNext, PollerStep

\* The wakeup protocol of add() and oper call() never leaves an element in the
\* queue with nothing on the way that will make the poller look at it.
THEOREM PollQueueNoStranded == QueueSpec => []NoStrandedElement
<1>1. QueueInv => NoStrandedElement
  BY DEF QueueInv
<1>2. QED
  BY InitQueueInv, NextQueueInv, <1>1, PTL DEF QueueSpec

\* The poller thread is never blocked by the read of its own control pipe.
THEOREM PollQueueReadDoesNotBlock == QueueSpec => []ReadDoesNotBlock
<1>1. QueueInv => ReadDoesNotBlock
  BY DEF QueueInv
<1>2. QED
  BY InitQueueInv, NextQueueInv, <1>1, PTL DEF QueueSpec

\* Type correctness, for any number of producers and any pipe size.
THEOREM PollQueueTypes == QueueSpec => []QueueTypeOK
<1>1. QueueInv => QueueTypeOK
  BY DEF QueueInv
<1>2. QED
  BY InitQueueInv, NextQueueInv, <1>1, PTL DEF QueueSpec
=============================================================================
