--------------------------- MODULE SafeQueueProofs ---------------------------
(***************************************************************************)
(* Machine-checked proofs about the thread-safe queue, for every set of    *)
(* threads and elements and every bound on the number of add() calls.      *)
(***************************************************************************)
EXTENDS SafeQueue, FiniteSetTheorems, TLAPS

USE DEF Goto, Lock, Unlock, Wait, Relock, Signal, SpuriousWakeup

\* The inductive invariant.  The types alone are not inductive: that what a
\* get() hands out is an element at all rests on the array not changing under
\* the thread between __elems[0] and __elems.delete(0), which rests on the
\* mutex.
IInv == TypeOK /\ LockDiscipline /\ TakenIsFirst

\* The queue starts empty, unlocked and with no call in progress.
LEMMA InitIInv == Init => IInv
  BY SafeQueueAssumption, ThreadsAssumption
  DEF Init, ThreadsInit, IInv, TypeOK, ThreadsTypeOK, PC, LockDiscipline,
      Locked, TakenIsFirst

\* One step per action of the queue's code; in each, the three conjuncts.
LEMMA StepIInv == IInv /\ [Next]_vars => IInv'
<1> SUFFICES ASSUME IInv, [Next]_vars PROVE IInv'
  OBVIOUS
<1> USE SafeQueueAssumption, ThreadsAssumption DEF IInv
<1>0. CASE UNCHANGED vars
  BY <1>0 DEF vars, TypeOK, ThreadsTypeOK, LockDiscipline, TakenIsFirst
<1>1. ASSUME NEW t \in Thread, CallGet(t)
      PROVE  IInv'
  <2>1. TypeOK'
    BY <1>1 DEF CallGet, TypeOK, ThreadsTypeOK, PC
  <2>2. LockDiscipline'
    BY <1>1 DEF CallGet, TypeOK, ThreadsTypeOK, PC, LockDiscipline, Locked
  <2>3. TakenIsFirst'
    BY <1>1 DEF CallGet, TypeOK, ThreadsTypeOK, PC, TakenIsFirst, LockDiscipline, Locked
  <2> QED
    BY <2>1, <2>2, <2>3
<1>2. ASSUME NEW t \in Thread, CallGetNonBlocking(t)
      PROVE  IInv'
  <2>1. TypeOK'
    BY <1>2 DEF CallGetNonBlocking, TypeOK, ThreadsTypeOK, PC
  <2>2. LockDiscipline'
    BY <1>2 DEF CallGetNonBlocking, TypeOK, ThreadsTypeOK, PC, LockDiscipline, Locked
  <2>3. TakenIsFirst'
    BY <1>2 DEF CallGetNonBlocking, TypeOK, ThreadsTypeOK, PC, TakenIsFirst, LockDiscipline, Locked
  <2> QED
    BY <2>1, <2>2, <2>3
<1>3. ASSUME NEW t \in Thread, NEW e \in Elem, CallAdd(t, e)
      PROVE  IInv'
  <2>1. TypeOK'
    BY <1>3 DEF CallAdd, TypeOK, ThreadsTypeOK, PC
  <2>2. LockDiscipline'
    BY <1>3 DEF CallAdd, TypeOK, ThreadsTypeOK, PC, LockDiscipline, Locked
  <2>3. TakenIsFirst'
    BY <1>3 DEF CallAdd, TypeOK, ThreadsTypeOK, PC, TakenIsFirst, LockDiscipline, Locked
  <2> QED
    BY <2>1, <2>2, <2>3
<1>4. ASSUME NEW t \in Thread, GetLock(t)
      PROVE  IInv'
  <2>1. TypeOK'
    BY <1>4 DEF GetLock, TypeOK, ThreadsTypeOK, PC
  <2>2. LockDiscipline'
    BY <1>4 DEF GetLock, TypeOK, ThreadsTypeOK, PC, LockDiscipline, Locked
  <2>3. TakenIsFirst'
    BY <1>4 DEF GetLock, TypeOK, ThreadsTypeOK, PC, TakenIsFirst, LockDiscipline, Locked
  <2> QED
    BY <2>1, <2>2, <2>3
<1>5. ASSUME NEW t \in Thread, GetWait(t)
      PROVE  IInv'
  <2>1. TypeOK'
    BY <1>5 DEF GetWait, TypeOK, ThreadsTypeOK, PC
  <2>2. LockDiscipline'
    BY <1>5 DEF GetWait, TypeOK, ThreadsTypeOK, PC, LockDiscipline, Locked
  <2>3. TakenIsFirst'
    BY <1>5 DEF GetWait, TypeOK, ThreadsTypeOK, PC, TakenIsFirst, LockDiscipline, Locked
  <2> QED
    BY <2>1, <2>2, <2>3
<1>6. ASSUME NEW t \in Thread, GetWoken(t)
      PROVE  IInv'
  <2>1. TypeOK'
    BY <1>6 DEF GetWoken, TypeOK, ThreadsTypeOK, PC
  <2>2. LockDiscipline'
    BY <1>6 DEF GetWoken, TypeOK, ThreadsTypeOK, PC, LockDiscipline, Locked
  <2>3. TakenIsFirst'
    BY <1>6 DEF GetWoken, TypeOK, ThreadsTypeOK, PC, TakenIsFirst, LockDiscipline, Locked
  <2> QED
    BY <2>1, <2>2, <2>3
<1>7. ASSUME NEW t \in Thread, GetFound(t)
      PROVE  IInv'
  <2>1. TypeOK'
    BY <1>7 DEF GetFound, TypeOK, ThreadsTypeOK, PC
  <2>2. LockDiscipline'
    BY <1>7 DEF GetFound, TypeOK, ThreadsTypeOK, PC, LockDiscipline, Locked
  <2>3. TakenIsFirst'
    BY <1>7 DEF GetFound, TypeOK, ThreadsTypeOK, PC, TakenIsFirst, LockDiscipline, Locked
  <2> QED
    BY <2>1, <2>2, <2>3
<1>8. ASSUME NEW t \in Thread, TakeFirst(t)
      PROVE  IInv'
  <2>1. TypeOK'
    BY <1>8 DEF TakeFirst, TypeOK, ThreadsTypeOK, PC, TakenIsFirst
  <2>2. LockDiscipline'
    BY <1>8 DEF TakeFirst, TypeOK, ThreadsTypeOK, PC, LockDiscipline, Locked
  <2>3. TakenIsFirst'
    BY <1>8 DEF TakeFirst, TypeOK, ThreadsTypeOK, PC, TakenIsFirst, LockDiscipline, Locked
  <2> QED
    BY <2>1, <2>2, <2>3
<1>9. ASSUME NEW t \in Thread, DeleteFirst(t)
      PROVE  IInv'
  <2>1. TypeOK'
    BY <1>9 DEF DeleteFirst, TypeOK, ThreadsTypeOK, PC, TakenIsFirst
  <2>2. LockDiscipline'
    BY <1>9 DEF DeleteFirst, TypeOK, ThreadsTypeOK, PC, LockDiscipline, Locked
  <2>3. TakenIsFirst'
    BY <1>9 DEF DeleteFirst, TypeOK, ThreadsTypeOK, PC, TakenIsFirst, LockDiscipline, Locked
  <2> QED
    BY <2>1, <2>2, <2>3
<1>10. ASSUME NEW t \in Thread, NbLock(t)
      PROVE  IInv'
  <2>1. TypeOK'
    BY <1>10 DEF NbLock, TypeOK, ThreadsTypeOK, PC
  <2>2. LockDiscipline'
    BY <1>10 DEF NbLock, TypeOK, ThreadsTypeOK, PC, LockDiscipline, Locked
  <2>3. TakenIsFirst'
    BY <1>10 DEF NbLock, TypeOK, ThreadsTypeOK, PC, TakenIsFirst, LockDiscipline, Locked
  <2> QED
    BY <2>1, <2>2, <2>3
<1>11. ASSUME NEW t \in Thread, NbTest(t)
      PROVE  IInv'
  <2>1. TypeOK'
    BY <1>11 DEF NbTest, TypeOK, ThreadsTypeOK, PC
  <2>2. LockDiscipline'
    BY <1>11 DEF NbTest, TypeOK, ThreadsTypeOK, PC, LockDiscipline, Locked
  <2>3. TakenIsFirst'
    BY <1>11 DEF NbTest, TypeOK, ThreadsTypeOK, PC, TakenIsFirst, LockDiscipline, Locked
  <2> QED
    BY <2>1, <2>2, <2>3
<1>12. ASSUME NEW t \in Thread, AddLock(t)
      PROVE  IInv'
  <2>1. TypeOK'
    BY <1>12 DEF AddLock, TypeOK, ThreadsTypeOK, PC
  <2>2. LockDiscipline'
    BY <1>12 DEF AddLock, TypeOK, ThreadsTypeOK, PC, LockDiscipline, Locked
  <2>3. TakenIsFirst'
    BY <1>12 DEF AddLock, TypeOK, ThreadsTypeOK, PC, TakenIsFirst, LockDiscipline, Locked
  <2> QED
    BY <2>1, <2>2, <2>3
<1>13. ASSUME NEW t \in Thread, AppendElem(t)
      PROVE  IInv'
  <2>1. TypeOK'
    BY <1>13 DEF AppendElem, TypeOK, ThreadsTypeOK, PC, TakenIsFirst
  <2>2. LockDiscipline'
    BY <1>13 DEF AppendElem, TypeOK, ThreadsTypeOK, PC, LockDiscipline, Locked
  <2>3. TakenIsFirst'
    BY <1>13 DEF AppendElem, TypeOK, ThreadsTypeOK, PC, TakenIsFirst, LockDiscipline, Locked
  <2> QED
    BY <2>1, <2>2, <2>3
<1>14. ASSUME NEW t \in Thread, AddSignal(t)
      PROVE  IInv'
  <2>1. TypeOK'
    BY <1>14 DEF AddSignal, TypeOK, ThreadsTypeOK, PC
  <2>2. LockDiscipline'
    BY <1>14 DEF AddSignal, TypeOK, ThreadsTypeOK, PC, LockDiscipline, Locked
  <2>3. TakenIsFirst'
    BY <1>14 DEF AddSignal, TypeOK, ThreadsTypeOK, PC, TakenIsFirst, LockDiscipline, Locked
  <2> QED
    BY <2>1, <2>2, <2>3
<1>15. ASSUME NEW t \in Thread, Return(t)
      PROVE  IInv'
  <2>1. TypeOK'
    BY <1>15 DEF Return, TypeOK, ThreadsTypeOK, PC
  <2>2. LockDiscipline'
    BY <1>15 DEF Return, TypeOK, ThreadsTypeOK, PC, LockDiscipline, Locked
  <2>3. TakenIsFirst'
    BY <1>15 DEF Return, TypeOK, ThreadsTypeOK, PC, TakenIsFirst, LockDiscipline, Locked
  <2> QED
    BY <2>1, <2>2, <2>3
<1>16. ASSUME NEW t \in Thread, Wakeup(t)
      PROVE  IInv'
  <2>1. TypeOK'
    BY <1>16 DEF Wakeup, TypeOK, ThreadsTypeOK, PC
  <2>2. LockDiscipline'
    BY <1>16 DEF Wakeup, TypeOK, ThreadsTypeOK, PC, LockDiscipline, Locked
  <2>3. TakenIsFirst'
    BY <1>16 DEF Wakeup, TypeOK, ThreadsTypeOK, PC, TakenIsFirst, LockDiscipline, Locked
  <2> QED
    BY <2>1, <2>2, <2>3
<1> QED
  BY <1>0, <1>1, <1>2, <1>3, <1>4, <1>5, <1>6, <1>7, <1>8, <1>9, <1>10, <1>11, <1>12, <1>13, <1>14, <1>15, <1>16 DEF Next, Inside

\* THEOREM.  Whatever the interleaving, and with spurious wakeups, the state
\* has its type, the mutex brackets every access to the element array, and the
\* element a get() read is the one it deletes.
THEOREM QueueInvariant == Spec => [](TypeOK /\ LockDiscipline /\ TakenIsFirst)
<1>1. Init => IInv
  BY InitIInv
<1>2. IInv /\ [Next]_vars => IInv'
  BY StepIInv
<1> QED
  BY <1>1, <1>2, PTL DEF Spec, IInv

\* Every step of the code is a step of the atomic FIFO queue or leaves what its
\* users see unchanged: append() is the enqueue, delete(0) the dequeue.
LEMMA StepFifo == IInv /\ [Next]_vars => [Fifo!Next]_(Fifo!fifoVars)
<1> SUFFICES ASSUME IInv, [Next]_vars PROVE [Fifo!Next]_(Fifo!fifoVars)
  OBVIOUS
<1> USE DEF Fifo!fifoVars
<1>1. ASSUME NEW t \in Thread, AppendElem(t) PROVE Fifo!Next
  <2>1. hand[t] \in Elem
    BY <1>1 DEF AppendElem, IInv, TakenIsFirst
  <2> QED
    BY <1>1, <2>1 DEF AppendElem, Fifo!Next, Fifo!Enqueue
<1>2. ASSUME NEW t \in Thread, DeleteFirst(t) PROVE Fifo!Next
  <2>1. elems # <<>> /\ hand[t] = Head(elems)
    BY <1>2 DEF DeleteFirst, IInv, TakenIsFirst
  <2> QED
    BY <1>2, <2>1 DEF DeleteFirst, Fifo!Next, Fifo!Dequeue
<1> QED
  BY <1>1, <1>2
  DEF Next, Inside, vars, CallGet, CallGetNonBlocking, CallAdd, GetLock,
      GetWait, GetWoken, GetFound, TakeFirst, NbLock, NbTest, AddLock,
      AddSignal, Return, Wakeup

\* THEOREM.  The lock-based queue of threads.crk implements the atomic FIFO
\* queue: nothing is lost, duplicated or reordered by any interleaving.
THEOREM QueueIsFifo == Spec => FifoSpec
<1>1. Init => Fifo!Init
  BY DEF Init, Fifo!Init
<1>2. Spec => []IInv
  BY InitIInv, StepIInv, PTL DEF Spec
<1> QED
  BY <1>1, <1>2, StepFifo, PTL DEF Spec, FifoSpec, Fifo!Spec

------------------------------------------------------------------------------
\* The threads on their way to the array are finitely many.
LEMMA OnTheWayFinite ==
  /\ IsFiniteSet(OnTheWay)
  /\ Cardinality(OnTheWay) \in Nat
<1>1. OnTheWay \subseteq Thread
  BY DEF OnTheWay
<1> QED
  BY <1>1, ThreadsAssumption, FS_Subset, FS_CardinalityType

\* A step that empties nothing and takes no thread off its way keeps the bound.
LEMMA WayGrows ==
  ASSUME TypeOK, NoLostWakeup, IsFiniteSet(OnTheWay'),
         OnTheWay \subseteq OnTheWay',
         elems' = elems, sleeping' \subseteq sleeping
  PROVE  NoLostWakeup'
<1>1. Cardinality(OnTheWay) <= Cardinality(OnTheWay')
  BY FS_Subset
<1>2. Cardinality(OnTheWay) \in Nat /\ Cardinality(OnTheWay') \in Nat
  BY OnTheWayFinite, FS_CardinalityType
<1>3. Len(elems) \in Nat
  BY DEF TypeOK
<1> QED
  BY <1>1, <1>2, <1>3 DEF NoLostWakeup

\* One step per action that moves a thread on or off its way, changes the array
\* or puts a thread to sleep.
LEMMA StepWakeup == IInv /\ IInv' /\ NoLostWakeup /\ [Next]_vars => NoLostWakeup'
<1> SUFFICES ASSUME IInv, IInv', NoLostWakeup, [Next]_vars PROVE NoLostWakeup'
  OBVIOUS
<1> USE DEF IInv
<1>0. IsFiniteSet(OnTheWay') /\ Cardinality(OnTheWay') \in Nat
  <2>1. OnTheWay' \subseteq Thread
    BY DEF OnTheWay
  <2> QED
    BY <2>1, ThreadsAssumption, FS_Subset, FS_CardinalityType
<1>1. ASSUME NEW t \in Thread, GetWait(t) PROVE NoLostWakeup'
  BY <1>0, <1>1 DEF GetWait, NoLostWakeup
<1>2. ASSUME NEW t \in Thread, DeleteFirst(t) PROVE NoLostWakeup'
  <2>1. t \in OnTheWay /\ OnTheWay' = OnTheWay \ {t}
    BY <1>2 DEF DeleteFirst, OnTheWay, TypeOK, PC
  <2>2. Cardinality(OnTheWay') = Cardinality(OnTheWay) - 1
    BY <2>1, OnTheWayFinite, FS_RemoveElement
  <2>3. Len(elems') = Len(elems) - 1
    BY <1>2 DEF DeleteFirst, TakenIsFirst, TypeOK
  <2> QED
    BY <1>2, <2>2, <2>3, OnTheWayFinite DEF DeleteFirst, NoLostWakeup, TypeOK
<1>3. ASSUME NEW t \in Thread, AppendElem(t) PROVE NoLostWakeup'
  <2>1. t \notin OnTheWay /\ OnTheWay' = OnTheWay \cup {t}
    BY <1>3 DEF AppendElem, OnTheWay, TypeOK, PC
  <2>2. Cardinality(OnTheWay') = Cardinality(OnTheWay) + 1
    BY <2>1, OnTheWayFinite, FS_AddElement
  <2>3. Len(elems') = Len(elems) + 1
    BY <1>3 DEF AppendElem, TakenIsFirst, TypeOK
  <2> QED
    BY <1>3, <2>2, <2>3, OnTheWayFinite DEF AppendElem, NoLostWakeup, TypeOK
<1>4. ASSUME NEW t \in Thread, AddSignal(t) PROVE NoLostWakeup'
  <2>1. CASE sleeping = {}
    BY <1>4, <2>1 DEF AddSignal, NoLostWakeup
  <2>2. CASE sleeping # {}
    <3>1. PICK w \in sleeping : sleeping' = sleeping \ {w}
      BY <1>4, <2>2 DEF AddSignal
    <3>2. w \in Thread /\ pc[w] = "getAsleep" /\ w # t
      BY <1>4, <3>1 DEF AddSignal, TypeOK, ThreadsTypeOK, LockDiscipline
    <3>3. /\ w \notin OnTheWay
          /\ t \in OnTheWay
          /\ OnTheWay' = (OnTheWay \cup {w}) \ {t}
      BY <1>4, <3>1, <3>2 DEF AddSignal, OnTheWay, TypeOK, PC, LockDiscipline
    <3>4. /\ IsFiniteSet(OnTheWay \cup {w})
          /\ Cardinality(OnTheWay \cup {w}) = Cardinality(OnTheWay) + 1
      BY <3>3, OnTheWayFinite, FS_AddElement
    <3>5. Cardinality((OnTheWay \cup {w}) \ {t}) = Cardinality(OnTheWay \cup {w}) - 1
      BY <3>3, <3>4, FS_RemoveElement
    <3>6. Cardinality(OnTheWay') = Cardinality(OnTheWay)
      BY <3>3, <3>4, <3>5, OnTheWayFinite
    <3> QED
      BY <1>4, <2>2, <3>6 DEF AddSignal, NoLostWakeup
  <2> QED
    BY <2>1, <2>2
<1>5. ASSUME NEW t \in Thread,
             \/ GetLock(t) \/ GetWoken(t) \/ GetFound(t) \/ TakeFirst(t)
             \/ NbLock(t) \/ NbTest(t) \/ AddLock(t) \/ Return(t) \/ Wakeup(t)
             \/ CallGet(t) \/ CallGetNonBlocking(t)
             \/ \E e \in Elem : CallAdd(t, e)
      PROVE  NoLostWakeup'
  <2>1. /\ OnTheWay \subseteq OnTheWay'
        /\ elems' = elems
        /\ sleeping' \subseteq sleeping
    BY <1>5
    DEF GetLock, GetWoken, GetFound, TakeFirst, NbLock, NbTest, AddLock, Return,
        Wakeup, CallGet, CallGetNonBlocking, CallAdd, OnTheWay, TypeOK, PC
  <2> QED
    BY <1>0, <2>1, WayGrows
<1>6. CASE UNCHANGED vars
  BY <1>6 DEF vars, NoLostWakeup, OnTheWay
<1> QED
  BY <1>1, <1>2, <1>3, <1>4, <1>5, <1>6 DEF Next, Inside

\* THEOREM.  No lost wakeup, for any number of producers and consumers: one
\* signal() per add() is enough although a getNonBlocking() or a get() that
\* never slept may take the element a sleeper was woken for.
THEOREM QueueNoLostWakeup == Spec => []NoLostWakeup
<1>1. Init => NoLostWakeup
  BY DEF Init, ThreadsInit, NoLostWakeup
<1>2. Spec => []IInv
  BY InitIInv, StepIInv, PTL DEF Spec
<1> QED
  BY <1>1, <1>2, StepWakeup, PTL DEF Spec
==============================================================================
