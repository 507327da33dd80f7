------------------------------ MODULE SafeQueue ------------------------------
(***************************************************************************)
(* The thread-safe queue of lib/crack/threads.crk: classes Queue and       *)
(* Queue2, which share the bodies of get() and add(); only Queue2 has      *)
(* getNonBlocking().  Every call is split at the points where another      *)
(* thread can run: taking the mutex, every access to the element array     *)
(* under it, the wait on the condition, the signal and the release.        *)
(***************************************************************************)
EXTENDS Threads, Naturals, Sequences, FiniteSets

CONSTANTS Elem,        \* the elements
          NoElem,      \* the null that getNonBlocking() returns
          MaxAdds      \* bound: calls of add() in a behaviour

ASSUME SafeQueueAssumption ==
  /\ NoElem \notin Elem
  /\ MaxAdds \in Nat

VARIABLES elems,    \* __elems
          pc,       \* pc[t]: where thread t is in the code
          hand,     \* hand[t]: the argument of add(), the `p' of a get
          got,      \* history: what each thread received
          adds      \* the number of add() calls so far

vars == <<owner, sleeping, elems, pc, hand, got, adds>>

PC == {"idle", "getLock", "nbLock", "addLock",
       "getTest", "getAsleep", "nbTest",
       "take", "delete", "append", "signal", "unlock"}

\* The program points between MutexLock's constructor and its destructor at
\* which the thread holds the mutex (it does not while it sleeps in wait()).
Locked == {"getTest", "nbTest", "take", "delete", "append", "signal", "unlock"}

TypeOK ==
  /\ ThreadsTypeOK
  /\ elems \in Seq(Elem)
  /\ pc \in [Thread -> PC]
  /\ hand \in [Thread -> Elem \cup {NoElem}]
  /\ got \in [Thread -> Seq(Elem)]
  /\ adds \in 0..MaxAdds

Init ==
  /\ ThreadsInit
  /\ elems = <<>>
  /\ pc = [t \in Thread |-> "idle"]
  /\ hand = [t \in Thread |-> NoElem]
  /\ got = [t \in Thread |-> <<>>]
  /\ adds = 0

Goto(t, from, to) ==
  /\ pc[t] = from
  /\ pc' = [pc EXCEPT ![t] = to]

-----------------------------------------------------------------------------
\* Calls.

CallGet(t) ==
  /\ Goto(t, "idle", "getLock")
  /\ UNCHANGED <<owner, sleeping, elems, hand, got, adds>>

CallGetNonBlocking(t) ==
  /\ Goto(t, "idle", "nbLock")
  /\ UNCHANGED <<owner, sleeping, elems, hand, got, adds>>

\* Mutant: the argument is not kept for the append.
CallAdd_DropsArgument(t, e) ==
  /\ adds < MaxAdds
  /\ Goto(t, "idle", "addLock")
  /\ adds' = adds + 1
  /\ UNCHANGED <<owner, sleeping, elems, hand, got>>

CallAdd(t, e) ==
  /\ adds < MaxAdds
  /\ Goto(t, "idle", "addLock")
  /\ hand' = [hand EXCEPT ![t] = e]
  /\ adds' = adds + 1
  /\ UNCHANGED <<owner, sleeping, elems, got>>

-----------------------------------------------------------------------------
\* get(): lock, wait while the array is empty, take the first element.

GetLock(t) ==
  /\ Goto(t, "getLock", "getTest")
  /\ Lock(t)
  /\ UNCHANGED <<sleeping, elems, hand, got, adds>>

GetWait(t) ==
  /\ elems = <<>>
  /\ Goto(t, "getTest", "getAsleep")
  /\ Wait(t)
  /\ UNCHANGED <<elems, hand, got, adds>>

\* Mutant: `if' instead of `while' around the wait.
GetWoken_NoRetest(t) ==
  /\ Goto(t, "getAsleep", "take")
  /\ Relock(t)
  /\ UNCHANGED <<sleeping, elems, hand, got, adds>>

\* wait() returns and the while loop tests the array again.
GetWoken(t) ==
  /\ Goto(t, "getAsleep", "getTest")
  /\ Relock(t)
  /\ UNCHANGED <<sleeping, elems, hand, got, adds>>

GetFound(t) ==
  /\ elems # <<>>
  /\ Goto(t, "getTest", "take")
  /\ UNCHANGED <<owner, sleeping, elems, hand, got, adds>>

\* p := __elems[0]
TakeFirst(t) ==
  /\ Goto(t, "take", "delete")
  /\ hand' = [hand EXCEPT ![t] = elems[1]]
  /\ UNCHANGED <<owner, sleeping, elems, got, adds>>

\* Mutant: delete(-1), the last element, instead of delete(0).
DeleteFirst_Last(t) ==
  /\ Goto(t, "delete", "unlock")
  /\ elems' = SubSeq(elems, 1, Len(elems) - 1)
  /\ got' = [got EXCEPT ![t] = Append(@, hand[t])]
  /\ UNCHANGED <<owner, sleeping, hand, adds>>

\* __elems.delete(0), and p becomes the result.
DeleteFirst(t) ==
  /\ Goto(t, "delete", "unlock")
  /\ elems' = Tail(elems)
  /\ got' = [got EXCEPT ![t] = Append(@, hand[t])]
  /\ UNCHANGED <<owner, sleeping, hand, adds>>

-----------------------------------------------------------------------------
\* getNonBlocking(): the same without the wait.

NbLock(t) ==
  /\ Goto(t, "nbLock", "nbTest")
  /\ Lock(t)
  /\ UNCHANGED <<sleeping, elems, hand, got, adds>>

NbTest(t) ==
  /\ \/ elems # <<>> /\ Goto(t, "nbTest", "take")
     \/ elems = <<>> /\ Goto(t, "nbTest", "unlock")
  /\ UNCHANGED <<owner, sleeping, elems, hand, got, adds>>

-----------------------------------------------------------------------------
\* add(): lock, append, signal.

AddLock(t) ==
  /\ Goto(t, "addLock", "append")
  /\ Lock(t)
  /\ UNCHANGED <<sleeping, elems, hand, got, adds>>

AppendElem(t) ==
  /\ Goto(t, "append", "signal")
  /\ elems' = Append(elems, hand[t])
  /\ UNCHANGED <<owner, sleeping, hand, got, adds>>

\* Mutant: add() signals only when the array was empty before it.
AddSignal_OnlyFirst(t) ==
  /\ Goto(t, "signal", "unlock")
  /\ IF Len(elems) = 1 THEN Signal ELSE UNCHANGED sleeping
  /\ UNCHANGED <<owner, elems, hand, got, adds>>

AddSignal(t) ==
  /\ Goto(t, "signal", "unlock")
  /\ Signal
  /\ UNCHANGED <<owner, elems, hand, got, adds>>

\* Mutant: the lock object is not destroyed on return.
Return_KeepsLock(t) ==
  /\ Goto(t, "unlock", "idle")
  /\ hand' = [hand EXCEPT ![t] = NoElem]
  /\ UNCHANGED <<owner, sleeping, elems, got, adds>>

\* The MutexLock goes out of scope and the call returns.
Return(t) ==
  /\ Goto(t, "unlock", "idle")
  /\ Unlock(t)
  /\ hand' = [hand EXCEPT ![t] = NoElem]
  /\ UNCHANGED <<sleeping, elems, got, adds>>

Wakeup(t) ==
  /\ SpuriousWakeup(t)
  /\ UNCHANGED <<elems, pc, hand, got, adds>>

-----------------------------------------------------------------------------
\* The steps a thread takes inside a call.
Inside(t) ==
  \/ GetLock(t) \/ GetWait(t) \/ GetWoken(t) \/ GetFound(t)
  \/ TakeFirst(t) \/ DeleteFirst(t)
  \/ NbLock(t) \/ NbTest(t)
  \/ AddLock(t) \/ AppendElem(t) \/ AddSignal(t)
  \/ Return(t)

Next ==
  \E t \in Thread :
    \/ CallGet(t)
    \/ CallGetNonBlocking(t)
    \/ \E e \in Elem : CallAdd(t, e)
    \/ Inside(t)
    \/ Wakeup(t)

Spec == Init /\ [][Next]_vars

-----------------------------------------------------------------------------
(***************************************************************************)
(* Properties.                                                             *)
(***************************************************************************)

\* Mutex discipline: the threads between MutexLock's constructor and its
\* destructor are exactly the owner of the mutex, and only threads inside
\* Condition.wait() are asleep.
LockDiscipline ==
  /\ \A t \in Thread : pc[t] \in Locked <=> owner = t
  /\ \A t \in sleeping : pc[t] = "getAsleep"

\* What get() read as __elems[0] is still the first element when it deletes
\* index 0, so that no element is lost and none is handed out twice.
TakenIsFirst ==
  \A t \in Thread :
    /\ pc[t] = "take" => elems # <<>>
    /\ pc[t] = "delete" => elems # <<>> /\ hand[t] = Head(elems)
    /\ pc[t] \in {"addLock", "append"} => hand[t] \in Elem

\* The threads that will look at the array, or wake one that will, without any
\* further signal: awake again inside wait(), or at work under the mutex.
OnTheWay ==
  {t \in Thread : \/ pc[t] = "getAsleep" /\ t \notin sleeping
                  \/ pc[t] \in {"getTest", "take", "delete", "signal"}}

\* No lost wakeup: while some get() sleeps, every element in the array has a
\* thread on its way to it.  With one signal() per add() no element can be
\* stranded next to a sleeping consumer, whatever getNonBlocking() steals.
NoLostWakeup ==
  sleeping # {} => Len(elems) <= Cardinality(OnTheWay)

\* The queue implements the atomic FIFO queue.
Fifo == INSTANCE FifoQueue WITH q <- elems

FifoSpec == Fifo!Spec
==============================================================================
