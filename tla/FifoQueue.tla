------------------------------ MODULE FifoQueue ------------------------------
(***************************************************************************)
(* What a thread-safe queue promises its users: every operation takes      *)
(* effect in one step, in which an element goes to the end of the queue or *)
(* the first element goes to exactly one thread.                           *)
(***************************************************************************)
EXTENDS Sequences

CONSTANTS Thread, Elem

VARIABLES q,     \* the queue
          got    \* got[t]: what thread t has received, in order

fifoVars == <<q, got>>

Init ==
  /\ q = <<>>
  /\ got = [t \in Thread |-> <<>>]

Enqueue(e) ==
  /\ q' = Append(q, e)
  /\ UNCHANGED got

Dequeue(t) ==
  /\ q # <<>>
  /\ got' = [got EXCEPT ![t] = Append(@, Head(q))]
  /\ q' = Tail(q)

Next ==
  \/ \E e \in Elem : Enqueue(e)
  \/ \E t \in Thread : Dequeue(t)

Spec == Init /\ [][Next]_fifoVars
==============================================================================
