------------------------------ MODULE PollQueue ------------------------------
(***************************************************************************)
(* A queue that wakes a poller through a pipe: PollQueue of                *)
(* lib/crack/net/pollqueue.crk and _CommPipeHandler of                     *)
(* lib/crack/net/comm2.crk, whose sendMessage() and oper call() have the   *)
(* bodies of PollQueue's add() and oper call().  A producer appends to a   *)
(* thread-safe queue and then writes one byte to the pipe; the poller      *)
(* thread, when ppoll() reports the pipe, first reads what is in it and    *)
(* then takes elements until the queue is empty.                           *)
(*                                                                         *)
(* The queue is the atomic one that SafeQueue implements.  The pipe is a   *)
(* blocking one of PipeSize bytes (Pipe() passes no flags): a write blocks *)
(* while it is full and a read blocks while it is empty.                   *)
(***************************************************************************)
EXTENDS Integers, Sequences, FiniteSets

CONSTANTS Producer,    \* the threads that call add() or sendMessage()
          PipeSize,    \* the bytes the kernel buffers in a pipe
          ReadSize,    \* the 1024 of __pipe.read(1024)
          Reentrant,   \* TRUE if handlers run by the poller call add() too
          MaxAdds      \* bound: calls of add() in a behaviour

ASSUME PollQueueAssumption ==
  /\ PipeSize \in Nat \ {0}
  /\ ReadSize \in Nat \ {0}
  /\ Reentrant \in BOOLEAN
  /\ MaxAdds \in Nat

VARIABLES queue,        \* __queue; elements are numbered by their add()
          pipe,         \* the number of bytes in __pipe
          registered,   \* __pipe is among the poller's pollables
          producer,     \* producer[t]: where thread t is in add()
          poller,       \* where the poller thread is
          resume,       \* where it goes on after an add() of its own
          adds          \* the number of elements added so far

queueVars == <<queue, pipe, registered, producer, poller, resume, adds>>

PollerPC == {"poll", "ready", "drain", "callback", "write"}

QueueTypeOK ==
  /\ queue \in Seq(1..MaxAdds)
  /\ pipe \in 0..PipeSize
  /\ registered \in BOOLEAN
  /\ producer \in [Producer -> {"idle", "write"}]
  /\ poller \in PollerPC
  /\ resume \in PollerPC \ {"write"}
  /\ adds \in 0..MaxAdds

QueueInit ==
  /\ queue = <<>>
  /\ pipe = 0
  /\ registered = FALSE
  /\ producer = [t \in Producer |-> "idle"]
  /\ poller = "poll"
  /\ resume = "poll"
  /\ adds = 0

-----------------------------------------------------------------------------
\* add() and sendMessage(): __queue.add(elem), then __pipe.write('x').

Enqueue ==
  /\ adds < MaxAdds
  /\ adds' = adds + 1
  /\ queue' = Append(queue, adds + 1)

Add(t) ==
  /\ producer[t] = "idle"
  /\ Enqueue
  /\ producer' = [producer EXCEPT ![t] = "write"]
  /\ UNCHANGED <<pipe, registered, poller, resume>>

\* Mutant: no byte is written if the queue held something before the add().
WriteByte_OnlyFirst(t) ==
  /\ producer[t] = "write"
  /\ pipe < PipeSize
  /\ pipe' = IF Len(queue) > 1 THEN pipe ELSE pipe + 1
  /\ producer' = [producer EXCEPT ![t] = "idle"]
  /\ UNCHANGED <<queue, registered, poller, resume, adds>>

WriteByte(t) ==
  /\ producer[t] = "write"
  /\ pipe < PipeSize
  /\ pipe' = pipe + 1
  /\ producer' = [producer EXCEPT ![t] = "idle"]
  /\ UNCHANGED <<queue, registered, poller, resume, adds>>

\* get() and getNonBlocking(), which any thread may call as well.
Take(t) ==
  /\ producer[t] = "idle"
  /\ queue # <<>>
  /\ queue' = Tail(queue)
  /\ UNCHANGED <<pipe, registered, producer, poller, resume, adds>>

-----------------------------------------------------------------------------
\* The poller thread.  addTo() and removeFrom() are called in it, from user code
\* between two rounds or from a callback.

Handler == poller \in {"poll", "ready", "callback"}

AddTo ==
  /\ Handler
  /\ ~registered
  /\ registered' = TRUE
  /\ UNCHANGED <<queue, pipe, producer, poller, resume, adds>>

RemoveFrom ==
  /\ Handler
  /\ registered
  /\ registered' = FALSE
  /\ poller' = IF poller = "ready" THEN "poll" ELSE poller
  /\ UNCHANGED <<queue, pipe, producer, resume, adds>>

\* ppoll() reports POLLIN on the pipe.  Handlers of other pollables may run
\* before the pipe's.  POLLERR and POLLHUP are not reported for the read end of
\* a pipe whose write end this process keeps open.
PollIn ==
  /\ poller = "poll"
  /\ registered
  /\ pipe > 0
  /\ poller' = "ready"
  /\ UNCHANGED <<queue, pipe, registered, producer, resume, adds>>

Least(a, b) == IF a < b THEN a ELSE b

\* Mutant: a read too many.
ReadPipe_Twice ==
  /\ poller = "ready"
  /\ pipe > 0
  /\ pipe' = pipe - Least(pipe, ReadSize)
  /\ poller' = IF queue = <<>> THEN "ready" ELSE "drain"
  /\ UNCHANGED <<queue, registered, producer, resume, adds>>

\* __pipe.read(1024)
ReadPipe ==
  /\ poller = "ready"
  /\ pipe > 0
  /\ pipe' = pipe - Least(pipe, ReadSize)
  /\ poller' = "drain"
  /\ UNCHANGED <<queue, registered, producer, resume, adds>>

\* __queue.getNonBlocking() returns an element, and the callback is called.
DrainOne ==
  /\ poller = "drain"
  /\ queue # <<>>
  /\ queue' = Tail(queue)
  /\ poller' = "callback"
  /\ UNCHANGED <<pipe, registered, producer, resume, adds>>

CallbackReturns ==
  /\ poller = "callback"
  /\ poller' = "drain"
  /\ UNCHANGED <<queue, pipe, registered, producer, resume, adds>>

\* Mutant: the drain may stop with elements left, for instance after one per
\* wakeup.
DrainDone_Early ==
  /\ poller = "drain"
  /\ poller' = "poll"
  /\ UNCHANGED <<queue, pipe, registered, producer, resume, adds>>

\* getNonBlocking() returns null.
DrainDone ==
  /\ poller = "drain"
  /\ queue = <<>>
  /\ poller' = "poll"
  /\ UNCHANGED <<queue, pipe, registered, producer, resume, adds>>

\* add() called in the poller thread, by the queue's callback or by the handler
\* of another pollable (Connection.write() in a UserHandler's process()).
HandlerAdds ==
  /\ Reentrant
  /\ Handler
  /\ Enqueue
  /\ poller' = "write"
  /\ resume' = poller
  /\ UNCHANGED <<pipe, registered, producer>>

HandlerWrites ==
  /\ poller = "write"
  /\ pipe < PipeSize
  /\ pipe' = pipe + 1
  /\ poller' = resume
  /\ UNCHANGED <<queue, registered, producer, resume, adds>>

-----------------------------------------------------------------------------
PollerStep ==
  PollIn \/ ReadPipe \/ DrainOne \/ CallbackReturns \/ DrainDone \/ HandlerWrites

QueueNext ==
  \/ \E t \in Producer : Add(t) \/ WriteByte(t) \/ Take(t)
  \/ AddTo \/ RemoveFrom
  \/ HandlerAdds
  \/ PollerStep

QueueSpec == QueueInit /\ [][QueueNext]_queueVars

\* The threads are scheduled: the poller goes on with its round, a producer
\* finishes the add() it has begun.  Nobody is obliged to add anything.
FairQueueSpec ==
  /\ QueueSpec
  /\ WF_queueVars(PollerStep)
  /\ \A t \in Producer : WF_queueVars(WriteByte(t))

-----------------------------------------------------------------------------
(***************************************************************************)
(* Properties.                                                             *)
(***************************************************************************)

\* No stranded element: whenever the queue holds an element, a byte that will
\* wake the poller is in the pipe or about to be written, or the poller is
\* still draining.
NoStrandedElement ==
  queue # <<>> =>
    \/ pipe > 0
    \/ \E t \in Producer : producer[t] = "write"
    \/ poller \in {"drain", "callback", "write"}

\* The blocking __pipe.read(1024) never blocks the poller thread: between
\* ppoll() and the read nobody else takes the byte that was reported.
ReadDoesNotBlock ==
  /\ poller = "ready" => pipe > 0 /\ registered
  /\ poller = "write" /\ resume = "ready" => pipe > 0 /\ registered

\* Every element added is taken out again while the queue stays in the poller,
\* without further add() calls.
EveryElementTaken ==
  \A n \in 1..MaxAdds :
    (\E i \in DOMAIN queue : queue[i] = n)
      ~> (~registered \/ ~\E i \in DOMAIN queue : queue[i] = n)
==============================================================================
