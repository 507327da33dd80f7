------------------------------- MODULE Poller -------------------------------
(***************************************************************************)
(* The Poller of lib/crack/net.crk over the pollfd array of                *)
(* runtime/Net.cc: the list of pollables, the pollfd slots kept parallel   *)
(* to it, and the one iterator `__iter' that waitAndProcess(), nx() and    *)
(* the callbacks they run share with remove().                             *)
(*                                                                         *)
(* One thread runs the poller; the interleaving is between its loops and   *)
(* the user code that runs between two calls of nx() (pc = "idle") or in   *)
(* a callback (pc = "callback"), both of which may add and remove          *)
(* pollables.  Which removals the user code makes is the constant May.     *)
(* Slots are indexed from 0 as in the code, pollables from 1.              *)
(***************************************************************************)
EXTENDS Integers, Sequences, FiniteSets

Seqs == INSTANCE SequencesExt

CONSTANTS Handle,     \* FileHandle objects
          Fd,         \* file descriptors
          FdOf,       \* FdOf[h]: the descriptor of handle h
          NoFd,       \* what calloc() leaves in an unused slot
          Mask,       \* event masks
          Zero,       \* the mask of an unused slot
          NoEvent,    \* no callback is running
          Capacity,   \* the entries PollSet(256) allocates
          May         \* the removals user code makes: pairs <<context, kind>>

Contexts == {"idle", "prep", "nx", "check"}
Kinds == {"self", "next", "earlier", "later"}

ASSUME PollerAssumption ==
  /\ IsFiniteSet(Handle)
  /\ FdOf \in [Handle -> Fd]
  /\ NoFd \notin Fd
  /\ Zero \in Mask
  /\ NoEvent \notin [pollable : Handle, events : Mask, removed : BOOLEAN]
  /\ Capacity \in Nat \ {0}
  /\ May \subseteq Contexts \X Kinds

\* There are never more pollables than entries: grow() leaves the array as it
\* was allocated, and add() then writes behind its end, of which nothing can be
\* said.
ASSUME HandlesFit == Cardinality(Handle) <= Capacity

VARIABLES pollables,   \* __pollables
          fds,         \* __fds
          nextIndex,   \* __nextIndex
          capacity,    \* __capacity
          callbacks,   \* the keys of __callbacks
          iter,        \* __iter
          pc,          \* the loop that is running, or "callback"
          back,        \* the loop a callback returns to
          index,       \* descriptorIndex of __callCallback(), or the `i' of
                       \* checkHandlers()
          event,       \* the PollEvent passed to the callback
          want,        \* history: the mask last asked for each handle
          todo,        \* history: the handles the running loop still owes a
                       \* visit
          again        \* history: the handles nx() delivered twice

vars == <<pollables, fds, nextIndex, capacity, callbacks, iter, pc, back, index,
          event, want, todo, again>>

\* The entries of the array.
Slot == 0..(Capacity - 1)
PollFd == [fd : Fd \cup {NoFd}, events : Mask, revents : BOOLEAN]
\* `removed' is history: the callback took its own pollable out.
PollEvent == [pollable : Handle, events : Mask, removed : BOOLEAN]

TypeOK ==
  /\ pollables \in Seq(Handle)
  /\ fds \in [Slot -> PollFd]
  /\ nextIndex \in 0..Cardinality(Handle)
  /\ capacity \in Nat
  /\ callbacks \subseteq Handle
  /\ iter \in -1..Cardinality(Handle)
  /\ pc \in {"idle", "prep", "nx", "check", "callback"}
  /\ back \in {"idle", "prep", "nx", "check"}
  /\ index \in 0..Cardinality(Handle)
  /\ event \in PollEvent \cup {NoEvent}
  /\ want \in [Handle -> Mask]
  /\ todo \subseteq Handle
  /\ again \subseteq Handle

Init ==
  /\ pollables = <<>>
  /\ fds = [i \in Slot |-> [fd |-> NoFd, events |-> Zero, revents |-> FALSE]]
  /\ nextIndex = 0
  /\ capacity = Capacity
  /\ callbacks = {}
  /\ iter = 0
  /\ pc = "idle"
  /\ back = "idle"
  /\ index = 0
  /\ event = NoEvent
  /\ want = [h \in Handle |-> Zero]
  /\ todo = {}
  /\ again = {}

Managed == Seqs!ToSet(pollables)
IndexOf(h) == (CHOOSE i \in 1..Len(pollables) : pollables[i] = h) - 1
At(i) == pollables[i + 1]

\* PollSet_set() with revents 0, as every caller has it.
Entry(h, m) == [fd |-> FdOf[h], events |-> m, revents |-> FALSE]

-----------------------------------------------------------------------------
\* The operations user code calls, between two calls of nx() or in a callback.

UserCode == pc \in {"idle", "callback"}

\* add(): refused if the descriptor is already managed.  grow() doubles the
\* recorded capacity; the larger PollSet it allocates and fills is never stored
\* in __fds, so the slots stay the ones allocated first (and HandlesFit keeps
\* add() within them).
AddEntry(h, m) ==
  /\ UserCode
  /\ \A g \in Managed : FdOf[g] # FdOf[h]
  /\ capacity' = IF nextIndex = capacity THEN capacity * 2 ELSE capacity
  /\ pollables' = Append(pollables, h)
  /\ fds' = [fds EXCEPT ![nextIndex] = Entry(h, m)]
  /\ nextIndex' = nextIndex + 1
  /\ want' = [want EXCEPT ![h] = m]
  /\ UNCHANGED <<iter, pc, back, index, event, todo, again>>

Add(h, m) ==
  /\ AddEntry(h, m)
  /\ UNCHANGED callbacks

\* add() with a handler; the mask is the handler's answer to an empty event.
AddCallback(h, m) ==
  /\ AddEntry(h, m)
  /\ callbacks' = callbacks \cup {h}

\* PollSet_delete()
DeleteSlot(f, size, i) ==
  [j \in Slot |-> IF j >= i /\ j < size - 1 THEN f[j + 1] ELSE f[j]]

\* Where the user code runs, and which pollable it removes, seen from the
\* iterator.
Context == IF pc = "idle" THEN "idle"
           ELSE IF back = "idle" THEN "nx" ELSE back

Kind(h) ==
  LET i == IndexOf(h)
      at == IF Context = "check" THEN index ELSE iter
      own == Context # "idle" /\ h = event.pollable /\ ~event.removed
      next == Context \in {"idle", "check"} /\ iter = i IN
  IF next THEN "next" ELSE IF own THEN "self"
  ELSE IF i < at \/ (i = at /\ Context # "idle") THEN "earlier" ELSE "later"

\* Mutant: the pollfd slots are not closed up.
Remove_LeavesSlot(h) ==
  LET i == IndexOf(h) IN
  /\ UserCode
  /\ h \in Managed
  /\ <<Context, Kind(h)>> \in May
  /\ pollables' = Seqs!RemoveAt(pollables, i + 1)
  /\ callbacks' = callbacks \ {h}
  /\ nextIndex' = nextIndex - 1
  /\ iter' = IF iter >= i THEN iter - 1 ELSE iter
  /\ event' = IF pc = "callback" /\ h = event.pollable
                THEN [event EXCEPT !.removed = TRUE] ELSE event
  /\ want' = [want EXCEPT ![h] = Zero]
  /\ todo' = todo \ {h}
  /\ UNCHANGED <<fds, capacity, pc, back, index, again>>

\* Mutant: the iterator is not moved.
Remove_KeepsIterator(h) ==
  LET i == IndexOf(h) IN
  /\ UserCode
  /\ h \in Managed
  /\ <<Context, Kind(h)>> \in May
  /\ pollables' = Seqs!RemoveAt(pollables, i + 1)
  /\ fds' = DeleteSlot(fds, nextIndex, i)
  /\ callbacks' = callbacks \ {h}
  /\ nextIndex' = nextIndex - 1
  /\ event' = IF pc = "callback" /\ h = event.pollable
                THEN [event EXCEPT !.removed = TRUE] ELSE event
  /\ want' = [want EXCEPT ![h] = Zero]
  /\ todo' = todo \ {h}
  /\ UNCHANGED <<iter, capacity, pc, back, index, again>>

\* Mutant: the iterator is moved whichever pollable is removed.
Remove_AlwaysMovesIterator(h) ==
  LET i == IndexOf(h) IN
  /\ UserCode
  /\ h \in Managed
  /\ <<Context, Kind(h)>> \in May
  /\ pollables' = Seqs!RemoveAt(pollables, i + 1)
  /\ fds' = DeleteSlot(fds, nextIndex, i)
  /\ callbacks' = callbacks \ {h}
  /\ nextIndex' = nextIndex - 1
  /\ iter' = iter - 1
  /\ event' = IF pc = "callback" /\ h = event.pollable
                THEN [event EXCEPT !.removed = TRUE] ELSE event
  /\ want' = [want EXCEPT ![h] = Zero]
  /\ todo' = todo \ {h}
  /\ UNCHANGED <<capacity, pc, back, index, again>>

\* remove(): a handle that is not managed is refused with no change.
Remove(h) ==
  LET i == IndexOf(h) IN
  /\ UserCode
  /\ h \in Managed
  /\ <<Context, Kind(h)>> \in May
  /\ pollables' = Seqs!RemoveAt(pollables, i + 1)
  /\ fds' = DeleteSlot(fds, nextIndex, i)
  /\ callbacks' = callbacks \ {h}
  /\ nextIndex' = nextIndex - 1
  /\ iter' = IF iter >= i THEN iter - 1 ELSE iter
  /\ event' = IF pc = "callback" /\ h = event.pollable
                THEN [event EXCEPT !.removed = TRUE] ELSE event
  /\ want' = [want EXCEPT ![h] = Zero]
  /\ todo' = todo \ {h}
  /\ UNCHANGED <<capacity, pc, back, index, again>>

\* setEvents(), on a pollable without a handler as its comment advises.  It
\* clears what ppoll() reported in the slot, and so withdraws an event that
\* nx() has not delivered yet.
SetEvents(h, m) ==
  /\ UserCode
  /\ h \in Managed \ callbacks
  /\ fds' = [fds EXCEPT ![IndexOf(h)] = Entry(h, m)]
  /\ want' = [want EXCEPT ![h] = m]
  /\ todo' = IF Context = "prep" THEN todo ELSE todo \ {h}
  /\ UNCHANGED <<pollables, nextIndex, capacity, callbacks, iter, pc, back, index,
                 event, again>>

-----------------------------------------------------------------------------
\* The head of __callCallback(): remember where the iterator is, call the
\* handler.
Call(i, loop) ==
  /\ pc' = "callback"
  /\ back' = loop
  /\ index' = i
  /\ event' = [pollable |-> At(i), events |-> fds[i].events, removed |-> FALSE]

\* Mutant: the iterator is put back but not moved on.
CallbackReturns_Stays(m) ==
  /\ pc = "callback"
  /\ fds' = IF m # event.events /\ iter >= 0 /\ At(iter) = event.pollable
              THEN [fds EXCEPT ![index] = Entry(event.pollable, m)]
              ELSE fds
  /\ want' = IF event.removed THEN want ELSE [want EXCEPT ![event.pollable] = m]
  /\ iter' = IF back = "check" THEN iter ELSE index
  /\ index' = IF back = "check" THEN index + 1 ELSE 0
  /\ event' = NoEvent
  /\ back' = "idle"
  /\ pc' = back
  /\ UNCHANGED <<pollables, nextIndex, capacity, callbacks, todo, again>>

\* The handler returns mask m.  __callCallback() stores a changed mask if the
\* pollable is still the one at the iterator, RestoreIter puts the iterator
\* back to where it was and the loop moves it on.  checkHandlers() stores the
\* mask at its own index without looking.
CallbackReturns(m) ==
  /\ pc = "callback"
  /\ fds' = IF \/ back = "check"
               \/ m # event.events /\ iter >= 0 /\ At(iter) = event.pollable
              THEN [fds EXCEPT ![index] = Entry(event.pollable, m)]
              ELSE fds
  /\ want' = IF event.removed THEN want ELSE [want EXCEPT ![event.pollable] = m]
  /\ iter' = IF back = "check" THEN iter ELSE index + 1
  /\ index' = IF back = "check" THEN index + 1 ELSE 0
  /\ event' = NoEvent
  /\ back' = "idle"
  /\ pc' = back
  /\ todo' = IF back = "check" THEN todo \ {event.pollable} ELSE todo
  /\ UNCHANGED <<pollables, nextIndex, capacity, callbacks, again>>

-----------------------------------------------------------------------------
\* waitAndProcess(): ask every handler for its mask, wait, deliver the events.

WaitAndProcess ==
  /\ pc = "idle"
  /\ pc' = "prep"
  /\ iter' = 0
  /\ todo' = Managed \cap callbacks
  /\ again' = {}
  /\ UNCHANGED <<pollables, fds, nextIndex, capacity, callbacks, back, index, event,
                 want>>

PrepCall ==
  /\ pc = "prep"
  /\ iter < nextIndex
  /\ At(iter) \in callbacks
  /\ Call(iter, "prep")
  /\ todo' = todo \ {At(iter)}
  /\ UNCHANGED <<pollables, fds, nextIndex, capacity, callbacks, iter, want, again>>

PrepPass ==
  /\ pc = "prep"
  /\ iter < nextIndex
  /\ At(iter) \notin callbacks
  /\ iter' = iter + 1
  /\ UNCHANGED <<pollables, fds, nextIndex, capacity, callbacks, pc, back, index,
                 event, want, todo, again>>

\* ppoll() on the first __nextIndex slots: it reports any set of them, none
\* of them on a timeout or an interruption.
Poll ==
  \E ready \in SUBSET {i \in Slot : i < nextIndex} :
    /\ fds' = [i \in Slot |-> IF i < nextIndex
                                THEN [fds[i] EXCEPT !.revents = i \in ready]
                                ELSE fds[i]]
    /\ todo' = {At(i) : i \in ready}

PrepDone ==
  /\ pc = "prep"
  /\ iter >= nextIndex
  /\ Poll
  /\ iter' = 0
  /\ pc' = "nx"
  /\ UNCHANGED <<pollables, nextIndex, capacity, callbacks, back, index, event, want,
                 again>>

\* wait() called by the user code itself.
Wait ==
  /\ pc = "idle"
  /\ Poll
  /\ iter' = 0
  /\ again' = {}
  /\ UNCHANGED <<pollables, nextIndex, capacity, callbacks, pc, back, index, event,
                 want>>

\* PollSet_next(): the slots from the iterator on that have an event.
ReadyFrom(i) == {j \in Slot : j >= i /\ j < nextIndex /\ fds[j].revents}
Least(S) == CHOOSE i \in S : \A j \in S : i <= j

NxNone ==
  /\ pc \in {"idle", "nx"}
  /\ iter = -1 \/ ReadyFrom(iter) = {}
  /\ iter' = -1
  /\ pc' = "idle"
  /\ UNCHANGED <<pollables, fds, nextIndex, capacity, callbacks, back, index, event,
                 want, todo, again>>

NxCall ==
  /\ pc \in {"idle", "nx"}
  /\ iter # -1
  /\ ReadyFrom(iter) # {}
  /\ LET k == Least(ReadyFrom(iter)) IN
       /\ At(k) \in callbacks
       /\ Call(k, pc)
       /\ iter' = k
       /\ todo' = todo \ {At(k)}
       /\ again' = again \cup ({At(k)} \ todo)
  /\ UNCHANGED <<pollables, fds, nextIndex, capacity, callbacks, want>>

\* A pollable without a handler: nx() only returns the event.
NxReturn ==
  /\ pc \in {"idle", "nx"}
  /\ iter # -1
  /\ ReadyFrom(iter) # {}
  /\ LET k == Least(ReadyFrom(iter)) IN
       /\ At(k) \notin callbacks
       /\ iter' = k + 1
       /\ todo' = todo \ {At(k)}
       /\ again' = again \cup ({At(k)} \ todo)
  /\ UNCHANGED <<pollables, fds, nextIndex, capacity, callbacks, pc, back, index,
                 event, want>>

-----------------------------------------------------------------------------
\* checkHandlers(): an iterator of its own over the live array.

CheckHandlers ==
  /\ pc = "idle"
  /\ callbacks # {}
  /\ pc' = "check"
  /\ index' = 0
  /\ UNCHANGED <<pollables, fds, nextIndex, capacity, callbacks, iter, back, event,
                 want, todo, again>>

CheckCall ==
  /\ pc = "check"
  /\ index < Len(pollables)
  /\ At(index) \in callbacks
  /\ Call(index, "check")
  /\ UNCHANGED <<pollables, fds, nextIndex, capacity, callbacks, iter, want, todo,
                 again>>

CheckPass ==
  /\ pc = "check"
  /\ index < Len(pollables)
  /\ At(index) \notin callbacks
  /\ index' = index + 1
  /\ UNCHANGED <<pollables, fds, nextIndex, capacity, callbacks, iter, pc, back,
                 event, want, todo, again>>

CheckDone ==
  /\ pc = "check"
  /\ index >= Len(pollables)
  /\ pc' = "idle"
  /\ index' = 0
  /\ UNCHANGED <<pollables, fds, nextIndex, capacity, callbacks, iter, back, event,
                 want, todo, again>>

-----------------------------------------------------------------------------
Next ==
  \/ \E h \in Handle, m \in Mask : Add(h, m) \/ AddCallback(h, m) \/ SetEvents(h, m)
  \/ \E h \in Handle : Remove(h)
  \/ \E m \in Mask : CallbackReturns(m)
  \/ WaitAndProcess \/ PrepCall \/ PrepPass \/ PrepDone
  \/ Wait \/ NxNone \/ NxCall \/ NxReturn
  \/ CheckHandlers \/ CheckCall \/ CheckPass \/ CheckDone

Spec == Init /\ [][Next]_vars

-----------------------------------------------------------------------------
(***************************************************************************)
(* Properties.                                                             *)
(***************************************************************************)

\* "The array of pollables and the file-descriptor set, which is also an array
\* that corresponds 1:1 with the set of pollables": slot i polls the
\* descriptor of pollable i for the mask that was last asked for it, whatever
\* callbacks removed or added meanwhile.  The answer of a callback that is
\* still running is not stored yet.
OneToOne ==
  /\ nextIndex = Len(pollables)
  /\ \A i \in 0..(nextIndex - 1) :
       /\ fds[i].fd = FdOf[At(i)]
       /\ fds[i].events = want[At(i)]
  /\ \A i, j \in 1..Len(pollables) : FdOf[pollables[i]] = FdOf[pollables[j]] => i = j

\* While a callback of waitAndProcess() or nx() runs, the iterator is on its
\* pollable or, once that is removed, on a pollable before it: the
\* __pollables[__iter] after the callback is never out of range and never
\* takes another pollable for this one.
IteratorOnCaller ==
  pc = "callback" /\ back # "check" =>
    /\ iter < Len(pollables)
    /\ ~event.removed => iter >= 0 /\ At(iter) = event.pollable

\* remove() keeps loops over the set intact: when waitAndProcess() comes to
\* wait, it has asked every handler that is still there for its mask, and when
\* nx() reports the end, every event of a pollable that is still there has been
\* delivered.
NothingSkipped ==
  /\ pc = "prep" /\ iter >= nextIndex => todo = {}
  /\ pc = "idle" /\ iter = -1 => todo = {}

\* nx() delivers an event of one poll at most once.
NothingRepeated == again = {}
==============================================================================
