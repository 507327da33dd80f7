-------------------------- MODULE EventLoopProofs --------------------------
(***************************************************************************)
(* Machine-checked proofs about the two loops of the event library.        *)
(*                                                                         *)
(* Poller, for an array of any size and no more pollables than it has      *)
(* entries: the pollfd slots stay in step with the list of pollables, the  *)
(* shared iterator is where __callCallback() looks for its pollable, and   *)
(* nx() delivers nothing twice, as long as callbacks remove their own      *)
(* pollable or later ones.                                                 *)
(*                                                                         *)
(* EventManager, for every length of time and any number of scheduled      *)
(* callbacks: each of them is called once, and run() waits for the next.   *)
(*                                                                         *)
(* The two are separate systems here; no theorem is about both.            *)
(***************************************************************************)
EXTENDS Poller, EventManager, FiniteSetTheorems, SequenceTheorems, WellFoundedInduction,
        TLAPS

(***************************************************************************)
(* Poller.                                                                 *)
(***************************************************************************)

\* Callbacks remove their own pollable or later ones, those of checkHandlers()
\* later ones; the user's loop removes anything.
InPlace ==
  {<<"prep", "self">>, <<"prep", "later">>, <<"nx", "self">>, <<"nx", "later">>,
   <<"check", "later">>} \cup ({"idle"} \X Kinds)

\* As above, but the user's loop spares the pollable the iterator is on.
Past == InPlace \ {<<"idle", "next">>}

PollerTypes ==
  /\ pollables \in Seq(Handle)
  /\ nextIndex = Len(pollables)
  /\ nextIndex <= Cardinality(Handle)
  /\ fds \in [Slot -> PollFd]
  /\ callbacks \subseteq Handle
  /\ iter \in Int /\ iter >= -1
  /\ pc \in {"idle", "prep", "nx", "check", "callback"}
  /\ back \in Contexts
  /\ pc = "prep" => iter >= 0
  /\ index \in Nat
  /\ pc = "callback" => event \in PollEvent
  /\ want \in [Handle -> Mask]
  /\ todo \subseteq Handle

\* Each pollable has the slot of its place.
Parallel ==
  \A i \in 1 .. Len(pollables) :
    fds[i - 1].fd = FdOf[pollables[i]] /\ fds[i - 1].events = want[pollables[i]]

\* The descriptors of the pollables differ.
Distinct ==
  \A i, j \in 1 .. Len(pollables) : FdOf[pollables[i]] = FdOf[pollables[j]] => i = j

\* A callback that still has its pollable has it at descriptorIndex, with the mask it was
\* called with; one that has removed it has the iterator before that place and, should
\* it have added it again, the pollable after it.
Calling ==
  pc = "callback" =>
    /\ ~event.removed => /\ event.pollable \in callbacks
                         /\ index < Len(pollables)
                         /\ pollables[index + 1] = event.pollable
                         /\ want[event.pollable] = event.events
    /\ event.removed => \A i \in 1 .. index : pollables[i] # event.pollable
    /\ back # "check" => /\ iter = IF event.removed THEN index - 1 ELSE index
                         /\ iter < Len(pollables)
    /\ back = "check" => ~event.removed

PollerInv == PollerTypes /\ Parallel /\ Distinct /\ Calling

\* Where nx() goes on from.
Onward == IF pc = "callback" /\ back # "check" THEN index + 1 ELSE iter

\* What nx() has still to deliver is in todo.
Undelivered ==
  Onward >= 0 /\ pc # "prep" /\ ~(pc = "callback" /\ back = "prep") =>
    \A i \in 1 .. Len(pollables) :
      i > Onward /\ fds[i - 1].revents => pollables[i] \in todo

DeliveryInv == PollerInv /\ Undelivered /\ NothingRepeated
-----------------------------------------------------------------------------
(* The list, the slots and places in them.                                 *)

\* There are no more pollables than handles.
LEMMA ListBound ==
  ASSUME NEW s \in Seq(Handle), \A i, j \in 1 .. Len(s) : FdOf[s[i]] = FdOf[s[j]] => i = j
  PROVE  Len(s) <= Cardinality(Handle)
<1> DEFINE n == Len(s)
           c == Cardinality(Handle)
<1>1. n \in Nat /\ s \in [1 .. n -> Handle]
  OBVIOUS
<1>2. IsFiniteSet(1 .. n) /\ Cardinality(1 .. n) = n
  <2>1. CASE n = 0
    BY <2>1, FS_EmptySet
  <2>2. CASE n # 0
    BY <1>1, <2>2, FS_Interval
  <2> QED
    BY <2>1, <2>2
<1>3. IsFiniteSet(Handle) /\ c \in Nat
  BY PollerAssumption, FS_CardinalityType
<1>4. \A i, j \in 1 .. n : s[i] = s[j] => i = j
  OBVIOUS
<1> HIDE DEF n
<1>5. ~(c < n)
  BY <1>1, <1>2, <1>3, <1>4, FS_PigeonHole
<1> QED
  BY <1>1, <1>3, <1>5 DEF n

\* The place of a managed handle.
LEMMA PlaceOf ==
  ASSUME PollerTypes, NEW h \in Managed
  PROVE  /\ h \in Handle
         /\ IndexOf(h) \in Nat /\ IndexOf(h) < Len(pollables)
         /\ pollables[IndexOf(h) + 1] = h
<1>1. pollables \in Seq(Handle) /\ DOMAIN pollables = 1 .. Len(pollables) /\ Len(pollables) \in Nat
  BY DEF PollerTypes
<1>2. \E i \in 1 .. Len(pollables) : pollables[i] = h
  BY <1>1 DEF Managed, Seqs!ToSet
<1>3. PICK i \in 1 .. Len(pollables) : pollables[i] = h /\ IndexOf(h) = i - 1
  BY <1>2 DEF IndexOf
<1> QED
  BY <1>1, <1>3

\* One is taken out: those after it move down.
LEMMA RemovedAt ==
  ASSUME NEW S, NEW s \in Seq(S), NEW i \in 1 .. Len(s)
  PROVE  LET r == Seqs!RemoveAt(s, i) IN
         /\ r \in Seq(S) /\ Len(r) = Len(s) - 1
         /\ \A j \in 1 .. i - 1 : r[j] = s[j]
         /\ \A j \in i .. Len(s) - 1 : r[j] = s[j + 1]
<1>1. Len(s) \in Nat /\ i \in Nat /\ i >= 1 /\ i <= Len(s)
  OBVIOUS
<1>2. /\ SubSeq(s, 1, i - 1) \in Seq(S) /\ Len(SubSeq(s, 1, i - 1)) = i - 1
      /\ \A j \in 1 .. i - 1 : SubSeq(s, 1, i - 1)[j] = s[j]
  BY <1>1
<1>3. /\ SubSeq(s, i + 1, Len(s)) \in Seq(S) /\ Len(SubSeq(s, i + 1, Len(s))) = Len(s) - i
      /\ \A j \in 1 .. Len(s) - i : SubSeq(s, i + 1, Len(s))[j] = s[i + j]
  BY <1>1
<1> DEFINE a == SubSeq(s, 1, i - 1)
           b == SubSeq(s, i + 1, Len(s))
           r == Seqs!RemoveAt(s, i)
<1>4. r = a \o b
  BY DEF Seqs!RemoveAt
<1> HIDE DEF a, b, r
<1>5. a \in Seq(S) /\ b \in Seq(S) /\ Len(a) = i - 1 /\ Len(b) = Len(s) - i
  BY <1>2, <1>3 DEF a, b
<1>6. r \in Seq(S) /\ Len(r) = Len(s) - 1
  BY <1>1, <1>4, <1>5
<1>7. \A j \in 1 .. i - 1 : r[j] = a[j]
  BY <1>1, <1>4, <1>5
<1>8. \A j \in i .. Len(s) - 1 : r[j] = b[j - (i - 1)]
  BY <1>1, <1>4, <1>5
<1>9. ASSUME NEW j \in i .. Len(s) - 1 PROVE b[j - (i - 1)] = s[j + 1]
  <2>1. j - (i - 1) \in 1 .. Len(s) - i /\ i + (j - (i - 1)) = j + 1
    BY <1>1
  <2> QED
    BY <1>3, <2>1 DEF b
<1>10. \A j \in 1 .. i - 1 : r[j] = s[j]
  BY <1>2, <1>7 DEF a
<1> QED
  BY <1>6, <1>8, <1>9, <1>10 DEF r

\* There is an entry for every pollable.
LEMMA Entries ==
  /\ Cardinality(Handle) \in Nat /\ Capacity \in Nat
  /\ Cardinality(Handle) <= Capacity
  BY PollerAssumption, HandlesFit, FS_CardinalityType

\* PollSet_next() finds a slot that has an event.
LEMMA LeastReady ==
  ASSUME NEW i, ReadyFrom(i) # {}
  PROVE  Least(ReadyFrom(i)) \in ReadyFrom(i)
<1> DEFINE R == ReadyFrom(i)
           Less == {p \in Nat \X Nat : p[1] < p[2]}
<1>2. R \subseteq Nat
  BY Entries DEF ReadyFrom, Slot
<1> HIDE DEF R
<1>3. IsWellFoundedOn(Less, Nat)
  BY NatLessThanWellFounded, Zenon DEF OpToRel
<1>4. PICK k \in R : \A j \in R : ~(<<j, k>> \in Less)
  <2> HIDE DEF Less
  <2>1. R # {}
    BY DEF R
  <2> QED
    BY <1>2, <1>3, <2>1, WFMin, Zenon
<1>5. \A j \in R : k <= j
  <2> SUFFICES ASSUME NEW j \in R, ~(k <= j) PROVE FALSE
    OBVIOUS
  <2>1. k \in Nat /\ j \in Nat /\ j < k
    BY <1>2
  <2> QED
    BY <1>4, <2>1
<1>6. Least(R) \in R
  BY <1>4, <1>5 DEF Least
<1> QED
  BY <1>6 DEF R

LEMMA SlotsOfPlaces ==
  ASSUME PollerTypes
  PROVE  /\ Cardinality(Handle) \in Nat /\ Len(pollables) \in Nat
         /\ \A i \in 1 .. Len(pollables) : i - 1 \in Slot /\ pollables[i] \in Handle
         /\ \A i \in Slot : i \in Nat /\ (i < nextIndex => i + 1 \in 1 .. Len(pollables))
  BY Entries DEF PollerTypes, Slot
-----------------------------------------------------------------------------
(* The loops.                                                              *)

\* ppoll() and the loops leave the list alone.
LEMMA SameList ==
  ASSUME PollerInv, UNCHANGED <<pollables, want>>,
         \A i \in Slot : fds'[i].fd = fds[i].fd /\ fds'[i].events = fds[i].events
  PROVE  Parallel' /\ Distinct'
  BY SlotsOfPlaces DEF PollerInv, Parallel, Distinct

\* ppoll() only fills in what is ready.
LEMMA PollFacts ==
  ASSUME PollerTypes, Poll
  PROVE  /\ fds' \in [Slot -> PollFd]
         /\ \A i \in Slot : fds'[i].fd = fds[i].fd /\ fds'[i].events = fds[i].events
         /\ todo' \subseteq Handle
         /\ \A i \in 1 .. Len(pollables) : fds'[i - 1].revents => pollables[i] \in todo'
<1>1. PICK ready \in SUBSET {i \in Slot : i < nextIndex} :
        /\ fds' = [i \in Slot |-> IF i < nextIndex
                                    THEN [fds[i] EXCEPT !.revents = i \in ready]
                                    ELSE fds[i]]
        /\ todo' = {At(i) : i \in ready}
  BY DEF Poll
<1>2. fds \in [Slot -> PollFd] /\ pollables \in Seq(Handle) /\ nextIndex = Len(pollables)
  BY DEF PollerTypes
<1>3. ASSUME NEW i \in Slot
      PROVE  /\ fds'[i] \in PollFd
             /\ fds'[i].fd = fds[i].fd /\ fds'[i].events = fds[i].events
             /\ i < nextIndex => fds'[i].revents = (i \in ready)
  <2> DEFINE b == i \in ready
  <2>1. b \in BOOLEAN
    OBVIOUS
  <2>2. fds'[i] = IF i < nextIndex THEN [fds[i] EXCEPT !.revents = b] ELSE fds[i]
    BY <1>1
  <2> HIDE DEF b
  <2>3. /\ fds'[i] \in PollFd
        /\ fds'[i].fd = fds[i].fd /\ fds'[i].events = fds[i].events
        /\ i < nextIndex => fds'[i].revents = b
    BY <1>2, <2>1, <2>2 DEF PollFd
  <2> QED
    BY <2>3 DEF b
<1>4. fds' \in [Slot -> PollFd]
  BY <1>1, <1>3
<1>5. todo' \subseteq Handle
  BY <1>1, <1>2, SlotsOfPlaces DEF At
<1>6. ASSUME NEW i \in 1 .. Len(pollables), fds'[i - 1].revents
      PROVE  pollables[i] \in todo'
  <2>1. i - 1 \in Slot /\ i - 1 < nextIndex /\ (i - 1) + 1 = i
    BY <1>2, SlotsOfPlaces
  <2>2. i - 1 \in ready
    BY <1>3, <1>6, <2>1
  <2>3. At(i - 1) \in todo'
    BY <1>1, <2>2
  <2> QED
    BY <2>1, <2>3 DEF At
<1> QED
  BY <1>3, <1>4, <1>5, <1>6

\* The head of __callCallback(), for the pollable at place i.
LEMMA CallFacts ==
  ASSUME PollerInv, NEW i \in Slot, i < nextIndex, At(i) \in callbacks, NEW loop \in Contexts,
         Call(i, loop)
  PROVE  /\ pc' = "callback" /\ back' = loop /\ index' = i /\ index' \in Nat
         /\ event' \in PollEvent /\ ~event'.removed
         /\ event'.pollable = At(i) /\ At(i) = pollables[i + 1] /\ i < Len(pollables)
         /\ event'.events = want[event'.pollable]
<1>1. /\ PollerTypes /\ Parallel /\ i \in Nat /\ i + 1 \in 1 .. Len(pollables)
      /\ pollables[i + 1] \in Handle /\ i < Len(pollables)
  BY SlotsOfPlaces DEF PollerInv, PollerTypes
<1>2. fds[i] \in PollFd /\ fds[i].events = want[pollables[i + 1]]
  <2>1. (i + 1) - 1 = i
    BY <1>1
  <2> QED
    BY <1>1, <2>1 DEF Parallel, PollerTypes
<1>3. event' = [pollable |-> pollables[i + 1], events |-> fds[i].events, removed |-> FALSE]
  BY DEF Call, At
<1>4. event' \in PollEvent /\ event'.removed = FALSE /\ event'.pollable = pollables[i + 1]
      /\ event'.events = fds[i].events
  BY <1>1, <1>2, <1>3 DEF PollEvent, PollFd
<1> QED
  BY <1>1, <1>2, <1>4 DEF Call, At

\* waitAndProcess(), wait(), nx() and checkHandlers() between callbacks.
LEMMA LoopsKeep ==
  ASSUME PollerInv,
         \/ WaitAndProcess \/ PrepCall \/ PrepPass \/ PrepDone \/ Wait \/ NxNone \/ NxCall
         \/ NxReturn \/ CheckHandlers \/ CheckCall \/ CheckPass \/ CheckDone
  PROVE  PollerInv'
<1>0. PollerTypes /\ Calling /\ nextIndex = Len(pollables)
  BY DEF PollerInv, PollerTypes
<1> DEFINE List == UNCHANGED <<pollables, nextIndex, callbacks, want>>
<1>a. ASSUME List, UNCHANGED fds PROVE Parallel' /\ Distinct'
  BY <1>a DEF PollerInv, Parallel, Distinct
<1>1. CASE WaitAndProcess
  <2>1. /\ List /\ UNCHANGED <<fds, back, index>> /\ pc' = "prep" /\ iter' = 0
        /\ todo' \subseteq Handle
    BY <1>0, <1>1 DEF WaitAndProcess, PollerTypes
  <2>2. PollerTypes' /\ Calling'
    BY <1>0, <2>1 DEF PollerTypes, Calling
  <2> QED
    BY <1>a, <2>1, <2>2 DEF PollerInv
<1>2. CASE PrepPass \/ NxNone \/ CheckHandlers \/ CheckPass \/ CheckDone
  <2>1. /\ List /\ UNCHANGED <<fds, back, todo>> /\ pc' \in {"prep", "idle", "check"}
        /\ iter' \in Int /\ iter' >= -1 /\ (pc' = "prep" => iter' >= 0) /\ index' \in Nat
    BY <1>0, <1>2 DEF PrepPass, NxNone, CheckHandlers, CheckPass, CheckDone, PollerTypes
  <2>2. PollerTypes' /\ Calling'
    BY <1>0, <2>1 DEF PollerTypes, Calling
  <2> QED
    BY <1>a, <2>1, <2>2 DEF PollerInv
<1>3. CASE PrepDone \/ Wait
  <2>1. /\ List /\ UNCHANGED <<back, index>> /\ Poll /\ iter' = 0 /\ pc' \in {"nx", "idle"}
    BY <1>3 DEF PrepDone, Wait
  <2>2. /\ fds' \in [Slot -> PollFd] /\ todo' \subseteq Handle
        /\ \A i \in Slot : fds'[i].fd = fds[i].fd /\ fds'[i].events = fds[i].events
    BY <1>0, <2>1, PollFacts
  <2>3. PollerTypes' /\ Calling'
    BY <1>0, <2>1, <2>2 DEF PollerTypes, Calling
  <2>4. Parallel' /\ Distinct'
    BY <2>1, <2>2, SameList
  <2> QED
    BY <2>3, <2>4 DEF PollerInv
<1>4. ASSUME NEW i \in Slot, i < nextIndex, At(i) \in callbacks, NEW loop \in Contexts,
             Call(i, loop), List, UNCHANGED fds, iter' \in Int, iter' >= -1,
             loop # "check" => iter' = i, todo' \subseteq Handle
      PROVE  PollerInv'
  <2>1. /\ pc' = "callback" /\ back' = loop /\ index' = i /\ index' \in Nat
        /\ event' \in PollEvent /\ ~event'.removed
        /\ event'.pollable = At(i) /\ At(i) = pollables[i + 1] /\ i < Len(pollables)
        /\ event'.events = want[event'.pollable]
    BY <1>4, CallFacts
  <2>2. PollerTypes'
    BY <1>0, <1>4, <2>1 DEF PollerTypes
  <2>3. Calling'
    BY <1>4, <2>1 DEF Calling
  <2> QED
    BY <1>4, <1>a, <2>2, <2>3 DEF PollerInv
<1>5. CASE PrepCall
  <2>1. /\ iter < nextIndex /\ At(iter) \in callbacks /\ Call(iter, "prep") /\ List
        /\ UNCHANGED <<fds, iter>> /\ todo' \subseteq Handle /\ iter \in Int /\ iter >= 0
    BY <1>0, <1>5 DEF PrepCall, PollerTypes
  <2>2. iter \in Slot
    BY <1>0, <2>1, SlotsOfPlaces, Entries DEF PollerTypes, Slot
  <2> QED
    BY <1>4, <2>1, <2>2 DEF Contexts
<1>6. CASE CheckCall
  <2>1. /\ index < nextIndex /\ At(index) \in callbacks /\ Call(index, "check") /\ List
        /\ UNCHANGED <<fds, iter, todo>> /\ index \in Nat
    BY <1>0, <1>6 DEF CheckCall, PollerTypes
  <2>2. index \in Slot
    BY <1>0, <2>1, SlotsOfPlaces, Entries DEF PollerTypes, Slot
  <2>3. iter' \in Int /\ iter' >= -1 /\ todo' \subseteq Handle
    BY <1>0, <2>1 DEF PollerTypes
  <2> QED
    BY <1>4, <2>1, <2>2, <2>3 DEF Contexts
<1>7. CASE NxCall \/ NxReturn
  <2> DEFINE k == Least(ReadyFrom(iter))
  <2>1. /\ ReadyFrom(iter) # {} /\ pc \in {"idle", "nx"} /\ List /\ UNCHANGED fds
        /\ todo' \subseteq Handle
        /\ \/ At(k) \in callbacks /\ Call(k, pc) /\ iter' = k
           \/ iter' = k + 1 /\ UNCHANGED <<pc, back, index>>
    BY <1>0, <1>7 DEF NxCall, NxReturn, PollerTypes
  <2>2. k \in ReadyFrom(iter)
    BY <2>1, LeastReady
  <2> HIDE DEF k
  <2>3. k \in Slot /\ k < nextIndex /\ k \in Nat
    BY <1>0, <2>2, SlotsOfPlaces DEF ReadyFrom
  <2>4. CASE At(k) \in callbacks /\ Call(k, pc) /\ iter' = k
    <3>1. pc \in Contexts
      BY <2>1 DEF Contexts
    <3> QED
      BY <1>4, <2>1, <2>3, <2>4, <3>1
  <2>5. CASE iter' = k + 1 /\ UNCHANGED <<pc, back, index>>
    <3>1. PollerTypes' /\ Calling'
      BY <1>0, <2>1, <2>3, <2>5 DEF PollerTypes, Calling
    <3> QED
      BY <1>a, <2>1, <3>1 DEF PollerInv
  <2> QED
    BY <2>1, <2>4, <2>5
<1> QED
  BY <1>1, <1>2, <1>3, <1>5, <1>6, <1>7
-----------------------------------------------------------------------------
(* What user code does, between the calls of nx() or in a callback.        *)

LEMMA EntryFacts ==
  ASSUME NEW h \in Handle, NEW m \in Mask
  PROVE  /\ Entry(h, m) \in PollFd
         /\ Entry(h, m).fd = FdOf[h] /\ Entry(h, m).events = m /\ Entry(h, m).revents = FALSE
  BY PollerAssumption DEF Entry, PollFd

\* add(): the new pollable and its slot are the last ones.
LEMMA AddKeeps ==
  ASSUME PollerInv, NEW h \in Handle, NEW m \in Mask, AddEntry(h, m),
         callbacks' = callbacks \/ callbacks' = callbacks \cup {h}
  PROVE  /\ PollerInv'
         /\ Len(pollables') = Len(pollables) + 1
         /\ \A i \in 1 .. Len(pollables) :
              pollables'[i] = pollables[i] /\ fds'[i - 1] = fds[i - 1]
         /\ fds'[Len(pollables)].revents = FALSE
<1> DEFINE n == Len(pollables)
           e == Entry(h, m)
<1>0. /\ PollerTypes /\ Parallel /\ Distinct /\ Calling /\ pollables \in Seq(Handle) /\ n \in Nat
      /\ nextIndex = n
  BY DEF PollerInv, PollerTypes
<1>1. /\ \A g \in Managed : FdOf[g] # FdOf[h]
      /\ pollables' = Append(pollables, h)
      /\ fds' = [fds EXCEPT ![n] = e] /\ nextIndex' = n + 1
      /\ want' = [want EXCEPT ![h] = m]
      /\ UNCHANGED <<iter, pc, back, index, event, todo>>
  BY <1>0 DEF AddEntry
<1>2. e \in PollFd /\ e.fd = FdOf[h] /\ e.events = m /\ e.revents = FALSE
  BY EntryFacts
<1> HIDE DEF e
<1>3. /\ pollables' \in Seq(Handle) /\ Len(pollables') = n + 1 /\ pollables'[n + 1] = h
      /\ \A i \in 1 .. n : pollables'[i] = pollables[i]
  BY <1>0, <1>1
<1>4. \A i \in 1 .. n : pollables[i] \in Managed /\ pollables[i] \in Handle
  BY <1>0 DEF Managed, Seqs!ToSet
<1> HIDE DEF n
<1>5. \A i, j \in 1 .. Len(pollables') : FdOf[pollables'[i]] = FdOf[pollables'[j]] => i = j
  <2> SUFFICES ASSUME NEW i \in 1 .. n + 1, NEW j \in 1 .. n + 1,
                      FdOf[pollables'[i]] = FdOf[pollables'[j]]
               PROVE  i = j
    BY <1>3
  <2>1. CASE i \in 1 .. n /\ j \in 1 .. n
    BY <1>0, <1>3, <2>1 DEF Distinct, n
  <2>2. CASE i = n + 1 /\ j = n + 1
    BY <2>2
  <2>3. CASE i \in 1 .. n /\ j = n + 1
    BY <1>1, <1>3, <1>4, <2>3
  <2>4. CASE i = n + 1 /\ j \in 1 .. n
    BY <1>1, <1>3, <1>4, <2>4
  <2> QED
    BY <1>0, <2>1, <2>2, <2>3, <2>4
<1>6. Len(pollables') <= Cardinality(Handle) /\ Cardinality(Handle) \in Nat
  BY <1>0, <1>3, <1>5, ListBound, SlotsOfPlaces
<1>7. n \in Slot /\ \A i \in 1 .. n : i - 1 \in Slot /\ i - 1 # n
  BY <1>0, <1>3, <1>6, Entries DEF Slot
<1>8. fds' \in [Slot -> PollFd] /\ fds'[n] = e /\ \A i \in 1 .. n : fds'[i - 1] = fds[i - 1]
  BY <1>0, <1>1, <1>2, <1>7 DEF PollerTypes
<1>9. /\ want' \in [Handle -> Mask] /\ want'[h] = m /\ \A g \in Handle : g # h => want'[g] = want[g]
  BY <1>0, <1>1 DEF PollerTypes
<1>10. \A i \in 1 .. n : pollables[i] # h
  BY <1>1, <1>4
<1>11. PollerTypes'
  BY <1>0, <1>1, <1>3, <1>6, <1>8, <1>9 DEF PollerTypes
<1>12. Parallel'
  <2> SUFFICES ASSUME NEW i \in 1 .. n + 1
               PROVE  /\ fds'[i - 1].fd = FdOf[pollables'[i]]
                      /\ fds'[i - 1].events = want'[pollables'[i]]
    BY <1>3 DEF Parallel
  <2>1. CASE i \in 1 .. n
    BY <1>0, <1>3, <1>4, <1>8, <1>9, <1>10, <2>1 DEF Parallel, n
  <2>2. CASE i = n + 1
    <3>1. i - 1 = n
      BY <1>0, <2>2
    <3> QED
      BY <1>2, <1>3, <1>8, <1>9, <2>2, <3>1
  <2> QED
    BY <1>0, <2>1, <2>2
<1>13. Distinct'
  BY <1>5 DEF Distinct
<1>14. Calling'
  <2> SUFFICES ASSUME pc = "callback" PROVE Calling'
    BY <1>1 DEF Calling
  <2>1. event' = event /\ event \in PollEvent /\ index \in Nat /\ iter \in Int
    BY <1>0, <1>1 DEF PollerTypes
  <2>2. ~event.removed => /\ event.pollable \in callbacks'
                          /\ index < Len(pollables')
                          /\ pollables'[index + 1] = event.pollable
                          /\ want'[event.pollable] = event.events
    <3> SUFFICES ASSUME ~event.removed
                 PROVE  /\ event.pollable \in callbacks'
                        /\ index < Len(pollables')
                        /\ pollables'[index + 1] = event.pollable
                        /\ want'[event.pollable] = event.events
      OBVIOUS
    <3>1. /\ event.pollable \in callbacks /\ index < n /\ pollables[index + 1] = event.pollable
          /\ want[event.pollable] = event.events
      BY <1>0 DEF Calling, n
    <3>2. index + 1 \in 1 .. n
      BY <1>0, <2>1, <3>1
    <3>3. event.pollable \in Handle /\ event.pollable # h
      BY <1>4, <1>10, <3>1, <3>2
    <3> QED
      BY <1>0, <1>3, <1>9, <2>1, <3>1, <3>2, <3>3
  <2>3. back # "check" => iter < Len(pollables')
    BY <1>0, <1>3, <2>1 DEF Calling, n
  <2>4. event.removed => \A i \in 1 .. index : pollables'[i] # event.pollable
    <3> SUFFICES ASSUME event.removed, NEW i \in 1 .. index PROVE pollables'[i] # event.pollable
      OBVIOUS
    <3>1. iter = index - 1 /\ iter < n /\ pollables[i] # event.pollable
      BY <1>0 DEF Calling, n
    <3>2. i \in 1 .. n
      BY <1>0, <2>1, <3>1
    <3> QED
      BY <1>3, <3>1, <3>2
  <2> QED
    BY <1>0, <1>1, <2>1, <2>2, <2>3, <2>4 DEF Calling
<1> QED
  BY <1>2, <1>3, <1>8, <1>11, <1>12, <1>13, <1>14 DEF PollerInv, n

\* setEvents(): a pollable without a handler gets another mask.
LEMMA SetEventsKeeps ==
  ASSUME PollerInv, NEW h \in Handle, NEW m \in Mask, SetEvents(h, m)
  PROVE  /\ PollerInv'
         /\ fds'[IndexOf(h)].revents = FALSE
         /\ \A i \in Slot : i # IndexOf(h) => fds'[i] = fds[i]
<1> DEFINE k == IndexOf(h)
           e == Entry(h, m)
           n == Len(pollables)
<1>0. /\ PollerTypes /\ Parallel /\ Distinct /\ Calling /\ pollables \in Seq(Handle) /\ n \in Nat
  BY DEF PollerInv, PollerTypes
<1>1. /\ h \in Managed /\ h \notin callbacks
      /\ fds' = [fds EXCEPT ![k] = e] /\ want' = [want EXCEPT ![h] = m] /\ todo' \subseteq todo
      /\ UNCHANGED <<pollables, nextIndex, callbacks, iter, pc, back, index, event>>
  BY DEF SetEvents
<1>2. e \in PollFd /\ e.fd = FdOf[h] /\ e.events = m /\ e.revents = FALSE
  BY EntryFacts
<1>3. k \in Nat /\ k < n /\ pollables[k + 1] = h
  BY <1>0, <1>1, PlaceOf
<1> HIDE DEF e, k, n
<1>4. /\ \A i \in 1 .. n : i - 1 \in Slot /\ pollables[i] \in Handle /\ (pollables[i] = h => i = k + 1)
      /\ k + 1 \in 1 .. n /\ k \in Slot
  <2>1. k + 1 \in 1 .. n /\ (k + 1) - 1 = k
    BY <1>0, <1>3
  <2>2. \A i \in 1 .. n : i - 1 \in Slot /\ pollables[i] \in Handle
    BY <1>0, SlotsOfPlaces DEF n
  <2>3. \A i \in 1 .. n : pollables[i] = h => i = k + 1
    BY <1>0, <1>3, <2>1 DEF Distinct, n
  <2> QED
    BY <2>1, <2>2, <2>3
<1>5. fds' \in [Slot -> PollFd] /\ fds'[k] = e /\ \A i \in Slot : i # k => fds'[i] = fds[i]
  BY <1>0, <1>1, <1>2, <1>4 DEF PollerTypes
<1>6. want' \in [Handle -> Mask] /\ want'[h] = m /\ \A g \in Handle : g # h => want'[g] = want[g]
  BY <1>0, <1>1 DEF PollerTypes
<1>7. PollerTypes' /\ Distinct'
  BY <1>0, <1>1, <1>5, <1>6 DEF PollerTypes, Distinct
<1>8. Parallel'
  <2> SUFFICES ASSUME NEW i \in 1 .. n
               PROVE  /\ fds'[i - 1].fd = FdOf[pollables[i]]
                      /\ fds'[i - 1].events = want'[pollables[i]]
    BY <1>1 DEF Parallel, n
  <2>1. CASE i = k + 1
    <3>1. i - 1 = k
      BY <1>3, <2>1
    <3> QED
      BY <1>2, <1>3, <1>5, <1>6, <2>1, <3>1
  <2>2. CASE i # k + 1
    <3>1. i - 1 # k /\ pollables[i] # h
      BY <1>0, <1>3, <1>4, <2>2
    <3> QED
      BY <1>0, <1>4, <1>5, <1>6, <3>1 DEF Parallel, n
  <2> QED
    BY <2>1, <2>2
<1>9. Calling'
  <2> SUFFICES ASSUME pc = "callback", ~event.removed PROVE want'[event.pollable] = event.events
    BY <1>0, <1>1 DEF Calling
  <2>1. event.pollable \in callbacks /\ want[event.pollable] = event.events
    BY <1>0 DEF Calling
  <2>2. event.pollable \in Handle /\ event.pollable # h
    BY <1>0, <1>1, <2>1 DEF PollerTypes
  <2> QED
    BY <1>6, <2>1, <2>2
<1> QED
  BY <1>2, <1>5, <1>7, <1>8, <1>9 DEF PollerInv, k

\* The callback returns a mask: it goes to the slot of its own pollable or nowhere.
LEMMA ReturnKeeps ==
  ASSUME PollerInv, NEW m \in Mask, CallbackReturns(m)
  PROVE  /\ PollerInv'
         /\ \A i \in Slot : fds'[i] = fds[i] \/ (i = index /\ fds'[i].revents = FALSE)
<1> DEFINE h == event.pollable
           e == Entry(event.pollable, m)
           n == Len(pollables)
           stores == \/ back = "check"
                     \/ m # event.events /\ iter >= 0 /\ At(iter) = event.pollable
<1>0. /\ PollerTypes /\ Parallel /\ Distinct /\ Calling /\ pollables \in Seq(Handle) /\ n \in Nat
      /\ index \in Nat /\ iter \in Int
  BY DEF PollerInv, PollerTypes
<1>1. /\ pc = "callback" /\ fds' = IF stores THEN [fds EXCEPT ![index] = e] ELSE fds
      /\ want' = IF event.removed THEN want ELSE [want EXCEPT ![h] = m]
      /\ iter' = IF back = "check" THEN iter ELSE index + 1
      /\ index' = IF back = "check" THEN index + 1 ELSE 0
      /\ back' = "idle" /\ pc' = back
      /\ todo' \subseteq todo
      /\ UNCHANGED <<pollables, nextIndex, callbacks>>
  BY DEF CallbackReturns
<1>2. event \in PollEvent /\ h \in Handle
  BY <1>0, <1>1 DEF PollerTypes, PollEvent
<1>3. e \in PollFd /\ e.fd = FdOf[h] /\ e.events = m /\ e.revents = FALSE
  BY <1>2, EntryFacts
<1>4. /\ \A i \in 1 .. n : i - 1 \in Slot /\ pollables[i] \in Handle
      /\ Cardinality(Handle) \in Nat /\ n <= Cardinality(Handle)
  BY <1>0, SlotsOfPlaces DEF PollerTypes
<1>5. ~event.removed => /\ index < n /\ pollables[index + 1] = h /\ index \in Slot
                        /\ \A i \in 1 .. n : pollables[i] = h => i = index + 1
  <2> SUFFICES ASSUME ~event.removed
               PROVE  /\ index < n /\ pollables[index + 1] = h /\ index \in Slot
                      /\ \A i \in 1 .. n : pollables[i] = h => i = index + 1
    OBVIOUS
  <2>1. index < n /\ pollables[index + 1] = h
    BY <1>0, <1>1 DEF Calling
  <2>2. index + 1 \in 1 .. n /\ index \in Slot
    BY <1>0, <1>4, <2>1, Entries DEF Slot
  <2>3. \A i \in 1 .. n : pollables[i] = h => i = index + 1
    BY <1>0, <2>1, <2>2 DEF Distinct
  <2> QED
    BY <2>1, <2>2, <2>3
<1> HIDE DEF e, h, n, stores
<1>6. fds' \in [Slot -> PollFd] /\ \A i \in Slot : fds'[i] = fds[i] \/ (i = index /\ fds'[i] = e)
  <2>1. CASE stores
    <3>1. fds' = [fds EXCEPT ![index] = e] /\ fds \in [Slot -> PollFd]
      BY <1>0, <1>1, <2>1 DEF PollerTypes
    <3> QED
      BY <1>3, <3>1
  <2>2. CASE ~stores
    BY <1>0, <1>1, <2>2 DEF PollerTypes
  <2> QED
    BY <2>1, <2>2
<1>7. want' \in [Handle -> Mask] /\ \A g \in Handle : g # h => want'[g] = want[g]
  BY <1>0, <1>1, <1>2 DEF PollerTypes
<1>8. PollerTypes'
  <2>1. pc' # "callback" /\ pc' \in {"idle", "prep", "nx", "check"} /\ back' \in Contexts
    BY <1>0, <1>1 DEF PollerTypes, Contexts
  <2>2. iter' \in Int /\ iter' >= -1 /\ (pc' = "prep" => iter' >= 0) /\ index' \in Nat
    BY <1>0, <1>1 DEF PollerTypes
  <2> QED
    BY <1>0, <1>1, <1>6, <1>7, <2>1, <2>2 DEF PollerTypes
<1>9. Distinct' /\ Calling'
  BY <1>0, <1>1 DEF Distinct, Calling, PollerTypes, Contexts
<1>10. Parallel'
  <2> SUFFICES ASSUME NEW i \in 1 .. n
               PROVE  /\ fds'[i - 1].fd = FdOf[pollables[i]]
                      /\ fds'[i - 1].events = want'[pollables[i]]
    BY <1>1 DEF Parallel, n
  <2>0. /\ i - 1 \in Slot /\ pollables[i] \in Handle
        /\ fds[i - 1].fd = FdOf[pollables[i]] /\ fds[i - 1].events = want[pollables[i]]
    BY <1>0, <1>4 DEF Parallel, n
  <2>1. CASE event.removed
    <3>1. back # "check" /\ iter = index - 1 /\ iter < n
      BY <1>0, <1>1, <2>1 DEF Calling, n
    <3>2. want' = want
      BY <1>1, <2>1
    <3>3. CASE ~stores
      BY <1>1, <2>0, <3>2, <3>3
    <3>4. CASE stores /\ i = index + 1
      \* The handle was added again; the iterator is before its place.
      <4>1. iter >= 0 /\ pollables[iter + 1] = event.pollable
        BY <3>1, <3>4 DEF stores, At
      <4>2. iter + 1 \in 1 .. index
        BY <1>0, <3>1, <4>1
      <4> QED
        BY <1>0, <1>1, <2>1, <4>1, <4>2 DEF Calling
    <3>5. CASE stores /\ i # index + 1
      BY <1>0, <1>6, <2>0, <3>2, <3>5
    <3> QED
      BY <3>3, <3>4, <3>5
  <2>2. CASE ~event.removed
    <3>1. want'[h] = m /\ index \in Slot /\ pollables[index + 1] = h /\ want[h] = event.events
      BY <1>0, <1>1, <1>2, <1>5, <2>2 DEF Calling, PollerTypes, h
    <3>2. CASE i # index + 1
      <4>1. i - 1 # index /\ pollables[i] # h
        BY <1>0, <1>5, <2>2, <3>2
      <4> QED
        BY <1>6, <1>7, <2>0, <4>1
    <3>3. CASE i = index + 1
      <4>1. i - 1 = index /\ pollables[i] = h
        BY <1>0, <3>1, <3>3
      <4>2. CASE stores
        <5>1. fds'[i - 1] = e
          BY <1>0, <1>1, <3>1, <4>1, <4>2 DEF PollerTypes
        <5> QED
          BY <1>3, <3>1, <4>1, <5>1
      <4>3. CASE ~stores
        <5>1. back # "check" /\ iter = index /\ iter >= 0 /\ At(iter) = event.pollable
          BY <1>0, <1>1, <2>2, <3>1, <4>3 DEF Calling, stores, At, h
        <5>2. m = event.events
          BY <4>3, <5>1 DEF stores
        <5> QED
          BY <1>1, <2>0, <3>1, <4>1, <4>3, <5>2
      <4> QED
        BY <4>2, <4>3
    <3> QED
      BY <3>2, <3>3
  <2> QED
    BY <2>1, <2>2
<1> QED
  BY <1>3, <1>6, <1>8, <1>9, <1>10 DEF PollerInv
\* What the hypotheses on the removals say of the place that is removed.
LEMMA RemovalPlace ==
  ASSUME May \subseteq InPlace, NEW h \in Handle, UserCode, <<Context, Kind(h)>> \in May,
         PollerTypes, IndexOf(h) \in Nat
  PROVE  /\ pc = "callback" /\ back # "check" =>
              (h = event.pollable /\ ~event.removed) \/ IndexOf(h) > iter
         /\ pc = "callback" /\ back = "check" => IndexOf(h) > index /\ iter # IndexOf(h)
         /\ pc = "idle" /\ May \subseteq Past => iter # IndexOf(h)
<1> DEFINE i == IndexOf(h)
           k == Kind(h)
           c == Context
<1>0. i \in Nat /\ index \in Nat /\ iter \in Int /\ pc \in {"idle", "callback"} /\ back \in Contexts
  BY DEF PollerTypes, UserCode
<1>1. <<c, k>> \in InPlace /\ (May \subseteq Past => <<c, k>> # <<"idle", "next">>)
  BY DEF Past
<1> HIDE DEF k, c, i
<1>2. /\ c = "check" => k = "later"
      /\ c \in {"prep", "nx"} => k \in {"self", "later"}
      /\ May \subseteq Past => ~(c = "idle" /\ k = "next")
  BY <1>1 DEF InPlace
<1>3. c = IF pc = "idle" THEN "idle" ELSE IF back = "idle" THEN "nx" ELSE back
  BY DEF c, Context
<1> DEFINE at == IF c = "check" THEN index ELSE iter
           own == c # "idle" /\ h = event.pollable /\ ~event.removed
           next == c \in {"idle", "check"} /\ iter = i
<1>4. k = IF next THEN "next" ELSE IF own THEN "self"
          ELSE IF i < at \/ (i = at /\ c # "idle") THEN "earlier" ELSE "later"
  BY DEF k, Kind, c, i
<1>5. CASE pc = "idle"
  <2>1. c = "idle"
    BY <1>3, <1>5
  <2> QED
    BY <1>2, <1>4, <1>5, <2>1 DEF i
<1>6. CASE pc = "callback" /\ back = "check"
  <2>1. c = "check" /\ k = "later"
    BY <1>2, <1>3, <1>6
  <2>2. ~next /\ ~(i < index) /\ i # index
    BY <1>4, <2>1
  <2> QED
    BY <1>0, <1>6, <2>1, <2>2 DEF i
<1>7. CASE pc = "callback" /\ back # "check"
  <2>1. c \in {"prep", "nx"} /\ k \in {"self", "later"}
    BY <1>0, <1>2, <1>3, <1>7 DEF Contexts
  <2>2. CASE k = "self"
    BY <1>4, <1>7, <2>1, <2>2
  <2>3. CASE k = "later"
    <3>1. ~(i < iter) /\ i # iter
      BY <1>4, <2>1, <2>3
    <3> QED
      BY <1>0, <1>7, <3>1 DEF i
  <2> QED
    BY <2>1, <2>2, <2>3
<1> QED
  BY <1>0, <1>5, <1>6, <1>7

\* remove(): the list and the slots close up alike.
LEMMA RemovedPlaces ==
  ASSUME PollerInv, NEW h \in Handle, Remove(h)
  PROVE  LET p == IndexOf(h) + 1 IN
         /\ p \in 1 .. Len(pollables) /\ pollables[p] = h
         /\ pollables' \in Seq(Handle) /\ Len(pollables') = Len(pollables) - 1
         /\ fds' \in [Slot -> PollFd]
         /\ \A j \in 1 .. Len(pollables') :
              \E n \in 1 .. Len(pollables) : /\ n = IF j < p THEN j ELSE j + 1
                                             /\ pollables'[j] = pollables[n]
                                             /\ fds'[j - 1] = fds[n - 1]
<1> DEFINE i == IndexOf(h)
           p == IndexOf(h) + 1
           n == Len(pollables)
<1>0. /\ PollerTypes /\ pollables \in Seq(Handle) /\ n \in Nat /\ nextIndex = n
      /\ n <= Cardinality(Handle) /\ Cardinality(Handle) \in Nat /\ fds \in [Slot -> PollFd]
  BY SlotsOfPlaces DEF PollerInv, PollerTypes
<1>1. /\ h \in Managed
      /\ pollables' = Seqs!RemoveAt(pollables, p)
      /\ fds' = DeleteSlot(fds, n, i)
  BY <1>0 DEF Remove
<1>2. i \in Nat /\ i < n /\ pollables[p] = h
  BY <1>0, <1>1, PlaceOf
<1> HIDE DEF i
<1>3. p = i + 1 /\ p \in 1 .. n
  BY <1>0, <1>2 DEF i
<1> HIDE DEF p
<1>4. /\ pollables' \in Seq(Handle) /\ Len(pollables') = n - 1
      /\ \A j \in 1 .. p - 1 : pollables'[j] = pollables[j]
      /\ \A j \in p .. n - 1 : pollables'[j] = pollables[j + 1]
  BY <1>0, <1>1, <1>3, RemovedAt
<1>5. fds' = [j \in Slot |-> IF j >= i /\ j < n - 1 THEN fds[j + 1] ELSE fds[j]]
  BY <1>1 DEF DeleteSlot
<1> HIDE DEF n
<1>6. fds' \in [Slot -> PollFd]
  <2>1. \A j \in Slot : j < n - 1 => j + 1 \in Slot
    BY <1>0, Entries DEF Slot
  <2> QED
    BY <1>0, <1>5, <2>1
<1>7. ASSUME NEW j \in 1 .. n - 1
      PROVE  \E q \in 1 .. n : /\ q = IF j < p THEN j ELSE j + 1
                               /\ pollables'[j] = pollables[q]
                               /\ fds'[j - 1] = fds[q - 1]
  <2>0. j - 1 \in Slot /\ (j - 1) + 1 = j /\ (j + 1) - 1 = j /\ j - 1 < n - 1
    BY <1>0, Entries DEF Slot
  <2>1. CASE j < p
    <3>1. ~(j - 1 >= i) /\ j \in 1 .. p - 1 /\ j \in 1 .. n
      BY <1>0, <1>2, <1>3, <2>1
    <3> QED
      BY <1>4, <1>5, <2>0, <2>1, <3>1
  <2>2. CASE ~(j < p)
    <3>1. j - 1 >= i /\ j \in p .. n - 1 /\ j + 1 \in 1 .. n
      BY <1>0, <1>2, <1>3, <2>2
    <3> QED
      BY <1>4, <1>5, <2>0, <2>2, <3>1
  <2> QED
    BY <2>1, <2>2
<1> QED
  BY <1>2, <1>3, <1>4, <1>6, <1>7 DEF p, n

LEMMA RemoveKeeps ==
  ASSUME PollerInv, May \subseteq InPlace, NEW h \in Handle, Remove(h)
  PROVE  PollerInv'
<1> DEFINE i == IndexOf(h)
           p == IndexOf(h) + 1
           n == Len(pollables)
<1>0. /\ PollerTypes /\ Parallel /\ Distinct /\ Calling /\ n \in Nat
      /\ n <= Cardinality(Handle) /\ Cardinality(Handle) \in Nat
      /\ iter \in Int /\ index \in Nat /\ iter >= -1
  BY SlotsOfPlaces DEF PollerInv, PollerTypes
<1>1. /\ UserCode /\ h \in Managed /\ <<Context, Kind(h)>> \in May
      /\ callbacks' = callbacks \ {h} /\ nextIndex' = nextIndex - 1
      /\ iter' = IF iter >= i THEN iter - 1 ELSE iter
      /\ event' = IF pc = "callback" /\ h = event.pollable
                  THEN [event EXCEPT !.removed = TRUE] ELSE event
      /\ want' = [want EXCEPT ![h] = Zero]
      /\ todo' = todo \ {h}
      /\ UNCHANGED <<pc, back, index>>
  BY DEF Remove
<1>2. /\ p \in 1 .. n /\ pollables[p] = h
      /\ pollables' \in Seq(Handle) /\ Len(pollables') = n - 1
      /\ fds' \in [Slot -> PollFd]
      /\ \A j \in 1 .. n - 1 :
           \E q \in 1 .. n : /\ q = IF j < p THEN j ELSE j + 1
                             /\ pollables'[j] = pollables[q]
                             /\ fds'[j - 1] = fds[q - 1]
  BY RemovedPlaces
<1>3. i \in Nat /\ i < n /\ p = i + 1
  BY <1>0, <1>1, PlaceOf
<1>4. /\ pc = "callback" /\ back # "check" => (h = event.pollable /\ ~event.removed) \/ i > iter
      /\ pc = "callback" /\ back = "check" => i > index /\ iter # i
  BY <1>0, <1>1, <1>3, RemovalPlace
<1>5. \A j \in 1 .. n : pollables[j] \in Handle /\ (pollables[j] = h => j = p)
  BY <1>0, <1>2, SlotsOfPlaces DEF Distinct
<1> HIDE DEF i, p, n
<1>6. want' \in [Handle -> Mask] /\ \A g \in Handle : g # h => want'[g] = want[g]
  BY <1>0, <1>1, PollerAssumption DEF PollerTypes
<1>7. PollerTypes'
  <2>1. pc = "callback" => event' \in PollEvent
    <3> DEFINE r == [event EXCEPT !.removed = TRUE]
    <3>1. pc = "callback" => event \in PollEvent
      BY <1>0 DEF PollerTypes
    <3>2. event \in PollEvent => r \in PollEvent
      BY DEF PollEvent
    <3> HIDE DEF r
    <3>3. event' = event \/ event' = r
      BY <1>1 DEF r
    <3> QED
      BY <3>1, <3>2, <3>3
  <2>2. iter' \in Int /\ iter' >= -1 /\ pc # "prep"
    BY <1>0, <1>1, <1>3 DEF UserCode
  <2>3. nextIndex' = Len(pollables') /\ nextIndex' <= Cardinality(Handle)
    BY <1>0, <1>1, <1>2 DEF PollerTypes, n
  <2> QED
    BY <1>0, <1>1, <1>2, <1>6, <2>1, <2>2, <2>3 DEF PollerTypes
<1>8. Parallel'
  <2> SUFFICES ASSUME NEW j \in 1 .. n - 1
               PROVE  /\ fds'[j - 1].fd = FdOf[pollables'[j]]
                      /\ fds'[j - 1].events = want'[pollables'[j]]
    BY <1>2 DEF Parallel
  <2>1. PICK q \in 1 .. n : /\ q = IF j < p THEN j ELSE j + 1
                            /\ pollables'[j] = pollables[q]
                            /\ fds'[j - 1] = fds[q - 1]
    BY <1>2
  <2>2. pollables[q] # h /\ pollables[q] \in Handle
    BY <1>0, <1>2, <1>5, <2>1
  <2>3. fds[q - 1].fd = FdOf[pollables[q]] /\ fds[q - 1].events = want[pollables[q]]
    BY <1>0 DEF Parallel, n
  <2> QED
    BY <1>6, <2>1, <2>2, <2>3
<1>9. Distinct'
  <2> SUFFICES ASSUME NEW j \in 1 .. n - 1, NEW k \in 1 .. n - 1,
                      FdOf[pollables'[j]] = FdOf[pollables'[k]]
               PROVE  j = k
    BY <1>2 DEF Distinct
  <2>1. PICK q \in 1 .. n : q = (IF j < p THEN j ELSE j + 1) /\ pollables'[j] = pollables[q]
    BY <1>2
  <2>2. PICK r \in 1 .. n : r = (IF k < p THEN k ELSE k + 1) /\ pollables'[k] = pollables[r]
    BY <1>2
  <2>3. q = r
    BY <1>0, <2>1, <2>2 DEF Distinct, n
  <2> QED
    BY <1>0, <1>2, <2>1, <2>2, <2>3
<1>10. Calling'
  <2> SUFFICES ASSUME pc = "callback" PROVE Calling'
    BY <1>1 DEF Calling
  <2>0. event \in PollEvent
    BY <1>0 DEF PollerTypes
  <2>1. CASE h = event.pollable /\ ~event.removed
    <3>1. /\ index < n /\ pollables[index + 1] = h
      BY <1>0, <2>1 DEF Calling, n
    <3>2. index + 1 = p /\ index = i
      BY <1>0, <1>3, <1>5, <3>1
    <3>3. back # "check"
      BY <1>0, <1>4, <3>2
    <3>4. /\ event'.removed /\ event'.pollable = h
      BY <1>1, <2>0, <2>1 DEF PollEvent
    <3>5. iter' = index - 1 /\ iter' < Len(pollables')
      BY <1>0, <1>1, <1>2, <1>3, <2>1, <3>2, <3>3 DEF Calling
    <3>6. \A j \in 1 .. index : pollables'[j] # h
      <4> SUFFICES ASSUME NEW j \in 1 .. index PROVE pollables'[j] # h
        OBVIOUS
      <4>1. j \in 1 .. n - 1 /\ j < p
        BY <1>0, <1>3, <3>2
      <4>2. PICK q \in 1 .. n : q = (IF j < p THEN j ELSE j + 1) /\ pollables'[j] = pollables[q]
        BY <1>2, <4>1
      <4> QED
        BY <1>0, <1>2, <1>5, <4>1, <4>2
    <3> QED
      BY <1>1, <3>3, <3>4, <3>5, <3>6 DEF Calling
  <2>2. CASE ~(h = event.pollable /\ ~event.removed)
    <3>1. back # "check" => i > iter
      BY <1>4, <2>2
    <3>2. back = "check" => i > index /\ ~event.removed
      BY <1>0, <1>4 DEF Calling
    <3>3. back # "check" => iter' = iter /\ iter < n - 1
      BY <1>0, <1>1, <1>3, <3>1
    <3>4. event'.removed = event.removed /\ event'.pollable = event.pollable
          /\ event'.events = event.events
      <4>1. CASE h = event.pollable
        <5>1. event.removed = TRUE /\ event' = [event EXCEPT !.removed = TRUE]
          BY <1>1, <2>0, <2>2, <4>1 DEF PollEvent
        <5> QED
          BY <2>0, <5>1 DEF PollEvent
      <4>2. CASE h # event.pollable
        BY <1>1, <4>2
      <4> QED
        BY <4>1, <4>2
    <3>5. ASSUME NEW j \in 1 .. n - 1, j <= i PROVE pollables'[j] = pollables[j]
      <4>1. j < p
        BY <1>0, <1>3, <3>5
      <4> QED
        BY <1>2, <4>1
    <3>6. CASE event.removed
      <4>1. back # "check" /\ iter = index - 1 /\ \A j \in 1 .. index : pollables[j] # event.pollable
        BY <1>0, <3>2, <3>6 DEF Calling
      <4>2. \A j \in 1 .. index : j \in 1 .. n - 1 /\ j <= i
        BY <1>0, <1>3, <3>1, <4>1
      <4>3. \A j \in 1 .. index : pollables'[j] # event.pollable
        BY <3>5, <4>1, <4>2
      <4> QED
        BY <1>1, <1>2, <3>3, <3>4, <3>6, <4>1, <4>3 DEF Calling
    <3>7. CASE ~event.removed
      <4>1. /\ event.pollable \in callbacks /\ index < n /\ pollables[index + 1] = event.pollable
            /\ want[event.pollable] = event.events /\ (back # "check" => iter = index)
        BY <1>0, <3>7 DEF Calling, n
      <4>2. event.pollable # h /\ event.pollable \in Handle
        BY <1>0, <2>2, <3>7, <4>1 DEF PollerTypes
      <4>3. i > index
        BY <1>0, <3>1, <3>2, <4>1
      <4>4. index + 1 \in 1 .. n - 1 /\ index + 1 <= i
        BY <1>0, <1>3, <4>3
      <4>5. pollables'[index + 1] = event.pollable /\ index < Len(pollables')
        <5>1. index < Len(pollables')
          BY <1>0, <1>2, <4>4
        <5> DEFINE j == index + 1
        <5>2. j \in 1 .. n - 1 /\ j <= i /\ pollables[j] = event.pollable
          BY <4>1, <4>4
        <5> HIDE DEF j
        <5>3. pollables'[j] = pollables[j]
          BY <3>5, <5>2
        <5> QED
          BY <5>1, <5>2, <5>3 DEF j
      <4> QED
        BY <1>1, <1>2, <1>6, <3>3, <3>4, <3>7, <4>1, <4>2, <4>5 DEF Calling
    <3> QED
      BY <3>6, <3>7
  <2> QED
    BY <2>1, <2>2
<1> QED
  BY <1>7, <1>8, <1>9, <1>10 DEF PollerInv
-----------------------------------------------------------------------------
\* Every step keeps the slots and the iterator in step with the list.
LEMMA PollerInvKept ==
  ASSUME May \subseteq InPlace, PollerInv, [Next]_vars
  PROVE  PollerInv'
<1>1. ASSUME NEW h \in Handle, NEW m \in Mask, Add(h, m) \/ AddCallback(h, m) PROVE PollerInv'
  BY <1>1, AddKeeps DEF Add, AddCallback
<1>2. ASSUME NEW h \in Handle, NEW m \in Mask, SetEvents(h, m) PROVE PollerInv'
  BY <1>2, SetEventsKeeps
<1>3. ASSUME NEW h \in Handle, Remove(h) PROVE PollerInv'
  BY <1>3, RemoveKeeps
<1>4. ASSUME NEW m \in Mask, CallbackReturns(m) PROVE PollerInv'
  BY <1>4, ReturnKeeps
<1>5. CASE UNCHANGED vars
  BY <1>5 DEF vars, PollerInv, PollerTypes, Parallel, Distinct, Calling
<1> QED
  BY <1>1, <1>2, <1>3, <1>4, <1>5, LoopsKeep, Zenon DEF Next

LEMMA PollerInvInit == Init => PollerInv
<1> SUFFICES ASSUME Init PROVE PollerInv
  OBVIOUS
<1>1. Cardinality(Handle) \in Nat /\ Zero \in Mask
  BY PollerAssumption, FS_CardinalityType
<1>2. /\ pollables = <<>> /\ nextIndex = 0 /\ callbacks = {} /\ iter = 0 /\ pc = "idle" /\ back = "idle"
      /\ index = 0 /\ todo = {}
      /\ fds = [i \in Slot |-> [fd |-> NoFd, events |-> Zero, revents |-> FALSE]]
      /\ want = [h \in Handle |-> Zero]
  BY DEF Init
<1>3. fds \in [Slot -> PollFd] /\ want \in [Handle -> Mask]
  BY <1>1, <1>2 DEF PollFd
<1>4. PollerTypes
  <2>1. pollables \in Seq(Handle) /\ Len(pollables) = 0
    BY <1>2
  <2>2. iter \in Int /\ iter >= -1 /\ index \in Nat /\ callbacks \subseteq Handle /\ todo \subseteq Handle
    BY <1>2
  <2>3. nextIndex = Len(pollables) /\ nextIndex <= Cardinality(Handle)
    BY <1>1, <1>2, <2>1
  <2>4. pc = "idle" /\ back \in Contexts
    BY <1>2 DEF Contexts
  <2> QED
    BY <1>3, <2>1, <2>2, <2>3, <2>4 DEF PollerTypes
<1>5. Parallel /\ Distinct /\ Calling
  BY <1>2 DEF Parallel, Distinct, Calling
<1> QED
  BY <1>4, <1>5 DEF PollerInv

\* The inductive invariant behind the theorems below: list, slots and masks in
\* step, descriptors distinct, and a running callback where it was called.
THEOREM PollerInvariant ==
  ASSUME May \subseteq InPlace
  PROVE  Spec => []PollerInv
  BY PollerInvInit, PollerInvKept, PTL DEF Spec

\* If callbacks remove their own pollable or later ones, those of checkHandlers() only
\* later ones, then slot i of the pollfd array is the descriptor and the mask of
\* pollable i, whatever else add(), remove(), setEvents() and the callbacks do, for
\* any size of the array that the pollables fit in (HandlesFit; grow() is of no use).
THEOREM SlotsMatchPollables ==
  ASSUME May \subseteq InPlace
  PROVE  Spec => []OneToOne
<1>1. PollerInv => OneToOne
  <2> SUFFICES ASSUME PollerInv PROVE OneToOne
    OBVIOUS
  <2>1. /\ nextIndex = Len(pollables) /\ Parallel /\ Distinct /\ Len(pollables) \in Nat
    BY SlotsOfPlaces DEF PollerInv, PollerTypes
  <2>2. ASSUME NEW i \in 0 .. (nextIndex - 1)
        PROVE  fds[i].fd = FdOf[At(i)] /\ fds[i].events = want[At(i)]
    <3>1. i + 1 \in 1 .. Len(pollables) /\ (i + 1) - 1 = i
      BY <2>1
    <3> QED
      BY <2>1, <3>1 DEF Parallel, At
  <2> QED
    BY <2>1, <2>2 DEF OneToOne, Distinct
<1> QED
  BY <1>1, PollerInvariant, PTL

\* Under the same hypothesis the __pollables[__iter] that __callCallback() reads after
\* the callback is in range, and is its own pollable exactly if that is still there.
THEOREM IteratorStaysOnCaller ==
  ASSUME May \subseteq InPlace
  PROVE  Spec => []IteratorOnCaller
<1>1. PollerInv => IteratorOnCaller
  BY DEF PollerInv, PollerTypes, Calling, IteratorOnCaller, At
<1> QED
  BY <1>1, PollerInvariant, PTL
-----------------------------------------------------------------------------
(* Delivery.                                                               *)

\* What nx() has to deliver after user code has changed the list.
LEMMA UserCodeDelivers ==
  ASSUME May \subseteq Past, DeliveryInv,
         \/ \E h \in Handle, m \in Mask : Add(h, m) \/ AddCallback(h, m) \/ SetEvents(h, m)
         \/ \E h \in Handle : Remove(h)
  PROVE  Undelivered' /\ NothingRepeated'
<1> DEFINE n == Len(pollables)
           prepares == pc = "callback" /\ back = "prep"
<1>0. /\ PollerInv /\ PollerTypes /\ Calling /\ Undelivered /\ again = {} /\ n \in Nat
      /\ iter \in Int /\ index \in Nat /\ May \subseteq InPlace
  BY SlotsOfPlaces DEF DeliveryInv, PollerInv, PollerTypes, NothingRepeated, Past
<1>1. UNCHANGED <<pc, back, index, again>> /\ pc \in {"idle", "callback"}
  BY Zenon DEF Add, AddCallback, AddEntry, SetEvents, Remove, UserCode
<1>2. NothingRepeated'
  BY <1>0, <1>1 DEF NothingRepeated
<1>3. ASSUME NEW h \in Handle, NEW m \in Mask, AddEntry(h, m),
             callbacks' = callbacks \/ callbacks' = callbacks \cup {h}
      PROVE  Undelivered'
  <2>1. /\ Len(pollables') = n + 1
        /\ \A i \in 1 .. n : pollables'[i] = pollables[i] /\ fds'[i - 1] = fds[i - 1]
        /\ fds'[n].revents = FALSE
    BY <1>0, <1>3, AddKeeps
  <2>2. UNCHANGED <<iter, todo>>
    BY <1>3 DEF AddEntry
  <2>3. Onward' = Onward
    BY <1>1, <2>2 DEF Onward
  <2> SUFFICES ASSUME Onward >= 0, ~prepares, NEW i \in 1 .. n + 1, i > Onward,
                      fds'[i - 1].revents
               PROVE  pollables'[i] \in todo
    BY <1>1, <2>1, <2>2, <2>3 DEF Undelivered
  <2>4. CASE i \in 1 .. n
    BY <1>0, <1>1, <2>1, <2>4 DEF Undelivered
  <2>5. CASE i = n + 1
    <3>1. i - 1 = n
      BY <1>0, <2>5
    <3> QED
      BY <2>1, <3>1
  <2> QED
    BY <1>0, <2>4, <2>5
<1>4. ASSUME NEW h \in Handle, NEW m \in Mask, SetEvents(h, m) PROVE Undelivered'
  <2> DEFINE k == IndexOf(h)
  <2>1. fds'[k].revents = FALSE /\ \A i \in Slot : i # k => fds'[i] = fds[i]
    BY <1>0, <1>4, SetEventsKeeps
  <2>2. /\ UNCHANGED <<iter, pollables>> /\ h \in Managed
        /\ todo' = IF Context = "prep" THEN todo ELSE todo \ {h}
    BY <1>4 DEF SetEvents
  <2>3. k \in Nat /\ k < n /\ pollables[k + 1] = h
    BY <1>0, <2>2, PlaceOf
  <2>4. Onward' = Onward
    BY <1>1, <2>2 DEF Onward
  <2> HIDE DEF k
  <2> SUFFICES ASSUME Onward >= 0, ~prepares, NEW i \in 1 .. n, i > Onward,
                      fds'[i - 1].revents
               PROVE  pollables[i] \in todo'
    BY <1>1, <2>2, <2>4 DEF Undelivered
  <2>5. i - 1 \in Slot /\ i - 1 # k
    BY <1>0, <2>1, SlotsOfPlaces
  <2>6. pollables[i] \in todo
    BY <1>0, <1>1, <2>1, <2>5 DEF Undelivered
  <2>7. pollables[i] # h
    <3>1. k + 1 \in 1 .. n /\ i # k + 1
      BY <1>0, <2>3, <2>5
    <3> QED
      BY <1>0, <2>3, <3>1 DEF PollerInv, Distinct
  <2> QED
    BY <2>2, <2>6, <2>7
<1>5. ASSUME NEW h \in Handle, Remove(h) PROVE Undelivered'
  <2> DEFINE k == IndexOf(h)
             p == IndexOf(h) + 1
  <2>1. /\ UserCode /\ h \in Managed /\ <<Context, Kind(h)>> \in May
        /\ iter' = IF iter >= k THEN iter - 1 ELSE iter
        /\ todo' = todo \ {h}
    BY <1>5 DEF Remove
  <2>2. /\ p \in 1 .. n /\ pollables[p] = h /\ Len(pollables') = n - 1
        /\ \A j \in 1 .. n - 1 :
             \E q \in 1 .. n : /\ q = IF j < p THEN j ELSE j + 1
                               /\ pollables'[j] = pollables[q]
                               /\ fds'[j - 1] = fds[q - 1]
    BY <1>0, <1>5, RemovedPlaces
  <2>3. k \in Nat /\ p = k + 1
    BY <1>0, <2>1, PlaceOf
  <2>4. /\ pc = "callback" /\ back # "check" => (h = event.pollable /\ ~event.removed) \/ k > iter
        /\ pc = "callback" /\ back = "check" => iter # k
        /\ pc = "idle" => iter # k
    BY <1>0, <2>1, <2>3, RemovalPlace
  <2>5. \A j \in 1 .. n : pollables[j] = h => j = p
    BY <1>0, <2>2 DEF PollerInv, Distinct
  <2> HIDE DEF k, p
  <2>6. pc = "callback" /\ back # "check" => Onward' = Onward /\ Onward = index + 1 /\ k >= index
    <3> SUFFICES ASSUME pc = "callback", back # "check" PROVE k >= index
      BY <1>1 DEF Onward
    <3>1. CASE h = event.pollable /\ ~event.removed
      <4>1. index < n /\ pollables[index + 1] = h
        BY <1>0, <3>1 DEF Calling
      <4>2. index + 1 = p
        BY <1>0, <2>5, <4>1
      <4> QED
        BY <1>0, <2>3, <4>2
    <3>2. CASE k > iter
      BY <1>0, <2>3, <3>2 DEF Calling
    <3> QED
      BY <2>4, <3>1, <3>2
  <2>7. ~(pc = "callback" /\ back # "check") => /\ Onward = iter /\ iter # k
                                                /\ Onward' = IF iter > k THEN iter - 1 ELSE iter
    BY <1>0, <1>1, <2>1, <2>3, <2>4 DEF Onward
  <2> SUFFICES ASSUME Onward' >= 0, ~prepares, NEW j \in 1 .. n - 1, j > Onward',
                      fds'[j - 1].revents
               PROVE  pollables'[j] \in todo'
    BY <1>1, <2>2 DEF Undelivered
  <2>8. PICK q \in 1 .. n : /\ q = IF j < p THEN j ELSE j + 1
                            /\ pollables'[j] = pollables[q]
                            /\ fds'[j - 1] = fds[q - 1]
    BY <2>2
  <2>9. Onward \in Int /\ Onward >= 0 /\ q > Onward
    <3>1. CASE pc = "callback" /\ back # "check"
      BY <1>0, <2>3, <2>6, <2>8, <3>1
    <3>2. CASE ~(pc = "callback" /\ back # "check")
      BY <1>0, <2>3, <2>7, <2>8, <3>2
    <3> QED
      BY <3>1, <3>2
  <2>10. pollables[q] \in todo
    BY <1>0, <1>1, <2>8, <2>9 DEF Undelivered
  <2>11. pollables[q] # h
    BY <1>0, <2>2, <2>5, <2>8
  <2> QED
    BY <2>1, <2>8, <2>10, <2>11
<1>6. Undelivered'
  BY <1>3, <1>4, <1>5 DEF Add, AddCallback
<1> QED
  BY <1>2, <1>6

\* The loops and the callbacks' returns deliver each event once.
LEMMA LoopsDeliver ==
  ASSUME DeliveryInv,
         \/ \E m \in Mask : CallbackReturns(m)
         \/ WaitAndProcess \/ PrepCall \/ PrepPass \/ PrepDone \/ Wait \/ NxNone \/ NxCall
         \/ NxReturn \/ CheckHandlers \/ CheckCall \/ CheckPass \/ CheckDone
  PROVE  Undelivered' /\ NothingRepeated'
<1> DEFINE n == Len(pollables)
<1>0. /\ PollerInv /\ PollerTypes /\ Calling /\ Undelivered /\ again = {} /\ n \in Nat
      /\ iter \in Int /\ index \in Nat /\ nextIndex = n
  BY SlotsOfPlaces DEF DeliveryInv, PollerInv, PollerTypes, NothingRepeated
<1>1. CASE \E m \in Mask : CallbackReturns(m)
  <2>1. PICK m \in Mask : CallbackReturns(m)
    BY <1>1
  <2>2. /\ pc = "callback" /\ pc' = back /\ UNCHANGED <<pollables, again>>
        /\ iter' = IF back = "check" THEN iter ELSE index + 1
        /\ todo' = IF back = "check" THEN todo \ {event.pollable} ELSE todo
    BY <2>1 DEF CallbackReturns
  <2>3. \A i \in Slot : fds'[i] = fds[i] \/ (i = index /\ fds'[i].revents = FALSE)
    BY <1>0, <2>1, ReturnKeeps
  <2>4. back \in Contexts /\ pc' # "callback"
    BY <1>0, <2>2 DEF PollerTypes, Contexts
  <2>5. Onward' = Onward
    BY <2>2, <2>4 DEF Onward
  <2>6. Undelivered'
    <3> SUFFICES ASSUME Onward >= 0, back # "prep", NEW i \in 1 .. n, i > Onward,
                        fds'[i - 1].revents
                 PROVE  pollables[i] \in todo'
      BY <2>2, <2>4, <2>5 DEF Undelivered
    <3>1. i - 1 \in Slot
      BY <1>0, SlotsOfPlaces
    <3>2. fds'[i - 1] = fds[i - 1]
      BY <2>3, <3>1
    <3>3. pollables[i] \in todo
      BY <1>0, <2>2, <3>2 DEF Undelivered
    <3>4. CASE back = "check"
      <4>1. index < n /\ pollables[index + 1] = event.pollable
        BY <1>0, <2>2, <3>4 DEF Calling
      <4>2. fds'[index].revents = FALSE
        <5>1. index \in Slot /\ fds' = [fds EXCEPT ![index] = Entry(event.pollable, m)]
          BY <1>0, <2>1, <3>4, <4>1, SlotsOfPlaces, Entries DEF CallbackReturns, PollerTypes, Slot
        <5> QED
          BY <1>0, <5>1 DEF PollerTypes, Entry
      <4>3. index + 1 \in 1 .. n /\ i # index + 1
        BY <1>0, <4>1, <4>2
      <4>4. pollables[i] # event.pollable
        BY <1>0, <4>1, <4>3 DEF PollerInv, Distinct
      <4> QED
        BY <2>2, <3>3, <3>4, <4>4
    <3>5. CASE back # "check"
      BY <2>2, <3>3, <3>5
    <3> QED
      BY <3>4, <3>5
  <2> QED
    BY <1>0, <2>2, <2>6 DEF NothingRepeated
<1>2. CASE WaitAndProcess \/ PrepCall \/ PrepPass \/ CheckHandlers \/ CheckPass \/ CheckDone \/ CheckCall
  <2>1. CASE WaitAndProcess \/ PrepCall \/ PrepPass
    <3>1. /\ again' = {} /\ (pc' = "prep" \/ (pc' = "callback" /\ back' = "prep"))
      BY <1>0, <2>1 DEF WaitAndProcess, PrepCall, PrepPass, Call
    <3> QED
      BY <3>1 DEF Undelivered, NothingRepeated
  <2>2. CASE CheckHandlers \/ CheckPass \/ CheckDone \/ CheckCall
    <3>1. /\ pc \in {"idle", "check"} /\ UNCHANGED <<pollables, fds, iter, todo, again>>
          /\ pc' \in {"idle", "check"} \/ (pc' = "callback" /\ back' = "check")
      BY <2>2 DEF CheckHandlers, CheckPass, CheckDone, CheckCall, Call
    <3>2. Onward' = Onward
      BY <3>1 DEF Onward
    <3> QED
      BY <1>0, <3>1, <3>2 DEF Undelivered, NothingRepeated
  <2> QED
    BY <1>2, <2>1, <2>2
<1>3. CASE PrepDone \/ Wait
  <2>1. /\ Poll /\ UNCHANGED pollables /\ pc' \in {"idle", "nx"} /\ again' = {}
    BY <1>0, <1>3 DEF PrepDone, Wait
  <2>2. \A i \in 1 .. n : fds'[i - 1].revents => pollables[i] \in todo'
    BY <1>0, <2>1, PollFacts
  <2> QED
    BY <2>1, <2>2 DEF Undelivered, NothingRepeated
<1>4. CASE NxNone
  <2>1. iter' = -1 /\ pc' = "idle" /\ again' = again
    BY <1>4 DEF NxNone
  <2>2. ~(Onward' >= 0)
    BY <2>1 DEF Onward
  <2> QED
    BY <1>0, <2>1, <2>2 DEF Undelivered, NothingRepeated
<1>5. CASE NxCall \/ NxReturn
  <2> DEFINE k == Least(ReadyFrom(iter))
  <2>1. /\ ReadyFrom(iter) # {} /\ pc \in {"idle", "nx"} /\ iter # -1
        /\ UNCHANGED <<pollables, fds>>
        /\ todo' = todo \ {At(k)} /\ again' = again \cup ({At(k)} \ todo)
        /\ \/ pc' = "callback" /\ back' = pc /\ index' = k
           \/ pc' = pc /\ iter' = k + 1
    BY <1>5 DEF NxCall, NxReturn, Call
  <2>2. k \in ReadyFrom(iter)
    BY <2>1, LeastReady
  <2> HIDE DEF k
  <2>3. k \in Slot /\ k < n /\ k \in Nat /\ k >= iter /\ fds[k].revents /\ iter >= 0
    BY <1>0, <2>1, <2>2, SlotsOfPlaces DEF ReadyFrom, PollerTypes
  <2>4. Onward = iter /\ Onward' = k + 1
    BY <2>1 DEF Onward
  <2>5. k + 1 \in 1 .. n /\ (k + 1) - 1 = k /\ At(k) = pollables[k + 1]
    BY <1>0, <2>3 DEF At
  <2>6. \A i \in 1 .. n : i > iter /\ fds[i - 1].revents => pollables[i] \in todo
    BY <1>0, <2>1, <2>3, <2>4 DEF Undelivered
  <2>7. At(k) \in todo
    <3>1. k + 1 > iter
      BY <1>0, <2>3
    <3>2. fds[(k + 1) - 1].revents
      BY <2>3, <2>5
    <3> QED
      BY <2>5, <2>6, <3>1, <3>2
  <2>8. ASSUME NEW i \in 1 .. n, i > k + 1, fds[i - 1].revents PROVE pollables[i] \in todo'
    <3>1. i > iter
      BY <1>0, <2>3, <2>8
    <3>2. pollables[i] # At(k)
      BY <1>0, <2>3, <2>5, <2>8 DEF PollerInv, Distinct
    <3> QED
      BY <2>1, <2>6, <2>8, <3>1, <3>2
  <2> QED
    BY <1>0, <2>1, <2>4, <2>7, <2>8 DEF Undelivered, NothingRepeated
<1> QED
  BY <1>1, <1>2, <1>3, <1>4, <1>5

\* If also the user's loop spares the pollable nx() comes to next, each event that
\* ppoll() reported is delivered at most once.
THEOREM EventsDeliveredOnce ==
  ASSUME May \subseteq Past
  PROVE  Spec => []NothingRepeated
<1>1. Init => DeliveryInv
  BY PollerInvInit DEF Init, DeliveryInv, Undelivered, NothingRepeated
<1>2. ASSUME DeliveryInv, [Next]_vars PROVE DeliveryInv'
  <2>1. PollerInv'
    BY <1>2, PollerInvKept DEF DeliveryInv, Past
  <2>2. CASE UNCHANGED vars
    BY <1>2, <2>1, <2>2 DEF vars, DeliveryInv, Undelivered, Onward, NothingRepeated
  <2>3. CASE Next
    BY <1>2, <2>1, <2>3, UserCodeDelivers, LoopsDeliver, Zenon DEF Next, DeliveryInv
  <2> QED
    BY <1>2, <2>2, <2>3
<1>3. DeliveryInv => NothingRepeated
  BY DEF DeliveryInv
<1> QED
  BY <1>1, <1>2, <1>3, PTL DEF Spec

(***************************************************************************)
(* EventManager.                                                           *)
(***************************************************************************)

------------------------------------------------------------------------------
(* The first key of the schedule.                                           *)

\* A nonempty set of instants has a first one, and FirstKey() is it.
LEMMA FirstKeyIsMin ==
  ASSUME NEW keys \in SUBSET Time, keys # {}
  PROVE  FirstKey(keys) \in keys /\ \A u \in keys : FirstKey(keys) <= u
<1> DEFINE Less == {p \in Nat \X Nat : p[1] < p[2]}
<1>1. keys \subseteq Nat
  BY EventManagerAssumption DEF Time
<1>2. IsWellFoundedOn(Less, Nat)
  BY NatLessThanWellFounded, Zenon DEF OpToRel
<1>3. PICK t \in keys : \A u \in keys : ~(<<u, t>> \in Less)
  <2> HIDE DEF Less
  <2> QED
    BY <1>1, <1>2, WFMin, Zenon
<1>4. \A u \in keys : t <= u
  <2> SUFFICES ASSUME NEW u \in keys, ~(t <= u) PROVE FALSE
    OBVIOUS
  <2>1. u \in Nat /\ t \in Nat /\ u < t
    BY <1>1
  <2>2. <<u, t>> \in Less
    BY <2>1
  <2> QED
    BY <1>3, <2>2, Zenon
<1>5. FirstKey(keys) = CHOOSE k \in keys : \A u \in keys : k <= u
  BY Zenon DEF FirstKey
<1> QED
  BY <1>4, <1>5, Zenon

LEMMA FirstKeyType ==
  ASSUME NEW keys \in SUBSET Time
  PROVE  FirstKey(keys) \in 0..MaxTime /\ (FirstKey(keys) = 0 <=> keys = {})
<1>1. CASE keys = {}
  BY <1>1, EventManagerAssumption DEF FirstKey
<1>2. CASE keys # {}
  <2>1. FirstKey(keys) \in 1..MaxTime
    BY <1>2, FirstKeyIsMin DEF Time
  <2> QED
    BY <1>2, <2>1, EventManagerAssumption
<1> QED
  BY <1>1, <1>2

------------------------------------------------------------------------------
(* Types.                                                                   *)

Flags == done \in BOOLEAN /\ filled \in BOOLEAN

\* All of ManagerTypeOK but the flags and the upper bound of the iterator, which
\* follows from the callbacks of a key being different.
Types ==
  /\ clock \in Time
  /\ schedule \in [Time -> Seq(Event)]
  /\ stage \in PC
  /\ now \in 0..MaxTime
  /\ nextTime \in 0..MaxTime
  /\ until \in 0..(MaxTime + Width)
  /\ pos \in Nat \ {0}
  /\ count \in 0..MaxEvents
  /\ ran \in Seq(Event)
  /\ stage = "events" => nextTime \in Time /\ pos <= Len(schedule[nextTime]) + 1

LEMMA InitTypes == ManagerInit => Types /\ Flags
<1>1. ManagerInit => Types
  BY EventManagerAssumption DEF ManagerInit, Types, Time, Event, PC
<1>2. ManagerInit => Flags
  BY Zenon DEF ManagerInit, Flags
<1> QED
  BY <1>1, <1>2

LEMMA StepFlags == Flags /\ [ManagerNext]_managerVars => Flags'
<1> SUFFICES ASSUME Flags, [ManagerNext]_managerVars PROVE Flags'
  OBVIOUS
<1>1. done' \in BOOLEAN
  BY Zenon
  DEF Flags, ManagerNext, RunStep, managerVars, ScheduleEvent, Terminate, EmptyPoller, Tick, Run, Leave,
      Loop, StartPoll, PollWakes, PollTimesOut, HandlersDone, TakeDue, NothingDue,
      RunCallback, DeleteKey
<1>2. filled' \in BOOLEAN
  BY Zenon
  DEF Flags, ManagerNext, RunStep, managerVars, ScheduleEvent, Terminate, EmptyPoller, Tick, Run, Leave,
      Loop, StartPoll, PollWakes, PollTimesOut, HandlersDone, TakeDue, NothingDue,
      RunCallback, DeleteKey
<1> QED
  BY <1>1, <1>2 DEF Flags

\* The end of the poll's timeout, whether or not the difference has wrapped.
LEMMA UntilType ==
  ASSUME NEW c \in Time, NEW d \in Int
  PROVE  c + (d % Width) \in 0..(MaxTime + Width)
<1>1. d % Width \in 0..(Width - 1)
  BY EventManagerAssumption
<1> QED
  BY <1>1, EventManagerAssumption DEF Time

LEMMA StepTypes == Types /\ [ManagerNext]_managerVars => Types'
<1> SUFFICES ASSUME Types, [ManagerNext]_managerVars PROVE Types'
  OBVIOUS
<1> USE EventManagerAssumption DEF Types, PC
<1>0. CASE UNCHANGED managerVars
  BY <1>0 DEF managerVars
<1>1. ASSUME NEW t \in Time, ScheduleEvent(t)
      PROVE  Types'
  <2>1. count + 1 \in Event
    BY <1>1 DEF ScheduleEvent, Event
  <2>2. schedule' \in [Time -> Seq(Event)]
    BY <1>1, <2>1 DEF ScheduleEvent
  <2>3. stage = "events" => Len(schedule[nextTime]) <= Len(schedule'[nextTime])
    BY <1>1, <2>1 DEF ScheduleEvent
  <2>4. stage = "events" => pos <= Len(schedule'[nextTime]) + 1
    BY <2>2, <2>3
  <2> QED
    BY <1>1, <2>2, <2>4 DEF ScheduleEvent
<1>2. CASE Terminate \/ EmptyPoller \/ Tick
  <2>1. /\ UNCHANGED <<schedule, stage, now, nextTime, until, pos, count, ran>>
        /\ clock' = clock \/ (clock < MaxTime /\ clock' = clock + 1)
    BY <1>2, Zenon DEF Terminate, EmptyPoller, Tick
  <2> QED
    BY <2>1 DEF Time
<1>3. CASE Run \/ TakeDue
  <2>1. Keys \in SUBSET Time
    BY DEF Keys
  <2>2. FirstKey(Keys) \in 0..MaxTime /\ (Keys # {} => FirstKey(Keys) \in Time)
    BY <2>1, FirstKeyType, FirstKeyIsMin
  <2>3. CASE Run
    BY <2>3, <2>2 DEF Run, Time
  <2>4. CASE TakeDue
    <3>1. nextTime' \in Time /\ pos' = 1 /\ schedule' = schedule /\ stage' \in PC
      BY <2>4, <2>2 DEF TakeDue
    <3>2. Len(schedule'[nextTime']) \in Nat
      BY <3>1
    <3> QED
      BY <2>4, <3>1, <3>2 DEF TakeDue, Time
  <2> QED
    BY <1>3, <2>3, <2>4
<1>4. CASE StartPoll
  <2>1. until' \in 0..(MaxTime + Width)
    <3>1. nextTime - now \in Int
      OBVIOUS
    <3>2. clock + ((nextTime - now) % Width) \in 0..(MaxTime + Width)
      BY <3>1, UntilType, Zenon
    <3>3. 0 \in 0..(MaxTime + Width)
      OBVIOUS
    <3> QED
      BY <1>4, <3>2, <3>3, Zenon DEF StartPoll
  <2> QED
    BY <1>4, <2>1 DEF StartPoll
<1>5. CASE Leave \/ Loop \/ PollWakes \/ PollTimesOut \/ HandlersDone \/ NothingDue
  <2>1. /\ UNCHANGED <<clock, schedule, nextTime, pos, count, ran>>
        /\ now' \in {now, clock}
        /\ until' \in {until, 0}
        /\ stage' \in {"returned", "masks", "handlers", "due", "loop"}
    BY <1>5, Zenon
    DEF Leave, Loop, PollWakes, PollTimesOut, HandlersDone, NothingDue
  <2> QED
    BY <2>1 DEF Time
<1>6. CASE RunCallback
  <2>1. Len(schedule[nextTime]) \in Nat /\ schedule[nextTime] \in Seq(Event)
    BY <1>6 DEF RunCallback
  <2>2. schedule[nextTime][pos] \in Event
    BY <1>6, <2>1 DEF RunCallback
  <2> QED
    BY <1>6, <2>1, <2>2 DEF RunCallback
<1>7. CASE DeleteKey
  <2>1. FirstKey(Keys \ {nextTime}) \in 0..MaxTime
    BY FirstKeyType DEF Keys
  <2> QED
    BY <1>7, <2>1 DEF DeleteKey
<1> QED
  BY <1>0, <1>1, <1>2, <1>3, <1>4, <1>5, <1>6, <1>7 DEF ManagerNext, RunStep

------------------------------------------------------------------------------
(* The timeout of the poll.                                                 *)

\* nextTime is not left at a past key when the schedule has become empty: what
\* NothingDue takes back to the loop is no key at all.
NoStaleTime ==
  stage \in {"masks", "poll", "handlers", "due"} /\ Keys = {} => nextTime = 0

TimeoutInv == TimeoutIsNext /\ NoStaleTime

LEMMA StepTimeout ==
  ASSUME ~LateStart
  PROVE  Types /\ TimeoutInv /\ [ManagerNext]_managerVars => TimeoutInv'
<1> SUFFICES ASSUME Types, TimeoutInv, [ManagerNext]_managerVars PROVE TimeoutInv'
  OBVIOUS
<1> USE EventManagerAssumption DEF TimeoutInv, TimeoutIsNext, NoStaleTime
<1>0. Keys \in SUBSET Time
  BY DEF Keys
<1>1. ASSUME UNCHANGED <<schedule, stage, nextTime, now>> PROVE TimeoutInv'
  <2>1. Keys' = Keys
    BY <1>1 DEF Keys
  <2> QED
    BY <1>1, <2>1, Zenon
<1>2. CASE UNCHANGED managerVars
  BY <1>1, <1>2, Zenon DEF managerVars
<1>3. ASSUME NEW t \in Time, ScheduleEvent(t)
      PROVE  TimeoutInv'
  <2>1. schedule'[t] = Append(schedule[t], count + 1) /\ schedule[t] \in Seq(Event)
    BY <1>3 DEF ScheduleEvent, Types
  <2>2. schedule'[t] # <<>>
    BY <2>1
  <2>3. Keys' # {}
    BY <2>2 DEF Keys
  <2>4. stage' # "loop"
    BY <1>3 DEF ScheduleEvent, CalledCode
  <2> QED
    BY <2>3, <2>4
<1>4. CASE Terminate \/ EmptyPoller \/ Tick \/ RunCallback
  <2>1. UNCHANGED <<schedule, stage, nextTime, now>>
    BY <1>4, Zenon DEF Terminate, EmptyPoller, Tick, RunCallback
  <2> QED
    BY <2>1, <1>1, Zenon
<1>5. CASE Run
  <2>1. Keys' = Keys
    BY <1>5 DEF Run, Keys
  <2>2. \A t \in Keys : t >= clock
    BY <1>5 DEF Run
  <2>3. Keys # {} => FirstKey(Keys) >= clock
    BY <1>0, <2>2, FirstKeyIsMin
  <2>4. FirstKey(Keys) = 0 <=> Keys = {}
    BY <1>0, FirstKeyType
  <2>5. stage' = "loop" /\ now' = clock /\ nextTime' = FirstKey(Keys)
    BY <1>5 DEF Run
  <2> QED
    BY <2>1, <2>3, <2>4, <2>5
<1>6. CASE Loop
  <2>1. /\ UNCHANGED <<schedule, nextTime>>
        /\ stage = "loop" /\ stage' = "masks"
    BY <1>6, Zenon DEF Loop
  <2>2. Keys' = Keys
    BY <2>1 DEF Keys
  <2> QED
    BY <2>1, <2>2 DEF FirstKey
<1>7. CASE StartPoll \/ PollWakes \/ PollTimesOut \/ HandlersDone
  <2>1. /\ UNCHANGED <<schedule, nextTime>>
        /\ stage \in {"masks", "poll", "handlers"}
        /\ stage' \in {"poll", "handlers", "due"}
    BY <1>7, Zenon DEF StartPoll, PollWakes, PollTimesOut, HandlersDone
  <2>2. Keys' = Keys
    BY <2>1 DEF Keys
  <2> QED
    BY <2>1, <2>2
<1>8. CASE TakeDue
  <2>1. Keys' = Keys /\ Keys # {}
    BY <1>8 DEF TakeDue, Keys
  <2>2. nextTime' = FirstKey(Keys) /\ now' = now
    BY <1>8 DEF TakeDue
  <2>3. stage' = "loop" => ~(nextTime' <= now)
    BY <1>8 DEF TakeDue
  <2>4. FirstKey(Keys) \in 0..MaxTime
    BY <1>0, FirstKeyType
  <2> QED
    BY <2>1, <2>2, <2>3, <2>4 DEF Types
<1>9. CASE NothingDue
  <2>1. Keys' = Keys /\ Keys = {}
    BY <1>9 DEF NothingDue, Keys
  <2>2. nextTime' = 0
    BY <1>9 DEF NothingDue
  <2> QED
    BY <1>9, <2>1, <2>2 DEF NothingDue, FirstKey
<1>10. CASE DeleteKey
  <2>1. Keys' = Keys \ {nextTime}
    BY <1>10 DEF DeleteKey, Keys, Types
  <2> QED
    BY <1>10, <2>1 DEF DeleteKey, FirstKey
<1>11. CASE Leave
  BY <1>11 DEF Leave
<1> QED
  BY <1>2, <1>3, <1>4, <1>5, <1>6, <1>7, <1>8, <1>9, <1>10, <1>11
  DEF ManagerNext, RunStep

\* The types are invariants.
LEMMA TypesInvariant == ManagerSpec => [](Types /\ Flags)
  BY InitTypes, StepTypes, StepFlags, PTL DEF ManagerSpec

\* THEOREM.  If run() is not started when a callback is already past due, then
\* whenever it is about to wait, the time it waits for is that of the first key
\* of the schedule and is not past: nextTime - now does not wrap around and no
\* scheduled callback is overslept, whatever the callbacks add to the schedule.
THEOREM WaitsForNext ==
  ASSUME ~LateStart
  PROVE  ManagerSpec => []TimeoutIsNext
<1>1. ManagerInit => TimeoutInv
  BY DEF ManagerInit, TimeoutInv, TimeoutIsNext, NoStaleTime
<1>2. Types /\ Flags /\ TimeoutInv /\ [ManagerNext]_managerVars => TimeoutInv'
  BY StepTimeout
<1>3. TimeoutInv => TimeoutIsNext
  BY DEF TimeoutInv
<1> QED
  BY <1>1, <1>2, <1>3, TypesInvariant, PTL DEF ManagerSpec

------------------------------------------------------------------------------
(* Every callback is called once.                                           *)

\* No callback is in the schedule twice, under one key or under two.
ScheduledOnce ==
  \A t, u \in Time :
    \A i \in 1..Len(schedule[t]), j \in 1..Len(schedule[u]) :
      schedule[t][i] = schedule[u][j] => t = u /\ i = j

\* Nothing is scheduled or called that scheduleEvent() was not given.
Numbered ==
  /\ \A t \in Time : \A i \in 1..Len(schedule[t]) : schedule[t][i] \in 1..count
  /\ \A i \in 1..Len(ran) : ran[i] \in 1..count

\* A callback that is still to be called was not called yet.
NotYet ==
  \A t \in Time : \A i \in 1..Len(schedule[t]) :
    i \in Uncalled(t) => \A j \in 1..Len(ran) : ran[j] # schedule[t][i]

RanOnce == \A i, j \in 1..Len(ran) : ran[i] = ran[j] => i = j

\* No callback is lost.
Kept ==
  \A e \in 1..count :
    \/ \E j \in 1..Len(ran) : ran[j] = e
    \/ \E t \in Time : \E i \in Uncalled(t) : schedule[t][i] = e

OnceInv == ScheduledOnce /\ Numbered /\ NotYet /\ RanOnce /\ Kept

LEMMA PendingIsUncalled ==
  \A e : e \in Pending <=> \E t \in Time : \E i \in Uncalled(t) : schedule[t][i] = e
  BY DEF Pending

LEMMA OnceInvImplies == Types /\ OnceInv => EachOnce
<1> SUFFICES ASSUME Types, OnceInv PROVE EachOnce
  OBVIOUS
<1>0. \A t \in Time : DOMAIN schedule[t] = 1..Len(schedule[t])
  BY DEF Types
<1>1. DOMAIN ran = 1..Len(ran)
  BY DEF Types
<1>2. \A e : e \in Members(ran) <=> \E j \in 1..Len(ran) : ran[j] = e
  BY <1>1 DEF Members
<1>3. Pending \cup Members(ran) = 1..count
  <2>1. ASSUME NEW e \in Pending \cup Members(ran) PROVE e \in 1..count
    BY <2>1, <1>0, <1>2, PendingIsUncalled DEF OnceInv, Numbered, Uncalled
  <2>2. ASSUME NEW e \in 1..count PROVE e \in Pending \cup Members(ran)
    BY <2>2, <1>2, PendingIsUncalled, Zenon DEF OnceInv, Kept
  <2> QED
    BY <2>1, <2>2
<1>4. Pending \cap Members(ran) = {}
  BY <1>0, <1>2, PendingIsUncalled DEF OnceInv, NotYet, Uncalled
<1> QED
  BY <1>1, <1>3, <1>4 DEF EachOnce, OnceInv, RanOnce

LEMMA InitOnce == ManagerInit => OnceInv
<1> SUFFICES ASSUME ManagerInit PROVE OnceInv
  OBVIOUS
<1>1. count = 0 /\ Len(ran) = 0 /\ \A t \in Time : Len(schedule[t]) = 0
  BY DEF ManagerInit
<1> QED
  BY <1>1 DEF OnceInv, ScheduledOnce, Numbered, NotYet, RanOnce, Kept

LEMMA ScheduleOnce ==
  ASSUME Types, OnceInv, NEW t \in Time, ScheduleEvent(t)
  PROVE  OnceInv'
<1> USE EventManagerAssumption DEF Types
<1> DEFINE e == count + 1
           n == Len(schedule[t]) + 1
<1>1. count \in Nat /\ count' = e /\ ran' = ran /\ schedule[t] \in Seq(Event) /\ e \in Event
  BY DEF ScheduleEvent, Event
<1>2. /\ schedule' = [schedule EXCEPT ![t] = Append(schedule[t], e)]
      /\ UNCHANGED <<stage, nextTime, pos>>
  BY Zenon DEF ScheduleEvent
<1>3. /\ Len(schedule'[t]) = n
      /\ schedule'[t][n] = e
      /\ \A i \in 1..Len(schedule[t]) : schedule'[t][i] = schedule[t][i]
      /\ \A u \in Time \ {t} : schedule'[u] = schedule[u]
  BY <1>1, <1>2
<1>4. \A u \in Time : Len(schedule[u]) \in Nat
  OBVIOUS
<1>5. /\ \A u \in Time : DOMAIN schedule[u] = 1..Len(schedule[u])
      /\ \A u \in Time \ {t} : DOMAIN schedule'[u] = 1..Len(schedule[u])
      /\ DOMAIN schedule'[t] = 1..n
  BY <1>1, <1>2, <1>3
<1>6. Uncalled(t)' = Uncalled(t) \cup {n}
  BY <1>2, <1>3, <1>4, <1>5 DEF Uncalled
<1>7. \A u \in Time \ {t} : Uncalled(u)' = Uncalled(u)
  BY <1>2, <1>3, <1>5 DEF Uncalled
<1>8. \A u \in Time : Uncalled(u) \subseteq 1..Len(schedule[u])
  BY <1>5 DEF Uncalled
\* What the new schedule holds: the new entry and the old ones.
<1> HIDE DEF Types, e, n
<1>8a. \A u \in Time : \A i \in 1..Len(schedule'[u]) :
         \/ u = t /\ i = n /\ schedule'[u][i] = e
         \/ i \in 1..Len(schedule[u]) /\ schedule'[u][i] = schedule[u][i]
  BY <1>3, <1>4 DEF n
<1>9. Numbered'
  <2>1. 1..count \subseteq 1..e /\ e \in 1..e
    BY <1>1 DEF e
  <2> QED
    BY <1>1, <1>8a, <2>1 DEF OnceInv, Numbered
<1>10. e \notin 1..count
  BY <1>1 DEF e
<1>11. ScheduledOnce'
  <2> SUFFICES ASSUME NEW u \in Time, NEW v \in Time, NEW i \in 1..Len(schedule'[u]),
                      NEW j \in 1..Len(schedule'[v]), schedule'[u][i] = schedule'[v][j]
               PROVE  u = v /\ i = j
    BY DEF ScheduledOnce
  <2>1. CASE schedule'[u][i] = e
    <3>1. ASSUME NEW w \in Time, NEW k \in 1..Len(schedule'[w]), schedule'[w][k] = e
          PROVE  w = t /\ k = n
      BY <3>1, <1>8a, <1>10 DEF OnceInv, Numbered
    <3>2. schedule'[v][j] = e
      BY <2>1, Zenon
    <3>3. u = t /\ i = n
      BY <2>1, <3>1, Zenon
    <3>4. v = t /\ j = n
      BY <3>2, <3>1, Zenon
    <3> QED
      BY <3>3, <3>4, Zenon
  <2>2. CASE schedule'[u][i] # e
    BY <2>2, <1>8a DEF OnceInv, ScheduledOnce
  <2> QED
    BY <2>1, <2>2
<1>12. NotYet'
  <2> SUFFICES ASSUME NEW u \in Time, NEW i \in 1..Len(schedule'[u]), i \in Uncalled(u)',
                      NEW j \in 1..Len(ran)
               PROVE  ran[j] # schedule'[u][i]
    BY <1>1 DEF NotYet
  <2>1. CASE u = t /\ i = n /\ schedule'[u][i] = e
    BY <2>1, <1>10 DEF OnceInv, Numbered
  <2>2. CASE i \in 1..Len(schedule[u]) /\ schedule'[u][i] = schedule[u][i]
    <3>1. i \in Uncalled(u)
      BY <2>2, <1>4, <1>6, <1>7 DEF n
    <3> QED
      BY <2>2, <3>1 DEF OnceInv, NotYet
  <2> QED
    BY <1>8a, <2>1, <2>2
<1>13. RanOnce'
  BY <1>1 DEF OnceInv, RanOnce
<1>14. Kept'
  <2> SUFFICES ASSUME NEW x \in 1..e
               PROVE  \/ \E j \in 1..Len(ran) : ran[j] = x
                      \/ \E u \in Time : \E i \in Uncalled(u)' : schedule'[u][i] = x
    BY <1>1 DEF Kept
  <2>1. CASE x = e
    BY <2>1, <1>3, <1>6
  <2>2. CASE x # e
    <3>1. x \in 1..count
      BY <1>1, <2>2 DEF e
    <3>2. ASSUME NEW u \in Time, NEW i \in Uncalled(u), schedule[u][i] = x
          PROVE  i \in Uncalled(u)' /\ schedule'[u][i] = x
      BY <3>2, <1>3, <1>6, <1>7, <1>8
    <3> QED
      BY <3>1, <3>2 DEF OnceInv, Kept
  <2> QED
    BY <2>1, <2>2
<1> QED
  BY <1>9, <1>11, <1>12, <1>13, <1>14 DEF OnceInv

LEMMA CallOnce == ASSUME Types, OnceInv, RunCallback PROVE OnceInv'
<1> USE EventManagerAssumption DEF Types
<1> DEFINE e == schedule[nextTime][pos]
           n == Len(ran) + 1
<1>1. /\ stage = "events" /\ stage' = "events" /\ nextTime \in Time
      /\ UNCHANGED <<schedule, nextTime, count>>
      /\ pos' = pos + 1
      /\ pos \in 1..Len(schedule[nextTime])
  BY DEF RunCallback
<1>2. /\ ran \in Seq(Event) /\ e \in Event /\ ran' = Append(ran, e)
  BY <1>1 DEF RunCallback
<1>3. /\ Len(ran) \in Nat
      /\ Len(ran') = n /\ ran'[n] = e
      /\ \A j \in 1..Len(ran) : ran'[j] = ran[j]
  BY <1>2
<1>4. \A u \in Time : Len(schedule[u]) \in Nat /\ DOMAIN schedule[u] = 1..Len(schedule[u])
  OBVIOUS
<1>5. Uncalled(nextTime)' = Uncalled(nextTime) \ {pos} /\ pos \in Uncalled(nextTime)
  BY <1>1, <1>4 DEF Uncalled
<1>6. \A u \in Time \ {nextTime} : Uncalled(u)' = Uncalled(u)
  BY <1>1 DEF Uncalled
<1>7. \A u \in Time : Uncalled(u) \subseteq 1..Len(schedule[u])
  BY <1>4 DEF Uncalled
<1>8. \A j \in 1..Len(ran) : ran[j] # e
  BY <1>1, <1>5 DEF OnceInv, NotYet
<1> HIDE DEF Types
<1>9. ScheduledOnce'
  BY <1>1 DEF OnceInv, ScheduledOnce
<1>10. Numbered'
  BY <1>1, <1>3 DEF OnceInv, Numbered
<1>11. RanOnce'
  BY <1>3, <1>8 DEF OnceInv, RanOnce
<1>12. NotYet'
  <2> SUFFICES ASSUME NEW u \in Time, NEW i \in 1..Len(schedule[u]), i \in Uncalled(u)',
                      NEW j \in 1..n
               PROVE  ran'[j] # schedule[u][i]
    BY <1>1, <1>3 DEF NotYet
  <2>1. i \in Uncalled(u) /\ ~(u = nextTime /\ i = pos)
    BY <1>1, <1>5, <1>6
  <2>2. CASE j = n
    BY <1>1, <1>3, <2>1, <2>2 DEF OnceInv, ScheduledOnce
  <2>3. CASE j # n
    BY <1>3, <2>1, <2>3 DEF OnceInv, NotYet
  <2> QED
    BY <2>2, <2>3
<1>13. Kept'
  <2> SUFFICES ASSUME NEW x \in 1..count
               PROVE  \/ \E j \in 1..n : ran'[j] = x
                      \/ \E u \in Time : \E i \in Uncalled(u)' : schedule[u][i] = x
    BY <1>1, <1>3 DEF Kept
  <2>1. ASSUME NEW j \in 1..Len(ran), ran[j] = x PROVE \E k \in 1..n : ran'[k] = x
    BY <1>3, <2>1
  <2>2. ASSUME NEW u \in Time, NEW i \in Uncalled(u), schedule[u][i] = x
        PROVE  \/ \E j \in 1..n : ran'[j] = x
               \/ i \in Uncalled(u)'
    <3>1. CASE u = nextTime /\ i = pos
      BY <1>3, <2>2, <3>1
    <3>2. CASE ~(u = nextTime /\ i = pos)
      BY <1>1, <1>5, <1>6, <3>2
    <3> QED
      BY <3>1, <3>2
  <2> QED
    BY <2>1, <2>2 DEF OnceInv, Kept
<1> QED
  BY <1>9, <1>10, <1>11, <1>12, <1>13 DEF OnceInv

LEMMA DeleteOnce == ASSUME Types, OnceInv, DeleteKey PROVE OnceInv'
<1> USE EventManagerAssumption DEF Types
<1> PICK k \in Time : k = nextTime
  BY DEF DeleteKey
<1>1. /\ stage = "events" /\ stage' = "due"
      /\ UNCHANGED <<ran, count>>
      /\ pos > Len(schedule[k])
      /\ schedule' = [schedule EXCEPT ![k] = <<>>]
  BY DEF DeleteKey
<1>2. schedule'[k] = <<>> /\ \A u \in Time \ {k} : schedule'[u] = schedule[u]
  BY <1>1
<1>3. \A u \in Time : Len(schedule[u]) \in Nat /\ DOMAIN schedule[u] = 1..Len(schedule[u])
  OBVIOUS
<1>4. Uncalled(k) = {} /\ Uncalled(k)' = {}
  BY <1>1, <1>2, <1>3 DEF Uncalled
<1>5. \A u \in Time \ {k} : Uncalled(u)' = Uncalled(u)
  BY <1>1, <1>2 DEF Uncalled
<1>6. Len(schedule'[k]) = 0
  BY <1>2
<1> HIDE DEF Types
<1>7. ScheduledOnce'
  BY <1>2, <1>6 DEF OnceInv, ScheduledOnce
<1>8. Numbered' /\ RanOnce'
  BY <1>1, <1>2, <1>6 DEF OnceInv, Numbered, RanOnce
<1>9. NotYet'
  BY <1>1, <1>2, <1>4, <1>5 DEF OnceInv, NotYet
<1>10. Kept'
  BY <1>1, <1>2, <1>4, <1>5 DEF OnceInv, Kept
<1> QED
  BY <1>7, <1>8, <1>9, <1>10 DEF OnceInv

LEMMA StepOnce == Types /\ OnceInv /\ [ManagerNext]_managerVars => OnceInv'
<1> SUFFICES ASSUME Types, OnceInv, [ManagerNext]_managerVars PROVE OnceInv'
  OBVIOUS
<1>1. ASSUME UNCHANGED <<schedule, count, ran>>,
             \A t \in Time : Uncalled(t)' = Uncalled(t)
      PROVE  OnceInv'
  BY <1>1 DEF OnceInv, ScheduledOnce, Numbered, NotYet, RanOnce, Kept
<1>2. CASE \/ UNCHANGED managerVars \/ Terminate \/ EmptyPoller \/ Tick \/ Run \/ Leave \/ Loop
           \/ StartPoll \/ PollWakes \/ PollTimesOut \/ HandlersDone \/ NothingDue
  <2>1. /\ UNCHANGED <<schedule, count, ran>>
        /\ \/ UNCHANGED <<stage, nextTime, pos>>
           \/ stage # "events" /\ stage' # "events"
    BY <1>2
    DEF managerVars, Terminate, EmptyPoller, Tick, Run, Leave, Loop, StartPoll, PollWakes,
        PollTimesOut, HandlersDone, NothingDue
  <2>2. \A t \in Time : Uncalled(t)' = Uncalled(t)
    BY <2>1 DEF Uncalled
  <2> QED
    BY <1>1, <2>1, <2>2, Zenon
<1>3. CASE TakeDue
  <2>1. stage = "due" /\ pos' = 1 /\ UNCHANGED <<schedule, count, ran>>
    BY <1>3 DEF TakeDue
  <2>2. \A t \in Time : DOMAIN schedule[t] = 1..Len(schedule[t])
    BY DEF Types
  <2>3. \A t \in Time : Uncalled(t)' = Uncalled(t)
    BY <2>1, <2>2 DEF Uncalled
  <2> QED
    BY <1>1, <2>1, <2>3, Zenon
<1> QED
  BY <1>2, <1>3, ScheduleOnce, CallOnce, DeleteOnce DEF ManagerNext, RunStep

\* THEOREM.  Whatever the callbacks schedule while they run, every callback that
\* was given to scheduleEvent() is either still to be called or was called, and
\* none is called twice.
THEOREM CallbacksRunOnce == ManagerSpec => []EachOnce
  BY InitOnce, StepOnce, OnceInvImplies, TypesInvariant, PTL DEF ManagerSpec

\* The array of a key is no longer than there are callbacks, since they differ.
LEMMA ArrayBound ==
  ASSUME Types, ScheduledOnce, NEW t \in Time
  PROVE  Len(schedule[t]) <= MaxEvents
<1> DEFINE n == Len(schedule[t])
<1>1. n \in Nat /\ schedule[t] \in [1..n -> Event]
  BY DEF Types
<1>2. IsFiniteSet(1..n) /\ Cardinality(1..n) = n
  <2>1. CASE n = 0
    BY <2>1, FS_EmptySet
  <2>2. CASE n # 0
    BY <1>1, <2>2, FS_Interval
  <2> QED
    BY <2>1, <2>2
<1>3. IsFiniteSet(Event) /\ Cardinality(Event) = MaxEvents
  <2>1. CASE MaxEvents = 0
    BY <2>1, FS_EmptySet DEF Event
  <2>2. CASE MaxEvents # 0
    BY <2>2, FS_Interval, EventManagerAssumption DEF Event
  <2> QED
    BY <2>1, <2>2
<1>4. \A i, j \in 1..n : schedule[t][i] = schedule[t][j] => i = j
  BY DEF ScheduledOnce
<1> HIDE DEF n
<1>5. ~(MaxEvents < n)
  BY <1>1, <1>2, <1>3, <1>4, FS_PigeonHole
<1> QED
  BY <1>1, <1>5, EventManagerAssumption DEF n

PosBound == pos <= MaxEvents + 1

LEMMA StepPosBound == Types /\ OnceInv /\ PosBound /\ [ManagerNext]_managerVars => PosBound'
<1> SUFFICES ASSUME Types, OnceInv, PosBound, [ManagerNext]_managerVars PROVE PosBound'
  OBVIOUS
<1>1. CASE RunCallback
  <2>1. nextTime \in Time /\ pos <= Len(schedule[nextTime]) /\ pos' = pos + 1
    BY <1>1 DEF RunCallback, Types
  <2>2. Len(schedule[nextTime]) <= MaxEvents
    BY <2>1, ArrayBound DEF OnceInv
  <2> QED
    BY <2>1, <2>2, EventManagerAssumption DEF Types, PosBound
<1>2. CASE ~RunCallback
  <2>1. pos' = pos \/ pos' = 1
    BY <1>2
    DEF ManagerNext, RunStep, managerVars, ScheduleEvent, Terminate, EmptyPoller, Tick, Run, Leave, Loop,
        StartPoll, PollWakes, PollTimesOut, HandlersDone, TakeDue, NothingDue, DeleteKey
  <2> QED
    BY <2>1, EventManagerAssumption DEF PosBound
<1> QED
  BY <1>1, <1>2

\* THEOREM.  Every variable keeps its type: the end of the poll's timeout stays
\* within the width of the unsigned difference, and the iterator over the due
\* callbacks within the array, which other callbacks extend while it runs.
THEOREM EventManagerTyped == ManagerSpec => []ManagerTypeOK
<1>1. ManagerInit => PosBound
  BY EventManagerAssumption DEF ManagerInit, PosBound
<1>2. Types /\ Flags /\ OnceInv /\ PosBound /\ [ManagerNext]_managerVars => PosBound'
  BY StepPosBound
<1>3. Types /\ Flags /\ PosBound => ManagerTypeOK
  BY EventManagerAssumption DEF Types, Flags, PosBound, ManagerTypeOK
<1> QED
  BY <1>1, <1>2, <1>3, InitOnce, StepOnce, TypesInvariant, PTL DEF ManagerSpec
=============================================================================
