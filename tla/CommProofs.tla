----------------------------- MODULE CommProofs -----------------------------
(***************************************************************************)
(* For any number of threads, connections and restarts of the poller       *)
(* thread, with handlers that throw and calls that overlap stop(): the     *)
(* poller has exactly the sockets that are open, and a connection is       *)
(* terminated once.  A second terminate() would need a second _NewClient   *)
(* for the connection, so the argument is about the messages in the        *)
(* control pipes and the threads that wait for them.                       *)
(***************************************************************************)
EXTENDS Comm, Integers, SequenceTheorems, WellFoundedInduction, TLAPS

Pollables == ({"pipe"} \X Starts) \cup {Listener} \cup ({"conn"} \X Conns)

ConnState == [out : 0 .. MaxStarts, sock : BOOLEAN, close : BOOLEAN, outBuf : Int,
              waiters : SUBSET Threads, terms : Nat, unsent : Int]

Messages ==
  [kind : {"server", "terminate"}, from : Threads]
    \cup [kind : {"client", "data", "sync", "close", "closeSync"}, from : Threads, conn : Conns]
    \cup [kind : {"data", "close"}, conn : Conns]

Replies == {"none", "error", "done"}

ListenerState ==
  [sock : {"none", "open", "pending", "error", "closed"}, out : 0 .. MaxStarts]

CommTypes ==
  /\ starts \in 0 .. MaxStarts
  /\ thread \in 0 .. starts
  /\ queue \in [Starts -> Seq(Messages)]
  /\ pc \in [Threads -> {"idle", "wait", "result", "join"}]
  /\ msg \in [Threads -> Messages \cup {NoMessage}]
  /\ reply \in [Threads -> Replies]
  /\ polled \in Seq(Pollables)
  /\ iter \in Nat \ {0}
  /\ conn \in [Conns -> ConnState]
  /\ listener \in ListenerState

\* The messages whose sender is answered.
Awaited == {"client", "server", "closeSync", "sync"}

\* The sender of such a message waits for the answer to it and to nothing else;
\* the connection of a _NewClient is not connected yet.
PendingMessage(m) ==
  /\ msg[m.from] = m
  /\ pc[m.from] = Then[m.kind]
  /\ reply[m.from] = "none"
  /\ \A c \in Conns : m.from \notin conn[c].waiters
  /\ m.kind = "client" => conn[m.conn].out = 0 /\ m.conn \notin Served

Pending ==
  \A k \in Starts : \A i \in 1 .. Len(queue[k]) :
    queue[k][i].kind \in Awaited => PendingMessage(queue[k][i])

\* A thread has one message under way, a connection one _NewClient.
OnePending ==
  \A k, l \in Starts : \A i \in 1 .. Len(queue[k]), j \in 1 .. Len(queue[l]) :
    /\ queue[k][i].kind \in Awaited
    /\ queue[l][j].kind \in Awaited
    /\ \/ queue[k][i].from = queue[l][j].from
       \/ /\ queue[k][i].kind = "client" /\ queue[l][j].kind = "client"
          /\ queue[k][i].conn = queue[l][j].conn
    => k = l /\ i = j

\* A responder waits in getResult() for an answer from its connection.
Responder(c, t) ==
  pc[t] = "result" /\ reply[t] = "none" /\ msg[t].kind = "sync" /\ msg[t].conn = c

Responders == \A c \in Conns : \A t \in conn[c].waiters : Responder(c, t)

NoAnswerYet == \A t \in Threads : pc[t] \in {"idle", "join"} => reply[t] = "none"

\* The life of a connection: not connected, open, terminated.
Lives ==
  \A c \in Conns :
    /\ conn[c].out = 0 => ~conn[c].sock /\ conn[c].terms = 0
    /\ conn[c].sock => conn[c].terms = 0
    /\ conn[c].terms <= 1
    /\ conn[c].terms = 1 => conn[c].close /\ (AddResponder = "fail" => conn[c].waiters = {})

\* The pipes in the poller are those of the threads that were started.
Pipes ==
  /\ \A k \in Starts : Control(k) \in Range(polled) => k <= starts
  /\ at = "drain" => draining \in Starts
  /\ listener.sock # "none" => listener.out \in Starts

CallInv == Pending /\ OnePending /\ Responders /\ NoAnswerYet

CommInv == CommTypes /\ CallInv /\ Lives /\ Pipes /\ PolledIsOpen

-----------------------------------------------------------------------------
(* Messages, sequences and pollables.                                      *)

\* What is in a message depends on its kind.
LEMMA MessageParts ==
  ASSUME NEW m \in Messages
  PROVE  /\ m.kind \in Awaited => m.from \in Threads
         /\ m.kind \in {"client", "data", "sync", "close", "closeSync"} => m.conn \in Conns
         /\ m.kind \in Awaited \cup {"data", "close", "terminate"}
  BY DEF Messages, Awaited

\* The tags tell the pollables apart.
LEMMA PollableParts ==
  ASSUME NEW p \in Pollables
  PROVE  /\ p[1] = "pipe" => p[2] \in Starts /\ p = Control(p[2])
         /\ p[1] = "listener" => p = Listener
         /\ p[1] = "conn" => p[2] \in Conns /\ p = Sock(p[2])
  BY DEF Pollables, Control, Listener, Sock

LEMMA PollablesDiffer ==
  ASSUME NEW k, NEW l, NEW c, NEW d
  PROVE  /\ Control(k) # Listener /\ Control(k) # Sock(c) /\ Listener # Sock(c)
         /\ Control(k) = Control(l) => k = l
         /\ Sock(c) = Sock(d) => c = d
  BY DEF Control, Listener, Sock

LEMMA PollablesTyped ==
  /\ \A k \in Starts : Control(k) \in Pollables
  /\ Listener \in Pollables
  /\ \A c \in Conns : Sock(c) \in Pollables
  BY DEF Pollables, Control, Listener, Sock

\* Poller.add() at the end of the list.
LEMMA AppendRange ==
  ASSUME NEW S, NEW s \in Seq(S), NEW x \in S
  PROVE  /\ Append(s, x) \in Seq(S)
         /\ Range(Append(s, x)) = Range(s) \cup {x}
         /\ IsInjective(s) /\ x \notin Range(s) => IsInjective(Append(s, x))
<1>1. /\ Append(s, x) \in Seq(S) /\ Len(s) \in Nat /\ DOMAIN s = 1 .. Len(s)
      /\ DOMAIN Append(s, x) = 1 .. Len(s) + 1
      /\ \A i \in 1 .. Len(s) : Append(s, x)[i] = s[i]
      /\ Append(s, x)[Len(s) + 1] = x
  OBVIOUS
<1> DEFINE a == Append(s, x)
<1> HIDE DEF a
<1>2. Range(a) = Range(s) \cup {x}
  BY <1>1 DEF Range, a
<1>3. IsInjective(s) /\ x \notin Range(s) => IsInjective(a)
  BY <1>1 DEF IsInjective, Range, a
<1> QED
  BY <1>1, <1>2, <1>3 DEF a

\* Poller.remove().
LEMMA WithoutRange ==
  ASSUME NEW S, NEW s \in Seq(S), NEW x, IsInjective(s)
  PROVE  /\ Without(s, x) \in Seq(S)
         /\ Range(Without(s, x)) = Range(s) \ {x}
         /\ IsInjective(Without(s, x))
<1>1. CASE x \notin Range(s)
  BY <1>1 DEF Without
<1>2. CASE x \in Range(s)
  <2>1. PICK i \in 1 .. Len(s) : s[i] = x /\ Without(s, x) = RemoveAt(s, i)
    <3>1. DOMAIN s = 1 .. Len(s)
      OBVIOUS
    <3>2. \E i \in DOMAIN s : s[i] = x
      BY <1>2 DEF Range
    <3> QED
      BY <1>2, <3>1, <3>2 DEF Without
  <2>2. Len(s) \in Nat /\ i \in Nat /\ i >= 1 /\ i <= Len(s)
    OBVIOUS
  <2>3. /\ SubSeq(s, 1, i - 1) \in Seq(S) /\ Len(SubSeq(s, 1, i - 1)) = i - 1
        /\ \A j \in 1 .. i - 1 : SubSeq(s, 1, i - 1)[j] = s[j]
    BY <2>2
  <2>4. /\ SubSeq(s, i + 1, Len(s)) \in Seq(S) /\ Len(SubSeq(s, i + 1, Len(s))) = Len(s) - i
        /\ \A j \in 1 .. Len(s) - i : SubSeq(s, i + 1, Len(s))[j] = s[i + j]
    BY <2>2
  <2> DEFINE a == SubSeq(s, 1, i - 1)
             b == SubSeq(s, i + 1, Len(s))
             r == RemoveAt(s, i)
  <2>5. /\ r \in Seq(S) /\ Len(r) = Len(s) - 1
        /\ \A j \in 1 .. i - 1 : r[j] = s[j]
        /\ \A j \in i .. Len(s) - 1 : r[j] = s[j + 1]
    <3>1. r = a \o b
      BY DEF RemoveAt
    <3> HIDE DEF a, b, r
    <3>2. a \in Seq(S) /\ b \in Seq(S) /\ Len(a) = i - 1 /\ Len(b) = Len(s) - i
      BY <2>3, <2>4 DEF a, b
    <3>3. r \in Seq(S) /\ Len(r) = Len(s) - 1
      BY <2>2, <3>1, <3>2
    <3>4. \A j \in 1 .. i - 1 : r[j] = a[j]
      BY <2>2, <3>1, <3>2
    <3>5. \A j \in i .. Len(s) - 1 : r[j] = b[j - (i - 1)]
      BY <2>2, <3>1, <3>2
    <3>6. \A j \in i .. Len(s) - 1 : b[j - (i - 1)] = s[j + 1]
      <4>1. ASSUME NEW j \in i .. Len(s) - 1 PROVE b[j - (i - 1)] = s[j + 1]
        <5>1. j - (i - 1) \in 1 .. Len(s) - i /\ i + (j - (i - 1)) = j + 1
          BY <2>2
        <5> QED
          BY <2>4, <5>1 DEF b
      <4> QED
        BY <4>1
    <3> QED
      BY <2>3, <3>3, <3>4, <3>5, <3>6 DEF a
  <2> HIDE DEF r
  <2>6. DOMAIN r = 1 .. Len(s) - 1 /\ DOMAIN s = 1 .. Len(s)
    BY <2>5
  <2>7. \A j \in DOMAIN r : \E n \in DOMAIN s : n # i /\ r[j] = s[n] /\ n = (IF j < i THEN j ELSE j + 1)
    BY <2>2, <2>5, <2>6
  <2>8. IsInjective(r)
    BY <2>2, <2>6, <2>7 DEF IsInjective
  <2>9. \A n \in DOMAIN s : n # i => \E j \in DOMAIN r : r[j] = s[n]
    <3>1. ASSUME NEW n \in DOMAIN s, n # i PROVE \E j \in DOMAIN r : r[j] = s[n]
      <4>1. CASE n < i
        BY <2>2, <2>5, <2>6, <3>1, <4>1
      <4>2. CASE n > i
        <5>1. n - 1 \in DOMAIN r /\ r[n - 1] = s[n]
          BY <2>2, <2>5, <2>6, <3>1, <4>2
        <5> QED
          BY <5>1
      <4> QED
        BY <2>2, <2>6, <3>1, <4>1, <4>2
    <3> QED
      BY <3>1
  <2>10. Range(r) = Range(s) \ {x}
    BY <2>1, <2>6, <2>7, <2>9 DEF Range, IsInjective
  <2> QED
    BY <2>1, <2>5, <2>8, <2>10 DEF r
<1> QED
  BY <1>1, <1>2
\* A callback is called for a pollable that is in the list.
LEMMA ReadyIsPolled ==
  ASSUME polled \in Seq(Pollables), iter \in Nat \ {0}, NextReady # 0
  PROVE  /\ NextReady \in Nat \ {0}
         /\ polled[NextReady] \in Pollables
         /\ polled[NextReady] \in Range(polled)
<1> DEFINE hits == {i \in iter .. Len(polled) : \E e \in revents : e[1] = polled[i]}
           Less == {p \in Nat \X Nat : p[1] < p[2]}
<1>1. hits \subseteq 1 .. Len(polled) /\ Len(polled) \in Nat /\ DOMAIN polled = 1 .. Len(polled)
  OBVIOUS
<1>2. hits # {} /\ NextReady = Min(hits)
  BY DEF NextReady
<1> HIDE DEF hits
<1>3. hits \subseteq Nat
  BY <1>1
<1>4. IsWellFoundedOn(Less, Nat)
  BY NatLessThanWellFounded, Zenon DEF OpToRel
<1>5. PICK i \in hits : \A j \in hits : ~(<<j, i>> \in Less)
  <2> HIDE DEF Less
  <2> QED
    BY <1>2, <1>3, <1>4, WFMin, Zenon
<1>6. \A j \in hits : i <= j
  <2> SUFFICES ASSUME NEW j \in hits, ~(i <= j) PROVE FALSE
    OBVIOUS
  <2>1. i \in Nat /\ j \in Nat /\ j < i
    BY <1>3
  <2> QED
    BY <1>5, <2>1
<1>7. NextReady \in hits
  BY <1>2, <1>6 DEF Min
<1>8. NextReady \in DOMAIN polled /\ NextReady \in Nat \ {0}
  BY <1>1, <1>7
<1> QED
  BY <1>1, <1>8 DEF Range

\* The messages after an Append: the old ones in their places, and the new one.
LEMMA AppendedMessage ==
  ASSUME CommTypes, NEW k \in Starts, NEW m \in Messages, Enqueue(k, m)
  PROVE  /\ queue' \in [Starts -> Seq(Messages)]
         /\ \A l \in Starts : \A i \in 1 .. Len(queue'[l]) :
              \/ i \in 1 .. Len(queue[l]) /\ queue'[l][i] = queue[l][i]
              \/ l = k /\ i = Len(queue[k]) + 1 /\ queue'[l][i] = m
<1> DEFINE q == queue[k]
           r == Append(queue[k], m)
<1>1. queue' = [queue EXCEPT ![k] = r] /\ queue \in [Starts -> Seq(Messages)]
  BY DEF CommTypes, Enqueue
<1>2. /\ r \in Seq(Messages) /\ Len(r) = Len(q) + 1 /\ Len(q) \in Nat
      /\ \A i \in 1 .. Len(q) : r[i] = q[i]
      /\ r[Len(q) + 1] = m
  BY <1>1
<1>3. queue'[k] = r /\ \A l \in Starts : l # k => queue'[l] = queue[l]
  BY <1>1
<1>4. queue' \in [Starts -> Seq(Messages)]
  BY <1>1, <1>2
<1> HIDE DEF r
<1>5. ASSUME NEW l \in Starts, NEW i \in 1 .. Len(queue'[l])
      PROVE  \/ i \in 1 .. Len(queue[l]) /\ queue'[l][i] = queue[l][i]
             \/ l = k /\ i = Len(queue[k]) + 1 /\ queue'[l][i] = m
  BY <1>2, <1>3
<1> QED
  BY <1>4, <1>5

\* The messages after the first one of a control has been taken.
LEMMA TakenMessage ==
  ASSUME CommTypes, NEW k \in Starts, queue[k] # <<>>,
         queue' = [queue EXCEPT ![k] = Tail(@)]
  PROVE  /\ queue' \in [Starts -> Seq(Messages)]
         /\ Head(queue[k]) \in Messages /\ Head(queue[k]) = queue[k][1] /\ 1 \in 1 .. Len(queue[k])
         /\ \A l \in Starts : \A i \in 1 .. Len(queue'[l]) :
              \E j \in 1 .. Len(queue[l]) : /\ queue'[l][i] = queue[l][j]
                                            /\ j = IF l = k THEN i + 1 ELSE i
<1> DEFINE q == queue[k]
           r == Tail(queue[k])
<1>1. queue' = [queue EXCEPT ![k] = r] /\ queue \in [Starts -> Seq(Messages)]
  BY DEF CommTypes
<1>2. /\ r \in Seq(Messages) /\ Len(r) = Len(q) - 1 /\ Len(q) \in Nat \ {0}
      /\ \A i \in 1 .. Len(r) : r[i] = q[i + 1]
      /\ Head(q) = q[1] /\ Head(q) \in Messages
  BY <1>1
<1>3. queue'[k] = r /\ \A l \in Starts : l # k => queue'[l] = queue[l]
  BY <1>1
<1>4. queue' \in [Starts -> Seq(Messages)]
  BY <1>1, <1>2
<1> HIDE DEF r
<1>5. ASSUME NEW l \in Starts, NEW i \in 1 .. Len(queue'[l])
      PROVE  \E j \in 1 .. Len(queue[l]) : /\ queue'[l][i] = queue[l][j]
                                           /\ j = IF l = k THEN i + 1 ELSE i
  <2>1. CASE l = k
    BY <1>2, <1>3, <2>1
  <2>2. CASE l # k
    BY <1>3, <2>2
  <2> QED
    BY <2>1, <2>2
<1> QED
  BY <1>2, <1>4, <1>5

\* What is taken is not there any more, and nothing else of its sender is.
LEMMA TakenOnce ==
  ASSUME CommTypes, OnePending, NEW k \in Starts, queue[k] # <<>>,
         queue' = [queue EXCEPT ![k] = Tail(@)]
  PROVE  /\ OnePending'
         /\ \A l \in Starts : \A i \in 1 .. Len(queue'[l]) :
              /\ queue'[l][i].kind \in Awaited /\ Head(queue[k]).kind \in Awaited
                   => queue'[l][i].from # Head(queue[k]).from
              /\ queue'[l][i].kind = "client" /\ Head(queue[k]).kind = "client"
                   => queue'[l][i].conn # Head(queue[k]).conn
<1>1. /\ queue \in [Starts -> Seq(Messages)] /\ queue' \in [Starts -> Seq(Messages)]
      /\ Head(queue[k]) = queue[k][1] /\ 1 \in 1 .. Len(queue[k])
      /\ \A l \in Starts : \A i \in 1 .. Len(queue'[l]) :
           \E j \in 1 .. Len(queue[l]) : /\ queue'[l][i] = queue[l][j]
                                         /\ j = IF l = k THEN i + 1 ELSE i
  BY TakenMessage DEF CommTypes
<1>2. "client" \in Awaited
  BY DEF Awaited
<1>3. OnePending'
  <2> SUFFICES ASSUME NEW l \in Starts, NEW n \in Starts,
                      NEW i \in 1 .. Len(queue'[l]), NEW j \in 1 .. Len(queue'[n]),
                      queue'[l][i].kind \in Awaited, queue'[n][j].kind \in Awaited,
                      \/ queue'[l][i].from = queue'[n][j].from
                      \/ /\ queue'[l][i].kind = "client" /\ queue'[n][j].kind = "client"
                         /\ queue'[l][i].conn = queue'[n][j].conn
               PROVE  l = n /\ i = j
    BY DEF OnePending
  <2>1. PICK a \in 1 .. Len(queue[l]) : queue'[l][i] = queue[l][a] /\ a = IF l = k THEN i + 1 ELSE i
    BY <1>1
  <2>2. PICK b \in 1 .. Len(queue[n]) : queue'[n][j] = queue[n][b] /\ b = IF n = k THEN j + 1 ELSE j
    BY <1>1
  <2>3. l = n /\ a = b
    BY <2>1, <2>2 DEF OnePending
  <2> QED
    BY <2>1, <2>2, <2>3
<1>4. ASSUME NEW l \in Starts, NEW i \in 1 .. Len(queue'[l]),
             queue'[l][i].kind \in Awaited, Head(queue[k]).kind \in Awaited,
             \/ queue'[l][i].from = Head(queue[k]).from
             \/ /\ queue'[l][i].kind = "client" /\ Head(queue[k]).kind = "client"
                /\ queue'[l][i].conn = Head(queue[k]).conn
      PROVE  FALSE
  <2>1. PICK a \in 1 .. Len(queue[l]) : queue'[l][i] = queue[l][a] /\ a = IF l = k THEN i + 1 ELSE i
    BY <1>1
  <2>2. l = k /\ a = 1
    BY <1>1, <1>4, <2>1 DEF OnePending
  <2>3. i \in Nat /\ i >= 1
    BY <1>1
  <2> QED
    BY <2>1, <2>2, <2>3
<1> QED
  BY <1>2, <1>3, <1>4
-----------------------------------------------------------------------------
(* The methods of a connection.                                            *)

WorldType == [conn : [Conns -> ConnState], polled : Seq(Pollables), reply : [Threads -> Replies]]

\* One connection of a world may differ from what it was; the others do not.
Others(w, c) == \A d \in Conns : d # c => w.conn[d] = conn[d]

LEMMA WorldTyped ==
  ASSUME CommTypes
  PROVE  World \in WorldType /\ World.conn = conn /\ World.polled = polled /\ World.reply = reply
  BY DEF CommTypes, World, WorldType

LEMMA AnswerFacts ==
  ASSUME NEW w \in WorldType, NEW ts, NEW r \in Replies
  PROVE  /\ Answer(w, ts, r) \in WorldType
         /\ Answer(w, ts, r).conn = w.conn
         /\ Answer(w, ts, r).polled = w.polled
         /\ \A t \in Threads : Answer(w, ts, r).reply[t] = IF t \in ts THEN r ELSE w.reply[t]
<1> DEFINE f == [t \in Threads |-> IF t \in ts THEN r ELSE w.reply[t]]
<1>1. f \in [Threads -> Replies]
  BY DEF WorldType
<1>2. \A t \in Threads : f[t] = IF t \in ts THEN r ELSE w.reply[t]
  OBVIOUS
<1>3. Answer(w, ts, r) = [w EXCEPT !.reply = f]
  BY DEF Answer
<1> HIDE DEF f
<1> QED
  BY <1>1, <1>2, <1>3 DEF WorldType

\* The world with another state of connection c.
LEMMA ConnChanged ==
  ASSUME NEW w \in WorldType, NEW c \in Conns, NEW s \in ConnState
  PROVE  /\ [w EXCEPT !.conn[c] = s] \in WorldType
         /\ [w EXCEPT !.conn[c] = s].conn[c] = s
         /\ \A d \in Conns : d # c => [w EXCEPT !.conn[c] = s].conn[d] = w.conn[d]
         /\ [w EXCEPT !.conn[c] = s].polled = w.polled
         /\ [w EXCEPT !.conn[c] = s].reply = w.reply
<1> DEFINE f == [w.conn EXCEPT ![c] = s]
<1>1. f \in [Conns -> ConnState] /\ f[c] = s /\ \A d \in Conns : d # c => f[d] = w.conn[d]
  BY DEF WorldType
<1>2. [w EXCEPT !.conn[c] = s] = [w EXCEPT !.conn = f]
  BY DEF WorldType
<1> HIDE DEF f
<1> QED
  BY <1>1, <1>2 DEF WorldType

\* removeFrom() takes the socket away once; its waiters fail.
LEMMA RemoveFromFacts ==
  ASSUME CommTypes, IsInjective(polled), NEW c \in Conns
  PROVE  LET w == removeFrom(World, c) IN
         /\ w \in WorldType
         /\ Others(w, c)
         /\ ~w.conn[c].sock /\ w.conn[c].close /\ w.conn[c].out = conn[c].out
         /\ conn[c].sock => /\ w.conn[c].terms = conn[c].terms + 1
                            /\ w.conn[c].waiters = {}
                            /\ w.polled = Without(polled, Sock(c))
                            /\ \A t \in Threads :
                                 w.reply[t] = IF t \in conn[c].waiters THEN "error" ELSE reply[t]
         /\ ~conn[c].sock => /\ w.conn[c].terms = conn[c].terms
                             /\ w.conn[c].waiters = conn[c].waiters
                             /\ w.polled = polled
                             /\ w.reply = reply
<1> DEFINE closed == [World EXCEPT !.conn[c].close = TRUE]
           s1 == [conn[c] EXCEPT !.close = TRUE]
<1>0. /\ World \in WorldType /\ World.conn = conn /\ World.polled = polled /\ World.reply = reply
      /\ conn[c] \in ConnState
  BY WorldTyped DEF CommTypes
<1>1. s1 \in ConnState /\ s1.close = TRUE /\ s1.out = conn[c].out /\ s1.sock = conn[c].sock
      /\ s1.terms = conn[c].terms /\ s1.waiters = conn[c].waiters
  BY <1>0 DEF ConnState
<1>2. closed = [World EXCEPT !.conn[c] = s1]
  BY <1>0 DEF World
<1> HIDE DEF s1, closed
<1>3. /\ closed \in WorldType /\ closed.conn[c] = s1
      /\ \A d \in Conns : d # c => closed.conn[d] = conn[d]
      /\ closed.polled = polled /\ closed.reply = reply
  BY <1>0, <1>1, <1>2, ConnChanged
<1>4. CASE ~conn[c].sock
  <2>1. removeFrom(World, c) = closed
    BY <1>0, <1>4 DEF removeFrom, closed
  <2> QED
    BY <1>1, <1>3, <1>4, <2>1 DEF Others
<1>5. CASE conn[c].sock
  <2> DEFINE s2 == [s1 EXCEPT !.sock = FALSE]
             w2 == [closed EXCEPT !.conn[c].sock = FALSE, !.polled = Without(@, Sock(c))]
             w3 == [closed EXCEPT !.conn[c] = s2]
             w4 == Answer(w2, w2.conn[c].waiters, "error")
             s5 == [s2 EXCEPT !.terms = @ + 1, !.waiters = {}]
  <2>1. removeFrom(World, c) = terminate(w2, c)
    BY <1>0, <1>5 DEF removeFrom, closed
  <2>2. /\ s2 \in ConnState /\ s2.sock = FALSE /\ s2.close = TRUE /\ s2.out = conn[c].out
        /\ s2.terms = conn[c].terms /\ s2.waiters = conn[c].waiters
    BY <1>1 DEF ConnState
  <2> HIDE DEF s2
  <2>3. /\ s5 \in ConnState /\ s5.sock = FALSE /\ s5.close = TRUE /\ s5.out = conn[c].out
        /\ s5.terms = conn[c].terms + 1 /\ s5.waiters = {}
    <3> DEFINE n == conn[c].terms + 1
    <3>1. n \in Nat
      BY <1>0 DEF ConnState
    <3>2. s5 = [s2 EXCEPT !.terms = n, !.waiters = {}]
      BY <2>2
    <3> HIDE DEF s5, n
    <3> QED
      BY <2>2, <3>1, <3>2 DEF ConnState, n
  <2>4. Without(polled, Sock(c)) \in Seq(Pollables)
    BY WithoutRange DEF CommTypes
  <2>5. w2 = [w3 EXCEPT !.polled = Without(polled, Sock(c))]
    BY <1>3 DEF WorldType, s2
  <2>6. /\ w3 \in WorldType /\ w3.conn[c] = s2
        /\ \A d \in Conns : d # c => w3.conn[d] = conn[d]
        /\ w3.polled = polled /\ w3.reply = reply
    BY <1>3, <2>2, ConnChanged
  <2> HIDE DEF w3
  <2>7. /\ w2 \in WorldType /\ w2.conn = w3.conn /\ w2.polled = Without(polled, Sock(c))
        /\ w2.reply = reply
    BY <2>4, <2>5, <2>6 DEF WorldType
  <2> HIDE DEF w2
  <2>8. /\ w4 \in WorldType /\ w4.conn = w3.conn /\ w4.polled = Without(polled, Sock(c))
        /\ \A t \in Threads : w4.reply[t] = IF t \in conn[c].waiters THEN "error" ELSE reply[t]
    BY <2>2, <2>6, <2>7, AnswerFacts DEF Replies
  <2>9. terminate(w2, c) = [w4 EXCEPT !.conn[c].terms = @ + 1, !.conn[c].waiters = {}]
    BY DEF terminate
  <2> HIDE DEF w4
  <2>10. terminate(w2, c) = [w4 EXCEPT !.conn[c] = s5]
    BY <2>6, <2>8, <2>9 DEF WorldType
  <2> HIDE DEF s5
  <2>11. /\ terminate(w2, c) \in WorldType
         /\ terminate(w2, c).conn[c] = s5
         /\ \A d \in Conns : d # c => terminate(w2, c).conn[d] = w4.conn[d]
         /\ terminate(w2, c).polled = w4.polled
         /\ terminate(w2, c).reply = w4.reply
    BY <2>3, <2>8, <2>10, ConnChanged
  <2> QED
    BY <1>5, <2>1, <2>3, <2>6, <2>8, <2>11 DEF Others
<1> QED
  BY <1>4, <1>5
\* addConnection() opens the socket.
LEMMA AddConnectionFacts ==
  ASSUME CommTypes, NEW c \in Conns, NEW k \in Starts
  PROVE  LET w == addConnection(World, c, k) IN
         /\ w \in WorldType
         /\ Others(w, c)
         /\ w.conn[c].sock /\ w.conn[c].out = k /\ w.conn[c].terms = conn[c].terms
         /\ w.conn[c].close = conn[c].close /\ w.conn[c].waiters = conn[c].waiters
         /\ w.polled = Append(polled, Sock(c))
         /\ w.reply = reply
<1> DEFINE s1 == [conn[c] EXCEPT !.out = k, !.sock = TRUE]
           w1 == [World EXCEPT !.conn[c] = s1]
           w == addConnection(World, c, k)
<1>0. /\ World \in WorldType /\ World.conn = conn /\ World.polled = polled /\ World.reply = reply
      /\ conn[c] \in ConnState
  BY WorldTyped DEF CommTypes
<1>1. /\ s1 \in ConnState /\ s1.sock = TRUE /\ s1.out = k /\ s1.terms = conn[c].terms
      /\ s1.close = conn[c].close /\ s1.waiters = conn[c].waiters
  <2>1. k \in 0 .. MaxStarts
    BY CommAssumption DEF Starts
  <2> QED
    BY <1>0, <2>1 DEF ConnState
<1>2. w = [w1 EXCEPT !.polled = Append(polled, Sock(c))]
  BY <1>0 DEF addConnection, WorldType
<1>3. Append(polled, Sock(c)) \in Seq(Pollables)
  BY AppendRange, PollablesTyped DEF CommTypes
<1> HIDE DEF s1, w1, w
<1>4. /\ w1 \in WorldType /\ w1.conn[c] = s1
      /\ \A d \in Conns : d # c => w1.conn[d] = conn[d]
      /\ w1.polled = polled /\ w1.reply = reply
  BY <1>0, <1>1, ConnChanged DEF w1
<1>5. w \in WorldType /\ w.conn = w1.conn /\ w.polled = Append(polled, Sock(c)) /\ w.reply = reply
  BY <1>2, <1>3, <1>4 DEF WorldType
<1> QED
  BY <1>1, <1>4, <1>5 DEF Others, w

\* The parts of a connection that tell where it is in its life.
SameLife(s, r) == s.out = r.out /\ s.sock = r.sock /\ s.close = r.close /\ s.terms = r.terms

\* extend() only fills the buffer.
LEMMA ExtendFacts ==
  ASSUME NEW w \in WorldType, NEW c \in Conns
  PROVE  /\ extend(w, c) \in WorldType
         /\ \A d \in Conns : d # c => extend(w, c).conn[d] = w.conn[d]
         /\ SameLife(extend(w, c).conn[c], w.conn[c])
         /\ extend(w, c).conn[c].waiters = w.conn[c].waiters
         /\ extend(w, c).polled = w.polled
         /\ extend(w, c).reply = w.reply
<1> DEFINE n == w.conn[c].outBuf + 1
           s == [w.conn[c] EXCEPT !.outBuf = n]
<1>0. w.conn[c] \in ConnState /\ n \in Int
  BY DEF WorldType, ConnState
<1>1. extend(w, c) = [w EXCEPT !.conn[c] = s]
  BY DEF extend, WorldType
<1> HIDE DEF n
<1>2. s \in ConnState /\ SameLife(s, w.conn[c]) /\ s.waiters = w.conn[c].waiters
  BY <1>0 DEF ConnState, SameLife
<1> HIDE DEF s
<1> QED
  BY <1>1, <1>2, ConnChanged

\* A closed connection of a handler that fails late waiters.
Refuses(c) == AddResponder = "fail" /\ conn[c].close

\* addResponder() fails the waiter of a closed connection, else it waits.
LEMMA AddResponderFacts ==
  ASSUME CommTypes, NEW c \in Conns, NEW t \in Threads
  PROVE  LET w == addResponder(World, c, t) IN
         /\ w \in WorldType
         /\ Others(w, c)
         /\ SameLife(w.conn[c], conn[c])
         /\ w.polled = polled
         /\ Refuses(c) => /\ w.conn[c].waiters = conn[c].waiters
                             /\ \A u \in Threads : w.reply[u] = IF u = t THEN "error" ELSE reply[u]
         /\ ~Refuses(c) => /\ w.conn[c].waiters = conn[c].waiters \cup {t}
                              /\ w.reply = reply
<1>0. /\ World \in WorldType /\ World.conn = conn /\ World.polled = polled /\ World.reply = reply
      /\ conn[c] \in ConnState
  BY WorldTyped DEF CommTypes
<1>1. CASE Refuses(c)
  <2>1. addResponder(World, c, t) = Answer(World, {t}, "error")
    BY <1>0, <1>1 DEF addResponder, Refuses
  <2>2. /\ Answer(World, {t}, "error") \in WorldType
        /\ Answer(World, {t}, "error").conn = conn
        /\ Answer(World, {t}, "error").polled = polled
        /\ \A u \in Threads : Answer(World, {t}, "error").reply[u]
                                = IF u \in {t} THEN "error" ELSE reply[u]
    BY <1>0, AnswerFacts DEF Replies
  <2> QED
    BY <1>1, <2>1, <2>2 DEF Others, SameLife
<1>2. CASE ~Refuses(c)
  <2> DEFINE s == [conn[c] EXCEPT !.waiters = conn[c].waiters \cup {t}]
  <2>1. addResponder(World, c, t) = [World EXCEPT !.conn[c] = s]
    BY <1>0, <1>2 DEF addResponder, World, Refuses
  <2>2. s \in ConnState /\ SameLife(s, conn[c]) /\ s.waiters = conn[c].waiters \cup {t}
    BY <1>0 DEF ConnState, SameLife
  <2> HIDE DEF s
  <2>3. /\ [World EXCEPT !.conn[c] = s] \in WorldType
        /\ [World EXCEPT !.conn[c] = s].conn[c] = s
        /\ \A d \in Conns : d # c => [World EXCEPT !.conn[c] = s].conn[d] = conn[d]
        /\ [World EXCEPT !.conn[c] = s].polled = polled
        /\ [World EXCEPT !.conn[c] = s].reply = reply
    BY <1>0, <2>2, ConnChanged
  <2> QED
    BY <1>2, <2>1, <2>2, <2>3 DEF Others
<1> QED
  BY <1>1, <1>2

\* A round of a connection that goes on: data is sent, a waiter is answered.
LEMMA ProcessFacts ==
  ASSUME CommTypes, NEW c \in Conns, c = Called, NEW n \in Int, NEW ts \in SUBSET Threads
  PROVE  /\ Process(n, ts) \in WorldType
         /\ Others(Process(n, ts), c)
         /\ SameLife(Process(n, ts).conn[c], conn[c])
         /\ Process(n, ts).conn[c].waiters = conn[c].waiters \ ts
         /\ Process(n, ts).polled = polled
         /\ \A t \in Threads : Process(n, ts).reply[t] = IF t \in ts THEN "done" ELSE reply[t]
<1> DEFINE b == conn[c].outBuf - n
           v == conn[c].unsent - n
           s1 == [conn[c] EXCEPT !.outBuf = b, !.unsent = v]
           s2 == [s1 EXCEPT !.waiters = conn[c].waiters \ ts]
           w1 == compact(World, c, n)
           w2 == Answer(w1, ts, "done")
           w3 == [w2 EXCEPT !.conn[c] = s2]
<1>0. /\ World \in WorldType /\ World.conn = conn /\ World.polled = polled /\ World.reply = reply
      /\ conn[c] \in ConnState
  BY WorldTyped DEF CommTypes
<1>1. b \in Int /\ v \in Int
  BY <1>0 DEF ConnState
<1>2. w1 = [World EXCEPT !.conn[c] = s1]
  BY <1>0 DEF compact, WorldType
<1> HIDE DEF b, v
<1>3. s1 \in ConnState /\ SameLife(s1, conn[c]) /\ s1.waiters = conn[c].waiters
  BY <1>0, <1>1 DEF ConnState, SameLife
<1> HIDE DEF s1
<1>4. s2 \in ConnState /\ SameLife(s2, conn[c]) /\ s2.waiters = conn[c].waiters \ ts
  BY <1>3 DEF ConnState, SameLife
<1> HIDE DEF s2, w1
<1>5. /\ w1 \in WorldType /\ w1.conn[c] = s1
      /\ \A d \in Conns : d # c => w1.conn[d] = conn[d]
      /\ w1.polled = polled /\ w1.reply = reply
  BY <1>0, <1>2, <1>3, ConnChanged
<1>6. /\ w2 \in WorldType /\ w2.conn = w1.conn /\ w2.polled = polled
      /\ \A t \in Threads : w2.reply[t] = IF t \in ts THEN "done" ELSE reply[t]
  BY <1>5, AnswerFacts DEF Replies
<1>7. Process(n, ts) = [w2 EXCEPT !.conn[c].waiters = @ \ ts]
  BY DEF Process, w1
<1> HIDE DEF w2, w3
<1>8. Process(n, ts) = w3
  BY <1>3, <1>5, <1>6, <1>7 DEF WorldType, w3, s2
<1>9. /\ w3 \in WorldType /\ w3.conn[c] = s2
      /\ \A d \in Conns : d # c => w3.conn[d] = conn[d]
      /\ w3.polled = polled /\ w3.reply = w2.reply
  BY <1>4, <1>5, <1>6, ConnChanged DEF w3
<1> QED
  BY <1>4, <1>6, <1>8, <1>9 DEF Others

\* What is written but not sent is of no concern here.
LEMMA UnsentFacts ==
  ASSUME NEW w \in WorldType, NEW c \in Conns, NEW v \in Int
  PROVE  LET r == [w EXCEPT !.conn[c].unsent = v] IN
         /\ r \in WorldType
         /\ \A d \in Conns : d # c => r.conn[d] = w.conn[d]
         /\ SameLife(r.conn[c], w.conn[c])
         /\ r.conn[c].waiters = w.conn[c].waiters
         /\ r.polled = w.polled
         /\ r.reply = w.reply
<1> DEFINE s == [w.conn[c] EXCEPT !.unsent = v]
           r == [w EXCEPT !.conn[c].unsent = v]
<1>0. w.conn[c] \in ConnState
  BY DEF WorldType
<1>1. r = [w EXCEPT !.conn[c] = s]
  BY DEF WorldType
<1>2. s \in ConnState /\ SameLife(s, w.conn[c]) /\ s.waiters = w.conn[c].waiters
  BY <1>0 DEF ConnState, SameLife
<1> HIDE DEF s, r
<1>3. /\ r \in WorldType /\ r.conn[c] = s
      /\ \A d \in Conns : d # c => r.conn[d] = w.conn[d]
      /\ r.polled = w.polled /\ r.reply = w.reply
  BY <1>1, <1>2, ConnChanged
<1> QED
  BY <1>2, <1>3 DEF r
-----------------------------------------------------------------------------
(* What a step of the poller thread does to the threads that wait.         *)

\* Nothing has been called.
LEMMA CommInvInit == Init => CommInv
<1> SUFFICES ASSUME Init PROVE CommInv
  OBVIOUS
<1>1. /\ thread = 0 /\ starts = 0 /\ queue = [k \in Starts |-> <<>>]
      /\ pc = [t \in Threads |-> "idle"] /\ msg = [t \in Threads |-> NoMessage]
      /\ reply = [t \in Threads |-> "none"] /\ polled = <<>> /\ iter = 1 /\ at = "none"
      /\ listener = [sock |-> "none", out |-> 0]
  BY DEF Init
<1>2. \A c \in Conns : /\ conn[c] = [out |-> 0, sock |-> FALSE, close |-> FALSE, outBuf |-> 0,
                                     waiters |-> {}, terms |-> 0, unsent |-> 0]
  BY DEF Init
<1>3. MaxStarts \in Nat
  BY CommAssumption
<1>4. CommTypes
  <2>1. conn \in [Conns -> ConnState]
    BY <1>3 DEF Init, ConnState
  <2>2. queue \in [Starts -> Seq(Messages)]
    BY <1>1
  <2> QED
    BY <1>1, <1>3, <2>1, <2>2 DEF CommTypes, Replies, ListenerState
<1>5. \A k \in Starts : Len(queue[k]) = 0
  BY <1>1
<1>6. CallInv
  BY <1>1, <1>2, <1>5 DEF CallInv, Pending, OnePending, Responders, NoAnswerYet
<1>7. Lives
  BY <1>2 DEF Lives
<1>8. Range(polled) = {}
  BY <1>1 DEF Range
<1>9. Pipes /\ PolledIsOpen
  BY <1>1, <1>2, <1>8 DEF Pipes, PolledIsOpen, IsInjective
<1> QED
  BY <1>4, <1>6, <1>7, <1>9 DEF CommInv

\* A step answers waiters W of connection c and senders F, and no other thread; what
\* it makes wait are responders.
Answers(c, W, F) ==
  /\ UNCHANGED <<pc, msg>> /\ OnePending'
  /\ W # {} => c \in Conns /\ W \subseteq conn[c].waiters /\ conn'[c].waiters \cap W = {}
  /\ F \subseteq Threads
  /\ \A t \in Threads : t \notin W \cup F => reply'[t] = reply[t]
  /\ \A t \in F : /\ pc[t] \in {"wait", "result"}
                  /\ \A d \in Conns : t \notin conn'[d].waiters
  /\ \A l \in Starts : \A i \in 1 .. Len(queue'[l]) :
       queue'[l][i].kind \in Awaited =>
         /\ \E j \in 1 .. Len(queue[l]) : queue'[l][i] = queue[l][j]
         /\ queue'[l][i].from \notin F
         /\ \A d \in Conns : queue'[l][i].from \in conn'[d].waiters
                               => queue'[l][i].from \in conn[d].waiters
         /\ queue'[l][i].kind = "client" => conn'[queue'[l][i].conn].out = 0
  /\ \A d \in Conns : \A t \in conn'[d].waiters : t \in conn[d].waiters \/ Responder(d, t)

\* Such a step leaves every other call as it was.
LEMMA CallsKept ==
  ASSUME CommInv, CommTypes', NEW c, NEW W, NEW F, Answers(c, W, F)
  PROVE  CallInv'
<1> USE DEF Answers
<1>0. /\ Pending /\ Responders /\ NoAnswerYet /\ CommTypes
  BY DEF CommInv, CallInv
<1>1. \A t \in W : pc[t] = "result" /\ t \in Threads
  BY <1>0 DEF Responders, Responder, CommTypes, ConnState
<1>2. NoAnswerYet'
  BY <1>0, <1>1 DEF NoAnswerYet
<1>3. Responders'
  <2> SUFFICES ASSUME NEW d \in Conns, NEW t \in conn'[d].waiters PROVE Responder(d, t)'
    BY DEF Responders
  <2>1. Responder(d, t)
    BY <1>0 DEF Responders
  <2>2. t \notin F
    OBVIOUS
  <2>3. t \notin W
    <3>1. t \in W => msg[t].conn = c
      BY <1>0 DEF Responders, Responder
    <3> QED
      BY <2>1, <3>1 DEF Responder
  <2>4. t \in Threads
    BY DEF CommTypes, ConnState
  <2> QED
    BY <2>1, <2>2, <2>3, <2>4 DEF Responder
<1>4. Pending'
  <2> SUFFICES ASSUME NEW l \in Starts, NEW i \in 1 .. Len(queue'[l]),
                      queue'[l][i].kind \in Awaited
               PROVE  PendingMessage(queue[l][i])'
    BY DEF Pending
  <2> DEFINE m == queue'[l][i]
  <2>1. /\ PendingMessage(m) /\ m \in Messages
        /\ m.kind \in Awaited /\ m.from \notin F
        /\ \A d \in Conns : m.from \in conn'[d].waiters => m.from \in conn[d].waiters
        /\ m.kind = "client" => conn'[m.conn].out = 0
    <3>1. m \in Messages
      BY DEF CommTypes
    <3>2. PendingMessage(m)
      BY <1>0 DEF Pending
    <3> QED
      BY <3>1, <3>2
  <2> HIDE DEF m
  <2>2. m.from \in Threads
    BY <2>1, MessageParts
  <2>3. m.from \notin W
    BY <2>1 DEF PendingMessage
  <2>4. /\ msg'[m.from] = m /\ pc'[m.from] = Then[m.kind] /\ reply'[m.from] = "none"
        /\ \A d \in Conns : m.from \notin conn'[d].waiters
        /\ m.kind = "client" => conn'[m.conn].out = 0 /\ m.conn \notin Served
    BY <2>1, <2>2, <2>3 DEF PendingMessage
  <2> QED
    BY <2>4 DEF PendingMessage, m
<1> QED
  BY <1>2, <1>3, <1>4 DEF CallInv

\* The message that is run next.
LEMMA TakenFacts ==
  ASSUME CommInv, NEW kinds, Takes(kinds)
  PROVE  /\ draining \in Starts /\ NextMessage \in Messages /\ NextMessage.kind \in kinds
         /\ queue' \in [Starts -> Seq(Messages)]
         /\ OnePending'
         /\ UNCHANGED <<thread, starts, pc, msg, iter, draining>>
         /\ NextMessage.kind \in Awaited => PendingMessage(NextMessage) /\ NextMessage.from \in Threads
         /\ \A l \in Starts : \A i \in 1 .. Len(queue'[l]) :
              queue'[l][i].kind \in Awaited =>
                /\ \E j \in 1 .. Len(queue[l]) : queue'[l][i] = queue[l][j]
                /\ PendingMessage(queue'[l][i])
                /\ NextMessage.kind \in Awaited => queue'[l][i].from # NextMessage.from
                /\ queue'[l][i].kind = "client" /\ NextMessage.kind = "client"
                     => queue'[l][i].conn # NextMessage.conn
<1>0. CommTypes /\ OnePending /\ Pending /\ Pipes
  BY DEF CommInv, CallInv
<1>1. /\ draining \in Starts /\ queue[draining] # <<>> /\ NextMessage.kind \in kinds
      /\ queue' = [queue EXCEPT ![draining] = Tail(@)]
      /\ UNCHANGED <<thread, starts, pc, msg, iter, draining>>
  BY <1>0 DEF Takes, Pipes, client
<1>2. /\ queue' \in [Starts -> Seq(Messages)]
      /\ NextMessage \in Messages /\ NextMessage = queue[draining][1]
      /\ 1 \in 1 .. Len(queue[draining])
      /\ \A l \in Starts : \A i \in 1 .. Len(queue'[l]) :
           \E j \in 1 .. Len(queue[l]) : queue'[l][i] = queue[l][j]
  <2> DEFINE k == draining
  <2> HIDE DEF k
  <2>1. k \in Starts /\ queue[k] # <<>> /\ queue' = [queue EXCEPT ![k] = Tail(@)]
    BY <1>1 DEF k
  <2>2. /\ queue' \in [Starts -> Seq(Messages)]
        /\ Head(queue[k]) \in Messages /\ Head(queue[k]) = queue[k][1] /\ 1 \in 1 .. Len(queue[k])
        /\ \A l \in Starts : \A i \in 1 .. Len(queue'[l]) :
             \E j \in 1 .. Len(queue[l]) : /\ queue'[l][i] = queue[l][j]
                                           /\ j = IF l = k THEN i + 1 ELSE i
    BY <1>0, <2>1, TakenMessage
  <2>3. \A l \in Starts : \A i \in 1 .. Len(queue'[l]) :
          \E j \in 1 .. Len(queue[l]) : queue'[l][i] = queue[l][j]
    BY <2>2, Zenon
  <2> QED
    BY <2>2, <2>3 DEF k, NextMessage
<1>3. /\ OnePending'
      /\ \A l \in Starts : \A i \in 1 .. Len(queue'[l]) :
           /\ queue'[l][i].kind \in Awaited /\ NextMessage.kind \in Awaited
                => queue'[l][i].from # NextMessage.from
           /\ queue'[l][i].kind = "client" /\ NextMessage.kind = "client"
                => queue'[l][i].conn # NextMessage.conn
  BY <1>0, <1>1, TakenOnce DEF NextMessage
<1>4. NextMessage.kind \in Awaited => PendingMessage(NextMessage) /\ NextMessage.from \in Threads
  BY <1>0, <1>1, <1>2, MessageParts DEF Pending
<1>5. \A l \in Starts : \A i \in 1 .. Len(queue'[l]) :
        queue'[l][i].kind \in Awaited => PendingMessage(queue'[l][i])
  BY <1>0, <1>2 DEF Pending
<1>6. ASSUME NEW l \in Starts, NEW i \in 1 .. Len(queue'[l]), queue'[l][i].kind \in Awaited
      PROVE  /\ \E j \in 1 .. Len(queue[l]) : queue'[l][i] = queue[l][j]
             /\ PendingMessage(queue'[l][i])
             /\ NextMessage.kind \in Awaited => queue'[l][i].from # NextMessage.from
             /\ queue'[l][i].kind = "client" /\ NextMessage.kind = "client"
                  => queue'[l][i].conn # NextMessage.conn
  BY <1>2, <1>3, <1>5, <1>6, Zenon
<1> QED
  BY <1>1, <1>2, <1>3, <1>4, <1>6, Zenon
\* The types after a step that leaves the threads alone.
LEMMA TypesAfter ==
  ASSUME CommTypes, NEW w \in WorldType, Become(w), queue' \in [Starts -> Seq(Messages)],
         UNCHANGED <<thread, starts, pc, msg>>, iter' \in Nat \ {0}, listener' \in ListenerState
  PROVE  CommTypes'
  BY DEF CommTypes, Become, WorldType

\* A message that neither opens nor closes a socket.
LEMMA RunSendKept ==
  ASSUME CommInv, RunSend
  PROVE  CommInv'
<1> DEFINE m == NextMessage
           c == NextMessage.conn
           w1 == IF m.kind = "data" THEN World ELSE addResponder(World, c, m.from)
           w == extend(w1, c)
           F == IF m.kind = "sync" /\ Refuses(c) THEN {m.from} ELSE {}
<1>0. CommTypes /\ CallInv /\ Lives /\ Pipes /\ PolledIsOpen
  BY DEF CommInv
<1>1. Takes({"data", "sync"}) /\ Become(w) /\ UNCHANGED <<at, listener>>
  BY DEF RunSend
<1>2. /\ m \in Messages /\ m.kind \in {"data", "sync"}
      /\ queue' \in [Starts -> Seq(Messages)]
      /\ OnePending'
      /\ UNCHANGED <<thread, starts, pc, msg, iter, draining>>
      /\ m.kind \in Awaited => PendingMessage(m) /\ m.from \in Threads
      /\ \A l \in Starts : \A i \in 1 .. Len(queue'[l]) :
           queue'[l][i].kind \in Awaited =>
             /\ \E j \in 1 .. Len(queue[l]) : queue'[l][i] = queue[l][j]
             /\ PendingMessage(queue'[l][i])
             /\ m.kind \in Awaited => queue'[l][i].from # m.from
  <2>1. Takes({"data", "sync"})
    BY <1>1
  <2> QED
    BY <2>1, TakenFacts, Zenon
<1>3. c \in Conns
  BY <1>2, MessageParts
<1>4. m.kind = "sync" => m.kind \in Awaited
  BY DEF Awaited
<1> HIDE DEF m, c
<1>5. /\ w1 \in WorldType /\ Others(w1, c) /\ SameLife(w1.conn[c], conn[c]) /\ w1.polled = polled
      /\ \A t \in Threads : t \notin F => w1.reply[t] = reply[t]
      /\ w1.conn[c].waiters = IF m.kind = "sync" /\ ~Refuses(c)
                              THEN conn[c].waiters \cup {m.from} ELSE conn[c].waiters
  <2>1. CASE m.kind = "data"
    BY <1>0, <2>1, WorldTyped DEF Others, SameLife
  <2>2. CASE m.kind = "sync"
    <3>1. w1 = addResponder(World, c, m.from) /\ m.from \in Threads
      BY <1>2, <1>4, <2>2
    <3> DEFINE t == m.from
    <3> HIDE DEF t
    <3>2. /\ w1 \in WorldType /\ Others(w1, c) /\ SameLife(w1.conn[c], conn[c])
          /\ w1.polled = polled
          /\ Refuses(c) => /\ w1.conn[c].waiters = conn[c].waiters
                              /\ \A u \in Threads : w1.reply[u] = IF u = t THEN "error" ELSE reply[u]
          /\ ~Refuses(c) => w1.conn[c].waiters = conn[c].waiters \cup {t} /\ w1.reply = reply
      <4>1. w1 = addResponder(World, c, t) /\ t \in Threads
        BY <3>1 DEF t
      <4> QED
        BY <1>0, <1>3, <4>1, AddResponderFacts
    <3> QED
      BY <2>2, <3>2 DEF t
  <2> QED
    BY <1>2, <2>1, <2>2
<1> HIDE DEF w1
<1>6. /\ w \in WorldType /\ Others(w, c) /\ SameLife(w.conn[c], conn[c]) /\ w.polled = polled
      /\ \A t \in Threads : t \notin F => w.reply[t] = reply[t]
      /\ w.conn[c].waiters = IF m.kind = "sync" /\ ~Refuses(c)
                             THEN conn[c].waiters \cup {m.from} ELSE conn[c].waiters
  BY <1>3, <1>5, ExtendFacts DEF Others, SameLife
<1> HIDE DEF w
<1>7. conn' = w.conn /\ polled' = polled /\ reply' = w.reply
  BY <1>1, <1>6 DEF Become
<1>8. CommTypes'
  <2>1. iter' \in Nat \ {0} /\ listener' \in ListenerState
    BY <1>0, <1>1, <1>2 DEF CommTypes
  <2> QED
    BY <1>0, <1>1, <1>2, <1>6, <2>1, TypesAfter
<1>9. Lives'
  <2> SUFFICES ASSUME NEW d \in Conns
               PROVE  /\ conn'[d].out = 0 => ~conn'[d].sock /\ conn'[d].terms = 0
                      /\ conn'[d].sock => conn'[d].terms = 0
                      /\ conn'[d].terms <= 1
                      /\ conn'[d].terms = 1 => /\ conn'[d].close
                                               /\ AddResponder = "fail" => conn'[d].waiters = {}
    BY DEF Lives
  <2>1. CASE d # c
    BY <1>0, <1>6, <1>7, <2>1 DEF Lives, Others
  <2>2. CASE d = c
    BY <1>0, <1>6, <1>7, <2>2 DEF Lives, SameLife, Refuses
  <2> QED
    BY <2>1, <2>2
<1>10. \A d \in Conns : conn'[d].sock = conn[d].sock /\ conn'[d].out = conn[d].out
  BY <1>6, <1>7 DEF Others, SameLife
<1>11. Pipes' /\ PolledIsOpen'
  BY <1>0, <1>1, <1>2, <1>7, <1>10 DEF Pipes, PolledIsOpen
<1>12. CallInv'
  <2>1. /\ F \subseteq Threads
        /\ \A t \in Threads : t \notin {} \cup F => reply'[t] = reply[t]
        /\ {} \subseteq conn[c].waiters /\ conn'[c].waiters \cap {} = {}
    BY <1>2, <1>4, <1>6, <1>7
  <2>2. \A t \in F : /\ pc[t] \in {"wait", "result"}
                     /\ \A d \in Conns : t \notin conn'[d].waiters
    BY <1>2, <1>4, <1>6, <1>7 DEF PendingMessage, Then, Others
  <2>3. ASSUME NEW l \in Starts, NEW i \in 1 .. Len(queue'[l]), queue'[l][i].kind \in Awaited
        PROVE  /\ \E j \in 1 .. Len(queue[l]) : queue'[l][i] = queue[l][j]
               /\ queue'[l][i].from \notin F
               /\ \A d \in Conns : queue'[l][i].from \in conn'[d].waiters
                                     => queue'[l][i].from \in conn[d].waiters
               /\ queue'[l][i].kind = "client" => conn'[queue'[l][i].conn].out = 0
    <3> DEFINE x == queue'[l][i]
    <3>1. /\ \E j \in 1 .. Len(queue[l]) : x = queue[l][j]
          /\ PendingMessage(x) /\ x.kind \in Awaited
          /\ m.kind = "sync" => x.from # m.from
      BY <1>2, <1>4, <2>3, Zenon
    <3>2. x \in Messages
      BY <1>2
    <3> HIDE DEF x
    <3>3. x.kind = "client" => x.conn \in Conns
      BY <3>2, MessageParts
    <3>4. /\ x.from \notin F
          /\ \A d \in Conns : x.from \in conn'[d].waiters => x.from \in conn[d].waiters
          /\ x.kind = "client" => conn'[x.conn].out = 0
      BY <1>6, <1>7, <1>10, <3>1, <3>3 DEF PendingMessage, Others
    <3> QED
      BY <3>1, <3>4 DEF x
  <2>4. \A d \in Conns : \A t \in conn'[d].waiters : t \in conn[d].waiters \/ Responder(d, t)
    <3>1. m.kind = "sync" => Responder(c, m.from)
      BY <1>2, <1>4 DEF PendingMessage, Then, Responder, c, m
    <3> QED
      BY <1>6, <1>7, <3>1 DEF Others
  <2>5. UNCHANGED <<pc, msg>> /\ OnePending'
    BY <1>2
  <2> HIDE DEF F
  <2>6. Answers(c, {}, F)
    BY <1>3, <2>1, <2>2, <2>3, <2>4, <2>5, Zenon DEF Answers
  <2> QED
    BY <1>8, <2>6, CallsKept, Zenon
<1> QED
  BY <1>8, <1>9, <1>11, <1>12 DEF CommInv
\* removeFrom() keeps the poller's list and the life of the connection in step.
LEMMA RemovedSockets ==
  ASSUME CommInv, NEW c \in Conns,
         conn' = removeFrom(World, c).conn, polled' = removeFrom(World, c).polled,
         UNCHANGED <<starts, listener>>,
         at' = "drain" => at = "drain" /\ UNCHANGED draining
  PROVE  Lives' /\ Pipes' /\ PolledIsOpen'
<1> DEFINE w == removeFrom(World, c)
<1>0. /\ CommTypes /\ Lives /\ Pipes /\ PolledIsOpen /\ IsInjective(polled)
      /\ polled \in Seq(Pollables)
  BY DEF CommInv, PolledIsOpen, CommTypes
<1>1. /\ conn' = w.conn /\ polled' = w.polled
      /\ w \in WorldType
      /\ Others(w, c)
      /\ ~w.conn[c].sock /\ w.conn[c].close /\ w.conn[c].out = conn[c].out
      /\ conn[c].sock => /\ w.conn[c].terms = conn[c].terms + 1
                         /\ w.conn[c].waiters = {}
                         /\ w.polled = Without(polled, Sock(c))
      /\ ~conn[c].sock => /\ w.conn[c].terms = conn[c].terms
                          /\ w.conn[c].waiters = conn[c].waiters
                          /\ w.polled = polled
  BY <1>0, RemoveFromFacts
<1> HIDE DEF w
<1>2. Lives'
  <2> SUFFICES ASSUME NEW d \in Conns
               PROVE  /\ conn'[d].out = 0 => ~conn'[d].sock /\ conn'[d].terms = 0
                      /\ conn'[d].sock => conn'[d].terms = 0
                      /\ conn'[d].terms <= 1
                      /\ conn'[d].terms = 1 => /\ conn'[d].close
                                               /\ AddResponder = "fail" => conn'[d].waiters = {}
    BY DEF Lives
  <2>1. CASE d # c
    BY <1>0, <1>1, <2>1 DEF Lives, Others
  <2>2. CASE d = c
    BY <1>0, <1>1, <2>2 DEF Lives
  <2> QED
    BY <2>1, <2>2
<1>3. /\ IsInjective(polled')
      /\ Range(polled') = Range(polled) \ {Sock(c)}
  <2>1. CASE conn[c].sock
    BY <1>0, <1>1, <2>1, WithoutRange
  <2>2. CASE ~conn[c].sock
    BY <1>0, <1>1, <2>2 DEF PolledIsOpen
  <2> QED
    BY <2>1, <2>2
<1>4. Pipes'
  BY <1>0, <1>3 DEF Pipes
<1>5. ASSUME NEW d \in Conns PROVE Sock(d) \in Range(polled') <=> conn'[d].sock
  <2>1. CASE d # c
    <3>1. Sock(d) # Sock(c)
      BY <2>1, PollablesDiffer
    <3>2. conn'[d] = conn[d]
      BY <1>1, <2>1 DEF Others
    <3> QED
      BY <1>0, <1>3, <3>1, <3>2 DEF PolledIsOpen
  <2>2. CASE d = c
    BY <1>1, <1>3, <2>2
  <2> QED
    BY <2>1, <2>2
<1>6. Listener \in Range(polled') <=> Listener \in Range(polled)
  BY <1>3, PollablesDiffer
<1> QED
  BY <1>0, <1>2, <1>3, <1>4, <1>5, <1>6 DEF PolledIsOpen

\* addConnection(), for a connection that was not connected before.
LEMMA AddedSockets ==
  ASSUME CommInv, NEW c \in Conns, NEW k \in Starts, conn[c].out = 0,
         conn' = addConnection(World, c, k).conn, polled' = addConnection(World, c, k).polled,
         UNCHANGED starts, at' = "drain" => at = "drain" /\ UNCHANGED draining,
         listener.sock \in {"open", "pending", "error"}
           <=> listener'.sock \in {"open", "pending", "error"},
         listener'.sock = "none" <=> listener.sock = "none", listener'.out = listener.out
  PROVE  Lives' /\ Pipes' /\ PolledIsOpen'
<1> DEFINE w == addConnection(World, c, k)
<1>0. /\ CommTypes /\ Lives /\ Pipes /\ PolledIsOpen /\ IsInjective(polled)
      /\ polled \in Seq(Pollables) /\ Sock(c) \in Pollables
  BY PollablesTyped DEF CommInv, PolledIsOpen, CommTypes
<1>1. /\ conn' = w.conn /\ polled' = Append(polled, Sock(c))
      /\ w \in WorldType
      /\ Others(w, c)
      /\ w.conn[c].sock /\ w.conn[c].out = k /\ w.conn[c].terms = conn[c].terms
      /\ w.conn[c].close = conn[c].close /\ w.conn[c].waiters = conn[c].waiters
  BY <1>0, AddConnectionFacts
<1> HIDE DEF w
<1>2. ~conn[c].sock /\ conn[c].terms = 0 /\ k # 0
  BY <1>0 DEF Lives, Starts
<1>3. Lives'
  <2> SUFFICES ASSUME NEW d \in Conns
               PROVE  /\ conn'[d].out = 0 => ~conn'[d].sock /\ conn'[d].terms = 0
                      /\ conn'[d].sock => conn'[d].terms = 0
                      /\ conn'[d].terms <= 1
                      /\ conn'[d].terms = 1 => /\ conn'[d].close
                                               /\ AddResponder = "fail" => conn'[d].waiters = {}
    BY DEF Lives
  <2>1. CASE d # c
    BY <1>0, <1>1, <2>1 DEF Lives, Others
  <2>2. CASE d = c
    BY <1>0, <1>1, <1>2, <2>2 DEF Lives
  <2> QED
    BY <2>1, <2>2
<1>4. IsInjective(polled') /\ Range(polled') = Range(polled) \cup {Sock(c)}
  <2>1. Sock(c) \notin Range(polled)
    BY <1>0, <1>2 DEF PolledIsOpen
  <2> QED
    BY <1>0, <1>1, <2>1, AppendRange
<1>5. Pipes'
  <2>1. \A l \in Starts : Control(l) \in Range(polled') => l <= starts'
    BY <1>0, <1>4, PollablesDiffer DEF Pipes
  <2> QED
    BY <1>0, <2>1 DEF Pipes
<1>6. ASSUME NEW d \in Conns PROVE Sock(d) \in Range(polled') <=> conn'[d].sock
  <2>1. CASE d # c
    <3>1. Sock(d) # Sock(c)
      BY <2>1, PollablesDiffer
    <3>2. conn'[d] = conn[d]
      BY <1>1, <2>1 DEF Others
    <3> QED
      BY <1>0, <1>4, <3>1, <3>2 DEF PolledIsOpen
  <2>2. CASE d = c
    BY <1>1, <1>4, <2>2
  <2> QED
    BY <2>1, <2>2
<1>7. Listener \in Range(polled') <=> Listener \in Range(polled)
  BY <1>4, PollablesDiffer
<1> QED
  BY <1>0, <1>3, <1>4, <1>5, <1>6, <1>7 DEF PolledIsOpen

\* close() and closeSync(), as often as they are called.
LEMMA RunStopClientKept ==
  ASSUME CommInv, RunStopClient
  PROVE  CommInv'
<1> DEFINE m == NextMessage
           c == NextMessage.conn
           w1 == removeFrom(World, c)
<1>0. CommTypes /\ CallInv /\ Lives /\ Pipes /\ PolledIsOpen
  BY DEF CommInv
<1>1. PICK end \in Handler :
        LET thrown == end = "throws" /\ conn[c].sock
        IN  /\ Become(IF thrown \/ m.kind = "close" THEN w1 ELSE Answer(w1, {m.from}, "done"))
            /\ at' = IF thrown THEN "ended" ELSE at
  BY DEF RunStopClient
<1> DEFINE silent == (end = "throws" /\ conn[c].sock) \/ m.kind = "close"
           w == IF silent THEN w1 ELSE Answer(w1, {m.from}, "done")
           F == IF silent THEN {} ELSE {m.from}
           W == IF conn[c].sock THEN conn[c].waiters ELSE {}
<1>2. Takes({"close", "closeSync"}) /\ Become(w) /\ UNCHANGED listener /\ at' \in {at, "ended"}
  BY <1>1 DEF RunStopClient
<1>3. /\ m \in Messages /\ m.kind \in {"close", "closeSync"}
      /\ queue' \in [Starts -> Seq(Messages)]
      /\ OnePending'
      /\ UNCHANGED <<thread, starts, pc, msg, iter, draining>>
      /\ m.kind \in Awaited => PendingMessage(m) /\ m.from \in Threads
      /\ \A l \in Starts : \A i \in 1 .. Len(queue'[l]) :
           queue'[l][i].kind \in Awaited =>
             /\ \E j \in 1 .. Len(queue[l]) : queue'[l][i] = queue[l][j]
             /\ PendingMessage(queue'[l][i])
             /\ m.kind \in Awaited => queue'[l][i].from # m.from
  <2>1. Takes({"close", "closeSync"})
    BY <1>2
  <2> QED
    BY <2>1, TakenFacts, Zenon
<1>4. c \in Conns
  BY <1>3, MessageParts
<1>5. m.kind = "closeSync" => m.kind \in Awaited
  BY DEF Awaited
<1> HIDE DEF m, c
<1>6. /\ w1 \in WorldType /\ Others(w1, c) /\ w1.conn[c].out = conn[c].out
      /\ w1.conn[c].waiters = conn[c].waiters \ W
      /\ \A t \in Threads : t \notin W => w1.reply[t] = reply[t]
  <2>1. IsInjective(polled)
    BY <1>0 DEF PolledIsOpen
  <2>2. /\ w1 \in WorldType /\ Others(w1, c) /\ w1.conn[c].out = conn[c].out
        /\ conn[c].sock => /\ w1.conn[c].waiters = {}
                           /\ \A t \in Threads :
                                w1.reply[t] = IF t \in conn[c].waiters THEN "error" ELSE reply[t]
        /\ ~conn[c].sock => /\ w1.conn[c].waiters = conn[c].waiters
                            /\ w1.reply = reply
    BY <1>0, <1>4, <2>1, RemoveFromFacts
  <2> HIDE DEF w1
  <2> QED
    BY <2>2
<1>7. ~silent => m.kind = "closeSync" /\ m.from \in Threads
  BY <1>3, <1>5
<1>8. /\ w \in WorldType /\ w.conn = w1.conn /\ w.polled = w1.polled
      /\ \A t \in Threads : t \notin W \cup F => w.reply[t] = reply[t]
  <2> HIDE DEF w1, silent, W
  <2>1. CASE silent
    BY <1>6, <2>1
  <2>2. CASE ~silent
    <3>1. w = Answer(w1, {m.from}, "done") /\ F = {m.from}
      BY <2>2
    <3> HIDE DEF w
    <3>2. /\ w \in WorldType /\ w.conn = w1.conn /\ w.polled = w1.polled
          /\ \A t \in Threads : w.reply[t] = IF t \in {m.from} THEN "done" ELSE w1.reply[t]
      BY <1>6, <3>1, AnswerFacts DEF Replies
    <3> QED
      BY <1>6, <3>1, <3>2
  <2> QED
    BY <2>1, <2>2
<1> HIDE DEF w
<1>9. conn' = w1.conn /\ polled' = w1.polled /\ reply' = w.reply
  BY <1>2, <1>8 DEF Become
<1>10. CommTypes'
  <2>1. iter' \in Nat \ {0} /\ listener' \in ListenerState
    BY <1>0, <1>2, <1>3 DEF CommTypes
  <2> QED
    BY <1>0, <1>2, <1>3, <1>8, <2>1, TypesAfter
<1>11. Lives' /\ Pipes' /\ PolledIsOpen'
  <2>1. at' = "drain" => at = "drain" /\ UNCHANGED draining
    BY <1>2, <1>3
  <2>2. UNCHANGED <<starts, listener>>
    BY <1>2, <1>3
  <2> QED
    BY <1>4, <1>9, <2>1, <2>2, RemovedSockets
<1> HIDE DEF w1
<1>12. CallInv'
  <2>1. W \subseteq conn[c].waiters /\ conn'[c].waiters \cap W = {}
    BY <1>6, <1>9
  <2> HIDE DEF W, silent
  <2>2. /\ F \subseteq Threads
        /\ \A t \in Threads : t \notin W \cup F => reply'[t] = reply[t]
    BY <1>7, <1>8, <1>9
  <2>3. \A d \in Conns : conn'[d].out = conn[d].out /\ conn'[d].waiters \subseteq conn[d].waiters
    BY <1>6, <1>9 DEF Others
  <2>4. \A t \in F : /\ pc[t] \in {"wait", "result"}
                     /\ \A d \in Conns : t \notin conn'[d].waiters
    BY <1>3, <1>5, <1>7, <2>3 DEF PendingMessage, Then
  <2>5. ASSUME NEW l \in Starts, NEW i \in 1 .. Len(queue'[l]), queue'[l][i].kind \in Awaited
        PROVE  /\ \E j \in 1 .. Len(queue[l]) : queue'[l][i] = queue[l][j]
               /\ queue'[l][i].from \notin F
               /\ \A d \in Conns : queue'[l][i].from \in conn'[d].waiters
                                     => queue'[l][i].from \in conn[d].waiters
               /\ queue'[l][i].kind = "client" => conn'[queue'[l][i].conn].out = 0
    <3> DEFINE x == queue'[l][i]
    <3>1. /\ \E j \in 1 .. Len(queue[l]) : x = queue[l][j]
          /\ PendingMessage(x) /\ x.kind \in Awaited
          /\ m.kind = "closeSync" => x.from # m.from
      BY <1>3, <1>5, <2>5, Zenon
    <3>2. x \in Messages
      BY <1>3
    <3> HIDE DEF x
    <3>3. x.kind = "client" => x.conn \in Conns
      BY <3>2, MessageParts
    <3>4. /\ x.from \notin F
          /\ \A d \in Conns : x.from \in conn'[d].waiters => x.from \in conn[d].waiters
          /\ x.kind = "client" => conn'[x.conn].out = 0
      BY <1>7, <2>3, <3>1, <3>3 DEF PendingMessage
    <3> QED
      BY <3>1, <3>4 DEF x
  <2>6. \A d \in Conns : \A t \in conn'[d].waiters : t \in conn[d].waiters \/ Responder(d, t)
    BY <2>3
  <2>7. UNCHANGED <<pc, msg>> /\ OnePending'
    BY <1>3
  <2> HIDE DEF F
  <2>8. Answers(c, W, F)
    BY <1>4, <2>1, <2>2, <2>4, <2>5, <2>6, <2>7, Zenon DEF Answers
  <2> QED
    BY <1>10, <2>8, CallsKept, Zenon
<1> QED
  BY <1>10, <1>11, <1>12 DEF CommInv
\* _NewClient: the connection is opened at most once, by the message that was waited for.
LEMMA RunNewClientKept ==
  ASSUME CommInv, RunNewClient
  PROVE  CommInv'
<1> DEFINE m == NextMessage
           c == NextMessage.conn
           k == draining
           w1 == addConnection(World, c, k)
           F == {m.from}
<1>0. CommTypes /\ CallInv /\ Lives /\ Pipes /\ PolledIsOpen
  BY DEF CommInv
<1>1. /\ Takes({"client"}) /\ UNCHANGED <<at, listener>>
      /\ \/ Become(Answer(World, F, "error"))
         \/ Become(Answer(w1, F, "done"))
  BY DEF RunNewClient
<1>2. /\ k \in Starts /\ m \in Messages /\ m.kind \in {"client"}
      /\ queue' \in [Starts -> Seq(Messages)]
      /\ OnePending'
      /\ UNCHANGED <<thread, starts, pc, msg, iter, draining>>
      /\ m.kind \in Awaited => PendingMessage(m) /\ m.from \in Threads
      /\ \A l \in Starts : \A i \in 1 .. Len(queue'[l]) :
           queue'[l][i].kind \in Awaited =>
             /\ \E j \in 1 .. Len(queue[l]) : queue'[l][i] = queue[l][j]
             /\ PendingMessage(queue'[l][i])
             /\ m.kind \in Awaited => queue'[l][i].from # m.from
             /\ queue'[l][i].kind = "client" /\ m.kind = "client" => queue'[l][i].conn # c
  <2>1. Takes({"client"})
    BY <1>1
  <2> QED
    BY <2>1, TakenFacts, Zenon
<1>3. m.kind = "client" /\ m.kind \in Awaited /\ m.from \in Threads /\ PendingMessage(m)
  BY <1>2 DEF Awaited
<1>4. c \in Conns /\ conn[c].out = 0
  BY <1>2, <1>3, MessageParts DEF PendingMessage
<1> HIDE DEF m, c, k
<1>5. /\ w1 \in WorldType /\ Others(w1, c)
      /\ w1.conn[c].waiters = conn[c].waiters /\ w1.reply = reply
  BY <1>0, <1>2, <1>4, AddConnectionFacts
<1>6. PICK w \in WorldType :
        /\ Become(w)
        /\ \/ w.conn = conn /\ w.polled = polled
           \/ w.conn = w1.conn /\ w.polled = w1.polled
        /\ \A t \in Threads : t \notin F => w.reply[t] = reply[t]
  <2> HIDE DEF w1, F
  <2>1. CASE Become(Answer(World, F, "error"))
    <3> DEFINE a == Answer(World, F, "error")
    <3>1. /\ a \in WorldType /\ a.conn = conn /\ a.polled = polled
          /\ \A t \in Threads : a.reply[t] = IF t \in F THEN "error" ELSE reply[t]
      BY <1>0, WorldTyped, AnswerFacts DEF Replies
    <3> HIDE DEF a
    <3>2. Become(a) /\ \A t \in Threads : t \notin F => a.reply[t] = reply[t]
      BY <2>1, <3>1 DEF a
    <3> QED
      BY <3>1, <3>2, Zenon
  <2>2. CASE Become(Answer(w1, F, "done"))
    <3> DEFINE a == Answer(w1, F, "done")
    <3>1. /\ a \in WorldType /\ a.conn = w1.conn /\ a.polled = w1.polled
          /\ \A t \in Threads : a.reply[t] = IF t \in F THEN "done" ELSE reply[t]
      BY <1>5, AnswerFacts DEF Replies
    <3> HIDE DEF a
    <3>2. Become(a)
      BY <2>2 DEF a
    <3> QED
      BY <3>1, <3>2
  <2> QED
    BY <1>1, <2>1, <2>2
<1>7. conn' = w.conn /\ polled' = w.polled /\ reply' = w.reply
  BY <1>6 DEF Become
<1>8. CommTypes'
  <2>1. iter' \in Nat \ {0} /\ listener' \in ListenerState
    BY <1>0, <1>1, <1>2 DEF CommTypes
  <2> QED
    BY <1>0, <1>2, <1>6, <2>1, TypesAfter
<1>9. Lives' /\ Pipes' /\ PolledIsOpen'
  <2>1. CASE w.conn = conn /\ w.polled = polled
    <3>1. UNCHANGED <<conn, polled, starts, listener, at, draining>>
      BY <1>1, <1>2, <1>7, <2>1
    <3> QED
      BY <1>0, <3>1 DEF Lives, Pipes, PolledIsOpen
  <2>2. CASE w.conn = w1.conn /\ w.polled = w1.polled
    <3>1. conn' = w1.conn /\ polled' = w1.polled
      BY <1>7, <2>2
    <3>2. /\ UNCHANGED <<starts, listener>>
          /\ at' = "drain" => at = "drain" /\ UNCHANGED draining
      BY <1>1, <1>2
    <3> QED
      BY <1>2, <1>4, <3>1, <3>2, AddedSockets
  <2> QED
    BY <1>6, <2>1, <2>2
<1>10. \A d \in Conns : /\ conn'[d].waiters = conn[d].waiters
                        /\ d # c => conn'[d].out = conn[d].out
  BY <1>5, <1>6, <1>7 DEF Others
<1>11. CallInv'
  <2>1. /\ F \subseteq Threads
        /\ \A t \in Threads : t \notin {} \cup F => reply'[t] = reply[t]
    BY <1>3, <1>6, <1>7
  <2>2. \A t \in F : /\ pc[t] \in {"wait", "result"}
                     /\ \A d \in Conns : t \notin conn'[d].waiters
    BY <1>3, <1>10 DEF PendingMessage, Then
  <2>3. ASSUME NEW l \in Starts, NEW i \in 1 .. Len(queue'[l]), queue'[l][i].kind \in Awaited
        PROVE  /\ \E j \in 1 .. Len(queue[l]) : queue'[l][i] = queue[l][j]
               /\ queue'[l][i].from \notin F
               /\ \A d \in Conns : queue'[l][i].from \in conn'[d].waiters
                                     => queue'[l][i].from \in conn[d].waiters
               /\ queue'[l][i].kind = "client" => conn'[queue'[l][i].conn].out = 0
    <3> DEFINE x == queue'[l][i]
    <3>1. /\ \E j \in 1 .. Len(queue[l]) : x = queue[l][j]
          /\ PendingMessage(x) /\ x.from # m.from
          /\ x.kind = "client" => x.conn # c
      BY <1>2, <1>3, <2>3, Zenon
    <3>2. x \in Messages
      BY <1>2
    <3> HIDE DEF x
    <3>3. x.kind = "client" => x.conn \in Conns
      BY <3>2, MessageParts
    <3>4. /\ x.from \notin F
          /\ \A d \in Conns : x.from \in conn'[d].waiters => x.from \in conn[d].waiters
          /\ x.kind = "client" => conn'[x.conn].out = 0
      BY <1>10, <3>1, <3>3 DEF PendingMessage
    <3> QED
      BY <3>1, <3>4 DEF x
  <2>4. \A d \in Conns : \A t \in conn'[d].waiters : t \in conn[d].waiters \/ Responder(d, t)
    BY <1>10
  <2>5. UNCHANGED <<pc, msg>> /\ OnePending'
    BY <1>2
  <2> HIDE DEF F
  <2>6. Answers(c, {}, F)
    BY <2>1, <2>2, <2>3, <2>4, <2>5, Zenon DEF Answers
  <2> QED
    BY <1>8, <2>6, CallsKept, Zenon
<1> QED
  BY <1>8, <1>9, <1>11 DEF CommInv

\* _NewServer.
LEMMA RunNewServerKept ==
  ASSUME CommInv, RunNewServer
  PROVE  CommInv'
<1> DEFINE m == NextMessage
           k == draining
           w1 == [World EXCEPT !.polled = Append(@, Listener)]
           F == {m.from}
           Opens == listener.sock = "none" /\ listener' = [sock |-> "open", out |-> k]
<1>0. CommTypes /\ CallInv /\ Lives /\ Pipes /\ PolledIsOpen
  BY DEF CommInv
<1>1. /\ Takes({"server"}) /\ UNCHANGED at
      /\ \/ Become(Answer(World, F, "error")) /\ UNCHANGED listener
         \/ Opens /\ Become(Answer(w1, F, "done"))
  BY DEF RunNewServer
<1>2. /\ k \in Starts /\ m \in Messages /\ m.kind \in {"server"}
      /\ queue' \in [Starts -> Seq(Messages)]
      /\ OnePending'
      /\ UNCHANGED <<thread, starts, pc, msg, iter, draining>>
      /\ m.kind \in Awaited => PendingMessage(m) /\ m.from \in Threads
      /\ \A l \in Starts : \A i \in 1 .. Len(queue'[l]) :
           queue'[l][i].kind \in Awaited =>
             /\ \E j \in 1 .. Len(queue[l]) : queue'[l][i] = queue[l][j]
             /\ PendingMessage(queue'[l][i])
             /\ m.kind \in Awaited => queue'[l][i].from # m.from
  <2>1. Takes({"server"})
    BY <1>1
  <2> QED
    BY <2>1, TakenFacts, Zenon
<1>3. m.kind = "server" /\ m.kind \in Awaited /\ m.from \in Threads /\ PendingMessage(m)
  BY <1>2 DEF Awaited
<1>4. polled \in Seq(Pollables) /\ Listener \in Pollables /\ Append(polled, Listener) \in Seq(Pollables)
  BY <1>0, AppendRange, PollablesTyped DEF CommTypes
<1> HIDE DEF m, k
<1>5. w1 \in WorldType /\ w1.conn = conn /\ w1.polled = Append(polled, Listener) /\ w1.reply = reply
  <2>1. /\ World \in WorldType /\ World.conn = conn /\ World.polled = polled
        /\ World.reply = reply
    BY <1>0, WorldTyped
  <2>2. w1 = [World EXCEPT !.polled = Append(polled, Listener)]
    BY <2>1
  <2> HIDE DEF w1
  <2> QED
    BY <1>4, <2>1, <2>2 DEF WorldType
<1>6. PICK w \in WorldType :
        /\ Become(w) /\ w.conn = conn
        /\ \/ w.polled = polled /\ UNCHANGED listener
           \/ w.polled = Append(polled, Listener) /\ Opens
        /\ \A t \in Threads : t \notin F => w.reply[t] = reply[t]
  <2> HIDE DEF w1, F, Opens
  <2>1. CASE Become(Answer(World, F, "error")) /\ UNCHANGED listener
    <3> DEFINE a == Answer(World, F, "error")
    <3>1. /\ a \in WorldType /\ a.conn = conn /\ a.polled = polled
          /\ \A t \in Threads : a.reply[t] = IF t \in F THEN "error" ELSE reply[t]
      BY <1>0, WorldTyped, AnswerFacts DEF Replies
    <3> HIDE DEF a
    <3>2. Become(a) /\ UNCHANGED listener
      BY <2>1 DEF a
    <3> QED
      BY <3>1, <3>2
  <2>2. CASE Opens /\ Become(Answer(w1, F, "done"))
    <3> DEFINE a == Answer(w1, F, "done")
    <3>1. /\ a \in WorldType /\ a.conn = conn /\ a.polled = Append(polled, Listener)
          /\ \A t \in Threads : a.reply[t] = IF t \in F THEN "done" ELSE reply[t]
      BY <1>5, AnswerFacts DEF Replies
    <3> HIDE DEF a
    <3>2. Become(a) /\ Opens
      BY <2>2 DEF a
    <3> QED
      BY <3>1, <3>2
  <2> QED
    BY <1>1, <2>1, <2>2
<1>7. conn' = conn /\ polled' = w.polled /\ reply' = w.reply
  BY <1>6 DEF Become
<1>8. CommTypes'
  <2>1. iter' \in Nat \ {0}
    BY <1>0, <1>2 DEF CommTypes
  <2>2. listener' \in ListenerState
    <3>1. k \in 0 .. MaxStarts
      BY <1>2, CommAssumption DEF Starts
    <3> QED
      BY <1>0, <1>6, <3>1 DEF CommTypes, ListenerState
  <2> QED
    BY <1>0, <1>2, <1>6, <2>1, <2>2, TypesAfter
<1>9. Lives'
  BY <1>0, <1>7 DEF Lives
<1>10. Pipes' /\ PolledIsOpen'
  <2>1. CASE w.polled = polled /\ UNCHANGED listener
    <3>1. UNCHANGED <<conn, polled, starts, listener, at, draining>>
      BY <1>1, <1>2, <1>7, <2>1
    <3> QED
      BY <1>0, <3>1 DEF Pipes, PolledIsOpen
  <2>2. CASE w.polled = Append(polled, Listener) /\ Opens
    <3>1. /\ listener.sock = "none" /\ listener'.sock = "open" /\ listener'.out = k
          /\ Listener \notin Range(polled) /\ IsInjective(polled)
      BY <1>0, <2>2 DEF PolledIsOpen
    <3>2. Range(polled') = Range(polled) \cup {Listener} /\ IsInjective(polled')
      BY <1>4, <1>7, <2>2, <3>1, AppendRange
    <3>3. \A d \in Conns : Sock(d) \in Range(polled') <=> Sock(d) \in Range(polled)
      BY <3>2, PollablesDiffer
    <3>4. \A l \in Starts : Control(l) \in Range(polled') <=> Control(l) \in Range(polled)
      BY <3>2, PollablesDiffer
    <3> QED
      BY <1>0, <1>1, <1>2, <1>7, <3>1, <3>2, <3>3, <3>4 DEF Pipes, PolledIsOpen
  <2> QED
    BY <1>6, <2>1, <2>2
<1>11. CallInv'
  <2>1. /\ F \subseteq Threads
        /\ \A t \in Threads : t \notin {} \cup F => reply'[t] = reply[t]
    BY <1>3, <1>6, <1>7
  <2>2. \A t \in F : /\ pc[t] \in {"wait", "result"}
                     /\ \A d \in Conns : t \notin conn'[d].waiters
    BY <1>3, <1>7 DEF PendingMessage, Then
  <2>3. ASSUME NEW l \in Starts, NEW i \in 1 .. Len(queue'[l]), queue'[l][i].kind \in Awaited
        PROVE  /\ \E j \in 1 .. Len(queue[l]) : queue'[l][i] = queue[l][j]
               /\ queue'[l][i].from \notin F
               /\ \A d \in Conns : queue'[l][i].from \in conn'[d].waiters
                                     => queue'[l][i].from \in conn[d].waiters
               /\ queue'[l][i].kind = "client" => conn'[queue'[l][i].conn].out = 0
    <3> DEFINE x == queue'[l][i]
    <3>1. /\ \E j \in 1 .. Len(queue[l]) : x = queue[l][j]
          /\ PendingMessage(x) /\ x.from # m.from
      BY <1>2, <1>3, <2>3, Zenon
    <3> HIDE DEF x
    <3>2. /\ x.from \notin F
          /\ \A d \in Conns : x.from \in conn'[d].waiters => x.from \in conn[d].waiters
          /\ x.kind = "client" => conn'[x.conn].out = 0
      BY <1>7, <3>1 DEF PendingMessage
    <3> QED
      BY <3>1, <3>2 DEF x
  <2>4. \A d \in Conns : \A t \in conn'[d].waiters : t \in conn[d].waiters \/ Responder(d, t)
    BY <1>7
  <2>5. UNCHANGED <<pc, msg>> /\ OnePending'
    BY <1>2
  <2> HIDE DEF F
  <2>6. Answers(0, {}, F)
    BY <2>1, <2>2, <2>3, <2>4, <2>5, Zenon DEF Answers
  <2> QED
    BY <1>8, <2>6, CallsKept, Zenon
<1> QED
  BY <1>8, <1>9, <1>10, <1>11 DEF CommInv
\* _Terminate: nobody is answered, the thread ends later.
LEMMA RunTerminateKept ==
  ASSUME CommInv, RunTerminate
  PROVE  CommInv'
<1>0. CommTypes /\ CallInv /\ Lives /\ Pipes /\ PolledIsOpen
  BY DEF CommInv
<1>1. Takes({"terminate"}) /\ UNCHANGED <<at, polled, reply, conn, listener>>
  BY DEF RunTerminate, sockets
<1>2. /\ queue' \in [Starts -> Seq(Messages)]
      /\ OnePending'
      /\ UNCHANGED <<thread, starts, pc, msg, iter, draining>>
      /\ \A l \in Starts : \A i \in 1 .. Len(queue'[l]) :
           queue'[l][i].kind \in Awaited =>
             /\ \E j \in 1 .. Len(queue[l]) : queue'[l][i] = queue[l][j]
             /\ PendingMessage(queue'[l][i])
  <2>1. Takes({"terminate"})
    BY <1>1
  <2> QED
    BY <2>1, TakenFacts, Zenon
<1>3. CommTypes'
  BY <1>0, <1>1, <1>2 DEF CommTypes
<1>4. Lives' /\ Pipes' /\ PolledIsOpen'
  BY <1>0, <1>1, <1>2 DEF Lives, Pipes, PolledIsOpen
<1>5. Answers(0, {}, {})
  BY <1>1, <1>2 DEF Answers, PendingMessage
<1>6. CallInv'
  BY <1>3, <1>5, CallsKept, Zenon
<1> QED
  BY <1>3, <1>4, <1>6 DEF CommInv

-----------------------------------------------------------------------------
(* The callbacks.                                                          *)

\* A callback gets a pollable that is open.
LEMMA CalledFacts ==
  ASSUME CommInv, NEW kind \in {"pipe", "listener", "conn"}, Delivers(kind)
  PROVE  /\ iter' \in Nat \ {0}
         /\ at = "nx"
         /\ kind = "conn" => Called \in Conns /\ conn[Called].sock /\ UNCHANGED draining
         /\ kind = "pipe" => draining' \in Starts
         /\ kind = "listener" => /\ listener.sock \in {"open", "pending", "error"}
                                 /\ listener.out \in Starts
                                 /\ UNCHANGED draining
<1> DEFINE p == polled[NextReady]
           n == NextReady
<1>0. CommTypes /\ Pipes /\ PolledIsOpen /\ polled \in Seq(Pollables) /\ iter \in Nat \ {0}
  BY DEF CommInv, CommTypes
<1>1. /\ at = "nx" /\ n # 0 /\ p[1] = kind
      /\ iter' = IF kind = "pipe" THEN n ELSE n + 1
      /\ draining' = IF kind = "pipe" THEN p[2] ELSE draining
  BY DEF Delivers, Called
<1>2. n \in Nat \ {0} /\ p \in Pollables /\ p \in Range(polled)
  BY <1>0, <1>1, ReadyIsPolled
<1> HIDE DEF p, n
<1>3. /\ kind = "pipe" => p[2] \in Starts
      /\ kind = "listener" => p = Listener
      /\ kind = "conn" => p[2] \in Conns /\ p = Sock(p[2])
  BY <1>1, <1>2, PollableParts
<1>4. Called = p[2]
  BY DEF Called, p
<1>5. kind = "conn" => conn[p[2]].sock
  BY <1>0, <1>2, <1>3 DEF PolledIsOpen
<1>6. kind = "listener" => listener.sock \in {"open", "pending", "error"} /\ listener.out \in Starts
  BY <1>0, <1>2, <1>3 DEF PolledIsOpen, Pipes
<1>7. iter' \in Nat \ {0}
  BY <1>1, <1>2
<1> QED
  BY <1>1, <1>3, <1>4, <1>5, <1>6, <1>7

\* A message that nobody waits for changes no call.
LEMMA UnawaitedSent ==
  ASSUME CommTypes, OnePending, NEW k \in Starts, NEW m \in Messages, m.kind \notin Awaited,
         Enqueue(k, m)
  PROVE  /\ queue' \in [Starts -> Seq(Messages)]
         /\ OnePending'
         /\ \A l \in Starts : \A i \in 1 .. Len(queue'[l]) :
              queue'[l][i].kind \in Awaited =>
                i \in 1 .. Len(queue[l]) /\ queue'[l][i] = queue[l][i]
<1>1. /\ queue' \in [Starts -> Seq(Messages)]
      /\ \A l \in Starts : \A i \in 1 .. Len(queue'[l]) :
           \/ i \in 1 .. Len(queue[l]) /\ queue'[l][i] = queue[l][i]
           \/ l = k /\ i = Len(queue[k]) + 1 /\ queue'[l][i] = m
  BY AppendedMessage
<1>2. \A l \in Starts : \A i \in 1 .. Len(queue'[l]) :
        queue'[l][i].kind \in Awaited =>
          i \in 1 .. Len(queue[l]) /\ queue'[l][i] = queue[l][i]
  BY <1>1, Zenon
<1>3. OnePending'
  <2> SUFFICES ASSUME NEW l \in Starts, NEW n \in Starts,
                      NEW i \in 1 .. Len(queue'[l]), NEW j \in 1 .. Len(queue'[n]),
                      queue'[l][i].kind \in Awaited, queue'[n][j].kind \in Awaited,
                      \/ queue'[l][i].from = queue'[n][j].from
                      \/ /\ queue'[l][i].kind = "client" /\ queue'[n][j].kind = "client"
                         /\ queue'[l][i].conn = queue'[n][j].conn
               PROVE  l = n /\ i = j
    BY DEF OnePending
  <2>1. /\ i \in 1 .. Len(queue[l]) /\ queue'[l][i] = queue[l][i]
        /\ j \in 1 .. Len(queue[n]) /\ queue'[n][j] = queue[n][j]
    BY <1>2
  <2> QED
    BY <2>1 DEF OnePending
<1> QED
  BY <1>1, <1>2, <1>3

\* A connection's round: it stays in its life, waiters ts are answered.
LEMMA RoundKept ==
  ASSUME CommInv, NEW c \in Conns, NEW w \in WorldType, Become(w), Others(w, c),
         SameLife(w.conn[c], conn[c]), NEW ts, ts \subseteq conn[c].waiters,
         w.conn[c].waiters = conn[c].waiters \ ts, w.polled = polled,
         \A t \in Threads : t \notin ts => w.reply[t] = reply[t],
         UNCHANGED <<thread, starts, pc, msg, listener>>, iter' \in Nat \ {0}, at' # "drain",
         queue' \in [Starts -> Seq(Messages)], OnePending',
         \A l \in Starts : \A i \in 1 .. Len(queue'[l]) :
           queue'[l][i].kind \in Awaited =>
             i \in 1 .. Len(queue[l]) /\ queue'[l][i] = queue[l][i]
  PROVE  CommInv'
<1>0. CommTypes /\ CallInv /\ Lives /\ Pipes /\ PolledIsOpen /\ Pending
  BY DEF CommInv, CallInv
<1>1. conn' = w.conn /\ polled' = polled /\ reply' = w.reply
  BY DEF Become
<1>2. CommTypes'
  <2>1. listener' \in ListenerState
    BY <1>0 DEF CommTypes
  <2> QED
    BY <1>0, <2>1, TypesAfter
<1>3. Lives'
  <2> SUFFICES ASSUME NEW d \in Conns
               PROVE  /\ conn'[d].out = 0 => ~conn'[d].sock /\ conn'[d].terms = 0
                      /\ conn'[d].sock => conn'[d].terms = 0
                      /\ conn'[d].terms <= 1
                      /\ conn'[d].terms = 1 => /\ conn'[d].close
                                               /\ AddResponder = "fail" => conn'[d].waiters = {}
    BY DEF Lives
  <2>1. CASE d # c
    BY <1>0, <1>1, <2>1 DEF Lives, Others
  <2>2. CASE d = c
    BY <1>0, <1>1, <2>2 DEF Lives, SameLife
  <2> QED
    BY <2>1, <2>2
<1>4. \A d \in Conns : /\ conn'[d].sock = conn[d].sock /\ conn'[d].out = conn[d].out
                       /\ conn'[d].waiters \subseteq conn[d].waiters
  BY <1>1 DEF Others, SameLife
<1>5. Pipes' /\ PolledIsOpen'
  BY <1>0, <1>1, <1>4 DEF Pipes, PolledIsOpen
<1>6. CallInv'
  <2>1. ASSUME NEW l \in Starts, NEW i \in 1 .. Len(queue'[l]), queue'[l][i].kind \in Awaited
        PROVE  /\ \E j \in 1 .. Len(queue[l]) : queue'[l][i] = queue[l][j]
               /\ queue'[l][i].from \notin {}
               /\ \A d \in Conns : queue'[l][i].from \in conn'[d].waiters
                                     => queue'[l][i].from \in conn[d].waiters
               /\ queue'[l][i].kind = "client" => conn'[queue'[l][i].conn].out = 0
    <3> DEFINE x == queue'[l][i]
    <3>1. (\E j \in 1 .. Len(queue[l]) : x = queue[l][j]) /\ PendingMessage(x)
      BY <1>0, <2>1, Zenon DEF Pending
    <3>2. x \in Messages
      OBVIOUS
    <3> HIDE DEF x
    <3>3. x.kind = "client" => x.conn \in Conns
      BY <3>2, MessageParts
    <3>4. /\ \A d \in Conns : x.from \in conn'[d].waiters => x.from \in conn[d].waiters
          /\ x.kind = "client" => conn'[x.conn].out = 0
      BY <1>4, <3>1, <3>3 DEF PendingMessage
    <3> QED
      BY <3>1, <3>4 DEF x
  <2>2. /\ \A t \in Threads : t \notin ts \cup {} => reply'[t] = reply[t]
        /\ conn'[c].waiters \cap ts = {}
    BY <1>1
  <2>3. \A d \in Conns : \A t \in conn'[d].waiters : t \in conn[d].waiters \/ Responder(d, t)
    BY <1>4
  <2>4. UNCHANGED <<pc, msg>>
    OBVIOUS
  <2>5. Answers(c, ts, {})
    BY <2>1, <2>2, <2>3, <2>4, Zenon DEF Answers
  <2> QED
    BY <1>2, <2>5, CallsKept, Zenon
<1> QED
  BY <1>2, <1>3, <1>5, <1>6 DEF CommInv
\* What a round sends and whom it answers.
LEMMA RoundFacts ==
  ASSUME CommInv, Proceeds, NEW n \in Sent, NEW ts \in Answered
  PROVE  LET w == Process(n, ts) IN
         /\ Called \in Conns /\ conn[Called].sock
         /\ iter' \in Nat \ {0} /\ at = "nx"
         /\ UNCHANGED <<thread, starts, pc, msg, listener>>
         /\ ts \subseteq conn[Called].waiters
         /\ w \in WorldType
         /\ Others(w, Called)
         /\ SameLife(w.conn[Called], conn[Called])
         /\ w.conn[Called].waiters = conn[Called].waiters \ ts
         /\ w.polled = polled
         /\ \A t \in Threads : t \notin ts => w.reply[t] = reply[t]
<1> DEFINE c == Called
           w == Process(n, ts)
<1>0. CommTypes
  BY DEF CommInv
<1>1. Delivers("conn") /\ UNCHANGED <<thread, starts, pc, msg, listener>>
  BY Zenon DEF Proceeds
<1>2. c \in Conns /\ conn[c].sock /\ iter' \in Nat \ {0} /\ at = "nx"
  BY <1>1, CalledFacts
<1>3. conn[c] \in ConnState
  BY <1>0, <1>2 DEF CommTypes
<1>4. n \in Int
  BY <1>3 DEF Sent, ConnState
<1>5. ts \subseteq conn[c].waiters
  BY DEF Answered
<1>6. ts \in SUBSET Threads
  BY <1>3, <1>5 DEF ConnState
<1>7. /\ w \in WorldType /\ Others(w, c) /\ SameLife(w.conn[c], conn[c])
      /\ w.conn[c].waiters = conn[c].waiters \ ts /\ w.polled = polled
      /\ \A t \in Threads : w.reply[t] = IF t \in ts THEN "done" ELSE reply[t]
  BY <1>0, <1>2, <1>4, <1>6, ProcessFacts
<1> HIDE DEF c, w
<1>8. \A t \in Threads : t \notin ts => w.reply[t] = reply[t]
  BY <1>7
<1> QED
  BY <1>1, <1>2, <1>5, <1>7, <1>8 DEF c, w

\* The connection goes on.
LEMMA ConnectionCalledKept ==
  ASSUME CommInv, ConnectionCalled
  PROVE  CommInv'
<1>1. PICK n \in Sent, ts \in Answered : Become(Process(n, ts))
  BY DEF ConnectionCalled
<1>2. Proceeds /\ UNCHANGED queue /\ at' \in {at, "ended"}
  BY DEF ConnectionCalled
<1> DEFINE w == Process(n, ts)
           c == Called
<1>3. /\ c \in Conns
      /\ iter' \in Nat \ {0} /\ at = "nx"
      /\ UNCHANGED <<thread, starts, pc, msg, listener>>
      /\ ts \subseteq conn[c].waiters
      /\ w \in WorldType /\ Become(w)
      /\ Others(w, c)
      /\ SameLife(w.conn[c], conn[c])
      /\ w.conn[c].waiters = conn[c].waiters \ ts
      /\ w.polled = polled
      /\ \A t \in Threads : t \notin ts => w.reply[t] = reply[t]
  BY <1>1, <1>2, RoundFacts
<1>4. /\ queue' \in [Starts -> Seq(Messages)] /\ OnePending' /\ at' # "drain"
      /\ \A l \in Starts : \A i \in 1 .. Len(queue'[l]) :
           queue'[l][i].kind \in Awaited =>
             i \in 1 .. Len(queue[l]) /\ queue'[l][i] = queue[l][i]
  BY <1>2, <1>3 DEF CommInv, CommTypes, CallInv, OnePending
<1> HIDE DEF w, c
<1> QED
  BY <1>3, <1>4, RoundKept

\* The user handler writes to its connection or closes it.
LEMMA HandlerSendsKept ==
  ASSUME CommInv, NEW kind \in {"data", "close"}, HandlerSends(kind)
  PROVE  CommInv'
<1> DEFINE c == Called
           m == [kind |-> kind, conn |-> c]
           k == conn[c].out
<1>1. PICK n \in Sent, ts \in Answered :
        Become([Process(n, ts) EXCEPT !.conn[c].unsent = IF kind = "data" THEN @ + 1 ELSE @])
  BY DEF HandlerSends
<1>2. Proceeds /\ Enqueue(k, m) /\ UNCHANGED at
  BY DEF HandlerSends
<1> DEFINE p == Process(n, ts)
           v == IF kind = "data" THEN p.conn[c].unsent + 1 ELSE p.conn[c].unsent
           w == [p EXCEPT !.conn[c].unsent = v]
<1>3. /\ c \in Conns /\ conn[c].sock
      /\ iter' \in Nat \ {0} /\ at = "nx"
      /\ UNCHANGED <<thread, starts, pc, msg, listener>>
      /\ ts \subseteq conn[c].waiters
      /\ p \in WorldType
      /\ Others(p, c)
      /\ SameLife(p.conn[c], conn[c])
      /\ p.conn[c].waiters = conn[c].waiters \ ts
      /\ p.polled = polled
      /\ \A t \in Threads : t \notin ts => p.reply[t] = reply[t]
  BY <1>2, RoundFacts
<1>4. Become(w)
  <2> HIDE DEF p, c
  <2>1. w = [p EXCEPT !.conn[c].unsent = IF kind = "data" THEN @ + 1 ELSE @]
    BY <1>3 DEF WorldType
  <2> QED
    BY <1>1, <2>1 DEF p
<1> HIDE DEF p, c
<1>5. v \in Int
  BY <1>3 DEF WorldType, ConnState
<1> HIDE DEF v
<1>6. /\ w \in WorldType
      /\ \A d \in Conns : d # c => w.conn[d] = p.conn[d]
      /\ SameLife(w.conn[c], p.conn[c])
      /\ w.conn[c].waiters = p.conn[c].waiters
      /\ w.polled = p.polled
      /\ w.reply = p.reply
  BY <1>3, <1>5, UnsentFacts
<1> HIDE DEF w
<1>7. /\ Others(w, c) /\ SameLife(w.conn[c], conn[c])
      /\ w.conn[c].waiters = conn[c].waiters \ ts /\ w.polled = polled
      /\ \A t \in Threads : t \notin ts => w.reply[t] = reply[t]
  BY <1>3, <1>6 DEF Others, SameLife
<1>8. k \in Starts
  <2>1. k # 0 /\ conn[c] \in ConnState
    BY <1>3 DEF CommInv, Lives, CommTypes
  <2> QED
    BY <2>1, CommAssumption DEF ConnState, Starts
<1>9. m \in Messages /\ m.kind \notin Awaited
  BY <1>3 DEF Messages, Awaited
<1> HIDE DEF k, m
<1>10. /\ queue' \in [Starts -> Seq(Messages)] /\ OnePending'
       /\ \A l \in Starts : \A i \in 1 .. Len(queue'[l]) :
            queue'[l][i].kind \in Awaited =>
              i \in 1 .. Len(queue[l]) /\ queue'[l][i] = queue[l][i]
  BY <1>2, <1>8, <1>9, UnawaitedSent DEF CommInv, CallInv
<1>11. at' # "drain"
  BY <1>2, <1>3
<1> QED
  BY <1>3, <1>4, <1>6, <1>7, <1>10, <1>11, RoundKept

\* End of input or an error: the connection is closed here as by a message.
LEMMA ConnectionClosesKept ==
  ASSUME CommInv, ConnectionCloses
  PROVE  CommInv'
<1> DEFINE c == Called
           w == removeFrom(World, c)
<1>0. CommTypes /\ CallInv /\ Lives /\ Pipes /\ PolledIsOpen /\ IsInjective(polled) /\ Pending
  BY DEF CommInv, CallInv, PolledIsOpen
<1>1. /\ Delivers("conn") /\ Become(w) /\ UNCHANGED <<thread, starts, queue, pc, msg, listener>>
      /\ at' \in {at, "ended"}
  BY DEF ConnectionCloses, client
<1>2. c \in Conns /\ conn[c].sock /\ iter' \in Nat \ {0} /\ at = "nx" /\ UNCHANGED draining
  BY <1>1, CalledFacts
<1> HIDE DEF c
<1>3. /\ w \in WorldType /\ Others(w, c) /\ w.conn[c].out = conn[c].out
      /\ w.conn[c].waiters = {}
      /\ \A t \in Threads : w.reply[t] = IF t \in conn[c].waiters THEN "error" ELSE reply[t]
  BY <1>0, <1>2, RemoveFromFacts
<1>4. CommTypes'
  <2>1. listener' \in ListenerState /\ queue' \in [Starts -> Seq(Messages)]
    BY <1>0, <1>1 DEF CommTypes
  <2> HIDE DEF w
  <2> QED
    BY <1>0, <1>1, <1>2, <1>3, <2>1, TypesAfter
<1>5. Lives' /\ Pipes' /\ PolledIsOpen'
  <2>1. at' = "drain" => at = "drain" /\ UNCHANGED draining
    BY <1>1, <1>2
  <2>2. UNCHANGED <<starts, listener>> /\ conn' = w.conn /\ polled' = w.polled
    BY <1>1 DEF Become
  <2> QED
    BY <1>2, <2>1, <2>2, RemovedSockets
<1> HIDE DEF w
<1>6. conn' = w.conn /\ reply' = w.reply
  BY <1>1 DEF Become
<1>7. \A d \in Conns : conn'[d].out = conn[d].out /\ conn'[d].waiters \subseteq conn[d].waiters
  BY <1>3, <1>6 DEF Others
<1>8. CallInv'
  <2> DEFINE W == conn[c].waiters
  <2>1. /\ \A t \in Threads : t \notin W \cup {} => reply'[t] = reply[t]
        /\ conn'[c].waiters \cap W = {}
    BY <1>3, <1>6
  <2>2. ASSUME NEW l \in Starts, NEW i \in 1 .. Len(queue'[l]), queue'[l][i].kind \in Awaited
        PROVE  /\ \E j \in 1 .. Len(queue[l]) : queue'[l][i] = queue[l][j]
               /\ queue'[l][i].from \notin {}
               /\ \A d \in Conns : queue'[l][i].from \in conn'[d].waiters
                                     => queue'[l][i].from \in conn[d].waiters
               /\ queue'[l][i].kind = "client" => conn'[queue'[l][i].conn].out = 0
    <3> DEFINE x == queue[l][i]
    <3>1. i \in 1 .. Len(queue[l]) /\ queue'[l][i] = x /\ x.kind \in Awaited
      BY <1>1, <2>2
    <3>2. PendingMessage(x) /\ x \in Messages
      BY <1>0, <3>1 DEF Pending, CommTypes
    <3>3. \E j \in 1 .. Len(queue[l]) : queue'[l][i] = queue[l][j]
      BY <3>1
    <3> HIDE DEF x
    <3>4. x.kind = "client" => x.conn \in Conns
      BY <3>2, MessageParts
    <3>5. /\ \A d \in Conns : x.from \in conn'[d].waiters => x.from \in conn[d].waiters
          /\ x.kind = "client" => conn'[x.conn].out = 0
      BY <1>7, <3>2, <3>4 DEF PendingMessage
    <3> QED
      BY <3>1, <3>3, <3>5
  <2>3. \A d \in Conns : \A t \in conn'[d].waiters : t \in conn[d].waiters \/ Responder(d, t)
    BY <1>7
  <2>4. UNCHANGED <<pc, msg>> /\ OnePending'
    BY <1>0, <1>1 DEF CallInv, OnePending
  <2>5. Answers(c, W, {})
    BY <1>2, <2>1, <2>2, <2>3, <2>4, Zenon DEF Answers
  <2> QED
    BY <1>4, <2>5, CallsKept, Zenon
<1> QED
  BY <1>4, <1>5, <1>8 DEF CommInv
\* No call and no socket is touched.
LEMMA QuietKept ==
  ASSUME CommInv, UNCHANGED <<thread, starts, queue, pc, msg, reply, polled, conn>>,
         iter' \in Nat \ {0}, at' = "drain" => draining' \in Starts,
         listener' \in ListenerState, listener'.out = listener.out,
         listener'.sock = "none" <=> listener.sock = "none",
         listener'.sock \in {"open", "pending", "error"}
           <=> listener.sock \in {"open", "pending", "error"}
  PROVE  CommInv'
<1>0. CommTypes /\ CallInv /\ Lives /\ Pipes /\ PolledIsOpen
  BY DEF CommInv
<1>1. CommTypes'
  BY <1>0 DEF CommTypes
<1>2. Lives' /\ Pipes' /\ PolledIsOpen'
  BY <1>0 DEF Lives, Pipes, PolledIsOpen
<1>3. CallInv'
  BY <1>0 DEF CallInv, Pending, PendingMessage, OnePending, Responders, Responder, NoAnswerYet
<1> QED
  BY <1>1, <1>2, <1>3 DEF CommInv

\* The steps of the poller thread between the callbacks, and those of the peers.
LEMMA PollerMovesKept ==
  ASSUME CommInv, \/ Leave \/ Poll \/ ReadPipe \/ DrainDone \/ Processed \/ PeerConnects
                  \/ \E c \in Conns : PeerActs(c)
  PROVE  CommInv'
<1>0. CommTypes /\ Pipes /\ iter \in Nat \ {0} /\ listener \in ListenerState
  BY DEF CommInv, CommTypes
<1> DEFINE Same == UNCHANGED <<thread, starts, queue, pc, msg, reply, polled, conn>>
<1>1. CASE Leave
  <2>1. Same /\ UNCHANGED <<iter, draining, listener>> /\ at' = "ended"
    BY <1>1 DEF Leave, client, sockets
  <2> QED
    BY <1>0, <2>1, QuietKept
<1>2. CASE Poll
  <2>1. Same /\ UNCHANGED <<draining, listener>> /\ iter' = 1 /\ at' = "nx"
    BY <1>2 DEF Poll, client, sockets
  <2> QED
    BY <1>0, <2>1, QuietKept
<1>3. CASE ReadPipe
  <2>1. Same /\ UNCHANGED listener /\ Delivers("pipe")
    BY <1>3 DEF ReadPipe, client, sockets
  <2>2. iter' \in Nat \ {0} /\ draining' \in Starts
    BY <2>1, CalledFacts
  <2> QED
    BY <1>0, <2>1, <2>2, QuietKept
<1>4. CASE DrainDone
  <2>1. Same /\ UNCHANGED <<draining, listener>> /\ iter' = iter + 1 /\ at' = "nx"
    BY <1>4 DEF DrainDone, client, sockets
  <2>2. iter' \in Nat \ {0}
    BY <1>0, <2>1
  <2> QED
    BY <1>0, <2>1, <2>2, QuietKept
<1>5. CASE Processed
  <2>1. Same /\ UNCHANGED <<draining, listener>> /\ iter' = 1 /\ at' = "loop"
    BY <1>5 DEF Processed, client, sockets
  <2> QED
    BY <1>0, <2>1, QuietKept
<1>6. CASE PeerConnects
  <2>1. /\ Same /\ UNCHANGED <<iter, at, draining>> /\ listener.sock = "open"
        /\ \E s \in {"pending", "error"} : listener' = [listener EXCEPT !.sock = s]
    BY <1>6 DEF PeerConnects, client, poller
  <2>2. /\ listener' \in ListenerState /\ listener'.out = listener.out
        /\ listener'.sock \in {"pending", "error"}
    BY <1>0, <2>1 DEF ListenerState
  <2>3. at' = "drain" => draining' \in Starts
    BY <1>0, <2>1 DEF Pipes
  <2> QED
    BY <1>0, <2>1, <2>2, <2>3, QuietKept
<1>7. CASE \E c \in Conns : PeerActs(c)
  <2>1. Same /\ UNCHANGED <<iter, at, draining, listener>>
    BY <1>7 DEF PeerActs, client, poller, sockets
  <2>2. at' = "drain" => draining' \in Starts
    BY <1>0, <2>1 DEF Pipes
  <2> QED
    BY <1>0, <2>1, <2>2, QuietKept
<1> QED
  BY <1>1, <1>2, <1>3, <1>4, <1>5, <1>6, <1>7

\* accept(), or the end of the listener.
LEMMA ListenerCalledKept ==
  ASSUME CommInv, ListenerCalled
  PROVE  CommInv'
<1>0. /\ CommTypes /\ CallInv /\ Lives /\ Pipes /\ PolledIsOpen /\ IsInjective(polled) /\ Pending
      /\ listener \in ListenerState /\ polled \in Seq(Pollables)
  BY DEF CommInv, CallInv, PolledIsOpen, CommTypes
<1>1. Delivers("listener") /\ UNCHANGED <<thread, starts, queue, pc, msg>>
  BY Zenon DEF ListenerCalled, client
<1>2. /\ iter' \in Nat \ {0} /\ at = "nx" /\ listener.sock \in {"open", "pending", "error"}
      /\ listener.out \in Starts /\ UNCHANGED draining
  BY <1>1, CalledFacts
<1>3. CASE Got("in")
  <2>1. PICK c \in Fresh, result \in Accept :
          /\ listener' = [listener EXCEPT !.sock = "open"]
          /\ IF result = "null" THEN UNCHANGED <<conn, polled, reply>>
             ELSE Become(addConnection(World, c, listener.out))
          /\ at' = IF result = "null" THEN "crashed" ELSE "nx"
    BY <1>3, Zenon DEF ListenerCalled
  <2>2. /\ listener' \in ListenerState /\ listener'.out = listener.out /\ listener'.sock = "open"
        /\ at' # "drain"
    BY <1>0, <2>1 DEF ListenerState
  <2>3. CASE result = "null"
    BY <1>1, <1>2, <2>1, <2>2, <2>3, QuietKept
  <2>4. CASE result # "null"
    <3> DEFINE k == listener.out
               w == addConnection(World, c, k)
    <3>1. c \in Conns /\ c \in Served /\ conn[c].out = 0
      BY CommAssumption DEF Fresh
    <3>2. /\ w \in WorldType /\ Others(w, c) /\ Become(w)
          /\ w.conn[c].waiters = conn[c].waiters /\ w.reply = reply
      BY <1>0, <1>2, <2>1, <2>4, <3>1, AddConnectionFacts
    <3>3. conn' = w.conn /\ polled' = w.polled /\ reply' = reply
      BY <3>2 DEF Become
    <3>4. CommTypes'
      <4>1. queue' \in [Starts -> Seq(Messages)]
        BY <1>0, <1>1 DEF CommTypes
      <4> HIDE DEF w
      <4> QED
        BY <1>0, <1>1, <1>2, <2>2, <3>2, <4>1, TypesAfter
    <3>5. Lives' /\ Pipes' /\ PolledIsOpen'
      <4>1. conn' = addConnection(World, c, k).conn /\ polled' = addConnection(World, c, k).polled
        BY <3>3
      <4>2. k \in Starts
        BY <1>2
      <4> HIDE DEF k
      <4> QED
        BY <1>1, <1>2, <2>2, <3>1, <4>1, <4>2, AddedSockets DEF k
    <3> HIDE DEF w
    <3>6. \A d \in Conns : /\ conn'[d].waiters = conn[d].waiters
                           /\ d # c => conn'[d].out = conn[d].out
      BY <3>2, <3>3 DEF Others
    <3>7. ASSUME NEW l \in Starts, NEW i \in 1 .. Len(queue'[l]), queue'[l][i].kind \in Awaited
          PROVE  /\ \E j \in 1 .. Len(queue[l]) : queue'[l][i] = queue[l][j]
                 /\ queue'[l][i].from \notin {}
                 /\ \A d \in Conns : queue'[l][i].from \in conn'[d].waiters
                                       => queue'[l][i].from \in conn[d].waiters
                 /\ queue'[l][i].kind = "client" => conn'[queue'[l][i].conn].out = 0
      <4> DEFINE x == queue[l][i]
      <4>1. i \in 1 .. Len(queue[l]) /\ queue'[l][i] = x /\ x.kind \in Awaited
        BY <1>1, <3>7
      <4>2. PendingMessage(x) /\ x \in Messages
        BY <1>0, <4>1 DEF Pending, CommTypes
      <4>3. \E j \in 1 .. Len(queue[l]) : queue'[l][i] = queue[l][j]
        BY <4>1
      <4> HIDE DEF x
      <4>4. x.kind = "client" => x.conn \in Conns
        BY <4>2, MessageParts
      <4>5. /\ \A d \in Conns : x.from \in conn'[d].waiters => x.from \in conn[d].waiters
            /\ x.kind = "client" => conn'[x.conn].out = 0
        BY <3>1, <3>6, <4>2, <4>4 DEF PendingMessage
      <4> QED
        BY <4>1, <4>3, <4>5
    <3>8. /\ UNCHANGED <<pc, msg>> /\ OnePending'
          /\ \A t \in Threads : t \notin {} \cup {} => reply'[t] = reply[t]
          /\ \A d \in Conns : \A t \in conn'[d].waiters : t \in conn[d].waiters \/ Responder(d, t)
      BY <1>0, <1>1, <3>3, <3>6 DEF CallInv, OnePending
    <3>9. Answers(c, {}, {})
      BY <3>7, <3>8, Zenon DEF Answers
    <3>10. CallInv'
      BY <3>4, <3>9, CallsKept, Zenon
    <3> QED
      BY <3>4, <3>5, <3>10 DEF CommInv
  <2> QED
    BY <2>3, <2>4
<1>4. CASE ~Got("in")
  <2>1. /\ listener' = [listener EXCEPT !.sock = "closed"]
        /\ polled' = Without(polled, Listener)
        /\ UNCHANGED <<conn, reply, at>>
    BY <1>4, Zenon DEF ListenerCalled
  <2>2. listener' \in ListenerState /\ listener'.out = listener.out /\ listener'.sock = "closed"
    BY <1>0, <2>1 DEF ListenerState
  <2>3. /\ polled' \in Seq(Pollables) /\ Range(polled') = Range(polled) \ {Listener}
        /\ IsInjective(polled')
    BY <1>0, <2>1, WithoutRange
  <2>4. CommTypes'
    BY <1>0, <1>1, <1>2, <2>1, <2>2, <2>3 DEF CommTypes
  <2>5. Lives' /\ CallInv'
    BY <1>0, <1>1, <2>1 DEF Lives, CallInv, Pending, PendingMessage, OnePending, Responders,
                            Responder, NoAnswerYet
  <2>6. \A d \in Conns : Sock(d) \in Range(polled') <=> Sock(d) \in Range(polled)
    BY <2>3, PollablesDiffer
  <2>7. Pipes' /\ PolledIsOpen'
    BY <1>0, <1>1, <1>2, <2>1, <2>2, <2>3, <2>6 DEF Pipes, PolledIsOpen
  <2> QED
    BY <2>4, <2>5, <2>7 DEF CommInv
<1> QED
  BY <1>3, <1>4
-----------------------------------------------------------------------------
(* The threads that use the Comm.                                          *)

\* A thread whose own steps come now has nothing under way.
LEMMA NothingUnderWay ==
  ASSUME CommInv, NEW t \in Threads, pc[t] \in {"idle", "join"} \/ reply[t] # "none"
  PROVE  /\ pc[t] \in {"idle", "join"} => reply[t] = "none"
         /\ \A c \in Conns : t \notin conn[c].waiters
         /\ \A l \in Starts : \A i \in 1 .. Len(queue[l]) :
              queue[l][i].kind \in Awaited => queue[l][i].from # t
<1>0. Pending /\ Responders /\ NoAnswerYet
  BY DEF CommInv, CallInv
<1>1. pc[t] \in {"idle", "join"} => reply[t] = "none"
  BY <1>0 DEF NoAnswerYet
<1>2. \A c \in Conns : t \notin conn[c].waiters
  BY <1>0 DEF Responders, Responder
<1>3. ASSUME NEW l \in Starts, NEW i \in 1 .. Len(queue[l]), queue[l][i].kind \in Awaited,
             queue[l][i].from = t
      PROVE  FALSE
  <2> DEFINE x == queue[l][i]
  <2>1. PendingMessage(x) /\ x.kind \in Awaited /\ x.from = t
    BY <1>0, <1>3 DEF Pending
  <2> HIDE DEF x
  <2>2. pc[t] = Then[x.kind] /\ reply[t] = "none"
    BY <2>1 DEF PendingMessage
  <2>3. Then[x.kind] \in {"wait", "result"}
    BY <2>1 DEF Then, Awaited
  <2> QED
    BY <2>2, <2>3
<1> QED
  BY <1>1, <1>2, <1>3

\* What the other threads wait for is not touched by a step of thread t.
OtherCalls(t) ==
  /\ \A u \in Threads : u # t => /\ pc'[u] = pc[u] /\ msg'[u] = msg[u] /\ reply'[u] = reply[u]
  /\ \A d \in Conns : conn'[d].waiters = conn[d].waiters /\ conn'[d].out = conn[d].out

\* Such a step keeps the other threads' pending messages and the responders.
LEMMA OthersPending ==
  ASSUME CommInv, NEW t \in Threads, OtherCalls(t), \A c \in Conns : t \notin conn[c].waiters
  PROVE  /\ Responders'
         /\ \A x \in Messages : x.kind \in Awaited /\ x.from # t /\ PendingMessage(x)
              => /\ msg'[x.from] = x /\ pc'[x.from] = Then[x.kind] /\ reply'[x.from] = "none"
                 /\ \A c \in Conns : x.from \notin conn'[c].waiters
                 /\ x.kind = "client" => conn'[x.conn].out = 0 /\ x.conn \notin Served
<1>0. Responders /\ CommTypes
  BY DEF CommInv, CallInv
<1>1. Responders'
  <2> SUFFICES ASSUME NEW d \in Conns, NEW u \in conn'[d].waiters PROVE Responder(d, u)'
    BY DEF Responders
  <2>1. Responder(d, u) /\ u \in conn[d].waiters
    BY <1>0 DEF Responders, OtherCalls
  <2>2. u \in Threads /\ u # t
    BY <1>0, <2>1 DEF CommTypes, ConnState
  <2> QED
    BY <2>1, <2>2 DEF Responder, OtherCalls
<1>2. ASSUME NEW x \in Messages, x.kind \in Awaited, x.from # t, PendingMessage(x)
      PROVE  /\ msg'[x.from] = x /\ pc'[x.from] = Then[x.kind] /\ reply'[x.from] = "none"
             /\ \A c \in Conns : x.from \notin conn'[c].waiters
             /\ x.kind = "client" => conn'[x.conn].out = 0 /\ x.conn \notin Served
  <2>1. x.from \in Threads /\ (x.kind = "client" => x.conn \in Conns)
    BY <1>2, MessageParts
  <2> QED
    BY <1>2, <2>1 DEF PendingMessage, OtherCalls
<1> QED
  BY <1>1, <1>2

\* sendMessage(): the message that is waited for is the sender's only one.
LEMMA SendKept ==
  ASSUME CommInv, NEW t \in Threads, NEW k \in Starts, NEW m \in Messages, m.from = t,
         m.kind \in {"client", "server", "closeSync", "sync", "terminate", "data", "close"},
         SendMessage(t, k, m), conn' \in [Conns -> ConnState],
         \A d \in Conns : SameLife(conn'[d], conn[d]) /\ conn'[d].waiters = conn[d].waiters,
         m.kind = "client" => /\ m.conn \in Conns /\ conn[m.conn].out = 0 /\ m.conn \notin Served
                              /\ \A u \in Threads : msg[u].kind = "client" => msg[u].conn # m.conn
  PROVE  CommInv'
<1>0. /\ CommTypes /\ CallInv /\ Lives /\ Pipes /\ PolledIsOpen /\ Pending /\ OnePending
      /\ NoAnswerYet
  BY DEF CommInv, CallInv
<1>1. /\ pc[t] = "idle" /\ Enqueue(k, m)
      /\ pc' = [pc EXCEPT ![t] = Then[m.kind]]
      /\ msg' = [msg EXCEPT ![t] = IF Then[m.kind] = "idle" THEN NoMessage ELSE m]
      /\ UNCHANGED <<thread, starts, reply, at, polled, iter, draining, listener>>
  BY Zenon DEF SendMessage, Calls, poller
<1>2. /\ Then[m.kind] \in {"idle", "wait", "result", "join"}
      /\ m.kind \in Awaited <=> Then[m.kind] \in {"wait", "result"}
  BY DEF Then, Awaited
<1>3. /\ queue' \in [Starts -> Seq(Messages)]
      /\ \A l \in Starts : \A i \in 1 .. Len(queue'[l]) :
           \/ i \in 1 .. Len(queue[l]) /\ queue'[l][i] = queue[l][i]
           \/ l = k /\ i = Len(queue[k]) + 1 /\ queue'[l][i] = m
  BY <1>0, <1>1, AppendedMessage
<1>4. /\ reply[t] = "none" /\ \A c \in Conns : t \notin conn[c].waiters
      /\ \A l \in Starts : \A i \in 1 .. Len(queue[l]) :
           queue[l][i].kind \in Awaited => queue[l][i].from # t
  BY <1>1, NothingUnderWay
<1>5. CommTypes'
  BY <1>0, <1>1, <1>2, <1>3 DEF CommTypes
<1>6. Lives' /\ Pipes' /\ PolledIsOpen'
  BY <1>0, <1>1 DEF Lives, Pipes, PolledIsOpen, SameLife
<1>7. /\ pc'[t] = Then[m.kind] /\ (m.kind \in Awaited => msg'[t] = m) /\ OtherCalls(t)
  BY <1>0, <1>1, <1>2 DEF CommTypes, OtherCalls, SameLife
<1>8. /\ Responders'
      /\ \A x \in Messages : x.kind \in Awaited /\ x.from # t /\ PendingMessage(x)
           => /\ msg'[x.from] = x /\ pc'[x.from] = Then[x.kind] /\ reply'[x.from] = "none"
              /\ \A c \in Conns : x.from \notin conn'[c].waiters
              /\ x.kind = "client" => conn'[x.conn].out = 0 /\ x.conn \notin Served
  BY <1>4, <1>7, OthersPending
<1>9. NoAnswerYet'
  BY <1>0, <1>1, <1>4, <1>7 DEF NoAnswerYet, OtherCalls
<1>10. Pending'
  <2> SUFFICES ASSUME NEW l \in Starts, NEW i \in 1 .. Len(queue'[l]),
                      queue'[l][i].kind \in Awaited
               PROVE  PendingMessage(queue[l][i])'
    BY DEF Pending
  <2> DEFINE x == queue'[l][i]
  <2>1. CASE i \in 1 .. Len(queue[l]) /\ x = queue[l][i]
    <3>1. PendingMessage(x) /\ x.from # t /\ x \in Messages /\ x.kind \in Awaited
      BY <1>0, <1>3, <1>4, <2>1 DEF Pending
    <3> HIDE DEF x
    <3> QED
      BY <1>8, <3>1 DEF PendingMessage, x
  <2>2. CASE x = m
    <3>1. m.kind \in Awaited
      BY <2>2
    <3>2. /\ msg'[m.from] = m /\ pc'[m.from] = Then[m.kind] /\ reply'[m.from] = "none"
          /\ \A c \in Conns : m.from \notin conn'[c].waiters
          /\ m.kind = "client" => conn'[m.conn].out = 0 /\ m.conn \notin Served
      BY <1>1, <1>4, <1>7, <3>1 DEF SameLife
    <3> HIDE DEF x
    <3> QED
      BY <2>2, <3>2 DEF PendingMessage, x
  <2> QED
    BY <1>3, <2>1, <2>2
<1>11. OnePending'
  <2>1. ASSUME NEW l \in Starts, NEW i \in 1 .. Len(queue[l]), queue[l][i].kind = "client",
               m.kind = "client"
        PROVE  queue[l][i].conn # m.conn
    <3> DEFINE x == queue[l][i]
    <3>1. PendingMessage(x) /\ x \in Messages /\ x.kind \in Awaited /\ x.kind = "client"
      BY <1>0, <2>1 DEF Pending, Awaited, CommTypes
    <3> HIDE DEF x
    <3>2. x.from \in Threads /\ msg[x.from] = x
      BY <3>1, MessageParts DEF PendingMessage
    <3>3. x.conn # m.conn
      BY <2>1, <3>1, <3>2
    <3> QED
      BY <3>3 DEF x
  <2> SUFFICES ASSUME NEW l \in Starts, NEW n \in Starts,
                      NEW i \in 1 .. Len(queue'[l]), NEW j \in 1 .. Len(queue'[n]),
                      queue'[l][i].kind \in Awaited, queue'[n][j].kind \in Awaited,
                      \/ queue'[l][i].from = queue'[n][j].from
                      \/ /\ queue'[l][i].kind = "client" /\ queue'[n][j].kind = "client"
                         /\ queue'[l][i].conn = queue'[n][j].conn
               PROVE  l = n /\ i = j
    BY DEF OnePending
  <2>2. CASE i \in 1 .. Len(queue[l]) /\ queue'[l][i] = queue[l][i]
    <3>1. CASE j \in 1 .. Len(queue[n]) /\ queue'[n][j] = queue[n][j]
      BY <1>0, <2>2, <3>1 DEF OnePending
    <3>2. CASE queue'[n][j] = m
      BY <1>4, <2>1, <2>2, <3>2
    <3> QED
      BY <1>3, <3>1, <3>2
  <2>3. CASE l = k /\ i = Len(queue[k]) + 1 /\ queue'[l][i] = m
    <3>1. CASE j \in 1 .. Len(queue[n]) /\ queue'[n][j] = queue[n][j]
      BY <1>4, <2>1, <2>3, <3>1
    <3>2. CASE n = k /\ j = Len(queue[k]) + 1 /\ queue'[n][j] = m
      BY <2>3, <3>2
    <3> QED
      BY <1>3, <3>1, <3>2
  <2> QED
    BY <1>3, <2>2, <2>3
<1> QED
  BY <1>5, <1>6, <1>8, <1>9, <1>10, <1>11 DEF CommInv, CallInv
\* connect(), startServer(), write(), sendSync(), close(), closeSync() and stop().
LEMMA CallsSend ==
  ASSUME CommInv, NEW t \in Threads,
         \/ Stop(t) \/ StartServer(t)
         \/ \E c \in Conns : \/ Connect(t, c)
                             \/ Write(t, "data", c) \/ Write(t, "sync", c)
                             \/ Close(t, "close", c) \/ Close(t, "closeSync", c)
  PROVE  CommInv'
<1>0. CommTypes /\ conn \in [Conns -> ConnState]
  BY DEF CommInv, CommTypes
<1>1. thread # 0 => thread \in Starts
  BY <1>0, CommAssumption DEF CommTypes, Starts
<1>2. \A c \in Conns : conn[c].out # 0 => conn[c].out \in Starts
  BY <1>0, CommAssumption DEF ConnState, Starts
<1>3. CASE Stop(t) \/ StartServer(t)
  <2>1. PICK kind \in {"server", "terminate"} :
          thread # 0 /\ SendMessage(t, thread, Message(t, kind)) /\ UNCHANGED conn
    BY <1>3 DEF Stop, StartServer
  <2> DEFINE m == Message(t, kind)
             k == thread
  <2>2. m \in Messages /\ m.from = t /\ m.kind \in {"server", "terminate"}
    BY DEF Messages, Message
  <2>3. k \in Starts /\ SendMessage(t, k, m) /\ UNCHANGED conn
    BY <1>1, <2>1
  <2> HIDE DEF m, k
  <2>4. /\ conn' \in [Conns -> ConnState]
        /\ \A d \in Conns : SameLife(conn'[d], conn[d]) /\ conn'[d].waiters = conn[d].waiters
    BY <1>0, <2>3 DEF SameLife
  <2> QED
    BY <2>2, <2>3, <2>4, SendKept
<1>4. ASSUME NEW c \in Conns, Connect(t, c) PROVE CommInv'
  <2> DEFINE m == OnConnection(t, "client", c)
             k == thread
  <2>1. m \in Messages /\ m.from = t /\ m.kind = "client" /\ m.conn = c
    BY DEF Messages, OnConnection
  <2>2. /\ k \in Starts /\ SendMessage(t, k, m) /\ UNCHANGED conn
        /\ conn[c].out = 0 /\ c \notin Served
        /\ \A u \in Threads : msg[u].kind = "client" => msg[u].conn # c
    BY <1>1, <1>4 DEF Connect
  <2> HIDE DEF m, k
  <2>3. /\ conn' \in [Conns -> ConnState]
        /\ \A d \in Conns : SameLife(conn'[d], conn[d]) /\ conn'[d].waiters = conn[d].waiters
    BY <1>0, <2>2 DEF SameLife
  <2> QED
    BY <2>1, <2>2, <2>3, SendKept
<1>5. ASSUME NEW c \in Conns, NEW kind \in {"data", "sync", "close", "closeSync"},
             Write(t, kind, c) \/ Close(t, kind, c)
      PROVE  CommInv'
  <2> DEFINE m == OnConnection(t, kind, c)
             k == conn[c].out
  <2>1. m \in Messages /\ m.from = t /\ m.kind = kind
    BY DEF Messages, OnConnection
  <2>2. /\ k \in Starts /\ SendMessage(t, k, m)
        /\ conn' = conn \/ conn' = [conn EXCEPT ![c].unsent = @ + 1]
    BY <1>2, <1>5 DEF Write, Close
  <2>3. /\ conn' \in [Conns -> ConnState]
        /\ \A d \in Conns : SameLife(conn'[d], conn[d]) /\ conn'[d].waiters = conn[d].waiters
    <3>1. CASE conn' = conn
      BY <1>0, <3>1 DEF SameLife
    <3>2. CASE conn' = [conn EXCEPT ![c].unsent = @ + 1]
      <4> DEFINE n == conn[c].unsent + 1
                 s == [conn[c] EXCEPT !.unsent = n]
      <4>1. n \in Int /\ conn[c] \in ConnState
        BY <1>0 DEF ConnState
      <4>2. conn' = [conn EXCEPT ![c] = s]
        BY <1>0, <3>2
      <4> HIDE DEF n
      <4>3. s \in ConnState /\ SameLife(s, conn[c]) /\ s.waiters = conn[c].waiters
        BY <4>1 DEF ConnState, SameLife
      <4> HIDE DEF s
      <4> QED
        BY <1>0, <4>2, <4>3 DEF SameLife
    <3> QED
      BY <2>2, <3>1, <3>2
  <2> HIDE DEF m, k
  <2>4. m.kind \in {"data", "sync", "close", "closeSync"}
    BY <2>1
  <2> QED
    BY <2>1, <2>2, <2>3, <2>4, SendKept
<1> QED
  BY <1>3, <1>4, <1>5

\* wait() and getResult() return, start() adds a pipe, stop() has joined the thread.
LEMMA CallsReturn ==
  ASSUME CommInv, NEW t \in Threads, Returns(t) \/ Join(t) \/ Start(t)
  PROVE  CommInv'
<1>0. /\ CommTypes /\ CallInv /\ Lives /\ Pipes /\ PolledIsOpen /\ Pending /\ OnePending
      /\ NoAnswerYet /\ polled \in Seq(Pollables) /\ starts \in 0 .. MaxStarts /\ MaxStarts \in Nat
  BY CommAssumption DEF CommInv, CallInv, CommTypes
<1>1. CASE Returns(t) \/ Join(t)
  <2>1. /\ pc[t] = "join" \/ reply[t] # "none"
        /\ thread' \in {0, thread} /\ at' \in {at, "none"}
        /\ pc' = [pc EXCEPT ![t] = "idle"] /\ msg' = [msg EXCEPT ![t] = NoMessage]
        /\ reply' \in {reply, [reply EXCEPT ![t] = "none"]}
        /\ reply' = reply => pc[t] = "join" \/ reply[t] = "none"
        /\ UNCHANGED <<starts, queue, conn, listener, polled, iter, draining>>
    <3>1. CASE Returns(t)
      <4>1. UNCHANGED <<thread, starts, queue, at, conn, listener, polled, iter, draining>>
        BY <3>1, Zenon DEF Returns, poller, sockets
      <4>2. /\ reply[t] # "none" /\ reply' = [reply EXCEPT ![t] = "none"]
            /\ pc' = [pc EXCEPT ![t] = "idle"] /\ msg' = [msg EXCEPT ![t] = NoMessage]
        BY <3>1, Zenon DEF Returns
      <4>3. reply' # reply
        BY <1>0, <4>2 DEF CommTypes
      <4> QED
        BY <4>1, <4>2, <4>3
    <3>2. CASE Join(t)
      <4>1. UNCHANGED <<starts, queue, reply, conn, listener, polled, iter, draining>>
        BY <3>2, Zenon DEF Join, sockets
      <4>2. /\ pc[t] = "join" /\ thread' = 0 /\ at' = "none"
            /\ pc' = [pc EXCEPT ![t] = "idle"] /\ msg' = [msg EXCEPT ![t] = NoMessage]
        BY <3>2, Zenon DEF Join
      <4> QED
        BY <4>1, <4>2
    <3> QED
      BY <1>1, <3>1, <3>2
  <2>2. /\ pc[t] \in {"idle", "join"} => reply[t] = "none"
        /\ \A c \in Conns : t \notin conn[c].waiters
        /\ \A l \in Starts : \A i \in 1 .. Len(queue[l]) :
             queue[l][i].kind \in Awaited => queue[l][i].from # t
    BY <2>1, NothingUnderWay
  <2>3. reply'[t] = "none" /\ pc'[t] = "idle" /\ OtherCalls(t)
    BY <1>0, <2>1, <2>2 DEF CommTypes, OtherCalls
  <2>4. CommTypes'
    <3>1. reply' \in [Threads -> Replies] /\ thread' \in 0 .. starts
      BY <1>0, <2>1 DEF CommTypes, Replies
    <3> QED
      BY <1>0, <2>1, <3>1 DEF CommTypes
  <2>5. Lives' /\ Pipes' /\ PolledIsOpen'
    BY <1>0, <2>1 DEF Lives, Pipes, PolledIsOpen
  <2>6. /\ Responders'
        /\ \A x \in Messages : x.kind \in Awaited /\ x.from # t /\ PendingMessage(x)
             => /\ msg'[x.from] = x /\ pc'[x.from] = Then[x.kind] /\ reply'[x.from] = "none"
                /\ \A c \in Conns : x.from \notin conn'[c].waiters
                /\ x.kind = "client" => conn'[x.conn].out = 0 /\ x.conn \notin Served
    BY <2>2, <2>3, OthersPending
  <2>7. NoAnswerYet'
    BY <1>0, <2>3 DEF NoAnswerYet, OtherCalls
  <2>8. OnePending'
    BY <1>0, <2>1 DEF OnePending
  <2>9. Pending'
    <3> SUFFICES ASSUME NEW l \in Starts, NEW i \in 1 .. Len(queue'[l]),
                        queue'[l][i].kind \in Awaited
                 PROVE  PendingMessage(queue[l][i])'
      BY DEF Pending
    <3> DEFINE x == queue'[l][i]
    <3>1. PendingMessage(x) /\ x.from # t /\ x \in Messages /\ x.kind \in Awaited
      BY <1>0, <2>1, <2>2 DEF Pending, CommTypes
    <3> HIDE DEF x
    <3> QED
      BY <2>6, <3>1 DEF PendingMessage, x
  <2> QED
    BY <2>4, <2>5, <2>6, <2>7, <2>8, <2>9 DEF CommInv, CallInv
<1>2. CASE Start(t)
  <2> DEFINE n == starts + 1
  <2>1. /\ starts < MaxStarts /\ starts' = n /\ thread' = n
        /\ polled' = Append(polled, Control(n)) /\ at' = "loop"
        /\ UNCHANGED <<queue, pc, msg, reply, iter, draining, conn, listener>>
    BY <1>2, Zenon DEF Start, client, sockets
  <2>2. n \in Starts /\ n \in 0 .. MaxStarts /\ ~(n <= starts)
    BY <1>0, <2>1 DEF Starts
  <2> HIDE DEF n
  <2>3. Control(n) \in Pollables /\ Control(n) \notin Range(polled)
    BY <1>0, <2>2, PollablesTyped DEF Pipes
  <2>4. /\ polled' \in Seq(Pollables) /\ Range(polled') = Range(polled) \cup {Control(n)}
        /\ IsInjective(polled')
    BY <1>0, <2>1, <2>3, AppendRange DEF PolledIsOpen
  <2>5. CommTypes'
    <3>1. starts' \in 0 .. MaxStarts /\ thread' \in 0 .. starts'
      BY <2>1, <2>2
    <3> QED
      BY <1>0, <2>1, <2>4, <3>1 DEF CommTypes
  <2>6. Lives' /\ CallInv'
    BY <1>0, <2>1 DEF Lives, CallInv, Pending, PendingMessage, OnePending, Responders,
                      Responder, NoAnswerYet
  <2>7. /\ \A d \in Conns : Sock(d) \in Range(polled') <=> Sock(d) \in Range(polled)
        /\ Listener \in Range(polled') <=> Listener \in Range(polled)
    BY <2>4, PollablesDiffer
  <2>8. \A l \in Starts : Control(l) \in Range(polled') => l <= starts'
    <3> SUFFICES ASSUME NEW l \in Starts, Control(l) \in Range(polled') PROVE l <= starts'
      OBVIOUS
    <3>1. CASE Control(l) = Control(n)
      BY <2>1, <2>2, <3>1, PollablesDiffer
    <3>2. CASE Control(l) \in Range(polled)
      BY <1>0, <2>1, <3>2 DEF Pipes, Starts, n
    <3> QED
      BY <2>4, <3>1, <3>2
  <2>9. Pipes' /\ PolledIsOpen'
    BY <1>0, <2>1, <2>4, <2>7, <2>8 DEF Pipes, PolledIsOpen
  <2> QED
    BY <2>5, <2>6, <2>9 DEF CommInv
<1> QED
  BY <1>1, <1>2

-----------------------------------------------------------------------------
\* Every step keeps the invariant.
LEMMA CommInvKept ==
  ASSUME CommInv, [Next]_vars
  PROVE  CommInv'
<1>1. ASSUME NEW t \in Threads, ThreadCalls(t) \/ ThreadGoesOn(t)
      PROVE  CommInv'
  BY <1>1, CallsSend, CallsReturn, Zenon DEF ThreadCalls, ThreadGoesOn
<1>2. CASE PollerStep
  <2>1. CASE RunMessage
    BY <2>1, RunNewClientKept, RunNewServerKept, RunSendKept, RunStopClientKept, RunTerminateKept
       DEF RunMessage
  <2>2. CASE ListenerCalled \/ ConnectionCloses \/ ConnectionCalled
    BY <2>2, ListenerCalledKept, ConnectionClosesKept, ConnectionCalledKept
  <2>3. CASE \E kind \in {"data", "close"} : HandlerSends(kind)
    BY <2>3, HandlerSendsKept
  <2>4. CASE Leave \/ Poll \/ ReadPipe \/ DrainDone \/ Processed
    BY <2>4, PollerMovesKept
  <2> QED
    BY <1>2, <2>1, <2>2, <2>3, <2>4 DEF PollerStep
<1>3. CASE PeerConnects \/ \E c \in Conns : PeerActs(c)
  BY <1>3, PollerMovesKept
<1>4. CASE UNCHANGED vars
  <2>1. UNCHANGED <<thread, starts, queue, pc, msg, reply, at, polled, iter, draining, conn, listener>>
    BY <1>4, Zenon DEF vars, client, poller, sockets
  <2>2. /\ iter' \in Nat \ {0} /\ listener' \in ListenerState
        /\ at' = "drain" => draining' \in Starts
    BY <2>1 DEF CommInv, CommTypes, Pipes
  <2> QED
    BY <2>1, <2>2, QuietKept
<1> QED
  BY <1>1, <1>2, <1>3, <1>4 DEF Next

\* The inductive invariant holds, whatever addResponder() does on a terminated
\* connection.
THEOREM CommInvariant == Spec => []CommInv
<1>1. Init => CommInv
  BY CommInvInit
<1>2. CommInv /\ [Next]_vars => CommInv'
  BY CommInvKept
<1> QED
  BY <1>1, <1>2, PTL DEF Spec

\* However a connection ends (close() from any thread, closeSync(), end of input, an
\* error, a handler that closes it from its own callback) and however these overlap,
\* removeFrom() calls terminate() of the user handler once, and no responder is left
\* in its list.
THEOREM ConnectionTerminatedOnce ==
  ASSUME AddResponder = "fail"
  PROVE  Spec => []TerminatedOnce
<1>1. CommInv => TerminatedOnce
  BY DEF CommInv, Lives, TerminatedOnce
<1> QED
  BY <1>1, CommInvariant, PTL

\* The list that ppoll() gets has each open socket once and no closed one: what
\* removeFrom() and the listener take out is what they close.
THEOREM PollerHasOpenSockets == Spec => []PolledIsOpen
<1>1. CommInv => PolledIsOpen
  BY DEF CommInv
<1> QED
  BY <1>1, CommInvariant, PTL
=============================================================================
