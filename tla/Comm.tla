-------------------------------- MODULE Comm --------------------------------
(***************************************************************************)
(* The communication framework of lib/crack/net/comm2.crk: Comm runs an    *)
(* EventManager in a thread of its own; other threads connect, write,      *)
(* close and stop by messages through the control pipe, and some of them   *)
(* wait for an answer.  Connection and CommListener are the callbacks of   *)
(* the poller.                                                             *)
(*                                                                         *)
(* The parts below are used by what they promise: the control pipe and its *)
(* queue are a channel whose messages wake the poller (PollQueue), an      *)
(* event of one waiter stays signalled (EventLatch), and the poller has    *)
(* its pollables in order and an iterator that after a callback is one     *)
(* further, whatever the callback removed (Poller).  Only the poller       *)
(* thread touches connections, so a callback and the run() of a message    *)
(* are one step each.                                                      *)
(*                                                                         *)
(* A UserHandler answers a waiter in process() and fails all that wait in  *)
(* terminate().                                                            *)
(***************************************************************************)
EXTENDS Naturals, SequencesExt, FiniteSetsExt

CONSTANTS Threads,     \* the threads that use the Comm
          May,         \* May[t]: the messages that thread t sends
          Conns,       \* Connection objects
          Served,      \* those of them that the ConnectionFactory makes
          MaxCalls,    \* bound: messages sent
          MaxStarts,   \* bound: calls of start()
          Orderly,     \* TRUE if stop() overlaps no other call, and nothing is
                       \* called between stop() and start()
          AddResponder,\* what addResponder() does on a terminated connection:
                       \* "fail" the waiter or "add" it
          Handler,     \* how user handlers end: "returns", "throws"
          Accept       \* what accept() returns: "socket", "null"

ASSUME CommAssumption ==
  /\ Served \subseteq Conns
  /\ {MaxCalls, MaxStarts} \subseteq Nat
  /\ Orderly \in BOOLEAN
  /\ AddResponder \in {"add", "fail"}
  /\ Handler \subseteq {"returns", "throws"} /\ "returns" \in Handler
  /\ Accept \subseteq {"socket", "null"} /\ "socket" \in Accept

VARIABLES thread,    \* Comm.__thread: the number of the running one, 0 for null
          starts,    \* the poller threads started
          queue,     \* queue[k]: the messages in the control of thread k
          pc, msg,   \* what each thread waits for, and the message it sent
          reply,     \* reply[t]: its message or its waiter was signalled
          calls,     \* messages so far
          at,        \* where the poller thread is
          done,      \* EventManager.__done
          polled,    \* the pollables, in order
          revents,   \* what the last poll reported and was not yet delivered
          iter,      \* Poller.__iter
          draining,  \* the thread whose control runs its messages
          conn,      \* the connections
          listener,  \* the CommListener: its socket and its control
          peer       \* peer[c]: what the other end of connection c has done

client  == <<pc, msg, calls>>
poller  == <<at, done, polled, revents, iter, draining>>
sockets == <<conn, listener>>
vars == <<thread, starts, queue, client, reply, poller, sockets, peer>>

Starts == 1 .. MaxStarts
Control(k) == <<"pipe", k>>
Listener == <<"listener", 0>>
Sock(c) == <<"conn", c>>
NoMessage == [kind |-> "none"]

Init ==
  /\ thread = 0
  /\ starts = 0
  /\ queue = [k \in Starts |-> <<>>]
  /\ pc = [t \in Threads |-> "idle"]
  /\ msg = [t \in Threads |-> NoMessage]
  /\ reply = [t \in Threads |-> "none"]
  /\ calls = 0
  /\ at = "none"
  /\ done = FALSE
  /\ polled = <<>>
  /\ revents = {}
  /\ iter = 1
  /\ draining = 0
  /\ conn = [c \in Conns |->
               [out     |-> 0,       \* __out, the control of thread out
                sock    |-> FALSE,   \* __sock is not null; it is then open
                close   |-> FALSE,   \* __close
                outBuf  |-> 0,       \* pieces of data in it
                waiters |-> {},      \* the responders of the user handler
                terms   |-> 0,       \* calls of its terminate()
                unsent  |-> 0]]      \* history: pieces written and not sent
  /\ listener = [sock |-> "none", out |-> 0]
  /\ peer = [c \in Conns |-> "quiet"]

-----------------------------------------------------------------------------
(* The threads that use the Comm.                                          *)

Stopping == \E t \in Threads : msg[t].kind = "terminate"

Calls(t) ==
  /\ pc[t] = "idle"
  /\ calls < MaxCalls
  /\ Orderly => thread # 0 /\ ~Stopping

\* What the sender does after sendMessage().
Then == [client |-> "wait", server |-> "wait", closeSync |-> "wait",
         sync |-> "result", terminate |-> "join", data |-> "idle", close |-> "idle"]

Enqueue(k, m) == queue' = [queue EXCEPT ![k] = Append(@, m)]

SendMessage(t, k, m) ==
  /\ Calls(t)
  /\ m.kind \in May[t]
  /\ Enqueue(k, m)
  /\ calls' = calls + 1
  /\ pc' = [pc EXCEPT ![t] = Then[m.kind]]
  /\ msg' = [msg EXCEPT ![t] = IF Then[m.kind] = "idle" THEN NoMessage ELSE m]
  /\ UNCHANGED <<thread, starts, reply, poller, listener, peer>>

Message(t, kind) == [kind |-> kind, from |-> t]
OnConnection(t, kind, c) == [kind |-> kind, from |-> t, conn |-> c]

\* Comm.connect(); a Connection is connected once.
Connect(t, c) ==
  /\ thread # 0
  /\ c \notin Served
  /\ conn[c].out = 0
  /\ \A u \in Threads : msg[u].kind = "client" => msg[u].conn # c
  /\ SendMessage(t, thread, OnConnection(t, "client", c))
  /\ UNCHANGED conn

\* Comm.startServer().
StartServer(t) ==
  /\ thread # 0
  /\ listener.sock = "none"
  /\ SendMessage(t, thread, Message(t, "server"))
  /\ UNCHANGED conn

\* Connection.write(), and sendSync() with the getResult() after it.
Write(t, kind, c) ==
  /\ conn[c].out # 0
  /\ SendMessage(t, conn[c].out, OnConnection(t, kind, c))
  /\ conn' = [conn EXCEPT ![c].unsent = @ + 1]

\* Connection.close() and closeSync().
Close(t, kind, c) ==
  /\ conn[c].out # 0
  /\ SendMessage(t, conn[c].out, OnConnection(t, kind, c))
  /\ UNCHANGED conn

\* _WaitableMessage.wait() and WaiterFor.getResult() return.
Returns(t) ==
  /\ pc[t] \in {"wait", "result"}
  /\ reply[t] # "none"
  /\ pc' = [pc EXCEPT ![t] = "idle"]
  /\ msg' = [msg EXCEPT ![t] = NoMessage]
  /\ reply' = [reply EXCEPT ![t] = "none"]
  /\ UNCHANGED <<thread, starts, queue, calls, poller, sockets, peer>>

\* Comm.start(): a new thread object adds its pipe to the manager's poller.
Start(t) ==
  /\ pc[t] = "idle"
  /\ "terminate" \in May[t]
  /\ thread = 0
  /\ starts < MaxStarts
  /\ starts' = starts + 1
  /\ thread' = starts + 1
  /\ polled' = Append(polled, Control(starts + 1))
  /\ at' = "loop"
  /\ UNCHANGED <<queue, client, reply, done, revents, iter, draining, sockets, peer>>

\* Comm.stop(): send _Terminate, join the thread, forget it.
Stop(t) ==
  /\ thread # 0
  /\ Orderly => \A u \in Threads : pc[u] = "idle"
  /\ SendMessage(t, thread, Message(t, "terminate"))
  /\ UNCHANGED conn

Join(t) ==
  /\ pc[t] = "join"
  /\ at = "ended"
  /\ thread' = 0
  /\ at' = "none"
  /\ pc' = [pc EXCEPT ![t] = "idle"]
  /\ msg' = [msg EXCEPT ![t] = NoMessage]
  /\ UNCHANGED <<starts, queue, reply, calls, done, polled, revents, iter, draining,
                 sockets, peer>>

-----------------------------------------------------------------------------
(* Connections.  w is the state that their methods change in the poller    *)
(* thread: [conn, polled, reply].                                          *)

World == [conn |-> conn, polled |-> polled, reply |-> reply]

Become(w) == conn' = w.conn /\ polled' = w.polled /\ reply' = w.reply

Answer(w, ts, r) == [w EXCEPT !.reply = [t \in Threads |->
                                           IF t \in ts THEN r ELSE w.reply[t]]]

\* Poller.remove(): the pollable is looked up and taken out at its index.
Without(s, p) ==
  IF p \in Range(s) THEN RemoveAt(s, CHOOSE i \in DOMAIN s : s[i] = p) ELSE s

terminate(w, c) ==
  [Answer(w, w.conn[c].waiters, "error")
     EXCEPT !.conn[c].terms = @ + 1, !.conn[c].waiters = {}]

\* Mutant: terminate() also for a connection without a socket.
removeFromAlways(w, c) ==
  terminate([w EXCEPT !.conn[c].close = TRUE, !.conn[c].sock = FALSE,
                      !.polled = Without(@, Sock(c))], c)

\* Mutant: the socket is closed and stays in the poller.
removeFromKeeps(w, c) ==
  LET closed == [w EXCEPT !.conn[c].close = TRUE]
  IN  IF w.conn[c].sock THEN terminate([closed EXCEPT !.conn[c].sock = FALSE], c)
      ELSE closed

\* Close the socket and remove it; a connection without one is left alone.
removeFrom(w, c) ==
  LET closed == [w EXCEPT !.conn[c].close = TRUE]
  IN  IF w.conn[c].sock
      THEN terminate([closed EXCEPT !.conn[c].sock = FALSE,
                                    !.polled = Without(@, Sock(c))], c)
      ELSE closed

\* poller.add(sock, connection): the callback, asked for its mask, stores the
\* socket.
addConnection(w, c, k) ==
  [w EXCEPT !.conn[c].out = k, !.conn[c].sock = TRUE, !.polled = Append(@, Sock(c))]

addResponder(w, c, t) ==
  IF AddResponder = "fail" /\ w.conn[c].close THEN Answer(w, {t}, "error")
  ELSE [w EXCEPT !.conn[c].waiters = @ \union {t}]

\* Mutant: what a partial send leaves behind is dropped with it.
compactAll(w, c, n) == [w EXCEPT !.conn[c].outBuf = 0, !.conn[c].unsent = @ - n]

\* send() took the first n pieces: outBuf.compact(rc).
compact(w, c, n) == [w EXCEPT !.conn[c].outBuf = @ - n, !.conn[c].unsent = @ - n]

\* outBuf.extend(), on a closed connection too.
extend(w, c) == [w EXCEPT !.conn[c].outBuf = @ + 1]

-----------------------------------------------------------------------------
(* The poller thread: _PollerThread.run() is EventManager.run().           *)

\* What ppoll() reports.  The mask of a connection has POLLOUT if there is
\* something in outBuf, and its peer takes what is sent.
Input(p) ==
  CASE p[1] = "pipe"     -> IF queue[p[2]] # <<>> THEN {"in"} ELSE {}
    [] p[1] = "listener" -> IF listener.sock = "pending" THEN {"in"} ELSE
                            IF listener.sock = "error" THEN {"err"} ELSE {}
    [] p[1] = "conn"     -> CASE peer[p[2]] = "quiet" -> {}
                              [] peer[p[2]] = "data"  -> {"in"}
                              [] peer[p[2]] = "gone"  -> {"in", "err"}

Events(p) ==
  Input(p) \union (IF p[1] = "conn" /\ conn[p[2]].outBuf > 0 THEN {"out"} ELSE {})

\* while (!__done): the thread ends.
Leave ==
  /\ at = "loop"
  /\ done
  /\ at' = "ended"
  /\ UNCHANGED <<thread, starts, queue, client, reply, done, polled, revents, iter,
                 draining, sockets, peer>>

\* waitAndProcess(): ask for masks and wait.
Poll ==
  /\ at = "loop"
  /\ ~done
  /\ \E p \in Range(polled) : Events(p) # {}
  /\ revents' = UNION {{p} \X Events(p) : p \in Range(polled)}
  /\ iter' = 1
  /\ at' = "nx"
  /\ UNCHANGED <<thread, starts, queue, client, reply, done, polled, draining, sockets,
                 peer>>

\* The next pollable from the iterator on with events, 0 if there is none.
NextReady ==
  LET hits == {i \in iter .. Len(polled) : \E e \in revents : e[1] = polled[i]}
  IN  IF hits = {} THEN 0 ELSE Min(hits)

Called == polled[NextReady][2]
Got(event) == <<polled[NextReady], event>> \in revents

\* The callback at NextReady is called; the iterator then goes on after its place.
Delivers(kind) ==
  /\ at = "nx"
  /\ NextReady # 0
  /\ polled[NextReady][1] = kind
  /\ revents' = {e \in revents : e[1] # polled[NextReady]}
  /\ iter' = IF kind = "pipe" THEN NextReady ELSE NextReady + 1
  /\ draining' = IF kind = "pipe" THEN Called ELSE draining

\* _CommPipeHandler: read the pipe, then run messages until the queue is empty.
ReadPipe ==
  /\ Delivers("pipe")
  /\ at' = "drain"
  /\ UNCHANGED <<thread, starts, queue, client, reply, done, polled, sockets, peer>>

NextMessage == Head(queue[draining])

Takes(kinds) ==
  /\ at = "drain"
  /\ queue[draining] # <<>>
  /\ NextMessage.kind \in kinds
  /\ queue' = [queue EXCEPT ![draining] = Tail(@)]
  /\ UNCHANGED <<thread, starts, client, revents, iter, draining, peer>>

\* _NewClient: the connect fails, or the connection is added.
RunNewClient ==
  /\ Takes({"client"})
  /\ LET m == NextMessage
     IN  \/ Become(Answer(World, {m.from}, "error"))
         \/ Become(Answer(addConnection(World, m.conn, draining), {m.from}, "done"))
  /\ UNCHANGED <<at, done, listener>>

\* _NewServer.
RunNewServer ==
  /\ Takes({"server"})
  /\ \/ Become(Answer(World, {NextMessage.from}, "error")) /\ UNCHANGED listener
     \/ /\ listener.sock = "none"
        /\ listener' = [sock |-> "open", out |-> draining]
        /\ Become(Answer([World EXCEPT !.polled = Append(@, Listener)],
                         {NextMessage.from}, "done"))
  /\ UNCHANGED <<at, done>>

\* __SendData and __SendSync; a closed connection takes them too.
RunSend ==
  /\ Takes({"data", "sync"})
  /\ LET c == NextMessage.conn
         w == IF NextMessage.kind = "data" THEN World
              ELSE addResponder(World, c, NextMessage.from)
     IN  Become(extend(w, c))
  /\ UNCHANGED <<at, done, listener>>

\* Mutant: no trigger if there is nothing to close.
RunStopClientSilent ==
  /\ Takes({"close", "closeSync"})
  /\ LET w == removeFrom(World, NextMessage.conn)
     IN  Become(IF ~conn[NextMessage.conn].sock \/ NextMessage.kind = "close" THEN w
                ELSE Answer(w, {NextMessage.from}, "done"))
  /\ UNCHANGED <<at, done, listener>>

\* __StopClient; a terminate() that throws ends the thread before the trigger.
RunStopClient ==
  /\ Takes({"close", "closeSync"})
  /\ \E end \in Handler :
       LET w == removeFrom(World, NextMessage.conn)
           thrown == end = "throws" /\ conn[NextMessage.conn].sock
       IN  /\ Become(IF thrown \/ NextMessage.kind = "close" THEN w
                     ELSE Answer(w, {NextMessage.from}, "done"))
           /\ at' = IF thrown THEN "ended" ELSE at
  /\ UNCHANGED <<done, listener>>

\* _Terminate: the loop ends when this round does.
RunTerminate ==
  /\ Takes({"terminate"})
  /\ done' = TRUE
  /\ UNCHANGED <<at, polled, reply, sockets>>

DrainDone ==
  /\ at = "drain"
  /\ queue[draining] = <<>>
  /\ at' = "nx"
  /\ iter' = iter + 1
  /\ UNCHANGED <<thread, starts, queue, client, reply, done, polled, revents, draining,
                 sockets, peer>>

Fresh == {c \in Served : conn[c].out = 0}

\* CommListener: accept a connection and add it, or give up the socket.
ListenerCalled ==
  /\ Delivers("listener")
  /\ IF Got("in")
     THEN \E c \in Fresh, result \in Accept :
            /\ listener' = [listener EXCEPT !.sock = "open"]
            /\ IF result = "null" THEN UNCHANGED <<conn, polled, reply>>
               ELSE Become(addConnection(World, c, listener.out))
            /\ at' = IF result = "null" THEN "crashed" ELSE "nx"
     ELSE /\ listener' = [listener EXCEPT !.sock = "closed"]
          /\ polled' = Without(polled, Listener)
          /\ UNCHANGED <<conn, reply, at>>
  /\ UNCHANGED <<thread, starts, queue, client, done, peer>>

\* Connection.oper call(): end of input, an error of recv() or send(), POLLERR.
Broken == peer[Called] = "gone"

ConnectionCloses ==
  /\ Delivers("conn")
  /\ Broken
  /\ Become(removeFrom(World, Called))
  /\ \E end \in Handler : at' = IF end = "throws" THEN "ended" ELSE at
  /\ UNCHANGED <<thread, starts, queue, client, done, listener, peer>>

\* outBuf has something if POLLOUT was in the mask.
Sent == IF Got("out") THEN 1 .. conn[Called].outBuf ELSE {0}

\* The user handler's process() answers a waiter, if there is one.
Answered ==
  IF Got("in") /\ conn[Called].waiters # {} THEN {{t} : t \in conn[Called].waiters}
  ELSE {{}}

\* The connection goes on: receive, send, process().
Proceeds ==
  /\ Delivers("conn")
  /\ ~Broken
  /\ UNCHANGED <<thread, starts, pc, msg, done, listener>>

Process(n, ts) == [Answer(compact(World, Called, n), ts, "done")
                     EXCEPT !.conn[Called].waiters = @ \ ts]

ConnectionCalled ==
  /\ Proceeds
  /\ \E n \in Sent, ts \in Answered : Become(Process(n, ts))
  /\ \E end \in Handler : at' = IF end = "throws" /\ Got("in") THEN "ended" ELSE at
  /\ peer' = [peer EXCEPT ![Called] = IF Got("in") THEN "quiet" ELSE @]
  /\ UNCHANGED <<queue, calls>>

\* The user handler writes or closes.
HandlerSends(kind) ==
  /\ Proceeds
  /\ Got("in")
  /\ calls < MaxCalls
  /\ calls' = calls + 1
  /\ Enqueue(conn[Called].out, [kind |-> kind, conn |-> Called])
  /\ \E n \in Sent, ts \in Answered :
       Become([Process(n, ts) EXCEPT !.conn[Called].unsent =
                                       IF kind = "data" THEN @ + 1 ELSE @])
  /\ peer' = [peer EXCEPT ![Called] = "quiet"]
  /\ UNCHANGED at

\* nx() returns null.
Processed ==
  /\ at = "nx"
  /\ NextReady = 0
  /\ at' = "loop"
  /\ revents' = {}
  /\ iter' = 1
  /\ UNCHANGED <<thread, starts, queue, client, reply, done, polled, draining, sockets,
                 peer>>

-----------------------------------------------------------------------------
(* The other ends.  What they do shows when ppoll() is called or after it. *)

PeerConnects ==
  /\ listener.sock = "open"
  /\ at = "loop"
  /\ \E s \in {"pending", "error"} :
       /\ s = "pending" => Fresh # {}
       /\ listener' = [listener EXCEPT !.sock = s]
  /\ UNCHANGED <<thread, starts, queue, client, reply, poller, conn, peer>>

PeerActs(c) ==
  /\ conn[c].sock
  /\ at \in {"loop", "nx"}
  /\ peer[c] # "gone"
  /\ \E s \in {"data", "gone"} : peer' = [peer EXCEPT ![c] = s]
  /\ UNCHANGED <<thread, starts, queue, client, reply, poller, sockets>>

-----------------------------------------------------------------------------
ThreadGoesOn(t) == Returns(t) \/ Join(t)

ThreadCalls(t) ==
  \/ Start(t) \/ Stop(t) \/ StartServer(t)
  \/ \E c \in Conns :
       \/ Connect(t, c)
       \/ Write(t, "data", c) \/ Write(t, "sync", c)
       \/ Close(t, "close", c) \/ Close(t, "closeSync", c)

RunMessage ==
  \/ RunNewClient \/ RunNewServer \/ RunSend \/ RunStopClient
  \/ RunTerminate

PollerStep ==
  \/ Leave \/ Poll \/ ReadPipe \/ RunMessage \/ DrainDone
  \/ ListenerCalled \/ ConnectionCloses \/ ConnectionCalled
  \/ \E kind \in {"data", "close"} : HandlerSends(kind)
  \/ Processed

Next ==
  \/ \E t \in Threads : ThreadCalls(t) \/ ThreadGoesOn(t)
  \/ PollerStep
  \/ PeerConnects \/ \E c \in Conns : PeerActs(c)

\* The threads are scheduled; nobody is obliged to call, and peers to do anything.
Spec ==
  /\ Init /\ [][Next]_vars
  /\ WF_vars(PollerStep)
  /\ \A t \in Threads : WF_vars(ThreadGoesOn(t))

-----------------------------------------------------------------------------
(* Properties.                                                             *)

\* A thread that waits for a message to be run, for the poller thread to end or
\* for the answer of a connection that has been terminated.
Waits(t) ==
  \/ pc[t] \in {"wait", "join"}
  \/ pc[t] = "result" /\ conn[msg[t].conn].terms > 0

\* connect(), startServer(), closeSync() and stop() return, and so does the
\* getResult() of a waiter whose connection has been terminated.
EveryCallReturns == \A t \in Threads : Waits(t) ~> pc[t] = "idle"

\* What is written to a connection is sent, unless the connection is closed or
\* the poller thread is stopped.
WrittenIsSent ==
  \A c \in Conns :
    conn[c].unsent > 0 ~> conn[c].unsent = 0 \/ conn[c].close \/ at = "none"

\* However often and from wherever a connection is closed, its user handler is
\* told once, and nobody is left waiting for an answer from it.
TerminatedOnce ==
  \A c \in Conns :
    /\ conn[c].terms <= 1
    /\ conn[c].terms = 1 => ~conn[c].sock /\ conn[c].waiters = {}

\* The poller has the sockets that are open and no other: a closed one would be
\* -1 in the pollfd array, an open one that is not polled is deaf.
PolledIsOpen ==
  /\ \A c \in Conns : Sock(c) \in Range(polled) <=> conn[c].sock
  /\ Listener \in Range(polled) <=> listener.sock \in {"open", "pending", "error"}
  /\ IsInjective(polled)
=============================================================================
