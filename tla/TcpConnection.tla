---------------------------- MODULE TcpConnection ----------------------------
(***************************************************************************)
(* One TcpConnection (src/muduox/net/tcp/TcpConnection.cpp) from the       *)
(* moment TcpServer::newConnection has put it in connections_ to the       *)
(* release of its descriptor: its IO loop, the accept loop that owns the   *)
(* map, worker threads of the application, and the peer.                   *)
(*                                                                         *)
(* The IO loop runs one event handler, one functor or one call of a user   *)
(* callback at a time.  Functors that capture `this' are told from those   *)
(* that capture the shared_ptr: the object lives as long as a strong       *)
(* reference does, and running a `this' functor without one is a fault, as *)
(* is the use of socket_ after connectDestroyed has reset it.              *)
(*                                                                         *)
(* A write-complete callback that send() runs inside another callback is   *)
(* part of that callback here: both make the same calls, in sequence.      *)
(***************************************************************************)
EXTENDS Integers, Sequences, FiniteSets, Functions, FiniteSetsExt

CONSTANTS
    Messages,          \* payloads the application may send, each once
    Size,              \* Size[m]: bytes of a message
    Workers,           \* threads of the application other than the loops
    Uses,              \* ways in which an application uses a connection
    NoMessage,         \* msg of a functor that carries none
    MaxPending,        \* bound: functors queued at the IO loop by the application
    MaxRemovals        \* bound: removals queued at the accept loop

ASSUME SizeAssumption == Size \in [Messages -> Nat \ {0}]

\* The calls of a connection or message callback, of the write-complete callback
\* of handleWrite and of a worker, and the messages they send.
Ops == {"send", "sendBuffer", "sendEmptyBuffer", "shutdown", "forceClose"}
ASSUME UsesAssumption ==
    Uses \subseteq [callback : SUBSET Ops, writeComplete : SUBSET Ops,
                    worker : SUBSET {"post", "send", "shutdown", "forceClose"},
                    messages : SUBSET Messages]
ASSUME BoundAssumption == NoMessage \notin Messages /\ MaxPending \in Nat /\ MaxRemovals \in Nat \ {0}

VARIABLES
    use,         \* how the application uses the connection
    singleLoop,  \* threadNum = 0: the accept loop is the connection's loop
    state,       \* state_
    events,      \* events_ of channel_: reading and writing interest
    inPoller,    \* channel_ is registered with the loop's poller
    socket,      \* socket_: "open", or "null" after connectDestroyed
    wrShut,      \* shutdownWrite has been called
    output,      \* outputBuffer_
    wire,        \* bytes the kernel has taken, in order
    accepted,    \* history: bytes sendInLoop or send(Buffer*) took
    handed,      \* history: messages for which send() found kConnected and returned
    fresh,       \* messages not yet used
    fin,         \* the peer has closed its side
    rst,         \* the peer has reset the connection
    writable,    \* the kernel has room for output
    loopPc,      \* where the IO loop is
    cont,        \* where it goes on after a user callback
    ev,          \* revents of channel_ not yet handled
    pending,     \* pendingFunctors_ of the IO loop
    batch,       \* the vector doPendingFunctors runs
    next,        \* index in batch of the next functor
    inMap,       \* connections_ holds the connection
    removals,    \* removeConnection functors queued at the accept loop
    removing,    \* the accept loop's vector holds a removal that has been run
    wpc,         \* where each worker is
    wmsg,        \* the message a worker is sending
    holds,       \* the worker has a TcpConnectionPtr
    forced,      \* history: forceClose has found the connection open
    fault        \* "none", or what went wrong in the memory of the process

connVars == <<state, events, inPoller, socket, wrShut>>
dataVars == <<output, wire, accepted, handed, fresh>>
peerVars == <<fin, rst, writable>>
loopVars == <<loopPc, cont, ev>>
queueVars == <<pending, batch, next>>
mapVars == <<inMap, removals, removing>>
workerVars == <<wpc, wmsg, holds>>
choices == <<use, singleLoop>>
otherVars == <<choices, forced, fault>>
vars == <<connVars, dataVars, peerVars, loopVars, queueVars, mapVars, workerVars, otherVars>>

(***************************************************************************)
(* loopPc: "accept"    single loop: inside newConnection                   *)
(*         "poll"      about to poll                                       *)
(*         "event"     inside handleEvent, or past it when ev is empty     *)
(*         "callback"  inside a user callback                              *)
(*         "tail"      in handleWrite, after the write-complete callback   *)
(*         "batch"     inside doPendingFunctors                            *)
(* wpc:    "idle"; "store-shutdown", "store-close": between the test and   *)
(*         the store of state_; "send", "shutdown", "close": about to      *)
(*         queue the functor                                               *)
(***************************************************************************)
States == {"kConnecting", "kConnected", "kDisconnecting", "kDisconnected"}
StrongOps == {"established", "destroyed", "userSend"}
RawOps == {"send", "shutdown", "close"}
FunctorSet == [op : StrongOps \cup RawOps, msg : Messages \cup {NoMessage}]

Bytes(m) == [i \in 1..Size[m] |-> <<m, i>>]
Functor(op, m) == [op |-> op, msg |-> m]

TypeOK ==
    /\ use \in Uses /\ singleLoop \in BOOLEAN
    /\ state \in States
    /\ events \subseteq {"R", "W"}
    /\ inPoller \in BOOLEAN /\ wrShut \in BOOLEAN
    /\ socket \in {"open", "null"}
    /\ {output, wire, accepted} \subseteq Seq(Messages \X Nat)
    /\ handed \subseteq Messages /\ fresh \subseteq Messages
    /\ {fin, rst, writable} \subseteq BOOLEAN
    /\ loopPc \in {"accept", "poll", "event", "callback", "tail", "batch"}
    /\ cont \in {"event", "tail", "batch"}
    /\ ev \subseteq {"E", "C", "R", "W"}
    /\ pending \in Seq(FunctorSet) /\ batch \in Seq(FunctorSet)
    /\ next \in 1..(Len(batch) + 1)
    /\ {inMap, removing, forced} \subseteq BOOLEAN
    /\ removals \in 0..MaxRemovals
    /\ wpc \in [Workers -> {"idle", "store-shutdown", "store-close", "send", "shutdown", "close"}]
    /\ wmsg \in [Workers -> Messages \cup {NoMessage}]
    /\ holds \in [Workers -> BOOLEAN]
    /\ fault \in {"none", "dangling", "nullSocket"}

\* newConnection has constructed the connection and stored it in the map; it
\* queues connectEstablished at another loop, or runs it in its own.
Init ==
    /\ use \in Uses /\ singleLoop \in BOOLEAN
    /\ state = "kConnecting" /\ events = {} /\ inPoller = FALSE
    /\ socket = "open" /\ wrShut = FALSE
    /\ output = <<>> /\ wire = <<>> /\ accepted = <<>> /\ handed = {} /\ fresh = use.messages
    /\ fin = FALSE /\ rst = FALSE /\ writable = TRUE
    /\ loopPc = IF singleLoop THEN "accept" ELSE "poll"
    /\ cont = "event" /\ ev = {}
    /\ pending = IF singleLoop THEN <<>> ELSE <<Functor("established", NoMessage)>>
    /\ batch = <<>> /\ next = 1
    /\ inMap = TRUE /\ removals = 0 /\ removing = FALSE
    /\ wpc = [w \in Workers |-> "idle"] /\ wmsg = [w \in Workers |-> NoMessage]
    /\ holds = [w \in Workers |-> FALSE]
    /\ forced = FALSE /\ fault = "none"

\* The strong references: the map, the functors at both loops -- a vector of
\* functors is destroyed as a whole when its last one has been run --, the
\* workers, and the argument of a user callback.
Alive ==
    \/ inMap \/ removals > 0 \/ removing
    \/ \E f \in Range(pending) \cup Range(batch) : f.op \in StrongOps
    \/ \E w \in Workers : holds[w]
    \/ loopPc = "callback"

-----------------------------------------------------------------------------
(* Pieces of the handlers.                                                 *)

\* Channel::enable* and disable*: the poller adds a channel it does not have.
Watch(interest) == events' = interest /\ inPoller' = TRUE

\* What send(2) may return for s: -1 for an error or a full buffer.
SendResults(s) ==
    IF wrShut \/ rst THEN {-1}
    ELSE IF s = <<>> THEN {0}
    ELSE IF writable THEN 1..Len(s) ELSE {-1}

\* The kernel takes the first n bytes of s; a short count leaves it full.
Transmit(s, n) ==
    /\ wire' = wire \o SubSeq(s, 1, n)
    /\ IF n <= 0 THEN UNCHANGED writable
       ELSE IF n < Len(s) THEN writable' = FALSE
       ELSE writable' \in BOOLEAN

\* sendInLoop, called from `here'; when everything could be written at once the
\* write-complete callback runs.
SendInLoop(m, here) ==
    /\ IF state # "kConnected"
       THEN /\ loopPc' = here
            /\ UNCHANGED <<events, inPoller, output, wire, accepted, writable>>
       ELSE /\ accepted' = accepted \o Bytes(m)
            /\ IF "W" \notin events /\ output = <<>>
               THEN \E n \in SendResults(Bytes(m)) :
                       /\ Transmit(Bytes(m), n)
                       /\ IF n = Size[m]
                          THEN loopPc' = "callback" /\ UNCHANGED <<events, inPoller, output>>
                          ELSE /\ output' = SubSeq(Bytes(m), Max({n, 0}) + 1, Size[m])
                               /\ Watch(events \cup {"W"})
                               /\ loopPc' = here
               ELSE /\ output' = output \o Bytes(m)
                    /\ Watch(events \cup {"W"})
                    /\ loopPc' = here
                    /\ UNCHANGED <<wire, writable>>
    /\ UNCHANGED <<state, socket, wrShut, fin, rst, ev, pending, batch, mapVars, workerVars, otherVars>>

\* Mutant of HandleClose: a connection being shut down is not removed.
HandleCloseUnlessDisconnecting(after) ==
    /\ state' = "kDisconnected"
    /\ IF state = "kDisconnecting" THEN UNCHANGED <<inMap, pending, removals>>
       ELSE IF singleLoop
       THEN /\ inMap' = FALSE
            /\ pending' = IF inMap THEN Append(pending, Functor("destroyed", NoMessage)) ELSE pending
            /\ UNCHANGED removals
       ELSE /\ removals' = Min({removals + 1, MaxRemovals})
            /\ UNCHANGED <<inMap, pending>>
    /\ loopPc' = "callback" /\ cont' = after
    /\ UNCHANGED <<events, inPoller, socket, wrShut, dataVars, peerVars, batch, removing, workerVars,
                   otherVars>>

\* handleClose: state_, then TcpServer's connection callback, which removes the
\* connection from the map and has connectDestroyed queued, in the accept loop;
\* then the user's callback.
HandleClose(after) ==
    /\ state' = "kDisconnected"
    /\ IF singleLoop
       THEN /\ inMap' = FALSE
            /\ pending' = IF inMap THEN Append(pending, Functor("destroyed", NoMessage)) ELSE pending
            /\ UNCHANGED removals
       ELSE /\ removals' = Min({removals + 1, MaxRemovals})
            /\ UNCHANGED <<inMap, pending>>
    /\ loopPc' = "callback" /\ cont' = after
    /\ UNCHANGED <<events, inPoller, socket, wrShut, dataVars, peerVars, batch, removing, workerVars,
                   otherVars>>

-----------------------------------------------------------------------------
(* The IO loop.                                                            *)

\* connectEstablished.
ConnectEstablished(after) ==
    /\ state' = "kConnected"
    /\ Watch(events \cup {"R"})
    /\ loopPc' = "callback" /\ cont' = after
    /\ UNCHANGED <<socket, wrShut, ev, pending, batch, dataVars, peerVars, mapVars, workerVars,
                   otherVars>>

\* With a single loop newConnection runs connectEstablished itself.
EstablishInline == loopPc = "accept" /\ ConnectEstablished("event") /\ UNCHANGED next

\* The events the descriptor is bound to have: errors and hang-ups are reported
\* whether or not asked for, and a socket whose write side is shut is writable.
Revents ==
    (IF rst THEN {"E"} ELSE {})
    \cup (IF rst \/ (fin /\ wrShut) THEN {"C"} ELSE {})
    \cup (IF fin \/ rst THEN {"R"} \cap events ELSE {})
    \cup (IF writable \/ wrShut \/ rst THEN {"W"} \cap events ELSE {})

\* EpollPoller::poll.  Data may have arrived, and an error that has been read
\* once is not reported again.
Poll ==
    /\ loopPc = "poll" /\ loopPc' = "event"
    /\ ev' \in (IF inPoller
                THEN {Revents, Revents \ {"E"}, Revents \cup ({"R"} \cap events)}
                ELSE {{}})
    /\ UNCHANGED <<cont, connVars, dataVars, peerVars, queueVars, mapVars, workerVars, otherVars>>

\* Channel::handleEvent handles error, close, read and write in this order.
Rank == [E |-> 1, C |-> 2, R |-> 3, W |-> 4]

Handling(e) ==
    /\ loopPc = "event"
    /\ e \in ev /\ \A d \in ev : Rank[e] <= Rank[d]
    /\ ev' = ev \ {e}

\* errorCallback_ and closeCallback_ both end in handleClose.
HandleErrorOrClose ==
    (\E e \in {"E", "C"} : Handling(e)) /\ HandleClose("event") /\ UNCHANGED next

\* handleRead with n > 0: the message callback.
HandleReadMessage ==
    /\ Handling("R") /\ ~rst
    /\ loopPc' = "callback" /\ cont' = "event"
    /\ UNCHANGED <<peerVars, connVars, dataVars, queueVars, mapVars, workerVars, otherVars>>

\* handleRead with n = 0 or an error, EAGAIN after urgent data (EPOLLPRI with
\* nothing to read) included: handleClose.
HandleReadEnd == Handling("R") /\ HandleClose("event") /\ UNCHANGED next

\* What handleWrite leaves alone when send(2) has taken something.
Writing ==
    /\ Handling("W") /\ "W" \in events
    /\ UNCHANGED <<state, socket, wrShut, accepted, handed, fresh, fin, rst, queueVars, mapVars,
                   workerVars, otherVars>>

\* Mutant of HandleWriteSome: the bytes the kernel took stay in the buffer.
HandleWriteKeeping ==
    /\ Writing
    /\ \E n \in SendResults(output) : n > 0 /\ Transmit(output, n)
    /\ UNCHANGED <<output, events, inPoller, loopPc, cont>>

\* Mutant of HandleWriteSome: write events are given up after any write.
HandleWriteOnce ==
    /\ Writing
    /\ \E n \in SendResults(output) :
          n > 0 /\ Transmit(output, n) /\ output' = SubSeq(output, n + 1, Len(output))
    /\ Watch(events \ {"W"}) /\ loopPc' = "callback" /\ cont' = "tail"

\* handleWrite with n > 0.  Its test of isWriting never fails: only handleWrite
\* and connectDestroyed stop the writing, neither between a poll and its "W".
HandleWriteSome ==
    /\ Writing
    /\ \E n \in SendResults(output) :
          n > 0 /\ Transmit(output, n) /\ output' = SubSeq(output, n + 1, Len(output))
    /\ IF output' = <<>>
       THEN Watch(events \ {"W"}) /\ loopPc' = "callback" /\ cont' = "tail"
       ELSE UNCHANGED <<events, inPoller, loopPc, cont>>

\* Mutant of HandleWriteTail: no half-close when the output has drained.
HandleWriteTailForgetting ==
    /\ loopPc = "tail" /\ loopPc' = "event"
    /\ UNCHANGED <<cont, ev, connVars, dataVars, peerVars, queueVars, mapVars, workerVars, otherVars>>

\* The rest of handleWrite after the write-complete callback.
HandleWriteTail ==
    /\ loopPc = "tail" /\ loopPc' = "event"
    /\ wrShut' = (wrShut \/ state = "kDisconnecting")
    /\ UNCHANGED <<cont, ev, state, events, inPoller, socket, dataVars, peerVars, queueVars,
                   mapVars, workerVars, otherVars>>

\* handleWrite with n <= 0: handleError.
HandleWriteError ==
    /\ Handling("W") /\ "W" \in events
    /\ \E n \in SendResults(output) : n <= 0
    /\ HandleClose("event") /\ UNCHANGED next

\* doPendingFunctors takes the queued functors.
SwapFunctors ==
    /\ loopPc = "event" /\ ev = {} /\ loopPc' = "batch"
    /\ batch' = pending /\ pending' = <<>> /\ next' = 1
    /\ UNCHANGED <<cont, ev, connVars, dataVars, peerVars, mapVars, workerVars, otherVars>>

\* Mutant of FinishFunctors: the position in the vector is kept.
FinishFunctorsKeepingIndex ==
    /\ loopPc = "batch" /\ next > Len(batch) /\ loopPc' = "poll"
    /\ batch' = <<>>
    /\ UNCHANGED <<next, cont, ev, pending, connVars, dataVars, peerVars, mapVars, workerVars, otherVars>>

\* At the end of doPendingFunctors the vector and what it holds are destroyed.
FinishFunctors ==
    /\ loopPc = "batch" /\ next > Len(batch) /\ loopPc' = "poll"
    /\ batch' = <<>> /\ next' = 1
    /\ UNCHANGED <<cont, ev, pending, connVars, dataVars, peerVars, mapVars, workerVars, otherVars>>

Running(op) ==
    /\ loopPc = "batch"
    /\ next <= Len(batch) /\ batch[next].op = op
    /\ next' = next + 1

RunEstablished == Running("established") /\ ConnectEstablished("batch")

\* Mutant of RunDestroyed: the channel stays in the poller.
RunDestroyedKeepingChannel ==
    /\ Running("destroyed")
    /\ events' = {} /\ socket' = "null"
    /\ UNCHANGED <<state, inPoller, wrShut, loopVars, pending, batch, dataVars, peerVars, mapVars,
                   workerVars, otherVars>>

\* connectDestroyed: disableAll, remove, socket_.reset().
RunDestroyed ==
    /\ Running("destroyed")
    /\ events' = {} /\ inPoller' = FALSE /\ socket' = "null"
    /\ UNCHANGED <<state, wrShut, loopVars, pending, batch, dataVars, peerVars, mapVars,
                   workerVars, otherVars>>

\* [conn, result] { conn->send(result); }, the README's way back from a worker.
RunUserSend ==
    /\ Running("userSend")
    /\ SendInLoop(batch[next].msg, "batch") /\ cont' = "batch"
    /\ handed' = IF state = "kConnected" THEN handed \cup {batch[next].msg} ELSE handed
    /\ UNCHANGED fresh

\* The functor of send() from another thread: [this, d] { sendInLoop(d); }.
RunSend ==
    /\ Running("send") /\ Alive
    /\ SendInLoop(batch[next].msg, "batch") /\ cont' = "batch"
    /\ UNCHANGED <<handed, fresh>>

\* [this] { shutdownInLoop(); }.
RunShutdown ==
    /\ Running("shutdown") /\ Alive
    /\ IF "W" \in events THEN UNCHANGED <<wrShut, fault>>
       ELSE IF socket = "null" THEN fault' = "nullSocket" /\ UNCHANGED wrShut
       ELSE wrShut' = TRUE /\ UNCHANGED fault
    /\ UNCHANGED <<state, events, inPoller, socket, loopVars, pending, batch, dataVars, peerVars,
                   mapVars, workerVars, choices, forced>>

\* [this] { handleClose(); }.
RunForceClose == Running("close") /\ Alive /\ HandleClose("batch") /\ UNCHANGED ev

\* A functor that captured `this' runs after the connection was destroyed.
RunDangling ==
    /\ \E op \in RawOps : Running(op)
    /\ ~Alive
    /\ fault' = "dangling"
    /\ UNCHANGED <<connVars, dataVars, peerVars, loopVars, pending, batch, mapVars, workerVars,
                   choices, forced>>

-----------------------------------------------------------------------------
(* Calls of the user's callbacks, on the IO loop.                          *)

Calling(op) ==
    /\ loopPc = "callback"
    /\ op \in (IF cont = "tail" THEN use.writeComplete ELSE use.callback)

CallbackSend(m) ==
    /\ Calling("send")
    /\ m \in fresh /\ state = "kConnected"
    /\ SendInLoop(m, "callback")
    /\ handed' = handed \cup {m} /\ fresh' = fresh \ {m}
    /\ UNCHANGED <<cont, next>>

\* send(Buffer*) on the loop thread never writes directly.
CallbackSendBuffer(m) ==
    /\ Calling("sendBuffer")
    /\ m \in fresh /\ state = "kConnected"
    /\ output' = output \o Bytes(m) /\ accepted' = accepted \o Bytes(m)
    /\ Watch(events \cup {"W"})
    /\ handed' = handed \cup {m} /\ fresh' = fresh \ {m}
    /\ UNCHANGED <<wire, loopVars, queueVars, state, socket, wrShut, peerVars, mapVars, workerVars,
                   otherVars>>

\* Without bytes it still asks for write events, and handleWrite will take the
\* 0 that send(2) returns for an error.
CallbackSendEmptyBuffer ==
    /\ Calling("sendEmptyBuffer")
    /\ state = "kConnected"
    /\ Watch(events \cup {"W"})
    /\ UNCHANGED <<dataVars, loopVars, queueVars, state, socket, wrShut, peerVars, mapVars,
                   workerVars, otherVars>>

\* Mutant of CallbackShutdown: shutdownInLoop does not look for pending output.
CallbackShutdownAtOnce ==
    /\ Calling("shutdown")
    /\ state = "kConnected" /\ state' = "kDisconnecting"
    /\ wrShut' = TRUE
    /\ UNCHANGED <<events, inPoller, socket, dataVars, loopVars, queueVars, peerVars, mapVars,
                   workerVars, otherVars>>

\* shutdown() with its shutdownInLoop, run inline.
CallbackShutdown ==
    /\ Calling("shutdown")
    /\ state = "kConnected" /\ state' = "kDisconnecting"
    /\ wrShut' = (wrShut \/ "W" \notin events)
    /\ UNCHANGED <<events, inPoller, socket, dataVars, loopVars, queueVars, peerVars, mapVars,
                   workerVars, otherVars>>

\* forceClose(), once it goes on, queues handleClose even on the loop thread.
ForcingClose ==
    /\ Calling("forceClose")
    /\ Len(pending) < MaxPending
    /\ state' = "kDisconnecting" /\ forced' = TRUE
    /\ pending' = Append(pending, Functor("close", NoMessage))
    /\ UNCHANGED <<events, inPoller, socket, wrShut, dataVars, loopVars, batch, next, peerVars,
                   mapVars, workerVars, choices, fault>>

\* Mutant of CallbackForceClose: the state is not tested.
CallbackForceCloseAlways == ForcingClose

CallbackForceClose == state \in {"kConnected", "kDisconnecting"} /\ ForcingClose

\* The callback gives its TcpConnectionPtr to a worker.
HandToWorker(w) ==
    /\ loopPc = "callback"
    /\ ~holds[w]
    /\ holds' = [holds EXCEPT ![w] = TRUE]
    /\ UNCHANGED <<wpc, wmsg, connVars, dataVars, loopVars, queueVars, peerVars, mapVars, otherVars>>

ReturnFromCallback ==
    /\ loopPc = "callback"
    /\ loopPc' = cont
    /\ UNCHANGED <<cont, ev, connVars, dataVars, queueVars, peerVars, mapVars, workerVars, otherVars>>

-----------------------------------------------------------------------------
(* The workers.  Each member function tests state_, then acts.             *)

Worker(w, op, from) == op \in use.worker /\ holds[w] /\ wpc[w] = from

Goto(w, to) == wpc' = [wpc EXCEPT ![w] = to]

Enqueue(f) ==
    /\ Len(pending) < MaxPending
    /\ pending' = Append(pending, f)

\* conn->getLoop()->runInLoop([conn, result] { conn->send(result); }).
WorkerPost(w, m) ==
    /\ Worker(w, "post", "idle")
    /\ m \in fresh
    /\ fresh' = fresh \ {m}
    /\ Enqueue(Functor("userSend", m))
    /\ UNCHANGED <<output, wire, accepted, handed, batch, next, connVars, peerVars, loopVars,
                   mapVars, workerVars, otherVars>>

\* send(), shutdown() and forceClose() find the connection open.
WorkerTestSend(w, m) ==
    /\ Worker(w, "send", "idle")
    /\ m \in fresh /\ state = "kConnected"
    /\ fresh' = fresh \ {m}
    /\ wmsg' = [wmsg EXCEPT ![w] = m]
    /\ Goto(w, "send")
    /\ UNCHANGED <<output, wire, accepted, handed, connVars, peerVars, loopVars, queueVars,
                   mapVars, holds, otherVars>>

WorkerTestShutdown(w) ==
    /\ Worker(w, "shutdown", "idle")
    /\ state = "kConnected"
    /\ Goto(w, "store-shutdown")
    /\ UNCHANGED <<wmsg, holds, connVars, dataVars, peerVars, loopVars, queueVars, mapVars, otherVars>>

WorkerTestForceClose(w) ==
    /\ Worker(w, "forceClose", "idle")
    /\ state \in {"kConnected", "kDisconnecting"}
    /\ Goto(w, "store-close")
    /\ UNCHANGED <<wmsg, holds, connVars, dataVars, peerVars, loopVars, queueVars, mapVars, otherVars>>

\* The store is not conditional on what the test found.
WorkerStore(w) ==
    /\ wpc[w] \in {"store-shutdown", "store-close"}
    /\ state' = "kDisconnecting"
    /\ Goto(w, IF wpc[w] = "store-shutdown" THEN "shutdown" ELSE "close")
    /\ UNCHANGED <<wmsg, holds, events, inPoller, socket, wrShut, dataVars, peerVars, loopVars,
                   queueVars, mapVars, otherVars>>

\* runInLoop or queueInLoop with a lambda that captured `this'.
WorkerQueue(w) ==
    /\ wpc[w] \in RawOps
    /\ Enqueue(Functor(wpc[w], wmsg[w]))
    /\ handed' = IF wpc[w] = "send" THEN handed \cup {wmsg[w]} ELSE handed
    /\ forced' = (forced \/ wpc[w] = "close")
    /\ Goto(w, "idle")
    /\ wmsg' = [wmsg EXCEPT ![w] = NoMessage]
    /\ UNCHANGED <<holds, connVars, output, wire, accepted, fresh, peerVars, loopVars, batch, next,
                   mapVars, choices, fault>>

WorkerRelease(w) ==
    /\ holds[w] /\ wpc[w] = "idle"
    /\ holds' = [holds EXCEPT ![w] = FALSE]
    /\ UNCHANGED <<wpc, wmsg, connVars, dataVars, peerVars, loopVars, queueVars, mapVars, otherVars>>

-----------------------------------------------------------------------------
(* The accept loop, when it is another thread.                             *)

\* removeConnectionInLoop: the first removal erases the connection and queues
\* connectDestroyed at its loop; the functor keeps its reference until the
\* vector that holds it is destroyed.
RunRemoval ==
    /\ removals > 0
    /\ removals' = removals - 1 /\ removing' = TRUE
    /\ inMap' = FALSE
    /\ pending' = IF inMap THEN Append(pending, Functor("destroyed", NoMessage)) ELSE pending
    /\ UNCHANGED <<batch, next, connVars, dataVars, peerVars, loopVars, workerVars, otherVars>>

FinishRemovals ==
    /\ removing
    /\ removing' = FALSE
    /\ UNCHANGED <<inMap, removals, connVars, dataVars, peerVars, loopVars, queueVars, workerVars,
                   otherVars>>

-----------------------------------------------------------------------------
(* The peer and the kernel.                                                *)

PeerCloses ==
    /\ socket = "open" /\ ~rst
    /\ fin' = TRUE
    /\ UNCHANGED <<rst, writable, connVars, dataVars, loopVars, queueVars, mapVars,
                   workerVars, otherVars>>

PeerResets ==
    /\ socket = "open"
    /\ rst' = TRUE
    /\ UNCHANGED <<fin, writable, connVars, dataVars, loopVars, queueVars, mapVars,
                   workerVars, otherVars>>

\* The peer reads: the kernel has room again.
PeerReads ==
    /\ socket = "open" /\ ~writable
    /\ writable' = TRUE
    /\ UNCHANGED <<fin, rst, connVars, dataVars, loopVars, queueVars, mapVars,
                   workerVars, otherVars>>

-----------------------------------------------------------------------------

IoLoopStep ==
    \/ EstablishInline \/ Poll \/ SwapFunctors \/ FinishFunctors
    \/ HandleErrorOrClose \/ HandleReadMessage \/ HandleReadEnd
    \/ HandleWriteSome \/ HandleWriteTail \/ HandleWriteError
    \/ RunEstablished \/ RunDestroyed \/ RunUserSend
    \/ RunSend \/ RunShutdown \/ RunForceClose \/ RunDangling
    \/ ReturnFromCallback

CallbackStep ==
    \/ \E m \in Messages : CallbackSend(m) \/ CallbackSendBuffer(m)
    \/ CallbackSendEmptyBuffer
    \/ CallbackShutdown
    \/ CallbackForceClose
    \/ \E w \in Workers : HandToWorker(w)

WorkerGoesOn(w) == WorkerStore(w) \/ WorkerQueue(w)

WorkerStep(w) ==
    \/ \E m \in Messages : WorkerPost(w, m) \/ WorkerTestSend(w, m)
    \/ WorkerTestShutdown(w) \/ WorkerTestForceClose(w)
    \/ WorkerGoesOn(w)
    \/ WorkerRelease(w)

AcceptLoopStep == RunRemoval \/ FinishRemovals

PeerStep == PeerCloses \/ PeerResets \/ PeerReads

Next ==
    \/ IoLoopStep
    \/ CallbackStep
    \/ \E w \in Workers : WorkerStep(w)
    \/ AcceptLoopStep
    \/ PeerStep

Spec == Init /\ [][Next]_vars

(***************************************************************************)
(* Fairness: the loops run (a queued functor wakes them, and polls time    *)
(* out), user callbacks return, a member function a worker has called goes *)
(* on.  Nobody has to call anything, and the peer only has to read.        *)
(***************************************************************************)
FairSpec ==
    /\ Spec
    /\ WF_vars(IoLoopStep)
    /\ WF_vars(AcceptLoopStep)
    /\ \A w \in Workers : WF_vars(WorkerGoesOn(w))
    /\ WF_vars(PeerReads)

-----------------------------------------------------------------------------
(* Properties.                                                             *)

\* The usage the README shows: workers come back to the loop with a functor that
\* holds the shared_ptr, and do not call the connection themselves.
ThroughLoop == use.worker \subseteq {"post"}

\* Used through its loop, a connection that has been given up is left alone:
\* connectDestroyed comes after the last event handler, the last queued
\* handleClose or shutdownInLoop and the last callback.
NoUseAfterDestroyed ==
    ThroughLoop => fault = "none" /\ (loopPc = "callback" => socket = "open")

\* The poller never holds the channel of a destroyed connection or a closed
\* descriptor, and no event read before is dispatched to one.
WatchedIsAlive == (inPoller \/ ev # {}) => Alive /\ socket = "open"

\* The bytes the kernel has taken followed by outputBuffer_ are the bytes taken
\* from send(), each once and in order, through direct and partial writes.
StreamIntact == accepted = wire \o output

\* Output the kernel has not taken yet is waited for: a registered channel with
\* a non-empty outputBuffer_ asks for write events.
PendingOutputIsPolled == inPoller /\ output # <<>> => "W" \in events

\* A half-close comes after the last byte of every message send() has taken, of
\* a connection used through its loop and whose write-complete callback does not
\* call shutdown(), until forceClose gives up what is pending.
HalfCloseAfterDrain ==
    [][ ThroughLoop /\ "shutdown" \notin use.writeComplete /\ ~wrShut /\ wrShut' /\ ~forced =>
            \A m \in handed : Range(Bytes(m)) \subseteq Range(wire) ]_vars

\* Once closed, the connection gives its descriptor back, also when a worker's
\* store has overwritten its state.
ClosedIsReleased == state = "kDisconnected" ~> socket = "null"

\* A connection being shut down is half-closed in the end, or closed, when the
\* peer goes on reading: pending output delays the half-close, not for ever.
ShutdownCompletes ==
    (state = "kDisconnecting" /\ ThroughLoop) ~> (wrShut \/ state = "kDisconnected")
=============================================================================
