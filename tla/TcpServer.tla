------------------------------ MODULE TcpServer ------------------------------
(***************************************************************************)
(* TcpServer (src/muduox/net/tcp/TcpServer.cpp) with its Acceptor, its     *)
(* EventLoopThreadPool, the connections it makes and the thread that       *)
(* starts, stops and destroys it.                                          *)
(*                                                                         *)
(* Loop 0 is the accept loop, the others are those of the pool.  A loop is *)
(* what EventLoop promises: it polls when there is something to do, then   *)
(* handles the active channels, then runs the functors it swapped out.     *)
(* What EventLoopThread does before loop() is one step here, and of the    *)
(* life of a connection only what its server sees is kept: made,           *)
(* established, closed by its peer, destroyed.  A functor drops its        *)
(* reference when it has run, the code a little later, with its vector.    *)
(*                                                                         *)
(* A step that uses a destroyed object sets fault, and nothing follows.    *)
(* The server is started once.                                             *)
(***************************************************************************)
EXTENDS Integers, Sequences, FiniteSets, Functions

CONSTANTS
    MaxConns,        \* bound: connections peers open
    MaxThreads,      \* threadNum_ is at most this
    MaxDescriptors,  \* connections the process has descriptors for
    MaxRemovals      \* bound: removals of one connection in the queue

ASSUME LimitsAssumption ==
    {MaxConns, MaxThreads, MaxDescriptors} \subseteq Nat /\ MaxRemovals \in Nat \ {0}

VARIABLES
    threadNum,    \* threadNum_
    next,         \* next_ of the pool
    pc,           \* where each loop is
    quit,         \* quit_ of each loop
    pending,      \* pendingFunctors_ of each loop
    batch,        \* the functors each loop is running
    active,       \* activeChannels_ each loop has not handled
    accepting,    \* the connection handleRead has accepted, or Acceptor
    acceptor,     \* acceptor_: "none", "made", "listening", "gone"
    phase,        \* of each connection
    loopOf,       \* loop_ of each connection
    eof,          \* connections their peers have closed
    connections,  \* connections_
    ownerPc,      \* where the owner is
    victim,       \* the loop it stops
    destroying,   \* it is in the destructor, connections_ is gone
    hasty,        \* history: destroyed while running or with connections
    fault         \* "none", or what was used after its destruction

loopVars == <<pc, quit, pending, batch, active>>
connVars == <<phase, loopOf, eof, connections>>
ownerVars == <<ownerPc, victim, destroying, hasty>>
vars == <<threadNum, next, loopVars, accepting, acceptor, connVars, ownerVars, fault>>

(***************************************************************************)
(* pc:      "none", "enter" before loop(), "poll", "events", "accept" in   *)
(*          newConnection, "functors", "ended"                             *)
(* phase:   "none", "backlog" of the listening socket, "accepted", "made", *)
(*          "up" watched by its loop, "closed"                             *)
(* ownerPc: "new", "running", "stopped"; "quit", "join" a loop, by stop()  *)
(*          or the destructor; "dropped" after connections_; "gone"        *)
(***************************************************************************)
Loops == 0..MaxThreads
Conns == 1..MaxConns  \* in the order in which peers connect
Acceptor == 0         \* the channel of the listening socket

Functor == [op : {"listen", "establish", "remove", "destroy"}, conn : Conns \cup {Acceptor}]

TypeOK ==
    /\ threadNum \in Loops /\ (IF threadNum = 0 THEN next = 0 ELSE next \in 0..(threadNum - 1))
    /\ pc \in [Loops -> {"none", "enter", "poll", "events", "accept", "functors", "ended"}]
    /\ quit \in [Loops -> BOOLEAN]
    /\ {pending, batch} \subseteq [Loops -> Seq(Functor)]
    /\ active \in [Loops -> SUBSET (Conns \cup {Acceptor})]
    /\ accepting \in Conns \cup {Acceptor}
    /\ acceptor \in {"none", "made", "listening", "gone"}
    /\ phase \in [Conns -> {"none", "backlog", "accepted", "made", "up", "closed"}]
    /\ loopOf \in [Conns -> Loops] /\ eof \subseteq Conns /\ connections \subseteq Conns
    /\ ownerPc \in {"new", "running", "stopped", "quit", "join", "dropped", "gone"}
    /\ victim \in Loops /\ {destroying, hasty} \subseteq BOOLEAN
    /\ fault \in {"none", "acceptor", "server", "connection"}

Init ==
    /\ threadNum \in Loops /\ next = 0
    /\ pc = [l \in Loops |-> "none"] /\ quit = [l \in Loops |-> FALSE]
    /\ pending = [l \in Loops |-> <<>>] /\ batch = pending
    /\ active = [l \in Loops |-> {}] /\ accepting = Acceptor /\ acceptor = "none"
    /\ phase = [c \in Conns |-> "none"] /\ loopOf = [c \in Conns |-> 0]
    /\ eof = {} /\ connections = {}
    /\ ownerPc = "new" /\ victim = 0 /\ destroying = FALSE /\ hasty = FALSE /\ fault = "none"

Queue(l, op, c) == pending' = [pending EXCEPT ![l] = Append(@, [op |-> op, conn |-> c])]

\* A functor holds a TcpConnectionPtr.
Held(c) == \E l \in Loops : \E f \in Range(pending[l]) \cup Range(batch[l]) : f.conn = c

Alive(c) == c \in connections \/ Held(c)

-----------------------------------------------------------------------------
(* The loops.                                                              *)

\* Loop l goes from one place to another, in a process that is in order.
Moves(l, from, to) ==
    /\ fault = "none"
    /\ pc[l] = from /\ pc' = [pc EXCEPT ![l] = to]

EnterLoop(l) ==
    /\ Moves(l, "enter", "poll")
    /\ quit' = [quit EXCEPT ![l] = FALSE]
    /\ UNCHANGED <<threadNum, next, pending, batch, active, accepting, acceptor, connVars, ownerVars,
                   fault>>

\* Poll reports a channel as long as there is something to read or to accept.
Ready(l) ==
    {c \in Conns : phase[c] = "up" /\ loopOf[c] = l /\ c \in eof}
    \cup (IF l = 0 /\ acceptor = "listening" /\ \E c \in Conns : phase[c] = "backlog"
          THEN {Acceptor} ELSE {})

Poll(l) ==
    /\ Moves(l, "poll", "events")
    /\ Ready(l) # {} \/ pending[l] # <<>> \/ quit[l]
    /\ active' = [active EXCEPT ![l] = Ready(l)]
    /\ UNCHANGED <<threadNum, next, quit, pending, batch, accepting, acceptor, connVars, ownerVars,
                   fault>>

Handling(l, c) ==
    /\ c \in active[l]
    /\ active' = [active EXCEPT ![l] = @ \ {c}]

\* The process has a descriptor for another connection.
OpenConns == {c \in Conns : phase[c] \in {"accepted", "made", "up"}}
HasDescriptor == Cardinality(OpenConns) < MaxDescriptors

\* Acceptor::handleRead calls accept, which has a connection ...
Accept(c) ==
    /\ Moves(0, "events", "accept") /\ Handling(0, Acceptor)
    /\ acceptor = "listening"
    /\ phase[c] = "backlog" /\ \A d \in 1..(c - 1) : phase[d] # "backlog"
    /\ HasDescriptor
    /\ phase' = [phase EXCEPT ![c] = "accepted"] /\ accepting' = c
    /\ UNCHANGED <<threadNum, next, quit, pending, batch, acceptor, loopOf, eof, connections,
                   ownerVars, fault>>

\* Mutant of NoDescriptor: the channel stops reading.
NoDescriptorDisabling ==
    /\ Moves(0, "events", "events") /\ Handling(0, Acceptor)
    /\ acceptor = "listening"
    /\ ~HasDescriptor
    /\ acceptor' = "made"
    /\ UNCHANGED <<threadNum, next, quit, pending, batch, accepting, connVars, ownerVars, fault>>

\* ... or no descriptor for it: it stays in the backlog.
NoDescriptor ==
    /\ Moves(0, "events", "events") /\ Handling(0, Acceptor)
    /\ acceptor = "listening"
    /\ ~HasDescriptor
    /\ UNCHANGED <<threadNum, next, quit, pending, batch, accepting, acceptor, connVars, ownerVars,
                   fault>>

\* getNextLoop: the loops of the pool in turn, or the accept loop without one.
NextLoop == IF threadNum = 0 THEN 0 ELSE next + 1

\* Mutant of NextTurn: the turn does not come back to the first loop.
NextTurnUnwrapped == IF threadNum = 0 THEN next ELSE next + 1

NextTurn == IF threadNum = 0 THEN next ELSE (next + 1) % threadNum

\* newConnection, with connectEstablished when the loop is its own.
NewConnection ==
    /\ Moves(0, "accept", "events")
    /\ acceptor = "listening" /\ ~destroying
    /\ next' = NextTurn
    /\ connections' = connections \cup {accepting}
    /\ loopOf' = [loopOf EXCEPT ![accepting] = NextLoop]
    /\ IF NextLoop = 0 THEN UNCHANGED pending ELSE Queue(NextLoop, "establish", accepting)
    /\ phase' = [phase EXCEPT ![accepting] = IF NextLoop = 0 THEN "up" ELSE "made"]
    /\ accepting' = Acceptor
    /\ UNCHANGED <<threadNum, quit, batch, active, acceptor, eof, ownerVars, fault>>

\* Mutant of RemoveInLoop: connectDestroyed is not queued.
RemoveInLoopOnly(c) == connections' = connections \ {c} /\ UNCHANGED pending

\* Mutant of RemoveInLoop: the name is not found.
RemoveInLoopMisnamed(c) == UNCHANGED <<connections, pending>>

\* Mutant of RemoveInLoop: whether the name was found is not tested.
RemoveInLoopAgain(c) == connections' = connections \ {c} /\ Queue(loopOf[c], "destroy", c)

\* removeConnectionInLoop: the first call for c has it destroyed in its loop.
RemoveInLoop(c) ==
    /\ connections' = connections \ {c}
    /\ IF c \in connections THEN Queue(loopOf[c], "destroy", c) ELSE UNCHANGED pending

Removals(c) == Cardinality({i \in DOMAIN pending[0] : pending[0][i] = [op |-> "remove", conn |-> c]})

\* A connection finds that its peer has closed: removeConnection.  It is
\* found again by every poll until it is destroyed.
HandleClose(l, c) ==
    /\ Moves(l, "events", "events") /\ Handling(l, c)
    /\ c \in Conns /\ Alive(c) /\ ~destroying
    /\ IF l = 0 THEN RemoveInLoop(c)
       ELSE /\ IF Removals(c) < MaxRemovals THEN Queue(0, "remove", c) ELSE UNCHANGED pending
            /\ UNCHANGED connections
    /\ UNCHANGED <<threadNum, next, quit, batch, accepting, acceptor, phase, loopOf, eof, ownerVars,
                   fault>>

SwapFunctors(l) ==
    /\ Moves(l, "events", "functors")
    /\ active[l] = {}
    /\ batch' = [batch EXCEPT ![l] = pending[l]]
    /\ pending' = [pending EXCEPT ![l] = <<>>]
    /\ UNCHANGED <<threadNum, next, quit, active, accepting, acceptor, connVars, ownerVars, fault>>

Running(l, op) ==
    /\ Moves(l, "functors", "functors")
    /\ batch[l] # <<>> /\ Head(batch[l]).op = op
    /\ batch' = [batch EXCEPT ![l] = Tail(@)]
    /\ UNCHANGED <<threadNum, next, quit, active, accepting, loopOf, eof, ownerVars, fault>>

RunListen ==
    /\ Running(0, "listen") /\ acceptor = "made"
    /\ acceptor' = "listening"
    /\ UNCHANGED <<pending, phase, connections>>

\* connectEstablished, with the callback of the server.
RunEstablish(l) ==
    /\ Running(l, "establish") /\ ~destroying
    /\ phase' = [phase EXCEPT ![Head(batch[l]).conn] = "up"]
    /\ UNCHANGED <<pending, acceptor, connections>>

RunRemove ==
    /\ Running(0, "remove") /\ ~destroying
    /\ RemoveInLoop(Head(batch[0]).conn)
    /\ UNCHANGED <<acceptor, phase>>

\* connectDestroyed.
RunDestroy(l) ==
    /\ Running(l, "destroy")
    /\ phase' = [phase EXCEPT ![Head(batch[l]).conn] = "closed"]
    /\ UNCHANGED <<pending, acceptor, connections>>

FinishFunctors(l) ==
    /\ Moves(l, "functors", IF quit[l] THEN "ended" ELSE "poll")
    /\ batch[l] = <<>>
    /\ UNCHANGED <<threadNum, next, quit, pending, batch, active, accepting, acceptor, connVars,
                   ownerVars, fault>>

\* What loop l is about to use, destroyed: the acceptor, in the listen functor
\* or in handleRead; the server, in newConnection, in a removal or in the
\* callback of a connection, which connectEstablished calls as well as an event;
\* the connection whose event it has.
Destroyed(l) ==
    IF /\ acceptor = "gone"
       /\ \/ pc[l] = "accept" \/ (pc[l] = "events" /\ Acceptor \in active[l])
          \/ pc[l] = "functors" /\ batch[l] # <<>> /\ Head(batch[l]).op = "listen"
    THEN "acceptor"
    ELSE IF pc[l] = "events" /\ \E c \in active[l] \cap Conns : ~Alive(c) THEN "connection"
    ELSE IF /\ destroying
            /\ \/ pc[l] = "accept" \/ (pc[l] = "events" /\ active[l] # {})
               \/ pc[l] = "functors" /\ batch[l] # <<>> /\ Head(batch[l]).op \in {"establish", "remove"}
    THEN "server"
    ELSE "none"

UseDestroyed(l) ==
    /\ fault = "none"
    /\ fault' = Destroyed(l) /\ fault' # "none"
    /\ UNCHANGED <<threadNum, next, loopVars, accepting, acceptor, connVars, ownerVars>>

-----------------------------------------------------------------------------
(* The owner.                                                              *)

OwnerMoves(from, to) ==
    /\ fault = "none"
    /\ ownerPc = from /\ ownerPc' = to

\* start: the threads, the acceptor, its listen functor.
Start ==
    /\ OwnerMoves("new", "running")
    /\ pc' = [l \in Loops |-> IF l <= threadNum THEN "enter" ELSE "none"]
    /\ acceptor' = "made"
    /\ Queue(0, "listen", Acceptor)
    /\ UNCHANGED <<threadNum, next, quit, batch, active, accepting, connVars, victim, destroying,
                   hasty, fault>>

\* stop: acceptor_.reset(), then acceptThread_->stop().
Stop ==
    /\ OwnerMoves("running", "quit")
    /\ acceptor' = "gone" /\ victim' = 0
    /\ UNCHANGED <<threadNum, next, loopVars, accepting, connVars, destroying, hasty, fault>>

\* The destructor: connections_ goes first, and with it every connection that
\* no functor holds ...
DropConnections ==
    /\ \E from \in {"new", "running", "stopped"} : OwnerMoves(from, "dropped")
    /\ destroying' = TRUE
    /\ hasty' = (ownerPc = "running" \/ OpenConns # {})
    /\ connections' = {}
    /\ phase' = [c \in Conns |-> IF c \in connections /\ ~Held(c) THEN "closed" ELSE phase[c]]
    /\ UNCHANGED <<threadNum, next, loopVars, accepting, acceptor, loopOf, eof, victim, fault>>

\* ... then acceptor_, then the pool, then the accept thread.
DropAcceptor ==
    /\ OwnerMoves("dropped", "quit")
    /\ acceptor' = IF acceptor = "none" THEN "none" ELSE "gone"
    /\ victim' = IF threadNum = 0 THEN 0 ELSE 1
    /\ UNCHANGED <<threadNum, next, loopVars, accepting, connVars, destroying, hasty, fault>>

\* EventLoopThread::stop.
Quit ==
    /\ OwnerMoves("quit", "join")
    /\ quit' = [quit EXCEPT ![victim] = TRUE]
    /\ UNCHANGED <<threadNum, next, pc, pending, batch, active, accepting, acceptor, connVars, victim,
                   destroying, hasty, fault>>

Join ==
    /\ OwnerMoves("join", IF ~destroying THEN "stopped" ELSE IF victim = 0 THEN "gone" ELSE "quit")
    /\ pc[victim] \in {"none", "ended"}
    /\ victim' = (victim + 1) % (threadNum + 1)
    /\ UNCHANGED <<threadNum, next, loopVars, accepting, acceptor, connVars, destroying, hasty, fault>>

-----------------------------------------------------------------------------
(* The peers.                                                              *)

Connect(c) ==
    /\ fault = "none" /\ acceptor = "listening"
    /\ phase[c] = "none" /\ \A d \in 1..(c - 1) : phase[d] # "none"
    /\ phase' = [phase EXCEPT ![c] = "backlog"]
    /\ UNCHANGED <<threadNum, next, loopVars, accepting, acceptor, loopOf, eof, connections,
                   ownerVars, fault>>

\* Noticed only when the connection is up.
Close(c) ==
    /\ fault = "none"
    /\ phase[c] = "up" /\ c \notin eof
    /\ eof' = eof \cup {c}
    /\ UNCHANGED <<threadNum, next, loopVars, accepting, acceptor, phase, loopOf, connections,
                   ownerVars, fault>>

-----------------------------------------------------------------------------

LoopStep(l) ==
    \/ EnterLoop(l) \/ Poll(l) \/ SwapFunctors(l) \/ FinishFunctors(l)
    \/ \E c \in Conns : HandleClose(l, c)
    \/ RunEstablish(l) \/ RunDestroy(l)
    \/ UseDestroyed(l)
    \/ l = 0 /\ (NoDescriptor \/ NewConnection \/ RunListen \/ RunRemove \/ \E c \in Conns : Accept(c))

OwnerStep == Start \/ Stop \/ DropConnections \/ DropAcceptor \/ Quit \/ Join

Next ==
    \/ \E l \in Loops : LoopStep(l)
    \/ OwnerStep
    \/ \E c \in Conns : Connect(c) \/ Close(c)

(***************************************************************************)
(* Fairness: every loop runs.  Nobody has to connect, close, stop or       *)
(* destroy.                                                                *)
(***************************************************************************)
Spec == Init /\ [][Next]_vars /\ \A l \in Loops : WF_vars(LoopStep(l))

-----------------------------------------------------------------------------
(* Properties.                                                             *)

\* A channel that is watched, or whose event a loop has fetched, belongs to a
\* connection that somebody owns, until the destructor empties connections_; a
\* server that is destroyed after a stop and without connections uses nothing
\* that is gone.
WatchedIsOwned ==
    /\ \A c \in Conns :
          (phase[c] = "up" \/ \E l \in Loops : c \in active[l]) /\ ~destroying => Alive(c)
    /\ fault \in {"connection", "server"} => hasty

\* What loop l has to run, in this order.
Work(l) == batch[l] \o pending[l]

\* connectEstablished and connectDestroyed run at most once for a connection,
\* in this order, the latter when the map has let it go, however often its
\* close is reported and its removal queued in between, whoever is destroyed.
LivesOnce ==
    \A l \in Loops : \A i \in DOMAIN Work(l) :
        LET f == Work(l)[i]
        IN  /\ f.op = "establish" => phase[f.conn] = "made"
            /\ f.op = "destroy" => phase[f.conn] = "up" /\ f.conn \notin connections
            /\ f.op \in {"establish", "destroy"} =>
                  \A j \in DOMAIN Work(l) : Work(l)[j] = f => j = i

\* Up and not yet stopped.
InService == ownerPc = "running" /\ fault = "none"

\* A connection its peer has closed is destroyed, across the loops: removal at
\* the accept loop, connectDestroyed at its own, however often it is reported
\* in between.
ClosedIsReleased ==
    \A c \in Conns : (phase[c] = "up" /\ c \in eof) ~> (phase[c] = "closed" \/ ~InService)

\* accept() that fails for want of a descriptor loses nobody: the backlog is
\* served when a descriptor becomes free.
BacklogIsServed ==
    \A c \in Conns :
        (phase[c] = "backlog" /\ HasDescriptor) ~> (phase[c] # "backlog" \/ ~HasDescriptor \/ ~InService)

\* stop() destroys the acceptor while the accept loop may still use it.
AcceptorOutlivesItsUse == fault # "acceptor"
=============================================================================
