--------------------------- MODULE TcpServerProofs ---------------------------
(***************************************************************************)
(* Safety of TcpServer, for any number of connections, threads and         *)
(* descriptors.                                                            *)
(***************************************************************************)
EXTENDS TcpServer, SequenceTheorems, TLAPS

\* What loop l has to run.
Functors(l) == Range(pending[l]) \cup Range(batch[l])

\* The accept loop alone accepts, and what it has accepted nobody else knows.
AcceptInv ==
    \A l \in Loops : pc[l] = "accept" => l = 0 /\ accepting \in Conns /\ phase[accepting] = "accepted"

\* Functors run where they belong, for connections that have been made.
FunctorInv ==
    /\ connections \subseteq {c \in Conns : phase[c] \in {"made", "up", "closed"}}
    /\ \A l \in Loops : \A f \in Functors(l) :
          \/ f.op = "listen" /\ l = 0
          \/ /\ f.op \in {"establish", "remove", "destroy"}
             /\ f.conn \in Conns /\ phase[f.conn] \in {"made", "up", "closed"}
             /\ l = IF f.op = "remove" THEN 0 ELSE loopOf[f.conn]

\* A connection that is up is in the map, or its connectDestroyed is queued.
UpInv ==
    ~destroying =>
        \A c \in Conns : phase[c] = "up" =>
            c \in connections \/ [op |-> "destroy", conn |-> c] \in Functors(loopOf[c])

\* A loop handles events of its own connections, which are up unless they went
\* with the map.
ActiveInv ==
    \A l \in Loops : \A c \in active[l] :
        /\ pc[l] \in {"events", "accept"}
        /\ IF c = Acceptor THEN l = 0 ELSE loopOf[c] = l /\ (phase[c] = "up" \/ (destroying /\ hasty))

\* The functors a loop has swapped out are there while it runs them.
BatchInv == \A l \in Loops : pc[l] # "functors" => batch[l] = <<>>

\* A stopped server accepts nobody; destroyed in peace it has nobody either.
PeaceInv ==
    /\ ownerPc = "new" => \A l \in Loops : pc[l] = "none"
    /\ ownerPc \in {"quit", "join"} /\ ~destroying => victim = 0
    /\ ownerPc \in {"new", "running", "stopped"} => ~destroying
    /\ ownerPc = "dropped" => destroying
    /\ ownerPc = "stopped" \/ (destroying /\ ~hasty) => pc[0] \in {"none", "ended"}
    /\ destroying => connections = {}
    /\ destroying /\ ~hasty => OpenConns = {}

FaultInv == fault \in {"connection", "server"} => hasty

ServerInv ==
    /\ TypeOK /\ AcceptInv /\ FunctorInv /\ UpInv /\ ActiveInv
    /\ BatchInv /\ PeaceInv /\ FaultInv

\* No connectEstablished or connectDestroyed is twice in a queue.
Single(q) ==
    \A i, j \in DOMAIN q : q[i].op \in {"establish", "destroy"} /\ q[i] = q[j] => i = j

\* Who is in the map is not closed; a functor finds its connection where the
\* one before it has left it.
OnceInv ==
    /\ connections \subseteq {c \in Conns : phase[c] \in {"made", "up"}}
    /\ \A l \in Loops : Single(Work(l))
    /\ \A l \in Loops : \A f \in Functors(l) :
          /\ f.op = "establish" => phase[f.conn] = "made"
          /\ f.op = "destroy" => phase[f.conn] = "up" /\ f.conn \notin connections
          /\ f.op = "remove" => phase[f.conn] \in {"up", "closed"}

\* Nobody removes a connection that has not been established.
MadeInv == ~destroying => \A c \in Conns : phase[c] = "made" => c \in connections

ServerOnceInv == ServerInv /\ OnceInv /\ MadeInv

-----------------------------------------------------------------------------
(* Functors.                                                               *)

\* What a queue holds when a functor has joined it, or left it.
LEMMA AppendRange ==
    ASSUME NEW S, NEW s \in Seq(S), NEW e \in S
    PROVE  Append(s, e) \in Seq(S) /\ Range(Append(s, e)) = Range(s) \cup {e}
<1>1. /\ Append(s, e) \in Seq(S) /\ Len(s) \in Nat /\ Len(Append(s, e)) = Len(s) + 1
      /\ \A i \in 1..Len(s) : Append(s, e)[i] = s[i]
      /\ Append(s, e)[Len(s) + 1] = e
      /\ DOMAIN s = 1..Len(s) /\ DOMAIN Append(s, e) = 1..(Len(s) + 1)
  BY AppendProperties, LenProperties
<1>2. 1..(Len(s) + 1) = (1..Len(s)) \cup {Len(s) + 1}
  BY <1>1
<1> QED
  BY <1>1, <1>2 DEF Range

LEMMA HeadTailRange ==
    ASSUME NEW S, NEW s \in Seq(S), s # <<>>
    PROVE  /\ Head(s) \in S /\ Tail(s) \in Seq(S)
           /\ Range(s) = Range(Tail(s)) \cup {Head(s)}
<1>1. /\ Head(s) \in S /\ Tail(s) \in Seq(S) /\ Head(s) = s[1]
      /\ Len(s) \in Nat \ {0} /\ Len(Tail(s)) = Len(s) - 1
      /\ \A i \in 1..Len(Tail(s)) : Tail(s)[i] = s[i + 1]
      /\ DOMAIN s = 1..Len(s) /\ DOMAIN Tail(s) = 1..(Len(s) - 1)
  BY HeadTailProperties, LenProperties, EmptySeq
<1>2. ASSUME NEW i \in 1..Len(s) PROVE s[i] \in Range(Tail(s)) \cup {Head(s)}
  <2>1. CASE i = 1
    BY <1>1, <2>1
  <2>2. CASE i # 1
    <3>1. i - 1 \in 1..(Len(s) - 1) /\ Tail(s)[i - 1] = s[i]
      BY <1>1, <2>2
    <3> QED
      BY <1>1, <3>1 DEF Range
  <2> QED
    BY <2>1, <2>2
<1>3. ASSUME NEW i \in 1..(Len(s) - 1) PROVE Tail(s)[i] \in Range(s)
  <2>1. i + 1 \in 1..Len(s) /\ Tail(s)[i] = s[i + 1]
    BY <1>1
  <2> QED
    BY <1>1, <2>1 DEF Range
<1>4. Head(s) \in Range(s)
  BY <1>1 DEF Range
<1> QED
  BY <1>1, <1>2, <1>3, <1>4 DEF Range

LEMMA RangeOfFunctors ==
    ASSUME TypeOK, NEW l \in Loops
    PROVE  Functors(l) \subseteq Functor
<1>1. pending[l] \in Seq(Functor) /\ batch[l] \in Seq(Functor)
  BY DEF TypeOK
<1> QED
  BY <1>1, ElementOfSeq, LenProperties DEF Functors, Range

\* queueInLoop at loop l.
LEMMA QueueEffect ==
    ASSUME TypeOK, NEW l \in Loops, NEW op, NEW c, [op |-> op, conn |-> c] \in Functor, Queue(l, op, c)
    PROVE  /\ pending' \in [Loops -> Seq(Functor)]
           /\ \A k \in Loops : Range(pending'[k]) =
                 IF k = l THEN Range(pending[k]) \cup {[op |-> op, conn |-> c]} ELSE Range(pending[k])
<1>1. pending \in [Loops -> Seq(Functor)]
  BY DEF TypeOK
<1>2. pending' = [pending EXCEPT ![l] = Append(pending[l], [op |-> op, conn |-> c])]
  BY DEF Queue
<1>3. /\ Append(pending[l], [op |-> op, conn |-> c]) \in Seq(Functor)
      /\ Range(Append(pending[l], [op |-> op, conn |-> c])) =
            Range(pending[l]) \cup {[op |-> op, conn |-> c]}
  BY <1>1, AppendRange
<1> QED
  BY <1>1, <1>2, <1>3

\* Loop l runs the first functor of its vector.
LEMMA RunningEffect ==
    ASSUME TypeOK, NEW l \in Loops, NEW op, Running(l, op)
    PROVE  /\ batch' \in [Loops -> Seq(Functor)]
           /\ Head(batch[l]) \in Functor /\ Head(batch[l]).op = op /\ Head(batch[l]) \in Functors(l)
           /\ \A k \in Loops : Range(batch[k]) =
                 IF k = l THEN Range(batch'[k]) \cup {Head(batch[l])} ELSE Range(batch'[k])
           /\ pc[l] = "functors" /\ pc' = pc /\ fault = "none"
<1>1. batch \in [Loops -> Seq(Functor)] /\ batch[l] # <<>> /\ pc \in [Loops -> {"none", "enter", "poll", "events", "accept", "functors", "ended"}]
  BY DEF TypeOK, Running
<1>2. batch' = [batch EXCEPT ![l] = Tail(batch[l])] /\ pc' = [pc EXCEPT ![l] = "functors"] /\ pc[l] = "functors"
  BY DEF Running, Moves
<1>3. /\ Head(batch[l]) \in Functor /\ Tail(batch[l]) \in Seq(Functor)
      /\ Range(batch[l]) = Range(Tail(batch[l])) \cup {Head(batch[l])}
  BY <1>1, HeadTailRange
<1>4. pc' = pc
  BY <1>1, <1>2
<1> QED
  BY <1>1, <1>2, <1>3, <1>4 DEF Running, Moves, Functors

-----------------------------------------------------------------------------
(* Steps that leave the functors alone.                                    *)

LEMMA PeerStep ==
    ASSUME ServerInv, NEW c \in Conns, Connect(c) \/ Close(c)
    PROVE  ServerInv'
<1> USE DEF ServerInv, loopVars, ownerVars
<1>1. UNCHANGED <<threadNum, next, loopVars, accepting, acceptor, loopOf, connections, ownerVars, fault>>
  BY DEF Connect, Close
<1>2. CASE Connect(c)
  <2>1. phase' = [phase EXCEPT ![c] = "backlog"] /\ phase[c] = "none" /\ eof' = eof
    BY <1>2 DEF Connect
  <2>2. TypeOK'
    BY <1>1, <2>1 DEF TypeOK
  <2>3. \A d \in Conns : phase'[d] = IF d = c THEN "backlog" ELSE phase[d]
    BY <2>1 DEF TypeOK
  <2>4. AcceptInv'
    BY <1>1, <2>1, <2>3 DEF AcceptInv
  <2>5. FunctorInv'
    BY <1>1, <2>1, <2>3 DEF FunctorInv, Functors
  <2>6. UpInv' /\ ActiveInv'
    BY <1>1, <2>1, <2>3 DEF UpInv, ActiveInv, Functors, TypeOK, Conns, Acceptor
  <2>7. BatchInv' /\ PeaceInv' /\ FaultInv'
    BY <1>1, <2>1, <2>3 DEF BatchInv, PeaceInv, FaultInv, OpenConns
  <2> QED
    BY <2>2, <2>4, <2>5, <2>6, <2>7
<1>3. CASE Close(c)
  <2>1. TypeOK' /\ UNCHANGED phase
    BY <1>1, <1>3 DEF TypeOK, Close
  <2> QED
    BY <1>1, <2>1 DEF AcceptInv, FunctorInv, UpInv, ActiveInv, BatchInv, PeaceInv, FaultInv, Functors, OpenConns
<1> QED
  BY <1>2, <1>3

LEMMA StoppingStep ==
    ASSUME ServerInv, Stop \/ DropAcceptor \/ Quit \/ Join
    PROVE  ServerInv'
<1> USE DEF ServerInv, loopVars, ownerVars, connVars, OwnerMoves
<1>1. UNCHANGED <<threadNum, next, pc, pending, batch, active, accepting, phase, loopOf, eof, connections,
                  destroying, hasty, fault>>
  BY DEF Stop, DropAcceptor, Quit, Join
<1>2. threadNum \in 0..MaxThreads /\ victim \in 0..MaxThreads /\ MaxThreads \in Nat
  BY LimitsAssumption DEF TypeOK, Loops
<1>3. victim' \in Loops
  <2>1. CASE Join
    <3>1. victim \in Nat /\ threadNum \in Nat
      BY <1>2 DEF TypeOK, Loops
    <3>2. (victim + 1) % (threadNum + 1) \in 0..threadNum
      BY ONLY <3>1
    <3> QED
      BY <1>2, <2>1, <3>2 DEF Join, Loops
  <2>2. CASE Stop \/ Quit
    <3>1. victim' \in {0, victim}
      BY <2>2 DEF Stop, Quit
    <3> QED
      BY <1>2, <3>1 DEF Loops
  <2>3. CASE DropAcceptor
    <3>1. threadNum # 0 => 1 \in 0..MaxThreads
      BY <1>2
    <3>2. victim' = 0 \/ (threadNum # 0 /\ victim' = 1)
      BY <2>3 DEF DropAcceptor
    <3> QED
      BY <1>2, <3>1, <3>2 DEF Loops
  <2> QED
    BY <2>1, <2>2, <2>3
<1>4. TypeOK'
  <2>1. quit' \in [Loops -> BOOLEAN]
    BY DEF Stop, DropAcceptor, Quit, Join, TypeOK
  <2>2. ownerPc' \in {"stopped", "quit", "join", "gone"} /\ acceptor' \in {acceptor, "none", "gone"}
    BY DEF Stop, DropAcceptor, Quit, Join
  <2> QED
    BY <1>1, <1>3, <2>1, <2>2 DEF TypeOK
<1>5. AcceptInv' /\ FunctorInv' /\ UpInv' /\ ActiveInv' /\ BatchInv' /\ FaultInv'
  BY <1>1 DEF AcceptInv, FunctorInv, UpInv, ActiveInv, BatchInv, FaultInv, Functors
<1>6. OpenConns' = OpenConns
  BY <1>1 DEF OpenConns
<1>7. PeaceInv'
  <2>1. CASE Stop
    BY <1>1, <1>6, <2>1 DEF Stop, PeaceInv
  <2>2. CASE DropAcceptor \/ Quit
    BY <1>1, <1>6, <2>2 DEF DropAcceptor, Quit, PeaceInv, FunctorInv
  <2>3. CASE Join
    BY <1>1, <1>6, <2>3 DEF Join, PeaceInv
  <2> QED
    BY <2>1, <2>2, <2>3
<1> QED
  BY <1>4, <1>5, <1>7

LEMMA StartStep ==
    ASSUME ServerInv, Start
    PROVE  ServerInv'
<1> USE DEF ServerInv, connVars
<1>1. /\ ownerPc = "new" /\ ownerPc' = "running" /\ fault = "none" /\ acceptor' = "made"
      /\ pc' = [l \in Loops |-> IF l <= threadNum THEN "enter" ELSE "none"]
      /\ Queue(0, "listen", Acceptor)
      /\ UNCHANGED <<threadNum, next, quit, batch, active, accepting, phase, loopOf, eof, connections,
                     victim, destroying, hasty, fault>>
  BY DEF Start, OwnerMoves
<1>2. 0 \in Loops /\ [op |-> "listen", conn |-> Acceptor] \in Functor
  BY LimitsAssumption DEF Loops, Functor
<1>3. /\ pending' \in [Loops -> Seq(Functor)]
      /\ \A k \in Loops : Range(pending'[k]) = IF k = 0
            THEN Range(pending[k]) \cup {[op |-> "listen", conn |-> Acceptor]} ELSE Range(pending[k])
  BY <1>1, <1>2, QueueEffect
<1>4. /\ \A k \in Loops : Functors(k) \subseteq Functors(k)'
      /\ \A k \in Loops : \A f \in Functors(k)' : f \in Functors(k) \/ (k = 0 /\ f.op = "listen")
  BY <1>1, <1>3 DEF Functors
<1>5. \A l \in Loops : pc[l] = "none" /\ pc'[l] \in {"none", "enter"}
  BY <1>1 DEF PeaceInv
<1>6. TypeOK'
  <2>1. pc' \in [Loops -> {"none", "enter", "poll", "events", "accept", "functors", "ended"}]
    BY <1>1
  <2> QED
    BY <1>1, <1>3, <2>1 DEF TypeOK
<1>7. AcceptInv' /\ BatchInv' /\ FaultInv'
  BY <1>1, <1>5 DEF AcceptInv, BatchInv, FaultInv
<1>8. FunctorInv'
  BY <1>1, <1>4 DEF FunctorInv
<1>9. UpInv'
  BY <1>1, <1>4 DEF UpInv, TypeOK
<1>10. ActiveInv'
  BY <1>1, <1>5 DEF ActiveInv
<1>11. PeaceInv'
  BY <1>1, <1>2, <1>5 DEF PeaceInv
<1> QED
  BY <1>6, <1>7, <1>8, <1>9, <1>10, <1>11

LEMMA DropConnectionsStep ==
    ASSUME ServerInv, DropConnections
    PROVE  ServerInv'
<1> USE DEF ServerInv, loopVars, connVars
<1>1. /\ ownerPc \in {"new", "running", "stopped"} /\ ownerPc' = "dropped" /\ fault = "none"
      /\ destroying' /\ hasty' = (ownerPc = "running" \/ OpenConns # {}) /\ connections' = {}
      /\ phase' = [c \in Conns |-> IF c \in connections /\ ~Held(c) THEN "closed" ELSE phase[c]]
      /\ UNCHANGED <<threadNum, next, loopVars, accepting, acceptor, loopOf, eof, victim, fault>>
  BY DEF DropConnections, OwnerMoves
<1>2. ~destroying /\ 0 \in Loops
  BY <1>1, LimitsAssumption DEF PeaceInv, Loops
<1>3. \A c \in Conns : phase'[c] = phase[c] \/ (c \in connections /\ phase'[c] = "closed")
  BY <1>1
<1>4. TypeOK'
  <2>1. phase' \in [Conns -> {"none", "backlog", "accepted", "made", "up", "closed"}]
    BY <1>1 DEF TypeOK
  <2>2. {destroying', hasty'} \subseteq BOOLEAN
    <3>1. destroying' = TRUE
      BY DEF DropConnections
    <3> QED
      BY <1>1, <3>1
  <2> QED
    BY <1>1, <2>1, <2>2 DEF TypeOK
<1>5. AcceptInv'
  BY <1>1, <1>3 DEF AcceptInv, FunctorInv
<1>6. FunctorInv'
  BY <1>1, <1>3 DEF FunctorInv, Functors
<1>7. UpInv' /\ BatchInv' /\ FaultInv'
  BY <1>1 DEF UpInv, BatchInv, FaultInv
<1>8. ActiveInv'
  <2> SUFFICES ASSUME NEW l \in Loops, NEW c \in active[l]
               PROVE  /\ pc[l] \in {"events", "accept"}
                      /\ IF c = Acceptor THEN l = 0 ELSE loopOf[c] = l /\ (phase'[c] = "up" \/ hasty')
    BY <1>1 DEF ActiveInv
  <2>1. c \in Conns \cup {Acceptor}
    BY DEF TypeOK
  <2>2. CASE c = Acceptor
    BY <2>2 DEF ActiveInv
  <2>3. CASE c # Acceptor
    <3>1. phase[c] = "up" /\ c \in OpenConns
      BY <1>2, <2>1, <2>3 DEF ActiveInv, OpenConns
    <3>2. hasty'
      BY <1>1, <3>1
    <3> QED
      BY <2>3, <3>2 DEF ActiveInv
  <2> QED
    BY <2>2, <2>3
<1>9. PeaceInv'
  <2>1. ~hasty' => ownerPc # "running" /\ OpenConns = {}
    BY <1>1
  <2>2. OpenConns' \subseteq OpenConns
    BY <1>3 DEF OpenConns
  <2> QED
    BY <1>1, <1>2, <2>1, <2>2 DEF PeaceInv
<1> QED
  BY <1>4, <1>5, <1>6, <1>7, <1>8, <1>9

-----------------------------------------------------------------------------
(* Steps of a loop.                                                        *)

LEMMA MovesEffect ==
    ASSUME TypeOK, NEW l \in Loops, NEW from, NEW to, Moves(l, from, to),
           to \in {"none", "enter", "poll", "events", "accept", "functors", "ended"}
    PROVE  /\ pc' \in [Loops -> {"none", "enter", "poll", "events", "accept", "functors", "ended"}]
           /\ \A k \in Loops : pc'[k] = IF k = l THEN to ELSE pc[k]
           /\ pc[l] = from /\ fault = "none"
BY DEF Moves, TypeOK

\* A loop takes nothing from the server once it has been destroyed.
LEMMA PeaceKept ==
    ASSUME ServerInv, NEW l \in Loops, NEW from, NEW to, Moves(l, from, to),
           from \notin {"none", "ended"}, UNCHANGED ownerVars,
           destroying => connections' \subseteq connections,
           l = 0 \/ (destroying => OpenConns' \subseteq OpenConns)
    PROVE  PeaceInv'
<1>1. /\ pc[l] = from
      /\ \A k \in Loops : k # l => pc'[k] = pc[k]
  BY DEF Moves, ServerInv, TypeOK
<1>2. ownerPc # "new"
  BY <1>1 DEF ServerInv, PeaceInv
<1>3. ownerPc = "stopped" \/ (destroying /\ ~hasty) => l # 0 /\ pc'[0] \in {"none", "ended"}
  <2>1. 0 \in Loops
    BY LimitsAssumption DEF Loops
  <2> QED
    BY <1>1, <2>1 DEF ServerInv, PeaceInv
<1>4. destroying => connections' = {}
  BY DEF ServerInv, PeaceInv
<1>5. destroying /\ ~hasty => OpenConns' = {}
  BY <1>3 DEF ServerInv, PeaceInv
<1> QED
  BY <1>2, <1>3, <1>4, <1>5 DEF ServerInv, PeaceInv, ownerVars

\* A step that changes neither queue nor what is known of the connections.
LEMMA QuietKept ==
    ASSUME ServerInv,
           UNCHANGED <<pending, batch, phase, loopOf, connections, destroying>>
    PROVE  FunctorInv' /\ UpInv'
BY DEF ServerInv, FunctorInv, UpInv, Functors

LEMMA EnterLoopStep ==
    ASSUME ServerInv, NEW l \in Loops, EnterLoop(l)
    PROVE  ServerInv'
<1> USE DEF ServerInv, connVars, ownerVars
<1>1. /\ Moves(l, "enter", "poll")
      /\ quit' = [quit EXCEPT ![l] = FALSE]
      /\ UNCHANGED <<threadNum, next, pending, batch, active, accepting, acceptor, connVars, ownerVars,
                   fault>>
  BY DEF EnterLoop
<1>2. /\ pc' \in [Loops -> {"none", "enter", "poll", "events", "accept", "functors", "ended"}]
      /\ \A k \in Loops : pc'[k] = IF k = l THEN "poll" ELSE pc[k]
      /\ pc[l] = "enter"
  BY <1>1, MovesEffect
<1>3. TypeOK'
  <2>1. quit' \in [Loops -> BOOLEAN]
    BY <1>1 DEF TypeOK
  <2> QED
    BY <1>1, <1>2, <2>1 DEF TypeOK
<1>4. AcceptInv' /\ BatchInv' /\ FaultInv' /\ ActiveInv'
  BY <1>1, <1>2 DEF AcceptInv, BatchInv, FaultInv, ActiveInv
<1>5. PeaceInv'
  <2>1. OpenConns' = OpenConns
    BY <1>1 DEF OpenConns
  <2> QED
    BY <1>1, <2>1, PeaceKept
<1>6. FunctorInv' /\ UpInv'
  BY <1>1, QuietKept
<1> QED
  BY <1>3, <1>4, <1>5, <1>6

LEMMA PollStep ==
    ASSUME ServerInv, NEW l \in Loops, Poll(l)
    PROVE  ServerInv'
<1> USE DEF ServerInv, connVars, ownerVars
<1>1. /\ Moves(l, "poll", "events")
      /\ active' = [active EXCEPT ![l] = Ready(l)]
      /\ UNCHANGED <<threadNum, next, quit, pending, batch, accepting, acceptor, connVars, ownerVars,
                   fault>>
  BY DEF Poll
<1>2. /\ pc' \in [Loops -> {"none", "enter", "poll", "events", "accept", "functors", "ended"}]
      /\ \A k \in Loops : pc'[k] = IF k = l THEN "events" ELSE pc[k]
      /\ pc[l] = "poll"
  BY <1>1, MovesEffect
<1>3. /\ Ready(l) \subseteq Conns \cup {Acceptor}
      /\ \A c \in Ready(l) : IF c = Acceptor THEN l = 0 ELSE loopOf[c] = l /\ phase[c] = "up"
  BY DEF Ready, Conns, Acceptor
<1>4. TypeOK'
  BY <1>1, <1>2, <1>3 DEF TypeOK
<1>5. AcceptInv' /\ BatchInv' /\ FaultInv'
  BY <1>1, <1>2 DEF AcceptInv, BatchInv, FaultInv
<1>6. ActiveInv'
  <2>1. \A k \in Loops : active'[k] = IF k = l THEN Ready(l) ELSE active[k]
    BY <1>1 DEF TypeOK
  <2> QED
    BY <1>1, <1>2, <1>3, <2>1 DEF ActiveInv
<1>7. PeaceInv'
  <2>1. OpenConns' = OpenConns
    BY <1>1 DEF OpenConns
  <2> QED
    BY <1>1, <2>1, PeaceKept
<1>8. FunctorInv' /\ UpInv'
  BY <1>1, QuietKept
<1> QED
  BY <1>4, <1>5, <1>6, <1>7, <1>8

LEMMA NoDescriptorStep ==
    ASSUME ServerInv, NoDescriptor
    PROVE  ServerInv'
<1> USE DEF ServerInv, connVars, ownerVars
<1>1. /\ Moves(0, "events", "events")
      /\ active' = [active EXCEPT ![0] = active[0] \ {Acceptor}]
      /\ UNCHANGED <<threadNum, next, quit, pending, batch, accepting, acceptor, connVars, ownerVars,
                   fault>>
  BY DEF NoDescriptor, Handling
<1>2. 0 \in Loops
  BY LimitsAssumption DEF Loops
<1>3. pc' = pc
  BY <1>1 DEF Moves, TypeOK
<1>4. \A k \in Loops : active'[k] \subseteq active[k]
  BY <1>1 DEF TypeOK
<1>5. TypeOK'
  BY <1>1, <1>3 DEF TypeOK
<1>6. AcceptInv' /\ BatchInv' /\ FaultInv' /\ ActiveInv'
  BY <1>1, <1>3, <1>4 DEF AcceptInv, BatchInv, FaultInv, ActiveInv
<1>7. PeaceInv'
  <2>1. OpenConns' = OpenConns
    BY <1>1 DEF OpenConns
  <2> QED
    BY <1>1, <1>2, <2>1, PeaceKept
<1>8. FunctorInv' /\ UpInv'
  BY <1>1, QuietKept
<1> QED
  BY <1>5, <1>6, <1>7, <1>8

LEMMA FinishFunctorsStep ==
    ASSUME ServerInv, NEW l \in Loops, FinishFunctors(l)
    PROVE  ServerInv'
<1> USE DEF ServerInv, connVars, ownerVars
<1> DEFINE to == IF quit[l] THEN "ended" ELSE "poll"
<1>1. /\ Moves(l, "functors", to) /\ batch[l] = <<>>
      /\ UNCHANGED <<threadNum, next, quit, pending, batch, active, accepting, acceptor, connVars,
                     ownerVars, fault>>
  BY DEF FinishFunctors
<1>2. to \in {"ended", "poll"}
  OBVIOUS
<1> HIDE DEF to
<1>3. /\ pc' \in [Loops -> {"none", "enter", "poll", "events", "accept", "functors", "ended"}]
      /\ \A k \in Loops : pc'[k] = IF k = l THEN to ELSE pc[k]
      /\ pc[l] = "functors"
  BY <1>1, <1>2, MovesEffect
<1>4. TypeOK'
  BY <1>1, <1>3 DEF TypeOK
<1>5. AcceptInv' /\ BatchInv' /\ FaultInv' /\ ActiveInv'
  BY <1>1, <1>2, <1>3 DEF AcceptInv, BatchInv, FaultInv, ActiveInv
<1>6. PeaceInv'
  <2>1. OpenConns' = OpenConns
    BY <1>1 DEF OpenConns
  <2> QED
    BY <1>1, <2>1, PeaceKept
<1>7. FunctorInv' /\ UpInv'
  BY <1>1, QuietKept
<1> QED
  BY <1>4, <1>5, <1>6, <1>7

LEMMA AcceptStep ==
    ASSUME ServerInv, NEW c \in Conns, Accept(c)
    PROVE  ServerInv'
<1> USE DEF ServerInv, connVars, ownerVars
<1>1. /\ Moves(0, "events", "accept") /\ phase[c] = "backlog"
      /\ active' = [active EXCEPT ![0] = active[0] \ {Acceptor}]
      /\ phase' = [phase EXCEPT ![c] = "accepted"] /\ accepting' = c
      /\ UNCHANGED <<threadNum, next, quit, pending, batch, acceptor, loopOf, eof, connections,
                     ownerVars, fault>>
  BY DEF Accept, Handling
<1>2. 0 \in Loops
  BY LimitsAssumption DEF Loops
<1>3. /\ pc' \in [Loops -> {"none", "enter", "poll", "events", "accept", "functors", "ended"}]
      /\ \A k \in Loops : pc'[k] = IF k = 0 THEN "accept" ELSE pc[k]
      /\ pc[0] = "events"
  BY <1>1, <1>2, MovesEffect
<1>4. /\ \A k \in Loops : active'[k] \subseteq active[k]
      /\ \A d \in Conns : phase'[d] = IF d = c THEN "accepted" ELSE phase[d]
  BY <1>1 DEF TypeOK
<1>5. TypeOK'
  BY <1>1, <1>3, <1>4 DEF TypeOK
<1>6. AcceptInv'
  BY <1>1, <1>3, <1>4 DEF AcceptInv
<1>7. FunctorInv'
  BY <1>1, <1>4 DEF FunctorInv, Functors
<1>8. UpInv'
  BY <1>1, <1>4 DEF UpInv, Functors
<1>9. ActiveInv'
  <2> SUFFICES ASSUME NEW k \in Loops, NEW d \in active'[k]
               PROVE  /\ pc'[k] \in {"events", "accept"}
                      /\ IF d = Acceptor THEN k = 0
                         ELSE loopOf[d] = k /\ (phase'[d] = "up" \/ (destroying /\ hasty))
    BY <1>1 DEF ActiveInv
  <2>1. d \in active[k] /\ d \in Conns \cup {Acceptor}
    BY <1>4 DEF TypeOK
  <2> QED
    BY <1>1, <1>3, <1>4, <2>1 DEF ActiveInv
<1>10. BatchInv' /\ FaultInv'
  BY <1>1, <1>3 DEF BatchInv, FaultInv
<1>11. PeaceInv'
  BY <1>1, <1>2, PeaceKept
<1> QED
  BY <1>5, <1>6, <1>7, <1>8, <1>9, <1>10, <1>11

\* The turn stays among the loops of the pool.
LEMMA NextLoopInRange ==
    ASSUME TypeOK
    PROVE  /\ NextLoop \in Loops
           /\ IF threadNum = 0 THEN NextTurn = 0 ELSE NextTurn \in 0..(threadNum - 1)
<1>1. threadNum \in Nat /\ MaxThreads \in Nat /\ threadNum <= MaxThreads
  BY LimitsAssumption DEF TypeOK, Loops
<1>2. CASE threadNum = 0
  BY <1>1, <1>2 DEF NextLoop, NextTurn, Loops, TypeOK
<1>3. CASE threadNum # 0
  <2>1. next \in 0..(threadNum - 1)
    BY <1>3 DEF TypeOK
  <2>2. next + 1 \in 0..MaxThreads /\ (next + 1) % threadNum \in 0..(threadNum - 1)
    BY ONLY <1>1, <1>3, <2>1
  <2> QED
    BY <1>3, <2>2 DEF NextLoop, NextTurn, Loops
<1> QED
  BY <1>2, <1>3

LEMMA NewConnectionStep ==
    ASSUME ServerInv, NewConnection
    PROVE  ServerInv'
<1> USE DEF ServerInv, connVars, ownerVars
<1> DEFINE c == accepting
<1>1. /\ Moves(0, "accept", "events") /\ ~destroying
      /\ next' = NextTurn
      /\ connections' = connections \cup {c}
      /\ loopOf' = [loopOf EXCEPT ![c] = NextLoop]
      /\ IF NextLoop = 0 THEN UNCHANGED pending ELSE Queue(NextLoop, "establish", c)
      /\ phase' = [phase EXCEPT ![c] = IF NextLoop = 0 THEN "up" ELSE "made"]
      /\ accepting' = Acceptor
      /\ UNCHANGED <<threadNum, quit, batch, active, acceptor, eof, ownerVars, fault>>
  BY DEF NewConnection
<1>2. 0 \in Loops
  BY LimitsAssumption DEF Loops
<1>3. /\ pc' \in [Loops -> {"none", "enter", "poll", "events", "accept", "functors", "ended"}]
      /\ \A k \in Loops : pc'[k] = IF k = 0 THEN "events" ELSE pc[k]
      /\ pc[0] = "accept"
  BY <1>1, <1>2, MovesEffect
<1>4. c \in Conns /\ phase[c] = "accepted"
  BY <1>2, <1>3 DEF AcceptInv
<1> HIDE DEF c
<1>5. NextLoop \in Loops /\ [op |-> "establish", conn |-> c] \in Functor
  BY <1>4, NextLoopInRange DEF Functor
<1>6. /\ pending' \in [Loops -> Seq(Functor)]
      /\ \A k \in Loops : \/ Range(pending'[k]) = Range(pending[k])
                          \/ /\ k = NextLoop /\ NextLoop # 0
                             /\ Range(pending'[k]) =
                                   Range(pending[k]) \cup {[op |-> "establish", conn |-> c]}
  <2>1. CASE NextLoop = 0
    BY <1>1, <2>1 DEF TypeOK
  <2>2. CASE NextLoop # 0
    BY <1>1, <1>5, <2>2, QueueEffect
  <2> QED
    BY <2>1, <2>2
<1>7. /\ phase' \in [Conns -> {"none", "backlog", "accepted", "made", "up", "closed"}]
      /\ phase'[c] = IF NextLoop = 0 THEN "up" ELSE "made"
      /\ \A d \in Conns : d # c => phase'[d] = phase[d]
      /\ loopOf' \in [Conns -> Loops] /\ loopOf'[c] = NextLoop
      /\ \A d \in Conns : d # c => loopOf'[d] = loopOf[d]
  BY <1>1, <1>4, <1>5 DEF TypeOK
<1>8. TypeOK'
  <2>1. /\ IF threadNum' = 0 THEN next' = 0 ELSE next' \in 0..(threadNum' - 1)
        /\ accepting' \in Conns \cup {Acceptor} /\ connections' \subseteq Conns
    BY <1>1, <1>4, NextLoopInRange DEF TypeOK
  <2> QED
    BY <1>1, <1>3, <1>6, <1>7, <2>1 DEF TypeOK
<1>9. AcceptInv'
  BY <1>3 DEF AcceptInv
<1>10. FunctorInv'
  <2>1. connections' \subseteq {d \in Conns : phase'[d] \in {"made", "up", "closed"}}
    BY <1>1, <1>4, <1>7 DEF FunctorInv
  <2>2. ASSUME NEW k \in Loops, NEW f \in Functors(k)'
        PROVE  \/ f.op = "listen" /\ k = 0
               \/ /\ f.op \in {"establish", "remove", "destroy"}
                  /\ f.conn \in Conns /\ phase'[f.conn] \in {"made", "up", "closed"}
                  /\ k = IF f.op = "remove" THEN 0 ELSE loopOf'[f.conn]
    <3>1. f \in Functors(k) \/ (k = NextLoop /\ f = [op |-> "establish", conn |-> c])
      BY <1>1, <1>6 DEF Functors
    <3>2. CASE f \in Functors(k)
      BY <1>4, <1>7, <3>2 DEF FunctorInv
    <3>3. CASE k = NextLoop /\ f = [op |-> "establish", conn |-> c]
      BY <1>4, <1>7, <3>3
    <3> QED
      BY <3>1, <3>2, <3>3
  <2> QED
    BY <2>1, <2>2 DEF FunctorInv
<1>11. UpInv'
  <2> SUFFICES ASSUME NEW d \in Conns, phase'[d] = "up", d # c
               PROVE  d \in connections' \/ [op |-> "destroy", conn |-> d] \in Functors(loopOf[d])'
    BY <1>1, <1>4 DEF UpInv
  <2>1. phase[d] = "up" /\ loopOf'[d] = loopOf[d] /\ loopOf[d] \in Loops
    BY <1>7 DEF TypeOK
  <2>2. \A k \in Loops : Functors(k) \subseteq Functors(k)'
    BY <1>1, <1>6 DEF Functors
  <2>3. d \in connections \/ [op |-> "destroy", conn |-> d] \in Functors(loopOf[d])
    BY <1>1, <2>1 DEF UpInv
  <2> QED
    BY <1>1, <2>1, <2>2, <2>3 DEF Functors
<1>12. ActiveInv'
  <2> SUFFICES ASSUME NEW k \in Loops, NEW d \in active[k]
               PROVE  /\ pc'[k] \in {"events", "accept"}
                      /\ IF d = Acceptor THEN k = 0 ELSE loopOf'[d] = k /\ phase'[d] = "up"
    BY <1>1 DEF ActiveInv
  <2>1. d \in Conns \cup {Acceptor}
    BY DEF TypeOK
  <2> QED
    BY <1>1, <1>3, <1>4, <1>7, <2>1 DEF ActiveInv
<1>13. BatchInv' /\ FaultInv'
  BY <1>1, <1>3 DEF BatchInv, FaultInv
<1>14. PeaceInv'
  BY <1>1, <1>2, PeaceKept
<1> QED
  BY <1>8, <1>9, <1>10, <1>11, <1>12, <1>13, <1>14

\* removeConnectionInLoop: who leaves the map is destroyed in its own loop.
LEMMA RemoveEffect ==
    ASSUME TypeOK, NEW c \in Conns, RemoveInLoop(c)
    PROVE  /\ pending' \in [Loops -> Seq(Functor)] /\ connections' = connections \ {c}
           /\ \A k \in Loops :
                 \/ Range(pending'[k]) = Range(pending[k])
                 \/ /\ k = loopOf[c]
                    /\ Range(pending'[k]) = Range(pending[k]) \cup {[op |-> "destroy", conn |-> c]}
           /\ c \in connections => [op |-> "destroy", conn |-> c] \in Range(pending'[loopOf[c]])
<1>1. loopOf[c] \in Loops /\ [op |-> "destroy", conn |-> c] \in Functor
  BY DEF TypeOK, Functor
<1>2. CASE c \in connections
  <2>1. Queue(loopOf[c], "destroy", c) /\ connections' = connections \ {c}
    BY <1>2 DEF RemoveInLoop
  <2>2. /\ pending' \in [Loops -> Seq(Functor)]
        /\ \A k \in Loops : Range(pending'[k]) = IF k = loopOf[c]
              THEN Range(pending[k]) \cup {[op |-> "destroy", conn |-> c]} ELSE Range(pending[k])
    BY <1>1, <2>1, QueueEffect
  <2> QED
    BY <1>1, <2>1, <2>2
<1>3. CASE c \notin connections
  BY <1>3 DEF RemoveInLoop, TypeOK
<1> QED
  BY <1>2, <1>3

\* Queueing a removal, or a connectDestroyed for who leaves the map.
LEMMA RemovalKept ==
    ASSUME ServerInv, NEW c \in Conns, phase[c] \in {"made", "up", "closed"},
           UNCHANGED <<phase, loopOf, destroying>>,
           connections' \in {connections, connections \ {c}},
           \A k \in Loops : \A f \in Functors(k)' :
              \/ f \in Functors(k)
              \/ f = [op |-> "destroy", conn |-> c] /\ k = loopOf[c]
              \/ f = [op |-> "remove", conn |-> c] /\ k = 0,
           \A k \in Loops : \A f \in Functors(k) : f.op = "destroy" => f \in Functors(k)',
           c \in connections /\ c \notin connections' =>
              \E k \in Loops : k = loopOf[c] /\ [op |-> "destroy", conn |-> c] \in Functors(k)'
    PROVE  FunctorInv' /\ UpInv'
<1> USE DEF ServerInv
<1>1. FunctorInv'
  <2>1. connections' \subseteq {d \in Conns : phase'[d] \in {"made", "up", "closed"}}
    BY DEF FunctorInv
  <2>2. ASSUME NEW k \in Loops, NEW f \in Functors(k)'
        PROVE  \/ f.op = "listen" /\ k = 0
               \/ /\ f.op \in {"establish", "remove", "destroy"}
                  /\ f.conn \in Conns /\ phase'[f.conn] \in {"made", "up", "closed"}
                  /\ k = IF f.op = "remove" THEN 0 ELSE loopOf'[f.conn]
    <3>1. CASE f \in Functors(k)
      BY <3>1 DEF FunctorInv
    <3>2. CASE f = [op |-> "destroy", conn |-> c] /\ k = loopOf[c]
      BY <3>2
    <3>3. CASE f = [op |-> "remove", conn |-> c] /\ k = 0
      BY <3>3
    <3> QED
      BY <3>1, <3>2, <3>3
  <2> QED
    BY <2>1, <2>2 DEF FunctorInv
<1>2. UpInv'
  <2> SUFFICES ASSUME ~destroying, NEW d \in Conns, phase[d] = "up", d \notin connections'
               PROVE  [op |-> "destroy", conn |-> d] \in Functors(loopOf[d])'
    BY DEF UpInv
  <2>1. loopOf[d] \in Loops
    BY DEF TypeOK
  <2>2. PICK k \in Loops : k = loopOf[d] /\ [op |-> "destroy", conn |-> d] \in Functors(k)'
    <3>1. CASE d \in connections
      BY <3>1
    <3>2. CASE d \notin connections
      BY <2>1, <3>2 DEF UpInv
    <3> QED
      BY <3>1, <3>2
  <2> QED
    BY <2>2 DEF Functors
<1> QED
  BY <1>1, <1>2

LEMMA HandleCloseStep ==
    ASSUME ServerInv, NEW l \in Loops, NEW c \in Conns, HandleClose(l, c)
    PROVE  ServerInv'
<1> USE DEF ServerInv, ownerVars
<1>1. /\ Moves(l, "events", "events") /\ c \in active[l]
      /\ active' = [active EXCEPT ![l] = active[l] \ {c}]
      /\ ~destroying
      /\ IF l = 0 THEN RemoveInLoop(c)
         ELSE /\ Queue(0, "remove", c) \/ UNCHANGED pending
              /\ UNCHANGED connections
      /\ UNCHANGED <<threadNum, next, quit, batch, accepting, acceptor, phase, loopOf, eof, ownerVars,
                     fault>>
  BY DEF HandleClose, Handling
<1>2. pc' = pc
  BY <1>1 DEF Moves, TypeOK
<1>3. phase[c] = "up" /\ 0 \in Loops
  BY <1>1, LimitsAssumption DEF ActiveInv, Conns, Acceptor, Loops
<1>4. /\ pending' \in [Loops -> Seq(Functor)]
      /\ connections' \in {connections, connections \ {c}}
      /\ \A k \in Loops : Range(pending[k]) \subseteq Range(pending'[k])
      /\ \A k \in Loops : \A f \in Range(pending'[k]) :
            \/ f \in Range(pending[k])
            \/ f = [op |-> "destroy", conn |-> c] /\ k = loopOf[c]
            \/ f = [op |-> "remove", conn |-> c] /\ k = 0
      /\ c \in connections /\ c \notin connections' =>
            [op |-> "destroy", conn |-> c] \in Range(pending'[loopOf[c]])
  <2>1. CASE l = 0
    <3>1. /\ pending' \in [Loops -> Seq(Functor)] /\ connections' = connections \ {c}
          /\ \A k \in Loops :
                \/ Range(pending'[k]) = Range(pending[k])
                \/ /\ k = loopOf[c]
                   /\ Range(pending'[k]) = Range(pending[k]) \cup {[op |-> "destroy", conn |-> c]}
          /\ c \in connections => [op |-> "destroy", conn |-> c] \in Range(pending'[loopOf[c]])
      BY <1>1, <2>1, RemoveEffect
    <3> QED
      BY <3>1
  <2>2. CASE l # 0 /\ Queue(0, "remove", c)
    <3>1. [op |-> "remove", conn |-> c] \in Functor
      BY DEF Functor
    <3>2. /\ pending' \in [Loops -> Seq(Functor)]
          /\ \A k \in Loops : Range(pending'[k]) = IF k = 0
                THEN Range(pending[k]) \cup {[op |-> "remove", conn |-> c]} ELSE Range(pending[k])
      BY <1>3, <2>2, <3>1, QueueEffect
    <3> QED
      BY <1>1, <2>2, <3>2
  <2>3. CASE l # 0 /\ UNCHANGED pending
    BY <1>1, <2>3 DEF TypeOK
  <2> QED
    BY <1>1, <2>1, <2>2, <2>3
<1>5. \A k \in Loops : active'[k] \subseteq active[k]
  BY <1>1 DEF TypeOK
<1>6. TypeOK'
  BY <1>1, <1>2, <1>4, <1>5 DEF TypeOK
<1>7. AcceptInv' /\ BatchInv' /\ FaultInv' /\ ActiveInv'
  BY <1>1, <1>2, <1>5 DEF AcceptInv, BatchInv, FaultInv, ActiveInv
<1>8. PeaceInv'
  <2>1. OpenConns' = OpenConns
    BY <1>1 DEF OpenConns
  <2> QED
    BY <1>1, <2>1, PeaceKept
<1>9. FunctorInv' /\ UpInv'
  <2>1. loopOf[c] \in Loops
    BY DEF TypeOK
  <2>2. /\ \A k \in Loops : \A f \in Functors(k)' :
              \/ f \in Functors(k)
              \/ f = [op |-> "destroy", conn |-> c] /\ k = loopOf[c]
              \/ f = [op |-> "remove", conn |-> c] /\ k = 0
        /\ \A k \in Loops : \A f \in Functors(k) : f.op = "destroy" => f \in Functors(k)'
        /\ c \in connections /\ c \notin connections' =>
              \E k \in Loops : k = loopOf[c] /\ [op |-> "destroy", conn |-> c] \in Functors(k)'
    BY <1>1, <1>4, <2>1 DEF Functors
  <2> QED
    BY <1>1, <1>3, <1>4, <2>2, RemovalKept
<1> QED
  BY <1>6, <1>7, <1>8, <1>9

-----------------------------------------------------------------------------
(* The functors.                                                           *)

LEMMA SwapFunctorsStep ==
    ASSUME ServerInv, NEW l \in Loops, SwapFunctors(l)
    PROVE  ServerInv'
<1> USE DEF ServerInv, connVars, ownerVars
<1>1. /\ Moves(l, "events", "functors") /\ active[l] = {}
      /\ batch' = [batch EXCEPT ![l] = pending[l]]
      /\ pending' = [pending EXCEPT ![l] = <<>>]
      /\ UNCHANGED <<threadNum, next, quit, active, accepting, acceptor, connVars, ownerVars, fault>>
  BY DEF SwapFunctors
<1>2. /\ pc' \in [Loops -> {"none", "enter", "poll", "events", "accept", "functors", "ended"}]
      /\ \A k \in Loops : pc'[k] = IF k = l THEN "functors" ELSE pc[k]
      /\ pc[l] = "events"
  BY <1>1, MovesEffect
<1>3. /\ pending' \in [Loops -> Seq(Functor)] /\ batch' \in [Loops -> Seq(Functor)]
      /\ pending'[l] = <<>> /\ batch'[l] = pending[l] /\ batch[l] = <<>>
      /\ \A k \in Loops : k # l => pending'[k] = pending[k] /\ batch'[k] = batch[k]
  <2>1. <<>> \in Seq(Functor)
    OBVIOUS
  <2> QED
    BY <1>1, <1>2, <2>1 DEF TypeOK, BatchInv
<1>4. \A k \in Loops : Functors(k)' = Functors(k)
  <2>1. Range(pending'[l]) \cup Range(batch'[l]) = Range(pending[l]) \cup Range(batch[l])
    BY <1>3
  <2> QED
    BY <1>3, <2>1 DEF Functors
<1>5. TypeOK'
  BY <1>1, <1>2, <1>3 DEF TypeOK
<1>6. AcceptInv' /\ BatchInv' /\ FaultInv' /\ ActiveInv'
  BY <1>1, <1>2, <1>3 DEF AcceptInv, BatchInv, FaultInv, ActiveInv
<1>7. PeaceInv'
  <2>1. OpenConns' = OpenConns
    BY <1>1 DEF OpenConns
  <2> QED
    BY <1>1, <2>1, PeaceKept
<1>8. FunctorInv'
  BY <1>1, <1>4 DEF FunctorInv
<1>9. UpInv'
  BY <1>1, <1>4 DEF UpInv, TypeOK, Functors
<1> QED
  BY <1>5, <1>6, <1>7, <1>8, <1>9

LEMMA RunListenStep ==
    ASSUME ServerInv, RunListen
    PROVE  ServerInv'
<1> USE DEF ServerInv, connVars, ownerVars
<1>1. /\ Running(0, "listen") /\ acceptor' = "listening"
      /\ UNCHANGED <<threadNum, next, quit, pending, active, accepting, connVars, ownerVars, fault>>
  BY DEF RunListen, Running
<1>2. 0 \in Loops
  BY LimitsAssumption DEF Loops
<1>3. /\ batch' \in [Loops -> Seq(Functor)]
      /\ Head(batch[0]) \in Functor /\ Head(batch[0]).op = "listen"
      /\ \A k \in Loops : Range(batch[k]) =
            IF k = 0 THEN Range(batch'[k]) \cup {Head(batch[0])} ELSE Range(batch'[k])
      /\ pc[0] = "functors" /\ pc' = pc
  BY <1>1, <1>2, RunningEffect
<1>4. TypeOK'
  BY <1>1, <1>3 DEF TypeOK
<1>5. AcceptInv' /\ FaultInv' /\ ActiveInv'
  BY <1>1, <1>3 DEF AcceptInv, FaultInv, ActiveInv
<1>6. BatchInv'
  BY <1>1, <1>3 DEF BatchInv, Running, TypeOK
<1>7. PeaceInv'
  BY <1>1, <1>2, PeaceKept DEF Running
<1>8. /\ \A k \in Loops : Functors(k)' \subseteq Functors(k)
      /\ \A k \in Loops : \A f \in Functors(k) : f.op = "destroy" => f \in Functors(k)'
  BY <1>1, <1>3 DEF Functors
<1>9. FunctorInv'
  BY <1>1, <1>8 DEF FunctorInv
<1>10. UpInv'
  BY <1>1, <1>8 DEF UpInv, TypeOK, Functors
<1> QED
  BY <1>4, <1>5, <1>6, <1>7, <1>9, <1>10

LEMMA RunRemoveStep ==
    ASSUME ServerInv, RunRemove
    PROVE  ServerInv'
<1> USE DEF ServerInv, ownerVars
<1> DEFINE c == Head(batch[0]).conn
<1>1. /\ Running(0, "remove") /\ ~destroying /\ RemoveInLoop(c)
      /\ UNCHANGED <<threadNum, next, quit, active, accepting, acceptor, phase, loopOf, eof, ownerVars,
                     fault>>
  BY DEF RunRemove, Running
<1>2. 0 \in Loops
  BY LimitsAssumption DEF Loops
<1>3. /\ batch' \in [Loops -> Seq(Functor)]
      /\ Head(batch[0]).op = "remove" /\ Head(batch[0]) \in Functors(0)
      /\ \A k \in Loops : Range(batch[k]) =
            IF k = 0 THEN Range(batch'[k]) \cup {Head(batch[0])} ELSE Range(batch'[k])
      /\ pc[0] = "functors" /\ pc' = pc
  BY <1>1, <1>2, RunningEffect
<1>4. c \in Conns /\ phase[c] \in {"made", "up", "closed"}
  BY <1>2, <1>3 DEF FunctorInv
<1> HIDE DEF c
<1>5. /\ pending' \in [Loops -> Seq(Functor)] /\ connections' = connections \ {c}
      /\ \A k \in Loops :
            \/ Range(pending'[k]) = Range(pending[k])
            \/ /\ k = loopOf[c]
               /\ Range(pending'[k]) = Range(pending[k]) \cup {[op |-> "destroy", conn |-> c]}
      /\ c \in connections => [op |-> "destroy", conn |-> c] \in Range(pending'[loopOf[c]])
  BY <1>1, <1>4, RemoveEffect
<1>6. TypeOK'
  BY <1>1, <1>3, <1>5 DEF TypeOK
<1>7. AcceptInv' /\ FaultInv' /\ ActiveInv'
  BY <1>1, <1>3 DEF AcceptInv, FaultInv, ActiveInv
<1>8. BatchInv'
  BY <1>1, <1>3 DEF BatchInv, Running, TypeOK
<1>9. PeaceInv'
  BY <1>1, <1>2, PeaceKept DEF Running
<1>10. FunctorInv' /\ UpInv'
  <2>1. loopOf[c] \in Loops
    BY <1>4 DEF TypeOK
  <2>2. /\ \A k \in Loops : \A f \in Functors(k)' :
              \/ f \in Functors(k)
              \/ f = [op |-> "destroy", conn |-> c] /\ k = loopOf[c]
        /\ \A k \in Loops : \A f \in Functors(k) : f.op = "destroy" => f \in Functors(k)'
    BY <1>3, <1>5 DEF Functors
  <2>3. c \in connections /\ c \notin connections' =>
           \E k \in Loops : k = loopOf[c] /\ [op |-> "destroy", conn |-> c] \in Functors(k)'
    BY <1>5, <2>1 DEF Functors
  <2> QED
    BY <1>1, <1>4, <1>5, <2>2, <2>3, RemovalKept
<1> QED
  BY <1>6, <1>7, <1>8, <1>9, <1>10

\* connectEstablished and connectDestroyed: c is up or closed afterwards, up
\* only in the map; its loop has no event of it at hand.
LEMMA PhaseStep ==
    ASSUME ServerInv, NEW l \in Loops, NEW op \in {"establish", "destroy"}, Running(l, op),
           NEW p \in {"up", "closed"},
           phase' = [phase EXCEPT ![Head(batch[l]).conn] = p],
           p = "up" => op = "establish" /\ ~destroying /\ Head(batch[l]).conn \in connections,
           UNCHANGED <<pending, acceptor, connections>>
    PROVE  ServerInv'
<1> USE DEF ServerInv, ownerVars
<1> DEFINE c == Head(batch[l]).conn
<1>1. /\ UNCHANGED <<threadNum, next, quit, pending, active, accepting, acceptor, loopOf, eof,
                     connections, ownerVars, fault>>
      /\ Moves(l, "functors", "functors")
      /\ \A k \in Loops : k # l => batch'[k] = batch[k]
  BY DEF Running, TypeOK
<1>2. /\ batch' \in [Loops -> Seq(Functor)]
      /\ Head(batch[l]).op = op /\ Head(batch[l]) \in Functors(l) /\ Head(batch[l]) \in Functor
      /\ \A k \in Loops : Range(batch[k]) =
            IF k = l THEN Range(batch'[k]) \cup {Head(batch[l])} ELSE Range(batch'[k])
      /\ pc[l] = "functors" /\ pc' = pc
  BY RunningEffect
<1>3. c \in Conns /\ phase[c] \in {"made", "up", "closed"} /\ loopOf[c] = l
  BY <1>2 DEF FunctorInv
<1>4. /\ p = "up" => op = "establish" /\ c \in connections
      /\ \A d \in Conns : phase'[d] = IF d = c THEN p ELSE phase[d]
  BY <1>3 DEF TypeOK
<1>5. Head(batch[l]) = [op |-> op, conn |-> c]
  BY <1>2 DEF Functor
<1>6. phase' \in [Conns -> {"none", "backlog", "accepted", "made", "up", "closed"}]
  BY <1>3 DEF TypeOK
<1> HIDE DEF c
<1>7. TypeOK'
  BY <1>1, <1>2, <1>6 DEF TypeOK
<1>8. AcceptInv' /\ BatchInv' /\ FaultInv'
  BY <1>1, <1>2, <1>3, <1>4 DEF AcceptInv, BatchInv, FaultInv
<1>9. ActiveInv'
  <2> SUFFICES ASSUME NEW k \in Loops, NEW d \in active[k]
               PROVE  /\ pc[k] \in {"events", "accept"}
                      /\ IF d = Acceptor THEN k = 0
                         ELSE loopOf[d] = k /\ (phase'[d] = "up" \/ (destroying /\ hasty))
    BY <1>1, <1>2 DEF ActiveInv
  <2>1. d \in Conns \cup {Acceptor}
    BY DEF TypeOK
  <2>2. d # Acceptor => d # c
    BY <1>2, <1>3 DEF ActiveInv
  <2> QED
    BY <1>4, <2>1, <2>2 DEF ActiveInv
<1>10. /\ \A k \in Loops : Functors(k)' \subseteq Functors(k)
       /\ \A k \in Loops : \A f \in Functors(k) : f.conn # c => f \in Functors(k)'
  <2>1. Head(batch[l]).conn = c
    BY <1>5
  <2> QED
    BY <1>1, <1>2, <2>1 DEF Functors
<1>11. FunctorInv'
  BY <1>1, <1>3, <1>4, <1>10 DEF FunctorInv
<1>12. UpInv'
  <2> SUFFICES ASSUME ~destroying, NEW d \in Conns, phase'[d] = "up", d \notin connections
               PROVE  [op |-> "destroy", conn |-> d] \in Functors(loopOf[d])'
    BY <1>1 DEF UpInv
  <2>1. d # c /\ phase[d] = "up" /\ loopOf[d] \in Loops
    BY <1>4 DEF TypeOK
  <2>2. [op |-> "destroy", conn |-> d] \in Functors(loopOf[d])
    BY <2>1 DEF UpInv
  <2> QED
    BY <1>1, <1>10, <2>1, <2>2 DEF Functors
<1>13. PeaceInv'
  <2>1. destroying => OpenConns' \subseteq OpenConns
    BY <1>4 DEF PeaceInv, OpenConns
  <2> QED
    BY <1>1, <2>1, PeaceKept
<1> QED
  BY <1>7, <1>8, <1>9, <1>11, <1>12, <1>13

LEMMA RunEstablishStep ==
    ASSUME ServerOnceInv, NEW l \in Loops, RunEstablish(l)
    PROVE  ServerInv'
<1> USE DEF ServerOnceInv, ServerInv
<1>1. /\ Running(l, "establish") /\ ~destroying /\ UNCHANGED <<pending, acceptor, connections>>
      /\ phase' = [phase EXCEPT ![Head(batch[l]).conn] = "up"]
  BY DEF RunEstablish
<1>2. Head(batch[l]).op = "establish" /\ Head(batch[l]) \in Functors(l)
  BY <1>1, RunningEffect
<1>3. Head(batch[l]).conn \in Conns /\ phase[Head(batch[l]).conn] = "made"
  BY <1>2 DEF FunctorInv, OnceInv
<1>4. Head(batch[l]).conn \in connections
  BY <1>1, <1>3 DEF MadeInv
<1> QED
  BY <1>1, <1>4, PhaseStep

LEMMA RunDestroyStep ==
    ASSUME ServerInv, NEW l \in Loops, RunDestroy(l)
    PROVE  ServerInv'
<1>1. /\ Running(l, "destroy") /\ UNCHANGED <<pending, acceptor, connections>>
      /\ phase' = [phase EXCEPT ![Head(batch[l]).conn] = "closed"]
  BY DEF RunDestroy
<1> QED
  BY <1>1, PhaseStep

-----------------------------------------------------------------------------
(* What a loop uses.                                                       *)

\* Until the destructor every connection that is up has an owner.
LEMMA UpIsAlive ==
    ASSUME ServerInv, ~destroying, NEW c \in Conns, phase[c] = "up"
    PROVE  Alive(c)
<1>1. CASE c \in connections
  BY <1>1 DEF Alive
<1>2. CASE c \notin connections
  <2>1. loopOf[c] \in Loops /\ [op |-> "destroy", conn |-> c] \in Functors(loopOf[c])
    BY <1>2 DEF ServerInv, UpInv, TypeOK
  <2> QED
    BY <2>1 DEF Alive, Held, Functors
<1> QED
  BY <1>1, <1>2

LEMMA DestroyedIsHasty ==
    ASSUME ServerOnceInv, NEW l \in Loops, Destroyed(l) \in {"connection", "server"}
    PROVE  hasty
<1> USE DEF ServerOnceInv, ServerInv
<1> SUFFICES ASSUME ~hasty PROVE FALSE
  OBVIOUS
<1>1. \A c \in active[l] : c # Acceptor => c \in Conns /\ phase[c] = "up"
  BY DEF ActiveInv, TypeOK
<1>2. CASE Destroyed(l) = "connection"
  <2>1. PICK c \in active[l] \cap Conns : ~Alive(c)
    BY <1>2 DEF Destroyed
  <2>2. phase[c] = "up"
    BY <1>1, <2>1 DEF Conns, Acceptor
  <2>3. CASE ~destroying
    BY <2>1, <2>2, <2>3, UpIsAlive
  <2>4. CASE destroying
    BY <2>2, <2>4 DEF PeaceInv, OpenConns
  <2> QED
    BY <2>3, <2>4
<1>3. CASE Destroyed(l) = "server"
  <2>1. /\ destroying
        /\ \/ pc[l] = "accept" \/ (pc[l] = "events" /\ active[l] # {})
           \/ pc[l] = "functors" /\ batch[l] # <<>> /\ Head(batch[l]).op \in {"establish", "remove"}
    BY <1>3 DEF Destroyed
  <2>2. pc[0] \in {"none", "ended"} /\ OpenConns = {}
    BY <2>1 DEF PeaceInv
  <2>3. l = 0
    <3>1. CASE pc[l] = "accept"
      BY <3>1 DEF AcceptInv
    <3>2. CASE pc[l] = "events" /\ active[l] # {}
      <4>1. PICK c : c \in active[l]
        BY <3>2
      <4>2. c = Acceptor
        BY <1>1, <2>2, <4>1 DEF OpenConns
      <4> QED
        BY <4>1, <4>2 DEF ActiveInv
    <3>3. CASE pc[l] = "functors" /\ batch[l] # <<>> /\ Head(batch[l]).op \in {"establish", "remove"}
      <4>1. Head(batch[l]) \in Functors(l)
        <5>1. Head(batch[l]) \in Range(batch[l])
          BY <3>3, HeadTailRange DEF TypeOK
        <5> QED
          BY <5>1 DEF Functors
      <4>2. Head(batch[l]).op # "establish"
        <5> SUFFICES ASSUME Head(batch[l]).op = "establish" PROVE FALSE
          OBVIOUS
        <5>1. Head(batch[l]).conn \in Conns /\ phase[Head(batch[l]).conn] = "made"
          BY <4>1 DEF FunctorInv, OnceInv
        <5> QED
          BY <2>2, <5>1 DEF OpenConns
      <4> QED
        BY <3>3, <4>1, <4>2 DEF FunctorInv
    <3> QED
      BY <2>1, <3>1, <3>2, <3>3
  <2> QED
    BY <2>1, <2>2, <2>3
<1> QED
  BY <1>2, <1>3

LEMMA UseDestroyedStep ==
    ASSUME ServerOnceInv, NEW l \in Loops, UseDestroyed(l)
    PROVE  ServerInv'
<1> USE DEF ServerOnceInv, ServerInv, loopVars, connVars, ownerVars
<1>1. /\ fault' = Destroyed(l)
      /\ UNCHANGED <<threadNum, next, loopVars, accepting, acceptor, connVars, ownerVars>>
  BY DEF UseDestroyed
<1>2. fault' \in {"none", "acceptor", "server", "connection"}
  BY <1>1 DEF Destroyed
<1>3. TypeOK'
  BY <1>1, <1>2 DEF TypeOK
<1>4. FaultInv'
  <2>1. fault' \in {"connection", "server"} => hasty
    BY <1>1, DestroyedIsHasty
  <2> QED
    BY <1>1, <2>1 DEF FaultInv
<1>5. AcceptInv' /\ FunctorInv' /\ UpInv' /\ ActiveInv' /\ BatchInv'
  BY <1>1 DEF AcceptInv, FunctorInv, UpInv, ActiveInv, BatchInv, Functors
<1>6. PeaceInv'
  <2>1. OpenConns' = OpenConns
    BY <1>1 DEF OpenConns
  <2> QED
    BY <1>1, <2>1 DEF PeaceInv
<1> QED
  BY <1>3, <1>4, <1>5, <1>6

-----------------------------------------------------------------------------

LEMMA InitServerInv == Init => ServerInv
<1> SUFFICES ASSUME Init PROVE ServerInv
  OBVIOUS
<1> USE LimitsAssumption DEF Init
<1>1. 0 \in Loops /\ \A l \in Loops : Functors(l) = {}
  BY DEF Loops, Functors, Range
<1>2. TypeOK
  <2>1. <<>> \in Seq(Functor)
    OBVIOUS
  <2>2. threadNum \in Loops /\ (IF threadNum = 0 THEN next = 0 ELSE next \in 0..(threadNum - 1))
    BY DEF Loops
  <2>3. /\ {pending, batch} \subseteq [Loops -> Seq(Functor)]
        /\ active \in [Loops -> SUBSET (Conns \cup {Acceptor})] /\ quit \in [Loops -> BOOLEAN]
        /\ pc \in [Loops -> {"none", "enter", "poll", "events", "accept", "functors", "ended"}]
    BY <2>1
  <2>4. phase \in [Conns -> {"none", "backlog", "accepted", "made", "up", "closed"}]
        /\ loopOf \in [Conns -> Loops] /\ victim \in Loops
    BY <1>1
  <2> QED
    BY <2>2, <2>3, <2>4 DEF TypeOK
<1>3. AcceptInv /\ FunctorInv /\ UpInv /\ ActiveInv /\ BatchInv /\ PeaceInv /\ FaultInv
  BY <1>1 DEF AcceptInv, FunctorInv, UpInv, ActiveInv, BatchInv, PeaceInv, FaultInv
<1> QED
  BY <1>2, <1>3 DEF ServerInv

LEMMA NextServerInv == ServerOnceInv /\ [Next]_vars => ServerInv'
<1> SUFFICES ASSUME ServerOnceInv, [Next]_vars PROVE ServerInv'
  OBVIOUS
<1>0. ServerInv
  BY DEF ServerOnceInv
<1>1. ASSUME NEW l \in Loops, LoopStep(l) PROVE ServerInv'
  <2>1. CASE EnterLoop(l) \/ Poll(l) \/ SwapFunctors(l) \/ FinishFunctors(l)
    BY <1>0, <2>1, EnterLoopStep, PollStep, SwapFunctorsStep, FinishFunctorsStep
  <2>2. CASE (\E c \in Conns : HandleClose(l, c)) \/ RunEstablish(l) \/ RunDestroy(l) \/ UseDestroyed(l)
    BY <1>0, <2>2, HandleCloseStep, RunEstablishStep, RunDestroyStep, UseDestroyedStep
  <2>3. CASE NoDescriptor \/ NewConnection \/ RunListen \/ RunRemove \/ \E c \in Conns : Accept(c)
    BY <1>0, <2>3, NoDescriptorStep, NewConnectionStep, RunListenStep, RunRemoveStep, AcceptStep
  <2> QED
    BY <1>1, <2>1, <2>2, <2>3 DEF LoopStep
<1>2. CASE OwnerStep
  BY <1>0, <1>2, StartStep, DropConnectionsStep, StoppingStep DEF OwnerStep
<1>3. ASSUME NEW c \in Conns, Connect(c) \/ Close(c) PROVE ServerInv'
  BY <1>0, <1>3, PeerStep
<1>4. CASE UNCHANGED vars
  BY <1>0, <1>4 DEF vars, loopVars, connVars, ownerVars, ServerInv, TypeOK, AcceptInv, FunctorInv, UpInv,
     ActiveInv, BatchInv, PeaceInv, FaultInv, Functors, OpenConns
<1> QED
  BY <1>1, <1>2, <1>3, <1>4 DEF Next

-----------------------------------------------------------------------------
(* A connection lives once, in the map until it has been established.      *)

\* Queues.
LEMMA ConcatAppend ==
    ASSUME NEW S, NEW b \in Seq(S), NEW p \in Seq(S), NEW e \in S
    PROVE  b \o Append(p, e) = Append(b \o p, e)
<1>1. Append(p, e) = p \o <<e>> /\ <<e>> \in Seq(S) /\ b \o p \in Seq(S)
  BY AppendIsConcat, ConcatProperties
<1>2. b \o (p \o <<e>>) = (b \o p) \o <<e>>
  BY <1>1, ConcatAssociative
<1>3. Append(b \o p, e) = (b \o p) \o <<e>>
  BY <1>1, AppendIsConcat
<1> QED
  BY <1>1, <1>2, <1>3

LEMMA ConcatTail ==
    ASSUME NEW S, NEW b \in Seq(S), NEW p \in Seq(S), b # <<>>
    PROVE  /\ b \o p # <<>> /\ Head(b \o p) = Head(b)
           /\ Tail(b) \o p = Tail(b \o p)
<1>1. /\ b \o p \in Seq(S) /\ Len(b \o p) = Len(b) + Len(p) /\ Len(b) \in Nat \ {0} /\ Len(p) \in Nat
      /\ \A i \in 1..Len(b) + Len(p) : (b \o p)[i] = IF i <= Len(b) THEN b[i] ELSE p[i - Len(b)]
  BY ConcatProperties, LenProperties, EmptySeq
<1>2. b \o p # <<>>
  BY <1>1, EmptySeq
<1>3. /\ Tail(b) \in Seq(S) /\ Len(Tail(b)) = Len(b) - 1
      /\ \A i \in 1..Len(Tail(b)) : Tail(b)[i] = b[i + 1]
  BY HeadTailProperties
<1>4. /\ Tail(b \o p) \in Seq(S) /\ Len(Tail(b \o p)) = Len(b) + Len(p) - 1
      /\ \A i \in 1..Len(Tail(b \o p)) : Tail(b \o p)[i] = (b \o p)[i + 1]
  BY <1>1, <1>2, HeadTailProperties
<1>5. /\ Tail(b) \o p \in Seq(S) /\ Len(Tail(b) \o p) = Len(b) + Len(p) - 1
      /\ \A i \in 1..Len(Tail(b)) + Len(p) : (Tail(b) \o p)[i] =
            IF i <= Len(Tail(b)) THEN Tail(b)[i] ELSE p[i - Len(Tail(b))]
  BY <1>1, <1>3, ConcatProperties
<1>6. ASSUME NEW i \in 1..Len(b) + Len(p) - 1 PROVE (Tail(b) \o p)[i] = Tail(b \o p)[i]
  <2>1. CASE i <= Len(b) - 1
    BY <1>1, <1>3, <1>4, <1>5, <2>1
  <2>2. CASE i > Len(b) - 1
    <3>1. i - (Len(b) - 1) = (i + 1) - Len(b) /\ ~(i + 1 <= Len(b)) /\ i + 1 \in 1..Len(b) + Len(p)
      BY <1>1, <2>2
    <3> QED
      BY <1>1, <1>3, <1>4, <1>5, <2>2, <3>1
  <2> QED
    BY <1>1, <2>1, <2>2
<1>7. Tail(b) \o p = Tail(b \o p)
  BY <1>4, <1>5, <1>6, SeqEqual
<1>8. Head(b \o p) = Head(b)
  BY <1>1
<1> QED
  BY <1>2, <1>7, <1>8

LEMMA ConcatRange ==
    ASSUME NEW S, NEW b \in Seq(S), NEW p \in Seq(S)
    PROVE  b \o p \in Seq(S) /\ Range(b \o p) = Range(b) \cup Range(p)
<1>1. /\ b \o p \in Seq(S) /\ Len(b \o p) = Len(b) + Len(p) /\ Len(b) \in Nat /\ Len(p) \in Nat
      /\ \A i \in 1..Len(b) + Len(p) : (b \o p)[i] = IF i <= Len(b) THEN b[i] ELSE p[i - Len(b)]
  BY ConcatProperties, LenProperties
<1>2. DOMAIN b = 1..Len(b) /\ DOMAIN p = 1..Len(p) /\ DOMAIN (b \o p) = 1..Len(b) + Len(p)
  BY <1>1, LenProperties
<1>3. Range(b \o p) \subseteq Range(b) \cup Range(p)
  <2> SUFFICES ASSUME NEW i \in 1..Len(b) + Len(p) PROVE (b \o p)[i] \in Range(b) \cup Range(p)
    BY <1>2 DEF Range
  <2>1. CASE i <= Len(b)
    BY <1>1, <1>2, <2>1 DEF Range
  <2>2. CASE i > Len(b)
    <3>1. i - Len(b) \in 1..Len(p)
      BY <1>1, <2>2
    <3> QED
      BY <1>1, <1>2, <2>2, <3>1 DEF Range
  <2> QED
    BY <1>1, <2>1, <2>2
<1>4. Range(b) \subseteq Range(b \o p)
  BY <1>1, <1>2 DEF Range
<1>5. ASSUME NEW i \in 1..Len(p) PROVE p[i] \in Range(b \o p)
  <2>1. Len(b) + i \in 1..Len(b) + Len(p) /\ (b \o p)[Len(b) + i] = p[i]
    BY <1>1
  <2> QED
    BY <1>2, <2>1 DEF Range
<1>6. Range(p) \subseteq Range(b \o p)
  BY <1>2, <1>5 DEF Range
<1> QED
  BY <1>1, <1>3, <1>4, <1>6

LEMMA WorkRange ==
    ASSUME TypeOK, NEW l \in Loops
    PROVE  Work(l) \in Seq(Functor) /\ Range(Work(l)) = Functors(l)
<1>1. batch[l] \in Seq(Functor) /\ pending[l] \in Seq(Functor)
  BY DEF TypeOK
<1>2. batch[l] \o pending[l] \in Seq(Functor)
      /\ Range(batch[l] \o pending[l]) = Range(batch[l]) \cup Range(pending[l])
  BY <1>1, ConcatRange
<1>3. Range(batch[l]) \cup Range(pending[l]) = Functors(l)
  BY DEF Functors
<1> QED
  BY <1>2, <1>3 DEF Work

LEMMA SingleAppend ==
    ASSUME NEW q \in Seq(Functor), NEW f \in Functor, Single(q),
           f.op \in {"establish", "destroy"} => f \notin Range(q)
    PROVE  Single(Append(q, f))
<1>1. /\ DOMAIN q = 1..Len(q) /\ DOMAIN Append(q, f) = 1..Len(q) + 1 /\ Len(q) \in Nat
      /\ \A i \in 1..Len(q) : Append(q, f)[i] = q[i]
      /\ Append(q, f)[Len(q) + 1] = f
  BY AppendProperties, LenProperties
<1> SUFFICES ASSUME NEW i \in 1..Len(q) + 1, NEW j \in 1..Len(q) + 1,
                    Append(q, f)[i].op \in {"establish", "destroy"}, Append(q, f)[i] = Append(q, f)[j]
             PROVE  i = j
  BY <1>1 DEF Single
<1>2. CASE i # Len(q) + 1 /\ j # Len(q) + 1
  BY <1>1, <1>2 DEF Single
<1>3. CASE i = Len(q) + 1 \/ j = Len(q) + 1
  BY <1>1, <1>3 DEF Range
<1> QED
  BY <1>2, <1>3

LEMMA SingleTail ==
    ASSUME NEW q \in Seq(Functor), q # <<>>, Single(q)
    PROVE  /\ Single(Tail(q))
           /\ Head(q).op \in {"establish", "destroy"} => Head(q) \notin Range(Tail(q))
<1>1. /\ DOMAIN q = 1..Len(q) /\ DOMAIN Tail(q) = 1..Len(q) - 1 /\ Len(q) \in Nat \ {0} /\ Head(q) = q[1]
      /\ \A i \in 1..Len(q) - 1 : Tail(q)[i] = q[i + 1] /\ i + 1 \in 1..Len(q)
  BY HeadTailProperties, LenProperties, EmptySeq
<1>2. Single(Tail(q))
  <2> SUFFICES ASSUME NEW i \in 1..Len(q) - 1, NEW j \in 1..Len(q) - 1,
                      q[i + 1].op \in {"establish", "destroy"}, q[i + 1] = q[j + 1]
               PROVE  i = j
    BY <1>1 DEF Single
  <2>1. i + 1 = j + 1
    BY <1>1 DEF Single
  <2> QED
    BY <2>1
<1>3. ASSUME Head(q).op \in {"establish", "destroy"}, NEW i \in 1..Len(q) - 1, Tail(q)[i] = Head(q)
      PROVE  FALSE
  <2>1. i + 1 = 1
    BY <1>1, <1>3 DEF Single
  <2> QED
    BY <2>1
<1> QED
  BY <1>1, <1>2, <1>3 DEF Range

\* queueInLoop behind whatever batch has become.
LEMMA QueueSingle ==
    ASSUME TypeOK, NEW l \in Loops, NEW op, NEW c, [op |-> op, conn |-> c] \in Functor, Queue(l, op, c),
           NEW b \in [Loops -> Seq(Functor)], \A k \in Loops : Single(b[k] \o pending[k]),
           op \in {"establish", "destroy"} => [op |-> op, conn |-> c] \notin Range(b[l] \o pending[l])
    PROVE  \A k \in Loops : Single(b[k] \o pending'[k])
<1> DEFINE f == [op |-> op, conn |-> c]
<1>1. pending \in [Loops -> Seq(Functor)] /\ f \in Functor /\ f.op = op
  BY DEF TypeOK
<1>2. /\ pending'[l] = Append(pending[l], f)
      /\ \A k \in Loops : k # l => pending'[k] = pending[k]
  BY <1>1 DEF Queue
<1> HIDE DEF f
<1>3. b[l] \o pending'[l] = Append(b[l] \o pending[l], f) /\ b[l] \o pending[l] \in Seq(Functor)
  BY <1>1, <1>2, ConcatAppend, ConcatProperties
<1>4. Single(Append(b[l] \o pending[l], f))
  BY <1>1, <1>3, SingleAppend DEF f
<1> QED
  BY <1>2, <1>3, <1>4

\* Loop l takes the first functor off its vector.
LEMMA RunningSingle ==
    ASSUME TypeOK, OnceInv, NEW l \in Loops, NEW op, Running(l, op)
    PROVE  /\ \A k \in Loops : Single(batch'[k] \o pending[k])
           /\ op \in {"establish", "destroy"} => Head(batch[l]) \notin Range(batch'[l] \o pending[l])
<1>1. batch \in [Loops -> Seq(Functor)] /\ pending \in [Loops -> Seq(Functor)] /\ batch[l] # <<>>
  BY DEF TypeOK, Running
<1>2. batch'[l] = Tail(batch[l]) /\ \A k \in Loops : k # l => batch'[k] = batch[k]
  BY <1>1 DEF Running
<1>3. /\ batch[l] \o pending[l] # <<>> /\ Head(batch[l] \o pending[l]) = Head(batch[l])
      /\ batch'[l] \o pending[l] = Tail(batch[l] \o pending[l])
      /\ batch[l] \o pending[l] \in Seq(Functor)
  BY <1>1, <1>2, ConcatTail, ConcatProperties
<1>4. \A k \in Loops : Single(batch[k] \o pending[k])
  BY DEF OnceInv, Work
<1>5. /\ Single(Tail(batch[l] \o pending[l]))
      /\ Head(batch[l]).op \in {"establish", "destroy"} =>
            Head(batch[l]) \notin Range(Tail(batch[l] \o pending[l]))
  BY <1>3, <1>4, SingleTail
<1>6. Head(batch[l]).op = op
  BY DEF Running
<1> QED
  BY <1>2, <1>3, <1>4, <1>5, <1>6

\* Steps that leave queues, map and the connections that have been made alone.
LEMMA OnceKept ==
    ASSUME ServerOnceInv, UNCHANGED <<pending, batch, connections>>,
           \A c \in Conns : phase'[c] = phase[c] \/ phase[c] \in {"none", "backlog"}
    PROVE  OnceInv'
<1> USE DEF ServerOnceInv, ServerInv
<1>1. \A l \in Loops : Functors(l)' = Functors(l) /\ Work(l)' = Work(l)
  BY DEF Functors, Work
<1>2. connections' \subseteq {c \in Conns : phase'[c] \in {"made", "up"}}
  BY DEF OnceInv
<1>3. ASSUME NEW l \in Loops, NEW f \in Functors(l), f.op # "listen"
      PROVE  phase'[f.conn] = phase[f.conn]
  BY <1>3 DEF FunctorInv
<1>4. ASSUME NEW l \in Loops, NEW f \in Functors(l)
      PROVE  /\ f.op = "establish" => phase'[f.conn] = "made"
             /\ f.op = "destroy" => phase'[f.conn] = "up" /\ f.conn \notin connections'
             /\ f.op = "remove" => phase'[f.conn] \in {"up", "closed"}
  BY <1>3 DEF OnceInv
<1>5. \A l \in Loops : Single(Work(l))'
  BY <1>1 DEF OnceInv, Single
<1> QED
  BY <1>1, <1>2, <1>4, <1>5 DEF OnceInv

LEMMA StartOnce ==
    ASSUME ServerOnceInv, Start
    PROVE  OnceInv'
<1> USE DEF ServerOnceInv, ServerInv, connVars
<1>1. Queue(0, "listen", Acceptor) /\ UNCHANGED <<batch, phase, connections>>
  BY DEF Start
<1>2. 0 \in Loops /\ [op |-> "listen", conn |-> Acceptor] \in Functor
  BY LimitsAssumption DEF Loops, Functor
<1>3. \A k \in Loops : Single(batch[k] \o pending'[k])
  <2>1. \A k \in Loops : Single(batch[k] \o pending[k])
    BY DEF OnceInv, Work
  <2>2. batch \in [Loops -> Seq(Functor)]
    BY DEF TypeOK
  <2> QED
    BY <1>1, <1>2, <2>1, <2>2, QueueSingle
<1>4. \A k \in Loops : \A f \in Functors(k)' : f \in Functors(k) \/ f.op = "listen"
  <2>1. \A k \in Loops : Range(pending'[k]) = IF k = 0
           THEN Range(pending[k]) \cup {[op |-> "listen", conn |-> Acceptor]} ELSE Range(pending[k])
    BY <1>1, <1>2, QueueEffect
  <2>2. ASSUME NEW k \in Loops, NEW f \in Range(pending'[k]) PROVE f \in Range(pending[k]) \/ f.op = "listen"
    <3>1. CASE k = 0
      <4>1. Range(pending'[k]) = Range(pending[k]) \cup {[op |-> "listen", conn |-> Acceptor]}
        BY <2>1, <3>1
      <4>2. CASE f = [op |-> "listen", conn |-> Acceptor]
        BY <4>2
      <4> QED
        BY <2>2, <4>1, <4>2
    <3>2. CASE k # 0
      BY <2>1, <2>2, <3>2
    <3> QED
      BY <3>1, <3>2
  <2>3. UNCHANGED batch
    BY <1>1
  <2> QED
    BY <2>2, <2>3 DEF Functors
<1>5. \A k \in Loops : Single(Work(k))'
  BY <1>1, <1>3 DEF Work, Single
<1>6. \A k \in Loops : \A f \in Functors(k)' :
          /\ f.op = "establish" => phase'[f.conn] = "made"
          /\ f.op = "destroy" => phase'[f.conn] = "up" /\ f.conn \notin connections'
          /\ f.op = "remove" => phase'[f.conn] \in {"up", "closed"}
  BY <1>1, <1>4 DEF OnceInv
<1>7. connections' \subseteq {c \in Conns : phase'[c] \in {"made", "up"}}
  BY <1>1 DEF OnceInv
<1> QED
  BY <1>5, <1>6, <1>7 DEF OnceInv

LEMMA DropConnectionsOnce ==
    ASSUME ServerOnceInv, DropConnections
    PROVE  OnceInv'
<1> USE DEF ServerOnceInv, ServerInv, loopVars
<1>1. /\ UNCHANGED <<pending, batch>> /\ connections' = {}
      /\ phase' = [c \in Conns |-> IF c \in connections /\ ~Held(c) THEN "closed" ELSE phase[c]]
  BY DEF DropConnections
<1>2. \A l \in Loops : Functors(l)' = Functors(l) /\ Work(l)' = Work(l)
  BY <1>1 DEF Functors, Work
<1>3. ASSUME NEW l \in Loops, NEW f \in Functors(l), f.op # "listen"
      PROVE  phase'[f.conn] = phase[f.conn]
  <2>1. f.conn \in Conns
    BY <1>3 DEF FunctorInv
  <2>2. Held(f.conn)
    BY DEF Held, Functors
  <2> QED
    BY <1>1, <2>1, <2>2
<1>4. ASSUME NEW l \in Loops, NEW f \in Functors(l)
      PROVE  /\ f.op = "establish" => phase'[f.conn] = "made"
             /\ f.op = "destroy" => phase'[f.conn] = "up" /\ f.conn \notin connections'
             /\ f.op = "remove" => phase'[f.conn] \in {"up", "closed"}
  BY <1>1, <1>3 DEF OnceInv
<1>5. \A l \in Loops : Single(Work(l))'
  BY <1>2 DEF OnceInv, Single
<1> QED
  BY <1>1, <1>2, <1>4, <1>5 DEF OnceInv

LEMMA SwapFunctorsOnce ==
    ASSUME ServerOnceInv, NEW l \in Loops, SwapFunctors(l)
    PROVE  OnceInv'
<1> USE DEF ServerOnceInv, ServerInv, connVars
<1>1. /\ pending' = [pending EXCEPT ![l] = <<>>] /\ batch' = [batch EXCEPT ![l] = pending[l]]
      /\ UNCHANGED <<phase, connections>> /\ pc[l] = "events"
  BY DEF SwapFunctors, Moves
<1>2. /\ pending \in [Loops -> Seq(Functor)] /\ batch \in [Loops -> Seq(Functor)] /\ batch[l] = <<>>
  BY <1>1 DEF TypeOK, BatchInv
<1>3. /\ pending'[l] = <<>> /\ batch'[l] = pending[l]
      /\ \A k \in Loops : k # l => pending'[k] = pending[k] /\ batch'[k] = batch[k]
  BY <1>1, <1>2
<1>4. \A k \in Loops : Work(k)' = Work(k)
  <2>1. pending[l] \o <<>> = pending[l] /\ <<>> \o pending[l] = pending[l]
    BY <1>2, ConcatEmptySeq
  <2> QED
    BY <1>2, <1>3, <2>1 DEF Work
<1>5. \A k \in Loops : Functors(k)' = Functors(k)
  <2>1. Range(pending'[l]) \cup Range(batch'[l]) = Range(pending[l]) \cup Range(batch[l])
    BY <1>2, <1>3
  <2> QED
    BY <1>3, <2>1 DEF Functors
<1>6. \A k \in Loops : Single(Work(k))'
  BY <1>4 DEF OnceInv, Single
<1> QED
  BY <1>1, <1>5, <1>6 DEF OnceInv

\* removeConnectionInLoop, from an event or from a functor.
LEMMA RemoveOnce ==
    ASSUME ServerOnceInv, NEW c \in Conns, RemoveInLoop(c), c \in connections => phase[c] = "up",
           UNCHANGED phase, batch' \in [Loops -> Seq(Functor)],
           \A k \in Loops : Range(batch'[k]) \subseteq Range(batch[k]),
           \A k \in Loops : Single(batch'[k] \o pending[k])
    PROVE  OnceInv'
<1> USE DEF ServerOnceInv, ServerInv
<1>1. /\ connections' = connections \ {c}
      /\ IF c \in connections THEN Queue(loopOf[c], "destroy", c) ELSE UNCHANGED pending
  BY DEF RemoveInLoop
<1>2. connections' \subseteq {d \in Conns : phase'[d] \in {"made", "up"}}
  BY <1>1 DEF OnceInv
<1>3. ASSUME NEW k \in Loops, NEW f \in Functors(k)
      PROVE  /\ f.op = "establish" => phase'[f.conn] = "made"
             /\ f.op = "destroy" => phase'[f.conn] = "up" /\ f.conn \notin connections'
             /\ f.op = "remove" => phase'[f.conn] \in {"up", "closed"}
  BY <1>1 DEF OnceInv
<1>4. CASE c \notin connections
  <2>1. UNCHANGED pending
    BY <1>1, <1>4
  <2>2. \A k \in Loops : Functors(k)' \subseteq Functors(k)
    BY <2>1 DEF Functors
  <2>3. \A k \in Loops : Single(Work(k))'
    BY <2>1 DEF Work, Single
  <2> QED
    BY <1>2, <1>3, <2>2, <2>3 DEF OnceInv
<1>5. CASE c \in connections
  <2> DEFINE e == [op |-> "destroy", conn |-> c]
  <2>1. Queue(loopOf[c], "destroy", c) /\ loopOf[c] \in Loops /\ e \in Functor
    BY <1>1, <1>5 DEF TypeOK, Functor
  <2>2. e \notin Range(batch'[loopOf[c]] \o pending[loopOf[c]])
    <3>1. e \notin Functors(loopOf[c])
      BY <1>5, <2>1 DEF OnceInv
    <3>2. batch'[loopOf[c]] \in Seq(Functor) /\ pending[loopOf[c]] \in Seq(Functor)
      BY <2>1 DEF TypeOK
    <3>3. Range(batch'[loopOf[c]] \o pending[loopOf[c]]) =
             Range(batch'[loopOf[c]]) \cup Range(pending[loopOf[c]])
      BY <3>2, ConcatRange
    <3>4. Range(batch'[loopOf[c]]) \subseteq Range(batch[loopOf[c]])
      BY <2>1
    <3> QED
      BY <3>1, <3>3, <3>4 DEF Functors
  <2>3. \A k \in Loops : Single(batch'[k] \o pending'[k])
    BY <2>1, <2>2, QueueSingle
  <2>4. \A k \in Loops : Single(Work(k))'
    BY <2>3 DEF Work, Single
  <2>5. ASSUME NEW k \in Loops, NEW f \in Functors(k)' PROVE f \in Functors(k) \/ f = e
    <3>1. \A j \in Loops : Range(pending'[j]) =
             IF j = loopOf[c] THEN Range(pending[j]) \cup {e} ELSE Range(pending[j])
      BY <2>1, QueueEffect
    <3>2. Range(pending'[k]) \subseteq Range(pending[k]) \cup {e}
      BY <3>1
    <3> QED
      BY <3>2 DEF Functors
  <2>6. e.op = "destroy" /\ e.conn = c /\ phase'[c] = "up" /\ c \notin connections'
    BY <1>1, <1>5
  <2> QED
    BY <1>2, <1>3, <2>4, <2>5, <2>6 DEF OnceInv
<1> QED
  BY <1>4, <1>5

LEMMA HandleCloseOnce ==
    ASSUME ServerOnceInv, NEW l \in Loops, NEW c \in Conns, HandleClose(l, c)
    PROVE  OnceInv'
<1> USE DEF ServerOnceInv, ServerInv
<1>1. /\ c \in active[l] /\ ~destroying /\ UNCHANGED <<phase, batch>>
      /\ IF l = 0 THEN RemoveInLoop(c)
         ELSE (Queue(0, "remove", c) \/ UNCHANGED pending) /\ UNCHANGED connections
  BY DEF HandleClose, Handling
<1>2. phase[c] = "up" /\ 0 \in Loops
  BY <1>1, LimitsAssumption DEF ActiveInv, Conns, Acceptor, Loops
<1>3. batch \in [Loops -> Seq(Functor)] /\ [op |-> "remove", conn |-> c] \in Functor
  <2>1. [op |-> "remove", conn |-> c] \in Functor
    BY DEF Functor
  <2> QED
    BY <2>1 DEF TypeOK
<1>4. \A k \in Loops : Single(batch[k] \o pending[k])
  BY DEF OnceInv, Work
<1>5. CASE l = 0
  <2>1. /\ RemoveInLoop(c) /\ batch' \in [Loops -> Seq(Functor)]
        /\ \A k \in Loops : Range(batch'[k]) \subseteq Range(batch[k])
        /\ \A k \in Loops : Single(batch'[k] \o pending[k])
    BY <1>1, <1>3, <1>4, <1>5
  <2> QED
    BY <1>1, <1>2, <2>1, RemoveOnce
<1>6. CASE l # 0 /\ UNCHANGED pending
  <2>1. UNCHANGED <<pending, batch, connections>> /\ \A d \in Conns : phase'[d] = phase[d]
    BY <1>1, <1>6
  <2> QED
    BY <2>1, OnceKept
<1>7. CASE l # 0 /\ Queue(0, "remove", c)
  <2> DEFINE e == [op |-> "remove", conn |-> c]
  <2>1. \A k \in Loops : Single(batch[k] \o pending'[k])
    BY <1>2, <1>3, <1>4, <1>7, QueueSingle
  <2>2. \A k \in Loops : Single(Work(k))'
    BY <1>1, <2>1 DEF Work, Single
  <2>3. ASSUME NEW k \in Loops, NEW f \in Functors(k)' PROVE f \in Functors(k) \/ f = e
    <3>1. \A j \in Loops : Range(pending'[j]) =
             IF j = 0 THEN Range(pending[j]) \cup {e} ELSE Range(pending[j])
      BY <1>2, <1>3, <1>7, QueueEffect
    <3>2. Range(pending'[k]) \subseteq Range(pending[k]) \cup {e}
      BY <3>1
    <3> QED
      BY <1>1, <3>2 DEF Functors
  <2>4. e.op = "remove" /\ e.conn = c /\ phase'[c] = "up"
    BY <1>1, <1>2
  <2> QED
    BY <1>1, <1>7, <2>2, <2>3, <2>4 DEF OnceInv
<1> QED
  BY <1>1, <1>5, <1>6, <1>7

\* What is left when loop l runs a functor that does not queue.
LEMMA RunningOnce ==
    ASSUME ServerOnceInv, NEW l \in Loops, NEW op, Running(l, op), UNCHANGED pending
    PROVE  /\ \A k \in Loops : Single(Work(k))' /\ Functors(k)' \subseteq Functors(k)
           /\ op \in {"establish", "destroy"} =>
                 \A k \in Loops : \A f \in Functors(k)' : f.op = op => f.conn # Head(batch[l]).conn
<1> USE DEF ServerOnceInv, ServerInv
<1>1. /\ batch' \in [Loops -> Seq(Functor)]
      /\ Head(batch[l]) \in Functor /\ Head(batch[l]).op = op /\ Head(batch[l]) \in Functors(l)
      /\ \A k \in Loops : Range(batch[k]) =
            IF k = l THEN Range(batch'[k]) \cup {Head(batch[l])} ELSE Range(batch'[k])
  BY RunningEffect
<1>2. /\ \A k \in Loops : Single(batch'[k] \o pending[k])
      /\ op \in {"establish", "destroy"} => Head(batch[l]) \notin Range(batch'[l] \o pending[l])
  BY RunningSingle
<1>3. \A k \in Loops : Single(Work(k))'
  BY <1>2 DEF Work, Single
<1>4. \A k \in Loops : Functors(k)' \subseteq Functors(k)
  BY <1>1 DEF Functors
<1>5. ASSUME op \in {"establish", "destroy"}, NEW k \in Loops, NEW f \in Functors(k)',
             f.op = op, f.conn = Head(batch[l]).conn
      PROVE  FALSE
  <2>1. f \in Functors(k) /\ k = l
    BY <1>1, <1>4, <1>5 DEF FunctorInv
  <2>2. f \in Functor
    BY <2>1, RangeOfFunctors
  <2>3. f = Head(batch[l])
    <3>1. f = [op |-> f.op, conn |-> f.conn]
      BY <2>2 DEF Functor
    <3>2. Head(batch[l]) = [op |-> Head(batch[l]).op, conn |-> Head(batch[l]).conn]
      BY <1>1 DEF Functor
    <3> QED
      BY <1>1, <1>5, <3>1, <3>2
  <2>4. Range(batch'[l] \o pending[l]) = Range(batch'[l]) \cup Range(pending[l])
    <3>1. batch'[l] \in Seq(Functor) /\ pending[l] \in Seq(Functor)
      BY <1>1 DEF TypeOK
    <3> QED
      BY <3>1, ConcatRange
  <2>5. f \in Range(pending[l]) \cup Range(batch'[l])
    BY <2>1 DEF Functors
  <2> QED
    BY <1>2, <1>5, <2>3, <2>4, <2>5
<1> QED
  BY <1>3, <1>4, <1>5

LEMMA RunListenOnce ==
    ASSUME ServerOnceInv, RunListen
    PROVE  OnceInv'
<1>1. Running(0, "listen") /\ UNCHANGED <<pending, phase, connections>> /\ 0 \in Loops
  BY LimitsAssumption DEF RunListen, Loops
<1>2. \A k \in Loops : Single(Work(k))' /\ Functors(k)' \subseteq Functors(k)
  BY <1>1, RunningOnce
<1> QED
  BY <1>1, <1>2 DEF ServerOnceInv, OnceInv

LEMMA RunRemoveOnce ==
    ASSUME ServerOnceInv, RunRemove
    PROVE  OnceInv'
<1> USE DEF ServerOnceInv, ServerInv
<1> DEFINE c == Head(batch[0]).conn
<1>1. Running(0, "remove") /\ RemoveInLoop(c) /\ UNCHANGED phase /\ 0 \in Loops
  BY LimitsAssumption DEF RunRemove, Loops
<1>2. /\ batch' \in [Loops -> Seq(Functor)]
      /\ Head(batch[0]).op = "remove" /\ Head(batch[0]) \in Functors(0)
      /\ \A k \in Loops : Range(batch[k]) =
            IF k = 0 THEN Range(batch'[k]) \cup {Head(batch[0])} ELSE Range(batch'[k])
  BY <1>1, RunningEffect
<1>3. c \in Conns /\ phase[c] \in {"up", "closed"}
  BY <1>1, <1>2 DEF FunctorInv, OnceInv
<1>4. c \in connections => phase[c] = "up"
  BY <1>3 DEF OnceInv
<1>5. \A k \in Loops : Single(batch'[k] \o pending[k])
  BY <1>1, RunningSingle
<1>6. \A k \in Loops : Range(batch'[k]) \subseteq Range(batch[k])
  BY <1>2
<1> HIDE DEF c
<1> QED
  BY <1>1, <1>2, <1>3, <1>4, <1>5, <1>6, RemoveOnce

\* connectEstablished finds the connection made, connectDestroyed finds it up
\* and out of the map; neither is queued for it again.
LEMMA RunPhaseOnce ==
    ASSUME ServerOnceInv, NEW l \in Loops, RunEstablish(l) \/ RunDestroy(l)
    PROVE  OnceInv'
<1> USE DEF ServerOnceInv, ServerInv
<1> DEFINE c == Head(batch[l]).conn
<1>1. PICK op \in {"establish", "destroy"} :
         /\ Running(l, op) /\ UNCHANGED <<pending, connections>>
         /\ phase' = [phase EXCEPT ![c] = IF op = "establish" THEN "up" ELSE "closed"]
  BY DEF RunEstablish, RunDestroy
<1>2. Head(batch[l]).op = op /\ Head(batch[l]) \in Functors(l)
  BY <1>1, RunningEffect
<1>3. /\ c \in Conns
      /\ op = "establish" => phase[c] = "made"
      /\ op = "destroy" => phase[c] = "up" /\ c \notin connections
  BY <1>2 DEF FunctorInv, OnceInv
<1>4. /\ \A k \in Loops : Single(Work(k))' /\ Functors(k)' \subseteq Functors(k)
      /\ \A k \in Loops : \A f \in Functors(k)' : f.op = op => f.conn # c
  BY <1>1, RunningOnce
<1> HIDE DEF c
<1>5. /\ \A d \in Conns : d # c => phase'[d] = phase[d]
      /\ phase'[c] \in {"up", "closed"}
      /\ c \in connections => phase'[c] = "up"
  BY <1>1, <1>3 DEF TypeOK
<1>6. connections' \subseteq {d \in Conns : phase'[d] \in {"made", "up"}}
  BY <1>1, <1>5 DEF OnceInv
<1>7. ASSUME NEW k \in Loops, NEW f \in Functors(k)'
      PROVE  /\ f.op = "establish" => phase'[f.conn] = "made"
             /\ f.op = "destroy" => phase'[f.conn] = "up" /\ f.conn \notin connections'
             /\ f.op = "remove" => phase'[f.conn] \in {"up", "closed"}
  <2>1. f \in Functors(k) /\ (f.op = op => f.conn # c)
    BY <1>4
  <2>2. /\ f.op = "establish" => phase[f.conn] = "made" /\ f.conn \in Conns
        /\ f.op = "destroy" => phase[f.conn] = "up" /\ f.conn \notin connections /\ f.conn \in Conns
        /\ f.op = "remove" => phase[f.conn] \in {"up", "closed"} /\ f.conn \in Conns
    BY <2>1 DEF OnceInv, FunctorInv
  <2>3. CASE f.conn = c
    BY <1>1, <1>3, <1>5, <2>1, <2>2, <2>3
  <2>4. CASE f.conn # c
    BY <1>1, <1>5, <2>2, <2>4
  <2> QED
    BY <2>3, <2>4
<1> QED
  BY <1>4, <1>6, <1>7 DEF OnceInv

\* newConnection: nobody has queued anything for whom accept() has just had.
LEMMA NewConnectionOnce ==
    ASSUME ServerOnceInv, NewConnection
    PROVE  OnceInv'
<1> USE DEF ServerOnceInv, ServerInv
<1> DEFINE c == accepting
           e == [op |-> "establish", conn |-> c]
<1>1. /\ pc[0] = "accept" /\ 0 \in Loops /\ UNCHANGED batch
      /\ connections' = connections \cup {c}
      /\ IF NextLoop = 0 THEN UNCHANGED pending ELSE Queue(NextLoop, "establish", c)
      /\ phase' = [phase EXCEPT ![c] = IF NextLoop = 0 THEN "up" ELSE "made"]
  BY LimitsAssumption DEF NewConnection, Moves, Loops
<1>2. c \in Conns /\ phase[c] = "accepted"
  BY <1>1 DEF AcceptInv
<1> HIDE DEF c
<1>3. NextLoop \in Loops /\ e \in Functor /\ e.op = "establish" /\ e.conn = c
  BY <1>2, NextLoopInRange DEF Functor
<1>4. /\ phase'[c] \in {"made", "up"} /\ (NextLoop # 0 => phase'[c] = "made")
      /\ \A d \in Conns : d # c => phase'[d] = phase[d]
  BY <1>1, <1>2 DEF TypeOK
<1>5. connections' \subseteq {d \in Conns : phase'[d] \in {"made", "up"}}
  BY <1>1, <1>2, <1>4 DEF OnceInv
<1>6. \A k \in Loops : \A f \in Functors(k) : f.op # "listen" => f.conn \in Conns /\ f.conn # c
  BY <1>2 DEF FunctorInv
<1>7. ASSUME NEW k \in Loops, NEW f \in Functors(k)
      PROVE  /\ f.op = "establish" => phase'[f.conn] = "made"
             /\ f.op = "destroy" => phase'[f.conn] = "up" /\ f.conn \notin connections'
             /\ f.op = "remove" => phase'[f.conn] \in {"up", "closed"}
  <2>1. CASE f.op = "listen"
    BY <2>1
  <2>2. CASE f.op # "listen"
    BY <1>1, <1>4, <1>6, <2>2 DEF OnceInv
  <2> QED
    BY <2>1, <2>2
<1>8. CASE NextLoop = 0
  <2>1. UNCHANGED <<pending, batch>>
    BY <1>1, <1>8
  <2>2. \A k \in Loops : Functors(k)' = Functors(k) /\ Single(Work(k))'
    BY <2>1 DEF Functors, OnceInv, Work, Single
  <2> QED
    BY <1>5, <1>7, <2>2 DEF OnceInv
<1>9. CASE NextLoop # 0
  <2>1. Queue(NextLoop, "establish", c) /\ batch \in [Loops -> Seq(Functor)]
    BY <1>1, <1>9 DEF TypeOK
  <2>2. \A k \in Loops : Single(batch[k] \o pending[k])
    BY DEF OnceInv, Work
  <2>3. e \notin Range(batch[NextLoop] \o pending[NextLoop])
    <3>1. e \notin Range(Work(NextLoop))
      BY <1>3, <1>6, WorkRange
    <3> QED
      BY <3>1 DEF Work
  <2>4. \A k \in Loops : Single(batch[k] \o pending'[k])
    BY <1>3, <2>1, <2>2, <2>3, QueueSingle
  <2>5. \A k \in Loops : Single(Work(k))'
    BY <1>1, <2>4 DEF Work, Single
  <2>6. ASSUME NEW k \in Loops, NEW f \in Functors(k)' PROVE f \in Functors(k) \/ f = e
    <3>1. \A j \in Loops : Range(pending'[j]) =
             IF j = NextLoop THEN Range(pending[j]) \cup {e} ELSE Range(pending[j])
      BY <1>3, <2>1, QueueEffect
    <3>2. Range(pending'[k]) \subseteq Range(pending[k]) \cup {e}
      BY <3>1
    <3> QED
      BY <1>1, <3>2 DEF Functors
  <2>7. e.op = "establish" /\ phase'[e.conn] = "made"
    BY <1>3, <1>4, <1>9
  <2> HIDE DEF e
  <2> QED
    BY <1>5, <1>7, <2>5, <2>6, <2>7 DEF OnceInv
<1> QED
  BY <1>8, <1>9

\* A removal takes a connection that is up.
LEMMA RemoveMade ==
    ASSUME MadeInv, NEW c \in Conns, RemoveInLoop(c), phase[c] \in {"up", "closed"},
           UNCHANGED <<phase, destroying>>
    PROVE  MadeInv'
BY DEF RemoveInLoop, MadeInv

\* The other steps make nobody and remove nobody.
LEMMA SameMade ==
    ASSUME MadeInv, UNCHANGED <<connections, destroying>>,
           \A c \in Conns : phase'[c] = "made" => phase[c] = "made"
    PROVE  MadeInv'
BY DEF MadeInv

LEMMA NextMadeInv == ServerOnceInv /\ [Next]_vars => MadeInv'
<1> SUFFICES ASSUME ServerOnceInv, [Next]_vars PROVE MadeInv'
  OBVIOUS
<1> USE DEF ServerOnceInv, ServerInv, ownerVars, connVars
<1>1. ASSUME NEW l \in Loops, LoopStep(l) PROVE MadeInv'
  <2>1. CASE \/ EnterLoop(l) \/ Poll(l) \/ FinishFunctors(l) \/ UseDestroyed(l)
             \/ SwapFunctors(l) \/ NoDescriptor \/ RunListen
    <3>1. UNCHANGED <<connections, phase, destroying>>
      BY <2>1 DEF EnterLoop, Poll, FinishFunctors, UseDestroyed, SwapFunctors, NoDescriptor, RunListen,
         Running
    <3> QED
      BY <3>1, SameMade
  <2>2. ASSUME NEW c \in Conns, Accept(c) PROVE MadeInv'
    <3>1. UNCHANGED <<connections, destroying>> /\ phase' = [phase EXCEPT ![c] = "accepted"]
      BY <2>2 DEF Accept
    <3>2. \A d \in Conns : phase'[d] = "made" => phase[d] = "made"
      BY <3>1 DEF TypeOK
    <3> QED
      BY <3>1, <3>2, SameMade
  <2>3. CASE RunEstablish(l) \/ RunDestroy(l)
    <3>1. /\ UNCHANGED <<connections, destroying>>
          /\ \E p \in {"up", "closed"} : phase' = [phase EXCEPT ![Head(batch[l]).conn] = p]
      BY <2>3 DEF RunEstablish, RunDestroy, Running
    <3>2. \A d \in Conns : phase'[d] = "made" => phase[d] = "made"
      BY <3>1 DEF TypeOK
    <3> QED
      BY <3>1, <3>2, SameMade
  <2>4. CASE NewConnection
    <3>1. /\ connections' = connections \cup {accepting} /\ UNCHANGED destroying
          /\ \A d \in Conns : d # accepting => phase'[d] = phase[d]
      BY <2>4 DEF NewConnection, TypeOK
    <3> QED
      BY <3>1 DEF MadeInv
  <2>5. ASSUME NEW c \in Conns, HandleClose(l, c) PROVE MadeInv'
    <3>1. /\ c \in active[l] /\ UNCHANGED <<phase, destroying>> /\ ~destroying
          /\ RemoveInLoop(c) \/ UNCHANGED connections
      BY <2>5 DEF HandleClose, Handling
    <3>2. phase[c] = "up"
      BY <3>1 DEF ActiveInv, Conns, Acceptor
    <3> QED
      BY <3>1, <3>2, RemoveMade, SameMade
  <2>6. CASE RunRemove
    <3> DEFINE c == Head(batch[0]).conn
    <3>1. /\ Running(0, "remove") /\ RemoveInLoop(c) /\ UNCHANGED <<phase, destroying>> /\ 0 \in Loops
      BY <2>6, LimitsAssumption DEF RunRemove, Running, Loops
    <3>2. Head(batch[0]).op = "remove" /\ Head(batch[0]) \in Functors(0)
      BY <3>1, RunningEffect
    <3>3. c \in Conns /\ phase[c] \in {"up", "closed"}
      BY <3>1, <3>2 DEF FunctorInv, OnceInv
    <3> HIDE DEF c
    <3> QED
      BY <3>1, <3>3, RemoveMade
  <2> QED
    BY <1>1, <2>1, <2>2, <2>3, <2>4, <2>5, <2>6 DEF LoopStep
<1>2. CASE OwnerStep
  <2>1. CASE DropConnections
    <3>1. destroying'
      BY <2>1 DEF DropConnections
    <3> QED
      BY <3>1 DEF MadeInv
  <2>2. CASE Start \/ Stop \/ DropAcceptor \/ Quit \/ Join
    <3>1. UNCHANGED <<connections, phase, destroying>>
      BY <2>2 DEF Start, Stop, DropAcceptor, Quit, Join
    <3> QED
      BY <3>1, SameMade
  <2> QED
    BY <1>2, <2>1, <2>2 DEF OwnerStep
<1>3. ASSUME NEW c \in Conns, Connect(c) \/ Close(c) PROVE MadeInv'
  <2>1. UNCHANGED <<connections, destroying>> /\ phase' \in {phase, [phase EXCEPT ![c] = "backlog"]}
    BY <1>3 DEF Connect, Close
  <2>2. \A d \in Conns : phase'[d] = "made" => phase[d] = "made"
    BY <2>1 DEF TypeOK
  <2> QED
    BY <2>1, <2>2, SameMade
<1>4. CASE UNCHANGED vars
  <2>1. UNCHANGED <<connections, phase, destroying>>
    BY <1>4 DEF vars
  <2> QED
    BY <2>1, SameMade
<1> QED
  BY <1>1, <1>2, <1>3, <1>4 DEF Next

LEMMA NextServerOnceInv == ServerOnceInv /\ [Next]_vars => ServerOnceInv'
<1> SUFFICES ASSUME ServerOnceInv, [Next]_vars PROVE OnceInv'
  BY NextServerInv, NextMadeInv DEF ServerOnceInv
<1>1. ASSUME NEW l \in Loops, LoopStep(l) PROVE OnceInv'
  <2>1. CASE EnterLoop(l) \/ Poll(l) \/ FinishFunctors(l) \/ UseDestroyed(l)
    <3>1. UNCHANGED <<pending, batch, connections, phase>>
      BY <2>1 DEF EnterLoop, Poll, FinishFunctors, UseDestroyed, loopVars, connVars
    <3> QED
      BY <3>1, OnceKept
  <2>2. CASE NoDescriptor \/ \E c \in Conns : Accept(c)
    <3>1. CASE NoDescriptor
      <4>1. UNCHANGED <<pending, batch, connections, phase>>
        BY <3>1 DEF NoDescriptor, connVars
      <4> QED
        BY <4>1, OnceKept
    <3>2. ASSUME NEW c \in Conns, Accept(c) PROVE OnceInv'
      <4>1. /\ UNCHANGED <<pending, batch, connections>> /\ phase[c] = "backlog"
            /\ \A d \in Conns : phase'[d] = phase[d] \/ d = c
        BY <3>2 DEF Accept, ServerOnceInv, ServerInv, TypeOK
      <4> QED
        BY <4>1, OnceKept
    <3> QED
      BY <2>2, <3>1, <3>2
  <2>3. CASE SwapFunctors(l) \/ (\E c \in Conns : HandleClose(l, c)) \/ RunEstablish(l) \/ RunDestroy(l)
    BY <2>3, SwapFunctorsOnce, HandleCloseOnce, RunPhaseOnce
  <2>4. CASE NewConnection \/ RunListen \/ RunRemove
    BY <2>4, NewConnectionOnce, RunListenOnce, RunRemoveOnce
  <2> QED
    BY <1>1, <2>1, <2>2, <2>3, <2>4 DEF LoopStep
<1>2. CASE OwnerStep
  <2>1. CASE Stop \/ DropAcceptor \/ Quit \/ Join
    <3>1. UNCHANGED <<pending, batch, connections, phase>>
      BY <2>1 DEF Stop, DropAcceptor, Quit, Join, loopVars, connVars
    <3> QED
      BY <3>1, OnceKept
  <2> QED
    BY <1>2, <2>1, StartOnce, DropConnectionsOnce DEF OwnerStep
<1>3. ASSUME NEW c \in Conns, Connect(c) \/ Close(c) PROVE OnceInv'
  <2>1. /\ UNCHANGED <<pending, batch, connections>>
        /\ \A d \in Conns : phase'[d] = phase[d] \/ (d = c /\ phase[c] = "none")
    BY <1>3 DEF Connect, Close, loopVars, ServerOnceInv, ServerInv, TypeOK
  <2> QED
    BY <2>1, OnceKept
<1>4. CASE UNCHANGED vars
  <2>1. UNCHANGED <<pending, batch, connections, phase>>
    BY <1>4 DEF vars, loopVars, connVars
  <2> QED
    BY <2>1, OnceKept
<1> QED
  BY <1>1, <1>2, <1>3, <1>4 DEF Next

LEMMA InitServerOnceInv == Init => ServerOnceInv
<1> SUFFICES ASSUME Init PROVE OnceInv
  <2>1. Init => MadeInv
    BY DEF Init, MadeInv
  <2> QED
    BY <2>1, InitServerInv DEF ServerOnceInv
<1>1. \A l \in Loops : pending[l] = <<>> /\ batch[l] = <<>>
  BY DEF Init
<1>2. \A l \in Loops : Functors(l) = {}
  BY <1>1 DEF Functors, Range
<1>3. \A l \in Loops : Work(l) = <<>>
  BY <1>1 DEF Work
<1>4. \A l \in Loops : Single(Work(l))
  BY <1>3 DEF Single
<1> QED
  BY <1>2, <1>4 DEF Init, OnceInv

LEMMA ServerOnceInvCorrect == Spec => []ServerOnceInv
BY InitServerOnceInv, NextServerOnceInv, PTL DEF Spec

-----------------------------------------------------------------------------

\* Every variable keeps its type: the turn stays within the pool, and loops,
\* queues and owner are where the code can be.
THEOREM TypeCorrect == Spec => []TypeOK
<1>1. ServerOnceInv => TypeOK
  BY DEF ServerOnceInv, ServerInv
<1> QED
  BY <1>1, ServerOnceInvCorrect, PTL

\* A connection that is watched, or whose event a loop has fetched, has an
\* owner in connections_ or in a queued functor, for any number of loops and
\* connections, until the destructor; a server destroyed in peace uses nothing
\* that is gone.
THEOREM WatchedIsOwnedCorrect == Spec => []WatchedIsOwned
<1>1. ServerOnceInv => WatchedIsOwned
  <2> SUFFICES ASSUME ServerInv PROVE WatchedIsOwned
    BY DEF ServerOnceInv
  <2>1. ASSUME NEW c \in Conns, phase[c] = "up" \/ \E l \in Loops : c \in active[l], ~destroying
        PROVE  Alive(c)
    <3>1. phase[c] = "up"
      BY <2>1 DEF ServerInv, ActiveInv, Conns, Acceptor
    <3> QED
      BY <2>1, <3>1, UpIsAlive
  <2>2. fault \in {"connection", "server"} => hasty
    BY DEF ServerInv, FaultInv
  <2> QED
    BY <2>1, <2>2 DEF WatchedIsOwned
<1> QED
  BY <1>1, ServerOnceInvCorrect, PTL

\* connectEstablished and connectDestroyed run at most once for a connection, in
\* this order, the latter when removeConnectionInLoop has taken it out of the
\* map; for any number of loops, connections and removals.
THEOREM LivesOnceCorrect == Spec => []LivesOnce
<1>1. ServerOnceInv => LivesOnce
  <2> SUFFICES ASSUME ServerOnceInv, NEW l \in Loops, NEW i \in DOMAIN Work(l)
               PROVE  LET f == Work(l)[i]
                      IN  /\ f.op = "establish" => phase[f.conn] = "made"
                          /\ f.op = "destroy" => phase[f.conn] = "up" /\ f.conn \notin connections
                          /\ f.op \in {"establish", "destroy"} =>
                                \A j \in DOMAIN Work(l) : Work(l)[j] = f => j = i
    BY DEF LivesOnce
  <2>1. Work(l)[i] \in Functors(l)
    <3>1. Work(l)[i] \in Range(Work(l))
      BY DEF Range
    <3> QED
      BY <3>1, WorkRange DEF ServerOnceInv, ServerInv
  <2>2. Single(Work(l))
    BY DEF ServerOnceInv, OnceInv
  <2> QED
    BY <2>1, <2>2 DEF ServerOnceInv, OnceInv, Single
<1> QED
  BY <1>1, ServerOnceInvCorrect, PTL

=============================================================================
