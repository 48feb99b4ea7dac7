------------------------- MODULE TcpConnectionProofs -------------------------
(***************************************************************************)
(* Safety of TcpConnection, for any messages, workers and uses: SafeInv    *)
(* holds of every connection, LoopInv and DrainInv of those that are used  *)
(* through their loop.                                                     *)
(***************************************************************************)
EXTENDS TcpConnection, SequenceTheorems, TLAPS

\* A functor op is queued at the IO loop and has not been run.
InPending(op) == \E i \in 1..Len(pending) : pending[i].op = op
InBatch(op) == \E i \in next..Len(batch) : batch[i].op = op
Unrun(op) == InPending(op) \/ InBatch(op)

\* The vector of functors is there only while they are run.
BatchInv == loopPc # "batch" /\ (loopPc = "callback" => cont # "batch") => batch = <<>>

\* Whatever sends has something to send, and a worker in a member function holds
\* its reference.
SenderInv ==
    /\ \A i \in 1..Len(pending) :
          pending[i].op \in {"send", "userSend"} => pending[i].msg \in Messages
    /\ \A i \in 1..Len(batch) :
          batch[i].op \in {"send", "userSend"} => batch[i].msg \in Messages
    /\ \A w \in Workers :
          /\ wpc[w] = "send" => wmsg[w] \in Messages
          /\ wpc[w] # "idle" => holds[w]

\* connectEstablished runs once, and nothing happens before.
EstablishInv ==
    /\ state = "kConnecting" =>
          /\ inMap /\ removals = 0 /\ ~removing /\ ~inPoller
          /\ \A w \in Workers : ~holds[w]
          /\ \/ loopPc = "accept" /\ pending = <<>> /\ batch = <<>>
             \/ /\ loopPc \in {"poll", "event"} /\ batch = <<>>
                /\ pending = <<Functor("established", NoMessage)>>
             \/ /\ loopPc = "batch" /\ pending = <<>> /\ next = 1
                /\ batch = <<Functor("established", NoMessage)>>
    /\ state # "kConnecting" => loopPc # "accept" /\ ~Unrun("established")

Removing == ~inMap \/ removals > 0 \/ removing

\* From the map to connectDestroyed.
LifeInv ==
    /\ ev # {} => inPoller /\ (loopPc \in {"event", "tail"}
                               \/ (loopPc = "callback" /\ cont \in {"event", "tail"}))
    /\ inPoller => socket = "open"
    /\ state = "kConnected" => inPoller
    /\ socket = "open" => inMap \/ Unrun("destroyed")
    /\ socket = "null" \/ Unrun("destroyed") => ~inMap
    /\ Removing => state \in {"kDisconnecting", "kDisconnected"}

OutputInv ==
    /\ StreamIntact
    /\ output # <<>> => "W" \in events \/ socket = "null"

SafeInv == TypeOK /\ BatchInv /\ SenderInv /\ EstablishInv /\ LifeInv /\ OutputInv

-----------------------------------------------------------------------------
(* What holds of connections used through their loop.                      *)

\* Workers queue functors that send, and the connection is closed once and for all.
QuietInv ==
    /\ \A w \in Workers : wpc[w] = "idle"
    /\ ~Unrun("send") /\ ~Unrun("shutdown")
    /\ Removing => state = "kDisconnected"

CloseFirst(s, from) ==
    \A i, j \in from..Len(s) : i < j /\ s[i].op = "destroyed" => s[j].op # "close"

\* handleClose is queued before connectDestroyed or not at all.
CloseOrderInv ==
    /\ socket = "null" => ~Unrun("close")
    /\ CloseFirst(pending, 1) /\ CloseFirst(batch, next)
    /\ InBatch("destroyed") => ~InPending("close")

LoopInv ==
    /\ QuietInv /\ CloseOrderInv
    /\ loopPc = "callback" => socket = "open"
    /\ fault = "none"

InWriteComplete == loopPc = "tail" \/ (loopPc = "callback" /\ cont = "tail")

\* The messages of which send() reported nothing wrong have been taken.
Taken == \A m \in handed : Range(Bytes(m)) \subseteq Range(accepted)

\* The write-complete callback starts with nothing pending, and what it may call
\* that makes the state kDisconnecting is shutdown() or forceClose().
Drained ==
    "shutdown" \notin use.writeComplete /\ ~forced /\ state = "kDisconnecting" /\ InWriteComplete =>
        output = <<>>

DrainInv == Taken /\ Drained

ConnInv == SafeInv /\ (ThroughLoop => LoopInv /\ DrainInv)

-----------------------------------------------------------------------------
(* Numbers, and the bytes of a message.                                    *)

LEMMA MinOfTwo ==
    ASSUME NEW a \in Int, NEW b \in Int
    PROVE  Min({a, b}) = IF a <= b THEN a ELSE b
<1> DEFINE least == IF a <= b THEN a ELSE b
<1>1. least \in {a, b} /\ \A y \in {a, b} : least =< y
  OBVIOUS
<1>2. \A x \in {a, b} : (\A y \in {a, b} : x =< y) => x = least
  OBVIOUS
<1> QED
  BY <1>1, <1>2 DEF Min

LEMMA MaxOfTwo ==
    ASSUME NEW a \in Int, NEW b \in Int
    PROVE  Max({a, b}) = IF a >= b THEN a ELSE b
<1> DEFINE greatest == IF a >= b THEN a ELSE b
<1>1. greatest \in {a, b} /\ \A y \in {a, b} : greatest >= y
  OBVIOUS
<1>2. \A x \in {a, b} : (\A y \in {a, b} : x >= y) => x = greatest
  OBVIOUS
<1> QED
  BY <1>1, <1>2 DEF Max

ByteSeq == Seq(Messages \X Nat)

\* A message has at least one byte.
LEMMA BytesType ==
    ASSUME NEW m \in Messages
    PROVE  Bytes(m) \in ByteSeq /\ Len(Bytes(m)) = Size[m] /\ Size[m] \in Nat \ {0}
<1>1. Size[m] \in Nat \ {0}
  BY SizeAssumption
<1>2. \A i \in 1..Size[m] : <<m, i>> \in Messages \X Nat
  BY <1>1
<1>3. Bytes(m) \in [1..Size[m] -> Messages \X Nat]
  BY <1>2 DEF Bytes
<1> QED
  BY <1>1, <1>3 DEF ByteSeq

\* Concatenation is associative.
LEMMA Regroup == \A a, b, c \in ByteSeq : (a \o b) \o c = a \o (b \o c)
BY ConcatAssociative DEF ByteSeq

\* A sequence is what was taken of it followed by the rest.
LEMMA Split ==
    ASSUME NEW s \in ByteSeq, NEW n \in Int, n <= Len(s)
    PROVE  /\ SubSeq(s, 1, n) \in ByteSeq /\ SubSeq(s, Max({n, 0}) + 1, Len(s)) \in ByteSeq
           /\ SubSeq(s, 1, n) \o SubSeq(s, Max({n, 0}) + 1, Len(s)) = s
<1> DEFINE k == IF n >= 0 THEN n ELSE 0
<1>1. Max({n, 0}) = k /\ k \in 0..Len(s)
  BY MaxOfTwo, LenProperties DEF ByteSeq
<1>2. SubSeq(s, 1, n) = SubSeq(s, 1, k)
  <2>1. CASE n >= 0
    BY <2>1
  <2>2. CASE n < 0
    BY <2>2, SubSeqEmpty
  <2> QED
    BY <2>1, <2>2
<1>3. SubSeq(s, 1, k) \in ByteSeq /\ SubSeq(s, k + 1, Len(s)) \in ByteSeq
  <2>1. Len(s) \in Nat /\ \A i \in 1..Len(s) : s[i] \in Messages \X Nat
    BY ElementOfSeq, LenProperties DEF ByteSeq
  <2>2. SubSeq(s, 1, k) \in ByteSeq
    <3>1. \A i \in 1..k : s[i] \in Messages \X Nat
      BY <1>1, <2>1
    <3> QED
      BY <1>1, <3>1, SubSeqProperties DEF ByteSeq
  <2>3. SubSeq(s, k + 1, Len(s)) \in ByteSeq
    <3>1. \A i \in (k + 1)..Len(s) : s[i] \in Messages \X Nat
      BY <1>1, <2>1
    <3>2. k + 1 \in Int /\ Len(s) \in Int
      BY <1>1, <2>1
    <3> QED
      BY <3>1, <3>2, SubSeqProperties DEF ByteSeq
  <2> QED
    BY <2>2, <2>3
<1>4. SubSeq(s, 1, k) \o SubSeq(s, k + 1, Len(s)) = s
  <2>1. 1 \in 1..(Len(s) + 1) /\ k \in (1 - 1)..Len(s) /\ Len(s) \in k..Len(s)
    BY <1>1, LenProperties DEF ByteSeq
  <2>2. SubSeq(s, 1, k) \o SubSeq(s, k + 1, Len(s)) = SubSeq(s, 1, Len(s))
    BY <2>1, ConcatAdjacentSubSeq DEF ByteSeq
  <2> QED
    BY <2>2, SubSeqFull DEF ByteSeq
<1> QED
  BY <1>1, <1>2, <1>3, <1>4

-----------------------------------------------------------------------------
(* What the pieces of the handlers do.                                     *)

\* The kernel takes the first bytes of s, which followed what it has taken.
LEMMA TransmitEffect ==
    ASSUME TypeOK, NEW s \in ByteSeq, NEW n \in Int, n <= Len(s), Transmit(s, n)
    PROVE  /\ wire' \in ByteSeq /\ writable' \in BOOLEAN
           /\ wire' \o SubSeq(s, Max({n, 0}) + 1, Len(s)) = wire \o s
<1>1. wire \in ByteSeq
  BY DEF TypeOK, ByteSeq
<1>2. wire' = wire \o SubSeq(s, 1, n) /\ writable' \in BOOLEAN
  BY DEF Transmit, TypeOK
<1>3. SubSeq(s, 1, n) \in ByteSeq /\ SubSeq(s, Max({n, 0}) + 1, Len(s)) \in ByteSeq
  BY Split
<1>4. wire' \in ByteSeq
  BY <1>1, <1>2, <1>3, ConcatProperties DEF ByteSeq
<1>5. wire' \o SubSeq(s, Max({n, 0}) + 1, Len(s)) =
         wire \o (SubSeq(s, 1, n) \o SubSeq(s, Max({n, 0}) + 1, Len(s)))
  BY <1>1, <1>2, <1>3, Regroup
<1>6. SubSeq(s, 1, n) \o SubSeq(s, Max({n, 0}) + 1, Len(s)) = s
  BY Split
<1> QED
  BY <1>2, <1>4, <1>5, <1>6

\* What send(2) answers is a number of bytes it was given, or -1.
LEMMA SendResultsType ==
    ASSUME NEW s \in ByteSeq, NEW n \in SendResults(s)
    PROVE  n \in Int /\ n <= Len(s)
<1>1. Len(s) \in Nat
  BY LenProperties DEF ByteSeq
<1> QED
  BY <1>1 DEF SendResults

\* sendInLoop for everybody but the output: nothing happens to a connection that
\* is not connected, and a connected one accepts the message.
SendEffect(m, here) ==
    /\ {output', wire', accepted'} \subseteq ByteSeq /\ writable' \in BOOLEAN
    /\ events' \subseteq {"R", "W"} /\ inPoller' \in BOOLEAN
    /\ OutputInv => OutputInv'
    /\ loopPc' = here \/ (state = "kConnected" /\ loopPc' = "callback")
    /\ inPoller' # inPoller => state = "kConnected" /\ inPoller'
    /\ accepted' = IF state = "kConnected" THEN accepted \o Bytes(m) ELSE accepted
    /\ state # "kConnected" => output' = output
    /\ UNCHANGED <<state, socket, wrShut, fin, rst, ev, pending, batch, mapVars, workerVars, otherVars>>

LEMMA SendInLoopEffect ==
    ASSUME TypeOK, NEW m \in Messages, NEW here, SendInLoop(m, here)
    PROVE  SendEffect(m, here)
<1> DEFINE b == Bytes(m)
<1> USE DEF ByteSeq
<1>1. b \in ByteSeq /\ Len(b) = Size[m] /\ Size[m] \in Nat \ {0}
  BY BytesType
<1>2. /\ {output, wire, accepted} \subseteq ByteSeq /\ writable \in BOOLEAN
      /\ events \subseteq {"R", "W"} /\ inPoller \in BOOLEAN
  BY DEF TypeOK
<1>3. UNCHANGED <<state, socket, wrShut, fin, rst, ev, pending, batch, mapVars, workerVars, otherVars>>
  BY DEF SendInLoop
<1>4. CASE state # "kConnected"
  BY <1>2, <1>3, <1>4 DEF SendInLoop, SendEffect, OutputInv, StreamIntact
<1>5. CASE state = "kConnected" /\ ("W" \in events \/ output # <<>>)
  <2>1. /\ accepted' = accepted \o b /\ output' = output \o b /\ wire' = wire
        /\ events' = events \cup {"W"} /\ inPoller' = TRUE
        /\ loopPc' = here /\ writable' = writable
    BY <1>5 DEF SendInLoop, Watch
  <2>2. {output', wire', accepted'} \subseteq ByteSeq
    BY <1>1, <1>2, <2>1, ConcatProperties
  <2>3. StreamIntact => StreamIntact'
    <3>1. (wire \o output) \o b = wire \o (output \o b)
      BY <1>1, <1>2, Regroup
    <3> QED
      BY <2>1, <3>1 DEF StreamIntact
  <2> QED
    BY <1>2, <1>3, <1>5, <2>1, <2>2, <2>3 DEF SendEffect, OutputInv
<1>6. CASE state = "kConnected" /\ "W" \notin events /\ output = <<>>
  <2>1. PICK n \in SendResults(b) :
            /\ Transmit(b, n)
            /\ IF n = Size[m]
               THEN loopPc' = "callback" /\ UNCHANGED <<events, inPoller, output>>
               ELSE /\ output' = SubSeq(b, Max({n, 0}) + 1, Size[m])
                    /\ Watch(events \cup {"W"})
                    /\ loopPc' = here
    BY <1>6 DEF SendInLoop
  <2>2. accepted' = accepted \o b
    BY <1>6 DEF SendInLoop
  <2>3. n \in Int /\ n <= Len(b)
    BY <1>1, <2>1, SendResultsType
  <2>4. /\ wire' \in ByteSeq /\ writable' \in BOOLEAN
        /\ wire' \o SubSeq(b, Max({n, 0}) + 1, Size[m]) = wire \o b
    BY <1>1, <2>1, <2>3, TransmitEffect
  <2>5. SubSeq(b, Max({n, 0}) + 1, Size[m]) \in ByteSeq
    BY <1>1, <2>3, Split
  <2>6. accepted' \in ByteSeq
    BY <1>1, <1>2, <2>2, ConcatProperties
  <2>7. StreamIntact => accepted' = wire \o b
    BY <1>1, <1>2, <1>6, <2>2, ConcatEmptySeq DEF StreamIntact
  <2>8. CASE n = Size[m]
    <3>1. SubSeq(b, Max({n, 0}) + 1, Size[m]) = <<>>
      BY <1>1, <2>8, MaxOfTwo, SubSeqEmpty
    <3>2. wire' = wire \o b
      BY <2>4, <3>1, ConcatEmptySeq
    <3>3. StreamIntact => StreamIntact'
      BY <1>6, <2>1, <2>4, <2>7, <2>8, <3>2, ConcatEmptySeq DEF StreamIntact
    <3> QED
      BY <1>2, <1>3, <1>6, <2>1, <2>2, <2>4, <2>6, <2>8, <3>3 DEF SendEffect, OutputInv
  <2>9. CASE n # Size[m]
    <3>1. StreamIntact => StreamIntact'
      BY <2>1, <2>4, <2>7, <2>9 DEF StreamIntact
    <3>2. output' \in ByteSeq /\ events' = events \cup {"W"} /\ inPoller' = TRUE /\ loopPc' = here
      BY <2>1, <2>5, <2>9 DEF Watch
    <3> QED
      BY <1>2, <1>3, <1>6, <2>2, <2>4, <2>6, <3>1, <3>2 DEF SendEffect, OutputInv
  <2> QED
    BY <2>8, <2>9
<1> QED
  BY <1>4, <1>5, <1>6

\* handleClose: the connection leaves the map and has connectDestroyed queued,
\* or a removal is queued at the accept loop.
CloseEffect(after) ==
    /\ state' = "kDisconnected" /\ loopPc' = "callback" /\ cont' = after
    /\ removals' \in 0..MaxRemovals
    /\ inMap' \in BOOLEAN /\ (inMap' => inMap /\ removals' > 0)
    /\ IF inMap /\ ~inMap' THEN pending' = Append(pending, Functor("destroyed", NoMessage))
       ELSE UNCHANGED pending
    /\ UNCHANGED <<events, inPoller, socket, wrShut, dataVars, peerVars, batch, removing, workerVars,
                   otherVars>>

LEMMA HandleCloseEffect ==
    ASSUME TypeOK, NEW after, HandleClose(after)
    PROVE  CloseEffect(after)
<1>1. Min({removals + 1, MaxRemovals}) \in 1..MaxRemovals
  <2>1. removals \in Nat /\ MaxRemovals \in Nat \ {0}
    BY BoundAssumption DEF TypeOK
  <2> QED
    BY <2>1, MinOfTwo
<1> QED
  <2>1. removals \in 0..MaxRemovals /\ MaxRemovals \in Nat /\ inMap \in BOOLEAN
    BY BoundAssumption DEF TypeOK
  <2>2. CASE singleLoop
    BY <2>1, <2>2 DEF HandleClose, CloseEffect
  <2>3. CASE ~singleLoop
    BY <1>1, <2>1, <2>3 DEF HandleClose, CloseEffect
  <2> QED
    BY <2>2, <2>3

-----------------------------------------------------------------------------
(* Types.                                                                  *)

\* What is queued anywhere is a functor.
LEMMA FunctorType ==
    /\ \A op \in StrongOps \cup RawOps : Functor(op, NoMessage) \in FunctorSet
    /\ \A op \in StrongOps \cup RawOps, m \in Messages : Functor(op, m) \in FunctorSet
BY DEF Functor, FunctorSet

LEMMA InitType == Init => TypeOK
<1> SUFFICES ASSUME Init PROVE TypeOK
  OBVIOUS
<1>1. use.messages \subseteq Messages
  BY UsesAssumption DEF Init
<1>2. pending \in Seq(FunctorSet)
  BY FunctorType DEF Init, StrongOps
<1>3. output \in Seq(Messages \X Nat) /\ wire = output /\ accepted = output
  BY DEF Init
<1>4. batch \in Seq(FunctorSet) /\ next \in 1..(Len(batch) + 1)
  BY DEF Init
<1>5. removals \in 0..MaxRemovals
  BY BoundAssumption DEF Init
<1>6. /\ wpc \in [Workers -> {"idle", "store-shutdown", "store-close", "send", "shutdown", "close"}]
      /\ wmsg \in [Workers -> Messages \cup {NoMessage}]
      /\ holds \in [Workers -> BOOLEAN]
  BY DEF Init
<1> QED
  BY <1>1, <1>2, <1>3, <1>4, <1>5, <1>6 DEF Init, TypeOK, States

LEMMA TypePeer == TypeOK /\ PeerStep => TypeOK'
<1> SUFFICES ASSUME TypeOK, PeerStep PROVE TypeOK'
  OBVIOUS
<1> USE DEF connVars, dataVars, loopVars, queueVars, mapVars, workerVars, otherVars, choices
<1>1. CASE PeerCloses
  BY <1>1 DEF TypeOK, PeerCloses
<1>2. CASE PeerResets
  BY <1>2 DEF TypeOK, PeerResets
<1>3. CASE PeerReads
  BY <1>3 DEF TypeOK, PeerReads
<1> QED
  BY <1>1, <1>2, <1>3 DEF PeerStep

LEMMA TypeAccept == TypeOK /\ AcceptLoopStep => TypeOK'
<1> SUFFICES ASSUME TypeOK, AcceptLoopStep PROVE TypeOK'
  OBVIOUS
<1> USE DEF connVars, dataVars, peerVars, loopVars, queueVars, mapVars, workerVars, otherVars, choices
<1>1. CASE RunRemoval
  <2>1. removals' \in 0..MaxRemovals
    BY <1>1, BoundAssumption DEF TypeOK, RunRemoval
  <2>2. pending' \in Seq(FunctorSet)
    BY <1>1, FunctorType DEF TypeOK, RunRemoval, StrongOps
  <2> QED
    BY <1>1, <2>1, <2>2 DEF TypeOK, RunRemoval
<1>2. CASE FinishRemovals
  BY <1>2 DEF TypeOK, FinishRemovals
<1> QED
  BY <1>1, <1>2 DEF AcceptLoopStep

LEMMA TypeWorker == \A w \in Workers : TypeOK /\ SenderInv /\ WorkerStep(w) => TypeOK'
<1> SUFFICES ASSUME NEW w \in Workers, TypeOK, SenderInv, WorkerStep(w) PROVE TypeOK'
  OBVIOUS
<1> USE DEF connVars, dataVars, peerVars, loopVars, queueVars, mapVars, workerVars, otherVars, choices,
            Worker, Goto, Enqueue
<1>1. ASSUME NEW m \in Messages, WorkerPost(w, m) PROVE TypeOK'
  <2>1. pending' \in Seq(FunctorSet)
    BY <1>1, FunctorType DEF TypeOK, WorkerPost, StrongOps
  <2> QED
    BY <1>1, <2>1 DEF TypeOK, WorkerPost
<1>2. ASSUME NEW m \in Messages, WorkerTestSend(w, m) PROVE TypeOK'
  BY <1>2 DEF TypeOK, WorkerTestSend
<1>3. CASE WorkerTestShutdown(w)
  BY <1>3 DEF TypeOK, WorkerTestShutdown
<1>4. CASE WorkerTestForceClose(w)
  BY <1>4 DEF TypeOK, WorkerTestForceClose
<1>5. CASE WorkerStore(w)
  BY <1>5 DEF TypeOK, WorkerStore, States
<1>6. CASE WorkerQueue(w)
  <2>1. Functor(wpc[w], wmsg[w]) \in FunctorSet
    BY <1>6 DEF TypeOK, WorkerQueue, Functor, FunctorSet
  <2>2. pending' \in Seq(FunctorSet)
    BY <1>6, <2>1 DEF TypeOK, WorkerQueue
  <2>3. handed' \subseteq Messages
    BY <1>6 DEF TypeOK, SenderInv, WorkerQueue
  <2> QED
    BY <1>6, <2>2, <2>3 DEF TypeOK, WorkerQueue, RawOps
<1>7. CASE WorkerRelease(w)
  BY <1>7 DEF TypeOK, WorkerRelease
<1> QED
  BY <1>1, <1>2, <1>3, <1>4, <1>5, <1>6, <1>7 DEF WorkerStep, WorkerGoesOn

LEMMA TypeCallback == TypeOK /\ CallbackStep => TypeOK'
<1> SUFFICES ASSUME TypeOK, CallbackStep PROVE TypeOK'
  OBVIOUS
<1> USE DEF connVars, dataVars, peerVars, loopVars, queueVars, mapVars, workerVars, otherVars, choices,
            Calling, Watch
<1>1. ASSUME NEW m \in Messages, CallbackSend(m) PROVE TypeOK'
  <2>1. SendEffect(m, "callback")
    BY <1>1, SendInLoopEffect DEF CallbackSend
  <2> QED
    BY <1>1, <2>1 DEF TypeOK, CallbackSend, SendEffect, ByteSeq
<1>2. ASSUME NEW m \in Messages, CallbackSendBuffer(m) PROVE TypeOK'
  <2>1. output' \in ByteSeq /\ accepted' \in ByteSeq
    BY <1>2, BytesType, ConcatProperties DEF TypeOK, CallbackSendBuffer, ByteSeq
  <2> QED
    BY <1>2, <2>1 DEF TypeOK, CallbackSendBuffer, ByteSeq
<1>3. CASE CallbackSendEmptyBuffer
  BY <1>3 DEF TypeOK, CallbackSendEmptyBuffer
<1>4. CASE CallbackShutdown
  BY <1>4 DEF TypeOK, CallbackShutdown, States
<1>5. CASE CallbackForceClose
  <2>1. pending' \in Seq(FunctorSet)
    BY <1>5, FunctorType DEF TypeOK, CallbackForceClose, ForcingClose, RawOps
  <2> QED
    BY <1>5, <2>1 DEF TypeOK, CallbackForceClose, ForcingClose, States
<1>6. ASSUME NEW w \in Workers, HandToWorker(w) PROVE TypeOK'
  BY <1>6 DEF TypeOK, HandToWorker
<1> QED
  BY <1>1, <1>2, <1>3, <1>4, <1>5, <1>6 DEF CallbackStep

\* handleClose wherever it is called.
LEMMA TypeClose ==
    ASSUME TypeOK, NEW after \in {"event", "batch"}, CloseEffect(after),
           ev' \subseteq ev, next' \in 1..(Len(batch) + 1)
    PROVE  TypeOK'
<1>1. pending' \in Seq(FunctorSet)
  <2>1. Functor("destroyed", NoMessage) \in FunctorSet
    BY FunctorType DEF StrongOps
  <2>2. pending' = Append(pending, Functor("destroyed", NoMessage)) \/ pending' = pending
    BY DEF CloseEffect
  <2>3. pending \in Seq(FunctorSet)
    BY DEF TypeOK
  <2> QED
    BY <2>1, <2>2, <2>3, AppendProperties
<1> QED
  BY <1>1 DEF TypeOK, CloseEffect, States, connVars, dataVars, peerVars, loopVars, queueVars, mapVars,
              workerVars, otherVars, choices

LEMMA TypeEstablish ==
    ASSUME TypeOK, NEW after \in {"event", "batch"}, ConnectEstablished(after),
           next' \in 1..(Len(batch) + 1)
    PROVE  TypeOK'
BY DEF TypeOK, ConnectEstablished, Watch, States, dataVars, peerVars, mapVars, workerVars, otherVars,
       choices

\* handleRead and handleWrite.
LEMMA TypeEvent ==
    ASSUME TypeOK,
           \/ HandleErrorOrClose \/ HandleReadMessage \/ HandleReadEnd
           \/ HandleWriteSome \/ HandleWriteTail \/ HandleWriteError
    PROVE  TypeOK'
<1> USE DEF connVars, dataVars, peerVars, loopVars, queueVars, mapVars, workerVars, otherVars, choices,
            Handling, Watch
<1>1. CASE HandleErrorOrClose \/ HandleReadEnd \/ HandleWriteError
  <2>1. CloseEffect("event")
    BY <1>1, HandleCloseEffect DEF HandleErrorOrClose, HandleReadEnd, HandleWriteError
  <2>2. ev' \subseteq ev /\ next' = next
    BY <1>1 DEF HandleErrorOrClose, HandleReadEnd, HandleWriteError
  <2> QED
    BY <2>1, <2>2, TypeClose DEF TypeOK
<1>2. CASE HandleReadMessage
  BY <1>2 DEF TypeOK, HandleReadMessage
<1>3. CASE HandleWriteTail
  BY <1>3 DEF TypeOK, HandleWriteTail
<1>4. CASE HandleWriteSome
  <2>1. PICK n \in SendResults(output) :
            n > 0 /\ Transmit(output, n) /\ output' = SubSeq(output, n + 1, Len(output))
    BY <1>4 DEF HandleWriteSome
  <2>2. output \in ByteSeq /\ n \in Int /\ n <= Len(output)
    BY <2>1, SendResultsType DEF TypeOK, ByteSeq
  <2>3. wire' \in ByteSeq /\ writable' \in BOOLEAN
    BY <2>1, <2>2, TransmitEffect
  <2>4. output' \in ByteSeq
    <3>1. Max({n, 0}) = n
      BY <2>1, <2>2, MaxOfTwo
    <3>2. SubSeq(output, Max({n, 0}) + 1, Len(output)) \in ByteSeq
      BY <2>2, Split
    <3> QED
      BY <2>1, <3>1, <3>2
  <2>5. /\ events' \subseteq {"R", "W"} /\ inPoller' \in BOOLEAN
        /\ loopPc' \in {"event", "callback"} /\ cont' \in {cont, "tail"}
    BY <1>4 DEF HandleWriteSome, Writing, TypeOK
  <2> QED
    BY <1>4, <2>3, <2>4, <2>5 DEF TypeOK, HandleWriteSome, Writing, ByteSeq
<1> QED
  BY <1>1, <1>2, <1>3, <1>4

\* The functors.
LEMMA TypeFunctor ==
    ASSUME TypeOK, SenderInv,
           \/ RunEstablished \/ RunDestroyed \/ RunUserSend
           \/ RunSend \/ RunShutdown \/ RunForceClose \/ RunDangling
    PROVE  TypeOK'
<1> USE DEF connVars, dataVars, peerVars, loopVars, queueVars, mapVars, workerVars, otherVars, choices,
            Running
<1>1. next \in 1..Len(batch) /\ next' = next + 1 /\ batch' = batch
  BY DEF TypeOK, RunEstablished, RunDestroyed, RunUserSend, RunSend, RunShutdown, RunForceClose,
         RunDangling, ConnectEstablished, SendInLoop, HandleClose
<1>2. next' \in 1..(Len(batch) + 1)
  BY <1>1 DEF TypeOK
<1>3. CASE RunEstablished
  BY <1>2, <1>3, TypeEstablish DEF RunEstablished
<1>4. CASE RunDestroyed
  BY <1>2, <1>4 DEF TypeOK, RunDestroyed
<1>5. CASE RunUserSend \/ RunSend
  <2>1. batch[next].msg \in Messages
    BY <1>1, <1>5 DEF SenderInv, RunUserSend, RunSend
  <2>2. SendEffect(batch[next].msg, "batch") /\ cont' = "batch"
    BY <1>5, <2>1, SendInLoopEffect DEF RunUserSend, RunSend
  <2>3. handed' \subseteq Messages /\ fresh' = fresh
    BY <1>5, <2>1 DEF TypeOK, RunUserSend, RunSend
  <2> QED
    BY <1>1, <1>2, <2>2, <2>3 DEF TypeOK, SendEffect, ByteSeq
<1>6. CASE RunShutdown
  BY <1>2, <1>6 DEF TypeOK, RunShutdown
<1>7. CASE RunForceClose
  BY <1>2, <1>7, HandleCloseEffect, TypeClose DEF RunForceClose
<1>8. CASE RunDangling
  BY <1>2, <1>8 DEF TypeOK, RunDangling
<1> QED
  BY <1>3, <1>4, <1>5, <1>6, <1>7, <1>8

LEMMA TypeIoLoop == TypeOK /\ SenderInv /\ IoLoopStep => TypeOK'
<1> SUFFICES ASSUME TypeOK, SenderInv, IoLoopStep PROVE TypeOK'
  OBVIOUS
<1> USE DEF connVars, dataVars, peerVars, loopVars, queueVars, mapVars, workerVars, otherVars, choices
<1>1. CASE EstablishInline
  BY <1>1, TypeEstablish DEF TypeOK, EstablishInline
<1>2. CASE Poll
  <2>1. Revents \subseteq {"E", "C", "R", "W"}
    BY DEF Revents
  <2>2. ev' \subseteq {"E", "C", "R", "W"}
    BY <1>2, <2>1 DEF Poll
  <2> QED
    BY <1>2, <2>2 DEF TypeOK, Poll
<1>3. CASE SwapFunctors
  BY <1>3 DEF TypeOK, SwapFunctors
<1>4. CASE FinishFunctors
  BY <1>4 DEF TypeOK, FinishFunctors
<1>5. CASE ReturnFromCallback
  BY <1>5 DEF TypeOK, ReturnFromCallback
<1> QED
  BY <1>1, <1>2, <1>3, <1>4, <1>5, TypeEvent, TypeFunctor DEF IoLoopStep

LEMMA TypeStep == TypeOK /\ SenderInv /\ [Next]_vars => TypeOK'
<1> SUFFICES ASSUME TypeOK, SenderInv, [Next]_vars PROVE TypeOK'
  OBVIOUS
<1>1. CASE UNCHANGED vars
  BY <1>1 DEF TypeOK, vars, connVars, dataVars, peerVars, loopVars, queueVars, mapVars, workerVars,
              otherVars, choices
<1> QED
  BY <1>1, TypeIoLoop, TypeCallback, TypeWorker, TypeAccept, TypePeer DEF Next

-----------------------------------------------------------------------------
(* The queue.                                                              *)

\* Nothing happens to the queues.
LEMMA UnrunSame ==
    ASSUME UNCHANGED queueVars
    PROVE  \A op : /\ InPending(op)' <=> InPending(op)
                   /\ InBatch(op)' <=> InBatch(op)
BY DEF InPending, InBatch, queueVars

\* queueInLoop: the functor joins those that are queued, and no other.
LEMMA PendingAppend ==
    ASSUME TypeOK, NEW f \in FunctorSet, pending' = Append(pending, f)
    PROVE  \A op : InPending(op)' <=> (InPending(op) \/ f.op = op)
<1>1. /\ Len(pending) \in Nat /\ Len(pending') = Len(pending) + 1
      /\ \A i \in 1..Len(pending) : pending'[i] = pending[i]
      /\ pending'[Len(pending) + 1] = f
  BY AppendProperties DEF TypeOK
<1>2. 1..Len(pending') = (1..Len(pending)) \cup {Len(pending) + 1}
  BY <1>1
<1> QED
  BY <1>1, <1>2 DEF InPending

LEMMA UnrunAppend ==
    ASSUME TypeOK, NEW f \in FunctorSet, pending' = Append(pending, f), UNCHANGED <<batch, next>>
    PROVE  \A op : Unrun(op)' <=> (Unrun(op) \/ f.op = op)
<1>1. \A op : InBatch(op)' <=> InBatch(op)
  BY DEF InBatch
<1> QED
  BY <1>1, PendingAppend DEF Unrun

\* A functor is run: of those of its vector only it is gone.
LEMMA BatchRun ==
    ASSUME TypeOK, next <= Len(batch), next' = next + 1, UNCHANGED batch
    PROVE  /\ \A op : InBatch(op) <=> (InBatch(op)' \/ batch[next].op = op)
<1>1. next \in 1..Len(batch) /\ Len(batch) \in Nat
  BY DEF TypeOK
<1>2. next..Len(batch) = (next'..Len(batch)) \cup {next}
  BY <1>1
<1> QED
  BY <1>1, <1>2 DEF InBatch

\* doPendingFunctors takes everything that is queued.
LEMMA QueueSwap ==
    ASSUME TypeOK, BatchInv, SwapFunctors
    PROVE  \A op : ~InPending(op)' /\ ~InBatch(op) /\ (InBatch(op)' <=> InPending(op))
<1>1. batch = <<>> /\ pending' = <<>> /\ batch' = pending /\ next' = 1
  BY DEF BatchInv, SwapFunctors
<1>2. next = 1
  BY <1>1 DEF TypeOK
<1> QED
  BY <1>1, <1>2 DEF InPending, InBatch

\* A vector is dropped when all of it has been run.
LEMMA BatchFinish ==
    ASSUME TypeOK, FinishFunctors
    PROVE  \A op : ~InBatch(op) /\ ~InBatch(op)' /\ (InPending(op)' <=> InPending(op))
<1>1. next > Len(batch) /\ batch' = <<>> /\ next' = 1 /\ UNCHANGED pending
  BY DEF FinishFunctors
<1>2. next \in Nat /\ Len(batch) \in Nat
  BY DEF TypeOK
<1> QED
  BY <1>1, <1>2 DEF InPending, InBatch

-----------------------------------------------------------------------------
(* The control of the connection.                                          *)

ControlInv == BatchInv /\ EstablishInv /\ LifeInv

LEMMA ControlPeer == TypeOK /\ ControlInv /\ PeerStep => ControlInv'
<1> SUFFICES ASSUME TypeOK, ControlInv, PeerStep PROVE ControlInv'
  OBVIOUS
<1>1. UNCHANGED <<connVars, dataVars, loopVars, queueVars, mapVars, workerVars, otherVars>>
  BY DEF PeerStep, PeerCloses, PeerResets, PeerReads
<1>2. /\ Unrun("established")' <=> Unrun("established")
      /\ Unrun("destroyed")' <=> Unrun("destroyed")
  BY <1>1, UnrunSame DEF Unrun
<1> QED
  BY <1>1, <1>2 DEF ControlInv, BatchInv, EstablishInv, LifeInv, Removing,
     connVars, dataVars, loopVars, queueVars, mapVars, workerVars, otherVars, choices

\* removeConnectionInLoop queues connectDestroyed when it erases the connection.
LEMMA ControlAccept == TypeOK /\ ControlInv /\ AcceptLoopStep => ControlInv'
<1> SUFFICES ASSUME TypeOK, ControlInv, AcceptLoopStep PROVE ControlInv'
  OBVIOUS
<1>1. UNCHANGED <<batch, next, connVars, loopVars, workerVars>>
  BY DEF AcceptLoopStep, RunRemoval, FinishRemovals, queueVars
<1>2. (removing \/ removals > 0) /\ state \in {"kDisconnecting", "kDisconnected"}
  BY DEF AcceptLoopStep, RunRemoval, FinishRemovals, ControlInv, LifeInv, Removing
<1>3. /\ Unrun("established")' <=> Unrun("established")
      /\ Unrun("destroyed")' <=> (Unrun("destroyed") \/ (inMap /\ ~inMap'))
      /\ inMap' => inMap
  <2>1. CASE UNCHANGED <<pending, inMap>>
    BY <1>1, <2>1, UnrunSame DEF Unrun, queueVars
  <2>2. CASE pending' = Append(pending, Functor("destroyed", NoMessage)) /\ inMap /\ ~inMap'
    <3>1. Functor("destroyed", NoMessage) \in FunctorSet
      BY FunctorType DEF StrongOps
    <3> QED
      BY <1>1, <2>2, <3>1, UnrunAppend DEF Functor
  <2> QED
    BY <2>1, <2>2 DEF TypeOK, AcceptLoopStep, RunRemoval, FinishRemovals, queueVars
<1> QED
  BY <1>1, <1>2, <1>3 DEF ControlInv, BatchInv, EstablishInv, LifeInv, Removing,
     connVars, loopVars, queueVars, workerVars

\* Workers come by a reference only after connectEstablished, and their stores
\* leave the channel alone.
LEMMA ControlWorker ==
    \A w \in Workers : TypeOK /\ SenderInv /\ ControlInv /\ WorkerStep(w) => ControlInv'
<1> SUFFICES ASSUME NEW w \in Workers, TypeOK, SenderInv, ControlInv, WorkerStep(w) PROVE ControlInv'
  OBVIOUS
<1> USE DEF connVars, dataVars, peerVars, loopVars, queueVars, mapVars, workerVars, otherVars, choices,
            Worker, Goto, Enqueue
<1>1. holds[w] /\ state # "kConnecting"
  BY DEF SenderInv, ControlInv, EstablishInv, WorkerStep, WorkerGoesOn, WorkerPost, WorkerTestSend,
         WorkerTestShutdown, WorkerTestForceClose, WorkerStore, WorkerQueue, WorkerRelease, RawOps
<1>2. /\ UNCHANGED <<events, inPoller, socket, batch, next, mapVars, loopVars>>
      /\ state' = state \/ state' = "kDisconnecting"
  BY DEF WorkerStep, WorkerGoesOn, WorkerPost, WorkerTestSend, WorkerTestShutdown,
         WorkerTestForceClose, WorkerStore, WorkerQueue, WorkerRelease
<1>3. /\ Unrun("established")' <=> Unrun("established")
      /\ Unrun("destroyed")' <=> Unrun("destroyed")
  <2>1. CASE UNCHANGED pending
    BY <1>2, <2>1, UnrunSame DEF Unrun
  <2>2. ASSUME NEW m \in Messages, WorkerPost(w, m)
        PROVE  \A op : Unrun(op)' <=> (Unrun(op) \/ op = "userSend")
    <3>1. Functor("userSend", m) \in FunctorSet
      BY FunctorType DEF StrongOps
    <3> QED
      BY <1>2, <2>2, <3>1, UnrunAppend DEF WorkerPost, Functor
  <2>3. ASSUME WorkerQueue(w)
        PROVE  \A op : Unrun(op)' <=> (Unrun(op) \/ op = wpc[w])
    <3>1. Functor(wpc[w], wmsg[w]) \in FunctorSet
      BY <2>3 DEF TypeOK, WorkerQueue, Functor, FunctorSet
    <3> QED
      BY <1>2, <2>3, <3>1, UnrunAppend DEF WorkerQueue, Functor
  <2>4. WorkerQueue(w) => wpc[w] \notin {"established", "destroyed"}
    BY DEF WorkerQueue, RawOps
  <2>5. \/ UNCHANGED pending \/ WorkerQueue(w) \/ \E m \in Messages : WorkerPost(w, m)
    BY DEF WorkerStep, WorkerGoesOn, WorkerTestSend, WorkerTestShutdown,
           WorkerTestForceClose, WorkerStore, WorkerRelease
  <2> QED
    BY <2>1, <2>2, <2>3, <2>4, <2>5
<1> QED
  BY <1>1, <1>2, <1>3 DEF ControlInv, BatchInv, EstablishInv, LifeInv, Removing

\* Callbacks run only after connectEstablished; what they send, they send while
\* the channel is registered.
LEMMA ControlCallback == TypeOK /\ ControlInv /\ CallbackStep => ControlInv'
<1> SUFFICES ASSUME TypeOK, ControlInv, CallbackStep PROVE ControlInv'
  OBVIOUS
<1> USE DEF connVars, dataVars, peerVars, loopVars, queueVars, mapVars, workerVars, otherVars, choices,
            Calling, Watch
<1>1. loopPc = "callback" /\ state # "kConnecting"
  BY DEF ControlInv, EstablishInv, CallbackStep, CallbackSend, CallbackSendBuffer,
         CallbackSendEmptyBuffer, CallbackShutdown, CallbackForceClose, ForcingClose, HandToWorker
<1>2. /\ UNCHANGED <<socket, batch, next, mapVars, cont, ev>> /\ loopPc' = "callback"
      /\ state' = state \/ state' = "kDisconnecting"
      /\ inPoller' = inPoller \/ (inPoller' /\ state = "kConnected")
  <2>1. ASSUME NEW m \in Messages, CallbackSend(m) PROVE <1>2
    <3>1. SendEffect(m, "callback")
      BY <2>1, SendInLoopEffect DEF CallbackSend
    <3> QED
      BY <2>1, <3>1 DEF CallbackSend, SendEffect
  <2> QED
    BY <1>1, <2>1 DEF CallbackStep, CallbackSendBuffer,
         CallbackSendEmptyBuffer, CallbackShutdown, CallbackForceClose, ForcingClose, HandToWorker
<1>3. /\ Unrun("established")' <=> Unrun("established")
      /\ Unrun("destroyed")' <=> Unrun("destroyed")
  <2>1. CASE UNCHANGED pending
    BY <1>2, <2>1, UnrunSame DEF Unrun
  <2>2. CASE ForcingClose
    <3>1. Functor("close", NoMessage) \in FunctorSet
      BY FunctorType DEF RawOps
    <3>2. \A op : Unrun(op)' <=> (Unrun(op) \/ op = "close")
      BY <1>2, <2>2, <3>1, UnrunAppend DEF ForcingClose, Functor
    <3> QED
      BY <3>2
  <2>3. UNCHANGED pending \/ ForcingClose
    BY DEF CallbackStep, CallbackSend, SendInLoop, CallbackSendBuffer, CallbackSendEmptyBuffer,
           CallbackShutdown, CallbackForceClose, HandToWorker
  <2> QED
    BY <2>1, <2>2, <2>3
<1> QED
  BY <1>1, <1>2, <1>3 DEF ControlInv, BatchInv, EstablishInv, LifeInv, Removing

\* handleClose wherever it is called.
LEMMA ControlClose ==
    ASSUME TypeOK, ControlInv, NEW after \in {"event", "batch"}, loopPc = after, CloseEffect(after),
           state # "kConnecting", ev' \subseteq ev,
           \/ UNCHANGED next
           \/ Running("close")
    PROVE  ControlInv'
<1>1. \A op \in {"established", "destroyed"} : InBatch(op)' <=> InBatch(op)
  <2>1. CASE UNCHANGED next
    BY <2>1 DEF InBatch, CloseEffect
  <2>2. CASE Running("close")
    BY <2>2, BatchRun DEF Running, CloseEffect
  <2> QED
    BY <2>1, <2>2
<1>2. /\ InPending("established")' <=> InPending("established")
      /\ InPending("destroyed")' <=> (InPending("destroyed") \/ (inMap /\ ~inMap'))
  <2>1. CASE inMap /\ ~inMap'
    <3>1. Functor("destroyed", NoMessage) \in FunctorSet
      BY FunctorType DEF StrongOps
    <3> QED
      BY <2>1, <3>1, PendingAppend DEF CloseEffect, Functor
  <2>2. CASE ~(inMap /\ ~inMap')
    BY <2>2 DEF InPending, CloseEffect
  <2> QED
    BY <2>1, <2>2
<1>3. /\ Unrun("established")' <=> Unrun("established")
      /\ Unrun("destroyed")' <=> (Unrun("destroyed") \/ (inMap /\ ~inMap'))
  BY <1>1, <1>2 DEF Unrun
<1>4. BatchInv'
  BY DEF ControlInv, BatchInv, CloseEffect
<1>5. EstablishInv'
  BY <1>3 DEF ControlInv, EstablishInv, CloseEffect
<1>6. LifeInv'
  BY <1>3 DEF TypeOK, ControlInv, LifeInv, Removing, CloseEffect, connVars
<1> QED
  BY <1>4, <1>5, <1>6 DEF ControlInv

\* Events are handled while the channel is registered.
LEMMA ControlEvent ==
    ASSUME TypeOK, ControlInv,
           \/ HandleErrorOrClose \/ HandleReadMessage \/ HandleReadEnd
           \/ HandleWriteSome \/ HandleWriteTail \/ HandleWriteError
    PROVE  ControlInv'
<1> USE DEF connVars, dataVars, peerVars, loopVars, queueVars, mapVars, workerVars, otherVars, choices,
            Handling, Watch
<1>1. state # "kConnecting"
  BY DEF ControlInv, EstablishInv, LifeInv, HandleErrorOrClose, HandleReadMessage, HandleReadEnd,
         HandleWriteSome, Writing, HandleWriteTail, HandleWriteError
<1>2. CASE HandleErrorOrClose \/ HandleReadEnd \/ HandleWriteError
  <2>1. CloseEffect("event")
    BY <1>2, HandleCloseEffect DEF HandleErrorOrClose, HandleReadEnd, HandleWriteError
  <2>2. ev' \subseteq ev /\ next' = next /\ loopPc = "event"
    BY <1>2 DEF HandleErrorOrClose, HandleReadEnd, HandleWriteError
  <2> QED
    BY <1>1, <2>1, <2>2, ControlClose
<1>3. CASE HandleReadMessage \/ HandleWriteSome \/ HandleWriteTail
  <2>1. /\ UNCHANGED <<state, socket, queueVars, mapVars, workerVars>>
        /\ ev' \subseteq ev /\ loopPc \in {"event", "tail"}
        /\ \/ loopPc' = "event" /\ UNCHANGED inPoller
           \/ loopPc' = "callback" /\ cont' = "event" /\ UNCHANGED inPoller
           \/ loopPc' = "callback" /\ cont' = "tail" /\ ev # {} /\ inPoller'
    BY <1>3 DEF HandleReadMessage, HandleWriteSome, Writing, HandleWriteTail
  <2>2. /\ Unrun("established")' <=> Unrun("established")
        /\ Unrun("destroyed")' <=> Unrun("destroyed")
    BY <2>1, UnrunSame DEF Unrun
  <2>3. BatchInv'
    BY <2>1 DEF ControlInv, BatchInv
  <2>4. EstablishInv'
    BY <1>1, <2>1, <2>2 DEF ControlInv, EstablishInv
  <2>5. LifeInv'
    <3>1. ev' # {} => ev # {}
      BY <2>1
    <3>2. ev # {} => inPoller /\ socket = "open"
      BY DEF ControlInv, LifeInv
    <3>3. Removing' = Removing
      BY <2>1 DEF Removing
    <3> QED
      BY <1>1, <2>1, <2>2, <3>1, <3>2, <3>3 DEF TypeOK, ControlInv, LifeInv
  <2> QED
    BY <2>3, <2>4, <2>5 DEF ControlInv
<1> QED
  BY <1>2, <1>3

\* The functors.
LEMMA ControlFunctor ==
    ASSUME TypeOK, SenderInv, ControlInv,
           \/ RunEstablished \/ RunDestroyed \/ RunUserSend
           \/ RunSend \/ RunShutdown \/ RunForceClose \/ RunDangling
    PROVE  ControlInv'
<1> USE DEF connVars, dataVars, peerVars, loopVars, queueVars, mapVars, workerVars, otherVars, choices,
            Running
<1>1. /\ next \in 1..Len(batch) /\ next' = next + 1 /\ batch' = batch
      /\ loopPc = "batch" /\ ev = {}
  BY DEF TypeOK, ControlInv, LifeInv,
         RunEstablished, RunDestroyed, RunUserSend, RunSend, RunShutdown, RunForceClose,
         RunDangling, ConnectEstablished, SendInLoop, HandleClose
<1>2. \A op : InBatch(op) <=> (InBatch(op)' \/ batch[next].op = op)
  BY <1>1, BatchRun
<1>3. state = "kConnecting" <=> batch[next].op = "established"
  <2>1. InBatch(batch[next].op)
    BY <1>1 DEF InBatch, TypeOK
  <2> QED
    BY <1>1, <2>1 DEF ControlInv, EstablishInv, Unrun, Functor
<1>4. CASE RunEstablished
  <2>1. /\ state = "kConnecting" /\ batch[next].op = "established"
        /\ pending = <<>> /\ batch = <<Functor("established", NoMessage)>> /\ next = 1
        /\ inMap /\ ~Removing /\ socket = "open"
    BY <1>1, <1>3, <1>4 DEF TypeOK, RunEstablished, ControlInv, EstablishInv, Removing, LifeInv
  <2>2. pending' = <<>> /\ batch' = batch /\ next' = 2
    BY <1>1, <1>4, <2>1 DEF RunEstablished, ConnectEstablished
  <2>3. \A op : ~Unrun(op)'
    BY <2>1, <2>2 DEF Unrun, InPending, InBatch
  <2> QED
    BY <1>1, <1>4, <2>1, <2>3 DEF RunEstablished, ConnectEstablished, Watch, ControlInv, BatchInv, EstablishInv,
       LifeInv, Removing
<1>5. CASE RunDestroyed
  <2>1. \A op : InPending(op)' <=> InPending(op)
    BY <1>5 DEF RunDestroyed, InPending
  <2>2. batch[next].op = "destroyed" /\ ~inMap /\ state # "kConnecting"
    <3>1. batch[next].op = "destroyed"
      BY <1>5 DEF RunDestroyed
    <3> QED
      BY <1>2, <1>3, <3>1 DEF Unrun, ControlInv, LifeInv
  <2> QED
    BY <1>1, <1>2, <1>5, <2>1, <2>2 DEF RunDestroyed, ControlInv, BatchInv, EstablishInv,
       LifeInv, Removing, Unrun
<1>6. CASE RunUserSend \/ RunSend
  <2>1. batch[next].msg \in Messages /\ batch[next].op \in {"send", "userSend"}
    BY <1>1, <1>6 DEF SenderInv, RunUserSend, RunSend
  <2>2. SendEffect(batch[next].msg, "batch") /\ cont' = "batch"
    BY <1>6, <2>1, SendInLoopEffect DEF RunUserSend, RunSend
  <2>3. \A op : InPending(op)' <=> InPending(op)
    BY <2>2 DEF SendEffect, InPending
  <2> QED
    BY <1>1, <1>2, <1>3, <2>1, <2>2, <2>3 DEF SendEffect, ControlInv, BatchInv, EstablishInv,
       LifeInv, Removing, Unrun
<1>7. CASE RunShutdown \/ RunDangling
  <2>1. UNCHANGED <<state, events, inPoller, socket, loopVars, pending, batch, mapVars, workerVars>>
    BY <1>7 DEF RunShutdown, RunDangling
  <2>2. batch[next].op \in RawOps
    BY <1>7 DEF RunShutdown, RunDangling, RawOps
  <2>3. \A op : InPending(op)' <=> InPending(op)
    BY <2>1 DEF InPending
  <2>4. batch[next].op \notin {"established", "destroyed"}
    BY <2>2 DEF RawOps
  <2> QED
    BY <1>1, <1>2, <1>3, <2>1, <2>3, <2>4 DEF ControlInv, BatchInv, EstablishInv,
       LifeInv, Removing, Unrun
<1>8. CASE RunForceClose
  <2>1. CloseEffect("batch") /\ Running("close") /\ ev' = ev
    BY <1>8, HandleCloseEffect DEF RunForceClose
  <2> QED
    BY <1>1, <1>3, <2>1, ControlClose
<1> QED
  BY <1>4, <1>5, <1>6, <1>7, <1>8

LEMMA ControlIoLoop == TypeOK /\ SenderInv /\ ControlInv /\ IoLoopStep => ControlInv'
<1> SUFFICES ASSUME TypeOK, SenderInv, ControlInv, IoLoopStep PROVE ControlInv'
  OBVIOUS
<1> USE DEF connVars, dataVars, peerVars, loopVars, queueVars, mapVars, workerVars, otherVars, choices
<1>1. CASE EstablishInline
  <2>1. /\ state = "kConnecting" /\ inMap /\ ~Removing /\ socket = "open" /\ ev = {}
        /\ pending = <<>> /\ batch = <<>>
    BY <1>1 DEF EstablishInline, TypeOK, ControlInv, EstablishInv, LifeInv, Removing
  <2>2. pending' = <<>> /\ batch' = <<>> /\ next' = next
    BY <1>1, <2>1 DEF EstablishInline, ConnectEstablished
  <2>3. next \in 1..(Len(batch) + 1)
    BY DEF TypeOK
  <2>4. \A op : ~Unrun(op)'
    BY <2>1, <2>2, <2>3 DEF Unrun, InPending, InBatch
  <2> QED
    BY <1>1, <2>1, <2>2, <2>4 DEF EstablishInline, ConnectEstablished, Watch, ControlInv, BatchInv,
       EstablishInv, LifeInv, Removing
<1>2. CASE Poll \/ ReturnFromCallback
  <2>1. UNCHANGED <<connVars, queueVars, mapVars, workerVars>>
    BY <1>2 DEF Poll, ReturnFromCallback
  <2>2. \A op : Unrun(op)' <=> Unrun(op)
    BY <2>1, UnrunSame DEF Unrun
  <2>3. BatchInv' /\ EstablishInv'
    BY <1>2, <2>1, <2>2 DEF Poll, ReturnFromCallback, TypeOK, ControlInv, BatchInv, EstablishInv
  <2>4. LifeInv'
    <3>1. Removing' = Removing
      BY <2>1 DEF Removing
    <3>2. /\ loopPc' \in {"event", "tail", "batch"}
          /\ ev' # {} => inPoller /\ loopPc' \in {"event", "tail"}
      BY <1>2 DEF Poll, ReturnFromCallback, TypeOK, ControlInv, LifeInv
    <3> QED
      BY <2>1, <2>2, <3>1, <3>2 DEF ControlInv, LifeInv
  <2> QED
    BY <2>3, <2>4 DEF ControlInv
<1>3. CASE SwapFunctors
  <2>1. \A op : Unrun(op)' <=> Unrun(op)
    BY <1>3, QueueSwap DEF Unrun, ControlInv
  <2>2. batch = <<>>
    BY <1>3 DEF SwapFunctors, ControlInv, BatchInv
  <2> QED
    BY <1>3, <2>1, <2>2 DEF SwapFunctors, ControlInv, BatchInv, EstablishInv, LifeInv, Removing
<1>4. CASE FinishFunctors
  <2>1. \A op : Unrun(op)' <=> Unrun(op)
    BY <1>4, BatchFinish DEF Unrun
  <2>2. state # "kConnecting"
    BY <1>4 DEF FinishFunctors, ControlInv, EstablishInv
  <2> QED
    BY <1>4, <2>1, <2>2 DEF FinishFunctors, ControlInv, BatchInv, EstablishInv, LifeInv, Removing
<1> QED
  BY <1>1, <1>2, <1>3, <1>4, ControlEvent, ControlFunctor DEF IoLoopStep

LEMMA ControlStep == TypeOK /\ SenderInv /\ ControlInv /\ [Next]_vars => ControlInv'
<1> SUFFICES ASSUME TypeOK, SenderInv, ControlInv, [Next]_vars PROVE ControlInv'
  OBVIOUS
<1>1. CASE UNCHANGED vars
  <2>1. \A op : Unrun(op)' <=> Unrun(op)
    BY <1>1, UnrunSame DEF Unrun, vars
  <2> QED
    BY <1>1, <2>1 DEF vars, connVars, loopVars, queueVars, mapVars, workerVars, ControlInv, BatchInv,
       EstablishInv, LifeInv, Removing
<1> QED
  BY <1>1, ControlIoLoop, ControlCallback, ControlWorker, ControlAccept, ControlPeer DEF Next

LEMMA ControlInit == Init => ControlInv
<1> SUFFICES ASSUME Init PROVE ControlInv
  OBVIOUS
<1>1. ~Unrun("destroyed")
  BY DEF Init, Unrun, InPending, InBatch, Functor
<1> QED
  BY <1>1 DEF Init, ControlInv, BatchInv, EstablishInv, LifeInv, Removing

-----------------------------------------------------------------------------
(* What the functors and the workers carry.                                *)

Sends(s) == \A i \in 1..Len(s) : s[i].op \in {"send", "userSend"} => s[i].msg \in Messages

\* A functor is queued with what it sends.
LEMMA SendsAppend ==
    ASSUME NEW s \in Seq(FunctorSet), NEW f \in FunctorSet, Sends(s),
           f.op \in {"send", "userSend"} => f.msg \in Messages
    PROVE  Sends(Append(s, f))
<1>1. /\ Len(s) \in Nat /\ Len(Append(s, f)) = Len(s) + 1
      /\ \A i \in 1..Len(s) : Append(s, f)[i] = s[i]
      /\ Append(s, f)[Len(s) + 1] = f
  BY AppendProperties
<1>2. 1..Len(Append(s, f)) = (1..Len(s)) \cup {Len(s) + 1}
  BY <1>1
<1> QED
  BY <1>1, <1>2 DEF Sends

LEMMA SenderInit == Init => SenderInv
BY DEF Init, SenderInv, Functor

\* Who queues a functor that sends gives it a message, and who works on the
\* connection keeps its reference.
LEMMA SenderStep == TypeOK /\ SenderInv /\ ControlInv /\ [Next]_vars => SenderInv'
<1> SUFFICES ASSUME TypeOK, SenderInv, ControlInv, [Next]_vars PROVE SenderInv'
  OBVIOUS
<1> USE DEF connVars, dataVars, peerVars, loopVars, queueVars, mapVars, workerVars, otherVars, choices
<1> DEFINE WorkersInv == \A w \in Workers :
              (wpc[w] = "send" => wmsg[w] \in Messages) /\ (wpc[w] # "idle" => holds[w])
<1>1. SenderInv <=> Sends(pending) /\ Sends(batch) /\ WorkersInv
  BY DEF SenderInv, Sends
<1>2. SenderInv' <=> (Sends(pending') /\ Sends(batch') /\ WorkersInv')
  BY DEF SenderInv, Sends
<1>3. /\ pending \in Seq(FunctorSet)
      /\ \A op \in {"destroyed", "close"} :
            /\ Functor(op, NoMessage) \in FunctorSet
            /\ Functor(op, NoMessage).op = op
      /\ \A m \in Messages : /\ Functor("userSend", m) \in FunctorSet
                             /\ Functor("userSend", m).msg = m
  BY FunctorType DEF TypeOK, StrongOps, RawOps, Functor
<1>4. Sends(Append(pending, Functor("destroyed", NoMessage)))
  BY <1>1, <1>3, SendsAppend
<1>5. Sends(Append(pending, Functor("close", NoMessage)))
  BY <1>1, <1>3, SendsAppend
<1>6. CASE UNCHANGED <<pending, batch, workerVars>>
  BY <1>1, <1>2, <1>6
<1>7. CASE SwapFunctors
  BY <1>1, <1>2, <1>7 DEF SwapFunctors, Sends
<1>8. CASE FinishFunctors
  BY <1>1, <1>2, <1>8 DEF FinishFunctors, Sends
<1>9. ASSUME NEW after, HandleClose(after) PROVE SenderInv'
  BY <1>1, <1>2, <1>4, <1>9, HandleCloseEffect DEF CloseEffect
<1>10. CASE RunRemoval
  BY <1>1, <1>2, <1>4, <1>10 DEF RunRemoval
<1>11. CASE ForcingClose
  BY <1>1, <1>2, <1>5, <1>11 DEF ForcingClose
<1>12. ASSUME NEW w \in Workers, WorkerStep(w) PROVE SenderInv'
  <2> USE DEF Worker, Goto
  <2>1. Sends(batch')
    BY <1>1, <1>12 DEF WorkerStep, WorkerGoesOn, WorkerPost, WorkerTestSend,
       WorkerTestShutdown, WorkerTestForceClose, WorkerStore, WorkerQueue, WorkerRelease
  <2>2. Sends(pending')
    <3>1. ASSUME NEW m \in Messages, WorkerPost(w, m) PROVE Sends(pending')
      BY <1>1, <1>3, <3>1, SendsAppend DEF WorkerPost, Enqueue
    <3>2. CASE WorkerQueue(w)
      <4>1. Functor(wpc[w], wmsg[w]) \in FunctorSet
        BY <3>2 DEF TypeOK, WorkerQueue, Functor, FunctorSet
      <4>2. Functor(wpc[w], wmsg[w]).op \in {"send", "userSend"} =>
               Functor(wpc[w], wmsg[w]).msg \in Messages
        BY <1>1, <3>2 DEF Functor, WorkerQueue, RawOps
      <4> QED
        BY <1>1, <1>3, <3>2, <4>1, <4>2, SendsAppend DEF WorkerQueue, Enqueue
    <3>3. UNCHANGED pending \/ WorkerQueue(w) \/ \E m \in Messages : WorkerPost(w, m)
      BY <1>12 DEF WorkerStep, WorkerGoesOn, WorkerTestSend, WorkerTestShutdown,
           WorkerTestForceClose, WorkerStore, WorkerRelease
    <3> QED
      BY <1>1, <3>1, <3>2, <3>3
  <2>3. WorkersInv'
    BY <1>1, <1>12 DEF TypeOK, WorkerStep, WorkerGoesOn, WorkerPost, WorkerTestSend,
       WorkerTestShutdown, WorkerTestForceClose, WorkerStore, WorkerQueue, WorkerRelease
  <2> QED
    BY <1>2, <2>1, <2>2, <2>3
<1>13. ASSUME NEW w \in Workers, HandToWorker(w) PROVE SenderInv'
  BY <1>1, <1>2, <1>13 DEF TypeOK, HandToWorker
<1>14. \/ UNCHANGED <<pending, batch, workerVars>> \/ SwapFunctors \/ FinishFunctors
       \/ (\E after : HandleClose(after)) \/ RunRemoval \/ ForcingClose
       \/ (\E w \in Workers : WorkerStep(w) \/ HandToWorker(w))
  BY DEF vars, Next, PeerStep, PeerCloses, PeerResets, PeerReads, AcceptLoopStep, FinishRemovals,
     CallbackStep, CallbackSend, SendInLoop, CallbackSendBuffer, CallbackSendEmptyBuffer,
     CallbackShutdown, CallbackForceClose, IoLoopStep, EstablishInline, ConnectEstablished, Poll,
     HandleErrorOrClose, HandleReadMessage, HandleReadEnd, HandleWriteSome, Writing,
     HandleWriteTail, HandleWriteError, RunEstablished, RunDestroyed, RunUserSend,
     RunSend, RunShutdown, RunForceClose, RunDangling, ReturnFromCallback
<1> QED
  BY <1>6, <1>7, <1>8, <1>9, <1>10, <1>11, <1>12, <1>13, <1>14

-----------------------------------------------------------------------------
(* The output.                                                             *)

LEMMA OutputInit == Init => OutputInv
<1> SUFFICES ASSUME Init PROVE OutputInv
  OBVIOUS
<1>1. output = <<>> /\ wire = <<>> /\ accepted = <<>>
  BY DEF Init
<1>2. <<>> \o <<>> = <<>>
  BY ConcatEmptySeq, EmptySeq
<1> QED
  BY <1>1, <1>2 DEF OutputInv, StreamIntact

\* handleWrite passes on the first bytes of the buffer, and stops asking for
\* write events when it has passed on the last.
LEMMA OutputWrite == TypeOK /\ OutputInv /\ HandleWriteSome => OutputInv'
<1> SUFFICES ASSUME TypeOK, OutputInv, HandleWriteSome PROVE OutputInv'
  OBVIOUS
<1>1. PICK n \in SendResults(output) :
          n > 0 /\ Transmit(output, n) /\ output' = SubSeq(output, n + 1, Len(output))
  BY DEF HandleWriteSome
<1>2. output \in ByteSeq /\ n \in Int /\ n <= Len(output)
  BY <1>1, SendResultsType DEF TypeOK, ByteSeq
<1>3. Max({n, 0}) = n
  BY <1>1, <1>2, MaxOfTwo
<1>4. wire' \o output' = wire \o output
  BY <1>1, <1>2, <1>3, TransmitEffect
<1>5. accepted' = accepted /\ "W" \in events /\ (output' # <<>> => events' = events)
  BY DEF HandleWriteSome, Writing
<1> QED
  BY <1>4, <1>5 DEF OutputInv, StreamIntact

LEMMA OutputStep == TypeOK /\ SenderInv /\ OutputInv /\ [Next]_vars => OutputInv'
<1> SUFFICES ASSUME TypeOK, SenderInv, OutputInv, [Next]_vars PROVE OutputInv'
  OBVIOUS
<1> USE DEF connVars, dataVars, peerVars, loopVars, queueVars, mapVars, workerVars, otherVars, choices
<1> DEFINE Kept ==
              /\ UNCHANGED <<output, wire, accepted>>
              /\ \/ UNCHANGED <<events, socket>>
                 \/ socket' = "null"
                 \/ \E e : events' = events \cup {e} /\ socket' = socket
<1>1. CASE Kept
  BY <1>1 DEF OutputInv, StreamIntact
<1>2. ASSUME NEW m \in Messages, CallbackSend(m) PROVE OutputInv'
  BY <1>2, SendInLoopEffect DEF CallbackSend, SendEffect
<1>3. ASSUME NEW m \in Messages, CallbackSendBuffer(m) PROVE OutputInv'
  <2>1. {output, wire, Bytes(m)} \subseteq ByteSeq
    BY BytesType DEF TypeOK, ByteSeq
  <2>2. (wire \o output) \o Bytes(m) = wire \o (output \o Bytes(m))
    BY <2>1, Regroup
  <2> QED
    BY <1>3, <2>2 DEF CallbackSendBuffer, Watch, OutputInv, StreamIntact
<1>4. CASE RunUserSend \/ RunSend
  <2>1. next \in 1..Len(batch)
    BY <1>4 DEF TypeOK, RunUserSend, RunSend, Running
  <2>2. batch[next].msg \in Messages
    BY <1>4, <2>1 DEF SenderInv, RunUserSend, RunSend, Running
  <2>3. SendEffect(batch[next].msg, "batch")
    BY <1>4, <2>2, SendInLoopEffect DEF RunUserSend, RunSend
  <2> QED
    BY <2>3 DEF SendEffect
<1>5. PeerStep \/ AcceptLoopStep \/ UNCHANGED vars \/ (\E w \in Workers : WorkerStep(w)) => Kept
  BY DEF vars, PeerStep, PeerCloses, PeerResets, PeerReads, AcceptLoopStep, RunRemoval,
     FinishRemovals, WorkerStep, WorkerGoesOn, WorkerPost, WorkerTestSend,
     WorkerTestShutdown, WorkerTestForceClose, WorkerStore, WorkerQueue, WorkerRelease
<1>6. CallbackStep => Kept \/ \E m \in Messages : CallbackSend(m) \/ CallbackSendBuffer(m)
  BY DEF CallbackStep, CallbackSendEmptyBuffer, Watch, ForcingClose, HandToWorker,
     CallbackShutdown, CallbackForceClose
<1>7. IoLoopStep => Kept \/ HandleWriteSome \/ RunUserSend \/ RunSend
  BY DEF IoLoopStep, EstablishInline, ConnectEstablished, Watch, Poll,
     HandleErrorOrClose, HandleReadMessage, HandleReadEnd,
     HandleWriteTail, HandleWriteError, HandleClose, RunEstablished, RunDestroyed,
     RunShutdown, RunForceClose, RunDangling, ReturnFromCallback, SwapFunctors, FinishFunctors
<1> QED
  BY <1>1, <1>2, <1>3, <1>4, <1>5, <1>6, <1>7, OutputWrite DEF Next

\* SafeInv is inductive.
LEMMA SafeInit == Init => SafeInv
BY InitType, SenderInit, ControlInit, OutputInit DEF SafeInv, ControlInv

LEMMA SafeStep == SafeInv /\ [Next]_vars => SafeInv'
BY TypeStep, SenderStep, ControlStep, OutputStep DEF SafeInv, ControlInv

-----------------------------------------------------------------------------
(* Connections used through their loop.                                    *)

\* A functor op is queued at the IO loop.
Adds(op) ==
    /\ \E m : Functor(op, m) \in FunctorSet /\ pending' = Append(pending, Functor(op, m))
    /\ UNCHANGED batch

\* What a step may do to the functors: it leaves them alone, queues one, takes
\* the queued ones, or goes on to the next.
QueueStep ==
    \/ UNCHANGED <<queueVars, socket>>
    \/ Adds("userSend") /\ UNCHANGED <<next, socket>>
    \/ Adds("close") /\ UNCHANGED <<next, socket>> /\ loopPc = "callback" /\ state # "kDisconnected"
    \/ Adds("destroyed") /\ UNCHANGED <<next, socket>>
    \/ SwapFunctors \/ FinishFunctors
    \/ RunDestroyed
    \/ \E op : Running(op) /\ UNCHANGED <<pending, batch, socket>>
    \/ Running("close") /\ Adds("destroyed") /\ UNCHANGED socket

\* handleClose queues connectDestroyed at most, and closes.
LEMMA CloseQueues ==
    ASSUME TypeOK, NEW after, HandleClose(after)
    PROVE  /\ UNCHANGED <<batch, socket, wpc, fault, use>>
           /\ UNCHANGED pending \/ Adds("destroyed")
           /\ state' = "kDisconnected"
<1>1. Functor("destroyed", NoMessage) \in FunctorSet
  BY FunctorType DEF StrongOps
<1> QED
  BY <1>1, HandleCloseEffect DEF CloseEffect, Adds, workerVars, otherVars, choices

\* Workers that only post keep to these ways.
LEMMA QueueSteps ==
    ASSUME TypeOK, ThroughLoop, QuietInv, [Next]_vars
    PROVE  QueueStep
<1> USE DEF connVars, dataVars, peerVars, loopVars, queueVars, mapVars, workerVars, otherVars, choices
<1>1. /\ \A m \in Messages : Functor("userSend", m) \in FunctorSet
      /\ Functor("close", NoMessage) \in FunctorSet
      /\ Functor("destroyed", NoMessage) \in FunctorSet
  BY FunctorType DEF StrongOps, RawOps
<1>2. PeerStep \/ UNCHANGED vars => QueueStep
  BY DEF vars, QueueStep, PeerStep, PeerCloses, PeerResets, PeerReads
<1>3. AcceptLoopStep => QueueStep
  BY <1>1 DEF QueueStep, Adds, AcceptLoopStep, RunRemoval, FinishRemovals
<1>4. ASSUME NEW w \in Workers, WorkerStep(w) PROVE QueueStep
  <2>1. wpc[w] = "idle"
    BY DEF QuietInv
  <2>2. ASSUME NEW m \in Messages, WorkerPost(w, m) PROVE QueueStep
    BY <1>1, <2>2 DEF WorkerPost, Enqueue, QueueStep, Adds
  <2>3. WorkerRelease(w) => QueueStep
    BY DEF WorkerRelease, QueueStep
  <2>4. \/ WorkerRelease(w)
        \/ \E m \in Messages : WorkerPost(w, m)
    BY <1>4, <2>1 DEF ThroughLoop, Worker, WorkerStep, WorkerGoesOn, WorkerTestSend, WorkerTestShutdown,
       WorkerTestForceClose, WorkerStore, WorkerQueue, RawOps
  <2> QED
    BY <2>2, <2>3, <2>4
<1>5. CallbackStep => QueueStep
  <2>1. CallbackForceClose => QueueStep
    BY <1>1 DEF QueueStep, Adds, CallbackForceClose, ForcingClose, Calling
  <2> QED
    BY <2>1 DEF QueueStep, CallbackStep, CallbackSend, SendInLoop, CallbackSendBuffer,
       CallbackSendEmptyBuffer, CallbackShutdown, HandToWorker
<1>6. HandleErrorOrClose \/ HandleReadEnd \/ HandleWriteError => QueueStep
  BY CloseQueues DEF QueueStep, HandleErrorOrClose, HandleReadEnd, HandleWriteError
<1>7. RunForceClose => QueueStep
  BY CloseQueues DEF QueueStep, RunForceClose
<1>8. RunEstablished \/ RunUserSend \/ RunSend \/ RunShutdown \/ RunDangling => QueueStep
  <2>1. RunEstablished => QueueStep
    BY DEF QueueStep, RunEstablished, ConnectEstablished
  <2>2. RunUserSend => QueueStep
    BY DEF QueueStep, RunUserSend, SendInLoop
  <2>3. RunSend => QueueStep
    BY DEF QueueStep, RunSend, SendInLoop
  <2>4. RunShutdown => QueueStep
    BY DEF QueueStep, RunShutdown
  <2>5. RunDangling => QueueStep
    BY DEF QueueStep, RunDangling
  <2> QED
    BY <2>1, <2>2, <2>3, <2>4, <2>5
<1>9. EstablishInline \/ Poll \/ HandleReadMessage \/ HandleWriteTail \/ ReturnFromCallback => QueueStep
  BY DEF QueueStep, EstablishInline, ConnectEstablished, Poll, HandleReadMessage, HandleWriteTail,
     ReturnFromCallback
<1>10. HandleWriteSome => QueueStep
  BY DEF QueueStep, HandleWriteSome, Writing
<1>11. SwapFunctors \/ FinishFunctors \/ RunDestroyed => QueueStep
  BY DEF QueueStep
<1> QED
  BY <1>2, <1>3, <1>4, <1>5, <1>6, <1>7, <1>8, <1>9, <1>10,
     <1>11 DEF Next, IoLoopStep

\* What a step leaves to be run.
LEMMA AddsEffect ==
    ASSUME TypeOK, NEW added, Adds(added)
    PROVE  \A op : InPending(op)' <=> (InPending(op) \/ op = added)
<1>1. PICK m : Functor(added, m) \in FunctorSet /\ pending' = Append(pending, Functor(added, m))
  BY DEF Adds
<1> QED
  BY <1>1, PendingAppend DEF Functor

\* What is new to run has been queued by the step.
LEMMA UnrunSteps ==
    ASSUME SafeInv, QueueStep
    PROVE  \A op : Unrun(op)' => \/ Unrun(op) \/ op \in {"userSend", "destroyed"}
                                 \/ op = "close" /\ loopPc = "callback"
<1> USE DEF SafeInv, Unrun
<1>1. ASSUME UNCHANGED batch, UNCHANGED next \/ (next <= Len(batch) /\ next' = next + 1)
      PROVE  \A op : InBatch(op)' => InBatch(op)
  <2>1. CASE UNCHANGED next
    BY <1>1, <2>1 DEF InBatch
  <2>2. CASE next <= Len(batch) /\ next' = next + 1
    BY <1>1, <2>2, BatchRun
  <2> QED
    BY <1>1, <2>1, <2>2
<1>2. UNCHANGED pending => \A op : InPending(op)' <=> InPending(op)
  BY DEF InPending
<1>3. CASE UNCHANGED queueVars
  BY <1>1, <1>2, <1>3 DEF queueVars
<1>4. CASE SwapFunctors
  BY <1>4, QueueSwap
<1>5. CASE FinishFunctors
  BY <1>5, BatchFinish
<1>6. CASE RunDestroyed \/ \E op : Running(op) /\ UNCHANGED <<pending, batch>>
  BY <1>1, <1>2, <1>6 DEF RunDestroyed, Running
<1>7. ASSUME NEW added, Adds(added), UNCHANGED next \/ Running("close")
      PROVE  \A op : Unrun(op)' => Unrun(op) \/ op = added
  BY <1>1, <1>7, AddsEffect DEF Adds, Running
<1> QED
  BY <1>3, <1>4, <1>5, <1>6, <1>7 DEF QueueStep

\* Nothing leaves kDisconnected, and nobody queues shutdownInLoop or sendInLoop.
LEMMA QuietStep ==
    ASSUME SafeInv, ThroughLoop, QuietInv, [Next]_vars
    PROVE  QuietInv'
<1> USE DEF connVars, dataVars, peerVars, loopVars, queueVars, mapVars, workerVars, otherVars, choices
<1>1. ~Unrun("send")' /\ ~Unrun("shutdown")'
  BY QueueSteps, UnrunSteps DEF QuietInv, SafeInv
<1>2. TypeOK /\ \A w \in Workers : wpc[w] = "idle"
  BY DEF QuietInv, SafeInv
<1>3. CASE UNCHANGED <<wpc, mapVars>> /\ state # "kDisconnected"
  <2>1. ~Removing'
    BY <1>2, <1>3 DEF QuietInv, Removing
  <2> QED
    BY <1>1, <1>2, <1>3, <2>1 DEF QuietInv
<1>4. CASE UNCHANGED <<wpc, mapVars, state>>
  <2>1. Removing' = Removing
    BY <1>4 DEF Removing
  <2> QED
    BY <1>1, <1>2, <1>4, <2>1 DEF QuietInv
<1>5. ASSUME NEW after, HandleClose(after) PROVE QuietInv'
  BY <1>1, <1>2, <1>5, CloseQueues DEF QuietInv
<1>6. AcceptLoopStep => QuietInv'
  <2>1. AcceptLoopStep => Removing /\ UNCHANGED <<wpc, state>>
    BY DEF AcceptLoopStep, RunRemoval, FinishRemovals, Removing
  <2> QED
    BY <1>1, <1>2, <2>1 DEF QuietInv
<1>7. PeerStep \/ UNCHANGED vars => UNCHANGED <<wpc, mapVars, state>>
  BY DEF vars, PeerStep, PeerCloses, PeerResets, PeerReads
<1>8. ASSUME NEW w \in Workers, WorkerStep(w) PROVE UNCHANGED <<wpc, mapVars, state>>
  BY <1>2, <1>8 DEF ThroughLoop, Worker, WorkerStep, WorkerGoesOn, WorkerPost, WorkerRelease,
     WorkerTestSend, WorkerTestShutdown, WorkerTestForceClose, WorkerStore, WorkerQueue, RawOps
<1>9. CallbackStep => UNCHANGED <<wpc, mapVars>> /\ (UNCHANGED state \/ state # "kDisconnected")
  BY DEF CallbackStep, CallbackSend, SendInLoop, CallbackSendBuffer, CallbackSendEmptyBuffer,
     CallbackShutdown, CallbackForceClose, ForcingClose, HandToWorker
<1>10. EstablishInline \/ RunEstablished => UNCHANGED <<wpc, mapVars>> /\ state # "kDisconnected"
  <2>1. RunEstablished => InBatch("established")
    BY <1>2 DEF RunEstablished, Running, InBatch, TypeOK
  <2> QED
    BY <2>1 DEF EstablishInline, RunEstablished, ConnectEstablished, SafeInv, EstablishInv, Unrun
<1>11. HandleErrorOrClose \/ HandleReadEnd \/ HandleWriteError \/ RunForceClose => QuietInv'
  BY <1>5 DEF HandleErrorOrClose, HandleReadEnd, HandleWriteError, RunForceClose
<1>12. RunUserSend \/ RunSend => UNCHANGED <<wpc, mapVars, state>>
  BY DEF RunUserSend, RunSend, SendInLoop
<1>13. RunShutdown \/ RunDangling \/ RunDestroyed => UNCHANGED <<wpc, mapVars, state>>
  BY DEF RunShutdown, RunDangling, RunDestroyed
<1>14. Poll \/ HandleReadMessage \/ HandleWriteTail \/ ReturnFromCallback
       \/ SwapFunctors \/ FinishFunctors \/ HandleWriteSome => UNCHANGED <<wpc, mapVars, state>>
  BY DEF Poll, HandleReadMessage, HandleWriteTail, ReturnFromCallback, SwapFunctors, FinishFunctors,
     HandleWriteSome, Writing
<1>15. (\E w \in Workers : WorkerStep(w)) \/ PeerStep \/ UNCHANGED vars \/ CallbackStep => QuietInv'
  BY <1>3, <1>4, <1>7, <1>8, <1>9
<1>16. IoLoopStep => QuietInv'
  BY <1>3, <1>4, <1>10, <1>11, <1>12, <1>13, <1>14 DEF IoLoopStep
<1> QED
  BY <1>6, <1>15, <1>16 DEF Next

\* A handleClose is not queued behind connectDestroyed.
LEMMA CloseFirstAppend ==
    ASSUME NEW s \in Seq(FunctorSet), NEW f \in FunctorSet, CloseFirst(s, 1),
           f.op = "close" => \A i \in 1..Len(s) : s[i].op # "destroyed"
    PROVE  CloseFirst(Append(s, f), 1)
<1>1. /\ Len(s) \in Nat /\ Len(Append(s, f)) = Len(s) + 1
      /\ \A i \in 1..Len(s) : Append(s, f)[i] = s[i]
      /\ Append(s, f)[Len(s) + 1] = f
  BY AppendProperties
<1>2. ASSUME NEW i \in 1..(Len(s) + 1), NEW j \in 1..(Len(s) + 1), i < j,
             Append(s, f)[i].op = "destroyed"
      PROVE  Append(s, f)[j].op # "close"
  <2>1. i \in 1..Len(s) /\ Append(s, f)[i] = s[i]
    BY <1>1, <1>2
  <2>2. CASE j \in 1..Len(s)
    BY <1>1, <1>2, <2>1, <2>2 DEF CloseFirst
  <2>3. CASE j = Len(s) + 1
    BY <1>1, <1>2, <2>1, <2>3
  <2> QED
    BY <1>1, <2>2, <2>3
<1> QED
  BY <1>1, <1>2 DEF CloseFirst

\* forceClose() tests the state: with connectDestroyed queued it is kDisconnected,
\* and no handleClose follows.
LEMMA CloseOrderStep ==
    ASSUME SafeInv, LoopInv, QueueStep
    PROVE  CloseOrderInv'
<1> USE DEF SafeInv, LoopInv
<1>1. next \in 1..(Len(batch) + 1) /\ Len(batch) \in Nat /\ Len(pending) \in Nat
  BY DEF TypeOK
<1>2. UNCHANGED socket => (socket = "null" => ~Unrun("close"))'
  BY UnrunSteps DEF CloseOrderInv
<1>3. CASE UNCHANGED <<queueVars, socket>>
  <2>1. InBatch("destroyed")' = InBatch("destroyed") /\ InPending("close")' = InPending("close")
    BY <1>3 DEF InBatch, InPending, queueVars
  <2> QED
    BY <1>2, <1>3, <2>1 DEF CloseOrderInv, CloseFirst, queueVars
<1>4. CASE SwapFunctors
  <2>1. batch' = pending /\ pending' = <<>> /\ next' = 1 /\ UNCHANGED socket
    BY <1>4 DEF SwapFunctors, connVars
  <2>2. ~InPending("close")' /\ CloseFirst(pending', 1)
    BY <2>1 DEF InPending, CloseFirst
  <2> QED
    BY <1>2, <2>1, <2>2 DEF CloseOrderInv, CloseFirst
<1>5. CASE FinishFunctors
  <2>1. batch' = <<>> /\ pending' = pending /\ next' = 1 /\ UNCHANGED socket
    BY <1>5 DEF FinishFunctors, connVars
  <2>2. ~InBatch("destroyed")' /\ CloseFirst(batch', next')
    BY <2>1 DEF InBatch, CloseFirst
  <2> QED
    BY <1>2, <2>1, <2>2 DEF CloseOrderInv, CloseFirst
<1>6. CASE RunDestroyed \/ \E op : Running(op) /\ UNCHANGED <<pending, batch, socket>>
  <2>1. UNCHANGED <<pending, batch>> /\ next' = next + 1 /\ next <= Len(batch)
    BY <1>6 DEF RunDestroyed, Running
  <2>2. CloseFirst(pending', 1) /\ CloseFirst(batch', next')
    BY <1>1, <2>1 DEF CloseOrderInv, CloseFirst
  <2>3. InPending("close")' = InPending("close") /\ (InBatch("destroyed")' => InBatch("destroyed"))
    BY <1>1, <2>1 DEF InBatch, InPending
  <2>4. (socket = "null" => ~Unrun("close"))'
    <3>1. CASE UNCHANGED socket
      BY <1>2, <3>1
    <3>2. CASE RunDestroyed
      <4>1. next \in next..Len(batch) /\ batch[next].op = "destroyed"
        BY <1>1, <2>1, <3>2 DEF RunDestroyed, Running
      <4>2. InBatch("destroyed")
        BY <4>1 DEF InBatch
      <4>3. \A j \in (next + 1)..Len(batch) : batch[j].op # "close"
        BY <1>1, <4>1 DEF CloseOrderInv, CloseFirst
      <4>4. ~InBatch("close")'
        BY <2>1, <4>3 DEF InBatch
      <4> QED
        BY <2>3, <4>2, <4>4 DEF CloseOrderInv, Unrun
    <3> QED
      BY <1>6, <3>1, <3>2
  <2> QED
    BY <2>2, <2>3, <2>4 DEF CloseOrderInv
<1>7. ASSUME NEW added, Adds(added), UNCHANGED socket, UNCHANGED next \/ Running("close"),
             added \in {"userSend", "destroyed"} \/ (added = "close" /\ state # "kDisconnected")
      PROVE  CloseOrderInv'
  <2>1. PICK m : Functor(added, m) \in FunctorSet /\ pending' = Append(pending, Functor(added, m))
    BY <1>7 DEF Adds
  <2>2. added = "close" => ~InPending("destroyed") /\ ~InBatch("destroyed")
    BY <1>7 DEF QuietInv, LifeInv, Removing, Unrun, TypeOK
  <2>3. \A op : InPending(op)' <=> (InPending(op) \/ op = added)
    BY <1>7, AddsEffect
  <2>4. CloseFirst(pending', 1)
    <3>1. added = "close" => \A i \in 1..Len(pending) : pending[i].op # "destroyed"
      BY <2>2 DEF InPending
    <3> QED
      BY <2>1, <3>1, CloseFirstAppend DEF CloseOrderInv, TypeOK, Functor
  <2>5. UNCHANGED batch /\ next' \in {next, next + 1}
    BY <1>7 DEF Adds, Running
  <2>6. CloseFirst(batch', next')
    BY <1>1, <2>5 DEF CloseOrderInv, CloseFirst
  <2>7. InBatch("destroyed")' => InBatch("destroyed")
    BY <1>1, <2>5 DEF InBatch
  <2> QED
    BY <1>2, <1>7, <2>2, <2>3, <2>4, <2>6, <2>7 DEF CloseOrderInv
<1> QED
  BY <1>3, <1>4, <1>5, <1>6, <1>7 DEF QueueStep

\* What is run next has not been run.
LEMMA RunningUnrun ==
    ASSUME TypeOK, NEW op, Running(op)
    PROVE  InBatch(op) /\ Unrun(op) /\ loopPc = "batch"
BY DEF TypeOK, Running, InBatch, Unrun

\* The user's callbacks are entered with the descriptor open.
LEMMA CallbackOpenStep ==
    ASSUME SafeInv, LoopInv, [Next]_vars
    PROVE  (loopPc = "callback" => socket = "open")'
<1> USE DEF connVars, dataVars, peerVars, loopVars, queueVars, mapVars, workerVars, otherVars, choices
<1> DEFINE Open == loopPc' = "callback" => socket' = "open"
<1>1. TypeOK /\ EstablishInv /\ LifeInv
  BY DEF SafeInv
<1>2. CASE UNCHANGED <<loopPc, socket>>
  BY <1>2 DEF LoopInv
<1>3. (\E w \in Workers : WorkerStep(w)) \/ PeerStep \/ UNCHANGED vars \/ AcceptLoopStep => Open
  <2>1. PeerStep \/ UNCHANGED vars \/ AcceptLoopStep => UNCHANGED <<loopPc, socket>>
    BY DEF vars, PeerStep, PeerCloses, PeerResets, PeerReads, AcceptLoopStep, RunRemoval, FinishRemovals
  <2>2. \A w \in Workers : WorkerStep(w) => UNCHANGED <<loopPc, socket>>
    BY DEF WorkerStep, WorkerGoesOn, WorkerPost, WorkerRelease,
       WorkerTestSend, WorkerTestShutdown, WorkerTestForceClose, WorkerStore, WorkerQueue
  <2> QED
    BY <1>2, <2>1, <2>2
<1>4. CallbackStep => Open
  <2>1. CallbackStep => loopPc = "callback" /\ UNCHANGED socket
    BY DEF CallbackStep, CallbackSend, SendInLoop, CallbackSendBuffer, CallbackSendEmptyBuffer,
       CallbackShutdown, CallbackForceClose, ForcingClose, HandToWorker, Calling
  <2> QED
    BY <2>1 DEF LoopInv
<1>5. ASSUME ev # {}, UNCHANGED socket PROVE Open
  BY <1>1, <1>5 DEF LifeInv
<1>6. HandleErrorOrClose \/ HandleReadMessage \/ HandleReadEnd \/ HandleWriteSome \/ HandleWriteError
         => ev # {} /\ UNCHANGED socket
  BY DEF HandleErrorOrClose, HandleReadMessage, HandleReadEnd, HandleWriteSome, HandleWriteError, Writing,
     Handling, HandleClose
<1>7. Poll \/ SwapFunctors \/ FinishFunctors \/ HandleWriteTail => loopPc' # "callback"
  BY DEF Poll, SwapFunctors, FinishFunctors, HandleWriteTail
<1>8. ReturnFromCallback \/ RunDestroyed \/ RunShutdown \/ RunDangling => loopPc' # "callback"
  BY <1>1 DEF ReturnFromCallback, RunDestroyed, RunShutdown, RunDangling, Running, TypeOK
<1>9. EstablishInline \/ RunEstablished => Open
  <2>1. EstablishInline \/ RunEstablished => state = "kConnecting" /\ UNCHANGED socket
    BY <1>1, RunningUnrun DEF EstablishInline, RunEstablished, ConnectEstablished, EstablishInv
  <2>2. state = "kConnecting" => socket = "open"
    BY <1>1 DEF EstablishInv, LifeInv, TypeOK
  <2> QED
    BY <2>1, <2>2
<1>10. RunUserSend \/ RunSend => Open
  <2>1. RunUserSend \/ RunSend => UNCHANGED socket /\ (loopPc' = "callback" => state = "kConnected")
    BY DEF RunUserSend, RunSend, SendInLoop
  <2> QED
    BY <1>1, <2>1 DEF LifeInv
<1>11. RunForceClose => Open
  <2>1. RunForceClose => UNCHANGED socket /\ Unrun("close")
    BY <1>1, RunningUnrun DEF RunForceClose, HandleClose
  <2> QED
    BY <1>1, <2>1 DEF LoopInv, CloseOrderInv, TypeOK
<1>12. IoLoopStep => Open
  BY <1>5, <1>6, <1>7, <1>8, <1>9, <1>10, <1>11 DEF IoLoopStep
<1> QED
  BY <1>3, <1>4, <1>12 DEF Next

\* A connectDestroyed that has not been run holds the shared_ptr.
LEMMA DestroyIsStrong == TypeOK /\ Unrun("destroyed") => Alive
<1> SUFFICES ASSUME TypeOK, Unrun("destroyed") PROVE Alive
  OBVIOUS
<1>1. /\ \A i \in 1..Len(pending) : pending[i] \in Range(pending)
      /\ \A i \in next..Len(batch) : batch[i] \in Range(batch)
  BY DEF TypeOK, Range
<1> QED
  BY <1>1 DEF Unrun, InPending, InBatch, Alive, StrongOps

\* A queued handleClose finds its connection alive.
LEMMA NoFaultStep ==
    ASSUME SafeInv, LoopInv, [Next]_vars
    PROVE  fault' = "none"
<1> USE DEF connVars, dataVars, peerVars, loopVars, queueVars, mapVars, workerVars, otherVars, choices
<1>1. TypeOK /\ fault = "none"
  BY DEF SafeInv, LoopInv
<1>2. ~RunShutdown
  BY <1>1, RunningUnrun DEF RunShutdown, LoopInv, QuietInv
<1>3. ~RunDangling
  <2> SUFFICES ASSUME RunDangling PROVE FALSE
    OBVIOUS
  <2>1. Unrun("close")
    BY <1>1, RunningUnrun DEF RunDangling, RawOps, LoopInv, QuietInv
  <2>2. inMap \/ Unrun("destroyed")
    BY <1>1, <2>1 DEF LoopInv, CloseOrderInv, SafeInv, LifeInv, TypeOK
  <2> QED
    BY <1>1, <2>2, DestroyIsStrong DEF RunDangling, Alive
<1>4. PeerStep \/ UNCHANGED vars \/ AcceptLoopStep => UNCHANGED fault
  BY DEF vars, PeerStep, PeerCloses, PeerResets, PeerReads, AcceptLoopStep, RunRemoval, FinishRemovals
<1>5. \A w \in Workers : WorkerStep(w) => UNCHANGED fault
  BY DEF WorkerStep, WorkerGoesOn, WorkerPost, WorkerRelease,
     WorkerTestSend, WorkerTestShutdown, WorkerTestForceClose, WorkerStore, WorkerQueue
<1>6. CallbackStep => UNCHANGED fault
  BY DEF CallbackStep, CallbackSend, SendInLoop, CallbackSendBuffer, CallbackSendEmptyBuffer,
     CallbackShutdown, CallbackForceClose, ForcingClose, HandToWorker
<1>7. HandleErrorOrClose \/ HandleReadMessage \/ HandleReadEnd \/ HandleWriteSome \/ HandleWriteError
         \/ HandleWriteTail \/ Poll \/ SwapFunctors \/ FinishFunctors \/ ReturnFromCallback => UNCHANGED fault
  BY DEF HandleErrorOrClose, HandleReadMessage, HandleReadEnd, HandleWriteSome, HandleWriteError, Writing,
     HandleClose, HandleWriteTail, Poll, SwapFunctors, FinishFunctors, ReturnFromCallback
<1>8. EstablishInline \/ RunEstablished \/ RunDestroyed \/ RunUserSend \/ RunSend \/ RunForceClose
         => UNCHANGED fault
  BY DEF EstablishInline, RunEstablished, ConnectEstablished, RunDestroyed, RunUserSend, RunSend, SendInLoop,
     RunForceClose, HandleClose
<1> QED
  BY <1>1, <1>2, <1>3, <1>4, <1>5, <1>6, <1>7, <1>8 DEF Next, IoLoopStep

LEMMA LoopStep == SafeInv /\ ThroughLoop /\ LoopInv /\ [Next]_vars => LoopInv'
<1> SUFFICES ASSUME SafeInv, ThroughLoop, LoopInv, [Next]_vars PROVE LoopInv'
  OBVIOUS
<1>1. QueueStep
  BY QueueSteps DEF SafeInv, LoopInv
<1>2. QuietInv'
  BY QuietStep DEF LoopInv
<1> QED
  BY <1>1, <1>2, CloseOrderStep, CallbackOpenStep, NoFaultStep DEF LoopInv

-----------------------------------------------------------------------------
(* What send() has taken by the time of a half-close.                      *)

\* The bytes of a concatenation.
LEMMA RangeConcat ==
    ASSUME NEW s \in ByteSeq, NEW t \in ByteSeq
    PROVE  Range(s \o t) = Range(s) \cup Range(t)
<1>1. Len(s) \in Nat /\ Len(t) \in Nat /\ Len(s \o t) = Len(s) + Len(t)
  BY ConcatProperties, LenProperties DEF ByteSeq
<1>2. /\ DOMAIN s = 1..Len(s) /\ DOMAIN t = 1..Len(t)
      /\ DOMAIN (s \o t) = 1..(Len(s) + Len(t))
  BY <1>1, ConcatProperties, LenProperties DEF ByteSeq
<1>3. \A i \in 1..(Len(s) + Len(t)) : (s \o t)[i] = IF i <= Len(s) THEN s[i] ELSE t[i - Len(s)]
  BY ConcatProperties DEF ByteSeq
<1>4. ASSUME NEW i \in 1..(Len(s) + Len(t)) PROVE (s \o t)[i] \in Range(s) \cup Range(t)
  <2>1. CASE i <= Len(s)
    BY <1>1, <1>2, <1>3, <2>1 DEF Range
  <2>2. CASE i > Len(s)
    <3>1. i - Len(s) \in 1..Len(t) /\ (s \o t)[i] = t[i - Len(s)]
      BY <1>1, <1>3, <2>2
    <3> QED
      BY <1>2, <3>1 DEF Range
  <2> QED
    BY <1>1, <2>1, <2>2
<1>5. ASSUME NEW i \in 1..Len(s) PROVE s[i] \in Range(s \o t)
  BY <1>1, <1>2, <1>3 DEF Range
<1>6. ASSUME NEW i \in 1..Len(t) PROVE t[i] \in Range(s \o t)
  <2>1. i + Len(s) \in 1..(Len(s) + Len(t)) /\ (s \o t)[i + Len(s)] = t[i]
    BY <1>1, <1>3
  <2> QED
    BY <1>2, <2>1 DEF Range
<1> QED
  BY <1>2, <1>4, <1>5, <1>6 DEF Range

\* send() on the loop reports a message only when sendInLoop has taken it.
LEMMA TakenStep ==
    ASSUME SafeInv, QuietInv, Taken, [Next]_vars
    PROVE  Taken'
<1> USE DEF connVars, dataVars, peerVars, loopVars, queueVars, mapVars, workerVars, otherVars, choices
<1>1. TypeOK /\ SenderInv
  BY DEF SafeInv
<1>2. CASE UNCHANGED <<handed, accepted>>
  BY <1>2 DEF Taken, Bytes
<1>3. ASSUME NEW m \in Messages, accepted' = accepted \o Bytes(m), handed' \subseteq handed \cup {m}
      PROVE  Taken'
  <2>1. Range(accepted') = Range(accepted) \cup Range(Bytes(m))
    <3>1. accepted \in ByteSeq /\ Bytes(m) \in ByteSeq
      BY <1>1, BytesType DEF TypeOK, ByteSeq
    <3> QED
      BY <1>3, <3>1, RangeConcat
  <2>2. ASSUME NEW n \in handed' PROVE Range(Bytes(n)) \subseteq Range(accepted')
    <3>1. CASE n = m
      BY <2>1, <3>1
    <3>2. CASE n # m
      BY <1>3, <2>1, <2>2, <3>2 DEF Taken
    <3> QED
      BY <3>1, <3>2
  <2> QED
    BY <2>2 DEF Taken, Bytes
<1>4. PeerStep \/ UNCHANGED vars \/ AcceptLoopStep => UNCHANGED <<handed, accepted>>
  BY DEF vars, PeerStep, PeerCloses, PeerResets, PeerReads, AcceptLoopStep, RunRemoval, FinishRemovals
<1>5. \A w \in Workers : WorkerStep(w) => UNCHANGED <<handed, accepted>>
  BY DEF QuietInv, WorkerStep, WorkerGoesOn, WorkerPost, WorkerRelease,
     WorkerTestSend, WorkerTestShutdown, WorkerTestForceClose, WorkerStore, WorkerQueue, RawOps
<1>6. CallbackStep => Taken'
  <2>1. ASSUME NEW m \in Messages, CallbackSend(m) \/ CallbackSendBuffer(m) PROVE Taken'
    <3>1. accepted' = accepted \o Bytes(m) /\ handed' = handed \cup {m}
      BY <2>1 DEF CallbackSend, SendInLoop, CallbackSendBuffer
    <3> QED
      BY <1>3, <3>1
  <2> QED
    BY <1>2, <2>1 DEF CallbackStep, CallbackSendEmptyBuffer, CallbackShutdown, CallbackForceClose,
       ForcingClose, HandToWorker
<1>7. RunUserSend \/ RunSend => Taken'
  <2> SUFFICES ASSUME RunUserSend \/ RunSend PROVE Taken'
    OBVIOUS
  <2> DEFINE m == batch[next].msg
  <2>1. m \in Messages
    BY <1>1 DEF TypeOK, SenderInv, RunUserSend, RunSend, Running
  <2>2. CASE state = "kConnected"
    <3>1. accepted' = accepted \o Bytes(m) /\ handed' \subseteq handed \cup {m}
      BY <2>2 DEF RunUserSend, RunSend, SendInLoop
    <3> QED
      BY <1>3, <2>1, <3>1
  <2>3. CASE state # "kConnected"
    BY <1>2, <2>3 DEF RunUserSend, RunSend, SendInLoop
  <2> QED
    BY <2>2, <2>3
<1>8. HandleErrorOrClose \/ HandleReadMessage \/ HandleReadEnd \/ HandleWriteSome \/ HandleWriteError
         \/ HandleWriteTail \/ Poll \/ SwapFunctors \/ FinishFunctors \/ ReturnFromCallback
      => UNCHANGED <<handed, accepted>>
  BY DEF HandleErrorOrClose, HandleReadMessage, HandleReadEnd, HandleWriteSome, HandleWriteError, Writing,
     HandleClose, HandleWriteTail, Poll, SwapFunctors, FinishFunctors, ReturnFromCallback
<1>9. EstablishInline \/ RunEstablished \/ RunDestroyed \/ RunForceClose \/ RunShutdown \/ RunDangling
      => UNCHANGED <<handed, accepted>>
  BY DEF EstablishInline, RunEstablished, ConnectEstablished, RunDestroyed,
     RunForceClose, HandleClose, RunShutdown, RunDangling
<1>10. IoLoopStep => Taken'
  BY <1>2, <1>7, <1>8, <1>9 DEF IoLoopStep
<1> QED
  BY <1>2, <1>4, <1>5, <1>6, <1>10 DEF Next

\* handleWrite calls the write-complete callback with outputBuffer_ empty; what
\* the callback sends keeps the state kConnected.
LEMMA DrainedStep ==
    ASSUME SafeInv, QuietInv, Drained, [Next]_vars
    PROVE  Drained'
<1> USE DEF connVars, dataVars, peerVars, loopVars, queueVars, mapVars, workerVars, otherVars, choices
<1>1. CASE UNCHANGED <<use, forced, state, loopPc, cont, output>>
  BY <1>1 DEF Drained, InWriteComplete
<1>2. CASE state' # "kDisconnecting" \/ forced' \/ ~InWriteComplete'
  BY <1>2 DEF Drained
<1>3. PeerStep \/ UNCHANGED vars \/ AcceptLoopStep => Drained'
  <2>1. PeerStep \/ UNCHANGED vars \/ AcceptLoopStep => UNCHANGED <<use, forced, state, loopPc, cont, output>>
    BY DEF vars, PeerStep, PeerCloses, PeerResets, PeerReads, AcceptLoopStep, RunRemoval, FinishRemovals
  <2> QED
    BY <1>1, <2>1
<1>4. \A w \in Workers : WorkerStep(w) => Drained'
  <2>1. \A w \in Workers : WorkerStep(w) =>
           UNCHANGED <<use, forced, state, loopPc, cont, output>>
    BY DEF QuietInv, WorkerStep, WorkerGoesOn, WorkerPost, WorkerRelease,
       WorkerTestSend, WorkerTestShutdown, WorkerTestForceClose, WorkerStore, WorkerQueue, RawOps
  <2> QED
    BY <1>1, <2>1
<1>5. CallbackStep => Drained'
  <2>1. \A m \in Messages : CallbackSend(m) \/ CallbackSendBuffer(m) => state' # "kDisconnecting"
    BY DEF CallbackSend, SendInLoop, CallbackSendBuffer
  <2>2. CallbackSendEmptyBuffer => state' # "kDisconnecting"
    BY DEF CallbackSendEmptyBuffer
  <2>3. CallbackShutdown => Drained'
    BY DEF CallbackShutdown, Calling, Drained, InWriteComplete
  <2>4. CallbackForceClose => forced'
    BY DEF CallbackForceClose, ForcingClose
  <2>5. \A w \in Workers : HandToWorker(w) => UNCHANGED <<use, forced, state, loopPc, cont, output>>
    BY DEF HandToWorker
  <2> QED
    BY <1>1, <1>2, <2>1, <2>2, <2>3, <2>4, <2>5 DEF CallbackStep
<1>6. HandleErrorOrClose \/ HandleReadEnd \/ HandleWriteError \/ RunForceClose => state' # "kDisconnecting"
  BY DEF HandleErrorOrClose, HandleReadEnd, HandleWriteError, RunForceClose, HandleClose
<1>7. HandleReadMessage \/ HandleWriteTail \/ Poll \/ SwapFunctors \/ FinishFunctors => ~InWriteComplete'
  BY DEF HandleReadMessage, HandleWriteTail, Poll, SwapFunctors, FinishFunctors, InWriteComplete
<1>8. HandleWriteSome => Drained'
  BY DEF HandleWriteSome, Writing, Handling, Drained, InWriteComplete
<1>9. ReturnFromCallback => Drained'
  BY DEF ReturnFromCallback, Drained, InWriteComplete
<1>10. EstablishInline \/ RunEstablished => state' # "kDisconnecting"
  BY DEF EstablishInline, RunEstablished, ConnectEstablished
<1>11. RunDestroyed \/ RunShutdown \/ RunDangling => ~InWriteComplete'
  BY DEF RunDestroyed, RunShutdown, RunDangling, Running, InWriteComplete
<1>12. RunUserSend \/ RunSend => ~InWriteComplete'
  BY DEF RunUserSend, RunSend, SendInLoop, Running, InWriteComplete
<1>13. IoLoopStep => Drained'
  BY <1>2, <1>6, <1>7, <1>8, <1>9, <1>10, <1>11, <1>12 DEF IoLoopStep
<1> QED
  BY <1>3, <1>4, <1>5, <1>13 DEF Next

-----------------------------------------------------------------------------
(* The invariant, and what it shows.                                       *)

\* The application does not change its ways.
LEMMA UseKept == [Next]_vars => (ThroughLoop' <=> ThroughLoop)
<1> USE DEF connVars, dataVars, peerVars, loopVars, queueVars, mapVars, workerVars, otherVars, choices
<1>1. PeerStep \/ UNCHANGED vars \/ AcceptLoopStep \/ CallbackStep => UNCHANGED use
  BY DEF vars, PeerStep, PeerCloses, PeerResets, PeerReads, AcceptLoopStep, RunRemoval, FinishRemovals,
     CallbackStep, CallbackSend, SendInLoop, CallbackSendBuffer, CallbackSendEmptyBuffer,
     CallbackShutdown, CallbackForceClose, ForcingClose, HandToWorker
<1>2. \A w \in Workers : WorkerStep(w) => UNCHANGED use
  BY DEF WorkerStep, WorkerGoesOn, WorkerPost, WorkerRelease,
     WorkerTestSend, WorkerTestShutdown, WorkerTestForceClose, WorkerStore, WorkerQueue
<1>3. HandleErrorOrClose \/ HandleReadMessage \/ HandleReadEnd \/ HandleWriteSome \/ HandleWriteError
         \/ HandleWriteTail \/ Poll \/ SwapFunctors \/ FinishFunctors \/ ReturnFromCallback => UNCHANGED use
  BY DEF HandleErrorOrClose, HandleReadMessage, HandleReadEnd, HandleWriteSome, HandleWriteError, Writing,
     HandleClose, HandleWriteTail, Poll, SwapFunctors, FinishFunctors, ReturnFromCallback
<1>4. EstablishInline \/ RunEstablished \/ RunDestroyed \/ RunForceClose \/ RunShutdown \/ RunDangling
         \/ RunUserSend \/ RunSend => UNCHANGED use
  BY DEF EstablishInline, RunEstablished, ConnectEstablished, RunDestroyed, RunUserSend, RunSend, SendInLoop,
     RunForceClose, HandleClose, RunShutdown, RunDangling
<1>5. [Next]_vars => UNCHANGED use
  BY <1>1, <1>2, <1>3, <1>4 DEF Next, IoLoopStep
<1> QED
  BY <1>5 DEF ThroughLoop

LEMMA ConnInit == Init => ConnInv
<1> SUFFICES ASSUME Init PROVE ConnInv
  OBVIOUS
<1>1. SafeInv
  BY SafeInit
<1>2. \A op : ~InBatch(op) /\ (InPending(op) => op = "established")
  BY DEF Init, InBatch, InPending, Functor
<1>3. QuietInv
  BY <1>2 DEF Init, QuietInv, Removing, Unrun
<1>4. CloseOrderInv
  BY <1>2 DEF Init, CloseOrderInv, CloseFirst, Functor
<1>5. DrainInv
  BY DEF Init, DrainInv, Taken, Drained
<1> QED
  BY <1>1, <1>3, <1>4, <1>5 DEF Init, ConnInv, LoopInv

LEMMA ConnStep == ConnInv /\ [Next]_vars => ConnInv'
<1> SUFFICES ASSUME ConnInv, [Next]_vars PROVE ConnInv'
  OBVIOUS
<1>1. SafeInv'
  BY SafeStep DEF ConnInv
<1>2. ThroughLoop' => LoopInv' /\ DrainInv'
  BY UseKept, LoopStep, TakenStep, DrainedStep DEF ConnInv, LoopInv, DrainInv
<1> QED
  BY <1>1, <1>2 DEF ConnInv

\* ConnInv is an invariant of every connection: connectEstablished runs before
\* anything else, connectDestroyed is queued when removeConnectionInLoop erases
\* the connection, output waits for write events; and, used through its loop, no
\* functor that captured `this' is queued behind connectDestroyed.
THEOREM InvCorrect == Spec => []ConnInv
<1> QED
  BY ConnInit, ConnStep, PTL DEF Spec

\* The types of the connection's state, the queues of its loop and the bytes of
\* outputBuffer_.
THEOREM TypeCorrect == Spec => []TypeOK
<1>1. ConnInv => TypeOK
  BY DEF ConnInv, SafeInv
<1> QED
  BY <1>1, InvCorrect, PTL

\* sendInLoop, send(Buffer*) and handleWrite neither lose, repeat nor reorder
\* bytes, whatever send(2) answers: accepted = wire \o output.
THEOREM StreamIntactCorrect == Spec => []StreamIntact
<1>1. ConnInv => StreamIntact
  BY DEF ConnInv, SafeInv, OutputInv
<1> QED
  BY <1>1, InvCorrect, PTL

\* sendInLoop enables writing whenever it leaves something in outputBuffer_, and
\* handleWrite disables it only when it has emptied it.
THEOREM PendingOutputIsPolledCorrect == Spec => []PendingOutputIsPolled
<1>1. ConnInv => PendingOutputIsPolled
  BY DEF ConnInv, SafeInv, OutputInv, LifeInv, PendingOutputIsPolled
<1> QED
  BY <1>1, InvCorrect, PTL

\* The poller's Channel*, and the events of a poll, belong to a connection that
\* exists: the map holds it, or connectDestroyed is queued with its shared_ptr
\* and will take the channel out of the poller.
THEOREM WatchedIsAliveCorrect == Spec => []WatchedIsAlive
<1>1. ConnInv => WatchedIsAlive
  <2> SUFFICES ASSUME ConnInv, inPoller \/ ev # {} PROVE Alive /\ socket = "open"
    BY DEF WatchedIsAlive
  <2>1. TypeOK /\ socket = "open" /\ (inMap \/ Unrun("destroyed"))
    BY DEF ConnInv, SafeInv, LifeInv
  <2> QED
    BY <2>1, DestroyIsStrong DEF Alive
<1> QED
  BY <1>1, InvCorrect, PTL

\* A connection whose member functions are called on its loop only is never used
\* after connectDestroyed: neither by handleClose or shutdownInLoop queued with
\* `this', nor by a callback on a connection whose socket_ is null.
THEOREM NoUseAfterDestroyedCorrect == Spec => []NoUseAfterDestroyed
<1>1. ConnInv => NoUseAfterDestroyed
  BY DEF ConnInv, LoopInv, NoUseAfterDestroyed
<1> QED
  BY <1>1, InvCorrect, PTL

\* shutdownInLoop and the end of handleWrite call shutdownWrite only when every
\* byte that send() has taken is with the kernel: of a connection that workers use
\* through its loop only, that nobody has force-closed, and whose write-complete
\* callback does not call shutdown() -- handleWrite half-closes after a callback
\* that does both, whatever it has sent.
THEOREM HalfCloseAfterDrainCorrect == Spec => HalfCloseAfterDrain
<1> DEFINE Late ==
       ThroughLoop /\ "shutdown" \notin use.writeComplete /\ ~wrShut /\ wrShut' /\ ~forced =>
            \A m \in handed : Range(Bytes(m)) \subseteq Range(wire)
<1>1. ConnInv /\ [Next]_vars => [Late]_vars
  <2> SUFFICES ASSUME ConnInv, [Next]_vars, ThroughLoop, "shutdown" \notin use.writeComplete,
                      ~wrShut, wrShut', ~forced
               PROVE  \A m \in handed : Range(Bytes(m)) \subseteq Range(wire)
    OBVIOUS
  <2> USE DEF connVars, dataVars, peerVars, loopVars, queueVars, mapVars, workerVars, otherVars, choices
  <2>1. TypeOK /\ StreamIntact /\ LifeInv /\ OutputInv /\ QuietInv /\ Taken /\ Drained
    BY DEF ConnInv, SafeInv, LoopInv, DrainInv, OutputInv
  <2>2. ~RunShutdown
    BY <2>1, RunningUnrun DEF RunShutdown, QuietInv
  <2>3. PeerStep \/ UNCHANGED vars \/ AcceptLoopStep => UNCHANGED wrShut
    BY DEF vars, PeerStep, PeerCloses, PeerResets, PeerReads, AcceptLoopStep, RunRemoval, FinishRemovals
  <2>4. \A w \in Workers : WorkerStep(w) => UNCHANGED wrShut
    BY DEF WorkerStep, WorkerGoesOn, WorkerPost, WorkerRelease,
       WorkerTestSend, WorkerTestShutdown, WorkerTestForceClose, WorkerStore, WorkerQueue
  <2>5. CallbackStep => UNCHANGED wrShut \/ CallbackShutdown
    BY DEF CallbackStep, CallbackSend, SendInLoop, CallbackSendBuffer, CallbackSendEmptyBuffer,
       CallbackForceClose, ForcingClose, HandToWorker
  <2>6. HandleErrorOrClose \/ HandleReadMessage \/ HandleReadEnd \/ HandleWriteSome \/ HandleWriteError
           \/ Poll \/ SwapFunctors \/ FinishFunctors \/ ReturnFromCallback => UNCHANGED wrShut
    BY DEF HandleErrorOrClose, HandleReadMessage, HandleReadEnd, HandleWriteSome, HandleWriteError, Writing,
       HandleClose, Poll, SwapFunctors, FinishFunctors, ReturnFromCallback
  <2>7. EstablishInline \/ RunEstablished \/ RunDestroyed \/ RunForceClose \/ RunDangling
           \/ RunUserSend \/ RunSend => UNCHANGED wrShut
    BY DEF EstablishInline, RunEstablished, ConnectEstablished, RunDestroyed, RunUserSend, RunSend, SendInLoop,
       RunForceClose, HandleClose, RunDangling
  <2>8. CallbackShutdown \/ HandleWriteTail
    BY <2>2, <2>3, <2>4, <2>5, <2>6, <2>7 DEF Next, IoLoopStep
  <2>9. output = <<>>
    <3>1. CASE CallbackShutdown
      BY <2>1, <3>1 DEF CallbackShutdown, OutputInv, LifeInv
    <3>2. CASE HandleWriteTail
      BY <2>1, <3>2 DEF HandleWriteTail, Drained, InWriteComplete
    <3> QED
      BY <2>8, <3>1, <3>2
  <2>10. accepted = wire
    BY <2>1, <2>9, ConcatEmptySeq DEF StreamIntact, TypeOK
  <2> QED
    BY <2>1, <2>10 DEF Taken
<1> QED
  BY <1>1, InvCorrect, PTL DEF Spec, HalfCloseAfterDrain

\* What state_ may become.
Later == [kConnecting    |-> {"kConnecting", "kConnected"},
          kConnected     |-> {"kConnected", "kDisconnecting", "kDisconnected"},
          kDisconnecting |-> {"kDisconnecting", "kDisconnected"},
          kDisconnected  |-> {"kDisconnected"}]

\* state_ of a connection used through its loop never goes back, so a connection
\* that is closed stays closed: shutdown and forceClose of another thread, which
\* store what they have tested before, are what can break it.
StateGoesForward == [][ ThroughLoop => state' \in Later[state] ]_vars

\* Each setState of the loop, but the one of handleClose, follows a test of
\* state_, or is the only connectEstablished; handleClose needs none.
THEOREM StateGoesForwardCorrect == Spec => StateGoesForward
<1>1. ConnInv /\ [Next]_vars => [ThroughLoop => state' \in Later[state]]_vars
  <2> SUFFICES ASSUME ConnInv, [Next]_vars, ThroughLoop
               PROVE  state' \in Later[state]
    OBVIOUS
  <2> USE DEF connVars, dataVars, peerVars, loopVars, queueVars, mapVars, workerVars, otherVars, choices
  <2>1. TypeOK /\ EstablishInv /\ LifeInv /\ QuietInv
    BY DEF ConnInv, SafeInv, LoopInv
  <2>2. state \in States
    BY <2>1 DEF TypeOK
  <2>3. CASE UNCHANGED state
    BY <2>2, <2>3 DEF States, Later
  <2>4. PeerStep \/ UNCHANGED vars \/ AcceptLoopStep => UNCHANGED state
    BY DEF vars, PeerStep, PeerCloses, PeerResets, PeerReads, AcceptLoopStep, RunRemoval, FinishRemovals
  <2>5. \A w \in Workers : WorkerStep(w) => UNCHANGED state
    BY <2>1 DEF QuietInv, WorkerStep, WorkerGoesOn, WorkerPost, WorkerRelease,
       WorkerTestSend, WorkerTestShutdown, WorkerTestForceClose, WorkerStore, WorkerQueue
  <2>6. CASE CallbackStep
    <3>1. UNCHANGED state \/ CallbackShutdown \/ CallbackForceClose
      BY <2>6 DEF CallbackStep, CallbackSend, SendInLoop, CallbackSendBuffer, CallbackSendEmptyBuffer,
         HandToWorker
    <3>2. CASE CallbackShutdown
      BY <3>2 DEF CallbackShutdown, Later
    <3>3. CASE CallbackForceClose
      BY <3>3 DEF CallbackForceClose, ForcingClose, Later
    <3> QED
      BY <2>3, <3>1, <3>2, <3>3
  <2>7. HandleReadMessage \/ HandleWriteSome \/ HandleWriteTail
           \/ Poll \/ SwapFunctors \/ FinishFunctors \/ ReturnFromCallback => UNCHANGED state
    BY DEF HandleReadMessage, HandleWriteSome, Writing, HandleWriteTail,
       Poll, SwapFunctors, FinishFunctors, ReturnFromCallback
  <2>8. RunDestroyed \/ RunShutdown \/ RunDangling \/ RunUserSend \/ RunSend => UNCHANGED state
    BY DEF RunDestroyed, RunUserSend, RunSend, SendInLoop, RunShutdown, RunDangling
  <2>9. CASE EstablishInline \/ RunEstablished
    <3>1. state' = "kConnected"
      BY <2>9 DEF EstablishInline, RunEstablished, ConnectEstablished
    <3>2. state = "kConnecting"
      <4>1. EstablishInline => loopPc = "accept"
        BY DEF EstablishInline
      <4>2. RunEstablished => Unrun("established")
        BY <2>1, RunningUnrun DEF RunEstablished
      <4> QED
        BY <2>1, <2>9, <4>1, <4>2 DEF EstablishInv
    <3> QED
      BY <3>1, <3>2 DEF Later
  <2>10. CASE HandleErrorOrClose \/ HandleReadEnd \/ HandleWriteError \/ RunForceClose
    <3>1. state' = "kDisconnected"
      BY <2>10 DEF HandleErrorOrClose, HandleReadEnd, HandleWriteError, RunForceClose, HandleClose
    <3>2. state # "kConnecting"
      <4>1. HandleErrorOrClose \/ HandleReadEnd \/ HandleWriteError => ev # {}
        BY DEF HandleErrorOrClose, HandleReadEnd, HandleWriteError, Handling
      <4>2. RunForceClose => Unrun("close")
        BY <2>1, RunningUnrun DEF RunForceClose
      <4>3. state = "kConnecting" => ev = {}
        BY <2>1 DEF EstablishInv, LifeInv
      <4>4. state = "kConnecting" => /\ \A i \in 1..Len(pending) : pending[i].op = "established"
                                     /\ \A i \in next..Len(batch) : batch[i].op = "established"
        <5> SUFFICES ASSUME state = "kConnecting"
                     PROVE  /\ \A i \in 1..Len(pending) : pending[i].op = "established"
                            /\ \A i \in next..Len(batch) : batch[i].op = "established"
          OBVIOUS
        <5>1. /\ pending = <<>> \/ pending = <<Functor("established", NoMessage)>>
              /\ batch = <<>> \/ (batch = <<Functor("established", NoMessage)>> /\ next = 1)
              /\ next \in 1..(Len(batch) + 1)
          BY <2>1 DEF EstablishInv, TypeOK
        <5>2. \A i \in 1..Len(pending) : pending[i].op = "established"
          BY <5>1 DEF Functor
        <5>3. \A i \in next..Len(batch) : batch[i].op = "established"
          BY <5>1 DEF Functor
        <5> QED
          BY <5>2, <5>3
      <4>5. state = "kConnecting" => ~Unrun("close")
        BY <4>4 DEF Unrun, InPending, InBatch
      <4> QED
        BY <2>10, <4>1, <4>2, <4>3, <4>5
    <3> QED
      BY <2>2, <3>1, <3>2 DEF States, Later
  <2> QED
    BY <2>3, <2>4, <2>5, <2>6, <2>7, <2>8, <2>9, <2>10 DEF Next, IoLoopStep
<1> QED
  BY <1>1, InvCorrect, PTL DEF Spec, StateGoesForward
=============================================================================
