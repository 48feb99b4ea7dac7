--------------------------- MODULE IocpPollerProofs ---------------------------
(***************************************************************************)
(* Type correctness of IocpPoller, that no OVERLAPPED is used twice or     *)
(* after its context, and that no interest of a channel is forgotten.      *)
(***************************************************************************)
EXTENDS IocpPoller, FiniteSetTheorems, SequenceTheorems, TLAPS

\* A completion of c's operation op is queued.
InPort(c, op) == \E i \in DOMAIN port : port[i].channel = c /\ port[i].op = op

\* Operations are distinguished by their OVERLAPPED: one completion for each.
PortInv ==
    \A i, j \in DOMAIN port :
        port[i].channel = port[j].channel /\ port[i].op = port[j].op => i = j

\* The life of a context.
LifeInv ==
    \A c \in Channels :
        /\ c \in registered <=> context[c] = "live"
        /\ socket[c] = "closed" <=> context[c] = "dead"

\* readPending and writePending are set as long as the operation is under way
\* or its completion queued, unless the channel was removed.
OperationInv ==
    \A c \in Channels, op \in Directions :
        /\ op \in inflight[c] => ~InPort(c, op)
        /\ op \in inflight[c] \/ InPort(c, op) =>
              context[c] = "dead" \/ (context[c] = "live" /\ op \in posted[c])

\* Where channels with events are.
ActiveInv ==
    /\ pendingPosts \cup selectChannels \cup active \subseteq registered
    /\ \A c \in Channels : revents[c] # {} => c \in registered /\ (pc # "poll" => c \in active)
    /\ pc # "loop" => active = {}

PollerInv ==
    /\ TypeOK /\ PortInv /\ LifeInv /\ OperationInv /\ ActiveInv /\ InterestIsPosted

-----------------------------------------------------------------------------
(* The completion port.                                                    *)

LEMMA HeadCompletion ==
    ASSUME TypeOK, port # <<>>
    PROVE  /\ Head(port) \in Completions /\ Head(port) = port[1] /\ 1 \in DOMAIN port
           /\ InPort(Head(port).channel, Head(port).op)
<1>1. Len(port) \in Nat /\ Len(port) # 0 /\ DOMAIN port = 1..Len(port)
  BY EmptySeq, LenProperties DEF TypeOK
<1>2. Head(port) = port[1] /\ 1 \in DOMAIN port
  BY <1>1, HeadTailProperties DEF TypeOK
<1>3. Head(port) \in Completions
  BY <1>1, <1>2, ElementOfSeq DEF TypeOK
<1> QED
  BY <1>2, <1>3 DEF InPort

LEMMA CompletionFields ==
    ASSUME NEW d \in Completions
    PROVE  d.channel \in Channels /\ d.op \in Directions /\ d.ok \in BOOLEAN
BY DEF Completions

\* Dequeuing removes the only completion of its operation.
LEMMA DequeueFacts ==
    ASSUME TypeOK, PortInv, Dequeue
    PROVE  /\ port' \in Seq(Completions) /\ PortInv' /\ reaped' \in 0..MaxReap
           /\ \A c, op : InPort(c, op)' =>
                 InPort(c, op) /\ ~(c = Head(port).channel /\ op = Head(port).op)
<1>1. port # <<>> /\ port' = Tail(port) /\ port \in Seq(Completions)
  BY DEF Dequeue, TypeOK
<1>2. /\ port' \in Seq(Completions) /\ Len(port) \in Nat /\ DOMAIN port = 1..Len(port)
      /\ DOMAIN port' = 1..(Len(port) - 1)
      /\ \A i \in DOMAIN port' : port'[i] = port[i + 1]
  <2>1. Len(port) \in Nat /\ DOMAIN port = 1..Len(port) /\ Len(port) # 0
    BY <1>1, EmptySeq, LenProperties
  <2>2. Tail(port) \in Seq(Completions) /\ Len(Tail(port)) = Len(port) - 1
        /\ \A i \in 1..Len(Tail(port)) : Tail(port)[i] = port[i + 1]
    BY <1>1, <2>1, HeadTailProperties
  <2>3. DOMAIN Tail(port) = 1..Len(Tail(port))
    BY <2>2, LenProperties
  <2> QED
    BY <1>1, <2>1, <2>2, <2>3
<1>3. \A i \in DOMAIN port' : i \in Nat /\ i + 1 \in DOMAIN port /\ i + 1 # 1
  BY <1>2
<1>4. PortInv'
  <2> SUFFICES ASSUME NEW i \in DOMAIN port', NEW j \in DOMAIN port',
                      port'[i].channel = port'[j].channel, port'[i].op = port'[j].op
               PROVE  i = j
    BY DEF PortInv
  <2>1. i + 1 = j + 1
    BY <1>2, <1>3 DEF PortInv
  <2> QED
    BY <1>3, <2>1
<1>5. \A c, op : InPort(c, op)' => InPort(c, op)
  BY <1>2, <1>3 DEF InPort
<1>6. ASSUME NEW c, NEW op, InPort(c, op)'
      PROVE  ~(c = Head(port).channel /\ op = Head(port).op)
  <2>1. Head(port) = port[1] /\ 1 \in DOMAIN port
    BY <1>1, HeadCompletion
  <2> QED
    BY <1>2, <1>3, <1>6, <2>1 DEF InPort, PortInv
<1>7. reaped' \in 0..MaxReap
  BY MaxReapAssumption DEF Dequeue, TypeOK
<1> QED
  BY <1>2, <1>4, <1>5, <1>6, <1>7

\* A completion of an operation that has none in the queue is queued.
LEMMA EnqueueFacts ==
    ASSUME TypeOK, PortInv, NEW d \in Completions, ~InPort(d.channel, d.op),
           port' = Append(port, d)
    PROVE  /\ port' \in Seq(Completions) /\ PortInv'
           /\ \A c, op : InPort(c, op)' => InPort(c, op) \/ (c = d.channel /\ op = d.op)
<1>1. /\ port' \in Seq(Completions) /\ Len(port) \in Nat /\ DOMAIN port = 1..Len(port)
      /\ DOMAIN port' = 1..(Len(port) + 1) /\ port'[Len(port) + 1] = d
      /\ \A i \in DOMAIN port : port'[i] = port[i]
  <2>1. Len(port) \in Nat /\ DOMAIN port = 1..Len(port)
    BY LenProperties DEF TypeOK
  <2>2. /\ Append(port, d) \in Seq(Completions) /\ Len(Append(port, d)) = Len(port) + 1
        /\ Append(port, d)[Len(port) + 1] = d
        /\ \A i \in 1..Len(port) : Append(port, d)[i] = port[i]
    BY AppendProperties DEF TypeOK
  <2>3. DOMAIN Append(port, d) = 1..Len(Append(port, d))
    BY <2>2, LenProperties
  <2> QED
    BY <2>1, <2>2, <2>3
<1>2. \A i \in DOMAIN port' : i \in DOMAIN port \/ i = Len(port) + 1
  BY <1>1
<1>3. \A c, op : InPort(c, op)' => InPort(c, op) \/ (c = d.channel /\ op = d.op)
  BY <1>1, <1>2 DEF InPort
<1>4. PortInv'
  <2> SUFFICES ASSUME NEW i \in DOMAIN port', NEW j \in DOMAIN port',
                      port'[i].channel = port'[j].channel, port'[i].op = port'[j].op
               PROVE  i = j
    BY DEF PortInv
  <2>1. CASE i \in DOMAIN port /\ j \in DOMAIN port
    BY <1>1, <2>1 DEF PortInv
  <2>2. CASE i \in DOMAIN port /\ j = Len(port) + 1
    BY <1>1, <2>2 DEF InPort
  <2>3. CASE j \in DOMAIN port /\ i = Len(port) + 1
    BY <1>1, <2>3 DEF InPort
  <2> QED
    BY <1>2, <2>1, <2>2, <2>3
<1> QED
  BY <1>1, <1>3, <1>4

-----------------------------------------------------------------------------
(* Steps.                                                                  *)

LEMMA InitInv == Init => PollerInv
<1> SUFFICES ASSUME Init PROVE PollerInv
  OBVIOUS
<1>1. port = <<>> /\ port \in Seq(Completions) /\ DOMAIN port = {}
  BY EmptySeq DEF Init
<1>2. TypeOK
  <2>1. reaped \in 0..MaxReap
    BY MaxReapAssumption DEF Init
  <2>2. /\ socket \in [Channels -> {"connecting", "up", "reset", "closed"}]
        /\ unread \in [Channels -> BOOLEAN]
    BY DEF Init
  <2> QED
    BY <1>1, <2>1, <2>2 DEF Init, TypeOK
<1>3. LifeInv
  BY DEF Init, LifeInv
<1>4. PortInv /\ OperationInv
  BY <1>1 DEF Init, PortInv, OperationInv, InPort
<1>5. ActiveInv /\ InterestIsPosted
  BY DEF Init, ActiveInv, InterestIsPosted
<1> QED
  BY <1>2, <1>3, <1>4, <1>5 DEF PollerInv

LEMMA UpdateStep ==
    ASSUME PollerInv, NEW c \in Channels, NEW interest \in SUBSET Directions,
           UpdateChannel(c, interest) \/ UpdateChannelUnbound(c, interest)
    PROVE  PollerInv'
<1> USE DEF PollerInv, TypeOK
<1>1. CASE UpdateChannel(c, interest)
  <2> USE <1>1 DEF UpdateChannel, Enlist, pollVars, kernel
  <2>1. TypeOK'
    BY ChannelsAssumption
  <2>2. PortInv' /\ LifeInv'
    BY DEF PortInv, LifeInv
  <2>3. context[c] # "dead"
    BY DEF LifeInv
  <2>4. OperationInv'
    BY <2>3 DEF OperationInv, InPort
  <2>5. ActiveInv'
    BY DEF ActiveInv
  <2>6. InterestIsPosted'
    BY DEF InterestIsPosted
  <2> QED
    BY <2>1, <2>2, <2>4, <2>5, <2>6
<1>2. CASE UpdateChannelUnbound(c, interest)
  <2> USE <1>2 DEF UpdateChannelUnbound, tables, pollVars, kernel
  <2>1. TypeOK' /\ PortInv' /\ LifeInv'
    BY DEF PortInv, LifeInv
  <2>2. OperationInv' /\ ActiveInv'
    BY DEF OperationInv, InPort, ActiveInv
  <2>3. InterestIsPosted'
    BY DEF InterestIsPosted
  <2> QED
    BY <2>1, <2>2, <2>3
<1> QED
  BY <1>1, <1>2

LEMMA RemoveStep ==
    ASSUME PollerInv, NEW c \in Channels, RemoveChannel(c) \/ RemoveChannelUnbound(c)
    PROVE  PollerInv'
<1> USE DEF PollerInv, TypeOK
<1>1. CASE RemoveChannel(c)
  <2> USE <1>1 DEF RemoveChannel, pollVars
  <2>1. TypeOK'
    OBVIOUS
  <2>2. PortInv' /\ LifeInv'
    BY DEF PortInv, LifeInv
  <2>3. OperationInv'
    BY DEF OperationInv, InPort
  <2>4. ActiveInv'
    BY DEF ActiveInv
  <2>5. InterestIsPosted'
    BY DEF InterestIsPosted
  <2> QED
    BY <2>1, <2>2, <2>3, <2>4, <2>5
<1>2. CASE RemoveChannelUnbound(c)
  <2> USE <1>2 DEF RemoveChannelUnbound, tables, kernel
  <2>1. TypeOK' /\ PortInv' /\ LifeInv'
    BY DEF PortInv, LifeInv
  <2>2. OperationInv' /\ ActiveInv' /\ InterestIsPosted'
    BY DEF OperationInv, InPort, ActiveInv, InterestIsPosted
  <2> QED
    BY <2>1, <2>2
<1> QED
  BY <1>1, <1>2

\* What is posted was not under way, and no longer missing.
LEMMA StartPollStep == ASSUME PollerInv, StartPoll PROVE PollerInv'
<1> USE DEF PollerInv, TypeOK
<1>1. PICK ok \in [Channels -> SUBSET Directions] :
        LET new == [c \in Channels |-> IF c \in pendingPosts THEN Missing(c) \cap ok[c] ELSE {}]
        IN  /\ posted' = [c \in Channels |-> posted[c] \cup new[c]]
            /\ inflight' = [c \in Channels |-> inflight[c] \cup new[c]]
            /\ pendingPosts' = Remaining(ok)
  BY Zenon DEF StartPoll
<1>2. /\ pc = "loop" /\ pc' = "poll" /\ active = {}
      /\ UNCHANGED <<events, registered, context, selectChannels, reaped, revents, active, socket,
                     unread, port, heard>>
  BY DEF StartPoll, kernel
<1>3. \A c \in Channels : Missing(c) \subseteq Directions /\ Missing(c) \cap posted[c] = {}
                          /\ events[c] \subseteq Missing(c) \cup posted[c]
  BY DEF Missing
<1> DEFINE New(c) == IF c \in pendingPosts THEN Missing(c) \cap ok[c] ELSE {}
<1>4. /\ posted' = [c \in Channels |-> posted[c] \cup New(c)]
      /\ inflight' = [c \in Channels |-> inflight[c] \cup New(c)]
  BY <1>1
<1>5. /\ pendingPosts' \subseteq pendingPosts
      /\ \A c \in pendingPosts \ pendingPosts' : Missing(c) \subseteq New(c)
  BY <1>1 DEF Remaining
<1>6. \A c \in Channels : New(c) \subseteq Missing(c) /\ (New(c) # {} => c \in pendingPosts)
  OBVIOUS
<1> HIDE DEF New
<1>7. TypeOK'
  BY <1>2, <1>3, <1>4, <1>5, <1>6
<1>8. PortInv' /\ LifeInv'
  BY <1>2 DEF PortInv, LifeInv
<1>9. OperationInv'
  <2> SUFFICES ASSUME NEW c \in Channels, NEW op \in Directions
               PROVE  /\ op \in inflight'[c] => ~InPort(c, op)
                      /\ op \in inflight'[c] \/ InPort(c, op) =>
                            context[c] = "dead" \/ (context[c] = "live" /\ op \in posted'[c])
    BY <1>2 DEF OperationInv, InPort
  <2>1. posted'[c] = posted[c] \cup New(c) /\ inflight'[c] = inflight[c] \cup New(c)
    BY <1>4
  <2>2. CASE op \in New(c)
    <3>1. c \in pendingPosts /\ op \notin posted[c]
      BY <1>3, <1>6, <2>2
    <3>2. context[c] = "live"
      BY <3>1 DEF ActiveInv, LifeInv
    <3>3. ~InPort(c, op)
      BY <3>1, <3>2 DEF OperationInv
    <3> QED
      BY <2>1, <2>2, <3>2, <3>3
  <2>3. CASE op \notin New(c)
    BY <2>1, <2>3 DEF OperationInv
  <2> QED
    BY <2>2, <2>3
<1>10. ActiveInv'
  BY <1>2, <1>5 DEF ActiveInv
<1>11. InterestIsPosted'
  <2> SUFFICES ASSUME NEW c \in registered \ Listening, c \notin pendingPosts'
               PROVE  events[c] \subseteq posted'[c] \cup heard[c]
    BY <1>2 DEF InterestIsPosted
  <2>1. posted'[c] = posted[c] \cup New(c)
    BY <1>4
  <2>2. CASE c \in pendingPosts
    BY <1>3, <1>5, <2>1, <2>2
  <2>3. CASE c \notin pendingPosts
    BY <2>1, <2>3 DEF InterestIsPosted
  <2> QED
    BY <2>2, <2>3
<1> QED
  BY <1>7, <1>8, <1>9, <1>10, <1>11

\* A removed channel hears of nothing, and posts nothing any more.
LEMMA ReapDeadStep == ASSUME PollerInv, ReapDead PROVE PollerInv'
<1> USE DEF PollerInv
<1> DEFINE d == Head(port)
<1>1. /\ port # <<>> /\ Dequeue /\ pc = "poll" /\ context[d.channel] = "dead"
      /\ posted' = [posted EXCEPT ![d.channel] = {}]
      /\ UNCHANGED <<events, registered, context, pendingPosts, selectChannels, pc, revents, active,
                     socket, unread, inflight, heard>>
  BY DEF ReapDead, Dequeue, tables, kernel
<1>2. d.channel \in Channels
  BY <1>1, HeadCompletion, CompletionFields
<1>3. /\ port' \in Seq(Completions) /\ PortInv' /\ reaped' \in 0..MaxReap
      /\ \A c, op : InPort(c, op)' => InPort(c, op)
  BY <1>1, DequeueFacts
<1>4. TypeOK'
  BY <1>1, <1>2, <1>3 DEF TypeOK
<1>5. LifeInv' /\ ActiveInv'
  BY <1>1 DEF LifeInv, ActiveInv
<1>6. OperationInv'
  BY <1>1, <1>2, <1>3 DEF OperationInv, TypeOK
<1>7. InterestIsPosted'
  BY <1>1, <1>2 DEF InterestIsPosted, LifeInv, TypeOK
<1> QED
  BY <1>3, <1>4, <1>5, <1>6, <1>7

\* The operation that completed may be posted again: nothing of it is queued
\* any more, nor under way.
LEMMA ReapStep == ASSUME PollerInv, Reap PROVE PollerInv'
<1> USE DEF PollerInv
<1> DEFINE d == Head(port)
           c == d.channel
<1>1. /\ port # <<>> /\ Dequeue /\ pc = "poll" /\ context[c] = "live"
      /\ UNCHANGED <<events, registered, context, pendingPosts, selectChannels, pc, active,
                     socket, unread>>
  BY DEF Reap, Dequeue, tables, kernel
<1>2. c \in Channels /\ d.op \in Directions /\ InPort(c, d.op)
  BY <1>1, HeadCompletion, CompletionFields
<1>3. /\ revents' = [revents EXCEPT ![c] = @ \cup (IF d.ok THEN {d.op} \cap events[c] ELSE {"E"})]
      /\ heard' = [heard EXCEPT ![c] = @ \cup {d.op}]
  BY DEF Reap
<1>4. PICK again \in SUBSET {"R"} :
        /\ again # {} => d.op = "R"
        /\ posted' = [posted EXCEPT ![c] = (@ \ {d.op}) \cup again]
        /\ inflight' = [inflight EXCEPT ![c] = @ \cup again]
  <2>1. PICK ok \in Accepted(c) :
          /\ posted' = [posted EXCEPT
                           ![c] = (@ \ {d.op}) \cup IF Reposts(c, d) THEN {"R"} \cap ok ELSE {}]
          /\ inflight' = [inflight EXCEPT
                           ![c] = @ \cup IF Reposts(c, d) THEN {"R"} \cap ok ELSE {}]
    BY DEF Reap
  <2> DEFINE again == IF Reposts(c, d) THEN {"R"} \cap ok ELSE {}
  <2>2. again \in SUBSET {"R"} /\ (again # {} => d.op = "R")
    BY DEF Reposts
  <2> HIDE DEF again
  <2>3. /\ posted' = [posted EXCEPT ![c] = (@ \ {d.op}) \cup again]
        /\ inflight' = [inflight EXCEPT ![c] = @ \cup again]
    BY <2>1 DEF again
  <2> QED
    BY <2>2, <2>3
<1>5. /\ port' \in Seq(Completions) /\ PortInv' /\ reaped' \in 0..MaxReap
      /\ \A b, op : InPort(b, op)' => InPort(b, op) /\ ~(b = c /\ op = d.op)
  BY <1>1, DequeueFacts
<1>6. TypeOK'
  <2>1. posted' \in [Channels -> SUBSET Directions] /\ inflight' \in [Channels -> SUBSET Directions]
    BY <1>2, <1>4 DEF TypeOK, Directions
  <2>2. heard' \in [Channels -> SUBSET Directions]
    BY <1>2, <1>3 DEF TypeOK
  <2>3. revents' \in [Channels -> SUBSET {"R", "W", "E"}]
    <3>1. (IF d.ok THEN {d.op} \cap events[c] ELSE {"E"}) \subseteq {"R", "W", "E"}
      BY <1>2 DEF Directions
    <3> QED
      BY <1>2, <1>3, <3>1 DEF TypeOK
  <2> QED
    BY <1>1, <1>5, <2>1, <2>2, <2>3 DEF TypeOK
<1>7. LifeInv'
  BY <1>1 DEF LifeInv
<1>8. OperationInv'
  <2> SUFFICES ASSUME NEW b \in Channels, NEW op \in Directions
               PROVE  /\ op \in inflight'[b] => ~InPort(b, op)'
                      /\ op \in inflight'[b] \/ InPort(b, op)' =>
                            context[b] = "dead" \/ (context[b] = "live" /\ op \in posted'[b])
    BY <1>1 DEF OperationInv
  <2>1. CASE b # c
    BY <1>2, <1>4, <1>5, <2>1 DEF OperationInv, TypeOK
  <2>2. CASE b = c /\ op # d.op
    BY <1>2, <1>4, <1>5, <2>2 DEF OperationInv, TypeOK
  <2>3. CASE b = c /\ op = d.op
    <3>1. op \notin inflight[c] /\ ~InPort(b, op)'
      BY <1>2, <1>5, <2>3 DEF OperationInv
    <3>2. inflight'[c] = inflight[c] \cup again /\ posted'[c] = (posted[c] \ {d.op}) \cup again
      BY <1>2, <1>4 DEF TypeOK
    <3> QED
      BY <1>1, <2>3, <3>1, <3>2
  <2> QED
    BY <2>1, <2>2, <2>3
<1>9. ActiveInv'
  BY <1>1, <1>2, <1>3 DEF ActiveInv, LifeInv, TypeOK
<1>10. InterestIsPosted'
  <2> SUFFICES ASSUME NEW b \in registered \ Listening, b \notin pendingPosts
               PROVE  events[b] \subseteq posted'[b] \cup heard'[b]
    BY <1>1 DEF InterestIsPosted
  <2>1. events[b] \subseteq posted[b] \cup heard[b]
    BY DEF InterestIsPosted
  <2>2. posted[b] \cup heard[b] \subseteq posted'[b] \cup heard'[b]
    BY <1>2, <1>3, <1>4 DEF TypeOK
  <2> QED
    BY <2>1, <2>2
<1> QED
  BY <1>5, <1>6, <1>7, <1>8, <1>9, <1>10

LEMMA FinishPollStep == ASSUME PollerInv, FinishPoll PROVE PollerInv'
<1> USE DEF PollerInv, TypeOK, FinishPoll, tables, kernel
<1>1. TypeOK'
  <2>1. reaped' \in 0..MaxReap
    BY MaxReapAssumption
  <2> QED
    BY <2>1
<1>2. PortInv' /\ LifeInv' /\ OperationInv'
  BY DEF PortInv, LifeInv, OperationInv, InPort
<1>3. ActiveInv'
  BY DEF ActiveInv
<1>4. InterestIsPosted'
  BY DEF InterestIsPosted
<1> QED
  BY <1>1, <1>2, <1>3, <1>4

LEMMA HandleEventStep ==
    ASSUME PollerInv, NEW c \in Channels, HandleEvent(c)
    PROVE  PollerInv'
<1> USE DEF PollerInv, TypeOK
<1>1. /\ pc = "loop" /\ active' = active \ {c} /\ revents' = [revents EXCEPT ![c] = {}]
      /\ unread' \in {unread, [unread EXCEPT ![c] = FALSE]}
      /\ UNCHANGED <<events, registered, context, pendingPosts, selectChannels, posted, pc, reaped,
                     socket, inflight, port, heard>>
  BY DEF HandleEvent, tables
<1>2. unread' \in [Channels -> BOOLEAN]
  BY <1>1
<1>3. TypeOK'
  BY <1>1, <1>2
<1>4. PortInv' /\ LifeInv' /\ OperationInv' /\ InterestIsPosted'
  BY <1>1 DEF PortInv, LifeInv, OperationInv, InPort, InterestIsPosted
<1>5. ActiveInv'
  BY <1>1 DEF ActiveInv
<1> QED
  BY <1>3, <1>4, <1>5

LEMMA KernelStepInv == ASSUME PollerInv, KernelStep PROVE PollerInv'
<1> USE DEF PollerInv
<1>1. ASSUME NEW c \in Channels, NEW to \in {"up", "reset"}, NEW from \in {"connecting", "up"},
             SocketMoves(c, from, to)
      PROVE  PollerInv'
  <2> USE <1>1 DEF SocketMoves, tables, pollVars, TypeOK
  <2>1. TypeOK' /\ PortInv' /\ LifeInv'
    BY DEF PortInv, LifeInv
  <2>2. OperationInv' /\ ActiveInv' /\ InterestIsPosted'
    BY DEF OperationInv, InPort, ActiveInv, InterestIsPosted
  <2> QED
    BY <2>1, <2>2
<1>2. ASSUME NEW c \in Channels, Arrives(c) PROVE PollerInv'
  <2> USE <1>2 DEF Arrives, tables, pollVars, TypeOK
  <2>1. TypeOK' /\ PortInv' /\ LifeInv'
    BY DEF PortInv, LifeInv
  <2>2. OperationInv' /\ ActiveInv' /\ InterestIsPosted'
    BY DEF OperationInv, InPort, ActiveInv, InterestIsPosted
  <2> QED
    BY <2>1, <2>2
<1>3. ASSUME NEW c \in Channels, NEW op \in Directions, Complete(c, op) PROVE PollerInv'
  <2>1. PICK ok \in BOOLEAN : port' = Append(port, [channel |-> c, op |-> op, ok |-> ok])
    BY <1>3 DEF Complete
  <2>2. /\ op \in inflight[c] /\ inflight' = [inflight EXCEPT ![c] = @ \ {op}]
        /\ UNCHANGED <<events, registered, context, pendingPosts, selectChannels, posted, pc,
                       reaped, revents, active, socket, unread, heard>>
    BY <1>3 DEF Complete, tables, pollVars, kernel
  <2>3. [channel |-> c, op |-> op, ok |-> ok] \in Completions
    BY DEF Completions
  <2>4. ~InPort(c, op)
    BY <2>2 DEF OperationInv
  <2>5. /\ port' \in Seq(Completions) /\ PortInv'
        /\ \A b, q : InPort(b, q)' => InPort(b, q) \/ (b = c /\ q = op)
    BY <2>1, <2>3, <2>4, EnqueueFacts
  <2>6. TypeOK'
    BY <2>2, <2>5 DEF TypeOK
  <2>7. OperationInv'
    BY <2>2, <2>5 DEF OperationInv, TypeOK
  <2>8. LifeInv' /\ ActiveInv' /\ InterestIsPosted'
    BY <2>2 DEF LifeInv, ActiveInv, InterestIsPosted
  <2> QED
    BY <2>5, <2>6, <2>7, <2>8
<1> QED
  BY <1>1, <1>2, <1>3 DEF KernelStep

LEMMA NextInv == PollerInv /\ [Next]_vars => PollerInv'
<1> SUFFICES ASSUME PollerInv, [Next]_vars PROVE PollerInv'
  OBVIOUS
<1>1. CASE PollStep
  BY <1>1, StartPollStep, ReapDeadStep, ReapStep, FinishPollStep DEF PollStep
<1>2. CASE UNCHANGED vars
  BY <1>2 DEF vars, tables, pollVars, kernel, PollerInv, TypeOK, PortInv, LifeInv, OperationInv,
              InPort, ActiveInv, InterestIsPosted
<1> QED
  BY <1>1, <1>2, HandleEventStep, UpdateStep, RemoveStep, KernelStepInv DEF Next

THEOREM InvCorrect == Spec => []PollerInv
<1> QED
  BY InitInv, NextInv, PTL DEF Spec

-----------------------------------------------------------------------------

\* Type correctness of IocpPoller (IocpPoller.cpp) for any channels and any
\* limit of completions in a poll.
THEOREM TypeCorrect == Spec => []TypeOK
<1>1. PollerInv => TypeOK
  BY DEF PollerInv
<1> QED
  BY <1>1, InvCorrect, PTL

\* postRead and postWrite (IocpPoller.cpp:54-81) never hand the kernel an
\* OVERLAPPED it still has, and poll (:204) never hands a completion to a
\* channel that was removed.
THEOREM CompletionsAreSafeCorrect == Spec => []CompletionsAreSafe
<1>1. PollerInv => CompletionsAreSafe
  <2> SUFFICES ASSUME PollerInv, NEW c \in Channels
               PROVE  /\ \A op \in Directions :
                            /\ Cardinality(Queued(c, op)) <= 1
                            /\ op \in inflight[c] => Queued(c, op) = {} /\ context[c] # "none"
                            /\ Queued(c, op) # {} => context[c] # "none"
                      /\ (revents[c] # {} /\ pc = "poll") \/ c \in active => c \in registered
    BY DEF CompletionsAreSafe
  <2>1. ASSUME NEW op \in Directions
        PROVE  /\ Cardinality(Queued(c, op)) <= 1
               /\ op \in inflight[c] => Queued(c, op) = {} /\ context[c] # "none"
               /\ Queued(c, op) # {} => context[c] # "none"
    <3>1. Queued(c, op) # {} <=> InPort(c, op)
      BY DEF Queued, InPort
    <3>2. Cardinality(Queued(c, op)) <= 1
      <4>1. CASE Queued(c, op) = {}
        BY <4>1, FS_EmptySet
      <4>2. CASE Queued(c, op) # {}
        <5>1. PICK i : i \in Queued(c, op)
          BY <4>2
        <5>2. Queued(c, op) = {i}
          BY <5>1 DEF Queued, PollerInv, PortInv
        <5>3. Cardinality({i}) = 1
          BY FS_Singleton
        <5> QED
          BY <5>2, <5>3
      <4> QED
        BY <4>1, <4>2
    <3> QED
      BY <3>1, <3>2 DEF PollerInv, OperationInv
  <2> QED
    BY <2>1 DEF PollerInv, ActiveInv
<1> QED
  BY <1>1, InvCorrect, PTL

\* poll's retries (IocpPoller.cpp:142-167) and updateChannel lose no interest
\* of a channel before it was heard of once, whichever of its two posts fail, and
\* in whichever polls.
THEOREM InterestIsPostedCorrect == Spec => []InterestIsPosted
<1>1. PollerInv => InterestIsPosted
  BY DEF PollerInv
<1> QED
  BY <1>1, InvCorrect, PTL
=============================================================================
