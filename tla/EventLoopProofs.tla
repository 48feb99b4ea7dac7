--------------------------- MODULE EventLoopProofs ---------------------------
(***************************************************************************)
(* Theorems about EventLoop, for any number of functors, threads and       *)
(* channels and any capacity of the wake-up socket, and about the          *)
(* EventLoopThread that owns one, for any number of restarts.              *)
(***************************************************************************)
EXTENDS EventLoop, EventLoopThread, FiniteSetTheorems, SequenceTheorems, TLAPS

(***************************************************************************)
(* Type correctness.                                                       *)
(***************************************************************************)

\* The sequences in which poll may report channels are sequences of channels.
LEMMA OrdersType ==
    ASSUME NEW S, IsFiniteSet(S), NEW o \in Orders(S)
    PROVE  o \in Seq(S)
<1>1. Cardinality(S) \in Nat
  BY FS_CardinalityType
<1>2. o \in [1..Cardinality(S) -> S]
  BY DEF Orders
<1> QED
  BY <1>1, <1>2

\* Every variable keeps its type, whatever the interleaving of the loop thread
\* with the threads that call queueInLoop and quit.
THEOREM TypeCorrect == Spec => []TypeOK
<1>1. Init => TypeOK
  <2> SUFFICES ASSUME Init PROVE TypeOK
    OBVIOUS
  <2> USE DEF Init
  <2>1. pc \in [Threads -> {"idle", "wakeup"}]
    OBVIOUS
  <2>2. /\ pending \in Seq(Functors) /\ running \in Seq(Functors)
        /\ active \in Seq(Channels) /\ ran \in Seq(Functors)
    OBVIOUS
  <2>3. wakeups \in 0..WakeCapacity
    BY WakeCapacityAssumption
  <2> QED
    BY <2>1, <2>2, <2>3 DEF TypeOK, LoopPcs
<1>2. TypeOK /\ [Next]_vars => TypeOK'
  <2> SUFFICES ASSUME TypeOK, [Next]_vars PROVE TypeOK'
    OBVIOUS
  <2> USE DEF TypeOK, LoopPcs
  <2>1. ASSUME NEW t \in Threads, NEW f \in Functors, QueueInLoop(t, f) PROVE TypeOK'
    BY <2>1 DEF QueueInLoop
  <2>2. ASSUME NEW t \in Threads, Quit(t) PROVE TypeOK'
    BY <2>2 DEF Quit
  <2>3. ASSUME NEW t \in Threads, Wakeup(t) PROVE TypeOK'
    <3>1. wakeups' \in 0..WakeCapacity
      BY <2>3, WakeCapacityAssumption DEF Wakeup
    <3> QED
      BY <2>3, <3>1 DEF Wakeup
  <2>4. CASE EnterLoop
    BY <2>4 DEF EnterLoop
  <2>5. CASE TestQuit
    BY <2>5 DEF TestQuit
  <2>6. CASE PollEvents
    <3>1. Ready \subseteq Channels /\ IsFiniteSet(Ready)
      <4>1. IsFiniteSet(Channels)
        BY ChannelAssumption, FS_AddElement DEF Channels
      <4>2. Ready \subseteq Channels
        BY DEF Ready, Channels
      <4> QED
        BY <4>1, <4>2, FS_Subset
    <3>2. active' \in Seq(Ready)
      BY <2>6, <3>1, OrdersType DEF PollEvents
    <3>3. active' \in Seq(Channels)
      BY <3>1, <3>2
    <3> QED
      BY <2>6, <3>3 DEF PollEvents
  <2>7. CASE PollTimeout
    BY <2>7 DEF PollTimeout
  <2>8. CASE HandleWakeup
    <3>1. wakeups' \in 0..WakeCapacity
      BY <2>8, WakeCapacityAssumption DEF HandleWakeup
    <3> QED
      BY <2>8, <3>1 DEF HandleWakeup
  <2>9. CASE HandleIo
    BY <2>9 DEF HandleIo
  <2>10. CASE SwapFunctors
    BY <2>10 DEF SwapFunctors
  <2>11. CASE RunFunctor
    BY <2>11 DEF RunFunctor
  <2>12. CASE FinishFunctors
    BY <2>12 DEF FinishFunctors
  <2>13. ASSUME NEW f \in Functors, QueueInLoopFromLoop(f) PROVE TypeOK'
    BY <2>13 DEF QueueInLoopFromLoop
  <2>14. CASE QuitFromLoop
    BY <2>14 DEF QuitFromLoop
  <2>15. CASE ReturnFromCallback
    BY <2>15 DEF ReturnFromCallback
  <2>16. ASSUME NEW ch \in IoChannels, IoEvent(ch) PROVE TypeOK'
    BY <2>16 DEF IoEvent
  <2>17. CASE UNCHANGED vars
    BY <2>17 DEF vars
  <2> QED
    BY <2>1, <2>2, <2>3, <2>4, <2>5, <2>6, <2>7, <2>8, <2>9, <2>10, <2>11,
       <2>12, <2>13, <2>14, <2>15, <2>16, <2>17 DEF Next, LoopStep
<1> QED
  BY <1>1, <1>2, PTL DEF Spec

(***************************************************************************)
(* Wake-ups.  Both invariants are inductive given the types: a call from   *)
(* another thread leaves pc[t] = "wakeup", writing the message makes       *)
(* wakeups positive because the socket holds at least one message, and     *)
(* only HandleWakeup takes a message out, which happens between the poll   *)
(* and the swap of the vector.                                             *)
(***************************************************************************)

\* A write to the wake-up socket leaves a message in it, also when the socket
\* is full and the write is dropped.
LEMMA WakeupLeavesMessage ==
    ASSUME TypeOK, NEW t \in Threads, Wakeup(t)
    PROVE  WakeupInFlight'
<1>1. wakeups' > 0
  BY WakeCapacityAssumption DEF TypeOK, Wakeup
<1> QED
  BY <1>1 DEF WakeupInFlight

\* A step that leaves the socket and the callers alone keeps a wake-up in flight.
LEMMA InFlightUnchanged ==
    ASSUME WakeupInFlight, UNCHANGED <<wakeups, pc>>
    PROVE  WakeupInFlight'
BY DEF WakeupInFlight

\* A thread about to write its message is a wake-up in flight.
LEMMA CallerInFlight ==
    ASSUME TypeOK, NEW t \in Threads, pc' = [pc EXCEPT ![t] = "wakeup"]
    PROVE  WakeupInFlight'
BY DEF TypeOK, WakeupInFlight

\* quit() from another thread cannot leave the loop asleep in poll.
THEOREM QuitWakesPollCorrect == Spec => []QuitWakesPoll
<1>1. Init => QuitWakesPoll
  BY DEF Init, QuitWakesPoll
<1>2. TypeOK /\ QuitWakesPoll /\ [Next]_vars => QuitWakesPoll'
  <2> SUFFICES ASSUME TypeOK, QuitWakesPoll, [Next]_vars,
                      loopPc' = "poll", quit'
               PROVE  WakeupInFlight'
    BY DEF QuitWakesPoll
  <2>1. ASSUME NEW t \in Threads, NEW f \in Functors, QueueInLoop(t, f)
        PROVE  WakeupInFlight'
    BY <2>1, CallerInFlight DEF QueueInLoop
  <2>2. ASSUME NEW t \in Threads, Quit(t) PROVE WakeupInFlight'
    BY <2>2, CallerInFlight DEF Quit
  <2>3. ASSUME NEW t \in Threads, Wakeup(t) PROVE WakeupInFlight'
    BY <2>3, WakeupLeavesMessage
  <2>4. CASE LoopStep
    <3>1. quit' => quit
      BY <2>4 DEF LoopStep, EnterLoop, TestQuit, PollEvents, HandleWakeup, HandleIo,
         SwapFunctors, RunFunctor, FinishFunctors, ReturnFromCallback
    <3>2. quit => loopPc' # "poll"
      BY <2>4 DEF LoopStep, EnterLoop, TestQuit, PollEvents, HandleWakeup, HandleIo,
         SwapFunctors, RunFunctor, FinishFunctors, ReturnFromCallback
    <3> QED
      BY <3>1, <3>2
  <2>5. CASE PollTimeout
    BY <2>5 DEF PollTimeout
  <2>6. CASE QuitFromLoop
    BY <2>6 DEF QuitFromLoop, InCallback
  <2>7. ASSUME NEW f \in Functors, QueueInLoopFromLoop(f) PROVE WakeupInFlight'
    BY <2>7 DEF QueueInLoopFromLoop, InCallback
  <2>8. ASSUME NEW ch \in IoChannels, IoEvent(ch) PROVE WakeupInFlight'
    BY <2>8, InFlightUnchanged DEF IoEvent, QuitWakesPoll
  <2>9. CASE UNCHANGED vars
    BY <2>9, InFlightUnchanged DEF vars, QuitWakesPoll
  <2> QED
    BY <2>1, <2>2, <2>3, <2>4, <2>5, <2>6, <2>7, <2>8, <2>9 DEF Next
<1> QED
  BY <1>1, <1>2, TypeCorrect, PTL DEF Spec

\* A functor that came from another thread or from an IO callback never waits
\* in the queue of a loop that is about to sleep with no wake-up on its way.
THEOREM NoLostWakeupCorrect == Spec => []NoLostWakeup
<1> DEFINE Waiting == \E i \in DOMAIN pending : pending[i] \notin nested
           Exposed == {"created", "test", "poll", "run", "functor"}
<1>1. Init => NoLostWakeup
  BY DEF Init, NoLostWakeup
<1>2. TypeOK /\ NoLostWakeup /\ [Next]_vars => NoLostWakeup'
  <2> SUFFICES ASSUME TypeOK, NoLostWakeup, [Next]_vars, loopPc' \in Exposed, Waiting'
               PROVE  WakeupInFlight'
    BY DEF NoLostWakeup
  <2>1. ASSUME NEW t \in Threads, NEW f \in Functors, QueueInLoop(t, f)
        PROVE  WakeupInFlight'
    BY <2>1, CallerInFlight DEF QueueInLoop
  <2>2. ASSUME NEW t \in Threads, Quit(t) PROVE WakeupInFlight'
    BY <2>2, CallerInFlight DEF Quit
  <2>3. ASSUME NEW t \in Threads, Wakeup(t) PROVE WakeupInFlight'
    BY <2>3, WakeupLeavesMessage
  <2>4. ASSUME loopPc \in Exposed, UNCHANGED <<pending, nested, wakeups, pc>>
        PROVE  WakeupInFlight'
    BY <2>4, InFlightUnchanged DEF NoLostWakeup
  <2>5. CASE EnterLoop
    BY <2>5, <2>4 DEF EnterLoop
  <2>6. CASE TestQuit
    BY <2>6, <2>4 DEF TestQuit
  <2>7. CASE PollEvents \/ PollTimeout
    BY <2>7 DEF PollEvents, PollTimeout
  <2>8. CASE HandleWakeup \/ HandleIo
    BY <2>8 DEF HandleWakeup, HandleIo
  <2>9. CASE SwapFunctors
    BY <2>9 DEF SwapFunctors
  <2>10. CASE RunFunctor
    BY <2>10, <2>4 DEF RunFunctor
  <2>11. CASE FinishFunctors
    BY <2>11, <2>4 DEF FinishFunctors
  <2>12. CASE ReturnFromCallback
    BY <2>12, <2>4 DEF ReturnFromCallback, InCallback
  <2>13. ASSUME NEW f \in Functors, QueueInLoopFromLoop(f) PROVE WakeupInFlight'
    <3>1. loopPc = "functor" /\ loopPc' = "functor"
      BY <2>13 DEF QueueInLoopFromLoop, InCallback
    <3>2. nested' = nested \cup {f} /\ pending' = Append(pending, f)
      BY <2>13, <3>1 DEF QueueInLoopFromLoop
    <3>3. Waiting
      <4>1. PICK i \in DOMAIN pending' : pending'[i] \notin nested'
        OBVIOUS
      <4>2. i \in DOMAIN pending /\ pending'[i] = pending[i]
        BY <3>2, <4>1 DEF TypeOK
      <4> QED
        BY <3>2, <4>1, <4>2
    <3> QED
      BY <2>13, <3>1, <3>3, InFlightUnchanged DEF QueueInLoopFromLoop, NoLostWakeup
  <2>14. CASE QuitFromLoop
    BY <2>14, <2>4 DEF QuitFromLoop, InCallback
  <2>15. ASSUME NEW ch \in IoChannels, IoEvent(ch) PROVE WakeupInFlight'
    BY <2>15, <2>4 DEF IoEvent
  <2>16. CASE UNCHANGED vars
    BY <2>16, <2>4 DEF vars
  <2> QED
    BY <2>1, <2>2, <2>3, <2>5, <2>6, <2>7, <2>8, <2>9, <2>10, <2>11, <2>12,
       <2>13, <2>14, <2>15, <2>16 DEF Next, LoopStep
<1> QED
  BY <1>1, <1>2, TypeCorrect, PTL DEF Spec

\* Neither a functor nor a quit() is slept through.
THEOREM SleepingLoopIsWokenCorrect == Spec => []SleepingLoopIsWoken
BY QuitWakesPollCorrect, NoLostWakeupCorrect, PTL DEF SleepingLoopIsWoken

(***************************************************************************)
(* EventLoop implements FunctorQueue.  PhaseInv is the strengthening: the  *)
(* swap of doPendingFunctors overwrites running, and the mapped queue      *)
(* running \o pending only stutters there because the vector of the        *)
(* previous round is used up.                                              *)
(***************************************************************************)

\* No functor runs while an event that poll has reported is still to be
\* dispatched, and no handler while swapped-out functors are left to run.
THEOREM PhaseCorrect == Spec => []PhaseInv
<1>1. Init => PhaseInv
  BY DEF Init, PhaseInv
<1>2. PhaseInv /\ [Next]_vars => PhaseInv'
  <2> SUFFICES ASSUME PhaseInv, [Next]_vars PROVE PhaseInv'
    OBVIOUS
  <2> USE DEF PhaseInv
  <2>1. ASSUME NEW t \in Threads, NEW f \in Functors, QueueInLoop(t, f) PROVE PhaseInv'
    BY <2>1 DEF QueueInLoop
  <2>2. ASSUME NEW t \in Threads, Quit(t) \/ Wakeup(t) PROVE PhaseInv'
    BY <2>2 DEF Quit, Wakeup
  <2>3. CASE EnterLoop \/ TestQuit
    BY <2>3 DEF EnterLoop, TestQuit
  <2>4. CASE PollEvents \/ PollTimeout
    BY <2>4 DEF PollEvents, PollTimeout
  <2>5. CASE HandleWakeup \/ HandleIo
    BY <2>5 DEF HandleWakeup, HandleIo
  <2>6. CASE SwapFunctors
    BY <2>6 DEF SwapFunctors
  <2>7. CASE RunFunctor
    BY <2>7 DEF RunFunctor
  <2>8. CASE FinishFunctors
    BY <2>8 DEF FinishFunctors
  <2>9. CASE ReturnFromCallback
    BY <2>9 DEF ReturnFromCallback, InCallback
  <2>10. ASSUME NEW f \in Functors, QueueInLoopFromLoop(f) PROVE PhaseInv'
    BY <2>10 DEF QueueInLoopFromLoop
  <2>11. CASE QuitFromLoop
    BY <2>11 DEF QuitFromLoop
  <2>12. ASSUME NEW ch \in IoChannels, IoEvent(ch) PROVE PhaseInv'
    BY <2>12 DEF IoEvent
  <2>13. CASE UNCHANGED vars
    BY <2>13 DEF vars
  <2> QED
    BY <2>1, <2>2, <2>3, <2>4, <2>5, <2>6, <2>7, <2>8, <2>9, <2>10, <2>11,
       <2>12, <2>13 DEF Next, LoopStep
<1> QED
  BY <1>1, <1>2, PTL DEF Spec

\* The types and the phases together, whatever the other threads do.
THEOREM LoopShapeCorrect == Spec => []LoopShape
BY TypeCorrect, PhaseCorrect, PTL DEF LoopShape

\* What is in neither vector and has not been started is new to FunctorQueue.
LEMMA UnusedIsNew ==
    ASSUME TypeOK, NEW f, Unused(f)
    PROVE  FQ!Unused(f)
<1>1. f \notin Range(pending) /\ f \notin Range(running) /\ f \notin Range(ran)
  BY DEF Unused
<1>2. \A i \in 1..Len(running) : running[i] # f
  BY <1>1 DEF Range, TypeOK
<1>3. \A i \in 1..Len(pending) : pending[i] # f
  BY <1>1 DEF Range, TypeOK
<1>4. \A i \in 1..Len(running \o pending) : (running \o pending)[i] # f
  BY <1>2, <1>3 DEF TypeOK
<1>5. f \notin Range(running \o pending)
  BY <1>4 DEF Range, TypeOK
<1> QED
  BY <1>1, <1>5 DEF FQ!Unused, FQ!Range, Range

\* Pushing a functor on pendingFunctors_ is a Submit of FunctorQueue.
LEMMA PushIsSubmit ==
    ASSUME TypeOK, NEW f \in Functors, Unused(f),
           pending' = Append(pending, f), UNCHANGED <<running, ran>>
    PROVE  FQ!Submit(f)
<1>1. running \o Append(pending, f) = Append(running \o pending, f)
  BY DEF TypeOK
<1> QED
  BY <1>1, UnusedIsNew DEF FQ!Submit

\* Each step of the loop and its callers is a step of FunctorQueue or leaves
\* its queue and history alone: functors run at most once and in the order in
\* which they were queued, across the swap of the vectors.
THEOREM ImplementsFunctorQueueCorrect == Spec => ImplementsFunctorQueue
<1>1. Init => FQ!Init
  BY DEF Init, FQ!Init
<1>2. TypeOK /\ PhaseInv /\ [Next]_vars => [FQ!Next]_(FQ!vars)
  <2> SUFFICES ASSUME TypeOK, PhaseInv, [Next]_vars
               PROVE  FQ!Next \/ UNCHANGED FQ!vars
    OBVIOUS
  <2>1. ASSUME UNCHANGED <<running, pending, ran>> PROVE UNCHANGED FQ!vars
    BY <2>1 DEF FQ!vars
  <2>2. ASSUME NEW t \in Threads, NEW f \in Functors, QueueInLoop(t, f)
        PROVE  FQ!Next
    BY <2>2, PushIsSubmit DEF QueueInLoop, FQ!Next
  <2>3. ASSUME NEW f \in Functors, QueueInLoopFromLoop(f) PROVE FQ!Next
    BY <2>3, PushIsSubmit DEF QueueInLoopFromLoop, FQ!Next
  <2>4. CASE SwapFunctors
    <3>1. running = <<>> /\ running' = pending /\ pending' = <<>> /\ ran' = ran
      BY <2>4 DEF SwapFunctors, PhaseInv
    <3>2. pending \o <<>> = <<>> \o pending
      BY DEF TypeOK
    <3> QED
      BY <3>1, <3>2 DEF FQ!vars
  <2>5. CASE RunFunctor
    <3>1. /\ running # <<>> /\ running' = Tail(running) /\ pending' = pending
          /\ ran' = Append(ran, Head(running))
      BY <2>5 DEF RunFunctor
    <3>2. running \o pending # <<>>
      BY <3>1 DEF TypeOK
    <3>3. Head(running \o pending) = Head(running)
      BY <3>1 DEF TypeOK
    <3>4. Tail(running \o pending) = Tail(running) \o pending
      BY <3>1 DEF TypeOK
    <3> QED
      BY <3>1, <3>2, <3>3, <3>4 DEF FQ!RunNext, FQ!Next
  <2>6. ASSUME NEW t \in Threads, Quit(t) \/ Wakeup(t) PROVE UNCHANGED FQ!vars
    BY <2>6, <2>1 DEF Quit, Wakeup
  <2>7. CASE EnterLoop \/ TestQuit \/ PollEvents \/ PollTimeout
    BY <2>7, <2>1 DEF EnterLoop, TestQuit, PollEvents, PollTimeout
  <2>8. CASE HandleWakeup \/ HandleIo \/ FinishFunctors \/ ReturnFromCallback \/ QuitFromLoop
    BY <2>8, <2>1 DEF HandleWakeup, HandleIo, FinishFunctors, ReturnFromCallback, QuitFromLoop
  <2>9. ASSUME NEW ch \in IoChannels, IoEvent(ch) PROVE UNCHANGED FQ!vars
    BY <2>9, <2>1 DEF IoEvent
  <2>10. CASE UNCHANGED vars
    BY <2>10, <2>1 DEF vars
  <2> QED
    BY <2>2, <2>3, <2>4, <2>5, <2>6, <2>7, <2>8, <2>9, <2>10 DEF Next, LoopStep
<1> QED
  BY <1>1, <1>2, TypeCorrect, PhaseCorrect, PTL DEF Spec, ImplementsFunctorQueue, FQ!Spec

-----------------------------------------------------------------------------
(* EventLoopThread: the thread that creates a loop, runs it and destroys   *)
(* it.                                                                     *)

(***************************************************************************)
(* The strengthening.  The number of starts names the loop of the current  *)
(* thread, so a loop is freed either because a later thread published its  *)
(* own (the freed one is then below starts) or because the object is gone, *)
(* when no thread is left.                                                 *)
(***************************************************************************)

\* Before the thread has published its loop, loop_ is an earlier one; after
\* that, it is the thread's.
PublishInv ==
    /\ threadPc = "none" => starts = 0 /\ loopPtr = 0
    /\ threadPc \in {"create", "publish"} => starts \in Loops /\ loopPtr < starts
    /\ threadPc \in {"notify", "enter", "looping", "exited"} =>
          starts \in Loops /\ loopPtr = starts

\* A thread that has not returned is joinable, and the object is not gone.
JoinInv ==
    /\ threadPc \notin {"none", "exited"} => joinable /\ ownerPc # "gone"
    /\ ownerPc \in {"check", "asleep", "return"} => joinable

\* While the object exists only loops older than loop_ are freed.
FreedInv ==
    /\ \A l \in freed : l <= starts
    /\ ownerPc # "gone" => \A l \in freed : l < loopPtr

ThreadInv == ThreadTypeOK /\ PublishInv /\ JoinInv /\ FreedInv

LEMMA InitThreadInv == ThreadInit => ThreadInv
<1> SUFFICES ASSUME ThreadInit PROVE ThreadInv
  OBVIOUS
<1> USE MaxStartsAssumption DEF ThreadInit, Loops
<1>1. quitOf \in [Loops -> BOOLEAN]
  OBVIOUS
<1>2. ThreadTypeOK
  <2>1. starts \in 0..MaxStarts /\ loopPtr \in 0..MaxStarts /\ handle \in 0..MaxStarts
        /\ quitting \in 0..MaxStarts
    OBVIOUS
  <2>2. ownerPc \in OwnerPcs /\ threadPc \in ThreadPcs /\ freed \subseteq Loops
    BY DEF OwnerPcs, ThreadPcs
  <2>3. /\ destroying \in BOOLEAN /\ joinable \in BOOLEAN
        /\ enteredAtStop \in BOOLEAN /\ useAfterFree \in BOOLEAN
    OBVIOUS
  <2> QED
    BY <1>1, <2>1, <2>2, <2>3, Zenon DEF ThreadTypeOK
<1>3. PublishInv /\ JoinInv /\ FreedInv
  BY DEF PublishInv, JoinInv, FreedInv
<1> QED
  BY <1>2, <1>3 DEF ThreadInv

\* No step of the owner or of the thread breaks the strengthening.
LEMMA NextThreadInv == ThreadInv /\ [ThreadNext]_threadVars => ThreadInv'
<1> SUFFICES ASSUME ThreadInv, [ThreadNext]_threadVars PROVE ThreadInv'
  OBVIOUS
<1> USE MaxStartsAssumption
    DEF ThreadInv, ThreadTypeOK, PublishInv, JoinInv, FreedInv, OwnerPcs, ThreadPcs, Loops
<1>1. CASE StartLoopAgain
  BY <1>1 DEF StartLoopAgain
<1>2. CASE StartLoop
  BY <1>2 DEF StartLoop
<1>3. CASE CheckLoop
  BY <1>3 DEF CheckLoop
<1>4. CASE ReturnLoop
  BY <1>4 DEF ReturnLoop
<1>5. ASSUME NEW final \in BOOLEAN, ownerPc = "idle", SetQuit(final) PROVE ThreadInv'
  <2>1. /\ UNCHANGED <<threadPc, joinable, starts, loopPtr, freed, handle>>
        /\ ownerPc' \in {"wake", "join"} /\ destroying' \in BOOLEAN
    BY <1>5, Zenon DEF SetQuit
  <2>2. quitOf' \in [Loops -> BOOLEAN] /\ quitting' \in 0..MaxStarts
    <3>1. CASE loopPtr # 0
      BY <1>5, <3>1 DEF SetQuit
    <3>2. CASE loopPtr = 0
      <4>1. UNCHANGED <<quitOf, quitting>>
        BY <1>5, <3>2, Zenon DEF SetQuit
      <4> QED
        BY <4>1
    <3> QED
      BY <3>1, <3>2
  <2>3. enteredAtStop' \in BOOLEAN /\ useAfterFree' \in BOOLEAN
    <3>1. CASE loopPtr # 0
      <4>1. /\ enteredAtStop' = (threadPc \in {"looping", "exited"})
            /\ useAfterFree' = (useAfterFree \/ loopPtr \in freed)
        BY <1>5, <3>1, Zenon DEF SetQuit
      <4>2. enteredAtStop' \in BOOLEAN
        BY ONLY <4>1
      <4>3. useAfterFree' \in BOOLEAN
        BY ONLY <4>1
      <4> QED
        BY ONLY <4>2, <4>3
    <3>2. CASE loopPtr = 0
      <4>1. enteredAtStop' = enteredAtStop /\ useAfterFree' = useAfterFree
        BY <1>5, <3>2, Zenon DEF SetQuit
      <4> QED
        BY <4>1
    <3> QED
      BY <3>1, <3>2
  <2>4. ThreadTypeOK'
    BY <2>1, <2>2, <2>3
  <2>5. PublishInv' /\ JoinInv' /\ FreedInv'
    BY <1>5, <2>1
  <2> QED
    BY <2>4, <2>5
<1>6. CASE Stop \/ Destroy
  BY <1>5, <1>6 DEF Stop, Destroy
<1>7. CASE WakeLoop
  BY <1>7 DEF WakeLoop
<1>8. CASE Join
  <2>1. threadPc \in {"none", "exited"}
    BY <1>8 DEF Join
  <2>2. PublishInv' /\ JoinInv'
    BY <1>8, <2>1 DEF Join
  <2>3. freed' \subseteq freed \cup {loopPtr} /\ freed' \subseteq Loops
    BY <1>8 DEF Join
  <2>4. ThreadTypeOK'
    BY <1>8, <2>3 DEF Join
  <2>5. loopPtr <= starts /\ starts' = starts
    BY <1>8, <2>1 DEF Join
  <2>6. ownerPc' # "gone" => freed' = freed
    BY <1>8 DEF Join
  <2>7. FreedInv'
    BY <1>8, <2>3, <2>5, <2>6 DEF Join
  <2> QED
    BY <2>2, <2>4, <2>7
<1>9. CASE CreateLoop
  BY <1>9 DEF CreateLoop, ThreadMoves
<1>10. CASE PublishLoop
  BY <1>10 DEF PublishLoop, ThreadMoves
<1>11. CASE Notify
  BY <1>11 DEF Notify, ThreadMoves
<1>12. CASE ThreadEntersLoop
  BY <1>12 DEF ThreadEntersLoop, ThreadMoves
<1>13. CASE LeaveLoop
  BY <1>13 DEF LeaveLoop, ThreadMoves
<1>14. CASE UNCHANGED threadVars
  BY <1>14 DEF threadVars
<1> QED
  BY <1>1, <1>2, <1>3, <1>4, <1>6, <1>7, <1>8, <1>9, <1>10, <1>11, <1>12, <1>13, <1>14
     DEF ThreadNext, OwnerStep, ThreadStep

LEMMA ThreadInvCorrect == ThreadSpec => []ThreadInv
BY InitThreadInv, NextThreadInv, PTL DEF ThreadSpec

\* Every variable of EventLoopThread keeps its type through starts, stops and
\* the destructor.
THEOREM ThreadTypeCorrect == ThreadSpec => []ThreadTypeOK
<1>1. ThreadInv => ThreadTypeOK
  BY DEF ThreadInv
<1> QED
  BY <1>1, ThreadInvCorrect, PTL

\* A thread never runs a destroyed loop, however often the owner starts and
\* stops the object and whenever it destroys it.
THEOREM NoLoopFreedWhileRunningCorrect == ThreadSpec => []NoLoopFreedWhileRunning
<1>1. ThreadInv => NoLoopFreedWhileRunning
  <2> SUFFICES ASSUME ThreadInv, threadPc \in {"notify", "enter", "looping"}
               PROVE  loopPtr \notin freed
    BY DEF NoLoopFreedWhileRunning
  <2>1. ownerPc # "gone" /\ loopPtr \in Nat
    BY MaxStartsAssumption DEF ThreadInv, ThreadTypeOK, JoinInv
  <2>2. \A l \in freed : l < loopPtr
    BY <2>1 DEF ThreadInv, FreedInv
  <2> QED
    BY <2>1, <2>2
<1> QED
  BY <1>1, ThreadInvCorrect, PTL

\* Once a startLoop has come out of its wait, loop_ is never null again, and
\* what it returned is what loop_ was.
HandleInv ==
    /\ starts # 0 /\ ownerPc \notin {"check", "asleep"} => loopPtr # 0
    /\ starts # 0 /\ ownerPc \notin {"check", "asleep", "return"} => handle # 0

LEMMA HandleInvKept == ThreadInv /\ HandleInv /\ [ThreadNext]_threadVars => HandleInv'
<1> SUFFICES ASSUME ThreadInv, HandleInv, [ThreadNext]_threadVars PROVE HandleInv'
  OBVIOUS
<1> USE MaxStartsAssumption DEF HandleInv
<1>1. CASE StartLoopAgain
  BY <1>1 DEF StartLoopAgain
<1>2. CASE StartLoop
  BY <1>2 DEF StartLoop
<1>3. CASE CheckLoop \/ ReturnLoop
  BY <1>3 DEF CheckLoop, ReturnLoop
<1>4. ASSUME NEW final \in BOOLEAN, ownerPc = "idle", SetQuit(final) PROVE HandleInv'
  BY <1>4 DEF SetQuit
<1>5. CASE Stop \/ Destroy
  BY <1>4, <1>5 DEF Stop, Destroy
<1>6. CASE WakeLoop \/ Join
  BY <1>6 DEF WakeLoop, Join
<1>7. CASE PublishLoop
  <2>1. loopPtr' = starts /\ starts' = starts /\ ownerPc' = ownerPc /\ handle' = handle
    BY <1>7 DEF PublishLoop, ThreadMoves
  <2> QED
    BY <2>1
<1>8. CASE CreateLoop \/ Notify \/ ThreadEntersLoop \/ LeaveLoop
  BY <1>8 DEF CreateLoop, Notify, ThreadEntersLoop, LeaveLoop
<1>9. CASE UNCHANGED threadVars
  BY <1>9 DEF threadVars
<1> QED
  BY <1>1, <1>2, <1>3, <1>5, <1>6, <1>7, <1>8, <1>9 DEF ThreadNext, OwnerStep, ThreadStep

\* No loop has been freed before the first restart or the destructor.
LEMMA NothingFreed ==
    ASSUME ThreadInv, starts <= 1, ownerPc # "gone"
    PROVE  freed = {}
<1>1. loopPtr <= 1
  BY MaxStartsAssumption DEF ThreadInv, ThreadTypeOK, PublishInv, ThreadPcs, Loops
<1> QED
  BY <1>1, MaxStartsAssumption DEF ThreadInv, ThreadTypeOK, FreedInv, Loops

\* The pointer of an object that is started once is not null, and a pointer
\* startLoop returned is valid after loop() was left, until the destructor or until
\* the thread of a later start has published its own loop.
THEOREM HandleOutlivesLoopCorrect == ThreadSpec => []HandleOutlivesLoop
<1>1. ThreadInit => HandleInv
  BY DEF ThreadInit, HandleInv
<1>2. ThreadInv /\ HandleInv => HandleOutlivesLoop
  <2>1. ASSUME HandleInv, starts = 1, ownerPc \in {"idle", "wake", "join"} PROVE handle # 0
    BY <2>1 DEF HandleInv
  <2>2. ASSUME ThreadInv, ownerPc # "gone", handle \in freed PROVE handle < loopPtr
    BY <2>2 DEF ThreadInv, FreedInv
  <2> QED
    BY <2>1, <2>2 DEF HandleOutlivesLoop
<1> QED
  BY <1>1, <1>2, HandleInvKept, ThreadInvCorrect, PTL DEF ThreadSpec

\* Without a restart quit() never touches a destroyed loop.
THEOREM NoUseAfterFreeCorrect == ThreadSpec => []NoUseAfterFree
<1>1. ThreadInit => NoUseAfterFree
  BY DEF ThreadInit, NoUseAfterFree
<1>2. ThreadInv /\ NoUseAfterFree /\ [ThreadNext]_threadVars => NoUseAfterFree'
  <2> SUFFICES ASSUME ThreadInv, NoUseAfterFree, [ThreadNext]_threadVars, starts' <= 1
               PROVE  ~useAfterFree'
    BY DEF NoUseAfterFree
  <2>1. starts <= 1
    BY MaxStartsAssumption DEF ThreadNext, OwnerStep, ThreadStep, StartLoopAgain, StartLoop,
       CheckLoop, ReturnLoop, Stop, Destroy, SetQuit, WakeLoop, Join, CreateLoop, PublishLoop,
       Notify, ThreadEntersLoop, LeaveLoop, threadVars, ThreadInv, ThreadTypeOK
  <2>2. ~useAfterFree
    BY <2>1 DEF NoUseAfterFree
  <2>3. ownerPc # "gone" => freed = {}
    BY <2>1, NothingFreed
  <2>4. ASSUME NEW final \in BOOLEAN, ownerPc = "idle", SetQuit(final) PROVE ~useAfterFree'
    BY <2>2, <2>3, <2>4 DEF SetQuit
  <2>5. CASE Stop \/ Destroy
    BY <2>4, <2>5 DEF Stop, Destroy
  <2>6. CASE WakeLoop
    BY <2>2, <2>3, <2>6 DEF WakeLoop
  <2>7. CASE StartLoopAgain \/ StartLoop \/ CheckLoop \/ ReturnLoop \/ Join
    BY <2>2, <2>7 DEF StartLoopAgain, StartLoop, CheckLoop, ReturnLoop, Join
  <2>8. CASE ThreadStep \/ UNCHANGED threadVars
    BY <2>2, <2>8 DEF ThreadStep, CreateLoop, PublishLoop, Notify, ThreadEntersLoop,
       LeaveLoop, threadVars
  <2> QED
    BY <2>5, <2>6, <2>7, <2>8 DEF ThreadNext, OwnerStep
<1> QED
  BY <1>1, <1>2, ThreadInvCorrect, PTL DEF ThreadSpec

\* The three together. Of a thread and its loop it holds through every restart;
\* of the pointer and of stop() it says what it says for an object started once,
\* since a later start does destroy the loop they may still name.
THEOREM LoopOutlivesItsUseCorrect == ThreadSpec => []LoopOutlivesItsUse
BY NoLoopFreedWhileRunningCorrect, HandleOutlivesLoopCorrect, NoUseAfterFreeCorrect, PTL
   DEF LoopOutlivesItsUse
=============================================================================
