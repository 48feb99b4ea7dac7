------------------------------ MODULE EventLoop ------------------------------
(***************************************************************************)
(* One EventLoop (src/muduox/net/core/EventLoop.cpp): the loop thread that *)
(* polls, dispatches the active channels and runs the queued functors, and *)
(* other threads that call queueInLoop, runInLoop and quit on it.  Called  *)
(* from another thread, runInLoop is queueInLoop; called on the loop       *)
(* thread it runs the functor inline and is part of the running callback.  *)
(*                                                                         *)
(* The mutex-protected sections of queueInLoop and doPendingFunctors are   *)
(* one step each.  What follows them without the mutex -- the write to     *)
(* the wake-up socket, the functors run from the swapped-out vector -- is  *)
(* a step of its own.  The plain bool quit_ is read and written by several *)
(* threads without synchronisation; each access is an atomic step here.    *)
(***************************************************************************)
EXTENDS Integers, Sequences, FiniteSets, Functions

CONSTANTS
    Functors,        \* identities of the functors that may be queued
    Threads,         \* the threads other than the loop thread
    IoChannels,      \* the channels of the loop besides the wake-up channel
    WakeupChannel,   \* wakeupChannel_
    WakeCapacity     \* wake-up messages the socket pair can hold

ASSUME WakeCapacityAssumption == WakeCapacity \in Nat \ {0}
ASSUME ChannelAssumption == IsFiniteSet(IoChannels) /\ WakeupChannel \notin IoChannels

VARIABLES
    loopPc,     \* where the loop thread is
    pc,         \* pc[t]: "idle", or "wakeup" between the effect of a
                \* cross-thread call and its write to the wake-up socket
    pending,    \* pendingFunctors_
    running,    \* functors still to run of the vector doPendingFunctors swapped out
    active,     \* activeChannels_ not yet dispatched
    wakeups,    \* unread messages in wakeupFds_
    ioReady,    \* channels of IoChannels with an event
    quit,       \* quit_
    ran,        \* history: functors started, oldest first
    nested      \* history: functors queued by a functor, on the loop thread

vars == <<loopPc, pc, pending, running, active, wakeups, ioReady, quit, ran, nested>>

(***************************************************************************)
(* loopPc:  "created"  the EventLoop exists, loop() has not been entered   *)
(*          "test"     at  while (!quit_)                                  *)
(*          "poll"     inside poller_->poll()                              *)
(*          "dispatch" in the loop over activeChannels_                    *)
(*          "handler"  inside a callback of an IO channel                  *)
(*          "run"      in the loop of doPendingFunctors                    *)
(*          "functor"  inside func()                                       *)
(*          "done"     loop() has returned                                 *)
(***************************************************************************)
LoopPcs == {"created", "test", "poll", "dispatch", "handler", "run", "functor", "done"}

Channels == IoChannels \cup {WakeupChannel}

TypeOK ==
    /\ loopPc \in LoopPcs
    /\ pc \in [Threads -> {"idle", "wakeup"}]
    /\ pending \in Seq(Functors)
    /\ running \in Seq(Functors)
    /\ active \in Seq(Channels)
    /\ wakeups \in 0..WakeCapacity
    /\ ioReady \subseteq IoChannels
    /\ quit \in BOOLEAN
    /\ ran \in Seq(Functors)
    /\ nested \subseteq Functors

Init ==
    /\ loopPc = "created"
    /\ pc = [t \in Threads |-> "idle"]
    /\ pending = <<>>
    /\ running = <<>>
    /\ active = <<>>
    /\ wakeups = 0
    /\ ioReady = {}
    /\ quit = FALSE
    /\ ran = <<>>
    /\ nested = {}

Unused(f) == \A s \in {pending, running, ran} : f \notin Range(s)

-----------------------------------------------------------------------------
(* The other threads.                                                      *)

\* Mutant of QueueInLoop: the wake-up is spared unless the loop is seen asleep.
QueueInLoopWakingOnlySleepers(t, f) ==
    /\ pc[t] = "idle"
    /\ Unused(f)
    /\ pending' = Append(pending, f)
    /\ pc' = [pc EXCEPT ![t] = IF loopPc = "poll" THEN "wakeup" ELSE "idle"]
    /\ UNCHANGED <<loopPc, running, active, wakeups, ioReady, quit, ran, nested>>

\* queueInLoop from another thread: push_back under mutex_.
QueueInLoop(t, f) ==
    /\ pc[t] = "idle"
    /\ Unused(f)
    /\ pending' = Append(pending, f)
    /\ pc' = [pc EXCEPT ![t] = "wakeup"]
    /\ UNCHANGED <<loopPc, running, active, wakeups, ioReady, quit, ran, nested>>

\* Mutant of Quit: no wakeup().
QuitWithoutWakeup(t) ==
    /\ pc[t] = "idle"
    /\ quit' = TRUE
    /\ UNCHANGED <<loopPc, pc, pending, running, active, wakeups, ioReady, ran, nested>>

\* quit from another thread: the flag first.
Quit(t) ==
    /\ pc[t] = "idle"
    /\ quit' = TRUE
    /\ pc' = [pc EXCEPT ![t] = "wakeup"]
    /\ UNCHANGED <<loopPc, pending, running, active, wakeups, ioReady, ran, nested>>

\* wakeup(): the socket is non-blocking and the result of send is ignored, so
\* a full socket drops the message.
Wakeup(t) ==
    /\ pc[t] = "wakeup"
    /\ wakeups' = IF wakeups < WakeCapacity THEN wakeups + 1 ELSE wakeups
    /\ pc' = [pc EXCEPT ![t] = "idle"]
    /\ UNCHANGED <<loopPc, pending, running, active, ioReady, quit, ran, nested>>

-----------------------------------------------------------------------------
(* The loop thread.                                                        *)

\* loop() resets quit_ before its first test.
EnterLoop ==
    /\ loopPc = "created"
    /\ loopPc' = "test"
    /\ quit' = FALSE
    /\ UNCHANGED <<pc, pending, running, active, wakeups, ioReady, ran, nested>>

TestQuit ==
    /\ loopPc = "test"
    /\ loopPc' = IF quit THEN "done" ELSE "poll"
    /\ UNCHANGED <<pc, pending, running, active, wakeups, ioReady, quit, ran, nested>>

\* Mutant of Ready: the wake-up channel was never enabled for reading.
ReadyIoOnly == ioReady

\* The channels with an event; the constructor enabled the wake-up channel.
Ready == ioReady \cup (IF wakeups > 0 THEN {WakeupChannel} ELSE {})

\* The orders in which epoll_wait may list the ready channels.
Orders(S) == {s \in [1..Cardinality(S) -> S] : Range(s) = S}

PollEvents ==
    /\ loopPc = "poll"
    /\ Ready # {}
    /\ active' \in Orders(Ready)
    /\ loopPc' = "dispatch"
    /\ UNCHANGED <<pc, pending, running, wakeups, ioReady, quit, ran, nested>>

\* epoll_wait returns after kPollTimeMs without an event.
PollTimeout ==
    /\ loopPc = "poll"
    /\ Ready = {}
    /\ active' = <<>>
    /\ loopPc' = "dispatch"
    /\ UNCHANGED <<pc, pending, running, wakeups, ioReady, quit, ran, nested>>

\* handleWakeup() reads one message.
HandleWakeup ==
    /\ loopPc = "dispatch"
    /\ active # <<>> /\ Head(active) = WakeupChannel
    /\ wakeups' = IF wakeups > 0 THEN wakeups - 1 ELSE wakeups
    /\ active' = Tail(active)
    /\ UNCHANGED <<loopPc, pc, pending, running, ioReady, quit, ran, nested>>

\* The callback of an IO channel; epoll is level-triggered, so the channel
\* stays ready unless the callback consumes the event.
HandleIo ==
    /\ loopPc = "dispatch"
    /\ active # <<>> /\ Head(active) \in IoChannels
    /\ active' = Tail(active)
    /\ ioReady' \in {ioReady, ioReady \ {Head(active)}}
    /\ loopPc' = "handler"
    /\ UNCHANGED <<pc, pending, running, wakeups, quit, ran, nested>>

\* Mutant of SwapFunctors: the vector is copied, not swapped.
CopyFunctors ==
    /\ loopPc = "dispatch"
    /\ active = <<>>
    /\ running' = pending
    /\ loopPc' = "run"
    /\ UNCHANGED <<pc, pending, active, wakeups, ioReady, quit, ran, nested>>

\* Mutant of SwapFunctors: doPendingFunctors is called inside the loop over
\* activeChannels_, after each event.
SwapFunctorsBetweenEvents ==
    /\ loopPc = "dispatch"
    /\ running' = pending
    /\ pending' = <<>>
    /\ loopPc' = "run"
    /\ UNCHANGED <<pc, active, wakeups, ioReady, quit, ran, nested>>

\* doPendingFunctors: functors.swap(pendingFunctors_) under mutex_.
SwapFunctors ==
    /\ loopPc = "dispatch"
    /\ active = <<>>
    /\ running' = pending
    /\ pending' = <<>>
    /\ loopPc' = "run"
    /\ UNCHANGED <<pc, active, wakeups, ioReady, quit, ran, nested>>

RunFunctor ==
    /\ loopPc = "run"
    /\ running # <<>>
    /\ ran' = Append(ran, Head(running))
    /\ running' = Tail(running)
    /\ loopPc' = "functor"
    /\ UNCHANGED <<pc, pending, active, wakeups, ioReady, quit, nested>>

FinishFunctors ==
    /\ loopPc = "run"
    /\ running = <<>>
    /\ loopPc' = "test"
    /\ UNCHANGED <<pc, pending, running, active, wakeups, ioReady, quit, ran, nested>>

InCallback == loopPc \in {"handler", "functor"}

\* queueInLoop called by a callback on the loop thread: no wake-up is sent.
QueueInLoopFromLoop(f) ==
    /\ InCallback
    /\ Unused(f)
    /\ pending' = Append(pending, f)
    /\ nested' = IF loopPc = "functor" THEN nested \cup {f} ELSE nested
    /\ UNCHANGED <<loopPc, pc, running, active, wakeups, ioReady, quit, ran>>

\* quit called by a callback on the loop thread: no wake-up is sent.
QuitFromLoop ==
    /\ InCallback
    /\ quit' = TRUE
    /\ UNCHANGED <<loopPc, pc, pending, running, active, wakeups, ioReady, ran, nested>>

ReturnFromCallback ==
    /\ InCallback
    /\ loopPc' = IF loopPc = "handler" THEN "dispatch" ELSE "run"
    /\ UNCHANGED <<pc, pending, running, active, wakeups, ioReady, quit, ran, nested>>

-----------------------------------------------------------------------------
\* The environment: an event on an IO channel.
IoEvent(ch) ==
    /\ ch \notin ioReady
    /\ ioReady' = ioReady \cup {ch}
    /\ UNCHANGED <<loopPc, pc, pending, running, active, wakeups, quit, ran, nested>>

\* The steps the loop thread takes by itself, short of waiting out a poll.
LoopStep ==
    \/ EnterLoop
    \/ TestQuit
    \/ PollEvents
    \/ HandleWakeup
    \/ HandleIo
    \/ SwapFunctors
    \/ RunFunctor
    \/ FinishFunctors
    \/ ReturnFromCallback

Next ==
    \/ LoopStep
    \/ PollTimeout
    \/ QuitFromLoop
    \/ \E f \in Functors : QueueInLoopFromLoop(f)
    \/ \E t \in Threads :
          \/ Quit(t)
          \/ Wakeup(t)
          \/ \E f \in Functors : QueueInLoop(t, f)
    \/ \E ch \in IoChannels : IoEvent(ch)

Spec == Init /\ [][Next]_vars

(***************************************************************************)
(* Fairness.  The operating system keeps scheduling a thread that can      *)
(* run, callbacks return, and a thread that has queued a functor goes on   *)
(* to its wakeup().  Nothing obliges a thread to call in, an event to      *)
(* arrive, or -- in PromptSpec -- a poll to time out: what holds there     *)
(* holds because of the wake-up socket.                                    *)
(***************************************************************************)
PromptSpec == Spec /\ WF_vars(LoopStep) /\ \A t \in Threads : WF_vars(Wakeup(t))

-----------------------------------------------------------------------------
(* Properties.                                                             *)

WakeupInFlight == wakeups > 0 \/ \E t \in Threads : pc[t] = "wakeup"

\* No lost wake-up: outside the window between the poll and the swap of
\* doPendingFunctors, a queued functor that no functor queued -- it came from
\* another thread or from an IO callback -- has a wake-up message in the
\* socket or a thread about to write one, so the next poll cannot sleep on it.
NoLostWakeup ==
    (/\ loopPc \in {"created", "test", "poll", "run", "functor"}
     /\ \E i \in DOMAIN pending : pending[i] \notin nested)
    => WakeupInFlight

\* quit() reaches a sleeping loop: a loop inside poll whose quit_ is set has a
\* wake-up message in the socket or a thread about to write one.
QuitWakesPoll == loopPc = "poll" /\ quit => WakeupInFlight

\* Whatever another thread asks of a loop that sleeps in poll, its wake-up is in
\* the socket or under way.
SleepingLoopIsWoken == NoLostWakeup /\ QuitWakesPoll

\* Events and functors do not mix: no functor runs while an event of the poll
\* is still to be dispatched -- a functor may be connectDestroyed, after which the
\* channel of such an event is gone -- and no handler runs while functors of the
\* swapped-out vector are left.
PhaseInv ==
    /\ running # <<>> => loopPc \in {"run", "functor"}
    /\ active # <<>> => loopPc \in {"dispatch", "handler"}

\* The types, with the two vectors of loop() each confined to its phase.
LoopShape == TypeOK /\ PhaseInv

\* queueInLoop keeps its promise: the swapped-out vector followed by
\* pendingFunctors_ is a queue from which functors are run in order, once.
FQ == INSTANCE FunctorQueue WITH queue <- running \o pending
ImplementsFunctorQueue == FQ!Spec

\* A functor queued from another thread or from an IO callback is run, or the
\* loop is left, without any poll having to time out.  For a functor queued by
\* a functor no wake-up is sent: it is run too, or the loop is left, if polls
\* that find nothing ready time out (kPollTimeMs).
QueuedFunctorsRun ==
    /\ \A f \in Functors :
          (f \in Range(pending) /\ f \notin nested) ~> (f \in Range(ran) \/ loopPc = "done")
    /\ WF_vars(PollTimeout) =>
          \A f \in Functors : f \in Range(pending) ~> (f \in Range(ran) \/ loopPc = "done")

\* quit() on a loop that has been entered ends loop(), whichever thread calls
\* it and without any poll having to time out.
QuitEndsLoop == (quit /\ loopPc # "created") ~> loopPc = "done"
=============================================================================
