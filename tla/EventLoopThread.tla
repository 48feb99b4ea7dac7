--------------------------- MODULE EventLoopThread ---------------------------
(***************************************************************************)
(* One EventLoopThread (src/muduox/net/core/EventLoopThreadPool.cpp): the  *)
(* owner calls startLoop, stop and the destructor, one at a time; each     *)
(* startLoop that finds no joinable thread spawns a thread that creates an *)
(* EventLoop, publishes it in loop_ under the mutex, notifies, and runs    *)
(* it.  The n-th thread creates loop n, so a loop is a number and 0 is the *)
(* null pointer.                                                           *)
(*                                                                         *)
(* Of the loop itself only quit_ is kept: reset by loop() on entry, set by *)
(* quit().  That a loop whose quit_ is set after the entry is left is what *)
(* EventLoop!QuitEndsLoop says.  Both modules can be extended together:    *)
(* this one has none of EventLoop's names.                                 *)
(***************************************************************************)
EXTENDS Integers

CONSTANT MaxStarts   \* bound: threads spawned over the lifetime of the object

ASSUME MaxStartsAssumption == MaxStarts \in Nat \ {0}

VARIABLES
    ownerPc,     \* where the owner is
    destroying,  \* the owner is in the destructor
    threadPc,    \* where the current thread is
    joinable,    \* thread_.joinable()
    starts,      \* threads spawned so far
    loopPtr,     \* loop_
    freed,       \* loops that have been destroyed
    quitOf,      \* quitOf[l]: quit_ of loop l
    handle,      \* the pointer the last startLoop returned
    quitting,    \* the loop on which stop() is calling quit()
    enteredAtStop, \* history: the thread was inside loop() when stop() set quit_
    useAfterFree \* history: quit() has touched a destroyed loop

threadVars == <<ownerPc, destroying, threadPc, joinable, starts, loopPtr, freed, quitOf,
          handle, quitting, enteredAtStop, useAfterFree>>

Loops == 1..MaxStarts

(***************************************************************************)
(* ownerPc:  "idle"     outside the object                                 *)
(*           "check"    startLoop holds mutex_, about to test loop_        *)
(*           "asleep"   startLoop sleeps in cond_.wait                     *)
(*           "return"   startLoop has released mutex_, about to read loop_ *)
(*           "wake"     quit() has set quit_ and is about to write to the  *)
(*                      wake-up socket                                     *)
(*           "join"     stop is about to join, or inside join              *)
(*           "gone"     the object is destroyed                            *)
(* threadPc: "none"     no thread has been spawned                         *)
(*           "create"   before the EventLoop is constructed                *)
(*           "publish"  before the mutex-protected assignment to loop_     *)
(*           "notify"   before notify_one                                  *)
(*           "enter"    before loop_->loop()                               *)
(*           "looping"  inside loop()                                      *)
(*           "exited"   threadFunc has returned                            *)
(***************************************************************************)
OwnerPcs == {"idle", "check", "asleep", "return", "wake", "join", "gone"}
ThreadPcs == {"none", "create", "publish", "notify", "enter", "looping", "exited"}

ThreadTypeOK ==
    /\ ownerPc \in OwnerPcs
    /\ threadPc \in ThreadPcs
    /\ destroying \in BOOLEAN /\ joinable \in BOOLEAN
    /\ enteredAtStop \in BOOLEAN /\ useAfterFree \in BOOLEAN
    /\ starts \in 0..MaxStarts
    /\ loopPtr \in 0..MaxStarts /\ handle \in 0..MaxStarts /\ quitting \in 0..MaxStarts
    /\ freed \subseteq Loops
    /\ quitOf \in [Loops -> BOOLEAN]

ThreadInit ==
    /\ ownerPc = "idle" /\ threadPc = "none"
    /\ destroying = FALSE /\ joinable = FALSE
    /\ enteredAtStop = FALSE /\ useAfterFree = FALSE
    /\ starts = 0 /\ loopPtr = 0 /\ handle = 0 /\ quitting = 0
    /\ freed = {}
    /\ quitOf = [l \in Loops |-> FALSE]

-----------------------------------------------------------------------------
(* The owner.                                                              *)

\* startLoop with a joinable thread returns loop_.
StartLoopAgain ==
    /\ ownerPc = "idle"
    /\ joinable
    /\ handle' = loopPtr
    /\ UNCHANGED <<ownerPc, destroying, threadPc, joinable, starts, loopPtr, freed, quitOf,
                   quitting, enteredAtStop, useAfterFree>>

\* startLoop otherwise spawns a thread; loop_ keeps the loop of an earlier one.
StartLoop ==
    /\ ownerPc = "idle"
    /\ ~joinable
    /\ starts < MaxStarts
    /\ starts' = starts + 1
    /\ joinable' = TRUE
    /\ threadPc' = "create"
    /\ ownerPc' = "check"
    /\ UNCHANGED <<destroying, loopPtr, freed, quitOf, handle, quitting, enteredAtStop,
                   useAfterFree>>

\* cond_.wait: the test of the predicate and the falling asleep are one step
\* because mutex_ is held until the wait releases it.
CheckLoop ==
    /\ ownerPc = "check"
    /\ ownerPc' = IF loopPtr # 0 THEN "return" ELSE "asleep"
    /\ UNCHANGED <<destroying, threadPc, joinable, starts, loopPtr, freed, quitOf, handle, quitting,
                   enteredAtStop, useAfterFree>>

\* startLoop reads loop_ again after the mutex is released.
ReturnLoop ==
    /\ ownerPc = "return"
    /\ handle' = loopPtr
    /\ ownerPc' = "idle"
    /\ UNCHANGED <<destroying, threadPc, joinable, starts, loopPtr, freed, quitOf, quitting,
                   enteredAtStop, useAfterFree>>

\* Mutant of SetQuit: quit() goes to the loop startLoop returned last.
SetQuitOnHandle(final) ==
    /\ destroying' = final
    /\ IF loopPtr # 0
       THEN /\ quitOf' = [quitOf EXCEPT ![handle] = TRUE]
            /\ quitting' = handle
            /\ enteredAtStop' = (threadPc \in {"looping", "exited"})
            /\ useAfterFree' = (useAfterFree \/ handle \in freed)
            /\ ownerPc' = "wake"
       ELSE /\ ownerPc' = "join"
            /\ UNCHANGED <<quitOf, quitting, enteredAtStop, useAfterFree>>
    /\ UNCHANGED <<threadPc, joinable, starts, loopPtr, freed, handle>>

\* stop: if (loop_) loop_->quit(), of which this is the write to quit_.
SetQuit(final) ==
    /\ destroying' = final
    /\ IF loopPtr # 0
       THEN /\ quitOf' = [quitOf EXCEPT ![loopPtr] = TRUE]
            /\ quitting' = loopPtr
            /\ enteredAtStop' = (threadPc \in {"looping", "exited"})
            /\ useAfterFree' = (useAfterFree \/ loopPtr \in freed)
            /\ ownerPc' = "wake"
       ELSE /\ ownerPc' = "join"
            /\ UNCHANGED <<quitOf, quitting, enteredAtStop, useAfterFree>>
    /\ UNCHANGED <<threadPc, joinable, starts, loopPtr, freed, handle>>

Stop == ownerPc = "idle" /\ SetQuit(FALSE)

\* The destructor calls stop; the members go when that has returned.
Destroy == ownerPc = "idle" /\ SetQuit(TRUE)

\* The rest of quit(): the write to the loop's wake-up socket.
WakeLoop ==
    /\ ownerPc = "wake"
    /\ useAfterFree' = (useAfterFree \/ quitting \in freed)
    /\ ownerPc' = "join"
    /\ quitting' = 0
    /\ UNCHANGED <<destroying, threadPc, joinable, starts, loopPtr, freed, quitOf, handle,
                   enteredAtStop>>

\* Mutant of Join: stop returns without waiting for the thread (detach).
JoinWithoutWaiting ==
    /\ ownerPc = "join"
    /\ joinable' = FALSE
    /\ ownerPc' = IF destroying THEN "gone" ELSE "idle"
    /\ freed' = IF destroying /\ loopPtr # 0 THEN freed \cup {loopPtr} ELSE freed
    /\ UNCHANGED <<destroying, threadPc, starts, loopPtr, quitOf, handle, quitting,
                   enteredAtStop, useAfterFree>>

\* if (joinable) join; in the destructor the members go next, loop_ among them.
Join ==
    /\ ownerPc = "join"
    /\ joinable => threadPc = "exited"
    /\ joinable' = FALSE
    /\ ownerPc' = IF destroying THEN "gone" ELSE "idle"
    /\ freed' = IF destroying /\ loopPtr # 0 THEN freed \cup {loopPtr} ELSE freed
    /\ UNCHANGED <<destroying, threadPc, starts, loopPtr, quitOf, handle, quitting,
                   enteredAtStop, useAfterFree>>

-----------------------------------------------------------------------------
(* The thread.                                                             *)

ThreadMoves(from, to) == threadPc = from /\ threadPc' = to

CreateLoop ==
    /\ ThreadMoves("create", "publish")
    /\ UNCHANGED <<ownerPc, destroying, joinable, starts, loopPtr, freed, quitOf, handle, quitting,
                   enteredAtStop, useAfterFree>>

\* Mutant of PublishLoop: the old pointer is destroyed without a test for null.
PublishLoopFreeingNull ==
    /\ ThreadMoves("publish", "notify")
    /\ loopPtr' = starts
    /\ freed' = freed \cup {loopPtr}
    /\ UNCHANGED <<ownerPc, destroying, joinable, starts, quitOf, handle, quitting, enteredAtStop,
                   useAfterFree>>

\* loop_ = std::move(loop) under mutex_: a loop held before is destroyed.
PublishLoop ==
    /\ ThreadMoves("publish", "notify")
    /\ loopPtr' = starts
    /\ freed' = IF loopPtr # 0 THEN freed \cup {loopPtr} ELSE freed
    /\ UNCHANGED <<ownerPc, destroying, joinable, starts, quitOf, handle, quitting, enteredAtStop,
                   useAfterFree>>

\* Mutant of Notify: the notification is missing.
NotifyNobody ==
    /\ ThreadMoves("notify", "enter")
    /\ UNCHANGED <<ownerPc, destroying, joinable, starts, loopPtr, freed, quitOf, handle, quitting,
                   enteredAtStop, useAfterFree>>

Notify ==
    /\ ThreadMoves("notify", "enter")
    /\ ownerPc' = IF ownerPc = "asleep" THEN "check" ELSE ownerPc
    /\ UNCHANGED <<destroying, joinable, starts, loopPtr, freed, quitOf, handle, quitting,
                   enteredAtStop, useAfterFree>>

\* loop() resets quit_ before its first test.
ThreadEntersLoop ==
    /\ ThreadMoves("enter", "looping")
    /\ quitOf' = [quitOf EXCEPT ![loopPtr] = FALSE]
    /\ UNCHANGED <<ownerPc, destroying, joinable, starts, loopPtr, freed, handle, quitting,
                   enteredAtStop, useAfterFree>>

LeaveLoop ==
    /\ ThreadMoves("looping", "exited")
    /\ quitOf[loopPtr]
    /\ UNCHANGED <<ownerPc, destroying, joinable, starts, loopPtr, freed, quitOf, handle, quitting,
                   enteredAtStop, useAfterFree>>

OwnerStep == CheckLoop \/ ReturnLoop \/ WakeLoop \/ Join
ThreadStep == CreateLoop \/ PublishLoop \/ Notify \/ ThreadEntersLoop \/ LeaveLoop

ThreadNext == OwnerStep \/ ThreadStep \/ StartLoopAgain \/ StartLoop \/ Stop \/ Destroy

(***************************************************************************)
(* Fairness: a call that has begun goes on and the thread is scheduled; the *)
(* owner need not make another call.                                       *)
(***************************************************************************)
ThreadSpec ==
    /\ ThreadInit /\ [][ThreadNext]_threadVars
    /\ WF_threadVars(OwnerStep) /\ WF_threadVars(ThreadStep)

-----------------------------------------------------------------------------
(* Properties.                                                             *)

\* A thread never runs a destroyed loop: loop_ is replaced or destroyed only
\* when the thread that ran the old loop has been joined, in every order of
\* starts, stops and the destructor.
NoLoopFreedWhileRunning ==
    threadPc \in {"notify", "enter", "looping"} => loopPtr \notin freed

\* The pointer the only startLoop returned is not null, though loop_ is read
\* outside the mutex.  A pointer startLoop returned outlives loop(), so that
\* Acceptor and connections may keep it after the loop was left: it dangles only
\* when the object is gone, or a later start has published its own loop.
HandleOutlivesLoop ==
    /\ starts = 1 /\ ownerPc \in {"idle", "wake", "join"} => handle # 0
    /\ ownerPc # "gone" /\ handle \in freed => handle < loopPtr

\* stop never calls quit() on a destroyed loop unless the object was restarted.
NoUseAfterFree == starts <= 1 => ~useAfterFree

\* A loop is not destroyed under those who use it: under its thread never; under
\* the holder of the pointer and under stop() not as long as the object is
\* started once.  A second start assigns over loop_ (EventLoopThreadPool.cpp:44)
\* and may leave both with the destroyed loop of the first, although
\* src/README.md:170 has a loop live until the destructor: no clause covers that.
LoopOutlivesItsUse == NoLoopFreedWhileRunning /\ HandleOutlivesLoop /\ NoUseAfterFree

\* startLoop returns: the notification is not lost between the test of the
\* predicate and the sleep.
StartLoopReturns == ownerPc \in {"check", "asleep", "return"} ~> ownerPc = "idle"

\* A stop that finds the thread inside loop() returns, also after a restart.
StopReturnsOnceEntered ==
    (ownerPc = "join" /\ enteredAtStop) ~> ownerPc \in {"idle", "gone"}

\* No call of the owner blocks for ever, but a stop that comes before loop() was
\* entered.
OwnerReturns == StartLoopReturns /\ StopReturnsOnceEntered
=============================================================================
