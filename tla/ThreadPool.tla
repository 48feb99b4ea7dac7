----------------------------- MODULE ThreadPool -----------------------------
(***************************************************************************)
(* ThreadPool (src/muduox/net/core/ThreadPool.cpp) over its BlockQueue     *)
(* (src/muduox/net/core/BlockQueue.h): producers push tasks, workers pop   *)
(* and run them, the owner destroys the pool.                              *)
(*                                                                         *)
(* A section under mutex_ is one step.  The notifications come after the   *)
(* mutex is released, so each is a step of its own; cond_.wait tests its   *)
(* predicate and falls asleep under the mutex, one step too.  A sleeping   *)
(* worker may also wake spuriously.                                        *)
(***************************************************************************)
EXTENDS Integers, Sequences, FiniteSets, Functions

CONSTANTS
    Tasks,      \* identities of the tasks that may be pushed
    Producers,  \* threads that push
    Workers,    \* threads_
    NoTask      \* the empty std::function a worker starts with

ASSUME ThreadsAssumption == IsFiniteSet(Workers) /\ Workers # {} /\ IsFiniteSet(Producers)
ASSUME NoTaskAssumption == NoTask \notin Tasks

VARIABLES
    queue,    \* queue_
    stop,     \* stop_
    asleep,   \* workers sleeping in cond_.wait
    wpc,      \* where each worker is
    task,     \* task[w]: the local variable task of work()
    ppc,      \* ppc[p]: "idle", or "notify" between emplace and notify_one
    ownerPc,  \* where the owner is: "idle", or in the destructor
    popped    \* history: tasks popped, oldest first

vars == <<queue, stop, asleep, wpc, task, ppc, ownerPc, popped>>

(***************************************************************************)
(* wpc:     "pop"  about to test the predicate of pop, or asleep in it     *)
(*          "run"  inside task()                                           *)
(*          "exit" work() has returned                                     *)
(* ownerPc: "idle", "notify" between stop_ = true and notify_all, "join",  *)
(*          "gone"                                                         *)
(***************************************************************************)
TypeOK ==
    /\ queue \in Seq(Tasks) /\ popped \in Seq(Tasks)
    /\ stop \in BOOLEAN
    /\ asleep \subseteq Workers
    /\ wpc \in [Workers -> {"pop", "run", "exit"}]
    /\ task \in [Workers -> Tasks \cup {NoTask}]
    /\ ppc \in [Producers -> {"idle", "notify"}]
    /\ ownerPc \in {"idle", "notify", "join", "gone"}

Init ==
    /\ queue = <<>> /\ popped = <<>>
    /\ stop = FALSE
    /\ asleep = {}
    /\ wpc = [w \in Workers |-> "pop"]
    /\ task = [w \in Workers |-> NoTask]
    /\ ppc = [p \in Producers |-> "idle"]
    /\ ownerPc = "idle"

-----------------------------------------------------------------------------
(* Producers.                                                              *)

\* Mutant of Push: the task was moved from before it reached the queue.
PushMovedFrom(p, t) ==
    /\ ppc[p] = "idle" /\ ownerPc # "gone"
    /\ t \notin Range(queue) \cup Range(popped)
    /\ queue' = Append(queue, NoTask)
    /\ ppc' = [ppc EXCEPT ![p] = "notify"]
    /\ UNCHANGED <<stop, asleep, wpc, task, ownerPc, popped>>

\* push: emplace under mutex_.  Nobody pushes on a destroyed pool.
Push(p, t) ==
    /\ ppc[p] = "idle" /\ ownerPc # "gone"
    /\ t \notin Range(queue) \cup Range(popped)
    /\ queue' = Append(queue, t)
    /\ ppc' = [ppc EXCEPT ![p] = "notify"]
    /\ UNCHANGED <<stop, asleep, wpc, task, ownerPc, popped>>

\* Mutant of NotifyOne: no notification.
NotifyNone(p) ==
    /\ ppc[p] = "notify"
    /\ ppc' = [ppc EXCEPT ![p] = "idle"]
    /\ UNCHANGED <<queue, stop, asleep, wpc, task, ownerPc, popped>>

\* notify_one wakes some sleeping worker, if there is one.
NotifyOne(p) ==
    /\ ppc[p] = "notify"
    /\ IF asleep = {} THEN UNCHANGED asleep
       ELSE \E w \in asleep : asleep' = asleep \ {w}
    /\ ppc' = [ppc EXCEPT ![p] = "idle"]
    /\ UNCHANGED <<queue, stop, wpc, task, ownerPc, popped>>

-----------------------------------------------------------------------------
(* Workers.                                                                *)

AtPop(w) == wpc[w] = "pop" /\ w \notin asleep

\* cond_.wait with a false predicate.
FallAsleep(w) ==
    /\ AtPop(w)
    /\ queue = <<>> /\ ~stop
    /\ asleep' = asleep \cup {w}
    /\ UNCHANGED <<queue, stop, wpc, task, ppc, ownerPc, popped>>

SpuriousWakeup(w) ==
    /\ w \in asleep
    /\ asleep' = asleep \ {w}
    /\ UNCHANGED <<queue, stop, wpc, task, ppc, ownerPc, popped>>

\* Mutant of Pop: the front is copied and stays in the queue.
PopKeepingFront(w) ==
    /\ AtPop(w)
    /\ queue # <<>> /\ ~stop
    /\ task' = [task EXCEPT ![w] = Head(queue)]
    /\ popped' = Append(popped, Head(queue))
    /\ wpc' = [wpc EXCEPT ![w] = "run"]
    /\ UNCHANGED <<queue, stop, asleep, ppc, ownerPc>>

\* pop returns true; the task popped before is destroyed by the assignment.
Pop(w) ==
    /\ AtPop(w)
    /\ queue # <<>> /\ ~stop
    /\ task' = [task EXCEPT ![w] = Head(queue)]
    /\ popped' = Append(popped, Head(queue))
    /\ queue' = Tail(queue)
    /\ wpc' = [wpc EXCEPT ![w] = "run"]
    /\ UNCHANGED <<stop, asleep, ppc, ownerPc>>

\* pop returns false, whatever is still queued; work() returns.
PopStopped(w) ==
    /\ AtPop(w)
    /\ stop
    /\ task' = [task EXCEPT ![w] = NoTask]
    /\ wpc' = [wpc EXCEPT ![w] = "exit"]
    /\ UNCHANGED <<queue, stop, asleep, ppc, ownerPc, popped>>

\* task() returns; the std::function stays in the local variable.
FinishTask(w) ==
    /\ wpc[w] = "run"
    /\ wpc' = [wpc EXCEPT ![w] = "pop"]
    /\ UNCHANGED <<queue, stop, asleep, task, ppc, ownerPc, popped>>

-----------------------------------------------------------------------------
(* The destructor.                                                         *)

Stop ==
    /\ ownerPc = "idle"
    /\ stop' = TRUE
    /\ ownerPc' = "notify"
    /\ UNCHANGED <<queue, asleep, wpc, task, ppc, popped>>

\* Mutant of NotifyAll: one worker is woken.
NotifyOnlyOne ==
    /\ ownerPc = "notify"
    /\ IF asleep = {} THEN UNCHANGED asleep
       ELSE \E w \in asleep : asleep' = asleep \ {w}
    /\ ownerPc' = "join"
    /\ UNCHANGED <<queue, stop, wpc, task, ppc, popped>>

NotifyAll ==
    /\ ownerPc = "notify"
    /\ asleep' = {}
    /\ ownerPc' = "join"
    /\ UNCHANGED <<queue, stop, wpc, task, ppc, popped>>

\* Every thread is joined, then the members go, queue_ with what it still holds.
\* The application sees to it that no push is still under way.
Join ==
    /\ ownerPc = "join"
    /\ \A w \in Workers : wpc[w] = "exit"
    /\ \A p \in Producers : ppc[p] = "idle"
    /\ ownerPc' = "gone"
    /\ UNCHANGED <<queue, stop, asleep, wpc, task, ppc, popped>>

WorkerStep(w) == FallAsleep(w) \/ Pop(w) \/ PopStopped(w) \/ FinishTask(w)
OwnerStep == NotifyAll \/ Join

Next ==
    \/ \E p \in Producers : NotifyOne(p) \/ \E t \in Tasks : Push(p, t)
    \/ \E w \in Workers : WorkerStep(w) \/ SpuriousWakeup(w)
    \/ Stop
    \/ OwnerStep

(***************************************************************************)
(* Fairness: threads are scheduled, tasks return, a push and a destructor  *)
(* that have begun go on.  Spurious wake-ups need not happen.              *)
(***************************************************************************)
Spec ==
    /\ Init /\ [][Next]_vars
    /\ \A w \in Workers : WF_vars(WorkerStep(w))
    /\ \A p \in Producers : WF_vars(NotifyOne(p))
    /\ WF_vars(OwnerStep)

-----------------------------------------------------------------------------
(* Properties.                                                             *)

\* Tasks are handed to workers once each and in the order of the pushes.
FQ == INSTANCE FunctorQueue WITH Functors <- Tasks, ran <- popped
ImplementsFunctorQueue == FQ!Spec

AboutToPop == {w \in Workers : AtPop(w)}
Notifying == {p \in Producers : ppc[p] = "notify"}

\* No worker sleeps through a task: while one sleeps, every queued task has a
\* worker of its own that is about to pop or a notification on its way.
NoTaskSleptThrough ==
    asleep = {} \/ stop \/ Len(queue) <= Cardinality(AboutToPop) + Cardinality(Notifying)

\* A pushed task is run, unless the pool is being destroyed.
PushedTasksRun == \A t \in Tasks : t \in Range(queue) ~> (t \in Range(popped) \/ stop)

\* The destructor returns: stop() reaches every worker, asleep, about to sleep
\* or running a task.
DestructorReturns == stop ~> ownerPc = "gone"
=============================================================================
