--------------------------- MODULE ThreadPoolProofs ---------------------------
(***************************************************************************)
(* Theorems about ThreadPool, for any number of producers, workers and     *)
(* tasks.                                                                  *)
(***************************************************************************)
EXTENDS ThreadPool, FiniteSetTheorems, SequenceTheorems, TLAPS

\* The strengthening: a sleeping worker sleeps inside pop, so that waking it
\* makes it one that is about to pop.
SleepInv == \A w \in asleep : wpc[w] = "pop"

\* Every variable keeps its type.
THEOREM TypeCorrect == Spec => []TypeOK
<1>1. Init => TypeOK
  <2> SUFFICES ASSUME Init PROVE TypeOK
    OBVIOUS
  <2>1. queue \in Seq(Tasks) /\ popped \in Seq(Tasks)
    BY EmptySeq DEF Init
  <2>2. stop \in BOOLEAN /\ asleep \subseteq Workers /\ ownerPc \in {"idle", "notify", "join", "gone"}
    BY DEF Init
  <2>3. /\ wpc \in [Workers -> {"pop", "run", "exit"}]
        /\ task \in [Workers -> Tasks \cup {NoTask}]
        /\ ppc \in [Producers -> {"idle", "notify"}]
    BY DEF Init
  <2> QED
    BY <2>1, <2>2, <2>3 DEF TypeOK
<1>2. TypeOK /\ [Next]_vars => TypeOK'
  <2> SUFFICES ASSUME TypeOK, [Next]_vars PROVE TypeOK'
    OBVIOUS
  <2> USE DEF TypeOK
  <2>1. ASSUME NEW p \in Producers, NEW t \in Tasks, Push(p, t) PROVE TypeOK'
    BY <2>1 DEF Push
  <2>2. ASSUME NEW p \in Producers, NotifyOne(p) PROVE TypeOK'
    BY <2>2 DEF NotifyOne
  <2>3. ASSUME NEW w \in Workers, FallAsleep(w) \/ SpuriousWakeup(w) PROVE TypeOK'
    BY <2>3 DEF FallAsleep, SpuriousWakeup
  <2>4. ASSUME NEW w \in Workers, Pop(w) PROVE TypeOK'
    <3>1. queue # <<>> /\ Head(queue) \in Tasks /\ Tail(queue) \in Seq(Tasks)
      BY <2>4, HeadTailProperties DEF Pop
    <3>2. queue' \in Seq(Tasks) /\ popped' \in Seq(Tasks)
      BY <2>4, <3>1 DEF Pop
    <3> QED
      BY <2>4, <3>1, <3>2 DEF Pop
  <2>5. ASSUME NEW w \in Workers, PopStopped(w) \/ FinishTask(w) PROVE TypeOK'
    BY <2>5 DEF PopStopped, FinishTask
  <2>6. CASE Stop \/ NotifyAll \/ Join
    BY <2>6 DEF Stop, NotifyAll, Join
  <2>7. CASE UNCHANGED vars
    BY <2>7 DEF vars
  <2> QED
    BY <2>1, <2>2, <2>3, <2>4, <2>5, <2>6, <2>7 DEF Next, WorkerStep, OwnerStep
<1> QED
  BY <1>1, <1>2, PTL DEF Spec

\* The two sets of threads that count are finite.
LEMMA CountsType ==
    ASSUME TypeOK
    PROVE  /\ IsFiniteSet(AboutToPop) /\ Cardinality(AboutToPop) \in Nat
           /\ IsFiniteSet(Notifying) /\ Cardinality(Notifying) \in Nat
<1>1. AboutToPop \in SUBSET Workers /\ Notifying \in SUBSET Producers
  BY DEF AboutToPop, Notifying
<1> QED
  BY <1>1, ThreadsAssumption, FS_Subset, FS_CardinalityType

\* Sleeping workers stay inside pop.
LEMMA SleepKept == TypeOK /\ SleepInv /\ [Next]_vars => SleepInv'
<1> SUFFICES ASSUME TypeOK, SleepInv, [Next]_vars PROVE SleepInv'
  OBVIOUS
<1> USE DEF SleepInv, TypeOK
<1>1. ASSUME NEW p \in Producers, NEW t \in Tasks, Push(p, t) PROVE SleepInv'
  BY <1>1 DEF Push
<1>2. ASSUME NEW p \in Producers, NotifyOne(p) PROVE SleepInv'
  BY <1>2 DEF NotifyOne
<1>3. ASSUME NEW w \in Workers, FallAsleep(w) \/ SpuriousWakeup(w) PROVE SleepInv'
  BY <1>3 DEF FallAsleep, SpuriousWakeup, AtPop
<1>4. ASSUME NEW w \in Workers, Pop(w) \/ PopStopped(w) PROVE SleepInv'
  BY <1>4 DEF Pop, PopStopped, AtPop
<1>5. ASSUME NEW w \in Workers, FinishTask(w) PROVE SleepInv'
  BY <1>5 DEF FinishTask
<1>6. CASE Stop \/ NotifyAll \/ Join
  BY <1>6 DEF Stop, NotifyAll, Join
<1>7. CASE UNCHANGED vars
  BY <1>7 DEF vars
<1> QED
  BY <1>1, <1>2, <1>3, <1>4, <1>5, <1>6, <1>7 DEF Next, WorkerStep, OwnerStep

\* Every queued task keeps a worker about to pop or a notification of its own:
\* a push adds one of each, a notification turns into a worker that is about
\* to pop, and a worker that pops takes a task with it.
LEMMA NoTaskSleptThroughKept ==
    TypeOK /\ TypeOK' /\ SleepInv /\ NoTaskSleptThrough /\ [Next]_vars => NoTaskSleptThrough'
<1> SUFFICES ASSUME TypeOK, TypeOK', SleepInv, NoTaskSleptThrough, [Next]_vars
             PROVE  NoTaskSleptThrough'
  OBVIOUS
<1> DEFINE a == Cardinality(AboutToPop)
           n == Cardinality(Notifying)
<1>1. a \in Nat /\ n \in Nat /\ IsFiniteSet(AboutToPop) /\ IsFiniteSet(Notifying)
  BY CountsType
<1>2. a' \in Nat /\ n' \in Nat /\ IsFiniteSet(AboutToPop') /\ IsFiniteSet(Notifying')
  <2>1. AboutToPop' \in SUBSET Workers /\ Notifying' \in SUBSET Producers
    BY DEF AboutToPop, Notifying
  <2> QED
    BY <2>1, ThreadsAssumption, FS_Subset, FS_CardinalityType
<1>3. Len(queue) \in Nat /\ Len(queue') \in Nat
  BY DEF TypeOK
<1>4. ASSUME NEW p \in Producers, NEW t \in Tasks, Push(p, t) PROVE NoTaskSleptThrough'
  <2>1. /\ asleep' = asleep /\ stop' = stop /\ wpc' = wpc
        /\ queue' = Append(queue, t) /\ p \notin Notifying
        /\ Notifying' = Notifying \cup {p}
    BY <1>4 DEF Push, Notifying, TypeOK
  <2>2. AboutToPop' = AboutToPop
    BY <2>1 DEF AboutToPop, AtPop
  <2>3. n' = n + 1
    BY <1>1, <2>1, FS_AddElement
  <2>4. Len(queue') = Len(queue) + 1
    BY <2>1 DEF TypeOK
  <2> QED
    BY <1>1, <1>3, <2>1, <2>2, <2>3, <2>4 DEF NoTaskSleptThrough
<1>5. ASSUME NEW p \in Producers, NotifyOne(p) PROVE NoTaskSleptThrough'
  <2>1. CASE asleep = {}
    BY <1>5, <2>1 DEF NotifyOne, NoTaskSleptThrough
  <2>2. CASE asleep # {}
    <3>1. PICK w \in asleep : asleep' = asleep \ {w}
      BY <1>5, <2>2 DEF NotifyOne
    <3>2. /\ stop' = stop /\ queue' = queue /\ wpc' = wpc
          /\ p \in Notifying /\ Notifying' = Notifying \ {p}
      BY <1>5 DEF NotifyOne, Notifying, TypeOK
    <3>3. w \in Workers /\ w \notin AboutToPop /\ AboutToPop' = AboutToPop \cup {w}
      BY <3>1, <3>2 DEF AboutToPop, AtPop, SleepInv, TypeOK
    <3>4. n' = n - 1 /\ a' = a + 1
      BY <1>1, <3>2, <3>3, FS_AddElement, FS_RemoveElement
    <3> QED
      BY <1>1, <1>3, <2>2, <3>1, <3>2, <3>4 DEF NoTaskSleptThrough
  <2> QED
    BY <2>1, <2>2
<1>6. ASSUME NEW w \in Workers, FallAsleep(w) PROVE NoTaskSleptThrough'
  <2>1. Len(queue') = 0
    BY <1>6 DEF FallAsleep
  <2> QED
    BY <1>2, <2>1 DEF NoTaskSleptThrough
<1>7. ASSUME NEW w \in Workers, SpuriousWakeup(w) \/ FinishTask(w) PROVE NoTaskSleptThrough'
  <2>1. /\ stop' = stop /\ queue' = queue /\ ppc' = ppc /\ asleep' \subseteq asleep
        /\ AboutToPop \subseteq AboutToPop'
    BY <1>7 DEF SpuriousWakeup, FinishTask, AboutToPop, AtPop, TypeOK
  <2>2. Notifying' = Notifying
    BY <2>1 DEF Notifying
  <2>3. a <= a'
    BY <1>2, <2>1, FS_Subset
  <2> QED
    BY <1>1, <1>2, <1>3, <2>1, <2>2, <2>3 DEF NoTaskSleptThrough
<1>8. ASSUME NEW w \in Workers, Pop(w) PROVE NoTaskSleptThrough'
  <2>1. /\ stop' = stop /\ asleep' = asleep /\ ppc' = ppc
        /\ queue # <<>> /\ queue' = Tail(queue)
        /\ w \in AboutToPop /\ AboutToPop' = AboutToPop \ {w}
    BY <1>8 DEF Pop, AboutToPop, AtPop, TypeOK
  <2>2. Notifying' = Notifying
    BY <2>1 DEF Notifying
  <2>3. a' = a - 1
    BY <1>1, <2>1, FS_RemoveElement
  <2>4. Len(queue') = Len(queue) - 1
    BY <2>1 DEF TypeOK
  <2> QED
    BY <1>1, <1>3, <2>1, <2>2, <2>3, <2>4 DEF NoTaskSleptThrough
<1>9. ASSUME NEW w \in Workers, PopStopped(w) PROVE NoTaskSleptThrough'
  BY <1>9 DEF PopStopped, NoTaskSleptThrough
<1>10. CASE Stop \/ NotifyAll
  BY <1>10 DEF Stop, NotifyAll, NoTaskSleptThrough
<1>11. CASE Join \/ UNCHANGED vars
  <2>1. UNCHANGED <<queue, stop, asleep, wpc, ppc>>
    BY <1>11 DEF Join, vars
  <2>2. AboutToPop' = AboutToPop /\ Notifying' = Notifying
    BY <2>1 DEF AboutToPop, AtPop, Notifying
  <2> QED
    BY <2>1, <2>2 DEF NoTaskSleptThrough
<1> QED
  BY <1>4, <1>5, <1>6, <1>7, <1>8, <1>9, <1>10, <1>11 DEF Next, WorkerStep, OwnerStep

\* No worker sleeps through a task, however many threads push and pop and
\* however often a worker wakes for nothing.
THEOREM NoTaskSleptThroughCorrect == Spec => []NoTaskSleptThrough
<1>1. Init => SleepInv /\ NoTaskSleptThrough
  BY DEF Init, SleepInv, NoTaskSleptThrough
<1> QED
  BY <1>1, TypeCorrect, SleepKept, NoTaskSleptThroughKept, PTL DEF Spec

\* The queue of tasks and the history of pops implement FunctorQueue.
THEOREM ImplementsFunctorQueueCorrect == Spec => ImplementsFunctorQueue
<1>1. Init => FQ!Init
  BY DEF Init, FQ!Init
<1>2. [Next]_vars => [FQ!Next]_(FQ!vars)
  <2> SUFFICES ASSUME [Next]_vars PROVE FQ!Next \/ UNCHANGED FQ!vars
    OBVIOUS
  <2>1. ASSUME UNCHANGED <<queue, popped>> PROVE UNCHANGED FQ!vars
    BY <2>1 DEF FQ!vars
  <2>2. ASSUME NEW p \in Producers, NEW t \in Tasks, Push(p, t) PROVE FQ!Next
    <3>1. FQ!Unused(t)
      BY <2>2 DEF Push, FQ!Unused, FQ!Range, Range
    <3> QED
      BY <2>2, <3>1 DEF Push, FQ!Submit, FQ!Next
  <2>3. ASSUME NEW w \in Workers, Pop(w) PROVE FQ!Next
    BY <2>3 DEF Pop, FQ!RunNext, FQ!Next
  <2>4. ASSUME NEW p \in Producers, NotifyOne(p) PROVE UNCHANGED FQ!vars
    BY <2>4, <2>1 DEF NotifyOne
  <2>5. ASSUME NEW w \in Workers,
               FallAsleep(w) \/ SpuriousWakeup(w) \/ PopStopped(w) \/ FinishTask(w)
        PROVE  UNCHANGED FQ!vars
    BY <2>5, <2>1 DEF FallAsleep, SpuriousWakeup, PopStopped, FinishTask
  <2>6. CASE Stop \/ NotifyAll \/ Join
    BY <2>6, <2>1 DEF Stop, NotifyAll, Join
  <2>7. CASE UNCHANGED vars
    BY <2>7, <2>1 DEF vars
  <2> QED
    BY <2>2, <2>3, <2>4, <2>5, <2>6, <2>7 DEF Next, WorkerStep, OwnerStep
<1> QED
  BY <1>1, <1>2, PTL DEF Spec, ImplementsFunctorQueue, FQ!Spec
=============================================================================
