\* Three functors, two foreign threads, one IO channel; the wake-up socket
\* overflows after two messages.
SPECIFICATION PromptSpec
CONSTANTS
    f1 = f1
    f2 = f2
    f3 = f3
    t1 = t1
    t2 = t2
    io1 = io1
    Functors <- ThreeFunctors
    Threads <- TwoThreads
    IoChannels <- OneChannel
    WakeupChannel = WakeupChannel
    WakeCapacity = 2
INVARIANTS
    LoopShape
    SleepingLoopIsWoken
PROPERTIES
    ImplementsFunctorQueue
    QueuedFunctorsRun
    QuitEndsLoop
\* The loop ends after quit() and every functor is used up.
CHECK_DEADLOCK FALSE
