\* More tasks than workers, so that both wait for one another.
SPECIFICATION Spec
CONSTANTS
    k1 = k1
    k2 = k2
    k3 = k3
    p1 = p1
    p2 = p2
    w1 = w1
    w2 = w2
    Tasks <- ThreeTasks
    Producers <- TwoProducers
    Workers <- TwoWorkers
    NoTask = NoTask
INVARIANTS
    TypeOK
    NoTaskSleptThrough
PROPERTIES
    ImplementsFunctorQueue
    PushedTasksRun
    DestructorReturns
\* Nothing happens after the destruction.
CHECK_DEADLOCK FALSE
