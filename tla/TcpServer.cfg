SPECIFICATION Spec
CONSTANTS
    MaxConns = 3
    MaxThreads = 2
    MaxDescriptors = 2
    MaxRemovals = 1
INVARIANTS
    TypeOK
    WatchedIsOwned
    LivesOnce
PROPERTIES
    ClosedIsReleased
    BacklogIsServed
CHECK_DEADLOCK FALSE
