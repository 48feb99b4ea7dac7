SPECIFICATION FairSpec
CONSTANTS
    m1 = m1
    m2 = m2
    w1 = w1
    Messages <- TwoMessages
    Size <- TwoBytesAndOne
    Workers <- OneWorker
    Uses <- AllUses
    NoMessage = NoMessage
    MaxPending = 2
    MaxRemovals = 1
INVARIANTS
    TypeOK
    NoUseAfterDestroyed
    WatchedIsAlive
    StreamIntact
    PendingOutputIsPolled
PROPERTIES
    HalfCloseAfterDrain
    ClosedIsReleased
    ShutdownCompletes
CHECK_DEADLOCK FALSE
