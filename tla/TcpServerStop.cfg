SPECIFICATION Spec
CONSTANTS
    MaxConns = 3
    MaxThreads = 2
    MaxDescriptors = 2
    MaxRemovals = 1
INVARIANT AcceptorOutlivesItsUse
CHECK_DEADLOCK FALSE
