\* Two restarts.
SPECIFICATION ThreadSpec
CONSTANT MaxStarts = 3
INVARIANTS
    ThreadTypeOK
    LoopOutlivesItsUse
PROPERTY OwnerReturns
\* The object is destroyed at the end.
CHECK_DEADLOCK FALSE
