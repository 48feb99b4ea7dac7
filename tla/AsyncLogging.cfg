\* Two lines of one byte and three that fill a buffer of three.
SPECIFICATION Spec
CONSTANTS
    l1 = l1
    l2 = l2
    l3 = l3
    l4 = l4
    l5 = l5
    Lines <- FiveLines
    Size <- ThreeFillABuffer
    Capacity = 3
    Null = Null
INVARIANTS
    TypeOK
    BuffersAtHand
    LinesInOrder
PROPERTY LinesAreWritten
\* The object is destroyed at the end.
CHECK_DEADLOCK FALSE
