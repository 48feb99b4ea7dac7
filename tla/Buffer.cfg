\* A vector of two bytes besides the header, which may grow to eight.
SPECIFICATION Spec
CONSTANTS
    zero = zero
    one = one
    Bytes <- TwoBytes
    Zero = zero
    kPrependSize = 1
    kInitialSize = 2
    ExtraSize = 2
    MaxReadable = 4
INVARIANTS
    TypeOK
    MemoryBounded
PROPERTY ImplementsByteQueue
