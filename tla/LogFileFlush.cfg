\* Days of three seconds, lines of one and two bytes in files of five.
SPECIFICATION Spec
CONSTANTS
    RollSize = 5
    FlushInterval = 1
    CheckEveryN = 3
    Day = 3
    Lengths = {1, 2}
    MaxTime = 7
    MaxLines = 6
INVARIANT FlushedAsDocumented
