\* One connection, and more completions a poll than it can cause.
SPECIFICATION FairSpec
CONSTANTS
    c1 = c1
    a1 = a1
    Channels = {c1}
    Listening = {}
    MaxReap = 4
PROPERTY DataIsRead
CHECK_DEADLOCK FALSE
