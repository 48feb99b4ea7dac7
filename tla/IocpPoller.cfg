\* One connection and one listening socket; the third completion of a poll waits.
SPECIFICATION Spec
CONSTANTS
    c1 = c1
    a1 = a1
    Channels = {c1, a1}
    Listening = {a1}
    MaxReap = 2
INVARIANTS
    TypeOK
    CompletionsAreSafe
    InterestIsPosted
\* removeChannel may end the program with an exception.
CHECK_DEADLOCK FALSE
