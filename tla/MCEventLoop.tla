---------------------------- MODULE MCEventLoop ----------------------------
(* Instance of EventLoop for TLC.                                          *)
EXTENDS EventLoop

CONSTANTS f1, f2, f3, t1, t2, io1

ThreeFunctors == {f1, f2, f3}
TwoThreads == {t1, t2}
OneChannel == {io1}

=============================================================================
