---------------------------- MODULE MCThreadPool ----------------------------
(* Instance of ThreadPool for TLC.                                         *)
EXTENDS ThreadPool

CONSTANTS k1, k2, k3, p1, p2, w1, w2

ThreeTasks == {k1, k2, k3}
TwoProducers == {p1, p2}
TwoWorkers == {w1, w2}
=============================================================================
