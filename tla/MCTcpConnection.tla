--------------------------- MODULE MCTcpConnection ---------------------------
(* Instances of TcpConnection for TLC.                                     *)
EXTENDS TcpConnection

CONSTANTS m1, m2, w1

TwoMessages == {m1, m2}
TwoBytesAndOne == [m \in Messages |-> IF m = m1 THEN 2 ELSE 1]
OneWorker == {w1}

\* Callbacks that do anything, workers that come back through the loop.
AsDocumented ==
    [callback |-> Ops, writeComplete |-> Ops \ {"shutdown"}, worker |-> {"post"},
     messages |-> TwoMessages]

\* A worker that calls the connection itself.
FromWorkers(callback, messages) ==
    [callback |-> callback, writeComplete |-> callback,
     worker |-> {"send", "shutdown", "forceClose"}, messages |-> messages]

AllUses == {AsDocumented, FromWorkers({"send"}, {m1})}
=============================================================================
