---------------------------- MODULE FunctorQueue ----------------------------
(***************************************************************************)
(* What EventLoop::queueInLoop promises its callers: every functor handed  *)
(* to a loop is run at most once, on one thread, in the order in which the *)
(* functors were handed over.  A queue of functors, and the sequence of    *)
(* functors that have been started.  A functor is an identity: handing the *)
(* same callable over twice makes two functors.                            *)
(***************************************************************************)
EXTENDS Sequences, Functions

CONSTANT Functors

VARIABLES queue,    \* functors handed over and not started, oldest first
          ran       \* functors started so far, oldest first

vars == <<queue, ran>>

Unused(f) == f \notin Range(queue) /\ f \notin Range(ran)

Init == queue = <<>> /\ ran = <<>>

Submit(f) ==
    /\ Unused(f)
    /\ queue' = Append(queue, f)
    /\ UNCHANGED ran

RunNext ==
    /\ queue # <<>>
    /\ ran' = Append(ran, Head(queue))
    /\ queue' = Tail(queue)

Next == RunNext \/ \E f \in Functors : Submit(f)

Spec == Init /\ [][Next]_vars
=============================================================================
