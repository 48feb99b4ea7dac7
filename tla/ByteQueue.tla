----------------------------- MODULE ByteQueue -----------------------------
(***************************************************************************)
(* What Buffer promises the code that reads and writes it: a first-in      *)
(* first-out queue of bytes, whatever happens to the memory behind it.     *)
(***************************************************************************)
EXTENDS Integers, Sequences

CONSTANT Strings   \* the strings of bytes that may be put in

VARIABLES content,  \* the readable bytes, oldest first
          passed    \* the string last put in or taken out

vars == <<content, passed>>

Init == content = <<>> /\ passed = <<>>

Put(s) == content' = content \o s /\ passed' = s

\* The n oldest bytes are given up.
Drop(n) ==
    /\ content' = SubSeq(content, n + 1, Len(content))
    /\ UNCHANGED passed

\* The n oldest bytes are handed out.
Take(n) ==
    /\ passed' = SubSeq(content, 1, n)
    /\ content' = SubSeq(content, n + 1, Len(content))

Next ==
    \/ \E s \in Strings : Put(s)
    \/ \E n \in 0..Len(content) : Drop(n) \/ Take(n)

Spec == Init /\ [][Next]_vars
=============================================================================
