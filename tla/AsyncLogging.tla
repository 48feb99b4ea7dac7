---------------------------- MODULE AsyncLogging ----------------------------
(***************************************************************************)
(* AsyncLogging (src/muduox/base/logging/AsyncLogging.cpp): producers      *)
(* append lines to buffers under mutex_, a background thread swaps the     *)
(* buffers out and hands them to its LogFile, the owner starts, stops and  *)
(* destroys the object.                                                    *)
(*                                                                         *)
(* append is one critical section, its notification included, so the       *)
(* producers need no identity.  A buffer is the sequence of its lines; how *)
(* many fit is decided by their bytes.  Between its critical sections the  *)
(* thread works on buffers of its own.  Null is what a unique_ptr holds    *)
(* after it was moved from.  start is called at most once.                 *)
(*                                                                         *)
(* The members are destroyed in the reverse order of their declaration,    *)
(* thread_, the first, at last: its destructor joins the thread after      *)
(* mutex_ and the buffers have gone.                                       *)
(***************************************************************************)
EXTENDS Integers, Sequences, Functions, SequencesExt

CONSTANTS
    Lines,      \* the lines that may be appended, each once
    Size,       \* Size[l]: bytes of a line
    Capacity,   \* kLargeBuffer
    Null        \* the null pointer

ASSUME SizeAssumption == Capacity \in Nat \ {0} /\ Size \in [Lines -> 1..Capacity]
ASSUME NullAssumption == Null \notin Seq(Lines)

VARIABLES
    current,        \* currentBuffer_
    nextBuffer,     \* nextBuffer_
    buffers,        \* buffers_
    newBuffer1,     \* the thread's two spare buffers
    newBuffer2,
    buffersToWrite, \* the buffers it has swapped out
    pc,             \* where the thread is
    ownerPc,        \* where the owner is
    destroying,     \* the owner is in the destructor
    stopRequested,  \* the stop token of the thread
    appended,       \* history: lines appended, oldest first
    late,           \* history: lines appended after the stop was requested
    written         \* history: lines handed to the LogFile, oldest first

shared == <<current, nextBuffer, buffers>>
local == <<newBuffer1, newBuffer2, buffersToWrite>>
owner == <<ownerPc, destroying, stopRequested>>
vars == <<shared, local, pc, owner, appended, late, written>>

(***************************************************************************)
(* pc:      "none"   start has not been called                             *)
(*          "test"   at  while (!stoken.stop_requested())                  *)
(*          "lock"   before the wait                                       *)
(*          "asleep" in cond_.wait_for                                     *)
(*          "swap"   woken, about to have mutex_ again                     *)
(*          "write", "recycle"  on buffersToWrite, without mutex_          *)
(*          "final"  out of the loop, before the last swap                 *)
(*          "finalWrite", "exit"                                           *)
(*          "fault"  it has used a member that was destroyed               *)
(* ownerPc: "idle", "notify" between request_stop and notify_one, "join"   *)
(*          the members but thread_ are gone, "gone"                       *)
(***************************************************************************)
Pcs == {"none", "test", "lock", "asleep", "swap", "write", "recycle", "final", "finalWrite",
        "exit", "fault"}

Buffers == Seq(Lines)

TypeOK ==
    /\ {current, nextBuffer, newBuffer1, newBuffer2} \subseteq Buffers \cup {Null}
    /\ buffers \in Seq(Buffers) /\ buffersToWrite \in Seq(Buffers)
    /\ pc \in Pcs
    /\ ownerPc \in {"idle", "notify", "join", "gone"}
    /\ destroying \in BOOLEAN /\ stopRequested \in BOOLEAN
    /\ appended \in Seq(Lines) /\ late \subseteq Lines

Init ==
    /\ current = <<>> /\ nextBuffer = <<>> /\ buffers = <<>>
    /\ newBuffer1 = Null /\ newBuffer2 = Null /\ buffersToWrite = <<>>
    /\ pc = "none"
    /\ ownerPc = "idle" /\ destroying = FALSE /\ stopRequested = FALSE
    /\ appended = <<>> /\ late = {} /\ written = <<>>

MembersGone == ownerPc \in {"join", "gone"}

length(b) == FoldFunction(+, 0, [i \in DOMAIN b |-> Size[b[i]]])
avail(b) == Capacity - length(b)

-----------------------------------------------------------------------------
(* The producers.  Nobody appends to an object that is being destroyed.    *)

\* The notification is sent under mutex_, to a thread that may be asleep.
Appending(l) ==
    /\ ~destroying
    /\ l \notin Range(appended)
    /\ appended' = Append(appended, l)
    /\ late' = IF stopRequested THEN late \cup {l} ELSE late
    /\ pc' = IF pc = "asleep" THEN "swap" ELSE pc
    /\ UNCHANGED <<local, owner, written>>

AppendToCurrent(l) ==
    /\ Appending(l)
    /\ avail(current) > Size[l]
    /\ current' = Append(current, l)
    /\ UNCHANGED <<nextBuffer, buffers>>

\* Mutant of AppendToNext: nextBuffer_ is taken before current is put away.
AppendToNextMovedFrom(l) ==
    /\ Appending(l)
    /\ avail(current) <= Size[l]
    /\ buffers' = Append(buffers, Null)
    /\ current' = Append(IF nextBuffer # Null THEN nextBuffer ELSE <<>>, l)
    /\ nextBuffer' = Null

\* The current buffer is full: it is put away, nextBuffer_ or a new one follows.
AppendToNext(l) ==
    /\ Appending(l)
    /\ avail(current) <= Size[l]
    /\ buffers' = Append(buffers, current)
    /\ current' = Append(IF nextBuffer # Null THEN nextBuffer ELSE <<>>, l)
    /\ nextBuffer' = Null

-----------------------------------------------------------------------------
(* The thread.                                                             *)

ThreadMoves(from, to) ==
    /\ pc = from /\ pc' = to
    /\ UNCHANGED <<owner, appended, late>>

TestStop ==
    /\ ThreadMoves("test", IF stopRequested THEN "final" ELSE "lock")
    /\ UNCHANGED <<shared, local, written>>

\* A notification sent before this is lost.
FallAsleep ==
    /\ ~MembersGone
    /\ ThreadMoves("lock", "asleep")
    /\ UNCHANGED <<shared, local, written>>

\* flushInterval_ has passed, or the wake-up is spurious.
Timeout ==
    /\ ~MembersGone
    /\ ThreadMoves("asleep", "swap")
    /\ UNCHANGED <<shared, local, written>>

Swap ==
    /\ ~MembersGone
    /\ ThreadMoves("swap", "write")
    /\ buffersToWrite' = Append(buffers, current)
    /\ buffers' = buffersToWrite
    /\ current' = newBuffer1 /\ newBuffer1' = Null
    /\ IF nextBuffer = Null
       THEN nextBuffer' = newBuffer2 /\ newBuffer2' = Null
       ELSE UNCHANGED <<nextBuffer, newBuffer2>>
    /\ UNCHANGED written

\* output.append, for every buffer that is not empty.
Write ==
    /\ ThreadMoves("write", "recycle")
    /\ written' = written \o FlattenSeq(buffersToWrite)
    /\ UNCHANGED <<shared, local>>

\* Mutant of Kept: only one buffer survives the resize.
KeptOne == IF Len(buffersToWrite) > 1 THEN SubSeq(buffersToWrite, 1, 1) ELSE buffersToWrite

\* buffersToWrite.resize(2), if there are more.
Kept == IF Len(buffersToWrite) > 2 THEN SubSeq(buffersToWrite, 1, 2) ELSE buffersToWrite

\* Buffers the thread has to take back from those it has written.
Missing == (IF newBuffer1 = Null THEN 1 ELSE 0) + (IF newBuffer2 = Null THEN 1 ELSE 0)

\* Mutant of Recycle: newBuffer1 is not reset.
RecycleDirty ==
    /\ ThreadMoves("recycle", "test")
    /\ Len(Kept) >= Missing
    /\ newBuffer1' = (IF newBuffer1 = Null THEN Kept[Len(Kept)] ELSE newBuffer1)
    /\ newBuffer2' = (IF newBuffer2 = Null THEN <<>> ELSE newBuffer2)
    /\ buffersToWrite' = <<>>
    /\ UNCHANGED <<shared, written>>

\* The spares are taken from the back and reset, the rest is freed.
Recycle ==
    /\ ThreadMoves("recycle", "test")
    /\ Len(Kept) >= Missing
    /\ newBuffer1' = (IF newBuffer1 = Null THEN <<>> ELSE newBuffer1)
    /\ newBuffer2' = (IF newBuffer2 = Null THEN <<>> ELSE newBuffer2)
    /\ buffersToWrite' = <<>>
    /\ UNCHANGED <<shared, written>>

\* Mutant of FinalSwap: the current buffer is written only if it is full.
FinalSwapOfFullBuffers ==
    /\ ~MembersGone
    /\ ThreadMoves("final", "finalWrite")
    /\ buffersToWrite' = buffers
    /\ buffers' = buffersToWrite
    /\ UNCHANGED <<current, newBuffer1, nextBuffer, newBuffer2, written>>

\* What is left when the loop has ended.
FinalSwap ==
    /\ ~MembersGone
    /\ ThreadMoves("final", "finalWrite")
    /\ buffers' = buffersToWrite
    /\ IF length(current) > 0
       THEN /\ buffersToWrite' = Append(buffers, current)
            /\ current' = newBuffer1 /\ newBuffer1' = Null
       ELSE buffersToWrite' = buffers /\ UNCHANGED <<current, newBuffer1>>
    /\ UNCHANGED <<nextBuffer, newBuffer2, written>>

\* The thread's own buffers go with it.
FinalWrite ==
    /\ ThreadMoves("finalWrite", "exit")
    /\ written' = written \o FlattenSeq(buffersToWrite)
    /\ buffersToWrite' = <<>> /\ newBuffer1' = Null /\ newBuffer2' = Null
    /\ UNCHANGED shared

\* mutex_, cond_ or a buffer is used after its destruction.
UseAfterDestruction ==
    /\ MembersGone
    /\ pc \in {"lock", "asleep", "swap", "final"}
    /\ pc' = "fault"
    /\ UNCHANGED <<shared, local, owner, appended, late, written>>

-----------------------------------------------------------------------------
(* The owner.                                                              *)

Start ==
    /\ ownerPc = "idle" /\ pc = "none"
    /\ pc' = "test"
    /\ newBuffer1' = <<>> /\ newBuffer2' = <<>>
    /\ UNCHANGED <<shared, buffersToWrite, owner, appended, late, written>>

\* request_stop, by stop() or the destructor; without a thread it does nothing.
RequestStop(final) ==
    /\ ownerPc = "idle"
    /\ stopRequested' = (stopRequested \/ pc # "none")
    /\ destroying' = final
    /\ ownerPc' = "notify"
    /\ UNCHANGED <<shared, local, pc, appended, late, written>>

\* notify_one, without mutex_.  stop() returns; the destructor goes on to the
\* members.
NotifyThread ==
    /\ ownerPc = "notify"
    /\ pc' = IF pc = "asleep" THEN "swap" ELSE pc
    /\ ownerPc' = IF destroying THEN "join" ELSE "idle"
    /\ UNCHANGED <<shared, local, destroying, stopRequested, appended, late, written>>

\* ~jthread.
Join ==
    /\ ownerPc = "join"
    /\ pc \in {"none", "exit"}
    /\ ownerPc' = "gone"
    /\ UNCHANGED <<shared, local, pc, destroying, stopRequested, appended, late, written>>

ThreadStep ==
    \/ TestStop \/ FallAsleep \/ Timeout \/ Swap \/ Write \/ Recycle
    \/ FinalSwap \/ FinalWrite \/ UseAfterDestruction

Next ==
    \/ \E l \in Lines : AppendToCurrent(l) \/ AppendToNext(l)
    \/ ThreadStep
    \/ Start \/ NotifyThread \/ Join
    \/ \E final \in BOOLEAN : RequestStop(final)

(***************************************************************************)
(* Fairness: the thread is scheduled and its waits time out.  Nobody has   *)
(* to append, stop or destroy.                                             *)
(***************************************************************************)
Spec == Init /\ [][Next]_vars /\ WF_vars(ThreadStep)

-----------------------------------------------------------------------------
(* Properties.                                                             *)

\* No pointer is null where the code dereferences or swaps it in untested, and
\* the assertions on buffersToWrite hold: two spares always suffice, however
\* many buffers the producers have filled during a write.
BuffersAtHand ==
    /\ current # Null
    /\ pc \in {"test", "lock", "asleep", "swap"} => newBuffer1 # Null /\ newBuffer2 # Null
    /\ pc = "final" => newBuffer1 # Null
    /\ pc = "recycle" => Len(Kept) >= Missing

\* The lines of the buffers the thread has swapped out and not written.
Unwritten == IF pc \in {"write", "finalWrite"} THEN FlattenSeq(buffersToWrite) ELSE <<>>

\* The lines in the members of the object.
Held == FlattenSeq(buffers) \o current

\* Every line is at one place, and the file gets the lines in the order of the
\* appends: swapping, recycling and the last batch neither lose, repeat nor
\* reorder one.
LinesInOrder == appended = written \o Unwritten \o Held

\* A line appended before the stop is written, when there is a thread and the
\* object is not destroyed.
LinesAreWritten ==
    \A l \in Lines :
        (l \in Range(Held) \ late /\ pc # "none") ~> (l \in Range(written) \/ MembersGone)
=============================================================================
