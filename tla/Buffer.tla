------------------------------- MODULE Buffer -------------------------------
(***************************************************************************)
(* Buffer (src/muduox/net/tcp/Buffer.cpp): a vector cut by two indices     *)
(* into a prependable, a readable and a writable region.  The member       *)
(* functions are operators from a buffer to a buffer, named as in the      *)
(* source, because they call one another; an action applies one of them.   *)
(* Offsets count from 0, as the indices do.                                *)
(*                                                                         *)
(* A buffer is used by one thread.  size_t does not wrap: the bytes of the *)
(* buffer and of the argument are in memory at the same time.              *)
(***************************************************************************)
EXTENDS Integers, Sequences

CONSTANTS
    Bytes,        \* values of a byte
    Zero,         \* the byte a vector is filled with when it grows
    kPrependSize, \* Buffer::kPrependSize
    kInitialSize, \* Buffer::kInitialSize
    ExtraSize,    \* bytes of extrabuf in readFd
    MaxReadable   \* bound: readable bytes, asked for or held

ASSUME BytesAssumption == Zero \in Bytes
ASSUME SizeAssumption ==
    /\ kPrependSize \in Nat /\ kInitialSize \in Nat /\ ExtraSize \in Nat
    /\ MaxReadable \in Nat

VARIABLES
    buf,    \* the buffer: its vector mem, of length size, and the two indices
    passed, \* history: the bytes last passed in, by append or readFd, or handed out, by
            \* retrieveAsString
    peak    \* history: the most bytes that were to be readable at one time

vars == <<buf, passed, peak>>

Larger(m, n) == IF m >= n THEN m ELSE n

readableBytes(b) == b.writeIndex - b.readIndex
writableBytes(b) == b.size - b.writeIndex
prependableBytes(b) == b.readIndex

\* The readable region, which starts at peek().
Content(b) == [i \in 1..readableBytes(b) |-> b.mem[b.readIndex + i - 1]]

(***************************************************************************)
(* The layout every member function relies on: the regions follow one      *)
(* another inside the vector, and the first kPrependSize bytes are kept    *)
(* free for a header.                                                      *)
(***************************************************************************)
Layout(b) ==
    /\ b \in [mem : [0..(b.size - 1) -> Bytes], size : Nat, readIndex : Nat, writeIndex : Nat]
    /\ kPrependSize <= b.readIndex
    /\ b.readIndex <= b.writeIndex
    /\ b.writeIndex <= b.size

NewBuffer ==
    [mem |-> [i \in 0..(kPrependSize + kInitialSize - 1) |-> Zero],
     size |-> kPrependSize + kInitialSize,
     readIndex |-> kPrependSize,
     writeIndex |-> kPrependSize]

-----------------------------------------------------------------------------
(* The member functions.                                                   *)

retrieveAll(b) == [b EXCEPT !.readIndex = kPrependSize, !.writeIndex = kPrependSize]

retrieve(b, len) ==
    IF len >= readableBytes(b) THEN retrieveAll(b)
    ELSE [b EXCEPT !.readIndex = @ + len]

\* The readable region moved to the front.  std::copy goes forward, which is
\* a move when the destination is not behind the source.
MoveToFront(b) ==
    [mem |-> [i \in 0..(b.size - 1) |->
                 IF i \in kPrependSize..(kPrependSize + readableBytes(b) - 1)
                 THEN b.mem[b.readIndex + (i - kPrependSize)]
                 ELSE b.mem[i]],
     size |-> b.size,
     readIndex |-> kPrependSize,
     writeIndex |-> kPrependSize + readableBytes(b)]

\* buffer_.resize(n), n not below the size.
Resize(b, n) ==
    [b EXCEPT !.mem = [i \in 0..(n - 1) |-> IF i < b.size THEN b.mem[i] ELSE Zero],
              !.size = n]

\* Mutant of makeSpace: the header's bytes count as free.
makeSpaceTakingPrepend(b, len) ==
    IF prependableBytes(b) + writableBytes(b) >= len
    THEN MoveToFront(b)
    ELSE Resize(b, b.writeIndex + len)

\* Mutant of makeSpace: it always grows.
makeSpaceGrowing(b, len) == Resize(b, b.writeIndex + len)

makeSpace(b, len) ==
    IF prependableBytes(b) + writableBytes(b) >= len + kPrependSize
    THEN MoveToFront(b)
    ELSE Resize(b, b.writeIndex + len)

ensureWritable(b, len) ==
    IF writableBytes(b) < len THEN makeSpace(b, len) ELSE b

\* s copied, or received, into the writable region.
Fill(b, s) ==
    [mem |-> [i \in 0..(b.size - 1) |->
                 IF i \in b.writeIndex..(b.writeIndex + Len(s) - 1)
                 THEN s[i - b.writeIndex + 1]
                 ELSE b.mem[i]],
     size |-> b.size,
     readIndex |-> b.readIndex,
     writeIndex |-> b.writeIndex + Len(s)]

append(b, s) == Fill(ensureWritable(b, Len(s)), s)

\* Mutant of readFd: what overflowed is appended before writeIndex_ has moved.
readFdOverwriting(b, s) ==
    IF Len(s) <= writableBytes(b) THEN Fill(b, s)
    ELSE append(b, SubSeq(s, writableBytes(b) + 1, Len(s)))

\* readv has received s: the writable region first, then extrabuf.
readFd(b, s) ==
    IF Len(s) <= writableBytes(b) THEN Fill(b, s)
    ELSE append(Fill(b, SubSeq(s, 1, writableBytes(b))),
                SubSeq(s, writableBytes(b) + 1, Len(s)))

-----------------------------------------------------------------------------
(* The actions.                                                            *)

Init == buf = NewBuffer /\ passed = <<>> /\ peak = 0

\* n more bytes are to be readable.
Asked(n) ==
    /\ readableBytes(buf) + n <= MaxReadable
    /\ peak' = Larger(peak, readableBytes(buf) + n)

AppendString(s) ==
    /\ Asked(Len(s))
    /\ buf' = append(buf, s)
    /\ passed' = s

EnsureWritable(len) ==
    /\ Asked(len)
    /\ buf' = ensureWritable(buf, len)
    /\ UNCHANGED passed

\* readFd with n >= 0; a failed readv leaves the buffer as it is.
ReadFd(s) ==
    /\ Len(s) <= writableBytes(buf) + ExtraSize
    /\ Asked(Len(s))
    /\ buf' = readFd(buf, s)
    /\ passed' = s

Retrieve(len) ==
    /\ buf' = retrieve(buf, len)
    /\ UNCHANGED <<passed, peak>>

RetrieveAll ==
    /\ buf' = retrieveAll(buf)
    /\ UNCHANGED <<passed, peak>>

\* retrieveAsString clamps len; retrieveAllAsString passes all of it.
RetrieveAsString(len) ==
    LET n == IF len <= readableBytes(buf) THEN len ELSE readableBytes(buf) IN
    /\ passed' = SubSeq(Content(buf), 1, n)
    /\ buf' = retrieve(buf, n)
    /\ UNCHANGED peak

Strings == UNION {[1..n -> Bytes] : n \in 0..MaxReadable}

Next ==
    \/ \E s \in Strings : AppendString(s) \/ ReadFd(s)
    \/ \E len \in 0..(MaxReadable + 1) :
          EnsureWritable(len) \/ Retrieve(len) \/ RetrieveAsString(len)
    \/ RetrieveAll

Spec == Init /\ [][Next]_vars

-----------------------------------------------------------------------------
(* Properties.                                                             *)

\* The type invariant is the layout.
TypeOK == Layout(buf) /\ passed \in Seq(Bytes) /\ peak \in Nat

\* Moving, growing and reading past the end of the vector never lose, repeat,
\* reorder or damage a byte: the readable region is a byte queue.
BQ == INSTANCE ByteQueue WITH content <- Content(buf)
ImplementsByteQueue == BQ!Spec

\* A buffer whose front is consumed while its end is filled does not creep
\* through memory: the vector is at most twice as long as the most bytes it
\* ever had to hold, or as it was at first.
MemoryBounded == buf.size <= kPrependSize + Larger(kInitialSize, 2 * peak)
=============================================================================
