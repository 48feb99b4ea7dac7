----------------------------- MODULE BufferProofs -----------------------------
(***************************************************************************)
(* Theorems about Buffer, for any sizes and any strings.  Each member      *)
(* function has a lemma that says what it does to the layout and to the    *)
(* readable region; the theorems follow from the lemmas.                   *)
(***************************************************************************)
EXTENDS Buffer, SequenceTheorems, TLAPS

LEMMA NewBufferLayout == Layout(NewBuffer) /\ Content(NewBuffer) = <<>>
<1> USE BytesAssumption, SizeAssumption
<1>1. Layout(NewBuffer)
  BY DEF Layout, NewBuffer
<1>2. Content(NewBuffer) = <<>>
  BY DEF Content, NewBuffer, readableBytes
<1> QED
  BY <1>1, <1>2

\* The readable region is a sequence of bytes as long as readableBytes.
LEMMA ContentType ==
    ASSUME NEW b, Layout(b)
    PROVE  /\ readableBytes(b) \in Nat
           /\ Content(b) \in Seq(Bytes)
           /\ Len(Content(b)) = readableBytes(b)
           /\ \A i \in 1..readableBytes(b) : Content(b)[i] = b.mem[b.readIndex + i - 1]
<1> USE SizeAssumption
<1>1. readableBytes(b) \in Nat
  BY DEF Layout, readableBytes
<1>2. \A i \in 1..readableBytes(b) : b.mem[b.readIndex + i - 1] \in Bytes
  BY DEF Layout, readableBytes
<1>3. Content(b) \in [1..readableBytes(b) -> Bytes]
  BY <1>2 DEF Content
<1>4. Content(b) \in Seq(Bytes) /\ Len(Content(b)) = readableBytes(b)
  BY <1>1, <1>3
<1> QED
  BY <1>1, <1>4 DEF Content

\* Buffers whose readable regions agree byte for byte have the same content.
LEMMA SameContent ==
    ASSUME NEW b, NEW c, Layout(b), Layout(c),
           readableBytes(c) = readableBytes(b),
           \A i \in 1..readableBytes(b) :
               c.mem[c.readIndex + i - 1] = b.mem[b.readIndex + i - 1]
    PROVE  Content(c) = Content(b)
BY DEF Content

\* Moving the readable region keeps it and frees what is in front of it.
LEMMA MoveToFrontKeeps ==
    ASSUME NEW b, Layout(b)
    PROVE  /\ Layout(MoveToFront(b))
           /\ Content(MoveToFront(b)) = Content(b)
           /\ MoveToFront(b).size = b.size
           /\ readableBytes(MoveToFront(b)) = readableBytes(b)
           /\ writableBytes(MoveToFront(b)) = b.size - kPrependSize - readableBytes(b)
<1> DEFINE c == MoveToFront(b)
<1> USE SizeAssumption
<1>1. readableBytes(b) \in Nat /\ kPrependSize + readableBytes(b) <= b.size
  BY DEF Layout, readableBytes
<1>2. /\ c.size = b.size /\ c.readIndex = kPrependSize
      /\ c.writeIndex = kPrependSize + readableBytes(b)
      /\ c.mem = [i \in 0..(b.size - 1) |->
                     IF i \in kPrependSize..(kPrependSize + readableBytes(b) - 1)
                     THEN b.mem[b.readIndex + (i - kPrependSize)]
                     ELSE b.mem[i]]
  BY DEF MoveToFront, Layout
<1>3. \A i \in 0..(b.size - 1) : c.mem[i] \in Bytes
  <2> TAKE i \in 0..(b.size - 1)
  <2>1. b.mem[i] \in Bytes
    BY DEF Layout
  <2>2. ASSUME i \in kPrependSize..(kPrependSize + readableBytes(b) - 1)
        PROVE  b.mem[b.readIndex + (i - kPrependSize)] \in Bytes
    BY <2>2 DEF Layout, readableBytes
  <2> HIDE DEF c
  <2> QED
    BY <1>2, <2>1, <2>2
<1>4. c.mem \in [0..(c.size - 1) -> Bytes]
  <2> HIDE DEF c
  <2> QED
    BY <1>2, <1>3
<1>5. c \in [mem : [0..(c.size - 1) -> Bytes], size : Nat, readIndex : Nat, writeIndex : Nat]
  BY <1>1, <1>2, <1>4 DEF MoveToFront, Layout
<1>6. Layout(c)
  BY <1>1, <1>2, <1>5 DEF Layout
<1>7. readableBytes(c) = readableBytes(b)
  BY <1>1, <1>2 DEF readableBytes
<1>8. \A i \in 1..readableBytes(b) :
         c.mem[c.readIndex + i - 1] = b.mem[b.readIndex + i - 1]
  BY <1>1, <1>2 DEF Layout
<1>9. Content(c) = Content(b)
  BY <1>6, <1>7, <1>8, SameContent
<1>10. writableBytes(c) = b.size - kPrependSize - readableBytes(b)
  BY <1>1, <1>2 DEF writableBytes, Layout
<1> QED
  BY <1>2, <1>6, <1>7, <1>9, <1>10

\* Growing the vector keeps the readable region.
LEMMA ResizeKeeps ==
    ASSUME NEW b, Layout(b), NEW n \in Nat, n >= b.size
    PROVE  /\ Layout(Resize(b, n))
           /\ Content(Resize(b, n)) = Content(b)
           /\ Resize(b, n).size = n
           /\ readableBytes(Resize(b, n)) = readableBytes(b)
           /\ writableBytes(Resize(b, n)) = n - b.writeIndex
<1> DEFINE c == Resize(b, n)
<1> USE SizeAssumption
<1>1. /\ c.size = n /\ c.readIndex = b.readIndex /\ c.writeIndex = b.writeIndex
      /\ c.mem = [i \in 0..(n - 1) |-> IF i < b.size THEN b.mem[i] ELSE Zero]
  BY DEF Resize, Layout
<1>2. c.mem \in [0..(c.size - 1) -> Bytes]
  BY <1>1, BytesAssumption DEF Layout
<1>3. c \in [mem : [0..(c.size - 1) -> Bytes], size : Nat, readIndex : Nat, writeIndex : Nat]
  BY <1>1, <1>2 DEF Resize, Layout
<1>4. Layout(c)
  BY <1>1, <1>3 DEF Layout
<1>5. readableBytes(c) = readableBytes(b) /\ writableBytes(c) = n - b.writeIndex
  BY <1>1 DEF readableBytes, writableBytes
<1>6. \A i \in 1..readableBytes(b) :
         c.mem[c.readIndex + i - 1] = b.mem[b.readIndex + i - 1]
  BY <1>1 DEF Layout, readableBytes
<1>7. Content(c) = Content(b)
  BY <1>4, <1>5, <1>6, SameContent
<1> QED
  BY <1>1, <1>4, <1>5, <1>7

\* ensureWritable makes room for len bytes and keeps the readable region; it
\* makes the vector longer only when more than half of it will be needed.
LEMMA EnsureWritableKeeps ==
    ASSUME NEW b, Layout(b), NEW len \in Nat
    PROVE  LET c == ensureWritable(b, len)
           IN  /\ Layout(c)
               /\ Content(c) = Content(b)
               /\ readableBytes(c) = readableBytes(b)
               /\ writableBytes(c) >= len
               /\ \/ c.size = b.size
                  \/ c.size <= kPrependSize + 2 * (readableBytes(b) + len)
<1> USE SizeAssumption
<1>1. CASE writableBytes(b) >= len
  <2>1. ensureWritable(b, len) = b
    BY <1>1 DEF ensureWritable, writableBytes, Layout
  <2> QED
    BY <1>1, <2>1
<1>2. CASE writableBytes(b) < len /\ prependableBytes(b) + writableBytes(b) >= len + kPrependSize
  <2>1. ensureWritable(b, len) = MoveToFront(b)
    BY <1>2 DEF ensureWritable, makeSpace
  <2>2. b.size - kPrependSize - readableBytes(b) >= len
    BY <1>2 DEF Layout, readableBytes, prependableBytes, writableBytes
  <2> QED
    BY <2>1, <2>2, MoveToFrontKeeps
<1>3. CASE writableBytes(b) < len /\ prependableBytes(b) + writableBytes(b) < len + kPrependSize
  <2> DEFINE n == b.writeIndex + len
  <2>1. ensureWritable(b, len) = Resize(b, n)
    BY <1>3 DEF ensureWritable, makeSpace, Layout, prependableBytes, writableBytes
  <2>2. n \in Nat /\ n >= b.size /\ n - b.writeIndex = len
        /\ n <= kPrependSize + 2 * (readableBytes(b) + len)
    BY <1>3 DEF Layout, readableBytes, prependableBytes, writableBytes
  <2> HIDE DEF n
  <2> QED
    BY <2>1, <2>2, ResizeKeeps
<1> QED
  BY <1>1, <1>2, <1>3 DEF Layout, prependableBytes, writableBytes

\* What is copied into the writable region follows the readable bytes.
LEMMA FillAppends ==
    ASSUME NEW b, Layout(b), NEW s \in Seq(Bytes), Len(s) <= writableBytes(b)
    PROVE  /\ Layout(Fill(b, s))
           /\ Content(Fill(b, s)) = Content(b) \o s
           /\ Fill(b, s).size = b.size
           /\ readableBytes(Fill(b, s)) = readableBytes(b) + Len(s)
           /\ writableBytes(Fill(b, s)) = writableBytes(b) - Len(s)
<1> DEFINE c == Fill(b, s)
<1> USE SizeAssumption
<1>1. Len(s) \in Nat /\ b.writeIndex + Len(s) <= b.size
  BY DEF Layout, writableBytes
<1>2. /\ c.size = b.size /\ c.readIndex = b.readIndex
      /\ c.writeIndex = b.writeIndex + Len(s)
      /\ c.mem = [i \in 0..(b.size - 1) |->
                     IF i \in b.writeIndex..(b.writeIndex + Len(s) - 1)
                     THEN s[i - b.writeIndex + 1]
                     ELSE b.mem[i]]
  BY DEF Fill, Layout
<1>3. \A i \in 0..(b.size - 1) : c.mem[i] \in Bytes
  <2> TAKE i \in 0..(b.size - 1)
  <2>1. b.mem[i] \in Bytes
    BY DEF Layout
  <2>2. ASSUME i \in b.writeIndex..(b.writeIndex + Len(s) - 1)
        PROVE  s[i - b.writeIndex + 1] \in Bytes
    BY <1>1, <2>2 DEF Layout
  <2> HIDE DEF c
  <2> QED
    BY <1>2, <2>1, <2>2
<1>4. c.mem \in [0..(c.size - 1) -> Bytes]
  <2> HIDE DEF c
  <2> QED
    BY <1>2, <1>3
<1>5. c \in [mem : [0..(c.size - 1) -> Bytes], size : Nat, readIndex : Nat, writeIndex : Nat]
  BY <1>1, <1>2, <1>4 DEF Fill, Layout
<1>6. Layout(c)
  BY <1>1, <1>2, <1>5 DEF Layout
<1>7. /\ readableBytes(c) = readableBytes(b) + Len(s)
      /\ writableBytes(c) = writableBytes(b) - Len(s)
  BY <1>1, <1>2 DEF readableBytes, writableBytes, Layout
<1>8. Content(c) = Content(b) \o s
  <2> DEFINE t == Content(b)
             r == readableBytes(b)
  <2>1. /\ t \in Seq(Bytes) /\ Len(t) = r /\ r \in Nat
        /\ \A i \in 1..r : t[i] = b.mem[b.readIndex + i - 1]
    BY ContentType
  <2> HIDE DEF c
  <2>2. /\ Content(c) \in Seq(Bytes) /\ Len(Content(c)) = r + Len(s)
        /\ \A i \in 1..(r + Len(s)) : Content(c)[i] = c.mem[b.readIndex + i - 1]
    <3>1. /\ Content(c) \in Seq(Bytes) /\ Len(Content(c)) = readableBytes(c)
          /\ \A i \in 1..readableBytes(c) : Content(c)[i] = c.mem[c.readIndex + i - 1]
      BY <1>6, ContentType
    <3>2. readableBytes(c) = r + Len(s) /\ c.readIndex = b.readIndex
      BY <1>2, <1>7
    <3> QED
      BY ONLY <3>1, <3>2
  <2>3. b.writeIndex = b.readIndex + r /\ b.readIndex \in Nat /\ b.readIndex + r + Len(s) <= b.size
    BY <1>1 DEF Layout, readableBytes
  <2> HIDE DEF t, r
  <2>4. /\ t \o s \in Seq(Bytes)
        /\ Len(t \o s) = Len(t) + Len(s)
        /\ \A i \in 1..(Len(t) + Len(s)) :
               (t \o s)[i] = IF i <= Len(t) THEN t[i] ELSE s[i - Len(t)]
    BY <2>1, ConcatProperties
  <2>5. ASSUME NEW i \in 1..Len(Content(c)) PROVE Content(c)[i] = (t \o s)[i]
    <3> DEFINE k == b.readIndex + i - 1
    <3>1. i \in 1..(r + Len(s)) /\ i \in 1..(Len(t) + Len(s)) /\ i \in Int
      BY <1>1, <2>1, <2>2
    <3>2. k \in 0..(b.size - 1)
      BY <1>1, <2>1, <2>3, <3>1 DEF Layout
    <3>3. Content(c)[i] = IF k \in b.writeIndex..(b.writeIndex + Len(s) - 1)
                          THEN s[k - b.writeIndex + 1] ELSE b.mem[k]
      BY <1>2, <2>2, <3>1, <3>2
    <3>4. CASE i <= r
      <4>1. ~(k \in b.writeIndex..(b.writeIndex + Len(s) - 1))
        BY <2>1, <2>3, <3>1, <3>4
      <4>2. (t \o s)[i] = b.mem[k]
        BY <2>1, <2>4, <3>1, <3>4
      <4> QED
        BY <3>3, <4>1, <4>2
    <3>5. CASE i > r
      <4>1. k \in b.writeIndex..(b.writeIndex + Len(s) - 1) /\ k - b.writeIndex + 1 = i - r
        BY <1>1, <2>1, <2>3, <3>1, <3>5
      <4>2. (t \o s)[i] = s[i - r]
        BY <2>1, <2>4, <3>1, <3>5
      <4> QED
        BY <3>3, <4>1, <4>2
    <3> QED
      BY <2>1, <3>1, <3>4, <3>5
  <2>6. Content(c) = t \o s
    BY <1>1, <2>1, <2>2, <2>4, <2>5, SeqEqual
  <2> QED
    BY <2>6 DEF t
<1> QED
  BY <1>2, <1>6, <1>7, <1>8

\* append puts s behind the readable bytes, growing or moving as it must.
LEMMA AppendAppends ==
    ASSUME NEW b, Layout(b), NEW s \in Seq(Bytes)
    PROVE  LET c == append(b, s)
           IN  /\ Layout(c)
               /\ Content(c) = Content(b) \o s
               /\ \/ c.size = b.size
                  \/ c.size <= kPrependSize + 2 * (readableBytes(b) + Len(s))
<1> DEFINE d == ensureWritable(b, Len(s))
<1>1. Len(s) \in Nat
  BY LenProperties
<1>2. /\ Layout(d) /\ Content(d) = Content(b) /\ writableBytes(d) >= Len(s)
      /\ (d.size = b.size \/ d.size <= kPrependSize + 2 * (readableBytes(b) + Len(s)))
  BY <1>1, EnsureWritableKeeps
<1> HIDE DEF d
<1>3. Len(s) <= writableBytes(d)
  BY <1>1, <1>2 DEF Layout, writableBytes
<1>4. /\ Layout(Fill(d, s)) /\ Content(Fill(d, s)) = Content(d) \o s
      /\ Fill(d, s).size = d.size
  BY <1>2, <1>3, FillAppends
<1>5. append(b, s) = Fill(d, s)
  BY DEF append, d
<1> QED
  BY <1>2, <1>4, <1>5

\* readFd does so for what readv received, in both parts of the scatter list.
LEMMA ReadFdAppends ==
    ASSUME NEW b, Layout(b), NEW s \in Seq(Bytes)
    PROVE  LET c == readFd(b, s)
           IN  /\ Layout(c)
               /\ Content(c) = Content(b) \o s
               /\ \/ c.size = b.size
                  \/ c.size <= kPrependSize + 2 * (readableBytes(b) + Len(s))
<1>1. Len(s) \in Nat /\ writableBytes(b) \in Nat
  BY LenProperties DEF Layout, writableBytes
<1>2. CASE Len(s) <= writableBytes(b)
  <2>1. readFd(b, s) = Fill(b, s)
    BY <1>2 DEF readFd
  <2> QED
    BY <1>2, <2>1, FillAppends
<1>3. CASE ~(Len(s) <= writableBytes(b))
  <2> DEFINE w == writableBytes(b)
             s1 == SubSeq(s, 1, w)
             s2 == SubSeq(s, w + 1, Len(s))
             d == Fill(b, s1)
  <2>1. readFd(b, s) = append(d, s2)
    BY <1>3 DEF readFd
  <2>2. w \in Nat /\ w < Len(s)
    BY <1>1, <1>3
  <2> HIDE DEF w
  <2>3. /\ s1 \in Seq(Bytes) /\ Len(s1) = w
        /\ s2 \in Seq(Bytes) /\ Len(s2) = Len(s) - w
    BY <1>1, <2>2, SubSeqProperties, ElementOfSeq
  <2>4. s1 \o s2 = s
    <3>1. 1 \in 1..(Len(s) + 1) /\ w \in (1 - 1)..Len(s) /\ Len(s) \in w..Len(s)
      BY <1>1, <2>2
    <3>2. SubSeq(s, 1, w) \o SubSeq(s, w + 1, Len(s)) = SubSeq(s, 1, Len(s))
      BY <3>1, ConcatAdjacentSubSeq, Zenon
    <3> QED
      BY <3>2, SubSeqFull
  <2> HIDE DEF s1, s2
  <2>5. /\ Layout(d) /\ Content(d) = Content(b) \o s1 /\ d.size = b.size
        /\ readableBytes(d) = readableBytes(b) + w
    BY <2>2, <2>3, FillAppends DEF w
  <2> HIDE DEF d
  <2> DEFINE c == append(d, s2)
  <2>6. /\ Layout(c) /\ Content(c) = Content(d) \o s2
        /\ (c.size = d.size \/ c.size <= kPrependSize + 2 * (readableBytes(d) + Len(s2)))
    BY <2>3, <2>5, AppendAppends
  <2> HIDE DEF c
  <2>7. Content(c) = Content(b) \o s
    <3>1. Content(b) \in Seq(Bytes)
      BY ContentType
    <3>2. (Content(b) \o s1) \o s2 = Content(b) \o (s1 \o s2)
      BY ONLY <2>3, <3>1, ConcatAssociative
    <3> QED
      BY ONLY <2>4, <2>5, <2>6, <3>2
  <2>8. readableBytes(d) + Len(s2) = readableBytes(b) + Len(s)
    <3>1. readableBytes(b) \in Nat
      BY DEF Layout, readableBytes
    <3> QED
      BY ONLY <1>1, <2>2, <2>3, <2>5, <3>1
  <2>9. readFd(b, s) = c
    BY <2>1 DEF c
  <2> QED
    BY <2>5, <2>6, <2>7, <2>8, <2>9
<1> QED
  BY <1>2, <1>3

\* retrieve gives up the oldest bytes, all of them if asked for more.
LEMMA RetrieveDrops ==
    ASSUME NEW b, Layout(b), NEW len \in Nat
    PROVE  LET c == retrieve(b, len)
               n == IF len <= readableBytes(b) THEN len ELSE readableBytes(b)
           IN  /\ Layout(c)
               /\ c.size = b.size
               /\ n \in 0..Len(Content(b))
               /\ Content(c) = SubSeq(Content(b), n + 1, Len(Content(b)))
<1> DEFINE c == retrieve(b, len)
           n == IF len <= readableBytes(b) THEN len ELSE readableBytes(b)
           t == Content(b)
<1>1. /\ readableBytes(b) \in Nat /\ t \in Seq(Bytes) /\ Len(t) = readableBytes(b)
      /\ \A i \in 1..readableBytes(b) : t[i] = b.mem[b.readIndex + i - 1]
  BY ContentType
<1>2. n \in 0..readableBytes(b)
  BY <1>1
<1>3. /\ Layout(c) /\ c.size = b.size /\ readableBytes(c) = readableBytes(b) - n
      /\ \A i \in 1..readableBytes(c) : c.mem[c.readIndex + i - 1] = b.mem[b.readIndex + n + i - 1]
  <2>1. CASE len >= readableBytes(b)
    <3>1. n = readableBytes(b)
      BY <1>1, <2>1
    <3>2. c = [b EXCEPT !.readIndex = kPrependSize, !.writeIndex = kPrependSize]
      BY <2>1 DEF retrieve, retrieveAll
    <3>3. readableBytes(c) = 0 /\ c.size = b.size
      BY <3>2, SizeAssumption DEF Layout, readableBytes
    <3>4. c \in [mem : [0..(c.size - 1) -> Bytes], size : Nat, readIndex : Nat, writeIndex : Nat]
      BY <3>2, <3>3, SizeAssumption DEF Layout
    <3>5. c.readIndex = kPrependSize /\ c.writeIndex = kPrependSize /\ kPrependSize <= c.size
      BY <3>2, SizeAssumption DEF Layout
    <3>6. Layout(c)
      BY ONLY <3>4, <3>5, SizeAssumption DEF Layout
    <3> HIDE DEF c, n
    <3> QED
      BY <1>1, <3>1, <3>3, <3>6
  <2>2. CASE len < readableBytes(b)
    <3>1. n = len
      BY <1>1, <2>2
    <3>2. c = [b EXCEPT !.readIndex = @ + len]
      BY <1>1, <2>2 DEF retrieve
    <3>3. /\ c.readIndex = b.readIndex + len /\ c.writeIndex = b.writeIndex
          /\ c.mem = b.mem /\ c.size = b.size
      BY <3>2 DEF Layout
    <3>4. Layout(c)
      <4>1. c \in [mem : [0..(c.size - 1) -> Bytes], size : Nat, readIndex : Nat, writeIndex : Nat]
        BY <3>2, <3>3 DEF Layout
      <4>2. /\ b.readIndex \in Nat /\ b.writeIndex \in Nat /\ b.size \in Nat
            /\ kPrependSize <= b.readIndex /\ b.writeIndex <= b.size
            /\ len < b.writeIndex - b.readIndex
        BY <2>2 DEF Layout, readableBytes
      <4>3. kPrependSize <= c.readIndex /\ c.readIndex <= c.writeIndex /\ c.writeIndex <= c.size
        BY ONLY <3>3, <4>2, SizeAssumption, len \in Nat
      <4> QED
        BY ONLY <4>1, <4>3 DEF Layout
    <3>5. readableBytes(c) = readableBytes(b) - len
      BY <3>3 DEF Layout, readableBytes
    <3> HIDE DEF c, n
    <3> QED
      BY <3>1, <3>3, <3>4, <3>5
  <2> QED
    BY <1>1, <2>1, <2>2
<1> HIDE DEF c, n, t
<1>4. /\ Content(c) \in Seq(Bytes) /\ Len(Content(c)) = readableBytes(b) - n
      /\ \A i \in 1..(readableBytes(b) - n) : Content(c)[i] = b.mem[b.readIndex + n + i - 1]
  <2>1. /\ Content(c) \in Seq(Bytes) /\ Len(Content(c)) = readableBytes(c)
        /\ \A i \in 1..readableBytes(c) : Content(c)[i] = c.mem[c.readIndex + i - 1]
    BY <1>3, ContentType
  <2> QED
    BY ONLY <1>3, <2>1
<1> DEFINE u == SubSeq(t, n + 1, Len(t))
<1>5. /\ u \in Seq(Bytes) /\ Len(u) = readableBytes(b) - n
      /\ \A i \in 1..(readableBytes(b) - n) : u[i] = t[n + i]
  <2>1. \A i \in (n + 1)..Len(t) : t[i] \in Bytes
    BY <1>1, <1>2, ElementOfSeq
  <2>2. /\ u \in Seq(Bytes)
        /\ Len(u) = IF n + 1 <= Len(t) THEN Len(t) - (n + 1) + 1 ELSE 0
        /\ \A i \in 1..(Len(t) - (n + 1) + 1) : u[i] = t[(n + 1) + i - 1]
    BY <1>1, <1>2, <2>1, SubSeqProperties
  <2> HIDE DEF u
  <2> QED
    BY <1>1, <1>2, <2>2
<1> HIDE DEF u
<1>6. \A i \in 1..(readableBytes(b) - n) : Content(c)[i] = u[i]
  <2> TAKE i \in 1..(readableBytes(b) - n)
  <2>1. n + i \in 1..readableBytes(b) /\ b.readIndex + n + i - 1 = b.readIndex + (n + i) - 1
    BY <1>1, <1>2 DEF Layout
  <2> QED
    BY <1>1, <1>4, <1>5, <2>1
<1>7. Content(c) = u
  BY <1>4, <1>5, <1>6, SeqEqual
<1> QED
  BY <1>1, <1>2, <1>3, <1>7 DEF c, n, t, u

-----------------------------------------------------------------------------
(***************************************************************************)
(* The inductive invariant: the layout and the bound on the vector.        *)
(***************************************************************************)
BufferInv == TypeOK /\ MemoryBounded

LEMMA StringsAreSequences == Strings \subseteq Seq(Bytes)
BY SizeAssumption DEF Strings

LEMMA DoubleMonotone ==
    ASSUME NEW m \in Nat, NEW n \in Nat, m <= n
    PROVE  2 * m \in Nat /\ 2 * n \in Nat /\ 2 * m <= 2 * n
OBVIOUS

LEMMA LargerBounds ==
    ASSUME NEW k \in Nat, NEW m \in Nat, NEW n \in Nat, m <= n
    PROVE  /\ Larger(k, m) \in Nat /\ Larger(k, n) \in Nat
           /\ Larger(k, m) <= Larger(k, n)
           /\ n <= Larger(k, n)
BY DEF Larger

LEMMA InitBufferInv == Init => BufferInv
<1> SUFFICES ASSUME Init PROVE BufferInv
  OBVIOUS
<1>1. TypeOK
  BY NewBufferLayout DEF Init, TypeOK
<1>2. MemoryBounded
  BY SizeAssumption DEF Init, MemoryBounded, NewBuffer, Larger
<1> QED
  BY <1>1, <1>2 DEF BufferInv

\* A step that asks for n more bytes keeps the bound.
LEMMA BoundKept ==
    ASSUME BufferInv, NEW n \in Nat, Asked(n), buf'.size \in Nat,
           \/ buf'.size = buf.size
           \/ buf'.size <= kPrependSize + 2 * (readableBytes(buf) + n)
    PROVE  MemoryBounded' /\ peak' \in Nat
<1>1. /\ peak \in Nat /\ readableBytes(buf) \in Nat /\ buf.size \in Nat
      /\ buf.size <= kPrependSize + Larger(kInitialSize, 2 * peak)
  BY DEF BufferInv, TypeOK, MemoryBounded, Layout, readableBytes
<1>2. peak' = Larger(peak, readableBytes(buf) + n)
  BY DEF Asked
<1>3. peak' \in Nat /\ peak' >= peak /\ peak' >= readableBytes(buf) + n
  BY <1>1, <1>2 DEF Larger
<1>4. buf'.size <= kPrependSize + Larger(kInitialSize, 2 * peak')
  <2>1. /\ Larger(kInitialSize, 2 * peak) <= Larger(kInitialSize, 2 * peak')
        /\ 2 * peak' <= Larger(kInitialSize, 2 * peak')
        /\ Larger(kInitialSize, 2 * peak') \in Nat /\ Larger(kInitialSize, 2 * peak) \in Nat
    <3>1. 2 * peak \in Nat /\ 2 * peak' \in Nat /\ 2 * peak <= 2 * peak' /\ kInitialSize \in Nat
      BY ONLY <1>1, <1>3, SizeAssumption, DoubleMonotone
    <3> QED
      BY ONLY <3>1, LargerBounds
  <2>2. CASE buf'.size = buf.size
    BY ONLY <1>1, <2>1, <2>2, SizeAssumption
  <2>3. CASE buf'.size <= kPrependSize + 2 * (readableBytes(buf) + n)
    <3>1. 2 * (readableBytes(buf) + n) <= 2 * peak' /\ readableBytes(buf) + n \in Nat
      BY <1>1, <1>3
    <3> QED
      BY ONLY <1>3, <2>1, <2>3, <3>1, buf'.size \in Nat, SizeAssumption
  <2> QED
    BY <2>2, <2>3
<1> QED
  BY <1>3, <1>4 DEF MemoryBounded

\* Every action is a step of the byte queue, or leaves the content alone, and
\* keeps the invariant.
Simulated ==
    \/ \E s \in Strings : Content(buf)' = Content(buf) \o s /\ passed' = s
    \/ \E n \in 0..Len(Content(buf)) :
          /\ Content(buf)' = SubSeq(Content(buf), n + 1, Len(Content(buf)))
          /\ passed' = passed \/ passed' = SubSeq(Content(buf), 1, n)
    \/ Content(buf)' = Content(buf) /\ passed' = passed

LEMMA AppendStep ==
    ASSUME BufferInv, NEW s \in Strings, AppendString(s)
    PROVE  BufferInv' /\ Simulated
<1>1. Layout(buf) /\ s \in Seq(Bytes) /\ Len(s) \in Nat
  BY StringsAreSequences, LenProperties DEF BufferInv, TypeOK
<1>2. buf' = append(buf, s) /\ passed' = s /\ Asked(Len(s))
  BY DEF AppendString
<1>3. /\ Layout(buf') /\ Content(buf') = Content(buf) \o s
      /\ (buf'.size = buf.size \/ buf'.size <= kPrependSize + 2 * (readableBytes(buf) + Len(s)))
  BY <1>1, <1>2, AppendAppends
<1>4. MemoryBounded' /\ peak' \in Nat
  <2>1. buf'.size \in Nat
    BY <1>3 DEF Layout
  <2> QED
    BY <1>1, <1>2, <1>3, <2>1, BoundKept
<1> QED
  BY <1>1, <1>2, <1>3, <1>4 DEF BufferInv, TypeOK, Simulated

LEMMA ReadFdStep ==
    ASSUME BufferInv, NEW s \in Strings, ReadFd(s)
    PROVE  BufferInv' /\ Simulated
<1>1. Layout(buf) /\ s \in Seq(Bytes) /\ Len(s) \in Nat
  BY StringsAreSequences, LenProperties DEF BufferInv, TypeOK
<1>2. buf' = readFd(buf, s) /\ passed' = s /\ Asked(Len(s))
  BY DEF ReadFd
<1>3. /\ Layout(buf') /\ Content(buf') = Content(buf) \o s
      /\ (buf'.size = buf.size \/ buf'.size <= kPrependSize + 2 * (readableBytes(buf) + Len(s)))
  BY <1>1, <1>2, ReadFdAppends
<1>4. MemoryBounded' /\ peak' \in Nat
  <2>1. buf'.size \in Nat
    BY <1>3 DEF Layout
  <2> QED
    BY <1>1, <1>2, <1>3, <2>1, BoundKept
<1> QED
  BY <1>1, <1>2, <1>3, <1>4 DEF BufferInv, TypeOK, Simulated

LEMMA EnsureWritableStep ==
    ASSUME BufferInv, NEW len \in Nat, EnsureWritable(len)
    PROVE  BufferInv' /\ Simulated
<1>1. Layout(buf)
  BY DEF BufferInv, TypeOK
<1>2. buf' = ensureWritable(buf, len) /\ passed' = passed /\ Asked(len)
  BY DEF EnsureWritable
<1>3. /\ Layout(buf') /\ Content(buf') = Content(buf)
      /\ (buf'.size = buf.size \/ buf'.size <= kPrependSize + 2 * (readableBytes(buf) + len))
  BY <1>1, <1>2, EnsureWritableKeeps
<1>4. MemoryBounded' /\ peak' \in Nat
  <2>1. buf'.size \in Nat
    BY <1>3 DEF Layout
  <2> QED
    BY <1>2, <1>3, <2>1, BoundKept
<1> QED
  BY <1>2, <1>3, <1>4 DEF BufferInv, TypeOK, Simulated

\* The three ways to retrieve differ in what they hand out.
LEMMA RetrieveStep ==
    ASSUME BufferInv, NEW len \in Nat, Retrieve(len) \/ RetrieveAsString(len)
    PROVE  BufferInv' /\ Simulated
<1> DEFINE r == readableBytes(buf)
           n == IF len <= r THEN len ELSE r
           t == Content(buf)
<1>1. /\ Layout(buf) /\ passed \in Seq(Bytes)
      /\ r \in Nat /\ t \in Seq(Bytes) /\ Len(t) = r
  BY ContentType DEF BufferInv, TypeOK
<1>2. n \in Nat /\ n \in 0..r /\ n <= len /\ (IF n <= r THEN n ELSE r) = n
  BY <1>1
<1>3. retrieve(buf, n) = retrieve(buf, len)
  BY <1>1 DEF retrieve
<1>4. /\ buf' = retrieve(buf, len) /\ peak' = peak
      /\ passed' = passed \/ passed' = SubSeq(t, 1, n)
  BY <1>3 DEF Retrieve, RetrieveAsString
<1>5. /\ Layout(buf') /\ buf'.size = buf.size
      /\ n \in 0..Len(t) /\ Content(buf') = SubSeq(t, n + 1, Len(t))
  BY <1>1, <1>4, RetrieveDrops
<1> HIDE DEF n, r, t
<1>6. SubSeq(t, 1, n) \in Seq(Bytes)
  <2>1. \A i \in 1..n : t[i] \in Bytes
    BY <1>1, <1>2, ElementOfSeq
  <2> QED
    BY <1>2, <2>1, SubSeqProperties
<1>7. TypeOK'
  BY <1>1, <1>4, <1>5, <1>6 DEF BufferInv, TypeOK
<1>8. MemoryBounded'
  BY <1>4, <1>5 DEF BufferInv, MemoryBounded
<1>9. Simulated
  BY <1>4, <1>5 DEF Simulated, t
<1> QED
  BY <1>7, <1>8, <1>9 DEF BufferInv

LEMMA RetrieveAllStep ==
    ASSUME BufferInv, RetrieveAll
    PROVE  BufferInv' /\ Simulated
<1>1. readableBytes(buf) \in Nat
  BY ContentType DEF BufferInv, TypeOK
<1>2. Retrieve(readableBytes(buf))
  BY <1>1 DEF RetrieveAll, Retrieve, retrieve
<1> QED
  BY <1>1, <1>2, RetrieveStep

LEMMA NextStep == BufferInv /\ [Next]_vars => BufferInv' /\ Simulated
<1> SUFFICES ASSUME BufferInv, [Next]_vars PROVE BufferInv' /\ Simulated
  OBVIOUS
<1>1. ASSUME NEW s \in Strings, AppendString(s) \/ ReadFd(s) PROVE BufferInv' /\ Simulated
  BY <1>1, AppendStep, ReadFdStep
<1>2. ASSUME NEW len \in 0..(MaxReadable + 1),
             EnsureWritable(len) \/ Retrieve(len) \/ RetrieveAsString(len)
      PROVE  BufferInv' /\ Simulated
  <2>1. len \in Nat
    BY SizeAssumption
  <2> QED
    BY <1>2, <2>1, EnsureWritableStep, RetrieveStep
<1>3. CASE RetrieveAll
  BY <1>3, RetrieveAllStep
<1>4. CASE UNCHANGED vars
  <2>1. buf' = buf /\ passed' = passed /\ peak' = peak
    BY <1>4 DEF vars
  <2> QED
    BY <2>1 DEF BufferInv, TypeOK, MemoryBounded, Simulated
<1> QED
  BY <1>1, <1>2, <1>3, <1>4 DEF Next

\* The indices stay in order inside the vector and the header's bytes stay
\* free, whatever is appended, reserved, read and retrieved.
THEOREM TypeCorrect == Spec => []TypeOK
<1>1. BufferInv => TypeOK
  BY DEF BufferInv
<1> QED
  BY <1>1, InitBufferInv, NextStep, PTL DEF Spec

\* The vector is never longer than twice the most bytes it had to hold.
THEOREM MemoryBoundedCorrect == Spec => []MemoryBounded
<1>1. BufferInv => MemoryBounded
  BY DEF BufferInv
<1> QED
  BY <1>1, InitBufferInv, NextStep, PTL DEF Spec

\* A Buffer is a byte queue: no sequence of operations loses, repeats, reorders
\* or damages a byte.
THEOREM ImplementsByteQueueCorrect == Spec => ImplementsByteQueue
<1>1. Init => BQ!Init
  BY NewBufferLayout DEF Init, BQ!Init
<1>2. BufferInv /\ [Next]_vars => [BQ!Next]_(BQ!vars)
  <2> SUFFICES ASSUME BufferInv, [Next]_vars PROVE [BQ!Next]_(BQ!vars)
    OBVIOUS
  <2>1. Simulated
    BY NextStep
  <2> QED
    BY <2>1, Zenon DEF Simulated, BQ!Next, BQ!Put, BQ!Drop, BQ!Take, BQ!vars
<1> QED
  BY <1>1, <1>2, InitBufferInv, NextStep, PTL DEF Spec, ImplementsByteQueue, BQ!Spec
=============================================================================
