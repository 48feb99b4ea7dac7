------------------------- MODULE AsyncLoggingProofs -------------------------
(***************************************************************************)
(* Type correctness of AsyncLogging, that its buffers suffice -- whatever  *)
(* the producers append, no null pointer is used and the assertions of     *)
(* threadFunc hold --, and that the file gets the lines in their order.    *)
(***************************************************************************)
EXTENDS AsyncLogging, SequenceTheorems, WellFoundedInduction, TLAPS

\* While the thread is in its loop, nextBuffer_ is missing only if a buffer
\* was put away since the last swap.
NextInv ==
    pc \notin {"final", "finalWrite", "exit", "fault"} =>
        (nextBuffer = Null => Len(buffers) >= 1)

\* A spare is missing only while a buffer that can replace it is written.
SpareInv ==
    /\ pc \in {"none", "test", "lock", "asleep", "swap"} => buffersToWrite = <<>>
    /\ pc \in {"write", "recycle"} =>
          /\ newBuffer1 = Null
          /\ Len(buffersToWrite) >= 1
          /\ newBuffer2 = Null => Len(buffersToWrite) >= 2

BufferInv == TypeOK /\ BuffersAtHand /\ NextInv /\ SpareInv

LEMMA NullIsNoBuffer == \A b \in Buffers : b # Null
BY NullAssumption DEF Buffers

LEMMA EmptyBuffer == <<>> \in Buffers /\ <<>> # Null
BY NullIsNoBuffer, EmptySeq DEF Buffers

\* The resize leaves what can be missing.
LEMMA KeptSuffices ==
    ASSUME buffersToWrite \in Seq(Buffers), Len(buffersToWrite) >= 1,
           newBuffer2 = Null => Len(buffersToWrite) >= 2
    PROVE  Len(Kept) >= Missing
<1>1. Len(buffersToWrite) \in Nat
  BY LenProperties
<1>2. Len(buffersToWrite) > 2 => Len(SubSeq(buffersToWrite, 1, 2)) = 2
  BY <1>1, SubSeqProperties
<1> QED
  BY <1>1, <1>2 DEF Kept, Missing

LEMMA InitInv == Init => BufferInv
BY EmptyBuffer, EmptySeq DEF Init, BufferInv, TypeOK, Pcs, BuffersAtHand, NextInv, SpareInv

\* Appending puts the line into a buffer that is there.
LEMMA AppendStep ==
    ASSUME BufferInv, NEW l \in Lines, AppendToCurrent(l) \/ AppendToNext(l)
    PROVE  BufferInv'
<1>1. current \in Buffers /\ buffers \in Seq(Buffers) /\ appended \in Seq(Lines)
  BY DEF BufferInv, TypeOK, BuffersAtHand
<1>2. PICK b \in Buffers : current' = Append(b, l)
  <2>1. (IF nextBuffer # Null THEN nextBuffer ELSE <<>>) \in Buffers
    BY EmptyBuffer DEF BufferInv, TypeOK
  <2> QED
    BY <1>1, <2>1 DEF AppendToCurrent, AppendToNext
<1>3. current' \in Buffers /\ current' # Null
  BY <1>2, AppendProperties, NullIsNoBuffer DEF Buffers
<1>4. \/ nextBuffer' = nextBuffer /\ buffers' = buffers
      \/ nextBuffer' = Null /\ buffers' = Append(buffers, current)
  BY DEF AppendToCurrent, AppendToNext
<1>5. buffers' \in Seq(Buffers) /\ Len(buffers') >= Len(buffers)
      /\ (nextBuffer' = Null => nextBuffer = Null \/ Len(buffers') >= 1)
  BY <1>1, <1>4, AppendProperties, LenProperties
<1>6. Appending(l)
  BY DEF AppendToCurrent, AppendToNext
<1>7. appended' \in Seq(Lines) /\ late' \subseteq Lines
  BY <1>1, <1>6, AppendProperties DEF Appending, BufferInv, TypeOK
<1>8. /\ UNCHANGED <<newBuffer1, newBuffer2, buffersToWrite, ownerPc, destroying, stopRequested>>
      /\ pc' = IF pc = "asleep" THEN "swap" ELSE pc
  BY <1>6 DEF Appending, local, owner
<1>9. TypeOK'
  BY <1>3, <1>4, <1>5, <1>7, <1>8 DEF BufferInv, TypeOK, Pcs
<1>10. Kept' = Kept /\ Missing' = Missing
  BY <1>8 DEF Kept, Missing
<1>11. BuffersAtHand'
  BY <1>3, <1>8, <1>10 DEF BufferInv, BuffersAtHand
<1>12. NextInv'
  <2>1. Len(buffers) \in Nat /\ Len(buffers') \in Nat
    BY <1>1, <1>5, LenProperties
  <2> QED
    BY <1>5, <1>8, <2>1 DEF BufferInv, NextInv
<1>13. SpareInv'
  BY <1>8 DEF BufferInv, SpareInv
<1> QED
  BY <1>9, <1>11, <1>12, <1>13 DEF BufferInv

\* The steps that move the thread or the owner and no buffer.
LEMMA ControlStep ==
    ASSUME BufferInv, UNCHANGED <<shared, local, appended, late>>,
           \/ pc' = pc
           \/ pc = "test" /\ pc' \in {"lock", "final"}
           \/ pc = "lock" /\ pc' = "asleep"
           \/ pc = "asleep" /\ pc' = "swap"
           \/ pc = "write" /\ pc' = "recycle"
           \/ pc' = "fault",
           ownerPc' \in {"idle", "notify", "join", "gone"},
           destroying' \in BOOLEAN, stopRequested' \in BOOLEAN
    PROVE  BufferInv'
<1> USE DEF shared, local
<1>1. TypeOK'
  BY DEF BufferInv, TypeOK, Pcs
<1>2. pc = "write" => Len(Kept) >= Missing
  BY KeptSuffices DEF BufferInv, TypeOK, SpareInv
<1>3. Kept' = Kept /\ Missing' = Missing
  BY DEF Kept, Missing
<1>4. BuffersAtHand'
  BY <1>2, <1>3 DEF BufferInv, BuffersAtHand
<1>5. NextInv' /\ SpareInv'
  BY DEF BufferInv, NextInv, SpareInv
<1> QED
  BY <1>1, <1>4, <1>5 DEF BufferInv

LEMMA SwapStep == ASSUME BufferInv, Swap PROVE BufferInv'
<1>1. /\ current \in Buffers /\ buffers \in Seq(Buffers) /\ buffersToWrite = <<>>
      /\ newBuffer1 \in Buffers /\ newBuffer2 \in Buffers
      /\ newBuffer1 # Null /\ newBuffer2 # Null
      /\ nextBuffer = Null => Len(buffers) >= 1
  BY DEF BufferInv, TypeOK, BuffersAtHand, NextInv, SpareInv, Swap, ThreadMoves
<1>2. /\ buffersToWrite' = Append(buffers, current) /\ buffers' = <<>>
      /\ current' = newBuffer1 /\ newBuffer1' = Null
      /\ \/ nextBuffer = Null /\ nextBuffer' = newBuffer2 /\ newBuffer2' = Null
         \/ nextBuffer # Null /\ nextBuffer' = nextBuffer /\ newBuffer2' = newBuffer2
      /\ pc' = "write" /\ UNCHANGED <<ownerPc, destroying, stopRequested, appended, late>>
  BY <1>1 DEF Swap, ThreadMoves, owner
<1>3. /\ buffersToWrite' \in Seq(Buffers)
      /\ Len(buffersToWrite') = Len(buffers) + 1 /\ Len(buffers) \in Nat
  BY <1>1, <1>2, AppendProperties, LenProperties
<1>4. TypeOK'
  BY <1>1, <1>2, <1>3, EmptySeq DEF BufferInv, TypeOK, Pcs
<1>5. BuffersAtHand' /\ NextInv' /\ SpareInv'
  BY <1>1, <1>2, <1>3 DEF BuffersAtHand, NextInv, SpareInv
<1> QED
  BY <1>4, <1>5 DEF BufferInv

LEMMA RecycleStep == ASSUME BufferInv, Recycle PROVE BufferInv'
<1>1. /\ newBuffer1' \in Buffers /\ newBuffer2' \in Buffers
      /\ newBuffer1' # Null /\ newBuffer2' # Null
  BY EmptyBuffer DEF Recycle, BufferInv, TypeOK
<1>2. /\ buffersToWrite' = <<>> /\ pc = "recycle" /\ pc' = "test"
      /\ UNCHANGED <<current, nextBuffer, buffers, ownerPc, destroying, stopRequested,
                     appended, late>>
  BY DEF Recycle, ThreadMoves, owner, shared
<1>3. TypeOK'
  BY <1>1, <1>2, EmptySeq DEF BufferInv, TypeOK, Pcs
<1>4. BuffersAtHand' /\ NextInv' /\ SpareInv'
  BY <1>1, <1>2 DEF BufferInv, BuffersAtHand, NextInv, SpareInv
<1> QED
  BY <1>3, <1>4 DEF BufferInv

\* The last swap leaves a current buffer to the producers.
LEMMA FinalSwapStep == ASSUME BufferInv, FinalSwap PROVE BufferInv'
<1>1. /\ current \in Buffers /\ newBuffer1 \in Buffers /\ newBuffer1 # Null
      /\ buffers \in Seq(Buffers) /\ buffersToWrite \in Seq(Buffers)
  BY DEF BufferInv, TypeOK, BuffersAtHand, FinalSwap, ThreadMoves
<1>2. /\ buffers' = buffersToWrite /\ pc' = "finalWrite"
      /\ \/ /\ buffersToWrite' = Append(buffers, current)
            /\ current' = newBuffer1 /\ newBuffer1' = Null
         \/ buffersToWrite' = buffers /\ UNCHANGED <<current, newBuffer1>>
      /\ UNCHANGED <<nextBuffer, newBuffer2, ownerPc, destroying, stopRequested, appended, late>>
  BY DEF FinalSwap, ThreadMoves, owner
<1>3. buffersToWrite' \in Seq(Buffers) /\ current' \in Buffers /\ current' # Null
  BY <1>1, <1>2, AppendProperties, NullIsNoBuffer
<1>4. TypeOK'
  BY <1>1, <1>2, <1>3 DEF BufferInv, TypeOK, Pcs
<1>5. BuffersAtHand' /\ NextInv' /\ SpareInv'
  BY <1>2, <1>3 DEF BuffersAtHand, NextInv, SpareInv
<1> QED
  BY <1>4, <1>5 DEF BufferInv

LEMMA FinalWriteStep == ASSUME BufferInv, FinalWrite PROVE BufferInv'
<1>1. /\ pc' = "exit" /\ buffersToWrite' = <<>> /\ newBuffer1' = Null /\ newBuffer2' = Null
      /\ UNCHANGED <<current, nextBuffer, buffers, ownerPc, destroying, stopRequested,
                     appended, late>>
  BY DEF FinalWrite, ThreadMoves, owner, shared
<1>2. TypeOK'
  BY <1>1, EmptySeq DEF BufferInv, TypeOK, Pcs
<1>3. BuffersAtHand' /\ NextInv' /\ SpareInv'
  BY <1>1 DEF BufferInv, BuffersAtHand, NextInv, SpareInv
<1> QED
  BY <1>2, <1>3 DEF BufferInv

LEMMA StartStep == ASSUME BufferInv, Start PROVE BufferInv'
<1>1. /\ pc = "none" /\ pc' = "test" /\ newBuffer1' = <<>> /\ newBuffer2' = <<>>
      /\ UNCHANGED <<current, nextBuffer, buffers, buffersToWrite, ownerPc, destroying,
                     stopRequested, appended, late>>
  BY DEF Start, owner, shared
<1>2. TypeOK'
  BY <1>1, EmptyBuffer DEF BufferInv, TypeOK, Pcs
<1>3. BuffersAtHand' /\ NextInv' /\ SpareInv'
  BY <1>1, EmptyBuffer DEF BufferInv, BuffersAtHand, NextInv, SpareInv
<1> QED
  BY <1>2, <1>3 DEF BufferInv

LEMMA NextStep == BufferInv /\ [Next]_vars => BufferInv'
<1> SUFFICES ASSUME BufferInv, [Next]_vars PROVE BufferInv'
  OBVIOUS
<1>1. ASSUME NEW l \in Lines, AppendToCurrent(l) \/ AppendToNext(l) PROVE BufferInv'
  BY <1>1, AppendStep
<1>2. CASE TestStop \/ FallAsleep \/ Timeout \/ Write \/ UseAfterDestruction
  <2>1. /\ UNCHANGED <<shared, local, appended, late>>
        /\ UNCHANGED <<ownerPc, destroying, stopRequested>>
    BY <1>2 DEF TestStop, FallAsleep, Timeout, Write, UseAfterDestruction, ThreadMoves, owner
  <2>2. \/ pc = "test" /\ pc' \in {"lock", "final"}
        \/ pc = "lock" /\ pc' = "asleep"
        \/ pc = "asleep" /\ pc' = "swap"
        \/ pc = "write" /\ pc' = "recycle"
        \/ pc' = "fault"
    BY <1>2 DEF TestStop, FallAsleep, Timeout, Write, UseAfterDestruction, ThreadMoves
  <2> QED
    BY <2>1, <2>2, ControlStep DEF BufferInv, TypeOK
<1>3. CASE Swap
  BY <1>3, SwapStep
<1>4. CASE Recycle
  BY <1>4, RecycleStep
<1>5. CASE FinalSwap
  BY <1>5, FinalSwapStep
<1>6. CASE FinalWrite
  BY <1>6, FinalWriteStep
<1>7. CASE Start
  BY <1>7, StartStep
<1>8. ASSUME NEW final \in BOOLEAN, RequestStop(final) PROVE BufferInv'
  <2>1. /\ UNCHANGED <<shared, local, appended, late>> /\ pc' = pc
        /\ ownerPc' = "notify" /\ destroying' \in BOOLEAN /\ stopRequested' \in BOOLEAN
    BY <1>8 DEF RequestStop, BufferInv, TypeOK
  <2> QED
    BY <2>1, ControlStep
<1>9. CASE NotifyThread \/ Join
  <2>1. /\ UNCHANGED <<shared, local, appended, late, destroying, stopRequested>>
        /\ pc' = pc \/ (pc = "asleep" /\ pc' = "swap")
        /\ ownerPc' \in {"idle", "notify", "join", "gone"}
    BY <1>9 DEF NotifyThread, Join
  <2> QED
    BY <2>1, ControlStep DEF BufferInv, TypeOK
<1>10. CASE UNCHANGED vars
  <2>1. /\ UNCHANGED <<shared, local, appended, late>> /\ pc' = pc
        /\ UNCHANGED <<ownerPc, destroying, stopRequested>>
    BY <1>10 DEF vars, owner
  <2> QED
    BY <2>1, ControlStep DEF BufferInv, TypeOK
<1> QED
  BY <1>1, <1>2, <1>3, <1>4, <1>5, <1>6, <1>7, <1>8, <1>9, <1>10 DEF Next, ThreadStep

\* Every pointer is null or a buffer of lines, and no null pointer is put
\* among the buffers to write.
THEOREM TypeCorrect == Spec => []TypeOK
<1>1. BufferInv => TypeOK
  BY DEF BufferInv
<1> QED
  BY <1>1, InitInv, NextStep, PTL DEF Spec

\* The double buffering never runs out of buffers: currentBuffer_ is there for
\* every append, the spares for every swap, and the assertions hold, for any
\* number and size of lines.
THEOREM BuffersAtHandCorrect == Spec => []BuffersAtHand
<1>1. BufferInv => BuffersAtHand
  BY DEF BufferInv
<1> QED
  BY <1>1, InitInv, NextStep, PTL DEF Spec
-----------------------------------------------------------------------------
(* The lines of a sequence of buffers.  FlattenSeq is recursive: what it   *)
(* computes follows from the least number for which it would not.          *)

\* A set of numbers that is not empty has a least element.
LEMMA LeastNumber ==
    ASSUME NEW T, T \subseteq Nat, T # {}
    PROVE  \E m \in T : \A k \in T : m <= k
<1>1. PICK m \in T : \A k \in T : <<k, m>> \notin OpToRel(<, Nat)
  BY WFMin, NatLessThanWellFounded, Zenon
<1>2. ASSUME NEW k \in T PROVE m <= k
  <2>1. <<k, m>> \notin {s \in Nat \X Nat : s[1] < s[2]}
    BY <1>1 DEF OpToRel
  <2> QED
    BY <2>1
<1> QED
  BY <1>2

\* f holds the lines of the first 1, 2, ..., n buffers of s.
Flattens(s, f, n) == \A i \in 1..n : f[i] = IF i = 1 THEN s[i] ELSE f[i - 1] \o s[i]

\* The elements of f depend only on the buffers up to theirs.
LEMMA FlattensUnique ==
    ASSUME NEW s, NEW t, NEW f, NEW g, NEW n \in Nat,
           Flattens(s, f, n), Flattens(t, g, n), \A i \in 1..n : s[i] = t[i]
    PROVE  \A i \in 1..n : f[i] = g[i]
<1> DEFINE T == {i \in 1..n : f[i] # g[i]}
<1> SUFFICES ASSUME T # {} PROVE FALSE
  OBVIOUS
<1>1. PICK m \in T : \A k \in T : m <= k
  <2>1. T \subseteq Nat
    OBVIOUS
  <2> HIDE DEF T
  <2> QED
    BY <2>1, LeastNumber
<1>2. m \in 1..n /\ f[m] # g[m]
  BY <1>1
<1>3. CASE m = 1
  BY <1>2, <1>3 DEF Flattens
<1>4. CASE m # 1
  <2>1. m - 1 \in 1..n /\ ~(m <= m - 1)
    BY <1>2, <1>4
  <2>2. f[m - 1] = g[m - 1]
    BY <1>1, <2>1
  <2> QED
    BY <1>2, <1>4, <2>2 DEF Flattens
<1> QED
  BY <1>3, <1>4

LEMMA FlattensExists ==
    ASSUME NEW s \in Seq(Buffers), NEW n \in 1..Len(s)
    PROVE  \E f \in [1..n -> Buffers] : Flattens(s, f, n)
<1> DEFINE T == {k \in 1..Len(s) : ~ \E f \in [1..k -> Buffers] : Flattens(s, f, k)}
<1> SUFFICES ASSUME T # {} PROVE FALSE
  OBVIOUS
<1>1. PICK m \in T : \A k \in T : m <= k
  <2>1. T \subseteq Nat
    BY LenProperties
  <2> HIDE DEF T
  <2> QED
    BY <2>1, LeastNumber
<1>2. m \in 1..Len(s) /\ Len(s) \in Nat /\ s[m] \in Buffers
  BY <1>1, ElementOfSeq, LenProperties
<1>3. ASSUME NEW f \in [1..m -> Buffers], Flattens(s, f, m) PROVE FALSE
  BY <1>1, <1>3
<1> HIDE DEF T
<1>4. CASE m = 1
  <2> DEFINE f == [i \in 1..1 |-> s[1]]
  <2>1. f \in [1..m -> Buffers] /\ Flattens(s, f, m)
    BY <1>2, <1>4 DEF Flattens
  <2> QED
    BY <1>3, <2>1
<1>5. CASE m # 1
  <2>1. m - 1 \in 1..Len(s) /\ ~(m <= m - 1)
    BY <1>2, <1>5
  <2>2. PICK g \in [1..(m - 1) -> Buffers] : Flattens(s, g, m - 1)
    BY <1>1, <2>1 DEF T
  <2> DEFINE f == [i \in 1..m |-> IF i = m THEN g[m - 1] \o s[m] ELSE g[i]]
  <2>3. g[m - 1] \o s[m] \in Buffers
    BY <1>2, <2>1, ConcatProperties DEF Buffers
  <2>4. f \in [1..m -> Buffers]
    BY <1>2, <2>1, <2>3
  <2>5. ASSUME NEW i \in 1..m PROVE f[i] = IF i = 1 THEN s[i] ELSE f[i - 1] \o s[i]
    <3>1. CASE i = m
      <4>1. m - 1 \in 1..m /\ m - 1 # m
        BY <1>2, <2>1
      <4> QED
        BY <1>5, <3>1, <4>1
    <3>2. CASE i # m
      <4>1. i \in 1..(m - 1) /\ (i # 1 => i - 1 \in 1..m /\ i - 1 # m)
        BY <1>2, <3>2
      <4> QED
        BY <2>2, <3>2, <4>1 DEF Flattens
    <3> QED
      BY <3>1, <3>2
  <2>6. Flattens(s, f, m)
    BY <2>5 DEF Flattens
  <2> QED
    BY <1>3, <2>4, <2>6
<1> QED
  BY <1>4, <1>5

\* What FlattenSeq is the last element of.
LEMMA FlattenSeqIsLast ==
    ASSUME NEW s \in Seq(Buffers), Len(s) # 0
    PROVE  \E f \in [1..Len(s) -> Buffers] : Flattens(s, f, Len(s)) /\ FlattenSeq(s) = f[Len(s)]
<1> DEFINE Def(f) == f = [i \in 1..Len(s) |-> IF i = 1 THEN s[i] ELSE f[i - 1] \o s[i]]
<1>1. Len(s) \in 1..Len(s)
  BY LenProperties
<1>2. PICK g \in [1..Len(s) -> Buffers] : Flattens(s, g, Len(s))
  BY <1>1, FlattensExists
<1>3. Def(g)
  BY <1>2 DEF Flattens
<1>4. FlattenSeq(s) = (CHOOSE f : Def(f))[Len(s)]
  BY DEF FlattenSeq
<1> DEFINE h == CHOOSE f : Def(f)
<1>5. Def(h)
  <2> HIDE DEF Def
  <2> QED
    BY <1>3
<1> HIDE DEF h
<1>6. Flattens(s, h, Len(s)) /\ DOMAIN h = 1..Len(s)
  BY <1>5 DEF Flattens
<1>7. \A i \in 1..Len(s) : h[i] = g[i]
  BY <1>2, <1>6, LenProperties, FlattensUnique
<1>8. h \in [1..Len(s) -> Buffers]
  BY <1>5, <1>7
<1> QED
  BY <1>4, <1>6, <1>8 DEF h

\* The lines of no buffer, of buffers, and of one buffer more.
LEMMA FlattenSeqProperties ==
    /\ FlattenSeq(<<>>) = <<>>
    /\ \A s \in Seq(Buffers) : FlattenSeq(s) \in Buffers
    /\ \A s \in Seq(Buffers), b \in Buffers : FlattenSeq(Append(s, b)) = FlattenSeq(s) \o b
<1>1. FlattenSeq(<<>>) = <<>>
  BY DEF FlattenSeq
<1>2. ASSUME NEW s \in Seq(Buffers) PROVE FlattenSeq(s) \in Buffers
  <2>1. CASE Len(s) = 0
    BY <1>1, <2>1, EmptySeq DEF Buffers
  <2>2. CASE Len(s) # 0
    <3>1. PICK f \in [1..Len(s) -> Buffers] : Flattens(s, f, Len(s)) /\ FlattenSeq(s) = f[Len(s)]
      BY <2>2, FlattenSeqIsLast
    <3>2. Len(s) \in 1..Len(s)
      BY <2>2, LenProperties
    <3> QED
      BY <3>1, <3>2
  <2> QED
    BY <2>1, <2>2
<1>3. ASSUME NEW s \in Seq(Buffers), NEW b \in Buffers
      PROVE  FlattenSeq(Append(s, b)) = FlattenSeq(s) \o b
  <2> DEFINE t == Append(s, b)
  <2> HIDE DEF t
  <2>1. /\ t \in Seq(Buffers) /\ Len(t) = Len(s) + 1 /\ Len(s) \in Nat
        /\ \A i \in 1..Len(s) : t[i] = s[i]
        /\ t[Len(s) + 1] = b
    BY AppendProperties, LenProperties DEF t
  <2>2. PICK g \in [1..Len(t) -> Buffers] : Flattens(t, g, Len(t)) /\ FlattenSeq(t) = g[Len(t)]
    <3>1. t \in Seq(Buffers) /\ Len(t) # 0
      BY <2>1
    <3> QED
      BY <3>1, FlattenSeqIsLast
  <2>3. CASE Len(s) = 0
    <3>1. s = <<>>
      BY <2>3, EmptySeq
    <3>2. g[1] = b
      BY <2>1, <2>2, <2>3 DEF Flattens
    <3>3. <<>> \o b = b
      BY ConcatEmptySeq DEF Buffers
    <3>4. FlattenSeq(s) = <<>>
      BY <1>1, <3>1
    <3>5. FlattenSeq(t) = g[1]
      BY <2>1, <2>2, <2>3
    <3>6. FlattenSeq(t) = FlattenSeq(s) \o b
      BY <3>2, <3>3, <3>4, <3>5
    <3> QED
      BY <3>6 DEF t
  <2>4. CASE Len(s) # 0
    <3>1. PICK f \in [1..Len(s) -> Buffers] :
             Flattens(s, f, Len(s)) /\ FlattenSeq(s) = f[Len(s)]
      BY <2>4, FlattenSeqIsLast
    <3>2. Flattens(t, g, Len(s))
      <4>1. 1..Len(s) \subseteq 1..Len(t)
        BY <2>1
      <4> QED
        BY <2>2, <4>1 DEF Flattens
    <3>3. g[Len(s)] = f[Len(s)]
      <4>1. Len(s) \in 1..Len(s)
        BY <2>1, <2>4
      <4> QED
        BY <2>1, <3>1, <3>2, <4>1, FlattensUnique
    <3>4. g[Len(s) + 1] = g[Len(s)] \o b
      <4> DEFINE i == Len(s) + 1
      <4>1. i \in 1..Len(t) /\ i # 1 /\ i - 1 = Len(s) /\ t[i] = b
        BY <2>1, <2>4
      <4>2. g[i] = IF i = 1 THEN t[i] ELSE g[i - 1] \o t[i]
        BY <2>2, <4>1 DEF Flattens
      <4> HIDE DEF i
      <4>3. g[i] = g[Len(s)] \o b
        BY <4>1, <4>2
      <4> QED
        BY <4>3 DEF i
    <3> QED
      BY <2>1, <2>2, <3>1, <3>3, <3>4 DEF t
  <2> QED
    BY <2>3, <2>4
<1> QED
  BY <1>1, <1>2, <1>3
-----------------------------------------------------------------------------
(* The order of the lines.                                                 *)

\* Spare buffers are empty, and so is buffersToWrite when the thread swaps.
OrderInv ==
    /\ BufferInv
    /\ written \in Seq(Lines)
    /\ {nextBuffer, newBuffer1, newBuffer2} \subseteq {<<>>, Null}
    /\ pc \in {"none", "test", "lock", "asleep", "swap", "final"} => buffersToWrite = <<>>
    /\ LinesInOrder

\* Sequences of lines do not depend on where one buffer ends and another begins.
LEMMA Regroup ==
    ASSUME NEW a \in Buffers, NEW b \in Buffers
    PROVE  a \o b \in Buffers /\ a \o <<>> = a /\ <<>> \o a = a
BY ConcatProperties, ConcatEmptySeq DEF Buffers

LEMMA Associate == \A a, b, c \in Buffers : (a \o b) \o c = a \o (b \o c)
BY ConcatAssociative DEF Buffers

LEMMA AppendLast ==
    ASSUME NEW a \in Buffers, NEW b \in Buffers, NEW l \in Lines
    PROVE  Append(a \o b, l) = a \o Append(b, l) /\ Append(b, l) \in Buffers
<1>1. /\ Append(b, l) = b \o <<l>> /\ <<l>> \in Buffers /\ a \o b \in Buffers
      /\ Append(a \o b, l) = (a \o b) \o <<l>>
  BY AppendIsConcat, ConcatProperties DEF Buffers
<1>2. (a \o b) \o <<l>> = a \o (b \o <<l>>)
  BY <1>1, ConcatAssociative DEF Buffers
<1>3. Append(b, l) \in Buffers
  BY AppendProperties DEF Buffers
<1> QED
  BY <1>1, <1>2, <1>3

\* The lines behind those that are written, in the types that Regroup needs.
LEMMA LinesTyped ==
    ASSUME OrderInv
    PROVE  /\ written \in Buffers /\ Unwritten \in Buffers /\ current \in Buffers
           /\ FlattenSeq(buffers) \in Buffers /\ Held \in Buffers
           /\ buffers \in Seq(Buffers) /\ buffersToWrite \in Seq(Buffers)
           /\ written \o Unwritten \in Buffers
<1>1. /\ written \in Buffers /\ current \in Buffers
      /\ buffers \in Seq(Buffers) /\ buffersToWrite \in Seq(Buffers)
  BY DEF OrderInv, BufferInv, TypeOK, BuffersAtHand, Buffers
<1>2. FlattenSeq(buffers) \in Buffers /\ FlattenSeq(buffersToWrite) \in Buffers
  BY <1>1, FlattenSeqProperties
<1>3. Unwritten \in Buffers
  BY <1>2, EmptyBuffer DEF Unwritten
<1>4. Held \in Buffers
  BY <1>1, <1>2, Regroup DEF Held
<1> QED
  BY <1>1, <1>2, <1>3, <1>4, Regroup

LEMMA AppendOrder ==
    ASSUME OrderInv, NEW l \in Lines, AppendToCurrent(l) \/ AppendToNext(l)
    PROVE  OrderInv'
<1>1. /\ UNCHANGED <<newBuffer1, newBuffer2, buffersToWrite, written>>
      /\ appended' = Append(appended, l)
      /\ pc' = IF pc = "asleep" THEN "swap" ELSE pc
  BY DEF AppendToCurrent, AppendToNext, Appending, local
<1>2. Unwritten' = Unwritten
  BY <1>1 DEF Unwritten
<1>3. Held' = Append(Held, l)
  <2>1. CASE AppendToCurrent(l)
    <3>1. current' = Append(current, l) /\ buffers' = buffers
      BY <2>1 DEF AppendToCurrent
    <3>2. FlattenSeq(buffers) \o Append(current, l) = Append(FlattenSeq(buffers) \o current, l)
      BY LinesTyped, AppendLast
    <3> QED
      BY <3>1, <3>2 DEF Held
  <2>2. CASE AppendToNext(l)
    <3>1. current' = Append(<<>>, l) /\ buffers' = Append(buffers, current)
      BY <2>2 DEF AppendToNext, OrderInv
    <3>2. FlattenSeq(buffers') = Held
      BY <3>1, LinesTyped, FlattenSeqProperties DEF Held
    <3>3. Held \o Append(<<>>, l) = Append(Held \o <<>>, l) /\ Held \o <<>> = Held
      BY LinesTyped, EmptyBuffer, AppendLast, Regroup
    <3> QED
      BY <3>1, <3>2, <3>3 DEF Held
  <2> QED
    BY <2>1, <2>2
<1>4. Append((written \o Unwritten) \o Held, l) = (written \o Unwritten) \o Append(Held, l)
  BY LinesTyped, AppendLast
<1>5. LinesInOrder'
  BY <1>1, <1>2, <1>3, <1>4 DEF OrderInv, LinesInOrder
<1>6. nextBuffer' \in {nextBuffer, Null}
  BY DEF AppendToCurrent, AppendToNext
<1>7. BufferInv'
  BY AppendStep DEF OrderInv
<1> QED
  BY <1>1, <1>5, <1>6, <1>7 DEF OrderInv

LEMMA SwapOrder == ASSUME OrderInv, Swap PROVE OrderInv'
<1>1. /\ pc = "swap" /\ pc' = "write" /\ UNCHANGED <<appended, written>>
      /\ buffersToWrite' = Append(buffers, current) /\ buffers' = <<>> /\ current' = <<>>
      /\ newBuffer1' = Null /\ {nextBuffer', newBuffer2'} \subseteq {<<>>, Null}
  BY DEF Swap, ThreadMoves, OrderInv, BufferInv, BuffersAtHand
<1>2. Unwritten = <<>> /\ Unwritten' = Held
  BY <1>1, LinesTyped, FlattenSeqProperties DEF Unwritten, Held
<1>3. Held' = <<>>
  BY <1>1, FlattenSeqProperties, EmptyBuffer, Regroup DEF Held
<1>4. (written \o <<>>) \o Held = (written \o Held) \o <<>>
  BY LinesTyped, Regroup
<1>5. LinesInOrder'
  BY <1>1, <1>2, <1>3, <1>4 DEF OrderInv, LinesInOrder
<1>6. BufferInv'
  BY SwapStep DEF OrderInv
<1> QED
  BY <1>1, <1>5, <1>6 DEF OrderInv

\* Write and FinalWrite hand over what was unwritten.
LEMMA WriteOrder ==
    ASSUME OrderInv, BufferInv', pc \in {"write", "finalWrite"}, pc' \in {"recycle", "exit"},
           written' = written \o FlattenSeq(buffersToWrite), UNCHANGED <<shared, appended>>,
           {newBuffer1', newBuffer2'} \subseteq {<<>>, Null}
    PROVE  OrderInv'
<1>1. UNCHANGED <<current, nextBuffer, buffers>>
  BY DEF shared
<1>2. Held' = Held /\ Unwritten' = <<>> /\ written' = written \o Unwritten
  BY <1>1 DEF Held, Unwritten
<1>3. written' \in Buffers /\ written' \o <<>> = written'
  BY <1>2, LinesTyped, Regroup
<1>4. LinesInOrder'
  BY <1>2, <1>3 DEF OrderInv, LinesInOrder
<1> QED
  BY <1>1, <1>3, <1>4 DEF OrderInv, Buffers

LEMMA FinalSwapOrder == ASSUME OrderInv, FinalSwap PROVE OrderInv'
<1>1. /\ pc = "final" /\ pc' = "finalWrite"
      /\ UNCHANGED <<appended, written, nextBuffer, newBuffer2>>
      /\ buffers' = <<>>
      /\ \/ buffersToWrite' = Append(buffers, current) /\ current' = <<>> /\ newBuffer1' = Null
         \/ buffersToWrite' = buffers /\ UNCHANGED <<current, newBuffer1>>
  BY DEF FinalSwap, ThreadMoves, OrderInv, BufferInv, BuffersAtHand
<1>2. /\ Unwritten = <<>> /\ Unwritten' = FlattenSeq(buffersToWrite')
      /\ FlattenSeq(buffers') = <<>>
  BY <1>1, FlattenSeqProperties DEF Unwritten
<1>3. FlattenSeq(buffersToWrite') \in Buffers /\ current' \in Buffers
      /\ FlattenSeq(buffersToWrite') \o current' = Held
  <2>1. CASE buffersToWrite' = Append(buffers, current) /\ current' = <<>>
    <3>1. FlattenSeq(buffersToWrite') = Held
      BY <2>1, LinesTyped, FlattenSeqProperties DEF Held
    <3> QED
      BY <2>1, <3>1, LinesTyped, EmptyBuffer, Regroup
  <2>2. CASE buffersToWrite' = buffers /\ UNCHANGED current
    BY <2>2, LinesTyped DEF Held
  <2> QED
    BY <1>1, <2>1, <2>2
<1>4. Held' = current'
  BY <1>2, <1>3, Regroup DEF Held
<1>5. (written \o Unwritten') \o current' = written \o Held
  <2>1. /\ written \in Buffers /\ Unwritten' \in Buffers /\ current' \in Buffers
        /\ Unwritten' \o current' = Held
    BY <1>2, <1>3, LinesTyped
  <2>2. (written \o Unwritten') \o current' = written \o (Unwritten' \o current')
    BY <2>1, Associate, Zenon
  <2> QED
    BY <2>1, <2>2
<1>6. LinesInOrder'
  BY <1>1, <1>2, <1>4, <1>5 DEF OrderInv, LinesInOrder
<1>7. BufferInv'
  BY FinalSwapStep DEF OrderInv
<1> QED
  BY <1>1, <1>6, <1>7 DEF OrderInv

\* Steps that leave the lines where they are.
LEMMA StillOrder ==
    ASSUME OrderInv, BufferInv', UNCHANGED <<shared, appended, written>>,
           {newBuffer1', newBuffer2'} \subseteq {<<>>, Null},
           pc \in {"write", "finalWrite"} \/ pc' \in {"write", "finalWrite"} => pc' = pc,
           buffersToWrite' = buffersToWrite \/ (buffersToWrite' = <<>> /\ pc = "recycle"),
           pc' \in {"none", "test", "lock", "asleep", "swap", "final"} =>
               (pc = "recycle" /\ buffersToWrite' = <<>>)
               \/ pc \in {"none", "test", "lock", "asleep", "swap", "final"}
    PROVE  OrderInv'
<1>1. UNCHANGED <<current, nextBuffer, buffers>>
  BY DEF shared
<1>2. Held' = Held /\ Unwritten' = Unwritten
  BY <1>1 DEF Held, Unwritten
<1> QED
  BY <1>1, <1>2 DEF OrderInv, LinesInOrder

LEMMA InitOrder == Init => OrderInv
<1> SUFFICES ASSUME Init PROVE OrderInv
  OBVIOUS
<1>1. FlattenSeq(buffers) = <<>> /\ Unwritten = <<>>
  BY FlattenSeqProperties DEF Init, Unwritten
<1>2. Held = <<>> /\ (written \o Unwritten) \o Held = <<>>
  BY <1>1, EmptyBuffer, Regroup DEF Init, Held
<1>3. LinesInOrder
  BY <1>2 DEF Init, LinesInOrder
<1>4. written \in Seq(Lines)
  BY EmptySeq DEF Init
<1> QED
  BY <1>3, <1>4, InitInv DEF OrderInv, Init

LEMMA NextOrder == OrderInv /\ [Next]_vars => OrderInv'
<1> SUFFICES ASSUME OrderInv, [Next]_vars PROVE OrderInv'
  OBVIOUS
<1>1. BufferInv'
  BY NextStep DEF OrderInv
<1>2. ASSUME NEW l \in Lines, AppendToCurrent(l) \/ AppendToNext(l) PROVE OrderInv'
  BY <1>2, AppendOrder
<1>3. CASE Swap \/ FinalSwap
  BY <1>3, SwapOrder, FinalSwapOrder
<1>4. CASE Write \/ FinalWrite
  <2>1. /\ pc \in {"write", "finalWrite"} /\ pc' \in {"recycle", "exit"}
        /\ written' = written \o FlattenSeq(buffersToWrite) /\ UNCHANGED <<shared, appended>>
        /\ {newBuffer1', newBuffer2'} \subseteq {newBuffer1, newBuffer2, Null}
    BY <1>4 DEF Write, FinalWrite, ThreadMoves, local
  <2>2. {newBuffer1', newBuffer2'} \subseteq {<<>>, Null}
    BY <2>1 DEF OrderInv
  <2> QED
    BY <1>1, <2>1, <2>2, WriteOrder
<1>5. CASE TestStop \/ FallAsleep \/ Timeout \/ Recycle \/ UseAfterDestruction \/ Start
           \/ NotifyThread \/ Join \/ (\E final \in BOOLEAN : RequestStop(final)) \/ UNCHANGED vars
  <2>1. UNCHANGED <<shared, appended, written>>
    BY <1>5 DEF TestStop, FallAsleep, Timeout, Recycle, UseAfterDestruction, Start,
       NotifyThread, Join, RequestStop, vars, ThreadMoves
  <2>2. {newBuffer1', newBuffer2'} \subseteq {newBuffer1, newBuffer2, <<>>}
    BY <1>5 DEF TestStop, FallAsleep, Timeout, Recycle, UseAfterDestruction, Start,
       NotifyThread, Join, RequestStop, vars, ThreadMoves, local
  <2>3. /\ pc \in {"write", "finalWrite"} \/ pc' \in {"write", "finalWrite"} => pc' = pc
        /\ buffersToWrite' = buffersToWrite \/ (buffersToWrite' = <<>> /\ pc = "recycle")
        /\ pc' \in {"none", "test", "lock", "asleep", "swap", "final"} =>
               (pc = "recycle" /\ buffersToWrite' = <<>>)
               \/ pc \in {"none", "test", "lock", "asleep", "swap", "final"}
    BY <1>5 DEF TestStop, FallAsleep, Timeout, Recycle, UseAfterDestruction, Start,
       NotifyThread, Join, RequestStop, vars, ThreadMoves, local
  <2>4. {newBuffer1', newBuffer2'} \subseteq {<<>>, Null}
    BY <2>2 DEF OrderInv
  <2> QED
    BY <1>1, <2>1, <2>3, <2>4, StillOrder
<1> QED
  BY <1>2, <1>3, <1>4, <1>5 DEF Next, ThreadStep

\* The file gets the lines in the order of their appends and none twice, and
\* what it does not have yet is in the buffers, in this order: for any number
\* and size of lines.
THEOREM LinesInOrderCorrect == Spec => []LinesInOrder
<1>1. OrderInv => LinesInOrder
  BY DEF OrderInv
<1> QED
  BY <1>1, InitOrder, NextOrder, PTL DEF Spec
=============================================================================
