---------------------------- MODULE LogFileProofs ----------------------------
(***************************************************************************)
(* Type correctness of LogFile, that it never leaks or reuses a file, and  *)
(* how late its rolls and flushes may be.                                  *)
(***************************************************************************)
EXTENDS LogFile, FiniteSetTheorems, SequenceTheorems, TLAPS

\* The lines of another day than the file's, and those a flush that is due for
\* line i is late for.
OtherDay == {i \in DOMAIN lines : PeriodOf(lines[i]) # startOfPeriod}
Later(i) == {j \in DOMAIN lines : lines[j] - lines[i] > FlushInterval}

\* What a clock that was never set back says of the lines.
ClockInv ==
    /\ startOfPeriod = PeriodOf(lastRoll)
    /\ ~setBack =>
          /\ lastRoll <= now /\ lastFlush <= now
          /\ \A i \in DOMAIN lines : lastRoll <= lines[i] /\ lines[i] <= now

SizeInv == lines # <<>> /\ Oversized(writtenBytes) => lines[Len(lines)] <= lastRoll

DayInv == ~setBack => Cardinality(OtherDay) <= count

FlushInv ==
    ~setBack =>
        \A i \in (flushed + 1)..Len(lines) : lastFlush <= lines[i] /\ Cardinality(Later(i)) <= count

FileInv == TypeOK /\ OneFileOpen /\ ClockInv /\ SizeInv /\ DayInv /\ FlushInv

-----------------------------------------------------------------------------
(* Days.                                                                   *)

LEMMA PeriodType == \A t \in Nat : PeriodOf(t) \in Nat
<1> TAKE t \in Nat
<1>1. Day \in Nat \ {0}
  BY LimitsAssumption
<1>2. t \div Day \in Nat
  BY <1>1
<1>3. \A q \in Nat : q * Day \in Nat
  BY <1>1
<1> QED
  BY <1>2, <1>3 DEF PeriodOf

\* A second between two of the same day is of that day.
LEMMA PeriodBetween ==
    ASSUME NEW a \in Nat, NEW b \in Nat, NEW t \in Nat, a <= t, t <= b, PeriodOf(a) = PeriodOf(b)
    PROVE  PeriodOf(t) = PeriodOf(a)
<1>1. Day \in Nat \ {0}
  BY LimitsAssumption
<1>2. /\ a \div Day \in Nat /\ b \div Day \in Nat /\ t \div Day \in Nat
  BY <1>1
<1>3. a \div Day <= t \div Day /\ t \div Day <= b \div Day
  BY <1>1
<1>4. \A p, q \in Nat : p * Day = q * Day => p = q
  BY <1>1
<1>5. a \div Day = b \div Day
  BY <1>2, <1>4 DEF PeriodOf
<1>6. t \div Day = a \div Day
  BY <1>2, <1>3, <1>5
<1> QED
  BY <1>6 DEF PeriodOf

-----------------------------------------------------------------------------
(* Lines.                                                                  *)

LEMMA LineTypes ==
    ASSUME TypeOK
    PROVE  /\ Len(lines) \in Nat /\ DOMAIN lines = 1..Len(lines)
           /\ now \in Nat \ {0} /\ 1..MaxTime \subseteq Nat
           /\ \A i \in DOMAIN lines : lines[i] \in Nat
<1>1. Len(lines) \in Nat /\ DOMAIN lines = 1..Len(lines)
  BY LenProperties DEF TypeOK
<1>2. \A i \in DOMAIN lines : lines[i] \in 1..MaxTime
  BY <1>1, ElementOfSeq DEF TypeOK
<1> QED
  BY <1>1, <1>2, BoundAssumption DEF TypeOK

\* A line is added.
LEMMA Appended ==
    ASSUME TypeOK, lines' = Append(lines, now)
    PROVE  /\ lines' \in Seq(1..MaxTime) /\ lines' # <<>>
           /\ Len(lines') = Len(lines) + 1 /\ DOMAIN lines' = 1..(Len(lines) + 1)
           /\ lines'[Len(lines) + 1] = now
           /\ \A i \in DOMAIN lines : lines'[i] = lines[i]
<1>1. lines \in Seq(1..MaxTime) /\ now \in 1..MaxTime
  BY DEF TypeOK
<1> QED
  BY <1>1, AppendProperties, LenProperties

LEMMA LateSetsAreFinite ==
    ASSUME TypeOK
    PROVE  /\ IsFiniteSet(OtherDay) /\ Cardinality(OtherDay) \in Nat
           /\ \A i : IsFiniteSet(Later(i)) /\ Cardinality(Later(i)) \in Nat
<1>1. IsFiniteSet(DOMAIN lines)
  BY LineTypes, FS_Interval
<1>2. OtherDay \subseteq DOMAIN lines /\ \A i : Later(i) \subseteq DOMAIN lines
  BY DEF OtherDay, Later
<1> QED
  BY <1>1, <1>2, FS_Subset, FS_CardinalityType

\* It adds at most itself to the lines of another day and to those a flush is
\* late for.
LEMMA LateSetsGrowByOne ==
    ASSUME TypeOK, lines' = Append(lines, now), startOfPeriod' = startOfPeriod
    PROVE  /\ Cardinality(OtherDay') \in 0..(Cardinality(OtherDay) + 1)
           /\ PeriodOf(now) = startOfPeriod => OtherDay' = OtherDay
           /\ \A i \in DOMAIN lines :
                 /\ Cardinality(Later(i)') \in 0..(Cardinality(Later(i)) + 1)
                 /\ now - lines[i] <= FlushInterval => Later(i)' = Later(i)
<1> DEFINE last == Len(lines) + 1
<1>1. DOMAIN lines = 1..Len(lines) /\ Len(lines) \in Nat
  BY LineTypes
<1>2. DOMAIN lines' = DOMAIN lines \cup {last} /\ last \notin DOMAIN lines
  BY <1>1, Appended
<1>3. /\ OtherDay' = OtherDay \cup {j \in {last} : PeriodOf(now) # startOfPeriod}
      /\ OtherDay' \subseteq OtherDay \cup {last}
  BY <1>2, Appended DEF OtherDay, PeriodOf
<1>4. ASSUME NEW i \in DOMAIN lines
      PROVE  /\ Later(i)' = Later(i) \cup {j \in {last} : now - lines[i] > FlushInterval}
             /\ Later(i)' \subseteq Later(i) \cup {last}
  BY <1>2, <1>4, Appended DEF Later
<1>5. \A S, T : IsFiniteSet(S) /\ T \subseteq S \cup {last} => Cardinality(T) \in 0..(Cardinality(S) + 1)
  <2> TAKE S, T
  <2> HAVE IsFiniteSet(S) /\ T \subseteq S \cup {last}
  <2>1. /\ IsFiniteSet(S \cup {last})
        /\ Cardinality(S \cup {last}) = Cardinality(S) \/ Cardinality(S \cup {last}) = Cardinality(S) + 1
    BY FS_AddElement
  <2>2. Cardinality(T) <= Cardinality(S \cup {last}) /\ Cardinality(T) \in Nat
    BY <2>1, FS_Subset, FS_CardinalityType
  <2>3. Cardinality(S) \in Nat
    BY FS_CardinalityType
  <2> QED
    BY <2>1, <2>2, <2>3
<1>6. ASSUME NEW i \in DOMAIN lines, now - lines[i] <= FlushInterval
      PROVE  Later(i)' = Later(i)
  <2>1. ~(now - lines[i] > FlushInterval)
    BY <1>6, LineTypes, LimitsAssumption
  <2> QED
    BY <1>4, <2>1
<1>7. ASSUME NEW i \in DOMAIN lines
      PROVE  Cardinality(Later(i)') \in 0..(Cardinality(Later(i)) + 1)
  BY <1>4, <1>5, LateSetsAreFinite
<1>8. Cardinality(OtherDay') \in 0..(Cardinality(OtherDay) + 1)
  BY <1>3, <1>5, LateSetsAreFinite
<1>9. PeriodOf(now) = startOfPeriod => OtherDay' = OtherDay
  BY <1>3
<1> QED
  BY <1>6, <1>7, <1>8, <1>9

-----------------------------------------------------------------------------
(* Steps.                                                                  *)

LEMMA InitInv == Init => FileInv
<1> SUFFICES ASSUME Init PROVE FileInv
  OBVIOUS
<1>1. lines = <<>> /\ Len(lines) = 0 /\ DOMAIN lines = {} /\ lines \in Seq(1..MaxTime)
  BY EmptySeq DEF Init
<1>2. PeriodOf(now) \in Nat /\ now \in 1..MaxTime /\ now # NoFile
  BY PeriodType, BoundAssumption DEF Init, NoFile
<1>3. TypeOK
  <2>1. now = 1 /\ fp \in {0, now} /\ fp \in Nat /\ open \subseteq 1..MaxTime
    BY BoundAssumption DEF Init, NoFile
  <2>2. /\ {startOfPeriod, lastRoll, lastFlush} \subseteq Nat
        /\ writtenBytes \in Nat /\ count \in 0..(CheckEveryN - 1) /\ flushed \in 0..Len(lines)
    BY <1>1, <1>2, <2>1, LimitsAssumption DEF Init
  <2>3. setBack \in BOOLEAN
    BY DEF Init
  <2> QED
    BY <1>1, <1>2, <2>1, <2>2, <2>3 DEF TypeOK
<1>4. OneFileOpen
  BY DEF Init, OneFileOpen
<1>5. OtherDay = {}
  BY <1>1 DEF OtherDay
<1>6. DayInv /\ FlushInv
  BY <1>1, <1>5, FS_EmptySet DEF Init, DayInv, FlushInv
<1>7. ClockInv /\ SizeInv
  BY <1>1, <1>2 DEF Init, ClockInv, SizeInv
<1> QED
  BY <1>3, <1>4, <1>6, <1>7 DEF FileInv

\* A roll that is not refused leaves an empty file, or none.
LEMMA RolledStep ==
    ASSUME FileInv, NEW bytes \in Nat, NEW content, NEW opens \in BOOLEAN,
           now > lastRoll, Roll(bytes, content, opens),
           count' \in 0..(CheckEveryN - 1), UNCHANGED <<now, setBack>>
    PROVE  FileInv'
<1>1. /\ lastRoll' = now /\ lastFlush' = now /\ startOfPeriod' = PeriodOf(now)
      /\ open' = (open \ {fp}) \cup (IF opens THEN {now} ELSE {})
      /\ fp' = IF opens THEN now ELSE NoFile
      /\ writtenBytes' = IF opens THEN 0 ELSE bytes
      /\ lines' = <<>> /\ flushed' = 0
  BY DEF Roll
<1>2. Len(lines') = 0 /\ DOMAIN lines' = {} /\ lines' \in Seq(1..MaxTime)
  BY <1>1, EmptySeq
<1>3. PeriodOf(now) \in Nat /\ now \in 1..MaxTime /\ now \in Nat \ {0}
  BY PeriodType, LineTypes DEF FileInv, TypeOK
<1>4. open \ {fp} = {}
  BY DEF FileInv, OneFileOpen
<1>5. TypeOK'
  BY <1>1, <1>2, <1>3, <1>4 DEF FileInv, TypeOK, NoFile
<1>6. OneFileOpen'
  BY <1>1, <1>3, <1>4 DEF OneFileOpen, NoFile
<1>7. OtherDay' = {}
  BY <1>2 DEF OtherDay
<1>8. DayInv' /\ FlushInv'
  <2>1. Cardinality(OtherDay') = 0 /\ count' \in Nat
    BY <1>7, FS_EmptySet, LimitsAssumption
  <2> QED
    BY <1>1, <1>2, <2>1 DEF DayInv, FlushInv
<1>9. ClockInv' /\ SizeInv'
  BY <1>1, <1>2, <1>3 DEF ClockInv, SizeInv, PeriodOf
<1> QED
  BY <1>5, <1>6, <1>8, <1>9 DEF FileInv

\* What every append that does not roll does: the line and its bytes are there.
LEMMA AppendedStep ==
    ASSUME FileInv, NEW len \in Nat,
           lines' = Append(lines, now), writtenBytes' = writtenBytes + len,
           UNCHANGED <<fp, startOfPeriod, lastRoll, open, now, setBack>>,
           count' \in 0..(CheckEveryN - 1), lastFlush' \in {lastFlush, now}, flushed' \in 0..Len(lines')
    PROVE  TypeOK' /\ OneFileOpen' /\ ClockInv'
<1>1. TypeOK
  BY DEF FileInv
<1>2. TypeOK'
  <2>1. lines' \in Seq(1..MaxTime)
    BY <1>1, Appended
  <2>2. writtenBytes' \in Nat
    BY <1>1 DEF TypeOK
  <2>3. lastFlush' \in Nat
    BY <1>1, LineTypes DEF TypeOK
  <2> QED
    BY <1>1, <2>1, <2>2, <2>3 DEF TypeOK
<1>3. OneFileOpen'
  BY DEF FileInv, OneFileOpen
<1>4. ClockInv'
  <2>1. DOMAIN lines = 1..Len(lines) /\ Len(lines) \in Nat /\ now \in Nat
    BY <1>1, LineTypes
  <2>2. ASSUME ~setBack, NEW i \in DOMAIN lines' PROVE lastRoll <= lines'[i] /\ lines'[i] <= now
    <3>1. lastRoll <= now
      BY <2>2 DEF FileInv, ClockInv
    <3>2. CASE i \in DOMAIN lines
      BY <1>1, <2>2, <3>2, Appended DEF FileInv, ClockInv
    <3>3. CASE i = Len(lines) + 1
      BY <1>1, <2>1, <3>1, <3>3, Appended
    <3> QED
      BY <1>1, <2>1, <3>2, <3>3, Appended
  <2>3. ~setBack => lastFlush' <= now
    BY <2>1 DEF FileInv, ClockInv
  <2> QED
    BY <2>2, <2>3 DEF FileInv, ClockInv, PeriodOf
<1> QED
  BY <1>2, <1>3, <1>4

\* With the clock never set back a refused roll is one in the second of the last.
LEMMA RefusedRoll ==
    ASSUME FileInv, ~(now > lastRoll), ~setBack
    PROVE  /\ now = lastRoll /\ PeriodOf(now) = startOfPeriod
           /\ \A i \in DOMAIN lines : lines[i] = now
<1>1. now \in Nat /\ lastRoll \in Nat
  BY LineTypes DEF FileInv, TypeOK
<1>2. now = lastRoll
  BY <1>1 DEF FileInv, ClockInv
<1>3. \A i \in DOMAIN lines : lines[i] = now
  BY <1>1, <1>2, LineTypes DEF FileInv, ClockInv
<1> QED
  BY <1>2, <1>3 DEF FileInv, ClockInv

LEMMA LengthIsNat == \A len \in Lengths : len \in Nat
BY LimitsAssumption

LEMMA OversizedStep ==
    ASSUME FileInv, NEW len \in Lengths, NEW opens \in BOOLEAN, AppendOversized(len, opens)
    PROVE  FileInv'
<1>1. TypeOK /\ len \in Nat /\ UNCHANGED <<count, now, setBack>>
  BY LengthIsNat DEF FileInv, AppendOversized
<1>2. Roll(writtenBytes + len, Append(lines, now), opens)
  BY DEF AppendOversized
<1>3. CASE now > lastRoll
  <2>1. writtenBytes + len \in Nat /\ count' \in 0..(CheckEveryN - 1)
    BY <1>1 DEF TypeOK
  <2> QED
    BY <1>1, <1>2, <1>3, <2>1, RolledStep
<1>4. CASE ~(now > lastRoll)
  <2>1. /\ lines' = Append(lines, now) /\ writtenBytes' = writtenBytes + len
        /\ UNCHANGED <<fp, startOfPeriod, lastRoll, lastFlush, open, flushed>>
    BY <1>2, <1>4 DEF Roll, fileVars
  <2>2. /\ Len(lines') = Len(lines) + 1 /\ lines'[Len(lines')] = now
        /\ DOMAIN lines = 1..Len(lines) /\ Len(lines) \in Nat
        /\ \A i \in DOMAIN lines : lines'[i] = lines[i]
    BY <1>1, <2>1, Appended, LineTypes
  <2>3. TypeOK' /\ OneFileOpen' /\ ClockInv'
    <3>1. count' \in 0..(CheckEveryN - 1) /\ lastFlush' \in {lastFlush, now} /\ flushed' \in 0..Len(lines')
      BY <1>1, <2>1, <2>2 DEF TypeOK
    <3> QED
      BY <1>1, <2>1, <3>1, AppendedStep
  <2>4. SizeInv'
    <3>1. now \in Nat /\ lastRoll \in Nat
      BY <1>1, LineTypes DEF TypeOK
    <3> QED
      BY <1>4, <2>1, <2>2, <3>1 DEF SizeInv
  <2>5. DayInv'
    BY <1>1, <1>4, <2>1, RefusedRoll, LateSetsGrowByOne DEF FileInv, DayInv
  <2>6. ASSUME ~setBack, NEW i \in (flushed + 1)..Len(lines')
        PROVE  lastFlush <= lines'[i] /\ Cardinality(Later(i)') <= count
    <3>1. /\ now = lastRoll /\ now \in Nat /\ FlushInterval \in Nat
          /\ \A j \in DOMAIN lines : lines[j] = now
      BY <1>1, <1>4, <2>6, RefusedRoll, LineTypes, LimitsAssumption
    <3>2. \A j \in DOMAIN lines' : lines'[j] = now
      BY <1>1, <2>1, <2>2, <3>1, Appended
    <3>3. i \in DOMAIN lines'
      BY <1>1, <2>1, <2>2, Appended DEF TypeOK
    <3>4. Later(i)' = {}
      BY <3>1, <3>2, <3>3 DEF Later
    <3>5. Cardinality(Later(i)') = 0 /\ count \in Nat
      BY <1>1, <3>4, FS_EmptySet, LimitsAssumption DEF TypeOK
    <3>6. lastFlush <= now
      BY <1>1, <2>6 DEF FileInv, ClockInv
    <3> QED
      BY <3>2, <3>3, <3>5, <3>6
  <2>7. FlushInv'
    BY <1>1, <2>1, <2>6 DEF FlushInv
  <2> QED
    BY <2>3, <2>4, <2>5, <2>7 DEF FileInv
<1> QED
  BY <1>3, <1>4

\* An append that neither rolls nor flushes counts its line.
LEMMA CountedStep ==
    ASSUME FileInv, NEW len \in Lengths, AppendUnchecked(len)
    PROVE  FileInv'
<1>1. /\ TypeOK /\ len \in Nat /\ count' = count + 1
      /\ ~Oversized(writtenBytes + len) /\ count + 1 < CheckEveryN
      /\ writtenBytes' = writtenBytes + len /\ lines' = Append(lines, now)
      /\ UNCHANGED <<fp, startOfPeriod, lastRoll, lastFlush, open, flushed, now, setBack>>
  BY LengthIsNat DEF FileInv, AppendUnchecked
<1>2. /\ Len(lines') = Len(lines) + 1 /\ lines'[Len(lines) + 1] = now
      /\ DOMAIN lines = 1..Len(lines) /\ Len(lines) \in Nat /\ now \in Nat
      /\ \A i \in DOMAIN lines : lines'[i] = lines[i]
  BY <1>1, Appended, LineTypes
<1>3. count \in Nat
  BY <1>1, LimitsAssumption DEF TypeOK
<1>4. TypeOK' /\ OneFileOpen' /\ ClockInv'
  <2>1. count' \in 0..(CheckEveryN - 1) /\ lastFlush' \in {lastFlush, now} /\ flushed' \in 0..Len(lines')
    BY <1>1, <1>2, <1>3, LimitsAssumption DEF TypeOK
  <2> QED
    BY <1>1, <2>1, AppendedStep
<1>5. SizeInv'
  BY <1>1 DEF SizeInv, Oversized
<1>6. DayInv'
  BY <1>1, <1>3, LateSetsGrowByOne, LateSetsAreFinite DEF FileInv, DayInv
<1>7. ASSUME ~setBack, NEW i \in (flushed + 1)..Len(lines')
      PROVE  lastFlush <= lines'[i] /\ Cardinality(Later(i)') <= count'
  <2>1. CASE i \in DOMAIN lines
    <3>1. i \in (flushed + 1)..Len(lines)
      BY <1>1, <1>2, <1>7, <2>1 DEF TypeOK
    <3>2. lastFlush <= lines[i] /\ Cardinality(Later(i)) <= count
      BY <1>7, <3>1 DEF FileInv, FlushInv
    <3>3. Cardinality(Later(i)') \in 0..(Cardinality(Later(i)) + 1) /\ Cardinality(Later(i)) \in Nat
      BY <1>1, <2>1, LateSetsGrowByOne, LateSetsAreFinite
    <3> QED
      BY <1>1, <1>2, <1>3, <2>1, <3>2, <3>3
  <2>2. CASE i = Len(lines) + 1
    <3>1. \A j \in DOMAIN lines' : lines'[j] <= now /\ lines'[j] \in Nat
      BY <1>1, <1>2, <1>4, <1>7, Appended, LineTypes DEF ClockInv
    <3>2. Later(i)' = {}
      BY <1>2, <2>2, <3>1, LimitsAssumption DEF Later
    <3>3. lastFlush <= now
      BY <1>7 DEF FileInv, ClockInv
    <3>4. Cardinality(Later(i)') = 0
      BY <3>2, FS_EmptySet
    <3>5. count' \in Nat /\ lines'[i] = now
      BY <1>1, <1>2, <1>3, <2>2
    <3> QED
      BY <3>3, <3>4, <3>5
  <2> QED
    BY <1>1, <1>2, <1>7, <2>1, <2>2 DEF TypeOK
<1>8. FlushInv'
  BY <1>1, <1>7 DEF FlushInv
<1> QED
  BY <1>4, <1>5, <1>6, <1>8 DEF FileInv

LEMMA NextDayStep ==
    ASSUME FileInv, NEW len \in Lengths, NEW opens \in BOOLEAN, AppendNextDay(len, opens)
    PROVE  FileInv'
<1>1. /\ TypeOK /\ len \in Nat /\ count' = 0 /\ UNCHANGED <<now, setBack>>
      /\ ~Oversized(writtenBytes + len) /\ PeriodOf(now) # startOfPeriod
      /\ Roll(writtenBytes + len, Append(lines, now), opens)
  BY LengthIsNat DEF FileInv, AppendNextDay, CheckedAppend
<1>2. writtenBytes + len \in Nat /\ count' \in 0..(CheckEveryN - 1)
  BY <1>1, LimitsAssumption DEF TypeOK
<1>3. CASE now > lastRoll
  BY <1>1, <1>2, <1>3, RolledStep
<1>4. CASE ~(now > lastRoll)
  <2>1. setBack
    BY <1>1, <1>4, RefusedRoll
  <2>2. /\ lines' = Append(lines, now) /\ writtenBytes' = writtenBytes + len
        /\ UNCHANGED <<fp, startOfPeriod, lastRoll, lastFlush, open, flushed>>
    BY <1>1, <1>4 DEF Roll
  <2>3. flushed' \in 0..Len(lines')
    BY <1>1, <2>2, Appended, LineTypes DEF TypeOK
  <2>4. TypeOK' /\ OneFileOpen' /\ ClockInv'
    BY <1>1, <1>2, <2>2, <2>3, AppendedStep
  <2>5. SizeInv' /\ DayInv' /\ FlushInv'
    BY <1>1, <2>1, <2>2 DEF SizeInv, Oversized, DayInv, FlushInv
  <2> QED
    BY <2>4, <2>5 DEF FileInv
<1> QED
  BY <1>3, <1>4

\* A check that finds no other day and no flush due finds no late line either.
LEMMA SameDayStep ==
    ASSUME FileInv, NEW len \in Lengths, AppendSameDay(len)
    PROVE  FileInv'
<1>1. /\ TypeOK /\ len \in Nat /\ count' = 0 /\ UNCHANGED <<now, setBack>>
      /\ ~Oversized(writtenBytes + len) /\ PeriodOf(now) = startOfPeriod
      /\ writtenBytes' = writtenBytes + len /\ lines' = Append(lines, now)
      /\ UNCHANGED <<fp, startOfPeriod, lastRoll, open>>
  BY LengthIsNat DEF FileInv, AppendSameDay, CheckedAppend
<1>2. /\ Len(lines') = Len(lines) + 1 /\ lines'[Len(lines) + 1] = now
      /\ DOMAIN lines = 1..Len(lines) /\ Len(lines) \in Nat /\ now \in Nat
      /\ DOMAIN lines' = 1..(Len(lines) + 1)
      /\ \A i \in DOMAIN lines : lines'[i] = lines[i]
  BY <1>1, Appended, LineTypes
<1>3. \/ lastFlush' = now /\ flushed' = Len(lines')
      \/ ~(now - lastFlush > FlushInterval) /\ UNCHANGED <<lastFlush, flushed>>
  BY DEF AppendSameDay
<1>4. TypeOK' /\ OneFileOpen' /\ ClockInv'
  <2>1. count' \in 0..(CheckEveryN - 1) /\ lastFlush' \in {lastFlush, now}
        /\ flushed' \in 0..Len(lines')
    BY <1>1, <1>2, <1>3, LimitsAssumption DEF TypeOK
  <2> QED
    BY <1>1, <2>1, AppendedStep
<1>5. SizeInv'
  BY <1>1 DEF SizeInv, Oversized
<1>6. ASSUME ~setBack, NEW i \in DOMAIN lines'
      PROVE  /\ lastRoll <= lines'[i] /\ lines'[i] <= now
             /\ lastRoll \in Nat /\ lines'[i] \in Nat
  BY <1>1, <1>2, <1>4, <1>6, LineTypes DEF ClockInv, TypeOK
<1>7. DayInv'
  <2> SUFFICES ASSUME ~setBack PROVE Cardinality(OtherDay') <= 0
    BY <1>1 DEF DayInv
  <2>1. ASSUME NEW i \in DOMAIN lines' PROVE PeriodOf(lines'[i]) = startOfPeriod
    <3>1. PeriodOf(lastRoll) = PeriodOf(now) /\ PeriodOf(lastRoll) = startOfPeriod
      BY <1>1 DEF FileInv, ClockInv
    <3> QED
      BY <1>2, <1>6, <3>1, PeriodBetween
  <2>2. OtherDay' = {}
    BY <1>1, <2>1 DEF OtherDay, PeriodOf
  <2>3. Cardinality(OtherDay') = 0
    BY <2>2, FS_EmptySet
  <2> QED
    BY <2>3
<1>8. ASSUME ~setBack, NEW i \in (flushed' + 1)..Len(lines')
      PROVE  lastFlush' <= lines'[i] /\ Cardinality(Later(i)') <= count'
  <2>1. ~(now - lastFlush > FlushInterval) /\ UNCHANGED <<lastFlush, flushed>>
    BY <1>2, <1>3, <1>8
  <2>2. i \in DOMAIN lines' /\ lastFlush \in Nat /\ lastFlush <= now
    BY <1>1, <1>2, <1>8, <2>1 DEF TypeOK, FileInv, ClockInv
  <2>3. lastFlush <= lines'[i]
    <3>1. CASE i \in DOMAIN lines
      <4>1. i \in (flushed + 1)..Len(lines)
        BY <1>1, <1>2, <1>8, <2>1, <3>1 DEF TypeOK
      <4> QED
        BY <1>2, <1>8, <3>1, <4>1 DEF FileInv, FlushInv
    <3>2. CASE i = Len(lines) + 1
      BY <1>2, <2>2, <3>2
    <3> QED
      BY <1>2, <2>2, <3>1, <3>2
  <2>4. ASSUME NEW j \in DOMAIN lines' PROVE ~(lines'[j] - lines'[i] > FlushInterval)
    <3>1. lines'[j] <= now /\ lines'[j] \in Nat /\ lines'[i] \in Nat
      BY <1>6, <1>8, <2>2
    <3> QED
      BY <1>2, <2>1, <2>2, <2>3, <3>1, LimitsAssumption
  <2>5. Later(i)' = {}
    BY <2>4 DEF Later
  <2>6. Cardinality(Later(i)') <= count'
    <3>1. Cardinality(Later(i)') = 0
      BY <2>5, FS_EmptySet
    <3> QED
      BY <1>1, <3>1
  <2>7. lastFlush' <= lines'[i]
    BY <2>1, <2>3
  <2> QED
    BY <2>6, <2>7
<1>9. FlushInv'
  BY <1>1, <1>8 DEF FlushInv
<1> QED
  BY <1>4, <1>5, <1>7, <1>9 DEF FileInv

LEMMA NextInv == FileInv /\ [Next]_vars => FileInv'
<1> SUFFICES ASSUME FileInv, [Next]_vars PROVE FileInv'
  OBVIOUS
<1> USE DEF FileInv
<1>1. ASSUME NEW len \in Lengths, AppendUnchecked(len) \/ AppendSameDay(len) PROVE FileInv'
  BY <1>1, CountedStep, SameDayStep
<1>2. ASSUME NEW len \in Lengths, NEW opens \in BOOLEAN,
             AppendOversized(len, opens) \/ AppendNextDay(len, opens)
      PROVE  FileInv'
  BY <1>2, OversizedStep, NextDayStep
<1>3. ASSUME NEW opens \in BOOLEAN, RollFile(opens) PROVE FileInv'
  <2>1. CASE now > lastRoll
    BY <1>3, <2>1, RolledStep DEF RollFile, TypeOK
  <2>2. CASE ~(now > lastRoll)
    <3>1. UNCHANGED vars
      BY <1>3, <2>2 DEF RollFile, Roll, vars, fileVars
    <3> QED
      BY <3>1 DEF vars, fileVars, TypeOK, OneFileOpen, ClockInv, SizeInv, DayInv, FlushInv,
                  OtherDay, Later, PeriodOf, Oversized
  <2> QED
    BY <2>1, <2>2
<1>4. CASE Flush
  <2>1. Len(lines) \in Nat
    BY LineTypes
  <2> QED
    BY <1>4, <2>1 DEF Flush, TypeOK, OneFileOpen, ClockInv, SizeInv, DayInv, FlushInv,
                      OtherDay, Later, PeriodOf, Oversized
<1>5. CASE Tick \/ SetBack
  <2>1. UNCHANGED <<fileVars, count>>
    BY <1>5 DEF Tick, SetBack
  <2>2. now' \in 1..MaxTime
    BY <1>5, BoundAssumption DEF Tick, SetBack, TypeOK
  <2>3. setBack' \in BOOLEAN /\ (~setBack' => ~setBack /\ now' = now + 1)
    BY <1>5, Zenon DEF Tick, SetBack, TypeOK
  <2>4. ClockInv'
    BY <2>1, <2>3, LineTypes DEF ClockInv, fileVars, PeriodOf, TypeOK
  <2> QED
    BY <2>1, <2>2, <2>3, <2>4 DEF fileVars, TypeOK, OneFileOpen, SizeInv, DayInv, FlushInv,
                      OtherDay, Later, PeriodOf, Oversized
<1>6. CASE UNCHANGED vars
  BY <1>6 DEF vars, fileVars, TypeOK, OneFileOpen, ClockInv, SizeInv, DayInv, FlushInv,
              OtherDay, Later, PeriodOf, Oversized
<1> QED
  BY <1>1, <1>2, <1>3, <1>4, <1>5, <1>6 DEF Next

THEOREM InvCorrect == Spec => []FileInv
<1> QED
  BY InitInv, NextInv, PTL DEF Spec

-----------------------------------------------------------------------------

\* Type correctness of LogFile (LogFile.cpp) for any limits: in particular
\* count_ stays below checkEveryN_.
THEOREM TypeCorrect == Spec => []TypeOK
<1>1. FileInv => TypeOK
  BY DEF FileInv
<1> QED
  BY <1>1, InvCorrect, PTL

\* rollFile (LogFile.cpp:77) closes the old file once, and fp_ never points to
\* a file that is closed.
THEOREM OneFileOpenCorrect == Spec => []OneFileOpen
<1>1. FileInv => OneFileOpen
  BY DEF FileInv
<1> QED
  BY <1>1, InvCorrect, PTL

\* However lines, flushes and rolls fall in time, append_unlocked
\* (LogFile.cpp:105) rolls an oversized file as soon as the names allow, and
\* leaves a file at the end of its day within checkEveryN_ lines.
THEOREM RolledInTimeCorrect == Spec => []RolledInTime
<1>1. FileInv => RolledInTime
  <2> SUFFICES ASSUME FileInv PROVE RolledInTime
    OBVIOUS
  <2>1. count \in 0..(CheckEveryN - 1) /\ Cardinality(OtherDay) \in Nat
    BY LateSetsAreFinite DEF FileInv, TypeOK
  <2>2. ~setBack => Cardinality(OtherDay) < CheckEveryN
    BY <2>1, LimitsAssumption DEF FileInv, DayInv
  <2> QED
    BY <2>2 DEF FileInv, SizeInv, OtherDay, RolledInTime
<1> QED
  BY <1>1, InvCorrect, PTL

\* The flush that append_unlocked looks for every checkEveryN_ lines
\* (LogFile.cpp:122) is never put off by another call.
THEOREM FlushedInTimeCorrect == Spec => []FlushedInTime
<1>1. FileInv => FlushedInTime
  <2> SUFFICES ASSUME FileInv, ~setBack, NEW i \in (flushed + 1)..Len(lines)
               PROVE  Cardinality(Later(i)) < CheckEveryN
    BY DEF FlushedInTime, Later
  <2>1. count \in 0..(CheckEveryN - 1) /\ Cardinality(Later(i)) \in Nat
    BY LateSetsAreFinite DEF FileInv, TypeOK
  <2> QED
    BY <2>1, LimitsAssumption DEF FileInv, FlushInv
<1> QED
  BY <1>1, InvCorrect, PTL
=============================================================================
