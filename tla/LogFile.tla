------------------------------- MODULE LogFile -------------------------------
(***************************************************************************)
(* LogFile (src/muduox/base/logging/LogFile.cpp): the file AsyncLogging's  *)
(* thread appends to, rolled by size and by day, flushed now and then.     *)
(*                                                                         *)
(* Calls do not overlap: append and flush hold mutex_ or have one caller.  *)
(* A file is named by the second in which it was opened, a line by the     *)
(* second of its append.  The clock is the wall clock, which may be set    *)
(* back; it does not tick within a call.  The megabyte of stdio buffer     *)
(* never fills here: when it does, lines are only flushed earlier.         *)
(***************************************************************************)
EXTENDS Integers, Sequences, FiniteSets

CONSTANTS
    RollSize,       \* rollSize_, 0 for no limit
    FlushInterval,  \* flushInterval_
    CheckEveryN,    \* checkEveryN_
    Day,            \* kRollPerSeconds
    Lengths,        \* lengths of lines
    MaxTime,        \* bound: the clock
    MaxLines        \* bound: lines in one file

ASSUME LimitsAssumption ==
    /\ RollSize \in Nat /\ FlushInterval \in Nat
    /\ CheckEveryN \in Nat \ {0} /\ Day \in Nat \ {0} /\ Lengths \subseteq Nat \ {0}
ASSUME BoundAssumption == MaxTime \in Nat \ {0} /\ MaxLines \in Nat

VARIABLES
    fp,             \* fp_: the file, or NoFile
    writtenBytes,   \* writtenBytes_
    count,          \* count_
    startOfPeriod, lastRoll, lastFlush,  \* the members of these names
    open,           \* the files that are open
    now,            \* time(nullptr)
    setBack,        \* history: the clock was set back
    lines,          \* history: the lines written to fp, oldest first
    flushed         \* history: how many of them have left the stdio buffer

fileVars == <<fp, writtenBytes, startOfPeriod, lastRoll, lastFlush, open, lines, flushed>>
vars == <<fileVars, count, now, setBack>>

NoFile == 0

TypeOK ==
    /\ fp \in Nat /\ writtenBytes \in Nat
    /\ count \in 0..(CheckEveryN - 1)
    /\ {startOfPeriod, lastRoll, lastFlush} \subseteq Nat
    /\ open \subseteq 1..MaxTime /\ now \in 1..MaxTime /\ setBack \in BOOLEAN
    /\ lines \in Seq(1..MaxTime) /\ flushed \in 0..Len(lines)

PeriodOf(t) == (t \div Day) * Day

-----------------------------------------------------------------------------

\* Mutant of Roll: fp_ keeps the closed file when fopen fails.
RollKeepingClosed(bytes, content, opens) ==
    IF now > lastRoll
    THEN /\ lastRoll' = now /\ lastFlush' = now /\ startOfPeriod' = PeriodOf(now)
         /\ open' = (open \ {fp}) \cup (IF opens THEN {now} ELSE {})
         /\ fp' = IF opens THEN now ELSE fp
         /\ writtenBytes' = IF opens THEN 0 ELSE bytes
         /\ lines' = <<>> /\ flushed' = 0
    ELSE /\ writtenBytes' = bytes /\ lines' = content
         /\ UNCHANGED <<fp, startOfPeriod, lastRoll, lastFlush, open, flushed>>

\* rollFile, when fp_ has got content and bytes; fopen may fail.  It refuses to
\* roll twice in a second, for the sake of the names.
Roll(bytes, content, opens) ==
    IF now > lastRoll
    THEN /\ lastRoll' = now /\ lastFlush' = now /\ startOfPeriod' = PeriodOf(now)
         /\ open' = (open \ {fp}) \cup (IF opens THEN {now} ELSE {})
         /\ fp' = IF opens THEN now ELSE NoFile
         /\ writtenBytes' = IF opens THEN 0 ELSE bytes
         /\ lines' = <<>> /\ flushed' = 0
    ELSE /\ writtenBytes' = bytes /\ lines' = content
         /\ UNCHANGED <<fp, startOfPeriod, lastRoll, lastFlush, open, flushed>>

\* The constructor rolls for the first time.
Init ==
    /\ now = 1 /\ setBack = FALSE
    /\ fp \in {NoFile, now} /\ open = {fp} \ {NoFile}
    /\ writtenBytes = 0 /\ count = 0 /\ lines = <<>> /\ flushed = 0
    /\ lastRoll = now /\ lastFlush = now /\ startOfPeriod = PeriodOf(now)

\* Without a file append returns: the line is dropped, and nothing changes.
Appending == fp # NoFile /\ Len(lines) < MaxLines

Oversized(bytes) == RollSize > 0 /\ bytes > RollSize

\* Mutant of AppendOversized: the size is looked at only every checkEveryN_ lines.
AppendOversizedWhenChecked(len, opens) ==
    /\ Appending
    /\ Oversized(writtenBytes + len)
    /\ IF count + 1 < CheckEveryN
       THEN /\ writtenBytes' = writtenBytes + len /\ lines' = Append(lines, now)
            /\ count' = count + 1
            /\ UNCHANGED <<fp, startOfPeriod, lastRoll, lastFlush, open, flushed>>
       ELSE Roll(writtenBytes + len, Append(lines, now), opens) /\ count' = 0
    /\ UNCHANGED <<now, setBack>>

\* append_unlocked: the line makes the file too long.
AppendOversized(len, opens) ==
    /\ Appending
    /\ Oversized(writtenBytes + len)
    /\ Roll(writtenBytes + len, Append(lines, now), opens)
    /\ UNCHANGED <<count, now, setBack>>

\* It does not, and no check is due.
AppendUnchecked(len) ==
    /\ Appending
    /\ ~Oversized(writtenBytes + len) /\ count + 1 < CheckEveryN
    /\ count' = count + 1
    /\ writtenBytes' = writtenBytes + len /\ lines' = Append(lines, now)
    /\ UNCHANGED <<fp, startOfPeriod, lastRoll, lastFlush, open, flushed, now, setBack>>

\* Mutant of CheckedAppend: count_ is not reset.
CheckedAppendKeepingCount(len) ==
    /\ Appending
    /\ ~Oversized(writtenBytes + len) /\ count + 1 >= CheckEveryN
    /\ count' = count + 1
    /\ UNCHANGED <<now, setBack>>

CheckedAppend(len) ==
    /\ Appending
    /\ ~Oversized(writtenBytes + len) /\ count + 1 >= CheckEveryN
    /\ count' = 0
    /\ UNCHANGED <<now, setBack>>

\* A check finds another day.
AppendNextDay(len, opens) ==
    /\ CheckedAppend(len)
    /\ PeriodOf(now) # startOfPeriod
    /\ Roll(writtenBytes + len, Append(lines, now), opens)

\* Mutant of AppendSameDay: lastFlush_ is set by every check.
AppendSameDayTouching(len) ==
    /\ CheckedAppend(len)
    /\ PeriodOf(now) = startOfPeriod
    /\ writtenBytes' = writtenBytes + len /\ lines' = Append(lines, now)
    /\ lastFlush' = now
    /\ flushed' = IF now - lastFlush > FlushInterval THEN Len(lines') ELSE flushed
    /\ UNCHANGED <<fp, startOfPeriod, lastRoll, open>>

\* A check finds the same day, and flushes when it is time.
AppendSameDay(len) ==
    /\ CheckedAppend(len)
    /\ PeriodOf(now) = startOfPeriod
    /\ writtenBytes' = writtenBytes + len /\ lines' = Append(lines, now)
    /\ IF now - lastFlush > FlushInterval
       THEN lastFlush' = now /\ flushed' = Len(lines')
       ELSE UNCHANGED <<lastFlush, flushed>>
    /\ UNCHANGED <<fp, startOfPeriod, lastRoll, open>>

\* flush, by the owner: lastFlush_ stays.
Flush ==
    /\ fp # NoFile
    /\ flushed' = Len(lines)
    /\ UNCHANGED <<fp, writtenBytes, startOfPeriod, lastRoll, lastFlush, open, lines, count, now,
                   setBack>>

\* rollFile, by the owner.
RollFile(opens) == Roll(writtenBytes, lines, opens) /\ UNCHANGED <<count, now, setBack>>

-----------------------------------------------------------------------------
(* The clock.                                                              *)

Tick ==
    /\ now < MaxTime
    /\ now' = now + 1
    /\ UNCHANGED <<fileVars, count, setBack>>

\* Once (bound).
SetBack ==
    /\ now > 1 /\ ~setBack
    /\ now' = now - 1 /\ setBack' = TRUE
    /\ UNCHANGED <<fileVars, count>>

Next ==
    \/ \E len \in Lengths :
          \/ AppendUnchecked(len) \/ AppendSameDay(len)
          \/ \E opens \in BOOLEAN : AppendOversized(len, opens) \/ AppendNextDay(len, opens)
    \/ \E opens \in BOOLEAN : RollFile(opens)
    \/ Flush
    \/ Tick \/ SetBack

Spec == Init /\ [][Next]_vars

-----------------------------------------------------------------------------
(* Properties.                                                             *)

\* fp_ is null or a file that is open, and no other file is: a roll closes the
\* old file once, also when the new one cannot be opened or the roll is refused.
OneFileOpen == open = {fp} \ {NoFile}

\* A file is over the limit only by what was appended in the second of the last
\* roll, or before it by a clock that was set back; and it holds fewer than
\* checkEveryN_ lines of a later day.
RolledInTime ==
    fp # NoFile /\ lines # <<>> =>
        /\ Oversized(writtenBytes) => lines[Len(lines)] <= lastRoll
        /\ ~setBack =>
              Cardinality({i \in DOMAIN lines : PeriodOf(lines[i]) # startOfPeriod}) < CheckEveryN

\* The flush append_unlocked does make: it needs both flushInterval_ to have
\* passed and checkEveryN_ lines.  Of the lines appended more than flushInterval_
\* after one that is still in the stdio buffer there are fewer than checkEveryN_:
\* rolls and flushes, due or called for, never put a due flush off.  This bounds
\* lines, not seconds: without further lines the buffer is not looked at.
FlushedInTime ==
    ~setBack =>
        \A i \in (flushed + 1)..Len(lines) :
            Cardinality({j \in DOMAIN lines : lines[j] - lines[i] > FlushInterval}) < CheckEveryN

\* The flush LogFile.h:19 promises, "every flushInterval seconds or checkEveryN
\* writes": no more than checkEveryN_ writes wait in the stdio buffer.  A check
\* that comes within flushInterval_ of the last flush leaves them there.
FlushedAsDocumented == Len(lines) - flushed <= CheckEveryN
=============================================================================
