-------------------------------- MODULE LogFile --------------------------------
(***************************************************************************)
(* log_file: lines are appended to a file; from time to time a new file is *)
(* begun (rolled), or the lines are flushed.  append_file adds to stdio's  *)
(* buffer: what was not flushed, nor closed with its file, is lost when    *)
(* the process dies.                                                       *)
(*                                                                         *)
(* Each call is one step, as mutex_ makes it, or the only thread that uses *)
(* the file.  Lines are numbered; since a file holds consecutive lines, it *)
(* is known by its name and its first line.  The seconds of the name are   *)
(* the name.  Lengths are in a unit of which roll_size_ has RollSize.      *)
(***************************************************************************)
EXTENDS Integers, Sequences, FiniteSets

CONSTANTS
  RollSize,        \* roll_size_
  FlushInterval,   \* flush_interval_
  CheckEveryN,     \* check_every_n_
  RollPerSeconds,  \* k_roll_pre_seconds
  LineLengths,     \* the lengths of lines
  MaxTime,         \* bound: the last second
  MaxFileLines,    \* bound: lines ever appended
  MaxSteps         \* bound: how often the clock is set back

ASSUME LogFileAssumption ==
  /\ RollSize \in Nat
  /\ FlushInterval \in Nat
  /\ CheckEveryN \in Nat \ {0}
  /\ RollPerSeconds \in Nat \ {0}
  /\ LineLengths \subseteq Nat
  /\ MaxTime \in Nat \ {0}
  /\ MaxFileLines \in Nat
  /\ MaxSteps \in Nat

VARIABLES
  clock,           \* time(nullptr)
  steps,           \* how often the clock was set back
  count,           \* count_
  startOfPeriod,   \* start_of_period_
  lastRoll,        \* last_roll_
  lastFlush,       \* last_flsh_
  writtenBytes,    \* written_bytes_ of file_
  files,           \* history: the files, the open one last
  stamps,          \* history: when each line was appended
  durable          \* history: the lines flushed, or closed with their file

clockVars == <<clock, steps>>
fileVars == <<clockVars, count, startOfPeriod, lastRoll, lastFlush, writtenBytes, files, stamps,
              durable>>

Times == 1..MaxTime
File == [name : Times, first : 1..(MaxFileLines + 1)]

FileTypeOK ==
  /\ clock \in Times
  /\ steps \in 0..MaxSteps
  /\ count \in 0..(CheckEveryN - 1)
  /\ startOfPeriod \in 0..MaxTime
  /\ lastRoll \in Times
  /\ lastFlush \in Times
  /\ writtenBytes \in Nat
  /\ files \in Seq(File) /\ files # <<>>
  /\ stamps \in Seq(Times)
  /\ durable \in 0..Len(stamps)

\* The start of the day.
Period(time) == (time \div RollPerSeconds) * RollPerSeconds

\* The constructor rolls the first file.
FileInit ==
  /\ clock \in Times
  /\ steps = 0
  /\ count = 0
  /\ startOfPeriod = Period(clock)
  /\ lastRoll = clock
  /\ lastFlush = clock
  /\ writtenBytes = 0
  /\ files = <<[name |-> clock, first |-> 1]>>
  /\ stamps = <<>>
  /\ durable = 0

-------------------------------------------------------------------------------
Tick ==
  /\ clock < MaxTime
  /\ clock' = clock + 1
  /\ UNCHANGED <<steps, count, startOfPeriod, lastRoll, lastFlush, writtenBytes, files, stamps,
                 durable>>

SetBack ==
  /\ steps < MaxSteps
  /\ steps' = steps + 1
  /\ clock' \in 1..(clock - 1)
  /\ UNCHANGED <<count, startOfPeriod, lastRoll, lastFlush, writtenBytes, files, stamps, durable>>

\* No roll, no flush.
Stay(bytes) ==
  /\ writtenBytes' = bytes
  /\ UNCHANGED <<startOfPeriod, lastRoll, lastFlush, files, durable>>

\* fflush
Flush(bytes) ==
  /\ writtenBytes' = bytes
  /\ durable' = Len(stamps')
  /\ UNCHANGED <<startOfPeriod, lastRoll, files>>

\* Faulty: files are rolled in any second.
AnySecond == TRUE

\* roll_file: now > last_roll_
LaterSecond == clock > lastRoll

(* roll_file: a new file, and the old one closed, unless one was begun in  *)
(* this second, or later on a clock that was set back.                     *)
Roll(bytes) ==
  IF LaterSecond
    THEN /\ lastRoll' = clock
         /\ lastFlush' = clock
         /\ startOfPeriod' = Period(clock)
         /\ writtenBytes' = 0
         /\ files' = Append(files, [name |-> clock, first |-> Len(stamps') + 1])
         /\ durable' = Len(stamps')
    ELSE Stay(bytes)

\* Faulty: count_ > check_every_n_.
TimeToCheckLate == count >= CheckEveryN

\* ++count_ >= check_every_n_
TimeToCheck == count + 1 >= CheckEveryN

\* Faulty: the size is looked at with the day, at every so many lines.
TooLargeAtCheck(bytes) == bytes > RollSize /\ TimeToCheck

TooLarge(bytes) == bytes > RollSize

\* append_unlocked, after a line that leaves the file with so many bytes.
AppendUnlocked(bytes) ==
  IF TooLarge(bytes)
    THEN Roll(bytes) /\ count' = count
  ELSE IF ~TimeToCheck
    THEN Stay(bytes) /\ count' = count + 1
  ELSE /\ count' = 0
       /\ IF Period(clock) # startOfPeriod THEN Roll(bytes)
          ELSE IF clock - lastFlush > FlushInterval
            THEN Flush(bytes) /\ lastFlush' = clock
          ELSE Stay(bytes)

\* append
AppendLine(len) ==
  /\ Len(stamps) < MaxFileLines
  /\ stamps' = Append(stamps, clock)
  /\ AppendUnlocked(writtenBytes + len)
  /\ UNCHANGED clockVars

\* flush, called by the users of the file.
FlushFile ==
  /\ UNCHANGED <<clockVars, count, lastFlush, stamps>>
  /\ Flush(writtenBytes)

\* roll_file, called by the users of the file.
RollFile ==
  /\ UNCHANGED <<clockVars, count, stamps>>
  /\ Roll(writtenBytes)

FileNext ==
  \/ Tick
  \/ SetBack
  \/ \E len \in LineLengths : AppendLine(len)
  \/ FlushFile
  \/ RollFile

FileSpec == FileInit /\ [][FileNext]_fileVars

-------------------------------------------------------------------------------
Open == files[Len(files)]

(* No file is ever begun twice, or out of order, even when the clock is    *)
(* set back: the lines of the files, in the order of the files' names, are *)
(* in the order of their append.                                           *)
FilesInOrder ==
  \A j, k \in DOMAIN files :
    j < k => files[j].name < files[k].name /\ files[j].first <= files[k].first

(* The files follow each other as their names do (roll_file).              *)
FilesConsistent == FileTypeOK /\ FilesInOrder

(* flush_interval_: what is appended is flushed before check_every_n_ more *)
(* lines come later than flush_interval_ seconds after it; no roll by size *)
(* or by day, which have counts of their own, gets in the way.  (While the *)
(* clock was not set back, as in the next two.)                            *)
FlushedInTime ==
  steps = 0 /\ durable < Len(stamps) =>
    Cardinality({k \in durable..Len(stamps) :
                   k > durable /\ stamps[k] - stamps[durable + 1] > FlushInterval}) < CheckEveryN

(* A file holds fewer than check_every_n_ lines of another day than the    *)
(* one it was begun on.                                                    *)
OneDayPerFile ==
  steps = 0 =>
    Cardinality({k \in Open.first..Len(stamps) : Period(stamps[k]) # Period(Open.name)})
      < CheckEveryN

(* A file that has outgrown roll_size_ is closed by the next line, unless  *)
(* all of it was written in the second in which the file was begun.        *)
OversizeInOneSecond ==
  steps = 0 /\ writtenBytes > RollSize =>
    \A k \in Open.first..Len(stamps) : stamps[k] = Open.name

(* append_unlocked rolls in time, by day and by size.                      *)
RolledInTime == OneDayPerFile /\ OversizeInOneSecond
===============================================================================
