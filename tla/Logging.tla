-------------------------------- MODULE Logging --------------------------------
(***************************************************************************)
(* logger: threads write lines, each into a log_stream of its own, and     *)
(* give them to g_output when they are complete.  A thread keeps the text  *)
(* of the last second it logged in, and makes it again when the second is  *)
(* another one.  The time zone and the level are those of all threads, and *)
(* may be set at any time, without a lock.                                 *)
(*                                                                         *)
(* format_time looks at the zone twice, so it is two steps.                *)
(***************************************************************************)
EXTENDS LogStream

CONSTANTS
  Threads,
  Zones,         \* the time zones that may be set
  NoZone,        \* the zone that is not valid: times are UTC
  TextLengths,   \* the lengths of the texts that are streamed
  Numbers,       \* the numbers that are streamed
  Address,       \* the address that is streamed
  MaxSecond,     \* bound: the seconds of the clock are 1..MaxSecond
  MaxLines,      \* bound: lines begun
  MaxPieces,     \* bound: what user code streams into a line
  MaxSets        \* bound: how often the zone, the level or the clock is set

ASSUME LoggingAssumption ==
  /\ NoZone \notin Zones
  /\ TextLengths \subseteq Nat
  /\ Numbers \subseteq Int
  /\ Address \in Nat
  /\ {MaxSecond, MaxLines, MaxPieces, MaxSets} \subseteq Nat
  /\ MaxSecond > 0

\* log_level_t, without the levels that behave as these do.
DEBUG == 1
INFO == 2
WARN == 3
ERROR == 4
FATAL == 5
Levels == {DEBUG, INFO, ERROR, FATAL}

VARIABLES
  clock,       \* the wall clock, in seconds
  zone,        \* g_log_time_zone
  level,       \* g_log_level
  pc,          \* where each thread is: in no line, in format_time, streaming, in ~logger
  lastSecond,  \* t_last_second of each thread; 0: none yet
  time,        \* t_time of each thread: the second and the zone it shows
  line,        \* the line that each thread writes
  output,      \* what g_output was given: lines, with their lengths
  flushed,     \* how much of it g_flush has made safe
  aborted,     \* abort() was called
  begun,       \* how many lines were begun
  sets,        \* how often something was set
  outdated     \* history: the zone was set after the thread made its t_time

vars == <<clock, zone, level, pc, lastSecond, time, line, output, flushed, aborted, begun,
          sets, outdated>>

NoLine == [second |-> 0, level |-> DEBUG, stamp |-> [second |-> 0, zone |-> NoZone],
           zone |-> NoZone, used |-> 0, pieces |-> 0]

TypeOK ==
  /\ clock \in 1..MaxSecond
  /\ zone \in Zones \cup {NoZone}
  /\ level \in Levels
  /\ pc \in [Threads -> {"idle", "format", "stream", "flush", "abort"}]
  /\ \A t \in Threads :
       /\ lastSecond[t] = time[t].second
       /\ line[t].pieces \in 0..MaxPieces
  /\ flushed \in 0..Len(output)
  /\ aborted \in BOOLEAN
  /\ begun \in 0..MaxLines
  /\ sets \in 0..MaxSets

Init ==
  /\ clock = 1
  /\ zone = NoZone
  /\ level = INFO
  /\ pc = [t \in Threads |-> "idle"]
  /\ lastSecond = [t \in Threads |-> 0]
  /\ time = [t \in Threads |-> [second |-> 0, zone |-> NoZone]]
  /\ line = [t \in Threads |-> NoLine]
  /\ output = <<>>
  /\ flushed = 0
  /\ aborted = FALSE
  /\ begun = 0
  /\ sets = 0
  /\ outdated = [t \in Threads |-> FALSE]

-------------------------------------------------------------------------------
(* The constructor of logger.                                              *)

\* The condition of the LOG_ macros; they have none for WARN and above.
Enabled(lvl) == lvl >= WARN \/ lvl >= level

\* Faulty: the text is made again only when time goes on.
LaterSecond(t) == clock > lastSecond[t]

\* format_time: the text of t_time is that of another second.
OtherSecond(t) == clock # lastSecond[t]

\* The line takes the time, and its text.
FormatTime(t, lvl) ==
  /\ pc[t] = "idle" /\ begun < MaxLines
  /\ Enabled(lvl)
  /\ begun' = begun + 1
  /\ IF OtherSecond(t)
       THEN /\ lastSecond' = [lastSecond EXCEPT ![t] = clock]
            /\ time' = [time EXCEPT ![t] = [second |-> clock, zone |-> zone]]
            /\ outdated' = [outdated EXCEPT ![t] = FALSE]
       ELSE UNCHANGED <<lastSecond, time, outdated>>
  /\ line' = [line EXCEPT ![t] = [NoLine EXCEPT !.second = clock, !.level = lvl]]
  /\ pc' = [pc EXCEPT ![t] = "format"]
  /\ UNCHANGED <<clock, zone, level, output, flushed, aborted, sets>>

\* The lengths of an error's text and of a function's name.
ErrorText == 30
FuncName == 10

\* errno when the line is begun: none, or one.
Errnos == {0, 11}

\* What the constructor puts into the line: the time, microseconds, tid, level.
Header(l, errno) ==
  LET times == Appended(Appended(0, 17), IF zone = NoZone THEN 9 ELSE 8)
      levels == Appended(Appended(times, 6), 6)
      errors == IF errno = 0 THEN levels
                ELSE Appended(FormatInteger(Appended(Appended(levels, ErrorText), 8), errno), 2)
  IN IF l.level = DEBUG THEN Appended(Appended(errors, FuncName), 1) ELSE errors

\* The rest of format_time and of the constructor: the zone is looked at again.
WriteHeader(t, errno) ==
  /\ pc[t] = "format"
  /\ errno # 0 => line[t].level \in {ERROR, FATAL}
  /\ line' = [line EXCEPT ![t].stamp = time[t], ![t].zone = zone,
                          ![t].used = Header(line[t], errno)]
  /\ pc' = [pc EXCEPT ![t] = "stream"]
  /\ UNCHANGED <<clock, zone, level, lastSecond, time, output, flushed, aborted, begun, sets,
                 outdated>>

-------------------------------------------------------------------------------
(* operator<<                                                              *)

Put(t, used) ==
  /\ pc[t] = "stream" /\ line[t].pieces < MaxPieces
  /\ line' = [line EXCEPT ![t].used = used, ![t].pieces = @ + 1]
  /\ UNCHANGED <<clock, zone, level, pc, lastSecond, time, output, flushed, aborted, begun,
                 sets, outdated>>

PutText(t, len) == Put(t, Appended(line[t].used, len))

PutNumber(t, value) == Put(t, FormatInteger(line[t].used, value))

PutAddress(t) == Put(t, FormatAddress(line[t].used, Address))

-------------------------------------------------------------------------------
(* The destructor.                                                         *)

\* The name of the source file, and the number of its line.
BaseName == 8
SourceLine == 120

(* The static_asserts of log_stream, for numbers of any type: where there  *)
(* is room for k_max_numeric_size there is room for the text of a number,  *)
(* with its terminator.                                                    *)
ASSUME NumbersFit ==
  /\ \A value \in Numbers \cup Errnos \cup {SourceLine} :
       Len(Convert(value)) \in 1..(MaxNumericSize - 1)
  /\ Len(ConvertHex(Address)) \in 1..(MaxNumericSize - 3)

\* finish
Finished(used) ==
  Appended(FormatInteger(Appended(Appended(Appended(used, 3), BaseName), 1), SourceLine), 1)

\* finish, g_output
Output(t) ==
  LET l == line[t] IN
  /\ pc[t] = "stream"
  /\ output' = Append(output, [level |-> l.level, used |-> Finished(l.used)])
  /\ line' = [line EXCEPT ![t] = NoLine]
  /\ pc' = [pc EXCEPT ![t] = IF l.level = FATAL THEN "flush" ELSE "idle"]
  /\ UNCHANGED <<clock, zone, level, lastSecond, time, flushed, aborted, begun, sets, outdated>>

\* g_flush
Flush(t) ==
  /\ pc[t] = "flush"
  /\ flushed' = Len(output)
  /\ pc' = [pc EXCEPT ![t] = "abort"]
  /\ UNCHANGED <<clock, zone, level, lastSecond, time, line, output, aborted, begun, sets,
                 outdated>>

Abort(t) ==
  /\ pc[t] = "abort"
  /\ aborted' = TRUE
  /\ UNCHANGED <<clock, zone, level, pc, lastSecond, time, line, output, flushed, begun, sets,
                 outdated>>

-------------------------------------------------------------------------------
(* Settings, and the clock.                                                *)

SetTimeZone(z) ==
  /\ sets < MaxSets
  /\ zone' = z
  /\ sets' = sets + 1
  /\ outdated' = [t \in Threads |-> TRUE]
  /\ UNCHANGED <<clock, level, pc, lastSecond, time, line, output, flushed, aborted, begun>>

SetLogLevel(lvl) ==
  /\ sets < MaxSets
  /\ level' = lvl
  /\ sets' = sets + 1
  /\ UNCHANGED <<clock, zone, pc, lastSecond, time, line, output, flushed, aborted, begun,
                 outdated>>

\* The wall clock goes on, or is set back.
Tick ==
  /\ clock < MaxSecond
  /\ clock' = clock + 1
  /\ UNCHANGED <<zone, level, pc, lastSecond, time, line, output, flushed, aborted, begun, sets,
                 outdated>>

SetBack ==
  /\ clock > 1 /\ sets < MaxSets
  /\ clock' = clock - 1
  /\ sets' = sets + 1
  /\ UNCHANGED <<zone, level, pc, lastSecond, time, line, output, flushed, aborted, begun,
                 outdated>>

Next ==
  /\ ~aborted
  /\ \/ \E t \in Threads :
          \/ \E lvl \in Levels : FormatTime(t, lvl)
          \/ \E errno \in Errnos : WriteHeader(t, errno)
          \/ \E len \in TextLengths : PutText(t, len)
          \/ \E value \in Numbers : PutNumber(t, value)
          \/ PutAddress(t)
          \/ Output(t)
          \/ Flush(t)
          \/ Abort(t)
     \/ \E z \in Zones \cup {NoZone} : SetTimeZone(z)
     \/ \E lvl \in Levels : SetLogLevel(lvl)
     \/ Tick
     \/ SetBack

Spec == Init /\ [][Next]_vars

-------------------------------------------------------------------------------
(* The text of the time that a line begins with is that of its own second, *)
(* whatever the clock did, and of the zone that the line claims, unless    *)
(* the zone was set after the thread made that text (format_time).         *)
StampsTrue ==
  \A t \in Threads : pc[t] = "stream" =>
    /\ line[t].stamp.second = line[t].second
    /\ line[t].stamp.zone # line[t].zone => outdated[t]

(* A line that ends the program is safe when it does (~logger), and so is  *)
(* all that was output before it, whatever other threads log meanwhile.    *)
FatalFlushed ==
  aborted => \E i \in 1..flushed : output[i].level = FATAL

(* What reaches the output is dated right, and is not lost with abort().   *)
OutputTrue == StampsTrue /\ FatalFlushed

(* A line never fills its buffer to the last byte, so that the terminator  *)
(* that convert writes is inside too (append, format_integer).             *)
NeverOverruns ==
  /\ \A t \in Threads : line[t].used < Size
  /\ \A i \in DOMAIN output : output[i].used < Size

(* Lines are well formed, and within their buffers.                        *)
LinesConsistent == TypeOK /\ NeverOverruns
===============================================================================
