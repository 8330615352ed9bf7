----------------------------- MODULE LoggingProofs -----------------------------
(***************************************************************************)
(* The safety of logger and log_stream, for any threads, time zones, texts *)
(* and numbers, and any size of the buffer: lines stay within their        *)
(* buffers, are dated right, and are not lost with abort().  Then that of  *)
(* the conversions by which they are dated: for every day of the calendar, *)
(* and for every zone whose daylight saving time is an hour ahead; the     *)
(* order of the string pieces they are put together from; the text of the  *)
(* numbers, sizes and times in them; and the loops that write and read     *)
(* files.                                                                  *)
(***************************************************************************)
EXTENDS Logging, TimeZone, Texts, SequenceTheorems, WellFoundedInduction, TLAPS

-------------------------------------------------------------------------------
(* What is appended to a buffer.                                           *)

\* The lengths that leave a byte of the buffer.
Lengths == {n \in Nat : n < Size}

LEMMA BoundsAre ==
  /\ MaxSecond \in Nat /\ MaxLines \in Nat /\ MaxPieces \in Nat /\ MaxSets \in Nat
  /\ MaxSecond > 0
  BY LoggingAssumption

LEMMA SizesAre == Size \in Nat /\ Size > 0 /\ MaxNumericSize \in Nat
  BY StreamAssumption

LEMMA TextFits ==
  ASSUME NEW used \in Lengths, NEW len \in Nat
  PROVE  Appended(used, len) \in Lengths
  BY SizesAre DEF Lengths, Appended, Avail

LEMMA NumberFits ==
  ASSUME NEW used \in Lengths, NEW value \in Numbers \cup Errnos \cup {SourceLine}
  PROVE  FormatInteger(used, value) \in Lengths
<1>1. Len(Convert(value)) \in 1..(MaxNumericSize - 1)
  BY NumbersFit
<1> QED
  BY <1>1, SizesAre DEF Lengths, FormatInteger, Avail

LEMMA AddressFits ==
  ASSUME NEW used \in Lengths
  PROVE  FormatAddress(used, Address) \in Lengths
<1>1. Len(ConvertHex(Address)) \in 1..(MaxNumericSize - 3)
  BY NumbersFit
<1> QED
  BY <1>1, SizesAre DEF Lengths, FormatAddress, Avail

LEMMA HeaderFits ==
  ASSUME NEW l, NEW errno \in Errnos
  PROVE  Header(l, errno) \in Lengths
<1> DEFINE times == Appended(Appended(0, 17), IF zone = NoZone THEN 9 ELSE 8)
           levels == Appended(Appended(times, 6), 6)
           errors == IF errno = 0 THEN levels
                     ELSE Appended(FormatInteger(Appended(Appended(levels, ErrorText), 8), errno), 2)
<1>1. 0 \in Lengths
  BY SizesAre DEF Lengths
<1>2. times \in Lengths
  BY <1>1, TextFits
<1> HIDE DEF times
<1>3. levels \in Lengths
  BY <1>2, TextFits
<1> HIDE DEF levels
<1>4. Appended(Appended(levels, ErrorText), 8) \in Lengths
  BY <1>3, TextFits DEF ErrorText
<1>5. errors \in Lengths
  BY <1>3, <1>4, NumberFits, TextFits
<1> HIDE DEF errors
<1>6. Appended(Appended(errors, FuncName), 1) \in Lengths
  BY <1>5, TextFits DEF FuncName
<1>7. Header(l, errno) = IF l.level = DEBUG THEN Appended(Appended(errors, FuncName), 1) ELSE errors
  BY DEF Header, errors, levels, times
<1> QED
  BY <1>5, <1>6, <1>7

LEMMA FinishedFits ==
  ASSUME NEW used \in Lengths
  PROVE  Finished(used) \in Lengths
<1>1. Appended(Appended(Appended(used, 3), BaseName), 1) \in Lengths
  BY TextFits DEF BaseName
<1>2. FormatInteger(Appended(Appended(Appended(used, 3), BaseName), 1), SourceLine) \in Lengths
  BY <1>1, NumberFits
<1> QED
  BY <1>2, TextFits DEF Finished

-------------------------------------------------------------------------------
(* The inductive invariant.                                                *)

AllZones == Zones \cup {NoZone}
Places == {"idle", "format", "stream", "flush", "abort"}
Time == [second : 0..MaxSecond, zone : AllZones]
Line == [second : 0..MaxSecond, level : Levels, stamp : Time, zone : AllZones,
         used : Lengths, pieces : 0..MaxPieces]
OutputLine == [level : Levels, used : Lengths]

\* Types, which say of every line that it leaves a byte of its buffer.
Shape ==
  /\ clock \in 1..MaxSecond /\ zone \in AllZones /\ level \in Levels
  /\ pc \in [Threads -> Places]
  /\ time \in [Threads -> Time] /\ line \in [Threads -> Line]
  /\ lastSecond = [t \in Threads |-> time[t].second]
  /\ output \in Seq(OutputLine) /\ flushed \in 0..Len(output)
  /\ aborted \in BOOLEAN /\ begun \in 0..MaxLines /\ sets \in 0..MaxSets
  /\ outdated \in [Threads -> BOOLEAN]

(* The text of a thread is that of its last second, in the zone that is    *)
(* set, or was when the text was made.                                     *)
TimesInv ==
  \A t \in Threads :
    /\ time[t].zone # zone => outdated[t]
    /\ pc[t] = "format" => line[t].second = time[t].second

\* A thread that has output a FATAL line, and one that has flushed it.
FatalInv ==
  /\ (\E t \in Threads : pc[t] = "flush") => \E i \in 1..Len(output) : output[i].level = FATAL
  /\ (\E t \in Threads : pc[t] = "abort") => \E i \in 1..flushed : output[i].level = FATAL

\* The inductive invariant.
IInv == Shape /\ TimesInv /\ StampsTrue /\ FatalInv /\ FatalFlushed

LEMMA InitIInv == Init => IInv
<1> SUFFICES ASSUME Init PROVE IInv
  OBVIOUS
<1>1. NoLine \in Line
  BY BoundsAre, SizesAre DEF NoLine, Line, Time, AllZones, Levels, DEBUG, Lengths
<1>2. [second |-> 0, zone |-> NoZone] \in Time
  BY BoundsAre DEF Time, AllZones
<1>3. Shape
  <2>0. clock = 1 /\ begun = 0 /\ sets = 0 /\ aborted = FALSE /\ zone = NoZone /\ level = INFO
    BY DEF Init
  <2>1. /\ clock \in 1..MaxSecond /\ zone \in AllZones /\ level \in Levels
        /\ aborted \in BOOLEAN /\ begun \in 0..MaxLines /\ sets \in 0..MaxSets
    <3>1. clock \in 1..MaxSecond /\ begun \in 0..MaxLines /\ sets \in 0..MaxSets
      BY <2>0, BoundsAre
    <3> QED
      BY <2>0, <3>1 DEF AllZones, Levels
  <2>2. /\ output \in Seq(OutputLine) /\ flushed \in 0..Len(output)
        /\ outdated \in [Threads -> BOOLEAN] /\ pc \in [Threads -> Places]
    BY DEF Init, Places
  <2>3. time \in [Threads -> Time] /\ line \in [Threads -> Line]
    BY <1>1, <1>2 DEF Init
  <2>4. lastSecond = [t \in Threads |-> time[t].second]
    BY DEF Init
  <2> QED
    BY <2>1, <2>2, <2>3, <2>4 DEF Shape
<1>4. TimesInv /\ StampsTrue /\ FatalInv /\ FatalFlushed
  BY DEF Init, TimesInv, StampsTrue, FatalInv, FatalFlushed
<1> QED
  BY <1>3, <1>4 DEF IInv

-------------------------------------------------------------------------------
(* The steps of one thread.                                                *)

LEMMA FormatTimeKeeps ==
  ASSUME IInv, ~aborted, NEW t \in Threads, NEW lvl \in Levels, FormatTime(t, lvl)
  PROVE  IInv'
<1>1. /\ pc[t] = "idle" /\ begun < MaxLines /\ begun' = begun + 1
      /\ line' = [line EXCEPT ![t] = [NoLine EXCEPT !.second = clock, !.level = lvl]]
      /\ pc' = [pc EXCEPT ![t] = "format"]
      /\ UNCHANGED <<clock, zone, level, output, flushed, aborted, sets>>
  BY DEF FormatTime
<1>2. PICK text \in Time :
        /\ text.second = clock
        /\ time' = [time EXCEPT ![t] = text]
        /\ lastSecond' = [lastSecond EXCEPT ![t] = text.second]
        /\ outdated' \in [Threads -> BOOLEAN]
        /\ \A u \in Threads \ {t} : outdated'[u] = outdated[u]
        /\ text.zone # zone => outdated'[t]
  <2>1. CASE OtherSecond(t)
    <3>1. [second |-> clock, zone |-> zone] \in Time
      BY DEF IInv, Shape, Time
    <3>2. /\ lastSecond' = [lastSecond EXCEPT ![t] = clock]
          /\ time' = [time EXCEPT ![t] = [second |-> clock, zone |-> zone]]
          /\ outdated' = [outdated EXCEPT ![t] = FALSE]
      BY <2>1 DEF FormatTime
    <3> QED
      BY <3>1, <3>2 DEF IInv, Shape
  <2>2. CASE ~OtherSecond(t)
    <3>1. UNCHANGED <<lastSecond, time, outdated>> /\ clock = lastSecond[t]
      BY <2>2 DEF FormatTime, OtherSecond
    <3>2. time[t] \in Time /\ time[t].second = clock /\ lastSecond[t] = time[t].second
      BY <3>1 DEF IInv, Shape
    <3> QED
      BY <3>1, <3>2 DEF IInv, Shape, TimesInv
  <2> QED
    BY <2>1, <2>2
<1>3. [NoLine EXCEPT !.second = clock, !.level = lvl] \in Line
  <2>1. clock \in 0..MaxSecond /\ NoZone \in AllZones
    BY BoundsAre DEF IInv, Shape, AllZones
  <2>2. 0 \in Lengths /\ 0 \in 0..MaxPieces /\ 0 \in 0..MaxSecond
    BY SizesAre, BoundsAre DEF Lengths
  <2> QED
    BY <2>1, <2>2 DEF NoLine, Line, Time
<1>4. Shape'
  <2>1. pc' \in [Threads -> Places] /\ begun' \in 0..MaxLines
    BY <1>1, BoundsAre DEF IInv, Shape, Places
  <2>2. time' \in [Threads -> Time] /\ line' \in [Threads -> Line]
    BY <1>1, <1>2, <1>3 DEF IInv, Shape
  <2>3. lastSecond' = [u \in Threads |-> time'[u].second]
    BY <1>2 DEF IInv, Shape
  <2> QED
    BY <1>1, <1>2, <2>1, <2>2, <2>3 DEF IInv, Shape
<1>5. TimesInv'
  <2>1. line'[t].second = clock
    BY <1>1 DEF IInv, Shape, NoLine
  <2> QED
    BY <1>1, <1>2, <2>1 DEF IInv, Shape, TimesInv
<1>6. StampsTrue'
  BY <1>1, <1>2 DEF IInv, Shape, StampsTrue
<1>7. FatalInv' /\ FatalFlushed'
  BY <1>1 DEF IInv, Shape, FatalInv, FatalFlushed
<1> QED
  BY <1>4, <1>5, <1>6, <1>7 DEF IInv

LEMMA WriteHeaderKeeps ==
  ASSUME IInv, NEW t \in Threads, NEW errno \in Errnos, WriteHeader(t, errno)
  PROVE  IInv'
<1> DEFINE begins == [line[t] EXCEPT !.stamp = time[t], !.zone = zone, !.used = Header(line[t], errno)]
<1>1. /\ pc[t] = "format" /\ pc' = [pc EXCEPT ![t] = "stream"]
      /\ line' = [line EXCEPT ![t] = begins]
      /\ UNCHANGED <<clock, zone, level, lastSecond, time, output, flushed, aborted, begun, sets,
                     outdated>>
  BY DEF WriteHeader
<1>2. line[t] \in Line /\ time[t] \in Time /\ Header(line[t], errno) \in Lengths
  BY HeaderFits DEF IInv, Shape
<1>3. begins \in Line /\ begins.second = line[t].second /\ begins.stamp = time[t] /\ begins.zone = zone
  BY <1>2 DEF IInv, Shape, Line
<1> HIDE DEF begins
<1>4. Shape'
  BY <1>1, <1>3 DEF IInv, Shape, Places
<1>5. TimesInv' /\ StampsTrue'
  BY <1>1, <1>3 DEF IInv, Shape, TimesInv, StampsTrue
<1>6. FatalInv' /\ FatalFlushed'
  BY <1>1 DEF IInv, Shape, FatalInv, FatalFlushed
<1> QED
  BY <1>4, <1>5, <1>6 DEF IInv

\* Something is streamed into the line of a thread.
LEMMA PutKeeps ==
  ASSUME IInv, NEW t \in Threads, NEW used \in Lengths, Put(t, used)
  PROVE  IInv'
<1> DEFINE longer == [line[t] EXCEPT !.used = used, !.pieces = line[t].pieces + 1]
<1>1. /\ pc[t] = "stream" /\ line[t].pieces < MaxPieces /\ line' = [line EXCEPT ![t] = longer]
      /\ UNCHANGED <<clock, zone, level, pc, lastSecond, time, output, flushed, aborted, begun,
                     sets, outdated>>
  BY DEF Put
<1>2. line[t] \in Line
  BY DEF IInv, Shape
<1>0. line[t].pieces + 1 \in 0..MaxPieces
  BY <1>1, <1>2, BoundsAre DEF Line
<1>3. /\ longer \in Line /\ longer.second = line[t].second
      /\ longer.stamp = line[t].stamp /\ longer.zone = line[t].zone
  BY <1>0, <1>2 DEF Line
<1> HIDE DEF longer
<1>4. Shape'
  BY <1>1, <1>3 DEF IInv, Shape
<1>5. TimesInv' /\ StampsTrue'
  BY <1>1, <1>3 DEF IInv, Shape, TimesInv, StampsTrue
<1>6. FatalInv' /\ FatalFlushed'
  BY <1>1 DEF IInv, Shape, FatalInv, FatalFlushed
<1> QED
  BY <1>4, <1>5, <1>6 DEF IInv

LEMMA PutsKeep ==
  ASSUME IInv, NEW t \in Threads,
         \/ \E len \in TextLengths : PutText(t, len)
         \/ \E value \in Numbers : PutNumber(t, value)
         \/ PutAddress(t)
  PROVE  IInv'
<1>1. line[t].used \in Lengths
  BY DEF IInv, Shape, Line
<1>2. ASSUME NEW len \in TextLengths, PutText(t, len) PROVE IInv'
  BY <1>1, <1>2, LoggingAssumption, TextFits, PutKeeps DEF PutText
<1>3. ASSUME NEW value \in Numbers, PutNumber(t, value) PROVE IInv'
  BY <1>1, <1>3, NumberFits, PutKeeps DEF PutNumber
<1>4. ASSUME PutAddress(t) PROVE IInv'
  BY <1>1, <1>4, AddressFits, PutKeeps DEF PutAddress
<1> QED
  BY <1>2, <1>3, <1>4

LEMMA OutputKeeps ==
  ASSUME IInv, NEW t \in Threads, Output(t)
  PROVE  IInv'
<1> DEFINE l == line[t]
           done == [level |-> l.level, used |-> Finished(l.used)]
<1>1. /\ pc[t] = "stream" /\ output' = Append(output, done)
      /\ line' = [line EXCEPT ![t] = NoLine]
      /\ pc' = [pc EXCEPT ![t] = IF l.level = FATAL THEN "flush" ELSE "idle"]
      /\ UNCHANGED <<clock, zone, level, lastSecond, time, flushed, aborted, begun, sets, outdated>>
  BY DEF Output
<1>2. done \in OutputLine /\ done.level = l.level
  <2>1. l \in Line /\ Finished(l.used) \in Lengths
    BY FinishedFits DEF IInv, Shape, Line
  <2> QED
    BY <2>1 DEF OutputLine, Line
<1>3. NoLine \in Line
  BY BoundsAre, SizesAre DEF NoLine, Line, Time, AllZones, Levels, DEBUG, Lengths
<1> HIDE DEF l, done
<1>4. /\ output \in Seq(OutputLine) /\ Len(output) \in Nat /\ output' \in Seq(OutputLine)
      /\ Len(output') = Len(output) + 1 /\ output'[Len(output')].level = l.level
      /\ \A i \in 1..Len(output) : output'[i] = output[i]
  BY <1>1, <1>2 DEF IInv, Shape
<1>5. pc' \in [Threads -> Places] /\ (pc'[t] = "flush" => l.level = FATAL)
      /\ pc'[t] # "format" /\ pc'[t] # "stream" /\ pc'[t] # "abort"
      /\ \A u \in Threads \ {t} : pc'[u] = pc[u] /\ line'[u] = line[u]
  BY <1>1 DEF IInv, Shape, Places
<1>6. Shape'
  <2>1. flushed' \in 0..Len(output')
    BY <1>1, <1>4 DEF IInv, Shape
  <2>2. line' \in [Threads -> Line]
    BY <1>1, <1>3 DEF IInv, Shape
  <2> QED
    BY <1>1, <1>4, <1>5, <2>1, <2>2 DEF IInv, Shape
<1>7. TimesInv'
  BY <1>1, <1>5 DEF IInv, TimesInv
<1>8. StampsTrue'
  BY <1>1, <1>5 DEF IInv, StampsTrue
<1>9. /\ flushed' = flushed /\ 1..flushed \subseteq 1..Len(output)
      /\ 1..Len(output) \subseteq 1..Len(output')
  BY <1>1, <1>4 DEF IInv, Shape
<1>10. FatalInv'
  <2>1. ASSUME NEW u \in Threads, pc'[u] = "flush"
        PROVE  \E i \in 1..Len(output') : output'[i].level = FATAL
    <3>1. CASE u = t
      BY <1>4, <1>5, <2>1, <3>1
    <3>2. CASE u # t
      BY <1>4, <1>5, <1>9, <2>1, <3>2 DEF IInv, FatalInv
    <3> QED
      BY <3>1, <3>2
  <2>2. ASSUME NEW u \in Threads, pc'[u] = "abort"
        PROVE  \E i \in 1..flushed' : output'[i].level = FATAL
    BY <1>4, <1>5, <1>9, <2>2 DEF IInv, FatalInv
  <2> QED
    BY <2>1, <2>2 DEF FatalInv
<1>11. FatalFlushed'
  BY <1>1, <1>4, <1>9 DEF IInv, FatalFlushed
<1> QED
  BY <1>6, <1>7, <1>8, <1>10, <1>11 DEF IInv

\* g_flush and abort().
LEMMA EndsKeep ==
  ASSUME IInv, NEW t \in Threads, Flush(t) \/ Abort(t)
  PROVE  IInv'
<1>1. CASE Flush(t)
  <2>1. /\ pc[t] = "flush" /\ flushed' = Len(output) /\ pc' = [pc EXCEPT ![t] = "abort"]
        /\ UNCHANGED <<clock, zone, level, lastSecond, time, line, output, aborted, begun, sets,
                       outdated>>
    BY <1>1 DEF Flush
  <2>2. Shape'
    BY <2>1 DEF IInv, Shape, Places
  <2>3. TimesInv' /\ StampsTrue'
    BY <2>1 DEF IInv, Shape, TimesInv, StampsTrue
  <2>4. \E i \in 1..flushed' : output'[i].level = FATAL
    BY <2>1 DEF IInv, FatalInv
  <2>5. FatalInv' /\ FatalFlushed'
    BY <2>1, <2>4 DEF IInv, FatalInv, FatalFlushed
  <2> QED
    BY <2>2, <2>3, <2>5 DEF IInv
<1>2. CASE Abort(t)
  BY <1>2 DEF Abort, IInv, Shape, TimesInv, StampsTrue, FatalInv, FatalFlushed
<1> QED
  BY <1>1, <1>2

-------------------------------------------------------------------------------
(* Settings, and the clock.                                                *)

LEMMA SetTimeZoneKeeps ==
  ASSUME IInv, NEW z \in AllZones, SetTimeZone(z)
  PROVE  IInv'
<1>1. /\ sets < MaxSets /\ zone' = z /\ sets' = sets + 1 /\ outdated' = [t \in Threads |-> TRUE]
      /\ UNCHANGED <<clock, level, pc, lastSecond, time, line, output, flushed, aborted, begun>>
  BY DEF SetTimeZone
<1>2. Shape'
  BY <1>1, BoundsAre DEF IInv, Shape
<1>3. TimesInv' /\ StampsTrue' /\ FatalInv' /\ FatalFlushed'
  BY <1>1 DEF IInv, TimesInv, StampsTrue, FatalInv, FatalFlushed
<1> QED
  BY <1>2, <1>3 DEF IInv

LEMMA OthersKeep ==
  ASSUME IInv, (\E lvl \in Levels : SetLogLevel(lvl)) \/ Tick \/ SetBack
  PROVE  IInv'
<1>1. /\ clock' \in 1..MaxSecond /\ level' \in Levels /\ sets' \in 0..MaxSets
      /\ UNCHANGED <<zone, pc, lastSecond, time, line, output, flushed, aborted, begun, outdated>>
  BY BoundsAre DEF IInv, Shape, SetLogLevel, Tick, SetBack
<1>2. Shape'
  BY <1>1 DEF IInv, Shape
<1>3. TimesInv' /\ StampsTrue' /\ FatalInv' /\ FatalFlushed'
  BY <1>1 DEF IInv, TimesInv, StampsTrue, FatalInv, FatalFlushed
<1> QED
  BY <1>2, <1>3 DEF IInv

LEMMA NextIInv == IInv /\ [Next]_vars => IInv'
<1>1. IInv /\ UNCHANGED vars => IInv'
  BY DEF vars, IInv, Shape, TimesInv, StampsTrue, FatalInv, FatalFlushed
<1>2. IInv /\ Next => IInv'
  BY FormatTimeKeeps, WriteHeaderKeeps, PutsKeep, OutputKeeps, EndsKeep, SetTimeZoneKeeps, OthersKeep
  DEF Next, AllZones
<1> QED
  BY <1>1, <1>2

LEMMA Invariant == Spec => []IInv
  BY InitIInv, NextIInv, PTL DEF Spec

(* Lines are well formed, and no line ever fills its buffer to the last    *)
(* byte, whatever is streamed into it and however long names, texts and    *)
(* numbers are (append, format_integer, finish).                           *)
THEOREM BuffersHold == Spec => []LinesConsistent
<1>1. IInv => LinesConsistent
  <2> SUFFICES ASSUME IInv PROVE LinesConsistent
    OBVIOUS
  <2>1. \A t \in Threads : line[t] \in Line /\ lastSecond[t] = time[t].second
    BY DEF IInv, Shape
  <2>2. \A i \in DOMAIN output : output[i] \in OutputLine
    BY DEF IInv, Shape
  <2>3. NeverOverruns
    BY <2>1, <2>2 DEF NeverOverruns, Line, OutputLine, Lengths
  <2>4. TypeOK
    BY <2>1 DEF IInv, Shape, TypeOK, Line, Places, AllZones
  <2> QED
    BY <2>3, <2>4 DEF LinesConsistent
<1> QED
  BY <1>1, Invariant, PTL

(* The time that a line begins with is that of its second, in the zone     *)
(* that it claims unless the zone was set meanwhile; what was output       *)
(* before the line that ends the program is safe (format_time, ~logger).   *)
THEOREM LinesTrue == Spec => []OutputTrue
<1>1. IInv => OutputTrue
  BY DEF IInv, OutputTrue
<1> QED
  BY <1>1, Invariant, PTL

-------------------------------------------------------------------------------
(* date_t, and to_utc_time, with which the logger dates its lines: they    *)
(* agree with the calendar.                                                *)

(* get_julian_day_number, in years that begin in March: the days before    *)
(* each month, and before each year.                                       *)
BeforeMonth(m) == (153 * m + 2) \div 5
BeforeYear(y) == y * 365 + y \div 4 - y \div 100 + y \div 400

LEMMA JdnEarly ==
  ASSUME NEW y \in Nat, NEW m \in 1..2, NEW d \in Int
  PROVE  JulianDayNumber(y, m, d) = d + (BeforeMonth(m + 9) + BeforeYear(y + 4799) - 32045)
<1>1. Quot(14 - m, 12) = 1
  BY DEF Quot
<1> QED
  BY <1>1 DEF JulianDayNumber, BeforeMonth, BeforeYear

LEMMA JdnLate ==
  ASSUME NEW y \in Nat, NEW m \in 3..12, NEW d \in Int
  PROVE  JulianDayNumber(y, m, d) = d + (BeforeMonth(m - 3) + BeforeYear(y + 4800) - 32045)
<1>1. Quot(14 - m, 12) = 0
  BY DEF Quot
<1> QED
  BY <1>1 DEF JulianDayNumber, BeforeMonth, BeforeYear

LEMMA DayTypes ==
  /\ \A m \in Int : BeforeMonth(m) \in Int
  /\ \A y \in Int : BeforeYear(y) \in Int
  BY DEF BeforeMonth, BeforeYear

\* The days before a day of the calendar, but for its number in the month.
LEMMA JdnBefore ==
  ASSUME NEW y \in Nat, NEW m \in 1..12
  PROVE  \E before \in Int : \A d \in Int : JulianDayNumber(y, m, d) = d + before
<1>1. CASE m \in 1..2
  <2>1. m + 9 \in Int /\ y + 4799 \in Int
    BY <1>1
  <2>2. BeforeMonth(m + 9) \in Int /\ BeforeYear(y + 4799) \in Int
    BY <2>1, DayTypes
  <2>3. BeforeMonth(m + 9) + BeforeYear(y + 4799) - 32045 \in Int
    BY <2>2
  <2>4. \A d \in Int : JulianDayNumber(y, m, d) = d + (BeforeMonth(m + 9) + BeforeYear(y + 4799) - 32045)
    BY <1>1, JdnEarly
  <2> QED
    BY <2>3, <2>4
<1>2. CASE m \in 3..12
  <2>1. m - 3 \in Int /\ y + 4800 \in Int
    BY <1>2
  <2>2. BeforeMonth(m - 3) \in Int /\ BeforeYear(y + 4800) \in Int
    BY <2>1, DayTypes
  <2>3. BeforeMonth(m - 3) + BeforeYear(y + 4800) - 32045 \in Int
    BY <2>2
  <2>4. \A d \in Int : JulianDayNumber(y, m, d) = d + (BeforeMonth(m - 3) + BeforeYear(y + 4800) - 32045)
    BY <1>2, JdnLate
  <2> QED
    BY <2>3, <2>4
<1> QED
  BY <1>1, <1>2

LEMMA DayAfter ==
  ASSUME NEW y \in Nat, NEW m \in 1..12, NEW d \in Int
  PROVE  /\ JulianDayNumber(y, m, d) \in Int
         /\ JulianDayNumber(y, m, d + 1) = JulianDayNumber(y, m, d) + 1
<1>1. \E before \in Int : \A n \in Int : JulianDayNumber(y, m, n) = n + before
  BY JdnBefore, Zenon
<1>2. PICK before \in Int : \A n \in Int : JulianDayNumber(y, m, n) = n + before
  BY <1>1
<1>3. d + 1 \in Int
  OBVIOUS
<1>4. JulianDayNumber(y, m, d) = d + before /\ JulianDayNumber(y, m, d + 1) = d + 1 + before
  BY <1>2, <1>3
<1> QED
  BY <1>4

LEMMA MonthsAre ==
  /\ BeforeMonth(0) = 0 /\ BeforeMonth(1) = 31 /\ BeforeMonth(2) = 61 /\ BeforeMonth(3) = 92
  /\ BeforeMonth(4) = 122 /\ BeforeMonth(5) = 153 /\ BeforeMonth(6) = 184 /\ BeforeMonth(7) = 214
  /\ BeforeMonth(8) = 245 /\ BeforeMonth(9) = 275 /\ BeforeMonth(10) = 306 /\ BeforeMonth(11) = 337
  BY DEF BeforeMonth

LEMMA LeapYears ==
  ASSUME NEW y \in Nat
  PROVE  BeforeYear(y + 4800) = BeforeYear(y + 4799) + (IF IsLeap(y) THEN 366 ELSE 365)
<1> DEFINE z == y + 4799
<1>1. /\ (z + 1) \div 4 = z \div 4 + (IF y % 4 = 0 THEN 1 ELSE 0)
      /\ (z + 1) \div 100 = z \div 100 + (IF y % 100 = 0 THEN 1 ELSE 0)
      /\ (z + 1) \div 400 = z \div 400 + (IF y % 400 = 0 THEN 1 ELSE 0)
  OBVIOUS
<1>2. /\ y % 400 = 0 => y % 100 = 0
      /\ y % 100 = 0 => y % 4 = 0
  OBVIOUS
<1>3. z \in Nat /\ z + 1 = y + 4800
  OBVIOUS
<1>4. z \div 4 \in Int /\ z \div 100 \in Int /\ z \div 400 \in Int
  OBVIOUS
<1>5. BeforeYear(z + 1) = BeforeYear(z) + (IF IsLeap(y) THEN 366 ELSE 365)
  BY <1>1, <1>2, <1>3, <1>4 DEF BeforeYear, IsLeap
<1> QED
  BY <1>3, <1>5

LEMMA MonthAfter ==
  ASSUME NEW y \in Nat, NEW m \in 1..11
  PROVE  JulianDayNumber(y, m + 1, 1) = JulianDayNumber(y, m, DaysOf(m, y)) + 1
<1>1. BeforeYear(y + 4799) \in Int /\ BeforeYear(y + 4800) \in Int
  BY DayTypes
<1>2. CASE m = 1
  <2>1. DaysOf(1, y) = 31
    BY DEF DaysOf
  <2>2. /\ JulianDayNumber(y, 2, 1) = 1 + (BeforeMonth(11) + BeforeYear(y + 4799) - 32045)
        /\ JulianDayNumber(y, 1, 31) = 31 + (BeforeMonth(10) + BeforeYear(y + 4799) - 32045)
    BY JdnEarly
  <2> QED
    BY <1>1, <1>2, <2>1, <2>2, MonthsAre
<1>3. CASE m = 2
  <2>1. DaysOf(2, y) = (IF IsLeap(y) THEN 29 ELSE 28) /\ DaysOf(2, y) \in Int
    BY DEF DaysOf
  <2>2. JulianDayNumber(y, 3, 1) = 1 + (BeforeMonth(0) + BeforeYear(y + 4800) - 32045)
    BY JdnLate
  <2>3. JulianDayNumber(y, 2, DaysOf(2, y)) =
          DaysOf(2, y) + (BeforeMonth(11) + BeforeYear(y + 4799) - 32045)
    BY <2>1, JdnEarly
  <2> QED
    BY <1>1, <1>3, <2>1, <2>2, <2>3, MonthsAre, LeapYears
<1>4. CASE m \in 3..11
  <2>1. DaysOf(m, y) = (IF m \in {4, 6, 9, 11} THEN 30 ELSE 31) /\ DaysOf(m, y) \in Int
    BY <1>4 DEF DaysOf
  <2>2. /\ JulianDayNumber(y, m + 1, 1) = 1 + (BeforeMonth((m + 1) - 3) + BeforeYear(y + 4800) - 32045)
        /\ JulianDayNumber(y, m, DaysOf(m, y)) =
             DaysOf(m, y) + (BeforeMonth(m - 3) + BeforeYear(y + 4800) - 32045)
    BY <1>4, <2>1, JdnLate
  <2>3. BeforeMonth((m + 1) - 3) = BeforeMonth(m - 3) + DaysOf(m, y)
    BY <1>4, <2>1, MonthsAre
  <2>4. BeforeMonth(m - 3) \in Int
    BY <1>4, DayTypes
  <2> QED
    BY <1>1, <2>1, <2>2, <2>3, <2>4
<1> QED
  BY <1>2, <1>3, <1>4

LEMMA YearAfter ==
  ASSUME NEW y \in Nat
  PROVE  JulianDayNumber(y + 1, 1, 1) = JulianDayNumber(y, 12, 31) + 1
<1>1. BeforeYear(y + 4800) \in Int /\ (y + 1) + 4799 = y + 4800 /\ y + 1 \in Nat
  BY DayTypes
<1>2. JulianDayNumber(y + 1, 1, 1) = 1 + (BeforeMonth(10) + BeforeYear(y + 4800) - 32045)
  BY <1>1, JdnEarly
<1>3. JulianDayNumber(y, 12, 31) = 31 + (BeforeMonth(9) + BeforeYear(y + 4800) - 32045)
  BY JdnLate
<1> QED
  BY <1>1, <1>2, <1>3, MonthsAre

LEMMA QuotientIs ==
  ASSUME NEW q \in Int, NEW rest \in Nat
  PROVE  /\ rest < 146097 => (146097 * q + rest) \div 146097 = q
         /\ rest < 1461 => (1461 * q + rest) \div 1461 = q
         /\ rest < 153 => (153 * q + rest) \div 153 = q
  OBVIOUS

\* The century h, its year r and the day k of it, of a day of the year.
LEMMA CenturyBack ==
  ASSUME NEW h \in Nat, NEW r \in Nat, r < 100, NEW doy \in Nat, doy < 366,
         doy = 365 => r % 4 = 3 /\ (r = 99 => h % 4 = 3)
  PROVE  LET k == doy + 365 * r + r \div 4
             a == k + 36524 * h + h \div 4
         IN /\ (4 * a + 3) \div 146097 = h
            /\ a - (h * 146097) \div 4 = k
            /\ (4 * k + 3) \div 1461 = r
            /\ k - (1461 * r) \div 4 = doy
<1> DEFINE k == doy + 365 * r + r \div 4
           a == k + 36524 * h + h \div 4
<1>1. r \div 4 \in Nat /\ r \div 4 <= 24 /\ r % 4 \in Nat /\ r % 4 < 4 /\ 4 * (r \div 4) = r - (r % 4)
  OBVIOUS
<1>2. h \div 4 \in Nat /\ h % 4 \in Nat /\ h % 4 < 4 /\ 4 * (h \div 4) = h - (h % 4)
  OBVIOUS
<1>3. k \in Nat /\ 4 * k + 3 = 1461 * r + ((4 * doy + 3) - (r % 4))
  BY <1>1
<1>4. (4 * doy + 3) - (r % 4) \in Nat /\ (4 * doy + 3) - (r % 4) < 1461
  BY <1>1
<1>5. (4 * k + 3) \div 1461 = r
  BY <1>3, <1>4
<1>6. k - (1461 * r) \div 4 = doy
  OBVIOUS
<1>7. a \in Nat /\ 4 * a + 3 = 146097 * h + ((4 * k + 3) - (h % 4))
  BY <1>2, <1>3
<1>8. (4 * k + 3) - (h % 4) \in Nat /\ (4 * k + 3) - (h % 4) < 146097
  <2>1. CASE doy = 365 /\ r = 99
    <3>1. k = 365 + 365 * 99 + 24
      BY <2>1, <1>1
    <3>2. h % 4 = 3
      BY <2>1
    <3> QED
      BY <3>1, <3>2
  <2>2. CASE doy # 365 \/ r # 99
    <3>1. doy + 365 * r <= 36499
      BY <2>2
    <3>2. k <= 36523
      BY <1>1, <3>1
    <3>3. 4 * k + 3 <= 146095 /\ 4 * k + 3 >= 3 /\ 4 * k + 3 \in Int
      BY <1>3, <3>2
    <3> HIDE DEF k
    <3> QED
      BY <1>2, <3>3
  <2> QED
    BY <2>1, <2>2
<1>9. (4 * a + 3) \div 146097 = h
  <2> DEFINE rest == (4 * k + 3) - (h % 4)
  <2>1. rest \in Nat /\ rest < 146097 /\ 4 * a + 3 = 146097 * h + rest
    BY <1>7, <1>8
  <2> HIDE DEF a, k, rest
  <2> QED
    BY <2>1, QuotientIs
<1>10. a - (h * 146097) \div 4 = k
  BY <1>2, <1>3
<1> QED
  BY <1>5, <1>6, <1>9, <1>10

\* Year r of century h, and the days before it.
InCentury(y, h, r) ==
  /\ r < 100 /\ y = 100 * h + r
  /\ BeforeYear(y) = 365 * r + r \div 4 + 36524 * h + h \div 4
  /\ y % 4 = 3 => r % 4 = 3
  /\ y % 400 = 399 => h % 4 = 3
  /\ y % 100 = 99 <=> r = 99

LEMMA CenturyIs ==
  ASSUME NEW y \in Nat
  PROVE  \E h \in Nat, r \in Nat : InCentury(y, h, r)
<1> DEFINE h == y \div 100
           r == y % 100
<1>1. h \in Nat /\ r \in Nat /\ r < 100 /\ y = 100 * h + r
  OBVIOUS
<1>2. y \div 4 = 25 * h + r \div 4 /\ y \div 400 = h \div 4
  BY <1>1
<1>3. /\ y % 4 = 3 => r % 4 = 3
      /\ y % 400 = 399 => h % 4 = 3
  BY <1>1
<1>4. BeforeYear(y) = 365 * r + r \div 4 + 36524 * h + h \div 4
  BY <1>1, <1>2 DEF BeforeYear
<1> HIDE DEF h
<1>5. y % 100 = 99 <=> r = 99
  OBVIOUS
<1> HIDE DEF r
<1>6. InCentury(y, h, r)
  BY <1>1, <1>3, <1>4, <1>5 DEF InCentury
<1> QED
  BY <1>1, <1>6

\* The month M that begins doy - d + 1 days after March 1, of a day of the year.
LEMMA MonthBack ==
  ASSUME NEW m \in Nat, m < 12, NEW d \in Nat, d > 0,
         d <= 30 \/ (d = 31 /\ m \in {0, 2, 4, 5, 7, 9, 10})
  PROVE  LET e == BeforeMonth(m) + d - 1
         IN /\ (5 * e + 2) \div 153 = m
            /\ e \in Nat
            /\ e - (153 * m + 2) \div 5 + 1 = d
<1> DEFINE e == BeforeMonth(m) + d - 1
           x == (153 * m + 2) % 5
<1>1. /\ BeforeMonth(m) = (153 * m + 2) \div 5 /\ BeforeMonth(m) \in Nat
      /\ 5 * BeforeMonth(m) = 153 * m + 2 - x
      /\ x \in Nat /\ x < 5
  BY DEF BeforeMonth
<1>2. d = 31 => x >= 2
  OBVIOUS
<1> HIDE DEF x
<1>3. 5 * e + 2 = 153 * m + (5 * d - 1 - x) /\ 5 * d - 1 - x \in Nat /\ 5 * d - 1 - x < 153
  BY <1>1, <1>2
<1>4. (5 * e + 2) \div 153 = m
  BY <1>3, QuotientIs
<1> QED
  BY <1>1, <1>4

\* A day, counted in years that begin in March.
LEMMA MarchBack ==
  ASSUME NEW y \in Nat, NEW m \in Nat, m < 12, NEW d \in Nat, d > 0,
         d <= 30 \/ (d = 31 /\ m \in {0, 2, 4, 5, 7, 9, 10}),
         m = 11 => d <= 29,
         m = 11 /\ d = 29 => y % 4 = 3 /\ (y % 100 = 99 => y % 400 = 399)
  PROVE  YearMonthDay(d + (BeforeMonth(m) + BeforeYear(y) - 32045)) =
           [year |-> y - 4800 + m \div 10, month |-> m + 3 - 12 * (m \div 10), day |-> d]
<1> DEFINE e == BeforeMonth(m) + d - 1
<1>1. /\ (5 * e + 2) \div 153 = m
      /\ e \in Nat
      /\ e - (153 * m + 2) \div 5 + 1 = d
  BY MonthBack
<1>2. e < 366 /\ (e = 365 => m = 11 /\ d = 29)
  BY MonthsAre
<1>3. PICK h \in Nat, r \in Nat : InCentury(y, h, r)
  BY CenturyIs, Zenon
<1> DEFINE k == e + 365 * r + r \div 4
           a == k + 36524 * h + h \div 4
<1>4. e = 365 => r % 4 = 3 /\ (r = 99 => h % 4 = 3)
  BY <1>2, <1>3 DEF InCentury
<1>5. BeforeMonth(m) \in Int
  BY DayTypes
<1>6. d + (BeforeMonth(m) + BeforeYear(y) - 32045) + 32044 = a
  BY <1>3, <1>5 DEF InCentury
<1> HIDE DEF e
<1>7. /\ (4 * a + 3) \div 146097 = h
      /\ a - (h * 146097) \div 4 = k
      /\ (4 * k + 3) \div 1461 = r
      /\ k - (1461 * r) \div 4 = e
  BY <1>1, <1>2, <1>3, <1>4, CenturyBack DEF InCentury
<1> HIDE DEF a, k
<1>8. YearMonthDay(d + (BeforeMonth(m) + BeforeYear(y) - 32045)) =
        [year |-> h * 100 + r - 4800 + m \div 10,
         month |-> m + 3 - 12 * (m \div 10),
         day |-> e - (153 * m + 2) \div 5 + 1]
  BY <1>1, <1>6, <1>7 DEF YearMonthDay
<1> QED
  BY <1>1, <1>3, <1>8 DEF InCentury

\* A month has these days.
LEMMA DaysOfIs ==
  ASSUME NEW y \in Nat, NEW m \in 1..12
  PROVE  /\ DaysOf(m, y) \in Nat /\ DaysOf(m, y) >= 28 /\ DaysOf(m, y) <= 31
         /\ DaysOf(m, y) = 31 => m \in {1, 3, 5, 7, 8, 10, 12}
         /\ m = 2 => DaysOf(m, y) = IF IsLeap(y) THEN 29 ELSE 28
  BY DEF DaysOf

\* get_year_month_day leads back to every day of the calendar.
LEMMA DateBack ==
  ASSUME NEW y \in Nat, NEW m \in 1..12, NEW d \in Nat, d > 0, d <= DaysOf(m, y)
  PROVE  YearMonthDay(JulianDayNumber(y, m, d)) = [year |-> y, month |-> m, day |-> d]
<1>0. /\ d <= 30 \/ (d = 31 /\ m \in {1, 3, 5, 7, 8, 10, 12})
      /\ m = 2 => d <= 29 /\ (d = 29 => IsLeap(y))
  BY DEF DaysOf
<1>1. CASE m \in 1..2
  <2> DEFINE n == m + 9
             z == y + 4799
  <2>1. n \in Nat /\ n < 12 /\ z \in Nat /\ n \div 10 = 1 /\ n + 3 - 12 * (n \div 10) = m
    BY <1>1
  <2>2. d <= 30 \/ (d = 31 /\ n \in {0, 2, 4, 5, 7, 9, 10})
    BY <1>0, <1>1
  <2>3. n = 11 => d <= 29
    BY <1>0, <1>1
  <2>4. n = 11 /\ d = 29 => IsLeap(y)
    BY <1>0, <1>1
  <2>5. /\ y % 4 = 0 => z % 4 = 3
        /\ y % 100 # 0 => z % 100 # 99
        /\ y % 400 = 0 => z % 400 = 399
    OBVIOUS
  <2>6. n = 11 /\ d = 29 => z % 4 = 3 /\ (z % 100 = 99 => z % 400 = 399)
    BY <2>4, <2>5 DEF IsLeap
  <2>7. JulianDayNumber(y, m, d) = d + (BeforeMonth(n) + BeforeYear(z) - 32045)
    BY <1>1, JdnEarly
  <2>8. z - 4800 + n \div 10 = y
    BY <2>1
  <2> HIDE DEF n, z
  <2>9. YearMonthDay(d + (BeforeMonth(n) + BeforeYear(z) - 32045)) =
          [year |-> z - 4800 + n \div 10, month |-> n + 3 - 12 * (n \div 10), day |-> d]
    BY <2>1, <2>2, <2>3, <2>6, MarchBack
  <2> QED
    BY <2>1, <2>7, <2>8, <2>9
<1>2. CASE m \in 3..12
  <2> DEFINE n == m - 3
             z == y + 4800
  <2>1. n \in Nat /\ n < 12 /\ n # 11 /\ z \in Nat /\ n \div 10 = 0 /\ n + 3 - 12 * (n \div 10) = m
    BY <1>2
  <2>2. d <= 30 \/ (d = 31 /\ n \in {0, 2, 4, 5, 7, 9, 10})
    BY <1>0, <1>2
  <2>3. JulianDayNumber(y, m, d) = d + (BeforeMonth(n) + BeforeYear(z) - 32045)
    BY <1>2, JdnLate
  <2>4. z - 4800 + n \div 10 = y
    BY <2>1
  <2> HIDE DEF n, z
  <2>5. YearMonthDay(d + (BeforeMonth(n) + BeforeYear(z) - 32045)) =
          [year |-> z - 4800 + n \div 10, month |-> n + 3 - 12 * (n \div 10), day |-> d]
    BY <2>1, <2>2, MarchBack
  <2> QED
    BY <2>1, <2>3, <2>4, <2>5
<1> QED
  BY <1>1, <1>2

LEMMA MonthLength ==
  ASSUME NEW y \in Nat, NEW m \in 1..12
  PROVE  DaysOf(m, y) \in Nat /\ DaysOf(m, y) >= 28
  BY DEF DaysOf

\* Every year has a number for its first day.
LEMMA NewYear ==
  ASSUME NEW y \in Nat
  PROVE  JulianDayNumber(y, 1, 1) \in Int
<1>1. 1 \in 1..12 /\ 1 \in Int
  OBVIOUS
<1> QED
  BY <1>1, DayAfter, Zenon

(* The clock: seconds of a day, and of all days.                           *)

LEMMA ClockBack ==
  ASSUME NEW s \in Nat
  PROVE  /\ s \div 3600 \in Nat /\ (s \div 60) % 60 \in Nat /\ s % 60 \in Nat
         /\ (s \div 60) % 60 < 60 /\ s % 60 < 60
         /\ (s \div 3600) * 3600 + ((s \div 60) % 60) * 60 + (s % 60) = s
<1> DEFINE q == s \div 60
<1>1. s \div 3600 = q \div 60
  OBVIOUS
<1>2. q \in Nat /\ s = 60 * q + (s % 60) /\ s % 60 \in Nat /\ s % 60 < 60
  OBVIOUS
<1> HIDE DEF q
<1>3. q \div 60 \in Nat /\ q = 60 * (q \div 60) + (q % 60) /\ q % 60 \in Nat /\ q % 60 < 60
  BY <1>2
<1>4. (q \div 60) * 3600 + (q % 60) * 60 + (s % 60) = s
  BY <1>2, <1>3
<1>5. (s \div 60) % 60 = q % 60
  BY DEF q
<1> QED
  BY <1>1, <1>2, <1>3, <1>4, <1>5

\* to_utc_time finds the day of a second, and the second of it, before 1970 as after.
LEMMA SecondBack ==
  ASSUME NEW d \in Int, NEW s \in Nat, s < SecondsPerDay
  PROVE  ToUtcTime(d * SecondsPerDay + s) = Broken(d, s)
<1> DEFINE n == d * 86400 + s
<1>1. n \in Int /\ n \div 86400 = d /\ n % 86400 = s
  BY DEF SecondsPerDay
<1>2. CASE n >= 0 \/ s = 0
  <2>1. Quot(n, 86400) = d
    BY <1>1, <1>2 DEF Quot
  <2>2. Rem(n, 86400) = s /\ ~(s < 0)
    BY <2>1 DEF Rem
  <2> HIDE DEF n
  <2>3. ToUtcTime(n) = Broken(d, s)
    BY <2>1, <2>2 DEF ToUtcTime, SecondsPerDay
  <2> QED
    BY <2>3 DEF n, SecondsPerDay
<1>3. CASE ~(n >= 0 \/ s = 0)
  <2>1. Quot(n, 86400) = d + 1
    BY <1>1, <1>3 DEF Quot
  <2>2. Rem(n, 86400) = s - 86400 /\ s - 86400 < 0
    BY <2>1 DEF Rem, SecondsPerDay
  <2>3. (d + 1) - 1 = d /\ (s - 86400) + 86400 = s
    OBVIOUS
  <2> HIDE DEF n
  <2>4. ToUtcTime(n) = Broken(d, s)
    BY <2>1, <2>2, <2>3 DEF ToUtcTime, SecondsPerDay
  <2> QED
    BY <2>4 DEF n, SecondsPerDay
<1> QED
  BY <1>2, <1>3

(* The walk stays on days of the calendar, and counts them.                *)

OnCalendar ==
  /\ year \in Nat /\ month \in 1..12
  /\ day \in Nat /\ day > 0 /\ day <= DaysOf(month, year)
  /\ yday = JulianDayNumber(year, month, day) - JulianDayNumber(year, 1, 1)
  /\ days \in Nat
  /\ JulianDayNumber(year, month, day) = JulianDayNumber(FirstYear, 1, 1) + days

LEMMA YearsAre == FirstYear \in Nat /\ JulianDayNumber(FirstYear, 1, 1) \in Int
  BY CalendarAssumption, NewYear

LEMMA FirstDayOn == FirstDay => OnCalendar
<1> SUFFICES ASSUME FirstDay PROVE OnCalendar
  OBVIOUS
<1>1. year \in Nat /\ month \in 1..12 /\ day \in Nat /\ day > 0 /\ days \in Nat
  BY YearsAre DEF FirstDay
<1>2. DaysOf(month, year) \in Nat /\ DaysOf(month, year) >= 28
  BY <1>1, MonthLength, Zenon
<1>3. /\ yday = JulianDayNumber(year, month, day) - JulianDayNumber(year, 1, 1)
      /\ JulianDayNumber(year, month, day) = JulianDayNumber(FirstYear, 1, 1) + days
  BY YearsAre DEF FirstDay
<1>4. day = 1
  BY DEF FirstDay
<1> QED
  BY <1>1, <1>2, <1>3, <1>4 DEF OnCalendar

LEMMA NextDateOn == OnCalendar /\ [NextDate]_walkVars => OnCalendar'
<1> SUFFICES ASSUME OnCalendar, [NextDate]_walkVars PROVE OnCalendar'
  OBVIOUS
<1> DEFINE jdn == JulianDayNumber(year, month, day)
           newYear == JulianDayNumber(year, 1, 1)
           first == JulianDayNumber(FirstYear, 1, 1)
<1>1. /\ year \in Nat /\ month \in 1..12 /\ day \in Nat /\ day \in Int /\ day > 0
      /\ days \in Nat /\ day <= DaysOf(month, year)
      /\ yday = jdn - newYear /\ jdn = first + days
  BY DEF OnCalendar
<1>2. jdn \in Int /\ JulianDayNumber(year, month, day + 1) = jdn + 1
  BY <1>1, DayAfter, Zenon
<1>3. 1 \in 1..12 /\ 1 \in Int
  OBVIOUS
<1>4. newYear \in Int /\ first \in Int
  BY <1>1, NewYear, YearsAre, Zenon
<1>5. DaysOf(month, year) \in Nat
  BY <1>1, MonthLength, Zenon
<1>6. CASE NextDay
  <2>1. /\ day' = day + 1 /\ yday' = yday + 1 /\ days' = days + 1
        /\ year' = year /\ month' = month /\ day < DaysOf(month, year)
    BY <1>6 DEF NextDay
  <2>2. day + 1 \in Nat /\ day + 1 > 0 /\ day + 1 <= DaysOf(month, year) /\ days + 1 \in Nat
    BY <1>1, <1>5, <2>1
  <2>3. JulianDayNumber(year', month', day') = jdn + 1
    BY <1>2, <2>1
  <2>4. yday + 1 = (jdn + 1) - newYear /\ jdn + 1 = first + (days + 1)
    BY <1>1, <1>2, <1>4
  <2> HIDE DEF jdn, newYear, first
  <2>5. yday' = JulianDayNumber(year', month', day') - newYear
    BY <2>1, <2>3, <2>4
  <2>6. JulianDayNumber(year', month', day') = first + days'
    BY <2>1, <2>3, <2>4
  <2> QED
    BY <1>1, <2>1, <2>2, <2>5, <2>6 DEF OnCalendar, newYear, first
<1>7. CASE NextMonth
  <2>1. /\ month' = month + 1 /\ day' = 1 /\ yday' = yday + 1 /\ days' = days + 1
        /\ year' = year /\ day = DaysOf(month, year) /\ month < 12
    BY <1>7 DEF NextMonth
  <2>2. month \in 1..11 /\ month + 1 \in 1..12 /\ days + 1 \in Nat
    BY <1>1, <2>1
  <2>3. JulianDayNumber(year', month', day') = jdn + 1
    BY <1>1, <2>1, <2>2, MonthAfter
  <2>4. DaysOf(month + 1, year) \in Nat /\ DaysOf(month + 1, year) >= 28
    BY <1>1, <2>2, MonthLength, Zenon
  <2>5. yday + 1 = (jdn + 1) - newYear /\ jdn + 1 = first + (days + 1)
    BY <1>1, <1>2, <1>4
  <2> HIDE DEF jdn, newYear, first
  <2>6. yday' = JulianDayNumber(year', month', day') - newYear
    BY <2>1, <2>3, <2>5
  <2>7. JulianDayNumber(year', month', day') = first + days'
    BY <2>1, <2>3, <2>5
  <2>8. day' \in Nat /\ day' > 0 /\ day' <= DaysOf(month', year')
    BY <2>1, <2>4
  <2> QED
    BY <1>1, <2>1, <2>2, <2>6, <2>7, <2>8 DEF OnCalendar, newYear, first
<1>8. CASE NextYear
  <2>1. /\ year' = year + 1 /\ month' = 1 /\ day' = 1 /\ yday' = 0 /\ days' = days + 1
        /\ month = 12 /\ day = 31
    BY <1>8 DEF NextYear
  <2>2. year + 1 \in Nat /\ days + 1 \in Nat
    BY <1>1
  <2>3. JulianDayNumber(year', month', day') = jdn + 1
    BY <1>1, <2>1, YearAfter
  <2>4. DaysOf(1, year + 1) \in Nat /\ DaysOf(1, year + 1) >= 28
    BY <1>3, <2>2, MonthLength
  <2>5. jdn + 1 = first + (days + 1)
    BY <1>1, <1>2, <1>4
  <2>6. JulianDayNumber(year', month', day') = first + days'
    BY <2>1, <2>3, <2>5
  <2>7. day' \in Nat /\ day' > 0 /\ day' <= DaysOf(month', year') /\ month' \in 1..12
    BY <2>1, <2>4
  <2>8. JulianDayNumber(year', month', day') = JulianDayNumber(year', 1, 1)
    BY <2>1
  <2>9. yday' = JulianDayNumber(year', month', day') - JulianDayNumber(year', 1, 1)
    <3>1. JulianDayNumber(year', 1, 1) \in Int
      BY <1>2, <2>3, <2>8
    <3> QED
      BY <2>1, <2>8, <3>1
  <2> QED
    BY <2>1, <2>2, <2>6, <2>7, <2>9 DEF OnCalendar
<1>9. CASE UNCHANGED walkVars
  BY <1>1, <1>9 DEF walkVars, OnCalendar
<1> QED
  BY <1>6, <1>7, <1>8, <1>9 DEF NextDate

\* The day of the week of the first day.
LEMMA FirstWeekDayIs == WeekDay(JulianDayNumber(FirstYear, 1, 1)) = FirstWeekDay
<1> DEFINE y == FirstYear
           z == y + 4799
<1>1. y \in Nat /\ FirstWeekDay = (6 + 365 * y + LeapYearsBefore(y)) % 7
  BY CalendarAssumption
<1>2. JulianDayNumber(y, 1, 1) = 1 + (306 + BeforeYear(z) - 32045)
  BY <1>1, JdnEarly, MonthsAre
<1>3. /\ z \div 4 = (y + 3) \div 4 + 1199
      /\ z \div 100 = (y + 99) \div 100 + 47
      /\ z \div 400 = (y + 399) \div 400 + 11
  BY <1>1
<1>4. LeapYearsBefore(y) \in Int /\ BeforeYear(z) = z * 365 + LeapYearsBefore(y) + 1163
  BY <1>1, <1>3 DEF LeapYearsBefore, BeforeYear
<1> QED
  BY <1>1, <1>2, <1>4 DEF WeekDay

LEMMA DaysAreConsecutive == OnCalendar => DaysAgree
<1> SUFFICES ASSUME OnCalendar PROVE DaysAgree
  OBVIOUS
<1>1. DateRoundTrip
  BY DateBack DEF OnCalendar, DateRoundTrip
<1> DEFINE first == JulianDayNumber(FirstYear, 1, 1)
           jdn == JulianDayNumber(year, month, day)
<1>2. first \in Int /\ WeekDay(first) = FirstWeekDay /\ jdn = first + days /\ days \in Nat
  BY YearsAre, FirstWeekDayIs DEF OnCalendar
<1> HIDE DEF first, jdn
<1>3. WeekDay(jdn) = (FirstWeekDay + days) % 7
  BY <1>2 DEF WeekDay
<1>4. Consecutive
  BY <1>2, <1>3 DEF Consecutive, first, jdn
<1> QED
  BY <1>1, <1>4 DEF DaysAgree

LEMMA SecondsAgree == OnCalendar => UtcRoundTrip
<1> SUFFICES ASSUME OnCalendar, NEW s \in SampleSeconds
    PROVE  LET seconds == Instant(s)
               utc == ToUtcTime(seconds)
           IN /\ FromUtcTime(utc) = seconds
              /\ utc.tm_hour * 3600 + utc.tm_min * 60 + utc.tm_sec = s
              /\ utc.tm_min < 60 /\ utc.tm_sec < 60
              /\ utc.tm_year = year - 1900 /\ utc.tm_mon = month - 1 /\ utc.tm_mday = day
              /\ utc.tm_yday = yday
  BY DEF UtcRoundTrip
<1> DEFINE jdn == JulianDayNumber(year, month, day)
           d == jdn - JulianDayOf1970
           utc == ToUtcTime(Instant(s))
<1>1. s \in Nat /\ s < SecondsPerDay
  <2>1. SecondsPerDay \in Int
    BY DEF SecondsPerDay
  <2> QED
    BY <2>1, CalendarAssumption
<1>2. jdn \in Int /\ JulianDayOf1970 \in Int
  <2>1. year \in Nat /\ month \in 1..12 /\ day \in Int
    BY DEF OnCalendar
  <2>2. jdn \in Int
    BY <2>1, DayAfter, Zenon
  <2>3. JulianDayNumber(1970, 1, 1) \in Int
    BY NewYear
  <2> QED
    BY <2>2, <2>3 DEF JulianDayOf1970
<1>3. d \in Int /\ d + JulianDayOf1970 = jdn
  BY <1>2
<1>4. Instant(s) = d * SecondsPerDay + s
  BY DEF Instant
<1>5. YearMonthDay(jdn) = [year |-> year, month |-> month, day |-> day]
  BY DateBack DEF OnCalendar
<1> HIDE DEF jdn, d
<1>6. utc = Broken(d, s)
  BY <1>1, <1>3, <1>4, SecondBack
<1> HIDE DEF utc
<1>7. utc = [tm_sec |-> s % 60, tm_min |-> (s \div 60) % 60, tm_hour |-> s \div 3600,
             tm_year |-> year - 1900, tm_mon |-> month - 1, tm_mday |-> day,
             tm_wday |-> WeekDay(jdn), tm_yday |-> jdn - JulianDayNumber(year, 1, 1)]
  BY <1>3, <1>5, <1>6 DEF Broken
<1>8. /\ utc.tm_hour * 3600 + utc.tm_min * 60 + utc.tm_sec = s
      /\ utc.tm_hour \in Nat /\ utc.tm_min \in Nat /\ utc.tm_sec \in Nat
      /\ utc.tm_min < 60 /\ utc.tm_sec < 60
  BY <1>1, <1>7, ClockBack
<1>9. /\ utc.tm_year = year - 1900 /\ utc.tm_mon = month - 1 /\ utc.tm_mday = day
      /\ utc.tm_yday = yday
  BY <1>7 DEF OnCalendar, jdn
<1>10. utc.tm_year + 1900 = year /\ utc.tm_mon + 1 = month
  BY <1>9 DEF OnCalendar
<1>11. FromUtcTime(utc) = d * SecondsPerDay + utc.tm_hour * 3600 + utc.tm_min * 60 + utc.tm_sec
  BY <1>9, <1>10 DEF FromUtcTime, d, jdn
<1>12. FromUtcTime(utc) = Instant(s)
  <2>1. utc.tm_hour * 3600 \in Nat /\ utc.tm_min * 60 \in Nat /\ d * SecondsPerDay \in Int
    BY <1>3, <1>8 DEF SecondsPerDay
  <2> QED
    BY <1>1, <1>4, <1>8, <1>11, <2>1
<1> QED
  BY <1>8, <1>9, <1>12 DEF utc

(* On every day of the calendar, from any year on: Julian day numbers      *)
(* follow each other as the days do and lead back to them, days of the     *)
(* week are right, and to_utc_time and from_utc_time are inverse and agree *)
(* with the calendar, before 1970 as after.                                *)
THEOREM CalendarIsTrue == Walk => []CalendarAgrees
<1>1. OnCalendar => CalendarAgrees
  BY DaysAreConsecutive, SecondsAgree DEF CalendarAgrees
<1> QED
  BY <1>1, FirstDayOn, NextDateOn, PTL DEF Walk

-------------------------------------------------------------------------------
(* time_zone: local time.                                                  *)

\* A set of numbers has a least one.
LEMMA NatMin ==
  ASSUME NEW S, S \subseteq Nat, S # {}
  PROVE  \E x \in S : \A y \in S : x <= y
<1> DEFINE Lower == OpToRel(<, Nat)
<1>1. IsWellFoundedOn(Lower, Nat)
  BY NatLessThanWellFounded
<1>2. Lower = {p \in Nat \X Nat : p[1] < p[2]}
  BY DEF OpToRel
<1> HIDE DEF Lower
<1>3. PICK x \in S : \A y \in S : ~(<<y, x>> \in Lower)
  BY <1>1, WFMin
<1>4. ASSUME NEW y \in S PROVE x <= y
  <2>1. <<y, x>> \notin Lower /\ x \in Nat /\ y \in Nat
    BY <1>3
  <2>2. ~(y < x)
    BY <1>2, <2>1
  <2> QED
    BY <2>1, <2>2
<1> QED
  BY <1>4

(* A zone from its file.                                                   *)

\* The transitions of a file, when they are, and the localtime from each of them on.
Count(file) == Len(file.trans)
At(file, k) == file.trans[k].at
LocalFrom(file, k) == file.localtimes[IF k = 0 THEN 1 ELSE file.trans[k].idx]

\* The same instant in UTC and in the local time that begins with it.
KeyAt(file, k, gmt) == IF gmt THEN At(file, k) ELSE At(file, k) + LocalFrom(file, k).gmtOffset

LEMMA FileIs ==
  ASSUME NEW file \in Files
  PROVE  /\ Count(file) \in Nat /\ DOMAIN file.trans = 1..Count(file)
         /\ Len(file.localtimes) \in Nat /\ Len(file.localtimes) > 0
         /\ DOMAIN file.localtimes = 1..Len(file.localtimes)
         /\ file.charcnt \in Nat
         /\ \A k \in 1..Count(file) : At(file, k) \in Int /\ file.trans[k].idx \in 1..Len(file.localtimes)
<1> DEFINE L == [gmtOffset : Int, isDst : BOOLEAN, abbrIdx : 0..file.charcnt]
           T == [at : Int, idx : DOMAIN file.localtimes]
<1>1. WellFormed(file)
  BY TimeZoneAssumption
<1>2. file.localtimes \in Seq(L) /\ file.localtimes # <<>> /\ file.trans \in Seq(T) /\ file.charcnt \in Nat
  BY <1>1 DEF WellFormed
<1> HIDE DEF L, T
<1>3. Len(file.localtimes) \in Nat \ {0} /\ DOMAIN file.localtimes = 1..Len(file.localtimes)
  BY <1>2, EmptySeq, LenProperties
<1>4. \A k \in 1..Len(file.trans) : file.trans[k] \in T
  BY <1>2, ElementOfSeq
<1>5. Len(file.trans) \in Nat /\ DOMAIN file.trans = 1..Len(file.trans)
  BY <1>2, LenProperties
<1>6. \A k \in 1..Len(file.trans) : file.trans[k].at \in Int /\ file.trans[k].idx \in 1..Len(file.localtimes)
  BY <1>3, <1>4 DEF T
<1> QED
  BY <1>2, <1>3, <1>5, <1>6 DEF Count, At

LEMMA LocalIs ==
  ASSUME NEW file \in Files, NEW k \in 0..Count(file)
  PROVE  /\ LessThanADay(LocalFrom(file, k).gmtOffset)
         /\ LocalFrom(file, k).gmtOffset \in Int
         /\ LocalFrom(file, k).isDst \in BOOLEAN
         /\ LocalFrom(file, k).abbrIdx <= file.charcnt
<1> DEFINE L == [gmtOffset : Int, isDst : BOOLEAN, abbrIdx : 0..file.charcnt]
           i == IF k = 0 THEN 1 ELSE file.trans[k].idx
<1>1. i \in 1..Len(file.localtimes)
  BY FileIs
<1>2. WellFormed(file)
  BY TimeZoneAssumption
<1>3. file.localtimes \in Seq(L)
  BY <1>2 DEF WellFormed
<1> HIDE DEF i
<1>4. LessThanADay(file.localtimes[i].gmtOffset)
  <2>1. i \in DOMAIN file.localtimes
    BY <1>1, FileIs
  <2> QED
    BY <1>2, <2>1 DEF WellFormed
<1>5. file.localtimes[i] \in L
  <2> HIDE DEF L
  <2> QED
    BY <1>1, <1>3, ElementOfSeq
<1>6. LocalFrom(file, k) = file.localtimes[i]
  BY DEF LocalFrom, i
<1>7. file.charcnt \in Nat
  BY FileIs
<1> QED
  BY <1>4, <1>5, <1>6, <1>7

LEMMA HourAhead ==
  ASSUME NEW file \in Files, NEW j \in 0..Count(file), NEW k \in 0..Count(file)
  PROVE  LocalFrom(file, j).gmtOffset - LocalFrom(file, k).gmtOffset =
           (IF LocalFrom(file, j).isDst THEN 3600 ELSE 0) - (IF LocalFrom(file, k).isDst THEN 3600 ELSE 0)
<1> DEFINE p == IF j = 0 THEN 1 ELSE file.trans[j].idx
           q == IF k = 0 THEN 1 ELSE file.trans[k].idx
<1>1. p \in DOMAIN file.localtimes /\ q \in DOMAIN file.localtimes
  BY FileIs
<1>2. OneHourAhead(file)
  BY TimeZoneAssumption
<1> QED
  BY <1>1, <1>2 DEF OneHourAhead, LocalFrom

LEMMA HoursApart ==
  ASSUME NEW file \in Files, NEW j \in 1..Count(file), NEW k \in 1..Count(file), j < k
  PROVE  At(file, j) + 7200 <= At(file, k)
<1>1. OneHourAhead(file)
  BY TimeZoneAssumption
<1> QED
  BY <1>1, FileIs DEF OneHourAhead, At

LEMMA KeysAscend ==
  ASSUME NEW file \in Files, NEW gmt \in BOOLEAN,
         NEW j \in 1..Count(file), NEW k \in 1..Count(file), j < k
  PROVE  KeyAt(file, j, gmt) < KeyAt(file, k, gmt)
<1>1. At(file, j) \in Int /\ At(file, k) \in Int /\ j \in 0..Count(file) /\ k \in 0..Count(file)
  BY FileIs
<1>2. At(file, j) + 7200 <= At(file, k)
  BY HoursApart
<1>3. LocalFrom(file, j).gmtOffset \in Int /\ LocalFrom(file, k).gmtOffset \in Int
  BY <1>1, LocalIs
<1>4. LocalFrom(file, j).gmtOffset - LocalFrom(file, k).gmtOffset <= 3600
  BY <1>1, <1>3, HourAhead
<1> QED
  BY <1>1, <1>2, <1>3, <1>4 DEF KeyAt

LEMMA KeysAre ==
  ASSUME NEW file \in Files, NEW gmt \in BOOLEAN, NEW k \in 1..Count(file)
  PROVE  KeyAt(file, k, gmt) \in Int
  BY FileIs, LocalIs DEF KeyAt

(* What readTimeZoneFile makes of a file that is read to its end.          *)
LEMMA DataIs ==
  ASSUME NEW file \in Files
  PROVE  /\ Data(file).localtimes = file.localtimes
         /\ Data(file).transitions = [k \in 1..Count(file) |-> Transition(file, file.trans[k])]
         /\ Data(file).abbreviation = file.charcnt
<1>1. /\ Len(file.trans) \in Nat /\ Len(file.localtimes) \in Nat /\ file.charcnt \in Nat
      /\ DOMAIN file.trans = 1..Len(file.trans)
      /\ DOMAIN file.localtimes = 1..Len(file.localtimes)
  BY FileIs DEF Count
<1> DEFINE bytes == FileBytes(file)
           read == (bytes - BytesBeforeTypes(file)) \div 6
           types == {k \in DOMAIN file.localtimes : k <= read}
<1>2. /\ BytesBeforeTypes(file) \in Nat
      /\ BytesBeforeNames(file) = BytesBeforeTypes(file) + 6 * Len(file.localtimes)
      /\ bytes = BytesBeforeTypes(file) + 6 * Len(file.localtimes) + file.charcnt
  BY <1>1 DEF FileBytes, BytesBeforeNames, BytesBeforeTypes
<1> HIDE DEF bytes
<1>3. /\ bytes \in Nat /\ bytes >= TransitionsAfter(file) /\ TransitionsAfter(file) \in Nat
      /\ read >= Len(file.localtimes) /\ read \in Int
  <2> DEFINE before == BytesBeforeTypes(file)
             count == Len(file.localtimes)
  <2>1. /\ before \in Nat /\ count \in Nat /\ file.charcnt \in Nat
        /\ bytes = before + 6 * count + file.charcnt
        /\ TransitionsAfter(file) = before + 6 * count
        /\ read = (bytes - before) \div 6
    BY <1>1, <1>2 DEF TransitionsAfter
  <2> HIDE DEF before, count, read
  <2>2. /\ bytes \in Nat /\ bytes >= TransitionsAfter(file) /\ TransitionsAfter(file) \in Nat
    BY <2>1
  <2>3. read >= count /\ read \in Int
    BY <2>1
  <2> QED
    BY <2>2, <2>3 DEF count
<1> HIDE DEF read
<1>4. types = DOMAIN file.localtimes
  BY <1>1, <1>3
<1>5. [k \in types |-> file.localtimes[k]] = file.localtimes
  <2>1. WellFormed(file)
    BY TimeZoneAssumption
  <2> DEFINE L == [gmtOffset : Int, isDst : BOOLEAN, abbrIdx : 0..file.charcnt]
  <2>2. file.localtimes \in Seq(L)
    BY <2>1 DEF WellFormed
  <2> HIDE DEF L
  <2>3. file.localtimes \in [1..Len(file.localtimes) -> L]
    BY <2>2, LenProperties
  <2> QED
    BY <1>1, <1>4, <2>3
<1>6. Data(file) =
        [localtimes |-> [k \in types |-> file.localtimes[k]],
         transitions |-> IF bytes < TransitionsAfter(file) THEN <<>>
                         ELSE [k \in DOMAIN file.trans |-> Transition(file, file.trans[k])],
         abbreviation |-> IF bytes < FileBytes(file) THEN 0 ELSE file.charcnt]
  BY Zenon DEF Data, ReadTimeZoneFile, read, bytes
<1> HIDE DEF types, bytes
<1>7. ~(bytes < TransitionsAfter(file)) /\ ~(bytes < FileBytes(file))
  BY <1>3 DEF bytes
<1> QED
  BY <1>1, <1>5, <1>6, <1>7 DEF Count

\* Keys of the transitions made of a file.
LEMMA TransitionsAre ==
  ASSUME NEW file \in Files
  PROVE  LET transitions == Data(file).transitions IN
         /\ Len(transitions) = Count(file)
         /\ Count(file) = 0 <=> transitions = <<>>
         /\ \A k \in 1..Count(file) :
              /\ transitions[k].localtimeIdx = file.trans[k].idx
              /\ \A gmt \in BOOLEAN : Key(transitions[k], gmt) = KeyAt(file, k, gmt)
<1> DEFINE transitions == Data(file).transitions
           n == Count(file)
           T == [gmttime : Int, localtime : Int, localtimeIdx : Int]
<1>1. n \in Nat
  BY FileIs
<1>2. \A k \in 1..n : /\ Transition(file, file.trans[k]) \in T
                      /\ Transition(file, file.trans[k]).localtimeIdx = file.trans[k].idx
                      /\ \A gmt \in BOOLEAN : Key(Transition(file, file.trans[k]), gmt) = KeyAt(file, k, gmt)
  <2> SUFFICES ASSUME NEW k \in 1..n
               PROVE  /\ Transition(file, file.trans[k]) \in T
                      /\ Transition(file, file.trans[k]).localtimeIdx = file.trans[k].idx
                      /\ \A gmt \in BOOLEAN : Key(Transition(file, file.trans[k]), gmt) = KeyAt(file, k, gmt)
    OBVIOUS
  <2>1. /\ file.trans[k].at \in Int /\ file.trans[k].idx \in Int
        /\ LocalFrom(file, k) = file.localtimes[file.trans[k].idx]
        /\ LocalFrom(file, k).gmtOffset \in Int
    BY <1>1, FileIs, LocalIs DEF At, LocalFrom
  <2> QED
    BY <2>1 DEF Transition, Key, KeyAt, At
<1>3. transitions = [k \in 1..n |-> Transition(file, file.trans[k])]
  BY DataIs
<1> HIDE DEF n, T, transitions
<1>4. transitions \in [1..n -> T] /\ \A k \in 1..n : transitions[k] = Transition(file, file.trans[k])
  BY <1>2, <1>3
<1>5. transitions \in Seq(T) /\ DOMAIN transitions = 1..n
  BY <1>1, <1>4
<1>6. Len(transitions) = n
  BY <1>1, <1>5, LenProperties
<1>7. n = 0 <=> transitions = <<>>
  BY <1>5, <1>6, EmptySeq
<1> QED
  BY <1>2, <1>4, <1>6, <1>7 DEF transitions, n


(* findLocaltime finds the localtime from the last transition that is not  *)
(* later, and the first localtime before all of them.                      *)
LEMMA LowerBoundIs ==
  ASSUME NEW transitions, NEW n \in Nat, Len(transitions) = n, NEW gmt, NEW instant \in Int,
         \A k \in 1..n : Key(transitions[k], gmt) \in Int,
         \A j, k \in 1..n : j < k => Key(transitions[j], gmt) < Key(transitions[k], gmt),
         NEW i \in 1..(n + 1),
         i > 1 => Key(transitions[i - 1], gmt) < instant,
         i <= n => instant <= Key(transitions[i], gmt)
  PROVE  LowerBound(transitions, instant, gmt) = i
<1> DEFINE First(k) == /\ \A j \in 1..(k - 1) : Key(transitions[j], gmt) < instant
                       /\ k <= n => Key(transitions[k], gmt) >= instant
<1>1. First(i)
  <2>1. ASSUME NEW j \in 1..(i - 1) PROVE Key(transitions[j], gmt) < instant
    <3>1. i - 1 \in 1..n /\ j \in 1..n /\ (j = i - 1 \/ j < i - 1) /\ i > 1
      OBVIOUS
    <3>2. CASE j = i - 1
      BY <3>1, <3>2
    <3>3. CASE j < i - 1
      <4>1. Key(transitions[j], gmt) < Key(transitions[i - 1], gmt)
        BY <3>1, <3>3
      <4>2. Key(transitions[j], gmt) \in Int /\ Key(transitions[i - 1], gmt) \in Int
        BY <3>1
      <4> QED
        BY <3>1, <4>1, <4>2
    <3> QED
      BY <3>1, <3>2, <3>3
  <2>2. i <= n => Key(transitions[i], gmt) >= instant
    OBVIOUS
  <2> QED
    BY <2>1, <2>2
<1>2. ASSUME NEW k \in 1..(n + 1), First(k) PROVE k = i
  <2>1. CASE k < i
    <3>1. k \in 1..n /\ k \in 1..(i - 1)
      BY <2>1
    <3>2. Key(transitions[k], gmt) < instant /\ Key(transitions[k], gmt) >= instant
      BY <1>1, <1>2, <3>1
    <3>3. Key(transitions[k], gmt) \in Int
      BY <3>1
    <3> QED
      BY <3>2, <3>3
  <2>2. CASE k > i
    <3>1. i \in 1..n /\ i \in 1..(k - 1)
      BY <2>2
    <3>2. Key(transitions[i], gmt) < instant /\ instant <= Key(transitions[i], gmt)
      BY <1>2, <3>1
    <3>3. Key(transitions[i], gmt) \in Int
      BY <3>1
    <3> QED
      BY <3>2, <3>3
  <2> QED
    BY <2>1, <2>2
<1>3. LowerBound(transitions, instant, gmt) = CHOOSE k \in 1..(n + 1) : First(k)
  BY DEF LowerBound
<1> HIDE DEF First
<1> QED
  BY <1>1, <1>2, <1>3

LEMMA Found ==
  ASSUME NEW file \in Files, NEW gmt \in BOOLEAN, NEW instant \in Int, NEW k \in 0..Count(file),
         k > 0 => KeyAt(file, k, gmt) <= instant,
         k < Count(file) => instant < KeyAt(file, k + 1, gmt)
  PROVE  FindLocaltime(Data(file), instant, gmt) = LocalFrom(file, k)
<1> DEFINE transitions == Data(file).transitions
           n == Count(file)
<1>1. n \in Nat /\ Len(transitions) = n /\ (n = 0 <=> transitions = <<>>)
  BY FileIs, TransitionsAre
<1>2. \A j \in 1..n : /\ Key(transitions[j], gmt) = KeyAt(file, j, gmt)
                      /\ KeyAt(file, j, gmt) \in Int
                      /\ transitions[j].localtimeIdx = file.trans[j].idx
  BY TransitionsAre, KeysAre
<1>3. \A i, j \in 1..n : i < j => KeyAt(file, i, gmt) < KeyAt(file, j, gmt)
  BY KeysAscend
<1>4. Data(file).localtimes = file.localtimes
  BY DataIs
<1> HIDE DEF transitions, n
<1>5. CASE k = 0
  <2>1. transitions = <<>> \/ instant < Key(transitions[1], gmt)
    BY <1>1, <1>2, <1>5 DEF n
  <2>2. FindLocaltime(Data(file), instant, gmt) = file.localtimes[1]
    BY <1>4, <2>1 DEF FindLocaltime, transitions
  <2> QED
    BY <1>5, <2>2 DEF LocalFrom
<1>6. CASE k \in 1..n
  <2>1. n > 0 /\ 1 \in 1..n /\ transitions # <<>>
    BY <1>1, <1>6
  <2>2. ~(instant < Key(transitions[1], gmt))
    <3>1. KeyAt(file, 1, gmt) <= KeyAt(file, k, gmt)
      BY <1>2, <1>3, <1>6, <2>1
    <3> QED
      BY <1>2, <1>6, <2>1, <3>1
  <2> DEFINE i == IF KeyAt(file, k, gmt) = instant THEN k ELSE k + 1
  <2>3. i \in 1..(n + 1) /\ (i > 1 => i - 1 \in 1..n) /\ n \in Nat
    BY <1>1, <1>6
  <2>4. i > 1 => Key(transitions[i - 1], gmt) < instant
    <3>1. CASE KeyAt(file, k, gmt) = instant
      <4>1. i = k
        BY <3>1
      <4> HIDE DEF i
      <4> QED
        BY <1>2, <1>3, <1>6, <2>3, <3>1, <4>1
    <3>2. CASE KeyAt(file, k, gmt) # instant
      <4>1. i - 1 = k /\ KeyAt(file, k, gmt) <= instant /\ KeyAt(file, k, gmt) \in Int
        BY <1>2, <1>6, <3>2
      <4> HIDE DEF i
      <4> QED
        BY <1>2, <1>6, <3>2, <4>1
    <3> QED
      BY <3>1, <3>2
  <2>5. i <= n => instant <= Key(transitions[i], gmt)
    <3>1. CASE KeyAt(file, k, gmt) = instant
      BY <1>2, <1>6, <3>1
    <3>2. CASE KeyAt(file, k, gmt) # instant
      <4>1. i = k + 1 /\ (i <= n => i \in 1..n /\ k < n)
        BY <1>1, <1>6, <3>2
      <4> HIDE DEF i
      <4> QED
        BY <1>2, <4>1 DEF n
    <3> QED
      BY <3>1, <3>2
  <2> HIDE DEF i
  <2>6. LowerBound(transitions, instant, gmt) = i
    BY <1>1, <1>2, <1>3, <2>3, <2>4, <2>5, LowerBoundIs
  <2>7. (IF i <= Len(transitions) /\ Key(transitions[i], gmt) = instant THEN i ELSE i - 1) = k
    <3>1. CASE KeyAt(file, k, gmt) = instant
      BY <1>1, <1>2, <1>6, <3>1 DEF i
    <3>2. CASE KeyAt(file, k, gmt) # instant
      <4>1. i = k + 1 /\ i - 1 = k /\ (i <= n => i \in 1..n /\ k < n)
        BY <1>1, <1>6, <3>2 DEF i
      <4>2. i <= n => Key(transitions[i], gmt) # instant
        BY <1>2, <4>1 DEF n
      <4> QED
        BY <1>1, <4>1, <4>2
    <3> QED
      BY <3>1, <3>2
  <2>8. FindLocaltime(Data(file), instant, gmt) = file.localtimes[transitions[k].localtimeIdx]
    BY <1>4, <2>1, <2>2, <2>6, <2>7 DEF FindLocaltime, transitions
  <2> QED
    BY <1>2, <1>6, <2>8 DEF LocalFrom
<1> QED
  BY <1>1, <1>5, <1>6 DEF n

\* The last transition that is not later than an instant.
LEMMA LastPast ==
  ASSUME NEW file \in Files, NEW instant \in Int
  PROVE  \E k \in 0..Count(file) : /\ k > 0 => At(file, k) <= instant
                                   /\ k < Count(file) => instant < At(file, k + 1)
<1> DEFINE n == Count(file)
           Later == {k \in 1..(n + 1) : k <= n => instant < At(file, k)}
<1>1. n \in Nat /\ \A k \in 1..n : At(file, k) \in Int
  BY FileIs
<1> HIDE DEF n
<1>2. n + 1 \in Later /\ Later \subseteq Nat
  BY <1>1
<1>3. PICK i \in Later : \A k \in Later : i <= k
  BY <1>2, NatMin
<1>4. i - 1 \in 0..n /\ i \in 1..(n + 1)
  BY <1>1, <1>3
<1>5. i - 1 > 0 => At(file, i - 1) <= instant
  <2>1. i - 1 \notin Later
    BY <1>3, <1>4
  <2> QED
    BY <1>1, <1>4, <2>1
<1>6. i - 1 < n => instant < At(file, (i - 1) + 1)
  <2>1. (i - 1) + 1 = i /\ (i - 1 < n => i <= n)
    BY <1>1, <1>4
  <2>2. i <= n => instant < At(file, i)
    BY <1>3
  <2> QED
    BY <2>1, <2>2
<1> QED
  BY <1>4, <1>5, <1>6 DEF n


(* Instants near a day of the calendar.                                    *)

IsADay(jdn) ==
  \E y \in Nat, m \in 1..12, d \in Nat :
    d > 0 /\ d <= DaysOf(m, y) /\ jdn = JulianDayNumber(y, m, d)

LEMMA Neighbours ==
  ASSUME NEW y \in Nat, y > 0, NEW m \in 1..12, NEW d \in Nat, d > 0, d <= DaysOf(m, y),
         NEW jdn, jdn = JulianDayNumber(y, m, d)
  PROVE  jdn \in Int /\ IsADay(jdn) /\ IsADay(jdn - 1) /\ IsADay(jdn + 1)
<1>1. jdn \in Int /\ JulianDayNumber(y, m, d + 1) = jdn + 1
  <2>1. d \in Int
    OBVIOUS
  <2> QED
    BY <2>1, DayAfter, Zenon
<1>2. IsADay(jdn)
  BY DEF IsADay
<1>3. DaysOf(m, y) \in Nat
  BY MonthLength, Zenon
<1>4. IsADay(jdn - 1)
  <2>1. CASE d > 1
    <3>1. d - 1 \in Nat /\ d - 1 \in Int /\ d - 1 > 0 /\ d - 1 <= DaysOf(m, y) /\ (d - 1) + 1 = d
      BY <1>3, <2>1
    <3>2. JulianDayNumber(y, m, (d - 1) + 1) = JulianDayNumber(y, m, d - 1) + 1 /\ JulianDayNumber(y, m, d - 1) \in Int
      BY <3>1, DayAfter, Zenon
    <3>3. JulianDayNumber(y, m, d - 1) = jdn - 1
      BY <3>1, <3>2
    <3> QED
      BY <3>1, <3>3 DEF IsADay
  <2>2. CASE d = 1 /\ m > 1
    <3>1. m - 1 \in 1..11 /\ m - 1 \in 1..12 /\ (m - 1) + 1 = m
      BY <2>2
    <3>2. JulianDayNumber(y, m, 1) = JulianDayNumber(y, m - 1, DaysOf(m - 1, y)) + 1
      BY <3>1, MonthAfter
    <3>3. DaysOf(m - 1, y) \in Nat /\ DaysOf(m - 1, y) >= 28
      BY <3>1, MonthLength, Zenon
    <3>4. DaysOf(m - 1, y) \in Int
      BY <3>3
    <3>5. JulianDayNumber(y, m - 1, DaysOf(m - 1, y)) \in Int
      BY <3>1, <3>4, DayAfter, Zenon
    <3>6. JulianDayNumber(y, m - 1, DaysOf(m - 1, y)) = jdn - 1
      BY <2>2, <3>2, <3>5
    <3> QED
      BY <3>1, <3>3, <3>6 DEF IsADay
  <2>3. CASE d = 1 /\ m = 1
    <3>1. y - 1 \in Nat /\ (y - 1) + 1 = y /\ 12 \in 1..12 /\ 31 \in Nat /\ 31 \in Int /\ 31 > 0
      OBVIOUS
    <3>2. JulianDayNumber(y, 1, 1) = JulianDayNumber(y - 1, 12, 31) + 1
      BY <3>1, YearAfter
    <3>3. DaysOf(12, y - 1) = 31
      BY DEF DaysOf
    <3>4. JulianDayNumber(y - 1, 12, 31) \in Int
      BY <3>1, DayAfter
    <3>5. JulianDayNumber(y - 1, 12, 31) = jdn - 1
      BY <2>3, <3>2, <3>4
    <3> QED
      BY <3>1, <3>3, <3>5 DEF IsADay
  <2> QED
    BY <2>1, <2>2, <2>3
<1>5. IsADay(jdn + 1)
  <2>1. CASE d < DaysOf(m, y)
    <3>1. d + 1 \in Nat /\ d + 1 > 0 /\ d + 1 <= DaysOf(m, y)
      BY <1>3, <2>1
    <3> QED
      BY <1>1, <3>1 DEF IsADay
  <2>2. CASE d = DaysOf(m, y) /\ m < 12
    <3>1. m \in 1..11 /\ m + 1 \in 1..12 /\ 1 \in Nat /\ 1 > 0
      BY <2>2
    <3>2. JulianDayNumber(y, m + 1, 1) = jdn + 1
      BY <2>2, <3>1, MonthAfter
    <3>3. DaysOf(m + 1, y) \in Nat /\ DaysOf(m + 1, y) >= 28
      BY <3>1, MonthLength, Zenon
    <3>4. 1 <= DaysOf(m + 1, y)
      BY <3>3
    <3> QED
      BY <3>1, <3>2, <3>4 DEF IsADay
  <2>3. CASE d = DaysOf(m, y) /\ m = 12
    <3>1. y + 1 \in Nat /\ 1 \in 1..12 /\ 1 \in Nat /\ 1 > 0
      OBVIOUS
    <3>2. DaysOf(12, y) = 31 /\ DaysOf(1, y + 1) = 31
      BY DEF DaysOf
    <3>3. JulianDayNumber(y + 1, 1, 1) = jdn + 1
      BY <2>3, <3>2, YearAfter
    <3> QED
      BY <3>1, <3>2, <3>3 DEF IsADay
  <2> QED
    BY <1>3, <2>1, <2>2, <2>3
<1> QED
  BY <1>1, <1>2, <1>4, <1>5

\* from_utc_time is the inverse of to_utc_time.
LEMMA UtcBack ==
  ASSUME NEW d \in Int, IsADay(d + JulianDayOf1970), NEW s \in Nat, s < SecondsPerDay
  PROVE  FromUtcTime(ToUtcTime(d * SecondsPerDay + s)) = d * SecondsPerDay + s
<1> DEFINE utc == ToUtcTime(d * SecondsPerDay + s)
           jdn == d + JulianDayOf1970
<1>1. PICK y \in Nat, m \in 1..12, n \in Nat :
        n > 0 /\ n <= DaysOf(m, y) /\ jdn = JulianDayNumber(y, m, n)
  BY DEF IsADay
<1>2. JulianDayOf1970 \in Int /\ jdn - JulianDayOf1970 = d
  BY NewYear DEF JulianDayOf1970
<1>3. YearMonthDay(jdn) = [year |-> y, month |-> m, day |-> n]
  BY <1>1, DateBack
<1>4. utc = Broken(d, s)
  BY SecondBack
<1> HIDE DEF utc, jdn
<1>5. utc = [tm_sec |-> s % 60, tm_min |-> (s \div 60) % 60, tm_hour |-> s \div 3600,
             tm_year |-> y - 1900, tm_mon |-> m - 1, tm_mday |-> n,
             tm_wday |-> WeekDay(jdn), tm_yday |-> jdn - JulianDayNumber(y, 1, 1)]
  BY <1>3, <1>4 DEF Broken, jdn
<1>6. /\ utc.tm_hour * 3600 + utc.tm_min * 60 + utc.tm_sec = s
      /\ utc.tm_hour \in Nat /\ utc.tm_min \in Nat /\ utc.tm_sec \in Nat
  BY <1>5, ClockBack
<1>7. utc.tm_year + 1900 = y /\ utc.tm_mon + 1 = m /\ utc.tm_mday = n
  BY <1>5
<1>8. FromUtcTime(utc) = d * SecondsPerDay + utc.tm_hour * 3600 + utc.tm_min * 60 + utc.tm_sec
  BY <1>1, <1>2, <1>7 DEF FromUtcTime
<1>9. utc.tm_hour * 3600 \in Nat /\ utc.tm_min * 60 \in Nat /\ d * SecondsPerDay \in Int
  BY <1>6 DEF SecondsPerDay
<1>10. FromUtcTime(utc) = d * SecondsPerDay + s
  BY <1>6, <1>8, <1>9
<1> QED
  BY <1>10 DEF utc

LEMMA InstantBack ==
  ASSUME OnCalendar, year > 0, NEW s \in Nat, s < SecondsPerDay, NEW offset, LessThanADay(offset)
  PROVE  /\ Instant(s) \in Int
         /\ FromUtcTime(ToUtcTime(Instant(s) + offset)) = Instant(s) + offset
<1> DEFINE jdn == JulianDayNumber(year, month, day)
           d == jdn - JulianDayOf1970
<1>1. jdn \in Int /\ IsADay(jdn) /\ IsADay(jdn - 1) /\ IsADay(jdn + 1)
  BY Neighbours DEF OnCalendar
<1> HIDE DEF jdn
<1>2. JulianDayOf1970 \in Int
  BY NewYear DEF JulianDayOf1970
<1>3. /\ d \in Int /\ d + JulianDayOf1970 = jdn
      /\ (d - 1) + JulianDayOf1970 = jdn - 1 /\ (d + 1) + JulianDayOf1970 = jdn + 1
  BY <1>1, <1>2
<1>4. Instant(s) = d * SecondsPerDay + s
  BY DEF Instant, jdn
<1> HIDE DEF d
<1>5. Instant(s) \in Int /\ offset \in Int /\ -SecondsPerDay < offset /\ offset < SecondsPerDay
  BY <1>3, <1>4 DEF LessThanADay, SecondsPerDay
<1>6. CASE s + offset < 0
  <2>1. /\ s + offset + SecondsPerDay \in Nat /\ s + offset + SecondsPerDay < SecondsPerDay
        /\ Instant(s) + offset = (d - 1) * SecondsPerDay + (s + offset + SecondsPerDay)
        /\ d - 1 \in Int
    BY <1>3, <1>4, <1>5, <1>6 DEF SecondsPerDay
  <2>2. IsADay((d - 1) + JulianDayOf1970)
    BY <1>1, <1>3
  <2> QED
    BY <1>5, <2>1, <2>2, UtcBack
<1>7. CASE s + offset \in Nat /\ s + offset < SecondsPerDay
  <2>1. Instant(s) + offset = d * SecondsPerDay + (s + offset)
    BY <1>3, <1>4, <1>5 DEF SecondsPerDay
  <2>2. IsADay(d + JulianDayOf1970)
    BY <1>1, <1>3
  <2> QED
    BY <1>3, <1>5, <1>7, <2>1, <2>2, UtcBack
<1>8. CASE s + offset >= SecondsPerDay
  <2>1. /\ s + offset - SecondsPerDay \in Nat /\ s + offset - SecondsPerDay < SecondsPerDay
        /\ Instant(s) + offset = (d + 1) * SecondsPerDay + (s + offset - SecondsPerDay)
        /\ d + 1 \in Int
    BY <1>3, <1>4, <1>5, <1>8 DEF SecondsPerDay
  <2>2. IsADay((d + 1) + JulianDayOf1970)
    BY <1>1, <1>3
  <2> QED
    BY <1>5, <2>1, <2>2, UtcBack
<1> QED
  BY <1>5, <1>6, <1>7, <1>8 DEF SecondsPerDay

(* from_local_time, in a zone from a file: the localtime it looks up is    *)
(* the right one, or the one after it, when standard time comes back       *)
(* within the hour; then tm_isdst tells.                                   *)
LEMMA LocalBack ==
  ASSUME NEW file \in Files, NEW instant \in Int,
         \A offset : LessThanADay(offset) => FromUtcTime(ToUtcTime(instant + offset)) = instant + offset
  PROVE  LET local == ToLocalTime(Data(file), instant)
         IN FromLocalTime(Data(file), local) = instant /\ local.zone <= file.charcnt
<1> DEFINE n == Count(file)
           data == Data(file)
           local == ToLocalTime(data, instant)
<1>1. PICK p \in 0..n : (p > 0 => At(file, p) <= instant) /\ (p < n => instant < At(file, p + 1))
  BY LastPast
<1> DEFINE now == LocalFrom(file, p)
           off == now.gmtOffset
<1>2. LessThanADay(off) /\ off \in Int /\ now.isDst \in BOOLEAN /\ now.abbrIdx <= file.charcnt
  BY LocalIs
<1>3. n \in Nat /\ \A k \in 1..n : At(file, k) \in Int
  BY FileIs
<1>4. FindLocaltime(data, instant, TRUE) = now
  BY <1>1, Found DEF KeyAt
<1>5. local = [tm |-> ToUtcTime(instant + off), isDst |-> now.isDst, zone |-> now.abbrIdx]
  BY <1>4 DEF ToLocalTime
<1>6. FromUtcTime(local.tm) = instant + off
  BY <1>2, <1>5
<1> HIDE DEF local, now, off, n
<1> DEFINE seconds == instant + off
           found == FindLocaltime(data, seconds, FALSE)
           tryTm == ToLocalTime(data, seconds - found.gmtOffset)
           first == /\ local.isDst /\ ~tryTm.isDst
                    /\ tryTm.tm.tm_hour = local.tm.tm_hour
                    /\ tryTm.tm.tm_min = local.tm.tm_min
<1>7. FromLocalTime(data, local) = seconds - (IF first THEN 3600 ELSE 0) - found.gmtOffset
  BY <1>6 DEF FromLocalTime
<1>8. seconds \in Int /\ seconds = instant + off
  BY <1>2
<1>9. local.zone <= file.charcnt
  BY <1>2, <1>5
<1> HIDE DEF seconds, found, tryTm, first
<1>10. p > 0 => KeyAt(file, p, FALSE) <= seconds
  <2> SUFFICES ASSUME p > 0 PROVE KeyAt(file, p, FALSE) <= seconds
    OBVIOUS
  <2>1. KeyAt(file, p, FALSE) = At(file, p) + off
    BY DEF KeyAt, now, off
  <2> DEFINE change == At(file, p)
  <2>2. change \in Int /\ change <= instant
    BY <1>1, <1>3
  <2> HIDE DEF change
  <2>3. change + off <= seconds
    BY <1>2, <1>8, <2>2
  <2> QED
    BY <2>1, <2>3 DEF change
<1> DEFINE next == LocalFrom(file, p + 1)
           ahead == next.gmtOffset
           change == At(file, p + 1)
<1>11. CASE p < n => seconds < change + ahead
  <2>1. found = now
    <3>1. p < n => seconds < KeyAt(file, p + 1, FALSE)
      BY <1>11 DEF KeyAt
    <3>2. FindLocaltime(Data(file), seconds, FALSE) = LocalFrom(file, p)
      BY <1>8, <1>10, <3>1, Found DEF n
    <3> QED
      BY <3>2 DEF now, found
  <2>2. found.gmtOffset = off
    BY <2>1 DEF off
  <2>3. seconds - off = instant
    BY <1>2, <1>8
  <2>4. tryTm = local
    BY <2>2, <2>3 DEF local, tryTm
  <2>5. ~first
    BY <2>4 DEF first
  <2>6. FromLocalTime(data, local) = seconds - 0 - off
    BY <1>7, <2>2, <2>5
  <2>7. seconds - 0 - off = instant
    BY <1>2, <1>8
  <2> QED
    BY <1>9, <2>6, <2>7 DEF local
<1>12. CASE p < n /\ ~(seconds < change + ahead)
  <2>1. p + 1 \in 1..n /\ p + 1 \in 0..n /\ p + 1 > 0 /\ change \in Int /\ instant < change
    BY <1>1, <1>3, <1>12
  <2>2. ahead \in Int /\ next.isDst \in BOOLEAN
    BY <2>1, LocalIs DEF n
  <2>3. off - ahead = (IF now.isDst THEN 3600 ELSE 0) - (IF next.isDst THEN 3600 ELSE 0)
    <3>1. p \in 0..Count(file) /\ p + 1 \in 0..Count(file)
      BY <2>1 DEF n
    <3> QED
      BY <3>1, HourAhead DEF now, off
  <2> HIDE DEF next, ahead, change
  <2>4. change + ahead <= instant + off
    BY <1>2, <1>8, <1>12, <2>1, <2>2
  <2>5. now.isDst /\ ~next.isDst
    <3>1. off > ahead
      BY <1>2, <2>1, <2>2, <2>4
    <3> QED
      BY <1>2, <2>2, <2>3, <3>1
  <2>6. off = ahead + 3600
    BY <1>2, <2>2, <2>3, <2>5
  <2>7. change <= instant + 3600 /\ instant + 3600 < change + 3600 /\ instant + 3600 \in Int
    BY <1>2, <2>1, <2>2, <2>4, <2>6
  <2>8. ASSUME p + 1 < n
        PROVE  /\ instant + 3600 < At(file, (p + 1) + 1)
               /\ seconds < At(file, (p + 1) + 1) + LocalFrom(file, (p + 1) + 1).gmtOffset
    <3>1. (p + 1) + 1 \in 1..Count(file) /\ (p + 1) + 1 \in 0..Count(file) /\ p + 1 < (p + 1) + 1
          /\ p + 1 \in 1..Count(file)
      BY <1>3, <2>1, <2>8 DEF n
    <3> DEFINE later == LocalFrom(file, (p + 1) + 1)
               after == later.gmtOffset
               last == At(file, (p + 1) + 1)
    <3>2. last \in Int /\ change + 7200 <= last
      BY <3>1, FileIs, HoursApart DEF change
    <3>3. after \in Int /\ later.isDst \in BOOLEAN
      BY <3>1, LocalIs
    <3>4. off - after = (IF now.isDst THEN 3600 ELSE 0) - (IF later.isDst THEN 3600 ELSE 0)
      BY <3>1, HourAhead DEF now, off, n
    <3> HIDE DEF later, after, last
    <3>5. off - after <= 3600
      BY <1>2, <3>3, <3>4
    <3>6. instant + 3600 < last
      BY <2>1, <2>7, <3>2
    <3>7. seconds < last + after
      BY <1>2, <1>8, <2>1, <3>2, <3>3, <3>5
    <3> QED
      BY <3>6, <3>7 DEF last, after, later
  <2>9. found = next
    <3>1. KeyAt(file, p + 1, FALSE) = change + ahead
      BY DEF KeyAt, next, ahead, change
    <3>2. KeyAt(file, p + 1, FALSE) <= seconds
      BY <1>8, <2>4, <3>1
    <3>3. p + 1 < n => seconds < KeyAt(file, (p + 1) + 1, FALSE)
      BY <2>8 DEF KeyAt
    <3>4. FindLocaltime(Data(file), seconds, FALSE) = LocalFrom(file, p + 1)
      BY <1>8, <2>1, <3>2, <3>3, Found DEF n
    <3> QED
      BY <3>4 DEF next, found
  <2> DEFINE hence == instant + 3600
  <2>10. found.gmtOffset = ahead /\ seconds - ahead = hence
    BY <1>2, <1>8, <2>2, <2>6, <2>9 DEF ahead
  <2>11. FindLocaltime(data, hence, TRUE) = next
    <3>1. change <= hence /\ hence \in Int /\ (p + 1 < n => hence < At(file, (p + 1) + 1))
      BY <2>7, <2>8
    <3> HIDE DEF hence
    <3>2. KeyAt(file, p + 1, TRUE) <= hence
      BY <3>1 DEF KeyAt, change
    <3>3. p + 1 < n => hence < KeyAt(file, (p + 1) + 1, TRUE)
      BY <3>1 DEF KeyAt
    <3>4. FindLocaltime(Data(file), hence, TRUE) = LocalFrom(file, p + 1)
      BY <2>1, <3>1, <3>2, <3>3, Found DEF n
    <3> QED
      BY <3>4 DEF next
  <2>12. hence + ahead = instant + off
    BY <1>2, <2>2, <2>6
  <2> HIDE DEF hence
  <2>13. tryTm = [tm |-> ToUtcTime(instant + off), isDst |-> next.isDst, zone |-> next.abbrIdx]
    <3>1. tryTm = ToLocalTime(data, hence)
      BY <2>10 DEF tryTm
    <3>2. ToLocalTime(data, hence) =
            [tm |-> ToUtcTime(hence + ahead), isDst |-> next.isDst, zone |-> next.abbrIdx]
      BY <2>11, Zenon DEF ToLocalTime, ahead
    <3> QED
      BY <2>12, <3>1, <3>2
  <2>14. first
    BY <1>5, <2>5, <2>13 DEF first
  <2>15. FromLocalTime(data, local) = seconds - 3600 - ahead
    BY <1>7, <2>10, <2>14
  <2>16. seconds - 3600 - ahead = instant
    BY <1>2, <1>8, <2>2, <2>6
  <2> QED
    BY <1>9, <2>15, <2>16 DEF local
<1> QED
  BY <1>11, <1>12

\* A zone without a file has one localtime.
LEMMA FixedBack ==
  ASSUME NEW east, LessThanADay(east), NEW instant \in Int,
         \A offset : LessThanADay(offset) => FromUtcTime(ToUtcTime(instant + offset)) = instant + offset
  PROVE  LET data == FixedZone(east, 3)
             local == ToLocalTime(data, instant)
         IN FromLocalTime(data, local) = instant /\ local.zone <= data.abbreviation
<1> DEFINE data == FixedZone(east, 3)
           local == ToLocalTime(data, instant)
           only == [gmtOffset |-> east, isDst |-> FALSE, abbrIdx |-> 0]
<1>1. /\ data.transitions = <<>> /\ data.abbreviation = 3
      /\ data.localtimes[1].gmtOffset = east /\ data.localtimes[1].isDst = FALSE
      /\ data.localtimes[1].abbrIdx = 0
  BY DEF FixedZone
<1> HIDE DEF data
<1>2. \A n, gmt : FindLocaltime(data, n, gmt) = data.localtimes[1]
  BY <1>1 DEF FindLocaltime
<1>3. local = [tm |-> ToUtcTime(instant + east), isDst |-> FALSE, zone |-> 0]
  BY <1>1, <1>2 DEF ToLocalTime
<1> HIDE DEF local
<1>4. FromUtcTime(local.tm) = instant + east /\ ~local.isDst /\ local.zone = 0
  BY <1>3
<1>5. FromLocalTime(data, local) = instant + east - 0 - east
  <2> DEFINE seconds == FromUtcTime(local.tm)
             found == FindLocaltime(data, seconds, FALSE)
             tryTm == ToLocalTime(data, seconds - found.gmtOffset)
             first == /\ local.isDst /\ ~tryTm.isDst
                      /\ tryTm.tm.tm_hour = local.tm.tm_hour
                      /\ tryTm.tm.tm_min = local.tm.tm_min
  <2>1. FromLocalTime(data, local) = seconds - (IF first THEN 3600 ELSE 0) - found.gmtOffset
    BY DEF FromLocalTime
  <2>2. found.gmtOffset = east
    BY <1>1, <1>2
  <2>3. ~first
    BY <1>4
  <2>4. seconds = instant + east
    BY <1>4
  <2> HIDE DEF first, found, seconds
  <2>5. (IF first THEN 3600 ELSE 0) = 0
    BY <2>3
  <2>6. east \in Int
    BY DEF LessThanADay
  <2> QED
    BY <2>1, <2>2, <2>4, <2>5, <2>6
<1>6. instant + east - 0 - east = instant
  BY DEF LessThanADay
<1> QED
  BY <1>1, <1>4, <1>5, <1>6 DEF local, data

\* An instant at which local time is looked at.
LEMMA ZoneInstant ==
  ASSUME OnCalendar, year \in ZoneYears, NEW s \in ZoneSeconds
  PROVE  /\ Instant(s) \in Int
         /\ \A offset : LessThanADay(offset) =>
              FromUtcTime(ToUtcTime(Instant(s) + offset)) = Instant(s) + offset
<1>1. year > 0
  BY TimeZoneAssumption DEF YearsOf32Bits
<1>2. SecondsPerDay \in Int /\ SecondsPerDay > 0
  BY DEF SecondsPerDay
<1>3. s \in 0..(SecondsPerDay - 1)
  BY TimeZoneAssumption
<1>4. s \in Nat /\ s < SecondsPerDay
  BY <1>2, <1>3
<1>5. LessThanADay(0)
  BY <1>2 DEF LessThanADay
<1> QED
  BY <1>1, <1>4, <1>5, InstantBack, Zenon

LEMMA LocalRoundTrips == OnCalendar => LocalRoundTrip
<1> SUFFICES ASSUME OnCalendar, year \in ZoneYears,
                    NEW data \in {Data(file) : file \in Files} \cup {FixedZone(east, 3) : east \in Offsets},
                    NEW s \in ZoneSeconds
             PROVE  LET local == ToLocalTime(data, Instant(s))
                    IN FromLocalTime(data, local) = Instant(s) /\ local.zone <= data.abbreviation
  BY DEF LocalRoundTrip
<1> DEFINE instant == Instant(s)
<1>1. /\ instant \in Int
      /\ \A offset : LessThanADay(offset) => FromUtcTime(ToUtcTime(instant + offset)) = instant + offset
  BY ZoneInstant
<1> HIDE DEF instant
<1>2. CASE data \in {Data(file) : file \in Files}
  <2>1. PICK file \in Files : data = Data(file)
    BY <1>2
  <2>2. data.abbreviation = file.charcnt
    BY <2>1, DataIs
  <2>3. LET local == ToLocalTime(Data(file), instant)
        IN FromLocalTime(Data(file), local) = instant /\ local.zone <= file.charcnt
    BY <1>1, LocalBack, Zenon
  <2> QED
    BY <2>1, <2>2, <2>3 DEF instant
<1>3. CASE data \in {FixedZone(east, 3) : east \in Offsets}
  <2>1. PICK east \in Offsets : data = FixedZone(east, 3)
    BY <1>3
  <2>2. LessThanADay(east)
    BY TimeZoneAssumption
  <2> QED
    BY <1>1, <2>1, <2>2, FixedBack DEF instant
<1> QED
  BY <1>2, <1>3

LEMMA InForceHolds == OnCalendar => InForce
<1> SUFFICES ASSUME OnCalendar, year \in ZoneYears, NEW file \in Files, NEW s \in ZoneSeconds
             PROVE  LET past == {k \in DOMAIN file.trans : file.trans[k].at <= Instant(s)}
                        last == CHOOSE k \in past : \A j \in past : j <= k
                    IN FindLocaltime(Data(file), Instant(s), TRUE) =
                         file.localtimes[IF past = {} THEN 1 ELSE file.trans[last].idx]
  BY DEF InForce
<1> DEFINE instant == Instant(s)
           n == Count(file)
           past == {k \in DOMAIN file.trans : file.trans[k].at <= instant}
           last == CHOOSE k \in past : \A j \in past : j <= k
<1>1. instant \in Int
  BY ZoneInstant
<1> HIDE DEF instant
<1>2. PICK p \in 0..n : (p > 0 => At(file, p) <= instant) /\ (p < n => instant < At(file, p + 1))
  BY <1>1, LastPast
<1>3. FindLocaltime(Data(file), instant, TRUE) = LocalFrom(file, p)
  BY <1>1, <1>2, Found DEF KeyAt
<1>4. n \in Nat /\ DOMAIN file.trans = 1..n /\ \A k \in 1..n : At(file, k) \in Int
  BY FileIs
<1>5. past = {k \in 1..n : At(file, k) <= instant}
  BY <1>4 DEF At
<1> HIDE DEF past, n
<1>6. past = 1..p
  <2>1. ASSUME NEW k \in 1..p PROVE k \in past
    <3>1. k \in 1..n /\ p \in 1..n /\ p > 0 /\ (k = p \/ k < p)
      BY <1>4
    <3>2. k < p => At(file, k) + 7200 <= At(file, p)
      BY <3>1, HoursApart DEF n
    <3>3. At(file, k) <= instant
      BY <1>1, <1>2, <1>4, <3>1, <3>2
    <3> QED
      BY <1>5, <3>1, <3>3
  <2>2. ASSUME NEW k \in past PROVE k \in 1..p
    <3>1. k \in 1..n /\ At(file, k) <= instant
      BY <1>5
    <3>2. ASSUME k > p PROVE FALSE
      <4>1. p < n /\ p + 1 \in 1..n /\ (k = p + 1 \/ p + 1 < k) /\ instant < At(file, p + 1)
        BY <1>2, <1>4, <3>1, <3>2
      <4>2. p + 1 < k => At(file, p + 1) + 7200 <= At(file, k)
        BY <3>1, <4>1, HoursApart DEF n
      <4> QED
        BY <1>1, <1>4, <3>1, <4>1, <4>2
    <3> QED
      BY <1>4, <3>1, <3>2
  <2> QED
    BY <2>1, <2>2
<1>7. CASE p = 0
  <2>1. past = {}
    BY <1>6, <1>7
  <2> QED
    BY <1>3, <1>7, <2>1 DEF LocalFrom, past, instant
<1>8. CASE p > 0
  <2>1. past # {} /\ p \in past /\ \A j \in past : j <= p
    BY <1>4, <1>6, <1>8
  <2>2. \A k \in past : (\A j \in past : j <= k) => k = p
    BY <1>4, <1>6, <2>1
  <2>3. last = p
    BY <2>1, <2>2
  <2>4. LocalFrom(file, p) = file.localtimes[file.trans[p].idx]
    BY <1>8 DEF LocalFrom
  <2> QED
    BY <1>3, <2>1, <2>3, <2>4 DEF past, instant
<1>9. p = 0 \/ p > 0
  BY <1>2, <1>4
<1> QED
  BY <1>7, <1>8, <1>9

LEMMA CutFiles == CutFileInBounds
<1> SUFFICES ASSUME NEW file \in Files, NEW bytes \in 0..FileBytes(file)
             PROVE  LET data == ReadTimeZoneFile(file, bytes) IN
                    /\ data.transitions \in {<<>>, Data(file).transitions}
                    /\ \A k \in DOMAIN data.transitions :
                         data.transitions[k].localtimeIdx \in DOMAIN data.localtimes
                    /\ bytes >= BytesBeforeTypes(file) + 6 => 1 \in DOMAIN data.localtimes
  BY DEF CutFileInBounds
<1> DEFINE data == ReadTimeZoneFile(file, bytes)
           before == BytesBeforeTypes(file)
           count == Len(file.localtimes)
           n == Count(file)
           read == (bytes - before) \div 6
           types == {k \in DOMAIN file.localtimes : k <= read}
           all == [k \in DOMAIN file.trans |-> Transition(file, file.trans[k])]
<1>1. /\ n \in Nat /\ count \in Nat /\ count > 0 /\ file.charcnt \in Nat
      /\ DOMAIN file.trans = 1..n /\ DOMAIN file.localtimes = 1..count
      /\ \A k \in 1..n : file.trans[k].idx \in 1..count
  BY FileIs
<1>2. /\ before \in Nat /\ TransitionsAfter(file) = before + 6 * count
      /\ FileBytes(file) = before + 6 * count + file.charcnt
  BY <1>1 DEF FileBytes, BytesBeforeNames, BytesBeforeTypes, TransitionsAfter, Count
<1>3. /\ data.localtimes = [k \in types |-> file.localtimes[k]]
      /\ data.transitions = IF bytes < TransitionsAfter(file) THEN <<>> ELSE all
  BY DEF ReadTimeZoneFile
<1>4. Data(file).transitions = all
  BY <1>1, DataIs
<1> HIDE DEF data, before, count, n
<1>5. bytes \in Nat
  BY <1>1, <1>2
<1>6. bytes >= before + 6 => read >= 1
  BY <1>2, <1>5
<1>7. ~(bytes < TransitionsAfter(file)) => read >= count
  BY <1>1, <1>2, <1>5
<1>8. read \in Int
  BY <1>2, <1>5
<1> HIDE DEF read
<1>9. data.transitions \in {<<>>, Data(file).transitions}
  BY <1>3, <1>4
<1>10. ASSUME NEW k \in DOMAIN data.transitions
       PROVE  data.transitions[k].localtimeIdx \in DOMAIN data.localtimes
  <2>1. ~(bytes < TransitionsAfter(file)) /\ data.transitions = all
    BY <1>3
  <2>2. k \in 1..n /\ data.transitions[k].localtimeIdx = file.trans[k].idx
    BY <1>1, <2>1 DEF Transition
  <2>3. file.trans[k].idx \in types
    BY <1>1, <1>7, <1>8, <2>1, <2>2
  <2> QED
    BY <1>3, <2>2, <2>3
<1>11. bytes >= before + 6 => 1 \in DOMAIN data.localtimes
  BY <1>1, <1>3, <1>6, <1>8
<1> QED
  BY <1>9, <1>10, <1>11 DEF data, before

(* On every day of the years that are looked at: findLocaltime finds the   *)
(* localtime in force, from_local_time leads back from local time to the   *)
(* instant, in the hour that comes twice as well, and a zone file that     *)
(* ends early gives no transition without its localtime.                   *)
THEOREM LocalTimeIsTrue == Walk => []LocalTimeAgrees
<1>1. OnCalendar => LocalTimeAgrees
  BY InForceHolds, LocalRoundTrips, CutFiles DEF LocalTimeAgrees
<1> QED
  BY <1>1, FirstDayOn, NextDateOn, PTL DEF Walk

-------------------------------------------------------------------------------
(* string_piece: the first character in which two pieces differ.           *)

Strings == Seq(Int)

LEMMA StringIs ==
  ASSUME NEW x \in Strings
  PROVE  Len(x) \in Nat /\ \A k \in 1..Len(x) : x[k] \in Int
<1>1. Len(x) \in Nat /\ x \in [1..Len(x) -> Int]
  BY LenProperties DEF Strings
<1> QED
  BY <1>1

\* No character differs before the k-th, and the k-th does.
DifferAt(x, y, k) == x[k] # y[k] /\ \A j \in 1..(k - 1) : x[j] = y[j]

LEMMA MemcmpIs ==
  ASSUME NEW x \in Strings, NEW y \in Strings, NEW n \in Nat, n <= Len(x), n <= Len(y)
  PROVE  \/ Memcmp(x, y, n) = 0 /\ \A k \in 1..n : x[k] = y[k]
         \/ \E k \in 1..n : DifferAt(x, y, k) /\ Memcmp(x, y, n) = x[k] - y[k]
<1> DEFINE differ == {k \in 1..n : x[k] # y[k]}
           first == CHOOSE i \in differ : \A j \in differ : i <= j
<1>1. CASE differ = {}
  BY <1>1 DEF Memcmp
<1>2. CASE differ # {}
  <2>1. PICK k \in differ : \A j \in differ : k <= j
    <3>1. differ \subseteq Nat
      OBVIOUS
    <3> HIDE DEF differ
    <3> QED
      BY <1>2, <3>1, NatMin
  <2>2. first \in differ /\ \A j \in differ : first <= j
    <3> HIDE DEF differ
    <3> QED
      BY <2>1
  <2>3. Memcmp(x, y, n) = x[first] - y[first]
    BY <1>2 DEF Memcmp
  <2> HIDE DEF first
  <2>4. first \in 1..n /\ DifferAt(x, y, first)
    <3>1. ASSUME NEW j \in 1..(first - 1) PROVE x[j] = y[j]
      <4>1. j \in 1..n /\ ~(first <= j)
        BY <2>2
      <4> QED
        BY <2>2, <4>1
    <3> QED
      BY <2>2, <3>1 DEF DifferAt
  <2> QED
    BY <2>3, <2>4
<1> QED
  BY <1>1, <1>2

LEMMA CommonIs ==
  ASSUME NEW x \in Strings, NEW y \in Strings
  PROVE  \/ Common(x, y) = 0 /\ \A k \in Nat : 1 <= k /\ k <= Len(x) /\ k <= Len(y) => x[k] = y[k]
         \/ \E k \in Nat : /\ 1 <= k /\ k <= Len(x) /\ k <= Len(y) /\ DifferAt(x, y, k)
                           /\ Common(x, y) = x[k] - y[k]
<1> DEFINE n == Least(Len(x), Len(y))
<1>1. /\ Len(x) \in Nat /\ Len(y) \in Nat /\ n \in Nat /\ n <= Len(x) /\ n <= Len(y)
      /\ n = Len(x) \/ n = Len(y)
  BY StringIs DEF Least
<1>2. Common(x, y) = Memcmp(x, y, n)
  BY DEF Common
<1> HIDE DEF n
<1>3. CASE Common(x, y) = 0 /\ \A k \in 1..n : x[k] = y[k]
  <2>1. ASSUME NEW k \in Nat, 1 <= k, k <= Len(x), k <= Len(y) PROVE x[k] = y[k]
    <3>1. k \in 1..n
      BY <1>1, <2>1
    <3> QED
      BY <1>3, <3>1
  <2> QED
    BY <1>3, <2>1
<1>4. CASE \E k \in 1..n : DifferAt(x, y, k) /\ Common(x, y) = x[k] - y[k]
  <2>1. PICK k \in 1..n : DifferAt(x, y, k) /\ Common(x, y) = x[k] - y[k]
    BY <1>4
  <2>2. k \in Nat /\ 1 <= k /\ k <= Len(x) /\ k <= Len(y)
    BY <1>1
  <2> QED
    BY <2>1, <2>2
<1> QED
  BY <1>1, <1>2, <1>3, <1>4, MemcmpIs

\* The first difference is one.
LEMMA DifferOnce ==
  ASSUME NEW x, NEW y, NEW j \in Nat, NEW k \in Nat, 1 <= j, 1 <= k,
         DifferAt(x, y, j), DifferAt(x, y, k) \/ DifferAt(y, x, k)
  PROVE  j = k
<1>1. CASE j < k
  <2>1. j \in 1..(k - 1)
    BY <1>1
  <2> QED
    BY <2>1 DEF DifferAt
<1>2. CASE k < j
  <2>1. k \in 1..(j - 1)
    BY <1>2
  <2> QED
    BY <2>1 DEF DifferAt
<1> QED
  BY <1>1, <1>2

LEMMA CommonMirror ==
  ASSUME NEW x \in Strings, NEW y \in Strings
  PROVE  Common(x, y) \in Int /\ Common(y, x) = 0 - Common(x, y)
<1>1. CASE Common(x, y) = 0 /\ \A k \in Nat : 1 <= k /\ k <= Len(x) /\ k <= Len(y) => x[k] = y[k]
  <2>1. ~\E k \in Nat : /\ 1 <= k /\ k <= Len(y) /\ k <= Len(x) /\ DifferAt(y, x, k)
                        /\ Common(y, x) = y[k] - x[k]
    BY <1>1 DEF DifferAt
  <2>2. Common(y, x) = 0
    BY <2>1, CommonIs
  <2> QED
    BY <1>1, <2>2
<1>2. CASE \E k \in Nat : /\ 1 <= k /\ k <= Len(x) /\ k <= Len(y) /\ DifferAt(x, y, k)
                          /\ Common(x, y) = x[k] - y[k]
  <2>1. PICK k \in Nat : /\ 1 <= k /\ k <= Len(x) /\ k <= Len(y) /\ DifferAt(x, y, k)
                         /\ Common(x, y) = x[k] - y[k]
    BY <1>2
  <2>2. PICK i \in Nat : /\ 1 <= i /\ i <= Len(y) /\ i <= Len(x) /\ DifferAt(y, x, i)
                         /\ Common(y, x) = y[i] - x[i]
    <3>1. ~\A i \in Nat : 1 <= i /\ i <= Len(y) /\ i <= Len(x) => y[i] = x[i]
      BY <2>1 DEF DifferAt
    <3> QED
      BY <3>1, CommonIs
  <2>3. i = k
    BY <2>1, <2>2, DifferOnce
  <2>4. x[k] \in Int /\ y[k] \in Int
    <3>1. k \in 1..Len(x) /\ k \in 1..Len(y)
      BY <2>1, StringIs
    <3> QED
      BY <3>1, StringIs
  <2> QED
    BY <2>1, <2>2, <2>3, <2>4
<1> QED
  BY <1>1, <1>2, CommonIs

LEMMA EqualIs ==
  ASSUME NEW x \in Strings, NEW y \in Strings
  PROVE  /\ Equal(x, y) <=> x = y
         /\ Equal(x, y) <=> Common(x, y) = 0 /\ Len(x) = Len(y)
<1>1. Len(x) \in Nat /\ Len(y) \in Nat
  BY StringIs
<1>2. Len(x) = Len(y) => Memcmp(x, y, Len(x)) = Common(x, y)
  BY <1>1 DEF Common, Least
<1>3. Equal(x, y) <=> Common(x, y) = 0 /\ Len(x) = Len(y)
  BY <1>2 DEF Equal
<1>4. ASSUME Common(x, y) = 0, Len(x) = Len(y) PROVE x = y
  <2>1. \A k \in 1..Len(x) : x[k] = y[k]
    <3>1. ~\E k \in Nat : /\ 1 <= k /\ k <= Len(x) /\ k <= Len(y) /\ DifferAt(x, y, k)
                          /\ Common(x, y) = x[k] - y[k]
      <4> SUFFICES ASSUME NEW k \in Nat, 1 <= k, k <= Len(x), k <= Len(y), x[k] # y[k]
                   PROVE  x[k] - y[k] # 0
        BY <1>4 DEF DifferAt
      <4>1. x[k] \in Int /\ y[k] \in Int
        BY <1>1, StringIs
      <4> QED
        BY <4>1
    <3>2. \A k \in Nat : 1 <= k /\ k <= Len(x) /\ k <= Len(y) => x[k] = y[k]
      BY <3>1, CommonIs
    <3> QED
      BY <1>1, <1>4, <3>2
  <2> QED
    BY <1>4, <2>1, SeqEqual DEF Strings
<1>5. ASSUME x = y PROVE Common(x, y) = 0
  <2>1. ~\E k \in Nat : /\ 1 <= k /\ k <= Len(x) /\ k <= Len(y) /\ DifferAt(x, y, k)
                        /\ Common(x, y) = x[k] - y[k]
    BY <1>5 DEF DifferAt
  <2> QED
    BY <2>1, CommonIs
<1> QED
  BY <1>3, <1>4, <1>5

\* x comes first by the character in which they first differ, or because it ends.
SmallerAt(x, y, k) == /\ 1 <= k /\ k <= Len(x) /\ k <= Len(y)
                      /\ x[k] < y[k]
                      /\ \A j \in 1..(k - 1) : x[j] = y[j]

ShorterThan(x, y) == Len(x) < Len(y) /\ \A k \in 1..Len(x) : x[k] = y[k]

LEMMA LessIs ==
  ASSUME NEW x \in Strings, NEW y \in Strings
  PROVE  Less(x, y) <=> (\E k \in Nat : SmallerAt(x, y, k)) \/ ShorterThan(x, y)
<1>1. Len(x) \in Nat /\ Len(y) \in Nat
  BY StringIs
<1>2. ASSUME NEW k \in Nat, 1 <= k, k <= Len(x), k <= Len(y)
      PROVE  x[k] \in Int /\ y[k] \in Int
  <2>1. k \in 1..Len(x) /\ k \in 1..Len(y)
    BY <1>1, <1>2
  <2> QED
    BY <2>1, StringIs
<1>3. CASE Common(x, y) = 0 /\ \A k \in Nat : 1 <= k /\ k <= Len(x) /\ k <= Len(y) => x[k] = y[k]
  <2>1. ~\E k \in Nat : SmallerAt(x, y, k)
    BY <1>2, <1>3 DEF SmallerAt
  <2>2. ShorterThan(x, y) <=> Len(x) < Len(y)
    BY <1>1, <1>3 DEF ShorterThan
  <2>3. Less(x, y) <=> Len(x) < Len(y)
    BY <1>1, <1>3 DEF Less
  <2> QED
    BY <2>1, <2>2, <2>3
<1>4. CASE \E k \in Nat : /\ 1 <= k /\ k <= Len(x) /\ k <= Len(y) /\ DifferAt(x, y, k)
                          /\ Common(x, y) = x[k] - y[k]
  <2>1. PICK k \in Nat : /\ 1 <= k /\ k <= Len(x) /\ k <= Len(y) /\ DifferAt(x, y, k)
                         /\ Common(x, y) = x[k] - y[k]
    BY <1>4
  <2>2. x[k] \in Int /\ y[k] \in Int /\ x[k] # y[k]
    BY <1>2, <2>1 DEF DifferAt
  <2>3. Less(x, y) <=> x[k] < y[k]
    BY <2>1, <2>2 DEF Less
  <2>4. ~ShorterThan(x, y)
    BY <2>1, <2>2 DEF ShorterThan
  <2>5. x[k] < y[k] => SmallerAt(x, y, k)
    BY <2>1 DEF SmallerAt, DifferAt
  <2>6. ASSUME NEW i \in Nat, SmallerAt(x, y, i) PROVE x[k] < y[k]
    <3>1. x[i] \in Int /\ y[i] \in Int /\ x[i] < y[i] /\ 1 <= i
      BY <1>2, <2>6 DEF SmallerAt
    <3>2. DifferAt(x, y, i)
      BY <2>6, <3>1 DEF SmallerAt, DifferAt
    <3>3. i = k
      BY <2>1, <3>1, <3>2, DifferOnce
    <3> QED
      BY <3>1, <3>3
  <2> QED
    BY <2>3, <2>4, <2>5, <2>6
<1> QED
  BY <1>3, <1>4, CommonIs

LEMMA LessTransitive ==
  ASSUME NEW x \in Strings, NEW y \in Strings, NEW z \in Strings, Less(x, y), Less(y, z)
  PROVE  Less(x, z)
<1>1. Len(x) \in Nat /\ Len(y) \in Nat /\ Len(z) \in Nat
  BY StringIs
<1>2. /\ \A k \in 1..Len(x) : x[k] \in Int
      /\ \A k \in 1..Len(y) : y[k] \in Int
      /\ \A k \in 1..Len(z) : z[k] \in Int
  BY StringIs
<1>3. ASSUME NEW i \in Nat, SmallerAt(x, y, i), NEW k \in Nat, SmallerAt(y, z, k)
      PROVE  \E m \in Nat : SmallerAt(x, z, m)
  <2>1. /\ x[i] \in Int /\ y[i] \in Int /\ x[i] < y[i]
        /\ y[k] \in Int /\ z[k] \in Int /\ y[k] < z[k]
    BY <1>1, <1>2, <1>3 DEF SmallerAt
  <2>2. CASE i < k
    <3>1. SmallerAt(x, z, i)
      BY <1>1, <1>3, <2>1, <2>2 DEF SmallerAt
    <3> QED
      BY <3>1
  <2>3. CASE i = k
    <3>1. x[i] < z[i]
      <4>1. z[i] \in Int /\ y[i] < z[i]
        BY <2>1, <2>3
      <4> QED
        BY <2>1, <4>1
    <3>2. SmallerAt(x, z, i)
      BY <1>1, <1>3, <2>3, <3>1 DEF SmallerAt
    <3> QED
      BY <3>2
  <2>4. CASE k < i
    <3>1. SmallerAt(x, z, k)
      BY <1>1, <1>3, <2>1, <2>4 DEF SmallerAt
    <3> QED
      BY <3>1
  <2> QED
    BY <2>2, <2>3, <2>4
<1>4. ASSUME NEW i \in Nat, SmallerAt(x, y, i), ShorterThan(y, z)
      PROVE  SmallerAt(x, z, i)
  BY <1>1, <1>4 DEF SmallerAt, ShorterThan
<1>5. ASSUME ShorterThan(x, y), NEW k \in Nat, SmallerAt(y, z, k)
      PROVE  (\E m \in Nat : SmallerAt(x, z, m)) \/ ShorterThan(x, z)
  <2>1. CASE k <= Len(x)
    <3>1. SmallerAt(x, z, k)
      BY <1>1, <1>5, <2>1 DEF SmallerAt, ShorterThan
    <3> QED
      BY <3>1
  <2>2. CASE Len(x) < k
    BY <1>1, <1>5, <2>2 DEF SmallerAt, ShorterThan
  <2> QED
    BY <1>1, <2>1, <2>2
<1>6. ShorterThan(x, y) /\ ShorterThan(y, z) => ShorterThan(x, z)
  BY <1>1 DEF ShorterThan
<1> QED
  BY <1>3, <1>4, <1>5, <1>6, LessIs

\* The piece is what start_with compares it with, and what remove_prefix leaves.
LEMMA StartWithIs ==
  ASSUME NEW x \in Strings, NEW y \in Strings, StartWith(x, y)
  PROVE  /\ x = y \o RemovePrefix(x, Len(y))
         /\ y = RemoveSuffix(x, Len(x) - Len(y))
         /\ LessOrEqual(y, x)
<1> DEFINE n == Len(y)
           rest == RemovePrefix(x, n)
<1>1. Len(x) \in Nat /\ n \in Nat /\ n <= Len(x) /\ Memcmp(x, y, n) = 0
  BY StringIs DEF StartWith
<1>2. ASSUME NEW k \in 1..n PROVE x[k] = y[k]
  <2>1. ~\E i \in 1..n : DifferAt(x, y, i) /\ Memcmp(x, y, n) = x[i] - y[i]
    <3> SUFFICES ASSUME NEW i \in 1..n, x[i] # y[i] PROVE x[i] - y[i] # 0
      BY <1>1 DEF DifferAt
    <3>1. x[i] \in Int /\ y[i] \in Int
      BY <1>1, StringIs
    <3> QED
      BY <3>1
  <2>2. n <= Len(y)
    BY <1>1
  <2> HIDE DEF n
  <2>3. \A i \in 1..n : x[i] = y[i]
    BY <1>1, <2>1, <2>2, MemcmpIs
  <2> QED
    BY <2>3
<1>3. x = y \o rest
  <2>1. /\ rest \in Strings /\ Len(rest) = Len(x) - n
        /\ \A k \in 1..(Len(x) - n) : rest[k] = x[n + k]
    BY <1>1, SubSeqProperties DEF RemovePrefix, Strings
  <2> HIDE DEF rest
  <2>2. /\ y \o rest \in Seq(Int) /\ Len(y \o rest) = Len(x)
        /\ \A k \in 1..Len(x) : (y \o rest)[k] = IF k <= n THEN y[k] ELSE rest[k - n]
    BY <1>1, <2>1, ConcatProperties DEF Strings
  <2>3. ASSUME NEW k \in 1..Len(x) PROVE x[k] = (y \o rest)[k]
    <3>1. CASE k <= n
      BY <1>1, <1>2, <2>2, <3>1
    <3>2. CASE n < k
      <4>1. k - n \in 1..(Len(x) - n) /\ n + (k - n) = k /\ ~(k <= n)
        BY <1>1, <3>2
      <4> QED
        BY <2>1, <2>2, <4>1
    <3>3. k \in Int /\ n \in Int
      BY <1>1
    <3>4. k <= n \/ n < k
      <4> HIDE DEF n
      <4> QED
        BY <3>3
    <3> QED
      BY <3>1, <3>2, <3>4
  <2> QED
    BY <2>2, <2>3, SeqEqual DEF Strings
<1>4. y = RemoveSuffix(x, Len(x) - n)
  <2>1. Len(x) - (Len(x) - n) = n
    BY <1>1
  <2>2. RemoveSuffix(x, Len(x) - n) = SubSeq(x, 1, n)
    BY <2>1 DEF RemoveSuffix
  <2>3. /\ SubSeq(x, 1, n) \in Seq(Int) /\ Len(SubSeq(x, 1, n)) = n
        /\ \A k \in 1..n : SubSeq(x, 1, n)[k] = x[k]
    BY <1>1, SubSeqProperties DEF Strings
  <2> QED
    BY <1>2, <2>2, <2>3, SeqEqual DEF Strings
<1>5. LessOrEqual(y, x)
  <2>1. ~\E k \in Nat : /\ 1 <= k /\ k <= Len(y) /\ k <= Len(x) /\ DifferAt(y, x, k)
                        /\ Common(y, x) = y[k] - x[k]
    BY <1>1, <1>2 DEF DifferAt
  <2>2. Common(y, x) = 0
    BY <2>1, CommonIs
  <2> QED
    BY <1>1, <2>2 DEF LessOrEqual
<1> QED
  BY <1>3, <1>4, <1>5

(* string_piece.h, the comparisons, start_with, remove_prefix and          *)
(* remove_suffix: the five comparisons and compare agree with each other,  *)
(* the order is strict and transitive, and a piece that starts with        *)
(* another is that one and what remove_prefix leaves, for pieces of any    *)
(* length.                                                                 *)
THEOREM PiecesAreOrdered == PiecesOrdered(Strings)
<1> SUFFICES ASSUME NEW x \in Strings, NEW y \in Strings
             PROVE  /\ Equal(x, y) <=> x = y
                    /\ Less(x, y) <=> ~GreaterOrEqual(x, y)
                    /\ Less(x, y) <=> Greater(y, x)
                    /\ LessOrEqual(x, y) <=> Less(x, y) \/ Equal(x, y)
                    /\ GreaterOrEqual(x, y) <=> LessOrEqual(y, x)
                    /\ Compare(x, y) < 0 <=> Less(x, y)
                    /\ Compare(x, y) = 0 <=> Equal(x, y)
                    /\ \A z \in Strings : Less(x, y) /\ Less(y, z) => Less(x, z)
                    /\ StartWith(x, y) => /\ x = y \o RemovePrefix(x, Len(y))
                                          /\ y = RemoveSuffix(x, Len(x) - Len(y))
                                          /\ LessOrEqual(y, x)
  BY Zenon DEF PiecesOrdered
<1>1. Len(x) \in Nat /\ Len(y) \in Nat
  BY StringIs
<1>2. Common(x, y) \in Int /\ Common(y, x) = 0 - Common(x, y)
  BY CommonMirror
<1>3. /\ Equal(x, y) <=> x = y
      /\ Equal(x, y) <=> Common(x, y) = 0 /\ Len(x) = Len(y)
  BY EqualIs
<1>4. /\ Less(x, y) <=> ~GreaterOrEqual(x, y)
      /\ Less(x, y) <=> Greater(y, x)
      /\ GreaterOrEqual(x, y) <=> LessOrEqual(y, x)
  BY <1>1, <1>2 DEF Less, GreaterOrEqual, Greater, LessOrEqual
<1>5. LessOrEqual(x, y) <=> Less(x, y) \/ Equal(x, y)
  BY <1>1, <1>2, <1>3 DEF Less, LessOrEqual
<1>6. /\ Compare(x, y) < 0 <=> Less(x, y)
      /\ Compare(x, y) = 0 <=> Equal(x, y)
  BY <1>1, <1>2, <1>3 DEF Less, Compare
<1> QED
  BY <1>3, <1>4, <1>5, <1>6, LessTransitive, StartWithIs

-------------------------------------------------------------------------------
(* Numbers as text.  The digits of a number are those of its quotient and  *)
(* one more: a recursion that ends, as the quotient is the smaller one.    *)

Magnitude(i) == IF i < 0 THEN 0 - i ELSE i

Descends(D, q) ==
  /\ D \subseteq Int
  /\ q \in [D -> D]
  /\ \A i \in D : q[i] # 0 => Magnitude(q[i]) < Magnitude(i)

Step(q, d, F, i) == <<d[i]>> \o (IF q[i] # 0 THEN F[q[i]] ELSE <<>>)

\* The recursion as far as the numbers of magnitude n.
UpTo(D, n) == {i \in D : Magnitude(i) <= n}
Partial(D, q, d, n, F) == F = [i \in UpTo(D, n) |-> Step(q, d, F, i)]

LEMMA MagnitudeIs == \A i \in Int : Magnitude(i) \in Nat /\ (Magnitude(i) = 0 <=> i = 0)
  BY DEF Magnitude

LEMMA PartialAgree ==
  ASSUME NEW D, NEW q, NEW d, Descends(D, q), NEW m \in Nat, NEW n \in Nat,
         NEW F, Partial(D, q, d, m, F), NEW G, Partial(D, q, d, n, G)
  PROVE  \A i \in D : Magnitude(i) <= m /\ Magnitude(i) <= n => F[i] = G[i]
<1> DEFINE S == {k \in Nat : \E i \in D : /\ Magnitude(i) = k /\ k <= m /\ k <= n
                                          /\ F[i] # G[i]}
<1>1. S = {}
  <2> SUFFICES ASSUME S # {} PROVE FALSE
    OBVIOUS
  <2>1. S \subseteq Nat
    OBVIOUS
  <2>2. PICK k \in S : \A j \in S : k <= j
    <3> HIDE DEF S
    <3> QED
      BY <2>1, NatMin
  <2>3. PICK i \in D : Magnitude(i) = k /\ k <= m /\ k <= n /\ F[i] # G[i]
    BY <2>2
  <2>4. F[i] = Step(q, d, F, i) /\ G[i] = Step(q, d, G, i)
    <3>1. i \in UpTo(D, m) /\ i \in UpTo(D, n)
      BY <2>3 DEF UpTo
    <3> QED
      BY <3>1 DEF Partial
  <2>5. q[i] # 0 /\ F[q[i]] # G[q[i]]
    BY <2>3, <2>4 DEF Step
  <2>6. q[i] \in D /\ Magnitude(q[i]) < k /\ Magnitude(q[i]) \in Nat
    BY <2>3, <2>5, MagnitudeIs DEF Descends
  <2>7. Magnitude(q[i]) \in S
    BY <2>2, <2>3, <2>5, <2>6
  <2> QED
    <3> HIDE DEF S
    <3> QED
      BY <2>1, <2>2, <2>6, <2>7
<1> QED
  <2> SUFFICES ASSUME NEW i \in D, Magnitude(i) <= m, Magnitude(i) <= n, F[i] # G[i] PROVE FALSE
    OBVIOUS
  <2>1. Magnitude(i) \in Nat
    BY MagnitudeIs DEF Descends
  <2>2. Magnitude(i) \in S
    BY <2>1
  <2> QED
    BY <1>1, <2>2

LEMMA PartialExists ==
  ASSUME NEW D, NEW q, NEW d, Descends(D, q)
  PROVE  \A n \in Nat : \E F : Partial(D, q, d, n, F)
<1> DEFINE S == {n \in Nat : ~\E F : Partial(D, q, d, n, F)}
<1> SUFFICES ASSUME S # {} PROVE FALSE
  OBVIOUS
<1>1. S \subseteq Nat
  OBVIOUS
<1>2. PICK n \in S : \A m \in S : n <= m
  <2> HIDE DEF S
  <2> QED
    BY <1>1, NatMin
<1>3. n \in Nat /\ ~\E F : Partial(D, q, d, n, F)
  BY <1>2
<1>4. \E G : n > 0 => Partial(D, q, d, n - 1, G)
  <2>1. CASE n > 0
    <3>1. n - 1 \in Nat /\ ~(n <= n - 1)
      BY <1>3, <2>1
    <3>2. n - 1 \notin S
      BY <1>2, <3>1
    <3> QED
      BY <3>1, <3>2
  <2> QED
    BY <2>1
<1>5. PICK G : n > 0 => Partial(D, q, d, n - 1, G)
  BY <1>4
<1> DEFINE F == [i \in UpTo(D, n) |-> Step(q, d, G, i)]
<1>6. ASSUME NEW i \in UpTo(D, n) PROVE Step(q, d, F, i) = Step(q, d, G, i)
  <2>1. i \in D /\ Magnitude(i) <= n /\ Magnitude(i) \in Nat
    BY MagnitudeIs DEF UpTo, Descends
  <2>2. ASSUME q[i] # 0 PROVE F[q[i]] = G[q[i]]
    <3>1. q[i] \in D /\ Magnitude(q[i]) < Magnitude(i) /\ Magnitude(q[i]) \in Nat
      BY <2>1, <2>2, MagnitudeIs DEF Descends
    <3>2. n > 0 /\ Magnitude(q[i]) <= n - 1 /\ Magnitude(q[i]) <= n
      BY <1>3, <2>1, <3>1
    <3>3. q[i] \in UpTo(D, n) /\ q[i] \in UpTo(D, n - 1)
      BY <3>1, <3>2 DEF UpTo
    <3>4. G[q[i]] = Step(q, d, G, q[i])
      BY <1>5, <3>2, <3>3 DEF Partial
    <3> QED
      BY <3>3, <3>4
  <2> QED
    BY <2>2 DEF Step
<1>7. Partial(D, q, d, n, F)
  BY <1>6 DEF Partial
<1> QED
  BY <1>3, <1>7

LEMMA RecursionEnds ==
  ASSUME NEW D, NEW q, NEW d, Descends(D, q)
  PROVE  \E F : F = [i \in D |-> Step(q, d, F, i)]
<1> DEFINE part(n) == CHOOSE G : Partial(D, q, d, n, G)
           F == [i \in D |-> part(Magnitude(i))[i]]
<1>1. \A n \in Nat : Partial(D, q, d, n, part(n))
  BY PartialExists
<1> HIDE DEF part
<1>2. ASSUME NEW i \in D PROVE F[i] = Step(q, d, F, i)
  <2>1. Magnitude(i) \in Nat
    BY MagnitudeIs DEF Descends
  <2>2. part(Magnitude(i))[i] = Step(q, d, part(Magnitude(i)), i)
    <3>1. i \in UpTo(D, Magnitude(i))
      BY <2>1 DEF UpTo
    <3> QED
      BY <1>1, <2>1, <3>1 DEF Partial
  <2>3. ASSUME q[i] # 0 PROVE F[q[i]] = part(Magnitude(i))[q[i]]
    <3>1. q[i] \in D /\ Magnitude(q[i]) < Magnitude(i) /\ Magnitude(q[i]) \in Nat
      BY <2>3, MagnitudeIs DEF Descends
    <3>2. /\ Partial(D, q, d, Magnitude(i), part(Magnitude(i)))
          /\ Partial(D, q, d, Magnitude(q[i]), part(Magnitude(q[i])))
      BY <1>1, <2>1, <3>1
    <3>3. Magnitude(q[i]) <= Magnitude(i) /\ Magnitude(q[i]) <= Magnitude(q[i])
      BY <2>1, <3>1
    <3>4. part(Magnitude(q[i]))[q[i]] = part(Magnitude(i))[q[i]]
      BY <2>1, <3>1, <3>2, <3>3, PartialAgree
    <3> QED
      BY <3>1, <3>4
  <2> QED
    BY <2>2, <2>3 DEF Step
<1>3. F = [i \in D |-> Step(q, d, F, i)]
  BY <1>2
<1> QED
  BY <1>3

(* Reading a text.                                                         *)

Chars == {digits_hex[k] : k \in 1..16}

Reads(text, base, sum) ==
  /\ sum \in [0..Len(text) -> Int]
  /\ sum[0] = 0
  /\ \A n \in 1..Len(text) : sum[n] = base * sum[n - 1] + DigitValue(text[n])

LEMMA CharsDiffer ==
  ASSUME NEW j \in 1..16, NEW k \in 1..16, digits_hex[j] = digits_hex[k]
  PROVE  j = k
  BY DEF digits_hex

LEMMA DigitsAre ==
  ASSUME NEW n \in 0..15
  PROVE  /\ digits_hex[n + 1] \in Chars
         /\ DigitValue(digits_hex[n + 1]) = n
         /\ n # 0 => digits_hex[n + 1] # "0"
<1>1. n + 1 \in 1..16 /\ (n + 1) - 1 = n
  OBVIOUS
<1> DEFINE m == n + 1
           found == CHOOSE d \in 1..16 : digits_hex[d] = digits_hex[m]
<1>2. m \in 1..16 /\ m - 1 = n
  BY <1>1
<1> HIDE DEF m
<1>3. found \in 1..16 /\ digits_hex[found] = digits_hex[m]
  BY <1>2
<1>4. DigitValue(digits_hex[m]) = found - 1
  BY DEF DigitValue
<1> HIDE DEF found
<1>5. found = m
  BY <1>2, <1>3, CharsDiffer
<1>6. digits_hex[m] = "0" => m = 1
  <2>1. digits_hex[1] = "0" /\ 1 \in 1..16
    BY DEF digits_hex
  <2> QED
    BY <1>2, <2>1, CharsDiffer
<1>7. digits_hex[m] \in Chars
  BY <1>2 DEF Chars
<1> QED
  BY <1>2, <1>4, <1>5, <1>6, <1>7 DEF m

LEMMA DigitIsNat == \A char \in Chars : DigitValue(char) \in Nat
<1> SUFFICES ASSUME NEW k \in 1..16 PROVE DigitValue(digits_hex[k]) \in Nat
  BY DEF Chars
<1> DEFINE n == k - 1
<1>1. n \in 0..15 /\ n + 1 = k
  OBVIOUS
<1> HIDE DEF n
<1>2. DigitValue(digits_hex[n + 1]) = n
  BY <1>1, DigitsAre
<1> QED
  BY <1>1, <1>2

LEMMA NumberIs ==
  ASSUME NEW text \in Seq(Chars), NEW base \in Nat, NEW sum, Reads(text, base, sum),
         NEW sign \in {1, -1}
  PROVE  Number(text, base, sign) = sign * sum[Len(text)]
<1> DEFINE IsSum(f) == f = [n \in 0..Len(text) |->
                              IF n = 0 THEN 0 ELSE base * f[n - 1] + sign * DigitValue(text[n])]
           found == CHOOSE f : IsSum(f)
           signed == [n \in 0..Len(text) |-> sign * sum[n]]
           S == {n \in Nat : n <= Len(text) /\ found[n] # signed[n]}
<1>1. Len(text) \in Nat
  BY LenProperties
<1>2. IsSum(signed)
  <2>1. ASSUME NEW n \in 0..Len(text)
        PROVE  signed[n] = IF n = 0 THEN 0 ELSE base * signed[n - 1] + sign * DigitValue(text[n])
    <3>1. CASE n = 0
      <4>1. signed[0] = sign * sum[0] /\ sum[0] = 0
        BY <1>1 DEF Reads
      <4> QED
        BY <3>1, <4>1
    <3>2. CASE n # 0
      <4>1. n \in 1..Len(text) /\ n - 1 \in 0..Len(text)
        BY <1>1, <3>2
      <4> DEFINE x == sum[n]
                 y == sum[n - 1]
                 digit == DigitValue(text[n])
      <4>2. x \in Int /\ y \in Int /\ x = base * y + digit
        BY <4>1 DEF Reads
      <4>3. digit \in Int
        <5>1. text[n] \in Chars
          BY <4>1, LenProperties
        <5> QED
          BY <5>1, DigitIsNat
      <4>4. signed[n] = sign * x /\ signed[n - 1] = sign * y
        BY <4>1
      <4> HIDE DEF x, y, digit, signed
      <4>5. sign * x = base * (sign * y) + sign * digit
        <5>1. CASE sign = 1
          BY <4>2, <4>3, <5>1
        <5>2. CASE sign = -1
          <6>1. base * y \in Int /\ base * (0 - y) = 0 - base * y
            BY <4>2
          <6>2. sign * x = 0 - x /\ sign * y = 0 - y /\ sign * digit = 0 - digit
            BY <4>2, <4>3, <5>2
          <6> QED
            BY <4>2, <4>3, <6>1, <6>2
        <5> QED
          BY <5>1, <5>2
      <4>6. signed[n] = base * signed[n - 1] + sign * digit
        BY <4>4, <4>5
      <4> QED
        BY <3>2, <4>6 DEF digit
    <3> QED
      BY <3>1, <3>2
  <2>2. signed = [n \in 0..Len(text) |-> signed[n]]
    OBVIOUS
  <2> HIDE DEF signed
  <2> QED
    BY <2>1, <2>2
<1>3. IsSum(found)
  <2> HIDE DEF IsSum
  <2> QED
    BY <1>2
<1>4. Number(text, base, sign) = found[Len(text)]
  BY DEF Number
<1> HIDE DEF found
<1>5. S = {}
  <2> SUFFICES ASSUME S # {} PROVE FALSE
    OBVIOUS
  <2>1. S \subseteq Nat
    OBVIOUS
  <2>2. PICK n \in S : \A m \in S : n <= m
    <3> HIDE DEF S
    <3> QED
      BY <2>1, NatMin
  <2>3. n \in 0..Len(text) /\ found[n] # signed[n]
    BY <1>1, <2>2
  <2>4. found[n] = IF n = 0 THEN 0 ELSE base * found[n - 1] + sign * DigitValue(text[n])
    BY <1>3, <2>3
  <2> HIDE DEF signed
  <2>5. signed[n] = IF n = 0 THEN 0 ELSE base * signed[n - 1] + sign * DigitValue(text[n])
    BY <1>2, <2>3
  <2>6. n # 0
    BY <2>3, <2>4, <2>5
  <2>7. n - 1 \in Nat /\ n - 1 <= Len(text) /\ ~(n <= n - 1)
    BY <1>1, <2>3, <2>6
  <2>8. n - 1 \notin S
    <3> HIDE DEF S
    <3> QED
      BY <2>2, <2>7
  <2>9. found[n - 1] = signed[n - 1]
    BY <2>7, <2>8
  <2> QED
    BY <2>3, <2>4, <2>5, <2>6, <2>9
<1>6. found[Len(text)] = signed[Len(text)]
  <2> SUFFICES ASSUME found[Len(text)] # signed[Len(text)] PROVE FALSE
    OBVIOUS
  <2> HIDE DEF signed
  <2>1. Len(text) \in S
    BY <1>1
  <2> QED
    BY <1>5, <2>1
<1>7. signed[Len(text)] = sign * sum[Len(text)]
  BY <1>1
<1> QED
  BY <1>4, <1>6, <1>7

LEMMA ReadsMore ==
  ASSUME NEW text \in Seq(Chars), NEW base \in Nat, NEW sum, Reads(text, base, sum),
         NEW char \in Chars, DigitValue(char) \in Int
  PROVE  \E more : /\ Reads(Append(text, char), base, more)
                   /\ more[Len(Append(text, char))] = base * sum[Len(text)] + DigitValue(char)
<1> DEFINE len == Len(text)
           longer == Append(text, char)
           more == [n \in 0..(len + 1) |->
                      IF n <= len THEN sum[n] ELSE base * sum[len] + DigitValue(char)]
<1>1. len \in Nat
  BY LenProperties
<1>2. /\ Len(longer) = len + 1
      /\ \A n \in 1..(len + 1) : longer[n] = IF n <= len THEN text[n] ELSE char
  BY AppendProperties, <1>1
<1> HIDE DEF longer
<1>3. sum \in [0..len -> Int] /\ sum[0] = 0
  BY DEF Reads
<1>4. \A n \in 1..len : sum[n] = base * sum[n - 1] + DigitValue(text[n])
  BY DEF Reads
<1> HIDE DEF len
<1>5. sum[len] \in Int /\ base * sum[len] + DigitValue(char) \in Int
  <2>1. sum[len] \in Int
    BY <1>1, <1>3
  <2>2. base * sum[len] \in Int
    BY <2>1
  <2> QED
    BY <2>1, <2>2
<1>6. more \in [0..(len + 1) -> Int]
  <2>1. ASSUME NEW n \in 0..(len + 1), n <= len PROVE sum[n] \in Int
    <3>1. n \in 0..len
      BY <1>1, <2>1
    <3> QED
      BY <1>3, <3>1
  <2> QED
    BY <1>5, <2>1
<1>7. more[0] = 0
  BY <1>1, <1>3
<1>8. ASSUME NEW n \in 1..(len + 1)
      PROVE  more[n] = base * more[n - 1] + DigitValue(longer[n])
  <2>1. n \in 0..(len + 1) /\ n - 1 \in 0..(len + 1) /\ n - 1 <= len
    BY <1>1
  <2>2. more[n - 1] = sum[n - 1]
    BY <2>1
  <2>3. CASE n <= len
    <3>1. n \in 1..len
      BY <1>1, <2>3
    <3>2. more[n] = sum[n] /\ longer[n] = text[n]
      BY <1>2, <2>1, <2>3
    <3> QED
      BY <1>4, <2>2, <3>1, <3>2
  <2>4. CASE n = len + 1
    <3>1. ~(n <= len) /\ n - 1 = len
      BY <1>1, <2>4
    <3>2. more[n] = base * sum[len] + DigitValue(char) /\ longer[n] = char
      BY <1>2, <2>1, <3>1
    <3> QED
      BY <2>2, <3>1, <3>2
  <2> QED
    BY <1>1, <2>3, <2>4
<1>9. Reads(longer, base, more)
  <2> HIDE DEF more
  <2> QED
    BY <1>2, <1>6, <1>7, <1>8 DEF Reads
<1>10. more[Len(longer)] = base * sum[len] + DigitValue(char)
  BY <1>1, <1>2
<1> QED
  BY <1>9, <1>10 DEF longer, len

LEMMA ReverseStep ==
  ASSUME NEW char \in Chars, NEW s \in Seq(Chars)
  PROVE  /\ <<char>> \o s \in Seq(Chars) /\ Len(<<char>> \o s) = Len(s) + 1
         /\ s # <<>> => (<<char>> \o s)[Len(s) + 1] = s[Len(s)]
         /\ Reverse(s) \in Seq(Chars) /\ Len(Reverse(s)) = Len(s)
         /\ s # <<>> => Reverse(s)[1] = s[Len(s)]
         /\ Reverse(<<char>> \o s) = Append(Reverse(s), char)
<1>1. Len(s) \in Nat /\ \A k \in 1..Len(s) : s[k] \in Chars
  BY LenProperties
<1>2. <<char>> \in Seq(Chars) /\ Len(<<char>>) = 1 /\ <<char>>[1] = char
  OBVIOUS
<1> DEFINE longer == <<char>> \o s
           back == Reverse(s)
<1>3. /\ longer \in Seq(Chars) /\ Len(longer) = Len(s) + 1
      /\ \A k \in 1..(Len(s) + 1) : longer[k] = IF k <= 1 THEN char ELSE s[k - 1]
  <2>1. /\ longer \in Seq(Chars) /\ Len(longer) = 1 + Len(s)
        /\ \A k \in 1..(1 + Len(s)) : longer[k] = IF k <= 1 THEN <<char>>[k] ELSE s[k - 1]
    BY <1>2, ConcatProperties
  <2> HIDE DEF longer
  <2>2. ASSUME NEW k \in 1..(Len(s) + 1) PROVE longer[k] = IF k <= 1 THEN char ELSE s[k - 1]
    <3>1. k \in 1..(1 + Len(s)) /\ (k <= 1 => k = 1)
      BY <1>1
    <3> QED
      BY <1>2, <2>1, <3>1
  <2> QED
    BY <1>1, <2>1, <2>2
<1> HIDE DEF longer
<1>4. /\ back \in Seq(Chars) /\ Len(back) = Len(s)
      /\ \A k \in 1..Len(s) : back[k] = s[(Len(s) - k) + 1]
  <2>1. \A k \in 1..Len(s) : s[(Len(s) - k) + 1] \in Chars
    <3> SUFFICES ASSUME NEW k \in 1..Len(s) PROVE s[(Len(s) - k) + 1] \in Chars
      OBVIOUS
    <3>1. (Len(s) - k) + 1 \in 1..Len(s)
      BY <1>1
    <3> QED
      BY <1>1, <3>1
  <2>2. back = [k \in 1..Len(s) |-> s[(Len(s) - k) + 1]]
    BY DEF Reverse
  <2>3. back \in [1..Len(s) -> Chars]
    BY <2>1, <2>2
  <2> HIDE DEF back
  <2> QED
    BY <1>1, <2>2, <2>3, IsASeq, LenProperties
<1> HIDE DEF back
<1>5. /\ Append(back, char) \in Seq(Chars) /\ Len(Append(back, char)) = Len(s) + 1
      /\ \A k \in 1..(Len(s) + 1) :
           Append(back, char)[k] = IF k <= Len(s) THEN back[k] ELSE char
  BY <1>1, <1>4, AppendProperties
<1>6. Reverse(longer) = Append(back, char)
  <2>1. Reverse(longer) = [k \in 1..(Len(s) + 1) |-> longer[(Len(s) + 1 - k) + 1]]
    BY <1>3 DEF Reverse
  <2>2. ASSUME NEW k \in 1..(Len(s) + 1)
        PROVE  longer[(Len(s) + 1 - k) + 1] = Append(back, char)[k]
    <3>1. CASE k <= Len(s)
      <4>1. /\ (Len(s) + 1 - k) + 1 \in 1..(Len(s) + 1) /\ ~((Len(s) + 1 - k) + 1 <= 1)
            /\ ((Len(s) + 1 - k) + 1) - 1 = (Len(s) - k) + 1 /\ k \in 1..Len(s)
        BY <1>1, <3>1
      <4> QED
        BY <1>3, <1>4, <1>5, <3>1, <4>1
    <3>2. CASE k = Len(s) + 1
      <4>1. (Len(s) + 1 - k) + 1 = 1 /\ 1 \in 1..(Len(s) + 1) /\ 1 <= 1 /\ ~(k <= Len(s))
        BY <1>1, <3>2
      <4>2. longer[1] = char
        BY <1>3, <4>1
      <4>3. Append(back, char)[k] = char
        BY <1>5, <4>1
      <4> QED
        BY <4>1, <4>2, <4>3
    <3>3. k <= Len(s) \/ k = Len(s) + 1
      BY <1>1
    <3> QED
      BY <3>1, <3>2, <3>3
  <2>3. Append(back, char) = [k \in 1..(Len(s) + 1) |-> Append(back, char)[k]]
    BY <1>1, <1>5, SeqDef, LenProperties
  <2> QED
    BY <2>1, <2>2, <2>3
<1>7. s # <<>> => Len(s) > 0
  BY <1>1, EmptySeq
<1>8. s # <<>> => longer[Len(s) + 1] = s[Len(s)]
  <2> SUFFICES ASSUME Len(s) > 0 PROVE longer[Len(s) + 1] = s[Len(s)]
    BY <1>7
  <2>1. Len(s) + 1 \in 1..(Len(s) + 1) /\ ~(Len(s) + 1 <= 1) /\ (Len(s) + 1) - 1 = Len(s)
    BY <1>1
  <2> QED
    BY <1>3, <2>1
<1>9. s # <<>> => back[1] = s[Len(s)]
  <2> SUFFICES ASSUME Len(s) > 0 PROVE back[1] = s[Len(s)]
    BY <1>7
  <2>1. 1 \in 1..Len(s) /\ (Len(s) - 1) + 1 = Len(s)
    BY <1>1
  <2> QED
    BY <1>4, <2>1
<1> QED
  BY <1>3, <1>4, <1>6, <1>8, <1>9 DEF longer, back

(* A number is its quotient, base times, and its last digit.               *)
Divides(D, q, d, base) ==
  \A i \in D :
    /\ d[i] \in Chars
    /\ DigitValue(d[i]) \in Nat
    /\ Magnitude(i) = base * Magnitude(q[i]) + DigitValue(d[i])
    /\ i # 0 /\ q[i] = 0 => d[i] # "0"

TextOf(text, base, value) ==
  /\ text \in Seq(Chars) /\ text # <<>>
  /\ \E sum : Reads(Reverse(text), base, sum) /\ sum[Len(Reverse(text))] = value
  /\ text[Len(text)] = "0" => value = 0
  /\ value = 0 => Len(text) = 1

LEMMA DigitsRead ==
  ASSUME NEW D, NEW q, NEW d, Descends(D, q), NEW base \in Nat, base > 0, Divides(D, q, d, base),
         NEW F, F = [i \in D |-> Step(q, d, F, i)]
  PROVE  \A i \in D : TextOf(F[i], base, Magnitude(i))
<1> DEFINE S == {k \in Nat : \E i \in D : Magnitude(i) = k /\ ~TextOf(F[i], base, k)}
<1>1. S = {}
  <2> SUFFICES ASSUME S # {} PROVE FALSE
    OBVIOUS
  <2>1. S \subseteq Nat
    OBVIOUS
  <2>2. PICK k \in S : \A j \in S : k <= j
    <3> HIDE DEF S
    <3> QED
      BY <2>1, NatMin
  <2>3. PICK i \in D : Magnitude(i) = k /\ ~TextOf(F[i], base, k)
    BY <2>2
  <2>4. F[i] = Step(q, d, F, i)
    OBVIOUS
  <2>5. /\ d[i] \in Chars /\ DigitValue(d[i]) \in Nat
        /\ k = base * Magnitude(q[i]) + DigitValue(d[i])
        /\ i # 0 /\ q[i] = 0 => d[i] # "0"
    BY <2>3 DEF Divides
  <2>6. i \in Int /\ q[i] \in Int /\ k \in Nat
    BY <2>1, <2>2 DEF Descends
  <2>7. CASE q[i] = 0
    <3>1. F[i] = <<d[i]>> \o <<>>
      BY <2>4, <2>7 DEF Step
    <3>2. F[i] = <<d[i]>>
      BY <2>5, <3>1
    <3>3. Magnitude(q[i]) = 0
      BY <2>7 DEF Magnitude
    <3>4. k = DigitValue(d[i])
      BY <2>5, <3>3
    <3> DEFINE char == d[i]
               none == [n \in 0..0 |-> 0]
    <3>5. /\ F[i] \in Seq(Chars) /\ Len(F[i]) = 1 /\ F[i] # <<>>
          /\ F[i][1] = char
      <4>1. char \in Chars /\ F[i] = <<char>>
        BY <2>5, <3>2
      <4> HIDE DEF char
      <4>2. <<char>> \in Seq(Chars) /\ Len(<<char>>) = 1 /\ <<char>>[1] = char
        BY ONLY <4>1
      <4>3. <<char>> # <<>>
        BY ONLY <4>2, EmptySeq
      <4> QED
        BY <4>1, <4>2, <4>3
    <3>6. <<>> \in Seq(Chars) /\ Len(<<>>) = 0
      OBVIOUS
    <3>7. Reverse(F[i]) = Append(<<>>, char)
      <4>1. /\ Reverse(<<>>) \in Seq(Chars) /\ Len(Reverse(<<>>)) = Len(<<>>)
            /\ Reverse(<<char>> \o <<>>) = Append(Reverse(<<>>), char)
        <5>1. char \in Chars
          BY <2>5
        <5> HIDE DEF char
        <5> QED
          BY ONLY <3>6, <5>1, ReverseStep
      <4>2. Reverse(<<>>) = <<>>
        BY <3>6, <4>1, EmptySeq
      <4> QED
        BY <3>1, <4>1, <4>2
    <3>8. Reads(<<>>, base, none) /\ none[Len(<<>>)] = 0
      BY <3>6 DEF Reads
    <3> HIDE DEF none
    <3>9. \E sum : Reads(Reverse(F[i]), base, sum) /\ sum[Len(Reverse(F[i]))] = k
      <4>1. char \in Chars /\ DigitValue(char) \in Nat /\ k = DigitValue(char)
        BY <2>5, <3>4
      <4> HIDE DEF char
      <4>2. \E more : /\ Reads(Append(<<>>, char), base, more)
                      /\ more[Len(Append(<<>>, char))] = base * none[Len(<<>>)] + DigitValue(char)
        <5> DEFINE empty == <<>>
        <5>1. empty \in Seq(Chars) /\ Reads(empty, base, none)
          BY <3>6, <3>8
        <5> HIDE DEF empty
        <5>2. \E more : /\ Reads(Append(empty, char), base, more)
                        /\ more[Len(Append(empty, char))] = base * none[Len(empty)] + DigitValue(char)
          BY <4>1, <5>1, ReadsMore
        <5> QED
          BY <5>2 DEF empty
      <4>3. base * none[Len(<<>>)] + DigitValue(char) = k
        BY <3>8, <4>1
      <4> QED
        BY <3>7, <4>2, <4>3
    <3>10. F[i][Len(F[i])] = "0" => k = 0
      <4>1. i = 0 => k = 0
        BY <2>3 DEF Magnitude
      <4> QED
        BY <2>5, <2>7, <3>5, <4>1
    <3> QED
      BY <2>3, <3>5, <3>9, <3>10 DEF TextOf
  <2>8. CASE q[i] # 0
    <3> DEFINE rest == F[q[i]]
    <3>1. F[i] = <<d[i]>> \o rest
      BY <2>4, <2>8 DEF Step
    <3>2. TextOf(rest, base, Magnitude(q[i]))
      <4>1. q[i] \in D /\ Magnitude(q[i]) < k /\ Magnitude(q[i]) \in Nat
        BY <2>3, <2>8, MagnitudeIs DEF Descends
      <4>2. Magnitude(q[i]) \notin S
        <5> HIDE DEF S
        <5> QED
          BY <2>2, <2>6, <4>1
      <4> QED
        BY <4>1, <4>2
    <3> HIDE DEF rest
    <3>3. rest \in Seq(Chars) /\ rest # <<>> /\ Len(rest) \in Nat /\ Len(rest) > 0
      BY <3>2, LenProperties, EmptySeq DEF TextOf
    <3>4. /\ F[i] \in Seq(Chars) /\ Len(F[i]) = Len(rest) + 1
          /\ F[i][Len(F[i])] = rest[Len(rest)]
          /\ Reverse(rest) \in Seq(Chars)
          /\ Reverse(F[i]) = Append(Reverse(rest), d[i])
      <4> DEFINE char == d[i]
      <4>1. char \in Chars /\ F[i] = <<char>> \o rest
        BY <2>5, <3>1
      <4> SUFFICES /\ F[i] \in Seq(Chars) /\ Len(F[i]) = Len(rest) + 1
                   /\ F[i][Len(F[i])] = rest[Len(rest)]
                   /\ Reverse(rest) \in Seq(Chars)
                   /\ Reverse(F[i]) = Append(Reverse(rest), char)
        OBVIOUS
      <4> HIDE DEF char
      <4>2. /\ <<char>> \o rest \in Seq(Chars) /\ Len(<<char>> \o rest) = Len(rest) + 1
            /\ (<<char>> \o rest)[Len(rest) + 1] = rest[Len(rest)]
            /\ Reverse(rest) \in Seq(Chars)
            /\ Reverse(<<char>> \o rest) = Append(Reverse(rest), char)
        BY ONLY <3>3, <4>1, ReverseStep
      <4> QED
        BY <4>1, <4>2
    <3>5. PICK sum : Reads(Reverse(rest), base, sum) /\ sum[Len(Reverse(rest))] = Magnitude(q[i])
      BY <3>2 DEF TextOf
    <3>6. PICK more : /\ Reads(Append(Reverse(rest), d[i]), base, more)
                      /\ more[Len(Append(Reverse(rest), d[i]))]
                           = base * sum[Len(Reverse(rest))] + DigitValue(d[i])
      BY <2>5, <3>4, <3>5, ReadsMore
    <3>7. more[Len(Reverse(F[i]))] = k
      BY <2>5, <3>4, <3>5, <3>6
    <3>10. Magnitude(q[i]) # 0 /\ k # 0
      <4>1. Magnitude(q[i]) \in Nat /\ Magnitude(q[i]) # 0 /\ Magnitude(q[i]) < k
        BY <2>3, <2>6, <2>8, MagnitudeIs DEF Descends
      <4> QED
        BY <2>6, <4>1
    <3>8. F[i][Len(F[i])] # "0"
      <4>1. rest[Len(rest)] # "0"
        BY <3>2, <3>10 DEF TextOf
      <4> QED
        BY <3>4, <4>1
    <3>9. F[i] # <<>>
      BY <3>3, <3>4
    <3> QED
      BY <2>3, <3>4, <3>6, <3>7, <3>8, <3>9, <3>10 DEF TextOf
  <2> QED
    BY <2>7, <2>8
<1> QED
  <2> SUFFICES ASSUME NEW i \in D PROVE TextOf(F[i], base, Magnitude(i))
    OBVIOUS
  <2>1. Magnitude(i) \in Nat
    BY MagnitudeIs DEF Descends
  <2>2. Magnitude(i) \notin S
    BY <1>1
  <2> QED
    BY <2>1, <2>2

LEMMA ZeroIs ==
  ASSUME NEW r \in Int, -9 <= r, r <= 9
  PROVE  zero(r) = digits_hex[Magnitude(r) + 1] /\ Magnitude(r) \in 0..9
<1>1. CASE r < 0
  <2>1. Magnitude(r) = 0 - r
    BY <1>1 DEF Magnitude
  <2>2. r \in {-1, -2, -3, -4, -5, -6, -7, -8, -9}
    BY <1>1
  <2> QED
    BY <2>1, <2>2 DEF zero, digits, digits_hex
<1>2. CASE r >= 0
  <2>1. Magnitude(r) = r
    BY <1>2 DEF Magnitude
  <2>2. r \in {0, 1, 2, 3, 4, 5, 6, 7, 8, 9}
    BY <1>2
  <2> QED
    BY <2>1, <2>2 DEF zero, digits, digits_hex
<1> QED
  BY <1>1, <1>2

LEMMA ByTen ==
  ASSUME NEW i \in Int
  PROVE  /\ Quot(i, 10) \in Int /\ Rem(i, 10) \in Int
         /\ -9 <= Rem(i, 10) /\ Rem(i, 10) <= 9
         /\ Magnitude(i) = 10 * Magnitude(Quot(i, 10)) + Magnitude(Rem(i, 10))
         /\ Quot(i, 10) # 0 => Magnitude(Quot(i, 10)) < Magnitude(i)
<1> DEFINE k == i \div 10
           r == i % 10
<1>1. k \in Int /\ r \in Int /\ 0 <= r /\ r <= 9 /\ i = 10 * k + r
  OBVIOUS
<1>2. Quot(i, 10) = IF i >= 0 \/ r = 0 THEN k ELSE k + 1
  BY DEF Quot
<1>3. Rem(i, 10) = i - 10 * Quot(i, 10)
  BY DEF Rem
<1> HIDE DEF k, r
<1> QED
  BY <1>1, <1>2, <1>3 DEF Magnitude

LEMMA BySixteen ==
  ASSUME NEW i \in Nat
  PROVE  /\ i \div 16 \in Nat /\ i % 16 \in 0..15
         /\ Magnitude(i) = 16 * Magnitude(i \div 16) + (i % 16)
         /\ i \div 16 # 0 => Magnitude(i \div 16) < Magnitude(i)
<1> DEFINE k == i \div 16
           r == i % 16
<1>1. k \in Nat /\ r \in Int /\ 0 <= r /\ r <= 15 /\ i = 16 * k + r
  OBVIOUS
<1>2. r \in 0..15
  BY <1>1
<1> HIDE DEF k, r
<1>3. Magnitude(i) = i /\ Magnitude(k) = k
  BY <1>1 DEF Magnitude
<1>4. Magnitude(i) = 16 * Magnitude(k) + r /\ (k # 0 => Magnitude(k) < Magnitude(i))
  BY <1>1, <1>3
<1> QED
  BY <1>1, <1>2, <1>4 DEF k, r

LEMMA BackwardsIs ==
  Backwards = [i \in Int |-> <<zero(Rem(i, 10))>> \o
                               (IF Quot(i, 10) # 0 THEN Backwards[Quot(i, 10)] ELSE <<>>)]
<1> DEFINE q == [i \in Int |-> Quot(i, 10)]
           d == [i \in Int |-> zero(Rem(i, 10))]
<1>1. q \in [Int -> Int] /\ \A i \in Int : q[i] = Quot(i, 10) /\ d[i] = zero(Rem(i, 10))
  BY ByTen
<1>2. \A F : [i \in Int |-> Step(q, d, F, i)]
           = [i \in Int |-> <<zero(Rem(i, 10))>> \o (IF Quot(i, 10) # 0 THEN F[Quot(i, 10)] ELSE <<>>)]
  BY DEF Step
<1> HIDE DEF q, d
<1>3. Descends(Int, q)
  BY <1>1, ByTen DEF Descends
<1>4. \E F : F = [i \in Int |-> Step(q, d, F, i)]
  <2> DEFINE D == Int
  <2>1. Descends(D, q)
    BY <1>3
  <2> HIDE DEF D
  <2>2. \E F : F = [i \in D |-> Step(q, d, F, i)]
    BY <2>1, RecursionEnds
  <2> QED
    BY <2>2 DEF D
<1>5. \E F : F = [i \in Int |-> <<zero(Rem(i, 10))>> \o (IF Quot(i, 10) # 0 THEN F[Quot(i, 10)] ELSE <<>>)]
  <2>1. PICK F : F = [i \in Int |-> Step(q, d, F, i)]
    BY <1>4
  <2>2. F = [i \in Int |-> <<zero(Rem(i, 10))>> \o (IF Quot(i, 10) # 0 THEN F[Quot(i, 10)] ELSE <<>>)]
    BY <1>2, <2>1, Zenon
  <2> QED
    BY <2>2
<1> QED
  BY <1>5 DEF Backwards

LEMMA BackwardsReads == \A i \in Int : TextOf(Backwards[i], 10, Magnitude(i))
<1> DEFINE q == [i \in Int |-> Quot(i, 10)]
           d == [i \in Int |-> zero(Rem(i, 10))]
<1>1. q \in [Int -> Int] /\ \A i \in Int : q[i] = Quot(i, 10) /\ d[i] = zero(Rem(i, 10))
  BY ByTen
<1>2. \A F : [i \in Int |-> Step(q, d, F, i)]
           = [i \in Int |-> <<zero(Rem(i, 10))>> \o (IF Quot(i, 10) # 0 THEN F[Quot(i, 10)] ELSE <<>>)]
  BY DEF Step
<1> HIDE DEF q, d
<1>3. Descends(Int, q)
  BY <1>1, ByTen DEF Descends
<1>4. Divides(Int, q, d, 10)
  <2> SUFFICES ASSUME NEW i \in Int
               PROVE  /\ d[i] \in Chars
                      /\ DigitValue(d[i]) \in Nat
                      /\ Magnitude(i) = 10 * Magnitude(q[i]) + DigitValue(d[i])
                      /\ i # 0 /\ q[i] = 0 => d[i] # "0"
    BY DEF Divides
  <2> DEFINE m == Magnitude(Rem(i, 10))
  <2>1. d[i] = digits_hex[m + 1] /\ m \in 0..9
    BY <1>1, ByTen, ZeroIs
  <2>2. Magnitude(i) = 10 * Magnitude(q[i]) + m
    BY <1>1, ByTen
  <2> HIDE DEF m
  <2>3. d[i] \in Chars /\ DigitValue(d[i]) = m /\ (m # 0 => d[i] # "0")
    BY <2>1, DigitsAre
  <2>4. ASSUME i # 0, q[i] = 0 PROVE m # 0
    BY <2>2, <2>4 DEF Magnitude
  <2> QED
    BY <2>1, <2>2, <2>3, <2>4
<1>5. Backwards = [i \in Int |-> Step(q, d, Backwards, i)]
  BY <1>2, BackwardsIs, Zenon
<1> QED
  BY <1>3, <1>4, <1>5, DigitsRead

LEMMA BackwardsHexReads == \A i \in Nat : TextOf(BackwardsHex[i], 16, i)
<1> DEFINE q == [i \in Nat |-> i \div 16]
           d == [i \in Nat |-> digits_hex[(i % 16) + 1]]
<1>1. q \in [Nat -> Nat] /\ \A i \in Nat : q[i] = i \div 16 /\ d[i] = digits_hex[(i % 16) + 1]
  BY BySixteen
<1>2. \A F : [i \in Nat |-> Step(q, d, F, i)]
           = [i \in Nat |-> <<digits_hex[(i % 16) + 1]>> \o (IF i \div 16 # 0 THEN F[i \div 16] ELSE <<>>)]
  BY DEF Step
<1> HIDE DEF q, d
<1>3. Descends(Nat, q)
  BY <1>1, BySixteen DEF Descends
<1>4. Divides(Nat, q, d, 16)
  <2> SUFFICES ASSUME NEW i \in Nat
               PROVE  /\ d[i] \in Chars
                      /\ DigitValue(d[i]) \in Nat
                      /\ Magnitude(i) = 16 * Magnitude(q[i]) + DigitValue(d[i])
                      /\ i # 0 /\ q[i] = 0 => d[i] # "0"
    BY DEF Divides
  <2> DEFINE m == i % 16
  <2>1. d[i] = digits_hex[m + 1] /\ m \in 0..15
    BY <1>1, BySixteen
  <2> DEFINE k == i \div 16
  <2>5. Magnitude(i) = 16 * Magnitude(k) + m
    BY BySixteen
  <2>6. q[i] = k
    BY <1>1
  <2> HIDE DEF m, k
  <2>2. Magnitude(i) = 16 * Magnitude(q[i]) + m
    BY <2>5, <2>6
  <2>3. d[i] \in Chars /\ DigitValue(d[i]) = m /\ (m # 0 => d[i] # "0")
    BY <2>1, DigitsAre
  <2>4. ASSUME i # 0, q[i] = 0 PROVE m # 0
    BY <2>2, <2>4 DEF Magnitude
  <2> QED
    BY <2>1, <2>2, <2>3, <2>4
<1>5. BackwardsHex = [i \in Nat |-> Step(q, d, BackwardsHex, i)]
  <2>1. \E F : F = [i \in Nat |-> Step(q, d, F, i)]
    <3> DEFINE D == Nat
    <3>1. Descends(D, q)
      BY <1>3
    <3> HIDE DEF D
    <3>2. \E F : F = [i \in D |-> Step(q, d, F, i)]
      BY <3>1, RecursionEnds
    <3> QED
      BY <3>2 DEF D
  <2>2. \E F : F = [i \in Nat |-> <<digits_hex[(i % 16) + 1]>> \o (IF i \div 16 # 0 THEN F[i \div 16] ELSE <<>>)]
    <3>1. PICK F : F = [i \in Nat |-> Step(q, d, F, i)]
      BY <2>1
    <3>2. F = [i \in Nat |-> <<digits_hex[(i % 16) + 1]>> \o (IF i \div 16 # 0 THEN F[i \div 16] ELSE <<>>)]
      BY <1>2, <3>1, Zenon
    <3> QED
      BY <3>2
  <2>3. BackwardsHex = [i \in Nat |-> <<digits_hex[(i % 16) + 1]>> \o
                                        (IF i \div 16 # 0 THEN BackwardsHex[i \div 16] ELSE <<>>)]
    BY <2>2 DEF BackwardsHex
  <2> QED
    BY <1>2, <2>3
<1>6. \A i \in Nat : TextOf(BackwardsHex[i], 16, Magnitude(i))
  BY <1>3, <1>4, <1>5, DigitsRead
<1> QED
  BY <1>6 DEF Magnitude

\* What the run says of a text of so many digits follows from TextOf.
LEMMA TextIs ==
  ASSUME NEW text, NEW base \in Nat, NEW value \in Int, TextOf(text, base, value),
         NEW sign \in {1, -1}
  PROVE  /\ Reverse(text) \in Seq(Chars) /\ Len(Reverse(text)) = Len(text)
         /\ Number(Reverse(text), base, sign) = sign * value
         /\ Reverse(text)[1] = text[Len(text)]
         /\ NoLeadingZero(Reverse(text))
<1>1. digits_hex[1] \in Chars
  BY DEF Chars
<1>2. text \in Seq(Chars) /\ text # <<>>
  BY DEF TextOf
<1>3. /\ Reverse(text) \in Seq(Chars) /\ Len(Reverse(text)) = Len(text)
      /\ Reverse(text)[1] = text[Len(text)]
  BY <1>1, <1>2, ReverseStep
<1>4. Number(Reverse(text), base, sign) = sign * value
  <2>1. PICK sum : Reads(Reverse(text), base, sum) /\ sum[Len(Reverse(text))] = value
    BY DEF TextOf
  <2> QED
    BY <1>3, <2>1, NumberIs
<1>5. NoLeadingZero(Reverse(text))
  BY <1>3 DEF NoLeadingZero, TextOf
<1> QED
  BY <1>3, <1>4, <1>5

LEMMA DigitsAreUnsigned == "-" \notin Chars
<1> SUFFICES ASSUME NEW k \in 1..16, digits_hex[k] = "-" PROVE FALSE
  BY DEF Chars
<1> QED
  BY DEF digits_hex

\* The sign that is put behind the digits comes first in the end.
LEMMA SignFirst ==
  ASSUME NEW text \in Seq(Chars), text # <<>>
  PROVE  /\ Head(Reverse(text \o <<"-">>)) = "-"
         /\ Tail(Reverse(text \o <<"-">>)) = Reverse(text)
<1> DEFINE minus == <<"-">>
           all == text \o minus
           back == Reverse(text)
<1>1. Len(text) \in Nat /\ text \in Seq(Chars \cup {"-"})
  BY LenProperties, SeqDef
<1>2. minus \in Seq(Chars \cup {"-"}) /\ Len(minus) = 1 /\ minus[1] = "-"
  OBVIOUS
<1> HIDE DEF minus
<1>3. /\ Len(all) = Len(text) + 1
      /\ \A k \in 1..(Len(text) + 1) : all[k] = IF k <= Len(text) THEN text[k] ELSE minus[k - Len(text)]
  <2>1. /\ Len(all) = Len(text) + Len(minus)
        /\ \A k \in 1..(Len(text) + Len(minus)) :
             all[k] = IF k <= Len(text) THEN text[k] ELSE minus[k - Len(text)]
    BY <1>1, <1>2, ConcatProperties
  <2> HIDE DEF all
  <2> QED
    BY <1>2, <2>1
<1>4. all \in Seq(Chars \cup {"-"})
  BY <1>1, <1>2, ConcatProperties
<1> HIDE DEF all
<1>5. Reverse(all) = [k \in 1..(Len(text) + 1) |-> all[(Len(text) + 1 - k) + 1]]
  BY <1>3 DEF Reverse
<1>6. Reverse(all) \in Seq(Chars \cup {"-"}) /\ Len(Reverse(all)) = Len(text) + 1
  <2>1. ASSUME NEW k \in 1..(Len(text) + 1)
        PROVE  all[(Len(text) + 1 - k) + 1] \in Chars \cup {"-"}
    <3>1. (Len(text) + 1 - k) + 1 \in 1..Len(all)
      BY <1>1, <1>3
    <3> QED
      BY <1>4, <3>1, LenProperties
  <2>2. Reverse(all) \in [1..(Len(text) + 1) -> Chars \cup {"-"}]
    BY <1>5, <2>1
  <2> QED
    BY <1>1, <2>2, IsASeq, LenProperties
<1>7. Reverse(all)[1] = "-"
  <2>1. 1 \in 1..(Len(text) + 1) /\ (Len(text) + 1 - 1) + 1 = Len(text) + 1
    BY <1>1
  <2>2. Reverse(all)[1] = all[Len(text) + 1]
    BY <1>5, <2>1
  <2>3. Len(text) + 1 \in 1..(Len(text) + 1) /\ ~(Len(text) + 1 <= Len(text)) /\ (Len(text) + 1) - Len(text) = 1
    BY <1>1
  <2> QED
    BY <1>2, <1>3, <2>2, <2>3
<1>8. back = [k \in 1..Len(text) |-> text[(Len(text) - k) + 1]]
  BY DEF Reverse
<1>9. back \in Seq(Chars) /\ Len(back) = Len(text)
  <2>1. digits_hex[1] \in Chars
    BY DEF Chars
  <2> QED
    BY <2>1, ReverseStep
<1> HIDE DEF back
<1>10. Reverse(all) # <<>>
  BY <1>1, <1>6, EmptySeq
<1>11. /\ Tail(Reverse(all)) \in Seq(Chars \cup {"-"}) /\ Len(Tail(Reverse(all))) = Len(text)
       /\ \A k \in 1..Len(text) : Tail(Reverse(all))[k] = Reverse(all)[k + 1]
  BY <1>1, <1>6, <1>10, HeadTailProperties
<1>12. ASSUME NEW k \in 1..Len(text) PROVE Tail(Reverse(all))[k] = back[k]
  <2>1. /\ k + 1 \in 1..(Len(text) + 1) /\ (Len(text) + 1 - (k + 1)) + 1 = (Len(text) - k) + 1
        /\ (Len(text) - k) + 1 \in 1..(Len(text) + 1) /\ (Len(text) - k) + 1 <= Len(text)
    BY <1>1
  <2>2. Reverse(all)[k + 1] = all[(Len(text) - k) + 1]
    BY <1>5, <2>1
  <2>3. all[(Len(text) - k) + 1] = text[(Len(text) - k) + 1]
    BY <1>3, <2>1
  <2> QED
    BY <1>8, <1>11, <2>2, <2>3
<1>13. back \in Seq(Chars \cup {"-"})
  BY <1>9, SeqDef
<1>14. Tail(Reverse(all)) = back
  BY <1>9, <1>11, <1>12, <1>13, SeqEqual
<1>15. Head(Reverse(all)) = "-"
  BY <1>6, <1>7, <1>10, HeadTailProperties
<1> QED
  BY <1>14, <1>15 DEF all, minus, back

(* convert and convert_hex, log_stream.cpp: the text of every integer,     *)
(* negative ones included, is read back as that integer, and has no        *)
(* leading zero; so has an address its hexadecimal text.                   *)
THEOREM TextsAreExact == TextsExact(Int)
<1> SUFFICES ASSUME NEW v \in Int
             PROVE  /\ ReadBack(Convert(v)) = v
                    /\ NoLeadingZero(IF v < 0 THEN Tail(Convert(v)) ELSE Convert(v))
                    /\ v >= 0 => Number(ConvertHex(v), 16, 1) = v /\ NoLeadingZero(ConvertHex(v))
  BY Zenon DEF TextsExact
<1> DEFINE text == Backwards[v]
<1>1. TextOf(text, 10, Magnitude(v)) /\ Magnitude(v) \in Nat
  BY BackwardsReads, MagnitudeIs
<1>2. text \in Seq(Chars) /\ text # <<>> /\ Len(text) \in Nat /\ Len(text) > 0
  BY <1>1, LenProperties, EmptySeq DEF TextOf
<1>3. Convert(v) = Reverse(text \o (IF v < 0 THEN <<"-">> ELSE <<>>))
  BY DEF Convert
<1> HIDE DEF text
<1>4. CASE v < 0
  <2>1. Head(Convert(v)) = "-" /\ Tail(Convert(v)) = Reverse(text)
    BY <1>2, <1>3, <1>4, SignFirst
  <2>2. Number(Reverse(text), 10, -1) = (-1) * Magnitude(v) /\ NoLeadingZero(Reverse(text))
    BY <1>1, TextIs
  <2>3. (-1) * Magnitude(v) = v
    BY <1>4 DEF Magnitude
  <2>4. ReadBack(Convert(v)) = v
    BY <2>1, <2>2, <2>3 DEF ReadBack
  <2>5. (IF v < 0 THEN Tail(Convert(v)) ELSE Convert(v)) = Reverse(text)
    BY <1>4, <2>1
  <2>6. NoLeadingZero(IF v < 0 THEN Tail(Convert(v)) ELSE Convert(v))
    BY ONLY <2>2, <2>5
  <2>7. ~(v >= 0)
    BY <1>4
  <2> QED
    BY <2>4, <2>6, <2>7
<1>5. CASE v >= 0
  <2>1. text \o <<>> = text
    BY <1>2
  <2>8. (IF v < 0 THEN <<"-">> ELSE <<>>) = <<>>
    BY <1>5
  <2>2. Convert(v) = Reverse(text)
    BY ONLY <1>3, <2>1, <2>8
  <2>3. /\ Reverse(text) \in Seq(Chars) /\ Len(Reverse(text)) = Len(text)
        /\ Number(Reverse(text), 10, 1) = 1 * Magnitude(v) /\ NoLeadingZero(Reverse(text))
    BY <1>1, TextIs
  <2>4. 1 * Magnitude(v) = v
    BY <1>5 DEF Magnitude
  <2>5. Head(Reverse(text)) \in Chars
    <3>1. 1 \in 1..Len(Reverse(text))
      BY <1>2, <2>3
    <3>2. Reverse(text)[1] \in Chars
      BY <2>3, <3>1, LenProperties
    <3> QED
      BY <2>3, <3>1, <3>2, HeadTailProperties
  <2>6. ReadBack(Convert(v)) = v
    BY <2>2, <2>3, <2>4, <2>5, DigitsAreUnsigned DEF ReadBack
  <2>7. Number(ConvertHex(v), 16, 1) = v /\ NoLeadingZero(ConvertHex(v))
    <3>1. v \in Nat
      BY <1>5
    <3>2. TextOf(BackwardsHex[v], 16, v)
      BY <3>1, BackwardsHexReads
    <3>3. Number(Reverse(BackwardsHex[v]), 16, 1) = 1 * v /\ NoLeadingZero(Reverse(BackwardsHex[v]))
      BY <3>2, TextIs
    <3> QED
      BY <3>3 DEF ConvertHex
  <2> QED
    <3>1. (IF v < 0 THEN Tail(Convert(v)) ELSE Convert(v)) = Reverse(text)
      BY <1>5, <2>2
    <3>2. NoLeadingZero(IF v < 0 THEN Tail(Convert(v)) ELSE Convert(v))
      BY ONLY <2>3, <3>1
    <3> QED
      BY <2>6, <2>7, <3>2
<1> QED
  BY <1>4, <1>5

(* Sizes.                                                                  *)

LEMMA UnitsAre ==
  /\ SI[0] = 1 /\ SI[1] = 1000 /\ SI[2] = 1000000 /\ SI[3] = 1000000000
  /\ IEC[1] = 1024 /\ IEC[2] = 1048576
<1>1. SI = [i \in 0..6 |-> IF i = 0 THEN 1 ELSE 1000 * SI[i - 1]]
  <2> DEFINE IsSI(f) == f = [i \in 0..6 |-> IF i = 0 THEN 1 ELSE 1000 * f[i - 1]]
             units == [i \in 0..6 |-> IF i = 0 THEN 1
                                      ELSE IF i = 1 THEN 1000
                                      ELSE IF i = 2 THEN 1000 * 1000
                                      ELSE IF i = 3 THEN 1000 * (1000 * 1000)
                                      ELSE IF i = 4 THEN 1000 * (1000 * (1000 * 1000))
                                      ELSE IF i = 5 THEN 1000 * (1000 * (1000 * (1000 * 1000)))
                                      ELSE 1000 * (1000 * (1000 * (1000 * (1000 * 1000))))]
  <2>1. IsSI(units)
    OBVIOUS
  <2>2. SI = CHOOSE f : IsSI(f)
    BY DEF SI
  <2> HIDE DEF units, IsSI
  <2>3. IsSI(SI)
    BY <2>1, <2>2
  <2> QED
    BY <2>3 DEF IsSI
<1>2. IEC = [i \in 0..6 |-> IF i = 0 THEN 1 ELSE 1024 * IEC[i - 1]]
  <2> DEFINE IsIEC(f) == f = [i \in 0..6 |-> IF i = 0 THEN 1 ELSE 1024 * f[i - 1]]
             units == [i \in 0..6 |-> IF i = 0 THEN 1
                                      ELSE IF i = 1 THEN 1024
                                      ELSE IF i = 2 THEN 1024 * 1024
                                      ELSE IF i = 3 THEN 1024 * (1024 * 1024)
                                      ELSE IF i = 4 THEN 1024 * (1024 * (1024 * 1024))
                                      ELSE IF i = 5 THEN 1024 * (1024 * (1024 * (1024 * 1024)))
                                      ELSE 1024 * (1024 * (1024 * (1024 * (1024 * 1024))))]
  <2>1. IsIEC(units)
    OBVIOUS
  <2>2. IEC = CHOOSE f : IsIEC(f)
    BY DEF IEC
  <2> HIDE DEF units, IsIEC
  <2>3. IsIEC(IEC)
    BY <2>1, <2>2
  <2> QED
    BY <2>3 DEF IsIEC
<1>3. SI[0] = 1 /\ SI[1] = 1000 * SI[0] /\ SI[2] = 1000 * SI[1] /\ SI[3] = 1000 * SI[2]
  BY <1>1
<1>4. IEC[0] = 1 /\ IEC[1] = 1024 * IEC[0] /\ IEC[2] = 1024 * IEC[1]
  BY <1>2
<1> QED
  BY <1>3, <1>4

\* A quotient is rounded to a number that it is less than a half away from.
LEMMA RoundedWithin ==
  ASSUME NEW num \in Nat, NEW den \in Nat, den > 0, NEW low \in Nat, NEW high \in Nat,
         2 * num > (2 * low - 1) * den, 2 * num < (2 * high + 1) * den
  PROVE  Rounded(num, den) \subseteq low..high
<1> DEFINE q == num \div den
           r == num % den
<1>1. q \in Int /\ r \in Int /\ 0 <= r /\ r < den /\ num = den * q + r
  OBVIOUS
<1>2. \A n \in Rounded(num, den) : (n = q /\ 2 * r <= den) \/ (n = q + 1 /\ 2 * r >= den)
  <2>1. Rounded(num, den) = {n \in {q, q + 1} : IF n = q THEN 2 * r <= den ELSE 2 * r >= den}
    BY DEF Rounded
  <2> HIDE DEF q, r
  <2> QED
    BY <2>1
<1> HIDE DEF q, r
<1> SUFFICES ASSUME NEW n \in Rounded(num, den) PROVE n \in Int /\ low <= n /\ n <= high
  OBVIOUS
<1>3. n \in Int /\ 2 * num <= 2 * (den * n) + den /\ 2 * (den * n) <= 2 * num + den
  <2>1. CASE n = q /\ 2 * r <= den
    BY <1>1, <2>1
  <2>2. CASE n = q + 1 /\ 2 * r >= den
    <3>1. den * n = den * q + den
      BY <1>1, <2>2
    <3> QED
      BY <1>1, <2>2, <3>1
  <2> QED
    BY <1>2, <2>1, <2>2
<1>4. low <= n
  <2> SUFFICES ASSUME n <= low - 1 PROVE FALSE
    BY <1>3
  <2>1. den * n <= den * (low - 1)
    BY <1>3
  <2>2. (2 * low - 1) * den = 2 * (den * (low - 1)) + den
    OBVIOUS
  <2>3. den * n \in Int /\ den * (low - 1) \in Int /\ (2 * low - 1) * den \in Int
    BY <1>3
  <2> QED
    BY <1>3, <2>1, <2>2, <2>3
<1>5. n <= high
  <2> SUFFICES ASSUME high + 1 <= n PROVE FALSE
    BY <1>3
  <2>1. den * (high + 1) <= den * n
    BY <1>3
  <2>2. (2 * high + 1) * den = 2 * (den * (high + 1)) - den
    OBVIOUS
  <2>3. den * n \in Int /\ den * (high + 1) \in Int /\ (2 * high + 1) * den \in Int
    BY <1>3
  <2> QED
    BY <1>3, <2>1, <2>2, <2>3
<1> QED
  BY <1>3, <1>4, <1>5

\* The first prefix is no later than one whose range is known to end above the number.
LEMMA FirstPrefixIs ==
  ASSUME NEW below, NEW most \in 1..5, below[most]
  PROVE  /\ FirstPrefix(below) \in 1..most /\ below[FirstPrefix(below)]
         /\ \A j \in 1..5 : j < FirstPrefix(below) => ~below[j]
<1> DEFINE IsFirst(i) == (i = 6 \/ below[i]) /\ \A j \in 1..(i - 1) : ~below[j]
<1>1. \E i \in 1..6 : IsFirst(i)
  <2> DEFINE First == {i \in 1..5 : below[i]}
  <2>1. CASE below[1]
    <3>1. IsFirst(1)
      BY <2>1
    <3> QED
      BY <3>1
  <2>2. CASE ~below[1] /\ below[2]
    <3>1. IsFirst(2)
      BY <2>2
    <3> QED
      BY <3>1
  <2>3. CASE ~below[1] /\ ~below[2] /\ below[3]
    <3>1. IsFirst(3)
      BY <2>3
    <3> QED
      BY <3>1
  <2>4. CASE ~below[1] /\ ~below[2] /\ ~below[3] /\ below[4]
    <3>1. IsFirst(4)
      BY <2>4
    <3> QED
      BY <3>1
  <2>5. CASE ~below[1] /\ ~below[2] /\ ~below[3] /\ ~below[4]
    <3>1. IsFirst(5)
      BY <2>5
    <3> QED
      BY <3>1
  <2> QED
    BY <2>1, <2>2, <2>3, <2>4, <2>5
<1> DEFINE p == FirstPrefix(below)
<1>2. p \in 1..6 /\ IsFirst(p)
  BY <1>1 DEF FirstPrefix
<1> HIDE DEF p
<1>3. p <= most
  <2> SUFFICES ASSUME most < p PROVE FALSE
    BY <1>2
  <2>1. most \in 1..(p - 1)
    BY <1>2
  <2> QED
    BY <1>2, <2>1
<1>4. ASSUME NEW j \in 1..5, j < p PROVE ~below[j]
  <2>1. j \in 1..(p - 1)
    BY <1>2, <1>4
  <2> QED
    BY <1>2, <2>1
<1> QED
  BY <1>2, <1>3, <1>4 DEF p

LEMMA SIHasThreeDigits ==
  ASSUME NEW s \in Nat, s >= 1000, s <= 2147483647
  PROVE  \A n \in FormatSI(s).mantissas : n \in Int /\ 100 <= n /\ n <= 999
<1>10. ~(s < 1000)
  OBVIOUS
<1> DEFINE in(i) == s \div SI[i - 1]
           below == [i \in 1..6 |-> in(i) < 999500]
           p == FirstPrefix(below)
           decimals == IF p = 6 \/ in(p) < 9995 THEN 2 ELSE IF in(p) < 99950 THEN 1 ELSE 0
           den == SI[p] \div Tens[decimals + 1]
<1>1. FormatSI(s).mantissas = Rounded(s, den)
  BY <1>10 DEF FormatSI
<1>2. in(1) = s /\ in(2) = s \div 1000 /\ in(3) = s \div 1000000
  BY UnitsAre
<1>3. /\ below[1] <=> s < 999500
      /\ below[2] <=> s < 999500000
      /\ below[3]
  <2> DEFINE most == 999500
  <2>1. /\ below[1] <=> in(1) < most
        /\ below[2] <=> in(2) < most
        /\ below[3] <=> in(3) < most
    <3>1. 1 \in 1..6 /\ 2 \in 1..6 /\ 3 \in 1..6
      OBVIOUS
    <3>2. below = [i \in 1..6 |-> in(i) < most]
      OBVIOUS
    <3> HIDE DEF below, in, most
    <3> QED
      BY ONLY <3>1, <3>2, Zenon
  <2> HIDE DEF in
  <2>2. s \div 1000 < 999500 <=> s < 999500000
    OBVIOUS
  <2>3. s \div 1000000 < 999500
    OBVIOUS
  <2> HIDE DEF below
  <2> QED
    BY <1>2, <2>1, <2>2, <2>3
<1> HIDE DEF below
<1>4. p \in 1..3 /\ below[p] /\ \A j \in 1..5 : j < p => ~below[j]
  <2>1. 3 \in 1..5
    OBVIOUS
  <2> QED
    BY <1>3, <2>1, FirstPrefixIs
<1> HIDE DEF p
<1>5. \/ p = 1 /\ s < 999500 /\ in(p) = s /\ SI[p] = 1000
      \/ p = 2 /\ s >= 999500 /\ s < 999500000 /\ in(p) = s \div 1000 /\ SI[p] = 1000000
      \/ p = 3 /\ s >= 999500000 /\ in(p) = s \div 1000000 /\ SI[p] = 1000000000
  <2>1. p = 1 \/ p = 2 \/ p = 3
    BY <1>4
  <2>2. CASE p = 1
    BY <1>2, <1>3, <1>4, <2>2, UnitsAre
  <2>3. CASE p = 2
    <3>1. ~below[1]
      BY <1>4, <2>3
    <3> QED
      BY <1>2, <1>3, <1>4, <2>3, <3>1, UnitsAre
  <2>4. CASE p = 3
    <3>1. ~below[2]
      BY <1>4, <2>4
    <3> QED
      BY <1>2, <1>3, <1>4, <2>4, <3>1, UnitsAre
  <2> QED
    BY <2>1, <2>2, <2>3, <2>4
<1> HIDE DEF in
<1>6. Tens[1] = 1 /\ Tens[2] = 10 /\ Tens[3] = 100
  BY DEF Tens
<1>7. \/ in(p) < 9995 /\ den = SI[p] \div 100
      \/ in(p) >= 9995 /\ in(p) < 99950 /\ den = SI[p] \div 10
      \/ in(p) >= 99950 /\ den = SI[p] \div 1
  <2>1. p # 6 /\ in(p) \in Int
    BY <1>5
  <2>2. CASE in(p) < 9995
    <3>1. decimals + 1 = 3
      BY <2>2
    <3> QED
      BY <1>6, <2>2, <3>1
  <2>3. CASE in(p) >= 9995 /\ in(p) < 99950
    <3>1. decimals + 1 = 2
      BY <2>1, <2>3
    <3> QED
      BY <1>6, <2>3, <3>1
  <2>4. CASE in(p) >= 99950
    <3>1. decimals + 1 = 1
      BY <2>1, <2>4
    <3> QED
      BY <1>6, <2>4, <3>1
  <2> QED
    BY <2>1, <2>2, <2>3, <2>4
<1> HIDE DEF den
<1>8. den \in Nat /\ den > 0 /\ 2 * s > (2 * 100 - 1) * den /\ 2 * s < (2 * 999 + 1) * den
  <2>1. CASE p = 1 /\ s < 999500 /\ in(p) = s /\ SI[p] = 1000
    BY <1>7, <2>1
  <2>2. CASE p = 2 /\ s >= 999500 /\ s < 999500000 /\ in(p) = s \div 1000 /\ SI[p] = 1000000
    BY <1>7, <2>2
  <2>3. CASE p = 3 /\ s >= 999500000 /\ in(p) = s \div 1000000 /\ SI[p] = 1000000000
    BY <1>7, <2>3
  <2> QED
    BY <1>5, <2>1, <2>2, <2>3
<1> DEFINE low == 100
           high == 999
<1>9. Rounded(s, den) \subseteq low..high
  <2>1. /\ s \in Nat /\ low \in Nat /\ high \in Nat
        /\ 2 * s > (2 * low - 1) * den /\ 2 * s < (2 * high + 1) * den
    BY <1>8
  <2> HIDE DEF low, high
  <2> QED
    BY ONLY <1>8, <2>1, RoundedWithin
<1>11. \A n \in low..high : n \in Int /\ low <= n /\ n <= high
  <2>1. low \in Int /\ high \in Int
    OBVIOUS
  <2> HIDE DEF low, high
  <2> QED
    BY ONLY <2>1
<1> HIDE DEF low, high
<1>12. \A n \in FormatSI(s).mantissas : n \in Int /\ low <= n /\ n <= high
  BY ONLY <1>1, <1>9, <1>11
<1> QED
  BY <1>12 DEF low, high

LEMMA IECHasItsDigits ==
  ASSUME NEW s \in Nat, s >= 1024, s <= 10000000
  PROVE  \A n \in FormatIEC(s).mantissas :
           n \in Int /\ 100 <= n /\ n <= IF FormatIEC(s).decimals = 0 THEN 1023 ELSE 999
<1>10. ~(s < 1024)
  OBVIOUS
<1> DEFINE below == [i \in 1..6 |-> s * 2 < IEC[i] * 2047]
           p == FirstPrefix(below)
           unit == IEC[p]
           decimals == IF s * 200 < unit * 1999 THEN 2
                       ELSE IF p = 6 \/ s * 20 < unit * 1999 THEN 1 ELSE 0
           num == s * Tens[decimals + 1]
<1>1. FormatIEC(s).mantissas = Rounded(num, unit) /\ FormatIEC(s).decimals = decimals
  BY <1>10 DEF FormatIEC
<1>2. (below[1] <=> s * 2 < 1024 * 2047) /\ below[2]
  <2>1. s * 2 < 1048576 * 2047
    OBVIOUS
  <2>2. /\ below[1] <=> s * 2 < IEC[1] * 2047
        /\ below[2] <=> s * 2 < IEC[2] * 2047
    <3> DEFINE twice == s * 2
               limit(i) == IEC[i] * 2047
    <3>1. below = [i \in 1..6 |-> twice < limit(i)]
      OBVIOUS
    <3>2. 1 \in 1..6 /\ 2 \in 1..6
      OBVIOUS
    <3> HIDE DEF below, twice, limit
    <3>3. (below[1] <=> twice < limit(1)) /\ (below[2] <=> twice < limit(2))
      BY ONLY <3>1, <3>2, Zenon
    <3> QED
      BY <3>3 DEF twice, limit
  <2> HIDE DEF below
  <2> QED
    BY <2>1, <2>2, UnitsAre
<1> HIDE DEF below
<1>3. p \in 1..2 /\ below[p] /\ \A j \in 1..5 : j < p => ~below[j]
  <2>1. 2 \in 1..5
    OBVIOUS
  <2> QED
    BY <1>2, <2>1, FirstPrefixIs
<1> HIDE DEF p
<1>4. \/ p = 1 /\ unit = 1024 /\ s * 2 < 1024 * 2047
      \/ p = 2 /\ unit = 1048576 /\ s * 2 >= 1024 * 2047
  <2>1. p = 1 \/ p = 2
    BY <1>3
  <2>2. CASE p = 1
    BY <1>2, <1>3, <2>2, UnitsAre
  <2>3. CASE p = 2
    <3>1. ~below[1]
      BY <1>3, <2>3
    <3> QED
      BY <1>2, <2>3, <3>1, UnitsAre
  <2> QED
    BY <2>1, <2>2, <2>3
<1> HIDE DEF unit
<1>5. Tens[1] = 1 /\ Tens[2] = 10 /\ Tens[3] = 100
  BY DEF Tens
<1>6. \/ s * 200 < unit * 1999 /\ decimals = 2 /\ num = s * 100
      \/ s * 200 >= unit * 1999 /\ s * 20 < unit * 1999 /\ decimals = 1 /\ num = s * 10
      \/ s * 20 >= unit * 1999 /\ decimals = 0 /\ num = s
  <2>1. p # 6 /\ unit \in Int
    BY <1>4
  <2>2. CASE s * 200 < unit * 1999
    <3>1. decimals = 2 /\ decimals + 1 = 3
      BY <2>2
    <3> QED
      BY <1>5, <2>2, <3>1
  <2>3. CASE s * 200 >= unit * 1999 /\ s * 20 < unit * 1999
    <3>1. decimals = 1 /\ decimals + 1 = 2
      BY <2>1, <2>3
    <3> QED
      BY <1>5, <2>3, <3>1
  <2>4. CASE s * 20 >= unit * 1999
    <3>1. decimals = 0 /\ decimals + 1 = 1
      BY <2>1, <2>4
    <3> QED
      BY <1>5, <2>4, <3>1
  <2> QED
    BY <2>1, <2>2, <2>3, <2>4
<1> HIDE DEF num, decimals
<1> DEFINE high == IF decimals = 0 THEN 1023 ELSE 999
<1>7. /\ num \in Nat /\ unit \in Nat /\ unit > 0 /\ high \in Nat
      /\ 2 * num > (2 * 100 - 1) * unit /\ 2 * num < (2 * high + 1) * unit
  <2>1. CASE p = 1 /\ unit = 1024 /\ s * 2 < 1024 * 2047
    BY <1>6, <2>1
  <2>2. CASE p = 2 /\ unit = 1048576 /\ s * 2 >= 1024 * 2047
    BY <1>6, <2>2
  <2> QED
    BY <1>4, <2>1, <2>2
<1> HIDE DEF high
<1> DEFINE low == 100
<1>8. low \in Nat /\ 2 * num > (2 * low - 1) * unit
  BY <1>7
<1> HIDE DEF low
<1>9. Rounded(num, unit) \subseteq low..high
  BY ONLY <1>7, <1>8, RoundedWithin
<1>11. \A n \in low..high : n \in Int /\ low <= n /\ n <= high
  BY ONLY <1>7, <1>8
<1>12. \A n \in FormatIEC(s).mantissas : n \in Int /\ low <= n /\ n <= high
  BY ONLY <1>1, <1>9, <1>11
<1> QED
  BY <1>1, <1>12 DEF low, high

LEMMA IntegersAre == OnCalendar => Integers32 \subseteq Int
<1> SUFFICES ASSUME OnCalendar, NEW v \in Integers32 PROVE v \in Int
  OBVIOUS
<1>1. days \in Int
  BY DEF OnCalendar
<1>2. CASE v \in {days, -days} \/ v \in {2147483647, -2147483647 - 1}
  BY <1>1, <1>2
<1>3. CASE year \in YearsOf32Bits /\ v \in {Instant(s) : s \in SampleSeconds}
  <2>1. year > 0
    BY <1>3 DEF YearsOf32Bits
  <2>2. SecondsPerDay \in Int /\ SecondsPerDay > 0
    BY DEF SecondsPerDay
  <2>3. PICK s \in SampleSeconds : v = Instant(s)
    BY <1>3
  <2>4. s \in 0..(SecondsPerDay - 1)
    BY CalendarAssumption
  <2>5. s \in Nat /\ s < SecondsPerDay
    BY <2>2, <2>4
  <2>6. LessThanADay(0)
    BY <2>2 DEF LessThanADay
  <2>7. Instant(s) \in Int
    BY <2>1, <2>5, <2>6, InstantBack, Zenon
  <2> QED
    BY <2>3, <2>7
<1> QED
  BY <1>2, <1>3 DEF Integers32

LEMMA SizesUpTo ==
  ASSUME NEW most \in Nat, NEW steps, steps \subseteq Nat \ {0}, days \in Nat
  PROVE  \A s \in Sizes(steps, most) : s \in Nat /\ s <= most
<1> SUFFICES ASSUME NEW step \in steps, days <= most \div step
             PROVE  days * step \in Nat /\ days * step <= most
  BY DEF Sizes
<1> DEFINE q == most \div step
           r == most % step
<1>1. step \in Nat /\ step > 0
  OBVIOUS
<1>2. q \in Int /\ r \in Int /\ 0 <= r /\ most = step * q + r /\ days <= q
  BY <1>1
<1> HIDE DEF q, r
<1>3. step * days <= step * q
  BY <1>1, <1>2
<1>4. step * days \in Nat /\ step * days <= most
  BY <1>1, <1>2, <1>3
<1>5. days * step = step * days
  BY <1>1
<1> QED
  BY <1>4, <1>5

(* convert, convert_hex, format_SI and format_IEC, log_stream.cpp: what    *)
(* the run looks at holds of every walk, wherever it begins and ends.      *)
THEOREM ConversionsAreExact == Walk => []ConversionsExact
<1>1. ASSUME OnCalendar PROVE TextsExact(Integers32)
  BY <1>1, IntegersAre, TextsAreExact, Zenon DEF TextsExact
<1>2. ASSUME OnCalendar PROVE DigitsOfSI(Sizes({1, 1000, 1000000}, 2147483647))
  <2>1. \A s \in Sizes({1, 1000, 1000000}, 2147483647) : s \in Nat /\ s <= 2147483647
    BY <1>2, SizesUpTo DEF OnCalendar
  <2> DEFINE low == 100
             high == 999
             few == 0..high
             three == low..high
             digitsOf(s) == IF s < 1000 THEN few ELSE three
  <2>2. ASSUME NEW s \in Nat, s <= 2147483647 PROVE FormatSI(s).mantissas \subseteq digitsOf(s)
    <3>1. CASE s < 1000
      <4>1. FormatSI(s).mantissas = {s} /\ digitsOf(s) = few
        BY <3>1 DEF FormatSI
      <4>2. s \in few
        BY <3>1
      <4> HIDE DEF few, digitsOf
      <4> QED
        BY <4>1, <4>2
    <3>2. CASE s >= 1000
      <4>1. FormatSI(s).mantissas \subseteq three
        <5>1. \A n \in FormatSI(s).mantissas : n \in Int /\ low <= n /\ n <= high
          BY <2>2, <3>2, SIHasThreeDigits
        <5>2. low \in Int /\ high \in Int
          OBVIOUS
        <5> HIDE DEF low, high
        <5> QED
          BY ONLY <5>1, <5>2
      <4>2. ~(s < 1000)
        BY <3>2
      <4> HIDE DEF few, three
      <4> QED
        BY <4>1, <4>2
    <3> QED
      BY <3>1, <3>2
  <2> HIDE DEF digitsOf
  <2> DEFINE sizes == Sizes({1, 1000, 1000000}, 2147483647)
  <2>3. \A s \in sizes : FormatSI(s).mantissas \subseteq digitsOf(s)
    BY <2>1, <2>2
  <2> HIDE DEF sizes
  <2>4. DigitsOfSI(sizes)
    BY <2>3, Zenon DEF DigitsOfSI, digitsOf
  <2> QED
    BY <2>4 DEF sizes
<1>3. ASSUME OnCalendar PROVE DigitsOfIEC(Sizes({1, 64}, 10000000))
  <2>1. \A s \in Sizes({1, 64}, 10000000) : s \in Nat /\ s <= 10000000
    BY <1>3, SizesUpTo DEF OnCalendar
  <2> DEFINE low == 100
             high(s) == IF FormatIEC(s).decimals = 0 THEN 1023 ELSE 999
             few == 0..1023
             three(s) == low..high(s)
             digitsOf(s) == IF s < 1024 THEN few ELSE three(s)
  <2>2. ASSUME NEW s \in Nat, s <= 10000000 PROVE FormatIEC(s).mantissas \subseteq digitsOf(s)
    <3>1. CASE s < 1024
      <4>1. FormatIEC(s).mantissas = {s} /\ digitsOf(s) = few
        BY <3>1 DEF FormatIEC
      <4>2. s \in few
        BY <3>1
      <4> HIDE DEF few, digitsOf
      <4> QED
        BY <4>1, <4>2
    <3>2. CASE s >= 1024
      <4>1. FormatIEC(s).mantissas \subseteq three(s)
        <5>1. \A n \in FormatIEC(s).mantissas : n \in Int /\ low <= n /\ n <= high(s)
          BY <2>2, <3>2, IECHasItsDigits
        <5>2. low \in Int /\ high(s) \in Int
          OBVIOUS
        <5> HIDE DEF low, high
        <5> QED
          BY ONLY <5>1, <5>2
      <4>2. ~(s < 1024)
        BY <3>2
      <4> HIDE DEF few, three
      <4> QED
        BY <4>1, <4>2
    <3> QED
      BY <3>1, <3>2
  <2> HIDE DEF digitsOf
  <2> DEFINE sizes == Sizes({1, 64}, 10000000)
  <2>3. \A s \in sizes : FormatIEC(s).mantissas \subseteq digitsOf(s)
    BY <2>1, <2>2
  <2> HIDE DEF sizes
  <2>4. DigitsOfIEC(sizes)
    BY <2>3, Zenon DEF DigitsOfIEC, digitsOf
  <2> QED
    BY <2>4 DEF sizes
<1>4. OnCalendar => ConversionsExact
  BY <1>1, <1>2, <1>3 DEF ConversionsExact
<1> QED
  BY <1>4, FirstDayOn, NextDateOn, PTL DEF Walk

-------------------------------------------------------------------------------
(* The loops of append_file and read_small_file: each goes upwards, so the *)
(* facts about it go downwards.                                            *)

LEMMA Downward ==
  ASSUME NEW top \in Nat, NEW f, NEW Good,
         \A w \in 0..top : (\A v \in 0..top : v > w => f[v] \subseteq Good) => f[w] \subseteq Good
  PROVE  \A w \in 0..top : f[w] \subseteq Good
<1> DEFINE S == {k \in Nat : k <= top /\ ~(f[top - k] \subseteq Good)}
<1>1. S = {}
  <2> SUFFICES ASSUME S # {} PROVE FALSE
    OBVIOUS
  <2>1. S \subseteq Nat
    OBVIOUS
  <2>2. PICK k \in S : \A j \in S : k <= j
    <3> HIDE DEF S
    <3> QED
      BY <2>1, NatMin
  <2> DEFINE w == top - k
  <2>3. w \in 0..top /\ k \in Nat /\ ~(f[w] \subseteq Good)
    BY <2>2
  <2>4. ASSUME NEW v \in 0..top, v > w PROVE f[v] \subseteq Good
    <3> DEFINE j == top - v
    <3>1. j \in Nat /\ j <= top /\ top - j = v /\ ~(k <= j)
      BY <2>3, <2>4
    <3> HIDE DEF w, j
    <3>2. j \notin S
      <4> HIDE DEF S
      <4> QED
        BY <2>2, <3>1
    <3> QED
      BY <3>1, <3>2
  <2> HIDE DEF w
  <2> QED
    BY <2>3, <2>4
<1> QED
  <2> SUFFICES ASSUME NEW w \in 0..top PROVE f[w] \subseteq Good
    OBVIOUS
  <2>1. top - w \in Nat /\ top - w <= top /\ top - (top - w) = w
    OBVIOUS
  <2>2. top - w \notin S
    BY <1>1
  <2> QED
    BY <2>1, <2>2

LEMMA LineCounted ==
  ASSUME NEW len \in Nat, NEW o \in AppendOutcomes(len)
  PROVE  o.written <= o.reached /\ o.reached <= len /\ (~o.err => o.written = len)
<1> DEFINE done == {[err |-> FALSE, written |-> len, reached |-> len]}
           failed(w) == {[err |-> TRUE, written |-> w, reached |-> w + n] : n \in 0..(len - w - 1)}
           Loop(f, w) == IF w = len THEN done
                         ELSE (UNION {f[w + n] : n \in 1..(len - w)}) \cup failed(w)
           IsLoop(f) == f = [w \in 0..len |-> Loop(f, w)]
           all == [w \in 0..len |-> done \cup UNION {failed(v) : v \in w..(len - 1)}]
           from == CHOOSE f : IsLoop(f)
<1>1. AppendOutcomes(len) = from[0]
  BY DEF AppendOutcomes
<1>2. ASSUME NEW w \in 0..len, w # len, NEW f
      PROVE  \A x : x \in Loop(f, w) <=> x \in failed(w) \/ \E n \in 1..(len - w) : x \in f[w + n]
  <2> DEFINE later == {f[w + n] : n \in 1..(len - w)}
             now == failed(w)
  <2>1. Loop(f, w) = (UNION later) \cup now
    BY <1>2
  <2>2. \A x : x \in UNION later <=> \E n \in 1..(len - w) : x \in f[w + n]
    OBVIOUS
  <2>3. now = failed(w)
    OBVIOUS
  <2> HIDE DEF later, now, Loop, failed
  <2>4. \A x : x \in Loop(f, w) <=> x \in now \/ x \in UNION later
    BY <2>1
  <2> QED
    BY ONLY <2>2, <2>3, <2>4
<1>3. IsLoop(all)
  <2> HIDE DEF done, failed
  <2>1. ASSUME NEW w \in 0..len PROVE all[w] = Loop(all, w)
    <3>1. CASE w = len
      <4>1. w..(len - 1) = {}
        BY <3>1
      <4> QED
        BY <3>1, <4>1
    <3>2. CASE w # len
      <4>1. \A x : x \in Loop(all, w)
                     <=> x \in failed(w) \/ \E n \in 1..(len - w) : x \in all[w + n]
        <5> HIDE DEF all, Loop
        <5> QED
          BY <1>2, <3>2
      <4>2. ASSUME NEW u \in 0..len
            PROVE  \A x : x \in all[u] <=> x \in done \/ \E v \in u..(len - 1) : x \in failed(v)
        OBVIOUS
      <4> HIDE DEF all, Loop
      <4>3. ASSUME NEW x, x \in all[w] PROVE x \in Loop(all, w)
        <5>1. 1 \in 1..(len - w) /\ w + 1 \in 0..len
          BY <3>2
        <5>2. x \in done \/ x \in failed(w) \/ \E v \in (w + 1)..(len - 1) : x \in failed(v)
          <6>1. \A v \in w..(len - 1) : v = w \/ v \in (w + 1)..(len - 1)
            OBVIOUS
          <6> QED
            BY <4>2, <4>3, <6>1
        <5>3. x \in failed(w) \/ x \in all[w + 1]
          BY <4>2, <5>1, <5>2
        <5> QED
          BY <4>1, <5>1, <5>3
      <4>4. ASSUME NEW x, x \in Loop(all, w) PROVE x \in all[w]
        <5>1. CASE x \in failed(w)
          <6>1. w \in w..(len - 1)
            BY <3>2
          <6> QED
            BY <4>2, <5>1, <6>1
        <5>2. CASE x \notin failed(w)
          <6>1. PICK n \in 1..(len - w) : x \in all[w + n]
            BY <4>1, <4>4, <5>2
          <6>2. w + n \in 0..len /\ \A v \in (w + n)..(len - 1) : v \in w..(len - 1)
            BY <3>2
          <6>3. x \in done \/ \E v \in w..(len - 1) : x \in failed(v)
            BY <4>2, <6>1, <6>2
          <6> QED
            BY <4>2, <6>3
        <5> QED
          BY <5>1, <5>2
      <4> QED
        BY <4>3, <4>4
    <3> QED
      BY <3>1, <3>2
  <2>2. all = [w \in 0..len |-> all[w]]
    OBVIOUS
  <2> HIDE DEF all, Loop
  <2> QED
    BY <2>1, <2>2
<1>4. IsLoop(from)
  <2> HIDE DEF IsLoop
  <2> QED
    BY <1>3
<1> HIDE DEF from
<1> DEFINE Good == {x \in [err : BOOLEAN, written : Nat, reached : Nat] :
                      /\ x.written <= x.reached /\ x.reached <= len
                      /\ ~x.err => x.written = len}
<1>5. done \subseteq Good
  OBVIOUS
<1>6. ASSUME NEW w \in 0..len, w # len PROVE failed(w) \subseteq Good
  <2> SUFFICES ASSUME NEW n \in 0..(len - w - 1)
               PROVE  [err |-> TRUE, written |-> w, reached |-> w + n] \in Good
    OBVIOUS
  <2>1. w \in Nat /\ w + n \in Nat /\ w <= w + n /\ w + n <= len
    BY <1>6
  <2> QED
    BY <2>1
<1>7. ASSUME NEW w \in 0..len, \A v \in 0..len : v > w => from[v] \subseteq Good
      PROVE  from[w] \subseteq Good
  <2> HIDE DEF Good, done, failed
  <2>1. from[w] = Loop(from, w)
    BY <1>4
  <2>2. CASE w = len
    BY <1>5, <2>1, <2>2
  <2>3. CASE w # len
    <3>1. ASSUME NEW n \in 1..(len - w) PROVE from[w + n] \subseteq Good
      <4>1. w + n \in 0..len /\ w + n > w
        OBVIOUS
      <4> QED
        BY <1>7, <4>1
    <3>2. failed(w) \subseteq Good
      BY <1>6, <2>3
    <3> HIDE DEF Loop, IsLoop
    <3>3. \A x : x \in from[w] <=> x \in failed(w) \/ \E n \in 1..(len - w) : x \in from[w + n]
      BY <1>2, <2>1, <2>3
    <3> QED
      BY <3>1, <3>2, <3>3
  <2> QED
    BY <2>2, <2>3
<1>8. from[0] \subseteq Good
  <2> HIDE DEF Good, IsLoop
  <2>1. \A w \in 0..len : from[w] \subseteq Good
    BY <1>7, Downward
  <2> QED
    BY <2>1
<1>9. o \in Good
  BY <1>1, <1>8
<1> QED
  BY <1>9

LEMMA FileRead ==
  ASSUME NEW fileSize \in Nat, NEW maxSize \in Nat, NEW bufferSize \in Nat \ {0},
         NEW o \in ReadOutcomes(fileSize, maxSize, bufferSize)
  PROVE  o.size <= maxSize /\ (~o.err => o.size = Least(fileSize, maxSize))
<1> DEFINE toRead(s) == Least(maxSize - s, bufferSize)
           reads(s) == IF s < fileSize THEN 1..Least(toRead(s), fileSize - s) ELSE {0}
           whole(s) == {[err |-> FALSE, size |-> s]}
           failed(s) == {[err |-> TRUE, size |-> s]}
           Loop(f, s) == IF s = maxSize THEN whole(s)
                         ELSE failed(s) \cup
                              UNION {IF More(n, toRead(s)) THEN f[s + n]
                                     ELSE whole(s + n) : n \in reads(s)}
           IsLoop(f) == f = [s \in 0..maxSize |-> Loop(f, s)]
           end == Least(fileSize, maxSize)
           stop(s) == IF s <= end THEN end ELSE s
           all == [s \in 0..maxSize |->
                     whole(stop(s)) \cup UNION {failed(v) : v \in {x \in s..stop(s) : x < maxSize}}]
           from == CHOOSE f : IsLoop(f)
<1>1. ReadOutcomes(fileSize, maxSize, bufferSize) = from[0]
  BY DEF ReadOutcomes
<1>2. end \in Nat /\ end <= maxSize /\ end <= fileSize /\ (end = maxSize \/ end = fileSize)
  BY DEF Least
<1>3. ASSUME NEW s \in 0..maxSize, s # maxSize, s < fileSize
      PROVE  /\ s < end /\ 1 \in reads(s)
             /\ \A n \in reads(s) : /\ n \in Nat /\ n > 0 /\ More(n, toRead(s))
                                    /\ s + n \in 0..maxSize /\ s + n <= end
  <2> DEFINE k == Least(toRead(s), fileSize - s)
  <2>1. toRead(s) \in Nat /\ toRead(s) > 0 /\ toRead(s) <= maxSize - s
    BY <1>3 DEF Least
  <2>2. k \in Nat /\ k > 0 /\ k <= maxSize - s /\ k <= fileSize - s
    BY <1>3, <2>1 DEF Least
  <2>3. reads(s) = 1..k
    BY <1>3
  <2> HIDE DEF k, toRead, reads, end
  <2>4. s < end
    BY <1>2, <1>3
  <2>5. ASSUME NEW n \in reads(s)
        PROVE  n \in Nat /\ n > 0 /\ s + n \in 0..maxSize /\ s + n <= end
    BY <1>2, <2>2, <2>3
  <2>6. 1 \in reads(s)
    BY <2>2, <2>3
  <2> QED
    BY <2>4, <2>5, <2>6 DEF More
<1>4. ASSUME NEW s \in 0..maxSize, s # maxSize, ~(s < fileSize), NEW f
      PROVE  Loop(f, s) = failed(s) \cup whole(s)
  <2>1. reads(s) = {0} /\ ~More(0, toRead(s)) /\ s + 0 = s
    BY <1>4 DEF More
  <2> HIDE DEF whole, failed, reads, toRead
  <2> QED
    BY <1>4, <2>1
<1>5. ASSUME NEW s \in 0..maxSize, s # maxSize, s < fileSize, NEW f
      PROVE  Loop(f, s) = failed(s) \cup UNION {f[s + n] : n \in reads(s)}
  <2> HIDE DEF whole, failed, reads, toRead
  <2> QED
    BY <1>3, <1>5
<1> HIDE DEF toRead, reads
<1>6. IsLoop(all)
  <2> HIDE DEF whole, failed, end
  <2>1. ASSUME NEW s \in 0..maxSize PROVE all[s] = Loop(all, s)
    <3>1. CASE s = maxSize
      <4>1. stop(s) = s /\ {x \in s..stop(s) : x < maxSize} = {}
        BY <1>2, <3>1
      <4> QED
        BY <3>1, <4>1
    <3>2. CASE s # maxSize /\ ~(s < fileSize)
      <4>1. stop(s) = s /\ {x \in s..stop(s) : x < maxSize} = {s}
        BY <1>2, <3>2
      <4>2. all[s] = failed(s) \cup whole(s)
        BY <4>1
      <4> HIDE DEF all, Loop
      <4> QED
        BY <1>4, <3>2, <4>2
    <3>3. CASE s # maxSize /\ s < fileSize
      <4>1. stop(s) = end /\ s < end /\ \A n \in reads(s) : stop(s + n) = end
        BY <1>2, <1>3, <3>3
      <4>2. all[s] = whole(end) \cup UNION {failed(v) : v \in {x \in s..end : x < maxSize}}
        BY <4>1
      <4>3. ASSUME NEW n \in reads(s)
            PROVE  all[s + n] = whole(end) \cup
                                UNION {failed(v) : v \in {x \in (s + n)..end : x < maxSize}}
        <5>1. s + n \in 0..maxSize /\ stop(s + n) = end
          BY <1>3, <3>3, <4>1
        <5> HIDE DEF stop
        <5> QED
          BY <5>1
      <4> HIDE DEF all, stop
      <4>4. ASSUME NEW x \in all[s] PROVE x \in failed(s) \/ \E n \in reads(s) : x \in all[s + n]
        <5>1. 1 \in reads(s)
          BY <1>3, <3>3
        <5>2. CASE x \in whole(end)
          BY <4>3, <5>1, <5>2
        <5>3. CASE x \notin whole(end)
          <6>1. PICK v \in s..end : v < maxSize /\ x \in failed(v)
            BY <4>2, <4>4, <5>3
          <6>2. CASE v = s
            BY <6>1, <6>2
          <6>3. CASE v # s
            <7>1. v \in (s + 1)..end
              BY <1>2, <6>3
            <7>2. x \in all[s + 1]
              BY <4>3, <5>1, <6>1, <7>1
            <7> QED
              BY <5>1, <7>2
          <6> QED
            BY <6>2, <6>3
        <5> QED
          BY <5>2, <5>3
      <4>5. ASSUME NEW x \in failed(s) PROVE x \in all[s]
        <5>1. s \in s..end /\ s < maxSize
          BY <1>2, <3>3, <4>1
        <5> QED
          BY <4>2, <4>5, <5>1
      <4>6. ASSUME NEW n \in reads(s), NEW x \in all[s + n] PROVE x \in all[s]
        <5>1. \A v \in (s + n)..end : v \in s..end
          BY <1>2, <1>3, <3>3
        <5> QED
          BY <4>2, <4>3, <4>6, <5>1
      <4>7. all[s] = failed(s) \cup UNION {all[s + n] : n \in reads(s)}
        BY <4>4, <4>5, <4>6
      <4> HIDE DEF Loop
      <4> QED
        BY <1>5, <3>3, <4>7
    <3> QED
      BY <3>1, <3>2, <3>3
  <2>2. all = [s \in 0..maxSize |-> all[s]]
    OBVIOUS
  <2> HIDE DEF all, Loop
  <2> QED
    BY <2>1, <2>2
<1>7. IsLoop(from)
  <2> HIDE DEF IsLoop
  <2> QED
    BY <1>6
<1> HIDE DEF from
<1> DEFINE Good == {x \in [err : BOOLEAN, size : Nat] : x.size <= maxSize /\ (~x.err => x.size = end)}
<1>8. ASSUME NEW s \in 0..end PROVE failed(s) \subseteq Good
  <2>1. s \in Nat /\ s <= maxSize
    BY <1>2
  <2> HIDE DEF end
  <2> QED
    BY <2>1
<1>9. whole(end) \subseteq Good
  <2> HIDE DEF end
  <2> QED
    BY <1>2
<1>10. ASSUME NEW s \in 0..end, \A v \in 0..end : v > s => from[v] \subseteq Good
       PROVE  from[s] \subseteq Good
  <2> HIDE DEF Good, whole, failed, end
  <2>1. s \in 0..maxSize /\ from[s] = Loop(from, s)
    <3>1. s \in 0..maxSize
      BY <1>2
    <3> HIDE DEF Loop
    <3> QED
      BY <1>7, <3>1
  <2>2. CASE s = maxSize
    <3>1. s = end
      BY <1>2, <2>2
    <3> QED
      BY <1>9, <2>1, <2>2, <3>1
  <2>3. CASE s # maxSize /\ ~(s < fileSize)
    <3>1. s = end
      BY <1>2, <2>3
    <3> HIDE DEF Loop
    <3>2. from[s] = failed(s) \cup whole(s)
      BY <1>4, <2>1, <2>3
    <3> QED
      BY <1>8, <1>9, <3>1, <3>2
  <2>4. CASE s # maxSize /\ s < fileSize
    <3> HIDE DEF Loop
    <3>1. from[s] = failed(s) \cup UNION {from[s + n] : n \in reads(s)}
      BY <1>5, <2>1, <2>4
    <3>2. ASSUME NEW n \in reads(s) PROVE from[s + n] \subseteq Good
      <4>1. s + n \in 0..end /\ s + n > s
        BY <1>2, <1>3, <2>1, <2>4
      <4> QED
        BY <1>10, <4>1
    <3> QED
      BY <1>8, <3>1, <3>2
  <2> QED
    BY <2>2, <2>3, <2>4
<1>11. from[0] \subseteq Good
  <2> HIDE DEF Good, IsLoop, end
  <2>1. \A s \in 0..end : from[s] \subseteq Good
    BY <1>2, <1>10, Downward
  <2> QED
    BY <1>2, <2>1
<1>12. o \in Good
  BY <1>1, <1>11
<1> QED
  BY <1>12

(* append_file::append, read_small_file::read_to_string and read_to_buffer *)
(* (file_utils.cpp): however short the writes and reads, append counts the *)
(* whole line unless fwrite failed, and what is read without an error is   *)
(* the file, as far as it may be read; for lines, files and buffers of any *)
(* size.                                                                   *)
THEOREM FilesAreWhole == LinesCounted(Nat) /\ FilesRead(Nat, Nat, Nat \ {0})
<1>1. LinesCounted(Nat)
  BY LineCounted, Zenon DEF LinesCounted
<1>2. ASSUME NEW fileSize \in Nat, NEW bufferSize \in Nat \ {0}, NEW n \in ReadToBuffer(fileSize, bufferSize)
      PROVE  n < bufferSize
  BY DEF ReadToBuffer, Least
<1>3. FilesRead(Nat, Nat, Nat \ {0})
  BY <1>2, FileRead, Zenon DEF FilesRead
<1> QED
  BY <1>1, <1>3

-------------------------------------------------------------------------------
(* The text of a timestamp: a number, a dot, and six digits.               *)

Power(n) ==
  IF n = 0 THEN 1 ELSE IF n = 1 THEN 10 ELSE IF n = 2 THEN 100 ELSE IF n = 3 THEN 1000
  ELSE IF n = 4 THEN 10000 ELSE IF n = 5 THEN 100000 ELSE 1000000

LEMMA PowersAre ==
  ASSUME NEW n \in 0..6
  PROVE  /\ [k \in 0..n |-> Power(k)] \in [0..n -> Int] /\ Power(0) = 1
         /\ \A k \in 1..n : Power(k) = 10 * Power(k - 1)
<1>1. ASSUME NEW k \in 0..n PROVE Power(k) \in Int
  BY DEF Power
<1>2. ASSUME NEW k \in 1..n PROVE Power(k) = 10 * Power(k - 1)
  <2>1. k \in {1, 2, 3, 4, 5, 6}
    OBVIOUS
  <2> QED
    BY <2>1 DEF Power
<1>3. Power(0) = 1
  BY DEF Power
<1> QED
  BY <1>1, <1>2, <1>3

\* A text behind another one: the number of the first counts a power of ten.
LEMMA ConcatReads ==
  ASSUME NEW a \in Seq(Chars), NEW sa, Reads(a, 10, sa),
         NEW b \in Seq(Chars), NEW sb, Reads(b, 10, sb),
         NEW w \in [0..Len(b) -> Int], w[0] = 1, \A n \in 1..Len(b) : w[n] = 10 * w[n - 1]
  PROVE  \E sum : /\ Reads(a \o b, 10, sum)
                  /\ sum[Len(a \o b)] = w[Len(b)] * sa[Len(a)] + sb[Len(b)]
<1> DEFINE m == Len(a)
           n == Len(b)
           all == a \o b
           x == sa[m]
           sum == [k \in 0..(m + n) |-> IF k <= m THEN sa[k] ELSE w[k - m] * x + sb[k - m]]
<1>1. m \in Nat /\ n \in Nat
  BY LenProperties
<1>2. /\ Len(all) = m + n
      /\ \A k \in 1..(m + n) : all[k] = IF k <= m THEN a[k] ELSE b[k - m]
  BY ConcatProperties
<1>3. sa \in [0..m -> Int] /\ sa[0] = 0 /\ \A k \in 1..m : sa[k] = 10 * sa[k - 1] + DigitValue(a[k])
  BY DEF Reads
<1>4. sb \in [0..n -> Int] /\ sb[0] = 0 /\ \A k \in 1..n : sb[k] = 10 * sb[k - 1] + DigitValue(b[k])
  BY DEF Reads
<1>5. w \in [0..n -> Int] /\ \A k \in 1..n : w[k] = 10 * w[k - 1]
  OBVIOUS
<1>6. x \in Int
  BY <1>1, <1>3
<1> HIDE DEF all, m, n, x
<1>7. ASSUME NEW k \in 0..(m + n), ~(k <= m) PROVE w[k - m] * x + sb[k - m] \in Int
  <2>1. k - m \in 0..n
    BY <1>1, <1>7
  <2>2. w[k - m] \in Int /\ sb[k - m] \in Int
    BY <1>4, <1>5, <2>1
  <2> QED
    BY <1>6, <2>2
<1>8. sum \in [0..(m + n) -> Int]
  <2>1. ASSUME NEW k \in 0..(m + n), k <= m PROVE sa[k] \in Int
    <3>1. k \in 0..m
      BY <1>1, <2>1
    <3> QED
      BY <1>3, <3>1
  <2> QED
    BY <1>7, <2>1
<1>9. sum[0] = 0
  BY <1>1, <1>3
<1>10. ASSUME NEW k \in 1..(m + n) PROVE sum[k] = 10 * sum[k - 1] + DigitValue(all[k])
  <2>1. k \in 0..(m + n) /\ k - 1 \in 0..(m + n)
    BY <1>1
  <2>2. CASE k <= m
    <3>1. k \in 1..m /\ k - 1 <= m
      BY <1>1, <2>2
    <3>2. sum[k] = sa[k] /\ sum[k - 1] = sa[k - 1] /\ all[k] = a[k]
      BY <1>2, <2>1, <2>2, <3>1
    <3> HIDE DEF sum
    <3> QED
      BY <1>3, <3>1, <3>2
  <2>3. CASE ~(k <= m)
    <3> DEFINE j == k - m
    <3>1. j \in 1..n /\ j - 1 \in 0..n /\ j \in 0..n /\ (k - 1) - m = j - 1
      BY <1>1, <2>3
    <3>2. sum[k] = w[j] * x + sb[j] /\ all[k] = b[j]
      BY <1>2, <2>1, <2>3
    <3>3. sum[k - 1] = w[j - 1] * x + sb[j - 1]
      <4>1. CASE k - 1 <= m
        <5>1. k - 1 = m /\ j - 1 = 0
          BY <1>1, <2>3, <4>1
        <5>2. sum[k - 1] = x
          BY <2>1, <4>1, <5>1 DEF x
        <5>3. w[j - 1] = 1 /\ sb[j - 1] = 0
          BY <1>4, <5>1
        <5> HIDE DEF sum, j
        <5> QED
          BY <1>6, <5>2, <5>3
      <4>2. CASE ~(k - 1 <= m)
        BY <2>1, <3>1, <4>2
      <4> QED
        BY <4>1, <4>2
    <3> HIDE DEF j, sum
    <3> DEFINE v == w[j - 1]
               y == sb[j - 1]
               digit == DigitValue(b[j])
    <3>4. v \in Int /\ y \in Int /\ digit \in Int
      <4>1. b[j] \in Chars
        BY <3>1, LenProperties DEF n
      <4>2. digit \in Int
        BY <4>1, DigitIsNat
      <4>3. v \in Int /\ y \in Int
        BY <1>4, <1>5, <3>1
      <4> QED
        BY <4>2, <4>3
    <3>5. w[j] = 10 * v /\ sb[j] = 10 * y + digit
      BY <1>4, <1>5, <3>1
    <3> HIDE DEF v, y, digit
    <3>6. (10 * v) * x + (10 * y + digit) = 10 * (v * x + y) + digit
      <4>1. v * x \in Int /\ (10 * v) * x = 10 * (v * x)
        BY <1>6, <3>4
      <4> QED
        BY <3>4, <4>1
    <3>7. sum[k] = 10 * (v * x + y) + digit
      BY <3>2, <3>5, <3>6
    <3> QED
      BY <3>2, <3>3, <3>7 DEF v, y, digit
  <2> QED
    BY <2>2, <2>3
<1>11. Reads(all, 10, sum)
  <2> HIDE DEF sum
  <2> QED
    BY <1>2, <1>8, <1>9, <1>10 DEF Reads
<1>12. sum[m + n] = w[n] * x + sb[n]
  <2>1. CASE n = 0
    <3>1. sum[m + n] = x
      BY <1>1, <2>1 DEF x
    <3>2. w[n] = 1 /\ sb[n] = 0
      BY <1>4, <2>1
    <3> HIDE DEF sum
    <3> QED
      BY <1>6, <3>1, <3>2
  <2>2. CASE n # 0
    <3>1. m + n \in 0..(m + n) /\ ~(m + n <= m) /\ (m + n) - m = n
      BY <1>1, <2>2
    <3> QED
      BY <3>1
  <2> QED
    BY <2>1, <2>2
<1>13. Reads(a \o b, 10, sum) /\ sum[Len(a \o b)] = w[Len(b)] * sa[Len(a)] + sb[Len(b)]
  <2> HIDE DEF sum
  <2> QED
    BY <1>2, <1>11, <1>12 DEF all, m, n, x
<1> QED
  BY <1>13

LEMMA ConvertReads ==
  ASSUME NEW v \in Nat
  PROVE  /\ Convert(v) \in Seq(Chars)
         /\ Len(Convert(v)) \in Nat /\ Len(Convert(v)) > 0
         /\ Len(Convert(v)) = Len(Backwards[v])
         /\ \E sum : Reads(Convert(v), 10, sum) /\ sum[Len(Convert(v))] = v
<1> DEFINE text == Backwards[v]
<1>1. TextOf(text, 10, v)
  BY BackwardsReads DEF Magnitude
<1>2. Convert(v) = Reverse(text \o (IF v < 0 THEN <<"-">> ELSE <<>>))
  BY DEF Convert
<1> HIDE DEF text
<1>3. text \in Seq(Chars) /\ Len(text) \in Nat /\ Len(text) > 0
  BY <1>1, LenProperties, EmptySeq DEF TextOf
<1>4. Convert(v) = Reverse(text)
  <2>1. text \o <<>> = text /\ (IF v < 0 THEN <<"-">> ELSE <<>>) = <<>>
    BY <1>3
  <2> QED
    BY ONLY <1>2, <2>1
<1>5. Reverse(text) \in Seq(Chars) /\ Len(Reverse(text)) = Len(text)
  <2>1. digits_hex[1] \in Chars
    BY DEF Chars
  <2> QED
    BY <1>3, <2>1, ReverseStep
<1> QED
  BY <1>1, <1>3, <1>4, <1>5 DEF TextOf, text

\* One digit more for ten times as many numbers.
LEMMA DigitMore ==
  ASSUME NEW m \in Nat, NEW k \in Nat,
         \A r \in Nat : r < m => Len(Backwards[r]) <= k,
         NEW r \in Nat, r < 10 * m
  PROVE  Len(Backwards[r]) <= k + 1
<1> DEFINE q == Quot(r, 10)
           char == zero(Rem(r, 10))
           rest == IF q # 0 THEN Backwards[q] ELSE <<>>
<1>1. q \in Nat /\ q < m
  <2> DEFINE j == r \div 10
  <2>1. j \in Nat /\ 10 * j <= r
    OBVIOUS
  <2>2. q = j
    BY DEF Quot
  <2> HIDE DEF j, q
  <2> QED
    BY <2>1, <2>2
<1>2. Backwards[r] = <<char>> \o rest
  <2>1. r \in Int
    OBVIOUS
  <2> QED
    BY <2>1, BackwardsIs, Zenon
<1>3. char \in Chars
  <2> DEFINE i == Magnitude(Rem(r, 10))
  <2>1. char = digits_hex[i + 1] /\ i \in 0..15
    <3> DEFINE last == Rem(r, 10)
    <3>1. last \in Int /\ -9 <= last /\ last <= 9
      BY ByTen
    <3> HIDE DEF last
    <3>2. zero(last) = digits_hex[Magnitude(last) + 1] /\ Magnitude(last) \in 0..9
      BY <3>1, ZeroIs
    <3> QED
      BY <3>2 DEF last
  <2> HIDE DEF i, char
  <2> QED
    BY <2>1, DigitsAre
<1> HIDE DEF q, char
<1>4. rest \in Seq(Chars) /\ Len(rest) <= k
  <2>1. CASE q # 0
    <3>1. TextOf(Backwards[q], 10, Magnitude(q)) /\ Len(Backwards[q]) <= k
      BY <1>1, BackwardsReads
    <3> QED
      BY <2>1, <3>1 DEF TextOf
  <2>2. CASE q = 0
    BY <2>2
  <2> QED
    BY <2>1, <2>2
<1> HIDE DEF rest
<1>5. Len(<<char>> \o rest) = Len(rest) + 1 /\ Len(rest) \in Nat
  BY <1>3, <1>4, ReverseStep, LenProperties
<1> QED
  BY <1>2, <1>4, <1>5

LEMMA FewDigits == \A r \in Nat : r < MicroSecondsPerSecond => Len(Backwards[r]) <= 6
<1> DEFINE Few(m, k) == \A r \in Nat : r < m => Len(Backwards[r]) <= k
<1>1. ASSUME NEW m \in Nat, NEW k \in Nat, Few(m, k) PROVE Few(10 * m, k + 1)
  BY <1>1, DigitMore
<1> HIDE DEF Few
<1>2. Few(10, 1)
  <2>1. \A r \in Nat : r < 10 => Len(Backwards[r]) <= 1
    <3> SUFFICES ASSUME NEW r \in Nat, r < 10 PROVE Len(Backwards[r]) <= 1
      OBVIOUS
    <3> DEFINE char == zero(Rem(r, 10))
    <3>1. Quot(r, 10) = 0
      BY DEF Quot
    <3>2. Backwards[r] = <<char>> \o <<>>
      <4>1. r \in Int /\ ~(Quot(r, 10) # 0)
        BY <3>1
      <4> QED
        BY <4>1, BackwardsIs, Zenon
    <3> HIDE DEF char
    <3>3. Len(<<char>> \o <<>>) = 1
      OBVIOUS
    <3> QED
      BY <3>2, <3>3
  <2> QED
    BY <2>1 DEF Few
<1>3. Few(100, 2)
  <2>1. Few(10 * 10, 1 + 1)
    BY <1>1, <1>2
  <2> QED
    BY <2>1
<1>4. Few(1000, 3)
  <2>1. Few(10 * 100, 2 + 1)
    BY <1>1, <1>3
  <2> QED
    BY <2>1
<1>5. Few(10000, 4)
  <2>1. Few(10 * 1000, 3 + 1)
    BY <1>1, <1>4
  <2> QED
    BY <2>1
<1>6. Few(100000, 5)
  <2>1. Few(10 * 10000, 4 + 1)
    BY <1>1, <1>5
  <2> QED
    BY <2>1
<1>7. Few(1000000, 6)
  <2>1. Few(10 * 100000, 5 + 1)
    BY <1>1, <1>6
  <2> QED
    BY <2>1
<1> QED
  BY <1>7 DEF Few, MicroSecondsPerSecond

LEMMA ZerosRead ==
  ASSUME NEW n \in Nat
  PROVE  /\ [k \in 1..n |-> "0"] \in Seq(Chars) /\ Len([k \in 1..n |-> "0"]) = n
         /\ \E sum : Reads([k \in 1..n |-> "0"], 10, sum) /\ sum[n] = 0
<1> DEFINE zeros == [k \in 1..n |-> "0"]
           sum == [k \in 0..n |-> 0]
<1>1. "0" \in Chars /\ DigitValue("0") = 0
  <2>1. digits_hex[0 + 1] = "0" /\ 0 \in 0..15
    BY DEF digits_hex
  <2> QED
    BY <2>1, DigitsAre
<1>2. zeros \in [1..n -> Chars]
  BY <1>1
<1>3. \A k \in 1..n : zeros[k] = "0"
  OBVIOUS
<1> HIDE DEF zeros
<1>4. zeros \in Seq(Chars) /\ Len(zeros) = n
  <2>1. zeros \in Seq(Chars)
    BY <1>2, SeqDef
  <2> QED
    BY <1>2, <2>1, LenProperties
<1>5. Reads(zeros, 10, sum) /\ sum[n] = 0
  <2>1. sum \in [0..n -> Int] /\ sum[0] = 0 /\ sum[n] = 0
    OBVIOUS
  <2>2. ASSUME NEW k \in 1..n PROVE sum[k] = 10 * sum[k - 1] + DigitValue(zeros[k])
    <3>1. sum[k] = 0 /\ sum[k - 1] = 0
      OBVIOUS
    <3> QED
      BY <1>1, <1>3, <3>1
  <2> HIDE DEF sum
  <2> QED
    BY <1>4, <2>1, <2>2 DEF Reads
<1> QED
  BY <1>4, <1>5 DEF zeros

LEMMA SixDigitsRead ==
  ASSUME NEW r \in Nat, r < MicroSecondsPerSecond
  PROVE  /\ SixDigits(Convert(r)) \in Seq(Chars) /\ Len(SixDigits(Convert(r))) = 6
         /\ \E sum : Reads(SixDigits(Convert(r)), 10, sum) /\ sum[6] = r
<1> DEFINE text == Convert(r)
           n == 6 - Len(text)
           zeros == [k \in 1..n |-> "0"]
           w == [k \in 0..Len(text) |-> Power(k)]
<1>1. text \in Seq(Chars) /\ Len(text) \in 1..6
  <2> DEFINE m == Len(text)
             backwards == Len(Backwards[r])
  <2>1. backwards <= 6
    BY FewDigits
  <2>2. text \in Seq(Chars) /\ m \in Nat /\ m > 0 /\ m = backwards
    BY ConvertReads
  <2> HIDE DEF m, backwards, text
  <2>3. m \in 1..6
    BY <2>1, <2>2
  <2> QED
    BY <2>2, <2>3 DEF m
<1>2. PICK sb : Reads(text, 10, sb) /\ sb[Len(text)] = r
  BY ConvertReads
<1> HIDE DEF text
<1>3. n \in Nat /\ n + Len(text) = 6 /\ Len(text) \in 0..6
  <2> DEFINE m == Len(text)
  <2>1. m \in 1..6 /\ n = 6 - m
    BY <1>1
  <2> HIDE DEF m, n
  <2>2. n \in Nat /\ n + m = 6 /\ m \in 0..6
    BY <2>1
  <2> QED
    BY <2>2 DEF m
<1>4. SixDigits(text) = zeros \o text
  BY DEF SixDigits
<1> HIDE DEF n
<1>5. zeros \in Seq(Chars) /\ Len(zeros) = n
  BY <1>3, ZerosRead
<1>6. PICK sa : Reads(zeros, 10, sa) /\ sa[n] = 0
  BY <1>3, ZerosRead
<1>7. w \in [0..Len(text) -> Int] /\ w[0] = 1 /\ \A k \in 1..Len(text) : w[k] = 10 * w[k - 1]
  <2>1. /\ w \in [0..Len(text) -> Int] /\ Power(0) = 1
        /\ \A k \in 1..Len(text) : Power(k) = 10 * Power(k - 1)
    BY <1>3, PowersAre
  <2>2. w[0] = Power(0)
    BY <1>3
  <2>3. ASSUME NEW k \in 1..Len(text) PROVE w[k] = Power(k) /\ w[k - 1] = Power(k - 1)
    BY <1>3
  <2> HIDE DEF w
  <2> QED
    BY <2>1, <2>2, <2>3
<1> HIDE DEF zeros, w
<1>8. /\ zeros \o text \in Seq(Chars)
      /\ Len(zeros \o text) = 6
  BY <1>1, <1>3, <1>5, ConcatProperties
<1>9. PICK sum : /\ Reads(zeros \o text, 10, sum)
                 /\ sum[Len(zeros \o text)] = w[Len(text)] * sa[Len(zeros)] + sb[Len(text)]
  BY <1>1, <1>2, <1>5, <1>6, <1>7, ConcatReads
<1>10. sum[6] = r
  <2> DEFINE power == w[Len(text)]
  <2>1. power \in Int
    BY <1>3, <1>7
  <2>2. sum[6] = power * 0 + r
    BY <1>2, <1>5, <1>6, <1>8, <1>9
  <2> HIDE DEF power
  <2> QED
    BY <2>1, <2>2
<1> QED
  BY <1>4, <1>8, <1>9, <1>10 DEF text

(* timestamp::to_string (timestamp.cpp): the text of every time from 1970  *)
(* on is its microseconds, with a dot before the last six digits.          *)
THEOREM TimestampsAreExact == TimestampsExact(Nat)
<1> DEFINE text(micros) == to_string(micros)
           dot(micros) == Len(text(micros)) - 6
           digitsOf(micros) == SubSeq(text(micros), 1, dot(micros) - 1)
                                 \o SubSeq(text(micros), dot(micros) + 1, Len(text(micros)))
<1>1. ASSUME NEW micros \in Nat
      PROVE  text(micros)[dot(micros)] = "." /\ ReadBack(digitsOf(micros)) = micros
  <2> DEFINE million == MicroSecondsPerSecond
             q == Quot(micros, million)
             r == Rem(micros, million)
             whole == Convert(q)
             six == SixDigits(Convert(r))
             point == <<".">>
             S == Chars \cup {"."}
             w == [k \in 0..6 |-> Power(k)]
  <2>1. text(micros) = (whole \o point) \o six
    BY ConcatAssociative DEF to_string
  <2>2. q \in Nat /\ r \in Nat /\ r < million /\ micros = million * q + r
    <3> DEFINE j == micros \div million
               rest == micros % million
    <3>1. j \in Nat /\ rest \in Nat /\ rest < million /\ micros = million * j + rest
      BY SMT DEF MicroSecondsPerSecond
    <3>2. q = j
      BY DEF Quot
    <3> HIDE DEF j, rest
    <3>3. r = micros - million * q
      BY DEF Rem
    <3> HIDE DEF q, r
    <3>4. million \in Int
      BY DEF MicroSecondsPerSecond
    <3> HIDE DEF million
    <3>5. million * j \in Int
      BY <3>1, <3>4
    <3>6. r = rest
      BY <3>1, <3>2, <3>3, <3>5
    <3> QED
      BY <3>1, <3>2, <3>6
  <2> HIDE DEF q, r
  <2>3. whole \in Seq(Chars) /\ Len(whole) \in Nat /\ Len(whole) > 0
    BY <2>2, ConvertReads
  <2>4. PICK sa : Reads(whole, 10, sa) /\ sa[Len(whole)] = q
    BY <2>2, ConvertReads
  <2>5. six \in Seq(Chars) /\ Len(six) = 6
    BY <2>2, SixDigitsRead
  <2>6. PICK sb : Reads(six, 10, sb) /\ sb[6] = r
    BY <2>2, SixDigitsRead
  <2>7. point \in Seq(S) /\ Len(point) = 1 /\ point[1] = "."
    OBVIOUS
  <2> HIDE DEF whole, six, point
  <2>8. whole \in Seq(S) /\ six \in Seq(S)
    BY <2>3, <2>5, SeqMonotonic
  <2> DEFINE first == whole \o point
  <2>9. /\ first \in Seq(S) /\ Len(first) = Len(whole) + 1
        /\ first[Len(whole) + 1] = "."
    <3> HIDE DEF S
    <3>1. /\ first \in Seq(S) /\ Len(first) = Len(whole) + Len(point)
          /\ \A k \in 1..(Len(whole) + Len(point)) :
               first[k] = IF k <= Len(whole) THEN whole[k] ELSE point[k - Len(whole)]
      BY <2>7, <2>8, ConcatProperties
    <3> HIDE DEF first
    <3> DEFINE m == Len(whole)
    <3>2. m + 1 \in 1..(m + Len(point)) /\ ~(m + 1 <= m) /\ (m + 1) - m = 1
      BY <2>3, <2>7
    <3>3. first[m + 1] = point[1]
      BY <3>1, <3>2
    <3> QED
      BY <2>7, <3>1, <3>3
  <2>10. SubSeq(first, 1, Len(whole)) = whole
    <3>1. 1 \in 1..Len(whole) /\ Len(whole) \in 1..Len(whole)
      BY <2>3
    <3> HIDE DEF S, first
    <3> QED
      BY <2>7, <2>8, <3>1, SubSeqOfConcat1, SubSeqFull DEF first
  <2> HIDE DEF first, S
  <2> DEFINE all == first \o six
  <2>11. /\ Len(all) = Len(whole) + 7
         /\ all[Len(whole) + 1] = "."
    <3>1. /\ Len(all) = Len(first) + Len(six)
          /\ \A k \in 1..(Len(first) + Len(six)) :
               all[k] = IF k <= Len(first) THEN first[k] ELSE six[k - Len(first)]
      BY <2>8, <2>9, ConcatProperties
    <3> HIDE DEF all
    <3>2. Len(whole) + 1 \in 1..(Len(first) + Len(six)) /\ Len(whole) + 1 <= Len(first)
      BY <2>3, <2>5, <2>9
    <3>3. all[Len(whole) + 1] = first[Len(whole) + 1]
      BY <3>1, <3>2
    <3> QED
      BY <2>3, <2>5, <2>9, <3>1, <3>3
  <2>12. SubSeq(all, 1, Len(whole)) = whole
    <3>1. 1 \in 1..Len(first) /\ Len(whole) \in 1..Len(first)
      BY <2>3, <2>9
    <3> QED
      BY <2>8, <2>9, <2>10, <3>1, SubSeqOfConcat1
  <2>13. SubSeq(all, Len(whole) + 2, Len(whole) + 7) = six
    <3>1. /\ Len(whole) + 2 \in (Len(first) + 1)..(Len(first) + Len(six))
          /\ Len(whole) + 7 \in (Len(first) + 1)..(Len(first) + Len(six))
          /\ (Len(whole) + 2) - Len(first) = 1 /\ (Len(whole) + 7) - Len(first) = Len(six)
      BY <2>3, <2>5, <2>9
    <3>2. SubSeq(all, Len(whole) + 2, Len(whole) + 7)
            = SubSeq(six, (Len(whole) + 2) - Len(first), (Len(whole) + 7) - Len(first))
      BY <2>8, <2>9, <3>1, SubSeqOfConcat2
    <3> QED
      BY <2>8, <3>1, <3>2, SubSeqFull
  <2> HIDE DEF all
  <2>14. /\ text(micros) = all /\ dot(micros) = Len(whole) + 1
         /\ dot(micros) - 1 = Len(whole) /\ dot(micros) + 1 = Len(whole) + 2
    <3>1. text(micros) = all
      BY <2>1 DEF all, first
    <3> QED
      BY <2>3, <2>11, <3>1
  <2>15. digitsOf(micros) = whole \o six
    BY <2>11, <2>12, <2>13, <2>14
  <2>16. w \in [0..6 -> Int] /\ w[0] = 1 /\ w[6] = million /\ \A k \in 1..6 : w[k] = 10 * w[k - 1]
    <3>1. w \in [0..6 -> Int] /\ Power(0) = 1 /\ \A k \in 1..6 : Power(k) = 10 * Power(k - 1)
      BY PowersAre
    <3>2. w[0] = Power(0) /\ w[6] = Power(6) /\ Power(6) = million
      BY DEF Power, MicroSecondsPerSecond
    <3>3. \A k \in 1..6 : w[k] = Power(k) /\ w[k - 1] = Power(k - 1)
      OBVIOUS
    <3> HIDE DEF w, million
    <3> QED
      BY <3>1, <3>2, <3>3
  <2> HIDE DEF w
  <2>17. PICK sum : /\ Reads(whole \o six, 10, sum)
                    /\ sum[Len(whole \o six)] = w[6] * sa[Len(whole)] + sb[6]
    <3>1. /\ w \in [0..Len(six) -> Int] /\ w[0] = 1
          /\ \A k \in 1..Len(six) : w[k] = 10 * w[k - 1]
      BY <2>5, <2>16
    <3>2. whole \in Seq(Chars) /\ six \in Seq(Chars) /\ Reads(whole, 10, sa) /\ Reads(six, 10, sb)
      BY <2>3, <2>4, <2>5, <2>6
    <3>3. \E sum : /\ Reads(whole \o six, 10, sum)
                   /\ sum[Len(whole \o six)] = w[Len(six)] * sa[Len(whole)] + sb[Len(six)]
      BY ONLY <3>1, <3>2, ConcatReads
    <3> QED
      BY <2>5, <3>3
  <2>18. sum[Len(whole \o six)] = micros
    BY <2>2, <2>4, <2>6, <2>16, <2>17
  <2>19. whole \o six \in Seq(Chars) /\ whole \o six # <<>>
    BY <2>3, <2>5, ConcatProperties, EmptySeq
  <2>20. Number(whole \o six, 10, 1) = 1 * sum[Len(whole \o six)]
    BY <2>17, <2>19, NumberIs
  <2>21. Head(whole \o six) # "-"
    BY <2>19, HeadTailProperties, DigitsAreUnsigned
  <2>22. ReadBack(whole \o six) = micros
    <3>1. ReadBack(whole \o six) = Number(whole \o six, 10, 1)
      BY <2>21 DEF ReadBack
    <3>2. 1 * sum[Len(whole \o six)] = micros
      BY <2>18
    <3> QED
      BY <2>20, <3>1, <3>2
  <2> HIDE DEF text, dot, digitsOf
  <2> QED
    BY <2>11, <2>14, <2>15, <2>22
<1> QED
  BY <1>1, Zenon DEF TimestampsExact

(* string_piece.h, file_utils.cpp, timestamp.cpp: for all days of the      *)
(* calendar, the times taken from them are their texts; string pieces are  *)
(* ordered, and files are written and read to the end.                     *)
THEOREM ValuesAreTrue == Walk => []ValuesAgree
<1>1. PiecesOrdered(Pieces)
  <2>1. Pieces \subseteq Strings
    <3>1. ASSUME NEW n \in Nat, NEW x \in [1..n -> Int] PROVE x \in Strings
      BY SeqDef, Zenon DEF Strings
    <3>2. ASSUME NEW n \in 0..2, NEW x \in [1..n -> {0, 65, 255}] PROVE x \in Strings
      <4>1. x \in [1..n -> Int] /\ n \in Nat
        OBVIOUS
      <4> QED
        BY <3>1, <4>1
    <3>3. ASSUME NEW x \in [1..3 -> {65, 255}] PROVE x \in Strings
      <4> DEFINE n == 3
      <4>1. x \in [1..n -> Int] /\ n \in Nat
        OBVIOUS
      <4> HIDE DEF n
      <4> QED
        BY <3>1, <4>1
    <3> DEFINE few(n) == [1..n -> {0, 65, 255}]
               three == [1..3 -> {65, 255}]
               short == {few(n) : n \in 0..2}
    <3>4. Pieces = (UNION short) \cup three
      BY DEF Pieces
    <3>5. three \subseteq Strings /\ \A n \in 0..2 : few(n) \subseteq Strings
      BY <3>2, <3>3
    <3> HIDE DEF few, three
    <3>6. \A S \in short : S \subseteq Strings
      BY <3>5
    <3> HIDE DEF short
    <3> QED
      BY <3>4, <3>5, <3>6
  <2>2. PiecesOrdered(Strings)
    BY PiecesAreOrdered
  <2> QED
    BY <2>1, <2>2, Zenon DEF PiecesOrdered
<1>2. LinesCounted(0..5) /\ FilesRead(0..7, 0..7, 1..4)
  <2>1. 0..5 \subseteq Nat /\ 0..7 \subseteq Nat /\ 1..4 \subseteq Nat \ {0}
    OBVIOUS
  <2> DEFINE lens == 0..5
             sizes == 0..7
             buffers == 1..4
  <2>2. lens \subseteq Nat /\ sizes \subseteq Nat /\ buffers \subseteq Nat \ {0}
    BY <2>1
  <2> HIDE DEF lens, sizes, buffers
  <2>3. LinesCounted(lens)
    BY <2>2, FilesAreWhole, Zenon DEF LinesCounted
  <2>4. FilesRead(sizes, sizes, buffers)
    BY <2>2, FilesAreWhole, Zenon DEF FilesRead
  <2> QED
    BY <2>3, <2>4 DEF lens, sizes, buffers
<1>3. ASSUME OnCalendar PROVE TimestampsExact({days * 14633})
  <2> DEFINE micros == days * 14633
  <2>1. micros \in Nat
    BY <1>3 DEF OnCalendar
  <2> HIDE DEF micros
  <2>2. TimestampsExact({micros})
    BY <2>1, TimestampsAreExact, Zenon DEF TimestampsExact
  <2> QED
    BY <2>2 DEF micros
<1>4. OnCalendar => ValuesAgree
  BY <1>1, <1>2, <1>3 DEF ValuesAgree
<1> QED
  BY <1>4, FirstDayOn, NextDateOn, PTL DEF Walk
================================================================================
