-------------------------------- MODULE TimeZone --------------------------------
(***************************************************************************)
(* time_zone: the conversions between seconds and local time, in a zone    *)
(* given by the transitions that its zoneinfo file lists.  gmtime_r and    *)
(* timegm are what Calendar.tla says of UTC; the walk through the calendar *)
(* gives the instants that are converted.                                  *)
(***************************************************************************)
EXTENDS Calendar, Sequences

CONSTANTS
  Files,         \* zoneinfo files: localtimes, and when which of them begins
  Offsets,       \* zones without a file
  ZoneYears,     \* the years in which local time is looked at,
  ZoneSeconds    \* and the seconds of their days

\* A difference of time is less than a day.
LessThanADay(offset) == offset \in Int /\ -SecondsPerDay < offset /\ offset < SecondsPerDay

\* What is in a file: localtimes, and transitions to them in order of time.
WellFormed(file) ==
  /\ file.charcnt \in Nat
  /\ file.localtimes \in Seq([gmtOffset : Int, isDst : BOOLEAN, abbrIdx : 0..file.charcnt])
  /\ file.localtimes # <<>>
  /\ \A k \in DOMAIN file.localtimes : LessThanADay(file.localtimes[k].gmtOffset)
  /\ file.trans \in Seq([at : Int, idx : DOMAIN file.localtimes])

(* Daylight saving time is an hour ahead, which is what from_local_time    *)
(* has built in, and no two transitions are within two hours.              *)
OneHourAhead(file) ==
  /\ \A j, k \in DOMAIN file.localtimes :
       LET one == file.localtimes[j]
           other == file.localtimes[k]
       IN one.gmtOffset - other.gmtOffset = (IF one.isDst THEN 3600 ELSE 0) - (IF other.isDst THEN 3600 ELSE 0)
  /\ \A j, k \in DOMAIN file.trans : j < k => file.trans[j].at + 7200 <= file.trans[k].at

ASSUME TimeZoneAssumption ==
  /\ \A file \in Files : WellFormed(file) /\ OneHourAhead(file)
  /\ \A east \in Offsets : LessThanADay(east)
  /\ ZoneYears \subseteq YearsOf32Bits
  /\ ZoneSeconds \subseteq 0..(SecondsPerDay - 1)

\* readTimeZoneFile: a transition to another of the file's localtimes.
Transition(file, trans) ==
  [gmttime |-> trans.at,
   localtime |-> trans.at + file.localtimes[trans.idx].gmtOffset,
   localtimeIdx |-> trans.idx]

\* The bytes of a file before its localtimes, before its abbreviations, and all of it.
BytesBeforeTypes(file) == 44 + 5 * Len(file.trans)
BytesBeforeNames(file) == BytesBeforeTypes(file) + 6 * Len(file.localtimes)
FileBytes(file) == BytesBeforeNames(file) + file.charcnt

\* Faulty: transitions are made before the localtimes have been read.
TransitionsFrom(file) == BytesBeforeTypes(file)

\* How much must have been read before there are transitions.
TransitionsAfter(file) == BytesBeforeNames(file)

(* readTimeZoneFile, of a file that ends, or fails, after so many bytes:   *)
(* what was read is kept, and the zone is valid() whatever it is.          *)
ReadTimeZoneFile(file, bytes) ==
  LET read == (bytes - BytesBeforeTypes(file)) \div 6
      types == {k \in DOMAIN file.localtimes : k <= read}
  IN [localtimes |-> [k \in types |-> file.localtimes[k]],
      transitions |-> IF bytes < TransitionsAfter(file) THEN <<>>
                      ELSE [k \in DOMAIN file.trans |-> Transition(file, file.trans[k])],
      abbreviation |-> IF bytes < FileBytes(file) THEN 0 ELSE file.charcnt]

\* The data of a file that is read to its end.
Data(file) == ReadTimeZoneFile(file, FileBytes(file))

\* time_zone(eastOfUtc, name), with a name of length characters.
FixedZone(eastOfUtc, length) ==
  [localtimes |-> <<[gmtOffset |-> eastOfUtc, isDst |-> FALSE, abbrIdx |-> 0]>>,
   transitions |-> <<>>, abbreviation |-> length]

\* What Comp compares: gmttime or localtime.
Key(transition, compareGmt) == IF compareGmt THEN transition.gmttime ELSE transition.localtime

\* std::lower_bound: the first transition not before time; one past the end if none.
LowerBound(transitions, time, compareGmt) ==
  CHOOSE k \in 1..(Len(transitions) + 1) :
    /\ \A j \in 1..(k - 1) : Key(transitions[j], compareGmt) < time
    /\ k <= Len(transitions) => Key(transitions[k], compareGmt) >= time

\* findLocaltime
FindLocaltime(data, time, compareGmt) ==
  LET transitions == data.transitions IN
  IF transitions = <<>> \/ time < Key(transitions[1], compareGmt)
    THEN data.localtimes[1]
    ELSE LET k == LowerBound(transitions, time, compareGmt)
             at == k <= Len(transitions) /\ Key(transitions[k], compareGmt) = time
         IN data.localtimes[transitions[IF at THEN k ELSE k - 1].localtimeIdx]

\* to_local_time: the fields, tm_isdst, and where tm_zone points to.
ToLocalTime(data, time) ==
  LET local == FindLocaltime(data, time, TRUE)
  IN [tm |-> ToUtcTime(time + local.gmtOffset), isDst |-> local.isDst, zone |-> local.abbrIdx]

\* Faulty: tm_isdst is not looked at.
FromLocalTimeStandard(data, localTm) ==
  LET seconds == FromUtcTime(localTm.tm)
  IN seconds - FindLocaltime(data, seconds, FALSE).gmtOffset

(* from_local_time: when standard time comes back, an hour of local time   *)
(* comes twice, and tm_isdst tells the first from the second.              *)
FromLocalTime(data, localTm) ==
  LET seconds == FromUtcTime(localTm.tm)
      local == FindLocaltime(data, seconds, FALSE)
      tryTm == ToLocalTime(data, seconds - local.gmtOffset)
      first == /\ localTm.isDst /\ ~tryTm.isDst
               /\ tryTm.tm.tm_hour = localTm.tm.tm_hour
               /\ tryTm.tm.tm_min = localTm.tm.tm_min
  IN seconds - (IF first THEN 3600 ELSE 0) - local.gmtOffset

-------------------------------------------------------------------------------
(* findLocaltime: the localtime in force is that of the last transition    *)
(* that is not in the future, and the first one before all of them.        *)
InForce ==
  year \in ZoneYears => \A file \in Files, s \in ZoneSeconds :
    LET time == Instant(s)
        past == {k \in DOMAIN file.trans : file.trans[k].at <= time}
        last == CHOOSE k \in past : \A j \in past : j <= k
    IN FindLocaltime(Data(file), time, TRUE) =
         file.localtimes[IF past = {} THEN 1 ELSE file.trans[last].idx]

(* from_local_time finds every instant again, those of the hour that comes *)
(* twice included, in zones whose daylight saving time is an hour ahead.   *)
LocalRoundTrip ==
  year \in ZoneYears =>
    \A data \in {Data(file) : file \in Files} \cup {FixedZone(east, 3) : east \in Offsets},
       s \in ZoneSeconds :
      LET local == ToLocalTime(data, Instant(s))
      IN FromLocalTime(data, local) = Instant(s) /\ local.zone <= data.abbreviation

(* readTimeZoneFile: whatever of a file is cut off, every transition has   *)
(* its localtime, and a zone has transitions only when it has all of them: *)
(* else its time is that of its first localtime, unless that is missing    *)
(* too, and to_local_time has nothing to take.                             *)
CutFileInBounds ==
  days = 0 => \A file \in Files : \A bytes \in 0..FileBytes(file) :
    LET data == ReadTimeZoneFile(file, bytes) IN
    /\ data.transitions \in {<<>>, Data(file).transitions}
    /\ \A k \in DOMAIN data.transitions :
         data.transitions[k].localtimeIdx \in DOMAIN data.localtimes
    /\ bytes >= BytesBeforeTypes(file) + 6 => 1 \in DOMAIN data.localtimes

(* Local time is that of the zone, and leads back to the instant; a file   *)
(* that is cut off gives no transition without its localtime.              *)
LocalTimeAgrees == InForce /\ LocalRoundTrip /\ CutFileInBounds
===============================================================================
