\* The four centuries after which the calendar repeats itself; two years of four zones;
\* integers of 32 bits.
CONSTANTS
  FirstYear = 1900
  FirstWeekDay = 1
  LastYear = 2300
  SampleSeconds = {0, 1, 59, 60, 3599, 3600, 43200, 86399}
  Files <- MCFiles
  Offsets <- MCOffsets
  ZoneYears = {2007, 2008}
  ZoneSeconds <- MCZoneSeconds
  Size = 4000
  MaxNumericSize = 48
SPECIFICATION Walk
INVARIANTS CalendarAgrees LocalTimeAgrees ConversionsExact ValuesAgree
CHECK_DEADLOCK FALSE
