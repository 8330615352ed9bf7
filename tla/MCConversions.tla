----------------------------- MODULE MCConversions -----------------------------
(***************************************************************************)
(* The conversions, with what the zoneinfo files of four zones say of 2007 *)
(* and 2008: west of Greenwich, at Greenwich, east of it and south of the  *)
(* equator, and without daylight saving time.  The days of the walk, and   *)
(* their seconds, are also the numbers that are printed.                   *)
(***************************************************************************)
EXTENDS TimeZone, Texts

\* Standard time, then daylight saving time.
Localtimes(gmtOffset) ==
  <<[gmtOffset |-> gmtOffset, isDst |-> FALSE, abbrIdx |-> 0],
    [gmtOffset |-> gmtOffset + 3600, isDst |-> TRUE, abbrIdx |-> 4]>>

NewYork ==
  [charcnt |-> 8, localtimes |-> Localtimes(-18000),
   trans |-> <<[at |-> 1173596400, idx |-> 2],
             [at |-> 1194156000, idx |-> 1],
             [at |-> 1205046000, idx |-> 2],
             [at |-> 1225605600, idx |-> 1]>>]

London ==
  [charcnt |-> 8, localtimes |-> Localtimes(0),
   trans |-> <<[at |-> 1174784400, idx |-> 2],
             [at |-> 1193533200, idx |-> 1],
             [at |-> 1206838800, idx |-> 2],
             [at |-> 1224982800, idx |-> 1]>>]

Sydney ==
  [charcnt |-> 8, localtimes |-> Localtimes(36000),
   trans |-> <<[at |-> 1162051200, idx |-> 2],
             [at |-> 1174752000, idx |-> 1],
             [at |-> 1193500800, idx |-> 2],
             [at |-> 1207411200, idx |-> 1],
             [at |-> 1223136000, idx |-> 2]>>]

Calcutta ==
  [charcnt |-> 4, localtimes |-> <<[gmtOffset |-> 19800, isDst |-> FALSE, abbrIdx |-> 0]>>,
   trans |-> <<>>]

MCFiles == {NewYork, London, Sydney, Calcutta}
MCOffsets == {-18000, 28800}

\* The first, the second and the last second of every hour.
MCZoneSeconds == {3600 * hour + second : hour \in 0..23, second \in {0, 1, 3599}}
===============================================================================
