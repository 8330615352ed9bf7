\* Two threads; two seconds, and a step back; texts after which there is just room
\* for a number, and for nothing; the longest number and address of 32 bits.
CONSTANTS
  Size = 4000
  MaxNumericSize = 48
  Threads = {t1, t2}
  Zones = {berlin}
  NoZone = NoZone
  TextLengths = {3914, 3961}
  Numbers = {2147483647}
  Address = 2147483647
  MaxSecond = 2
  MaxLines = 2
  MaxPieces = 2
  MaxSets = 2
SPECIFICATION Spec
INVARIANTS LinesConsistent OutputTrue
CHECK_DEADLOCK FALSE
