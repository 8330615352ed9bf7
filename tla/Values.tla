-------------------------------- MODULE Values --------------------------------
(***************************************************************************)
(* Value types and loops without a state between calls: the comparisons of *)
(* string_piece, the text of a timestamp, and append_file and              *)
(* read_small_file, whose loops face writes and reads of fewer bytes than  *)
(* they ask for, and errors.                                               *)
(***************************************************************************)
EXTENDS LogStream

-------------------------------------------------------------------------------
(* string_piece: a sequence of characters, which are numbers.              *)

Least(m, n) == IF m < n THEN m ELSE n

\* memcmp of the first n characters: the difference of the first two that differ.
Memcmp(x, y, n) ==
  LET differ == {k \in 1..n : x[k] # y[k]} IN
  IF differ = {} THEN 0
  ELSE LET k == CHOOSE i \in differ : \A j \in differ : i <= j IN x[k] - y[k]

\* What the comparisons begin with.
Common(x, y) == Memcmp(x, y, Least(Len(x), Len(y)))

Equal(x, y) == Len(x) = Len(y) /\ Memcmp(x, y, Len(x)) = 0

\* STRINGPIECE_BINARY_PREDICATE
Less(x, y) == Common(x, y) < 0 \/ (Common(x, y) = 0 /\ Len(x) < Len(y))

\* Faulty: auxcmp is the operator itself.
LessOrEqualAux(x, y) == Common(x, y) <= 0 \/ (Common(x, y) = 0 /\ Len(x) <= Len(y))

LessOrEqual(x, y) == Common(x, y) < 0 \/ (Common(x, y) = 0 /\ Len(x) <= Len(y))

GreaterOrEqual(x, y) == Common(x, y) > 0 \/ (Common(x, y) = 0 /\ Len(x) >= Len(y))

Greater(x, y) == Common(x, y) > 0 \/ (Common(x, y) = 0 /\ Len(x) > Len(y))

Compare(x, y) ==
  IF Common(x, y) # 0 THEN Common(x, y)
  ELSE IF Len(x) < Len(y) THEN -1
  ELSE IF Len(x) > Len(y) THEN 1 ELSE 0

StartWith(x, y) == Len(x) >= Len(y) /\ Memcmp(x, y, Len(y)) = 0

RemovePrefix(x, n) == SubSeq(x, n + 1, Len(x))

RemoveSuffix(x, n) == SubSeq(x, 1, Len(x) - n)

(* The comparisons of string_piece agree with each other, and order the    *)
(* pieces; start_with and remove_prefix take a piece apart.                *)
PiecesOrdered(pieces) ==
  \A x, y \in pieces :
    /\ Equal(x, y) <=> x = y
    /\ Less(x, y) <=> ~GreaterOrEqual(x, y)
    /\ Less(x, y) <=> Greater(y, x)
    /\ LessOrEqual(x, y) <=> Less(x, y) \/ Equal(x, y)
    /\ GreaterOrEqual(x, y) <=> LessOrEqual(y, x)
    /\ Compare(x, y) < 0 <=> Less(x, y)
    /\ Compare(x, y) = 0 <=> Equal(x, y)
    /\ \A z \in pieces : Less(x, y) /\ Less(y, z) => Less(x, z)
    /\ StartWith(x, y) => /\ x = y \o RemovePrefix(x, Len(y))
                          /\ y = RemoveSuffix(x, Len(x) - Len(y))
                          /\ LessOrEqual(y, x)

-------------------------------------------------------------------------------
(* timestamp                                                               *)

MicroSecondsPerSecond == 1000000

\* %06: with zeros in front, after the sign.
SixDigits(text) == [k \in 1..(6 - Len(text)) |-> "0"] \o text

\* to_string: quotient, dot, remainder; of a timestamp that is valid().
to_string(microSeconds) ==
  Convert(Quot(microSeconds, MicroSecondsPerSecond))
    \o <<".">> \o SixDigits(Convert(Rem(microSeconds, MicroSecondsPerSecond)))

-------------------------------------------------------------------------------
(* append_file, read_small_file: the set of all they may come to, as the   *)
(* file lets them write and read fewer bytes than they ask for.            *)

(* append: written counts what fwrite took, but for the call that failed;  *)
(* reached is how much of the line stdio has.                              *)
AppendOutcomes(len) ==
  LET from[written \in 0..len] ==
        IF written = len THEN {[err |-> FALSE, written |-> len, reached |-> len]}
        ELSE (UNION {from[written + n] : n \in 1..(len - written)}) \cup
             {[err |-> TRUE, written |-> written, reached |-> written + n] :
                n \in 0..(len - written - 1)}
  IN from[0]

\* read_to_buffer: one pread, which leaves room for the terminator, of a file of so many bytes.
ReadToBuffer(fileSize, bufferSize) == 0..Least(fileSize, bufferSize - 1)

\* Faulty: a read of fewer bytes than asked for is taken for the end of the file.
MoreAfter(n, toRead) == n = toRead

\* while: only a read of nothing is the end of the file.
More(n, toRead) == n > 0

\* read_to_string: content is what was read before the end, an error, or max_size.
ReadOutcomes(fileSize, maxSize, bufferSize) ==
  LET from[size \in 0..maxSize] ==
        LET toRead == Least(maxSize - size, bufferSize)
            reads == IF size < fileSize THEN 1..Least(toRead, fileSize - size) ELSE {0}
        IN IF size = maxSize THEN {[err |-> FALSE, size |-> size]}
           ELSE {[err |-> TRUE, size |-> size]} \cup
                UNION {IF More(n, toRead) THEN from[size + n]
                       ELSE {[err |-> FALSE, size |-> size + n]} : n \in reads}
  IN from[0]

(* append counts all of a line unless fwrite failed, and never more than   *)
(* stdio has.                                                              *)
LinesCounted(lens) ==
  \A len \in lens : \A o \in AppendOutcomes(len) :
    o.written <= o.reached /\ o.reached <= len /\ (~o.err => o.written = len)

(* read_to_string and read_to_buffer do not go past their limits, and what *)
(* read_to_string returns without an error is as much of the file as it    *)
(* may.                                                                    *)
FilesRead(fileSizes, maxSizes, bufferSizes) ==
  \A fileSize \in fileSizes, maxSize \in maxSizes, bufferSize \in bufferSizes :
    /\ \A o \in ReadOutcomes(fileSize, maxSize, bufferSize) :
         o.size <= maxSize /\ (~o.err => o.size = Least(fileSize, maxSize))
    /\ \A n \in ReadToBuffer(fileSize, bufferSize) : n < bufferSize
===============================================================================
