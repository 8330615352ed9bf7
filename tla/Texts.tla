--------------------------------- MODULE Texts ---------------------------------
(***************************************************************************)
(* What is true of numbers as text: they are read back as what they were   *)
(* made of.  The days of the walk, and their seconds, are the numbers.     *)
(* With the first day, also what is true of the other values.              *)
(***************************************************************************)
EXTENDS Calendar, Values

\* What a character stands for, and what the digits of a text come to; -2^31 has no positive number.
DigitValue(char) == (CHOOSE d \in 1..16 : digits_hex[d] = char) - 1

Number(text, base, sign) ==
  LET sum[n \in 0..Len(text)] ==
        IF n = 0 THEN 0 ELSE base * sum[n - 1] + sign * DigitValue(text[n])
  IN sum[Len(text)]

ReadBack(text) ==
  IF Head(text) = "-" THEN Number(Tail(text), 10, -1) ELSE Number(text, 10, 1)

NoLeadingZero(text) == Head(text) = "0" => Len(text) = 1

(* Text is read back as the number it was made of, negative ones and the   *)
(* ends of the range included (convert, convert_hex).                      *)
TextsExact(numbers) ==
  \A v \in numbers :
    /\ ReadBack(Convert(v)) = v
    /\ NoLeadingZero(IF v < 0 THEN Tail(Convert(v)) ELSE Convert(v))
    /\ v >= 0 => Number(ConvertHex(v), 16, 1) = v /\ NoLeadingZero(ConvertHex(v))

(* A size is printed with three digits, or four below the next binary      *)
(* prefix, as the ranges beside format_SI and format_IEC say.              *)
DigitsOfSI(sizes) ==
  \A s \in sizes : FormatSI(s).mantissas \subseteq IF s < 1000 THEN 0..999 ELSE 100..999

DigitsOfIEC(sizes) ==
  \A s \in sizes :
    LET size == FormatIEC(s) IN
    size.mantissas \subseteq
      IF s < 1024 THEN 0..1023 ELSE 100..(IF size.decimals = 0 THEN 1023 ELSE 999)

\* The ends of the integers of 32 bits, and what is between, as far as the walk reaches.
Integers32 ==
  {days, -days} \cup
  (IF days = 0 THEN {2147483647, -2147483647 - 1} ELSE {}) \cup
  (IF year \in YearsOf32Bits THEN {Instant(s) : s \in SampleSeconds} ELSE {})

\* The sizes that are printed: all small ones, larger ones in steps.
Sizes(steps, most) == {days * step : step \in {k \in steps : days <= most \div k}}

(* The numbers of the walk are read back from their texts, and the sizes   *)
(* have as many digits as promised (convert, convert_hex, format_SI and    *)
(* format_IEC).                                                            *)
ConversionsExact ==
  /\ TextsExact(Integers32)
  /\ DigitsOfSI(Sizes({1, 1000, 1000000}, 2147483647))
  /\ DigitsOfIEC(Sizes({1, 64}, 10000000))

(* The text of a valid timestamp is its microseconds, with a dot before    *)
(* the last six digits of them.                                            *)
TimestampsExact(times) ==
  \A micros \in times :
    LET text == to_string(micros)
        dot == Len(text) - 6
    IN /\ text[dot] = "."
       /\ ReadBack(SubSeq(text, 1, dot - 1) \o SubSeq(text, dot + 1, Len(text))) = micros

\* Pieces of up to three characters, the highest of which memcmp must not take for negative.
Pieces == (UNION {[1..n -> {0, 65, 255}] : n \in 0..2}) \cup [1..3 -> {65, 255}]

(* string_piece is ordered, files are read and written to the end, and a   *)
(* timestamp can be read back from its text.                               *)
ValuesAgree ==
  /\ days = 0 => PiecesOrdered(Pieces) /\ LinesCounted(0..5) /\ FilesRead(0..7, 0..7, 1..4)
  /\ TimestampsExact({days * 14633})
================================================================================
