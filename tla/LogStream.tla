------------------------------- MODULE LogStream -------------------------------
(***************************************************************************)
(* log_stream and fixed_buffer: what is appended to a line, and how        *)
(* integers and sizes become text.                                         *)
(*                                                                         *)
(* Of a line only the length matters; of a number, its characters.         *)
(***************************************************************************)
EXTENDS IntegerDivision, SequencesExt

CONSTANTS
  Size,             \* k_small_buffer
  MaxNumericSize    \* k_max_numeric_size

ASSUME StreamAssumption == Size \in Nat \ {0} /\ MaxNumericSize \in Nat

-------------------------------------------------------------------------------
(* detail::convert, detail::convert_hex                                    *)

digits == <<"9", "8", "7", "6", "5", "4", "3", "2", "1", "0",
            "1", "2", "3", "4", "5", "6", "7", "8", "9">>

\* zero[lsd]: the table is entered at its middle, as the remainder may be negative.
zero(lsd) == digits[lsd + 10]

digits_hex == <<"0", "1", "2", "3", "4", "5", "6", "7", "8", "9", "A", "B", "C", "D", "E", "F">>

\* Faulty: the loop ends when i is no longer positive.
ConvertPositive(value) ==
  LET backwards[i \in Int] ==
        <<zero(Rem(i, 10))>> \o (IF Quot(i, 10) > 0 THEN backwards[Quot(i, 10)] ELSE <<>>)
  IN (IF value < 0 THEN <<"-">> ELSE <<>>) \o Reverse(backwards[value])

\* The digits of a number, the last one first.
Backwards[i \in Int] ==
  <<zero(Rem(i, 10))>> \o (IF Quot(i, 10) # 0 THEN Backwards[Quot(i, 10)] ELSE <<>>)

\* convert: then the sign, then reversed.
Convert(value) == Reverse(Backwards[value] \o (IF value < 0 THEN <<"-">> ELSE <<>>))

BackwardsHex[i \in Nat] ==
  <<digits_hex[(i % 16) + 1]>> \o (IF i \div 16 # 0 THEN BackwardsHex[i \div 16] ELSE <<>>)

\* convert_hex, of an address
ConvertHex(value) == Reverse(BackwardsHex[value])

-------------------------------------------------------------------------------
(* format_SI, format_IEC: a mantissa with so many decimals, and a prefix.  *)

\* What snprintf may print of num / den: the nearest integer, of a tie either.
Rounded(num, den) ==
  LET q == num \div den
      r == num % den
  IN {n \in {q, q + 1} : IF n = q THEN 2 * r <= den ELSE 2 * r >= den}

\* The first prefix whose range ends above the number, of six; the last has no limit.
FirstPrefix(below) ==
  CHOOSE i \in 1..6 : (i = 6 \/ below[i]) /\ \A j \in 1..(i - 1) : ~below[j]

SI[i \in 0..6] == IF i = 0 THEN 1 ELSE 1000 * SI[i - 1]
IEC[i \in 0..6] == IF i = 0 THEN 1 ELSE 1024 * IEC[i - 1]
Tens == <<1, 10, 100>>

(* k, M, G, T, P, E: s < 9995 * 1000^(i - 1) is s \div 1000^(i - 1) < 9995, *)
(* and so on.                                                              *)
FormatSI(s) ==
  LET Thousandths(i) == s \div SI[i - 1]
      prefix == FirstPrefix([i \in 1..6 |-> Thousandths(i) < 999500])
      decimals == IF prefix = 6 \/ Thousandths(prefix) < 9995 THEN 2
                  ELSE IF Thousandths(prefix) < 99950 THEN 1 ELSE 0
  IN IF s < 1000 THEN [prefix |-> 0, decimals |-> 0, mantissas |-> {s}]
     ELSE [prefix |-> prefix, decimals |-> decimals,
           mantissas |-> Rounded(s, SI[prefix] \div Tens[decimals + 1])]

\* Ki, Mi, Gi, Ti, Pi, Ei: 9.995 is 1999 / 200, 99.95 is 1999 / 20, 1023.5 is 2047 / 2.
FormatIEC(s) ==
  LET prefix == FirstPrefix([i \in 1..6 |-> s * 2 < IEC[i] * 2047])
      decimals == IF s * 200 < IEC[prefix] * 1999 THEN 2
                  ELSE IF prefix = 6 \/ s * 20 < IEC[prefix] * 1999 THEN 1 ELSE 0
  IN IF s < 1024 THEN [prefix |-> 0, decimals |-> 0, mantissas |-> {s}]
     ELSE [prefix |-> prefix, decimals |-> decimals,
           mantissas |-> Rounded(s * Tens[decimals + 1], IEC[prefix])]

-------------------------------------------------------------------------------
(* The line: how many of its characters are used.                          *)

Avail(used) == Size - used

\* fixed_buffer::append: all of the text or, when it does not fit with a byte to spare, nothing.
Appended(used, len) == IF Avail(used) > len THEN used + len ELSE used

\* Faulty: the number is converted into whatever room is left.
FormatIntegerAnywhere(used, value) ==
  IF Avail(used) > 0 THEN used + Len(Convert(value)) ELSE used

\* format_integer: converted in place, when there is room for any number.
FormatInteger(used, value) ==
  IF Avail(used) >= MaxNumericSize THEN used + Len(Convert(value)) ELSE used

\* operator<<(const void *): 0x and the digits.
FormatAddress(used, value) ==
  IF Avail(used) >= MaxNumericSize THEN used + 2 + Len(ConvertHex(value)) ELSE used
===============================================================================
