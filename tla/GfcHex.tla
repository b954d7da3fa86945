-------------------------------- MODULE GfcHex --------------------------------
(***************************************************************************)
(* The conversions of gfc_hex.c between bytes, hexadecimal digits, bits    *)
(* and packed decimals.  A character is a one-letter string, a byte a      *)
(* number below 256, a string of bits a sequence of zeros and ones.        *)
(***************************************************************************)
EXTENDS Integers, SequencesExt

HexDigits == <<"0", "1", "2", "3", "4", "5", "6", "7", "8", "9", "A", "B", "C", "D", "E", "F">>

\* Any character but an upper case digit counts as sixteen.
HexToInt(ch) == IF ch \in Range(HexDigits) THEN CHOOSE d \in 0..15 : HexDigits[d + 1] = ch ELSE 16

HexToChar(dec) == IF dec \in 0..15 THEN HexDigits[dec + 1] ELSE "NUL"

\* The four bits of a digit, the highest first; other characters stop the program.
HexToBits(ch) == [i \in 1..4 |-> (HexToInt(ch) \div <<8, 4, 2, 1>>[i]) % 2]

BitsToChar(bits) == CHOOSE ch \in Range(HexDigits) : HexToBits(ch) = bits

\* Mutant: the two digits of a byte are swapped.
HexToString_swapped(bytes) ==
  FlattenSeq([i \in DOMAIN bytes |-> <<HexToChar(bytes[i] % 16), HexToChar(bytes[i] \div 16)>>])

HexToString(bytes) ==
  FlattenSeq([i \in DOMAIN bytes |-> <<HexToChar(bytes[i] \div 16), HexToChar(bytes[i] % 16)>>])

\* An odd digit at the end is left out; what does not fit a byte is cut off.
HexToBytes(text) ==
  [i \in 1..(Len(text) \div 2) |->
     (HexToInt(text[2 * i - 1]) * 16 + HexToInt(text[2 * i])) % 256]

HexSubstring(text, start, length) == SubSeq(text, start + 1, start + length)

\* The number written with these digits; pow and the sum are exact in the range of int.
HexFromBytesToInt(text, start, length, radix) ==
  LET pow[i \in 0..length] == IF i = 0 THEN 1 ELSE radix * pow[i-1]
      result[i \in 0..length] ==
        IF i = 0 THEN 0 ELSE result[i-1] + pow[length-i] * HexToInt(text[start+i])
  IN  result[length]

Ones(byte) == Cardinality({i \in 1..8 : (byte \div <<1, 2, 4, 8, 16, 32, 64, 128>>[i]) % 2 = 1})

\* A byte with an even number of ones becomes its successor, or its predecessor where
\* the low digit is F.
HexParity(bytes) ==
  [i \in DOMAIN bytes |->
     IF Ones(bytes[i]) % 2 = 1 THEN bytes[i]
     ELSE IF bytes[i] % 16 = 15 THEN bytes[i] - 1 ELSE bytes[i] + 1]

\* Two decimal digits to a byte, the last of an odd number of them in the high half.
AscToBcd(text) ==
  [i \in 1..((Len(text) + 1) \div 2) |->
     HexToInt(text[2 * i - 1]) * 16 + (IF 2 * i <= Len(text) THEN HexToInt(text[2 * i]) ELSE 0)]

DecToBcd(dec) == (dec \div 10) * 16 + (dec % 10)
===============================================================================
