------------------------------- MODULE GfcText -------------------------------
(***************************************************************************)
(* A program that converts texts: one sample a step, from the sets of      *)
(* samples below.  What the conversions answer is compared with the        *)
(* encodings they stand for.                                               *)
(***************************************************************************)
EXTENDS GfcHex, GfcBase64, GfcUtf8

CONSTANTS
  FewBytes,      \* bytes that are combined with one another
  LongText,      \* bound: the longest text of equal bytes
  CodePoints,    \* characters that are combined with one another
  MaxChars       \* bound: characters in a string

\* The numbers of the characters.
CodePoint == {cp \in Nat : 0 < cp /\ cp < 1114112}
Byte == 0..255

ASSUME TextAssumption ==
  /\ FewBytes \subseteq Byte /\ LongText \in Nat
  /\ CodePoints \subseteq CodePoint /\ MaxChars \in Nat

VARIABLE sample

\* The bytes of a character, as UTF-8 defines them.
Utf8Bytes(cp) ==
  LET low(n) == 128 + ((cp \div n) % 64)
  IN  IF cp < 128 THEN <<cp>>
      ELSE IF cp < 2048 THEN <<192 + (cp \div 64), low(1)>>
      ELSE IF cp < 65536 THEN <<224 + (cp \div 4096), low(64), low(1)>>
      ELSE <<240 + (cp \div 262144), low(4096), low(64), low(1)>>

HexSamples == {<<b>> : b \in Byte} \cup FewBytes \X FewBytes
FewTexts == UNION {[1..n -> FewBytes] : n \in 1..4}
LongTexts == {[i \in 1..n |-> 200] : n \in 5..LongText}
Base64Samples == FewTexts \cup LongTexts
Utf8Samples == UNION {[1..n -> CodePoints] : n \in 0..MaxChars}

TextInit == sample = [kind |-> "none", value |-> <<>>]

TextNext ==
  /\ sample.kind = "none"
  /\ \/ \E v \in HexSamples : sample' = [kind |-> "hex", value |-> v]
     \/ \E v \in Base64Samples : sample' = [kind |-> "base64", value |-> v]
     \/ \E v \in Utf8Samples : sample' = [kind |-> "utf8", value |-> v]

TextSpec == TextInit /\ [][TextNext]_sample

\* The largest int.
INT_MAX == 2147483647

\* A byte printed as two digits reads back; the digits are those of the number, as far as an int
\* holds it, and their bits those of the binary numeral; decimals up to 99 pack into their two
\* digits; and every byte whose parity is corrected without a carry ends with an odd number of
\* ones.
HexExact(v) ==
  LET text == HexToString(v)
      number[i \in 0..Len(v)] == IF i = 0 THEN 0 ELSE 256 * number[i-1] + v[i]
  IN  /\ HexToBytes(text) = v
      /\ number[Len(v)] <= INT_MAX => HexFromBytesToInt(text, 0, Len(text), 16) = number[Len(v)]
      /\ HexFromBytesToInt(HexSubstring(text, Len(text) - 2, 2), 0, 2, 16) = Last(v)
      /\ \A ch \in Range(HexDigits) :
           /\ HexToChar(HexToInt(ch)) = ch /\ BitsToChar(HexToBits(ch)) = ch
           /\ HexFromBytesToInt([i \in 1..4 |-> HexDigits[HexToBits(ch)[i] + 1]], 0, 4, 2) = HexToInt(ch)
      /\ \A i \in DOMAIN v :
           /\ v[i] < 100 => AscToBcd(<<HexDigits[(v[i] \div 10) + 1], HexDigits[(v[i] % 10) + 1]>>)
                              = <<DecToBcd(v[i])>>
           /\ v[i] % 2 = 0 \/ v[i] % 16 = 15 => Ones(HexParity(v)[i]) % 2 = 1

\* What base64 writes reads back, and fits the buffer with its zero.
Base64Exact(v) ==
  /\ Decode64(Encode64(v)) = v
  /\ Len(Encode64(v)) + 1 <= EncodeRoom(Len(v))

\* A string of characters has their number as its length, begins with the bytes of the first,
\* and is cut into the bytes of each.
Utf8Exact(v) ==
  LET s == FlattenSeq([i \in DOMAIN v |-> Utf8Bytes(v[i])])
  IN  /\ Utf8Length(s) = Len(v)
      /\ v # <<>> => Utf8Initial(s).bytes = Utf8Bytes(v[1])
      /\ Utf8Convert(s) = [i \in DOMAIN v |-> Utf8Bytes(v[i])]
      /\ Len(v) = 1 => Utf8ConvertedLength(s) = Len(s)

\* Hexadecimal, base64 and UTF-8 (gfc_hex.c, gfc_base64.c, gfc_utf8.c) convert every sample
\* as the encodings define.
EncodingsExact ==
  /\ sample.kind = "hex" => HexExact(sample.value)
  /\ sample.kind = "base64" => Base64Exact(sample.value)
  /\ sample.kind = "utf8" => Utf8Exact(sample.value)
===============================================================================
