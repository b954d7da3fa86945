------------------------------ MODULE GfcBase64 ------------------------------
(***************************************************************************)
(* Base64 as gfc_base64.c writes and reads it, with a line feed after      *)
(* every 72 characters and at the end.  A character of the alphabet is its *)
(* place in base64_table.                                                  *)
(***************************************************************************)
EXTENDS Integers, SequencesExt

CONSTANTS
  Pad,           \* the character =
  Feed           \* the line feed; any character outside the alphabet is skipped like it

ASSUME Base64Assumption == Pad \notin Nat /\ Feed \notin Nat /\ Pad # Feed

LineLength == 72
Symbols == 0..63
NULL64 == <<"NULL">>

\* The byte with number i of a text, zero behind its end.
Byte64(src, i) == IF i <= Len(src) THEN src[i] ELSE 0

\* Mutant: a last group of two bytes gets two pads.
Group_two_pads(src, g) ==
  LET a == Byte64(src, 3 * g - 2)
      b == Byte64(src, 3 * g - 1)
      c == Byte64(src, 3 * g)
  IN  <<a \div 4, (a % 4) * 16 + (b \div 16),
        IF 3 * g - 1 >= Len(src) THEN Pad ELSE (b % 16) * 4 + (c \div 64),
        IF 3 * g > Len(src) THEN Pad ELSE c % 64>>

\* The four characters of the g-th group of three bytes; a short last group is padded.
Group(src, g) ==
  LET a == Byte64(src, 3 * g - 2)
      b == Byte64(src, 3 * g - 1)
      c == Byte64(src, 3 * g)
  IN  <<a \div 4, (a % 4) * 16 + (b \div 16),
        IF 3 * g - 1 > Len(src) THEN Pad ELSE (b % 16) * 4 + (c \div 64),
        IF 3 * g > Len(src) THEN Pad ELSE c % 64>>

Encode64(src) ==
  LET groups == (Len(src) + 2) \div 3
  IN  FlattenSeq([g \in 1..groups |->
        IF (4 * g) % LineLength = 0 \/ g = groups THEN Append(Group(src, g), Feed) ELSE Group(src, g)])

\* The buffer that is allocated for the text and its terminating zero.
EncodeRoom(len) ==
  LET olen == (len * 4) \div 3 + 4
  IN  olen + (olen \div LineLength) + 1

\* The value of a character in dtable, where = counts as zero.
Value64(s) == IF s = Pad THEN 0 ELSE s

\* The characters that are not skipped.
Known64(text) ==
  FlattenSeq([i \in DOMAIN text |-> IF text[i] \in Symbols \cup {Pad} THEN <<text[i]>> ELSE <<>>])

\* Of the g-th group of four: the pads, and the three bytes.
Pads64(known, g) == Cardinality({i \in 1..4 : known[4 * (g - 1) + i] = Pad})
Bytes64(known, g) ==
  LET v == [i \in 1..4 |-> Value64(known[4 * (g - 1) + i])]
  IN  <<(v[1] * 4 + (v[2] \div 16)) % 256, (v[2] * 16 + (v[3] \div 4)) % 256,
        (v[3] * 64 + v[4]) % 256>>

\* Decode groups of four up to the first that has pads, and take as many bytes back as it has.
Decode64(text) ==
  LET known == Known64(text)
      count == Len(known) \div 4
      padded == {g \in 1..count : Pads64(known, g) > 0}
      last == IF padded = {} THEN count ELSE Min(padded)
      out == FlattenSeq([g \in 1..last |-> Bytes64(known, g)])
  IN  IF count = 0 \/ Len(known) % 4 # 0 THEN NULL64
      ELSE IF Pads64(known, last) > 2 THEN NULL64
      ELSE SubSeq(out, 1, Len(out) - Pads64(known, last))
===============================================================================
