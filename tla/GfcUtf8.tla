------------------------------- MODULE GfcUtf8 -------------------------------
(***************************************************************************)
(* What gfc_utf8.c makes of a string of bytes: its length in characters,   *)
(* its first character, and its characters one by one.  A string is the    *)
(* sequence of its bytes before the terminating zero.                      *)
(***************************************************************************)
EXTENDS Integers, SequencesExt

Continuation(s, i) == i <= Len(s) /\ s[i] \div 64 = 2
Single(s) == s[1] < 128
Double(s) == s[1] \div 32 = 6 /\ Continuation(s, 2)
Triple(s) == s[1] \div 16 = 14 /\ Continuation(s, 2) /\ Continuation(s, 3)
Quadruple(s) ==
  s[1] \div 8 = 30 /\ Continuation(s, 2) /\ Continuation(s, 3) /\ Continuation(s, 4)

\* Mutant: bytes are counted that begin a character of several bytes.
Utf8Length_multi(s) == Cardinality({i \in DOMAIN s : s[i] >= 192})

Utf8Length(s) == Cardinality({i \in DOMAIN s : ~Continuation(s, i)})

\* The first character and the place of the zero that is written after it, counted
\* from one: the code writes it one place behind the end.
Utf8Initial(s) ==
  LET size == IF Single(s) THEN 1 ELSE IF Double(s) THEN 2 ELSE IF Triple(s) THEN 3
              ELSE IF Quadruple(s) THEN 4 ELSE 0
  IN  [bytes |-> SubSeq(s, 1, size), zero |-> size + 2]

\* How many bytes convert takes at place i: it looks at the first byte only.
Utf8Size(s, i) ==
  IF s[i] >= 240 THEN 4 ELSE IF s[i] >= 224 THEN 3 ELSE IF s[i] >= 192 THEN 2 ELSE 1

\* The places where the loop of convert begins a character: the first, and each that lies behind
\* a character it took.
Utf8Convert(s) ==
  LET next[i \in 1..Len(s)] ==
        LET rest == i + Utf8Size(s, i)
        IN  <<SubSeq(s, i, rest - 1)>> \o (IF rest > Len(s) THEN <<>> ELSE next[rest])
  IN  IF s = <<>> THEN <<>> ELSE next[1]

\* The field that should be the number of characters ends as the size of the last one.
Utf8ConvertedLength(s) == IF s = <<>> THEN 0 ELSE Len(Last(Utf8Convert(s)))
===============================================================================
