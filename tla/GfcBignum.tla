------------------------------ MODULE GfcBignum ------------------------------
(***************************************************************************)
(* The operations of src/gfc_bignum.c that are made of those of            *)
(* GfcBignumWords and of the bits of words: shifts, division, powers,      *)
(* roots and texts.                                                        *)
(***************************************************************************)
EXTENDS GfcBignumWords, Sequences, Bitwise

CONSTANTS WordBits,   \* 8 * WORD_SIZE
          WordDigits, \* 2 * WORD_SIZE, the digits of a word as text
          DigitBits,  \* 4
          MaxPower    \* bound: exponents of pow that are compared

ASSUME BignumSizes == /\ WordBits \in Nat \ {0} /\ Base = 2^WordBits
                      /\ WordDigits \in Nat \ {0} /\ DigitBits \in Nat \ {0}
                      /\ WordDigits * DigitBits = WordBits /\ WordDigits % 2 = 0
                      /\ MaxPower \in Nat

Bits == Words * WordBits
Digit == 2^DigitBits

BnAnd(x, y) == Number(LAMBDA i : x[i] & y[i])
BnOr(x, y) == Number(LAMBDA i : x[i] | y[i])
BnXor(x, y) == Number(LAMBDA i : x[i] ^^ y[i])

\* By n bits, fewer than a word has.
LshiftBits(x, n) ==
  Number(LAMBDA i : ((x[i] * 2^n) % Base)
                    | (IF i = 0 THEN 0 ELSE x[i-1] \div 2^(WordBits - n)))
RshiftBits(x, n) ==
  Number(LAMBDA i : (x[i] \div 2^n)
                    | (IF i = Words - 1 THEN 0 ELSE ((x[i+1] * 2^(WordBits - n)) % Base)))

Lshift(x, n) == LshiftBits(LshiftWord(x, n \div WordBits), n % WordBits)

Rshift(x, n) == RshiftBits(RshiftWord(x, n \div WordBits), n % WordBits)

\* gfc_bignum_div first doubles denom and current until denom exceeds x, or the
\* next doubling would overflow.
Doubled(x, y) ==
  LET up[n \in 0..Bits] ==
        IF n = 0 THEN [current |-> FromInt(1), denom |-> y, overflow |-> FALSE]
        ELSE LET s == up[n-1]
             IN  IF s.overflow \/ Larger(s.denom, x) THEN s
                 ELSE IF s.denom[Words-1] >= Base \div 2 THEN [s EXCEPT !.overflow = TRUE]
                 ELSE [s EXCEPT !.current = LshiftBits(@, 1), !.denom = LshiftBits(@, 1)]
      s == up[Bits]
  IN  IF s.overflow THEN s
      ELSE [s EXCEPT !.current = RshiftBits(@, 1), !.denom = RshiftBits(@, 1)]

\* Then it halves them again and subtracts wherever it can.  With y zero the
\* code never returns.
Div(x, y) ==
  LET down[n \in 0..Bits] ==
        IF n = 0 THEN [c |-> Zero, tmp |-> x,
                       current |-> Doubled(x, y).current, denom |-> Doubled(x, y).denom]
        ELSE LET s == down[n-1]
                 half == [s EXCEPT !.current = RshiftBits(@, 1), !.denom = RshiftBits(@, 1)]
             IN  IF IsZero(s.current) THEN s
                 ELSE IF Larger(s.denom, s.tmp) THEN half
                 ELSE [half EXCEPT !.tmp = Sub(@, s.denom), !.c = BnOr(@, s.current)]
  IN  down[Bits].c

Mod(x, y) == Sub(x, Mul(Div(x, y), y))

Ends(left, n) == IsZero(left[n]) /\ \A m \in 0..n-1 : ~IsZero(left[m])

\* One multiplication for each decrement of the exponent.
Pow(x, y) ==
  LET left[n \in Nat] == IF n = 0 THEN Dec(y) ELSE Dec(left[n-1])
      tmp[n \in Nat] == IF n = 0 THEN x ELSE Mul(tmp[n-1], x)
  IN  IF IsZero(y) THEN Inc(Zero) ELSE tmp[CHOOSE n \in 0..Modulus : Ends(left, n)]

\* Mutant: the middle is rounded down.
Middle_down(low, high) == Add(low, RshiftBits(Sub(high, low), 1))

Middle(low, high) == Inc(Add(low, RshiftBits(Sub(high, low), 1)))

\* The bisection of gfc_bignum_isqrt, at most one turn for each bit.
Isqrt(x) ==
  LET turn[n \in 0..Bits] ==
        IF n = 0 THEN [low |-> Zero, high |-> x, mid |-> Inc(Rshift(x, 1))]
        ELSE LET s == turn[n-1]
                 t == IF Larger(Mul(s.mid, s.mid), x) THEN [s EXCEPT !.high = Dec(s.mid)]
                      ELSE [s EXCEPT !.low = s.mid]
             IN  IF Larger(s.high, s.low) THEN [t EXCEPT !.mid = Middle(t.low, t.high)]
                 ELSE s
  IN  turn[Bits].low

\* All digits of a number, the most significant first.
Digits(x) ==
  [p \in 1..Words * WordDigits |->
     LET word == x[Words - 1 - ((p - 1) \div WordDigits)]
     IN  (word \div Digit^(WordDigits - 1 - ((p - 1) % WordDigits))) % Digit]

\* The words gfc_bignum_to_string writes to a buffer of nbytes before its loop ends.
TextWords(nbytes) ==
  CHOOSE k \in 0..Words : \A j \in 0..Words-1 : j < k <=> nbytes > j * WordDigits + 1

Printed(x, nbytes) == SubSeq(Digits(x), 1, TextWords(nbytes) * WordDigits)

\* How many digits are skipped at the front of a text.
\* Mutant: only a zero in the first place is skipped.
LeadingZeros_first(t) == IF t[1] = 0 THEN 1 ELSE 0

LeadingZeros(t) ==
  CHOOSE n \in 0..Len(t) : (\A i \in 1..n : t[i] = 0) /\ (n < Len(t) => t[n + 1] # 0)

\* The text in the buffer, up to its closing zero.
ToText(x, nbytes) ==
  LET printed == Printed(x, nbytes)
  IN  SubSeq(printed, LeadingZeros(printed) + 1,
             IF Len(printed) < nbytes THEN Len(printed) ELSE nbytes)

\* The octets written from the start of the buffer on: the digits with the zero sprintf puts
\* behind them, and the closing zero, which stands behind what was moved.
TextWritten(x, nbytes) ==
  LET printed == Printed(x, nbytes)
      moved == nbytes - LeadingZeros(printed)
  IN  1 + IF moved > Len(printed) THEN moved ELSE Len(printed)

\* What the calls of require ask of a text; the process ends on another.
Accepted(t) == Len(t) > 0 /\ Len(t) % 2 = 0 /\ Len(t) % WordDigits = 0

\* Words are read from the end of a text that is accepted.
FromText(t) ==
  [i \in 0..Words-1 |->
     LET last == Len(t) - i * WordDigits
         read[d \in 0..WordDigits] ==
           IF d = 0 THEN 0 ELSE read[d-1] * Digit + t[last - WordDigits + d]
     IN  IF last <= 0 THEN 0 ELSE read[WordDigits]]

-----------------------------------------------------------------------------
Power(x, n) == IF n = 0 THEN 1 ELSE x^n

\* Shifts by any number of bits, whole words and more than the number has included,
\* multiply and divide by powers of two.
ShiftsExact(a) ==
  \A n \in 0..Bits + 1 :
    /\ Val(Lshift(a, n)) = (Val(a) * 2^n) % Modulus
    /\ Val(Rshift(a, n)) = Val(a) \div 2^n

\* In a buffer that takes all digits the text of a number has no leading zero and, filled up
\* with zeros to whole words, reads back as the same number; but the text of zero is empty,
\* which from_string does not take.  The buffer must have two octets more than all digits,
\* and then the closing zero still stands behind it when there is no leading zero to skip.
TextExact(a) ==
  LET all == Words * WordDigits
      Filled(t) == [i \in 1..((WordDigits - (Len(t) % WordDigits)) % WordDigits) |-> 0] \o t
  IN  \A nbytes \in {all, all + 2} :
        LET t == ToText(a, nbytes)
        IN  /\ IF IsZero(a) THEN t = <<>> ELSE t # <<>> /\ t[1] # 0
            /\ Accepted(Filled(t)) <=> ~IsZero(a)
            /\ Accepted(Filled(t)) => FromText(Filled(t)) = a
            /\ TextWritten(a, nbytes) <= nbytes <=> nbytes > all /\ a[Words-1] < Base \div Digit

\* The integer square root, as long as the square of isqrt's first guess, half of the number
\* and one, does not overflow.
RootExact(a) ==
  LET v == Val(a)
      r == Val(Isqrt(a))
  IN  (v \div 2 + 1) * (v \div 2 + 1) < Modulus => r * r <= v /\ v < (r + 1) * (r + 1)

(***************************************************************************)
(* div and mod return the quotient and the remainder, also when the        *)
(* doubled divisor reaches the top bit of the number; isqrt, which bisects *)
(* by div, ends with the integer root where nothing overflows; pow         *)
(* multiplies as often as its exponent says; xor and and split a sum into  *)
(* its bits and its carries; shifts multiply and divide by powers of two;  *)
(* a number's text reads back as the number.                               *)
(***************************************************************************)
AlgorithmsExact ==
  operands # <<>> =>
    LET a == operands[1]
        b == operands[2]
    IN  /\ IF IsZero(b) THEN RootExact(a) /\ ShiftsExact(a) /\ TextExact(a)
           ELSE /\ Val(Div(a, b)) = Val(a) \div Val(b)
                /\ Val(Mod(a, b)) = Val(a) % Val(b)
        /\ Add(BnXor(a, b), LshiftBits(BnAnd(a, b), 1)) = Add(a, b)
        /\ Val(b) <= MaxPower => Val(Pow(a, b)) = Power(Val(a), Val(b)) % Modulus
=============================================================================
