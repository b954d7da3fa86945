--------------------------- MODULE GfcBignumWords ---------------------------
(***************************************************************************)
(* The operations of src/gfc_bignum.c whose loops go from word to word.  A *)
(* number is a function from word positions, the least significant first,  *)
(* to words; each operation returns the number the code writes, modulo the *)
(* size of the whole.  Loops are recursive functions of the number of      *)
(* turns.                                                                  *)
(*                                                                         *)
(* Results are written to a number apart from the operands, as all callers *)
(* in the file do for mul, which clears its result first.                  *)
(***************************************************************************)
EXTENDS Integers

CONSTANTS Words,  \* BN_ARRAY_SIZE
          Base,   \* MAX_VAL + 1, the values of a word
  IntWords \* the words of an int, which has four octets: 4 \div WORD_SIZE

\* from_int fills two words.
ASSUME BignumWords ==
  /\ Words \in Nat /\ Words >= 2 /\ Base \in Nat /\ Base >= 2
  /\ IntWords \in 1..Words

VARIABLE operands  \* the two numbers of the call under way, or <<>>

Bn == [0..Words-1 -> 0..Base-1]

\* The number with word w(i) at place i; drawn from a set so that TLC computes it
\* at once.
Number(w(_)) == CHOOSE n \in {[i \in 0..Words-1 |-> w(i)]} : TRUE

\* What a number stands for: the sum of its words, each times the weight of its place.
Weight[i \in 0..2 * Words] == IF i = 0 THEN 1 ELSE Weight[i-1] * Base
Modulus == Weight[Words]

LowVal(x) ==
  LET sum[i \in 0..Words] == IF i = 0 THEN 0 ELSE sum[i-1] + x[i-1] * Weight[i-1]
  IN  sum
Val(x) == LowVal(x)[Words]

Zero == Number(LAMBDA i : 0)

\* The two words of a product of words; with WORD_SIZE 1 the code fills four, which only a
\* larger argument than the calls in the file pass would need.
FromInt(x) ==
  Number(LAMBDA i : IF i = 0 THEN x % Base
                    ELSE IF i = 1 THEN (x \div Base) % Base ELSE 0)

\* Mutant: the sum is taken as unsigned.
Signed_never(v, size) == v

\* What an int of size values makes of the sum v.
Signed(v, size) == IF 2 * v >= size THEN v - size ELSE v

\* The words an int has, added up at their places.
ToInt(n) == Signed(LowVal(n)[IntWords], Weight[IntWords])

IsZero(x) == \A i \in 0..Words-1 : x[i] = 0

\* Decided by the most significant words that differ.
\* Mutant: by the least significant ones.
Larger_low(x, y) ==
  \E i \in 0..Words-1 : x[i] > y[i] /\ \A j \in 0..i-1 : x[j] = y[j]

Larger(x, y) ==
  \E i \in 0..Words-1 : x[i] > y[i] /\ \A j \in i+1..Words-1 : x[j] = y[j]

Inc(x) ==
  Number(LAMBDA i : IF \A j \in 0..i-1 : x[j] = Base - 1 THEN (x[i] + 1) % Base
                    ELSE x[i])
Dec(x) ==
  Number(LAMBDA i : IF \A j \in 0..i-1 : x[j] = 0 THEN (x[i] + Base - 1) % Base
                    ELSE x[i])

\* What goes into each word from the one below it.
\* Mutant: a word that is just full carries as well.
Carry_early(x, y) ==
  LET carry[i \in 0..Words] ==
        IF i = 0 THEN 0
        ELSE IF x[i-1] + y[i-1] + carry[i-1] >= Base - 1 THEN 1 ELSE 0
  IN  carry

Carry(x, y) ==
  LET carry[i \in 0..Words] ==
        IF i = 0 THEN 0
        ELSE IF x[i-1] + y[i-1] + carry[i-1] > Base - 1 THEN 1 ELSE 0
  IN  carry

Borrow(x, y) ==
  LET borrow[i \in 0..Words] ==
        IF i = 0 THEN 0
        ELSE IF x[i-1] + Base - (y[i-1] + borrow[i-1]) <= Base - 1 THEN 1 ELSE 0
  IN  borrow

Add(x, y) ==
  LET carry == Carry(x, y)
  IN  Number(LAMBDA i : (x[i] + y[i] + carry[i]) % Base)

Sub(x, y) ==
  LET borrow == Borrow(x, y)
  IN  Number(LAMBDA i : (x[i] + Base - (y[i] + borrow[i])) % Base)

LshiftWord(x, n) == Number(LAMBDA i : IF i >= n THEN x[i-n] ELSE 0)
RshiftWord(x, n) == Number(LAMBDA i : IF i + n < Words THEN x[i+n] ELSE 0)

\* Row i: the products of word i of x with the words of y, added up at their places;
\* those beyond the last word are left out.
Row(x, y, i) ==
  LET row[j \in 0..Words] ==
        IF j = 0 THEN Zero
        ELSE IF i + j - 1 < Words
             THEN Add(LshiftWord(FromInt(x[i] * y[j-1]), i + j - 1), row[j-1])
        ELSE row[j-1]
  IN  row[Words]

Mul(x, y) ==
  LET sum[i \in 0..Words] == IF i = 0 THEN Zero ELSE Add(sum[i-1], Row(x, y, i - 1))
  IN  sum[Words]

BnInit == operands = <<>>

BnCall ==
  /\ operands = <<>>
  /\ operands' \in Bn \X Bn

BnReturn == operands # <<>> /\ operands' = <<>>

BnNext == BnCall \/ BnReturn

BnSpec == BnInit /\ [][BnNext]_operands

-----------------------------------------------------------------------------
(***************************************************************************)
(* add, sub, mul, inc and dec agree with the arithmetic of integers modulo *)
(* the size of a number, whatever carries and borrows run through the      *)
(* words and whatever words of a product are cut off; a subtraction undoes *)
(* an addition that overflowed; cmp orders numbers by their values, and    *)
(* two numbers that it calls equal are the same; to_int returns the signed *)
(* number of the size of an int that differs from the value by a multiple  *)
(* of that size, so a negative one for a value of half that size and more. *)
(***************************************************************************)
ArithmeticExact ==
  operands # <<>> =>
    LET a == operands[1]
        b == operands[2]
    IN  /\ Val(Add(a, b)) = (Val(a) + Val(b)) % Modulus
        /\ Val(Sub(a, b)) = (Val(a) - Val(b)) % Modulus
        /\ Val(Mul(a, b)) = (Val(a) * Val(b)) % Modulus
        /\ Sub(Add(a, b), b) = a
        /\ Val(Inc(a)) = (Val(a) + 1) % Modulus
        /\ Val(Dec(a)) = (Val(a) - 1) % Modulus
        /\ (ToInt(a) - Val(a)) % Weight[IntWords] = 0
        /\ -Weight[IntWords] <= 2 * ToInt(a) /\ 2 * ToInt(a) < Weight[IntWords]
        /\ Larger(a, b) <=> Val(a) > Val(b)
        /\ Val(a) = Val(b) => a = b
=============================================================================
